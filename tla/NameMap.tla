------------------------------- MODULE NameMap -------------------------------
(***************************************************************************)
(* What the calls of drivers/fs/fat32.c that take a name promise: the root *)
(* directory is a map from names to files, each with its attributes and    *)
(* its cells.  A call that answers TRUE has done what it is for; one that  *)
(* answers FALSE has changed nothing, unless it is one that makes a file.  *)
(*                                                                         *)
(* The promise ends (sound becomes false) with a failed transfer or a call *)
(* the driver does not cope with.                                          *)
(***************************************************************************)
EXTENDS Integers, Sequences, SequencesExt

CONSTANTS
    Names,
    Unseen,         \* the names that are never found once they are given
    Attributes,     \* what a file's attributes may be, each a set
    Hiding,         \* the attributes that keep a file from being found
    SectorSize      \* a copy is so many cells at a time

VARIABLES
    files,          \* files[n].attr and files[n].cells, for the names in use
    open,           \* the name of the file that is open: a set of one or none
    copying,        \* the copy in progress: a set of one or none
    answer,         \* what the last step answered to a call with a name
    sound           \* the promise holds

vars == <<files, open, copying, answer, sound>>

No == [ok |-> FALSE, attr |-> {}, size |-> 0]
Yes == [No EXCEPT !.ok = TRUE]

Used == DOMAIN files
Without(n) == [m \in Used \ {n} |-> files[m]]

\* map with the file f by the name of n, unless that cannot be found.
With(map, n, f) ==
    IF n \in Unseen \/ f.attr \in Hiding THEN map
    ELSE [m \in DOMAIN map \cup {n} |-> IF m = n THEN f ELSE map[m]]

Empty(a) == [attr |-> a, cells |-> <<>>]
Init ==
    /\ \A n \in Used : n \in Names \ Unseen /\ files[n].attr \in Attributes \ Hiding
    /\ open = {} /\ copying = {} /\ answer = No /\ sound = TRUE

\* A call that changes nothing.
Call(result) == answer' = result /\ UNCHANGED <<open, copying, files>>

\* A new file, which is opened, or not, or not before the call failed.
Create(n) ==
    /\ answer' \in {Yes, No} /\ copying = {} /\ n \notin Used
    /\ \E a \in Attributes : files' = With(files, n, Empty(a))
    /\ open' \in {open, {n}}
    /\ UNCHANGED copying

Delete(n) ==
    /\ answer' = Yes /\ copying = {} /\ n \in Used
    /\ files' = Without(n) /\ open' = open \ {n}
    /\ UNCHANGED copying

\* A file that is open stays open, by its new name.
Rename(o, n) ==
    /\ answer' = Yes /\ copying = {} /\ o \in Used /\ n \notin Used
    /\ files' = With(Without(o), n, files[o])
    /\ open' = IF o \in open THEN {n} \ Unseen ELSE open
    /\ UNCHANGED copying

SetAttributes(n) ==
    /\ answer' = Yes /\ copying = {} /\ n \in Used
    /\ \E a \in Attributes : files' = With(Without(n), n, [files[n] EXCEPT !.attr = a])
    /\ open' = open \cap DOMAIN files'
    /\ UNCHANGED copying

Tell(n) ==
    /\ answer'.ok /\ n \in Used
    /\ Call([ok |-> TRUE, attr |-> files[n].attr, size |-> Len(files[n].cells)])

Open(n) ==
    /\ open' = {n} /\ n \in Used
    /\ answer' = Yes /\ UNCHANGED <<files, copying>>

\* What was appended to the open file is saved, if the disk takes it.
Close ==
    /\ answer' = No /\ open' = {} /\ copying = {} /\ UNCHANGED copying
    /\ DOMAIN files' = Used
    /\ \A n \in Used : /\ files'[n].attr = files[n].attr
                       /\ IF n \in open THEN IsPrefix(files[n].cells, files'[n].cells)
                                        ELSE files'[n] = files[n]

\* The target of a copy is there, with nothing in it, until the copy ends.
StartCopy(o, n) ==
    /\ copying = {}
    /\ copying' = {[from |-> o, to |-> n, failed |-> FALSE]}
    /\ o \in Used /\ n \notin Used \cup Unseen
    /\ files' = With(files, n, Empty({}))
    /\ answer' = No /\ UNCHANGED open

FailCopy(c) ==
    /\ copying' = {[c EXCEPT !.failed = TRUE]}
    /\ answer' = No /\ UNCHANGED <<files, open>>

\* A copy has all of the file, and what it takes to fill the last sector.
Copied(old, new) == IsPrefix(old, new) /\ Len(new) < Len(old) + SectorSize

\* The target is closed.  Of a directory nothing is copied.
EndCopy(c) ==
    /\ c.to \in Used
    /\ \E f \in {files'[n] : n \in {c.to} \cap DOMAIN files'} :
          /\ files' = [files EXCEPT ![c.to].cells = f.cells]
          /\ \/ c.failed \/ "directory" \in files[c.from].attr
             \/ Copied(files[c.from].cells, f.cells)
    /\ copying' = {}
    /\ answer' \in {Yes, No}
    /\ UNCHANGED open

\* A write failed, or the machine stopped.
StopCopy(c) ==
    /\ \/ UNCHANGED files
       \/ /\ c.to \in DOMAIN files'
          /\ files' = [files EXCEPT ![c.to].cells = files'[c.to].cells]
    /\ copying' = {} /\ answer' = No /\ UNCHANGED open

Crash == open' = {} /\ copying' = {} /\ answer' = No /\ UNCHANGED files

\* From here on nothing is promised.
Break == ~sound'

Answers ==
    \/ Call(No)
    \/ \E n \in Names : Tell(n) \/ Open(n)
    \/ \E c \in copying : FailCopy(c)
    \/ Crash

Changes ==
    \/ Close
    \/ \E n \in Names : \/ Delete(n) \/ Create(n) \/ SetAttributes(n)
                        \/ \E o \in Names : Rename(o, n) \/ StartCopy(o, n)
    \/ \E c \in copying : EndCopy(c) \/ StopCopy(c)

Next == Break \/ (sound /\ UNCHANGED sound /\ (Answers \/ Changes))

Spec == Init /\ [][Next]_vars
=============================================================================
