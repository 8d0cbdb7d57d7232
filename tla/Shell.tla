------------------------------- MODULE Shell -------------------------------
(***************************************************************************)
(* The shell of kernel/shell.c: shell_process_char takes the keys of a     *)
(* serial terminal one by one, edits a line, remembers the lines entered   *)
(* in a ring, splits a line into words and runs the command the first one  *)
(* names.                                                                  *)
(*                                                                         *)
(* The VT100 at the other end is part of the model: a row of its screen,   *)
(* the cursor, and the margin, where it goes on in the next row or stays.  *)
(* The shell keeps no count of columns.  Nothing in the kernel calls it    *)
(* yet; its interface is what is modelled.                                 *)
(***************************************************************************)
EXTENDS Integers, Sequences

CONSTANTS
    Printable,      \* the characters 32 to 126
    Blank,          \* ' '
    Bracket, KeyUp, KeyDown,    \* '[', 'A' and 'B', after ESC
    ESC, NL, BS,    \* 0x1B; '\n' or '\r'; '\b'
    Other,          \* any other character
    MAX_CMD_LEN,    \* size of the line's buffer, with its terminator (256)
    MAX_ARGS,       \* words a line is split into at most (16)
    MAX_HISTORY,    \* lines of the ring (10)
    HISTORY, ECHO,  \* the names of two commands
    PROMPT,         \* "MWOS> "
    Terminals       \* rows of so many columns (80 or 132), that wrap or stick

ASSUME ShellAssumption ==
    /\ MAX_CMD_LEN \in Nat \ {0} /\ MAX_ARGS \in Nat \ {0} /\ MAX_HISTORY \in Nat \ {0}
    /\ Blank \in Printable
    /\ {ESC, NL, BS, Other} \cap Printable = {}
    /\ ESC \notin {NL, BS, Other} /\ NL \notin {BS, Other} /\ BS # Other
    /\ PROMPT \in Seq(Printable)
    /\ Terminals \subseteq [columns : Nat, wraps : BOOLEAN]
    /\ \A t \in Terminals : t.columns >= 2 /\ t.columns > Len(PROMPT)

Keys == Printable \cup {ESC, NL, BS, Other}
Slots == 0 .. MAX_HISTORY - 1

VARIABLES
    input_buffer,   \* the line, buffer_pos characters of the buffer
    history, history_count, history_index, history_pos,
    escape_state,
    output,         \* the lines the last key made a command print
    terminal,       \* its columns, and whether it wraps at the margin or sticks
    above,          \* the rows full of what the shell put there last, one text
    shown,          \* the row of the cursor
    cursor,         \* its column; columns: behind the last character of a row
    astray          \* since the line was last put whole, it met the margin
                    \* where the shell takes no account of it

display == <<above, shown, cursor, astray>>
screen == <<terminal, display>>
state == <<input_buffer, history, history_count, history_index, history_pos, escape_state>>
vars == <<state, output, screen>>

----------------------------------------------------------------------------
(* shell_execute_command.                                                  *)

Begins(l, i) == l[i] # Blank /\ i > 1 /\ l[i - 1] = Blank

\* The words of a line: argv[0] is at its begin, even if a blank is.  A word
\* ends before a blank; the last one there is room for, at the end of the line.
Argv(l) ==
    LET start[i \in 0 .. Len(l)] ==
          IF i = 0 THEN <<1>>
          ELSE IF Len(start[i - 1]) < MAX_ARGS /\ Begins(l, i)
               THEN Append(start[i - 1], i) ELSE start[i - 1]
        at == start[Len(l)]
        last(k) == CHOOSE e \in at[k] - 1 .. Len(l) :
                     /\ e < Len(l) => l[e + 1] = Blank
                     /\ \A i \in at[k] .. e : l[i] # Blank
    IN  [k \in 1 .. Len(at) |->
            SubSeq(l, at[k], IF k = MAX_ARGS THEN Len(l) ELSE last(k))]

\* cmd_history, cmd_echo, the commands that print something fixed, and "not
\* found", by the words of a line and the lines the history has.
Reply(argv, listing) ==
    IF argv[1] = HISTORY THEN listing
    ELSE IF argv[1] = ECHO THEN Tail(argv)
    ELSE <<argv[1]>>

\* What a line prints.
Answers(l, listing) == Reply(Argv(l), listing)

\* cmd_history goes through the ring from the oldest line.
Listing(slots, pos, count) ==
    [i \in 1 .. count |-> slots[(pos + MAX_HISTORY - count + (i - 1)) % MAX_HISTORY]]

----------------------------------------------------------------------------
(* What the terminal shows.                                                *)

Cut(text, n) == SubSeq(text, 1, n)
Beyond(text, n) == SubSeq(text, n + 1, Len(text))

\* Text that is printed from a column of a row on.  It fits; it goes on in the
\* rows below; or its characters all go to the last column.
Put(up, row, column, text) ==
    LET all  == Cut(row, column) \o text
        full == ((Len(all) - 1) \div terminal.columns) * terminal.columns
    IN  \/ /\ Len(all) <= terminal.columns
           /\ above' = up /\ shown' = all \o Beyond(row, Len(all)) /\ cursor' = Len(all)
        \/ /\ Len(all) > terminal.columns /\ terminal.wraps
           /\ above' = up \o Cut(all, full)
           /\ shown' = Beyond(all, full) /\ cursor' = Len(all) - full
        \/ /\ Len(all) > terminal.columns /\ ~terminal.wraps
           /\ above' = up
           /\ shown' = Append(Cut(all, terminal.columns - 1), all[Len(all)])
           /\ cursor' = terminal.columns

Sticks(column, text) == ~terminal.wraps /\ column + Len(text) > terminal.columns

\* ESC [ K: the row up to the cursor stays, but for its last column.
Cleared == Cut(shown, IF cursor = terminal.columns THEN cursor - 1 ELSE cursor)

\* Mutant: the cursor does not go back to the start of the row first.
RefreshInPlace(l) ==
    /\ Put(above, Cleared, Len(Cleared), PROMPT \o l)
    /\ astray' = (astray \/ Sticks(Len(Cleared), PROMPT \o l))

\* shell_refresh_line: clears what is right of the cursor, and only then goes
\* back to the start of the row, not of the line, and prints prompt and line.
Refresh(l) ==
    /\ Put(<<>>, Cleared, 0, PROMPT \o l)
    /\ astray' = Sticks(0, PROMPT \o l)

\* A prompt on a row of its own.
Prompt ==
    /\ above' = <<>> /\ shown' = PROMPT /\ cursor' = Len(PROMPT)
    /\ astray' = FALSE

\* '\b' does not leave the row, nor does it count the column behind the last.
Left == IF cursor = 0 THEN 0
        ELSE IF cursor = terminal.columns THEN cursor - 2 ELSE cursor - 1

----------------------------------------------------------------------------
(* The history.                                                            *)

Latest == history[(history_pos + MAX_HISTORY - 1) % MAX_HISTORY]

\* Mutant: the eleventh line is counted too.
SaveUncapped(l) ==
    IF history_count > 0 /\ l = Latest
    THEN UNCHANGED <<history, history_pos, history_count>>
    ELSE /\ history' = [history EXCEPT ![history_pos] = l]
         /\ history_pos' = (history_pos + 1) % MAX_HISTORY
         /\ history_count' = history_count + 1

\* shell_save_to_history, but for history_index: its caller sets it again.
Save(l) ==
    IF history_count > 0 /\ l = Latest
    THEN UNCHANGED <<history, history_pos, history_count>>
    ELSE /\ history' = [history EXCEPT ![history_pos] = l]
         /\ history_pos' = (history_pos + 1) % MAX_HISTORY
         /\ history_count' = IF history_count < MAX_HISTORY THEN history_count + 1
                             ELSE history_count

\* The line of the ring that history_index means.
Viewed(index) == history[(history_pos + MAX_HISTORY - (history_count - index)) % MAX_HISTORY]

ring == <<history, history_count, history_pos>>

\* shell_show_history_up
Up ==
    IF history_index > 0
    THEN /\ history_index' = history_index - 1
         /\ input_buffer' = Viewed(history_index - 1)
         /\ Refresh(input_buffer')
    ELSE UNCHANGED <<history_index, input_buffer, display>>

\* shell_show_history_down: past the newest line the buffer stays.
Down ==
    IF history_index < history_count
    THEN /\ history_index' = history_index + 1
         /\ input_buffer' = IF history_index + 1 = history_count THEN input_buffer
                            ELSE Viewed(history_index + 1)
         /\ Refresh(input_buffer')
    ELSE UNCHANGED <<history_index, input_buffer, display>>

----------------------------------------------------------------------------
(* shell_process_char.                                                     *)

\* After ESC.
Escaped(c) ==
    /\ escape_state = 1
    /\ escape_state' = IF c = Bracket THEN 2 ELSE 0
    /\ output' = <<>>
    /\ UNCHANGED <<input_buffer, ring, history_index, screen>>

\* After ESC and '['.
Arrow(c) ==
    /\ escape_state = 2
    /\ escape_state' = 0
    /\ IF c = KeyUp THEN Up
       ELSE IF c = KeyDown THEN Down
       ELSE UNCHANGED <<history_index, input_buffer, display>>
    /\ output' = <<>>
    /\ UNCHANGED <<ring, terminal>>

Escape ==
    /\ escape_state = 0
    /\ escape_state' = 1
    /\ output' = <<>>
    /\ UNCHANGED <<input_buffer, ring, history_index, screen>>

\* Enter: the line is remembered, and then run.
Enter ==
    /\ escape_state = 0 /\ input_buffer # <<>>
    /\ Save(input_buffer)
    /\ output' = Answers(input_buffer, Listing(history', history_pos', history_count'))
    /\ input_buffer' = <<>>
    /\ history_index' = history_count'
    /\ Prompt
    /\ UNCHANGED <<escape_state, terminal>>

EnterNothing ==
    /\ escape_state = 0 /\ input_buffer = <<>>
    /\ output' = <<>>
    /\ Prompt
    /\ UNCHANGED <<state, terminal>>

\* "\b \b": a blank over the last character, unless that is beyond the margin.
Erase ==
    /\ escape_state = 0 /\ input_buffer # <<>>
    /\ input_buffer' = Cut(input_buffer, Len(input_buffer) - 1)
    /\ shown' = Append(Cut(shown, Left), Blank) \o Beyond(shown, Left + 1)
    /\ cursor' = Left
    /\ astray' = (astray \/ cursor \in {0, terminal.columns})
    /\ output' = <<>>
    /\ UNCHANGED <<ring, history_index, escape_state, terminal, above>>

Type(c) ==
    /\ escape_state = 0 /\ c \in Printable
    /\ Len(input_buffer) < MAX_CMD_LEN - 1
    /\ input_buffer' = Append(input_buffer, c)
    /\ Put(above, shown, cursor, <<c>>)
    /\ astray' = (astray \/ Sticks(cursor, <<c>>))
    /\ output' = <<>>
    /\ UNCHANGED <<ring, history_index, escape_state, terminal>>

\* A full line, nothing to erase, or a character that is none.
Ignore(c) ==
    /\ escape_state = 0
    /\ \/ c \in Printable /\ Len(input_buffer) >= MAX_CMD_LEN - 1
       \/ c = BS /\ input_buffer = <<>>
       \/ c = Other
    /\ output' = <<>>
    /\ UNCHANGED <<state, screen>>

shell_process_char(c) ==
    \/ Escaped(c) \/ Arrow(c)
    \/ c = ESC /\ Escape
    \/ c = NL /\ (Enter \/ EnterNothing)
    \/ c = BS /\ Erase
    \/ Type(c)
    \/ Ignore(c)

\* shell_init
Init ==
    /\ input_buffer = <<>>
    /\ history = [s \in Slots |-> <<>>]
    /\ history_count = 0 /\ history_index = 0 /\ history_pos = 0
    /\ escape_state = 0
    /\ output = <<>>
    /\ terminal \in Terminals
    /\ above = <<>> /\ shown = PROMPT /\ cursor = Len(PROMPT)
    /\ astray = FALSE

Next == \E c \in Keys : shell_process_char(c)

Spec == Init /\ [][Next]_vars

----------------------------------------------------------------------------
(* Correctness.                                                            *)

Text == Seq(Printable)
Line == {l \in Text : Len(l) < MAX_CMD_LEN}

TypeOK ==
    /\ input_buffer \in Line
    /\ history \in [Slots -> Line]
    /\ history_count \in 0 .. MAX_HISTORY /\ history_index \in 0 .. history_count
    /\ history_pos \in Slots
    /\ escape_state \in 0 .. 2
    /\ terminal \in Terminals
    /\ above \in Text /\ shown \in Text
    /\ cursor \in 0 .. terminal.columns /\ cursor <= Len(shown)
    /\ astray \in BOOLEAN

\* The screen, read row by row up to the cursor, ends with the prompt and the
\* line the shell has, also where they take several rows and after every recall
\* of another line.  That is so from each prompt or recall on until the terminal
\* sticks at the margin, or a character is erased whose place is not the one
\* left of the cursor in its row: the last column's, or one in the row above.
\* (Behind the cursor there may be the end of a longer line; above, the rows of
\* a line that a recall left there.)
LineShown == ~astray => above \o Cut(shown, cursor) = PROMPT \o input_buffer

\* The ring, the two counters and the index are a list of the last lines
\* entered and a place in it; history prints that list, and the arrows move
\* through it.
Lines == Listing(history, history_pos, history_count)

List == INSTANCE LineHistory WITH
    Chars      <- Printable,
    MaxLine    <- MAX_CMD_LEN - 1,
    MaxHistory <- MAX_HISTORY,
    Answer     <- Answers,
    line       <- input_buffer,
    lines      <- Lines,
    back       <- history_count - history_index,
    answer     <- output

IsLineHistory == List!Spec
=============================================================================
