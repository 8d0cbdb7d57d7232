-------------------------------- MODULE Boot --------------------------------
(***************************************************************************)
(* The boot loader, boot/boot.c and boot/efi_utils.c: it loads the kernel, *)
(* picks a graphics mode, takes the memory map, leaves boot services and   *)
(* enters the kernel, which reads the map (pmm_init).                      *)
(*                                                                         *)
(* The firmware changes its memory map whenever it allocates: each map has *)
(* a key of its own, and boot services end only for the key in force.  A   *)
(* descriptor is the pair of its map's key and its number.                 *)
(***************************************************************************)
EXTENDS Integers, Sequences

CONSTANTS
    ModeLists,      \* the graphics modes a machine may have: sequences of sizes
    MaxCount,       \* bound: descriptors in a map
    MaxChanges      \* bound: changes of the map

Target == [w |-> 1920, h |-> 1080]
Least == [w |-> 1024, h |-> 768]
Vga == [w |-> 320, h |-> 200]
Sizes == [w : Nat, h : Nat]

ASSUME BootAssumption ==
    /\ ModeLists \subseteq Seq(Sizes) \ {<<>>}
    /\ MaxCount \in Nat \ {0} /\ MaxChanges \in Nat

VARIABLES
    pc,             \* where the loader is
    image,          \* the kernel at gKernelBase: "none", "whole" or "part"
    base,           \* gKernelBase: the address it is linked for or another one
    \* the graphics protocol and what the loader makes of it
    modes, mode,    \* gop's modes, and the one it is in; 0: no protocol
    refused,        \* modes that the protocol did not describe or set
    best_mode,
    screen,         \* params: framebuffer_width and _height
    \* the memory map
    key, count,     \* the map in force
    memory_map_size, map_key,
    memory_map      \* what is at memory_map

gop == <<modes, mode, refused, best_mode, screen>>
efi == <<key, count>>
map == <<memory_map_size, map_key, memory_map>>
vars == <<pc, image, base, gop, efi, map>>

NoKey == -1
Unwritten == <<NoKey, 0>>
Descriptors == (0 .. MaxChanges) \X (1 .. MaxCount)

Go(from, to) == pc = from /\ pc' = to

----------------------------------------------------------------------------
(* load_kernel.                                                            *)

\* load_file, all its calls successful, into a buffer.  A file that was cut
\* short is only remarked on.
LoadFile ==
    /\ Go("load", "place")
    /\ image' \in {"whole", "part"}
    /\ UNCHANGED <<base, gop, efi, map>>

\* A call fails: load_file says so and goes on, with a file that is not open
\* or a buffer that was given back, and answers that all is well.
LoadFileFails ==
    /\ Go("load", "undefined")
    /\ UNCHANGED <<image, base, gop, efi, map>>

\* The pages at 1 MB, or any others.
PlaceKernel ==
    /\ Go("place", "params")
    /\ base' \in {"linked", "elsewhere"}
    /\ UNCHANGED <<image, gop, efi, map>>

\* No pages at all.  boot_kernel is called all the same, and finds no kernel.
PlaceFails ==
    /\ Go("place", "returned")
    /\ image' = "none"
    /\ UNCHANGED <<base, gop, efi, map>>

----------------------------------------------------------------------------
(* boot_kernel: parameters and graphics mode.                              *)

AllocParams ==
    /\ pc = "params"
    /\ pc' \in {"returned", IF mode = 0 THEN "describe" ELSE "choose"}
    /\ UNCHANGED <<image, base, gop, efi, map>>

Larger(a, b) == a.w > b.w \/ (a.w = b.w /\ a.h > b.h)
LargeEnough(a) == a.w >= Least.w /\ a.h >= Least.h

\* Mutant: the higher of two equally wide modes is not preferred.
ConsiderWidth(b, i, bad) ==
    IF b.found \/ i \in bad THEN b
    ELSE IF modes[i] = Target THEN [mode |-> i, size |-> Target, found |-> TRUE]
    ELSE IF LargeEnough(modes[i]) /\ modes[i].w > b.size.w
         THEN [b EXCEPT !.mode = i, !.size = modes[i]]
    ELSE b

\* A round of the loop over the modes; found is its break.
Consider(b, i, bad) ==
    IF b.found \/ i \in bad THEN b
    ELSE IF modes[i] = Target THEN [mode |-> i, size |-> Target, found |-> TRUE]
    ELSE IF LargeEnough(modes[i]) /\ Larger(modes[i], b.size)
         THEN [b EXCEPT !.mode = i, !.size = modes[i]]
    ELSE b

\* The loop, over modes of which the bad ones are not described.
Chosen(bad) ==
    LET best[i \in 0 .. Len(modes)] ==
          IF i = 0 THEN [mode |-> mode, size |-> [w |-> 0, h |-> 0], found |-> FALSE]
          ELSE Consider(best[i - 1], i, bad)
    IN  best[Len(modes)].mode

ChooseMode ==
    /\ Go("choose", "set")
    /\ refused' \in SUBSET (DOMAIN modes)
    /\ best_mode' = Chosen(refused')
    /\ UNCHANGED <<image, base, modes, mode, screen, efi, map>>

\* Mutant: the mode that could not be set is described.
SetModeKeepsBest ==
    /\ Go("set", "describe")
    /\ \/ mode' = best_mode /\ UNCHANGED <<best_mode, refused>>
       \/ best_mode # mode /\ best_mode' = best_mode /\ refused' = refused \cup {best_mode}
          /\ UNCHANGED mode
    /\ UNCHANGED <<image, base, modes, screen, efi, map>>

\* If the mode cannot be set, the screen stays as it was.
SetMode ==
    /\ Go("set", "describe")
    /\ \/ mode' = best_mode /\ UNCHANGED <<best_mode, refused>>
       \/ best_mode # mode /\ best_mode' = mode /\ refused' = refused \cup {best_mode}
          /\ UNCHANGED mode
    /\ UNCHANGED <<image, base, modes, screen, efi, map>>

\* The mode's size, or what VGA would have.
DescribeMode ==
    /\ Go("describe", "allocate")
    /\ screen' \in IF mode = 0 THEN {Vga} ELSE {modes[best_mode], Vga}
    /\ UNCHANGED <<image, base, modes, mode, refused, best_mode, efi, map>>

----------------------------------------------------------------------------
(* boot_kernel: the memory map.                                            *)

\* AllocatePool, for as many bytes as nobody has yet asked for: none.  The
\* graphics protocol is done with: of its modes only the one in force matters.
AllocMap ==
    /\ pc = "allocate" /\ pc' \in {"size", "returned"}
    /\ modes' = [i \in 1 .. (IF mode = 0 THEN 0 ELSE 1) |-> modes[mode]]
    /\ mode' = Len(modes') /\ refused' = {} /\ best_mode' = 0
    /\ UNCHANGED <<image, base, screen, efi, map>>

\* What a GetMemoryMap that finds its buffer too small leaves of the key: some
\* firmware tells it, some does not.
KeyIfTooSmall == map_key' \in {map_key, key}

\* The first GetMemoryMap, and the parameters.
AskSize ==
    /\ Go("size", "get")
    /\ memory_map_size' = count /\ KeyIfTooSmall
    /\ UNCHANGED <<image, base, gop, efi, memory_map>>

\* It answers anything but that its buffer is too small.
AskSizeFails ==
    /\ Go("size", "returned")
    /\ UNCHANGED <<image, base, gop, efi, map>>

\* Mutant: the size that the last call answered is used for the next one.
GetMapReusingSize ==
    /\ Go("get", "exit")
    /\ memory_map_size' = count
    /\ IF count <= memory_map_size
       THEN /\ map_key' = key
            /\ memory_map' = [i \in DOMAIN memory_map |->
                                  IF i <= count THEN <<key, i>> ELSE memory_map[i]]
       ELSE KeyIfTooSmall /\ UNCHANGED memory_map
    /\ UNCHANGED <<image, base, gop, efi>>

\* GetMemoryMap in the loop, with the size of the first call.  Nobody looks at
\* its status.
GetMap ==
    /\ Go("get", "exit")
    /\ IF count <= memory_map_size
       THEN /\ map_key' = key
            /\ memory_map' = [i \in DOMAIN memory_map |->
                                  IF i <= count THEN <<key, i>> ELSE memory_map[i]]
       ELSE KeyIfTooSmall /\ UNCHANGED memory_map
    /\ UNCHANGED <<image, base, gop, efi, memory_map_size>>

\* The buffer has no bytes of its own: the map is written over something that
\* matters.  GetMap is the case that it does not.
GetMapOverwrites ==
    /\ Go("get", "undefined")
    /\ count <= memory_map_size
    /\ UNCHANGED <<image, base, gop, efi, map>>

\* Mutant: only ExitBootServices is tried again.
ExitAgain ==
    /\ pc = "exit"
    /\ pc' = IF map_key = key THEN "kernel" ELSE "exit"
    /\ UNCHANGED <<image, base, gop, efi, map>>

Doubled(size) == [w |-> size.w, h |-> 2 * size.h]

\* ExitBootServices: the kernel is entered, or the map is taken once more.
\* The kernel is told of twice as many rows.
Exit ==
    /\ pc = "exit"
    /\ IF map_key = key THEN pc' = "kernel" /\ screen' = Doubled(screen)
       ELSE pc' = "get" /\ UNCHANGED screen
    /\ UNCHANGED <<image, base, modes, mode, refused, best_mode, efi, map>>

Ended == pc \in {"kernel", "returned", "undefined"}

\* The firmware allocates or frees: for its timers, or for the console that
\* the loader prints to.
MapChanges ==
    /\ pc \in {"size", "get", "exit"} /\ key < MaxChanges
    /\ key' = key + 1
    /\ count' \in {count - 1, count, count + 1} \cap 1 .. MaxCount
    /\ UNCHANGED <<pc, image, base, gop, map>>

----------------------------------------------------------------------------
Init ==
    /\ pc = "load" /\ image = "none" /\ base = "none"
    /\ \/ modes \in ModeLists /\ mode \in DOMAIN modes
       \/ modes = <<>> /\ mode = 0
    /\ refused = {} /\ best_mode = 0 /\ screen = Vga
    /\ key = 0 /\ count \in 1 .. MaxCount
    /\ memory_map_size = 0 /\ map_key = NoKey
    /\ memory_map = [i \in 1 .. MaxCount |-> Unwritten]

Loader ==
    \/ LoadFile \/ LoadFileFails \/ PlaceKernel \/ PlaceFails
    \/ AllocParams \/ ChooseMode \/ SetMode \/ DescribeMode
    \/ AllocMap \/ AskSize \/ AskSizeFails \/ GetMap \/ GetMapOverwrites \/ Exit

Next == Loader \/ MapChanges

Spec == Init /\ [][Next]_vars

\* The loader runs on.  The firmware need not change its map.
FairSpec == Spec /\ WF_vars(Loader)

----------------------------------------------------------------------------
(* Properties.                                                             *)

TypeOK ==
    /\ pc \in {"load", "place", "params", "choose", "set", "describe", "allocate",
               "size", "get", "exit", "kernel", "returned", "undefined"}
    /\ image \in {"none", "whole", "part"} /\ base \in {"none", "linked", "elsewhere"}
    /\ mode \in 0 .. Len(modes) /\ best_mode \in 0 .. Len(modes)
    /\ refused \subseteq DOMAIN modes
    /\ screen \in Sizes
    /\ key \in 0 .. MaxChanges /\ count \in 1 .. MaxCount
    /\ memory_map_size \in 0 .. MaxCount /\ map_key \in NoKey .. MaxChanges
    /\ memory_map \in [1 .. MaxCount -> Descriptors \cup {Unwritten}]

\* The kernel reads memory_map_size descriptors, of a count asked for before
\* the loop.  As long as the map has not grown since, those of the map in force
\* are all among them, and they come first; with as many as were asked for
\* there are no others.
MapInForce ==
    pc = "kernel" /\ count <= memory_map_size =>
        \A i \in 1 .. count : memory_map[i] = <<key, i>>

\* The kernel is entered or the loader gives up, unless the map has outgrown
\* the first answer for good: however often it changes before it settles.
Starts == <>[](count <= memory_map_size) => <>Ended

\* What the mode should be: 1920 by 1080, or the widest that is large enough,
\* and of these the highest; the first of equal ones; or else the one it was.
Usable(i) == i \notin refused /\ (modes[i] = Target \/ LargeEnough(modes[i]))
Preferred(i, j) ==
    \/ modes[i] = Target /\ (modes[j] = Target => i <= j)
    \/ modes[j] # Target /\ (Larger(modes[i], modes[j]) \/ (modes[i] = modes[j] /\ i <= j))

\* The mode to be set is the best that the firmware describes.  The kernel that
\* is entered is told the width of the mode in force, and twice its rows: it
\* takes the screen for twice as high as it is (efi_utils.c:697).  Without a
\* mode, or if the firmware does not describe it, it is told of a VGA screen,
\* of twice the rows again.
BestMode ==
    /\ pc = "set" =>
          LET usable == {i \in DOMAIN modes : Usable(i)}
          IN IF usable = {} THEN best_mode = mode
             ELSE best_mode \in usable /\ \A j \in usable : Preferred(best_mode, j)
    /\ pc = "kernel" =>
          screen \in {Doubled(size) : size \in
                        {Vga} \cup (IF mode = 0 THEN {} ELSE {modes[mode]})}

=============================================================================
