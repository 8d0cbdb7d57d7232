------------------------------ MODULE Terminal ------------------------------
(***************************************************************************)
(* The terminal of kernel/kmain.c: the main thread prints its greeting with *)
(* term_puts after sti, and the keyboard's interrupt handler prints what is *)
(* typed, answers commands and takes characters back, with the same cursor. *)
(* The mouse's handler draws its pointer over all that and keeps what it    *)
(* covers, to put it back when the mouse moves on.                          *)
(*                                                                         *)
(* Handlers run with interrupts off: a key or a move is one step.  The main *)
(* thread is interrupted anywhere: the cursor is no volatile variable, so  *)
(* what it reads, keeps in a register and writes back are steps.           *)
(*                                                                         *)
(* Places are counted in glyphs: column c is cursor_x = 8 c, row r is      *)
(* cursor_y = 8 + 18 r.  The last column and the last row but one, of      *)
(* Columns and LastRow + 1, are outside the window.                        *)
(***************************************************************************)
EXTENDS Integers, Sequences

CONSTANTS
    Columns,        \* w / 8, 75: a glyph at column c reaches to 8 (c + 1)
    LastRow,        \* the last row whose text fits, 19
    Greeting,       \* what kmain prints
    Replies,        \* what commands print
    Prompt,         \* after each command; all are sequences of Characters
    MaxLength,      \* MAX_COMMAND_LEN
    Spots           \* where the pointer's corner may come to be

Characters == {"ascii", "wide", "newline"}

ASSUME TerminalAssumption ==
    /\ Columns \in Nat /\ Columns >= 4 /\ LastRow \in Nat \ {0}
    /\ MaxLength \in Nat \ {0}
    /\ Greeting \in Seq(Characters) /\ Prompt \in Seq(Characters)
    /\ Replies \subseteq Seq(Characters)
    /\ Spots \subseteq Nat \X Nat

VARIABLES
    screen,         \* who drew what is at a place: "text", "input", "pointer"
                    \* or nobody
    col, row,       \* g_term.cursor_x and cursor_y
    g_input_index,
    printed,        \* characters of the greeting that kmain is done with
    at,             \* where term_puts is with the next one
    x, y,           \* what the main thread has in registers
    early,          \* a key was struck before kmain was done
    saved,          \* mouse_back_buffer: the places the pointer covers
    inWay           \* the pointer was drawn over before it moved on

term == <<screen, col, row>>
vars == <<term, g_input_index, printed, at, x, y, early, saved, inWay>>

Places == (1 .. Columns) \X (0 .. LastRow + 1)
Inside == (1 .. Columns - 1) \X (0 .. LastRow)

Width(ch) == CASE ch = "ascii" -> 1 [] ch = "wide" -> 2 [] OTHER -> 0

----------------------------------------------------------------------------
(* What one character does, as a function of the terminal.                 *)

\* put_char or print_string: one glyph, or one that is two wide.
Drawn(s, c, r, n, who) ==
    [p \in Places |-> IF p[2] = r /\ p[1] >= c /\ p[1] < c + n THEN who ELSE s[p]]

\* draw_rect over the window's content.
Cleared(s) == [p \in Places |-> IF p \in Inside THEN "nobody" ELSE s[p]]

\* Mutant: only a narrow glyph has to fit.
TooFarForNarrow(c) == c + 1 > Columns

\* The end of the line is near: no wide glyph fits.
TooFar(c) == c + 2 > Columns

\* Mutant: the window is not cleared when the text starts again at its top.
ScrolledOver(t) == IF t.row > LastRow THEN [t EXCEPT !.row = 0] ELSE t

Scrolled(t) ==
    IF t.row > LastRow THEN [t EXCEPT !.row = 0, !.screen = Cleared(@)] ELSE t

Wrapped(t) == IF TooFar(t.col) THEN [t EXCEPT !.col = 1, !.row = @ + 1] ELSE t

\* term_putc, and a round of term_puts's loop.
Put(t, ch, who) ==
    Scrolled(
        IF ch = "newline" THEN [t EXCEPT !.col = 1, !.row = @ + 1]
        ELSE Wrapped([t EXCEPT !.screen = Drawn(@, t.col, t.row, Width(ch), who),
                               !.col = @ + Width(ch)]))

\* term_puts in a handler: round by round.
PutAll(t, chars) ==
    LET round[i \in 0 .. Len(chars)] ==
            IF i = 0 THEN t ELSE Put(round[i - 1], chars[i], "text")
    IN  round[Len(chars)]

\* Nothing but the mouse's handler knows of the pointer.
Painted ==
    /\ saved' = saved
    /\ inWay' = (inWay \/ \E q \in DOMAIN saved : screen'[q] # screen[q])

Now == [screen |-> screen, col |-> col, row |-> row]
Becomes(t) == screen' = t.screen /\ col' = t.col /\ row' = t.row

----------------------------------------------------------------------------
(* The keyboard's handler: on_keyboard_pressed.                            *)

Done == printed = Len(Greeting)

Letter ==
    /\ g_input_index < MaxLength - 1
    /\ g_input_index' = g_input_index + 1
    /\ Becomes(Put(Now, "ascii", "input"))
    /\ early' = (early \/ ~Done)
    /\ Painted
    /\ UNCHANGED <<printed, at, x, y>>

\* A command is answered with what it prints; an unknown one with itself, too.
Enter ==
    /\ \E answer \in IF g_input_index = 0 THEN {<<>>} ELSE
            Replies \cup {<<"ascii">> \o [i \in 1 .. g_input_index |-> "ascii"] \o <<"newline">>} :
          Becomes(PutAll(Now, <<"newline">> \o answer \o Prompt))
    /\ g_input_index' = 0
    /\ early' = (early \/ ~Done)
    /\ Painted
    /\ UNCHANGED <<printed, at, x, y>>

\* Mutant: the glyph is erased whether or not there is a character to take back.
BackspaceAlways ==
    /\ g_input_index' = IF g_input_index > 0 THEN g_input_index - 1 ELSE 0
    /\ IF col > 1 THEN Becomes([Now EXCEPT !.col = @ - 1,
                                           !.screen = Drawn(@, col - 1, row, 1, "nobody")])
       ELSE UNCHANGED term
    /\ early' = (early \/ ~Done)
    /\ Painted
    /\ UNCHANGED <<printed, at, x, y>>

\* The cursor does not go back to the row before.
Backspace ==
    /\ g_input_index > 0
    /\ g_input_index' = g_input_index - 1
    /\ IF col > 1 THEN Becomes([Now EXCEPT !.col = @ - 1,
                                           !.screen = Drawn(@, col - 1, row, 1, "nobody")])
       ELSE UNCHANGED term
    /\ early' = (early \/ ~Done)
    /\ Painted
    /\ UNCHANGED <<printed, at, x, y>>

----------------------------------------------------------------------------
(* The main thread: term_puts, character by character.                     *)

Next_ch == Greeting[printed + 1]

\* real_x and real_y.
Look ==
    /\ ~Done /\ at = "look"
    /\ x' = col /\ y' = row
    /\ at' = IF Next_ch = "newline" THEN "newline" ELSE "draw"
    /\ UNCHANGED <<term, g_input_index, printed, early, saved, inWay>>

Draw ==
    /\ at = "draw"
    /\ screen' = Drawn(screen, x, y, Width(Next_ch), "text")
    /\ at' = "fetch"
    /\ Painted
    /\ UNCHANGED <<col, row, g_input_index, printed, x, y, early>>

\* cursor_x += 8 or 16: in one instruction, or by way of a register; the row
\* may be read here or when it is needed.
Fetch ==
    /\ at = "fetch"
    /\ x' = col + Width(Next_ch) /\ y' = row
    /\ at' = "store"
    /\ UNCHANGED <<term, g_input_index, printed, early, saved, inWay>>

Store ==
    /\ at = "store"
    /\ col' = x
    /\ at' = "wrap"
    /\ UNCHANGED <<screen, row, g_input_index, printed, x, y, early, saved, inWay>>

\* cursor_x = 8 and cursor_y += 18.
NextRow == col' = 1 /\ row' \in {row + 1, y + 1} /\ y' = row'

Newline ==
    /\ at = "newline"
    /\ NextRow
    /\ at' = "scroll"
    /\ UNCHANGED <<screen, g_input_index, printed, x, early, saved, inWay>>

\* The tests may be of a register or of the variable.
Wrap ==
    /\ at = "wrap"
    /\ \E c \in {x, col} : IF TooFar(c) THEN NextRow ELSE UNCHANGED <<col, row, y>>
    /\ at' = "scroll"
    /\ UNCHANGED <<screen, g_input_index, printed, x, early, saved, inWay>>

Scroll ==
    /\ at = "scroll"
    /\ \E r \in {y, row} :
          IF r > LastRow THEN screen' = Cleared(screen) /\ row' = 0
          ELSE UNCHANGED <<screen, row>>
    /\ at' = "look" /\ printed' = printed + 1
    /\ Painted
    /\ UNCHANGED <<col, g_input_index, x, y, early>>

----------------------------------------------------------------------------
(* The mouse's handler: on_mouse_update.                                   *)

\* CURSOR_W is two columns; CURSOR_H is more than a row.
CursorAt(p) == {q \in Places : q[1] - p[1] \in {0, 1} /\ q[2] - p[2] \in {0, 1}}

draw_mouse_cursor(s, p) == [q \in Places |-> IF q \in CursorAt(p) THEN "pointer" ELSE s[q]]

save_mouse_background(s, p) == [q \in CursorAt(p) |-> s[q]]

restore_mouse_background(s) == [q \in Places |-> IF q \in DOMAIN saved THEN saved[q] ELSE s[q]]

\* The places of the glyph, or of the window, that the main thread is drawing.
Drawing ==
    CASE at = "draw" -> {q \in Places : q[2] = y /\ q[1] - x \in 0 .. Width(Next_ch) - 1}
      [] at = "scroll" /\ (y > LastRow \/ row > LastRow) -> Inside
      [] OTHER -> {}

\* A move that finds the main thread in the middle of a glyph may save or put
\* back half of it.
Moves(p) ==
    /\ inWay' = (inWay \/ (DOMAIN saved \cup CursorAt(p)) \cap Drawing # {})
    /\ UNCHANGED <<col, row, g_input_index, printed, at, x, y, early>>

\* Mutant: what is behind the new pointer is saved before the old one is gone.
SaveThenRestore(p) ==
    /\ saved' = save_mouse_background(screen, p)
    /\ screen' = draw_mouse_cursor(restore_mouse_background(screen), p)
    /\ Moves(p)

on_mouse_update(p) ==
    /\ LET s == restore_mouse_background(screen)
       IN  /\ saved' = save_mouse_background(s, p)
           /\ screen' = draw_mouse_cursor(s, p)
    /\ Moves(p)

----------------------------------------------------------------------------
\* The window is drawn: after sti, so a pointer may be under it already.
Init ==
    /\ screen = [p \in Places |-> "nobody"]
    /\ col = 1 /\ row = 0
    /\ g_input_index = 0
    /\ printed = 0 /\ at = "look" /\ x = 1 /\ y = 0
    /\ early = FALSE
    /\ \E under \in {{}} \cup {CursorAt(p) : p \in Spots} :
          saved = [q \in under |-> "nobody"] /\ inWay = (under # {})

Key == Letter \/ Enter \/ Backspace
Main == Look \/ Draw \/ Fetch \/ Store \/ Newline \/ Wrap \/ Scroll

Next == Key \/ Main \/ \E p \in Spots : on_mouse_update(p)

Spec == Init /\ [][Next]_vars

----------------------------------------------------------------------------
(* Properties.                                                             *)

\* What is on the screen and behind the pointer.
Beneath == restore_mouse_background(screen)

Clean == ~early /\ ~inWay

TypeOK ==
    /\ screen \in [Places -> {"nobody", "text", "input", "pointer"}]
    /\ col \in 1 .. Columns + 1 /\ row \in 0 .. LastRow + 1
    /\ g_input_index \in 0 .. MaxLength - 1
    /\ printed \in 0 .. Len(Greeting)
    /\ at \in {"look", "draw", "fetch", "store", "newline", "wrap", "scroll"}
    /\ x \in 1 .. Columns + 1 /\ y \in 0 .. LastRow + 1
    /\ early \in BOOLEAN /\ inWay \in BOOLEAN
    /\ DOMAIN saved \subseteq Places

\* Whatever keys and moves come in between, whenever term_puts is through with
\* a character the cursor is where any character fits; and unless a key is
\* struck while kmain prints, nothing is drawn outside the window: not by long
\* lines, wide glyphs, long commands or their answers.
TextFits ==
    /\ at = "look" => ~TooFar(col) /\ row <= LastRow
    /\ Clean => \A p \in Places \ Inside : Beneath[p] = "nobody"

\* Nor over another one: between characters everything from the cursor on is
\* blank behind the pointer, whatever was typed, taken back and cleared before.
BlankAhead ==
    Clean /\ at = "look" =>
        \A p \in Inside : p[2] > row \/ (p[2] = row /\ p[1] >= col) => Beneath[p] = "nobody"

\* Taking characters back never erases anything but what was typed, also
\* across the ends of lines and after the window was cleared.
PromptKept ==
    [][Clean /\ ~inWay' /\ Done /\ Backspace =>
          \A p \in Places : Beneath[p] = "text" => Beneath'[p] = "text"]_vars

\* As long as nobody draws where the pointer is, it leaves no trace: moves, also
\* to where it covers part of what it covered, change nothing behind it.
PointerLeavesNoTrace ==
    [][Clean /\ ~inWay' /\ (\E p \in Spots : on_mouse_update(p)) => Beneath' = Beneath]_vars

=============================================================================
