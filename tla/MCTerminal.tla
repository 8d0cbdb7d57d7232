----------------------------- MODULE MCTerminal -----------------------------
(* A window of five columns and three rows for Terminal. *)
EXTENDS Terminal, Drawing

MCGreeting == <<"ascii", "wide", "wide", "newline", "wide", "ascii">>
MCPrompt == <<"wide">>
MCReplies == {<<"ascii", "newline">>, <<"wide", "wide", "wide", "newline">>}

\* At the greeting, overlapping with that, at the window's right edge, elsewhere.
MCSpots == {<<1, 0>>, <<2, 1>>, <<5, 1>>, <<9, 9>>}

\* Frame buffers with and without pixels between the rows.
MCFrameBuffers ==
    {[width |-> 3, height |-> 5, pitch |-> 3], [width |-> 5, height |-> 4, pitch |-> 6],
     [width |-> 4, height |-> 7, pitch |-> 4]}

\* The properties look at the screen only as long as no key was early and the
\* pointer was not drawn over, and what the terminal does next does not depend
\* on it.
View == IF Clean THEN <<vars>> ELSE <<g_input_index, col, row, printed, at, x, y>>
=============================================================================
