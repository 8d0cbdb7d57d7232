------------------------------- MODULE MCIde -------------------------------
(* Two drives of two sectors for Ide. *)
EXTENDS Ide

CONSTANTS v, w

MCValues == {v, w}
MCBuffers == {<<v>>, <<v, w>>}
=============================================================================
