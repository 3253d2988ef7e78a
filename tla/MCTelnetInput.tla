--------------------------- MODULE MCTelnetInput ---------------------------
(* The sessions for model checking TelnetInput. *)
EXTENDS TelnetInput

\* Text, a byte filtered outside binary mode, the interrupt character, Ctrl-F, an
\* escaped 255, "are you there", options answered and one that is skipped.
Pieces == {<<97, 98, 99>>, <<128>>, <<3>>, <<6>>, <<255, 255>>, <<255, 246>>, <<255, 251, 0>>, <<255, 252, 0>>, <<255, 253, 0>>, <<255, 251, 1>>}

\* Any of them, and then text, a byte on which the mode decides, or an escaped 255.
TwoPieces == {a \o b : a \in Pieces, b \in {<<97, 98>>, <<128>>, <<255, 255>>}}
=============================================================================
