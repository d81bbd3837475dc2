--------------------------- MODULE MCSenderscore ---------------------------
(* Instances of Senderscore for TLC. *)
EXTENDS Senderscore, TLC

CONSTANTS c1, c2, lan

MCClient   == {c1, c2, lan}
MCCommands == {<<c1>>, <<c1, c2>>, <<c2, c2>>}
=============================================================================
