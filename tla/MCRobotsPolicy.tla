--------------------------- MODULE MCRobotsPolicy ---------------------------
(* Instances of RobotsPolicy for TLC: a1 and a2 are calls in one process, b1 *)
(* is a call in another.                                                     *)
EXTENDS RobotsPolicy

CONSTANTS a1, a2, b1, A, B, gemlog, private

MCProcOf == [c \in Calls |-> IF c = b1 THEN B ELSE A]

=============================================================================
