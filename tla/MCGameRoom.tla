------------------------------- MODULE MCGameRoom -------------------------------
(* GameRoom with the two players of a match, or a third visitor. *)
EXTENDS GameRoom, TLC

CONSTANTS a, b, c

MCPair == {a, b}
MCVisitor == {a, b, c}
MCSymmetry == Permutations(MCPair)
================================================================================
