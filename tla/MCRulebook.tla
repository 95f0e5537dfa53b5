------------------------------ MODULE MCRulebook ------------------------------
(* Rulebook on the small racks of MCMatch. *)
EXTENDS Rulebook, MCMatch
================================================================================
