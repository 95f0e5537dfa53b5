------------------------------ MODULE RulesClaims ------------------------------
(***************************************************************************)
(* What docs/RULES.md and the comments of the browser say of a game, where *)
(* the code does otherwise.  Each property is refuted by a run of its own. *)
(***************************************************************************)
EXTENDS Rulebook

(* RULES.md:20 - an 8-ball pocketed on the break is spotted: it is on the    *)
(* table until a later shot pockets it, which ends the game.  The browsers   *)
(* removed it for good, so the next report takes it off the server's table.  *)
EightStaysOnTable == Undisturbed /\ ~isGameOver => Eight \in balls

(* RULES.md:53 - a legal shot that pockets a ball of the shooter's group     *)
(* keeps the turn.  The engine looks for the group on the table left by the  *)
(* shot, so the last ball of a group counts as hit by mistake.               *)
LegalPocketContinues ==
    [][ShotContinues /\ group = bookGroup /\ BookVerdict(shot) = "keeps"
        => currentPlayer' = currentPlayer]_bookVars
================================================================================
