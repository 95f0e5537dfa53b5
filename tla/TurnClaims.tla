------------------------------- MODULE TurnClaims -------------------------------
(***************************************************************************)
(* What comments of api/game.py say of the turn clock, stated over the     *)
(* model TurnTimer of what its code does.  Each is refuted by a run.       *)
(***************************************************************************)
EXTENDS TurnTimer

(* game.py:65 calls the timer the authoritative 60s turn timeout: a player *)
(* who is timed out has had the whole time.  But a cancelled task's        *)
(* finally clause (95) removes the entry of the task that replaced it, and *)
(* the next shot does not cancel what is not registered.                   *)
FullTurn ==
    [][\A w \in Workers : TimesOut(w) /\ ~suspended => turnAge >= TimeoutTicks]_vars
================================================================================
