------------------------------ MODULE MatchCredit ------------------------------
(***************************************************************************)
(* What one match promises the backend that pays the winner, whatever ends *)
(* it and whatever is interrupted on the way: there is one verdict, and it *)
(* is final; the credit is sent after it and at most once; and only a      *)
(* verdict that names a winner is paid, never the administrator's or the   *)
(* loss of a match with the server process.  TurnTimer and GameRoom are    *)
(* shown to implement this.                                                *)
(***************************************************************************)
EXTENDS Naturals

VARIABLES
    verdict,  \* what ended the match, "nothing" while it lasts
    paid      \* credits sent for it

vars == <<verdict, paid>>

(* The verdicts that name a winner, and those that do not. *)
Earned == {"shot", "timer", "play", "grace"}
Unearned == {"admin", "lost"}

Init == verdict = "nothing" /\ paid = 0

(* The match ends; its credit may be sent at once. *)
Decide ==
    /\ verdict = "nothing"
    /\ verdict' \in Earned \cup Unearned
    /\ paid' \in {paid, paid + 1}
    /\ verdict' \in Unearned => paid' = paid

Pay ==
    /\ verdict \in Earned
    /\ paid = 0
    /\ paid' = 1
    /\ UNCHANGED verdict

Next == Decide \/ Pay

Spec == Init /\ [][Next]_vars
================================================================================
