------------------------------- MODULE PoolGame -------------------------------
(***************************************************************************)
(* What one game of 8-ball promises its two players, whatever the clients  *)
(* report and whatever the network does: the break comes first and leaves  *)
(* the table open, the groups are dealt once and one to each player, the   *)
(* turn belongs to exactly one player, and the end of the game is final.   *)
(* Match.tla is the detailed specification and is shown to implement this. *)
(***************************************************************************)
EXTENDS Naturals

VARIABLES
    phase,    \* "break", "open", "grouped" or "over"
    shooter,  \* the player whose turn it is
    group,    \* the group of each player, "open" until they are dealt
    winner    \* the player the rules declared winner, 0 for none

vars == <<phase, shooter, group, winner>>

Players == {1, 2}

Opponent(p) == 3 - p

Open == [p \in Players |-> "open"]

(* The two ways to deal the groups. *)
Deals == {g \in [Players -> {"solids", "stripes"}] : g[1] # g[2]}

Init ==
    /\ phase = "break"
    /\ shooter = 1
    /\ group = Open
    /\ winner = 0

(* The break leaves the table open, whatever drops. *)
Break ==
    /\ phase = "break"
    /\ phase' = "open"
    /\ shooter' \in Players
    /\ UNCHANGED <<group, winner>>

(* A later shot keeps the turn or hands it over. *)
Shot ==
    /\ phase \in {"open", "grouped"}
    /\ shooter' \in Players
    /\ UNCHANGED <<phase, group, winner>>

(* The shot that deals the groups. *)
Deal ==
    /\ phase = "open"
    /\ phase' = "grouped"
    /\ group' \in Deals
    /\ shooter' \in Players
    /\ UNCHANGED winner

(* The 8-ball decides the game after the break; the shot that ends the game *)
(* may have dealt the groups too.                                           *)
Decide ==
    /\ phase \in {"open", "grouped"}
    /\ phase' = "over"
    /\ IF phase = "open" THEN group' \in Deals \cup {Open} ELSE UNCHANGED group
    /\ winner' \in Players
    /\ group' = Open => winner' = Opponent(shooter)
    /\ UNCHANGED shooter

(* A game cut short - time-out, walk-over, administrator - has no winner by *)
(* the rules.                                                               *)
Abandon ==
    /\ phase # "over"
    /\ phase' = "over"
    /\ UNCHANGED <<shooter, group, winner>>

Next == Break \/ Shot \/ Deal \/ Decide \/ Abandon

Spec == Init /\ [][Next]_vars
================================================================================
