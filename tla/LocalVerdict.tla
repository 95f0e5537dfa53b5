----------------------------- MODULE LocalVerdict -----------------------------
(***************************************************************************)
(* The second judge of a game: after its own shot a browser does not wait  *)
(* for the server but evaluates the shot itself (GameScene.processShotResult *)
(* with frontend/src/rules.ts), with the groups it knows, and leaves the    *)
(* table when it finds the game over.  Every step is a step of Match.       *)
(***************************************************************************)
EXTENDS Match

VARIABLES
    localGroups, \* player1Group and player2Group in each player's browser
    verdict      \* the winner each browser found by itself, 0 while it plays

local == <<localGroups, verdict>>
localVars == <<vars, local>>

Undealt == [p \in Players |-> "open"]

LocalInit == Init /\ localGroups = [p \in Players |-> Undealt] /\ verdict = [p \in Players |-> 0]

(* assignGroupsLocally: the group of the first ball to drop goes to player 1, *)
(* whoever shot and be it the break.                                          *)
AssignGroupsLocally(groups, first) ==
    IF groups # Undealt \/ GroupOf(first) = "none" THEN groups
    ELSE [p \in Players |-> IF p = 1 THEN GroupOf(first) ELSE OtherGroup(GroupOf(first))]

(* Mutant of OwnRemaining: the ball that just dropped still counts. *)
OwnRemainingBefore(p, groups) == Cardinality(GroupBalls(groups[p]) \cap table[p])

(* countOwnRemaining, on the table the shot left. *)
OwnRemaining(p, groups) == Cardinality(GroupBalls(groups[p]) \cap table'[p])

(* evaluateShot, which is asked only once groups are assigned. *)
EvaluateShot(p, groups, dropped, cuePocketed) ==
    IF groups = Undealt \/ Eight \notin dropped THEN 0
    ELSE IF OwnRemaining(p, groups) > 0 \/ cuePocketed THEN Opponent(p)
    ELSE p

(* The browser judges what it reports; of a shot it cannot report, too. *)
Judges(p) ==
    /\ verdict[p] = 0
    /\ ClientShoots(p)
    /\ LET dropped == table[p] \ table'[p]
       IN  \E first \in dropped \cup {NoBall}, cuePocketed \in BOOLEAN :
             /\ first = NoBall <=> dropped = {}
             /\ shot' # NoShot =>
                  cuePocketed = shot'.cuePocketed /\ first \in {Eight, shot'.firstLegal}
             /\ LET groups == AssignGroupsLocally(localGroups[p], first)
                IN  /\ localGroups' = [localGroups EXCEPT ![p] = groups]
                    /\ verdict' = [verdict EXCEPT ![p] = EvaluateShot(p, groups, dropped, cuePocketed)]

(* The server's groups, once it has dealt them, replace those of a browser. *)
Learns(who) ==
    /\ localGroups' = [p \in Players |->
         IF p \in who /\ group' # Undealt THEN group' ELSE localGroups[p]]
    /\ UNCHANGED verdict

(* A new GameScene knows no groups: "reconnected" only starts it. *)
Forgets(p) ==
    /\ localGroups' = [localGroups EXCEPT ![p] = Undealt]
    /\ verdict' = [verdict EXCEPT ![p] = 0]

LocalNext ==
    \/ \E p \in Players : Judges(p)
    \/ ShotContinues /\ Learns({p \in Players : online[p]})
    \/ ShotDecides /\ Learns({p \in Players : online[p]})
    \/ \E p \in Players : Reconnect(p) /\ Learns({p})
    \/ \E p \in Players : Reload(p) /\ Forgets(p)
    \/ RejectShot /\ UNCHANGED local
    \/ AnnounceWinner /\ UNCHANGED local
    \/ TurnTimeout /\ UNCHANGED local
    \/ ForceEnd /\ UNCHANGED local
    \/ \E p \in Players : DisconnectForfeit(p) /\ UNCHANGED local
    \/ \E p \in Players : LoseSocket(p) /\ UNCHANGED local

LocalSpec == LocalInit /\ [][LocalNext]_localVars

(* The fairness of Match. *)
LocalFairSpec == LocalSpec /\ WF_vars(Server)
LocalReconnectingSpec == LocalFairSpec /\ \A p \in Players : WF_vars(Reconnect(p))

--------------------------------------------------------------------------------
(* The winner the server will find in the report under way, 0 for none. *)
ServerVerdict == IF EightDrops(shot) THEN EightWinner(shot) ELSE 0

(* The two implementations of the rules agree: whenever the browser knows the *)
(* groups the server has dealt, its verdict on a shot is the server's, also   *)
(* with balls of both groups, the 8-ball and the cue ball in one shot, and    *)
(* whatever results, sockets and pages were lost before.                      *)
VerdictsAgree ==
    [][\A p \in Players :
         Judges(p) /\ shot' # NoShot /\ MayProcess(shot') /\ group # Undealt /\ localGroups[p] = group
            => verdict'[p] = ServerVerdict']_localVars
================================================================================
