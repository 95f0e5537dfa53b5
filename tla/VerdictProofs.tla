------------------------------ MODULE VerdictProofs ------------------------------
(***************************************************************************)
(* Proofs about LocalVerdict, on any rack: a game in which the browsers    *)
(* judge their own shots is a game of Match, and a browser that knows the  *)
(* groups reaches the server's verdict.                                    *)
(***************************************************************************)
EXTENDS LocalVerdict, MatchProofs, FiniteSetTheorems

(* Every step is a step of Match, or leaves its state alone. *)
LEMMA StepIsStep == [LocalNext]_localVars => [Next]_vars
<1> SUFFICES ASSUME [LocalNext]_localVars PROVE [Next]_vars
  OBVIOUS
<1>1. ASSUME NEW p \in Players, Judges(p)
      PROVE  Next
  BY <1>1 DEF Judges, Next, Play
<1>2. CASE UNCHANGED localVars
  BY <1>2 DEF localVars
<1> QED
  BY <1>1, <1>2 DEF LocalNext, Next, Play, Server

(* Games that the browsers judge, too, are games of Match: what is proved of *)
(* Match is true of them.                                                    *)
THEOREM LocalIsMatch == LocalSpec => Spec
<1>1. LocalInit => Init
  BY DEF LocalInit
<1> QED
  BY <1>1, StepIsStep, PTL DEF LocalSpec, Spec

(* Some ball is left in a set of object balls, or none. *)
LEMMA SomeLeft ==
    ASSUME NEW g, NEW t
    PROVE  Cardinality(GroupBalls(g) \cap t) > 0 <=> GroupBalls(g) \cap t # {}
<1>1. IsFiniteSet(Solids \cup Stripes)
  BY BallsAssumption, FS_Union
<1>2. IsFiniteSet(GroupBalls(g) \cap t)
  BY <1>1, FS_Subset DEF GroupBalls
<1> QED
  BY <1>2, FS_EmptySet, FS_CardinalityType

(* What a report of player p tells of p's table. *)
LEMMA ReportTells ==
    ASSUME IInv, NEW p \in Players, ClientShoots(p), shot' # NoShot
    PROVE  /\ shot'.player = p
           /\ table'[p] = shot'.positions /\ table[p] \ table'[p] = shot'.pocketed
           /\ shot'.positions \cap shot'.pocketed = {}
           /\ UNCHANGED game
<1>1. table \in [Players -> SUBSET Balls]
  BY DEF IInv, TypeOK
<1>2. PICK pocketed \in SUBSET (table[p] \ {Cue}), cuePocketed \in BOOLEAN,
           firstContact \in (table[p] \ {Cue}) \cup {NoBall}, cushionHits \in CushionReports :
         \E firstLegal \in IF pocketed \subseteq {Eight} THEN {NoBall} ELSE pocketed \ {Eight} :
            /\ shot' = [player |-> p, positions |-> table[p] \ pocketed,
                        pocketed |-> pocketed, firstLegal |-> firstLegal,
                        cuePocketed |-> cuePocketed, firstContact |-> firstContact,
                        cushionHits |-> cushionHits]
            /\ table' = [table EXCEPT ![p] = @ \ pocketed]
  BY DEF ClientShoots
<1>3. /\ shot'.player = p /\ shot'.positions = table[p] \ pocketed /\ shot'.pocketed = pocketed
      /\ table'[p] = table[p] \ pocketed
  BY <1>1, <1>2
<1>4. table[p] \ table'[p] = pocketed
  BY <1>3
<1> QED
  BY <1>3, <1>4 DEF ClientShoots

(* A browser that knows the groups the server has dealt finds the winner the *)
(* server will find in its report.                                           *)
LEMMA SameVerdict ==
    ASSUME IInv, NEW p \in Players, Judges(p), shot' # NoShot, MayProcess(shot'),
           group # Undealt, localGroups[p] = group, verdict \in [Players -> Players \cup {0}]
    PROVE  verdict'[p] = ServerVerdict'
<1>1. /\ shot'.player = p
      /\ table'[p] = shot'.positions /\ table[p] \ table'[p] = shot'.pocketed
      /\ shot'.positions \cap shot'.pocketed = {}
      /\ UNCHANGED game
  BY ReportTells DEF Judges
<1>2. currentPlayer = p /\ UNCHANGED <<currentPlayer, group, isBreak>>
  BY <1>1 DEF MayProcess, game
<1>3. group[1] # "open" /\ group[2] # "open" /\ ~isBreak
  <2>1. group \in [Players -> {"open", "solids", "stripes"}] /\ 1 \in Players /\ 2 \in Players
    BY DEF IInv, TypeOK, Players
  <2>2. ~(\A q \in Players : group[q] = "open")
    BY <2>1 DEF Undealt
  <2>3. ~isBreak
    BY <2>2 DEF IInv, BreakIsOpen
  <2>4. \A q \in Players : group[q] # "open"
    BY <2>2 DEF IInv, GroupsComplementary
  <2> QED
    BY <2>1, <2>3, <2>4
<1>4. \E first, cuePocketed :
        /\ cuePocketed = shot'.cuePocketed
        /\ verdict'[p] = EvaluateShot(p, AssignGroupsLocally(group, first), shot'.pocketed, cuePocketed)
  BY <1>1 DEF Judges
<1>5. verdict'[p] = EvaluateShot(p, group, shot'.pocketed, shot'.cuePocketed)
  BY <1>4 DEF AssignGroupsLocally
<1>6. GroupsAfter(shot)' = group
  BY <1>2, <1>3 DEF GroupsAfter, Deals
<1>7. GroupNow(shot)' = group[p]
  BY <1>2, <1>6 DEF GroupNow
<1>8. IsGroupCleared(GroupNow(shot), shot)' <=> GroupBalls(group[p]) \cap table'[p] = {}
  <2>1. Cue \notin GroupBalls(group[p])
    BY BallsAssumption DEF GroupBalls
  <2>2. ReportedBalls(shot)' \in {table'[p], table'[p] \cup {Cue}}
    BY <1>1 DEF ReportedBalls
  <2>3. IsGroupCleared(GroupNow(shot), shot)' <=> GroupBalls(group[p]) \cap ReportedBalls(shot)' = {}
    BY <1>7 DEF IsGroupCleared
  <2> QED
    BY <2>1, <2>2, <2>3
<1>9. OwnRemaining(p, group) > 0 <=> GroupBalls(group[p]) \cap table'[p] # {}
  BY SomeLeft DEF OwnRemaining
<1>10. EightDrops(shot)' <=> Eight \in shot'.pocketed
  BY <1>2, <1>3 DEF EightDrops
<1>11. CASE Eight \notin shot'.pocketed
  BY <1>5, <1>10, <1>11 DEF ServerVerdict, EvaluateShot
<1>12. CASE Eight \in shot'.pocketed
  <2>1. ServerVerdict' = EightWinner(shot)'
    BY <1>10, <1>12 DEF ServerVerdict
  <2>2. group[p] # "open"
    BY <1>3 DEF Players
  <2>3. EightReason(shot)' = IF GroupBalls(group[p]) \cap table'[p] # {} THEN "early_8_ball"
                             ELSE IF shot'.cuePocketed THEN "scratch_on_8_ball"
                             ELSE "pocketed_8_ball"
    BY <1>7, <1>8, <2>2 DEF EightReason
  <2>4. EightWinner(shot)' = IF EightReason(shot)' = "pocketed_8_ball" THEN p ELSE Opponent(p)
    BY <1>2 DEF EightWinner
  <2>5. group # Undealt
    OBVIOUS
  <2>6. verdict'[p] = IF OwnRemaining(p, group) > 0 \/ shot'.cuePocketed THEN Opponent(p) ELSE p
    BY <1>5, <1>12, <2>5 DEF EvaluateShot
  <2> QED
    BY <1>9, <2>1, <2>3, <2>4, <2>6
<1> QED
  BY <1>11, <1>12

(* The verdicts have their type, too. *)
VInv == IInv /\ verdict \in [Players -> Players \cup {0}]

LEMMA VerdictTyped ==
    ASSUME VInv, [LocalNext]_localVars
    PROVE  VInv'
<1>1. IInv'
  BY StepIsStep, NextKeeps DEF VInv
<1>2. verdict \in [Players -> Players \cup {0}]
  BY DEF VInv
<1>3. ASSUME NEW p \in Players, Judges(p)
      PROVE  verdict' \in [Players -> Players \cup {0}]
  <2>1. PICK groups, dropped, cuePocketed :
          verdict' = [verdict EXCEPT ![p] = EvaluateShot(p, groups, dropped, cuePocketed)]
    BY <1>3 DEF Judges
  <2>2. EvaluateShot(p, groups, dropped, cuePocketed) \in Players \cup {0}
    BY OpponentIsOther DEF EvaluateShot
  <2> QED
    BY <1>2, <2>1, <2>2
<1>4. ASSUME NEW p \in Players, Forgets(p)
      PROVE  verdict' \in [Players -> Players \cup {0}]
  BY <1>2, <1>4 DEF Forgets
<1>5. ASSUME UNCHANGED verdict
      PROVE  verdict' \in [Players -> Players \cup {0}]
  BY <1>2, <1>5
<1>6. verdict' \in [Players -> Players \cup {0}]
  BY <1>3, <1>4, <1>5 DEF LocalNext, Learns, local, localVars
<1> QED
  BY <1>1, <1>6 DEF VInv

(* Whatever rack is played and whatever sockets and pages were lost before: a  *)
(* browser that knows the groups judges its report as the server does.         *)
THEOREM SameJudgement == LocalSpec => VerdictsAgree
<1>1. LocalInit => VInv
  BY InitEstablishes DEF LocalInit, VInv
<1>2. VInv /\ [LocalNext]_localVars
        => [\A p \in Players :
              Judges(p) /\ shot' # NoShot /\ MayProcess(shot') /\ group # Undealt /\ localGroups[p] = group
                 => verdict'[p] = ServerVerdict']_localVars
  BY SameVerdict DEF VInv
<1>3. VInv /\ [LocalNext]_localVars => VInv'
  BY VerdictTyped
<1> QED
  BY <1>1, <1>2, <1>3, PTL DEF LocalSpec, VerdictsAgree
================================================================================
