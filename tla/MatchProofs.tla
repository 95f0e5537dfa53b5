------------------------------ MODULE MatchProofs ------------------------------
(***************************************************************************)
(* Proofs about Match, for every set of balls and every bound: the type    *)
(* invariant, the agreement of groups, turn and winner, the finality of a  *)
(* finished game, that Match implements PoolGame, who can act and what the *)
(* tables hold while no socket is lost, and the verdict of the rule book.  *)
(***************************************************************************)
EXTENDS Rulebook, TLAPS

(* The break leaves the groups undealt, and only a finished game has a     *)
(* winner: with these the safety invariants are inductive.                 *)
BreakIsOpen == isBreak => \A p \in Players : group[p] = "open"

WinnerOnlyAtEnd == ~isGameOver => winner = 0

IInv ==
    /\ TypeOK
    /\ GroupsComplementary
    /\ TurnParity
    /\ OneWinner
    /\ BreakIsOpen
    /\ WinnerOnlyAtEnd

(* The opponent is the other player. *)
LEMMA OpponentIsOther ==
    ASSUME NEW p \in Players
    PROVE  Opponent(p) \in Players /\ Opponent(p) # p /\ Opponent(Opponent(p)) = p
BY DEF Players, Opponent

(* Dealing gives one player solids and the other stripes. *)
LEMMA DealIsComplementary ==
    ASSUME TypeOK, GroupsComplementary, NEW s \in ShotType
    PROVE  /\ GroupsAfter(s) \in [Players -> {"open", "solids", "stripes"}]
           /\ \/ \A p \in Players : GroupsAfter(s)[p] = "open"
              \/ \A p \in Players : /\ GroupsAfter(s)[p] # "open"
                                    /\ GroupsAfter(s)[p] # GroupsAfter(s)[Opponent(p)]
<1>1. CASE Deals(s)
  <2> DEFINE g == GroupOf(s.firstLegal)
  <2>1. s.firstLegal \in Solids \cup Stripes
    BY <1>1 DEF Deals, ShotType
  <2>2. g \in {"solids", "stripes"}
    BY <2>1 DEF GroupOf
  <2>3. GroupsAfter(s) = [p \in Players |-> IF p = currentPlayer THEN g ELSE OtherGroup(g)]
    BY <1>1 DEF GroupsAfter
  <2>4. OtherGroup(g) \in {"solids", "stripes"} /\ OtherGroup(g) # g
    BY <2>2 DEF OtherGroup
  <2>5. currentPlayer \in Players
    BY DEF TypeOK
  <2> HIDE DEF g
  <2>6. GroupsAfter(s) \in [Players -> {"open", "solids", "stripes"}]
    BY <2>2, <2>3, <2>4
  <2>7. ASSUME NEW p \in Players
        PROVE  GroupsAfter(s)[p] # "open" /\ GroupsAfter(s)[p] # GroupsAfter(s)[Opponent(p)]
    <3>1. /\ GroupsAfter(s)[p] = IF p = currentPlayer THEN g ELSE OtherGroup(g)
          /\ GroupsAfter(s)[Opponent(p)] = IF Opponent(p) = currentPlayer THEN g ELSE OtherGroup(g)
      BY <2>3, OpponentIsOther
    <3>2. p = currentPlayer <=> Opponent(p) # currentPlayer
      BY <2>5 DEF Players, Opponent
    <3> QED
      BY <2>2, <2>4, <3>1, <3>2
  <2> QED
    BY <2>6, <2>7
<1>2. CASE ~Deals(s)
  BY <1>2 DEF GroupsAfter, TypeOK, GroupsComplementary
<1> QED
  BY <1>1, <1>2

(* The server's table after a shot holds balls of the set. *)
LEMMA BallsAfterIsTable ==
    ASSUME NEW s \in ShotType
    PROVE  BallsAfter(s) \subseteq Balls
BY DEF BallsAfter, ReportedBalls, ShotType, Balls, ObjectBalls

LEMMA InitEstablishes == Init => IInv
<1> SUFFICES ASSUME Init PROVE IInv
  OBVIOUS
<1>1. /\ balls \subseteq Balls /\ currentPlayer \in Players
      /\ group \in [Players -> {"open", "solids", "stripes"}]
      /\ isBreak \in BOOLEAN /\ isGameOver \in BOOLEAN
      /\ winner \in Players \cup {0} /\ turnCount \in Nat
  BY DEF Init, Players
<1>2. announced = {} /\ announced \subseteq Announcements
  BY DEF Init
<1>3. /\ table \in [Players -> SUBSET Balls]
      /\ myTurn \in [Players -> BOOLEAN] /\ simulating \in [Players -> BOOLEAN]
      /\ online \in [Players -> BOOLEAN]
      /\ shot \in ShotType \cup {NoShot} /\ drops \in Nat /\ reloads \in Nat
  BY DEF Init
<1>4. TypeOK
  BY <1>1, <1>2, <1>3 DEF TypeOK
<1>5. GroupsComplementary /\ BreakIsOpen
  BY DEF Init, GroupsComplementary, BreakIsOpen
<1>6. currentPlayer = 1 /\ turnCount = 0 /\ winner = 0
  BY DEF Init
<1>7. TurnParity /\ OneWinner /\ WinnerOnlyAtEnd
  BY <1>2, <1>6 DEF TurnParity, OneWinner, OwnWinIsCleared, WinnerOnlyAtEnd
<1> QED
  BY <1>4, <1>5, <1>7 DEF IInv

(* An accepted shot keeps the types of what it sets. *)
LEMMA AcceptKeepsTypes ==
    ASSUME IInv, AcceptShot
    PROVE  /\ shot \in ShotType
           /\ balls' \subseteq Balls
           /\ group' \in [Players -> {"open", "solids", "stripes"}]
           /\ isBreak' = FALSE
           /\ table' \in [Players -> SUBSET Balls]
           /\ simulating' \in [Players -> BOOLEAN]
           /\ online' \in [Players -> BOOLEAN]
           /\ shot' \in ShotType \cup {NoShot}
           /\ drops' \in Nat /\ reloads' \in Nat
           /\ GroupsComplementary'
           /\ BreakIsOpen'
<1>1. shot \in ShotType
  BY DEF IInv, TypeOK, AcceptShot
<1>2. balls' \subseteq Balls
  BY <1>1, BallsAfterIsTable DEF AcceptShot
<1>3. group' \in [Players -> {"open", "solids", "stripes"}] /\ GroupsComplementary'
  BY <1>1, DealIsComplementary DEF AcceptShot, IInv, GroupsComplementary
<1>4. table' \in [Players -> SUBSET Balls]
  <2>1. PICK gone \in HiddenBalls(shot) :
          table' = [p \in Players |-> IF online[p] THEN table[p] \ gone ELSE table[p]]
    BY DEF AcceptShot
  <2>2. table \in [Players -> SUBSET Balls]
    BY DEF IInv, TypeOK
  <2>3. \A p \in Players : table[p] \subseteq Balls
    BY <2>2
  <2> QED
    BY <2>1, <2>3
<1>5. simulating' \in [Players -> BOOLEAN]
  BY DEF AcceptShot, IInv, TypeOK
<1> QED
  BY <1>1, <1>2, <1>3, <1>4, <1>5 DEF AcceptShot, IInv, TypeOK, BreakIsOpen

(* A step that leaves the server's game alone keeps IInv as soon as it keeps *)
(* the types of the rest.                                                    *)
RestTypes ==
    /\ table \in [Players -> SUBSET Balls]
    /\ myTurn \in [Players -> BOOLEAN]
    /\ simulating \in [Players -> BOOLEAN]
    /\ online \in [Players -> BOOLEAN]
    /\ shot \in ShotType \cup {NoShot}
    /\ drops \in Nat
    /\ reloads \in Nat

LEMMA SameGame ==
    ASSUME IInv, UNCHANGED <<game, announced>>, RestTypes'
    PROVE  IInv'
<1>1. TypeOK'
  BY DEF IInv, game, RestTypes, TypeOK
<1>2. OneWinner'
  BY DEF IInv, game, OneWinner, OwnWinIsCleared
<1>3. GroupsComplementary' /\ TurnParity' /\ BreakIsOpen' /\ WinnerOnlyAtEnd'
  BY DEF IInv, game, GroupsComplementary, TurnParity, BreakIsOpen, WinnerOnlyAtEnd
<1> QED
  BY <1>1, <1>2, <1>3 DEF IInv

LEMMA InFlightIsTyped ==
    ASSUME IInv, NEW p \in Players
    PROVE  InFlight(p) \subseteq ShotType \cup {NoShot}
BY DEF IInv, TypeOK, InFlight

LEMMA ClientShootsKeeps ==
    ASSUME IInv, NEW p \in Players, ClientShoots(p)
    PROVE  IInv'
<1>1. PICK pocketed \in SUBSET (table[p] \ {Cue}), cuePocketed \in BOOLEAN,
           firstContact \in (table[p] \ {Cue}) \cup {NoBall}, cushionHits \in CushionReports :
         \E firstLegal \in IF pocketed \subseteq {Eight} THEN {NoBall} ELSE pocketed \ {Eight} :
            /\ shot' = IF online[p]
                       THEN [player |-> p, positions |-> table[p] \ pocketed,
                             pocketed |-> pocketed, firstLegal |-> firstLegal,
                             cuePocketed |-> cuePocketed, firstContact |-> firstContact,
                             cushionHits |-> cushionHits]
                       ELSE NoShot
            /\ table' = [table EXCEPT ![p] = @ \ pocketed]
  BY DEF ClientShoots
<1>2. PICK firstLegal \in IF pocketed \subseteq {Eight} THEN {NoBall} ELSE pocketed \ {Eight} :
            /\ shot' = IF online[p]
                       THEN [player |-> p, positions |-> table[p] \ pocketed,
                             pocketed |-> pocketed, firstLegal |-> firstLegal,
                             cuePocketed |-> cuePocketed, firstContact |-> firstContact,
                             cushionHits |-> cushionHits]
                       ELSE NoShot
            /\ table' = [table EXCEPT ![p] = @ \ pocketed]
  BY <1>1
<1>3. table \in [Players -> SUBSET Balls] /\ table[p] \subseteq Balls
  BY DEF IInv, TypeOK
<1>4. table[p] \ {Cue} \subseteq ObjectBalls
  BY <1>3 DEF Balls
<1>5. pocketed \subseteq ObjectBalls
  BY <1>4
<1>6. firstLegal \in Solids \cup Stripes \cup {NoBall}
  BY <1>5 DEF ObjectBalls
<1>7. shot' \in ShotType \cup {NoShot}
  BY <1>2, <1>3, <1>4, <1>5, <1>6 DEF ShotType
<1>8. table' \in [Players -> SUBSET Balls]
  BY <1>2, <1>3
<1>9. myTurn' \in [Players -> BOOLEAN] /\ simulating' \in [Players -> BOOLEAN]
  BY DEF ClientShoots, IInv, TypeOK
<1>10. UNCHANGED <<game, announced, online, drops, reloads>>
  BY DEF ClientShoots
<1>11. RestTypes'
  BY <1>7, <1>8, <1>9, <1>10 DEF RestTypes, IInv, TypeOK
<1> QED
  BY <1>10, <1>11, SameGame

LEMMA RejectShotKeeps ==
    ASSUME IInv, RejectShot
    PROVE  IInv'
<1>1. RestTypes'
  BY DEF RejectShot, clients, RestTypes, IInv, TypeOK
<1> QED
  BY <1>1, SameGame DEF RejectShot

(* One player's view of the turn may be set to any truth value. *)
LEMMA ViewIsTyped ==
    ASSUME IInv, NEW p \in Players, NEW b \in BOOLEAN
    PROVE  [myTurn EXCEPT ![p] = b] \in [Players -> BOOLEAN]
BY DEF IInv, TypeOK

LEMMA ConnectionsKeep ==
    ASSUME IInv, NEW p \in Players, LoseSocket(p) \/ Reconnect(p) \/ Reload(p)
    PROVE  IInv'
<1>1. CASE LoseSocket(p)
  <2>1. shot' \in ShotType \cup {NoShot}
    BY <1>1, InFlightIsTyped DEF LoseSocket
  <2>2. online \in [Players -> BOOLEAN] /\ drops \in Nat
    BY DEF IInv, TypeOK
  <2>3. online' = [online EXCEPT ![p] = FALSE] /\ drops' = drops + 1
    BY <1>1 DEF LoseSocket
  <2>4. online' \in [Players -> BOOLEAN] /\ drops' \in Nat
    BY <2>2, <2>3
  <2>5. UNCHANGED <<game, announced, table, myTurn, simulating, reloads>>
    BY <1>1 DEF LoseSocket
  <2>6. RestTypes'
    BY <2>1, <2>4, <2>5 DEF RestTypes, IInv, TypeOK
  <2> QED
    BY <2>5, <2>6, SameGame
<1>2. CASE Reconnect(p)
  <2>1. myTurn' \in [Players -> BOOLEAN]
    BY <1>2, ViewIsTyped DEF Reconnect
  <2>2. RestTypes'
    BY <1>2, <2>1 DEF Reconnect, RestTypes, IInv, TypeOK
  <2> QED
    BY <1>2, <2>2, SameGame DEF Reconnect
<1>3. CASE Reload(p)
  <2>1. shot' \in ShotType \cup {NoShot}
    BY <1>3, InFlightIsTyped DEF Reload
  <2>2. table' \in [Players -> SUBSET Balls]
    BY <1>3 DEF Reload, IInv, TypeOK
  <2>3. myTurn' \in [Players -> BOOLEAN] /\ simulating' \in [Players -> BOOLEAN]
    BY <1>3, ViewIsTyped DEF Reload, IInv, TypeOK
  <2>4. online \in [Players -> BOOLEAN] /\ reloads \in Nat
    BY DEF IInv, TypeOK
  <2>5. online' = [online EXCEPT ![p] = TRUE] /\ reloads' = reloads + 1
    BY <1>3 DEF Reload
  <2>6. online' \in [Players -> BOOLEAN] /\ reloads' \in Nat
    BY <2>4, <2>5
  <2>7. UNCHANGED <<game, announced, drops>>
    BY <1>3 DEF Reload
  <2>8. RestTypes'
    BY <2>1, <2>2, <2>3, <2>6, <2>7 DEF RestTypes, IInv, TypeOK
  <2> QED
    BY <2>7, <2>8, SameGame
<1> QED
  BY <1>1, <1>2, <1>3

(* A broadcast of a winner, or of none, keeps the types of what it sets. *)
LEMMA GameOverTypes ==
    ASSUME IInv, NEW win \in Players \cup {0},
           NEW reason \in {"pocketed_8_ball", "time_out", "opponent_disconnected", "admin_force_end"},
           GameOver(win, reason)
    PROVE  announced' \subseteq Announcements /\ RestTypes'
<1>1. [winner |-> win, reason |-> reason] \in Announcements
  BY DEF Announcements
<1>2. announced' \subseteq Announcements
  BY <1>1 DEF GameOver, IInv, TypeOK
<1>3. RestTypes'
  BY DEF GameOver, RestTypes, IInv, TypeOK
<1> QED
  BY <1>2, <1>3

(* What a broadcast adds to the announcements names the winner or no one. *)
LEMMA GameOverAgrees ==
    ASSUME IInv, NEW win \in Players \cup {0}, NEW reason, GameOver(win, reason),
           \A a \in announced : win \in {0, a.winner} \/ a.winner = 0
    PROVE  \A a, b \in announced' : a.winner = b.winner \/ 0 \in {a.winner, b.winner}
<1> DEFINE new == [winner |-> win, reason |-> reason]
<1>1. announced' = announced \cup {new} /\ new.winner = win
  BY DEF GameOver
<1>2. \A a, b \in announced : a.winner = b.winner \/ 0 \in {a.winner, b.winner}
  BY DEF IInv, OneWinner
<1> HIDE DEF new
<1> QED
  BY <1>1, <1>2

(* A game cut short keeps everything but the end itself; only the            *)
(* administrator, who names no winner, may end a finished game.              *)
LEMMA AbandonKeeps ==
    ASSUME IInv, NEW win \in Players \cup {0},
           NEW reason \in {"time_out", "opponent_disconnected", "admin_force_end"},
           Abandon(win, reason), ~isGameOver \/ win = 0
    PROVE  IInv'
<1>1. UNCHANGED <<balls, currentPlayer, group, isBreak, winner, turnCount>> /\ isGameOver' = TRUE
  BY DEF Abandon
<1>2. GameOver(win, reason)
  BY DEF Abandon
<1>3. announced' \subseteq Announcements /\ RestTypes'
  BY <1>2, GameOverTypes
<1>4. TypeOK'
  BY <1>1, <1>3 DEF RestTypes, IInv, TypeOK
<1>5. GroupsComplementary' /\ BreakIsOpen' /\ TurnParity' /\ WinnerOnlyAtEnd'
  BY <1>1 DEF IInv, GroupsComplementary, BreakIsOpen, TurnParity, WinnerOnlyAtEnd
<1>6. ~isGameOver => announced = {} /\ winner = 0
  BY DEF IInv, OneWinner, WinnerOnlyAtEnd
<1>7. \A a, b \in announced' : a.winner = b.winner \/ 0 \in {a.winner, b.winner}
  BY <1>2, <1>6, GameOverAgrees
<1>8. winner' # 0 => \A a \in announced' : a.winner \in {0, winner'}
  <2>1. SUFFICES ASSUME winner # 0 PROVE \A a \in announced' : a.winner \in {0, winner}
    BY <1>1
  <2>2. win = 0 /\ \A a \in announced : a.winner \in {0, winner}
    BY <1>6, <2>1 DEF IInv, OneWinner
  <2> DEFINE new == [winner |-> win, reason |-> reason]
  <2>3. announced' = announced \cup {new} /\ new.winner = win
    BY <1>2 DEF GameOver
  <2> HIDE DEF new
  <2> QED
    BY <2>2, <2>3
<1>9. OwnWinIsCleared' /\ (winner' # 0 => Eight \notin balls')
  BY <1>1 DEF IInv, OneWinner, OwnWinIsCleared, GroupBalls, GroupOf
<1>10. OneWinner'
  BY <1>1, <1>7, <1>8, <1>9 DEF OneWinner
<1> QED
  BY <1>4, <1>5, <1>10 DEF IInv

(* The winner of a decisive shot is announced. *)
LEMMA AnnounceWinnerKeeps ==
    ASSUME IInv, AnnounceWinner
    PROVE  IInv'
<1>1. UNCHANGED game /\ winner # 0 /\ GameOver(winner, "pocketed_8_ball")
  BY DEF AnnounceWinner
<1>2. winner \in Players \cup {0}
  BY DEF IInv, TypeOK
<1>3. announced' \subseteq Announcements /\ RestTypes'
  BY <1>1, <1>2, GameOverTypes
<1>4. TypeOK'
  BY <1>1, <1>3 DEF RestTypes, IInv, TypeOK, game
<1>5. GroupsComplementary' /\ BreakIsOpen' /\ TurnParity' /\ WinnerOnlyAtEnd'
  BY <1>1 DEF IInv, GroupsComplementary, BreakIsOpen, TurnParity, WinnerOnlyAtEnd, game
<1>6. \A a \in announced : a.winner \in {0, winner}
  BY <1>1 DEF IInv, OneWinner
<1>7. \A a, b \in announced' : a.winner = b.winner \/ 0 \in {a.winner, b.winner}
  BY <1>1, <1>2, <1>6, GameOverAgrees
<1>8. \A a \in announced' : a.winner \in {0, winner}
  <2> DEFINE new == [winner |-> winner, reason |-> "pocketed_8_ball"]
  <2>1. announced' = announced \cup {new} /\ new.winner = winner
    BY <1>1 DEF GameOver
  <2> HIDE DEF new
  <2> QED
    BY <1>6, <2>1
<1>9. isGameOver' /\ winner' = winner /\ Eight \notin balls' /\ OwnWinIsCleared'
  BY <1>1 DEF IInv, OneWinner, OwnWinIsCleared, GroupBalls, GroupOf, game
<1>10. OneWinner'
  BY <1>7, <1>8, <1>9 DEF OneWinner
<1> QED
  BY <1>4, <1>5, <1>10 DEF IInv

LEMMA ShotContinuesKeeps ==
    ASSUME IInv, ShotContinues
    PROVE  IInv'
<1>1. AcceptShot /\ MayProcess(shot)
  BY DEF ShotContinues, AcceptShot
<1>2. UNCHANGED <<isGameOver, winner, announced>> /\ ~isGameOver
  BY <1>1 DEF ShotContinues, MayProcess
<1>3. /\ currentPlayer \in Players /\ turnCount \in Nat
      /\ currentPlayer = 1 + (turnCount % 2)
  BY DEF IInv, TypeOK, TurnParity
<1>4. /\ currentPlayer' \in Players /\ turnCount' \in Nat
      /\ currentPlayer' = 1 + (turnCount' % 2)
  <2>1. CASE SwitchTurn(shot)
    <3>1. currentPlayer' = 3 - currentPlayer /\ turnCount' = turnCount + 1
      BY <2>1 DEF ShotContinues, Opponent
    <3>2. (turnCount + 1) % 2 = 1 - (turnCount % 2)
      BY <1>3
    <3> QED
      BY <1>3, <3>1, <3>2 DEF Players
  <2>2. CASE ~SwitchTurn(shot)
    BY <1>3, <2>2 DEF ShotContinues
  <2> QED
    BY <2>1, <2>2
<1>5. myTurn' \in [Players -> BOOLEAN]
  <2>1. myTurn' = [p \in Players |-> IF online[p] THEN p = currentPlayer' ELSE myTurn[p]]
    BY DEF ShotContinues, TurnViews
  <2>2. myTurn \in [Players -> BOOLEAN]
    BY DEF IInv, TypeOK
  <2>3. \A p \in Players : myTurn[p] \in BOOLEAN
    BY <2>2
  <2> QED
    BY <2>1, <2>3
<1>6. TypeOK'
  BY <1>1, <1>2, <1>4, <1>5, AcceptKeepsTypes DEF IInv, TypeOK
<1>7. winner' = 0 /\ ~isGameOver'
  BY <1>2 DEF IInv, WinnerOnlyAtEnd
<1>8. winner' # currentPlayer'
  <2>1. currentPlayer' \in {1, 2}
    BY <1>4 DEF Players
  <2> QED
    BY <1>7, <2>1
<1>9. announced' = {}
  BY <1>2 DEF IInv, OneWinner
<1>10. TurnParity' /\ OneWinner' /\ WinnerOnlyAtEnd'
  BY <1>4, <1>7, <1>8, <1>9 DEF TurnParity, OneWinner, OwnWinIsCleared, WinnerOnlyAtEnd
<1> QED
  BY <1>1, <1>6, <1>10, AcceptKeepsTypes DEF IInv

(* A win on the shooter's own shot: the group is dealt, and none of its balls *)
(* is left.                                                                   *)
LEMMA WinMeansCleared ==
    ASSUME IInv, NEW s \in ShotType, EightDrops(s), EightWinner(s) = currentPlayer
    PROVE  /\ GroupsAfter(s)[currentPlayer] # "open"
           /\ GroupBalls(GroupsAfter(s)[currentPlayer]) \cap BallsAfter(s) = {}
<1>1. currentPlayer \in Players
  BY DEF IInv, TypeOK
<1>2. EightReason(s) = "pocketed_8_ball"
  BY <1>1, OpponentIsOther DEF EightWinner
<1>3. GroupNow(s) # "open" /\ IsGroupCleared(GroupNow(s), s)
  BY <1>2 DEF EightReason
<1>4. BallsAfter(s) = ReportedBalls(s)
  BY DEF EightDrops, BallsAfter, EightSpotted
<1> QED
  BY <1>3, <1>4 DEF GroupNow, IsGroupCleared

LEMMA ShotDecidesKeeps ==
    ASSUME IInv, ShotDecides
    PROVE  IInv'
<1>1. AcceptShot /\ EightDrops(shot) /\ shot \in ShotType
  BY AcceptKeepsTypes DEF ShotDecides
<1>2. currentPlayer \in Players /\ turnCount \in Nat /\ TurnParity
  BY DEF IInv, TypeOK
<1>3. UNCHANGED <<currentPlayer, turnCount>> /\ isGameOver' = TRUE
  BY DEF ShotDecides
<1>4. EightWinner(shot) \in Players
  BY <1>2, OpponentIsOther DEF EightWinner
<1>5. winner' = EightWinner(shot)
  BY DEF ShotDecides
<1>6. announced' = {}
  BY <1>1 DEF ShotDecides, AcceptShot, MayProcess, IInv, OneWinner
<1>7. myTurn' \in [Players -> BOOLEAN]
  BY DEF ShotDecides, TurnViews, IInv, TypeOK
<1>8. TypeOK'
  BY <1>1, <1>2, <1>3, <1>4, <1>5, <1>6, <1>7, AcceptKeepsTypes DEF TypeOK
<1>9. balls' = BallsAfter(shot) /\ group' = GroupsAfter(shot)
  BY <1>1 DEF AcceptShot
<1>10. OwnWinIsCleared'
  <2>1. SUFFICES ASSUME winner' = currentPlayer'
                 PROVE  group'[winner'] # "open" /\ GroupBalls(group'[winner']) \cap balls' = {}
    BY DEF OwnWinIsCleared, GroupBalls, GroupOf
  <2>2. EightWinner(shot) = currentPlayer
    BY <1>3, <1>5, <2>1
  <2> QED
    BY <1>1, <1>3, <1>5, <1>9, <2>2, WinMeansCleared
<1>11. Eight \notin balls'
  BY <1>1, <1>9, BallsAssumption DEF BallsAfter, ReportedBalls, EightDrops, EightSpotted
<1>12. TurnParity' /\ WinnerOnlyAtEnd' /\ OneWinner'
  BY <1>2, <1>3, <1>6, <1>10, <1>11 DEF TurnParity, WinnerOnlyAtEnd, OneWinner
<1> QED
  BY <1>1, <1>8, <1>12, AcceptKeepsTypes DEF IInv

LEMMA NextKeeps ==
    ASSUME IInv, [Next]_vars
    PROVE  IInv'
<1>1. CASE RejectShot
  BY <1>1, RejectShotKeeps
<1>2. CASE ShotContinues
  BY <1>2, ShotContinuesKeeps
<1>3. CASE ShotDecides
  BY <1>3, ShotDecidesKeeps
<1>4. CASE TurnTimeout
  <2>1. currentPlayer \in Players
    BY DEF IInv, TypeOK
  <2>2. Abandon(Opponent(currentPlayer), "time_out") /\ ~isGameOver
    BY <1>4 DEF TurnTimeout
  <2> QED
    BY <2>1, <2>2, OpponentIsOther, AbandonKeeps
<1>5. CASE ForceEnd
  <2>1. Abandon(0, "admin_force_end")
    BY <1>5 DEF ForceEnd
  <2> QED
    BY <2>1, AbandonKeeps
<1>6. ASSUME NEW p \in Players, ClientShoots(p)
      PROVE  IInv'
  BY <1>6, ClientShootsKeeps
<1>7. ASSUME NEW p \in Players, DisconnectForfeit(p)
      PROVE  IInv'
  <2>1. Abandon(Opponent(p), "opponent_disconnected") /\ ~isGameOver
    BY <1>7 DEF DisconnectForfeit
  <2> QED
    BY <2>1, OpponentIsOther, AbandonKeeps
<1>8. ASSUME NEW p \in Players, LoseSocket(p) \/ Reconnect(p) \/ Reload(p)
      PROVE  IInv'
  BY <1>8, ConnectionsKeep
<1>9. CASE AnnounceWinner
  BY <1>9, AnnounceWinnerKeeps
<1>10. CASE UNCHANGED vars
  <2>1. RestTypes'
    BY <1>10 DEF vars, clients, RestTypes, IInv, TypeOK
  <2> QED
    BY <1>10, <2>1, SameGame DEF vars
<1> QED
  BY <1>1, <1>2, <1>3, <1>4, <1>5, <1>6, <1>7, <1>8, <1>9, <1>10 DEF Next, Play, Server

(* The inductive invariant holds of every behaviour. *)
THEOREM Inductive == Spec => []IInv
<1>1. Init => IInv
  BY InitEstablishes
<1>2. IInv /\ [Next]_vars => IInv'
  BY NextKeeps
<1> QED
  BY <1>1, <1>2, PTL DEF Spec

(* Every variable of the game and of the browsers keeps its type. *)
THEOREM TypeCorrect == Spec => []TypeOK
<1>1. IInv => TypeOK
  BY DEF IInv
<1> QED
  BY <1>1, Inductive, PTL

(* The groups are undealt, or one player has solids and the other stripes. *)
THEOREM GroupsAgree == Spec => []GroupsComplementary
<1>1. IInv => GroupsComplementary
  BY DEF IInv
<1> QED
  BY <1>1, Inductive, PTL

(* The parity of turn_count names the player to shoot. *)
THEOREM TurnCounted == Spec => []TurnParity
<1>1. IInv => TurnParity
  BY DEF IInv
<1> QED
  BY <1>1, Inductive, PTL

(* A game has one winner: one the rules declare on the own shot has cleared *)
(* the group, and no broadcast names anyone else.                           *)
THEOREM WinnersAgree == Spec => []OneWinner
<1>1. IInv => OneWinner
  BY DEF IInv
<1> QED
  BY <1>1, Inductive, PTL

--------------------------------------------------------------------------------
(* The action properties: what a single step may do to the game. *)

(* Only an accepted shot touches the groups, and an accepted shot or an end  *)
(* of the game is all that changes the game.                                 *)
LEMMA GameSteps ==
    ASSUME [Next]_vars
    PROVE  \/ UNCHANGED game
           \/ ShotContinues
           \/ ShotDecides
           \/ /\ isGameOver'
              /\ UNCHANGED <<balls, currentPlayer, group, isBreak, winner, turnCount>>
<1>1. CASE RejectShot \/ AnnounceWinner
  BY <1>1 DEF RejectShot, AnnounceWinner
<1>2. CASE TurnTimeout \/ ForceEnd \/ \E p \in Players : DisconnectForfeit(p)
  BY <1>2 DEF TurnTimeout, ForceEnd, DisconnectForfeit, Abandon
<1>3. ASSUME NEW p \in Players,
             ClientShoots(p) \/ LoseSocket(p) \/ Reconnect(p) \/ Reload(p)
      PROVE  UNCHANGED game
  BY <1>3 DEF ClientShoots, LoseSocket, Reconnect, Reload
<1>4. CASE UNCHANGED vars
  BY <1>4 DEF vars
<1> QED
  BY <1>1, <1>2, <1>3, <1>4 DEF Next, Play, Server

LEMMA FinalStep ==
    ASSUME TypeOK, [Next]_vars, isGameOver
    PROVE  isGameOver' /\ UNCHANGED game
<1>1. ~ShotContinues /\ ~ShotDecides
  BY DEF ShotContinues, ShotDecides, AcceptShot, MayProcess
<1>2. isGameOver = TRUE
  BY DEF TypeOK
<1>3. isGameOver' \in BOOLEAN
  <2>1. CASE UNCHANGED vars
    BY <1>2, <2>1 DEF vars, game
  <2>2. CASE Next
    BY <1>1, <1>2, <2>2 DEF Next, Play, Server, RejectShot, AnnounceWinner, TurnTimeout, ForceEnd, Abandon,
       ClientShoots, DisconnectForfeit, LoseSocket, Reconnect, Reload, game
  <2> QED
    BY <2>1, <2>2
<1> QED
  BY <1>1, <1>2, <1>3, GameSteps DEF game

(* A finished game is frozen. *)
THEOREM FinishedFrozen == Spec => FinishedIsFinal
<1>1. TypeOK /\ [Next]_vars => [isGameOver => isGameOver' /\ UNCHANGED game]_vars
  BY FinalStep
<1> QED
  BY <1>1, TypeCorrect, PTL DEF Spec, FinishedIsFinal

LEMMA DealStep ==
    ASSUME [Next]_vars, group' # group
    PROVE  ~isBreak /\ \A p \in Players : group[p] = "open"
<1>1. CASE UNCHANGED game
  BY <1>1 DEF game
<1>2. CASE AcceptShot
  BY <1>2 DEF AcceptShot, GroupsAfter, Deals, Players
<1> QED
  BY <1>1, <1>2, GameSteps DEF ShotContinues, ShotDecides

(* The groups are dealt once, after the break. *)
THEOREM DealtOnlyOnce == Spec => DealtOnce
<1>1. [Next]_vars => [group' # group => ~isBreak /\ \A p \in Players : group[p] = "open"]_vars
  BY DealStep
<1> QED
  BY <1>1, PTL DEF Spec, DealtOnce

--------------------------------------------------------------------------------
(* Match implements PoolGame: initial states map to initial states, steps to *)
(* steps or stutters.                                                        *)

LEMMA RefinesInit == Init => Game!Init
BY DEF Init, Game!Init, Game!Open, Game!Players, Players

LEMMA GamePlayers == Game!Players = Players /\ \A p : Game!Opponent(p) = Opponent(p)
BY DEF Game!Players, Players, Game!Opponent, Opponent

(* What is dealt is one of PoolGame's deals. *)
LEMMA DealIsADeal ==
    ASSUME IInv, NEW s \in ShotType
    PROVE  \/ GroupsAfter(s) = group
           \/ group = Game!Open /\ GroupsAfter(s) \in Game!Deals /\ GroupsAfter(s)[1] # "open"
<1>1. SUFFICES ASSUME Deals(s)
               PROVE  /\ group = Game!Open
                      /\ GroupsAfter(s) \in Game!Deals
                      /\ GroupsAfter(s)[1] # "open"
  BY DEF GroupsAfter
<1>2. group \in [Players -> {"open", "solids", "stripes"}]
  BY DEF IInv, TypeOK
<1>3. group = Game!Open
  BY <1>1, <1>2 DEF Deals, Game!Open, Game!Players, Players
<1> DEFINE g == GroupOf(s.firstLegal)
<1>4. g \in {"solids", "stripes"} /\ OtherGroup(g) \in {"solids", "stripes"} /\ OtherGroup(g) # g
  BY <1>1 DEF Deals, ShotType, GroupOf, OtherGroup
<1>5. GroupsAfter(s) = [p \in Players |-> IF p = currentPlayer THEN g ELSE OtherGroup(g)]
  BY <1>1 DEF GroupsAfter
<1>6. currentPlayer \in {1, 2} /\ 1 \in Players /\ 2 \in Players
  BY DEF IInv, TypeOK, Players
<1> HIDE DEF g
<1>7. GroupsAfter(s) \in [Players -> {"solids", "stripes"}]
  BY <1>4, <1>5
<1>8. GroupsAfter(s)[1] # GroupsAfter(s)[2]
  BY <1>4, <1>5, <1>6
<1>9. GroupsAfter(s)[1] # "open"
  BY <1>4, <1>5, <1>6
<1> QED
  BY <1>3, <1>7, <1>8, <1>9, GamePlayers DEF Game!Deals

(* The phase a state of Match maps to. *)
Phase ==
    IF isGameOver THEN "over"
    ELSE IF isBreak THEN "break"
    ELSE IF group[1] = "open" THEN "open" ELSE "grouped"

(* With agreeing groups, the first player's group tells whether any is dealt. *)
LEMMA OpenIsOpen ==
    ASSUME IInv
    PROVE  /\ group[1] = "open" <=> group = Game!Open
           /\ isBreak => group[1] = "open"
<1>1. group \in [{1, 2} -> {"open", "solids", "stripes"}]
  BY DEF IInv, TypeOK, Players
<1>2. 1 \in Players /\ 2 \in Players
  BY DEF Players
<1>3. group[1] = "open" => group[2] = "open"
  BY <1>2 DEF IInv, GroupsComplementary
<1>4. isBreak => group[1] = "open"
  BY <1>2 DEF IInv, BreakIsOpen
<1> QED
  BY <1>1, <1>3, <1>4 DEF Game!Open, Game!Players

LEMMA RefinesContinue ==
    ASSUME IInv, ShotContinues
    PROVE  Game!Next
<1>1. AcceptShot /\ shot \in ShotType /\ ~isGameOver
  BY AcceptKeepsTypes DEF ShotContinues, AcceptShot, MayProcess
<1>2. group' = GroupsAfter(shot) /\ isBreak' = FALSE
  BY <1>1 DEF AcceptShot
<1>3. UNCHANGED <<isGameOver, winner>>
  BY DEF ShotContinues
<1>4. currentPlayer' \in Game!Players
  BY GamePlayers, ShotContinuesKeeps DEF IInv, TypeOK
<1>5. Phase' = IF group'[1] = "open" THEN "open" ELSE "grouped"
  BY <1>1, <1>2, <1>3 DEF Phase
<1>6. CASE isBreak
  <2>1. group' = group /\ group[1] = "open"
    BY <1>2, <1>6, OpenIsOpen DEF GroupsAfter, Deals
  <2>2. Phase = "break" /\ Phase' = "open"
    BY <1>1, <1>5, <1>6, <2>1 DEF Phase
  <2>3. Game!Break
    BY <1>3, <1>4, <2>1, <2>2 DEF Game!Break, Phase
  <2> QED
    BY <2>3 DEF Game!Next
<1>7. CASE ~isBreak /\ group' = group
  <2>1. Phase \in {"open", "grouped"} /\ Phase' = Phase
    BY <1>1, <1>5, <1>7 DEF Phase
  <2>2. Game!Shot
    BY <1>3, <1>4, <1>7, <2>1 DEF Game!Shot, Phase
  <2> QED
    BY <2>2 DEF Game!Next
<1>8. CASE ~isBreak /\ group' # group
  <2>1. group = Game!Open /\ group' \in Game!Deals /\ group'[1] # "open"
    BY <1>1, <1>2, <1>8, DealIsADeal
  <2>2. Phase = "open" /\ Phase' = "grouped"
    BY <1>1, <1>5, <1>8, <2>1, OpenIsOpen DEF Phase
  <2>3. Game!Deal
    BY <1>3, <1>4, <2>1, <2>2 DEF Game!Deal, Phase
  <2> QED
    BY <2>3 DEF Game!Next
<1> QED
  BY <1>6, <1>7, <1>8

LEMMA RefinesDecide ==
    ASSUME IInv, ShotDecides
    PROVE  Game!Next
<1>1. AcceptShot /\ shot \in ShotType /\ ~isGameOver /\ EightDrops(shot)
  BY AcceptKeepsTypes DEF ShotDecides, AcceptShot, MayProcess
<1>2. group' = GroupsAfter(shot)
  BY <1>1 DEF AcceptShot
<1>3. isGameOver' /\ UNCHANGED currentPlayer /\ winner' = EightWinner(shot)
  BY DEF ShotDecides
<1>4. currentPlayer \in Players
  BY DEF IInv, TypeOK
<1>5. winner' \in Game!Players
  BY <1>3, <1>4, OpponentIsOther, GamePlayers DEF EightWinner
<1>6. ~isBreak
  BY <1>1 DEF EightDrops
<1>7. Phase \in {"open", "grouped"} /\ (Phase = "open" <=> group = Game!Open) /\ Phase' = "over"
  BY <1>1, <1>3, <1>6, OpenIsOpen DEF Phase
<1>8. IF Phase = "open" THEN group' \in Game!Deals \cup {Game!Open} ELSE UNCHANGED group
  BY <1>1, <1>2, <1>7, DealIsADeal
<1>9. ASSUME group' = Game!Open
      PROVE  winner' = Game!Opponent(currentPlayer)
  <2>1. GroupsAfter(shot)[currentPlayer] = "open"
    BY <1>2, <1>4, <1>9, GamePlayers DEF Game!Open
  <2>2. EightReason(shot) = "early_8_ball"
    BY <2>1 DEF EightReason, GroupNow
  <2> QED
    BY <1>3, <2>2, GamePlayers DEF EightWinner
<1>10. Game!Decide
  BY <1>3, <1>5, <1>7, <1>8, <1>9 DEF Game!Decide, Phase
<1> QED
  BY <1>10 DEF Game!Next

LEMMA RefinesStep ==
    ASSUME IInv, [Next]_vars
    PROVE  [Game!Next]_(Game!vars)
<1>1. CASE UNCHANGED game
  BY <1>1 DEF game, Game!vars
<1>2. CASE ShotContinues
  BY <1>2, RefinesContinue
<1>3. CASE ShotDecides
  BY <1>3, RefinesDecide
<1>4. CASE isGameOver' /\ UNCHANGED <<balls, currentPlayer, group, isBreak, winner, turnCount>>
  <2>1. CASE isGameOver
    BY <1>4, <2>1 DEF Game!vars
  <2>2. CASE ~isGameOver
    <3>1. Phase # "over" /\ Phase' = "over"
      BY <1>4, <2>2 DEF Phase
    <3>2. Game!Abandon
      BY <1>4, <3>1 DEF Game!Abandon, Phase
    <3> QED
      BY <3>2 DEF Game!Next
  <2> QED
    BY <2>1, <2>2
<1> QED
  BY <1>1, <1>2, <1>3, <1>4, GameSteps

(* Whatever the clients report and the network does, Match keeps the promise *)
(* of PoolGame.                                                              *)
THEOREM MatchImplementsPoolGame == Spec => ImplementsPoolGame
<1>1. Init => Game!Init
  BY RefinesInit
<1>2. IInv /\ [Next]_vars => [Game!Next]_(Game!vars)
  BY RefinesStep
<1> QED
  BY <1>1, <1>2, Inductive, PTL DEF Spec, ImplementsPoolGame, Game!Spec

--------------------------------------------------------------------------------
(***************************************************************************)
(* A game without lost sockets and reloads, on any rack and with any       *)
(* reports: exactly one player can act, and the browsers and the server    *)
(* have the same table between two shots.                                  *)
(***************************************************************************)

(* While nothing is disturbed, both players hear what the server says. *)
AllOnline == Undisturbed => \A p \in Players : online[p]

(* What a shot in flight says of the tables: its balls are the shooter's,  *)
(* the other browser and the server still have those that dropped.         *)
ShotAgrees ==
    /\ shot.positions = table[currentPlayer]
    /\ shot.positions = table[Opponent(currentPlayer)] \ shot.pocketed
    /\ balls \ {Eight} = table[Opponent(currentPlayer)] \ {Eight}
    /\ Eight \in table[Opponent(currentPlayer)] => Eight \in balls

Tables ==
    Undisturbed /\ ~isGameOver =>
        /\ \A p \in Players : Cue \in table[p]
        /\ shot # NoShot => ShotAgrees

TInv == AllOnline /\ OneActs /\ TablesAgree /\ Tables

--------------------------------------------------------------------------------
LEMMA InitTables == Init => TInv
<1> SUFFICES ASSUME Init PROVE TInv
  OBVIOUS
<1>1. Players = {1, 2} /\ shot = NoShot /\ currentPlayer = 1
  BY DEF Players, Init
<1>2. \A p \in Players : online[p] /\ table[p] = Balls /\ (MayAct(p) <=> p = 1)
  BY <1>1 DEF Init, MayAct
<1>3. balls = Balls /\ Cue \in Balls
  BY DEF Init, Balls
<1> QED
  BY <1>1, <1>2, <1>3 DEF TInv, AllOnline, OneActs, TablesAgree, Tables

(* Disturbances are not forgotten. *)
LEMMA StaysDisturbed ==
    ASSUME IInv, [Next]_vars, Undisturbed'
    PROVE  /\ Undisturbed
           /\ \A p \in Players : ~LoseSocket(p) /\ ~Reload(p)
<1>1. drops \in Nat /\ reloads \in Nat
  BY DEF IInv, TypeOK
<1>2. \A p \in Players : LoseSocket(p) => drops' = drops + 1
  BY DEF LoseSocket
<1>3. \A p \in Players : Reload(p) => reloads' = reloads + 1
  BY DEF Reload
<1>4. \A p \in Players : ~LoseSocket(p) /\ ~Reload(p)
  BY <1>1, <1>2, <1>3 DEF Undisturbed
<1>5. UNCHANGED <<drops, reloads>>
  BY <1>4 DEF Next, Play, Server, RejectShot, ShotContinues, ShotDecides, AcceptShot, TurnTimeout,
              ForceEnd, Abandon, AnnounceWinner, GameOver, ClientShoots, DisconnectForfeit, Reconnect, vars, clients
<1> QED
  BY <1>4, <1>5 DEF Undisturbed

(* Only these steps leave an undisturbed game running. *)
LEMMA RunningSteps ==
    ASSUME IInv, TInv, [Next]_vars, Undisturbed', ~isGameOver'
    PROVE  /\ Undisturbed /\ ~isGameOver /\ \A p \in Players : online[p]
           /\ (\E p \in Players : ClientShoots(p)) \/ ShotContinues \/ UNCHANGED vars
<1>1. Undisturbed /\ \A p \in Players : ~LoseSocket(p) /\ ~Reload(p)
  BY StaysDisturbed
<1>2. \A p \in Players : online[p]
  BY <1>1 DEF TInv, AllOnline
<1>3. ~RejectShot
  BY <1>1 DEF TInv, OneActs, RejectShot, MayProcess, game
<1>4. ~ShotDecides /\ ~TurnTimeout /\ ~ForceEnd /\ ~AnnounceWinner
  BY DEF ShotDecides, TurnTimeout, ForceEnd, Abandon, AnnounceWinner, IInv, OneWinner, game
<1>5. \A p \in Players : ~DisconnectForfeit(p) /\ ~Reconnect(p)
  BY <1>2 DEF DisconnectForfeit, Reconnect
<1>6. (\E p \in Players : ClientShoots(p)) \/ ShotContinues \/ UNCHANGED vars
  BY <1>1, <1>3, <1>4, <1>5 DEF Next, Play, Server
<1>7. ~isGameOver
  BY <1>6 DEF ClientShoots, ShotContinues, vars, game
<1> QED
  BY <1>1, <1>2, <1>6, <1>7

LEMMA NextAllOnline == IInv /\ TInv /\ [Next]_vars => AllOnline'
<1> SUFFICES ASSUME IInv, TInv, [Next]_vars, Undisturbed' PROVE \A p \in Players : online'[p]
  BY DEF AllOnline
<1>1. Undisturbed /\ \A p \in Players : ~LoseSocket(p) /\ ~Reload(p)
  BY StaysDisturbed
<1>2. \A p \in Players : online[p]
  BY <1>1 DEF TInv, AllOnline
<1>3. online' = online
  BY <1>1, <1>2 DEF Next, Play, Server, RejectShot, ShotContinues, ShotDecides, AcceptShot, TurnTimeout,
              ForceEnd, Abandon, AnnounceWinner, GameOver, ClientShoots, DisconnectForfeit, Reconnect, vars, clients
<1> QED
  BY <1>2, <1>3

(* The player to move shoots. *)
LEMMA ShootKeeps ==
    ASSUME IInv, TInv, Undisturbed, ~isGameOver, NEW p \in Players, online[p], ClientShoots(p)
    PROVE  /\ p = currentPlayer /\ shot = NoShot /\ shot' # NoShot /\ shot'.player = p
           /\ \A q \in Players : ~MayAct(q)'
           /\ table[1] = table[2] /\ Cue \in table[p]
           /\ shot'.positions = table[p] \ shot'.pocketed /\ Cue \notin shot'.pocketed
           /\ table'[p] = shot'.positions /\ table'[Opponent(p)] = table[Opponent(p)]
           /\ UNCHANGED <<balls, currentPlayer>>
<1>1. /\ table \in [Players -> SUBSET Balls] /\ myTurn \in [Players -> BOOLEAN]
      /\ shot' \in ShotType \cup {NoShot}
  <2>1. IInv'
    BY ClientShootsKeeps
  <2> QED
    BY <2>1 DEF IInv, TypeOK
<1>2. MayAct(p) /\ shot = NoShot /\ UNCHANGED <<balls, currentPlayer>>
  BY DEF ClientShoots, game
<1>3. p = currentPlayer /\ \A q \in Players : q # p => ~MayAct(q)
  BY <1>2 DEF TInv, OneActs
<1>4. PICK pocketed \in SUBSET (table[p] \ {Cue}), cuePocketed \in BOOLEAN,
           firstContact \in (table[p] \ {Cue}) \cup {NoBall}, cushionHits \in CushionReports :
         \E firstLegal \in IF pocketed \subseteq {Eight} THEN {NoBall} ELSE pocketed \ {Eight} :
            /\ shot' = [player |-> p, positions |-> table[p] \ pocketed,
                        pocketed |-> pocketed, firstLegal |-> firstLegal,
                        cuePocketed |-> cuePocketed, firstContact |-> firstContact,
                        cushionHits |-> cushionHits]
            /\ table' = [table EXCEPT ![p] = @ \ pocketed]
  BY DEF ClientShoots
<1>5. /\ shot'.player = p /\ shot'.positions = table[p] \ pocketed /\ shot'.pocketed = pocketed
      /\ table' = [table EXCEPT ![p] = @ \ pocketed]
  BY <1>4
<1>6. shot' # NoShot
  <2>1. PICK firstLegal \in IF pocketed \subseteq {Eight} THEN {NoBall} ELSE pocketed \ {Eight} :
              shot' = [player |-> p, positions |-> table[p] \ pocketed,
                        pocketed |-> pocketed, firstLegal |-> firstLegal,
                        cuePocketed |-> cuePocketed, firstContact |-> firstContact,
                        cushionHits |-> cushionHits]
    BY <1>4
  <2>2. table[p] \subseteq Balls /\ pocketed \subseteq ObjectBalls
    BY <1>1 DEF Balls
  <2>3. firstLegal \in Solids \cup Stripes \cup {NoBall} /\ firstContact \in ObjectBalls \cup {NoBall}
    BY <2>1, <2>2 DEF ObjectBalls, Balls
  <2>4. shot' \in ShotType
    BY <2>1, <2>2, <2>3 DEF ShotType
  <2> QED
    BY <2>4, ShotAssumption
<1>7. table'[p] = table[p] \ pocketed /\ table'[Opponent(p)] = table[Opponent(p)]
  BY <1>1, <1>5, OpponentIsOther
<1>8. table[1] = table[2] /\ Cue \in table[p]
  BY <1>2 DEF TInv, TablesAgree, Tables
<1>9. \A q \in Players : ~MayAct(q)'
  BY <1>3 DEF ClientShoots, MayAct
<1> QED
  BY <1>2, <1>3, <1>5, <1>6, <1>7, <1>8, <1>9

(* The server takes a report over, and both browsers hide what dropped. *)
LEMMA AcceptAgrees ==
    ASSUME IInv, TInv, Undisturbed, ~isGameOver, \A p \in Players : online[p], ShotContinues
    PROVE  /\ shot' = NoShot
           /\ \A p \in Players : MayAct(p)' <=> p = currentPlayer'
           /\ \A p \in Players : table'[p] = shot.positions
           /\ Cue \in shot.positions
           /\ balls' \ {Eight} = shot.positions \ {Eight}
           /\ Eight \in shot.positions => Eight \in balls'
<1>1. AcceptShot /\ shot # NoShot
  BY DEF ShotContinues, AcceptShot
<1>2. shot \in ShotType
  BY <1>1, AcceptKeepsTypes
<1>3. table \in [Players -> SUBSET Balls] /\ currentPlayer \in Players
  BY DEF IInv, TypeOK
<1>4. ShotAgrees /\ \A p \in Players : Cue \in table[p]
  BY <1>1 DEF TInv, Tables
<1>5. shot' = NoShot /\ balls' = BallsAfter(shot)
  BY <1>1 DEF AcceptShot
<1>6. \A p \in Players : MayAct(p)' <=> p = currentPlayer'
  BY <1>1 DEF ShotContinues, TurnViews, AcceptShot, MayAct
<1>7. PICK gone \in HiddenBalls(shot) : table' = [p \in Players |-> table[p] \ gone]
  BY <1>1 DEF AcceptShot
<1>8. ASSUME NEW p \in Players
      PROVE  table'[p] = shot.positions
  <2>1. table'[p] = table[p] \ gone
    BY <1>7
  <2>2. table[p] = shot.positions \/ table[p] \ shot.pocketed = shot.positions
    BY <1>3, <1>4, OpponentIsOther DEF ShotAgrees, Players, Opponent
  <2>3. shot.positions \cap shot.pocketed = {}
    BY <1>4 DEF ShotAgrees
  <2>4. CASE gone = shot.pocketed
    BY <2>1, <2>2, <2>3, <2>4
  <2>5. CASE gone = Balls \ (shot.positions \cup {Cue})
    <3>1. table[p] \subseteq Balls /\ Cue \in shot.positions
      BY <1>3, <1>4 DEF ShotAgrees
    <3> QED
      BY <2>1, <2>2, <2>5, <3>1
  <2> QED
    BY <1>7, <2>4, <2>5 DEF HiddenBalls
<1>9. Cue \in shot.positions /\ shot.positions \cap shot.pocketed = {}
  BY <1>3, <1>4 DEF ShotAgrees
<1>10. balls' \in {shot.positions, shot.positions \cup {Eight}}
  BY <1>5, <1>9 DEF BallsAfter, ReportedBalls
<1> QED
  BY <1>5, <1>6, <1>8, <1>9, <1>10

LEMMA NextTables == IInv /\ TInv /\ [Next]_vars => (OneActs /\ TablesAgree /\ Tables)'
<1> SUFFICES ASSUME IInv, TInv, [Next]_vars, Undisturbed', ~isGameOver'
             PROVE  (OneActs /\ TablesAgree /\ Tables)'
  BY DEF OneActs, TablesAgree, Tables
<1>1. /\ Undisturbed /\ ~isGameOver /\ \A p \in Players : online[p]
      /\ (\E p \in Players : ClientShoots(p)) \/ ShotContinues \/ UNCHANGED vars
  BY RunningSteps
<1>2. currentPlayer \in Players /\ Players = {1, 2}
  BY DEF IInv, TypeOK, Players
<1>3. ASSUME NEW p \in Players, ClientShoots(p)
      PROVE  (OneActs /\ TablesAgree /\ Tables)'
  <2>1. /\ p = currentPlayer /\ shot = NoShot /\ shot' # NoShot /\ shot'.player = p
        /\ \A q \in Players : ~MayAct(q)'
        /\ table[1] = table[2] /\ Cue \in table[p]
        /\ shot'.positions = table[p] \ shot'.pocketed /\ Cue \notin shot'.pocketed
        /\ table'[p] = shot'.positions /\ table'[Opponent(p)] = table[Opponent(p)]
        /\ UNCHANGED <<balls, currentPlayer>>
    BY <1>1, <1>3, ShootKeeps
  <2>2. table[Opponent(p)] = table[p] /\ (Opponent(p) = 1 \/ Opponent(p) = 2)
        /\ \A q \in Players : q = p \/ q = Opponent(p)
    BY <1>2, <2>1 DEF Opponent
  <2>3. balls \ {Eight} = table[p] \ {Eight} /\ (Eight \in table[p] => Eight \in balls)
    BY <1>1, <1>2, <2>1 DEF TInv, TablesAgree
  <2>4. ShotAgrees'
    BY <2>1, <2>2, <2>3 DEF ShotAgrees
  <2>5. \A q \in Players : Cue \in table'[q]
    BY <2>1, <2>2
  <2> QED
    BY <2>1, <2>4, <2>5 DEF OneActs, TablesAgree, Tables
<1>4. CASE ShotContinues
  <2>1. /\ shot' = NoShot
        /\ \A p \in Players : MayAct(p)' <=> p = currentPlayer'
        /\ \A p \in Players : table'[p] = shot.positions
        /\ Cue \in shot.positions
        /\ balls' \ {Eight} = shot.positions \ {Eight}
        /\ Eight \in shot.positions => Eight \in balls'
    BY <1>1, <1>4, AcceptAgrees
  <2> QED
    BY <1>2, <2>1 DEF OneActs, TablesAgree, Tables
<1>5. CASE UNCHANGED vars
  BY <1>5 DEF TInv, OneActs, MayAct, TablesAgree, Tables, ShotAgrees, Undisturbed, vars, game, clients
<1> QED
  BY <1>1, <1>3, <1>4, <1>5

--------------------------------------------------------------------------------
(* The rule book. *)

(* A shot has a fault if it has any of the seven. *)
LEMMA Faults ==
    ASSUME NEW s
    PROVE  Foul(s) <=> \/ s.cuePocketed \/ WrongFirstContact(s) \/ NoContact(s) \/ IllegalBreak(s)
                       \/ EightSpotted(s) \/ OpponentPocketed(s) \/ NoRail(s)
BY DEF Foul, FoulReason

(* The shot takes the last ball of the shooter's group, whatever else it does. *)
TakesLast(s) ==
    Own # "open" /\ ~ShootsAtEight /\ GroupBalls(Own) \cap balls \subseteq s.pocketed

(* While nothing is disturbed, the balls left after a shot are those before *)
(* it that did not drop.                                                    *)
LEMMA ClearedJudged ==
    ASSUME TInv, Undisturbed, ~isGameOver, shot # NoShot, NEW g
    PROVE  IsGroupCleared(g, shot) <=> GroupBalls(g) \cap balls \subseteq shot.pocketed
<1>1. ShotAgrees
  BY DEF TInv, Tables
<1>2. \A b \in GroupBalls(g) : b # Cue /\ b # Eight
  BY BallsAssumption DEF GroupBalls
<1>3. \A b \in GroupBalls(g) : b \in ReportedBalls(shot) <=> b \in balls \ shot.pocketed
  BY <1>1, <1>2 DEF ShotAgrees, ReportedBalls
<1> QED
  BY <1>3 DEF IsGroupCleared

(* What is known of the shot under way and of the shooter's group. *)
LEMMA ShotKnown ==
    ASSUME IInv, shot # NoShot, group = bookGroup
    PROVE  /\ shot.firstContact \in ObjectBalls \cup {NoBall}
           /\ shot.pocketed \subseteq ObjectBalls
           /\ shot.cushionHits \in Nat \cup {Unreported} /\ Unreported \notin Nat
           /\ shot.cuePocketed \in BOOLEAN
           /\ Own = ShooterGroup /\ Own \in {"open", "solids", "stripes"}
           /\ Own # "open" => ~isBreak
           /\ Own = "open" <=> group[1] = "open" /\ group[2] = "open"
<1>1. shot \in ShotType /\ currentPlayer \in Players
  BY DEF IInv, TypeOK
<1>2. /\ shot.firstContact \in ObjectBalls \cup {NoBall}
      /\ shot.pocketed \subseteq ObjectBalls
      /\ shot.cushionHits \in CushionReports
      /\ shot.cuePocketed \in BOOLEAN
  BY <1>1 DEF ShotType
<1>3. Own = ShooterGroup /\ Own \in {"open", "solids", "stripes"}
  BY <1>1 DEF Own, ShooterGroup, IInv, TypeOK
<1>4. Own # "open" => ~isBreak
  BY <1>1, <1>3 DEF IInv, BreakIsOpen, ShooterGroup
<1>5. Own = "open" <=> group[1] = "open" /\ group[2] = "open"
  BY <1>1, <1>3 DEF IInv, GroupsComplementary, ShooterGroup, Players
<1> QED
  BY <1>2, <1>3, <1>4, <1>5, CushionAssumption

(* The groups in force while the pocketed balls are judged: book and engine *)
(* differ only when an illegal shot deals.                                  *)
LEMMA DealsAlike ==
    ASSUME IInv, shot # NoShot, group = bookGroup
    PROVE  /\ LegalShot(shot) => GroupsAfter(shot) = BookGroupsAfter(shot)
           /\ Own # "open" \/ ~Deals(shot) => GroupNow(shot) = Own /\ OwnNow(shot) = Own
<1>1. Deals(shot) <=> Own = "open" /\ ~isBreak /\ shot.firstLegal # NoBall
  BY ShotKnown DEF Deals
<1>2. Own = ShooterGroup
  BY ShotKnown
<1> QED
  BY <1>1, <1>2 DEF GroupsAfter, BookGroupsAfter, GroupNow, OwnNow, Own, ShooterGroup

(* Unless the shot takes the last ball of the group, the table after it tells *)
(* as well as the table before it which balls the shooter may hit first.      *)
LEMMA ContactJudged ==
    ASSUME IInv, TInv, Undisturbed, ~isGameOver, shot # NoShot, group = bookGroup
    PROVE  /\ ~TakesLast(shot) =>
                (WrongFirstContact(shot) <=> shot.firstContact \notin Targets \cup {NoBall})
           /\ TakesLast(shot) =>
                /\ WrongFirstContact(shot) <=> shot.firstContact \notin {Eight, NoBall}
                /\ Targets = GroupBalls(Own) /\ Eight \notin Targets /\ NoBall \notin Targets
                /\ shot.pocketed # {}
<1> DEFINE c == shot.firstContact
<1>1. /\ c \in ObjectBalls \cup {NoBall} /\ Own = ShooterGroup
      /\ Own \in {"open", "solids", "stripes"}
  BY ShotKnown
<1>2. \A b \in ObjectBalls : GroupOf(b) # "none" <=> b \in Solids \cup Stripes
  BY BallsAssumption DEF ObjectBalls, GroupOf
<1>3. NoBall \notin ObjectBalls /\ Eight \notin Solids \cup Stripes
  BY BallsAssumption DEF ObjectBalls
<1>4. IsGroupCleared(Own, shot) <=> GroupBalls(Own) \cap balls \subseteq shot.pocketed
  BY ClearedJudged
<1>5. CASE Own = "open"
  BY <1>1, <1>2, <1>3, <1>5 DEF WrongFirstContact, Targets, TakesLast
<1>6. CASE Own # "open" /\ ShootsAtEight
  <2>1. IsGroupCleared(Own, shot)
    BY <1>4, <1>6 DEF ShootsAtEight
  <2> QED
    BY <1>1, <1>6, <2>1 DEF WrongFirstContact, Targets, TakesLast
<1>7. CASE Own # "open" /\ ~ShootsAtEight
  <2>1. Targets = GroupBalls(Own) /\ Eight \notin Targets /\ NoBall \notin Targets
    BY <1>3, <1>7, BallsAssumption DEF Targets, GroupBalls
  <2>2. CASE TakesLast(shot)
    <3>1. IsGroupCleared(Own, shot)
      BY <1>4, <2>2 DEF TakesLast
    <3>2. shot.pocketed # {}
      BY <1>7, <2>2 DEF TakesLast, ShootsAtEight
    <3> QED
      BY <1>1, <1>7, <2>1, <2>2, <3>1, <3>2 DEF WrongFirstContact
  <2>3. CASE ~TakesLast(shot)
    <3>1. ~IsGroupCleared(Own, shot)
      BY <1>4, <1>7, <2>3 DEF TakesLast
    <3>2. c \in GroupBalls(Own) <=> c # NoBall /\ GroupOf(c) = Own
      BY <1>1, <1>2, <1>3, <1>7 DEF GroupBalls, ObjectBalls, GroupOf
    <3> QED
      BY <1>1, <1>7, <2>1, <2>3, <3>1, <3>2 DEF WrongFirstContact
  <2> QED
    BY <2>2, <2>3
<1> QED
  BY <1>5, <1>6, <1>7

(* A shot the book calls illegal has one of the engine's faults, unless it    *)
(* takes the last ball or is a break that hits nothing.                       *)
LEMMA IllegalIsFoul ==
    ASSUME IInv, TInv, Undisturbed, ~isGameOver, shot # NoShot, group = bookGroup,
           ~TakesLast(shot), ~BreaksNothing(shot), ~LegalShot(shot)
    PROVE  Foul(shot)
<1>1. CASE shot.cuePocketed
  BY <1>1, Faults
<1>2. CASE ~LegalContact(shot) /\ ~shot.cuePocketed
  <2>1. CASE shot.firstContact # NoBall
    <3>1. WrongFirstContact(shot)
      BY <1>2, <2>1, ContactJudged DEF LegalContact
    <3> QED
      BY <3>1, Faults
  <2>2. CASE shot.firstContact = NoBall
    <3>1. shot.pocketed = {} /\ LegalPockets(shot) = {} /\ CorrectPockets(shot) = {}
      BY <1>2, <2>2 DEF LegalContact, LegalPockets, CorrectPockets
    <3>2. CASE ~isBreak
      BY <2>2, <3>1, <3>2, Faults DEF NoContact
    <3>3. CASE isBreak
      <4>1. ~EnoughRail(shot)
        BY <1>2, <2>2, <3>1, <3>3 DEF BreaksNothing
      <4>2. IllegalBreak(shot)
        BY <3>1, <3>3, <4>1, ShotKnown DEF EnoughRail, IllegalBreak
      <4> QED
        BY <4>2, Faults
    <3> QED
      BY <3>2, <3>3
  <2> QED
    BY <2>1, <2>2
<1>3. CASE ~EnoughRail(shot)
  <2>1. shot.pocketed = {} /\ shot.cushionHits \in Nat /\ shot.cushionHits < IF isBreak THEN 4 ELSE 1
    BY <1>3, ShotKnown DEF EnoughRail
  <2>2. LegalPockets(shot) = {} /\ CorrectPockets(shot) = {}
    BY <2>1 DEF LegalPockets, CorrectPockets
  <2>3. IllegalBreak(shot) \/ NoRail(shot)
    BY <2>1, <2>2, ShotKnown DEF IllegalBreak, NoRail
  <2> QED
    BY <2>3, Faults
<1> QED
  BY <1>1, <1>2, <1>3 DEF LegalShot

(* On a legal shot engine and book see the same balls as the shooter's own. *)
LEMMA PocketsJudged ==
    ASSUME IInv, shot # NoShot, group = bookGroup,
           LegalShot(shot) \/ Own # "open" \/ ~Deals(shot)
    PROVE  OwnPocketed(shot) = CorrectPockets(shot) /\ LegalPockets(shot) = shot.pocketed \ {Eight}
<1>1. GroupNow(shot) = OwnNow(shot)
  BY DealsAlike DEF GroupNow, OwnNow
<1> QED
  BY <1>1 DEF OwnPocketed, CorrectPockets, LegalPockets

(* The faults of the engine that are fouls by the book; in the last case the *)
(* shot takes the last ball of the group.                                    *)
LEMMA FoulIsFoul ==
    ASSUME IInv, TInv, Undisturbed, ~isGameOver, shot # NoShot, group = bookGroup,
           ~EightDrops(shot), Foul(shot), ~BookFoul(shot)
    PROVE  TakesLast(shot) /\ WrongFirstContact(shot)
<1>1. LegalShot(shot) /\ ~(isBreak /\ Eight \in shot.pocketed)
      /\ OwnPocketed(shot) = shot.pocketed \ {Eight}
  BY DEF BookFoul
<1>2. ~shot.cuePocketed /\ LegalContact(shot) /\ EnoughRail(shot)
  BY <1>1 DEF LegalShot
<1>3. Eight \notin shot.pocketed
  BY <1>1 DEF EightDrops
<1>4. LegalPockets(shot) = shot.pocketed /\ CorrectPockets(shot) = shot.pocketed
  BY <1>1, <1>3, PocketsJudged
<1>5. ~EightSpotted(shot) /\ ~OpponentPocketed(shot)
  BY <1>3, <1>4 DEF EightSpotted, OpponentPocketed
<1>6. ~NoContact(shot)
  <2>1. NoBall \notin Targets
    BY BallsAssumption DEF Targets, GroupBalls
  <2> QED
    BY <1>2, <1>4, <2>1 DEF NoContact, LegalContact
<1>7. ~IllegalBreak(shot) /\ ~NoRail(shot)
  BY <1>2, <1>4, ShotKnown DEF IllegalBreak, NoRail, EnoughRail
<1>8. WrongFirstContact(shot)
  BY <1>2, <1>5, <1>6, <1>7, Faults
<1>9. TakesLast(shot)
  BY <1>2, <1>8, ContactJudged DEF LegalContact
<1> QED
  BY <1>8, <1>9

(* Where the 8-ball does not drop, the disputed shots are those that only one *)
(* of the two calls a foul.                                                   *)
LEMMA FoulsJudged ==
    ASSUME IInv, TInv, Undisturbed, ~isGameOver, shot # NoShot, group = bookGroup, ~EightDrops(shot)
    PROVE  (Foul(shot) <=> BookFoul(shot)) <=> ~ClearsGroup(shot) /\ ~BreaksNothing(shot)
<1> DEFINE c == shot.firstContact
<1>1. CASE TakesLast(shot)
  <2>1. /\ WrongFirstContact(shot) <=> c \notin {Eight, NoBall}
        /\ Targets = GroupBalls(Own) /\ Eight \notin Targets /\ NoBall \notin Targets
        /\ shot.pocketed # {}
    BY <1>1, ContactJudged
  <2>2. Own # "open" /\ ~isBreak /\ Eight \notin shot.pocketed
    BY <1>1, ShotKnown DEF TakesLast, EightDrops
  <2>3. /\ OwnPocketed(shot) = CorrectPockets(shot) /\ LegalPockets(shot) = shot.pocketed
        /\ OwnNow(shot) = Own
    BY <2>2, PocketsJudged, DealsAlike
  <2>4. EnoughRail(shot) /\ ~NoContact(shot) /\ ~IllegalBreak(shot) /\ ~EightSpotted(shot)
    BY <2>1, <2>2, <2>3 DEF EnoughRail, NoContact, IllegalBreak, EightSpotted
  <2>5. OpponentPocketed(shot) <=> OwnPocketed(shot) # shot.pocketed
    BY <2>3 DEF OpponentPocketed
  <2>6. ~OpponentPocketed(shot) => ~NoRail(shot)
    BY <2>1, <2>3 DEF OpponentPocketed, NoRail
  <2>7. Foul(shot) <=> shot.cuePocketed \/ WrongFirstContact(shot) \/ OpponentPocketed(shot) \/ NoRail(shot)
    BY <2>4, Faults
  <2>8. BookFoul(shot) <=> shot.cuePocketed \/ c \notin Targets \cup {NoBall} \/ OpponentPocketed(shot)
    BY <2>1, <2>2, <2>4, <2>5 DEF BookFoul, LegalShot, LegalContact
  <2>9. ~OpponentPocketed(shot) <=> shot.pocketed \subseteq GroupBalls(Own)
    <3>1. Own \in {"solids", "stripes"} /\ shot.pocketed \subseteq Solids \cup Stripes
      BY <2>2, ShotKnown DEF ObjectBalls
    <3> QED
      BY <2>2, <2>3, <2>5, <3>1 DEF OwnPocketed, GroupBalls
  <2>10. ClearsGroup(shot) <=> ~shot.cuePocketed /\ c \in Targets \cup {Eight} /\ ~OpponentPocketed(shot)
    BY <1>1, <2>2, <2>9 DEF ClearsGroup, TakesLast
  <2>11. ~BreaksNothing(shot)
    BY <2>2 DEF BreaksNothing
  <2>12. NoRail(shot) => OpponentPocketed(shot)
    BY <2>6
  <2>13. NoBall # Eight
    BY BallsAssumption
  <2> HIDE DEF c
  <2> QED
    BY <2>1, <2>7, <2>8, <2>10, <2>11, <2>12, <2>13
<1>2. CASE ~TakesLast(shot) /\ BreaksNothing(shot)
  <2>1. /\ isBreak /\ ~shot.cuePocketed /\ c = NoBall /\ shot.pocketed = {} /\ EnoughRail(shot)
    BY <1>2 DEF BreaksNothing
  <2>2. BookFoul(shot)
    <3>1. NoBall \notin Targets
      BY BallsAssumption DEF Targets, GroupBalls
    <3> QED
      BY <2>1, <3>1 DEF BookFoul, LegalShot, LegalContact
  <2>3. ~WrongFirstContact(shot) /\ ~NoContact(shot) /\ ~EightSpotted(shot)
    BY <2>1 DEF WrongFirstContact, NoContact, EightSpotted
  <2>4. LegalPockets(shot) = {} /\ CorrectPockets(shot) = {}
    BY <2>1 DEF LegalPockets, CorrectPockets
  <2>5. ~IllegalBreak(shot) /\ ~NoRail(shot) /\ ~OpponentPocketed(shot)
    BY <2>1, <2>4, ShotKnown DEF IllegalBreak, NoRail, OpponentPocketed, EnoughRail
  <2>6. ~Foul(shot)
    BY <2>1, <2>3, <2>5, Faults
  <2> QED
    BY <1>2, <2>2, <2>6
<1>3. CASE ~TakesLast(shot) /\ ~BreaksNothing(shot)
  <2>1. ~ClearsGroup(shot)
    BY <1>3 DEF ClearsGroup, TakesLast
  <2>2. Foul(shot) => BookFoul(shot)
    BY <1>3, FoulIsFoul
  <2>3. ASSUME BookFoul(shot) PROVE Foul(shot)
    <3>1. CASE ~LegalShot(shot)
      BY <1>3, <3>1, IllegalIsFoul
    <3>2. CASE LegalShot(shot) /\ isBreak /\ Eight \in shot.pocketed
      BY <3>2, Faults DEF EightSpotted
    <3>3. CASE LegalShot(shot) /\ OwnPocketed(shot) # shot.pocketed \ {Eight}
      <4>1. OpponentPocketed(shot)
        BY <3>3, PocketsJudged DEF OpponentPocketed
      <4> QED
        BY <4>1, Faults
    <3> QED
      BY <2>3, <3>1, <3>2, <3>3 DEF BookFoul
  <2> QED
    BY <1>3, <2>1, <2>2, <2>3
<1> QED
  BY <1>1, <1>2, <1>3

(* A shot that decides: engine and book name the same winner, but for two kinds *)
(* of shots.                                                                    *)
LEMMA DecisionJudged ==
    ASSUME IInv, TInv, Undisturbed, ~isGameOver, shot # NoShot, group = bookGroup, EightDrops(shot)
    PROVE  /\ BookVerdict(shot) \in {"wins", "loses"}
           /\ (EightReason(shot) = "pocketed_8_ball" <=> BookVerdict(shot) = "wins") <=> ~Disputed(shot)
<1>1. Eight \in shot.pocketed /\ ~isBreak
  BY DEF EightDrops
<1>2. BookVerdict(shot) = IF EightWins(shot) THEN "wins" ELSE "loses"
  BY <1>1 DEF BookVerdict
<1>3. Disputed(shot) <=> WinsByWrongContact(shot) \/ WinsOnOpenTable(shot)
  BY <1>1 DEF Disputed, ClearsGroup, ScratchesAtEight, BreaksNothing
<1>4. EightReason(shot) = "pocketed_8_ball" <=>
        GroupNow(shot) # "open" /\ IsGroupCleared(GroupNow(shot), shot) /\ ~shot.cuePocketed
  BY DEF EightReason
<1>5. CASE Own # "open"
  <2>1. GroupNow(shot) = Own
    BY <1>5, DealsAlike
  <2>2. IsGroupCleared(Own, shot) <=> GroupBalls(Own) \cap balls \subseteq shot.pocketed
    BY ClearedJudged
  <2>3. EnoughRail(shot)
    BY <1>1 DEF EnoughRail
  <2>4. ~WinsOnOpenTable(shot)
    BY <1>5, ShotKnown DEF WinsOnOpenTable, Deals
  <2> QED
    BY <1>1, <1>2, <1>3, <1>4, <1>5, <2>1, <2>2, <2>3, <2>4 DEF EightWins, LegalShot, WinsByWrongContact
<1>6. CASE Own = "open"
  <2>1. ~EightWins(shot) /\ ~WinsByWrongContact(shot)
    BY <1>6 DEF EightWins, WinsByWrongContact
  <2>2. CASE ~Deals(shot)
    <3>1. GroupNow(shot) = "open"
      BY <1>6, <2>2, DealsAlike
    <3> QED
      BY <1>2, <1>3, <1>4, <2>1, <2>2, <3>1 DEF WinsOnOpenTable
  <2>3. CASE Deals(shot)
    <3> DEFINE g == GroupOf(shot.firstLegal)
    <3>1. GroupNow(shot) = g
      BY <2>3 DEF GroupNow, GroupsAfter, IInv, TypeOK
    <3>2. g # "open"
      BY DEF GroupOf
    <3>3. IsGroupCleared(g, shot) <=> GroupBalls(g) \cap balls \subseteq shot.pocketed
      BY ClearedJudged
    <3> HIDE DEF g
    <3>4. WinsOnOpenTable(shot) <=> ~shot.cuePocketed /\ GroupBalls(g) \cap balls \subseteq shot.pocketed
      BY <1>1, <2>3 DEF WinsOnOpenTable, g
    <3> QED
      BY <1>2, <1>3, <1>4, <2>1, <3>1, <3>2, <3>3, <3>4
  <2> QED
    BY <2>2, <2>3
<1> QED
  BY <1>5, <1>6

--------------------------------------------------------------------------------
(* The theorems. *)

LEMMA TablesInvariant == Spec => []TInv
<1>1. IInv /\ TInv /\ [Next]_vars => TInv'
  BY NextAllOnline, NextTables DEF TInv
<1> QED
  BY <1>1, InitTables, Inductive, PTL DEF Spec

(* As long as no socket is lost and no page reloaded, exactly one player can *)
(* act: a report of the player to move is in flight, or only that player's   *)
(* browser lets its user aim.                                                *)
THEOREM OnlyOneActs == Spec => []OneActs
<1>1. TInv => OneActs
  BY DEF TInv
<1> QED
  BY <1>1, TablesInvariant, PTL

(* As long as no socket is lost and no page reloaded, the server and both      *)
(* browsers have the same balls between two shots, but for an 8-ball the       *)
(* server alone spotted.                                                       *)
THEOREM SameTables == Spec => []TablesAgree
<1>1. TInv => TablesAgree
  BY DEF TInv
<1> QED
  BY <1>1, TablesInvariant, PTL

(* A shot that does not decide. *)
LEMMA ContinueByTheBook ==
    ASSUME IInv, TInv, ShotContinues, Undisturbed, group = bookGroup
    PROVE  Agrees <=> ~Disputed(shot)
<1>1. ~isGameOver /\ shot # NoShot /\ ~EightDrops(shot)
  BY DEF ShotContinues, AcceptShot, MayProcess
<1>2. Opponent(currentPlayer) # currentPlayer
  BY OpponentIsOther DEF IInv, TypeOK
<1>3. EngineVerdict = IF SwitchTurn(shot) THEN "passes" ELSE "keeps"
  BY <1>1, <1>2 DEF EngineVerdict, ShotContinues
<1>4. (Foul(shot) <=> BookFoul(shot)) <=> ~ClearsGroup(shot) /\ ~BreaksNothing(shot)
  BY <1>1, FoulsJudged
<1>5. ~WinsByWrongContact(shot) /\ ~WinsOnOpenTable(shot)
  BY <1>1, ShotKnown DEF WinsByWrongContact, WinsOnOpenTable, EightDrops, Deals
<1>6. Disputed(shot) <=> ClearsGroup(shot) \/ ScratchesAtEight(shot) \/ BreaksNothing(shot)
  BY <1>5 DEF Disputed
<1>7. CASE ScratchesAtEight(shot)
  <2>1. BookVerdict(shot) = "loses"
    BY <1>7 DEF BookVerdict, ScratchesAtEight
  <2> QED
    BY <1>3, <1>6, <1>7, <2>1 DEF Agrees
<1>8. CASE ~ScratchesAtEight(shot)
  <2>1. ~(ShootsAtEight /\ shot.cuePocketed)
    BY <1>1, <1>8, ShotKnown DEF ScratchesAtEight, EightDrops, ShootsAtEight
  <2>2. BookVerdict(shot) = IF ~BookFoul(shot) /\ OwnPocketed(shot) # {} THEN "keeps" ELSE "passes"
    BY <1>1, <2>1 DEF BookVerdict, EightDrops
  <2>3. ~BookFoul(shot) => OwnPocketed(shot) = CorrectPockets(shot)
    BY <1>1, PocketsJudged DEF BookFoul
  <2>4. (Foul(shot) <=> BookFoul(shot)) => EngineVerdict = BookVerdict(shot)
    BY <1>3, <2>2, <2>3 DEF SwitchTurn
  <2> QED
    BY <1>4, <1>6, <1>8, <2>4 DEF Agrees
<1> QED
  BY <1>7, <1>8

(* A shot that decides. *)
LEMMA DecideByTheBook ==
    ASSUME IInv, TInv, ShotDecides, Undisturbed, group = bookGroup
    PROVE  Agrees <=> ~Disputed(shot)
<1>1. ~isGameOver /\ shot # NoShot /\ EightDrops(shot) /\ ~ShotContinues
  BY DEF ShotDecides, ShotContinues, AcceptShot, MayProcess
<1>2. Opponent(currentPlayer) # currentPlayer
  BY OpponentIsOther DEF IInv, TypeOK
<1>3. EngineVerdict = IF EightReason(shot) = "pocketed_8_ball" THEN "wins" ELSE "loses"
  BY <1>2 DEF EngineVerdict, ShotDecides, EightWinner
<1>4. /\ BookVerdict(shot) \in {"wins", "loses"}
      /\ (EightReason(shot) = "pocketed_8_ball" <=> BookVerdict(shot) = "wins") <=> ~Disputed(shot)
  BY <1>1, DecisionJudged
<1> QED
  BY <1>1, <1>3, <1>4 DEF Agrees

(* As long as no socket is lost and no page reloaded, whatever a shot reports: *)
(* the engine's verdict on it, the foul it calls and the groups it deals are    *)
(* those of the rule book, which judges on its own from the balls before the    *)
(* shot and the groups it dealt itself - but for exactly the disputed shots.    *)
THEOREM TurnByTheBook == BookSpec => RulebookVerdict
<1>1. ASSUME IInv, TInv, Judged, ShotContinues \/ ShotDecides, Undisturbed, group = bookGroup
      PROVE  /\ Agrees <=> ~Disputed(shot)
             /\ group' = bookGroup' \/ BookFoul(shot)
  <2>1. AcceptShot /\ shot # NoShot
    BY <1>1 DEF ShotContinues, ShotDecides, AcceptShot
  <2>2. group' = GroupsAfter(shot) /\ bookGroup' = BookGroupsAfter(shot)
    BY <1>1, <2>1 DEF AcceptShot, Judged
  <2>3. group' = bookGroup' \/ BookFoul(shot)
    BY <1>1, <2>1, <2>2, DealsAlike DEF BookFoul
  <2> QED
    BY <1>1, <2>3, ContinueByTheBook, DecideByTheBook
<1>2. IInv /\ TInv /\ [Next /\ Judged]_bookVars =>
        [(ShotContinues \/ ShotDecides) /\ Undisturbed /\ group = bookGroup
           => /\ Agrees <=> ~Disputed(shot)
              /\ group' = bookGroup' \/ BookFoul(shot)]_bookVars
  BY <1>1
<1>3. BookInit => Init
  BY DEF BookInit
<1>4. [Next /\ Judged]_bookVars => [Next]_vars
  BY DEF bookVars
<1>5. BookSpec => Spec
  BY <1>3, <1>4, PTL DEF BookSpec, Spec
<1> QED
  BY <1>2, <1>5, TablesInvariant, Inductive, PTL DEF BookSpec, RulebookVerdict
================================================================================
