--------------------------------- MODULE Match ---------------------------------
(***************************************************************************)
(* One game of 8-ball: the server's GameState and rules engine             *)
(* (game_service.py), the part of process_shot (api/game.py) that runs     *)
(* without an await, and the two browsers (GameScene.ts, BallRenderer.ts)  *)
(* as far as they decide what the server is told: the balls they still     *)
(* have, whether they believe it is their turn, whether they replay a shot *)
(* of the opponent, whether their socket is up.  Physics happens in the    *)
(* shooter's browser, so a shot is a report: any set of balls of that      *)
(* browser's table may have dropped.  A shot's simulation is one step, and *)
(* so is its replay once the result is there (Replay.tla has the frames).  *)
(*                                                                         *)
(* Positions are abstracted to "on the table"; player ids to their number; *)
(* a list of pocketed balls to its set and the first solid or stripe in it.*)
(***************************************************************************)
EXTENDS Integers, FiniteSets

CONSTANTS
    Solids,         \* ball numbers 1-7
    Stripes,        \* ball numbers 9-15
    Cue,            \* CUE_BALL
    Eight,          \* EIGHT_BALL
    NoBall,         \* null, for a ball
    CushionReports, \* values of cushion_hits a client may send
    Unreported,     \* cushion_hits missing
    NoShot,         \* no "shoot" message in flight
    MaxTurns,       \* bound: a client takes no shot after this many turns
    MaxFaults       \* bound: sockets lost and pages reloaded, together

ASSUME BallsAssumption ==
    /\ IsFiniteSet(Solids) /\ IsFiniteSet(Stripes) /\ Solids \cap Stripes = {}
    /\ Cue # Eight
    /\ {Cue, Eight} \cap (Solids \cup Stripes) = {}
    /\ NoBall \notin Solids \cup Stripes \cup {Cue, Eight}

ASSUME CushionAssumption ==
    /\ CushionReports \subseteq Nat \cup {Unreported}
    /\ Unreported \notin Nat

ASSUME BoundsAssumption == {MaxTurns, MaxFaults} \subseteq Nat

Players == {1, 2}

(* Mutated form of Opponent: one past the last player. *)
OpponentPastEnd(p) == p + 1

Opponent(p) == 3 - p

ObjectBalls == Solids \cup Stripes \cup {Eight}

Balls == ObjectBalls \cup {Cue}

(* determine_group: the 8-ball and the cue ball are in no group. *)
GroupOf(b) ==
    IF b \in Solids THEN "solids" ELSE IF b \in Stripes THEN "stripes" ELSE "none"

(* Mutated form of OtherGroup: both players get the group that dropped. *)
OtherGroupSame(g) == g

OtherGroup(g) == IF g = "solids" THEN "stripes" ELSE "solids"

GroupBalls(g) == {b \in Solids \cup Stripes : GroupOf(b) = g}

(* A "shoot" message: sender, balls left on its table, and what happened. *)
ShotType ==
    [player: Players,
     positions: SUBSET Balls,
     pocketed: SUBSET ObjectBalls,
     firstLegal: Solids \cup Stripes \cup {NoBall},
     cuePocketed: BOOLEAN,
     firstContact: ObjectBalls \cup {NoBall},
     cushionHits: CushionReports]

ASSUME ShotAssumption == NoShot \notin ShotType

VARIABLES
    balls,         \* GameState.balls: the balls on the server's table
    currentPlayer, \* GameState.current_player
    group,         \* GameState.player1_group, player2_group; "open" for None
    isBreak,       \* GameState.is_break
    isGameOver,    \* GameState.is_game_over
    winner,        \* GameState.winner as a player number, 0 for None
    turnCount,     \* GameState.turn_count
    announced,     \* winner and reason of the "game_over" broadcasts so far
    table,         \* BallRenderer.ballMap of each player's browser
    myTurn,        \* GameScene.isMyTurn of each player's browser
    simulating,    \* GameScene.isSimulating between the steps of its own shots
    online,        \* whether each player's socket is up
    shot,          \* the "shoot" message in flight, NoShot if none
    drops,         \* sockets lost so far
    reloads        \* pages reloaded so far

game == <<balls, currentPlayer, group, isBreak, isGameOver, winner, turnCount>>
clients == <<table, myTurn, simulating, online, drops, reloads>>
vars == <<game, announced, clients, shot>>

--------------------------------------------------------------------------------
(* apply_rules, as questions about a shot s asked in the state before it. *)

(* state.balls once process_shot took over the reported positions, removed *)
(* what dropped and put a pocketed cue ball back.                          *)
ReportedBalls(s) ==
    (s.positions \ s.pocketed) \cup (IF s.cuePocketed THEN {Cue} ELSE {})

LegalPockets(s) == s.pocketed \ {Eight}

(* Mutated form of EightDrops: an 8-ball on the break is not exempt. *)
EightDropsOnBreak(s) == Eight \in s.pocketed

(* An 8-ball on the break no longer counts as pocketed. *)
EightDrops(s) == Eight \in s.pocketed /\ ~isBreak

EightSpotted(s) == Eight \in s.pocketed /\ isBreak

BallsAfter(s) == ReportedBalls(s) \cup (IF EightSpotted(s) THEN {Eight} ELSE {})

(* Mutated form of IsGroupCleared: off by one. *)
IsGroupClearedOneLeft(g, s) == Cardinality(GroupBalls(g) \cap ReportedBalls(s)) <= 1

(* _is_group_cleared: no ball of that group among the balls left. *)
IsGroupCleared(g, s) == GroupBalls(g) \cap ReportedBalls(s) = {}

ShooterGroup == group[currentPlayer]

IllegalBreak(s) ==
    /\ isBreak
    /\ LegalPockets(s) = {}
    /\ s.cushionHits # Unreported
    /\ s.cushionHits < 4

(* Mutated form of WrongFirstContact: the open table accepts the 8-ball. *)
WrongFirstContactOpen(s) ==
    s.firstContact # NoBall /\ ShooterGroup # "open" /\ GroupOf(s.firstContact) # ShooterGroup

WrongFirstContact(s) ==
    /\ s.firstContact # NoBall
    /\ IF ShooterGroup = "open"
       THEN GroupOf(s.firstContact) = "none"
       ELSE IF IsGroupCleared(ShooterGroup, s)
            THEN s.firstContact # Eight
            ELSE GroupOf(s.firstContact) # ShooterGroup

NoContact(s) == s.firstContact = NoBall /\ ~isBreak /\ LegalPockets(s) = {}

(* Mutated form of Deals: the break deals too. *)
DealsOnBreak(s) == group[1] = "open" /\ group[2] = "open" /\ s.firstLegal # NoBall

(* Groups are dealt by the first solid or stripe to drop after the break. *)
Deals(s) == group[1] = "open" /\ group[2] = "open" /\ ~isBreak /\ s.firstLegal # NoBall

GroupsAfter(s) ==
    IF Deals(s)
    THEN LET g == GroupOf(s.firstLegal)
         IN  [p \in Players |-> IF p = currentPlayer THEN g ELSE OtherGroup(g)]
    ELSE group

(* The shooter's group while the pocketed balls are judged. *)
GroupNow(s) == GroupsAfter(s)[currentPlayer]

CorrectPockets(s) ==
    {b \in LegalPockets(s) : GroupNow(s) = "open" \/ GroupOf(b) = GroupNow(s)}

OpponentPocketed(s) == LegalPockets(s) # CorrectPockets(s)

NoRail(s) == CorrectPockets(s) = {} /\ s.cushionHits = 0

(* The reason that survives when a shot has several faults. *)
FoulReason(s) ==
    IF s.cuePocketed           THEN "scratch"
    ELSE IF WrongFirstContact(s) THEN "wrong_first_contact"
    ELSE IF NoContact(s)         THEN "no_contact"
    ELSE IF IllegalBreak(s)      THEN "illegal_break"
    ELSE IF EightSpotted(s)      THEN "eight_ball_on_break"
    ELSE IF OpponentPocketed(s)  THEN "opponent_ball"
    ELSE IF NoRail(s)            THEN "no_rail"
    ELSE ""

Foul(s) == FoulReason(s) # ""

(* How the 8-ball decides the game. *)
EightReason(s) ==
    IF GroupNow(s) = "open" \/ ~IsGroupCleared(GroupNow(s), s) THEN "early_8_ball"
    ELSE IF s.cuePocketed THEN "scratch_on_8_ball"
    ELSE "pocketed_8_ball"

EightWinner(s) ==
    IF EightReason(s) = "pocketed_8_ball" THEN currentPlayer ELSE Opponent(currentPlayer)

SwitchTurn(s) == Foul(s) \/ CorrectPockets(s) = {}
--------------------------------------------------------------------------------
Init ==
    /\ balls = Balls
    /\ currentPlayer = 1
    /\ group = [p \in Players |-> "open"]
    /\ isBreak = TRUE
    /\ isGameOver = FALSE
    /\ winner = 0
    /\ turnCount = 0
    /\ announced = {}
    /\ table = [p \in Players |-> Balls]
    /\ myTurn = [p \in Players |-> p = 1]
    /\ simulating = [p \in Players |-> FALSE]
    /\ online = [p \in Players |-> TRUE]
    /\ shot = NoShot
    /\ drops = 0
    /\ reloads = 0

(* The conditions at the top of executeShot. *)
MayAct(p) == myTurn[p] /\ ~simulating[p]

(* Who replays a shot of p from its "shot_init" on: the server relays it for *)
(* the player to move, a browser that still replays another ignores it.      *)
Watchers(p) ==
    IF online[p] /\ p = currentPlayer /\ ~isGameOver
    THEN {q \in Players \ {p} : online[q] /\ ~simulating[q]}
    ELSE {}

(* A player shoots, the browser simulates, and reports unless its socket is *)
(* down (WSClient.send drops the messages then).                            *)
ClientShoots(p) ==
    /\ MayAct(p)
    /\ shot = NoShot
    /\ turnCount < MaxTurns
    /\ \E pocketed \in SUBSET (table[p] \ {Cue}), cuePocketed \in BOOLEAN,
          firstContact \in (table[p] \ {Cue}) \cup {NoBall}, cushionHits \in CushionReports :
         \E firstLegal \in IF pocketed \subseteq {Eight} THEN {NoBall} ELSE pocketed \ {Eight} :
            /\ shot' = IF online[p]
                       THEN [player |-> p, positions |-> table[p] \ pocketed,
                             pocketed |-> pocketed, firstLegal |-> firstLegal,
                             cuePocketed |-> cuePocketed, firstContact |-> firstContact,
                             cushionHits |-> cushionHits]
                       ELSE NoShot
            /\ table' = [table EXCEPT ![p] = @ \ pocketed]
    /\ myTurn' = [q \in Players |-> myTurn[q] /\ q \notin Watchers(p) \cup {p}]
    /\ simulating' = [q \in Players |-> simulating[q] \/ q \in Watchers(p)]
    /\ UNCHANGED <<game, announced, online, drops, reloads>>

(* Mutated form of MayProcess: the finished game is not checked. *)
MayProcessFinished(s) == s.player = currentPlayer

(* The checks at the top of process_shot. *)
MayProcess(s) == ~isGameOver /\ s.player = currentPlayer

(* Mutated form of HiddenBalls: the result leaves the browsers' tables alone. *)
HiddenBallsNone(s) == {{}}

(* What a browser hides on a shot_result: the balls that dropped, or, when it *)
(* replayed the shot, every ball its last frame lacks.                        *)
HiddenBalls(s) == {s.pocketed, Balls \ (s.positions \cup {Cue})}

(* Mutated form of TurnViews: only the browser that loses the turn hears of it. *)
TurnViewsLoser(next) == [p \in Players |-> myTurn[p] /\ p = next]

(* isMyTurn in the browsers after a shot_result naming the next player. *)
TurnViews(next) == [p \in Players |-> IF online[p] THEN p = next ELSE myTurn[p]]

(* process_shot answers "Game not active" or "Not your turn". *)
RejectShot ==
    /\ shot # NoShot
    /\ ~MayProcess(shot)
    /\ shot' = NoShot
    /\ UNCHANGED <<game, announced, clients>>

(* What every accepted shot does: the server's table and groups, and the    *)
(* shot_result the connected browsers receive, which ends their replay.  A  *)
(* browser never brings a ball back.                                        *)
AcceptShot ==
    /\ shot # NoShot
    /\ MayProcess(shot)
    /\ shot' = NoShot
    /\ balls' = BallsAfter(shot)
    /\ group' = GroupsAfter(shot)
    /\ isBreak' = FALSE
    /\ \E gone \in HiddenBalls(shot) :
         table' = [p \in Players |-> IF online[p] THEN table[p] \ gone ELSE table[p]]
    /\ simulating' = [p \in Players |-> simulating[p] /\ ~online[p]]
    /\ UNCHANGED <<online, drops, reloads>>

(* Mutated form of ShotContinues: turn_count counts shots, not hand-overs. *)
ShotContinuesCounting ==
    /\ AcceptShot
    /\ ~EightDrops(shot)
    /\ currentPlayer' = IF SwitchTurn(shot) THEN Opponent(currentPlayer) ELSE currentPlayer
    /\ turnCount' = turnCount + 1
    /\ myTurn' = TurnViews(currentPlayer')
    /\ UNCHANGED <<isGameOver, winner, announced>>

(* The 8-ball does not drop: the turn is kept or passed. *)
ShotContinues ==
    /\ AcceptShot
    /\ ~EightDrops(shot)
    /\ IF SwitchTurn(shot)
       THEN currentPlayer' = Opponent(currentPlayer) /\ turnCount' = turnCount + 1
       ELSE UNCHANGED <<currentPlayer, turnCount>>
    /\ myTurn' = TurnViews(currentPlayer')
    /\ UNCHANGED <<isGameOver, winner, announced>>

(* The 8-ball drops: the engine names the winner, the turn stays.           *)
ShotDecides ==
    /\ AcceptShot
    /\ EightDrops(shot)
    /\ isGameOver' = TRUE
    /\ winner' = EightWinner(shot)
    /\ myTurn' = TurnViews(currentPlayer)
    /\ UNCHANGED <<currentPlayer, turnCount, announced>>

(* A "game_over" broadcast: the connected browsers stop for good. *)
GameOver(win, reason) ==
    /\ announced' = announced \cup {[winner |-> win, reason |-> reason]}
    /\ myTurn' = [p \in Players |-> myTurn[p] /\ ~online[p]]
    /\ simulating' = [p \in Players |-> simulating[p] \/ online[p]]
    /\ UNCHANGED <<table, online, shot, drops, reloads>>

(* The handler of a decisive shot broadcasts the winner 1.5 s later.  It     *)
(* reads a foul_reason the game_over event does not have, so it always says  *)
(* pocketed_8_ball.                                                          *)
AnnounceWinner ==
    /\ winner # 0
    /\ \A a \in announced : a.reason # "pocketed_8_ball"
    /\ GameOver(winner, "pocketed_8_ball")
    /\ UNCHANGED game

(* A game cut short sets is_game_over but not GameState.winner. *)
Abandon(win, reason) ==
    /\ isGameOver' = TRUE
    /\ GameOver(win, reason)
    /\ UNCHANGED <<balls, currentPlayer, group, isBreak, winner, turnCount>>

TurnTimeout == ~isGameOver /\ Abandon(Opponent(currentPlayer), "time_out")

DisconnectForfeit(p) ==
    ~isGameOver /\ ~online[p] /\ Abandon(Opponent(p), "opponent_disconnected")

(* The administrator's end needs a game, finished or not. *)
ForceEnd == Abandon(0, "admin_force_end")

(* A report in flight may be lost with its sender's socket. *)
InFlight(p) == IF shot # NoShot /\ shot.player = p THEN {shot, NoShot} ELSE {shot}

(* A socket drops. *)
LoseSocket(p) ==
    /\ drops + reloads < MaxFaults
    /\ online[p]
    /\ online' = [online EXCEPT ![p] = FALSE]
    /\ drops' = drops + 1
    /\ shot' \in InFlight(p)
    /\ UNCHANGED <<game, announced, table, myTurn, simulating, reloads>>

(* Mutated form of Reconnect: is_my_turn of the message is ignored. *)
ReconnectKeepsTurn(p) ==
    /\ ~isGameOver
    /\ ~online[p]
    /\ online' = [online EXCEPT ![p] = TRUE]
    /\ UNCHANGED <<game, announced, table, myTurn, simulating, shot, drops, reloads>>

(* WSClient connects again within the grace period; the "reconnected" message *)
(* tells the browser whose turn it is and where the balls are, but a ball the *)
(* browser has and the server has not stays in its ballMap.  A replay under   *)
(* way goes on waiting for the result of its shot.                            *)
Reconnect(p) ==
    /\ ~isGameOver
    /\ ~online[p]
    /\ online' = [online EXCEPT ![p] = TRUE]
    /\ myTurn' = [myTurn EXCEPT ![p] = p = currentPlayer]
    /\ UNCHANGED <<game, announced, table, simulating, shot, drops, reloads>>

(* The page is reloaded: a new GameScene racks all balls, and takes the turn *)
(* from break_player, which a "reconnected" message does not have.           *)
Reload(p) ==
    /\ ~isGameOver
    /\ drops + reloads < MaxFaults
    /\ online' = [online EXCEPT ![p] = TRUE]
    /\ table' = [table EXCEPT ![p] = Balls]
    /\ myTurn' = [myTurn EXCEPT ![p] = p = 1]
    /\ simulating' = [simulating EXCEPT ![p] = FALSE]
    /\ reloads' = reloads + 1
    /\ shot' \in InFlight(p)
    /\ UNCHANGED <<game, announced, drops>>

Server == RejectShot \/ ShotContinues \/ ShotDecides

(* The game as long as every socket holds. *)
Play ==
    \/ Server \/ AnnounceWinner \/ TurnTimeout \/ ForceEnd
    \/ \E p \in Players : ClientShoots(p)

Next ==
    \/ Play
    \/ \E p \in Players :
         DisconnectForfeit(p) \/ LoseSocket(p) \/ Reconnect(p) \/ Reload(p)

Spec == Init /\ [][Next]_vars

(* The server's event loop always gets to a message it has received. *)
FairSpec == Spec /\ WF_vars(Server)

(* ... and a browser that lost its socket connects again: four of the five     *)
(* tries of WSClient fall within the 25 seconds of grace.                      *)
ReconnectingSpec == FairSpec /\ \A p \in Players : WF_vars(Reconnect(p))

--------------------------------------------------------------------------------
Announcements ==
    [winner: Players \cup {0},
     reason: {"pocketed_8_ball", "time_out", "opponent_disconnected", "admin_force_end"}]

(* Type invariant. *)
TypeOK ==
    /\ balls \subseteq Balls
    /\ currentPlayer \in Players
    /\ group \in [Players -> {"open", "solids", "stripes"}]
    /\ isBreak \in BOOLEAN
    /\ isGameOver \in BOOLEAN
    /\ winner \in Players \cup {0}
    /\ turnCount \in Nat
    /\ announced \subseteq Announcements
    /\ table \in [Players -> SUBSET Balls]
    /\ myTurn \in [Players -> BOOLEAN]
    /\ simulating \in [Players -> BOOLEAN]
    /\ online \in [Players -> BOOLEAN]
    /\ shot \in ShotType \cup {NoShot}
    /\ drops \in Nat
    /\ reloads \in Nat

(* The groups are both undealt, or one player has solids and the other       *)
(* stripes, whoever dealt them and however the 8-ball dropped on that shot.  *)
GroupsComplementary ==
    \/ \A p \in Players : group[p] = "open"
    \/ \A p \in Players : group[p] # "open" /\ group[p] # group[Opponent(p)]

(* The turn and turn_count move together: turn_count counts exactly the      *)
(* hand-overs, so its parity names the player to shoot.                      *)
TurnParity == currentPlayer = 1 + (turnCount % 2)

(* Whoever wins by their own shot had a group and has none of its balls left. *)
OwnWinIsCleared ==
    winner = currentPlayer => group[winner] # "open" /\ GroupBalls(group[winner]) \cap balls = {}

(* A game has one winner, although a shot, the clock, a walk-over and the      *)
(* administrator may end it and a decisive shot is announced only later: what  *)
(* the rules decide stands when the 8-ball is gone and the winner by an own    *)
(* shot has cleared the group, and no two broadcasts name different winners.   *)
OneWinner ==
    /\ winner # 0 => isGameOver /\ Eight \notin balls
    /\ OwnWinIsCleared
    /\ announced # {} => isGameOver
    /\ \A a, b \in announced : a.winner = b.winner \/ 0 \in {a.winner, b.winner}
    /\ winner # 0 => \A a \in announced : a.winner \in {0, winner}

(* Without lost sockets and reloads the two browsers and the server have the *)
(* same table when no shot is in flight, but for an 8-ball the server alone  *)
(* spotted after the break.                                                  *)
Undisturbed == drops = 0 /\ reloads = 0

TablesAgree ==
    Undisturbed /\ shot = NoShot /\ ~isGameOver =>
        /\ table[1] = table[2]
        /\ balls \ {Eight} = table[1] \ {Eight}
        /\ Eight \in table[1] => Eight \in balls

(* Without lost sockets and reloads exactly one player can act: a report is  *)
(* in flight from the player to move, or that player's browser, and no       *)
(* other, lets its user aim and shoot.                                       *)
OneActs ==
    Undisturbed /\ ~isGameOver =>
        IF shot = NoShot
        THEN \A p \in Players : MayAct(p) <=> p = currentPlayer
        ELSE shot.player = currentPlayer /\ \A p \in Players : ~MayAct(p)

(* A finished game is frozen: no late report, time-out, or forfeit changes   *)
(* the table, the groups or the winner.                                      *)
FinishedIsFinal == [][isGameOver => isGameOver' /\ UNCHANGED game]_vars

(* Groups are dealt once, never on the break.                                *)
DealtOnce == [][group' # group => ~isBreak /\ \A p \in Players : group[p] = "open"]_vars

(* A report is answered: the player to move may shoot, or the game is over.  *)
TurnGoesOn ==
    (shot # NoShot) ~> (isGameOver \/ ~Undisturbed \/ MayAct(currentPlayer))

(* A browser that missed the result of the shot it replays, and then was told *)
(* that it has the turn: "reconnected" does not end the replay, so its user    *)
(* cannot shoot.                                                              *)
LockedReplaying(p) == drops # 0 /\ shot = NoShot /\ myTurn[p] /\ simulating[p]

(* Lost sockets do not lose the turn: without reloads the player to move     *)
(* sooner or later may shoot, whatever reports and results were lost, unless *)
(* it still replays the shot whose result it missed.                         *)
MoverGetsToAct ==
    ~isGameOver ~>
        (isGameOver \/ reloads # 0 \/ MayAct(currentPlayer) \/ LockedReplaying(currentPlayer))

Game == INSTANCE PoolGame WITH
    phase <- IF isGameOver THEN "over"
             ELSE IF isBreak THEN "break"
             ELSE IF group[1] = "open" THEN "open" ELSE "grouped",
    shooter <- currentPlayer

(* Match implements the promise of PoolGame. *)
ImplementsPoolGame == Game!Spec
================================================================================
