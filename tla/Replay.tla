-------------------------------- MODULE Replay --------------------------------
(***************************************************************************)
(* How a shot reaches the opponent's browser: GameScene.ts simulates it,    *)
(* streams its frames, and reports it; the server relays (api/game.py) and  *)
(* answers; the other browser buffers the frames, replays them once the     *)
(* result is there (BallRenderer.ts, utils/trajectory.ts) and only then     *)
(* shows the final state.  A browser is the record of its GameScene and     *)
(* BallRenderer fields, a message handler an operator on that record.       *)
(*                                                                          *)
(* Positions are abstracted to `layout`, the shot after which the balls lie *)
(* so; a chunk to one frame, a frame to its time and the balls it shows;    *)
(* who shoots next is any player.  Each direction of a socket is a queue.   *)
(***************************************************************************)
EXTENDS Integers, Sequences, FiniteSets

CONSTANTS
    Balls,     \* the object balls
    NoResult,  \* null, for a pending result
    Hasty,     \* whether a user may shoot between a shot_result and the
               \* your_turn sent right behind it
    MaxShots,  \* bound: shots taken
    MaxFrames, \* bound: frames of a shot
    MaxDrops   \* bound: sockets lost

Players == {1, 2}

Opponent(p) == 3 - p

FrameType == [t: 1 .. MaxFrames, balls: SUBSET Balls]

ResultType == [balls: SUBSET Balls, pocketed: SUBSET Balls, shot: 1 .. MaxShots]

ASSUME ReplayAssumption ==
    /\ IsFiniteSet(Balls) /\ NoResult \notin ResultType
    /\ Hasty \in BOOLEAN
    /\ {MaxShots, MaxFrames, MaxDrops} \subseteq Nat /\ MaxFrames > 1

BrowserType ==
    [isMyTurn: BOOLEAN, isSimulating: BOOLEAN, isLocalShot: BOOLEAN,
     table: SUBSET Balls,              \* BallRenderer.ballMap
     layout: 0 .. MaxShots,            \* where its balls lie
     shot: 0 .. MaxShots,              \* the shot simulated last
     recorded: 0 .. MaxFrames,         \* its frames sent
     pocketedBalls: SUBSET Balls,
     remotePlayback: BOOLEAN,
     trajectoryFrames: Seq(FrameType),
     replayActive: BOOLEAN, replayProgress: 0 .. MaxFrames, replayFinished: BOOLEAN,
     pending: ResultType \cup {NoResult}, \* pendingAuthoritativeShotResult
     remoteShotReplayStarted: BOOLEAN,
     aimSamples: BOOLEAN,              \* whether there are any
     aimReplayActive: BOOLEAN]

VARIABLES
    browser,       \* the two browsers
    currentPlayer, \* GameState.current_player
    balls,         \* GameState.balls: which ...
    layout,        \* ... and where
    online,        \* whether each player's socket is up
    outbox,        \* messages under way from each browser
    inbox,         \* messages under way to each browser
    shots,         \* shots taken so far
    drops,         \* sockets lost so far
    cutOff         \* players who lost a socket while a replay awaited its result

server == <<currentPlayer, balls, layout>>
network == <<online, drops, cutOff>>
vars == <<browser, server, outbox, inbox, shots, network>>

Init ==
    /\ browser = [p \in Players |->
         [isMyTurn |-> p = 1, isSimulating |-> FALSE, isLocalShot |-> TRUE,
          table |-> Balls, layout |-> 0, shot |-> 0, recorded |-> 0, pocketedBalls |-> {},
          remotePlayback |-> FALSE, trajectoryFrames |-> <<>>,
          replayActive |-> FALSE, replayProgress |-> 0, replayFinished |-> FALSE,
          pending |-> NoResult, remoteShotReplayStarted |-> FALSE,
          aimSamples |-> FALSE, aimReplayActive |-> FALSE]]
    /\ currentPlayer = 1
    /\ balls = Balls
    /\ layout = 0
    /\ online = [p \in Players |-> TRUE]
    /\ outbox = [p \in Players |-> <<>>]
    /\ inbox = [p \in Players |-> <<>>]
    /\ shots = 0
    /\ drops = 0
    /\ cutOff = {}

(* WSClient.send drops what it cannot send. *)
Sends(p, ms) == outbox' = [outbox EXCEPT ![p] = IF online[p] THEN @ \o ms ELSE @]

--------------------------------------------------------------------------------
(* The shooter's browser. *)

MayShoot(v) == v.isMyTurn /\ ~v.isSimulating

(* A your_turn or opponent_turn is the next message. *)
TurnFollows(p) == inbox[p] # <<>> /\ Head(inbox[p]).type = "turn"

(* Mutant of Shooting: the turn is kept. *)
ShootingOn(v, n) ==
    [v EXCEPT !.isSimulating = TRUE, !.isLocalShot = TRUE,
              !.shot = n, !.recorded = 0, !.pocketedBalls = {}]

Shooting(v, n) ==
    [v EXCEPT !.isMyTurn = FALSE, !.isSimulating = TRUE, !.isLocalShot = TRUE,
              !.shot = n, !.recorded = 0, !.pocketedBalls = {}]

(* The aim recorded last is flushed, and the shot announced. *)
ExecutesShot(p) ==
    /\ MayShoot(browser[p])
    /\ shots < MaxShots
    /\ Hasty \/ ~TurnFollows(p)
    /\ shots' = shots + 1
    /\ browser' = [browser EXCEPT ![p] = Shooting(@, shots + 1)]
    /\ Sends(p, << [type |-> "aim_chunk"],
                   [type |-> "shot_init", balls |-> browser[p].table, layout |-> browser[p].layout] >>)
    /\ UNCHANGED <<server, inbox, network>>

(* Balls drop out of browser v. *)
Drop(v, dropped) ==
    [v EXCEPT !.table = @ \ dropped, !.pocketedBalls = @ \cup dropped]

(* Mutant of Record: a frame counts twice. *)
RecordTwice(v) == [v EXCEPT !.recorded = @ + 2]

(* The next frame of the simulation is recorded. *)
Record(v) == [v EXCEPT !.recorded = @ + 1]

Chunk(v) == [type |-> "shot_chunk", frame |-> [t |-> v.recorded, balls |-> v.table]]

(* The update loop records and streams the local simulation ... *)
SimulatesFrame(p) ==
    /\ browser[p].isSimulating /\ browser[p].isLocalShot
    /\ browser[p].recorded < MaxFrames - 1
    /\ \E dropped \in SUBSET browser[p].table :
         LET v == Record(Drop(browser[p], dropped))
         IN  browser' = [browser EXCEPT ![p] = v] /\ Sends(p, <<Chunk(v)>>)
    /\ UNCHANGED <<server, inbox, shots, network>>

(* ... until the balls lie still or time is up: processShotResult.  The first  *)
(* frame goes out at once, a last one with the report; a ball may drop when    *)
(* that frame was already recorded.                                            *)
Settles(p) ==
    /\ browser[p].isSimulating /\ browser[p].isLocalShot
    /\ browser[p].recorded > 0
    /\ \E dropped \in SUBSET browser[p].table : \E late \in SUBSET dropped :
         LET v == Record(Drop(browser[p], dropped \ late))
             w == [Drop(v, late) EXCEPT !.isSimulating = FALSE, !.layout = v.shot]
         IN  /\ browser' = [browser EXCEPT ![p] = w]
             /\ Sends(p, << Chunk(v), [type |-> "shoot", balls |-> w.table,
                                       pocketed |-> w.pocketedBalls, shot |-> w.shot] >>)
    /\ UNCHANGED <<server, inbox, shots, network>>

--------------------------------------------------------------------------------
(* The server. *)

Relayed == {"aim_chunk", "shot_init", "shot_chunk"}

(* One message is taken from the queue of player p. *)
Takes(p) == outbox[p] # <<>> /\ outbox' = [outbox EXCEPT ![p] = Tail(@)]

Delivers(q, ms) == IF online[q] THEN inbox[q] \o ms ELSE inbox[q]

(* What the player to move sends of a shot goes to the other one. *)
Relays(p) ==
    /\ Takes(p)
    /\ Head(outbox[p]).type \in Relayed
    /\ inbox' = [inbox EXCEPT ![Opponent(p)] =
                   IF currentPlayer = p THEN Delivers(Opponent(p), <<Head(outbox[p])>>) ELSE @]
    /\ UNCHANGED <<browser, server, shots, network>>

(* process_shot: any player may be next; both browsers get the result, then *)
(* the turn.                                                                *)
Accepts(p) ==
    /\ Takes(p)
    /\ LET m == Head(outbox[p])
       IN  /\ m.type = "shoot" /\ currentPlayer = p
           /\ balls' = m.balls \ m.pocketed
           /\ layout' = m.shot
           /\ currentPlayer' \in Players
           /\ inbox' = [q \in Players |->
                Delivers(q, << [type |-> "shot_result", player |-> currentPlayer',
                                result |-> [balls |-> balls', pocketed |-> m.pocketed, shot |-> m.shot]],
                               [type |-> "turn", player |-> currentPlayer'] >>)]
    /\ UNCHANGED <<browser, shots, network>>

(* "Not your turn". *)
Rejects(p) ==
    /\ Takes(p)
    /\ Head(outbox[p]).type = "shoot" /\ currentPlayer # p
    /\ UNCHANGED <<browser, server, inbox, shots, network>>

--------------------------------------------------------------------------------
(* BallRenderer, on the browser that watches. *)

BeginRemotePlayback(v) ==
    [v EXCEPT !.remotePlayback = TRUE, !.trajectoryFrames = <<>>,
              !.replayActive = FALSE, !.replayProgress = 0, !.replayFinished = FALSE]

EndRemotePlayback(v) ==
    IF v.remotePlayback
    THEN [BeginRemotePlayback(v) EXCEPT !.remotePlayback = FALSE]
    ELSE v

(* It starts when there is something to replay; the scene notes whether it did. *)
StartRemoteReplay(v) ==
    IF v.remotePlayback /\ ~v.replayActive /\ v.trajectoryFrames # <<>>
    THEN [v EXCEPT !.replayActive = TRUE, !.replayProgress = 0, !.replayFinished = FALSE,
                   !.remoteShotReplayStarted = TRUE]
    ELSE [v EXCEPT !.remoteShotReplayStarted = FALSE]

(* sampleTrajectory: the last frame before the first one that is still to come. *)
SampleIndex(frames, elapsed) ==
    CHOOSE i \in 1 .. Len(frames) :
        /\ \A j \in 2 .. i : frames[j].t <= elapsed
        /\ i < Len(frames) => frames[i + 1].t > elapsed

(* Mutant of SampleFinished: only after the last frame, which never comes. *)
SampleFinishedAfter(frames, elapsed) ==
    SampleIndex(frames, elapsed) > Len(frames) /\ (Len(frames) = 1 => frames[1].t <= elapsed)

SampleFinished(frames, elapsed) ==
    SampleIndex(frames, elapsed) = Len(frames) /\ (Len(frames) = 1 => frames[1].t <= elapsed)

(* What a frame does not show is taken off the table. *)
UpdateRemotePlayback(v, elapsed) ==
    IF v.remotePlayback /\ v.replayActive
    THEN LET frames == v.trajectoryFrames
         IN  [v EXCEPT !.replayProgress = elapsed,
                       !.replayFinished = SampleFinished(frames, elapsed),
                       !.table = @ \cap frames[SampleIndex(frames, elapsed)].balls]
    ELSE v

(* Mutant of ApplyResult: pocketed balls stay. *)
ApplyResultKeeping(v, r) == [v EXCEPT !.layout = r.shot]

(* setPositions and pocketBall. *)
ApplyResult(v, r) == [v EXCEPT !.layout = r.shot, !.table = @ \ r.pocketed]

(* Mutant of FinishRemoteShotVisual: isSimulating is not reset. *)
FinishRemoteShotVisualBusy(v) ==
    [ApplyResult(EndRemotePlayback(v), v.pending) EXCEPT
        !.pending = NoResult, !.aimSamples = FALSE, !.aimReplayActive = FALSE]

FinishRemoteShotVisual(v) ==
    [ApplyResult(EndRemotePlayback(v), v.pending) EXCEPT
        !.pending = NoResult, !.isSimulating = FALSE, !.aimSamples = FALSE, !.aimReplayActive = FALSE]

(* The replay advances, the aim's replay may end, ... *)
Advances(v, elapsed, aims) ==
    [UpdateRemotePlayback(v, elapsed) EXCEPT !.aimReplayActive = @ /\ aims]

(* ... a replay that waited for it starts, ... *)
StartsLate(v) ==
    IF ~v.aimReplayActive /\ v.pending # NoResult /\ ~v.remoteShotReplayStarted
    THEN StartRemoteReplay(v)
    ELSE v

(* ... and a finished one gives way to the result. *)
GivesWay(v) ==
    IF v.pending # NoResult /\ v.replayActive /\ v.replayFinished
    THEN FinishRemoteShotVisual(v)
    ELSE v

(* One call of update. *)
Updates(p) ==
    /\ \E elapsed \in browser[p].replayProgress .. MaxFrames, aims \in BOOLEAN :
         browser' = [browser EXCEPT ![p] = GivesWay(StartsLate(Advances(@, elapsed, aims)))]
    /\ UNCHANGED <<server, outbox, inbox, shots, network>>

--------------------------------------------------------------------------------
(* GameScene's message handlers. *)

PlayOpponentShot(v, m) ==
    IF v.isSimulating THEN v
    ELSE [BeginRemotePlayback(v) EXCEPT
            !.isSimulating = TRUE, !.isLocalShot = FALSE, !.isMyTurn = FALSE,
            !.pocketedBalls = {}, !.layout = m.layout,
            !.remoteShotReplayStarted = FALSE, !.pending = NoResult,
            !.aimReplayActive = v.aimSamples]

OnAimChunk(v) == IF v.isMyTurn \/ v.isLocalShot THEN v ELSE [v EXCEPT !.aimSamples = TRUE]

(* Mutant of OnShotChunk: frames count only while the replay runs. *)
OnShotChunkReplaying(v, m) ==
    IF v.isLocalShot \/ ~v.isSimulating \/ ~v.replayActive THEN v
    ELSE [v EXCEPT !.trajectoryFrames = Append(@, m.frame)]

OnShotChunk(v, m) ==
    IF v.isLocalShot \/ ~v.isSimulating \/ ~v.remotePlayback THEN v
    ELSE [v EXCEPT !.trajectoryFrames = Append(@, m.frame)]

(* The watching browser keeps the result until its replay is over. *)
AnimateShotResult(p, v, m) ==
    LET shown ==
          IF v.isSimulating /\ ~v.isLocalShot
          THEN StartRemoteReplay([v EXCEPT !.pending = m.result])
          ELSE [ApplyResult(v, m.result) EXCEPT !.isSimulating = FALSE]
    IN  [shown EXCEPT !.isMyTurn = m.player = p]

(* What GameScene of player p makes of message m. *)
Handled(p, v, m) ==
    CASE m.type = "aim_chunk"   -> OnAimChunk(v)
      [] m.type = "shot_init"   -> PlayOpponentShot(v, m)
      [] m.type = "shot_chunk"  -> OnShotChunk(v, m)
      [] m.type = "shot_result" -> AnimateShotResult(p, v, m)
      [] m.type = "turn"        -> [v EXCEPT !.isMyTurn = m.player = p]
      [] m.type = "reconnected" -> [v EXCEPT !.isMyTurn = m.player = p, !.layout = m.layout]

Receives(p) ==
    /\ inbox[p] # <<>>
    /\ inbox' = [inbox EXCEPT ![p] = Tail(@)]
    /\ browser' = [browser EXCEPT ![p] = Handled(p, @, Head(inbox[p]))]
    /\ UNCHANGED <<server, outbox, shots, network>>

--------------------------------------------------------------------------------
(* The sockets. *)

(* p's browser replays a shot whose result it does not have. *)
AwaitsResult(p) ==
    browser[p].isSimulating /\ ~browser[p].isLocalShot /\ browser[p].pending = NoResult

LosesSocket(p) ==
    /\ drops < MaxDrops
    /\ online[p]
    /\ online' = [online EXCEPT ![p] = FALSE]
    /\ drops' = drops + 1
    /\ outbox' = [outbox EXCEPT ![p] = <<>>]
    /\ inbox' = [inbox EXCEPT ![p] = <<>>]
    /\ cutOff' = cutOff \cup {q \in {p} : AwaitsResult(q)}
    /\ UNCHANGED <<browser, server, shots>>

(* Back on a new socket: the server tells whose turn it is and where the balls *)
(* are.  The browser's flags and buffers are what they were.                   *)
Reconnects(p) ==
    /\ ~online[p]
    /\ online' = [online EXCEPT ![p] = TRUE]
    /\ inbox' = [inbox EXCEPT ![p] =
                   << [type |-> "reconnected", player |-> currentPlayer, layout |-> layout] >>]
    /\ UNCHANGED <<browser, server, outbox, shots, drops, cutOff>>

Simulates(p) == SimulatesFrame(p) \/ Settles(p)

Serves(p) == Relays(p) \/ Accepts(p) \/ Rejects(p)

Next ==
    \E p \in Players :
        \/ ExecutesShot(p) \/ Simulates(p) \/ Updates(p) \/ Receives(p)
        \/ Serves(p)
        \/ LosesSocket(p) \/ Reconnects(p)

Spec == Init /\ [][Next]_vars

(* A simulation ends (SIM_TIMEOUT), the browser renders, messages are delivered *)
(* and handled.  Nobody has to shoot.                                           *)
FairSpec ==
    /\ Spec
    /\ \A p \in Players :
         WF_vars(Simulates(p)) /\ WF_vars(Updates(p)) /\ WF_vars(Receives(p)) /\ WF_vars(Serves(p))
--------------------------------------------------------------------------------
(* Properties. *)

(* The type invariant of the browsers and the server. *)
TypeOK ==
    /\ browser \in [Players -> BrowserType]
    /\ currentPlayer \in Players
    /\ balls \subseteq Balls /\ layout \in 0 .. MaxShots
    /\ online \in [Players -> BOOLEAN]
    /\ shots \in 0 .. MaxShots /\ drops \in 0 .. MaxDrops
    /\ cutOff \subseteq Players

(* GameScene's flags and BallRenderer's agree: balls are static exactly while *)
(* a shot of the opponent is awaited or replayed, a result is kept back only  *)
(* then, and such a browser does not let its user shoot.                      *)
FlagsAgree ==
    \A p \in Players :
        LET v == browser[p]
        IN  /\ v.remotePlayback <=> v.isSimulating /\ ~v.isLocalShot
            /\ v.pending # NoResult => v.remotePlayback
            /\ v.replayActive => v.remotePlayback /\ v.trajectoryFrames # <<>>

Quiet == \A p \in Players : inbox[p] = <<>> /\ outbox[p] = <<>> /\ ~browser[p].isSimulating

(* While the sockets stay up, both browsers and the server have the same      *)
(* balls in the same places as soon as nothing is under way - also when a     *)
(* shot was taken while the one before was still being replayed.              *)
TablesSettle ==
    drops = 0 /\ Quiet =>
        \A p \in Players : browser[p].table = balls /\ browser[p].layout = layout

(* While the sockets stay up, the server refuses no report: no shot is        *)
(* simulated that does not count.                                             *)
NoReportRefused == [][drops = 0 => \A p \in Players : ~Rejects(p)]_vars

(* Player p can, or without a further message will be able to, shoot. *)
WillAct(p) ==
    LET v == browser[p]
    IN  ~v.isSimulating \/ v.isLocalShot \/ (v.pending # NoResult /\ v.trajectoryFrames # <<>>)

(* Whoever lost messages: a browser that is to move, is connected and has     *)
(* seen all messages can get to shoot - unless its own socket went down while *)
(* it awaited the result of a shot.                                           *)
OnlyMissedResultLocks ==
    \A p \in Players :
        currentPlayer = p /\ online[p] /\ inbox[p] = <<>> /\ p \notin cutOff => WillAct(p)

(* While the sockets stay up, every replay ends and gives way to the result.  *)
ReplaysEnd ==
    \A p \in Players : browser[p].isSimulating ~> (~browser[p].isSimulating \/ drops > 0)
================================================================================
