----------------------------- MODULE ReplayProofs -----------------------------
(***************************************************************************)
(* Proofs about Replay: the browsers and what is under way between them    *)
(* have their types, the flags of scene and renderer agree, and the server *)
(* refuses no report while sockets stay up.                                *)
(***************************************************************************)
EXTENDS Replay, TLAPS

--------------------------------------------------------------------------------
(* The inductive invariant. *)

(* What a socket carries. *)
AimType == [type: {"aim_chunk"}]
InitType == [type: {"shot_init"}, balls: SUBSET Balls, layout: 0 .. MaxShots]
ChunkType == [type: {"shot_chunk"}, frame: FrameType]
ShootType == [type: {"shoot"}, balls: SUBSET Balls, pocketed: SUBSET Balls, shot: 1 .. MaxShots]
ShotResultType == [type: {"shot_result"}, player: Players, result: ResultType]
TurnType == [type: {"turn"}, player: Players]
ReconnectedType == [type: {"reconnected"}, player: Players, layout: 0 .. MaxShots]

StreamType == AimType \cup InitType \cup ChunkType

UpType == StreamType \cup ShootType

DownType == StreamType \cup ShotResultType \cup TurnType \cup ReconnectedType

(* The messages of one send.  The tuples have a name so that the lemmas on    *)
(* queues, and not the provers' encoding of tuples, say what they are.         *)
One(a) == <<a>>
Two(a, b) == <<a, b>>

Carried ==
    /\ outbox \in [Players -> Seq(UpType)]
    /\ inbox \in [Players -> Seq(DownType)]

(* A browser that simulates its own shot has a shot to report and room for   *)
(* its last frame.                                                           *)
Reportable(v) == v.isSimulating /\ v.isLocalShot => v.shot \in 1 .. MaxShots /\ v.recorded < MaxFrames

(* The conditions of FlagsAgree on one browser. *)
Agrees(v) ==
    /\ v.remotePlayback <=> v.isSimulating /\ ~v.isLocalShot
    /\ v.pending # NoResult => v.remotePlayback
    /\ v.replayActive => v.remotePlayback /\ v.trajectoryFrames # <<>>

Sound == {v \in BrowserType : Reportable(v) /\ Agrees(v)}

IInv == TypeOK /\ Carried /\ browser \in [Players -> Sound]

--------------------------------------------------------------------------------
(* The operators on a browser. *)

LEMMA Numbers ==
    /\ MaxShots \in Nat /\ MaxFrames \in Nat /\ MaxDrops \in Nat
    /\ 0 \in 0 .. MaxFrames
    /\ \A n \in 1 .. MaxShots : n \in 0 .. MaxShots
BY ReplayAssumption

(* Shooting, recording and the end of a simulation. *)
LEMMA ShootingSound ==
    ASSUME NEW v \in Sound, MayShoot(v), NEW n \in 1 .. MaxShots
    PROVE  Shooting(v, n) \in Sound
<1>1. v \in BrowserType /\ Reportable(v) /\ Agrees(v)
  BY DEF Sound
<1>2. n \in 0 .. MaxShots /\ 0 \in 0 .. MaxFrames
  BY Numbers
<1> DEFINE w == Shooting(v, n)
<1>3. w \in BrowserType
  BY <1>1, <1>2, Zenon DEF BrowserType, Shooting
<1>4. /\ w.isSimulating = TRUE /\ w.isLocalShot = TRUE /\ w.shot = n /\ w.recorded = 0
      /\ w.remotePlayback = v.remotePlayback /\ w.pending = v.pending
      /\ w.replayActive = v.replayActive
  BY <1>1 DEF BrowserType, Shooting
<1> HIDE DEF w
<1>5. Reportable(w)
  BY <1>4, ReplayAssumption DEF Reportable
<1>6. Agrees(w)
  BY <1>1, <1>4 DEF Agrees, MayShoot
<1> QED
  BY <1>3, <1>5, <1>6 DEF Sound, w

LEMMA DropSound ==
    ASSUME NEW v \in Sound, NEW dropped \in SUBSET v.table
    PROVE  /\ Drop(v, dropped) \in Sound
           /\ Drop(v, dropped).isSimulating = v.isSimulating
           /\ Drop(v, dropped).isLocalShot = v.isLocalShot
           /\ Drop(v, dropped).recorded = v.recorded
           /\ Drop(v, dropped).shot = v.shot
           /\ Drop(v, dropped).table = v.table \ dropped
<1>1. v \in BrowserType /\ Reportable(v) /\ Agrees(v)
  BY DEF Sound
<1>2. v.table \in SUBSET Balls /\ v.pocketedBalls \in SUBSET Balls
  BY <1>1 DEF BrowserType
<1>3. v.table \ dropped \in SUBSET Balls /\ v.pocketedBalls \cup dropped \in SUBSET Balls
  BY <1>2
<1> DEFINE w == Drop(v, dropped)
<1>4. w \in BrowserType
  BY <1>1, <1>3, Zenon DEF BrowserType, Drop
<1>5. /\ w.isSimulating = v.isSimulating /\ w.isLocalShot = v.isLocalShot
      /\ w.shot = v.shot /\ w.recorded = v.recorded /\ w.table = v.table \ dropped
      /\ w.remotePlayback = v.remotePlayback /\ w.pending = v.pending
      /\ w.replayActive = v.replayActive /\ w.trajectoryFrames = v.trajectoryFrames
  BY <1>1 DEF BrowserType, Drop
<1> HIDE DEF w
<1>6. Reportable(w) /\ Agrees(w)
  BY <1>1, <1>5 DEF Reportable, Agrees
<1> QED
  BY <1>4, <1>5, <1>6 DEF Sound, w

LEMMA RecordTyped ==
    ASSUME NEW v \in Sound, v.isSimulating, v.isLocalShot
    PROVE  /\ Record(v) \in BrowserType
           /\ Agrees(Record(v))
           /\ Record(v).isSimulating = TRUE /\ Record(v).isLocalShot = TRUE
           /\ Record(v).shot = v.shot /\ v.shot \in 1 .. MaxShots
           /\ Record(v).recorded = v.recorded + 1 /\ v.recorded + 1 \in 1 .. MaxFrames
           /\ Record(v).table = v.table
<1>1. v \in BrowserType /\ Reportable(v) /\ Agrees(v)
  BY DEF Sound
<1>2. v.recorded \in 0 .. MaxFrames
  BY <1>1 DEF BrowserType
<1>3. v.shot \in 1 .. MaxShots /\ v.recorded + 1 \in 1 .. MaxFrames /\ v.recorded + 1 \in 0 .. MaxFrames
  BY <1>1, <1>2, Numbers DEF Reportable
<1> DEFINE w == Record(v)
<1>4. w \in BrowserType
  BY <1>1, <1>3, Zenon DEF BrowserType, Record
<1>5. /\ w.isSimulating = v.isSimulating /\ w.isLocalShot = v.isLocalShot
      /\ w.shot = v.shot /\ w.recorded = v.recorded + 1 /\ w.table = v.table
      /\ w.remotePlayback = v.remotePlayback /\ w.pending = v.pending
      /\ w.replayActive = v.replayActive /\ w.trajectoryFrames = v.trajectoryFrames
  BY <1>1 DEF BrowserType, Record
<1> HIDE DEF w
<1>6. Agrees(w)
  BY <1>1, <1>5 DEF Agrees
<1>7. v.isSimulating = TRUE /\ v.isLocalShot = TRUE
  BY <1>1 DEF BrowserType
<1> QED
  BY <1>3, <1>4, <1>5, <1>6, <1>7 DEF w

(* What a recorded frame carries. *)
LEMMA ChunkTyped ==
    ASSUME NEW v \in BrowserType, v.recorded \in 1 .. MaxFrames
    PROVE  Chunk(v) \in UpType
<1>1. v.table \in SUBSET Balls
  BY DEF BrowserType
<1> QED
  BY <1>1 DEF Chunk, UpType, StreamType, ChunkType, FrameType

LEMMA SettledSound ==
    ASSUME NEW v \in BrowserType, Agrees(v), v.isLocalShot = TRUE, v.isSimulating = TRUE,
           v.shot \in 1 .. MaxShots, NEW late \in SUBSET v.table
    PROVE  LET w == [Drop(v, late) EXCEPT !.isSimulating = FALSE, !.layout = v.shot]
           IN  /\ w \in Sound
               /\ w.table \in SUBSET Balls /\ w.pocketedBalls \in SUBSET Balls /\ w.shot = v.shot
<1>1. v.table \in SUBSET Balls /\ v.pocketedBalls \in SUBSET Balls /\ v.shot \in 0 .. MaxShots
  BY Numbers DEF BrowserType
<1>2. v.table \ late \in SUBSET Balls /\ v.pocketedBalls \cup late \in SUBSET Balls
  BY <1>1
<1> DEFINE d == Drop(v, late)
           w == [d EXCEPT !.isSimulating = FALSE, !.layout = v.shot]
<1>3. d \in BrowserType
  BY <1>2, Zenon DEF BrowserType, Drop
<1>4. w \in BrowserType
  BY <1>1, <1>3, Zenon DEF BrowserType
<1>5. /\ w.isSimulating = FALSE /\ w.shot = v.shot
      /\ w.remotePlayback = v.remotePlayback /\ w.pending = v.pending
      /\ w.replayActive = v.replayActive
  BY <1>3 DEF BrowserType, Drop
<1>6. w.table \in SUBSET Balls /\ w.pocketedBalls \in SUBSET Balls
  BY <1>4 DEF BrowserType
<1> HIDE DEF w
<1>7. Reportable(w) /\ Agrees(w)
  BY <1>5 DEF Reportable, Agrees
<1> QED
  BY <1>4, <1>5, <1>6, <1>7 DEF Sound, w

--------------------------------------------------------------------------------
(* The operators of the browser that watches. *)

LEMMA BeginTyped ==
    ASSUME NEW v \in BrowserType
    PROVE  LET w == BeginRemotePlayback(v)
           IN  /\ w \in BrowserType
               /\ w.remotePlayback = TRUE /\ w.replayActive = FALSE /\ w.trajectoryFrames = <<>>
               /\ w.pending = v.pending /\ w.isSimulating = v.isSimulating
               /\ w.isLocalShot = v.isLocalShot
<1>1. 0 \in 0 .. MaxFrames /\ <<>> \in Seq(FrameType)
  BY Numbers
<1>2. BeginRemotePlayback(v) \in BrowserType
  BY <1>1, Zenon DEF BrowserType, BeginRemotePlayback
<1> QED
  BY <1>2 DEF BrowserType, BeginRemotePlayback

LEMMA EndTyped ==
    ASSUME NEW v \in Sound
    PROVE  LET w == EndRemotePlayback(v)
           IN  /\ w \in BrowserType
               /\ w.remotePlayback = FALSE /\ w.replayActive = FALSE
               /\ w.pending = v.pending
<1>1. v \in BrowserType /\ Agrees(v)
  BY DEF Sound
<1>2. CASE v.remotePlayback
  <2> DEFINE b == BeginRemotePlayback(v)
             w == [b EXCEPT !.remotePlayback = FALSE]
  <2>1. b \in BrowserType /\ b.replayActive = FALSE /\ b.pending = v.pending
    BY <1>1, BeginTyped
  <2>2. EndRemotePlayback(v) = w
    BY <1>2 DEF EndRemotePlayback
  <2> HIDE DEF b
  <2>3. w \in BrowserType
    BY <2>1, Zenon DEF BrowserType
  <2>4. w.remotePlayback = FALSE /\ w.replayActive = b.replayActive /\ w.pending = b.pending
    BY <2>1 DEF BrowserType
  <2> QED
    BY <2>1, <2>2, <2>3, <2>4
<1>3. CASE ~v.remotePlayback
  <2>1. EndRemotePlayback(v) = v
    BY <1>3 DEF EndRemotePlayback
  <2>2. v.remotePlayback = FALSE /\ v.replayActive = FALSE
    BY <1>1, <1>3 DEF Agrees, BrowserType
  <2> QED
    BY <1>1, <2>1, <2>2
<1> QED
  BY <1>2, <1>3

LEMMA StartSound ==
    ASSUME NEW v \in Sound
    PROVE  StartRemoteReplay(v) \in Sound
<1>1. v \in BrowserType /\ Agrees(v) /\ Reportable(v)
  BY DEF Sound
<1>2. CASE v.remotePlayback /\ ~v.replayActive /\ v.trajectoryFrames # <<>>
  <2> DEFINE w == [v EXCEPT !.replayActive = TRUE, !.replayProgress = 0, !.replayFinished = FALSE,
                            !.remoteShotReplayStarted = TRUE]
  <2>1. 0 \in 0 .. MaxFrames
    BY Numbers
  <2>2. w \in BrowserType
    BY <1>1, <2>1, Zenon DEF BrowserType
  <2>3. /\ w.isSimulating = v.isSimulating /\ w.isLocalShot = v.isLocalShot
        /\ w.shot = v.shot /\ w.recorded = v.recorded
        /\ w.remotePlayback = v.remotePlayback /\ w.pending = v.pending
        /\ w.trajectoryFrames = v.trajectoryFrames
    BY <1>1 DEF BrowserType
  <2>4. StartRemoteReplay(v) = w
    BY <1>2 DEF StartRemoteReplay
  <2> HIDE DEF w
  <2>5. Reportable(w) /\ Agrees(w)
    BY <1>1, <1>2, <2>3 DEF Reportable, Agrees
  <2> QED
    BY <2>2, <2>4, <2>5 DEF Sound
<1>3. CASE ~(v.remotePlayback /\ ~v.replayActive /\ v.trajectoryFrames # <<>>)
  <2> DEFINE w == [v EXCEPT !.remoteShotReplayStarted = FALSE]
  <2>1. w \in BrowserType
    BY <1>1, Zenon DEF BrowserType
  <2>2. /\ w.isSimulating = v.isSimulating /\ w.isLocalShot = v.isLocalShot
        /\ w.shot = v.shot /\ w.recorded = v.recorded
        /\ w.remotePlayback = v.remotePlayback /\ w.pending = v.pending
        /\ w.replayActive = v.replayActive /\ w.trajectoryFrames = v.trajectoryFrames
    BY <1>1 DEF BrowserType
  <2>3. StartRemoteReplay(v) = w
    BY <1>3 DEF StartRemoteReplay
  <2> HIDE DEF w
  <2>4. Reportable(w) /\ Agrees(w)
    BY <1>1, <2>2 DEF Reportable, Agrees
  <2> QED
    BY <2>1, <2>3, <2>4 DEF Sound
<1> QED
  BY <1>2, <1>3

LEMMA UpdateTyped ==
    ASSUME NEW v \in BrowserType, NEW elapsed \in 0 .. MaxFrames
    PROVE  LET u == UpdateRemotePlayback(v, elapsed)
           IN  /\ u \in BrowserType
               /\ u.isMyTurn = v.isMyTurn
               /\ u.isSimulating = v.isSimulating /\ u.isLocalShot = v.isLocalShot
               /\ u.shot = v.shot /\ u.recorded = v.recorded
               /\ u.remotePlayback = v.remotePlayback /\ u.pending = v.pending
               /\ u.replayActive = v.replayActive /\ u.trajectoryFrames = v.trajectoryFrames
<1> DEFINE u == UpdateRemotePlayback(v, elapsed)
<1>1. CASE v.remotePlayback /\ v.replayActive
  <2> DEFINE frames == v.trajectoryFrames
             fin == SampleFinished(frames, elapsed)
             shown == frames[SampleIndex(frames, elapsed)].balls
  <2>1. fin \in BOOLEAN
    BY DEF SampleFinished
  <2>2. v.table \cap shown \in SUBSET Balls
    BY DEF BrowserType
  <2>3. u = [v EXCEPT !.replayProgress = elapsed, !.replayFinished = fin, !.table = v.table \cap shown]
    BY <1>1 DEF UpdateRemotePlayback, BrowserType
  <2> HIDE DEF fin, shown, u
  <2>4. u \in BrowserType
    BY <2>1, <2>2, <2>3, Zenon DEF BrowserType
  <2> QED
    BY <2>3, <2>4 DEF BrowserType, u
<1>2. CASE ~(v.remotePlayback /\ v.replayActive)
  BY <1>2 DEF UpdateRemotePlayback
<1> QED
  BY <1>1, <1>2

LEMMA AdvanceSound ==
    ASSUME NEW v \in Sound, NEW elapsed \in 0 .. MaxFrames, NEW aims \in BOOLEAN
    PROVE  LET w == Advances(v, elapsed, aims)
           IN  /\ w \in Sound
               /\ w.isMyTurn = v.isMyTurn
               /\ w.isSimulating = v.isSimulating /\ w.isLocalShot = v.isLocalShot
<1>1. v \in BrowserType /\ Agrees(v) /\ Reportable(v)
  BY DEF Sound
<1> DEFINE u == UpdateRemotePlayback(v, elapsed)
           w == Advances(v, elapsed, aims)
<1>2. /\ u \in BrowserType
      /\ u.isMyTurn = v.isMyTurn
      /\ u.isSimulating = v.isSimulating /\ u.isLocalShot = v.isLocalShot
      /\ u.shot = v.shot /\ u.recorded = v.recorded
      /\ u.remotePlayback = v.remotePlayback /\ u.pending = v.pending
      /\ u.replayActive = v.replayActive /\ u.trajectoryFrames = v.trajectoryFrames
  BY <1>1, UpdateTyped
<1>3. w = [u EXCEPT !.aimReplayActive = u.aimReplayActive /\ aims]
  BY DEF Advances
<1> HIDE DEF u, w
<1>4. (u.aimReplayActive /\ aims) \in BOOLEAN
  OBVIOUS
<1>5. w \in BrowserType
  BY <1>2, <1>3, <1>4, Zenon DEF BrowserType
<1>6. /\ w.isMyTurn = u.isMyTurn
      /\ w.isSimulating = u.isSimulating /\ w.isLocalShot = u.isLocalShot
      /\ w.shot = u.shot /\ w.recorded = u.recorded
      /\ w.remotePlayback = u.remotePlayback /\ w.pending = u.pending
      /\ w.replayActive = u.replayActive /\ w.trajectoryFrames = u.trajectoryFrames
  BY <1>2, <1>3 DEF BrowserType
<1>7. Reportable(w) /\ Agrees(w)
  BY <1>1, <1>2, <1>6 DEF Reportable, Agrees
<1> QED
  BY <1>2, <1>5, <1>6, <1>7 DEF Sound, w

LEMMA ApplyTyped ==
    ASSUME NEW v \in BrowserType, NEW r \in ResultType
    PROVE  LET w == ApplyResult(v, r)
           IN  /\ w \in BrowserType
               /\ w.isSimulating = v.isSimulating /\ w.isLocalShot = v.isLocalShot
               /\ w.shot = v.shot /\ w.recorded = v.recorded
               /\ w.remotePlayback = v.remotePlayback /\ w.pending = v.pending
               /\ w.replayActive = v.replayActive
<1>1. r.shot \in 0 .. MaxShots
  BY Numbers DEF ResultType
<1>2. v.table \ r.pocketed \in SUBSET Balls
  BY DEF BrowserType
<1>3. ApplyResult(v, r) \in BrowserType
  BY <1>1, <1>2, Zenon DEF BrowserType, ApplyResult
<1> QED
  BY <1>3 DEF BrowserType, ApplyResult

LEMMA FinishSound ==
    ASSUME NEW v \in Sound, v.pending # NoResult
    PROVE  FinishRemoteShotVisual(v) \in Sound
<1>1. v.pending \in ResultType
  BY DEF Sound, BrowserType
<1> DEFINE e == EndRemotePlayback(v)
           a == ApplyResult(e, v.pending)
           w == [a EXCEPT !.pending = NoResult, !.isSimulating = FALSE,
                          !.aimSamples = FALSE, !.aimReplayActive = FALSE]
<1>2. e \in BrowserType /\ e.remotePlayback = FALSE /\ e.replayActive = FALSE
  BY EndTyped
<1>3. a \in BrowserType /\ a.remotePlayback = FALSE /\ a.replayActive = FALSE
  BY <1>1, <1>2, ApplyTyped
<1>4. FinishRemoteShotVisual(v) = w
  BY DEF FinishRemoteShotVisual
<1> HIDE DEF a
<1>5. w \in BrowserType
  BY <1>3, Zenon DEF BrowserType
<1>6. /\ w.isSimulating = FALSE /\ w.pending = NoResult
      /\ w.remotePlayback = a.remotePlayback /\ w.replayActive = a.replayActive
  BY <1>3 DEF BrowserType
<1> HIDE DEF w
<1>7. Reportable(w) /\ Agrees(w)
  BY <1>3, <1>6 DEF Reportable, Agrees
<1> QED
  BY <1>4, <1>5, <1>7 DEF Sound

--------------------------------------------------------------------------------
(* The message handlers. *)

LEMMA PlaySound ==
    ASSUME NEW v \in Sound, NEW m \in InitType
    PROVE  PlayOpponentShot(v, m) \in Sound
<1>1. v \in BrowserType /\ m.layout \in 0 .. MaxShots /\ v.aimSamples \in BOOLEAN
  BY DEF Sound, BrowserType, InitType
<1>2. CASE v.isSimulating
  BY <1>2 DEF PlayOpponentShot
<1>3. CASE ~v.isSimulating
  <2> DEFINE b == BeginRemotePlayback(v)
             w == [b EXCEPT !.isSimulating = TRUE, !.isLocalShot = FALSE, !.isMyTurn = FALSE,
                            !.pocketedBalls = {}, !.layout = m.layout,
                            !.remoteShotReplayStarted = FALSE, !.pending = NoResult,
                            !.aimReplayActive = v.aimSamples]
  <2>1. b \in BrowserType /\ b.remotePlayback = TRUE /\ b.replayActive = FALSE
    BY <1>1, BeginTyped
  <2>2. PlayOpponentShot(v, m) = w
    BY <1>3 DEF PlayOpponentShot
  <2> HIDE DEF b
  <2>3. w \in BrowserType
    BY <1>1, <2>1, Zenon DEF BrowserType
  <2>4. /\ w.isSimulating = TRUE /\ w.isLocalShot = FALSE /\ w.pending = NoResult
        /\ w.remotePlayback = b.remotePlayback /\ w.replayActive = b.replayActive
    BY <2>1 DEF BrowserType
  <2> HIDE DEF w
  <2>5. Reportable(w) /\ Agrees(w)
    BY <2>1, <2>4 DEF Reportable, Agrees
  <2> QED
    BY <2>2, <2>3, <2>5 DEF Sound
<1> QED
  BY <1>2, <1>3

LEMMA AimSound ==
    ASSUME NEW v \in Sound
    PROVE  OnAimChunk(v) \in Sound
<1>1. v \in BrowserType /\ Reportable(v) /\ Agrees(v)
  BY DEF Sound
<1> DEFINE w == [v EXCEPT !.aimSamples = TRUE]
<1>2. w \in BrowserType
  BY <1>1, Zenon DEF BrowserType
<1>3. /\ w.isSimulating = v.isSimulating /\ w.isLocalShot = v.isLocalShot
      /\ w.shot = v.shot /\ w.recorded = v.recorded
      /\ w.remotePlayback = v.remotePlayback /\ w.pending = v.pending
      /\ w.replayActive = v.replayActive /\ w.trajectoryFrames = v.trajectoryFrames
  BY <1>1 DEF BrowserType
<1>4. OnAimChunk(v) \in {v, w}
  BY DEF OnAimChunk
<1> HIDE DEF w
<1>5. Reportable(w) /\ Agrees(w)
  BY <1>1, <1>3 DEF Reportable, Agrees
<1> QED
  BY <1>2, <1>4, <1>5 DEF Sound

LEMMA ShotChunkSound ==
    ASSUME NEW v \in Sound, NEW m \in ChunkType
    PROVE  OnShotChunk(v, m) \in Sound
<1>1. v \in BrowserType /\ Reportable(v) /\ Agrees(v)
  BY DEF Sound
<1>2. v.trajectoryFrames \in Seq(FrameType) /\ m.frame \in FrameType
  BY <1>1 DEF BrowserType, ChunkType
<1>3. Append(v.trajectoryFrames, m.frame) \in Seq(FrameType) /\ Append(v.trajectoryFrames, m.frame) # <<>>
  BY <1>2
<1> DEFINE w == [v EXCEPT !.trajectoryFrames = Append(v.trajectoryFrames, m.frame)]
<1>4. w \in BrowserType
  BY <1>1, <1>3, Zenon DEF BrowserType
<1>5. /\ w.isSimulating = v.isSimulating /\ w.isLocalShot = v.isLocalShot
      /\ w.shot = v.shot /\ w.recorded = v.recorded
      /\ w.remotePlayback = v.remotePlayback /\ w.pending = v.pending
      /\ w.replayActive = v.replayActive /\ w.trajectoryFrames = Append(v.trajectoryFrames, m.frame)
  BY <1>1 DEF BrowserType
<1>6. OnShotChunk(v, m) \in {v, w}
  BY <1>1 DEF OnShotChunk, BrowserType
<1> HIDE DEF w
<1>7. Reportable(w) /\ Agrees(w)
  BY <1>1, <1>3, <1>5 DEF Reportable, Agrees
<1> QED
  BY <1>4, <1>6, <1>7 DEF Sound

(* isMyTurn and layout are no matter of the flags. *)
LEMMA TurnSound ==
    ASSUME NEW v \in Sound, NEW turn \in BOOLEAN
    PROVE  [v EXCEPT !.isMyTurn = turn] \in Sound
<1>1. v \in BrowserType /\ Reportable(v) /\ Agrees(v)
  BY DEF Sound
<1> DEFINE w == [v EXCEPT !.isMyTurn = turn]
<1>2. w \in BrowserType
  BY <1>1, Zenon DEF BrowserType
<1>3. /\ w.isSimulating = v.isSimulating /\ w.isLocalShot = v.isLocalShot
      /\ w.shot = v.shot /\ w.recorded = v.recorded
      /\ w.remotePlayback = v.remotePlayback /\ w.pending = v.pending
      /\ w.replayActive = v.replayActive /\ w.trajectoryFrames = v.trajectoryFrames
  BY <1>1 DEF BrowserType
<1> HIDE DEF w
<1>4. Reportable(w) /\ Agrees(w)
  BY <1>1, <1>3 DEF Reportable, Agrees
<1> QED
  BY <1>2, <1>4 DEF Sound, w

LEMMA LayoutSound ==
    ASSUME NEW v \in Sound, NEW turn \in BOOLEAN, NEW n \in 0 .. MaxShots
    PROVE  [v EXCEPT !.isMyTurn = turn, !.layout = n] \in Sound
<1>1. v \in BrowserType /\ Reportable(v) /\ Agrees(v)
  BY DEF Sound
<1> DEFINE w == [v EXCEPT !.isMyTurn = turn, !.layout = n]
<1>2. w \in BrowserType
  BY <1>1, Zenon DEF BrowserType
<1>3. /\ w.isSimulating = v.isSimulating /\ w.isLocalShot = v.isLocalShot
      /\ w.shot = v.shot /\ w.recorded = v.recorded
      /\ w.remotePlayback = v.remotePlayback /\ w.pending = v.pending
      /\ w.replayActive = v.replayActive /\ w.trajectoryFrames = v.trajectoryFrames
  BY <1>1 DEF BrowserType
<1> HIDE DEF w
<1>4. Reportable(w) /\ Agrees(w)
  BY <1>1, <1>3 DEF Reportable, Agrees
<1> QED
  BY <1>2, <1>4 DEF Sound, w

LEMMA ResultSound ==
    ASSUME NEW p \in Players, NEW v \in Sound, NEW m \in ShotResultType
    PROVE  AnimateShotResult(p, v, m) \in Sound
<1>1. v \in BrowserType /\ Reportable(v) /\ Agrees(v)
  BY DEF Sound
<1>2. m.result \in ResultType
  BY DEF ShotResultType
<1> DEFINE kept == StartRemoteReplay([v EXCEPT !.pending = m.result])
           applied == [ApplyResult(v, m.result) EXCEPT !.isSimulating = FALSE]
<1>3. ASSUME v.isSimulating /\ ~v.isLocalShot
      PROVE  kept \in Sound
  <2> DEFINE w == [v EXCEPT !.pending = m.result]
  <2>1. w \in BrowserType
    BY <1>1, <1>2, Zenon DEF BrowserType
  <2>2. /\ w.isSimulating = v.isSimulating /\ w.isLocalShot = v.isLocalShot
        /\ w.shot = v.shot /\ w.recorded = v.recorded
        /\ w.remotePlayback = v.remotePlayback
        /\ w.replayActive = v.replayActive /\ w.trajectoryFrames = v.trajectoryFrames
    BY <1>1 DEF BrowserType
  <2> HIDE DEF w
  <2>3. Reportable(w) /\ Agrees(w)
    BY <1>1, <1>3, <2>2 DEF Reportable, Agrees
  <2>4. w \in Sound
    BY <2>1, <2>3 DEF Sound
  <2> QED
    BY <2>4, StartSound DEF w
<1>4. ASSUME ~(v.isSimulating /\ ~v.isLocalShot)
      PROVE  applied \in Sound
  <2> DEFINE a == ApplyResult(v, m.result)
             w == [a EXCEPT !.isSimulating = FALSE]
  <2>1. /\ a \in BrowserType
        /\ a.remotePlayback = v.remotePlayback /\ a.pending = v.pending
        /\ a.replayActive = v.replayActive
    BY <1>1, <1>2, ApplyTyped
  <2> HIDE DEF a
  <2>2. w \in BrowserType
    BY <2>1, Zenon DEF BrowserType
  <2>3. /\ w.isSimulating = FALSE /\ w.remotePlayback = a.remotePlayback
        /\ w.pending = a.pending /\ w.replayActive = a.replayActive
    BY <2>1 DEF BrowserType
  <2> HIDE DEF w
  <2>4. Reportable(w) /\ Agrees(w)
    BY <1>1, <1>4, <2>1, <2>3 DEF Reportable, Agrees
  <2> QED
    BY <2>2, <2>4 DEF Sound, w, a
<1> DEFINE shown == IF v.isSimulating /\ ~v.isLocalShot THEN kept ELSE applied
<1>5. shown \in Sound
  BY <1>3, <1>4
<1>6. AnimateShotResult(p, v, m) = [shown EXCEPT !.isMyTurn = (m.player = p)]
  BY DEF AnimateShotResult
<1> HIDE DEF shown
<1>7. (m.player = p) \in BOOLEAN
  OBVIOUS
<1> QED
  BY <1>5, <1>6, <1>7, TurnSound, Zenon

(* Messages are known by their types. *)
LEMMA Kinds ==
    /\ \A m \in UpType :
         /\ m.type = "shoot" => m \in ShootType
         /\ m.type \in Relayed => m \in StreamType
    /\ \A m \in DownType :
         /\ m.type = "shot_init" => m \in InitType
         /\ m.type = "shot_chunk" => m \in ChunkType
         /\ m.type = "shot_result" => m \in ShotResultType
         /\ m.type = "turn" => m \in TurnType
         /\ m.type = "reconnected" => m \in ReconnectedType
         /\ m.type \in {"aim_chunk", "shot_init", "shot_chunk", "shot_result", "turn", "reconnected"}
BY DEF UpType, DownType, StreamType, Relayed, AimType, InitType, ChunkType, ShootType,
       ShotResultType, TurnType, ReconnectedType

LEMMA HandledSound ==
    ASSUME NEW p \in Players, NEW v \in Sound, NEW m \in DownType
    PROVE  Handled(p, v, m) \in Sound
<1>1. CASE m.type = "aim_chunk"
  BY <1>1, AimSound DEF Handled
<1>2. CASE m.type = "shot_init"
  BY <1>2, Kinds, PlaySound DEF Handled
<1>3. CASE m.type = "shot_chunk"
  BY <1>3, Kinds, ShotChunkSound DEF Handled
<1>4. CASE m.type = "shot_result"
  BY <1>4, Kinds, ResultSound DEF Handled
<1>5. CASE m.type = "turn"
  <2>1. (m.player = p) \in BOOLEAN
    OBVIOUS
  <2>2. Handled(p, v, m) = [v EXCEPT !.isMyTurn = (m.player = p)]
    BY <1>5 DEF Handled
  <2> QED
    BY <2>1, <2>2, TurnSound, Zenon
<1>6. CASE m.type = "reconnected"
  <2>1. (m.player = p) \in BOOLEAN /\ m.layout \in 0 .. MaxShots
    BY <1>6, Kinds DEF ReconnectedType
  <2>2. Handled(p, v, m) = [v EXCEPT !.isMyTurn = (m.player = p), !.layout = m.layout]
    BY <1>6 DEF Handled
  <2> QED
    BY <2>1, <2>2, LayoutSound, Zenon
<1> QED
  BY <1>1, <1>2, <1>3, <1>4, <1>5, <1>6, Kinds

--------------------------------------------------------------------------------
(* The steps. *)

LEMMA InitInvariant == Init => IInv
<1> SUFFICES ASSUME Init PROVE IInv
  OBVIOUS
<1> DEFINE start(p) ==
      [isMyTurn |-> p = 1, isSimulating |-> FALSE, isLocalShot |-> TRUE,
       table |-> Balls, layout |-> 0, shot |-> 0, recorded |-> 0, pocketedBalls |-> {},
       remotePlayback |-> FALSE, trajectoryFrames |-> <<>>,
       replayActive |-> FALSE, replayProgress |-> 0, replayFinished |-> FALSE,
       pending |-> NoResult, remoteShotReplayStarted |-> FALSE,
       aimSamples |-> FALSE, aimReplayActive |-> FALSE]
<1>1. 0 \in 0 .. MaxFrames /\ 0 \in 0 .. MaxShots /\ 0 \in 0 .. MaxDrops
  BY Numbers
<1>2. ASSUME NEW p \in Players
      PROVE  start(p) \in Sound
  <2>1. start(p) \in BrowserType
    BY <1>1 DEF BrowserType
  <2>2. Reportable(start(p)) /\ Agrees(start(p))
    BY DEF Reportable, Agrees
  <2> QED
    BY <2>1, <2>2 DEF Sound
<1>3. browser = [p \in Players |-> start(p)]
  BY DEF Init
<1>4. browser \in [Players -> Sound] /\ browser \in [Players -> BrowserType]
  BY <1>2, <1>3 DEF Sound
<1>5. Carried
  BY DEF Init, Carried
<1> QED
  BY <1>1, <1>4, <1>5 DEF IInv, TypeOK, Init, Players

(* A browser is replaced by a sound one. *)
LEMMA BrowserKept ==
    ASSUME browser \in [Players -> Sound], NEW p \in Players, NEW v \in Sound,
           browser' = [browser EXCEPT ![p] = v]
    PROVE  browser' \in [Players -> Sound] /\ browser' \in [Players -> BrowserType]
BY DEF Sound

(* What is sent and taken leaves queues typed. *)
LEMMA SendsTyped ==
    ASSUME Carried, NEW p \in Players, NEW ms \in Seq(UpType), Sends(p, ms)
    PROVE  outbox' \in [Players -> Seq(UpType)]
<1>1. outbox[p] \o ms \in Seq(UpType)
  BY DEF Carried
<1> QED
  BY <1>1 DEF Sends, Carried

LEMMA TakesTyped ==
    ASSUME Carried, NEW p \in Players, Takes(p)
    PROVE  outbox' \in [Players -> Seq(UpType)] /\ Head(outbox[p]) \in UpType
<1>1. outbox[p] \in Seq(UpType) /\ outbox[p] # <<>>
  BY DEF Takes, Carried
<1>2. Head(outbox[p]) \in UpType /\ Tail(outbox[p]) \in Seq(UpType)
  BY <1>1
<1> QED
  BY <1>2 DEF Takes, Carried

LEMMA DeliversTyped ==
    ASSUME Carried, NEW q \in Players, NEW ms \in Seq(DownType)
    PROVE  Delivers(q, ms) \in Seq(DownType)
BY DEF Delivers, Carried

LEMMA ShootStep ==
    ASSUME IInv, NEW p \in Players, ExecutesShot(p)
    PROVE  IInv'
<1> USE DEF IInv
<1>1. browser[p] \in Sound /\ browser[p] \in BrowserType
  BY DEF Sound
<1>2. shots + 1 \in 1 .. MaxShots /\ shots' \in 0 .. MaxShots
  BY Numbers DEF ExecutesShot, TypeOK
<1>3. Shooting(browser[p], shots + 1) \in Sound
  BY <1>1, <1>2, ShootingSound DEF ExecutesShot
<1>4. browser' = [browser EXCEPT ![p] = Shooting(browser[p], shots + 1)]
  BY DEF ExecutesShot
<1>5. browser' \in [Players -> Sound] /\ browser' \in [Players -> BrowserType]
  BY <1>3, <1>4, BrowserKept
<1> DEFINE init == [type |-> "shot_init", balls |-> browser[p].table, layout |-> browser[p].layout]
           aim == [type |-> "aim_chunk"]
<1>6. browser[p].table \in SUBSET Balls /\ browser[p].layout \in 0 .. MaxShots
  BY <1>1 DEF BrowserType
<1>7. init \in UpType /\ aim \in UpType
  BY <1>6 DEF UpType, StreamType, InitType, AimType
<1>8. Sends(p, Two(aim, init))
  BY DEF ExecutesShot, Two
<1> HIDE DEF init, aim
<1>9. Two(aim, init) \in Seq(UpType)
  BY <1>7 DEF Two
<1>10. outbox' \in [Players -> Seq(UpType)]
  BY <1>8, <1>9, SendsTyped
<1> QED
  BY <1>2, <1>5, <1>10 DEF ExecutesShot, TypeOK, Carried, server, network

LEMMA SimulateStep ==
    ASSUME IInv, NEW p \in Players, SimulatesFrame(p)
    PROVE  IInv'
<1> USE DEF IInv
<1>1. browser[p] \in Sound
  OBVIOUS
<1>2. PICK dropped \in SUBSET browser[p].table :
        /\ browser' = [browser EXCEPT ![p] = Record(Drop(browser[p], dropped))]
        /\ Sends(p, One(Chunk(Record(Drop(browser[p], dropped)))))
  BY DEF SimulatesFrame, One
<1> DEFINE d == Drop(browser[p], dropped)
           v == Record(d)
<1>3. d \in Sound /\ d.isSimulating /\ d.isLocalShot /\ d.recorded = browser[p].recorded
  BY <1>1, DropSound DEF SimulatesFrame
<1>4. /\ v \in BrowserType /\ Agrees(v)
      /\ v.shot \in 1 .. MaxShots
      /\ v.recorded = browser[p].recorded + 1 /\ v.recorded \in 1 .. MaxFrames
  BY <1>3, RecordTyped
<1> HIDE DEF v
<1>5. Reportable(v)
  <2>1. browser[p].recorded \in 0 .. MaxFrames /\ browser[p].recorded < MaxFrames - 1
    BY <1>1 DEF Sound, BrowserType, SimulatesFrame
  <2> QED
    BY <1>4, <2>1, Numbers DEF Reportable
<1>6. v \in Sound
  BY <1>4, <1>5 DEF Sound
<1>7. browser' \in [Players -> Sound] /\ browser' \in [Players -> BrowserType]
  BY <1>2, <1>6, BrowserKept DEF v
<1>8. One(Chunk(v)) \in Seq(UpType)
  BY <1>4, ChunkTyped DEF One
<1>9. outbox' \in [Players -> Seq(UpType)]
  BY <1>2, <1>8, SendsTyped DEF v
<1> QED
  BY <1>7, <1>9 DEF SimulatesFrame, TypeOK, Carried, server, network

LEMMA SettleStep ==
    ASSUME IInv, NEW p \in Players, Settles(p)
    PROVE  IInv'
<1> USE DEF IInv
<1>1. browser[p] \in Sound
  OBVIOUS
<1> DEFINE v(dropped, late) == Record(Drop(browser[p], dropped \ late))
           w(dropped, late) == [Drop(v(dropped, late), late) EXCEPT
                                  !.isSimulating = FALSE, !.layout = v(dropped, late).shot]
           report(u) == [type |-> "shoot", balls |-> u.table, pocketed |-> u.pocketedBalls, shot |-> u.shot]
<1>2. PICK dropped \in SUBSET browser[p].table : \E late \in SUBSET dropped :
        /\ browser' = [browser EXCEPT ![p] = w(dropped, late)]
        /\ Sends(p, Two(Chunk(v(dropped, late)), report(w(dropped, late))))
  BY DEF Settles, Two
<1>3. PICK late \in SUBSET dropped :
        /\ browser' = [browser EXCEPT ![p] = w(dropped, late)]
        /\ Sends(p, Two(Chunk(v(dropped, late)), report(w(dropped, late))))
  BY <1>2
<1> DEFINE d == Drop(browser[p], dropped \ late)
           r == Record(d)
           x == [Drop(r, late) EXCEPT !.isSimulating = FALSE, !.layout = r.shot]
<1>4. d \in Sound /\ d.isSimulating /\ d.isLocalShot /\ d.table = browser[p].table \ (dropped \ late)
  BY <1>1, DropSound DEF Settles
<1>5. /\ r \in BrowserType /\ Agrees(r)
      /\ r.isSimulating = TRUE /\ r.isLocalShot = TRUE
      /\ r.shot \in 1 .. MaxShots /\ r.recorded \in 1 .. MaxFrames
      /\ r.table = d.table
  BY <1>4, RecordTyped
<1>6. late \in SUBSET r.table
  BY <1>4, <1>5
<1> HIDE DEF r
<1>7. /\ x \in Sound
      /\ x.table \in SUBSET Balls /\ x.pocketedBalls \in SUBSET Balls /\ x.shot = r.shot
  BY <1>5, <1>6, SettledSound
<1>8. browser' = [browser EXCEPT ![p] = x] /\ Sends(p, Two(Chunk(r), report(x)))
  BY <1>3 DEF r
<1> HIDE DEF x
<1>9. browser' \in [Players -> Sound] /\ browser' \in [Players -> BrowserType]
  BY <1>7, <1>8, BrowserKept
<1>10. Chunk(r) \in UpType /\ report(x) \in UpType
  BY <1>5, <1>7, ChunkTyped DEF UpType, ShootType
<1> HIDE DEF report
<1>11. Two(Chunk(r), report(x)) \in Seq(UpType)
  BY <1>10 DEF Two
<1>12. outbox' \in [Players -> Seq(UpType)]
  BY <1>8, <1>11, SendsTyped
<1> QED
  BY <1>9, <1>12 DEF Settles, TypeOK, Carried, server, network

LEMMA UpdateStep ==
    ASSUME IInv, NEW p \in Players, Updates(p)
    PROVE  IInv'
<1> USE DEF IInv
<1>1. browser[p] \in Sound
  OBVIOUS
<1>2. PICK elapsed \in browser[p].replayProgress .. MaxFrames, aims \in BOOLEAN :
        browser' = [browser EXCEPT ![p] = GivesWay(StartsLate(Advances(browser[p], elapsed, aims)))]
  BY DEF Updates
<1>3. elapsed \in 0 .. MaxFrames
  <2>1. browser[p].replayProgress \in 0 .. MaxFrames
    BY <1>1 DEF Sound, BrowserType
  <2> QED
    BY <2>1, Numbers
<1>4. Advances(browser[p], elapsed, aims) \in Sound
  BY <1>1, <1>3, AdvanceSound
<1>5. \A v \in Sound : StartsLate(v) \in Sound
  BY StartSound DEF StartsLate
<1>6. \A v \in Sound : GivesWay(v) \in Sound
  BY FinishSound DEF GivesWay
<1>7. GivesWay(StartsLate(Advances(browser[p], elapsed, aims))) \in Sound
  BY <1>4, <1>5, <1>6
<1>8. browser' \in [Players -> Sound] /\ browser' \in [Players -> BrowserType]
  BY <1>2, <1>7, BrowserKept
<1> QED
  BY <1>8 DEF Updates, TypeOK, Carried, server, network

LEMMA ReceiveStep ==
    ASSUME IInv, NEW p \in Players, Receives(p)
    PROVE  IInv'
<1> USE DEF IInv
<1>1. inbox[p] \in Seq(DownType) /\ inbox[p] # <<>>
  BY DEF Receives, Carried
<1>2. Head(inbox[p]) \in DownType /\ Tail(inbox[p]) \in Seq(DownType)
  BY <1>1
<1>3. Handled(p, browser[p], Head(inbox[p])) \in Sound
  BY <1>2, HandledSound
<1>4. browser' = [browser EXCEPT ![p] = Handled(p, browser[p], Head(inbox[p]))]
  BY DEF Receives
<1>5. browser' \in [Players -> Sound] /\ browser' \in [Players -> BrowserType]
  BY <1>3, <1>4, BrowserKept
<1>6. inbox' \in [Players -> Seq(DownType)]
  BY <1>2 DEF Receives, Carried
<1> QED
  BY <1>5, <1>6 DEF Receives, TypeOK, Carried, server, network

LEMMA RelayStep ==
    ASSUME IInv, NEW p \in Players, Relays(p)
    PROVE  IInv'
<1> USE DEF IInv
<1>1. outbox' \in [Players -> Seq(UpType)] /\ Head(outbox[p]) \in UpType
  BY TakesTyped DEF Relays
<1>2. Head(outbox[p]) \in DownType
  BY <1>1, Kinds DEF Relays, DownType
<1>3. Opponent(p) \in Players
  BY DEF Players, Opponent
<1>4. One(Head(outbox[p])) \in Seq(DownType)
  BY <1>2 DEF One
<1>5. Delivers(Opponent(p), One(Head(outbox[p]))) \in Seq(DownType)
  BY <1>3, <1>4, DeliversTyped
<1>6. inbox' \in [Players -> Seq(DownType)]
  BY <1>3, <1>5 DEF Relays, Carried, One
<1> QED
  BY <1>1, <1>6 DEF Relays, TypeOK, Carried, server, network

LEMMA AcceptStep ==
    ASSUME IInv, NEW p \in Players, Accepts(p)
    PROVE  IInv'
<1> USE DEF IInv
<1> DEFINE m == Head(outbox[p])
           result == [type |-> "shot_result", player |-> currentPlayer',
                      result |-> [balls |-> balls', pocketed |-> m.pocketed, shot |-> m.shot]]
           turn == [type |-> "turn", player |-> currentPlayer']
<1>1. outbox' \in [Players -> Seq(UpType)] /\ m \in UpType
  BY TakesTyped DEF Accepts
<1>2. m \in ShootType
  BY <1>1, Kinds DEF Accepts
<1>3. m.balls \subseteq Balls /\ m.pocketed \in SUBSET Balls /\ m.shot \in 1 .. MaxShots
  BY <1>2 DEF ShootType
<1>4. balls' \subseteq Balls /\ layout' \in 0 .. MaxShots /\ currentPlayer' \in Players
  BY <1>3, Numbers DEF Accepts
<1>5. result \in DownType /\ turn \in DownType
  BY <1>3, <1>4 DEF DownType, ShotResultType, ResultType, TurnType
<1>6. inbox' = [q \in Players |-> Delivers(q, Two(result, turn))]
  BY DEF Accepts, Two
<1> HIDE DEF result, turn
<1>7. Two(result, turn) \in Seq(DownType)
  BY <1>5 DEF Two
<1>8. \A q \in Players : Delivers(q, Two(result, turn)) \in Seq(DownType)
  BY <1>7, DeliversTyped
<1>9. inbox' \in [Players -> Seq(DownType)]
  BY <1>6, <1>8
<1> QED
  BY <1>1, <1>4, <1>9 DEF Accepts, TypeOK, Carried, network

LEMMA RejectStep ==
    ASSUME IInv, NEW p \in Players, Rejects(p)
    PROVE  IInv'
<1>1. outbox' \in [Players -> Seq(UpType)]
  BY TakesTyped DEF Rejects, IInv
<1> QED
  BY <1>1 DEF Rejects, IInv, TypeOK, Carried, server, network

LEMMA LoseStep ==
    ASSUME IInv, NEW p \in Players, LosesSocket(p)
    PROVE  IInv'
<1>1. <<>> \in Seq(UpType) /\ <<>> \in Seq(DownType)
  OBVIOUS
<1>2. drops' \in 0 .. MaxDrops
  BY Numbers DEF IInv, TypeOK, LosesSocket
<1> QED
  BY <1>1, <1>2 DEF LosesSocket, IInv, TypeOK, Carried, server

LEMMA ReconnectStep ==
    ASSUME IInv, NEW p \in Players, Reconnects(p)
    PROVE  IInv'
<1> DEFINE back == [type |-> "reconnected", player |-> currentPlayer, layout |-> layout]
<1>1. back \in DownType
  BY DEF IInv, TypeOK, DownType, ReconnectedType
<1>2. inbox' = [inbox EXCEPT ![p] = One(back)]
  BY DEF Reconnects, One
<1> HIDE DEF back
<1>3. One(back) \in Seq(DownType)
  BY <1>1 DEF One
<1>4. inbox' \in [Players -> Seq(DownType)]
  BY <1>2, <1>3 DEF IInv, Carried
<1> QED
  BY <1>4 DEF Reconnects, IInv, TypeOK, Carried, server

LEMMA NextInvariant == IInv /\ [Next]_vars => IInv'
<1> SUFFICES ASSUME IInv, [Next]_vars PROVE IInv'
  OBVIOUS
<1>1. CASE UNCHANGED vars
  BY <1>1 DEF IInv, TypeOK, Carried, vars, server, network
<1>2. CASE Next
  BY <1>2, ShootStep, SimulateStep, SettleStep, UpdateStep, ReceiveStep, RelayStep, AcceptStep,
     RejectStep, LoseStep, ReconnectStep DEF Next, Simulates, Serves
<1> QED
  BY <1>1, <1>2

--------------------------------------------------------------------------------
(* Who has the turn.  While the sockets stay up, exactly what the player to   *)
(* move may have: a browser that lets its user shoot, or a shot it simulates, *)
(* or a report under way, or a result and the turn behind it under way.       *)

Shows(v) == v.isSimulating /\ v.isLocalShot

Reports(out) == \E i \in 1 .. Len(out) : out[i].type = "shoot"

Grant(m, p) == m.type \in {"shot_result", "turn"} /\ m.player = p

Grants(in, p) == \E i \in 1 .. Len(in) : Grant(in[i], p)

(* A result has its turn right behind it; a grant is one such pair or the     *)
(* turn that is left of it; nobody has reconnected.                           *)
Paired(in, p) ==
    /\ \A i \in 1 .. Len(in) :
         /\ in[i].type # "reconnected"
         /\ in[i].type = "shot_result" =>
              /\ i + 1 \in 1 .. Len(in)
              /\ in[i + 1].type = "turn" /\ in[i + 1].player = in[i].player
    /\ \A i, j \in 1 .. Len(in) :
         i < j /\ Grant(in[i], p) /\ Grant(in[j], p) =>
           j = i + 1 /\ in[i].type = "shot_result" /\ in[j].type = "turn"

(* The state of player p, with browser v and queues in and out. *)
HasTurn(p, v, in, out) == v.isMyTurn \/ Shows(v) \/ Reports(out) \/ Grants(in, p)

OneTurn(p, v, in, out) ==
    /\ Shows(v) => ~v.isMyTurn /\ ~Reports(out) /\ ~Grants(in, p)
    /\ Reports(out) => ~v.isMyTurn /\ ~Grants(in, p)
    /\ \A i, j \in 1 .. Len(out) : out[i].type = "shoot" /\ out[j].type = "shoot" => i = j
    /\ v.isMyTurn => \A i \in 1 .. Len(in) : Grant(in[i], p) => i = 1 /\ in[i].type = "turn"
    /\ Paired(in, p)

Turns ==
    drops = 0 =>
        \A p \in Players :
            /\ online[p]
            /\ HasTurn(p, browser[p], inbox[p], outbox[p]) => currentPlayer = p
            /\ OneTurn(p, browser[p], inbox[p], outbox[p])

LEMMA TailItems ==
    ASSUME NEW S, NEW s \in Seq(S), s # <<>>
    PROVE  /\ Len(s) \in Nat /\ 1 \in 1 .. Len(s) /\ Head(s) = s[1]
           /\ Len(Tail(s)) = Len(s) - 1
           /\ \A i \in 1 .. Len(Tail(s)) : i + 1 \in 1 .. Len(s) /\ Tail(s)[i] = s[i + 1]
OBVIOUS

LEMMA OneItem ==
    ASSUME NEW S, NEW s \in Seq(S), NEW a \in S
    PROVE  /\ Len(s) \in Nat /\ Len(s \o One(a)) = Len(s) + 1
           /\ \A i \in 1 .. Len(s) : (s \o One(a))[i] = s[i]
           /\ (s \o One(a))[Len(s) + 1] = a
BY DEF One

LEMMA TwoItems ==
    ASSUME NEW S, NEW s \in Seq(S), NEW a \in S, NEW b \in S
    PROVE  /\ Len(s) \in Nat /\ Len(s \o Two(a, b)) = Len(s) + 2
           /\ \A i \in 1 .. Len(s) : (s \o Two(a, b))[i] = s[i]
           /\ (s \o Two(a, b))[Len(s) + 1] = a /\ (s \o Two(a, b))[Len(s) + 2] = b
BY DEF Two

(* The tuples by themselves. *)
LEMMA OneTuple == \A a : Len(One(a)) = 1 /\ One(a)[1] = a /\ One(a) # <<>>
BY DEF One

LEMMA TwoTuple == \A a, b : Len(Two(a, b)) = 2 /\ Two(a, b)[1] = a /\ Two(a, b)[2] = b
BY DEF Two

LEMMA OneTyped ==
    ASSUME NEW S, NEW a \in S
    PROVE  One(a) \in Seq(S) /\ Tail(One(a)) = <<>>
BY DEF One

LEMMA TwoTyped ==
    ASSUME NEW S, NEW a \in S, NEW b \in S
    PROVE  Two(a, b) \in Seq(S)
BY DEF Two

LEMMA SentFirst ==
    ASSUME NEW S, NEW a \in S, NEW b \in S
    PROVE  <<>> \o Two(a, b) = Two(a, b)
BY DEF Two

(* A queue from which one message is taken. *)
LEMMA TakenReports ==
    ASSUME NEW out \in Seq(UpType), out # <<>>
    PROVE  /\ Reports(Tail(out)) => Reports(out)
           /\ (\A i, j \in 1 .. Len(out) : out[i].type = "shoot" /\ out[j].type = "shoot" => i = j)
                => /\ \A i, j \in 1 .. Len(Tail(out)) :
                        Tail(out)[i].type = "shoot" /\ Tail(out)[j].type = "shoot" => i = j
                   /\ Head(out).type = "shoot" => Reports(out) /\ ~Reports(Tail(out))
BY TailItems DEF Reports

LEMMA TakenGrants ==
    ASSUME NEW p, NEW in \in Seq(DownType), in # <<>>, Paired(in, p)
    PROVE  /\ Paired(Tail(in), p)
           /\ Grants(Tail(in), p) => Grants(in, p)
           /\ Grant(Head(in), p) => Grants(in, p)
           /\ Grant(Head(in), p) =>
                \A i \in 1 .. Len(Tail(in)) :
                    Grant(Tail(in)[i], p) => i = 1 /\ Tail(in)[i].type = "turn"
           /\ Head(in).type # "reconnected"
<1>1. /\ Len(in) \in Nat /\ 1 \in 1 .. Len(in) /\ Head(in) = in[1]
      /\ Len(Tail(in)) = Len(in) - 1
      /\ \A i \in 1 .. Len(Tail(in)) : i + 1 \in 1 .. Len(in) /\ Tail(in)[i] = in[i + 1]
  BY TailItems
<1> DEFINE rest == Tail(in)
<1> HIDE DEF rest
<1>2. Paired(rest, p)
  BY <1>1 DEF Paired, rest
<1>3. Grants(rest, p) => Grants(in, p)
  BY <1>1 DEF Grants, rest
<1>4. (Grant(Head(in), p) => Grants(in, p)) /\ Head(in).type # "reconnected"
  BY <1>1 DEF Paired, Grants
<1>5. Grant(Head(in), p) =>
        \A i \in 1 .. Len(rest) : Grant(rest[i], p) => i = 1 /\ rest[i].type = "turn"
  BY <1>1 DEF Paired, rest
<1> QED
  BY <1>2, <1>3, <1>4, <1>5 DEF rest

(* A queue that gets one message that grants nothing, or a result and a turn. *)
LEMMA SentOne ==
    ASSUME NEW p, NEW in \in Seq(DownType), NEW m \in StreamType, Paired(in, p)
    PROVE  /\ Paired(in \o One(m), p)
           /\ Grants(in \o One(m), p) => Grants(in, p)
           /\ \A i \in 1 .. Len(in \o One(m)) : Grant((in \o One(m))[i], p) => i \in 1 .. Len(in) /\ Grant(in[i], p) /\ (in \o One(m))[i] = in[i]
<1>1. m \in DownType /\ m.type \notin {"shot_result", "turn", "reconnected"}
  BY DEF DownType, StreamType, AimType, InitType, ChunkType
<1>2. /\ Len(in) \in Nat /\ Len(in \o One(m)) = Len(in) + 1
      /\ \A i \in 1 .. Len(in) : (in \o One(m))[i] = in[i]
      /\ (in \o One(m))[Len(in) + 1] = m
  BY <1>1, OneItem
<1> DEFINE t == in \o One(m)
<1> HIDE DEF t
<1>3. \A i \in 1 .. Len(t) : (i \in 1 .. Len(in) /\ t[i] = in[i]) \/ t[i] = m
  BY <1>2 DEF t
<1>4. \A i \in 1 .. Len(t) : Grant(t[i], p) => i \in 1 .. Len(in) /\ Grant(in[i], p) /\ t[i] = in[i]
  BY <1>1, <1>3 DEF Grant
<1>5. Paired(t, p)
  BY <1>1, <1>2, <1>3, <1>4 DEF Paired, t
<1> QED
  BY <1>4, <1>5 DEF t, Grants

LEMMA SentResult ==
    ASSUME NEW p, NEW in \in Seq(DownType), Paired(in, p), ~Grants(in, p),
           NEW a \in ShotResultType, NEW b \in TurnType, a.player = b.player
    PROVE  /\ Paired(in \o Two(a, b), p)
           /\ a.player # p => ~Grants(in \o Two(a, b), p)
<1>1. /\ a \in DownType /\ b \in DownType
      /\ a.type = "shot_result" /\ b.type = "turn"
  BY DEF DownType, ShotResultType, TurnType
<1>2. /\ Len(in) \in Nat /\ Len(in \o Two(a, b)) = Len(in) + 2
      /\ \A i \in 1 .. Len(in) : (in \o Two(a, b))[i] = in[i]
      /\ (in \o Two(a, b))[Len(in) + 1] = a /\ (in \o Two(a, b))[Len(in) + 2] = b
  BY <1>1, TwoItems
<1> DEFINE t == in \o Two(a, b)
<1> HIDE DEF t
<1>3. \A i \in 1 .. Len(t) :
        \/ i \in 1 .. Len(in) /\ t[i] = in[i] /\ ~Grant(t[i], p)
        \/ i = Len(in) + 1 /\ t[i] = a
        \/ i = Len(in) + 2 /\ t[i] = b
  BY <1>2 DEF t, Grants
<1>4. \A i \in 1 .. Len(t) :
        /\ t[i].type # "reconnected"
        /\ t[i].type = "shot_result" =>
             i + 1 \in 1 .. Len(t) /\ t[i + 1].type = "turn" /\ t[i + 1].player = t[i].player
  BY <1>1, <1>2, <1>3 DEF Paired, t
<1>5. \A i, j \in 1 .. Len(t) :
        i < j /\ Grant(t[i], p) /\ Grant(t[j], p) =>
           j = i + 1 /\ t[i].type = "shot_result" /\ t[j].type = "turn"
  BY <1>1, <1>2, <1>3
<1>6. a.player # p => ~Grants(t, p)
  BY <1>3 DEF Grants, Grant
<1> QED
  BY <1>4, <1>5, <1>6 DEF Paired, t

(* What the operators on a browser do to its turn: v becomes w.               *)
Passive(v, w) == (w.isMyTurn => v.isMyTurn) /\ (Shows(w) => Shows(v))

LEMMA PassiveKeeps ==
    ASSUME NEW p, NEW v, NEW w, NEW in, NEW out, Passive(v, w), OneTurn(p, v, in, out)
    PROVE  /\ OneTurn(p, w, in, out)
           /\ HasTurn(p, w, in, out) => HasTurn(p, v, in, out)
BY DEF Passive, OneTurn, HasTurn

LEMMA StartPassive ==
    ASSUME NEW v \in BrowserType
    PROVE  LET w == StartRemoteReplay(v)
           IN  w.isMyTurn = v.isMyTurn /\ w.isSimulating = v.isSimulating /\ w.isLocalShot = v.isLocalShot
<1>1. CASE v.remotePlayback /\ ~v.replayActive /\ v.trajectoryFrames # <<>>
  BY <1>1 DEF StartRemoteReplay, BrowserType
<1>2. CASE ~(v.remotePlayback /\ ~v.replayActive /\ v.trajectoryFrames # <<>>)
  BY <1>2 DEF StartRemoteReplay, BrowserType
<1> QED
  BY <1>1, <1>2

LEMMA ApplyPassive ==
    ASSUME NEW v \in BrowserType, NEW r
    PROVE  LET w == ApplyResult(v, r)
           IN  w.isMyTurn = v.isMyTurn /\ w.isSimulating = v.isSimulating /\ w.isLocalShot = v.isLocalShot
BY DEF ApplyResult, BrowserType

LEMMA EndPassive ==
    ASSUME NEW v \in BrowserType
    PROVE  LET w == EndRemotePlayback(v)
           IN  w.isMyTurn = v.isMyTurn /\ w.isSimulating = v.isSimulating /\ w.isLocalShot = v.isLocalShot
BY DEF EndRemotePlayback, BeginRemotePlayback, BrowserType

LEMMA FinishPassive ==
    ASSUME NEW v \in Sound, v.pending # NoResult
    PROVE  Passive(v, FinishRemoteShotVisual(v))
<1> DEFINE e == EndRemotePlayback(v)
           a == ApplyResult(e, v.pending)
           w == FinishRemoteShotVisual(v)
<1>1. v \in BrowserType /\ v.pending \in ResultType
  BY DEF Sound, BrowserType
<1>2. e \in BrowserType /\ e.isMyTurn = v.isMyTurn
  BY <1>1, EndTyped, EndPassive
<1>3. a \in BrowserType /\ a.isMyTurn = v.isMyTurn
  BY <1>1, <1>2, ApplyTyped, ApplyPassive
<1>4. w = [a EXCEPT !.pending = NoResult, !.isSimulating = FALSE,
                    !.aimSamples = FALSE, !.aimReplayActive = FALSE]
  BY DEF FinishRemoteShotVisual
<1> HIDE DEF a, w
<1>5. w.isMyTurn = a.isMyTurn /\ w.isSimulating = FALSE
  BY <1>3, <1>4 DEF BrowserType
<1> QED
  BY <1>3, <1>5 DEF Passive, Shows, w

LEMMA UpdatePassive ==
    ASSUME NEW v \in Sound, NEW elapsed \in 0 .. MaxFrames, NEW aims \in BOOLEAN
    PROVE  Passive(v, GivesWay(StartsLate(Advances(v, elapsed, aims))))
<1> DEFINE a == Advances(v, elapsed, aims)
           s == StartsLate(a)
<1>1. a \in Sound /\ Passive(v, a)
  BY AdvanceSound DEF Passive, Shows
<1> HIDE DEF a
<1>3. s \in Sound /\ Passive(a, s)
  <2>1. a \in BrowserType
    BY <1>1 DEF Sound
  <2> QED
    BY <1>1, <2>1, StartSound, StartPassive DEF StartsLate, Passive, Shows
<1> HIDE DEF s
<1>4. Passive(s, GivesWay(s))
  BY <1>3, FinishPassive DEF GivesWay, Passive, Shows
<1> QED
  BY <1>1, <1>3, <1>4 DEF Passive, a, s

LEMMA HandledTurn ==
    ASSUME NEW p \in Players, NEW v \in Sound, NEW m \in DownType, m.type # "reconnected"
    PROVE  LET w == Handled(p, v, m)
           IN  /\ Shows(w) => Shows(v)
               /\ w.isMyTurn => v.isMyTurn \/ Grant(m, p)
               /\ m.type \in {"shot_result", "turn"} => (w.isMyTurn <=> Grant(m, p))
<1> DEFINE w == Handled(p, v, m)
<1>1. v \in BrowserType
  BY DEF Sound
<1>2. CASE m.type = "aim_chunk"
  <2>1. w \in {v, [v EXCEPT !.aimSamples = TRUE]}
    BY <1>2 DEF Handled, OnAimChunk
  <2> QED
    BY <1>1, <1>2, <2>1 DEF Shows, BrowserType
<1>3. CASE m.type = "shot_init"
  <2>1. w = PlayOpponentShot(v, m)
    BY <1>3 DEF Handled
  <2>2. CASE v.isSimulating
    BY <1>3, <2>1, <2>2 DEF PlayOpponentShot
  <2>3. CASE ~v.isSimulating
    <3> DEFINE b == BeginRemotePlayback(v)
    <3>1. b \in BrowserType
      BY <1>1, BeginTyped
    <3>2. PlayOpponentShot(v, m) =
            [b EXCEPT !.isSimulating = TRUE, !.isLocalShot = FALSE, !.isMyTurn = FALSE,
                      !.pocketedBalls = {}, !.layout = m.layout,
                      !.remoteShotReplayStarted = FALSE, !.pending = NoResult,
                      !.aimReplayActive = v.aimSamples]
      BY <2>3 DEF PlayOpponentShot
    <3> HIDE DEF b
    <3>3. PlayOpponentShot(v, m).isMyTurn = FALSE /\ PlayOpponentShot(v, m).isLocalShot = FALSE
      BY <3>1, <3>2 DEF BrowserType
    <3> QED
      BY <1>3, <2>1, <3>3 DEF Shows
  <2> QED
    BY <2>2, <2>3
<1>4. CASE m.type = "shot_chunk"
  <2>1. w \in {v, [v EXCEPT !.trajectoryFrames = Append(v.trajectoryFrames, m.frame)]}
    BY <1>1, <1>4 DEF Handled, OnShotChunk, BrowserType
  <2> QED
    BY <1>1, <1>4, <2>1 DEF Shows, BrowserType
<1>5. CASE m.type = "shot_result"
  <2> DEFINE kept == StartRemoteReplay([v EXCEPT !.pending = m.result])
             applied == [ApplyResult(v, m.result) EXCEPT !.isSimulating = FALSE]
             shown == IF v.isSimulating /\ ~v.isLocalShot THEN kept ELSE applied
  <2>1. m.result \in ResultType
    BY <1>5, Kinds DEF ShotResultType
  <2>2. w = [shown EXCEPT !.isMyTurn = (m.player = p)]
    BY <1>5 DEF Handled, AnimateShotResult
  <2>3. shown \in BrowserType /\ ~Shows(shown)
    <3>1. ASSUME v.isSimulating /\ ~v.isLocalShot
          PROVE  kept \in BrowserType /\ ~Shows(kept)
      <4> DEFINE r == [v EXCEPT !.pending = m.result]
      <4>1. r \in Sound /\ r.isLocalShot = v.isLocalShot
        <5>1. r \in BrowserType
          BY <1>1, <2>1, Zenon DEF BrowserType
        <5>2. /\ r.isSimulating = v.isSimulating /\ r.isLocalShot = v.isLocalShot
              /\ r.shot = v.shot /\ r.recorded = v.recorded
              /\ r.remotePlayback = v.remotePlayback
              /\ r.replayActive = v.replayActive /\ r.trajectoryFrames = v.trajectoryFrames
          BY <1>1 DEF BrowserType
        <5> HIDE DEF r
        <5>3. Reportable(r) /\ Agrees(r)
          BY <3>1, <5>2 DEF Reportable, Agrees, Sound
        <5> QED
          BY <5>1, <5>2, <5>3 DEF Sound
      <4> HIDE DEF r
      <4>2. StartRemoteReplay(r) \in BrowserType /\ StartRemoteReplay(r).isLocalShot = r.isLocalShot
        BY <4>1, StartSound, StartPassive DEF Sound
      <4> QED
        BY <3>1, <4>1, <4>2 DEF Shows, r
    <3>2. applied \in BrowserType /\ ~Shows(applied)
      <4> DEFINE a == ApplyResult(v, m.result)
      <4>1. a \in BrowserType
        BY <1>1, <2>1, ApplyTyped
      <4> HIDE DEF a
      <4>2. [a EXCEPT !.isSimulating = FALSE] \in BrowserType
        BY <4>1, Zenon DEF BrowserType
      <4>3. [a EXCEPT !.isSimulating = FALSE].isSimulating = FALSE
        BY <4>1 DEF BrowserType
      <4> QED
        BY <4>2, <4>3 DEF Shows, a
    <3> QED
      BY <3>1, <3>2
  <2> HIDE DEF shown
  <2>4. /\ w.isMyTurn <=> m.player = p
        /\ w.isSimulating = shown.isSimulating /\ w.isLocalShot = shown.isLocalShot
    BY <2>2, <2>3 DEF BrowserType
  <2> QED
    BY <1>5, <2>3, <2>4 DEF Shows, Grant
<1>6. CASE m.type = "turn"
  <2>1. w = [v EXCEPT !.isMyTurn = (m.player = p)]
    BY <1>6 DEF Handled
  <2>2. /\ w.isMyTurn <=> m.player = p
        /\ w.isSimulating = v.isSimulating /\ w.isLocalShot = v.isLocalShot
    BY <1>1, <2>1 DEF BrowserType
  <2> QED
    BY <1>6, <2>2 DEF Shows, Grant
<1> QED
  BY <1>2, <1>3, <1>4, <1>5, <1>6, Kinds

(* The turn of player q, and the same after a step. *)
TurnOf(q) ==
    /\ online[q]
    /\ HasTurn(q, browser[q], inbox[q], outbox[q]) => currentPlayer = q
    /\ OneTurn(q, browser[q], inbox[q], outbox[q])

(* Where a step leaves a player's queues alone and the browser passive, that  *)
(* player's turn is what it was.                                              *)
LEMMA TurnKept ==
    ASSUME NEW q \in Players, TurnOf(q), online' = online, currentPlayer' = currentPlayer,
           inbox'[q] = inbox[q], outbox'[q] = outbox[q], Passive(browser[q], browser'[q])
    PROVE  TurnOf(q)'
<1>1. /\ OneTurn(q, browser'[q], inbox[q], outbox[q])
      /\ HasTurn(q, browser'[q], inbox[q], outbox[q]) => HasTurn(q, browser[q], inbox[q], outbox[q])
  BY PassiveKeeps DEF TurnOf
<1> QED
  BY <1>1 DEF TurnOf

LEMMA PassiveSame == \A v : Passive(v, v)
BY DEF Passive

LEMMA ShootTurn ==
    ASSUME IInv, ~Hasty, NEW p \in Players, ExecutesShot(p), \A q \in Players : TurnOf(q)
    PROVE  \A q \in Players : TurnOf(q)'
<1>1. \A q \in Players \ {p} : TurnOf(q)'
  BY TurnKept, PassiveSame DEF ExecutesShot, Sends, IInv, Carried, server, network
<1>2. TurnOf(p)'
  <2> DEFINE v == browser[p]
             init == [type |-> "shot_init", balls |-> v.table, layout |-> v.layout]
             aim == [type |-> "aim_chunk"]
             in == inbox[p]
             out == outbox[p]
  <2>1. v \in BrowserType /\ v.isMyTurn /\ in \in Seq(DownType) /\ out \in Seq(UpType)
    BY DEF IInv, Sound, ExecutesShot, MayShoot, Carried
  <2>2. v.table \in SUBSET Balls /\ v.layout \in 0 .. MaxShots
    BY <2>1 DEF BrowserType
  <2>3. init \in UpType /\ aim \in UpType /\ init.type # "shoot" /\ aim.type # "shoot"
    BY <2>2 DEF UpType, StreamType, InitType, AimType
  <2>4. /\ browser'[p] = Shooting(v, shots + 1)
        /\ outbox'[p] = out \o Two(aim, init)
        /\ inbox'[p] = in /\ online' = online /\ currentPlayer' = currentPlayer
    BY DEF ExecutesShot, Sends, TurnOf, IInv, Carried, server, network, Two
  <2>5. Shooting(v, shots + 1).isMyTurn = FALSE
    BY <2>1 DEF Shooting, BrowserType
  <2>6. ~Reports(out) /\ OneTurn(p, v, in, out) /\ online[p]
    BY <2>1 DEF TurnOf, OneTurn
  <2>7. ~Reports(out \o Two(aim, init))
    <3> HIDE DEF init, aim
    <3>1. /\ Len(out) \in Nat /\ Len(out \o Two(aim, init)) = Len(out) + 2
          /\ \A i \in 1 .. Len(out) : (out \o Two(aim, init))[i] = out[i]
          /\ (out \o Two(aim, init))[Len(out) + 1] = aim /\ (out \o Two(aim, init))[Len(out) + 2] = init
      BY <2>1, <2>3, TwoItems
    <3> QED
      BY <2>3, <2>6, <3>1 DEF Reports
  <2>8. ~Grants(in, p)
    <3> SUFFICES ASSUME NEW i \in 1 .. Len(in), Grant(in[i], p) PROVE FALSE
      BY DEF Grants
    <3>1. i = 1 /\ in[1].type = "turn"
      BY <2>1, <2>6 DEF OneTurn
    <3>2. in # <<>> /\ Head(in) = in[1]
      BY <2>1, <3>1
    <3> QED
      BY <3>1, <3>2 DEF ExecutesShot, TurnFollows
  <2>9. currentPlayer = p
    BY <2>1 DEF TurnOf, HasTurn
  <2>10. OneTurn(p, browser'[p], inbox'[p], outbox'[p])
    BY <2>4, <2>5, <2>6, <2>7, <2>8 DEF OneTurn, Reports
  <2> QED
    BY <2>4, <2>6, <2>9, <2>10 DEF TurnOf
<1> QED
  BY <1>1, <1>2

LEMMA SimulateTurn ==
    ASSUME IInv, NEW p \in Players, SimulatesFrame(p), \A q \in Players : TurnOf(q)
    PROVE  \A q \in Players : TurnOf(q)'
<1>1. \A q \in Players \ {p} : TurnOf(q)'
  BY TurnKept, PassiveSame DEF SimulatesFrame, Sends, IInv, Carried, server, network
<1>2. TurnOf(p)'
  <2> DEFINE v == browser[p]
             out == outbox[p]
  <2>1. v \in BrowserType /\ out \in Seq(UpType) /\ Shows(v)
    BY DEF IInv, Sound, SimulatesFrame, Shows, Carried
  <2>2. PICK dropped \in SUBSET v.table :
          /\ browser' = [browser EXCEPT ![p] = Record(Drop(v, dropped))]
          /\ Sends(p, One(Chunk(Record(Drop(v, dropped)))))
    BY DEF SimulatesFrame, One
  <2> DEFINE d == Drop(v, dropped)
             w == Record(d)
  <2>3. /\ d \in BrowserType /\ d.isMyTurn = v.isMyTurn
        /\ d.isSimulating = v.isSimulating /\ d.isLocalShot = v.isLocalShot
    <3>1. d \in Sound
      BY DropSound DEF IInv
    <3> QED
      BY <2>1, <3>1 DEF Drop, BrowserType, Sound
  <2>4. w.isMyTurn = v.isMyTurn /\ w.isSimulating = v.isSimulating /\ w.isLocalShot = v.isLocalShot
    <3> HIDE DEF d
    <3> QED
      BY <2>3 DEF Record, BrowserType
  <2>5. Chunk(w) \in UpType
    <3>1. d \in Sound /\ d.isSimulating /\ d.isLocalShot
      BY <2>1, <2>3, DropSound DEF IInv, Shows
    <3>2. w \in BrowserType /\ w.recorded \in 1 .. MaxFrames
      BY <3>1, RecordTyped
    <3> QED
      BY <3>2, ChunkTyped
  <2>6. Chunk(w).type # "shoot"
    BY DEF Chunk
  <2> HIDE DEF w
  <2>7. /\ browser'[p] = w /\ outbox'[p] = out \o One(Chunk(w))
        /\ inbox'[p] = inbox[p] /\ online' = online /\ currentPlayer' = currentPlayer
    BY <2>2 DEF SimulatesFrame, Sends, TurnOf, IInv, Carried, server, network, w
  <2>8. ~Reports(out) /\ OneTurn(p, v, inbox[p], out) /\ currentPlayer = p /\ online[p]
    BY <2>1 DEF TurnOf, OneTurn, HasTurn
  <2>9. ~Reports(out \o One(Chunk(w)))
    BY <2>1, <2>5, <2>6, <2>8, OneItem DEF Reports
  <2>10. OneTurn(p, w, inbox[p], out \o One(Chunk(w)))
    BY <2>1, <2>4, <2>8, <2>9 DEF OneTurn, Reports, Shows
  <2> QED
    BY <2>7, <2>8, <2>10 DEF TurnOf
<1> QED
  BY <1>1, <1>2

LEMMA SettleTurn ==
    ASSUME IInv, NEW p \in Players, Settles(p), \A q \in Players : TurnOf(q)
    PROVE  \A q \in Players : TurnOf(q)'
<1>1. \A q \in Players \ {p} : TurnOf(q)'
  BY TurnKept, PassiveSame DEF Settles, Sends, IInv, Carried, server, network
<1>2. TurnOf(p)'
  <2> DEFINE v == browser[p]
             out == outbox[p]
             r(dropped, late) == Record(Drop(v, dropped \ late))
             x(dropped, late) == [Drop(r(dropped, late), late) EXCEPT
                                    !.isSimulating = FALSE, !.layout = r(dropped, late).shot]
             report(u) == [type |-> "shoot", balls |-> u.table, pocketed |-> u.pocketedBalls, shot |-> u.shot]
  <2>1. v \in Sound /\ v \in BrowserType /\ out \in Seq(UpType) /\ Shows(v)
    BY DEF IInv, Sound, Settles, Shows, Carried
  <2>2. PICK dropped \in SUBSET v.table : \E late \in SUBSET dropped :
          /\ browser' = [browser EXCEPT ![p] = x(dropped, late)]
          /\ Sends(p, Two(Chunk(r(dropped, late)), report(x(dropped, late))))
    BY DEF Settles, Two
  <2>3. PICK late \in SUBSET dropped :
          /\ browser' = [browser EXCEPT ![p] = x(dropped, late)]
          /\ Sends(p, Two(Chunk(r(dropped, late)), report(x(dropped, late))))
    BY <2>2
  <2> DEFINE d == Drop(v, dropped \ late)
             s == Record(d)
             l == Drop(s, late)
             w == [l EXCEPT !.isSimulating = FALSE, !.layout = s.shot]
  <2>4. /\ d \in Sound /\ d.isSimulating /\ d.isLocalShot /\ d.table = v.table \ (dropped \ late)
        /\ d.isMyTurn = v.isMyTurn
    BY <2>1, DropSound DEF Shows, Drop, BrowserType
  <2> HIDE DEF d
  <2>5. /\ s \in BrowserType /\ Agrees(s) /\ s.isSimulating = TRUE /\ s.isLocalShot = TRUE
        /\ s.shot \in 1 .. MaxShots /\ s.recorded \in 1 .. MaxFrames /\ s.table = d.table
        /\ s.isMyTurn = d.isMyTurn
    BY <2>4, RecordTyped DEF Record, Sound, BrowserType
  <2> HIDE DEF s
  <2>6. /\ w.table \in SUBSET Balls /\ w.pocketedBalls \in SUBSET Balls /\ w.shot \in 1 .. MaxShots
    BY <2>4, <2>5, SettledSound
  <2>7. w.isMyTurn = s.isMyTurn /\ w.isSimulating = FALSE
    <3>1. l.isMyTurn = s.isMyTurn /\ l = [s EXCEPT !.table = s.table \ late, !.pocketedBalls = s.pocketedBalls \cup late]
      BY <2>5 DEF Drop, BrowserType
    <3> HIDE DEF l
    <3> QED
      BY <2>5, <3>1 DEF BrowserType
  <2>8. Chunk(s) \in UpType /\ report(w) \in UpType /\ Chunk(s).type # "shoot" /\ report(w).type = "shoot"
    BY <2>5, <2>6, ChunkTyped DEF UpType, ShootType, Chunk
  <2> HIDE DEF w, report
  <2>9. /\ browser'[p] = w /\ outbox'[p] = out \o Two(Chunk(s), report(w))
        /\ inbox'[p] = inbox[p] /\ online' = online /\ currentPlayer' = currentPlayer
    BY <2>3 DEF Settles, Sends, TurnOf, IInv, Carried, server, network, w, s, d
  <2>10. /\ ~Reports(out) /\ OneTurn(p, v, inbox[p], out) /\ currentPlayer = p /\ online[p]
         /\ ~v.isMyTurn /\ ~Grants(inbox[p], p)
    BY <2>1 DEF TurnOf, OneTurn, HasTurn
  <2>11. \A i, j \in 1 .. Len(outbox'[p]) :
           outbox'[p][i].type = "shoot" /\ outbox'[p][j].type = "shoot" => i = j
    <3> DEFINE c == Chunk(s)
               e == report(w)
    <3> HIDE DEF c, e
    <3>1. /\ Len(out) \in Nat /\ Len(out \o Two(c, e)) = Len(out) + 2
          /\ \A i \in 1 .. Len(out) : (out \o Two(c, e))[i] = out[i]
          /\ (out \o Two(c, e))[Len(out) + 1] = c /\ (out \o Two(c, e))[Len(out) + 2] = e
      BY <2>1, <2>8, TwoItems DEF c, e
    <3>2. outbox'[p] = out \o Two(c, e) /\ c.type # "shoot"
      BY <2>8, <2>9 DEF c, e
    <3>3. \A i \in 1 .. Len(outbox'[p]) : outbox'[p][i].type = "shoot" => i = Len(out) + 2
      <4> SUFFICES ASSUME NEW i \in 1 .. Len(outbox'[p]), outbox'[p][i].type = "shoot"
                   PROVE  i = Len(out) + 2
        OBVIOUS
      <4>1. i \in 1 .. Len(out) => outbox'[p][i].type # "shoot"
        BY <2>10, <3>1, <3>2 DEF Reports
      <4> QED
        BY <3>1, <3>2, <4>1
    <3> QED
      BY <3>1, <3>3
  <2>12. OneTurn(p, w, inbox[p], outbox'[p])
    BY <2>4, <2>5, <2>7, <2>10, <2>11 DEF OneTurn, Shows
  <2> QED
    BY <2>9, <2>10, <2>12 DEF TurnOf
<1> QED
  BY <1>1, <1>2

LEMMA UpdateTurn ==
    ASSUME IInv, NEW p \in Players, Updates(p), \A q \in Players : TurnOf(q)
    PROVE  \A q \in Players : TurnOf(q)'
<1>1. PICK elapsed \in browser[p].replayProgress .. MaxFrames, aims \in BOOLEAN :
        browser' = [browser EXCEPT ![p] = GivesWay(StartsLate(Advances(browser[p], elapsed, aims)))]
  BY DEF Updates
<1>2. browser[p] \in Sound /\ elapsed \in 0 .. MaxFrames
  <2>1. browser[p] \in Sound /\ browser[p].replayProgress \in 0 .. MaxFrames
    BY DEF IInv, Sound, BrowserType
  <2> QED
    BY <2>1, Numbers
<1>3. \A q \in Players : Passive(browser[q], browser'[q])
  BY <1>1, <1>2, UpdatePassive, PassiveSame DEF IInv
<1> QED
  BY <1>3, TurnKept DEF Updates, server, network

LEMMA ReceiveTurn ==
    ASSUME IInv, NEW p \in Players, Receives(p), \A q \in Players : TurnOf(q)
    PROVE  \A q \in Players : TurnOf(q)'
<1>1. \A q \in Players \ {p} : TurnOf(q)'
  BY TurnKept, PassiveSame DEF Receives, IInv, Carried, server, network
<1>2. TurnOf(p)'
  <2> DEFINE v == browser[p]
             in == inbox[p]
             out == outbox[p]
             m == Head(in)
             w == Handled(p, v, m)
  <2>1. v \in Sound /\ in \in Seq(DownType) /\ in # <<>> /\ m \in DownType
    BY DEF IInv, Carried, Receives
  <2>2. /\ browser'[p] = w /\ inbox'[p] = Tail(in) /\ outbox'[p] = out
        /\ online' = online /\ currentPlayer' = currentPlayer
    BY DEF Receives, IInv, Carried, server, network
  <2>3. OneTurn(p, v, in, out) /\ online[p] /\ (HasTurn(p, v, in, out) => currentPlayer = p)
    BY DEF TurnOf
  <2>4. /\ Paired(Tail(in), p)
        /\ Grants(Tail(in), p) => Grants(in, p)
        /\ Grant(m, p) => Grants(in, p)
        /\ Grant(m, p) => \A i \in 1 .. Len(Tail(in)) :
                              Grant(Tail(in)[i], p) => i = 1 /\ Tail(in)[i].type = "turn"
        /\ m.type # "reconnected"
    BY <2>1, <2>3, TakenGrants DEF OneTurn
  <2>5. /\ Shows(w) => Shows(v)
        /\ w.isMyTurn => v.isMyTurn \/ Grant(m, p)
    BY <2>1, <2>4, HandledTurn
  <2> HIDE DEF w
  <2>6. HasTurn(p, w, Tail(in), out) => HasTurn(p, v, in, out)
    BY <2>4, <2>5 DEF HasTurn
  <2>7. w.isMyTurn => \A i \in 1 .. Len(Tail(in)) : Grant(Tail(in)[i], p) => i = 1 /\ Tail(in)[i].type = "turn"
    <3> SUFFICES ASSUME w.isMyTurn, ~Grant(m, p), NEW i \in 1 .. Len(Tail(in)), Grant(Tail(in)[i], p)
                 PROVE  FALSE
      BY <2>4
    <3>1. i + 1 \in 1 .. Len(in) /\ Grant(in[i + 1], p)
      BY <2>1, TailItems
    <3>2. i + 1 = 1
      BY <2>3, <2>5, <3>1 DEF OneTurn
    <3> QED
      BY <2>1, <3>2, TailItems
  <2>8. OneTurn(p, w, Tail(in), out)
    BY <2>3, <2>4, <2>5, <2>7 DEF OneTurn
  <2> QED
    BY <2>2, <2>3, <2>6, <2>8 DEF TurnOf
<1> QED
  BY <1>1, <1>2

LEMMA RelayTurn ==
    ASSUME IInv, NEW p \in Players, Relays(p), \A q \in Players : TurnOf(q)
    PROVE  \A q \in Players : TurnOf(q)'
<1> DEFINE m == Head(outbox[p])
           o == Opponent(p)
<1>1. outbox[p] \in Seq(UpType) /\ outbox[p] # <<>> /\ m \in StreamType
  BY TakesTyped, Kinds DEF IInv, Carried, Relays, Takes
<1>2. /\ \A q \in Players : outbox'[q] = IF q = p THEN Tail(outbox[p]) ELSE outbox[q]
      /\ browser' = browser /\ online' = online /\ currentPlayer' = currentPlayer
      /\ \A q \in Players : inbox'[q] = inbox[q] \/ inbox'[q] = inbox[q] \o One(m)
  BY DEF Relays, Takes, Delivers, IInv, Carried, Opponent, Players, server, network, One
<1> HIDE DEF m
<1> SUFFICES ASSUME NEW q \in Players PROVE TurnOf(q)'
  OBVIOUS
<1> DEFINE v == browser[q]
           in == inbox[q]
           out == outbox[q]
<1>3. /\ OneTurn(q, v, in, out) /\ online[q] /\ (HasTurn(q, v, in, out) => currentPlayer = q)
      /\ in \in Seq(DownType)
  BY DEF TurnOf, IInv, Carried
<1>4. /\ Paired(inbox'[q], q)
      /\ Grants(inbox'[q], q) => Grants(in, q)
      /\ \A i \in 1 .. Len(inbox'[q]) :
           Grant(inbox'[q][i], q) => i \in 1 .. Len(in) /\ Grant(in[i], q) /\ inbox'[q][i] = in[i]
  <2>1. CASE inbox'[q] = in
    BY <1>3, <2>1 DEF OneTurn
  <2>2. CASE inbox'[q] = in \o One(m)
    <3>1. Paired(in, q)
      BY <1>3 DEF OneTurn
    <3> QED
      BY <1>1, <1>3, <2>2, <3>1, SentOne
  <2> QED
    BY <1>2, <2>1, <2>2
<1>5. /\ Reports(outbox'[q]) => Reports(out)
      /\ \A i, j \in 1 .. Len(outbox'[q]) :
           outbox'[q][i].type = "shoot" /\ outbox'[q][j].type = "shoot" => i = j
  <2>1. CASE outbox'[q] = out
    BY <1>3, <2>1 DEF OneTurn
  <2>2. CASE q = p /\ outbox'[q] = Tail(out)
    <3>1. out \in Seq(UpType) /\ out # <<>>
      BY <1>1, <2>2
    <3>2. \A i, j \in 1 .. Len(out) : out[i].type = "shoot" /\ out[j].type = "shoot" => i = j
      BY <1>3 DEF OneTurn
    <3> QED
      BY <2>2, <3>1, <3>2, TakenReports
  <2> QED
    BY <1>2, <2>1, <2>2
<1>6. OneTurn(q, v, inbox'[q], outbox'[q])
  BY <1>3, <1>4, <1>5 DEF OneTurn
<1>7. HasTurn(q, v, inbox'[q], outbox'[q]) => HasTurn(q, v, in, out)
  BY <1>4, <1>5 DEF HasTurn
<1> QED
  BY <1>2, <1>3, <1>6, <1>7 DEF TurnOf

LEMMA AcceptTurn ==
    ASSUME IInv, NEW p \in Players, Accepts(p), \A q \in Players : TurnOf(q)
    PROVE  \A q \in Players : TurnOf(q)'
<1> DEFINE m == Head(outbox[p])
           result == [type |-> "shot_result", player |-> currentPlayer',
                      result |-> [balls |-> balls', pocketed |-> m.pocketed, shot |-> m.shot]]
           turn == [type |-> "turn", player |-> currentPlayer']
<1>1. outbox[p] \in Seq(UpType) /\ outbox[p] # <<>> /\ m \in ShootType /\ m.type = "shoot"
  BY TakesTyped, Kinds DEF IInv, Carried, Accepts, Takes
<1>2. currentPlayer = p /\ currentPlayer' \in Players /\ balls' \subseteq Balls
  BY <1>1 DEF Accepts, ShootType
<1>3. /\ result \in ShotResultType /\ turn \in TurnType
      /\ result.player = currentPlayer' /\ turn.player = currentPlayer'
  BY <1>1, <1>2 DEF ShotResultType, ResultType, TurnType, ShootType
<1>4. /\ \A q \in Players : outbox'[q] = IF q = p THEN Tail(outbox[p]) ELSE outbox[q]
      /\ browser' = browser /\ online' = online
      /\ inbox' = [q \in Players |-> Delivers(q, Two(result, turn))]
  BY DEF Accepts, Takes, IInv, Carried, network, Two
<1> HIDE DEF m, result, turn
<1> SUFFICES ASSUME NEW q \in Players PROVE TurnOf(q)'
  OBVIOUS
<1> DEFINE v == browser[q]
           in == inbox[q]
           out == outbox[q]
<1>5. /\ OneTurn(q, v, in, out) /\ online[q] /\ (HasTurn(q, v, in, out) => currentPlayer = q)
      /\ in \in Seq(DownType)
  BY DEF TurnOf, IInv, Carried
<1>6. inbox'[q] = in \o Two(result, turn)
  BY <1>4, <1>5 DEF Delivers
<1>7. ~v.isMyTurn /\ ~Shows(v) /\ ~Grants(in, q) /\ ~Reports(outbox'[q])
  <2>1. CASE q = p
    <3>1. Reports(out) /\ ~Reports(Tail(out))
      BY <1>1, <1>5, <2>1, TakenReports DEF OneTurn, m
    <3> QED
      BY <1>4, <1>5, <2>1, <3>1 DEF OneTurn
  <2>2. CASE q # p
    BY <1>2, <1>4, <1>5, <2>2 DEF HasTurn
  <2> QED
    BY <2>1, <2>2
<1>8. /\ Paired(inbox'[q], q)
      /\ currentPlayer' # q => ~Grants(inbox'[q], q)
  BY <1>3, <1>5, <1>6, <1>7, SentResult DEF OneTurn
<1>9. OneTurn(q, v, inbox'[q], outbox'[q])
  BY <1>7, <1>8 DEF OneTurn, Reports
<1>10. HasTurn(q, v, inbox'[q], outbox'[q]) => currentPlayer' = q
  BY <1>7, <1>8 DEF HasTurn
<1> QED
  BY <1>4, <1>5, <1>9, <1>10 DEF TurnOf

(* The player whose report is next has the turn: it is not refused. *)
LEMMA NoReject ==
    ASSUME IInv, NEW p \in Players, TurnOf(p)
    PROVE  ~Rejects(p)
<1> SUFFICES ASSUME Rejects(p) PROVE FALSE
  OBVIOUS
<1>1. outbox[p] \in Seq(UpType) /\ outbox[p] # <<>>
  BY DEF IInv, Carried, Rejects, Takes
<1>2. Reports(outbox[p])
  BY <1>1, TailItems DEF Reports, Rejects
<1> QED
  BY <1>2 DEF TurnOf, HasTurn, Rejects

LEMMA InitTurns == Init => Turns
<1> SUFFICES ASSUME Init, NEW p \in Players PROVE TurnOf(p)
  BY DEF Turns, TurnOf
<1>1. inbox[p] = <<>> /\ outbox[p] = <<>> /\ online[p] /\ currentPlayer = 1
  BY DEF Init
<1>2. (browser[p].isMyTurn <=> p = 1) /\ browser[p].isSimulating = FALSE
  BY DEF Init
<1> QED
  BY <1>1, <1>2 DEF TurnOf, HasTurn, OneTurn, Shows, Reports, Grants, Paired

LEMMA NextTurns == ~Hasty /\ IInv /\ Turns /\ [Next]_vars => Turns'
<1> SUFFICES ASSUME ~Hasty, IInv, Turns, [Next]_vars, drops' = 0
             PROVE  \A q \in Players : TurnOf(q)'
  BY DEF Turns, TurnOf
<1>1. CASE UNCHANGED vars
  BY <1>1 DEF Turns, TurnOf, vars, server, network
<1>2. ASSUME NEW p \in Players, LosesSocket(p)
      PROVE  FALSE
  BY <1>2 DEF LosesSocket, IInv, TypeOK
<1>3. ASSUME NEW p \in Players, Reconnects(p) \/ drops' = drops
      PROVE  \A q \in Players : TurnOf(q)
  BY <1>3 DEF Turns, TurnOf, Reconnects
<1>4. ASSUME NEW p \in Players, Reconnects(p)
      PROVE  FALSE
  BY <1>3, <1>4 DEF TurnOf, Reconnects
<1>5. ASSUME NEW p \in Players,
             ExecutesShot(p) \/ Simulates(p) \/ Updates(p) \/ Receives(p) \/ Serves(p)
      PROVE  \A q \in Players : TurnOf(q)'
  <2>1. drops' = drops
    BY <1>5 DEF ExecutesShot, Simulates, SimulatesFrame, Settles, Updates, Receives, Serves,
                Relays, Accepts, Rejects, network
  <2>2. \A q \in Players : TurnOf(q)
    BY <1>3, <2>1
  <2> QED
    BY <1>5, <2>2, ShootTurn, SimulateTurn, SettleTurn, UpdateTurn, ReceiveTurn, RelayTurn, AcceptTurn,
       NoReject DEF Simulates, Serves
<1> QED
  BY <1>1, <1>2, <1>4, <1>5 DEF Next

--------------------------------------------------------------------------------
(* The theorems. *)

(* The inductive invariant holds whatever browsers, server and sockets do. *)
THEOREM Invariant == Spec => []IInv
<1> QED
  BY InitInvariant, NextInvariant, PTL DEF Spec

(* Browsers, server and what is under way between them have their types. *)
THEOREM TypeCorrect == Spec => []TypeOK
<1>1. IInv => TypeOK
  BY DEF IInv
<1> QED
  BY <1>1, Invariant, PTL

(* Whatever shots, frames, results and lost sockets come in whatever order,  *)
(* balls are static exactly while a shot of the opponent is awaited or       *)
(* replayed, and a result is kept back only then.                            *)
THEOREM FlagsAlwaysAgree == Spec => []FlagsAgree
<1>1. IInv => FlagsAgree
  BY DEF IInv, Sound, Agrees, FlagsAgree
<1> QED
  BY <1>1, Invariant, PTL

(* While the sockets stay up, and if nobody shoots between a result and the   *)
(* your_turn right behind it, the server refuses no report, however long      *)
(* replays take and messages wait.                                            *)
THEOREM ReportsAccepted == Spec => (~Hasty => NoReportRefused)
<1> SUFFICES ASSUME ~Hasty PROVE Spec => NoReportRefused
  OBVIOUS
<1>1. IInv /\ Turns /\ [Next]_vars => Turns'
  BY NextTurns
<1>2. IInv /\ Turns => (drops = 0 => \A p \in Players : ~Rejects(p))
  BY NoReject DEF Turns, TurnOf
<1>3. Spec => [](IInv /\ Turns)
  BY <1>1, InitInvariant, InitTurns, NextInvariant, PTL DEF Spec
<1> QED
  BY <1>2, <1>3, PTL DEF NoReportRefused
================================================================================
