------------------------------ MODULE WatchProofs ------------------------------
(***************************************************************************)
(* Proofs about Replay, for any numbers of shots, frames and lost sockets: *)
(* a browser is left waiting for a shot only by its own socket.            *)
(***************************************************************************)
EXTENDS ReplayProofs

--------------------------------------------------------------------------------
(* The inductive invariant. *)

(* A browser awaits the result of a shot it watches, ...                     *)
Waits(v) == v.isSimulating /\ ~v.isLocalShot /\ v.pending = NoResult

(* ... or will, once it has handled its queue up to message i (0: already).  *)
Opened(v, in, i) == IF i = 0 THEN Waits(v) ELSE in[i].type = "shot_init"

(* It has a frame of that shot by message n, *)
Fed(v, in, i, n) ==
    \/ i = 0 /\ v.trajectoryFrames # <<>>
    \/ \E k \in i + 1 .. n : in[k].type = "shot_chunk"

(* and a result comes after it. *)
Answered(in, i) == \E j \in i + 1 .. Len(in) : in[j].type = "shot_result"

Reporting(out) == out # <<>> /\ Head(out).type = "shoot"

(* One wait of the browser v with queue in, whose opponent sends out and is  *)
(* to move if theirs: the result is there or the opponent still has to       *)
(* report, and no result overtakes the frames.                               *)
Watch(v, in, out, theirs, i) ==
    /\ Answered(in, i) \/ theirs
    /\ \A j \in i + 1 .. Len(in) : in[j].type = "shot_result" => Fed(v, in, i, j - 1)
    /\ Reporting(out) => Answered(in, i) \/ Fed(v, in, i, Len(in))

Watches(v, in, out, theirs) ==
    \A i \in 0 .. Len(in) : Opened(v, in, i) => Watch(v, in, out, theirs, i)

(* A result that is kept back has frames to replay. *)
Replayable(v) == v.remotePlayback /\ v.pending # NoResult => v.trajectoryFrames # <<>>

(* A report has a frame right before it. *)
Framed(out) == \A k \in 2 .. Len(out) : out[k].type = "shoot" => out[k - 1].type = "shot_chunk"

WatchOf(p) ==
    /\ ~online[p] => inbox[p] = <<>> /\ outbox[p] = <<>>
    /\ Framed(outbox[p])
    /\ p \notin cutOff =>
         /\ ~online[p] => ~Waits(browser[p])
         /\ Watches(browser[p], inbox[p], outbox[Opponent(p)], currentPlayer # p)
         /\ Replayable(browser[p])

WInv == \A p \in Players : WatchOf(p)

--------------------------------------------------------------------------------
(* The steps keep it. *)

(* What a step may do to a browser without opening a wait. *)
Unopened(v, w) ==
    /\ Waits(w) => Waits(v) /\ w.trajectoryFrames = v.trajectoryFrames
    /\ Replayable(v) => Replayable(w)

(* More of the opponent's messages are under way. *)
Quieter(out, next) == Reporting(next) => Reporting(out)

LEMMA WatchesKept ==
    ASSUME NEW v, NEW w, NEW in, NEW out, NEW next, NEW theirs, Watches(v, in, out, theirs),
           Unopened(v, w), Quieter(out, next)
    PROVE  Watches(w, in, next, theirs)
<1> SUFFICES ASSUME NEW i \in 0 .. Len(in), Opened(w, in, i) PROVE Watch(w, in, next, theirs, i)
  BY DEF Watches
<1>1. Opened(v, in, i) /\ \A n : Fed(v, in, i, n) => Fed(w, in, i, n)
  BY DEF Opened, Unopened, Fed
<1>2. Watch(v, in, out, theirs, i)
  BY <1>1 DEF Watches
<1> QED
  BY <1>1, <1>2 DEF Watch, Quieter

(* A step that takes nothing from the queue to player p, nor from the        *)
(* opponent's. *)
LEMMA WatchKept ==
    ASSUME NEW p \in Players, WatchOf(p), online' = online, cutOff' = cutOff,
           (currentPlayer' # p) = (currentPlayer # p),
           inbox'[p] = inbox[p], Unopened(browser[p], browser'[p]),
           Quieter(outbox[Opponent(p)], outbox'[Opponent(p)]),
           Framed(outbox'[p]), ~online[p] => outbox'[p] = outbox[p]
    PROVE  WatchOf(p)'
<1>1. p \notin cutOff => Watches(browser'[p], inbox[p], outbox'[Opponent(p)], currentPlayer # p)
  BY WatchesKept DEF WatchOf
<1>2. p \notin cutOff =>
        Watches(browser'[p], inbox'[p], outbox'[Opponent(p)], currentPlayer' # p)
  BY <1>1
<1> QED
  BY <1>2 DEF WatchOf, Unopened

LEMMA UnopenedSame == \A v : Unopened(v, v)
BY DEF Unopened

LEMMA QuieterSame == \A out : Quieter(out, out)
BY DEF Quieter

(* What is sent last: one message that is no report, or two of which only    *)
(* the second may be, right behind a frame.                                  *)
LEMMA SentFramed ==
    ASSUME NEW out \in Seq(UpType), NEW a \in UpType, NEW b \in UpType, Framed(out),
           a.type # "shoot", b.type = "shoot" => a.type = "shot_chunk"
    PROVE  /\ Framed(out \o One(a)) /\ Quieter(out, out \o One(a))
           /\ Framed(out \o Two(a, b)) /\ Quieter(out, out \o Two(a, b))
<1>1. /\ Len(out) \in Nat /\ Len(out \o One(a)) = Len(out) + 1
      /\ \A i \in 1 .. Len(out) : (out \o One(a))[i] = out[i]
      /\ (out \o One(a))[Len(out) + 1] = a
  BY OneItem
<1>2. /\ Len(out \o Two(a, b)) = Len(out) + 2
      /\ \A i \in 1 .. Len(out) : (out \o Two(a, b))[i] = out[i]
      /\ (out \o Two(a, b))[Len(out) + 1] = a /\ (out \o Two(a, b))[Len(out) + 2] = b
  BY TwoItems
<1>3. /\ out \o One(a) \in Seq(UpType) /\ out \o Two(a, b) \in Seq(UpType)
  BY DEF One, Two
<1>4. Framed(out \o One(a))
  BY <1>1 DEF Framed
<1>5. Framed(out \o Two(a, b))
  BY <1>2, <1>1 DEF Framed
<1>6. ASSUME NEW s \in Seq(UpType), Len(s) > Len(out), \A i \in 1 .. Len(out) : s[i] = out[i],
             s[Len(out) + 1] = a
      PROVE  Quieter(out, s)
  <2>1. s # <<>> /\ Head(s) = s[1]
    BY <1>1, <1>6
  <2>2. CASE out = <<>>
    BY <1>6, <2>1, <2>2 DEF Quieter, Reporting
  <2>3. CASE out # <<>>
    <3>1. 1 \in 1 .. Len(out) /\ Head(out) = out[1]
      BY <2>3, TailItems
    <3> QED
      BY <1>6, <2>1, <2>3, <3>1 DEF Quieter, Reporting
  <2> QED
    BY <2>2, <2>3
<1>7. Quieter(out, out \o One(a))
  <2>1. Len(out \o One(a)) > Len(out)
    BY <1>1
  <2> QED
    BY <1>1, <1>3, <1>6, <2>1
<1>8. Quieter(out, out \o Two(a, b))
  <2>1. Len(out \o Two(a, b)) > Len(out)
    BY <1>1, <1>2
  <2> QED
    BY <1>2, <1>3, <1>6, <2>1
<1> QED
  BY <1>4, <1>5, <1>7, <1>8

(* A browser is sent from, its opponent's waits are what they were. *)
LEMMA WatchSent ==
    ASSUME IInv, NEW p \in Players, \A q \in Players : WatchOf(q),
           NEW v, browser' = [browser EXCEPT ![p] = v], Unopened(browser[p], v),
           NEW ms \in Seq(UpType), Sends(p, ms),
           Framed(outbox[p]) => Framed(outbox[p] \o ms) /\ Quieter(outbox[p], outbox[p] \o ms),
           UNCHANGED <<server, inbox, network>>
    PROVE  \A q \in Players : WatchOf(q)'
<1> SUFFICES ASSUME NEW q \in Players PROVE WatchOf(q)'
  OBVIOUS
<1>1. online' = online /\ cutOff' = cutOff /\ currentPlayer' = currentPlayer /\ inbox' = inbox
  BY DEF server, network
<1>2. Unopened(browser[q], browser'[q])
  BY UnopenedSame DEF IInv
<1>3. \A r \in Players : outbox'[r] = outbox[r] \/ (r = p /\ online[p] /\ outbox'[r] = outbox[r] \o ms)
  BY DEF Sends, IInv, Carried
<1>4. Opponent(q) \in Players
  BY DEF Players, Opponent
<1>5. Framed(outbox[q]) /\ Framed(outbox[p])
  BY DEF WatchOf
<1>6. Framed(outbox'[q]) /\ (~online[q] => outbox'[q] = outbox[q])
  BY <1>3, <1>5
<1>7. Quieter(outbox[Opponent(q)], outbox'[Opponent(q)])
  BY <1>3, <1>4, <1>5, QuieterSame
<1> QED
  BY <1>1, <1>2, <1>6, <1>7, WatchKept

LEMMA ShootWatch ==
    ASSUME IInv, NEW p \in Players, ExecutesShot(p), \A q \in Players : WatchOf(q)
    PROVE  \A q \in Players : WatchOf(q)'
<1> DEFINE v == browser[p]
           w == Shooting(v, shots + 1)
           init == [type |-> "shot_init", balls |-> v.table, layout |-> v.layout]
           aim == [type |-> "aim_chunk"]
<1>1. v \in BrowserType /\ Agrees(v) /\ ~v.isSimulating
  BY DEF IInv, Sound, ExecutesShot, MayShoot
<1>2. w.isLocalShot = TRUE /\ w.remotePlayback = v.remotePlayback
  BY <1>1 DEF Shooting, BrowserType
<1>3. Unopened(v, w)
  BY <1>1, <1>2 DEF Unopened, Waits, Replayable, Agrees
<1>4. init \in UpType /\ aim \in UpType
  BY <1>1 DEF UpType, StreamType, InitType, AimType, BrowserType
<1>5. Sends(p, Two(aim, init)) /\ browser' = [browser EXCEPT ![p] = w]
  BY DEF ExecutesShot, Two
<1>6. init.type # "shoot" /\ aim.type # "shoot"
  OBVIOUS
<1> HIDE DEF init, aim, w
<1>7. Two(aim, init) \in Seq(UpType) /\ outbox[p] \in Seq(UpType)
  BY <1>4 DEF IInv, Carried, Two
<1>8. Framed(outbox[p]) =>
        Framed(outbox[p] \o Two(aim, init)) /\ Quieter(outbox[p], outbox[p] \o Two(aim, init))
  BY <1>4, <1>6, <1>7, SentFramed
<1> QED
  BY <1>3, <1>5, <1>7, <1>8, WatchSent DEF ExecutesShot

(* A browser that simulates its own shot opens no wait. *)
LEMMA LocalUnopened ==
    ASSUME NEW v, NEW w, v.isLocalShot, w.isLocalShot, Agrees(w)
    PROVE  Unopened(v, w)
BY DEF Unopened, Waits, Replayable, Agrees

LEMMA SimulateWatch ==
    ASSUME IInv, NEW p \in Players, SimulatesFrame(p), \A q \in Players : WatchOf(q)
    PROVE  \A q \in Players : WatchOf(q)'
<1> DEFINE v == browser[p]
<1>1. v \in Sound /\ v.isLocalShot /\ v.isSimulating
  BY DEF IInv, SimulatesFrame
<1>2. PICK dropped \in SUBSET v.table :
        /\ browser' = [browser EXCEPT ![p] = Record(Drop(v, dropped))]
        /\ Sends(p, One(Chunk(Record(Drop(v, dropped)))))
  BY DEF SimulatesFrame, One
<1> DEFINE d == Drop(v, dropped)
           w == Record(d)
<1>3. d \in Sound /\ d.isSimulating /\ d.isLocalShot
  BY <1>1, DropSound
<1>4. w \in BrowserType /\ Agrees(w) /\ w.isLocalShot /\ w.recorded \in 1 .. MaxFrames
  BY <1>3, RecordTyped
<1> HIDE DEF w
<1>5. Unopened(v, w)
  BY <1>1, <1>4, LocalUnopened
<1>6. Chunk(w) \in UpType /\ Chunk(w).type # "shoot"
  BY <1>4, ChunkTyped DEF Chunk
<1>7. One(Chunk(w)) \in Seq(UpType) /\ outbox[p] \in Seq(UpType)
  BY <1>6 DEF IInv, Carried, One
<1>8. Framed(outbox[p]) =>
        Framed(outbox[p] \o One(Chunk(w))) /\ Quieter(outbox[p], outbox[p] \o One(Chunk(w)))
  BY <1>6, <1>7, SentFramed
<1> QED
  BY <1>2, <1>5, <1>7, <1>8, WatchSent DEF SimulatesFrame, w

LEMMA SettleWatch ==
    ASSUME IInv, NEW p \in Players, Settles(p), \A q \in Players : WatchOf(q)
    PROVE  \A q \in Players : WatchOf(q)'
<1> DEFINE u == browser[p]
           v(dropped, late) == Record(Drop(u, dropped \ late))
           w(dropped, late) == [Drop(v(dropped, late), late) EXCEPT
                                  !.isSimulating = FALSE, !.layout = v(dropped, late).shot]
           report(b) == [type |-> "shoot", balls |-> b.table, pocketed |-> b.pocketedBalls, shot |-> b.shot]
<1>1. u \in Sound /\ u.isLocalShot /\ u.isSimulating
  BY DEF IInv, Settles
<1>2. PICK dropped \in SUBSET u.table : \E late \in SUBSET dropped :
        /\ browser' = [browser EXCEPT ![p] = w(dropped, late)]
        /\ Sends(p, Two(Chunk(v(dropped, late)), report(w(dropped, late))))
  BY DEF Settles, Two
<1>3. PICK late \in SUBSET dropped :
        /\ browser' = [browser EXCEPT ![p] = w(dropped, late)]
        /\ Sends(p, Two(Chunk(v(dropped, late)), report(w(dropped, late))))
  BY <1>2
<1> DEFINE d == Drop(u, dropped \ late)
           r == Record(d)
           l == Drop(r, late)
           x == [l EXCEPT !.isSimulating = FALSE, !.layout = r.shot]
<1>4. d \in Sound /\ d.isSimulating /\ d.isLocalShot /\ d.table = u.table \ (dropped \ late)
  BY <1>1, DropSound
<1> HIDE DEF d
<1>5. /\ r \in BrowserType /\ Agrees(r) /\ r.isSimulating = TRUE /\ r.isLocalShot = TRUE
      /\ r.shot \in 1 .. MaxShots /\ r.recorded \in 1 .. MaxFrames /\ r.table = d.table
  BY <1>4, RecordTyped
<1> HIDE DEF r
<1>6. /\ x \in Sound /\ x.shot \in 1 .. MaxShots
      /\ x.table \in SUBSET Balls /\ x.pocketedBalls \in SUBSET Balls
  BY <1>4, <1>5, SettledSound
<1>7. x.isLocalShot = r.isLocalShot
  <2>1. l = [r EXCEPT !.table = r.table \ late, !.pocketedBalls = r.pocketedBalls \cup late]
    BY <1>5 DEF Drop, BrowserType
  <2>2. l.isLocalShot = r.isLocalShot /\ "isLocalShot" \in DOMAIN l
    BY <1>5, <2>1 DEF BrowserType
  <2> HIDE DEF l
  <2> QED
    BY <2>2
<1>8. Chunk(r) \in UpType /\ report(x) \in UpType /\ Chunk(r).type = "shot_chunk"
  BY <1>5, <1>6, ChunkTyped DEF UpType, ShootType, Chunk
<1>9. browser' = [browser EXCEPT ![p] = x] /\ Sends(p, Two(Chunk(r), report(x)))
  BY <1>3 DEF r, d
<1> HIDE DEF x, report
<1>10. Unopened(u, x)
  BY <1>1, <1>5, <1>6, <1>7, LocalUnopened DEF Sound
<1>11. Two(Chunk(r), report(x)) \in Seq(UpType) /\ outbox[p] \in Seq(UpType)
  BY <1>8 DEF IInv, Carried, Two
<1>12. Framed(outbox[p]) =>
         /\ Framed(outbox[p] \o Two(Chunk(r), report(x)))
         /\ Quieter(outbox[p], outbox[p] \o Two(Chunk(r), report(x)))
  BY <1>8, <1>11, SentFramed
<1> QED
  BY <1>9, <1>10, <1>11, <1>12, WatchSent DEF Settles

(* The operators of the renderer leave a wait as it is, or end it. *)
SameWait(v, w) ==
    /\ w.isSimulating = v.isSimulating /\ w.isLocalShot = v.isLocalShot
    /\ w.pending = v.pending /\ w.trajectoryFrames = v.trajectoryFrames
    /\ w.remotePlayback = v.remotePlayback

LEMMA SameUnopened == \A v, w : SameWait(v, w) => Unopened(v, w)
BY DEF SameWait, Unopened, Waits, Replayable

LEMMA StartSame ==
    ASSUME NEW v \in BrowserType
    PROVE  SameWait(v, StartRemoteReplay(v))
<1>1. CASE v.remotePlayback /\ ~v.replayActive /\ v.trajectoryFrames # <<>>
  BY <1>1 DEF StartRemoteReplay, BrowserType, SameWait
<1>2. CASE ~(v.remotePlayback /\ ~v.replayActive /\ v.trajectoryFrames # <<>>)
  BY <1>2 DEF StartRemoteReplay, BrowserType, SameWait
<1> QED
  BY <1>1, <1>2

LEMMA AdvanceSame ==
    ASSUME NEW v \in BrowserType, NEW elapsed \in 0 .. MaxFrames, NEW aims \in BOOLEAN
    PROVE  SameWait(v, Advances(v, elapsed, aims))
<1> DEFINE u == UpdateRemotePlayback(v, elapsed)
<1>1. u \in BrowserType /\ SameWait(v, u)
  BY UpdateTyped DEF SameWait
<1>2. Advances(v, elapsed, aims) = [u EXCEPT !.aimReplayActive = u.aimReplayActive /\ aims]
  BY DEF Advances
<1> HIDE DEF u
<1> QED
  BY <1>1, <1>2 DEF SameWait, BrowserType

LEMMA FinishUnopened ==
    ASSUME NEW v \in Sound, v.pending # NoResult
    PROVE  LET w == FinishRemoteShotVisual(v)
           IN  w.isSimulating = FALSE /\ w.remotePlayback = FALSE
<1> DEFINE e == EndRemotePlayback(v)
           a == ApplyResult(e, v.pending)
           w == FinishRemoteShotVisual(v)
<1>1. v \in BrowserType /\ v.pending \in ResultType
  BY DEF Sound, BrowserType
<1>2. e \in BrowserType /\ e.remotePlayback = FALSE
  BY EndTyped
<1>3. a \in BrowserType /\ a.remotePlayback = FALSE
  BY <1>1, <1>2, ApplyTyped
<1>4. w = [a EXCEPT !.pending = NoResult, !.isSimulating = FALSE,
                    !.aimSamples = FALSE, !.aimReplayActive = FALSE]
  BY DEF FinishRemoteShotVisual
<1> HIDE DEF a, w
<1>5. w.remotePlayback = FALSE /\ w.isSimulating = FALSE
  BY <1>3, <1>4 DEF BrowserType
<1> QED
  BY <1>5 DEF w

LEMMA UpdateUnopened ==
    ASSUME NEW v \in Sound, NEW elapsed \in 0 .. MaxFrames, NEW aims \in BOOLEAN
    PROVE  Unopened(v, GivesWay(StartsLate(Advances(v, elapsed, aims))))
<1> DEFINE a == Advances(v, elapsed, aims)
           s == StartsLate(a)
<1>1. a \in Sound /\ SameWait(v, a)
  BY AdvanceSound, AdvanceSame DEF Sound
<1> HIDE DEF a
<1>2. s \in Sound /\ SameWait(a, s)
  <2>1. a \in BrowserType
    BY <1>1 DEF Sound
  <2> QED
    BY <1>1, <2>1, StartSound, StartSame DEF StartsLate, SameWait
<1>3. SameWait(v, s)
  BY <1>1, <1>2 DEF SameWait
<1> HIDE DEF s
<1>4. CASE s.pending # NoResult /\ s.replayActive /\ s.replayFinished
  <2> DEFINE w == FinishRemoteShotVisual(s)
  <2>1. w.isSimulating = FALSE /\ w.remotePlayback = FALSE
    BY <1>2, <1>4, FinishUnopened
  <2> HIDE DEF w
  <2>2. Unopened(v, w)
    BY <2>1 DEF Unopened, Waits, Replayable
  <2> QED
    BY <1>4, <2>2 DEF GivesWay, s, a, w
<1>5. CASE ~(s.pending # NoResult /\ s.replayActive /\ s.replayFinished)
  BY <1>3, <1>5, SameUnopened DEF GivesWay, s, a
<1> QED
  BY <1>4, <1>5

LEMMA UpdateWatch ==
    ASSUME IInv, NEW p \in Players, Updates(p), \A q \in Players : WatchOf(q)
    PROVE  \A q \in Players : WatchOf(q)'
<1>1. PICK elapsed \in browser[p].replayProgress .. MaxFrames, aims \in BOOLEAN :
        browser' = [browser EXCEPT ![p] = GivesWay(StartsLate(Advances(browser[p], elapsed, aims)))]
  BY DEF Updates
<1>2. browser[p] \in Sound /\ elapsed \in 0 .. MaxFrames
  <2>1. browser[p] \in Sound /\ browser[p].replayProgress \in 0 .. MaxFrames
    BY DEF IInv, Sound, BrowserType
  <2> QED
    BY <2>1, Numbers
<1> SUFFICES ASSUME NEW q \in Players PROVE WatchOf(q)'
  OBVIOUS
<1>3. Unopened(browser[q], browser'[q])
  BY <1>1, <1>2, UpdateUnopened, UnopenedSame DEF IInv
<1>4. /\ online' = online /\ cutOff' = cutOff /\ currentPlayer' = currentPlayer
      /\ inbox' = inbox /\ outbox' = outbox
  BY DEF Updates, server, network
<1>5. Framed(outbox'[q]) /\ Quieter(outbox[Opponent(q)], outbox'[Opponent(q)])
  BY <1>4, QuieterSame DEF WatchOf
<1> QED
  BY <1>3, <1>4, <1>5, WatchKept

(* What a handler makes of a wait: it goes on, unless the result is there,    *)
(* and remembers a frame; or it starts with the announcement.                 *)
LEMMA HandledWait ==
    ASSUME NEW p \in Players, NEW v \in Sound, NEW m \in DownType
    PROVE  LET w == Handled(p, v, m)
           IN  /\ Waits(w) => \/ /\ Waits(v) /\ m.type # "shot_result"
                                 /\ v.trajectoryFrames # <<>> => w.trajectoryFrames # <<>>
                                 /\ m.type = "shot_chunk" => w.trajectoryFrames # <<>>
                              \/ m.type = "shot_init"
               /\ w.remotePlayback /\ w.pending # NoResult =>
                    /\ v.remotePlayback /\ (v.pending = NoResult => m.type = "shot_result")
                    /\ v.trajectoryFrames # <<>> => w.trajectoryFrames # <<>>
               /\ m.type = "shot_result" => ~Waits(w)
<1> DEFINE w == Handled(p, v, m)
<1>1. v \in BrowserType /\ Agrees(v)
  BY DEF Sound
<1>2. CASE m.type = "aim_chunk"
  <2>1. w \in {v, [v EXCEPT !.aimSamples = TRUE]}
    BY <1>2 DEF Handled, OnAimChunk
  <2>2. SameWait(v, w)
    BY <1>1, <2>1 DEF SameWait, BrowserType
  <2> HIDE DEF w
  <2>3. QED
    BY <1>2, <2>2 DEF SameWait, Waits, w
<1>3. CASE m.type = "shot_init"
  <2>1. w = PlayOpponentShot(v, m)
    BY <1>3 DEF Handled
  <2>2. CASE v.isSimulating
    BY <1>3, <2>1, <2>2 DEF PlayOpponentShot
  <2>3. CASE ~v.isSimulating
    <3> DEFINE b == BeginRemotePlayback(v)
    <3>1. b \in BrowserType
      BY <1>1, BeginTyped
    <3>2. PlayOpponentShot(v, m) =
            [b EXCEPT !.isSimulating = TRUE, !.isLocalShot = FALSE, !.isMyTurn = FALSE,
                      !.pocketedBalls = {}, !.layout = m.layout,
                      !.remoteShotReplayStarted = FALSE, !.pending = NoResult,
                      !.aimReplayActive = v.aimSamples]
      BY <2>3 DEF PlayOpponentShot
    <3> HIDE DEF b
    <3>3. w.pending = NoResult
      BY <2>1, <3>1, <3>2 DEF BrowserType
    <3> HIDE DEF w
    <3> QED
      BY <1>3, <3>3 DEF w
  <2> QED
    BY <2>2, <2>3
<1>4. CASE m.type = "shot_chunk"
  <2>1. w = OnShotChunk(v, m)
    BY <1>4 DEF Handled
  <2>2. CASE v.isLocalShot \/ ~v.isSimulating \/ ~v.remotePlayback
    <3>1. w = v
      BY <2>1, <2>2 DEF OnShotChunk
    <3>2. ~Waits(v)
      BY <1>1, <2>2 DEF Waits, Agrees
    <3> HIDE DEF w
    <3> QED
      BY <1>4, <3>1, <3>2 DEF w
  <2>3. CASE ~(v.isLocalShot \/ ~v.isSimulating \/ ~v.remotePlayback)
    <3>1. w = [v EXCEPT !.trajectoryFrames = Append(v.trajectoryFrames, m.frame)]
      BY <1>1, <2>1, <2>3 DEF OnShotChunk, BrowserType
    <3>2. Append(v.trajectoryFrames, m.frame) # <<>>
      BY <1>1, <1>4, Kinds DEF BrowserType, ChunkType
    <3>3. /\ w.isSimulating = v.isSimulating /\ w.isLocalShot = v.isLocalShot
          /\ w.pending = v.pending /\ w.trajectoryFrames # <<>>
          /\ w.remotePlayback = v.remotePlayback
      BY <1>1, <3>1, <3>2 DEF BrowserType
    <3> HIDE DEF w
    <3> QED
      BY <1>4, <3>3 DEF w, Waits
  <2> QED
    BY <2>2, <2>3
<1>5. CASE m.type = "shot_result"
  <2> DEFINE r == [v EXCEPT !.pending = m.result]
             kept == StartRemoteReplay(r)
             a == ApplyResult(v, m.result)
             applied == [a EXCEPT !.isSimulating = FALSE]
             shown == IF v.isSimulating /\ ~v.isLocalShot THEN kept ELSE applied
  <2>1. m.result \in ResultType /\ m.result # NoResult
    BY <1>5, Kinds, ReplayAssumption DEF ShotResultType
  <2>2. w = [shown EXCEPT !.isMyTurn = (m.player = p)]
    BY <1>5 DEF Handled, AnimateShotResult
  <2>3. CASE v.isSimulating /\ ~v.isLocalShot
    <3>1. r \in BrowserType
      BY <1>1, <2>1, Zenon DEF BrowserType
    <3>2. r.pending # NoResult /\ r.trajectoryFrames = v.trajectoryFrames
      BY <1>1, <2>1 DEF BrowserType
    <3>3. r \in Sound
      <4>1. /\ r.isSimulating = v.isSimulating /\ r.isLocalShot = v.isLocalShot
            /\ r.shot = v.shot /\ r.recorded = v.recorded
            /\ r.remotePlayback = v.remotePlayback
            /\ r.replayActive = v.replayActive /\ r.trajectoryFrames = v.trajectoryFrames
        BY <1>1 DEF BrowserType
      <4> HIDE DEF r
      <4>2. Reportable(r) /\ Agrees(r)
        BY <1>1, <2>3, <4>1 DEF Reportable, Agrees, Sound
      <4> QED
        BY <3>1, <4>2 DEF Sound
    <3> HIDE DEF r
    <3>4. kept \in BrowserType /\ kept.pending # NoResult /\ kept.trajectoryFrames = v.trajectoryFrames
      BY <3>1, <3>2, <3>3, StartSound, StartSame DEF SameWait, Sound
    <3>5. v.remotePlayback
      BY <1>1, <2>3 DEF Agrees
    <3>6. w = [kept EXCEPT !.isMyTurn = (m.player = p)]
      BY <2>2, <2>3
    <3> HIDE DEF kept, w
    <3>7. w.pending # NoResult /\ w.trajectoryFrames = v.trajectoryFrames
      BY <3>4, <3>6 DEF BrowserType
    <3> QED
      BY <1>5, <3>5, <3>7 DEF w, Waits
  <2>4. CASE ~(v.isSimulating /\ ~v.isLocalShot)
    <3>1. a \in BrowserType /\ a.remotePlayback = v.remotePlayback
      BY <1>1, <2>1, ApplyTyped
    <3> HIDE DEF a
    <3>2. w = [applied EXCEPT !.isMyTurn = (m.player = p)]
      BY <2>2, <2>4
    <3>3. applied \in BrowserType /\ applied.isSimulating = FALSE /\ applied.remotePlayback = a.remotePlayback
      BY <3>1, Zenon DEF BrowserType
    <3> HIDE DEF applied, w
    <3>4. w.isSimulating = FALSE /\ w.remotePlayback = v.remotePlayback
      BY <3>1, <3>2, <3>3 DEF BrowserType
    <3>5. ~v.remotePlayback
      BY <1>1, <2>4 DEF Agrees
    <3> QED
      BY <1>5, <3>4, <3>5 DEF w, Waits
  <2> QED
    BY <2>3, <2>4
<1>6. CASE m.type = "turn"
  <2>1. w = [v EXCEPT !.isMyTurn = (m.player = p)]
    BY <1>6 DEF Handled
  <2>2. SameWait(v, w)
    BY <1>1, <2>1 DEF SameWait, BrowserType
  <2> HIDE DEF w
  <2> QED
    BY <1>6, <2>2 DEF SameWait, Waits, w
<1>7. CASE m.type = "reconnected"
  <2>1. w = [v EXCEPT !.isMyTurn = (m.player = p), !.layout = m.layout]
    BY <1>7 DEF Handled
  <2>2. SameWait(v, w)
    BY <1>1, <2>1 DEF SameWait, BrowserType
  <2> HIDE DEF w
  <2> QED
    BY <1>7, <2>2 DEF SameWait, Waits, w
<1> QED
  BY <1>2, <1>3, <1>4, <1>5, <1>6, <1>7, Kinds

(* The first message is handled. *)
LEMMA WatchesTaken ==
    ASSUME NEW p \in Players, NEW v \in Sound, NEW in \in Seq(DownType), in # <<>>,
           NEW out, NEW theirs, Watches(v, in, out, theirs)
    PROVE  Watches(Handled(p, v, Head(in)), Tail(in), out, theirs)
<1> DEFINE m == Head(in)
           w == Handled(p, v, m)
           rest == Tail(in)
<1>1. /\ Len(in) \in Nat /\ Len(in) >= 1 /\ m = in[1] /\ m \in DownType
      /\ Len(rest) = Len(in) - 1
      /\ \A i \in 1 .. Len(rest) : rest[i] = in[i + 1]
  BY TailItems
<1>2. /\ Waits(w) => \/ /\ Waits(v) /\ m.type # "shot_result"
                        /\ v.trajectoryFrames # <<>> => w.trajectoryFrames # <<>>
                        /\ m.type = "shot_chunk" => w.trajectoryFrames # <<>>
                     \/ m.type = "shot_init"
  BY <1>1, HandledWait
<1> SUFFICES ASSUME NEW i \in 0 .. Len(rest), Opened(w, rest, i)
             PROVE  Watch(w, rest, out, theirs, i)
  BY DEF Watches
<1> HIDE DEF w, rest, m
<1>3. ASSUME NEW k \in 0 .. i + 1, Opened(v, in, k),
             \A j \in k + 1 .. Len(in) : in[j].type = "shot_result" => j > i + 1,
             \A n \in 0 .. Len(rest) : Fed(v, in, k, n + 1) => Fed(w, rest, i, n)
      PROVE  Watch(w, rest, out, theirs, i)
  <2>1. k \in 0 .. Len(in)
    BY <1>1
  <2>2. Watch(v, in, out, theirs, k)
    BY <1>3, <2>1 DEF Watches
  <2>3. Answered(in, k) => Answered(rest, i)
    <3> SUFFICES ASSUME NEW j \in k + 1 .. Len(in), in[j].type = "shot_result"
                 PROVE  Answered(rest, i)
      BY DEF Answered
    <3>1. j > i + 1
      BY <1>3
    <3>2. j - 1 \in i + 1 .. Len(rest) /\ rest[j - 1] = in[j]
      BY <1>1, <3>1
    <3> QED
      BY <3>2 DEF Answered
  <2>4. ASSUME NEW j \in i + 1 .. Len(rest), rest[j].type = "shot_result"
        PROVE  Fed(w, rest, i, j - 1)
    <3>1. j + 1 \in k + 1 .. Len(in) /\ in[j + 1].type = "shot_result"
      BY <1>1, <2>4
    <3>2. Fed(v, in, k, j)
      <4>1. Fed(v, in, k, (j + 1) - 1)
        BY <2>2, <3>1 DEF Watch
      <4>2. (j + 1) - 1 = j
        OBVIOUS
      <4> QED
        BY <4>1, <4>2
    <3>3. j = (j - 1) + 1
      OBVIOUS
    <3> QED
      BY <1>3, <3>2, <3>3
  <2>5. Reporting(out) => Answered(rest, i) \/ Fed(w, rest, i, Len(rest))
    <3>1. Fed(v, in, k, Len(in)) => Fed(w, rest, i, Len(rest))
      <4>1. Len(in) = Len(rest) + 1
        BY <1>1
      <4> QED
        BY <1>3, <4>1
    <3> QED
      BY <2>2, <2>3, <3>1 DEF Watch
  <2> QED
    BY <2>2, <2>3, <2>4, <2>5 DEF Watch
<1>4. ASSUME i # 0 \/ m.type = "shot_init"
      PROVE  Watch(w, rest, out, theirs, i)
  <2>1. i + 1 \in 0 .. i + 1
    OBVIOUS
  <2>2. Opened(v, in, i + 1)
    BY <1>1, <1>4 DEF Opened
  <2>3. \A n \in 0 .. Len(rest) : Fed(v, in, i + 1, n + 1) => Fed(w, rest, i, n)
    <3> SUFFICES ASSUME NEW n \in 0 .. Len(rest), NEW k \in (i + 1) + 1 .. n + 1, in[k].type = "shot_chunk"
                 PROVE  Fed(w, rest, i, n)
      BY <1>1 DEF Fed
    <3>1. k - 1 \in i + 1 .. n /\ rest[k - 1] = in[k]
      BY <1>1
    <3> QED
      BY <3>1 DEF Fed
  <2>4. \A j \in (i + 1) + 1 .. Len(in) : j > i + 1
    OBVIOUS
  <2> QED
    BY <1>3, <2>1, <2>2, <2>3, <2>4
<1>5. ASSUME i = 0, m.type # "shot_init"
      PROVE  Watch(w, rest, out, theirs, i)
  <2>1. /\ Waits(v) /\ m.type # "shot_result"
        /\ v.trajectoryFrames # <<>> => w.trajectoryFrames # <<>>
        /\ m.type = "shot_chunk" => w.trajectoryFrames # <<>>
    BY <1>2, <1>5 DEF Opened
  <2>2. 0 \in 0 .. i + 1 /\ Opened(v, in, 0)
    BY <2>1 DEF Opened
  <2>3. \A j \in 0 + 1 .. Len(in) : in[j].type = "shot_result" => j > i + 1
    BY <1>1, <1>5, <2>1
  <2>4. \A n \in 0 .. Len(rest) : Fed(v, in, 0, n + 1) => Fed(w, rest, i, n)
    <3> SUFFICES ASSUME NEW n \in 0 .. Len(rest), w.trajectoryFrames = <<>>,
                        NEW k \in 0 + 1 .. n + 1, in[k].type = "shot_chunk"
                 PROVE  Fed(w, rest, i, n)
      BY <1>5, <2>1 DEF Fed
    <3>1. k # 1
      BY <1>1, <2>1
    <3>2. k - 1 \in i + 1 .. n /\ rest[k - 1] = in[k]
      BY <1>1, <1>5, <3>1
    <3> QED
      BY <3>2 DEF Fed
  <2> QED
    BY <1>3, <2>2, <2>3, <2>4
<1> QED
  BY <1>4, <1>5

LEMMA ReceiveWatch ==
    ASSUME IInv, NEW p \in Players, Receives(p), \A q \in Players : WatchOf(q)
    PROVE  \A q \in Players : WatchOf(q)'
<1> SUFFICES ASSUME NEW q \in Players PROVE WatchOf(q)'
  OBVIOUS
<1>1. /\ online' = online /\ cutOff' = cutOff /\ currentPlayer' = currentPlayer /\ outbox' = outbox
  BY DEF Receives, server, network
<1>2. CASE q # p
  <2>1. inbox'[q] = inbox[q] /\ browser'[q] = browser[q]
    BY <1>2 DEF Receives, IInv, Carried
  <2>2. Framed(outbox'[q]) /\ Quieter(outbox[Opponent(q)], outbox'[Opponent(q)])
    BY <1>1, QuieterSame DEF WatchOf
  <2>3. Unopened(browser[q], browser'[q])
    BY <2>1, UnopenedSame
  <2> QED
    BY <1>1, <2>1, <2>2, <2>3, WatchKept
<1>3. CASE q = p
  <2> DEFINE v == browser[p]
             in == inbox[p]
             w == Handled(p, v, Head(in))
  <2>1. v \in Sound /\ in \in Seq(DownType) /\ in # <<>> /\ Head(in) \in DownType
    BY DEF IInv, Carried, Receives
  <2>2. inbox'[p] = Tail(in) /\ browser'[p] = w
    BY DEF Receives, IInv, Carried
  <2>3. online[p] /\ Framed(outbox[p])
    BY <2>1 DEF WatchOf
  <2>4. ASSUME p \notin cutOff
        PROVE  /\ Watches(w, Tail(in), outbox[Opponent(p)], currentPlayer # p)
               /\ Replayable(w)
    <3>1. Watches(v, in, outbox[Opponent(p)], currentPlayer # p) /\ Replayable(v)
      BY <2>4 DEF WatchOf
    <3>2. Watches(w, Tail(in), outbox[Opponent(p)], currentPlayer # p)
      BY <2>1, <3>1, WatchesTaken
    <3>3. w.remotePlayback /\ w.pending # NoResult =>
            /\ v.remotePlayback /\ (v.pending = NoResult => Head(in).type = "shot_result")
            /\ v.trajectoryFrames # <<>> => w.trajectoryFrames # <<>>
      BY <2>1, HandledWait
    <3> HIDE DEF w
    <3>4. Replayable(w)
      <4> SUFFICES ASSUME w.remotePlayback, w.pending # NoResult, v.pending = NoResult
                   PROVE  v.trajectoryFrames # <<>>
        BY <3>1, <3>3 DEF Replayable
      <4>1. Opened(v, in, 0) /\ 0 \in 0 .. Len(in)
        BY <2>1, <3>3 DEF Opened, Waits, Sound, Agrees
      <4>2. 1 \in 0 + 1 .. Len(in) /\ in[1].type = "shot_result"
        BY <2>1, <3>3, TailItems
      <4>3. Fed(v, in, 0, 1 - 1)
        BY <3>1, <4>1, <4>2 DEF Watches, Watch
      <4> QED
        BY <4>3 DEF Fed
    <3> QED
      BY <3>2, <3>4
  <2> HIDE DEF w
  <2> QED
    BY <1>1, <1>3, <2>2, <2>3, <2>4 DEF WatchOf
<1> QED
  BY <1>2, <1>3

(* One more message, or a result and a turn, come to a browser. *)
LEMMA WatchesRelayed ==
    ASSUME NEW v, NEW in \in Seq(DownType), NEW m \in StreamType, NEW out, NEW next,
           Watches(v, in, out, TRUE), Reporting(next) => m.type = "shot_chunk"
    PROVE  Watches(v, in \o One(m), next, TRUE)
<1> DEFINE t == in \o One(m)
<1>1. m \in DownType /\ m.type # "shot_result"
  BY DEF DownType, StreamType, AimType, InitType, ChunkType
<1>2. /\ Len(in) \in Nat /\ Len(t) = Len(in) + 1
      /\ \A i \in 1 .. Len(in) : t[i] = in[i]
      /\ t[Len(in) + 1] = m
  BY <1>1, OneItem
<1> HIDE DEF t
<1> SUFFICES ASSUME NEW i \in 0 .. Len(t), Opened(v, t, i) PROVE Watch(v, t, next, TRUE, i)
  BY DEF Watches, t
<1>3. ASSUME NEW j \in i + 1 .. Len(t), t[j].type = "shot_result"
      PROVE  Fed(v, t, i, j - 1)
  <2>1. j \in i + 1 .. Len(in) /\ in[j].type = "shot_result" /\ i \in 0 .. Len(in)
    BY <1>1, <1>2, <1>3
  <2>2. Opened(v, in, i)
    BY <1>2, <2>1 DEF Opened
  <2>3. Fed(v, in, i, j - 1)
    BY <2>1, <2>2 DEF Watches, Watch
  <2> QED
    BY <1>2, <2>1, <2>3 DEF Fed
<1>4. Reporting(next) => Fed(v, t, i, Len(t))
  <2> SUFFICES ASSUME m.type = "shot_chunk" PROVE Fed(v, t, i, Len(t))
    OBVIOUS
  <2>1. CASE i = Len(t)
    <3>1. t[i].type = "shot_init" \/ i = 0
      BY <1>2, <2>1 DEF Opened
    <3> QED
      BY <1>2, <2>1, <3>1
  <2>2. CASE i # Len(t)
    <3>1. Len(t) \in i + 1 .. Len(t) /\ t[Len(t)].type = "shot_chunk"
      BY <1>2, <2>2
    <3> QED
      BY <3>1 DEF Fed
  <2> QED
    BY <2>1, <2>2
<1> QED
  BY <1>3, <1>4 DEF Watch

LEMMA WatchesAnswered ==
    ASSUME NEW v, NEW in \in Seq(DownType), NEW out, NEW next, NEW theirs, NEW whose,
           Watches(v, in, out, theirs), ~theirs \/ Reporting(out),
           NEW a \in ShotResultType, NEW b \in TurnType
    PROVE  Watches(v, in \o Two(a, b), next, whose)
<1> DEFINE t == in \o Two(a, b)
<1>1. a \in DownType /\ b \in DownType /\ a.type = "shot_result" /\ b.type = "turn"
  BY DEF DownType, ShotResultType, TurnType
<1>2. /\ Len(in) \in Nat /\ Len(t) = Len(in) + 2
      /\ \A i \in 1 .. Len(in) : t[i] = in[i]
      /\ t[Len(in) + 1] = a /\ t[Len(in) + 2] = b
  BY <1>1, TwoItems
<1> HIDE DEF t
<1> SUFFICES ASSUME NEW i \in 0 .. Len(t), Opened(v, t, i) PROVE Watch(v, t, next, whose, i)
  BY DEF Watches, t
<1>3. i \in 0 .. Len(in)
  <2>1. i = Len(in) + 1 \/ i = Len(in) + 2 => FALSE
    BY <1>1, <1>2 DEF Opened
  <2> QED
    BY <1>2, <2>1
<1>4. Opened(v, in, i)
  BY <1>2, <1>3 DEF Opened
<1>5. Watch(v, in, out, theirs, i)
  BY <1>3, <1>4 DEF Watches
<1>6. \A n \in 0 .. Len(in) : Fed(v, in, i, n) => Fed(v, t, i, n)
  BY <1>2, <1>3 DEF Fed
<1>7. Fed(v, in, i, Len(in))
  <2>1. CASE Answered(in, i)
    <3>1. PICK j \in i + 1 .. Len(in) : in[j].type = "shot_result"
      BY <2>1 DEF Answered
    <3>2. Fed(v, in, i, j - 1)
      BY <1>5, <3>1 DEF Watch
    <3>3. i + 1 .. j - 1 \subseteq i + 1 .. Len(in)
      BY <1>2, <1>3
    <3> QED
      BY <3>2, <3>3 DEF Fed
  <2>2. CASE ~Answered(in, i)
    BY <1>5, <2>2 DEF Watch
  <2> QED
    BY <2>1, <2>2
<1>8. ASSUME NEW j \in i + 1 .. Len(t), t[j].type = "shot_result"
      PROVE  Fed(v, t, i, j - 1)
  <2>1. CASE j \in i + 1 .. Len(in)
    <3>1. Fed(v, in, i, j - 1)
      BY <1>2, <1>5, <1>8, <1>3, <2>1 DEF Watch
    <3>2. j - 1 \in 0 .. Len(in)
      BY <1>2, <1>3, <2>1
    <3> QED
      BY <1>6, <3>1, <3>2
  <2>2. CASE j = Len(in) + 1
    <3>1. j - 1 = Len(in)
      BY <1>2, <2>2
    <3>2. Len(in) \in 0 .. Len(in)
      BY <1>2
    <3> QED
      BY <1>6, <1>7, <3>1, <3>2
  <2>3. CASE j = Len(in) + 2
    BY <1>1, <1>2, <1>8, <2>3
  <2> QED
    BY <1>2, <1>3, <2>1, <2>2, <2>3
<1>9. Answered(t, i)
  <2>1. Len(in) + 1 \in i + 1 .. Len(t)
    BY <1>2, <1>3
  <2> QED
    BY <1>1, <1>2, <2>1 DEF Answered
<1> QED
  BY <1>8, <1>9 DEF Watch

LEMMA WatchesMine ==
    ASSUME NEW v, NEW in, NEW out, NEW next, Watches(v, in, out, FALSE)
    PROVE  Watches(v, in, next, FALSE)
BY DEF Watches, Watch

LEMMA WatchesNone ==
    ASSUME NEW v, ~Waits(v), NEW in, Len(in) = 0 \/ (Len(in) = 1 /\ in[1].type # "shot_init"),
           NEW out, NEW theirs
    PROVE  Watches(v, in, out, theirs)
<1> SUFFICES ASSUME NEW i \in 0 .. Len(in) PROVE ~Opened(v, in, i)
  BY DEF Watches
<1>1. CASE Len(in) = 0
  BY <1>1 DEF Opened
<1>2. CASE Len(in) = 1 /\ in[1].type # "shot_init"
  <2>1. i = 0 \/ i = 1
    BY <1>2
  <2> QED
    BY <1>2, <2>1 DEF Opened
<1> QED
  BY <1>1, <1>2

(* The report comes next right after its last frame. *)
LEMMA TakenFramed ==
    ASSUME NEW out \in Seq(UpType), out # <<>>, Framed(out)
    PROVE  /\ Framed(Tail(out))
           /\ Reporting(Tail(out)) => Head(out).type = "shot_chunk"
<1>1. /\ Len(out) \in Nat /\ Len(out) >= 1 /\ Head(out) = out[1]
      /\ Len(Tail(out)) = Len(out) - 1 /\ Tail(out) \in Seq(UpType)
      /\ \A i \in 1 .. Len(Tail(out)) : Tail(out)[i] = out[i + 1]
  BY TailItems
<1>2. Framed(Tail(out))
  <2> SUFFICES ASSUME NEW k \in 2 .. Len(Tail(out)), Tail(out)[k].type = "shoot"
               PROVE  Tail(out)[k - 1].type = "shot_chunk"
    BY DEF Framed
  <2>1. k \in 1 .. Len(Tail(out)) /\ k - 1 \in 1 .. Len(Tail(out)) /\ k + 1 \in 2 .. Len(out)
    BY <1>1
  <2>2. Tail(out)[k] = out[k + 1] /\ Tail(out)[k - 1] = out[(k - 1) + 1]
    BY <1>1, <2>1
  <2>3. (k - 1) + 1 = (k + 1) - 1
    OBVIOUS
  <2> QED
    BY <2>1, <2>2, <2>3 DEF Framed
<1>3. ASSUME Reporting(Tail(out))
      PROVE  Head(out).type = "shot_chunk"
  <2>1. 1 \in 1 .. Len(Tail(out)) /\ Head(Tail(out)) = Tail(out)[1] /\ Head(Tail(out)).type = "shoot"
    BY <1>1, <1>3, TailItems DEF Reporting
  <2>2. out[2].type = "shoot" /\ 2 \in 2 .. Len(out)
    BY <1>1, <2>1
  <2>3. out[2 - 1].type = "shot_chunk"
    BY <2>2 DEF Framed
  <2> QED
    BY <1>1, <2>3
<1> QED
  BY <1>2, <1>3

LEMMA Opponents ==
    ASSUME NEW p \in Players
    PROVE  /\ Opponent(p) \in Players /\ Opponent(p) # p /\ Opponent(Opponent(p)) = p
           /\ \A q \in Players : q = p \/ q = Opponent(p)
BY DEF Players, Opponent

(* What the server takes from player p does not change p's own waits, as     *)
(* long as p is sent nothing and the turn stays.                             *)
LEMMA TakenWatch ==
    ASSUME IInv, NEW p \in Players, Takes(p), WatchOf(p), browser' = browser,
           UNCHANGED network, currentPlayer' = currentPlayer, inbox'[p] = inbox[p]
    PROVE  WatchOf(p)'
<1>1. outbox[p] \in Seq(UpType) /\ outbox[p] # <<>>
  BY DEF IInv, Carried, Takes
<1>2. outbox'[p] = Tail(outbox[p]) /\ outbox'[Opponent(p)] = outbox[Opponent(p)]
  BY Opponents DEF IInv, Carried, Takes
<1>3. online[p] /\ Framed(outbox[p])
  BY <1>1 DEF WatchOf
<1>4. Framed(outbox'[p]) /\ Quieter(outbox[Opponent(p)], outbox'[Opponent(p)])
  BY <1>1, <1>2, <1>3, TakenFramed, QuieterSame
<1>5. online' = online /\ cutOff' = cutOff /\ Unopened(browser[p], browser'[p])
  BY UnopenedSame DEF network
<1> QED
  BY <1>3, <1>4, <1>5, WatchKept

LEMMA RelayWatch ==
    ASSUME IInv, NEW p \in Players, Relays(p), \A q \in Players : WatchOf(q)
    PROVE  \A q \in Players : WatchOf(q)'
<1> DEFINE m == Head(outbox[p])
           q == Opponent(p)
           v == browser[q]
           in == inbox[q]
           out == outbox[p]
<1>1. out \in Seq(UpType) /\ out # <<>> /\ m \in StreamType /\ in \in Seq(DownType)
  BY TakesTyped, Kinds, Opponents DEF IInv, Carried, Relays, Takes
<1>2. /\ q \in Players /\ q # p /\ Opponent(q) = p /\ currentPlayer \in Players
      /\ \A r \in Players : r = p \/ r = q
  BY Opponents DEF IInv, TypeOK
<1>3. /\ outbox'[p] = Tail(out) /\ outbox'[q] = outbox[q] /\ inbox'[p] = inbox[p]
      /\ inbox'[q] = IF currentPlayer = p /\ online[q] THEN in \o One(m) ELSE in
      /\ browser' = browser /\ currentPlayer' = currentPlayer
      /\ online' = online /\ cutOff' = cutOff /\ UNCHANGED network
  BY <1>2 DEF Relays, Takes, Delivers, IInv, Carried, server, network, One
<1>4. WatchOf(p)'
  BY <1>3, TakenWatch DEF Relays
<1>5. /\ Framed(outbox[q]) /\ Framed(out)
      /\ ~online[q] => in = <<>> /\ outbox[q] = <<>>
      /\ q \notin cutOff =>
           /\ ~online[q] => ~Waits(v)
           /\ Watches(v, in, out, currentPlayer # q)
           /\ Replayable(v)
  BY <1>2 DEF WatchOf
<1>6. Reporting(Tail(out)) => m.type = "shot_chunk"
  BY <1>1, <1>5, TakenFramed
<1> HIDE DEF m
<1>7. q \notin cutOff => Watches(v, inbox'[q], Tail(out), currentPlayer # q)
  <2>1. CASE currentPlayer = p /\ online[q]
    <3>1. (currentPlayer # q) = TRUE
      BY <1>2, <2>1
    <3> QED
      BY <1>1, <1>3, <1>5, <1>6, <2>1, <3>1, WatchesRelayed
  <2>2. CASE ~online[q]
    BY <1>3, <1>5, <2>2, WatchesNone
  <2>3. CASE currentPlayer # p
    <3>1. (currentPlayer # q) = FALSE
      BY <1>2, <2>3
    <3> QED
      BY <1>3, <1>5, <2>3, <3>1, WatchesMine
  <2> QED
    BY <2>1, <2>2, <2>3
<1>8. WatchOf(q)'
  <2>1. q \notin cutOff => Watches(browser'[q], inbox'[q], outbox'[Opponent(q)], currentPlayer' # q)
    BY <1>2, <1>3, <1>7
  <2>2. ~online[q] => inbox'[q] = <<>>
    BY <1>3, <1>5
  <2> QED
    BY <1>3, <1>5, <2>1, <2>2 DEF WatchOf
<1> QED
  BY <1>2, <1>4, <1>8

LEMMA AcceptWatch ==
    ASSUME IInv, NEW p \in Players, Accepts(p), \A q \in Players : WatchOf(q)
    PROVE  \A q \in Players : WatchOf(q)'
<1> DEFINE m == Head(outbox[p])
           result == [type |-> "shot_result", player |-> currentPlayer',
                      result |-> [balls |-> balls', pocketed |-> m.pocketed, shot |-> m.shot]]
           turn == [type |-> "turn", player |-> currentPlayer']
<1>1. outbox[p] \in Seq(UpType) /\ outbox[p] # <<>> /\ m \in ShootType /\ m.type = "shoot"
  BY TakesTyped, Kinds DEF IInv, Carried, Accepts, Takes
<1>2. currentPlayer = p /\ currentPlayer' \in Players /\ balls' \subseteq Balls
  BY <1>1 DEF Accepts, ShootType
<1>3. result \in ShotResultType /\ turn \in TurnType
  BY <1>1, <1>2 DEF ShotResultType, ResultType, TurnType, ShootType
<1>4. /\ \A q \in Players : outbox'[q] = IF q = p THEN Tail(outbox[p]) ELSE outbox[q]
      /\ browser' = browser /\ online' = online /\ cutOff' = cutOff
      /\ inbox' = [q \in Players |-> Delivers(q, Two(result, turn))]
  BY DEF Accepts, Takes, IInv, Carried, network, Two
<1>5. Reporting(outbox[p])
  BY <1>1 DEF Reporting, m
<1> HIDE DEF m, result, turn
<1> SUFFICES ASSUME NEW q \in Players PROVE WatchOf(q)'
  OBVIOUS
<1> DEFINE v == browser[q]
           in == inbox[q]
           o == Opponent(q)
<1>6. /\ Framed(outbox[q])
      /\ ~online[q] => in = <<>> /\ outbox[q] = <<>>
      /\ q \notin cutOff =>
           /\ ~online[q] => ~Waits(v)
           /\ Watches(v, in, outbox[o], currentPlayer # q)
           /\ Replayable(v)
  BY DEF WatchOf
<1>7. Framed(outbox'[q]) /\ (~online[q] => outbox'[q] = <<>>)
  BY <1>1, <1>4, <1>6, TakenFramed
<1>8. in \in Seq(DownType) /\ inbox'[q] = IF online[q] THEN in \o Two(result, turn) ELSE in
  BY <1>4 DEF Delivers, IInv, Carried
<1>9. ~(currentPlayer # q) \/ Reporting(outbox[o])
  BY <1>2, <1>5, Opponents
<1>10. q \notin cutOff => Watches(v, inbox'[q], outbox'[o], currentPlayer' # q)
  <2>1. CASE online[q]
    BY <1>3, <1>6, <1>8, <1>9, <2>1, WatchesAnswered
  <2>2. CASE ~online[q]
    BY <1>6, <1>8, <2>2, WatchesNone
  <2> QED
    BY <2>1, <2>2
<1> QED
  BY <1>4, <1>6, <1>7, <1>8, <1>10 DEF WatchOf

LEMMA RejectWatch ==
    ASSUME IInv, NEW p \in Players, Rejects(p), \A q \in Players : WatchOf(q)
    PROVE  \A q \in Players : WatchOf(q)'
<1> DEFINE q == Opponent(p)
<1>1. /\ q \in Players /\ q # p /\ Opponent(q) = p
      /\ \A r \in Players : r = p \/ r = q
  BY Opponents
<1>2. /\ browser' = browser /\ currentPlayer' = currentPlayer /\ inbox' = inbox
      /\ online' = online /\ cutOff' = cutOff /\ UNCHANGED network
      /\ outbox[p] \in Seq(UpType) /\ outbox[p] # <<>>
      /\ outbox'[p] = Tail(outbox[p]) /\ outbox'[q] = outbox[q]
  BY <1>1 DEF Rejects, Takes, IInv, Carried, server, network
<1>3. WatchOf(p)'
  BY <1>2, TakenWatch DEF Rejects
<1>4. Head(outbox[p]).type # "shot_chunk" /\ Framed(outbox[p]) /\ Framed(outbox[q])
  BY <1>1 DEF Rejects, WatchOf
<1>5. Quieter(outbox[p], outbox'[p])
  BY <1>2, <1>4, TakenFramed DEF Quieter
<1>6. Unopened(browser[q], browser'[q])
  BY <1>2, UnopenedSame
<1>7. WatchOf(q)'
  BY <1>1, <1>2, <1>4, <1>5, <1>6, WatchKept
<1> QED
  BY <1>1, <1>3, <1>7

LEMMA LoseWatch ==
    ASSUME IInv, NEW p \in Players, LosesSocket(p), \A q \in Players : WatchOf(q)
    PROVE  \A q \in Players : WatchOf(q)'
<1> DEFINE q == Opponent(p)
<1>1. /\ q \in Players /\ q # p /\ Opponent(q) = p
      /\ \A r \in Players : r = p \/ r = q
  BY Opponents
<1>2. /\ browser' = browser /\ currentPlayer' = currentPlayer
      /\ inbox'[p] = <<>> /\ outbox'[p] = <<>> /\ inbox'[q] = inbox[q] /\ outbox'[q] = outbox[q]
      /\ online'[p] = FALSE /\ online'[q] = online[q]
      /\ cutOff' = cutOff \cup {r \in {p} : Waits(browser[r])}
  BY <1>1 DEF LosesSocket, IInv, Carried, TypeOK, server, AwaitsResult, Waits
<1>3. WatchOf(p)'
  <2>1. p \notin cutOff' => ~Waits(browser[p]) /\ p \notin cutOff
    BY <1>2
  <2>2. p \notin cutOff' => Watches(browser'[p], inbox'[p], outbox'[Opponent(p)], currentPlayer' # p)
    BY <1>2, <2>1, WatchesNone
  <2>3. Framed(outbox'[p])
    BY <1>2 DEF Framed
  <2> QED
    BY <1>2, <2>1, <2>2, <2>3 DEF WatchOf
<1>4. WatchOf(q)'
  <2>1. (q \notin cutOff') => (q \notin cutOff)
    BY <1>2
  <2>2. Quieter(outbox[p], outbox'[p])
    BY <1>2 DEF Quieter, Reporting
  <2>3. q \notin cutOff => Watches(browser[q], inbox[q], outbox'[p], currentPlayer # q)
    BY <1>1, <2>2, WatchesKept, UnopenedSame DEF WatchOf
  <2>4. q \notin cutOff' => Watches(browser'[q], inbox'[q], outbox'[Opponent(q)], currentPlayer' # q)
    BY <1>1, <1>2, <2>1, <2>3
  <2> QED
    BY <1>1, <1>2, <2>1, <2>4 DEF WatchOf
<1> QED
  BY <1>1, <1>3, <1>4

LEMMA ReconnectWatch ==
    ASSUME IInv, NEW p \in Players, Reconnects(p), \A q \in Players : WatchOf(q)
    PROVE  \A q \in Players : WatchOf(q)'
<1> DEFINE back == [type |-> "reconnected", player |-> currentPlayer, layout |-> layout]
<1>1. /\ browser' = browser /\ currentPlayer' = currentPlayer /\ outbox' = outbox /\ cutOff' = cutOff
      /\ inbox' = [inbox EXCEPT ![p] = One(back)] /\ online' = [online EXCEPT ![p] = TRUE]
      /\ ~online[p]
  BY DEF Reconnects, server, One
<1>2. One(back)[1].type # "shot_init" /\ Len(One(back)) = 1
  BY DEF One
<1> HIDE DEF back
<1>3. inbox'[p] = One(back) /\ online'[p] = TRUE
  BY <1>1 DEF IInv, Carried, TypeOK
<1>4. WatchOf(p)'
  <2>1. p \notin cutOff => ~Waits(browser[p])
    BY <1>1 DEF WatchOf
  <2>2. p \notin cutOff' => Watches(browser'[p], inbox'[p], outbox'[Opponent(p)], currentPlayer' # p)
    BY <1>1, <1>2, <1>3, <2>1, WatchesNone
  <2> QED
    BY <1>1, <1>3, <2>2 DEF WatchOf
<1> SUFFICES ASSUME NEW q \in Players, q # p PROVE WatchOf(q)'
  BY <1>4
<1>5. inbox'[q] = inbox[q] /\ online'[q] = online[q]
  BY <1>1 DEF IInv, Carried, TypeOK
<1> QED
  BY <1>1, <1>5 DEF WatchOf

LEMMA InitWatches == Init => WInv
<1> SUFFICES ASSUME Init, NEW p \in Players PROVE WatchOf(p)
  BY DEF WInv
<1>1. inbox[p] = <<>> /\ outbox[p] = <<>> /\ online[p]
  BY DEF Init
<1>2. browser[p].isSimulating = FALSE /\ browser[p].remotePlayback = FALSE
  BY DEF Init
<1>3. Watches(browser[p], inbox[p], outbox[Opponent(p)], currentPlayer # p)
  BY <1>1, <1>2, WatchesNone DEF Waits
<1> QED
  BY <1>1, <1>2, <1>3 DEF WatchOf, Framed, Replayable

LEMMA NextWatches == IInv /\ WInv /\ [Next]_vars => WInv'
<1> SUFFICES ASSUME IInv, WInv, [Next]_vars PROVE WInv'
  OBVIOUS
<1>1. CASE UNCHANGED vars
  BY <1>1 DEF WInv, WatchOf, vars, server, network
<1>2. CASE Next
  BY <1>2, ShootWatch, SimulateWatch, SettleWatch, UpdateWatch, ReceiveWatch, RelayWatch, AcceptWatch,
     RejectWatch, LoseWatch, ReconnectWatch DEF WInv, Next, Simulates, Serves
<1> QED
  BY <1>1, <1>2

(* Whichever messages a broken socket takes along: a browser that is to move, *)
(* is connected and has handled what it was sent can shoot or will be able to *)
(* without a further message, unless its own socket went down while it        *)
(* awaited the result of a shot.                                              *)
THEOREM OnlyMissedLocks == Spec => []OnlyMissedResultLocks
<1>1. IInv /\ WInv => OnlyMissedResultLocks
  <2> SUFFICES ASSUME IInv, WInv, NEW p \in Players, currentPlayer = p, inbox[p] = <<>>, p \notin cutOff
               PROVE  WillAct(p)
    BY DEF OnlyMissedResultLocks
  <2>1. browser[p] \in Sound
    BY DEF IInv
  <2>2. ~Waits(browser[p])
    <3> SUFFICES ASSUME Waits(browser[p]) PROVE FALSE
      OBVIOUS
    <3>1. Opened(browser[p], inbox[p], 0) /\ 0 \in 0 .. Len(inbox[p]) /\ ~Answered(inbox[p], 0)
      BY DEF Opened, Answered
    <3>2. currentPlayer # p
      BY <3>1 DEF WInv, WatchOf, Watches, Watch
    <3> QED
      BY <3>2
  <2>3. Replayable(browser[p])
    BY DEF WInv, WatchOf
  <2> QED
    BY <2>1, <2>2, <2>3 DEF WillAct, Waits, Replayable, Sound, Agrees
<1>2. Spec => [](IInv /\ WInv)
  BY InitInvariant, NextInvariant, InitWatches, NextWatches, PTL DEF Spec
<1> QED
  BY <1>1, <1>2, PTL
================================================================================
