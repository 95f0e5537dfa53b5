------------------------------ MODULE SettleProofs -----------------------------
(***************************************************************************)
(* Proofs about Replay while the sockets stay up and nobody is hasty, for  *)
(* any numbers of balls, shots and frames: when nothing is under way, both *)
(* browsers show what the server knows.                                    *)
(*                                                                         *)
(* Couriers says who has messages under way and what a report tells, Views *)
(* what a browser will show when it has handled the stream of messages to  *)
(* it.                                                                     *)
(***************************************************************************)
EXTENDS WatchProofs, SequenceTheorems, WellFoundedInduction

--------------------------------------------------------------------------------
(* The couriers. *)

(* While the sockets stay up, only the player to move has messages under way *)
(* to the server, of a shot that counts: its report is the last of them.     *)
(* The last message to the player to move gives the turn.                    *)
QueuesOf(p) ==
    IF currentPlayer = p
    THEN /\ outbox[p] # <<>> => Shows(browser[p]) \/ Reports(outbox[p])
         /\ \A i \in 1 .. Len(outbox[p]) : outbox[p][i].type = "shoot" => i = Len(outbox[p])
         /\ inbox[p] # <<>> => Grant(inbox[p][Len(inbox[p])], p)
    ELSE outbox[p] = <<>>

(* A report tells the shooter's table; what dropped in a shot is not on it.  *)
ReportOf(v, out) ==
    /\ Shows(v) => v.table \cap v.pocketedBalls = {}
    /\ \A i \in 1 .. Len(out) : out[i].type = "shoot" =>
         /\ ~v.isSimulating
         /\ out[i].balls = v.table /\ out[i].pocketed \cap v.table = {} /\ out[i].shot = v.layout

CourierOf(p) == QueuesOf(p) /\ ReportOf(browser[p], outbox[p])

Couriers == drops = 0 => \A p \in Players : CourierOf(p)

--------------------------------------------------------------------------------
(* The shooter's steps and the server's, as seen from the couriers. *)

(* The state of a player whose socket has not been lost. *)
LEMMA Connected ==
    ASSUME IInv, NEW p \in Players, TurnOf(p)
    PROVE  /\ online[p]
           /\ browser[p] \in Sound /\ browser[p] \in BrowserType
           /\ inbox[p] \in Seq(DownType) /\ outbox[p] \in Seq(UpType)
           /\ Agrees(browser[p]) /\ Reportable(browser[p])
           /\ \A ms : Sends(p, ms) => outbox' = [outbox EXCEPT ![p] = outbox[p] \o ms]
           /\ \A ms : Delivers(p, ms) = inbox[p] \o ms
BY DEF IInv, Sound, Carried, TurnOf, Sends, Delivers

(* What a shot, a simulated frame and the end of a simulation make of the    *)
(* shooter's browser v, and what they send.                                  *)
Announced(v, w, b) ==
    /\ Shows(w) /\ ~w.remotePlayback /\ w.pending = NoResult
    /\ w.table = v.table /\ w.layout = v.layout /\ w.pocketedBalls = {}
    /\ b.layout = v.layout

Streamed(v, w, a) ==
    /\ Shows(w) /\ ~w.remotePlayback /\ w.pending = NoResult
    /\ w.layout = v.layout
    /\ w.table \subseteq v.table /\ a.frame.balls = w.table
    /\ w.pocketedBalls = v.pocketedBalls \cup (v.table \ w.table)

Reported(v, w, a, b) ==
    /\ ~w.isSimulating /\ ~w.remotePlayback /\ w.pending = NoResult
    /\ w.table \subseteq a.frame.balls /\ a.frame.balls \subseteq v.table
    /\ w.pocketedBalls = v.pocketedBalls \cup (v.table \ w.table)
    /\ b.balls = w.table /\ b.pocketed = w.pocketedBalls /\ b.shot = w.layout

LEMMA ShootEffect ==
    ASSUME IInv, NEW p \in Players, TurnOf(p), ExecutesShot(p)
    PROVE  /\ currentPlayer = p /\ browser[p].isMyTurn /\ ~browser[p].isSimulating
           /\ ~TurnFollows(p) \/ Hasty
           /\ UNCHANGED <<server, inbox, network>>
           /\ \E w \in Sound, a \in AimType, b \in InitType :
                /\ browser' = [browser EXCEPT ![p] = w]
                /\ outbox' = [outbox EXCEPT ![p] = outbox[p] \o Two(a, b)]
                /\ Announced(browser[p], w, b)
<1> DEFINE v == browser[p]
           w == Shooting(v, shots + 1)
           aim == [type |-> "aim_chunk"]
           init == [type |-> "shot_init", balls |-> v.table, layout |-> v.layout]
<1>1. v \in Sound /\ v \in BrowserType /\ Agrees(v) /\ MayShoot(v)
  BY Connected DEF ExecutesShot
<1>2. currentPlayer = p
  BY <1>1 DEF TurnOf, HasTurn, MayShoot
<1>3. shots + 1 \in 1 .. MaxShots
  BY Numbers DEF ExecutesShot, IInv, TypeOK
<1>4. w \in Sound
  BY <1>1, <1>3, ShootingSound
<1>5. /\ w.isSimulating = TRUE /\ w.isLocalShot = TRUE /\ w.pocketedBalls = {}
      /\ w.table = v.table /\ w.layout = v.layout
      /\ w.remotePlayback = v.remotePlayback /\ w.pending = v.pending
  BY <1>1 DEF Shooting, BrowserType
<1>6. aim \in AimType /\ init \in InitType /\ init.layout = v.layout
  BY <1>1 DEF AimType, InitType, BrowserType
<1>7. /\ browser' = [browser EXCEPT ![p] = w]
      /\ outbox' = [outbox EXCEPT ![p] = outbox[p] \o Two(aim, init)]
  BY Connected DEF ExecutesShot, Two
<1>8. ~v.remotePlayback /\ v.pending = NoResult
  BY <1>1 DEF Agrees, MayShoot
<1> HIDE DEF aim, init, w
<1>9. Shows(w)
  BY <1>5 DEF Shows
<1>10. Announced(v, w, init)
  BY <1>5, <1>6, <1>8, <1>9 DEF Announced
<1> QED
  BY <1>1, <1>2, <1>4, <1>6, <1>7, <1>10 DEF ExecutesShot, MayShoot

LEMMA DropFields ==
    ASSUME NEW v \in BrowserType, NEW dropped
    PROVE  LET w == Drop(v, dropped)
           IN  /\ w.table = v.table \ dropped /\ w.pocketedBalls = v.pocketedBalls \cup dropped
               /\ w.isSimulating = v.isSimulating /\ w.isLocalShot = v.isLocalShot
               /\ w.layout = v.layout /\ w.shot = v.shot
               /\ w.remotePlayback = v.remotePlayback /\ w.pending = v.pending
BY DEF Drop, BrowserType

LEMMA RecordFields ==
    ASSUME NEW v \in BrowserType
    PROVE  LET w == Record(v)
           IN  /\ w.table = v.table /\ w.pocketedBalls = v.pocketedBalls
               /\ w.isSimulating = v.isSimulating /\ w.isLocalShot = v.isLocalShot
               /\ w.layout = v.layout /\ w.shot = v.shot
               /\ w.remotePlayback = v.remotePlayback /\ w.pending = v.pending
BY DEF Record, BrowserType

LEMMA SimulateEffect ==
    ASSUME IInv, NEW p \in Players, TurnOf(p), SimulatesFrame(p)
    PROVE  /\ currentPlayer = p /\ Shows(browser[p]) /\ ~browser[p].remotePlayback
           /\ UNCHANGED <<server, inbox, network>>
           /\ \E w \in BrowserType, a \in ChunkType :
                /\ browser' = [browser EXCEPT ![p] = w]
                /\ outbox' = [outbox EXCEPT ![p] = outbox[p] \o One(a)]
                /\ Streamed(browser[p], w, a)
<1> DEFINE v == browser[p]
<1>1. v \in Sound /\ v \in BrowserType /\ Agrees(v) /\ v.isSimulating /\ v.isLocalShot
  BY Connected DEF SimulatesFrame
<1>2. PICK dropped \in SUBSET v.table :
        /\ browser' = [browser EXCEPT ![p] = Record(Drop(v, dropped))]
        /\ Sends(p, One(Chunk(Record(Drop(v, dropped)))))
  BY DEF SimulatesFrame, One
<1> DEFINE d == Drop(v, dropped)
           w == Record(d)
<1>3. /\ d \in Sound /\ d.isSimulating /\ d.isLocalShot
      /\ d.table = v.table \ dropped /\ d.pocketedBalls = v.pocketedBalls \cup dropped
      /\ d.layout = v.layout
      /\ d.remotePlayback = v.remotePlayback /\ d.pending = v.pending
  BY <1>1, DropSound, DropFields
<1> HIDE DEF d
<1>4. w \in BrowserType /\ w.recorded \in 1 .. MaxFrames
  BY <1>3, RecordTyped
<1>5. /\ w.table = d.table /\ w.pocketedBalls = d.pocketedBalls
      /\ w.isSimulating = d.isSimulating /\ w.isLocalShot = d.isLocalShot
      /\ w.layout = d.layout /\ w.remotePlayback = d.remotePlayback /\ w.pending = d.pending
  BY <1>3, RecordFields DEF Sound
<1>6. Chunk(w) \in ChunkType /\ Chunk(w).frame.balls = w.table
  BY <1>4 DEF Chunk, ChunkType, FrameType, BrowserType
<1>7. outbox' = [outbox EXCEPT ![p] = outbox[p] \o One(Chunk(w))] /\ browser' = [browser EXCEPT ![p] = w]
  BY <1>2, Connected DEF d
<1> HIDE DEF w
<1>8. ~v.remotePlayback /\ v.pending = NoResult /\ Shows(v)
  BY <1>1 DEF Agrees, Shows
<1>9. /\ Shows(w) /\ ~w.remotePlayback /\ w.pending = NoResult /\ w.layout = v.layout
      /\ w.table = v.table \ dropped /\ w.pocketedBalls = v.pocketedBalls \cup dropped
  BY <1>3, <1>5, <1>8 DEF Shows
<1>10. w.table \subseteq v.table /\ dropped = v.table \ w.table
  BY <1>9
<1>11. currentPlayer = p
  BY <1>8 DEF TurnOf, HasTurn
<1>12. Streamed(v, w, Chunk(w))
  BY <1>6, <1>9, <1>10 DEF Streamed
<1> QED
  BY <1>4, <1>6, <1>7, <1>8, <1>11, <1>12 DEF SimulatesFrame

LEMMA SettleEffect ==
    ASSUME IInv, NEW p \in Players, TurnOf(p), Settles(p)
    PROVE  /\ currentPlayer = p /\ Shows(browser[p]) /\ ~browser[p].remotePlayback
           /\ UNCHANGED <<server, inbox, network>>
           /\ \E w \in BrowserType, a \in ChunkType, b \in ShootType :
                /\ browser' = [browser EXCEPT ![p] = w]
                /\ outbox' = [outbox EXCEPT ![p] = outbox[p] \o Two(a, b)]
                /\ Reported(browser[p], w, a, b)
<1> DEFINE v == browser[p]
           rr(dropped, late) == Record(Drop(v, dropped \ late))
           xx(dropped, late) == [Drop(rr(dropped, late), late) EXCEPT
                                   !.isSimulating = FALSE, !.layout = rr(dropped, late).shot]
           report(u) == [type |-> "shoot", balls |-> u.table, pocketed |-> u.pocketedBalls, shot |-> u.shot]
<1>1. v \in Sound /\ v \in BrowserType /\ Agrees(v) /\ v.isSimulating /\ v.isLocalShot
  BY Connected DEF Settles
<1>2. PICK dropped \in SUBSET v.table : \E late \in SUBSET dropped :
        /\ browser' = [browser EXCEPT ![p] = xx(dropped, late)]
        /\ Sends(p, Two(Chunk(rr(dropped, late)), report(xx(dropped, late))))
  BY DEF Settles, Two
<1>3. PICK late \in SUBSET dropped :
        /\ browser' = [browser EXCEPT ![p] = xx(dropped, late)]
        /\ Sends(p, Two(Chunk(rr(dropped, late)), report(xx(dropped, late))))
  BY <1>2
<1> DEFINE d == Drop(v, dropped \ late)
           r == Record(d)
           l == Drop(r, late)
           w == [l EXCEPT !.isSimulating = FALSE, !.layout = r.shot]
<1>4. /\ d \in Sound /\ d.isSimulating /\ d.isLocalShot
      /\ d.table = v.table \ (dropped \ late) /\ d.pocketedBalls = v.pocketedBalls \cup (dropped \ late)
      /\ d.remotePlayback = v.remotePlayback /\ d.pending = v.pending
  BY <1>1, DropSound, DropFields
<1> HIDE DEF d
<1>5. /\ r \in BrowserType /\ Agrees(r) /\ r.isSimulating = TRUE /\ r.isLocalShot = TRUE
      /\ r.shot \in 1 .. MaxShots /\ r.recorded \in 1 .. MaxFrames
      /\ r.table = d.table
  BY <1>4, RecordTyped
<1>6. r.pocketedBalls = d.pocketedBalls /\ r.remotePlayback = d.remotePlayback /\ r.pending = d.pending
  BY <1>4, RecordFields DEF Sound
<1> HIDE DEF r
<1>7. late \in SUBSET r.table
  BY <1>4, <1>5
<1>8. /\ w \in Sound /\ w.shot = r.shot /\ w.table \in SUBSET Balls /\ w.pocketedBalls \in SUBSET Balls
  BY <1>5, <1>7, SettledSound
<1>9. /\ w.isSimulating = FALSE /\ w.layout = r.shot
      /\ w.table = r.table \ late /\ w.pocketedBalls = r.pocketedBalls \cup late
      /\ w.remotePlayback = r.remotePlayback /\ w.pending = r.pending
  <2>1. l \in BrowserType
    <3>1. r.table \ late \in SUBSET Balls /\ r.pocketedBalls \cup late \in SUBSET Balls
      BY <1>5, <1>7 DEF BrowserType
    <3> QED
      BY <1>5, <3>1, Zenon DEF Drop, BrowserType
  <2>2. /\ l.table = r.table \ late /\ l.pocketedBalls = r.pocketedBalls \cup late
        /\ l.remotePlayback = r.remotePlayback /\ l.pending = r.pending
    BY <1>5, DropFields
  <2> HIDE DEF l
  <2> QED
    BY <2>1, <2>2 DEF BrowserType
<1>10. Chunk(r) \in ChunkType /\ Chunk(r).frame.balls = r.table
  BY <1>5 DEF Chunk, ChunkType, FrameType, BrowserType
<1>11. /\ browser' = [browser EXCEPT ![p] = w]
       /\ outbox' = [outbox EXCEPT ![p] = outbox[p] \o Two(Chunk(r), report(w))]
  BY <1>3, Connected DEF r, d
<1>12. report(w) \in ShootType /\ report(w).balls = w.table /\ report(w).pocketed = w.pocketedBalls
       /\ report(w).shot = w.layout
  BY <1>5, <1>8, <1>9 DEF ShootType
<1> HIDE DEF w, report
<1>13. ~v.remotePlayback /\ v.pending = NoResult /\ Shows(v)
  BY <1>1 DEF Agrees, Shows
<1>14. ~w.remotePlayback /\ w.pending = NoResult
  BY <1>4, <1>6, <1>9, <1>13
<1>15. /\ w.table = v.table \ dropped /\ w.table \subseteq r.table /\ r.table \subseteq v.table
       /\ w.pocketedBalls = v.pocketedBalls \cup (v.table \ w.table)
  BY <1>4, <1>5, <1>6, <1>9
<1>16. currentPlayer = p
  BY <1>13 DEF TurnOf, HasTurn
<1>17. w \in BrowserType
  BY <1>8 DEF Sound
<1>18. Reported(v, w, Chunk(r), report(w))
  BY <1>9, <1>10, <1>12, <1>14, <1>15 DEF Reported
<1> QED
  BY <1>10, <1>11, <1>12, <1>13, <1>16, <1>17, <1>18 DEF Settles

(* The result a and the turn b that answer the report m.                     *)
Answer(m, a, b, next, left, place) ==
    /\ a.player = next /\ b.player = next
    /\ a.result.pocketed = m.pocketed /\ a.result.shot = m.shot
    /\ left = m.balls \ m.pocketed /\ place = m.shot

LEMMA AcceptEffect ==
    ASSUME IInv, \A q \in Players : TurnOf(q), \A q \in Players : CourierOf(q),
           NEW p \in Players, Accepts(p)
    PROVE  /\ currentPlayer = p /\ currentPlayer' \in Players /\ browser' = browser /\ UNCHANGED network
           /\ outbox' = [q \in Players |-> <<>>]
           /\ \E m \in ShootType, a \in ShotResultType, b \in TurnType :
                /\ outbox[p] = One(m)
                /\ inbox' = [q \in Players |-> inbox[q] \o Two(a, b)]
                /\ Answer(m, a, b, currentPlayer', balls', layout')
<1> DEFINE m == Head(outbox[p])
           result == [type |-> "shot_result", player |-> currentPlayer',
                      result |-> [balls |-> balls', pocketed |-> m.pocketed, shot |-> m.shot]]
           turn == [type |-> "turn", player |-> currentPlayer']
<1>1. outbox[p] \in Seq(UpType) /\ outbox[p] # <<>> /\ m \in ShootType /\ m.type = "shoot"
  BY TakesTyped, Kinds DEF IInv, Carried, Accepts, Takes
<1>2. currentPlayer = p /\ currentPlayer' \in Players /\ balls' \subseteq Balls
  BY <1>1 DEF Accepts, ShootType
<1>3. /\ result \in ShotResultType /\ turn \in TurnType
      /\ result.player = currentPlayer' /\ turn.player = currentPlayer'
      /\ result.result.pocketed = m.pocketed /\ result.result.shot = m.shot
  BY <1>1, <1>2 DEF ShotResultType, ResultType, TurnType, ShootType
<1>4. /\ outbox' = [outbox EXCEPT ![p] = Tail(outbox[p])]
      /\ browser' = browser /\ UNCHANGED network
      /\ inbox' = [q \in Players |-> Delivers(q, Two(result, turn))]
      /\ balls' = m.balls \ m.pocketed /\ layout' = m.shot
  BY DEF Accepts, Takes, Two
<1>5. outbox[p] = One(m)
  <2>1. \A i \in 1 .. Len(outbox[p]) : outbox[p][i].type = "shoot" => i = Len(outbox[p])
    BY <1>2 DEF CourierOf, QueuesOf
  <2>2. 1 \in 1 .. Len(outbox[p]) /\ outbox[p][1] = m
    BY <1>1, TailItems
  <2>3. Len(outbox[p]) = 1
    BY <1>1, <2>1, <2>2
  <2> QED
    BY <1>1, <2>2, <2>3 DEF One
<1>6. Tail(outbox[p]) = <<>>
  BY <1>1, <1>5, OneTyped
<1>7. \A q \in Players : q # p => outbox[q] = <<>>
  BY <1>2 DEF CourierOf, QueuesOf
<1>8. outbox' = [q \in Players |-> <<>>]
  BY <1>4, <1>6, <1>7 DEF IInv, Carried
<1> HIDE DEF m, result, turn
<1>9. inbox' = [q \in Players |-> inbox[q] \o Two(result, turn)]
  BY <1>4, Connected
<1>10. Answer(m, result, turn, currentPlayer', balls', layout')
  BY <1>3, <1>4 DEF Answer
<1> QED
  BY <1>1, <1>2, <1>3, <1>4, <1>5, <1>8, <1>9, <1>10

(* Who neither simulates a shot nor has a message under way has no report.   *)
LEMMA NoReport ==
    ASSUME NEW v, ~Shows(v)
    PROVE  ReportOf(v, <<>>)
BY DEF ReportOf

(* The player not to move is idle. *)
LEMMA OtherIdle ==
    ASSUME NEW p \in Players, TurnOf(p), CourierOf(p), currentPlayer # p
    PROVE  ~Shows(browser[p]) /\ ~browser[p].isMyTurn /\ outbox[p] = <<>> /\ ~Reports(outbox[p])
BY DEF TurnOf, HasTurn, CourierOf, QueuesOf

(* Who has a shot under way has been sent nothing since. *)
LEMMA ShooterHeard ==
    ASSUME IInv, NEW p \in Players, TurnOf(p), CourierOf(p), Shows(browser[p]) \/ Reports(outbox[p])
    PROVE  /\ currentPlayer = p /\ inbox[p] = <<>> /\ ~browser[p].remotePlayback
           /\ browser[p].pending = NoResult
<1>1. currentPlayer = p /\ ~Grants(inbox[p], p)
  BY DEF TurnOf, HasTurn, OneTurn
<1>2. inbox[p] = <<>>
  <2> SUFFICES ASSUME inbox[p] # <<>> PROVE FALSE
    OBVIOUS
  <2>1. Grant(inbox[p][Len(inbox[p])], p)
    BY <1>1 DEF CourierOf, QueuesOf
  <2>2. Len(inbox[p]) \in 1 .. Len(inbox[p])
    BY DEF IInv, Carried
  <2> QED
    BY <1>1, <2>1, <2>2 DEF Grants
<1>3. Agrees(browser[p])
  BY Connected
<1>4. Reports(outbox[p]) => ~browser[p].isSimulating
  BY DEF CourierOf, ReportOf, Reports
<1> QED
  BY <1>1, <1>2, <1>3, <1>4 DEF Agrees, Shows

(* Who may shoot has handled everything but perhaps the turn. *)
LEMMA TurnHeard ==
    ASSUME IInv, NEW p \in Players, TurnOf(p), CourierOf(p), browser[p].isMyTurn, ~TurnFollows(p)
    PROVE  currentPlayer = p /\ inbox[p] = <<>> /\ outbox[p] = <<>>
<1>1. currentPlayer = p
  BY DEF TurnOf, HasTurn
<1>2. inbox[p] = <<>>
  <2> SUFFICES ASSUME inbox[p] # <<>> PROVE FALSE
    OBVIOUS
  <2>1. Grant(inbox[p][Len(inbox[p])], p)
    BY <1>1 DEF CourierOf, QueuesOf
  <2>2. Len(inbox[p]) \in 1 .. Len(inbox[p]) /\ Head(inbox[p]) = inbox[p][1]
    BY DEF IInv, Carried
  <2>3. Len(inbox[p]) = 1 /\ inbox[p][1].type = "turn"
    BY <2>1, <2>2 DEF TurnOf, OneTurn
  <2> QED
    BY <2>2, <2>3 DEF TurnFollows
<1>3. ~Shows(browser[p]) /\ ~Reports(outbox[p])
  BY DEF TurnOf, OneTurn
<1> QED
  BY <1>1, <1>2, <1>3 DEF CourierOf, QueuesOf

--------------------------------------------------------------------------------
(* The steps keep these facts. *)

LEMMA CourierKept ==
    ASSUME NEW p \in Players, CourierOf(p), browser'[p] = browser[p], inbox'[p] = inbox[p],
           outbox'[p] = outbox[p], currentPlayer' = currentPlayer
    PROVE  CourierOf(p)'
BY DEF CourierOf, QueuesOf

(* The player not to move may be sent messages. *)
LEMMA CourierSent ==
    ASSUME NEW p \in Players, CourierOf(p), currentPlayer # p, browser'[p] = browser[p],
           outbox'[p] = outbox[p], currentPlayer' = currentPlayer
    PROVE  CourierOf(p)'
BY DEF CourierOf, QueuesOf

LEMMA ShootCourier ==
    ASSUME IInv, ~Hasty, NEW p \in Players, ExecutesShot(p),
           \A q \in Players : TurnOf(q), \A q \in Players : CourierOf(q)
    PROVE  \A q \in Players : CourierOf(q)'
<1>1. /\ currentPlayer = p /\ browser[p].isMyTurn /\ ~TurnFollows(p)
      /\ UNCHANGED <<server, inbox, network>>
  BY ShootEffect
<1>2. PICK w \in Sound, a \in AimType, b \in InitType :
        /\ browser' = [browser EXCEPT ![p] = w]
        /\ outbox' = [outbox EXCEPT ![p] = outbox[p] \o Two(a, b)]
        /\ Announced(browser[p], w, b)
  BY ShootEffect
<1>3. outbox[p] = <<>> /\ inbox[p] = <<>>
  BY <1>1, TurnHeard
<1>4. a \in UpType /\ b \in UpType /\ a.type # "shoot" /\ b.type # "shoot"
  BY DEF UpType, StreamType, AimType, InitType
<1>5. browser'[p] = w /\ outbox'[p] = Two(a, b)
  <2>1. <<>> \o Two(a, b) = Two(a, b)
    BY <1>4, SentFirst
  <2> QED
    BY <1>2, <1>3, <2>1 DEF IInv, Carried
<1>6. \A i \in 1 .. Len(Two(a, b)) : Two(a, b)[i].type # "shoot"
  BY <1>4, TwoTuple
<1>7. CourierOf(p)'
  BY <1>1, <1>2, <1>3, <1>5, <1>6 DEF Announced, CourierOf, QueuesOf, ReportOf, server
<1>8. ASSUME NEW q \in Players, q # p
      PROVE  CourierOf(q)'
  BY <1>1, <1>2, <1>8, CourierKept DEF IInv, Carried, server
<1> QED
  BY <1>7, <1>8

LEMMA SimulateCourier ==
    ASSUME IInv, NEW p \in Players, SimulatesFrame(p),
           \A q \in Players : TurnOf(q), \A q \in Players : CourierOf(q)
    PROVE  \A q \in Players : CourierOf(q)'
<1>1. currentPlayer = p /\ Shows(browser[p]) /\ UNCHANGED <<server, inbox, network>>
  BY SimulateEffect
<1>2. PICK w \in BrowserType, a \in ChunkType :
        /\ browser' = [browser EXCEPT ![p] = w]
        /\ outbox' = [outbox EXCEPT ![p] = outbox[p] \o One(a)]
        /\ Streamed(browser[p], w, a)
  BY SimulateEffect
<1>3. inbox[p] = <<>> /\ ~Reports(outbox[p]) /\ outbox[p] \in Seq(UpType)
  BY <1>1, ShooterHeard, Connected DEF TurnOf, OneTurn
<1>4. a \in UpType /\ a.type # "shoot"
  BY DEF UpType, StreamType, ChunkType
<1>5. browser'[p] = w /\ outbox'[p] = outbox[p] \o One(a) /\ inbox'[p] = <<>> /\ currentPlayer' = p
  BY <1>1, <1>2, <1>3 DEF IInv, Carried, server
<1>6. \A i \in 1 .. Len(outbox'[p]) : outbox'[p][i].type # "shoot"
  BY <1>3, <1>4, <1>5, OneItem DEF Reports
<1>7. Shows(w) /\ w.table \cap w.pocketedBalls = {}
  BY <1>1, <1>2 DEF Streamed, CourierOf, ReportOf
<1>8. QueuesOf(p)'
  BY <1>5, <1>6, <1>7 DEF QueuesOf
<1>9. ReportOf(w, outbox'[p])
  BY <1>6, <1>7 DEF ReportOf
<1>10. CourierOf(p)'
  BY <1>5, <1>8, <1>9 DEF CourierOf
<1>11. ASSUME NEW q \in Players, q # p
      PROVE  CourierOf(q)'
  BY <1>1, <1>2, <1>11, CourierKept DEF IInv, Carried, server
<1> QED
  BY <1>10, <1>11

LEMMA SettleCourier ==
    ASSUME IInv, NEW p \in Players, Settles(p),
           \A q \in Players : TurnOf(q), \A q \in Players : CourierOf(q)
    PROVE  \A q \in Players : CourierOf(q)'
<1>1. currentPlayer = p /\ Shows(browser[p]) /\ UNCHANGED <<server, inbox, network>>
  BY SettleEffect
<1>2. PICK w \in BrowserType, a \in ChunkType, b \in ShootType :
        /\ browser' = [browser EXCEPT ![p] = w]
        /\ outbox' = [outbox EXCEPT ![p] = outbox[p] \o Two(a, b)]
        /\ Reported(browser[p], w, a, b)
  BY SettleEffect
<1>3. inbox[p] = <<>> /\ ~Reports(outbox[p]) /\ outbox[p] \in Seq(UpType)
  BY <1>1, ShooterHeard, Connected DEF TurnOf, OneTurn
<1>4. a \in UpType /\ a.type # "shoot" /\ b \in UpType /\ b.type = "shoot"
  BY DEF UpType, StreamType, ChunkType, ShootType
<1>5. browser'[p] = w /\ outbox'[p] = outbox[p] \o Two(a, b) /\ inbox'[p] = <<>> /\ currentPlayer' = p
  BY <1>1, <1>2, <1>3 DEF IInv, Carried, server
<1>6. /\ Len(outbox[p]) \in Nat /\ Len(outbox'[p]) = Len(outbox[p]) + 2
      /\ outbox'[p][Len(outbox[p]) + 2] = b
      /\ \A i \in 1 .. Len(outbox'[p]) : outbox'[p][i].type = "shoot" => i = Len(outbox[p]) + 2
  <2>1. /\ Len(outbox[p]) \in Nat /\ Len(outbox'[p]) = Len(outbox[p]) + 2
        /\ \A i \in 1 .. Len(outbox[p]) : outbox'[p][i] = outbox[p][i]
        /\ outbox'[p][Len(outbox[p]) + 1] = a /\ outbox'[p][Len(outbox[p]) + 2] = b
    <3> DEFINE out == outbox[p]
    <3>1. out \in Seq(UpType) /\ outbox'[p] = out \o Two(a, b)
      BY <1>3, <1>5
    <3> HIDE DEF out
    <3>2. /\ Len(out) \in Nat /\ Len(out \o Two(a, b)) = Len(out) + 2
          /\ \A i \in 1 .. Len(out) : (out \o Two(a, b))[i] = out[i]
          /\ (out \o Two(a, b))[Len(out) + 1] = a /\ (out \o Two(a, b))[Len(out) + 2] = b
      BY <1>4, <3>1, TwoItems
    <3> QED
      BY <3>1, <3>2 DEF out
  <2>2. \A i \in 1 .. Len(outbox'[p]) : outbox'[p][i].type = "shoot" => i = Len(outbox[p]) + 2
    <3> SUFFICES ASSUME NEW i \in 1 .. Len(outbox'[p]), outbox'[p][i].type = "shoot"
                 PROVE  i = Len(outbox[p]) + 2
      OBVIOUS
    <3>1. i \in 1 .. Len(outbox[p]) => outbox'[p][i].type # "shoot"
      BY <1>3, <2>1 DEF Reports
    <3> QED
      BY <1>4, <2>1, <3>1
  <2> QED
    BY <2>1, <2>2
<1>7. Reports(outbox'[p])
  <2>1. Len(outbox[p]) + 2 \in 1 .. Len(outbox'[p])
    BY <1>6
  <2> QED
    BY <1>4, <1>6, <2>1 DEF Reports
<1>8. w.table \cap w.pocketedBalls = {}
  BY <1>1, <1>2 DEF Reported, CourierOf, ReportOf
<1>9. QueuesOf(p)'
  BY <1>5, <1>6, <1>7 DEF QueuesOf
<1>10. ReportOf(w, outbox'[p])
  BY <1>2, <1>6, <1>8 DEF Reported, ReportOf, Shows
<1>11. CourierOf(p)'
  BY <1>5, <1>9, <1>10 DEF CourierOf
<1>12. ASSUME NEW q \in Players, q # p
      PROVE  CourierOf(q)'
  BY <1>1, <1>2, <1>12, CourierKept DEF IInv, Carried, server
<1> QED
  BY <1>11, <1>12

--------------------------------------------------------------------------------
(* One call of update. *)

LEMMA LeastNumber ==
    ASSUME NEW T \in SUBSET Nat, T # {}
    PROVE  \E n \in T : \A m \in T : n <= m
<1> DEFINE R == OpToRel(<, Nat)
<1>1. IsWellFoundedOn(R, Nat)
  BY NatLessThanWellFounded
<1>2. \A x, y \in Nat : x < y => <<x, y>> \in R
  BY DEF OpToRel
<1> HIDE DEF R
<1>3. PICK x \in T : \A y \in T : ~ (<<y, x>> \in R)
  BY <1>1, WFMin
<1>4. x \in Nat
  OBVIOUS
<1>5. ASSUME NEW y \in T
      PROVE  ~(y < x)
  BY <1>2, <1>3, <1>4, Zenon
<1>6. ASSUME NEW y \in T
      PROVE  x <= y
  <2>1. y \in Nat
    OBVIOUS
  <2> QED
    BY <1>4, <1>5, <2>1
<1> QED
  BY <1>6

(* sampleTrajectory finds a frame whatever the times are. *)
LEMMA SampleExists ==
    ASSUME NEW frames \in Seq(FrameType), frames # <<>>, NEW elapsed \in Nat
    PROVE  LET i == SampleIndex(frames, elapsed)
           IN  /\ i \in 1 .. Len(frames)
               /\ \A j \in 2 .. i : frames[j].t <= elapsed
               /\ i < Len(frames) => frames[i + 1].t > elapsed
<1> DEFINE late == {j \in 2 .. Len(frames) : frames[j].t > elapsed}
           Fits(i) == /\ \A j \in 2 .. i : frames[j].t <= elapsed
                      /\ i < Len(frames) => frames[i + 1].t > elapsed
<1>1. Len(frames) \in Nat /\ Len(frames) >= 1
  OBVIOUS
<1>2. \A j \in 1 .. Len(frames) : frames[j].t \in Nat
  <2>1. \A j \in 1 .. Len(frames) : frames[j] \in FrameType
    OBVIOUS
  <2>2. \A f \in FrameType : f.t \in Nat
    BY Numbers DEF FrameType
  <2> QED
    BY <2>1, <2>2
<1>3. \E i \in 1 .. Len(frames) : Fits(i)
  <2>1. CASE late = {}
    <3>1. Fits(Len(frames))
      BY <1>1, <1>2, <2>1
    <3> QED
      BY <1>1, <3>1
  <2>2. CASE late # {}
    <3>1. late \in SUBSET Nat
      BY <1>1
    <3>2. PICK n \in late : \A m \in late : n <= m
      BY <2>2, <3>1, LeastNumber
    <3>3. n - 1 \in 1 .. Len(frames) /\ (n - 1) + 1 = n
      BY <1>1, <3>2
    <3>4. Fits(n - 1)
      BY <1>1, <1>2, <3>2, <3>3
    <3> QED
      BY <3>3, <3>4
  <2> QED
    BY <2>1, <2>2
<1>4. SampleIndex(frames, elapsed) = CHOOSE i \in 1 .. Len(frames) : Fits(i)
  BY DEF SampleIndex
<1>5. SampleIndex(frames, elapsed) \in 1 .. Len(frames) /\ Fits(SampleIndex(frames, elapsed))
  <2> HIDE DEF Fits
  <2> QED
    BY <1>3, <1>4
<1> QED
  BY <1>5

(* sampleTrajectory never goes back: while time passes and a shot's chunks add *)
(* frames behind those there are, the frame it shows is the same or a later    *)
(* one, whatever the frames' times are.                                        *)
THEOREM SampleNeverGoesBack ==
    ASSUME NEW frames \in Seq(FrameType), frames # <<>>, NEW chunk \in Seq(FrameType),
           NEW elapsed \in Nat, NEW later \in Nat, elapsed <= later
    PROVE  SampleIndex(frames, elapsed) <= SampleIndex(frames \o chunk, later)
<1> DEFINE more == frames \o chunk
           i == SampleIndex(frames, elapsed)
           k == SampleIndex(more, later)
<1>1. /\ more \in Seq(FrameType) /\ more # <<>>
      /\ Len(frames) \in Nat /\ Len(more) \in Nat /\ Len(frames) <= Len(more)
      /\ \A j \in 1 .. Len(frames) : more[j] = frames[j]
  OBVIOUS
<1>2. i \in 1 .. Len(frames) /\ \A j \in 2 .. i : frames[j].t <= elapsed
  BY SampleExists
<1>3. k \in 1 .. Len(more) /\ (k < Len(more) => more[k + 1].t > later)
  BY <1>1, SampleExists
<1>4. \A j \in 1 .. Len(frames) : frames[j].t \in Nat
  <2>1. \A j \in 1 .. Len(frames) : frames[j] \in FrameType
    OBVIOUS
  <2> QED
    BY <2>1, Numbers DEF FrameType
<1> HIDE DEF more, i, k
<1>5. ASSUME k < i
      PROVE  FALSE
  <2>1. k + 1 \in 2 .. i /\ k + 1 \in 1 .. Len(frames) /\ k < Len(more)
    BY <1>1, <1>2, <1>3, <1>5
  <2>2. frames[k + 1].t <= elapsed /\ frames[k + 1].t > later
    BY <1>1, <1>2, <1>3, <2>1
  <2> QED
    BY <1>4, <2>1, <2>2
<1>6. i <= k
  BY <1>1, <1>2, <1>3, <1>5
<1> QED
  BY <1>6 DEF i, k, more

(* A browser before and after: a replay goes on, ... *)
Replayed(v, w) ==
    /\ SameWait(v, w) /\ w.layout = v.layout /\ w.pocketedBalls = v.pocketedBalls
    /\ \/ w.table = v.table
       \/ /\ v.remotePlayback
          /\ \E i \in 1 .. Len(v.trajectoryFrames) : w.table = v.table \cap v.trajectoryFrames[i].balls

(* ... or it is over, and gives way to the result. *)
Finished(v, w) ==
    /\ v.remotePlayback /\ v.pending # NoResult /\ v.trajectoryFrames # <<>>
    /\ ~w.isSimulating /\ ~w.remotePlayback /\ w.pending = NoResult
    /\ w.layout = v.pending.shot
    /\ w.table = (v.table \cap v.trajectoryFrames[Len(v.trajectoryFrames)].balls) \ v.pending.pocketed

LEMMA AdvanceFields ==
    ASSUME NEW v \in Sound, NEW elapsed \in 0 .. MaxFrames, NEW aims \in BOOLEAN
    PROVE  LET a == Advances(v, elapsed, aims)
           IN  /\ Replayed(v, a) /\ a.replayActive = v.replayActive
               /\ v.replayActive /\ a.replayFinished =>
                    a.table = v.table \cap v.trajectoryFrames[Len(v.trajectoryFrames)].balls
<1> DEFINE u == UpdateRemotePlayback(v, elapsed)
           a == Advances(v, elapsed, aims)
           frames == v.trajectoryFrames
           n == SampleIndex(frames, elapsed)
<1>1. v \in BrowserType /\ Agrees(v) /\ frames \in Seq(FrameType) /\ elapsed \in Nat
  BY Numbers DEF Sound, BrowserType
<1>2. u \in BrowserType /\ a \in Sound /\ SameWait(v, a)
  BY <1>1, UpdateTyped, AdvanceSound, AdvanceSame
<1>3. a = [u EXCEPT !.aimReplayActive = u.aimReplayActive /\ aims]
  BY DEF Advances
<1>4. /\ a.table = u.table /\ a.layout = u.layout /\ a.pocketedBalls = u.pocketedBalls
      /\ a.replayActive = u.replayActive /\ a.replayFinished = u.replayFinished
  <2> HIDE DEF u, a
  <2> QED
    BY <1>2, <1>3 DEF BrowserType
<1>5. CASE v.replayActive
  <2>1. v.remotePlayback /\ frames # <<>>
    BY <1>1, <1>5 DEF Agrees
  <2>2. u = [v EXCEPT !.replayProgress = elapsed, !.replayFinished = SampleFinished(frames, elapsed),
                      !.table = v.table \cap frames[n].balls]
    BY <1>1, <1>5, <2>1 DEF UpdateRemotePlayback, BrowserType
  <2>3. n \in 1 .. Len(frames)
    BY <1>1, <2>1, SampleExists
  <2>4. SampleFinished(frames, elapsed) => n = Len(frames)
    BY DEF SampleFinished
  <2> HIDE DEF u, a, n
  <2>5. /\ u.table = v.table \cap frames[n].balls /\ u.layout = v.layout
        /\ u.pocketedBalls = v.pocketedBalls /\ u.replayActive = v.replayActive
        /\ u.replayFinished = SampleFinished(frames, elapsed)
    BY <1>1, <2>2 DEF BrowserType
  <2> QED
    BY <1>2, <1>4, <2>1, <2>3, <2>4, <2>5 DEF Replayed, a
<1>6. CASE ~v.replayActive
  <2>1. u = v
    BY <1>6 DEF UpdateRemotePlayback
  <2> HIDE DEF u, a
  <2> QED
    BY <1>2, <1>4, <1>6, <2>1 DEF Replayed, a
<1> QED
  BY <1>5, <1>6

LEMMA StartFields ==
    ASSUME NEW v \in BrowserType
    PROVE  LET w == StartRemoteReplay(v)
           IN  /\ w.table = v.table /\ w.layout = v.layout /\ w.pocketedBalls = v.pocketedBalls
               /\ \/ w.replayActive = v.replayActive /\ w.replayFinished = v.replayFinished
                  \/ ~v.replayActive /\ ~w.replayFinished
<1>1. CASE v.remotePlayback /\ ~v.replayActive /\ v.trajectoryFrames # <<>>
  BY <1>1 DEF StartRemoteReplay, BrowserType
<1>2. CASE ~(v.remotePlayback /\ ~v.replayActive /\ v.trajectoryFrames # <<>>)
  BY <1>2 DEF StartRemoteReplay, BrowserType
<1> QED
  BY <1>1, <1>2

LEMMA ApplyFields ==
    ASSUME NEW v \in BrowserType, NEW r
    PROVE  LET w == ApplyResult(v, r)
           IN  /\ w.table = v.table \ r.pocketed /\ w.layout = r.shot
               /\ w.pocketedBalls = v.pocketedBalls /\ w.trajectoryFrames = v.trajectoryFrames
               /\ w.isSimulating = v.isSimulating /\ w.isLocalShot = v.isLocalShot
BY DEF ApplyResult, BrowserType

LEMMA EndFields ==
    ASSUME NEW v \in BrowserType
    PROVE  EndRemotePlayback(v).table = v.table
BY DEF EndRemotePlayback, BeginRemotePlayback, BrowserType

LEMMA FinishFields ==
    ASSUME NEW v \in Sound, v.pending # NoResult
    PROVE  LET w == FinishRemoteShotVisual(v)
           IN  /\ ~w.isSimulating /\ ~w.remotePlayback /\ w.pending = NoResult
               /\ w.layout = v.pending.shot /\ w.table = v.table \ v.pending.pocketed
<1> DEFINE e == EndRemotePlayback(v)
           a == ApplyResult(e, v.pending)
           w == FinishRemoteShotVisual(v)
<1>1. v \in BrowserType /\ v.pending \in ResultType
  BY DEF Sound, BrowserType
<1>2. e \in BrowserType /\ e.table = v.table
  BY <1>1, EndTyped, EndFields
<1>3. a \in BrowserType /\ a.table = v.table \ v.pending.pocketed /\ a.layout = v.pending.shot
  BY <1>1, <1>2, ApplyTyped, ApplyFields
<1>4. w = [a EXCEPT !.pending = NoResult, !.isSimulating = FALSE,
                    !.aimSamples = FALSE, !.aimReplayActive = FALSE]
  BY DEF FinishRemoteShotVisual
<1>5. ~w.isSimulating /\ ~w.remotePlayback
  BY FinishUnopened
<1> HIDE DEF a, w
<1>6. w.pending = NoResult /\ w.layout = a.layout /\ w.table = a.table
  BY <1>3, <1>4 DEF BrowserType
<1> QED
  BY <1>3, <1>5, <1>6 DEF w

LEMMA UpdateEffect ==
    ASSUME NEW v \in Sound, NEW elapsed \in 0 .. MaxFrames, NEW aims \in BOOLEAN
    PROVE  LET w == GivesWay(StartsLate(Advances(v, elapsed, aims)))
           IN  Replayed(v, w) \/ Finished(v, w)
<1> DEFINE a == Advances(v, elapsed, aims)
           s == StartsLate(a)
           w == GivesWay(s)
<1>1. /\ a \in Sound /\ Replayed(v, a) /\ a.replayActive = v.replayActive
      /\ v.replayActive /\ a.replayFinished =>
           a.table = v.table \cap v.trajectoryFrames[Len(v.trajectoryFrames)].balls
  BY AdvanceSound, AdvanceFields
<1> HIDE DEF a
<1>2. /\ s \in Sound /\ SameWait(a, s)
      /\ s.table = a.table /\ s.layout = a.layout /\ s.pocketedBalls = a.pocketedBalls
      /\ \/ s.replayActive = a.replayActive /\ s.replayFinished = a.replayFinished
         \/ ~a.replayActive /\ ~s.replayFinished
  <2>1. a \in BrowserType
    BY <1>1 DEF Sound
  <2>2. CASE ~a.aimReplayActive /\ a.pending # NoResult /\ ~a.remoteShotReplayStarted
    BY <1>1, <2>1, <2>2, StartSound, StartSame, StartFields DEF StartsLate
  <2>3. CASE ~(~a.aimReplayActive /\ a.pending # NoResult /\ ~a.remoteShotReplayStarted)
    BY <1>1, <2>3 DEF StartsLate, SameWait
  <2> QED
    BY <2>2, <2>3
<1> HIDE DEF s
<1>3. Replayed(v, s)
  BY <1>1, <1>2 DEF Replayed, SameWait
<1>4. CASE s.pending # NoResult /\ s.replayActive /\ s.replayFinished
  <2>1. w = FinishRemoteShotVisual(s)
    BY <1>4 DEF GivesWay
  <2>2. /\ ~w.isSimulating /\ ~w.remotePlayback /\ w.pending = NoResult
        /\ w.layout = s.pending.shot /\ w.table = s.table \ s.pending.pocketed
    BY <1>2, <1>4, <2>1, FinishFields
  <2>3. v.replayActive /\ s.pending = v.pending /\ Agrees(v)
    BY <1>1, <1>2, <1>3, <1>4 DEF Replayed, SameWait, Sound
  <2>4. s.table = v.table \cap v.trajectoryFrames[Len(v.trajectoryFrames)].balls
    BY <1>1, <1>2, <1>4, <2>3
  <2> HIDE DEF w
  <2>5. Finished(v, w)
    BY <1>4, <2>2, <2>3, <2>4 DEF Finished, Agrees
  <2> QED
    BY <2>5 DEF w, s, a
<1>5. CASE ~(s.pending # NoResult /\ s.replayActive /\ s.replayFinished)
  BY <1>3, <1>5 DEF GivesWay, s, a
<1> QED
  BY <1>4, <1>5

--------------------------------------------------------------------------------
(* What the handlers make of a browser's balls. *)

Same(v, w) == SameWait(v, w) /\ w.table = v.table /\ w.layout = v.layout

Begun(v, w, m) ==
    /\ w.remotePlayback /\ w.trajectoryFrames = <<>> /\ w.pending = NoResult
    /\ w.table = v.table /\ w.layout = m.layout

Buffered(v, w, m) ==
    /\ w.remotePlayback /\ w.trajectoryFrames = Append(v.trajectoryFrames, m.frame)
    /\ w.pending = v.pending /\ w.table = v.table /\ w.layout = v.layout

KeptBack(v, w, m) ==
    /\ w.remotePlayback /\ w.trajectoryFrames = v.trajectoryFrames /\ w.pending = m.result
    /\ w.table = v.table /\ w.layout = v.layout

Applied(v, w, m) ==
    /\ ~w.remotePlayback /\ w.pending = NoResult
    /\ w.table = v.table \ m.result.pocketed /\ w.layout = m.result.shot

LEMMA HandledEffect ==
    ASSUME NEW p \in Players, NEW v \in Sound, NEW m \in DownType
    PROVE  LET w == Handled(p, v, m)
           IN  /\ m.type \in {"aim_chunk", "turn"} => Same(v, w)
               /\ m.type = "shot_init" => IF v.isSimulating THEN Same(v, w) ELSE Begun(v, w, m)
               /\ m.type = "shot_chunk" => IF v.remotePlayback THEN Buffered(v, w, m) ELSE Same(v, w)
               /\ m.type = "shot_result" => IF v.remotePlayback THEN KeptBack(v, w, m) ELSE Applied(v, w, m)
<1> DEFINE w == Handled(p, v, m)
<1>1. v \in BrowserType /\ Agrees(v)
  BY DEF Sound
<1>2. CASE m.type = "aim_chunk"
  <2>1. w \in {v, [v EXCEPT !.aimSamples = TRUE]}
    BY <1>2 DEF Handled, OnAimChunk
  <2>2. Same(v, w)
    BY <1>1, <2>1 DEF Same, SameWait, BrowserType
  <2> QED
    BY <1>2, <2>2
<1>3. CASE m.type = "shot_init"
  <2>1. w = PlayOpponentShot(v, m)
    BY <1>3 DEF Handled
  <2>2. CASE v.isSimulating
    <3>1. w = v
      BY <2>1, <2>2 DEF PlayOpponentShot
    <3>2. Same(v, w)
      BY <3>1 DEF Same, SameWait
    <3> QED
      BY <1>3, <2>2, <3>2
  <2>3. CASE ~v.isSimulating
    <3> DEFINE b == BeginRemotePlayback(v)
    <3>1. /\ b \in BrowserType /\ b.remotePlayback = TRUE /\ b.trajectoryFrames = <<>>
          /\ b.table = v.table
      BY <1>1, BeginTyped DEF BeginRemotePlayback, BrowserType
    <3>2. PlayOpponentShot(v, m) =
            [b EXCEPT !.isSimulating = TRUE, !.isLocalShot = FALSE, !.isMyTurn = FALSE,
                      !.pocketedBalls = {}, !.layout = m.layout,
                      !.remoteShotReplayStarted = FALSE, !.pending = NoResult,
                      !.aimReplayActive = v.aimSamples]
      BY <2>3 DEF PlayOpponentShot
    <3> HIDE DEF b
    <3>3. Begun(v, w, m)
      BY <2>1, <3>1, <3>2 DEF BrowserType, Begun
    <3> HIDE DEF w
    <3> QED
      BY <1>3, <2>3, <3>3 DEF w
  <2> QED
    BY <2>2, <2>3
<1>4. CASE m.type = "shot_chunk"
  <2>1. w = OnShotChunk(v, m)
    BY <1>4 DEF Handled
  <2>2. CASE ~v.remotePlayback
    <3>1. w = v
      BY <2>1, <2>2 DEF OnShotChunk
    <3>2. Same(v, w)
      BY <3>1 DEF Same, SameWait
    <3> QED
      BY <1>4, <2>2, <3>2
  <2>3. CASE v.remotePlayback
    <3>1. w = [v EXCEPT !.trajectoryFrames = Append(v.trajectoryFrames, m.frame)]
      BY <1>1, <2>1, <2>3 DEF OnShotChunk, BrowserType, Agrees
    <3>2. Buffered(v, w, m)
      BY <1>1, <2>3, <3>1 DEF BrowserType, Buffered
    <3> HIDE DEF w
    <3> QED
      BY <1>4, <2>3, <3>2 DEF w
  <2> QED
    BY <2>2, <2>3
<1>5. CASE m.type = "shot_result"
  <2> DEFINE r == [v EXCEPT !.pending = m.result]
             kept == StartRemoteReplay(r)
             a == ApplyResult(v, m.result)
             applied == [a EXCEPT !.isSimulating = FALSE]
             shown == IF v.isSimulating /\ ~v.isLocalShot THEN kept ELSE applied
  <2>1. m.result \in ResultType
    BY <1>5, Kinds DEF ShotResultType
  <2>2. w = [shown EXCEPT !.isMyTurn = (m.player = p)]
    BY <1>5 DEF Handled, AnimateShotResult
  <2>3. CASE v.remotePlayback
    <3>1. r \in BrowserType
      BY <1>1, <2>1, Zenon DEF BrowserType
    <3>2. /\ r.pending = m.result /\ r.trajectoryFrames = v.trajectoryFrames
          /\ r.remotePlayback = v.remotePlayback /\ r.table = v.table /\ r.layout = v.layout
      BY <1>1, <2>1 DEF BrowserType
    <3> HIDE DEF r
    <3>3. SameWait(r, kept) /\ kept.table = r.table /\ kept.layout = r.layout /\ DOMAIN kept = DOMAIN r
      <4>1. DOMAIN kept = DOMAIN r
        BY <3>1 DEF StartRemoteReplay, BrowserType
      <4> QED
        BY <3>1, <4>1, StartSame, StartFields
    <3>4. w = [kept EXCEPT !.isMyTurn = (m.player = p)]
      BY <1>1, <2>2, <2>3 DEF Agrees
    <3> HIDE DEF kept, w
    <3>5. /\ w.pending = kept.pending /\ w.trajectoryFrames = kept.trajectoryFrames
          /\ w.remotePlayback = kept.remotePlayback /\ w.table = kept.table /\ w.layout = kept.layout
      BY <3>1, <3>3, <3>4 DEF BrowserType
    <3>6. KeptBack(v, w, m)
      BY <2>3, <3>2, <3>3, <3>5 DEF SameWait, KeptBack
    <3> QED
      BY <1>5, <2>3, <3>6 DEF w
  <2>4. CASE ~v.remotePlayback
    <3>1. /\ a \in BrowserType /\ a.remotePlayback = v.remotePlayback /\ a.pending = v.pending
          /\ a.table = v.table \ m.result.pocketed /\ a.layout = m.result.shot
      BY <1>1, <2>1, ApplyTyped, ApplyFields
    <3> HIDE DEF a
    <3>2. w = [applied EXCEPT !.isMyTurn = (m.player = p)]
      BY <1>1, <2>2, <2>4 DEF Agrees
    <3>3. /\ applied \in BrowserType /\ applied.remotePlayback = a.remotePlayback
          /\ applied.pending = a.pending /\ applied.table = a.table /\ applied.layout = a.layout
      BY <3>1, Zenon DEF BrowserType
    <3> HIDE DEF applied, w
    <3>4. /\ w.remotePlayback = applied.remotePlayback
          /\ w.pending = applied.pending /\ w.table = applied.table /\ w.layout = applied.layout
      BY <3>2, <3>3 DEF BrowserType
    <3>5. Applied(v, w, m)
      BY <1>1, <2>4, <3>1, <3>3, <3>4 DEF Applied, Agrees
    <3> QED
      BY <1>5, <2>4, <3>5 DEF w
  <2> QED
    BY <2>3, <2>4
<1>6. CASE m.type = "turn"
  <2>1. w = [v EXCEPT !.isMyTurn = (m.player = p)]
    BY <1>6 DEF Handled
  <2>2. Same(v, w)
    BY <1>1, <2>1 DEF Same, SameWait, BrowserType
  <2> HIDE DEF w
  <2> QED
    BY <1>6, <2>2 DEF w
<1>7. CASE m.type = "reconnected"
  BY <1>7
<1> QED
  BY <1>2, <1>3, <1>4, <1>5, <1>6, <1>7, Kinds

--------------------------------------------------------------------------------
(* The other steps keep the couriers. *)

LEMMA UpdateCourier ==
    ASSUME IInv, NEW p \in Players, Updates(p),
           \A q \in Players : TurnOf(q), \A q \in Players : CourierOf(q)
    PROVE  \A q \in Players : CourierOf(q)'
<1>1. PICK elapsed \in browser[p].replayProgress .. MaxFrames, aims \in BOOLEAN :
        browser' = [browser EXCEPT ![p] = GivesWay(StartsLate(Advances(browser[p], elapsed, aims)))]
  BY DEF Updates
<1> DEFINE v == browser[p]
           w == GivesWay(StartsLate(Advances(v, elapsed, aims)))
<1>2. v \in Sound /\ elapsed \in 0 .. MaxFrames
  <2>1. v \in Sound /\ v.replayProgress \in 0 .. MaxFrames
    BY DEF IInv, Sound, BrowserType
  <2> QED
    BY <2>1, Numbers
<1>3. Passive(v, w) /\ (Replayed(v, w) \/ Finished(v, w))
  BY <1>2, UpdatePassive, UpdateEffect
<1>4. browser'[p] = w /\ \A q \in Players : q # p => browser'[q] = browser[q]
  BY <1>1 DEF IInv
<1>5. currentPlayer' = currentPlayer /\ inbox' = inbox /\ outbox' = outbox
  BY DEF Updates, server
<1> HIDE DEF w
<1>6. CourierOf(p)'
  <2>1. CASE Shows(v) \/ Reports(outbox[p])
    <3>1. ~v.remotePlayback
      BY <2>1, ShooterHeard
    <3>2. /\ w.isSimulating = v.isSimulating /\ w.isLocalShot = v.isLocalShot
          /\ w.table = v.table /\ w.layout = v.layout /\ w.pocketedBalls = v.pocketedBalls
      BY <1>3, <3>1 DEF Replayed, Finished, SameWait
    <3> QED
      BY <1>4, <1>5, <3>2 DEF CourierOf, QueuesOf, ReportOf, Shows
  <2>2. CASE ~(Shows(v) \/ Reports(outbox[p]))
    <3>1. ~Shows(w) /\ outbox[p] = <<>>
      BY <1>3, <2>2 DEF Passive, CourierOf, QueuesOf
    <3>2. ReportOf(w, <<>>)
      BY <3>1, NoReport
    <3> QED
      BY <1>4, <1>5, <3>1, <3>2 DEF CourierOf, QueuesOf
  <2> QED
    BY <2>1, <2>2
<1>7. ASSUME NEW q \in Players, q # p
      PROVE  CourierOf(q)'
  BY <1>4, <1>5, <1>7, CourierKept
<1> QED
  BY <1>6, <1>7

LEMMA ReceiveCourier ==
    ASSUME IInv, NEW p \in Players, Receives(p),
           \A q \in Players : TurnOf(q), \A q \in Players : CourierOf(q)
    PROVE  \A q \in Players : CourierOf(q)'
<1> DEFINE v == browser[p]
           in == inbox[p]
           w == Handled(p, v, Head(in))
<1>1. /\ v \in Sound /\ in \in Seq(DownType) /\ in # <<>> /\ Head(in) \in DownType
      /\ inbox'[p] = Tail(in) /\ browser'[p] = w
      /\ \A q \in Players : q # p => browser'[q] = browser[q] /\ inbox'[q] = inbox[q]
      /\ currentPlayer' = currentPlayer /\ outbox' = outbox
  BY DEF IInv, Carried, Receives, server
<1>2. ~Shows(v) /\ ~Reports(outbox[p])
  BY <1>1, ShooterHeard
<1>3. outbox[p] = <<>>
  BY <1>2 DEF CourierOf, QueuesOf
<1>4. Head(in).type # "reconnected"
  BY <1>1, TailItems DEF TurnOf, OneTurn, Paired
<1>5. ~Shows(w)
  BY <1>1, <1>2, <1>4, HandledTurn
<1> HIDE DEF w
<1>6. ReportOf(w, <<>>)
  BY <1>5, NoReport
<1>7. currentPlayer = p /\ Tail(in) # <<>> => Grant(Tail(in)[Len(Tail(in))], p)
  <2> SUFFICES ASSUME currentPlayer = p, Tail(in) # <<>>
               PROVE  Grant(Tail(in)[Len(Tail(in))], p)
    OBVIOUS
  <2>1. Grant(in[Len(in)], p)
    BY <1>1 DEF CourierOf, QueuesOf
  <2>2. Tail(in)[Len(Tail(in))] = in[Len(in)]
    BY <1>1, TailItems
  <2> QED
    BY <2>1, <2>2
<1>8. CourierOf(p)'
  BY <1>1, <1>3, <1>6, <1>7 DEF CourierOf, QueuesOf
<1>9. ASSUME NEW q \in Players, q # p
      PROVE  CourierOf(q)'
  BY <1>1, <1>9, CourierKept
<1> QED
  BY <1>8, <1>9

LEMMA RelayCourier ==
    ASSUME IInv, NEW p \in Players, Relays(p),
           \A q \in Players : TurnOf(q), \A q \in Players : CourierOf(q)
    PROVE  \A q \in Players : CourierOf(q)'
<1> DEFINE out == outbox[p]
           v == browser[p]
<1>1. /\ out \in Seq(UpType) /\ out # <<>> /\ Head(out).type # "shoot"
      /\ outbox'[p] = Tail(out) /\ browser' = browser /\ currentPlayer' = currentPlayer
      /\ inbox'[p] = inbox[p]
      /\ \A q \in Players : q # p => outbox'[q] = outbox[q]
  BY Opponents DEF IInv, Carried, Relays, Relayed, Takes, server
<1>2. currentPlayer = p
  BY <1>1 DEF CourierOf, QueuesOf
<1>3. /\ Shows(v) \/ Reports(out)
      /\ \A i \in 1 .. Len(out) : out[i].type = "shoot" => i = Len(out)
      /\ inbox[p] # <<>> => Grant(inbox[p][Len(inbox[p])], p)
      /\ ReportOf(v, out)
  BY <1>1, <1>2 DEF CourierOf, QueuesOf
<1>4. /\ Len(out) \in Nat /\ 1 \in 1 .. Len(out) /\ Head(out) = out[1]
      /\ Len(Tail(out)) = Len(out) - 1
      /\ \A i \in 1 .. Len(Tail(out)) : i + 1 \in 1 .. Len(out) /\ Tail(out)[i] = out[i + 1]
  BY <1>1, TailItems
<1>5. Reports(out) => Reports(Tail(out))
  <2> SUFFICES ASSUME NEW i \in 1 .. Len(out), out[i].type = "shoot" PROVE Reports(Tail(out))
    BY DEF Reports
  <2>1. i # 1
    BY <1>1, <1>4
  <2>2. i - 1 \in 1 .. Len(Tail(out)) /\ Tail(out)[i - 1] = out[i]
    BY <1>4, <2>1
  <2> QED
    BY <2>2 DEF Reports
<1>6. \A i \in 1 .. Len(Tail(out)) : Tail(out)[i].type = "shoot" => i = Len(Tail(out))
  BY <1>3, <1>4
<1>7. ReportOf(v, Tail(out))
  BY <1>3, <1>4 DEF ReportOf
<1>8. CourierOf(p)'
  BY <1>1, <1>2, <1>3, <1>5, <1>6, <1>7 DEF CourierOf, QueuesOf
<1>9. ASSUME NEW q \in Players, q # p
      PROVE  CourierOf(q)'
  BY <1>1, <1>2, <1>9, CourierSent
<1> QED
  BY <1>8, <1>9

LEMMA AcceptCourier ==
    ASSUME IInv, NEW p \in Players, Accepts(p),
           \A q \in Players : TurnOf(q), \A q \in Players : CourierOf(q)
    PROVE  \A q \in Players : CourierOf(q)'
<1>1. /\ currentPlayer = p /\ browser' = browser /\ outbox' = [q \in Players |-> <<>>]
  BY AcceptEffect
<1>2. PICK m \in ShootType, a \in ShotResultType, b \in TurnType :
        /\ outbox[p] = One(m)
        /\ inbox' = [q \in Players |-> inbox[q] \o Two(a, b)]
        /\ Answer(m, a, b, currentPlayer', balls', layout')
  BY AcceptEffect
<1> SUFFICES ASSUME NEW q \in Players PROVE CourierOf(q)'
  OBVIOUS
<1>3. ~Shows(browser[q])
  <2>1. CASE q = p
    <3>1. Reports(outbox[p])
      BY <1>2, OneTuple DEF Reports, ShootType
    <3> QED
      BY <2>1, <3>1 DEF TurnOf, OneTurn
  <2>2. CASE q # p
    BY <1>1, <2>2, OtherIdle
  <2> QED
    BY <2>1, <2>2
<1>4. ReportOf(browser[q], <<>>)
  BY <1>3, NoReport
<1>5. a \in DownType /\ b \in DownType /\ b.type = "turn" /\ inbox[q] \in Seq(DownType)
  BY DEF DownType, ShotResultType, TurnType, IInv, Carried
<1>6. inbox'[q] = inbox[q] \o Two(a, b)
  BY <1>2
<1>7. inbox'[q][Len(inbox'[q])] = b
  BY <1>5, <1>6, TwoItems
<1>8. currentPlayer' = q => Grant(inbox'[q][Len(inbox'[q])], q)
  BY <1>2, <1>5, <1>7 DEF Answer, Grant
<1> QED
  BY <1>1, <1>4, <1>8 DEF CourierOf, QueuesOf

LEMMA InitCouriers == Init => Couriers
<1> SUFFICES ASSUME Init, NEW p \in Players PROVE CourierOf(p)
  BY DEF Couriers
<1>1. inbox[p] = <<>> /\ outbox[p] = <<>> /\ browser[p].isSimulating = FALSE
  BY DEF Init
<1> QED
  BY <1>1, NoReport DEF CourierOf, QueuesOf, Shows

--------------------------------------------------------------------------------
(* The balls.  While the sockets stay up, one stream of messages is under way *)
(* to a player: those on the way to it and, behind them, those of the         *)
(* opponent that the server still has to take.  Taking one changes nothing.   *)

AnyType == UpType \cup DownType

Stream(p) == inbox[p] \o outbox[Opponent(p)]

Frame(m) == m.type = "shot_chunk"

Ends(m) == m.type \in {"shoot", "shot_result"}

Pockets(m) == IF m.type = "shoot" THEN m.pocketed ELSE m.result.pocketed

ShotOf(m) == IF m.type = "shoot" THEN m.shot ELSE m.result.shot

Without(m, x) == Frame(m) /\ x \notin m.frame.balls

Hides(m, x) == Without(m, x) \/ (Ends(m) /\ x \in Pockets(m))

(* Ball x will be off the table of browser v when its replay is over. *)
Keeps(v, x) == v.pending # NoResult /\ x \in v.pending.pocketed

LastShows(v, x) ==
    v.trajectoryFrames = <<>> \/ x \in v.trajectoryFrames[Len(v.trajectoryFrames)].balls

Hidden(v, x) == v.remotePlayback /\ (Keeps(v, x) \/ ~LastShows(v, x))

(* It will be only by the result, which must not be overwritten before the    *)
(* next frame.                                                                *)
Starved(v, x) == v.remotePlayback /\ Keeps(v, x) /\ LastShows(v, x)

FedFirst(s) == \A j \in 1 .. Len(s) : Ends(s[j]) => \E k \in 1 .. j - 1 : Frame(s[k])

(* Two ends of shots have a frame between them. *)
Spaced(s) ==
    \A i, j \in 1 .. Len(s) :
        i < j /\ Ends(s[i]) /\ Ends(s[j]) => \E k \in i + 1 .. j - 1 : Frame(s[k])

(* A ball that is off does not come back. *)
Gone(s, x) == \A j \in 1 .. Len(s) : Frame(s[j]) => Without(s[j], x)

Ordered(s, x) ==
    \A i, j \in 1 .. Len(s) : i < j /\ Hides(s[i], x) /\ Frame(s[j]) => Without(s[j], x)

(* A ball that is on is nowhere shown to be off. *)
Shown(v, s, x) ==
    /\ x \in v.table
    /\ v.remotePlayback =>
         /\ ~Keeps(v, x)
         /\ \A i \in 1 .. Len(v.trajectoryFrames) : x \in v.trajectoryFrames[i].balls
    /\ \A i \in 1 .. Len(s) : ~Hides(s[i], x)

(* A ball that is off will be taken off. *)
Taken(v, s, x) == Hidden(v, x) \/ \E i \in 1 .. Len(s) : Ends(s[i]) /\ x \in Pockets(s[i])

(* Ball x on the browser v with stream s, when the balls in truth are on the  *)
(* table and a shot under way has pocketed those in falling.                  *)
BallOf(v, s, x, truth, falling) ==
    /\ Ordered(s, x)
    /\ Hidden(v, x) => Gone(s, x)
    /\ x \in truth => Shown(v, s, x)
    /\ x \in v.table /\ x \notin truth => x \in falling \/ Taken(v, s, x)
    /\ Starved(v, x) => FedFirst(s)

(* What matters to the balls of a browser. *)
Alike(v, w) ==
    /\ w.table = v.table /\ w.remotePlayback = v.remotePlayback
    /\ v.remotePlayback => w.pending = v.pending /\ w.trajectoryFrames = v.trajectoryFrames

LEMMA BallAlike ==
    ASSUME NEW v, NEW w, NEW s, NEW x, NEW truth, NEW falling,
           BallOf(v, s, x, truth, falling), Alike(v, w)
    PROVE  BallOf(w, s, x, truth, falling)
BY DEF BallOf, Alike, Hidden, Starved, Shown, Taken, Keeps, LastShows

LEMMA SpacedSent ==
    ASSUME NEW s \in Seq(AnyType), Spaced(s), NEW m \in AnyType,
           Ends(m) => Len(s) > 0 /\ Frame(s[Len(s)])
    PROVE  Spaced(s \o One(m))
<1> DEFINE t == s \o One(m)
<1>1. /\ Len(s) \in Nat /\ Len(t) = Len(s) + 1
      /\ \A i \in 1 .. Len(s) : t[i] = s[i]
      /\ t[Len(s) + 1] = m
  BY OneItem
<1> HIDE DEF t
<1> SUFFICES ASSUME NEW i \in 1 .. Len(t), NEW j \in 1 .. Len(t), i < j, Ends(t[i]), Ends(t[j])
             PROVE  \E k \in i + 1 .. j - 1 : Frame(t[k])
  BY DEF Spaced, t
<1>2. i \in 1 .. Len(s) /\ t[i] = s[i]
  BY <1>1
<1>3. CASE j \in 1 .. Len(s)
  <2>1. PICK k \in i + 1 .. j - 1 : Frame(s[k])
    BY <1>1, <1>2, <1>3 DEF Spaced
  <2>2. t[k] = s[k]
    BY <1>1, <1>2, <1>3
  <2> QED
    BY <2>1, <2>2
<1>4. CASE j = Len(s) + 1
  <2>1. Frame(s[Len(s)]) /\ Len(s) > 0
    BY <1>1, <1>4
  <2>2. i # Len(s)
    BY <1>2, <2>1 DEF Frame, Ends
  <2>3. Len(s) \in i + 1 .. j - 1 /\ t[Len(s)] = s[Len(s)]
    BY <1>1, <1>2, <1>4, <2>2
  <2> QED
    BY <2>1, <2>3
<1> QED
  BY <1>1, <1>3, <1>4

(* A frame, the report or another message is sent. *)
LEMMA BallSent ==
    ASSUME NEW v, NEW s \in Seq(AnyType), NEW m \in AnyType, NEW x,
           NEW truth, NEW falling, NEW left, NEW down,
           BallOf(v, s, x, truth, falling), left \subseteq truth,
           x \in left => ~Hides(m, x),
           Frame(m) /\ x \notin truth => Without(m, x),
           Ends(m) => Len(s) > 0 /\ Frame(s[Len(s)]),
           x \in falling \/ (x \in truth /\ x \notin left) =>
             x \in down \/ (Ends(m) /\ x \in Pockets(m))
    PROVE  BallOf(v, s \o One(m), x, left, down)
<1> DEFINE t == s \o One(m)
<1>1. /\ Len(s) \in Nat /\ Len(t) = Len(s) + 1
      /\ \A i \in 1 .. Len(s) : t[i] = s[i]
      /\ t[Len(s) + 1] = m
  BY OneItem
<1> HIDE DEF t
<1>2. \A i \in 1 .. Len(t) : (i \in 1 .. Len(s) /\ t[i] = s[i]) \/ (i = Len(s) + 1 /\ t[i] = m)
  BY <1>1
<1>3. Hidden(v, x) \/ (\E i \in 1 .. Len(s) : Hides(s[i], x)) => x \notin truth
  BY DEF BallOf, Shown, Hidden, LastShows
<1>4. Ordered(t, x)
  <2> SUFFICES ASSUME NEW i \in 1 .. Len(t), NEW j \in 1 .. Len(t), i < j, Hides(t[i], x), Frame(t[j])
               PROVE  Without(t[j], x)
    BY DEF Ordered
  <2>1. i \in 1 .. Len(s) /\ t[i] = s[i]
    BY <1>1
  <2>2. CASE j \in 1 .. Len(s)
    BY <1>1, <2>1, <2>2 DEF BallOf, Ordered
  <2>3. CASE j = Len(s) + 1
    BY <1>1, <1>3, <2>1, <2>3
  <2> QED
    BY <1>1, <2>2, <2>3
<1>5. Hidden(v, x) => Gone(t, x)
  BY <1>2, <1>3 DEF BallOf, Gone
<1>6. x \in left => Shown(v, t, x)
  BY <1>2 DEF BallOf, Shown
<1>7. Taken(v, s, x) \/ (Ends(m) /\ x \in Pockets(m)) => Taken(v, t, x)
  <2>1. Len(s) + 1 \in 1 .. Len(t)
    BY <1>1
  <2>2. \A i \in 1 .. Len(s) : i \in 1 .. Len(t)
    BY <1>1
  <2> QED
    BY <1>1, <2>1, <2>2 DEF Taken
<1>8. x \in v.table /\ x \notin left => x \in down \/ Taken(v, t, x)
  BY <1>7 DEF BallOf
<1>9. FedFirst(s) => FedFirst(t)
  <2> SUFFICES ASSUME FedFirst(s), NEW j \in 1 .. Len(t), Ends(t[j])
               PROVE  \E k \in 1 .. j - 1 : Frame(t[k])
    BY DEF FedFirst
  <2>1. CASE j \in 1 .. Len(s)
    <3>1. PICK k \in 1 .. j - 1 : Frame(s[k])
      BY <1>1, <2>1 DEF FedFirst
    <3>2. t[k] = s[k]
      BY <1>1, <2>1
    <3> QED
      BY <3>1, <3>2
  <2>2. CASE j = Len(s) + 1
    <3>1. Len(s) \in 1 .. j - 1 /\ Frame(t[Len(s)])
      BY <1>1, <2>2
    <3> QED
      BY <3>1
  <2> QED
    BY <1>1, <2>1, <2>2
<1> QED
  BY <1>4, <1>5, <1>6, <1>8, <1>9 DEF BallOf, t

(* The first message is handled. *)
LEMMA SpacedTaken ==
    ASSUME NEW s \in Seq(AnyType), s # <<>>, Spaced(s)
    PROVE  Spaced(Tail(s)) /\ (Ends(Head(s)) => FedFirst(Tail(s)))
<1> DEFINE t == Tail(s)
<1>1. /\ Len(s) \in Nat /\ 1 \in 1 .. Len(s) /\ Head(s) = s[1] /\ Len(t) = Len(s) - 1
      /\ \A i \in 1 .. Len(t) : i + 1 \in 1 .. Len(s) /\ t[i] = s[i + 1]
  BY TailItems
<1> HIDE DEF t
<1>2. ASSUME NEW i \in 0 .. Len(t), NEW j \in 1 .. Len(t), i < j, Ends(s[i + 1]), Ends(t[j])
      PROVE  \E k \in i + 1 .. j - 1 : Frame(t[k])
  <2>1. i + 1 \in 1 .. Len(s) /\ j + 1 \in 1 .. Len(s) /\ i + 1 < j + 1 /\ Ends(s[j + 1])
    BY <1>1, <1>2
  <2>2. PICK k \in (i + 1) + 1 .. (j + 1) - 1 : Frame(s[k])
    BY <1>2, <2>1 DEF Spaced
  <2>3. k - 1 \in i + 1 .. j - 1 /\ k - 1 \in 1 .. Len(t) /\ t[k - 1] = s[k]
    BY <1>1, <1>2, <2>2
  <2> QED
    BY <2>2, <2>3
<1>3. Spaced(t)
  BY <1>1, <1>2 DEF Spaced
<1>4. Ends(Head(s)) => FedFirst(t)
  <2> SUFFICES ASSUME Ends(Head(s)), NEW j \in 1 .. Len(t), Ends(t[j])
               PROVE  \E k \in 1 .. j - 1 : Frame(t[k])
    BY DEF FedFirst
  <2>1. 0 \in 0 .. Len(t) /\ 0 < j /\ Ends(s[0 + 1])
    BY <1>1
  <2>2. \E k \in 0 + 1 .. j - 1 : Frame(t[k])
    BY <1>2, <2>1
  <2> QED
    BY <2>2
<1> QED
  BY <1>3, <1>4 DEF t

LEMMA BallTaken ==
    ASSUME NEW p \in Players, NEW v \in Sound, NEW s \in Seq(AnyType), s # <<>>, Spaced(s),
           Head(s) \in DownType, Head(s).type # "reconnected",
           NEW x, NEW truth, NEW falling, BallOf(v, s, x, truth, falling)
    PROVE  BallOf(Handled(p, v, Head(s)), Tail(s), x, truth, falling)
<1> DEFINE t == Tail(s)
           m == Head(s)
           w == Handled(p, v, m)
<1>1. /\ Len(s) \in Nat /\ 1 \in 1 .. Len(s) /\ m = s[1] /\ Len(t) = Len(s) - 1
      /\ \A i \in 1 .. Len(t) : i + 1 \in 1 .. Len(s) /\ t[i] = s[i + 1]
  BY TailItems
<1>2. /\ m.type \in {"aim_chunk", "turn"} => Same(v, w)
      /\ m.type = "shot_init" => IF v.isSimulating THEN Same(v, w) ELSE Begun(v, w, m)
      /\ m.type = "shot_chunk" => IF v.remotePlayback THEN Buffered(v, w, m) ELSE Same(v, w)
      /\ m.type = "shot_result" => IF v.remotePlayback THEN KeptBack(v, w, m) ELSE Applied(v, w, m)
  BY HandledEffect
<1>3. v \in BrowserType /\ Agrees(v) /\ v.trajectoryFrames \in Seq(FrameType)
  BY DEF Sound, BrowserType
<1>4. Ends(m) => FedFirst(t)
  BY SpacedTaken
<1>5. m.type \in {"aim_chunk", "shot_init", "shot_chunk", "shot_result", "turn"}
  BY Kinds
<1>6. m.type = "shot_chunk" => m.frame \in FrameType
  BY Kinds DEF ChunkType
<1>7. m.type = "shot_result" => m.result \in ResultType /\ m.result # NoResult
  BY Kinds, ReplayAssumption DEF ShotResultType
<1> HIDE DEF t, m, w
<1>8. Ordered(t, x)
  <2> SUFFICES ASSUME NEW i \in 1 .. Len(t), NEW j \in 1 .. Len(t), i < j, Hides(t[i], x), Frame(t[j])
               PROVE  Without(t[j], x)
    BY DEF Ordered
  <2>1. i + 1 \in 1 .. Len(s) /\ j + 1 \in 1 .. Len(s) /\ i + 1 < j + 1
        /\ t[i] = s[i + 1] /\ t[j] = s[j + 1]
    BY <1>1
  <2> QED
    BY <2>1 DEF BallOf, Ordered
<1>9. /\ Gone(s, x) => Gone(t, x)
      /\ Hides(m, x) => Gone(t, x)
      /\ Frame(m) /\ Gone(s, x) => Without(m, x)
  <2>1. Gone(s, x) => Gone(t, x)
    BY <1>1 DEF Gone
  <2>2. Hides(m, x) => Gone(t, x)
    <3> SUFFICES ASSUME Hides(m, x), NEW j \in 1 .. Len(t), Frame(t[j]) PROVE Without(t[j], x)
      BY DEF Gone
    <3>1. j + 1 \in 1 .. Len(s) /\ 1 < j + 1 /\ t[j] = s[j + 1]
      BY <1>1
    <3> QED
      BY <1>1, <3>1 DEF BallOf, Ordered
  <2>3. Frame(m) /\ Gone(s, x) => Without(m, x)
    BY <1>1 DEF Gone
  <2> QED
    BY <2>1, <2>2, <2>3
<1>10. /\ (\A i \in 1 .. Len(s) : ~Hides(s[i], x)) => ~Hides(m, x) /\ \A i \in 1 .. Len(t) : ~Hides(t[i], x)
       /\ (\E i \in 1 .. Len(s) : Ends(s[i]) /\ x \in Pockets(s[i])) =>
            \/ Ends(m) /\ x \in Pockets(m)
            \/ \E i \in 1 .. Len(t) : Ends(t[i]) /\ x \in Pockets(t[i])
  <2>1. ASSUME NEW i \in 1 .. Len(s), i # 1
        PROVE  i - 1 \in 1 .. Len(t) /\ t[i - 1] = s[i]
    BY <1>1, <2>1
  <2> QED
    BY <1>1, <2>1
<1>11. ~Frame(m) /\ FedFirst(s) => ~Ends(m) /\ FedFirst(t)
  <2> SUFFICES ASSUME ~Frame(m), FedFirst(s) PROVE ~Ends(m) /\ FedFirst(t)
    OBVIOUS
  <2>1. ~Ends(m)
    BY <1>1 DEF FedFirst
  <2>2. ASSUME NEW j \in 1 .. Len(t), Ends(t[j])
        PROVE  \E k \in 1 .. j - 1 : Frame(t[k])
    <3>1. j + 1 \in 1 .. Len(s) /\ Ends(s[j + 1])
      BY <1>1, <2>2
    <3>2. PICK k \in 1 .. (j + 1) - 1 : Frame(s[k])
      BY <3>1 DEF FedFirst
    <3>3. k # 1
      BY <1>1, <3>2
    <3>4. k - 1 \in 1 .. j - 1 /\ t[k - 1] = s[k]
      BY <1>1, <3>2, <3>3
    <3> QED
      BY <3>2, <3>4
  <2> QED
    BY <2>1, <2>2 DEF FedFirst
<1>12. CASE Same(v, w) /\ ~Ends(m) /\ (Frame(m) => ~v.remotePlayback)
  <2>1. Alike(v, w)
    BY <1>12 DEF Same, SameWait, Alike
  <2>2. BallOf(v, t, x, truth, falling)
    BY <1>8, <1>9, <1>10, <1>11, <1>12 DEF BallOf, Hidden, Starved, Shown, Taken
  <2> QED
    BY <2>1, <2>2, BallAlike DEF t, m, w
<1>13. CASE Begun(v, w, m) /\ ~v.isSimulating /\ ~Ends(m) /\ ~Frame(m)
  <2>1. ~v.remotePlayback
    BY <1>3, <1>13 DEF Agrees
  <2>2. ~Hidden(w, x) /\ ~Starved(w, x) /\ w.table = v.table /\ w.trajectoryFrames = <<>> /\ ~Keeps(w, x)
    BY <1>13 DEF Begun, Hidden, Starved, Keeps, LastShows
  <2>3. x \in truth => Shown(w, t, x)
    BY <1>10, <2>2 DEF BallOf, Shown
  <2>4. x \in w.table /\ x \notin truth => x \in falling \/ Taken(w, t, x)
    BY <1>10, <1>13, <2>1, <2>2 DEF BallOf, Taken, Hidden
  <2> QED
    BY <1>8, <2>2, <2>3, <2>4 DEF BallOf, t, m, w
<1>14. CASE Buffered(v, w, m) /\ v.remotePlayback /\ Frame(m)
  <2> DEFINE frames == v.trajectoryFrames
             n == Len(frames)
  <2>1. /\ w.trajectoryFrames # <<>> /\ Len(w.trajectoryFrames) = n + 1 /\ n \in Nat
        /\ w.trajectoryFrames[n + 1] = m.frame
        /\ \A i \in 1 .. n : w.trajectoryFrames[i] = frames[i]
        /\ w.remotePlayback /\ w.table = v.table /\ (Keeps(w, x) <=> Keeps(v, x))
    BY <1>3, <1>6, <1>14 DEF Buffered, Keeps, Frame
  <2>2. LastShows(w, x) <=> ~Without(m, x)
    BY <1>14, <2>1 DEF LastShows, Without
  <2>3. Hidden(v, x) => Without(m, x)
    BY <1>9, <1>14 DEF BallOf
  <2>4. Hidden(w, x) <=> Without(m, x)
    BY <1>14, <2>1, <2>2, <2>3 DEF Hidden
  <2>5. Hidden(w, x) => Gone(t, x)
    BY <1>9, <2>4 DEF Hides
  <2>6. ~Ends(m)
    BY <1>14 DEF Frame, Ends
  <2>7. ~Starved(w, x)
    BY <1>14, <2>1, <2>2, <2>3 DEF Starved, Hidden
  <2>8. x \in truth => Shown(w, t, x)
    <3> SUFFICES ASSUME x \in truth PROVE Shown(w, t, x)
      OBVIOUS
    <3>1. Shown(v, s, x)
      BY DEF BallOf
    <3>2. x \in m.frame.balls /\ \A i \in 1 .. Len(t) : ~Hides(t[i], x)
      BY <1>10, <1>14, <3>1 DEF Shown, Hides, Without
    <3>3. \A i \in 1 .. Len(w.trajectoryFrames) : x \in w.trajectoryFrames[i].balls
      BY <1>14, <2>1, <3>1, <3>2 DEF Shown
    <3> QED
      BY <1>14, <2>1, <3>1, <3>2, <3>3 DEF Shown
  <2>9. x \in w.table /\ x \notin truth => x \in falling \/ Taken(w, t, x)
    BY <1>10, <2>1, <2>3, <2>4, <2>6 DEF BallOf, Taken
  <2> QED
    BY <1>8, <2>5, <2>7, <2>8, <2>9 DEF BallOf, t, m, w
<1>15. CASE KeptBack(v, w, m) /\ v.remotePlayback /\ m.type = "shot_result"
  <2>1. /\ Ends(m) /\ ~Frame(m) /\ Pockets(m) = m.result.pocketed
        /\ w.remotePlayback /\ w.table = v.table /\ w.trajectoryFrames = v.trajectoryFrames
        /\ (LastShows(w, x) <=> LastShows(v, x))
        /\ (Keeps(w, x) <=> x \in Pockets(m))
    BY <1>7, <1>15 DEF KeptBack, Ends, Frame, Pockets, Keeps, LastShows
  <2>2. ~Starved(v, x)
    BY <1>11, <2>1 DEF BallOf
  <2>3. Hidden(v, x) => ~LastShows(v, x)
    BY <2>2 DEF Starved, Hidden
  <2>4. Hidden(w, x) <=> x \in Pockets(m) \/ Hidden(v, x)
    BY <1>15, <2>1, <2>3 DEF Hidden
  <2>5. Hidden(w, x) => Gone(t, x)
    BY <1>9, <2>1, <2>4 DEF BallOf, Hides
  <2>6. x \in truth => Shown(w, t, x)
    BY <1>10, <1>15, <2>1 DEF BallOf, Shown, Hides
  <2>7. x \in w.table /\ x \notin truth => x \in falling \/ Taken(w, t, x)
    BY <1>10, <2>1, <2>4 DEF BallOf, Taken
  <2>8. FedFirst(t)
    BY <1>4, <2>1
  <2> QED
    BY <1>8, <2>5, <2>6, <2>7, <2>8 DEF BallOf, t, m, w
<1>16. CASE Applied(v, w, m) /\ ~v.remotePlayback /\ m.type = "shot_result"
  <2>1. /\ Ends(m) /\ Pockets(m) = m.result.pocketed /\ w.table = v.table \ Pockets(m)
        /\ ~w.remotePlayback /\ ~Hidden(v, x) /\ ~Hidden(w, x) /\ ~Starved(w, x)
    BY <1>16 DEF Applied, Ends, Pockets, Hidden, Starved
  <2>2. x \in truth => Shown(w, t, x)
    BY <1>10, <2>1 DEF BallOf, Shown, Hides
  <2>3. x \in w.table /\ x \notin truth => x \in falling \/ Taken(w, t, x)
    BY <1>10, <2>1 DEF BallOf, Taken
  <2> QED
    BY <1>8, <2>1, <2>2, <2>3 DEF BallOf, t, m, w
<1> QED
  BY <1>2, <1>5, <1>12, <1>13, <1>14, <1>15, <1>16 DEF Ends, Frame

(* A replay goes on or ends. *)
LEMMA BallUpdated ==
    ASSUME NEW v \in Sound, NEW w, NEW s, NEW x, NEW truth, NEW falling,
           BallOf(v, s, x, truth, falling), Replayed(v, w) \/ Finished(v, w)
    PROVE  BallOf(w, s, x, truth, falling)
<1>1. v.trajectoryFrames \in Seq(FrameType)
  BY DEF Sound, BrowserType
<1>2. CASE Replayed(v, w)
  <2>1. /\ Hidden(w, x) <=> Hidden(v, x)
        /\ Starved(w, x) <=> Starved(v, x)
        /\ Taken(w, s, x) <=> Taken(v, s, x)
    BY <1>2 DEF Replayed, SameWait, Hidden, Starved, Taken, Keeps, LastShows
  <2>2. x \in w.table => x \in v.table
    BY <1>2 DEF Replayed
  <2>3. Shown(v, s, x) => Shown(w, s, x)
    BY <1>2 DEF Replayed, SameWait, Shown, Keeps
  <2> QED
    BY <2>1, <2>2, <2>3 DEF BallOf
<1>3. CASE Finished(v, w)
  <2>1. ~Hidden(w, x) /\ ~Starved(w, x) /\ ~w.remotePlayback
    BY <1>3 DEF Finished, Hidden, Starved
  <2>2. Len(v.trajectoryFrames) \in 1 .. Len(v.trajectoryFrames)
    BY <1>1, <1>3 DEF Finished
  <2>3. Shown(v, s, x) => Shown(w, s, x)
    BY <1>3, <2>1, <2>2 DEF Finished, Shown, Keeps
  <2>4. x \in w.table => x \in v.table /\ ~Hidden(v, x)
    BY <1>3 DEF Finished, Hidden, Keeps, LastShows
  <2> QED
    BY <2>1, <2>3, <2>4 DEF BallOf, Taken
<1> QED
  BY <1>2, <1>3
--------------------------------------------------------------------------------
(* Where the balls lie. *)

(* The i-th message is the last of s that could end a shot, or behind it. *)
LastEnd(s, i) == \A j \in i + 1 .. Len(s) : ~Ends(s[j])

(* When browser v will have handled the stream s, its balls lie at place. *)
LayoutOf(v, s, place) ==
    /\ \A i \in 1 .. Len(s) : Ends(s[i]) /\ LastEnd(s, i) => ShotOf(s[i]) = place
    /\ (\A i \in 1 .. Len(s) : ~Ends(s[i])) =>
         IF v.pending # NoResult THEN v.pending.shot = place ELSE v.layout = place
    /\ \A i \in 1 .. Len(s) : s[i].type = "shot_init" /\ LastEnd(s, i) => s[i].layout = place

LEMMA LayoutSent ==
    ASSUME NEW v, NEW s \in Seq(AnyType), NEW m \in AnyType, NEW place, NEW stand,
           LayoutOf(v, s, place),
           m.type = "shot_init" => m.layout = place,
           IF Ends(m) THEN ShotOf(m) = stand ELSE stand = place
    PROVE  LayoutOf(v, s \o One(m), stand)
<1> DEFINE t == s \o One(m)
<1>1. /\ Len(s) \in Nat /\ Len(t) = Len(s) + 1
      /\ \A i \in 1 .. Len(s) : t[i] = s[i]
      /\ t[Len(s) + 1] = m
  BY OneItem
<1> HIDE DEF t
<1>2. \A i \in 1 .. Len(t) : (i \in 1 .. Len(s) /\ t[i] = s[i]) \/ (i = Len(s) + 1 /\ t[i] = m)
  BY <1>1
<1>3. Ends(m) => m.type # "shot_init"
  BY DEF Ends
<1>4. ASSUME NEW i \in 1 .. Len(s), LastEnd(t, i)
      PROVE  LastEnd(s, i) /\ ~Ends(m)
  BY <1>1, <1>4 DEF LastEnd
<1>5. (\A i \in 1 .. Len(t) : ~Ends(t[i])) => ~Ends(m) /\ \A i \in 1 .. Len(s) : ~Ends(s[i])
  BY <1>1
<1> QED
  BY <1>2, <1>3, <1>4, <1>5 DEF LayoutOf, t

LEMMA LayoutTaken ==
    ASSUME NEW p \in Players, NEW v \in Sound, NEW s \in Seq(AnyType), s # <<>>, NEW place,
           LayoutOf(v, s, place), Head(s) \in DownType, Head(s).type # "reconnected"
    PROVE  LayoutOf(Handled(p, v, Head(s)), Tail(s), place)
<1> DEFINE m == Head(s)
           t == Tail(s)
           w == Handled(p, v, m)
<1>1. /\ Len(s) \in Nat /\ 1 \in 1 .. Len(s) /\ m = s[1] /\ Len(t) = Len(s) - 1
      /\ \A i \in 1 .. Len(t) : i + 1 \in 1 .. Len(s) /\ t[i] = s[i + 1]
  BY TailItems
<1>2. /\ m.type \in {"aim_chunk", "turn"} => Same(v, w)
      /\ m.type = "shot_init" => IF v.isSimulating THEN Same(v, w) ELSE Begun(v, w, m)
      /\ m.type = "shot_chunk" => IF v.remotePlayback THEN Buffered(v, w, m) ELSE Same(v, w)
      /\ m.type = "shot_result" => IF v.remotePlayback THEN KeptBack(v, w, m) ELSE Applied(v, w, m)
  BY HandledEffect
<1>3. m.type = "shot_result" => m.result # NoResult
  BY Kinds, ReplayAssumption DEF ShotResultType
<1>4. m.type \in {"aim_chunk", "shot_init", "shot_chunk", "shot_result", "turn"}
  BY Kinds
<1> HIDE DEF t, w, m
<1>5. ASSUME NEW i \in 0 .. Len(t), LastEnd(t, i)
      PROVE  LastEnd(s, i + 1)
  <2> SUFFICES ASSUME NEW j \in (i + 1) + 1 .. Len(s) PROVE ~Ends(s[j])
    BY DEF LastEnd
  <2>1. j - 1 \in i + 1 .. Len(t) /\ j - 1 \in 1 .. Len(t) /\ t[j - 1] = s[j]
    BY <1>1
  <2> QED
    BY <1>5, <2>1 DEF LastEnd
<1>6. \A i \in 1 .. Len(t) : Ends(t[i]) /\ LastEnd(t, i) => ShotOf(t[i]) = place
  BY <1>1, <1>5 DEF LayoutOf
<1>7. \A i \in 1 .. Len(t) : t[i].type = "shot_init" /\ LastEnd(t, i) => t[i].layout = place
  BY <1>1, <1>5 DEF LayoutOf
<1>8. ASSUME \A i \in 1 .. Len(t) : ~Ends(t[i])
      PROVE  IF w.pending # NoResult THEN w.pending.shot = place ELSE w.layout = place
  <2>1. LastEnd(s, 1)
    <3>1. 0 \in 0 .. Len(t) /\ LastEnd(t, 0)
      BY <1>1, <1>8 DEF LastEnd
    <3>2. LastEnd(s, 0 + 1)
      BY <1>5, <3>1
    <3> QED
      BY <3>2
  <2>2. Ends(m) => ShotOf(m) = place
    BY <1>1, <2>1 DEF LayoutOf
  <2>3. m.type = "shot_init" => m.layout = place
    BY <1>1, <2>1 DEF LayoutOf
  <2>4. ~Ends(m) => IF v.pending # NoResult THEN v.pending.shot = place ELSE v.layout = place
    <3> SUFFICES ASSUME ~Ends(m) PROVE \A i \in 1 .. Len(s) : ~Ends(s[i])
      BY DEF LayoutOf
    <3> TAKE i \in 1 .. Len(s)
    <3>1. i = 1 \/ i \in 1 + 1 .. Len(s)
      BY <1>1
    <3> QED
      BY <1>1, <2>1, <3>1 DEF LastEnd
  <2>5. CASE m.type = "shot_result"
    <3>1. Ends(m) /\ ShotOf(m) = m.result.shot
      BY <2>5 DEF Ends, ShotOf
    <3> QED
      BY <1>2, <1>3, <2>2, <2>5, <3>1 DEF KeptBack, Applied
  <2>6. CASE m.type # "shot_result"
    <3>1. ~Ends(m)
      BY <1>4, <2>6 DEF Ends
    <3> QED
      BY <1>2, <1>4, <2>3, <2>4, <2>6, <3>1 DEF Same, SameWait, Begun, Buffered
  <2> QED
    BY <2>5, <2>6
<1> QED
  BY <1>6, <1>7, <1>8 DEF LayoutOf, t, w, m

LEMMA LayoutUpdated ==
    ASSUME NEW v, NEW w, NEW s, NEW place,
           LayoutOf(v, s, place), Replayed(v, w) \/ Finished(v, w)
    PROVE  LayoutOf(w, s, place)
BY DEF LayoutOf, Replayed, SameWait, Finished

--------------------------------------------------------------------------------
(* What the browser v shows, or will show when it has handled the stream s:   *)
(* the balls in truth, and none but these when the shot under way is over, at *)
(* place.                                                                     *)
View(v, s, truth, falling, place) ==
    /\ Spaced(s)
    /\ LayoutOf(v, s, place)
    /\ \A x \in Balls : BallOf(v, s, x, truth, falling)

(* A browser that awaits nothing shows what there is. *)
LEMMA ViewAlone ==
    ASSUME NEW v, ~v.remotePlayback, v.pending = NoResult
    PROVE  View(v, <<>>, v.table, {}, v.layout)
BY DEF View, Spaced, LayoutOf, BallOf, Ordered, Hidden, Starved, Shown

LEMMA AloneView ==
    ASSUME NEW v, NEW truth, NEW place, View(v, <<>>, truth, {}, place),
           ~v.remotePlayback, v.pending = NoResult, v.table \subseteq Balls, truth \subseteq Balls
    PROVE  v.table = truth /\ v.layout = place
<1>1. v.layout = place
  BY DEF View, LayoutOf
<1>2. ASSUME NEW x \in Balls
      PROVE  x \in v.table <=> x \in truth
  BY DEF View, BallOf, Shown, Taken, Hidden
<1> QED
  BY <1>1, <1>2

LEMMA ViewSent ==
    ASSUME NEW v, NEW s \in Seq(AnyType), NEW m \in AnyType,
           NEW truth, NEW falling, NEW place, NEW left, NEW down, NEW stand,
           View(v, s, truth, falling, place), left \subseteq truth,
           \A x \in Balls : x \in left => ~Hides(m, x),
           \A x \in Balls : Frame(m) /\ x \notin truth => Without(m, x),
           Ends(m) => Len(s) > 0 /\ Frame(s[Len(s)]),
           \A x \in Balls : x \in falling \/ (x \in truth /\ x \notin left) =>
             x \in down \/ (Ends(m) /\ x \in Pockets(m)),
           m.type = "shot_init" => m.layout = place,
           IF Ends(m) THEN ShotOf(m) = stand ELSE stand = place
    PROVE  View(v, s \o One(m), left, down, stand)
<1>1. Spaced(s \o One(m)) /\ LayoutOf(v, s \o One(m), stand)
  BY SpacedSent, LayoutSent DEF View
<1>2. ASSUME NEW x \in Balls
      PROVE  BallOf(v, s \o One(m), x, left, down)
  BY BallSent DEF View
<1> QED
  BY <1>1, <1>2 DEF View

(* A message that neither shows balls nor ends a shot. *)
LEMMA ViewAlso ==
    ASSUME NEW v, NEW s \in Seq(AnyType), NEW m \in AnyType,
           NEW truth, NEW falling, NEW place, View(v, s, truth, falling, place),
           ~Frame(m), ~Ends(m), m.type = "shot_init" => m.layout = place
    PROVE  View(v, s \o One(m), truth, falling, place)
BY ViewSent DEF Hides, Without

LEMMA ViewTaken ==
    ASSUME NEW p \in Players, NEW v \in Sound, NEW s \in Seq(AnyType), s # <<>>,
           NEW truth, NEW falling, NEW place, View(v, s, truth, falling, place),
           Head(s) \in DownType, Head(s).type # "reconnected"
    PROVE  View(Handled(p, v, Head(s)), Tail(s), truth, falling, place)
BY SpacedTaken, BallTaken, LayoutTaken DEF View

LEMMA ViewUpdated ==
    ASSUME NEW v \in Sound, NEW w, NEW s, NEW truth, NEW falling, NEW place,
           View(v, s, truth, falling, place), Replayed(v, w) \/ Finished(v, w)
    PROVE  View(w, s, truth, falling, place)
BY BallUpdated, LayoutUpdated DEF View

(* The server's result a stands for the report m. *)
LEMMA ViewAnswered ==
    ASSUME NEW v, NEW s \in Seq(AnyType), NEW m \in ShootType, NEW a \in ShotResultType,
           NEW truth, NEW falling, NEW place, View(v, s \o One(m), truth, falling, place),
           a.result.pocketed = m.pocketed, a.result.shot = m.shot
    PROVE  View(v, s \o One(a), truth, falling, place)
<1> DEFINE u == s \o One(m)
           r == s \o One(a)
<1>1. m \in AnyType /\ a \in AnyType /\ m.type = "shoot" /\ a.type = "shot_result"
  BY DEF AnyType, UpType, DownType, ShootType, ShotResultType
<1>2. /\ Len(s) \in Nat /\ Len(u) = Len(s) + 1 /\ Len(r) = Len(u)
      /\ \A i \in 1 .. Len(s) : u[i] = s[i] /\ r[i] = s[i]
      /\ u[Len(s) + 1] = m /\ r[Len(s) + 1] = a
  BY <1>1, OneItem
<1> HIDE DEF u, r
<1>3. \A i \in 1 .. Len(u) : u[i] = r[i] \/ (u[i] = m /\ r[i] = a)
  BY <1>2
<1>4. \A i \in 1 .. Len(u) :
        /\ Frame(r[i]) <=> Frame(u[i])
        /\ Ends(r[i]) <=> Ends(u[i])
        /\ Ends(u[i]) => Pockets(r[i]) = Pockets(u[i]) /\ ShotOf(r[i]) = ShotOf(u[i])
        /\ r[i].type = "shot_init" <=> u[i].type = "shot_init"
        /\ r[i].type = "shot_init" => r[i].layout = u[i].layout
        /\ Frame(u[i]) => r[i] = u[i]
  BY <1>1, <1>3 DEF Frame, Ends, Pockets, ShotOf
<1>5. Spaced(r)
  <2> SUFFICES ASSUME NEW i \in 1 .. Len(r), NEW j \in 1 .. Len(r), i < j, Ends(r[i]), Ends(r[j])
               PROVE  \E k \in i + 1 .. j - 1 : Frame(r[k])
    BY DEF Spaced
  <2>1. PICK k \in i + 1 .. j - 1 : Frame(u[k])
    BY <1>2, <1>4 DEF View, Spaced, u
  <2> QED
    BY <1>2, <1>4, <2>1
<1>6. \A i \in 1 .. Len(u) : LastEnd(r, i) => LastEnd(u, i)
  BY <1>2, <1>4 DEF LastEnd
<1>7. LayoutOf(v, r, place)
  BY <1>2, <1>4, <1>6 DEF View, LayoutOf, u
<1>8. ASSUME NEW x \in Balls
      PROVE  BallOf(v, r, x, truth, falling)
  <2>1. BallOf(v, u, x, truth, falling)
    BY DEF View, u
  <2>2. \A i \in 1 .. Len(u) :
          (Without(r[i], x) <=> Without(u[i], x)) /\ (Hides(r[i], x) <=> Hides(u[i], x))
    BY <1>4 DEF Without, Hides
  <2>3. Ordered(r, x)
    BY <1>2, <1>4, <2>1, <2>2 DEF BallOf, Ordered
  <2>4. Gone(u, x) => Gone(r, x)
    BY <1>2, <1>4, <2>2 DEF Gone
  <2>5. Shown(v, u, x) => Shown(v, r, x)
    BY <1>2, <2>2 DEF Shown
  <2>6. Taken(v, u, x) => Taken(v, r, x)
    BY <1>2, <1>4 DEF Taken
  <2>7. FedFirst(u) => FedFirst(r)
    BY <1>2, <1>4 DEF FedFirst
  <2> QED
    BY <2>1, <2>3, <2>4, <2>5, <2>6, <2>7 DEF BallOf
<1> QED
  BY <1>5, <1>7, <1>8 DEF View, r

(* The shooter gets the result of the shot it reported. *)
LEMMA ViewOwn ==
    ASSUME NEW v, ~v.remotePlayback, NEW a \in ShotResultType, NEW b \in TurnType, NEW place,
           v.table \cap a.result.pocketed = {}, a.result.shot = place
    PROVE  View(v, Two(a, b), v.table, {}, place)
<1> DEFINE s == Two(a, b)
<1>1. a.type = "shot_result" /\ b.type = "turn"
  BY DEF ShotResultType, TurnType
<1>2. Len(s) = 2 /\ s[1] = a /\ s[2] = b /\ \A i \in 1 .. Len(s) : i = 1 \/ i = 2
  BY DEF Two
<1> HIDE DEF s
<1>3. \A i \in 1 .. Len(s) : ~Frame(s[i]) /\ s[i].type # "shot_init" /\ (Ends(s[i]) => i = 1)
  BY <1>1, <1>2 DEF Frame, Ends
<1>4. Ends(s[1]) /\ Pockets(s[1]) = a.result.pocketed /\ ShotOf(s[1]) = place /\ 1 \in 1 .. Len(s)
  BY <1>1, <1>2 DEF Ends, Pockets, ShotOf
<1>5. Spaced(s) /\ LayoutOf(v, s, place)
  BY <1>3, <1>4 DEF Spaced, LayoutOf
<1>6. \A x \in Balls : BallOf(v, s, x, v.table, {})
  BY <1>3, <1>4 DEF BallOf, Ordered, Hidden, Starved, Shown, Hides, Without
<1> QED
  BY <1>5, <1>6 DEF View, s
--------------------------------------------------------------------------------
(* What there is to show.  A shot is under way from its first frame until its *)
(* report is accepted; the shooter's browser tells which balls are on then.   *)

Mover == browser[currentPlayer]

HasReport == Reports(outbox[currentPlayer])

Truth == IF Shows(Mover) \/ HasReport THEN Mover.table ELSE balls

Place == IF HasReport THEN Mover.layout ELSE layout

Falling(p) == IF p # currentPlayer /\ Shows(Mover) THEN Mover.pocketedBalls ELSE {}

ViewOf(p) == View(browser[p], Stream(p), Truth, Falling(p), Place)

Views == drops = 0 => \A p \in Players : ViewOf(p)

(* What a step shows that takes nothing from and adds nothing to the shot     *)
(* under way.                                                                 *)
LEMMA TruthKept ==
    ASSUME currentPlayer' = currentPlayer, balls' = balls, layout' = layout,
           Reports(outbox'[currentPlayer]) <=> Reports(outbox[currentPlayer]),
           Shows(browser'[currentPlayer]) <=> Shows(browser[currentPlayer]),
           Shows(Mover) \/ HasReport =>
             /\ browser'[currentPlayer].table = browser[currentPlayer].table
             /\ browser'[currentPlayer].layout = browser[currentPlayer].layout
             /\ browser'[currentPlayer].pocketedBalls = browser[currentPlayer].pocketedBalls
    PROVE  Truth' = Truth /\ Place' = Place /\ \A p : Falling(p)' = Falling(p)
BY DEF Truth, Place, Falling, Mover, HasReport

LEMMA StreamTyped ==
    ASSUME IInv, NEW p \in Players
    PROVE  /\ inbox[p] \in Seq(AnyType) /\ outbox[p] \in Seq(AnyType)
           /\ Stream(p) \in Seq(AnyType)
           /\ outbox[Opponent(p)] = <<>> => Stream(p) = inbox[p]
<1>1. inbox[p] \in Seq(DownType) /\ outbox[p] \in Seq(UpType) /\ outbox[Opponent(p)] \in Seq(UpType)
  BY Opponents DEF IInv, Carried
<1>2. \A T, S : T \subseteq S => Seq(T) \subseteq Seq(S)
  OBVIOUS
<1>3. DownType \subseteq AnyType /\ UpType \subseteq AnyType
  BY DEF AnyType
<1>4. inbox[p] \in Seq(AnyType) /\ outbox[p] \in Seq(AnyType) /\ outbox[Opponent(p)] \in Seq(AnyType)
  BY <1>1, <1>2, <1>3
<1> QED
  BY <1>4, ConcatProperties, ConcatEmptySeq DEF Stream

LEMMA NothingBehind == <<>> \o <<>> = <<>>
<1>1. <<>> \in Seq({})
  OBVIOUS
<1> QED
  BY <1>1, ConcatEmptySeq

LEMMA Regrouped ==
    \A s, t, u \in Seq(AnyType) : (s \o t) \o u = s \o (t \o u)
BY ConcatAssociative

LEMMA SentBehind ==
    ASSUME NEW s \in Seq(AnyType), NEW t \in Seq(AnyType), NEW a \in AnyType, NEW b \in AnyType
    PROVE  /\ s \o (t \o One(a)) = (s \o t) \o One(a)
           /\ s \o (t \o Two(a, b)) = ((s \o t) \o One(a)) \o One(b)
<1>1. One(a) \in Seq(AnyType) /\ One(b) \in Seq(AnyType) /\ Two(a, b) \in Seq(AnyType)
  BY OneTyped, TwoTyped
<1>2. Two(a, b) = One(a) \o One(b)
  <2> DEFINE f == One(a)
             g == One(b)
             c == f \o g
             d == Two(a, b)
  <2>1. /\ f \in Seq(AnyType) /\ Len(f) = 1 /\ f[1] = a
        /\ g \in Seq(AnyType) /\ Len(g) = 1 /\ g[1] = b
        /\ d \in Seq(AnyType) /\ Len(d) = 2 /\ d[1] = a /\ d[2] = b
    BY <1>1, OneTuple, TwoTuple
  <2> HIDE DEF d, f, g
  <2>2. /\ c \in Seq(AnyType) /\ Len(c) = Len(f) + Len(g)
        /\ \A i \in 1 .. Len(f) + Len(g) : c[i] = IF i <= Len(f) THEN f[i] ELSE g[i - Len(f)]
    BY <2>1, ConcatProperties
  <2> HIDE DEF c
  <2>3. Len(c) = 2 /\ c[1] = a /\ c[2] = b
    BY <2>1, <2>2
  <2>4. c = d
    BY <2>1, <2>2, <2>3, SeqEqual
  <2> QED
    BY <2>4 DEF c, d, f, g
<1>3. s \o t \in Seq(AnyType)
  BY ConcatProperties
<1>4. \A u \in Seq(AnyType) : s \o (t \o u) = (s \o t) \o u
  BY ConcatAssociative
<1>5. (s \o t) \o (One(a) \o One(b)) = ((s \o t) \o One(a)) \o One(b)
  BY <1>1, <1>3, Regrouped
<1> QED
  BY <1>1, <1>2, <1>4, <1>5

(* Player p has the turn, and its opponent is idle: *)
LEMMA ShooterView ==
    ASSUME IInv, \A q \in Players : TurnOf(q), \A q \in Players : CourierOf(q), \A q \in Players : ViewOf(q),
           NEW p \in Players, currentPlayer = p, inbox[p] = <<>>
    PROVE  /\ Opponent(p) \in Players /\ Opponent(p) # p
           /\ outbox[Opponent(p)] = <<>> /\ Stream(p) = <<>>
           /\ View(browser[p], <<>>, Truth, {}, Place)
           /\ View(browser[Opponent(p)], inbox[Opponent(p)] \o outbox[p], Truth,
                   IF Shows(browser[p]) THEN browser[p].pocketedBalls ELSE {}, Place)
<1>1. Opponent(p) \in Players /\ Opponent(p) # p /\ Opponent(Opponent(p)) = p
  BY Opponents
<1>2. outbox[Opponent(p)] = <<>>
  BY <1>1, OtherIdle
<1>3. Stream(p) = <<>>
  BY <1>2, StreamTyped
<1> QED
  BY <1>1, <1>2, <1>3 DEF ViewOf, Falling, Mover, Stream

LEMMA ShootView ==
    ASSUME IInv, ~Hasty, NEW p \in Players, ExecutesShot(p),
           \A q \in Players : TurnOf(q), \A q \in Players : CourierOf(q), \A q \in Players : ViewOf(q)
    PROVE  \A q \in Players : ViewOf(q)'
<1> DEFINE v == browser[p]
           o == Opponent(p)
<1>1. /\ currentPlayer = p /\ v.isMyTurn /\ ~v.isSimulating /\ ~TurnFollows(p)
      /\ UNCHANGED <<server, inbox, network>>
  BY ShootEffect
<1>2. PICK w \in Sound, a \in AimType, b \in InitType :
        /\ browser' = [browser EXCEPT ![p] = w]
        /\ outbox' = [outbox EXCEPT ![p] = outbox[p] \o Two(a, b)]
        /\ Announced(v, w, b)
  BY ShootEffect
<1>3. outbox[p] = <<>> /\ inbox[p] = <<>>
  BY <1>1, TurnHeard
<1>4. /\ o \in Players /\ o # p /\ outbox[o] = <<>>
      /\ View(v, <<>>, Truth, {}, Place)
      /\ View(browser[o], inbox[o] \o outbox[p], Truth, {}, Place)
  BY <1>1, <1>3, ShooterView DEF Shows
<1>5. Truth = balls /\ Place = layout
  BY <1>1, <1>3 DEF Truth, Place, Mover, Shows, HasReport, Reports
<1>6. v.table = balls /\ v.layout = layout
  <2>1. ~v.remotePlayback /\ v.pending = NoResult
    BY <1>1, Connected DEF Agrees
  <2>2. v.table \subseteq Balls /\ balls \subseteq Balls
    BY Connected DEF BrowserType, IInv, TypeOK
  <2> QED
    BY <1>4, <1>5, <2>1, <2>2, AloneView
<1>7. /\ a \in AnyType /\ b \in AnyType
      /\ a.type = "aim_chunk" /\ b.type = "shot_init"
  BY DEF AnyType, UpType, StreamType, AimType, InitType
<1>8. /\ browser'[p] = w /\ browser'[o] = browser[o]
      /\ outbox'[p] = outbox[p] \o Two(a, b) /\ outbox'[o] = <<>>
      /\ inbox' = inbox /\ currentPlayer' = p /\ balls' = balls /\ layout' = layout
  BY <1>1, <1>2, <1>4 DEF IInv, Carried, server
<1>9. ~Reports(outbox'[p])
  <2>1. outbox'[p] = Two(a, b)
    BY <1>3, <1>7, <1>8, SentFirst
  <2> QED
    BY <1>7, <2>1, TwoTuple DEF Reports
<1>10. Shows(w) /\ w.pocketedBalls = {} /\ w.table = balls /\ w.layout = layout /\ b.layout = layout
       /\ ~w.remotePlayback /\ w.pending = NoResult
  BY <1>2, <1>6 DEF Announced
<1>11. Truth' = balls /\ Place' = layout /\ Falling(p)' = {} /\ Falling(o)' = {}
  BY <1>4, <1>8, <1>9, <1>10 DEF Truth, Place, Falling, Mover, HasReport
<1>12. Stream(p)' = <<>> /\ Stream(o)' = ((inbox[o] \o outbox[p]) \o One(a)) \o One(b)
  <2>1. Stream(p)' = <<>> \o <<>> /\ Stream(o)' = inbox[o] \o (outbox[p] \o Two(a, b))
    BY <1>3, <1>8, Opponents DEF Stream
  <2>2. inbox[o] \in Seq(AnyType) /\ outbox[p] \in Seq(AnyType) /\ <<>> \o <<>> = <<>>
    BY <1>4, StreamTyped, NothingBehind
  <2>3. inbox[o] \o (outbox[p] \o Two(a, b)) = ((inbox[o] \o outbox[p]) \o One(a)) \o One(b)
    BY <1>7, <2>2, SentBehind
  <2> QED
    BY <2>1, <2>2, <2>3, Zenon
<1>13. ViewOf(p)'
  BY <1>8, <1>10, <1>11, <1>12, ViewAlone DEF ViewOf
<1>14. ViewOf(o)'
  <2>1. inbox[o] \o outbox[p] \in Seq(AnyType) /\ (inbox[o] \o outbox[p]) \o One(a) \in Seq(AnyType)
    BY <1>4, <1>7, StreamTyped, OneTyped, ConcatProperties
  <2>2. View(browser[o], (inbox[o] \o outbox[p]) \o One(a), balls, {}, layout)
    BY <1>4, <1>5, <1>7, <2>1, ViewAlso DEF Frame, Ends
  <2>3. View(browser[o], ((inbox[o] \o outbox[p]) \o One(a)) \o One(b), balls, {}, layout)
    BY <1>7, <1>10, <2>1, <2>2, ViewAlso DEF Frame, Ends
  <2> QED
    BY <1>8, <1>11, <1>12, <2>3 DEF ViewOf
<1> QED
  BY <1>13, <1>14, Opponents

LEMMA SimulateView ==
    ASSUME IInv, NEW p \in Players, SimulatesFrame(p),
           \A q \in Players : TurnOf(q), \A q \in Players : CourierOf(q), \A q \in Players : ViewOf(q)
    PROVE  \A q \in Players : ViewOf(q)'
<1> DEFINE v == browser[p]
           o == Opponent(p)
           s == inbox[o] \o outbox[p]
<1>1. currentPlayer = p /\ Shows(v) /\ ~v.remotePlayback /\ UNCHANGED <<server, inbox, network>>
  BY SimulateEffect
<1>2. PICK w \in BrowserType, a \in ChunkType :
        /\ browser' = [browser EXCEPT ![p] = w]
        /\ outbox' = [outbox EXCEPT ![p] = outbox[p] \o One(a)]
        /\ Streamed(v, w, a)
  BY SimulateEffect
<1>3. inbox[p] = <<>> /\ ~Reports(outbox[p]) /\ v.pending = NoResult
  BY <1>1, ShooterHeard DEF TurnOf, OneTurn
<1>4. Truth = v.table /\ Place = layout
  BY <1>1, <1>3 DEF Truth, Place, Mover, HasReport
<1>5. /\ o \in Players /\ o # p /\ outbox[o] = <<>>
      /\ View(v, <<>>, v.table, {}, layout)
      /\ View(browser[o], s, v.table, v.pocketedBalls, layout)
  BY <1>1, <1>3, <1>4, ShooterView
<1>6. v.layout = layout
  BY <1>3, <1>5 DEF View, LayoutOf
<1>7. a \in AnyType /\ a.type = "shot_chunk"
  BY DEF AnyType, UpType, StreamType, ChunkType
<1>8. /\ browser'[p] = w /\ browser'[o] = browser[o]
      /\ outbox'[p] = outbox[p] \o One(a) /\ outbox'[o] = <<>>
      /\ inbox' = inbox /\ currentPlayer' = p /\ balls' = balls /\ layout' = layout
  BY <1>1, <1>2, <1>5 DEF IInv, Carried, server
<1>9. ~Reports(outbox'[p])
  BY <1>3, <1>7, <1>8, StreamTyped, OneItem DEF Reports
<1>10. Truth' = w.table /\ Place' = layout /\ Falling(p)' = {} /\ Falling(o)' = w.pocketedBalls
  BY <1>2, <1>5, <1>8, <1>9 DEF Streamed, Truth, Place, Falling, Mover, HasReport
<1>11. Stream(p)' = <<>> /\ Stream(o)' = s \o One(a)
  <2>1. Stream(p)' = <<>> \o <<>> /\ Stream(o)' = inbox[o] \o (outbox[p] \o One(a))
    BY <1>3, <1>8, Opponents DEF Stream
  <2>2. inbox[o] \in Seq(AnyType) /\ outbox[p] \in Seq(AnyType) /\ <<>> \o <<>> = <<>>
    BY <1>5, StreamTyped, NothingBehind
  <2>3. inbox[o] \o (outbox[p] \o One(a)) = (inbox[o] \o outbox[p]) \o One(a)
    BY <1>7, <2>2, SentBehind
  <2> QED
    BY <2>1, <2>2, <2>3, Zenon
<1>12. ViewOf(p)'
  <2>1. ~w.remotePlayback /\ w.pending = NoResult /\ w.layout = layout
    BY <1>2, <1>6 DEF Streamed
  <2> QED
    BY <1>8, <1>10, <1>11, <2>1, ViewAlone DEF ViewOf
<1>13. ViewOf(o)'
  <2>1. s \in Seq(AnyType)
    BY <1>5, StreamTyped, ConcatProperties
  <2>2. Frame(a) /\ ~Ends(a) /\ \A x : Hides(a, x) <=> x \notin a.frame.balls
    BY <1>7 DEF Frame, Ends, Hides, Without
  <2>3. /\ w.table \subseteq v.table /\ a.frame.balls = w.table
        /\ w.pocketedBalls = v.pocketedBalls \cup (v.table \ w.table)
    BY <1>2 DEF Streamed
  <2> HIDE DEF s
  <2>4. View(browser[o], s \o One(a), w.table, w.pocketedBalls, layout)
    BY <1>5, <1>7, <2>1, <2>2, <2>3, ViewSent DEF Hides
  <2> QED
    BY <1>8, <1>10, <1>11, <2>4 DEF ViewOf
<1> QED
  BY <1>12, <1>13, Opponents

LEMMA SettleView ==
    ASSUME IInv, NEW p \in Players, Settles(p),
           \A q \in Players : TurnOf(q), \A q \in Players : CourierOf(q), \A q \in Players : ViewOf(q)
    PROVE  \A q \in Players : ViewOf(q)'
<1> DEFINE v == browser[p]
           o == Opponent(p)
           s == inbox[o] \o outbox[p]
<1>1. currentPlayer = p /\ Shows(v) /\ ~v.remotePlayback /\ UNCHANGED <<server, inbox, network>>
  BY SettleEffect
<1>2. PICK w \in BrowserType, a \in ChunkType, b \in ShootType :
        /\ browser' = [browser EXCEPT ![p] = w]
        /\ outbox' = [outbox EXCEPT ![p] = outbox[p] \o Two(a, b)]
        /\ Reported(v, w, a, b)
  BY SettleEffect
<1>3. inbox[p] = <<>> /\ ~Reports(outbox[p])
  BY <1>1, ShooterHeard DEF TurnOf, OneTurn
<1>4. Truth = v.table /\ Place = layout
  BY <1>1, <1>3 DEF Truth, Place, Mover, HasReport
<1>5. /\ o \in Players /\ o # p /\ outbox[o] = <<>>
      /\ View(browser[o], s, v.table, v.pocketedBalls, layout)
  BY <1>1, <1>3, <1>4, ShooterView
<1>6. /\ a \in AnyType /\ a.type = "shot_chunk"
      /\ b \in AnyType /\ b.type = "shoot"
  BY DEF AnyType, UpType, StreamType, ChunkType, ShootType
<1>7. /\ browser'[p] = w /\ browser'[o] = browser[o]
      /\ outbox'[p] = outbox[p] \o Two(a, b) /\ outbox'[o] = <<>>
      /\ inbox' = inbox /\ currentPlayer' = p
  BY <1>1, <1>2, <1>5 DEF IInv, Carried, server
<1>8. Reports(outbox'[p])
  <2>1. outbox[p] \in Seq(AnyType)
    BY StreamTyped
  <2>2. /\ Len(outbox[p]) + 2 \in 1 .. Len(outbox'[p])
        /\ outbox'[p][Len(outbox[p]) + 2] = b
    BY <1>6, <1>7, <2>1, TwoItems
  <2> QED
    BY <1>6, <2>2 DEF Reports
<1>9. /\ ~Shows(w) /\ ~w.remotePlayback /\ w.pending = NoResult
      /\ w.table \subseteq a.frame.balls /\ a.frame.balls \subseteq v.table
      /\ w.pocketedBalls = v.pocketedBalls \cup (v.table \ w.table)
      /\ b.pocketed = w.pocketedBalls /\ b.shot = w.layout
  BY <1>2 DEF Reported, Shows
<1>10. Truth' = w.table /\ Place' = w.layout /\ Falling(p)' = {} /\ Falling(o)' = {}
  BY <1>7, <1>8, <1>9 DEF Truth, Place, Falling, Mover, HasReport
<1>11. Stream(p)' = <<>> /\ Stream(o)' = (s \o One(a)) \o One(b)
  <2>1. Stream(p)' = <<>> \o <<>> /\ Stream(o)' = inbox[o] \o (outbox[p] \o Two(a, b))
    BY <1>3, <1>7, Opponents DEF Stream
  <2>2. inbox[o] \in Seq(AnyType) /\ outbox[p] \in Seq(AnyType) /\ <<>> \o <<>> = <<>>
    BY <1>5, StreamTyped, NothingBehind
  <2>3. inbox[o] \o (outbox[p] \o Two(a, b)) = ((inbox[o] \o outbox[p]) \o One(a)) \o One(b)
    BY <1>6, <2>2, SentBehind
  <2> QED
    BY <2>1, <2>2, <2>3, Zenon
<1>12. ViewOf(p)'
  BY <1>7, <1>9, <1>10, <1>11, ViewAlone DEF ViewOf
<1>13. ViewOf(o)'
  <2>1. s \in Seq(AnyType) /\ s \o One(a) \in Seq(AnyType)
    BY <1>5, <1>6, StreamTyped, OneTyped, ConcatProperties
  <2>2. Frame(a) /\ ~Ends(a) /\ \A x : Hides(a, x) <=> x \notin a.frame.balls
    BY <1>6 DEF Frame, Ends, Hides, Without
  <2>3. ~Frame(b) /\ Ends(b) /\ Pockets(b) = w.pocketedBalls /\ ShotOf(b) = w.layout
        /\ \A x : Hides(b, x) <=> x \in w.pocketedBalls
    BY <1>6, <1>9 DEF Frame, Ends, Pockets, ShotOf, Hides, Without
  <2>4. v.table \cap v.pocketedBalls = {}
    BY <1>1 DEF CourierOf, ReportOf
  <2> HIDE DEF s
  <2>5. View(browser[o], s \o One(a), a.frame.balls, w.pocketedBalls, layout)
    BY <1>5, <1>6, <1>9, <2>1, <2>2, ViewSent DEF Hides
  <2>6. Len(s \o One(a)) > 0 /\ Frame((s \o One(a))[Len(s \o One(a))])
    BY <1>6, <2>1, <2>2, OneItem
  <2>7. /\ w.table \subseteq a.frame.balls
        /\ \A x : x \in w.table => ~Hides(b, x)
        /\ \A x : x \in w.pocketedBalls \/ (x \in a.frame.balls /\ x \notin w.table) =>
             Ends(b) /\ x \in Pockets(b)
    BY <1>9, <2>3, <2>4
  <2> DEFINE chunks == s \o One(a)
  <2>8. chunks \in Seq(AnyType) /\ View(browser[o], chunks, a.frame.balls, w.pocketedBalls, layout)
        /\ Len(chunks) > 0 /\ Frame(chunks[Len(chunks)])
    BY <2>1, <2>5, <2>6
  <2> HIDE DEF chunks
  <2>9. View(browser[o], chunks \o One(b), w.table, {}, w.layout)
    BY <1>6, <2>3, <2>7, <2>8, ViewSent
  <2> QED
    BY <1>7, <1>10, <1>11, <2>9 DEF ViewOf, chunks
<1> QED
  BY <1>12, <1>13, Opponents

LEMMA UpdateView ==
    ASSUME IInv, NEW p \in Players, Updates(p),
           \A q \in Players : TurnOf(q), \A q \in Players : CourierOf(q), \A q \in Players : ViewOf(q)
    PROVE  \A q \in Players : ViewOf(q)'
<1> DEFINE v == browser[p]
<1>1. PICK elapsed \in v.replayProgress .. MaxFrames, aims \in BOOLEAN :
        browser' = [browser EXCEPT ![p] = GivesWay(StartsLate(Advances(v, elapsed, aims)))]
  BY DEF Updates
<1> DEFINE w == GivesWay(StartsLate(Advances(v, elapsed, aims)))
<1>2. v \in Sound /\ elapsed \in 0 .. MaxFrames
  <2>1. v \in Sound /\ v.replayProgress \in 0 .. MaxFrames
    BY DEF IInv, Sound, BrowserType
  <2> QED
    BY <2>1, Numbers
<1>3. Passive(v, w) /\ (Replayed(v, w) \/ Finished(v, w))
  BY <1>2, UpdatePassive, UpdateEffect
<1>4. browser'[p] = w /\ \A q \in Players : q # p => browser'[q] = browser[q]
  BY <1>1 DEF IInv
<1>5. /\ currentPlayer' = currentPlayer /\ balls' = balls /\ layout' = layout
      /\ inbox' = inbox /\ outbox' = outbox
  BY DEF Updates, server
<1> HIDE DEF w
<1>6. Truth' = Truth /\ Place' = Place /\ \A q : Falling(q)' = Falling(q)
  <2>1. CASE currentPlayer = p
    <3>1. Shows(v) \/ Reports(outbox[p]) => ~v.remotePlayback
      BY ShooterHeard
    <3>2. Shows(v) \/ Reports(outbox[p]) =>
            /\ w.isSimulating = v.isSimulating /\ w.isLocalShot = v.isLocalShot
            /\ w.table = v.table /\ w.layout = v.layout /\ w.pocketedBalls = v.pocketedBalls
      BY <1>3, <3>1 DEF Replayed, Finished, SameWait
    <3>3. Shows(w) <=> Shows(v)
      BY <1>3, <3>2 DEF Passive, Shows
    <3> QED
      BY <1>4, <1>5, <2>1, <3>2, <3>3, TruthKept DEF Mover, HasReport
  <2>2. CASE currentPlayer # p
    <3>1. browser'[currentPlayer] = browser[currentPlayer]
      BY <1>4, <2>2 DEF IInv, TypeOK
    <3> QED
      BY <1>5, <3>1, TruthKept
  <2> QED
    BY <2>1, <2>2
<1>7. \A q : Stream(q)' = Stream(q)
  BY <1>5 DEF Stream
<1>8. ViewOf(p)'
  <2>1. View(w, Stream(p), Truth, Falling(p), Place)
    BY <1>2, <1>3, ViewUpdated DEF ViewOf
  <2> QED
    BY <1>4, <1>6, <1>7, <2>1 DEF ViewOf
<1>9. ASSUME NEW q \in Players, q # p
      PROVE  ViewOf(q)'
  BY <1>4, <1>6, <1>7, <1>9 DEF ViewOf
<1> QED
  BY <1>8, <1>9

LEMMA TakenFirst ==
    ASSUME NEW s \in Seq(AnyType), s # <<>>, NEW t \in Seq(AnyType)
    PROVE  /\ s \o t \in Seq(AnyType) /\ s \o t # <<>>
           /\ Head(s \o t) = Head(s) /\ Tail(s \o t) = Tail(s) \o t
<1> DEFINE st == s \o t
           rest == Tail(s) \o t
<1>1. /\ Len(s) \in Nat /\ Len(s) >= 1 /\ Len(t) \in Nat /\ Head(s) = s[1]
      /\ Tail(s) \in Seq(AnyType) /\ Len(Tail(s)) = Len(s) - 1
      /\ \A i \in 1 .. Len(Tail(s)) : Tail(s)[i] = s[i + 1]
  BY HeadTailProperties
<1>2. /\ st \in Seq(AnyType) /\ Len(st) = Len(s) + Len(t)
      /\ \A i \in 1 .. Len(s) + Len(t) : st[i] = IF i <= Len(s) THEN s[i] ELSE t[i - Len(s)]
  BY ConcatProperties
<1>3. /\ rest \in Seq(AnyType) /\ Len(rest) = Len(Tail(s)) + Len(t)
      /\ \A i \in 1 .. Len(Tail(s)) + Len(t) :
           rest[i] = IF i <= Len(Tail(s)) THEN Tail(s)[i] ELSE t[i - Len(Tail(s))]
  BY <1>1, ConcatProperties
<1> HIDE DEF st, rest
<1>4. st # <<>> /\ Head(st) = st[1]
  BY <1>1, <1>2
<1>5. /\ Tail(st) \in Seq(AnyType) /\ Len(Tail(st)) = Len(st) - 1
      /\ \A i \in 1 .. Len(Tail(st)) : Tail(st)[i] = st[i + 1]
  BY <1>2, <1>4, HeadTailProperties
<1>6. Head(st) = Head(s)
  BY <1>1, <1>2, <1>4
<1>7. Tail(st) = rest
  <2>1. Len(Tail(st)) = Len(rest)
    BY <1>1, <1>2, <1>3, <1>5
  <2>2. ASSUME NEW i \in 1 .. Len(Tail(st))
        PROVE  Tail(st)[i] = rest[i]
    <3>1. /\ i \in 1 .. Len(Tail(s)) + Len(t) /\ i + 1 \in 1 .. Len(s) + Len(t)
          /\ i <= Len(Tail(s)) <=> i + 1 <= Len(s)
          /\ (i + 1) - Len(s) = i - Len(Tail(s))
      BY <1>1, <1>2, <1>5
    <3>2. i <= Len(Tail(s)) => Tail(s)[i] = s[i + 1]
      BY <1>1, <3>1
    <3> QED
      BY <1>2, <1>3, <1>5, <3>1, <3>2
  <2> QED
    BY <1>3, <1>5, <2>1, <2>2, SeqEqual
<1> QED
  BY <1>2, <1>4, <1>6, <1>7 DEF st, rest

LEMMA ReceiveView ==
    ASSUME IInv, NEW p \in Players, Receives(p),
           \A q \in Players : TurnOf(q), \A q \in Players : CourierOf(q), \A q \in Players : ViewOf(q)
    PROVE  \A q \in Players : ViewOf(q)'
<1> DEFINE v == browser[p]
           in == inbox[p]
           w == Handled(p, v, Head(in))
<1>1. /\ v \in Sound /\ in \in Seq(DownType) /\ in # <<>> /\ Head(in) \in DownType
      /\ inbox'[p] = Tail(in) /\ browser'[p] = w
      /\ \A q \in Players : q # p => browser'[q] = browser[q] /\ inbox'[q] = inbox[q]
      /\ currentPlayer' = currentPlayer /\ balls' = balls /\ layout' = layout /\ outbox' = outbox
  BY DEF IInv, Carried, Receives, server
<1>2. ~Shows(v) /\ ~Reports(outbox[p])
  BY <1>1, ShooterHeard
<1>3. Head(in).type # "reconnected"
  BY <1>1, TailItems DEF TurnOf, OneTurn, Paired
<1>4. ~Shows(w)
  BY <1>1, <1>2, <1>3, HandledTurn
<1> HIDE DEF w
<1>5. Truth' = Truth /\ Place' = Place /\ \A q : Falling(q)' = Falling(q)
  <2>1. CASE currentPlayer = p
    BY <1>1, <1>2, <1>4, <2>1, TruthKept DEF Mover, HasReport
  <2>2. CASE currentPlayer # p
    <3>1. browser'[currentPlayer] = browser[currentPlayer]
      BY <1>1, <2>2 DEF IInv, TypeOK
    <3> QED
      BY <1>1, <3>1, TruthKept
  <2> QED
    BY <2>1, <2>2
<1>6. Stream(p) \in Seq(AnyType) /\ Stream(p) # <<>> /\ Head(Stream(p)) = Head(in) /\ Stream(p)' = Tail(Stream(p))
  <2>1. in \in Seq(AnyType) /\ outbox[Opponent(p)] \in Seq(AnyType)
    BY StreamTyped, Opponents
  <2> QED
    BY <1>1, <2>1, TakenFirst DEF Stream
<1>7. ViewOf(p)'
  <2>1. View(w, Tail(Stream(p)), Truth, Falling(p), Place)
    BY <1>1, <1>3, <1>6, ViewTaken DEF ViewOf, w
  <2> QED
    BY <1>1, <1>5, <1>6, <2>1 DEF ViewOf
<1>8. ASSUME NEW q \in Players, q # p
      PROVE  ViewOf(q)'
  <2>1. Stream(q)' = Stream(q)
    BY <1>1, <1>8 DEF Stream
  <2> QED
    BY <1>1, <1>5, <1>8, <2>1 DEF ViewOf
<1> QED
  BY <1>7, <1>8

LEMMA RelayedBehind ==
    ASSUME NEW s \in Seq(AnyType), NEW t \in Seq(AnyType), t # <<>>
    PROVE  (s \o One(Head(t))) \o Tail(t) = s \o t
<1>1. /\ Tail(t) \in Seq(AnyType)
      /\ One(Head(t)) \in Seq(AnyType) /\ Len(One(Head(t))) = 1 /\ One(Head(t))[1] = Head(t)
  BY HeadTailProperties, OneTyped, OneTuple
<1>2. One(Head(t)) \o Tail(t) = t
  <2> DEFINE h == One(Head(t))
             u == h \o Tail(t)
  <2>1. /\ Len(t) \in Nat /\ Len(t) >= 1 /\ Head(t) = t[1] /\ Len(Tail(t)) = Len(t) - 1
        /\ \A i \in 1 .. Len(Tail(t)) : Tail(t)[i] = t[i + 1]
    BY HeadTailProperties
  <2> HIDE DEF h
  <2>2. /\ u \in Seq(AnyType) /\ Len(u) = Len(h) + Len(Tail(t))
        /\ \A i \in 1 .. Len(h) + Len(Tail(t)) :
             u[i] = IF i <= Len(h) THEN h[i] ELSE Tail(t)[i - Len(h)]
    BY <1>1, ConcatProperties DEF h
  <2>3. Len(h) = 1 /\ h[1] = t[1]
    BY <1>1, <2>1 DEF h
  <2> HIDE DEF u
  <2>4. Len(u) = Len(t)
    BY <2>1, <2>2, <2>3
  <2>5. ASSUME NEW i \in 1 .. Len(u)
        PROVE  u[i] = t[i]
    <3>1. CASE i = 1
      BY <2>1, <2>2, <2>3, <3>1
    <3>2. CASE i # 1
      <4>1. i \in 1 .. Len(h) + Len(Tail(t)) /\ ~(i <= Len(h)) /\ i - Len(h) \in 1 .. Len(Tail(t)) /\ (i - Len(h)) + 1 = i
        BY <2>1, <2>2, <2>3, <3>2
      <4> QED
        BY <2>1, <2>2, <4>1
    <3> QED
      BY <3>1, <3>2
  <2>6. u = t
    BY <2>2, <2>4, <2>5, SeqEqual
  <2> QED
    BY <2>6 DEF u, h
<1>3. (s \o One(Head(t))) \o Tail(t) = s \o (One(Head(t)) \o Tail(t))
  <2> DEFINE h == One(Head(t))
             r == Tail(t)
  <2>1. h \in Seq(AnyType) /\ r \in Seq(AnyType)
    BY <1>1
  <2> HIDE DEF h, r
  <2>2. (s \o h) \o r = s \o (h \o r)
    BY <2>1, ConcatAssociative
  <2> QED
    BY <2>2 DEF h, r
<1> QED
  BY <1>2, <1>3

LEMMA RelayView ==
    ASSUME IInv, NEW p \in Players, Relays(p),
           \A q \in Players : TurnOf(q), \A q \in Players : CourierOf(q), \A q \in Players : ViewOf(q)
    PROVE  \A q \in Players : ViewOf(q)'
<1> DEFINE out == outbox[p]
           o == Opponent(p)
<1>1. out \in Seq(UpType) /\ out # <<>> /\ Head(out).type # "shoot" /\ o \in Players /\ o # p /\ Opponent(o) = p
  BY Opponents DEF IInv, Carried, Relays, Relayed, Takes
<1>2. currentPlayer = p
  BY <1>1 DEF CourierOf, QueuesOf
<1>3. /\ outbox'[p] = Tail(out) /\ outbox'[o] = outbox[o]
      /\ inbox'[p] = inbox[p] /\ inbox'[o] = inbox[o] \o One(Head(out))
      /\ browser' = browser /\ currentPlayer' = currentPlayer /\ balls' = balls /\ layout' = layout
  <2>1. /\ outbox' = [outbox EXCEPT ![p] = Tail(out)]
        /\ inbox' = [inbox EXCEPT ![o] = Delivers(o, One(Head(out)))]
        /\ browser' = browser /\ currentPlayer' = currentPlayer /\ balls' = balls /\ layout' = layout
    BY <1>1, <1>2 DEF Relays, Takes, server, IInv, Carried, One
  <2>2. Delivers(o, One(Head(out))) = inbox[o] \o One(Head(out))
    BY <1>1, Connected
  <2> QED
    BY <1>1, <2>1, <2>2 DEF IInv, Carried
<1>4. Reports(Tail(out)) <=> Reports(out)
  <2>1. Reports(Tail(out)) => Reports(out)
    BY <1>1, TakenReports
  <2>2. ASSUME NEW i \in 1 .. Len(out), out[i].type = "shoot"
        PROVE  Reports(Tail(out))
    <3>1. i # 1
      BY <1>1, <2>2, TailItems
    <3>2. i - 1 \in 1 .. Len(Tail(out)) /\ Tail(out)[i - 1] = out[i]
      BY <1>1, <3>1, TailItems
    <3> QED
      BY <2>2, <3>2 DEF Reports
  <2> QED
    BY <2>1, <2>2 DEF Reports
<1>5. Truth' = Truth /\ Place' = Place /\ \A q : Falling(q)' = Falling(q)
  BY <1>2, <1>3, <1>4, TruthKept
<1>6. Stream(p)' = Stream(p) /\ Stream(o)' = Stream(o)
  <2>1. inbox[o] \in Seq(AnyType) /\ out \in Seq(AnyType)
    BY <1>1, StreamTyped
  <2>2. (inbox[o] \o One(Head(out))) \o Tail(out) = inbox[o] \o out
    BY <1>1, <2>1, RelayedBehind
  <2> QED
    BY <1>1, <1>3, <2>2 DEF Stream
<1> QED
  BY <1>1, <1>3, <1>5, <1>6, Opponents DEF ViewOf

LEMMA AcceptView ==
    ASSUME IInv, NEW p \in Players, Accepts(p),
           \A q \in Players : TurnOf(q), \A q \in Players : CourierOf(q), \A q \in Players : ViewOf(q)
    PROVE  \A q \in Players : ViewOf(q)'
<1> DEFINE v == browser[p]
           o == Opponent(p)
<1>1. /\ currentPlayer = p /\ currentPlayer' \in Players /\ browser' = browser
      /\ outbox' = [q \in Players |-> <<>>]
  BY AcceptEffect
<1>2. PICK m \in ShootType, a \in ShotResultType, b \in TurnType :
        /\ outbox[p] = One(m)
        /\ inbox' = [q \in Players |-> inbox[q] \o Two(a, b)]
        /\ Answer(m, a, b, currentPlayer', balls', layout')
  BY AcceptEffect
<1>3. /\ m \in AnyType /\ a \in AnyType /\ b \in AnyType
      /\ m.type = "shoot" /\ b.type = "turn" /\ ~Frame(b) /\ ~Ends(b)
  BY DEF AnyType, UpType, DownType, ShootType, ShotResultType, TurnType, Frame, Ends
<1>4. Reports(outbox[p])
  BY <1>2, <1>3, OneTuple DEF Reports
<1>5. inbox[p] = <<>> /\ ~v.remotePlayback /\ ~Shows(v)
  BY <1>4, ShooterHeard DEF TurnOf, OneTurn
<1>6. m.balls = v.table /\ m.pocketed \cap v.table = {} /\ m.shot = v.layout
  <2>1. 1 \in 1 .. Len(outbox[p]) /\ outbox[p][1] = m
    BY <1>2, <1>3, OneTuple
  <2> QED
    BY <1>3, <2>1 DEF CourierOf, ReportOf
<1>7. Truth = v.table /\ Place = v.layout
  BY <1>1, <1>4 DEF Truth, Place, Mover, HasReport
<1>8. /\ o \in Players /\ o # p /\ outbox[o] = <<>>
      /\ View(browser[o], inbox[o] \o One(m), v.table, {}, v.layout)
  BY <1>1, <1>2, <1>5, <1>7, ShooterView
<1>9. /\ a.result.pocketed = m.pocketed /\ a.result.shot = v.layout
      /\ balls' = v.table /\ layout' = v.layout
  BY <1>2, <1>6 DEF Answer
<1>10. \A q \in Players : ~Shows(browser[q])
  BY <1>1, <1>5, OtherIdle
<1>11. Truth' = v.table /\ Place' = v.layout /\ \A q : Falling(q)' = {}
  <2>1. ~Reports(<<>>)
    BY DEF Reports
  <2> QED
    BY <1>1, <1>9, <1>10, <2>1 DEF Truth, Place, Falling, Mover, HasReport
<1>12. Stream(p)' = Two(a, b) /\ Stream(o)' = (inbox[o] \o One(a)) \o One(b)
  <2>1. inbox'[p] = <<>> \o Two(a, b) /\ inbox'[o] = inbox[o] \o Two(a, b)
        /\ \A q \in Players : outbox'[q] = <<>>
    BY <1>1, <1>2, <1>5, <1>8, Zenon
  <2>2. inbox[o] \in Seq(AnyType) /\ <<>> \in Seq(AnyType)
    BY <1>8, StreamTyped
  <2>3. Two(a, b) \in Seq(AnyType) /\ <<>> \o Two(a, b) = Two(a, b) /\ Two(a, b) \o <<>> = Two(a, b)
    BY <1>3, TwoTyped, ConcatEmptySeq
  <2>4. inbox[o] \o (<<>> \o Two(a, b)) = ((inbox[o] \o <<>>) \o One(a)) \o One(b)
    BY <1>3, <2>2, SentBehind
  <2>5. inbox[o] \o <<>> = inbox[o]
    BY <2>2, ConcatEmptySeq
  <2>6. inbox[o] \o Two(a, b) \in Seq(AnyType)
    BY <2>2, <2>3, ConcatProperties
  <2>7. (inbox[o] \o Two(a, b)) \o <<>> = inbox[o] \o Two(a, b)
    BY <2>6, ConcatEmptySeq
  <2> QED
    BY <1>8, <2>1, <2>3, <2>4, <2>5, <2>7, Opponents DEF Stream
<1>13. ViewOf(p)'
  <2>1. View(v, Two(a, b), v.table, {}, v.layout)
    BY <1>5, <1>6, <1>9, ViewOwn
  <2> QED
    BY <1>1, <1>11, <1>12, <2>1 DEF ViewOf
<1>14. ViewOf(o)'
  <2>1. inbox[o] \in Seq(AnyType) /\ inbox[o] \o One(a) \in Seq(AnyType)
    BY <1>3, <1>8, StreamTyped, OneTyped, ConcatProperties
  <2>2. View(browser[o], inbox[o] \o One(a), v.table, {}, v.layout)
    BY <1>6, <1>8, <1>9, <2>1, ViewAnswered
  <2>3. View(browser[o], (inbox[o] \o One(a)) \o One(b), v.table, {}, v.layout)
    BY <1>3, <2>1, <2>2, ViewAlso
  <2> QED
    BY <1>1, <1>11, <1>12, <2>3 DEF ViewOf
<1> QED
  BY <1>13, <1>14, Opponents

LEMMA InitViews == Init => Views
<1> SUFFICES ASSUME Init, NEW p \in Players PROVE ViewOf(p)
  BY DEF Views
<1> DEFINE v == browser[p]
<1>1. /\ v.isSimulating = FALSE /\ v.table = Balls /\ v.layout = 0 /\ v.remotePlayback = FALSE
      /\ v.pending = NoResult
  BY DEF Init
<1>2. currentPlayer \in Players /\ browser[currentPlayer].isSimulating = FALSE /\ balls = Balls /\ layout = 0
  BY DEF Init, Players
<1>3. inbox[p] = <<>> /\ outbox[Opponent(p)] = <<>> /\ outbox[currentPlayer] = <<>>
  BY <1>2, Opponents DEF Init
<1>4. Truth = v.table /\ Place = v.layout /\ Falling(p) = {}
  BY <1>1, <1>2, <1>3 DEF Truth, Place, Falling, Mover, Shows, HasReport, Reports
<1>5. Stream(p) = <<>>
  BY <1>3, NothingBehind DEF Stream
<1> QED
  BY <1>1, <1>4, <1>5, ViewAlone DEF ViewOf

--------------------------------------------------------------------------------
(* The theorem. *)

LEMMA NextViews ==
    ~Hasty /\ IInv /\ Turns /\ Couriers /\ Views /\ [Next]_vars => Couriers' /\ Views'
<1> SUFFICES ASSUME ~Hasty, IInv, Turns, Couriers, Views, [Next]_vars, drops' = 0
             PROVE  \A q \in Players : CourierOf(q)' /\ ViewOf(q)'
  BY DEF Couriers, Views
<1>1. CASE UNCHANGED vars
  BY <1>1 DEF Couriers, Views, CourierOf, QueuesOf, ViewOf, Stream, Truth, Place, Falling, Mover,
              HasReport, vars, server, network
<1>2. ASSUME NEW p \in Players, LosesSocket(p)
      PROVE  FALSE
  BY <1>2 DEF LosesSocket, IInv, TypeOK
<1>3. ASSUME NEW p \in Players, Reconnects(p) \/ drops' = drops
      PROVE  \A q \in Players : TurnOf(q) /\ CourierOf(q) /\ ViewOf(q)
  BY <1>3 DEF Turns, TurnOf, Couriers, Views, Reconnects
<1>4. ASSUME NEW p \in Players, Reconnects(p)
      PROVE  FALSE
  BY <1>3, <1>4 DEF TurnOf, Reconnects
<1>5. ASSUME NEW p \in Players,
             ExecutesShot(p) \/ Simulates(p) \/ Updates(p) \/ Receives(p) \/ Serves(p)
      PROVE  \A q \in Players : CourierOf(q)' /\ ViewOf(q)'
  <2>1. drops' = drops
    BY <1>5 DEF ExecutesShot, Simulates, SimulatesFrame, Settles, Updates, Receives, Serves,
                Relays, Accepts, Rejects, network
  <2>2. \A q \in Players : TurnOf(q) /\ CourierOf(q) /\ ViewOf(q)
    BY <1>3, <2>1
  <2>3. CASE ExecutesShot(p)
    BY <2>2, <2>3, ShootCourier, ShootView
  <2>4. CASE SimulatesFrame(p)
    BY <2>2, <2>4, SimulateCourier, SimulateView
  <2>5. CASE Settles(p)
    BY <2>2, <2>5, SettleCourier, SettleView
  <2>6. CASE Updates(p)
    BY <2>2, <2>6, UpdateCourier, UpdateView
  <2>7. CASE Receives(p)
    BY <2>2, <2>7, ReceiveCourier, ReceiveView
  <2>8. CASE Relays(p)
    BY <2>2, <2>8, RelayCourier, RelayView
  <2>9. CASE Accepts(p)
    BY <2>2, <2>9, AcceptCourier, AcceptView
  <2>10. ~Rejects(p)
    BY <2>2, NoReject
  <2> QED
    BY <1>5, <2>3, <2>4, <2>5, <2>6, <2>7, <2>8, <2>9, <2>10 DEF Simulates, Serves
<1> QED
  BY <1>1, <1>2, <1>4, <1>5 DEF Next

LEMMA ViewsSettle == IInv /\ Views => TablesSettle
<1> SUFFICES ASSUME IInv, Views, drops = 0, Quiet, NEW p \in Players
             PROVE  browser[p].table = balls /\ browser[p].layout = layout
  BY DEF TablesSettle
<1> DEFINE v == browser[p]
<1>1. currentPlayer \in Players /\ balls \subseteq Balls
  BY DEF IInv, TypeOK
<1>2. /\ inbox[p] = <<>> /\ outbox[Opponent(p)] = <<>> /\ outbox[currentPlayer] = <<>>
      /\ ~v.isSimulating /\ ~Mover.isSimulating
  BY <1>1, Opponents DEF Quiet, Mover
<1>3. Truth = balls /\ Place = layout /\ Falling(p) = {}
  BY <1>2 DEF Truth, Place, Falling, Shows, HasReport, Reports
<1>4. View(v, <<>>, balls, {}, layout)
  BY <1>2, <1>3, NothingBehind DEF Views, ViewOf, Stream
<1>5. ~v.remotePlayback /\ v.pending = NoResult /\ v.table \subseteq Balls
  BY <1>2 DEF IInv, Sound, Agrees, BrowserType
<1> QED
  BY <1>1, <1>4, <1>5, AloneView

(* While the sockets stay up, and if nobody shoots between a result and the   *)
(* your_turn right behind it, both browsers show the balls the server knows,  *)
(* and where it knows them, whenever nothing is under way - whatever is sent, *)
(* buffered, replayed or ignored in between, however long it takes.           *)
THEOREM TablesAlwaysSettle == Spec => (~Hasty => []TablesSettle)
<1> SUFFICES ASSUME ~Hasty PROVE Spec => []TablesSettle
  OBVIOUS
<1>1. IInv /\ Turns /\ [Next]_vars => Turns'
  BY NextTurns
<1>2. IInv /\ Turns /\ Couriers /\ Views /\ [Next]_vars => Couriers' /\ Views'
  BY NextViews
<1>3. Spec => [](IInv /\ Turns /\ Couriers /\ Views)
  BY <1>1, <1>2, InitInvariant, InitTurns, InitCouriers, InitViews, NextInvariant, PTL DEF Spec
<1> QED
  BY <1>3, ViewsSettle, PTL
================================================================================
