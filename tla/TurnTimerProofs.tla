---------------------------- MODULE TurnTimerProofs ----------------------------
(***************************************************************************)
(* Proofs about TurnTimer, for every time-out and every number of timer    *)
(* tasks: the type invariant, that a game ends once and is credited at     *)
(* most once, and that the turn of a running game is timed.                *)
(***************************************************************************)
EXTENDS TurnTimer, TLAPS

(* Who will credit the game: handlers of a deciding shot, tasks that timed *)
(* somebody out.                                                           *)
HandlerClaims(h) == pc[h] \in {"last result", "pause", "over", "credit"}
WorkerClaims(w) == worker[w].at \in {"sending", "crediting"}

NobodyClaims ==
    (\A h \in Players : ~HandlerClaims(h)) /\ (\A w \in Workers : ~WorkerClaims(w))

(* Only the one who ended the game claims to credit it, until it is done.  *)
OneClaim ==
    /\ ~isGameOver => NobodyClaims /\ callbacks = 0
    /\ callbacks = 0 \/ (callbacks = 1 /\ NobodyClaims)
    /\ \A g, h \in Players : HandlerClaims(g) /\ HandlerClaims(h) => g = h
    /\ \A v, w \in Workers : WorkerClaims(v) /\ WorkerClaims(w) => v = w
    /\ \A h \in Players, w \in Workers : ~(HandlerClaims(h) /\ WorkerClaims(w))

(* A handler between a shot and the start of the next timer.               *)
Between(h) == pc[h] \in {"result", "turns"}

(* As long as no send suspended: such a handler holds the loop, the turn   *)
(* is new, and the player it noted is still the one to move.               *)
Prompt ==
    ~suspended =>
        \A h \in Players :
            /\ Between(h) => running = Handler(h) /\ turnAge = 0
            /\ pc[h] = "turns" => nextPlayer[h] = currentPlayer

(* Whoever claims the credit has a winner to report. *)
Entitled == ~NobodyClaims => endedBy \in {"shot", "timer"}

IInv == TypeOK /\ OneClaim /\ Prompt /\ TurnIsTimed /\ Entitled

--------------------------------------------------------------------------------
(* The holders of the loop are different. *)
LEMMA TasksDiffer ==
    /\ Loop \notin Tasks
    /\ \A h \in Players : Handler(h) \in Tasks
    /\ \A w \in Workers : Timer(w) \in Tasks
    /\ \A g, h \in Players : Handler(g) = Handler(h) => g = h
    /\ \A h \in Players, w \in Workers : Handler(h) # Timer(w)
BY DEF Loop, Tasks, Handler, Timer

(* Cancelling what is registered changes at most a task's mark. *)
LEMMA CancelTypes ==
    ASSUME TypeOK
    PROVE  /\ CancelRegistered(worker) \in [Workers -> WorkerType]
           /\ \A w \in Workers :
                /\ CancelRegistered(worker)[w].player = worker[w].player
                /\ CancelRegistered(worker)[w].at = worker[w].at
                /\ CancelRegistered(worker)[w].left = worker[w].left
<1> SUFFICES ASSUME NEW w \in Workers
             PROVE  /\ CancelRegistered(worker)[w] \in WorkerType
                    /\ CancelRegistered(worker)[w].player = worker[w].player
                    /\ CancelRegistered(worker)[w].at = worker[w].at
                    /\ CancelRegistered(worker)[w].left = worker[w].left
  BY DEF CancelRegistered
<1>1. worker[w] \in WorkerType
  BY DEF TypeOK
<1>2. CancelRegistered(worker)[w] \in {worker[w], [worker[w] EXCEPT !.cancelled = TRUE]}
  BY DEF CancelRegistered
<1> QED
  BY <1>1, <1>2 DEF WorkerType

LEMMA NewTaskTypes ==
    ASSUME NEW p \in Players
    PROVE  NewTask(p) \in WorkerType
BY TimerAssumption DEF NewTask, WorkerType

(* A timer task starts for player p: it is new, and the others are what they *)
(* were, but for a cancellation.                                             *)
LEMMA StartTypes ==
    ASSUME TypeOK, NEW p \in Players, StartTimer(p)
    PROVE  /\ worker' \in [Workers -> WorkerType]
           /\ registered' \in Workers
           /\ worker'[registered'] = NewTask(p)
           /\ \A w \in Workers : w # registered' => worker'[w].at = worker[w].at
<1>1. PICK w \in Workers : /\ worker' = [CancelRegistered(worker) EXCEPT ![w] = NewTask(p)]
                           /\ registered' = w
  BY DEF StartTimer
<1> QED
  BY <1>1, CancelTypes, NewTaskTypes

LEMMA SendTypes ==
    ASSUME NEW t \in Tasks, AwaitsSend(t)
    PROVE  running' \in {Loop} \cup Tasks /\ suspended' \in BOOLEAN
BY DEF AwaitsSend

(* The broken broadcasts are broadcasts. *)
LEMMA BrokenTypes ==
    ASSUME broken \subseteq Tasks, [Next]_vars
    PROVE  broken' \subseteq Tasks
<1>1. Broadcasting \subseteq Tasks
  BY DEF Broadcasting, Tasks
<1>2. ASSUME NEW h \in Players, ShotInit(h) \/ Shoot(h) \/ HandlerResumes(h)
      PROVE  broken' \subseteq broken \cup Broadcasting
  BY <1>2 DEF ShotInit, Shoot, HandlerResumes, ResultSent, TurnsSent, LastResultSent, PauseEnds,
              HandlerCredits, HandlerPaid, HandlerBreaks, AwaitsSend, BroadcastEnds
<1>3. ASSUME NEW w \in Workers, WorkerResumes(w)
      PROVE  broken' \subseteq broken \cup Broadcasting
  BY <1>3 DEF WorkerResumes, WorkerBegins, WorkerNeverBegins, WorkerCancelled, TimesOut,
              WakesForNothing, WorkerCredits, WorkerPaid, WorkerBreaks, AwaitsSend, BroadcastEnds
<1>4. CASE ForceEnd \/ ConnectionsChange \/ CleanUp \/ Tick \/ Deserted \/ UNCHANGED vars
  <2>1. broken' \subseteq broken \cup Broadcasting
    BY <1>4 DEF ForceEnd, ConnectionsChange, CleanUp, Tick, Deserted, vars
  <2> QED
    BY <1>1, <2>1
<1> QED
  BY <1>1, <1>2, <1>3, <1>4 DEF Next

--------------------------------------------------------------------------------
(* Types. *)

LEMMA InitTypes == Init => TypeOK
<1> SUFFICES ASSUME Init PROVE TypeOK
  OBVIOUS
<1>1. 1 \in Workers /\ 1 \in Players
  BY TimerAssumption DEF Workers, Players
<1>2. \A w \in Workers : worker[w] \in {NewTask(1), Unborn}
  BY DEF Init
<1>3. Unborn \in WorkerType
  BY TimerAssumption DEF Unborn, WorkerType, Players
<1>4. worker \in [Workers -> WorkerType]
  BY <1>1, <1>2, <1>3, NewTaskTypes DEF Init
<1>5. turnAge \in 0 .. TimeoutTicks + 1
  BY TimerAssumption DEF Init
<1>6. registered \in Workers \cup {Nobody} /\ callbacks \in Nat
  BY <1>1 DEF Init
<1>7. /\ pc \in [Players -> {"receive", "result", "turns", "last result", "pause", "over", "credit", "died"}]
      /\ nextPlayer \in [Players -> Players]
  BY <1>1 DEF Init
<1>8. /\ isGameOver \in BOOLEAN /\ simulating \in BOOLEAN /\ suspended \in BOOLEAN
      /\ credited \in BOOLEAN /\ closed \in BOOLEAN
      /\ endedBy \in {"nothing", "shot", "timer", "admin"} /\ running \in {Loop} \cup Tasks
      /\ broken \subseteq Tasks
  BY DEF Init
<1> QED
  BY <1>1, <1>4, <1>5, <1>6, <1>7, <1>8 DEF Init, TypeOK

LEMMA HandlerTypes ==
    ASSUME TypeOK, broken' \subseteq Tasks, NEW h \in Players,
           ShotInit(h) \/ Shoot(h) \/ HandlerResumes(h)
    PROVE  TypeOK'
<1> USE DEF turn, credit, handlers, timers
<1>1. Handler(h) \in Tasks
  BY TasksDiffer
<1>2. CASE ShotInit(h)
  BY <1>2 DEF TypeOK, ShotInit
<1>3. CASE Shoot(h)
  <2>1. worker' \in [Workers -> WorkerType]
    BY <1>3, CancelTypes DEF Shoot
  <2>2. running' \in {Loop} \cup Tasks /\ suspended' \in BOOLEAN
    BY <1>1, <1>3, SendTypes DEF Shoot
  <2>3. pc' \in [Players -> {"receive", "result", "turns", "last result", "pause", "over", "credit", "died"}]
    BY <1>3 DEF Shoot, Goto, TypeOK
  <2>4. currentPlayer' \in Players
    BY <1>3 DEF Shoot, TypeOK
  <2>5. isGameOver' \in BOOLEAN /\ endedBy' \in {"nothing", "shot", "timer", "admin"}
    BY <1>3 DEF Shoot, TypeOK
  <2>6. turnAge' = 0
    BY <1>3 DEF Shoot
  <2>7. turnAge' \in 0 .. TimeoutTicks + 1
    BY <2>6, TimerAssumption
  <2> QED
    BY <1>3, <2>1, <2>2, <2>3, <2>4, <2>5, <2>7 DEF Shoot, TypeOK
<1>4. CASE ResultSent(h)
  <2>1. running' \in {Loop} \cup Tasks /\ suspended' \in BOOLEAN
    BY <1>1, <1>4, SendTypes DEF ResultSent
  <2>2. nextPlayer' \in [Players -> Players]
    BY <1>4 DEF ResultSent, TypeOK
  <2> QED
    BY <1>4, <2>1, <2>2 DEF ResultSent, Goto, TypeOK
<1>7. CASE PauseEnds(h)
  <2>1. running' \in {Loop} \cup Tasks /\ suspended' \in BOOLEAN
    BY <1>1, <1>7, SendTypes DEF PauseEnds
  <2> QED
    BY <1>7, <2>1 DEF PauseEnds, Goto, TypeOK
<1>5. CASE TurnsSent(h)
  <2>1. worker' \in [Workers -> WorkerType] /\ registered' \in Workers
    BY <1>5, StartTypes DEF TurnsSent, TypeOK
  <2> QED
    BY <1>5, <2>1 DEF TurnsSent, Goto, TypeOK
<1>6. CASE LastResultSent(h)
  <2>1. pc' \in [Players -> {"receive", "result", "turns", "last result", "pause", "over", "credit", "died"}]
    BY <1>6 DEF LastResultSent, Goto, TypeOK
  <2> QED
    BY <1>6, <2>1 DEF LastResultSent, TypeOK
<1>10. CASE HandlerCredits(h)
  <2>1. pc' \in [Players -> {"receive", "result", "turns", "last result", "pause", "over", "credit", "died"}]
    BY <1>10 DEF HandlerCredits, Goto, TypeOK
  <2> QED
    BY <1>10, <2>1 DEF HandlerCredits, TypeOK
<1>9. CASE HandlerBreaks(h)
  BY <1>9 DEF HandlerBreaks, Goto, TypeOK
<1>8. CASE HandlerPaid(h)
  <2>1. callbacks' = callbacks + 1 /\ callbacks \in Nat
    BY <1>8 DEF HandlerPaid, TypeOK
  <2>2. callbacks' \in Nat
    BY <2>1
  <2> QED
    BY <1>8, <2>2 DEF HandlerPaid, Goto, TypeOK
<1> QED
  BY <1>2, <1>3, <1>4, <1>5, <1>6, <1>7, <1>8, <1>9, <1>10 DEF HandlerResumes

LEMMA WorkerTypes ==
    ASSUME TypeOK, broken' \subseteq Tasks, NEW w \in Workers, WorkerResumes(w)
    PROVE  TypeOK'
<1> USE DEF turn, credit, handlers, timers
<1>1. Timer(w) \in Tasks
  BY TasksDiffer
<1>2. ASSUME NEW at \in {"created", "sleeping", "sending", "crediting", "done"}
      PROVE  [worker EXCEPT ![w].at = at] \in [Workers -> WorkerType]
  BY DEF TypeOK, WorkerType
<1>3. CASE WorkerBegins(w) \/ WorkerNeverBegins(w)
  BY <1>2, <1>3 DEF WorkerBegins, WorkerNeverBegins, TypeOK
<1>4. CASE WorkerCancelled(w) \/ WakesForNothing(w) \/ WorkerPaid(w) \/ WorkerBreaks(w)
  <2>1. worker' \in [Workers -> WorkerType]
    BY <1>2, <1>4 DEF WorkerCancelled, WakesForNothing, WorkerPaid, WorkerBreaks, WorkerEnds
  <2>2. registered' = Nobody /\ running' = Loop
    BY <1>4 DEF WorkerCancelled, WakesForNothing, WorkerPaid, WorkerBreaks, WorkerEnds
  <2>3. callbacks' \in {callbacks, callbacks + 1} /\ callbacks \in Nat
    BY <1>4 DEF WorkerCancelled, WakesForNothing, WorkerPaid, WorkerBreaks, TypeOK
  <2>4. callbacks' \in Nat
    BY <2>3
  <2>5. UNCHANGED <<turn, handlers, credited, closed, suspended>>
    BY <1>4 DEF WorkerCancelled, WakesForNothing, WorkerPaid, WorkerBreaks
  <2> QED
    BY <2>1, <2>2, <2>4, <2>5 DEF TypeOK
<1>5. CASE TimesOut(w)
  <2>1. running' \in {Loop} \cup Tasks /\ suspended' \in BOOLEAN
    BY <1>1, <1>5, SendTypes DEF TimesOut
  <2> QED
    BY <1>2, <1>5, <2>1 DEF TimesOut, TypeOK
<1>6. CASE WorkerCredits(w)
  BY <1>2, <1>6 DEF WorkerCredits, WorkerEnds, TypeOK
<1> QED
  BY <1>3, <1>4, <1>5, <1>6, WorkerResumes(w) DEF WorkerResumes

(* A sleeping task has time left when a tick passes. *)
LEMMA TickTypes ==
    ASSUME TypeOK, broken' \subseteq Tasks, Tick
    PROVE  TypeOK'
<1> USE DEF turn, credit, handlers, timers
<1>1. worker' \in [Workers -> WorkerType]
  <2> SUFFICES ASSUME NEW w \in Workers
               PROVE  (IF Sleeping(w) THEN [worker[w] EXCEPT !.left = @ - 1] ELSE worker[w]) \in WorkerType
    BY DEF Tick
  <2>1. worker[w] \in WorkerType
    BY DEF TypeOK
  <2>2. Sleeping(w) => worker[w].left # 0
    BY DEF Tick, Due, Alive, Sleeping
  <2> QED
    BY <2>1, <2>2, TimerAssumption DEF WorkerType
<1>2. turnAge' \in 0 .. TimeoutTicks + 1
  <2>1. turnAge \in 0 .. TimeoutTicks + 1 /\ TimeoutTicks \in Nat
    BY TimerAssumption DEF TypeOK
  <2>2. turnAge' = turnAge \/ (~(turnAge > TimeoutTicks) /\ turnAge' = turnAge + 1)
    BY DEF Tick
  <2> QED
    BY <2>1, <2>2
<1> QED
  BY <1>1, <1>2 DEF Tick, TypeOK

LEMMA NextTypes == TypeOK /\ [Next]_vars => TypeOK'
<1> SUFFICES ASSUME TypeOK, [Next]_vars PROVE TypeOK'
  OBVIOUS
<1> USE DEF turn, credit, handlers, timers
<1>6. broken' \subseteq Tasks
  BY BrokenTypes DEF TypeOK
<1>1. CASE \E h \in Players : ShotInit(h) \/ Shoot(h) \/ HandlerResumes(h)
  BY <1>1, <1>6, HandlerTypes
<1>2. CASE \E w \in Workers : WorkerResumes(w)
  BY <1>2, <1>6, WorkerTypes
<1>3. CASE ForceEnd \/ CleanUp \/ ConnectionsChange
  BY <1>3, <1>6, CancelTypes DEF ForceEnd, CleanUp, ConnectionsChange, TypeOK
<1>4. CASE Tick
  BY <1>4, <1>6, TickTypes
<1>5. CASE Deserted \/ UNCHANGED vars
  BY <1>5 DEF Deserted, vars, TypeOK
<1> QED
  BY <1>1, <1>2, <1>3, <1>4, <1>5 DEF Next

--------------------------------------------------------------------------------
(* The claims to credit the game. *)

(* A step that adds no claim and pays nobody keeps OneClaim. *)
LEMMA ClaimsKept ==
    ASSUME OneClaim, isGameOver => isGameOver', callbacks' = callbacks,
           \A h \in Players : HandlerClaims(h)' => HandlerClaims(h),
           \A w \in Workers : WorkerClaims(w)' => WorkerClaims(w)
    PROVE  OneClaim'
BY DEF OneClaim, NobodyClaims

(* A step after which nobody claims, the only claim having been paid. *)
LEMMA ClaimPaid ==
    ASSUME OneClaim, ~NobodyClaims, isGameOver => isGameOver',
           callbacks' \in {callbacks, callbacks + 1}, NobodyClaims'
    PROVE  OneClaim'
<1>1. isGameOver /\ callbacks = 0
  BY DEF OneClaim
<1>2. callbacks' = 0 \/ callbacks' = 1
  BY <1>1
<1> QED
  BY <1>1, <1>2 DEF OneClaim, NobodyClaims

LEMMA HandlerOneClaim ==
    ASSUME TypeOK, OneClaim, NEW h \in Players,
           ShotInit(h) \/ Shoot(h) \/ HandlerResumes(h)
    PROVE  OneClaim'
<1> USE DEF turn, credit, handlers, timers, HandlerClaims, WorkerClaims
<1>1. pc \in [Players -> {"receive", "result", "turns", "last result", "pause", "over", "credit", "died"}]
  BY DEF TypeOK
<1>2. CASE ShotInit(h)
  BY <1>2, ClaimsKept DEF ShotInit
<1>3. CASE Shoot(h)
  <2>1. NobodyClaims /\ callbacks = 0
    BY <1>3 DEF Shoot, OneClaim
  <2>2. callbacks' = 0 /\ \A w \in Workers : ~WorkerClaims(w)'
    BY <1>3, <2>1, CancelTypes DEF Shoot, NobodyClaims
  <2>3. \A g \in Players : g # h => ~HandlerClaims(g)'
    BY <1>1, <1>3, <2>1 DEF Shoot, Goto, NobodyClaims
  <2>4. isGameOver' \/ ~HandlerClaims(h)'
    BY <1>1, <1>3 DEF Shoot, Goto
  <2> QED
    BY <2>2, <2>3, <2>4 DEF OneClaim, NobodyClaims
<1>4. CASE ResultSent(h)
  BY <1>1, <1>4, ClaimsKept DEF ResultSent, Goto
<1>5. CASE TurnsSent(h)
  <2>1. nextPlayer[h] \in Players
    BY DEF TypeOK
  <2>2. /\ registered' \in Workers /\ worker'[registered'] = NewTask(nextPlayer[h])
        /\ \A w \in Workers : w # registered' => worker'[w].at = worker[w].at
    BY <1>5, <2>1, StartTypes DEF TurnsSent
  <2>3. \A w \in Workers : WorkerClaims(w)' => WorkerClaims(w)
    BY <2>2 DEF NewTask
  <2> QED
    BY <1>1, <1>5, <2>3, ClaimsKept DEF TurnsSent, Goto
<1>6. CASE LastResultSent(h)
  BY <1>1, <1>6, ClaimsKept DEF LastResultSent, Goto
<1>7. CASE PauseEnds(h)
  BY <1>1, <1>7, ClaimsKept DEF PauseEnds, Goto
<1>8. CASE HandlerCredits(h)
  BY <1>1, <1>8, ClaimsKept DEF HandlerCredits, Goto
<1>9. CASE HandlerPaid(h)
  <2>1. HandlerClaims(h) /\ ~HandlerClaims(h)'
    BY <1>1, <1>9 DEF HandlerPaid, Goto
  <2>2. ~NobodyClaims
    BY <2>1 DEF NobodyClaims
  <2>3. \A g \in Players : g # h => ~HandlerClaims(g)'
    BY <1>1, <1>9, <2>1 DEF HandlerPaid, Goto, OneClaim
  <2>4. \A w \in Workers : ~WorkerClaims(w)'
    BY <1>9, <2>1 DEF HandlerPaid, OneClaim
  <2>5. NobodyClaims'
    BY <2>1, <2>3, <2>4 DEF NobodyClaims
  <2> QED
    BY <1>9, <2>2, <2>5, ClaimPaid DEF HandlerPaid
<1>10. CASE HandlerBreaks(h)
  BY <1>1, <1>10, ClaimsKept DEF HandlerBreaks, Goto
<1> QED
  BY <1>2, <1>3, <1>4, <1>5, <1>6, <1>7, <1>8, <1>9, <1>10 DEF HandlerResumes

LEMMA WorkerOneClaim ==
    ASSUME TypeOK, OneClaim, NEW w \in Workers, WorkerResumes(w)
    PROVE  OneClaim'
<1> USE DEF turn, credit, handlers, timers, HandlerClaims, WorkerClaims
<1>1. worker \in [Workers -> WorkerType]
  BY DEF TypeOK
<1>2. ASSUME NEW at, worker' = [worker EXCEPT ![w].at = at]
      PROVE  /\ worker'[w].at = at
             /\ \A v \in Workers : v # w => worker'[v].at = worker[v].at
  BY <1>1, <1>2 DEF WorkerType
<1>3. CASE WorkerBegins(w) \/ WorkerNeverBegins(w)
  <2>1. \A v \in Workers : WorkerClaims(v)' => WorkerClaims(v)
    BY <1>2, <1>3 DEF WorkerBegins, WorkerNeverBegins
  <2>2. UNCHANGED <<pc, isGameOver, callbacks>>
    BY <1>3 DEF WorkerBegins, WorkerNeverBegins
  <2> QED
    BY <2>1, <2>2, ClaimsKept
<1>4. ASSUME WorkerEnds(w), UNCHANGED <<turn, handlers>>
      PROVE  /\ \A v \in Workers : WorkerClaims(v)' => WorkerClaims(v)
             /\ ~WorkerClaims(w)'
  <2>1. /\ worker'[w].at = "done"
        /\ \A v \in Workers : v # w => worker'[v].at = worker[v].at
    BY <1>2, <1>4 DEF WorkerEnds
  <2> QED
    BY <2>1
<1>5. ASSUME WorkerEnds(w), UNCHANGED <<turn, handlers>>, WorkerClaims(w),
             callbacks' \in {callbacks, callbacks + 1}
      PROVE  OneClaim'
  <2>1. ~NobodyClaims
    BY <1>5 DEF NobodyClaims
  <2>2. NobodyClaims'
    BY <1>4, <1>5 DEF NobodyClaims, OneClaim
  <2> QED
    BY <1>5, <2>1, <2>2, ClaimPaid
<1>6. CASE WorkerCancelled(w)
  <2>1. CASE callbacks' = callbacks
    BY <1>4, <1>6, <2>1, ClaimsKept DEF WorkerCancelled
  <2>2. CASE worker[w].at = "crediting" /\ callbacks' = callbacks + 1
    BY <1>5, <1>6, <2>2 DEF WorkerCancelled
  <2> QED
    BY <1>6, <2>1, <2>2 DEF WorkerCancelled
<1>7. CASE TimesOut(w)
  <2>1. NobodyClaims /\ callbacks = 0 /\ isGameOver'
    BY <1>7 DEF TimesOut, MayTimeOut, OneClaim
  <2>2. \A v \in Workers : v # w => ~WorkerClaims(v)'
    BY <1>2, <1>7, <2>1 DEF TimesOut, NobodyClaims
  <2>3. callbacks' = 0 /\ \A h \in Players : ~HandlerClaims(h)'
    BY <1>7, <2>1 DEF TimesOut, NobodyClaims
  <2> QED
    BY <2>1, <2>2, <2>3 DEF OneClaim, NobodyClaims
<1>8. CASE WakesForNothing(w)
  BY <1>4, <1>8, ClaimsKept DEF WakesForNothing
<1>11. CASE WorkerBreaks(w)
  BY <1>4, <1>11, ClaimsKept DEF WorkerBreaks
<1>9. CASE WorkerCredits(w)
  <2>1. CASE credited
    BY <1>4, <1>9, <2>1, ClaimsKept DEF WorkerCredits
  <2>2. CASE ~credited
    <3>1. \A v \in Workers : WorkerClaims(v)' => WorkerClaims(v)
      BY <1>2, <1>9, <2>2 DEF WorkerCredits
    <3> QED
      BY <1>9, <2>2, <3>1, ClaimsKept DEF WorkerCredits
  <2> QED
    BY <2>1, <2>2
<1>10. CASE WorkerPaid(w)
  BY <1>5, <1>10 DEF WorkerPaid
<1> QED
  BY <1>3, <1>6, <1>7, <1>8, <1>9, <1>10, <1>11, WorkerResumes(w) DEF WorkerResumes

LEMMA NextOneClaim == TypeOK /\ OneClaim /\ [Next]_vars => OneClaim'
<1> SUFFICES ASSUME TypeOK, OneClaim, [Next]_vars PROVE OneClaim'
  OBVIOUS
<1> USE DEF turn, credit, handlers, timers, HandlerClaims, WorkerClaims
<1>1. CASE \E h \in Players : ShotInit(h) \/ Shoot(h) \/ HandlerResumes(h)
  BY <1>1, HandlerOneClaim
<1>2. CASE \E w \in Workers : WorkerResumes(w)
  BY <1>2, WorkerOneClaim
<1>3. CASE ForceEnd \/ CleanUp
  <2>1. UNCHANGED <<pc, callbacks>> /\ (isGameOver => isGameOver')
    BY <1>3 DEF ForceEnd, CleanUp
  <2>2. \A w \in Workers : worker'[w].at = worker[w].at
    BY <1>3, CancelTypes DEF ForceEnd, CleanUp
  <2> QED
    BY <2>1, <2>2, ClaimsKept
<1>4. CASE Tick
  <2>1. worker \in [Workers -> WorkerType]
    BY DEF TypeOK
  <2>2. \A w \in Workers : WorkerClaims(w)' => WorkerClaims(w)
    BY <1>4, <2>1 DEF Tick, WorkerType
  <2> QED
    BY <1>4, <2>2, ClaimsKept DEF Tick
<1>5. CASE ConnectionsChange \/ Deserted \/ UNCHANGED vars
  <2>1. UNCHANGED <<pc, worker, isGameOver, callbacks>>
    BY <1>5 DEF ConnectionsChange, Deserted, vars
  <2> QED
    BY <2>1, ClaimsKept
<1> QED
  BY <1>1, <1>2, <1>3, <1>4, <1>5 DEF Next

--------------------------------------------------------------------------------
(* The turn of a running game. *)

(* That a send suspended is remembered. *)
LEMMA SuspendedStays == suspended /\ [Next]_vars => suspended'
BY DEF Next, ShotInit, Shoot, HandlerResumes, ResultSent, TurnsSent, LastResultSent, PauseEnds,
       HandlerCredits, HandlerPaid, WorkerResumes, WorkerBegins, WorkerNeverBegins,
       WorkerCancelled, TimesOut, WakesForNothing, WorkerCredits, WorkerPaid,
       HandlerBreaks, WorkerBreaks, ConnectionsChange,
       ForceEnd, CleanUp, Tick, Deserted, AwaitsSend, vars

(* What ended a game is not overruled by any step. *)
LEMMA GameStaysOver == isGameOver /\ [Next]_vars => isGameOver' /\ endedBy' = endedBy
<1> SUFFICES ASSUME isGameOver, [Next]_vars PROVE isGameOver' /\ endedBy' = endedBy
  OBVIOUS
<1> USE DEF turn
<1>1. ASSUME NEW h \in Players, ShotInit(h) \/ Shoot(h) \/ HandlerResumes(h)
      PROVE  UNCHANGED turn
  BY <1>1 DEF ShotInit, Shoot, HandlerResumes, ResultSent, TurnsSent, LastResultSent, PauseEnds,
              HandlerCredits, HandlerPaid, HandlerBreaks
<1>2. ASSUME NEW w \in Workers, WorkerResumes(w)
      PROVE  UNCHANGED turn
  BY <1>2 DEF WorkerResumes, WorkerBegins, WorkerNeverBegins, WorkerCancelled, TimesOut, MayTimeOut,
              WakesForNothing, WorkerCredits, WorkerPaid, WorkerBreaks
<1>3. CASE ForceEnd
  BY <1>3 DEF ForceEnd
<1>4. CASE ConnectionsChange \/ CleanUp \/ Tick \/ Deserted \/ UNCHANGED vars
  BY <1>4 DEF ConnectionsChange, CleanUp, Tick, Deserted, vars
<1> QED
  BY <1>1, <1>2, <1>3, <1>4 DEF Next

(* Nobody is between a shot and the next timer when another task runs. *)
LEMMA NobodyBetween ==
    ASSUME Prompt, ~suspended, NEW h \in Players, Between(h)
    PROVE  /\ running = Handler(h) /\ turnAge = 0
           /\ running # Loop
           /\ \A w \in Workers : running # Timer(w)
           /\ \A g \in Players : g # h => ~Between(g)
<1>1. running = Handler(h) /\ turnAge = 0
  BY DEF Prompt
<1>2. \A g \in Players : Between(g) => Handler(g) = Handler(h)
  BY <1>1 DEF Prompt
<1> QED
  BY <1>1, <1>2, TasksDiffer DEF Loop, Handler, Timer

(* While nobody is between, a step that brings nobody there keeps Prompt. *)
LEMMA PromptKept ==
    ASSUME \A h \in Players : ~Between(h), suspended \/ ~suspended',
           \A h \in Players : Between(h)' => Between(h)
    PROVE  Prompt'
BY DEF Prompt, Between

LEMMA NextPrompt == TypeOK /\ Prompt /\ [Next]_vars => Prompt'
<1> SUFFICES ASSUME TypeOK, Prompt, [Next]_vars, ~suspended' PROVE Prompt'
  BY DEF Prompt
<1> USE DEF turn, credit, handlers, timers
<1>1. pc \in [Players -> {"receive", "result", "turns", "last result", "pause", "over", "credit", "died"}]
  BY DEF TypeOK
<1>2. ~suspended
  BY SuspendedStays
<1>3. ASSUME running = Loop \/ \E w \in Workers : running = Timer(w)
      PROVE  \A h \in Players : ~Between(h)
  BY <1>2, <1>3, NobodyBetween
<1>4. ASSUME UNCHANGED pc, \A h \in Players : ~Between(h)
      PROVE  Prompt'
  BY <1>2, <1>4, PromptKept DEF Between
<1>5. ASSUME NEW h \in Players, ShotInit(h)
      PROVE  Prompt'
  BY <1>3, <1>4, <1>5 DEF ShotInit
<1>6. ASSUME NEW h \in Players, Shoot(h)
      PROVE  Prompt'
  <2>1. \A g \in Players : ~Between(g)
    BY <1>3, <1>6 DEF Shoot
  <2>2. running' = Handler(h) /\ turnAge' = 0
    BY <1>6 DEF Shoot, AwaitsSend
  <2>3. pc'[h] # "turns" /\ \A g \in Players : g # h => pc'[g] = pc[g]
    BY <1>1, <1>6 DEF Shoot, Goto
  <2> QED
    BY <2>1, <2>2, <2>3 DEF Prompt, Between
<1>7. ASSUME NEW h \in Players, ResultSent(h)
      PROVE  Prompt'
  <2>1. Between(h)
    BY <1>7 DEF ResultSent, Between
  <2>2. turnAge = 0 /\ \A g \in Players : g # h => ~Between(g)
    BY <1>2, <2>1, NobodyBetween
  <2>3. running' = Handler(h) /\ turnAge' = turnAge /\ currentPlayer' = currentPlayer
    BY <1>7 DEF ResultSent, AwaitsSend
  <2>4. nextPlayer'[h] = currentPlayer
    BY <1>7 DEF ResultSent, TypeOK
  <2>5. \A g \in Players : g # h => pc'[g] = pc[g]
    BY <1>1, <1>7 DEF ResultSent, Goto
  <2> QED
    BY <2>2, <2>3, <2>4, <2>5 DEF Prompt, Between
<1>8. ASSUME NEW h \in Players, TurnsSent(h)
      PROVE  Prompt'
  <2>1. Between(h)
    BY <1>8 DEF TurnsSent, Between
  <2>2. \A g \in Players : g # h => ~Between(g)
    BY <1>2, <2>1, NobodyBetween
  <2>3. pc'[h] = "receive" /\ \A g \in Players : g # h => pc'[g] = pc[g]
    BY <1>1, <1>8 DEF TurnsSent, Goto
  <2> QED
    BY <2>2, <2>3 DEF Prompt, Between
<1>9. ASSUME NEW h \in Players,
             \/ LastResultSent(h) \/ PauseEnds(h) \/ HandlerCredits(h) \/ HandlerPaid(h)
             \/ HandlerBreaks(h)
      PROVE  Prompt'
  <2>1. running = Loop \/ (running = Handler(h) /\ ~Between(h))
    BY <1>9 DEF LastResultSent, PauseEnds, HandlerCredits, HandlerPaid, HandlerBreaks, Scheduled, Between
  <2>2. \A g \in Players : ~Between(g)
    BY <1>2, <2>1, NobodyBetween, TasksDiffer
  <2>3. ~Between(h)' /\ \A g \in Players : g # h => pc'[g] = pc[g]
    BY <1>1, <1>9 DEF LastResultSent, PauseEnds, HandlerCredits, HandlerPaid, HandlerBreaks, Goto, Between
  <2> QED
    BY <1>2, <2>2, <2>3, PromptKept DEF Between
<1>10. ASSUME NEW w \in Workers, WorkerResumes(w)
       PROVE  Prompt'
  <2>1. running \in {Loop, Timer(w)} /\ UNCHANGED pc
    BY <1>10 DEF WorkerResumes, WorkerBegins, WorkerNeverBegins, WorkerCancelled, TimesOut,
                 WakesForNothing, WorkerCredits, WorkerPaid, WorkerBreaks, Scheduled
  <2> QED
    BY <1>3, <1>4, <2>1
<1>11. CASE ForceEnd \/ ConnectionsChange \/ CleanUp \/ Tick
  <2>1. running = Loop /\ UNCHANGED pc
    BY <1>11 DEF ForceEnd, ConnectionsChange, CleanUp, Tick
  <2> QED
    BY <1>3, <1>4, <2>1
<1>12. CASE Deserted \/ UNCHANGED vars
  <2>1. UNCHANGED <<pc, running, turnAge, nextPlayer, currentPlayer, suspended>>
    BY <1>12 DEF Deserted, vars
  <2> QED
    BY <2>1 DEF Prompt, Between, Handler
<1> QED
  BY <1>5, <1>6, <1>7, <1>8, <1>9, <1>10, <1>11, <1>12 DEF Next, HandlerResumes

(* What times the turn of the player to move. *)
Times(w) ==
    /\ worker[w].player = currentPlayer
    /\ worker[w].at \in {"created", "sleeping"}
    /\ ~worker[w].cancelled
    /\ worker[w].left = TimeoutTicks - turnAge

LEMMA NextTimed == IInv /\ [Next]_vars => TurnIsTimed'
<1> SUFFICES ASSUME IInv, [Next]_vars, running' = Loop, ~suspended', ~isGameOver'
             PROVE  \E w \in Workers : Times(w)'
  BY DEF TurnIsTimed, Times
<1> USE DEF turn, credit, handlers, timers
<1>1. TypeOK /\ OneClaim /\ Prompt /\ TurnIsTimed
  BY DEF IInv
<1>2. ~suspended /\ ~isGameOver
  BY SuspendedStays, GameStaysOver
<1>3. (\A h \in Players : ~HandlerClaims(h)) /\ (\A w \in Workers : ~WorkerClaims(w))
  BY <1>1, <1>2 DEF OneClaim, NobodyClaims
<1>4. worker \in [Workers -> WorkerType]
  BY <1>1 DEF TypeOK
<1>5. ASSUME NEW h \in Players, TurnsSent(h)
      PROVE  \E w \in Workers : Times(w)'
  <2>1. Between(h) /\ pc[h] = "turns"
    BY <1>5 DEF TurnsSent, Between
  <2>2. turnAge = 0 /\ nextPlayer[h] = currentPlayer
    BY <1>1, <1>2, <2>1 DEF Prompt
  <2>3. currentPlayer \in Players /\ StartTimer(currentPlayer)
    BY <1>1, <1>5, <2>2 DEF TurnsSent, TypeOK
  <2>4. registered' \in Workers /\ worker'[registered'] = NewTask(currentPlayer)
    BY <1>1, <2>3, StartTypes
  <2>5. UNCHANGED <<currentPlayer, turnAge>>
    BY <1>5 DEF TurnsSent
  <2>6. PICK w \in Workers : worker'[w] = NewTask(currentPlayer)
    BY <2>4
  <2>7. Times(w)'
    BY <2>2, <2>5, <2>6, TimerAssumption DEF Times, NewTask
  <2> QED
    BY <2>7
<1>6. ASSUME NEW h \in Players,
             \/ Shoot(h) \/ ResultSent(h) \/ PauseEnds(h)
             \/ LastResultSent(h) \/ HandlerCredits(h) \/ HandlerPaid(h) \/ HandlerBreaks(h)
      PROVE  FALSE
  <2>1. CASE Shoot(h) \/ ResultSent(h) \/ PauseEnds(h)
    BY <1>2, <2>1, TasksDiffer DEF Shoot, ResultSent, PauseEnds, AwaitsSend, Loop, Handler
  <2>2. CASE LastResultSent(h) \/ HandlerCredits(h) \/ HandlerPaid(h)
    BY <1>3, <2>2 DEF LastResultSent, HandlerCredits, HandlerPaid, HandlerClaims
  <2>3. CASE HandlerBreaks(h)
    BY <1>1, <1>2, <1>3, <2>3 DEF HandlerBreaks, Broadcasts, Prompt, Between, HandlerClaims, Handler, Loop
  <2> QED
    BY <1>6, <2>1, <2>2, <2>3
<1>7. ASSUME NEW w \in Workers, TimesOut(w) \/ WorkerCredits(w) \/ WorkerPaid(w) \/ WorkerBreaks(w)
      PROVE  FALSE
  BY <1>3, <1>7 DEF TimesOut, WorkerCredits, WorkerPaid, WorkerBreaks, WorkerClaims
<1>8. CASE ForceEnd \/ CleanUp
  BY <1>2, <1>8 DEF ForceEnd, CleanUp
<1>9. ASSUME running = Loop
      PROVE  \E w \in Workers : Times(w)
  BY <1>1, <1>2, <1>9 DEF TurnIsTimed, Times
<1>10. ASSUME NEW h \in Players, ShotInit(h)
       PROVE  \E w \in Workers : Times(w)'
  BY <1>9, <1>10 DEF ShotInit, Times
<1>11. ASSUME NEW w \in Workers,
              \/ WorkerBegins(w) \/ WorkerNeverBegins(w)
              \/ WorkerCancelled(w) \/ WakesForNothing(w)
       PROVE  \E v \in Workers : Times(v)'
  <2>1. PICK v \in Workers : Times(v)
    BY <1>9, <1>11 DEF WorkerBegins, WorkerNeverBegins, WorkerCancelled, WakesForNothing
  <2>2. UNCHANGED <<currentPlayer, turnAge>>
    BY <1>11 DEF WorkerBegins, WorkerNeverBegins, WorkerCancelled, WakesForNothing
  <2>3. CASE v # w
    <3>1. worker'[v] = worker[v]
      BY <1>4, <1>11, <2>3 DEF WorkerBegins, WorkerNeverBegins, WorkerCancelled,
                               WakesForNothing, WorkerEnds
    <3> QED
      BY <2>1, <2>2, <3>1 DEF Times
  <2>4. CASE v = w
    <3>1. WorkerBegins(w)
      BY <1>2, <1>11, <2>1, <2>4 DEF WorkerNeverBegins, WorkerCancelled, WakesForNothing,
                                     MayTimeOut, Times
    <3>2. worker'[v] = [worker[v] EXCEPT !.at = "sleeping"]
      BY <1>4, <2>4, <3>1 DEF WorkerBegins
    <3> QED
      BY <1>4, <2>1, <2>2, <3>2 DEF Times, WorkerType
  <2> QED
    BY <2>3, <2>4
<1>12. CASE Tick
  <2>1. PICK v \in Workers : Times(v)
    BY <1>9, <1>12 DEF Tick
  <2>2. worker[v].at = "sleeping" /\ worker[v].left # 0
    BY <1>12, <2>1 DEF Tick, Due, Alive, Times
  <2>3. worker[v].left \in 0 .. TimeoutTicks /\ turnAge \in 0 .. TimeoutTicks + 1
    BY <1>1, <1>4 DEF TypeOK, WorkerType
  <2>4. turnAge < TimeoutTicks
    BY <2>1, <2>2, <2>3, TimerAssumption DEF Times
  <2>5. turnAge' = turnAge + 1 /\ currentPlayer' = currentPlayer
    BY <1>2, <1>12, <2>3, <2>4, TimerAssumption DEF Tick
  <2>6. worker'[v] = [worker[v] EXCEPT !.left = @ - 1]
    BY <1>12, <2>2 DEF Tick, Sleeping
  <2>7. worker'[v].left = worker[v].left - 1 /\ worker'[v].player = worker[v].player
        /\ worker'[v].at = worker[v].at /\ worker'[v].cancelled = worker[v].cancelled
    BY <1>4, <2>6 DEF WorkerType
  <2>8. worker'[v].left = TimeoutTicks - turnAge'
    BY <2>1, <2>3, <2>5, <2>7, TimerAssumption DEF Times
  <2>9. Times(v)'
    BY <2>1, <2>5, <2>7, <2>8 DEF Times
  <2> QED
    BY <2>9
<1>13. CASE ConnectionsChange \/ Deserted \/ UNCHANGED vars
  <2>1. UNCHANGED <<worker, running, turnAge, currentPlayer>>
    BY <1>13 DEF ConnectionsChange, Deserted, vars
  <2>2. running = Loop
    BY <2>1
  <2> QED
    BY <1>9, <2>1, <2>2 DEF Times
<1> QED
  BY <1>5, <1>6, <1>7, <1>8, <1>10, <1>11, <1>12, <1>13 DEF Next, HandlerResumes, WorkerResumes

--------------------------------------------------------------------------------
(* The match as the credit callback sees it. *)

(* Nothing but the end of a game by a shot or a time-out starts a claim. *)
LEMMA OnlyTheEndClaims ==
    ASSUME TypeOK, [Next]_vars,
           \A h \in Players : ~Shoot(h), \A w \in Workers : ~TimesOut(w)
    PROVE  /\ \A h \in Players : HandlerClaims(h)' => HandlerClaims(h)
           /\ \A w \in Workers : WorkerClaims(w)' => WorkerClaims(w)
<1> USE DEF turn, credit, handlers, timers, HandlerClaims, WorkerClaims
<1>1. pc \in [Players -> {"receive", "result", "turns", "last result", "pause", "over", "credit", "died"}]
  BY DEF TypeOK
<1>2. worker \in [Workers -> WorkerType]
  BY DEF TypeOK
<1>3. ASSUME NEW h \in Players, TurnsSent(h)
      PROVE  /\ \A g \in Players : HandlerClaims(g)' => HandlerClaims(g)
             /\ \A w \in Workers : WorkerClaims(w)' => WorkerClaims(w)
  <2>1. nextPlayer[h] \in Players
    BY DEF TypeOK
  <2>2. /\ registered' \in Workers /\ worker'[registered'] = NewTask(nextPlayer[h])
        /\ \A w \in Workers : w # registered' => worker'[w].at = worker[w].at
    BY <1>3, <2>1, StartTypes DEF TurnsSent
  <2>3. \A w \in Workers : WorkerClaims(w)' => WorkerClaims(w)
    BY <2>2 DEF NewTask
  <2> QED
    BY <1>1, <1>3, <2>3 DEF TurnsSent, Goto
<1>4. ASSUME NEW h \in Players,
             \/ ShotInit(h) \/ ResultSent(h) \/ LastResultSent(h)
             \/ PauseEnds(h) \/ HandlerCredits(h) \/ HandlerPaid(h) \/ HandlerBreaks(h)
      PROVE  UNCHANGED worker /\ \A g \in Players : HandlerClaims(g)' => HandlerClaims(g)
  BY <1>1, <1>4 DEF ShotInit, ResultSent, LastResultSent, PauseEnds, HandlerCredits, HandlerPaid, HandlerBreaks,
                 Goto
<1>5. ASSUME NEW w \in Workers, WorkerResumes(w)
      PROVE  UNCHANGED pc /\ \A v \in Workers : WorkerClaims(v)' => WorkerClaims(v)
  <2>1. CASE \/ WorkerBegins(w) \/ WorkerNeverBegins(w) \/ WorkerCancelled(w)
             \/ WakesForNothing(w) \/ WorkerPaid(w) \/ WorkerBreaks(w)
    <3>1. PICK at \in {"sleeping", "done"} : worker' = [worker EXCEPT ![w].at = at]
      BY <2>1 DEF WorkerBegins, WorkerNeverBegins, WorkerCancelled, WakesForNothing, WorkerPaid,
                    WorkerBreaks, WorkerEnds
    <3>2. worker'[w].at = at /\ \A v \in Workers : v # w => worker'[v] = worker[v]
      BY <1>2, <3>1 DEF WorkerType
    <3>3. UNCHANGED pc
      BY <2>1 DEF WorkerBegins, WorkerNeverBegins, WorkerCancelled, WakesForNothing, WorkerPaid,
                    WorkerBreaks
    <3> QED
      BY <3>2, <3>3
  <2>2. CASE WorkerCredits(w)
    BY <1>2, <2>2 DEF WorkerCredits, WorkerEnds
  <2> QED
    BY <1>5, <2>1, <2>2 DEF WorkerResumes
<1>6. CASE ForceEnd \/ CleanUp
  <2>1. UNCHANGED pc /\ \A w \in Workers : worker'[w].at = worker[w].at
    BY <1>6, CancelTypes DEF ForceEnd, CleanUp
  <2> QED
    BY <2>1
<1>7. CASE Tick
  BY <1>2, <1>7 DEF Tick, WorkerType
<1>8. CASE ConnectionsChange \/ Deserted \/ UNCHANGED vars
  BY <1>8 DEF ConnectionsChange, Deserted, vars
<1> QED
  BY <1>3, <1>4, <1>5, <1>6, <1>7, <1>8 DEF Next, HandlerResumes

LEMMA NextEntitled == TypeOK /\ OneClaim /\ Entitled /\ [Next]_vars => Entitled'
<1> SUFFICES ASSUME TypeOK, OneClaim, Entitled, [Next]_vars, ~NobodyClaims'
             PROVE  endedBy' \in {"shot", "timer"}
  BY DEF Entitled
<1>1. CASE ~NobodyClaims
  <2>1. isGameOver /\ endedBy \in {"shot", "timer"}
    BY <1>1 DEF OneClaim, Entitled
  <2> QED
    BY <2>1, GameStaysOver
<1>2. CASE \E h \in Players : Shoot(h)
  <2>1. PICK h \in Players : Shoot(h)
    BY <1>2
  <2>2. isGameOver' => endedBy' = "shot"
    BY <2>1 DEF Shoot
  <2>3. isGameOver'
    BY NextOneClaim DEF OneClaim
  <2> QED
    BY <2>2, <2>3
<1>3. CASE \E w \in Workers : TimesOut(w)
  BY <1>3 DEF TimesOut
<1>4. CASE NobodyClaims /\ (\A h \in Players : ~Shoot(h)) /\ (\A w \in Workers : ~TimesOut(w))
  BY <1>4, OnlyTheEndClaims DEF NobodyClaims
<1> QED
  BY <1>1, <1>2, <1>3, <1>4

(* Only who claims the credit sends it. *)
LEMMA ClaimantsPay ==
    ASSUME [Next]_vars
    PROVE  callbacks' = callbacks \/ (callbacks' = callbacks + 1 /\ ~NobodyClaims)
<1> USE DEF credit, HandlerClaims, WorkerClaims
<1>1. ASSUME NEW h \in Players, HandlerPaid(h)
      PROVE  callbacks' = callbacks + 1 /\ HandlerClaims(h)
  BY <1>1 DEF HandlerPaid
<1>2. ASSUME NEW h \in Players, ShotInit(h) \/ Shoot(h) \/ (HandlerResumes(h) /\ ~HandlerPaid(h))
      PROVE  callbacks' = callbacks
  BY <1>2 DEF ShotInit, Shoot, HandlerResumes, ResultSent, TurnsSent, LastResultSent, PauseEnds, HandlerCredits,
              HandlerBreaks
<1>3. ASSUME NEW w \in Workers, WorkerPaid(w) \/ WorkerCancelled(w)
      PROVE  callbacks' = callbacks \/ (callbacks' = callbacks + 1 /\ WorkerClaims(w))
  BY <1>3 DEF WorkerPaid, WorkerCancelled
<1>4. ASSUME NEW w \in Workers, WorkerResumes(w), ~WorkerPaid(w), ~WorkerCancelled(w)
      PROVE  callbacks' = callbacks
  BY <1>4 DEF WorkerResumes, WorkerBegins, WorkerNeverBegins, TimesOut, WakesForNothing, WorkerCredits,
              WorkerBreaks
<1>5. CASE ForceEnd \/ ConnectionsChange \/ CleanUp \/ Tick \/ Deserted \/ UNCHANGED vars
  BY <1>5 DEF ForceEnd, ConnectionsChange, CleanUp, Tick, Deserted, vars
<1> QED
  BY <1>1, <1>2, <1>3, <1>4, <1>5 DEF Next, NobodyClaims

(* What may end a running game. *)
LEMMA WhoEndsIt ==
    ASSUME [Next]_vars, ~isGameOver, isGameOver'
    PROVE  endedBy' \in {"shot", "timer", "admin"}
<1> USE DEF turn
<1>1. ASSUME NEW h \in Players, ShotInit(h) \/ HandlerResumes(h)
      PROVE  UNCHANGED isGameOver
  BY <1>1 DEF ShotInit, HandlerResumes, ResultSent, TurnsSent, LastResultSent, PauseEnds,
              HandlerCredits, HandlerPaid, HandlerBreaks
<1>2. ASSUME NEW h \in Players, Shoot(h)
      PROVE  endedBy' = "shot"
  BY <1>2 DEF Shoot
<1>3. ASSUME NEW w \in Workers, WorkerResumes(w)
      PROVE  UNCHANGED isGameOver \/ endedBy' = "timer"
  BY <1>3 DEF WorkerResumes, WorkerBegins, WorkerNeverBegins, WorkerCancelled, TimesOut,
              WakesForNothing, WorkerCredits, WorkerPaid, WorkerBreaks
<1>4. CASE ForceEnd
  BY <1>4 DEF ForceEnd
<1>5. CASE ConnectionsChange \/ CleanUp \/ Tick \/ Deserted \/ UNCHANGED vars
  BY <1>5 DEF ConnectionsChange, CleanUp, Tick, Deserted, vars
<1> QED
  BY <1>1, <1>2, <1>3, <1>4, <1>5 DEF Next

(* A step of the clock is one of the match, or leaves it alone. *)
LEMMA NextCredit == IInv /\ [Next]_vars => [Credit!Next]_(Credit!vars)
<1> SUFFICES ASSUME IInv, [Next]_vars PROVE [Credit!Next]_(Credit!vars)
  OBVIOUS
<1>1. OneClaim /\ Entitled
  BY DEF IInv
<1>2. CASE isGameOver
  <2>1. isGameOver' /\ endedBy' = endedBy
    BY <1>2, GameStaysOver
  <2>2. CASE callbacks' = callbacks
    BY <1>2, <2>1, <2>2 DEF Credit!vars
  <2>3. CASE callbacks' = callbacks + 1 /\ ~NobodyClaims
    <3>1. callbacks = 0 /\ endedBy \in {"shot", "timer"}
      BY <1>1, <2>3 DEF OneClaim, Entitled
    <3>2. Credit!Pay
      BY <1>2, <2>1, <2>3, <3>1 DEF Credit!Pay, Credit!Earned
    <3> QED
      BY <3>2 DEF Credit!Next
  <2> QED
    BY <2>2, <2>3, ClaimantsPay
<1>3. CASE ~isGameOver
  <2>1. NobodyClaims
    BY <1>1, <1>3 DEF OneClaim
  <2>2. callbacks' = callbacks
    BY <2>1, ClaimantsPay
  <2>3. CASE ~isGameOver'
    BY <1>3, <2>2, <2>3 DEF Credit!vars
  <2>4. CASE isGameOver'
    <3>1. endedBy' \in {"shot", "timer", "admin"}
      BY <1>3, <2>4, WhoEndsIt
    <3>2. Credit!Decide
      BY <1>3, <2>2, <2>4, <3>1 DEF Credit!Decide, Credit!Earned, Credit!Unearned
    <3> QED
      BY <3>2 DEF Credit!Next
  <2> QED
    BY <2>3, <2>4
<1> QED
  BY <1>2, <1>3

--------------------------------------------------------------------------------
(* The theorems. *)

LEMMA InitInvariant == Init => IInv
<1> SUFFICES ASSUME Init PROVE IInv
  OBVIOUS
<1>1. TypeOK
  BY InitTypes
<1>2. OneClaim
  BY DEF Init, OneClaim, NobodyClaims, HandlerClaims, WorkerClaims, NewTask, Unborn
<1>3. Prompt
  BY DEF Init, Prompt, Between
<1>4. TurnIsTimed
  <2>1. 1 \in Workers
    BY TimerAssumption DEF Workers
  <2>2. worker[1] = NewTask(1) /\ turnAge = 0 /\ currentPlayer = 1
    BY <2>1 DEF Init
  <2> QED
    BY <2>1, <2>2, TimerAssumption DEF TurnIsTimed, NewTask
<1>5. Entitled
  BY DEF Init, Entitled, NobodyClaims, HandlerClaims, WorkerClaims, NewTask, Unborn
<1> QED
  BY <1>1, <1>2, <1>3, <1>4, <1>5 DEF IInv

LEMMA NextInvariant == IInv /\ [Next]_vars => IInv'
BY NextTypes, NextOneClaim, NextPrompt, NextTimed, NextEntitled DEF IInv

(* The inductive invariant holds in every behaviour of the room's clock. *)
THEOREM Invariant == Spec => []IInv
<1> QED
  BY InitInvariant, NextInvariant, PTL DEF Spec

(* The state of turn timers, handlers and credit has its types. *)
THEOREM TypeCorrect == Spec => []TypeOK
<1>1. IInv => TypeOK
  BY DEF IInv
<1> QED
  BY <1>1, Invariant, PTL

(* However shots, time-outs, an administrator and leaving players interleave, *)
(* whatever sends suspend, a game is credited at most once.                   *)
THEOREM CreditsOnce == Spec => []CreditedOnce
<1>1. IInv => CreditedOnce
  BY DEF IInv, OneClaim, CreditedOnce
<1> QED
  BY <1>1, Invariant, PTL

(* As long as no send suspends, a running game always has a timer task for the *)
(* player to move that wakes exactly when the turn is as old as the time-out.  *)
THEOREM TurnAlwaysTimed == Spec => []TurnIsTimed
<1>1. IInv => TurnIsTimed
  BY DEF IInv
<1> QED
  BY <1>1, Invariant, PTL

(* No shot, time-out or administrator overrules the end of a game. *)
THEOREM OneVerdictHolds == Spec => OneVerdict
<1>1. [Next]_vars => [isGameOver => isGameOver' /\ endedBy' = endedBy]_vars
  BY GameStaysOver
<1> QED
  BY <1>1, PTL DEF Spec, OneVerdict
(* The clock implements the promise about the credit: a shot, a time-out or the *)
(* administrator ends the match, once; then the credit is sent, at most once,   *)
(* and never for the administrator's verdict.                                   *)
THEOREM ClockKeepsCredit == Spec => ImplementsMatchCredit
<1>1. Init => Credit!Init
  BY DEF Init, Credit!Init
<1>2. IInv /\ [Next]_vars => [Credit!Next]_(Credit!vars)
  BY NextCredit
<1> QED
  BY <1>1, <1>2, Invariant, PTL DEF Spec, ImplementsMatchCredit, Credit!Spec
================================================================================
