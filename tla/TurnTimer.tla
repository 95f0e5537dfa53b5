------------------------------- MODULE TurnTimer -------------------------------
(***************************************************************************)
(* The server's turn clock for one game (api/game.py): the timer tasks of  *)
(* start_turn_timeout_task, the registry turn_timer_tasks, the two socket  *)
(* handlers inside process_shot, the administrator's force_end_game, and   *)
(* the clean-up when both players have left a finished game.               *)
(*                                                                         *)
(* All of it runs on one asyncio event loop: a task runs until an await    *)
(* suspends it.  `running` names the task that holds the loop.  An await   *)
(* of sleep or of the credit callback always suspends; an await of a       *)
(* websocket send suspends only when the socket's write buffer is full.    *)
(* cancel() marks a task; it sees CancelledError when the loop resumes it. *)
(* A broadcast iterates the room's connections across its sends: when they  *)
(* change while one is suspended, the iteration fails and ends its task.    *)
(* Time advances in ticks, and never past a task that is due.              *)
(***************************************************************************)
EXTENDS Integers, FiniteSets

CONSTANTS
    TimeoutTicks, \* TURN_TIMEOUT_SEC in ticks
    MaxWorkers    \* bound: how many timer tasks are ever created

ASSUME TimerAssumption ==
    /\ TimeoutTicks \in Nat \ {0}
    /\ MaxWorkers \in Nat \ {0}

Players == {1, 2}

Workers == 1 .. MaxWorkers

Nobody == 0   \* no task registered; no task holds the loop

(* A timer task: whose turn it times, where it is, how long it sleeps, and *)
(* whether cancel() was called.                                            *)
WorkerType ==
    [player: Players,
     at: {"unborn", "created", "sleeping", "sending", "crediting", "done"},
     left: 0 .. TimeoutTicks,
     cancelled: BOOLEAN]

Unborn == [player |-> 1, at |-> "unborn", left |-> TimeoutTicks, cancelled |-> FALSE]

VARIABLES
    currentPlayer, \* GameState.current_player
    isGameOver,    \* GameState.is_game_over
    endedBy,       \* what ended the game, "nothing" while it runs
    turnAge,       \* ticks since the last shot (or the start), up to one too many
    simulating,    \* the player to move has shot and its browser simulates
    pc,            \* where each player's socket handler is
    nextPlayer,    \* next_player, read by process_shot before its last awaits
    worker,        \* the timer tasks
    registered,    \* turn_timer_tasks[room_id]: a task, or Nobody
    running,       \* Loop, or the handler or timer task that holds the loop
    suspended,     \* whether a websocket send ever suspended its task
    broken,        \* the suspended broadcasts whose room_connections changed
    credited,      \* room_id in credited_rooms
    callbacks,     \* credit callbacks sent
    closed         \* both players have left and the room is cleaned up

turn == <<currentPlayer, isGameOver, endedBy, turnAge, simulating>>
credit == <<credited, callbacks, closed>>
handlers == <<pc, nextPlayer>>
timers == <<worker, registered>>
vars == <<turn, handlers, timers, running, suspended, broken, credit>>

--------------------------------------------------------------------------------
(* The event loop. *)

Handler(h) == <<"handler", h>>
Timer(w) == <<"timer", w>>
Tasks == {Handler(h) : h \in Players} \cup {Timer(w) : w \in Workers}

Loop == <<"loop", Nobody>>   \* no task holds it

(* Task t may take a step: it holds the loop, or the loop is free. *)
Scheduled(t) == running \in {Loop, t}

(* The broadcast of task t is over. *)
BroadcastEnds(t) == broken' = broken \ {t}

(* Task t awaits a websocket send, the one before is over: it goes on at   *)
(* once or is suspended.  A send that fails is caught where it is sent.    *)
AwaitsSend(t) ==
    /\ running' \in {t, Loop}
    /\ suspended' = (suspended \/ running' = Loop)
    /\ BroadcastEnds(t)

(* The tasks inside broadcast_to_room; "turns" sends to one player each. *)
Broadcasts == {"result", "last result", "over"}

Broadcasting ==
    {Handler(h) : h \in {g \in Players : pc[g] \in Broadcasts}}
        \cup {Timer(w) : w \in {v \in Workers : worker[v].at = "sending"}}

Alive(w) == worker[w].at \in {"created", "sleeping", "sending", "crediting"}

(* Task.cancel() on what is registered; nothing happens to a finished task. *)
CancelRegistered(ws) ==
    [w \in Workers |->
        IF w = registered /\ Alive(w) THEN [ws[w] EXCEPT !.cancelled = TRUE] ELSE ws[w]]

(* Work the loop does before time goes on. *)
Due(w) ==
    /\ Alive(w)
    /\ \/ worker[w].cancelled
       \/ worker[w].at \in {"created", "sending"}
       \/ worker[w].at = "sleeping" /\ worker[w].left = 0

Fresh(w) == worker[w].at = "unborn" /\ \A v \in Workers : v < w => worker[v].at # "unborn"

(* start_turn_timeout_task has no await inside, so it is one step.  The old *)
(* task is cancelled first; its clean-up runs when the loop resumes it.     *)
NewTask(p) == [player |-> p, at |-> "created", left |-> TimeoutTicks, cancelled |-> FALSE]

(* Mutant of StartTimer: the sleep is one tick too long. *)
StartTimerLate(p) ==
    \E w \in Workers :
        /\ Fresh(w)
        /\ worker' = [CancelRegistered(worker) EXCEPT
                        ![w] = [NewTask(p) EXCEPT !.left = TimeoutTicks + 1]]
        /\ registered' = w

(* Mutant of StartTimer: registers the new task, then cancels what is registered. *)
StartTimerCancelsNew(p) ==
    \E w \in Workers :
        /\ Fresh(w)
        /\ worker' = [worker EXCEPT ![w] = [NewTask(p) EXCEPT !.cancelled = TRUE]]
        /\ registered' = w

StartTimer(p) ==
    \E w \in Workers :
        /\ Fresh(w)
        /\ worker' = [CancelRegistered(worker) EXCEPT ![w] = NewTask(p)]
        /\ registered' = w

Init ==
    /\ currentPlayer = 1
    /\ isGameOver = FALSE
    /\ endedBy = "nothing"
    /\ turnAge = 0
    /\ simulating = FALSE
    /\ pc = [h \in Players |-> "receive"]
    /\ nextPlayer = [h \in Players |-> 1]
    /\ worker = [w \in Workers |-> IF w = 1 THEN NewTask(1) ELSE Unborn]
    /\ registered = 1
    /\ running = Loop
    /\ suspended = FALSE
    /\ broken = {}
    /\ credited = FALSE
    /\ callbacks = 0
    /\ closed = FALSE

--------------------------------------------------------------------------------
(* The socket handlers: process_shot of player h. *)

Goto(h, label) == pc' = [pc EXCEPT ![h] = label]

(* "shot_init" of the player to move is relayed and nothing else happens. *)
(* The browser simulates the shot and reports it later with "shoot".      *)
ShotInit(h) ==
    /\ running = Loop
    /\ pc[h] = "receive" /\ ~closed
    /\ ~isGameOver /\ currentPlayer = h
    /\ ~simulating
    /\ simulating' = TRUE
    /\ UNCHANGED <<currentPlayer, isGameOver, endedBy, turnAge, handlers, timers, running, credit, suspended, broken>>

(* Bound: there is a timer task left for this shot and for those under way. *)
WorkersLeft ==
    Cardinality({h \in Players : pc[h] \in {"result", "turns"}})
        < Cardinality({w \in Workers : worker[w].at = "unborn"})

(* "shoot", up to the first await: the registered timer is cancelled but   *)
(* stays registered; the rules decide the next player or the game.         *)
Shoot(h) ==
    /\ running = Loop
    /\ pc[h] = "receive" /\ ~closed
    /\ ~isGameOver /\ currentPlayer = h
    /\ WorkersLeft
    /\ worker' = CancelRegistered(worker)
    /\ \/ /\ currentPlayer' \in Players
          /\ Goto(h, "result")
          /\ UNCHANGED <<isGameOver, endedBy>>
       \/ /\ isGameOver' = TRUE
          /\ endedBy' = "shot"
          /\ Goto(h, "last result")
          /\ UNCHANGED currentPlayer
    /\ turnAge' = 0
    /\ simulating' = FALSE
    /\ AwaitsSend(Handler(h))
    /\ UNCHANGED <<nextPlayer, registered, credit>>

(* The result of a shot that decides nothing is out: process_shot keeps    *)
(* current_player in a local variable, then sends the turns.               *)
ResultSent(h) ==
    /\ Scheduled(Handler(h))
    /\ pc[h] = "result"
    /\ nextPlayer' = [nextPlayer EXCEPT ![h] = currentPlayer]
    /\ Goto(h, "turns")
    /\ AwaitsSend(Handler(h))
    /\ UNCHANGED <<turn, timers, credit>>

(* The result of a deciding shot is out: process_shot sleeps. *)
LastResultSent(h) ==
    /\ Scheduled(Handler(h))
    /\ pc[h] = "last result"
    /\ Goto(h, "pause")
    /\ running' = Loop
    /\ BroadcastEnds(Handler(h))
    /\ UNCHANGED <<turn, nextPlayer, timers, credit, suspended>>

TurnsSent(h) ==
    /\ Scheduled(Handler(h))
    /\ pc[h] = "turns"
    /\ StartTimer(nextPlayer[h])
    /\ Goto(h, "receive")
    /\ running' = Loop
    /\ UNCHANGED <<turn, nextPlayer, credit, suspended, broken>>

PauseEnds(h) ==
    /\ running = Loop
    /\ pc[h] = "pause"
    /\ Goto(h, "over")
    /\ AwaitsSend(Handler(h))
    /\ UNCHANGED <<turn, nextPlayer, timers, credit>>

(* Mutant of HandlerCredits: returns right after "game_over". *)
HandlerCreditsNever(h) ==
    /\ Scheduled(Handler(h))
    /\ pc[h] = "over"
    /\ Goto(h, "receive")
    /\ running' = Loop
    /\ BroadcastEnds(Handler(h))
    /\ UNCHANGED <<turn, nextPlayer, timers, credit, suspended>>

HandlerCredits(h) ==
    /\ Scheduled(Handler(h))
    /\ pc[h] = "over"
    /\ Goto(h, IF credited THEN "receive" ELSE "credit")
    /\ credited' = TRUE
    /\ running' = Loop
    /\ BroadcastEnds(Handler(h))
    /\ UNCHANGED <<turn, nextPlayer, timers, callbacks, closed, suspended>>

HandlerPaid(h) ==
    /\ running = Loop
    /\ pc[h] = "credit"
    /\ callbacks' = callbacks + 1
    /\ Goto(h, "receive")
    /\ UNCHANGED <<turn, nextPlayer, timers, running, credited, closed, suspended, broken>>

(* The iteration of a broadcast fails, and with it the handler: its turn   *)
(* starts no timer, its finished game is not credited.  Its clean-up takes *)
(* the player out of room_connections, under the other broadcasts.  While  *)
(* the game runs the player may come back on another socket (GameRoom has  *)
(* the grace period).                                                      *)
HandlerBreaks(h) ==
    /\ running = Loop
    /\ pc[h] \in Broadcasts /\ Handler(h) \in broken
    /\ Goto(h, IF pc[h] = "result" THEN "receive" ELSE "died")
    /\ broken' = Broadcasting \ {Handler(h)}
    /\ UNCHANGED <<turn, nextPlayer, timers, running, credit, suspended>>

--------------------------------------------------------------------------------
(* A timer task. *)

(* The task is over, and its finally clause drops whatever is registered. *)
WorkerEnds(w) ==
    /\ worker' = [worker EXCEPT ![w].at = "done"]
    /\ registered' = Nobody
    /\ running' = Loop

WorkerBegins(w) ==
    /\ running = Loop
    /\ worker[w].at = "created" /\ ~worker[w].cancelled
    /\ worker' = [worker EXCEPT ![w].at = "sleeping"]
    /\ UNCHANGED <<turn, handlers, registered, running, credit, suspended, broken>>

(* Cancelled before its first step: the coroutine never enters its try. *)
WorkerNeverBegins(w) ==
    /\ running = Loop
    /\ worker[w].at = "created" /\ worker[w].cancelled
    /\ worker' = [worker EXCEPT ![w].at = "done"]
    /\ UNCHANGED <<turn, handlers, registered, running, credit, suspended, broken>>

(* CancelledError at the await.  A callback under way may be out already. *)
WorkerCancelled(w) ==
    /\ running = Loop
    /\ worker[w].cancelled
    /\ worker[w].at \in {"sleeping", "sending", "crediting"}
    /\ WorkerEnds(w)
    /\ BroadcastEnds(Timer(w))
    /\ \/ UNCHANGED callbacks
       \/ worker[w].at = "crediting" /\ callbacks' = callbacks + 1
    /\ UNCHANGED <<turn, handlers, credited, closed, suspended>>

(* Mutant of MayTimeOut: does not look whether the game is over. *)
MayTimeOutFinished(w) == currentPlayer = worker[w].player

MayTimeOut(w) == ~isGameOver /\ currentPlayer = worker[w].player

Awake(w) == worker[w].at = "sleeping" /\ worker[w].left = 0 /\ ~worker[w].cancelled

TimesOut(w) ==
    /\ running = Loop
    /\ Awake(w) /\ MayTimeOut(w)
    /\ isGameOver' = TRUE
    /\ endedBy' = "timer"
    /\ worker' = [worker EXCEPT ![w].at = "sending"]
    /\ AwaitsSend(Timer(w))
    /\ UNCHANGED <<currentPlayer, turnAge, simulating, handlers, registered, credit>>

WakesForNothing(w) ==
    /\ running = Loop
    /\ Awake(w) /\ ~MayTimeOut(w)
    /\ WorkerEnds(w)
    /\ UNCHANGED <<turn, handlers, credit, suspended, broken>>

WorkerCredits(w) ==
    /\ Scheduled(Timer(w))
    /\ worker[w].at = "sending" /\ ~worker[w].cancelled
    /\ credited' = TRUE
    /\ BroadcastEnds(Timer(w))
    /\ IF credited
       THEN WorkerEnds(w)
       ELSE /\ worker' = [worker EXCEPT ![w].at = "crediting"]
            /\ running' = Loop
            /\ UNCHANGED registered
    /\ UNCHANGED <<turn, handlers, callbacks, closed, suspended>>

WorkerPaid(w) ==
    /\ running = Loop
    /\ worker[w].at = "crediting" /\ ~worker[w].cancelled
    /\ callbacks' = callbacks + 1
    /\ WorkerEnds(w)
    /\ UNCHANGED <<turn, handlers, credited, closed, suspended, broken>>

(* The iteration of "game_over" fails: the task ends without a credit. *)
WorkerBreaks(w) ==
    /\ running = Loop
    /\ worker[w].at = "sending" /\ ~worker[w].cancelled
    /\ Timer(w) \in broken
    /\ WorkerEnds(w)
    /\ BroadcastEnds(Timer(w))
    /\ UNCHANGED <<turn, handlers, credit, suspended>>

--------------------------------------------------------------------------------
(* The administrator, the players' leaving, and time. *)

(* force_end_game does not look whether the game is over already. *)
ForceEnd ==
    /\ running = Loop /\ ~closed
    /\ isGameOver' = TRUE
    /\ endedBy' = IF isGameOver THEN endedBy ELSE "admin"
    /\ worker' = CancelRegistered(worker)
    /\ registered' = Nobody
    /\ UNCHANGED <<currentPlayer, turnAge, simulating, handlers, running, credit, suspended, broken>>

(* Somebody leaves the room or joins it, under the suspended broadcasts. *)
ConnectionsChange ==
    /\ running = Loop /\ ~closed
    /\ broken' = Broadcasting
    /\ UNCHANGED <<turn, handlers, timers, running, credit, suspended>>

(* The last player leaves a finished game: the handlers' finally clauses. *)
CleanUp ==
    /\ running = Loop /\ ~closed
    /\ isGameOver
    /\ \A h \in Players : pc[h] \in {"receive", "died"}
    /\ worker' = CancelRegistered(worker)
    /\ registered' = Nobody
    /\ credited' = FALSE
    /\ closed' = TRUE
    /\ broken' = Broadcasting
    /\ UNCHANGED <<turn, handlers, running, callbacks, suspended>>

Sleeping(w) == worker[w].at = "sleeping"

(* A tick passes when no task has work left for this one, and anyone is left *)
(* to notice it.                                                            *)
Tick ==
    /\ running = Loop
    /\ \A w \in Workers : ~Due(w)
    /\ (\E w \in Workers : Sleeping(w)) \/ (~isGameOver /\ turnAge <= TimeoutTicks)
    /\ worker' = [w \in Workers |->
                    IF Sleeping(w) THEN [worker[w] EXCEPT !.left = @ - 1] ELSE worker[w]]
    /\ turnAge' = IF isGameOver \/ turnAge > TimeoutTicks THEN turnAge ELSE turnAge + 1
    /\ UNCHANGED <<currentPlayer, isGameOver, endedBy, simulating, handlers, registered, running, credit, suspended, broken>>

(* Nothing is left to happen in a room that was cleaned up. *)
Deserted ==
    /\ closed
    /\ \A w \in Workers : ~Alive(w)
    /\ UNCHANGED vars

HandlerResumes(h) ==
    \/ ResultSent(h) \/ TurnsSent(h)
    \/ LastResultSent(h) \/ PauseEnds(h) \/ HandlerCredits(h) \/ HandlerPaid(h)
    \/ HandlerBreaks(h)

WorkerResumes(w) ==
    \/ WorkerBegins(w) \/ WorkerNeverBegins(w) \/ WorkerCancelled(w)
    \/ TimesOut(w) \/ WakesForNothing(w)
    \/ WorkerCredits(w) \/ WorkerPaid(w) \/ WorkerBreaks(w)

Next ==
    \/ \E h \in Players : ShotInit(h) \/ Shoot(h) \/ HandlerResumes(h)
    \/ \E w \in Workers : WorkerResumes(w)
    \/ ForceEnd \/ ConnectionsChange \/ CleanUp \/ Tick \/ Deserted

Spec == Init /\ [][Next]_vars

(* The event loop runs every task that is ready, sockets are drained or    *)
(* fail, the callback ends within its timeout, and time passes.            *)
FairSpec ==
    /\ Spec
    /\ \A h \in Players : WF_vars(HandlerResumes(h))
    /\ \A w \in Workers : WF_vars(WorkerResumes(w))
    /\ WF_vars(Tick)

--------------------------------------------------------------------------------
(* Properties. *)

(* The type invariant of the game's clock, its tasks and its credit. *)
TypeOK ==
    /\ currentPlayer \in Players
    /\ isGameOver \in BOOLEAN
    /\ endedBy \in {"nothing", "shot", "timer", "admin"}
    /\ turnAge \in 0 .. TimeoutTicks + 1
    /\ simulating \in BOOLEAN
    /\ pc \in [Players -> {"receive", "result", "turns",
                         "last result", "pause", "over", "credit", "died"}]
    /\ nextPlayer \in [Players -> Players]
    /\ worker \in [Workers -> WorkerType]
    /\ registered \in Workers \cup {Nobody}
    /\ running \in {Loop} \cup Tasks
    /\ suspended \in BOOLEAN
    /\ broken \subseteq Tasks
    /\ credited \in BOOLEAN
    /\ callbacks \in Nat
    /\ closed \in BOOLEAN

(* While no send suspends, whenever the loop is free a running game has    *)
(* a timer task for the player to move that is not cancelled and will      *)
(* wake exactly when the turn is TimeoutTicks old -- although a cancelled  *)
(* task's finally clause may have taken it out of the registry.            *)
TurnIsTimed ==
    running = Loop /\ ~suspended /\ ~isGameOver =>
        \E w \in Workers :
            /\ worker[w].player = currentPlayer
            /\ worker[w].at \in {"created", "sleeping"}
            /\ ~worker[w].cancelled
            /\ worker[w].left = TimeoutTicks - turnAge

(* A game ends once: a time-out never overrules a finished game, a shot is *)
(* not accepted after a time-out.                                          *)
OneVerdict == [][isGameOver => isGameOver' /\ endedBy' = endedBy]_vars

(* However shots, time-outs and the room's clean-up interleave, the        *)
(* backend is asked to credit a game's winner at most once.                *)
CreditedOnce == callbacks <= 1

Credit == INSTANCE MatchCredit WITH
    verdict <- IF isGameOver THEN endedBy ELSE "nothing",
    paid <- callbacks

(* The clock keeps what MatchCredit promises of the match: of a shot, a      *)
(* time-out and the administrator the first one ends it, and it is credited *)
(* once, after the end, and only if a player won.                           *)
ImplementsMatchCredit == Credit!Spec

(* Time-outs keep a game going: again and again somebody shoots or the     *)
(* game is over, as long as no send suspends.                              *)
GameMovesOn == []<>(isGameOver \/ turnAge = 0 \/ suspended)

(* A game that a shot decided is credited, whoever times out, leaves or    *)
(* force-ends it meanwhile -- unless the shot's handler died because the   *)
(* room's connections changed under one of its last two broadcasts: then   *)
(* nobody else credits the game.                                           *)
ShotWinnerPaid ==
    (endedBy = "shot") ~> (callbacks = 1 \/ \E h \in Players : pc[h] = "died")
================================================================================
