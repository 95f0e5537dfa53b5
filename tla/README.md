# A verification project for 8-ball pool

The program is a two-player 8-ball pool game: a Python server (FastAPI websockets, one asyncio event loop, Redis for the
room sets) and a TypeScript browser client (Phaser). The physics runs in the browser of the player who shoots; the server
judges the *reported* outcome, keeps the turn, the groups and the clock, and ends the game. This directory models that
protocol in TLA+, model-checks it with TLC and proves its main safety properties with TLAPS. Paths below are relative to
the repository.

## The system

| component | state | operations | interacts with |
|---|---|---|---|
| Rules engine, `backend/app/services/game_service.py` | `GameState`: balls, current player, groups, break flag, game over, winner, turn count | `apply_rules`, `create_initial_state`, group helpers | called by `process_shot` |
| Game rooms, `backend/app/api/game.py` | `active_games`, `player_connections`, `room_connections`, `disconnect_tasks`, `turn_timer_tasks`, `credited_rooms`, Redis sets `room:<id>:*` | join, reconnect, `process_shot`, relays, socket clean-up, turn timer, grace period, `force_end_game`, credit callback | browsers (websocket), Redis, the main backend (HTTP) |
| `RoomManager`, `backend/app/managers/room_manager.py` | queues and pub/sub listeners by room | connect, disconnect, broadcast | Redis; game rooms only call `connect` |
| `WSClient`, `frontend/src/network/wsClient.ts` | socket, `connected`, retry counter, `intentionalClose`, handlers | connect, send, disconnect, retry | game rooms, scenes |
| Scenes `BootScene`, `WaitingScene`, `ResultScene`, `main.ts` | which scene runs, the room | connect, wait, cancel, play again, leave | `WSClient`, each other |
| `GameScene`, `frontend/src/scenes/GameScene.ts` | whose turn, simulating flag, replay buffer, pending result, groups | shoot, stream frames, replay, apply a result, judge the own shot, game over, reload | `WSClient`, `BallRenderer` |
| `BallRenderer`, `frontend/src/rendering/BallRenderer.ts` | `ballMap`, physics, replay | shoot, pocket, replay, set positions | `GameScene` |
| `utils/trajectory.ts`, `rolling.ts`, `collisionPairs.ts` | replay buffers | sampling, interpolation, contact tracking | `GameScene`, `BallRenderer` |
| HUD, power control, table, panels, laboratories | drawing and input | | |
| vendored packages, built assets, deployment files | | | |

**What is hard here.** Every handler and timer is a coroutine: state read before an `await` is used after it. The registry
of timers is cleaned by the tasks themselves, after a cancellation that takes effect later. A game can be ended by a shot,
a time-out, a grace period or an administrator. Two browsers and the server each keep a table, and the server adopts
the shooter's. The watching browser shows a result only after a replay, while further messages arrive. Both browser and server
judge a shot. Sockets drop, `send` loses messages, `close()` ends a socket later, retries cannot be cancelled, pages are reloaded.

**What makes a component correct.** Rules: groups, turn and winner stay consistent and agree with the rule book. Game:
a finished game is frozen; exactly one player can act; the tables agree. Clock: every turn is timed, a game ends once and
its winner is paid once. Rooms: a connected player is not forfeited, a newcomer does not replace a game. Replay: a result is
applied once, after the replay, and the browser is free again. Session: one connection, a truthful flag, a match that starts is seen.

## Modules

- **PoolGame** - the abstract promise: the phases break, open, grouped and over; who shoots; who has which
  group; who won. A break never decides; groups are dealt once; the winner is the shooter, or the other.
- **Match** - one game. The server's `GameState` with `apply_rules` written as operators on a report (`LegalPockets`,
  `EightDrops`, `WrongFirstContact`, `Deals`, `FoulReason`, `EightWinner`, ...), the part of `process_shot` that runs without an `await`
  (`AcceptShot` with `ShotContinues` or `ShotDecides`, and `RejectShot`), the broadcast of a shot's winner 1.5 seconds later (`AnnounceWinner`), the other
  endings (`TurnTimeout`, `DisconnectForfeit`, `ForceEnd`), and both browsers: the balls they have (`table`), whether it is their turn (`myTurn`), whether they
  replay a shot of the opponent (`simulating`; `MayAct` is the guard of `executeShot`, which asks for both), their socket (`online`), one report in flight (`shot`). A shot is *any* set of balls of the shooter's table dropping with any first contact and
  cushion count: the physics is not modelled, so whatever it computes is covered. `Play` is the part of `Next` in which sockets
  and pages stay up. Match is shown to implement PoolGame.
- **Rulebook** - docs/RULES.md as a second judge beside Match. A history variable, `bookGroup`, keeps the groups as the rule book deals them (on a legal shot only; the
  engine deals on any shot that drops a ball), and `BookVerdict` judges a shot by the table before it: the shooter wins, loses, keeps or passes the turn. The groups the engine
  dealt are never consulted. `Disputed` names the shots that engine and book judge differently.
- **LocalVerdict** - extends Match by the browsers' own judgement of their shots (`processShotResult`, `rules.ts`). Each of its steps
  is a step of Match together with what a browser finds, learns from a result, or forgets on a reload.
- **Replay** - how a shot gets from one browser to the other. A browser is the record of its `GameScene` and `BallRenderer` fields, each message handler
  an operator on that record (`Handled`), one call of `update` an action (`Updates`); messages wait in a queue for each direction of a socket; the server relays
  or judges, and names any player next.
- **TurnTimer** - the clock of a game on an explicit event loop: the timer tasks (each with its program position, remaining ticks and
  cancellation flag), `turn_timer_tasks[room]`, the two handlers inside `process_shot` split at its awaits, credit marking and sending,
  `force_end_game` and the clean-up. `running` is the task that holds the loop; only a suspending await releases it. `broadcast_to_room` iterates the room's connections
  across its sends: when one suspends and somebody joins or leaves meanwhile (`ConnectionsChange`), its task is in `broken`, and the iteration may raise and end it
  (`HandlerBreaks`, `WorkerBreaks`).
- **GameRoom** - who is in a room. Each socket has a handler with a program position (`conn[c].at`): `count` (awaiting SCARD), `purge`, `first`,
  `second`, ... , `loop` (receiving), `srem`, `scard`, `delete`. A step runs from one Redis call to the next. The maps `player_connections` and
  `room_connections`, the Redis set and its expiry, the grace tasks, the games with their seats, the credit mark; restarts of the process, which keep Redis.
  A game just ends here (`PlayEnds`): how is Match and TurnTimer.
- **Session** - one page from loading to leaving: the client's sockets with `onopen`, `onerror`, `onclose`, retries and `disconnect`, the scenes Boot, waiting, game
  and result, play again, reload; the server's rooms reduced to what this page's sockets do to them.
- **MatchCredit** - the abstract promise to the backend that pays the winner: one verdict, which is final; after it at most one credit, and none for a verdict
  without a winner (the administrator's, or a match lost with the server process). TurnTimer and GameRoom are shown to implement it, each from its side: the
  tasks that end one match, and the handlers, grace periods and restarts of a room with several.
- **MCMatch**, **MCRulebook**, **MCLocalVerdict**, **MCGameRoom** - constant values for TLC. **RulesClaims**, **MCRulesClaims**, **TurnClaims**, **SessionClaims** - what a
  document or a comment says where the code does otherwise (`Mirrors` is in MCLocalVerdict).
- **MatchProofs**, **VerdictProofs**, **TurnTimerProofs**, **GameRoomProofs**, **ReplayProofs**, **WatchProofs**, **SettleProofs**,
  **SessionProofs** - the theorems.

The modules cut the system along its interfaces. Match abstracts Replay (a result reaches a browser in one step), TurnTimer (a time-out may come at any moment of
a turn) and GameRoom (a player has a socket or not); Session and GameRoom are the two ends of the same sockets.

State of the model and of the code:

| TLA+ | code |
|---|---|
| `Match.balls, currentPlayer, group, isBreak, isGameOver, winner, turnCount` | the `GameState` fields; positions abstracted to "on the table" |
| `Match.table` | keys of `BallRenderer.ballMap` in each browser |
| `Match.myTurn` | `GameScene.isMyTurn` |
| `Match.simulating` | `GameScene.isSimulating`, but for the simulation of an own shot, which is one step |
| `Match.shot` | a `shoot` message between browser and server |
| `Match.announced` | winner and reason of the `game_over` broadcasts so far |
| `Rulebook.bookGroup` | nothing: the groups if the rule book had dealt them (history) |
| `LocalVerdict.localGroups`, `verdict` | `GameScene.player1Group`/`player2Group`; the winner it went to the result scene with |
| `Replay.browser[p]` | `GameScene.isMyTurn`, `isSimulating`, `isLocalShot`, `pocketedBalls`, `pendingAuthoritativeShotResult`, `remoteShotReplayStarted`, aim samples and replay; `BallRenderer.ballMap`, recording, `remotePlayback`, `trajectoryFrames`, replay clock |
| `Replay.outbox`, `inbox` | what each socket carries to and from the server |
| `Replay.layout` | ball positions: the shot after which they lie so |
| `Session.socket`, `ws`, `connected`, `attempts`, `intentional` | the page's `WebSocket`s and the fields of `WSClient` |
| `Session.retries` | `setTimeout`s that will call `connect` |
| `Session.scene`, `awaited`, `room` | the active scene, promises of `connect` awaited by Boot or play again, `config.roomId` |
| `Session.seat`, `game` | the page's player in the server's maps; whether a room's game has two players, or this one twice |
| `TurnTimer.worker`, `registered` | the tasks of `_timeout_worker`, `turn_timer_tasks[room_id]` |
| `TurnTimer.pc`, `nextPlayer` | where `process_shot` of each player is suspended, and its local `next_player` |
| `TurnTimer.broken` | suspended broadcasts under which `room_connections[room_id]` changed |
| `TurnTimer.suspended` | whether a websocket send has ever suspended its task (history) |
| `TurnTimer.credited`, `callbacks` | `room_id in credited_rooms`, HTTP requests to the main backend |
| `GameRoom.conn` | the coroutines of `game_websocket` with `player_id`, `player_number` and the `state` of the finally clause |
| `GameRoom.playerConnections`, `roomKnown`, `roomConnections` | `player_connections`, `room_connections` and its entry for the room |
| `GameRoom.members`, `ttl` | Redis `room:<id>:players`, whether it expires |
| `GameRoom.active`, `seat`, `ending` | `active_games[room_id]`, `player1_id`/`player2_id` and `is_game_over` of each GameState |
| `GameRoom.grace` | `disconnect_tasks[(room_id, player_id)]` and where the task is |

## Runs

| run | question | bounds |
|---|---|---|
| `match_rules` | Are groups, turn, winner and tables right for every report, does the engine judge as the rule book does, has a game one winner? Is PoolGame implemented? | 2 solids, 2 stripes, the 8-ball, cushion reports missing/0/3/4, 3 hand-overs, sockets stay up |
| `match_drops` | With two faults, lost sockets or reloads: is PoolGame still implemented, does the player to move get to shoot, does a browser's verdict agree with the server's? | 1 solid, 1 stripe, cushions unreported, 2 hand-overs |
| `timer` | Does a game end once, is its winner paid at most once, and once if a shot won it; is every turn timed? | time-out of 3 ticks, 3 timer tasks (2 shots), any send may suspend, connections may change under it |
| `room_calm` | Do seats, maps, grace periods fit; is an absent player back or the game over; do two players meet? | 2 players, 4 sockets, 1 restart, 1 expiry; one handler's Redis calls at a time, an old socket ends before the new one, one match per room |
| `replay` | Do all tables settle on the server's, does every replay end, is a shot never refused, what can lock a browser? | 1 ball, 2 shots of 2 frames, 1 lost socket |
| `session` | One connection, a truthful flag, no game against oneself, no start missed, a way back? | 3 sockets at a time, 2 retries, 3 faults, 1 rematch |
| `claim_*` | six statements of a document or a comment that the code does not keep; each is violated | as the run it derives from |

*Why the bounds are enough.* Two balls per group separate "one left", "none left" and "the last drops now"; the cushion
counts 0, 3, 4 and missing are all cases the code tells apart. Three hand-overs reach a break, a dealing shot, a shot at the
8-ball and a late report. Of the turn timer's tasks two are needed for one to remove the other from the registry, the third follows the
shot that cannot cancel the orphan; three are enough for `FullTurn` to fail (`claim_fullturn` has four). Time-out 3 separates "now", "later" and "too late". In Replay two frames separate the first,
which starts the clock, from the last, which ends it, and the second shot may begin while the first is replayed; three shots with no lost socket
hold as well. In Session two sockets are needed for the events of one to meet the other, the third for a retry beside both; two rematches, four
faults and three retries (2.3 million states) hold as well. The bounds are named constants that guard the *client's* actions and the faults
(`MaxTurns`, `MaxFaults`, `MaxShots`, `MaxWorkers`, ...), never the server's. What is proved needs none of them.

*Fairness.* `Rulebook.FairBookPlay`, `Match.FairSpec`: the server's loop processes a received message. `ReconnectingSpec` and its copy in LocalVerdict add that a browser
whose socket is down connects again: `WSClient` retries after 2, 4, 6, 8 and 10 s, so four tries fall within the 25 s of grace. `TurnTimer.FairSpec`: ready
tasks run, drained sockets and the callback (10 s time-out) resume their task, and time passes. `GameRoom.FairSpec`: Redis answers, a closed socket is
noticed, 25 seconds pass; nobody has to connect. `Replay.FairSpec`: a simulation ends (`SIM_TIMEOUT`), the browser renders, messages are delivered and handled.
`Session.FairSpec`: browser events, timers and frames come, the server reads its sockets; the opponent, the user and faults are free. Players' shots and
administrators are never fair.

*Switches.* Some properties rest on something the code does not enforce. A constant names it, and the runs say on which side they are.

| switch | off means | with it on |
|---|---|---|
| `GameRoom.Overlap` | the server sees the end of a socket before the player's next one | `Reachable`, `ForfeitsAbsent` fail: the clean-up of the old socket pops the new one's entries and its grace period forfeits a connected player (game.py:500) |
| `GameRoom.Interleaved` | the Redis calls of two handlers do not interleave | `PlayersMeet`, `SeatsAgree` fail: two who arrive together are both player 1 (game.py:240) |
| `GameRoom.Rematch` | nobody enters a room after its match | `SeatsAgree`, `AbsentOnClock`, `AbsenceEnds` fail |
| `Replay.Hasty` | the user does not shoot between a `shot_result` and the `your_turn` right behind it | with a third shot, `NoReportRefused` and `TablesSettle` fail: `your_turn` gives the turn back to a browser that has just used it |
| `Session.HalfOpen` | as Overlap, for this page | `NoGameAlone` fails: a reload joins as its own opponent |
| `Session.Swift` | the server's answer takes longer than the browser's next frame | `StartIsSeen` fails: a `game_start` before `WaitingScene.create` finds no handler |

`GameRoom.ImplementsMatchCredit` and `CreditedOnce` hold with all its switches on, and are proved so. In TurnTimer sends may always suspend; `TurnIsTimed` and `GameMovesOn` say "as long as no send
has been suspended" (the variable `suspended`): the server runs uvicorn with its `websockets` protocol, where a send suspends the sender only when the write
buffer is full. Sleeps and the HTTP callback always suspend. `ShotWinnerPaid` is stated for sends that suspend, too, and excepts exactly the shot whose handler died: without the exception
TLC shows the deciding shot's broadcast suspended, a player leaving, the iteration raising, and nobody left to credit the winner. GameRoom has sends that do not suspend; a broadcast
of the finally clause (game.py:505) that raises would skip the grace period behind it, and `AbsenceEnds` does not cover that.

*Exceptions.* `MoverGetsToAct` excepts `LockedReplaying`: a browser that lost its socket while it replayed a shot, missed the result, and was then told by `reconnected` that it is to move. Its
`isSimulating` stays set, so `executeShot` refuses; without the exception the run finds it. `OnlyMissedResultLocks` says in Replay that nothing else locks a browser.

*Deadlock* is checked in Match, TurnTimer and Session, where a deserted room or a finished page stutters explicitly. In GameRoom and Replay it is not: when the sockets
or the shots of the bound are used up, nothing is left to do.

*Redis.* A command takes effect when its caller resumes; the two calls for names and avatars are merged with their neighbours. A cancelled grace task runs its
`finally` before any handler goes on, so cancelling it removes it in the same step.

## What the violated runs show

- `claim_spot` (RULES.md:20): an 8-ball pocketed on the break is spotted by the server only; the next report takes it away again.
- `claim_lastball` (RULES.md:53): the shot that takes the last ball of the group is judged against the table after it and counts as a wrong first contact.
  `RulebookVerdict`, which holds, names it (`ClearsGroup`) among the five kinds of shots that engine and rule book judge differently (below).
- `claim_mirror` (rules.ts:3): a browser deals the groups itself, on the break and to player 1, so it finds a winner where the server does not, or another one.
  `VerdictsAgree`, which holds, says that once it knows the server's groups the two agree.
- `claim_fullturn` (game.py:65): the `finally` of a cancelled timer removes its successor from the registry, the next shot cannot cancel that one, and it ends a
  later turn of the same player early. `TurnIsTimed` is the half that holds: a live timer for the current turn always exists.
- `claim_outsider` (game.py:130): a refused third visitor starts a grace period that ends the game of the others.
- `claim_solo` (INTEGRATION_TO_APP.md:7): play again calls `disconnect` and `connect` in a row; the first socket's `onclose` comes when `intentionalClose` is reset
  and schedules another connection, which joins the new room a second time: the player is both players.

More disagreements are visible in the models and have no run of their own:
- rules, the five kinds of `Rulebook!Disputed`: the shot that takes the last ball of the group, first hit or by way of the 8-ball, is judged by the table after it (`ClearsGroup`, RULES.md:53); a scratch
  with only the 8-ball left costs the turn instead of the game (`ScratchesAtEight`, RULES.md:64); the 8-ball wins after a wrong first contact (`WinsByWrongContact`, RULES.md:9); it wins on
  the shot that deals a group and takes all of it (`WinsOnOpenTable`); a break that hits nothing is no foul (`BreaksNothing`). `RulebookVerdict` says that there are no others as long as both have dealt the same groups;
  that they do not is the sixth: a scratch or a wrong first contact that pockets a solid or stripe deals the groups (`Match!Deals`, RULES.md:24-25), and what the book says of the shots after it is no longer compared;
- the end: every `game_over` of a shot is announced as `pocketed_8_ball` (`Match!AnnounceWinner`, RULES.md:79);
- clock: the timer is cancelled by `shoot`, after the simulation, not by `shot_init` (`TurnTimer!ShotInit`, game.py:363), and a room is marked as credited before
  a callback that a cancellation may prevent (`TurnTimer!WorkerCancelled`, game.py:31); a broadcast whose recipients change under it ends its handler or timer task (`TurnTimer!HandlerBreaks`, game.py:54);
- rooms: the two shown by `Overlap` and `Interleaved` above;
- replay: a browser that misses a result while it replays stays locked (`OnlyMissedResultLocks` names the case, GameScene.ts:1048); a second shot's frames are added
  to the replay that is running (`Replay!OnShotChunk`, `PlayOpponentShot`, against trajectory.ts:7); a result starts the replay although the aim's replay,
  which `update` would wait for, has not ended (GameScene.ts:861, 640);
- session: when the first connection fails and a retry succeeds, Boot never leaves although the page has joined (`Session`, BootScene.ts:103); a pending retry connects after
  `disconnect` (wsClient.ts:58); after play again `connected` may be false for an open socket (wsClient.ts:49); a reloaded page guesses
  the turn from its player number (`Match!Reload`, WaitingScene.ts:116).

## Proofs

Every theorem holds for all values of the constants that satisfy the module's named ASSUMEs: in Match the ball numbers are disjoint, solids and stripes are finite sets,
the markers `NoBall`, `Unreported` and `NoShot` are no ball, no count and no report; in the others bounds are naturals, switches Booleans, `NoOne` is no player, and the players of a room are finitely many. None of the
properties is inductive alone.

- **MatchProofs** - `TypeOK`, `GroupsComplementary`, `TurnParity`, `OneWinner`, `FinishedIsFinal`, `DealtOnce` and the refinement `ImplementsPoolGame`.
  `IInv` adds that before the break the table is open (otherwise a break could keep groups a dealing shot never gave); that a winner and a broadcast exist only
  in a finished game is part of OneWinner, and without it a shot that changes the table, or a time-out after a broadcast, would break it. The refinement maps ShotContinues to a break,
  a shot, or a deal, ShotDecides to Decide, the endings to Abandon, and all other actions to stuttering.
  Its second part proves `OneActs`, `TablesAgree` and `RulebookVerdict`. The first two speak of the moments between two shots or of one kind of moment; the invariant `TInv` adds what a report in flight says of
  all three tables (`ShotAgrees`), that the cue ball is never off a browser's table, and that without lost sockets both are up, so that no browser misses a result.
  `RulebookVerdict` needs the invariant because the engine reads the table the shooter reported and the rule book the one before the shot; `TurnByTheBook` is about `BookSpec`, whose every step is one of
  Match, so Match's invariant holds in it. `FoulsJudged` compares the two on whether a shot is a foul, `DecisionJudged` on whether it wins, loses or leaves the 8-ball, both case by case and both ways: they differ exactly on the five kinds.
- **VerdictProofs** - `VerdictsAgree`, and `LocalIsMatch`: LocalVerdict's games are games of Match, so Match's invariant may be used. The only difference
  between the two judges is whether groups are dealt by the shot judged; that the server deals before it looks for a winner is excluded because a game with
  undealt groups cannot agree with a browser that knows them (`GroupsComplementary`, `BreakIsOpen`).
- **TurnTimerProofs** - `TypeOK`, `CreditedOnce`, `TurnIsTimed`, `OneVerdict`, and the refinement `ImplementsMatchCredit`. `OneClaim`: at most one task is between the decision that ends a game and its callback, none
  while the game runs, and none once the callback was sent - this is why testing and setting the flag without an await is enough. `Prompt`: while no send has suspended, a handler between
  a shot and the start of the next timer holds the loop, and the player it noted is to move; without it the timer it starts could be another player's. A handler or task that a broken broadcast ends gives up its claim, which no other takes over: at most once stays true.
  For the refinement `Entitled` adds that whoever claims the credit has a winner to report. The first step that sets the flag is the match's Decide, a callback - sent by a handler,
  by a timer task, or by one that was cancelled with the request out - its Pay, and everything else a stutter.
- **GameRoomProofs** - `TypeOK`, `CreditedOnce` and the refinement `ImplementsMatchCredit`, for any number of sockets and with all three switches on or off. `Credited`: a game that was credited has ended and no handler can
  still create it; `Named`: every live handler has a player. Every match of the room is one MatchCredit: what ends it may send its credit in the same step, a restart
  loses it unpaid, and no later step touches it.
  Its second part proves `SeatsAgree`, `Reachable`, `AbsentOnClock`, `ForfeitsAbsent` and `PlayersMeet`, where the switches are off and the room has at most two players (`Calm`), for any number of sockets,
  restarts and expiries. `CInv` says why the gaps between a handler's Redis calls do no harm there: one handler at a time is in such a gap (`OneBusy`), so what it saw in Redis is still so when it acts (`Joins`,
  `Leavers`); members of a known room have a handler (`MembersPresent`), so a newcomer is no member and the room never looks full to a player; both players play a running game, so who joins finds none. `Entries` names the one gap that
  remains: a first player replaces the entries of one whose membership had expired. `Overlap` takes `OneEach` away, `Interleaved` `OneBusy` with `Joins` and `Leavers`,
  `Rematch` that nobody joins after the match; the table of switches above says which properties follow.
- **ReplayProofs** - `TypeOK`, `FlagsAgree`, and `NoReportRefused` where nobody is `Hasty`. `IInv` types every message under way, and says that a browser that simulates has recorded a shot it can report. `OneTurn`: only the player to move
  has the turn, a simulated shot, a report, or a result with the turn message behind it under way - so a report always reaches a server that waits for it.
- **WatchProofs** - `OnlyMissedResultLocks`, whatever is lost. `WInv` looks at every wait a browser is in or will be in: for each `shot_init` in its queue (and the shot it already watches) the result
  follows in the queue or the opponent is still to move, and no result comes before a frame of its shot (`Watch`); a report leaves the shooter with a frame right before it (`Framed`). Without the
  frames a result could be kept back with nothing to replay. A socket that breaks empties one browser's queues; `cutOff` holds the players who awaited a result then.
- **SettleProofs** - `TablesSettle`, for any numbers of balls, shots and frames, where nobody is `Hasty`. `Couriers`: only the player to move has messages under way to the server, the last of them the report, which tells
  that browser's table. `Views` follows a player's stream, the messages on the way to it and behind them those of the opponent which the server still has to take, so that relaying changes nothing: a
  ball in truth on the table is nowhere shown to be off, and one that is off will be taken off - by the last frame or by the result - and is in no frame behind (`BallOf`); two ends of shots have a frame between
  them (`Spaced`), so that a result that is kept back is not overwritten before its successor's frames say the same; the last end puts the balls in their place (`LayoutOf`). The truth is the
  shooter's table while a shot is simulated or reported, and the server's otherwise. `SampleExists`, that `sampleTrajectory` finds a frame whatever times the frames have, is a lemma of it;
  `SampleNeverGoesBack` adds that the frame it shows never moves back while time passes and chunks come in.
- **SessionProofs** - `TypeOK`, `OneConnection`, `ConnectedMeansOpen`, and `NoGameAlone` where sockets are not half open. `OneLink` says why there is one connection: a live socket
  is `this.ws` and excludes a pending retry, a closing one was closed on purpose. `Alone`: the page's only socket that is in use is the one the server has, or may still hear of (`Asked`: only a socket that opened has
  asked to join, and what it asked may arrive after its end).
  Each of them speaks of a page before its first rematch; play again breaks them all (`claim_solo`).

Only model-checked: liveness (`TurnGoesOn`, `MoverGetsToAct`, `GameMovesOn`, `ShotWinnerPaid`, `AbsenceEnds`, `ReplaysEnd`, `StartIsSeen`, `Returns`), because fairness
and ENABLED are out of the prover's reach.

The messages of one send are written `One(a)` and `Two(a, b)` in the proofs about Replay, and these definitions are expanded only in lemmas where a single tuple of each length
occurs: the SMT encoding of tlapm 1.4.5 can identify two different tuples of the same length when one of them is an operand of `\o`. No obligation of the project has two such tuples.

## Not modelled, and the plan

- Physics and drawing: a shot may have any outcome. Cushion and contact bookkeeping only feeds the report, whose values are all tried.
- Pointer input, aiming angles, power control, ball-in-hand placement (the server re-spots the cue ball), HUD, panels, texts, the laboratories: no protocol state.
- `RoomManager`: `game_websocket` calls `connect` and nothing else; nobody publishes, reads a queue or calls `disconnect`, so no behaviour depends on its state.
- Redis client, configuration, start-up: constants and a lazily created client. Names, avatars, the body of the callback: only passed on.
- Vendored packages (`backend/.deps`), built assets and deployment: third-party and generated. They are nearly all of the repository's lines; the program itself has about 6,900,
  half of them drawing.

Next, in this order:
1. An abstract **Room** (two seats, one match; MatchCredit says the rest) that GameRoom implements in its calm form.
2. Input: the aim and power state machines of GameScene and PowerControl.
