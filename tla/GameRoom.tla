-------------------------------- MODULE GameRoom --------------------------------
(***************************************************************************)
(* One room of the server (api/game.py): the socket handlers that join,    *)
(* rejoin and leave it, the grace period of an absent player, the maps of  *)
(* connections, and the set of members in Redis.                           *)
(*                                                                         *)
(* A handler runs on the event loop from one Redis call to the next; sends *)
(* do not suspend it (see TurnTimer).  A Redis command takes effect when   *)
(* its caller resumes.  A cancelled grace task runs its finally clause     *)
(* before any handler goes on, so cancelling it removes it.  How a game is *)
(* played is Match, how it is timed TurnTimer: here it just ends.          *)
(***************************************************************************)
EXTENDS Integers, FiniteSets

CONSTANTS
    Players,     \* player ids that open the room's page
    NoOne,       \* None, for a player id
    MaxConns,    \* bound: sockets ever opened
    MaxRestarts, \* bound: restarts of the server process
    MaxExpiries, \* bound: expiries of the members' key
    Overlap,     \* whether a player's new socket may arrive before the server
                 \* has seen the end of the old one
    Interleaved, \* whether one handler's join or clean-up may meet another's,
                 \* or the key's expiry
    Rematch      \* whether sockets are opened after the room's match has ended

ASSUME RoomAssumption ==
    /\ IsFiniteSet(Players) /\ NoOne \notin Players
    /\ MaxConns \in Nat \ {0}
    /\ {MaxRestarts, MaxExpiries} \subseteq Nat
    /\ {Overlap, Interleaved, Rematch} \subseteq BOOLEAN

Conns == 1 .. MaxConns

(* Games are named after the socket of the second player, who creates them. *)
Games == Conns

None == 0   \* no socket, no game

Joining == {"count", "purge", "first", "first register",
            "second", "second register", "start", "rejoin"}

Leaving == {"srem", "scard", "delete"}

(* A socket and its handler: the player, where the handler is, whether the *)
(* browser's end is open, player_number, and `state` in the finally clause.*)
ConnType ==
    [player: Players \cup {NoOne},
     at: {"unused", "loop", "gone"} \cup Joining \cup Leaving,
     open: BOOLEAN,
     number: 0 .. 2,
     state: Games \cup {None}]

VARIABLES
    conn,              \* the sockets and their handlers
    playerConnections, \* player_connections, None where a player has no entry
    roomKnown,         \* room_id in room_connections
    roomConnections,   \* room_connections[room_id], None where there is no entry
    members,           \* Redis set room:<id>:players
    ttl,               \* whether that key expires
    active,            \* active_games[room_id], or None
    seat,              \* player1_id and player2_id of each game
    ending,            \* how each game ended, "running", or "unborn"
    grace,             \* the task of disconnect_tasks for each player
    credited,          \* room_id in credited_rooms
    callbacks,         \* credit callbacks sent for each game
    restarts, expiries \* how often these happened

maps == <<playerConnections, roomKnown, roomConnections>>
redis == <<members, ttl, expiries>>
games == <<active, seat, ending>>
credit == <<credited, callbacks>>
vars == <<conn, maps, redis, games, grace, credit, restarts>>

--------------------------------------------------------------------------------
Init ==
    /\ conn = [c \in Conns |-> [player |-> NoOne, at |-> "unused", open |-> FALSE,
                                number |-> 0, state |-> None]]
    /\ playerConnections = [p \in Players |-> None]
    /\ roomKnown = FALSE
    /\ roomConnections = [p \in Players |-> None]
    /\ members = {}
    /\ ttl = FALSE
    /\ active = None
    /\ seat = [g \in Games |-> <<NoOne, NoOne>>]
    /\ ending = [g \in Games |-> "unborn"]
    /\ grace = [p \in Players |-> "none"]
    /\ credited = FALSE
    /\ callbacks = [g \in Games |-> 0]
    /\ restarts = 0
    /\ expiries = 0

Alive(c) == conn[c].at \notin {"unused", "gone"}

Fresh(c) == conn[c].at = "unused" /\ \A d \in Conns : d < c => conn[d].at # "unused"

(* No handler is between two of its Redis calls. *)
Quiet == \A c \in Conns : conn[c].at \notin Joining \cup Leaving

Running(g) == g # None /\ ending[g] = "running"

Ended == \E g \in Games : ending[g] \in {"play", "grace", "admin"}

Seated(p, g) == \E i \in 1 .. 2 : seat[g][i] = p

(* Mutant of SeatOf: players counted one too high. *)
SeatOfNext(p, g) == IF seat[g][1] = p THEN 2 ELSE 3

SeatOf(p, g) == IF seat[g][1] = p THEN 1 ELSE 2

Goto(c, label) == conn' = [conn EXCEPT ![c].at = label]

(* SADD and SREM; a key that loses its last member takes its expiry along. *)
SetMembers(s) == members' = s /\ ttl' = (ttl /\ s # {})

--------------------------------------------------------------------------------
(* Joining. *)

(* The handler's entries for a socket. *)
Register(c, others) ==
    LET p == conn[c].player
    IN  /\ playerConnections' = [playerConnections EXCEPT ![p] = c]
        /\ roomConnections' = [others EXCEPT ![p] = c]
        /\ roomKnown' = TRUE

(* Mutant of TakesSeat: no entry in room_connections, the task is not cancelled. *)
TakesSeatElsewhere(p, c) ==
    /\ playerConnections' = [playerConnections EXCEPT ![p] = c]
    /\ UNCHANGED <<grace, roomConnections, roomKnown>>

(* A player of the running game is back on socket c. *)
TakesSeat(p, c) ==
    /\ grace' = [grace EXCEPT ![p] = "none"]
    /\ playerConnections' = [playerConnections EXCEPT ![p] = c]
    /\ roomConnections' = [roomConnections EXCEPT ![p] = c]
    /\ roomKnown' = TRUE

(* A socket is opened, "join_room" arrives, and the handler runs to its     *)
(* first Redis call: a player of the running game is registered at once and *)
(* the grace period is over; anybody else joins the room.  The player's     *)
(* older socket is dead, whether or not the server knows.                   *)
Opens(p) ==
    \E c \in Conns :
        /\ Fresh(c)
        /\ Overlap \/ \A d \in Conns : conn[d].player = p => ~Alive(d)
        /\ Interleaved \/ Quiet
        /\ Rematch \/ ~Ended
        /\ LET rejoins == Running(active) /\ Seated(p, active)
               entry == [player |-> p,
                         at |-> IF rejoins THEN "rejoin" ELSE "count",
                         open |-> TRUE,
                         number |-> IF rejoins THEN SeatOf(p, active) ELSE 0,
                         state |-> None]
           IN  /\ conn' = [d \in Conns |->
                            IF d = c THEN entry
                            ELSE [conn[d] EXCEPT !.open = @ /\ conn[d].player # p]]
               /\ IF rejoins
                  THEN TakesSeat(p, c)
                  ELSE UNCHANGED <<grace, maps>>
        /\ UNCHANGED <<redis, games, credit, restarts>>

Rejoins(c) ==
    /\ conn[c].at = "rejoin"
    /\ SetMembers(members \cup {conn[c].player})
    /\ Goto(c, "loop")
    /\ UNCHANGED <<maps, games, grace, credit, restarts, expiries>>

(* Mutant of StaleMembers: does not look whether the room is known. *)
StaleMembersAlways == members # {}

(* Members of a room this process knows nothing of are left from another. *)
StaleMembers == members # {} /\ ~roomKnown

(* Mutant of Absent: the whole room's entries go. *)
AbsentRoom(p) ==
    /\ playerConnections' = [playerConnections EXCEPT ![p] = None]
    /\ roomConnections' = [q \in Players |-> None]
    /\ UNCHANGED roomKnown

(* The socket's entries go, whichever socket they are of. *)
Absent(p) ==
    /\ playerConnections' = [playerConnections EXCEPT ![p] = None]
    /\ roomConnections' = [roomConnections EXCEPT ![p] = None]
    /\ UNCHANGED roomKnown

(* Mutant of GraceStarts: no grace period is started for the first player. *)
GraceStartsForSecond(p) ==
    grace' = IF Running(active) /\ grace[p] = "none" /\ seat[active][1] # p
             THEN [grace EXCEPT ![p] = "sleeping"] ELSE grace

GraceStarts(p) ==
    grace' = IF Running(active) /\ grace[p] = "none"
             THEN [grace EXCEPT ![p] = "sleeping"] ELSE grace

(* The finally clause up to its first Redis call. *)
BeginsToLeave(c) ==
    /\ Absent(conn[c].player)
    /\ GraceStarts(conn[c].player)
    /\ conn' = [conn EXCEPT ![c].at = "srem", ![c].state = active]
    /\ UNCHANGED <<redis, games, credit, restarts>>

(* SCARD decides what the newcomer is.  Two members: the room is full, and *)
(* the return leads through the finally clause.                            *)
Counts(c) ==
    /\ conn[c].at = "count"
    /\ \/ /\ StaleMembers
          /\ Goto(c, "purge")
          /\ UNCHANGED <<maps, redis, games, grace, credit, restarts>>
       \/ /\ ~StaleMembers /\ Cardinality(members) < 2
          /\ Goto(c, IF members = {} THEN "first" ELSE "second")
          /\ UNCHANGED <<maps, redis, games, grace, credit, restarts>>
       \/ /\ ~StaleMembers /\ Cardinality(members) >= 2
          /\ BeginsToLeave(c)

Purges(c) ==
    /\ conn[c].at = "purge"
    /\ SetMembers({})
    /\ active' = None
    /\ Goto(c, "first")
    /\ UNCHANGED <<maps, seat, ending, grace, credit, restarts, expiries>>

(* The first player: SADD, then EXPIRE and the entries, which replace those *)
(* of the room.                                                             *)
FirstAdds(c) ==
    /\ conn[c].at = "first"
    /\ SetMembers(members \cup {conn[c].player})
    /\ Goto(c, "first register")
    /\ UNCHANGED <<maps, games, grace, credit, restarts, expiries>>

FirstRegisters(c) ==
    /\ conn[c].at = "first register"
    /\ ttl' = (members # {})
    /\ Register(c, [p \in Players |-> None])
    /\ conn' = [conn EXCEPT ![c].at = "loop", ![c].number = 1]
    /\ UNCHANGED <<members, games, grace, credit, restarts, expiries>>

SecondAdds(c) ==
    /\ conn[c].at = "second"
    /\ SetMembers(members \cup {conn[c].player})
    /\ Goto(c, "second register")
    /\ UNCHANGED <<maps, games, grace, credit, restarts, expiries>>

SecondRegisters(c) ==
    /\ conn[c].at = "second register"
    /\ ttl' = (members # {})
    /\ Register(c, roomConnections)
    /\ Goto(c, "start")
    /\ UNCHANGED <<members, games, grace, credit, restarts, expiries>>

(* Mutant of FirstPlayers: anybody in the set, the newcomer included. *)
FirstPlayersAll(p) == IF members = {} THEN {NoOne} ELSE members

(* Whom SMEMBERS names as player 1: the last other member, or None. *)
FirstPlayers(p) == IF members \subseteq {p} THEN {NoOne} ELSE members \ {p}

(* The game starts, unless the handler's first send finds the socket dead. *)
Starts(c) ==
    /\ conn[c].at = "start"
    /\ conn' = [conn EXCEPT ![c].at = "loop", ![c].number = 2]
    /\ \/ /\ \E p1 \in FirstPlayers(conn[c].player) :
                seat' = [seat EXCEPT ![c] = <<p1, conn[c].player>>]
          /\ ending' = [ending EXCEPT ![c] = "running"]
          /\ active' = c
       \/ ~conn[c].open /\ UNCHANGED games
    /\ UNCHANGED <<maps, redis, grace, credit, restarts>>

--------------------------------------------------------------------------------
(* Leaving, and the grace period. *)

(* The browser's end of a socket closes; the handler has not noticed yet. *)
Closes(c) ==
    /\ Alive(c) /\ conn[c].open
    /\ conn' = [conn EXCEPT ![c].open = FALSE]
    /\ UNCHANGED <<maps, redis, games, grace, credit, restarts>>

Leaves(c) ==
    /\ conn[c].at = "loop" /\ ~conn[c].open
    /\ Interleaved \/ Quiet
    /\ BeginsToLeave(c)

Removes(c) ==
    /\ conn[c].at = "srem"
    /\ SetMembers(members \ {conn[c].player})
    /\ Goto(c, "scard")
    /\ UNCHANGED <<maps, games, grace, credit, restarts, expiries>>

(* `state` is the game the finally clause saw before its Redis calls. *)
CountsLeft(c) ==
    /\ conn[c].at = "scard"
    /\ Goto(c, IF members = {} /\ ~Running(conn[c].state) THEN "delete" ELSE "gone")
    /\ UNCHANGED <<maps, redis, games, grace, credit, restarts>>

CleansUp(c) ==
    /\ conn[c].at = "delete"
    /\ SetMembers({})
    /\ active' = None
    /\ credited' = FALSE
    /\ Goto(c, "gone")
    /\ UNCHANGED <<maps, seat, ending, grace, callbacks, restarts, expiries>>

MayForfeit(p) == Running(active) /\ roomConnections[p] = None

(* The winner is credited unless the room is marked already. *)
Credits == 
    /\ credited' = TRUE
    /\ callbacks' = IF credited THEN callbacks ELSE [callbacks EXCEPT ![active] = @ + 1]

Forfeits(p) ==
    /\ grace[p] = "sleeping"
    /\ MayForfeit(p)
    /\ ending' = [ending EXCEPT ![active] = "grace"]
    /\ Credits
    /\ grace' = [grace EXCEPT ![p] = IF credited THEN "none" ELSE "crediting"]
    /\ UNCHANGED <<conn, maps, redis, active, seat, restarts>>

GraceEnds(p) ==
    /\ \/ grace[p] = "sleeping" /\ ~MayForfeit(p)
       \/ grace[p] = "crediting"
    /\ grace' = [grace EXCEPT ![p] = "none"]
    /\ UNCHANGED <<conn, maps, redis, games, credit, restarts>>

--------------------------------------------------------------------------------
(* The rest of the world. *)

(* Mutant of PlayEnds: every ending credits, whatever flag and mark say. *)
PlayEndsAgain ==
    /\ active # None
    /\ ending' = [ending EXCEPT ![active] = "play"]
    /\ callbacks' = [callbacks EXCEPT ![active] = @ + 1]
    /\ UNCHANGED <<conn, maps, redis, active, seat, grace, credited, restarts>>

(* A shot or a time-out ends the game (Match, TurnTimer). *)
PlayEnds ==
    /\ Running(active)
    /\ ending' = [ending EXCEPT ![active] = "play"]
    /\ Credits
    /\ UNCHANGED <<conn, maps, redis, active, seat, grace, restarts>>

ForceEnd ==
    /\ Running(active)
    /\ ending' = [ending EXCEPT ![active] = "admin"]
    /\ UNCHANGED <<conn, maps, redis, active, seat, grace, credit, restarts>>

(* EXPIRE of the members' key: 300 seconds after the last player joined. *)
Expires ==
    /\ expiries < MaxExpiries
    /\ Interleaved \/ Quiet
    /\ ttl
    /\ SetMembers({})
    /\ expiries' = expiries + 1
    /\ UNCHANGED <<conn, maps, games, grace, credit, restarts>>

(* The server process restarts: what it had in memory is gone, Redis stays. *)
Restarts ==
    /\ restarts < MaxRestarts
    /\ restarts' = restarts + 1
    /\ conn' = [c \in Conns |-> IF Alive(c)
                                THEN [conn[c] EXCEPT !.at = "gone", !.open = FALSE]
                                ELSE conn[c]]
    /\ playerConnections' = [p \in Players |-> None]
    /\ roomKnown' = FALSE
    /\ roomConnections' = [p \in Players |-> None]
    /\ ending' = [g \in Games |-> IF ending[g] = "running" THEN "lost" ELSE ending[g]]
    /\ active' = None
    /\ grace' = [p \in Players |-> "none"]
    /\ credited' = FALSE
    /\ UNCHANGED <<redis, seat, callbacks>>

Handler(c) ==
    \/ Rejoins(c) \/ Counts(c) \/ Purges(c) \/ FirstAdds(c) \/ FirstRegisters(c)
    \/ SecondAdds(c) \/ SecondRegisters(c) \/ Starts(c)
    \/ Leaves(c) \/ Removes(c) \/ CountsLeft(c) \/ CleansUp(c)

Grace(p) == Forfeits(p) \/ GraceEnds(p)

Next ==
    \/ \E p \in Players : Opens(p) \/ Grace(p)
    \/ \E c \in Conns : Closes(c) \/ Handler(c)
    \/ PlayEnds \/ ForceEnd \/ Expires \/ Restarts

Spec == Init /\ [][Next]_vars

(* Redis answers, a closed socket is noticed, and 25 seconds pass. *)
FairSpec ==
    /\ Spec
    /\ \A c \in Conns : WF_vars(Handler(c))
    /\ \A p \in Players : WF_vars(Grace(p))

--------------------------------------------------------------------------------
(* Properties. *)

(* The type invariant of the room. *)
TypeOK ==
    /\ conn \in [Conns -> ConnType]
    /\ playerConnections \in [Players -> Conns \cup {None}]
    /\ roomKnown \in BOOLEAN
    /\ roomConnections \in [Players -> Conns \cup {None}]
    /\ members \subseteq Players
    /\ ttl \in BOOLEAN
    /\ active \in Games \cup {None}
    /\ seat \in [Games -> (Players \cup {NoOne}) \X (Players \cup {NoOne})]
    /\ ending \in [Games -> {"unborn", "running", "play", "grace", "admin", "lost"}]
    /\ grace \in [Players -> {"none", "sleeping", "crediting"}]
    /\ credited \in BOOLEAN
    /\ callbacks \in [Games -> Nat]
    /\ {restarts, expiries} \subseteq Nat

(* The handler of p's socket c receives messages, as far as both ends know. *)
Connected(p, c) == conn[c].player = p /\ conn[c].at = "loop" /\ conn[c].open

(* A running game has two different players, and the socket of a connected  *)
(* player shoots for the player's own seat.                                 *)
SeatsAgree ==
    Running(active) =>
        /\ seat[active][1] # NoOne /\ seat[active][1] # seat[active][2]
        /\ \A p \in Players, c \in Conns :
              Connected(p, c) /\ Seated(p, active) => conn[c].number = SeatOf(p, active)

(* A connected player of a running game gets the server's messages: both    *)
(* maps name the player's socket, whoever left, rejoined or restarted.      *)
Reachable ==
    Running(active) =>
        \A p \in Players, c \in Conns :
            Connected(p, c) /\ Seated(p, active) =>
                playerConnections[p] = c /\ roomConnections[p] = c

(* A player of a running game who has no entry in the room has a grace      *)
(* period running: no game is left to a player who waits for nobody.        *)
AbsentOnClock ==
    Running(active) =>
        \A p \in Players :
            Seated(p, active) /\ roomConnections[p] = None => grace[p] = "sleeping"

(* The grace period only takes the game from a player of it who has no      *)
(* connected socket.                                                        *)
ForfeitsAbsent ==
    [][\A p \in Players :
         Forfeits(p) => Seated(p, active) /\ \A c \in Conns : ~Connected(p, c)]_vars

(* No game is credited twice, however its endings, the clean-up and a       *)
(* rematch in the room interleave.                                          *)
CreditedOnce == \A g \in Games : callbacks[g] <= 1

Credit(g) == INSTANCE MatchCredit WITH
    verdict <- IF ending[g] \in {"unborn", "running"} THEN "nothing" ELSE ending[g],
    paid <- callbacks[g]

(* The room keeps what MatchCredit promises of every match played in it,    *)
(* also of one that a rematch or a restart of the server leaves behind.     *)
ImplementsMatchCredit ==
    /\ \A g \in Games : Credit(g)!Init
    /\ [][\A g \in Games : [Credit(g)!Next]_(Credit(g)!vars)]_vars

(* Two connected players who are alone in the room and whose handlers are   *)
(* done play a game, or have played one, unless the members' key expired.   *)
PlayersMeet ==
    (/\ expiries = 0
     /\ \A p \in Players : \E c \in Conns : Connected(p, c)
     /\ Quiet)
        => active # None

(* An absent player of a running game is back or the game is over sooner or *)
(* later.                                                                   *)
AbsenceEnds ==
    \A p \in Players, g \in Games :
        (active = g /\ Running(g) /\ Seated(p, g) /\ roomConnections[p] = None)
            ~> (ending[g] # "running" \/ roomConnections[p] # None)
================================================================================
