-------------------------------- MODULE Session --------------------------------
(***************************************************************************)
(* One player's page: the WSClient (network/wsClient.ts) and the scenes     *)
(* that connect, wait, play, show the result and offer a rematch, against   *)
(* the server's rooms reduced to what the page's sockets do to them.        *)
(*                                                                         *)
(* Browser events are steps: a socket opens, fails, is lost or has finished *)
(* closing; a retry's timer fires; the next frame creates a scene.  close() *)
(* only starts a handshake, so `onclose` of a socket comes later than       *)
(* whatever its closer did next.  A message is handled when it is sent, or  *)
(* lost with its socket.  Room 0 is the match's, the others are rematches'. *)
(***************************************************************************)
EXTENDS Integers, FiniteSets

CONSTANTS
    MaxAttempts,  \* maxReconnectAttempts
    HalfOpen,     \* whether a new socket may come before the server has seen
                  \* the end of the old one
    Swift,        \* whether the server may answer a join before the browser's
                  \* next frame
    MaxSockets,   \* bound: sockets of the page at one time
    MaxRematches, \* bound: rematches asked for
    MaxFaults     \* bound: failed connections, lost sockets and reloads

ASSUME SessionAssumption ==
    /\ {MaxAttempts, MaxRematches, MaxFaults} \subseteq Nat
    /\ MaxSockets \in Nat \ {0}
    /\ {HalfOpen, Swift} \subseteq BOOLEAN

Sockets == 1 .. MaxSockets

Rooms == 0 .. MaxRematches

None == 0   \* no socket

(* The browser's end, the room of its URL, and what became of "join_room". *)
SocketType ==
    [end: {"unused", "connecting", "open", "closing", "closed"},
     room: Rooms,
     joined: {"no", "asked", "yes"}]

Unused == [end |-> "unused", room |-> 0, joined |-> "no"]

VARIABLES
    socket,      \* the page's sockets
    ws,          \* WSClient.ws
    connected,   \* WSClient.connected
    attempts,    \* reconnectAttempts
    intentional, \* intentionalClose
    retries,     \* timers under way that will connect again
    scene,       \* the page's scene; "starting" before WaitingScene is created
    awaited,     \* sockets whose promise Boot or the rematch button awaits
    room,        \* config.roomId
    seat,        \* the socket the server has for the player in each room
    game,        \* what runs in each room
    opponent,    \* whether the opponent is in room 0
    rematches, faults

client == <<ws, connected, attempts, intentional, retries>>
page == <<scene, awaited, room>>
server == <<seat, game, opponent>>
bounds == <<rematches, faults>>
vars == <<socket, client, page, server, bounds>>

Init ==
    /\ socket = [s \in Sockets |-> Unused]
    /\ ws = None
    /\ connected = FALSE
    /\ attempts = 0
    /\ intentional = FALSE
    /\ retries = 0
    /\ scene = "loading"
    /\ awaited = {}
    /\ room = 0
    /\ seat = [r \in Rooms |-> None]
    /\ game = [r \in Rooms |-> "none"]
    /\ opponent = FALSE
    /\ rematches = 0
    /\ faults = 0

Live(s) == socket[s].end \in {"connecting", "open"}

(* Where a socket's end leaves it: the server has yet to notice, if it knows *)
(* it or a "join_room" is under way.                                        *)
Ended(s) == IF socket[s].joined = "no" THEN Unused ELSE [socket[s] EXCEPT !.end = "closed"]

Noticed == \A s \in Sockets : socket[s].end \notin {"closing", "closed"}

Faulty == faults < MaxFaults /\ faults' = faults + 1

--------------------------------------------------------------------------------
(* WSClient. *)

(* connect() to room r, on the sockets ss. *)
Connects(ss, r) ==
    \E s \in Sockets :
        /\ ss[s].end = "unused"
        /\ socket' = [ss EXCEPT ![s] = [end |-> "connecting", room |-> r, joined |-> "no"]]
        /\ ws' = s
        /\ intentional' = FALSE

(* close() on this.ws. *)
ClosingCurrent ==
    [s \in Sockets |->
        IF s = ws /\ Live(s) THEN [socket[s] EXCEPT !.end = "closing"] ELSE socket[s]]

(* Mutant of Disconnects: `connected` stays. *)
DisconnectsConnected ==
    /\ intentional' = TRUE
    /\ socket' = ClosingCurrent
    /\ ws' = None
    /\ UNCHANGED <<connected, attempts, retries>>

(* disconnect().  Timers under way go on. *)
Disconnects ==
    /\ intentional' = TRUE
    /\ socket' = ClosingCurrent
    /\ ws' = None
    /\ connected' = FALSE
    /\ UNCHANGED <<attempts, retries>>

(* Mutant of OnClose: no limit to the attempts. *)
OnCloseForever ==
    /\ connected' = FALSE
    /\ attempts' = IF intentional THEN attempts ELSE attempts + 1
    /\ retries' = IF intentional THEN retries ELSE retries + 1
    /\ UNCHANGED <<ws, intentional>>

(* onclose of any socket. *)
OnClose ==
    LET again == ~intentional /\ attempts < MaxAttempts
    IN  /\ connected' = FALSE
        /\ attempts' = IF again THEN attempts + 1 ELSE attempts
        /\ retries' = IF again THEN retries + 1 ELSE retries
        /\ UNCHANGED <<ws, intentional>>

(* Mutant of Retries: the timer repeats. *)
RetriesRepeating ==
    /\ retries > 0
    /\ HalfOpen \/ Noticed
    /\ Connects(socket, room)
    /\ UNCHANGED <<retries, connected, attempts, page, server, bounds>>

(* setTimeout's callback.  Its promise is nobody's. *)
Retries ==
    /\ retries > 0
    /\ HalfOpen \/ Noticed
    /\ retries' = retries - 1
    /\ Connects(socket, room)
    /\ UNCHANGED <<connected, attempts, page, server, bounds>>

(* Mutant of Asks: only a scene's connect joins. *)
AsksOnce(s) == s \in awaited

(* onopen sends "join_room" to this.ws: lost on s if that is another socket. *)
Asks(s) == ws = s

(* send() throws, and the promise stays open, if another this.ws is connecting. *)
Resolves(s) == s \in awaited /\ (ws \in {s, None} \/ socket[ws].end # "connecting")

Opens(s) ==
    /\ socket[s].end = "connecting"
    /\ socket' = [socket EXCEPT ![s].end = "open", ![s].joined = IF Asks(s) THEN "asked" ELSE "no"]
    /\ connected' = TRUE
    /\ attempts' = 0
    /\ scene' = IF Resolves(s) THEN "starting" ELSE scene
    /\ awaited' = IF Resolves(s) THEN awaited \ {s} ELSE awaited
    /\ UNCHANGED <<ws, intentional, retries, room, server, bounds>>

(* onclose of an open socket the network lost. *)
IsLost(s) ==
    /\ socket[s].end = "open"
    /\ Faulty
    /\ socket' = [socket EXCEPT ![s] = Ended(s)]
    /\ OnClose
    /\ UNCHANGED <<page, server, rematches>>

(* The page goes, with its sockets and timers.  The room is the URL's or the *)
(* session storage's.                                                        *)
PageGoes ==
    /\ socket' = [s \in Sockets |-> Ended(s)]
    /\ ws' = None
    /\ connected' = FALSE
    /\ attempts' = 0
    /\ intentional' = FALSE
    /\ retries' = 0
    /\ scene' = "loading"
    /\ awaited' = {}
    /\ room' \in {0, room}

(* onerror and onclose.  Boot tells the user to reload and stays. *)
Fails(s) ==
    /\ socket[s].end = "connecting"
    /\ Faulty
    /\ IF s \in awaited /\ scene = "result"
       THEN PageGoes
       ELSE /\ socket' = [socket EXCEPT ![s] = Unused]
            /\ awaited' = awaited \ {s}
            /\ OnClose
            /\ UNCHANGED <<scene, room>>
    /\ UNCHANGED <<server, rematches>>

(* A socket disconnect() closed has shaken hands; one that was connecting has *)
(* failed.                                                                    *)
HasClosed(s) ==
    /\ socket[s].end = "closing"
    /\ IF s \in awaited /\ scene = "result"
       THEN PageGoes
       ELSE /\ socket' = [socket EXCEPT ![s] = Ended(s)]
            /\ awaited' = awaited \ {s}
            /\ OnClose
            /\ UNCHANGED <<scene, room>>
    /\ UNCHANGED <<server, bounds>>

--------------------------------------------------------------------------------
(* The scenes. *)

(* BootScene, once the page is loaded. *)
Boots ==
    /\ scene = "loading"
    /\ HalfOpen \/ Noticed
    /\ Connects(socket, room)
    /\ scene' = "boot"
    /\ awaited' = {ws'}
    /\ UNCHANGED <<connected, attempts, retries, room, server, bounds>>

(* WaitingScene's create registers its handlers. *)
CreatesWaiting ==
    /\ scene = "starting"
    /\ scene' = "waiting"
    /\ UNCHANGED <<socket, client, awaited, room, server, bounds>>

(* The browser finds its game over by itself (LocalVerdict). *)
FindsGameOver ==
    /\ scene = "game"
    /\ scene' = "result"
    /\ UNCHANGED <<socket, client, awaited, room, server, bounds>>

(* "Play again": disconnect, another room, connect. *)
PlaysAgain ==
    /\ scene = "result"
    /\ rematches < MaxRematches
    /\ rematches' = rematches + 1
    /\ room' = rematches + 1
    /\ Connects(ClosingCurrent, room')
    /\ connected' = FALSE
    /\ awaited' = awaited \cup {ws'}
    /\ UNCHANGED <<attempts, retries, scene, server, faults>>

(* Cancel, back to the lobby, or 30 seconds of the result. *)
Exits ==
    /\ scene \in {"waiting", "result"}
    /\ Disconnects
    /\ UNCHANGED <<page, server, bounds>>

(* The user reloads the page. *)
Reloads ==
    /\ scene # "loading"
    /\ Faulty
    /\ PageGoes
    /\ UNCHANGED <<server, rematches>>

(* Mutant of After: WaitingScene does not handle "reconnected". *)
AfterStarts(message) ==
    IF scene = "waiting" /\ message = "game_start" THEN "game"
    ELSE IF scene = "game" /\ message = "game_over" THEN "result"
    ELSE scene

(* The scene a message leads to. *)
After(message) ==
    IF scene = "waiting" /\ message \in {"game_start", "reconnected"} THEN "game"
    ELSE IF scene = "game" /\ message = "game_over" THEN "result"
    ELSE scene

(* The server sends the player of room r a message over socket s. *)
Sends(s, message) ==
    scene' = IF s # None /\ socket[s].end = "open" THEN After(message) ELSE scene

--------------------------------------------------------------------------------
(* The server. *)

(* "join_room" over s, which may have ended since: back in the running game,  *)
(* the second of two members - the set of members holds the player while an   *)
(* older socket has the seat -, or the first.                                 *)
Joins(s) ==
    /\ socket[s].joined = "asked"
    /\ Swift \/ scene # "starting"
    /\ LET r == socket[s].room
           starts == game[r] = "none" /\ (seat[r] # None \/ (r = 0 /\ opponent))
       IN  /\ game' = [game EXCEPT ![r] = IF ~starts THEN @
                                          ELSE IF seat[r] # None THEN "solo" ELSE "pair"]
           /\ seat' = [seat EXCEPT ![r] = s]
           /\ Sends(s, IF starts THEN "game_start"
                       ELSE IF game[r] # "none" THEN "reconnected" ELSE "room_joined")
    /\ socket' = [socket EXCEPT ![s].joined = "yes"]
    /\ UNCHANGED <<client, awaited, room, opponent, bounds>>

(* Mutant of Notices: the player stays in the room. *)
NoticesOnly(s) ==
    /\ socket[s].end = "closed"
    /\ socket' = [socket EXCEPT ![s] = Unused]
    /\ UNCHANGED <<client, page, server, bounds>>

(* The handler's finally clause takes the player's seat, whichever socket has *)
(* it; it does nothing for a socket whose "join_room" was lost.               *)
Notices(s) ==
    /\ socket[s].end = "closed"
    /\ socket' = [socket EXCEPT ![s] = Unused]
    /\ seat' = IF socket[s].joined = "yes" THEN [seat EXCEPT ![socket[s].room] = None] ELSE seat
    /\ UNCHANGED <<client, page, game, opponent, bounds>>

OpponentComes ==
    /\ ~opponent /\ game[0] = "none"
    /\ opponent' = TRUE
    /\ IF seat[0] # None
       THEN game' = [game EXCEPT ![0] = "pair"] /\ Sends(seat[0], "game_start")
       ELSE UNCHANGED <<game, scene>>
    /\ UNCHANGED <<socket, client, awaited, room, seat, bounds>>

OpponentLeaves ==
    /\ opponent /\ game[0] = "none"
    /\ opponent' = FALSE
    /\ UNCHANGED <<socket, client, page, seat, game, bounds>>

(* A game ends, by play, time-out or forfeit. *)
GameEnds(r) ==
    /\ game[r] # "none"
    /\ game' = [game EXCEPT ![r] = "none"]
    /\ Sends(seat[r], "game_over")
    /\ UNCHANGED <<socket, client, awaited, room, seat, opponent, bounds>>

Serves == \E s \in Sockets : Joins(s) \/ Notices(s)

Connecting(s) == Opens(s) \/ Fails(s)

Next ==
    \/ \E s \in Sockets : Connecting(s) \/ IsLost(s) \/ HasClosed(s)
    \/ Retries \/ Serves
    \/ Boots \/ CreatesWaiting \/ FindsGameOver \/ PlaysAgain \/ Exits \/ Reloads
    \/ OpponentComes \/ OpponentLeaves \/ \E r \in Rooms : GameEnds(r)

Spec == Init /\ [][Next]_vars

(* The browser's events come, timers fire, frames are drawn, the server reads *)
(* its sockets.  Users, opponents and faults are free.                        *)
FairSpec ==
    /\ Spec
    /\ \A s \in Sockets : WF_vars(Connecting(s)) /\ WF_vars(HasClosed(s))
    /\ \A s \in Sockets : WF_vars(Joins(s)) /\ WF_vars(Notices(s))
    /\ WF_vars(Retries) /\ WF_vars(Boots) /\ WF_vars(CreatesWaiting)
--------------------------------------------------------------------------------
(* Properties. *)

(* The type invariant of the page, its client and the rooms. *)
TypeOK ==
    /\ socket \in [Sockets -> SocketType]
    /\ ws \in Sockets \cup {None}
    /\ connected \in BOOLEAN /\ intentional \in BOOLEAN /\ opponent \in BOOLEAN
    /\ attempts \in 0 .. MaxAttempts /\ retries \in Nat
    /\ scene \in {"loading", "boot", "starting", "waiting", "game", "result"}
    /\ awaited \subseteq Sockets
    /\ room \in Rooms
    /\ seat \in [Rooms -> Sockets \cup {None}]
    /\ game \in [Rooms -> {"none", "pair", "solo"}]

(* Until a rematch is asked for, the page has at most one socket or retry    *)
(* under way, whatever fails, is lost, closed or reloaded.                   *)
OneConnection ==
    rematches = 0 => Cardinality({s \in Sockets : Live(s)}) + retries <= 1

(* Until then, `connected` tells whether this.ws is open: what a scene sends *)
(* neither throws nor vanishes on an open socket.                            *)
ConnectedMeansOpen ==
    rematches = 0 => (connected <=> ws # None /\ socket[ws].end = "open")

(* Until then, and if the server sees a socket's end before the next socket, *)
(* no game has the player on both seats.                                     *)
NoGameAlone == rematches = 0 => \A r \in Rooms : game[r] # "solo"

GaveUp == attempts = MaxAttempts \/ intentional

Waits == scene = "waiting" /\ room = 0

Plays == scene = "game" /\ room = 0

(* A page that waits while its match has started gets to it, also when it    *)
(* loses its socket just then - unless it gave up or left.                   *)
StartIsSeen ==
    (Waits /\ game[0] = "pair") ~> (~Waits \/ game[0] # "pair" \/ GaveUp)

(* A page that plays gets back to its running game after every loss.         *)
Returns ==
    (Plays /\ game[0] = "pair")
        ~> \/ ~Plays \/ game[0] # "pair" \/ GaveUp
           \/ seat[0] # None /\ socket[seat[0]].end = "open"
================================================================================
