----------------------------- MODULE SessionProofs -----------------------------
(***************************************************************************)
(* Proofs about Session, for any number of sockets, attempts, faults and   *)
(* rematches: the types, that a page has one connection until a rematch is *)
(* asked for, that `connected` is true of it, and that no game is started  *)
(* with the player on both seats.                                          *)
(***************************************************************************)
EXTENDS Session, FiniteSetTheorems, TLAPS

Ends == {"unused", "connecting", "open", "closing", "closed"}

(* The page's only socket is this.ws, and while it waits for a timer it has *)
(* none.  A socket is only being closed when the user has left.             *)
OneLink ==
    rematches = 0 =>
        /\ retries \in {0, 1}
        /\ retries # 0 => scene # "loading"
        /\ \A s \in Sockets : Live(s) => ws = s /\ retries = 0 /\ scene # "loading"
        /\ \A s \in Sockets :
             socket[s].end = "closing" => ws = None /\ intentional /\ retries = 0 /\ scene # "loading"
        /\ connected <=> ws # None /\ socket[ws].end = "open"

(* If the server notices a socket's end before the page connects again, the *)
(* page's only socket is the only one the server knows of.                  *)
Alone ==
    (~HalfOpen /\ rematches = 0) =>
        /\ \A r \in Rooms : game[r] # "solo"
        /\ \A r \in Rooms :
             seat[r] # None => /\ socket[seat[r]].joined = "yes" /\ socket[seat[r]].room = r
                               /\ socket[seat[r]].end \in {"open", "closing", "closed"}
        /\ \A s, t \in Sockets : socket[s].end # "unused" /\ t # s => socket[t].end = "unused"

(* Only a socket that opened has asked to join. *)
Asked == \A s \in Sockets : socket[s].end \in {"unused", "connecting"} => socket[s].joined = "no"

Typed == TypeOK /\ rematches \in Nat

IInv == Typed /\ Asked /\ OneLink /\ Alone

--------------------------------------------------------------------------------
(* Sockets. *)

LEMMA Records ==
    ASSUME NEW r \in SocketType
    PROVE  /\ \A e \in Ends : /\ [r EXCEPT !.end = e] \in SocketType
                              /\ [r EXCEPT !.end = e].end = e
                              /\ [r EXCEPT !.end = e].room = r.room
                              /\ [r EXCEPT !.end = e].joined = r.joined
           /\ \A j \in {"no", "asked", "yes"} : /\ [r EXCEPT !.joined = j] \in SocketType
                                                /\ [r EXCEPT !.joined = j].end = r.end
                                                /\ [r EXCEPT !.joined = j].room = r.room
                                                /\ [r EXCEPT !.joined = j].joined = j
BY DEF SocketType, Ends

LEMMA UnusedType == Unused \in SocketType /\ Unused.end = "unused" /\ Unused.joined = "no"
BY SessionAssumption DEF Unused, SocketType, Rooms

(* The end of a socket that the server knows of is still to be noticed. *)
LEMMA EndedFacts ==
    ASSUME TypeOK, NEW s \in Sockets
    PROVE  /\ Ended(s) \in SocketType /\ Ended(s).end \in {"unused", "closed"}
           /\ socket[s].joined # "no" =>
                /\ Ended(s).end = "closed" /\ Ended(s).joined = socket[s].joined
                /\ Ended(s).room = socket[s].room
           /\ socket[s].joined = "no" => Ended(s) = Unused
<1>1. socket[s] \in SocketType /\ "closed" \in Ends
  BY DEF TypeOK, Ends
<1>2. CASE socket[s].joined # "no"
  <2>1. Ended(s) = [socket[s] EXCEPT !.end = "closed"]
    BY <1>2 DEF Ended
  <2> QED
    BY <1>1, <1>2, <2>1 DEF SocketType
<1>3. CASE socket[s].joined = "no"
  BY <1>3, UnusedType DEF Ended
<1> QED
  BY <1>2, <1>3

LEMMA ClosingFacts ==
    ASSUME TypeOK
    PROVE  /\ ClosingCurrent \in [Sockets -> SocketType]
           /\ \A s \in Sockets :
                /\ ClosingCurrent[s].room = socket[s].room
                /\ ClosingCurrent[s].joined = socket[s].joined
                /\ ClosingCurrent[s].end = IF s = ws /\ Live(s) THEN "closing" ELSE socket[s].end
<1> SUFFICES ASSUME NEW s \in Sockets
             PROVE  /\ ClosingCurrent[s] \in SocketType
                    /\ ClosingCurrent[s].room = socket[s].room
                    /\ ClosingCurrent[s].joined = socket[s].joined
                    /\ ClosingCurrent[s].end = IF s = ws /\ Live(s) THEN "closing" ELSE socket[s].end
  BY DEF ClosingCurrent
<1>1. socket[s] \in SocketType /\ "closing" \in Ends
  BY DEF TypeOK, Ends
<1>2. CASE s = ws /\ Live(s)
  <2>1. ClosingCurrent[s] = [socket[s] EXCEPT !.end = "closing"]
    BY <1>2 DEF ClosingCurrent
  <2> QED
    BY <1>1, <1>2, <2>1 DEF SocketType
<1>3. CASE ~(s = ws /\ Live(s))
  <2>1. ClosingCurrent[s] = socket[s]
    BY <1>3 DEF ClosingCurrent
  <2> QED
    BY <1>1, <1>3, <2>1
<1> QED
  BY <1>2, <1>3

(* A new socket, in place of an unused one. *)
LEMMA ConnectsFacts ==
    ASSUME NEW ss \in [Sockets -> SocketType], NEW r \in Rooms, Connects(ss, r)
    PROVE  /\ socket' \in [Sockets -> SocketType]
           /\ ws' \in Sockets /\ intentional' = FALSE
           /\ ss[ws'].end = "unused"
           /\ socket'[ws'].end = "connecting" /\ socket'[ws'].joined = "no"
           /\ \A t \in Sockets : t # ws' => socket'[t] = ss[t]
<1>1. PICK s \in Sockets :
        /\ ss[s].end = "unused"
        /\ socket' = [ss EXCEPT ![s] = [end |-> "connecting", room |-> r, joined |-> "no"]]
        /\ ws' = s
        /\ intentional' = FALSE
  BY DEF Connects
<1>2. [end |-> "connecting", room |-> r, joined |-> "no"] \in SocketType
  BY DEF SocketType
<1> QED
  BY <1>1, <1>2

(* One socket's record is replaced. *)
LEMMA SocketUpdate ==
    ASSUME TypeOK, NEW s \in Sockets, NEW r \in SocketType, socket' = [socket EXCEPT ![s] = r]
    PROVE  /\ socket' \in [Sockets -> SocketType] /\ socket'[s] = r
           /\ \A t \in Sockets : t # s => socket'[t] = socket[t]
BY DEF TypeOK

LEMMA PageGoesFacts ==
    ASSUME TypeOK, PageGoes
    PROVE  /\ socket' \in [Sockets -> SocketType]
           /\ \A s \in Sockets : socket'[s] = Ended(s)
           /\ ws' = None /\ connected' = FALSE /\ attempts' \in 0 .. MaxAttempts
           /\ intentional' = FALSE /\ retries' = 0
           /\ scene' = "loading" /\ awaited' = {} /\ room' \in Rooms
<1>1. /\ socket' \in [Sockets -> SocketType]
      /\ \A s \in Sockets : socket'[s] = Ended(s)
  BY EndedFacts DEF PageGoes
<1>2. 0 \in 0 .. MaxAttempts /\ 0 \in Rooms /\ room \in Rooms
  BY SessionAssumption DEF Rooms, TypeOK
<1> QED
  BY <1>1, <1>2 DEF PageGoes

LEMMA PageGoesTypes ==
    ASSUME Typed, PageGoes, UNCHANGED <<server, rematches>>
    PROVE  Typed'
<1>1. TypeOK /\ rematches \in Nat
  BY DEF Typed
<1>2. /\ socket' \in [Sockets -> SocketType] /\ attempts' \in 0 .. MaxAttempts
      /\ ws' = None /\ connected' = FALSE /\ intentional' = FALSE /\ retries' = 0
      /\ scene' = "loading" /\ awaited' = {} /\ room' \in Rooms
  BY <1>1, PageGoesFacts
<1>3. /\ seat' \in [Rooms -> Sockets \cup {None}] /\ game' \in [Rooms -> {"none", "pair", "solo"}]
      /\ opponent' \in BOOLEAN /\ rematches' \in Nat
  BY <1>1 DEF server, TypeOK
<1> QED
  BY <1>2, <1>3 DEF Typed, TypeOK

--------------------------------------------------------------------------------
(* Types. *)

LEMMA InitInvariant == Init => IInv
<1> SUFFICES ASSUME Init PROVE IInv
  OBVIOUS
<1>1. 0 \in Rooms /\ 0 \in 0 .. MaxAttempts
  BY SessionAssumption DEF Rooms
<1>2. socket \in [Sockets -> SocketType] /\ \A s \in Sockets : socket[s].end = "unused"
  BY UnusedType DEF Init
<1>3. TypeOK
  BY <1>1, <1>2 DEF Init, TypeOK
<1>4. OneLink
  BY <1>2 DEF Init, OneLink, Live
<1>5. Alone
  BY <1>2 DEF Init, Alone, Live
<1>6. Asked
  BY DEF Init, Asked, Unused
<1> QED
  BY <1>3, <1>4, <1>5, <1>6 DEF Init, IInv, Typed

LEMMA OnCloseTypes ==
    ASSUME TypeOK, OnClose
    PROVE  /\ attempts' \in 0 .. MaxAttempts /\ retries' \in Nat
           /\ ~connected' /\ UNCHANGED <<ws, intentional>>
<1>1. attempts \in 0 .. MaxAttempts /\ retries \in Nat /\ MaxAttempts \in Nat
  BY SessionAssumption DEF TypeOK
<1>2. attempts' \in {attempts, attempts + 1} /\ (attempts' = attempts \/ attempts < MaxAttempts)
  BY DEF OnClose
<1>3. retries' \in {retries, retries + 1}
  BY DEF OnClose
<1> QED
  BY <1>1, <1>2, <1>3 DEF OnClose

LEMMA ClientTypes ==
    ASSUME Typed, NEW s \in Sockets,
           Opens(s) \/ Fails(s) \/ IsLost(s) \/ HasClosed(s)
    PROVE  Typed'
<1> USE DEF Typed, client, page, server, bounds
<1>1. socket[s] \in SocketType /\ 0 \in Rooms /\ 0 \in 0 .. MaxAttempts
  BY SessionAssumption DEF TypeOK, Rooms
<1>2. Ended(s) \in SocketType /\ Unused \in SocketType
  BY EndedFacts, UnusedType
<1>3. CASE Opens(s)
  <2> DEFINE joined == IF Asks(s) THEN "asked" ELSE "no"
  <2>1. [socket[s] EXCEPT !.end = "open"] \in SocketType
    BY <1>1, Records DEF Ends
  <2>2. [[socket[s] EXCEPT !.end = "open"] EXCEPT !.joined = joined] \in SocketType
    BY <2>1, Records
  <2>3. socket' = [socket EXCEPT ![s] = [[socket[s] EXCEPT !.end = "open"] EXCEPT !.joined = joined]]
    BY <1>3 DEF Opens, TypeOK, SocketType
  <2>4. socket' \in [Sockets -> SocketType]
    BY <2>2, <2>3, SocketUpdate
  <2>5. /\ scene' \in {"loading", "boot", "starting", "waiting", "game", "result"}
        /\ awaited' \subseteq Sockets /\ connected' \in BOOLEAN /\ attempts' \in 0 .. MaxAttempts
    BY <1>1, <1>3 DEF Opens, TypeOK
  <2>6. UNCHANGED <<ws, intentional, retries, room, server, bounds>>
    BY <1>3 DEF Opens
  <2> QED
    BY <2>4, <2>5, <2>6 DEF TypeOK
<1>4. CASE IsLost(s)
  <2>1. socket' \in [Sockets -> SocketType]
    BY <1>2, <1>4, SocketUpdate DEF IsLost
  <2>2. /\ attempts' \in 0 .. MaxAttempts /\ retries' \in Nat
        /\ ~connected' /\ UNCHANGED <<ws, intentional>>
    BY <1>4, OnCloseTypes DEF IsLost
  <2>3. UNCHANGED <<page, server, rematches>> /\ connected' = FALSE
    BY <1>4 DEF IsLost, OnClose
  <2> QED
    BY <2>1, <2>2, <2>3 DEF TypeOK
<1>5. ASSUME PageGoes, UNCHANGED <<server, rematches>>
      PROVE  Typed'
  BY <1>5, PageGoesTypes
<1>6. ASSUME NEW r \in {Unused, Ended(s)}, socket' = [socket EXCEPT ![s] = r],
             awaited' = awaited \ {s}, OnClose, UNCHANGED <<scene, room, server, rematches>>
      PROVE  Typed'
  <2>1. socket' \in [Sockets -> SocketType]
    BY <1>2, <1>6, SocketUpdate
  <2>2. /\ attempts' \in 0 .. MaxAttempts /\ retries' \in Nat
        /\ UNCHANGED <<ws, intentional>> /\ connected' = FALSE
    BY <1>6, OnCloseTypes DEF OnClose
  <2> QED
    BY <1>6, <2>1, <2>2 DEF TypeOK
<1>7. CASE Fails(s)
  BY <1>5, <1>6, <1>7 DEF Fails
<1>8. CASE HasClosed(s)
  BY <1>5, <1>6, <1>8 DEF HasClosed
<1> QED
  BY <1>3, <1>4, <1>7, <1>8

LEMMA SceneTypes ==
    ASSUME Typed,
           \/ Retries \/ Boots \/ CreatesWaiting \/ FindsGameOver
           \/ PlaysAgain \/ Exits \/ Reloads
    PROVE  Typed'
<1> USE DEF Typed, client, page, server, bounds
<1>1. socket \in [Sockets -> SocketType] /\ room \in Rooms /\ 0 \in Rooms
  BY SessionAssumption DEF TypeOK, Rooms
<1>2. CASE Retries
  <2>1. /\ socket' \in [Sockets -> SocketType] /\ ws' \in Sockets /\ intentional' = FALSE
    BY <1>1, <1>2, ConnectsFacts DEF Retries
  <2>2. retries \in Nat /\ retries > 0 /\ retries' = retries - 1
    BY <1>2 DEF Retries, TypeOK
  <2>3. retries' \in Nat
    BY <2>2
  <2>4. UNCHANGED <<connected, attempts, page, server, bounds>>
    BY <1>2 DEF Retries
  <2> QED
    BY <2>1, <2>3, <2>4 DEF TypeOK
<1>3. CASE Boots
  <2>1. /\ socket' \in [Sockets -> SocketType] /\ ws' \in Sockets /\ intentional' = FALSE
    BY <1>1, <1>3, ConnectsFacts DEF Boots
  <2>2. /\ scene' = "boot" /\ awaited' = {ws'}
        /\ UNCHANGED <<connected, attempts, retries, room, server, bounds>>
    BY <1>3 DEF Boots
  <2> QED
    BY <2>1, <2>2 DEF TypeOK
<1>4. CASE CreatesWaiting \/ FindsGameOver
  BY <1>4 DEF CreatesWaiting, FindsGameOver, TypeOK
<1>5. CASE PlaysAgain
  <2>1. rematches' = rematches + 1 /\ rematches < MaxRematches /\ room' = rematches + 1
    BY <1>5 DEF PlaysAgain
  <2>2. room' \in Rooms /\ rematches' \in Nat
    BY <2>1, SessionAssumption DEF Rooms
  <2>3. Connects(ClosingCurrent, room')
    BY <1>5 DEF PlaysAgain
  <2>4. /\ socket' \in [Sockets -> SocketType] /\ ws' \in Sockets /\ intentional' = FALSE
    BY <2>2, <2>3, ClosingFacts, ConnectsFacts
  <2>5. /\ connected' = FALSE /\ awaited' = awaited \cup {ws'}
        /\ UNCHANGED <<attempts, retries, scene, server>>
    BY <1>5 DEF PlaysAgain
  <2> QED
    BY <2>2, <2>4, <2>5 DEF TypeOK
<1>6. CASE Exits
  <2>1. socket' \in [Sockets -> SocketType]
    BY <1>6, ClosingFacts DEF Exits, Disconnects
  <2>2. /\ intentional' = TRUE /\ ws' = None /\ connected' = FALSE
        /\ UNCHANGED <<attempts, retries, page, server, bounds>>
    BY <1>6 DEF Exits, Disconnects
  <2> QED
    BY <2>1, <2>2 DEF TypeOK
<1>7. CASE Reloads
  BY <1>7, PageGoesTypes DEF Reloads
<1> QED
  BY <1>2, <1>3, <1>4, <1>5, <1>6, <1>7

LEMMA AfterTypes ==
    ASSUME TypeOK, NEW s, NEW message, Sends(s, message)
    PROVE  /\ scene' \in {"loading", "boot", "starting", "waiting", "game", "result"}
           /\ scene' = "loading" => scene = "loading"
BY DEF Sends, After, TypeOK

LEMMA ServerTypes ==
    ASSUME Typed, Serves \/ OpponentComes \/ OpponentLeaves \/ \E r \in Rooms : GameEnds(r)
    PROVE  Typed'
<1> USE DEF Typed, client, page, server, bounds
<1>1. 0 \in Rooms /\ socket \in [Sockets -> SocketType]
  BY SessionAssumption DEF TypeOK, Rooms
<1>2. ASSUME NEW s \in Sockets, Joins(s)
      PROVE  Typed'
  <2>1. [socket[s] EXCEPT !.joined = "yes"] \in SocketType
    BY <1>1, Records
  <2>2. socket' = [socket EXCEPT ![s] = [socket[s] EXCEPT !.joined = "yes"]]
    BY <1>1, <1>2 DEF Joins
  <2>3. socket' \in [Sockets -> SocketType]
    BY <2>1, <2>2, SocketUpdate
  <2>4. seat' \in [Rooms -> Sockets \cup {None}] /\ game' \in [Rooms -> {"none", "pair", "solo"}]
    BY <1>2 DEF Joins, TypeOK
  <2>5. scene' \in {"loading", "boot", "starting", "waiting", "game", "result"}
    BY <1>2, AfterTypes DEF Joins
  <2>6. UNCHANGED <<client, awaited, room, opponent, bounds>>
    BY <1>2 DEF Joins
  <2> QED
    BY <2>3, <2>4, <2>5, <2>6 DEF TypeOK
<1>3. ASSUME NEW s \in Sockets, Notices(s)
      PROVE  Typed'
  <2>1. socket' \in [Sockets -> SocketType]
    BY <1>3, UnusedType, SocketUpdate DEF Notices
  <2>2. seat' \in [Rooms -> Sockets \cup {None}]
    BY <1>3 DEF Notices, TypeOK
  <2>3. UNCHANGED <<client, page, game, opponent, bounds>>
    BY <1>3 DEF Notices
  <2> QED
    BY <2>1, <2>2, <2>3 DEF TypeOK
<1>4. CASE OpponentComes
  <2>1. scene' \in {"loading", "boot", "starting", "waiting", "game", "result"}
    BY <1>4, AfterTypes DEF OpponentComes, TypeOK
  <2>2. game' \in [Rooms -> {"none", "pair", "solo"}]
    BY <1>4 DEF OpponentComes, TypeOK
  <2>3. opponent' = TRUE /\ UNCHANGED <<socket, client, awaited, room, seat, bounds>>
    BY <1>4 DEF OpponentComes
  <2> QED
    BY <2>1, <2>2, <2>3 DEF TypeOK
<1>5. CASE OpponentLeaves
  BY <1>5 DEF OpponentLeaves, TypeOK
<1>6. ASSUME NEW r \in Rooms, GameEnds(r)
      PROVE  Typed'
  <2>1. scene' \in {"loading", "boot", "starting", "waiting", "game", "result"}
    BY <1>6, AfterTypes DEF GameEnds
  <2>2. game' \in [Rooms -> {"none", "pair", "solo"}]
    BY <1>6 DEF GameEnds, TypeOK
  <2>3. UNCHANGED <<socket, client, awaited, room, seat, opponent, bounds>>
    BY <1>6 DEF GameEnds
  <2> QED
    BY <2>1, <2>2, <2>3 DEF TypeOK
<1> QED
  BY <1>2, <1>3, <1>4, <1>5, <1>6 DEF Serves

LEMMA NextTyped == Typed /\ [Next]_vars => Typed'
<1> SUFFICES ASSUME Typed, [Next]_vars PROVE Typed'
  OBVIOUS
<1>1. CASE UNCHANGED vars
  BY <1>1 DEF vars, Typed, TypeOK, client, page, server, bounds
<1> QED
  BY <1>1, ClientTypes, SceneTypes, ServerTypes DEF Next, Connecting

--------------------------------------------------------------------------------
(* One connection. *)

(* The page is gone: nothing is under way. *)
LEMMA PageGoesLink ==
    ASSUME TypeOK, PageGoes
    PROVE  OneLink'
<1>1. \A s \in Sockets : socket'[s].end \in {"unused", "closed"}
  BY PageGoesFacts, EndedFacts
<1>2. retries' = 0 /\ ws' = None /\ connected' = FALSE
  BY DEF PageGoes
<1> QED
  BY <1>1, <1>2 DEF OneLink, Live

(* A socket that was live or closing ends, and may be followed by a timer. *)
LEMMA EndsLink ==
    ASSUME TypeOK, OneLink, rematches = 0, NEW s \in Sockets, NEW r \in {Unused, Ended(s)},
           socket[s].end \in {"connecting", "open", "closing"},
           socket' = [socket EXCEPT ![s] = r], OnClose, UNCHANGED scene
    PROVE  OneLink'
<1>1. r \in SocketType /\ r.end \in {"unused", "closed"}
  BY EndedFacts, UnusedType
<1>2. /\ socket'[s].end \in {"unused", "closed"}
      /\ \A t \in Sockets : t # s => socket'[t] = socket[t]
  BY <1>1, SocketUpdate
<1>3. connected' = FALSE /\ UNCHANGED <<ws, intentional>>
  BY DEF OnClose
<1>4. retries = 0 /\ scene # "loading"
  BY DEF OneLink, Live
<1>5. retries' \in {0, 1} /\ (retries' = 1 => ~intentional)
  BY <1>4 DEF OnClose
<1>6. ASSUME NEW t \in Sockets, socket'[t].end \in {"connecting", "open", "closing"}
      PROVE  /\ Live(t)' => ws' = t /\ FALSE
             /\ socket'[t].end = "closing" /\ ws' = None /\ intentional' /\ retries' = 0
  <2>1. t # s /\ socket'[t] = socket[t]
    BY <1>2, <1>6
  <2>2. Live(s) => ws = s
    BY DEF OneLink
  <2>3. Live(t) => ws = t
    BY DEF OneLink
  <2>4. socket[s].end = "closing" => ws = None
    BY DEF OneLink
  <2>5. socket[t].end = "closing" => ws = None /\ intentional
    BY DEF OneLink
  <2>6. s # None /\ t # None
    BY SessionAssumption DEF Sockets, None
  <2>7. ~Live(t)
    BY <2>1, <2>2, <2>3, <2>4, <2>6 DEF Live
  <2>8. socket[t].end = "closing"
    BY <1>6, <2>1, <2>7 DEF Live
  <2> QED
    BY <1>3, <1>5, <2>1, <2>5, <2>8 DEF Live
<1>7. ws' # None => socket'[ws'].end # "open"
  <2>1. ws \in Sockets \cup {None}
    BY DEF TypeOK
  <2> QED
    BY <1>3, <1>6, <2>1 DEF Live
<1> QED
  BY <1>3, <1>4, <1>5, <1>6, <1>7 DEF OneLink, Live

(* The page connects when nothing is under way. *)
LEMMA ConnectsLink ==
    ASSUME TypeOK, OneLink, rematches = 0, Connects(socket, room), connected' = connected,
           \A s \in Sockets : socket[s].end \notin {"connecting", "open", "closing"},
           retries' = 0, scene' # "loading"
    PROVE  OneLink'
<1>1. room \in Rooms /\ socket \in [Sockets -> SocketType] /\ ws \in Sockets \cup {None}
  BY DEF TypeOK
<1>2. /\ ws' \in Sockets /\ socket'[ws'].end = "connecting"
      /\ \A t \in Sockets : t # ws' => socket'[t] = socket[t]
  BY <1>1, ConnectsFacts
<1>3. ~connected
  BY <1>1 DEF OneLink
<1>4. \A t \in Sockets : socket'[t].end \in {"connecting", "open", "closing"} => t = ws'
  BY <1>2
<1> QED
  BY <1>2, <1>3, <1>4 DEF OneLink, Live

(* Whatever a scene or the server does leaves sockets and client as they are. *)
LEMMA LinkStays ==
    ASSUME TypeOK, OneLink, \A s \in Sockets : socket'[s].end = socket[s].end \/
                              (socket[s].end = "closed" /\ socket'[s].end = "unused"),
           UNCHANGED client, rematches' = rematches, scene' = "loading" => scene = "loading"
    PROVE  OneLink'
<1>1. ws \in Sockets \cup {None} /\ UNCHANGED <<ws, connected, intentional, retries>>
  BY DEF TypeOK, client
<1>2. \A s \in Sockets : (Live(s)' <=> Live(s)) /\ (socket'[s].end = "closing" <=> socket[s].end = "closing")
                         /\ (socket'[s].end = "open" <=> socket[s].end = "open")
  BY DEF Live
<1> QED
  BY <1>1, <1>2 DEF OneLink

LEMMA NextOneLink == Typed /\ OneLink /\ [Next]_vars => OneLink'
<1> SUFFICES ASSUME Typed, OneLink, [Next]_vars, rematches' = 0 PROVE OneLink'
  BY DEF OneLink
<1>1. TypeOK /\ rematches \in Nat
  BY DEF Typed
<1>2. CASE PlaysAgain
  <2>1. rematches' = rematches + 1
    BY <1>2 DEF PlaysAgain
  <2> QED
    BY <1>1, <2>1
<1> USE DEF page, server, bounds
<1>3. ASSUME ~PlaysAgain
      PROVE  rematches = 0
  BY <1>3 DEF Next, Connecting, Opens, Fails, IsLost, HasClosed, Retries, Serves, Joins, Notices, Boots,
              CreatesWaiting, FindsGameOver, Exits, Reloads, OpponentComes, OpponentLeaves, GameEnds, vars
<1> SUFFICES ASSUME ~PlaysAgain PROVE OneLink'
  BY <1>2
<1>4. rematches = 0
  BY <1>3
<1>5. ASSUME NEW s \in Sockets, Opens(s)
      PROVE  OneLink'
  <2>1. ws = s /\ retries = 0 /\ scene # "loading" /\ Live(s)
    BY <1>4, <1>5 DEF Opens, Live, OneLink
  <2>2. /\ socket'[s].end = "open"
        /\ \A t \in Sockets : t # s => socket'[t] = socket[t]
    BY <1>1, <1>5 DEF Opens, TypeOK, SocketType
  <2>3. connected' = TRUE /\ UNCHANGED <<ws, intentional, retries>> /\ scene' # "loading"
    BY <1>5, <2>1 DEF Opens
  <2>4. s # None
    BY SessionAssumption DEF Sockets, None
  <2>5. \A t \in Sockets : t # s => socket'[t].end \notin {"connecting", "open", "closing"}
    BY <1>4, <2>1, <2>2, <2>4 DEF OneLink, Live
  <2> QED
    BY <2>1, <2>2, <2>3, <2>4, <2>5 DEF OneLink, Live
<1>6. ASSUME NEW s \in Sockets, Fails(s) \/ IsLost(s) \/ HasClosed(s)
      PROVE  OneLink'
  <2>1. CASE PageGoes
    BY <1>1, <2>1, PageGoesLink
  <2>2. CASE ~PageGoes
    <3>1. PICK r \in {Unused, Ended(s)} :
            /\ socket[s].end \in {"connecting", "open", "closing"}
            /\ socket' = [socket EXCEPT ![s] = r] /\ OnClose /\ UNCHANGED scene
      BY <1>6, <2>2 DEF Fails, IsLost, HasClosed
    <3> QED
      BY <1>1, <1>4, <3>1, EndsLink
  <2> QED
    BY <2>1, <2>2
<1>7. CASE Reloads
  BY <1>1, <1>7, PageGoesLink DEF Reloads
<1>8. CASE Retries
  <2>1. retries = 1 /\ retries' = 0
    BY <1>4, <1>8 DEF Retries, OneLink
  <2>2. \A s \in Sockets : socket[s].end \notin {"connecting", "open", "closing"}
    BY <1>4, <2>1 DEF OneLink, Live
  <2>3. scene' # "loading" /\ connected' = connected /\ Connects(socket, room)
    BY <1>4, <1>8, <2>1 DEF Retries, OneLink
  <2> QED
    BY <1>1, <1>4, <2>1, <2>2, <2>3, ConnectsLink
<1>9. CASE Boots
  <2>1. retries' = retries /\ scene = "loading"
    BY <1>9 DEF Boots
  <2>2. retries = 0 /\ \A s \in Sockets : socket[s].end \notin {"connecting", "open", "closing"}
    BY <1>4, <2>1 DEF OneLink, Live
  <2>3. scene' # "loading" /\ connected' = connected /\ Connects(socket, room)
    BY <1>9 DEF Boots
  <2> QED
    BY <1>1, <1>4, <2>1, <2>2, <2>3, ConnectsLink
<1>10. CASE Exits
  <2>1. /\ ws' = None /\ intentional' = TRUE /\ connected' = FALSE
        /\ retries' = retries /\ scene' = scene /\ scene # "loading"
        /\ socket' = ClosingCurrent
    BY <1>10 DEF Exits, Disconnects
  <2>2. \A s \in Sockets : ~Live(s)'
    BY <1>1, <1>4, <2>1, ClosingFacts DEF OneLink, Live
  <2>3. \A s \in Sockets : socket'[s].end = "closing" => retries = 0
    BY <1>1, <1>4, <2>1, ClosingFacts DEF OneLink
  <2> QED
    BY <1>4, <2>1, <2>2, <2>3 DEF OneLink
<1>11. ASSUME NEW s \in Sockets, Joins(s)
       PROVE  OneLink'
  <2>1. \A t \in Sockets : socket'[t].end = socket[t].end
    BY <1>1, <1>11 DEF Joins, TypeOK, SocketType
  <2>2. scene' = "loading" => scene = "loading"
    BY <1>1, <1>11, AfterTypes DEF Joins
  <2>3. UNCHANGED <<client, rematches>>
    BY <1>11 DEF Joins
  <2> QED
    BY <1>1, <2>1, <2>2, <2>3, LinkStays
<1>12. ASSUME NEW s \in Sockets, Notices(s)
       PROVE  OneLink'
  <2>1. /\ socket[s].end = "closed" /\ socket'[s].end = "unused"
        /\ \A t \in Sockets : t # s => socket'[t] = socket[t]
    BY <1>1, <1>12, UnusedType, SocketUpdate DEF Notices
  <2>2. UNCHANGED <<client, rematches, scene>>
    BY <1>12 DEF Notices
  <2> QED
    BY <1>1, <2>1, <2>2, LinkStays
<1>13. CASE OpponentComes \/ OpponentLeaves \/ \E r \in Rooms : GameEnds(r)
  <2>1. UNCHANGED <<socket, client, rematches>>
    BY <1>13 DEF OpponentComes, OpponentLeaves, GameEnds
  <2>2. scene' = "loading" => scene = "loading"
    BY <1>1, <1>13, AfterTypes DEF OpponentComes, OpponentLeaves, GameEnds
  <2> QED
    BY <1>1, <2>1, <2>2, LinkStays
<1>14. CASE CreatesWaiting \/ FindsGameOver \/ UNCHANGED vars
  <2>1. UNCHANGED <<socket, client, rematches>> /\ (scene' = "loading" => scene = "loading")
    BY <1>14 DEF CreatesWaiting, FindsGameOver, vars
  <2> QED
    BY <1>1, <2>1, LinkStays
<1> QED
  BY <1>5, <1>6, <1>7, <1>8, <1>9, <1>10, <1>11, <1>12, <1>13, <1>14 DEF Next, Connecting, Serves

--------------------------------------------------------------------------------
(* Nobody asks before the socket is open. *)

LEMMA NextAsked == Typed /\ Asked /\ [Next]_vars => Asked'
<1> SUFFICES ASSUME Typed, Asked, [Next]_vars PROVE Asked'
  OBVIOUS
<1>1. TypeOK
  BY DEF Typed
<1>2. \A s \in Sockets : socket[s] \in SocketType
  BY <1>1 DEF TypeOK
<1>3. ASSUME NEW s \in Sockets, NEW r \in SocketType, socket' = [socket EXCEPT ![s] = r],
             r.end \in {"unused", "connecting"} => r.joined = "no"
      PROVE  Asked'
  BY <1>1, <1>3, SocketUpdate DEF Asked
<1>4. ASSUME NEW ss \in [Sockets -> SocketType], NEW r \in Rooms, Connects(ss, r),
             \A s \in Sockets : ss[s].end \in {"unused", "connecting"} => ss[s].joined = "no"
      PROVE  Asked'
  BY <1>4, ConnectsFacts DEF Asked
<1>5. ASSUME NEW s \in Sockets
      PROVE  /\ Ended(s) \in SocketType
             /\ Ended(s).end \in {"unused", "connecting"} => Ended(s).joined = "no"
  BY <1>1, EndedFacts, UnusedType
<1>6. CASE PageGoes
  BY <1>1, <1>5, <1>6, PageGoesFacts DEF Asked
<1>7. ASSUME NEW s \in Sockets, Opens(s)
      PROVE  Asked'
  <2>1. /\ socket'[s].end = "open"
        /\ \A t \in Sockets : t # s => socket'[t] = socket[t]
    BY <1>1, <1>7 DEF Opens, TypeOK, SocketType
  <2> QED
    BY <2>1 DEF Asked
<1>8. ASSUME NEW s \in Sockets, Fails(s) \/ IsLost(s) \/ HasClosed(s), ~PageGoes
      PROVE  Asked'
  <2>1. PICK r \in {Unused, Ended(s)} : socket' = [socket EXCEPT ![s] = r]
    BY <1>8 DEF Fails, IsLost, HasClosed
  <2> QED
    BY <1>3, <1>5, <2>1, UnusedType
<1>9. ASSUME NEW s \in Sockets, Joins(s)
      PROVE  Asked'
  <2>1. socket' = [socket EXCEPT ![s] = [socket[s] EXCEPT !.joined = "yes"]] /\ socket[s].joined = "asked"
    BY <1>9 DEF Joins
  <2>2. socket[s].end \notin {"unused", "connecting"}
    BY <2>1 DEF Asked
  <2> QED
    BY <1>2, <1>3, <2>1, <2>2, Records
<1>10. ASSUME NEW s \in Sockets, Notices(s)
       PROVE  Asked'
  BY <1>3, <1>10, UnusedType DEF Notices
<1>11. CASE Retries \/ Boots
  <2>1. Connects(socket, room) /\ room \in Rooms /\ socket \in [Sockets -> SocketType]
    BY <1>1, <1>11 DEF Retries, Boots, TypeOK
  <2> QED
    BY <1>4, <2>1 DEF Asked
<1>12. /\ ClosingCurrent \in [Sockets -> SocketType]
       /\ \A s \in Sockets : ClosingCurrent[s].end \in {"unused", "connecting"} =>
                                ClosingCurrent[s].joined = "no"
  BY <1>1, ClosingFacts DEF Asked
<1>13. CASE PlaysAgain
  <2>1. Connects(ClosingCurrent, room') /\ room' \in Rooms
    BY <1>13, NextTyped DEF PlaysAgain, Typed, TypeOK
  <2> QED
    BY <1>4, <1>12, <2>1
<1>14. CASE Exits
  <2>1. socket' = ClosingCurrent
    BY <1>14 DEF Exits, Disconnects
  <2> QED
    BY <1>12, <2>1 DEF Asked
<1>15. CASE \/ CreatesWaiting \/ FindsGameOver \/ OpponentComes \/ OpponentLeaves
            \/ (\E r \in Rooms : GameEnds(r)) \/ UNCHANGED vars
  <2>1. socket' = socket
    BY <1>15 DEF CreatesWaiting, FindsGameOver, OpponentComes, OpponentLeaves, GameEnds, vars
  <2> QED
    BY <2>1 DEF Asked
<1>16. CASE Reloads
  BY <1>6, <1>16 DEF Reloads
<1> QED
  BY <1>6, <1>7, <1>8, <1>9, <1>10, <1>11, <1>13, <1>14, <1>15, <1>16 DEF Next, Connecting, Serves

--------------------------------------------------------------------------------
(* Nobody plays alone. *)

(* Alone speaks of these parts of the state only. *)
LEMMA AloneStays ==
    ASSUME TypeOK, Alone, rematches' = rematches,
           \A s \in Sockets :
             /\ Live(s)' => Live(s)
             /\ socket[s].end = "unused" => socket'[s].end = "unused"
             /\ socket[s].joined = "yes" /\ socket[s].end \in {"open", "closing", "closed"} =>
                  /\ socket'[s].joined = "yes" /\ socket'[s].room = socket[s].room
                  /\ socket'[s].end \in {"open", "closing", "closed"},
           seat' = seat, \A r \in Rooms : game'[r] = "solo" => game[r] = "solo"
    PROVE  Alone'
<1>1. \A r \in Rooms : seat[r] \in Sockets \cup {None}
  BY DEF TypeOK
<1> QED
  BY <1>1 DEF Alone

LEMMA PageGoesAlone ==
    ASSUME TypeOK, Asked, Alone, PageGoes, UNCHANGED <<server, rematches>>
    PROVE  Alone'
<1>1. ASSUME NEW s \in Sockets
      PROVE  /\ socket'[s].end \in {"unused", "closed"}
             /\ socket[s].joined = "yes" => /\ socket'[s].joined = "yes" /\ socket'[s].room = socket[s].room
                                            /\ socket'[s].end = "closed"
             /\ socket[s].end = "unused" => socket'[s].end = "unused"
  BY PageGoesFacts, EndedFacts, UnusedType DEF Asked
<1>2. \A s \in Sockets : ~Live(s)'
  BY <1>1 DEF Live
<1>3. \A r \in Rooms : seat[r] \in Sockets \cup {None}
  BY DEF TypeOK
<1> QED
  BY <1>1, <1>2, <1>3 DEF Alone, server

(* A live or closing socket ends; the server has yet to notice if it had joined. *)
LEMMA EndsAlone ==
    ASSUME TypeOK, Alone, NEW s \in Sockets, NEW r \in {Unused, Ended(s)},
           r = Unused => socket[s].end = "connecting" \/ socket[s].joined # "yes",
           socket[s].end # "unused",
           socket' = [socket EXCEPT ![s] = r], UNCHANGED <<server, rematches>>
    PROVE  Alone'
<1>1. r \in SocketType /\ r.end \in {"unused", "closed"}
  BY EndedFacts, UnusedType
<1>2. socket'[s] = r /\ \A t \in Sockets : t # s => socket'[t] = socket[t]
  BY <1>1, SocketUpdate
<1>3. socket[s].joined = "yes" /\ socket[s].end # "connecting" =>
        r.end = "closed" /\ r.joined = "yes" /\ r.room = socket[s].room
  BY EndedFacts
<1>4. ASSUME NEW t \in Sockets
      PROVE  /\ Live(t)' => Live(t)
             /\ socket[t].end = "unused" => socket'[t].end = "unused"
             /\ socket[t].joined = "yes" /\ socket[t].end \in {"open", "closing", "closed"} =>
                  /\ socket'[t].joined = "yes" /\ socket'[t].room = socket[t].room
                  /\ socket'[t].end \in {"open", "closing", "closed"}
  BY <1>1, <1>2, <1>3 DEF Live
<1> QED
  BY <1>4, AloneStays DEF server

(* The page connects once the server has noticed its last socket's end. *)
LEMMA ConnectsAlone ==
    ASSUME TypeOK, Alone, Connects(socket, room), HalfOpen \/ Noticed,
           \A s \in Sockets : ~Live(s), UNCHANGED <<server, rematches>>
    PROVE  Alone'
<1> SUFFICES ASSUME ~HalfOpen, rematches = 0 PROVE Alone'
  BY DEF Alone
<1>1. room \in Rooms /\ socket \in [Sockets -> SocketType]
  BY DEF TypeOK
<1>2. \A t \in Sockets : socket[t].end = "unused"
  BY <1>1 DEF Noticed, Live, SocketType
<1>3. \A t \in Sockets : t # ws' => socket'[t].end = "unused"
  BY <1>1, <1>2, ConnectsFacts
<1>4. \A r \in Rooms : seat[r] \in Sockets \cup {None}
  BY DEF TypeOK
<1>5. \A r \in Rooms : seat[r] = None
  BY <1>2, <1>4 DEF Alone
<1>6. \A s, t \in Sockets : socket'[s].end # "unused" /\ t # s => socket'[t].end = "unused"
  BY <1>3
<1> QED
  BY <1>5, <1>6 DEF Alone, server

LEMMA NextAlone == Typed /\ Asked /\ OneLink /\ Alone /\ [Next]_vars => Alone'
<1> SUFFICES ASSUME Typed, Asked, OneLink, Alone, [Next]_vars, ~HalfOpen, rematches' = 0 PROVE Alone'
  BY DEF Alone
<1>1. TypeOK /\ rematches \in Nat
  BY DEF Typed
<1>2. CASE PlaysAgain
  <2>1. rematches' = rematches + 1
    BY <1>2 DEF PlaysAgain
  <2> QED
    BY <1>1, <2>1
<1> USE DEF page, bounds
<1> SUFFICES ASSUME ~PlaysAgain PROVE Alone'
  BY <1>2
<1>3. rematches' = rematches
  BY DEF Next, Connecting, Opens, Fails, IsLost, HasClosed, Retries, Serves, Joins, Notices, Boots,
         CreatesWaiting, FindsGameOver, Exits, Reloads, OpponentComes, OpponentLeaves, GameEnds, vars
<1>4. rematches = 0
  BY <1>3
<1>5. ASSUME NEW s \in Sockets, Opens(s)
      PROVE  Alone'
  <2>1. /\ socket'[s].end = "open" /\ socket[s].end = "connecting"
        /\ \A t \in Sockets : t # s => socket'[t] = socket[t]
    BY <1>1, <1>5 DEF Opens, TypeOK, SocketType
  <2>2. UNCHANGED server
    BY <1>5 DEF Opens
  <2> QED
    BY <1>1, <1>3, <2>1, <2>2, AloneStays DEF Live, server
<1>6. ASSUME NEW s \in Sockets, Fails(s) \/ IsLost(s) \/ HasClosed(s)
      PROVE  Alone'
  <2>1. UNCHANGED server
    BY <1>6 DEF Fails, IsLost, HasClosed
  <2>2. CASE PageGoes
    BY <1>1, <1>3, <2>1, <2>2, PageGoesAlone
  <2>3. CASE ~PageGoes
    <3>1. PICK r \in {Unused, Ended(s)} :
            /\ socket[s].end # "unused"
            /\ r = Unused => socket[s].end = "connecting" \/ socket[s].joined # "yes"
            /\ socket' = [socket EXCEPT ![s] = r]
      <4>1. CASE Fails(s)
        BY <2>3, <4>1 DEF Fails
      <4>2. CASE IsLost(s) \/ HasClosed(s)
        <5>1. /\ socket[s].end # "unused"
              /\ socket' = [socket EXCEPT ![s] = Ended(s)]
          BY <2>3, <4>2 DEF IsLost, HasClosed
        <5>2. Ended(s) = Unused => socket[s].joined # "yes"
          BY <1>1, EndedFacts, UnusedType
        <5> QED
          BY <5>1, <5>2
      <4> QED
        BY <1>6, <4>1, <4>2
    <3> QED
      BY <1>1, <1>3, <2>1, <3>1, EndsAlone
  <2> QED
    BY <2>2, <2>3
<1>7. CASE Reloads
  BY <1>1, <1>7, PageGoesAlone DEF Reloads
<1>8. CASE Retries \/ Boots
  <2>1. \A s \in Sockets : ~Live(s)
    BY <1>4, <1>8 DEF Retries, Boots, OneLink
  <2>2. Connects(socket, room) /\ (HalfOpen \/ Noticed) /\ UNCHANGED server
    BY <1>8 DEF Retries, Boots
  <2> QED
    BY <1>1, <1>3, <2>1, <2>2, ConnectsAlone
<1>9. CASE Exits
  <2>1. socket' = ClosingCurrent /\ UNCHANGED server
    BY <1>9 DEF Exits, Disconnects
  <2>2. ASSUME NEW s \in Sockets
        PROVE  /\ Live(s)' => Live(s)
               /\ socket[s].end = "unused" => socket'[s].end = "unused"
               /\ socket[s].joined = "yes" /\ socket[s].end \in {"open", "closing", "closed"} =>
                    /\ socket'[s].joined = "yes" /\ socket'[s].room = socket[s].room
                    /\ socket'[s].end \in {"open", "closing", "closed"}
    BY <1>1, <2>1, ClosingFacts DEF Live
  <2> QED
    BY <1>1, <1>3, <2>1, <2>2, AloneStays DEF server
<1>10. ASSUME NEW s \in Sockets, Joins(s)
       PROVE  Alone'
  <2> DEFINE r == socket[s].room
  <2>1. socket[s].end \in {"open", "closing", "closed"} /\ socket[s].joined = "asked" /\ r \in Rooms /\ s # None
    <3>1. socket[s] \in SocketType /\ socket[s].joined = "asked"
      BY <1>1, <1>10 DEF Joins, TypeOK
    <3>2. socket[s].end \notin {"unused", "connecting"}
      BY <3>1 DEF Asked
    <3> QED
      BY <3>1, <3>2, SessionAssumption DEF SocketType, Sockets, None
  <2>2. \A t \in Sockets : t # s => socket[t].end = "unused"
    BY <1>4, <2>1 DEF Alone
  <2>3. \A q \in Rooms : seat[q] \in Sockets \cup {None}
    BY <1>1 DEF TypeOK
  <2>4. \A q \in Rooms : seat[q] = None
    BY <1>4, <2>1, <2>2, <2>3 DEF Alone
  <2>5. /\ socket'[s].end = socket[s].end /\ socket'[s].joined = "yes" /\ socket'[s].room = r
        /\ \A t \in Sockets : t # s => socket'[t] = socket[t]
    <3>1. socket' = [socket EXCEPT ![s] = [socket[s] EXCEPT !.joined = "yes"]]
      BY <1>10 DEF Joins
    <3>2. socket[s] \in SocketType
      BY <1>1 DEF TypeOK
    <3> QED
      BY <1>1, <3>1, <3>2, Records, SocketUpdate
  <2>6. seat' = [seat EXCEPT ![r] = s]
    BY <1>10 DEF Joins
  <2>7. seat'[r] = s /\ \A q \in Rooms : q # r => seat'[q] = None
    BY <1>1, <2>1, <2>4, <2>6 DEF TypeOK
  <2>8. \A q \in Rooms : game'[q] # "solo"
    BY <1>1, <1>4, <1>10, <2>1, <2>4 DEF Joins, Alone, TypeOK
  <2>9. \A t, u \in Sockets : socket'[t].end # "unused" /\ u # t => socket'[u].end = "unused"
    BY <2>2, <2>5
  <2> HIDE DEF r
  <2> QED
    BY <2>1, <2>5, <2>7, <2>8, <2>9 DEF Alone
<1>11. ASSUME NEW s \in Sockets, Notices(s)
       PROVE  Alone'
  <2>1. /\ socket[s].end = "closed" /\ socket'[s].end = "unused"
        /\ \A t \in Sockets : t # s => socket'[t] = socket[t]
    BY <1>1, <1>11, UnusedType, SocketUpdate DEF Notices
  <2>2. socket[s].room \in Rooms
    BY <1>1 DEF TypeOK, SocketType
  <2>3. /\ socket[s].joined = "yes" => seat'[socket[s].room] = None
        /\ \A r \in Rooms : seat'[r] # None => seat'[r] = seat[r]
    BY <1>1, <1>11, <2>2 DEF Notices, TypeOK
  <2>4. \A r \in Rooms : seat[r] \in Sockets \cup {None}
    BY <1>1 DEF TypeOK
  <2>5. \A r \in Rooms : seat'[r] # None =>
            /\ socket'[seat'[r]].joined = "yes" /\ socket'[seat'[r]].room = r
            /\ socket'[seat'[r]].end \in {"open", "closing", "closed"}
    <3> SUFFICES ASSUME NEW r \in Rooms, seat'[r] # None
                 PROVE  /\ socket'[seat'[r]].joined = "yes" /\ socket'[seat'[r]].room = r
                        /\ socket'[seat'[r]].end \in {"open", "closing", "closed"}
      OBVIOUS
    <3>1. seat'[r] = seat[r] /\ seat[r] \in Sockets
      BY <2>3, <2>4
    <3>2. /\ socket[seat[r]].joined = "yes" /\ socket[seat[r]].room = r
          /\ socket[seat[r]].end \in {"open", "closing", "closed"}
      BY <1>4, <3>1 DEF Alone
    <3>3. seat[r] # s
      BY <2>3, <3>1, <3>2
    <3> QED
      BY <2>1, <3>1, <3>2, <3>3
  <2>6. game' = game
    BY <1>11 DEF Notices
  <2>7. \A t, u \in Sockets : socket'[t].end # "unused" /\ u # t => socket'[u].end = "unused"
    BY <1>4, <2>1 DEF Alone
  <2> QED
    BY <1>4, <2>5, <2>6, <2>7 DEF Alone
<1>12. ASSUME UNCHANGED <<socket, seat>>,
              \A r \in Rooms : game'[r] = "solo" => game[r] = "solo"
       PROVE  Alone'
  BY <1>1, <1>3, <1>12, AloneStays DEF Live
<1>13. CASE OpponentComes \/ OpponentLeaves
  <2>1. UNCHANGED <<socket, seat>> /\ (game' = game \/ game' = [game EXCEPT ![0] = "pair"])
    BY <1>13 DEF OpponentComes, OpponentLeaves
  <2> QED
    BY <1>1, <1>12, <2>1 DEF TypeOK
<1>14. ASSUME NEW r \in Rooms, GameEnds(r)
       PROVE  Alone'
  BY <1>1, <1>12, <1>14 DEF GameEnds, TypeOK
<1>15. CASE CreatesWaiting \/ FindsGameOver \/ UNCHANGED vars
  <2>1. UNCHANGED <<socket, seat, game>>
    BY <1>15 DEF CreatesWaiting, FindsGameOver, vars, server
  <2> QED
    BY <1>12, <2>1
<1> QED
  BY <1>5, <1>6, <1>7, <1>8, <1>9, <1>10, <1>11, <1>13, <1>14, <1>15 DEF Next, Connecting, Serves

--------------------------------------------------------------------------------
(* The theorems. *)

(* The inductive invariant holds whatever the browser and the server do. *)
THEOREM Invariant == Spec => []IInv
<1>1. IInv /\ [Next]_vars => IInv'
  BY NextTyped, NextAsked, NextOneLink, NextAlone DEF IInv
<1> QED
  BY <1>1, InitInvariant, PTL DEF Spec

(* The page's client, scenes, sockets and seats have their types. *)
THEOREM TypeCorrect == Spec => []TypeOK
<1>1. IInv => TypeOK
  BY DEF IInv, Typed
<1> QED
  BY <1>1, Invariant, PTL

(* Until a rematch is asked for, a page has at most one socket or one retry *)
(* under way, however often connections fail and pages are reloaded.        *)
THEOREM ConnectsOnce == Spec => []OneConnection
<1>1. IInv => OneConnection
  <2> SUFFICES ASSUME IInv, rematches = 0
               PROVE  Cardinality({s \in Sockets : Live(s)}) + retries <= 1
    BY DEF OneConnection
  <2>1. /\ retries \in {0, 1}
        /\ \A s \in Sockets : Live(s) => ws = s /\ retries = 0
    BY DEF IInv, OneLink
  <2>2. CASE \E s \in Sockets : Live(s)
    <3>1. {s \in Sockets : Live(s)} = {ws} /\ retries = 0
      BY <2>1, <2>2
    <3>2. Cardinality({ws}) = 1
      BY FS_Singleton
    <3> QED
      BY <3>1, <3>2
  <2>3. CASE \A s \in Sockets : ~Live(s)
    <3>1. {s \in Sockets : Live(s)} = {}
      BY <2>3
    <3>2. Cardinality({s \in Sockets : Live(s)}) = 0
      BY <3>1, FS_EmptySet
    <3> QED
      BY <2>1, <3>2
  <2> QED
    BY <2>2, <2>3
<1> QED
  BY <1>1, Invariant, PTL

(* Until then, `connected` tells whether the page's socket is open. *)
THEOREM ConnectedIsOpen == Spec => []ConnectedMeansOpen
<1>1. IInv => ConnectedMeansOpen
  BY DEF IInv, OneLink, ConnectedMeansOpen
<1> QED
  BY <1>1, Invariant, PTL

(* Until then, and if the server notices that a socket ended before the page  *)
(* connects again, no match starts with the player on both seats.             *)
THEOREM NeverAlone == Spec => [](~HalfOpen => NoGameAlone)
<1>1. IInv => (~HalfOpen => NoGameAlone)
  BY DEF IInv, Alone, NoGameAlone
<1> QED
  BY <1>1, Invariant, PTL
================================================================================
