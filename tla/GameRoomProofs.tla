----------------------------- MODULE GameRoomProofs -----------------------------
(***************************************************************************)
(* Proofs about GameRoom, for any players, any number of sockets, restarts *)
(* and expiries, and whether or not sockets overlap, handlers interleave   *)
(* and matches follow one another: the types, and that no game is credited *)
(* twice.  Then, for the two players of one match whose handlers do not    *)
(* meet, who sits where, hears what and forfeits.                          *)
(***************************************************************************)
EXTENDS GameRoom, FiniteSetTheorems, TLAPS

(* A socket that is served belongs to a player. *)
Named == \A c \in Conns : Alive(c) => conn[c].player \in Players

(* The handler of socket c may still create the game named after it. *)
MayCreate(c) == conn[c].at \in {"unused"} \cup (Joining \ {"rejoin"})

(* A game is born once, and one that was credited has ended.               *)
Credited ==
    /\ \A c \in Conns : MayCreate(c) => ending[c] = "unborn"
    /\ \A g \in Games :
         \/ callbacks[g] = 0
         \/ callbacks[g] = 1 /\ ending[g] \notin {"unborn", "running"}

IInv == TypeOK /\ Named /\ Credited

Labels == {"unused", "loop", "gone"} \cup Joining \cup Leaving

--------------------------------------------------------------------------------
(* Types. *)

LEMMA InitInvariant == Init => IInv
<1> SUFFICES ASSUME Init PROVE IInv
  OBVIOUS
<1>1. conn \in [Conns -> ConnType]
  BY DEF Init, ConnType, Joining, Leaving
<1>2. /\ seat \in [Games -> (Players \cup {NoOne}) \X (Players \cup {NoOne})]
      /\ ending \in [Games -> {"unborn", "running", "play", "grace", "admin", "lost"}]
      /\ active \in Games \cup {None}
  BY DEF Init
<1>3. /\ playerConnections \in [Players -> Conns \cup {None}]
      /\ roomConnections \in [Players -> Conns \cup {None}]
      /\ grace \in [Players -> {"none", "sleeping", "crediting"}]
      /\ members \subseteq Players
  BY DEF Init
<1>4. callbacks \in [Games -> Nat] /\ {restarts, expiries} \subseteq Nat
  BY DEF Init
<1>5. roomKnown \in BOOLEAN /\ ttl \in BOOLEAN /\ credited \in BOOLEAN
  BY DEF Init
<1>6. TypeOK
  BY <1>1, <1>2, <1>3, <1>4, <1>5 DEF TypeOK
<1>7. Named
  BY DEF Init, Named, Alive
<1>8. Credited
  BY DEF Init, Credited, Games
<1> QED
  BY <1>6, <1>7, <1>8 DEF IInv

(* What the steps change in a socket's record. *)
LEMMA RecordTypes ==
    ASSUME NEW r \in ConnType
    PROVE  /\ \A label \in Labels : [r EXCEPT !.at = label] \in ConnType
           /\ \A b \in BOOLEAN : [r EXCEPT !.open = b] \in ConnType
           /\ [r EXCEPT !.number = 1] \in ConnType /\ [r EXCEPT !.number = 2] \in ConnType
           /\ \A g \in Games \cup {None} : [r EXCEPT !.state = g] \in ConnType
BY DEF ConnType, Labels

LEMMA EntryTypes ==
    ASSUME TypeOK, NEW c \in Conns, NEW r \in ConnType, conn' = [conn EXCEPT ![c] = r]
    PROVE  conn' \in [Conns -> ConnType]
BY DEF TypeOK

(* A handler goes on to another label. *)
LEMMA GotoTypes ==
    ASSUME TypeOK, NEW c \in Conns, NEW label \in Labels, Goto(c, label)
    PROVE  conn' \in [Conns -> ConnType]
<1>1. [conn[c] EXCEPT !.at = label] \in ConnType
  BY RecordTypes DEF TypeOK
<1>2. conn' = [conn EXCEPT ![c] = [conn[c] EXCEPT !.at = label]]
  BY DEF Goto, TypeOK
<1> QED
  BY <1>1, <1>2, EntryTypes

LEMMA MemberTypes ==
    ASSUME TypeOK, NEW s \in SUBSET Players, SetMembers(s)
    PROVE  members' \in SUBSET Players /\ ttl' \in BOOLEAN
BY DEF SetMembers

(* A handler begins its clean-up. *)
LEMMA LeaveTypes ==
    ASSUME TypeOK, NEW c \in Conns, BeginsToLeave(c)
    PROVE  TypeOK'
<1> USE DEF redis, games, credit, maps
<1>1. conn' \in [Conns -> ConnType]
  <2>1. active \in Games \cup {None} /\ "srem" \in Labels
    BY DEF TypeOK, Labels, Leaving
  <2>2. [conn[c] EXCEPT !.at = "srem"] \in ConnType
    BY <2>1, RecordTypes DEF TypeOK
  <2>3. [[conn[c] EXCEPT !.at = "srem"] EXCEPT !.state = active] \in ConnType
    BY <2>1, <2>2, RecordTypes
  <2>4. conn' = [conn EXCEPT ![c] = [[conn[c] EXCEPT !.at = "srem"] EXCEPT !.state = active]]
    BY DEF BeginsToLeave, TypeOK, ConnType
  <2> QED
    BY <2>3, <2>4, EntryTypes
<1>2. /\ playerConnections' \in [Players -> Conns \cup {None}]
      /\ roomConnections' \in [Players -> Conns \cup {None}]
      /\ roomKnown' \in BOOLEAN
  BY DEF TypeOK, BeginsToLeave, Absent
<1>3. grace' \in [Players -> {"none", "sleeping", "crediting"}]
  BY DEF TypeOK, BeginsToLeave, GraceStarts
<1>4. UNCHANGED <<redis, games, credit, restarts>>
  BY DEF BeginsToLeave
<1> QED
  BY <1>1, <1>2, <1>3, <1>4 DEF TypeOK

LEMMA JoinTypes ==
    ASSUME TypeOK, Named, NEW c \in Conns,
           \/ Rejoins(c) \/ Purges(c) \/ FirstAdds(c) \/ FirstRegisters(c)
           \/ SecondAdds(c) \/ SecondRegisters(c)
    PROVE  TypeOK'
<1> USE DEF redis, games, credit, maps
<1>1. conn[c].player \in Players
  BY DEF Named, Alive, Rejoins, Purges, FirstAdds, FirstRegisters, SecondAdds, SecondRegisters
<1>2. members \cup {conn[c].player} \in SUBSET Players
  BY <1>1 DEF TypeOK
<1>3. {"loop", "gone", "first", "first register", "second register", "start"} \subseteq Labels
  BY DEF Labels, Joining
<1>4. CASE Rejoins(c) \/ FirstAdds(c) \/ SecondAdds(c)
  <2>1. conn' \in [Conns -> ConnType]
    BY <1>3, <1>4, GotoTypes DEF Rejoins, FirstAdds, SecondAdds
  <2>2. members' \in SUBSET Players /\ ttl' \in BOOLEAN
    BY <1>2, <1>4, MemberTypes DEF Rejoins, FirstAdds, SecondAdds
  <2>3. UNCHANGED <<maps, games, grace, credit, restarts, expiries>>
    BY <1>4 DEF Rejoins, FirstAdds, SecondAdds
  <2> QED
    BY <2>1, <2>2, <2>3 DEF TypeOK
<1>5. CASE Purges(c)
  <2>1. conn' \in [Conns -> ConnType]
    BY <1>3, <1>5, GotoTypes DEF Purges
  <2>2. members' \in SUBSET Players /\ ttl' \in BOOLEAN
    BY <1>5, MemberTypes DEF Purges
  <2>3. active' = None /\ UNCHANGED <<maps, seat, ending, grace, credit, restarts, expiries>>
    BY <1>5 DEF Purges
  <2> QED
    BY <2>1, <2>2, <2>3 DEF TypeOK
<1>6. CASE FirstRegisters(c)
  <2>1. conn' \in [Conns -> ConnType]
    <3>1. [conn[c] EXCEPT !.at = "loop"] \in ConnType
      BY <1>3, RecordTypes DEF TypeOK
    <3>2. [[conn[c] EXCEPT !.at = "loop"] EXCEPT !.number = 1] \in ConnType
      BY <3>1, RecordTypes
    <3>3. conn' = [conn EXCEPT ![c] = [[conn[c] EXCEPT !.at = "loop"] EXCEPT !.number = 1]]
      BY <1>6 DEF FirstRegisters, TypeOK, ConnType
    <3> QED
      BY <3>2, <3>3, EntryTypes
  <2>2. /\ playerConnections' \in [Players -> Conns \cup {None}]
        /\ roomConnections' \in [Players -> Conns \cup {None}]
        /\ roomKnown' \in BOOLEAN
    BY <1>6 DEF FirstRegisters, Register, TypeOK
  <2>3. ttl' \in BOOLEAN
    BY <1>6 DEF FirstRegisters
  <2>4. UNCHANGED <<members, games, grace, credit, restarts, expiries>>
    BY <1>6 DEF FirstRegisters
  <2> QED
    BY <2>1, <2>2, <2>3, <2>4 DEF TypeOK
<1>7. CASE SecondRegisters(c)
  <2>1. conn' \in [Conns -> ConnType]
    BY <1>3, <1>7, GotoTypes DEF SecondRegisters
  <2>2. /\ playerConnections' \in [Players -> Conns \cup {None}]
        /\ roomConnections' \in [Players -> Conns \cup {None}]
        /\ roomKnown' \in BOOLEAN
    BY <1>7 DEF SecondRegisters, Register, TypeOK
  <2>3. ttl' \in BOOLEAN
    BY <1>7 DEF SecondRegisters
  <2>4. UNCHANGED <<members, games, grace, credit, restarts, expiries>>
    BY <1>7 DEF SecondRegisters
  <2> QED
    BY <2>1, <2>2, <2>3, <2>4 DEF TypeOK
<1> QED
  BY <1>4, <1>5, <1>6, <1>7

LEMMA StartTypes ==
    ASSUME TypeOK, Named, NEW c \in Conns, Starts(c)
    PROVE  TypeOK'
<1> USE DEF redis, games, credit, maps
<1>1. conn' \in [Conns -> ConnType]
  <2>1. [conn[c] EXCEPT !.at = "loop"] \in ConnType
    BY RecordTypes DEF TypeOK, Labels
  <2>2. [[conn[c] EXCEPT !.at = "loop"] EXCEPT !.number = 2] \in ConnType
    BY <2>1, RecordTypes
  <2>3. conn' = [conn EXCEPT ![c] = [[conn[c] EXCEPT !.at = "loop"] EXCEPT !.number = 2]]
    BY DEF Starts, TypeOK, ConnType
  <2> QED
    BY <2>2, <2>3, EntryTypes
<1>2. conn[c].player \in Players
  BY DEF Named, Alive, Starts
<1>3. UNCHANGED <<maps, redis, grace, credit, restarts>>
  BY DEF Starts
<1>4. ASSUME NEW p1 \in FirstPlayers(conn[c].player),
             seat' = [seat EXCEPT ![c] = <<p1, conn[c].player>>],
             ending' = [ending EXCEPT ![c] = "running"], active' = c
      PROVE  TypeOK'
  <2>1. p1 \in Players \cup {NoOne}
    BY DEF FirstPlayers, TypeOK
  <2>2. seat' \in [Games -> (Players \cup {NoOne}) \X (Players \cup {NoOne})]
    BY <1>2, <1>4, <2>1 DEF TypeOK
  <2>3. ending' \in [Games -> {"unborn", "running", "play", "grace", "admin", "lost"}]
    BY <1>4 DEF TypeOK
  <2>4. active' \in Games \cup {None}
    BY <1>4 DEF Games
  <2> QED
    BY <1>1, <1>3, <2>2, <2>3, <2>4 DEF TypeOK
<1>5. CASE UNCHANGED games
  BY <1>1, <1>3, <1>5 DEF TypeOK
<1> QED
  BY <1>4, <1>5 DEF Starts

LEMMA ExitTypes ==
    ASSUME TypeOK, NEW c \in Conns,
           Counts(c) \/ Leaves(c) \/ Removes(c) \/ CountsLeft(c) \/ CleansUp(c)
    PROVE  TypeOK'
<1> USE DEF redis, games, credit, maps
<1>1. {"purge", "first", "second", "scard", "delete", "gone"} \subseteq Labels
  BY DEF Labels, Joining, Leaving
<1>2. CASE Counts(c)
  <2>1. CASE BeginsToLeave(c)
    BY <2>1, LeaveTypes
  <2>2. CASE ~BeginsToLeave(c)
    <3>1. conn' \in [Conns -> ConnType]
      BY <1>1, <1>2, <2>2, GotoTypes DEF Counts
    <3>2. UNCHANGED <<maps, redis, games, grace, credit, restarts>>
      BY <1>2, <2>2 DEF Counts
    <3> QED
      BY <3>1, <3>2 DEF TypeOK
  <2> QED
    BY <2>1, <2>2
<1>3. CASE Leaves(c)
  BY <1>3, LeaveTypes DEF Leaves
<1>4. CASE Removes(c)
  <2>1. members \ {conn[c].player} \in SUBSET Players
    BY DEF TypeOK
  <2>2. members' \in SUBSET Players /\ ttl' \in BOOLEAN
    BY <1>4, <2>1, MemberTypes DEF Removes
  <2>3. conn' \in [Conns -> ConnType]
    BY <1>1, <1>4, GotoTypes DEF Removes
  <2>4. UNCHANGED <<maps, games, grace, credit, restarts, expiries>>
    BY <1>4 DEF Removes
  <2> QED
    BY <2>2, <2>3, <2>4 DEF TypeOK
<1>5. CASE CountsLeft(c)
  <2>1. conn' \in [Conns -> ConnType]
    BY <1>1, <1>5, GotoTypes DEF CountsLeft
  <2>2. UNCHANGED <<maps, redis, games, grace, credit, restarts>>
    BY <1>5 DEF CountsLeft
  <2> QED
    BY <2>1, <2>2 DEF TypeOK
<1>6. CASE CleansUp(c)
  <2>1. members' \in SUBSET Players /\ ttl' \in BOOLEAN
    BY <1>6, MemberTypes DEF CleansUp
  <2>2. conn' \in [Conns -> ConnType]
    BY <1>1, <1>6, GotoTypes DEF CleansUp
  <2>3. /\ active' = None /\ credited' = FALSE
        /\ UNCHANGED <<maps, seat, ending, grace, callbacks, restarts, expiries>>
    BY <1>6 DEF CleansUp
  <2> QED
    BY <2>1, <2>2, <2>3 DEF TypeOK
<1> QED
  BY <1>2, <1>3, <1>4, <1>5, <1>6

LEMMA PlayerTypes ==
    ASSUME TypeOK, NEW p \in Players, Opens(p) \/ Grace(p)
    PROVE  TypeOK'
<1> USE DEF redis, games, credit, maps
<1>1. CASE Opens(p)
  <2> DEFINE rejoins == Running(active) /\ Seated(p, active)
             entry == [player |-> p, at |-> IF rejoins THEN "rejoin" ELSE "count",
                       open |-> TRUE, number |-> IF rejoins THEN SeatOf(p, active) ELSE 0,
                       state |-> None]
  <2>1. PICK c \in Conns :
          /\ conn' = [d \in Conns |-> IF d = c THEN entry
                                      ELSE [conn[d] EXCEPT !.open = @ /\ conn[d].player # p]]
          /\ IF rejoins THEN TakesSeat(p, c) ELSE UNCHANGED <<grace, maps>>
          /\ UNCHANGED <<redis, games, credit, restarts>>
    BY <1>1 DEF Opens
  <2>2. entry \in ConnType
    BY DEF ConnType, Joining, SeatOf
  <2>3. ASSUME NEW d \in Conns
        PROVE  [conn[d] EXCEPT !.open = @ /\ conn[d].player # p] \in ConnType
    <3>1. conn[d] \in ConnType /\ conn[d].open \in BOOLEAN
      BY DEF TypeOK, ConnType
    <3>2. (conn[d].open /\ conn[d].player # p) \in BOOLEAN
      BY <3>1
    <3> QED
      BY <3>1, <3>2, RecordTypes
  <2>4. conn' \in [Conns -> ConnType]
    BY <2>1, <2>2, <2>3
  <2>5. /\ playerConnections' \in [Players -> Conns \cup {None}]
        /\ roomConnections' \in [Players -> Conns \cup {None}]
        /\ roomKnown' \in BOOLEAN
        /\ grace' \in [Players -> {"none", "sleeping", "crediting"}]
    <3> HIDE DEF rejoins
    <3>1. CASE TakesSeat(p, c)
      BY <3>1 DEF TakesSeat, TypeOK
    <3>2. CASE UNCHANGED <<grace, maps>>
      BY <3>2 DEF TypeOK
    <3> QED
      BY <2>1, <3>1, <3>2
  <2> QED
    BY <2>1, <2>4, <2>5 DEF TypeOK
<1>2. CASE Forfeits(p)
  <2>1. active \in Games /\ callbacks[active] + 1 \in Nat
    BY <1>2 DEF Forfeits, MayForfeit, Running, TypeOK
  <2>2. callbacks' \in [Games -> Nat] /\ credited' = TRUE
    BY <1>2, <2>1 DEF Forfeits, Credits, TypeOK
  <2>3. ending' \in [Games -> {"unborn", "running", "play", "grace", "admin", "lost"}]
    BY <1>2 DEF Forfeits, TypeOK
  <2>4. grace' \in [Players -> {"none", "sleeping", "crediting"}]
    BY <1>2 DEF Forfeits, TypeOK
  <2>5. UNCHANGED <<conn, maps, redis, active, seat, restarts>>
    BY <1>2 DEF Forfeits
  <2> QED
    BY <2>2, <2>3, <2>4, <2>5 DEF TypeOK
<1>3. CASE GraceEnds(p)
  <2>1. grace' \in [Players -> {"none", "sleeping", "crediting"}]
    BY <1>3 DEF GraceEnds, TypeOK
  <2>2. UNCHANGED <<conn, maps, redis, games, credit, restarts>>
    BY <1>3 DEF GraceEnds
  <2> QED
    BY <2>1, <2>2 DEF TypeOK
<1> QED
  BY <1>1, <1>2, <1>3 DEF Grace

LEMMA NextTypes == TypeOK /\ Named /\ [Next]_vars => TypeOK'
<1> SUFFICES ASSUME TypeOK, Named, [Next]_vars PROVE TypeOK'
  OBVIOUS
<1> USE DEF redis, games, credit, maps
<1>1. ASSUME NEW p \in Players, Opens(p) \/ Grace(p)
      PROVE  TypeOK'
  BY <1>1, PlayerTypes
<1>2. ASSUME NEW c \in Conns, Handler(c)
      PROVE  TypeOK'
  BY <1>2, JoinTypes, StartTypes, ExitTypes DEF Handler
<1>3. ASSUME NEW c \in Conns, Closes(c)
      PROVE  TypeOK'
  <2>1. [conn[c] EXCEPT !.open = FALSE] \in ConnType
    BY RecordTypes DEF TypeOK
  <2>2. conn' = [conn EXCEPT ![c] = [conn[c] EXCEPT !.open = FALSE]]
    BY <1>3 DEF Closes, TypeOK, ConnType
  <2>3. conn' \in [Conns -> ConnType]
    BY <2>1, <2>2, EntryTypes
  <2> QED
    BY <1>3, <2>3 DEF Closes, TypeOK
<1>4. CASE PlayEnds
  <2>1. active \in Games /\ callbacks[active] + 1 \in Nat
    BY <1>4 DEF PlayEnds, Running, TypeOK
  <2>2. callbacks' \in [Games -> Nat] /\ credited' = TRUE
    BY <1>4, <2>1 DEF PlayEnds, Credits, TypeOK
  <2>3. ending' \in [Games -> {"unborn", "running", "play", "grace", "admin", "lost"}]
    BY <1>4 DEF PlayEnds, TypeOK
  <2>4. UNCHANGED <<conn, maps, redis, active, seat, grace, restarts>>
    BY <1>4 DEF PlayEnds
  <2> QED
    BY <2>2, <2>3, <2>4 DEF TypeOK
<1>5. CASE ForceEnd
  <2>1. ending' \in [Games -> {"unborn", "running", "play", "grace", "admin", "lost"}]
    BY <1>5 DEF ForceEnd, TypeOK
  <2>2. UNCHANGED <<conn, maps, redis, active, seat, grace, credit, restarts>>
    BY <1>5 DEF ForceEnd
  <2> QED
    BY <2>1, <2>2 DEF TypeOK
<1>6. CASE Expires
  <2>1. members' \in SUBSET Players /\ ttl' \in BOOLEAN
    BY <1>6, MemberTypes DEF Expires
  <2>2. expiries \in Nat /\ expiries' = expiries + 1
    BY <1>6 DEF Expires, TypeOK
  <2>3. UNCHANGED <<conn, maps, games, grace, credit, restarts>>
    BY <1>6 DEF Expires
  <2> QED
    BY <2>1, <2>2, <2>3 DEF TypeOK
<1>7. CASE Restarts
  <2>1. conn' \in [Conns -> ConnType]
    <3>1. ASSUME NEW c \in Conns
          PROVE  [conn[c] EXCEPT !.at = "gone", !.open = FALSE] \in ConnType
      <4>1. [conn[c] EXCEPT !.at = "gone"] \in ConnType
        BY RecordTypes DEF TypeOK, Labels
      <4>2. [[conn[c] EXCEPT !.at = "gone"] EXCEPT !.open = FALSE] \in ConnType
        BY <4>1, RecordTypes
      <4> QED
        BY <4>2 DEF TypeOK, ConnType
    <3> QED
      BY <1>7, <3>1 DEF Restarts, TypeOK
  <2>2. /\ playerConnections' \in [Players -> Conns \cup {None}]
        /\ roomConnections' \in [Players -> Conns \cup {None}]
        /\ grace' \in [Players -> {"none", "sleeping", "crediting"}]
    BY <1>7 DEF Restarts
  <2>3. ending' \in [Games -> {"unborn", "running", "play", "grace", "admin", "lost"}]
    BY <1>7 DEF Restarts, TypeOK
  <2>4. restarts \in Nat /\ restarts' = restarts + 1
    BY <1>7 DEF Restarts, TypeOK
  <2>6. restarts' \in Nat
    BY <2>4
  <2>5. /\ roomKnown' = FALSE /\ active' = None /\ credited' = FALSE
        /\ UNCHANGED <<redis, seat, callbacks>>
    BY <1>7 DEF Restarts
  <2> QED
    BY <2>1, <2>2, <2>3, <2>6, <2>5 DEF TypeOK
<1>8. CASE UNCHANGED vars
  BY <1>8 DEF vars, TypeOK
<1> QED
  BY <1>1, <1>2, <1>3, <1>4, <1>5, <1>6, <1>7, <1>8 DEF Next

--------------------------------------------------------------------------------
(* The games. *)

(* What the steps of a handler leave of its socket's record. *)
LEMMA FieldsStay ==
    ASSUME TypeOK, NEW c \in Conns, NEW label \in Labels,
           \/ Goto(c, label)
           \/ \E n \in 0 .. 2 : conn' = [conn EXCEPT ![c].at = label, ![c].number = n]
           \/ conn' = [conn EXCEPT ![c].at = label, ![c].state = active]
    PROVE  /\ conn'[c].player = conn[c].player /\ conn'[c].at = label
           /\ \A d \in Conns : d # c => conn'[d] = conn[d]
<1>1. conn \in [Conns -> ConnType]
  BY DEF TypeOK
<1>2. CASE Goto(c, label)
  BY <1>1, <1>2 DEF Goto, ConnType
<1>3. CASE \E n \in 0 .. 2 : conn' = [conn EXCEPT ![c].at = label, ![c].number = n]
  BY <1>1, <1>3 DEF ConnType
<1>4. CASE conn' = [conn EXCEPT ![c].at = label, ![c].state = active]
  BY <1>1, <1>4 DEF ConnType
<1> QED
  BY <1>2, <1>3, <1>4

(* A step of the handler of socket c, or the closing of the socket, is no   *)
(* concern of the other sockets, and does not lead back to before the game. *)
LEMMA OthersStay ==
    ASSUME TypeOK, NEW c \in Conns, Handler(c) \/ Closes(c)
    PROVE  /\ conn'[c].player = conn[c].player /\ Alive(c)
           /\ \A d \in Conns : d # c => conn'[d] = conn[d]
           /\ MayCreate(c)' => MayCreate(c)
<1> USE DEF MayCreate, Alive, Joining, Leaving, Labels
<1>1. CASE Closes(c)
  <2>1. /\ conn'[c].player = conn[c].player /\ conn'[c].at = conn[c].at
        /\ \A d \in Conns : d # c => conn'[d] = conn[d]
    BY <1>1 DEF Closes, TypeOK, ConnType
  <2> QED
    BY <1>1, <2>1 DEF Closes
<1>2. CASE Rejoins(c)
  <2>1. /\ conn'[c].player = conn[c].player /\ conn'[c].at = "loop"
        /\ \A d \in Conns : d # c => conn'[d] = conn[d]
    BY <1>2, FieldsStay DEF Rejoins
  <2> QED
    BY <1>2, <2>1 DEF Rejoins
<1>3. CASE Purges(c)
  BY <1>3, FieldsStay DEF Purges
<1>4. CASE FirstAdds(c)
  BY <1>4, FieldsStay DEF FirstAdds
<1>5. CASE FirstRegisters(c)
  <2>1. 1 \in 0 .. 2
    OBVIOUS
  <2>2. conn' = [conn EXCEPT ![c].at = "loop", ![c].number = 1]
    BY <1>5 DEF FirstRegisters
  <2>3. \E n \in 0 .. 2 : conn' = [conn EXCEPT ![c].at = "loop", ![c].number = n]
    BY <2>1, <2>2
  <2> QED
    BY <1>5, <2>3, FieldsStay DEF FirstRegisters
<1>6. CASE SecondAdds(c)
  BY <1>6, FieldsStay DEF SecondAdds
<1>7. CASE SecondRegisters(c)
  BY <1>7, FieldsStay DEF SecondRegisters
<1>8. CASE Starts(c)
  <2>1. \E n \in 0 .. 2 : conn' = [conn EXCEPT ![c].at = "loop", ![c].number = n]
    BY <1>8 DEF Starts
  <2> QED
    BY <1>8, <2>1, FieldsStay DEF Starts
<1>9. CASE Counts(c)
  <2>1. CASE BeginsToLeave(c)
    BY <1>9, <2>1, FieldsStay DEF Counts, BeginsToLeave
  <2>2. CASE ~BeginsToLeave(c)
    <3>1. PICK label \in {"purge", "first", "second"} : Goto(c, label)
      BY <1>9, <2>2 DEF Counts
    <3> QED
      BY <1>9, <3>1, FieldsStay DEF Counts
  <2> QED
    BY <2>1, <2>2
<1>10. CASE Leaves(c)
  <2>1. /\ conn'[c].player = conn[c].player /\ conn'[c].at = "srem"
        /\ \A d \in Conns : d # c => conn'[d] = conn[d]
    BY <1>10, FieldsStay DEF Leaves, BeginsToLeave
  <2> QED
    BY <1>10, <2>1 DEF Leaves
<1>11. CASE Removes(c)
  <2>1. /\ conn'[c].player = conn[c].player /\ conn'[c].at = "scard"
        /\ \A d \in Conns : d # c => conn'[d] = conn[d]
    BY <1>11, FieldsStay DEF Removes
  <2> QED
    BY <1>11, <2>1 DEF Removes
<1>12. CASE CountsLeft(c)
  <2>1. PICK label \in {"delete", "gone"} : Goto(c, label)
    BY <1>12 DEF CountsLeft
  <2> QED
    BY <1>12, <2>1, FieldsStay DEF CountsLeft
<1>13. CASE CleansUp(c)
  <2>1. /\ conn'[c].player = conn[c].player /\ conn'[c].at = "gone"
        /\ \A d \in Conns : d # c => conn'[d] = conn[d]
    BY <1>13, FieldsStay DEF CleansUp
  <2> QED
    BY <1>13, <2>1 DEF CleansUp
<1> QED
  BY <1>1, <1>2, <1>3, <1>4, <1>5, <1>6, <1>7, <1>8, <1>9, <1>10, <1>11, <1>12, <1>13 DEF Handler

(* A new socket waits for the number of members, or rejoins. *)
LEMMA OpensOne ==
    ASSUME TypeOK, NEW p \in Players, Opens(p)
    PROVE  \E c \in Conns :
             /\ conn[c].at = "unused"
             /\ conn'[c].player = p /\ conn'[c].at \in {"rejoin", "count"}
             /\ \A d \in Conns : d # c => conn'[d].at = conn[d].at /\ conn'[d].player = conn[d].player
<1>1. PICK c \in Conns :
        /\ conn[c].at = "unused"
        /\ LET rejoins == Running(active) /\ Seated(p, active)
               entry == [player |-> p, at |-> IF rejoins THEN "rejoin" ELSE "count",
                         open |-> TRUE, number |-> IF rejoins THEN SeatOf(p, active) ELSE 0,
                         state |-> None]
           IN  conn' = [d \in Conns |-> IF d = c THEN entry
                                        ELSE [conn[d] EXCEPT !.open = @ /\ conn[d].player # p]]
  BY DEF Opens, Fresh
<1>2. conn'[c].player = p /\ conn'[c].at \in {"rejoin", "count"}
  BY <1>1
<1>3. ASSUME NEW d \in Conns, d # c
      PROVE  conn'[d].at = conn[d].at /\ conn'[d].player = conn[d].player
  <2>1. conn[d] \in ConnType
    BY DEF TypeOK
  <2>2. conn'[d] = [conn[d] EXCEPT !.open = @ /\ conn[d].player # p]
    BY <1>1, <1>3
  <2> QED
    BY <2>1, <2>2 DEF ConnType
<1> QED
  BY <1>1, <1>2, <1>3

(* A restart closes the sockets that are served. *)
LEMMA RestartEnds ==
    ASSUME TypeOK, Restarts, NEW c \in Conns
    PROVE  conn'[c].at \in {conn[c].at, "gone"} /\ ~Alive(c)'
<1>1. conn[c] \in ConnType
  BY DEF TypeOK
<1>2. conn'[c] = IF Alive(c) THEN [conn[c] EXCEPT !.at = "gone", !.open = FALSE] ELSE conn[c]
  BY DEF Restarts
<1> QED
  BY <1>1, <1>2 DEF Alive, ConnType

LEMMA NextNamed == TypeOK /\ Named /\ [Next]_vars => Named'
<1> SUFFICES ASSUME TypeOK, Named, [Next]_vars PROVE Named'
  OBVIOUS
<1>1. ASSUME NEW p \in Players, Opens(p)
      PROVE  Named'
  BY <1>1, OpensOne DEF Named, Alive
<1>2. ASSUME NEW p \in Players, Grace(p)
      PROVE  UNCHANGED conn
  BY <1>2 DEF Grace, Forfeits, GraceEnds
<1>3. ASSUME NEW c \in Conns, Closes(c) \/ Handler(c)
      PROVE  Named'
  BY <1>3, OthersStay DEF Named, Alive
<1>4. CASE PlayEnds \/ ForceEnd \/ Expires \/ UNCHANGED vars
  BY <1>4 DEF PlayEnds, ForceEnd, Expires, vars, Named, Alive
<1>5. CASE Restarts
  BY <1>5, RestartEnds DEF Named
<1>6. ASSUME UNCHANGED conn
      PROVE  Named'
  BY <1>6 DEF Named, Alive
<1> QED
  BY <1>1, <1>2, <1>3, <1>4, <1>5, <1>6 DEF Next

(* The active game ends, and is credited unless the room is marked. *)
LEMMA CreditOnEnd ==
    ASSUME TypeOK, Credited, Running(active), UNCHANGED conn, Credits,
           NEW how \in {"play", "grace"}, ending' = [ending EXCEPT ![active] = how]
    PROVE  Credited'
<1>1. active \in Games /\ ending[active] = "running" /\ callbacks[active] = 0
  BY DEF Running, TypeOK, Credited
<1>2. ending'[active] = how /\ \A g \in Games : g # active => ending'[g] = ending[g]
  BY <1>1 DEF TypeOK
<1>3. /\ callbacks'[active] \in {0, 1}
      /\ \A g \in Games : g # active => callbacks'[g] = callbacks[g]
  BY <1>1 DEF Credits, TypeOK
<1>4. \A c \in Conns : MayCreate(c)' => ending'[c] = "unborn"
  BY <1>1, <1>2 DEF Credited, MayCreate, Games
<1> QED
  BY <1>2, <1>3, <1>4 DEF Credited

(* No game is born or credited; one that runs may end. *)
LEMMA GamesStay ==
    ASSUME TypeOK, Credited, UNCHANGED callbacks,
           \A c \in Conns : MayCreate(c)' => MayCreate(c),
           \A g \in Games : ending'[g] = ending[g] \/ (ending[g] = "running" /\ ending'[g] \notin {"unborn", "running"})
    PROVE  Credited'
BY DEF Credited, Games

LEMMA NextCredited == TypeOK /\ Credited /\ [Next]_vars => Credited'
<1> SUFFICES ASSUME TypeOK, Credited, [Next]_vars PROVE Credited'
  OBVIOUS
<1> USE DEF games, credit
<1>1. ASSUME NEW p \in Players, Opens(p)
      PROVE  Credited'
  <2>1. \A c \in Conns : MayCreate(c)' => MayCreate(c)
    BY <1>1, OpensOne DEF MayCreate
  <2>2. UNCHANGED <<ending, callbacks>>
    BY <1>1 DEF Opens
  <2> QED
    BY <2>1, <2>2, GamesStay
<1>2. ASSUME NEW p \in Players, Grace(p)
      PROVE  Credited'
  <2>1. CASE Forfeits(p)
    BY <2>1, CreditOnEnd DEF Forfeits, MayForfeit
  <2>2. CASE GraceEnds(p)
    <3>1. UNCHANGED <<conn, ending, callbacks>>
      BY <2>2 DEF GraceEnds
    <3> QED
      BY <3>1, GamesStay DEF MayCreate
  <2> QED
    BY <1>2, <2>1, <2>2 DEF Grace
<1>3. ASSUME NEW c \in Conns, Handler(c) \/ Closes(c)
      PROVE  Credited'
  <2>1. \A d \in Conns : MayCreate(d)' => MayCreate(d)
    BY <1>3, OthersStay DEF MayCreate
  <2>2. CASE UNCHANGED <<ending, callbacks>>
    BY <2>1, <2>2, GamesStay
  <2>3. CASE Starts(c) /\ ~UNCHANGED games
    <3>1. ending' = [ending EXCEPT ![c] = "running"] /\ callbacks' = callbacks
      BY <2>3 DEF Starts
    <3>2. MayCreate(c) /\ ~MayCreate(c)'
      <4>1. \E n \in 0 .. 2 : conn' = [conn EXCEPT ![c].at = "loop", ![c].number = n]
        BY <2>3 DEF Starts
      <4>2. conn'[c].at = "loop"
        BY <4>1, FieldsStay DEF Labels
      <4> QED
        BY <2>3, <4>2 DEF Starts, MayCreate, Joining
    <3>3. c \in Games /\ callbacks[c] = 0
      BY <3>2 DEF Credited, Games
    <3>4. /\ ending'[c] = "running"
          /\ \A g \in Games : g # c => ending'[g] = ending[g]
      BY <3>1, <3>3 DEF TypeOK
    <3> QED
      BY <2>1, <3>1, <3>2, <3>3, <3>4 DEF Credited, Games
  <2>4. Starts(c) \/ UNCHANGED <<ending, callbacks>>
    BY <1>3 DEF Handler, Closes, Rejoins, Counts, Purges, FirstAdds, FirstRegisters, SecondAdds,
                SecondRegisters, Leaves, BeginsToLeave, Removes, CountsLeft, CleansUp
  <2>5. Starts(c) => UNCHANGED callbacks
    BY DEF Starts
  <2> QED
    BY <2>2, <2>3, <2>4, <2>5
<1>4. CASE PlayEnds
  BY <1>4, CreditOnEnd DEF PlayEnds
<1>5. CASE ForceEnd
  <2>1. active \in Games /\ ending[active] = "running"
    BY <1>5 DEF ForceEnd, Running, TypeOK
  <2>2. \A g \in Games : ending'[g] = ending[g] \/ (ending[g] = "running" /\ ending'[g] = "admin")
    BY <1>5, <2>1 DEF ForceEnd, TypeOK
  <2>3. UNCHANGED <<conn, callbacks>>
    BY <1>5 DEF ForceEnd
  <2> QED
    BY <2>2, <2>3, GamesStay DEF MayCreate
<1>6. CASE Expires \/ UNCHANGED vars
  <2>1. UNCHANGED <<conn, ending, callbacks>>
    BY <1>6 DEF Expires, vars
  <2> QED
    BY <2>1, GamesStay DEF MayCreate
<1>7. CASE Restarts
  <2>1. \A c \in Conns : MayCreate(c)' => MayCreate(c)
    BY <1>7, RestartEnds DEF MayCreate, Joining
  <2>2. \A g \in Games : ending'[g] = ending[g] \/ (ending[g] = "running" /\ ending'[g] = "lost")
    BY <1>7 DEF Restarts
  <2>3. UNCHANGED callbacks
    BY <1>7 DEF Restarts
  <2> QED
    BY <2>1, <2>2, <2>3, GamesStay
<1> QED
  BY <1>1, <1>2, <1>3, <1>4, <1>5, <1>6, <1>7 DEF Next

--------------------------------------------------------------------------------
(* The theorems. *)

(* The inductive invariant holds whatever the handlers of the room do. *)
THEOREM Invariant == Spec => []IInv
<1>1. IInv /\ [Next]_vars => IInv'
  BY NextTypes, NextNamed, NextCredited DEF IInv
<1> QED
  BY <1>1, InitInvariant, PTL DEF Spec

(* The room's maps, its set in Redis, its games and sockets have their types. *)
THEOREM TypeCorrect == Spec => []TypeOK
<1>1. IInv => TypeOK
  BY DEF IInv
<1> QED
  BY <1>1, Invariant, PTL

(* No game is credited twice, with any number of sockets, and also where      *)
(* sockets overlap, handlers interleave, matches follow one another and the   *)
(* server restarts.                                                           *)
THEOREM CreditsOnce == Spec => []CreditedOnce
<1>1. IInv => CreditedOnce
  BY DEF IInv, Credited, CreditedOnce
<1> QED
  BY <1>1, Invariant, PTL

(* What a step does to one match. *)
MatchStep(g) ==
    \/ ending'[g] = ending[g] /\ callbacks'[g] = callbacks[g]
    \/ ending[g] = "unborn" /\ ending'[g] = "running" /\ callbacks'[g] = callbacks[g]
    \/ /\ ending[g] = "running" /\ ending'[g] \in {"play", "grace"}
       /\ callbacks'[g] \in {callbacks[g], callbacks[g] + 1}
    \/ ending[g] = "running" /\ ending'[g] \in {"admin", "lost"} /\ callbacks'[g] = callbacks[g]

LEMMA EndedMatch ==
    ASSUME TypeOK, Running(active), Credits, NEW g \in Games, NEW end \in {"play", "grace"},
           ending' = [ending EXCEPT ![active] = end]
    PROVE  MatchStep(g)
<1>1. active \in Games /\ ending[active] = "running"
  BY DEF Running, TypeOK
<1>2. CASE g = active
  BY <1>1, <1>2 DEF Credits, TypeOK, MatchStep
<1>3. CASE g # active
  BY <1>1, <1>3 DEF Credits, TypeOK, MatchStep
<1> QED
  BY <1>2, <1>3

LEMMA NextMatch == IInv /\ [Next]_vars => \A g \in Games : MatchStep(g)
<1> SUFFICES ASSUME IInv, [Next]_vars, NEW g \in Games PROVE MatchStep(g)
  OBVIOUS
<1> USE DEF IInv, games, credit
<1>1. CASE UNCHANGED <<ending, callbacks>>
  BY <1>1 DEF MatchStep
<1>2. ASSUME NEW p \in Players, Forfeits(p)
      PROVE  MatchStep(g)
  BY <1>2, EndedMatch DEF Forfeits, MayForfeit
<1>3. CASE PlayEnds
  BY <1>3, EndedMatch DEF PlayEnds
<1>4. ASSUME NEW c \in Conns, Starts(c)
      PROVE  MatchStep(g)
  <2>1. conn[c].at = "start" /\ UNCHANGED callbacks
    BY <1>4 DEF Starts
  <2>2. ending[c] = "unborn" /\ c \in Games
    BY <2>1 DEF Credited, MayCreate, Joining, Games
  <2>3. ending' = ending \/ ending' = [ending EXCEPT ![c] = "running"]
    BY <1>4 DEF Starts
  <2> QED
    BY <2>1, <2>2, <2>3 DEF TypeOK, MatchStep
<1>5. CASE ForceEnd
  <2>1. active \in Games /\ ending[active] = "running"
    BY <1>5 DEF ForceEnd, Running, TypeOK
  <2> QED
    BY <1>5, <2>1 DEF ForceEnd, TypeOK, MatchStep
<1>6. CASE Restarts
  BY <1>6 DEF Restarts, MatchStep
<1>7. ASSUME NEW p \in Players, Opens(p) \/ GraceEnds(p)
      PROVE  UNCHANGED <<ending, callbacks>>
  BY <1>7 DEF Opens, GraceEnds
<1>8. ASSUME NEW c \in Conns, Handler(c) \/ Closes(c)
      PROVE  Starts(c) \/ UNCHANGED <<ending, callbacks>>
  BY <1>8 DEF Handler, Closes, Rejoins, Counts, Purges, FirstAdds, FirstRegisters, SecondAdds,
              SecondRegisters, Leaves, BeginsToLeave, Removes, CountsLeft, CleansUp
<1>9. CASE Expires \/ UNCHANGED vars
  BY <1>1, <1>9 DEF Expires, vars
<1> QED
  BY <1>1, <1>2, <1>3, <1>4, <1>5, <1>6, <1>7, <1>8, <1>9 DEF Next, Grace

(* With any number of sockets, and also where sockets overlap, handlers       *)
(* interleave, matches follow one another and the server restarts: of every   *)
(* match in the room there is one verdict, and the credit that MatchCredit    *)
(* allows for it.                                                             *)
THEOREM RoomKeepsCredit == Spec => ImplementsMatchCredit
<1>1. Init => \A g \in Games : Credit(g)!Init
  BY DEF Init, Credit!Init
<1>2. ASSUME NEW g \in Games, MatchStep(g)
      PROVE  [Credit(g)!Next]_(Credit(g)!vars)
  BY <1>2 DEF MatchStep, Credit!Next, Credit!Decide, Credit!Pay, Credit!vars, Credit!Earned, Credit!Unearned
<1>3. IInv /\ [Next]_vars => [\A g \in Games : [Credit(g)!Next]_(Credit(g)!vars)]_vars
  BY <1>2, NextMatch
<1> QED
  BY <1>1, <1>3, Invariant, PTL DEF Spec, ImplementsMatchCredit

--------------------------------------------------------------------------------
(***************************************************************************)
(* The two players of one match whose handlers do not meet: each seat is   *)
(* its player's, messages reach who is connected, who is absent is on the  *)
(* clock, and only who is absent forfeits, for any number of sockets,      *)
(* restarts and expiries.                                                  *)
(***************************************************************************)

(* There are at most two players, and none of the room's three troubles. *)
Pair == \A p, q, r \in Players : p = q \/ q = r \/ p = r

Calm == ~Overlap /\ ~Interleaved /\ ~Rematch /\ Pair

Busy == Joining \cup Leaving

(* One handler at a time is between two Redis calls; a player has one. *)
OneBusy == \A c, d \in Conns : conn[c].at \in Busy /\ conn[d].at \in Busy => c = d

OneEach ==
    \A c, d \in Conns : Alive(c) /\ Alive(d) /\ conn[c].player = conn[d].player => c = d

(* A running game has two different players, is the only one, and the      *)
(* process knows its room.                                                 *)
Fixture ==
    /\ active # None => roomKnown
    /\ Running(active) =>
         /\ ~Ended
         /\ seat[active][1] \in Players /\ seat[active][2] \in Players
         /\ seat[active][1] # seat[active][2]

Plays(p) == Running(active) /\ Seated(p, active)

(* Who has arrived has both entries; but the first player's entries replace *)
(* those of a player whose membership expired before the match.             *)
Entered(c) ==
    LET p == conn[c].player
    IN  /\ roomKnown
        /\ playerConnections[p] = c
        /\ \/ roomConnections[p] = c
           \/ conn[c].at = "loop" /\ p \notin members /\ ~Plays(p)

Entries == \A c \in Conns : conn[c].at \in {"loop", "start", "rejoin"} => Entered(c)

(* Nobody joins a running game or after it, and what a joining handler saw *)
(* in Redis is still so.                                                   *)
Joins ==
    \A c \in Conns :
        LET p == conn[c].player
        IN  /\ conn[c].at \in Joining \ {"rejoin"} => ~Running(active) /\ ~Ended
            /\ conn[c].at = "rejoin" => active # None
            /\ conn[c].at = "first" => members = {}
            /\ conn[c].at = "purge" => ~roomKnown
            /\ conn[c].at = "first register" => members = {p}
            /\ conn[c].at = "second" => roomKnown /\ members # {} /\ p \notin members
            /\ conn[c].at \in {"second register", "start"} =>
                 roomKnown /\ p \in members /\ members # {p}

(* The members of a room the process knows have a handler. *)
Present ==
    {"loop", "rejoin", "first register", "second register", "start", "srem"}

MembersPresent ==
    roomKnown =>
        \A p \in members : \E c \in Conns : conn[c].player = p /\ conn[c].at \in Present

(* Only who plays or has played is not number 1, and players have the       *)
(* number of their seat.                                                    *)
NumberFits(c) ==
    /\ conn[c].number = 1 \/ Running(active) \/ Ended
    /\ Plays(conn[c].player) => conn[c].number = SeatOf(conn[c].player, active)

Numbered ==
    \A c \in Conns : conn[c].at \in {"loop", "rejoin"} /\ conn[c].open => NumberFits(c)

(* The finally clause still knows the room's game, and deletes none that    *)
(* is running.                                                              *)
Leavers ==
    \A c \in Conns :
        /\ conn[c].at \in Leaving => conn[c].state = active
        /\ conn[c].at = "delete" => ~Running(active) /\ members = {}

Clocked ==
    /\ AbsentOnClock
    /\ \A p \in Players : grace[p] = "crediting" => Ended

CInv ==
    /\ OneBusy /\ OneEach /\ Fixture /\ Entries /\ Joins /\ MembersPresent
    /\ Numbered /\ Leavers /\ Clocked

--------------------------------------------------------------------------------
LEMMA InitCalm == Init => CInv
<1> SUFFICES ASSUME Init PROVE CInv
  OBVIOUS
<1>1. /\ \A c \in Conns : conn[c].at = "unused"
      /\ active = None /\ members = {} /\ ~roomKnown
      /\ \A p \in Players : grace[p] = "none"
  BY DEF Init
<1>2. OneBusy /\ OneEach /\ Entries /\ Joins /\ Numbered /\ Leavers
  BY <1>1 DEF OneBusy, OneEach, Entries, Joins, Numbered, Leavers, Busy, Joining, Leaving, Alive
<1>3. Fixture /\ MembersPresent /\ Clocked
  BY <1>1 DEF Fixture, MembersPresent, Clocked, AbsentOnClock, Running
<1> QED
  BY <1>2, <1>3 DEF CInv

(* Of a socket that is not socket c, nothing changes. *)
Others(c) == \A d \in Conns : d # c => conn'[d] = conn[d]

Kept(c) ==
    /\ conn'[c].player = conn[c].player /\ conn'[c].open = conn[c].open
    /\ conn'[c].number = conn[c].number /\ conn'[c].state = conn[c].state

LEMMA GotoFacts ==
    ASSUME TypeOK, NEW c \in Conns, NEW label, Goto(c, label)
    PROVE  Others(c) /\ Kept(c) /\ conn'[c].at = label
BY DEF TypeOK, ConnType, Goto, Others, Kept

(* While one handler is between two Redis calls, every other is not. *)
LEMMA Alone ==
    ASSUME OneBusy, NEW c \in Conns, conn[c].at \in Busy
    PROVE  \A d \in Conns : d # c => conn[d].at \notin Busy
BY DEF OneBusy

LEMMA AlivePlayer ==
    ASSUME Named, NEW c \in Conns, Alive(c)
    PROVE  conn[c].player \in Players
BY DEF Named

(* In a running game of a pair of players everybody plays. *)
LEMMA EverybodyPlays ==
    ASSUME Pair, Fixture, NEW p \in Players, Running(active)
    PROVE  Plays(p)
<1>1. /\ seat[active][1] \in Players /\ seat[active][2] \in Players
      /\ seat[active][1] # seat[active][2]
  BY DEF Fixture
<1>2. p = seat[active][1] \/ p = seat[active][2]
  BY <1>1 DEF Pair
<1> QED
  BY <1>2 DEF Plays, Seated

(* A handler's step leaves it the only one at work, and its player's. *)
LEMMA StaysAlone ==
    ASSUME OneBusy, OneEach, NEW c \in Conns, conn[c].at \in Busy,
           Others(c), conn'[c].player = conn[c].player
    PROVE  OneBusy' /\ OneEach'
<1>1. \A d \in Conns : d # c => conn[d].at \notin Busy
  BY Alone
<1>2. \A d \in Conns : conn'[d].at \in Busy => d = c
  BY <1>1 DEF Others
<1>3. Alive(c)
  BY DEF Alive, Busy, Joining, Leaving
<1>4. \A d \in Conns : Alive(d)' => Alive(d) /\ conn'[d].player = conn[d].player
  BY <1>3 DEF Alive, Others
<1> QED
  BY <1>2, <1>4 DEF OneBusy, OneEach

(* A handler that is still at work without a place in the room has no       *)
(* membership either.                                                       *)
LEMMA NoMember ==
    ASSUME OneEach, MembersPresent, roomKnown,
           NEW c \in Conns, Alive(c), conn[c].at \notin Present
    PROVE  conn[c].player \notin members
<1> SUFFICES ASSUME conn[c].player \in members PROVE FALSE
  OBVIOUS
<1>1. PICK d \in Conns : conn[d].player = conn[c].player /\ conn[d].at \in Present
  BY DEF MembersPresent
<1>2. Alive(d)
  BY <1>1 DEF Alive, Present
<1> QED
  BY <1>1, <1>2 DEF OneEach

(* Nobody but the player of socket c becomes a member, and that player only *)
(* as long as there is a handler.                                           *)
LEMMA StayPresent ==
    ASSUME MembersPresent, NEW c \in Conns, Others(c), UNCHANGED roomKnown,
           conn'[c].player = conn[c].player,
           members' \subseteq members \cup {conn[c].player},
           roomKnown /\ conn[c].player \in members' => conn'[c].at \in Present
    PROVE  MembersPresent'
<1> SUFFICES ASSUME roomKnown, NEW p \in members'
             PROVE  \E d \in Conns : conn'[d].player = p /\ conn'[d].at \in Present
  BY DEF MembersPresent
<1>1. CASE p = conn[c].player
  BY <1>1
<1>2. CASE p # conn[c].player
  <2>1. PICK d \in Conns : conn[d].player = p /\ conn[d].at \in Present
    BY <1>2 DEF MembersPresent
  <2>2. conn'[d] = conn[d]
    BY <1>2, <2>1 DEF Others
  <2> QED
    BY <2>1, <2>2
<1> QED
  BY <1>1, <1>2

(* Steps that leave the game alone. *)
LEMMA GameKept ==
    ASSUME Fixture, Clocked, roomKnown => roomKnown',
           UNCHANGED <<roomConnections, active, seat, ending, grace>>
    PROVE  Fixture' /\ Clocked'
BY DEF Fixture, Clocked, AbsentOnClock, Running, Ended, Seated

(* Steps of a handler that does not get into the loop. *)
LEMMA NumbersKept ==
    ASSUME Numbered, NEW c \in Conns, Others(c), conn'[c].at \notin {"loop", "rejoin"},
           UNCHANGED <<active, seat, ending>>
    PROVE  Numbered'
BY DEF Numbered, NumberFits, Others, Plays, Running, Ended, Seated, SeatOf

LEMMA EntriesKept ==
    ASSUME Entries, NEW c \in Conns, Others(c), conn'[c].at \notin {"loop", "start", "rejoin"},
           \A d \in Conns : d # c /\ Alive(d) /\ conn[d].player \in members' =>
                              conn[d].player \in members,
           UNCHANGED <<playerConnections, roomKnown, roomConnections, active, seat, ending>>
    PROVE  Entries'
<1> SUFFICES ASSUME NEW d \in Conns, conn'[d].at \in {"loop", "start", "rejoin"}
             PROVE  Entered(d)'
  BY DEF Entries
<1>1. d # c /\ conn'[d] = conn[d] /\ Alive(d)
  BY DEF Others, Alive
<1>2. Entered(d)
  BY <1>1 DEF Entries
<1> QED
  BY <1>1, <1>2 DEF Entered, Plays, Running, Seated

LEMMA RejoinsCalm ==
    ASSUME IInv, CInv, NEW c \in Conns, Rejoins(c)
    PROVE  CInv'
<1>1. Others(c) /\ Kept(c) /\ conn'[c].at = "loop" /\ conn[c].at = "rejoin"
  BY GotoFacts DEF Rejoins, IInv
<1>2. conn[c].at \in Busy /\ \A d \in Conns : d # c => conn[d].at \notin Busy
  BY <1>1, Alone DEF CInv, Busy, Joining
<1>3. /\ members' = members \cup {conn[c].player}
      /\ UNCHANGED <<playerConnections, roomKnown, roomConnections, active, seat, ending, grace>>
  BY DEF Rejoins, SetMembers, maps, games
<1>4. OneBusy' /\ OneEach'
  BY <1>1, <1>2, StaysAlone DEF CInv, Kept
<1>5. Fixture' /\ Clocked'
  BY <1>3, GameKept DEF CInv
<1>6. Entries'
  BY <1>1, <1>2, <1>3 DEF CInv, Entries, Entered, OneEach, Others, Kept, Alive, Plays, Running, Seated
<1>7. Joins' /\ Leavers'
  BY <1>1, <1>2 DEF Joins, Leavers, Others, Busy, Joining, Leaving
<1>8. MembersPresent'
  BY <1>1, <1>3, StayPresent DEF CInv, Kept, Present
<1>9. Numbered'
  BY <1>1, <1>3 DEF CInv, Numbered, NumberFits, Others, Kept, Plays, Running, Ended, Seated, SeatOf
<1> QED
  BY <1>4, <1>5, <1>6, <1>7, <1>8, <1>9 DEF CInv

(* A full room never refuses one of two players. *)
LEMMA CountsCalm ==
    ASSUME Pair, IInv, CInv, NEW c \in Conns, Counts(c)
    PROVE  CInv'
<1>1. conn[c].at = "count"
  BY DEF Counts
<1>2. conn[c].at \in Busy /\ \A d \in Conns : d # c => conn[d].at \notin Busy
  BY <1>1, Alone DEF CInv, Busy, Joining
<1>3. Alive(c) /\ conn[c].at \notin Present
  BY <1>1 DEF Alive, Present
<1>4. conn[c].player \in Players
  BY <1>3 DEF IInv, Named
<1>5. roomKnown => conn[c].player \notin members
  BY <1>3, NoMember DEF CInv
<1>6. ~StaleMembers => Cardinality(members) < 2
  <2> SUFFICES ASSUME members # {}, roomKnown PROVE Cardinality(members) < 2
    BY FS_EmptySet DEF StaleMembers
  <2>1. PICK q : q \in members
    OBVIOUS
  <2>2. members \subseteq Players
    BY DEF IInv, TypeOK
  <2>3. \A r \in members : r = q
    BY <1>4, <1>5, <2>1, <2>2 DEF Pair
  <2>4. members = {q}
    BY <2>1, <2>3
  <2>5. Cardinality({q}) = 1
    BY FS_Singleton
  <2> QED
    BY <2>4, <2>5
<1>7. ~StaleMembers => ~(Cardinality(members) >= 2)
  <2>1. IsFiniteSet(members)
    BY RoomAssumption, FS_Subset DEF IInv, TypeOK
  <2>2. Cardinality(members) \in Nat
    BY <2>1, FS_CardinalityType
  <2> QED
    BY <1>6, <2>2
<1>8. PICK label \in {"purge", "first", "second"} :
        /\ Goto(c, label)
        /\ label = "purge" => ~roomKnown
        /\ label = "first" => members = {}
        /\ label = "second" => roomKnown /\ members # {}
  BY <1>7 DEF Counts, StaleMembers
<1>9. UNCHANGED <<playerConnections, roomKnown, roomConnections, members,
                  active, seat, ending, grace>>
  BY <1>7 DEF Counts, maps, redis, games
<1>10. Others(c) /\ Kept(c) /\ conn'[c].at = label
  BY <1>8, GotoFacts DEF IInv
<1>11. OneBusy' /\ OneEach'
  BY <1>2, <1>10, StaysAlone DEF CInv, Kept
<1>12. Fixture' /\ Clocked'
  BY <1>9, GameKept DEF CInv
<1>13. Entries'
  BY <1>9, <1>10 DEF CInv, Entries, Entered, Others, Kept, Plays, Running, Seated
<1>14. Joins'
  <2>1. ~Running(active) /\ ~Ended
    BY <1>1 DEF CInv, Joins, Joining
  <2> QED
    BY <1>2, <1>5, <1>8, <1>9, <1>10, <2>1
       DEF Joins, Others, Kept, Busy, Joining, Running, Ended
<1>15. Leavers'
  BY <1>2, <1>10 DEF Leavers, Others, Busy, Leaving
<1>16. MembersPresent'
  BY <1>5, <1>9, <1>10, StayPresent DEF CInv, Kept
<1>17. Numbered'
  BY <1>9, <1>10 DEF CInv, Numbered, NumberFits, Others, Kept, Plays, Running, Ended, Seated, SeatOf
<1> QED
  BY <1>11, <1>12, <1>13, <1>14, <1>15, <1>16, <1>17 DEF CInv

LEMMA PurgesCalm ==
    ASSUME IInv, CInv, NEW c \in Conns, Purges(c)
    PROVE  CInv'
<1>1. Others(c) /\ Kept(c) /\ conn'[c].at = "first" /\ conn[c].at = "purge"
  BY GotoFacts DEF Purges, IInv
<1>2. conn[c].at \in Busy /\ \A d \in Conns : d # c => conn[d].at \notin Busy
  BY <1>1, Alone DEF CInv, Busy, Joining
<1>3. ~roomKnown /\ ~Running(active) /\ ~Ended
  BY <1>1 DEF CInv, Joins, Joining
<1>4. active = None
  BY <1>3 DEF CInv, Fixture
<1>5. /\ members' = {} /\ active' = active
      /\ UNCHANGED <<playerConnections, roomKnown, roomConnections, seat, ending, grace>>
  BY <1>4 DEF Purges, SetMembers, maps
<1>6. OneBusy' /\ OneEach'
  BY <1>1, <1>2, StaysAlone DEF CInv, Kept
<1>7. Fixture' /\ Clocked'
  BY <1>5, GameKept DEF CInv
<1>8. Entries'
  BY <1>1, <1>5 DEF CInv, Entries, Entered, Others, Kept, Plays, Running, Seated
<1>9. Joins' /\ Leavers'
  BY <1>1, <1>2, <1>3, <1>5 DEF Joins, Leavers, Others, Kept, Busy, Joining, Leaving, Running, Ended
<1>10. MembersPresent'
  BY <1>3, <1>5 DEF MembersPresent
<1>11. Numbered'
  BY <1>1, <1>5 DEF CInv, Numbered, NumberFits, Others, Kept, Plays, Running, Ended, Seated, SeatOf
<1> QED
  BY <1>6, <1>7, <1>8, <1>9, <1>10, <1>11 DEF CInv

(* The player's membership is added, and the handler goes on to its entries. *)
LEMMA AddsCalm ==
    ASSUME IInv, CInv, NEW c \in Conns, FirstAdds(c) \/ SecondAdds(c)
    PROVE  CInv'
<1>1. PICK label \in {"first register", "second register"} :
        /\ Goto(c, label)
        /\ label = "first register" => conn[c].at = "first"
        /\ label = "second register" => conn[c].at = "second"
  BY DEF FirstAdds, SecondAdds
<1>2. Others(c) /\ Kept(c) /\ conn'[c].at = label
  BY <1>1, GotoFacts DEF IInv
<1>3. conn[c].at \in Busy /\ \A d \in Conns : d # c => conn[d].at \notin Busy
  BY <1>1, Alone DEF CInv, Busy, Joining
<1>4. ~Running(active) /\ ~Ended
  BY <1>1 DEF CInv, Joins, Joining
<1>5. /\ members' = members \cup {conn[c].player}
      /\ UNCHANGED <<playerConnections, roomKnown, roomConnections, active, seat, ending, grace>>
  BY DEF FirstAdds, SecondAdds, SetMembers, maps, games
<1>6. OneBusy' /\ OneEach'
  BY <1>2, <1>3, StaysAlone DEF CInv, Kept
<1>7. Fixture' /\ Clocked'
  BY <1>5, GameKept DEF CInv
<1>8. Entries'
  <2>1. \A d \in Conns : d # c /\ Alive(d) => conn[d].player # conn[c].player
    BY <1>3 DEF CInv, OneEach, Alive, Busy, Joining, Leaving
  <2> QED
    BY <1>2, <1>5, <2>1, EntriesKept DEF CInv
<1>9. Joins'
  <2>1. conn[c].at = "first" => members = {}
    BY DEF CInv, Joins
  <2>2. conn[c].at = "second" => roomKnown /\ members # {} /\ conn[c].player \notin members
    BY DEF CInv, Joins
  <2>3. label = "first register" => members' = {conn[c].player}
    BY <1>1, <1>5, <2>1
  <2>4. label = "second register" =>
          roomKnown /\ conn[c].player \in members' /\ members' # {conn[c].player}
    BY <1>1, <1>5, <2>2
  <2> QED
    BY <1>2, <1>3, <1>4, <1>5, <2>3, <2>4
       DEF Joins, Others, Kept, Busy, Joining, Running, Ended
<1>10. Leavers'
  BY <1>2, <1>3 DEF Leavers, Others, Busy, Leaving
<1>11. MembersPresent'
  BY <1>2, <1>5, StayPresent DEF CInv, Kept, Present
<1>12. Numbered'
  BY <1>2, <1>5, NumbersKept DEF CInv
<1> QED
  BY <1>6, <1>7, <1>8, <1>9, <1>10, <1>11, <1>12 DEF CInv

(* The first player's entries replace those of the room. *)
LEMMA FirstRegistersCalm ==
    ASSUME IInv, CInv, NEW c \in Conns, FirstRegisters(c)
    PROVE  CInv'
<1> DEFINE p == conn[c].player
<1>1. conn[c].at = "first register"
  BY DEF FirstRegisters
<1>2. conn[c].at \in Busy /\ \A d \in Conns : d # c => conn[d].at \notin Busy
  BY <1>1, Alone DEF CInv, Busy, Joining
<1>3. ~Running(active) /\ ~Ended /\ members = {p}
  BY <1>1 DEF CInv, Joins, Joining
<1>4. p \in Players
  BY <1>1 DEF IInv, Named, Alive
<1>5. /\ Others(c) /\ conn'[c].at = "loop" /\ conn'[c].player = p /\ conn'[c].number = 1
  BY DEF FirstRegisters, IInv, TypeOK, ConnType, Others
<1>6. /\ playerConnections' = [playerConnections EXCEPT ![p] = c]
      /\ roomConnections' = [[q \in Players |-> None] EXCEPT ![p] = c]
      /\ roomKnown'
      /\ UNCHANGED <<members, active, seat, ending, grace>>
  BY DEF FirstRegisters, Register, games
<1>7. playerConnections'[p] = c /\ \A q \in Players : q # p => playerConnections'[q] = playerConnections[q]
  BY <1>4, <1>6 DEF IInv, TypeOK
<1>8. roomConnections'[p] = c
  BY <1>4, <1>6
<1>9. OneBusy' /\ OneEach'
  BY <1>2, <1>5, StaysAlone DEF CInv
<1>10. Fixture' /\ Clocked'
  BY <1>3, <1>6 DEF CInv, Fixture, Clocked, AbsentOnClock, Running, Ended
<1>11. Entries'
  <2> SUFFICES ASSUME NEW d \in Conns, conn'[d].at \in {"loop", "start", "rejoin"}
               PROVE  Entered(d)'
    BY DEF Entries
  <2>1. CASE d = c
    BY <2>1, <1>5, <1>6, <1>7, <1>8 DEF Entered
  <2>2. CASE d # c
    <3>1. conn'[d] = conn[d] /\ conn[d].at = "loop"
      BY <2>2, <1>2, <1>5 DEF Others, Busy, Joining
    <3>2. conn[d].player # p /\ conn[d].player \in Players
      BY <2>2, <3>1, <1>1 DEF CInv, OneEach, Alive, IInv, Named
    <3>3. playerConnections[conn[d].player] = d
      BY <3>1 DEF CInv, Entries, Entered
    <3> QED
      BY <3>1, <3>2, <3>3, <1>3, <1>6, <1>7 DEF Entered, Plays, Running
  <2> QED
    BY <2>1, <2>2
<1>12. Joins' /\ Leavers'
  BY <1>2, <1>5 DEF Joins, Leavers, Others, Busy, Joining, Leaving
<1>13. MembersPresent'
  BY <1>3, <1>5, <1>6 DEF MembersPresent, Present
<1>14. Numbered'
  BY <1>3, <1>5, <1>6 DEF CInv, Numbered, NumberFits, Others, Plays, Running, Ended
<1> QED
  BY <1>9, <1>10, <1>11, <1>12, <1>13, <1>14 DEF CInv

LEMMA SecondRegistersCalm ==
    ASSUME IInv, CInv, NEW c \in Conns, SecondRegisters(c)
    PROVE  CInv'
<1> DEFINE p == conn[c].player
<1>1. Others(c) /\ Kept(c) /\ conn'[c].at = "start" /\ conn[c].at = "second register"
  BY GotoFacts DEF SecondRegisters, IInv
<1>2. conn[c].at \in Busy /\ \A d \in Conns : d # c => conn[d].at \notin Busy
  BY <1>1, Alone DEF CInv, Busy, Joining
<1>3. /\ ~Running(active) /\ ~Ended
      /\ roomKnown /\ p \in members /\ members # {p}
  BY <1>1 DEF CInv, Joins, Joining
<1>4. p \in Players
  BY <1>1 DEF IInv, Named, Alive
<1>5. /\ playerConnections' = [playerConnections EXCEPT ![p] = c]
      /\ roomConnections' = [roomConnections EXCEPT ![p] = c]
      /\ roomKnown' = roomKnown
      /\ UNCHANGED <<members, active, seat, ending, grace>>
  BY <1>3 DEF SecondRegisters, Register, games, IInv, TypeOK
<1>6. /\ playerConnections'[p] = c /\ roomConnections'[p] = c
      /\ \A q \in Players : q # p => /\ playerConnections'[q] = playerConnections[q]
                                     /\ roomConnections'[q] = roomConnections[q]
  BY <1>4, <1>5 DEF IInv, TypeOK
<1>7. OneBusy' /\ OneEach'
  BY <1>1, <1>2, StaysAlone DEF CInv, Kept
<1>8. Fixture' /\ Clocked'
  BY <1>3, <1>5 DEF CInv, Fixture, Clocked, AbsentOnClock, Running, Ended
<1>9. Entries'
  <2> SUFFICES ASSUME NEW d \in Conns, conn'[d].at \in {"loop", "start", "rejoin"}
               PROVE  Entered(d)'
    BY DEF Entries
  <2>1. CASE d = c
    BY <2>1, <1>1, <1>3, <1>5, <1>6 DEF Entered, Kept
  <2>2. CASE d # c
    <3>1. conn'[d] = conn[d] /\ conn[d].at = "loop"
      BY <2>2, <1>1, <1>2 DEF Others, Busy, Joining
    <3>2. conn[d].player # p /\ conn[d].player \in Players
      BY <2>2, <3>1, <1>1 DEF CInv, OneEach, Alive, IInv, Named
    <3>3. /\ playerConnections[conn[d].player] = d
          /\ roomConnections[conn[d].player] = d \/ conn[d].player \notin members
      BY <3>1 DEF CInv, Entries, Entered
    <3> QED
      BY <3>1, <3>2, <3>3, <1>3, <1>5, <1>6 DEF Entered, Plays, Running
  <2> QED
    BY <2>1, <2>2
<1>10. Joins'
  BY <1>1, <1>2, <1>3, <1>5 DEF Joins, Others, Kept, Busy, Joining, Running, Ended
<1>11. Leavers'
  BY <1>1, <1>2 DEF Leavers, Others, Busy, Leaving
<1>12. MembersPresent'
  BY <1>1, <1>5, StayPresent DEF CInv, Kept, Present
<1>13. Numbered'
  BY <1>1, <1>5, NumbersKept DEF CInv
<1> QED
  BY <1>7, <1>8, <1>9, <1>10, <1>11, <1>12, <1>13 DEF CInv

(* The game starts between two members who are both there. *)
LEMMA StartsCalm ==
    ASSUME IInv, CInv, NEW c \in Conns, Starts(c)
    PROVE  CInv'
<1> DEFINE p == conn[c].player
<1>1. /\ conn[c].at = "start"
      /\ UNCHANGED <<playerConnections, roomKnown, roomConnections, members, grace>>
  BY DEF Starts, maps, redis
<1>2. conn[c].at \in Busy /\ \A d \in Conns : d # c => conn[d].at \notin Busy
  BY <1>1, Alone DEF CInv, Busy, Joining
<1>3. /\ ~Running(active) /\ ~Ended
      /\ roomKnown /\ p \in members /\ members # {p}
  BY <1>1 DEF CInv, Joins, Joining
<1>4. p \in Players /\ members \subseteq Players
  BY <1>1 DEF IInv, Named, Alive, TypeOK
<1>5. /\ Others(c) /\ conn'[c].at = "loop" /\ conn'[c].number = 2
      /\ conn'[c].player = p /\ conn'[c].open = conn[c].open
  BY DEF Starts, IInv, TypeOK, ConnType, Others
<1>6. playerConnections[p] = c /\ roomConnections[p] = c
  BY <1>1 DEF CInv, Entries, Entered
<1>7. OneBusy' /\ OneEach'
  BY <1>2, <1>5, StaysAlone DEF CInv
<1>8. Joins' /\ Leavers'
  BY <1>2, <1>5 DEF Joins, Leavers, Others, Busy, Joining, Leaving
<1>9. MembersPresent'
  BY <1>1, <1>5, StayPresent DEF CInv, Present
<1>10. CASE UNCHANGED <<active, seat, ending>> /\ ~conn[c].open
  <2>1. Fixture' /\ Clocked'
    BY <1>1, <1>10, GameKept DEF CInv
  <2>2. Entries'
    <3> SUFFICES ASSUME NEW d \in Conns, conn'[d].at \in {"loop", "start", "rejoin"}
                 PROVE  Entered(d)'
      BY DEF Entries
    <3>1. CASE d = c
      BY <3>1, <1>1, <1>3, <1>5, <1>6 DEF Entered
    <3>2. CASE d # c
      BY <3>2, <1>1, <1>5, <1>10 DEF CInv, Entries, Entered, Others, Plays, Running, Seated
    <3> QED
      BY <3>1, <3>2
  <2>3. Numbered'
    BY <1>5, <1>10 DEF CInv, Numbered, NumberFits, Others, Plays, Running, Ended, Seated, SeatOf
  <2> QED
    BY <1>7, <1>8, <1>9, <2>1, <2>2, <2>3 DEF CInv
<1>11. CASE ~(UNCHANGED <<active, seat, ending>> /\ ~conn[c].open)
  <2>1. PICK p1 \in FirstPlayers(p) : seat' = [seat EXCEPT ![c] = <<p1, p>>]
    BY <1>11 DEF Starts, games
  <2>2. ending' = [ending EXCEPT ![c] = "running"] /\ active' = c
    BY <1>11 DEF Starts, games
  <2>3. p1 \in members /\ p1 # p /\ p1 \in Players
    BY <1>3, <1>4, <2>1 DEF FirstPlayers
  <2>4. seat'[active'][1] = p1 /\ seat'[active'][2] = p
    BY <2>1, <2>2 DEF IInv, TypeOK, Games
  <2>5. Running(active)' /\ ~Ended'
    BY <1>3, <2>2 DEF Running, Ended, IInv, TypeOK, Games, Conns, None
  <2>6. PICK e \in Conns : conn[e].player = p1 /\ conn[e].at \in Present
    BY <1>3, <2>3 DEF CInv, MembersPresent
  <2>7. e # c /\ conn[e].at = "loop"
    BY <1>2, <2>3, <2>6 DEF Present, Busy, Joining, Leaving
  <2>8. roomConnections[p1] = e
    BY <2>3, <2>6, <2>7 DEF CInv, Entries, Entered
  <2>9. Fixture'
    BY <1>1, <1>3, <1>4, <2>3, <2>4, <2>5 DEF Fixture
  <2>10. Clocked'
    <3>1. \A q \in Players : grace[q] # "crediting"
      BY <1>3 DEF CInv, Clocked
    <3>2. \A q \in Players : Seated(q, active)' => roomConnections[q] \in Conns
      BY <1>6, <2>4, <2>8 DEF Seated
    <3>3. AbsentOnClock'
      BY <1>1, <3>2 DEF AbsentOnClock, Conns, None
    <3> QED
      BY <1>1, <3>1, <3>3 DEF Clocked
  <2>11. Entries'
    <3> SUFFICES ASSUME NEW d \in Conns, conn'[d].at \in {"loop", "start", "rejoin"}
                 PROVE  Entered(d)'
      BY DEF Entries
    <3>1. CASE d = c
      BY <3>1, <1>1, <1>3, <1>5, <1>6 DEF Entered
    <3>2. CASE d # c
      <4>1. conn'[d] = conn[d] /\ conn[d].at = "loop"
        BY <3>2, <1>2, <1>5 DEF Others, Busy, Joining
      <4>2. conn[d].player # p
        BY <3>2, <4>1, <1>1 DEF CInv, OneEach, Alive
      <4>3. Entered(d)
        BY <4>1 DEF CInv, Entries
      <4>4. conn[d].player \notin members => ~Plays(conn[d].player)'
        BY <4>1, <4>2, <2>3, <2>4 DEF Plays, Seated
      <4> QED
        BY <4>1, <4>3, <4>4, <1>1 DEF Entered, Plays, Running, Seated
    <3> QED
      BY <3>1, <3>2
  <2>12. Numbered'
    <3> SUFFICES ASSUME NEW d \in Conns, conn'[d].at \in {"loop", "rejoin"}, conn'[d].open
                 PROVE  NumberFits(d)'
      BY DEF Numbered
    <3>1. CASE d = c
      BY <3>1, <1>5, <2>3, <2>4, <2>5 DEF NumberFits, SeatOf
    <3>2. CASE d # c
      <4>1. conn'[d] = conn[d] /\ conn[d].at = "loop" /\ conn[d].open
        BY <3>2, <1>2, <1>5 DEF Others, Busy, Joining
      <4>2. conn[d].player # p
        BY <3>2, <4>1, <1>1 DEF CInv, OneEach, Alive
      <4>3. conn[d].number = 1
        BY <4>1, <1>3 DEF CInv, Numbered, NumberFits
      <4> QED
        BY <4>1, <4>2, <4>3, <2>4, <2>5 DEF NumberFits, Plays, Seated, SeatOf
    <3> QED
      BY <3>1, <3>2
  <2> QED
    BY <1>7, <1>8, <1>9, <2>9, <2>10, <2>11, <2>12 DEF CInv
<1> QED
  BY <1>10, <1>11

--------------------------------------------------------------------------------
(* A socket's end. *)

LEMMA ClosesCalm ==
    ASSUME IInv, CInv, NEW c \in Conns, Closes(c)
    PROVE  CInv'
<1>1. /\ \A d \in Conns : /\ conn'[d].at = conn[d].at /\ conn'[d].player = conn[d].player
                          /\ conn'[d].number = conn[d].number /\ conn'[d].state = conn[d].state
                          /\ conn'[d].open => conn[d].open
      /\ UNCHANGED <<playerConnections, roomKnown, roomConnections, members,
                     active, seat, ending, grace>>
  BY DEF Closes, IInv, TypeOK, ConnType, maps, redis, games
<1>2. OneBusy' /\ OneEach'
  BY <1>1 DEF CInv, OneBusy, OneEach, Alive
<1>3. Fixture' /\ Clocked'
  BY <1>1, GameKept DEF CInv
<1>4. Entries'
  BY <1>1 DEF CInv, Entries, Entered, Plays, Running, Seated
<1>5. Joins' /\ Leavers'
  BY <1>1 DEF CInv, Joins, Leavers, Running, Ended
<1>6. MembersPresent'
  BY <1>1 DEF CInv, MembersPresent
<1>7. Numbered'
  BY <1>1 DEF CInv, Numbered, NumberFits, Plays, Running, Ended, Seated, SeatOf
<1> QED
  BY <1>2, <1>3, <1>4, <1>5, <1>6, <1>7 DEF CInv

(* Who leaves a running game is on the clock at once. *)
LEMMA LeavesCalm ==
    ASSUME Calm, IInv, CInv, NEW c \in Conns, Leaves(c)
    PROVE  CInv'
<1> DEFINE p == conn[c].player
<1>1. conn[c].at = "loop" /\ \A d \in Conns : conn[d].at \notin Busy
  BY DEF Leaves, Calm, Quiet, Busy
<1>2. p \in Players /\ Alive(c)
  BY <1>1 DEF IInv, Named, Alive
<1>3. /\ Others(c) /\ conn'[c].at = "srem" /\ conn'[c].player = p /\ conn'[c].state = active
  BY DEF Leaves, BeginsToLeave, IInv, TypeOK, ConnType, Others
<1>4. /\ \A q \in Players : q # p => /\ playerConnections'[q] = playerConnections[q]
                                     /\ roomConnections'[q] = roomConnections[q]
      /\ UNCHANGED <<roomKnown, members, active, seat, ending>>
  BY DEF Leaves, BeginsToLeave, Absent, redis, games, IInv, TypeOK
<1>5. GraceStarts(p)
  BY DEF Leaves, BeginsToLeave
<1>6. OneBusy'
  BY <1>1, <1>3 DEF OneBusy, Others
<1>7. OneEach'
  <2>1. \A d \in Conns : Alive(d)' => Alive(d) /\ conn'[d].player = conn[d].player
    BY <1>2, <1>3 DEF Alive, Others
  <2> QED
    BY <2>1 DEF CInv, OneEach
<1>8. Fixture'
  BY <1>4 DEF CInv, Fixture, Running, Ended
<1>9. Entries'
  <2> SUFFICES ASSUME NEW d \in Conns, conn'[d].at \in {"loop", "start", "rejoin"}
               PROVE  Entered(d)'
    BY DEF Entries
  <2>1. d # c /\ conn'[d] = conn[d] /\ Alive(d)
    BY <1>3 DEF Others, Alive
  <2>2. conn[d].player # p /\ conn[d].player \in Players
    BY <2>1, <1>2 DEF CInv, OneEach, IInv, Named
  <2>3. Entered(d)
    BY <2>1 DEF CInv, Entries
  <2> QED
    BY <2>1, <2>2, <2>3, <1>4 DEF Entered, Plays, Running, Seated
<1>10. Joins' /\ Leavers'
  BY <1>1, <1>3, <1>4 DEF Joins, Leavers, Others, Busy, Joining, Leaving
<1>11. MembersPresent'
  BY <1>3, <1>4, StayPresent DEF CInv, Present
<1>12. Numbered'
  BY <1>3, <1>4, NumbersKept DEF CInv
<1>13. Clocked'
  <2>1. Running(active) => \A q \in Players : grace[q] # "crediting"
    BY DEF CInv, Clocked, Fixture
  <2>2. Running(active) => grace'[p] = "sleeping"
    BY <2>1, <1>2, <1>5 DEF GraceStarts, IInv, TypeOK
  <2>3. \A q \in Players : q # p => grace'[q] = grace[q]
    BY <1>2, <1>5 DEF GraceStarts, IInv, TypeOK
  <2>4. grace'[p] = "crediting" => grace[p] = "crediting"
    BY <1>2, <1>5 DEF GraceStarts, IInv, TypeOK
  <2>5. AbsentOnClock'
    BY <2>2, <2>3, <1>4 DEF CInv, Clocked, AbsentOnClock, Running, Seated
  <2>6. \A q \in Players : grace'[q] = "crediting" => Ended'
    BY <2>3, <2>4, <1>4 DEF CInv, Clocked, Ended
  <2> QED
    BY <2>5, <2>6 DEF Clocked
<1> QED
  BY <1>6, <1>7, <1>8, <1>9, <1>10, <1>11, <1>12, <1>13 DEF CInv

LEMMA RemovesCalm ==
    ASSUME IInv, CInv, NEW c \in Conns, Removes(c)
    PROVE  CInv'
<1>1. Others(c) /\ Kept(c) /\ conn'[c].at = "scard" /\ conn[c].at = "srem"
  BY GotoFacts DEF Removes, IInv
<1>2. conn[c].at \in Busy /\ \A d \in Conns : d # c => conn[d].at \notin Busy
  BY <1>1, Alone DEF CInv, Busy, Leaving
<1>3. /\ members' = members \ {conn[c].player}
      /\ UNCHANGED <<playerConnections, roomKnown, roomConnections, active, seat, ending, grace>>
  BY DEF Removes, SetMembers, maps, games
<1>4. OneBusy' /\ OneEach'
  BY <1>1, <1>2, StaysAlone DEF CInv, Kept
<1>5. Fixture' /\ Clocked'
  BY <1>3, GameKept DEF CInv
<1>6. Entries'
  BY <1>1, <1>3, EntriesKept DEF CInv
<1>7. conn[c].state = active
  BY <1>1 DEF CInv, Leavers, Leaving
<1>8. Joins' /\ Leavers'
  BY <1>1, <1>2, <1>3, <1>7 DEF Joins, Leavers, Others, Kept, Busy, Joining, Leaving
<1>9. MembersPresent'
  BY <1>1, <1>3, StayPresent DEF CInv, Kept
<1>10. Numbered'
  BY <1>1, <1>3, NumbersKept DEF CInv
<1> QED
  BY <1>4, <1>5, <1>6, <1>8, <1>9, <1>10 DEF CInv

(* The game that the handler saw is still the room's, so none that runs is   *)
(* deleted.                                                                  *)
LEMMA CountsLeftCalm ==
    ASSUME IInv, CInv, NEW c \in Conns, CountsLeft(c)
    PROVE  CInv'
<1>1. PICK label \in {"delete", "gone"} :
        /\ Goto(c, label)
        /\ label = "delete" => members = {} /\ ~Running(conn[c].state)
  BY DEF CountsLeft
<1>2. Others(c) /\ Kept(c) /\ conn'[c].at = label /\ conn[c].at = "scard"
  BY <1>1, GotoFacts DEF IInv, CountsLeft
<1>3. conn[c].at \in Busy /\ \A d \in Conns : d # c => conn[d].at \notin Busy
  BY <1>2, Alone DEF CInv, Busy, Leaving
<1>4. UNCHANGED <<playerConnections, roomKnown, roomConnections, members,
                  active, seat, ending, grace>>
  BY DEF CountsLeft, maps, redis, games
<1>5. OneBusy' /\ OneEach'
  BY <1>2, <1>3, StaysAlone DEF CInv, Kept
<1>6. Fixture' /\ Clocked'
  BY <1>4, GameKept DEF CInv
<1>7. Entries'
  BY <1>2, <1>4, EntriesKept DEF CInv
<1>8. conn[c].state = active
  BY <1>2 DEF CInv, Leavers, Leaving
<1>9. Joins'
  BY <1>2, <1>3 DEF Joins, Others, Busy, Joining
<1>10. Leavers'
  BY <1>1, <1>2, <1>3, <1>4, <1>8 DEF Leavers, Others, Kept, Busy, Leaving, Running
<1>11. MembersPresent'
  <2>1. roomKnown => conn[c].player \notin members
    BY <1>2, NoMember DEF CInv, Alive, Present
  <2> QED
    BY <2>1, <1>2, <1>4, StayPresent DEF CInv, Kept
<1>12. Numbered'
  BY <1>2, <1>4, NumbersKept DEF CInv
<1> QED
  BY <1>5, <1>6, <1>7, <1>9, <1>10, <1>11, <1>12 DEF CInv

LEMMA CleansUpCalm ==
    ASSUME IInv, CInv, NEW c \in Conns, CleansUp(c)
    PROVE  CInv'
<1>1. Others(c) /\ Kept(c) /\ conn'[c].at = "gone" /\ conn[c].at = "delete"
  BY GotoFacts DEF CleansUp, IInv
<1>2. conn[c].at \in Busy /\ \A d \in Conns : d # c => conn[d].at \notin Busy
  BY <1>1, Alone DEF CInv, Busy, Leaving
<1>3. ~Running(active) /\ members = {}
  BY <1>1 DEF CInv, Leavers
<1>4. /\ members' = {} /\ active' = None
      /\ UNCHANGED <<playerConnections, roomKnown, roomConnections, seat, ending, grace>>
  BY DEF CleansUp, SetMembers, maps
<1>5. ~Running(active)'
  BY <1>4 DEF Running
<1>6. OneBusy' /\ OneEach'
  BY <1>1, <1>2, StaysAlone DEF CInv, Kept
<1>7. Fixture' /\ Clocked'
  BY <1>4, <1>5 DEF CInv, Fixture, Clocked, AbsentOnClock, Ended
<1>8. Entries'
  <2> SUFFICES ASSUME NEW d \in Conns, conn'[d].at \in {"loop", "start", "rejoin"}
               PROVE  Entered(d)'
    BY DEF Entries
  <2>1. conn'[d] = conn[d]
    BY <1>1 DEF Others
  <2>2. Entered(d)
    BY <2>1 DEF CInv, Entries
  <2> QED
    BY <2>1, <2>2, <1>4, <1>5 DEF Entered, Plays
<1>9. Joins' /\ Leavers'
  BY <1>1, <1>2 DEF Joins, Leavers, Others, Busy, Joining, Leaving
<1>10. MembersPresent'
  BY <1>4 DEF MembersPresent
<1>11. Numbered'
  BY <1>1, <1>3, <1>4, <1>5 DEF CInv, Numbered, NumberFits, Others, Plays, Ended
<1> QED
  BY <1>6, <1>7, <1>8, <1>9, <1>10, <1>11 DEF CInv

--------------------------------------------------------------------------------
(* The rest of the room. *)

(* However the game ends, nobody plays it any more. *)
LEMMA EndingCalm ==
    ASSUME IInv, CInv, Running(active), NEW how \in {"play", "grace", "admin"},
           ending' = [ending EXCEPT ![active] = how],
           UNCHANGED <<conn, playerConnections, roomKnown, roomConnections, members,
                       active, seat>>
    PROVE  CInv'
<1>1. ~Running(active)' /\ Ended'
  BY DEF Running, Ended, IInv, TypeOK, None
<1>2. \A p \in Players : ~Plays(p)'
  BY <1>1 DEF Plays
<1>3. OneBusy' /\ OneEach' /\ MembersPresent'
  BY DEF CInv, OneBusy, OneEach, Alive, MembersPresent
<1>4. Fixture' /\ Clocked'
  BY <1>1 DEF CInv, Fixture, Clocked, AbsentOnClock
<1>5. Entries'
  BY <1>1 DEF CInv, Entries, Entered, Plays
<1>6. Joins' /\ Leavers'
  BY <1>1 DEF CInv, Joins, Leavers
<1>7. Numbered'
  BY <1>1 DEF Numbered, NumberFits, Plays
<1> QED
  BY <1>3, <1>4, <1>5, <1>6, <1>7 DEF CInv

LEMMA GraceEndsCalm ==
    ASSUME IInv, CInv, NEW p \in Players, GraceEnds(p)
    PROVE  CInv'
<1>1. UNCHANGED <<conn, playerConnections, roomKnown, roomConnections, members,
                  active, seat, ending>>
  BY DEF GraceEnds, maps, redis, games
<1>2. \A q \in Players : grace'[q] = IF q = p THEN "none" ELSE grace[q]
  BY DEF GraceEnds, IInv, TypeOK
<1>3. Running(active) => roomConnections[p] # None
  BY DEF GraceEnds, MayForfeit, CInv, Clocked, Fixture
<1>4. OneBusy' /\ OneEach' /\ MembersPresent'
  BY <1>1 DEF CInv, OneBusy, OneEach, Alive, MembersPresent
<1>5. Fixture' /\ Joins' /\ Leavers'
  BY <1>1 DEF CInv, Fixture, Joins, Leavers, Running, Ended
<1>6. Entries' /\ Numbered'
  BY <1>1 DEF CInv, Entries, Entered, Numbered, NumberFits, Plays, Running, Ended, Seated, SeatOf
<1>7. Clocked'
  BY <1>1, <1>2, <1>3 DEF CInv, Clocked, AbsentOnClock, Running, Ended, Seated
<1> QED
  BY <1>4, <1>5, <1>6, <1>7 DEF CInv

LEMMA ExpiresCalm ==
    ASSUME Calm, IInv, CInv, Expires
    PROVE  CInv'
<1>1. \A d \in Conns : conn[d].at \notin Busy
  BY DEF Expires, Calm, Quiet, Busy
<1>2. /\ members' = {}
      /\ UNCHANGED <<conn, playerConnections, roomKnown, roomConnections,
                     active, seat, ending, grace>>
  BY DEF Expires, SetMembers, maps, games
<1>3. OneBusy' /\ OneEach' /\ MembersPresent'
  BY <1>2 DEF CInv, OneBusy, OneEach, Alive, MembersPresent
<1>4. Fixture' /\ Clocked'
  BY <1>2, GameKept DEF CInv
<1>5. Entries' /\ Numbered'
  BY <1>2 DEF CInv, Entries, Entered, Numbered, NumberFits, Plays, Running, Ended, Seated, SeatOf
<1>6. Joins' /\ Leavers'
  BY <1>1, <1>2 DEF Joins, Leavers, Busy, Joining, Leaving
<1> QED
  BY <1>3, <1>4, <1>5, <1>6 DEF CInv

(* The new process has neither handlers nor a game. *)
LEMMA RestartsCalm ==
    ASSUME IInv, CInv, Restarts
    PROVE  CInv'
<1>1. \A d \in Conns : conn'[d].at \in {"unused", "gone"}
  <2> SUFFICES ASSUME NEW d \in Conns PROVE conn'[d].at \in {"unused", "gone"}
    OBVIOUS
  <2>1. conn[d] \in ConnType
    BY DEF IInv, TypeOK
  <2>2. CASE Alive(d)
    <3>1. conn'[d] = [conn[d] EXCEPT !.at = "gone", !.open = FALSE]
      BY <2>2 DEF Restarts
    <3> QED
      BY <2>1, <3>1 DEF ConnType
  <2>3. CASE ~Alive(d)
    <3>1. conn'[d] = conn[d]
      BY <2>3 DEF Restarts
    <3> QED
      BY <2>3, <3>1 DEF Alive
  <2> QED
    BY <2>2, <2>3
<1>2. ~roomKnown' /\ active' = None /\ \A p \in Players : grace'[p] = "none"
  BY DEF Restarts
<1>3. OneBusy' /\ OneEach' /\ Entries' /\ Joins' /\ Numbered' /\ Leavers'
  BY <1>1 DEF OneBusy, OneEach, Entries, Joins, Numbered, Leavers, Busy, Joining, Leaving, Alive
<1>4. Fixture' /\ MembersPresent' /\ Clocked'
  BY <1>2 DEF Fixture, MembersPresent, Clocked, AbsentOnClock, Running
<1> QED
  BY <1>3, <1>4 DEF CInv

(* A new socket: both players play a running game, so who joins the room    *)
(* finds none.                                                              *)
LEMMA OpensCalm ==
    ASSUME Calm, IInv, CInv, NEW p \in Players, Opens(p)
    PROVE  CInv'
<1>1. PICK c \in Conns :
        /\ Fresh(c) /\ \A d \in Conns : conn[d].player = p => ~Alive(d)
        /\ conn' = [d \in Conns |->
                     IF d = c
                     THEN [player |-> p,
                           at |-> IF Running(active) /\ Seated(p, active)
                                  THEN "rejoin" ELSE "count",
                           open |-> TRUE,
                           number |-> IF Running(active) /\ Seated(p, active)
                                      THEN SeatOf(p, active) ELSE 0,
                           state |-> None]
                     ELSE [conn[d] EXCEPT !.open = @ /\ conn[d].player # p]]
        /\ IF Running(active) /\ Seated(p, active)
           THEN TakesSeat(p, c)
           ELSE UNCHANGED <<grace, maps>>
  BY DEF Opens, Calm
<1>2. Quiet /\ ~Ended /\ UNCHANGED <<members, active, seat, ending>>
  BY DEF Opens, Calm, redis, games
<1>3. /\ conn'[c].player = p
      /\ conn'[c].at = IF Plays(p) THEN "rejoin" ELSE "count"
      /\ Plays(p) => conn'[c].number = SeatOf(p, active)
  BY <1>1 DEF Plays
<1>4. \A d \in Conns : d # c =>
        /\ conn'[d].player = conn[d].player /\ conn'[d].at = conn[d].at
        /\ conn'[d].number = conn[d].number /\ conn'[d].state = conn[d].state
        /\ conn'[d].open => conn[d].open
  BY <1>1 DEF IInv, TypeOK, ConnType
<1>5. \A d \in Conns : conn[d].at \notin Busy
  BY <1>2 DEF Quiet, Busy
<1>6. \A d \in Conns : Alive(d) => d # c /\ conn[d].player # p /\ conn[d].player \in Players
  BY <1>1 DEF Fresh, Alive, IInv, Named
<1>7. /\ \A q \in Players : q # p => /\ playerConnections'[q] = playerConnections[q]
                                     /\ roomConnections'[q] = roomConnections[q]
                                     /\ grace'[q] = grace[q]
      /\ Plays(p) => /\ playerConnections'[p] = c /\ roomConnections'[p] = c /\ roomKnown'
                     /\ grace'[p] = "none"
      /\ ~Plays(p) => UNCHANGED <<playerConnections, roomConnections, roomKnown, grace>>
  BY <1>1 DEF TakesSeat, Plays, maps, IInv, TypeOK
<1>8. roomKnown' = roomKnown
  BY <1>7 DEF CInv, Fixture, Plays, Running, IInv, TypeOK
<1>9. ~Plays(p) => ~Running(active)
  BY EverybodyPlays DEF Calm, CInv
<1>10. OneBusy'
  BY <1>4, <1>5 DEF OneBusy
<1>11. OneEach'
  <2>1. \A d \in Conns : d # c /\ Alive(d)' => Alive(d) /\ conn'[d].player = conn[d].player
    BY <1>4 DEF Alive
  <2> QED
    BY <2>1, <1>3, <1>6 DEF CInv, OneEach
<1>12. Fixture'
  BY <1>2, <1>8 DEF CInv, Fixture, Running, Ended
<1>13. Entries'
  <2> SUFFICES ASSUME NEW d \in Conns, conn'[d].at \in {"loop", "start", "rejoin"}
               PROVE  Entered(d)'
    BY DEF Entries
  <2>1. CASE d = c
    BY <2>1, <1>3, <1>7 DEF Entered
  <2>2. CASE d # c
    <3>1. /\ conn'[d].at = conn[d].at /\ conn'[d].player = conn[d].player
          /\ conn[d].player \in Players \ {p}
      BY <2>2, <1>4, <1>6 DEF Alive
    <3>2. Entered(d)
      BY <3>1 DEF CInv, Entries
    <3> QED
      BY <3>1, <3>2, <1>2, <1>7, <1>8 DEF Entered, Plays, Running, Seated
  <2> QED
    BY <2>1, <2>2
<1>14. Joins'
  <2> SUFFICES ASSUME NEW d \in Conns, conn'[d].at \in Joining
               PROVE  /\ conn'[d].at \in {"rejoin", "count"}
                      /\ conn'[d].at = "rejoin" => active' # None
                      /\ conn'[d].at = "count" => ~Running(active)' /\ ~Ended'
    BY DEF Joins, Joining
  <2>1. d = c
    BY <1>4, <1>5 DEF Busy
  <2> QED
    BY <2>1, <1>2, <1>3, <1>9 DEF Plays, Running, Ended
<1>15. Leavers'
  BY <1>3, <1>4, <1>5 DEF Leavers, Busy, Leaving
<1>16. MembersPresent'
  <2> SUFFICES ASSUME roomKnown, NEW q \in members
               PROVE  \E d \in Conns : conn'[d].player = q /\ conn'[d].at \in Present
    BY <1>2, <1>8 DEF MembersPresent
  <2>1. PICK d \in Conns : conn[d].player = q /\ conn[d].at \in Present
    BY DEF CInv, MembersPresent
  <2>2. d # c
    BY <2>1, <1>6 DEF Alive, Present
  <2> QED
    BY <2>1, <2>2, <1>4
<1>17. Numbered'
  <2> SUFFICES ASSUME NEW d \in Conns, conn'[d].at \in {"loop", "rejoin"}, conn'[d].open
               PROVE  NumberFits(d)'
    BY DEF Numbered
  <2>1. CASE d = c
    BY <2>1, <1>2, <1>3 DEF NumberFits, Plays, Running, Seated, SeatOf
  <2>2. CASE d # c
    <3>1. NumberFits(d)
      BY <2>2, <1>4 DEF CInv, Numbered
    <3> QED
      BY <2>2, <3>1, <1>2, <1>4 DEF NumberFits, Plays, Running, Ended, Seated, SeatOf
  <2> QED
    BY <2>1, <2>2
<1>18. Clocked'
  <2>1. AbsentOnClock'
    BY <1>2, <1>7, <1>9 DEF CInv, Clocked, AbsentOnClock, Plays, Running, Seated, Conns, None
  <2>2. \A q \in Players : grace'[q] = "crediting" => Ended'
    BY <1>2, <1>7 DEF CInv, Clocked, Ended
  <2> QED
    BY <2>1, <2>2 DEF Clocked
<1> QED
  BY <1>10, <1>11, <1>12, <1>13, <1>14, <1>15, <1>16, <1>17, <1>18 DEF CInv

LEMMA NextCalm ==
    ASSUME Calm, IInv, CInv, [Next]_vars
    PROVE  CInv'
<1>1. ASSUME NEW p \in Players, Opens(p) PROVE CInv'
  BY <1>1, OpensCalm
<1>2. ASSUME NEW p \in Players, Forfeits(p) PROVE CInv'
  <2>1. /\ Running(active) /\ ending' = [ending EXCEPT ![active] = "grace"]
        /\ UNCHANGED <<conn, playerConnections, roomKnown, roomConnections, members,
                       active, seat>>
    BY <1>2 DEF Forfeits, MayForfeit, maps, redis
  <2> QED
    BY <2>1, EndingCalm
<1>3. ASSUME NEW p \in Players, GraceEnds(p) PROVE CInv'
  BY <1>3, GraceEndsCalm
<1>4. ASSUME NEW c \in Conns, Closes(c) PROVE CInv'
  BY <1>4, ClosesCalm
<1>5. ASSUME NEW c \in Conns, Handler(c) PROVE CInv'
  <2>1. CASE Rejoins(c)
    BY <2>1, RejoinsCalm
  <2>2. CASE Counts(c)
    BY <2>2, CountsCalm DEF Calm
  <2>3. CASE Purges(c)
    BY <2>3, PurgesCalm
  <2>4. CASE FirstAdds(c) \/ SecondAdds(c)
    BY <2>4, AddsCalm
  <2>5. CASE FirstRegisters(c)
    BY <2>5, FirstRegistersCalm
  <2>6. CASE SecondRegisters(c)
    BY <2>6, SecondRegistersCalm
  <2>7. CASE Starts(c)
    BY <2>7, StartsCalm
  <2>8. CASE Leaves(c)
    BY <2>8, LeavesCalm
  <2>9. CASE Removes(c)
    BY <2>9, RemovesCalm
  <2>10. CASE CountsLeft(c)
    BY <2>10, CountsLeftCalm
  <2>11. CASE CleansUp(c)
    BY <2>11, CleansUpCalm
  <2> QED
    BY <1>5, <2>1, <2>2, <2>3, <2>4, <2>5, <2>6, <2>7, <2>8, <2>9, <2>10, <2>11 DEF Handler
<1>6. CASE PlayEnds \/ ForceEnd
  <2>1. PICK how \in {"play", "admin"} : ending' = [ending EXCEPT ![active] = how]
    BY <1>6 DEF PlayEnds, ForceEnd
  <2>2. /\ Running(active)
        /\ UNCHANGED <<conn, playerConnections, roomKnown, roomConnections, members,
                       active, seat>>
    BY <1>6 DEF PlayEnds, ForceEnd, maps, redis
  <2> QED
    BY <2>1, <2>2, EndingCalm
<1>7. CASE Expires
  BY <1>7, ExpiresCalm
<1>8. CASE Restarts
  BY <1>8, RestartsCalm
<1>9. CASE UNCHANGED vars
  <2>1. UNCHANGED <<conn, playerConnections, roomKnown, roomConnections, members,
                    active, seat, ending, grace>>
    BY <1>9 DEF vars, maps, redis, games
  <2>2. OneBusy' /\ OneEach' /\ MembersPresent'
    BY <2>1 DEF CInv, OneBusy, OneEach, Alive, MembersPresent
  <2>3. Fixture' /\ Clocked'
    BY <2>1, GameKept DEF CInv
  <2>4. Entries' /\ Numbered'
    BY <2>1 DEF CInv, Entries, Entered, Numbered, NumberFits, Plays, Running, Ended, Seated, SeatOf
  <2>5. Joins' /\ Leavers'
    BY <2>1 DEF CInv, Joins, Leavers, Running, Ended
  <2> QED
    BY <2>2, <2>3, <2>4, <2>5 DEF CInv
<1> QED
  BY <1>1, <1>2, <1>3, <1>4, <1>5, <1>6, <1>7, <1>8, <1>9 DEF Next, Grace

--------------------------------------------------------------------------------
(* The theorems. *)

(* The inductive invariant of a calm room. *)
THEOREM CalmInvariant == Spec => (Calm => [](IInv /\ CInv))
<1> SUFFICES ASSUME Calm PROVE Spec => [](IInv /\ CInv)
  OBVIOUS
<1>1. Init => CInv
  BY InitCalm
<1>2. IInv /\ CInv /\ [Next]_vars => CInv'
  BY NextCalm
<1> QED
  BY <1>1, <1>2, Invariant, PTL DEF Spec

(* In the room of two players whose handlers do not meet, a running game has *)
(* two different players, and each one's socket shoots for the own seat.     *)
THEOREM SeatsAlwaysAgree == Spec => (Calm => []SeatsAgree)
<1>1. IInv /\ CInv => SeatsAgree
  BY RoomAssumption
     DEF CInv, Fixture, Numbered, NumberFits, SeatsAgree, Connected, Plays
<1> QED
  BY <1>1, CalmInvariant, PTL

(* There, whoever left, came back or restarted the server, both maps name    *)
(* the socket of each connected player of a running game.                    *)
THEOREM AlwaysReachable == Spec => (Calm => []Reachable)
<1>1. IInv /\ CInv => Reachable
  BY DEF CInv, Entries, Entered, Reachable, Connected, Plays
<1> QED
  BY <1>1, CalmInvariant, PTL

(* There, a player of a running game who has no entry has a grace period.    *)
THEOREM AbsentTimed == Spec => (Calm => []AbsentOnClock)
<1>1. IInv /\ CInv => AbsentOnClock
  BY DEF CInv, Clocked
<1> QED
  BY <1>1, CalmInvariant, PTL

(* There, the grace period takes the game only from a player of it who is    *)
(* not connected.                                                            *)
THEOREM OnlyAbsentForfeit == Spec => (Calm => ForfeitsAbsent)
<1> SUFFICES ASSUME Calm PROVE Spec => ForfeitsAbsent
  OBVIOUS
<1>1. ASSUME IInv, CInv, NEW p \in Players, Forfeits(p)
      PROVE  Seated(p, active) /\ \A c \in Conns : ~Connected(p, c)
  <2>1. Running(active) /\ roomConnections[p] = None
    BY <1>1 DEF Forfeits, MayForfeit
  <2>2. Plays(p)
    BY <1>1, <2>1, EverybodyPlays DEF Calm, CInv
  <2>3. ASSUME NEW c \in Conns, Connected(p, c) PROVE FALSE
    <3>1. roomConnections[p] = c
      BY <1>1, <2>2, <2>3 DEF Connected, CInv, Entries, Entered
    <3> QED
      BY <2>1, <3>1 DEF Conns, None
  <2> QED
    BY <2>2, <2>3 DEF Plays
<1>2. IInv /\ CInv =>
        (\A p \in Players :
           Forfeits(p) => Seated(p, active) /\ \A c \in Conns : ~Connected(p, c))
  BY <1>1
<1> QED
  BY <1>2, CalmInvariant, PTL DEF ForfeitsAbsent

(* Until the key expires, who has arrived is a member, and without a game    *)
(* only one player is there.                                                 *)
Gathered ==
    expiries = 0 =>
        /\ \A c \in Conns : conn[c].at = "loop" => conn[c].player \in members
        /\ active = None =>
             \A c, d \in Conns :
                conn[c].at = "loop" /\ conn[c].open /\ conn[d].at = "loop" /\ conn[d].open
                    => c = d

(* Steps by which nobody arrives. *)
LEMMA NobodyArrives ==
    ASSUME Gathered, expiries' = expiries, active' = None => active = None \/ members = {},
           \A d \in Conns : conn'[d].at = "loop" =>
               /\ conn[d].at = "loop" /\ conn'[d].player = conn[d].player
               /\ conn'[d].open => conn[d].open
               /\ conn[d].player \in members => conn[d].player \in members'
    PROVE  Gathered'
BY DEF Gathered

LEMMA JoiningGathered ==
    ASSUME Pair, IInv, CInv, Gathered, NEW c \in Conns,
           Counts(c) \/ Purges(c) \/ FirstAdds(c) \/ SecondAdds(c) \/ SecondRegisters(c)
    PROVE  Gathered'
<1>1. CASE Counts(c)
  <2>1. conn'[c].at # "loop" /\ Others(c)
    BY <1>1 DEF Counts, BeginsToLeave, Goto, IInv, TypeOK, ConnType, Others
  <2>2. UNCHANGED <<members, active, expiries>>
    BY <1>1 DEF Counts, BeginsToLeave, redis, games
  <2> QED
    BY <2>1, <2>2, NobodyArrives DEF Others
<1>2. CASE Purges(c)
  <2>1. conn'[c].at = "first" /\ Others(c)
    BY <1>2, GotoFacts DEF Purges, IInv
  <2>2. ~roomKnown /\ expiries' = expiries
    BY <1>2 DEF CInv, Joins, Purges
  <2>3. active = None /\ \A d \in Conns : conn[d].at # "loop"
    BY <2>2 DEF CInv, Fixture, Entries, Entered
  <2> QED
    BY <2>1, <2>2, <2>3, NobodyArrives DEF Others
<1>3. CASE FirstAdds(c) \/ SecondAdds(c)
  <2>1. PICK label \in {"first register", "second register"} : Goto(c, label)
    BY <1>3 DEF FirstAdds, SecondAdds
  <2>2. conn'[c].at # "loop" /\ Others(c)
    BY <2>1, GotoFacts DEF IInv
  <2>3. members \subseteq members' /\ UNCHANGED <<active, expiries>>
    BY <1>3 DEF FirstAdds, SecondAdds, SetMembers, games
  <2> QED
    BY <2>2, <2>3, NobodyArrives DEF Others
<1>4. CASE SecondRegisters(c)
  <2>1. conn'[c].at = "start" /\ Others(c)
    BY <1>4, GotoFacts DEF SecondRegisters, IInv
  <2>2. UNCHANGED <<members, active, expiries>>
    BY <1>4 DEF SecondRegisters, games
  <2> QED
    BY <2>1, <2>2, NobodyArrives DEF Others
<1> QED
  BY <1>1, <1>2, <1>3, <1>4

LEMMA ArrivingGathered ==
    ASSUME IInv, CInv, Gathered, NEW c \in Conns, Rejoins(c) \/ FirstRegisters(c) \/ Starts(c)
    PROVE  Gathered'
<1> DEFINE p == conn[c].player
<1>1. Others(c) /\ conn'[c].player = p /\ conn'[c].open = conn[c].open
  <2>1. CASE Rejoins(c)
    BY <2>1, GotoFacts DEF Rejoins, IInv, Kept
  <2>2. CASE FirstRegisters(c) \/ Starts(c)
    <3>1. PICK n \in {1, 2} : conn' = [conn EXCEPT ![c].at = "loop", ![c].number = n]
      BY <2>2 DEF FirstRegisters, Starts
    <3> QED
      BY <3>1 DEF IInv, TypeOK, ConnType, Others
  <2> QED
    BY <2>1, <2>2
<1>2. expiries' = expiries
  BY DEF Rejoins, FirstRegisters, Starts, redis
<1>3. p \in members' /\ members \subseteq members'
  BY DEF Rejoins, FirstRegisters, Starts, SetMembers, redis, CInv, Joins
<1>4. ASSUME active' = None, expiries = 0, NEW d \in Conns, d # c, conn[d].at = "loop"
      PROVE  ~conn[c].open
  <2>1. CASE Rejoins(c)
    <3>1. active # None
      BY <2>1 DEF Rejoins, CInv, Joins
    <3> QED
      BY <1>4, <2>1, <3>1 DEF Rejoins, games
  <2>2. CASE FirstRegisters(c)
    <3>1. conn[d].player \in members /\ members = {p}
      BY <1>4, <2>2 DEF Gathered, FirstRegisters, CInv, Joins
    <3>2. Alive(c) /\ Alive(d)
      BY <1>4, <2>2 DEF FirstRegisters, Alive
    <3> QED
      BY <1>4, <3>1, <3>2 DEF CInv, OneEach
  <2>3. CASE Starts(c)
    BY <1>4, <2>3 DEF Starts, Conns, None
  <2> QED
    BY <2>1, <2>2, <2>3
<1>5. active' = None => active = None
  <2>1. CASE Rejoins(c) \/ FirstRegisters(c)
    BY <2>1 DEF Rejoins, FirstRegisters, games
  <2>2. CASE Starts(c)
    BY <2>2 DEF Starts, games, Conns, None
  <2> QED
    BY <2>1, <2>2
<1> SUFFICES ASSUME expiries = 0
             PROVE  /\ \A d \in Conns : conn'[d].at = "loop" => conn'[d].player \in members'
                    /\ active' = None =>
                         \A d, e \in Conns :
                            conn'[d].at = "loop" /\ conn'[d].open
                            /\ conn'[e].at = "loop" /\ conn'[e].open => d = e
  BY <1>2 DEF Gathered
<1>6. \A d \in Conns : conn'[d].at = "loop" => conn'[d].player \in members'
  BY <1>1, <1>3 DEF Gathered, Others
<1>7. ASSUME active' = None,
             NEW d \in Conns, conn'[d].at = "loop" /\ conn'[d].open,
             NEW e \in Conns, conn'[e].at = "loop" /\ conn'[e].open
      PROVE  d = e
  BY <1>1, <1>4, <1>5, <1>7 DEF Gathered, Others
<1> QED
  BY <1>6, <1>7

LEMMA LeavingGathered ==
    ASSUME IInv, CInv, Gathered, NEW c \in Conns,
           Leaves(c) \/ Removes(c) \/ CountsLeft(c) \/ CleansUp(c)
    PROVE  Gathered'
<1>1. Others(c) /\ conn'[c].at # "loop"
  BY GotoFacts
     DEF Leaves, BeginsToLeave, Removes, CountsLeft, CleansUp, Goto, IInv, TypeOK, ConnType, Others
<1>2. expiries' = expiries
  BY DEF Leaves, BeginsToLeave, Removes, CountsLeft, CleansUp, redis
<1>3. active' = None => active = None \/ members = {}
  BY DEF Leaves, BeginsToLeave, Removes, CountsLeft, CleansUp, games, CInv, Leavers
<1>4. ASSUME NEW d \in Conns, d # c, conn[d].at = "loop", conn[d].player \in members
      PROVE  conn[d].player \in members'
  <2>1. CASE Leaves(c) \/ CountsLeft(c)
    BY <1>4, <2>1 DEF Leaves, BeginsToLeave, CountsLeft, redis
  <2>2. CASE Removes(c)
    BY <1>4, <2>2 DEF Removes, SetMembers, CInv, OneEach, Alive
  <2>3. CASE CleansUp(c)
    BY <1>4, <2>3 DEF CleansUp, CInv, Leavers
  <2> QED
    BY <2>1, <2>2, <2>3
<1> QED
  BY <1>1, <1>2, <1>3, <1>4, NobodyArrives DEF Others

LEMMA NextGathered ==
    ASSUME Calm, IInv, CInv, Gathered, [Next]_vars
    PROVE  Gathered'
<1>1. ASSUME NEW p \in Players, Opens(p) PROVE Gathered'
  <2>1. /\ \A d \in Conns : conn'[d].at = "loop" =>
             /\ conn[d].at = "loop" /\ conn'[d].player = conn[d].player
             /\ conn'[d].open => conn[d].open
    BY <1>1 DEF Opens, IInv, TypeOK, ConnType
  <2>2. UNCHANGED <<members, active, expiries>>
    BY <1>1 DEF Opens, redis, games
  <2> QED
    BY <2>1, <2>2, NobodyArrives
<1>2. ASSUME NEW p \in Players, Grace(p) PROVE Gathered'
  BY <1>2, NobodyArrives DEF Grace, Forfeits, GraceEnds, redis, games
<1>3. ASSUME NEW c \in Conns, Closes(c) PROVE Gathered'
  <2>1. \A d \in Conns : conn'[d].at = "loop" =>
            /\ conn[d].at = "loop" /\ conn'[d].player = conn[d].player
            /\ conn'[d].open => conn[d].open
    BY <1>3 DEF Closes, IInv, TypeOK, ConnType
  <2> QED
    BY <1>3, <2>1, NobodyArrives DEF Closes, redis, games
<1>4. ASSUME NEW c \in Conns, Handler(c) PROVE Gathered'
  BY <1>4, JoiningGathered, ArrivingGathered, LeavingGathered DEF Handler, Calm
<1>5. CASE PlayEnds \/ ForceEnd
  BY <1>5, NobodyArrives DEF PlayEnds, ForceEnd, redis
<1>6. CASE Expires
  BY <1>6 DEF Expires, Gathered, IInv, TypeOK
<1>7. CASE Restarts
  <2>1. \A d \in Conns : conn'[d].at # "loop"
    BY <1>7 DEF Restarts, Alive, IInv, TypeOK, ConnType
  <2> QED
    BY <2>1 DEF Gathered
<1>8. CASE UNCHANGED vars
  BY <1>8, NobodyArrives DEF vars, redis, games
<1> QED
  BY <1>1, <1>2, <1>3, <1>4, <1>5, <1>6, <1>7, <1>8 DEF Next

(* There, two connected players whose handlers are done play a game or have *)
(* played one, unless the members' key expired.                             *)
THEOREM TwoPlayersMeet ==
    Spec => (Calm /\ (\E p, q \in Players : p # q) => []PlayersMeet)
<1> SUFFICES ASSUME Calm, NEW p \in Players, NEW q \in Players, p # q
             PROVE  Spec => []PlayersMeet
  OBVIOUS
<1>1. Init => Gathered
  BY DEF Init, Gathered
<1>2. IInv /\ CInv /\ Gathered /\ [Next]_vars => Gathered'
  BY NextGathered
<1>3. Gathered => PlayersMeet
  <2> SUFFICES ASSUME Gathered, expiries = 0, active = None,
                      \A r \in Players : \E c \in Conns : Connected(r, c)
               PROVE  FALSE
    BY DEF PlayersMeet
  <2>1. PICK c \in Conns : Connected(p, c)
    OBVIOUS
  <2>2. PICK d \in Conns : Connected(q, d)
    OBVIOUS
  <2> QED
    BY <2>1, <2>2 DEF Gathered, Connected
<1>4. Spec => []Gathered
  BY <1>1, <1>2, CalmInvariant, PTL DEF Spec
<1> QED
  BY <1>3, <1>4, PTL
================================================================================
