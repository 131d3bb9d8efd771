-------------------------- MODULE RelayServer_proofs --------------------------
(* The relay's rooms and handlers, for any sessions, peers and sockets:        *)
(* TypeOK, WokenOnce and PairIsBridged of RelayServer.                         *)
EXTENDS RelayServer, TLAPS

USE RelayConstants

-----------------------------------------------------------------------------
(* Types                                                                    *)

\* The initial state is typed.
LEMMA InitTypes == Init => TypeOK
BY DEF Init, TypeOK, Rooms, RelayRooms, NoRoom, Empty

\* What reapLocked leaves in the store and in the relay is typed.
LEMMA ReapTypes ==
    ASSUME TypeOK
    PROVE  /\ Kept \in [Sessions -> Rooms]
           /\ ReapLocked => relay' \in [Sessions -> RelayRooms] /\ taken' \subseteq Takings
<1>1. Kept \in [Sessions -> Rooms]
  BY DEF TypeOK, Kept, Rooms, NoRoom
<1>2. ASSUME ReapLocked  PROVE relay' \in [Sessions -> RelayRooms]
  BY <1>2 DEF TypeOK, ReapLocked, Empty, RelayRooms
<1>3. ASSUME ReapLocked  PROVE taken' \subseteq Takings
  <2>1. ASSUME NEW t \in taken'  PROVE t \in Takings
    BY <1>3, <2>1 DEF TypeOK, ReapLocked, Takings
  <2> QED BY <2>1
<1> QED BY <1>1, <1>2, <1>3

\* The store's operations keep the types.
LEMMA StoreTypes ==
    ASSUME TypeOK, NEW s \in Sessions, NEW p,
           \/ p \in Hosts /\ RegisterHost(s, p)
           \/ p \in Joiners /\ Join(s, p)
           \/ PollJoiner(s) \/ TouchSession(s) \/ Expire(s)
    PROVE  TypeOK'
<1>1. CASE p \in Hosts /\ RegisterHost(s, p)
  <2>1. room[s] \in Rooms /\ [NoRoom EXCEPT !.host = p] \in Rooms
    BY <1>1 DEF TypeOK, Rooms, NoRoom
  <2>2. room' \in [Sessions -> Rooms]
    BY <1>1, <2>1, ReapTypes DEF RegisterHost, KeptWith
  <2> QED BY <1>1, <2>2, ReapTypes DEF TypeOK, RegisterHost, sockVars
<1>2. CASE p \in Joiners /\ Join(s, p)
  <2>1. [room[s] EXCEPT !.joiner = p, !.seen = FALSE] \in Rooms
    <3>1. room[s] \in Rooms  BY DEF TypeOK
    <3> QED BY <1>2, <3>1 DEF Rooms
  <2>2. room' \in [Sessions -> Rooms]
    BY <1>2, <2>1, ReapTypes DEF Join, KeptWith
  <2> QED BY <1>2, <2>2, ReapTypes DEF TypeOK, Join, sockVars
<1>3. CASE PollJoiner(s)
  BY <1>3 DEF TypeOK, PollJoiner, Rooms, sockVars, relayVars
<1>4. CASE TouchSession(s) \/ Expire(s)
  BY <1>4 DEF TypeOK, TouchSession, Expire, sockVars, relayVars
<1> QED BY <1>1, <1>2, <1>3, <1>4

\* The seat a socket takes, and the one who had it.
LEMMA SeatTypes ==
    ASSUME TypeOK, NEW c \in Sockets, sock[c].at = "upgraded"
    PROVE  /\ sock[c].of \in Sessions
           /\ Seated(c) \in RelayRooms
           /\ Before(c) \in Sockets \cup {None}
           /\ Full(Seated(c)) => Bridge(sock[c].of, Seated(c)) \in Bridges
<1>1. sock[c].of \in Sessions  BY DEF TypeOK
<1>2. relay[sock[c].of] \in RelayRooms  BY <1>1 DEF TypeOK
<1>3. Seated(c) \in RelayRooms /\ Before(c) \in Sockets \cup {None}
  BY <1>2 DEF Seated, Before, Role, RelayRooms, Sockets
<1> QED BY <1>1, <1>3 DEF Full, Bridge, Bridges, RelayRooms

\* A socket's handler keeps the types.
LEMMA SocketTypes ==
    ASSUME TypeOK, NEW c \in Sockets,
           \/ \E s \in Sessions, p \in Hosts \cup Joiners : AllowOverlay(c, s, p)
           \/ Attach(c) \/ Return(c) \/ HangUp(c)
    PROVE  TypeOK'
<1>1. ASSUME NEW s \in Sessions, NEW p, AllowOverlay(c, s, p)  PROVE TypeOK'
  <2>1. /\ sock' \in [Sockets -> [at : {"idle", "upgraded", "waiting", "over"},
                                of : Sessions \cup {None}]]
        /\ \A d \in Sockets :
              sock'[d].at \in {"upgraded", "waiting"} => sock'[d].of \in Sessions
    BY <1>1 DEF TypeOK, AllowOverlay
  <2>2. conn' \in [Sockets -> {"none", "open", "broken", "closed"}]
    BY <1>1 DEF TypeOK, AllowOverlay
  <2> QED BY <1>1, <2>1, <2>2, ReapTypes DEF TypeOK, AllowOverlay
<1>2. CASE Attach(c)
  <2>1. sock[c].at = "upgraded"  BY <1>2 DEF Attach, TakeSeat
  <2>2. relay' \in [Sessions -> RelayRooms] /\ bridges' \subseteq Bridges
    BY <1>2, <2>1, SeatTypes DEF TypeOK, Attach, TakeSeat
  <2>3. done' \subseteq Sockets /\ conn' \in [Sockets -> {"none", "open", "broken", "closed"}]
    BY <1>2, <2>1, SeatTypes DEF TypeOK, Attach, TakeSeat
  <2> QED BY <1>2, <2>2, <2>3 DEF TypeOK, Attach, TakeSeat, storeVars
<1>3. CASE Return(c)
  BY <1>3 DEF TypeOK, Return, storeVars, relayVars
<1>4. CASE HangUp(c)
  BY <1>4 DEF TypeOK, HangUp, storeVars, relayVars
<1> QED BY <1>1, <1>2, <1>3, <1>4

\* A bridge's end and a cleanup keep the types.
LEMMA CleanupTypes ==
    ASSUME TypeOK,
           \/ \E b \in bridges : BridgeEnds(b)
           \/ \E t \in taken : Cleanup(t)
    PROVE  TypeOK'
<1>1. ASSUME NEW b \in bridges, BridgeEnds(b)  PROVE TypeOK'
  <2>1. b.of \in Sessions  BY DEF TypeOK, Bridges
  <2>2. [by |-> "bridge", room |-> relay[b.of]] \in Takings  BY <2>1 DEF TypeOK, Takings
  <2>3. Empty \in RelayRooms  BY DEF Empty, RelayRooms
  <2> QED BY <1>1, <2>2, <2>3 DEF TypeOK, BridgeEnds, TakeRoom, storeVars, sockVars
<1>2. ASSUME NEW t \in taken, Cleanup(t)  PROVE TypeOK'
  <2>1. Members(t.room) \subseteq Sockets
    BY DEF TypeOK, Takings, RelayRooms, Members, Sockets
  <2> QED BY <1>2, <2>1 DEF TypeOK, Cleanup, storeVars
<1> QED BY <1>1, <1>2

\* Every step keeps the types.
LEMMA NextTypes == TypeOK /\ [Next]_vars => TypeOK'
<1> SUFFICES ASSUME TypeOK, [Next]_vars  PROVE TypeOK'
  OBVIOUS
<1>1. CASE UNCHANGED vars
  BY <1>1 DEF TypeOK, vars, storeVars, sockVars, relayVars
<1>2. CASE Next
  BY <1>2, StoreTypes, SocketTypes, CleanupTypes DEF Next
<1> QED BY <1>1, <1>2

\* The relay's state is typed: no handler is woken that is none, no cleanup or
\* bridge has a socket of the wrong role.
THEOREM RelayTypeCorrect == Spec => []TypeOK
<1>1. Init => TypeOK  BY InitTypes
<1>2. TypeOK /\ [Next]_vars => TypeOK'  BY NextTypes
<1> QED BY <1>1, <1>2, PTL DEF Spec

-----------------------------------------------------------------------------
(* Each handler that waits has one who will wake it                         *)

\* Who sits in a room waits, and for that session.
Seating == \A s \in Sessions : \A c \in Members(relay[s]) :
               Waiting(c) /\ sock[c].of = s

\* Who sits in a room that was taken out waits as well.
Taking == \A t \in taken : \A c \in Members(t.room) : Waiting(c)

\* No socket is in two of these rooms.
Apart == /\ \A t \in taken, s \in Sessions :
               Members(t.room) \cap Members(relay[s]) = {}
         /\ \A t, u \in taken : t # u => Members(t.room) \cap Members(u.room) = {}

\* Who waits is in one of them.
Placed == \A c \in Sockets : Waiting(c) =>
              \/ \E s \in Sessions : c \in Members(relay[s])
              \/ \E t \in taken : c \in Members(t.room)

\* Only a handler that came to wait was woken.
WokenWaited == \A c \in done : sock[c].at \in {"waiting", "over"}

\* The inductive invariant.
WakeInv == TypeOK /\ Seating /\ Taking /\ Apart /\ Placed /\ WokenWaited

\* The invariant without the types.
WakeParts == Seating /\ Taking /\ Apart /\ Placed /\ WokenWaited

\* The members of typed rooms.
LEMMA MembersTyped ==
    ASSUME TypeOK
    PROVE  /\ \A s \in Sessions : Members(relay[s]) \subseteq Sockets
           /\ \A t \in taken : Members(t.room) \subseteq Sockets
           /\ Members(Empty) = {}
BY DEF TypeOK, Takings, RelayRooms, Members, Sockets, Empty

\* It holds initially.
LEMMA InitWake == Init => WakeInv
<1> SUFFICES ASSUME Init  PROVE WakeInv
  OBVIOUS
<1>1. \A s \in Sessions : Members(relay[s]) = {}  BY DEF Init, Members, Empty
<1> QED BY <1>1, InitTypes
        DEF Init, WakeInv, Seating, Taking, Apart, Placed, WokenWaited, Waiting

\* The rooms of the sessions S are taken out of the relay's map.
TakeOut(S, by) ==
    /\ relay' = [s \in Sessions |-> IF s \in S THEN Empty ELSE relay[s]]
    /\ taken' = taken \cup {[by |-> by, room |-> relay[s]] :
                              s \in {x \in S : relay[x] # Empty}}

\* Rooms that are taken out change hands; nobody is woken or seated.
LEMMA TakeOutKeepsWake ==
    ASSUME WakeInv, NEW S \in SUBSET Sessions, NEW by, TakeOut(S, by), UNCHANGED done,
           \A c \in Sockets : /\ Waiting(c)' <=> Waiting(c)
                              /\ Waiting(c) => sock'[c].of = sock[c].of
                              /\ c \in done => sock'[c].at = sock[c].at
    PROVE  WakeParts'
<1> DEFINE moved(s) == [by |-> by, room |-> relay[s]]
<1>1. \A s \in Sessions : IF s \in S THEN Members(relay'[s]) = {}
                                            ELSE relay'[s] = relay[s]
  BY MembersTyped DEF TakeOut, WakeInv
<1>2. \A t \in taken' : \/ t \in taken
                        \/ \E s \in Sessions : s \in S /\ t = moved(s)
  BY DEF TakeOut, WakeInv, TypeOK
<1>3. \A s \in S : relay[s] # Empty => moved(s) \in taken'
  BY DEF TakeOut
<1>4. taken \subseteq taken'  BY DEF TakeOut
<1>5. \A s \in Sessions : moved(s).room = relay[s]  OBVIOUS
<1>6. \A s, r \in Sessions : s # r => Members(relay[s]) \cap Members(relay[r]) = {}
  BY DEF WakeInv, Seating
<1>7. /\ \A s \in Sessions : Members(relay[s]) \subseteq Sockets
      /\ \A t \in taken : Members(t.room) \subseteq Sockets
  BY MembersTyped DEF WakeInv
<1> HIDE DEF moved
<1>8. Seating'
  BY <1>1, <1>7 DEF WakeInv, Seating, Waiting
<1>9. Taking'
  BY <1>2, <1>5, <1>7 DEF WakeInv, Seating, Taking, Waiting
<1>10. Apart'
  <2>1. ASSUME NEW t \in taken', NEW s \in Sessions
        PROVE  Members(t.room) \cap Members(relay'[s]) = {}
    BY <1>1, <1>2, <1>5, <1>6, <2>1 DEF WakeInv, Apart
  <2>2. ASSUME NEW t \in taken', NEW u \in taken', t # u
        PROVE  Members(t.room) \cap Members(u.room) = {}
    <3>1. CASE t \in taken /\ u \in taken
      BY <2>2, <3>1 DEF WakeInv, Apart
    <3>2. CASE t \in taken /\ u \notin taken
      BY <1>2, <1>5, <2>2, <3>2 DEF WakeInv, Apart
    <3>3. CASE t \notin taken /\ u \in taken
      BY <1>2, <1>5, <2>2, <3>3 DEF WakeInv, Apart
    <3>4. CASE t \notin taken /\ u \notin taken
      BY <1>2, <1>5, <1>6, <2>2, <3>4 DEF moved
    <3> QED BY <3>1, <3>2, <3>3, <3>4
  <2> QED BY <2>1, <2>2 DEF Apart, Members
<1>11. Placed'
  <2>1. ASSUME NEW c \in Sockets, Waiting(c)'
        PROVE  \/ \E s \in Sessions : c \in Members(relay'[s])
               \/ \E t \in taken' : c \in Members(t.room)
    <3>1. CASE \E t \in taken : c \in Members(t.room)
      BY <1>4, <3>1
    <3>2. ASSUME NEW s \in Sessions, c \in Members(relay[s])
          PROVE  \/ \E r \in Sessions : c \in Members(relay'[r])
                 \/ \E t \in taken' : c \in Members(t.room)
      <4>1. relay[s] # Empty  BY <3>2, MembersTyped DEF WakeInv
      <4> QED BY <1>1, <1>3, <1>5, <3>2, <4>1
    <3> QED BY <2>1, <3>1, <3>2 DEF WakeInv, Placed
  <2> QED BY <2>1 DEF Placed, Members
<1>12. WokenWaited'
  BY DEF WakeInv, TypeOK, WokenWaited
<1> QED BY <1>8, <1>9, <1>10, <1>11, <1>12 DEF WakeParts

\* A step that leaves the rooms and handlers alone keeps it, whatever connections
\* break.
LEMMA QuietWake ==
    ASSUME WakeInv, UNCHANGED <<sock, done, relay, taken>>
    PROVE  WakeParts'
<1>1. Seating'  BY DEF WakeInv, Seating, Members, Waiting
<1>2. Taking'  BY DEF WakeInv, Taking, Members, Waiting
<1>3. Apart'  BY DEF WakeInv, Apart, Members
<1>4. Placed'  BY DEF WakeInv, Placed, Members, Waiting
<1>5. WokenWaited'  BY DEF WakeInv, WokenWaited
<1> QED BY <1>1, <1>2, <1>3, <1>4, <1>5 DEF WakeParts

\* The store's operations keep it.
LEMMA StoreWake ==
    ASSUME WakeInv, NEW s \in Sessions, NEW p,
           \/ RegisterHost(s, p) \/ Join(s, p)
           \/ PollJoiner(s) \/ TouchSession(s) \/ Expire(s)
    PROVE  WakeParts'
<1>1. CASE RegisterHost(s, p) \/ Join(s, p)
  <2>1. UNCHANGED sockVars /\ ReapLocked  BY <1>1 DEF RegisterHost, Join
  <2>2. expired \in SUBSET Sessions /\ TakeOut(expired, "store")
    BY <2>1 DEF ReapLocked, TakeOut, WakeInv, TypeOK
  <2> QED BY <2>1, <2>2, TakeOutKeepsWake DEF sockVars, Waiting
<1>2. CASE PollJoiner(s) \/ TouchSession(s) \/ Expire(s)
  <2>1. UNCHANGED <<sockVars, relayVars>>
    BY <1>2 DEF PollJoiner, TouchSession, Expire
  <2> QED BY <2>1, QuietWake DEF sockVars, relayVars
<1> QED BY <1>1, <1>2

\* AllowOverlay seats nobody.
LEMMA AllowWake ==
    ASSUME WakeInv, NEW c \in Sockets, NEW s \in Sessions, NEW p, AllowOverlay(c, s, p)
    PROVE  WakeParts'
<1>1. expired \in SUBSET Sessions /\ TakeOut(expired, "store") /\ done' = done
  BY DEF AllowOverlay, ReapLocked, TakeOut, WakeInv, TypeOK
<1>2. sock[c].at = "idle" /\ c \notin done
  BY DEF AllowOverlay, WakeInv, WokenWaited
<1>3. sock'[c].at \in {"upgraded", "over"}
  BY DEF AllowOverlay, WakeInv, TypeOK
<1>4. \A d \in Sockets \ {c} : sock'[d] = sock[d]
  BY DEF AllowOverlay, WakeInv, TypeOK
<1> QED BY <1>1, <1>2, <1>3, <1>4, TakeOutKeepsWake DEF Waiting

\* A socket that attaches is seated; the one before it is woken and leaves.
LEMMA AttachWake ==
    ASSUME WakeInv, NEW c \in Sockets, Attach(c)
    PROVE  WakeParts'
<1> DEFINE s == sock[c].of
           old == {Before(c)} \ {None}
<1>1. sock[c].at = "upgraded" /\ s \in Sessions /\ relay[s] \in RelayRooms
  BY DEF Attach, TakeSeat, WakeInv, TypeOK
<1>2. /\ Members(Seated(c)) = {c} \cup (Members(relay[s]) \ old)
      /\ old \subseteq Members(relay[s])
  BY <1>1 DEF Members, Seated, Before, Role, RelayRooms, Sockets
<1>3. /\ relay' = [relay EXCEPT ![s] = Seated(c)]
      /\ done' = done \cup old /\ taken' = taken
      /\ sock' = [sock EXCEPT ![c].at = "waiting"]
  BY DEF Attach, TakeSeat
<1>4. /\ sock'[c].at = "waiting" /\ sock'[c].of = s
      /\ \A d \in Sockets \ {c} : sock'[d] = sock[d]
  BY <1>3 DEF WakeInv, TypeOK
<1>5. /\ relay'[s] = Seated(c)
      /\ \A r \in Sessions \ {s} : relay'[r] = relay[r]
  BY <1>1, <1>3 DEF WakeInv, TypeOK
<1>6. c \notin done /\ ~Waiting(c)
  BY <1>1 DEF WakeInv, WokenWaited, Waiting
<1>7. /\ \A r \in Sessions : c \notin Members(relay[r])
      /\ \A t \in taken : c \notin Members(t.room)
  BY <1>6 DEF WakeInv, Seating, Taking
<1>8. /\ \A r \in Sessions \ {s} : old \cap Members(relay[r]) = {}
      /\ \A t \in taken : old \cap Members(t.room) = {}
  BY <1>1, <1>2 DEF WakeInv, Seating, Apart
<1>9. /\ \A r \in Sessions : Members(relay[r]) \subseteq Sockets
      /\ \A t \in taken : Members(t.room) \subseteq Sockets
  BY MembersTyped DEF WakeInv
<1>10. Waiting(c)' /\ \A d \in Sockets \ {c} : Waiting(d)' <=> Waiting(d) /\ d \notin old
  BY <1>1, <1>2, <1>3, <1>4, <1>6, <1>7 DEF Waiting
<1>11. \A r \in Sessions : Members(relay'[r]) =
           IF r = s THEN {c} \cup (Members(relay[s]) \ old) ELSE Members(relay[r])
  BY <1>2, <1>5
<1> HIDE DEF s, old
<1>12. Seating'
  <2>1. ASSUME NEW r \in Sessions, NEW d \in Members(relay'[r])
        PROVE  Waiting(d)' /\ sock'[d].of = r
    <3>1. CASE d = c
      BY <1>4, <1>7, <1>10, <1>11, <2>1, <3>1
    <3>2. CASE d # c
      <4>1. d \in Members(relay[r]) /\ d \notin old
        BY <1>8, <1>11, <2>1, <3>2
      <4> QED BY <1>4, <1>9, <1>10, <3>2, <4>1 DEF WakeInv, Seating
    <3> QED BY <3>1, <3>2
  <2> QED BY <2>1 DEF Seating, Members, Waiting
<1>13. Taking'
  BY <1>3, <1>7, <1>8, <1>9, <1>10 DEF WakeInv, Taking, Waiting
<1>14. Apart'
  <2>1. \A t \in taken, r \in Sessions : Members(t.room) \cap Members(relay'[r]) = {}
    BY <1>1, <1>7, <1>11 DEF WakeInv, Apart
  <2> QED BY <1>3, <2>1 DEF WakeInv, Apart, Members
<1>15. Placed'
  <2>1. ASSUME NEW d \in Sockets, Waiting(d)'
        PROVE  \/ \E r \in Sessions : d \in Members(relay'[r])
               \/ \E t \in taken' : d \in Members(t.room)
    BY <1>1, <1>3, <1>10, <1>11, <2>1 DEF WakeInv, Placed
  <2> QED BY <2>1 DEF Placed, Members
<1>16. WokenWaited'
  <2>1. \A d \in old : d \in Sockets /\ d # c /\ sock[d].at = "waiting"
    BY <1>1, <1>2, <1>7, <1>9 DEF WakeInv, Seating, Waiting
  <2>2. \A d \in done : d \in Sockets /\ d # c
    BY <1>6 DEF WakeInv, TypeOK
  <2> QED BY <1>3, <1>4, <2>1, <2>2 DEF WakeInv, WokenWaited
<1> QED BY <1>12, <1>13, <1>14, <1>15, <1>16 DEF WakeParts

\* A handler returns only after it was woken, so it sits nowhere.
LEMMA ReturnWake ==
    ASSUME WakeInv, NEW c \in Sockets, Return(c)
    PROVE  WakeParts'
<1>1. /\ c \in done /\ sock'[c].at = "over"
      /\ \A d \in Sockets \ {c} : sock'[d] = sock[d]
      /\ done' = done /\ relay' = relay /\ taken' = taken
  BY DEF Return, WakeInv, TypeOK, relayVars
<1>2. \A d \in Sockets : Waiting(d)' <=> Waiting(d)
  BY <1>1 DEF Waiting
<1>3. /\ \A s \in Sessions : Members(relay[s]) \subseteq Sockets \ {c}
      /\ \A t \in taken : Members(t.room) \subseteq Sockets
  BY <1>1, MembersTyped DEF WakeInv, Seating, Waiting
<1>4. Seating'
  BY <1>1, <1>2, <1>3 DEF WakeInv, Seating, Members
<1>5. Taking'
  BY <1>1, <1>2, <1>3 DEF WakeInv, Taking, Members
<1>6. Apart'
  BY <1>1 DEF WakeInv, Apart, Members
<1>7. Placed'
  BY <1>1, <1>2 DEF WakeInv, Placed, Members
<1>8. WokenWaited'
  BY <1>1 DEF WakeInv, TypeOK, WokenWaited
<1> QED BY <1>4, <1>5, <1>6, <1>7, <1>8 DEF WakeParts

\* The end of a bridge takes a room out, as the store does.
LEMMA BridgeEndsWake ==
    ASSUME WakeInv, NEW b \in bridges, BridgeEnds(b)
    PROVE  WakeParts'
<1>1. b.of \in Sessions /\ UNCHANGED <<sock, done>>
  BY DEF BridgeEnds, TakeRoom, WakeInv, TypeOK, Bridges, sockVars
<1>2. /\ relay' = [relay EXCEPT ![b.of] = Empty]
      /\ taken' = IF relay[b.of] = Empty THEN taken
                  ELSE taken \cup {[by |-> "bridge", room |-> relay[b.of]]}
      /\ relay \in [Sessions -> RelayRooms]
  BY DEF BridgeEnds, TakeRoom, WakeInv, TypeOK
<1>3. relay' = [s \in Sessions |-> IF s \in {b.of} THEN Empty ELSE relay[s]]
  BY <1>1, <1>2
<1>4. taken' = taken \cup {[by |-> "bridge", room |-> relay[s]] :
                             s \in {x \in {b.of} : relay[x] # Empty}}
  <2>1. CASE relay[b.of] = Empty
    <3>1. {x \in {b.of} : relay[x] # Empty} = {}  BY <2>1
    <3> QED BY <1>2, <2>1, <3>1
  <2>2. CASE relay[b.of] # Empty
    <3>1. {x \in {b.of} : relay[x] # Empty} = {b.of}  BY <2>2
    <3> QED BY <1>2, <2>2, <3>1
  <2> QED BY <2>1, <2>2
<1>5. TakeOut({b.of}, "bridge")
  BY <1>3, <1>4 DEF TakeOut
<1> QED BY <1>1, <1>5, TakeOutKeepsWake DEF Waiting

\* A cleanup wakes those in its room, who are in no other.
LEMMA CleanupWake ==
    ASSUME WakeInv, NEW t \in taken, Cleanup(t)
    PROVE  WakeParts'
<1>1. /\ taken' = taken \ {t} /\ done' = done \cup Members(t.room)
      /\ sock' = sock /\ relay' = relay
  BY DEF Cleanup
<1>2. \A d \in Sockets : Waiting(d)' <=> Waiting(d) /\ d \notin Members(t.room)
  BY <1>1 DEF Waiting
<1>3. /\ \A s \in Sessions : Members(relay[s]) \subseteq Sockets
      /\ \A u \in taken : Members(u.room) \subseteq Sockets
  BY MembersTyped DEF WakeInv
<1>4. Seating'
  BY <1>1, <1>2, <1>3 DEF WakeInv, Seating, Apart, Members
<1>5. Taking'
  BY <1>1, <1>2, <1>3 DEF WakeInv, Taking, Apart, Members
<1>6. Apart'
  BY <1>1 DEF WakeInv, Apart, Members
<1>7. Placed'
  <2>1. ASSUME NEW d \in Sockets, Waiting(d)'
        PROVE  \/ \E s \in Sessions : d \in Members(relay'[s])
               \/ \E u \in taken' : d \in Members(u.room)
    BY <1>1, <1>2, <2>1 DEF WakeInv, Placed
  <2> QED BY <2>1 DEF Placed, Members
<1>8. WokenWaited'
  BY <1>1 DEF WakeInv, Taking, Waiting, WokenWaited
<1> QED BY <1>4, <1>5, <1>6, <1>7, <1>8 DEF WakeParts

\* Every step keeps the invariant.
LEMMA NextWake == WakeInv /\ [Next]_vars => WakeInv'
<1> SUFFICES ASSUME WakeInv, [Next]_vars  PROVE WakeInv'
  OBVIOUS
<1>1. TypeOK'  BY NextTypes DEF WakeInv
<1>2. CASE UNCHANGED vars
  BY <1>2, QuietWake, <1>1 DEF vars, sockVars, relayVars, WakeInv, WakeParts
<1>3. CASE Next
  <2>1. ASSUME NEW c \in Sockets, HangUp(c)  PROVE WakeParts'
    BY <2>1, QuietWake DEF HangUp, relayVars
  <2> QED BY <1>1, <1>3, <2>1, StoreWake, AllowWake, AttachWake, ReturnWake,
             BridgeEndsWake, CleanupWake DEF Next, WakeInv, WakeParts
<1> QED BY <1>2, <1>3

\* Who waits will be woken by one and no more: no socket is in two rooms, and
\* nobody woken is in one.
LEMMA WakeImplies == WakeInv => WokenOnce
<1> SUFFICES ASSUME WakeInv, NEW c \in Sockets
             PROVE  /\ Waiting(c) => \E x \in HoldersOf(c) : HoldersOf(c) = {x}
                    /\ c \in done => HoldersOf(c) = {}
  BY DEF WokenOnce
<1>1. ASSUME NEW x \in HoldersOf(c), NEW y \in HoldersOf(c)  PROVE x = y
  BY <1>1 DEF HoldersOf, WakeInv, Seating, Apart
<1>2. Waiting(c) => HoldersOf(c) # {}
  BY DEF HoldersOf, WakeInv, Placed
<1>3. HoldersOf(c) # {} => Waiting(c)
  BY DEF HoldersOf, WakeInv, Seating, Taking
<1> QED BY <1>1, <1>2, <1>3 DEF Waiting

\* A handler that waits is woken by exactly one, and none after it was woken.
THEOREM HandlerIsWokenOnce == Spec => []WokenOnce
<1>1. Init => WakeInv  BY InitWake
<1>2. WakeInv /\ [Next]_vars => WakeInv'  BY NextWake
<1>3. WakeInv => WokenOnce  BY WakeImplies
<1> QED BY <1>1, <1>2, <1>3, PTL DEF Spec

-----------------------------------------------------------------------------
(* Each pair has its bridge                                                 *)

\* The pairs change only where a bridge starts, or where a room is emptied.
LEMMA NextBridged == TypeOK /\ PairIsBridged /\ [Next]_vars => PairIsBridged'
<1> SUFFICES ASSUME TypeOK, PairIsBridged, [Next]_vars  PROVE PairIsBridged'
  OBVIOUS
<1> USE DEF PairIsBridged
<1>1. ~Full(Empty)  BY DEF Full, Empty
<1>2. ASSUME ReapLocked, UNCHANGED bridges  PROVE PairIsBridged'
  BY <1>1, <1>2 DEF ReapLocked, Full, Bridge
<1>3. ASSUME UNCHANGED <<relay, bridges>>  PROVE PairIsBridged'
  BY <1>3 DEF Full, Bridge
<1>4. ASSUME NEW c \in Sockets, Attach(c)  PROVE PairIsBridged'
  BY <1>4 DEF TypeOK, Attach, TakeSeat, Full, Bridge
<1>5. ASSUME NEW b \in bridges, BridgeEnds(b)  PROVE PairIsBridged'
  <2>1. ASSUME NEW s \in Sessions, Full(relay'[s])
        PROVE  relay'[s] = relay[s] /\ s # b.of
    BY <1>1, <1>5, <2>1 DEF TypeOK, BridgeEnds
  <2>2. \A s \in Sessions : Bridge(s, relay[s]).of = s  BY DEF Bridge
  <2>3. bridges' = bridges \ {b}  BY <1>5 DEF BridgeEnds, TakeRoom
  <2>4. ASSUME NEW s \in Sessions, Full(relay'[s])
        PROVE  Bridge(s, relay'[s]) \in bridges'
    BY <2>1, <2>2, <2>3, <2>4
  <2> QED BY <2>4 DEF Full, Bridge
<1>6. CASE UNCHANGED vars
  BY <1>3, <1>6 DEF vars, relayVars
<1>7. CASE Next
  <2>1. ASSUME NEW s \in Sessions, NEW p, RegisterHost(s, p) \/ Join(s, p)
        PROVE  PairIsBridged'
    BY <1>2, <2>1 DEF RegisterHost, Join
  <2>2. ASSUME NEW s \in Sessions, PollJoiner(s) \/ TouchSession(s) \/ Expire(s)
        PROVE  PairIsBridged'
    BY <1>3, <2>2 DEF PollJoiner, TouchSession, Expire, relayVars
  <2>3. ASSUME NEW c \in Sockets, NEW s \in Sessions, NEW p, AllowOverlay(c, s, p)
        PROVE  PairIsBridged'
    BY <1>2, <2>3 DEF AllowOverlay
  <2>4. ASSUME NEW c \in Sockets, Return(c) \/ HangUp(c)  PROVE PairIsBridged'
    BY <1>3, <2>4 DEF Return, HangUp, relayVars
  <2>5. ASSUME NEW t \in taken, Cleanup(t)  PROVE PairIsBridged'
    BY <1>3, <2>5 DEF Cleanup
  <2> QED BY <1>7, <1>4, <1>5, <2>1, <2>2, <2>3, <2>4, <2>5 DEF Next
<1> QED BY <1>6, <1>7

\* Two sockets in a room are bridged, whoever came last and whoever was replaced.
THEOREM RoomIsBridged == Spec => []PairIsBridged
<1>1. Init => TypeOK /\ PairIsBridged
  BY InitTypes DEF Init, PairIsBridged, Full, Empty
<1>2. TypeOK /\ PairIsBridged /\ [Next]_vars => (TypeOK /\ PairIsBridged)'
  BY NextTypes, NextBridged
<1> QED BY <1>1, <1>2, PTL DEF Spec
=============================================================================
