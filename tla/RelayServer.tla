----------------------------- MODULE RelayServer -----------------------------
(***************************************************************************)
(* The rendezvous server: the store of sessions (server/store.go) and the   *)
(* relay that joins two WebSockets of a session (server/overlay.go), both of *)
(* core/rendezvous.                                                         *)
(*                                                                          *)
(* Each request has a goroutine.  The store has one lock and the relay       *)
(* another; a socket's handler passes the store's check, is upgraded, joins   *)
(* its room under the relay's lock and then waits until somebody closes its  *)
(* done channel: a socket that takes its place, the end of a bridge, or the  *)
(* store when it drops a session that expired.  The last two take the room    *)
(* out under the lock and act on it afterwards.                              *)
(*                                                                          *)
(* Time is abstract: a session that is not touched may expire at any moment. *)
(* The limits on requests per minute and refused requests leave the state as *)
(* it is, and so do the addresses that are handed over.                      *)
(***************************************************************************)
CONSTANTS
    Sessions,    \* session ids
    Hosts,       \* peer ids that register sessions
    Joiners,     \* peer ids that join them
    HostSockets, \* the connections hosts make, each once (a bound)
    JoinSockets, \* those joiners make
    None         \* Go's nil

Sockets == HostSockets \cup JoinSockets

ASSUME RelayConstants == /\ HostSockets \cap JoinSockets = {}
                         /\ None \notin Hosts \cup Joiners \cup Sockets

VARIABLES
    room,        \* room[s]: Store.rooms
    expired,     \* the sessions whose host.expiresAt has passed
    sock,        \* sock[c]: the handler of a socket, and its session
    conn,        \* conn[c]: its WebSocket
    done,        \* the sockets whose done channel is closed
    relay,       \* relay[s]: relayBridge.rooms
    bridges,     \* the bridges that run
    taken        \* the rooms taken out of the map by a cleanup not yet over

storeVars == <<room, expired>>
sockVars  == <<sock, conn, done>>
relayVars == <<relay, bridges, taken>>
vars      == <<storeVars, sockVars, relayVars>>

NoRoom == [host |-> None, joiner |-> None, seen |-> FALSE]
Empty  == [host |-> None, joiner |-> None]

Init ==
    /\ room = [s \in Sessions |-> NoRoom]
    /\ expired = {}
    /\ sock = [c \in Sockets |-> [at |-> "idle", of |-> None]]
    /\ conn = [c \in Sockets |-> "none"]
    /\ done = {}
    /\ relay = [s \in Sessions |-> Empty]
    /\ bridges = {} /\ taken = {}

\* The sockets of a room.
Members(r) == {r.host, r.joiner} \ {None}

-----------------------------------------------------------------------------
(* The store                                                               *)

\* The store's lock is held until dropSession has closed what it took.
Unlocked == \A t \in taken : t.by # "store"

\* reapLocked drops the sessions that expired, with their rooms in the relay.
\* (Rooms of several sessions share no socket and are dropped together.)
ReapLocked ==
    /\ relay' = [s \in Sessions |-> IF s \in expired THEN Empty ELSE relay[s]]
    /\ taken' = taken \cup {[by |-> "store", room |-> relay[s]] :
                              s \in {x \in expired : relay[x] # Empty}}

Exists(s) == room[s] # NoRoom /\ s \notin expired

\* The store after reapLocked, and with room r for s.
Kept         == [s \in Sessions |-> IF s \in expired THEN NoRoom ELSE room[s]]
KeptWith(s, r) == [Kept EXCEPT ![s] = r]

\* The same host refreshes its session and keeps its joiner; any other makes a
\* new one.
RegisterHost(s, p) ==
    /\ Unlocked
    /\ ReapLocked
    /\ room' = KeptWith(s, IF Exists(s) /\ room[s].host = p
                           THEN room[s] ELSE [NoRoom EXCEPT !.host = p])
    /\ expired' = {}
    /\ UNCHANGED <<sockVars, bridges>>

\* Any joiner takes the place of the one before it.
Join(s, p) ==
    /\ Unlocked
    /\ ReapLocked
    /\ room' = IF Exists(s)
               THEN KeptWith(s, [room[s] EXCEPT !.joiner = p, !.seen = FALSE])
               ELSE Kept
    /\ expired' = {}
    /\ UNCHANGED <<sockVars, bridges>>

\* It does not reap, and hands out the joiner of a session that expired.
PollJoiner(s) ==
    /\ Unlocked
    /\ room[s].joiner # None /\ ~room[s].seen
    /\ room' = [room EXCEPT ![s].seen = TRUE]
    /\ UNCHANGED <<expired, sockVars, relayVars>>

\* Nor does this: a session that expired and was not yet dropped lives on.
TouchSession(s) ==
    /\ Unlocked
    /\ s \in expired
    /\ expired' = expired \ {s}
    /\ UNCHANGED <<room, sockVars, relayVars>>

\* The time to live of a session is over.
Expire(s) ==
    /\ Exists(s)
    /\ expired' = expired \cup {s}
    /\ UNCHANGED <<room, sockVars, relayVars>>

-----------------------------------------------------------------------------
(* handleOverlayConnect                                                    *)

Role(c) == IF c \in HostSockets THEN "host" ELSE "joiner"

\* AllowOverlay, and the upgrade to a WebSocket, which may fail as well.
AllowOverlay(c, s, p) ==
    /\ sock[c].at = "idle"
    /\ Unlocked
    /\ ReapLocked
    /\ room' = Kept /\ expired' = {}
    /\ \/ /\ Exists(s) /\ room[s][Role(c)] = p
          /\ sock' = [sock EXCEPT ![c] = [at |-> "upgraded", of |-> s]]
          /\ conn' = [conn EXCEPT ![c] = "open"]
       \/ /\ sock' = [sock EXCEPT ![c].at = "over"]
          /\ UNCHANGED conn
    /\ UNCHANGED <<done, bridges>>

Bridge(s, r) == [of |-> s, host |-> r.host, joiner |-> r.joiner]
Full(r)      == None \notin {r.host, r.joiner}
Seated(c)    == [relay[sock[c].of] EXCEPT ![Role(c)] = c]
Before(c)    == relay[sock[c].of][Role(c)]

\* attach: the socket takes its role's place in the room, those freed are closed
\* and their handlers woken, and a bridge may start.
TakeSeat(c, freed, starts) ==
    LET s == sock[c].of IN
    /\ sock[c].at = "upgraded"
    /\ relay' = [relay EXCEPT ![s] = Seated(c)]
    /\ done' = done \cup freed
    /\ conn' = [x \in Sockets |-> IF x \in freed THEN "closed" ELSE conn[x]]
    /\ bridges' = IF starts THEN bridges \cup {Bridge(s, Seated(c))} ELSE bridges
    /\ sock' = [sock EXCEPT ![c].at = "waiting"]
    /\ UNCHANGED <<storeVars, taken>>

\* Mutant of Attach: does not ask whether somebody was there.
AttachClosesNil(c) == TakeSeat(c, {Before(c)}, Full(Seated(c)))

\* Mutant of Attach: only a joiner starts the bridge.
AttachJoinerStarts(c) ==
    TakeSeat(c, {Before(c)} \ {None}, c \in JoinSockets /\ Full(Seated(c)))

Attach(c) == TakeSeat(c, {Before(c)} \ {None}, Full(Seated(c)))

\* <-done: the handler returns.
Return(c) ==
    /\ sock[c].at = "waiting" /\ c \in done
    /\ sock' = [sock EXCEPT ![c].at = "over"]
    /\ UNCHANGED <<storeVars, conn, done, relayVars>>

-----------------------------------------------------------------------------
(* bridge and cleanup                                                      *)

Broken(b) == {b.host, b.joiner} \cap {c \in Sockets : conn[c] # "open"}

\* The locked part of cleanup: it takes whatever room the session has by now.
TakeRoom(b) ==
    /\ bridges' = bridges \ {b}
    /\ taken' = IF relay[b.of] = Empty THEN taken
                ELSE taken \cup {[by |-> "bridge", room |-> relay[b.of]]}
    /\ UNCHANGED <<storeVars, sockVars>>

\* Mutant of BridgeEnds: leaves the room in the map.
BridgeEndsInPlace(b) == Broken(b) # {} /\ TakeRoom(b) /\ UNCHANGED relay

\* Mutant of BridgeEnds: waits for both copies.
BridgeEndsWithBoth(b) ==
    /\ Broken(b) = {b.host, b.joiner}
    /\ TakeRoom(b) /\ relay' = [relay EXCEPT ![b.of] = Empty]

\* Either copy fails.
BridgeEnds(b) ==
    /\ Broken(b) # {}
    /\ TakeRoom(b) /\ relay' = [relay EXCEPT ![b.of] = Empty]

\* The rest of cleanup, without the lock: close the sockets, wake the handlers.
Cleanup(t) ==
    /\ taken' = taken \ {t}
    /\ conn' = [c \in Sockets |-> IF c \in Members(t.room) THEN "closed" ELSE conn[c]]
    /\ done' = done \cup Members(t.room)
    /\ UNCHANGED <<storeVars, sock, relay, bridges>>

\* A client or the network closes a connection; the next read of it fails.
HangUp(c) ==
    /\ conn[c] = "open"
    /\ conn' = [conn EXCEPT ![c] = "broken"]
    /\ UNCHANGED <<storeVars, sock, done, relayVars>>

-----------------------------------------------------------------------------
Next ==
    \/ \E s \in Sessions : \/ \E p \in Hosts : RegisterHost(s, p)
                           \/ \E p \in Joiners : Join(s, p)
                           \/ PollJoiner(s) \/ TouchSession(s) \/ Expire(s)
    \/ \E c \in Sockets, s \in Sessions, p \in Hosts \cup Joiners :
          AllowOverlay(c, s, p)
    \/ \E c \in Sockets : Attach(c) \/ Return(c) \/ HangUp(c)
    \/ \E b \in bridges : BridgeEnds(b)
    \/ \E t \in taken : Cleanup(t)

Spec == Init /\ [][Next]_vars

\* The server's goroutines run on; clients do as they like.
Bridges == [of : Sessions, host : HostSockets, joiner : JoinSockets]
RelayRooms == [host : HostSockets \cup {None}, joiner : JoinSockets \cup {None}]
Takings == [by : {"store", "bridge"}, room : RelayRooms]
Fairness == /\ \A c \in Sockets : WF_vars(Attach(c) \/ Return(c))
            /\ \A b \in Bridges : WF_vars(b \in bridges /\ BridgeEnds(b))
            /\ \A t \in Takings : WF_vars(t \in taken /\ Cleanup(t))
FairSpec == Spec /\ Fairness

-----------------------------------------------------------------------------
(* Properties                                                              *)

Rooms == [host : Hosts \cup {None}, joiner : Joiners \cup {None}, seen : BOOLEAN]

\* The type invariant.
TypeOK ==
    /\ room \in [Sessions -> Rooms]
    /\ expired \subseteq Sessions
    /\ sock \in [Sockets -> [at : {"idle", "upgraded", "waiting", "over"},
                             of : Sessions \cup {None}]]
    /\ \A c \in Sockets : sock[c].at \in {"upgraded", "waiting"} => sock[c].of \in Sessions
    /\ conn \in [Sockets -> {"none", "open", "broken", "closed"}]
    /\ done \subseteq Sockets
    /\ relay \in [Sessions -> RelayRooms]
    /\ bridges \subseteq Bridges
    /\ taken \subseteq Takings

\* Those who will close the done channel of c: the room it is in, or a cleanup
\* that took this room.
HoldersOf(c) == {s \in Sessions : c \in Members(relay[s])}
                \cup {t \in taken : c \in Members(t.room)}

Waiting(c) == sock[c].at = "waiting" /\ c \notin done

\* A handler that waits has somebody to wake it, and only one: signalDone looks
\* at the channel before it closes it, without a lock in cleanup, and two at a
\* time would close it twice and end the server.
WokenOnce ==
    \A c \in Sockets :
        /\ Waiting(c) => \E x \in HoldersOf(c) : HoldersOf(c) = {x}
        /\ c \in done => HoldersOf(c) = {}

\* Two sockets in a room are joined, whichever came last and however often either
\* was replaced.
PairIsBridged ==
    \A s \in Sessions : Full(relay[s]) => Bridge(s, relay[s]) \in bridges

\* When either side of a bridge is gone, the handlers of both end: none keeps a
\* socket and a goroutine for a peer that left.
BothReturn ==
    \A c \in Sockets :
        (\E b \in bridges : c \in {b.host, b.joiner} /\ Broken(b) # {})
            ~> sock[c].at = "over"

\* The statement below is one of the repository that the code does not keep.

\* server/http.go:40: bridges are "long-lived [...] for the full invite session":
\* a bridge's end takes no pair of sockets with it that are both still open.
BridgeLasts ==
    \A t \in taken : t.by = "bridge" /\ Full(t.room) =>
        \E c \in Members(t.room) : conn[c] # "open"
=============================================================================
