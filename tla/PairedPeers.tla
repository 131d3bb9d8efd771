----------------------------- MODULE PairedPeers -----------------------------
(***************************************************************************)
(* The peers whose invite we accepted: the registry (core/pairing) and what   *)
(* the engine does with it, which is to probe each peer every 25 seconds, to  *)
(* open, replace and remove its tunnel, and to drop a peer that says goodbye  *)
(* or was idle too long.                                                     *)
(*                                                                          *)
(* Every probe is a goroutine of its own; two of them may work on one peer,   *)
(* and a third goroutine may remove the peer meanwhile.  The registry, the    *)
(* overlays and the punch sockets have a lock each, held for one look or one *)
(* change.                                                                  *)
(*                                                                          *)
(* What happens inside a tunnel is OverlayLink's; what happens to the tunnel *)
(* of a host, and to the peers that joined it, is InviteHost's.              *)
(***************************************************************************)
EXTENDS FiniteSets

CONSTANTS
    Peers,
    Links,       \* overlay.Links; one that was closed and forgotten is new again
    Sockets,     \* punch sockets, likewise
    Probes,      \* the probes that may run at the same time (a bound)
    Goodbyes,    \* requests that say goodbye, likewise
    Loop,        \* the goroutine of Registry.Start
    None

Threads == Probes \cup Goodbyes \cup {Loop}

ASSUME PairedConstants == /\ Probes \cap Goodbyes = {} /\ Loop \notin Probes \cup Goodbyes
                          /\ None \notin Peers \cup Links \cup Sockets

VARIABLES
    known,       \* the peers that are in the registry
    active,      \* those whose idleDeadline is still to come
    due,         \* those for whom a probe was started that does not yet run
    expired,     \* those reapIdle has taken out and not yet seen off
    overlays,    \* overlays[p]: Engine.overlays
    punch,       \* punch[p]: Engine.punchConn
    linked,      \* the Links that are not closed
    open,        \* the sockets that are not closed
    thread       \* thread[g]: the place of a goroutine and what it holds

registryVars == <<known, active, due, expired>>
mapVars      == <<overlays, punch>>
netVars      == <<linked, open>>
vars         == <<registryVars, mapVars, netVars, thread>>

Resting == [at |-> "idle", peer |-> None, link |-> None, sock |-> None, then |-> "idle"]

Init ==
    /\ known = {} /\ active = {} /\ due = {} /\ expired = {}
    /\ overlays = [p \in Peers |-> None]
    /\ punch = [p \in Peers |-> None]
    /\ linked = {} /\ open = {}
    /\ thread = [g \in Threads |-> Resting]

At(g, place)  == thread[g].at = place
Peer(g)       == thread[g].peer
Become(g, r)  == thread' = [thread EXCEPT ![g] = r]
GoTo(g, place) == Become(g, [thread[g] EXCEPT !.at = place])

\* A Link and a socket that nobody knows of.
NewLink(l) ==
    LET free == {x \in Links \ linked : /\ \A p \in Peers : overlays[p] # x
                                       /\ \A g \in Threads : thread[g].link # x}
    IN l \in free /\ l = CHOOSE x \in free : TRUE
NewSocket(s) ==
    LET free == {x \in Sockets \ open : /\ \A p \in Peers : punch[p] # x
                                        /\ \A g \in Threads : thread[g].sock # x}
    IN s \in free /\ s = CHOOSE x \in free : TRUE

-----------------------------------------------------------------------------
(* The registry                                                            *)

\* PairFromInvite: Add makes or replaces the entry and starts a probe.
Pair(p) ==
    /\ known' = known \cup {p}
    /\ active' = active \cup {p}
    /\ due' = due \cup {p}
    /\ UNCHANGED <<expired, mapVars, netVars, thread>>

\* Mutant of TouchActivity: the entry is written back though it was gone.
TouchBlindly(p) == active' = active \cup {p}

\* TouchActivity finds the entry or does nothing.
TouchActivity(p) == active' = active \cup ({p} \cap known)

\* touchInternetActivity by a message, an offer, a SendTo or the end of a transfer.
Touch(p) ==
    /\ p \notin active
    /\ TouchActivity(p)
    /\ UNCHANGED <<known, due, expired, mapVars, netVars, thread>>

\* InternetIdleTimeout has passed since the deadline was set.
IdlePasses(p) ==
    /\ p \in active
    /\ active' = active \ {p}
    /\ UNCHANGED <<known, due, expired, mapVars, netVars, thread>>

\* probeAll.  Start has one goroutine for this and for reapIdle.
ProbeAll ==
    /\ At(Loop, "idle")
    /\ due' = due \cup known
    /\ UNCHANGED <<known, active, expired, mapVars, netVars, thread>>

\* reapIdle takes the idle peers out under the lock, but for those that have a
\* transfer just then (IsBusyWith), and sees them off after it.
ReapIdle == \E gone \in SUBSET (known \ active) :
    /\ At(Loop, "idle") /\ gone # {}
    /\ known' = known \ gone
    /\ expired' = gone
    /\ GoTo(Loop, "farewell")
    /\ UNCHANGED <<active, due, mapVars, netVars>>

\* onPairedPeerIdle: a goodbye, however it goes, and the tunnel is removed.
PeerIdle(p) ==
    /\ At(Loop, "farewell") /\ p \in expired
    /\ expired' = expired \ {p}
    /\ Become(Loop, [Resting EXCEPT !.at = "take", !.peer = p,
                       !.then = IF expired' = {} THEN "idle" ELSE "farewell"])
    /\ UNCHANGED <<known, active, due, mapVars, netVars>>

\* ReceiveGoodbye, dropPairedPeer: Remove has onRemove remove the tunnel, and
\* dropPairedPeer does so again.
Goodbye(g, p) ==
    /\ At(g, "idle")
    /\ p \in known \/ overlays[p] # None
    /\ known' = known \ {p}
    /\ active' = active \ {p}
    /\ Become(g, [Resting EXCEPT !.at = "take", !.peer = p,
                    !.then = IF p \in known THEN "take" ELSE "idle"])
    /\ UNCHANGED <<due, expired, mapVars, netVars>>

-----------------------------------------------------------------------------
(* removeOverlay and setOverlay                                            *)

\* The Link leaves the map under the lock
TakeOverlay(g) ==
    /\ At(g, "take")
    /\ Become(g, [thread[g] EXCEPT !.at = "close", !.link = overlays[Peer(g)]])
    /\ overlays' = [overlays EXCEPT ![Peer(g)] = None]
    /\ UNCHANGED <<registryVars, punch, netVars>>

\* and is closed after it, and then the punch socket.
CloseOverlay(g) ==
    LET p == Peer(g)
        n == thread[g].then
    IN /\ At(g, "close")
       /\ linked' = linked \ {thread[g].link}
       /\ open' = open \ {punch[p]}
       /\ punch' = [punch EXCEPT ![p] = None]
       /\ Become(g, IF n = "idle" THEN Resting
                    ELSE [Resting EXCEPT !.at = n,
                            !.peer = IF n = "farewell" THEN None ELSE p])
       /\ UNCHANGED <<registryVars, overlays>>

\* Mutant of SetOverlay: it overwrites the Link that is there.
SetOver(g) ==
    LET p == Peer(g) IN
    /\ At(g, "set")
    /\ overlays' = [overlays EXCEPT ![p] = thread[g].link]
    /\ Become(g, [thread[g] EXCEPT !.at = "punch", !.link = None])
    /\ UNCHANGED <<registryVars, punch, netVars>>

\* setOverlay closes the Link it replaces, under the lock.
SetOverlay(g) ==
    LET p == Peer(g) IN
    /\ At(g, "set")
    /\ linked' = linked \ {overlays[p]}
    /\ overlays' = [overlays EXCEPT ![p] = thread[g].link]
    /\ Become(g, [thread[g] EXCEPT !.at = "punch", !.link = None])
    /\ UNCHANGED <<registryVars, punch, open>>

\* The socket follows under another lock, if there is one.
SetPunch(g) ==
    LET p == Peer(g)
        s == thread[g].sock
    IN /\ At(g, "punch")
       /\ IF s = None THEN UNCHANGED <<punch, open>>
          ELSE /\ open' = IF punch[p] = s THEN open ELSE open \ {punch[p]}
               /\ punch' = [punch EXCEPT ![p] = s]
       /\ Become(g, [thread[g] EXCEPT !.at = thread[g].then, !.sock = None])
       /\ UNCHANGED <<registryVars, overlays, linked>>

-----------------------------------------------------------------------------
(* probePairedPeer                                                         *)

\* A peer that is gone loses its tunnel; one that has none joins the session again.
BeginProbe(q, p) ==
    /\ At(q, "idle") /\ p \in due
    /\ due' = due \ {p}
    /\ Become(q, [Resting EXCEPT !.peer = p,
                    !.at = IF p \notin known THEN "take"
                           ELSE IF overlays[p] = None THEN "join" ELSE "look"])
    /\ UNCHANGED <<known, active, expired, mapVars, netVars>>

\* rendezvousJoin: a punch socket, closed again if the server refuses.
\* (UpdateInvite replaces addresses, in an entry that is still there.)
RendezvousJoin(q) ==
    /\ At(q, "join")
    /\ \/ \E s \in Sockets :
            /\ NewSocket(s)
            /\ open' = open \cup {s}
            /\ Become(q, [thread[q] EXCEPT !.at = "dial", !.sock = s])
       \/ GoTo(q, "dial") /\ UNCHANGED open
    /\ UNCHANGED <<registryVars, mapVars, linked>>

\* ConnectJoinerRetry: it succeeds,
Connect(q) ==
    /\ At(q, "dial")
    /\ \E l \in Links :
         /\ NewLink(l)
         /\ linked' = linked \cup {l}
         /\ Become(q, [thread[q] EXCEPT !.at = "set", !.then = "look", !.link = l])
    /\ UNCHANGED <<registryVars, mapVars, open>>

\* or not, and the probe is over.
ConnectFails(q) ==
    /\ At(q, "dial")
    /\ open' = open \ {thread[q].sock}
    /\ Become(q, Resting)
    /\ UNCHANGED <<registryVars, mapVars, linked>>

\* Update and touchInternetActivity, of an entry that is still there; or, when
\* the probe fails, a SetStatus that changes what the user reads.
ProbeOK(q) ==
    /\ TouchActivity(Peer(q))
    /\ Become(q, Resting)
    /\ UNCHANGED <<known, due, expired, mapVars, netVars>>

ProbeFails(q) ==
    /\ Become(q, Resting)
    /\ UNCHANGED <<registryVars, mapVars, netVars>>

\* ProbeInfo over the tunnel of the moment.  If it fails, the tunnel is replaced.
AskOverlay(q) ==
    /\ At(q, "look") /\ overlays[Peer(q)] # None
    /\ \/ ProbeOK(q)
       \/ /\ Become(q, [thread[q] EXCEPT !.at = "take", !.then = "redial"])
          /\ UNCHANGED <<registryVars, mapVars, netVars>>

\* Without a tunnel it asks over TCP.
AskTCP(q) ==
    /\ At(q, "look") /\ overlays[Peer(q)] = None
    /\ ProbeOK(q) \/ ProbeFails(q)

\* reconnectJoinerOverlay, after removeOverlay: it dials, and sets the new Link
\* with the socket that is in the map by then; or goes on without a tunnel.
Reconnect(q) ==
    /\ At(q, "redial")
    /\ \/ \E l \in Links :
            /\ NewLink(l)
            /\ linked' = linked \cup {l}
            /\ Become(q, [thread[q] EXCEPT !.at = "set", !.then = "relook",
                                           !.link = l, !.sock = punch[Peer(q)]])
       \/ GoTo(q, "relook") /\ UNCHANGED linked
    /\ UNCHANGED <<registryVars, mapVars, open>>

\* probeOverOverlay asks again if there is a tunnel.
AskAgain(q) ==
    /\ At(q, "relook")
    /\ \/ overlays[Peer(q)] # None /\ ProbeOK(q)
       \/ ProbeFails(q)

-----------------------------------------------------------------------------
Overlay(g) == TakeOverlay(g) \/ CloseOverlay(g) \/ SetOverlay(g) \/ SetPunch(g)

Probe(q) ==
    \/ RendezvousJoin(q) \/ Connect(q) \/ ConnectFails(q)
    \/ AskOverlay(q) \/ AskTCP(q) \/ Reconnect(q) \/ AskAgain(q)

Next ==
    \/ \E p \in Peers : Pair(p) \/ Touch(p) \/ IdlePasses(p) \/ PeerIdle(p)
    \/ ProbeAll \/ ReapIdle
    \/ \E g \in Goodbyes, p \in Peers : Goodbye(g, p)
    \/ \E q \in Probes, p \in Peers : BeginProbe(q, p)
    \/ \E q \in Probes : Probe(q)
    \/ \E g \in Threads : Overlay(g)

Spec == Init /\ [][Next]_vars

-----------------------------------------------------------------------------
(* Properties                                                              *)

Places == {"idle", "farewell", "take", "close", "set", "punch", "join", "dial",
           "look", "redial", "relook"}

\* The registry, the maps and what each goroutine holds; only a peer that is in
\* the registry has a deadline, whatever a late probe does with it.
TypeOK ==
    /\ known \subseteq Peers /\ active \subseteq known
    /\ due \subseteq Peers /\ expired \subseteq Peers
    /\ overlays \in [Peers -> Links \cup {None}]
    /\ punch \in [Peers -> Sockets \cup {None}]
    /\ linked \subseteq Links /\ open \subseteq Sockets
    /\ thread \in [Threads -> [at : Places, peer : Peers \cup {None},
                               link : Links \cup {None}, sock : Sockets \cup {None},
                               then : {"idle", "farewell", "take", "redial", "look", "relook"}]]

\* A Link that was not closed is in the map, or held by the one goroutine that
\* will put it there or close it, and a Link that is in the map was not closed: of
\* two probes that each open a tunnel for one peer, and a goodbye or a reconnect
\* that removes it, none leaves a Link behind or closes the one in use.
LinkIsKept ==
    /\ \A l \in linked : Cardinality({p \in Peers : overlays[p] = l}
                                    \cup {g \in Threads : thread[g].link = l}) = 1
    /\ \A p \in Peers : overlays[p] \in linked \cup {None}

\* No punch socket is left behind: it is in the map, or held by a goroutine that
\* will put it there or close it.
SocketIsKept ==
    \A s \in open :
        \/ \E p \in Peers : punch[p] = s
        \/ \E g \in Threads : thread[g].sock = s

\* Neither a Link nor a socket is left behind, whichever way the probes, the
\* goodbyes and the reaper come between the two locks of setOverlay and of
\* removeOverlay.
NothingLeftBehind == LinkIsKept /\ SocketIsKept

\* p is in no list, and no goroutine is at work for it.
SeenOff(p) == p \notin known \cup expired \cup due /\ \A g \in Threads : Peer(g) # p

\* A peer that was removed, whose probes have ended, has no tunnel
\* ("idle timeout: send goodbye, tear down overlay").  The code does not keep this.
RemovedHasNoTunnel ==
    \A p \in Peers : SeenOff(p) => overlays[p] = None

=============================================================================
