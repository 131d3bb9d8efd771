----------------------------- MODULE OverlayLink -----------------------------
(***************************************************************************)
(* The tunnel between the host of an invite and its joiner (core/overlay):   *)
(* one Link at either end, from the dial of the relay over the upgrade to a   *)
(* direct QUIC session to Close, and the loop of the engine that looks after *)
(* the host's Link.                                                          *)
(*                                                                          *)
(* An end has up to two yamux sessions, one over the relay's WebSocket and    *)
(* one over QUIC.  Its fields say which sessions it knows, which is not the   *)
(* same as which sessions are up: a session is closed by either end, by the   *)
(* network or by yamux itself, and the fields are not told.                  *)
(*                                                                          *)
(* A Link is dialled once.  When the host's loop or the joiner's engine dials *)
(* again it makes a new Link, which is another behaviour of this module.      *)
(***************************************************************************)
CONSTANTS
    Calls,       \* requests that either end makes of the other, each once (a bound)
    None

Ends  == {"host", "joiner"}
Paths == {"relay", "direct"}

ASSUME OverlayConstants == None \notin Ends

VARIABLES
    mux,         \* mux[e]: which of relayMux and directMux are not nil
    up,          \* the sessions that are up, <<end, path>>
    cut,         \* the paths that one end or the network has broken
    closed,      \* the ends whose Link was closed
    lost,        \* the ends whose relayLost is closed
    inbound,     \* inbound[e]: the goroutine of startRelayInbound
    listener,    \* runQUICListener, at the host
    serving,     \* serveMuxHost, at the host
    upgrade,     \* the goroutine of StartUpgrade, at the joiner
    note,        \* the joiner's p2pNote
    sockets,     \* the UDP sockets that are open: the host's quicUDP, the joiner's punch
    loop,        \* runInviteHostOverlayLoop, from this Link on
    ctx,         \* the context of the invite: TRUE until it is canceled
    call         \* call[c]: doControl or DialData, by whom, and where it is

endVars  == <<mux, up, cut, closed>>
hostVars == <<listener, serving, loop, ctx>>
vars     == <<endVars, hostVars, lost, inbound, upgrade, note, sockets, call>>

Notes == {"", "upgrading", "no_punch", "negotiate_failed", "no_upnp",
          "punch_timeout", "quic_failed"}

Init ==
    /\ mux = [e \in Ends |-> {}]
    /\ up = {} /\ cut = {} /\ closed = {} /\ lost = {}
    /\ inbound = [e \in Ends |-> "none"]
    /\ listener = "none" /\ serving = "none" /\ upgrade = "none" /\ note = ""
    /\ sockets = {}
    /\ loop = "dial" /\ ctx = TRUE
    /\ call = [c \in Calls |-> [by |-> None, at |-> "idle"]]

Other(e) == IF e = "host" THEN "joiner" ELSE "host"

\* Mode and activeMux: the direct session whenever there is one.
Mode(e) == IF "direct" \in mux[e] THEN "direct"
           ELSE IF "relay" \in mux[e] THEN "relay" ELSE ""

\* The accept loops: inbound streams on path p are taken at end e.
Accepts(e, p) == \/ inbound[e] = p
                 \/ e = "host" /\ p = "direct" /\ serving = "on"

\* End e closes its sessions on paths ps; the other end will notice.
CloseSessions(e, ps) ==
    /\ up' = up \ ({e} \X ps)
    /\ cut' = cut \cup {p \in ps : <<e, p>> \in up}

-----------------------------------------------------------------------------
(* Dialling                                                                *)

\* ServeHost: the relay, the UDP socket of QUIC, the listener and the accept
\* loop on the relay.  A dial that fails leaves nothing behind and is tried
\* again by the loop.
ServeHost ==
    /\ loop = "dial" /\ ctx /\ "relay" \notin cut
    /\ mux' = [mux EXCEPT !["host"] = {"relay"}]
    /\ up' = up \cup {<<"host", "relay">>}
    /\ sockets' = sockets \cup {"quic"}
    /\ listener' = "on"
    /\ inbound' = [inbound EXCEPT !["host"] = "begun"]
    /\ loop' = "wait"
    /\ UNCHANGED <<cut, closed, lost, serving, upgrade, note, ctx, call>>

\* ConnectJoinerRetry, the attempt that succeeds.  The punch socket was bound
\* before, by rendezvousJoin; a reconnect has none.
ConnectJoiner ==
    /\ mux["joiner"] = {} /\ "relay" \notin cut
    /\ mux' = [mux EXCEPT !["joiner"] = {"relay"}]
    /\ up' = up \cup {<<"joiner", "relay">>}
    /\ \/ sockets' = sockets \cup {"punch"} /\ upgrade' = "ready"
       \/ UNCHANGED sockets /\ upgrade' = "bare"
    /\ UNCHANGED <<cut, closed, hostVars, lost, inbound, note, call>>

StartJoinerRelay ==
    /\ mux["joiner"] # {} /\ inbound["joiner"] = "none"
    /\ inbound' = [inbound EXCEPT !["joiner"] = "begun"]
    /\ UNCHANGED <<endVars, hostVars, lost, upgrade, note, sockets, call>>

\* Mutant of ServeRelayInbound: relayLost is closed when the loop starts.
SignalFirst(e) ==
    /\ inbound[e] = "begun"
    /\ inbound' = [inbound EXCEPT ![e] = Mode(e)]
    /\ lost' = lost \cup {e}
    /\ UNCHANGED <<endVars, hostVars, upgrade, note, sockets, call>>

\* The goroutine of startRelayInbound asks for the active session when it gets
\* to run, and serves that one.
ServeRelayInbound(e) ==
    /\ inbound[e] = "begun"
    /\ inbound' = [inbound EXCEPT ![e] = Mode(e)]
    /\ UNCHANGED <<endVars, hostVars, lost, upgrade, note, sockets, call>>

\* Its session ended: signalRelayLost.
InboundEnds(e) ==
    /\ inbound[e] \in Paths /\ <<e, inbound[e]>> \notin up
    /\ inbound' = [inbound EXCEPT ![e] = "over"]
    /\ lost' = lost \cup {e}
    /\ UNCHANGED <<endVars, hostVars, upgrade, note, sockets, call>>

-----------------------------------------------------------------------------
(* The upgrade, at the joiner                                              *)

\* StartUpgrade: without a punch socket the relay is kept.
StartUpgrade ==
    /\ inbound["joiner"] # "none"
    /\ \/ upgrade = "ready" /\ upgrade' = "begun" /\ note' = "upgrading"
       \/ upgrade = "bare"  /\ upgrade' = "over"  /\ note' = "no_punch"
    /\ UNCHANGED <<endVars, hostVars, lost, inbound, sockets, call>>

UpgradeFails(why) ==
    /\ upgrade' = "over"
    /\ note' = why
    /\ UNCHANGED <<endVars, hostVars, lost, inbound, sockets, call>>

\* Mutant of AskUpgrade: the ports are taken from the invite, nobody is asked.
AskNobody ==
    /\ upgrade = "begun"
    /\ upgrade' = "offered"
    /\ UNCHANGED <<endVars, hostVars, lost, inbound, note, sockets, call>>

\* It opens a stream on the relay and sends its request.
AskUpgrade ==
    /\ upgrade = "begun"
    /\ IF <<"joiner", "relay">> \in up
       THEN /\ upgrade' = "asked"
            /\ UNCHANGED <<endVars, hostVars, lost, inbound, note, sockets, call>>
       ELSE UpgradeFails("negotiate_failed")

\* handleUpgradeRequest: the host's accept loop on the relay answers with the
\* ports to dial.
HostOffers ==
    /\ upgrade = "asked"
    /\ Accepts("host", "relay") /\ Ends \X {"relay"} \subseteq up
    /\ upgrade' = "offered"
    /\ UNCHANGED <<endVars, hostVars, lost, inbound, note, sockets, call>>

\* No deadline applies while it waits for the offer: only the end of the
\* relay session ends the wait.
OfferLost ==
    /\ upgrade = "asked" /\ <<"joiner", "relay">> \notin up
    /\ UpgradeFails("negotiate_failed")

\* The punch and the dial.  The host's transport completes the handshake
\* whether or not its listener is there to take the connection.
DialQUIC ==
    /\ upgrade = "offered"
    /\ sockets = {"quic", "punch"} /\ "direct" \notin cut
    /\ up' = up \cup {<<"joiner", "direct">>}
    /\ upgrade' = "dialed"
    /\ UNCHANGED <<mux, cut, closed, hostVars, lost, inbound, note, sockets, call>>

DialFails ==
    /\ upgrade = "offered"
    /\ \E why \in {"no_upnp", "punch_timeout", "quic_failed"} : UpgradeFails(why)

\* promoteDirect: the fields change under the lock,
PromoteJoiner ==
    /\ upgrade = "dialed"
    /\ mux' = [mux EXCEPT !["joiner"] = {"direct"}]
    /\ note' = ""
    /\ upgrade' = "promoted"
    /\ UNCHANGED <<up, cut, closed, hostVars, lost, inbound, sockets, call>>

\* the relay is closed after it.
JoinerClosesRelay ==
    /\ upgrade = "promoted"
    /\ CloseSessions("joiner", {"relay"})
    /\ upgrade' = "over"
    /\ UNCHANGED <<mux, closed, hostVars, lost, inbound, note, sockets, call>>

-----------------------------------------------------------------------------
(* The listener, at the host                                               *)

AcceptQUIC ==
    /\ listener = "on" /\ <<"joiner", "direct">> \in up /\ "direct" \notin cut
    /\ listener' = "accepted"
    /\ UNCHANGED <<endVars, serving, loop, ctx, lost, inbound, upgrade, note, sockets, call>>

\* AcceptStream returns with the first bytes of the joiner: a request, or the
\* keepalive of its session.
AcceptStream ==
    /\ listener = "accepted" /\ "direct" \notin cut
    /\ up' = up \cup {<<"host", "direct">>}
    /\ listener' = "ready"
    /\ UNCHANGED <<mux, cut, closed, serving, loop, ctx, lost, inbound, upgrade, note, sockets, call>>

\* The connection ended before that: the listener waits for another, or finds
\* that the invite is over.
AcceptFails ==
    /\ listener \in {"on", "accepted"}
    /\ \/ listener = "accepted" /\ "direct" \in cut
       \/ ~ctx
       \/ "host" \in closed
    /\ listener' = IF ~ctx \/ "host" \in closed THEN "over" ELSE "on"
    /\ cut' = IF listener = "accepted" THEN cut \cup {"direct"} ELSE cut
    /\ UNCHANGED <<mux, up, closed, serving, loop, ctx, lost, inbound, upgrade, note, sockets, call>>

PromoteHost ==
    /\ listener = "ready"
    /\ mux' = [mux EXCEPT !["host"] = {"direct"}]
    /\ listener' = "promoted"
    /\ UNCHANGED <<up, cut, closed, serving, loop, ctx, lost, inbound, upgrade, note, sockets, call>>

\* Mutant of HostClosesRelay: the new session gets no loop.
ServeNothing ==
    /\ listener = "promoted"
    /\ CloseSessions("host", {"relay"})
    /\ listener' = "over"
    /\ UNCHANGED <<mux, closed, serving, loop, ctx, lost, inbound, upgrade, note, sockets, call>>

\* The relay is closed, and a loop serves the new session.
HostClosesRelay ==
    /\ listener = "promoted"
    /\ CloseSessions("host", {"relay"})
    /\ serving' = "on"
    /\ listener' = "over"
    /\ UNCHANGED <<mux, closed, loop, ctx, lost, inbound, upgrade, note, sockets, call>>

ServingEnds ==
    /\ serving = "on" /\ <<"host", "direct">> \notin up
    /\ serving' = "over"
    /\ UNCHANGED <<endVars, listener, loop, ctx, lost, inbound, upgrade, note, sockets, call>>

-----------------------------------------------------------------------------
(* Close, and the loop that looks after the host's Link                    *)

\* Mutant of Close: the UDP socket is left open.
CloseMuxes(e) ==
    IF e \in closed THEN UNCHANGED <<endVars, sockets>>
    ELSE /\ closed' = closed \cup {e}
         /\ CloseSessions(e, mux[e])
         /\ UNCHANGED <<mux, sockets>>

\* Close, once: the sessions the fields name and the host's UDP socket, without
\* which its QUIC session ends too.
Close(e) ==
    LET broken == {p \in mux[e] : <<e, p>> \in up}
                  \cup (IF e = "host" /\ "quic" \in sockets THEN {"direct"} ELSE {})
    IN IF e \in closed THEN UNCHANGED <<endVars, sockets>>
       ELSE /\ closed' = closed \cup {e}
            /\ up' = up \ ({e} \X mux[e])
            /\ cut' = cut \cup broken
            /\ sockets' = IF e = "host" THEN sockets \ {"quic"} ELSE sockets
            /\ UNCHANGED mux

\* removeOverlay or setOverlay close the joiner's Link, and afterwards the punch
\* socket, which setOverlay keeps when the Link that takes over brings none or the
\* same: ClosePunch may happen, and is not assumed to.
CloseJoiner ==
    /\ mux["joiner"] # {} /\ "joiner" \notin closed
    /\ Close("joiner")
    /\ UNCHANGED <<hostVars, lost, inbound, upgrade, note, call>>

ClosePunch ==
    /\ "joiner" \in closed /\ "punch" \in sockets
    /\ sockets' = sockets \ {"punch"}
    /\ cut' = cut \cup {"direct"}
    /\ UNCHANGED <<mux, up, closed, hostVars, lost, inbound, upgrade, note, call>>

\* The invite is stopped: stopInviteHost cancels first and closes afterwards.
Cancel ==
    /\ ctx
    /\ ctx' = FALSE
    /\ UNCHANGED <<endVars, listener, serving, loop, lost, inbound, upgrade, note, sockets, call>>

StopCloses ==
    /\ ~ctx /\ mux["host"] # {} /\ "host" \notin closed
    /\ Close("host")
    /\ UNCHANGED <<hostVars, lost, inbound, upgrade, note, call>>

\* WaitRelayDown returns.  A Link that has gone direct is kept until the invite
\* ends; any other is given up.
RelayDown ==
    /\ loop = "wait"
    /\ "host" \in lost \cup closed \/ ~ctx
    /\ loop' = IF ctx /\ Mode("host") = "direct" THEN "direct" ELSE "close"
    /\ UNCHANGED <<endVars, listener, serving, ctx, lost, inbound, upgrade, note, sockets, call>>

DirectEnds ==
    /\ loop = "direct" /\ ~ctx
    /\ loop' = "close"
    /\ UNCHANGED <<endVars, listener, serving, ctx, lost, inbound, upgrade, note, sockets, call>>

LoopCloses ==
    /\ loop = "close"
    /\ Close("host")
    /\ loop' = "over"
    /\ UNCHANGED <<listener, serving, ctx, lost, inbound, upgrade, note, call>>

-----------------------------------------------------------------------------
(* Requests                                                                *)

\* doControl and DialData take the active session and open a stream on it.
OpenCall(c, e) ==
    /\ call[c].by = None /\ Mode(e) # ""
    /\ call' = [call EXCEPT ![c] =
                  [by |-> e, at |-> IF <<e, Mode(e)>> \in up THEN Mode(e) ELSE "failed"]]
    /\ UNCHANGED <<endVars, hostVars, lost, inbound, upgrade, note, sockets>>

\* Call c waits on session p.
Waits(c, p) == call[c].at = p /\ p \in Paths

\* handleHostStream at the other end: proxyControl or proxyData.
Serve(c, p) ==
    /\ Waits(c, p) /\ p \notin cut
    /\ Accepts(Other(call[c].by), p) /\ Ends \X {p} \subseteq up
    /\ call' = [call EXCEPT ![c].at = "answered"]
    /\ UNCHANGED <<endVars, hostVars, lost, inbound, upgrade, note, sockets>>

CallFails(c, p) ==
    /\ Waits(c, p) /\ <<call[c].by, p>> \notin up
    /\ call' = [call EXCEPT ![c].at = "failed"]
    /\ UNCHANGED <<endVars, hostVars, lost, inbound, upgrade, note, sockets>>

\* A stream that nobody accepts: yamux waits for StreamOpenTimeout and closes
\* the whole session.
OpenTimeout(c, p) ==
    /\ Waits(c, p) /\ <<call[c].by, p>> \in up
    /\ ~Accepts(Other(call[c].by), p)
    /\ CloseSessions(call[c].by, {p})
    /\ UNCHANGED <<mux, closed, hostVars, lost, inbound, upgrade, note, sockets, call>>

\* The caller's end of a session that was broken finds out.
Notice(e, p) ==
    /\ <<e, p>> \in up /\ p \in cut
    /\ up' = up \ {<<e, p>>}
    /\ UNCHANGED <<mux, cut, closed, hostVars, lost, inbound, upgrade, note, sockets, call>>

\* The network, the server, or a WebSocket whose pings are not answered: a
\* path breaks.
Lose(p) ==
    /\ \E e \in Ends : <<e, p>> \in up
    /\ cut' = cut \cup {p}
    /\ UNCHANGED <<mux, up, closed, hostVars, lost, inbound, upgrade, note, sockets, call>>

-----------------------------------------------------------------------------
Joiner == \/ AskUpgrade \/ OfferLost \/ DialQUIC \/ DialFails
          \/ PromoteJoiner \/ JoinerClosesRelay
Listener == AcceptQUIC \/ AcceptStream \/ AcceptFails \/ PromoteHost \/ HostClosesRelay
Loop == RelayDown \/ DirectEnds \/ LoopCloses
Inbound(e) == ServeRelayInbound(e) \/ InboundEnds(e)

Next ==
    \/ ServeHost \/ ConnectJoiner \/ StartJoinerRelay \/ StartUpgrade
    \/ Joiner \/ HostOffers \/ Listener \/ ServingEnds \/ Loop
    \/ CloseJoiner \/ ClosePunch \/ Cancel \/ StopCloses
    \/ \E e \in Ends : Inbound(e)
    \/ \E c \in Calls, e \in Ends : OpenCall(c, e)
    \/ \E c \in Calls, p \in Paths : Serve(c, p) \/ CallFails(c, p) \/ OpenTimeout(c, p)
    \/ \E e \in Ends, p \in Paths : Notice(e, p)
    \/ \E p \in Paths : Lose(p)

Spec == Init /\ [][Next]_vars

\* Goroutines go on when they can.  A keepalive reaches the host as long as the
\* direct path works; a path that was broken is noticed by either end.
FairSpec ==
    /\ Spec
    /\ WF_vars(Joiner) /\ WF_vars(HostOffers) /\ WF_vars(Listener)
    /\ WF_vars(ServingEnds) /\ WF_vars(Loop)
    /\ \A e \in Ends : WF_vars(Inbound(e))
    /\ \A e \in Ends, p \in Paths : WF_vars(Notice(e, p))

-----------------------------------------------------------------------------
(* Properties                                                              *)

\* The fields of a Link and the places of its goroutines.
TypeOK ==
    /\ mux \in [Ends -> {{}, {"relay"}, {"direct"}}]
    /\ up \subseteq Ends \X Paths
    /\ cut \subseteq Paths
    /\ closed \subseteq {e \in Ends : mux[e] # {}}
    /\ lost \subseteq {e \in Ends : inbound[e] = "over"}
    /\ inbound \in [Ends -> {"none", "begun", "over"} \cup Paths]
    /\ listener \in {"none", "on", "accepted", "ready", "promoted", "over"}
    /\ serving \in {"none", "on", "over"}
    /\ upgrade \in {"none", "ready", "bare", "begun", "asked", "offered", "dialed", "promoted", "over"}
    /\ note \in Notes
    /\ sockets \subseteq {"quic", "punch"}
    /\ loop \in {"dial", "wait", "direct", "close", "over"}
    /\ ctx \in BOOLEAN
    /\ call \in [Calls -> [by : Ends \cup {None},
                        at : {"idle", "answered", "failed"} \cup Paths]]

\* The host's accept loop on the relay is the one that serves the relay.  Its
\* goroutine asks for the active session only when it runs, and an upgrade in
\* between would leave the relay unserved and the direct session served twice;
\* but no joiner gets that far before the loop has answered it.
HostServesRelay == inbound["host"] # "direct"

\* An upgrade is completed by both ends or undone at both: a joiner that has
\* given up its relay ends with a host that serves the direct session, or with
\* no session (so that its next probe connects again).
UpgradeSettles ==
    "direct" \in mux["joiner"] ~>
        \/ Accepts("host", "direct") \/ serving = "over"
        \/ <<"joiner", "direct">> \notin up

\* A closed Link has no session in the end, whatever a listener or an upgrade
\* that was under way sets in its fields after Close (link.go:604); unless it is a
\* joiner's whose punch socket is never closed.
ClosedLinkEnds ==
    \A e \in Ends, p \in Paths :
        e \in closed /\ <<e, p>> \in up ~>
            \/ <<e, p>> \notin up
            \/ e = "joiner" /\ []("punch" \in sockets)

\* What link.go:48 says ("prefers direct QUIC over relay when upgraded"): the
\* loop does not give up a Link whose joiner has completed the upgrade.
UpgradeIsKept ==
    loop = "close" /\ ctx /\ "host" \notin closed =>
        ~ (upgrade = "over" /\ "direct" \in mux["joiner"] /\ "direct" \notin cut)

=============================================================================
