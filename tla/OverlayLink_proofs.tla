------------------------- MODULE OverlayLink_proofs -------------------------
(* Theorems about OverlayLink, for any requests that the two ends make of  *)
(* each other.                                                             *)
EXTENDS OverlayLink, TLAPS

\* A Link is dialed before anything of it runs.
Dialed ==
    /\ loop = "dial" <=> mux["host"] = {}
    /\ loop = "dial" => inbound["host"] = "none"
    /\ \A e \in Ends : inbound[e] # "none" => mux[e] # {}

\* The goroutine of the host's startRelayInbound has asked for its session.
Served == inbound["host"] \notin {"none", "begun"}

\* No upgrade has passed the offer before the host's accept loop was there to
\* answer it: no direct session, nothing accepted by the listener, nothing promoted.
OfferedWhenServed ==
    \/ Served
    \/ /\ upgrade \notin {"offered", "dialed", "promoted"}
       /\ <<"joiner", "direct">> \notin up
       /\ listener \notin {"accepted", "ready", "promoted"}
       /\ "direct" \notin mux["host"]

LinkInv == TypeOK /\ Dialed /\ OfferedWhenServed /\ HostServesRelay

\* Mode is a path once the Link was dialed, and the direct one only after a promotion.
LEMMA ModePath ==
    ASSUME LinkInv, NEW e \in Ends, mux[e] # {}
    PROVE  Mode(e) \in Paths /\ (Mode(e) = "direct" => "direct" \in mux[e])
BY DEF LinkInv, TypeOK, Mode, Paths

\* A step that promotes nothing and starts no goroutine keeps it, if it keeps the types.
LEMMA NothingNew ==
    ASSUME LinkInv, TypeOK', UNCHANGED <<mux, inbound, upgrade, listener>>, up' \subseteq up,
           loop' = "dial" <=> loop = "dial"
    PROVE  LinkInv'
<1>1. Dialed'  BY DEF LinkInv, Dialed
<1>2. OfferedWhenServed'  BY DEF LinkInv, OfferedWhenServed, Served
<1>3. HostServesRelay'  BY DEF LinkInv, HostServesRelay
<1> QED BY <1>1, <1>2, <1>3 DEF LinkInv

\* Close of a Link that was dialed keeps the invariant.
LEMMA CloseKeeps ==
    ASSUME LinkInv, NEW e \in Ends, mux[e] # {}, Close(e),
           UNCHANGED <<listener, serving, ctx, lost, inbound, upgrade, note, call>>,
           loop' = loop \/ (loop = "close" /\ loop' = "over")
    PROVE  LinkInv'
<1>1. /\ UNCHANGED mux /\ up' \subseteq up
      /\ cut' \subseteq Paths /\ sockets' \subseteq sockets
      /\ closed' \subseteq closed \cup {e}
  <2>1. mux[e] \subseteq Paths  BY DEF LinkInv, TypeOK, Paths
  <2>2. CASE e \in closed
        BY <2>2 DEF Close, endVars, LinkInv, TypeOK
  <2>3. CASE e \notin closed
    <3> DEFINE broken == {p \in mux[e] : <<e, p>> \in up}
                         \cup (IF e = "host" /\ "quic" \in sockets THEN {"direct"} ELSE {})
    <3>1. broken \subseteq Paths  BY <2>1 DEF Paths
    <3>2. /\ closed' = closed \cup {e} /\ up' = up \ ({e} \X mux[e])
          /\ cut' = cut \cup broken /\ UNCHANGED mux
          /\ sockets' = IF e = "host" THEN sockets \ {"quic"} ELSE sockets
          BY <2>3 DEF Close
    <3> QED BY <3>1, <3>2 DEF LinkInv, TypeOK
  <2> QED BY <2>2, <2>3
<1>2. TypeOK'
      BY <1>1 DEF LinkInv, TypeOK
<1>3. loop' = "dial" <=> loop = "dial"  OBVIOUS
<1> QED BY <1>1, <1>2, <1>3, NothingNew

\* Dialing and the two accept loops of the relay keep the invariant.
LEMMA DialKeeps ==
    ASSUME LinkInv,
           \/ ServeHost \/ ConnectJoiner \/ StartJoinerRelay
           \/ \E e \in Ends : Inbound(e)
    PROVE  LinkInv'
<1> USE DEF LinkInv, endVars, hostVars
<1>1. CASE ServeHost
      BY <1>1 DEF ServeHost, TypeOK, Ends, Paths, Dialed, OfferedWhenServed, Served,
                  HostServesRelay
<1>2. CASE ConnectJoiner
  <2>1. /\ mux["joiner"] = {} /\ mux' = [mux EXCEPT !["joiner"] = {"relay"}]
        /\ up' = up \cup {<<"joiner", "relay">>}
        /\ sockets' \in {sockets, sockets \cup {"punch"}} /\ upgrade' \in {"ready", "bare"}
        /\ UNCHANGED <<cut, closed, listener, serving, loop, ctx, lost, inbound, note, call>>
        BY <1>2 DEF ConnectJoiner
  <2>2. TypeOK'  BY <2>1 DEF TypeOK, Ends, Paths
  <2> QED BY <2>1, <2>2 DEF TypeOK, Ends, Dialed, OfferedWhenServed, Served, HostServesRelay
<1>3. CASE StartJoinerRelay
      BY <1>3 DEF StartJoinerRelay, TypeOK, Ends, Paths, Dialed, OfferedWhenServed, Served,
                  HostServesRelay
<1>4. ASSUME NEW e \in Ends, ServeRelayInbound(e)  PROVE LinkInv'
  <2>1. Mode(e) \in Paths /\ (Mode(e) = "direct" => "direct" \in mux[e])
        BY <1>4, ModePath DEF ServeRelayInbound, Dialed
  <2>2. inbound' \in [Ends -> {"none", "begun", "over"} \cup Paths]
        BY <1>4, <2>1 DEF ServeRelayInbound, TypeOK
  <2>3. TypeOK'
        BY <1>4, <2>2 DEF ServeRelayInbound, TypeOK
  <2>4. inbound'["host"] # "direct"
        BY <1>4, <2>1 DEF ServeRelayInbound, TypeOK, Ends, OfferedWhenServed, Served,
                          HostServesRelay
  <2> QED BY <1>4, <2>1, <2>3, <2>4
          DEF ServeRelayInbound, TypeOK, Ends, Paths, Dialed, OfferedWhenServed, Served, HostServesRelay
<1>5. ASSUME NEW e \in Ends, InboundEnds(e)  PROVE LinkInv'
      BY <1>5 DEF InboundEnds, TypeOK, Ends, Paths, Dialed, OfferedWhenServed, Served,
                  HostServesRelay
<1> QED BY <1>1, <1>2, <1>3, <1>4, <1>5 DEF Inbound

\* The upgrade keeps it, at the joiner: an offer comes from a loop that serves.
LEMMA UpgradeKeeps ==
    ASSUME LinkInv, StartUpgrade \/ Joiner \/ HostOffers
    PROVE  LinkInv'
<1> USE DEF LinkInv, TypeOK, endVars, hostVars, Dialed, OfferedWhenServed, Served,
            HostServesRelay
<1>1. CASE StartUpgrade
      BY <1>1 DEF StartUpgrade, Notes
<1>2. CASE AskUpgrade
  <2>1. /\ upgrade' = "asked" \/ upgrade' = "over"
        /\ note' = note \/ note' = "negotiate_failed"
        /\ UNCHANGED <<mux, up, cut, closed, listener, serving, loop, ctx, lost, inbound,
                       sockets, call>>
        BY <1>2 DEF AskUpgrade, UpgradeFails
  <2>2. note' \in Notes  BY <2>1 DEF Notes
  <2> QED BY <2>1, <2>2
<1>3. CASE HostOffers
      BY <1>3 DEF HostOffers, Accepts
<1>4. CASE OfferLost
      BY <1>4 DEF OfferLost, UpgradeFails, Notes
<1>5. CASE DialQUIC
      BY <1>5 DEF DialQUIC, Ends, Paths
<1>6. CASE DialFails
      BY <1>6 DEF DialFails, UpgradeFails, Notes
<1>7. CASE PromoteJoiner
      BY <1>7 DEF PromoteJoiner, Notes, Ends
<1>8. CASE JoinerClosesRelay
      BY <1>8 DEF JoinerClosesRelay, CloseSessions, Paths
<1> QED BY <1>1, <1>2, <1>3, <1>4, <1>5, <1>6, <1>7, <1>8 DEF Joiner

\* The host's listener keeps it: it accepts and promotes only what was offered.
LEMMA ListenerKeeps ==
    ASSUME LinkInv, Listener \/ ServingEnds
    PROVE  LinkInv'
<1> USE DEF LinkInv, TypeOK, endVars, hostVars, Dialed, OfferedWhenServed, Served,
            HostServesRelay
<1>1. CASE AcceptQUIC
      BY <1>1 DEF AcceptQUIC
<1>2. CASE AcceptStream
      BY <1>2 DEF AcceptStream, Ends, Paths
<1>3. CASE AcceptFails
      BY <1>3 DEF AcceptFails, Paths
<1>4. CASE PromoteHost
      BY <1>4 DEF PromoteHost, Ends
<1>5. CASE HostClosesRelay
      BY <1>5 DEF HostClosesRelay, CloseSessions, Paths
<1>6. CASE ServingEnds
      BY <1>6 DEF ServingEnds
<1> QED BY <1>1, <1>2, <1>3, <1>4, <1>5, <1>6 DEF Listener

\* Close and the loop keep it.
LEMMA EndKeeps ==
    ASSUME LinkInv, CloseJoiner \/ ClosePunch \/ Cancel \/ StopCloses \/ Loop
    PROVE  LinkInv'
<1> USE DEF endVars, hostVars
<1>0. TypeOK /\ Dialed /\ "host" \in Ends /\ "joiner" \in Ends  BY DEF LinkInv, Ends
<1>1. CASE CloseJoiner
      BY <1>0, <1>1, CloseKeeps DEF CloseJoiner
<1>2. CASE ClosePunch
  <2>1. /\ sockets' \subseteq sockets /\ cut' = cut \cup {"direct"}
        /\ UNCHANGED <<mux, up, closed, listener, serving, loop, ctx, lost, inbound, upgrade,
                       note, call>>
        BY <1>2 DEF ClosePunch
  <2>2. TypeOK'  BY <1>0, <2>1 DEF TypeOK, Paths
  <2> QED BY <2>1, <2>2, NothingNew
<1>3. CASE Cancel
  <2>1. ctx' = FALSE /\ UNCHANGED <<mux, up, cut, closed, listener, serving, loop, lost, inbound,
                                   upgrade, note, sockets, call>>
        BY <1>3 DEF Cancel
  <2>2. TypeOK'  BY <1>0, <2>1 DEF TypeOK
  <2> QED BY <2>1, <2>2, NothingNew
<1>4. CASE StopCloses
      BY <1>0, <1>4, CloseKeeps DEF StopCloses
<1>5. CASE RelayDown \/ DirectEnds
  <2>1. /\ loop \in {"wait", "direct"} /\ loop' \in {"direct", "close"}
        /\ UNCHANGED <<mux, up, cut, closed, listener, serving, ctx, lost, inbound, upgrade,
                       note, sockets, call>>
        BY <1>5 DEF RelayDown, DirectEnds
  <2>2. TypeOK'  BY <1>0, <2>1 DEF TypeOK
  <2> QED BY <2>1, <2>2, NothingNew
<1>6. CASE LoopCloses
  <2>1. mux["host"] # {}  BY <1>0, <1>6 DEF LoopCloses, Dialed
  <2> QED BY <1>0, <1>6, <2>1, CloseKeeps DEF LoopCloses
<1> QED BY <1>1, <1>2, <1>3, <1>4, <1>5, <1>6 DEF Loop

\* Requests and the network keep it.
LEMMA TrafficKeeps ==
    ASSUME LinkInv,
           \/ \E c \in Calls, e \in Ends : OpenCall(c, e)
           \/ \E c \in Calls, p \in Paths : Serve(c, p) \/ CallFails(c, p) \/ OpenTimeout(c, p)
           \/ \E e \in Ends, p \in Paths : Notice(e, p)
           \/ \E p \in Paths : Lose(p)
    PROVE  LinkInv'
<1> DEFINE CallType == [by : Ends \cup {None}, at : {"idle", "answered", "failed"} \cup Paths]
<1>0. TypeOK /\ call \in [Calls -> CallType]  BY DEF LinkInv, TypeOK
\* A call that changes changes nothing else.
<1>1. ASSUME call' \in [Calls -> CallType],
             UNCHANGED <<endVars, hostVars, lost, inbound, upgrade, note, sockets>>
      PROVE  LinkInv'
  <2>1. TypeOK'  BY <1>0, <1>1 DEF TypeOK, endVars, hostVars
  <2> QED BY <1>1, <2>1, NothingNew DEF endVars, hostVars
\* Nor does the end of a session.
<1>2. ASSUME up' \subseteq up, cut' \subseteq Paths,
             UNCHANGED <<mux, closed, hostVars, lost, inbound, upgrade, note, sockets, call>>
      PROVE  LinkInv'
  <2>1. TypeOK'  BY <1>0, <1>2 DEF TypeOK, hostVars
  <2> QED BY <1>2, <2>1, NothingNew DEF hostVars
<1>3. ASSUME NEW c \in Calls, NEW e \in Ends, OpenCall(c, e)  PROVE LinkInv'
  <2>1. mux[e] # {}  BY <1>3 DEF OpenCall, Mode
  <2>2. Mode(e) \in Paths  BY <2>1, ModePath
  <2>3. call' \in [Calls -> CallType]  BY <1>0, <1>3, <2>2 DEF OpenCall
  <2> QED BY <1>1, <1>3, <2>3 DEF OpenCall
<1>4. ASSUME NEW c \in Calls, NEW p \in Paths, Serve(c, p) \/ CallFails(c, p)
      PROVE  LinkInv'
  <2>1. \E a \in {"answered", "failed"} : call' = [call EXCEPT ![c].at = a]
        BY <1>4 DEF Serve, CallFails
  <2>2. call' \in [Calls -> CallType]  BY <1>0, <2>1
  <2>3. UNCHANGED <<endVars, hostVars, lost, inbound, upgrade, note, sockets>>
        BY <1>4 DEF Serve, CallFails
  <2> QED BY <1>1, <2>2, <2>3
<1>5. ASSUME NEW c \in Calls, NEW p \in Paths, OpenTimeout(c, p)  PROVE LinkInv'
  <2>1. up' \subseteq up /\ cut' \subseteq Paths
        BY <1>0, <1>5 DEF OpenTimeout, CloseSessions, TypeOK
  <2> QED BY <1>2, <1>5, <2>1 DEF OpenTimeout
<1>6. ASSUME NEW e \in Ends, NEW p \in Paths, Notice(e, p)  PROVE LinkInv'
  <2>1. up' \subseteq up /\ cut' \subseteq Paths  BY <1>0, <1>6 DEF Notice, TypeOK
  <2> QED BY <1>2, <1>6, <2>1 DEF Notice
<1>7. ASSUME NEW p \in Paths, Lose(p)  PROVE LinkInv'
  <2>1. up' \subseteq up /\ cut' \subseteq Paths  BY <1>0, <1>7 DEF Lose, TypeOK
  <2> QED BY <1>2, <1>7, <2>1 DEF Lose
<1> QED BY <1>3, <1>4, <1>5, <1>6, <1>7

\* Every step keeps the invariant.
LEMMA NextKeeps == LinkInv /\ [Next]_vars => LinkInv'
<1> SUFFICES ASSUME LinkInv, [Next]_vars PROVE LinkInv'  OBVIOUS
<1>1. CASE UNCHANGED vars
      BY <1>1 DEF vars, endVars, hostVars, LinkInv, TypeOK, Dialed, OfferedWhenServed,
                  Served, HostServesRelay
<1> QED BY <1>1, DialKeeps, UpgradeKeeps, ListenerKeeps, EndKeeps, TrafficKeeps DEF Next

\* The invariant holds always.
LEMMA LinkInvAlways == Spec => []LinkInv
<1>1. Init => LinkInv
  <2>1. Init => TypeOK
    <3> SUFFICES ASSUME Init PROVE TypeOK  OBVIOUS
    <3>1. mux \in [Ends -> {{}, {"relay"}, {"direct"}}]  BY DEF Init
    <3> QED BY <3>1 DEF Init, TypeOK, Ends, Paths, Notes
  <2> QED BY <2>1 DEF Init, LinkInv, Dialed, OfferedWhenServed, Served, HostServesRelay, Ends
<1> QED BY <1>1, NextKeeps, PTL DEF Spec

\* The fields of a Link and the places of its goroutines are typed; a Link is closed
\* only after it was dialed, and relayLost only after its accept loop ended.
THEOREM OverlayTypeCorrect == Spec => []TypeOK
<1>1. LinkInv => TypeOK  BY DEF LinkInv
<1> QED BY <1>1, LinkInvAlways, PTL

\* The goroutine of startRelayInbound, which asks for the active session only when it
\* runs, serves the relay at the host, however late it runs and whatever else goes on:
\* an upgrade that could make the direct session the active one needs an offer, and
\* only that goroutine can make it.
THEOREM OverlayHostServesRelay == Spec => []HostServesRelay
<1>1. LinkInv => HostServesRelay  BY DEF LinkInv
<1> QED BY <1>1, LinkInvAlways, PTL
=============================================================================
