------------------------- MODULE PairedPeers_proofs -------------------------
(* Theorems about PairedPeers, for any peers, probes, goodbyes, Links and  *)
(* sockets.                                                                *)
EXTENDS PairedPeers, FiniteSetTheorems, TLAPS

Records == [at : Places, peer : Peers \cup {None},
            link : Links \cup {None}, sock : Sockets \cup {None},
            then : {"idle", "farewell", "take", "redial", "look", "relook"}]

\* A goroutine at work is at work for a peer.
Working == \A g \in Threads : At(g, "idle") \/ At(g, "farewell") \/ Peer(g) \in Peers

TypeInv == TypeOK /\ Working

\* What a goroutine becomes, and that the others stay as they are.
LEMMA BecomeAt ==
    ASSUME TypeOK, NEW g \in Threads, NEW r, Become(g, r)
    PROVE  /\ thread'[g] = r
           /\ \A h \in Threads : h # g => thread'[h] = thread[h]
           /\ r \in Records => thread' \in [Threads -> Records]
BY DEF TypeOK, Become, Records

\* A goroutine that becomes a typed record keeps the types of the goroutines.
LEMMA BecomeWorks ==
    ASSUME TypeInv, NEW g \in Threads, NEW r \in Records, Become(g, r),
           r.at \in {"idle", "farewell"} \/ r.peer \in Peers
    PROVE  thread' \in [Threads -> Records] /\ Working'
<1>1. TypeOK  BY DEF TypeInv
<1>2. Working'  BY <1>1, BecomeAt DEF TypeInv, Working, At, Peer
<1> QED BY <1>1, <1>2, BecomeAt

\* The registry keeps the types.
LEMMA RegistryTypes ==
    ASSUME TypeInv,
           \/ \E p \in Peers : Pair(p) \/ Touch(p) \/ IdlePasses(p)
           \/ ProbeAll
    PROVE  TypeInv'
BY DEF TypeInv, TypeOK, Working, At, Peer, Pair, Touch, TouchActivity, IdlePasses,
       ProbeAll, mapVars, netVars

\* The reaper and the goodbyes keep the types.
LEMMA FarewellTypes ==
    ASSUME TypeInv,
           \/ ReapIdle
           \/ \E p \in Peers : PeerIdle(p) \/ \E g \in Goodbyes : Goodbye(g, p)
    PROVE  TypeInv'
<1> USE DEF TypeInv, TypeOK, registryVars, mapVars, netVars
<1>0. Loop \in Threads /\ Goodbyes \subseteq Threads  BY DEF Threads
<1>1. CASE ReapIdle
  <2>1. PICK gone \in SUBSET (known \ active) :
           /\ known' = known \ gone /\ expired' = gone
           /\ GoTo(Loop, "farewell")
           /\ UNCHANGED <<active, due, overlays, punch, linked, open>>
        BY <1>1 DEF ReapIdle
  <2>2. thread' \in [Threads -> Records] /\ Working'
        BY <1>0, <2>1, BecomeWorks DEF GoTo, Records, Places
  <2> QED BY <2>1, <2>2 DEF Records
<1>2. ASSUME NEW p \in Peers, PeerIdle(p)  PROVE TypeInv'
  <2>1. thread' \in [Threads -> Records] /\ Working'
        BY <1>0, <1>2, BecomeWorks DEF PeerIdle, Resting, Records, Places
  <2> QED BY <1>2, <2>1 DEF PeerIdle, Records
<1>3. ASSUME NEW p \in Peers, NEW g \in Goodbyes, Goodbye(g, p)  PROVE TypeInv'
  <2>1. thread' \in [Threads -> Records] /\ Working'
        BY <1>0, <1>3, BecomeWorks DEF Goodbye, Resting, Records, Places
  <2> QED BY <1>3, <2>1 DEF Goodbye, Records
<1> QED BY <1>1, <1>2, <1>3

\* removeOverlay and setOverlay keep the types.
LEMMA OverlayTypes ==
    ASSUME TypeInv, NEW g \in Threads, Overlay(g)
    PROVE  TypeInv'
<1> USE DEF TypeInv, TypeOK, registryVars, mapVars, netVars
<1>1. ~At(g, "idle") /\ ~At(g, "farewell")
      BY DEF Overlay, TakeOverlay, CloseOverlay, SetOverlay, SetPunch, At
<1>2. Peer(g) \in Peers /\ thread[g] \in Records
      BY <1>1 DEF Working, Records
<1>3. CASE TakeOverlay(g)
  <2>1. thread' \in [Threads -> Records] /\ Working'
        BY <1>2, <1>3, BecomeWorks DEF TakeOverlay, Records, Places, Peer
  <2> QED BY <1>2, <1>3, <2>1 DEF TakeOverlay, Records
<1>4. CASE CloseOverlay(g)
  <2>1. thread' \in [Threads -> Records] /\ Working'
        BY <1>2, <1>4, BecomeWorks DEF CloseOverlay, Resting, Records, Places, Peer
  <2> QED BY <1>2, <1>4, <2>1 DEF CloseOverlay, Records
<1>5. CASE SetOverlay(g)
  <2>1. thread' \in [Threads -> Records] /\ Working'
        BY <1>2, <1>5, BecomeWorks DEF SetOverlay, Records, Places, Peer
  <2> QED BY <1>2, <1>5, <2>1 DEF SetOverlay, Records
<1>6. CASE SetPunch(g)
  <2>1. thread' \in [Threads -> Records] /\ Working'
        BY <1>2, <1>6, BecomeWorks DEF SetPunch, Records, Places, Peer
  <2>2. punch' \in [Peers -> Sockets \cup {None}] /\ open' \subseteq Sockets
        BY <1>2, <1>6 DEF SetPunch, Records
  <2> QED BY <1>6, <2>1, <2>2 DEF SetPunch, Records
<1> QED BY <1>3, <1>4, <1>5, <1>6 DEF Overlay

\* A probe keeps the types.
LEMMA ProbeTypes ==
    ASSUME TypeInv, NEW q \in Probes,
           Probe(q) \/ \E p \in Peers : BeginProbe(q, p)
    PROVE  TypeInv'
<1> USE DEF TypeInv, TypeOK, registryVars, mapVars, netVars
<1>0. q \in Threads  BY DEF Threads
<1>1. thread[q] \in Records /\ Resting \in Records
      BY <1>0 DEF Records, Resting, Places
<1>2. ASSUME NEW p \in Peers, BeginProbe(q, p)  PROVE TypeInv'
  <2>1. thread' \in [Threads -> Records] /\ Working'
        BY <1>0, <1>2, BecomeWorks DEF BeginProbe, Resting, Records, Places
  <2> QED BY <1>2, <2>1 DEF BeginProbe, Records
<1>3. CASE Probe(q)
  <2>1. ~At(q, "idle") /\ ~At(q, "farewell")
        BY <1>3 DEF Probe, RendezvousJoin, Connect, ConnectFails, AskOverlay, AskTCP,
                    Reconnect, AskAgain, At
  <2>2. Peer(q) \in Peers /\ thread[q].peer \in Peers
        BY <1>0, <2>1 DEF Working, Peer
  <2>3. ASSUME NEW r \in Records, Become(q, r), r.at = "idle" \/ r.peer \in Peers
        PROVE  thread' \in [Threads -> Records] /\ Working'
        BY <1>0, <2>3, BecomeWorks
  <2>4. CASE RendezvousJoin(q)
    <3>1. PICK s \in Sockets \cup {None} :
             /\ open' = open \cup ({s} \ {None})
             /\ \/ Become(q, [thread[q] EXCEPT !.at = "dial", !.sock = s])
                \/ Become(q, [thread[q] EXCEPT !.at = "dial"])
             /\ UNCHANGED <<registryVars, mapVars, linked>>
          BY <2>4, PairedConstants DEF RendezvousJoin, GoTo
    <3>2. thread' \in [Threads -> Records] /\ Working'
          BY <1>1, <2>2, <2>3, <3>1 DEF Records, Places
    <3> QED BY <3>1, <3>2 DEF Records
  <2>5. CASE Connect(q)
    <3>1. PICK l \in Links :
             /\ linked' = linked \cup {l}
             /\ Become(q, [thread[q] EXCEPT !.at = "set", !.then = "look", !.link = l])
             /\ UNCHANGED <<registryVars, mapVars, open>>
          BY <2>5 DEF Connect
    <3>2. thread' \in [Threads -> Records] /\ Working'
          BY <1>1, <2>2, <2>3, <3>1 DEF Records, Places
    <3> QED BY <3>1, <3>2 DEF Records
  <2>6. CASE ConnectFails(q)
    <3>1. thread' \in [Threads -> Records] /\ Working'
          BY <1>1, <2>3, <2>6 DEF ConnectFails, Resting
    <3> QED BY <2>6, <3>1 DEF ConnectFails, Records
  <2>7. CASE Reconnect(q)
    <3>1. PICK l \in Links \cup {None} :
             /\ linked' = linked \cup ({l} \ {None})
             /\ \/ Become(q, [thread[q] EXCEPT !.at = "set", !.then = "relook",
                                   !.link = l, !.sock = punch[Peer(q)]])
                \/ Become(q, [thread[q] EXCEPT !.at = "relook"])
             /\ UNCHANGED <<registryVars, mapVars, open>>
          BY <2>7, PairedConstants DEF Reconnect, GoTo
    <3>2. punch[Peer(q)] \in Sockets \cup {None}  BY <2>2
    <3>3. thread' \in [Threads -> Records] /\ Working'
          BY <1>1, <2>2, <2>3, <3>1, <3>2 DEF Records, Places
    <3> QED BY <3>1, <3>3 DEF Records
  <2>8. CASE ProbeOK(q) \/ ProbeFails(q)
    <3>1. Become(q, Resting)  BY <2>8 DEF ProbeOK, ProbeFails
    <3>2. thread' \in [Threads -> Records] /\ Working'
          BY <1>1, <2>3, <3>1 DEF Resting
    <3> QED BY <2>8, <3>2 DEF ProbeOK, ProbeFails, TouchActivity, Records
  <2>9. CASE AskOverlay(q) /\ ~ProbeOK(q)
    <3>1. thread' \in [Threads -> Records] /\ Working'
          BY <1>1, <2>2, <2>3, <2>9 DEF AskOverlay, Records, Places
    <3> QED BY <2>9, <3>1 DEF AskOverlay, Records
  <2> QED BY <1>3, <2>4, <2>5, <2>6, <2>7, <2>8, <2>9 DEF Probe, AskOverlay, AskTCP, AskAgain
<1> QED BY <1>2, <1>3

\* The types are kept by every step.
LEMMA NextTypes == TypeInv /\ [Next]_vars => TypeInv'
<1> SUFFICES ASSUME TypeInv, [Next]_vars PROVE TypeInv'  OBVIOUS
<1>1. CASE UNCHANGED vars
      BY <1>1 DEF vars, registryVars, mapVars, netVars, TypeInv, TypeOK, Working, At, Peer
<1> QED BY <1>1, RegistryTypes, FarewellTypes, OverlayTypes, ProbeTypes DEF Next

\* For any peers, probes, goodbyes, Links and sockets the registry, the maps and the
\* goroutines are typed, and only a peer that is in the registry has a deadline:
\* TouchActivity, which a probe calls long after it looked, brings nobody back.
THEOREM PairedTypeCorrect == Spec => []TypeOK
<1>1. Init => TypeInv
      BY DEF Init, TypeInv, TypeOK, Working, At, Peer, Resting, Places
<1>2. TypeInv => TypeOK  BY DEF TypeInv
<1> QED BY <1>1, <1>2, NextTypes, PTL DEF Spec

-----------------------------------------------------------------------------
(* Links and sockets                                                       *)

\* A Link that is in the map or held by a goroutine was not closed, and no two of
\* them have the same; one that was not closed is in the map or held.  A goroutine
\* holds one only from the dial to setOverlay, or from removeOverlay to its close.
LinkHeld ==
    /\ \A p \in Peers : overlays[p] \in linked \cup {None}
    /\ \A g \in Threads : thread[g].link \in linked \cup {None}
    /\ \A p, q \in Peers : overlays[p] = overlays[q] => p = q \/ overlays[p] = None
    /\ \A g, h \in Threads :
          thread[g].link = thread[h].link => g = h \/ thread[g].link = None
    /\ \A p \in Peers, g \in Threads : overlays[p] = thread[g].link => overlays[p] = None
    /\ \A l \in linked : \/ \E p \in Peers : overlays[p] = l
                         \/ \E g \in Threads : thread[g].link = l
    /\ \A g \in Threads : thread[g].link = None \/ thread[g].at \in {"set", "close"}

\* SocketIsKept, and that a goroutine that forgets its socket has put it in the map
\* or closed it.
SocketHeld ==
    /\ SocketIsKept
    /\ \A g \in Threads : thread[g].sock = None \/ thread[g].at \in {"dial", "set", "punch"}

KeptInv == TypeInv /\ LinkHeld /\ SocketHeld

\* A goroutine whose record has no Link before and after leaves the Links alone.
LEMMA LinklessStep ==
    ASSUME KeptInv, NEW g \in Threads, NEW r, Become(g, r),
           thread[g].link = None, r.link = None, UNCHANGED <<overlays, linked>>
    PROVE  LinkHeld'
<1>1. /\ thread'[g] = r
      /\ \A h \in Threads : h # g => thread'[h] = thread[h]
      BY BecomeAt DEF KeptInv, TypeInv
<1>2. \A h \in Threads : thread'[h].link = thread[h].link  BY <1>1
<1>3. None \notin linked  BY PairedConstants DEF KeptInv, TypeInv, TypeOK
<1> QED BY <1>1, <1>2, <1>3 DEF KeptInv, LinkHeld

\* A goroutine that keeps its socket, at a place where it may have one, leaves
\* the sockets alone.
LEMMA SocketStep ==
    ASSUME KeptInv, NEW g \in Threads, NEW r, Become(g, r),
           r.sock = thread[g].sock, UNCHANGED <<punch, open>>,
           r.sock = None \/ r.at \in {"dial", "set", "punch"}
    PROVE  SocketHeld'
<1>1. /\ thread'[g] = r
      /\ \A h \in Threads : h # g => thread'[h] = thread[h]
      BY BecomeAt DEF KeptInv, TypeInv
<1>2. \A h \in Threads : thread'[h].sock = thread[h].sock  BY <1>1
<1> QED BY <1>1, <1>2 DEF KeptInv, SocketHeld, SocketIsKept

\* The registry, the reaper and the goodbyes touch no Link and no socket.
LEMMA RegistryKeeps ==
    ASSUME KeptInv,
           \/ \E p \in Peers : Pair(p) \/ Touch(p) \/ IdlePasses(p) \/ PeerIdle(p)
           \/ ProbeAll \/ ReapIdle
           \/ \E g \in Goodbyes, p \in Peers : Goodbye(g, p)
    PROVE  LinkHeld' /\ SocketHeld'
<1>1. CASE (\E p \in Peers : Pair(p) \/ Touch(p) \/ IdlePasses(p)) \/ ProbeAll
      BY <1>1 DEF KeptInv, LinkHeld, SocketHeld, SocketIsKept, Pair, Touch, IdlePasses,
                  ProbeAll, mapVars, netVars
<1>2. CASE \/ ReapIdle
           \/ \E p \in Peers : PeerIdle(p) \/ \E g \in Goodbyes : Goodbye(g, p)
  <2> DEFINE EmptyHanded(g, r) ==
               /\ Become(g, r) /\ r.link = None /\ r.sock = None
               /\ At(g, "idle") \/ At(g, "farewell")
               /\ UNCHANGED <<overlays, punch, linked, open>>
  <2>1. PICK g \in Threads : \E r : EmptyHanded(g, r)
    <3>1. Loop \in Threads /\ Goodbyes \subseteq Threads  BY DEF Threads
    <3>2. CASE ReapIdle
      <4>1. /\ Become(Loop, [thread[Loop] EXCEPT !.at = "farewell"]) /\ At(Loop, "idle")
            /\ UNCHANGED <<overlays, punch, linked, open>>
            BY <3>2 DEF ReapIdle, GoTo, mapVars, netVars
      <4>2. thread[Loop].link = None /\ thread[Loop].sock = None
            BY <3>1, <4>1 DEF KeptInv, LinkHeld, SocketHeld, At
      <4>3. thread[Loop] \in Records
            BY <3>1 DEF KeptInv, TypeInv, TypeOK, Records
      <4> DEFINE r == [thread[Loop] EXCEPT !.at = "farewell"]
      <4>4. r.link = None /\ r.sock = None  BY <4>2, <4>3 DEF Records
      <4> QED BY <3>1, <4>1, <4>4
    <3>3. ASSUME NEW p \in Peers, PeerIdle(p)  PROVE \E r : EmptyHanded(Loop, r)
          BY <3>1, <3>3 DEF PeerIdle, Resting, mapVars, netVars
    <3>4. ASSUME NEW p \in Peers, NEW g \in Goodbyes, Goodbye(g, p)  PROVE \E r : EmptyHanded(g, r)
          BY <3>1, <3>4 DEF Goodbye, Resting, mapVars, netVars
    <3> QED BY <1>2, <3>1, <3>2, <3>3, <3>4
  <2>2. PICK r : EmptyHanded(g, r)  BY <2>1
  <2>3. thread[g].link = None /\ thread[g].sock = None
        BY <2>2 DEF KeptInv, LinkHeld, SocketHeld, At
  <2> QED BY <2>2, <2>3, LinklessStep, SocketStep
<1> QED BY <1>1, <1>2

\* removeOverlay and setOverlay hand a Link from the map to the goroutine that will
\* close it, or from the one that dialed it to the map, and close what they replace.
LEMMA OverlayKeeps ==
    ASSUME KeptInv, NEW g \in Threads, Overlay(g)
    PROVE  LinkHeld' /\ SocketHeld'
<1> DEFINE p == thread[g].peer
<1> USE DEF registryVars, mapVars, netVars
<1>1. p \in Peers /\ thread[g] \in Records
      BY DEF KeptInv, TypeInv, TypeOK, Working, Records, At, Peer, Overlay, TakeOverlay,
             CloseOverlay, SetOverlay, SetPunch
<1>2. ASSUME NEW r, Become(g, r)
      PROVE  /\ thread'[g] = r
             /\ \A h \in Threads : h # g => thread'[h] = thread[h]
      BY <1>2, BecomeAt DEF KeptInv, TypeInv
<1>3. /\ overlays \in [Peers -> Links \cup {None}] /\ punch \in [Peers -> Sockets \cup {None}]
      /\ None \notin linked /\ None \notin open
      BY PairedConstants DEF KeptInv, TypeInv, TypeOK
<1>4. CASE TakeOverlay(g)
  <2> DEFINE r == [thread[g] EXCEPT !.at = "close", !.link = overlays[p]]
  <2>1. /\ Become(g, r) /\ overlays' = [overlays EXCEPT ![p] = None]
        /\ UNCHANGED <<punch, linked, open>>
        BY <1>4 DEF TakeOverlay, Peer
  <2>2. r.link = overlays[p] /\ r.sock = thread[g].sock /\ r.at = "close"
        BY <1>1 DEF Records
  <2>3. thread[g].link = None /\ thread[g].sock = None
        BY <1>4 DEF TakeOverlay, At, KeptInv, LinkHeld, SocketHeld
  <2>4. SocketHeld'  BY <2>1, <2>2, <2>3, SocketStep
  <2>5. /\ thread'[g].link = overlays[p] /\ thread'[g].at = "close"
        /\ \A h \in Threads : h # g => thread'[h] = thread[h]
        /\ overlays'[p] = None /\ \A q \in Peers : q # p => overlays'[q] = overlays[q]
        BY <1>1, <1>2, <1>3, <2>1, <2>2
  <2>6. LinkHeld'
        BY <1>1, <1>3, <2>1, <2>3, <2>5 DEF KeptInv, LinkHeld
  <2> QED BY <2>4, <2>6
<1>5. CASE CloseOverlay(g)
  <2> DEFINE n == thread[g].then
             r == IF n = "idle" THEN Resting
                  ELSE [Resting EXCEPT !.at = n, !.peer = IF n = "farewell" THEN None ELSE p]
  <2>1. Become(g, r) /\ r.link = None /\ r.sock = None
        BY <1>5 DEF CloseOverlay, Resting, Peer
  <2>2. /\ linked' = linked \ {thread[g].link} /\ open' = open \ {punch[p]}
        /\ punch' = [punch EXCEPT ![p] = None] /\ UNCHANGED overlays
        /\ thread[g].at = "close"
        BY <1>5 DEF CloseOverlay, Peer, At
  <2>3. /\ thread'[g] = r /\ \A h \in Threads : h # g => thread'[h] = thread[h]
        /\ \A q \in Peers : q # p => punch'[q] = punch[q]
        BY <1>1, <1>2, <1>3, <2>1, <2>2
  <2> HIDE DEF r
  <2>4. LinkHeld'
        BY <1>1, <1>3, <2>1, <2>2, <2>3 DEF KeptInv, LinkHeld
  <2>5. thread[g].sock = None  BY <2>2 DEF KeptInv, SocketHeld
  <2>6. SocketHeld'
        BY <1>1, <1>3, <2>1, <2>2, <2>3, <2>5 DEF KeptInv, SocketHeld, SocketIsKept
  <2> QED BY <2>4, <2>6
<1>6. CASE SetOverlay(g)
  <2> DEFINE r == [thread[g] EXCEPT !.at = "punch", !.link = None]
  <2>1. /\ Become(g, r) /\ linked' = linked \ {overlays[p]}
        /\ overlays' = [overlays EXCEPT ![p] = thread[g].link]
        /\ UNCHANGED <<punch, open>>
        BY <1>6 DEF SetOverlay, Peer
  <2>2. r.link = None /\ r.sock = thread[g].sock /\ r.at = "punch"
        BY <1>1 DEF Records
  <2>3. SocketHeld'  BY <2>1, <2>2, SocketStep
  <2>4. /\ thread'[g].link = None
        /\ \A h \in Threads : h # g => thread'[h] = thread[h]
        /\ overlays'[p] = thread[g].link
        /\ \A q \in Peers : q # p => overlays'[q] = overlays[q]
        BY <1>1, <1>2, <1>3, <2>1, <2>2
  <2>5. LinkHeld'
        BY <1>1, <1>3, <2>1, <2>4 DEF KeptInv, LinkHeld
  <2> QED BY <2>3, <2>5
<1>7. CASE SetPunch(g)
  <2> DEFINE s == thread[g].sock
             r == [thread[g] EXCEPT !.at = thread[g].then, !.sock = None]
  <2>1. Become(g, r) /\ thread[g].at = "punch" /\ UNCHANGED <<overlays, linked>>
        BY <1>7 DEF SetPunch, At
  <2>2. r.link = thread[g].link /\ r.sock = None  BY <1>1 DEF Records
  <2>3. thread[g].link = None  BY <2>1 DEF KeptInv, LinkHeld
  <2>4. LinkHeld'  BY <2>1, <2>2, <2>3, LinklessStep
  <2>5. /\ thread'[g].sock = None
        /\ \A h \in Threads : h # g => thread'[h] = thread[h]
        BY <1>2, <2>1, <2>2
  <2>6. CASE s = None
        BY <1>3, <1>7, <2>4, <2>5, <2>6 DEF SetPunch, KeptInv, SocketHeld, SocketIsKept
  <2>7. CASE s # None
    <3>1. /\ open' = IF punch[p] = s THEN open ELSE open \ {punch[p]}
          /\ punch' = [punch EXCEPT ![p] = s]
          BY <1>7, <2>7 DEF SetPunch, Peer
    <3>2. punch'[p] = s /\ \A q \in Peers : q # p => punch'[q] = punch[q]
          BY <1>1, <1>3, <3>1
    <3> QED BY <1>1, <2>4, <2>5, <3>1, <3>2 DEF KeptInv, SocketHeld, SocketIsKept
  <2> QED BY <2>6, <2>7
<1> QED BY <1>4, <1>5, <1>6, <1>7 DEF Overlay

\* A probe that has a new Link or socket is the only one that has it, and it drops
\* neither before it put it in the map or closed it.
LEMMA ProbeKeeps ==
    ASSUME KeptInv, NEW q \in Probes,
           Probe(q) \/ \E p \in Peers : BeginProbe(q, p)
    PROVE  LinkHeld' /\ SocketHeld'
<1> USE DEF registryVars, mapVars, netVars
<1>1. q \in Threads /\ thread[q] \in Records
      BY DEF Threads, KeptInv, TypeInv, TypeOK, Records
<1>2. ASSUME NEW r, Become(q, r)
      PROVE  /\ thread'[q] = r
             /\ \A h \in Threads : h # q => thread'[h] = thread[h]
      BY <1>1, <1>2, BecomeAt DEF KeptInv, TypeInv
<1>3. None \notin linked /\ None \notin open
      BY PairedConstants DEF KeptInv, TypeInv, TypeOK
\* It holds nothing before and after.
<1>4. ASSUME NEW r, Become(q, r), r.link = None, r.sock = None,
             thread[q].at \notin {"dial", "set", "punch", "close"},
             UNCHANGED <<overlays, punch, linked, open>>
      PROVE  LinkHeld' /\ SocketHeld'
  <2>1. thread[q].link = None /\ thread[q].sock = None
        BY <1>1, <1>4 DEF KeptInv, LinkHeld, SocketHeld
  <2> QED BY <1>1, <1>4, <2>1, LinklessStep, SocketStep
\* It dials.
<1>5. ASSUME NEW l \in Links, NewLink(l), NEW r, Become(q, r), thread[q].link = None,
             r.link = l, r.at = "set", linked' = linked \cup {l}, UNCHANGED overlays
      PROVE  LinkHeld'
  <2>1. l \notin linked /\ (\A p \in Peers : overlays[p] # l)
        /\ \A g \in Threads : thread[g].link # l
        BY <1>5 DEF NewLink
  <2>2. thread'[q] = r /\ \A h \in Threads : h # q => thread'[h] = thread[h]
        BY <1>2, <1>5
  <2> QED BY <1>1, <1>3, <1>5, <2>1, <2>2 DEF KeptInv, LinkHeld
<1>6. ASSUME NEW p \in Peers, BeginProbe(q, p)  PROVE LinkHeld' /\ SocketHeld'
      BY <1>4, <1>6 DEF BeginProbe, At, Resting
<1>7. CASE RendezvousJoin(q)
  <2>1. /\ thread[q].at = "join" /\ UNCHANGED <<overlays, punch, linked>>
        /\ thread[q].link = None /\ thread[q].sock = None
        BY <1>1, <1>7 DEF RendezvousJoin, At, KeptInv, LinkHeld, SocketHeld
  <2>2. ASSUME NEW s \in Sockets, open' = open \cup {s},
               Become(q, [thread[q] EXCEPT !.at = "dial", !.sock = s])
        PROVE  LinkHeld' /\ SocketHeld'
    <3> DEFINE r == [thread[q] EXCEPT !.at = "dial", !.sock = s]
    <3>1. r.link = None /\ r.sock = s /\ r.at = "dial"  BY <1>1, <2>1 DEF Records
    <3>2. LinkHeld'  BY <1>1, <2>1, <2>2, <3>1, LinklessStep
    <3>3. /\ thread'[q].sock = s /\ thread'[q].at = "dial"
          /\ \A h \in Threads : h # q => thread'[h] = thread[h]
          BY <1>2, <2>2, <3>1
    <3>4. SocketIsKept'
          BY <1>1, <2>1, <2>2, <3>3, PairedConstants DEF KeptInv, TypeInv, TypeOK, SocketHeld, SocketIsKept
    <3> QED BY <3>2, <3>3, <3>4 DEF KeptInv, SocketHeld
  <2>3. CASE GoTo(q, "dial") /\ UNCHANGED open
    <3> DEFINE r == [thread[q] EXCEPT !.at = "dial"]
    <3>1. r.link = None /\ r.sock = None /\ Become(q, r)
          BY <1>1, <2>1, <2>3 DEF Records, GoTo
    <3> QED BY <1>4, <2>1, <2>3, <3>1
  <2> QED BY <1>7, <2>2, <2>3 DEF RendezvousJoin
<1>8. CASE Connect(q)
  <2>1. PICK l \in Links :
           /\ NewLink(l) /\ linked' = linked \cup {l}
           /\ Become(q, [thread[q] EXCEPT !.at = "set", !.then = "look", !.link = l])
        BY <1>8 DEF Connect
  <2> DEFINE r == [thread[q] EXCEPT !.at = "set", !.then = "look", !.link = l]
  <2>2. r.link = l /\ r.at = "set" /\ r.sock = thread[q].sock  BY <1>1 DEF Records
  <2>3. UNCHANGED <<overlays, punch, open>> /\ thread[q].link = None
        BY <1>1, <1>8 DEF Connect, At, KeptInv, LinkHeld
  <2>4. LinkHeld'  BY <1>5, <2>1, <2>2, <2>3
  <2>5. SocketHeld'  BY <1>1, <2>1, <2>2, <2>3, SocketStep
  <2> QED BY <2>4, <2>5
<1>9. CASE ConnectFails(q)
  <2>1. /\ Become(q, Resting) /\ open' = open \ {thread[q].sock}
        /\ UNCHANGED <<overlays, punch, linked>> /\ thread[q].link = None
        BY <1>1, <1>9 DEF ConnectFails, At, KeptInv, LinkHeld
  <2>2. Resting.link = None /\ Resting.sock = None  BY DEF Resting
  <2>3. LinkHeld'  BY <1>1, <2>1, <2>2, LinklessStep
  <2>4. thread'[q] = Resting /\ \A h \in Threads : h # q => thread'[h] = thread[h]
        BY <1>2, <2>1
  <2> QED BY <1>1, <2>1, <2>2, <2>3, <2>4 DEF KeptInv, SocketHeld, SocketIsKept
<1>10. CASE Reconnect(q)
  <2>1. /\ thread[q].at = "redial" /\ UNCHANGED <<overlays, punch, open>>
        /\ thread[q].link = None /\ thread[q].sock = None
        BY <1>1, <1>10 DEF Reconnect, At, KeptInv, LinkHeld, SocketHeld
  <2>2. ASSUME NEW l \in Links, NewLink(l), linked' = linked \cup {l},
               Become(q, [thread[q] EXCEPT !.at = "set", !.then = "relook",
                                           !.link = l, !.sock = punch[Peer(q)]])
        PROVE  LinkHeld' /\ SocketHeld'
    <3> DEFINE r == [thread[q] EXCEPT !.at = "set", !.then = "relook",
                                      !.link = l, !.sock = punch[Peer(q)]]
    <3>1. r.link = l /\ r.at = "set"  BY <1>1 DEF Records
    <3>2. LinkHeld'  BY <1>5, <2>1, <2>2, <3>1
    <3>3. thread'[q].at = "set" /\ \A h \in Threads : h # q => thread'[h] = thread[h]
          BY <1>2, <2>2, <3>1
    <3> HIDE DEF r
    <3> QED BY <1>1, <1>3, <2>1, <3>2, <3>3 DEF KeptInv, SocketHeld, SocketIsKept
  <2>3. CASE GoTo(q, "relook") /\ UNCHANGED linked
    <3> DEFINE r == [thread[q] EXCEPT !.at = "relook"]
    <3>1. r.link = None /\ r.sock = None /\ Become(q, r)
          BY <1>1, <2>1, <2>3 DEF Records, GoTo
    <3> QED BY <1>4, <2>1, <2>3, <3>1
  <2> QED BY <1>10, <2>2, <2>3 DEF Reconnect
<1>11. CASE AskOverlay(q) \/ AskTCP(q) \/ AskAgain(q)
  <2>1. thread[q].at \in {"look", "relook"}
        BY <1>11 DEF AskOverlay, AskTCP, AskAgain, At
  <2>2. CASE ProbeOK(q) \/ ProbeFails(q)
        BY <1>4, <2>1, <2>2 DEF ProbeOK, ProbeFails, Resting
  <2>3. CASE ~ (ProbeOK(q) \/ ProbeFails(q))
    <3> DEFINE r == [thread[q] EXCEPT !.at = "take", !.then = "redial"]
    <3>1. Become(q, r) /\ UNCHANGED <<overlays, punch, linked, open>>
          BY <1>11, <2>3 DEF AskOverlay, AskTCP, AskAgain
    <3>2. thread[q].link = None /\ thread[q].sock = None
          BY <1>1, <2>1 DEF KeptInv, LinkHeld, SocketHeld
    <3>3. r.link = None /\ r.sock = None  BY <1>1, <3>2 DEF Records
    <3> QED BY <1>4, <2>1, <3>1, <3>3
  <2> QED BY <2>2, <2>3
<1> QED BY <1>6, <1>7, <1>8, <1>9, <1>10, <1>11 DEF Probe

\* Every step keeps the invariant.
LEMMA NextKeeps == KeptInv /\ [Next]_vars => KeptInv'
<1> SUFFICES ASSUME KeptInv, [Next]_vars PROVE KeptInv'  OBVIOUS
<1>1. TypeInv'  BY NextTypes DEF KeptInv
<1>2. CASE UNCHANGED vars
      BY <1>1, <1>2 DEF vars, registryVars, mapVars, netVars, KeptInv, LinkHeld,
                        SocketHeld, SocketIsKept
<1> QED BY <1>1, <1>2, RegistryKeeps, OverlayKeeps, ProbeKeeps DEF Next, KeptInv

\* A Link that is held by exactly one has one holder.
LEMMA KeptInvKeeps == KeptInv => NothingLeftBehind
<1> SUFFICES ASSUME KeptInv PROVE NothingLeftBehind  OBVIOUS
<1>1. ASSUME NEW l \in linked
      PROVE  Cardinality({p \in Peers : overlays[p] = l}
                         \cup {g \in Threads : thread[g].link = l}) = 1
  <2> DEFINE H == {p \in Peers : overlays[p] = l} \cup {g \in Threads : thread[g].link = l}
  <2>1. l # None  BY PairedConstants DEF KeptInv, TypeInv, TypeOK
  <2>2. \E x : H = {x}
    <3>1. CASE \E p \in Peers : overlays[p] = l
      <4>1. PICK p \in Peers : overlays[p] = l  BY <3>1
      <4>2. H = {p}  BY <2>1, <4>1 DEF KeptInv, LinkHeld
      <4> QED BY <4>2
    <3>2. CASE ~ \E p \in Peers : overlays[p] = l
      <4>1. PICK g \in Threads : thread[g].link = l  BY <3>2 DEF KeptInv, LinkHeld
      <4>2. H = {g}  BY <2>1, <3>2, <4>1 DEF KeptInv, LinkHeld
      <4> QED BY <4>2
    <3> QED BY <3>1, <3>2
  <2> QED BY <2>2, FS_Singleton
<1> QED BY <1>1 DEF NothingLeftBehind, LinkIsKept, KeptInv, LinkHeld, SocketHeld

\* For any number of peers, probes and goodbyes, Links and sockets: no tunnel and no
\* punch socket is left behind, and none that is in use is closed, however the probes,
\* the goodbyes and the reaper come between the two locks of setOverlay and of
\* removeOverlay.
THEOREM PairedLeavesNothingBehind == Spec => []NothingLeftBehind
<1>1. Init => KeptInv
  <2>1. Init => TypeInv
        BY DEF Init, TypeInv, TypeOK, Working, At, Peer, Resting, Places
  <2> QED BY <2>1 DEF Init, KeptInv, LinkHeld, SocketHeld, SocketIsKept, Resting
<1> QED BY <1>1, NextKeeps, KeptInvKeeps, PTL DEF Spec
=============================================================================
