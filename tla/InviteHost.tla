----------------------------- MODULE InviteHost -----------------------------
(***************************************************************************)
(* The host of an internet invite: GenerateInvite, its expiry timer, the    *)
(* rendezvous poll that pairs the joiner, the relay loop that keeps a link   *)
(* up, and stopInviteHost, all of core/engine.go, with the idle reaper of    *)
(* core/pairing/registry.go.                                                *)
(*                                                                          *)
(* The engine has one set of invite fields under inviteHostMu, and every    *)
(* invite has goroutines of its own.  stopInviteHost takes the fields under *)
(* the lock and acts on what it took after unlocking, so stops, a new       *)
(* invite and the goroutines of an old one interleave.                      *)
(*                                                                          *)
(* Time is abstract: a timer may fire, and an idle deadline may have passed,*)
(* at any moment.  The rendezvous server and the network are external.      *)
(***************************************************************************)
EXTENDS Naturals, FiniteSets

CONSTANTS
    Invites,     \* the invites generated, each once
    Peers,       \* the devices that may join
    Guests,      \* <<i, p>>: the invite i is handed to the peer p
    Links,       \* the relay links the host may dial (the bound on reconnects)
    None         \* Go's nil, ""

ASSUME InviteConstants == /\ Guests \subseteq Invites \X Peers
                          /\ None \notin Invites \cup Peers \cup Links

VARIABLES
    gen,         \* the invite GenerateInvite is making
    current,     \* the invite that inviteHostCancel and its fellows belong to
    joiner,      \* inviteJoinerID
    overlay,     \* inviteOverlay
    ctx,         \* ctx[i]: hostCtx of the invite
    timer,       \* timer[i]: inviteHostWaitExpire
    poll,        \* poll[i]: the poll of rendezvousHostLoop, and whom it pairs
    host,        \* host[i]: runInviteHostOverlayLoop, and the link it serves
    link,        \* link[l]: what became of the relay's connection
    closed,      \* the links whose Close was called
    paired,      \* the peers in the registry
    expired,     \* those reapIdle took out and has not yet reported
    left,        \* history: those that said goodbye and have not joined again
    stop,        \* stop[a]: a call of stopInviteHost, and what it took
    closing      \* Engine.shutdown has begun

fieldVars  == <<current, joiner, overlay>>
loopVars   == <<timer, poll, host>>
linkVars   == <<link, closed>>
peerVars   == <<paired, expired, left>>
vars == <<gen, fieldVars, ctx, loopVars, linkVars, peerVars, stop, closing>>

\* The callers of stopInviteHost: GenerateInvite, shutdown, the reaper's
\* onPairedPeerIdle, and the expiry timer of each invite.
Timer(i) == <<"timer", i>>
Maker    == <<"maker", None>>
Quitter  == <<"quitter", None>>
Reaper   == <<"reaper", None>>
Stoppers == {Maker, Quitter, Reaper} \cup {Timer(i) : i \in Invites}

NotStopping == [at |-> "no", of |-> None, link |-> None]

Init ==
    /\ gen = None /\ current = None /\ joiner = None /\ overlay = None
    /\ ctx = [i \in Invites |-> "none"]
    /\ timer = [i \in Invites |-> "off"]
    /\ poll = [i \in Invites |-> [at |-> "off", peer |-> None]]
    /\ host = [i \in Invites |-> [at |-> "off", link |-> None]]
    /\ link = [l \in Links |-> "undialed"]
    /\ closed = {} /\ paired = {} /\ expired = {} /\ left = {}
    /\ stop = [a \in Stoppers |-> NotStopping]
    /\ closing = FALSE

-----------------------------------------------------------------------------
(* stopInviteHost                                                          *)

BeginStop(a) == stop' = [stop EXCEPT ![a].at = "called"]

\* The locked part: every invite field is taken and cleared at once.
StopSwap(a) ==
    /\ stop[a].at = "called"
    /\ stop' = [stop EXCEPT ![a] = [at |-> "took", of |-> current, link |-> overlay]]
    /\ current' = None /\ joiner' = None /\ overlay' = None
    /\ UNCHANGED <<gen, ctx, loopVars, linkVars, peerVars, closing>>

\* Mutant of StopRelease: closes the link without asking whether there is one.
CloseNil(a) ==
    /\ stop[a].at = "took"
    /\ ctx' = [i \in Invites |-> IF i = stop[a].of THEN "canceled" ELSE ctx[i]]
    /\ closed' = closed \cup {stop[a].link}
    /\ stop' = [stop EXCEPT ![a] = NotStopping]
    /\ UNCHANGED <<gen, fieldVars, loopVars, link, peerVars, closing>>

\* Mutant of StopRelease: closes the link and leaves the loop to itself.
CloseOnly(a) ==
    /\ stop[a].at = "took"
    /\ closed' = closed \cup ({stop[a].link} \ {None})
    /\ stop' = [stop EXCEPT ![a] = NotStopping]
    /\ UNCHANGED <<gen, fieldVars, ctx, loopVars, link, peerVars, closing>>

\* cancel() and the link's Close, where there were any.  The QUIC port's mapping
\* is released first, so the network may take its time before.  The two are one
\* step: a loop that sees the cancel closes the same link itself.
StopRelease(a) ==
    /\ stop[a].at = "took"
    /\ ctx' = [i \in Invites |-> IF i = stop[a].of THEN "canceled" ELSE ctx[i]]
    /\ closed' = closed \cup ({stop[a].link} \ {None})
    /\ stop' = [stop EXCEPT ![a] = NotStopping]
    /\ UNCHANGED <<gen, fieldVars, loopVars, link, peerVars, closing>>

Stop(a) == StopSwap(a) \/ StopRelease(a)

-----------------------------------------------------------------------------
(* GenerateInvite: stop the host of the last invite, map the ports and sign *)
(* the blob, set the fields, start the goroutines.                         *)

\* Mutant of Generate: the last invite's host is not stopped first.
GenerateOnly(i) ==
    /\ ~closing /\ gen = None /\ ctx[i] = "none"
    /\ gen' = i
    /\ UNCHANGED <<fieldVars, ctx, loopVars, linkVars, peerVars, stop, closing>>

\* Bound: one call at a time.  (Two that overlap both stop the old host first and
\* then set the fields, and the first one's cancel function is lost.)
Generate(i) ==
    /\ ~closing /\ gen = None /\ ctx[i] = "none"
    /\ gen' = i
    /\ BeginStop(Maker)
    /\ UNCHANGED <<fieldVars, ctx, loopVars, linkVars, peerVars, closing>>

\* A port or the signature could not be had.
GenerateFails ==
    /\ gen # None /\ stop[Maker].at = "no"
    /\ gen' = None
    /\ UNCHANGED <<fieldVars, ctx, loopVars, linkVars, peerVars, stop, closing>>

\* The fields are set; inviteJoinerID and inviteOverlay are not among them.
Install ==
    /\ gen # None /\ stop[Maker].at = "no"
    /\ current' = gen /\ gen' = None
    /\ ctx' = [ctx EXCEPT ![gen] = "live"]
    /\ timer' = [timer EXCEPT ![gen] = "armed"]
    /\ poll' = [poll EXCEPT ![gen].at = "register"]
    /\ UNCHANGED <<joiner, overlay, host, linkVars, peerVars, stop, closing>>

-----------------------------------------------------------------------------
(* inviteHostWaitExpire: nothing cancels the timer, and the joiner is read  *)
(* under the lock but acted on after it.                                   *)

Expire(i) ==
    /\ timer[i] = "armed"
    /\ timer' = [timer EXCEPT ![i] = "fired"]
    /\ IF joiner # None THEN UNCHANGED stop ELSE BeginStop(Timer(i))
    /\ UNCHANGED <<gen, fieldVars, ctx, poll, host, linkVars, peerVars, closing>>

-----------------------------------------------------------------------------
(* rendezvousHostLoop: register, start the relay loop, poll for a joiner.   *)

\* RegisterHost answered, or failed: then the invite has no host loop.
Registers(i) ==
    /\ poll[i].at = "register"
    /\ \/ /\ ctx[i] = "live"
          /\ poll' = [poll EXCEPT ![i].at = "poll"]
          /\ host' = [host EXCEPT ![i].at = "loop"]
       \/ poll' = [poll EXCEPT ![i].at = "off"] /\ UNCHANGED host
    /\ UNCHANGED <<gen, fieldVars, ctx, timer, linkVars, peerVars, stop, closing>>

\* PollJoiner names a peer, and pairRendezvousJoiner does not know it yet.  (For
\* a peer it knows, it returns at once: no state changes.)  The server hands a
\* joiner out once; the bound here is one joiner for each invite.
PollJoiner(i, p) ==
    /\ <<i, p>> \in Guests
    /\ poll[i].at = "poll" /\ poll[i].peer = None
    /\ ctx[i] = "live" /\ p \notin paired
    /\ poll' = [poll EXCEPT ![i] = [at |-> "pairing", peer |-> p]]
    /\ UNCHANGED <<gen, fieldVars, ctx, timer, host, linkVars, peerVars, stop, closing>>

\* inviteJoinerID is set under the lock, whichever invite is current by now.
SetJoiner(i) ==
    /\ poll[i].at = "pairing"
    /\ joiner' = poll[i].peer
    /\ poll' = [poll EXCEPT ![i].at = "adding"]
    /\ UNCHANGED <<gen, current, overlay, ctx, timer, host, linkVars, peerVars, stop,
                   closing>>

\* paired.Add, and back to the ticker.
AddPaired(i) ==
    /\ poll[i].at = "adding"
    /\ paired' = paired \cup {poll[i].peer} /\ left' = left \ {poll[i].peer}
    /\ poll' = [poll EXCEPT ![i].at = "poll"]
    /\ UNCHANGED <<gen, fieldVars, ctx, timer, host, linkVars, expired, stop, closing>>

Poll(i) == Registers(i) \/ SetJoiner(i) \/ AddPaired(i)

-----------------------------------------------------------------------------
(* runInviteHostOverlayLoop                                                *)

HostAt(i, pc) == host[i].at = pc
HostTo(i, pc) == host' = [host EXCEPT ![i].at = pc]
LetGo(i)      == host' = [host EXCEPT ![i] = [at |-> "loop", link |-> None]]

Unlocked == UNCHANGED <<gen, current, joiner, ctx, timer, poll, peerVars, stop, closing>>

\* The loop's condition holds, and ServeHost dialed the relay.  A dial that fails
\* is tried again.  With its context canceled, a loop at this point has ended.
ServeHost(i, l) ==
    /\ HostAt(i, "loop") /\ ctx[i] = "live" /\ link[l] = "undialed"
    /\ link' = [link EXCEPT ![l] = "relay"]
    /\ host' = [host EXCEPT ![i] = [at |-> "dialed", link |-> l]]
    /\ Unlocked /\ UNCHANGED <<overlay, closed>>

\* The link is published under the lock, and the one it replaces is closed.
\* Nothing asks whether the invite was stopped meanwhile.
PublishLink(i) ==
    /\ HostAt(i, "dialed")
    /\ overlay' = host[i].link
    /\ closed' = closed \cup ({overlay} \ {None})
    /\ HostTo(i, "up")
    /\ Unlocked /\ UNCHANGED link

\* Link.Close closes the relay's session too, so it counts as lost.
Lost(l) == link[l] \in {"lost", "direct"} \/ l \in closed

\* WaitRelayDown returned: the link went direct, and the loop waits for the end,
RelayReplaced(i) ==
    /\ HostAt(i, "up") /\ Lost(host[i].link)
    /\ ctx[i] = "live" /\ link[host[i].link] = "direct"
    /\ HostTo(i, "direct")
    /\ Unlocked /\ UNCHANGED <<overlay, linkVars>>

\* or the relay is lost, or the invite stopped: the link is closed
RelayDown(i) ==
    /\ HostAt(i, "up")
    /\ \/ ctx[i] = "canceled"
       \/ Lost(host[i].link) /\ link[host[i].link] # "direct"
    /\ closed' = closed \cup {host[i].link}
    /\ HostTo(i, "down")
    /\ Unlocked /\ UNCHANGED <<overlay, link>>

\* and withdrawn, unless another link has taken its place.
WithdrawLink(i) ==
    /\ HostAt(i, "down")
    /\ overlay' = IF overlay = host[i].link THEN None ELSE overlay
    /\ LetGo(i)
    /\ Unlocked /\ UNCHANGED linkVars

\* Mutant of DirectEnds: returns without closing the link.
DirectLeaves(i) ==
    /\ HostAt(i, "direct") /\ ctx[i] = "canceled"
    /\ LetGo(i)
    /\ Unlocked /\ UNCHANGED <<overlay, linkVars>>

\* The invite of a direct link is stopped.
DirectEnds(i) ==
    /\ HostAt(i, "direct") /\ ctx[i] = "canceled"
    /\ closed' = closed \cup {host[i].link}
    /\ LetGo(i)
    /\ Unlocked /\ UNCHANGED <<overlay, link>>

HostLoop(i) == \/ PublishLink(i) \/ RelayReplaced(i)
               \/ RelayDown(i) \/ WithdrawLink(i) \/ DirectEnds(i)

-----------------------------------------------------------------------------
(* The network, the registry and the engine's end.                         *)

\* The relay connection breaks.
LoseRelay(l) ==
    /\ link[l] = "relay" /\ l \notin closed
    /\ link' = [link EXCEPT ![l] = "lost"]
    /\ Unlocked /\ UNCHANGED <<overlay, host, closed>>

\* runQUICListener accepted the joiner: promoteDirect closes the relay.  The
\* listener does not stop when the relay is lost.
PromoteDirect(l) ==
    /\ link[l] \in {"relay", "lost"} /\ l \notin closed
    /\ link' = [link EXCEPT ![l] = "direct"]
    /\ Unlocked /\ UNCHANGED <<overlay, host, closed>>

\* A peer that shuts down says goodbye: dropPairedPeer, which leaves
\* inviteJoinerID alone.
Goodbye(p) ==
    /\ p \in paired
    /\ paired' = paired \ {p} /\ left' = left \cup {p}
    /\ UNCHANGED <<gen, fieldVars, ctx, loopVars, linkVars, expired, stop, closing>>

\* reapIdle, once it is done with the last lot: the peers that are not busy and
\* whose deadline passed leave the registry.
ReapIdle(S) ==
    /\ expired = {} /\ stop[Reaper].at = "no"
    /\ S # {} /\ S \subseteq paired
    /\ paired' = paired \ S /\ expired' = S
    /\ UNCHANGED <<gen, fieldVars, ctx, loopVars, linkVars, left, stop, closing>>

\* Mutant of PeerIdle: forgets the joiner and leaves the host running.
PeerIdleForgets(p) ==
    /\ p \in expired /\ stop[Reaper].at = "no"
    /\ expired' = expired \ {p}
    /\ joiner' = IF joiner = p THEN None ELSE joiner
    /\ UNCHANGED <<gen, current, overlay, ctx, loopVars, linkVars, paired, left, stop,
                   closing>>

\* onPairedPeerIdle, for one of them after the other.
PeerIdle(p) ==
    /\ p \in expired /\ stop[Reaper].at = "no"
    /\ expired' = expired \ {p}
    /\ IF joiner = p
       THEN joiner' = None /\ BeginStop(Reaper)
       ELSE UNCHANGED <<joiner, stop>>
    /\ UNCHANGED <<gen, current, overlay, ctx, loopVars, linkVars, paired, left, closing>>

Shutdown ==
    /\ ~closing /\ closing' = TRUE
    /\ BeginStop(Quitter)
    /\ UNCHANGED <<gen, fieldVars, ctx, loopVars, linkVars, peerVars>>

-----------------------------------------------------------------------------
Next ==
    \/ \E a \in Stoppers : Stop(a)
    \/ \E i \in Invites : \/ Generate(i) \/ Expire(i) \/ Poll(i) \/ HostLoop(i)
                          \/ \E p \in Peers : PollJoiner(i, p)
                          \/ \E l \in Links : ServeHost(i, l)
    \/ GenerateFails \/ Install \/ Shutdown
    \/ \E l \in Links : LoseRelay(l) \/ PromoteDirect(l)
    \/ \E p \in Peers : Goodbye(p) \/ PeerIdle(p)
    \/ \E S \in SUBSET Peers : ReapIdle(S)

Spec == Init /\ [][Next]_vars

\* Goroutines run on and the relay loop notices a canceled context; a timer is
\* not made to fire, nor a peer to join or to fall idle.
Fairness == /\ \A a \in Stoppers : WF_vars(Stop(a))
            /\ \A i \in Invites : WF_vars(HostLoop(i))
FairSpec == Spec /\ Fairness

-----------------------------------------------------------------------------
(* Properties                                                              *)

PollStates == {"off", "register", "poll", "pairing", "adding"}
HostStates == {"off", "loop", "dialed", "up", "direct", "down"}

PollTypes ==
    /\ poll \in [Invites -> [at : PollStates, peer : Peers \cup {None}]]
    /\ \A i \in Invites : poll[i].at \in {"pairing", "adding"} => poll[i].peer \in Peers

\* A relay loop does not go on with a nil link.
HostTypes ==
    /\ host \in [Invites -> [at : HostStates, link : Links \cup {None}]]
    /\ \A i \in Invites : host[i].at \notin {"off", "loop"} => host[i].link \in Links

StopTypes ==
    stop \in [Stoppers -> [at : {"no", "called", "took"},
                          of : Invites \cup {None}, link : Links \cup {None}]]

\* The type invariant.
TypeOK ==
    /\ gen \in Invites \cup {None} /\ current \in Invites \cup {None}
    /\ joiner \in Peers \cup {None} /\ overlay \in Links \cup {None}
    /\ ctx \in [Invites -> {"none", "live", "canceled"}]
    /\ timer \in [Invites -> {"off", "armed", "fired"}]
    /\ PollTypes /\ HostTypes /\ StopTypes
    /\ link \in [Links -> {"undialed", "relay", "lost", "direct"}]
    /\ closed \subseteq Links
    /\ paired \subseteq Peers /\ expired \subseteq Peers /\ left \subseteq Peers
    /\ closing \in BOOLEAN

\* However stops, new invites and timers interleave, an invite that is still
\* served can be stopped: the engine, or one stop that is under way, holds its
\* cancel function.  Its sockets and port mappings go with it.
ServedIsHeld ==
    \A i \in Invites : ctx[i] = "live" =>
        \/ current = i
        \/ \E a \in Stoppers : stop[a].at = "took" /\ stop[a].of = i

\* The peer's idleness will be noticed: it is in the registry, or was just taken
\* out of it as idle, or pairRendezvousJoiner is about to add it.
Watched(p) ==
    \/ p \in paired \cup expired
    \/ \E i \in Invites : poll[i].at = "adding" /\ poll[i].peer = p

\* The timer of the invite that is served is still to fire, or a stop was called.
EndIsNear == \/ timer[current] = "armed"
             \/ \E a \in Stoppers : stop[a].at = "called"

\* "stops an unpaired invite host when the invite blob expires.  Once a joiner
\* pairs, idle policy owns session lifetime" (engine.go:1281): an invite whose
\* timer has fired is served for a joiner that the idle policy knows.
IdlePolicyOwns == current # None => EndIsNear \/ (joiner # None /\ Watched(joiner))

\* Nothing but a goodbye (dropPairedPeer) breaks that.  While the joiner has not said one,
\* no order of expiry, pairing, idleness, stops and new invites leaves an invite served
\* that neither its timer nor the idle policy would end.
WillBeStopped == IdlePolicyOwns \/ joiner \in left

\* Every link that was dialed is closed or in the hands of a host loop that will
\* close it, though it may no longer, or not yet, be the published one.
LinkIsHeld ==
    \A l \in Links : link[l] # "undialed" /\ l \notin closed =>
        \E i \in Invites : host[i].link = l /\ host[i].at \in {"dialed", "up", "direct"}

\* A stop that finds an invite served ends its host loop, whatever link the loop
\* holds, dials or publishes meanwhile.
StopEndsHost ==
    \A i \in Invites :
        (current = i /\ \E a \in Stoppers : stop[a].at = "called")
            ~> (ctx[i] = "canceled" /\ host[i].at \in {"off", "loop"})

\* "inviteHostWaitExpire stops an unpaired invite host when the invite blob
\* expires" (engine.go:1281): the timer of an invite does not set out to stop the
\* host of another one, whose blob is still valid.
OwnExpiry ==
    [][\A i, j \in Invites :
          current = i /\ stop[Timer(j)].at = "no" /\ stop'[Timer(j)].at = "called"
              => i = j]_vars
=============================================================================
