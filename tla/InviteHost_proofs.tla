-------------------------- MODULE InviteHost_proofs --------------------------
(* Theorems about InviteHost, for any invites, peers and links.            *)
EXTENDS InviteHost, TLAPS

\* The callers of stopInviteHost are different ones.
LEMMA StoppersDiffer ==
    /\ Maker \in Stoppers /\ Quitter \in Stoppers /\ Reaper \in Stoppers
    /\ \A i \in Invites : Timer(i) \in Stoppers
    /\ Maker # Quitter /\ Maker # Reaper /\ Quitter # Reaper
    /\ \A i \in Invites : Timer(i) # Maker /\ Timer(i) # Quitter /\ Timer(i) # Reaper
    /\ \A i, j \in Invites : Timer(i) = Timer(j) => i = j
BY DEF Stoppers, Maker, Quitter, Reaper, Timer

-----------------------------------------------------------------------------
(* Types                                                                   *)

\* The states the code names.
LEMMA States ==
    /\ {"off", "register", "poll", "pairing", "adding"} \subseteq PollStates
    /\ {"off", "loop", "dialed", "up", "direct", "down"} \subseteq HostStates
BY DEF PollStates, HostStates

\* The initial state is typed.
LEMMA InitTypes == Init => TypeOK
<1> SUFFICES ASSUME Init PROVE TypeOK  OBVIOUS
<1>1. PollTypes  BY DEF Init, PollStates, PollTypes
<1>2. HostTypes  BY DEF Init, HostStates, HostTypes
<1>3. StopTypes  BY DEF Init, NotStopping, StopTypes
<1> QED BY <1>1, <1>2, <1>3 DEF Init, TypeOK

\* The poll moves between its states.
LEMMA PollMoves ==
    ASSUME PollTypes, NEW i \in Invites
    PROVE  /\ \A pc \in PollStates :
                 /\ poll' = [poll EXCEPT ![i].at = pc]
                 /\ pc \notin {"pairing", "adding"} \/ poll[i].peer \in Peers
                 => PollTypes'
           /\ \A pc \in PollStates, p \in Peers :
                 poll' = [poll EXCEPT ![i] = [at |-> pc, peer |-> p]] => PollTypes'
BY DEF PollTypes

\* The relay loop moves between its states.
LEMMA HostMoves ==
    ASSUME HostTypes, NEW i \in Invites
    PROVE  /\ \A pc \in HostStates :
                 /\ HostTo(i, pc)
                 /\ pc \in {"off", "loop"} \/ host[i].link \in Links
                 => HostTypes'
           /\ \A pc \in HostStates, l \in Links :
                 host' = [host EXCEPT ![i] = [at |-> pc, link |-> l]] => HostTypes'
           /\ LetGo(i) => HostTypes'
<1>1. \A pc \in HostStates :
         /\ HostTo(i, pc)
         /\ pc \in {"off", "loop"} \/ host[i].link \in Links
         => HostTypes'
      BY DEF HostTypes, HostTo
<1>2. \A pc \in HostStates, l \in Links :
         host' = [host EXCEPT ![i] = [at |-> pc, link |-> l]] => HostTypes'
      BY DEF HostTypes
<1>3. LetGo(i) => HostTypes'
      BY States DEF HostTypes, LetGo
<1> QED BY <1>1, <1>2, <1>3

\* A call of stopInviteHost that begins, or takes the fields.
LEMMA StopMoves ==
    ASSUME StopTypes, NEW a \in Stoppers
    PROVE  /\ BeginStop(a) => StopTypes'
           /\ stop' = [stop EXCEPT ![a] = NotStopping] => StopTypes'
           /\ \A i \in Invites \cup {None}, l \in Links \cup {None} :
                 stop' = [stop EXCEPT ![a] = [at |-> "took", of |-> i, link |-> l]]
                    => StopTypes'
<1>1. BeginStop(a) => StopTypes'  BY DEF StopTypes, BeginStop
<1>2. stop' = [stop EXCEPT ![a] = NotStopping] => StopTypes'
      BY DEF StopTypes, NotStopping
<1>3. \A i \in Invites \cup {None}, l \in Links \cup {None} :
         stop' = [stop EXCEPT ![a] = [at |-> "took", of |-> i, link |-> l]]
            => StopTypes'
      BY DEF StopTypes
<1> QED BY <1>1, <1>2, <1>3

\* What a step leaves alone stays typed.
LEMMA KeptTypes ==
    /\ PollTypes /\ UNCHANGED poll => PollTypes'
    /\ HostTypes /\ UNCHANGED host => HostTypes'
    /\ StopTypes /\ UNCHANGED stop => StopTypes'
BY DEF PollTypes, HostTypes, StopTypes

\* A stop keeps the types.
LEMMA StopStepTypes ==
    ASSUME TypeOK, NEW a \in Stoppers, Stop(a)
    PROVE  TypeOK'
<1> USE DEF fieldVars, loopVars, linkVars, peerVars
<1>1. CASE StopSwap(a)
  <2>1. StopTypes'  BY <1>1, StopMoves DEF StopSwap, TypeOK
  <2> QED BY <1>1, <2>1, KeptTypes DEF StopSwap, TypeOK
<1>2. CASE StopRelease(a)
  <2>1. StopTypes'  BY <1>2, StopMoves DEF StopRelease, TypeOK
  <2>2. stop[a].link \in Links \cup {None}  BY DEF TypeOK, StopTypes
  <2> QED BY <1>2, <2>1, <2>2, KeptTypes DEF StopRelease, TypeOK
<1> QED BY <1>1, <1>2 DEF Stop

\* GenerateInvite, its timer and its poll keep the types.
LEMMA InviteTypes ==
    ASSUME TypeOK, NEW i \in Invites,
           \/ Generate(i) \/ GenerateFails \/ Install \/ Expire(i) \/ Poll(i)
           \/ \E p \in Peers : PollJoiner(i, p)
    PROVE  TypeOK'
<1> USE KeptTypes, States DEF fieldVars, loopVars, linkVars, peerVars
<1>0. Maker \in Stoppers /\ Timer(i) \in Stoppers  BY StoppersDiffer
<1>1. CASE Generate(i)
  <2>1. StopTypes'  BY <1>0, <1>1, StopMoves DEF Generate, TypeOK
  <2> QED BY <1>1, <2>1 DEF Generate, TypeOK
<1>2. CASE GenerateFails  BY <1>2 DEF GenerateFails, TypeOK
<1>3. CASE Install
  <2>1. gen \in Invites /\ poll' = [poll EXCEPT ![gen].at = "register"]
        BY <1>3 DEF Install, TypeOK
  <2>2. PollTypes'  BY <2>1, PollMoves DEF TypeOK
  <2> QED BY <1>3, <2>1, <2>2 DEF Install, TypeOK
<1>4. CASE Expire(i)
  <2>1. StopTypes'  BY <1>0, <1>4, StopMoves DEF Expire, TypeOK
  <2> QED BY <1>4, <2>1 DEF Expire, TypeOK
<1>5. CASE Registers(i)
  <2>1. PollTypes'  BY <1>5, PollMoves DEF Registers, TypeOK
  <2>2. UNCHANGED host \/ HostTo(i, "loop")  BY <1>5 DEF Registers, HostTo
  <2>3. HostTypes'  BY <2>2, HostMoves DEF TypeOK
  <2> QED BY <1>5, <2>1, <2>3 DEF Registers, TypeOK
<1>6. CASE SetJoiner(i)
  <2>1. poll[i].peer \in Peers  BY <1>6 DEF SetJoiner, TypeOK, PollTypes
  <2>2. PollTypes'  BY <1>6, <2>1, PollMoves DEF SetJoiner, TypeOK
  <2> QED BY <1>6, <2>1, <2>2 DEF SetJoiner, TypeOK
<1>7. CASE AddPaired(i)
  <2>1. poll[i].peer \in Peers  BY <1>7 DEF AddPaired, TypeOK, PollTypes
  <2>2. PollTypes'  BY <1>7, PollMoves DEF AddPaired, TypeOK
  <2> QED BY <1>7, <2>1, <2>2 DEF AddPaired, TypeOK
<1>8. ASSUME NEW p \in Peers, PollJoiner(i, p)  PROVE TypeOK'
  <2>1. PollTypes'  BY <1>8, PollMoves DEF PollJoiner, TypeOK
  <2> QED BY <1>8, <2>1 DEF PollJoiner, TypeOK
<1> QED BY <1>1, <1>2, <1>3, <1>4, <1>5, <1>6, <1>7, <1>8 DEF Poll

\* The relay loop and the network keep the types.
LEMMA LinkTypes ==
    ASSUME TypeOK,
           \/ \E i \in Invites : HostLoop(i) \/ \E l \in Links : ServeHost(i, l)
           \/ \E l \in Links : LoseRelay(l) \/ PromoteDirect(l)
    PROVE  TypeOK'
<1> USE KeptTypes, States
<1>0. Unlocked
      BY DEF HostLoop, ServeHost, PublishLink, RelayReplaced, RelayDown, WithdrawLink,
             DirectEnds, LoseRelay, PromoteDirect
<1>1. ASSUME HostTypes', overlay' \in Links \cup {None}, closed' \subseteq Links,
             link' \in [Links -> {"undialed", "relay", "lost", "direct"}]
      PROVE  TypeOK'
      BY <1>0, <1>1 DEF TypeOK, Unlocked, peerVars
<1>2. ASSUME NEW i \in Invites, NEW l \in Links, ServeHost(i, l)  PROVE TypeOK'
  <2>1. HostTypes'  BY <1>2, HostMoves DEF ServeHost, TypeOK
  <2> QED BY <1>1, <1>2, <2>1 DEF ServeHost, TypeOK
<1>3. ASSUME NEW i \in Invites, HostLoop(i)  PROVE TypeOK'
  <2>1. host[i].link \in Links
        BY <1>3 DEF HostLoop, PublishLink, RelayReplaced, RelayDown, WithdrawLink,
                    DirectEnds, HostAt, TypeOK, HostTypes
  <2>2. (\E pc \in {"up", "direct", "down"} : HostTo(i, pc)) \/ LetGo(i)
        BY <1>3 DEF HostLoop, PublishLink, RelayReplaced, RelayDown, WithdrawLink,
                    DirectEnds
  <2>3. HostTypes'  BY <2>1, <2>2, HostMoves DEF TypeOK
  <2>4. /\ overlay' \in {overlay, host[i].link, None} /\ UNCHANGED link
        /\ closed' \subseteq closed \cup {host[i].link} \cup ({overlay} \ {None})
        BY <1>3 DEF HostLoop, PublishLink, RelayReplaced, RelayDown, WithdrawLink,
                    DirectEnds, linkVars
  <2> QED BY <1>1, <2>1, <2>3, <2>4 DEF TypeOK
<1>4. ASSUME NEW l \in Links, LoseRelay(l) \/ PromoteDirect(l)  PROVE TypeOK'
      BY <1>1, <1>4 DEF LoseRelay, PromoteDirect, TypeOK
<1> QED BY <1>2, <1>3, <1>4

\* The registry and the shutdown keep the types.
LEMMA PeerTypes ==
    ASSUME TypeOK,
           \/ \E p \in Peers : Goodbye(p) \/ PeerIdle(p)
           \/ \E S \in SUBSET Peers : ReapIdle(S)
           \/ Shutdown
    PROVE  TypeOK'
<1> USE KeptTypes DEF fieldVars, loopVars, linkVars, peerVars
<1>1. ASSUME NEW p \in Peers, Goodbye(p)  PROVE TypeOK'
      BY <1>1 DEF Goodbye, TypeOK
<1>2. ASSUME NEW p \in Peers, PeerIdle(p)  PROVE TypeOK'
  <2>1. StopTypes'  BY <1>2, StoppersDiffer, StopMoves DEF PeerIdle, TypeOK
  <2> QED BY <1>2, <2>1 DEF PeerIdle, TypeOK
<1>3. ASSUME NEW S \in SUBSET Peers, ReapIdle(S)  PROVE TypeOK'
      BY <1>3 DEF ReapIdle, TypeOK
<1>4. CASE Shutdown
  <2>1. StopTypes'  BY <1>4, StoppersDiffer, StopMoves DEF Shutdown, TypeOK
  <2> QED BY <1>4, <2>1 DEF Shutdown, TypeOK
<1> QED BY <1>1, <1>2, <1>3, <1>4

\* The type invariant is inductive.
LEMMA NextTypes == TypeOK /\ [Next]_vars => TypeOK'
<1> SUFFICES ASSUME TypeOK, [Next]_vars PROVE TypeOK'  OBVIOUS
<1>1. CASE UNCHANGED vars
      BY <1>1, KeptTypes DEF TypeOK, vars, fieldVars, loopVars, linkVars, peerVars
<1>2. CASE GenerateFails \/ Install
  <2>1. gen \in Invites
        BY <1>2 DEF TypeOK, GenerateFails, Install
  <2> QED BY <1>2, <2>1, InviteTypes
<1>3. CASE Next /\ ~GenerateFails /\ ~Install
      BY <1>3, StopStepTypes, InviteTypes, LinkTypes, PeerTypes DEF Next
<1> QED BY <1>1, <1>2, <1>3

\* The state of the host and of every stop under way is typed; in particular no
\* stop closes or cancels what it did not take.
THEOREM HostTypeCorrect == Spec => []TypeOK
<1>1. Init => TypeOK  BY InitTypes
<1>2. TypeOK /\ [Next]_vars => TypeOK'  BY NextTypes
<1> QED BY <1>1, <1>2, PTL DEF Spec

-----------------------------------------------------------------------------
(* An invite that is served can be stopped                                  *)

\* GenerateInvite sets the fields only after its own stop has cleared them, and
\* nobody else sets them meanwhile.
FieldsAreFree == gen # None /\ stop[Maker].at # "called" => current = None

\* Nobody begins a stop who is in the middle of one.
OneStopEach ==
    /\ stop[Maker].at # "no" => gen # None
    /\ stop[Quitter].at # "no" => closing
    /\ \A i \in Invites : stop[Timer(i)].at # "no" => timer[i] = "fired"

\* The timer of an invite starts with its context.
TimerIsNew ==
    /\ gen # None => timer[gen] = "off"
    /\ \A i \in Invites : ctx[i] = "none" => timer[i] = "off"

\* The inductive invariant.
HeldInv == TypeOK /\ ServedIsHeld /\ FieldsAreFree /\ OneStopEach /\ TimerIsNew

\* It holds initially.
LEMMA InitHeld == Init => HeldInv
<1> SUFFICES ASSUME Init PROVE HeldInv  OBVIOUS
<1>1. TypeOK  BY InitTypes
<1>2. ServedIsHeld  BY DEF Init, ServedIsHeld
<1>3. FieldsAreFree  BY DEF Init, FieldsAreFree
<1>4. OneStopEach  BY StoppersDiffer DEF Init, OneStopEach, NotStopping
<1>5. TimerIsNew  BY DEF Init, TimerIsNew
<1> QED BY <1>1, <1>2, <1>3, <1>4, <1>5 DEF HeldInv

\* A caller that is not in the middle of a stop may begin one.
LEMMA BeginKeepsHeld ==
    ASSUME TypeOK, ServedIsHeld, NEW a \in Stoppers, stop[a].at = "no",
           BeginStop(a), UNCHANGED <<current, ctx>>
    PROVE  /\ ServedIsHeld'
           /\ stop'[a].at = "called"
           /\ \A b \in Stoppers \ {a} : stop'[b] = stop[b]
<1>1. stop'[a].at = "called" /\ \A b \in Stoppers \ {a} : stop'[b] = stop[b]
      BY DEF TypeOK, StopTypes, BeginStop
<1>2. \A b \in Stoppers : stop[b].at = "took" => stop'[b] = stop[b]
      BY <1>1
<1> QED BY <1>1, <1>2 DEF ServedIsHeld

\* The locked part of stopInviteHost hands the invite over to the caller.
LEMMA SwapKeepsHeld ==
    ASSUME HeldInv, NEW a \in Stoppers, StopSwap(a)
    PROVE  ServedIsHeld' /\ FieldsAreFree' /\ OneStopEach'
<1>0. TypeOK /\ ServedIsHeld /\ OneStopEach  BY DEF HeldInv
<1>1. /\ current' = None /\ UNCHANGED <<gen, ctx, timer, closing>>
      /\ stop[a].at = "called"
      BY DEF StopSwap, loopVars
<1>2. /\ stop'[a].at = "took" /\ stop'[a].of = current
      /\ \A b \in Stoppers \ {a} : stop'[b] = stop[b]
      BY <1>0 DEF StopSwap, TypeOK, StopTypes
<1>3. ServedIsHeld'
  <2> SUFFICES ASSUME NEW i \in Invites, ctx[i] = "live"
               PROVE  \E b \in Stoppers : stop'[b].at = "took" /\ stop'[b].of = i
      BY <1>1 DEF ServedIsHeld
  <2>1. CASE current = i  BY <1>2, <2>1
  <2>2. CASE \E b \in Stoppers : stop[b].at = "took" /\ stop[b].of = i
    <3>1. PICK b \in Stoppers : stop[b].at = "took" /\ stop[b].of = i  BY <2>2
    <3>2. b # a  BY <1>1, <3>1
    <3> QED BY <1>2, <3>1, <3>2
  <2> QED BY <1>0, <2>1, <2>2 DEF ServedIsHeld
<1>4. FieldsAreFree'  BY <1>1 DEF FieldsAreFree
<1>5. \A b \in Stoppers : stop'[b].at # "no" => stop[b].at # "no"
      BY <1>1, <1>2
<1>6. OneStopEach'  BY <1>0, <1>1, <1>5, StoppersDiffer DEF OneStopEach
<1> QED BY <1>3, <1>4, <1>6

\* What stopInviteHost took it also cancels.
LEMMA ReleaseKeepsHeld ==
    ASSUME HeldInv, NEW a \in Stoppers, StopRelease(a)
    PROVE  ServedIsHeld' /\ FieldsAreFree' /\ OneStopEach'
<1>0. TypeOK /\ ServedIsHeld /\ FieldsAreFree /\ OneStopEach /\ TimerIsNew
      BY DEF HeldInv
<1>1. /\ UNCHANGED <<gen, current, timer, closing>>
      /\ ctx' = [i \in Invites |-> IF i = stop[a].of THEN "canceled" ELSE ctx[i]]
      /\ stop[a].at = "took"
      BY DEF StopRelease, fieldVars, loopVars
<1>2. stop'[a].at = "no" /\ \A b \in Stoppers \ {a} : stop'[b] = stop[b]
      BY <1>0 DEF StopRelease, TypeOK, StopTypes, NotStopping
<1>3. ServedIsHeld'
  <2> SUFFICES ASSUME NEW i \in Invites, ctx'[i] = "live"
               PROVE  \/ current = i
                      \/ \E b \in Stoppers : stop'[b].at = "took" /\ stop'[b].of = i
      BY <1>1 DEF ServedIsHeld
  <2>1. i # stop[a].of /\ ctx[i] = "live"  BY <1>1
  <2> QED BY <1>0, <1>2, <2>1 DEF ServedIsHeld
<1>4. stop'[Maker].at = "called" <=> stop[Maker].at = "called"
      BY <1>1, <1>2, StoppersDiffer
<1>5. FieldsAreFree'  BY <1>0, <1>1, <1>4 DEF FieldsAreFree
<1>6. \A b \in Stoppers : stop'[b].at # "no" => stop[b].at # "no"
      BY <1>1, <1>2
<1>7. OneStopEach'  BY <1>0, <1>1, <1>6, StoppersDiffer DEF OneStopEach
<1> QED BY <1>3, <1>5, <1>7

\* The steps of GenerateInvite, of the timer, the reaper and the shutdown.
LEMMA MakerKeepsHeld ==
    ASSUME HeldInv, \/ \E i \in Invites : Generate(i) \/ Expire(i)
                    \/ \E p \in Peers : PeerIdle(p)
                    \/ GenerateFails \/ Install \/ Shutdown
    PROVE  ServedIsHeld' /\ FieldsAreFree' /\ OneStopEach'
<1>0. TypeOK /\ ServedIsHeld /\ FieldsAreFree /\ OneStopEach /\ TimerIsNew
      BY DEF HeldInv
<1> USE StoppersDiffer DEF fieldVars, loopVars, FieldsAreFree, OneStopEach
<1>1. ASSUME NEW i \in Invites, Generate(i)
      PROVE  ServedIsHeld' /\ FieldsAreFree' /\ OneStopEach'
  <2>1. /\ stop[Maker].at = "no" /\ BeginStop(Maker) /\ gen' = i
        /\ UNCHANGED <<current, ctx, timer, closing>>
        BY <1>0, <1>1 DEF Generate
  <2>2. gen' # None  BY <2>1, InviteConstants
  <2> QED BY <1>0, <2>1, <2>2, BeginKeepsHeld
<1>2. ASSUME NEW i \in Invites, Expire(i)
      PROVE  ServedIsHeld' /\ FieldsAreFree' /\ OneStopEach'
  <2>1. /\ timer[i] = "armed" /\ timer' = [timer EXCEPT ![i] = "fired"]
        /\ UNCHANGED <<gen, current, ctx, closing>>
        /\ UNCHANGED stop \/ BeginStop(Timer(i))
        BY <1>2 DEF Expire
  <2>2. stop[Timer(i)].at = "no"  BY <1>0, <2>1
  <2>3. \A j \in Invites : timer[j] = "fired" \/ j = i => timer'[j] = "fired"
        BY <1>0, <2>1 DEF TypeOK
  <2>4. CASE UNCHANGED stop  BY <1>0, <2>1, <2>3, <2>4 DEF ServedIsHeld
  <2>5. CASE BeginStop(Timer(i))
    <3>1. ServedIsHeld' /\ \A b \in Stoppers \ {Timer(i)} : stop'[b] = stop[b]
          BY <1>0, <2>1, <2>2, <2>5, BeginKeepsHeld
    <3> QED BY <1>0, <2>1, <2>3, <3>1
  <2> QED BY <2>1, <2>4, <2>5
<1>3. ASSUME NEW p \in Peers, PeerIdle(p)
      PROVE  ServedIsHeld' /\ FieldsAreFree' /\ OneStopEach'
  <2>1. /\ stop[Reaper].at = "no" /\ (UNCHANGED stop \/ BeginStop(Reaper))
        /\ UNCHANGED <<gen, current, ctx, timer, closing>>
        BY <1>3 DEF PeerIdle
  <2>2. CASE UNCHANGED stop  BY <1>0, <2>1, <2>2 DEF ServedIsHeld
  <2>3. CASE BeginStop(Reaper)
    <3>1. ServedIsHeld' /\ \A b \in Stoppers \ {Reaper} : stop'[b] = stop[b]
          BY <1>0, <2>1, <2>3, BeginKeepsHeld
    <3> QED BY <1>0, <2>1, <3>1
  <2> QED BY <2>1, <2>2, <2>3
<1>4. CASE GenerateFails  BY <1>0, <1>4 DEF GenerateFails, ServedIsHeld
<1>5. CASE Install
  <2>1. /\ gen # None /\ stop[Maker].at = "no" /\ gen' = None /\ current' = gen
        /\ ctx' = [ctx EXCEPT ![gen] = "live"] /\ timer' = [timer EXCEPT ![gen] = "armed"]
        /\ UNCHANGED <<stop, closing>>
        BY <1>5 DEF Install
  <2>2. current = None  BY <1>0, <2>1
  <2>3. ServedIsHeld'
    <3> SUFFICES ASSUME NEW i \in Invites, ctx'[i] = "live", i # gen
                 PROVE  \E a \in Stoppers : stop[a].at = "took" /\ stop[a].of = i
        BY <2>1 DEF ServedIsHeld
    <3>1. ctx[i] = "live"  BY <1>0, <2>1 DEF TypeOK
    <3>2. current # i  BY <2>2, InviteConstants
    <3> QED BY <1>0, <3>1, <3>2 DEF ServedIsHeld
  <2>4. OneStopEach'
    <3>1. gen \in Invites /\ stop[Timer(gen)].at = "no"
          BY <1>0, <2>1 DEF TypeOK, TimerIsNew
    <3> QED BY <1>0, <2>1, <3>1
  <2> QED BY <2>1, <2>3, <2>4
<1>6. CASE Shutdown
  <2>1. /\ stop[Quitter].at = "no" /\ BeginStop(Quitter) /\ closing'
        /\ UNCHANGED <<gen, current, ctx, timer>>
        BY <1>0, <1>6 DEF Shutdown
  <2>2. ServedIsHeld' /\ \A b \in Stoppers \ {Quitter} : stop'[b] = stop[b]
        BY <1>0, <2>1, BeginKeepsHeld
  <2> QED BY <1>0, <2>1, <2>2
<1> QED BY <1>1, <1>2, <1>3, <1>4, <1>5, <1>6

\* Timers start with their contexts, and GenerateInvite makes new invites.
LEMMA NextTimerIsNew ==
    ASSUME HeldInv, Next
    PROVE  TimerIsNew'
<1>0. TypeOK /\ TimerIsNew  BY DEF HeldInv
<1> USE DEF TimerIsNew, fieldVars, loopVars, linkVars, peerVars
<1>1. ASSUME NEW i \in Invites, Generate(i)  PROVE TimerIsNew'
      BY <1>0, <1>1 DEF Generate
<1>2. ASSUME NEW i \in Invites, Expire(i)  PROVE TimerIsNew'
      BY <1>0, <1>2 DEF Expire, TypeOK
<1>3. CASE Install
  <2>1. gen' = None /\ gen \in Invites
        /\ timer' = [timer EXCEPT ![gen] = "armed"]
        /\ ctx' = [ctx EXCEPT ![gen] = "live"]
        BY <1>0, <1>3 DEF Install, TypeOK
  <2> QED BY <1>0, <2>1 DEF TypeOK
<1>4. ASSUME NEW a \in Stoppers, Stop(a)  PROVE TimerIsNew'
  <2>1. UNCHANGED <<gen, timer>>  BY <1>4 DEF Stop, StopSwap, StopRelease
  <2>2. \A i \in Invites : ctx'[i] = "none" => ctx[i] = "none"
        BY <1>4 DEF Stop, StopSwap, StopRelease
  <2> QED BY <1>0, <2>1, <2>2
<1>5. CASE GenerateFails  BY <1>0, <1>5 DEF GenerateFails
<1>6. CASE UNCHANGED <<gen, ctx, timer>>  BY <1>0, <1>6
<1> QED BY <1>1, <1>2, <1>3, <1>4, <1>5, <1>6
        DEF Next, Poll, Registers, SetJoiner, AddPaired, PollJoiner, HostLoop, ServeHost,
            PublishLink, RelayReplaced, RelayDown, WithdrawLink, DirectEnds, Unlocked,
            LoseRelay, PromoteDirect, Goodbye, PeerIdle, ReapIdle, Shutdown

\* The other steps leave the fields, the contexts, the timers and the stops alone.
LEMMA OthersKeepHeld ==
    ASSUME HeldInv,
           \/ UNCHANGED vars
           \/ \E i \in Invites : \/ Poll(i) \/ HostLoop(i)
                                 \/ \E p \in Peers : PollJoiner(i, p)
                                 \/ \E l \in Links : ServeHost(i, l)
           \/ \E l \in Links : LoseRelay(l) \/ PromoteDirect(l)
           \/ \E p \in Peers : Goodbye(p)
           \/ \E S \in SUBSET Peers : ReapIdle(S)
    PROVE  ServedIsHeld' /\ FieldsAreFree' /\ OneStopEach'
<1>1. UNCHANGED <<gen, current, ctx, timer, stop, closing>>
      BY DEF vars, fieldVars, loopVars, linkVars, peerVars, Unlocked, Poll, Registers,
             SetJoiner, AddPaired, PollJoiner, HostLoop, ServeHost, PublishLink,
             RelayReplaced, RelayDown, WithdrawLink, DirectEnds, LoseRelay,
             PromoteDirect, Goodbye, ReapIdle
<1> QED BY <1>1 DEF HeldInv, ServedIsHeld, FieldsAreFree, OneStopEach

\* The invariant is inductive.
LEMMA NextHeld == HeldInv /\ [Next]_vars => HeldInv'
<1> SUFFICES ASSUME HeldInv, [Next]_vars PROVE HeldInv'  OBVIOUS
<1>1. TypeOK'  BY NextTypes DEF HeldInv
<1>2. TimerIsNew'
  <2>1. CASE UNCHANGED vars
        BY <2>1 DEF HeldInv, TimerIsNew, vars, loopVars
  <2> QED BY <2>1, NextTimerIsNew
<1>3. ServedIsHeld' /\ FieldsAreFree' /\ OneStopEach'
      BY SwapKeepsHeld, ReleaseKeepsHeld, MakerKeepsHeld, OthersKeepHeld DEF Next, Stop
<1> QED BY <1>1, <1>2, <1>3 DEF HeldInv

\* Of any number of invites, each that is still served can be stopped: its cancel
\* function is the engine's, or that of one stop under way.
THEOREM HostIsHeld == Spec => []ServedIsHeld
<1>1. Init => HeldInv  BY InitHeld
<1>2. HeldInv /\ [Next]_vars => HeldInv'  BY NextHeld
<1>3. HeldInv => ServedIsHeld  BY DEF HeldInv
<1> QED BY <1>1, <1>2, <1>3, PTL DEF Spec

-----------------------------------------------------------------------------
(* Nothing but a goodbye leaves a host that neither its timer nor the idle  *)
(* policy ends                                                             *)

\* A poll starts together with its invite's timer.
PollAfterTimer == \A i \in Invites : timer[i] = "off" => poll[i].at = "off"

\* A joiner is one whose idleness will be noticed, unless it said goodbye.
JoinerIsWatched == joiner # None => Watched(joiner) \/ joiner \in left

\* The inductive invariant.
WatchInv == HeldInv /\ PollAfterTimer /\ JoinerIsWatched /\ WillBeStopped

\* A step preserves PollAfterTimer.
LEMMA NextPollAfterTimer ==
    ASSUME TypeOK, PollAfterTimer, [Next]_vars
    PROVE  PollAfterTimer'
<1> USE DEF fieldVars, loopVars, linkVars, peerVars
<1>1. ASSUME UNCHANGED <<timer, poll>>  PROVE PollAfterTimer'
      BY <1>1 DEF PollAfterTimer
<1>2. CASE Install
  <2>1. gen \in Invites /\ timer' = [timer EXCEPT ![gen] = "armed"]
        BY <1>2 DEF Install, TypeOK
  <2>2. \A i \in Invites \ {gen} : poll'[i] = poll[i]
        BY <1>2 DEF Install, TypeOK, PollTypes
  <2> QED BY <2>1, <2>2 DEF PollAfterTimer, TypeOK
<1>3. ASSUME NEW i \in Invites, Expire(i)  PROVE PollAfterTimer'
      BY <1>3 DEF Expire, PollAfterTimer, TypeOK
<1>4. ASSUME NEW i \in Invites, Poll(i) \/ \E p \in Peers : PollJoiner(i, p)
      PROVE  PollAfterTimer'
  <2>1. poll[i].at # "off" /\ UNCHANGED timer
        BY <1>4 DEF Poll, Registers, SetJoiner, AddPaired, PollJoiner
  <2>2. \A j \in Invites \ {i} : poll'[j] = poll[j]
        BY <1>4 DEF Poll, Registers, SetJoiner, AddPaired, PollJoiner, TypeOK, PollTypes
  <2> QED BY <2>1, <2>2 DEF PollAfterTimer
<1> QED BY <1>1, <1>2, <1>3, <1>4
        DEF Next, vars, Stop, StopSwap, StopRelease, Generate, GenerateFails, HostLoop,
            ServeHost, PublishLink, RelayReplaced, RelayDown, WithdrawLink, DirectEnds,
            Unlocked, LoseRelay, PromoteDirect, Goodbye, PeerIdle, ReapIdle, Shutdown

\* What a step of a poll leaves alone: the registry and the peers that other polls
\* are adding.
LEMMA OtherPollsAdd ==
    ASSUME TypeOK, NEW i \in Invites, NEW p,
           \A j \in Invites \ {i} : poll'[j] = poll[j],
           poll[i].at # "adding" \/ poll[i].peer # p,
           paired \cup expired \subseteq paired' \cup expired',
           Watched(p)
    PROVE  Watched(p)'
BY DEF Watched

\* A step preserves JoinerIsWatched: whoever leaves the registry otherwise than by a
\* goodbye is in the reaper's hands, and the reaper forgets the joiner itself.
LEMMA NextJoinerIsWatched ==
    ASSUME HeldInv, PollAfterTimer, JoinerIsWatched, [Next]_vars
    PROVE  JoinerIsWatched'
<1> USE DEF fieldVars, loopVars, linkVars, peerVars
<1>0. TypeOK /\ TimerIsNew  BY DEF HeldInv
<1>1. ASSUME UNCHANGED <<poll, paired, expired, left>>, joiner' \in {joiner, None}
      PROVE  JoinerIsWatched'
      BY <1>1 DEF JoinerIsWatched, Watched
<1>2. CASE Install
  <2>1. gen \in Invites /\ poll[gen].at = "off"
        BY <1>0, <1>2 DEF Install, TypeOK, TimerIsNew, PollAfterTimer
  <2>2. \A j \in Invites \ {gen} : poll'[j] = poll[j]
        BY <1>0, <1>2 DEF Install, TypeOK, PollTypes
  <2>3. UNCHANGED <<joiner, paired, expired, left>>  BY <1>2 DEF Install
  <2>4. Watched(joiner) => Watched(joiner)'
        BY <1>0, <2>1, <2>2, <2>3, OtherPollsAdd
  <2> QED BY <2>3, <2>4 DEF JoinerIsWatched
<1>3. ASSUME NEW i \in Invites, Registers(i) \/ \E p \in Peers : PollJoiner(i, p)
      PROVE  JoinerIsWatched'
  <2>1. poll[i].at # "adding" /\ UNCHANGED <<joiner, paired, expired, left>>
        BY <1>3 DEF Registers, PollJoiner
  <2>2. \A j \in Invites \ {i} : poll'[j] = poll[j]
        BY <1>0, <1>3 DEF Registers, PollJoiner, TypeOK, PollTypes
  <2>3. Watched(joiner) => Watched(joiner)'
        BY <1>0, <2>1, <2>2, OtherPollsAdd
  <2> QED BY <2>1, <2>3 DEF JoinerIsWatched
<1>4. ASSUME NEW i \in Invites, SetJoiner(i)  PROVE JoinerIsWatched'
  <2>1. /\ joiner' = poll[i].peer
        /\ poll'[i].at = "adding" /\ poll'[i].peer = poll[i].peer
        BY <1>0, <1>4 DEF SetJoiner, TypeOK, PollTypes
  <2> QED BY <2>1 DEF JoinerIsWatched, Watched
<1>5. ASSUME NEW i \in Invites, AddPaired(i)  PROVE JoinerIsWatched'
  <2>1. /\ joiner' = joiner /\ expired' = expired
        /\ paired' = paired \cup {poll[i].peer} /\ left' = left \ {poll[i].peer}
        BY <1>5 DEF AddPaired
  <2>2. \A j \in Invites \ {i} : poll'[j] = poll[j]
        BY <1>0, <1>5 DEF AddPaired, TypeOK, PollTypes
  <2>3. CASE joiner = poll[i].peer  BY <2>1, <2>3 DEF JoinerIsWatched, Watched
  <2>4. CASE joiner # poll[i].peer
    <3>1. Watched(joiner) => Watched(joiner)'
          BY <1>0, <2>1, <2>2, <2>4, OtherPollsAdd
    <3> QED BY <2>1, <2>4, <3>1 DEF JoinerIsWatched
  <2> QED BY <2>3, <2>4
<1>6. ASSUME NEW p \in Peers, Goodbye(p)  PROVE JoinerIsWatched'
  <2>1. /\ paired' = paired \ {p} /\ left' = left \cup {p}
        /\ UNCHANGED <<joiner, expired, poll>>
        BY <1>6 DEF Goodbye
  <2> QED BY <2>1 DEF JoinerIsWatched, Watched
<1>7. ASSUME NEW S \in SUBSET Peers, ReapIdle(S)  PROVE JoinerIsWatched'
  <2>1. /\ paired' = paired \ S /\ expired' = S /\ expired = {}
        /\ UNCHANGED <<joiner, left, poll>>
        BY <1>7 DEF ReapIdle
  <2> QED BY <2>1 DEF JoinerIsWatched, Watched
<1>8. ASSUME NEW p \in Peers, PeerIdle(p)  PROVE JoinerIsWatched'
  <2>1. expired' = expired \ {p} /\ UNCHANGED <<paired, left, poll>>
        BY <1>8 DEF PeerIdle
  <2>2. CASE joiner = p  BY <1>8, <2>2 DEF PeerIdle, JoinerIsWatched
  <2>3. CASE joiner # p
    <3>1. joiner' = joiner  BY <1>8, <2>3 DEF PeerIdle
    <3> QED BY <2>1, <2>3, <3>1 DEF JoinerIsWatched, Watched
  <2> QED BY <2>2, <2>3
<1> QED BY <1>1, <1>2, <1>3, <1>4, <1>5, <1>6, <1>7, <1>8
        DEF Next, vars, Poll, Stop, StopSwap, StopRelease, Generate, GenerateFails, Expire,
            HostLoop, ServeHost, PublishLink, RelayReplaced, RelayDown, WithdrawLink,
            DirectEnds, Unlocked, LoseRelay, PromoteDirect, Shutdown

\* A step preserves WillBeStopped: a timer that fires and a peer that is idle find the joiner
\* set or call a stop.
LEMMA NextWillBeStopped ==
    ASSUME TypeOK, TypeOK', JoinerIsWatched', WillBeStopped, [Next]_vars
    PROVE  WillBeStopped'
<1> USE DEF fieldVars, loopVars, linkVars, peerVars
<1>1. CASE joiner' # None
      BY <1>1 DEF JoinerIsWatched, WillBeStopped, IdlePolicyOwns
<1>2. CASE joiner' = None /\ joiner # None
  <2>1. ASSUME NEW a \in Stoppers, Stop(a)  PROVE current' = None
        BY <1>2, <2>1 DEF Stop, StopSwap, StopRelease
  <2>2. ASSUME NEW p \in Peers, PeerIdle(p)  PROVE stop'[Reaper].at = "called"
    <3>1. BeginStop(Reaper)  BY <1>2, <2>2 DEF PeerIdle
    <3> QED BY <3>1, StoppersDiffer DEF BeginStop, TypeOK, StopTypes
  <2>3. ASSUME NEW i \in Invites, SetJoiner(i)  PROVE FALSE
    <3>1. joiner' \in Peers  BY <2>3 DEF SetJoiner, TypeOK, PollTypes
    <3> QED BY <1>2, <3>1, InviteConstants
  <2>4. \/ current' = None \/ stop'[Reaper].at = "called"
        BY <1>2, <2>1, <2>2, <2>3
        DEF Next, vars, Poll, Registers, AddPaired, PollJoiner, Generate, GenerateFails,
            Install, Expire, HostLoop, ServeHost, PublishLink, RelayReplaced, RelayDown,
            WithdrawLink, DirectEnds, Unlocked, LoseRelay, PromoteDirect, Goodbye,
            ReapIdle, Shutdown
  <2> QED BY <2>4, StoppersDiffer DEF WillBeStopped, IdlePolicyOwns, EndIsNear
<1>3. CASE joiner' = None /\ joiner = None
  <2>0. current # None => EndIsNear
        BY <1>3, InviteConstants DEF WillBeStopped, IdlePolicyOwns, TypeOK
  <2> SUFFICES current' # None => EndIsNear'  BY DEF WillBeStopped, IdlePolicyOwns
  <2>1. ASSUME UNCHANGED <<current, timer, stop>>  PROVE current' # None => EndIsNear'
        BY <2>0, <2>1 DEF EndIsNear
  <2>2. ASSUME NEW a \in Stoppers, BeginStop(a)  PROVE EndIsNear'
    <3>1. stop'[a].at = "called"  BY <2>2 DEF TypeOK, StopTypes, BeginStop
    <3> QED BY <3>1 DEF EndIsNear
  <2>3. ASSUME NEW a \in Stoppers, Stop(a)  PROVE current' # None => EndIsNear'
    <3>1. CASE StopSwap(a)  BY <3>1 DEF StopSwap
    <3>2. CASE StopRelease(a)
      <4>1. \A b \in Stoppers : stop[b].at = "called" => stop'[b] = stop[b]
            BY <3>2 DEF StopRelease, TypeOK, StopTypes
      <4> QED BY <2>0, <3>2, <4>1 DEF StopRelease, EndIsNear
    <3> QED BY <2>3, <3>1, <3>2 DEF Stop
  <2>4. CASE Install
    <3>1. current' = gen /\ gen \in Invites /\ timer' = [timer EXCEPT ![gen] = "armed"]
          BY <2>4 DEF Install, TypeOK
    <3>2. timer'[current'] = "armed"  BY <3>1 DEF TypeOK
    <3> QED BY <3>2 DEF EndIsNear
  <2>5. ASSUME NEW i \in Invites, Expire(i)  PROVE EndIsNear'
        BY <1>3, <2>2, <2>5, StoppersDiffer DEF Expire
  <2>6. ASSUME NEW p \in Peers, PeerIdle(p)  PROVE current' # None => EndIsNear'
        BY <2>1, <2>2, <2>6, StoppersDiffer DEF PeerIdle
  <2>7. CASE Shutdown  BY <2>2, <2>7, StoppersDiffer DEF Shutdown
  <2>8. ASSUME NEW i \in Invites, Generate(i)  PROVE EndIsNear'
        BY <2>2, <2>8, StoppersDiffer DEF Generate
  <2> QED BY <2>1, <2>3, <2>4, <2>5, <2>6, <2>7, <2>8
          DEF Next, vars, Poll, Registers, SetJoiner, AddPaired, PollJoiner, HostLoop,
              ServeHost, PublishLink, RelayReplaced, RelayDown, WithdrawLink, DirectEnds,
              Unlocked, LoseRelay, PromoteDirect, Goodbye, ReapIdle, GenerateFails
<1> QED BY <1>1, <1>2, <1>3

\* While the joiner has not said goodbye, an invite that is served has its own timer still to
\* fire, or a stop was called, or a joiner that is in the registry, in the reaper's
\* hands or about to be added.
THEOREM HostWillBeStopped == Spec => []WillBeStopped
<1>1. Init => WatchInv
  <2>1. Init => PollAfterTimer /\ JoinerIsWatched /\ WillBeStopped
        BY DEF Init, PollAfterTimer, JoinerIsWatched, WillBeStopped, IdlePolicyOwns
  <2> QED BY <2>1, InitHeld DEF WatchInv
<1>2. WatchInv /\ [Next]_vars => WatchInv'
  <2> SUFFICES ASSUME WatchInv, [Next]_vars PROVE WatchInv'  OBVIOUS
  <2>1. HeldInv'  BY NextHeld DEF WatchInv
  <2>2. PollAfterTimer'  BY NextPollAfterTimer DEF WatchInv, HeldInv
  <2>3. JoinerIsWatched'  BY NextJoinerIsWatched DEF WatchInv
  <2>4. WillBeStopped'
        BY <2>1, <2>3, NextWillBeStopped DEF WatchInv, HeldInv
  <2> QED BY <2>1, <2>2, <2>3, <2>4 DEF WatchInv
<1>3. WatchInv => WillBeStopped  BY DEF WatchInv
<1> QED BY <1>1, <1>2, <1>3, PTL DEF Spec

-----------------------------------------------------------------------------
(* A link that was dialed is closed, or will be                             *)

\* A relay loop starts once, after its invite's timer.
Begun ==
    \A i \in Invites :
        /\ timer[i] = "off" => host[i].at = "off"
        /\ poll[i].at = "register" => timer[i] # "off" /\ host[i].at = "off"

\* The inductive invariant.
LinkInv == HeldInv /\ Begun /\ LinkIsHeld

\* Where a step of a relay loop takes it.
LEMMA HostLoopMoves ==
    ASSUME TypeOK, NEW i \in Invites, HostLoop(i)
    PROVE  /\ host[i].at \in {"dialed", "up", "direct", "down"}
           /\ \A j \in Invites \ {i} : host'[j] = host[j]
           /\ host'[i].at # "off" /\ UNCHANGED <<timer, poll, link>>
           /\ closed \subseteq closed'
           /\ \/ host[i].at = "down"
              \/ host[i].link \in closed'
              \/ host'[i].link = host[i].link /\ host'[i].at \in {"up", "direct"}
<1>1. Unlocked /\ UNCHANGED link /\ closed \subseteq closed'
      BY DEF HostLoop, PublishLink, RelayReplaced, RelayDown, WithdrawLink, DirectEnds,
             linkVars
<1>2. CASE PublishLink(i) \/ RelayReplaced(i)
      BY <1>1, <1>2 DEF PublishLink, RelayReplaced, HostAt, HostTo, Unlocked, TypeOK,
                        HostTypes
<1>3. CASE RelayDown(i)
      BY <1>1, <1>3 DEF RelayDown, HostAt, HostTo, Unlocked, TypeOK, HostTypes
<1>4. CASE WithdrawLink(i) \/ DirectEnds(i)
      BY <1>1, <1>4 DEF WithdrawLink, DirectEnds, HostAt, LetGo, Unlocked, TypeOK,
                        HostTypes
<1> QED BY <1>2, <1>3, <1>4 DEF HostLoop

\* A step preserves Begun.
LEMMA NextBegun ==
    ASSUME HeldInv, Begun, [Next]_vars
    PROVE  Begun'
<1> USE DEF loopVars
<1>0. TypeOK /\ TimerIsNew  BY DEF HeldInv
<1>1. ASSUME UNCHANGED <<timer, host>>,
             \A i \in Invites : poll'[i].at = "register" => poll[i].at = "register"
      PROVE  Begun'
      BY <1>1 DEF Begun
<1>2. CASE Install
  <2>1. gen \in Invites /\ timer[gen] = "off"
        BY <1>0, <1>2 DEF Install, TypeOK, TimerIsNew
  <2>2. /\ host' = host /\ timer'[gen] = "armed"
        /\ \A i \in Invites \ {gen} : timer'[i] = timer[i] /\ poll'[i] = poll[i]
        BY <1>0, <1>2, <2>1 DEF Install, TypeOK, PollTypes
  <2> QED BY <2>1, <2>2 DEF Begun
<1>3. ASSUME NEW i \in Invites, Expire(i)  PROVE Begun'
      BY <1>0, <1>3 DEF Expire, Begun, TypeOK
<1>4. ASSUME NEW i \in Invites, Registers(i)  PROVE Begun'
      BY <1>0, <1>4 DEF Registers, Begun, TypeOK, PollTypes, HostTypes
<1>5. ASSUME NEW i \in Invites, HostLoop(i)  PROVE Begun'
      BY <1>0, <1>5, HostLoopMoves DEF Begun
<1>6. ASSUME NEW i \in Invites, NEW l \in Links, ServeHost(i, l)  PROVE Begun'
      BY <1>0, <1>6 DEF ServeHost, HostAt, Unlocked, Begun, TypeOK, HostTypes
<1>7. ASSUME NEW i \in Invites,
             \/ SetJoiner(i) \/ AddPaired(i) \/ \E p \in Peers : PollJoiner(i, p)
      PROVE  Begun'
  <2>1. UNCHANGED <<timer, host>>
        BY <1>7 DEF SetJoiner, AddPaired, PollJoiner
  <2>2. \A j \in Invites : poll'[j].at = "register" => poll[j].at = "register"
    <3>1. CASE SetJoiner(i) \/ AddPaired(i)
          BY <1>0, <3>1 DEF SetJoiner, AddPaired, TypeOK, PollTypes
    <3>2. ASSUME NEW p \in Peers, PollJoiner(i, p)
          PROVE  \A j \in Invites : poll'[j].at = "register" => poll[j].at = "register"
          BY <1>0, <3>2 DEF PollJoiner, TypeOK, PollTypes
    <3> QED BY <1>7, <3>1, <3>2
  <2> QED BY <1>1, <2>1, <2>2
<1>8. CASE UNCHANGED <<timer, host, poll>>  BY <1>1, <1>8
<1> QED BY <1>2, <1>3, <1>4, <1>5, <1>6, <1>7, <1>8
        DEF Next, vars, Poll, Stop, StopSwap, StopRelease, Generate, GenerateFails,
            Unlocked, LoseRelay, PromoteDirect, Goodbye, PeerIdle, ReapIdle, Shutdown

\* A step preserves LinkIsHeld: only the loop that holds a link lets go of it, and
\* not before it is closed.
LEMMA NextLinkIsHeld ==
    ASSUME HeldInv, Begun, LinkIsHeld, [Next]_vars
    PROVE  LinkIsHeld'
<1> USE DEF loopVars, linkVars
<1>0. TypeOK  BY DEF HeldInv
<1>1. ASSUME UNCHANGED <<host, link>>, closed \subseteq closed'  PROVE LinkIsHeld'
      BY <1>1 DEF LinkIsHeld
<1>2. ASSUME NEW i \in Invites, Registers(i)  PROVE LinkIsHeld'
      BY <1>0, <1>2 DEF Registers, Begun, LinkIsHeld, TypeOK, HostTypes
<1>3. ASSUME NEW i \in Invites, NEW l \in Links, ServeHost(i, l)  PROVE LinkIsHeld'
      BY <1>0, <1>3 DEF ServeHost, HostAt, LinkIsHeld, TypeOK, HostTypes
<1>4. ASSUME NEW i \in Invites, HostLoop(i)  PROVE LinkIsHeld'
  <2>1. ASSUME NEW l \in Links, link'[l] # "undialed", l \notin closed'
        PROVE  \E j \in Invites : /\ host'[j].link = l
                                  /\ host'[j].at \in {"dialed", "up", "direct"}
    <3>1. PICK j \in Invites : host[j].link = l /\ host[j].at \in {"dialed", "up", "direct"}
          BY <1>0, <1>4, <2>1, HostLoopMoves DEF LinkIsHeld
    <3> QED BY <1>0, <1>4, <2>1, <3>1, HostLoopMoves
  <2> QED BY <2>1 DEF LinkIsHeld
<1>5. ASSUME NEW l \in Links, LoseRelay(l) \/ PromoteDirect(l)  PROVE LinkIsHeld'
      BY <1>0, <1>5 DEF LoseRelay, PromoteDirect, LinkIsHeld, TypeOK
<1> QED BY <1>1, <1>2, <1>3, <1>4, <1>5
        DEF Next, vars, Poll, SetJoiner, AddPaired, PollJoiner, Stop, StopSwap,
            StopRelease, Generate, GenerateFails, Install, Expire, Goodbye, PeerIdle,
            ReapIdle, Shutdown

\* However links break, go direct and replace each other, each one that was dialed
\* is closed or held by a relay loop that will close it.
THEOREM HostLinkIsHeld == Spec => []LinkIsHeld
<1>1. Init => LinkInv
  <2>1. Init => Begun /\ LinkIsHeld  BY DEF Init, Begun, LinkIsHeld
  <2> QED BY <2>1, InitHeld DEF LinkInv
<1>2. LinkInv /\ [Next]_vars => LinkInv'
      BY NextHeld, NextBegun, NextLinkIsHeld DEF LinkInv
<1>3. LinkInv => LinkIsHeld  BY DEF LinkInv
<1> QED BY <1>1, <1>2, <1>3, PTL DEF Spec
=============================================================================
