--------------------------- MODULE WebPull_proofs ---------------------------
(* Theorems about WebPull, for any sends, answers, downloads and cancels.  *)
EXTENDS WebPull, TLAPS

Stages    == {"new", "starting", "waiting", "pulling", "judging", "clearing", "removed", "over"}
Requests  == [at : {"idle", "checked", "building", "built", "tokened", "over"},
              of : Sends \cup {None}, code : {0, 200, 403, 404, 409, 500}]
Downloads == [at : {"idle", "copying", "counted", "done", "failed", "over"},
              of : Sends \cup {None}, path : Accepts \cup {None}]
Cancels   == [at : {"idle", "found", "flagged", "turned", "dropped", "over"},
              of : Sends \cup {None}]

\* TypeOK, in the groups of variables that actions change together.
RunTypes  == /\ outgoing \in Sends \cup {None} /\ stage \in [Sends -> Stages]
             /\ failed \in [Sends -> BOOLEAN] /\ reported \in [Sends -> Seq(Outcomes)]
StopTypes == /\ cancel \in [Sends -> BOOLEAN]
             /\ httpCancel \in [Sends -> {"nil", "set", "fired"}]
PullTypes == /\ decision \in [Sends -> {"none", "yes", "no"}]
             /\ token \in [Sends -> Accepts \cup {None}]
             /\ archive \in [Sends -> Accepts \cup {None}] /\ temp \subseteq Accepts
             /\ pulled \in [Sends -> BOOLEAN]
ReqTypes  == req \in [Answers -> Requests]
GetTypes  == get \in [Gets -> Downloads]
CallTypes == /\ call \in [Callers -> Cancels] /\ appDone \in BOOLEAN
             /\ \A k \in Callers : call[k].at \notin {"idle", "over"} => call[k].of \in Sends

LEMMA TypeParts ==
    /\ TypeOK <=> /\ RunTypes /\ StopTypes /\ PullTypes
                  /\ ReqTypes /\ GetTypes /\ CallTypes
    /\ TypeOK' <=> /\ RunTypes' /\ StopTypes' /\ PullTypes'
                   /\ ReqTypes' /\ GetTypes' /\ CallTypes'
BY DEF TypeOK, RunTypes, StopTypes, PullTypes, ReqTypes, GetTypes, CallTypes, Stages,
       Requests, Downloads, Cancels

\* An answer names its send from the first check on and its code at the end, and only
\* one that accepts gets past the check; a send that is new was answered by nobody.
ReqInv ==
    \A r \in Answers :
        /\ req[r].at = "idle" <=> req[r].of = None
        /\ req[r].of # None => stage[req[r].of] # "new"
        /\ req[r].code # 0 => req[r].at = "over"
        /\ req[r].at \in {"building", "built", "tokened"} => r \in Accepts

Inv1 == TypeOK /\ ReqInv

-----------------------------------------------------------------------------
(* What the actions do                                                     *)

\* Each group of actions leaves most of the state alone.
LEMMA Frames ==
    /\ \A s \in Sends : Send(s) \/ RunSendWebPull(s) =>
          UNCHANGED <<cancel, token, pulled, httpVars, callVars>>
    /\ \A r \in Answers : RespondPullOffer(r) =>
          UNCHANGED <<runVars, stopVars, pulled, get, callVars>>
    /\ \A g \in Gets : Download(g) =>
          UNCHANGED <<runVars, stopVars, decision, token, archive, temp, req, callVars>>
    /\ \A k \in Callers : CancelOutgoing(k) =>
          UNCHANGED <<runVars, token, pulled, httpVars, appDone>>
<1> USE DEF runVars, stopVars, pullVars, httpVars, callVars
<1>1. ASSUME NEW s \in Sends, Send(s) \/ RunSendWebPull(s)
      PROVE  UNCHANGED <<cancel, token, pulled, httpVars, callVars>>
      BY <1>1 DEF Send, RunSendWebPull, StartWait, TakeDecision, AcceptTimeout, WaitAborted,
                  PullEnds, Judge, ClearUp, ClearOutgoing, RemoveArchive
<1>2. ASSUME NEW r \in Answers, RespondPullOffer(r)
      PROVE  UNCHANGED <<runVars, stopVars, pulled, get, callVars>>
      BY <1>2 DEF RespondPullOffer, Respond, RespondDecline, BuildArchive, ArchiveReady,
                  SetToken, HandOver, RemoveArchive
<1>3. ASSUME NEW g \in Gets, Download(g)
      PROVE  UNCHANGED <<runVars, stopVars, decision, token, archive, temp, req, callVars>>
      BY <1>3 DEF Download, GetOpen, GetDone, MarkPullFileDone
<1>4. ASSUME NEW k \in Callers, CancelOutgoing(k)
      PROVE  UNCHANGED <<runVars, token, pulled, httpVars, appDone>>
      BY <1>4 DEF CancelOutgoing, Cancel, SetCancel, TurnDown, DropArchive, AbortHTTP,
                  RemoveArchive
<1> QED BY <1>1, <1>2, <1>3, <1>4

\* A request that becomes a typed record leaves the others as they are.
LEMMA ReqBecomes ==
    ASSUME ReqTypes, NEW r \in Answers, NEW x \in Requests, req' = [req EXCEPT ![r] = x]
    PROVE  /\ ReqTypes' /\ req'[r] = x
           /\ \A q \in Answers : q # r => req'[q] = req[q]
BY DEF ReqTypes

\* What Answer does, and what a step of a request on its way does.
LEMMA AnswerIs ==
    ASSUME ReqTypes, NEW r \in Answers, NEW c \in {200, 403, 409, 500}, Answer(r, c)
    PROVE  /\ ReqTypes'
           /\ req'[r].of = req[r].of /\ req'[r].at = "over" /\ req'[r].code = c
           /\ \A q \in Answers : q # r => req'[q] = req[q]
<1> DEFINE x == [at |-> "over", of |-> req[r].of, code |-> c]
           y == [req[r] EXCEPT !.at = "over"]
<1>1. req[r] \in Requests  BY DEF ReqTypes
<1>2. x \in Requests  BY <1>1 DEF Requests
<1>3. y = [at |-> "over", of |-> req[r].of, code |-> req[r].code]  BY <1>1 DEF Requests
<1>4. [req EXCEPT ![r].at = "over"] = [req EXCEPT ![r] = y]  OBVIOUS
<1> HIDE DEF y
<1>5. [y EXCEPT !.code = c] = x  BY <1>3
<1>6. [req EXCEPT ![r] = y][r] = y  BY DEF ReqTypes
<1>7. req' = [[req EXCEPT ![r] = y] EXCEPT ![r] = [y EXCEPT !.code = c]]
      BY <1>4, <1>6 DEF Answer
<1>8. req' = [req EXCEPT ![r] = x]  BY <1>5, <1>7 DEF ReqTypes
<1>9. x.of = req[r].of /\ x.at = "over" /\ x.code = c  OBVIOUS
<1> HIDE DEF x
<1>10. /\ ReqTypes' /\ req'[r] = x
       /\ \A q \in Answers : q # r => req'[q] = req[q]
       BY <1>2, <1>8 DEF ReqTypes
<1> QED BY <1>9, <1>10

LEMMA ReqMoves ==
    ASSUME ReqTypes, NEW r \in Answers, NEW a \in {"building", "built", "tokened"},
           req' = [req EXCEPT ![r].at = a]
    PROVE  /\ ReqTypes'
           /\ req'[r].of = req[r].of /\ req'[r].at = a /\ req'[r].code = req[r].code
           /\ \A q \in Answers : q # r => req'[q] = req[q]
<1> DEFINE x == [req[r] EXCEPT !.at = a]
<1>1. x \in Requests /\ x.of = req[r].of /\ x.at = a /\ x.code = req[r].code
      BY DEF ReqTypes, Requests
<1>2. req' = [req EXCEPT ![r] = x]  BY DEF ReqTypes, Requests
<1> HIDE DEF x
<1> QED BY <1>1, <1>2, ReqBecomes

\* What a step of CancelOutgoing does to its call.
LEMMA CallMoves ==
    ASSUME CallTypes, NEW k \in Callers, call[k].at \notin {"idle", "over"},
           NEW to \in {"flagged", "turned", "dropped", "over"}, Proceed(k, to), UNCHANGED appDone
    PROVE  /\ CallTypes' /\ call'[k].of = call[k].of /\ call'[k].at = to
           /\ \A j \in Callers : j # k => call'[j] = call[j]
<1> DEFINE x == [call[k] EXCEPT !.at = to]
<1>1. x \in Cancels /\ x.of = call[k].of /\ x.at = to /\ x.of \in Sends
      BY DEF CallTypes, Cancels
<1>2. call' = [call EXCEPT ![k] = x]  BY DEF Proceed, CallTypes, Cancels
<1> HIDE DEF x
<1>3. /\ call'[k] = x /\ \A j \in Callers : j # k => call'[j] = call[j]
      /\ call' \in [Callers -> Cancels]
      BY <1>1, <1>2 DEF CallTypes
<1> QED BY <1>1, <1>3 DEF CallTypes

-----------------------------------------------------------------------------
(* Types                                                                   *)

\* What Report does.
LEMMA ReportTypes ==
    ASSUME RunTypes, NEW s \in Sends, NEW o \in Outcomes, Report(s, o), UNCHANGED <<outgoing, failed>>
    PROVE  /\ RunTypes' /\ stage'[s] = "clearing"
           /\ \A t \in Sends : t # s => stage'[t] = stage[t]
<1>1. Append(reported[s], o) \in Seq(Outcomes)  BY DEF RunTypes
<1> QED BY <1>1 DEF Report, RunTypes, Stages

\* runSendWebPull keeps the types, and a send that began is never new again.
LEMMA SendTypes ==
    ASSUME Inv1, NEW s \in Sends, Send(s) \/ RunSendWebPull(s)
    PROVE  Inv1'
<1> USE DEF runVars, stopVars, pullVars, httpVars, callVars
<1>0. /\ UNCHANGED <<cancel, token, pulled, req, get, call, appDone>>
      /\ ReqTypes' /\ GetTypes' /\ CallTypes'
      BY Frames, TypeParts DEF Inv1, ReqTypes, GetTypes, CallTypes
<1>1. RunTypes /\ StopTypes /\ PullTypes /\ ReqTypes  BY TypeParts DEF Inv1
<1>2. ASSUME RunTypes', StopTypes', PullTypes',
             \A t \in Sends : stage[t] # "new" => stage'[t] # "new"
      PROVE  Inv1'
  <2>1. ReqInv'
        BY <1>0, <1>1, <1>2 DEF Inv1, ReqInv, ReqTypes, Requests
  <2> QED BY <1>0, <1>2, <2>1, TypeParts DEF Inv1
<1>3. ASSUME UNCHANGED <<stopVars, decision, archive, temp>>
      PROVE  StopTypes' /\ PullTypes'
      BY <1>0, <1>1, <1>3 DEF StopTypes, PullTypes
<1>4. CASE Send(s)
      BY <1>1, <1>2, <1>3, <1>4 DEF Send, RunTypes, Stages
<1>5. CASE StartWait(s)
      BY <1>0, <1>1, <1>2, <1>5 DEF StartWait, RunTypes, StopTypes, PullTypes, Stages
<1>6. CASE TakeDecision(s)
  <2>1. UNCHANGED <<outgoing, failed, cancel, httpCancel, token, archive, temp, pulled>>
        BY <1>6 DEF TakeDecision
  <2>2. StopTypes' /\ PullTypes'
        BY <1>1, <1>6, <2>1 DEF TakeDecision, StopTypes, PullTypes
  <2>3. CASE stage' = [stage EXCEPT ![s] = "pulling"] /\ UNCHANGED reported
        BY <1>1, <1>2, <2>1, <2>2, <2>3 DEF RunTypes, Stages
  <2>4. CASE \E o \in Outcomes : Report(s, o)
        BY <1>1, <1>2, <2>1, <2>2, <2>4, ReportTypes DEF RunTypes
  <2> QED BY <1>6, <2>3, <2>4 DEF TakeDecision, Outcomes
<1>7. CASE AcceptTimeout(s) \/ WaitAborted(s) \/ Judge(s)
  <2>1. /\ \E o \in Outcomes : Report(s, o)
        /\ UNCHANGED <<outgoing, failed, stopVars, pullVars>>
        BY <1>7 DEF AcceptTimeout, WaitAborted, Judge, Outcomes
  <2> QED BY <1>1, <1>2, <1>3, <2>1, ReportTypes DEF RunTypes
<1>8. CASE PullEnds(s)
  <2>1. failed' \in [Sends -> BOOLEAN]
    <3>1. CASE UNCHANGED failed  BY <1>1, <3>1 DEF RunTypes
    <3>2. CASE \E b \in BOOLEAN : failed' = [failed EXCEPT ![s] = ~b]
          BY <1>1, <3>2 DEF RunTypes
    <3> QED BY <1>8, <3>1, <3>2 DEF PullEnds, Pulled, PullTimeout, PullAborted
  <2>2. /\ stage' = [stage EXCEPT ![s] = "judging"]
        /\ UNCHANGED <<outgoing, reported, stopVars, pullVars>>
        BY <1>8 DEF PullEnds
  <2> QED BY <1>1, <1>2, <1>3, <2>1, <2>2 DEF RunTypes, Stages
<1>9. CASE ClearUp(s)
      BY <1>0, <1>1, <1>2, <1>9 DEF ClearUp, RemoveArchive, RunTypes, StopTypes, PullTypes, Stages
<1>10. CASE ClearOutgoing(s)
      BY <1>1, <1>2, <1>3, <1>10 DEF ClearOutgoing, RunTypes, Stages
<1> QED BY <1>4, <1>5, <1>6, <1>7, <1>8, <1>9, <1>10 DEF RunSendWebPull

\* RespondPullOffer keeps the types.
LEMMA RespondTypes ==
    ASSUME Inv1, NEW r \in Answers, RespondPullOffer(r)
    PROVE  Inv1'
<1> USE DEF runVars, stopVars, pullVars, httpVars, callVars
<1>0. /\ UNCHANGED <<outgoing, stage, failed, reported, cancel, httpCancel, pulled, get, call,
                     appDone>>
      /\ RunTypes' /\ StopTypes' /\ GetTypes' /\ CallTypes'
      BY Frames, TypeParts DEF Inv1, RunTypes, StopTypes, GetTypes, CallTypes
<1>1. ReqTypes /\ PullTypes /\ RunTypes  BY TypeParts DEF Inv1
<1>2. ASSUME ReqTypes', PullTypes', ReqInv'  PROVE Inv1'
      BY <1>0, <1>2, TypeParts DEF Inv1
\* It goes on, or it is over.
<1>3. ASSUME NEW a \in {"building", "built", "tokened"}, r \in Accepts,
             req[r].at \notin {"idle", "over"}, req' = [req EXCEPT ![r].at = a]
      PROVE  ReqTypes' /\ ReqInv'
  <2>1. /\ ReqTypes'
        /\ req'[r].of = req[r].of /\ req'[r].at = a /\ req'[r].code = req[r].code
        /\ \A q \in Answers : q # r => req'[q] = req[q]
        BY <1>1, <1>3, ReqMoves
  <2> QED BY <1>0, <1>3, <2>1 DEF Inv1, ReqInv
<1>4. ASSUME NEW c \in {200, 403, 409, 500}, req[r].at \notin {"idle", "over"}, Answer(r, c)
      PROVE  ReqTypes' /\ ReqInv'
      BY <1>0, <1>1, <1>4, AnswerIs DEF Inv1, ReqInv
<1>5. ASSUME NEW s \in Sends, Respond(r, s)  PROVE Inv1'
  <2>1. PICK x : /\ x \in {[at |-> "over", of |-> s, code |-> 404],
                           [at |-> "over", of |-> s, code |-> 409],
                           [at |-> "checked", of |-> s, code |-> 0]}
                 /\ req' = [req EXCEPT ![r] = x]
                 /\ stage[s] # "new" /\ UNCHANGED pullVars
        BY <1>5 DEF Respond
  <2>2. x \in Requests /\ x.of = s /\ x.at \in {"over", "checked"} /\ (x.code # 0 => x.at = "over")
        BY <2>1 DEF Requests
  <2>3. /\ ReqTypes' /\ req'[r] = x
        /\ \A q \in Answers : q # r => req'[q] = req[q]
        BY <1>1, <2>1, <2>2, ReqBecomes
  <2>4. ReqInv'  BY <1>0, <2>1, <2>2, <2>3, WebPullConstants DEF Inv1, ReqInv
  <2>5. PullTypes'  BY <1>1, <2>1 DEF PullTypes
  <2> QED BY <1>2, <2>3, <2>4, <2>5
<1>6. CASE RespondDecline(r)
  <2>1. req[r].at = "checked" /\ \E c \in {403, 409} : Answer(r, c)
        BY <1>6 DEF RespondDecline
  <2>2. ReqTypes' /\ ReqInv'  BY <1>4, <2>1
  <2>3. PullTypes'  BY <1>1, <1>6 DEF RespondDecline, Offer, PullTypes
  <2> QED BY <1>2, <2>2, <2>3
<1>7. CASE BuildArchive(r)
      BY <1>1, <1>2, <1>3, <1>7 DEF BuildArchive, PullTypes
<1>8. CASE ArchiveReady(r)
  <2>1. r \in Accepts  BY <1>8 DEF ArchiveReady, Inv1, ReqInv
  <2>2. PullTypes'  BY <1>1, <1>8, <2>1 DEF ArchiveReady, PullTypes
  <2>3. /\ req[r].at = "building"
        /\ Answer(r, 500) \/ req' = [req EXCEPT ![r].at = "built"]
        BY <1>8 DEF ArchiveReady
  <2>4. ReqTypes' /\ ReqInv'  BY <1>3, <1>4, <2>1, <2>3
  <2> QED BY <1>2, <2>2, <2>4
<1>9. CASE SetToken(r)
  <2>1. r \in Accepts  BY <1>9 DEF SetToken, Inv1, ReqInv
  <2>2. PullTypes'  BY <1>1, <1>9, <2>1 DEF SetToken, PullTypes
  <2> QED BY <1>2, <1>3, <1>9, <2>1, <2>2 DEF SetToken
<1>10. CASE HandOver(r)
  <2>1. ReqTypes' /\ ReqInv'  BY <1>4, <1>10 DEF HandOver
  <2>2. PullTypes'  BY <1>0, <1>1, <1>10 DEF HandOver, Offer, RemoveArchive, PullTypes
  <2> QED BY <1>2, <2>1, <2>2
<1> QED BY <1>5, <1>6, <1>7, <1>8, <1>9, <1>10 DEF RespondPullOffer

\* The downloads keep the types.
LEMMA DownloadTypes ==
    ASSUME Inv1, NEW g \in Gets, Download(g)
    PROVE  Inv1'
<1> USE DEF runVars, stopVars, pullVars, httpVars, callVars
<1>0. /\ UNCHANGED <<outgoing, stage, failed, reported, cancel, httpCancel, decision, token,
                     archive, temp, req, call, appDone>>
      /\ RunTypes' /\ StopTypes' /\ ReqTypes' /\ CallTypes' /\ ReqInv'
      BY Frames, TypeParts DEF Inv1, RunTypes, StopTypes, ReqTypes, CallTypes, ReqInv
<1>1. GetTypes /\ PullTypes /\ ReqTypes  BY TypeParts DEF Inv1
<1>2. \E x \in Downloads : get' = [get EXCEPT ![g] = x]
  <2>1. ASSUME NEW r \in Accepts, GetOpen(g, r)  PROVE <1>2
    <3>1. r \in Answers  BY DEF Answers
    <3>2. req[r].of \in Sends
          BY <1>1, <2>1, <3>1 DEF GetOpen, Inv1, ReqInv, ReqTypes, Requests
    <3>3. archive[req[r].of] \in Accepts \cup {None}  BY <1>1, <3>2 DEF PullTypes
    <3> DEFINE a == IF \/ outgoing # req[r].of \/ token[req[r].of] # r \/ cancel[req[r].of]
                       \/ req[r].of \in Archive /\ archive[req[r].of] \notin temp
                    THEN "over" ELSE "copying"
               x == [at |-> a, of |-> req[r].of, path |-> archive[req[r].of]]
    <3>4. a \in {"over", "copying"}  OBVIOUS
    <3>5. get' = [get EXCEPT ![g] = x]  BY <2>1 DEF GetOpen
    <3> HIDE DEF a
    <3> QED BY <3>2, <3>3, <3>4, <3>5 DEF Downloads
  <2>2. ASSUME NEW a \in {"counted", "failed", "done"}, get' = [get EXCEPT ![g].at = a]
        PROVE  <1>2
    <3>1. [get[g] EXCEPT !.at = a] \in Downloads  BY <1>1 DEF GetTypes, Downloads
    <3>2. get' = [get EXCEPT ![g] = [get[g] EXCEPT !.at = a]]  BY <2>2
    <3> QED BY <3>1, <3>2
  <2> QED BY <2>1, <2>2 DEF Download, GetDone, MarkPullFileDone
<1>3. GetTypes'  BY <1>1, <1>2 DEF GetTypes
<1>4. pulled' = pulled \/ \E s : pulled' = [pulled EXCEPT ![s] = TRUE]
      BY DEF Download, GetOpen, GetDone, MarkPullFileDone
<1>5. PullTypes'  BY <1>0, <1>1, <1>4 DEF PullTypes
<1> QED BY <1>0, <1>3, <1>5, TypeParts DEF Inv1

\* CancelOutgoing keeps the types.
LEMMA CancelTypes ==
    ASSUME Inv1, NEW k \in Callers, CancelOutgoing(k)
    PROVE  Inv1'
<1> USE DEF runVars, stopVars, pullVars, httpVars, callVars
<1>0. /\ UNCHANGED <<outgoing, stage, failed, reported, token, pulled, req, get, appDone>>
      /\ RunTypes' /\ ReqTypes' /\ GetTypes' /\ ReqInv'
      BY Frames, TypeParts DEF Inv1, RunTypes, ReqTypes, GetTypes, ReqInv
<1>1. CallTypes /\ StopTypes /\ PullTypes /\ RunTypes  BY TypeParts DEF Inv1
<1>2. CASE Cancel(k)
  <2> DEFINE x == [at |-> IF outgoing = None THEN "over" ELSE "found", of |-> outgoing]
  <2>1. x \in Cancels /\ (x.at \notin {"idle", "over"} => x.of \in Sends)
        BY <1>1 DEF RunTypes, Cancels
  <2>2. call' = [call EXCEPT ![k] = x] /\ UNCHANGED <<stopVars, pullVars>>
        BY <1>2 DEF Cancel
  <2> HIDE DEF x
  <2>3. CallTypes'  BY <1>0, <1>1, <2>1, <2>2 DEF CallTypes
  <2>4. StopTypes' /\ PullTypes'  BY <1>1, <2>2 DEF StopTypes, PullTypes
  <2> QED BY <1>0, <2>3, <2>4, TypeParts DEF Inv1
<1>3. CASE SetCancel(k) \/ TurnDown(k) \/ DropArchive(k) \/ AbortHTTP(k)
  <2>1. CallTypes'
        BY <1>0, <1>1, <1>3, CallMoves DEF SetCancel, TurnDown, DropArchive, AbortHTTP
  <2>2. StopTypes'
        BY <1>1, <1>3 DEF SetCancel, TurnDown, DropArchive, AbortHTTP, StopTypes
  <2>3. PullTypes'
        BY <1>0, <1>1, <1>3 DEF SetCancel, TurnDown, DropArchive, AbortHTTP, Offer,
                                RemoveArchive, PullTypes
  <2> QED BY <1>0, <2>1, <2>2, <2>3, TypeParts DEF Inv1
<1> QED BY <1>2, <1>3 DEF CancelOutgoing

\* Every step keeps the types.
LEMMA NextTypes == Inv1 /\ [Next]_vars => Inv1'
<1> SUFFICES ASSUME Inv1, [Next]_vars PROVE Inv1'  OBVIOUS
<1> USE DEF runVars, stopVars, pullVars, httpVars, callVars
<1>1. CASE RunCancel
      BY <1>1 DEF RunCancel, Inv1, TypeOK, ReqInv
<1>2. CASE UNCHANGED vars
      BY <1>2 DEF vars, Inv1, TypeOK, ReqInv
<1> QED BY <1>1, <1>2, SendTypes, RespondTypes, DownloadTypes, CancelTypes DEF Next

\* Initially everything is typed.
LEMMA InitTypes == Init => Inv1
<1>1. Init => RunTypes /\ StopTypes /\ PullTypes
      BY DEF Init, RunTypes, StopTypes, PullTypes, Stages
<1>2. Init => ReqTypes /\ GetTypes /\ CallTypes
  <2>1. /\ [at |-> "idle", of |-> None, code |-> 0] \in Requests
        /\ [at |-> "idle", of |-> None, path |-> None] \in Downloads
        /\ [at |-> "idle", of |-> None] \in Cancels
        BY DEF Requests, Downloads, Cancels
  <2>2. Init => ReqTypes  BY <2>1 DEF Init, ReqTypes
  <2>3. Init => GetTypes  BY <2>1 DEF Init, GetTypes
  <2>4. Init => CallTypes
    <3> SUFFICES ASSUME Init PROVE CallTypes  OBVIOUS
    <3>1. call \in [Callers -> Cancels] /\ appDone \in BOOLEAN  BY <2>1 DEF Init
    <3>2. \A k \in Callers : call[k].at = "idle"  BY DEF Init
    <3> QED BY <3>1, <3>2 DEF CallTypes
  <2> QED BY <2>2, <2>3, <2>4
<1> QED BY <1>1, <1>2, TypeParts DEF Init, Inv1, ReqInv

\* For any sends, answers, downloads and cancels the session, its channel, token and
\* archive, and the requests are typed, and a cancel that goes on has a session.
THEOREM WebPullTypeCorrect == Spec => []TypeOK
<1>1. Inv1 => TypeOK  BY DEF Inv1
<1> QED BY <1>1, InitTypes, NextTypes, PTL DEF Spec

-----------------------------------------------------------------------------
(* What an outcome means                                                   *)

Ended == {"clearing", "removed", "over"}

\* A send reports once, when its session ends.
ReportInv == \A s \in Sends : stage[s] \notin Ended => reported[s] = <<>>

\* A cancel sets the flag before it does anything else.
CancelInv ==
    /\ \A k \in Callers : call[k].at \in {"flagged", "turned", "dropped"} => cancel[call[k].of]
    /\ \A s \in Sends : httpCancel[s] = "fired" => cancel[s]

\* The browser declined s.
SaidNo(s) == \E r \in Declines : req[r].of = s /\ req[r].code = 403

\* The false in the channel is the browser's, or the flag tells that it is not.
DeclineInv == \A s \in Sends : decision[s] = "no" => cancel[s] \/ SaidNo(s)

\* A pull that is over without a cancel or an error was a whole download.
PullInv ==
    \A s \in Sends :
        /\ pulled[s] => SentAll(s)
        /\ stage[s] = "judging" => cancel[s] \/ failed[s] \/ appDone \/ SentAll(s)

Inv2 == Inv1 /\ ReportInv /\ CancelInv
Inv3 == /\ Inv2 /\ DeclineInv /\ DeclinedByBrowser
        /\ PullInv /\ CompletedPulled

\* What a send reports, and that the others report nothing then.
LEMMA ReportIs ==
    ASSUME RunTypes, ReportInv, NEW s \in Sends, stage[s] \notin Ended,
           NEW o \in Outcomes, Report(s, o)
    PROVE  /\ reported'[s] = <<o>> /\ stage'[s] = "clearing"
           /\ \A t \in Sends : t # s => reported'[t] = reported[t] /\ stage'[t] = stage[t]
<1>1. Append(<<>>, o) = <<o>>  OBVIOUS
<1>2. reported[s] = <<>>  BY DEF ReportInv
<1> QED BY <1>1, <1>2 DEF Report, RunTypes

\* runSendWebPull either ends with a report, or reports nothing.
LEMMA RunStep ==
    ASSUME Inv2, NEW s \in Sends, Send(s) \/ RunSendWebPull(s)
    PROVE  /\ \A t \in Sends : t # s => reported'[t] = reported[t] /\ stage'[t] = stage[t]
           /\ \/ reported'[s] = reported[s] /\ stage[s] \notin {"waiting", "judging"}
                 /\ (stage[s] \in Ended => stage'[s] \in Ended)
              \/ reported'[s] = reported[s] /\ TakeDecision(s)
                 /\ stage[s] = "waiting" /\ stage'[s] = "pulling"
              \/ /\ stage'[s] = "clearing" /\ stage[s] \in {"waiting", "judging"}
                 /\ \E o \in Outcomes : Report(s, o) /\ reported'[s] = <<o>>
<1>1. RunTypes  BY TypeParts DEF Inv2, Inv1
<1>2. ASSUME NEW o \in Outcomes, stage[s] \in {"waiting", "judging"}, Report(s, o)
      PROVE  /\ \A t \in Sends : t # s => reported'[t] = reported[t] /\ stage'[t] = stage[t]
             /\ stage'[s] = "clearing" /\ reported'[s] = <<o>>
      BY <1>1, <1>2, ReportIs DEF Inv2, Ended
<1>3. CASE \E o \in Outcomes : Report(s, o) /\ stage[s] \in {"waiting", "judging"}
      BY <1>2, <1>3
<1>4. CASE TakeDecision(s) /\ stage' = [stage EXCEPT ![s] = "pulling"] /\ UNCHANGED reported
      BY <1>1, <1>4 DEF RunTypes, TakeDecision
<1>5. CASE Send(s) \/ StartWait(s) \/ PullEnds(s) \/ ClearUp(s) \/ ClearOutgoing(s)
      BY <1>1, <1>5 DEF Send, StartWait, PullEnds, ClearUp, ClearOutgoing, runVars, RunTypes, Ended
<1>6. CASE TakeDecision(s)
      BY <1>3, <1>4, <1>6 DEF TakeDecision, Outcomes
<1>7. CASE AcceptTimeout(s) \/ WaitAborted(s) \/ Judge(s)
      BY <1>3, <1>7 DEF AcceptTimeout, WaitAborted, Judge, Outcomes
<1> QED BY <1>5, <1>6, <1>7 DEF RunSendWebPull

\* Reports and cancels keep their order.
LEMMA NextReports == Inv2 /\ [Next]_vars => Inv2'
<1> SUFFICES ASSUME Inv2, [Next]_vars PROVE Inv2'  OBVIOUS
<1> USE DEF runVars, stopVars, pullVars, httpVars, callVars
<1>0. Inv1' /\ RunTypes /\ StopTypes /\ CallTypes
      BY NextTypes, TypeParts DEF Inv2, Inv1
<1>1. ASSUME NEW s \in Sends, Send(s) \/ RunSendWebPull(s)  PROVE Inv2'
  <2>1. ReportInv'  BY <1>0, <1>1, RunStep DEF Inv2, ReportInv, Ended
  <2>2. UNCHANGED <<cancel, call>>  BY <1>1, Frames
  <2>3. httpCancel' = httpCancel \/ httpCancel' = [httpCancel EXCEPT ![s] = "set"]
        BY <1>1 DEF Send, RunSendWebPull, StartWait, TakeDecision, AcceptTimeout, WaitAborted,
                    PullEnds, Judge, ClearUp, ClearOutgoing
  <2>4. CancelInv'  BY <1>0, <2>2, <2>3 DEF Inv2, CancelInv, StopTypes
  <2> QED BY <1>0, <2>1, <2>4 DEF Inv2
<1>2. ASSUME UNCHANGED <<stage, reported, stopVars, call>>  PROVE Inv2'
      BY <1>0, <1>2 DEF Inv2, ReportInv, CancelInv
<1>3. ASSUME NEW k \in Callers, CancelOutgoing(k)  PROVE Inv2'
  <2>1. ReportInv'  BY <1>3, Frames DEF Inv2, ReportInv
  <2>2. CASE Cancel(k)
    <3> DEFINE x == [at |-> IF outgoing = None THEN "over" ELSE "found", of |-> outgoing]
    <3>1. call' = [call EXCEPT ![k] = x] /\ UNCHANGED stopVars  BY <2>2 DEF Cancel
    <3>2. x.at \notin {"flagged", "turned", "dropped"}  OBVIOUS
    <3> HIDE DEF x
    <3>3. CancelInv'  BY <1>0, <3>1, <3>2 DEF Inv2, CancelInv, CallTypes
    <3> QED BY <1>0, <2>1, <3>3 DEF Inv2
  <2>3. CASE SetCancel(k)
    <3>1. /\ call'[k].of = call[k].of /\ call[k].of \in Sends
          /\ \A j \in Callers : j # k => call'[j] = call[j]
          BY <1>0, <2>3, CallMoves DEF SetCancel, CallTypes
    <3>2. CancelInv'
          BY <1>0, <2>3, <3>1 DEF SetCancel, Inv2, CancelInv, CallTypes, Cancels, StopTypes
    <3> QED BY <1>0, <2>1, <3>2 DEF Inv2
  <2>4. CASE TurnDown(k) \/ DropArchive(k)
    <3>1. /\ call'[k].of = call[k].of
          /\ \A j \in Callers : j # k => call'[j] = call[j]
          BY <1>0, <2>4, CallMoves DEF TurnDown, DropArchive
    <3>2. CancelInv'
          BY <2>4, <3>1 DEF TurnDown, DropArchive, Inv2, CancelInv
    <3> QED BY <1>0, <2>1, <3>2 DEF Inv2
  <2>5. CASE AbortHTTP(k)
    <3>1. /\ call'[k].at = "over"
          /\ \A j \in Callers : j # k => call'[j] = call[j]
          BY <1>0, <2>5, CallMoves DEF AbortHTTP
    <3>2. CancelInv'
          BY <1>0, <2>5, <3>1 DEF AbortHTTP, Inv2, CancelInv, StopTypes
    <3> QED BY <1>0, <2>1, <3>2 DEF Inv2
  <2> QED BY <1>3, <2>2, <2>3, <2>4, <2>5 DEF CancelOutgoing
<1>4. CASE RunCancel \/ UNCHANGED vars  BY <1>2, <1>4 DEF RunCancel, vars
<1> QED BY <1>1, <1>2, <1>3, <1>4, Frames DEF Next

\* A cancel stays, and so do a 403 and a download that was counted.
LEMMA Stays ==
    ASSUME Inv2, Next
    PROVE  /\ \A s \in Sends : cancel[s] => cancel'[s]
           /\ \A s \in Sends : SaidNo(s) => SaidNo(s)'
           /\ \A s \in Sends : SentAll(s) => SentAll(s)'
           /\ appDone => appDone'
<1> USE DEF runVars, stopVars, pullVars, httpVars, callVars
<1>0. StopTypes /\ ReqTypes /\ GetTypes /\ ReqInv  BY TypeParts DEF Inv2, Inv1
<1>1. \A s \in Sends : cancel[s] => cancel'[s]
  <2>1. ASSUME NEW k \in Callers, CancelOutgoing(k)  PROVE <1>1
        BY <1>0, <2>1 DEF CancelOutgoing, Cancel, SetCancel, TurnDown, DropArchive, AbortHTTP,
                          StopTypes
  <2> QED BY <2>1, Frames DEF Next, RunCancel
<1>2. appDone => appDone'  BY Frames DEF Next, RunCancel
<1>3. \A s \in Sends : SaidNo(s) => SaidNo(s)'
  <2>1. ASSUME NEW r \in Answers, req[r].code = 403  PROVE req'[r] = req[r]
    <3>1. req[r].at = "over"  BY <1>0, <2>1 DEF ReqInv
    <3>2. ASSUME NEW q \in Answers, RespondPullOffer(q)  PROVE req'[r] = req[r]
      <4>1. req[q].at # "over"
            BY <3>2 DEF RespondPullOffer, Respond, RespondDecline, BuildArchive, ArchiveReady,
                        SetToken, HandOver
      <4>2. q # r  BY <3>1, <4>1
      <4>3. CASE \E s \in Sends : Respond(q, s)
            BY <1>0, <4>2, <4>3 DEF Respond, ReqTypes
      <4>4. CASE \E c \in {200, 403, 409, 500} : Answer(q, c)
            BY <1>0, <4>2, <4>4, AnswerIs
      <4>5. CASE \E a \in {"building", "built", "tokened"} : req' = [req EXCEPT ![q].at = a]
            BY <1>0, <4>2, <4>5, ReqMoves
      <4> QED BY <3>2, <4>3, <4>4, <4>5
              DEF RespondPullOffer, RespondDecline, BuildArchive, ArchiveReady, SetToken, HandOver
    <3> QED BY <3>2, Frames DEF Next, RunCancel
  <2> QED BY <2>1 DEF SaidNo, Answers
<1>4. \A s \in Sends : SentAll(s) => SentAll(s)'
  <2>1. ASSUME NEW g \in Gets, get[g].at \in {"counted", "done"}
        PROVE  get'[g].of = get[g].of /\ get'[g].at \in {"counted", "done"}
    <3>1. ASSUME NEW h \in Gets, Download(h)  PROVE get'[g].of = get[g].of /\ get'[g].at \in {"counted", "done"}
          BY <1>0, <2>1, <3>1 DEF Download, GetOpen, GetDone, MarkPullFileDone, GetTypes, Downloads
    <3> QED BY <2>1, <3>1, Frames DEF Next, RunCancel
  <2> QED BY <2>1 DEF SentAll
<1> QED BY <1>1, <1>2, <1>3, <1>4

\* What runSendWebPull does with a decision and at the end of a pull.
LEMMA OutcomeStep ==
    ASSUME Inv3, NEW s \in Sends, Send(s) \/ RunSendWebPull(s)
    PROVE  /\ reported'[s] = <<"declined">> => reported[s] = <<"declined">> \/ SaidNo(s)
           /\ s \notin Empty /\ reported'[s] = <<"completed">> =>
                reported[s] = <<"completed">> \/ appDone \/ SentAll(s)
           /\ stage'[s] = "judging" => cancel[s] \/ failed'[s] \/ appDone \/ SentAll(s)
           /\ decision'[s] = "no" => decision[s] = "no"
           /\ \A t \in Sends : t # s => failed'[t] = failed[t] /\ decision'[t] = decision[t]
<1> USE DEF runVars, stopVars, pullVars, httpVars, callVars
<1>0. RunTypes /\ StopTypes /\ PullTypes  BY TypeParts DEF Inv3, Inv2, Inv1
<1>1. ASSUME NEW o \in Outcomes, Report(s, o), stage[s] \in {"waiting", "judging"}
      PROVE  reported'[s] = <<o>> /\ stage'[s] = "clearing"
      BY <1>0, <1>1, ReportIs DEF Inv3, Inv2, Ended
<1>2. CASE Send(s) \/ StartWait(s) \/ ClearUp(s) \/ ClearOutgoing(s)
      BY <1>0, <1>2 DEF Send, StartWait, ClearUp, ClearOutgoing, RunTypes
<1>3. CASE TakeDecision(s)
  <2>1. /\ UNCHANGED failed /\ stage[s] = "waiting"
        /\ decision'[s] = "none" /\ \A t \in Sends : t # s => decision'[t] = decision[t]
        BY <1>0, <1>3 DEF TakeDecision, PullTypes
  <2>2. CASE stage' = [stage EXCEPT ![s] = "pulling"] /\ UNCHANGED reported
        BY <1>0, <2>1, <2>2 DEF RunTypes
  <2>3. CASE Report(s, "canceled")
        BY <1>1, <2>1, <2>3 DEF Outcomes
  <2>4. CASE Report(s, "declined") /\ ~cancel[s] /\ decision[s] = "no"
        BY <1>1, <2>1, <2>4 DEF Outcomes, Inv3, DeclineInv
  <2>5. CASE Report(s, "completed") /\ s \in Empty
        BY <1>1, <2>1, <2>5 DEF Outcomes
  <2> QED BY <1>0, <1>3, <2>2, <2>3, <2>4, <2>5 DEF TakeDecision, PullTypes
<1>4. CASE AcceptTimeout(s)
      BY <1>1, <1>4 DEF AcceptTimeout, Outcomes
<1>5. CASE WaitAborted(s)
      BY <1>1, <1>5 DEF WaitAborted, Outcomes
<1>6. CASE Judge(s)
  <2>1. /\ UNCHANGED <<failed, decision>> /\ stage[s] = "judging"
        /\ \/ Report(s, "canceled")
           \/ Report(s, "failed")
           \/ Report(s, "completed") /\ ~cancel[s] /\ ~failed[s]
        BY <1>6 DEF Judge
  <2> QED BY <1>1, <2>1 DEF Outcomes, Inv3, PullInv
<1>7. CASE PullEnds(s)
  <2>1. /\ UNCHANGED <<reported, decision>>
        /\ \A t \in Sends : t # s => failed'[t] = failed[t]
        BY <1>0, <1>7 DEF PullEnds, Pulled, PullTimeout, PullAborted, RunTypes
  <2>2. CASE Pulled(s)
        BY <2>1, <2>2 DEF Pulled, Inv3, PullInv
  <2>3. CASE PullAborted(s)
        BY <2>1, <2>3 DEF PullAborted, CtxDone, Inv3, Inv2, CancelInv
  <2>4. CASE PullTimeout(s)
    <3>1. failed'[s] \/ SentAll(s)  BY <1>0, <2>4 DEF PullTimeout, RunTypes
    <3> QED BY <2>1, <3>1
  <2> QED BY <1>7, <2>2, <2>3, <2>4 DEF PullEnds
<1> QED BY <1>2, <1>3, <1>4, <1>5, <1>6, <1>7 DEF RunSendWebPull

\* Every step keeps what an outcome means.
LEMMA NextOutcomes == Inv3 /\ [Next]_vars => Inv3'
<1> SUFFICES ASSUME Inv3, [Next]_vars PROVE Inv3'  OBVIOUS
<1> USE DEF runVars, stopVars, pullVars, httpVars, callVars
<1>0. Inv2' /\ PullTypes /\ ReqTypes /\ GetTypes /\ ReqInv /\ CallTypes
      BY NextReports, TypeParts DEF Inv3, Inv2, Inv1
<1>1. CASE UNCHANGED vars
      BY <1>0, <1>1 DEF vars, Inv3, DeclineInv, DeclinedByBrowser, PullInv, CompletedPulled,
                        Reported, SaidNo, SentAll
<1>2. CASE Next
  <2>0. /\ \A s \in Sends : cancel[s] => cancel'[s]
        /\ \A s \in Sends : SaidNo(s) => SaidNo(s)'
        /\ \A s \in Sends : SentAll(s) => SentAll(s)'
        /\ appDone => appDone'
        BY <1>2, Stays DEF Inv3
\* Decisions come from the browser or from a cancel.
  <2>1. DeclineInv'
    <3>1. ASSUME NEW s \in Sends, Send(s) \/ RunSendWebPull(s)  PROVE DeclineInv'
          BY <2>0, <3>1, OutcomeStep DEF Inv3, DeclineInv
    <3>2. ASSUME NEW r \in Answers, RespondDecline(r)  PROVE DeclineInv'
      <4>0. \A s \in Sends : s # req[r].of => decision'[s] = decision[s]
            BY <1>0, <3>2 DEF RespondDecline, Offer, PullTypes
      <4>1. CASE decision[req[r].of] = "none"
        <5>1. Answer(r, 403) /\ r \in Declines  BY <3>2, <4>1 DEF RespondDecline
        <5>2. req'[r].of = req[r].of /\ req'[r].code = 403
              BY <1>0, <5>1, AnswerIs
        <5>3. \A s \in Sends : s = req[r].of => SaidNo(s)'  BY <5>1, <5>2 DEF SaidNo
        <5> QED BY <2>0, <4>0, <5>3 DEF Inv3, DeclineInv
      <4>2. CASE decision[req[r].of] # "none"
        <5>1. decision' = decision
              BY <1>0, <3>2, <4>2 DEF RespondDecline, Offer, PullTypes
        <5> QED BY <2>0, <5>1 DEF Inv3, DeclineInv
      <4> QED BY <4>1, <4>2
    <3>3. ASSUME NEW r \in Answers, HandOver(r)  PROVE DeclineInv'
      <4>1. \A s \in Sends : decision'[s] = "no" => decision[s] = "no"
            BY <1>0, <3>3 DEF HandOver, Offer, PullTypes
      <4> QED BY <2>0, <4>1 DEF Inv3, DeclineInv
    <3>4. ASSUME NEW k \in Callers, TurnDown(k)  PROVE DeclineInv'
      <4>1. cancel[call[k].of]  BY <3>4 DEF TurnDown, Inv3, Inv2, CancelInv
      <4>2. \A s \in Sends : s # call[k].of => decision'[s] = decision[s]
            BY <1>0, <3>4 DEF TurnDown, Offer, PullTypes
      <4> QED BY <2>0, <4>1, <4>2 DEF Inv3, DeclineInv
    <3>5. ASSUME UNCHANGED decision  PROVE DeclineInv'
          BY <2>0, <3>5 DEF Inv3, DeclineInv
    <3> QED BY <1>2, <3>1, <3>2, <3>3, <3>4, <3>5, Frames
            DEF Next, RespondPullOffer, Respond, BuildArchive, ArchiveReady, SetToken,
                CancelOutgoing, Cancel, SetCancel, DropArchive, AbortHTTP, RunCancel
\* Only runSendWebPull reports.
  <2>2. DeclinedByBrowser' /\ CompletedPulled'
    <3>1. ASSUME NEW s \in Sends, Send(s) \/ RunSendWebPull(s)
          PROVE  DeclinedByBrowser' /\ CompletedPulled'
      <4>1. \A t \in Sends : t # s => reported'[t] = reported[t]
            BY <3>1, RunStep DEF Inv3
      <4>2. DeclinedByBrowser'
            BY <2>0, <3>1, <4>1, OutcomeStep DEF Inv3, DeclinedByBrowser, Reported, SaidNo
      <4>3. CompletedPulled'
            BY <2>0, <3>1, <4>1, OutcomeStep DEF Inv3, CompletedPulled, Reported
      <4> QED BY <4>2, <4>3
    <3>2. ASSUME UNCHANGED reported  PROVE DeclinedByBrowser' /\ CompletedPulled'
          BY <2>0, <3>2 DEF Inv3, DeclinedByBrowser, CompletedPulled, Reported, SaidNo
    <3> QED BY <1>2, <3>1, <3>2, Frames DEF Next, RunCancel
  <2>3. PullInv'
    <3>1. ASSUME NEW s \in Sends, Send(s) \/ RunSendWebPull(s)  PROVE PullInv'
      <4>1. UNCHANGED pulled /\ \A t \in Sends : t # s => stage'[t] = stage[t]
            BY <3>1, Frames, RunStep DEF Inv3
      <4> QED BY <2>0, <3>1, <4>1, OutcomeStep DEF Inv3, PullInv
    <3>2. ASSUME NEW g \in Gets, MarkPullFileDone(g)  PROVE PullInv'
      <4>1. SentAll(get[g].of)  BY <3>2 DEF MarkPullFileDone, SentAll
      <4>2. /\ UNCHANGED <<stage, failed, cancel, appDone>>
            /\ \A s \in Sends : s # get[g].of => pulled'[s] = pulled[s]
            BY <1>0, <3>2 DEF MarkPullFileDone, PullTypes
      <4> QED BY <2>0, <4>1, <4>2 DEF Inv3, PullInv
    <3>3. ASSUME UNCHANGED <<stage, failed, pulled>>  PROVE PullInv'
          BY <2>0, <3>3 DEF Inv3, PullInv
    <3> QED BY <1>2, <3>1, <3>2, <3>3, Frames DEF Next, Download, GetOpen, GetDone, RunCancel
  <2> QED BY <1>0, <2>1, <2>2, <2>3 DEF Inv3
<1> QED BY <1>1, <1>2

\* The invariant holds always.
LEMMA Inv3Always == Spec => []Inv3
<1>1. Init => Inv3
  <2>1. Init => Inv1  BY InitTypes
  <2>2. Init => ReportInv /\ CancelInv /\ DeclineInv /\ PullInv
        BY DEF Init, ReportInv, CancelInv, DeclineInv, PullInv
  <2>3. Init => DeclinedByBrowser /\ CompletedPulled
        BY DEF Init, DeclinedByBrowser, CompletedPulled, Reported
  <2> QED BY <2>1, <2>2, <2>3 DEF Inv3, Inv2
<1> QED BY <1>1, NextOutcomes, PTL DEF Spec

\* "declined" is what the browser said: the false that CancelOutgoing pushes into the
\* same channel is never taken for it, since the flag was set before and is read after.
THEOREM PullDeclinedByBrowser == Spec => []DeclinedByBrowser
<1>1. Inv3 => DeclinedByBrowser  BY DEF Inv3
<1> QED BY <1>1, Inv3Always, PTL

\* "completed" needs a whole download, unless the app is closing, although a closed
\* pullWait, the time budget, the context and the flag are read one after the other.
THEOREM PullCompletedPulled == Spec => []CompletedPulled
<1>1. Inv3 => CompletedPulled  BY DEF Inv3
<1> QED BY <1>1, Inv3Always, PTL

\* The cancel of s was heard while its outcome was still to be judged.
Heard(s) ==
    /\ cancel[s]
    /\ \/ stage[s] \in {"pulling", "judging"} /\ reported[s] = <<>>
       \/ stage[s] \in Ended /\ reported[s] = <<"canceled">>

\* What was heard is not forgotten: the outcome is judged by the flag.
LEMMA HeardStays ==
    ASSUME NEW s \in Sends
    PROVE  Inv3 /\ Heard(s) /\ [Next]_vars => Heard(s)'
<1> SUFFICES ASSUME Inv3, Heard(s), [Next]_vars PROVE Heard(s)'  OBVIOUS
<1> USE DEF runVars, stopVars, pullVars, httpVars, callVars
<1>0. RunTypes  BY TypeParts DEF Inv3, Inv2, Inv1
<1>1. CASE UNCHANGED vars  BY <1>1 DEF vars, Heard
<1>2. CASE Next
  <2>1. cancel'[s]  BY <1>2, Stays DEF Inv3, Heard
  <2>2. ASSUME NEW t \in Sends, t # s, Send(t) \/ RunSendWebPull(t)  PROVE Heard(s)'
        BY <2>1, <2>2, RunStep DEF Inv3, Heard
  <2>3. CASE Judge(s)
    <3>1. Report(s, "canceled") /\ stage[s] = "judging"  BY <2>3 DEF Judge, Heard
    <3>2. reported'[s] = <<"canceled">> /\ stage'[s] = "clearing"
          BY <1>0, <3>1, ReportIs DEF Inv3, Inv2, Ended, Outcomes
    <3> QED BY <2>1, <3>2 DEF Heard, Ended
  <2>4. CASE (Send(s) \/ RunSendWebPull(s)) /\ ~Judge(s)
        BY <1>0, <2>1, <2>4 DEF Heard, Ended, RunSendWebPull, Send, StartWait, TakeDecision,
             AcceptTimeout, WaitAborted, PullEnds, ClearUp, ClearOutgoing, RunTypes
  <2>5. ASSUME UNCHANGED <<stage, reported>>  PROVE Heard(s)'
        BY <2>1, <2>5 DEF Heard
  <2> QED BY <1>2, <2>2, <2>3, <2>4, <2>5, Frames DEF Next, RunCancel
<1> QED BY <1>1, <1>2

\* A cancel that is flagged before the outcome is judged is never reported as another
\* end, whatever the download, the timers and the shutdown do.
THEOREM PullCancelHeard == Spec => CancelHeard
<1> SUFFICES ASSUME NEW s \in Sends
             PROVE  Spec => [](cancel[s] /\ stage[s] \in {"pulling", "judging"}
                               => [](reported[s] \in {<<>>, <<"canceled">>}))
    BY DEF CancelHeard
<1>1. Inv3 /\ cancel[s] /\ stage[s] \in {"pulling", "judging"} => Heard(s)
      BY DEF Inv3, Inv2, ReportInv, Heard, Ended
<1>2. Heard(s) => reported[s] \in {<<>>, <<"canceled">>}  BY DEF Heard
<1> QED BY <1>1, <1>2, Inv3Always, HeardStays, PTL DEF Spec

-----------------------------------------------------------------------------
(* The archive and the token                                               *)

\* An archive that a session names was built for it and is on disk, and so is the one
\* that is being built: no two sessions name the same, and whoever removes an archive
\* takes its name out of the session.
ArchiveInv ==
    /\ \A s \in Sends : archive[s] # None =>
          /\ archive[s] \in temp /\ req[archive[s]].of = s
          /\ req[archive[s]].at \in {"built", "tokened", "over"}
    /\ \A r \in Accepts : req[r].at = "building" => r \in temp

\* runSendWebPull has not cleared up and nobody canceled.
InProgress(s) == ~cancel[s] /\ stage[s] \in {"starting", "waiting", "pulling", "judging"}

\* The answer of r was yes, or will be.
Tokened(r) == req[r].at = "tokened" \/ req[r].code = 200

\* A request that nobody else comes between has the token and the archive.
AloneInv ==
    \A r \in Accepts : Alone(r) =>
        /\ Tokened(r) => token[req[r].of] = r
        /\ /\ Tokened(r) \/ req[r].at = "built"
           /\ req[r].of \in Archive /\ InProgress(req[r].of)
           => archive[req[r].of] # None

Inv4 == Inv2 /\ ArchiveInv /\ AloneInv

\* No request begins to build, and one that has built has built.
BuiltStays ==
    \A q \in Accepts :
        /\ req[q].at \in {"built", "tokened", "over"} =>
              req'[q].of = req[q].of /\ req'[q].at \in {"built", "tokened", "over"}
        /\ req'[q].at = "building" => req[q].at = "building"

\* Taking the archive out of a session and off the disk keeps ArchiveInv.
LEMMA RemoveKeeps ==
    ASSUME Inv4, NEW s \in Sends, RemoveArchive(s), BuiltStays
    PROVE  ArchiveInv' /\ \A t \in Sends : t # s => archive'[t] = archive[t]
<1>1. PullTypes  BY TypeParts DEF Inv4, Inv2, Inv1
<1>2. /\ \A t \in Sends : archive'[t] = IF t = s THEN None ELSE archive[t]
      /\ temp' = temp \ {archive[s]}
      BY <1>1 DEF RemoveArchive, PullTypes
<1>3. \A t \in Sends : t # s /\ archive[t] # None => archive[t] # archive[s]
      BY <1>1 DEF Inv4, ArchiveInv
<1>4. \A r \in Accepts : req[r].at = "building" => r # archive[s]
      BY WebPullConstants DEF Inv4, ArchiveInv
<1>5. \A t \in Sends : archive'[t] # None => archive'[t] \in Accepts  BY <1>1, <1>2 DEF PullTypes
<1>6. ASSUME NEW t \in Sends, archive'[t] # None
      PROVE  /\ archive'[t] \in temp' /\ req'[archive'[t]].of = t
             /\ req'[archive'[t]].at \in {"built", "tokened", "over"}
  <2>1. t # s /\ archive'[t] = archive[t] /\ archive[t] \in Accepts
        BY <1>2, <1>5, <1>6
  <2>2. /\ archive[t] \in temp /\ req[archive[t]].of = t
        /\ req[archive[t]].at \in {"built", "tokened", "over"}
        BY <1>6, <2>1 DEF Inv4, ArchiveInv
  <2> QED BY <1>2, <1>3, <1>6, <2>1, <2>2 DEF BuiltStays
<1>7. ASSUME NEW r \in Accepts, req'[r].at = "building"  PROVE r \in temp'
      BY <1>2, <1>4, <1>7 DEF Inv4, ArchiveInv, BuiltStays
<1> QED BY <1>2, <1>6, <1>7 DEF ArchiveInv

\* A step that changes no archive keeps ArchiveInv.
LEMMA BuiltKeeps ==
    ASSUME Inv4, UNCHANGED <<archive, temp>>, BuiltStays
    PROVE  ArchiveInv'
<1>1. \A s \in Sends : archive[s] # None => archive[s] \in Accepts
      BY TypeParts DEF Inv4, Inv2, Inv1, PullTypes
<1> QED BY <1>1 DEF Inv4, ArchiveInv, BuiltStays

\* Of a request that has the token and the archive of its session, or will have them.
Provided(r) ==
    /\ Tokened(r) => token[req[r].of] = r
    /\ /\ Tokened(r) \/ req[r].at = "built"
       /\ req[r].of \in Archive /\ InProgress(req[r].of)
       => archive[req[r].of] # None

\* A request that does not move stays provided for, if nobody changed the token of its
\* session, or its archive while that is in progress.
LEMMA ProvidedStays ==
    ASSUME Inv4, NEW r \in Answers, Provided(r), req'[r] = req[r],
           req[r].of # None => /\ token'[req[r].of] = token[req[r].of]
                               /\ InProgress(req[r].of)' =>
                                     /\ InProgress(req[r].of)
                                     /\ archive'[req[r].of] = archive[req[r].of]
    PROVE  Provided(r)'
<1>1. Tokened(r) \/ req[r].at = "built" => req[r].of # None
      BY DEF Tokened, Inv4, Inv2, Inv1, ReqInv
<1> QED BY <1>1 DEF Provided, Tokened, InProgress

\* runSendWebPull keeps archives and tokens, until it clears up.
LEMMA SendProvides ==
    ASSUME Inv4, Inv2', NEW s \in Sends, Send(s) \/ RunSendWebPull(s)
    PROVE  Inv4'
<1> USE DEF runVars, stopVars, pullVars, httpVars, callVars
<1>0. /\ UNCHANGED <<cancel, token, req>> /\ RunTypes /\ ReqTypes /\ PullTypes
      /\ BuiltStays
      BY Frames, TypeParts DEF Inv4, Inv2, Inv1, BuiltStays
<1>1. \/ UNCHANGED <<archive, temp>> \/ ClearUp(s)
      BY DEF Send, RunSendWebPull, StartWait, TakeDecision, AcceptTimeout, WaitAborted,
             PullEnds, Judge, ClearOutgoing
<1>2. ArchiveInv'  BY <1>0, <1>1, BuiltKeeps, RemoveKeeps DEF ClearUp
<1>3. ASSUME NEW t \in Sends, stage[t] # "new", InProgress(t)'
      PROVE  InProgress(t) /\ archive'[t] = archive[t]
  <2>1. CASE t # s
    <3>1. stage'[t] = stage[t]  BY <2>1, RunStep DEF Inv4
    <3>2. archive'[t] = archive[t]  BY <1>1, <2>1, RemoveKeeps, <1>0 DEF ClearUp
    <3> QED BY <1>0, <1>3, <3>1, <3>2 DEF InProgress
  <2>2. CASE t = s
    <3>1. stage[s] \in {"starting", "waiting", "pulling", "judging"}
          BY <1>0, <1>3, <2>2 DEF InProgress, Send, RunSendWebPull, StartWait, TakeDecision,
               AcceptTimeout, WaitAborted, PullEnds, Judge, ClearUp, ClearOutgoing, RunTypes
    <3>2. ~ClearUp(s)  BY <3>1 DEF ClearUp
    <3> QED BY <1>0, <1>1, <1>3, <2>2, <3>1, <3>2 DEF InProgress
  <2> QED BY <2>1, <2>2
<1>4. AloneInv'
  <2> SUFFICES ASSUME NEW r \in Accepts, Alone(r)'  PROVE Provided(r)'
      BY DEF AloneInv, Provided
  <2>1. r \in Answers /\ Provided(r)
        BY <1>0 DEF Inv4, AloneInv, Provided, Alone, Answers
  <2>2. req[r].of # None => req[r].of \in Sends /\ stage[req[r].of] # "new"
        BY <1>0, <2>1 DEF ReqTypes, Requests, Inv4, Inv2, Inv1, ReqInv
  <2> QED BY <1>0, <1>3, <2>1, <2>2, ProvidedStays
<1> QED BY <1>2, <1>4 DEF Inv4

\* A request that is alone after a step of another was alone before.
LEMMA AloneBefore ==
    ASSUME Inv4, NEW r \in Accepts, Alone(r)', req'[r] = req[r],
           \A p \in Answers : req[p].of # None => req'[p].of = req[p].of
    PROVE  Provided(r) /\ (req[r].of # None => Alone(r))
<1>1. r \in Answers /\ Accepts \subseteq Answers  BY DEF Answers
<1>2. CASE req[r].of = None
  <2>1. req[r].at = "idle" /\ ~Tokened(r)
        BY <1>1, <1>2 DEF Inv4, Inv2, Inv1, ReqInv, Tokened
  <2> QED BY <1>2, <2>1 DEF Provided
<1>3. CASE req[r].of # None
  <2>1. Alone(r)  BY <1>1, <1>3 DEF Alone
  <2> QED BY <1>3, <2>1 DEF Inv4, AloneInv, Provided
<1> QED BY <1>2, <1>3

\* RespondPullOffer provides for the request that goes alone.
LEMMA RespondProvides ==
    ASSUME Inv4, Inv2', NEW q \in Answers, RespondPullOffer(q)
    PROVE  Inv4'
<1> USE DEF runVars, stopVars, pullVars, httpVars, callVars
<1> DEFINE s == req[q].of
<1>0. /\ UNCHANGED <<stage, cancel>> /\ ReqTypes /\ PullTypes /\ ReqInv
      /\ Accepts \subseteq Answers /\ Accepts \cap Declines = {}
      BY Frames, TypeParts, WebPullConstants DEF Inv4, Inv2, Inv1, Answers
<1>1. ASSUME ArchiveInv',
             req[q].of # None => req'[q].of = req[q].of,
             \A p \in Answers : p # q => req'[p] = req[p],
             \A t \in Sends : t # s => token'[t] = token[t] /\ archive'[t] = archive[t],
             q \in Accepts \/ UNCHANGED <<token, archive>>,
             q \in Accepts /\ (Provided(q) \/ ~Alone(q)) => Provided(q)' \/ ~Alone(q)'
      PROVE  Inv4'
  <2> SUFFICES ASSUME NEW r \in Accepts, Alone(r)'  PROVE Provided(r)'
      BY <1>1 DEF Inv4, AloneInv, Provided
  <2>1. CASE r = q
    <3>1. Provided(q) \/ ~Alone(q)  BY <2>1 DEF Inv4, AloneInv, Provided
    <3> QED BY <1>1, <2>1, <3>1
  <2>2. CASE r # q
    <3>1. req'[r] = req[r] /\ \A p \in Answers : req[p].of # None => req'[p].of = req[p].of
          BY <1>0, <1>1, <2>2
    <3>2. Provided(r) /\ (req[r].of # None => Alone(r))  BY <3>1, AloneBefore
    <3>3. ASSUME req[r].of # None
          PROVE  token'[req[r].of] = token[req[r].of] /\ archive'[req[r].of] = archive[req[r].of]
      <4>1. req[r].of \in Sends  BY <1>0, <3>3 DEF ReqTypes, Requests
      <4>2. q \in Accepts => s # req[r].of  BY <2>2, <3>2, <3>3 DEF Alone
      <4> QED BY <1>1, <4>1, <4>2
    <3>4. InProgress(req[r].of)' => InProgress(req[r].of)
          BY <1>0, <3>1 DEF InProgress
    <3> QED BY <1>0, <3>1, <3>2, <3>3, <3>4, ProvidedStays
  <2> QED BY <2>1, <2>2
\* What it has built stays, when it only goes on or is over.
<1>2. ASSUME NEW c \in {200, 403, 409, 500}, Answer(q, c)
      PROVE  /\ req'[q].of = s /\ req'[q].at = "over" /\ req'[q].code = c
             /\ \A p \in Answers : p # q => req'[p] = req[p]
      BY <1>0, <1>2, AnswerIs
<1>3. ASSUME NEW a \in {"building", "built", "tokened"}, req' = [req EXCEPT ![q].at = a]
      PROVE  /\ req'[q].of = s /\ req'[q].at = a /\ req'[q].code = req[q].code
             /\ \A p \in Answers : p # q => req'[p] = req[p]
      BY <1>0, <1>3, ReqMoves
<1>4. ASSUME NEW t \in Sends, Respond(q, t)  PROVE Inv4'
  <2>1. /\ UNCHANGED <<token, archive, temp>> /\ req[q].at = "idle" /\ req[q].of = None
        /\ \A p \in Answers : p # q => req'[p] = req[p]
        /\ req'[q].at \in {"over", "checked"} /\ req'[q].code \in {0, 404, 409}
        BY <1>0, <1>4 DEF Respond, ReqTypes, ReqInv
  <2>2. BuiltStays  BY <1>0, <2>1 DEF BuiltStays
  <2>3. ArchiveInv'  BY <2>1, <2>2, BuiltKeeps
  <2>4. Provided(q)'  BY <2>1 DEF Provided, Tokened
  <2> QED BY <1>1, <2>1, <2>3, <2>4
<1>5. CASE RespondDecline(q)
  <2>1. /\ UNCHANGED <<token, archive, temp>> /\ q \notin Accepts
        /\ Answer(q, 403) \/ Answer(q, 409)
        BY <1>0, <1>5 DEF RespondDecline
  <2>2. req'[q].of = s /\ \A p \in Answers : p # q => req'[p] = req[p]
        BY <1>2, <2>1
  <2>3. BuiltStays  BY <1>0, <2>1, <2>2 DEF BuiltStays
  <2>4. ArchiveInv'  BY <2>1, <2>3, BuiltKeeps
  <2> QED BY <1>1, <2>1, <2>2, <2>4
<1>6. CASE BuildArchive(q)
  <2>1. /\ temp' = (temp \ {archive[s]}) \cup {q}
        /\ archive' = [archive EXCEPT ![s] = None] /\ UNCHANGED token
        /\ req[q].at = "checked" /\ q \in Accepts
        /\ req' = [req EXCEPT ![q].at = "building"]
        BY <1>6 DEF BuildArchive
  <2>2. /\ req'[q].of = s /\ req'[q].at = "building" /\ req'[q].code = req[q].code
        /\ \A p \in Answers : p # q => req'[p] = req[p]
        BY <1>3, <2>1
  <2>3. s \in Sends /\ req[q].code = 0  BY <1>0, <2>1 DEF ReqTypes, Requests, ReqInv
  <2>4. /\ archive'[s] = None
        /\ \A t \in Sends : t # s => archive'[t] = archive[t]
        /\ \A t \in Sends : archive[t] # None => archive[t] \in Accepts
        BY <1>0, <2>1, <2>3 DEF PullTypes
  <2>5. ArchiveInv'
    <3>1. ASSUME NEW t \in Sends, archive'[t] # None
          PROVE  /\ archive'[t] \in temp' /\ req'[archive'[t]].of = t
                 /\ req'[archive'[t]].at \in {"built", "tokened", "over"}
      <4>1. t # s /\ archive'[t] = archive[t] /\ archive[t] \in Accepts
            BY <2>4, <3>1
      <4>2. /\ archive[t] \in temp /\ req[archive[t]].of = t
            /\ req[archive[t]].at \in {"built", "tokened", "over"}
            BY <3>1, <4>1 DEF Inv4, ArchiveInv
      <4>3. archive[t] # archive[s]
            BY <2>3, <2>4, <3>1, <4>1, <4>2 DEF Inv4, ArchiveInv
      <4>4. archive[t] # q  BY <2>1, <4>2
      <4> QED BY <1>0, <2>1, <2>2, <4>1, <4>2, <4>3, <4>4
    <3>2. ASSUME NEW r \in Accepts, req'[r].at = "building"  PROVE r \in temp'
      <4>1. CASE r = q  BY <2>1, <4>1
      <4>2. CASE r # q
        <5>1. req[r].at = "building" /\ r \in temp
              BY <1>0, <2>2, <3>2, <4>2 DEF Inv4, ArchiveInv
        <5>2. r # archive[s]
              BY <2>3, <5>1, WebPullConstants DEF Inv4, ArchiveInv
        <5> QED BY <2>1, <5>1, <5>2
      <4> QED BY <4>1, <4>2
    <3> QED BY <3>1, <3>2 DEF ArchiveInv
  <2>6. Provided(q)'  BY <2>2, <2>3 DEF Provided, Tokened
  <2> QED BY <1>1, <2>1, <2>2, <2>4, <2>5, <2>6
<1>7. CASE ArchiveReady(q)
  <2>1. req[q].at = "building" /\ UNCHANGED token  BY <1>7 DEF ArchiveReady
  <2>2. q \in Accepts /\ s \in Sends /\ req[q].code = 0 /\ q \in temp
        BY <1>0, <2>1 DEF ReqTypes, Requests, ReqInv, Inv4, ArchiveInv
  <2>3. \A t \in Sends : archive[t] # None => archive[t] \in Accepts /\ archive[t] # q
        BY <1>0, <2>1 DEF PullTypes, Inv4, ArchiveInv
  <2>4. CASE /\ archive' = [archive EXCEPT ![s] = q] /\ UNCHANGED temp
             /\ req' = [req EXCEPT ![q].at = "built"]
    <3>1. /\ req'[q].of = s /\ req'[q].at = "built" /\ req'[q].code = req[q].code
          /\ \A p \in Answers : p # q => req'[p] = req[p]
          BY <1>3, <2>4
    <3>2. archive'[s] = q /\ \A t \in Sends : t # s => archive'[t] = archive[t]
          BY <1>0, <2>2, <2>4 DEF PullTypes
    <3>3. ArchiveInv'
      <4>1. ASSUME NEW t \in Sends, t # s, archive[t] # None
            PROVE  /\ archive[t] \in temp /\ req'[archive[t]].of = t
                   /\ req'[archive[t]].at \in {"built", "tokened", "over"}
            BY <1>0, <2>3, <3>1, <4>1 DEF Inv4, ArchiveInv
      <4>2. \A r \in Accepts : req'[r].at = "building" => r \in temp
            BY <1>0, <3>1 DEF Inv4, ArchiveInv
      <4> QED BY <2>2, <2>4, <3>1, <3>2, <4>1, <4>2 DEF ArchiveInv
    <3>4. Provided(q)'  BY <2>2, <3>1, <3>2, WebPullConstants DEF Provided, Tokened
    <3> QED BY <1>1, <2>1, <2>2, <3>1, <3>2, <3>3, <3>4
  <2>5. CASE temp' = temp \ {q} /\ Answer(q, 500) /\ UNCHANGED archive
    <3>1. /\ req'[q].of = s /\ req'[q].at = "over" /\ req'[q].code = 500
          /\ \A p \in Answers : p # q => req'[p] = req[p]
          BY <1>2, <2>5
    <3>2. ArchiveInv'
      <4>1. ASSUME NEW t \in Sends, archive[t] # None
            PROVE  /\ archive[t] \in temp' /\ req'[archive[t]].of = t
                   /\ req'[archive[t]].at \in {"built", "tokened", "over"}
            BY <1>0, <2>3, <2>5, <3>1, <4>1 DEF Inv4, ArchiveInv
      <4>2. \A r \in Accepts : req'[r].at = "building" => r \in temp'
            BY <1>0, <2>5, <3>1 DEF Inv4, ArchiveInv
      <4> QED BY <2>5, <4>1, <4>2 DEF ArchiveInv
    <3>3. Provided(q)'  BY <3>1 DEF Provided, Tokened
    <3> QED BY <1>1, <2>1, <2>2, <2>5, <3>1, <3>2, <3>3
  <2> QED BY <1>7, <2>4, <2>5 DEF ArchiveReady
<1>8. CASE SetToken(q)
  <2>1. /\ req[q].at = "built" \/ (req[q].at = "checked" /\ q \in Accepts /\ s \notin Archive)
        /\ token' = [token EXCEPT ![s] = q] /\ UNCHANGED <<archive, temp>>
        /\ req' = [req EXCEPT ![q].at = "tokened"]
        BY <1>8 DEF SetToken
  <2>2. /\ req'[q].of = s /\ req'[q].at = "tokened" /\ req'[q].code = req[q].code
        /\ \A p \in Answers : p # q => req'[p] = req[p]
        BY <1>3, <2>1
  <2>3. s \in Sends /\ q \in Accepts  BY <1>0, <2>1 DEF ReqTypes, Requests, ReqInv
  <2>4. token'[s] = q /\ \A t \in Sends : t # s => token'[t] = token[t]
        BY <1>0, <2>1, <2>3 DEF PullTypes
  <2>5. BuiltStays  BY <1>0, <2>2 DEF BuiltStays
  <2>6. ArchiveInv'  BY <2>1, <2>5, BuiltKeeps
  <2>7. Provided(q) => Provided(q)'
        BY <1>0, <2>1, <2>2, <2>4 DEF Provided, Tokened, InProgress
  <2>8. Alone(q)' => Alone(q)  BY <1>0, <2>2, <2>3 DEF Alone
  <2> QED BY <1>1, <2>1, <2>2, <2>3, <2>4, <2>6, <2>7, <2>8
<1>9. CASE HandOver(q)
  <2>1. /\ req[q].at = "tokened" /\ UNCHANGED token
        /\ \/ Answer(q, 200) /\ UNCHANGED <<archive, temp>>
           \/ Answer(q, 409) /\ RemoveArchive(s)
        BY <1>9 DEF HandOver
  <2>2. s \in Sends /\ q \in Accepts  BY <1>0, <2>1 DEF ReqTypes, Requests, ReqInv
  <2>3. /\ req'[q].of = s /\ req'[q].at = "over"
        /\ \A p \in Answers : p # q => req'[p] = req[p]
        BY <1>2, <2>1
  <2>4. BuiltStays  BY <1>0, <2>1, <2>3 DEF BuiltStays
  <2>5. ArchiveInv' /\ \A t \in Sends : t # s => archive'[t] = archive[t]
        BY <2>1, <2>2, <2>4, BuiltKeeps, RemoveKeeps
  <2>6. Provided(q) => Provided(q)'
    <3>1. CASE Answer(q, 200) /\ UNCHANGED archive
          BY <1>0, <2>1, <2>3, <3>1 DEF Provided, Tokened, InProgress
    <3>2. CASE Answer(q, 409)
      <4>1. req'[q].code = 409 /\ req'[q].at = "over"  BY <1>2, <3>2
      <4> QED BY <4>1 DEF Provided, Tokened
    <3> QED BY <2>1, <3>1, <3>2
  <2>7. Alone(q)' => Alone(q)  BY <1>0, <2>2, <2>3 DEF Alone
  <2> QED BY <1>1, <2>1, <2>2, <2>3, <2>5, <2>6, <2>7
<1> QED BY <1>4, <1>5, <1>6, <1>7, <1>8, <1>9 DEF RespondPullOffer

\* CancelOutgoing drops an archive only of a session that it flagged.
LEMMA CancelProvides ==
    ASSUME Inv4, Inv2', NEW k \in Callers, CancelOutgoing(k)
    PROVE  Inv4'
<1> USE DEF runVars, stopVars, pullVars, httpVars, callVars
<1>0. /\ UNCHANGED <<stage, token, req>> /\ StopTypes /\ ReqTypes /\ CallTypes
      /\ BuiltStays
      BY Frames, TypeParts DEF Inv4, Inv2, Inv1, BuiltStays
<1>1. \/ UNCHANGED <<archive, temp>>
      \/ /\ RemoveArchive(call[k].of) /\ UNCHANGED cancel
         /\ call[k].of \in Sends /\ cancel[call[k].of]
  <2>1. CASE DropArchive(k)
        BY <1>0, <2>1 DEF DropArchive, Inv4, Inv2, CancelInv, CallTypes
  <2> QED BY <2>1 DEF CancelOutgoing, Cancel, SetCancel, TurnDown, AbortHTTP
<1>2. ArchiveInv'  BY <1>0, <1>1, BuiltKeeps, RemoveKeeps
<1>3. \A t \in Sends : cancel[t] => cancel'[t]
      BY <1>0 DEF CancelOutgoing, Cancel, SetCancel, TurnDown, DropArchive, AbortHTTP, StopTypes
<1>4. ASSUME NEW t \in Sends, InProgress(t)'
      PROVE  InProgress(t) /\ archive'[t] = archive[t]
  <2>1. InProgress(t)  BY <1>0, <1>3, <1>4 DEF InProgress
  <2>2. archive'[t] = archive[t]
        BY <1>0, <1>1, <2>1, RemoveKeeps DEF InProgress
  <2> QED BY <2>1, <2>2
<1>5. AloneInv'
  <2> SUFFICES ASSUME NEW r \in Accepts, Alone(r)'  PROVE Provided(r)'
      BY DEF AloneInv, Provided
  <2>1. r \in Answers /\ Provided(r)
        BY <1>0 DEF Inv4, AloneInv, Provided, Alone, Answers
  <2>2. req[r].of # None => req[r].of \in Sends
        BY <1>0, <2>1 DEF ReqTypes, Requests
  <2> QED BY <1>0, <1>4, <2>1, <2>2, ProvidedStays
<1> QED BY <1>2, <1>5 DEF Inv4

\* Every step provides for the requests that go alone.
LEMMA NextProvides == Inv4 /\ [Next]_vars => Inv4'
<1> SUFFICES ASSUME Inv4, [Next]_vars PROVE Inv4'  OBVIOUS
<1> USE DEF runVars, stopVars, pullVars, httpVars, callVars
<1>1. Inv2'  BY NextReports DEF Inv4
<1>2. ASSUME UNCHANGED <<stage, cancel, token, archive, temp, req>>  PROVE Inv4'
      BY <1>1, <1>2 DEF Inv4, ArchiveInv, AloneInv, Alone, Tokened, InProgress
<1>3. ASSUME NEW g \in Gets, Download(g)  PROVE Inv4'
      BY <1>2, <1>3, Frames
<1>4. CASE RunCancel \/ UNCHANGED vars  BY <1>2, <1>4 DEF RunCancel, vars
<1> QED BY <1>1, <1>3, <1>4, SendProvides, RespondProvides, CancelProvides DEF Next

\* A browser whose accept was answered with 200 can fetch what it accepted while the
\* session lasts, however many other offers, answers, downloads and cancels there are,
\* if no other request accepted the same offer: its archive is on disk then, although
\* the request, the cancel and the end of the session write and remove it unlocked.
THEOREM PullAcceptedCanPull == Spec => []AcceptedCanPull
<1>1. Init => Inv4
  <2>1. Init => Inv2  BY InitTypes DEF Init, Inv2, ReportInv, CancelInv
  <2>2. Init => ArchiveInv /\ AloneInv
        BY DEF Init, ArchiveInv, AloneInv, Tokened, Answers
  <2> QED BY <2>1, <2>2 DEF Inv4
<1>2. Inv4 => AcceptedCanPull
  <2> SUFFICES ASSUME Inv4, NEW r \in Accepts, req[r].code = 200, Alone(r), Live(req[r].of)
               PROVE  /\ token[req[r].of] = r
                      /\ req[r].of \in Archive => archive[req[r].of] \in temp
      BY DEF AcceptedCanPull
  <2>1. Provided(r) /\ Tokened(r)  BY DEF Inv4, AloneInv, Provided, Tokened
  <2>2. InProgress(req[r].of)  BY DEF Live, InProgress
  <2>3. req[r].of \in Sends
        BY TypeParts DEF Inv4, Inv2, Inv1, ReqInv, ReqTypes, Requests, Answers
  <2> QED BY <2>1, <2>2, <2>3 DEF Provided, Inv4, ArchiveInv
<1> QED BY <1>1, <1>2, NextProvides, PTL DEF Spec
=============================================================================
