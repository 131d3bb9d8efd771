--------------------------- MODULE Receiver_proofs ---------------------------
(***************************************************************************)
(* What the receiving side guarantees for any offers, sizes, files, streams, *)
(* posts and callers, in three parts: the types of its state; who owns the   *)
(* slot m.incoming and who reports; and what the outcomes say of the data,   *)
(* down to the refinement of OfferLife.  Each part's inductive invariant     *)
(* contains the one before it.                                               *)
(***************************************************************************)
EXTENDS Receiver, FiniteSetTheorems, TLAPS

USE DEF Outcomes, Ends

(***************************************************************************)
(* The types                                                               *)
(***************************************************************************)

\* A unit names a file of its offer.
LEMMA UnitsTyped ==
    ASSUME NEW o \in Offers
    PROVE  /\ Units(o) \subseteq AllUnits
           /\ \A f \in FilesOf(o) : /\ f \in Files
                                    /\ {f} \X (1..Size[o][f]) \subseteq Units(o)
           /\ \A u \in Units(o) : u[1] \in Files
<1>1. Units(o) \subseteq AllUnits  BY DEF AllUnits
<1>2. \A f \in FilesOf(o) : f \in Files  BY ReceiverConstants DEF FilesOf
<1>3. \A f \in FilesOf(o) : {f} \X (1..Size[o][f]) \subseteq Units(o)
      BY DEF Units
<1>4. ASSUME NEW u \in Units(o) PROVE u[1] \in Files
  <2>1. PICK f \in FilesOf(o) : u \in {f} \X (1..Size[o][f])  BY DEF Units
  <2> QED BY <2>1, <1>2
<1> QED BY <1>1, <1>2, <1>3, <1>4

\* A step that leaves a group of variables alone keeps their types.
LEMMA StutterTypes ==
    /\ SlotTypes /\ UNCHANGED slotVars => SlotTypes'
    /\ FinTypes /\ UNCHANGED finVars => FinTypes'
    /\ DataTypes /\ UNCHANGED <<fileVars, netVars, upload>> => DataTypes'
    /\ HandlerTypes /\ UNCHANGED handler => HandlerTypes'
    /\ UserTypes /\ UNCHANGED userVars => UserTypes'
<1>1. SlotTypes /\ UNCHANGED slotVars => SlotTypes'  BY DEF SlotTypes, slotVars
<1>2. FinTypes /\ UNCHANGED finVars => FinTypes'  BY DEF FinTypes, finVars
<1>3. DataTypes /\ UNCHANGED <<fileVars, netVars, upload>> => DataTypes'
      BY DEF DataTypes, fileVars, netVars
<1>4. HandlerTypes /\ UNCHANGED handler => HandlerTypes'  BY DEF HandlerTypes
<1>5. UserTypes /\ UNCHANGED userVars => UserTypes'
      BY DEF UserTypes, userVars, uiVars, callVars
<1> QED BY <1>1, <1>2, <1>3, <1>4, <1>5

\* The initial state is typed.
LEMMA InitTypeOK == Init => TypeOK
<1> SUFFICES ASSUME Init PROVE TypeOK  OBVIOUS
<1>1. \A o \in Offers : Units(o) \subseteq AllUnits  BY UnitsTyped
<1>2. SlotTypes
  <2>1. prep \in [Offers -> PrepareStates] /\ incoming \in Offers \cup {None}
        BY DEF Init, PrepareStates
  <2>2. decision \in [Offers -> Decisions]  BY DEF Init, Empty, Decisions
  <2>3. answer \in [Offers -> PrepareCodes]  BY DEF Init, PrepareCodes
  <2>4. armed \in [Offers -> BOOLEAN]  BY DEF Init
  <2> QED BY <2>1, <2>2, <2>3, <2>4 DEF SlotTypes
<1>3. FinTypes  BY DEF Init, FinTypes
<1>4. DataTypes
  <2>1. upload \in [Offers -> UploadCodes]  BY DEF Init, UploadCodes
  <2>2. received \in [Offers -> Nat]  BY DEF Init
  <2> QED BY <1>1, <2>1, <2>2 DEF Init, DataTypes
<1>5. HandlerTypes  BY DEF Init, HandlerTypes, HandlerStates, Idle
<1>6. UserTypes  BY DEF Init, UserTypes, IdleCall, NoBanner
<1> QED BY <1>2, <1>3, <1>4, <1>5, <1>6 DEF TypeOK

\* What the sync.Once of finalizeRecv does keeps its two variables typed.
LEMMA FinalizeTypes ==
    ASSUME FinTypes, NEW o \in Offers, NEW success,
           Finalize(o, success), UNCHANGED <<canceled, reported>>
    PROVE  FinTypes'
<1>1. CASE fin[o] = "no"  BY <1>1 DEF Finalize, FinTypes
<1>2. CASE fin[o] # "no"  BY <1>2 DEF Finalize, FinTypes
<1> QED BY <1>1, <1>2

\* The values the code assigns, each in the set its variable is typed by.
LEMMA Values ==
    /\ {"new", "registered", "waiting", "accepted", "prepared", "armed",
        "finishing", "over"} \subseteq PrepareStates
    /\ Ends \subseteq PrepareStates
    /\ PrepareCodes = {0, 200, 400, 403, 408, 409, 500, 503}
    /\ UploadCodes = {0, 200, 400, 404, 409, 500}
    /\ Empty \in Decisions
BY DEF PrepareStates, PrepareCodes, UploadCodes, Decisions, Empty

\* An update of one entry of a function with a value of its range.
LEMMA Updated ==
    ASSUME NEW S, NEW T, NEW f \in [S -> T], NEW x \in S, NEW v \in T
    PROVE  [f EXCEPT ![x] = v] \in [S -> T]
OBVIOUS

\* What a step of PrepareUpload does to each variable of the slot.
LEMMA SlotParts ==
    ASSUME SlotTypes, NEW o \in Offers
    PROVE  /\ \A pc \in PrepareStates :
                 Goto(o, pc) => prep' \in [Offers -> PrepareStates]
           /\ ClearIncoming(o) => incoming' \in Offers \cup {None}
           /\ \A n \in PrepareCodes :
                 answer' = [answer EXCEPT ![o] = n] => answer' \in [Offers -> PrepareCodes]
           /\ decision' = [decision EXCEPT ![o] = Empty] =>
                 decision' \in [Offers -> Decisions]
<1>1. \A pc \in PrepareStates : Goto(o, pc) => prep' \in [Offers -> PrepareStates]
      BY Updated DEF SlotTypes, Goto
<1>2. ClearIncoming(o) => incoming' \in Offers \cup {None}
      BY DEF SlotTypes, ClearIncoming
<1>3. \A n \in PrepareCodes :
         answer' = [answer EXCEPT ![o] = n] => answer' \in [Offers -> PrepareCodes]
      BY Updated DEF SlotTypes
<1>4. decision' = [decision EXCEPT ![o] = Empty] => decision' \in [Offers -> Decisions]
      BY Updated, Values DEF SlotTypes
<1> QED BY <1>1, <1>2, <1>3, <1>4

\* The steps of PrepareUpload keep the types of the slot, answers and decisions.
LEMMA PrepareSlotTypes ==
    ASSUME TypeOK, NEW o \in Offers, PrepareUpload(o)
    PROVE  SlotTypes'
<1>0. SlotTypes /\ UserTypes  BY DEF TypeOK
<1>00. /\ prep \in [Offers -> PrepareStates] /\ incoming \in Offers \cup {None}
       /\ answer \in [Offers -> PrepareCodes] /\ decision \in [Offers -> Decisions]
       /\ armed \in [Offers -> BOOLEAN]
       BY <1>0 DEF SlotTypes
<1>p. prep' \in [Offers -> PrepareStates]
  <2>1. UNCHANGED prep \/ \E pc \in {"registered", "waiting", "accepted", "prepared",
                                     "armed", "finishing", "over"} \cup Ends : Goto(o, pc)
        BY DEF PrepareUpload, PrepareSteps, Register, Announce, TakeAccept, TakeDecline,
               AcceptTimeout, AppClosing, Ending, PrepareDestFiles, ReportEnd, Arm,
               StartReceiving, AnswerEmpty
  <2>2. UNCHANGED prep \/ \E pc \in PrepareStates : Goto(o, pc)  BY <2>1, Values
  <2> QED BY <1>0, <1>00, <2>2, SlotParts
<1>i. incoming' \in Offers \cup {None}
  <2>1. UNCHANGED incoming \/ incoming' = o \/ ClearIncoming(o)
        BY DEF PrepareUpload, PrepareSteps, Register, Announce, TakeAccept, TakeDecline,
               AcceptTimeout, AppClosing, Ending, PrepareDestFiles, ReportEnd, Arm,
               StartReceiving, AnswerEmpty
  <2> QED BY <1>0, <1>00, <2>1, SlotParts
<1>a. answer' \in [Offers -> PrepareCodes]
  <2>1. UNCHANGED answer \/ \E n \in PrepareCodes : answer' = [answer EXCEPT ![o] = n]
    <3>1. CASE ReportEnd(o)
      <4>1. EndStatus[prep[o]] \in PrepareCodes
            BY <3>1 DEF ReportEnd, EndStatus, PrepareCodes
      <4> QED BY <3>1, <4>1 DEF ReportEnd
    <3>2. CASE Register(o)
      <4>1. UNCHANGED answer \/ \E n \in {400, 409} : answer' = [answer EXCEPT ![o] = n]
            BY <3>2 DEF Register
      <4>2. {400, 409} \subseteq PrepareCodes  BY DEF PrepareCodes
      <4> QED BY <4>1, <4>2
    <3>3. CASE ~ReportEnd(o) /\ ~Register(o)
      <4>1. UNCHANGED answer \/ answer' = [answer EXCEPT ![o] = 200]
            BY <3>3 DEF PrepareUpload, PrepareSteps, Announce, TakeAccept, TakeDecline,
                   AcceptTimeout, AppClosing, Ending, PrepareDestFiles, Arm,
                   StartReceiving, AnswerEmpty
      <4>2. 200 \in PrepareCodes  BY DEF PrepareCodes
      <4> QED BY <4>1, <4>2
    <3> QED BY <3>1, <3>2, <3>3
  <2> QED BY <1>0, <1>00, <2>1, SlotParts
<1>d. decision' \in [Offers -> Decisions]
  <2>1. UNCHANGED decision \/ decision' = [decision EXCEPT ![o] = Empty]
        BY DEF PrepareUpload, PrepareSteps, Register, Announce, TakeAccept, TakeDecline,
               AcceptTimeout, AppClosing, Ending, PrepareDestFiles, ReportEnd, Arm,
               StartReceiving, AnswerEmpty
  <2> QED BY <1>0, <1>00, <2>1, SlotParts
<1>r. armed' \in [Offers -> BOOLEAN]
  <2>1. UNCHANGED armed \/ armed' = [armed EXCEPT ![o] = TRUE]
        BY DEF PrepareUpload, PrepareSteps, Register, Announce, TakeAccept, TakeDecline,
               AcceptTimeout, AppClosing, Ending, PrepareDestFiles, ReportEnd, Arm,
               StartReceiving, AnswerEmpty
  <2> QED BY <1>00, <2>1
<1> QED BY <1>p, <1>i, <1>a, <1>d, <1>r DEF SlotTypes

\* The steps of PrepareUpload keep the types.
LEMMA PrepareTypeOK ==
    ASSUME TypeOK, NEW o \in Offers, PrepareUpload(o)
    PROVE  TypeOK'
<1>0. SlotTypes /\ FinTypes /\ DataTypes /\ HandlerTypes /\ UserTypes
      BY DEF TypeOK
<1>1. SlotTypes'  BY PrepareSlotTypes
<1>2. FinTypes'
  <2>1. CASE ReportEnd(o)
    <3>1. EndState[prep[o]] \in Outcomes  BY <2>1 DEF ReportEnd, EndState
    <3> QED BY <1>0, <2>1, <3>1 DEF ReportEnd, FinTypes
  <2>2. CASE StartReceiving(o)
    <3>1. UNCHANGED <<canceled, reported>> /\ (Finalize(o, TRUE) \/ UNCHANGED <<fin, verdict>>)
          BY <2>2 DEF StartReceiving
    <3> QED BY <1>0, <3>1, FinalizeTypes DEF FinTypes
  <2>3. CASE ~ReportEnd(o) /\ ~StartReceiving(o)
    <3>1. UNCHANGED finVars
          BY <2>3 DEF PrepareUpload, PrepareSteps, Register, Announce, TakeAccept,
                      TakeDecline, AcceptTimeout, AppClosing, Ending,
                      PrepareDestFiles, Arm, AnswerEmpty
    <3> QED BY <1>0, <3>1, StutterTypes
  <2> QED BY <2>1, <2>2, <2>3
<1>3. DataTypes'
  <2>1. CASE PrepareDestFiles(o)
    <3>1. UNCHANGED <<handle, netVars, upload>>  BY <2>1 DEF PrepareDestFiles
    <3>2. disk' \in [Offers -> {"none", "partial", "made", "removed"}]
          BY <1>0, <2>1 DEF PrepareDestFiles, DataTypes
    <3> QED BY <1>0, <3>1, <3>2 DEF DataTypes, netVars
  <2>2. CASE ~PrepareDestFiles(o)
    <3>1. UNCHANGED <<fileVars, netVars, upload>>
          BY <2>2 DEF PrepareUpload, PrepareSteps, Register, Announce, TakeAccept,
                      TakeDecline, AcceptTimeout, AppClosing, Ending, ReportEnd,
                      Arm, StartReceiving, AnswerEmpty, dataVars
    <3> QED BY <1>0, <3>1, StutterTypes
  <2> QED BY <2>1, <2>2
<1>4. HandlerTypes'
  <2>1. UNCHANGED handler
        BY DEF PrepareUpload, PrepareSteps, Register, Announce, TakeAccept,
               TakeDecline, AcceptTimeout, AppClosing, Ending, PrepareDestFiles,
               ReportEnd, Arm, StartReceiving, AnswerEmpty, dataVars
  <2> QED BY <1>0, <2>1, StutterTypes
<1>5. UserTypes'
  <2>1. UNCHANGED <<call, appDone>>
        BY DEF PrepareUpload, PrepareSteps, Register, Announce, TakeAccept,
               TakeDecline, AcceptTimeout, AppClosing, Ending, PrepareDestFiles,
               ReportEnd, Arm, StartReceiving, AnswerEmpty, userVars, callVars
  <2>2. dialog' \in Offers \cup {None}
        BY <1>0 DEF PrepareUpload, PrepareSteps, Register, Announce, TakeAccept,
               TakeDecline, AcceptTimeout, AppClosing, Ending, PrepareDestFiles,
               ReportEnd, Arm, StartReceiving, AnswerEmpty, userVars, uiVars, UserTypes
  <2>3. \/ UNCHANGED banner
        \/ \E state \in Outcomes \cup {"waiting", "transferring"} : Emit(o, state)
    <3>1. CASE ReportEnd(o)
      <4>1. EndState[prep[o]] \in Outcomes  BY <3>1 DEF ReportEnd, EndState
      <4> QED BY <3>1, <4>1 DEF ReportEnd
    <3>2. CASE Announce(o)  BY <3>2 DEF Announce
    <3>3. CASE StartReceiving(o)  BY <3>3 DEF StartReceiving
    <3>4. CASE ~(ReportEnd(o) \/ Announce(o) \/ StartReceiving(o))
          BY <3>4 DEF PrepareUpload, PrepareSteps, Register, TakeAccept,
               TakeDecline, AcceptTimeout, AppClosing, Ending, PrepareDestFiles,
               Arm, AnswerEmpty, userVars, uiVars
    <3> QED BY <3>1, <3>2, <3>3, <3>4
  <2> QED BY <1>0, <2>1, <2>2, <2>3 DEF UserTypes, Emit
<1> QED BY <1>1, <1>2, <1>3, <1>4, <1>5 DEF TypeOK

\* Typing of the helpers of the data goroutines.
LEMMA HandlerParts ==
    ASSUME HandlerTypes, NEW h \in Handlers
    PROVE  /\ Leave(h) => HandlerTypes'
           /\ \A pc \in HandlerStates :
                 StepTo(h, pc) /\ handler[h].at \notin {"idle", "end"} => HandlerTypes'
           /\ \A s \in SUBSET handler[h].todo :
                 handler' = [handler EXCEPT ![h].todo = s] => HandlerTypes'
<1>1. Leave(h) => HandlerTypes'
  <2>1. [Idle EXCEPT !.at = "end", !.of = handler[h].of]
           \in [at : {"end"}, of : Offers \cup {None}, todo : {{}}, left : {{}}]
        BY DEF Idle, HandlerTypes
  <2>2. "end" \in HandlerStates  BY DEF HandlerStates
  <2> QED BY <2>1, <2>2 DEF HandlerTypes, Leave
<1>2. ASSUME NEW pc \in HandlerStates, StepTo(h, pc),
             handler[h].at \notin {"idle", "end"}
      PROVE  HandlerTypes'
      BY <1>2 DEF HandlerTypes, HandlerStates, StepTo
<1>3. ASSUME NEW s \in SUBSET handler[h].todo,
             handler' = [handler EXCEPT ![h].todo = s]
      PROVE  HandlerTypes'
      BY <1>3 DEF HandlerTypes, HandlerStates
<1> QED BY <1>1, <1>2, <1>3

\* openDestHandle keeps the handle table typed.
LEMMA OpenDestHandleTypes ==
    ASSUME DataTypes, NEW o \in Offers, NEW f \in Files, OpenDestHandle(o, f),
           UNCHANGED <<disk, netVars, upload>>
    PROVE  DataTypes'
<1>1. handle' \in [Offers -> [Files -> {"nil", "open", "closed"}]]
      BY DEF DataTypes, OpenDestHandle
<1> QED BY <1>1 DEF DataTypes, netVars

\* The steps of a data stream keep the types.
LEMMA DataStreamTypeOK ==
    ASSUME TypeOK, NEW h \in Handlers, DataStream(h)
    PROVE  TypeOK'
<1>0. SlotTypes /\ FinTypes /\ DataTypes /\ HandlerTypes /\ UserTypes
      BY DEF TypeOK
<1>1. UNCHANGED <<slotVars, canceled, reported, disk, upload, userVars>>
      BY DEF DataStream, DataOpen, DataCheck, DataFrame, DataBadFrame, DataEOF,
             DataWrite, DataCount, finVars, fileVars
<1>2. SlotTypes' /\ UserTypes'  BY <1>0, <1>1, StutterTypes
<1> DEFINE o == handler[h].of
<1>3. ASSUME handler[h].at \notin {"idle", "end"}
      PROVE  /\ o \in Offers /\ handler[h].todo \subseteq Units(o)
             /\ Units(o) \subseteq AllUnits
             /\ \A f \in FilesOf(o) : f \in Files
      BY <1>0, <1>3, UnitsTyped DEF HandlerTypes
<1>4. FinTypes'
  <2>1. \/ UNCHANGED <<fin, verdict>>
        \/ o \in Offers /\ (Finalize(o, TRUE) \/ Finalize(o, FALSE))
    <3>1. CASE handler[h].at = "idle"
          BY <3>1 DEF DataStream, DataOpen, DataCheck, DataFrame, DataBadFrame,
               DataEOF, DataWrite, DataCount, finVars
    <3>2. CASE DataCheck(h) \/ DataEOF(h)  BY <3>2 DEF DataCheck, DataEOF, finVars
    <3>3. CASE DataFrame(h)  BY <1>3, <3>3 DEF DataFrame, GiveUp
    <3>4. CASE DataBadFrame(h)  BY <1>3, <3>4 DEF DataBadFrame, GiveUp
    <3>5. CASE DataWrite(h)  BY <1>3, <3>5 DEF DataWrite, GiveUp
    <3>6. CASE DataCount(h)  BY <1>3, <3>6 DEF DataCount
    <3> QED BY <3>1, <3>2, <3>3, <3>4, <3>5, <3>6 DEF DataStream, DataOpen
  <2> QED BY <1>0, <1>1, <2>1, FinalizeTypes DEF FinTypes
<1>5. DataTypes' /\ HandlerTypes'
  <2>1. ASSUME NEW p \in Offers, DataOpen(h, p)  PROVE DataTypes' /\ HandlerTypes'
    <3>1. handler' = [handler EXCEPT ![h] = [Idle EXCEPT !.at = "check", !.of = p]]
          \/ handler' = [handler EXCEPT ![h] = [Idle EXCEPT !.at = "end"]]
          BY <2>1 DEF DataOpen
    <3>2. HandlerTypes'
      <4>1. ASSUME NEW r \in [at : HandlerStates, of : Offers \cup {None},
                               todo : {{}}, left : {{}}],
                   r.at = "end" \/ r.of \in Offers,
                   handler' = [handler EXCEPT ![h] = r]
            PROVE  HandlerTypes'
            BY <1>0, <4>1 DEF HandlerTypes
      <4> QED BY <3>1, <4>1 DEF HandlerStates, Idle
    <3> QED BY <1>0, <2>1, <3>2, StutterTypes DEF DataOpen
  <2>2. CASE DataCheck(h)
    <3>1. HandlerTypes'
          BY <1>0, <2>2, HandlerParts DEF DataCheck, HandlerStates
    <3> QED BY <1>0, <2>2, <3>1, StutterTypes DEF DataCheck
  <2>3. CASE DataFrame(h)
    <3>1. PICK f \in FilesOf(o), s \in (SUBSET unframed[o]) \ {{}} :
             /\ s \subseteq {f} \X (1..Size[o][f])
             /\ unframed' = [unframed EXCEPT ![o] = @ \ s]
             /\ \/ /\ OpenDestHandle(o, f)
                   /\ handler' = [handler EXCEPT ![h].at = "body", ![h].todo = s]
                \/ Leave(h) /\ UNCHANGED handle
          BY <2>3 DEF DataFrame, GiveUp
    <3>2. o \in Offers /\ f \in Files /\ s \subseteq Units(o) /\ s \subseteq AllUnits
      <4>1. handler[h].at = "header"  BY <2>3 DEF DataFrame
      <4>2. o \in Offers  BY <1>3, <4>1
      <4> QED BY <3>1, <4>2, UnitsTyped
    <3>3. unframed' \in [Offers -> SUBSET AllUnits]
          BY <1>0, <3>1, <3>2 DEF DataTypes
    <3>4. handle' \in [Offers -> [Files -> {"nil", "open", "closed"}]]
      <4>1. CASE UNCHANGED handle  BY <1>0, <4>1 DEF DataTypes
      <4>2. CASE OpenDestHandle(o, f)
            BY <1>0, <3>2, <4>2 DEF OpenDestHandle, DataTypes
      <4> QED BY <3>1, <4>1, <4>2
    <3>5. DataTypes'
          BY <1>0, <2>3, <3>3, <3>4 DEF DataFrame, DataTypes
    <3>6. HandlerTypes'
      <4>1. CASE Leave(h)  BY <1>0, <4>1, HandlerParts
      <4>2. CASE handler' = [handler EXCEPT ![h].at = "body", ![h].todo = s]
        <5>1. handler[h].left \subseteq FilesOf(o)
              BY <1>0, <2>3 DEF DataFrame, HandlerTypes
        <5>2. "body" \in HandlerStates  BY DEF HandlerStates
        <5> QED BY <1>0, <3>2, <4>2, <5>1, <5>2 DEF HandlerTypes
      <4> QED BY <3>1, <4>1, <4>2
    <3> QED BY <3>5, <3>6
  <2>4. CASE DataBadFrame(h)
    <3>1. HandlerTypes'  BY <1>0, <2>4, HandlerParts DEF DataBadFrame, GiveUp
    <3> QED BY <1>0, <2>4, <3>1, StutterTypes DEF DataBadFrame
  <2>5. CASE DataEOF(h)
    <3>1. HandlerTypes'  BY <1>0, <2>5, HandlerParts DEF DataEOF
    <3> QED BY <1>0, <2>5, <3>1, StutterTypes DEF DataEOF
  <2>6. CASE DataWrite(h)
    <3>1. o \in Offers /\ handler[h].todo \subseteq AllUnits
          BY <1>3, <2>6 DEF DataWrite
    <3>2. landed' \in [Offers -> SUBSET AllUnits]
      <4>1. UNCHANGED landed \/ \E u \in AllUnits : landed' = [landed EXCEPT ![o] = @ \cup {u}]
            BY <2>6, <3>1 DEF DataWrite
      <4> QED BY <1>0, <3>1, <4>1 DEF DataTypes
    <3>3. HandlerTypes'
      <4>1. CASE Leave(h)  BY <1>0, <4>1, HandlerParts
      <4>2. ASSUME NEW u, handler' = [handler EXCEPT ![h].at = "count", ![h].todo = @ \ {u}]
            PROVE  HandlerTypes'
            BY <1>0, <2>6, <4>2 DEF DataWrite, HandlerTypes, HandlerStates
      <4> QED BY <2>6, <4>1, <4>2 DEF DataWrite, GiveUp
    <3> QED BY <1>0, <2>6, <3>2, <3>3 DEF DataWrite, DataTypes, fileVars
  <2>7. CASE DataCount(h)
    <3>1. o \in Offers  BY <1>3, <2>7 DEF DataCount
    <3>2. received' \in [Offers -> Nat]  BY <1>0, <2>7, <3>1 DEF DataCount, DataTypes
    <3>3. HandlerTypes'
          BY <1>0, <2>7, HandlerParts DEF DataCount, HandlerStates
    <3> QED BY <1>0, <2>7, <3>2, <3>3 DEF DataCount, DataTypes, fileVars
  <2> QED BY <2>1, <2>2, <2>3, <2>4, <2>5, <2>6, <2>7 DEF DataStream
<1> QED BY <1>2, <1>4, <1>5 DEF TypeOK

\* A web handler that answers its POST keeps the types of both.
LEMMA RespondTypes ==
    ASSUME DataTypes, NEW h \in Handlers, NEW status \in {200, 400, 409, 500},
           Respond(h, status), UNCHANGED <<fileVars, netVars>>
    PROVE  DataTypes'
<1>1. upload' \in [Offers -> UploadCodes]
  <2>1. status \in UploadCodes  BY DEF UploadCodes
  <2> QED BY <2>1 DEF Respond, DataTypes
<1> QED BY <1>1 DEF DataTypes, fileVars, netVars

\* The steps of a browser's upload keep the types.
LEMMA WebUploadTypeOK ==
    ASSUME TypeOK, NEW h \in Handlers, WebUpload(h)
    PROVE  TypeOK'
<1>0. SlotTypes /\ FinTypes /\ DataTypes /\ HandlerTypes /\ UserTypes
      BY DEF TypeOK
<1>1. UNCHANGED <<slotVars, canceled, reported, disk, userVars>>
      BY DEF WebUpload, UploadOpen, UploadPart, UploadCopy, UploadPartDone,
             UploadBroken, UploadEnd, UploadOK, finVars, fileVars
<1>2. SlotTypes' /\ UserTypes'  BY <1>0, <1>1, StutterTypes
<1> DEFINE o == handler[h].of
<1>3. ASSUME handler[h].at \notin {"idle", "end"}
      PROVE  /\ o \in Offers
             /\ handler[h].todo \subseteq Units(o) /\ handler[h].todo \subseteq AllUnits
             /\ handler[h].left \subseteq FilesOf(o)
             /\ \A f \in FilesOf(o) : /\ f \in Files
                                      /\ {f} \X (1..Size[o][f]) \subseteq Units(o)
             /\ Units(o) \subseteq AllUnits
      BY <1>0, <1>3, UnitsTyped DEF HandlerTypes
<1>4. FinTypes'
  <2>1. \/ UNCHANGED <<fin, verdict>>
        \/ o \in Offers /\ (Finalize(o, TRUE) \/ Finalize(o, FALSE))
    <3>1. CASE handler[h].at = "idle"
          BY <3>1 DEF WebUpload, UploadOpen, UploadPart, UploadCopy, UploadPartDone,
               UploadBroken, UploadEnd, UploadOK, finVars
    <3>2. CASE UploadPart(h)  BY <1>3, <3>2 DEF UploadPart, GiveUp
    <3>3. CASE UploadCopy(h)  BY <1>3, <3>3 DEF UploadCopy, GiveUp
    <3>4. CASE UploadPartDone(h) \/ UploadOK(h)
          BY <3>4 DEF UploadPartDone, UploadOK, finVars
    <3>5. CASE UploadBroken(h)  BY <1>3, <3>5 DEF UploadBroken, GiveUp
    <3>6. CASE UploadEnd(h)  BY <1>3, <3>6 DEF UploadEnd
    <3> QED BY <3>1, <3>2, <3>3, <3>4, <3>5, <3>6 DEF WebUpload, UploadOpen
  <2> QED BY <1>0, <1>1, <2>1, FinalizeTypes DEF FinTypes
<1>5. DataTypes' /\ HandlerTypes'
  <2>1. ASSUME NEW p \in Offers, UploadOpen(h, p)  PROVE DataTypes' /\ HandlerTypes'
    <3>1. UNCHANGED <<fileVars, netVars>>  BY <2>1 DEF UploadOpen
    <3>2. upload' \in [Offers -> UploadCodes]
      <4>1. UNCHANGED upload \/ \E n \in {404, 409} : upload' = [upload EXCEPT ![p] = n]
            BY <2>1 DEF UploadOpen
      <4>2. {404, 409} \subseteq UploadCodes  BY DEF UploadCodes
      <4> QED BY <1>0, <4>1, <4>2 DEF DataTypes
    <3>3. CASE handler' = [handler EXCEPT ![h].at = "end"]
      <4>1. HandlerTypes'  BY <1>0, <3>3 DEF HandlerTypes, HandlerStates
      <4> QED BY <1>0, <3>1, <3>2, <4>1 DEF DataTypes, fileVars, netVars
    <3>4. CASE handler' = [handler EXCEPT ![h] =
                  [at |-> "part", of |-> p, todo |-> {}, left |-> FilesOf(p)]]
      <4>1. FilesOf(p) \subseteq Files  BY UnitsTyped
      <4>2. HandlerTypes'  BY <1>0, <3>4, <4>1 DEF HandlerTypes, HandlerStates
      <4> QED BY <1>0, <3>1, <3>2, <4>2 DEF DataTypes, fileVars, netVars
    <3> QED BY <2>1, <3>3, <3>4 DEF UploadOpen
  <2>2. CASE UploadPart(h)
    <3>0. /\ handler[h].at \notin {"idle", "end"} /\ UNCHANGED <<disk, netVars>>
          BY <2>2 DEF UploadPart
    <3>1. CASE Leave(h) /\ UNCHANGED handle
               /\ \E n \in {409, 500} : Respond(h, n)
      <4>1. HandlerTypes'  BY <1>0, <3>1, HandlerParts
      <4> QED BY <1>0, <3>0, <3>1, <4>1, RespondTypes DEF fileVars
    <3>2. ASSUME NEW f \in handler[h].left, OpenDestHandle(o, f), UNCHANGED upload,
                 handler' = [handler EXCEPT
                        ![h].at = "copy", ![h].left = @ \ {f},
                        ![h].todo = {f} \X (1..Size[o][f])]
          PROVE  DataTypes' /\ HandlerTypes'
      <4>1. /\ o \in Offers /\ f \in Files
            /\ {f} \X (1..Size[o][f]) \subseteq Units(o)
            /\ {f} \X (1..Size[o][f]) \subseteq AllUnits
            /\ handler[h].left \subseteq FilesOf(o) /\ handler[h].left \subseteq Files
            BY <1>3, <3>0, <3>2
      <4>2. DataTypes'  BY <1>0, <3>0, <3>2, <4>1, OpenDestHandleTypes
      <4>3. HandlerTypes'
        <5> DEFINE s == {f} \X (1..Size[o][f])
        <5>1. /\ s \subseteq Units(o) /\ s \subseteq AllUnits
              /\ handler' = [handler EXCEPT ![h].at = "copy", ![h].left = @ \ {f},
                                            ![h].todo = s]
              BY <3>2, <4>1
        <5> HIDE DEF s
        <5>2. "copy" \in HandlerStates  BY DEF HandlerStates
        <5> QED BY <1>0, <4>1, <5>1, <5>2 DEF HandlerTypes
      <4> QED BY <4>2, <4>3
    <3> QED BY <2>2, <3>1, <3>2 DEF UploadPart, GiveUp
  <2>3. CASE UploadCopy(h)
    <3>0. /\ handler[h].at \notin {"idle", "end"} /\ UNCHANGED fileVars
          BY <2>3 DEF UploadCopy
    <3>1. CASE Leave(h) /\ Respond(h, 500) /\ UNCHANGED netVars
      <4>1. HandlerTypes'  BY <1>0, <3>1, HandlerParts
      <4> QED BY <1>0, <3>0, <3>1, <4>1, RespondTypes
    <3>2. ASSUME NEW u \in handler[h].todo,
                 landed' = [landed EXCEPT ![o] = @ \cup {u}],
                 unframed' = [unframed EXCEPT ![o] = @ \ {u}],
                 received' = [received EXCEPT ![o] = @ + 1],
                 handler' = [handler EXCEPT ![h].todo = @ \ {u}],
                 UNCHANGED upload
          PROVE  DataTypes' /\ HandlerTypes'
      <4>1. o \in Offers /\ u \in AllUnits  BY <1>3, <3>0
      <4>2. landed' \in [Offers -> SUBSET AllUnits] /\ unframed' \in [Offers -> SUBSET AllUnits]
            BY <1>0, <3>2, <4>1 DEF DataTypes
      <4>3. received' \in [Offers -> Nat]  BY <1>0, <3>2, <4>1 DEF DataTypes
      <4>4. HandlerTypes'
        <5>1. handler[h].todo \ {u} \in SUBSET handler[h].todo  OBVIOUS
        <5> QED BY <1>0, <3>2, <5>1, HandlerParts
      <4> QED BY <1>0, <3>0, <3>2, <4>2, <4>3, <4>4 DEF DataTypes, fileVars
    <3> QED BY <2>3, <3>1, <3>2 DEF UploadCopy, GiveUp
  <2>4. CASE UploadPartDone(h)
    <3>1. HandlerTypes'
          BY <1>0, <2>4, HandlerParts DEF UploadPartDone, HandlerStates
    <3> QED BY <1>0, <2>4, <3>1, StutterTypes DEF UploadPartDone
  <2>5. CASE UploadBroken(h)
    <3>1. HandlerTypes'  BY <1>0, <2>5, HandlerParts DEF UploadBroken, GiveUp
    <3> QED BY <1>0, <2>5, <3>1, RespondTypes DEF UploadBroken
  <2>6. CASE UploadEnd(h)
    <3>1. HandlerTypes'
          BY <1>0, <2>6, HandlerParts DEF UploadEnd, HandlerStates
    <3> QED BY <1>0, <2>6, <3>1, StutterTypes DEF UploadEnd
  <2>7. CASE UploadOK(h)
    <3>1. HandlerTypes'  BY <1>0, <2>7, HandlerParts DEF UploadOK
    <3> QED BY <1>0, <2>7, <3>1, RespondTypes DEF UploadOK
  <2> QED BY <2>1, <2>2, <2>3, <2>4, <2>5, <2>6, <2>7 DEF WebUpload
<1> QED BY <1>2, <1>4, <1>5 DEF TypeOK

\* The watchdog and the stages of finalizeRecv keep the types.
LEMMA FinalizeRecvTypeOK ==
    ASSUME TypeOK, NEW o \in Offers, Watchdog(o) \/ FinalizeRecv(o)
    PROVE  TypeOK'
<1>0. SlotTypes /\ FinTypes /\ DataTypes /\ HandlerTypes /\ UserTypes
      BY DEF TypeOK
<1>1. UNCHANGED <<handler, upload, netVars, dialog, callVars, prep, answer,
                  decision, armed, canceled>>
      BY DEF FinalizeRecv, Watchdog, FinClose, FinClear, FinReport, slotVars,
             dataVars, userVars, uiVars
<1>2. HandlerTypes'  BY <1>0, <1>1, StutterTypes
<1>3. SlotTypes'
  <2>1. UNCHANGED incoming \/ ClearIncoming(o)
        BY DEF FinalizeRecv, Watchdog, FinClose, FinClear, FinReport, slotVars
  <2>2. incoming' \in Offers \cup {None}  BY <1>0, <2>1 DEF SlotTypes, ClearIncoming
  <2> QED BY <1>0, <1>1, <2>2 DEF SlotTypes
<1>4. FinTypes'
  <2>1. CASE Watchdog(o)
        BY <1>0, <2>1, FinalizeTypes DEF Watchdog
  <2>2. CASE FinClose(o)  BY <1>0, <2>2 DEF FinClose, FinTypes
  <2>3. CASE FinClear(o)  BY <1>0, <2>3 DEF FinClear, FinTypes
  <2>4. CASE FinReport(o)
    <3>1. verdict[o] \in Outcomes  BY <1>0, <2>4 DEF FinTypes, FinReport
    <3>2. reported' \in [Offers -> Seq(Outcomes)]
          BY <1>0, <2>4, <3>1 DEF FinReport, FinTypes
    <3>3. fin' = [fin EXCEPT ![o] = "done"] /\ UNCHANGED <<canceled, verdict>>
          BY <2>4 DEF FinReport
    <3> QED BY <1>0, <2>4, <3>1, <3>2, <3>3 DEF FinTypes
  <2> QED BY <2>1, <2>2, <2>3, <2>4 DEF FinalizeRecv
<1>5. DataTypes'
  <2>1. handle' \in [Offers -> [Files -> {"nil", "open", "closed"}]]
    <3>1. UNCHANGED handle \/ CloseHandles(o)
          BY DEF FinalizeRecv, Watchdog, FinClose, FinClear, FinReport, dataVars, fileVars
    <3> QED BY <1>0, <3>1 DEF DataTypes, CloseHandles
  <2>2. disk' \in [Offers -> {"none", "partial", "made", "removed"}]
    <3>1. \/ UNCHANGED disk
          \/ disk' = [disk EXCEPT ![o] = IF verdict[o] = "canceled" THEN "removed" ELSE @]
          BY DEF FinalizeRecv, Watchdog, FinClose, FinClear, FinReport, dataVars, fileVars
    <3> QED BY <1>0, <3>1 DEF DataTypes
  <2> QED BY <1>0, <1>1, <2>1, <2>2 DEF DataTypes, netVars
<1>6. UserTypes'
  <2>1. UNCHANGED banner \/ Emit(o, verdict[o])
        BY DEF FinalizeRecv, Watchdog, FinClose, FinClear, FinReport, userVars, uiVars
  <2>2. verdict[o] \in Outcomes \cup {"none"}  BY <1>0 DEF FinTypes
  <2> QED BY <1>0, <1>1, <2>1, <2>2 DEF UserTypes, Emit, callVars
<1> QED BY <1>2, <1>3, <1>4, <1>5, <1>6 DEF TypeOK

UserStep == \/ \E k \in Callers : \/ \E op \in {"accept", "decline"} : Click(k, op)
                                  \/ ClickCancel(k) \/ Call(k)
            \/ Dismiss \/ Shutdown \/ RunCancel

\* The steps of the UI and of the shutdown keep the types.
LEMMA UserTypeOK ==
    ASSUME TypeOK, UserStep
    PROVE  TypeOK'
<1>0. SlotTypes /\ FinTypes /\ DataTypes /\ HandlerTypes /\ UserTypes
      BY DEF TypeOK
<1>1. UNCHANGED <<dataVars, incoming, prep, answer, armed, reported>>
      BY DEF UserStep, Click, ClickCancel, Dismiss, Shutdown, RunCancel, Call,
             CallLooksUp, RespondIncoming, CancelIncoming, CancelFinalizes,
             slotVars, finVars
<1>2. HandlerTypes' /\ DataTypes'  BY <1>0, <1>1, StutterTypes DEF dataVars
<1>3. SlotTypes'
  <2>1. CASE UNCHANGED decision  BY <1>0, <1>1, <2>1, StutterTypes DEF slotVars
  <2>2. ASSUME NEW k \in Callers, NEW d \in {"accept", "decline"}, SendDecision(k, d)
        PROVE  SlotTypes'
    <3>1. call[k].for \in Offers \cup {None}  BY <1>0 DEF UserTypes
    <3>2. decision' \in [Offers -> Decisions]
          BY <1>0, <2>2, <3>1 DEF SendDecision, SlotTypes, Decisions
    <3> QED BY <1>0, <1>1, <3>2 DEF SlotTypes
  <2> QED BY <2>1, <2>2
          DEF UserStep, Click, ClickCancel, Dismiss, Shutdown, RunCancel, Call,
              CallLooksUp, RespondIncoming, CancelIncoming, CancelFinalizes, slotVars
<1>4. FinTypes'
  <2>1. ASSUME NEW k \in Callers, CancelIncoming(k)  PROVE FinTypes'
    <3>1. canceled' \in [Offers -> BOOLEAN]
          BY <1>0, <2>1 DEF CancelIncoming, FinTypes
    <3> QED BY <1>0, <2>1, <3>1 DEF CancelIncoming, FinTypes
  <2>2. ASSUME NEW k \in Callers, CancelFinalizes(k)  PROVE FinTypes'
    <3>1. call[k].of \in Offers  BY <1>0, <2>2 DEF CancelFinalizes, UserTypes
    <3> QED BY <1>0, <2>2, <3>1, FinalizeTypes DEF CancelFinalizes
  <2>3. CASE UNCHANGED finVars  BY <1>0, <2>3, StutterTypes
  <2> QED BY <2>1, <2>2, <2>3
          DEF UserStep, Click, ClickCancel, Dismiss, Shutdown, RunCancel, Call,
              CallLooksUp, RespondIncoming
<1>5. UserTypes'
  <2>1. ASSUME NEW k \in Callers, NEW op \in {"accept", "decline"}, Click(k, op)
        PROVE  UserTypes'
    <3>1. dialog' \in Offers \cup {None}
          BY <1>0, <2>1 DEF Click, uiVars, UserTypes
    <3>2. banner' \in [of : Offers \cup {None},
                       state : Outcomes \cup {"none", "waiting", "transferring"}]
          BY <1>0, <2>1 DEF Click, uiVars, NoBanner, UserTypes
    <3>3. call' = [call EXCEPT ![k] =
             [at |-> "called", op |-> op, of |-> None, for |-> dialog]]
          BY <2>1 DEF Click
    <3> QED BY <1>0, <2>1, <3>1, <3>2, <3>3 DEF Click, UserTypes
  <2>2. ASSUME NEW k \in Callers, ClickCancel(k)  PROVE UserTypes'
        BY <1>0, <2>2 DEF ClickCancel, uiVars, UserTypes
  <2>3. CASE Dismiss  BY <1>0, <2>3 DEF Dismiss, NoBanner, callVars, UserTypes
  <2>4. CASE Shutdown
        BY <1>0, <2>4, ReceiverConstants DEF Shutdown, uiVars, UserTypes
  <2>5. CASE RunCancel  BY <1>0, <2>5 DEF RunCancel, uiVars, UserTypes
  <2>6. ASSUME NEW k \in Callers, CallLooksUp(k)  PROVE UserTypes'
        BY <1>0, <2>6 DEF CallLooksUp, uiVars, UserTypes, SlotTypes
  <2>7. ASSUME NEW k \in Callers,
               RespondIncoming(k) \/ CancelIncoming(k) \/ CancelFinalizes(k)
        PROVE  UserTypes'
    <3>1. Hangup(k) \/ (call[k].at = "found" /\ call' = [call EXCEPT ![k].at = "flagged"])
          BY <2>7 DEF RespondIncoming, CancelIncoming, CancelFinalizes
    <3>2. UNCHANGED <<dialog, banner, appDone>>
          BY <2>7 DEF RespondIncoming, CancelIncoming, CancelFinalizes, uiVars
    <3> QED BY <1>0, <3>1, <3>2 DEF Hangup, UserTypes
  <2> QED BY <2>1, <2>2, <2>3, <2>4, <2>5, <2>6, <2>7 DEF UserStep, Call
<1> QED BY <1>2, <1>3, <1>4, <1>5 DEF TypeOK

\* Every step of the specification is one of those above.
LEMMA NextSplit ==
    Next <=> \/ \E o \in Offers : \/ PrepareUpload(o)
                                 \/ Watchdog(o) \/ FinalizeRecv(o)
             \/ \E h \in Handlers : DataStream(h) \/ WebUpload(h)
             \/ UserStep
BY DEF Next, UserStep

\* The type invariant is inductive.
LEMMA NextTypeOK == TypeOK /\ [Next]_vars => TypeOK'
<1> SUFFICES ASSUME TypeOK, [Next]_vars PROVE TypeOK'  OBVIOUS
<1>1. CASE UNCHANGED vars
      BY <1>1, StutterTypes DEF TypeOK, vars, dataVars
<1>2. CASE Next
      BY <1>2, NextSplit, PrepareTypeOK, FinalizeRecvTypeOK, DataStreamTypeOK,
         WebUploadTypeOK, UserTypeOK
<1> QED BY <1>1, <1>2

\* Every variable keeps its type; in particular no goroutine and no UI call
\* goes on with a nil session, and none writes outside its offer's files.
THEOREM TypeCorrect == Spec => []TypeOK
<1>1. Init => TypeOK  BY InitTypeOK
<1>2. TypeOK /\ [Next]_vars => TypeOK'  BY NextTypeOK
<1> QED BY <1>1, <1>2, PTL DEF Spec

(***************************************************************************)
(* The slot and the reports                                                *)
(***************************************************************************)

Active(h) == handler[h].at \notin {"idle", "end"}

\* sess.token is set in the order the code sets it, finalizeRecv runs only after
\* it, and a goroutine or a cancel that may run it found it set.
ArmedFirst ==
    /\ \A o \in Offers :
          /\ armed[o] => prep[o] \in {"armed", "finishing", "over"}
          /\ prep[o] \in {"armed", "finishing"} => armed[o]
          /\ fin[o] # "no" => armed[o]
          /\ answer[o] = 200 => armed[o]
    /\ \A h \in Handlers : Active(h) => armed[handler[h].of]
    /\ \A k \in Callers : call[k].at = "flagged" => armed[call[k].of]

\* Whoever reports for o is the last to: finalizeRecv if o was accepted, else
\* PrepareUpload.
ReportedLast ==
    \A o \in Offers : reported[o] # <<>> =>
        /\ Len(reported[o]) = 1
        /\ IF armed[o] THEN fin[o] = "done" ELSE prep[o] = "over"

\* The inductive invariant.
SlotInv == TypeOK /\ ArmedFirst /\ SlotOwner /\ ReportedLast

\* The slot invariant holds initially.
LEMMA InitSlotInv == Init => SlotInv
<1> SUFFICES ASSUME Init PROVE SlotInv  OBVIOUS
<1>1. TypeOK  BY InitTypeOK
<1>2. ArmedFirst  BY DEF Init, ArmedFirst, Active, Idle, IdleCall
<1>3. SlotOwner  BY ReceiverConstants DEF Init, SlotOwner, Holding
<1>4. ReportedLast  BY DEF Init, ReportedLast
<1> QED BY <1>1, <1>2, <1>3, <1>4 DEF SlotInv

\* At most the first stage of finalizeRecv begins, for a session that is armed.
FinStarts == \A o \in Offers :
    \/ fin'[o] = fin[o]
    \/ fin[o] = "no" /\ fin'[o] = "closing" /\ armed[o]

\* What the sync.Once changes, whichever goroutine calls finalizeRecv.
LEMMA FinalizeStarts ==
    ASSUME FinTypes, NEW o \in Offers, NEW success, Finalize(o, success), armed[o]
    PROVE  FinStarts
BY DEF Finalize, FinStarts, FinTypes

\* A step of anyone but PrepareUpload and finalizeRecv: it leaves the slot alone.
LEMMA Bystander ==
    ASSUME SlotInv, TypeOK', FinStarts,
           UNCHANGED <<incoming, prep, answer, armed, reported>>,
           \A h \in Handlers : Active(h)' => armed[handler'[h].of],
           \A k \in Callers : call'[k].at = "flagged" => armed[call'[k].of]
    PROVE  SlotInv'
<1>1. ArmedFirst'  BY DEF SlotInv, ArmedFirst, FinStarts
<1>2. SlotOwner'  BY DEF SlotInv, SlotOwner, Holding, FinStarts
<1>3. ReportedLast'  BY DEF SlotInv, ReportedLast, FinStarts
<1> QED BY <1>1, <1>2, <1>3 DEF SlotInv

\* A goroutine that goes on serves the same offer, and touches no other.
Kept(h) == /\ \A g \in Handlers : g # h => handler'[g] = handler[g]
           /\ handler'[h].of = handler[h].of
           /\ Active(h)

\* A step of a data goroutine leaves the other ones, and its own session, as they are.
LEMMA HandlerKept ==
    ASSUME HandlerTypes, NEW h \in Handlers, DataStream(h) \/ WebUpload(h),
           ~\E o \in Offers : DataOpen(h, o) \/ UploadOpen(h, o)
    PROVE  Kept(h)
<1> USE DEF HandlerTypes, Kept, Active
<1>1. CASE DataCheck(h)  BY <1>1 DEF DataCheck, Leave, StepTo, Idle
<1>2. CASE DataFrame(h)
  <2>1. Leave(h) \/ \E s : handler' = [handler EXCEPT ![h].at = "body", ![h].todo = s]
        BY <1>2 DEF DataFrame, GiveUp
  <2>2. Active(h)  BY <1>2 DEF DataFrame
  <2> QED BY <2>1, <2>2 DEF Leave, Idle
<1>3. CASE DataBadFrame(h)  BY <1>3 DEF DataBadFrame, GiveUp, Leave, Idle
<1>4. CASE DataEOF(h)  BY <1>4 DEF DataEOF, Leave, Idle
<1>5. CASE DataWrite(h)
  <2>1. Leave(h) \/ \E s : handler' = [handler EXCEPT ![h].at = "count", ![h].todo = s]
        BY <1>5 DEF DataWrite, GiveUp
  <2>2. Active(h)  BY <1>5 DEF DataWrite
  <2> QED BY <2>1, <2>2 DEF Leave, Idle
<1>6. CASE DataCount(h)  BY <1>6 DEF DataCount, Leave, StepTo, Idle
<1>7. CASE UploadPart(h)
  <2>1. Leave(h) \/ \E l, s : handler' = [handler EXCEPT
                  ![h].at = "copy", ![h].left = l, ![h].todo = s]
        BY <1>7 DEF UploadPart, GiveUp
  <2>2. Active(h)  BY <1>7 DEF UploadPart
  <2> QED BY <2>1, <2>2 DEF Leave, Idle
<1>8. CASE UploadCopy(h)
  <2>1. Leave(h) \/ \E s : handler' = [handler EXCEPT ![h].todo = s]
        BY <1>8 DEF UploadCopy, GiveUp
  <2>2. Active(h)  BY <1>8 DEF UploadCopy
  <2> QED BY <2>1, <2>2 DEF Leave, Idle
<1>9. CASE UploadPartDone(h)  BY <1>9 DEF UploadPartDone, StepTo
<1>10. CASE UploadBroken(h)  BY <1>10 DEF UploadBroken, GiveUp, Leave, Idle
<1>11. CASE UploadEnd(h)  BY <1>11 DEF UploadEnd, StepTo
<1>12. CASE UploadOK(h)  BY <1>12 DEF UploadOK, Leave, Idle
<1> QED BY <1>1, <1>2, <1>3, <1>4, <1>5, <1>6, <1>7, <1>8, <1>9, <1>10, <1>11, <1>12
        DEF DataStream, WebUpload

\* Data streams keep the slot invariant.
LEMMA DataStreamSlot ==
    ASSUME SlotInv, NEW h \in Handlers, DataStream(h) \/ WebUpload(h), TypeOK'
    PROVE  SlotInv'
<1>0. TypeOK /\ HandlerTypes /\ FinTypes /\ ArmedFirst  BY DEF SlotInv, TypeOK
<1>1. UNCHANGED <<incoming, prep, answer, armed, reported, call>>
      BY DEF DataStream, DataOpen, DataCheck, DataFrame, DataBadFrame, DataEOF,
             DataWrite, DataCount, WebUpload, UploadOpen, UploadPart, UploadCopy,
             UploadPartDone, UploadBroken, UploadEnd, UploadOK, slotVars, finVars,
             userVars, callVars
<1>2. Active(h) => armed[handler[h].of] /\ handler[h].of \in Offers
      BY <1>0 DEF ArmedFirst, HandlerTypes, Active
<1>3. FinStarts
  <2>1. CASE UNCHANGED fin  BY <2>1 DEF FinStarts
  <2>2. CASE ~Active(h)
        BY <2>2 DEF Active, DataStream, DataOpen, DataCheck, DataFrame, DataBadFrame,
             DataEOF, DataWrite, DataCount, WebUpload, UploadOpen, UploadPart,
             UploadCopy, UploadPartDone, UploadBroken, UploadEnd, UploadOK, finVars,
             FinStarts
  <2>3. CASE Active(h) /\ (Finalize(handler[h].of, TRUE) \/ Finalize(handler[h].of, FALSE))
        BY <1>0, <1>2, <2>3, FinalizeStarts
  <2>4. \/ UNCHANGED fin \/ ~Active(h)
        \/ Finalize(handler[h].of, TRUE) \/ Finalize(handler[h].of, FALSE)
    <3>1. CASE DataStream(h)
          BY <3>1 DEF DataStream, DataOpen, DataCheck, DataFrame, DataBadFrame,
               DataEOF, DataWrite, DataCount, finVars, GiveUp
    <3>2. CASE WebUpload(h)
          BY <3>2 DEF WebUpload, UploadOpen, UploadPart, UploadCopy, UploadPartDone,
               UploadBroken, UploadEnd, UploadOK, finVars, GiveUp
    <3> QED BY <3>1, <3>2
  <2> QED BY <2>1, <2>2, <2>3, <2>4
<1>4. \A g \in Handlers : Active(g)' => armed[handler'[g].of]
  <2>1. ASSUME NEW o \in Offers, DataOpen(h, o)
        PROVE  \A g \in Handlers : Active(g)' => armed[handler'[g].of]
        BY <1>0, <2>1 DEF DataOpen, HandlerTypes, ArmedFirst, Active, Idle
  <2>2. ASSUME NEW o \in Offers, UploadOpen(h, o)
        PROVE  \A g \in Handlers : Active(g)' => armed[handler'[g].of]
        BY <1>0, <2>2 DEF UploadOpen, HandlerTypes, Active, ArmedFirst
  <2>3. CASE Kept(h)  BY <1>0, <2>3 DEF Kept, ArmedFirst, Active
  <2> QED BY <1>0, <2>1, <2>2, <2>3, HandlerKept
<1>5. \A k \in Callers : call'[k].at = "flagged" => armed[call'[k].of]
      BY <1>0, <1>1 DEF ArmedFirst
<1> QED BY <1>1, <1>3, <1>4, <1>5, Bystander

\* UI calls and the shutdown keep the slot invariant.
LEMMA UserSlot ==
    ASSUME SlotInv, UserStep, TypeOK'
    PROVE  SlotInv'
<1>0. TypeOK /\ UserTypes /\ FinTypes /\ ArmedFirst  BY DEF SlotInv, TypeOK
<1>1. UNCHANGED <<incoming, prep, answer, armed, reported, handler>>
      BY DEF UserStep, Click, ClickCancel, Dismiss, Shutdown, RunCancel, Call,
             CallLooksUp, RespondIncoming, CancelIncoming, CancelFinalizes,
             slotVars, finVars, dataVars
<1>2. FinStarts
  <2>1. ASSUME NEW k \in Callers, CancelFinalizes(k)  PROVE FinStarts
    <3>1. call[k].of \in Offers /\ armed[call[k].of]
          BY <1>0, <2>1 DEF CancelFinalizes, UserTypes, ArmedFirst
    <3> QED BY <1>0, <2>1, <3>1, FinalizeStarts DEF CancelFinalizes
  <2>2. CASE UNCHANGED fin  BY <2>2 DEF FinStarts
  <2> QED BY <2>1, <2>2
          DEF UserStep, Click, ClickCancel, Dismiss, Shutdown, RunCancel, Call,
              CallLooksUp, RespondIncoming, CancelIncoming, finVars
<1>3. \A k \in Callers : call'[k].at = "flagged" => armed[call'[k].of]
  <2>1. ASSUME NEW k \in Callers, CancelIncoming(k)
        PROVE  \A j \in Callers : call'[j].at = "flagged" => armed[call'[j].of]
        BY <1>0, <2>1 DEF CancelIncoming, Hangup, UserTypes, ArmedFirst
  <2>2. ASSUME NEW k \in Callers,
               \/ RespondIncoming(k) \/ CancelFinalizes(k) \/ CallLooksUp(k)
               \/ ClickCancel(k) \/ \E op \in {"accept", "decline"} : Click(k, op)
        PROVE  \A j \in Callers : call'[j].at = "flagged" => armed[call'[j].of]
    <3>1. /\ \A j \in Callers : j # k => call'[j] = call[j]
          /\ call'[k].at # "flagged"
      <4>1. CASE RespondIncoming(k) \/ CancelFinalizes(k)
            BY <1>0, <4>1 DEF RespondIncoming, CancelFinalizes, Hangup, UserTypes
      <4>2. CASE CallLooksUp(k)  BY <1>0, <4>2 DEF CallLooksUp, UserTypes
      <4>3. CASE ClickCancel(k) \/ \E op \in {"accept", "decline"} : Click(k, op)
            BY <1>0, <4>3 DEF ClickCancel, Click, UserTypes
      <4> QED BY <2>2, <4>1, <4>2, <4>3
    <3> QED BY <1>0, <3>1 DEF ArmedFirst
  <2>3. CASE Dismiss \/ Shutdown \/ RunCancel
        BY <1>0, <2>3, ReceiverConstants
           DEF Dismiss, Shutdown, RunCancel, callVars, UserTypes, ArmedFirst
  <2> QED BY <2>1, <2>2, <2>3 DEF UserStep, Call
<1>4. \A h \in Handlers : Active(h)' => armed[handler'[h].of]
      BY <1>0, <1>1 DEF ArmedFirst, Active
<1> QED BY <1>1, <1>2, <1>3, <1>4, Bystander

\* finalizeRecv and the watchdog act on an armed session only.
LEMMA FinalizeSlot ==
    ASSUME SlotInv, NEW o \in Offers, Watchdog(o) \/ FinalizeRecv(o), TypeOK'
    PROVE  SlotInv'
<1>0. TypeOK /\ SlotTypes /\ FinTypes /\ ArmedFirst /\ SlotOwner /\ ReportedLast
      BY DEF SlotInv, TypeOK
<1>1. UNCHANGED <<prep, answer, armed, handler, call>>
      BY DEF Watchdog, FinalizeRecv, FinClose, FinClear, FinReport, slotVars,
             dataVars, userVars, callVars
<1>2. /\ \A h \in Handlers : Active(h)' => armed[handler'[h].of]
      /\ \A k \in Callers : call'[k].at = "flagged" => armed[call'[k].of]
      BY <1>0, <1>1 DEF ArmedFirst, Active
<1>3. CASE Watchdog(o)
  <2>1. FinStarts  BY <1>0, <1>3, FinalizeStarts DEF Watchdog
  <2>2. UNCHANGED <<incoming, prep, answer, armed, reported>>
        BY <1>3 DEF Watchdog, slotVars
  <2> QED BY <1>2, <2>1, <2>2, Bystander
<1>4. CASE FinalizeRecv(o)
  <2>1. armed[o] /\ fin[o] # "no" /\ fin[o] # "done"
        BY <1>0, <1>4 DEF ArmedFirst, FinalizeRecv, FinClose, FinClear, FinReport
  <2>2. \A p \in Offers : fin'[p] # "no" => armed[p]
        BY <1>0, <1>4, <2>1 DEF ArmedFirst, FinTypes, FinalizeRecv, FinClose, FinClear, FinReport
  <2>3. ArmedFirst'  BY <1>0, <1>1, <1>2, <2>2 DEF ArmedFirst
  <2>4. SlotOwner'
    <3>1. CASE FinClose(o)
          BY <1>0, <3>1 DEF FinClose, slotVars, SlotOwner, Holding, FinTypes
    <3>2. CASE FinClear(o)
          BY <1>0, <1>1, <2>1, <3>2, ReceiverConstants
             DEF FinClear, ClearIncoming, SlotOwner, Holding, FinTypes
    <3>3. CASE FinReport(o)
          BY <1>0, <3>3 DEF FinReport, slotVars, SlotOwner, Holding, FinTypes
    <3> QED BY <1>4, <3>1, <3>2, <3>3 DEF FinalizeRecv
  <2>5. ReportedLast'
    <3>1. CASE FinReport(o)
      <4>1. reported[o] = <<>>  BY <1>0, <2>1 DEF ReportedLast
      <4>2. Len(reported'[o]) = 1 /\ fin'[o] = "done"
            BY <1>0, <3>1, <4>1 DEF FinReport, FinTypes
      <4>3. \A p \in Offers : p # o => reported'[p] = reported[p] /\ fin'[p] = fin[p]
            BY <1>0, <3>1 DEF FinReport, FinTypes
      <4> QED BY <1>0, <1>1, <2>1, <4>2, <4>3 DEF ReportedLast
    <3>2. CASE FinClose(o) \/ FinClear(o)
      <4>1. UNCHANGED reported /\ \A p \in Offers : p # o => fin'[p] = fin[p]
            BY <1>0, <3>2 DEF FinClose, FinClear, FinTypes
      <4>2. reported[o] = <<>>  BY <1>0, <2>1 DEF ReportedLast
      <4> QED BY <1>0, <1>1, <4>1, <4>2 DEF ReportedLast
    <3> QED BY <1>4, <3>1, <3>2 DEF FinalizeRecv
  <2> QED BY <2>3, <2>4, <2>5 DEF SlotInv
<1> QED BY <1>3, <1>4

\* A step of PrepareUpload changes prep, and for an early end the slot, of its
\* own offer only.
LEMMA PrepareOwn ==
    ASSUME TypeOK, NEW o \in Offers, PrepareUpload(o)
    PROVE  /\ \A p \in Offers : p # o => /\ prep'[p] = prep[p] /\ armed'[p] = armed[p]
                                       /\ answer'[p] = answer[p] /\ fin'[p] = fin[p]
                                       /\ reported'[p] = reported[p]
           /\ UNCHANGED <<handler, call>>
<1>0. SlotTypes /\ FinTypes  BY DEF TypeOK
<1> USE DEF SlotTypes, FinTypes, Goto, dataVars, finVars, userVars, callVars
<1>1. CASE Register(o)  BY <1>0, <1>1 DEF Register
<1>2. CASE Announce(o)  BY <1>0, <1>2 DEF Announce
<1>3. CASE TakeAccept(o)  BY <1>0, <1>3 DEF TakeAccept
<1>4. CASE TakeDecline(o) \/ AcceptTimeout(o) \/ AppClosing(o)
      BY <1>0, <1>4 DEF TakeDecline, AcceptTimeout, AppClosing, Ending
<1>5. CASE PrepareDestFiles(o)  BY <1>0, <1>5 DEF PrepareDestFiles
<1>6. CASE ReportEnd(o)  BY <1>0, <1>6 DEF ReportEnd
<1>7. CASE Arm(o)  BY <1>0, <1>7 DEF Arm
<1>8. CASE StartReceiving(o)  BY <1>0, <1>8 DEF StartReceiving, Finalize
<1>9. CASE AnswerEmpty(o)  BY <1>0, <1>9 DEF AnswerEmpty
<1> QED BY <1>1, <1>2, <1>3, <1>4, <1>5, <1>6, <1>7, <1>8, <1>9
        DEF PrepareUpload, PrepareSteps

\* The steps of PrepareUpload keep the slot invariant.
LEMMA PrepareSlot ==
    ASSUME SlotInv, NEW o \in Offers, PrepareUpload(o), TypeOK'
    PROVE  SlotInv'
<1>0. TypeOK /\ SlotTypes /\ FinTypes /\ ArmedFirst /\ SlotOwner /\ ReportedLast
      BY DEF SlotInv, TypeOK
<1>1. /\ \A p \in Offers : p # o => /\ prep'[p] = prep[p] /\ armed'[p] = armed[p]
                                   /\ answer'[p] = answer[p] /\ fin'[p] = fin[p]
                                   /\ reported'[p] = reported[p]
      /\ UNCHANGED <<handler, call>>
      BY <1>0, PrepareOwn
<1>2. \A p \in Offers : armed[p] => armed'[p]
  <2>1. UNCHANGED armed \/ armed' = [armed EXCEPT ![o] = TRUE]
        BY DEF PrepareUpload, PrepareSteps, Register, Announce, TakeAccept,
               TakeDecline, AcceptTimeout, AppClosing, Ending, PrepareDestFiles,
               ReportEnd, Arm, StartReceiving, AnswerEmpty
  <2> QED BY <1>0, <2>1 DEF SlotTypes
<1> DEFINE First == /\ armed'[o] => prep'[o] \in {"armed", "finishing", "over"}
                    /\ prep'[o] \in {"armed", "finishing"} => armed'[o]
                    /\ fin'[o] # "no" => armed'[o]
                    /\ answer'[o] = 200 => armed'[o]
           Owns == (Holding(o) <=> incoming = o)'
           Others == \A p \in Offers : p # o => (incoming' = p <=> incoming = p)
           Last == reported'[o] # <<>> =>
                      /\ Len(reported'[o]) = 1
                      /\ IF armed'[o] THEN fin'[o] = "done" ELSE prep'[o] = "over"
<1>3. First /\ Owns /\ Others /\ Last
  <2> USE DEF SlotTypes, FinTypes, Goto, finVars, Holding
  <2>0. /\ armed[o] => prep[o] \in {"armed", "finishing", "over"}
        /\ prep[o] \in {"armed", "finishing"} => armed[o]
        /\ fin[o] # "no" => armed[o]
        /\ answer[o] = 200 => armed[o]
        /\ Holding(o) <=> incoming = o
        /\ reported[o] # <<>> =>
              /\ Len(reported[o]) = 1
              /\ IF armed[o] THEN fin[o] = "done" ELSE prep[o] = "over"
        BY <1>0 DEF ArmedFirst, SlotOwner, ReportedLast
  <2>1. CASE Register(o)
    <3>1. ~armed[o] /\ fin[o] = "no" /\ reported[o] = <<>> /\ incoming # o
          BY <1>0, <2>0, <2>1 DEF Register
    <3>2. UNCHANGED <<armed, fin, reported>>  BY <2>1 DEF Register
    <3>3. answer'[o] # 200  BY <1>0, <2>0, <2>1, <3>1 DEF Register
    <3>4. CASE prep' = [prep EXCEPT ![o] = "registered"] /\ incoming = None /\ incoming' = o
          BY <1>0, <3>1, <3>2, <3>3, <3>4, ReceiverConstants
    <3>5. CASE prep' = [prep EXCEPT ![o] = "over"] /\ incoming' = incoming
          BY <1>0, <3>1, <3>2, <3>3, <3>5
    <3> QED BY <2>1, <3>4, <3>5 DEF Register
  <2>2. CASE Announce(o)  BY <1>0, <2>0, <2>2 DEF Announce
  <2>3. CASE TakeAccept(o)  BY <1>0, <2>0, <2>3 DEF TakeAccept
  <2>4. CASE TakeDecline(o) \/ AcceptTimeout(o) \/ AppClosing(o)
    <3>1. /\ prep[o] = "waiting"
          /\ \E pc \in {"declined", "expired", "closing"} : prep' = [prep EXCEPT ![o] = pc]
          /\ incoming' = IF incoming = o THEN None ELSE incoming
          /\ UNCHANGED <<answer, armed, fin, reported>>
          BY <2>4 DEF TakeDecline, AcceptTimeout, AppClosing, Ending, ClearIncoming
    <3>2. ~armed[o] /\ fin[o] = "no" /\ incoming = o /\ reported[o] = <<>>
          BY <2>0, <3>1
    <3>3. prep'[o] \in {"declined", "expired", "closing"} /\ incoming' = None
          BY <1>0, <3>1, <3>2
    <3>4. First /\ Last  BY <2>0, <3>1, <3>2, <3>3
    <3> QED BY <3>1, <3>2, <3>3, <3>4, ReceiverConstants
  <2>5. CASE PrepareDestFiles(o)
    <3>1. /\ prep[o] = "accepted" /\ UNCHANGED <<answer, armed, fin, reported>>
          BY <2>5 DEF PrepareDestFiles
    <3>2. CASE prep' = [prep EXCEPT ![o] = "prepared"] /\ UNCHANGED incoming
          BY <1>0, <2>0, <3>1, <3>2
    <3>3. CASE /\ prep' = [prep EXCEPT ![o] = "diskError"]
               /\ incoming' = IF incoming = o THEN None ELSE incoming
          BY <1>0, <2>0, <3>1, <3>3, ReceiverConstants
    <3> QED BY <2>5, <3>2, <3>3 DEF PrepareDestFiles, ClearIncoming
  <2>6. CASE ReportEnd(o)
    <3>1. /\ prep[o] \in Ends /\ ~armed[o] /\ fin[o] = "no" /\ reported[o] = <<>>
          /\ incoming # o
      <4>1. prep[o] \in Ends  BY <2>6 DEF ReportEnd
      <4>2. ~armed[o]  BY <2>0, <4>1
      <4> QED BY <1>0, <2>0, <4>1, <4>2
    <3>2. answer'[o] # 200
      <4>1. answer'[o] = EndStatus[prep[o]]  BY <1>0, <2>6 DEF ReportEnd
      <4>2. EndStatus[prep[o]] \in {403, 408, 500, 503}  BY <3>1 DEF EndStatus
      <4> QED BY <4>1, <4>2
    <3>3. Len(reported'[o]) = 1
          BY <1>0, <2>6, <3>1 DEF ReportEnd
    <3>4. /\ prep' = [prep EXCEPT ![o] = "over"]
          /\ UNCHANGED <<incoming, armed, fin>>
          BY <2>6 DEF ReportEnd
    <3> QED BY <1>0, <2>0, <3>1, <3>2, <3>3, <3>4
  <2>7. CASE Arm(o)
    <3>1. /\ prep[o] = "prepared" /\ prep' = [prep EXCEPT ![o] = "armed"]
          /\ armed' = [armed EXCEPT ![o] = TRUE]
          /\ UNCHANGED <<incoming, answer, fin, reported>>
          BY <2>7 DEF Arm
    <3>2. ~armed[o] /\ fin[o] = "no" /\ reported[o] = <<>>  BY <1>0, <2>0, <3>1
    <3> QED BY <1>0, <2>0, <3>1, <3>2
  <2>8. CASE StartReceiving(o)
    <3>1. /\ prep[o] = "armed" /\ armed[o] /\ UNCHANGED <<incoming, armed, reported>>
          /\ \E pc \in {"finishing", "over"} : prep' = [prep EXCEPT ![o] = pc]
          BY <2>0, <2>8 DEF StartReceiving
    <3>2. fin'[o] = fin[o] \/ (fin[o] = "no" /\ fin'[o] = "closing")
      <4>1. Finalize(o, TRUE) \/ UNCHANGED fin  BY <2>8 DEF StartReceiving
      <4> QED BY <1>0, <4>1 DEF Finalize
    <3> QED BY <1>0, <2>0, <3>1, <3>2
  <2>9. CASE AnswerEmpty(o)
    <3>1. /\ prep[o] = "finishing" /\ armed[o] /\ prep' = [prep EXCEPT ![o] = "over"]
          /\ UNCHANGED <<incoming, armed, fin, reported>>
          BY <2>0, <2>9 DEF AnswerEmpty
    <3> QED BY <1>0, <2>0, <3>1
  <2> QED BY <2>1, <2>2, <2>3, <2>4, <2>5, <2>6, <2>7, <2>8, <2>9
          DEF PrepareUpload, PrepareSteps
<1>4. ArmedFirst'
  <2>1. /\ \A h \in Handlers : Active(h)' => armed'[handler'[h].of]
        /\ \A k \in Callers : call'[k].at = "flagged" => armed'[call'[k].of]
    <3>1. /\ \A h \in Handlers : Active(h) => handler[h].of \in Offers
          /\ \A k \in Callers : call[k].at = "flagged" => call[k].of \in Offers
          BY <1>0 DEF TypeOK, HandlerTypes, UserTypes, Active
    <3> QED BY <1>0, <1>1, <1>2, <3>1 DEF ArmedFirst, Active
  <2> QED BY <1>0, <1>1, <1>3, <2>1 DEF ArmedFirst
<1>5. SlotOwner'  BY <1>0, <1>1, <1>3 DEF SlotOwner, Holding
<1>6. ReportedLast'  BY <1>0, <1>1, <1>3 DEF ReportedLast
<1> QED BY <1>4, <1>5, <1>6 DEF SlotInv

\* The slot invariant is inductive.
LEMMA NextSlotInv == SlotInv /\ [Next]_vars => SlotInv'
<1> SUFFICES ASSUME SlotInv, [Next]_vars PROVE SlotInv'  OBVIOUS
<1>1. TypeOK'  BY NextTypeOK DEF SlotInv
<1>2. CASE UNCHANGED vars
      BY <1>1, <1>2 DEF SlotInv, ArmedFirst, SlotOwner, Holding, ReportedLast, Active,
         vars, slotVars, finVars, dataVars, userVars, callVars
<1>3. CASE Next
      BY <1>1, <1>3, NextSplit, PrepareSlot, FinalizeSlot, DataStreamSlot, UserSlot
<1> QED BY <1>2, <1>3

\* The invariant holds in every reachable state.
THEOREM SlotInvariant == Spec => []SlotInv
<1>1. Init => SlotInv  BY InitSlotInv
<1>2. SlotInv /\ [Next]_vars => SlotInv'  BY NextSlotInv
<1> QED BY <1>1, <1>2, PTL DEF Spec

\* m.incoming names exactly the one offer that is being asked about or received,
\* whatever the order of answers, timeouts, cancels, streams and shutdown.
THEOREM SlotIsOwned == Spec => []SlotOwner
<1>1. SlotInv => SlotOwner  BY DEF SlotInv
<1> QED BY <1>1, SlotInvariant, PTL

\* An offer reports at most one terminal state, after it let go of the slot.
THEOREM OneReport == Spec => []OneOutcome
<1>1. ASSUME SlotInv, NEW o \in Offers
      PROVE  Len(reported[o]) <= 1 /\ (reported[o] # <<>> => ~Holding(o))
  <2>1. CASE reported[o] = <<>>  BY <2>1
  <2>2. CASE reported[o] # <<>>
    <3>1. /\ Len(reported[o]) = 1
          /\ IF armed[o] THEN fin[o] = "done" ELSE prep[o] = "over"
          BY <1>1, <2>2 DEF SlotInv, ReportedLast
    <3> QED BY <3>1 DEF Holding
  <2> QED BY <2>1, <2>2
<1>2. SlotInv => OneOutcome  BY <1>1 DEF OneOutcome
<1> QED BY <1>2, SlotInvariant, PTL

(***************************************************************************)
(* The units that were written                                             *)
(***************************************************************************)

\* The goroutines of o that wrote a unit and have not counted it.
Counting(o) == {h \in Handlers : handler[h].of = o /\ handler[h].at = "count"}

\* Only units of the offer are written.
LandedInv == \A o \in Offers : landed[o] \subseteq Units(o)

\* Streams serve native offers, POSTs those of browsers; neither starts or ends with
\* a unit on its way.
StageInv ==
    \A h \in Handlers :
        /\ handler[h].at = "idle" => handler[h].of = None
        /\ handler[h].at \in {"idle", "end", "part"} => handler[h].todo = {}
        /\ handler[h].at \in {"check", "header", "body", "count"} => handler[h].of \notin Web
        /\ handler[h].at \in {"part", "copy", "finishing"} => handler[h].of \in Web

\* A unit of a browser's offer is on its way, in a part to come, or written.
WebInv ==
    \A h \in Handlers : handler[h].at \in {"part", "copy"} =>
        \A u \in Units(handler[h].of) : \/ u \in handler[h].todo
                                        \/ u[1] \in handler[h].left
                                        \/ u \in landed[handler[h].of]

\* No unit of a native offer is in two places.
Apart(o) ==
    /\ unframed[o] \cap landed[o] = {}
    /\ \A h \in Handlers : handler[h].of = o =>
          handler[h].todo \cap (unframed[o] \cup landed[o]) = {}
    /\ \A g, h \in Handlers : g # h /\ handler[g].of = o /\ handler[h].of = o =>
          handler[g].todo \cap handler[h].todo = {}

\* So sess.received counts each written unit once, or its goroutine will.
Counted(o) == received[o] + Cardinality(Counting(o)) = Cardinality(landed[o])

NativeInv == \A o \in Offers \ Web : Apart(o) /\ Counted(o)

DataInv == LandedInv /\ StageInv /\ WebInv /\ NativeInv

\* An offer has finitely many units.
LEMMA UnitsFinite ==
    ASSUME NEW o \in Offers
    PROVE  IsFiniteSet(Units(o)) /\ Total(o) \in Nat
<1>1. IsFiniteSet(FilesOf(o))
      BY ReceiverConstants, FS_Subset DEF FilesOf
<1> DEFINE Block == [f \in FilesOf(o) |-> {f} \X (1..Size[o][f])]
           Blocks == {{f} \X (1..Size[o][f]) : f \in FilesOf(o)}
<1>2. Block \in Surjection(FilesOf(o), Blocks)  BY DEF Surjection
<1>3. IsFiniteSet(Blocks)
  <2> HIDE DEF Block, Blocks
  <2> QED BY <1>1, <1>2, FS_Surjection
<1>4. ASSUME NEW f \in FilesOf(o)  PROVE IsFiniteSet({f} \X (1..Size[o][f]))
  <2>1. IsFiniteSet(1..Size[o][f])  BY ReceiverConstants, FS_Interval DEF FilesOf
  <2> QED BY <2>1, FS_Singleton, FS_Product
<1>5. IsFiniteSet(UNION Blocks)
  <2>1. \A T \in Blocks : IsFiniteSet(T)  BY <1>4
  <2> HIDE DEF Blocks
  <2> QED BY <1>3, <2>1, FS_UNION
<1> QED BY <1>5, FS_CardinalityType DEF Units, Total

\* The units written of o, and its goroutines, are finite sets.
LEMMA CountsFinite ==
    ASSUME LandedInv, NEW o \in Offers
    PROVE  /\ IsFiniteSet(landed[o]) /\ Cardinality(landed[o]) \in Nat
           /\ Cardinality(landed[o]) <= Total(o)
           /\ Cardinality(landed[o]) = Total(o) => landed[o] = Units(o)
           /\ IsFiniteSet(Counting(o)) /\ Cardinality(Counting(o)) \in Nat
<1>1. IsFiniteSet(Units(o)) /\ landed[o] \in SUBSET Units(o)
      BY UnitsFinite DEF LandedInv
<1>2. IsFiniteSet(Counting(o))
      BY ReceiverConstants, FS_Subset, Counting(o) \in SUBSET Handlers DEF Counting
<1> QED BY <1>1, <1>2, FS_Subset, FS_CardinalityType DEF Total

\* Only the goroutine h changes its record.
Alters(h) == \A g \in Handlers \ {h} : handler'[g] = handler[g]

\* A step that writes and counts nothing of a native offer, and puts nothing on the
\* way, keeps its units apart and counted.
LEMMA NativeQuiet ==
    ASSUME NativeInv, NEW h \in Handlers, Alters(h),
           \A o \in Offers \ Web : /\ landed'[o] = landed[o]
                                   /\ received'[o] = received[o]
                                   /\ unframed'[o] \subseteq unframed[o],
           \/ handler'[h].todo = {}
           \/ handler'[h].of \in Web
           \/ /\ handler'[h].of = handler[h].of
              /\ handler'[h].todo = handler[h].todo,
           \A o \in Offers \ Web :
              handler'[h].of = o /\ handler'[h].at = "count" <=>
              handler[h].of = o /\ handler[h].at = "count"
    PROVE  NativeInv'
<1> SUFFICES ASSUME NEW o \in Offers \ Web  PROVE (Apart(o) /\ Counted(o))'
    BY DEF NativeInv
<1>1. Apart(o) /\ Counted(o)  BY DEF NativeInv
<1>2. Apart(o)'  BY <1>1 DEF Apart, Alters
<1>3. Counting(o)' = Counting(o)  BY DEF Counting, Alters
<1> QED BY <1>1, <1>2, <1>3 DEF Counted

\* A header takes its units from those not yet on a stream.
LEMMA NativeFrame ==
    ASSUME NativeInv, NEW h \in Handlers, Alters(h), UNCHANGED <<landed, received>>,
           NEW o \in Offers \ Web, NEW s \in SUBSET unframed[o],
           unframed'[o] = unframed[o] \ s,
           \A p \in Offers \ {o} : unframed'[p] = unframed[p],
           handler'[h].of = o, handler'[h].todo = s,
           handler[h].of = o, handler[h].at # "count", handler'[h].at # "count"
    PROVE  NativeInv'
<1> SUFFICES ASSUME NEW p \in Offers \ Web  PROVE (Apart(p) /\ Counted(p))'
    BY DEF NativeInv
<1>1. Apart(p) /\ Counted(p)  BY DEF NativeInv
<1>2. Apart(p)'
  <2>1. unframed'[p] \cap landed'[p] = {}  BY <1>1 DEF Apart
  <2>2. ASSUME NEW g \in Handlers, handler'[g].of = p
        PROVE  handler'[g].todo \cap (unframed'[p] \cup landed'[p]) = {}
    <3>1. CASE g # h
          BY <1>1, <2>2, <3>1 DEF Apart, Alters
    <3>2. CASE g = h
          BY <1>1, <2>2, <3>2 DEF Apart
    <3> QED BY <3>1, <3>2
  <2>3. ASSUME NEW g \in Handlers, NEW i \in Handlers, g # i,
               handler'[g].of = p, handler'[i].of = p
        PROVE  handler'[g].todo \cap handler'[i].todo = {}
        BY <1>1, <2>3 DEF Apart, Alters
  <2> QED BY <2>1, <2>2, <2>3 DEF Apart
<1>3. Counting(p)' = Counting(p)  BY DEF Counting, Alters
<1> QED BY <1>1, <1>2, <1>3 DEF Counted

\* A unit that is written is counted next.
LEMMA NativeWrite ==
    ASSUME NativeInv, LandedInv, NEW h \in Handlers, Alters(h), UNCHANGED <<unframed, received>>,
           NEW o \in Offers \ Web, NEW u \in handler[h].todo, received[o] \in Nat,
           landed'[o] = landed[o] \cup {u},
           \A p \in Offers \ {o} : landed'[p] = landed[p],
           handler'[h].of = o, handler'[h].todo = handler[h].todo \ {u},
           handler[h].of = o, handler[h].at # "count", handler'[h].at = "count"
    PROVE  NativeInv'
<1> SUFFICES ASSUME NEW p \in Offers \ Web  PROVE (Apart(p) /\ Counted(p))'
    BY DEF NativeInv
<1>1. Apart(p) /\ Counted(p)  BY DEF NativeInv
<1>2. handler[h].todo \cap (unframed[o] \cup landed[o]) = {}  BY DEF NativeInv, Apart
<1>3. unframed' = unframed  OBVIOUS
<1>4. Apart(p)'
  <2>1. unframed'[p] \cap landed'[p] = {}
    <3>1. CASE p # o  BY <1>1, <3>1 DEF Apart
    <3>2. CASE p = o  BY <1>1, <1>2, <1>3, <3>2 DEF Apart
    <3> QED BY <3>1, <3>2
  <2>2. ASSUME NEW g \in Handlers, handler'[g].of = p
        PROVE  handler'[g].todo \cap (unframed'[p] \cup landed'[p]) = {}
    <3>1. CASE g # h
          BY <1>1, <1>2, <1>3, <2>2, <3>1 DEF Apart, Alters
    <3>2. CASE g = h
          BY <1>1, <1>2, <1>3, <2>2, <3>2 DEF Apart
    <3> QED BY <3>1, <3>2
  <2>3. ASSUME NEW g \in Handlers, NEW i \in Handlers, g # i,
               handler'[g].of = p, handler'[i].of = p
        PROVE  handler'[g].todo \cap handler'[i].todo = {}
        BY <1>1, <2>3 DEF Apart, Alters
  <2> QED BY <2>1, <2>2, <2>3 DEF Apart
<1>5. CASE p # o
  <2>1. Counting(p)' = Counting(p)  BY <1>5 DEF Counting, Alters
  <2> QED BY <1>1, <1>4, <1>5, <2>1 DEF Counted
<1>6. CASE p = o
  <2>1. /\ h \notin Counting(o) /\ h \in Counting(o)'
        /\ \A g \in Handlers \ {h} : g \in Counting(o)' <=> g \in Counting(o)
        BY DEF Counting, Alters
  <2>2. Counting(o)' = Counting(o) \cup {h}  BY <2>1 DEF Counting
  <2>3. u \notin landed[o]  BY <1>1, <1>6 DEF Apart
  <2>4. IsFiniteSet(landed[o]) /\ IsFiniteSet(Counting(o))  BY CountsFinite
  <2>5. Cardinality(landed[o] \cup {u}) = Cardinality(landed[o]) + 1
        BY <2>3, <2>4, FS_AddElement
  <2>6. Cardinality(Counting(o) \cup {h}) = Cardinality(Counting(o)) + 1
        BY <2>1, <2>4, FS_AddElement
  <2>7. /\ Cardinality(landed'[o]) = Cardinality(landed[o]) + 1
        /\ Cardinality(Counting(o)') = Cardinality(Counting(o)) + 1
        BY <2>2, <2>5, <2>6
  <2>8. Cardinality(landed[o]) \in Nat /\ Cardinality(Counting(o)) \in Nat
        BY CountsFinite
  <2>9. received[o] + Cardinality(Counting(o)) = Cardinality(landed[o])
        BY <1>1, <1>6 DEF Counted
  <2>10. received'[o] + Cardinality(Counting(o)') = Cardinality(landed'[o])
        BY <2>7, <2>8, <2>9
  <2> QED BY <1>4, <1>6, <2>10 DEF Counted
<1> QED BY <1>5, <1>6

\* Counting a unit moves it from its goroutine to sess.received.
LEMMA NativeCount ==
    ASSUME NativeInv, LandedInv, NEW h \in Handlers, Alters(h), UNCHANGED <<unframed, landed>>,
           NEW o \in Offers \ Web, received[o] \in Nat,
           \A p \in Offers : received'[p] = IF p = o THEN received[p] + 1 ELSE received[p],
           handler'[h].of = o, handler'[h].todo \subseteq handler[h].todo,
           handler[h].of = o, handler[h].at = "count", handler'[h].at # "count"
    PROVE  NativeInv' /\ received[o] + 1 <= Cardinality(landed[o])
<1>0. received[o] + 1 <= Cardinality(landed[o])
  <2>1. h \in Counting(o)  BY DEF Counting
  <2>2. Cardinality(Counting(o)) # 0  BY <2>1, CountsFinite, FS_EmptySet
  <2> QED BY <2>2, CountsFinite DEF NativeInv, Counted
<1>5. ASSUME NEW p \in Offers \ Web  PROVE (Apart(p) /\ Counted(p))'
  <2>1. Apart(p) /\ Counted(p)  BY DEF NativeInv
  <2>2. Apart(p)'
    <3>1. unframed'[p] \cap landed'[p] = {}  BY <2>1 DEF Apart
    <3>2. \A g \in Handlers : handler'[g].of = p =>
             handler'[g].todo \cap (unframed'[p] \cup landed'[p]) = {}
          BY <2>1 DEF Apart, Alters
    <3>3. ASSUME NEW g \in Handlers, NEW i \in Handlers, g # i,
                 handler'[g].of = p, handler'[i].of = p
          PROVE  handler'[g].todo \cap handler'[i].todo = {}
          BY <2>1, <3>3 DEF Apart, Alters
    <3> QED BY <3>1, <3>2, <3>3 DEF Apart
  <2>3. CASE p # o
    <3>1. Counting(p)' = Counting(p)  BY <2>3 DEF Counting, Alters
    <3> QED BY <2>1, <2>2, <2>3, <3>1 DEF Counted
  <2>4. CASE p = o
    <3>1. /\ h \in Counting(o) /\ h \notin Counting(o)'
          /\ \A g \in Handlers \ {h} : g \in Counting(o)' <=> g \in Counting(o)
          BY DEF Counting, Alters
    <3>3. Counting(o)' = Counting(o) \ {h}  BY <3>1 DEF Counting
    <3>2. Cardinality(Counting(o)') = Cardinality(Counting(o)) - 1
          BY <3>1, <3>3, CountsFinite, FS_RemoveElement
    <3> QED BY <2>1, <2>2, <2>4, <3>2, CountsFinite DEF Counted
  <2> QED BY <2>3, <2>4
<1> QED BY <1>0, <1>5 DEF NativeInv

\* What the two helpers of the goroutines do to a record.
LEMMA RecordSteps ==
    ASSUME HandlerTypes, NEW h \in Handlers
    PROVE  /\ Leave(h) => /\ Alters(h) /\ handler'[h].of = handler[h].of
                          /\ handler'[h].at = "end" /\ handler'[h].todo = {}
           /\ \A pc : StepTo(h, pc) =>
                 /\ Alters(h) /\ handler'[h].of = handler[h].of /\ handler'[h].at = pc
                 /\ handler'[h].todo = handler[h].todo
                 /\ handler'[h].left = handler[h].left
BY DEF HandlerTypes, Leave, StepTo, Idle, Alters

\* A step of a goroutine h that writes nothing: where it goes, and with what.
Quiet(h) ==
    /\ Alters(h) /\ UNCHANGED <<landed, received>>
    /\ \A o \in Offers : unframed'[o] \subseteq unframed[o]
    /\ \/ /\ handler'[h].at = "end" /\ handler'[h].todo = {}
          /\ handler'[h].of = handler[h].of /\ handler[h].at # "count"
       \/ /\ handler[h].at = "idle" /\ handler'[h].todo = {}
          /\ \/ handler'[h].at = "end"
             \/ handler'[h].at = "check" /\ handler'[h].of \notin Web
             \/ /\ handler'[h].at = "part" /\ handler'[h].of \in Web
                /\ handler'[h].left = FilesOf(handler'[h].of)
       \/ /\ handler'[h].of = handler[h].of /\ handler'[h].todo = handler[h].todo
          /\ handler'[h].left = handler[h].left
          /\ \/ handler[h].at = "check" /\ handler'[h].at = "header"
             \/ handler[h].at = "copy" /\ handler[h].todo = {} /\ handler'[h].at = "part"
             \/ handler[h].at = "part" /\ handler'[h].at = "finishing"

\* A quiet step keeps every unit where it was, or loses it.
LEMMA QuietData ==
    ASSUME TypeOK, DataInv, NEW h \in Handlers, Quiet(h)
    PROVE  DataInv'
<1>0. HandlerTypes /\ StageInv /\ WebInv /\ LandedInv /\ NativeInv
      BY DEF TypeOK, DataInv
<1>1. LandedInv'  BY <1>0 DEF LandedInv, Quiet
<1>2. StageInv'  BY <1>0 DEF StageInv, Quiet, Alters
<1>3. WebInv'
  <2>1. ASSUME NEW g \in Handlers \ {h}, handler'[g].at \in {"part", "copy"},
               NEW u \in Units(handler'[g].of)
        PROVE  u \in handler'[g].todo \/ u[1] \in handler'[g].left \/ u \in landed'[handler'[g].of]
        BY <1>0, <2>1 DEF WebInv, Quiet, Alters
  <2>2. ASSUME handler'[h].at \in {"part", "copy"}, NEW u \in Units(handler'[h].of)
        PROVE  u \in handler'[h].todo \/ u[1] \in handler'[h].left \/ u \in landed'[handler'[h].of]
    <3>1. CASE handler[h].at = "idle"
      <4>1. handler'[h].left = FilesOf(handler'[h].of)  BY <2>2, <3>1 DEF Quiet
      <4> QED BY <2>2, <4>1 DEF Units
    <3>2. CASE handler[h].at = "copy"
          BY <1>0, <2>2, <3>2 DEF WebInv, Quiet
    <3> QED BY <2>2, <3>1, <3>2 DEF Quiet
  <2> QED BY <2>1, <2>2 DEF WebInv
<1>4. NativeInv'
  <2>1. \A o \in Offers \ Web : /\ landed'[o] = landed[o]
                                /\ received'[o] = received[o]
                                /\ unframed'[o] \subseteq unframed[o]
        BY DEF Quiet
  <2>2. \/ handler'[h].todo = {}
        \/ /\ handler'[h].of = handler[h].of
           /\ handler'[h].todo = handler[h].todo
        BY DEF Quiet
  <2>3. handler'[h].at # "count" /\ handler[h].at # "count"  BY DEF Quiet
  <2> QED BY <1>0, <2>1, <2>2, <2>3, NativeQuiet DEF Quiet
<1> QED BY <1>1, <1>2, <1>3, <1>4 DEF DataInv

\* Which steps are quiet.
LEMMA QuietSteps ==
    ASSUME TypeOK, StageInv, NEW h \in Handlers,
           \/ \E o \in Offers : DataOpen(h, o) \/ UploadOpen(h, o)
           \/ DataCheck(h) \/ DataBadFrame(h) \/ DataEOF(h)
           \/ UploadPartDone(h) \/ UploadBroken(h) \/ UploadEnd(h) \/ UploadOK(h)
    PROVE  Quiet(h)
<1>0. HandlerTypes  BY DEF TypeOK
<1>1. UNCHANGED netVars
      BY DEF DataOpen, UploadOpen, DataCheck, DataBadFrame, DataEOF, UploadPartDone,
             UploadBroken, UploadEnd, UploadOK
<1>2. ASSUME NEW o \in Offers, DataOpen(h, o)  PROVE Quiet(h)
  <2>0. handler[h].at = "idle" /\ o \notin Web  BY <1>2 DEF DataOpen
  <2>1. PICK r \in {[Idle EXCEPT !.at = "check", !.of = o], [Idle EXCEPT !.at = "end"]} :
           handler' = [handler EXCEPT ![h] = r]
        BY <1>2 DEF DataOpen
  <2>2. r.todo = {} /\ (r.at = "end" \/ (r.at = "check" /\ r.of = o))
        BY <2>1 DEF Idle
  <2>3. Alters(h) /\ handler'[h] = r  BY <1>0, <2>1 DEF Alters, HandlerTypes
  <2>4. /\ handler'[h].todo = {}
        /\ \/ handler'[h].at = "end"
           \/ handler'[h].at = "check" /\ handler'[h].of \notin Web
        BY <2>0, <2>2, <2>3
  <2>5. UNCHANGED <<unframed, landed, received>>  BY <1>1 DEF netVars
  <2> QED BY <2>0, <2>3, <2>4, <2>5 DEF Quiet
<1>3. ASSUME NEW o \in Offers, UploadOpen(h, o)  PROVE Quiet(h)
  <2>1. Alters(h) /\ handler[h].at = "idle"  BY <1>0, <1>3 DEF UploadOpen, Alters, HandlerTypes
  <2>2. /\ handler'[h].todo = {}
        /\ \/ handler'[h].at = "end"
           \/ /\ handler'[h].at = "part" /\ handler'[h].of = o /\ o \in Web
              /\ handler'[h].left = FilesOf(o)
        BY <1>0, <1>3 DEF UploadOpen, HandlerTypes, StageInv
  <2> QED BY <1>1, <2>1, <2>2 DEF Quiet, netVars
<1>4. CASE Leave(h) /\ handler[h].at \in {"check", "header", "body", "part", "copy", "finishing"}
      BY <1>0, <1>1, <1>4, RecordSteps DEF Quiet, netVars
<1>5. CASE StepTo(h, "header") /\ handler[h].at = "check"
      BY <1>0, <1>1, <1>5, RecordSteps DEF Quiet, netVars
<1>6. CASE StepTo(h, "part") /\ handler[h].at = "copy" /\ handler[h].todo = {}
      BY <1>0, <1>1, <1>6, RecordSteps DEF Quiet, netVars
<1>7. CASE StepTo(h, "finishing") /\ handler[h].at = "part"
      BY <1>0, <1>1, <1>7, RecordSteps DEF Quiet, netVars
<1> QED BY <1>2, <1>3, <1>4, <1>5, <1>6, <1>7
        DEF DataCheck, DataBadFrame, DataEOF, UploadPartDone, UploadBroken, UploadEnd,
            UploadOK, GiveUp

\* What a goroutine that reads or writes data has.
LEMMA Serving ==
    ASSUME TypeOK, NEW h \in Handlers, handler[h].at \notin {"idle", "end"}
    PROVE  /\ handler[h].of \in Offers
           /\ handler[h].todo \subseteq Units(handler[h].of)
           /\ received[handler[h].of] \in Nat
BY DEF TypeOK, HandlerTypes, DataTypes

\* A header that is read keeps the data invariant.
LEMMA FrameData ==
    ASSUME TypeOK, DataInv, NEW h \in Handlers, DataFrame(h)
    PROVE  DataInv'
<1> DEFINE o == handler[h].of
<1>0. /\ HandlerTypes /\ DataTypes /\ StageInv /\ WebInv /\ LandedInv /\ NativeInv
      /\ handler[h].at = "header" /\ o \in Offers /\ o \notin Web
      /\ UNCHANGED <<landed, received>>
  <2>1. handler[h].at = "header" /\ UNCHANGED <<landed, received>>  BY DEF DataFrame
  <2> QED BY <2>1, Serving DEF TypeOK, DataInv, StageInv
<1>1. PICK s \in SUBSET unframed[o] :
         /\ unframed' = [unframed EXCEPT ![o] = @ \ s]
         /\ Leave(h) \/ handler' = [handler EXCEPT ![h].at = "body", ![h].todo = s]
  BY DEF DataFrame, GiveUp
<1>2. /\ unframed'[o] = unframed[o] \ s
      /\ \A p \in Offers \ {o} : unframed'[p] = unframed[p]
      BY <1>0, <1>1 DEF DataTypes
<1>3. CASE Leave(h)
  <2>1. \A p \in Offers : unframed'[p] \subseteq unframed[p]  BY <1>2
  <2>4. Quiet(h)  BY <1>0, <1>3, <2>1, RecordSteps DEF Quiet
  <2> QED BY <2>4, QuietData
<1>4. CASE handler' = [handler EXCEPT ![h].at = "body", ![h].todo = s]
  <2>1. /\ Alters(h) /\ handler'[h].at = "body" /\ handler'[h].todo = s
        /\ handler'[h].of = o
        BY <1>0, <1>4 DEF HandlerTypes, Alters
  <2>2. s \in SUBSET unframed[o]  BY <1>1
  <2>3. handler[h].at # "count" /\ handler'[h].at # "count"  BY <1>0, <2>1
  <2>4. NativeInv'  BY <1>0, <1>2, <2>1, <2>2, <2>3, NativeFrame
  <2>5. StageInv'  BY <1>0, <2>1 DEF StageInv, Alters
  <2>6. WebInv'  BY <1>0, <2>1 DEF WebInv, Alters
  <2>7. LandedInv'  BY <1>0 DEF LandedInv
  <2> QED BY <2>4, <2>5, <2>6, <2>7 DEF DataInv
<1> QED BY <1>1, <1>3, <1>4

\* A unit that is written keeps it.
LEMMA WriteData ==
    ASSUME TypeOK, DataInv, NEW h \in Handlers, DataWrite(h)
    PROVE  DataInv'
<1> DEFINE o == handler[h].of
<1>0. /\ HandlerTypes /\ DataTypes /\ StageInv /\ WebInv /\ LandedInv /\ NativeInv
      /\ handler[h].at = "body" /\ o \in Offers /\ o \notin Web
      /\ handler[h].todo \subseteq Units(o) /\ received[o] \in Nat
      /\ UNCHANGED <<unframed, received>>
  <2>1. handler[h].at = "body" /\ UNCHANGED <<unframed, received>>  BY DEF DataWrite
  <2> QED BY <2>1, Serving DEF TypeOK, DataInv, StageInv
<1>1. CASE Leave(h) /\ UNCHANGED landed
  <2>1. Quiet(h)  BY <1>0, <1>1, RecordSteps DEF Quiet
  <2> QED BY <2>1, QuietData
<1>2. ASSUME NEW u \in handler[h].todo,
             landed' = [landed EXCEPT ![o] = @ \cup {u}],
             handler' = [handler EXCEPT ![h].at = "count", ![h].todo = @ \ {u}]
      PROVE  DataInv'
  <2>1. /\ Alters(h) /\ handler'[h].at = "count" /\ handler'[h].of = o
        /\ handler'[h].todo = handler[h].todo \ {u}
        BY <1>0, <1>2 DEF HandlerTypes, Alters
  <2>2. /\ landed'[o] = landed[o] \cup {u}
        /\ \A p \in Offers \ {o} : landed'[p] = landed[p]
        BY <1>0, <1>2 DEF DataTypes
  <2>3. NativeInv'  BY <1>0, <2>1, <2>2, NativeWrite
  <2>4. LandedInv'  BY <1>0, <2>2 DEF LandedInv
  <2>5. StageInv'  BY <1>0, <2>1 DEF StageInv, Alters
  <2>6. WebInv'
    <3>1. ASSUME NEW g \in Handlers, handler'[g].at \in {"part", "copy"},
                 NEW v \in Units(handler'[g].of)
          PROVE  v \in handler'[g].todo \/ v[1] \in handler'[g].left \/ v \in landed'[handler'[g].of]
      <4>1. g # h /\ handler'[g] = handler[g]  BY <2>1, <3>1 DEF Alters
      <4>2. handler[g].of \in Offers  BY <3>1, <4>1, Serving
      <4>3. landed[handler[g].of] \subseteq landed'[handler[g].of]  BY <2>2, <4>2
      <4> QED BY <1>0, <3>1, <4>1, <4>3 DEF WebInv
    <3> QED BY <3>1 DEF WebInv
  <2> QED BY <2>3, <2>4, <2>5, <2>6 DEF DataInv
<1> QED BY <1>1, <1>2 DEF DataWrite, GiveUp

\* Whoever counts a unit keeps it, and completes the transfer only once all of them
\* are written.
LEMMA CountData ==
    ASSUME TypeOK, DataInv, NEW h \in Handlers, DataCount(h)
    PROVE  /\ DataInv'
           /\ Finalize(handler[h].of, TRUE) =>
                 \/ landed'[handler[h].of] = Units(handler[h].of)
                 \/ UNCHANGED <<fin, verdict>>
<1> DEFINE o == handler[h].of
<1>0. /\ HandlerTypes /\ DataTypes /\ StageInv /\ WebInv /\ LandedInv /\ NativeInv
      /\ handler[h].at = "count" /\ o \in Offers /\ o \notin Web /\ received[o] \in Nat
      /\ UNCHANGED <<unframed, landed>>
  <2>1. handler[h].at = "count" /\ UNCHANGED <<unframed, landed>>  BY DEF DataCount
  <2> QED BY <2>1, Serving DEF TypeOK, DataInv, StageInv
<1>1. \A p \in Offers : received'[p] = IF p = o THEN received[p] + 1 ELSE received[p]
      BY <1>0 DEF DataCount, DataTypes
<1>2. /\ Alters(h) /\ handler'[h].of = o /\ handler'[h].todo \subseteq handler[h].todo
      /\ \/ handler'[h].at = "end" /\ handler'[h].todo = {}
         \/ handler'[h].at \in {"check", "body"}
  <2>1. CASE Leave(h)  BY <1>0, <2>1, RecordSteps
  <2>2. CASE StepTo(h, "check") \/ StepTo(h, "body")  BY <1>0, <2>2, RecordSteps
  <2> QED BY <2>1, <2>2 DEF DataCount
<1>3. handler'[h].at # "count"  BY <1>2
<1>4. NativeInv' /\ received[o] + 1 <= Cardinality(landed[o])
      BY <1>0, <1>1, <1>2, <1>3, NativeCount
<1>5. StageInv'  BY <1>0, <1>2 DEF StageInv, Alters
<1>6. WebInv'  BY <1>0, <1>2 DEF WebInv, Alters
<1>7. LandedInv'  BY <1>0 DEF LandedInv
<1>8. \/ landed'[o] = Units(o) \/ UNCHANGED <<fin, verdict>>
  <2>1. CASE received[o] + 1 >= Total(o)
    <3>1. Cardinality(landed[o]) = Total(o)
          BY <1>0, <1>4, <2>1, CountsFinite, UnitsFinite
    <3> QED BY <1>0, <3>1, CountsFinite
  <2>2. CASE ~(received[o] + 1 >= Total(o))  BY <2>2 DEF DataCount
  <2> QED BY <2>1, <2>2
<1> QED BY <1>4, <1>5, <1>6, <1>7, <1>8 DEF DataInv

\* A part of a browser's POST brings the units of its file.
LEMMA PartData ==
    ASSUME TypeOK, DataInv, NEW h \in Handlers, UploadPart(h)
    PROVE  DataInv'
<1> DEFINE o == handler[h].of
<1>0. /\ HandlerTypes /\ DataTypes /\ StageInv /\ WebInv /\ LandedInv /\ NativeInv
      /\ handler[h].at = "part" /\ handler[h].todo = {} /\ o \in Offers /\ o \in Web
      /\ UNCHANGED <<unframed, landed, received>>
  <2>1. handler[h].at = "part" /\ UNCHANGED netVars  BY DEF UploadPart
  <2> QED BY <2>1, Serving DEF TypeOK, DataInv, StageInv, netVars
<1>1. CASE Leave(h)
  <2>1. Quiet(h)  BY <1>0, <1>1, RecordSteps DEF Quiet
  <2> QED BY <2>1, QuietData
<1>2. ASSUME NEW f \in handler[h].left,
             handler' = [handler EXCEPT ![h].at = "copy", ![h].left = @ \ {f},
                                        ![h].todo = {f} \X (1..Size[o][f])]
      PROVE  DataInv'
  <2> DEFINE s == {f} \X (1..Size[o][f])
  <2>1. /\ Alters(h) /\ handler'[h].at = "copy" /\ handler'[h].of = o
        /\ handler'[h].todo = s /\ handler'[h].left = handler[h].left \ {f}
    <3>1. handler' = [handler EXCEPT ![h].at = "copy", ![h].left = @ \ {f}, ![h].todo = s]
          BY <1>2
    <3> HIDE DEF s
    <3> QED BY <1>0, <3>1 DEF HandlerTypes, Alters
  <2>2. NativeInv'
    <3>1. handler[h].at # "count" /\ handler'[h].at # "count"  BY <1>0, <2>1
    <3> QED BY <1>0, <2>1, <3>1, NativeQuiet
  <2>3. StageInv'  BY <1>0, <2>1 DEF StageInv, Alters
  <2>4. WebInv'
    <3>1. ASSUME NEW u \in Units(o)
          PROVE  u \in s \/ u[1] \in handler[h].left \ {f} \/ u \in landed[o]
      <4>1. PICK g \in FilesOf(o) : u \in {g} \X (1..Size[o][g])  BY DEF Units
      <4>2. u[1] = g  BY <4>1
      <4> QED BY <1>0, <4>1, <4>2 DEF WebInv
    <3> HIDE DEF s
    <3> QED BY <1>0, <2>1, <3>1 DEF WebInv, Alters
  <2>5. LandedInv'  BY <1>0 DEF LandedInv
  <2> QED BY <2>2, <2>3, <2>4, <2>5 DEF DataInv
<1> QED BY <1>1, <1>2 DEF UploadPart, GiveUp

\* So does copying one of them.
LEMMA CopyData ==
    ASSUME TypeOK, DataInv, NEW h \in Handlers, UploadCopy(h)
    PROVE  DataInv'
<1> DEFINE o == handler[h].of
<1>0. /\ HandlerTypes /\ DataTypes /\ StageInv /\ WebInv /\ LandedInv /\ NativeInv
      /\ handler[h].at = "copy" /\ o \in Offers /\ o \in Web
      /\ handler[h].todo \subseteq Units(o)
  <2>1. handler[h].at = "copy"  BY DEF UploadCopy
  <2> QED BY <2>1, Serving DEF TypeOK, DataInv, StageInv
<1>1. CASE Leave(h) /\ UNCHANGED netVars
  <2>1. Quiet(h)  BY <1>0, <1>1, RecordSteps DEF Quiet, netVars
  <2> QED BY <2>1, QuietData
<1>2. ASSUME NEW u \in handler[h].todo,
             landed' = [landed EXCEPT ![o] = @ \cup {u}],
             unframed' = [unframed EXCEPT ![o] = @ \ {u}],
             received' = [received EXCEPT ![o] = @ + 1],
             handler' = [handler EXCEPT ![h].todo = @ \ {u}]
      PROVE  DataInv'
  <2>1. /\ Alters(h) /\ handler'[h].at = "copy" /\ handler'[h].of = o
        /\ handler'[h].todo = handler[h].todo \ {u}
        /\ handler'[h].left = handler[h].left
        BY <1>0, <1>2 DEF HandlerTypes, Alters
  <2>2. /\ landed'[o] = landed[o] \cup {u}
        /\ \A p \in Offers \ {o} : /\ landed'[p] = landed[p]
                                   /\ unframed'[p] = unframed[p]
                                   /\ received'[p] = received[p]
        BY <1>0, <1>2 DEF DataTypes
  <2>3. NativeInv'
    <3>1. \A p \in Offers \ Web : /\ landed'[p] = landed[p]
                                  /\ received'[p] = received[p]
                                  /\ unframed'[p] \subseteq unframed[p]
          BY <1>0, <2>2
    <3>2. handler[h].at # "count" /\ handler'[h].at # "count"  BY <1>0, <2>1
    <3> QED BY <1>0, <2>1, <3>1, <3>2, NativeQuiet
  <2>4. LandedInv'  BY <1>0, <2>2 DEF LandedInv
  <2>5. StageInv'  BY <1>0, <2>1 DEF StageInv, Alters
  <2>6. WebInv'
    <3>1. ASSUME NEW g \in Handlers, handler'[g].at \in {"part", "copy"},
                 NEW v \in Units(handler'[g].of)
          PROVE  v \in handler'[g].todo \/ v[1] \in handler'[g].left \/ v \in landed'[handler'[g].of]
      <4>1. CASE g = h  BY <1>0, <2>1, <2>2, <3>1, <4>1 DEF WebInv
      <4>2. CASE g # h
        <5>1. handler'[g] = handler[g]  BY <2>1, <4>2 DEF Alters
        <5>2. handler[g].of \in Offers  BY <3>1, <5>1, Serving
        <5>3. landed[handler[g].of] \subseteq landed'[handler[g].of]  BY <2>2, <5>2
        <5> QED BY <1>0, <3>1, <5>1, <5>3 DEF WebInv
      <4> QED BY <4>1, <4>2
    <3> QED BY <3>1 DEF WebInv
  <2> QED BY <2>3, <2>4, <2>5, <2>6 DEF DataInv
<1> QED BY <1>1, <1>2 DEF UploadCopy, GiveUp

\* The goroutines keep the data invariant, and never take back what was written.
LEMMA StreamData ==
    ASSUME TypeOK, DataInv, NEW h \in Handlers, DataStream(h) \/ WebUpload(h)
    PROVE  DataInv' /\ \A o \in Offers : landed[o] \subseteq landed'[o]
<1>1. StageInv /\ DataTypes /\ HandlerTypes  BY DEF DataInv, TypeOK
<1>2. CASE \/ \E o \in Offers : DataOpen(h, o) \/ UploadOpen(h, o)
           \/ DataCheck(h) \/ DataBadFrame(h) \/ DataEOF(h)
           \/ UploadPartDone(h) \/ UploadBroken(h) \/ UploadEnd(h) \/ UploadOK(h)
      BY <1>1, <1>2, QuietSteps, QuietData DEF Quiet
<1>3. CASE DataFrame(h)  BY <1>3, FrameData DEF DataFrame
<1>4. CASE DataWrite(h)
  <2>1. handler[h].of \in Offers  BY <1>4, Serving DEF DataWrite
  <2>2. landed' = landed \/ \E u : landed' = [landed EXCEPT ![handler[h].of] = @ \cup {u}]
        BY <1>4 DEF DataWrite
  <2>3. \A o \in Offers : landed[o] \subseteq landed'[o]  BY <1>1, <2>1, <2>2 DEF DataTypes
  <2> QED BY <1>4, <2>3, WriteData
<1>5. CASE DataCount(h)  BY <1>5, CountData DEF DataCount
<1>6. CASE UploadPart(h)  BY <1>6, PartData DEF UploadPart, netVars
<1>7. CASE UploadCopy(h)
  <2>1. handler[h].of \in Offers  BY <1>7, Serving DEF UploadCopy
  <2>2. landed' = landed \/ \E u : landed' = [landed EXCEPT ![handler[h].of] = @ \cup {u}]
        BY <1>7 DEF UploadCopy, netVars
  <2>3. \A o \in Offers : landed[o] \subseteq landed'[o]  BY <1>1, <2>1, <2>2 DEF DataTypes
  <2> QED BY <1>7, <2>3, CopyData
<1> QED BY <1>2, <1>3, <1>4, <1>5, <1>6, <1>7 DEF DataStream, WebUpload

(***************************************************************************)
(* The outcome                                                             *)
(***************************************************************************)

\* finalizeRecv begins for one armed session at most; a success has all its units.
FinBegins == \A o \in Offers :
    \/ fin'[o] = fin[o] /\ verdict'[o] = verdict[o]
    \/ /\ fin[o] = "no" /\ fin'[o] = "closing" /\ armed[o]
       /\ verdict'[o] \in {"completed", "failed"}
       /\ verdict'[o] = "completed" => landed'[o] = Units(o)

\* What finalizeRecv begins, whichever goroutine calls it.
LEMMA FinalizeBegins ==
    ASSUME FinTypes, NEW o \in Offers, NEW success \in BOOLEAN, Finalize(o, success),
           armed[o], success => landed'[o] = Units(o) \/ UNCHANGED <<fin, verdict>>
    PROVE  FinBegins
<1>1. CASE UNCHANGED <<fin, verdict>>  BY <1>1 DEF FinBegins
<1>2. CASE /\ fin[o] = "no" /\ fin' = [fin EXCEPT ![o] = "closing"]
           /\ verdict' = [verdict EXCEPT ![o] = IF success THEN "completed" ELSE "failed"]
      BY <1>1, <1>2 DEF FinBegins, FinTypes
<1> QED BY <1>1, <1>2 DEF Finalize

\* The goroutines begin finalizeRecv as the code says.
LEMMA StreamBegins ==
    ASSUME SlotInv, DataInv, NEW h \in Handlers, DataStream(h) \/ WebUpload(h)
    PROVE  FinBegins
<1> DEFINE o == handler[h].of
<1>0. TypeOK /\ FinTypes /\ ArmedFirst /\ WebInv /\ StageInv /\ LandedInv
      BY DEF SlotInv, TypeOK, DataInv
<1>1. ASSUME Active(h)  PROVE o \in Offers /\ armed[o]
      BY <1>0, <1>1, Serving DEF ArmedFirst, Active
<1>2. CASE UNCHANGED <<fin, verdict>>  BY <1>2 DEF FinBegins
<1>3. CASE Active(h) /\ Finalize(o, FALSE)  BY <1>0, <1>1, <1>3, FinalizeBegins
<1>4. CASE DataCount(h)
  <2>1. Active(h)  BY <1>4 DEF DataCount, Active
  <2>2. CASE Finalize(o, TRUE)
    <3>1. landed'[o] = Units(o) \/ UNCHANGED <<fin, verdict>>  BY <1>0, <1>4, <2>2, CountData
    <3> QED BY <1>0, <1>1, <2>1, <2>2, <3>1, FinalizeBegins
  <2> QED BY <1>2, <1>4, <2>2 DEF DataCount
<1>5. CASE UploadEnd(h)
  <2>1. Active(h) /\ Finalize(o, TRUE) /\ handler[h].at = "part" /\ handler[h].left = {}
        /\ UNCHANGED landed
        BY <1>5 DEF UploadEnd, Active, netVars
  <2>2. landed'[o] = Units(o)
    <3>1. handler[h].todo = {}  BY <1>0, <2>1 DEF StageInv
    <3>2. o \in Offers  BY <1>1, <2>1
    <3> QED BY <1>0, <2>1, <3>1, <3>2 DEF WebInv, LandedInv
  <2> QED BY <1>0, <1>1, <2>1, <2>2, FinalizeBegins
<1>6. \/ UNCHANGED <<fin, verdict>> \/ (Active(h) /\ Finalize(o, FALSE))
      \/ DataCount(h) \/ UploadEnd(h)
  <2>1. CASE DataStream(h)
    <3>1. CASE \E p \in Offers : DataOpen(h, p)  BY <3>1 DEF DataOpen, finVars
    <3>2. CASE DataCheck(h) \/ DataEOF(h)  BY <3>2 DEF DataCheck, DataEOF, finVars
    <3>3. CASE DataFrame(h) \/ DataBadFrame(h) \/ DataWrite(h)
          BY <3>3 DEF DataFrame, DataBadFrame, DataWrite, GiveUp, Active
    <3> QED BY <2>1, <3>1, <3>2, <3>3 DEF DataStream
  <2>2. CASE WebUpload(h)
    <3>1. CASE \E p \in Offers : UploadOpen(h, p)  BY <3>1 DEF UploadOpen, finVars
    <3>2. CASE UploadPartDone(h) \/ UploadOK(h)  BY <3>2 DEF UploadPartDone, UploadOK, finVars
    <3>3. CASE UploadPart(h) \/ UploadCopy(h) \/ UploadBroken(h)
          BY <3>3 DEF UploadPart, UploadCopy, UploadBroken, GiveUp, Active
    <3> QED BY <2>2, <3>1, <3>2, <3>3 DEF WebUpload
  <2> QED BY <2>1, <2>2
<1> QED BY <1>2, <1>3, <1>4, <1>5, <1>6

\* The states of PrepareUpload before it makes a file.
Early == {"new", "registered", "waiting", "accepted", "declined", "expired", "closing"}

\* The files of an offer are made before its token, and removed after a cancel only.
DiskInv ==
    \A o \in Offers :
        /\ prep[o] \in Early => disk[o] = "none"
        /\ prep[o] = "prepared" => disk[o] = "made"
        /\ armed[o] => disk[o] = IF fin[o] \in {"reporting", "done"} /\ verdict[o] = "canceled"
                                 THEN "removed" ELSE "made"

\* What an early end of PrepareUpload leaves.
EarlyEnd(o) == \E e \in Ends : /\ reported[o] = <<EndState[e]>>
                               /\ answer[o] = EndStatus[e]
                               /\ e = "closing" => disk[o] = "none"

\* What was reported and answered for an offer is what its end says.
ReportInv ==
    \A o \in Offers :
        /\ reported[o] # <<>> => IF armed[o] THEN reported[o] = <<verdict[o]>>
                                             ELSE EarlyEnd(o)
        /\ prep[o] # "over" => answer[o] = 0
        /\ prep[o] = "over" => \/ armed[o] /\ answer[o] = 200
                               \/ ~armed[o] /\ answer[o] \in {400, 409}
                               \/ ~armed[o] /\ EarlyEnd(o)

\* A success has every unit, and finalizeRecv knows no decline.
WholeInv ==
    \A o \in Offers : fin[o] # "no" =>
        /\ verdict[o] \in {"completed", "failed", "canceled"}
        /\ verdict[o] = "completed" => landed[o] = Units(o)

EndInv == DiskInv /\ ReportInv /\ WholeInv

\* The inductive invariant.
OutcomeInv == SlotInv /\ DataInv /\ EndInv

\* It holds initially.
LEMMA InitOutcomeInv == Init => OutcomeInv
<1> SUFFICES ASSUME Init PROVE OutcomeInv  OBVIOUS
<1>1. SlotInv  BY InitSlotInv
<1>2. LandedInv  BY DEF Init, LandedInv
<1>3. \A h \in Handlers : handler[h].at = "idle" /\ handler[h].todo = {} /\ handler[h].of = None
      BY DEF Init, Idle
<1>4. StageInv /\ WebInv  BY <1>3 DEF StageInv, WebInv
<1>5. ASSUME NEW o \in Offers  PROVE Apart(o) /\ Counted(o)
  <2>1. Counting(o) = {}  BY <1>3 DEF Counting
  <2>2. landed[o] = {} /\ received[o] = 0  BY DEF Init
  <2>3. Apart(o)  BY <1>3, <2>2 DEF Apart
  <2> QED BY <2>1, <2>2, <2>3, FS_EmptySet DEF Counted
<1>6. NativeInv  BY <1>5 DEF NativeInv
<1>7. EndInv  BY DEF Init, EndInv, DiskInv, ReportInv, WholeInv, Early
<1> QED BY <1>1, <1>2, <1>4, <1>6, <1>7 DEF OutcomeInv, DataInv

\* A step of anyone but PrepareUpload and finalizeRecv keeps what the end says.
LEMMA BystanderEnd ==
    ASSUME SlotInv, EndInv, FinBegins,
           UNCHANGED <<prep, answer, armed, reported, disk>>,
           \A o \in Offers : landed[o] \subseteq landed'[o] /\ landed'[o] \subseteq Units(o)
    PROVE  EndInv'
<1>1. DiskInv'  BY DEF EndInv, DiskInv, FinBegins
<1>2. ASSUME NEW o \in Offers, reported[o] # <<>>, armed[o]  PROVE reported[o] = <<verdict'[o]>>
  <2>1. fin[o] = "done"  BY <1>2 DEF SlotInv, ReportedLast
  <2> QED BY <1>2, <2>1 DEF FinBegins, EndInv, ReportInv
<1>3. \A o \in Offers : EarlyEnd(o)' <=> EarlyEnd(o)  BY DEF EarlyEnd
<1>4. ReportInv'  BY <1>2, <1>3 DEF EndInv, ReportInv
<1>5. WholeInv'
  <2>1. ASSUME NEW o \in Offers, fin'[o] # "no"
        PROVE  /\ verdict'[o] \in {"completed", "failed", "canceled"}
               /\ verdict'[o] = "completed" => landed'[o] = Units(o)
        BY <2>1 DEF EndInv, WholeInv, FinBegins
  <2> QED BY <2>1 DEF WholeInv
<1> QED BY <1>1, <1>4, <1>5 DEF EndInv

\* Everyone but the goroutines leaves the data alone.
LEMMA DataKept ==
    ASSUME DataInv, UNCHANGED <<netVars, handler>>
    PROVE  DataInv'
BY DEF DataInv, LandedInv, StageInv, WebInv, NativeInv, Apart, Counted, Counting, netVars

\* The goroutines keep the outcome invariant.
LEMMA StreamOutcome ==
    ASSUME OutcomeInv, SlotInv', NEW h \in Handlers, DataStream(h) \/ WebUpload(h)
    PROVE  OutcomeInv'
<1>0. SlotInv /\ TypeOK /\ DataInv /\ EndInv  BY DEF OutcomeInv, SlotInv
<1>1. DataInv' /\ \A o \in Offers : landed[o] \subseteq landed'[o]  BY <1>0, StreamData
<1>2. \A o \in Offers : landed'[o] \subseteq Units(o)  BY <1>1 DEF DataInv, LandedInv
<1>3. UNCHANGED <<prep, answer, armed, reported, disk>>
      BY DEF DataStream, DataOpen, DataCheck, DataFrame, DataBadFrame, DataEOF,
             DataWrite, DataCount, WebUpload, UploadOpen, UploadPart, UploadCopy,
             UploadPartDone, UploadBroken, UploadEnd, UploadOK, slotVars, finVars,
             fileVars
<1>4. EndInv'  BY <1>0, <1>1, <1>2, <1>3, StreamBegins, BystanderEnd
<1> QED BY <1>1, <1>4 DEF OutcomeInv

\* The calls of the user and the shutdown begin finalizeRecv as the code says.
LEMMA UserBegins ==
    ASSUME SlotInv, UserStep
    PROVE  FinBegins
<1>0. FinTypes /\ UserTypes /\ ArmedFirst  BY DEF SlotInv, TypeOK
<1>1. ASSUME NEW k \in Callers, CancelFinalizes(k)  PROVE FinBegins
  <2>1. call[k].of \in Offers /\ armed[call[k].of]
        BY <1>0, <1>1 DEF CancelFinalizes, UserTypes, ArmedFirst
  <2> QED BY <1>0, <1>1, <2>1, FinalizeBegins DEF CancelFinalizes
<1>2. CASE UNCHANGED <<fin, verdict>>  BY <1>2 DEF FinBegins
<1> QED BY <1>1, <1>2
        DEF UserStep, Click, ClickCancel, Dismiss, Shutdown, RunCancel, Call,
            CallLooksUp, RespondIncoming, CancelIncoming, finVars

\* The user and the shutdown keep the outcome invariant.
LEMMA UserOutcome ==
    ASSUME OutcomeInv, SlotInv', UserStep
    PROVE  OutcomeInv'
<1>0. SlotInv /\ DataInv /\ EndInv  BY DEF OutcomeInv
<1>1. UNCHANGED <<prep, answer, armed, reported, disk, netVars, handler>>
      BY DEF UserStep, Click, ClickCancel, Dismiss, Shutdown, RunCancel, Call,
             CallLooksUp, RespondIncoming, CancelIncoming, CancelFinalizes,
             slotVars, finVars, dataVars, fileVars
<1>2. DataInv'  BY <1>0, <1>1, DataKept
<1>3. \A o \in Offers : landed[o] \subseteq landed'[o] /\ landed'[o] \subseteq Units(o)
      BY <1>0, <1>1 DEF DataInv, LandedInv, netVars
<1>4. EndInv'  BY <1>0, <1>1, <1>3, UserBegins, BystanderEnd
<1> QED BY <1>2, <1>4 DEF OutcomeInv

\* So do the watchdog and the stages of finalizeRecv: the cancel flag is looked at
\* before the files are, and the files are settled before the report.
LEMMA FinalizeOutcome ==
    ASSUME OutcomeInv, SlotInv', NEW o \in Offers, Watchdog(o) \/ FinalizeRecv(o)
    PROVE  OutcomeInv'
<1>0. /\ SlotInv /\ DataInv /\ EndInv /\ FinTypes /\ DataTypes /\ ArmedFirst
      /\ DiskInv /\ ReportInv /\ WholeInv /\ LandedInv
      BY DEF OutcomeInv, SlotInv, TypeOK, EndInv, DataInv
<1>1. UNCHANGED <<prep, answer, armed, netVars, handler>>
      BY DEF Watchdog, FinalizeRecv, FinClose, FinClear, FinReport, slotVars, dataVars
<1>2. DataInv'  BY <1>0, <1>1, DataKept
<1>3. \A p \in Offers : landed'[p] = landed[p]  BY <1>1 DEF netVars
<1>4. EndInv'
  <2>1. CASE Watchdog(o)
    <3>1. FinBegins  BY <1>0, <2>1, FinalizeBegins DEF Watchdog
    <3>2. UNCHANGED <<reported, disk>>  BY <2>1 DEF Watchdog, dataVars, fileVars
    <3>3. \A p \in Offers : landed[p] \subseteq landed'[p] /\ landed'[p] \subseteq Units(p)
          BY <1>0, <1>3 DEF LandedInv
    <3> QED BY <1>0, <1>1, <3>1, <3>2, <3>3, BystanderEnd
  <2>2. CASE FinClose(o)
    <3>1. /\ UNCHANGED <<reported, disk>> /\ fin[o] = "closing" /\ fin'[o] = "clearing"
          /\ verdict'[o] = IF canceled[o] THEN "canceled" ELSE verdict[o]
          /\ \A p \in Offers \ {o} : fin'[p] = fin[p] /\ verdict'[p] = verdict[p]
          BY <1>0, <2>2 DEF FinClose, FinTypes
    <3>2. DiskInv'  BY <1>0, <1>1, <3>1 DEF DiskInv
    <3>3. WholeInv'  BY <1>0, <1>3, <3>1 DEF WholeInv
    <3>4. ReportInv'
      <4>1. armed[o] => reported[o] = <<>>
            BY <1>0, <3>1 DEF SlotInv, ReportedLast
      <4> QED BY <1>0, <1>1, <3>1, <4>1 DEF ReportInv, EarlyEnd
    <3> QED BY <3>2, <3>3, <3>4 DEF EndInv
  <2>3. CASE FinClear(o)
    <3>1. /\ UNCHANGED <<reported, verdict>> /\ fin[o] = "clearing" /\ fin'[o] = "reporting"
          /\ disk'[o] = IF verdict[o] = "canceled" THEN "removed" ELSE disk[o]
          /\ \A p \in Offers \ {o} : fin'[p] = fin[p] /\ disk'[p] = disk[p]
          BY <1>0, <2>3 DEF FinClear, FinTypes, DataTypes
    <3>2. armed[o] /\ prep[o] \notin Early /\ prep[o] # "prepared"
      <4>1. armed[o]  BY <1>0, <3>1 DEF ArmedFirst
      <4>2. prep[o] \in {"armed", "finishing", "over"}  BY <1>0, <4>1 DEF ArmedFirst
      <4> QED BY <4>1, <4>2 DEF Early
    <3>3. DiskInv'  BY <1>0, <1>1, <3>1, <3>2 DEF DiskInv
    <3>4. WholeInv'  BY <1>0, <1>3, <3>1 DEF WholeInv
    <3>5. \A p \in Offers : ~armed[p] => (EarlyEnd(p)' <=> EarlyEnd(p))
          BY <1>1, <3>1, <3>2 DEF EarlyEnd
    <3>6. ReportInv'  BY <1>0, <1>1, <3>1, <3>5 DEF ReportInv
    <3> QED BY <3>3, <3>4, <3>6 DEF EndInv
  <2>4. CASE FinReport(o)
    <3>1. /\ UNCHANGED <<disk, verdict>> /\ fin[o] = "reporting" /\ fin'[o] = "done"
          /\ reported'[o] = Append(reported[o], verdict[o])
          /\ \A p \in Offers \ {o} : fin'[p] = fin[p] /\ reported'[p] = reported[p]
          BY <1>0, <2>4 DEF FinReport, FinTypes, dataVars, fileVars
    <3>2. armed[o] /\ reported[o] = <<>>
      <4>1. armed[o]  BY <1>0, <3>1 DEF ArmedFirst
      <4> QED BY <1>0, <3>1, <4>1 DEF SlotInv, ReportedLast
    <3>3. reported'[o] = <<verdict'[o]>>  BY <3>1, <3>2
    <3>4. DiskInv'  BY <1>0, <1>1, <3>1 DEF DiskInv
    <3>5. WholeInv'  BY <1>0, <1>3, <3>1 DEF WholeInv
    <3>6. \A p \in Offers : ~armed[p] => (EarlyEnd(p)' <=> EarlyEnd(p))
          BY <1>1, <3>1, <3>2 DEF EarlyEnd
    <3>7. ReportInv'  BY <1>0, <1>1, <3>1, <3>2, <3>3, <3>6 DEF ReportInv
    <3> QED BY <3>4, <3>5, <3>7 DEF EndInv
  <2> QED BY <2>1, <2>2, <2>3, <2>4 DEF FinalizeRecv
<1> QED BY <1>2, <1>4 DEF OutcomeInv

\* What a step of PrepareUpload leaves alone.
LEMMA PrepareFrame ==
    ASSUME TypeOK, NEW o \in Offers, PrepareUpload(o)
    PROVE  /\ UNCHANGED <<netVars, handler, canceled, handle>>
           /\ \A p \in Offers \ {o} : /\ prep'[p] = prep[p] /\ armed'[p] = armed[p]
                                      /\ answer'[p] = answer[p] /\ fin'[p] = fin[p]
                                      /\ reported'[p] = reported[p]
                                      /\ disk'[p] = disk[p] /\ verdict'[p] = verdict[p]
<1>0. FinTypes /\ DataTypes  BY DEF TypeOK
<1>1. UNCHANGED <<netVars, handler, canceled, handle>>
      BY DEF PrepareUpload, PrepareSteps, Register, Announce, TakeAccept, TakeDecline,
             AcceptTimeout, AppClosing, Ending, PrepareDestFiles, ReportEnd, Arm,
             StartReceiving, AnswerEmpty, finVars, dataVars, fileVars
<1>2. \A p \in Offers \ {o} : disk'[p] = disk[p]
  <2>1. UNCHANGED disk \/ \E d : disk' = [disk EXCEPT ![o] = d]
        BY DEF PrepareUpload, PrepareSteps, Register, Announce, TakeAccept, TakeDecline,
               AcceptTimeout, AppClosing, Ending, PrepareDestFiles, ReportEnd, Arm,
               StartReceiving, AnswerEmpty, dataVars, fileVars
  <2> QED BY <1>0, <2>1 DEF DataTypes
<1>3. \A p \in Offers \ {o} : verdict'[p] = verdict[p]
  <2>1. UNCHANGED verdict \/ \E v : verdict' = [verdict EXCEPT ![o] = v]
        BY DEF PrepareUpload, PrepareSteps, Register, Announce, TakeAccept, TakeDecline,
               AcceptTimeout, AppClosing, Ending, PrepareDestFiles, ReportEnd, Arm,
               StartReceiving, AnswerEmpty, finVars, Finalize
  <2> QED BY <1>0, <2>1 DEF FinTypes
<1> QED BY <1>1, <1>2, <1>3, PrepareOwn

\* PrepareUpload keeps what the end says: an early end comes before the first file, or
\* is a failure; an offer of no bytes has every unit when it is accepted.
LEMMA PrepareEnd ==
    ASSUME OutcomeInv, NEW o \in Offers, PrepareUpload(o)
    PROVE  EndInv'
<1>0. /\ SlotInv /\ TypeOK /\ SlotTypes /\ FinTypes /\ DataTypes /\ ArmedFirst
      /\ DiskInv /\ ReportInv /\ WholeInv /\ LandedInv
      BY DEF OutcomeInv, SlotInv, TypeOK, EndInv, DataInv
<1>1. /\ UNCHANGED landed
      /\ \A p \in Offers \ {o} : /\ prep'[p] = prep[p] /\ armed'[p] = armed[p]
                                 /\ answer'[p] = answer[p] /\ fin'[p] = fin[p]
                                 /\ reported'[p] = reported[p]
                                 /\ disk'[p] = disk[p] /\ verdict'[p] = verdict[p]
      BY <1>0, PrepareFrame DEF netVars
<1>2. /\ armed[o] => prep[o] \in {"armed", "finishing", "over"}
      /\ prep[o] \in {"armed", "finishing"} => armed[o]
      /\ fin[o] # "no" => armed[o]
      /\ reported[o] # <<>> => IF armed[o] THEN fin[o] = "done" ELSE prep[o] = "over"
      BY <1>0 DEF ArmedFirst, SlotInv, ReportedLast
<1> DEFINE Disk == /\ prep'[o] \in Early => disk'[o] = "none"
                   /\ prep'[o] = "prepared" => disk'[o] = "made"
                   /\ armed'[o] => disk'[o] =
                         IF fin'[o] \in {"reporting", "done"} /\ verdict'[o] = "canceled"
                         THEN "removed" ELSE "made"
           Report == /\ reported'[o] # <<>> => IF armed'[o] THEN reported'[o] = <<verdict'[o]>>
                                               ELSE EarlyEnd(o)'
                     /\ prep'[o] # "over" => answer'[o] = 0
                     /\ prep'[o] = "over" => \/ armed'[o] /\ answer'[o] = 200
                                             \/ ~armed'[o] /\ answer'[o] \in {400, 409}
                                             \/ ~armed'[o] /\ EarlyEnd(o)'
           Whole == fin'[o] # "no" =>
                       /\ verdict'[o] \in {"completed", "failed", "canceled"}
                       /\ verdict'[o] = "completed" => landed[o] = Units(o)
<1>3. Disk /\ Report /\ Whole
  <2>0. /\ prep[o] \in Early => disk[o] = "none"
        /\ prep[o] = "prepared" => disk[o] = "made"
        /\ armed[o] => disk[o] = IF fin[o] \in {"reporting", "done"} /\ verdict[o] = "canceled"
                                 THEN "removed" ELSE "made"
        /\ reported[o] # <<>> /\ armed[o] => reported[o] = <<verdict[o]>>
        /\ prep[o] # "over" => answer[o] = 0
        /\ fin[o] # "no" => /\ verdict[o] \in {"completed", "failed", "canceled"}
                            /\ verdict[o] = "completed" => landed[o] = Units(o)
        BY <1>0 DEF DiskInv, ReportInv, WholeInv
  <2> USE DEF SlotTypes, FinTypes, Goto
  <2>1. CASE Register(o)
    <3>1. /\ prep[o] = "new" /\ UNCHANGED <<armed, fin, verdict, reported, disk>>
          /\ \/ prep'[o] = "registered" /\ answer'[o] = answer[o]
             \/ prep'[o] = "over" /\ answer'[o] \in {400, 409}
          BY <1>0, <2>1 DEF Register, finVars, dataVars, fileVars
    <3>2. reported[o] = <<>> /\ ~armed[o] /\ fin[o] = "no"  BY <1>2, <3>1
    <3> QED BY <2>0, <3>1, <3>2 DEF Early
  <2>2. ASSUME \/ Announce(o) \/ TakeAccept(o) \/ TakeDecline(o) \/ AcceptTimeout(o)
               \/ AppClosing(o)
        PROVE  Disk /\ Report /\ Whole
    <3>1. /\ prep[o] \in {"registered", "waiting"}
          /\ prep'[o] \in {"waiting", "accepted", "declined", "expired", "closing"}
          /\ UNCHANGED <<answer, armed, fin, verdict, reported, disk>>
          BY <1>0, <2>2 DEF Announce, TakeAccept, TakeDecline, AcceptTimeout, AppClosing,
             Ending, finVars, dataVars, fileVars
    <3>2. reported[o] = <<>> /\ ~armed[o] /\ fin[o] = "no"  BY <1>2, <3>1
    <3> QED BY <2>0, <3>1, <3>2 DEF Early
  <2>3. CASE PrepareDestFiles(o)
    <3>1. /\ prep[o] = "accepted" /\ UNCHANGED <<answer, armed, fin, verdict, reported>>
          /\ \/ prep'[o] = "prepared" /\ disk'[o] = "made"
             \/ prep'[o] = "diskError"
          BY <1>0, <2>3 DEF PrepareDestFiles, finVars, DataTypes
    <3>2. reported[o] = <<>> /\ ~armed[o] /\ fin[o] = "no"  BY <1>2, <3>1
    <3> QED BY <2>0, <3>1, <3>2 DEF Early
  <2>4. CASE ReportEnd(o)
    <3>1. /\ prep[o] \in Ends /\ prep'[o] = "over"
          /\ reported'[o] = Append(reported[o], EndState[prep[o]])
          /\ answer'[o] = EndStatus[prep[o]]
          /\ UNCHANGED <<armed, fin, verdict, disk>>
          BY <1>0, <2>4 DEF ReportEnd, dataVars, fileVars
    <3>2. reported[o] = <<>> /\ ~armed[o] /\ fin[o] = "no"  BY <1>2, <3>1 DEF Ends
    <3>3. reported'[o] = <<EndState[prep[o]]>>  BY <3>1, <3>2
    <3>4. EarlyEnd(o)'
      <4>1. prep[o] = "closing" => disk'[o] = "none"  BY <2>0, <3>1 DEF Early
      <4> QED BY <3>1, <3>3, <4>1 DEF EarlyEnd
    <3> QED BY <3>1, <3>2, <3>4 DEF Early
  <2>5. CASE Arm(o)
    <3>1. /\ prep[o] = "prepared" /\ prep'[o] = "armed"
          /\ UNCHANGED <<answer, fin, verdict, reported, disk>>
          BY <1>0, <2>5 DEF Arm, finVars, dataVars, fileVars
    <3>2. reported[o] = <<>> /\ ~armed[o] /\ fin[o] = "no"  BY <1>2, <3>1
    <3> QED BY <2>0, <3>1, <3>2 DEF Early
  <2>6. CASE StartReceiving(o)
    <3>1. /\ prep[o] = "armed" /\ armed[o] /\ UNCHANGED <<armed, reported, disk>>
          /\ \/ prep'[o] = "finishing" /\ answer'[o] = answer[o]
             \/ prep'[o] = "over" /\ answer'[o] = 200
      <4>1. prep[o] = "armed" /\ UNCHANGED <<armed, reported, disk>>
            BY <2>6 DEF StartReceiving, dataVars, fileVars
      <4>2. armed[o]  BY <1>2, <4>1
      <4>3. CASE Goto(o, "finishing") /\ UNCHANGED answer  BY <1>0, <4>1, <4>2, <4>3
      <4>4. CASE Goto(o, "over") /\ answer' = [answer EXCEPT ![o] = 200]
            BY <1>0, <4>1, <4>2, <4>4
      <4>5. \/ Goto(o, "finishing") /\ UNCHANGED answer
            \/ Goto(o, "over") /\ answer' = [answer EXCEPT ![o] = 200]
            BY <2>6 DEF StartReceiving
      <4> QED BY <4>3, <4>4, <4>5
    <3>2. \/ fin'[o] = fin[o] /\ verdict'[o] = verdict[o]
          \/ /\ fin[o] = "no" /\ fin'[o] = "closing" /\ verdict'[o] = "completed"
             /\ Total(o) = 0
      <4>1. CASE UNCHANGED <<fin, verdict>>  BY <4>1
      <4>2. CASE Finalize(o, TRUE) /\ Total(o) = 0  BY <1>0, <4>2 DEF Finalize
      <4> QED BY <2>6, <4>1, <4>2 DEF StartReceiving
    <3>3. Total(o) = 0 => landed[o] = Units(o)
          BY <1>0, CountsFinite
    <3>4. reported[o] # <<>> => fin[o] = "done"  BY <1>2, <3>1
    <3>5. Disk  BY <2>0, <3>1, <3>2 DEF Early
    <3>6. Report  BY <2>0, <3>1, <3>2, <3>4
    <3>7. Whole  BY <2>0, <3>2, <3>3
    <3> QED BY <3>5, <3>6, <3>7
  <2>7. CASE AnswerEmpty(o)
    <3>1. /\ prep[o] = "finishing" /\ armed[o] /\ prep'[o] = "over" /\ answer'[o] = 200
          /\ UNCHANGED <<armed, fin, verdict, reported, disk>>
          BY <1>0, <1>2, <2>7 DEF AnswerEmpty, finVars, dataVars, fileVars
    <3> QED BY <2>0, <3>1 DEF Early
  <2> QED BY <2>1, <2>2, <2>3, <2>4, <2>5, <2>6, <2>7 DEF PrepareUpload, PrepareSteps
<1>4. DiskInv'  BY <1>0, <1>1, <1>3 DEF DiskInv
<1>5. ASSUME NEW p \in Offers \ {o}  PROVE EarlyEnd(p)' <=> EarlyEnd(p)
      BY <1>1, <1>5 DEF EarlyEnd
<1>6. ReportInv'  BY <1>0, <1>1, <1>3, <1>5 DEF ReportInv
<1>7. WholeInv'  BY <1>0, <1>1, <1>3 DEF WholeInv
<1> QED BY <1>4, <1>6, <1>7 DEF EndInv

\* PrepareUpload keeps the outcome invariant.
LEMMA PrepareOutcome ==
    ASSUME OutcomeInv, SlotInv', NEW o \in Offers, PrepareUpload(o)
    PROVE  OutcomeInv'
<1>1. TypeOK /\ DataInv  BY DEF OutcomeInv, SlotInv
<1>2. DataInv'  BY <1>1, PrepareFrame, DataKept
<1> QED BY <1>2, PrepareEnd DEF OutcomeInv

\* The outcome invariant is inductive.
LEMMA NextOutcomeInv == OutcomeInv /\ [Next]_vars => OutcomeInv'
<1> SUFFICES ASSUME OutcomeInv, [Next]_vars PROVE OutcomeInv'  OBVIOUS
<1>1. SlotInv'  BY NextSlotInv DEF OutcomeInv
<1>2. CASE UNCHANGED vars
  <2>1. DataInv'
        BY <1>2, DataKept DEF OutcomeInv, vars, dataVars
  <2>2. EndInv'
        BY <1>2 DEF OutcomeInv, EndInv, DiskInv, ReportInv, EarlyEnd, WholeInv, vars,
           slotVars, finVars, dataVars, fileVars, netVars
  <2> QED BY <1>1, <2>1, <2>2 DEF OutcomeInv
<1>3. CASE Next
      BY <1>1, <1>3, NextSplit, PrepareOutcome, FinalizeOutcome, StreamOutcome, UserOutcome
<1> QED BY <1>2, <1>3

\* The outcome invariant holds in every reachable state.
THEOREM OutcomeInvariant == Spec => []OutcomeInv
<1>1. Init => OutcomeInv  BY InitOutcomeInv
<1>2. OutcomeInv /\ [Next]_vars => OutcomeInv'  BY NextOutcomeInv
<1> QED BY <1>1, <1>2, PTL DEF Spec

\* Only finalizeRecv reports "completed", and as the last thing it does.
LEMMA CompletedReport ==
    ASSUME OutcomeInv, NEW o \in Offers, Reported(o, "completed")
    PROVE  armed[o] /\ fin[o] = "done" /\ verdict[o] = "completed"
<1>1. ReportInv /\ ReportedLast  BY DEF OutcomeInv, EndInv, SlotInv
<1>2. reported[o] = <<"completed">> /\ reported[o] # <<>>  BY DEF Reported
<1>3. armed[o]
  <2>1. ASSUME EarlyEnd(o)  PROVE FALSE
    <3>1. PICK e \in Ends : reported[o] = <<EndState[e]>>  BY <2>1 DEF EarlyEnd
    <3>2. EndState[e] = "completed"  BY <1>2, <3>1
    <3> QED BY <3>1, <3>2 DEF EndState, Ends
  <2> QED BY <1>1, <1>2, <2>1 DEF ReportInv
<1>4. verdict[o] = "completed"  BY <1>1, <1>2, <1>3 DEF ReportInv
<1>5. fin[o] = "done"  BY <1>1, <1>2, <1>3 DEF ReportedLast
<1> QED BY <1>3, <1>4, <1>5

\* "completed" is reported only when every byte of every file was written and the
\* files are in place, however streams, cancels and the watchdog interleave.
THEOREM ReceiverCompletedIsWhole == Spec => []CompletedIsWhole
<1>1. ASSUME OutcomeInv, NEW o \in Offers, Reported(o, "completed")
      PROVE  landed[o] = Units(o) /\ disk[o] = "made"
  <2>1. armed[o] /\ fin[o] = "done" /\ verdict[o] = "completed"  BY <1>1, CompletedReport
  <2> QED BY <1>1, <2>1 DEF OutcomeInv, EndInv, DiskInv, WholeInv
<1>2. OutcomeInv => CompletedIsWhole  BY <1>1 DEF CompletedIsWhole
<1> QED BY <1>2, OutcomeInvariant, PTL

\* A transfer that was reported canceled left no file.
THEOREM ReceiverCanceledLeavesNothing == Spec => []CanceledLeavesNothing
<1>1. ASSUME OutcomeInv, NEW o \in Offers, Reported(o, "canceled")
      PROVE  disk[o] \in {"none", "removed"}
  <2>1. DiskInv /\ ReportInv /\ ReportedLast
        BY <1>1 DEF OutcomeInv, EndInv, SlotInv
  <2>2. reported[o] = <<"canceled">> /\ reported[o] # <<>>  BY <1>1 DEF Reported
  <2>3. CASE armed[o]
    <3>1. verdict[o] = "canceled"  BY <2>1, <2>2, <2>3 DEF ReportInv
    <3>2. fin[o] = "done"  BY <2>1, <2>2, <2>3 DEF ReportedLast
    <3> QED BY <2>1, <2>3, <3>1, <3>2 DEF DiskInv
  <2>4. CASE ~armed[o]
    <3>1. PICK e \in Ends : reported[o] = <<EndState[e]>> /\ (e = "closing" => disk[o] = "none")
          BY <2>1, <2>2, <2>4 DEF ReportInv, EarlyEnd
    <3>2. EndState[e] = "canceled"  BY <2>2, <3>1
    <3>3. e = "closing"  BY <3>1, <3>2 DEF EndState, Ends
    <3> QED BY <3>1, <3>3
  <2> QED BY <2>3, <2>4
<1>2. OutcomeInv => CanceledLeavesNothing  BY <1>1 DEF CanceledLeavesNothing
<1> QED BY <1>2, OutcomeInvariant, PTL

(***************************************************************************)
(* The cancel                                                              *)
(***************************************************************************)

\* How a step moves finalizeRecv of o: the flag is never taken back, and is looked at
\* before the verdict is settled.
FinMoves(o) ==
    /\ canceled[o] => canceled'[o]
    /\ \/ fin'[o] = fin[o] /\ verdict'[o] = verdict[o]
       \/ fin[o] = "no" /\ fin'[o] = "closing"
       \/ /\ fin[o] = "closing" /\ fin'[o] = "clearing"
          /\ canceled[o] => verdict'[o] = "canceled"
       \/ /\ \/ fin[o] = "clearing" /\ fin'[o] = "reporting"
             \/ fin[o] = "reporting" /\ fin'[o] = "done"
          /\ verdict'[o] = verdict[o]

\* Every step moves it so.
LEMMA NextFinMoves ==
    ASSUME OutcomeInv, [Next]_vars, NEW o \in Offers
    PROVE  FinMoves(o)
<1>0. SlotInv /\ DataInv /\ TypeOK /\ FinTypes  BY DEF OutcomeInv, SlotInv, TypeOK
<1>1. CASE UNCHANGED vars  BY <1>1 DEF FinMoves, vars, finVars
<1>2. ASSUME NEW p \in Offers, PrepareUpload(p)  PROVE FinMoves(o)
  <2>1. canceled' = canceled /\ \A q \in Offers \ {p} : fin'[q] = fin[q] /\ verdict'[q] = verdict[q]
        BY <1>0, <1>2, PrepareFrame
  <2>2. \/ UNCHANGED <<fin, verdict>>
        \/ fin[p] = "no" /\ fin' = [fin EXCEPT ![p] = "closing"]
        BY <1>2 DEF PrepareUpload, PrepareSteps, Register, Announce, TakeAccept, TakeDecline,
           AcceptTimeout, AppClosing, Ending, PrepareDestFiles, ReportEnd, Arm,
           StartReceiving, AnswerEmpty, finVars, Finalize
  <2> QED BY <1>0, <2>1, <2>2 DEF FinMoves, FinTypes
<1>3. ASSUME NEW p \in Offers, Watchdog(p)  PROVE FinMoves(o)
      BY <1>0, <1>3 DEF Watchdog, Finalize, FinMoves, FinTypes
<1>4. ASSUME NEW p \in Offers, FinClose(p)  PROVE FinMoves(o)
      BY <1>0, <1>4 DEF FinClose, FinMoves, FinTypes
<1>5. ASSUME NEW p \in Offers, FinClear(p)  PROVE FinMoves(o)
      BY <1>0, <1>5 DEF FinClear, FinMoves, FinTypes
<1>6. ASSUME NEW p \in Offers, FinReport(p)  PROVE FinMoves(o)
      BY <1>0, <1>6 DEF FinReport, FinMoves, FinTypes
<1>7. ASSUME NEW h \in Handlers, DataStream(h) \/ WebUpload(h)  PROVE FinMoves(o)
  <2>1. FinBegins  BY <1>0, <1>7, StreamBegins
  <2>2. UNCHANGED canceled
        BY <1>7 DEF DataStream, DataOpen, DataCheck, DataFrame, DataBadFrame, DataEOF,
           DataWrite, DataCount, WebUpload, UploadOpen, UploadPart, UploadCopy,
           UploadPartDone, UploadBroken, UploadEnd, UploadOK, finVars
  <2> QED BY <2>1, <2>2 DEF FinBegins, FinMoves
<1>8. CASE UserStep
  <2>1. FinBegins  BY <1>0, <1>8, UserBegins
  <2>2. UNCHANGED canceled \/ \E p : canceled' = [canceled EXCEPT ![p] = TRUE]
        BY <1>8 DEF UserStep, Click, ClickCancel, Dismiss, Shutdown, RunCancel, Call,
           CallLooksUp, RespondIncoming, CancelIncoming, CancelFinalizes, finVars
  <2>3. canceled[o] => canceled'[o]  BY <1>0, <2>2 DEF FinTypes
  <2> QED BY <2>1, <2>3 DEF FinBegins, FinMoves
<1> QED BY <1>1, <1>2, <1>3, <1>4, <1>5, <1>6, <1>7, <1>8, NextSplit DEF FinalizeRecv

\* The cancel of o is flagged, and finalizeRecv has seen it or will.
Heard(o) == canceled[o] /\ (fin[o] \in {"no", "closing"} \/ verdict[o] # "completed")

\* A cancel that is heard stays heard.
LEMMA HeardStays ==
    ASSUME NEW o \in Offers
    PROVE  OutcomeInv /\ Heard(o) /\ [Next]_vars => Heard(o)'
<1> SUFFICES ASSUME OutcomeInv, Heard(o), [Next]_vars  PROVE Heard(o)'  OBVIOUS
<1>1. FinMoves(o)  BY NextFinMoves
<1> QED BY <1>1 DEF FinMoves, Heard

\* Once a cancel is flagged before finalizeRecv reads the flag, the transfer is never
\* reported as completed, even if the last byte just arrived.
THEOREM ReceiverCancelWins == Spec => CancelWins
<1> SUFFICES ASSUME NEW o \in Offers
             PROVE  Spec => [](canceled[o] /\ fin[o] \in {"no", "closing"}
                               => []~Reported(o, "completed"))
    BY DEF CancelWins
<1>1. canceled[o] /\ fin[o] \in {"no", "closing"} => Heard(o)  BY DEF Heard
<1>2. OutcomeInv /\ Heard(o) => ~Reported(o, "completed")
      BY CompletedReport DEF Heard
<1> QED BY <1>1, <1>2, OutcomeInvariant, HeardStays, PTL DEF Spec

(***************************************************************************)
(* The handles                                                             *)
(***************************************************************************)

\* The streams of o that will open no file any more, once finalizeRecv has begun: a
\* stream may open one if it waits for a header.
Settled(o) == {h \in Handlers : handler[h].of = o /\ handler[h].at # "header"}

LeakInv ==
    \A o \in Offers \ Web : fin[o] \notin {"no", "closing"} =>
        Cardinality(OpenFiles(o)) <= Cardinality(Settled(o))

\* Open files and streams are finitely many.
LEMMA LeakFinite ==
    ASSUME NEW o
    PROVE  /\ IsFiniteSet(OpenFiles(o)) /\ Cardinality(OpenFiles(o)) \in Nat
           /\ IsFiniteSet(Settled(o)) /\ Cardinality(Settled(o)) \in Nat
           /\ IsFiniteSet(ServersOf(o)) /\ Cardinality(ServersOf(o)) \in Nat
           /\ Cardinality(Settled(o)) <= Cardinality(ServersOf(o))
<1>1. OpenFiles(o) \in SUBSET Files /\ Settled(o) \in SUBSET Handlers
      /\ ServersOf(o) \in SUBSET Handlers /\ Settled(o) \in SUBSET ServersOf(o)
      BY DEF OpenFiles, Settled, ServersOf
<1>2. IsFiniteSet(OpenFiles(o)) /\ IsFiniteSet(Settled(o)) /\ IsFiniteSet(ServersOf(o))
      BY <1>1, ReceiverConstants, FS_Subset
<1> QED BY <1>1, <1>2, FS_CardinalityType, FS_Subset

\* A step of h settles no stream of o less, unless the transfer still runs.
LEMMA SettledGrows ==
    ASSUME TypeOK, StageInv, NEW h \in Handlers, DataStream(h) \/ WebUpload(h),
           NEW o \in Offers \ Web, fin[o] # "no"
    PROVE  Settled(o) \subseteq Settled(o)'
<1>0. HandlerTypes  BY DEF TypeOK
<1>1. ASSUME NEW g \in Handlers, handler[g].of = o, handler[g].at # "header"
      PROVE  handler'[g].of = o /\ handler'[g].at # "header"
  <2>1. ASSUME NEW p \in Offers, DataOpen(h, p) \/ UploadOpen(h, p)
        PROVE  handler'[g] = handler[g]
    <3>1. handler[h].at = "idle" /\ handler[h].of = None
          BY <2>1 DEF DataOpen, UploadOpen, StageInv
    <3>2. g # h  BY <1>1, <3>1, ReceiverConstants
    <3> QED BY <1>0, <2>1, <3>2 DEF DataOpen, UploadOpen, HandlerTypes
  <2>2. CASE Leave(h)  BY <1>0, <1>1, <2>2, RecordSteps DEF Alters
  <2>3. ASSUME NEW pc \in {"check", "body", "part", "finishing"}, StepTo(h, pc)
        PROVE  handler'[g].of = o /\ handler'[g].at # "header"
        BY <1>0, <1>1, <2>3, RecordSteps DEF Alters
  <2>4. CASE DataCheck(h) /\ StepTo(h, "header") /\ fin[handler[h].of] = "no"
    <3>1. g # h  BY <1>1, <2>4
    <3> QED BY <1>0, <1>1, <2>4, <3>1, RecordSteps DEF Alters
  <2>5. ASSUME NEW pc \in {"body", "count", "copy"}, NEW s, NEW l,
               \/ handler' = [handler EXCEPT ![h].at = pc, ![h].todo = s]
               \/ handler' = [handler EXCEPT ![h].at = pc, ![h].left = l, ![h].todo = s]
        PROVE  handler'[g].of = o /\ handler'[g].at # "header"
        BY <1>0, <1>1, <2>5 DEF HandlerTypes
  <2>6. ASSUME NEW s, handler' = [handler EXCEPT ![h].todo = s]
        PROVE  handler'[g].of = o /\ handler'[g].at # "header"
        BY <1>0, <1>1, <2>6 DEF HandlerTypes
  <2>7. CASE DataStream(h)
    <3>1. CASE DataCheck(h)  BY <2>2, <2>4, <3>1 DEF DataCheck
    <3>2. CASE DataFrame(h)
      <4>1. Leave(h) \/ \E s : handler' = [handler EXCEPT ![h].at = "body", ![h].todo = s]
            BY <3>2 DEF DataFrame, GiveUp
      <4> QED BY <2>2, <2>5, <4>1
    <3>3. CASE DataBadFrame(h) \/ DataEOF(h)  BY <2>2, <3>3 DEF DataBadFrame, DataEOF, GiveUp
    <3>4. CASE DataWrite(h)
      <4>1. Leave(h) \/ \E s : handler' = [handler EXCEPT ![h].at = "count", ![h].todo = s]
            BY <3>4 DEF DataWrite, GiveUp
      <4> QED BY <2>2, <2>5, <4>1
    <3>5. CASE DataCount(h)
      <4>1. Leave(h) \/ StepTo(h, "check") \/ StepTo(h, "body")
            BY <3>5 DEF DataCount
      <4> QED BY <2>2, <2>3, <4>1
    <3> QED BY <1>1, <2>1, <2>7, <3>1, <3>2, <3>3, <3>4, <3>5 DEF DataStream
  <2>8. CASE WebUpload(h)
    <3>1. CASE UploadPart(h)
      <4>1. Leave(h) \/ \E s, l : handler' = [handler EXCEPT ![h].at = "copy",
                                                 ![h].left = l, ![h].todo = s]
            BY <3>1 DEF UploadPart, GiveUp
      <4> QED BY <2>2, <2>5, <4>1
    <3>2. CASE UploadCopy(h)
      <4>1. Leave(h) \/ \E s : handler' = [handler EXCEPT ![h].todo = s]
            BY <3>2 DEF UploadCopy, GiveUp
      <4> QED BY <2>2, <2>6, <4>1
    <3>3. CASE UploadPartDone(h) \/ UploadEnd(h)
          BY <2>3, <3>3 DEF UploadPartDone, UploadEnd
    <3>4. CASE UploadBroken(h) \/ UploadOK(h)
          BY <2>2, <3>4 DEF UploadBroken, UploadOK, GiveUp
    <3> QED BY <1>1, <2>1, <2>8, <3>1, <3>2, <3>3, <3>4 DEF WebUpload
  <2> QED BY <2>7, <2>8
<1> QED BY <1>1 DEF Settled

\* What a goroutine opens: one file of its own offer, and a stream that does is settled.
LEMMA StreamOpens ==
    ASSUME TypeOK, StageInv, NEW h \in Handlers, DataStream(h) \/ WebUpload(h),
           NEW o \in Offers \ Web
    PROVE  \/ handle'[o] = handle[o]
           \/ /\ h \notin Settled(o) /\ h \in Settled(o)'
              /\ \E f \in Files : OpenFiles(o)' \subseteq OpenFiles(o) \cup {f}
<1>0. HandlerTypes /\ DataTypes  BY DEF TypeOK
<1>1. CASE DataFrame(h)
  <2>1. handler[h].at = "header" /\ handler[h].of \in Offers
        BY <1>1, Serving DEF DataFrame
  <2>2. CASE UNCHANGED handle  BY <2>2
  <2>3. ASSUME NEW f \in FilesOf(handler[h].of), NEW s, OpenDestHandle(handler[h].of, f),
               handler' = [handler EXCEPT ![h].at = "body", ![h].todo = s]
        PROVE  \/ handle'[o] = handle[o]
               \/ /\ h \notin Settled(o) /\ h \in Settled(o)'
                  /\ \E g \in Files : OpenFiles(o)' \subseteq OpenFiles(o) \cup {g}
    <3>1. CASE handler[h].of # o  BY <1>0, <2>1, <2>3, <3>1 DEF OpenDestHandle, DataTypes
    <3>2. CASE handler[h].of = o
      <4>1. f \in Files  BY <2>1, <2>3, UnitsTyped
      <4>2. OpenFiles(o)' \subseteq OpenFiles(o) \cup {f}
            BY <1>0, <2>3, <3>2 DEF OpenDestHandle, DataTypes, OpenFiles
      <4>3. h \notin Settled(o) /\ h \in Settled(o)'
            BY <1>0, <2>1, <2>3, <3>2 DEF Settled, HandlerTypes
      <4> QED BY <4>1, <4>2, <4>3
    <3> QED BY <3>1, <3>2
  <2> QED BY <1>1, <2>2, <2>3 DEF DataFrame
<1>2. CASE UploadPart(h)
  <2>1. handler[h].of \in Offers /\ handler[h].of # o
        BY <1>2, Serving DEF UploadPart, StageInv
  <2>2. UNCHANGED handle \/ \E f : OpenDestHandle(handler[h].of, f)
        BY <1>2 DEF UploadPart
  <2> QED BY <1>0, <2>1, <2>2 DEF OpenDestHandle, DataTypes
<1>3. UNCHANGED handle \/ DataFrame(h) \/ UploadPart(h)
      BY DEF DataStream, DataOpen, DataCheck, DataBadFrame, DataEOF, DataWrite, DataCount,
         WebUpload, UploadOpen, UploadCopy, UploadPartDone, UploadBroken, UploadEnd,
         UploadOK, fileVars
<1> QED BY <1>1, <1>2, <1>3

\* The leak invariant is kept.
LEMMA NextLeakInv ==
    ASSUME OutcomeInv, OutcomeInv', LeakInv, [Next]_vars
    PROVE  LeakInv'
<1> SUFFICES ASSUME NEW o \in Offers \ Web, fin'[o] \notin {"no", "closing"}
             PROVE  Cardinality(OpenFiles(o)') <= Cardinality(Settled(o)')
    BY DEF LeakInv
<1>0. TypeOK /\ TypeOK' /\ StageInv /\ FinMoves(o) /\ DataTypes
      BY NextFinMoves DEF OutcomeInv, SlotInv, DataInv, TypeOK
<1>1. ASSUME FinClose(o)  PROVE Cardinality(OpenFiles(o)') <= Cardinality(Settled(o)')
  <2>1. OpenFiles(o)' = {}
        BY <1>0, <1>1 DEF OpenFiles, FinClose, CloseHandles, DataTypes
  <2>2. Cardinality(OpenFiles(o)') = 0  BY <2>1, FS_EmptySet
  <2>3. IsFiniteSet(Settled(o)')
        BY ReceiverConstants, FS_Subset, Settled(o)' \in SUBSET Handlers DEF Settled
  <2>4. Cardinality(Settled(o)') \in Nat  BY <2>3, FS_CardinalityType
  <2> QED BY <2>2, <2>4
<1>2. ASSUME fin[o] \notin {"no", "closing"}, UNCHANGED handler, handle'[o] = handle[o]
      PROVE  Cardinality(OpenFiles(o)') <= Cardinality(Settled(o)')
  <2>1. OpenFiles(o)' = OpenFiles(o) /\ Settled(o)' = Settled(o)
        BY <1>2 DEF OpenFiles, Settled
  <2> QED BY <1>2, <2>1 DEF LeakInv
<1>3. ASSUME NEW h \in Handlers, DataStream(h) \/ WebUpload(h)
      PROVE  Cardinality(OpenFiles(o)') <= Cardinality(Settled(o)')
  <2>1. fin[o] \notin {"no", "closing"}
    <3>1. FinBegins  BY <1>3, StreamBegins DEF OutcomeInv
    <3> QED BY <3>1 DEF FinBegins
  <2>2. Cardinality(OpenFiles(o)) <= Cardinality(Settled(o))  BY <2>1 DEF LeakInv
  <2>3. Settled(o) \subseteq Settled(o)'  BY <1>0, <1>3, <2>1, SettledGrows
  <2>4. IsFiniteSet(Settled(o)')
        BY ReceiverConstants, FS_Subset, Settled(o)' \in SUBSET Handlers DEF Settled
  <2>5. CASE handle'[o] = handle[o]
    <3>1. OpenFiles(o)' = OpenFiles(o)  BY <2>5 DEF OpenFiles
    <3>2. Cardinality(Settled(o)) <= Cardinality(Settled(o)')  BY <2>3, <2>4, FS_Subset
    <3>3. Cardinality(Settled(o)') \in Nat  BY <2>4, FS_CardinalityType
    <3> QED BY <2>2, <3>1, <3>2, <3>3, LeakFinite
  <2>6. ASSUME h \notin Settled(o), h \in Settled(o)', NEW f \in Files,
               OpenFiles(o)' \subseteq OpenFiles(o) \cup {f}
        PROVE  Cardinality(OpenFiles(o)') <= Cardinality(Settled(o)')
    <3>1. IsFiniteSet(OpenFiles(o)) /\ IsFiniteSet(Settled(o))  BY LeakFinite
    <3>2. Cardinality(Settled(o) \cup {h}) = Cardinality(Settled(o)) + 1
          BY <2>6, <3>1, FS_AddElement
    <3>3. Settled(o) \cup {h} \subseteq Settled(o)'  BY <2>3, <2>6
    <3>4. Cardinality(Settled(o) \cup {h}) <= Cardinality(Settled(o)')
          BY <2>4, <3>3, FS_Subset
    <3>5. Cardinality(OpenFiles(o)) \in Nat /\ Cardinality(Settled(o)) \in Nat
          BY LeakFinite
    <3>6. /\ IsFiniteSet(OpenFiles(o) \cup {f})
          /\ Cardinality(OpenFiles(o) \cup {f}) <= Cardinality(OpenFiles(o)) + 1
          BY <3>1, <3>5, FS_AddElement
    <3>7. /\ IsFiniteSet(OpenFiles(o)')
          /\ Cardinality(OpenFiles(o)') <= Cardinality(OpenFiles(o) \cup {f})
          BY <2>6, <3>6, FS_Subset
    <3>8. /\ Cardinality(OpenFiles(o)') \in Nat /\ Cardinality(Settled(o)') \in Nat
          /\ Cardinality(OpenFiles(o) \cup {f}) \in Nat
          BY <2>4, <3>6, <3>7, FS_CardinalityType
    <3> QED BY <2>2, <3>2, <3>4, <3>6, <3>7, <3>8, <3>5
  <2> QED BY <1>0, <1>3, <2>5, <2>6, StreamOpens
<1>4. CASE UNCHANGED vars
      BY <1>2, <1>4 DEF vars, finVars, dataVars, fileVars
<1>5. ASSUME NEW p \in Offers, PrepareUpload(p)
      PROVE  Cardinality(OpenFiles(o)') <= Cardinality(Settled(o)')
  <2>1. UNCHANGED <<handler, handle>>  BY <1>0, <1>5, PrepareFrame
  <2>2. fin[o] \notin {"no", "closing"}
    <3>1. UNCHANGED fin \/ (fin[p] = "no" /\ fin' = [fin EXCEPT ![p] = "closing"])
          BY <1>5 DEF PrepareUpload, PrepareSteps, Register, Announce, TakeAccept, TakeDecline,
             AcceptTimeout, AppClosing, Ending, PrepareDestFiles, ReportEnd, Arm,
             StartReceiving, AnswerEmpty, finVars, Finalize
    <3> QED BY <1>0, <3>1 DEF TypeOK, FinTypes
  <2> QED BY <1>2, <2>1, <2>2
<1>6. ASSUME NEW p \in Offers, Watchdog(p) \/ FinalizeRecv(p), ~FinClose(o)
      PROVE  Cardinality(OpenFiles(o)') <= Cardinality(Settled(o)')
  <2>1. UNCHANGED handler /\ handle'[o] = handle[o]
    <3>1. CASE Watchdog(p) \/ FinClear(p) \/ FinReport(p)
          BY <3>1 DEF Watchdog, FinClear, FinReport, dataVars, fileVars
    <3>2. CASE FinClose(p)
      <4>1. p # o  BY <1>6, <3>2
      <4> QED BY <1>0, <3>2, <4>1 DEF FinClose, CloseHandles, DataTypes
    <3> QED BY <1>6, <3>1, <3>2 DEF FinalizeRecv
  <2>2. fin[o] \notin {"no", "closing"}
        BY <1>0, <1>6 DEF Watchdog, FinalizeRecv, FinClose, FinClear, FinReport, Finalize,
           TypeOK, FinTypes
  <2> QED BY <1>2, <2>1, <2>2
<1>7. CASE UserStep
  <2>1. UNCHANGED <<handler, handle>>
        BY <1>7 DEF UserStep, Click, ClickCancel, Dismiss, Shutdown, RunCancel, Call,
           CallLooksUp, RespondIncoming, CancelIncoming, CancelFinalizes, dataVars, fileVars
  <2>2. FinBegins  BY <1>7, UserBegins DEF OutcomeInv
  <2>3. fin[o] \notin {"no", "closing"}  BY <2>2 DEF FinBegins
  <2> QED BY <1>2, <2>1, <2>3
<1> QED BY <1>1, <1>3, <1>4, <1>5, <1>6, <1>7, NextSplit

\* Of the handles of a native offer that finalizeRecv has closed, no more are opened
\* again than streams were waiting for a header.
THEOREM ReceiverLeakBound == Spec => []LeakBound
<1>1. Init => LeakInv  BY DEF Init, LeakInv
<1>2. OutcomeInv /\ OutcomeInv' /\ LeakInv /\ [Next]_vars => LeakInv'  BY NextLeakInv
<1>3. LeakInv => LeakBound
  <2>1. ASSUME LeakInv, NEW o \in Offers \ Web, fin[o] \notin {"no", "closing"}
        PROVE  Cardinality(OpenFiles(o)) <= Cardinality(ServersOf(o))
    <3>1. Cardinality(OpenFiles(o)) <= Cardinality(Settled(o))  BY <2>1 DEF LeakInv
    <3> QED BY <3>1, LeakFinite
  <2> QED BY <2>1 DEF LeakBound
<1> QED BY <1>1, <1>2, <1>3, OutcomeInvariant, PTL DEF Spec

(***************************************************************************)
(* The refinement of OfferLife                                             *)
(***************************************************************************)

Saved(o) == disk[o] = "made" /\ landed[o] = Units(o)

PhaseFcn == [o \in Offers |-> Phase(o)]
SavedFcn == [o \in Offers |-> Saved(o)]

SavedKept(o) == Saved(o)' <=> Saved(o)

\* All that a step of Receiver does to the offers of OfferLife, it does to o.
OnlyOffer(o) == \A p \in Offers \ {o} : Phase(p)' = Phase(p) /\ SavedKept(p)

\* What it may do to o, in the terms of Receiver: nothing, or what one of the actions of
\* OfferLife does.
Moves(o) ==
    \/ Phase(o)' = Phase(o) /\ SavedKept(o)
    \/ /\ Phase(o) = "new" /\ Phase(o)' = "refused" /\ SavedKept(o)
    \/ /\ Phase(o) = "new" /\ Phase(o)' = "offered" /\ SavedKept(o)
       /\ \A p \in Offers : Phase(p) \notin {"offered", "receiving"}
    \/ /\ Phase(o) = "offered" /\ SavedKept(o)
       /\ Phase(o)' \in {"receiving", "declined", "failed", "canceled"}
    \/ /\ Phase(o) = "receiving" /\ SavedKept(o)
       /\ Phase(o)' = "failed" \/ (Phase(o)' = "completed" /\ Saved(o))
    \/ /\ Phase(o) = "receiving" /\ Phase(o)' = "canceled" /\ ~Saved(o)'
    \/ /\ Phase(o) \in {"receiving", "failed"} /\ Phase(o)' = Phase(o)
       /\ ~Saved(o) /\ Saved(o)'

\* The two variables of the refinement mapping.
LEMMA LifeVars ==
    ASSUME PhaseFcn' = PhaseFcn, SavedFcn' = SavedFcn
    PROVE  UNCHANGED Life!vars
BY DEF Life!vars, PhaseFcn, SavedFcn, Saved

\* A step that leaves the saved bytes of every offer leaves the mapped variable.
LEMMA SavedSame ==
    ASSUME \A p \in Offers : SavedKept(p)
    PROVE  SavedFcn' = SavedFcn
BY DEF SavedFcn, SavedKept, Saved

\* A step that changes them for o alone is an assignment to the mapped variable.
LEMMA SavedSet ==
    ASSUME NEW o \in Offers, NEW b \in BOOLEAN, Saved(o)' <=> b,
           \A p \in Offers \ {o} : SavedKept(p)
    PROVE  SavedFcn' = [SavedFcn EXCEPT ![o] = b]
BY DEF SavedFcn, SavedKept, Saved

\* A step that changes the phase of o alone is a MoveTo of OfferLife.
LEMMA PhaseSet ==
    ASSUME NEW o \in Offers, \A p \in Offers \ {o} : Phase(p)' = Phase(p)
    PROVE  PhaseFcn' = [PhaseFcn EXCEPT ![o] = Phase(o)']
BY DEF PhaseFcn

\* Such a step is a step of OfferLife or a stutter.
LEMMA LifeStep ==
    ASSUME NEW o \in Offers, OnlyOffer(o), Moves(o)
    PROVE  [Life!Next]_(Life!vars)
<1>1. SavedKept(o) => SavedFcn' = SavedFcn  BY SavedSame DEF OnlyOffer
<1>2. PhaseFcn' = [PhaseFcn EXCEPT ![o] = Phase(o)']  BY PhaseSet DEF OnlyOffer
<1>3. PhaseFcn[o] = Phase(o) /\ (SavedFcn[o] <=> Saved(o))  BY DEF PhaseFcn, SavedFcn
<1>4. ASSUME NEW p  PROVE Life!MoveTo(o, p) <=> PhaseFcn' = [PhaseFcn EXCEPT ![o] = p]
      BY DEF Life!MoveTo, PhaseFcn
<1>5. Life!MoveTo(o, Phase(o)')  BY <1>2, <1>4
<1>6. CASE Phase(o)' = Phase(o) /\ SavedKept(o)
  <2>1. PhaseFcn' = PhaseFcn  BY <1>2, <1>3, <1>6 DEF PhaseFcn
  <2> QED BY <1>1, <1>6, <2>1, LifeVars
<1>7. CASE Phase(o) = "new" /\ Phase(o)' = "refused" /\ SavedKept(o)
  <2>1. Life!Refuse(o)
        BY <1>1, <1>3, <1>5, <1>7 DEF Life!Refuse, PhaseFcn, SavedFcn, Saved
  <2> QED BY <2>1 DEF Life!Next
<1>8. CASE /\ Phase(o) = "new" /\ Phase(o)' = "offered" /\ SavedKept(o)
           /\ \A p \in Offers : Phase(p) \notin {"offered", "receiving"}
  <2>1. ~Life!Busy  BY <1>8 DEF Life!Busy
  <2>2. Life!Offer(o)
        BY <1>1, <1>3, <1>5, <1>8, <2>1 DEF Life!Offer, PhaseFcn, SavedFcn, Saved
  <2> QED BY <2>2 DEF Life!Next
<1>9. CASE Phase(o) = "offered" /\ Phase(o)' = "receiving" /\ SavedKept(o)
  <2>1. Life!Accept(o)
        BY <1>1, <1>3, <1>5, <1>9 DEF Life!Accept, PhaseFcn, SavedFcn, Saved
  <2> QED BY <2>1 DEF Life!Next
<1>10. CASE /\ Phase(o) = "offered" /\ SavedKept(o)
            /\ Phase(o)' \in {"declined", "failed", "canceled"}
  <2>1. Life!TurnDown(o)
        BY <1>1, <1>3, <1>5, <1>10 DEF Life!TurnDown, PhaseFcn, SavedFcn, Saved
  <2> QED BY <2>1 DEF Life!Next
<1>11. CASE Phase(o) = "receiving" /\ SavedKept(o) /\ Phase(o)' = "failed"
  <2>1. Life!Fail(o)
        BY <1>1, <1>3, <1>5, <1>11 DEF Life!Fail, PhaseFcn, SavedFcn, Saved
  <2> QED BY <2>1 DEF Life!Next
<1>12. CASE Phase(o) = "receiving" /\ SavedKept(o) /\ Phase(o)' = "completed" /\ Saved(o)
  <2>1. Life!Complete(o)
        BY <1>1, <1>3, <1>5, <1>12 DEF Life!Complete, PhaseFcn, SavedFcn, Saved
  <2> QED BY <2>1 DEF Life!Next
<1>13. CASE Phase(o) = "receiving" /\ Phase(o)' = "canceled" /\ ~Saved(o)'
  <2>1. SavedFcn' = [SavedFcn EXCEPT ![o] = FALSE]  BY <1>13, SavedSet DEF OnlyOffer
  <2>2. Life!Discard(o)
        BY <1>3, <1>5, <1>13, <2>1 DEF Life!Discard, PhaseFcn, SavedFcn, Saved
  <2> QED BY <2>2 DEF Life!Next
<1>14. CASE /\ Phase(o) \in {"receiving", "failed"} /\ Phase(o)' = Phase(o)
            /\ ~Saved(o) /\ Saved(o)'
  <2>1. SavedFcn' = [SavedFcn EXCEPT ![o] = TRUE]  BY <1>14, SavedSet DEF OnlyOffer
  <2>2. PhaseFcn' = PhaseFcn  BY <1>2, <1>3, <1>14 DEF PhaseFcn
  <2>3. Life!Save(o)
        BY <1>3, <1>14, <2>1, <2>2 DEF Life!Save, PhaseFcn, SavedFcn, Saved
  <2> QED BY <2>3 DEF Life!Next
<1> QED BY <1>6, <1>7, <1>8, <1>9, <1>10, <1>11, <1>12, <1>13, <1>14 DEF Moves

\* PrepareUpload or finalizeRecv has the offer; nothing else was answered for it.
Served(o) == /\ prep[o] \in {"accepted", "prepared", "armed", "finishing", "over"}
             /\ answer[o] \in {0, 200}

ServedPhase(o) == IF fin[o] \in {"reporting", "done"} THEN verdict[o] ELSE "receiving"

\* The phase of such an offer is what finalizeRecv made of it.
LEMMA PhaseServed ==
    ASSUME NEW o
    PROVE  /\ Served(o) => Phase(o) = ServedPhase(o)
           /\ Served(o)' => Phase(o)' = ServedPhase(o)'
BY DEF Served, ServedPhase, Phase, Ends

\* An offer that is armed is served.
LEMMA ArmedServed ==
    ASSUME OutcomeInv, NEW o \in Offers, armed[o]
    PROVE  Served(o) /\ Phase(o) = ServedPhase(o)
<1>1. prep[o] \in {"armed", "finishing", "over"}
      BY DEF OutcomeInv, SlotInv, ArmedFirst
<1>2. answer[o] \in {0, 200}  BY <1>1 DEF OutcomeInv, EndInv, ReportInv
<1> QED BY <1>1, <1>2, PhaseServed DEF Served

\* An offer that is being asked about or received holds the slot.
LEMMA PhaseHolds ==
    ASSUME OutcomeInv, NEW o \in Offers, Phase(o) \in {"offered", "receiving"}
    PROVE  Holding(o)
<1>0. TypeOK /\ SlotTypes /\ FinTypes /\ ArmedFirst /\ ReportInv
      BY DEF OutcomeInv, SlotInv, EndInv, TypeOK
<1>1. CASE armed[o]
  <2>1. ServedPhase(o) \in {"offered", "receiving"}  BY <1>1, ArmedServed
  <2>2. fin[o] \notin {"reporting", "done"}
        BY <1>0, <2>1 DEF ServedPhase, FinTypes, Outcomes
  <2> QED BY <1>1, <2>2 DEF Holding
<1>2. CASE ~armed[o]
  <2>1. fin[o] = "no"  BY <1>0, <1>2 DEF ArmedFirst
  <2>2. prep[o] \notin {"armed", "finishing"}  BY <1>0, <1>2 DEF ArmedFirst
  <2>3. prep[o] # "new"  BY DEF Phase
  <2>4. prep[o] \notin Ends
    <3>1. ASSUME prep[o] \in Ends  PROVE Phase(o) = EndState[prep[o]]
          BY <3>1 DEF Phase, Ends
    <3> QED BY <3>1 DEF EndState, Ends
  <2>5. prep[o] # "over"
    <3>1. SUFFICES ASSUME prep[o] = "over"  PROVE FALSE  OBVIOUS
    <3>2. answer[o] \in {400, 409} \/ EarlyEnd(o)  BY <1>0, <1>2, <3>1 DEF ReportInv
    <3>3. EarlyEnd(o) => answer[o] \in {403, 408, 500, 503}
          BY DEF EarlyEnd, Ends, EndStatus
    <3> QED BY <3>1, <3>2, <3>3 DEF Phase, Ends
  <2> QED BY <1>0, <2>1, <2>2, <2>3, <2>4, <2>5 DEF Holding, SlotTypes, PrepareStates
<1> QED BY <1>1, <1>2

\* Whoever begins finalizeRecv leaves the phase as it is: no outcome is settled yet.
LEMMA BeginsPhase ==
    ASSUME OutcomeInv, FinBegins, UNCHANGED <<prep, answer, armed>>, NEW o \in Offers
    PROVE  Phase(o)' = Phase(o)
<1>1. CASE fin'[o] = fin[o] /\ verdict'[o] = verdict[o]  BY <1>1 DEF Phase
<1>2. CASE fin[o] = "no" /\ fin'[o] = "closing" /\ armed[o]
  <2>1. Served(o) /\ Phase(o) = "receiving"  BY <1>2, ArmedServed DEF ServedPhase
  <2>2. Phase(o)' = ServedPhase(o)'  BY <2>1, PhaseServed DEF Served
  <2> QED BY <1>2, <2>1, <2>2 DEF ServedPhase
<1> QED BY <1>1, <1>2 DEF FinBegins

\* The user and the shutdown move no offer of OfferLife.
LEMMA UserLife ==
    ASSUME OutcomeInv, UserStep
    PROVE  UNCHANGED Life!vars
<1>1. UNCHANGED <<prep, answer, armed, disk, landed>>
      BY DEF UserStep, Click, ClickCancel, Dismiss, Shutdown, RunCancel, Call,
             CallLooksUp, RespondIncoming, CancelIncoming, CancelFinalizes,
             slotVars, finVars, dataVars, fileVars, netVars
<1>2. FinBegins  BY UserBegins DEF OutcomeInv
<1>3. \A o \in Offers : Phase(o)' = Phase(o)  BY <1>1, <1>2, BeginsPhase
<1>4. PhaseFcn' = PhaseFcn  BY <1>3 DEF PhaseFcn
<1>5. SavedFcn' = SavedFcn  BY <1>1, SavedSame DEF SavedKept, Saved
<1> QED BY <1>4, <1>5, LifeVars

\* A goroutine writes to the files of one offer.
LEMMA StreamWrites ==
    ASSUME TypeOK, DataInv, NEW h \in Handlers, DataStream(h) \/ WebUpload(h)
    PROVE  \/ UNCHANGED landed
           \/ /\ Active(h) /\ handler[h].of \in Offers
              /\ \A p \in Offers \ {handler[h].of} : landed'[p] = landed[p]
<1>1. \/ UNCHANGED landed
      \/ /\ Active(h)
         /\ \E u : landed' = [landed EXCEPT ![handler[h].of] = @ \cup {u}]
      BY DEF DataStream, DataOpen, DataCheck, DataFrame, DataBadFrame, DataEOF,
             DataWrite, DataCount, WebUpload, UploadOpen, UploadPart, UploadCopy,
             UploadPartDone, UploadBroken, UploadEnd, UploadOK, netVars, Active
<1>2. Active(h) => handler[h].of \in Offers  BY Serving DEF Active
<1> QED BY <1>1, <1>2 DEF TypeOK, DataTypes

\* A goroutine can complete the bytes of an offer that is received, or that was reported
\* failed; a completed one has them, and a canceled one has no file.
LEMMA StreamLife ==
    ASSUME OutcomeInv, NEW h \in Handlers, DataStream(h) \/ WebUpload(h)
    PROVE  [Life!Next]_(Life!vars)
<1>0. SlotInv /\ TypeOK /\ ArmedFirst /\ DataInv /\ LandedInv /\ DiskInv /\ WholeInv
      BY DEF OutcomeInv, SlotInv, EndInv, DataInv
<1>1. UNCHANGED <<prep, answer, armed, disk>>
      BY DEF DataStream, DataOpen, DataCheck, DataFrame, DataBadFrame, DataEOF,
             DataWrite, DataCount, WebUpload, UploadOpen, UploadPart, UploadCopy,
             UploadPartDone, UploadBroken, UploadEnd, UploadOK, slotVars, finVars,
             fileVars
<1>2. FinBegins  BY <1>0, StreamBegins
<1>3. \A o \in Offers : Phase(o)' = Phase(o)  BY <1>1, <1>2, BeginsPhase
<1>4. CASE UNCHANGED landed
  <2>1. PhaseFcn' = PhaseFcn  BY <1>3 DEF PhaseFcn
  <2>2. SavedFcn' = SavedFcn  BY <1>1, <1>4, SavedSame DEF SavedKept, Saved
  <2> QED BY <2>1, <2>2, LifeVars
<1>5. ASSUME NEW o \in Offers, o = handler[h].of, Active(h),
             \A p \in Offers \ {o} : landed'[p] = landed[p]
      PROVE  [Life!Next]_(Life!vars)
  <2>1. OnlyOffer(o)  BY <1>1, <1>3, <1>5 DEF OnlyOffer, SavedKept, Saved
  <2>2. landed[o] \subseteq landed'[o] /\ landed'[o] \subseteq Units(o)
        BY <1>0, StreamData DEF DataInv, LandedInv
  <2>3. CASE SavedKept(o)  BY <1>3, <2>1, <2>3, LifeStep DEF Moves
  <2>4. CASE ~SavedKept(o)
    <3>1. ~Saved(o) /\ Saved(o)' /\ disk[o] = "made" /\ landed[o] # Units(o)
          BY <1>1, <2>2, <2>4 DEF SavedKept, Saved
    <3>2. armed[o]  BY <1>0, <1>5 DEF ArmedFirst
    <3>3. Phase(o) = ServedPhase(o)  BY <3>2, ArmedServed
    <3>4. fin[o] \in {"reporting", "done"} => verdict[o] = "failed"
          BY <1>0, <3>1, <3>2 DEF DiskInv, WholeInv
    <3>5. Phase(o) \in {"receiving", "failed"}  BY <3>3, <3>4 DEF ServedPhase
    <3> QED BY <1>3, <2>1, <3>1, <3>5, LifeStep DEF Moves
  <2> QED BY <2>3, <2>4
<1> QED BY <1>0, <1>4, <1>5, StreamWrites

\* The watchdog and finalizeRecv: the phase moves when the slot is freed, and the files
\* are settled in the same step.
LEMMA FinalizeLife ==
    ASSUME OutcomeInv, NEW o \in Offers, Watchdog(o) \/ FinalizeRecv(o)
    PROVE  [Life!Next]_(Life!vars)
<1>0. /\ SlotInv /\ TypeOK /\ FinTypes /\ DataTypes /\ ArmedFirst /\ DiskInv /\ WholeInv
      BY DEF OutcomeInv, SlotInv, TypeOK, EndInv
<1>1. UNCHANGED <<prep, answer, armed, landed>>
      BY DEF Watchdog, FinalizeRecv, FinClose, FinClear, FinReport, slotVars, dataVars,
             netVars
<1>2. \A p \in Offers \ {o} : /\ fin'[p] = fin[p] /\ verdict'[p] = verdict[p]
                              /\ disk'[p] = disk[p]
      BY <1>0 DEF Watchdog, Finalize, FinalizeRecv, FinClose, FinClear, FinReport,
             dataVars, fileVars, FinTypes, DataTypes
<1>3. OnlyOffer(o)  BY <1>1, <1>2 DEF OnlyOffer, SavedKept, Saved, Phase
<1>4. armed[o]  BY <1>0 DEF Watchdog, FinalizeRecv, FinClose, FinClear, FinReport, ArmedFirst
<1>5. Phase(o) = ServedPhase(o) /\ Phase(o)' = ServedPhase(o)'
  <2>1. Served(o) /\ Phase(o) = ServedPhase(o)  BY <1>4, ArmedServed
  <2>2. Served(o)'  BY <1>1, <2>1 DEF Served
  <2> QED BY <2>1, <2>2, PhaseServed
<1>6. CASE Watchdog(o) \/ FinClose(o) \/ FinReport(o)
  <2>1. disk'[o] = disk[o]
        BY <1>6 DEF Watchdog, FinClose, FinReport, dataVars, fileVars
  <2>2. \/ fin[o] \notin {"reporting", "done"} /\ fin'[o] \notin {"reporting", "done"}
        \/ /\ fin[o] \in {"reporting", "done"} /\ fin'[o] \in {"reporting", "done"}
           /\ verdict'[o] = verdict[o]
        BY <1>0, <1>6 DEF Watchdog, Finalize, FinClose, FinReport, FinTypes
  <2>3. Phase(o)' = Phase(o)  BY <1>5, <2>2 DEF ServedPhase
  <2> QED BY <1>1, <1>3, <2>1, <2>3, LifeStep DEF Moves, SavedKept, Saved
<1>7. CASE FinClear(o)
  <2>1. /\ fin[o] = "clearing" /\ fin'[o] = "reporting" /\ verdict'[o] = verdict[o]
        /\ disk'[o] = IF verdict[o] = "canceled" THEN "removed" ELSE disk[o]
        BY <1>0, <1>7 DEF FinClear, FinTypes, DataTypes
  <2>2. Phase(o) = "receiving" /\ Phase(o)' = verdict[o]  BY <1>5, <2>1 DEF ServedPhase
  <2>3. /\ verdict[o] \in {"completed", "failed", "canceled"}
        /\ verdict[o] = "completed" => landed[o] = Units(o)
        BY <1>0, <2>1 DEF WholeInv
  <2>4. disk[o] = "made"  BY <1>0, <1>4, <2>1 DEF DiskInv
  <2>5. Moves(o)  BY <1>1, <2>1, <2>2, <2>3, <2>4 DEF Moves, SavedKept, Saved
  <2> QED BY <1>3, <2>5, LifeStep
<1> QED BY <1>6, <1>7 DEF FinalizeRecv

\* PrepareUpload: an offer is taken up only while no other one is asked about or
\* received, and is turned away, turned down or accepted.
LEMMA PrepareLife ==
    ASSUME OutcomeInv, NEW o \in Offers, PrepareUpload(o)
    PROVE  [Life!Next]_(Life!vars)
<1>0. /\ SlotInv /\ TypeOK /\ SlotTypes /\ FinTypes /\ DataTypes /\ ArmedFirst /\ SlotOwner
      /\ DiskInv /\ ReportInv
      BY DEF OutcomeInv, SlotInv, TypeOK, EndInv
<1>1. UNCHANGED landed  BY <1>0, PrepareFrame DEF netVars
<1>2. OnlyOffer(o)  BY <1>0, <1>1, PrepareFrame DEF OnlyOffer, SavedKept, Saved, Phase
<1>3. /\ prep[o] \in {"armed", "finishing"} => armed[o]
      /\ armed[o] => prep[o] \in {"armed", "finishing", "over"}
      /\ fin[o] # "no" => armed[o]
      /\ prep[o] # "over" => answer[o] = 0
      /\ prep[o] \in Early => disk[o] = "none"
      BY <1>0 DEF ArmedFirst, DiskInv, ReportInv
<1>4. SUFFICES Moves(o)  BY <1>2, LifeStep
<1>5. ASSUME UNCHANGED disk  PROVE SavedKept(o)  BY <1>1, <1>5 DEF SavedKept, Saved
<1>6. CASE Register(o)
  <2>1. prep[o] = "new" /\ UNCHANGED disk  BY <1>6 DEF Register, dataVars, fileVars
  <2>2. Phase(o) = "new"  BY <2>1 DEF Phase
  <2>3. CASE prep'[o] = "registered" /\ incoming = None
    <3>1. Phase(o)' = "offered"  BY <2>3 DEF Phase
    <3>2. \A p \in Offers : ~Holding(p)  BY <1>0, <2>3, ReceiverConstants DEF SlotOwner
    <3>3. \A p \in Offers : Phase(p) \notin {"offered", "receiving"}  BY <3>2, PhaseHolds
    <3> QED BY <1>5, <2>1, <2>2, <3>1, <3>3 DEF Moves
  <2>4. CASE prep'[o] = "over" /\ answer'[o] \in {400, 409}
    <3>1. Phase(o)' = "refused"  BY <2>4 DEF Phase, Ends
    <3> QED BY <1>5, <2>1, <2>2, <3>1 DEF Moves
  <2> QED BY <1>0, <1>6, <2>3, <2>4 DEF Register, Goto, SlotTypes
<1>7. CASE Announce(o) \/ TakeAccept(o) \/ TakeDecline(o) \/ AcceptTimeout(o) \/ AppClosing(o)
  <2>1. /\ prep[o] \in {"registered", "waiting"}
        /\ prep'[o] \in {"waiting", "accepted", "declined", "expired", "closing"}
        /\ UNCHANGED <<answer, fin, disk>>
        BY <1>0, <1>7 DEF Announce, TakeAccept, TakeDecline, AcceptTimeout, AppClosing,
           Ending, Goto, SlotTypes, finVars, dataVars, fileVars
  <2>2. Phase(o) = "offered"  BY <2>1 DEF Phase
  <2>3. answer'[o] = 0 /\ fin'[o] = "no"  BY <1>3, <2>1
  <2>4. prep'[o] = "waiting" => Phase(o)' = "offered"  BY DEF Phase
  <2>5. prep'[o] = "accepted" => Phase(o)' = "receiving"  BY <2>3 DEF Phase, Ends
  <2>6. ASSUME prep'[o] \in {"declined", "expired", "closing"}
        PROVE  Phase(o)' \in {"declined", "failed", "canceled"}
    <3>1. Phase(o)' = EndState[prep'[o]]  BY <2>6 DEF Phase, Ends
    <3> QED BY <2>6, <3>1 DEF EndState
  <2> QED BY <1>5, <2>1, <2>2, <2>4, <2>5, <2>6 DEF Moves
<1>8. CASE PrepareDestFiles(o)
  <2>1. /\ prep[o] = "accepted" /\ UNCHANGED <<answer, fin>>
        /\ \/ prep'[o] = "prepared" /\ disk'[o] = "made"
           \/ prep'[o] = "diskError" /\ disk'[o] = "partial"
        BY <1>0, <1>8 DEF PrepareDestFiles, Goto, SlotTypes, DataTypes, finVars
  <2>2. answer[o] = 0 /\ fin[o] = "no" /\ disk[o] = "none"  BY <1>3, <2>1 DEF Early
  <2>3. Phase(o) = "receiving" /\ ~Saved(o)  BY <2>1, <2>2 DEF Phase, Ends, Saved
  <2>4. CASE prep'[o] = "prepared"
    <3>1. Phase(o)' = "receiving"  BY <2>1, <2>2, <2>4 DEF Phase, Ends
    <3> QED BY <2>3, <3>1 DEF Moves, SavedKept
  <2>5. CASE prep'[o] = "diskError" /\ disk'[o] = "partial"
    <3>1. Phase(o)' = "failed"  BY <2>5 DEF Phase, Ends, EndState
    <3>2. ~Saved(o)'  BY <2>5 DEF Saved
    <3> QED BY <2>3, <3>1, <3>2 DEF Moves, SavedKept
  <2> QED BY <2>1, <2>4, <2>5
<1>9. CASE ReportEnd(o)
  <2>1. prep[o] \in Ends /\ prep'[o] = "over" /\ answer'[o] = EndStatus[prep[o]] /\ UNCHANGED disk
        BY <1>0, <1>9 DEF ReportEnd, Goto, SlotTypes, dataVars, fileVars
  <2>2. Phase(o) = EndState[prep[o]]  BY <2>1 DEF Phase, Ends
  <2>3. Phase(o)' = EndState[prep[o]]  BY <2>1 DEF Phase, Ends, EndState, EndStatus
  <2> QED BY <1>5, <2>1, <2>2, <2>3 DEF Moves
<1>10. CASE Arm(o) \/ StartReceiving(o) \/ AnswerEmpty(o)
  <2>1. /\ prep[o] \in {"prepared", "armed", "finishing"}
        /\ prep'[o] \in {"armed", "finishing", "over"}
        /\ answer'[o] \in {answer[o], 200} /\ UNCHANGED disk
        BY <1>0, <1>10 DEF Arm, StartReceiving, AnswerEmpty, Goto, SlotTypes, dataVars,
           fileVars
  <2>2. Served(o) /\ Served(o)'  BY <1>3, <2>1 DEF Served
  <2>3. \/ fin'[o] = fin[o] /\ verdict'[o] = verdict[o]
        \/ fin[o] = "no" /\ fin'[o] = "closing"
        BY <1>0, <1>10 DEF Arm, StartReceiving, AnswerEmpty, Finalize, finVars, FinTypes
  <2>4. Phase(o)' = Phase(o)  BY <2>2, <2>3, PhaseServed DEF ServedPhase
  <2> QED BY <1>5, <2>1, <2>4 DEF Moves
<1> QED BY <1>6, <1>7, <1>8, <1>9, <1>10 DEF PrepareUpload, PrepareSteps

\* The receiver implements OfferLife: whatever the goroutines, the user and the timers do,
\* an offer is taken up only while no other one is, ends once, and is completed only with
\* every byte saved.
THEOREM ReceiverRefinesOfferLife == Spec => LifeSpec
<1>1. Init => Life!Init
  <2> SUFFICES ASSUME Init PROVE Life!Init  OBVIOUS
  <2>1. \A o \in Offers : Phase(o) = "new" /\ ~Saved(o)  BY DEF Init, Phase, Saved
  <2> QED BY <2>1 DEF Life!Init, Saved
<1>2. OutcomeInv /\ [Next]_vars => [Life!Next]_(Life!vars)
  <2> SUFFICES ASSUME OutcomeInv, [Next]_vars  PROVE [Life!Next]_(Life!vars)  OBVIOUS
  <2>1. CASE UNCHANGED vars
    <3>1. UNCHANGED <<prep, answer, fin, verdict, disk, landed>>
          BY <2>1 DEF vars, slotVars, finVars, dataVars, fileVars, netVars
    <3>2. PhaseFcn' = PhaseFcn  BY <3>1 DEF PhaseFcn, Phase
    <3>3. SavedFcn' = SavedFcn  BY <3>1 DEF SavedFcn, Saved
    <3> QED BY <3>2, <3>3, LifeVars
  <2>2. CASE Next
        BY <2>2, NextSplit, PrepareLife, FinalizeLife, StreamLife, UserLife
  <2> QED BY <2>1, <2>2
<1> QED BY <1>1, <1>2, OutcomeInvariant, PTL DEF Spec, LifeSpec, Life!Spec
=============================================================================
