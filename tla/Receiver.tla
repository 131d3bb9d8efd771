------------------------------ MODULE Receiver ------------------------------
(***************************************************************************)
(* The receiving half of the transfer manager: core/transfer/transfer.go    *)
(* (PrepareUpload to clearIncoming) and http_recv.go.                       *)
(*                                                                          *)
(* One PrepareUpload call per offer blocks on the user's decision; the      *)
(* offer then owns the single slot m.incoming.  Goroutines that share the   *)
(* session without a common lock:                                           *)
(*   - the PrepareUpload call itself,                                       *)
(*   - one handler per data stream (native) or per multipart POST (web),    *)
(*   - the watchdog,                                                        *)
(*   - UI calls RespondIncoming and CancelIncoming, and the app's shutdown, *)
(*   - whichever of them wins the sync.Once of finalizeRecv.                *)
(* Each step below is what one of them does between two points at which     *)
(* another may run.                                                         *)
(*                                                                          *)
(* Data is abstracted to units <<file, index>>.  A sender frames each unit  *)
(* at most once (sendWorker takes every chunk from its queue once), in any  *)
(* order, on any stream, and may break off anywhere.                        *)
(***************************************************************************)
EXTENDS Integers, FiniteSets, Sequences

CONSTANTS
    Offers,      \* prepare-upload requests
    Web,         \* the ones sent by a browser
    Files,       \* file indices
    Size,        \* Size[o]: a function, the claimed size of each file of o
    MaxFiles, MaxFileSize, MaxTotal,   \* protocol.MaxTransfer...
    Handlers,    \* handleDataConn and HandleHTTPUpload goroutines
    Callers,     \* the calls the UI makes, each once
    AppQuit,     \* the call made by Engine.shutdown
    None         \* Go's nil

ASSUME ReceiverConstants ==
    /\ Web \subseteq Offers
    /\ IsFiniteSet(Files) /\ IsFiniteSet(Handlers)
    /\ \A o \in Offers : /\ DOMAIN Size[o] \subseteq Files
                         /\ \A f \in DOMAIN Size[o] : Size[o][f] \in Int
    /\ None \notin Offers
    /\ AppQuit \in Callers

FilesOf(o) == DOMAIN Size[o]
Units(o)   == UNION {{f} \X (1..Size[o][f]) : f \in FilesOf(o)}
Total(o)   == Cardinality(Units(o))

\* ValidateOfferFiles
ValidOffer(o) ==
    /\ FilesOf(o) # {} /\ Cardinality(FilesOf(o)) <= MaxFiles
    /\ \A f \in FilesOf(o) : Size[o][f] \in 0..MaxFileSize
    /\ Total(o) <= MaxTotal

VARIABLES
    incoming,    \* m.incoming
    prep,        \* prep[o]: where the PrepareUpload call of o stands
    answer,      \* answer[o]: the HTTP status it returned (0: not yet)
    decision,    \* decision[o]: the one-place channel sess.decision; the answer
                 \* carries the offer its giver saw, which the code does not
    armed,       \* armed[o]: sess.token is set
    canceled,    \* canceled[o]: sess.cancel
    fin,         \* fin[o]: the stage of finalizeRecv; done is closed once # "no"
    verdict,     \* verdict[o]: what finalizeRecv will report
    reported,    \* reported[o]: the terminal states emitted for o
    disk,        \* disk[o]: the destination files
    handle,      \* handle[o][f]: sess.handles
    unframed,    \* unframed[o]: units the sender has not put on a stream
    landed,      \* landed[o]: units written to their file
    received,    \* received[o]: sess.received
    handler,     \* handler[h]: a data goroutine
    upload,      \* upload[o]: the status of the browser's POST (0: none yet)
    call,        \* call[k]: a UI call in flight
    dialog,      \* the offer the UI shows (App.svelte: incoming)
    banner,      \* the state it shows for it (App.svelte: recvState)
    appDone      \* the engine's run context is canceled

slotVars == <<incoming, prep, answer, decision, armed>>
finVars  == <<canceled, fin, verdict, reported>>
fileVars == <<disk, handle>>
netVars  == <<unframed, landed, received>>
dataVars == <<fileVars, netVars, handler, upload>>
uiVars   == <<dialog, banner>>
callVars == <<call, appDone>>
userVars == <<uiVars, callVars>>
vars     == <<slotVars, finVars, dataVars, userVars>>

-----------------------------------------------------------------------------
Ends == {"declined", "expired", "closing", "diskError"}

\* What PrepareUpload reports and returns for each of its early ends.
EndState  == [declined |-> "declined", expired |-> "failed",
              closing |-> "canceled", diskError |-> "failed"]
EndStatus == [declined |-> 403, expired |-> 408,
              closing |-> 503, diskError |-> 500]

Idle     == [at |-> "idle", of |-> None, todo |-> {}, left |-> {}]
IdleCall == [at |-> "idle", op |-> "none", of |-> None, for |-> None]
Empty    == [says |-> "nothing", for |-> None]
NoBanner == [of |-> None, state |-> "none"]

Init ==
    /\ incoming = None
    /\ prep     = [o \in Offers |-> "new"]
    /\ answer   = [o \in Offers |-> 0]
    /\ decision = [o \in Offers |-> Empty]
    /\ armed    = [o \in Offers |-> FALSE]
    /\ canceled = [o \in Offers |-> FALSE]
    /\ fin      = [o \in Offers |-> "no"]
    /\ verdict  = [o \in Offers |-> "none"]
    /\ reported = [o \in Offers |-> <<>>]
    /\ disk     = [o \in Offers |-> "none"]
    /\ handle   = [o \in Offers |-> [f \in Files |-> "nil"]]
    /\ unframed = [o \in Offers |-> Units(o)]
    /\ landed   = [o \in Offers |-> {}]
    /\ received = [o \in Offers |-> 0]
    /\ handler  = [h \in Handlers |-> Idle]
    /\ upload   = [o \in Offers |-> 0]
    /\ call     = [k \in Callers |-> IdleCall]
    /\ dialog = None /\ banner = NoBanner
    /\ appDone = FALSE

Goto(o, pc) == prep' = [prep EXCEPT ![o] = pc]

\* clearIncoming: free the slot only if o still holds it.
ClearIncoming(o) == incoming' = IF incoming = o THEN None ELSE incoming

\* emitState reaches the UI, which remembers only the last state it was sent.
Emit(o, state) == banner' = [of |-> o, state |-> state]

\* The sync.Once of finalizeRecv: the first caller decides.
Finalize(o, success) ==
    IF fin[o] = "no"
    THEN /\ fin' = [fin EXCEPT ![o] = "closing"]
         /\ verdict' = [verdict EXCEPT ![o] = IF success THEN "completed"
                                                         ELSE "failed"]
    ELSE UNCHANGED <<fin, verdict>>

-----------------------------------------------------------------------------
(* PrepareUpload                                                           *)

\* Mutant of Register: without the busy check.
RegisterBusy(o) ==
    /\ prep[o] = "new" /\ ~appDone /\ ValidOffer(o)
    /\ incoming' = o
    /\ Goto(o, "registered")
    /\ UNCHANGED <<answer, decision, armed, finVars, dataVars, userVars>>

\* Validation, the busy check and the registration, under m.mu.
Register(o) ==
    /\ prep[o] = "new"
    /\ ~appDone
    /\ IF ValidOffer(o) /\ incoming = None
       THEN /\ incoming' = o
            /\ Goto(o, "registered")
            /\ UNCHANGED answer
       ELSE /\ Goto(o, "over")
            /\ answer' = [answer EXCEPT ![o] = IF ValidOffer(o) THEN 409 ELSE 400]
            /\ UNCHANGED incoming
    /\ UNCHANGED <<decision, armed, finVars, dataVars, userVars>>

\* emitOffer and the "waiting" state.
Announce(o) ==
    /\ prep[o] = "registered"
    /\ Goto(o, "waiting")
    /\ dialog' = o
    /\ Emit(o, "waiting")
    /\ UNCHANGED <<incoming, answer, decision, armed, finVars, dataVars, callVars>>

TakeAccept(o) ==
    /\ prep[o] = "waiting" /\ decision[o].says = "accept"
    /\ decision' = [decision EXCEPT ![o] = Empty]
    /\ Goto(o, "accepted")
    /\ UNCHANGED <<incoming, answer, armed, finVars, dataVars, userVars>>

\* Mutant of Ending: an early return that forgets clearIncoming.
EndingHoldsSlot(o, reason) ==
    /\ prep[o] = "waiting"
    /\ Goto(o, reason)
    /\ UNCHANGED <<incoming, answer, armed, finVars, dataVars, userVars>>

\* The select's other outcomes; several may be ready, Go then picks any.
Ending(o, reason) ==
    /\ prep[o] = "waiting"
    /\ Goto(o, reason)
    /\ ClearIncoming(o)
    /\ UNCHANGED <<answer, armed, finVars, dataVars, userVars>>

TakeDecline(o) == /\ decision[o].says = "decline"
                  /\ decision' = [decision EXCEPT ![o] = Empty]
                  /\ Ending(o, "declined")
AcceptTimeout(o) == Ending(o, "expired") /\ UNCHANGED decision
AppClosing(o)    == appDone /\ Ending(o, "closing") /\ UNCHANGED decision

\* prepareDestFiles; an error leaves the files made so far behind.
PrepareDestFiles(o) ==
    /\ prep[o] = "accepted"
    /\ \/ /\ disk' = [disk EXCEPT ![o] = "made"]
          /\ Goto(o, "prepared")
          /\ UNCHANGED incoming
       \/ /\ disk' = [disk EXCEPT ![o] = "partial"]
          /\ Goto(o, "diskError")
          /\ ClearIncoming(o)
    /\ UNCHANGED <<answer, decision, armed, finVars, handle, netVars, handler,
                   upload, userVars>>

\* The early ends emit their state and return after the slot is free again.
ReportEnd(o) ==
    /\ prep[o] \in Ends
    /\ reported' = [reported EXCEPT ![o] = Append(@, EndState[prep[o]])]
    /\ Emit(o, EndState[prep[o]])
    /\ answer' = [answer EXCEPT ![o] = EndStatus[prep[o]]]
    /\ Goto(o, "over")
    /\ UNCHANGED <<incoming, decision, armed, canceled, fin, verdict, dataVars,
                   dialog, callVars>>

Arm(o) ==
    /\ prep[o] = "prepared"
    /\ armed' = [armed EXCEPT ![o] = TRUE]
    /\ Goto(o, "armed")
    /\ UNCHANGED <<incoming, answer, decision, finVars, dataVars, userVars>>

\* "transferring", the watchdog's start, and for an offer of empty files the
\* finalizeRecv that completes it at once.
StartReceiving(o) ==
    /\ prep[o] = "armed"
    /\ Emit(o, "transferring")
    /\ IF Total(o) = 0
       THEN Finalize(o, TRUE) /\ Goto(o, "finishing") /\ UNCHANGED answer
       ELSE /\ Goto(o, "over")
            /\ answer' = [answer EXCEPT ![o] = 200]
            /\ UNCHANGED <<fin, verdict>>
    /\ UNCHANGED <<incoming, decision, armed, canceled, reported, dataVars, dialog,
                   callVars>>

AnswerEmpty(o) ==
    /\ prep[o] = "finishing" /\ fin[o] = "done"
    /\ Goto(o, "over")
    /\ answer' = [answer EXCEPT ![o] = 200]
    /\ UNCHANGED <<incoming, decision, armed, finVars, dataVars, userVars>>

-----------------------------------------------------------------------------
(* Data goroutines                                                         *)

StepTo(h, pc) == handler' = [handler EXCEPT ![h].at = pc]
Leave(h) == handler' = [handler EXCEPT ![h] = [Idle EXCEPT !.at = "end",
                                                          !.of = handler[h].of]]

\* A goroutine that gives up on its session: setErr, finalizeRecv(false).
GiveUp(h) == Leave(h) /\ Finalize(handler[h].of, FALSE)

\* openDestHandle without O_CREATE: fails once the file is removed, and hands
\* out the entry of sess.handles whatever finalizeRecv did to it.
CanOpen(o, f) == handle[o][f] # "nil" \/ disk[o] = "made"
OpenDestHandle(o, f) ==
    handle' = [handle EXCEPT ![o][f] = IF @ = "nil" THEN "open" ELSE @]

\* A sender that got its 200 opens a stream with the token.
DataOpen(h, o) ==
    /\ handler[h].at = "idle" /\ o \notin Web /\ answer[o] = 200 /\ ~appDone
    /\ handler' = [handler EXCEPT ![h] =
          IF incoming = o /\ armed[o]
          THEN [Idle EXCEPT !.at = "check", !.of = o]
          ELSE [Idle EXCEPT !.at = "end"]]
    /\ UNCHANGED <<slotVars, finVars, fileVars, netVars, upload, userVars>>

\* Mutant of DataCheck: without the look at the done channel.
DataCheckCancelOnly(h) ==
    /\ handler[h].at = "check"
    /\ IF canceled[handler[h].of] THEN Leave(h) ELSE StepTo(h, "header")
    /\ UNCHANGED <<slotVars, finVars, fileVars, netVars, upload, userVars>>

\* The top of the loop; then the goroutine blocks in the read of a header.
DataCheck(h) ==
    LET o == handler[h].of IN
    /\ handler[h].at = "check"
    /\ IF fin[o] # "no" \/ canceled[o] THEN Leave(h) ELSE StepTo(h, "header")
    /\ UNCHANGED <<slotVars, finVars, fileVars, netVars, upload, userVars>>

\* A valid header announces a range of one file.
DataFrame(h) ==
    LET o == handler[h].of IN
    /\ handler[h].at = "header"
    /\ \E f \in FilesOf(o), s \in (SUBSET unframed[o]) \ {{}} :
          /\ s \subseteq {f} \X (1..Size[o][f])
          /\ unframed' = [unframed EXCEPT ![o] = @ \ s]
          /\ IF CanOpen(o, f)
             THEN /\ OpenDestHandle(o, f)
                  /\ handler' = [handler EXCEPT ![h].at = "body", ![h].todo = s]
                  /\ UNCHANGED <<fin, verdict>>
             ELSE GiveUp(h) /\ UNCHANGED handle
    /\ UNCHANGED <<slotVars, canceled, reported, disk, landed, received, upload,
                   userVars>>

\* A header out of range or of an unknown file.
DataBadFrame(h) ==
    /\ handler[h].at = "header"
    /\ GiveUp(h)
    /\ UNCHANGED <<slotVars, canceled, reported, fileVars, netVars, upload,
                   userVars>>

\* The stream ends or breaks; what it had announced is lost.
DataEOF(h) ==
    /\ handler[h].at \in {"header", "body"}
    /\ Leave(h)
    /\ UNCHANGED <<slotVars, finVars, fileVars, netVars, upload, userVars>>

\* WriteAt; it fails on a closed handle, and may fail on a full disk.
DataWrite(h) ==
    LET o == handler[h].of IN
    /\ handler[h].at = "body"
    /\ \/ \E u \in handler[h].todo :
             /\ handle[o][u[1]] = "open"
             /\ landed' = [landed EXCEPT ![o] = @ \cup {u}]
             /\ handler' = [handler EXCEPT ![h].at = "count", ![h].todo = @ \ {u}]
             /\ UNCHANGED <<fin, verdict>>
       \/ GiveUp(h) /\ UNCHANGED landed
    /\ UNCHANGED <<slotVars, canceled, reported, fileVars, unframed, received,
                   upload, userVars>>

\* Mutant of DataCount: completes one unit early.
DataCountEarly(h) ==
    LET o == handler[h].of IN
    /\ handler[h].at = "count"
    /\ received' = [received EXCEPT ![o] = @ + 1]
    /\ IF received[o] + 2 >= Total(o)
       THEN Leave(h) /\ Finalize(o, TRUE)
       ELSE /\ StepTo(h, IF handler[h].todo = {} THEN "check" ELSE "body")
            /\ UNCHANGED <<fin, verdict>>
    /\ UNCHANGED <<slotVars, canceled, reported, fileVars, unframed, landed,
                   upload, userVars>>

\* AddInt64 and the comparison: whoever counts the last unit completes.
DataCount(h) ==
    LET o == handler[h].of IN
    /\ handler[h].at = "count"
    /\ received' = [received EXCEPT ![o] = @ + 1]
    /\ IF received[o] + 1 >= Total(o)
       THEN Leave(h) /\ Finalize(o, TRUE)
       ELSE /\ StepTo(h, IF handler[h].todo = {} THEN "check" ELSE "body")
            /\ UNCHANGED <<fin, verdict>>
    /\ UNCHANGED <<slotVars, canceled, reported, fileVars, unframed, landed,
                   upload, userVars>>

DataStream(h) == \/ \E o \in Offers : DataOpen(h, o)
                 \/ DataCheck(h) \/ DataFrame(h) \/ DataBadFrame(h)
                 \/ DataEOF(h) \/ DataWrite(h) \/ DataCount(h)

-----------------------------------------------------------------------------
(* HandleHTTPUpload: one multipart POST, one part per file                 *)

Respond(h, status) == upload' = [upload EXCEPT ![handler[h].of] = status]

UploadOpen(h, o) ==
    /\ handler[h].at = "idle" /\ o \in Web /\ answer[o] = 200 /\ ~appDone
    /\ upload[o] = 0 /\ \A g \in Handlers : handler[g].of # o
    /\ IF incoming # o \/ canceled[o]
       THEN /\ handler' = [handler EXCEPT ![h].at = "end"]
            /\ upload' = [upload EXCEPT ![o] = IF incoming # o THEN 404 ELSE 409]
       ELSE /\ handler' = [handler EXCEPT ![h] =
                 [at |-> "part", of |-> o, todo |-> {}, left |-> FilesOf(o)]]
            /\ UNCHANGED upload
    /\ UNCHANGED <<slotVars, finVars, fileVars, netVars, userVars>>

\* NextPart delivers the next file.
UploadPart(h) ==
    LET o == handler[h].of IN
    /\ handler[h].at = "part"
    /\ \/ /\ canceled[o]
          /\ Leave(h) /\ Respond(h, 409)
          /\ UNCHANGED <<fin, verdict, handle>>
       \/ \E f \in handler[h].left :
          /\ ~canceled[o]
          /\ IF CanOpen(o, f)
             THEN /\ OpenDestHandle(o, f)
                  /\ handler' = [handler EXCEPT
                        ![h].at = "copy", ![h].left = @ \ {f},
                        ![h].todo = {f} \X (1..Size[o][f])]
                  /\ UNCHANGED <<fin, verdict, upload>>
             ELSE GiveUp(h) /\ Respond(h, 500) /\ UNCHANGED handle
    /\ UNCHANGED <<slotVars, canceled, reported, disk, netVars, userVars>>

\* copyLimited writes and counts; a closed handle or a full disk fails it.
UploadCopy(h) ==
    LET o == handler[h].of IN
    /\ handler[h].at = "copy" /\ handler[h].todo # {}
    /\ \/ \E u \in handler[h].todo :
             /\ handle[o][u[1]] = "open"
             /\ landed' = [landed EXCEPT ![o] = @ \cup {u}]
             /\ unframed' = [unframed EXCEPT ![o] = @ \ {u}]
             /\ received' = [received EXCEPT ![o] = @ + 1]
             /\ handler' = [handler EXCEPT ![h].todo = @ \ {u}]
             /\ UNCHANGED <<fin, verdict, upload>>
       \/ /\ GiveUp(h) /\ Respond(h, 500)
          /\ UNCHANGED <<netVars>>
    /\ UNCHANGED <<slotVars, canceled, reported, fileVars, userVars>>

UploadPartDone(h) ==
    /\ handler[h].at = "copy" /\ handler[h].todo = {}
    /\ StepTo(h, "part")
    /\ UNCHANGED <<slotVars, finVars, fileVars, netVars, upload, userVars>>

\* The body breaks off, a part is short, or there are too many or too few.
UploadBroken(h) ==
    /\ handler[h].at \in {"part", "copy"}
    /\ GiveUp(h) /\ Respond(h, 400)
    /\ UNCHANGED <<slotVars, canceled, reported, fileVars, netVars, userVars>>

\* Mutant of UploadEnd: without the count of the parts.
UploadEndAnywhere(h) ==
    /\ handler[h].at = "part"
    /\ Finalize(handler[h].of, TRUE)
    /\ StepTo(h, "finishing")
    /\ UNCHANGED <<slotVars, canceled, reported, fileVars, netVars, upload,
                   userVars>>

\* The end of the body after the last part: finalizeRecv(true) ...
UploadEnd(h) ==
    /\ handler[h].at = "part" /\ handler[h].left = {}
    /\ Finalize(handler[h].of, TRUE)
    /\ StepTo(h, "finishing")
    /\ UNCHANGED <<slotVars, canceled, reported, fileVars, netVars, upload,
                   userVars>>

\* ... and 200 once it returns, whoever ran it.
UploadOK(h) ==
    /\ handler[h].at = "finishing" /\ fin[handler[h].of] = "done"
    /\ Leave(h) /\ Respond(h, 200)
    /\ UNCHANGED <<slotVars, finVars, fileVars, netVars, userVars>>

WebUpload(h) == \/ \E o \in Offers : UploadOpen(h, o)
                \/ UploadPart(h) \/ UploadCopy(h) \/ UploadPartDone(h)
                \/ UploadBroken(h) \/ UploadEnd(h) \/ UploadOK(h)

-----------------------------------------------------------------------------
(* finalizeRecv and the watchdog                                           *)

\* Mutant of Watchdog: waits for a first byte before it counts idle time.
WatchdogAfterData(o) ==
    /\ armed[o] /\ prep[o] \in {"finishing", "over"} /\ received[o] > 0
    /\ fin[o] = "no" /\ Finalize(o, FALSE)
    /\ UNCHANGED <<slotVars, canceled, reported, dataVars, userVars>>

\* idleTimeout without a byte, at a tick.
Watchdog(o) ==
    /\ armed[o] /\ prep[o] \in {"finishing", "over"}
    /\ fin[o] = "no" /\ Finalize(o, FALSE)
    /\ UNCHANGED <<slotVars, canceled, reported, dataVars, userVars>>

CloseHandles(o) ==
    handle' = [handle EXCEPT ![o] = [f \in Files |->
                  IF handle[o][f] = "open" THEN "closed" ELSE handle[o][f]]]

\* Mutant of FinClose: success wins over the cancel flag.
FinCloseSuccessWins(o) ==
    /\ fin[o] = "closing"
    /\ fin' = [fin EXCEPT ![o] = "clearing"]
    /\ verdict' = [verdict EXCEPT ![o] =
                      IF canceled[o] /\ @ = "failed" THEN "canceled" ELSE @]
    /\ CloseHandles(o)
    /\ UNCHANGED <<slotVars, canceled, reported, disk, netVars, handler, upload,
                   userVars>>

\* The cancel flag is read once; the handles are closed without handlesMu, so
\* an entry still nil here can be opened afterwards.
FinClose(o) ==
    /\ fin[o] = "closing"
    /\ fin' = [fin EXCEPT ![o] = "clearing"]
    /\ verdict' = [verdict EXCEPT ![o] = IF canceled[o] THEN "canceled" ELSE @]
    /\ CloseHandles(o)
    /\ UNCHANGED <<slotVars, canceled, reported, disk, netVars, handler, upload,
                   userVars>>

\* Mutant of FinClear: leaves the files of a canceled transfer.
FinClearKeepsFiles(o) ==
    /\ fin[o] = "clearing"
    /\ fin' = [fin EXCEPT ![o] = "reporting"]
    /\ ClearIncoming(o)
    /\ UNCHANGED <<prep, answer, decision, armed, canceled, verdict, reported,
                   dataVars, userVars>>

FinClear(o) ==
    /\ fin[o] = "clearing"
    /\ fin' = [fin EXCEPT ![o] = "reporting"]
    /\ disk' = [disk EXCEPT ![o] = IF verdict[o] = "canceled" THEN "removed" ELSE @]
    /\ ClearIncoming(o)
    /\ UNCHANGED <<prep, answer, decision, armed, canceled, verdict, reported,
                   handle, netVars, handler, upload, userVars>>

FinReport(o) ==
    /\ fin[o] = "reporting"
    /\ fin' = [fin EXCEPT ![o] = "done"]
    /\ reported' = [reported EXCEPT ![o] = Append(@, verdict[o])]
    /\ Emit(o, verdict[o])
    /\ UNCHANGED <<slotVars, canceled, verdict, dataVars, dialog, callVars>>

-----------------------------------------------------------------------------
(* The user and the app's shutdown                                         *)

\* The dialog offers Accept and Decline unless it shows a later state.
Answerable == banner.state \in {"none", "waiting"}

\* Accept or Decline is clicked: RespondIncoming carries no offer.
Click(k, op) ==
    /\ call[k].at = "idle" /\ k # AppQuit
    /\ dialog # None /\ Answerable
    /\ call' = [call EXCEPT ![k] =
          [at |-> "called", op |-> op, of |-> None, for |-> dialog]]
    /\ IF op = "decline" THEN dialog' = None /\ banner' = NoBanner
                         ELSE UNCHANGED uiVars
    /\ UNCHANGED <<slotVars, finVars, dataVars, appDone>>

\* Cancel, which the dialog shows while data is coming in.
ClickCancel(k) ==
    /\ call[k].at = "idle" /\ k # AppQuit
    /\ dialog # None /\ banner.state = "transferring"
    /\ call' = [call EXCEPT ![k] =
          [at |-> "called", op |-> "cancel", of |-> None, for |-> dialog]]
    /\ UNCHANGED <<slotVars, finVars, dataVars, uiVars, appDone>>

\* Close or Escape.
Dismiss ==
    /\ dialog # None /\ banner.state # "transferring"
    /\ dialog' = None /\ banner' = NoBanner
    /\ UNCHANGED <<slotVars, finVars, dataVars, callVars>>

\* Engine.shutdown calls Manager.Shutdown, then cancels the run context.
Shutdown ==
    /\ call[AppQuit].at = "idle"
    /\ call' = [call EXCEPT ![AppQuit] =
          [at |-> "called", op |-> "cancel", of |-> None, for |-> None]]
    /\ UNCHANGED <<slotVars, finVars, dataVars, uiVars, appDone>>

RunCancel ==
    /\ call[AppQuit].at = "over" /\ ~appDone
    /\ appDone' = TRUE
    /\ UNCHANGED <<slotVars, finVars, dataVars, uiVars, call>>

\* Mutant of CallLooksUp: without the nil check.
CallLooksUpUnchecked(k) ==
    /\ call[k].at = "called"
    /\ call' = [call EXCEPT ![k].of = incoming, ![k].at = "found"]
    /\ UNCHANGED <<slotVars, finVars, dataVars, uiVars, appDone>>

\* The call reads m.incoming under m.mu and goes on with what it found.
CallLooksUp(k) ==
    /\ call[k].at = "called"
    /\ call' = [call EXCEPT ![k].of = incoming,
                            ![k].at = IF incoming = None THEN "over" ELSE "found"]
    /\ UNCHANGED <<slotVars, finVars, dataVars, uiVars, appDone>>

Hangup(k) == call' = [call EXCEPT ![k].at = "over", ![k].for = None]

\* A non-blocking send: dropped when the channel is full.
SendDecision(k, d) ==
    decision' = [decision EXCEPT ![call[k].of] =
                    IF @ = Empty THEN [says |-> d, for |-> call[k].for] ELSE @]

RespondIncoming(k) ==
    /\ call[k].at = "found" /\ call[k].op \in {"accept", "decline"}
    /\ SendDecision(k, call[k].op)
    /\ Hangup(k)
    /\ UNCHANGED <<incoming, prep, answer, armed, finVars, dataVars, uiVars,
                   appDone>>

\* Mutant of CancelIncoming: finalizes an offer still waiting for its answer.
CancelUnarmed(k) ==
    /\ call[k].at = "found" /\ call[k].op = "cancel"
    /\ canceled' = [canceled EXCEPT ![call[k].of] = TRUE]
    /\ call' = [call EXCEPT ![k].at = "flagged"]
    /\ UNCHANGED <<slotVars, fin, verdict, reported, dataVars, uiVars, appDone>>

CancelIncoming(k) ==
    LET o == call[k].of IN
    /\ call[k].at = "found" /\ call[k].op = "cancel"
    /\ IF armed[o]
       THEN /\ canceled' = [canceled EXCEPT ![o] = TRUE]
            /\ call' = [call EXCEPT ![k].at = "flagged"]
            /\ UNCHANGED decision
       ELSE SendDecision(k, "decline") /\ Hangup(k) /\ UNCHANGED canceled
    /\ UNCHANGED <<incoming, prep, answer, armed, fin, verdict, reported, dataVars,
                   uiVars, appDone>>

CancelFinalizes(k) ==
    /\ call[k].at = "flagged"
    /\ Finalize(call[k].of, FALSE)
    /\ Hangup(k)
    /\ UNCHANGED <<slotVars, canceled, reported, dataVars, uiVars, appDone>>

-----------------------------------------------------------------------------
PrepareSteps(o) ==
    \/ Announce(o) \/ TakeAccept(o) \/ TakeDecline(o)
    \/ AcceptTimeout(o) \/ AppClosing(o) \/ PrepareDestFiles(o) \/ ReportEnd(o)
    \/ Arm(o) \/ StartReceiving(o) \/ AnswerEmpty(o)

PrepareUpload(o) == Register(o) \/ PrepareSteps(o)

FinalizeRecv(o) == FinClose(o) \/ FinClear(o) \/ FinReport(o)

Call(k) == CallLooksUp(k) \/ RespondIncoming(k) \/ CancelIncoming(k)
           \/ CancelFinalizes(k)

Next ==
    \/ \E o \in Offers : PrepareUpload(o) \/ Watchdog(o) \/ FinalizeRecv(o)
    \/ \E h \in Handlers : DataStream(h) \/ WebUpload(h)
    \/ \E k \in Callers : \/ \E op \in {"accept", "decline"} : Click(k, op)
                          \/ ClickCancel(k) \/ Call(k)
    \/ Dismiss \/ Shutdown \/ RunCancel

Spec == Init /\ [][Next]_vars

\* Goroutines run on, the two timers fire; users, senders and browsers may not.
Fairness == \A o \in Offers : /\ WF_vars(PrepareSteps(o))
                              /\ WF_vars(Watchdog(o))
                              /\ WF_vars(FinalizeRecv(o))
FairSpec == Spec /\ Fairness

-----------------------------------------------------------------------------
(* Properties                                                              *)

PrepareStates == {"new", "registered", "waiting", "accepted", "prepared",
                  "armed", "finishing", "over"} \cup Ends
HandlerStates == {"idle", "check", "header", "body", "count",
                  "part", "copy", "finishing", "end"}
Outcomes      == {"completed", "failed", "canceled", "declined"}
AllUnits      == UNION {Units(o) : o \in Offers}
PrepareCodes  == {0, 200, 400, 403, 408, 409, 500, 503}
UploadCodes   == {0, 200, 400, 404, 409, 500}
Decisions     == [says : {"nothing", "accept", "decline"}, for : Offers \cup {None}]

SlotTypes ==
    /\ incoming \in Offers \cup {None}
    /\ prep \in [Offers -> PrepareStates]
    /\ answer \in [Offers -> PrepareCodes]
    /\ decision \in [Offers -> Decisions]
    /\ armed \in [Offers -> BOOLEAN]

FinTypes ==
    /\ canceled \in [Offers -> BOOLEAN]
    /\ fin \in [Offers -> {"no", "closing", "clearing", "reporting", "done"}]
    /\ verdict \in [Offers -> Outcomes \cup {"none"}]
    /\ reported \in [Offers -> Seq(Outcomes)]
    /\ \A o \in Offers : fin[o] # "no" => verdict[o] \in Outcomes

DataTypes ==
    /\ disk \in [Offers -> {"none", "partial", "made", "removed"}]
    /\ handle \in [Offers -> [Files -> {"nil", "open", "closed"}]]
    /\ unframed \in [Offers -> SUBSET AllUnits]
    /\ landed \in [Offers -> SUBSET AllUnits]
    /\ received \in [Offers -> Nat]
    /\ upload \in [Offers -> UploadCodes]

\* A goroutine never goes on with a nil session, and writes only its units.
HandlerTypes ==
    /\ handler \in [Handlers -> [at : HandlerStates, of : Offers \cup {None},
                                 todo : SUBSET AllUnits, left : SUBSET Files]]
    /\ \A h \in Handlers : \/ handler[h].at \in {"idle", "end"}
                           \/ /\ handler[h].of \in Offers
                              /\ handler[h].todo \subseteq Units(handler[h].of)
                              /\ handler[h].left \subseteq FilesOf(handler[h].of)

\* Nor does a UI call.
UserTypes ==
    /\ dialog \in Offers \cup {None}
    /\ banner \in [of : Offers \cup {None},
                   state : Outcomes \cup {"none", "waiting", "transferring"}]
    /\ appDone \in BOOLEAN
    /\ call \in [Callers -> [at : {"idle", "called", "found", "flagged", "over"},
                             op : {"none", "accept", "decline", "cancel"},
                             of : Offers \cup {None}, for : Offers \cup {None}]]
    /\ \A k \in Callers :
          call[k].at \in {"found", "flagged"} => call[k].of \in Offers

\* The type invariant.
TypeOK == SlotTypes /\ FinTypes /\ DataTypes /\ HandlerTypes /\ UserTypes

\* The offer o is being asked about or received.
Holding(o) ==
    /\ prep[o] \in {"registered", "waiting", "accepted", "prepared"} \/ armed[o]
    /\ fin[o] \notin {"reporting", "done"}

\* "One session each way": the slot names exactly the offer being asked about
\* or received, through every early return and every way to finalize.
SlotOwner == \A o \in Offers : Holding(o) <=> incoming = o

\* An offer reports one terminal state at most, and only after it let go of
\* the slot: the early ends of PrepareUpload and finalizeRecv exclude each other.
OneOutcome == \A o \in Offers : /\ Len(reported[o]) <= 1
                                /\ reported[o] # <<>> => ~Holding(o)

Reported(o, outcome) == reported[o] = <<outcome>>

\* "completed" is reported only when every byte of every file was written and
\* the files were left in place.
CompletedIsWhole ==
    \A o \in Offers : Reported(o, "completed") =>
        landed[o] = Units(o) /\ disk[o] = "made"

\* A canceled transfer leaves no file, though a stream may still be writing
\* when finalizeRecv removes them.
CanceledLeavesNothing ==
    \A o \in Offers : Reported(o, "canceled") => disk[o] \in {"none", "removed"}

OpenFiles(o)  == {f \in Files : handle[o][f] = "open"}
ServersOf(o)  == {h \in Handlers : handler[h].of = o}

\* finalizeRecv closes the handles without handlesMu, so a stream that was
\* already past its done check may open one that nobody closes: at most one
\* per stream.  A browser's POST asks for the cancel flag only: after a timeout
\* it may open every file it has left.
LeakBound ==
    \A o \in Offers \ Web : fin[o] \notin {"no", "closing"} =>
        Cardinality(OpenFiles(o)) <= Cardinality(ServersOf(o))

\* Once the user's cancel is flagged before finalizeRecv reads the flag, the
\* transfer never reports "completed", even if the last byte just arrived.
CancelWins ==
    \A o \in Offers :
        [](canceled[o] /\ fin[o] \in {"no", "closing"} => []~Reported(o, "completed"))

\* Nobody holds the slot for ever: the two timers bound every wait.
SlotFreed == \A o \in Offers : incoming = o ~> incoming # o

\* The receiver implements OfferLife.
Phase(o) ==
    IF prep[o] = "new" THEN "new"
    ELSE IF prep[o] \in {"registered", "waiting"} THEN "offered"
    ELSE IF prep[o] \in Ends THEN EndState[prep[o]]
    ELSE CASE answer[o] \in {400, 409} -> "refused"
           [] answer[o] = 403 -> "declined"
           [] answer[o] \in {408, 500} -> "failed"
           [] answer[o] = 503 -> "canceled"
           [] OTHER -> IF fin[o] \in {"reporting", "done"} THEN verdict[o]
                       ELSE "receiving"

Life == INSTANCE OfferLife WITH
    phase <- [o \in Offers |-> Phase(o)],
    saved <- [o \in Offers |-> disk[o] = "made" /\ landed[o] = Units(o)]

LifeSpec == Life!Spec

\* The two statements below are those of the repository's docs and comments
\* that the code does not keep.

\* README.md:14: the receiver accepts or declines in the incoming-offer
\* dialog; so an offer starts only on an Accept given to that offer.
ConsentMatches ==
    [][\A o \in Offers : TakeAccept(o) => decision[o].for = o]_vars

\* transfer.go:163: Shutdown cancels active transfers and declines any
\* pending incoming offer; so the offer it found never starts receiving
\* afterwards.
ShutdownSettles ==
    [][\A o \in Offers : call[AppQuit].at = "over" /\ call[AppQuit].of = o
                         => ~Arm(o)]_vars
=============================================================================
