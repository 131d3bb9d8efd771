------------------------------ MODULE WebPull ------------------------------
(***************************************************************************)
(* A transfer from the desktop to a browser: core/transfer/http_pull.go,     *)
(* with Send and CancelOutgoing of transfer.go for such a session.           *)
(*                                                                          *)
(* The browser polls for the offer, answers it (RespondPullOffer), and then *)
(* fetches the files, several at once as one temporary zip archive.          *)
(* runSendWebPull waits for the answer, then for the download.  Every HTTP   *)
(* request, every CancelOutgoing and runSendWebPull are goroutines of their  *)
(* own; token and archiveTemp are also used outside m.mu.                    *)
(*                                                                          *)
(* A browser may answer more than once (two tabs share its client id, and a *)
(* request may be sent again).  The check of its presence token is external. *)
(***************************************************************************)
EXTENDS Integers, Sequences, FiniteSets

CONSTANTS
    Sends,       \* calls of Send to a browser
    Empty,       \* those whose files are all empty
    Archive,     \* those that need an archive
    Accepts,     \* requests that accept an offer
    Declines,    \* requests that decline one
    Gets,        \* download requests
    Callers,     \* the UI's calls of CancelOutgoing, each once
    AppQuit,     \* the call made by Engine.shutdown
    None         \* Go's nil, ""

ASSUME WebPullConstants ==
    /\ Empty \subseteq Sends /\ Archive \subseteq Sends
    /\ Accepts \cap Declines = {}
    /\ AppQuit \in Callers
    /\ None \notin Sends \cup Accepts

Answers == Accepts \cup Declines

VARIABLES
    outgoing,    \* m.outgoing
    stage,       \* stage[s]: where runSendWebPull of s stands
    cancel,      \* cancel[s]: sess.cancel
    httpCancel,  \* httpCancel[s]: sess.httpCancel
    decision,    \* decision[s]: the one-place channel sess.webDecision
    token,       \* token[s]: sess.token, named after the request that made it
    archive,     \* archive[s]: sess.archiveTemp, named likewise
    temp,        \* the temporary files on disk, named likewise
    pulled,      \* pulled[s]: sess.pullWait is closed
    failed,      \* failed[s]: sess.err is set
    reported,    \* reported[s]: the terminal states emitted
    req,         \* req[r]: an answer of the browser
    get,         \* get[g]: a download
    call,        \* call[k]: a CancelOutgoing
    appDone      \* the engine's run context is canceled

runVars  == <<outgoing, stage, failed, reported>>
stopVars == <<cancel, httpCancel>>
pullVars == <<decision, token, archive, temp, pulled>>
httpVars == <<req, get>>
callVars == <<call, appDone>>
vars     == <<runVars, stopVars, pullVars, httpVars, callVars>>

Init ==
    /\ outgoing = None
    /\ stage = [s \in Sends |-> "new"]
    /\ cancel = [s \in Sends |-> FALSE]
    /\ httpCancel = [s \in Sends |-> "nil"]
    /\ decision = [s \in Sends |-> "none"]
    /\ token = [s \in Sends |-> None]
    /\ archive = [s \in Sends |-> None]
    /\ temp = {}
    /\ pulled = [s \in Sends |-> FALSE]
    /\ failed = [s \in Sends |-> FALSE]
    /\ reported = [s \in Sends |-> <<>>]
    /\ req = [r \in Answers |-> [at |-> "idle", of |-> None, code |-> 0]]
    /\ get = [g \in Gets |-> [at |-> "idle", of |-> None, path |-> None]]
    /\ call = [k \in Callers |-> [at |-> "idle", of |-> None]]
    /\ appDone = FALSE

\* removePullArchive
RemoveArchive(s) ==
    /\ temp' = temp \ {archive[s]}
    /\ archive' = [archive EXCEPT ![s] = None]

\* The non-blocking send to webDecision.
Offer(s, d) == decision' = [decision EXCEPT ![s] = IF @ = "none" THEN d ELSE @]

-----------------------------------------------------------------------------
(* Send and runSendWebPull                                                 *)

Send(s) ==
    /\ stage[s] = "new" /\ ~appDone
    /\ IF outgoing = None
       THEN outgoing' = s /\ stage' = [stage EXCEPT ![s] = "starting"]
       ELSE stage' = [stage EXCEPT ![s] = "over"] /\ UNCHANGED outgoing
    /\ UNCHANGED <<failed, reported, stopVars, pullVars, httpVars, callVars>>

\* "waiting", and setHTTPCancel.
StartWait(s) ==
    /\ stage[s] = "starting"
    /\ stage' = [stage EXCEPT ![s] = "waiting"]
    /\ httpCancel' = [httpCancel EXCEPT ![s] = "set"]
    /\ UNCHANGED <<outgoing, failed, reported, cancel, pullVars, httpVars, callVars>>

Report(s, state) ==
    /\ reported' = [reported EXCEPT ![s] = Append(@, state)]
    /\ stage' = [stage EXCEPT ![s] = "clearing"]

\* The first select: an answer, the timeout, the context.
TakeDecision(s) ==
    /\ stage[s] = "waiting" /\ decision[s] # "none"
    /\ decision' = [decision EXCEPT ![s] = "none"]
    /\ IF ~cancel[s] /\ decision[s] = "yes" /\ s \notin Empty
       THEN stage' = [stage EXCEPT ![s] = "pulling"] /\ UNCHANGED reported
       ELSE Report(s, IF cancel[s] THEN "canceled"
                      ELSE IF decision[s] = "no" THEN "declined" ELSE "completed")
    /\ UNCHANGED <<outgoing, failed, stopVars, token, archive, temp, pulled, httpVars,
                   callVars>>

AcceptTimeout(s) ==
    /\ stage[s] = "waiting"
    /\ Report(s, "failed")
    /\ UNCHANGED <<outgoing, failed, stopVars, pullVars, httpVars, callVars>>

CtxDone(s) == httpCancel[s] = "fired" \/ (httpCancel[s] = "set" /\ appDone)

WaitAborted(s) ==
    /\ stage[s] = "waiting" /\ CtxDone(s)
    /\ Report(s, "canceled")
    /\ UNCHANGED <<outgoing, failed, stopVars, pullVars, httpVars, callVars>>

\* The second select: the download, its time budget, the context.
Pulled(s)      == pulled[s] /\ UNCHANGED failed
PullAborted(s) == CtxDone(s) /\ UNCHANGED failed

\* sess.sent reaches sess.total with a whole download, but that of an archive,
\* compressed, counts for less.
SentAll(s) == \E g \in Gets : get[g].of = s /\ get[g].at \in {"counted", "done"}
PullTimeout(s) ==
    \E all \in BOOLEAN :
       /\ all => SentAll(s)
       /\ SentAll(s) /\ s \notin Archive => all
       /\ failed' = [failed EXCEPT ![s] = ~all]

PullEnds(s) ==
    /\ stage[s] = "pulling"
    /\ Pulled(s) \/ PullTimeout(s) \/ PullAborted(s)
    /\ stage' = [stage EXCEPT ![s] = "judging"]
    /\ UNCHANGED <<outgoing, reported, stopVars, pullVars, httpVars, callVars>>

\* Mutant of Judge: an error wins over the cancel.
JudgeFailedFirst(s) ==
    /\ stage[s] = "judging"
    /\ Report(s, IF failed[s] THEN "failed"
                 ELSE IF cancel[s] THEN "canceled" ELSE "completed")
    /\ UNCHANGED <<outgoing, failed, stopVars, pullVars, httpVars, callVars>>

Judge(s) ==
    /\ stage[s] = "judging"
    /\ Report(s, IF cancel[s] THEN "canceled"
                 ELSE IF failed[s] THEN "failed" ELSE "completed")
    /\ UNCHANGED <<outgoing, failed, stopVars, pullVars, httpVars, callVars>>

\* The deferred calls: removePullArchive, then clearOutgoing.
ClearUp(s) ==
    /\ stage[s] = "clearing"
    /\ RemoveArchive(s)
    /\ stage' = [stage EXCEPT ![s] = "removed"]
    /\ UNCHANGED <<outgoing, failed, reported, stopVars, decision, token, pulled,
                   httpVars, callVars>>

ClearOutgoing(s) ==
    /\ stage[s] = "removed"
    /\ outgoing' = IF outgoing = s THEN None ELSE outgoing
    /\ stage' = [stage EXCEPT ![s] = "over"]
    /\ UNCHANGED <<failed, reported, stopVars, pullVars, httpVars, callVars>>

-----------------------------------------------------------------------------
(* RespondPullOffer                                                        *)

Answer(r, code) == req' = [req EXCEPT ![r].at = "over", ![r].code = code]

\* The checks under m.mu; the lock is released before anything else.
Respond(r, s) ==
    /\ req[r].at = "idle"
    /\ stage[s] # "new"
    /\ req' = [req EXCEPT ![r] =
          IF outgoing # s THEN [at |-> "over", of |-> s, code |-> 404]
          ELSE IF token[s] # None \/ cancel[s]
               THEN [at |-> "over", of |-> s, code |-> 409]
          ELSE [at |-> "checked", of |-> s, code |-> 0]]
    /\ UNCHANGED <<runVars, stopVars, pullVars, get, callVars>>

RespondDecline(r) ==
    LET s == req[r].of IN
    /\ req[r].at = "checked" /\ r \in Declines
    /\ Offer(s, "no")
    /\ Answer(r, IF decision[s] = "none" THEN 403 ELSE 409)
    /\ UNCHANGED <<runVars, stopVars, token, archive, temp, pulled, get, callVars>>

\* buildPullArchiveFile drops the previous archive, makes a file and fills it ...
BuildArchive(r) ==
    LET s == req[r].of IN
    /\ req[r].at = "checked" /\ r \in Accepts /\ s \in Archive
    /\ temp' = (temp \ {archive[s]}) \cup {r}
    /\ archive' = [archive EXCEPT ![s] = None]
    /\ req' = [req EXCEPT ![r].at = "building"]
    /\ UNCHANGED <<runVars, stopVars, decision, token, pulled, get, callVars>>

\* ... and names it in the session, or removes it when a source is unreadable.
ArchiveReady(r) ==
    LET s == req[r].of IN
    /\ req[r].at = "building"
    /\ \/ /\ archive' = [archive EXCEPT ![s] = r]
          /\ req' = [req EXCEPT ![r].at = "built"]
          /\ UNCHANGED temp
       \/ /\ temp' = temp \ {r}
          /\ Answer(r, 500)
          /\ UNCHANGED archive
    /\ UNCHANGED <<runVars, stopVars, decision, token, pulled, get, callVars>>

\* Mutant of SetToken: does not set one.
SetTokenNot(r) ==
    /\ \/ req[r].at = "built"
       \/ req[r].at = "checked" /\ r \in Accepts /\ req[r].of \notin Archive
    /\ req' = [req EXCEPT ![r].at = "tokened"]
    /\ UNCHANGED <<runVars, stopVars, pullVars, get, callVars>>

SetToken(r) ==
    /\ \/ req[r].at = "built"
       \/ req[r].at = "checked" /\ r \in Accepts /\ req[r].of \notin Archive
    /\ token' = [token EXCEPT ![req[r].of] = r]
    /\ req' = [req EXCEPT ![r].at = "tokened"]
    /\ UNCHANGED <<runVars, stopVars, decision, archive, temp, pulled, get, callVars>>

\* The answer is handed to runSendWebPull, unless the channel is full.
HandOver(r) ==
    LET s == req[r].of IN
    /\ req[r].at = "tokened"
    /\ Offer(s, "yes")
    /\ IF decision[s] = "none"
       THEN Answer(r, 200) /\ UNCHANGED <<archive, temp>>
       ELSE Answer(r, 409) /\ RemoveArchive(s)
    /\ UNCHANGED <<runVars, stopVars, token, pulled, get, callVars>>

-----------------------------------------------------------------------------
(* HandleHTTPDownload                                                      *)

\* A browser that got the token of r asks for the file, or the archive.
GetOpen(g, r) ==
    LET s == req[r].of IN
    /\ get[g].at = "idle" /\ req[r].code = 200
    /\ get' = [get EXCEPT ![g] =
          [at |-> IF \/ outgoing # s \/ token[s] # r \/ cancel[s]
                     \/ s \in Archive /\ archive[s] \notin temp
                  THEN "over" ELSE "copying",
           of |-> s, path |-> archive[s]]]
    /\ UNCHANGED <<runVars, stopVars, pullVars, req, callVars>>

\* Mutant of GetDone: a broken copy counts as well.
GetDoneAlways(g) ==
    /\ get[g].at = "copying"
    /\ \E to \in {"counted", "failed"} : get' = [get EXCEPT ![g].at = to]
    /\ pulled' = [pulled EXCEPT ![get[g].of] = TRUE]
    /\ UNCHANGED <<runVars, stopVars, decision, token, archive, temp, req, callVars>>

\* io.Copy ends, and adds to sess.sent, or fails.
GetDone(g) ==
    /\ get[g].at = "copying"
    /\ \E to \in {"counted", "failed"} : get' = [get EXCEPT ![g].at = to]
    /\ UNCHANGED <<runVars, stopVars, pullVars, req, callVars>>

\* markPullFileDone closes pullWait.
MarkPullFileDone(g) ==
    /\ get[g].at = "counted"
    /\ get' = [get EXCEPT ![g].at = "done"]
    /\ pulled' = [pulled EXCEPT ![get[g].of] = TRUE]
    /\ UNCHANGED <<runVars, stopVars, decision, token, archive, temp, req, callVars>>

-----------------------------------------------------------------------------
(* CancelOutgoing                                                          *)

Proceed(k, to) == call' = [call EXCEPT ![k].at = to]

\* Mutant of Cancel: without the look at nil.
CancelUnchecked(k) ==
    /\ call[k].at = "idle"
    /\ call' = [call EXCEPT ![k] = [at |-> "found", of |-> outgoing]]
    /\ UNCHANGED <<runVars, stopVars, pullVars, httpVars, appDone>>

Cancel(k) ==
    /\ call[k].at = "idle"
    /\ call' = [call EXCEPT ![k] =
          [at |-> IF outgoing = None THEN "over" ELSE "found", of |-> outgoing]]
    /\ UNCHANGED <<runVars, stopVars, pullVars, httpVars, appDone>>

\* Mutant of SetCancel: it turns the offer down and forgets the flag.
SetCancelLate(k) ==
    /\ call[k].at = "found"
    /\ decision' = [decision EXCEPT ![call[k].of] = IF @ = "none" THEN "no" ELSE @]
    /\ Proceed(k, "flagged")
    /\ UNCHANGED <<runVars, stopVars, token, archive, temp, pulled, httpVars, appDone>>

SetCancel(k) ==
    /\ call[k].at = "found"
    /\ cancel' = [cancel EXCEPT ![call[k].of] = TRUE]
    /\ Proceed(k, "flagged")
    /\ UNCHANGED <<runVars, httpCancel, pullVars, httpVars, appDone>>

\* An offer not yet answered is turned down, as far as sess.token tells.
TurnDown(k) ==
    LET s == call[k].of IN
    /\ call[k].at = "flagged"
    /\ IF token[s] = None THEN Offer(s, "no") ELSE UNCHANGED decision
    /\ Proceed(k, "turned")
    /\ UNCHANGED <<runVars, stopVars, token, archive, temp, pulled, httpVars, appDone>>

DropArchive(k) ==
    /\ call[k].at = "turned"
    /\ RemoveArchive(call[k].of)
    /\ Proceed(k, "dropped")
    /\ UNCHANGED <<runVars, stopVars, decision, token, pulled, httpVars, appDone>>

\* Mutant of AbortHTTP: does nothing.
AbortHTTPNot(k) ==
    /\ call[k].at = "dropped"
    /\ Proceed(k, "over")
    /\ UNCHANGED <<runVars, stopVars, pullVars, httpVars, appDone>>

\* abortHTTP; a cancel that came before setHTTPCancel finds nothing to abort.
AbortHTTP(k) ==
    /\ call[k].at = "dropped"
    /\ httpCancel' = [httpCancel EXCEPT ![call[k].of] =
                         IF @ = "set" THEN "fired" ELSE @]
    /\ Proceed(k, "over")
    /\ UNCHANGED <<runVars, cancel, pullVars, httpVars, appDone>>

RunCancel ==
    /\ call[AppQuit].at = "over" /\ ~appDone
    /\ appDone' = TRUE
    /\ UNCHANGED <<runVars, stopVars, pullVars, httpVars, call>>

-----------------------------------------------------------------------------
RunSendWebPull(s) ==
    \/ StartWait(s) \/ TakeDecision(s) \/ AcceptTimeout(s) \/ WaitAborted(s)
    \/ PullEnds(s) \/ Judge(s) \/ ClearUp(s) \/ ClearOutgoing(s)
RespondPullOffer(r) ==
    \/ \E s \in Sends : Respond(r, s)
    \/ RespondDecline(r) \/ BuildArchive(r) \/ ArchiveReady(r) \/ SetToken(r)
    \/ HandOver(r)
Download(g) ==
    (\E r \in Accepts : GetOpen(g, r)) \/ GetDone(g) \/ MarkPullFileDone(g)
CancelOutgoing(k) ==
    Cancel(k) \/ SetCancel(k) \/ TurnDown(k) \/ DropArchive(k) \/ AbortHTTP(k)

Next ==
    \/ \E s \in Sends : Send(s) \/ RunSendWebPull(s)
    \/ \E r \in Answers : RespondPullOffer(r)
    \/ \E g \in Gets : Download(g)
    \/ \E k \in Callers : CancelOutgoing(k)
    \/ RunCancel

Spec == Init /\ [][Next]_vars

\* runSendWebPull goes on by itself but for its two timers, which take minutes.
Prompt(s) == \/ StartWait(s) \/ TakeDecision(s) \/ WaitAborted(s)
             \/ (pulled[s] \/ CtxDone(s)) /\ PullEnds(s)
             \/ Judge(s) \/ ClearUp(s) \/ ClearOutgoing(s)
Fairness == /\ \A s \in Sends : WF_vars(Prompt(s))
            /\ \A k \in Callers :
                  WF_vars(call[k].at # "idle" /\ CancelOutgoing(k))
FairSpec == Spec /\ Fairness

-----------------------------------------------------------------------------
(* Properties                                                              *)

Outcomes == {"completed", "failed", "canceled", "declined"}

\* The type invariant.
TypeOK ==
    /\ outgoing \in Sends \cup {None}
    /\ stage \in [Sends -> {"new", "starting", "waiting", "pulling", "judging",
                            "clearing", "removed", "over"}]
    /\ cancel \in [Sends -> BOOLEAN]
    /\ httpCancel \in [Sends -> {"nil", "set", "fired"}]
    /\ decision \in [Sends -> {"none", "yes", "no"}]
    /\ token \in [Sends -> Accepts \cup {None}]
    /\ archive \in [Sends -> Accepts \cup {None}]
    /\ temp \subseteq Accepts
    /\ pulled \in [Sends -> BOOLEAN]
    /\ failed \in [Sends -> BOOLEAN]
    /\ reported \in [Sends -> Seq(Outcomes)]
    /\ req \in [Answers -> [at : {"idle", "checked", "building", "built", "tokened",
                                  "over"},
                            of : Sends \cup {None}, code : {0, 200, 403, 404, 409, 500}]]
    /\ get \in [Gets -> [at : {"idle", "copying", "counted", "done", "failed",
                                "over"},
                         of : Sends \cup {None}, path : Accepts \cup {None}]]
    /\ call \in [Callers -> [at : {"idle", "found", "flagged", "turned", "dropped",
                                   "over"}, of : Sends \cup {None}]]
    /\ appDone \in BOOLEAN
    /\ \A k \in Callers : call[k].at \notin {"idle", "over"} => call[k].of \in Sends

Reported(s, outcome) == reported[s] = <<outcome>>

\* "declined" is what the browser said, never the false that CancelOutgoing pushes
\* into the same channel.
DeclinedByBrowser ==
    \A s \in Sends : Reported(s, "declined") =>
        \E r \in Declines : req[r].of = s /\ req[r].code = 403

\* "completed" needs a download that ran to its end, unless the app is closing.
CompletedPulled ==
    \A s \in Sends \ Empty : Reported(s, "completed") => appDone \/ SentAll(s)

\* A cancel heard before the outcome is judged is never reported as another end.
CancelHeard ==
    \A s \in Sends :
        [](cancel[s] /\ stage[s] \in {"pulling", "judging"}
           => [](reported[s] \in {<<>>, <<"canceled">>}))

Live(s) == outgoing = s /\ ~cancel[s] /\ stage[s] \in {"waiting", "pulling"}

\* No other request accepted the offer that r accepted, whatever came of it.
Alone(r) == \A q \in Accepts \ {r} : req[q].of # req[r].of

\* A browser whose accept was answered with 200 holds the token that opens the
\* download while the session lasts, though declines, cancels and the answers to
\* other offers race with it, if it accepted once: of two accepts that both pass the
\* check before one has set its token, the later token shuts the earlier one out.
AcceptedCanPull ==
    \A r \in Accepts : req[r].code = 200 /\ Alone(r) /\ Live(req[r].of) =>
        /\ token[req[r].of] = r
        /\ req[r].of \in Archive => archive[req[r].of] \in temp

\* CancelOutgoing ends the session without waiting for one of its timers, in
\* whatever state it found it, once runSendWebPull has set its cancel function.
CancelEnds ==
    \A s \in Sends :
        (\E k \in Callers : call[k].at = "found" /\ call[k].of = s)
            /\ httpCancel[s] = "set"  ~>  outgoing # s

\* The statement below is one of the repository that the code does not keep.

\* transfer.go:634: the archive is "removed after session".
Quiet(s) == \A r \in Accepts : req[r].of = s => req[r].at = "over"
ArchiveRemoved ==
    \A s \in Sends : stage[s] = "over" /\ Quiet(s) => ~\E r \in temp : req[r].of = s
=============================================================================
