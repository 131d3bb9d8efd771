------------------------------- MODULE Sender -------------------------------
(***************************************************************************)
(* The sending half of the transfer manager for native peers:               *)
(* core/transfer/transfer.go, Send to writeChunk and the chunk helpers.      *)
(*                                                                          *)
(* Send claims the slot m.outgoing and starts runSend, which posts the      *)
(* offer, waits for the answer, and lets m.streams workers drain the chunk  *)
(* queues, each over a connection of its own.  CancelOutgoing runs beside   *)
(* them: it sets a flag, cancels the HTTP request and closes the            *)
(* connections registered so far, in three steps.  The browser's side of    *)
(* the same session is http_pull.go.                                        *)
(*                                                                          *)
(* The network is external: the peer answers anything or nothing, a dial    *)
(* and a write may fail or block.                                           *)
(***************************************************************************)
EXTENDS Integers, Sequences, FiniteSets, SequencesExt

CONSTANTS
    Sends,       \* calls of Send
    Sizes,       \* Sizes[s]: the sequence of the sizes of its files
    Shrinks,     \* sends whose source files are cut short after they were listed
    ChunkSize,   \* m.chunkSize
    Streams,     \* m.streams
    Callers,     \* the UI's calls of CancelOutgoing, each once
    AppQuit,     \* the call made by Engine.shutdown
    None         \* Go's nil

\* One stream would be reserved for large chunks and never take a small one.
ASSUME SenderConstants ==
    /\ \A s \in Sends : Sizes[s] \in Seq(Nat)
    /\ Shrinks \subseteq Sends
    /\ ChunkSize \in Nat \ {0}
    /\ Streams \in Nat /\ Streams >= 2
    /\ AppQuit \in Callers
    /\ None \notin Sends

Workers == 1..Streams

-----------------------------------------------------------------------------
(* Chunks                                                                  *)

CeilDiv(n, d) == (n + d - 1) \div d

\* The chunks of file i, n bytes long.
ChunksOf(i, n) ==
    [k \in 1..CeilDiv(n, ChunkSize) |->
        LET off == (k - 1) * ChunkSize
        IN  [file |-> i, offset |-> off,
             length |-> IF off + ChunkSize > n THEN n - off ELSE ChunkSize]]

\* The chunks of some of the files, in the order of the files.
ChunksIn(sizes, files) ==
    FlattenSeq([i \in DOMAIN sizes |->
                   IF i \in files THEN ChunksOf(i, sizes[i]) ELSE <<>>])

BuildChunks(sizes) == ChunksIn(sizes, DOMAIN sizes)

\* partitionChunks: by the size of the chunk's file.
Large(sizes) == ChunksIn(sizes, {i \in DOMAIN sizes : sizes[i] >= ChunkSize})
Small(sizes) == ChunksIn(sizes, {i \in DOMAIN sizes : sizes[i] < ChunkSize})

\* Mutant of ReservedLargeStreams: a quarter, rounded down.
ReservedQuarter(streams) == streams \div 4

ReservedLargeStreams(streams) ==
    LET r == IF streams \div 4 < 1 THEN 1 ELSE streams \div 4
    IN  IF streams <= 1 THEN 1 ELSE IF r >= streams THEN streams - 1 ELSE r

Mixed(s) == Large(Sizes[s]) # <<>> /\ Small(Sizes[s]) # <<>>

\* A reserved worker drains only the queue of large chunks.
Reserved(s, w) == Mixed(s) /\ w <= ReservedLargeStreams(Streams)

Bytes(c) == {c.file} \X (c.offset..(c.offset + c.length - 1))
AllBytes(s) == UNION {{i} \X (0..(Sizes[s][i] - 1)) : i \in DOMAIN Sizes[s]}

-----------------------------------------------------------------------------
VARIABLES
    outgoing,    \* m.outgoing
    stage,       \* stage[s]: where runSend of s stands
    status,      \* status[s]: the answer to prepare-upload
    cancel,      \* cancel[s]: sess.cancel
    httpCancel,  \* httpCancel[s]: sess.httpCancel
    failed,      \* failed[s]: sess.err is set
    queue,       \* queue[s]: chunks no worker has taken, large and small
    worker,      \* worker[s][w]: its place, its connection and its chunk
    written,     \* written[s]: the chunks put on a connection, in order
    reported,    \* reported[s]: the terminal states emitted
    call,        \* call[k]: a CancelOutgoing in flight
    appDone      \* the engine's run context is canceled

sessVars == <<outgoing, stage, status, reported>>
stopVars == <<cancel, httpCancel, failed>>
workVars == <<queue, worker, written>>
callVars == <<call, appDone>>
vars     == <<sessVars, stopVars, workVars, callVars>>

NoChunk == [file |-> 0, offset |-> 0, length |-> 0]
Off     == [at |-> "off", conn |-> "none", chunk |-> NoChunk]

Init ==
    /\ outgoing = None
    /\ stage = [s \in Sends |-> "new"]
    /\ status = [s \in Sends |-> 0]
    /\ cancel = [s \in Sends |-> FALSE]
    /\ httpCancel = [s \in Sends |-> "nil"]
    /\ failed = [s \in Sends |-> FALSE]
    /\ queue = [s \in Sends |-> [large |-> <<>>, small |-> <<>>]]
    /\ worker = [s \in Sends |-> [w \in Workers |-> Off]]
    /\ written = [s \in Sends |-> <<>>]
    /\ reported = [s \in Sends |-> <<>>]
    /\ call = [k \in Callers |-> [at |-> "idle", of |-> None]]
    /\ appDone = FALSE

-----------------------------------------------------------------------------
(* Send and runSend                                                        *)

\* Send: one outgoing session at a time.
Send(s) ==
    /\ stage[s] = "new" /\ ~appDone
    /\ IF outgoing = None
       THEN outgoing' = s /\ stage' = [stage EXCEPT ![s] = "starting"]
       ELSE stage' = [stage EXCEPT ![s] = "over"] /\ UNCHANGED outgoing
    /\ UNCHANGED <<status, reported, stopVars, workVars, callVars>>

\* setHTTPCancel; a cancel that came earlier found nothing to abort.
StartPost(s) ==
    /\ stage[s] = "starting"
    /\ stage' = [stage EXCEPT ![s] = "posting"]
    /\ httpCancel' = [httpCancel EXCEPT ![s] = "set"]
    /\ UNCHANGED <<outgoing, status, reported, cancel, failed, workVars, callVars>>

Report(s, state) ==
    /\ reported' = [reported EXCEPT ![s] = Append(@, state)]
    /\ stage' = [stage EXCEPT ![s] = "clearing"]

Aborted(s) == httpCancel[s] = "fired" \/ appDone

\* postPrepare returns the peer's answer ...
PostAnswered(s) ==
    /\ stage[s] = "posting"
    /\ \E code \in {200, 403, 408, 409, 503} : status' = [status EXCEPT ![s] = code]
    /\ stage' = [stage EXCEPT ![s] = "answered"]
    /\ UNCHANGED <<outgoing, reported, stopVars, workVars, callVars>>

\* ... or an error: the context's, the client's timeout, the network's.
PostFailed(s) ==
    /\ stage[s] = "posting"
    /\ Report(s, IF cancel[s] \/ Aborted(s) THEN "canceled" ELSE "failed")
    /\ UNCHANGED <<outgoing, status, stopVars, workVars, callVars>>

HandleAnswer(s) ==
    /\ stage[s] = "answered"
    /\ IF ~cancel[s] /\ status[s] = 200 /\ BuildChunks(Sizes[s]) # <<>>
       THEN /\ stage' = [stage EXCEPT ![s] = "sending"]
            /\ queue' = [queue EXCEPT ![s] = [large |-> Large(Sizes[s]),
                                              small |-> Small(Sizes[s])]]
            /\ worker' = [worker EXCEPT ![s] =
                             [w \in Workers |-> [Off EXCEPT !.at = "dial"]]]
            /\ UNCHANGED reported
       ELSE /\ Report(s, IF cancel[s] THEN "canceled"
                         ELSE CASE status[s] = 200 -> "completed"
                                [] status[s] = 403 -> "declined"
                                [] OTHER -> "failed")
            /\ UNCHANGED <<queue, worker>>
    /\ UNCHANGED <<outgoing, status, stopVars, written, callVars>>

\* Mutant of Join: does not wait for the workers.
JoinEarly(s) ==
    /\ stage[s] = "sending"
    /\ queue[s].large = <<>> /\ queue[s].small = <<>>
    /\ Report(s, IF cancel[s] THEN "canceled"
                 ELSE IF failed[s] THEN "failed" ELSE "completed")
    /\ UNCHANGED <<outgoing, status, stopVars, workVars, callVars>>

\* Mutant of Join: an error wins over the cancel.
JoinFailedFirst(s) ==
    /\ stage[s] = "sending"
    /\ \A w \in Workers : worker[s][w].at = "gone"
    /\ Report(s, IF failed[s] THEN "failed"
                 ELSE IF cancel[s] THEN "canceled" ELSE "completed")
    /\ UNCHANGED <<outgoing, status, stopVars, workVars, callVars>>

\* wg.Wait returns and runSend reports.
Join(s) ==
    /\ stage[s] = "sending"
    /\ \A w \in Workers : worker[s][w].at = "gone"
    /\ Report(s, IF cancel[s] THEN "canceled"
                 ELSE IF failed[s] THEN "failed" ELSE "completed")
    /\ UNCHANGED <<outgoing, status, stopVars, workVars, callVars>>

\* The deferred cancel of the context and clearOutgoing.
ClearOutgoing(s) ==
    /\ stage[s] = "clearing"
    /\ stage' = [stage EXCEPT ![s] = "over"]
    /\ outgoing' = IF outgoing = s THEN None ELSE outgoing
    /\ UNCHANGED <<status, reported, stopVars, workVars, callVars>>

-----------------------------------------------------------------------------
(* Workers                                                                 *)

Step(s, w, to) == worker' = [worker EXCEPT ![s][w].at = to]
\* A worker returns: its connection is closed by the deferred Close.
Leave(s, w) == worker' = [worker EXCEPT ![s][w].at = "gone", ![s][w].conn = "closed"]
SetErr(s) == failed' = [failed EXCEPT ![s] = TRUE]

\* openSendConn: dial, then addConn.
Dial(s, w) ==
    /\ worker[s][w].at = "dial"
    /\ \/ /\ worker' = [worker EXCEPT ![s][w].at = "token", ![s][w].conn = "open"]
          /\ UNCHANGED failed
       \/ Leave(s, w) /\ SetErr(s)
    /\ UNCHANGED <<sessVars, cancel, httpCancel, queue, written, callVars>>

\* The token opens the stream; the write fails on a closed connection.
WriteToken(s, w) ==
    /\ worker[s][w].at = "token"
    /\ \/ /\ worker[s][w].conn = "open"
          /\ Step(s, w, "next") /\ UNCHANGED failed
       \/ Leave(s, w) /\ SetErr(s)
    /\ UNCHANGED <<sessVars, cancel, httpCancel, queue, written, callVars>>

\* A flex worker prefers small chunks; the queues are closed, so an empty one
\* is done.  Without a mix all chunks are in one queue.
Lane(s, w) ==
    IF ~Reserved(s, w) /\ queue[s].small # <<>> THEN "small"
    ELSE IF queue[s].large # <<>> THEN "large" ELSE "none"

\* Mutant of TakeChunk: does not look at the cancel flag.
TakeChunkBlind(s, w) ==
    LET lane == Lane(s, w) IN
    /\ worker[s][w].at = "next"
    /\ IF lane = "none"
       THEN Leave(s, w) /\ UNCHANGED queue
       ELSE /\ worker' = [worker EXCEPT ![s][w].at = "write",
                                        ![s][w].chunk = Head(queue[s][lane])]
            /\ queue' = [queue EXCEPT ![s][lane] = Tail(@)]
    /\ UNCHANGED <<sessVars, stopVars, written, callVars>>

\* The cancel flag is looked at once per chunk.
TakeChunk(s, w) ==
    LET lane == Lane(s, w) IN
    /\ worker[s][w].at = "next"
    /\ IF lane = "none" \/ cancel[s]
       THEN Leave(s, w) /\ UNCHANGED queue
       ELSE /\ worker' = [worker EXCEPT ![s][w].at = "write",
                                        ![s][w].chunk = Head(queue[s][lane])]
            /\ queue' = [queue EXCEPT ![s][lane] = Tail(@)]
    /\ UNCHANGED <<sessVars, stopVars, written, callVars>>

\* writeChunk: io.Copy ends without an error where a shrunk source file ends.
WriteChunk(s, w) ==
    LET c == worker[s][w].chunk IN
    /\ worker[s][w].at = "write" /\ worker[s][w].conn = "open"
    /\ \E n \in IF s \in Shrinks THEN 0..c.length ELSE {c.length} :
          written' = [written EXCEPT ![s] = Append(@, [c EXCEPT !.length = n])]
    /\ Step(s, w, "next")
    /\ UNCHANGED <<sessVars, stopVars, queue, callVars>>

\* The source cannot be opened, the connection is closed, or the peer is gone.
WriteFails(s, w) ==
    /\ worker[s][w].at = "write"
    /\ failed' = [failed EXCEPT ![s] = @ \/ ~cancel[s]]
    /\ Leave(s, w)
    /\ UNCHANGED <<sessVars, cancel, httpCancel, queue, written, callVars>>

-----------------------------------------------------------------------------
(* CancelOutgoing                                                          *)

Proceed(k, to) == call' = [call EXCEPT ![k].at = to]

\* Mutant of Cancel: without the nil check.
CancelUnchecked(k) ==
    /\ call[k].at = "idle"
    /\ call' = [call EXCEPT ![k] = [at |-> "found", of |-> outgoing]]
    /\ UNCHANGED <<sessVars, stopVars, workVars, appDone>>

Cancel(k) ==
    /\ call[k].at = "idle"
    /\ call' = [call EXCEPT ![k] =
          [at |-> IF outgoing = None THEN "over" ELSE "found", of |-> outgoing]]
    /\ UNCHANGED <<sessVars, stopVars, workVars, appDone>>

SetCancel(k) ==
    /\ call[k].at = "found"
    /\ cancel' = [cancel EXCEPT ![call[k].of] = TRUE]
    /\ Proceed(k, "flagged")
    /\ UNCHANGED <<sessVars, httpCancel, failed, workVars, appDone>>

AbortHTTP(k) ==
    /\ call[k].at = "flagged"
    /\ httpCancel' = [httpCancel EXCEPT ![call[k].of] =
                         IF @ = "set" THEN "fired" ELSE @]
    /\ Proceed(k, "aborted")
    /\ UNCHANGED <<sessVars, cancel, failed, workVars, appDone>>


\* Every connection registered so far; one dialled later stays open.
CloseConns(k) ==
    /\ call[k].at = "aborted"
    /\ worker' = [worker EXCEPT ![call[k].of] =
          [w \in Workers |-> IF @[w].conn = "open"
                             THEN [@[w] EXCEPT !.conn = "closed"] ELSE @[w]]]
    /\ Proceed(k, "over")
    /\ UNCHANGED <<sessVars, stopVars, queue, written, appDone>>

\* Engine.shutdown cancels the run context after Manager.Shutdown.
RunCancel ==
    /\ call[AppQuit].at = "over" /\ ~appDone
    /\ appDone' = TRUE
    /\ UNCHANGED <<sessVars, stopVars, workVars, call>>

-----------------------------------------------------------------------------
RunSend(s) == \/ StartPost(s) \/ PostAnswered(s) \/ PostFailed(s)
              \/ HandleAnswer(s) \/ Join(s) \/ ClearOutgoing(s)
SendWorker(s, w) == \/ Dial(s, w) \/ WriteToken(s, w) \/ TakeChunk(s, w)
                    \/ WriteChunk(s, w) \/ WriteFails(s, w)
CancelOutgoing(k) == \/ Cancel(k) \/ SetCancel(k) \/ AbortHTTP(k) \/ CloseConns(k)

Next ==
    \/ \E s \in Sends : \/ Send(s) \/ RunSend(s)
                        \/ \E w \in Workers : SendWorker(s, w)
    \/ \E k \in Callers : CancelOutgoing(k)
    \/ RunCancel

Spec == Init /\ [][Next]_vars

\* runSend's own steps go on; the request ends with the client's timeout.  A
\* dial and the token's write end with the system's timeouts, a write to a
\* stalled peer need not, unless its connection is closed.
Ready(s, w) == worker[s][w].at # "write" \/ worker[s][w].conn = "closed"
Fairness ==
    /\ \A s \in Sends : WF_vars(RunSend(s))
    /\ \A s \in Sends, w \in Workers : WF_vars(Ready(s, w) /\ SendWorker(s, w))
    /\ \A k \in Callers : WF_vars(call[k].at # "idle" /\ CancelOutgoing(k))
FairSpec == Spec /\ Fairness

\* The network never blocks a reserved stream.
ReservedFair(s) ==
    \A w \in 1..ReservedLargeStreams(Streams) : WF_vars(SendWorker(s, w))

-----------------------------------------------------------------------------
(* Properties                                                              *)

Stages   == {"new", "starting", "posting", "answered", "sending", "clearing", "over"}
Outcomes == {"completed", "failed", "canceled", "declined"}
ChunkType == [file : Nat, offset : Nat, length : Nat]

\* The type invariant; the slot names the one session that is running.
TypeOK ==
    /\ outgoing \in Sends \cup {None}
    /\ stage \in [Sends -> Stages]
    /\ status \in [Sends -> {0, 200, 403, 408, 409, 503}]
    /\ cancel \in [Sends -> BOOLEAN]
    /\ httpCancel \in [Sends -> {"nil", "set", "fired"}]
    /\ failed \in [Sends -> BOOLEAN]
    /\ queue \in [Sends -> [large : Seq(ChunkType), small : Seq(ChunkType)]]
    /\ worker \in [Sends -> [Workers ->
          [at : {"off", "dial", "token", "next", "write", "gone"},
           conn : {"none", "open", "closed"}, chunk : ChunkType]]]
    /\ written \in [Sends -> Seq(ChunkType)]
    /\ reported \in [Sends -> Seq(Outcomes)]
    /\ call \in [Callers -> [at : {"idle", "found", "flagged", "aborted", "over"},
                             of : Sends \cup {None}]]
    /\ appDone \in BOOLEAN
    /\ \A k \in Callers : call[k].at \in {"found", "flagged", "aborted"} =>
                             call[k].of \in Sends

Reported(s, outcome) == reported[s] = <<outcome>>

\* "completed" after a transfer of data means that the parallel streams together
\* carried every byte of every file as it was listed, and none of them twice; a
\* file that was cut short since is the exception (writeChunk's io.Copy).
CompletedSent ==
    \A s \in Sends : Reported(s, "completed") =>
        /\ s \notin Shrinks =>
              UNION {Bytes(written[s][i]) : i \in DOMAIN written[s]} = AllBytes(s)
        /\ \A i, j \in DOMAIN written[s] :
              i # j => Bytes(written[s][i]) \cap Bytes(written[s][j]) = {}

\* The sessions some CancelOutgoing has returned from.
Stopped(s) == \E k \in Callers : call[k].at = "over" /\ call[k].of = s

\* After CancelOutgoing returned, nothing more is sent, though workers may still
\* be dialling or between two chunks.
NothingAfterCancel ==
    [][\A s \in Sends : Stopped(s) => UNCHANGED written[s]]_vars

\* runSend has claimed the slot and not yet judged how the send ended.
Undecided == {"starting", "posting", "answered", "sending"}

\* A cancel that comes while the request is made, waits or was just answered, or before
\* the workers are joined, is never reported as any other end, though
\* the context's error, the answer and the workers' errors come with it.
CancelHeard ==
    \A s \in Sends :
        [](cancel[s] /\ stage[s] \in Undecided
           => [](reported[s] \in {<<>>, <<"canceled">>}))

\* A canceled session frees the slot, whatever the peer and the network do.
CancelEnds == \A s \in Sends : Stopped(s) ~> outgoing # s

\* openspec/specs/transfer/spec.md: large files make progress while every
\* other stream is stuck in a small chunk.
LargeProgress ==
    \A s \in Sends : ReservedFair(s) =>
        (Mixed(s) /\ queue[s].large # <<>>
            ~> \/ Len(queue[s].large) < Len(Large(Sizes[s]))
               \/ \E w \in Workers : Reserved(s, w) /\ worker[s][w].at = "gone")
=============================================================================
