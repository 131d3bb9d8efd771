# Swoop in TLA+

Swoop moves files between computers, from a native app to another one or to a
browser, in the local network or over the internet through a relay. This
directory holds a specification of its concurrent core: TLA+ modules
translated from the Go sources, TLC configurations that check them on small
instances, and proofs, checked by TLAPS, that hold for instances of any size.

Paths such as `core/engine.go` are relative to `src/`. `PROJECT.json` names,
for every definition, the source lines it stands for.

## 1. The system

| Component | State | Operations | Shared with | What is hard |
|---|---|---|---|---|
| transfer, receiver (`core/transfer/transfer.go`, `http_recv.go`) | the slot `m.incoming`; a session: decision channel, token, cancel flag, done channel, handles, counters | PrepareUpload, data streams, multipart upload, RespondIncoming, CancelIncoming, watchdog, finalizeRecv, Shutdown | UI calls, HTTP handlers, TCP streams | seven kinds of goroutine, one session, no common lock; a decision that names no offer |
| transfer, sender (`core/transfer/transfer.go`) | the slot `m.outgoing`; queues of chunks, connections, error, cancel flag | Send, runSend, sendWorker, CancelOutgoing | the peer's answers, TCP | parallel workers, a cancel in three steps, a stalled peer |
| transfer, browser pull (`core/transfer/http_pull.go`) | the same session with a token, an archive and two channels | runSendWebPull, RespondPullOffer, HandleHTTPDownload, CancelOutgoing | browsers over HTTP | answers, downloads, timers and a cancel race without a lock |
| frontend (`frontend/src/App.svelte`) | the dialog and the state it shows | its buttons and event handlers | bound calls, events | an event of one session may arrive while the next is shown |
| engine (`core/engine.go`, `app.go`) | one set of invite fields, browsers' outboxes, the listeners | start, shutdown, pairing, messages, dispatch | all of the above | many locks, each held for a short while |
| engine, invite host (`core/engine.go`) | cancel function, joiner, published link, two port mappings | GenerateInvite, stopInviteHost, expiry timer, rendezvous poll, relay loop | registry, overlay, rendezvous | state taken under the lock and used after it; goroutines of an old invite beside the new one's |
| pairing registry (`core/pairing`) | paired peers, their addresses, last-seen and busy marks | Add, Touch, probe, reapIdle, goodbye | engine, invite host | a peer leaves by four ways |
| overlay link (`core/overlay`) | relay multiplexer, QUIC session, closed flag | ServeHost, ConnectJoiner, StartUpgrade, runQUICListener, promoteDirect, Close | engine | an upgrade races with Close and with requests |
| rendezvous server (`core/rendezvous/server`) | sessions, waiting joiners, rooms of two sockets | register, join, poll, touch, attach, cleanup | hosts and joiners | sockets of an old pair beside a new one, expiry |
| rendezvous client (`core/rendezvous`) | none | the HTTP calls of the server above | engine | lost answers |
| chat and web presence (`core/chat`, `core/webpresence`, the browser's page) | a log; browsers with a time to live; an outbox for each, read watermarks; the page's cursor | Touch, Verify, Start, SendMessage, PollWebChat, ReceiveRead | engine | polls that overlap, answers that are lost or overtake, an address that changes |
| discovery (`core/discovery`) | announced peers with a time to live | announce, sweep | engine | sweep against refresh |
| staging, transport, nat, netif, identity, paths, i18n, protocol, invite codes, app, cmd | files, routes, router leases, keys, strings | I/O and encoding | | little that happens over time |

How they interact: the window calls the engine through `app.go`; the engine
calls the transfer manager and starts an overlay link for a peer it has no
route to; the manager reports through callbacks that become events of the
window; `core/transport` turns HTTP requests into calls of the manager; the
registry calls the engine back when a peer falls idle.

What makes each part correct:

* receiver: one session at a time, and the slot is freed on every path; one
  outcome for an offer; "completed" only when all is on disk, "canceled" only
  when nothing is left there; a cancel wins over the last byte; nobody blocks
  the slot for ever;
* sender: "completed" only after every byte was sent once; silence after a
  cancel, and its outcome; large files go on beside small ones;
* browser pull: outcomes tell what the browser did; an accept that was
  answered with 200 can be used; a cancel need not wait for a timer;
* invite host: whatever is running can be stopped, will be, and stops;
  no link is left open;
* registry: a peer that is busy is not dropped, a link without a peer is closed;
* overlay link: after Close nothing is open; after an upgrade both sides reach
  each other;
* rendezvous server: a room ends for both or goes on for both; an old pair's
  end does not end the new one;
* chat and presence of a browser: a message is shown once and not lost by the
  program; a registration lives as long as its own heartbeats;
* discovery: what is shown is what was announced and has not expired.

## 2. The modules

| Module | Stands for | Uses |
|---|---|---|
| `OfferLife` | the promise of the receiver, seen from outside | |
| `Receiver` | the receiving half of the manager, with the dialog of the window | refines `OfferLife` |
| `Sender` | the sending half, to a native peer | |
| `WebPull` | the sending half, to a browser | |
| `InviteHost` | the host side of internet invites | |
| `RelayServer` | the rendezvous server: its store and its relay | |
| `OverlayLink` | one tunnel, seen from both ends, and the loop of the host that waits for it | |
| `PairedPeers` | the peers whose invite we accepted: registry, probes, their tunnels | |
| `WebClient` | a browser: its registration and the messages it polls for | |
| `MCReceiver`, `MCSender`, `MCWebPull`, `MCInviteHost`, `MCRelayServer`, `MCOverlayLink`, `MCPairedPeers`, `MCWebClient` | instances for TLC | the module they are named after |
| `Receiver_proofs`, `Sender_proofs`, `WebPull_proofs`, `InviteHost_proofs`, `RelayServer_proofs`, `OverlayLink_proofs`, `PairedPeers_proofs`, `WebClient_proofs` | theorems about the module they are named after | that module, `TLAPS` |

A step is what one goroutine does between two points at which another may
run: a lock released, a channel operation, a call that blocks, or a field read
without a lock. A function that releases its lock and goes on is several
actions with a place (`prep[o]`, `stage[s]`, `req[r].at`, `stop[a].at`) in
between. The place of a goroutine is model state; everything else is a field of
the code and keeps its name.

Definitions whose comment begins "Mutant of" are not part of the
specification. Each is a plausible slip in the definition below it, there to
show that a property would notice.

### Receiver

`incoming` is `m.incoming`; `prep[o]` the place of the PrepareUpload call of
offer `o`, and `answer[o]` what it returned; `decision[o]` the channel with
room for one answer; `armed[o]` says that `sess.token` is set; `canceled` is
`sess.cancel`; `fin[o]` the stage of `finalizeRecv`, whose sync.Once is the
guard of `Finalize`; `handle`, `received` and `disk` are what the session knows
of its files. `handler[h]` is a goroutine that serves a data stream or a
browser's upload, `call[k]` a call made by the window, `dialog` and `banner`
what the window shows.

`decision[o].for` is a history variable: the offer the user saw when she
clicked. The code sends a bare boolean.

Sizes are small numbers of units. A unit is a region of a file that is written
and counted by one turn of the copy loop. Negative and over-large claims are
inputs too, so the limits of `limits.go` matter. Left out: progress events,
names of files, and HTTP details that change no state.

### Sender

`stage[s]` is the place of `runSend`; `queue[s]` the two lanes filled by
`partitionChunks`; `worker[s][w]` a `sendWorker`, its connection and its chunk;
`written[s]` a history of what went out. `CancelOutgoing` sets the flag, aborts
the request and closes the registered connections in three steps, as in the
code. Chunks and lanes are computed by the code's own arithmetic. External: the
peer answers with any status, a dial or a write may fail or block.

### WebPull

`stage[s]` is the place of `runSendWebPull`; `decision` the channel
`webDecision`; `token`, `archive` the session's fields, `temp` the files on
disk; `req[r]` a `RespondPullOffer` call, `get[g]` a download; `pulled` that
`pullWait` is closed. The 404 for a file of no session and the archive's own
check are in `Respond` and `GetOpen`.

### InviteHost

`current` is the invite that the engine's fields belong to; `joiner` and
`overlay` two of these fields; `ctx[i]` the invite's context; `timer[i]`,
`poll[i]`, `host[i]` its goroutines; `stop[a]` a call of `stopInviteHost` by
caller `a` with what it took under the lock; `link[l]`, `closed` the relay links.
`paired` and `expired` stand for the registry and for the list `reapIdle` works
through after it unlocked.

### RelayServer

`room[s]` is an entry of `Store.rooms`, its time to live abstracted to
`expired`; `relay[s]` an entry of `relayBridge.rooms`. `sock[c]` is the place of
the handler of socket `c`, `conn[c]` its WebSocket, and `done` the channels that
are closed. `bridges` are the `bridge` goroutines, with the sockets they were
started for. `taken` holds the rooms that a cleanup took out of the map and has
not yet closed, with who did it: the end of a bridge, or the store, which keeps
its own lock all the while (`Unlocked`). Every request reaps first, or does not,
as its handler does (`ReapLocked`, `PollJoiner`, `TouchSession`). What flows over
a bridge is left out, and so are the rate limits.

### OverlayLink

`mux[e]` is the set of sessions that the fields of end `e` name, a single one in
practice, for `promoteDirect` puts one in the place of the other; `up` are the
sessions that have not ended, `cut` the paths that one end or the network has broken. `closed` is `Link.closed`, `lost` the
channel `relayLost`. `inbound[e]` is the goroutine of `startRelayInbound`: begun, over,
or the session it asked for. `upgrade` is the place of the joiner's
`upgradeToDirect`, `listener` of the host's `runQUICListener`, `serving` of
`serveMuxHost`; `loop` and `ctx` are the host's `runInviteHostOverlayLoop` and the
context of the invite. `sockets` are the two UDP sockets, whose close ends
the direct session at that end. `call[c]` is a request that an end sends through
the tunnel. What one side ended, or the network broke, the other side notices by
`Notice`. The one surprise of the library the model must have is in
`AcceptStream`: the host's side of a QUIC stream exists once the joiner has
written to it, not when it has opened it.

### PairedPeers

`known` is the registry's map and `active` those of its entries whose idle deadline
lies ahead; `due` are the probes that were started and do not yet run,
`expired` the list `reapIdle` works through without the lock. `overlays` and
`punch` are the engine's two maps, each with a lock of its own; `linked` and
`open` the Links and sockets that are not closed. `thread[g]` is a goroutine's
place, with the peer, Link and socket it holds. `setOverlay` and `removeOverlay` are
two steps each (`SetOverlay`, `SetPunch`; `TakeOverlay`, `CloseOverlay`), and
`then` is where their caller goes on. Links and sockets that nobody knows any more
are new ones again, which bounds the model without bounding the run.

### WebClient

`entry` is `clients[id]` with the age of `lastSeen` in intervals; `token` the page's token,
named by the address it was made for; `outbox`, `watermark` are `webOutbox[id]`
and `readByPeer[id]`; `since`, `got`, `receipts` the page's `chatSince`, its incoming
messages and its calls of `/api/v1/read`. `poll[q]` is a call of `pollChat`, from the
request with the `chatSince` of its time to the answer. Messages are
their time stamps.

## 3. What is checked

All runs finish within minutes with two workers. Deadlock checking is off in
all of them but `paired` and `web`, whose loops never stop: elsewhere a system whose sessions are over,
whose user has clicked what she may and whose peers are silent has stopped, and may.

| Run | Instance | Question |
|---|---|---|
| `receiver_slots` | a browser's upload of one file beside an offer of no bytes; two UI calls and the shutdown | does the slot follow the sessions on every path (`SlotOwner`), is there one outcome (`OneOutcome`), is what is "completed" on the disk (`CompletedIsWhole`), does the receiver implement `OfferLife` (`LifeSpec`)? |
| `receiver_data` | an offer of two files, three units, beside one over the limits; two streams; a UI call and the shutdown; fair | what do outcomes say of the disk (`CompletedIsWhole`, `CanceledLeavesNothing`), who wins (`CancelWins`), how many handles native streams may leak (`LeakBound`), is the slot freed in the end (`SlotFreed`)? |
| `sender` | a file of two chunks with a small one, then an empty file; two streams; fair | `CompletedSent`, `NothingAfterCancel`, `CancelHeard`, `CancelEnds`, `LargeProgress` |
| `pull` | a pull with an archive and one of empty files; an accept, a decline, a download, a cancel; fair | `DeclinedByBrowser`, `CompletedPulled`, `AcceptedCanPull`, `CancelHeard`, `CancelEnds` |
| `invite` | two invites, the first may be joined; one link; fair | `ServedIsHeld`, `WillBeStopped`, `LinkIsHeld`, `StopEndsHost` |
| `relay` | one session, a host, two joiners, two sockets of either role; fair | is a handler woken, and once (`WokenOnce`); has a full room its bridge (`PairIsBridged`); does the end of one side end the other (`BothReturn`) |
| `overlay` | one tunnel, a request of either end; fair | do both ends settle on one path (`UpgradeSettles`), is the relay served by the loop that is meant to (`HostServesRelay`), does a closed Link end whatever was under way (`ClosedLinkEnds`)? |
| `paired` | one peer, two probes, a goodbye, the loop; three Links and two sockets | is a Link or a socket ever open with nobody to close it (`NothingLeftBehind`)? |
| `web` | three messages, two polls, two addresses; fair | is a message shown once (`MessageKept`), and in the end (`MessageArrives`), though polls overlap and the address changes? |
| `find_...` | the smallest instance that shows it | section 5 |

Each property was also checked against a mutant of the code; the
mutants are listed in `PROJECT.json`.

### Bounds, and why they are enough

* Two offers, sends or invites: one session is in the slot and one
  comes before or after it. All fields that two sessions share (`m.incoming`,
  `m.outgoing`, the invite fields) hold one session; a third would meet what the
  second meets. For `SlotOwner`, `OneOutcome`, `ServedIsHeld` and
  `WillBeStopped` the proofs remove the bound, as they do for every other
  safety property of these runs (section 4); what rests on the bounds alone is liveness.
* Two data streams, three units: two may be writing while a third party
  finalizes, the last byte may be either's, and one stream may take two units. Two
  workers: the smallest number with a reserved and a flexible one.
  The proofs have any number of streams, workers, files and chunks.
* One or two UI calls beside the shutdown, each made once. In `receiver_slots` the two
  are interchangeable, in `paired` the two probes: these runs check safety only, and
  TLC takes one of each pair of mirrored states. A call reads a
  session and acts on what it read; two are enough to have one overtake the
  other. `pull` and `sender` have one cancel, since a second finds the flag set.
* `Links` bounds how often a host dials the relay. The run has one link, which
  an invite may dial just before another takes over; that links replace each
  other as well is what the theorem for `LinkIsHeld` covers.
* `pull` has one accepting request: with a second one the graph that liveness needs is ten times as
  large. `PullTabs.cfg` (`MCWebPull`) checks `AcceptedCanPull` for two tabs that accept, over two
  sends, without liveness, and passes; the theorem is for any number of them.
* `overlay` has one tunnel, since a tunnel shares nothing with the next but the loop,
  which closes one before it dials another, and one request, which may be sent at any
  moment of an upgrade by either end.
* `paired`: two probes are the smallest number that can each find no tunnel and dial;
  a goodbye is the third who removes what they set. Two Links may be held and a third
  be in the map. Peers share no state but the locks, so one is enough.
* `web`: two polls overlap, and of three messages one may be in the outbox, one on
  its way and one shown. Two changes of address bring the browser back to the one
  it had, whose entry may still be there. One answer is lost beyond those that a
  change of address loses.
* Two sockets of either role: one attaches, is replaced, and its bridge ends beside
  the next one's. One session, for sessions share only the store's lock. The
  proofs have no such bounds.
* `Guests` bounds the joiners, one for an invite. GenerateInvite calls do not
  overlap: section 6.
* Time is abstract. A timer may fire whenever it is armed, so every order of a
  timeout and a late answer is a behaviour; durations are not compared.

### Fairness, and why the code justifies it

* `Receiver`: the steps of PrepareUpload after registration, `finalizeRecv`
  and the watchdog are weakly fair. They are goroutines that block on nothing
  but a select with a timer, and both timers fire. Nothing is assumed of users,
  senders and browsers, nor of a data goroutine, which may hang in a read.
* `Sender`: `runSend` is fair, for the HTTP client has a timeout; a worker is
  fair but for a write to an open connection, which a stalled peer can block for
  ever; a cancel that has begun goes on. `LargeProgress` assumes in
  addition, in the property itself, that the network takes what the reserved
  streams send; nothing is assumed of the other streams.
* `WebPull`: what `runSendWebPull` does by itself is fair, its two timers are
  not: `CancelEnds` must not have to wait for them.
* `InviteHost`: stops that were called and the relay loops go on. A timer need not
  fire, no peer need join, and a dial need not succeed.
* `RelayServer`: handlers, bridges and cleanups go on; a copy notices a connection
  that broke, for its read fails. Clients and the network do as they like, and no
  session need expire.
* `OverlayLink`: goroutines that were started go on, and a session whose path
  was broken is noticed at either end. No path need break, no dial need
  succeed, no request need be sent, and nobody need close. Nor need the joiner's punch socket
  be closed after its Link (`ClosePunch`). A request that nobody
  accepts need not time out.
* `PairedPeers` states safety only.
* `WebClient`: the page's two timers and the registry's ticker go on. A poll every
  two seconds meets a registration that a heartbeat keeps for 24 seconds, so that polls
  made while the page is registered come again and again: they are strongly fair. The
  heartbeat is not assumed to be accepted, which is the point of `MessageArrives`.

## 4. What is proved

Every safety property that a run checks, invariant, action property or refinement, is the
statement of a theorem. The assumptions are `ReceiverConstants`, `SenderConstants`,
`WebPullConstants`, `InviteConstants`, `RelayConstants`, `OverlayConstants`, `PairedConstants`
and `WebClientConstants` in the modules, which TLC evaluates in every run: the sets of files and goroutines are finite,
sizes are integers, a send has at least two streams (the code sets four), nil is
none of the values, what is disjoint by its nature is disjoint. The numbers of offers, sends, files,
chunks, streams, calls, invites, peers, links, sessions, sockets, polls and messages are arbitrary.

* `TypeCorrect` (`Receiver_proofs`): `TypeOK` is inductive by itself. Beyond types it
  says that no goroutine and no call goes on with a nil session and none writes
  outside its offer's files. One lemma for each group of actions
  (`PrepareTypeOK`, `DataStreamTypeOK`, `WebUploadTypeOK`, `FinalizeRecvTypeOK`,
  `UserTypeOK`); `NextSplit` puts them together.
* `SlotIsOwned`, `OneReport` (`Receiver_proofs`): neither is inductive. The
  slot is freed by four early returns of PrepareUpload and by `finalizeRecv`, and
  `SlotOwner` survives only if these exclude each other for an offer. That is
  `ArmedFirst`: `finalizeRecv` runs only for a session whose token is set, and
  a session gets its token only after the last early return. It needs that each
  goroutine or cancel that may finalize found the token set, so these are part
  of it. `ReportedLast` says that who reports is the last to act for the offer.
  `SlotInv` is the conjunction with `TypeOK`; `SlotInvariant` is the theorem for it.
* `ReceiverCompletedIsWhole`, `ReceiverCanceledLeavesNothing`, `ReceiverCancelWins`
  (`Receiver_proofs`): `OutcomeInv` is `SlotInv` with what counts and what ends. "completed" is
  decided by `received`, a number; what it must mean is a set of units on the disk. `DataInv`
  ties them: no unit is in two places (one still to come, in a goroutine's hands, landed: `Apart`), so `received`
  and the goroutines that have written and not yet counted are together as many as the units landed
  (`Counted`), and a full count is a full set. A browser's upload reports a success after its last
  part instead, whatever the count; for it every unit is in a part to come, on its way, or landed (`WebInv`).
  `EndInv` says what the disk, the report and the answer are at each end; it needs `ArmedFirst`, so that
  an end before the first file is none after it. `ReceiverCancelWins` is about
  all later states of one: a cancel that is heard stays heard until it is the verdict (`Heard`, `HeardStays`), and
  then there is no report of a success. `SenderCancelHeard` and `PullCancelHeard` have the same form.
* `ReceiverLeakBound` (`Receiver_proofs`): the bound is by streams, and not inductive: a stream that
  opened a file could open another. `LeakInv` counts only the streams that do not wait for a header
  once `finalizeRecv` has closed the handles, for after its next check a stream opens no more. The
  attempt to prove it for all offers showed that it is false for a browser's, whose upload asks for
  the cancel flag only; `LeakBound` names native offers since.
* `ReceiverRefinesOfferLife` (`Receiver_proofs`): `Spec => LifeSpec`. `Phase` and `Saved` are the refinement
  mapping; `PrepareLife`, `FinalizeLife`, `StreamLife` and `UserLife` show that each action is the
  one step of `OfferLife` it should be, or a stutter. Taking an offer up is a step only because the slot was
  empty (`SlotOwner`), ending as completed only because all units landed (`OutcomeInv`).
* `SenderTypeCorrect`, `SenderCompletedSent`, `SenderNothingAfterCancel`, `SenderCancelHeard`
  (`Sender_proofs`): `SendInv` follows the bytes. Each byte of a send is in a lane, in a
  worker's hands, or written, never in two of them, and in one of them as long as nothing failed and nobody
  canceled (`BytesInv`); that a worker left means that it found nothing to take (`GoneInv`). A
  reserved worker leaves with small chunks still queued, so "all workers have left" says "all lanes are
  empty" only because one worker, the last, is never reserved; that is what at least two streams are for.
  `StopInv` says of a canceled send that no worker writes to an open connection once
  the call is over, from which `SenderNothingAfterCancel` follows. That the lanes hold the files' bytes
  to begin with is a lemma about `buildChunks` and `partitionChunks` (`FileChunks`, `Queues`).
* `WebPullTypeCorrect`, `PullDeclinedByBrowser`, `PullCompletedPulled`, `PullCancelHeard` (`WebPull_proofs`):
  the decision channel is written by three parties. A "no" in it is the browser's, or the
  cancel flag is set before it (`DeclineInv`); a pull that ended without an error and without a cancel closed
  `pullWait` after the last file (`PullInv`). `PullAcceptedCanPull` needs in addition that no two
  sessions name one archive and that whoever removes it takes its name out first (`ArchiveInv`),
  and that a request that nobody else came between still has what it set (`AloneInv`).
* `HostTypeCorrect`, `HostIsHeld`, `HostWillBeStopped` (`InviteHost_proofs`): a
  stop takes the fields in one step and cancels in another, so an invite may be
  in no field and not yet canceled. `ServedIsHeld` is inductive once it is
  known that GenerateInvite sets the fields only when they are empty
  (`FieldsAreFree`) and that no caller is in two stops (`OneStopEach`);
  `TimerIsNew` makes the timer of a new invite one that has not fired. `HostWillBeStopped`
  follows a joiner from the poll that is about to add it to the registry, and from there to the reaper
  (`JoinerIsWatched`): it leaves them only by a goodbye, or by being reported idle, which stops the host. That
  an invite which is set up disturbs no poll that is adding a peer is `PollAfterTimer`.
* `HostLinkIsHeld` (`InviteHost_proofs`): a relay loop lets go of a link only
  after closing it, so `LinkIsHeld` is inductive as soon as no loop is started
  over one that runs; that is `Begun`, which rests on `TimerIsNew`.
* `HandlerIsWokenOnce` (`RelayServer_proofs`): a room changes hands, from the map
  to a cleanup, and its sockets are woken afterwards without a lock. The
  invariant `WakeInv` says that a socket in a room waits, and for that room's
  session (`Seating`), one in a cleanup waits too (`Taking`), rooms and
  cleanups share no socket (`Apart`), each waiting handler is in one of them
  (`Placed`), and only handlers that got to wait were woken (`WokenWaited`). Taking
  a room out moves its sockets; nothing but `Cleanup` and the socket that takes
  a seat removes any. `WokenOnce` follows.
* `RoomIsBridged`, `RelayTypeCorrect` (`RelayServer_proofs`): whoever fills a room
  starts its bridge, and a bridge ends together with the room of its session,
  whichever sockets it has by then. That `PairIsBridged` needs no more is the other
  side of the divergence `find_relay`.

* `OverlayTypeCorrect`, `OverlayHostServesRelay` (`OverlayLink_proofs`): the host's accept loop is a
  goroutine that asks for the active session when it first runs. It gets the relay's because no
  upgrade can pass its offer before that loop has answered it: `OfferedWhenServed`.
* `PairedTypeCorrect`, `PairedLeavesNothingBehind` (`PairedPeers_proofs`): a Link goes from the goroutine
  that dialed it to the map and from the map to the goroutine that closes it. `LinkHeld` says
  that it is in one of these places and in no other, `SocketHeld` the same of the socket, whose map
  has another lock; each step moves one of them.
* `WebTypeCorrect`, `WebMessageKept` (`WebClient_proofs`): `MessageKept` counts; the invariant
  (`KeptInv`) says that the places of a message are disjoint and hold none twice. What `PollWebChat` answers and
  what it leaves are a partition of the outbox by time stamp (`OutboxSplit`), whatever `since` the
  poll was sent with, which is why overlapping polls do no harm.

`Sender_proofs` and `WebClient_proofs` begin with the same lemmas about sequences of sequences (`Concatenation`,
`Flattened`): what a flattened sequence contains, and that it has nothing twice if its parts have not. `FlattenSeq` is a recursive
function, so this is an induction; it is made by hand, in first-order form, from `NatLessThanWellFounded` and
`WFMin` of the library (`Induction`): a set of numbers with 0 and with successors has all of them.

Only model-checked: liveness, which is out of the prover's reach: `SlotFreed`, `CancelEnds` of the sender and
of the browser pull, `LargeProgress`, `StopEndsHost`, `BothReturn`, `UpgradeSettles`,
`ClosedLinkEnds`, `MessageArrives`. So are the three divergences of section 5, which are counterexamples. Out of
reach as well are the library's induction theorems that take an operator as
parameter, and with them `SelectSeq` and whatever else is defined with a RECURSIVE operator: the
models pick from a sequence with `FlattenSeq` instead.

## 5. Where the code differs from what the repository says

Each of these three has a run whose counterexample is the story told here;
`PROJECT.json` quotes the lines.

* `find_consent`: an Accept names no offer. The user clicks it for the offer on
  the screen, the offer times out, another one takes the slot, and the call
  accepts that one.
* `find_relay`: a host connects again. Its new socket takes the old one's seat, a
  new bridge starts, and the old socket is closed; on that the old bridge ends
  and its cleanup, which knows the session only, takes out the room and closes the
  new pair.
* `find_goodbye`: a joiner says goodbye. `dropPairedPeer` takes it out of the registry and
  leaves `inviteJoinerID` (`engine.go:664`); the expiry timer sees a joiner and returns
  (`engine.go:1295`), and the reaper no longer knows the peer, so neither the timer nor the idle
  policy, to which `engine.go:1282` gives the session's lifetime, ends the host. Its relay link, sockets and
  port mappings stay until the next invite or the shutdown. The property is
  `IdlePolicyOwns`; `WillBeStopped`, which holds, says that a goodbye is the only way there.

The following configurations are kept beside the runs. Each asks one question whose
answer is a counterexample (`tlc -config FindShutdown.cfg MCReceiver.tla`, and so on).

* `FindShutdown.cfg` (`MCReceiver`): the shutdown declines an offer that is "pending" as far as
  `sess.token` tells. If the accept was already taken from the channel and the
  token not yet set, the decline is read by nobody and the offer goes on.
  `transfer.go:162` promises to decline "any pending incoming offer".
* `FindArchive.cfg` (`MCWebPull`): an archive that is finished after the session ended is named in
  the session's field after the field was cleared up, and stays on disk
  (`transfer.go:634`: "removed after session").
* `FindUpgrade.cfg` (`MCOverlayLink`): an upgrade is completed by the joiner alone. It dials, promotes its
  side and closes the relay; the host learns of the direct session when the first bytes come
  over it, and of the relay's end at once. Its loop asks for the mode, is told
  "relay", and closes the Link (`link.go:48`: "prefers direct QUIC over relay when upgraded"). The joiner
  sends nothing by itself before its keepalive, so this is the usual order: the tunnel is lost and
  dialed again.
* `FindOldExpiry.cfg` (`MCInviteHost`): the timer of an invite that was replaced is not stopped. When it
  fires and nobody has joined yet, it ends the host of the new invite, whose
  blob is still valid (`engine.go:1281`).
* `FindOrphan.cfg` (`MCPairedPeers`): a peer is reaped, or says goodbye, while a probe dials. The
  probe then sets the tunnel of a peer that is gone, and no later probe looks at it
  (`registry.go:42`: "tear down overlay").
* `FindRead.cfg` (`MCWebClient`): a receipt names the newest message the page has. One whose
  answer was lost, or is still to come, is shown as read too (`chat.go:34`:
  "true once the peer has acknowledged reading it").

## 6. Limits of the models

* `AcceptedCanPull` speaks of a request that is alone in accepting its offer (`Alone`). Two may both pass the check
  of `sess.token`, which is in another critical section than its assignment;
  the second then takes the first one's token away.
* With `Shrinks` a source file is cut short after it was listed: `io.Copy` ends without an error, the frame
  is shorter than its header says, and the sender reports "completed". `CompletedSent` excepts such a send
  from saying that every byte was sent, and still says that none was sent twice. The run has
  `Shrinks` empty, the theorem any set.
* `LeakBound` speaks of native offers. A browser's upload looks at the cancel flag alone (`http_recv.go:60`): one
  that goes on after a timeout opens a file for each part it has left, and nobody closes them.
* `CompletedPulled` excepts the app's shutdown: a pull whose context ends
  with the app and without a cancel is reported as completed.
* `ServedIsHeld` assumes that GenerateInvite calls do not overlap. When they do,
  both stop the old host first and set the fields afterwards; the first one's
  cancel function is overwritten.
* `WillBeStopped` excepts a joiner that said goodbye and has not joined again: section 5, `find_goodbye`.
  The peers that did are a history variable, `left`, that no guard reads.
* In `InviteHost` the joiner's pairing is the poll's; a joiner that is in the registry
  already, which `pairRendezvousJoiner` leaves alone, is left out.
* The receiver's answer 200 to a browser follows `finalizeRecv` whoever ran it,
  also when it removed the files; no property is stated about it.
* In `RelayServer` a socket alone in a room has no reader: its handler waits until
  it is replaced or the session is dropped. A socket that attaches after its
  session was dropped makes a room that no later reap of the store finds.
  `WokenOnce` says there is somebody to wake the handler, not when.
* `RelayServer` and `InviteHost` are not composed: a link that the server closes
  is a `LoseRelay` to the host. `OverlayLink` has the relay as a path that may break.
* In `OverlayLink` the joiner does not serve the direct session: a host that asks over it
  waits until `yamux` gives up and ends the session (`OpenTimeout`). `directMux` is never
  reset, so a Link whose direct session died still says "direct", and the host's
  loop keeps it until the invite ends. Requests that are under way when the joiner closes the
  relay fail (`CallFails`). A QUIC port that cannot be opened leaves a host without a listener,
  which to the joiner is an offer that fails. In `UpgradeSettles` a joiner may lose its
  session: `FindUpgrade.cfg` shows how. `setOverlay` keeps the old punch socket when the Link that takes over
  has none or the same one, so `ClosePunch` is not assumed to happen, and `ClosedLinkEnds` excepts a
  joiner whose socket is never closed: then the host's close is what ends the session.
* `PairedPeers` has the joiner's side; the peers that joined us are `InviteHost`'s. Probes of a
  peer that wait to run are counted once. Status texts, addresses and what
  `UpdateInvite` changes are left out, so is the shutdown, which leaves these tunnels to the
  end of the process. A goodbye over the tunnel has no timeout in the code; here it
  always ends. `RemovedHasNoTunnel` does not hold (section 5).
* `WebClient` has the desktop's messages to one browser. The other direction, and the ticks on
  the browser's own messages, are left out; so are the rate limiter, two messages in one
  millisecond (the later one then stays in the outbox, as after a clock set back), a reload of
  the page (which keeps `chatSince`, not the messages), and the order in which the page
  shows messages whose answers overtook each other. A message in an answer that was lost is
  lost: `MessageKept` and `MessageArrives` say so (`lost`). The outbox of a browser that
  went away is never emptied.
* Two desktops that push to each other are `Sender` and `Receiver` apart: a stream that fails to dial
  makes the sender report "failed" although the others deliver every chunk, and "completed" means
  that the bytes were handed to the socket. Neither side's module says what the other believes.

Not modelled, and why: `staging`, `nat`, `netif`, `punch`, `identity` and `paths` are
system I/O; `i18n`, `protocol` and the invite codes are data; `transport` routes
requests to the managers without state of its own; `app.go`, `main.go` and `cmd`
are glue. `rendezvous/client.go` has no state: its calls are steps of `InviteHost`
and `PairedPeers`. `discovery` sweeps and refreshes under one lock and is planned.

## 7. Plan

Done, in this order: `OfferLife` and `Receiver`, which every transfer passes
through; `Sender` and `WebPull`; `InviteHost`; `RelayServer`; `OverlayLink`;
`PairedPeers`; `WebClient`. Next:

1. `Push`: `Sender` and `Receiver` over a network that loses connections. What does
   "completed" on one side say of the other?
2. `Discovery`, and the window of the rate limiter.

Theorems done: every safety property of the runs. To come: the safety half of the liveness properties,
as an invariant for each that says which goroutine takes the next step (no session holds the slot
with nobody at work for it; no handler waits that nobody will wake), and an abstract specification of a send, like `OfferLife`,
for `Sender` and `WebPull` to implement.
