------------------------------ MODULE WebClient ------------------------------
(***************************************************************************)
(* A browser that has the desktop's page open: its registration              *)
(* (core/webpresence), which its heartbeats keep and its address protects,    *)
(* and the chat messages it polls for (PollWebChat) and acknowledges.         *)
(*                                                                          *)
(* The page has one heartbeat and one poll timer, whose requests overlap     *)
(* when the network is slow, and answers may come in another order or never. *)
(* The messages are numbered by their time stamps: the window sends one at a *)
(* time, so that each has a millisecond of its own.                          *)
(***************************************************************************)
EXTENDS Naturals, Sequences, FiniteSets, SequencesExt

CONSTANTS
    Addrs,       \* the addresses the browser's requests come from
    Polls,       \* the polls that may be under way at the same time (a bound)
    MaxSent,     \* the messages of the desktop (a bound)
    MaxMoves,    \* how often the browser changes its address (a bound)
    MaxLost,     \* how many polls or answers are lost otherwise (a bound)
    None

ASSUME WebClientConstants == /\ MaxSent \in Nat /\ MaxMoves \in Nat /\ MaxLost \in Nat
                             /\ None \notin Addrs

Stale == 3       \* intervals without a heartbeat after which the entry is removed

VARIABLES
    entry,       \* clients[id]: its remoteIP, and the intervals since lastSeen
    addr,        \* the address the browser has now
    token,       \* the page's token: the address it was made for
    sent,        \* the time stamp of the last message
    outbox,      \* webOutbox[id]
    poll,        \* poll[q]: a request of pollChat and its answer
    got,         \* the page's chatMessages that came in
    since,       \* the page's chatSince
    receipts,    \* the read receipts that are under way
    watermark,   \* readByPeer[id]
    lost,        \* the messages of answers that never came
    moves, losses

presenceVars == <<entry, addr, token, moves>>
pageVars     == <<got, since, receipts>>
deskVars     == <<sent, outbox, watermark>>
vars         == <<presenceVars, pageVars, deskVars, poll, lost, losses>>

NoEntry  == [ip |-> None, age |-> 0]
NoPoll   == [at |-> "idle", token |-> None, since |-> 0, messages |-> <<>>]
Entries  == [ip : Addrs, age : 0..Stale]

Init ==
    /\ entry = NoEntry /\ token = None /\ moves = 0
    /\ addr \in Addrs
    /\ sent = 0 /\ outbox = <<>> /\ watermark = 0
    /\ poll = [q \in Polls |-> NoPoll]
    /\ got = <<>> /\ since = 0 /\ receipts = {}
    /\ lost = {} /\ losses = 0

Larger(m, n) == IF m > n THEN m ELSE n

-----------------------------------------------------------------------------
(* Presence                                                                *)

\* Mutant of Touch: lastSeen is refreshed before the address is compared.
TouchAnyway ==
    /\ entry' = [ip |-> IF entry = NoEntry THEN addr ELSE entry.ip, age |-> 0]
    /\ token' = IF entry'.ip = addr THEN addr ELSE token

\* An entry is refreshed from its own address only.
Touch ==
    IF entry # NoEntry /\ entry.ip # addr
    THEN UNCHANGED <<entry, token>>
    ELSE /\ entry' = [ip |-> addr, age |-> 0]
         /\ token' = addr

\* sendPresence.
Heartbeat ==
    /\ Touch
    /\ UNCHANGED <<addr, moves, pageVars, deskVars, poll, lost, losses>>

\* An interval of the reaper passes.
Reap ==
    /\ entry # NoEntry
    /\ entry' = IF entry.age = Stale THEN NoEntry ELSE [entry EXCEPT !.age = @ + 1]
    /\ UNCHANGED <<addr, token, moves, pageVars, deskVars, poll, lost, losses>>

\* Verify.  A token is an HMAC of the client and the address it was given to.
Verify(ip, tok) == entry.ip = ip /\ tok = ip

-----------------------------------------------------------------------------
(* Messages                                                                *)

\* SendMessage to a browser that findPeer finds.
SendMessage ==
    /\ sent < MaxSent /\ entry # NoEntry
    /\ sent' = sent + 1
    /\ outbox' = Append(outbox, sent')
    /\ UNCHANGED <<presenceVars, pageVars, watermark, poll, lost, losses>>

\* pollChat asks for what is newer than chatSince.
PollChat(q) ==
    /\ poll[q].at = "idle" /\ token # None
    /\ poll' = [poll EXCEPT ![q] = [NoPoll EXCEPT !.at = "asked", !.token = token, !.since = since]]
    /\ UNCHANGED <<presenceVars, pageVars, deskVars, lost, losses>>

\* Mutant of Remaining: since alone keeps what was answered from coming again.
RemainingAll(ts) == outbox

\* The messages of the outbox that are in a set, in their order.
Picked(set) ==
    FlattenSeq([i \in DOMAIN outbox |->
                   IF outbox[i] \in set THEN <<outbox[i]>> ELSE <<>>])

\* What PollWebChat answers, and what it leaves in the outbox.
Newer(ts)     == Picked({m \in 1..sent : m > ts})
Remaining(ts) == Picked({m \in 1..sent : m <= ts})

PollWebChat(q) ==
    /\ poll[q].at = "asked"
    /\ IF Verify(addr, poll[q].token) /\ Newer(poll[q].since) # <<>>
       THEN /\ poll' = [poll EXCEPT ![q].at = "answered", ![q].messages = Newer(poll[q].since)]
            /\ outbox' = Remaining(poll[q].since)
       ELSE poll' = [poll EXCEPT ![q] = NoPoll] /\ UNCHANGED outbox
    /\ UNCHANGED <<presenceVars, pageVars, sent, watermark, lost, losses>>

\* Mutant of ShowMessages: chatSince is set to the last message, not the newest.
ShowWithLast(q) ==
    LET messages == poll[q].messages IN
    /\ poll[q].at = "answered"
    /\ got' = got \o messages
    /\ since' = Last(messages)
    /\ receipts' = receipts \cup {since'}
    /\ poll' = [poll EXCEPT ![q] = NoPoll]
    /\ UNCHANGED <<presenceVars, deskVars, lost, losses>>

\* The page appends the messages in the order they came and acknowledges the
\* newest it has.
ShowMessages(q) ==
    LET messages == poll[q].messages IN
    /\ poll[q].at = "answered"
    /\ got' = got \o messages
    /\ since' = Larger(since, Last(messages))
    /\ receipts' = receipts \cup {since'}
    /\ poll' = [poll EXCEPT ![q] = NoPoll]
    /\ UNCHANGED <<presenceVars, deskVars, lost, losses>>

\* ReceiveRead, or a receipt that is refused (too many of them) or lost.
ReceiveRead(ts) ==
    /\ ts \in receipts
    /\ receipts' = receipts \ {ts}
    /\ \/ Verify(addr, token) /\ watermark' = Larger(watermark, ts)
       \/ UNCHANGED watermark
    /\ UNCHANGED <<presenceVars, got, since, sent, outbox, poll, lost, losses>>

-----------------------------------------------------------------------------
(* The network                                                             *)

Carried(qs) == UNION {ToSet(poll[q].messages) : q \in qs}

\* A request or its answer.
LosePoll(q) ==
    /\ poll[q].at # "idle" /\ losses < MaxLost
    /\ losses' = losses + 1
    /\ lost' = lost \cup Carried({q})
    /\ poll' = [poll EXCEPT ![q] = NoPoll]
    /\ UNCHANGED <<presenceVars, pageVars, deskVars>>

\* Another network: the connections of the old address are gone.
Move ==
    /\ moves < MaxMoves
    /\ moves' = moves + 1
    /\ addr' \in Addrs \ {addr}
    /\ lost' = lost \cup Carried(Polls)
    /\ poll' = [q \in Polls |-> NoPoll]
    /\ receipts' = {}
    /\ UNCHANGED <<entry, token, got, since, deskVars, losses>>

-----------------------------------------------------------------------------
Next ==
    \/ Heartbeat \/ Reap \/ SendMessage \/ Move
    \/ \E q \in Polls : PollChat(q) \/ PollWebChat(q) \/ ShowMessages(q) \/ LosePoll(q)
    \/ \E ts \in 1..MaxSent : ReceiveRead(ts)

Spec == Init /\ [][Next]_vars

\* The timers of the page and the ticker of the registry go on.  A poll every two
\* seconds meets an entry that a heartbeat keeps for 24: some are made while the
\* page is registered.
FairSpec ==
    /\ Spec
    /\ WF_vars(Heartbeat) /\ WF_vars(Reap)
    /\ \A q \in Polls : /\ SF_vars(PollChat(q) /\ Verify(addr, token))
                        /\ SF_vars(PollWebChat(q) /\ Verify(addr, poll[q].token))
                        /\ WF_vars(PollWebChat(q)) /\ WF_vars(ShowMessages(q))

-----------------------------------------------------------------------------
(* Properties                                                              *)

Messages == 1..sent

\* The registration, the page and the messages; no cursor or receipt runs ahead of
\* what the page has been given.
TypeOK ==
    /\ entry \in Entries \cup {NoEntry}
    /\ addr \in Addrs /\ token \in Addrs \cup {None}
    /\ moves \in 0..MaxMoves /\ losses \in 0..MaxLost
    /\ sent \in 0..MaxSent
    /\ outbox \in Seq(Messages) /\ got \in Seq(Messages)
    /\ since \in 0..sent /\ watermark \in 0..since
    /\ receipts \subseteq 1..since
    /\ lost \subseteq Messages
    /\ poll \in [Polls -> [at : {"idle", "asked", "answered"}, token : Addrs \cup {None},
                           since : 0..since, messages : Seq(Messages)]]

\* No message is shown twice or vanishes: each is once in the outbox, in one
\* answer, or on the page, unless the answer that carried it was lost; however
\* the polls overlap, each with the chatSince of its own time.
MessageKept ==
    \A m \in Messages :
        Cardinality({i \in DOMAIN outbox : outbox[i] = m})
        + Cardinality({i \in DOMAIN got : got[i] = m})
        + Cardinality({q \in Polls : m \in Carried({q})})
        + Cardinality({m} \cap lost) = 1

\* A message that was sent is shown in the end, if its answer was not lost: the
\* page does not skip over it with chatSince, and a browser whose address
\* changed, which is refused as long as the entry of the old one lives, is let
\* in again.
MessageArrives ==
    \A m \in 1..MaxSent : sent >= m ~> m \in ToSet(got) \cup lost

\* What chat.go:34 says of Read ("true once the peer has acknowledged reading
\* it"): a message that is shown as read was on the page.
ReadWasShown == \A m \in 1..watermark : m \in ToSet(got)

=============================================================================
