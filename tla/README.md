# P2PData over WebRTC: a TLA+ model

The repository is a build of WebRTC for old versions of Windows with a library
of its own on top, `P2PData`: peer-to-peer data and file transfer between two
endpoints whose users exchange their connection data ("positions") by any means
they have. This project models that library and the parts of WebRTC its
correctness rests on. The library is
`src/talk/examples/peerconnection/WebrtcXpDll/P2PData`, where the files named
below are; `MyWebrtc/P2PData` is a near-identical copy of it, which is not
modelled a second time. The data channel is `src/talk/app/webrtc/datachannel.cc`,
the threads are in `src/webrtc/base` and the TURN relay in `src/talk/p2p/base`.

`PROJECT.json` holds the table of components, the line each definition was
translated from ("map"), the list of hazards with the properties aimed at them,
and the mutants: for each property, a plausible bug of the code that breaks it.

## 1. Inventory

| Component | State | Operations | Talks to | What is hard | What makes it correct |
|---|---|---|---|---|---|
| File transfer protocol (`P2PThread.cc`: `P2PThreadFile`, `P2PThreadManagerFile`, `CHandleBaseExe`) | the thread map, flags `m_skipFlag`, `m_forceQuitFlag`, the receiver's guid, a mutex and condition variable per object | `Run`, `Release`, `SetEvent`/`ResetEvent`, `Attach`, `UnAttach`, `Suspend`, `Resume`, the detached `ReleaseRun` | the conductor, by calls; the peer, by data channel messages | a condition variable without a predicate, flags written by other threads, an object deleted by a detached thread before its map entry | no block before the acceptance, no thread on a deleted object, a thread that is told to end does |
| File repositories (`TransferData.cc`) | open streams, finished and total size per name | `PopUp`, `PushBack`, `ResProgressDisk`, `RecieveFile`, `FinishRecieveFile` | `Run` and the handlers | end of file at a block boundary, empty files, DWORD sizes, names used twice | what is on disk is a prefix of what was sent, each block once |
| Conductor, file handlers (`WebrtcConductor.cc`: `RecieveDataChannel`, `CallbackWebrtcClient`) | none of its own | one case per message type | both of the above, the user's slots | refusals, cancels and results that cross | both users get one and the same verdict |
| Data channel (`datachannel.cc`, `datachannelinterface.h`) | `state_`, three queues, flags | `Send`, `Close`, `RegisterObserver`, `OnChannelReady`, `OnDataReceived`, `UpdateState` ... | the SCTP transport on the worker thread, the proxy | a `Send` served *inside* another method that waits for the worker, full queues | no packet lost, repeated, overtaken or stranded |
| Session negotiation (`WebrtcConductor.cc`: `SessionConnectionObserver`) | the connection and the data channel, `m_connectedToTurnserverFlag`, `m_connectedToPeerFlag`, `m_getIceFlag`, the own position | offer, answer, set and get position, close, re-create, the observer callbacks | two users, the peer connection | descriptions, candidates and reports of different sessions interleave | the position read is complete, the user is told what happened |
| `rtc::Thread` (`thread.cc`, `messagequeue.cc`, `physicalsocketserver.cc`) | `sendlist_`, `msgq_`, `dmsgq_`, `fStop_`, the wakeup event, the stack of each thread | `Send`, `ReceiveSends`, `Get`, `Post`, `PostDelayed`, `Clear`, `Stop`, `~MessageHandler`, `~Thread` | everything above runs on it | calls served inside waits, one event for all waits of a thread, targets that stop or die | every `Send` returns and runs once, no message is lost, early, or run for a dead handler |
| TURN client and server (`turnport.cc`, `stunrequest.cc`, `turnserver.cc`) | pending requests with their nonces, entries and channel numbers; the allocation with its permissions, channels and timers | requests, answers, retransmission, timeouts, refreshes, expiry | UDP | loss, duplicates and answers that overtake each other; five timers that depend on one another; nonces that grow stale | what the port believes to have the server has too; packets get the right source |
| Signaling client and server | sign-in state, queued messages | connect, hanging GET, message, sign-out | HTTP | reconnects, timeouts | not used by the direct conductor of the library |
| MD5, JSON files | - | - | - | library arithmetic, plain I/O | not modelled |
| WebRTC media, transport, codecs | - | - | - | vendored upstream code | not modelled; external where used |

Two endpoints interact as follows. The user of each calls the exported
functions of `P2PDllInterface`. A session is set up by an offer whose position
(description and candidates) the users carry; once ICE is connected the data
channel of the observer carries serialised messages. A file is sent by a
detached thread that announces it (`Create_File`), waits on a condition
variable for the receiver's answer, sends blocks, and ends with
`End_Send_File`; the receiver compares digests and answers with the verdict.
Handlers and callbacks run on the signaling thread of the endpoint's peer
connection factory, calls of the user on a thread of its own.

## 2. Modules

| Module | Models | Extends / instantiates |
|---|---|---|
| `FileTransfer` | sender and receiver of file transfers, the run and release threads, both message loops, the users | instantiates `FileDelivery` |
| `FileDelivery` | abstract specification: blocks arrive in order, a verdict follows, the sender's user is told what the receiver found | |
| `FileTransferProofs` | type correctness, no data before the acceptance, life of the objects, progress, proved | `FileTransfer`, `TLAPS` |
| `FileTransferFlow` | what is read, sent and written; the verdicts; progress; the refinement of `FileDelivery`, proved | `FileTransferProofs` |
| `DataChannel` | one endpoint of an SCTP data channel with the signaling thread's stack | |
| `DataChannelProofs` | all its invariants, proved | `DataChannel`, `TLAPS` |
| `Session` | the observers of two endpoints and what they see of the peer connection | |
| `SessionProofs` | types, the channel in use, what is reported of the connection, proved | `Session`, `TLAPS` |
| `SessionPositions` | what is reported of the server and the positions, proved | `SessionProofs` |
| `RtcThread` | an application thread and threads with message loops that call, post to and stop one another | |
| `RtcThreadProofs` | all its invariants and its action property, proved | `RtcThread`, `TLAPS` |
| `Turn` | a TURN port and its server, over a lossy network | |
| `TurnProofs` | types, sources of relayed data, progress of the port, proved | `Turn`, `TLAPS` |
| `TurnTimers` | what rests on authentication and timers, proved | `TurnProofs` |
| `MC*` | constants for TLC | the module of that name |

### FileTransfer

`S` owns the file, `R` receives it. Per transfer name there is one
`P2PThreadFile` object per `SendFile` call ("attempt"). `pc` is where its `Run`
thread is: each wait of `SetEvent` is two positions, `to_wait` and `wait`, and
only a thread that is *in* `wait` is woken by `notify_all`, because the code
waits without a predicate. `mapS` is the thread map, `freed` marks objects that
`ReleaseThread` has deleted; the delete and the erase of the entry are two
steps. `src`, `repo` and `disk` are the streams: a block is its index, so that a
lost, repeated or misplaced block shows; a size is in bytes, taken modulo
`DwordMod` where the code stores it in a `DWORD`. `doneS` and `doneR` are the
results given to `TransferFileComplete`, `shown` the last progress.

A handler is one step: it runs on one thread and the calls it makes into the
repositories and the thread manager are part of it. A turn of `Run`'s loop is
three: `RunReadBlock` tests `m_forceQuitFlag` and reads a block, `RunSendBlock` is
the call of `SendData`, which blocks, and `RunTestSkip` tests `m_skipFlag`. Users and
messages come between them: an interrupt and a cancel during one `SendData` pause
a `Run` that has been told to quit.

The verdict rests on a digest, and `GetResourceMd5` returns a reference to one
string that all `Run` threads share with `CreateDataRepository`. `RunDigest` computes
it and `Release` copies it into the end message; if another thread wrote the string
in between (`mixed`), the message carries the own digest or any other text, and the
comparison may come out either way (`Digests`, `Compared`). In the code this is a
data race; what is modelled of it is the wrong text, not a torn string.

Assumptions and omissions:
- the channel between the two is ordered and may close once, losing a suffix of
  what is in flight. `dc_order` below shows that the data channel of this build
  can reorder packets when its send queue backs up: what `FileTransfer` shows
  holds for transfers whose queue does not;
- a deleted object keeps its last field values: a handler that meets one in the
  map between delete and erase is a use after free. The model has both steps and
  handlers between them; nothing in the code prevents it, and no property is
  stated of it;
- equal digests mean equal contents. The entry under an empty name that
  `RecieveFile` files when a file cannot be opened is not modelled;
- `Release` starts the thread that deletes its object and then returns over that
  object without touching a field of it; `RunOnLiveObject` speaks of `Run` up to
  that start;
- `SendFile` of a file that cannot be opened, `DeleteRecieveFile` (exported, does
  nothing to a transfer) and `DeleteSendFile` (not exported) are left out;
- a user sends a name again only after a result for it.

### DataChannel

All methods run on the signaling thread. `provider_->SendData` blocks in
`Thread::Send` on the worker thread, and that wait serves calls that other
threads make through the proxy. `stack` is therefore the explicit stack of
methods that wait: a frame holds the packets its loop has left, the provider's
result and what the method does afterwards. Messages posted by the worker
(data, ready signals, remote close) run only when the stack is empty. `before`
records for each packet which `Send` calls had returned when its own began, so
that order is only required between calls that are ordered. Packets are one
byte long; a zero-size `Send` changes nothing; the RTP type is left out.

`SendQueueSurplus` is 0: the proxy does not forward the method, so a caller
reads the default of the interface.

### Session

`conn` is what the observer can see of the peer connection (signaling state,
descriptions with credentials `uf`, gathering, ICE state, requests posted and
descriptions made), `obs` the fields of `SessionConnectionObserver`, `told` what
its user heard last, `mail` the position in transit to an endpoint. A
description is its type, its credentials and its candidates; a candidate is a
kind. Where the code goes on to read a description that was deleted, both
outcomes are taken.

A user calls from its own thread, and what a call asks of the peer connection is
marshalled to the signaling thread of the factory, where callbacks run.
`DeletePeerConnection` is therefore two steps. `CloseTurnServerConnection` forgets the
channel and waits for the signaling thread (`closing`); callbacks go on; then
`DeletePeerConnection` makes an end of the peer connection. An `OnDataChannel` in between
leaves the channel of the dead session in `m_messageChannel`, where it stays, closed,
until the `InitializePeerConnection` of the next session replaces it. That is why
`ChannelOfSession` speaks of sessions that last. The other calls are one step, which
is a limit of the model: `GetLocaltionSdpIcecandidate` copies the position that callbacks
write (the race on the strings is below the model's level), and the marshalled
calls of `SetOppositeSdpIcecandidate`, first the description and then the candidates,
have no callback between them.

Two silences of the code are in the model and are not properties: a recovery of ICE
from `Disconnected` straight to `Completed` is not reported, so `ConnectedReported`
allows the user's last word to be the disconnect in `Completed`; and
`DeletePeerConnection` does not reset `m_connectedToTurnserverFlag`, so that the end of
a later gathering is not reported if the first one was (`FirstGatheringReported` is
about the first, `Connects` excepts a second offer).

Assumptions and omissions: `RecreateEnvironment` is one step, as if the process
were started anew; a user reads its position when it is told of the
server; one position per direction is in transit and a newer one replaces it;
one endpoint makes the offers; a failed `CreatePeerConnection`, loopback and
media streams are left out; `WebrtcConductor::CallMessage` does nothing here.
The observer ignores `Checking` and `Completed`. `OnFailure` tells the user
without recording the state, as the code does. `PositionComplete` and
`ReportedUsable` carry the condition `OneSession`: an answering endpoint that
gets offers of two sessions answers both, and its second answer is put into the
position although the connection refused it.

### RtcThread

A thread executes `Get` in a loop. `loop` is where it is in it, with `msCurrent`,
`cmsDelayNext` and the end of its `Wait`; `stack` is what runs on top: handlers
of calls (`call`), handlers of messages (`post`), `Send`s that wait (`send`) and
`Stop`s that join (`join`). `signal` is the one event by which a thread is
woken; every `Wait` of the thread, nested or not, resets it. `Send` is three
actions, as the code takes and releases locks: the test of `fStop_` (`Send`), the
entry in `sendlist_` and the wakeup (`SendPush`), and the loop of waiting and
serving (`SendCheck`, `ReceiveSend`, `CallReturns`, `SendsDone`, `WaitSignalled`).
`Pull` is what `Get` does under its lock; how many delayed messages are due,
where a new one goes in the priority queue, and which places of a queue `Clear`
leaves are the one choice of a `\E` that fits. `PostDelayed` reads the clock and tests
`fStop_`; `DoDelayPost` takes the lock and inserts. Between the two the message is in
`posting`, time passes, and other posters overtake it. `TimeIsLater`, `TimeDiff` and the order
of the priority queue (`Before`) work modulo `ClockMod`, as the code's `uint32`
does. `Thread::Clear` is modelled as it is in this repository: its loop over
`sendlist_` runs only if the list is empty.

Assumptions and omissions: `Peek`, `MQID_DISPOSE`, `Restart`, sockets, wrapped
threads as targets and `ProcessMessages` with a time limit are left out; a
`Send` to the own thread is a direct call and part of the handler that makes it;
in `Post` the test of `fStop_` and the push are one step; a handler gets its
messages on one thread and is destroyed there, while none of its own handlers is
suspended below; nobody uses a thread after its destructor. Time passes only
while a message is delayed, since nothing else looks at it.

### Turn

Client: `requests` is the map of the `StunRequestManager`, by transaction id,
each with the nonce that was put into it when it was made, its delay and how
often it was sent; `entries` has the channel number and state of each peer.
Server: `alloc` is the client's allocation, with one expiry timer for each
Allocate request that was answered since the last refresh, the permissions by IP
address and the channels by number, each with the time it has left. The network
(`toServer`, `toClient`) loses what it likes when it is sent and delivers the
rest in any order; duplicates are the retransmissions of the code.

A request takes seconds and the timers take minutes. `Tick` is therefore a
minute, and happens only when no exchange is under way: the outcome of a
refresh, bind or challenge is decided before the next timer is looked at. What is
not covered is a server so slow that an exchange outlasts the margin of one
minute.

Assumptions and omissions: one client over UDP; TCP and TLS, name resolution,
STUN binding requests, one-time nonces and malformed messages are left out; the local
errors of `PrepareAddress` (no credentials, address of another family, no socket) are one
action, `PrepareAddressFails`; entries are made when the port is connected; data that the client sends up
changes nothing at the server, so that `Relays` says what would become of it
instead of an action. Peers share an IP address, which is the case in which
permissions and entries interfere, and are then interchangeable (the symmetry of
the run).

## 3. Runs

| Run | Instance | Question |
|---|---|---|
| `ft` | one transfer, 3 bytes in blocks of 2, two user calls, one spurious wakeup, the channel may close | all safety properties; `FileTransfer` implements `FileDelivery`; a thread that ended gets its user a verdict; a sending thread pauses or ends |
| `ft_edges` | two transfers: an empty file, a file of exactly one block; one spurious wakeup | each, once accepted, succeeds on both sides, unless its `Release` shared the digest string with another thread |
| `ft_wakeup` (violation) | one transfer, undisturbed | the answer may arrive before `Run` waits: nobody is woken and `Run` waits for ever |
| `ft_cancel` (violation) | one transfer, two calls | a cancel sets a flag and wakes nobody: an interrupted transfer never ends |
| `dc` | send queue of 2, receive queue of 1, 3 packets, 2 arrivals, nesting 2 | nothing lost, repeated or stranded; packets are sent in the end |
| `dc_order` (violation) | send queue of 3 | a nested `Send` overtakes the queue that `SendQueuedDataMessages` swapped out |
| `session` | 2 kinds of candidates, `A` offers, 2 offers, 2 ends of a session, 1 loss or failure, gathering may miss candidates | reports are true and complete; an offer ends with a connection or a reported failure |
| `thread` | an application, a signaling and a worker thread, one handler on each of the last two, three operations in all: at most 3 calls and 2 posts, delays up to 1, the worker may be stopped and its handler destroyed | no lost wakeup; each call served once, while it is waited for; nothing runs for a dead handler |
| `thread_timers` | two application threads that post up to 3 messages to one worker, delays up to 2, the worker may be stopped | timers are not early and in order, posts in order |
| `thread_live` | the same threads, 2 calls and 1 post, nobody stops | every call returns, every message runs |
| `thread_stop` (violation) | the worker may be stopped | `Thread::Clear` does not answer the calls that a stopped thread leaves |
| `turn` | 2 peers at one IP address, one entry at a time and 2 in all, 2 datagrams under way, 2 sends a request | allocation and bound channels are kept, packets are attributed rightly, the port does not get stuck |

Each violation quotes the comment or the interface documentation it refutes, in
"findings".

Why the bounds suffice. In the transfer: a full and a short block is the
smallest file in which a block can be lost, repeated or swapped, and the edge
run adds the empty file and the exact block, the two cases in which end of file
is seen at another turn; two calls allow every ordered pair (interrupt then
cancel, interrupt then restart, both sides at once); one spurious wakeup reaches
each wait. In the data channel: three packets are one on the wire, one swapped
out and one nested; a queue of two fills; nesting two puts a call inside a flush
and more depth repeats it. In the threads: a thread that is called while it waits for
the one that calls it needs two calls and one message or call to start them, and
then two waits share an event; three operations are also a post or a stop in the
middle of a call. In the relay: two sends are a lost and a repeated request (the
code sends nine times; further ones repeat the second), two datagrams are two
answers that overtake each other, or an answer and a packet of a peer; the second
entry is the one that could get the number or the packets of the first; the
minutes are scaled down (lifetime 2 for 10, permission 2 for 5, channel 3 for 10,
nonce 2 for 60), so that a request that is not renewed in the last minute is too
late and nonces grow stale between refreshes. In the session: two offers and two ends reach a
session that is re-created on either side while messages of the old one travel.

The runs are for one `SendFile` per name (`MaxSends = 1`); `RunOnLiveObject`,
`PrefixOnDisk`, `OneVerdict` and `ImplementsDelivery` are stated for that case
(a second call before the release has erased the entry would share the object
of the first). Deadlock is checked in `turn`, whose timers never stop, and not
elsewhere: transfers end, channels close, users may stop calling.

### Fairness

- `FileTransfer`: weak fairness of each side's message handling, of `Run` and of
  the release thread: these are operating system threads that are runnable, and
  nothing disables them but their own step. No user call, wakeup or failure is
  owed.
- `DataChannel`: weak fairness of the method that runs and of the ready signal,
  strong fairness of a provider call that succeeds: the transport does not
  block or fail for ever. It is an assumption about the network and is needed
  only for `SentEventually`.
- `RtcThread`: weak fairness of the steps of each thread and of the clock. It
  contains that a handler returns; no call, post or stop is owed.
- `Session`: weak fairness of what is posted to the signaling thread, of
  gathering and of the connectivity checks; and of the users carrying
  positions, which is an assumption on the application: nothing connects
  without it.

## 4. Proofs

Each theorem holds for every value of the constants that the module's assumption
allows: any sets of transfers, peers, threads and handlers, any numbers of calls,
packets, offers and datagrams, any depth of nesting. The assumptions say what
the code's own constants satisfy:

- `ConstantAssumption` (`FileTransfer`): a positive block size and DWORD modulus,
  any file sizes.
- `ChannelAssumption` (`DataChannel`): one of the three handshake roles, a send
  queue that holds at least one packet.
- `SessionAssumption` (`Session`): there is a kind of candidate that stands for the
  server; either, both or none of the endpoints may offer.
- `ThreadAssumption` (`RtcThread`): a handler lives on a thread with a loop, the
  application stops only such threads, the clock has a range.
- `TurnAssumption` and `NoneAssumption` (`Turn`): the lifetime is at least twice
  the margin of `ScheduleRefresh`, the permission outlasts the margin, and the
  channel outlasts the permission (10, 1, 5 and 10 minutes in the code).

Every invariant is proved in the same way: an inductive invariant, one lemma per
action that says what the action does to the state in the terms of the invariant
(its "effect"), one lemma per action and part of the invariant that it can
disturb, and a last step in temporal logic.

**FileTransfer** (`FileTransferProofs`)
- `TypeCorrect`: `Spec => []TypeOK`. What needs an argument is that sizes stay
  natural numbers (reads past the end of file get nothing, sums and `%` stay in
  `Nat`) and that the map, `on` and the queues name objects of the right attempt.
- `AcceptInvariant` and `AcceptFirst`: `Spec => []NoDataBeforeAccept`. The property
  is not inductive. `Run` enters its loop because its object has recorded a guid,
  which says nothing of the receiver; the guid was recorded because an acceptance
  arrived, which says nothing of the receiver either; the acceptance was sent when
  the repository had been made. So the invariant adds `RecordsBacked` (a recorded
  guid has a repository behind it) and `AnswersBacked` (so has an acceptance in
  flight), and rests on the fact that a repository, once made, is never removed.
  Spurious wakeups are covered: a thread woken without an answer finds no guid and
  leaves.
- `RunsOnLiveObject` (`RunOnLiveObject`), from `LifeInv`: objects and `Run` threads are numbered by the
  calls that made them (`CallsMade`), a release starts when its `Run` is done
  (`ReleasedLast`), and an object is deleted by some release (`FreedByRelease`). The
  theorem has the hypothesis `MaxSends = 1`, one `SendFile` a name, which is
  what the property says: with two, `Attach` leaves the entry of the first call in
  the map and the release of one `Run` deletes the object that the other uses.
- `ProgressIsTruthful` (`ProgressTruthful`), from `ProgressInv`: an acknowledgement in
  flight carries no more than what is written (`ShakesTruthful`), because the count
  of a repository never falls: a repository that is made starts with no count only
  where none was (`CountedInBox`), and a size cut to a DWORD is smaller.

The theorems of `FileTransferFlow` have the hypothesis `MaxSends = 1`, which is the
case the properties are stated for. They rest on `FlowInvariant`:
- `FlowInv` says of each transfer where it stands. One request and then one answer
  travel, and only then has the object a guid (`NothingYet`, `AskedOnce`,
  `GuidFirst`); `Run` ends once and nothing of the transfer is in flight after the
  verdict (`EndedOnce`); the receiver's file is open from the acceptance to the
  verdict (`OpenUntilJudged`). The blocks in flight are in order, without a gap
  after the blocks on disk, and each carries what the read of its number got
  (`InFlight`); the disk holds `1..n` and has counted the bytes of `n` blocks
  (`OnDisk`); while the stream has not met the end of the file, and the channel is
  open, the last block that was read is on disk or in flight (`ReadSoFar`); verdicts
  fit the file, and what the sender's user was told or will be is the receiver's
  verdict, or a `FAILURE` with the channel closed and no end on its way
  (`VerdictRight`, `ToldRight`).
- Its proof has lemmas on the arithmetic of blocks and bytes (a block that is not
  empty starts before the end of the file; none follows an empty one), on queues
  that lose their head or a suffix or get a message, on the actions that leave the
  flow of a transfer alone (`Quiet`: all actions of other transfers, and of this
  one all but nine), on the closing channel, and for each of the nine that move it.
- `PrefixReceived` (`PrefixOnDisk`), `VerdictIsOne` (`OneVerdict`) and `SuccessAgreed`
  (`SuccessAgreement`) follow from it. A verdict fits the file only for a transfer that
  shared the digest string with nobody: `SuccessAgreement` says so.
- `ProgressIsMonotone` (the action property `ProgressMonotone`) adds `ShakesOrdered`:
  acknowledgements travel in the order of what they count, none below what is
  shown. It has the further hypothesis that file sizes are below `DwordMod`: the
  sizes in an acknowledgement are `DWORD`s, and the count of a larger file starts
  again at zero on its way.
- `DeliveryImplemented` (`ImplementsDelivery`): a block that is written is `Deliver`,
  possible because the file on disk is no longer than the sent one and no verdict
  was passed; `END_SEND_FILE` is `Judge`, where an end without a guid can only
  belong to a transfer of which nothing was read; a result is `Tell`; a block that
  cannot be sent is `Fail`; a cancel message is `Cancel`; all else stutters, the
  truncation by `AcceptFile` too, because it meets an empty file. A `Judge` fits the file
  if the digest is the transfer's own. The theorem is therefore about the behaviours in
  which no two uses of the string overlap (`Spec /\ []DigestsApart`); for a single
  transfer, as in the run, `OneTransferDelivers` proves it without a condition.

**DataChannel** (`DataChannelProofs`)
- `TypeCorrect`, with `TypeInv`: a frame of the stack holds packets or control
  messages according to its kind, and a closed channel is disconnected.
- `ReceiveOrder` (`ReceivedInOrder`) and `QueueDelivered` (`NothingStuck`). The
  invariant `ReceiveInv` says that what was delivered followed by what is queued is
  what arrived. It has to say when the queue may be non-empty at all: a channel
  that is open is writable, a connecting one waits, an open and observed one has
  delivered.
- `SentOnce` (`NoDuplicate`) and `SentNotLost` (`NothingLost`). A packet may be in the
  queue, in a queue that some frame has swapped out, in the hands of a frame that
  waits for the provider, or on the wire. `SendInv`: it is in at most one of these
  places and once there, only packets that were sent are anywhere, and until the
  channel closes each of them is somewhere. Both properties follow; neither is
  inductive, because a nested `Send` or flush moves packets between places.

**Session** (`SessionProofs`, `SessionPositions`)
- `TypeCorrect`; `ChannelSafe` (`ChannelOfSession`), `ConnectedTold`
  (`ConnectedReported`) and `GatheringTold` (`FirstGatheringReported`), from
  `ReportInv`: an endpoint without a connection has nothing left of one but perhaps its
  channel; a connection that lasts has a channel of its session, because
  `InitializePeerConnection` always replaces it; a close that is under way has been
  counted; and the flags of the observer agree with what
  its user was told. They hold whoever offers.
- `RecordedTold` (`RecordedIsTold`), `PositionsComplete` (`PositionComplete`) and
  `ReportsUsable` (the action property `ReportedUsable`), under the hypothesis that
  some endpoint does not offer, which is how the library is meant to be used and
  what the run has. `RoleInv` then says that one endpoint makes and holds only
  offers and the other one answers; `ExactlyTold` that the recorded state of the
  server is what the user was told while no description has failed; `PositionInv`
  that the position follows the local description, for which one has to know where
  the one position of a session is: with its user, under way, asked or answered.
  If both offer, an offer that is refused looks like a failed answer and the roles
  are mixed.

**Turn** (`TurnProofs`, `TurnTimers`)
- `TypeCorrect`, with `TypeInv`: transaction ids are not used twice, and requests,
  answers and allocation agree in type.
- `SourcesRight` (`RightSource`), from `ChannelInv`: a number that an entry, a
  request, a datagram, the server or relayed data has for a peer is below
  `nextChannel` and is nobody else's, for ever. The property speaks of data that
  arrives; the other places are those the number goes through on its way.
- `PortProgress` (`PortNotStuck`), which is inductive as it stands with the types.
- `RefusedClean` (`RefusedHasNone`), from `AuthInv`: there is one allocate request at
  a time, and only one that carries credentials; it is granted each time it is
  sent, so that no answer refuses what another one granted.
- `AllocationStays` (`AllocationKept`), from `KeepInv`: until a request times out, a
  refresh is waiting that is due before *every* timer of the allocation. A
  retransmitted allocate request starts one more timer, and an answer under way
  is from the same minute.
- `BoundStays` (`BoundRelayed`), from `BindInv`: the same for each bound channel, whose
  rebind is due before the channel's and the permission's timers, with at most one
  bind request per entry, no number that belongs to two peers, and no bind that
  the server refuses.

**RtcThread** (`RtcThreadProofs`)
- `TypeCorrect`, with `TypeInv`. `StackOK` says on what each frame rests: a `Send` or
  a `Join` on code that runs, the handler of a call on a `ReceiveSends`, the one of
  a message on `Get`. `ListOK`, `QueueOK`, `SetsOK`: calls and messages are with the
  thread of their handler, no queue has a message for a handler that is gone.
- `DestroyedStay` (the action property `DestroyedNotRun`) from `QueueOK`.
- `OneRendezvous` (`Rendezvous`), from `CallInv`: no call has two `Send`s, two
  handlers or two places in a list, none is both listed and run, and a call is
  listed or runs if and only if it is waited for and unanswered.
- `WakeupsSeen`: a thread that sleeps with no wakeup pending has no call to serve,
  no answer to take, no message and no order to stop. The hard part is that all
  waits of a thread share one event: the wait of an inner `Send` may consume the
  wakeup that an outer one needs. `WakeInv` therefore says for *every* frame whose
  answer is there that the event is set or some frame above it has waited and will
  set it again (`Repaid`); and for a thread past its look at `sendlist_`, `msgq_` and
  `fStop_` that the event is set or there was nothing to see (`WorkSeen`).
- `WakeupsKept` (`NoLostWakeup`) adds the timers, from `TimerInv`: between `Pull` and
  the wait the delay is that of the first delayed message.
- `TimersOrdered` (`TimerOrder`), from `OrderInv`: what was dispatched precedes what
  is due, which precedes what is delayed, each sorted in itself; nothing due is
  ahead of the clock, and ids are those of past posts. With several posters that read
  the clock before they take the lock, a message may be put in after a later one was
  due and pulled: `DueFirst` allows that one inversion and no other, and says that of the
  two the one dispatched first was due when the other was put in.

The last two have the hypothesis `MaxTime < ClockMod \div 2` and speak of the
states in which `now < ClockMod \div 2`: the time, and each time that a message is
delayed to, is in the lower half of the range of the 32 bit clock (some 24.8 days
of milliseconds). Beyond it the order of the priority queue, which compares the
clock's values, is not the order of time; the code does not claim more.
`WakeupsSeen` needs no such hypothesis.

Only model-checked:
- all liveness properties: fairness and `ENABLED` are outside the prover's reach;
- what needs induction over data.

## 5. Not modelled

- Media, codecs, audio and video devices, ICE's transport channel, DTLS, SCTP and
  the rest of WebRTC: some 700,000 lines of upstream code that the library does
  not change. Most of it is signal processing, tables and device I/O. What the
  library needs of it is modelled from its use, as external.
- The signaling client and server: the exported functions create the direct
  conductor, which does not use them.
- MD5 and JSON files: arithmetic and plain I/O.
- Data races below the level of a statement: the unlocked thread map, the
  channel pointer tested and used while another thread clears
  it. They are among the hazards, with the reason.

## 6. Plan

Done: the modules of section 2 with their runs; the theorems of section 4, which
state every invariant and action property that the passing runs check, and the
refinement of `FileDelivery`. What is left to the model checker is liveness.

Next: what of the `FileTransfer` theorems survives a second `SendFile` of a name
once the first has been released, and the two hypotheses on roles and clock in
`Session` and `RtcThread`, where a weaker one may do.
