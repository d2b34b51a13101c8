---------------------------- MODULE DataChannel ----------------------------
(***************************************************************************)
(* webrtc::DataChannel over SCTP, one endpoint, as the P2PData library     *)
(* uses it: ordered, reliable, with the in-band OPEN handshake.            *)
(*                                                                         *)
(* All methods run on the signaling thread.  A method that sends calls     *)
(* provider_->SendData, which blocks in Thread::Send on the worker thread. *)
(* That wait serves the calls other threads make through DataChannelProxy, *)
(* so Send, Close and RegisterObserver run nested, in the middle of a      *)
(* method that waits for the provider.  What the worker posts (received    *)
(* data, ready signals, a remote close) waits for the outermost method to  *)
(* return.  `stack' is the signaling thread's stack of waiting methods.    *)
(***************************************************************************)
EXTENDS Integers, Sequences, FiniteSets, SequencesExt

CONSTANTS
    Role,          \* open_handshake_role: kOpener, kAcker or kNone
    MaxSendQueue,  \* kMaxQueuedSendDataBytes, with packets of one byte
    MaxRecvQueue,  \* kMaxQueuedReceivedDataBytes
    MaxPackets,    \* bound: packets the application sends
    MaxArrivals,   \* bound: packets that arrive
    MaxDepth       \* bound: nesting of proxied calls

ASSUME ChannelAssumption ==
    /\ Role \in {"kOpener", "kAcker", "kNone"}
    /\ MaxSendQueue \in Nat \ {0} /\ MaxRecvQueue \in Nat
    /\ MaxPackets \in Nat /\ MaxArrivals \in Nat /\ MaxDepth \in Nat \ {0}

Packet == 1..MaxPackets   \* in the order of the calls of Send
Control == 0              \* the OPEN or OPEN_ACK message

VARIABLES
    state,      \* state_; kClosing is passed through inside Close
    writable,   \* was_ever_writable_
    observer,   \* observer_ is registered
    connected,  \* connected_to_provider_
    waitAck,    \* waiting_for_open_ack_
    posted,     \* MSG_CHANNELREADY, posted by Init, is in the queue
    qSend, qCtrl, qRecv,   \* queued_send_data_, _control_data_, _received_data_
    stack,      \* methods that wait for the provider, the innermost last
    sent,       \* packets for which Send was called on an open channel
    before,     \* Sends that had returned when a packet's Send was called
    wire,       \* what the provider accepted, oldest first
    arrived, delivered,    \* packets received from the peer, given to OnMessage
    closedBy    \* why Close or DoClose ran first

flags == <<writable, observer, connected, waitAck, posted>>
queues == <<qSend, qCtrl, qRecv>>
history == <<sent, before, arrived, delivered>>
vars == <<state, flags, queues, stack, wire, history, closedBy>>

-----------------------------------------------------------------------------
(* A frame is a loop over the packets it still has to send, the result of  *)
(* the provider for the first of them, and what the method does afterwards. *)

Results == {"SUCCESS", "BLOCK", "ERROR"}

Frame == [kind: {"send", "flush", "ctrl"}, items: Seq(Packet \cup {Control}),
          result: Results \cup {"none"}, then: {"return", "update", "setopen", "senddata"}]

Loop(kind, items, then) ==
    [kind |-> kind, items |-> items, result |-> "none", then |-> then]

Top == stack[Len(stack)]

Idle == stack = <<>>

\* The proxies' calls are served when no method runs or the provider is awaited.
ServesCalls == ~Idle => Top.result # "none" /\ Len(stack) < MaxDepth

Push(f) == Append(stack, f)

Pop == SubSeq(stack, 1, Len(stack) - 1)

Replace(f) == [stack EXCEPT ![Len(stack)] = f]

-----------------------------------------------------------------------------
(* Parts of the methods *)

\* mutant: the channel waits in kClosing for SSRCs that SCTP never sets
CloseBecause_mut(why) ==
    /\ state' = "kClosing"
    /\ connected' = FALSE
    /\ closedBy' = IF closedBy = "none" THEN why ELSE closedBy

\* Close and DoClose: the SCTP channel has no SSRC set, so UpdateState takes
\* it through kClosing to kClosed and disconnects it.
CloseBecause(why) ==
    /\ state' = "kClosed"
    /\ connected' = IF state = "kClosed" THEN connected ELSE FALSE
    /\ closedBy' = IF state # "kClosed" /\ closedBy = "none" THEN why ELSE closedBy

StayOpen == UNCHANGED <<state, connected, closedBy>>

\* mutant: a packet that finds the queue full is dropped, nobody closes
QueueOrClose_mut(p, why) ==
    /\ qSend' = IF Len(qSend) >= MaxSendQueue THEN qSend ELSE Append(qSend, p)
    /\ StayOpen

\* QueueSendDataMessage, and Close when it fails
QueueOrClose(p, why) ==
    IF Len(qSend) >= MaxSendQueue
    THEN CloseBecause(why) /\ UNCHANGED qSend
    ELSE qSend' = Append(qSend, p) /\ StayOpen

\* mutant: the queue waits for the next packet
Deliver_mut_late == UNCHANGED <<delivered, qRecv>>

\* mutant: the queue is given to the observer and kept
Deliver_mut_keep == delivered' = delivered \o qRecv /\ UNCHANGED qRecv

\* DeliverQueuedReceivedData, when the channel was writable and is observed
Deliver == delivered' = delivered \o qRecv /\ qRecv' = <<>>

-----------------------------------------------------------------------------
(* Calls of the application, through DataChannelProxy *)

\* DataChannelProxy does not forward SendQueueSurplus: the caller reads the
\* default of DataChannelInterface, whatever the queue holds.
SendQueueSurplus == 0

\* SessionConnectionObserver::SendData and DataChannel::Send.  A channel that
\* is not open refuses the packet and nothing changes.
Send ==
    /\ ServesCalls
    /\ SendQueueSurplus < 1
    /\ state = "kOpen"
    /\ Len(sent) < MaxPackets
    /\ LET p == Len(sent) + 1
           waiting == {Head(stack[i].items) : i \in {j \in DOMAIN stack : stack[j].kind = "send"}}
       IN /\ sent' = Append(sent, p)
          /\ before' = [before EXCEPT ![p] = ToSet(sent) \ waiting]
          /\ IF qSend # <<>>
             THEN QueueOrClose(p, "sendFull") /\ UNCHANGED stack
             ELSE stack' = Push(Loop("send", <<p>>, "return")) /\ StayOpen /\ UNCHANGED qSend
    /\ UNCHANGED <<writable, observer, waitAck, posted, qCtrl, qRecv, wire, arrived, delivered>>

Close ==
    /\ ServesCalls
    /\ state # "kClosed"
    /\ CloseBecause("application")
    /\ UNCHANGED <<writable, observer, waitAck, posted, queues, stack, wire, history>>

RegisterObserver ==
    /\ ServesCalls
    /\ ~observer
    /\ observer' = TRUE
    /\ IF writable THEN Deliver ELSE UNCHANGED <<delivered, qRecv>>
    /\ UNCHANGED <<state, writable, connected, waitAck, posted, qSend, qCtrl, stack, wire,
                   sent, before, arrived, closedBy>>

UnregisterObserver ==
    /\ ServesCalls
    /\ observer
    /\ observer' = FALSE
    /\ UNCHANGED <<state, writable, connected, waitAck, posted, queues, stack, wire,
                   history, closedBy>>

-----------------------------------------------------------------------------
(* provider_->SendData and the rest of a method that called it *)

\* external: the SCTP transport takes a packet, is blocked, or fails; it does
\* not know the stream of a disconnected channel.
Outcomes == IF Top.kind # "ctrl" /\ ~connected THEN {"ERROR"} ELSE Results

CallProvider(r) ==
    /\ ~Idle /\ Top.result = "none" /\ Top.items # <<>>
    /\ r \in Outcomes
    /\ stack' = Replace([Top EXCEPT !.result = r])
    /\ wire' = IF r = "SUCCESS" THEN Append(wire, Head(Top.items)) ELSE wire
    /\ UNCHANGED <<state, flags, queues, history, closedBy>>

\* mutant: a blocked packet of the swapped queue is taken for sent
Blocked_mut == Top.kind = "send" /\ Top.result = "BLOCK"

Blocked == Top.result = "BLOCK"

NextItem == Replace(Loop(Top.kind, Tail(Top.items), Top.then))

\* SendDataMessage after the call, one turn of SendQueuedDataMessages
ReturnData ==
    /\ ~Idle /\ Top.kind # "ctrl" /\ Top.result # "none"
    /\ IF Blocked THEN QueueOrClose(Head(Top.items), "sendFull")
       ELSE IF Top.result = "ERROR" THEN CloseBecause("error") /\ UNCHANGED qSend
       ELSE StayOpen /\ UNCHANGED qSend
    /\ stack' = NextItem
    /\ UNCHANGED <<writable, observer, waitAck, posted, qCtrl, qRecv, wire, history>>

\* SendControlMessage after the call, one turn of SendQueuedControlMessages
ReturnControl ==
    /\ ~Idle /\ Top.kind = "ctrl" /\ Top.result # "none"
    /\ waitAck' = (waitAck \/ (Top.result = "SUCCESS" /\ Role = "kOpener"))
    /\ qCtrl' = IF Top.result = "BLOCK" THEN Append(qCtrl, Control) ELSE qCtrl
    /\ IF Top.result = "ERROR" THEN CloseBecause("error") ELSE StayOpen
    /\ stack' = NextItem
    /\ UNCHANGED <<writable, observer, posted, qSend, qRecv, wire, history>>

Finished(then) == ~Idle /\ Top.items = <<>> /\ Top.then = then

Return ==
    /\ Finished("return")
    /\ stack' = Pop
    /\ UNCHANGED <<state, flags, queues, wire, history, closedBy>>

\* OnChannelReady calls UpdateState, which starts SendQueuedControlMessages
UpdateState ==
    /\ Finished("update")
    /\ IF state = "kConnecting"
       THEN stack' = Replace(Loop("ctrl", qCtrl, "setopen")) /\ qCtrl' = <<>>
       ELSE stack' = Pop /\ UNCHANGED qCtrl
    /\ UNCHANGED <<state, flags, qSend, qRecv, wire, history, closedBy>>

\* UpdateState goes on: SetState(kOpen) whatever became of the OPEN message
SetOpen ==
    /\ Finished("setopen")
    /\ state' = "kOpen"
    /\ IF observer THEN Deliver ELSE UNCHANGED <<delivered, qRecv>>
    /\ stack' = Pop
    /\ UNCHANGED <<flags, qSend, qCtrl, wire, sent, before, arrived, closedBy>>

\* mutant: the queue is copied, not swapped
Swapped_mut == qSend

\* what PacketQueue::Swap with an empty queue leaves behind
Swapped == <<>>

\* OnChannelReady goes on with SendQueuedDataMessages, which swaps the queue out
SendQueuedData ==
    /\ Finished("senddata")
    /\ stack' = Replace(Loop("flush", qSend, "return"))
    /\ qSend' = Swapped
    /\ UNCHANGED <<state, flags, qCtrl, qRecv, wire, history, closedBy>>

-----------------------------------------------------------------------------
(* What the signaling thread's message loop dispatches *)

OnChannelReady ==
    /\ Idle
    /\ \/ posted /\ posted' = FALSE
       \/ connected /\ UNCHANGED posted
    /\ writable' = TRUE
    /\ IF ~writable
       THEN /\ stack' = Push(Loop("ctrl", IF Role = "kNone" THEN <<>> ELSE <<Control>>, "update"))
            /\ UNCHANGED qCtrl
       ELSE IF state = "kOpen"
       THEN stack' = Push(Loop("ctrl", qCtrl, "senddata")) /\ qCtrl' = <<>>
       ELSE UNCHANGED <<stack, qCtrl>>
    /\ UNCHANGED <<state, observer, connected, waitAck, qSend, qRecv, wire, history, closedBy>>

\* OnDataReceived with a data message
OnDataReceived ==
    /\ Idle /\ connected
    /\ Len(arrived) < MaxArrivals
    /\ LET p == Len(arrived) + 1 IN
       /\ arrived' = Append(arrived, p)
       /\ IF writable /\ observer
          THEN delivered' = Append(delivered, p) /\ StayOpen /\ UNCHANGED qRecv
          ELSE IF Len(qRecv) + 1 > MaxRecvQueue
          THEN qRecv' = <<>> /\ CloseBecause("recvFull") /\ UNCHANGED delivered
          ELSE qRecv' = Append(qRecv, p) /\ StayOpen /\ UNCHANGED delivered
    /\ waitAck' = FALSE
    /\ UNCHANGED <<writable, observer, posted, qSend, qCtrl, stack, wire, sent, before>>

\* OnDataReceived with an OPEN_ACK
OnOpenAck ==
    /\ Idle /\ connected /\ waitAck
    /\ waitAck' = FALSE
    /\ UNCHANGED <<state, writable, observer, connected, posted, queues, stack, wire,
                   history, closedBy>>

\* RemotePeerRequestClose and OnDataEngineClose
DoClose ==
    /\ Idle
    /\ state # "kClosed"
    /\ CloseBecause("peer")
    /\ UNCHANGED <<writable, observer, waitAck, posted, queues, stack, wire, history>>

\* A closed channel has left the list that MediaStreamSignaling notifies.
OnTransportChannelCreated ==
    /\ Idle
    /\ state = "kConnecting" /\ ~connected
    /\ connected' = TRUE
    /\ UNCHANGED <<state, writable, observer, waitAck, posted, queues, stack, wire,
                   history, closedBy>>

-----------------------------------------------------------------------------
Init ==
    /\ state = "kConnecting"
    /\ writable = FALSE /\ observer = FALSE /\ waitAck = FALSE
    /\ connected \in BOOLEAN
    /\ posted \in {FALSE, connected}
    /\ qSend = <<>> /\ qCtrl = <<>> /\ qRecv = <<>>
    /\ stack = <<>>
    /\ sent = <<>> /\ before = [p \in Packet |-> {}]
    /\ wire = <<>> /\ arrived = <<>> /\ delivered = <<>>
    /\ closedBy = "none"

Application == Send \/ Close \/ RegisterObserver \/ UnregisterObserver

Method == \/ \E r \in Results : CallProvider(r)
          \/ ReturnData \/ ReturnControl \/ Return
          \/ UpdateState \/ SetOpen \/ SendQueuedData

MessageLoop == OnChannelReady \/ OnDataReceived \/ OnOpenAck \/ DoClose
                  \/ OnTransportChannelCreated

Next == Application \/ Method \/ MessageLoop

Spec == Init /\ [][Next]_vars

\* A method that runs goes on; the transport becomes ready again and again and
\* does not block or fail for ever.
FairSpec ==
    /\ Spec
    /\ WF_vars(Method) /\ WF_vars(OnChannelReady)
    /\ SF_vars(CallProvider("SUCCESS"))

-----------------------------------------------------------------------------
(* Properties *)

\* Every variable has its type.
TypeOK ==
    /\ state \in {"kConnecting", "kOpen", "kClosed"}
    /\ {writable, observer, connected, waitAck, posted} \subseteq BOOLEAN
    /\ {qSend, qCtrl} \subseteq Seq(Packet \cup {Control})
    /\ qRecv \in Seq(1..MaxArrivals)
    /\ stack \in Seq(Frame)
    /\ sent \in Seq(Packet)
    /\ before \in [Packet -> SUBSET Packet]
    /\ wire \in Seq(Packet \cup {Control})
    /\ {arrived, delivered} \subseteq Seq(1..MaxArrivals)
    /\ closedBy \in {"none", "application", "peer", "sendFull", "recvFull", "error"}

\* packets a frame still holds: the first one is the transport's on SUCCESS
Held(f) == IF f.result = "SUCCESS" THEN Tail(f.items) ELSE f.items

Count(s, p) == Cardinality({i \in DOMAIN s : s[i] = p})

CountHeld(p) ==
    Cardinality(UNION {{k} \X {i \in DOMAIN Held(stack[k]) : Held(stack[k])[i] = p} :
                          k \in DOMAIN stack})

\* Until the channel closes, every packet that Send took is in exactly one
\* place: with the transport, in queued_send_data_, or in the queue that a
\* SendQueuedDataMessages on the stack has swapped out.  Blocked packets are
\* queued again while nested calls of Send use the same queue.
NothingLost ==
    closedBy = "none" =>
        \A i \in DOMAIN sent : Count(wire, sent[i]) + Count(qSend, sent[i]) + CountHeld(sent[i]) = 1

\* The transport is never given a packet twice, closed or not.
NoDuplicate == \A p \in Packet : Count(wire, p) <= 1

\* The observer gets the received packets in the order of their arrival, each
\* once, whenever it registers, and misses none that is not in the queue
\* unless the queue overflowed.
ReceivedInOrder ==
    /\ IsPrefix(delivered, arrived)
    /\ closedBy # "recvFull" => delivered \o qRecv = arrived

\* No received packet is left in the queue of a channel that is open, observed
\* and idle: every path that makes it so delivers the queue.
NothingStuck ==
    Idle /\ writable /\ observer /\ state = "kOpen" => qRecv = <<>>

\* A packet that Send took reaches the transport, unless the channel closes:
\* what was blocked is sent again by a later OnChannelReady.
SentEventually ==
    \A p \in Packet : p \in ToSet(sent) ~> p \in ToSet(wire) \/ closedBy # "none"

\* "True if ordered delivery is required" (datachannelinterface.h:54): a
\* packet does not overtake one whose Send had returned before its own began.
Ordered ==
    \A i, j \in DOMAIN wire : i < j /\ wire[i] # Control => wire[j] \notin before[wire[i]]
=============================================================================
