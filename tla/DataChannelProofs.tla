------------------------- MODULE DataChannelProofs -------------------------
(***************************************************************************)
(* Theorems about DataChannel, for every role, every size of the queues,   *)
(* any number of packets and any depth of nested calls.                    *)
(***************************************************************************)
EXTENDS DataChannel, SequenceTheorems, FiniteSetTheorems, TLAPS

-----------------------------------------------------------------------------
(* The stack of methods *)

\* The innermost method.
LEMMA TopFrame ==
    ASSUME stack \in Seq(Frame), ~Idle
    PROVE  /\ Len(stack) \in Nat \ {0} /\ Len(stack) \in DOMAIN stack
           /\ DOMAIN stack = 1..Len(stack)
           /\ Top \in Frame
           /\ Top.items \in Seq(Packet \cup {Control})
           /\ Top.items # <<>> => /\ Head(Top.items) \in Packet \cup {Control}
                                  /\ Tail(Top.items) \in Seq(Packet \cup {Control})
  <1>1. Len(stack) \in Nat \ {0} /\ DOMAIN stack = 1..Len(stack)
    BY EmptySeq, LenProperties DEF Idle
  <1>2. Top \in Frame
    BY <1>1, ElementOfSeq DEF Top
  <1>3. Top.items \in Seq(Packet \cup {Control})
    BY <1>2 DEF Frame
  <1> QED
    BY <1>1, <1>2, <1>3, HeadTailProperties

\* A sequence with an element is not empty.
LEMMA NotEmpty == \A s : Len(s) = 1 => s # <<>>
  <1>1. Len(<<>>) = 0
    OBVIOUS
  <1> QED
    BY <1>1

\* A method that starts, and waits for the provider.
LEMMA PushFrame ==
    ASSUME stack \in Seq(Frame), NEW f \in Frame
    PROVE  /\ Push(f) \in Seq(Frame) /\ Len(Push(f)) = Len(stack) + 1
           /\ DOMAIN Push(f) = 1..(Len(stack) + 1)
           /\ \A k \in 1..Len(stack) : Push(f)[k] = stack[k]
           /\ Push(f)[Len(stack) + 1] = f
  BY AppendProperties, LenProperties DEF Push

\* A method that returns.
LEMMA PopFrame ==
    ASSUME stack \in Seq(Frame), ~Idle
    PROVE  /\ Pop \in Seq(Frame) /\ Len(Pop) = Len(stack) - 1
           /\ DOMAIN Pop = 1..(Len(stack) - 1)
           /\ \A k \in 1..(Len(stack) - 1) : Pop[k] = stack[k]
  <1>1. Len(stack) \in Nat \ {0}
    BY TopFrame
  <1>2. \A k \in 1..(Len(stack) - 1) : stack[k] \in Frame
    BY <1>1, ElementOfSeq
  <1>3. /\ Pop \in Seq(Frame) /\ Len(Pop) = Len(stack) - 1
        /\ \A k \in 1..(Len(stack) - 1) : Pop[k] = stack[k]
    <2> DEFINE n == Len(stack) - 1
    <2>1. n \in Nat
      BY <1>1
    <2> HIDE DEF n
    <2>2. /\ SubSeq(stack, 1, n) \in Seq(Frame)
          /\ Len(SubSeq(stack, 1, n)) = IF 1 <= n THEN n - 1 + 1 ELSE 0
          /\ \A k \in 1..(n - 1 + 1) : SubSeq(stack, 1, n)[k] = stack[1 + k - 1]
      BY <1>2, <2>1, SubSeqProperties DEF n
    <2>3. Len(SubSeq(stack, 1, n)) = n /\ \A k \in 1..n : SubSeq(stack, 1, n)[k] = stack[k]
      BY <2>1, <2>2
    <2> QED
      BY <2>2, <2>3 DEF Pop, n
  <1> QED
    BY <1>3, LenProperties

\* A method that goes on.
LEMMA ReplaceFrame ==
    ASSUME stack \in Seq(Frame), ~Idle, NEW f \in Frame
    PROVE  /\ Replace(f) \in Seq(Frame) /\ Len(Replace(f)) = Len(stack)
           /\ DOMAIN Replace(f) = 1..Len(stack)
           /\ \A k \in 1..(Len(stack) - 1) : Replace(f)[k] = stack[k]
           /\ Replace(f)[Len(stack)] = f
  <1>1. Len(stack) \in Nat \ {0} /\ Len(stack) \in 1..Len(stack)
    BY TopFrame
  <1> QED
    BY <1>1, ExceptSeq, LenProperties DEF Replace

\* A loop that starts is a frame.
LEMMA LoopFrame ==
    ASSUME NEW kind \in {"send", "flush", "ctrl"}, NEW items \in Seq(Packet \cup {Control}),
           NEW then \in {"return", "update", "setopen", "senddata"}
    PROVE  Loop(kind, items, then) \in Frame
  BY DEF Loop, Frame

\* The innermost loop without its first item.
LEMMA NextItemFrame ==
    ASSUME stack \in Seq(Frame), ~Idle, Top.items # <<>>
    PROVE  /\ Loop(Top.kind, Tail(Top.items), Top.then) \in Frame
           /\ NextItem = Replace(Loop(Top.kind, Tail(Top.items), Top.then))
  <1>1. /\ Top.kind \in {"send", "flush", "ctrl"}
        /\ Top.then \in {"return", "update", "setopen", "senddata"}
        /\ Tail(Top.items) \in Seq(Packet \cup {Control})
    BY TopFrame DEF Frame
  <1> QED
    BY <1>1, LoopFrame DEF NextItem

-----------------------------------------------------------------------------
(* Types, and what the frames and queues hold *)

\* A frame has a result for its first item only; control messages and packets
\* do not mix.
FrameOK(f) ==
    /\ f.result # "none" => f.items # <<>>
    /\ f.items \in (IF f.kind = "ctrl" THEN Seq({Control}) ELSE Seq(Packet))

\* A closed channel is disconnected, for ever: UpdateState may open it again,
\* but nothing connects it.
ClosedDisconnected ==
    /\ state = "kClosed" => closedBy # "none"
    /\ closedBy # "none" => ~connected /\ state # "kConnecting"

\* Sends are numbered in the order of the calls.
SentInOrder == \A i \in 1..Len(sent) : sent[i] = i

TypeInv ==
    /\ TypeOK
    /\ qSend \in Seq(Packet) /\ qCtrl \in Seq({Control})
    /\ \A k \in 1..Len(stack) : FrameOK(stack[k])
    /\ Len(sent) <= MaxPackets /\ SentInOrder
    /\ ClosedDisconnected
    /\ Len(arrived) <= MaxArrivals

\* The stack holds frames, each with what its kind may hold.
StackOK(s) == s \in Seq(Frame) /\ \A k \in 1..Len(s) : FrameOK(s[k])

\* Whatever a step does to the stack keeps it so.
LEMMA StackKept ==
    ASSUME StackOK(stack)
    PROVE  /\ ~Idle => StackOK(Pop)
           /\ \A f \in Frame : FrameOK(f) => /\ StackOK(Push(f))
                                             /\ ~Idle => StackOK(Replace(f))
  <1>0. stack \in Seq(Frame) /\ Len(stack) \in Nat
    BY LenProperties DEF StackOK
  <1>1. ~Idle => StackOK(Pop)
    <2> SUFFICES ASSUME ~Idle PROVE StackOK(Pop)
      OBVIOUS
    <2>1. \A k \in 1..Len(Pop) : k \in 1..Len(stack) /\ Pop[k] = stack[k]
      BY <1>0, PopFrame
    <2> QED
      BY <1>0, <2>1, PopFrame DEF StackOK
  <1>2. ASSUME NEW f \in Frame, FrameOK(f) PROVE StackOK(Push(f))
    <2>1. \A k \in 1..Len(Push(f)) : Push(f)[k] = f \/ (k \in 1..Len(stack) /\ Push(f)[k] = stack[k])
      BY <1>0, PushFrame
    <2> QED
      BY <1>0, <1>2, <2>1, PushFrame DEF StackOK
  <1>3. ASSUME NEW f \in Frame, FrameOK(f), ~Idle PROVE StackOK(Replace(f))
    <2>1. \A k \in 1..Len(Replace(f)) :
             Replace(f)[k] = f \/ (k \in 1..Len(stack) /\ Replace(f)[k] = stack[k])
      BY <1>0, <1>3, ReplaceFrame
    <2> QED
      BY <1>0, <1>3, <2>1, ReplaceFrame DEF StackOK
  <1> QED
    BY <1>1, <1>2, <1>3

\* A loop over control messages or over packets, before its first item is sent.
LEMMA LoopOK ==
    ASSUME NEW then \in {"return", "update", "setopen", "senddata"}
    PROVE  /\ \A items \in Seq({Control}) :
                 Loop("ctrl", items, then) \in Frame /\ FrameOK(Loop("ctrl", items, then))
           /\ \A items \in Seq(Packet) : \A kind \in {"send", "flush"} :
                 Loop(kind, items, then) \in Frame /\ FrameOK(Loop(kind, items, then))
  <1>1. /\ \A items \in Seq({Control}) : items \in Seq(Packet \cup {Control})
        /\ \A items \in Seq(Packet) : items \in Seq(Packet \cup {Control})
    BY SeqMonotonic
  <1> QED
    BY <1>1, LoopFrame DEF Loop, FrameOK

\* The innermost loop goes on with its next item.
LEMMA NextItemOK ==
    ASSUME StackOK(stack), ~Idle, Top.result # "none"
    PROVE  /\ StackOK(NextItem)
           /\ Top.items # <<>>
           /\ Head(Top.items) \in (IF Top.kind = "ctrl" THEN {Control} ELSE Packet)
  <1>1. /\ stack \in Seq(Frame) /\ FrameOK(Top) /\ Top \in Frame
    BY TopFrame DEF StackOK, Top
  <1>2. Top.items # <<>>
    BY <1>1 DEF FrameOK
  <1> DEFINE T == IF Top.kind = "ctrl" THEN {Control} ELSE Packet
  <1>3. Top.items \in Seq(T)
    BY <1>1 DEF FrameOK
  <1>4. Head(Top.items) \in T /\ Tail(Top.items) \in Seq(T)
    BY <1>2, <1>3, HeadTailProperties
  <1>5. /\ Loop(Top.kind, Tail(Top.items), Top.then) \in Frame
        /\ NextItem = Replace(Loop(Top.kind, Tail(Top.items), Top.then))
    BY <1>1, <1>2, NextItemFrame
  <1>6. FrameOK(Loop(Top.kind, Tail(Top.items), Top.then))
    BY <1>4 DEF Loop, FrameOK
  <1> QED
    BY <1>2, <1>4, <1>5, <1>6, StackKept

-----------------------------------------------------------------------------
(* Every step keeps the types *)

\* What the parts of the methods leave.
LEMMA CloseType ==
    ASSUME TypeInv, NEW why \in {"application", "peer", "sendFull", "recvFull", "error"},
           CloseBecause(why)
    PROVE  /\ state' = "kClosed" /\ connected' \in BOOLEAN
           /\ closedBy' \in {"application", "peer", "sendFull", "recvFull", "error"}
           /\ ClosedDisconnected'
  BY DEF CloseBecause, TypeInv, TypeOK, ClosedDisconnected

LEMMA StayType ==
    ASSUME TypeInv, StayOpen
    PROVE  /\ state' \in {"kConnecting", "kOpen", "kClosed"} /\ connected' \in BOOLEAN
           /\ closedBy' \in {"none", "application", "peer", "sendFull", "recvFull", "error"}
           /\ ClosedDisconnected'
  BY DEF StayOpen, TypeInv, TypeOK, ClosedDisconnected

LEMMA QueueType ==
    ASSUME TypeInv, NEW p \in Packet, QueueOrClose(p, "sendFull")
    PROVE  /\ state' \in {"kConnecting", "kOpen", "kClosed"} /\ connected' \in BOOLEAN
           /\ closedBy' \in {"none", "application", "peer", "sendFull", "recvFull", "error"}
           /\ ClosedDisconnected'
           /\ qSend' \in Seq(Packet)
  <1>1. qSend \in Seq(Packet) /\ Append(qSend, p) \in Seq(Packet)
    BY AppendProperties DEF TypeInv
  <1> QED
    BY <1>1, CloseType, StayType DEF QueueOrClose

LEMMA DeliverType ==
    ASSUME TypeInv, Deliver
    PROVE  delivered' \in Seq(1..MaxArrivals) /\ qRecv' \in Seq(1..MaxArrivals)
  <1>1. delivered \in Seq(1..MaxArrivals) /\ qRecv \in Seq(1..MaxArrivals)
    BY DEF TypeInv, TypeOK
  <1> QED
    BY <1>1, ConcatProperties, EmptySeq DEF Deliver

\* The types follow from the types of the parts.
LEMMA TypeParts ==
    ASSUME state' \in {"kConnecting", "kOpen", "kClosed"},
           writable' \in BOOLEAN, observer' \in BOOLEAN, connected' \in BOOLEAN,
           waitAck' \in BOOLEAN, posted' \in BOOLEAN,
           qSend' \in Seq(Packet), qCtrl' \in Seq({Control}), qRecv' \in Seq(1..MaxArrivals),
           StackOK(stack'),
           sent' \in Seq(Packet), before' \in [Packet -> SUBSET Packet],
           wire' \in Seq(Packet \cup {Control}),
           arrived' \in Seq(1..MaxArrivals), delivered' \in Seq(1..MaxArrivals),
           closedBy' \in {"none", "application", "peer", "sendFull", "recvFull", "error"},
           Len(sent') <= MaxPackets, SentInOrder', ClosedDisconnected',
           Len(arrived') <= MaxArrivals
    PROVE  TypeInv'
  <1>1. qSend' \in Seq(Packet \cup {Control}) /\ qCtrl' \in Seq(Packet \cup {Control})
    BY SeqMonotonic
  <1> QED
    BY <1>1 DEF TypeInv, TypeOK, StackOK

LEMMA TypeNow ==
    ASSUME TypeInv
    PROVE  /\ state \in {"kConnecting", "kOpen", "kClosed"}
           /\ writable \in BOOLEAN /\ observer \in BOOLEAN /\ connected \in BOOLEAN
           /\ waitAck \in BOOLEAN /\ posted \in BOOLEAN
           /\ qSend \in Seq(Packet) /\ qCtrl \in Seq({Control}) /\ qRecv \in Seq(1..MaxArrivals)
           /\ StackOK(stack)
           /\ sent \in Seq(Packet) /\ before \in [Packet -> SUBSET Packet]
           /\ wire \in Seq(Packet \cup {Control})
           /\ arrived \in Seq(1..MaxArrivals) /\ delivered \in Seq(1..MaxArrivals)
           /\ closedBy \in {"none", "application", "peer", "sendFull", "recvFull", "error"}
           /\ Len(sent) <= MaxPackets /\ SentInOrder /\ ClosedDisconnected
           /\ Len(arrived) <= MaxArrivals
  BY DEF TypeInv, TypeOK, StackOK

LEMMA TypeInit == Init => TypeInv
  <1> SUFFICES ASSUME Init PROVE TypeInv
    OBVIOUS
  <1>1. MaxPackets \in Nat /\ MaxArrivals \in Nat
    BY ChannelAssumption
  <1>2. <<>> \in Seq(Packet) /\ <<>> \in Seq({Control}) /\ <<>> \in Seq(1..MaxArrivals)
        /\ <<>> \in Seq(Frame) /\ <<>> \in Seq(Packet \cup {Control}) /\ Len(<<>>) = 0
    BY EmptySeq
  <1>3. TypeOK
    BY <1>1, <1>2 DEF Init, TypeOK
  <1> QED
    BY <1>1, <1>2, <1>3 DEF Init, TypeInv, SentInOrder, ClosedDisconnected

\* One more packet is sent: it has the next number.
LEMMA NextPacket ==
    ASSUME TypeInv, Len(sent) < MaxPackets
    PROVE  /\ Len(sent) + 1 \in Packet
           /\ Append(sent, Len(sent) + 1) \in Seq(Packet)
           /\ Len(Append(sent, Len(sent) + 1)) = Len(sent) + 1
           /\ \A i \in 1..(Len(sent) + 1) : Append(sent, Len(sent) + 1)[i] = i
  <1>1. sent \in Seq(Packet) /\ SentInOrder /\ Len(sent) \in Nat /\ MaxPackets \in Nat
    BY TypeNow, LenProperties, ChannelAssumption
  <1>2. Len(sent) + 1 \in Packet
    BY <1>1 DEF Packet
  <1>3. /\ Append(sent, Len(sent) + 1) \in Seq(Packet)
        /\ Len(Append(sent, Len(sent) + 1)) = Len(sent) + 1
        /\ \A i \in 1..Len(sent) : Append(sent, Len(sent) + 1)[i] = sent[i]
        /\ Append(sent, Len(sent) + 1)[Len(sent) + 1] = Len(sent) + 1
    BY <1>1, <1>2, AppendProperties
  <1> QED
    BY <1>1, <1>2, <1>3 DEF SentInOrder

LEMMA SendType == TypeInv /\ Send => TypeInv'
  <1> SUFFICES ASSUME TypeInv, Send PROVE TypeInv'
    OBVIOUS
  <1> USE TypeNow
  <1> DEFINE p == Len(sent) + 1
  <1>1. /\ p \in Packet /\ sent' = Append(sent, p) /\ sent' \in Seq(Packet)
        /\ Len(sent') <= MaxPackets /\ SentInOrder'
    <2>1. Len(sent) < MaxPackets /\ sent' = Append(sent, Len(sent) + 1)
      BY DEF Send
    <2>2. Len(sent) \in Nat /\ MaxPackets \in Nat
      BY LenProperties, ChannelAssumption
    <2> QED
      BY <2>1, <2>2, NextPacket DEF SentInOrder
  <1>2. before' \in [Packet -> SUBSET Packet]
    <2>1. ToSet(sent) \in SUBSET Packet
      BY ElementOfSeq, LenProperties DEF ToSet
    <2> QED
      BY <1>1, <2>1 DEF Send
  <1>3. UNCHANGED <<writable, observer, waitAck, posted, qCtrl, qRecv, wire, arrived, delivered>>
    BY DEF Send
  <1>4. CASE qSend # <<>>
    <2>1. QueueOrClose(p, "sendFull") /\ UNCHANGED stack
      BY <1>4 DEF Send
    <2> HIDE DEF p
    <2>2. /\ state' \in {"kConnecting", "kOpen", "kClosed"} /\ connected' \in BOOLEAN
          /\ closedBy' \in {"none", "application", "peer", "sendFull", "recvFull", "error"}
          /\ ClosedDisconnected' /\ qSend' \in Seq(Packet)
      BY <1>1, <2>1, QueueType
    <2> QED
      BY <1>1, <1>2, <1>3, <2>1, <2>2, TypeParts
  <1>5. CASE qSend = <<>>
    <2>1. stack' = Push(Loop("send", <<p>>, "return")) /\ StayOpen /\ UNCHANGED qSend
      BY <1>5 DEF Send
    <2> HIDE DEF p
    <2>2. <<p>> \in Seq(Packet)
      BY <1>1
    <2>3. StackOK(stack')
      BY <2>1, <2>2, LoopOK, StackKept
    <2>4. /\ state' \in {"kConnecting", "kOpen", "kClosed"} /\ connected' \in BOOLEAN
          /\ closedBy' \in {"none", "application", "peer", "sendFull", "recvFull", "error"}
          /\ ClosedDisconnected'
      BY <2>1, StayType
    <2> QED
      BY <1>1, <1>2, <1>3, <2>1, <2>3, <2>4, TypeParts
  <1> QED
    BY <1>4, <1>5

\* The other calls of the application.
LEMMA ApplicationType == TypeInv /\ Application => TypeInv'
  <1> SUFFICES ASSUME TypeInv, Application PROVE TypeInv'
    OBVIOUS
  <1> USE TypeNow
  <1>1. CASE Send
    BY <1>1, SendType
  <1>2. CASE Close
    <2>1. CloseBecause("application")
          /\ UNCHANGED <<writable, observer, waitAck, posted, queues, stack, wire, history>>
      BY <1>2 DEF Close
    <2>2. /\ state' = "kClosed" /\ connected' \in BOOLEAN
          /\ closedBy' \in {"application", "peer", "sendFull", "recvFull", "error"}
          /\ ClosedDisconnected'
      BY <2>1, CloseType
    <2>3. SentInOrder'
      BY <2>1 DEF history, SentInOrder
    <2> QED
      BY <2>1, <2>2, <2>3, TypeParts DEF queues, history
  <1>3. CASE RegisterObserver
    <2>1. /\ observer' = TRUE
          /\ UNCHANGED <<state, writable, connected, waitAck, posted, qSend, qCtrl, stack, wire,
                         sent, before, arrived, closedBy>>
      BY <1>3 DEF RegisterObserver
    <2>2. delivered' \in Seq(1..MaxArrivals) /\ qRecv' \in Seq(1..MaxArrivals)
      BY <1>3, DeliverType DEF RegisterObserver
    <2>3. SentInOrder' /\ ClosedDisconnected'
      BY <2>1 DEF SentInOrder, ClosedDisconnected
    <2> QED
      BY <2>1, <2>2, <2>3, TypeParts
  <1>4. CASE UnregisterObserver
    <2>1. /\ observer' = FALSE
          /\ UNCHANGED <<state, writable, connected, waitAck, posted, queues, stack, wire,
                         history, closedBy>>
      BY <1>4 DEF UnregisterObserver
    <2>2. SentInOrder' /\ ClosedDisconnected'
      BY <2>1 DEF history, SentInOrder, ClosedDisconnected
    <2> QED
      BY <2>1, <2>2, TypeParts DEF queues, history
  <1> QED
    BY <1>1, <1>2, <1>3, <1>4 DEF Application

\* The provider answers, and a loop goes on with its next item.
LEMMA LoopType ==
    ASSUME TypeInv, (\E r \in Results : CallProvider(r)) \/ ReturnData \/ ReturnControl
    PROVE  TypeInv'
  <1> USE TypeNow
  <1>0. stack \in Seq(Frame)
    BY DEF StackOK
  <1>1. ASSUME NEW r \in Results, CallProvider(r) PROVE TypeInv'
    <2>1. /\ ~Idle /\ Top.items # <<>>
          /\ stack' = Replace([Top EXCEPT !.result = r])
          /\ wire' = IF r = "SUCCESS" THEN Append(wire, Head(Top.items)) ELSE wire
          /\ UNCHANGED <<state, flags, queues, history, closedBy>>
      BY <1>1 DEF CallProvider
    <2>2. Top \in Frame /\ FrameOK(Top) /\ Head(Top.items) \in Packet \cup {Control}
      BY <1>0, <2>1, TopFrame DEF StackOK, Top
    <2>3. [Top EXCEPT !.result = r] \in Frame /\ FrameOK([Top EXCEPT !.result = r])
      <3>1. [Top EXCEPT !.result = r] \in Frame
        BY <2>2 DEF Frame, Results
      <3>2. /\ [Top EXCEPT !.result = r].items = Top.items
            /\ [Top EXCEPT !.result = r].kind = Top.kind
        BY <2>2 DEF Frame
      <3> QED
        BY <2>1, <2>2, <3>1, <3>2 DEF FrameOK
    <2>4. StackOK(stack')
      BY <2>1, <2>3, StackKept
    <2>5. wire' \in Seq(Packet \cup {Control})
      BY <2>1, <2>2, AppendProperties
    <2>6. SentInOrder' /\ ClosedDisconnected'
      BY <2>1 DEF flags, history, SentInOrder, ClosedDisconnected
    <2> QED
      BY <2>1, <2>4, <2>5, <2>6, TypeParts DEF flags, queues, history
  <1>2. CASE ReturnData
    <2>1. /\ ~Idle /\ Top.result # "none" /\ Top.kind # "ctrl" /\ stack' = NextItem
          /\ UNCHANGED <<writable, observer, waitAck, posted, qCtrl, qRecv, wire, history>>
      BY <1>2 DEF ReturnData
    <2>2. StackOK(stack') /\ Head(Top.items) \in Packet
      BY <2>1, NextItemOK
    <2>3. /\ state' \in {"kConnecting", "kOpen", "kClosed"} /\ connected' \in BOOLEAN
          /\ closedBy' \in {"none", "application", "peer", "sendFull", "recvFull", "error"}
          /\ ClosedDisconnected' /\ qSend' \in Seq(Packet)
      <3>1. CASE Blocked
        BY <1>2, <2>2, <3>1, QueueType DEF ReturnData
      <3>2. CASE ~Blocked /\ Top.result = "ERROR"
        BY <1>2, <3>2, CloseType DEF ReturnData
      <3>3. CASE ~Blocked /\ Top.result # "ERROR"
        BY <1>2, <3>3, StayType DEF ReturnData
      <3> QED
        BY <3>1, <3>2, <3>3
    <2>4. SentInOrder'
      BY <2>1 DEF history, SentInOrder
    <2> QED
      BY <2>1, <2>2, <2>3, <2>4, TypeParts DEF history
  <1>3. CASE ReturnControl
    <2>1. /\ ~Idle /\ Top.result # "none" /\ stack' = NextItem /\ waitAck' \in BOOLEAN
          /\ qCtrl' = IF Top.result = "BLOCK" THEN Append(qCtrl, Control) ELSE qCtrl
          /\ UNCHANGED <<writable, observer, posted, qSend, qRecv, wire, history>>
      BY <1>3 DEF ReturnControl
    <2>2. StackOK(stack') /\ qCtrl' \in Seq({Control})
      BY <2>1, NextItemOK, AppendProperties
    <2>3. /\ state' \in {"kConnecting", "kOpen", "kClosed"} /\ connected' \in BOOLEAN
          /\ closedBy' \in {"none", "application", "peer", "sendFull", "recvFull", "error"}
          /\ ClosedDisconnected'
      <3>1. CASE Top.result = "ERROR"
        BY <1>3, <3>1, CloseType DEF ReturnControl
      <3>2. CASE Top.result # "ERROR"
        BY <1>3, <3>2, StayType DEF ReturnControl
      <3> QED
        BY <3>1, <3>2
    <2>4. SentInOrder'
      BY <2>1 DEF history, SentInOrder
    <2> QED
      BY <2>1, <2>2, <2>3, <2>4, TypeParts DEF history
  <1> QED
    BY <1>1, <1>2, <1>3

\* A loop is done, and its method goes on or returns.
LEMMA FinishType ==
    ASSUME TypeInv, Return \/ UpdateState \/ SetOpen \/ SendQueuedData
    PROVE  TypeInv'
  <1> USE TypeNow
  <1>0. ~Idle /\ <<>> \in Seq({Control}) /\ <<>> \in Seq(Packet)
    BY EmptySeq DEF Return, UpdateState, SetOpen, SendQueuedData, Finished
  <1>1. CASE Return
    <2>1. StackOK(stack')
      BY <1>0, <1>1, StackKept DEF Return
    <2>2. SentInOrder' /\ ClosedDisconnected'
      BY <1>1 DEF Return, flags, history, SentInOrder, ClosedDisconnected
    <2> QED
      BY <1>1, <2>1, <2>2, TypeParts DEF Return, flags, queues, history
  <1>2. CASE UpdateState
    <2>1. StackOK(stack') /\ qCtrl' \in Seq({Control})
      BY <1>0, <1>2, StackKept, LoopOK DEF UpdateState
    <2>2. SentInOrder' /\ ClosedDisconnected'
      BY <1>2 DEF UpdateState, flags, history, SentInOrder, ClosedDisconnected
    <2> QED
      BY <1>2, <2>1, <2>2, TypeParts DEF UpdateState, flags, history
  <1>3. CASE SetOpen
    <2>1. StackOK(stack') /\ state' = "kOpen"
          /\ UNCHANGED <<flags, qSend, qCtrl, wire, sent, before, arrived, closedBy>>
      BY <1>0, <1>3, StackKept DEF SetOpen
    <2>2. delivered' \in Seq(1..MaxArrivals) /\ qRecv' \in Seq(1..MaxArrivals)
      BY <1>3, DeliverType DEF SetOpen
    <2>3. SentInOrder' /\ ClosedDisconnected'
      BY <2>1 DEF flags, SentInOrder, ClosedDisconnected
    <2> QED
      BY <2>1, <2>2, <2>3, TypeParts DEF flags
  <1>4. CASE SendQueuedData
    <2>1. StackOK(stack') /\ qSend' = <<>>
      BY <1>0, <1>4, StackKept, LoopOK DEF SendQueuedData, Swapped
    <2>2. SentInOrder' /\ ClosedDisconnected'
      BY <1>4 DEF SendQueuedData, flags, history, SentInOrder, ClosedDisconnected
    <2> QED
      BY <1>0, <1>4, <2>1, <2>2, TypeParts DEF SendQueuedData, flags, history
  <1> QED
    BY <1>1, <1>2, <1>3, <1>4

\* What the message loop dispatches.
LEMMA MessageLoopType == TypeInv /\ MessageLoop => TypeInv'
  <1> SUFFICES ASSUME TypeInv, MessageLoop PROVE TypeInv'
    OBVIOUS
  <1> USE TypeNow
  <1>0. <<>> \in Seq({Control}) /\ <<Control>> \in Seq({Control}) /\ <<>> \in Seq(1..MaxArrivals)
    BY EmptySeq
  <1>1. CASE OnChannelReady
    <2>1. /\ posted' \in BOOLEAN /\ writable' = TRUE
          /\ UNCHANGED <<state, observer, connected, waitAck, qSend, qRecv, wire, history, closedBy>>
      BY <1>1 DEF OnChannelReady
    <2>2. StackOK(stack') /\ qCtrl' \in Seq({Control})
      <3>1. CASE ~writable
        BY <1>0, <1>1, <3>1, StackKept, LoopOK DEF OnChannelReady
      <3>2. CASE writable
        BY <1>0, <1>1, <3>2, StackKept, LoopOK DEF OnChannelReady
      <3> QED
        BY <3>1, <3>2
    <2>3. SentInOrder' /\ ClosedDisconnected'
      BY <2>1 DEF history, SentInOrder, ClosedDisconnected
    <2> QED
      BY <2>1, <2>2, <2>3, TypeParts DEF history
  <1>2. CASE OnDataReceived
    <2>1. /\ waitAck' = FALSE
          /\ UNCHANGED <<writable, observer, posted, qSend, qCtrl, stack, wire, sent, before>>
      BY <1>2 DEF OnDataReceived
    <2> DEFINE p == Len(arrived) + 1
    <2>2. Len(arrived) \in Nat /\ MaxArrivals \in Nat /\ Len(arrived) < MaxArrivals
      BY <1>2, LenProperties, ChannelAssumption DEF OnDataReceived
    <2>3. p \in 1..MaxArrivals /\ arrived' = Append(arrived, p)
      BY <1>2, <2>2 DEF OnDataReceived
    <2>4. /\ arrived' \in Seq(1..MaxArrivals) /\ Len(arrived') <= MaxArrivals
          /\ Append(delivered, p) \in Seq(1..MaxArrivals)
          /\ Append(qRecv, p) \in Seq(1..MaxArrivals)
      BY <2>2, <2>3, AppendProperties
    <2>5. /\ delivered' \in {delivered, Append(delivered, p)}
          /\ qRecv' \in {qRecv, <<>>, Append(qRecv, p)}
          /\ StayOpen \/ CloseBecause("recvFull")
      BY <1>2 DEF OnDataReceived
    <2>6. delivered' \in Seq(1..MaxArrivals) /\ qRecv' \in Seq(1..MaxArrivals)
      BY <1>0, <2>4, <2>5
    <2>7. /\ state' \in {"kConnecting", "kOpen", "kClosed"} /\ connected' \in BOOLEAN
          /\ closedBy' \in {"none", "application", "peer", "sendFull", "recvFull", "error"}
          /\ ClosedDisconnected'
      BY <2>5, CloseType, StayType
    <2>8. SentInOrder'
      BY <2>1 DEF SentInOrder
    <2> QED
      BY <2>1, <2>4, <2>6, <2>7, <2>8, TypeParts
  <1>3. CASE OnOpenAck
    <2>1. SentInOrder' /\ ClosedDisconnected'
      BY <1>3 DEF OnOpenAck, history, SentInOrder, ClosedDisconnected
    <2> QED
      BY <1>3, <2>1, TypeParts DEF OnOpenAck, queues, history
  <1>4. CASE DoClose
    <2>1. /\ CloseBecause("peer")
          /\ UNCHANGED <<writable, observer, waitAck, posted, queues, stack, wire, history>>
      BY <1>4 DEF DoClose
    <2>2. /\ state' = "kClosed" /\ connected' \in BOOLEAN
          /\ closedBy' \in {"application", "peer", "sendFull", "recvFull", "error"}
          /\ ClosedDisconnected'
      BY <2>1, CloseType
    <2>3. SentInOrder'
      BY <2>1 DEF history, SentInOrder
    <2> QED
      BY <2>1, <2>2, <2>3, TypeParts DEF queues, history
  <1>5. CASE OnTransportChannelCreated
    <2>1. SentInOrder' /\ ClosedDisconnected'
      BY <1>5 DEF OnTransportChannelCreated, history, SentInOrder, ClosedDisconnected
    <2> QED
      BY <1>5, <2>1, TypeParts DEF OnTransportChannelCreated, queues, history
  <1> QED
    BY <1>1, <1>2, <1>3, <1>4, <1>5 DEF MessageLoop

LEMMA TypeStep == TypeInv /\ [Next]_vars => TypeInv'
  <1> SUFFICES ASSUME TypeInv, [Next]_vars PROVE TypeInv'
    OBVIOUS
  <1>1. CASE Application
    BY <1>1, ApplicationType
  <1>2. CASE Method
    BY <1>2, LoopType, FinishType DEF Method
  <1>3. CASE MessageLoop
    BY <1>3, MessageLoopType
  <1>4. CASE UNCHANGED vars
    <2>1. SentInOrder' /\ ClosedDisconnected'
      BY <1>4, TypeNow DEF vars, flags, history, SentInOrder, ClosedDisconnected
    <2> QED
      BY <1>4, <2>1, TypeNow, TypeParts DEF vars, flags, queues, history
  <1> QED
    BY <1>1, <1>2, <1>3, <1>4 DEF Next

LEMMA TypeAlways == Spec => []TypeInv
  BY TypeInit, TypeStep, PTL DEF Spec

\* Every variable of the data channel has its type: a frame of the signaling
\* thread's stack holds packets or control messages, never both, and closes,
\* nested calls and re-queued packets leave no queue with anything else.
THEOREM TypeCorrect == Spec => []TypeOK
  <1>1. TypeInv => TypeOK
    BY DEF TypeInv
  <1> QED
    BY <1>1, TypeAlways, PTL

-----------------------------------------------------------------------------
(* The receive side *)

\* What was delivered is what arrived first.
DeliveredFirst ==
    /\ Len(delivered) <= Len(arrived)
    /\ \A i \in 1..Len(delivered) : delivered[i] = arrived[i]

\* A channel that was never writable has no method that waits and is not open.
OpenIsWritable == state = "kOpen" \/ ~Idle => writable

\* A channel that was writable leaves kConnecting in the OnChannelReady that
\* found it so: until then that method is the only one on the stack.
ConnectingWaits ==
    state = "kConnecting" => /\ writable => ~Idle
                             /\ ~Idle => Len(stack) = 1 /\ Top.then \in {"update", "setopen"}

\* An open channel keeps nothing from its observer.
OpenDelivers == writable /\ observer /\ state = "kOpen" => qRecv = <<>>

ReceiveInv ==
    /\ OpenIsWritable /\ ConnectingWaits /\ OpenDelivers
    /\ DeliveredFirst
    /\ closedBy = "recvFull" => qRecv = <<>>
    /\ closedBy # "recvFull" => delivered \o qRecv = arrived

\* The queue goes to the observer.
LEMMA DeliverReceive ==
    ASSUME TypeInv, ReceiveInv, Deliver, UNCHANGED <<arrived, closedBy>>
    PROVE  /\ DeliveredFirst' /\ qRecv' = <<>>
           /\ closedBy' # "recvFull" => delivered' \o qRecv' = arrived'
  <1>1. /\ delivered \in Seq(1..MaxArrivals) /\ qRecv \in Seq(1..MaxArrivals)
        /\ arrived \in Seq(1..MaxArrivals)
        /\ delivered' = delivered \o qRecv /\ qRecv' = <<>>
    BY TypeNow DEF Deliver
  <1>2. CASE closedBy = "recvFull"
    <2>1. delivered \o qRecv = delivered
      BY <1>1, <1>2, ConcatEmptySeq DEF ReceiveInv
    <2> QED
      BY <1>1, <1>2, <2>1 DEF ReceiveInv, DeliveredFirst
  <1>3. CASE closedBy # "recvFull"
    <2>1. delivered' = arrived /\ arrived \o <<>> = arrived
      BY <1>1, <1>3, ConcatEmptySeq DEF ReceiveInv
    <2>2. Len(arrived) \in Nat
      BY <1>1, LenProperties
    <2> QED
      BY <1>1, <2>1, <2>2 DEF DeliveredFirst
  <1> QED
    BY <1>2, <1>3

\* A step that leaves the received packets alone, and does not open the channel.
LEMMA QuietReceive ==
    ASSUME ReceiveInv, UNCHANGED <<arrived, delivered, qRecv, writable>>,
           closedBy' = closedBy \/ closedBy' # "recvFull", closedBy = "recvFull" => closedBy' = closedBy,
           state' = "kOpen" => state = "kOpen", observer' => observer
    PROVE  /\ OpenDelivers' /\ DeliveredFirst'
           /\ closedBy' = "recvFull" => qRecv' = <<>>
           /\ closedBy' # "recvFull" => delivered' \o qRecv' = arrived'
  BY DEF ReceiveInv, OpenDelivers, DeliveredFirst

\* Close keeps the first reason.
LEMMA CloseReceive ==
    ASSUME TypeInv, ReceiveInv, UNCHANGED <<arrived, delivered, qRecv, writable, observer>>,
           CloseBecause("application") \/ CloseBecause("peer") \/ CloseBecause("sendFull")
              \/ CloseBecause("error")
    PROVE  /\ OpenDelivers' /\ DeliveredFirst' /\ state' = "kClosed"
           /\ closedBy' = "recvFull" => qRecv' = <<>>
           /\ closedBy' # "recvFull" => delivered' \o qRecv' = arrived'
  <1>1. /\ state' = "kClosed" /\ (closedBy' = closedBy \/ closedBy' # "recvFull")
        /\ closedBy = "recvFull" => closedBy' = closedBy
    BY DEF CloseBecause
  <1> QED
    BY <1>1, QuietReceive

\* The calls of the application.
LEMMA ApplicationReceive == TypeInv /\ ReceiveInv /\ Application => ReceiveInv'
  <1> SUFFICES ASSUME TypeInv, ReceiveInv, Application PROVE ReceiveInv'
    OBVIOUS
  <1> USE TypeNow
  <1>1. CASE Send
    <2>0. /\ UNCHANGED <<writable, observer, qRecv, arrived, delivered>> /\ state = "kOpen"
          /\ writable
      BY <1>1 DEF Send, ReceiveInv, OpenIsWritable
    <2>1. StayOpen \/ CloseBecause("sendFull")
      BY <1>1 DEF Send, QueueOrClose
    <2>2. state' # "kConnecting"
      BY <2>0, <2>1 DEF StayOpen, CloseBecause
    <2>3. /\ OpenDelivers' /\ DeliveredFirst'
          /\ closedBy' = "recvFull" => qRecv' = <<>>
          /\ closedBy' # "recvFull" => delivered' \o qRecv' = arrived'
      BY <2>0, <2>1, CloseReceive, QuietReceive DEF StayOpen
    <2> QED
      BY <2>0, <2>2, <2>3 DEF ReceiveInv, OpenIsWritable, ConnectingWaits
  <1>2. CASE Close
    <2>1. /\ CloseBecause("application")
          /\ UNCHANGED <<writable, observer, stack, qRecv, arrived, delivered>>
      BY <1>2 DEF Close, queues, history
    <2> QED
      BY <2>1, CloseReceive DEF ReceiveInv, OpenIsWritable, ConnectingWaits, Idle
  <1>3. CASE RegisterObserver
    <2>1. /\ UNCHANGED <<state, writable, stack, arrived, closedBy>>
          /\ IF writable THEN Deliver ELSE UNCHANGED <<delivered, qRecv>>
      BY <1>3 DEF RegisterObserver
    <2>2. OpenIsWritable' /\ ConnectingWaits'
      BY <2>1 DEF ReceiveInv, OpenIsWritable, ConnectingWaits, Idle, Top
    <2>3. CASE writable
      BY <2>1, <2>2, <2>3, DeliverReceive DEF ReceiveInv, OpenDelivers
    <2>4. CASE ~writable
      BY <2>1, <2>2, <2>4 DEF ReceiveInv, OpenDelivers, DeliveredFirst
    <2> QED
      BY <2>3, <2>4
  <1>4. CASE UnregisterObserver
    <2>1. /\ UNCHANGED <<state, writable, stack, arrived, delivered, qRecv, closedBy>> /\ ~observer'
      BY <1>4 DEF UnregisterObserver, queues, history
    <2>2. OpenIsWritable' /\ ConnectingWaits'
      BY <2>1 DEF ReceiveInv, OpenIsWritable, ConnectingWaits, Idle, Top
    <2> QED
      BY <2>1, <2>2, QuietReceive DEF ReceiveInv
  <1> QED
    BY <1>1, <1>2, <1>3, <1>4 DEF Application

\* The provider answers, and a loop goes on with its next item: the frame
\* that changes keeps its continuation.
LEMMA LoopReceive ==
    ASSUME TypeInv, ReceiveInv,
           (\E r \in Results : CallProvider(r)) \/ ReturnData \/ ReturnControl
    PROVE  ReceiveInv'
  <1> USE TypeNow
  <1>0. stack \in Seq(Frame) /\ ~Idle
    BY DEF StackOK, CallProvider, ReturnData, ReturnControl
  <1>1. UNCHANGED <<writable, observer, qRecv, arrived, delivered>>
    BY DEF CallProvider, ReturnData, ReturnControl, flags, queues, history
  <1>2. \E f \in Frame : stack' = Replace(f) /\ f.then = Top.then
    <2>1. ASSUME NEW r \in Results, CallProvider(r)
          PROVE  \E f \in Frame : stack' = Replace(f) /\ f.then = Top.then
      <3>1. Top \in Frame
        BY <1>0, TopFrame
      <3>2. [Top EXCEPT !.result = r] \in Frame /\ [Top EXCEPT !.result = r].then = Top.then
        BY <3>1 DEF Frame, Results
      <3> QED
        BY <2>1, <3>2 DEF CallProvider
    <2>2. ASSUME ReturnData \/ ReturnControl
          PROVE  \E f \in Frame : stack' = Replace(f) /\ f.then = Top.then
      <3>1. stack' = NextItem /\ Top.result # "none"
        BY <2>2 DEF ReturnData, ReturnControl
      <3>2. Top.items # <<>>
        BY <1>0, <3>1, NextItemOK
      <3>3. /\ Loop(Top.kind, Tail(Top.items), Top.then) \in Frame
            /\ NextItem = Replace(Loop(Top.kind, Tail(Top.items), Top.then))
        BY <1>0, <3>2, NextItemFrame
      <3>4. Loop(Top.kind, Tail(Top.items), Top.then).then = Top.then
        BY DEF Loop
      <3> QED
        BY <3>1, <3>3, <3>4
    <2> QED
      BY <2>1, <2>2
  <1>3. Len(stack') = Len(stack) /\ ~Idle' /\ Top'.then = Top.then
    <2>1. PICK f \in Frame : stack' = Replace(f) /\ f.then = Top.then
      BY <1>2
    <2>2. /\ Replace(f) \in Seq(Frame) /\ Len(Replace(f)) = Len(stack)
          /\ Replace(f)[Len(stack)] = f /\ Len(stack) \in Nat \ {0}
      BY <1>0, ReplaceFrame, TopFrame
    <2>3. Replace(f) # <<>>
      BY <2>2, EmptySeq
    <2> QED
      BY <2>1, <2>2, <2>3 DEF Top, Idle
  <1>4. StayOpen \/ CloseBecause("sendFull") \/ CloseBecause("error")
    BY DEF CallProvider, ReturnData, ReturnControl, QueueOrClose, StayOpen, flags
  <1>5. state' # "kConnecting" \/ state' = state
    BY <1>4 DEF StayOpen, CloseBecause
  <1>6. OpenIsWritable' /\ ConnectingWaits'
    BY <1>0, <1>1, <1>3, <1>5 DEF ReceiveInv, OpenIsWritable, ConnectingWaits
  <1>7. /\ OpenDelivers' /\ DeliveredFirst'
        /\ closedBy' = "recvFull" => qRecv' = <<>>
        /\ closedBy' # "recvFull" => delivered' \o qRecv' = arrived'
    BY <1>1, <1>4, CloseReceive, QuietReceive DEF StayOpen
  <1> QED
    BY <1>6, <1>7 DEF ReceiveInv

\* A loop is done, and its method goes on or returns.  While the channel
\* connects, that is the first OnChannelReady, which SetOpen ends.
LEMMA FinishReceive ==
    ASSUME TypeInv, ReceiveInv, Return \/ UpdateState \/ SetOpen \/ SendQueuedData
    PROVE  ReceiveInv'
  <1> USE TypeNow
  <1>0. stack \in Seq(Frame) /\ ~Idle /\ writable
    BY DEF StackOK, Return, UpdateState, SetOpen, SendQueuedData, Finished, ReceiveInv, OpenIsWritable
  <1>1. CASE Return \/ SendQueuedData
    <2>1. /\ UNCHANGED <<writable, observer, qRecv, arrived, delivered, state, closedBy>>
          /\ Top.then \notin {"update", "setopen"}
      BY <1>1 DEF Return, SendQueuedData, Finished, flags, queues, history
    <2>2. state # "kConnecting"
      BY <1>0, <2>1 DEF ReceiveInv, ConnectingWaits
    <2> QED
      BY <1>0, <2>1, <2>2, QuietReceive DEF ReceiveInv, OpenIsWritable, ConnectingWaits
  <1>2. CASE UpdateState
    <2>1. UNCHANGED <<writable, observer, qRecv, arrived, delivered, state, closedBy>>
      BY <1>2 DEF UpdateState, flags, history
    <2>2. ConnectingWaits'
      <3>1. CASE state # "kConnecting"
        BY <2>1, <3>1 DEF ConnectingWaits
      <3>2. CASE state = "kConnecting"
        <4> DEFINE f == Loop("ctrl", qCtrl, "setopen")
        <4>1. stack' = Replace(f) /\ Len(stack) = 1
          BY <1>0, <1>2, <3>2 DEF UpdateState, ReceiveInv, ConnectingWaits
        <4>2. f \in Frame /\ f.then = "setopen"
          BY LoopOK DEF Loop
        <4>3. /\ Replace(f) \in Seq(Frame) /\ Len(Replace(f)) = Len(stack)
              /\ Replace(f)[Len(stack)] = f
          BY <1>0, <4>2, ReplaceFrame
        <4>4. Replace(f) # <<>>
          BY <4>1, <4>3, EmptySeq
        <4> HIDE DEF f
        <4> QED
          BY <4>1, <4>2, <4>3, <4>4 DEF ConnectingWaits, Idle, Top
      <3> QED
        BY <3>1, <3>2
    <2> QED
      BY <1>0, <2>1, <2>2, QuietReceive DEF ReceiveInv, OpenIsWritable
  <1>3. CASE SetOpen
    <2>1. /\ UNCHANGED <<writable, observer, arrived, closedBy>> /\ state' = "kOpen"
          /\ IF observer THEN Deliver ELSE UNCHANGED <<delivered, qRecv>>
      BY <1>3 DEF SetOpen, flags
    <2>2. OpenIsWritable' /\ ConnectingWaits'
      BY <1>0, <2>1 DEF OpenIsWritable, ConnectingWaits
    <2>3. CASE observer
      BY <2>1, <2>2, <2>3, DeliverReceive DEF ReceiveInv, OpenDelivers
    <2>4. CASE ~observer
      BY <2>1, <2>2, <2>4 DEF ReceiveInv, OpenDelivers, DeliveredFirst
    <2> QED
      BY <2>3, <2>4
  <1> QED
    BY <1>1, <1>2, <1>3

\* The first OnChannelReady puts itself on the stack.
LEMMA ReadyReceive == TypeInv /\ ReceiveInv /\ OnChannelReady => ReceiveInv'
  <1> SUFFICES ASSUME TypeInv, ReceiveInv, OnChannelReady PROVE ReceiveInv'
    OBVIOUS
  <1> USE TypeNow
  <1>1. /\ Idle /\ writable' = TRUE /\ stack \in Seq(Frame)
        /\ UNCHANGED <<state, observer, qRecv, arrived, delivered, closedBy>>
    BY DEF OnChannelReady, history, StackOK
  <1>2. OpenDelivers'
    BY <1>1 DEF ReceiveInv, OpenDelivers, OpenIsWritable
  <1>3. ConnectingWaits'
    <2>1. CASE writable
      BY <1>1, <2>1 DEF ReceiveInv, ConnectingWaits
    <2>2. CASE ~writable
      <3> DEFINE f == Loop("ctrl", IF Role = "kNone" THEN <<>> ELSE <<Control>>, "update")
      <3>1. stack' = Push(f) /\ Len(stack) = 0
        BY <1>1, <2>2, EmptySeq DEF OnChannelReady, Idle
      <3>2. f \in Frame /\ f.then = "update"
        <4>1. <<>> \in Seq({Control}) /\ <<Control>> \in Seq({Control})
          BY EmptySeq
        <4> QED
          BY <4>1, LoopOK DEF Loop
      <3> HIDE DEF f
      <3>3. Push(f) \in Seq(Frame) /\ Len(Push(f)) = 1 /\ Push(f)[1] = f
        BY <1>1, <3>1, <3>2, PushFrame
      <3>4. Len(stack') = 1 /\ stack'[1] = f
        BY <3>1, <3>3
      <3>5. stack' # <<>>
        BY <3>4, NotEmpty
      <3> QED
        BY <3>2, <3>4, <3>5 DEF ConnectingWaits, Idle, Top
    <2> QED
      BY <2>1, <2>2
  <1> QED
    BY <1>1, <1>2, <1>3 DEF ReceiveInv, OpenIsWritable, DeliveredFirst

\* A packet that arrives is the next of the arrivals, in the observer's hands
\* or at the end of the queue.
LEMMA ArrivalReceive == TypeInv /\ ReceiveInv /\ OnDataReceived => ReceiveInv'
  <1> SUFFICES ASSUME TypeInv, ReceiveInv, OnDataReceived PROVE ReceiveInv'
    OBVIOUS
  <1> USE TypeNow
  <1> DEFINE p == Len(arrived) + 1
  <1>1. /\ Idle /\ connected /\ arrived' = Append(arrived, p)
        /\ UNCHANGED <<writable, observer, stack>>
    BY DEF OnDataReceived
  <1>2. closedBy = "none" /\ state # "kClosed" /\ delivered \o qRecv = arrived
    BY <1>1 DEF ClosedDisconnected, ReceiveInv
  <1>3. /\ Len(arrived) \in Nat /\ Len(delivered) \in Nat /\ p \in 1..MaxArrivals
        /\ Len(qRecv) \in Nat
    BY LenProperties, ChannelAssumption DEF OnDataReceived
  <1>4. /\ Len(arrived') = Len(arrived) + 1
        /\ \A i \in 1..Len(arrived) : arrived'[i] = arrived[i]
        /\ arrived'[Len(arrived) + 1] = p
    BY <1>1, <1>3, AppendProperties
  <1>5. state' # "kConnecting" \/ state' = state
    BY DEF OnDataReceived, StayOpen, CloseBecause
  <1>6. OpenIsWritable' /\ ConnectingWaits'
    <2>1. state' = "kOpen" => state = "kOpen"
      BY DEF OnDataReceived, StayOpen, CloseBecause
    <2> QED
      BY <1>1, <1>5, <2>1 DEF ReceiveInv, OpenIsWritable, ConnectingWaits, Idle
  <1>7. CASE writable /\ observer
    <2>1. delivered' = Append(delivered, p) /\ StayOpen /\ UNCHANGED qRecv
      BY <1>7 DEF OnDataReceived
    <2>2. state = "kOpen"
      BY <1>1, <1>2, <1>7 DEF ReceiveInv, ConnectingWaits
    <2>3. qRecv = <<>> /\ delivered = arrived
      <3>1. qRecv = <<>>
        BY <1>7, <2>2 DEF ReceiveInv, OpenDelivers
      <3> QED
        BY <1>2, <3>1, ConcatEmptySeq
    <2>4. delivered' = arrived' /\ qRecv' = <<>> /\ arrived' \in Seq(1..MaxArrivals)
      BY <1>1, <1>3, <2>1, <2>3, AppendProperties
    <2>5. delivered' \o qRecv' = arrived' /\ DeliveredFirst'
      BY <1>3, <1>4, <2>4, ConcatEmptySeq DEF DeliveredFirst
    <2> QED
      BY <1>6, <2>4, <2>5 DEF ReceiveInv, OpenDelivers
  <1>8. CASE ~(writable /\ observer)
    <2>1. delivered' = delivered /\ DeliveredFirst'
      <3>1. delivered' = delivered
        BY <1>8 DEF OnDataReceived
      <3> QED
        BY <1>3, <1>4, <3>1 DEF DeliveredFirst, ReceiveInv
    <2>2. CASE Len(qRecv) + 1 > MaxRecvQueue
      <3>1. qRecv' = <<>> /\ closedBy' = "recvFull"
        BY <1>2, <1>8, <2>2 DEF OnDataReceived, CloseBecause
      <3> QED
        BY <1>6, <2>1, <3>1 DEF ReceiveInv, OpenDelivers
    <2>3. CASE ~(Len(qRecv) + 1 > MaxRecvQueue)
      <3>1. qRecv' = Append(qRecv, p) /\ StayOpen
        BY <1>8, <2>3 DEF OnDataReceived
      <3>2. delivered \o Append(qRecv, p) = Append(delivered \o qRecv, p)
        <4> HIDE DEF p
        <4> QED
          BY <1>3
      <3> QED
        BY <1>1, <1>2, <1>6, <1>8, <2>1, <3>1, <3>2 DEF ReceiveInv, OpenDelivers, StayOpen
    <2> QED
      BY <2>2, <2>3
  <1> QED
    BY <1>7, <1>8

LEMMA ReceiveStep == TypeInv /\ ReceiveInv /\ [Next]_vars => ReceiveInv'
  <1> SUFFICES ASSUME TypeInv, ReceiveInv, [Next]_vars PROVE ReceiveInv'
    OBVIOUS
  <1>1. CASE Application
    BY <1>1, ApplicationReceive
  <1>2. CASE Method
    BY <1>2, LoopReceive, FinishReceive DEF Method
  <1>3. CASE OnChannelReady
    BY <1>3, ReadyReceive
  <1>4. CASE OnDataReceived
    BY <1>4, ArrivalReceive
  <1>5. CASE DoClose
    <2>1. /\ CloseBecause("peer")
          /\ UNCHANGED <<writable, observer, stack, qRecv, arrived, delivered>>
      BY <1>5 DEF DoClose, queues, history
    <2> QED
      BY <2>1, CloseReceive DEF ReceiveInv, OpenIsWritable, ConnectingWaits, Idle
  <1>6. CASE OnOpenAck \/ OnTransportChannelCreated \/ UNCHANGED vars
    <2>1. UNCHANGED <<state, writable, observer, stack, qRecv, arrived, delivered, closedBy>>
      BY <1>6 DEF OnOpenAck, OnTransportChannelCreated, vars, flags, queues, history
    <2>2. OpenIsWritable' /\ ConnectingWaits'
      BY <2>1 DEF ReceiveInv, OpenIsWritable, ConnectingWaits, Idle, Top
    <2> QED
      BY <2>1, <2>2, QuietReceive DEF ReceiveInv
  <1> QED
    BY <1>1, <1>2, <1>3, <1>4, <1>5, <1>6 DEF Next, MessageLoop

LEMMA ReceiveInit == Init => ReceiveInv
  <1> SUFFICES ASSUME Init PROVE ReceiveInv
    OBVIOUS
  <1>1. <<>> \in Seq(Nat) /\ Len(<<>>) = 0 /\ <<>> \o <<>> = <<>>
    BY EmptySeq, ConcatEmptySeq
  <1> QED
    BY <1>1 DEF Init, ReceiveInv, OpenIsWritable, ConnectingWaits, OpenDelivers, DeliveredFirst, Idle

LEMMA ReceiveAlways == Spec => []ReceiveInv
  BY TypeAlways, ReceiveInit, ReceiveStep, PTL DEF Spec

\* The observer gets the packets in the order of their arrival, each once,
\* whenever it registers; only the overflow of the receive queue loses any.
THEOREM ReceiveOrder == Spec => []ReceivedInOrder
  <1>1. TypeInv /\ ReceiveInv => ReceivedInOrder
    <2> SUFFICES ASSUME TypeInv, ReceiveInv PROVE ReceivedInOrder
      OBVIOUS
    <2>1. /\ delivered \in Seq(1..MaxArrivals) /\ arrived \in Seq(1..MaxArrivals)
          /\ Len(delivered) \in Nat /\ Len(arrived) \in Nat /\ Len(delivered) <= Len(arrived)
          /\ \A i \in 1..Len(delivered) : delivered[i] = arrived[i]
      BY TypeNow, LenProperties DEF ReceiveInv, DeliveredFirst
    <2>2. SubSeq(delivered, 1, Len(delivered)) = SubSeq(arrived, 1, Len(delivered))
      BY <2>1
    <2> QED
      BY <2>1, <2>2 DEF ReceivedInOrder, ReceiveInv, IsPrefix
  <1> QED
    BY <1>1, TypeAlways, ReceiveAlways, PTL

\* An open and observed channel keeps no received packet in its queue: every
\* way to open it or to register an observer delivers the queue.
THEOREM QueueDelivered == Spec => []NothingStuck
  <1>1. ReceiveInv => NothingStuck
    BY DEF ReceiveInv, OpenDelivers, NothingStuck
  <1> QED
    BY <1>1, ReceiveAlways, PTL

-----------------------------------------------------------------------------
(* The send side *)

In(s, p) == \E i \in 1..Len(s) : s[i] = p

Single(s, p) == \A i, j \in 1..Len(s) : s[i] = p /\ s[j] = p => i = j

Holds(k, p) == In(Held(stack[k]), p)

\* A packet is in one place at most.
OnePlace(p) ==
    /\ Single(wire, p) /\ Single(qSend, p)
    /\ \A k \in 1..Len(stack) : Single(Held(stack[k]), p)
    /\ ~(In(wire, p) /\ In(qSend, p))
    /\ \A k \in 1..Len(stack) : Holds(k, p) => ~In(wire, p) /\ ~In(qSend, p)
    /\ \A k, l \in 1..Len(stack) : Holds(k, p) /\ Holds(l, p) => k = l

\* A packet is in some place.
SomePlace(p) == In(wire, p) \/ In(qSend, p) \/ \E k \in 1..Len(stack) : Holds(k, p)

SendInv ==
    \A p \in Packet :
        /\ OnePlace(p)
        /\ SomePlace(p) => p <= Len(sent)
        /\ closedBy = "none" /\ p <= Len(sent) => SomePlace(p)

\* What the operations on sequences do to the places of a packet.
LEMMA PlaceAppend ==
    ASSUME NEW S, NEW s \in Seq(S), NEW x \in S, NEW p
    PROVE  /\ In(Append(s, x), p) <=> In(s, p) \/ x = p
           /\ Single(s, p) /\ ~(x = p /\ In(s, p)) => Single(Append(s, x), p)
  <1>1. /\ Len(s) \in Nat /\ Len(Append(s, x)) = Len(s) + 1
        /\ \A i \in 1..Len(s) : Append(s, x)[i] = s[i]
        /\ Append(s, x)[Len(s) + 1] = x
    BY AppendProperties, LenProperties
  <1> DEFINE a == Append(s, x)
  <1> HIDE DEF a
  <1>2. \A i \in 1..Len(a) : i \in 1..Len(s) \/ i = Len(s) + 1
    BY <1>1 DEF a
  <1>3. In(a, p) <=> In(s, p) \/ x = p
    <2>1. In(a, p) => In(s, p) \/ x = p
      BY <1>1, <1>2 DEF In, a
    <2>2. In(s, p) => In(a, p)
      BY <1>1 DEF In, a
    <2>3. x = p => In(a, p)
      BY <1>1 DEF In, a
    <2> QED
      BY <2>1, <2>2, <2>3
  <1>4. Single(s, p) /\ ~(x = p /\ In(s, p)) => Single(a, p)
    <2> SUFFICES ASSUME Single(s, p), ~(x = p /\ In(s, p)),
                        NEW i \in 1..Len(a), NEW j \in 1..Len(a), a[i] = p, a[j] = p
                 PROVE  i = j
      BY DEF Single
    <2>1. CASE i \in 1..Len(s) /\ j \in 1..Len(s)
      BY <1>1, <2>1 DEF Single, a
    <2>2. CASE i = Len(s) + 1 \/ j = Len(s) + 1
      BY <1>1, <1>2, <2>2 DEF In, a
    <2> QED
      BY <1>2, <2>1, <2>2
  <1> QED
    BY <1>3, <1>4 DEF a

LEMMA PlaceTail ==
    ASSUME NEW S, NEW s \in Seq(S), s # <<>>, NEW p
    PROVE  /\ In(s, p) <=> Head(s) = p \/ In(Tail(s), p)
           /\ Single(s, p) => Single(Tail(s), p) /\ ~(Head(s) = p /\ In(Tail(s), p))
  <1>1. /\ Len(s) \in Nat \ {0} /\ Len(Tail(s)) = Len(s) - 1 /\ Head(s) = s[1]
        /\ \A i \in 1..Len(Tail(s)) : Tail(s)[i] = s[i + 1]
    BY HeadTailProperties, LenProperties, EmptySeq
  <1>2. In(s, p) <=> Head(s) = p \/ In(Tail(s), p)
    <2>1. ASSUME In(s, p) PROVE Head(s) = p \/ In(Tail(s), p)
      <3>1. PICK i \in 1..Len(s) : s[i] = p
        BY <2>1 DEF In
      <3>2. CASE i = 1
        BY <1>1, <3>1, <3>2
      <3>3. CASE i # 1
        <4>1. i - 1 \in 1..Len(Tail(s)) /\ (i - 1) + 1 = i
          BY <1>1, <3>1, <3>3
        <4>2. Tail(s)[i - 1] = p
          BY <1>1, <3>1, <4>1
        <4> QED
          BY <4>1, <4>2 DEF In
      <3> QED
        BY <3>2, <3>3
    <2>2. Head(s) = p => In(s, p)
      BY <1>1 DEF In
    <2>3. ASSUME In(Tail(s), p) PROVE In(s, p)
      <3>1. PICK i \in 1..Len(Tail(s)) : Tail(s)[i] = p
        BY <2>3 DEF In
      <3>2. i + 1 \in 1..Len(s) /\ s[i + 1] = p
        BY <1>1, <3>1
      <3> QED
        BY <3>2 DEF In
    <2> QED
      BY <2>1, <2>2, <2>3
  <1>3. ASSUME Single(s, p) PROVE Single(Tail(s), p) /\ ~(Head(s) = p /\ In(Tail(s), p))
    <2>1. \A i \in 1..Len(Tail(s)) : i + 1 \in 1..Len(s) /\ 1 \in 1..Len(s) /\ i + 1 # 1
      BY <1>1
    <2>2. Single(Tail(s), p)
      <3> SUFFICES ASSUME NEW i \in 1..Len(Tail(s)), NEW j \in 1..Len(Tail(s)),
                          Tail(s)[i] = p, Tail(s)[j] = p
                   PROVE  i = j
        BY DEF Single
      <3>1. i + 1 = j + 1
        BY <1>1, <1>3, <2>1 DEF Single
      <3> QED
        BY <3>1
    <2>3. ~(Head(s) = p /\ In(Tail(s), p))
      <3> SUFFICES ASSUME Head(s) = p, NEW i \in 1..Len(Tail(s)), Tail(s)[i] = p PROVE FALSE
        BY DEF In
      <3>1. i + 1 = 1
        BY <1>1, <1>3, <2>1 DEF Single
      <3> QED
        BY <3>1
    <2> QED
      BY <2>2, <2>3
  <1> QED
    BY <1>2, <1>3

LEMMA PlaceNone ==
    /\ \A p : ~In(<<>>, p) /\ Single(<<>>, p)
    /\ \A p \in Packet : \A s \in Seq({Control}) : ~In(s, p) /\ Single(s, p)
  <1>1. Len(<<>>) = 0
    OBVIOUS
  <1>2. \A p : ~In(<<>>, p) /\ Single(<<>>, p)
    BY <1>1 DEF In, Single
  <1>3. ASSUME NEW p \in Packet, NEW s \in Seq({Control}) PROVE ~In(s, p) /\ Single(s, p)
    <2>1. \A i \in 1..Len(s) : s[i] = Control
      BY ElementOfSeq
    <2>2. p # Control
      BY ChannelAssumption DEF Packet, Control
    <2> QED
      BY <2>1, <2>2 DEF In, Single
  <1> QED
    BY <1>2, <1>3

\* The innermost frame, the queue and the transport exchange packets; the
\* frames below keep theirs.
LEMMA PlaceReplace ==
    ASSUME NEW p, stack \in Seq(Frame), ~Idle, NEW f \in Frame, stack' = Replace(f),
           OnePlace(p),
           Single(wire', p), Single(qSend', p), Single(Held(f), p),
           ~(In(wire', p) /\ In(qSend', p)), ~(In(wire', p) /\ In(Held(f), p)),
           ~(In(qSend', p) /\ In(Held(f), p)),
           In(wire', p) \/ In(qSend', p) \/ In(Held(f), p)
              => In(wire, p) \/ In(qSend, p) \/ In(Held(Top), p)
    PROVE  /\ OnePlace(p)'
           /\ SomePlace(p)' => SomePlace(p)
           /\ (In(wire, p) \/ In(qSend, p) \/ In(Held(Top), p)
                  => In(wire', p) \/ In(qSend', p) \/ In(Held(f), p))
                 => (SomePlace(p) => SomePlace(p)')
  <1>0. PICK n \in Nat : n = Len(stack)
    BY LenProperties
  <1>1. n \in Nat \ {0} /\ n \in 1..n /\ \A k \in 1..n : k = n \/ k \in 1..(n - 1)
    BY <1>0, TopFrame
  <1>2. /\ Len(stack') = n /\ stack'[n] = f /\ stack[n] = Top
        /\ \A k \in 1..(n - 1) : stack'[k] = stack[k] /\ k # n /\ k \in 1..n
    BY <1>0, <1>1, ReplaceFrame DEF Top
  <1>3. /\ Holds(n, p)' = In(Held(f), p) /\ Holds(n, p) = In(Held(Top), p)
        /\ \A k \in 1..(n - 1) : Holds(k, p)' = Holds(k, p)
    BY <1>2 DEF Holds
  <1>4. \A k \in 1..(n - 1) : Holds(k, p) => ~In(wire, p) /\ ~In(qSend, p) /\ ~Holds(n, p)
    BY <1>0, <1>1, <1>2 DEF OnePlace
  <1>5. \A k \in 1..(n - 1) : Holds(k, p)' => ~In(wire', p) /\ ~In(qSend', p) /\ ~Holds(n, p)'
    BY <1>3, <1>4
  <1>6. \A k \in 1..n : Single(Held(stack'[k]), p)
    BY <1>0, <1>1, <1>2 DEF OnePlace
  <1>7. \A k \in 1..n : Holds(k, p)' => ~In(wire', p) /\ ~In(qSend', p)
    BY <1>1, <1>3, <1>5
  <1>8. \A k, l \in 1..n : Holds(k, p)' /\ Holds(l, p)' => k = l
    <2> SUFFICES ASSUME NEW k \in 1..n, NEW l \in 1..n, Holds(k, p)', Holds(l, p)' PROVE k = l
      OBVIOUS
    <2>1. CASE k = n \/ l = n
      BY <1>1, <1>5, <2>1
    <2>2. CASE k # n /\ l # n
      BY <1>0, <1>1, <1>2, <1>3, <2>2 DEF OnePlace
    <2> QED
      BY <2>1, <2>2
  <1>9. OnePlace(p)'
    BY <1>2, <1>6, <1>7, <1>8 DEF OnePlace
  <1>10. /\ SomePlace(p) <=> \/ In(wire, p) \/ In(qSend, p) \/ In(Held(Top), p)
                             \/ \E k \in 1..(n - 1) : Holds(k, p)
         /\ SomePlace(p)' <=> \/ In(wire', p) \/ In(qSend', p) \/ In(Held(f), p)
                              \/ \E k \in 1..(n - 1) : Holds(k, p)
    <2>1. (\E k \in 1..n : Holds(k, p)) <=> In(Held(Top), p) \/ \E k \in 1..(n - 1) : Holds(k, p)
      BY <1>1, <1>2, <1>3
    <2>2. (\E k \in 1..n : Holds(k, p)') <=> In(Held(f), p) \/ \E k \in 1..(n - 1) : Holds(k, p)
      BY <1>1, <1>2, <1>3
    <2> QED
      BY <1>0, <1>2, <2>1, <2>2 DEF SomePlace
  <1> QED
    BY <1>9, <1>10

\* A method returns that holds no packet any more.
LEMMA PlacePop ==
    ASSUME NEW p, stack \in Seq(Frame), ~Idle, stack' = Pop, UNCHANGED <<wire, qSend>>,
           OnePlace(p), ~In(Held(Top), p)
    PROVE  OnePlace(p)' /\ (SomePlace(p)' <=> SomePlace(p))
  <1>0. PICK n \in Nat : n = Len(stack)
    BY LenProperties
  <1>1. n \in Nat \ {0} /\ n \in 1..n /\ \A k \in 1..n : k = n \/ k \in 1..(n - 1)
    BY <1>0, TopFrame
  <1>2. /\ Len(stack') = n - 1 /\ stack[n] = Top
        /\ \A k \in 1..(n - 1) : stack'[k] = stack[k] /\ k # n /\ k \in 1..n
    BY <1>0, <1>1, PopFrame DEF Top
  <1>3. ~Holds(n, p) /\ \A k \in 1..(n - 1) : Holds(k, p)' = Holds(k, p)
    BY <1>2 DEF Holds
  <1>4. OnePlace(p)'
    <2>1. \A k \in 1..(n - 1) : Single(Held(stack'[k]), p)
      BY <1>0, <1>2 DEF OnePlace
    <2>2. \A k \in 1..(n - 1) : Holds(k, p)' => ~In(wire', p) /\ ~In(qSend', p)
      BY <1>0, <1>2, <1>3 DEF OnePlace
    <2>3. \A k, l \in 1..(n - 1) : Holds(k, p)' /\ Holds(l, p)' => k = l
      BY <1>0, <1>2, <1>3 DEF OnePlace
    <2> QED
      BY <1>2, <2>1, <2>2, <2>3 DEF OnePlace
  <1>5. (\E k \in 1..n : Holds(k, p)) <=> \E k \in 1..(n - 1) : Holds(k, p)'
    BY <1>1, <1>2, <1>3
  <1> QED
    BY <1>0, <1>2, <1>4, <1>5 DEF SomePlace

\* A method starts, with packets that were nowhere.
LEMMA PlacePush ==
    ASSUME NEW p, stack \in Seq(Frame), NEW f \in Frame, stack' = Push(f),
           UNCHANGED <<wire, qSend>>,
           OnePlace(p), Single(Held(f), p), In(Held(f), p) => ~SomePlace(p)
    PROVE  OnePlace(p)' /\ (SomePlace(p)' <=> SomePlace(p) \/ In(Held(f), p))
  <1>0. PICK n \in Nat : n = Len(stack)
    BY LenProperties
  <1>1. n \in Nat /\ n + 1 \in 1..(n + 1) /\ \A k \in 1..(n + 1) : k = n + 1 \/ k \in 1..n
    BY <1>0
  <1>2. /\ Len(stack') = n + 1 /\ stack'[n + 1] = f
        /\ \A k \in 1..n : stack'[k] = stack[k] /\ k # n + 1 /\ k \in 1..(n + 1)
    BY <1>0, <1>1, PushFrame
  <1>3. Holds(n + 1, p)' = In(Held(f), p) /\ \A k \in 1..n : Holds(k, p)' = Holds(k, p)
    BY <1>2 DEF Holds
  <1>4. OnePlace(p)'
    <2>1. \A k \in 1..(n + 1) : Single(Held(stack'[k]), p)
      BY <1>0, <1>1, <1>2 DEF OnePlace
    <2>2. \A k \in 1..(n + 1) : Holds(k, p)' => ~In(wire', p) /\ ~In(qSend', p)
      BY <1>0, <1>1, <1>2, <1>3 DEF OnePlace, SomePlace
    <2>3. \A k, l \in 1..(n + 1) : Holds(k, p)' /\ Holds(l, p)' => k = l
      <3> SUFFICES ASSUME NEW k \in 1..(n + 1), NEW l \in 1..(n + 1), Holds(k, p)', Holds(l, p)'
                   PROVE  k = l
        OBVIOUS
      <3>1. CASE k = n + 1 \/ l = n + 1
        BY <1>0, <1>1, <1>3, <3>1 DEF SomePlace
      <3>2. CASE k # n + 1 /\ l # n + 1
        BY <1>0, <1>1, <1>3, <3>2 DEF OnePlace
      <3> QED
        BY <3>1, <3>2
    <2> QED
      BY <1>2, <2>1, <2>2, <2>3 DEF OnePlace
  <1>5. (\E k \in 1..(n + 1) : Holds(k, p)') <=> In(Held(f), p) \/ \E k \in 1..n : Holds(k, p)
    BY <1>1, <1>2, <1>3
  <1> QED
    BY <1>0, <1>2, <1>4, <1>5 DEF SomePlace

\* The queue takes a packet that was nowhere.
LEMMA PlaceQueue ==
    ASSUME NEW p, NEW x \in Packet, UNCHANGED <<wire, stack>>, qSend \in Seq(Packet),
           qSend' = Append(qSend, x), OnePlace(p), p = x => ~SomePlace(p)
    PROVE  OnePlace(p)' /\ (SomePlace(p)' <=> SomePlace(p) \/ p = x)
  <1>1. /\ In(qSend', p) <=> In(qSend, p) \/ p = x
        /\ Single(qSend, p) /\ ~(x = p /\ In(qSend, p)) => Single(qSend', p)
    BY PlaceAppend
  <1>2. \A k : Holds(k, p)' = Holds(k, p)
    BY DEF Holds
  <1> QED
    BY <1>1, <1>2 DEF OnePlace, SomePlace

\* Nothing moves.
LEMMA PlaceStay ==
    ASSUME NEW p, UNCHANGED <<wire, qSend, stack>>, OnePlace(p)
    PROVE  OnePlace(p)' /\ (SomePlace(p)' <=> SomePlace(p))
  BY DEF OnePlace, SomePlace, Holds

\* A step of no new packet keeps the invariant when a packet stays in one
\* place, and is lost only if the channel closes.
LEMMA PlacesKept ==
    ASSUME SendInv, UNCHANGED sent, closedBy' = "none" => closedBy = "none",
           \A p \in Packet : /\ OnePlace(p)'
                             /\ SomePlace(p)' => SomePlace(p)
                             /\ closedBy' = "none" => (SomePlace(p) => SomePlace(p)')
    PROVE  SendInv'
  <1> SUFFICES ASSUME NEW p \in Packet
               PROVE  /\ OnePlace(p)'
                      /\ SomePlace(p)' => p <= Len(sent)
                      /\ closedBy' = "none" /\ p <= Len(sent) => SomePlace(p)'
    BY DEF SendInv
  <1> QED
    BY DEF SendInv

\* Nothing opens a closed channel's account again.
LEMMA ClosedForEver ==
    \A why : StayOpen \/ CloseBecause(why) => (closedBy' = "none" => closedBy = "none")
  BY DEF StayOpen, CloseBecause

LEMMA SendSend == TypeInv /\ SendInv /\ Send => SendInv'
  <1> SUFFICES ASSUME TypeInv, SendInv, Send PROVE SendInv'
    OBVIOUS
  <1>0. PICK x \in Packet : x = Len(sent) + 1
    BY NextPacket DEF Send
  <1>1. /\ sent \in Seq(Packet) /\ stack \in Seq(Frame) /\ qSend \in Seq(Packet)
        /\ Len(sent) \in Nat /\ state = "kOpen"
    BY TypeNow, LenProperties DEF StackOK, Send
  <1>2. Len(sent') = Len(sent) + 1
    BY <1>0, <1>1, AppendProperties DEF Send
  <1>3. ~SomePlace(x) /\ \A p \in Packet : p <= Len(sent') <=> p <= Len(sent) \/ p = x
    BY <1>0, <1>1, <1>2 DEF SendInv, Packet
  <1>4. \A p \in Packet : /\ OnePlace(p)'
                          /\ SomePlace(p)' => SomePlace(p) \/ p = x
                          /\ closedBy' = "none" => (SomePlace(p) \/ p = x => SomePlace(p)')
    <2> SUFFICES ASSUME NEW p \in Packet
                 PROVE  /\ OnePlace(p)'
                        /\ SomePlace(p)' => SomePlace(p) \/ p = x
                        /\ closedBy' = "none" => (SomePlace(p) \/ p = x => SomePlace(p)')
      OBVIOUS
    <2>0. OnePlace(p) /\ UNCHANGED wire
      BY DEF SendInv, Send
    <2>1. CASE qSend # <<>> /\ Len(qSend) >= MaxSendQueue
      <3>1. UNCHANGED <<stack, qSend>> /\ CloseBecause("sendFull")
        BY <2>1 DEF Send, QueueOrClose
      <3>2. closedBy' # "none"
        BY <1>1, <3>1, TypeNow DEF CloseBecause
      <3> QED
        BY <2>0, <3>1, <3>2, PlaceStay
    <2>2. CASE qSend # <<>> /\ ~(Len(qSend) >= MaxSendQueue)
      <3>1. UNCHANGED stack /\ qSend' = Append(qSend, x)
        BY <1>0, <2>2 DEF Send, QueueOrClose
      <3> QED
        BY <1>1, <1>3, <2>0, <3>1, PlaceQueue
    <2>3. CASE qSend = <<>>
      <3> DEFINE f == Loop("send", <<x>>, "return")
      <3>1. UNCHANGED qSend /\ stack' = Push(f)
        BY <1>0, <2>3 DEF Send
      <3>2. f \in Frame
        <4>1. <<x>> \in Seq(Packet)
          OBVIOUS
        <4> QED
          BY <4>1, LoopOK
      <3>3. Held(f) = <<x>> /\ (In(Held(f), p) <=> p = x) /\ Single(Held(f), p)
        <4>1. Held(f) = <<x>>
          BY DEF Loop, Held
        <4>2. Len(<<x>>) = 1 /\ <<x>>[1] = x
          OBVIOUS
        <4> QED
          BY <4>1, <4>2 DEF In, Single
      <3> HIDE DEF f
      <3> QED
        BY <1>1, <1>3, <2>0, <3>1, <3>2, <3>3, PlacePush
    <2> QED
      BY <2>1, <2>2, <2>3
  <1>5. closedBy' = "none" => closedBy = "none"
    BY ClosedForEver DEF Send, QueueOrClose
  <1> SUFFICES ASSUME NEW p \in Packet
               PROVE  /\ OnePlace(p)'
                      /\ SomePlace(p)' => p <= Len(sent')
                      /\ closedBy' = "none" /\ p <= Len(sent') => SomePlace(p)'
    BY DEF SendInv
  <1> QED
    BY <1>3, <1>4, <1>5 DEF SendInv

\* The provider takes the first item, or leaves it with the loop.
LEMMA ProviderSend == TypeInv /\ SendInv /\ (\E r \in Results : CallProvider(r)) => SendInv'
  <1> SUFFICES ASSUME TypeInv, SendInv, NEW r \in Results, CallProvider(r) PROVE SendInv'
    OBVIOUS
  <1> DEFINE g == [Top EXCEPT !.result = r]
  <1>1. /\ ~Idle /\ Top.items # <<>> /\ Top.result = "none"
        /\ stack' = Replace(g)
        /\ wire' = IF r = "SUCCESS" THEN Append(wire, Head(Top.items)) ELSE wire
        /\ UNCHANGED <<sent, qSend, closedBy>>
    BY DEF CallProvider, queues, history
  <1>2. /\ stack \in Seq(Frame) /\ wire \in Seq(Packet \cup {Control})
        /\ Top \in Frame /\ Top.items \in Seq(Packet \cup {Control})
        /\ Head(Top.items) \in Packet \cup {Control}
    BY <1>1, TypeNow, TopFrame DEF StackOK
  <1>3. /\ g \in Frame
        /\ Held(Top) = Top.items
        /\ Held(g) = IF r = "SUCCESS" THEN Tail(Top.items) ELSE Top.items
    BY <1>1, <1>2 DEF Frame, Held, Results
  <1>4. PICK f \in Frame : f = g
    BY <1>3
  <1>5. ASSUME NEW p \in Packet
        PROVE  /\ OnePlace(p)' /\ (SomePlace(p)' => SomePlace(p)) /\ (SomePlace(p) => SomePlace(p)')
    <2>0. OnePlace(p)
      BY DEF SendInv
    <2>1. /\ Single(wire, p) /\ Single(qSend, p) /\ Single(Held(Top), p)
          /\ ~(In(wire, p) /\ In(qSend, p)) /\ ~(In(wire, p) /\ In(Held(Top), p))
          /\ ~(In(qSend, p) /\ In(Held(Top), p))
      BY <1>1, <1>2, <2>0, TopFrame DEF OnePlace, Holds, Top
    <2>2. CASE r # "SUCCESS"
      <3>1. wire' = wire /\ Held(f) = Held(Top) /\ qSend' = qSend
        BY <1>1, <1>3, <1>4, <2>2
      <3> QED
        BY <1>1, <1>2, <1>4, <2>0, <2>1, <3>1, PlaceReplace
    <2>3. CASE r = "SUCCESS"
      <3>1. wire' = Append(wire, Head(Top.items)) /\ Held(f) = Tail(Top.items) /\ qSend' = qSend
        BY <1>1, <1>3, <1>4, <2>3
      <3>2. /\ In(wire', p) <=> In(wire, p) \/ Head(Top.items) = p
            /\ Single(wire, p) /\ ~(Head(Top.items) = p /\ In(wire, p)) => Single(wire', p)
        <4>1. PICK x \in Packet \cup {Control} : x = Head(Top.items)
          BY <1>2
        <4>2. /\ In(Append(wire, x), p) <=> In(wire, p) \/ x = p
              /\ Single(wire, p) /\ ~(x = p /\ In(wire, p)) => Single(Append(wire, x), p)
          BY <1>2, PlaceAppend
        <4> QED
          BY <3>1, <4>1, <4>2
      <3>3. /\ In(Held(Top), p) <=> Head(Top.items) = p \/ In(Held(f), p)
            /\ Single(Held(f), p) /\ ~(Head(Top.items) = p /\ In(Held(f), p))
        BY <1>1, <1>2, <1>3, <2>1, <3>1, PlaceTail
      <3> QED
        BY <1>1, <1>2, <1>4, <2>0, <2>1, <3>1, <3>2, <3>3, PlaceReplace
    <2> QED
      BY <2>2, <2>3
  <1> QED
    BY <1>1, <1>5, PlacesKept

\* The places of a packet around the innermost frame.
LEMMA TopPlaces ==
    ASSUME NEW p, OnePlace(p), stack \in Seq(Frame), ~Idle
    PROVE  /\ Single(wire, p) /\ Single(qSend, p) /\ Single(Held(Top), p)
           /\ ~(In(wire, p) /\ In(qSend, p)) /\ ~(In(wire, p) /\ In(Held(Top), p))
           /\ ~(In(qSend, p) /\ In(Held(Top), p))
  BY TopFrame DEF OnePlace, Holds, Top

\* The loop goes on: a blocked packet returns to the queue, or the channel closes.
LEMMA ReturnSend == TypeInv /\ SendInv /\ ReturnData => SendInv'
  <1> SUFFICES ASSUME TypeInv, SendInv, ReturnData PROVE SendInv'
    OBVIOUS
  <1> DEFINE g == Loop(Top.kind, Tail(Top.items), Top.then)
  <1>1. /\ ~Idle /\ Top.result # "none" /\ Top.kind # "ctrl" /\ stack' = NextItem
        /\ UNCHANGED <<sent, wire>>
    BY DEF ReturnData, history
  <1>2. /\ stack \in Seq(Frame) /\ qSend \in Seq(Packet) /\ StackOK(stack)
        /\ closedBy' = "none" => closedBy = "none"
    BY TypeNow, ClosedForEver DEF StackOK, ReturnData, QueueOrClose
  <1>3. Top.items # <<>> /\ Head(Top.items) \in Packet
    BY <1>1, <1>2, NextItemOK
  <1>4. /\ Top \in Frame /\ g \in Frame /\ stack' = Replace(g)
        /\ Top.items \in Seq(Packet \cup {Control})
    BY <1>1, <1>2, <1>3, NextItemFrame, TopFrame
  <1>5. /\ Held(g) = Tail(Top.items)
        /\ Held(Top) = IF Top.result = "SUCCESS" THEN Tail(Top.items) ELSE Top.items
    BY DEF Held, Loop
  <1>6. PICK f \in Frame : f = g
    BY <1>4
  <1>7. ASSUME NEW p \in Packet
        PROVE  /\ OnePlace(p)' /\ (SomePlace(p)' => SomePlace(p))
               /\ closedBy' = "none" => (SomePlace(p) => SomePlace(p)')
    <2>0. OnePlace(p)
      BY DEF SendInv
    <2>1. /\ In(Top.items, p) <=> Head(Top.items) = p \/ In(Held(f), p)
          /\ Single(Top.items, p) => Single(Held(f), p) /\ ~(Head(Top.items) = p /\ In(Held(f), p))
      BY <1>3, <1>4, <1>5, <1>6, PlaceTail
    <2>2. /\ Single(wire, p) /\ Single(qSend, p) /\ Single(Held(Top), p)
          /\ ~(In(wire, p) /\ In(qSend, p)) /\ ~(In(wire, p) /\ In(Held(Top), p))
          /\ ~(In(qSend, p) /\ In(Held(Top), p))
      BY <1>1, <1>2, <2>0, TopPlaces
    <2>3. CASE Top.result = "SUCCESS"
      <3>1. qSend' = qSend /\ Held(f) = Held(Top)
        BY <1>5, <1>6, <2>3 DEF ReturnData, Blocked
      <3> QED
        BY <1>1, <1>2, <1>4, <1>6, <2>0, <2>2, <3>1, PlaceReplace
    <2>4. CASE Top.result = "BLOCK" /\ ~(Len(qSend) >= MaxSendQueue)
      <3>1. qSend' = Append(qSend, Head(Top.items)) /\ Held(Top) = Top.items
        BY <1>5, <2>4 DEF ReturnData, Blocked, QueueOrClose
      <3>2. /\ In(qSend', p) <=> In(qSend, p) \/ Head(Top.items) = p
            /\ Single(qSend, p) /\ ~(Head(Top.items) = p /\ In(qSend, p)) => Single(qSend', p)
        BY <1>2, <1>3, <3>1, PlaceAppend
      <3> QED
        BY <1>1, <1>2, <1>4, <1>6, <2>0, <2>1, <2>2, <3>1, <3>2, PlaceReplace
    <2>5. CASE Top.result = "ERROR" \/ (Top.result = "BLOCK" /\ Len(qSend) >= MaxSendQueue)
      <3>1. /\ UNCHANGED qSend /\ Held(Top) = Top.items
            /\ CloseBecause("error") \/ CloseBecause("sendFull")
        BY <1>5, <2>5 DEF ReturnData, Blocked, QueueOrClose
      <3>2. closedBy' # "none"
        BY <3>1, TypeNow DEF CloseBecause, ClosedDisconnected
      <3> QED
        BY <1>1, <1>2, <1>4, <1>6, <2>0, <2>1, <2>2, <3>1, <3>2, PlaceReplace
    <2>6. Top.result \in {"SUCCESS", "BLOCK", "ERROR"}
      BY <1>1, <1>4 DEF Frame, Results
    <2> QED
      BY <2>3, <2>4, <2>5, <2>6
  <1> QED
    BY <1>1, <1>2, <1>7, PlacesKept

\* A frame of control messages, or one that is done, holds no packet.
LEMMA NoPacketHeld ==
    ASSUME NEW p \in Packet, NEW f, FrameOK(f), f.kind = "ctrl" \/ f.items = <<>>
    PROVE  ~In(Held(f), p) /\ Single(Held(f), p)
  <1>1. CASE f.items = <<>>
    <2>1. Held(f) = <<>>
      BY <1>1 DEF FrameOK, Held
    <2> QED
      BY <2>1, PlaceNone
  <1>2. CASE f.items # <<>> /\ f.kind = "ctrl"
    <2>1. f.items \in Seq({Control}) /\ Tail(f.items) \in Seq({Control})
      BY <1>2, HeadTailProperties DEF FrameOK
    <2>2. Held(f) \in Seq({Control})
      BY <2>1 DEF Held
    <2> QED
      BY <2>2, PlaceNone
  <1> QED
    BY <1>1, <1>2

\* The innermost frame holds no packet, before and after the step.
LEMMA ControlReplace ==
    ASSUME TypeInv, SendInv, ~Idle, NEW f \in Frame, stack' = Replace(f),
           Top.kind = "ctrl" \/ Top.items = <<>>,
           FrameOK(f), f.kind = "ctrl" \/ f.items = <<>>,
           UNCHANGED <<sent, wire, qSend>>, closedBy' = "none" => closedBy = "none"
    PROVE  SendInv'
  <1>1. stack \in Seq(Frame) /\ FrameOK(Top)
    BY TypeNow, TopFrame DEF StackOK, Top
  <1>2. ASSUME NEW p \in Packet
        PROVE  /\ OnePlace(p)' /\ (SomePlace(p)' => SomePlace(p)) /\ (SomePlace(p) => SomePlace(p)')
    <2>1. /\ ~In(Held(f), p) /\ Single(Held(f), p) /\ ~In(Held(Top), p)
      BY <1>1, NoPacketHeld
    <2>2. OnePlace(p)
      BY DEF SendInv
    <2>3. Single(wire, p) /\ Single(qSend, p) /\ ~(In(wire, p) /\ In(qSend, p))
      BY <2>2 DEF OnePlace
    <2> QED
      BY <1>1, <2>1, <2>2, <2>3, PlaceReplace
  <1> QED
    BY <1>2, PlacesKept

LEMMA ControlPop ==
    ASSUME TypeInv, SendInv, ~Idle, stack' = Pop, Top.kind = "ctrl" \/ Top.items = <<>>,
           UNCHANGED <<sent, wire, qSend, closedBy>>
    PROVE  SendInv'
  <1>1. stack \in Seq(Frame) /\ FrameOK(Top)
    BY TypeNow, TopFrame DEF StackOK, Top
  <1>2. ASSUME NEW p \in Packet
        PROVE  OnePlace(p)' /\ (SomePlace(p)' <=> SomePlace(p))
    <2>1. OnePlace(p) /\ ~In(Held(Top), p)
      BY <1>1, NoPacketHeld DEF SendInv
    <2> QED
      BY <1>1, <2>1, PlacePop
  <1> QED
    BY <1>2, PlacesKept

LEMMA ControlPush ==
    ASSUME TypeInv, SendInv, NEW f \in Frame, FrameOK(f), f.kind = "ctrl", stack' = Push(f),
           UNCHANGED <<sent, wire, qSend, closedBy>>
    PROVE  SendInv'
  <1>1. stack \in Seq(Frame)
    BY TypeNow DEF StackOK
  <1>2. ASSUME NEW p \in Packet
        PROVE  OnePlace(p)' /\ (SomePlace(p)' <=> SomePlace(p))
    <2>1. OnePlace(p) /\ ~In(Held(f), p) /\ Single(Held(f), p)
      BY NoPacketHeld DEF SendInv
    <2> QED
      BY <1>1, <2>1, PlacePush
  <1> QED
    BY <1>2, PlacesKept

\* A control message's turn ends, or a loop is done and its method goes on.
LEMMA FinishSend ==
    ASSUME TypeInv, SendInv, ReturnControl \/ Return \/ UpdateState \/ SetOpen \/ SendQueuedData
    PROVE  SendInv'
  <1> USE TypeNow
  <1>0. ~Idle /\ stack \in Seq(Frame) /\ StackOK(stack) /\ Top \in Frame /\ FrameOK(Top)
    <2>1. ~Idle
      BY DEF ReturnControl, Return, UpdateState, SetOpen, SendQueuedData, Finished
    <2> QED
      BY <2>1, TopFrame DEF StackOK, Top
  <1>1. CASE ReturnControl
    <2>1. /\ Top.kind = "ctrl" /\ Top.result # "none" /\ stack' = NextItem
          /\ UNCHANGED <<sent, wire, qSend>>
          /\ closedBy' = "none" => closedBy = "none"
      BY <1>1, ClosedForEver DEF ReturnControl, history
    <2>2. Top.items # <<>> /\ Top.items \in Seq({Control})
      BY <1>0, <2>1 DEF FrameOK
    <2>3. Tail(Top.items) \in Seq({Control}) /\ Top.then \in {"return", "update", "setopen", "senddata"}
      BY <1>0, <2>2, HeadTailProperties DEF Frame
    <2>4. /\ Loop("ctrl", Tail(Top.items), Top.then) \in Frame
          /\ FrameOK(Loop("ctrl", Tail(Top.items), Top.then))
          /\ Loop("ctrl", Tail(Top.items), Top.then).kind = "ctrl"
          /\ stack' = Replace(Loop("ctrl", Tail(Top.items), Top.then))
      BY <2>1, <2>3, LoopOK DEF Loop, NextItem
    <2> QED
      BY <1>0, <2>1, <2>4, ControlReplace
  <1>2. CASE Return
    BY <1>0, <1>2, ControlPop DEF Return, Finished, queues, history
  <1>3. CASE UpdateState
    <2>1. Top.items = <<>> /\ UNCHANGED <<sent, wire, qSend, closedBy>>
      BY <1>3 DEF UpdateState, Finished, history
    <2>2. CASE state # "kConnecting"
      BY <1>0, <1>3, <2>1, <2>2, ControlPop DEF UpdateState
    <2>3. CASE state = "kConnecting"
      <3>1. /\ Loop("ctrl", qCtrl, "setopen") \in Frame /\ FrameOK(Loop("ctrl", qCtrl, "setopen"))
            /\ Loop("ctrl", qCtrl, "setopen").kind = "ctrl"
            /\ stack' = Replace(Loop("ctrl", qCtrl, "setopen"))
        BY <1>3, <2>3, LoopOK DEF UpdateState, Loop
      <3> QED
        BY <1>0, <2>1, <3>1, ControlReplace
    <2> QED
      BY <2>2, <2>3
  <1>4. CASE SetOpen
    BY <1>0, <1>4, ControlPop DEF SetOpen, Finished
  <1>5. CASE SendQueuedData
    <2> DEFINE g == Loop("flush", qSend, "return")
    <2>1. /\ Top.items = <<>> /\ stack' = Replace(g) /\ qSend' = <<>>
          /\ UNCHANGED <<sent, wire, closedBy>>
      BY <1>5 DEF SendQueuedData, Swapped, Finished, history
    <2>2. g \in Frame /\ Held(g) = qSend
      BY LoopOK DEF Loop, Held
    <2>3. PICK f \in Frame : f = g
      BY <2>2
    <2>4. ASSUME NEW p \in Packet
          PROVE  /\ OnePlace(p)' /\ (SomePlace(p)' => SomePlace(p)) /\ (SomePlace(p) => SomePlace(p)')
      <3>1. OnePlace(p) /\ ~In(Held(Top), p)
        BY <1>0, <2>1, NoPacketHeld DEF SendInv
      <3>2. Single(wire, p) /\ Single(qSend, p) /\ ~(In(wire, p) /\ In(qSend, p))
        BY <3>1 DEF OnePlace
      <3>3. ~In(qSend', p) /\ Single(qSend', p) /\ Held(f) = qSend
        BY <2>1, <2>2, <2>3, PlaceNone
      <3> HIDE DEF g
      <3> QED
        BY <1>0, <2>1, <2>3, <3>1, <3>2, <3>3, PlaceReplace
    <2> QED
      BY <2>1, <2>4, PlacesKept
  <1> QED
    BY <1>1, <1>2, <1>3, <1>4, <1>5

LEMMA ReadySend == TypeInv /\ SendInv /\ OnChannelReady => SendInv'
  <1> SUFFICES ASSUME TypeInv, SendInv, OnChannelReady PROVE SendInv'
    OBVIOUS
  <1> USE TypeNow
  <1>1. UNCHANGED <<sent, wire, qSend, closedBy>>
    BY DEF OnChannelReady, history
  <1>2. ASSUME NEW items \in Seq({Control}), NEW then \in {"update", "senddata"},
               stack' = Push(Loop("ctrl", items, then))
        PROVE  SendInv'
    <2>1. /\ Loop("ctrl", items, then) \in Frame /\ FrameOK(Loop("ctrl", items, then))
          /\ Loop("ctrl", items, then).kind = "ctrl"
      BY LoopOK DEF Loop
    <2> QED
      BY <1>1, <1>2, <2>1, ControlPush
  <1>3. CASE ~writable
    <2>1. stack' = Push(Loop("ctrl", IF Role = "kNone" THEN <<>> ELSE <<Control>>, "update"))
      BY <1>3 DEF OnChannelReady
    <2>2. (IF Role = "kNone" THEN <<>> ELSE <<Control>>) \in Seq({Control})
      <3>1. <<>> \in Seq({Control}) /\ <<Control>> \in Seq({Control})
        BY EmptySeq
      <3> QED
        BY <3>1
    <2> QED
      BY <1>2, <2>1, <2>2
  <1>4. CASE writable /\ state = "kOpen"
    <2>1. stack' = Push(Loop("ctrl", qCtrl, "senddata"))
      BY <1>4 DEF OnChannelReady
    <2> QED
      BY <1>2, <2>1
  <1>5. CASE writable /\ state # "kOpen"
    <2>1. UNCHANGED stack
      BY <1>5 DEF OnChannelReady
    <2>2. ASSUME NEW p \in Packet PROVE OnePlace(p)' /\ (SomePlace(p)' <=> SomePlace(p))
      BY <1>1, <2>1, PlaceStay DEF SendInv
    <2> QED
      BY <1>1, <2>2, PlacesKept
  <1> QED
    BY <1>3, <1>4, <1>5

LEMMA SendStep == TypeInv /\ SendInv /\ [Next]_vars => SendInv'
  <1> SUFFICES ASSUME TypeInv, SendInv, [Next]_vars PROVE SendInv'
    OBVIOUS
  <1>1. CASE Send
    BY <1>1, SendSend
  <1>2. CASE Method
    BY <1>2, ProviderSend, ReturnSend, FinishSend DEF Method
  <1>3. CASE OnChannelReady
    BY <1>3, ReadySend
  <1>4. CASE \/ Close \/ RegisterObserver \/ UnregisterObserver \/ OnDataReceived \/ OnOpenAck
             \/ DoClose \/ OnTransportChannelCreated \/ UNCHANGED vars
    <2>1. UNCHANGED <<sent, wire, qSend, stack>>
      BY <1>4 DEF Close, RegisterObserver, UnregisterObserver, OnDataReceived, OnOpenAck,
                  DoClose, OnTransportChannelCreated, vars, queues, history
    <2>2. closedBy' = "none" => closedBy = "none"
      <3>1. (\E why : CloseBecause(why)) \/ StayOpen \/ UNCHANGED closedBy
        BY <1>4 DEF Close, RegisterObserver, UnregisterObserver, OnDataReceived, OnOpenAck,
                    DoClose, OnTransportChannelCreated, vars
      <3> QED
        BY <3>1, ClosedForEver
    <2>3. ASSUME NEW p \in Packet PROVE OnePlace(p)' /\ (SomePlace(p)' <=> SomePlace(p))
      BY <2>1, PlaceStay DEF SendInv
    <2> QED
      BY <2>1, <2>2, <2>3, PlacesKept
  <1> QED
    BY <1>1, <1>2, <1>3, <1>4 DEF Next, Application, MessageLoop

LEMMA SendInit == Init => SendInv
  <1> SUFFICES ASSUME Init, NEW p \in Packet
               PROVE  OnePlace(p) /\ ~SomePlace(p) /\ ~(p <= Len(sent))
    BY DEF SendInv
  <1>1. Len(<<>>) = 0 /\ p \in Nat \ {0}
    BY ChannelAssumption DEF Packet
  <1> QED
    BY <1>1, PlaceNone DEF Init, OnePlace, SomePlace

LEMMA SendAlways == Spec => []SendInv
  BY TypeAlways, SendInit, SendStep, PTL DEF Spec

\* Counting a packet that a sequence holds once.
LEMMA CountOnce ==
    ASSUME NEW S, NEW s \in Seq(S), NEW p, Single(s, p)
    PROVE  Count(s, p) = IF In(s, p) THEN 1 ELSE 0
  <1>1. DOMAIN s = 1..Len(s)
    BY LenProperties
  <1>2. CASE ~In(s, p)
    <2>1. {i \in DOMAIN s : s[i] = p} = {}
      BY <1>1, <1>2 DEF In
    <2> QED
      BY <1>2, <2>1, FS_EmptySet DEF Count
  <1>3. CASE In(s, p)
    <2>1. PICK i \in 1..Len(s) : s[i] = p
      BY <1>3 DEF In
    <2>2. {j \in DOMAIN s : s[j] = p} = {i}
      BY <1>1, <2>1 DEF Single
    <2> QED
      BY <1>3, <2>2, FS_Singleton DEF Count
  <1> QED
    BY <1>2, <1>3

\* The transport is never given a packet twice, closed or not: a blocked
\* packet is back in the queue before the provider could see it again.
THEOREM SentOnce == Spec => []NoDuplicate
  <1>1. TypeInv /\ SendInv => NoDuplicate
    <2> SUFFICES ASSUME TypeInv, SendInv, NEW p \in Packet PROVE Count(wire, p) <= 1
      BY DEF NoDuplicate
    <2>1. wire \in Seq(Packet \cup {Control}) /\ Single(wire, p)
      BY TypeNow DEF SendInv, OnePlace
    <2> QED
      BY <2>1, CountOnce
  <1> QED
    BY <1>1, TypeAlways, SendAlways, PTL

\* Counting a packet that one frame holds once.
LEMMA CountHeldOnce ==
    ASSUME stack \in Seq(Frame), StackOK(stack), NEW p, OnePlace(p)
    PROVE  CountHeld(p) = IF \E k \in 1..Len(stack) : Holds(k, p) THEN 1 ELSE 0
  <1> DEFINE At(k) == {i \in DOMAIN Held(stack[k]) : Held(stack[k])[i] = p}
             U == UNION {{k} \X At(k) : k \in DOMAIN stack}
  <1>1. DOMAIN stack = 1..Len(stack)
    BY LenProperties
  <1>2. ASSUME NEW k \in 1..Len(stack)
        PROVE  DOMAIN Held(stack[k]) = 1..Len(Held(stack[k]))
    <2>1. stack[k] \in Frame /\ FrameOK(stack[k])
      BY ElementOfSeq DEF StackOK
    <2>2. stack[k].items \in Seq(Packet \cup {Control})
      BY <2>1 DEF Frame
    <2>3. stack[k].result = "SUCCESS" => Tail(stack[k].items) \in Seq(Packet \cup {Control})
      BY <2>1, <2>2, HeadTailProperties DEF FrameOK
    <2>4. Held(stack[k]) \in Seq(Packet \cup {Control})
      BY <2>2, <2>3 DEF Held
    <2> QED
      BY <2>4, LenProperties
  <1>3. ASSUME NEW k \in 1..Len(stack), ~Holds(k, p) PROVE At(k) = {}
    BY <1>2, <1>3 DEF Holds, In
  <1>4. ASSUME NEW k \in 1..Len(stack), Holds(k, p) PROVE \E i : At(k) = {i}
    <2>1. PICK i \in 1..Len(Held(stack[k])) : Held(stack[k])[i] = p
      BY <1>4 DEF Holds, In
    <2>2. Single(Held(stack[k]), p)
      BY DEF OnePlace
    <2>3. At(k) = {i}
      BY <1>2, <2>1, <2>2 DEF Single
    <2> QED
      BY <2>3
  <1> HIDE DEF At
  <1>5. CASE ~\E k \in 1..Len(stack) : Holds(k, p)
    <2>1. \A k \in DOMAIN stack : {k} \X At(k) = {}
      BY <1>1, <1>3, <1>5
    <2>2. U = {}
      BY <2>1
    <2> QED
      BY <1>5, <2>2, FS_EmptySet DEF CountHeld, At
  <1>6. CASE \E k \in 1..Len(stack) : Holds(k, p)
    <2>1. PICK k \in 1..Len(stack) : Holds(k, p)
      BY <1>6
    <2>2. PICK i : At(k) = {i}
      BY <1>4, <2>1
    <2>3. \A l \in DOMAIN stack : l # k => {l} \X At(l) = {}
      BY <1>1, <1>3, <2>1 DEF OnePlace
    <2>4. {k} \X At(k) = {<<k, i>>}
      BY <2>2
    <2>5. U = {<<k, i>>}
      BY <1>1, <2>3, <2>4
    <2> QED
      BY <1>6, <2>5, FS_Singleton DEF CountHeld, At
  <1> QED
    BY <1>5, <1>6

\* Until the channel closes, every packet that Send took is in exactly one
\* place: with the transport, in queued_send_data_, or in the queue that a
\* SendQueuedDataMessages on the stack has swapped out.
THEOREM SentNotLost == Spec => []NothingLost
  <1>1. TypeInv /\ SendInv => NothingLost
    <2> SUFFICES ASSUME TypeInv, SendInv, closedBy = "none", NEW i \in DOMAIN sent
                 PROVE  Count(wire, sent[i]) + Count(qSend, sent[i]) + CountHeld(sent[i]) = 1
      BY DEF NothingLost
    <2>1. /\ sent \in Seq(Packet) /\ wire \in Seq(Packet \cup {Control}) /\ qSend \in Seq(Packet)
          /\ stack \in Seq(Frame) /\ StackOK(stack)
      BY TypeNow DEF StackOK
    <2>2. PICK p \in Packet : p = sent[i] /\ p <= Len(sent)
      <3>1. i \in 1..Len(sent) /\ sent[i] \in Packet /\ Len(sent) \in Nat
        BY <2>1, LenProperties, ElementOfSeq
      <3>2. sent[i] = i
        BY <3>1, TypeNow DEF SentInOrder
      <3> QED
        BY <3>1, <3>2
    <2>3. OnePlace(p) /\ SomePlace(p)
      BY <2>2 DEF SendInv
    <2>4. /\ Count(wire, p) = IF In(wire, p) THEN 1 ELSE 0
          /\ Count(qSend, p) = IF In(qSend, p) THEN 1 ELSE 0
          /\ CountHeld(p) = IF \E k \in 1..Len(stack) : Holds(k, p) THEN 1 ELSE 0
      BY <2>1, <2>3, CountOnce, CountHeldOnce DEF OnePlace
    <2>5. Count(wire, p) + Count(qSend, p) + CountHeld(p) = 1
      <3>1. CASE In(wire, p)
        BY <2>3, <2>4, <3>1 DEF OnePlace
      <3>2. CASE In(qSend, p)
        BY <2>3, <2>4, <3>2 DEF OnePlace
      <3>3. CASE ~In(wire, p) /\ ~In(qSend, p)
        BY <2>3, <2>4, <3>3 DEF SomePlace
      <3> QED
        BY <3>1, <3>2, <3>3
    <2> QED
      BY <2>2, <2>5
  <1> QED
    BY <1>1, TypeAlways, SendAlways, PTL

=============================================================================
