-------------------------- MODULE RtcThreadProofs --------------------------
(***************************************************************************)
(* Theorems about RtcThread: the stack of a thread is well formed, a call  *)
(* is in one place as long as its sender waits, no wakeup is lost and      *)
(* messages run in order, for any number of threads, handlers and calls.   *)
(***************************************************************************)
EXTENDS RtcThread, SequenceTheorems, FiniteSetTheorems, TLAPS

-----------------------------------------------------------------------------
(* Sequences *)

LEMMA SeqParts ==
    ASSUME NEW S, NEW s \in Seq(S)
    PROVE  /\ Len(s) \in Nat /\ DOMAIN s = 1..Len(s) /\ \A i \in 1..Len(s) : s[i] \in S
           /\ s = <<>> <=> Len(s) = 0
  BY LenProperties, EmptySeq

LEMMA Appended ==
    ASSUME NEW S, NEW s \in Seq(S), NEW e \in S
    PROVE  /\ Append(s, e) \in Seq(S) /\ Len(Append(s, e)) = Len(s) + 1
           /\ \A i \in 1..Len(s) : Append(s, e)[i] = s[i]
           /\ Append(s, e)[Len(s) + 1] = e
  BY AppendProperties

LEMMA Joined ==
    ASSUME NEW S, NEW s \in Seq(S), NEW r \in Seq(S)
    PROVE  /\ s \o r \in Seq(S) /\ Len(s \o r) = Len(s) + Len(r)
           /\ \A i \in 1..Len(s) : (s \o r)[i] = s[i]
           /\ \A i \in 1..Len(r) : (s \o r)[Len(s) + i] = r[i]
  <1>1. Len(s) \in Nat /\ Len(r) \in Nat
    BY SeqParts
  <1>2. /\ s \o r \in Seq(S) /\ Len(s \o r) = Len(s) + Len(r)
        /\ \A i \in 1..(Len(s) + Len(r)) :
              (s \o r)[i] = IF i <= Len(s) THEN s[i] ELSE r[i - Len(s)]
    BY ConcatProperties
  <1>3. ASSUME NEW i \in 1..Len(r) PROVE (s \o r)[Len(s) + i] = r[i]
    <2>1. Len(s) + i \in 1..(Len(s) + Len(r)) /\ ~(Len(s) + i <= Len(s)) /\ Len(s) + i - Len(s) = i
      BY <1>1
    <2> QED
      BY <1>2, <2>1
  <1> QED
    BY <1>1, <1>2, <1>3

LEMMA Part ==
    ASSUME NEW S, NEW s \in Seq(S), NEW a \in 1..(Len(s) + 1), NEW b \in 0..Len(s), a <= b + 1
    PROVE  /\ SubSeq(s, a, b) \in Seq(S) /\ Len(SubSeq(s, a, b)) = b - a + 1
           /\ \A i \in 1..(b - a + 1) : SubSeq(s, a, b)[i] = s[a + i - 1]
  <1>1. Len(s) \in Nat /\ \A i \in a..b : s[i] \in S
    BY SeqParts
  <1>2. /\ SubSeq(s, a, b) \in Seq(S)
        /\ Len(SubSeq(s, a, b)) = IF a <= b THEN b - a + 1 ELSE 0
        /\ \A i \in 1..(b - a + 1) : SubSeq(s, a, b)[i] = s[a + i - 1]
    BY <1>1, SubSeqProperties
  <1> QED
    BY <1>1, <1>2

LEMMA Shortened ==
    ASSUME NEW S, NEW s \in Seq(S), s # <<>>
    PROVE  /\ Len(s) \in Nat \ {0}
           /\ SubSeq(s, 1, Len(s) - 1) \in Seq(S) /\ Len(SubSeq(s, 1, Len(s) - 1)) = Len(s) - 1
           /\ \A i \in 1..(Len(s) - 1) : SubSeq(s, 1, Len(s) - 1)[i] = s[i]
  <1>1. Len(s) \in Nat \ {0}
    BY SeqParts
  <1>2. PICK n \in Nat : n = Len(s) - 1
    BY <1>1
  <1>3. /\ SubSeq(s, 1, n) \in Seq(S) /\ Len(SubSeq(s, 1, n)) = n - 1 + 1
        /\ \A i \in 1..(n - 1 + 1) : SubSeq(s, 1, n)[i] = s[1 + i - 1]
    BY <1>1, <1>2, Part
  <1>4. \A i \in 1..n : SubSeq(s, 1, n)[i] = s[i]
    BY <1>2, <1>3
  <1> QED
    BY <1>1, <1>2, <1>3, <1>4

LEMMA Selected ==
    ASSUME NEW S, NEW q \in Seq(S), NEW places \in SUBSET DOMAIN q, NEW f \in InOrder(places)
    PROVE  /\ At(q, f) \in Seq(S)
           /\ \A i \in 1..Len(At(q, f)) : f[i] \in places /\ At(q, f)[i] = q[f[i]]
           /\ \A i, j \in 1..Len(At(q, f)) : i < j => f[i] < f[j]
  <1>1. Len(q) \in Nat /\ DOMAIN q = 1..Len(q) /\ \A i \in 1..Len(q) : q[i] \in S
    BY SeqParts
  <1>2. Cardinality(places) \in Nat
    <2>1. IsFiniteSet(1..Len(q))
      BY <1>1, FS_Interval
    <2>2. IsFiniteSet(places)
      BY <1>1, <2>1, FS_Subset
    <2> QED
      BY <2>2, FS_CardinalityType
  <1>3. PICK n \in Nat : n = Cardinality(places)
    BY <1>2
  <1>4. /\ DOMAIN f = 1..n /\ \A i \in 1..n : f[i] \in places
        /\ \A i, j \in 1..n : i < j => f[i] < f[j]
    BY <1>3 DEF InOrder
  <1>5. At(q, f) \in [1..n -> S] /\ \A i \in 1..n : At(q, f)[i] = q[f[i]]
    BY <1>1, <1>4 DEF At
  <1>6. At(q, f) \in Seq(S) /\ Len(At(q, f)) = n
    BY <1>5
  <1> QED
    BY <1>4, <1>5, <1>6

-----------------------------------------------------------------------------
(* The stack of a thread *)

\* what the frame i of t returns to
Below(t, i) == IF i = 1 THEN loop[t].pc ELSE stack[t][i - 1].pc

\* A Send or a Join is made by code that runs; the handler of a call runs on
\* a loop of ReceiveSends, the one of a posted message on Get.
FrameOK(t, f, below) ==
    \/ /\ f.kind = "send" /\ f.pc \in {"push", "check", "sends", "wait"} /\ below = "run"
       /\ f.id \in DOMAIN calls /\ calls[f.id].from = t /\ calls[f.id].to = f.of
    \/ /\ f.kind = "call" /\ f.pc = "run" /\ below = "sends"
       /\ f.id \in DOMAIN calls /\ calls[f.id].to = f.of /\ Home[f.of] = t
    \/ f.kind = "post" /\ f.pc = "run" /\ below = "pull"
    \/ f.kind = "join" /\ f.pc = "join" /\ below = "run" /\ f.of \in MayStop

StackOK == \A t \in Thread : \A i \in 1..Len(stack[t]) : FrameOK(t, stack[t][i], Below(t, i))

\* A call is listed with the thread of its handler.
ListOK ==
    \A t \in Thread : \A i \in 1..Len(sendlist[t]) :
        sendlist[t][i] \in DOMAIN calls /\ Home[calls[sendlist[t][i]].to] = t

SetsOK == /\ ready \subseteq DOMAIN calls /\ Len(calls) <= MaxCalls
          /\ \A t \in Thread : loop[t].cur <= now

\* The messages of a thread are for its handlers, and for none that is gone.
QueueOK ==
    \A t \in Thread :
        /\ \A i \in 1..Len(msgq[t]) : Home[msgq[t][i].to] = t /\ msgq[t][i].to \notin gone
        /\ \A i \in 1..Len(dmsgq[t]) : Home[dmsgq[t][i].to] = t /\ dmsgq[t][i].to \notin gone

\* and nobody is about to post to one that is gone.
PostingOK == \A d \in posting : d.to \notin gone

TypeInv == TypeOK /\ StackOK /\ ListOK /\ SetsOK /\ QueueOK /\ PostingOK

-----------------------------------------------------------------------------
(* Calls *)

\* A call has at most one Send that waits for it; it is answered only after it
\* was listed, and it is listed, or runs, until it is answered.
SendFrame(t, i) == i \in 1..Len(stack[t]) /\ stack[t][i].kind = "send"
CallFrame(t, i) == i \in 1..Len(stack[t]) /\ stack[t][i].kind = "call"

SendsOnce ==
    \A t \in Thread : \A i, j \in 1..Len(stack[t]) :
        SendFrame(t, i) /\ SendFrame(t, j) /\ stack[t][i].id = stack[t][j].id => i = j
RunsOnce ==
    \A t \in Thread : \A i, j \in 1..Len(stack[t]) :
        CallFrame(t, i) /\ CallFrame(t, j) /\ stack[t][i].id = stack[t][j].id => i = j
ListedOnce ==
    \A t \in Thread : \A i, j \in 1..Len(sendlist[t]) : sendlist[t][i] = sendlist[t][j] => i = j
ListedOrRuns ==
    \A t \in Thread : \A i \in 1..Len(sendlist[t]), j \in 1..Len(stack[t]) :
        CallFrame(t, j) => stack[t][j].id # sendlist[t][i]
NotBeforeListed ==
    \A t \in Thread : \A i \in 1..Len(stack[t]) :
        SendFrame(t, i) /\ stack[t][i].pc = "push" => stack[t][i].id \notin ready

InList(c) == \E i \in 1..Len(sendlist[Home[calls[c].to]]) : sendlist[Home[calls[c].to]][i] = c
InFrame(c) ==
    \E i \in 1..Len(stack[Home[calls[c].to]]) :
        CallFrame(Home[calls[c].to], i) /\ stack[Home[calls[c].to]][i].id = c
Waited(c) ==
    \E i \in 1..Len(stack[calls[c].from]) :
        /\ SendFrame(calls[c].from, i) /\ stack[calls[c].from][i].id = c
        /\ stack[calls[c].from][i].pc # "push"

CallInv ==
    /\ SendsOnce /\ RunsOnce /\ ListedOnce /\ ListedOrRuns /\ NotBeforeListed
    /\ \A c \in DOMAIN calls : InList(c) \/ InFrame(c) <=> Waited(c) /\ c \notin ready

-----------------------------------------------------------------------------
(* Wakeups *)

\* What the frames above the frame i consume of its wakeups they make up for.
Repaid(t, i) ==
    signal[t] \/ \E j \in Nat : j > i /\ SendFrame(t, j) /\ stack[t][j].waited

Asleep == {"sends", "wait"}

AnswerSeen ==
    \A t \in Thread, i \in Nat :
        SendFrame(t, i) /\ stack[t][i].pc \in Asleep /\ stack[t][i].id \in ready => Repaid(t, i)

\* A thread that rests without a pending wakeup has seen its calls, and if it
\* rests in Get its messages, the order to stop and its first timer.
AtRest == {"pull", "stop", "wait"}

WorkSeen(t) ==
    /\ Position(t) \in AtRest /\ ~signal[t] => sendlist[t] = <<>>
    /\ stack[t] = <<>> /\ ~signal[t] =>
          /\ loop[t].pc \in {"stop", "wait"} => msgq[t] = <<>>
          /\ loop[t].pc = "wait" => ~fStop[t]

TimerSet(t) ==
    stack[t] = <<>> /\ ~signal[t] /\ dmsgq[t] # <<>> =>
        /\ loop[t].pc = "stop" => /\ loop[t].delay # kForever
                                  /\ loop[t].delay = dmsgq[t][1].at - loop[t].cur
        /\ loop[t].pc = "wait" => /\ loop[t].until # kForever
                                  /\ loop[t].until - dmsgq[t][1].at <= now - loop[t].cur

WakeInv == AnswerSeen /\ \A t \in Thread : WorkSeen(t)

\* The clock has not reached half of its range.
NoWrap == now < ClockMod \div 2

TimerInv == NoWrap => \A t \in Thread : TimerSet(t)

-----------------------------------------------------------------------------
(* The order of messages *)

Earlier(p, m) == p.at < m.at \/ (p.at = m.at /\ p.id < m.id)
Ordered(p, m) == p.timed = m.timed => IF m.timed THEN DueFirst(p, m) ELSE p.id < m.id

Sorted(s) == \A i, j \in 1..Len(s) : j < i => Ordered(s[j], s[i])
Precedes(s, r) == \A i \in 1..Len(s), j \in 1..Len(r) : Ordered(s[i], r[j])

\* posted before now; and, if delayed, due
Past(s) == \A i \in 1..Len(s) : s[i].id <= posts /\ (s[i].timed => s[i].at <= now)
Delayed(s) == \A i \in 1..Len(s) : s[i].id <= posts /\ s[i].timed

\* What was dispatched, what is due and what is delayed are one order.
OrderOf(t) ==
    /\ Sorted(dispatched[t]) /\ Sorted(msgq[t]) /\ Sorted(dmsgq[t])
    /\ Precedes(dispatched[t], msgq[t]) /\ Precedes(dispatched[t], dmsgq[t])
    /\ Precedes(msgq[t], dmsgq[t])
AgeOf(t) == Past(dispatched[t]) /\ Past(msgq[t]) /\ Delayed(dmsgq[t])

OrderInv == NoWrap => \A t \in Thread : OrderOf(t) /\ AgeOf(t)

-----------------------------------------------------------------------------
(* Changes of a stack *)

Grown(t, f) ==
    /\ \A u \in Thread \ {t} : stack'[u] = stack[u]
    /\ Len(stack'[t]) = Len(stack[t]) + 1
    /\ \A i \in 1..Len(stack[t]) : stack'[t][i] = stack[t][i]
    /\ stack'[t][Len(stack[t]) + 1] = f

Shrunk(t) ==
    /\ \A u \in Thread \ {t} : stack'[u] = stack[u]
    /\ Len(stack[t]) \in Nat \ {0} /\ Len(stack'[t]) = Len(stack[t]) - 1
    /\ \A i \in 1..(Len(stack[t]) - 1) : stack'[t][i] = stack[t][i]

Moved(t, p, w) ==
    /\ \A u \in Thread \ {t} : stack'[u] = stack[u]
    /\ Len(stack[t]) \in Nat \ {0} /\ Len(stack'[t]) = Len(stack[t])
    /\ \A i \in 1..(Len(stack[t]) - 1) : stack'[t][i] = stack[t][i]
    /\ stack'[t][Len(stack[t])] = [Top(t) EXCEPT !.pc = p, !.waited = w]

\* Get does not move under a frame.
LoopKept == \A u \in Thread : loop'[u].pc = loop[u].pc \/ stack'[u] = <<>>

CallsKept == /\ Len(calls) \in Nat /\ Len(calls') \in Nat /\ Len(calls) <= Len(calls')
             /\ DOMAIN calls = 1..Len(calls) /\ DOMAIN calls' = 1..Len(calls')
             /\ \A c \in 1..Len(calls) : calls'[c] = calls[c]

PCs == {"push", "check", "sends", "wait", "run", "join"}

LEMMA StackNow ==
    ASSUME TypeOK, NEW t \in Thread
    PROVE  /\ stack[t] \in Seq(Frame) /\ Len(stack[t]) \in Nat /\ DOMAIN stack[t] = 1..Len(stack[t])
           /\ stack[t] = <<>> <=> Len(stack[t]) = 0
           /\ \A i \in 1..Len(stack[t]) : stack[t][i] \in Frame
  <1>1. stack[t] \in Seq(Frame)
    BY DEF TypeOK
  <1> QED
    BY <1>1, SeqParts

LEMMA PushGrows ==
    ASSUME TypeOK, NEW t \in Thread, NEW f \in Frame, Push(t, f)
    PROVE  Grown(t, f) /\ stack' \in [Thread -> Seq(Frame)]
  <1>1. stack \in [Thread -> Seq(Frame)]
    BY DEF TypeOK
  <1>2. PICK s \in Seq(Frame) : s = stack[t]
    BY <1>1
  <1>3. stack' = [stack EXCEPT ![t] = Append(s, f)]
    BY <1>2 DEF Push
  <1>4. /\ Append(s, f) \in Seq(Frame) /\ Len(Append(s, f)) = Len(s) + 1
        /\ \A i \in 1..Len(s) : Append(s, f)[i] = s[i]
        /\ Append(s, f)[Len(s) + 1] = f
    BY Appended
  <1>5. PICK a \in Seq(Frame) : a = Append(s, f)
    BY <1>4
  <1>6. stack' \in [Thread -> Seq(Frame)] /\ stack'[t] = a /\ \A u \in Thread \ {t} : stack'[u] = stack[u]
    BY <1>1, <1>3, <1>5
  <1> QED
    BY <1>2, <1>4, <1>5, <1>6 DEF Grown

LEMMA PopShrinks ==
    ASSUME TypeOK, NEW t \in Thread, stack[t] # <<>>, Pop(t)
    PROVE  Shrunk(t) /\ stack' \in [Thread -> Seq(Frame)]
  <1>1. stack \in [Thread -> Seq(Frame)]
    BY DEF TypeOK
  <1>2. PICK s \in Seq(Frame) : s = stack[t]
    BY <1>1
  <1>3. stack' = [stack EXCEPT ![t] = SubSeq(s, 1, Len(s) - 1)]
    BY <1>2 DEF Pop, Popped
  <1>4. /\ Len(s) \in Nat \ {0}
        /\ SubSeq(s, 1, Len(s) - 1) \in Seq(Frame) /\ Len(SubSeq(s, 1, Len(s) - 1)) = Len(s) - 1
        /\ \A i \in 1..(Len(s) - 1) : SubSeq(s, 1, Len(s) - 1)[i] = s[i]
    BY <1>2, Shortened
  <1>5. PICK a \in Seq(Frame) : a = SubSeq(s, 1, Len(s) - 1)
    BY <1>4
  <1>6. stack' \in [Thread -> Seq(Frame)] /\ stack'[t] = a /\ \A u \in Thread \ {t} : stack'[u] = stack[u]
    BY <1>1, <1>3, <1>5
  <1> QED
    BY <1>2, <1>4, <1>5, <1>6 DEF Shrunk

LEMMA TopMoves ==
    ASSUME TypeOK, NEW t \in Thread, NEW p \in PCs, NEW w \in BOOLEAN, stack[t] # <<>>,
           stack' = [stack EXCEPT ![t] = [stack[t] EXCEPT ![Len(stack[t])] =
                                             [Top(t) EXCEPT !.pc = p, !.waited = w]]]
    PROVE  Moved(t, p, w) /\ stack' \in [Thread -> Seq(Frame)]
  <1>1. /\ stack \in [Thread -> Seq(Frame)] /\ stack[t] \in Seq(Frame) /\ Len(stack[t]) \in Nat \ {0}
        /\ \A i \in 1..Len(stack[t]) : stack[t][i] \in Frame
    BY StackNow DEF TypeOK
  <1>2. PICK n \in Nat \ {0} : n = Len(stack[t])
    BY <1>1
  <1>3. Top(t) \in Frame
    BY <1>1 DEF Top
  <1>4. PICK g \in Frame : g = [Top(t) EXCEPT !.pc = p, !.waited = w]
    BY <1>3 DEF Frame, PCs
  <1>5. PICK s \in Seq(Frame) : s = stack[t]
    BY <1>1
  <1>6. /\ [s EXCEPT ![n] = g] \in Seq(Frame) /\ Len([s EXCEPT ![n] = g]) = n
        /\ [s EXCEPT ![n] = g][n] = g /\ \A i \in 1..(n - 1) : [s EXCEPT ![n] = g][i] = s[i]
    BY <1>1, <1>2, <1>5
  <1>7. PICK a \in Seq(Frame) : a = [s EXCEPT ![n] = g]
    BY <1>6
  <1>8. stack' \in [Thread -> Seq(Frame)] /\ stack'[t] = a /\ \A u \in Thread \ {t} : stack'[u] = stack[u]
    BY <1>1, <1>2, <1>4, <1>5, <1>7
  <1> QED
    BY <1>1, <1>2, <1>4, <1>5, <1>6, <1>7, <1>8 DEF Moved

LEMMA GotoMoves ==
    ASSUME TypeOK, NEW t \in Thread, NEW p \in PCs, stack[t] # <<>>, Goto(t, p)
    PROVE  Moved(t, p, Top(t).waited) /\ stack' \in [Thread -> Seq(Frame)] /\ UNCHANGED loop
  <1>1. /\ stack \in [Thread -> Seq(Frame)] /\ stack[t] \in Seq(Frame) /\ Len(stack[t]) \in Nat \ {0}
        /\ \A i \in 1..Len(stack[t]) : stack[t][i] \in Frame
    BY StackNow DEF TypeOK
  <1>2. Top(t) \in Frame
    BY <1>1 DEF Top
  <1>3. PICK w \in BOOLEAN : w = Top(t).waited
    BY <1>2 DEF Frame
  <1>4. [Top(t) EXCEPT !.pc = p] = [Top(t) EXCEPT !.pc = p, !.waited = w]
    BY <1>2, <1>3 DEF Frame
  <1>5. stack' = [stack EXCEPT ![t] = [stack[t] EXCEPT ![Len(stack[t])] = [Top(t) EXCEPT !.pc = p]]]
    BY DEF Goto, Top
  <1>6. stack' = [stack EXCEPT ![t] = [stack[t] EXCEPT ![Len(stack[t])] =
                                         [Top(t) EXCEPT !.pc = p, !.waited = w]]]
    BY <1>4, <1>5
  <1> QED
    BY <1>3, <1>6, TopMoves DEF Goto

LEMMA WaitMoves ==
    ASSUME TypeOK, NEW t \in Thread, stack[t] # <<>>,
           stack' = [stack EXCEPT ![t][Len(stack[t])].pc = "check",
                                  ![t][Len(stack[t])].waited = TRUE]
    PROVE  Moved(t, "check", TRUE) /\ stack' \in [Thread -> Seq(Frame)]
  <1>1. /\ stack \in [Thread -> Seq(Frame)] /\ stack[t] \in Seq(Frame) /\ Len(stack[t]) \in Nat \ {0}
        /\ \A i \in 1..Len(stack[t]) : stack[t][i] \in Frame
    BY StackNow DEF TypeOK
  <1>2. stack' = [stack EXCEPT ![t] = [stack[t] EXCEPT ![Len(stack[t])] =
                                         [Top(t) EXCEPT !.pc = "check", !.waited = TRUE]]]
    <2>1. PICK n : n = Len(stack[t])
      OBVIOUS
    <2>2. n \in DOMAIN stack[t] /\ t \in DOMAIN stack
      BY <1>1, <2>1
    <2>3. PICK s : s = [stack EXCEPT ![t][n].pc = "check"]
      OBVIOUS
    <2>4. stack' = [s EXCEPT ![t][n].waited = TRUE]
      BY <2>1, <2>3
    <2>5. s = [stack EXCEPT ![t] = [stack[t] EXCEPT ![n] = [stack[t][n] EXCEPT !.pc = "check"]]]
      BY <2>3
    <2>6. stack' = [s EXCEPT ![t] = [s[t] EXCEPT ![n] = [s[t][n] EXCEPT !.waited = TRUE]]]
      BY <2>4
    <2>7. s[t] = [stack[t] EXCEPT ![n] = [stack[t][n] EXCEPT !.pc = "check"]]
      BY <2>2, <2>5
    <2>8. s[t][n] = [stack[t][n] EXCEPT !.pc = "check"]
      BY <2>2, <2>7
    <2>9. stack' = [stack EXCEPT ![t] = [s[t] EXCEPT ![n] = [s[t][n] EXCEPT !.waited = TRUE]]]
      BY <2>5, <2>6
    <2>10. [s[t] EXCEPT ![n] = [s[t][n] EXCEPT !.waited = TRUE]]
             = [stack[t] EXCEPT ![n] = [s[t][n] EXCEPT !.waited = TRUE]]
      BY <2>7
    <2>11. [s[t][n] EXCEPT !.waited = TRUE] = [stack[t][n] EXCEPT !.pc = "check", !.waited = TRUE]
      BY <2>8
    <2> QED
      BY <2>1, <2>9, <2>10, <2>11 DEF Top
  <1> QED
    BY <1>2, TopMoves DEF PCs

\* Where a thread is says what it does.
LEMMA PositionNow ==
    ASSUME TypeOK, StackOK, NEW t \in Thread
    PROVE  /\ stack[t] = <<>> => Position(t) = loop[t].pc /\ loop[t].pc \in LoopPCs
           /\ stack[t] # <<>> =>
                /\ Len(stack[t]) \in Nat \ {0} /\ Top(t) = stack[t][Len(stack[t])]
                /\ Top(t) \in Frame /\ FrameOK(t, Top(t), Below(t, Len(stack[t])))
                /\ Position(t) = Top(t).pc /\ Position(t) \in PCs
           /\ Position(t) \in {"push", "check"} => stack[t] # <<>> /\ Top(t).kind = "send"
           /\ Position(t) \in {"sends", "wait"} /\ stack[t] # <<>> => Top(t).kind = "send"
           /\ Position(t) = "join" => stack[t] # <<>> /\ Top(t).kind = "join"
           /\ Position(t) \in {"pull", "stop"} => stack[t] = <<>>
  <1>1. /\ stack[t] \in Seq(Frame) /\ Len(stack[t]) \in Nat /\ (stack[t] = <<>> <=> Len(stack[t]) = 0)
        /\ \A i \in 1..Len(stack[t]) : stack[t][i] \in Frame
    BY StackNow
  <1>2. loop[t].pc \in LoopPCs
    BY DEF TypeOK
  <1>3. CASE stack[t] = <<>>
    BY <1>2, <1>3 DEF Position, LoopPCs
  <1>4. CASE stack[t] # <<>>
    <2>1. Len(stack[t]) \in Nat \ {0} /\ Len(stack[t]) \in 1..Len(stack[t])
      BY <1>1, <1>4
    <2>2. Top(t) \in Frame /\ FrameOK(t, Top(t), Below(t, Len(stack[t])))
      BY <1>1, <2>1 DEF Top, StackOK
    <2>3. Position(t) = Top(t).pc
      BY <1>4 DEF Position
    <2>4. Top(t).pc \in PCs
      BY <2>2 DEF Frame, PCs
    <2>5. \/ Top(t).kind = "send" /\ Top(t).pc \in {"push", "check", "sends", "wait"}
          \/ Top(t).kind \in {"call", "post"} /\ Top(t).pc = "run"
          \/ Top(t).kind = "join" /\ Top(t).pc = "join"
      BY <2>2 DEF FrameOK
    <2> QED
      BY <1>4, <2>1, <2>2, <2>3, <2>4, <2>5 DEF Top, PCs
  <1> QED
    BY <1>3, <1>4

-----------------------------------------------------------------------------
(* The stack stays well formed *)

LEMMA FrameStays ==
    ASSUME NEW t, NEW f, NEW b, FrameOK(t, f, b), CallsKept
    PROVE  FrameOK(t, f, b)'
  <1>1. f.id \in DOMAIN calls => f.id \in DOMAIN calls' /\ calls'[f.id] = calls[f.id]
    BY DEF CallsKept
  <1> QED
    BY <1>1 DEF FrameOK

\* A frame whose place has not changed.
LEMMA PlaceStays ==
    ASSUME StackOK, CallsKept, LoopKept, NEW t \in Thread, NEW i \in Nat \ {0}, i <= Len(stack[t]),
           stack'[t] # <<>>, \A j \in 1..i : stack'[t][j] = stack[t][j], Len(stack[t]) \in Nat
    PROVE  FrameOK(t, stack[t][i], Below(t, i))'
  <1>1. FrameOK(t, stack[t][i], Below(t, i))
    BY DEF StackOK
  <1>2. PICK f, b : f = stack[t][i] /\ b = Below(t, i)
    OBVIOUS
  <1>3. Below(t, i)' = b
    BY <1>2 DEF Below, LoopKept
  <1>4. FrameOK(t, f, b)'
    BY <1>1, <1>2, FrameStays
  <1>5. stack'[t][i] = f
    BY <1>2
  <1> QED
    BY <1>3, <1>4, <1>5 DEF FrameOK

LEMMA StackSame ==
    ASSUME TypeOK, StackOK, CallsKept, LoopKept, UNCHANGED stack
    PROVE  StackOK'
  <1> SUFFICES ASSUME NEW u \in Thread, NEW i \in 1..Len(stack'[u])
               PROVE  FrameOK(u, stack[u][i], Below(u, i))'
    BY DEF StackOK
  <1>1. Len(stack[u]) \in Nat /\ stack[u] # <<>>
    BY StackNow
  <1> QED
    BY <1>1, PlaceStays

LEMMA StackGrows ==
    ASSUME TypeOK, StackOK, CallsKept, UNCHANGED loop, NEW t \in Thread, NEW f, NEW b,
           Grown(t, f), b = Position(t), FrameOK(t, f, b)', stack' \in [Thread -> Seq(Frame)]
    PROVE  StackOK'
  <1> SUFFICES ASSUME NEW u \in Thread, NEW i \in 1..Len(stack'[u])
               PROVE  FrameOK(u, stack[u][i], Below(u, i))'
    BY DEF StackOK
  <1>1. Len(stack[u]) \in Nat /\ (stack[u] = <<>> <=> Len(stack[u]) = 0)
    BY StackNow
  <1>2. stack'[u] # <<>> /\ LoopKept
    BY SeqParts DEF LoopKept
  <1>3. CASE u # t \/ i <= Len(stack[u])
    <2>1. i \in Nat \ {0} /\ i <= Len(stack[u]) /\ \A j \in 1..i : stack'[u][j] = stack[u][j]
      BY <1>1, <1>3 DEF Grown
    <2> QED
      BY <1>1, <1>2, <2>1, PlaceStays
  <1>4. CASE u = t /\ i = Len(stack[u]) + 1
    <2>1. stack'[u][i] = f
      BY <1>4 DEF Grown
    <2>2. Below(u, i)' = b
      <3>1. CASE stack[t] = <<>>
        BY <1>1, <1>4, <3>1 DEF Below, Position
      <3>2. CASE stack[t] # <<>>
        <4>1. i # 1 /\ i - 1 = Len(stack[t]) /\ stack'[t][i - 1] = stack[t][i - 1]
          BY <1>1, <1>4, <3>2 DEF Grown
        <4> QED
          BY <1>4, <3>2, <4>1 DEF Below, Position, Top
      <3> QED
        BY <3>1, <3>2
    <2> QED
      BY <1>4, <2>1, <2>2 DEF FrameOK
  <1>5. u # t \/ i <= Len(stack[u]) \/ i = Len(stack[u]) + 1
    BY <1>1 DEF Grown
  <1> QED
    BY <1>3, <1>4, <1>5

LEMMA StackShrinks ==
    ASSUME TypeOK, StackOK, CallsKept, LoopKept, NEW t \in Thread, Shrunk(t),
           stack' \in [Thread -> Seq(Frame)]
    PROVE  StackOK'
  <1> SUFFICES ASSUME NEW u \in Thread, NEW i \in 1..Len(stack'[u])
               PROVE  FrameOK(u, stack[u][i], Below(u, i))'
    BY DEF StackOK
  <1>1. Len(stack[u]) \in Nat
    BY StackNow
  <1>2. stack'[u] # <<>>
    BY SeqParts
  <1>3. i \in Nat \ {0} /\ i <= Len(stack[u]) /\ \A j \in 1..i : stack'[u][j] = stack[u][j]
    <2>1. CASE u = t
      BY <1>1, <2>1 DEF Shrunk
    <2>2. CASE u # t
      <3>1. stack'[u] = stack[u]
        BY <2>2 DEF Shrunk
      <3> QED
        BY <1>1, <3>1
    <2> QED
      BY <2>1, <2>2
  <1> QED
    BY <1>1, <1>2, <1>3, PlaceStays

LEMMA StackMoves ==
    ASSUME TypeOK, StackOK, CallsKept, UNCHANGED loop, NEW t \in Thread, NEW p, NEW w, Moved(t, p, w),
           Top(t).kind = "send", p \in {"check", "sends", "wait"}, stack' \in [Thread -> Seq(Frame)]
    PROVE  StackOK'
  <1>0. \A u \in Thread : Len(stack'[u]) \in Nat
    BY SeqParts
  <1> SUFFICES ASSUME NEW u \in Thread, NEW i \in Nat \ {0}, i <= Len(stack'[u])
               PROVE  FrameOK(u, stack[u][i], Below(u, i))'
    BY <1>0 DEF StackOK
  <1>1. Len(stack[u]) \in Nat /\ \A j \in 1..Len(stack[u]) : stack[u][j] \in Frame
    BY StackNow
  <1>2. stack'[u] # <<>> /\ LoopKept
    BY <1>0, SeqParts DEF LoopKept
  <1>3. CASE u # t \/ i < Len(stack[u])
    <2>1. i \in Nat \ {0} /\ i <= Len(stack[u]) /\ \A j \in 1..i : stack'[u][j] = stack[u][j]
      BY <1>1, <1>3 DEF Moved
    <2> QED
      BY <1>1, <1>2, <2>1, PlaceStays
  <1>4. CASE u = t /\ i = Len(stack[u])
    <2>1. PICK f, g, b : f = Top(t) /\ b = Below(t, i) /\ g = stack'[t][i]
      OBVIOUS
    <2>2. f \in Frame /\ FrameOK(t, f, b) /\ f.kind = "send"
      BY <1>1, <1>4, <2>1 DEF Top, StackOK
    <2>3. g = [f EXCEPT !.pc = p, !.waited = w]
      BY <1>4, <2>1 DEF Moved
    <2>4. g.kind = "send" /\ g.pc = p /\ g.id = f.id /\ g.of = f.of
      BY <2>2, <2>3 DEF Frame
    <2>5. FrameOK(t, f, b)'
      BY <2>2, FrameStays
    <2>6. FrameOK(t, g, b)'
      <3>1. f.kind = "send" /\ p \in {"push", "check", "sends", "wait"}
        BY <2>2
      <3> QED
        BY <2>4, <2>5, <3>1 DEF FrameOK
    <2>7. Below(t, i)' = b
      <3>1. i = 1 \/ stack'[t][i - 1] = stack[t][i - 1]
        <4>1. i \in Nat \ {0} /\ i = Len(stack[t])
          BY <1>1, <1>4
        <4>2. \A j \in 1..(i - 1) : stack'[t][j] = stack[t][j]
          BY <4>1 DEF Moved
        <4>3. PICK n \in Nat : i = n + 1
          OBVIOUS
        <4>4. CASE n = 0
          BY <4>1, <4>3, <4>4
        <4>5. CASE n # 0
          <5>1. n \in 1..n
            BY <4>5
          <5> QED
            BY <4>2, <4>3, <5>1
        <4> QED
          BY <4>4, <4>5
      <3> QED
        BY <2>1, <3>1 DEF Below
    <2> QED
      BY <1>4, <2>1, <2>6, <2>7 DEF FrameOK
  <1>5. u # t \/ i <= Len(stack[u])
    BY <1>0, <1>1 DEF Moved
  <1> QED
    BY <1>1, <1>3, <1>4, <1>5

-----------------------------------------------------------------------------
(* What an action does to the other variables *)

LoopState == [pc: LoopPCs, cur: Nat, delay: 0..(ClockMod - 1) \cup {kForever},
              until: Nat \cup {kForever}]

LoopGoes(t, p) == /\ loop' \in [Thread -> LoopState] /\ loop'[t].pc = p
                  /\ \A u \in Thread \ {t} : loop'[u] = loop[u]

Wakes(u) == /\ signal' \in [Thread -> BOOLEAN] /\ signal'[u]
            /\ \A v \in Thread \ {u} : signal'[v] = signal[v]

ListGrown(u, c) ==
    /\ sendlist' \in [Thread -> Seq(Call)]
    /\ \A v \in Thread \ {u} : sendlist'[v] = sendlist[v]
    /\ Len(sendlist'[u]) = Len(sendlist[u]) + 1
    /\ \A i \in 1..Len(sendlist[u]) : sendlist'[u][i] = sendlist[u][i]
    /\ sendlist'[u][Len(sendlist[u]) + 1] = c

ListTaken(t) ==
    /\ sendlist' \in [Thread -> Seq(Call)]
    /\ \A v \in Thread \ {t} : sendlist'[v] = sendlist[v]
    /\ Len(sendlist[t]) \in Nat \ {0} /\ Len(sendlist'[t]) = Len(sendlist[t]) - 1
    /\ \A i \in 1..(Len(sendlist[t]) - 1) : sendlist'[t][i] = sendlist[t][i + 1]

LEMMA ListNow ==
    ASSUME TypeOK, NEW t \in Thread
    PROVE  /\ sendlist[t] \in Seq(Call) /\ Len(sendlist[t]) \in Nat
           /\ sendlist[t] = <<>> <=> Len(sendlist[t]) = 0
           /\ \A i \in 1..Len(sendlist[t]) : sendlist[t][i] \in Call
  <1>1. sendlist[t] \in Seq(Call)
    BY DEF TypeOK
  <1> QED
    BY <1>1, SeqParts

LEMMA WakesUp ==
    ASSUME TypeOK, NEW u \in Thread, WakeUp(u)
    PROVE  Wakes(u)
  BY DEF WakeUp, Wakes, TypeOK

LEMMA ListGrows ==
    ASSUME TypeOK, NEW u \in Thread, NEW c \in Call,
           sendlist' = [sendlist EXCEPT ![u] = Append(@, c)]
    PROVE  ListGrown(u, c)
  <1>1. sendlist \in [Thread -> Seq(Call)]
    BY DEF TypeOK
  <1>2. PICK s \in Seq(Call) : s = sendlist[u]
    BY <1>1
  <1>3. /\ Append(s, c) \in Seq(Call) /\ Len(Append(s, c)) = Len(s) + 1
        /\ \A i \in 1..Len(s) : Append(s, c)[i] = s[i]
        /\ Append(s, c)[Len(s) + 1] = c
    BY Appended
  <1>4. PICK a \in Seq(Call) : a = Append(s, c)
    BY <1>3
  <1>5. /\ sendlist' \in [Thread -> Seq(Call)] /\ sendlist'[u] = a
        /\ \A v \in Thread \ {u} : sendlist'[v] = sendlist[v]
    BY <1>1, <1>2, <1>4
  <1> QED
    BY <1>2, <1>3, <1>4, <1>5 DEF ListGrown

LEMMA ListTakes ==
    ASSUME TypeOK, NEW t \in Thread, sendlist[t] # <<>>, TakeSend(t)
    PROVE  ListTaken(t) /\ Head(sendlist[t]) = sendlist[t][1]
  <1>1. sendlist \in [Thread -> Seq(Call)]
    BY DEF TypeOK
  <1>2. PICK s \in Seq(Call) : s = sendlist[t]
    BY <1>1
  <1>3. /\ Len(s) \in Nat \ {0} /\ Head(s) = s[1] /\ Tail(s) \in Seq(Call) /\ Len(Tail(s)) = Len(s) - 1
        /\ \A i \in 1..(Len(s) - 1) : Tail(s)[i] = s[i + 1]
    BY <1>2, HeadTailProperties, SeqParts
  <1>4. PICK a \in Seq(Call) : a = Tail(s)
    BY <1>3
  <1>5. /\ sendlist' \in [Thread -> Seq(Call)] /\ sendlist'[t] = a
        /\ \A v \in Thread \ {t} : sendlist'[v] = sendlist[v]
    BY <1>1, <1>2, <1>4 DEF TakeSend
  <1> QED
    BY <1>2, <1>3, <1>4, <1>5 DEF ListTaken

LEMMA CallsSame ==
    ASSUME TypeOK, UNCHANGED calls
    PROVE  CallsKept
  <1>1. calls \in Seq([from: Thread, to: Handler])
    BY DEF TypeOK
  <1> QED
    BY <1>1, SeqParts DEF CallsKept

\* The call of a frame.
LEMMA FrameCall ==
    ASSUME TypeInv, NEW c \in DOMAIN calls
    PROVE  /\ c \in 1..Len(calls) /\ c \in Call /\ Len(calls) \in Nat
           /\ calls[c].from \in Thread /\ calls[c].to \in Handler
           /\ Home[calls[c].to] \in Thread /\ Home[calls[c].to] \notin App
  <1>1. calls \in Seq([from: Thread, to: Handler])
    BY DEF TypeInv, TypeOK
  <1>2. Len(calls) \in Nat /\ c \in 1..Len(calls) /\ calls[c] \in [from: Thread, to: Handler]
    BY <1>1, SeqParts
  <1>3. Len(calls) <= MaxCalls /\ MaxCalls \in Nat
    BY ThreadAssumption DEF TypeInv, SetsOK
  <1> QED
    BY <1>2, <1>3, ThreadAssumption DEF Call

\* The innermost frame, a Send.
LEMMA TopSend ==
    ASSUME TypeInv, NEW t \in Thread, stack[t] # <<>>, Top(t).kind = "send"
    PROVE  /\ Top(t) \in Frame /\ Top(t).id \in DOMAIN calls /\ Top(t).id \in Call
           /\ calls[Top(t).id].from = t /\ calls[Top(t).id].to = Top(t).of
           /\ Top(t).of \in Handler /\ Home[Top(t).of] \in Thread
           /\ Position(t) = Top(t).pc /\ Top(t).pc \in {"push", "check", "sends", "wait"}
           /\ Len(stack[t]) \in Nat \ {0} /\ Below(t, Len(stack[t])) = "run"
  <1>1. /\ Top(t) \in Frame /\ FrameOK(t, Top(t), Below(t, Len(stack[t]))) /\ Position(t) = Top(t).pc
        /\ Len(stack[t]) \in Nat \ {0}
    BY PositionNow DEF TypeInv
  <1>2. /\ Top(t).id \in DOMAIN calls /\ calls[Top(t).id].from = t /\ calls[Top(t).id].to = Top(t).of
        /\ Top(t).pc \in {"push", "check", "sends", "wait"} /\ Below(t, Len(stack[t])) = "run"
    BY <1>1 DEF FrameOK
  <1> QED
    BY <1>1, <1>2, FrameCall

LEMMA SendPushEffect ==
    ASSUME TypeInv, NEW t \in Thread, SendPush(t)
    PROVE  /\ stack[t] # <<>> /\ Top(t).kind = "send" /\ Top(t).pc = "push"
           /\ Moved(t, "check", Top(t).waited) /\ stack' \in [Thread -> Seq(Frame)]
           /\ ListGrown(Home[Top(t).of], Top(t).id) /\ Wakes(Home[Top(t).of])
           /\ UNCHANGED <<loop, msgq, dmsgq, posting, fStop, ready, calls, posts, now, gone, destroyed,
                          history>>
  <1>0. TypeOK /\ StackOK
    BY DEF TypeInv
  <1>1. stack[t] # <<>> /\ Top(t).kind = "send" /\ Top(t).pc = "push"
    BY <1>0, PositionNow DEF SendPush
  <1>2. Moved(t, "check", Top(t).waited) /\ stack' \in [Thread -> Seq(Frame)] /\ UNCHANGED loop
    BY <1>0, <1>1, GotoMoves DEF SendPush, PCs
  <1>3. Top(t).id \in Call /\ Home[Top(t).of] \in Thread
    BY <1>1, TopSend
  <1>4. ListGrown(Home[Top(t).of], Top(t).id) /\ Wakes(Home[Top(t).of])
    BY <1>0, <1>3, ListGrows, WakesUp DEF SendPush
  <1> QED
    BY <1>1, <1>2, <1>4 DEF SendPush, history

LEMMA SendCheckEffect ==
    ASSUME TypeInv, NEW t \in Thread, SendCheck(t)
    PROVE  /\ stack[t] # <<>> /\ Top(t).kind = "send" /\ Top(t).pc = "check"
           /\ stack' \in [Thread -> Seq(Frame)]
           /\ UNCHANGED <<loop, queues, fStop, ready, calls, posts, now, gone, destroyed, dispatched>>
           /\ \/ /\ Top(t).id \in ready /\ Shrunk(t) /\ returned' = returned \cup {Top(t).id}
                 /\ (IF Top(t).waited THEN Wakes(t) ELSE UNCHANGED signal)
              \/ /\ Top(t).id \notin ready /\ Moved(t, "sends", Top(t).waited)
                 /\ UNCHANGED <<signal, returned>>
  <1>0. TypeOK /\ StackOK
    BY DEF TypeInv
  <1>1. stack[t] # <<>> /\ Top(t).kind = "send" /\ Top(t).pc = "check"
    BY <1>0, PositionNow DEF SendCheck
  <1>2. CASE Top(t).id \in ready
    <2>1. /\ returned' = returned \cup {Top(t).id} /\ WakeSelf(t) /\ Pop(t) /\ UNCHANGED loop
      BY <1>2 DEF SendCheck
    <2>2. Shrunk(t) /\ stack' \in [Thread -> Seq(Frame)]
      BY <1>0, <1>1, <2>1, PopShrinks
    <2>3. IF Top(t).waited THEN Wakes(t) ELSE UNCHANGED signal
      BY <1>0, <2>1, WakesUp DEF WakeSelf
    <2> QED
      BY <1>1, <1>2, <2>1, <2>2, <2>3 DEF SendCheck
  <1>3. CASE Top(t).id \notin ready
    <2>1. Goto(t, "sends") /\ UNCHANGED <<signal, returned>>
      BY <1>3 DEF SendCheck, NotReady
    <2>2. Moved(t, "sends", Top(t).waited) /\ stack' \in [Thread -> Seq(Frame)] /\ UNCHANGED loop
      BY <1>0, <1>1, <2>1, GotoMoves DEF PCs
    <2> QED
      BY <1>1, <1>3, <2>1, <2>2 DEF SendCheck
  <1> QED
    BY <1>2, <1>3

NewCall(t, h) ==
    /\ CallsKept /\ calls' \in Seq([from: Thread, to: Handler])
    /\ Len(calls') = Len(calls) + 1 /\ Len(calls') <= MaxCalls
    /\ calls'[Len(calls) + 1].from = t /\ calls'[Len(calls) + 1].to = h

LEMMA NewFrameParts ==
    ASSUME NEW kind \in {"send", "call", "post", "join"}, NEW id \in Nat, NEW of \in Handler \cup Thread,
           NEW pc \in PCs
    PROVE  /\ NewFrame(kind, id, of, pc) \in Frame
           /\ NewFrame(kind, id, of, pc).kind = kind /\ NewFrame(kind, id, of, pc).id = id
           /\ NewFrame(kind, id, of, pc).of = of /\ NewFrame(kind, id, of, pc).pc = pc
           /\ NewFrame(kind, id, of, pc).waited = FALSE
  BY DEF NewFrame, Frame, PCs

LEMMA SendEffect ==
    ASSUME TypeInv, NEW t \in Thread, NEW h \in Handler, Send(t, h)
    PROVE  /\ Runs(t) /\ Home[h] # t /\ NewCall(t, h)
           /\ UNCHANGED <<queues, signal, fStop, loop, ready, posts, now, gone, destroyed, dispatched>>
           /\ \/ UNCHANGED stack /\ returned' = returned \cup {Len(calls) + 1}
              \/ /\ UNCHANGED returned /\ stack' \in [Thread -> Seq(Frame)]
                 /\ Grown(t, NewFrame("send", Len(calls) + 1, h, "push"))
  <1>0. TypeOK /\ StackOK
    BY DEF TypeInv
  <1>1. PICK c : c = [from |-> t, to |-> h]
    OBVIOUS
  <1>2. c \in [from: Thread, to: Handler] /\ c.from = t /\ c.to = h
    BY <1>1
  <1>3. PICK s \in Seq([from: Thread, to: Handler]) : s = calls
    BY <1>0 DEF TypeOK
  <1>4. calls' = Append(s, c) /\ Len(s) < MaxCalls
    BY <1>1, <1>3 DEF Send
  <1>5. /\ Append(s, c) \in Seq([from: Thread, to: Handler]) /\ Len(Append(s, c)) = Len(s) + 1
        /\ \A i \in 1..Len(s) : Append(s, c)[i] = s[i]
        /\ Append(s, c)[Len(s) + 1] = c
    BY <1>2, Appended
  <1>6. PICK a \in Seq([from: Thread, to: Handler]) : a = Append(s, c)
    BY <1>5
  <1>7. /\ Len(s) \in Nat /\ Len(a) \in Nat /\ DOMAIN s = 1..Len(s) /\ DOMAIN a = 1..Len(a)
    BY SeqParts
  <1>8. NewCall(t, h)
    BY <1>2, <1>3, <1>4, <1>5, <1>6, <1>7, ThreadAssumption DEF NewCall, CallsKept
  <1>9. PICK f : f = NewFrame("send", Len(calls) + 1, h, "push")
    OBVIOUS
  <1>10. f \in Frame
    <2>1. Len(calls) + 1 \in Nat /\ h \in Handler \cup Thread /\ "push" \in PCs
      BY <1>3, <1>7 DEF PCs
    <2> QED
      BY <1>9, <2>1, NewFrameParts
  <1>11. \/ UNCHANGED stack /\ returned' = returned \cup {Len(calls) + 1}
         \/ UNCHANGED returned /\ Push(t, f)
    BY <1>9 DEF Send
  <1> QED
    BY <1>0, <1>8, <1>9, <1>10, <1>11, PushGrows DEF Send

LEMMA ReceiveSendEffect ==
    ASSUME TypeInv, NEW t \in Thread, ReceiveSend(t)
    PROVE  /\ Position(t) = "sends" /\ ListTaken(t)
           /\ sendlist[t][1] \in DOMAIN calls /\ Home[calls[sendlist[t][1]].to] = t
           /\ stack' \in [Thread -> Seq(Frame)]
           /\ Grown(t, NewFrame("call", sendlist[t][1], calls[sendlist[t][1]].to, "run"))
           /\ UNCHANGED <<msgq, dmsgq, posting, signal, fStop, loop, ready, calls, posts, now, gone, destroyed,
                          history>>
  <1>0. TypeOK /\ ListOK
    BY DEF TypeInv
  <1>1. ListTaken(t) /\ Head(sendlist[t]) = sendlist[t][1]
    BY <1>0, ListTakes DEF ReceiveSend
  <1>2. sendlist[t][1] \in DOMAIN calls /\ Home[calls[sendlist[t][1]].to] = t
    BY <1>0, <1>1 DEF ListOK, ListTaken
  <1>3. sendlist[t][1] \in Nat /\ calls[sendlist[t][1]].to \in Handler
    BY <1>2, FrameCall, ThreadAssumption DEF Call
  <1>4. PICK f : f = NewFrame("call", sendlist[t][1], calls[sendlist[t][1]].to, "run")
    OBVIOUS
  <1>5. f \in Frame
    <2>1. calls[sendlist[t][1]].to \in Handler \cup Thread /\ "run" \in PCs
      BY <1>3 DEF PCs
    <2> QED
      BY <1>3, <1>4, <2>1, NewFrameParts
  <1>6. Push(t, f)
    BY <1>1, <1>4 DEF ReceiveSend
  <1> QED
    BY <1>0, <1>1, <1>2, <1>4, <1>5, <1>6, PushGrows DEF ReceiveSend, history

LEMMA CallReturnsEffect ==
    ASSUME TypeInv, NEW t \in Thread, CallReturns(t)
    PROVE  /\ stack[t] # <<>> /\ Top(t).kind = "call" /\ Top(t).pc = "run"
           /\ Top(t).id \in DOMAIN calls /\ Home[calls[Top(t).id].to] = t
           /\ calls[Top(t).id].from \in Thread
           /\ Shrunk(t) /\ stack' \in [Thread -> Seq(Frame)] /\ Below(t, Len(stack[t])) = "sends"
           /\ Wakes(calls[Top(t).id].from) /\ ready' = ready \cup {Top(t).id}
           /\ UNCHANGED <<queues, fStop, loop, calls, posts, now, gone, destroyed, history>>
  <1>0. TypeOK /\ StackOK
    BY DEF TypeInv
  <1>1. stack[t] # <<>> /\ Top(t).kind = "call"
    BY DEF CallReturns
  <1>2. FrameOK(t, Top(t), Below(t, Len(stack[t])))
    BY <1>0, <1>1, PositionNow
  <1>3. /\ Top(t).id \in DOMAIN calls /\ Home[calls[Top(t).id].to] = t /\ Top(t).pc = "run"
        /\ Below(t, Len(stack[t])) = "sends"
    BY <1>1, <1>2 DEF FrameOK
  <1>4. calls[Top(t).id].from \in Thread
    BY <1>3, FrameCall
  <1>5. Shrunk(t) /\ stack' \in [Thread -> Seq(Frame)]
    BY <1>0, <1>1, PopShrinks DEF CallReturns
  <1>6. Wakes(calls[Top(t).id].from)
    BY <1>0, <1>4, WakesUp DEF CallReturns
  <1> QED
    BY <1>1, <1>3, <1>4, <1>5, <1>6 DEF CallReturns, history

LEMMA LoopMoves ==
    ASSUME TypeOK, NEW t \in Thread, NEW p \in LoopPCs, loop' = [loop EXCEPT ![t].pc = p]
    PROVE  LoopGoes(t, p) /\ loop'[t].cur = loop[t].cur
  BY DEF LoopGoes, TypeOK, LoopState

LEMMA LoopRestarts ==
    ASSUME TypeOK, NEW t \in Thread, loop' = [loop EXCEPT ![t].pc = "sends", ![t].cur = now]
    PROVE  LoopGoes(t, "sends") /\ loop'[t].cur = now
  <1>1. loop \in [Thread -> LoopState] /\ now \in Nat
    BY DEF TypeOK, LoopState
  <1>2. PICK l \in [Thread -> LoopState] : l = [loop EXCEPT ![t].pc = "sends"]
    BY <1>1 DEF LoopState, LoopPCs
  <1>3. loop' = [l EXCEPT ![t].cur = now]
    BY <1>2
  <1>4. l[t].pc = "sends" /\ \A u \in Thread \ {t} : l[u] = loop[u]
    BY <1>1, <1>2 DEF LoopState
  <1>5. PICK g : g = [l[t] EXCEPT !.cur = now]
    OBVIOUS
  <1>6. g \in LoopState /\ g.pc = "sends" /\ g.cur = now
    BY <1>1, <1>4, <1>5 DEF LoopState
  <1>7. loop' = [l EXCEPT ![t] = g]
    BY <1>3, <1>5
  <1> QED
    BY <1>4, <1>6, <1>7 DEF LoopGoes

LEMMA SendsDoneEffect ==
    ASSUME TypeInv, NEW t \in Thread, SendsDone(t)
    PROVE  /\ Position(t) = "sends" /\ sendlist[t] = <<>>
           /\ UNCHANGED <<queues, signal, fStop, ready, calls, posts, now, gone, destroyed, history>>
           /\ \/ /\ stack[t] = <<>> /\ UNCHANGED stack /\ LoopGoes(t, "pull")
                 /\ loop'[t].cur = loop[t].cur
              \/ /\ stack[t] # <<>> /\ Top(t).kind = "send" /\ UNCHANGED loop
                 /\ Moved(t, "wait", Top(t).waited) /\ stack' \in [Thread -> Seq(Frame)]
  <1>0. TypeOK /\ StackOK
    BY DEF TypeInv
  <1>1. /\ Position(t) = "sends" /\ sendlist[t] = <<>>
        /\ UNCHANGED <<queues, signal, fStop, ready, calls, posts, now, gone, destroyed, history>>
    BY DEF SendsDone
  <1>2. CASE stack[t] = <<>>
    <2>1. Goto(t, "pull")
      BY <1>2 DEF SendsDone
    <2>2. loop' = [loop EXCEPT ![t].pc = "pull"] /\ UNCHANGED stack
      BY <1>2, <2>1 DEF Goto
    <2>3. LoopGoes(t, "pull") /\ loop'[t].cur = loop[t].cur
      BY <1>0, <2>2, LoopMoves DEF LoopPCs
    <2> QED
      BY <1>1, <1>2, <2>2, <2>3
  <1>3. CASE stack[t] # <<>>
    <2>1. Goto(t, "wait")
      BY <1>3 DEF SendsDone
    <2>2. Moved(t, "wait", Top(t).waited) /\ stack' \in [Thread -> Seq(Frame)] /\ UNCHANGED loop
      BY <1>0, <1>3, <2>1, GotoMoves DEF PCs
    <2>3. Top(t).kind = "send"
      BY <1>0, <1>1, <1>3, PositionNow
    <2> QED
      BY <1>1, <1>3, <2>2, <2>3
  <1> QED
    BY <1>2, <1>3

LEMMA PostReturnsEffect ==
    ASSUME TypeInv, NEW t \in Thread, PostReturns(t)
    PROVE  /\ stack[t] # <<>> /\ stack'[t] = <<>> /\ Shrunk(t) /\ stack' \in [Thread -> Seq(Frame)]
           /\ LoopGoes(t, "sends") /\ loop'[t].cur = now
           /\ UNCHANGED <<queues, signal, fStop, ready, calls, posts, now, gone, destroyed, history>>
  <1>0. TypeOK /\ StackOK
    BY DEF TypeInv
  <1>1. /\ stack[t] # <<>> /\ Top(t).kind = "post" /\ Pop(t)
        /\ loop' = [loop EXCEPT ![t].pc = "sends", ![t].cur = now]
    BY DEF PostReturns
  <1>2. Shrunk(t) /\ stack' \in [Thread -> Seq(Frame)]
    BY <1>0, <1>1, PopShrinks
  <1>3. FrameOK(t, Top(t), Below(t, Len(stack[t])))
    BY <1>0, <1>1, PositionNow
  <1>4. Below(t, Len(stack[t])) = "pull"
    BY <1>1, <1>3 DEF FrameOK
  <1>5. Len(stack[t]) = 1
    <2>1. ASSUME Len(stack[t]) # 1 PROVE FALSE
      <3>0. PICK n \in Nat : Len(stack[t]) = n + 1
        BY <1>2 DEF Shrunk
      <3>1. n \in 1..Len(stack[t]) /\ n = Len(stack[t]) - 1 /\ stack[t][n] \in Frame
        BY <1>0, <2>1, <3>0, StackNow
      <3>2. stack[t][Len(stack[t]) - 1].pc # "pull"
        BY <3>1 DEF Frame
      <3> QED
        BY <1>4, <2>1, <3>2 DEF Below
    <2> QED
      BY <2>1
  <1>6. stack'[t] = <<>>
    BY <1>2, <1>5, SeqParts DEF Shrunk
  <1> QED
    BY <1>0, <1>1, <1>2, <1>6, LoopRestarts DEF PostReturns

LEMMA StopCheckEffect ==
    ASSUME TypeInv, NEW t \in Thread, StopCheck(t)
    PROVE  /\ stack[t] = <<>> /\ loop[t].pc = "stop" /\ UNCHANGED stack /\ loop'[t].cur = loop[t].cur
           /\ \/ fStop[t] /\ LoopGoes(t, "exited")
              \/ ~fStop[t] /\ LoopGoes(t, "wait") /\ loop'[t].until = WaitUntil(loop[t].delay)
           /\ UNCHANGED <<queues, signal, fStop, ready, calls, posts, now, gone, destroyed, history>>
  <1>0. TypeOK /\ StackOK
    BY DEF TypeInv
  <1>1. stack[t] = <<>> /\ loop[t].pc = "stop"
    BY <1>0, PositionNow DEF StopCheck
  <1>2. CASE fStop[t]
    <2>1. loop' = [loop EXCEPT ![t].pc = "exited"]
      BY <1>2 DEF StopCheck
    <2>2. LoopGoes(t, "exited") /\ loop'[t].cur = loop[t].cur
      BY <1>0, <2>1, LoopMoves DEF LoopPCs
    <2> QED
      BY <1>1, <1>2, <2>2 DEF StopCheck
  <1>3. CASE ~fStop[t]
    <2>1. PICK w : w = WaitUntil(loop[t].delay)
      OBVIOUS
    <2>2. loop' = [loop EXCEPT ![t].pc = "wait", ![t].until = w]
      BY <1>3, <2>1 DEF StopCheck
    <2>3. loop \in [Thread -> LoopState] /\ now \in Nat
      BY <1>0 DEF TypeOK, LoopState
    <2>4. w \in Nat \cup {kForever}
      BY <2>1, <2>3, ThreadAssumption DEF WaitUntil, LoopState, kForever
    <2>5. PICK l \in [Thread -> LoopState] : l = [loop EXCEPT ![t].pc = "wait"]
      BY <2>3 DEF LoopState, LoopPCs
    <2>6. loop' = [l EXCEPT ![t].until = w]
      BY <2>2, <2>5
    <2>7. l[t].pc = "wait" /\ l[t].cur = loop[t].cur /\ \A u \in Thread \ {t} : l[u] = loop[u]
      BY <2>3, <2>5 DEF LoopState
    <2>8. LoopGoes(t, "wait") /\ loop'[t].cur = loop[t].cur /\ loop'[t].until = w
      BY <2>4, <2>6, <2>7 DEF LoopGoes, LoopState
    <2> QED
      BY <1>1, <1>3, <2>1, <2>8 DEF StopCheck
  <1> QED
    BY <1>2, <1>3

LEMMA WaitSignalledEffect ==
    ASSUME TypeInv, NEW t \in Thread, WaitSignalled(t)
    PROVE  /\ Position(t) = "wait" /\ signal' \in [Thread -> BOOLEAN]
           /\ \A u \in Thread \ {t} : signal'[u] = signal[u]
           /\ UNCHANGED <<queues, fStop, ready, calls, posts, now, gone, destroyed, history>>
           /\ \/ /\ stack[t] = <<>> /\ UNCHANGED stack /\ LoopGoes(t, "sends") /\ loop'[t].cur = now
              \/ /\ stack[t] # <<>> /\ Top(t).kind = "send" /\ UNCHANGED loop
                 /\ Moved(t, "check", TRUE) /\ stack' \in [Thread -> Seq(Frame)]
  <1>0. TypeOK /\ StackOK
    BY DEF TypeInv
  <1>1. /\ Position(t) = "wait" /\ signal' \in [Thread -> BOOLEAN]
        /\ \A u \in Thread \ {t} : signal'[u] = signal[u]
        /\ UNCHANGED <<queues, fStop, ready, calls, posts, now, gone, destroyed, history>>
    BY <1>0 DEF WaitSignalled, TypeOK
  <1>2. CASE stack[t] = <<>>
    <2>1. loop' = [loop EXCEPT ![t].pc = "sends", ![t].cur = now] /\ UNCHANGED stack
      BY <1>2 DEF WaitSignalled
    <2>2. LoopGoes(t, "sends") /\ loop'[t].cur = now
      BY <1>0, <2>1, LoopRestarts
    <2> QED
      BY <1>1, <1>2, <2>1, <2>2
  <1>3. CASE stack[t] # <<>>
    <2>1. /\ stack' = [stack EXCEPT ![t][Len(stack[t])].pc = "check",
                                    ![t][Len(stack[t])].waited = TRUE]
          /\ UNCHANGED loop
      BY <1>3 DEF WaitSignalled
    <2>2. Moved(t, "check", TRUE) /\ stack' \in [Thread -> Seq(Frame)]
      BY <1>0, <1>3, <2>1, WaitMoves
    <2>3. Top(t).kind = "send"
      BY <1>0, <1>1, <1>3, PositionNow
    <2> QED
      BY <1>1, <1>3, <2>1, <2>2, <2>3
  <1> QED
    BY <1>2, <1>3

LEMMA WaitTimeoutEffect ==
    ASSUME TypeInv, NEW t \in Thread, WaitTimeout(t)
    PROVE  /\ stack[t] = <<>> /\ UNCHANGED stack /\ LoopGoes(t, "sends") /\ loop'[t].cur = now
           /\ UNCHANGED <<queues, signal, fStop, ready, calls, posts, now, gone, destroyed, history>>
  <1>0. TypeOK
    BY DEF TypeInv
  <1> QED
    BY <1>0, LoopRestarts DEF WaitTimeout

-----------------------------------------------------------------------------
(* What an action does to the queues *)

LEMMA QueuesNow ==
    ASSUME TypeOK, NEW t \in Thread
    PROVE  /\ msgq[t] \in Seq(PostedMessage) /\ Len(msgq[t]) \in Nat
           /\ msgq[t] = <<>> <=> Len(msgq[t]) = 0
           /\ \A i \in 1..Len(msgq[t]) : msgq[t][i] \in PostedMessage
           /\ dmsgq[t] \in Seq(PostedMessage) /\ Len(dmsgq[t]) \in Nat
           /\ dmsgq[t] = <<>> <=> Len(dmsgq[t]) = 0
           /\ \A i \in 1..Len(dmsgq[t]) : dmsgq[t][i] \in PostedMessage
           /\ dispatched[t] \in Seq(PostedMessage) /\ Len(dispatched[t]) \in Nat
           /\ \A i \in 1..Len(dispatched[t]) : dispatched[t][i] \in PostedMessage
  <1>1. msgq[t] \in Seq(PostedMessage) /\ dmsgq[t] \in Seq(PostedMessage)
        /\ dispatched[t] \in Seq(PostedMessage)
    BY DEF TypeOK
  <1> QED
    BY <1>1, SeqParts

\* a is s with m at its end
Extends(a, s, m) == /\ Len(a) = Len(s) + 1 /\ a[Len(s) + 1] = m
                    /\ \A i \in 1..Len(s) : a[i] = s[i]

\* a is s with m after the first k
Inserted(a, s, m, k) == /\ Len(a) = Len(s) + 1 /\ k \in 0..Len(s) /\ a[k + 1] = m
                        /\ \A i \in 1..k : a[i] = s[i]
                        /\ \A i \in (k + 1)..Len(s) : a[i + 1] = s[i]

\* a is what is left of s without the messages for hs, in order
LeftOf(a, s, hs) ==
    \E f : /\ \A i \in 1..Len(a) : f[i] \in 1..Len(s) /\ a[i] = s[f[i]] /\ s[f[i]].to \notin hs
           /\ \A i, j \in 1..Len(a) : i < j => f[i] < f[j]

NewMessage(m, h, at, timed) ==
    /\ m \in PostedMessage /\ m.id = posts + 1 /\ m.to = h /\ m.at = at /\ m.timed = timed
    /\ timed => m.put = now

Posted(h) ==
    /\ posts' = posts + 1 /\ h \notin gone
    /\ UNCHANGED <<sendlist, fStop, loop, stack, ready, calls, now, gone, destroyed, history>>

LEMMA PostEffect ==
    ASSUME TypeInv, NEW t \in Thread, NEW h \in Handler, Post(t, h)
    PROVE  /\ Posted(h) /\ UNCHANGED <<dmsgq, posting>>
           /\ \/ UNCHANGED <<msgq, signal>>
              \/ /\ Wakes(Home[h]) /\ msgq' \in [Thread -> Seq(PostedMessage)]
                 /\ \A u \in Thread \ {Home[h]} : msgq'[u] = msgq[u]
                 /\ \E m : /\ NewMessage(m, h, 0, FALSE)
                           /\ Extends(msgq'[Home[h]], msgq[Home[h]], m)
  <1>0. TypeOK /\ Home[h] \in Thread
    BY ThreadAssumption DEF TypeInv
  <1>1. Posted(h) /\ UNCHANGED <<dmsgq, posting>>
    BY <1>0, ThreadAssumption DEF Post, CanPost, Posted, TypeOK
  <1>2. CASE fStop[Home[h]]
    BY <1>1, <1>2 DEF Post
  <1>3. CASE ~fStop[Home[h]]
    <2>1. PICK m : m = [id |-> posts', to |-> h, at |-> 0, put |-> 0, timed |-> FALSE]
      OBVIOUS
    <2>2. NewMessage(m, h, 0, FALSE)
      BY <1>0, <1>1, <2>1, ThreadAssumption DEF NewMessage, PostedMessage, Posted, TypeOK
    <2>3. PICK s \in Seq(PostedMessage) : s = msgq[Home[h]]
      BY <1>0, QueuesNow
    <2>4. msgq' = [msgq EXCEPT ![Home[h]] = Append(s, m)] /\ WakeUp(Home[h])
      BY <1>3, <2>1, <2>3 DEF Post
    <2>5. /\ Append(s, m) \in Seq(PostedMessage) /\ Len(Append(s, m)) = Len(s) + 1
          /\ \A i \in 1..Len(s) : Append(s, m)[i] = s[i]
          /\ Append(s, m)[Len(s) + 1] = m
      BY <2>2, Appended DEF NewMessage
    <2>6. Extends(Append(s, m), s, m)
      BY <2>5 DEF Extends
    <2>7. PICK a \in Seq(PostedMessage) : a = Append(s, m)
      BY <2>5
    <2>8. /\ msgq' \in [Thread -> Seq(PostedMessage)] /\ msgq'[Home[h]] = a
          /\ \A u \in Thread \ {Home[h]} : msgq'[u] = msgq[u]
      BY <1>0, <2>4, <2>7 DEF TypeOK
    <2>9. Wakes(Home[h])
      BY <1>0, <2>4, WakesUp
    <2> QED
      BY <1>1, <2>2, <2>3, <2>6, <2>7, <2>8, <2>9
  <1> QED
    BY <1>2, <1>3

LEMMA Insertion ==
    ASSUME NEW S, NEW s \in Seq(S), NEW m \in S, NEW k \in 0..Len(s)
    PROVE  /\ SubSeq(s, 1, k) \o <<m>> \o SubSeq(s, k + 1, Len(s)) \in Seq(S)
           /\ Inserted(SubSeq(s, 1, k) \o <<m>> \o SubSeq(s, k + 1, Len(s)), s, m, k)
  <1>1. Len(s) \in Nat /\ k \in Nat
    BY SeqParts
  <1>2. PICK n \in Nat : n = Len(s)
    BY <1>1
  <1>3. /\ SubSeq(s, 1, k) \in Seq(S) /\ Len(SubSeq(s, 1, k)) = k
        /\ \A i \in 1..k : SubSeq(s, 1, k)[i] = s[i]
    <2>1. /\ SubSeq(s, 1, k) \in Seq(S) /\ Len(SubSeq(s, 1, k)) = k - 1 + 1
          /\ \A i \in 1..(k - 1 + 1) : SubSeq(s, 1, k)[i] = s[1 + i - 1]
      BY <1>1, Part
    <2> QED
      BY <1>1, <2>1
  <1>4. /\ SubSeq(s, k + 1, n) \in Seq(S) /\ Len(SubSeq(s, k + 1, n)) = n - k
        /\ \A i \in 1..(n - k) : SubSeq(s, k + 1, n)[i] = s[k + i]
    <2>1. /\ SubSeq(s, k + 1, n) \in Seq(S) /\ Len(SubSeq(s, k + 1, n)) = n - (k + 1) + 1
          /\ \A i \in 1..(n - (k + 1) + 1) : SubSeq(s, k + 1, n)[i] = s[k + 1 + i - 1]
      BY <1>1, <1>2, Part
    <2> QED
      BY <1>1, <1>2, <2>1
  <1>5. PICK a \in Seq(S), b \in Seq(S) : a = SubSeq(s, 1, k) /\ b = SubSeq(s, k + 1, n)
    BY <1>3, <1>4
  <1>6. PICK c \in Seq(S) : /\ c = a \o <<m>> /\ Len(c) = Len(a) + 1 /\ c[Len(a) + 1] = m
                           /\ \A i \in 1..Len(a) : c[i] = a[i]
    <2>1. <<m>> \in Seq(S) /\ Len(<<m>>) = 1 /\ <<m>>[1] = m
      OBVIOUS
    <2>2. PICK e \in Seq(S) : e = <<m>> /\ Len(e) = 1 /\ e[1] = m
      BY <2>1
    <2>3. /\ a \o e \in Seq(S) /\ Len(a \o e) = Len(a) + Len(e)
          /\ \A i \in 1..Len(a) : (a \o e)[i] = a[i]
          /\ \A i \in 1..Len(e) : (a \o e)[Len(a) + i] = e[i]
      BY Joined
    <2>4. (a \o e)[Len(a) + 1] = m
      BY <2>2, <2>3
    <2> QED
      BY <2>2, <2>3, <2>4
  <1>7. /\ Len(c) = k + 1 /\ c[k + 1] = m /\ \A i \in 1..k : c[i] = s[i]
    BY <1>1, <1>3, <1>5, <1>6
  <1>8. PICK d \in Seq(S) : /\ d = c \o b /\ Len(d) = Len(c) + Len(b)
                            /\ \A i \in 1..Len(c) : d[i] = c[i]
                            /\ \A i \in 1..Len(b) : d[Len(c) + i] = b[i]
    <2>1. /\ c \o b \in Seq(S) /\ Len(c \o b) = Len(c) + Len(b)
          /\ \A i \in 1..Len(c) : (c \o b)[i] = c[i]
          /\ \A i \in 1..Len(b) : (c \o b)[Len(c) + i] = b[i]
      BY Joined
    <2> QED
      BY <2>1
  <1>9. /\ Len(d) = n + 1 /\ d[k + 1] = m /\ \A i \in 1..k : d[i] = s[i]
    BY <1>1, <1>2, <1>4, <1>5, <1>7, <1>8
  <1>10. \A i \in (k + 1)..n : d[i + 1] = s[i]
    <2> SUFFICES ASSUME NEW i \in (k + 1)..n PROVE d[i + 1] = s[i]
      OBVIOUS
    <2>1. PICK j \in Nat : i = k + j /\ j \in 1..(n - k)
      BY <1>1
    <2>2. d[Len(c) + j] = b[j]
      BY <1>4, <1>5, <1>8, <2>1
    <2>3. b[j] = s[k + j]
      BY <1>4, <1>5, <2>1
    <2>4. Len(c) + j = i + 1
      BY <1>1, <1>7, <2>1
    <2> QED
      BY <2>1, <2>2, <2>3, <2>4
  <1>11. d = SubSeq(s, 1, k) \o <<m>> \o SubSeq(s, k + 1, Len(s))
    BY <1>2, <1>5, <1>6, <1>8
  <1>12. Inserted(d, s, m, k)
    BY <1>2, <1>9, <1>10 DEF Inserted
  <1> QED
    BY <1>11, <1>12

LEMMA PostDelayedEffect ==
    ASSUME TypeInv, NEW t \in Thread, NEW h \in Handler, NEW delay \in 0..(MaxTime - now),
           PostDelayed(t, h, delay)
    PROVE  /\ posting' \subseteq [from: Thread, to: Handler, at: 0..MaxTime]
           /\ PostingOK' /\ posts' \in {posts, posts + 1}
           /\ UNCHANGED <<sendlist, msgq, dmsgq, signal, fStop, loop, stack, ready, calls, now, gone,
                          destroyed, history>>
  <1>0. TypeOK /\ PostingOK
    BY DEF TypeInv
  <1>1. h \notin gone
    BY DEF PostDelayed, CanPost
  <1>2. PICK d : d = [from |-> t, to |-> h, at |-> now + delay]
    OBVIOUS
  <1>3. d \in [from: Thread, to: Handler, at: 0..MaxTime] /\ d.to = h
    <2>1. now + delay \in 0..MaxTime
      BY <1>0, ThreadAssumption DEF TypeOK
    <2> QED
      BY <1>2, <2>1
  <1>4. posting' = posting \/ posting' = posting \cup {d}
    BY <1>2 DEF PostDelayed, TimeAfter
  <1>5. posting' \subseteq [from: Thread, to: Handler, at: 0..MaxTime]
    BY <1>0, <1>3, <1>4 DEF TypeOK
  <1>6. UNCHANGED gone /\ posts' \in {posts, posts + 1}
    BY DEF PostDelayed
  <1>7. PostingOK'
    BY <1>0, <1>1, <1>3, <1>4, <1>6 DEF PostingOK
  <1> QED
    BY <1>5, <1>6, <1>7 DEF PostDelayed, history

LEMMA DoDelayPostEffect ==
    ASSUME TypeInv, NEW t \in Thread, DoDelayPost(t)
    PROVE  \E h \in Handler :
              /\ Posted(h) /\ UNCHANGED msgq /\ posting' \subseteq posting /\ Wakes(Home[h])
              /\ dmsgq' \in [Thread -> Seq(PostedMessage)]
              /\ \A u \in Thread \ {Home[h]} : dmsgq'[u] = dmsgq[u]
              /\ \E m, k, at : /\ NewMessage(m, h, at, TRUE)
                               /\ Inserted(dmsgq'[Home[h]], dmsgq[Home[h]], m, k)
                               /\ \A i \in 1..k : Before(dmsgq[Home[h]][i], m)
                               /\ \A i \in (k + 1)..Len(dmsgq[Home[h]]) : ~Before(dmsgq[Home[h]][i], m)
  <1>0. TypeOK /\ PostingOK
    BY DEF TypeInv
  <1>1. PICK d \in posting :
          /\ posting' = posting \ {d} /\ posts' = posts + 1
          /\ Insert(Home[d.to], [id |-> posts', to |-> d.to, at |-> d.at, put |-> now, timed |-> TRUE])
          /\ WakeUp(Home[d.to])
    BY DEF DoDelayPost
  <1>2. d.to \in Handler /\ d.at \in 0..MaxTime /\ d.to \notin gone
    BY <1>0 DEF TypeOK, PostingOK
  <1>3. PICK h \in Handler, at \in 0..MaxTime : h = d.to /\ at = d.at
    BY <1>2
  <1>4. Home[h] \in Thread
    BY ThreadAssumption
  <1>5. Posted(h) /\ UNCHANGED msgq /\ posting' \subseteq posting
    BY <1>1, <1>2, <1>3 DEF DoDelayPost, Posted
  <1>6. PICK m : m = [id |-> posts', to |-> h, at |-> at, put |-> now, timed |-> TRUE]
    OBVIOUS
  <1>7. NewMessage(m, h, at, TRUE)
    <2>1. posts + 1 \in Nat /\ now \in Nat
      BY <1>0 DEF TypeOK
    <2> QED
      BY <1>1, <1>6, <2>1 DEF NewMessage, PostedMessage
  <1>8. PICK s \in Seq(PostedMessage) : s = dmsgq[Home[h]]
    BY <1>0, <1>4, QueuesNow
  <1>9. Insert(Home[h], m) /\ WakeUp(Home[h])
    BY <1>1, <1>3, <1>6
  <1>10. PICK k \in 0..Len(s) :
          /\ \A i \in 1..k : Before(s[i], m)
          /\ \A i \in (k + 1)..Len(s) : ~Before(s[i], m)
          /\ dmsgq' = [dmsgq EXCEPT ![Home[h]] = SubSeq(s, 1, k) \o <<m>> \o SubSeq(s, k + 1, Len(s))]
    BY <1>8, <1>9 DEF Insert
  <1>11. PICK a : a = SubSeq(s, 1, k) \o <<m>> \o SubSeq(s, k + 1, Len(s))
    OBVIOUS
  <1>12. a \in Seq(PostedMessage) /\ Inserted(a, s, m, k)
    BY <1>7, <1>11, Insertion DEF NewMessage
  <1>13. /\ dmsgq' \in [Thread -> Seq(PostedMessage)] /\ dmsgq'[Home[h]] = a
         /\ \A u \in Thread \ {Home[h]} : dmsgq'[u] = dmsgq[u]
    BY <1>0, <1>4, <1>10, <1>11, <1>12 DEF TypeOK
  <1>14. Wakes(Home[h])
    BY <1>0, <1>4, <1>9, WakesUp
  <1> QED
    BY <1>5, <1>7, <1>8, <1>10, <1>12, <1>13, <1>14

Combined(a, s, r, n) == /\ Len(a) = Len(s) + n
                        /\ \A i \in 1..Len(s) : a[i] = s[i]
                        /\ \A i \in 1..n : a[Len(s) + i] = r[i]

\* a is s without its first n
Dropped(a, s, n) == Len(a) = Len(s) - n /\ \A i \in 1..(Len(s) - n) : a[i] = s[n + i]

\* n delayed messages become due, and m, the first of all, is dispatched
Dispatches(t, n, a, m) ==
    /\ n \in 0..Len(dmsgq[t]) /\ Due(t, n)
    /\ msgq' \in [Thread -> Seq(PostedMessage)] /\ dmsgq' \in [Thread -> Seq(PostedMessage)]
    /\ dispatched' \in [Thread -> Seq(PostedMessage)]
    /\ \A u \in Thread \ {t} : /\ msgq'[u] = msgq[u] /\ dmsgq'[u] = dmsgq[u]
                               /\ dispatched'[u] = dispatched[u]
    /\ a \in Seq(PostedMessage) /\ Len(a) \in Nat \ {0} /\ m = a[1] /\ m \in PostedMessage
    /\ Combined(a, msgq[t], dmsgq[t], n)
    /\ Dropped(msgq'[t], a, 1) /\ Dropped(dmsgq'[t], dmsgq[t], n)
    /\ Extends(dispatched'[t], dispatched[t], m)
    /\ stack' \in [Thread -> Seq(Frame)] /\ Grown(t, NewFrame("post", m.id, m.to, "run"))

LEMMA Dropping ==
    ASSUME NEW S, NEW s \in Seq(S), NEW n \in 0..Len(s)
    PROVE  SubSeq(s, n + 1, Len(s)) \in Seq(S) /\ Dropped(SubSeq(s, n + 1, Len(s)), s, n)
  <1>1. Len(s) \in Nat /\ n \in Nat /\ n + 1 \in 1..(Len(s) + 1)
    BY SeqParts
  <1>2. PICK k \in Nat : k = Len(s)
    BY <1>1
  <1>3. /\ SubSeq(s, n + 1, k) \in Seq(S) /\ Len(SubSeq(s, n + 1, k)) = k - (n + 1) + 1
        /\ \A i \in 1..(k - (n + 1) + 1) : SubSeq(s, n + 1, k)[i] = s[n + 1 + i - 1]
    BY <1>1, <1>2, Part
  <1>4. \A i \in 1..(k - n) : SubSeq(s, n + 1, k)[i] = s[n + i]
    BY <1>1, <1>2, <1>3
  <1> QED
    BY <1>1, <1>2, <1>3, <1>4 DEF Dropped

LEMMA Combining ==
    ASSUME NEW S, NEW s \in Seq(S), NEW r \in Seq(S), NEW n \in 0..Len(r)
    PROVE  s \o SubSeq(r, 1, n) \in Seq(S) /\ Combined(s \o SubSeq(r, 1, n), s, r, n)
  <1>1. Len(r) \in Nat /\ Len(s) \in Nat /\ n \in Nat
    BY SeqParts
  <1>2. /\ SubSeq(r, 1, n) \in Seq(S) /\ Len(SubSeq(r, 1, n)) = n - 1 + 1
        /\ \A i \in 1..(n - 1 + 1) : SubSeq(r, 1, n)[i] = r[1 + i - 1]
    BY <1>1, Part
  <1>3. PICK b \in Seq(S) : b = SubSeq(r, 1, n) /\ Len(b) = n /\ \A i \in 1..n : b[i] = r[i]
    <2>1. Len(SubSeq(r, 1, n)) = n /\ \A i \in 1..n : SubSeq(r, 1, n)[i] = r[i]
      BY <1>1, <1>2
    <2> QED
      BY <1>2, <2>1
  <1>4. /\ s \o b \in Seq(S) /\ Len(s \o b) = Len(s) + Len(b)
        /\ \A i \in 1..Len(s) : (s \o b)[i] = s[i]
        /\ \A i \in 1..Len(b) : (s \o b)[Len(s) + i] = b[i]
    BY Joined
  <1> QED
    BY <1>3, <1>4 DEF Combined

LEMMA PullEffect ==
    ASSUME TypeInv, NEW t \in Thread, Pull(t)
    PROVE  /\ stack[t] = <<>> /\ loop[t].pc = "pull"
           /\ UNCHANGED <<sendlist, posting, signal, fStop, ready, calls, posts, now, gone, destroyed,
                   returned>>
           /\ \/ /\ msgq[t] = <<>> /\ Due(t, 0) /\ UNCHANGED <<msgq, dmsgq, stack, dispatched>>
                 /\ LoopGoes(t, "stop") /\ loop'[t].cur = loop[t].cur
                 /\ loop'[t].delay = DelayNext(t, dmsgq[t])
              \/ UNCHANGED loop /\ \E n, a, m : Dispatches(t, n, a, m)
  <1>0. TypeOK /\ StackOK
    BY DEF TypeInv
  <1>1. stack[t] = <<>> /\ loop[t].pc = "pull"
    BY <1>0, PositionNow DEF Pull
  <1>2. UNCHANGED <<sendlist, posting, signal, fStop, ready, calls, posts, now, gone, destroyed,
                   returned>>
    BY DEF Pull
  <1>3. PICK s \in Seq(PostedMessage), r \in Seq(PostedMessage) : s = msgq[t] /\ r = dmsgq[t]
    BY <1>0, QueuesNow
  <1>4. PICK n \in 0..Len(r) :
          /\ Due(t, n)
          /\ dmsgq' = [dmsgq EXCEPT ![t] = SubSeq(r, n + 1, Len(r))]
          /\ IF s \o SubSeq(r, 1, n) = <<>>
             THEN /\ loop' = [loop EXCEPT ![t].pc = "stop",
                                          ![t].delay = DelayNext(t, SubSeq(r, n + 1, Len(r)))]
                  /\ UNCHANGED <<msgq, stack, dispatched>>
             ELSE /\ msgq' = [msgq EXCEPT ![t] = Tail(s \o SubSeq(r, 1, n))]
                  /\ dispatched' = [dispatched EXCEPT ![t] = Append(@, Head(s \o SubSeq(r, 1, n)))]
                  /\ Push(t, NewFrame("post", Head(s \o SubSeq(r, 1, n)).id,
                                      Head(s \o SubSeq(r, 1, n)).to, "run"))
                  /\ UNCHANGED loop
    BY <1>3 DEF Pull
  <1>5. PICK a, b : a = s \o SubSeq(r, 1, n) /\ b = SubSeq(r, n + 1, Len(r))
    OBVIOUS
  <1>6. a \in Seq(PostedMessage) /\ Combined(a, s, r, n)
    BY <1>5, Combining
  <1>7. b \in Seq(PostedMessage) /\ Dropped(b, r, n)
    BY <1>5, Dropping
  <1>8. /\ Len(s) \in Nat /\ Len(r) \in Nat /\ Len(a) \in Nat /\ (a = <<>> <=> Len(a) = 0)
        /\ (s = <<>> <=> Len(s) = 0) /\ \A i \in 1..Len(a) : a[i] \in PostedMessage
    BY <1>6, SeqParts
  <1>9. /\ dmsgq' = [dmsgq EXCEPT ![t] = b]
        /\ IF a = <<>>
           THEN /\ loop' = [loop EXCEPT ![t].pc = "stop", ![t].delay = DelayNext(t, b)]
                /\ UNCHANGED <<msgq, stack, dispatched>>
           ELSE /\ msgq' = [msgq EXCEPT ![t] = Tail(a)]
                /\ dispatched' = [dispatched EXCEPT ![t] = Append(@, Head(a))]
                /\ Push(t, NewFrame("post", Head(a).id, Head(a).to, "run"))
                /\ UNCHANGED loop
    BY <1>4, <1>5
  <1>10. CASE a = <<>>
    <2>1. n = 0 /\ s = <<>>
      BY <1>6, <1>8, <1>10 DEF Combined
    <2>2. b = r
      <3>1. b \in Seq(PostedMessage) /\ Len(b) = Len(r) /\ \A i \in 1..Len(r) : b[i] = r[i]
        BY <1>7, <1>8, <2>1 DEF Dropped
      <3> QED
        BY <3>1, SeqEqual
    <2>3. UNCHANGED dmsgq
      BY <1>0, <1>3, <1>9, <2>2 DEF TypeOK
    <2>4. PICK d : d = DelayNext(t, b)
      OBVIOUS
    <2>5. loop \in [Thread -> LoopState]
      BY <1>0 DEF TypeOK, LoopState
    <2>6. d \in 0..(ClockMod - 1) \cup {kForever}
      <3>1. CASE b = <<>>
        BY <2>4, <3>1 DEF DelayNext
      <3>2. CASE b # <<>>
        <4>1. Head(b) \in PostedMessage
          BY <1>7, <3>2, HeadTailProperties
        <4>2. Head(b).at \in Int /\ loop[t].cur \in Int
          BY <2>5, <4>1, ThreadAssumption DEF PostedMessage, LoopState
        <4>3. Clock(Head(b).at) - Clock(loop[t].cur) \in Int
          BY <4>2, ThreadAssumption DEF Clock
        <4>4. TimeDiff(Head(b).at, loop[t].cur) \in 0..(ClockMod - 1)
          BY <4>3, ThreadAssumption DEF TimeDiff
        <4> QED
          BY <2>4, <3>2, <4>4 DEF DelayNext
      <3> QED
        BY <3>1, <3>2
    <2>7. PICK l \in [Thread -> LoopState] : l = [loop EXCEPT ![t].pc = "stop"]
      BY <2>5 DEF LoopState, LoopPCs
    <2>8. loop' = [l EXCEPT ![t].delay = d]
      BY <1>9, <1>10, <2>4, <2>7
    <2>9. l[t].pc = "stop" /\ l[t].cur = loop[t].cur /\ \A u \in Thread \ {t} : l[u] = loop[u]
      BY <2>5, <2>7 DEF LoopState
    <2>10. PICK g : g = [l[t] EXCEPT !.delay = d]
      OBVIOUS
    <2>11. g \in LoopState /\ g.pc = "stop" /\ g.cur = loop[t].cur /\ g.delay = d
      BY <2>6, <2>9, <2>10 DEF LoopState
    <2>12. loop' = [l EXCEPT ![t] = g]
      BY <2>8, <2>10
    <2>13. LoopGoes(t, "stop") /\ loop'[t].cur = loop[t].cur /\ loop'[t].delay = d
      BY <2>9, <2>11, <2>12 DEF LoopGoes
    <2> QED
      BY <1>1, <1>2, <1>3, <1>4, <1>9, <1>10, <2>1, <2>2, <2>3, <2>4, <2>13
  <1>11. CASE a # <<>>
    <2>1. /\ Len(a) \in Nat \ {0} /\ a[1] \in PostedMessage /\ Head(a) = a[1] /\ Tail(a) \in Seq(PostedMessage)
          /\ Len(Tail(a)) = Len(a) - 1 /\ \A i \in 1..(Len(a) - 1) : Tail(a)[i] = a[i + 1]
      BY <1>6, <1>8, <1>11, HeadTailProperties
    <2>2. PICK c \in Seq(PostedMessage), m \in PostedMessage : c = Tail(a) /\ m = Head(a)
      BY <2>1
    <2>3. Dropped(c, a, 1)
      BY <2>1, <2>2 DEF Dropped
    <2>4. PICK h \in Seq(PostedMessage) : h = dispatched[t]
      BY <1>0, QueuesNow
    <2>5. Append(h, m) \in Seq(PostedMessage) /\ Extends(Append(h, m), h, m)
      BY Appended DEF Extends
    <2>6. /\ dispatched' = [dispatched EXCEPT ![t] = Append(h, m)] /\ msgq' = [msgq EXCEPT ![t] = c]
          /\ dmsgq' = [dmsgq EXCEPT ![t] = b] /\ UNCHANGED loop
          /\ Push(t, NewFrame("post", m.id, m.to, "run"))
      BY <1>9, <1>11, <2>2, <2>4
    <2>7. NewFrame("post", m.id, m.to, "run") \in Frame
      <3>1. m.id \in Nat /\ m.to \in Handler \cup Thread /\ "run" \in PCs
        BY ThreadAssumption DEF PostedMessage, PCs
      <3> QED
        BY <3>1, NewFrameParts
    <2>8. Grown(t, NewFrame("post", m.id, m.to, "run")) /\ stack' \in [Thread -> Seq(Frame)]
      BY <1>0, <2>6, <2>7, PushGrows
    <2>9. /\ msgq' \in [Thread -> Seq(PostedMessage)] /\ dmsgq' \in [Thread -> Seq(PostedMessage)]
          /\ dispatched' \in [Thread -> Seq(PostedMessage)]
          /\ msgq'[t] = c /\ dmsgq'[t] = b /\ dispatched'[t] = Append(h, m)
          /\ \A u \in Thread \ {t} : /\ msgq'[u] = msgq[u] /\ dmsgq'[u] = dmsgq[u]
                                     /\ dispatched'[u] = dispatched[u]
      BY <1>0, <1>7, <2>5, <2>6 DEF TypeOK
    <2>10. Dispatches(t, n, a, m)
      BY <1>3, <1>4, <1>6, <1>7, <2>1, <2>2, <2>3, <2>4, <2>5, <2>8, <2>9 DEF Dispatches
    <2> QED
      BY <1>1, <1>2, <2>6, <2>10
  <1> QED
    BY <1>10, <1>11

LEMMA Leaving ==
    ASSUME NEW s \in Seq(PostedMessage), NEW hs, NEW f \in InOrder(NotFor(s, hs))
    PROVE  At(s, f) \in Seq(PostedMessage) /\ LeftOf(At(s, f), s, hs)
  <1>1. DOMAIN s = 1..Len(s) /\ NotFor(s, hs) \in SUBSET DOMAIN s
    BY SeqParts DEF NotFor
  <1>2. /\ At(s, f) \in Seq(PostedMessage)
        /\ \A i \in 1..Len(At(s, f)) : f[i] \in NotFor(s, hs) /\ At(s, f)[i] = s[f[i]]
        /\ \A i, j \in 1..Len(At(s, f)) : i < j => f[i] < f[j]
    BY <1>1, Selected
  <1> QED
    BY <1>1, <1>2 DEF LeftOf, NotFor

Cleared(t, hs) ==
    /\ msgq' \in [Thread -> Seq(PostedMessage)] /\ dmsgq' \in [Thread -> Seq(PostedMessage)]
    /\ \A u \in Thread \ {t} : msgq'[u] = msgq[u] /\ dmsgq'[u] = dmsgq[u]
    /\ LeftOf(msgq'[t], msgq[t], hs) /\ LeftOf(dmsgq'[t], dmsgq[t], hs)

\* Clear touches the posted messages only: it looks for calls to answer in a
\* list that it has found empty.
LEMMA ClearEffect ==
    ASSUME TypeOK, NEW t \in Thread, NEW hs, ThreadClear(t, hs)
    PROVE  Cleared(t, hs) /\ UNCHANGED <<ready, signal, sendlist>>
  <1>1. PICK s \in Seq(PostedMessage), r \in Seq(PostedMessage) : s = msgq[t] /\ r = dmsgq[t]
    BY QueuesNow
  <1>2. PICK f \in InOrder(NotFor(s, hs)) : msgq' = [msgq EXCEPT ![t] = At(s, f)]
    BY <1>1 DEF ThreadClear, MessageQueueClear
  <1>3. PICK g \in InOrder(NotFor(r, hs)) : dmsgq' = [dmsgq EXCEPT ![t] = At(r, g)]
    BY <1>1 DEF ThreadClear, MessageQueueClear
  <1>4. /\ At(s, f) \in Seq(PostedMessage) /\ LeftOf(At(s, f), s, hs)
        /\ At(r, g) \in Seq(PostedMessage) /\ LeftOf(At(r, g), r, hs)
    BY Leaving
  <1>5. PICK a \in Seq(PostedMessage), b \in Seq(PostedMessage) : a = At(s, f) /\ b = At(r, g)
    BY <1>4
  <1>6. Cleared(t, hs)
    BY <1>1, <1>2, <1>3, <1>4, <1>5 DEF Cleared, TypeOK
  <1>7. CASE sendlist[t] = <<>>
    <2>1. sendlist[t] \in Seq(Call) /\ Len(sendlist[t]) = 0 /\ DOMAIN sendlist[t] = {}
      BY <1>7
    <2>2. Matching(t, hs) = {}
      BY <2>1 DEF Matching, Listed
    <2>3. UNCHANGED ready
      BY <1>7, <2>2 DEF ThreadClear
    <2>4. UNCHANGED signal
      <3>1. signal' = [u \in Thread |-> signal[u] \/ \E c \in Matching(t, hs) : calls[c].from = u]
        BY <1>7 DEF ThreadClear
      <3>2. \A u \in Thread : (signal[u] \/ \E c \in Matching(t, hs) : calls[c].from = u) = signal[u]
        BY <2>2 DEF TypeOK
      <3> QED
        BY <3>1, <3>2 DEF TypeOK
    <2>5. UNCHANGED sendlist
      <3>1. PICK places : places = {i \in DOMAIN sendlist[t] : sendlist[t][i] \notin Matching(t, hs)}
        OBVIOUS
      <3>2. places \in SUBSET DOMAIN sendlist[t] /\ places = {}
        BY <2>1, <3>1
      <3>3. PICK k \in InOrder(places) : sendlist' = [sendlist EXCEPT ![t] = At(@, k)]
        BY <1>7, <3>1 DEF ThreadClear
      <3>4. At(sendlist[t], k) \in Seq(Call)
            /\ \A i \in 1..Len(At(sendlist[t], k)) : k[i] \in places
        BY <2>1, <3>2, Selected
      <3>5. At(sendlist[t], k) = <<>>
        <4>1. Len(At(sendlist[t], k)) \in Nat
          BY <3>4, SeqParts
        <4>2. Len(At(sendlist[t], k)) = 0
          BY <3>2, <3>4, <4>1
        <4> QED
          BY <3>4, <4>2, SeqParts
      <3> QED
        BY <1>7, <3>3, <3>5 DEF TypeOK
    <2> QED
      BY <1>6, <2>3, <2>4, <2>5
  <1>8. CASE sendlist[t] # <<>>
    BY <1>6, <1>8 DEF ThreadClear
  <1> QED
    BY <1>7, <1>8

LEMMA DestroyEffect ==
    ASSUME TypeInv, NEW t \in Thread, NEW h \in Handler, DestroyHandler(t, h)
    PROVE  /\ Runs(t) /\ Home[h] = t /\ gone' = gone \cup {h} /\ Cleared(t, {h})
           /\ \A d \in posting : d.to # h
           /\ UNCHANGED <<ready, signal, sendlist, posting, fStop, loop, stack, calls, posts, now,
                          destroyed, history>>
  <1>0. TypeOK
    BY DEF TypeInv
  <1>1. ThreadClear(t, {h})
    BY DEF DestroyHandler
  <1>2. Cleared(t, {h}) /\ UNCHANGED <<ready, signal, sendlist>>
    BY <1>0, <1>1, ClearEffect
  <1> QED
    BY <1>2 DEF DestroyHandler, history

LEMMA StopEffect ==
    ASSUME TypeInv, NEW t \in Thread, NEW u \in Thread, Stop(t, u)
    PROVE  /\ Runs(t) /\ u \in MayStop /\ fStop' \in [Thread -> BOOLEAN]
           /\ \A v \in Thread \ {u} : fStop'[v] = fStop[v]
           /\ Wakes(u) /\ Grown(t, NewFrame("join", 0, u, "join")) /\ stack' \in [Thread -> Seq(Frame)]
           /\ UNCHANGED <<queues, loop, ready, calls, posts, now, gone, destroyed, history>>
  <1>0. TypeOK
    BY DEF TypeInv
  <1>1. NewFrame("join", 0, u, "join") \in Frame
    <2>1. u \in Handler \cup Thread /\ "join" \in PCs
      BY DEF PCs
    <2> QED
      BY <2>1, NewFrameParts
  <1>2. Grown(t, NewFrame("join", 0, u, "join")) /\ stack' \in [Thread -> Seq(Frame)]
    BY <1>0, <1>1, PushGrows DEF Stop
  <1>3. Wakes(u)
    BY <1>0, WakesUp DEF Stop
  <1>4. fStop' \in [Thread -> BOOLEAN] /\ \A v \in Thread \ {u} : fStop'[v] = fStop[v]
    BY <1>0 DEF Stop, TypeOK
  <1> QED
    BY <1>2, <1>3, <1>4 DEF Stop

LEMMA JoinReturnsEffect ==
    ASSUME TypeInv, NEW t \in Thread, JoinReturns(t)
    PROVE  /\ stack[t] # <<>> /\ Top(t).kind = "join" /\ Shrunk(t) /\ stack' \in [Thread -> Seq(Frame)]
           /\ Below(t, Len(stack[t])) = "run"
           /\ Top(t).of \in MayStop /\ Top(t).of \in Thread /\ loop[Top(t).of].pc = "exited"
           /\ Cleared(Top(t).of, Handler) /\ destroyed' = destroyed \cup {Top(t).of}
           /\ UNCHANGED <<ready, signal, sendlist, posting, fStop, loop, calls, posts, now, gone, history>>
  <1>0. TypeOK /\ StackOK
    BY DEF TypeInv
  <1>1. stack[t] # <<>> /\ Top(t).kind = "join"
    BY <1>0, PositionNow DEF JoinReturns
  <1>2. Top(t).of \in MayStop /\ Below(t, Len(stack[t])) = "run"
    <2>1. FrameOK(t, Top(t), Below(t, Len(stack[t])))
      BY <1>0, <1>1, PositionNow
    <2> QED
      BY <1>1, <2>1 DEF FrameOK
  <1>3. Top(t).of \in Thread
    BY <1>2, ThreadAssumption
  <1>4. PICK u \in Thread : u = Top(t).of
    BY <1>3
  <1>5. ThreadClear(u, Handler) /\ loop[u].pc = "exited" /\ destroyed' = destroyed \cup {u}
    BY <1>4 DEF JoinReturns
  <1>6. Cleared(u, Handler) /\ UNCHANGED <<ready, signal, sendlist>>
    BY <1>0, <1>5, ClearEffect
  <1>7. Shrunk(t) /\ stack' \in [Thread -> Seq(Frame)]
    BY <1>0, <1>1, PopShrinks DEF JoinReturns
  <1> QED
    BY <1>1, <1>2, <1>4, <1>5, <1>6, <1>7 DEF JoinReturns

-----------------------------------------------------------------------------
(* Types *)

\* The parts of TypeInv that an action leaves alone.
LEMMA ListStays ==
    ASSUME ListOK, CallsKept, UNCHANGED sendlist
    PROVE  ListOK'
  BY DEF ListOK, CallsKept

LEMMA QueueStays ==
    ASSUME QueueOK, UNCHANGED <<msgq, dmsgq, gone>>
    PROVE  QueueOK'
  BY DEF QueueOK

LEMMA PostingStays ==
    ASSUME TypeInv, UNCHANGED <<posting, gone>>
    PROVE  PostingOK'
  BY DEF TypeInv, PostingOK

LEMMA SetsStay ==
    ASSUME SetsOK, CallsKept, UNCHANGED <<ready, loop, now>>, Len(calls') <= MaxCalls
    PROVE  SetsOK'
  BY DEF SetsOK, CallsKept

LEMMA TypeSend ==
    ASSUME TypeInv, NEW t \in Thread, NEW h \in Handler, Send(t, h)
    PROVE  TypeInv'
  <1>0. TypeOK /\ StackOK /\ ListOK /\ SetsOK /\ QueueOK
    BY DEF TypeInv
  <1>1. /\ Runs(t) /\ NewCall(t, h)
        /\ UNCHANGED <<queues, signal, fStop, loop, ready, posts, now, gone, destroyed, dispatched>>
        /\ \/ UNCHANGED stack /\ returned' = returned \cup {Len(calls) + 1}
           \/ /\ UNCHANGED returned /\ stack' \in [Thread -> Seq(Frame)]
              /\ Grown(t, NewFrame("send", Len(calls) + 1, h, "push"))
    BY SendEffect
  <1>2. CallsKept /\ Len(calls') <= MaxCalls /\ LoopKept
    BY <1>1 DEF NewCall, LoopKept
  <1>3. Len(calls) + 1 \in Call
    BY <1>1, ThreadAssumption DEF NewCall, CallsKept, Call
  <1>4. stack' \in [Thread -> Seq(Frame)] /\ returned' \subseteq Call
    BY <1>0, <1>1, <1>3 DEF TypeOK
  <1>5. TypeOK'
    BY <1>0, <1>1, <1>4 DEF TypeOK, queues, NewCall
  <1>6. StackOK'
    <2>1. CASE UNCHANGED stack
      BY <1>0, <1>2, <2>1, StackSame
    <2>2. CASE Grown(t, NewFrame("send", Len(calls) + 1, h, "push"))
      <3>1. PICK f, c : c = Len(calls) + 1 /\ f = NewFrame("send", c, h, "push")
        OBVIOUS
      <3>2. f.kind = "send" /\ f.pc = "push" /\ f.id = c /\ f.of = h
        BY <3>1 DEF NewFrame
      <3>3. c \in DOMAIN calls' /\ calls'[c].from = t /\ calls'[c].to = h
        BY <1>1, <1>3, <3>1 DEF NewCall, CallsKept
      <3>4. FrameOK(t, f, "run")'
        BY <3>2, <3>3 DEF FrameOK
      <3> QED
        BY <1>0, <1>1, <1>2, <1>4, <2>2, <3>1, <3>4, StackGrows DEF Runs
    <2> QED
      BY <1>1, <2>1, <2>2
  <1> QED
    BY <1>0, <1>1, <1>2, <1>5, <1>6, ListStays, QueueStays, PostingStays, SetsStay DEF TypeInv, queues

LEMMA TypeSendPush ==
    ASSUME TypeInv, NEW t \in Thread, SendPush(t)
    PROVE  TypeInv'
  <1>0. TypeOK /\ StackOK /\ ListOK /\ SetsOK /\ QueueOK
    BY DEF TypeInv
  <1>1. /\ stack[t] # <<>> /\ Top(t).kind = "send"
        /\ Moved(t, "check", Top(t).waited) /\ stack' \in [Thread -> Seq(Frame)]
        /\ ListGrown(Home[Top(t).of], Top(t).id) /\ Wakes(Home[Top(t).of])
        /\ UNCHANGED <<loop, msgq, dmsgq, posting, fStop, ready, calls, posts, now, gone, destroyed,
                          history>>
    BY SendPushEffect
  <1>2. PICK u, c : u = Home[Top(t).of] /\ c = Top(t).id
    OBVIOUS
  <1>3. c \in DOMAIN calls /\ calls[c].to = Top(t).of /\ u \in Thread
    BY <1>1, <1>2, TopSend
  <1>4. CallsKept
    BY <1>0, <1>1, CallsSame
  <1>5. TypeOK'
    BY <1>0, <1>1 DEF TypeOK, ListGrown, Wakes, history
  <1>6. StackOK'
    <2>1. PICK w : w = Top(t).waited
      OBVIOUS
    <2> QED
      BY <1>0, <1>1, <1>4, <2>1, StackMoves
  <1>7. ListOK'
    <2> SUFFICES ASSUME NEW v \in Thread, NEW i \in Nat \ {0}, i <= Len(sendlist'[v])
                 PROVE  sendlist'[v][i] \in DOMAIN calls /\ Home[calls[sendlist'[v][i]].to] = v
      <3>1. \A v \in Thread : Len(sendlist'[v]) \in Nat
        BY <1>1, SeqParts DEF ListGrown
      <3> QED
        BY <1>1, <3>1 DEF ListOK
    <2>1. Len(sendlist[v]) \in Nat
      BY <1>0, ListNow
    <2>2. CASE v # u
      BY <1>0, <1>1, <1>2, <2>1, <2>2 DEF ListOK, ListGrown
    <2>3. CASE v = u /\ i <= Len(sendlist[u])
      <3>1. i \in 1..Len(sendlist[v]) /\ sendlist'[v][i] = sendlist[v][i]
        BY <1>1, <1>2, <2>1, <2>3 DEF ListGrown
      <3> QED
        BY <1>0, <3>1 DEF ListOK
    <2>4. CASE v = u /\ i = Len(sendlist[u]) + 1
      BY <1>1, <1>2, <1>3, <2>4 DEF ListGrown
    <2>5. v = u => i <= Len(sendlist[u]) + 1
      BY <1>1, <1>2 DEF ListGrown
    <2> QED
      BY <2>1, <2>2, <2>3, <2>4, <2>5
  <1> QED
    BY <1>0, <1>1, <1>4, <1>5, <1>6, <1>7, QueueStays, PostingStays, SetsStay DEF TypeInv, SetsOK

LEMMA TypeSendCheck ==
    ASSUME TypeInv, NEW t \in Thread, SendCheck(t)
    PROVE  TypeInv'
  <1>0. TypeOK /\ StackOK /\ ListOK /\ SetsOK /\ QueueOK
    BY DEF TypeInv
  <1>1. /\ stack[t] # <<>> /\ Top(t).kind = "send" /\ stack' \in [Thread -> Seq(Frame)]
        /\ UNCHANGED <<loop, queues, fStop, ready, calls, posts, now, gone, destroyed, dispatched>>
        /\ \/ /\ Top(t).id \in ready /\ Shrunk(t) /\ returned' = returned \cup {Top(t).id}
              /\ (IF Top(t).waited THEN Wakes(t) ELSE UNCHANGED signal)
           \/ /\ Top(t).id \notin ready /\ Moved(t, "sends", Top(t).waited)
              /\ UNCHANGED <<signal, returned>>
    BY SendCheckEffect
  <1>2. CallsKept /\ LoopKept
    BY <1>0, <1>1, CallsSame DEF LoopKept
  <1>3. signal' \in [Thread -> BOOLEAN]
    BY <1>0, <1>1 DEF Wakes, TypeOK
  <1>4. returned' \subseteq Call
    BY <1>0, <1>1 DEF TypeOK
  <1>5. TypeOK'
    BY <1>0, <1>1, <1>3, <1>4 DEF TypeOK, queues
  <1>6. StackOK'
    <2>1. PICK w : w = Top(t).waited
      OBVIOUS
    <2>2. Shrunk(t) \/ Moved(t, "sends", w)
      BY <1>1, <2>1
    <2> QED
      BY <1>0, <1>1, <1>2, <2>2, StackShrinks, StackMoves
  <1> QED
    BY <1>0, <1>1, <1>2, <1>5, <1>6, ListStays, QueueStays, PostingStays, SetsStay DEF TypeInv, queues, SetsOK

LEMMA TypeReceiveSend ==
    ASSUME TypeInv, NEW t \in Thread, ReceiveSend(t)
    PROVE  TypeInv'
  <1>0. TypeOK /\ StackOK /\ ListOK /\ SetsOK /\ QueueOK
    BY DEF TypeInv
  <1>1. /\ Position(t) = "sends" /\ ListTaken(t)
        /\ sendlist[t][1] \in DOMAIN calls /\ Home[calls[sendlist[t][1]].to] = t
        /\ stack' \in [Thread -> Seq(Frame)]
        /\ Grown(t, NewFrame("call", sendlist[t][1], calls[sendlist[t][1]].to, "run"))
        /\ UNCHANGED <<msgq, dmsgq, posting, signal, fStop, loop, ready, calls, posts, now, gone, destroyed,
                       history>>
    BY ReceiveSendEffect
  <1>2. CallsKept
    BY <1>0, <1>1, CallsSame
  <1>3. TypeOK'
    BY <1>0, <1>1 DEF TypeOK, ListTaken, history
  <1>4. StackOK'
    <2>1. PICK c, h : c = sendlist[t][1] /\ h = calls[sendlist[t][1]].to
      OBVIOUS
    <2>2. PICK f : f = NewFrame("call", c, h, "run")
      OBVIOUS
    <2>3. f.kind = "call" /\ f.pc = "run" /\ f.id = c /\ f.of = h
      BY <2>2 DEF NewFrame
    <2>4. FrameOK(t, f, "sends")'
      BY <1>1, <2>1, <2>3 DEF FrameOK
    <2> QED
      BY <1>0, <1>1, <1>2, <2>1, <2>2, <2>4, StackGrows
  <1>5. ListOK'
    <2> SUFFICES ASSUME NEW v \in Thread, NEW i \in Nat \ {0}, i <= Len(sendlist'[v])
                 PROVE  sendlist'[v][i] \in DOMAIN calls /\ Home[calls[sendlist'[v][i]].to] = v
      <3>1. \A v \in Thread : Len(sendlist'[v]) \in Nat
        BY <1>1, SeqParts DEF ListTaken
      <3> QED
        BY <1>1, <3>1 DEF ListOK
    <2>1. Len(sendlist[v]) \in Nat
      BY <1>0, ListNow
    <2>2. CASE v # t
      <3>1. sendlist'[v] = sendlist[v]
        BY <1>1, <2>2 DEF ListTaken
      <3>2. i \in 1..Len(sendlist[v])
        BY <2>1, <3>1
      <3> QED
        BY <1>0, <3>1, <3>2 DEF ListOK
    <2>3. CASE v = t
      <3>1. PICK n \in Nat : n = Len(sendlist[v]) /\ Len(sendlist'[v]) = n - 1
        BY <1>1, <2>1, <2>3 DEF ListTaken
      <3>2. i \in 1..(n - 1) /\ i + 1 \in 1..n
        BY <3>1
      <3>3. sendlist'[v][i] = sendlist[v][i + 1]
        BY <1>1, <2>3, <3>1, <3>2 DEF ListTaken
      <3> QED
        BY <1>0, <3>1, <3>2, <3>3 DEF ListOK
    <2> QED
      BY <2>2, <2>3
  <1> QED
    BY <1>0, <1>1, <1>2, <1>3, <1>4, <1>5, QueueStays, PostingStays, SetsStay DEF TypeInv, SetsOK

LEMMA TypeCallReturns ==
    ASSUME TypeInv, NEW t \in Thread, CallReturns(t)
    PROVE  TypeInv'
  <1>0. TypeOK /\ StackOK /\ ListOK /\ SetsOK /\ QueueOK
    BY DEF TypeInv
  <1>1. /\ Top(t).id \in DOMAIN calls /\ calls[Top(t).id].from \in Thread
        /\ Shrunk(t) /\ stack' \in [Thread -> Seq(Frame)]
        /\ Wakes(calls[Top(t).id].from) /\ ready' = ready \cup {Top(t).id}
        /\ UNCHANGED <<queues, fStop, loop, calls, posts, now, gone, destroyed, history>>
    BY CallReturnsEffect
  <1>2. CallsKept /\ LoopKept
    BY <1>0, <1>1, CallsSame DEF LoopKept
  <1>3. Top(t).id \in Call
    BY <1>1, FrameCall
  <1>4. TypeOK'
    BY <1>0, <1>1, <1>3 DEF TypeOK, queues, Wakes, history
  <1>5. StackOK'
    BY <1>0, <1>1, <1>2, StackShrinks
  <1>6. SetsOK'
    BY <1>0, <1>1 DEF SetsOK
  <1> QED
    BY <1>0, <1>1, <1>2, <1>4, <1>5, <1>6, ListStays, QueueStays, PostingStays DEF TypeInv, queues

LEMMA CurStays ==
    ASSUME TypeOK, SetsOK, NEW t \in Thread, NEW p, LoopGoes(t, p), loop'[t].cur \in {loop[t].cur, now},
           UNCHANGED now
    PROVE  \A u \in Thread : loop'[u].cur <= now'
  <1>1. now \in Nat /\ \A u \in Thread : loop[u].cur <= now
    BY DEF SetsOK, TypeOK
  <1>2. loop'[t].cur <= now
    BY <1>1
  <1>3. \A u \in Thread \ {t} : loop'[u].cur <= now
    BY <1>1 DEF LoopGoes
  <1> QED
    BY <1>2, <1>3

\* A step of Get that takes no message.
LEMMA TypeLoop ==
    ASSUME TypeInv, NEW t \in Thread, NEW p, LoopGoes(t, p), UNCHANGED stack, stack[t] = <<>>,
           loop'[t].cur \in {loop[t].cur, now}, signal' \in [Thread -> BOOLEAN],
           UNCHANGED <<queues, fStop, ready, calls, posts, now, gone, destroyed, history>>
    PROVE  TypeInv'
  <1>0. TypeOK /\ StackOK /\ ListOK /\ SetsOK /\ QueueOK
    BY DEF TypeInv
  <1>1. CallsKept /\ LoopKept
    BY <1>0, CallsSame DEF LoopKept, LoopGoes
  <1>2. TypeOK'
    BY <1>0 DEF TypeOK, queues, history, LoopGoes, LoopState
  <1>3. SetsOK'
    <2>1. \A u \in Thread : loop'[u].cur <= now'
      BY <1>0, CurStays
    <2> QED
      BY <1>0, <2>1 DEF SetsOK
  <1> QED
    BY <1>0, <1>1, <1>2, <1>3, StackSame, ListStays, QueueStays, PostingStays DEF TypeInv, queues

\* A step of a Send that waits.
LEMMA TypeMoves ==
    ASSUME TypeInv, NEW t \in Thread, NEW p \in {"check", "sends", "wait"}, NEW w, Moved(t, p, w),
           Top(t).kind = "send", stack' \in [Thread -> Seq(Frame)], signal' \in [Thread -> BOOLEAN],
           UNCHANGED <<queues, loop, fStop, ready, calls, posts, now, gone, destroyed, history>>
    PROVE  TypeInv'
  <1>0. TypeOK /\ StackOK /\ ListOK /\ SetsOK /\ QueueOK
    BY DEF TypeInv
  <1>1. CallsKept
    BY <1>0, CallsSame
  <1>2. TypeOK'
    BY <1>0 DEF TypeOK, queues, history
  <1>3. SetsOK'
    BY <1>0 DEF SetsOK
  <1> QED
    BY <1>0, <1>1, <1>2, <1>3, StackMoves, ListStays, QueueStays, PostingStays DEF TypeInv, queues

LEMMA TypeSendsDone ==
    ASSUME TypeInv, NEW t \in Thread, SendsDone(t)
    PROVE  TypeInv'
  <1>1. PICK w : w = Top(t).waited
    OBVIOUS
  <1>2. /\ UNCHANGED <<queues, signal, fStop, ready, calls, posts, now, gone, destroyed, history>>
        /\ \/ /\ stack[t] = <<>> /\ UNCHANGED stack /\ LoopGoes(t, "pull")
              /\ loop'[t].cur = loop[t].cur
           \/ /\ stack[t] # <<>> /\ Top(t).kind = "send" /\ UNCHANGED loop
              /\ Moved(t, "wait", w) /\ stack' \in [Thread -> Seq(Frame)]
    BY <1>1, SendsDoneEffect
  <1>3. signal' \in [Thread -> BOOLEAN]
    BY <1>2 DEF TypeInv, TypeOK
  <1> QED
    BY <1>2, <1>3, TypeLoop, TypeMoves

LEMMA TypeWait ==
    ASSUME TypeInv, NEW t \in Thread, WaitSignalled(t) \/ WaitTimeout(t) \/ StopCheck(t)
    PROVE  TypeInv'
  <1>1. CASE WaitSignalled(t)
    BY <1>1, WaitSignalledEffect, TypeLoop, TypeMoves
  <1>2. CASE WaitTimeout(t)
    <2>1. signal' \in [Thread -> BOOLEAN]
      BY <1>2 DEF WaitTimeout, TypeInv, TypeOK
    <2> QED
      BY <1>2, <2>1, WaitTimeoutEffect, TypeLoop
  <1>3. CASE StopCheck(t)
    <2>1. signal' \in [Thread -> BOOLEAN]
      BY <1>3 DEF StopCheck, TypeInv, TypeOK
    <2> QED
      BY <1>3, <2>1, StopCheckEffect, TypeLoop
  <1> QED
    BY <1>1, <1>2, <1>3

LEMMA TypePostReturns ==
    ASSUME TypeInv, NEW t \in Thread, PostReturns(t)
    PROVE  TypeInv'
  <1>0. TypeOK /\ StackOK /\ ListOK /\ SetsOK /\ QueueOK
    BY DEF TypeInv
  <1>1. /\ stack'[t] = <<>> /\ Shrunk(t) /\ stack' \in [Thread -> Seq(Frame)]
        /\ LoopGoes(t, "sends") /\ loop'[t].cur = now
        /\ UNCHANGED <<queues, signal, fStop, ready, calls, posts, now, gone, destroyed, history>>
    BY PostReturnsEffect
  <1>2. CallsKept /\ LoopKept
    BY <1>0, <1>1, CallsSame DEF LoopKept, LoopGoes
  <1>3. TypeOK'
    BY <1>0, <1>1 DEF TypeOK, queues, history, LoopGoes, LoopState
  <1>4. SetsOK'
    <2>1. \A u \in Thread : loop'[u].cur <= now'
      BY <1>0, <1>1, CurStays
    <2> QED
      BY <1>0, <1>1, <2>1 DEF SetsOK
  <1> QED
    BY <1>0, <1>1, <1>2, <1>3, <1>4, StackShrinks, ListStays, QueueStays, PostingStays DEF TypeInv, queues

LEMMA PostedTypes ==
    ASSUME TypeInv, NEW h, Posted(h), posting' \subseteq posting, signal' \in [Thread -> BOOLEAN],
           msgq' \in [Thread -> Seq(PostedMessage)], dmsgq' \in [Thread -> Seq(PostedMessage)]
    PROVE  TypeOK' /\ StackOK' /\ ListOK' /\ SetsOK' /\ PostingOK'
  <1>0. TypeOK /\ StackOK /\ ListOK /\ SetsOK /\ PostingOK
    BY DEF TypeInv
  <1>4. PostingOK'
    BY <1>0 DEF PostingOK, Posted
  <1>1. CallsKept /\ LoopKept
    BY <1>0, CallsSame DEF Posted, LoopKept
  <1>2. TypeOK'
    BY <1>0 DEF TypeOK, Posted, history
  <1>3. SetsOK'
    BY <1>0 DEF SetsOK, Posted
  <1> QED
    BY <1>0, <1>1, <1>2, <1>3, <1>4, StackSame, ListStays DEF Posted

LEMMA TypePost ==
    ASSUME TypeInv, NEW t \in Thread, NEW h \in Handler, Post(t, h)
    PROVE  TypeInv'
  <1>0. TypeOK /\ QueueOK /\ Home[h] \in Thread
    BY ThreadAssumption DEF TypeInv
  <1>1. /\ Posted(h) /\ UNCHANGED <<dmsgq, posting>>
        /\ \/ UNCHANGED <<msgq, signal>>
           \/ /\ Wakes(Home[h]) /\ msgq' \in [Thread -> Seq(PostedMessage)]
              /\ \A u \in Thread \ {Home[h]} : msgq'[u] = msgq[u]
              /\ \E m : /\ NewMessage(m, h, 0, FALSE)
                        /\ Extends(msgq'[Home[h]], msgq[Home[h]], m)
    BY PostEffect
  <1>2. /\ signal' \in [Thread -> BOOLEAN] /\ msgq' \in [Thread -> Seq(PostedMessage)]
        /\ dmsgq' \in [Thread -> Seq(PostedMessage)]
    BY <1>0, <1>1 DEF Wakes, TypeOK
  <1>3. TypeOK' /\ StackOK' /\ ListOK' /\ SetsOK' /\ PostingOK'
    BY <1>1, <1>2, PostedTypes
  <1>4. h \notin gone /\ UNCHANGED gone
    BY <1>1 DEF Posted
  <1>5. QueueOK'
    <2>1. CASE UNCHANGED msgq
      BY <1>0, <1>1, <1>4, <2>1, QueueStays
    <2>2. CASE /\ \A u \in Thread \ {Home[h]} : msgq'[u] = msgq[u]
               /\ \E m : /\ NewMessage(m, h, 0, FALSE)
                         /\ Extends(msgq'[Home[h]], msgq[Home[h]], m)
      <3>1. PICK m : NewMessage(m, h, 0, FALSE) /\ Extends(msgq'[Home[h]], msgq[Home[h]], m)
        BY <2>2
      <3>2. ASSUME NEW u \in Thread, NEW i \in 1..Len(msgq'[u])
            PROVE  Home[msgq'[u][i].to] = u /\ msgq'[u][i].to \notin gone
        <4>1. Len(msgq[u]) \in Nat
          BY <1>0, QueuesNow
        <4>2. CASE u # Home[h]
          BY <1>0, <2>2, <4>2 DEF QueueOK
        <4>3. CASE u = Home[h]
          <5>1. i \in 1..Len(msgq[u]) \/ i = Len(msgq[u]) + 1
            BY <3>1, <4>1, <4>3 DEF Extends
          <5>2. msgq'[u][i] = IF i \in 1..Len(msgq[u]) THEN msgq[u][i] ELSE m
            BY <3>1, <4>1, <4>3, <5>1 DEF Extends
          <5> QED
            BY <1>0, <1>4, <3>1, <4>3, <5>2 DEF QueueOK, NewMessage
        <4> QED
          BY <4>2, <4>3
      <3> QED
        BY <1>0, <1>1, <1>4, <3>2 DEF QueueOK
    <2> QED
      BY <1>1, <2>1, <2>2
  <1> QED
    BY <1>3, <1>5 DEF TypeInv

\* A message of the longer queue is one of the shorter, or the new one.
LEMMA InsertedOld ==
    ASSUME NEW a, NEW s, NEW m, NEW k, Inserted(a, s, m, k), Len(s) \in Nat, NEW i \in 1..Len(a)
    PROVE  /\ k \in Nat
           /\ \/ i <= k /\ i \in 1..Len(s) /\ a[i] = s[i]
              \/ i = k + 1 /\ a[i] = m
              \/ \E j \in (k + 1)..Len(s) : i = j + 1 /\ j \in 1..Len(s) /\ a[i] = s[j]
  <1>1. /\ Len(a) = Len(s) + 1 /\ k \in 0..Len(s) /\ a[k + 1] = m
        /\ \A j \in 1..k : a[j] = s[j]
        /\ \A j \in (k + 1)..Len(s) : a[j + 1] = s[j]
    BY DEF Inserted
  <1>2. CASE i <= k
    BY <1>1, <1>2
  <1>3. CASE i = k + 1
    BY <1>1, <1>3
  <1>4. CASE i > k + 1
    <2>1. PICK j \in Nat : i = j + 1
      BY <1>1, <1>4
    <2>2. j \in (k + 1)..Len(s) /\ j \in 1..Len(s)
      BY <1>1, <1>4, <2>1
    <2> QED
      BY <1>1, <2>1, <2>2
  <1> QED
    BY <1>1, <1>2, <1>3, <1>4

LEMMA TypePostDelayed ==
    ASSUME TypeInv, NEW t \in Thread, NEW h \in Handler, NEW delay \in 0..(MaxTime - now),
           PostDelayed(t, h, delay)
    PROVE  TypeInv'
  <1>0. TypeOK /\ StackOK /\ ListOK /\ SetsOK /\ QueueOK
    BY DEF TypeInv
  <1>1. /\ posting' \subseteq [from: Thread, to: Handler, at: 0..MaxTime]
        /\ PostingOK' /\ posts' \in {posts, posts + 1}
        /\ UNCHANGED <<sendlist, msgq, dmsgq, signal, fStop, loop, stack, ready, calls, now, gone,
                       destroyed, history>>
    BY PostDelayedEffect
  <1>2. CallsKept /\ LoopKept
    BY <1>0, <1>1, CallsSame DEF LoopKept
  <1>3. TypeOK'
    <2>1. posts' \in Nat
      BY <1>0, <1>1 DEF TypeOK
    <2> QED
      BY <1>0, <1>1, <2>1 DEF TypeOK, history
  <1>4. SetsOK'
    BY <1>0, <1>1 DEF SetsOK
  <1> QED
    BY <1>0, <1>1, <1>2, <1>3, <1>4, StackSame, ListStays, QueueStays DEF TypeInv

LEMMA TypeDoDelayPost ==
    ASSUME TypeInv, NEW t \in Thread, DoDelayPost(t)
    PROVE  TypeInv'
  <1>0. TypeOK /\ QueueOK
    BY DEF TypeInv
  <1>1. PICK h \in Handler :
              /\ Posted(h) /\ UNCHANGED msgq /\ posting' \subseteq posting /\ Wakes(Home[h])
              /\ dmsgq' \in [Thread -> Seq(PostedMessage)]
              /\ \A u \in Thread \ {Home[h]} : dmsgq'[u] = dmsgq[u]
              /\ \E m, k, at : /\ NewMessage(m, h, at, TRUE)
                               /\ Inserted(dmsgq'[Home[h]], dmsgq[Home[h]], m, k)
    BY DoDelayPostEffect
  <1>2. /\ signal' \in [Thread -> BOOLEAN] /\ msgq' \in [Thread -> Seq(PostedMessage)]
        /\ dmsgq' \in [Thread -> Seq(PostedMessage)]
    BY <1>0, <1>1 DEF Wakes, TypeOK
  <1>3. TypeOK' /\ StackOK' /\ ListOK' /\ SetsOK' /\ PostingOK'
    BY <1>1, <1>2, PostedTypes
  <1>4. h \notin gone /\ UNCHANGED gone
    BY <1>1 DEF Posted
  <1>5. QueueOK'
    <2>1. PICK m, k, at : /\ NewMessage(m, h, at, TRUE)
                          /\ Inserted(dmsgq'[Home[h]], dmsgq[Home[h]], m, k)
      BY <1>1
    <2>2. ASSUME NEW u \in Thread, NEW i \in 1..Len(dmsgq'[u])
          PROVE  Home[dmsgq'[u][i].to] = u /\ dmsgq'[u][i].to \notin gone
      <3>1. Len(dmsgq[u]) \in Nat
        BY <1>0, QueuesNow
      <3>2. CASE u # Home[h]
        BY <1>0, <1>1, <3>2 DEF QueueOK
      <3>3. CASE u = Home[h]
        <4>1. dmsgq'[u][i] = m \/ \E j \in 1..Len(dmsgq[u]) : dmsgq'[u][i] = dmsgq[u][j]
          <5>1. PICK a, s : a = dmsgq'[u] /\ s = dmsgq[u]
            OBVIOUS
          <5>2. Inserted(a, s, m, k) /\ Len(s) \in Nat /\ i \in 1..Len(a)
            BY <2>1, <3>1, <3>3, <5>1
          <5>3. a[i] = m \/ \E j \in 1..Len(s) : a[i] = s[j]
            BY <5>2, InsertedOld
          <5> QED
            BY <5>1, <5>3
        <4> QED
          BY <1>0, <1>4, <2>1, <3>3, <4>1 DEF QueueOK, NewMessage
      <3> QED
        BY <3>2, <3>3
    <2> QED
      BY <1>0, <1>1, <1>4, <2>2 DEF QueueOK
  <1> QED
    BY <1>3, <1>5 DEF TypeInv

LEMMA CombinedOld ==
    ASSUME NEW a, NEW s, NEW r, NEW n \in Nat, Combined(a, s, r, n), Len(s) \in Nat, NEW i \in 1..Len(a)
    PROVE  \/ i \in 1..Len(s) /\ a[i] = s[i]
           \/ \E j \in 1..n : i = Len(s) + j /\ a[i] = r[j]
  <1>1. /\ Len(a) = Len(s) + n /\ \A j \in 1..Len(s) : a[j] = s[j]
        /\ \A j \in 1..n : a[Len(s) + j] = r[j]
    BY DEF Combined
  <1>2. CASE i <= Len(s)
    BY <1>1, <1>2
  <1>3. CASE i > Len(s)
    <2>1. PICK j \in Nat : i = Len(s) + j
      <3>1. i \in Nat /\ i - Len(s) \in Nat
        BY <1>3
      <3> QED
        BY <3>1
    <2>2. j \in 1..n
      BY <1>1, <1>3, <2>1
    <2> QED
      BY <1>1, <2>1, <2>2
  <1> QED
    BY <1>1, <1>2, <1>3

LEMMA TypePull ==
    ASSUME TypeInv, NEW t \in Thread, Pull(t)
    PROVE  TypeInv' /\ \A u \in Thread : dispatched'[u] # dispatched[u] =>
                          dispatched'[u][Len(dispatched'[u])].to \notin gone
  <1>0. TypeOK /\ StackOK /\ ListOK /\ SetsOK /\ QueueOK
    BY DEF TypeInv
  <1>1. /\ stack[t] = <<>> /\ loop[t].pc = "pull"
        /\ UNCHANGED <<sendlist, posting, signal, fStop, ready, calls, posts, now, gone, destroyed,
                   returned>>
        /\ \/ /\ UNCHANGED <<msgq, dmsgq, stack, dispatched>>
              /\ LoopGoes(t, "stop") /\ loop'[t].cur = loop[t].cur
           \/ UNCHANGED loop /\ \E n, a, m : Dispatches(t, n, a, m)
    BY PullEffect
  <1>2. CASE /\ UNCHANGED <<msgq, dmsgq, stack, dispatched>>
             /\ LoopGoes(t, "stop") /\ loop'[t].cur = loop[t].cur
    <2>1. signal' \in [Thread -> BOOLEAN]
      BY <1>0, <1>1 DEF TypeOK
    <2>2. TypeInv'
      BY <1>1, <1>2, <2>1, TypeLoop DEF queues, history
    <2> QED
      BY <1>2, <2>2
  <1>3. ASSUME UNCHANGED loop, NEW n, NEW a, NEW m, Dispatches(t, n, a, m)
        PROVE  TypeInv' /\ \A u \in Thread : dispatched'[u] # dispatched[u] =>
                              dispatched'[u][Len(dispatched'[u])].to \notin gone
    <2>0. /\ Len(msgq[t]) \in Nat /\ Len(dmsgq[t]) \in Nat /\ Len(dispatched[t]) \in Nat
      BY <1>0, QueuesNow
    <2>1. /\ n \in Nat /\ n <= Len(dmsgq[t]) /\ Len(a) \in Nat \ {0} /\ m = a[1] /\ m \in PostedMessage
          /\ Combined(a, msgq[t], dmsgq[t], n)
          /\ Dropped(msgq'[t], a, 1) /\ Dropped(dmsgq'[t], dmsgq[t], n)
          /\ Extends(dispatched'[t], dispatched[t], m)
          /\ \A u \in Thread \ {t} : /\ msgq'[u] = msgq[u] /\ dmsgq'[u] = dmsgq[u]
                                     /\ dispatched'[u] = dispatched[u]
      BY <1>3, <2>0 DEF Dispatches
    <2>2. ASSUME NEW i \in 1..Len(a) PROVE Home[a[i].to] = t /\ a[i].to \notin gone
      <3>1. PICK s, r : s = msgq[t] /\ r = dmsgq[t]
        OBVIOUS
      <3>2. \/ i \in 1..Len(s) /\ a[i] = s[i]
            \/ \E j \in 1..n : i = Len(s) + j /\ a[i] = r[j]
        <4>1. Combined(a, s, r, n) /\ Len(s) \in Nat /\ n \in Nat
          BY <2>0, <2>1, <3>1
        <4> QED
          BY <4>1, CombinedOld
      <3>3. \A j \in 1..n : j \in 1..Len(r)
        BY <2>0, <2>1, <3>1
      <3> QED
        BY <1>0, <3>1, <3>2, <3>3 DEF QueueOK
    <2>3. ASSUME NEW i \in 1..Len(msgq'[t])
          PROVE  Home[msgq'[t][i].to] = t /\ msgq'[t][i].to \notin gone
      <3>1. 1 + i \in 1..Len(a) /\ msgq'[t][i] = a[1 + i]
        <4>0. Len(a) - 1 \in Nat /\ Len(a) = (Len(a) - 1) + 1
          BY <2>1
        <4>1. PICK k \in Nat : Len(a) = k + 1
          BY <4>0
        <4>2. Len(msgq'[t]) = k /\ \A j \in 1..k : msgq'[t][j] = a[1 + j]
          BY <2>1, <4>1 DEF Dropped
        <4> QED
          BY <4>1, <4>2
      <3> QED
        BY <2>2, <3>1
    <2>4. ASSUME NEW i \in 1..Len(dmsgq'[t])
          PROVE  Home[dmsgq'[t][i].to] = t /\ dmsgq'[t][i].to \notin gone
      <3>1. n + i \in 1..Len(dmsgq[t]) /\ dmsgq'[t][i] = dmsgq[t][n + i]
        BY <2>0, <2>1 DEF Dropped
      <3> QED
        BY <1>0, <3>1 DEF QueueOK
    <2>5. QueueOK'
      <3>1. ASSUME NEW u \in Thread
            PROVE  /\ \A i \in 1..Len(msgq'[u]) : Home[msgq'[u][i].to] = u /\ msgq'[u][i].to \notin gone
                   /\ \A i \in 1..Len(dmsgq'[u]) : Home[dmsgq'[u][i].to] = u /\ dmsgq'[u][i].to \notin gone
        <4>1. CASE u = t
          BY <2>3, <2>4, <4>1
        <4>2. CASE u # t
          BY <1>0, <2>1, <4>2 DEF QueueOK
        <4> QED
          BY <4>1, <4>2
      <3> QED
        BY <1>1, <3>1 DEF QueueOK
    <2>6. CallsKept
      BY <1>0, <1>1, CallsSame
    <2>7. TypeOK'
      BY <1>0, <1>1, <1>3 DEF TypeOK, Dispatches
    <2>8. StackOK'
      <3>1. PICK f : f = NewFrame("post", m.id, m.to, "run")
        OBVIOUS
      <3>2. f.kind = "post" /\ f.pc = "run"
        BY <3>1 DEF NewFrame
      <3>3. FrameOK(t, f, "pull")'
        BY <3>2 DEF FrameOK
      <3>4. Position(t) = "pull"
        BY <1>1 DEF Position
      <3> QED
        BY <1>0, <1>3, <2>6, <3>1, <3>3, <3>4, StackGrows DEF Dispatches
    <2>9. SetsOK'
      BY <1>0, <1>1, <1>3 DEF SetsOK
    <2>10. ListOK'
      BY <1>0, <1>1, <2>6, ListStays
    <2>11. m.to \notin gone /\ PostingOK'
      BY <1>1, <2>1, <2>2, PostingStays
    <2>12. dispatched'[t][Len(dispatched'[t])] = m
      BY <2>0, <2>1 DEF Extends
    <2> QED
      BY <2>1, <2>5, <2>7, <2>8, <2>9, <2>10, <2>11, <2>12 DEF TypeInv
  <1> QED
    BY <1>1, <1>2, <1>3

LEMMA TypeTick ==
    ASSUME TypeInv, Tick
    PROVE  TypeInv'
  <1>0. TypeOK /\ StackOK /\ ListOK /\ SetsOK /\ QueueOK
    BY DEF TypeInv
  <1>1. /\ now' = now + 1
        /\ UNCHANGED <<queues, signal, fStop, loop, stack, ready, calls, posts, gone, destroyed, history>>
    BY DEF Tick
  <1>2. CallsKept /\ LoopKept
    BY <1>0, <1>1, CallsSame DEF LoopKept
  <1>3. TypeOK'
    <2>1. now' \in Nat
      BY <1>0, <1>1 DEF TypeOK
    <2>2. UNCHANGED <<sendlist, msgq, dmsgq, posting, returned, dispatched>>
      BY <1>1 DEF queues, history
    <2> QED
      BY <1>0, <1>1, <2>1, <2>2 DEF TypeOK
  <1>4. SetsOK'
    <2>1. \A u \in Thread : loop'[u].cur <= now'
      <3>1. now \in Nat /\ \A u \in Thread : loop[u].cur \in Nat /\ loop[u].cur <= now
        BY <1>0 DEF TypeOK, SetsOK
      <3> QED
        BY <1>1, <3>1
    <2> QED
      BY <1>0, <1>1, <2>1 DEF SetsOK
  <1> QED
    BY <1>0, <1>1, <1>2, <1>3, <1>4, StackSame, ListStays, QueueStays, PostingStays DEF TypeInv, queues

LEMMA ClearedOld ==
    ASSUME NEW t, NEW hs, Cleared(t, hs)
    PROVE  /\ \A i \in 1..Len(msgq'[t]) : \E j \in 1..Len(msgq[t]) :
                 msgq'[t][i] = msgq[t][j] /\ msgq[t][j].to \notin hs
           /\ \A i \in 1..Len(dmsgq'[t]) : \E j \in 1..Len(dmsgq[t]) :
                 dmsgq'[t][i] = dmsgq[t][j] /\ dmsgq[t][j].to \notin hs
  BY DEF Cleared, LeftOf

LEMMA TypeDestroy ==
    ASSUME TypeInv, NEW t \in Thread, NEW h \in Handler, DestroyHandler(t, h)
    PROVE  TypeInv'
  <1>0. TypeOK /\ StackOK /\ ListOK /\ SetsOK /\ QueueOK
    BY DEF TypeInv
  <1>1. /\ Home[h] = t /\ gone' = gone \cup {h} /\ Cleared(t, {h})
        /\ \A d \in posting : d.to # h
        /\ UNCHANGED <<ready, signal, sendlist, posting, fStop, loop, stack, calls, posts, now,
                       destroyed, history>>
    BY DestroyEffect
  <1>2. CallsKept /\ LoopKept
    BY <1>0, <1>1, CallsSame DEF LoopKept
  <1>3. TypeOK'
    BY <1>0, <1>1 DEF TypeOK, history, Cleared
  <1>4. SetsOK'
    BY <1>0, <1>1 DEF SetsOK
  <1>5. QueueOK'
    <2>1. /\ \A i \in 1..Len(msgq'[t]) : \E j \in 1..Len(msgq[t]) :
                 msgq'[t][i] = msgq[t][j] /\ msgq[t][j].to \notin {h}
          /\ \A i \in 1..Len(dmsgq'[t]) : \E j \in 1..Len(dmsgq[t]) :
                 dmsgq'[t][i] = dmsgq[t][j] /\ dmsgq[t][j].to \notin {h}
      <3>1. PICK hs : hs = {h}
        OBVIOUS
      <3>2. Cleared(t, hs)
        BY <1>1, <3>1
      <3>3. /\ \A i \in 1..Len(msgq'[t]) : \E j \in 1..Len(msgq[t]) :
                   msgq'[t][i] = msgq[t][j] /\ msgq[t][j].to \notin hs
            /\ \A i \in 1..Len(dmsgq'[t]) : \E j \in 1..Len(dmsgq[t]) :
                   dmsgq'[t][i] = dmsgq[t][j] /\ dmsgq[t][j].to \notin hs
        BY <3>2, ClearedOld, Zenon
      <3> QED
        BY <3>1, <3>3
    <2>2. ASSUME NEW u \in Thread
          PROVE  /\ \A i \in 1..Len(msgq'[u]) : Home[msgq'[u][i].to] = u /\ msgq'[u][i].to \notin gone'
                 /\ \A i \in 1..Len(dmsgq'[u]) : Home[dmsgq'[u][i].to] = u /\ dmsgq'[u][i].to \notin gone'
      <3>1. CASE u = t
        <4>1. /\ \A j \in 1..Len(msgq[t]) : Home[msgq[t][j].to] = t /\ msgq[t][j].to \notin gone
              /\ \A j \in 1..Len(dmsgq[t]) : Home[dmsgq[t][j].to] = t /\ dmsgq[t][j].to \notin gone
          BY <1>0 DEF QueueOK
        <4>2. \A i \in 1..Len(msgq'[t]) : Home[msgq'[t][i].to] = t /\ msgq'[t][i].to \notin gone'
          BY <1>1, <2>1, <4>1, SMTT(20)
        <4>3. \A i \in 1..Len(dmsgq'[t]) : Home[dmsgq'[t][i].to] = t /\ dmsgq'[t][i].to \notin gone'
          BY <1>1, <2>1, <4>1, SMTT(20)
        <4> QED
          BY <3>1, <4>2, <4>3
      <3>2. CASE u # t
        <4>1. msgq'[u] = msgq[u] /\ dmsgq'[u] = dmsgq[u]
          BY <1>1, <3>2 DEF Cleared
        <4> QED
          BY <1>0, <1>1, <3>2, <4>1 DEF QueueOK
      <3> QED
        BY <3>1, <3>2
    <2> QED
      BY <2>2 DEF QueueOK
  <1>6. PostingOK'
    BY <1>1 DEF TypeInv, PostingOK
  <1> QED
    BY <1>0, <1>1, <1>2, <1>3, <1>4, <1>5, <1>6, StackSame, ListStays DEF TypeInv

LEMMA TypeStop ==
    ASSUME TypeInv, NEW t \in Thread, NEW u \in Thread, Stop(t, u)
    PROVE  TypeInv'
  <1>0. TypeOK /\ StackOK /\ ListOK /\ SetsOK /\ QueueOK
    BY DEF TypeInv
  <1>1. /\ Runs(t) /\ u \in MayStop /\ fStop' \in [Thread -> BOOLEAN]
        /\ Wakes(u) /\ Grown(t, NewFrame("join", 0, u, "join")) /\ stack' \in [Thread -> Seq(Frame)]
        /\ UNCHANGED <<queues, loop, ready, calls, posts, now, gone, destroyed, history>>
    BY StopEffect
  <1>2. CallsKept
    BY <1>0, <1>1, CallsSame
  <1>3. TypeOK'
    BY <1>0, <1>1 DEF TypeOK, history, queues, Wakes
  <1>4. SetsOK'
    BY <1>0, <1>1 DEF SetsOK
  <1>5. StackOK'
    <2>1. PICK f : f = NewFrame("join", 0, u, "join")
      OBVIOUS
    <2>2. f.kind = "join" /\ f.pc = "join" /\ f.of = u
      BY <2>1 DEF NewFrame
    <2>3. FrameOK(t, f, "run")'
      BY <1>1, <2>2 DEF FrameOK
    <2> QED
      BY <1>0, <1>1, <1>2, <2>1, <2>3, StackGrows DEF Runs
  <1> QED
    BY <1>0, <1>1, <1>2, <1>3, <1>4, <1>5, ListStays, QueueStays, PostingStays DEF TypeInv, queues

LEMMA TypeJoinReturns ==
    ASSUME TypeInv, NEW t \in Thread, JoinReturns(t)
    PROVE  TypeInv'
  <1>0. TypeOK /\ StackOK /\ ListOK /\ SetsOK /\ QueueOK
    BY DEF TypeInv
  <1>1. PICK u \in Thread : u = Top(t).of
    BY JoinReturnsEffect
  <1>2. /\ Shrunk(t) /\ stack' \in [Thread -> Seq(Frame)]
        /\ Cleared(u, Handler) /\ destroyed' = destroyed \cup {u}
        /\ UNCHANGED <<ready, signal, sendlist, posting, fStop, loop, calls, posts, now, gone, history>>
    BY <1>1, JoinReturnsEffect
  <1>3. CallsKept /\ LoopKept
    BY <1>0, <1>2, CallsSame DEF LoopKept
  <1>4. TypeOK'
    BY <1>0, <1>2 DEF TypeOK, history, Cleared
  <1>5. SetsOK'
    BY <1>0, <1>2 DEF SetsOK
  <1>6. QueueOK'
    <2>1. /\ \A i \in 1..Len(msgq'[u]) : \E j \in 1..Len(msgq[u]) : msgq'[u][i] = msgq[u][j]
          /\ \A i \in 1..Len(dmsgq'[u]) : \E j \in 1..Len(dmsgq[u]) : dmsgq'[u][i] = dmsgq[u][j]
      BY <1>2, ClearedOld
    <2>2. ASSUME NEW v \in Thread
          PROVE  /\ \A i \in 1..Len(msgq'[v]) : Home[msgq'[v][i].to] = v /\ msgq'[v][i].to \notin gone'
                 /\ \A i \in 1..Len(dmsgq'[v]) : Home[dmsgq'[v][i].to] = v /\ dmsgq'[v][i].to \notin gone'
      <3>1. CASE v = u
        <4>1. /\ \A j \in 1..Len(msgq[u]) : Home[msgq[u][j].to] = u /\ msgq[u][j].to \notin gone
              /\ \A j \in 1..Len(dmsgq[u]) : Home[dmsgq[u][j].to] = u /\ dmsgq[u][j].to \notin gone
          BY <1>0 DEF QueueOK
        <4>2. \A i \in 1..Len(msgq'[u]) : Home[msgq'[u][i].to] = u /\ msgq'[u][i].to \notin gone
          BY <2>1, <4>1
        <4>3. \A i \in 1..Len(dmsgq'[u]) : Home[dmsgq'[u][i].to] = u /\ dmsgq'[u][i].to \notin gone
          BY <2>1, <4>1
        <4> QED
          BY <1>2, <3>1, <4>2, <4>3
      <3>2. CASE v # u
        <4>1. msgq'[v] = msgq[v] /\ dmsgq'[v] = dmsgq[v]
          BY <1>2, <3>2 DEF Cleared
        <4> QED
          BY <1>0, <1>2, <4>1 DEF QueueOK
      <3> QED
        BY <3>1, <3>2
    <2> QED
      BY <2>2 DEF QueueOK
  <1> QED
    BY <1>0, <1>2, <1>3, <1>4, <1>5, <1>6, StackShrinks, ListStays, PostingStays DEF TypeInv

LEMMA TypeInit == Init => TypeInv
  <1> SUFFICES ASSUME Init PROVE TypeInv
    OBVIOUS
  <1>1. /\ <<>> \in Seq(Call) /\ <<>> \in Seq(PostedMessage) /\ <<>> \in Seq(Frame)
        /\ <<>> \in Seq([from: Thread, to: Handler]) /\ Len(<<>>) = 0
    BY EmptySeq
  <1>2. TypeOK
    <2>1. loop \in [Thread -> LoopState]
      BY DEF Init, LoopState, LoopPCs
    <2> QED
      BY <1>1, <2>1, ThreadAssumption DEF Init, TypeOK, LoopState
  <1>3. StackOK /\ ListOK /\ QueueOK /\ PostingOK
    BY <1>1 DEF Init, StackOK, ListOK, QueueOK, PostingOK
  <1>4. SetsOK
    BY <1>1, ThreadAssumption DEF Init, SetsOK
  <1> QED
    BY <1>2, <1>3, <1>4 DEF TypeInv

\* What one step does, action by action.
LEMMA StepCases ==
    ASSUME [Next]_vars
    PROVE  \/ \E t \in Thread, h \in Handler : Send(t, h) \/ Post(t, h) \/ DestroyHandler(t, h)
           \/ \E t \in Thread, h \in Handler : \E delay \in 0..(MaxTime - now) : PostDelayed(t, h, delay)
           \/ \E t \in Thread, u \in Thread : Stop(t, u)
           \/ \E t \in Thread : SendPush(t) \/ SendCheck(t) \/ ReceiveSend(t) \/ CallReturns(t)
           \/ \E t \in Thread : SendsDone(t) \/ Pull(t) \/ PostReturns(t) \/ StopCheck(t)
           \/ \E t \in Thread : DoDelayPost(t)
           \/ \E t \in Thread : WaitSignalled(t) \/ WaitTimeout(t) \/ JoinReturns(t)
           \/ Tick
           \/ UNCHANGED vars
  BY Zenon DEF Next, Calls, Steps

LEMMA TypeStep == TypeInv /\ [Next]_vars => TypeInv'
  <1> SUFFICES ASSUME TypeInv, [Next]_vars PROVE TypeInv'
    OBVIOUS
  <1>1. ASSUME NEW t \in Thread, NEW h \in Handler, Send(t, h) \/ Post(t, h) \/ DestroyHandler(t, h)
        PROVE  TypeInv'
    BY <1>1, TypeSend, TypePost, TypeDestroy
  <1>2. ASSUME NEW t \in Thread, NEW h \in Handler, NEW delay \in 0..(MaxTime - now),
               PostDelayed(t, h, delay)
        PROVE  TypeInv'
    BY <1>2, TypePostDelayed
  <1>3. ASSUME NEW t \in Thread, NEW u \in Thread, Stop(t, u) PROVE TypeInv'
    BY <1>3, TypeStop
  <1>4. ASSUME NEW t \in Thread, SendPush(t) \/ SendCheck(t) \/ ReceiveSend(t) \/ CallReturns(t)
        PROVE  TypeInv'
    BY <1>4, TypeSendPush, TypeSendCheck, TypeReceiveSend, TypeCallReturns
  <1>5. ASSUME NEW t \in Thread, SendsDone(t) \/ Pull(t) \/ PostReturns(t) \/ StopCheck(t)
        PROVE  TypeInv'
    BY <1>5, TypeSendsDone, TypePull, TypePostReturns, TypeWait
  <1>9. ASSUME NEW t \in Thread, DoDelayPost(t) PROVE TypeInv'
    BY <1>9, TypeDoDelayPost
  <1>6. ASSUME NEW t \in Thread, WaitSignalled(t) \/ WaitTimeout(t) \/ JoinReturns(t) PROVE TypeInv'
    BY <1>6, TypeWait, TypeJoinReturns
  <1>7. CASE Tick
    BY <1>7, TypeTick
  <1>8. CASE UNCHANGED vars
    <2>0. TypeOK /\ StackOK /\ ListOK /\ SetsOK /\ QueueOK
      BY DEF TypeInv
    <2>1. TypeOK' /\ SetsOK' /\ QueueOK' /\ CallsKept /\ LoopKept
      BY <1>8, <2>0, CallsSame DEF vars, queues, history, TypeOK, SetsOK, QueueOK, LoopKept
    <2> QED
      BY <1>8, <2>0, <2>1, StackSame, ListStays, PostingStays DEF vars, queues, TypeInv
  <1> QED
    BY <1>1, <1>2, <1>3, <1>4, <1>5, <1>6, <1>7, <1>8, <1>9, StepCases

\* Every variable has its type: stacks hold frames, queues messages of this
\* program's handlers, and the times are in the range of the clock.
THEOREM TypeCorrect == Spec => []TypeOK
  <1>1. TypeInv => TypeOK
    BY DEF TypeInv
  <1> QED
    BY <1>1, TypeInit, TypeStep, PTL DEF Spec

-----------------------------------------------------------------------------
(* Destroyed handlers *)

LEMMA DispatchStep ==
    ASSUME TypeInv, [Next]_vars
    PROVE  \A u \in Thread : dispatched'[u] # dispatched[u] =>
              dispatched'[u][Len(dispatched'[u])].to \notin gone
  <1>1. ASSUME NEW t \in Thread, NEW h \in Handler, Send(t, h) \/ Post(t, h) \/ DestroyHandler(t, h)
        PROVE  UNCHANGED dispatched
    BY <1>1 DEF Send, Post, DestroyHandler, history
  <1>2. ASSUME NEW t \in Thread, NEW h \in Handler, NEW delay, PostDelayed(t, h, delay)
        PROVE  UNCHANGED dispatched
    BY <1>2 DEF PostDelayed, history
  <1>3. ASSUME NEW t \in Thread, NEW u \in Thread, Stop(t, u) PROVE UNCHANGED dispatched
    BY <1>3 DEF Stop, history
  <1>4. ASSUME NEW t \in Thread, SendPush(t) \/ SendCheck(t) \/ ReceiveSend(t) \/ CallReturns(t)
        PROVE  UNCHANGED dispatched
    BY <1>4 DEF SendPush, SendCheck, ReceiveSend, CallReturns, history
  <1>5. ASSUME NEW t \in Thread, SendsDone(t) \/ PostReturns(t) \/ StopCheck(t)
        PROVE  UNCHANGED dispatched
    BY <1>5 DEF SendsDone, PostReturns, StopCheck, history
  <1>6. ASSUME NEW t \in Thread, WaitSignalled(t) \/ WaitTimeout(t) \/ JoinReturns(t)
        PROVE  UNCHANGED dispatched
    BY <1>6 DEF WaitSignalled, WaitTimeout, JoinReturns, history
  <1>7. Tick \/ UNCHANGED vars => UNCHANGED dispatched
    BY DEF Tick, vars, history
  <1>9. ASSUME NEW t \in Thread, DoDelayPost(t) PROVE UNCHANGED dispatched
    BY <1>9 DEF DoDelayPost, history
  <1>8. UNCHANGED dispatched \/ \E t \in Thread : Pull(t)
    BY <1>1, <1>2, <1>3, <1>4, <1>5, <1>6, <1>7, <1>9, StepCases
  <1> QED
    BY <1>8, TypePull

\* No message is dispatched to a handler that was destroyed: ~MessageHandler
\* clears the queues of its thread, and its messages are in no other.
THEOREM DestroyedStay == Spec => DestroyedNotRun
  <1>1. TypeInv /\ [Next]_vars =>
          [\A t \in Thread : dispatched'[t] # dispatched[t] =>
              dispatched'[t][Len(dispatched'[t])].to \notin gone]_vars
    BY DispatchStep
  <1> QED
    BY <1>1, TypeInit, TypeStep, PTL DEF Spec, DestroyedNotRun

-----------------------------------------------------------------------------
(* Calls: the frames that matter *)

Same(u, i) ==
    /\ SendFrame(u, i)' <=> SendFrame(u, i)
    /\ CallFrame(u, i)' <=> CallFrame(u, i)
    /\ SendFrame(u, i) \/ CallFrame(u, i) =>
          /\ stack'[u][i].id = stack[u][i].id
          /\ stack'[u][i].pc = "push" <=> stack[u][i].pc = "push"

SameBut(t, n) == \A u \in Thread, i \in Nat : u # t \/ i # n => Same(u, i)

LEMMA SameGrown ==
    ASSUME TypeOK, NEW t \in Thread, NEW f, Grown(t, f), NEW n, n = Len(stack[t]) + 1
    PROVE  /\ SameBut(t, n) /\ n \in Nat \ {0}
           /\ ~SendFrame(t, n) /\ ~CallFrame(t, n)
           /\ SendFrame(t, n)' <=> f.kind = "send"
           /\ CallFrame(t, n)' <=> f.kind = "call"
           /\ stack'[t][n] = f
  <1>1. Len(stack[t]) \in Nat
    BY StackNow
  <1>2. n \in Nat \ {0} /\ Len(stack'[t]) = n
    BY <1>1 DEF Grown
  <1>3. n \in 1..Len(stack'[t]) /\ n \notin 1..Len(stack[t]) /\ stack'[t][n] = f
    BY <1>1, <1>2 DEF Grown
  <1>4. ASSUME NEW u \in Thread, NEW i \in Nat, u # t \/ i # n PROVE Same(u, i)
    <2>1. CASE u # t
      BY <2>1 DEF Grown, Same, SendFrame, CallFrame
    <2>2. CASE u = t
      <3>1. i \in 1..Len(stack'[t]) <=> i \in 1..Len(stack[t])
        BY <1>1, <1>2, <1>4, <2>2
      <3>2. i \in 1..Len(stack[t]) => stack'[t][i] = stack[t][i]
        BY DEF Grown
      <3> QED
        BY <2>2, <3>1, <3>2 DEF Same, SendFrame, CallFrame
    <2> QED
      BY <2>1, <2>2
  <1>5. SameBut(t, n)
    BY <1>4 DEF SameBut
  <1>6. (SendFrame(t, n)' <=> f.kind = "send") /\ (CallFrame(t, n)' <=> f.kind = "call")
    BY <1>3 DEF SendFrame, CallFrame
  <1>7. ~SendFrame(t, n) /\ ~CallFrame(t, n)
    BY <1>3 DEF SendFrame, CallFrame
  <1> QED
    BY <1>2, <1>3, <1>5, <1>6, <1>7

LEMMA SameShrunk ==
    ASSUME TypeOK, NEW t \in Thread, Shrunk(t), NEW n, n = Len(stack[t])
    PROVE  /\ SameBut(t, n) /\ n \in Nat \ {0} /\ n \in 1..n
           /\ ~SendFrame(t, n)' /\ ~CallFrame(t, n)'
           /\ SendFrame(t, n) <=> Top(t).kind = "send"
           /\ CallFrame(t, n) <=> Top(t).kind = "call"
           /\ stack[t][n] = Top(t)
  <1>1. n \in Nat \ {0}
    BY DEF Shrunk
  <1>2. Len(stack'[t]) = n - 1 /\ n \notin 1..(n - 1) /\ n \in 1..n
    BY <1>1 DEF Shrunk
  <1>3. ASSUME NEW u \in Thread, NEW i \in Nat, u # t \/ i # n PROVE Same(u, i)
    <2>1. CASE u # t
      BY <2>1 DEF Shrunk, Same, SendFrame, CallFrame
    <2>2. CASE u = t
      <3>1. i \in 1..Len(stack'[t]) <=> i \in 1..Len(stack[t])
        BY <1>1, <1>2, <1>3, <2>2
      <3>2. i \in 1..(n - 1) => stack'[t][i] = stack[t][i]
        BY DEF Shrunk
      <3> QED
        BY <1>2, <2>2, <3>1, <3>2 DEF Same, SendFrame, CallFrame
    <2> QED
      BY <2>1, <2>2
  <1> QED
    BY <1>1, <1>2, <1>3 DEF SameBut, SendFrame, CallFrame, Top

LEMMA SameMoved ==
    ASSUME TypeOK, NEW t \in Thread, NEW p, NEW w, Moved(t, p, w), NEW n, n = Len(stack[t])
    PROVE  /\ SameBut(t, n) /\ n \in Nat \ {0} /\ n \in 1..n
           /\ SendFrame(t, n)' <=> Top(t).kind = "send"
           /\ SendFrame(t, n) <=> Top(t).kind = "send"
           /\ CallFrame(t, n)' <=> Top(t).kind = "call"
           /\ CallFrame(t, n) <=> Top(t).kind = "call"
           /\ stack[t][n] = Top(t) /\ stack'[t][n].id = Top(t).id /\ stack'[t][n].pc = p
           /\ stack'[t][n].waited = w
  <1>1. n \in Nat \ {0} /\ Len(stack'[t]) = n /\ n \in 1..n
    BY DEF Moved
  <1>2. PICK f, g : f = Top(t) /\ g = stack'[t][n]
    OBVIOUS
  <1>3. f \in Frame /\ g = [f EXCEPT !.pc = p, !.waited = w]
    BY <1>1, <1>2, StackNow DEF Moved, Top
  <1>4. g.kind = f.kind /\ g.id = f.id /\ g.pc = p /\ g.waited = w
    BY <1>3 DEF Frame
  <1>5. ASSUME NEW u \in Thread, NEW i \in Nat, u # t \/ i # n PROVE Same(u, i)
    <2>1. CASE u # t
      BY <2>1 DEF Moved, Same, SendFrame, CallFrame
    <2>2. CASE u = t
      <3>1. i \in 1..n => i \in 1..(n - 1)
        BY <1>1, <1>5, <2>2
      <3>2. i \in 1..(n - 1) => stack'[t][i] = stack[t][i]
        BY DEF Moved
      <3> QED
        BY <1>1, <2>2, <3>1, <3>2 DEF Same, SendFrame, CallFrame
    <2> QED
      BY <2>1, <2>2
  <1> QED
    BY <1>1, <1>2, <1>4, <1>5 DEF SameBut, SendFrame, CallFrame, Top

\* The frames and the lists in the terms of one call.
LEMMA CallNow ==
    ASSUME TypeInv
    PROVE  /\ \A t \in Thread, i \in Nat : SendFrame(t, i) =>
                 /\ i \in 1..Len(stack[t]) /\ stack[t][i].id \in DOMAIN calls
                 /\ calls[stack[t][i].id].from = t
           /\ \A t \in Thread, i \in Nat : CallFrame(t, i) =>
                 /\ i \in 1..Len(stack[t]) /\ stack[t][i].id \in DOMAIN calls
                 /\ Home[calls[stack[t][i].id].to] = t
           /\ \A t \in Thread : Len(stack[t]) \in Nat /\ Len(sendlist[t]) \in Nat
  <1>1. TypeOK /\ StackOK
    BY DEF TypeInv
  <1>2. ASSUME NEW t \in Thread, NEW i \in Nat, SendFrame(t, i)
        PROVE  /\ i \in 1..Len(stack[t]) /\ stack[t][i].id \in DOMAIN calls
               /\ calls[stack[t][i].id].from = t
    <2>1. FrameOK(t, stack[t][i], Below(t, i)) /\ stack[t][i].kind = "send"
      BY <1>1, <1>2 DEF StackOK, SendFrame
    <2> QED
      BY <1>2, <2>1 DEF FrameOK, SendFrame
  <1>3. ASSUME NEW t \in Thread, NEW i \in Nat, CallFrame(t, i)
        PROVE  /\ i \in 1..Len(stack[t]) /\ stack[t][i].id \in DOMAIN calls
               /\ Home[calls[stack[t][i].id].to] = t
    <2>1. FrameOK(t, stack[t][i], Below(t, i)) /\ stack[t][i].kind = "call"
      BY <1>1, <1>3 DEF StackOK, CallFrame
    <2> QED
      BY <1>3, <2>1 DEF FrameOK, CallFrame
  <1> QED
    BY <1>1, <1>2, <1>3, StackNow, ListNow

\* CallInv speaks of frames by their number; what it says of all numbers.
LEMMA OnceNow ==
    ASSUME TypeInv, CallInv
    PROVE  /\ \A t \in Thread, i, j \in Nat :
                 SendFrame(t, i) /\ SendFrame(t, j) /\ stack[t][i].id = stack[t][j].id => i = j
           /\ \A t \in Thread, i, j \in Nat :
                 CallFrame(t, i) /\ CallFrame(t, j) /\ stack[t][i].id = stack[t][j].id => i = j
           /\ \A t \in Thread, j \in Nat : \A i \in 1..Len(sendlist[t]) :
                 CallFrame(t, j) => stack[t][j].id # sendlist[t][i]
           /\ \A t \in Thread, i \in Nat :
                 SendFrame(t, i) /\ stack[t][i].pc = "push" => stack[t][i].id \notin ready
           /\ \A c \in DOMAIN calls : InList(c) \/ InFrame(c) <=> Waited(c) /\ c \notin ready
           /\ ListedOnce
  BY DEF CallInv, SendsOnce, RunsOnce, ListedOrRuns, NotBeforeListed, SendFrame, CallFrame

OnceNext ==
    /\ \A t \in Thread, i, j \in Nat :
          SendFrame(t, i) /\ SendFrame(t, j) /\ stack[t][i].id = stack[t][j].id => i = j
    /\ \A t \in Thread, i, j \in Nat :
          CallFrame(t, i) /\ CallFrame(t, j) /\ stack[t][i].id = stack[t][j].id => i = j
    /\ \A t \in Thread, j \in Nat : \A i \in 1..Len(sendlist[t]) :
          CallFrame(t, j) => stack[t][j].id # sendlist[t][i]
    /\ \A t \in Thread, i \in Nat :
          SendFrame(t, i) /\ stack[t][i].pc = "push" => stack[t][i].id \notin ready
    /\ \A c \in DOMAIN calls : InList(c) \/ InFrame(c) <=> Waited(c) /\ c \notin ready
    /\ ListedOnce

LEMMA OnceCalls ==
    ASSUME TypeInv', OnceNext'
    PROVE  CallInv'
  <1>1. \A t \in Thread : Len(stack'[t]) \in Nat
    BY SeqParts DEF TypeInv, TypeOK
  <1>2. \A t \in Thread : \A i \in 1..Len(stack'[t]) : i \in Nat
    BY <1>1
  <1>3. SendsOnce'
    BY <1>2 DEF OnceNext, SendsOnce
  <1>4. RunsOnce'
    BY <1>2 DEF OnceNext, RunsOnce
  <1>5. ListedOrRuns'
    BY <1>2 DEF OnceNext, ListedOrRuns
  <1>6. NotBeforeListed'
    BY <1>2 DEF OnceNext, NotBeforeListed
  <1> QED
    BY <1>3, <1>4, <1>5, <1>6 DEF OnceNext, CallInv

\* Steps that leave the Sends and the calls where they are.
LEMMA CallsStay ==
    ASSUME TypeInv, CallInv, TypeInv', UNCHANGED <<sendlist, ready, calls>>,
           \A u \in Thread, i \in Nat : Same(u, i)
    PROVE  CallInv'
  <1>1. \A u \in Thread, i \in Nat :
            /\ SendFrame(u, i)' <=> SendFrame(u, i)
            /\ CallFrame(u, i)' <=> CallFrame(u, i)
            /\ SendFrame(u, i) \/ CallFrame(u, i) =>
                  /\ stack'[u][i].id = stack[u][i].id
                  /\ stack'[u][i].pc = "push" <=> stack[u][i].pc = "push"
    BY DEF Same
  <1>2. \A c \in DOMAIN calls : (InFrame(c)' <=> InFrame(c)) /\ (Waited(c)' <=> Waited(c))
    <2> SUFFICES ASSUME NEW c \in DOMAIN calls
                 PROVE  (InFrame(c)' <=> InFrame(c)) /\ (Waited(c)' <=> Waited(c))
      OBVIOUS
    <2>1. PICK h, f : h = Home[calls[c].to] /\ f = calls[c].from
      OBVIOUS
    <2>2. h \in Thread /\ f \in Thread
      BY <2>1, FrameCall
    <2>3. /\ InFrame(c) <=> \E i \in Nat : CallFrame(h, i) /\ stack[h][i].id = c
          /\ Waited(c) <=> \E i \in Nat : SendFrame(f, i) /\ stack[f][i].id = c /\ stack[f][i].pc # "push"
      BY <2>1, <2>2, CallNow DEF InFrame, Waited, SendFrame, CallFrame
    <2>4. /\ InFrame(c)' <=> \E i \in Nat : CallFrame(h, i)' /\ stack'[h][i].id = c
          /\ Waited(c)' <=> \E i \in Nat : SendFrame(f, i)' /\ stack'[f][i].id = c /\ stack'[f][i].pc # "push"
      BY <2>1, <2>2 DEF InFrame, Waited, SendFrame, CallFrame
    <2> QED
      BY <1>1, <2>2, <2>3, <2>4
  <1>3. \A c \in DOMAIN calls : InList(c)' <=> InList(c)
    BY DEF InList
  <1>4. OnceNext'
    BY <1>1, <1>2, <1>3, OnceNow DEF OnceNext, ListedOnce
  <1> QED
    BY <1>4, OnceCalls

\* Where a call is, now and after a step.
LEMMA WhereNow ==
    ASSUME TypeInv, NEW c \in DOMAIN calls, NEW h, NEW f, h = Home[calls[c].to], f = calls[c].from
    PROVE  /\ h \in Thread /\ f \in Thread
           /\ InList(c) <=> \E i \in 1..Len(sendlist[h]) : sendlist[h][i] = c
           /\ InFrame(c) <=> \E i \in Nat : CallFrame(h, i) /\ stack[h][i].id = c
           /\ Waited(c) <=> \E i \in Nat : SendFrame(f, i) /\ stack[f][i].id = c /\ stack[f][i].pc # "push"
  <1>1. h \in Thread /\ f \in Thread
    BY FrameCall
  <1>2. InList(c) <=> \E i \in 1..Len(sendlist[h]) : sendlist[h][i] = c
    BY DEF InList
  <1>3. InFrame(c) <=> \E i \in Nat : CallFrame(h, i) /\ stack[h][i].id = c
    <2>1. \A i \in Nat : CallFrame(h, i) => i \in 1..Len(stack[h])
      BY DEF CallFrame
    <2>2. \A i \in 1..Len(stack[h]) : i \in Nat
      OBVIOUS
    <2> QED
      BY <2>1, <2>2 DEF InFrame
  <1>4. Waited(c) <=> \E i \in Nat : SendFrame(f, i) /\ stack[f][i].id = c /\ stack[f][i].pc # "push"
    <2>1. \A i \in Nat : SendFrame(f, i) => i \in 1..Len(stack[f])
      BY DEF SendFrame
    <2>2. \A i \in 1..Len(stack[f]) : i \in Nat
      OBVIOUS
    <2> QED
      BY <2>1, <2>2 DEF Waited
  <1> QED
    BY <1>1, <1>2, <1>3, <1>4

LEMMA WhereNext ==
    ASSUME NEW c, NEW h \in Thread, NEW f \in Thread, h = Home[calls'[c].to], f = calls'[c].from,
           stack' \in [Thread -> Seq(Frame)]
    PROVE  /\ InList(c)' <=> \E i \in 1..Len(sendlist'[h]) : sendlist'[h][i] = c
           /\ InFrame(c)' <=> \E i \in Nat : CallFrame(h, i)' /\ stack'[h][i].id = c
           /\ Waited(c)' <=> \E i \in Nat : SendFrame(f, i)' /\ stack'[f][i].id = c /\ stack'[f][i].pc # "push"
  <1>1. Len(stack'[h]) \in Nat /\ Len(stack'[f]) \in Nat
    BY SeqParts
  <1> QED
    BY <1>1 DEF InList, InFrame, Waited, SendFrame, CallFrame

\* The places of a call that a step is not about.
LEMMA WhereSame ==
    ASSUME TypeInv, TypeInv', CallsKept, NEW c \in DOMAIN calls, NEW t \in Thread, NEW n \in Nat, SameBut(t, n),
           SendFrame(t, n) \/ CallFrame(t, n) => stack[t][n].id # c,
           SendFrame(t, n)' \/ CallFrame(t, n)' => stack'[t][n].id # c
    PROVE  (InFrame(c)' <=> InFrame(c)) /\ (Waited(c)' <=> Waited(c))
  <1>1. PICK h, f : h = Home[calls[c].to] /\ f = calls[c].from
    OBVIOUS
  <1>2. /\ h \in Thread /\ f \in Thread
        /\ InFrame(c) <=> \E i \in Nat : CallFrame(h, i) /\ stack[h][i].id = c
        /\ Waited(c) <=> \E i \in Nat : SendFrame(f, i) /\ stack[f][i].id = c /\ stack[f][i].pc # "push"
    BY <1>1, WhereNow
  <1>3. calls'[c] = calls[c] /\ stack' \in [Thread -> Seq(Frame)]
    BY DEF CallsKept, TypeInv, TypeOK
  <1>4. /\ InFrame(c)' <=> \E i \in Nat : CallFrame(h, i)' /\ stack'[h][i].id = c
        /\ Waited(c)' <=> \E i \in Nat : SendFrame(f, i)' /\ stack'[f][i].id = c /\ stack'[f][i].pc # "push"
    <2>1. h = Home[calls'[c].to] /\ f = calls'[c].from
      BY <1>1, <1>3
    <2>2. h \in Thread /\ f \in Thread
      BY <1>2
    <2>3. stack' \in [Thread -> Seq(Frame)]
      BY <1>3
    <2>4. Len(stack'[h]) \in Nat /\ Len(stack'[f]) \in Nat
      BY <2>2, <2>3, SeqParts
    <2> QED
      BY <2>1, <2>4 DEF InFrame, Waited, SendFrame, CallFrame
  <1>5. ASSUME NEW i \in Nat
        PROVE  (CallFrame(h, i)' /\ stack'[h][i].id = c) <=> (CallFrame(h, i) /\ stack[h][i].id = c)
    <2>1. CASE h = t /\ i = n
      BY <2>1
    <2>2. CASE h # t \/ i # n
      <3>1. Same(h, i)
        BY <1>2, <2>2 DEF SameBut
      <3> QED
        BY <3>1 DEF Same
    <2> QED
      BY <2>1, <2>2
  <1>6. ASSUME NEW i \in Nat
        PROVE  (SendFrame(f, i)' /\ stack'[f][i].id = c /\ stack'[f][i].pc # "push")
                 <=> (SendFrame(f, i) /\ stack[f][i].id = c /\ stack[f][i].pc # "push")
    <2>1. CASE f = t /\ i = n
      BY <2>1
    <2>2. CASE f # t \/ i # n
      <3>1. Same(f, i)
        BY <1>2, <2>2 DEF SameBut
      <3> QED
        BY <3>1 DEF Same
    <2> QED
      BY <2>1, <2>2
  <1> QED
    BY <1>2, <1>4, <1>5, <1>6

LEMMA ListSame ==
    ASSUME CallsKept, UNCHANGED sendlist, NEW c \in DOMAIN calls
    PROVE  InList(c)' <=> InList(c)
  BY DEF CallsKept, InList

LEMMA CallsSend ==
    ASSUME TypeInv, CallInv, TypeInv', NEW t \in Thread, NEW h \in Handler, Send(t, h)
    PROVE  CallInv'
  <1>0. TypeOK
    BY DEF TypeInv
  <1>1. /\ NewCall(t, h) /\ UNCHANGED <<queues, ready>>
        /\ UNCHANGED stack \/ Grown(t, NewFrame("send", Len(calls) + 1, h, "push"))
    BY SendEffect
  <1>2. PICK c, f : c = Len(calls) + 1 /\ f = NewFrame("send", c, h, "push")
    OBVIOUS
  <1>3. /\ CallsKept /\ UNCHANGED sendlist /\ c \in Nat /\ c \notin DOMAIN calls
        /\ DOMAIN calls' = DOMAIN calls \cup {c} /\ calls'[c].from = t /\ calls'[c].to = h
    BY <1>1, <1>2 DEF NewCall, CallsKept, queues
  <1>4. f.kind = "send" /\ f.id = c /\ f.pc = "push"
    BY <1>2 DEF NewFrame
  <1>5. PICK n : n = Len(stack[t]) + 1
    OBVIOUS
  <1>6. /\ n \in Nat \ {0} /\ SameBut(t, n) /\ ~SendFrame(t, n) /\ ~CallFrame(t, n) /\ ~CallFrame(t, n)'
        /\ SendFrame(t, n)' => stack'[t][n] = f
    <2>1. CASE Grown(t, f)
      BY <1>0, <1>4, <1>5, <2>1, SameGrown
    <2>2. CASE UNCHANGED stack
      <3>1. n \in Nat \ {0} /\ n \notin 1..Len(stack[t])
        BY <1>0, <1>5, StackNow
      <3>2. ~SendFrame(t, n) /\ ~CallFrame(t, n) /\ ~SendFrame(t, n)' /\ ~CallFrame(t, n)'
        BY <2>2, <3>1 DEF SendFrame, CallFrame
      <3>3. SameBut(t, n)
        BY <2>2 DEF SameBut, Same, SendFrame, CallFrame
      <3> QED
        BY <3>1, <3>2, <3>3
    <2> QED
      BY <1>1, <1>2, <2>1, <2>2
  <1>7. c \notin ready
    BY <1>3 DEF TypeInv, SetsOK
  <1>8. ASSUME NEW u \in Thread, NEW i \in Nat, u # t \/ i # n
        PROVE  /\ SendFrame(u, i)' <=> SendFrame(u, i)
               /\ CallFrame(u, i)' <=> CallFrame(u, i)
               /\ SendFrame(u, i) \/ CallFrame(u, i) =>
                     /\ stack'[u][i].id = stack[u][i].id /\ stack'[u][i].id # c
                     /\ stack'[u][i].pc = "push" <=> stack[u][i].pc = "push"
    <2>1. Same(u, i)
      BY <1>6, <1>8 DEF SameBut
    <2> QED
      BY <1>3, <2>1, CallNow DEF Same
  <1>9. ASSUME NEW d \in DOMAIN calls'
        PROVE  InList(d)' \/ InFrame(d)' <=> Waited(d)' /\ d \notin ready'
    <2>1. CASE d = c
      <3>1. PICK v : v = Home[h]
        OBVIOUS
      <3>2. v \in Thread /\ stack' \in [Thread -> Seq(Frame)]
        BY <3>1, ThreadAssumption DEF TypeInv, TypeOK
      <3>3. /\ InList(c)' <=> \E i \in 1..Len(sendlist'[v]) : sendlist'[v][i] = c
            /\ InFrame(c)' <=> \E i \in Nat : CallFrame(v, i)' /\ stack'[v][i].id = c
            /\ Waited(c)' <=> \E i \in Nat : SendFrame(t, i)' /\ stack'[t][i].id = c /\ stack'[t][i].pc # "push"
        <4>1. v = Home[calls'[c].to] /\ t = calls'[c].from
          BY <1>3, <3>1
        <4> QED
          BY <3>2, <4>1, WhereNext
      <3>4. ~InList(c)'
        BY <1>3, <3>2, <3>3 DEF TypeInv, ListOK
      <3>5. ~InFrame(c)'
        BY <1>6, <1>8, <3>2, <3>3
      <3>6. ~Waited(c)'
        BY <1>4, <1>6, <1>8, <3>3
      <3> QED
        BY <2>1, <3>4, <3>5, <3>6
    <2>2. CASE d # c
      <3>1. d \in DOMAIN calls
        BY <1>3, <2>2
      <3>2. (InFrame(d)' <=> InFrame(d)) /\ (Waited(d)' <=> Waited(d))
        BY <1>3, <1>4, <1>6, <2>2, <3>1, WhereSame
      <3>3. InList(d)' <=> InList(d)
        BY <1>3, <3>1, ListSame
      <3> QED
        BY <1>1, <3>1, <3>2, <3>3, OnceNow
    <2> QED
      BY <2>1, <2>2
  <1>10. OnceNext'
    <2>1. ASSUME NEW u \in Thread, NEW i \in Nat, NEW j \in Nat,
                 SendFrame(u, i)', SendFrame(u, j)', stack'[u][i].id = stack'[u][j].id
          PROVE  i = j
      BY <1>4, <1>6, <1>8, <2>1, OnceNow
    <2>2. ASSUME NEW u \in Thread, NEW i \in Nat, NEW j \in Nat,
                 CallFrame(u, i)', CallFrame(u, j)', stack'[u][i].id = stack'[u][j].id
          PROVE  i = j
      BY <1>6, <1>8, <2>2, OnceNow
    <2>3. ASSUME NEW u \in Thread, NEW j \in Nat, NEW i \in 1..Len(sendlist'[u]), CallFrame(u, j)'
          PROVE  stack'[u][j].id # sendlist'[u][i]
      BY <1>3, <1>6, <1>8, <2>3, OnceNow
    <2>4. ASSUME NEW u \in Thread, NEW i \in Nat, SendFrame(u, i)', stack'[u][i].pc = "push"
          PROVE  stack'[u][i].id \notin ready'
      BY <1>1, <1>4, <1>6, <1>7, <1>8, <2>4, OnceNow
    <2>5. ListedOnce'
      BY <1>3, OnceNow DEF ListedOnce
    <2> QED
      BY <1>9, <2>1, <2>2, <2>3, <2>4, <2>5 DEF OnceNext
  <1> QED
    BY <1>10, OnceCalls

\* What SameBut says of one frame.
LEMMA SameFrames ==
    ASSUME NEW t, NEW n, SameBut(t, n), NEW u \in Thread, NEW i \in Nat, u # t \/ i # n
    PROVE  /\ SendFrame(u, i)' <=> SendFrame(u, i)
           /\ CallFrame(u, i)' <=> CallFrame(u, i)
           /\ SendFrame(u, i) \/ CallFrame(u, i) =>
                 /\ stack'[u][i].id = stack[u][i].id
                 /\ stack'[u][i].pc = "push" <=> stack[u][i].pc = "push"
  <1>1. Same(u, i)
    BY DEF SameBut
  <1> QED
    BY <1>1 DEF Same

LEMMA CallsSendPush ==
    ASSUME TypeInv, CallInv, TypeInv', NEW t \in Thread, SendPush(t)
    PROVE  CallInv'
  <1>0. TypeOK
    BY DEF TypeInv
  <1>1. /\ stack[t] # <<>> /\ Top(t).kind = "send" /\ Top(t).pc = "push"
        /\ Moved(t, "check", Top(t).waited) /\ ListGrown(Home[Top(t).of], Top(t).id)
        /\ UNCHANGED <<ready, calls>>
    BY SendPushEffect
  <1>2. PICK v, c, w, n : /\ v = Home[Top(t).of] /\ c = Top(t).id /\ w = Top(t).waited
                          /\ n = Len(stack[t])
    OBVIOUS
  <1>3. /\ c \in DOMAIN calls /\ v \in Thread /\ v = Home[calls[c].to] /\ t = calls[c].from
    BY <1>1, <1>2, TopSend
  <1>4. /\ SameBut(t, n) /\ n \in Nat /\ SendFrame(t, n) /\ SendFrame(t, n)'
        /\ ~CallFrame(t, n) /\ ~CallFrame(t, n)'
        /\ stack[t][n].id = c /\ stack[t][n].pc = "push"
        /\ stack'[t][n].id = c /\ stack'[t][n].pc = "check"
    BY <1>0, <1>1, <1>2, SameMoved
  <1>5. /\ CallsKept /\ stack' \in [Thread -> Seq(Frame)]
    BY <1>0, <1>1, CallsSame DEF TypeInv, TypeOK
  <1>6. c \notin ready /\ ~Waited(c) /\ ~InList(c) /\ ~InFrame(c)
    <2>1. c \notin ready
      BY <1>4, OnceNow
    <2>2. ~Waited(c)
      <3>1. Waited(c) <=> \E i \in Nat : SendFrame(t, i) /\ stack[t][i].id = c /\ stack[t][i].pc # "push"
        BY <1>3, WhereNow
      <3> QED
        BY <1>4, <3>1, OnceNow
    <2> QED
      BY <1>3, <2>1, <2>2, OnceNow
  <1>7. /\ \A i \in 1..Len(sendlist[v]) : sendlist[v][i] # c
        /\ \A i \in Nat : CallFrame(v, i) => stack[v][i].id # c
    BY <1>3, <1>6, WhereNow
  <1>8. /\ \A u \in Thread \ {v} : sendlist'[u] = sendlist[u]
        /\ Len(sendlist[v]) \in Nat /\ Len(sendlist'[v]) = Len(sendlist[v]) + 1
        /\ \A i \in 1..Len(sendlist[v]) : sendlist'[v][i] = sendlist[v][i]
        /\ sendlist'[v][Len(sendlist[v]) + 1] = c
    <2>1. ListGrown(v, c)
      BY <1>1, <1>2
    <2>2. Len(sendlist[v]) \in Nat
      BY <1>3, CallNow
    <2> QED
      BY <2>1, <2>2 DEF ListGrown
  <1>9. \A i \in 1..Len(sendlist'[v]) : i \in 1..Len(sendlist[v]) \/ i = Len(sendlist[v]) + 1
    BY <1>8
  <1>10. ASSUME NEW d \in DOMAIN calls'
         PROVE  InList(d)' \/ InFrame(d)' <=> Waited(d)' /\ d \notin ready'
    <2>1. CASE d = c
      <3>1. /\ InList(c)' <=> \E i \in 1..Len(sendlist'[v]) : sendlist'[v][i] = c
            /\ Waited(c)' <=> \E i \in Nat : SendFrame(t, i)' /\ stack'[t][i].id = c /\ stack'[t][i].pc # "push"
        <4>1. v = Home[calls'[c].to] /\ t = calls'[c].from
          BY <1>1, <1>3
        <4> QED
          BY <1>3, <1>5, <4>1, WhereNext
      <3>2. InList(c)'
        BY <1>8, <3>1
      <3>3. Waited(c)'
        BY <1>4, <3>1
      <3> QED
        BY <1>1, <1>6, <2>1, <3>2, <3>3
    <2>2. CASE d # c
      <3>1. d \in DOMAIN calls
        BY <1>1
      <3>2. (InFrame(d)' <=> InFrame(d)) /\ (Waited(d)' <=> Waited(d))
        BY <1>4, <1>5, <2>2, <3>1, WhereSame
      <3>3. InList(d)' <=> InList(d)
        <4>1. CASE Home[calls[d].to] = v
          <5>1. InList(d)' <=> \E i \in 1..Len(sendlist'[v]) : sendlist'[v][i] = d
            BY <1>1, <4>1 DEF InList
          <5>2. InList(d) <=> \E i \in 1..Len(sendlist[v]) : sendlist[v][i] = d
            BY <4>1 DEF InList
          <5>3. InList(d) => InList(d)'
            <6>1. \A i \in 1..Len(sendlist[v]) : i \in 1..Len(sendlist'[v])
              BY <1>8
            <6> QED
              BY <1>8, <5>1, <5>2, <6>1
          <5>4. InList(d)' => InList(d)
            <6> SUFFICES ASSUME NEW i \in 1..Len(sendlist'[v]), sendlist'[v][i] = d
                         PROVE  InList(d)
              BY <5>1
            <6>1. i # Len(sendlist[v]) + 1
              BY <1>8, <2>2
            <6>2. i \in 1..Len(sendlist[v])
              BY <1>9, <6>1
            <6> QED
              BY <1>8, <5>2, <6>2
          <5> QED
            BY <5>3, <5>4
        <4>2. CASE Home[calls[d].to] # v
          <5>1. Home[calls[d].to] \in Thread
            BY <3>1, FrameCall
          <5> QED
            BY <1>1, <1>8, <4>2, <5>1 DEF InList
        <4> QED
          BY <4>1, <4>2
      <3> QED
        BY <1>1, <3>1, <3>2, <3>3, OnceNow
    <2> QED
      BY <2>1, <2>2
  <1>11. OnceNext'
    <2>1. ASSUME NEW u \in Thread, NEW i \in Nat, NEW j \in Nat,
                 SendFrame(u, i)', SendFrame(u, j)', stack'[u][i].id = stack'[u][j].id
          PROVE  i = j
      <3>1. /\ SendFrame(u, i) /\ stack[u][i].id = stack'[u][i].id
            /\ SendFrame(u, j) /\ stack[u][j].id = stack'[u][j].id
        BY <1>4, <2>1, SameFrames
      <3> QED
        BY <2>1, <3>1, OnceNow
    <2>2. ASSUME NEW u \in Thread, NEW j \in Nat, CallFrame(u, j)'
          PROVE  CallFrame(u, j) /\ stack[u][j].id = stack'[u][j].id
      BY <1>4, <2>2, SameFrames
    <2>3. ASSUME NEW u \in Thread, NEW i \in Nat, NEW j \in Nat,
                 CallFrame(u, i)', CallFrame(u, j)', stack'[u][i].id = stack'[u][j].id
          PROVE  i = j
      <3>1. /\ CallFrame(u, i) /\ stack[u][i].id = stack'[u][i].id
            /\ CallFrame(u, j) /\ stack[u][j].id = stack'[u][j].id
        BY <2>2, <2>3
      <3> QED
        BY <2>3, <3>1, OnceNow
    <2>4. ASSUME NEW u \in Thread, NEW j \in Nat, NEW i \in 1..Len(sendlist'[u]), CallFrame(u, j)'
          PROVE  stack'[u][j].id # sendlist'[u][i]
      <3>1. CallFrame(u, j) /\ stack[u][j].id = stack'[u][j].id
        BY <2>2, <2>4
      <3>2. CASE u = v
        <4>1. CASE i \in 1..Len(sendlist[v])
          BY <1>8, <3>1, <3>2, <4>1, OnceNow
        <4>2. CASE i = Len(sendlist[v]) + 1
          BY <1>7, <1>8, <3>1, <3>2, <4>2
        <4> QED
          BY <1>9, <3>2, <4>1, <4>2
      <3>3. CASE u # v
        BY <1>8, <3>1, <3>3, OnceNow
      <3> QED
        BY <3>2, <3>3
    <2>5. ASSUME NEW u \in Thread, NEW i \in Nat, SendFrame(u, i)', stack'[u][i].pc = "push"
          PROVE  stack'[u][i].id \notin ready'
      <3>1. /\ SendFrame(u, i) /\ stack[u][i].id = stack'[u][i].id /\ stack[u][i].pc = "push"
        BY <1>4, <2>5, SameFrames
      <3> QED
        BY <1>1, <3>1, OnceNow
    <2>6. ListedOnce'
      <3> SUFFICES ASSUME NEW u \in Thread, NEW i \in 1..Len(sendlist'[u]), NEW j \in 1..Len(sendlist'[u]),
                          sendlist'[u][i] = sendlist'[u][j]
                   PROVE  i = j
        BY DEF ListedOnce
      <3>1. CASE u = v
        BY <1>7, <1>8, <1>9, <3>1, OnceNow, SMTT(20) DEF ListedOnce
      <3>2. CASE u # v
        BY <1>8, <3>2, OnceNow DEF ListedOnce
      <3> QED
        BY <3>1, <3>2
    <2> QED
      BY <1>10, <2>1, <2>3, <2>4, <2>5, <2>6 DEF OnceNext
  <1> QED
    BY <1>11, OnceCalls

LEMMA CallsSendCheck ==
    ASSUME TypeInv, CallInv, TypeInv', NEW t \in Thread, SendCheck(t)
    PROVE  CallInv'
  <1>0. TypeOK
    BY DEF TypeInv
  <1>1. PICK n, w : n = Len(stack[t]) /\ w = Top(t).waited
    OBVIOUS
  <1>2. /\ stack[t] # <<>> /\ Top(t).kind = "send" /\ Top(t).pc = "check"
        /\ UNCHANGED <<queues, ready, calls>>
        /\ \/ Top(t).id \in ready /\ Shrunk(t)
           \/ Moved(t, "sends", w)
    BY <1>1, SendCheckEffect
  <1>3. CASE Moved(t, "sends", w)
    <2>1. /\ SameBut(t, n) /\ SendFrame(t, n)' /\ SendFrame(t, n) /\ ~CallFrame(t, n)' /\ ~CallFrame(t, n)
          /\ stack[t][n] = Top(t) /\ stack'[t][n].id = Top(t).id /\ stack'[t][n].pc = "sends"
      BY <1>0, <1>1, <1>2, <1>3, SameMoved
    <2>2. Same(t, n)
      BY <1>2, <2>1 DEF Same
    <2>3. \A u \in Thread, i \in Nat : Same(u, i)
      BY <2>1, <2>2 DEF SameBut
    <2> QED
      BY <1>2, <2>3, CallsStay DEF queues
  <1>4. CASE Top(t).id \in ready /\ Shrunk(t)
    <2>1. /\ SameBut(t, n) /\ n \in Nat /\ SendFrame(t, n) /\ ~CallFrame(t, n)
          /\ ~SendFrame(t, n)' /\ ~CallFrame(t, n)' /\ stack[t][n].id \in ready
      BY <1>0, <1>1, <1>2, <1>4, SameShrunk
    <2>2. PICK c : c = stack[t][n].id
      OBVIOUS
    <2>3. c \in DOMAIN calls /\ Home[calls[c].to] \in Thread /\ calls[c].from = t
      BY <2>1, <2>2, CallNow, FrameCall
    <2>4. CallsKept /\ stack' \in [Thread -> Seq(Frame)]
      BY <1>0, <1>2, CallsSame DEF TypeInv, TypeOK
    <2>5. ASSUME NEW d \in DOMAIN calls'
          PROVE  InList(d)' \/ InFrame(d)' <=> Waited(d)' /\ d \notin ready'
      <3>1. d \in DOMAIN calls /\ (InList(d)' <=> InList(d))
        BY <1>2, <2>4, ListSame DEF queues
      <3>2. CASE d # c
        <4>1. (InFrame(d)' <=> InFrame(d)) /\ (Waited(d)' <=> Waited(d))
          BY <2>1, <2>2, <2>4, <3>1, <3>2, WhereSame
        <4> QED
          BY <1>2, <3>1, <4>1, OnceNow
      <3>3. CASE d = c
        <4>1. ~InList(c) /\ ~InFrame(c)
          BY <2>1, <2>2, <2>3, OnceNow
        <4>2. PICK v \in Thread : v = Home[calls[c].to]
          BY <2>3
        <4>3. \A i \in Nat : ~(CallFrame(v, i) /\ stack[v][i].id = c)
          BY <2>3, <4>1, <4>2, WhereNow
        <4>4. InFrame(c)' <=> \E i \in Nat : CallFrame(v, i)' /\ stack'[v][i].id = c
          <5>1. v = Home[calls'[c].to] /\ t = calls'[c].from
            BY <1>2, <2>3, <4>2
          <5> QED
            BY <2>4, <5>1, WhereNext
        <4>5. ASSUME NEW i \in Nat, CallFrame(v, i)', stack'[v][i].id = c PROVE FALSE
          <5>1. v # t \/ i # n
            BY <2>1, <4>5
          <5>2. CallFrame(v, i) /\ stack[v][i].id = c
            BY <2>1, <4>5, <5>1, SameFrames
          <5> QED
            BY <4>3, <5>2
        <4> QED
          BY <1>2, <2>1, <2>2, <3>1, <3>3, <4>1, <4>4, <4>5
      <3> QED
        BY <3>2, <3>3
    <2>6. ASSUME NEW u \in Thread, NEW i \in Nat, SendFrame(u, i)' \/ CallFrame(u, i)'
          PROVE  /\ SendFrame(u, i)' => SendFrame(u, i)
                 /\ CallFrame(u, i)' => CallFrame(u, i)
                 /\ stack'[u][i].id = stack[u][i].id
                 /\ stack'[u][i].pc = "push" <=> stack[u][i].pc = "push"
      <3>1. u # t \/ i # n
        BY <2>1, <2>6
      <3> QED
        BY <2>1, <2>6, <3>1, SameFrames
    <2>7. OnceNext'
      <3>1. UNCHANGED <<sendlist, ready>>
        BY <1>2 DEF queues
      <3>2. ASSUME NEW u \in Thread, NEW i \in Nat, NEW j \in Nat,
                   SendFrame(u, i)', SendFrame(u, j)', stack'[u][i].id = stack'[u][j].id
            PROVE  i = j
        BY <2>6, <3>2, OnceNow
      <3>3. ASSUME NEW u \in Thread, NEW i \in Nat, NEW j \in Nat,
                   CallFrame(u, i)', CallFrame(u, j)', stack'[u][i].id = stack'[u][j].id
            PROVE  i = j
        BY <2>6, <3>3, OnceNow
      <3>4. ASSUME NEW u \in Thread, NEW j \in Nat, NEW i \in 1..Len(sendlist'[u]), CallFrame(u, j)'
            PROVE  stack'[u][j].id # sendlist'[u][i]
        BY <2>6, <3>1, <3>4, OnceNow
      <3>5. ASSUME NEW u \in Thread, NEW i \in Nat, SendFrame(u, i)', stack'[u][i].pc = "push"
            PROVE  stack'[u][i].id \notin ready'
        BY <2>6, <3>1, <3>5, OnceNow
      <3>6. ListedOnce'
        BY <3>1, OnceNow DEF ListedOnce
      <3> QED
        BY <2>5, <3>2, <3>3, <3>4, <3>5, <3>6 DEF OnceNext
    <2> QED
      BY <2>7, OnceCalls
  <1> QED
    BY <1>2, <1>3, <1>4

LEMMA CallsReceiveSend ==
    ASSUME TypeInv, CallInv, TypeInv', NEW t \in Thread, ReceiveSend(t)
    PROVE  CallInv'
  <1>0. TypeOK
    BY DEF TypeInv
  <1>1. PICK c, n, k, f : /\ c = sendlist[t][1] /\ n = Len(stack[t]) + 1 /\ k = Len(sendlist[t])
                          /\ f = NewFrame("call", c, calls[c].to, "run")
    OBVIOUS
  <1>2. /\ c \in DOMAIN calls /\ Home[calls[c].to] = t /\ ListTaken(t) /\ Grown(t, f)
        /\ UNCHANGED <<ready, calls>>
    BY <1>1, ReceiveSendEffect
  <1>3. f.kind = "call" /\ f.id = c
    BY <1>1 DEF NewFrame
  <1>4. /\ SameBut(t, n) /\ n \in Nat \ {0} /\ ~SendFrame(t, n) /\ ~CallFrame(t, n)
        /\ ~SendFrame(t, n)' /\ CallFrame(t, n)' /\ stack'[t][n].id = c
    BY <1>0, <1>1, <1>2, <1>3, SameGrown
  <1>5. CallsKept /\ stack' \in [Thread -> Seq(Frame)]
    BY <1>0, <1>2, CallsSame DEF TypeInv, TypeOK
  <1>6. /\ \A u \in Thread \ {t} : sendlist'[u] = sendlist[u]
        /\ k \in Nat \ {0} /\ Len(sendlist'[t]) = k - 1
        /\ \A i \in 1..(k - 1) : sendlist'[t][i] = sendlist[t][i + 1]
    BY <1>1, <1>2 DEF ListTaken
  <1>7. /\ \A i \in 1..Len(sendlist'[t]) : i + 1 \in 1..k /\ sendlist'[t][i] = sendlist[t][i + 1]
        /\ \A i \in 1..k : i # 1 => \E j \in 1..Len(sendlist'[t]) : i = j + 1
        /\ 1 \in 1..k
    <2>1. ASSUME NEW i \in 1..k, i # 1 PROVE \E j \in 1..Len(sendlist'[t]) : i = j + 1
      <3>1. i - 1 \in 1..(k - 1) /\ i = (i - 1) + 1
        BY <1>6, <2>1
      <3> QED
        BY <1>6, <3>1
    <2>2. ASSUME NEW i \in 1..Len(sendlist'[t])
          PROVE  i + 1 \in 1..k /\ sendlist'[t][i] = sendlist[t][i + 1]
      <3>1. i \in 1..(k - 1) /\ i + 1 \in 1..k
        BY <1>6
      <3> QED
        BY <1>6, <3>1
    <2>3. 1 \in 1..k
      BY <1>6
    <2> QED
      BY <2>1, <2>2, <2>3
  <1>8. \A i \in 1..k : i # 1 => sendlist[t][i] # c
    BY <1>1, <1>7, OnceNow DEF ListedOnce
  <1>9. \A i \in 1..Len(sendlist'[t]) : sendlist'[t][i] # c
    <2> SUFFICES ASSUME NEW i \in 1..Len(sendlist'[t]) PROVE sendlist'[t][i] # c
      OBVIOUS
    <2>1. i + 1 \in 1..k /\ i + 1 # 1 /\ sendlist'[t][i] = sendlist[t][i + 1]
      BY <1>6, <1>7
    <2> QED
      BY <1>8, <2>1
  <1>10. \A i \in Nat : CallFrame(t, i) => stack[t][i].id # c
    BY <1>1, <1>7, OnceNow
  <1>11. Waited(c) /\ c \notin ready
    <2>1. InList(c)
      BY <1>1, <1>2, <1>7 DEF InList
    <2> QED
      BY <1>2, <2>1, OnceNow
  <1>12. ASSUME NEW u \in Thread, NEW i \in Nat, SendFrame(u, i)'
         PROVE  /\ SendFrame(u, i) /\ stack'[u][i].id = stack[u][i].id
                /\ stack'[u][i].pc = "push" <=> stack[u][i].pc = "push"
    <2>1. u # t \/ i # n
      BY <1>4, <1>12
    <2> QED
      BY <1>4, <1>12, <2>1, SameFrames
  <1>13. ASSUME NEW u \in Thread, NEW i \in Nat, CallFrame(u, i)', u # t \/ i # n
         PROVE  CallFrame(u, i) /\ stack'[u][i].id = stack[u][i].id
    BY <1>4, <1>13, SameFrames
  <1>14. ASSUME NEW d \in DOMAIN calls'
         PROVE  InList(d)' \/ InFrame(d)' <=> Waited(d)' /\ d \notin ready'
    <2>1. CASE d = c
      <3>1. PICK g \in Thread : g = calls[c].from
        BY <1>2, FrameCall
      <3>2. /\ InFrame(c)' <=> \E i \in Nat : CallFrame(t, i)' /\ stack'[t][i].id = c
            /\ Waited(c)' <=> \E i \in Nat : SendFrame(g, i)' /\ stack'[g][i].id = c /\ stack'[g][i].pc # "push"
        <4>1. t = Home[calls'[c].to] /\ g = calls'[c].from
          BY <1>2, <3>1
        <4> QED
          BY <1>5, <4>1, WhereNext
      <3>3. InFrame(c)'
        BY <1>4, <3>2
      <3>4. PICK i \in Nat : SendFrame(g, i) /\ stack[g][i].id = c /\ stack[g][i].pc # "push"
        BY <1>2, <1>11, <3>1, WhereNow
      <3>5. g # t \/ i # n
        BY <1>4, <3>4
      <3>6. SendFrame(g, i)' /\ stack'[g][i].id = c /\ stack'[g][i].pc # "push"
        BY <1>4, <3>4, <3>5, SameFrames
      <3>7. Waited(c)'
        BY <3>2, <3>6
      <3> QED
        BY <1>2, <1>11, <2>1, <3>3, <3>7
    <2>2. CASE d # c
      <3>1. d \in DOMAIN calls
        BY <1>2
      <3>2. (InFrame(d)' <=> InFrame(d)) /\ (Waited(d)' <=> Waited(d))
        BY <1>4, <1>5, <2>2, <3>1, WhereSame
      <3>3. InList(d)' <=> InList(d)
        <4>1. CASE Home[calls[d].to] = t
          <5>1. InList(d)' <=> \E i \in 1..Len(sendlist'[t]) : sendlist'[t][i] = d
            BY <1>2, <4>1 DEF InList
          <5>2. InList(d) <=> \E i \in 1..k : sendlist[t][i] = d
            BY <1>1, <4>1 DEF InList
          <5>3. InList(d) => InList(d)'
            <6> SUFFICES ASSUME NEW i \in 1..k, sendlist[t][i] = d PROVE InList(d)'
              BY <5>2
            <6>1. i # 1
              BY <1>1, <2>2
            <6>2. PICK j \in 1..Len(sendlist'[t]) : i = j + 1
              BY <1>7, <6>1
            <6>3. sendlist'[t][j] = d
              BY <1>7, <6>2
            <6> QED
              BY <5>1, <6>3
          <5>4. InList(d)' => InList(d)
            BY <1>7, <5>1, <5>2
          <5> QED
            BY <5>3, <5>4
        <4>2. CASE Home[calls[d].to] # t
          <5>1. Home[calls[d].to] \in Thread
            BY <3>1, FrameCall
          <5> QED
            BY <1>2, <1>6, <4>2, <5>1 DEF InList
        <4> QED
          BY <4>1, <4>2
      <3> QED
        BY <1>2, <3>1, <3>2, <3>3, OnceNow
    <2> QED
      BY <2>1, <2>2
  <1>15. OnceNext'
    <2>1. ASSUME NEW u \in Thread, NEW i \in Nat, NEW j \in Nat,
                 SendFrame(u, i)', SendFrame(u, j)', stack'[u][i].id = stack'[u][j].id
          PROVE  i = j
      BY <1>12, <2>1, OnceNow
    <2>2. ASSUME NEW u \in Thread, NEW i \in Nat, NEW j \in Nat,
                 CallFrame(u, i)', CallFrame(u, j)', stack'[u][i].id = stack'[u][j].id
          PROVE  i = j
      <3>1. CASE u # t \/ (i # n /\ j # n)
        <4>1. /\ CallFrame(u, i) /\ stack'[u][i].id = stack[u][i].id
              /\ CallFrame(u, j) /\ stack'[u][j].id = stack[u][j].id
          BY <1>13, <2>2, <3>1
        <4> QED
          BY <2>2, <4>1, OnceNow
      <3>2. CASE u = t /\ i = n /\ j # n
        BY <1>4, <1>10, <1>13, <2>2, <3>2
      <3>3. CASE u = t /\ j = n /\ i # n
        BY <1>4, <1>10, <1>13, <2>2, <3>3
      <3> QED
        BY <3>1, <3>2, <3>3
    <2>3. ASSUME NEW u \in Thread, NEW j \in Nat, NEW i \in 1..Len(sendlist'[u]), CallFrame(u, j)'
          PROVE  stack'[u][j].id # sendlist'[u][i]
      <3>1. CASE u = t /\ j = n
        BY <1>4, <1>9, <3>1
      <3>2. CASE u = t /\ j # n
        <4>1. CallFrame(t, j) /\ stack'[t][j].id = stack[t][j].id
          BY <1>13, <2>3, <3>2
        <4>2. i + 1 \in 1..Len(sendlist[t]) /\ sendlist'[t][i] = sendlist[t][i + 1]
          BY <1>1, <1>7, <3>2
        <4> QED
          BY <3>2, <4>1, <4>2, OnceNow
      <3>3. CASE u # t
        <4>1. CallFrame(u, j) /\ stack'[u][j].id = stack[u][j].id
          BY <1>13, <2>3, <3>3
        <4> QED
          BY <1>6, <3>3, <4>1, OnceNow
      <3> QED
        BY <3>1, <3>2, <3>3
    <2>4. ASSUME NEW u \in Thread, NEW i \in Nat, SendFrame(u, i)', stack'[u][i].pc = "push"
          PROVE  stack'[u][i].id \notin ready'
      BY <1>2, <1>12, <2>4, OnceNow
    <2>5. ListedOnce'
      <3> SUFFICES ASSUME NEW u \in Thread, NEW i \in 1..Len(sendlist'[u]), NEW j \in 1..Len(sendlist'[u]),
                          sendlist'[u][i] = sendlist'[u][j]
                   PROVE  i = j
        BY DEF ListedOnce
      <3>1. CASE u = t
        <4>1. /\ i + 1 \in 1..Len(sendlist[t]) /\ j + 1 \in 1..Len(sendlist[t])
              /\ sendlist[t][i + 1] = sendlist[t][j + 1]
          BY <1>1, <1>7, <3>1
        <4>2. i + 1 = j + 1
          BY <4>1, OnceNow DEF ListedOnce
        <4> QED
          BY <1>6, <3>1, <4>2
      <3>2. CASE u # t
        BY <1>6, <3>2, OnceNow DEF ListedOnce
      <3> QED
        BY <3>1, <3>2
    <2> QED
      BY <1>14, <2>1, <2>2, <2>3, <2>4, <2>5 DEF OnceNext
  <1> QED
    BY <1>15, OnceCalls

LEMMA CallsCallReturns ==
    ASSUME TypeInv, CallInv, TypeInv', NEW t \in Thread, CallReturns(t)
    PROVE  CallInv'
  <1>0. TypeOK
    BY DEF TypeInv
  <1>1. PICK c, n : c = Top(t).id /\ n = Len(stack[t])
    OBVIOUS
  <1>2. /\ c \in DOMAIN calls /\ Home[calls[c].to] = t /\ Top(t).kind = "call" /\ Shrunk(t)
        /\ ready' = ready \cup {c} /\ UNCHANGED <<queues, calls>>
    BY <1>1, CallReturnsEffect
  <1>3. /\ SameBut(t, n) /\ n \in Nat \ {0} /\ ~SendFrame(t, n) /\ CallFrame(t, n)
        /\ ~SendFrame(t, n)' /\ ~CallFrame(t, n)' /\ stack[t][n].id = c
    BY <1>0, <1>1, <1>2, SameShrunk
  <1>4. CallsKept /\ stack' \in [Thread -> Seq(Frame)] /\ UNCHANGED sendlist
    BY <1>0, <1>2, CallsSame DEF TypeInv, TypeOK, queues
  <1>5. Waited(c)
    <2>1. InFrame(c) <=> \E i \in Nat : CallFrame(t, i) /\ stack[t][i].id = c
      BY <1>2, WhereNow
    <2> QED
      BY <1>2, <1>3, <2>1, OnceNow
  <1>6. ASSUME NEW u \in Thread, NEW i \in Nat, SendFrame(u, i)' \/ CallFrame(u, i)'
        PROVE  /\ SendFrame(u, i)' => SendFrame(u, i)
               /\ CallFrame(u, i)' => CallFrame(u, i)
               /\ u # t \/ i # n
               /\ stack'[u][i].id = stack[u][i].id
               /\ stack'[u][i].pc = "push" <=> stack[u][i].pc = "push"
    <2>1. u # t \/ i # n
      BY <1>3, <1>6
    <2> QED
      BY <1>3, <1>6, <2>1, SameFrames
  <1>7. ASSUME NEW d \in DOMAIN calls'
        PROVE  InList(d)' \/ InFrame(d)' <=> Waited(d)' /\ d \notin ready'
    <2>1. d \in DOMAIN calls /\ (InList(d)' <=> InList(d))
      BY <1>2, <1>4, ListSame
    <2>2. CASE d # c
      <3>1. (InFrame(d)' <=> InFrame(d)) /\ (Waited(d)' <=> Waited(d))
        BY <1>3, <1>4, <2>1, <2>2, WhereSame
      <3> QED
        BY <1>2, <2>1, <2>2, <3>1, OnceNow
    <2>3. CASE d = c
      <3>1. ~InList(c)
        <4>1. InList(c) <=> \E i \in 1..Len(sendlist[t]) : sendlist[t][i] = c
          BY <1>2, WhereNow
        <4> QED
          BY <1>3, <4>1, OnceNow
      <3>2. InFrame(c)' <=> \E i \in Nat : CallFrame(t, i)' /\ stack'[t][i].id = c
        <4>1. t = Home[calls'[c].to] /\ calls'[c].from \in Thread
          BY <1>2, FrameCall
        <4> QED
          BY <1>4, <4>1, WhereNext
      <3>3. ASSUME NEW i \in Nat, CallFrame(t, i)', stack'[t][i].id = c PROVE FALSE
        <4>1. CallFrame(t, i) /\ i # n /\ stack[t][i].id = c
          BY <1>6, <3>3
        <4> QED
          BY <1>3, <4>1, OnceNow
      <3> QED
        BY <1>2, <2>1, <2>3, <3>1, <3>2, <3>3
    <2> QED
      BY <2>2, <2>3
  <1>8. OnceNext'
    <2>1. ASSUME NEW u \in Thread, NEW i \in Nat, NEW j \in Nat,
                 SendFrame(u, i)', SendFrame(u, j)', stack'[u][i].id = stack'[u][j].id
          PROVE  i = j
      BY <1>6, <2>1, OnceNow
    <2>2. ASSUME NEW u \in Thread, NEW i \in Nat, NEW j \in Nat,
                 CallFrame(u, i)', CallFrame(u, j)', stack'[u][i].id = stack'[u][j].id
          PROVE  i = j
      BY <1>6, <2>2, OnceNow
    <2>3. ASSUME NEW u \in Thread, NEW j \in Nat, NEW i \in 1..Len(sendlist'[u]), CallFrame(u, j)'
          PROVE  stack'[u][j].id # sendlist'[u][i]
      BY <1>4, <1>6, <2>3, OnceNow
    <2>4. ASSUME NEW u \in Thread, NEW i \in Nat, SendFrame(u, i)', stack'[u][i].pc = "push"
          PROVE  stack'[u][i].id \notin ready'
      <3>1. SendFrame(u, i) /\ stack'[u][i].id = stack[u][i].id /\ stack[u][i].pc = "push"
        BY <1>6, <2>4
      <3>2. stack[u][i].id \notin ready
        BY <3>1, OnceNow
      <3>3. ASSUME stack[u][i].id = c PROVE FALSE
        <4>1. calls[c].from = u
          BY <3>1, <3>3, CallNow
        <4>2. PICK j \in Nat : SendFrame(u, j) /\ stack[u][j].id = c /\ stack[u][j].pc # "push"
          BY <1>2, <1>5, <4>1, WhereNow
        <4> QED
          BY <3>1, <3>3, <4>2, OnceNow
      <3> QED
        BY <1>2, <3>1, <3>2, <3>3
    <2>5. ListedOnce'
      BY <1>4, OnceNow DEF ListedOnce
    <2> QED
      BY <1>7, <2>1, <2>2, <2>3, <2>4, <2>5 DEF OnceNext
  <1> QED
    BY <1>8, OnceCalls

\* A frame that is neither a Send nor a call comes or goes.
LEMMA OtherGrown ==
    ASSUME TypeOK, NEW t \in Thread, NEW f, Grown(t, f), f.kind \in {"post", "join"}
    PROVE  \A u \in Thread, i \in Nat : Same(u, i)
  <1>1. PICK n : n = Len(stack[t]) + 1
    OBVIOUS
  <1>2. /\ SameBut(t, n) /\ ~SendFrame(t, n) /\ ~CallFrame(t, n)
        /\ ~SendFrame(t, n)' /\ ~CallFrame(t, n)'
    BY <1>1, SameGrown
  <1> QED
    BY <1>2 DEF SameBut, Same

LEMMA OtherShrunk ==
    ASSUME TypeOK, NEW t \in Thread, Shrunk(t), Top(t).kind \in {"post", "join"}
    PROVE  \A u \in Thread, i \in Nat : Same(u, i)
  <1>1. PICK n : n = Len(stack[t])
    OBVIOUS
  <1>2. /\ SameBut(t, n) /\ ~SendFrame(t, n) /\ ~CallFrame(t, n)
        /\ ~SendFrame(t, n)' /\ ~CallFrame(t, n)'
    BY <1>1, SameShrunk
  <1> QED
    BY <1>2 DEF SameBut, Same

\* A Send that is listed goes from one place of its loop to another.
LEMMA SendMoved ==
    ASSUME TypeOK, NEW t \in Thread, NEW p, NEW w, Moved(t, p, w), Top(t).kind = "send",
           Top(t).pc # "push", p # "push"
    PROVE  \A u \in Thread, i \in Nat : Same(u, i)
  <1>1. PICK n : n = Len(stack[t])
    OBVIOUS
  <1>2. /\ SameBut(t, n) /\ SendFrame(t, n) /\ SendFrame(t, n)'
        /\ ~CallFrame(t, n) /\ ~CallFrame(t, n)'
        /\ stack[t][n] = Top(t) /\ stack'[t][n].id = Top(t).id /\ stack'[t][n].pc = p
    BY <1>1, SameMoved
  <1>3. Same(t, n)
    BY <1>2 DEF Same
  <1> QED
    BY <1>2, <1>3 DEF SameBut

LEMMA SameUnchanged ==
    ASSUME UNCHANGED stack
    PROVE  \A u \in Thread, i \in Nat : Same(u, i)
  BY DEF Same, SendFrame, CallFrame

LEMMA CallInit == Init => CallInv
  <1> SUFFICES ASSUME Init PROVE CallInv
    OBVIOUS
  <1>1. /\ \A t \in Thread : Len(stack[t]) = 0 /\ Len(sendlist[t]) = 0
        /\ DOMAIN calls = {}
    BY DEF Init
  <1> QED
    BY <1>1 DEF CallInv, SendsOnce, RunsOnce, ListedOnce, ListedOrRuns, NotBeforeListed

LEMMA CallStep ==
    ASSUME TypeInv, CallInv, TypeInv', [Next]_vars
    PROVE  CallInv'
  <1>0. TypeOK
    BY DEF TypeInv
  <1>1. ASSUME NEW t \in Thread, NEW h \in Handler, Send(t, h) PROVE CallInv'
    BY <1>1, CallsSend
  <1>2. ASSUME NEW t \in Thread, NEW h \in Handler, Post(t, h) PROVE CallInv'
    BY <1>2, PostEffect, SameUnchanged, CallsStay DEF Posted
  <1>3. ASSUME NEW t \in Thread, NEW h \in Handler, DestroyHandler(t, h) PROVE CallInv'
    BY <1>3, DestroyEffect, SameUnchanged, CallsStay
  <1>4. ASSUME NEW t \in Thread, NEW h \in Handler, NEW delay \in 0..(MaxTime - now),
               PostDelayed(t, h, delay)
        PROVE  CallInv'
    <2>1. UNCHANGED <<sendlist, ready, calls, stack>>
      BY <1>4 DEF PostDelayed
    <2> QED
      BY <2>1, SameUnchanged, CallsStay
  <1>14. ASSUME NEW t \in Thread, DoDelayPost(t) PROVE CallInv'
    <2>1. UNCHANGED <<sendlist, ready, calls, stack>>
      BY <1>14 DEF DoDelayPost
    <2> QED
      BY <2>1, SameUnchanged, CallsStay
  <1>5. ASSUME NEW t \in Thread, NEW u \in Thread, Stop(t, u) PROVE CallInv'
    <2>1. PICK f : f = NewFrame("join", 0, u, "join")
      OBVIOUS
    <2>2. Grown(t, f) /\ f.kind = "join" /\ UNCHANGED <<queues, ready, calls>>
      BY <1>5, <2>1, StopEffect DEF NewFrame
    <2> QED
      BY <1>0, <2>2, OtherGrown, CallsStay DEF queues
  <1>6. ASSUME NEW t \in Thread, SendPush(t) \/ SendCheck(t) \/ ReceiveSend(t) \/ CallReturns(t)
        PROVE  CallInv'
    BY <1>6, CallsSendPush, CallsSendCheck, CallsReceiveSend, CallsCallReturns
  <1>7. ASSUME NEW t \in Thread, SendsDone(t) PROVE CallInv'
    <2>1. PICK w : w = Top(t).waited
      OBVIOUS
    <2>2. /\ Position(t) = "sends" /\ UNCHANGED <<queues, ready, calls>>
          /\ \/ UNCHANGED stack
             \/ stack[t] # <<>> /\ Top(t).kind = "send" /\ Moved(t, "wait", w)
      BY <1>7, <2>1, SendsDoneEffect
    <2>3. CASE UNCHANGED stack
      BY <2>2, <2>3, SameUnchanged, CallsStay DEF queues
    <2>4. CASE stack[t] # <<>> /\ Top(t).kind = "send" /\ Moved(t, "wait", w)
      <3>1. Top(t).pc # "push"
        BY <2>2, <2>4, TopSend
      <3> QED
        BY <1>0, <2>2, <2>4, <3>1, SendMoved, CallsStay DEF queues
    <2> QED
      BY <2>2, <2>3, <2>4
  <1>8. ASSUME NEW t \in Thread, Pull(t) PROVE CallInv'
    <2>1. /\ UNCHANGED <<sendlist, ready, calls>>
          /\ \/ UNCHANGED stack
             \/ \E n, a, m : Dispatches(t, n, a, m)
      BY <1>8, PullEffect
    <2>2. CASE UNCHANGED stack
      BY <2>1, <2>2, SameUnchanged, CallsStay
    <2>3. ASSUME NEW n, NEW a, NEW m, Dispatches(t, n, a, m) PROVE CallInv'
      <3>1. PICK f : f = NewFrame("post", m.id, m.to, "run")
        OBVIOUS
      <3>2. Grown(t, f) /\ f.kind = "post"
        BY <2>3, <3>1 DEF Dispatches, NewFrame
      <3> QED
        BY <1>0, <2>1, <3>2, OtherGrown, CallsStay
    <2> QED
      BY <2>1, <2>2, <2>3
  <1>9. ASSUME NEW t \in Thread, PostReturns(t) PROVE CallInv'
    <2>1. Shrunk(t) /\ Top(t).kind = "post" /\ UNCHANGED <<queues, ready, calls>>
      BY <1>9, PostReturnsEffect DEF PostReturns
    <2> QED
      BY <1>0, <2>1, OtherShrunk, CallsStay DEF queues
  <1>10. ASSUME NEW t \in Thread, StopCheck(t) \/ WaitTimeout(t) PROVE CallInv'
    <2>1. UNCHANGED <<queues, ready, calls, stack>>
      BY <1>10 DEF StopCheck, WaitTimeout
    <2> QED
      BY <2>1, SameUnchanged, CallsStay DEF queues
  <1>11. ASSUME NEW t \in Thread, WaitSignalled(t) PROVE CallInv'
    <2>1. /\ Position(t) = "wait" /\ UNCHANGED <<queues, ready, calls>>
          /\ \/ UNCHANGED stack
             \/ stack[t] # <<>> /\ Top(t).kind = "send" /\ Moved(t, "check", TRUE)
      BY <1>11, WaitSignalledEffect
    <2>2. CASE UNCHANGED stack
      BY <2>1, <2>2, SameUnchanged, CallsStay DEF queues
    <2>3. CASE stack[t] # <<>> /\ Top(t).kind = "send" /\ Moved(t, "check", TRUE)
      <3>1. Top(t).pc # "push"
        BY <2>1, <2>3, TopSend
      <3> QED
        BY <1>0, <2>1, <2>3, <3>1, SendMoved, CallsStay DEF queues
    <2> QED
      BY <2>1, <2>2, <2>3
  <1>12. ASSUME NEW t \in Thread, JoinReturns(t) PROVE CallInv'
    <2>1. Shrunk(t) /\ Top(t).kind = "join" /\ UNCHANGED <<ready, sendlist, calls>>
      BY <1>12, JoinReturnsEffect
    <2> QED
      BY <1>0, <2>1, OtherShrunk, CallsStay
  <1>13. ASSUME Tick \/ UNCHANGED vars PROVE CallInv'
    <2>1. UNCHANGED <<sendlist, ready, calls, stack>>
      BY <1>13 DEF Tick, vars, queues
    <2> QED
      BY <2>1, SameUnchanged, CallsStay
  <1> QED
    BY <1>1, <1>2, <1>3, <1>4, <1>5, <1>6, <1>7, <1>8, <1>9, <1>10, <1>11, <1>12, <1>13, <1>14, StepCases

\* The places of a call: on the thread of its handler, and there at most one.
LEMMA OnePlace ==
    ASSUME TypeInv, CallInv, NEW c \in DOMAIN calls
    PROVE  /\ InList(c) \/ InFrame(c) <=> Places(c) # {}
           /\ \A p, q \in Places(c) : p = q
  <1>1. PICK h \in Thread : h = Home[calls[c].to]
    BY FrameCall
  <1>2. /\ InList(c) <=> \E i \in 1..Len(sendlist[h]) : sendlist[h][i] = c
        /\ InFrame(c) <=> \E i \in Nat : CallFrame(h, i) /\ stack[h][i].id = c
    BY <1>1, WhereNow
  <1>3. \A t \in Thread : /\ DOMAIN sendlist[t] = 1..Len(sendlist[t])
                          /\ DOMAIN stack[t] = 1..Len(stack[t])
                          /\ Len(stack[t]) \in Nat /\ Len(sendlist[t]) \in Nat
    BY SeqParts DEF TypeInv, TypeOK
  <1>4. ASSUME NEW t \in Thread, NEW i \in DOMAIN sendlist[t], sendlist[t][i] = c PROVE t = h
    BY <1>1, <1>3, <1>4 DEF TypeInv, ListOK
  <1>5. ASSUME NEW t \in Thread, NEW i \in DOMAIN stack[t], stack[t][i].kind = "call", stack[t][i].id = c
        PROVE  t = h /\ CallFrame(h, i) /\ i \in Nat
    BY <1>1, <1>3, <1>5, CallNow DEF CallFrame
  <1>6. ASSUME NEW p
        PROVE  p \in Places(c) <=>
                 \/ \E i \in 1..Len(sendlist[h]) : sendlist[h][i] = c /\ p = <<h, "listed", i>>
                 \/ \E i \in Nat : CallFrame(h, i) /\ stack[h][i].id = c /\ p = <<h, "runs", i>>
    <2>1. p \in Places(c) <=> \E t \in Thread :
             \/ \E i \in DOMAIN sendlist[t] : sendlist[t][i] = c /\ p = <<t, "listed", i>>
             \/ \E i \in DOMAIN stack[t] : /\ stack[t][i].kind = "call" /\ stack[t][i].id = c
                                           /\ p = <<t, "runs", i>>
      BY DEF Places
    <2>2. ASSUME p \in Places(c)
          PROVE  \/ \E i \in 1..Len(sendlist[h]) : sendlist[h][i] = c /\ p = <<h, "listed", i>>
                 \/ \E i \in Nat : CallFrame(h, i) /\ stack[h][i].id = c /\ p = <<h, "runs", i>>
      BY <1>3, <1>4, <1>5, <2>1, <2>2
    <2>3. ASSUME \/ \E i \in 1..Len(sendlist[h]) : sendlist[h][i] = c /\ p = <<h, "listed", i>>
                 \/ \E i \in Nat : CallFrame(h, i) /\ stack[h][i].id = c /\ p = <<h, "runs", i>>
          PROVE  p \in Places(c)
      BY <1>3, <2>1, <2>3 DEF CallFrame
    <2> QED
      BY <2>2, <2>3
  <1>7. InList(c) \/ InFrame(c) <=> Places(c) # {}
    BY <1>2, <1>6
  <1>8. ASSUME NEW p \in Places(c), NEW q \in Places(c) PROVE p = q
    BY <1>6, OnceNow DEF ListedOnce
  <1> QED
    BY <1>7, <1>8

\* A call is listed or runs exactly as long as its sender waits for its answer,
\* and in one place, so that ReceiveSends answers into a frame that is there.
THEOREM OneRendezvous == Spec => []Rendezvous
  <1>1. TypeInv /\ CallInv => Rendezvous
    <2> SUFFICES ASSUME TypeInv, CallInv, NEW c \in DOMAIN calls
                 PROVE  Cardinality(Places(c)) = IF Awaited(c) /\ c \notin ready THEN 1 ELSE 0
      BY DEF Rendezvous
    <2>1. Awaited(c) <=> Waited(c)
      <3>1. calls[c].from \in Thread
        BY FrameCall
      <3>2. DOMAIN stack[calls[c].from] = 1..Len(stack[calls[c].from])
        BY <3>1, StackNow DEF TypeInv
      <3> QED
        BY <3>2 DEF Awaited, Waited, SendFrame
    <2>2. Places(c) # {} <=> Awaited(c) /\ c \notin ready
      BY <2>1, OnePlace, OnceNow
    <2>3. CASE Places(c) = {}
      BY <2>2, <2>3, FS_EmptySet
    <2>4. CASE Places(c) # {}
      <3>1. PICK p : p \in Places(c)
        BY <2>4
      <3>2. Places(c) = {p}
        BY <3>1, OnePlace
      <3> QED
        BY <2>2, <2>4, <3>2, FS_Singleton
    <2> QED
      BY <2>3, <2>4
  <1> QED
    BY <1>1, TypeInit, TypeStep, CallInit, CallStep, PTL DEF Spec

-----------------------------------------------------------------------------
(* Wakeups: the answer of a call *)

KeptBut(t, n) ==
    \A u \in Thread, i \in Nat : u # t \/ i # n =>
        /\ SendFrame(u, i)' <=> SendFrame(u, i)
        /\ SendFrame(u, i) => stack'[u][i] = stack[u][i]

LEMMA KeptGrown ==
    ASSUME TypeOK, NEW t \in Thread, NEW f, Grown(t, f), NEW n, n = Len(stack[t]) + 1
    PROVE  KeptBut(t, n)
  <1>1. Len(stack[t]) \in Nat
    BY StackNow
  <1>2. n \in Nat \ {0} /\ Len(stack'[t]) = n
    BY <1>1 DEF Grown
  <1> SUFFICES ASSUME NEW u \in Thread, NEW i \in Nat, u # t \/ i # n
               PROVE  /\ SendFrame(u, i)' <=> SendFrame(u, i)
                      /\ SendFrame(u, i) => stack'[u][i] = stack[u][i]
    BY DEF KeptBut
  <1>3. CASE u # t
    BY <1>3 DEF Grown, SendFrame
  <1>4. CASE u = t
    <2>1. i \in 1..Len(stack'[t]) <=> i \in 1..Len(stack[t])
      BY <1>1, <1>2, <1>4
    <2>2. i \in 1..Len(stack[t]) => stack'[t][i] = stack[t][i]
      BY DEF Grown
    <2> QED
      BY <1>4, <2>1, <2>2 DEF SendFrame
  <1> QED
    BY <1>3, <1>4

LEMMA KeptShrunk ==
    ASSUME TypeOK, NEW t \in Thread, Shrunk(t), NEW n, n = Len(stack[t])
    PROVE  KeptBut(t, n)
  <1>1. n \in Nat \ {0} /\ Len(stack'[t]) = n - 1
    BY DEF Shrunk
  <1> SUFFICES ASSUME NEW u \in Thread, NEW i \in Nat, u # t \/ i # n
               PROVE  /\ SendFrame(u, i)' <=> SendFrame(u, i)
                      /\ SendFrame(u, i) => stack'[u][i] = stack[u][i]
    BY DEF KeptBut
  <1>2. CASE u # t
    BY <1>2 DEF Shrunk, SendFrame
  <1>3. CASE u = t
    <2>1. (i \in 1..(n - 1) <=> i \in 1..n)
      BY <1>1, <1>3
    <2>2. i \in 1..(n - 1) => stack'[t][i] = stack[t][i]
      BY DEF Shrunk
    <2> QED
      BY <1>1, <1>3, <2>1, <2>2 DEF SendFrame
  <1> QED
    BY <1>2, <1>3

LEMMA KeptMoved ==
    ASSUME TypeOK, NEW t \in Thread, NEW p, NEW w, Moved(t, p, w), NEW n, n = Len(stack[t])
    PROVE  KeptBut(t, n)
  <1>1. n \in Nat \ {0} /\ Len(stack'[t]) = n
    BY DEF Moved
  <1> SUFFICES ASSUME NEW u \in Thread, NEW i \in Nat, u # t \/ i # n
               PROVE  /\ SendFrame(u, i)' <=> SendFrame(u, i)
                      /\ SendFrame(u, i) => stack'[u][i] = stack[u][i]
    BY DEF KeptBut
  <1>2. CASE u # t
    BY <1>2 DEF Moved, SendFrame
  <1>3. CASE u = t
    <2>1. (i \in 1..(n - 1) <=> i \in 1..n)
      BY <1>1, <1>3
    <2>2. i \in 1..(n - 1) => stack'[t][i] = stack[t][i]
      BY DEF Moved
    <2> QED
      BY <1>1, <1>3, <2>1, <2>2 DEF SendFrame
  <1> QED
    BY <1>2, <1>3

SignalKept == \A u \in Thread : signal[u] => signal'[u]

WaitsKept ==
    \A u \in Thread, i \in Nat :
        SendFrame(u, i) /\ stack[u][i].waited => SendFrame(u, i)' /\ stack'[u][i].waited

AsleepOld ==
    \A u \in Thread, i \in Nat :
        SendFrame(u, i)' /\ stack'[u][i].pc \in Asleep /\ stack'[u][i].id \in ready' =>
            /\ SendFrame(u, i) /\ stack[u][i].pc \in Asleep /\ stack[u][i].id \in ready

LEMMA WakesKeep ==
    ASSUME TypeOK, NEW u \in Thread, Wakes(u)
    PROVE  SignalKept
  BY DEF Wakes, SignalKept

LEMMA AnswerStays ==
    ASSUME AnswerSeen, SignalKept, WaitsKept, AsleepOld
    PROVE  AnswerSeen'
  <1> SUFFICES ASSUME NEW u \in Thread, NEW i \in Nat,
                      SendFrame(u, i)', stack'[u][i].pc \in Asleep, stack'[u][i].id \in ready'
               PROVE  Repaid(u, i)'
    BY DEF AnswerSeen
  <1>1. Repaid(u, i)
    BY DEF AsleepOld, AnswerSeen
  <1>2. CASE signal[u]
    BY <1>2 DEF SignalKept, Repaid
  <1>3. ASSUME NEW j \in Nat, j > i, SendFrame(u, j), stack[u][j].waited
        PROVE  Repaid(u, i)'
    BY <1>3 DEF WaitsKept, Repaid
  <1> QED
    BY <1>1, <1>2, <1>3 DEF Repaid

\* Steps that are not about a Send.
LEMMA AnswerKept ==
    ASSUME AnswerSeen, SignalKept, UNCHANGED ready, NEW t, NEW n, KeptBut(t, n),
           ~SendFrame(t, n), SendFrame(t, n)' => stack'[t][n].pc \notin Asleep
    PROVE  AnswerSeen'
  <1>1. ASSUME NEW u \in Thread, NEW i \in Nat, SendFrame(u, i), stack[u][i].waited
        PROVE  SendFrame(u, i)' /\ stack'[u][i].waited
    BY <1>1 DEF KeptBut
  <1>2. ASSUME NEW u \in Thread, NEW i \in Nat,
               SendFrame(u, i)', stack'[u][i].pc \in Asleep, stack'[u][i].id \in ready'
        PROVE  SendFrame(u, i) /\ stack[u][i].pc \in Asleep /\ stack[u][i].id \in ready
    <2>1. u # t \/ i # n
      BY <1>2
    <2> QED
      BY <1>2, <2>1 DEF KeptBut
  <1> QED
    BY <1>1, <1>2, AnswerStays DEF WaitsKept, AsleepOld

LEMMA AnswerSame ==
    ASSUME AnswerSeen, SignalKept, UNCHANGED <<ready, stack>>
    PROVE  AnswerSeen'
  <1>1. WaitsKept /\ AsleepOld
    BY DEF WaitsKept, AsleepOld, SendFrame
  <1> QED
    BY <1>1, AnswerStays

\* A Send that goes from one place of its loop to another.
LEMMA AnswerMoved ==
    ASSUME TypeOK, AnswerSeen, SignalKept, UNCHANGED ready, NEW t \in Thread, NEW p, NEW w, Moved(t, p, w),
           Top(t).kind = "send", Top(t).waited => w,
           p \in Asleep => Top(t).pc \in Asleep \/ Top(t).id \notin ready
    PROVE  AnswerSeen'
  <1>1. PICK n, f, g : n = Len(stack[t]) /\ f = Top(t) /\ g = stack'[t][n]
    OBVIOUS
  <1>2. /\ KeptBut(t, n) /\ SendFrame(t, n) /\ SendFrame(t, n)' /\ f = stack[t][n]
        /\ g.id = f.id /\ g.pc = p /\ g.waited = w
    BY <1>1, KeptMoved, SameMoved
  <1>3. ASSUME NEW u \in Thread, NEW i \in Nat, SendFrame(u, i), stack[u][i].waited
        PROVE  SendFrame(u, i)' /\ stack'[u][i].waited
    <2>1. CASE u = t /\ i = n
      BY <1>1, <1>2, <1>3, <2>1
    <2>2. CASE u # t \/ i # n
      BY <1>2, <1>3, <2>2 DEF KeptBut
    <2> QED
      BY <2>1, <2>2
  <1>4. ASSUME NEW u \in Thread, NEW i \in Nat,
               SendFrame(u, i)', stack'[u][i].pc \in Asleep, stack'[u][i].id \in ready'
        PROVE  SendFrame(u, i) /\ stack[u][i].pc \in Asleep /\ stack[u][i].id \in ready
    <2>1. CASE u = t /\ i = n
      BY <1>1, <1>2, <1>4, <2>1
    <2>2. CASE u # t \/ i # n
      BY <1>2, <1>4, <2>2 DEF KeptBut
    <2> QED
      BY <2>1, <2>2
  <1> QED
    BY <1>3, <1>4, AnswerStays DEF WaitsKept, AsleepOld

\* A Send that returns makes up for what it has consumed.
LEMMA AnswerSendCheck ==
    ASSUME TypeInv, AnswerSeen, NEW t \in Thread, SendCheck(t)
    PROVE  AnswerSeen'
  <1>0. TypeOK
    BY DEF TypeInv
  <1>1. PICK n, w, f : n = Len(stack[t]) /\ w = Top(t).waited /\ f = Top(t)
    OBVIOUS
  <1>2. /\ stack[t] # <<>> /\ f.kind = "send" /\ UNCHANGED ready
        /\ \/ Shrunk(t) /\ (IF f.waited THEN Wakes(t) ELSE UNCHANGED signal)
           \/ f.id \notin ready /\ Moved(t, "sends", w) /\ UNCHANGED signal
    BY <1>1, SendCheckEffect
  <1>3. CASE f.id \notin ready /\ Moved(t, "sends", w) /\ UNCHANGED signal
    <2>1. SignalKept
      BY <1>3 DEF SignalKept
    <2> QED
      BY <1>0, <1>1, <1>2, <1>3, <2>1, AnswerMoved
  <1>4. CASE Shrunk(t) /\ (IF f.waited THEN Wakes(t) ELSE UNCHANGED signal)
    <2>1. KeptBut(t, n) /\ n \in Nat /\ ~SendFrame(t, n)' /\ stack[t][n] = f
      BY <1>0, <1>1, <1>4, KeptShrunk, SameShrunk
    <2>2. SignalKept /\ (f.waited => signal'[t])
      BY <1>0, <1>4, WakesKeep DEF SignalKept, Wakes
    <2> SUFFICES ASSUME NEW u \in Thread, NEW i \in Nat,
                        SendFrame(u, i)', stack'[u][i].pc \in Asleep, stack'[u][i].id \in ready'
                 PROVE  Repaid(u, i)'
      BY DEF AnswerSeen
    <2>3. u # t \/ i # n
      BY <2>1
    <2>4. SendFrame(u, i) /\ stack[u][i].pc \in Asleep /\ stack[u][i].id \in ready
      BY <1>2, <2>1, <2>3 DEF KeptBut
    <2>5. Repaid(u, i)
      BY <2>4 DEF AnswerSeen
    <2>6. CASE signal[u]
      BY <2>2, <2>6 DEF SignalKept, Repaid
    <2>7. ASSUME NEW j \in Nat, j > i, SendFrame(u, j), stack[u][j].waited
          PROVE  Repaid(u, i)'
      <3>1. CASE u = t /\ j = n
        BY <2>1, <2>2, <2>7, <3>1 DEF Repaid
      <3>2. CASE u # t \/ j # n
        <4>1. SendFrame(u, j)' /\ stack'[u][j].waited
          BY <2>1, <2>7, <3>2 DEF KeptBut
        <4> QED
          BY <2>7, <4>1 DEF Repaid
      <3> QED
        BY <3>1, <3>2
    <2> QED
      BY <2>5, <2>6, <2>7 DEF Repaid
  <1> QED
    BY <1>2, <1>3, <1>4

\* The answer of a call wakes its sender.
LEMMA AnswerCallReturns ==
    ASSUME TypeInv, AnswerSeen, NEW t \in Thread, CallReturns(t)
    PROVE  AnswerSeen'
  <1>0. TypeOK
    BY DEF TypeInv
  <1>1. PICK n, c, v : n = Len(stack[t]) /\ c = Top(t).id /\ v = calls[c].from
    OBVIOUS
  <1>2. /\ v \in Thread /\ Top(t).kind = "call" /\ Shrunk(t) /\ Wakes(v) /\ ready' = ready \cup {c}
    BY <1>1, CallReturnsEffect
  <1>3. KeptBut(t, n) /\ n \in Nat /\ ~SendFrame(t, n) /\ ~SendFrame(t, n)'
    BY <1>0, <1>1, <1>2, KeptShrunk, SameShrunk
  <1>4. SignalKept /\ signal'[v]
    BY <1>0, <1>2, WakesKeep DEF Wakes
  <1> SUFFICES ASSUME NEW u \in Thread, NEW i \in Nat,
                      SendFrame(u, i)', stack'[u][i].pc \in Asleep, stack'[u][i].id \in ready'
               PROVE  Repaid(u, i)'
    BY DEF AnswerSeen
  <1>5. SendFrame(u, i) /\ stack'[u][i] = stack[u][i]
    BY <1>3 DEF KeptBut
  <1>6. CASE stack[u][i].id = c
    <2>1. u = v
      BY <1>1, <1>5, <1>6, CallNow
    <2> QED
      BY <1>4, <2>1 DEF Repaid
  <1>7. CASE stack[u][i].id # c
    <2>1. Repaid(u, i)
      BY <1>2, <1>5, <1>7 DEF AnswerSeen
    <2>2. CASE signal[u]
      BY <1>4, <2>2 DEF SignalKept, Repaid
    <2>3. ASSUME NEW j \in Nat, j > i, SendFrame(u, j), stack[u][j].waited
          PROVE  Repaid(u, i)'
      <3>1. SendFrame(u, j)' /\ stack'[u][j].waited
        BY <1>3, <2>3 DEF KeptBut
      <3> QED
        BY <2>3, <3>1 DEF Repaid
    <2> QED
      BY <2>1, <2>2, <2>3 DEF Repaid
  <1> QED
    BY <1>6, <1>7

\* A Wait consumes the wakeup; the Send that waits remembers it for the frames below.
LEMMA AnswerWait ==
    ASSUME TypeInv, AnswerSeen, NEW t \in Thread, WaitSignalled(t)
    PROVE  AnswerSeen'
  <1>0. TypeOK
    BY DEF TypeInv
  <1>1. PICK n : n = Len(stack[t])
    OBVIOUS
  <1>2. /\ \A u \in Thread \ {t} : signal'[u] = signal[u]
        /\ UNCHANGED ready
        /\ \/ stack[t] = <<>> /\ UNCHANGED stack
           \/ stack[t] # <<>> /\ Top(t).kind = "send" /\ Moved(t, "check", TRUE)
    BY WaitSignalledEffect
  <1> SUFFICES ASSUME NEW u \in Thread, NEW i \in Nat,
                      SendFrame(u, i)', stack'[u][i].pc \in Asleep, stack'[u][i].id \in ready'
               PROVE  Repaid(u, i)'
    BY DEF AnswerSeen
  <1>3. CASE u # t
    <2>1. stack'[u] = stack[u] /\ signal'[u] = signal[u]
      BY <1>2, <1>3 DEF Moved
    <2>2. Repaid(u, i)
      BY <1>2, <2>1 DEF AnswerSeen, SendFrame
    <2> QED
      BY <2>1, <2>2 DEF Repaid, SendFrame
  <1>4. CASE u = t
    <2>1. stack[t] # <<>>
      <3>1. ASSUME stack[t] = <<>> PROVE FALSE
        <4>1. stack'[t] = stack[t] /\ Len(stack[t]) = 0
          BY <1>0, <1>2, <3>1, StackNow
        <4> QED
          BY <1>4, <4>1 DEF SendFrame
      <3> QED
        BY <3>1
    <2>2. Top(t).kind = "send" /\ Moved(t, "check", TRUE)
      BY <1>2, <2>1
    <2>3. /\ SendFrame(t, n)' /\ stack'[t][n].pc = "check" /\ stack'[t][n].waited = TRUE
          /\ n \in Nat /\ Len(stack'[t]) = n
      <3>0. PICK w : w = TRUE
        OBVIOUS
      <3>1. /\ SendFrame(t, n)' /\ stack'[t][n].pc = "check" /\ stack'[t][n].waited = w /\ n \in Nat
        <4>1. Moved(t, "check", w) /\ Top(t).kind = "send"
          BY <2>2, <3>0
        <4> QED
          BY <1>0, <1>1, <4>1, SameMoved
      <3>2. Len(stack'[t]) = n
        BY <1>1, <2>2 DEF Moved
      <3> QED
        BY <3>0, <3>1, <3>2
    <2>4. i # n
      BY <1>4, <2>3 DEF Asleep
    <2>5. n > i
      BY <1>4, <2>3, <2>4 DEF SendFrame
    <2> QED
      BY <1>4, <2>3, <2>5 DEF Repaid
  <1> QED
    BY <1>3, <1>4

LEMMA AnswerStep ==
    ASSUME TypeInv, AnswerSeen, TypeInv', [Next]_vars
    PROVE  AnswerSeen'
  <1>0. TypeOK
    BY DEF TypeInv
  <1>1. ASSUME NEW t \in Thread, NEW h \in Handler, Send(t, h) PROVE AnswerSeen'
    <2>1. PICK n, f : n = Len(stack[t]) + 1 /\ f = NewFrame("send", Len(calls) + 1, h, "push")
      OBVIOUS
    <2>2. UNCHANGED <<signal, ready>> /\ (UNCHANGED stack \/ Grown(t, f)) /\ SignalKept
      BY <1>1, <2>1, SendEffect DEF SignalKept
    <2>3. CASE UNCHANGED stack
      BY <2>2, <2>3, AnswerSame
    <2>4. CASE Grown(t, f)
      <3>1. KeptBut(t, n) /\ ~SendFrame(t, n) /\ stack'[t][n].pc = "push"
        BY <1>0, <2>1, <2>4, KeptGrown, SameGrown DEF NewFrame
      <3> QED
        BY <2>2, <3>1, AnswerKept DEF Asleep
    <2> QED
      BY <2>2, <2>3, <2>4
  <1>2. ASSUME NEW t \in Thread, NEW h \in Handler, Post(t, h) PROVE AnswerSeen'
    <2>1. UNCHANGED <<ready, stack>> /\ (UNCHANGED signal \/ Wakes(Home[h]))
      BY <1>2, PostEffect DEF Posted
    <2>2. SignalKept
      BY <1>0, <2>1, WakesKeep, ThreadAssumption DEF SignalKept
    <2> QED
      BY <2>1, <2>2, AnswerSame
  <1>3. ASSUME NEW t \in Thread, NEW h \in Handler, DestroyHandler(t, h) PROVE AnswerSeen'
    <2>1. UNCHANGED <<ready, stack, signal>>
      BY <1>3, DestroyEffect
    <2> QED
      BY <2>1, AnswerSame DEF SignalKept
  <1>4. ASSUME NEW t \in Thread, NEW h \in Handler, NEW delay \in 0..(MaxTime - now),
               PostDelayed(t, h, delay)
        PROVE  AnswerSeen'
    <2>1. UNCHANGED <<ready, stack, signal>>
      BY <1>4 DEF PostDelayed
    <2> QED
      BY <2>1, AnswerSame DEF SignalKept
  <1>14. ASSUME NEW t \in Thread, DoDelayPost(t) PROVE AnswerSeen'
    <2>1. PICK h \in Handler : Wakes(Home[h]) /\ UNCHANGED <<ready, stack>>
      BY <1>14, DoDelayPostEffect DEF Posted
    <2>2. SignalKept
      BY <1>0, <2>1, WakesKeep, ThreadAssumption DEF SignalKept
    <2> QED
      BY <2>1, <2>2, AnswerSame
  <1>5. ASSUME NEW t \in Thread, NEW u \in Thread, Stop(t, u) PROVE AnswerSeen'
    <2>1. PICK n, f : n = Len(stack[t]) + 1 /\ f = NewFrame("join", 0, u, "join")
      OBVIOUS
    <2>2. Grown(t, f) /\ f.kind = "join" /\ UNCHANGED ready /\ Wakes(u)
      BY <1>5, <2>1, StopEffect DEF NewFrame
    <2>3. KeptBut(t, n) /\ ~SendFrame(t, n) /\ ~SendFrame(t, n)' /\ SignalKept
      BY <1>0, <2>1, <2>2, KeptGrown, SameGrown, WakesKeep
    <2> QED
      BY <2>2, <2>3, AnswerKept
  <1>6. ASSUME NEW t \in Thread, SendPush(t) PROVE AnswerSeen'
    <2>1. PICK w, v : w = Top(t).waited /\ v = Home[Top(t).of]
      OBVIOUS
    <2>2. /\ Top(t).kind = "send" /\ Moved(t, "check", w) /\ UNCHANGED ready /\ Wakes(v) /\ v \in Thread
      BY <1>6, <2>1, SendPushEffect, TopSend
    <2>3. SignalKept
      BY <1>0, <2>2, WakesKeep
    <2> QED
      BY <1>0, <2>1, <2>2, <2>3, AnswerMoved DEF Asleep
  <1>7. ASSUME NEW t \in Thread, SendCheck(t) \/ CallReturns(t) \/ WaitSignalled(t) PROVE AnswerSeen'
    BY <1>7, AnswerSendCheck, AnswerCallReturns, AnswerWait
  <1>8. ASSUME NEW t \in Thread, ReceiveSend(t) PROVE AnswerSeen'
    <2>1. PICK n, f : /\ n = Len(stack[t]) + 1
                      /\ f = NewFrame("call", sendlist[t][1], calls[sendlist[t][1]].to, "run")
      OBVIOUS
    <2>2. Grown(t, f) /\ f.kind = "call" /\ UNCHANGED <<ready, signal>>
      BY <1>8, <2>1, ReceiveSendEffect DEF NewFrame
    <2>3. KeptBut(t, n) /\ ~SendFrame(t, n) /\ ~SendFrame(t, n)' /\ SignalKept
      BY <1>0, <2>1, <2>2, KeptGrown, SameGrown DEF SignalKept
    <2> QED
      BY <2>2, <2>3, AnswerKept
  <1>9. ASSUME NEW t \in Thread, SendsDone(t) PROVE AnswerSeen'
    <2>1. PICK w : w = Top(t).waited
      OBVIOUS
    <2>2. /\ Position(t) = "sends" /\ UNCHANGED <<ready, signal>> /\ SignalKept
          /\ \/ UNCHANGED stack
             \/ stack[t] # <<>> /\ Top(t).kind = "send" /\ Moved(t, "wait", w)
      BY <1>9, <2>1, SendsDoneEffect DEF SignalKept
    <2>3. CASE UNCHANGED stack
      BY <2>2, <2>3, AnswerSame
    <2>4. CASE stack[t] # <<>> /\ Top(t).kind = "send" /\ Moved(t, "wait", w)
      <3>1. Top(t).pc \in Asleep
        BY <2>2, <2>4, TopSend DEF Asleep
      <3> QED
        BY <1>0, <2>1, <2>2, <2>4, <3>1, AnswerMoved
    <2> QED
      BY <2>2, <2>3, <2>4
  <1>10. ASSUME NEW t \in Thread, Pull(t) PROVE AnswerSeen'
    <2>1. /\ UNCHANGED <<ready, signal>> /\ SignalKept
          /\ \/ UNCHANGED stack
             \/ \E n, a, m : Dispatches(t, n, a, m)
      BY <1>10, PullEffect DEF SignalKept
    <2>2. CASE UNCHANGED stack
      BY <2>1, <2>2, AnswerSame
    <2>3. ASSUME NEW n, NEW a, NEW m, Dispatches(t, n, a, m) PROVE AnswerSeen'
      <3>1. PICK k, f : k = Len(stack[t]) + 1 /\ f = NewFrame("post", m.id, m.to, "run")
        OBVIOUS
      <3>2. Grown(t, f) /\ f.kind = "post"
        BY <2>3, <3>1 DEF Dispatches, NewFrame
      <3>3. KeptBut(t, k) /\ ~SendFrame(t, k) /\ ~SendFrame(t, k)'
        BY <1>0, <3>1, <3>2, KeptGrown, SameGrown
      <3> QED
        BY <2>1, <3>3, AnswerKept
    <2> QED
      BY <2>1, <2>2, <2>3
  <1>11. ASSUME NEW t \in Thread, PostReturns(t) \/ JoinReturns(t) PROVE AnswerSeen'
    <2>1. PICK n : n = Len(stack[t])
      OBVIOUS
    <2>2. /\ Shrunk(t) /\ Top(t).kind \in {"post", "join"} /\ UNCHANGED <<ready, signal>>
      <3>1. CASE PostReturns(t)
        BY <3>1, PostReturnsEffect DEF PostReturns
      <3>2. CASE JoinReturns(t)
        BY <3>2, JoinReturnsEffect
      <3> QED
        BY <1>11, <3>1, <3>2
    <2>3. KeptBut(t, n) /\ ~SendFrame(t, n) /\ ~SendFrame(t, n)' /\ SignalKept
      BY <1>0, <2>1, <2>2, KeptShrunk, SameShrunk DEF SignalKept
    <2> QED
      BY <2>2, <2>3, AnswerKept
  <1>12. ASSUME NEW t \in Thread, StopCheck(t) \/ WaitTimeout(t) PROVE AnswerSeen'
    <2>1. UNCHANGED <<ready, stack, signal>>
      BY <1>12 DEF StopCheck, WaitTimeout
    <2> QED
      BY <2>1, AnswerSame DEF SignalKept
  <1>13. ASSUME Tick \/ UNCHANGED vars PROVE AnswerSeen'
    <2>1. UNCHANGED <<ready, stack, signal>>
      BY <1>13 DEF Tick, vars
    <2> QED
      BY <2>1, AnswerSame DEF SignalKept
  <1> QED
    BY <1>1, <1>2, <1>3, <1>4, <1>5, <1>6, <1>7, <1>8, <1>9, <1>10, <1>11, <1>12, <1>13, <1>14, StepCases

-----------------------------------------------------------------------------
(* Wakeups: work for a thread that rests *)

Awake(u) == Position(u)' \notin AtRest

\* Nothing is brought to u, or it is woken.
Untouched(u) ==
    /\ stack'[u] = stack[u] /\ loop'[u] = loop[u] /\ (signal[u] => signal'[u])
    /\ \/ signal'[u]
       \/ /\ sendlist'[u] = sendlist[u] /\ msgq'[u] = msgq[u] /\ dmsgq'[u] = dmsgq[u]
          /\ fStop'[u] = fStop[u]

LEMMA PlaceGrown ==
    ASSUME TypeOK, NEW t \in Thread, NEW f, Grown(t, f), stack' \in [Thread -> Seq(Frame)]
    PROVE  Position(t)' = f.pc
  <1>1. Len(stack[t]) \in Nat
    BY StackNow
  <1>2. Len(stack'[t]) = Len(stack[t]) + 1 /\ stack'[t][Len(stack[t]) + 1] = f
    BY DEF Grown
  <1>3. stack'[t] # <<>>
    BY <1>1, <1>2, SeqParts
  <1> QED
    BY <1>2, <1>3 DEF Position, Top

LEMMA PlaceMoved ==
    ASSUME TypeOK, NEW t \in Thread, NEW p, NEW w, Moved(t, p, w), stack' \in [Thread -> Seq(Frame)]
    PROVE  Position(t)' = p
  <1>1. PICK n : n = Len(stack[t])
    OBVIOUS
  <1>2. stack'[t][n].pc = p /\ n \in Nat \ {0} /\ Len(stack'[t]) = n
    <2>1. stack'[t][n].pc = p
      BY <1>1, SameMoved
    <2> QED
      BY <1>1, <2>1 DEF Moved
  <1>3. stack'[t] # <<>>
    BY <1>2, SeqParts
  <1> QED
    BY <1>2, <1>3 DEF Position, Top

LEMMA PlaceShrunk ==
    ASSUME TypeOK, NEW t \in Thread, Shrunk(t), UNCHANGED loop, stack' \in [Thread -> Seq(Frame)]
    PROVE  Position(t)' = Below(t, Len(stack[t]))
  <1>1. PICK n : n = Len(stack[t])
    OBVIOUS
  <1>2. n \in Nat \ {0} /\ Len(stack'[t]) = n - 1 /\ \A i \in 1..(n - 1) : stack'[t][i] = stack[t][i]
    BY <1>1 DEF Shrunk
  <1>3. CASE n = 1
    <2>1. stack'[t] = <<>>
      BY <1>2, <1>3, SeqParts
    <2> QED
      BY <1>1, <1>3, <2>1 DEF Position, Below
  <1>4. CASE n # 1
    <2>1. n - 1 \in 1..(n - 1)
      BY <1>2, <1>4
    <2>2. stack'[t] # <<>>
      BY <1>2, <1>4, SeqParts
    <2>3. stack'[t][n - 1] = stack[t][n - 1]
      BY <1>2, <2>1
    <2> QED
      BY <1>1, <1>2, <1>4, <2>2, <2>3 DEF Position, Below, Top
  <1> QED
    BY <1>3, <1>4

LEMMA SeenUntouched ==
    ASSUME NEW u \in Thread, WorkSeen(u), Untouched(u)
    PROVE  WorkSeen(u)'
  <1>1. Position(u)' = Position(u)
    BY DEF Untouched, Position, Top
  <1> QED
    BY <1>1 DEF WorkSeen, Untouched

LEMMA SeenAwake ==
    ASSUME NEW u \in Thread, Awake(u)
    PROVE  WorkSeen(u)' /\ TimerSet(u)'
  <1>1. stack'[u] = <<>> => loop'[u].pc \notin AtRest
    BY DEF Awake, Position
  <1> QED
    BY <1>1 DEF WorkSeen, TimerSet, Awake, AtRest

LEMMA TimerUntouched ==
    ASSUME TypeOK, TypeOK', NEW u \in Thread, TimerSet(u), Untouched(u), now' >= now
    PROVE  TimerSet(u)'
  <1> SUFFICES ASSUME stack'[u] = <<>>, ~signal'[u], dmsgq'[u] # <<>>
               PROVE  /\ loop'[u].pc = "stop" => /\ loop'[u].delay # kForever
                                                 /\ loop'[u].delay = dmsgq'[u][1].at - loop'[u].cur
                      /\ loop'[u].pc = "wait" => /\ loop'[u].until # kForever
                                                 /\ loop'[u].until - dmsgq'[u][1].at <= now' - loop'[u].cur
    BY DEF TimerSet
  <1>1. /\ stack[u] = <<>> /\ ~signal[u] /\ dmsgq'[u] = dmsgq[u] /\ loop'[u] = loop[u]
    BY DEF Untouched
  <1>2. /\ loop[u].pc = "stop" => /\ loop[u].delay # kForever
                                  /\ loop[u].delay = dmsgq[u][1].at - loop[u].cur
        /\ loop[u].pc = "wait" => /\ loop[u].until # kForever
                                  /\ loop[u].until - dmsgq[u][1].at <= now - loop[u].cur
    BY <1>1 DEF TimerSet
  <1>3. PICK l, a : l = loop[u] /\ a = dmsgq[u][1].at
    OBVIOUS
  <1>4. /\ now \in Nat /\ now' \in Nat /\ l.cur \in Int /\ l.until \in Int
        /\ a \in Int
    <2>1. dmsgq[u] \in Seq(PostedMessage) /\ 1 \in 1..Len(dmsgq[u])
      BY <1>1, QueuesNow
    <2>2. dmsgq[u][1] \in PostedMessage
      BY <2>1, QueuesNow
    <2>3. l.cur \in Int /\ l.until \in Int /\ now \in Nat /\ now' \in Nat
      <3>1. l \in LoopState
        BY <1>3 DEF TypeOK, LoopState
      <3>2. l.cur \in Nat /\ l.until \in Nat \cup {-1}
        BY <3>1 DEF LoopState, kForever
      <3>3. now \in Nat /\ now' \in Nat
        BY DEF TypeOK
      <3> QED
        BY <3>2, <3>3
    <2> QED
      BY <1>3, <2>2, <2>3, ThreadAssumption DEF PostedMessage
  <1>5. l.until - a <= now - l.cur => l.until - a <= now' - l.cur
    BY <1>4
  <1> QED
    BY <1>1, <1>2, <1>3, <1>5

LEMMA UntouchedAll ==
    ASSUME UNCHANGED <<stack, loop, signal, queues, fStop>>
    PROVE  \A u \in Thread : Untouched(u)
  BY DEF Untouched, queues

\* A step brings work only to threads that it wakes.  Three steps put their own
\* thread to rest.
Quiet == \A u \in Thread : Untouched(u) \/ Awake(u)
Rests(t) == (\A u \in Thread \ {t} : Untouched(u)) /\ (SendsDone(t) \/ Pull(t) \/ StopCheck(t))

LEMMA RunsAwake ==
    ASSUME NEW t \in Thread, Runs(t), UNCHANGED <<stack, loop>>
    PROVE  Awake(t)
  BY DEF Runs, Awake, Position, Top, AtRest

LEMMA QuietSend ==
    ASSUME TypeInv, NEW t \in Thread, NEW h \in Handler, Send(t, h)
    PROVE  Quiet
  <1>0. TypeOK
    BY DEF TypeInv
  <1>1. PICK f : f = NewFrame("send", Len(calls) + 1, h, "push")
    OBVIOUS
  <1>2. /\ Runs(t) /\ UNCHANGED <<queues, signal, fStop, loop>>
        /\ UNCHANGED stack \/ (Grown(t, f) /\ stack' \in [Thread -> Seq(Frame)])
    BY <1>1, SendEffect
  <1>3. CASE UNCHANGED stack
    BY <1>2, <1>3, UntouchedAll DEF Quiet
  <1>4. CASE Grown(t, f) /\ stack' \in [Thread -> Seq(Frame)]
    <2>1. Awake(t)
      BY <1>0, <1>1, <1>4, PlaceGrown DEF NewFrame, Awake, AtRest
    <2>2. \A u \in Thread \ {t} : Untouched(u)
      BY <1>2, <1>4 DEF Untouched, Grown, queues
    <2> QED
      BY <2>1, <2>2 DEF Quiet
  <1> QED
    BY <1>2, <1>3, <1>4

LEMMA QuietPost ==
    ASSUME TypeInv, NEW t \in Thread, NEW h \in Handler, Post(t, h)
    PROVE  Quiet
  <1>1. /\ UNCHANGED <<sendlist, fStop, loop, stack, dmsgq>>
        /\ \/ UNCHANGED <<msgq, signal>>
           \/ Wakes(Home[h]) /\ \A u \in Thread \ {Home[h]} : msgq'[u] = msgq[u]
    BY PostEffect DEF Posted
  <1> QED
    BY <1>1 DEF Quiet, Untouched, Wakes

LEMMA QuietPostDelayed ==
    ASSUME TypeInv, NEW t \in Thread, NEW h \in Handler, NEW delay \in 0..(MaxTime - now),
           PostDelayed(t, h, delay)
    PROVE  Quiet
  <1>1. UNCHANGED <<sendlist, fStop, loop, stack, msgq, dmsgq, signal>>
    BY PostDelayedEffect
  <1> QED
    BY <1>1 DEF Quiet, Untouched

LEMMA QuietDoDelayPost ==
    ASSUME TypeInv, NEW t \in Thread, DoDelayPost(t)
    PROVE  Quiet
  <1>1. PICK h \in Handler : /\ Wakes(Home[h]) /\ \A u \in Thread \ {Home[h]} : dmsgq'[u] = dmsgq[u]
                             /\ UNCHANGED <<sendlist, fStop, loop, stack, msgq>>
    BY DoDelayPostEffect DEF Posted
  <1> QED
    BY <1>1 DEF Quiet, Untouched, Wakes

LEMMA QuietClear ==
    ASSUME TypeInv, NEW t \in Thread, NEW h \in Handler, DestroyHandler(t, h)
    PROVE  Quiet
  <1>1. Runs(t) /\ Cleared(t, {h}) /\ UNCHANGED <<signal, sendlist, fStop, loop, stack>>
    BY DestroyEffect
  <1>2. Awake(t)
    BY <1>1, RunsAwake
  <1>3. \A u \in Thread \ {t} : Untouched(u)
    BY <1>1 DEF Cleared, Untouched
  <1> QED
    BY <1>2, <1>3 DEF Quiet

LEMMA QuietStop ==
    ASSUME TypeInv, NEW t \in Thread, NEW u \in Thread, Stop(t, u)
    PROVE  Quiet
  <1>0. TypeOK
    BY DEF TypeInv
  <1>1. PICK f : f = NewFrame("join", 0, u, "join")
    OBVIOUS
  <1>2. /\ \A v \in Thread \ {u} : fStop'[v] = fStop[v]
        /\ Wakes(u) /\ Grown(t, f) /\ stack' \in [Thread -> Seq(Frame)] /\ UNCHANGED <<queues, loop>>
    BY <1>1, StopEffect
  <1>3. Awake(t)
    BY <1>0, <1>1, <1>2, PlaceGrown DEF NewFrame, Awake, AtRest
  <1>4. \A v \in Thread \ {t} : Untouched(v)
    BY <1>2 DEF Grown, Wakes, Untouched, queues
  <1> QED
    BY <1>3, <1>4 DEF Quiet

LEMMA QuietSendPush ==
    ASSUME TypeInv, NEW t \in Thread, SendPush(t)
    PROVE  Quiet
  <1>0. TypeOK
    BY DEF TypeInv
  <1>1. PICK w, c, v : w = Top(t).waited /\ c = Top(t).id /\ v = Home[Top(t).of]
    OBVIOUS
  <1>2. /\ Moved(t, "check", w) /\ stack' \in [Thread -> Seq(Frame)] /\ ListGrown(v, c) /\ Wakes(v)
        /\ UNCHANGED <<loop, msgq, dmsgq, fStop>>
    BY <1>1, SendPushEffect
  <1>3. Awake(t)
    BY <1>0, <1>2, PlaceMoved DEF Awake, AtRest
  <1>4. \A u \in Thread \ {t} : Untouched(u)
    BY <1>2 DEF Moved, Wakes, ListGrown, Untouched
  <1> QED
    BY <1>3, <1>4 DEF Quiet

LEMMA QuietSendCheck ==
    ASSUME TypeInv, NEW t \in Thread, SendCheck(t)
    PROVE  Quiet
  <1>0. TypeOK
    BY DEF TypeInv
  <1>1. PICK w : w = Top(t).waited
    OBVIOUS
  <1>2. /\ stack[t] # <<>> /\ Top(t).kind = "send" /\ stack' \in [Thread -> Seq(Frame)]
        /\ UNCHANGED <<loop, queues, fStop>>
        /\ \/ Shrunk(t) /\ (UNCHANGED signal \/ Wakes(t))
           \/ Moved(t, "sends", w) /\ UNCHANGED signal
    BY <1>1, SendCheckEffect
  <1>3. Awake(t)
    <2>1. CASE Shrunk(t)
      <3>1. Position(t)' = Below(t, Len(stack[t]))
        BY <1>0, <1>2, <2>1, PlaceShrunk
      <3> QED
        BY <1>2, <3>1, TopSend DEF Awake, AtRest
    <2>2. CASE Moved(t, "sends", w)
      BY <1>0, <1>2, <2>2, PlaceMoved DEF Awake, AtRest
    <2> QED
      BY <1>2, <2>1, <2>2
  <1>4. \A u \in Thread \ {t} : Untouched(u)
    BY <1>2 DEF Shrunk, Moved, Wakes, Untouched, queues
  <1> QED
    BY <1>3, <1>4 DEF Quiet

LEMMA QuietReceiveSend ==
    ASSUME TypeInv, NEW t \in Thread, ReceiveSend(t)
    PROVE  Quiet
  <1>0. TypeOK
    BY DEF TypeInv
  <1>1. PICK f : f = NewFrame("call", sendlist[t][1], calls[sendlist[t][1]].to, "run")
    OBVIOUS
  <1>2. /\ Grown(t, f) /\ stack' \in [Thread -> Seq(Frame)] /\ ListTaken(t)
        /\ UNCHANGED <<msgq, dmsgq, signal, fStop, loop>>
    BY <1>1, ReceiveSendEffect
  <1>3. Awake(t)
    BY <1>0, <1>1, <1>2, PlaceGrown DEF NewFrame, Awake, AtRest
  <1>4. \A u \in Thread \ {t} : Untouched(u)
    BY <1>2 DEF Grown, ListTaken, Untouched
  <1> QED
    BY <1>3, <1>4 DEF Quiet

LEMMA QuietCallReturns ==
    ASSUME TypeInv, NEW t \in Thread, CallReturns(t)
    PROVE  Quiet
  <1>0. TypeOK
    BY DEF TypeInv
  <1>1. PICK v, b : v = calls[Top(t).id].from /\ b = Below(t, Len(stack[t]))
    OBVIOUS
  <1>2. /\ Shrunk(t) /\ stack' \in [Thread -> Seq(Frame)] /\ b = "sends" /\ Wakes(v)
        /\ UNCHANGED <<queues, fStop, loop>>
    BY <1>1, CallReturnsEffect
  <1>3. Awake(t)
    BY <1>0, <1>1, <1>2, PlaceShrunk DEF Awake, AtRest
  <1>4. \A u \in Thread \ {t} : Untouched(u)
    BY <1>2 DEF Shrunk, Wakes, Untouched, queues
  <1> QED
    BY <1>3, <1>4 DEF Quiet

LEMMA QuietPostReturns ==
    ASSUME TypeInv, NEW t \in Thread, PostReturns(t)
    PROVE  Quiet
  <1>1. /\ stack'[t] = <<>> /\ Shrunk(t) /\ LoopGoes(t, "sends") /\ UNCHANGED <<queues, signal, fStop>>
    BY PostReturnsEffect
  <1>2. Awake(t)
    BY <1>1 DEF LoopGoes, Awake, AtRest, Position
  <1>3. \A u \in Thread \ {t} : Untouched(u)
    BY <1>1 DEF Shrunk, LoopGoes, Untouched, queues
  <1> QED
    BY <1>2, <1>3 DEF Quiet

LEMMA QuietWait ==
    ASSUME TypeInv, NEW t \in Thread, WaitSignalled(t) \/ WaitTimeout(t)
    PROVE  Quiet
  <1>0. TypeOK
    BY DEF TypeInv
  <1>1. /\ UNCHANGED <<queues, fStop>> /\ \A u \in Thread \ {t} : signal'[u] = signal[u]
        /\ \/ stack[t] = <<>> /\ UNCHANGED stack /\ LoopGoes(t, "sends")
           \/ UNCHANGED loop /\ Moved(t, "check", TRUE) /\ stack' \in [Thread -> Seq(Frame)]
    <2>1. CASE WaitSignalled(t)
      BY <2>1, WaitSignalledEffect
    <2>2. CASE WaitTimeout(t)
      BY <2>2, WaitTimeoutEffect
    <2> QED
      BY <2>1, <2>2
  <1>2. Awake(t)
    <2>1. CASE stack[t] = <<>> /\ UNCHANGED stack /\ LoopGoes(t, "sends")
      BY <2>1 DEF LoopGoes, Awake, AtRest, Position
    <2>2. CASE Moved(t, "check", TRUE) /\ stack' \in [Thread -> Seq(Frame)]
      BY <1>0, <2>2, PlaceMoved DEF Awake, AtRest
    <2> QED
      BY <1>1, <2>1, <2>2
  <1>3. \A u \in Thread \ {t} : Untouched(u)
    BY <1>1 DEF Moved, LoopGoes, Untouched, queues
  <1> QED
    BY <1>2, <1>3 DEF Quiet

LEMMA QuietJoinReturns ==
    ASSUME TypeInv, NEW t \in Thread, JoinReturns(t)
    PROVE  Quiet
  <1>0. TypeOK /\ StackOK
    BY DEF TypeInv
  <1>1. PICK v, b : v = Top(t).of /\ b = Below(t, Len(stack[t]))
    OBVIOUS
  <1>2. /\ Shrunk(t) /\ stack' \in [Thread -> Seq(Frame)] /\ b = "run"
        /\ v \in Thread /\ loop[v].pc = "exited" /\ Cleared(v, Handler)
        /\ UNCHANGED <<signal, sendlist, fStop, loop>>
    BY <1>1, JoinReturnsEffect
  <1>3. Awake(t)
    BY <1>0, <1>1, <1>2, PlaceShrunk DEF Awake, AtRest
  <1>4. ASSUME v # t PROVE Awake(v)
    <2>1. stack[v] = <<>>
      <3>1. ASSUME stack[v] # <<>> PROVE FALSE
        <4>1. 1 \in 1..Len(stack[v])
          BY <1>0, <1>2, <3>1, StackNow
        <4>2. FrameOK(v, stack[v][1], "exited")
          BY <1>0, <1>2, <4>1 DEF StackOK, Below
        <4> QED
          BY <4>2 DEF FrameOK
      <3> QED
        BY <3>1
    <2>2. stack'[v] = <<>> /\ loop'[v].pc = "exited"
      BY <1>2, <1>4, <2>1 DEF Shrunk
    <2> QED
      BY <2>2 DEF Awake, AtRest, Position
  <1>5. \A u \in Thread \ {t, v} : Untouched(u)
    BY <1>2 DEF Shrunk, Cleared, Untouched
  <1> QED
    BY <1>3, <1>4, <1>5 DEF Quiet

LEMMA RestsOthers ==
    ASSUME TypeInv, NEW t \in Thread, SendsDone(t) \/ Pull(t) \/ StopCheck(t)
    PROVE  Rests(t)
  <1>1. CASE SendsDone(t)
    <2>1. /\ UNCHANGED <<queues, signal, fStop>>
          /\ \A u \in Thread \ {t} : stack'[u] = stack[u] /\ loop'[u] = loop[u]
      <3>1. /\ UNCHANGED <<queues, signal, fStop>>
            /\ \/ UNCHANGED stack /\ LoopGoes(t, "pull")
               \/ UNCHANGED loop /\ Moved(t, "wait", Top(t).waited)
        BY <1>1, SendsDoneEffect
      <3> QED
        BY <3>1 DEF LoopGoes, Moved
    <2> QED
      BY <1>1, <2>1 DEF Rests, Untouched, queues
  <1>2. CASE Pull(t)
    <2>1. /\ UNCHANGED <<sendlist, signal, fStop>>
          /\ \/ UNCHANGED <<msgq, dmsgq, stack>> /\ LoopGoes(t, "stop")
             \/ UNCHANGED loop /\ \E n, a, m : Dispatches(t, n, a, m)
      BY <1>2, PullEffect
    <2>2. CASE UNCHANGED <<msgq, dmsgq, stack>> /\ LoopGoes(t, "stop")
      BY <1>2, <2>1, <2>2 DEF Rests, Untouched, LoopGoes
    <2>3. ASSUME NEW n, NEW a, NEW m, Dispatches(t, n, a, m), UNCHANGED loop
          PROVE  Rests(t)
      <3>1. \A u \in Thread \ {t} : msgq'[u] = msgq[u] /\ dmsgq'[u] = dmsgq[u] /\ stack'[u] = stack[u]
        BY <2>3 DEF Dispatches, Grown
      <3> QED
        BY <1>2, <2>1, <2>3, <3>1 DEF Rests, Untouched
    <2> QED
      BY <2>1, <2>2, <2>3
  <1>3. CASE StopCheck(t)
    <2>1. /\ UNCHANGED <<queues, signal, fStop, stack>>
          /\ \A u \in Thread \ {t} : loop'[u] = loop[u]
      BY <1>3, StopCheckEffect DEF LoopGoes
    <2> QED
      BY <1>3, <2>1 DEF Rests, Untouched, queues
  <1> QED
    BY <1>1, <1>2, <1>3

LEMMA RestCases ==
    ASSUME TypeInv, [Next]_vars
    PROVE  Quiet \/ \E t \in Thread : Rests(t)
  <1>1. ASSUME NEW t \in Thread, NEW h \in Handler, Send(t, h) \/ Post(t, h) \/ DestroyHandler(t, h)
        PROVE  Quiet
    BY <1>1, QuietSend, QuietPost, QuietClear
  <1>2. ASSUME NEW t \in Thread, NEW h \in Handler, NEW delay \in 0..(MaxTime - now),
               PostDelayed(t, h, delay)
        PROVE  Quiet
    BY <1>2, QuietPostDelayed
  <1>3. ASSUME NEW t \in Thread, NEW u \in Thread, Stop(t, u) PROVE Quiet
    BY <1>3, QuietStop
  <1>4. ASSUME NEW t \in Thread, SendPush(t) \/ SendCheck(t) \/ ReceiveSend(t) \/ CallReturns(t)
        PROVE  Quiet
    BY <1>4, QuietSendPush, QuietSendCheck, QuietReceiveSend, QuietCallReturns
  <1>5. ASSUME NEW t \in Thread, SendsDone(t) \/ Pull(t) \/ StopCheck(t) PROVE Rests(t)
    BY <1>5, RestsOthers
  <1>6. ASSUME NEW t \in Thread, PostReturns(t) \/ WaitSignalled(t) \/ WaitTimeout(t) \/ JoinReturns(t)
        PROVE  Quiet
    BY <1>6, QuietPostReturns, QuietWait, QuietJoinReturns
  <1>7. ASSUME Tick \/ UNCHANGED vars PROVE Quiet
    <2>1. UNCHANGED <<stack, loop, signal, queues, fStop>>
      BY <1>7 DEF Tick, vars
    <2> QED
      BY <2>1, UntouchedAll DEF Quiet
  <1>8. ASSUME NEW t \in Thread, DoDelayPost(t) PROVE Quiet
    BY <1>8, QuietDoDelayPost
  <1> QED
    BY <1>1, <1>2, <1>3, <1>4, <1>5, <1>6, <1>7, <1>8, StepCases

LEMMA SeenSendsDone ==
    ASSUME TypeInv, NEW t \in Thread, WorkSeen(t), SendsDone(t)
    PROVE  WorkSeen(t)'
  <1>0. TypeOK
    BY DEF TypeInv
  <1>1. PICK w : w = Top(t).waited
    OBVIOUS
  <1>2. /\ sendlist[t] = <<>> /\ UNCHANGED queues
        /\ \/ stack[t] = <<>> /\ UNCHANGED stack /\ LoopGoes(t, "pull")
           \/ Moved(t, "wait", w) /\ stack' \in [Thread -> Seq(Frame)]
    BY <1>1, SendsDoneEffect
  <1>3. sendlist'[t] = <<>>
    BY <1>2 DEF queues
  <1>4. stack'[t] # <<>> \/ loop'[t].pc = "pull"
    <2>1. CASE Moved(t, "wait", w) /\ stack' \in [Thread -> Seq(Frame)]
      BY <2>1, SeqParts DEF Moved
    <2> QED
      BY <1>2, <2>1 DEF LoopGoes
  <1> QED
    BY <1>3, <1>4 DEF WorkSeen

\* Get has found no message before it looks at fStop_.
LEMMA SeenPull ==
    ASSUME TypeInv, NEW t \in Thread, WorkSeen(t), Pull(t)
    PROVE  WorkSeen(t)'
  <1>0. TypeOK
    BY DEF TypeInv
  <1>1. /\ stack[t] = <<>> /\ loop[t].pc = "pull" /\ UNCHANGED <<sendlist, signal, fStop>>
        /\ \/ msgq[t] = <<>> /\ UNCHANGED <<msgq, stack>> /\ LoopGoes(t, "stop")
           \/ \E n, a, m : Dispatches(t, n, a, m)
    BY PullEffect
  <1>2. CASE msgq[t] = <<>> /\ UNCHANGED <<msgq, stack>> /\ LoopGoes(t, "stop")
    <2>1. ~signal[t] => sendlist[t] = <<>>
      BY <1>1 DEF WorkSeen, Position, AtRest
    <2> QED
      BY <1>1, <1>2, <2>1 DEF WorkSeen, LoopGoes
  <1>3. ASSUME NEW n, NEW a, NEW m, Dispatches(t, n, a, m) PROVE WorkSeen(t)'
    <2>1. PICK f : f = NewFrame("post", m.id, m.to, "run")
      OBVIOUS
    <2>2. Grown(t, f) /\ stack' \in [Thread -> Seq(Frame)] /\ f.pc = "run"
      BY <1>3, <2>1 DEF Dispatches, NewFrame
    <2>3. Awake(t)
      BY <1>0, <2>2, PlaceGrown DEF Awake, AtRest
    <2> QED
      BY <2>3, SeenAwake
  <1> QED
    BY <1>1, <1>2, <1>3

LEMMA SeenStopCheck ==
    ASSUME TypeInv, NEW t \in Thread, WorkSeen(t), StopCheck(t)
    PROVE  WorkSeen(t)'
  <1>1. /\ stack[t] = <<>> /\ loop[t].pc = "stop" /\ UNCHANGED <<queues, signal, fStop, stack>>
        /\ LoopGoes(t, "exited") \/ (~fStop[t] /\ LoopGoes(t, "wait"))
    BY StopCheckEffect
  <1>2. ~signal[t] => sendlist[t] = <<>> /\ msgq[t] = <<>>
    BY <1>1 DEF WorkSeen, Position, AtRest
  <1>3. loop'[t].pc = "wait" => ~fStop[t]
    BY <1>1 DEF LoopGoes
  <1> QED
    BY <1>1, <1>2, <1>3 DEF WorkSeen, queues

LEMMA WakeStep ==
    ASSUME TypeInv, WakeInv, TypeInv', [Next]_vars
    PROVE  WakeInv'
  <1>1. AnswerSeen'
    BY AnswerStep DEF WakeInv
  <1>2. ASSUME NEW u \in Thread PROVE WorkSeen(u)'
    <2>1. WorkSeen(u)
      BY DEF WakeInv
    <2>2. CASE Untouched(u) \/ Awake(u)
      BY <2>1, <2>2, SeenUntouched, SeenAwake
    <2>3. CASE SendsDone(u) \/ Pull(u) \/ StopCheck(u)
      BY <2>1, <2>3, SeenSendsDone, SeenPull, SeenStopCheck
    <2> QED
      BY <2>2, <2>3, RestCases DEF Quiet, Rests
  <1> QED
    BY <1>1, <1>2 DEF WakeInv

LEMMA WakeInit == Init => WakeInv
  <1> SUFFICES ASSUME Init PROVE WakeInv
    OBVIOUS
  <1>1. \A t \in Thread : /\ stack[t] = <<>> /\ Len(stack[t]) = 0 /\ sendlist[t] = <<>> /\ msgq[t] = <<>>
                          /\ ~fStop[t]
    BY DEF Init
  <1>2. AnswerSeen
    BY <1>1 DEF AnswerSeen, SendFrame
  <1> QED
    BY <1>1, <1>2 DEF WakeInv, WorkSeen

-----------------------------------------------------------------------------
(* Timers *)

\* Before the clock reaches half of its range its differences are those of time.
LEMMA NoWrapTimes ==
    ASSUME NEW a \in Nat, NEW c \in Nat, a < ClockMod \div 2, c < ClockMod \div 2
    PROVE  /\ Clock(a) = a /\ Clock(c) = c
           /\ a >= c => TimeDiff(a, c) = a - c
           /\ TimeIsLater(c, a) <=> a > c
  <1>1. PICK M \in Nat \ {0, 1} : M = ClockMod
    BY ThreadAssumption
  <1>2. PICK H \in Nat : H = M \div 2 /\ 2 * H <= M /\ H < M
    BY <1>1
  <1>3. a % M = a /\ c % M = c
    BY <1>1, <1>2
  <1>4. Clock(a) = a /\ Clock(c) = c
    BY <1>1, <1>3 DEF Clock
  <1>5. TimeDiff(a, c) = (a - c) % M
    BY <1>1, <1>4 DEF TimeDiff
  <1>6. CASE a >= c
    <2>1. TimeDiff(a, c) = a - c /\ a - c < H
      BY <1>1, <1>2, <1>5, <1>6
    <2> QED
      BY <1>1, <1>2, <1>4, <1>6, <2>1 DEF TimeIsLater
  <1>7. CASE a < c
    <2>1. (a - c) % M = a - c + M
      BY <1>1, <1>2, <1>7
    <2>2. TimeDiff(a, c) >= H
      BY <1>1, <1>2, <1>5, <1>7, <2>1
    <2>3. TimeDiff(a, c) \in Nat
      BY <1>1, <1>2, <1>5, <1>7, <2>1
    <2> QED
      BY <1>1, <1>2, <1>4, <1>7, <2>2, <2>3 DEF TimeIsLater
  <1> QED
    BY <1>6, <1>7

\* Time does not go back.
LEMMA LaterStep ==
    ASSUME TypeOK, [Next]_vars
    PROVE  now' >= now
  <1>0. now \in Nat
    BY DEF TypeOK
  <1>1. ASSUME NEW t \in Thread, NEW h \in Handler, Send(t, h) \/ Post(t, h) \/ DestroyHandler(t, h)
        PROVE  UNCHANGED now
    BY <1>1 DEF Send, Post, DestroyHandler
  <1>2. ASSUME NEW t \in Thread, NEW h \in Handler, NEW delay, PostDelayed(t, h, delay)
        PROVE  UNCHANGED now
    BY <1>2 DEF PostDelayed
  <1>3. ASSUME NEW t \in Thread, NEW u \in Thread, Stop(t, u) PROVE UNCHANGED now
    BY <1>3 DEF Stop
  <1>4. ASSUME NEW t \in Thread, SendPush(t) \/ SendCheck(t) \/ ReceiveSend(t) \/ CallReturns(t)
        PROVE  UNCHANGED now
    BY <1>4 DEF SendPush, SendCheck, ReceiveSend, CallReturns
  <1>5. ASSUME NEW t \in Thread, SendsDone(t) \/ Pull(t) \/ PostReturns(t) \/ StopCheck(t)
        PROVE  UNCHANGED now
    BY <1>5 DEF SendsDone, Pull, PostReturns, StopCheck
  <1>6. ASSUME NEW t \in Thread, WaitSignalled(t) \/ WaitTimeout(t) \/ JoinReturns(t)
        PROVE  UNCHANGED now
    BY <1>6 DEF WaitSignalled, WaitTimeout, JoinReturns
  <1>7. Tick \/ UNCHANGED vars => now' = now + 1 \/ now' = now
    BY DEF Tick, vars
  <1>9. ASSUME NEW t \in Thread, DoDelayPost(t) PROVE UNCHANGED now
    BY <1>9 DEF DoDelayPost
  <1>8. now' = now + 1 \/ now' = now
    BY <1>1, <1>2, <1>3, <1>4, <1>5, <1>6, <1>7, <1>9, StepCases
  <1> QED
    BY <1>0, <1>8

\* The first delayed message, before the clock wraps.
LEMMA FirstTimer ==
    ASSUME TypeInv, MaxTime < ClockMod \div 2, NoWrap, NEW t \in Thread, dmsgq[t] # <<>>
    PROVE  /\ dmsgq[t][1].at \in Nat /\ dmsgq[t][1].at < ClockMod \div 2
           /\ loop[t].cur \in Nat /\ loop[t].cur < ClockMod \div 2 /\ now \in Nat
  <1>0. TypeOK /\ SetsOK
    BY DEF TypeInv
  <1>1. 1 \in 1..Len(dmsgq[t])
    BY <1>0, QueuesNow
  <1>2. dmsgq[t][1] \in PostedMessage
    BY <1>0, <1>1, QueuesNow
  <1>3. dmsgq[t][1].at \in Nat /\ dmsgq[t][1].at <= MaxTime
    BY <1>2, ThreadAssumption DEF PostedMessage
  <1>4. loop[t].cur \in Nat /\ loop[t].cur <= now /\ now \in Nat
    BY <1>0 DEF TypeOK, SetsOK
  <1>5. ClockMod \div 2 \in Nat /\ MaxTime \in Nat
    BY ThreadAssumption
  <1> QED
    BY <1>3, <1>4, <1>5 DEF NoWrap

LEMMA TimerPull ==
    ASSUME TypeInv, MaxTime < ClockMod \div 2, NoWrap, NEW t \in Thread, Pull(t)
    PROVE  TimerSet(t)'
  <1>0. TypeOK
    BY DEF TypeInv
  <1>1. /\ stack[t] = <<>> /\ UNCHANGED signal
        /\ \/ /\ Due(t, 0) /\ UNCHANGED <<dmsgq, stack>> /\ LoopGoes(t, "stop")
              /\ loop'[t].cur = loop[t].cur /\ loop'[t].delay = DelayNext(t, dmsgq[t])
           \/ \E n, a, m : Dispatches(t, n, a, m)
    BY PullEffect
  <1>2. CASE /\ Due(t, 0) /\ UNCHANGED <<dmsgq, stack>> /\ LoopGoes(t, "stop")
             /\ loop'[t].cur = loop[t].cur /\ loop'[t].delay = DelayNext(t, dmsgq[t])
    <2> SUFFICES ASSUME dmsgq[t] # <<>>
                 PROVE  /\ loop'[t].delay # kForever
                        /\ loop'[t].delay = dmsgq'[t][1].at - loop'[t].cur
      BY <1>2 DEF TimerSet, LoopGoes
    <2>1. PICK a \in Nat, c \in Nat : /\ a = dmsgq[t][1].at /\ a < ClockMod \div 2
                                      /\ c = loop[t].cur /\ c < ClockMod \div 2
      BY FirstTimer
    <2>2. 0 < Len(dmsgq[t]) /\ Head(dmsgq[t]) = dmsgq[t][1]
      BY <1>0, QueuesNow
    <2>3. TimeIsLater(c, a)
      BY <1>2, <2>1, <2>2 DEF Due
    <2>4. a > c /\ TimeDiff(a, c) = a - c
      BY <2>1, <2>3, NoWrapTimes
    <2>5. DelayNext(t, dmsgq[t]) = a - c
      BY <2>1, <2>2, <2>4 DEF DelayNext
    <2>6. a - c # kForever
      BY <2>4 DEF kForever
    <2> QED
      BY <1>2, <2>1, <2>5, <2>6
  <1>3. ASSUME NEW n, NEW a, NEW m, Dispatches(t, n, a, m) PROVE TimerSet(t)'
    <2>1. PICK f : f = NewFrame("post", m.id, m.to, "run")
      OBVIOUS
    <2>2. Grown(t, f) /\ stack' \in [Thread -> Seq(Frame)] /\ f.pc = "run"
      BY <1>3, <2>1 DEF Dispatches, NewFrame
    <2>3. Awake(t)
      BY <1>0, <2>2, PlaceGrown DEF Awake, AtRest
    <2> QED
      BY <2>3, SeenAwake
  <1> QED
    BY <1>1, <1>2, <1>3

LEMMA TimerStopCheck ==
    ASSUME TypeInv, MaxTime < ClockMod \div 2, NoWrap, NEW t \in Thread, TimerSet(t), StopCheck(t)
    PROVE  TimerSet(t)'
  <1>0. TypeOK
    BY DEF TypeInv
  <1>1. /\ stack[t] = <<>> /\ loop[t].pc = "stop" /\ loop'[t].cur = loop[t].cur
        /\ UNCHANGED <<queues, signal, stack, now>>
        /\ \/ LoopGoes(t, "exited")
           \/ LoopGoes(t, "wait") /\ loop'[t].until = WaitUntil(loop[t].delay)
    BY StopCheckEffect
  <1>2. CASE LoopGoes(t, "exited")
    BY <1>1, <1>2 DEF TimerSet, LoopGoes
  <1>3. CASE LoopGoes(t, "wait") /\ loop'[t].until = WaitUntil(loop[t].delay)
    <2> SUFFICES ASSUME ~signal[t], dmsgq[t] # <<>>
                 PROVE  /\ loop'[t].until # kForever
                        /\ loop'[t].until - dmsgq[t][1].at <= now - loop[t].cur
      BY <1>1, <1>3 DEF TimerSet, LoopGoes, queues
    <2>1. PICK a, c, d, n : /\ a = dmsgq[t][1].at /\ c = loop[t].cur /\ d = loop[t].delay /\ n = now
      OBVIOUS
    <2>2. a \in Nat /\ c \in Nat /\ n \in Nat
      BY <2>1, FirstTimer
    <2>3. d = a - c
      BY <1>1, <2>1 DEF TimerSet
    <2>4. d \in Nat \/ d = kForever
      BY <1>0, <2>1 DEF TypeOK
    <2>5. d # kForever
      BY <1>1, <2>1 DEF TimerSet
    <2>6. loop'[t].until = n + d
      BY <1>3, <2>1, <2>5 DEF WaitUntil
    <2>7. d \in Nat
      BY <2>4, <2>5
    <2>8. n + d # -1 /\ (n + d) - a <= n - c
      BY <2>2, <2>3, <2>7
    <2> QED
      BY <2>1, <2>6, <2>8 DEF kForever
  <1> QED
    BY <1>1, <1>2, <1>3

LEMMA TimerStep ==
    ASSUME TypeInv, TimerInv, TypeInv', MaxTime < ClockMod \div 2, [Next]_vars
    PROVE  TimerInv'
  <1>0. TypeOK /\ TypeOK'
    BY DEF TypeInv
  <1>1. now' >= now
    BY <1>0, LaterStep
  <1> SUFFICES ASSUME NoWrap', NEW u \in Thread PROVE TimerSet(u)'
    BY DEF TimerInv
  <1>2. NoWrap
    <2>1. now \in Nat /\ now' \in Nat /\ ClockMod \div 2 \in Nat
      BY <1>0, ThreadAssumption DEF TypeOK
    <2> QED
      BY <1>1, <2>1 DEF NoWrap
  <1>3. TimerSet(u)
    BY <1>2 DEF TimerInv
  <1>4. CASE Untouched(u) \/ Awake(u)
    BY <1>0, <1>1, <1>3, <1>4, TimerUntouched, SeenAwake
  <1>5. CASE SendsDone(u)
    <2>1. PICK w : w = Top(u).waited
      OBVIOUS
    <2>2. \/ stack[u] = <<>> /\ UNCHANGED stack /\ LoopGoes(u, "pull")
          \/ Moved(u, "wait", w) /\ stack' \in [Thread -> Seq(Frame)]
      BY <1>5, <2>1, SendsDoneEffect
    <2>3. stack'[u] # <<>> \/ loop'[u].pc = "pull"
      <3>1. CASE Moved(u, "wait", w) /\ stack' \in [Thread -> Seq(Frame)]
        BY <3>1, SeqParts DEF Moved
      <3> QED
        BY <2>2, <3>1 DEF LoopGoes
    <2> QED
      BY <2>3 DEF TimerSet
  <1>6. CASE Pull(u) \/ StopCheck(u)
    BY <1>2, <1>3, <1>6, TimerPull, TimerStopCheck
  <1> QED
    BY <1>4, <1>5, <1>6, RestCases DEF Quiet, Rests

LEMMA TimerInit == Init => TimerInv
  BY DEF Init, TimerInv, TimerSet

\* Without timers: a thread that sleeps has seen its calls, its answer, its
\* messages and the order to stop.
SleepsRightly(t) ==
    Position(t) = "wait" /\ ~signal[t] =>
        /\ sendlist[t] = <<>>
        /\ stack[t] # <<>> => Top(t).id \notin ready
        /\ stack[t] = <<>> => msgq[t] = <<>> /\ ~fStop[t]

LEMMA WakeSafe ==
    ASSUME TypeInv, WakeInv, NEW t \in Thread
    PROVE  SleepsRightly(t)
  <1>0. TypeOK /\ StackOK /\ WorkSeen(t)
    BY DEF TypeInv, WakeInv
  <1> SUFFICES ASSUME Position(t) = "wait", ~signal[t]
               PROVE  /\ sendlist[t] = <<>>
                      /\ stack[t] # <<>> => Top(t).id \notin ready
                      /\ stack[t] = <<>> => msgq[t] = <<>> /\ ~fStop[t]
    BY DEF SleepsRightly
  <1>1. sendlist[t] = <<>>
    BY <1>0 DEF WorkSeen, AtRest
  <1>2. stack[t] = <<>> => msgq[t] = <<>> /\ ~fStop[t]
    BY <1>0 DEF WorkSeen, Position
  <1>3. ASSUME stack[t] # <<>>, Top(t).id \in ready PROVE FALSE
    <2>1. PICK n : n = Len(stack[t])
      OBVIOUS
    <2>2. n \in Nat \ {0} /\ n \in 1..n /\ Top(t).kind = "send" /\ Top(t).pc = "wait"
      BY <1>0, <1>3, <2>1, PositionNow
    <2>3. SendFrame(t, n) /\ stack[t][n] = Top(t)
      BY <2>1, <2>2 DEF SendFrame, Top
    <2>4. Repaid(t, n)
      BY <1>3, <2>2, <2>3 DEF WakeInv, AnswerSeen, Asleep
    <2>5. PICK j \in Nat : j > n /\ SendFrame(t, j)
      BY <2>4 DEF Repaid
    <2> QED
      BY <2>1, <2>2, <2>5 DEF SendFrame
  <1> QED
    BY <1>1, <1>2, <1>3

\* No wakeup for a call, an answer, a message or Stop is lost, whatever the
\* clock does: the nested waits of Send give back what they consume.
THEOREM WakeupsSeen == Spec => [](\A t \in Thread : SleepsRightly(t))
  <1>1. TypeInv /\ WakeInv => \A t \in Thread : SleepsRightly(t)
    BY WakeSafe
  <1> QED
    BY <1>1, TypeInit, TypeStep, WakeInit, WakeStep, PTL DEF Spec

\* No thread sleeps over work, timers included, as long as neither the time nor
\* a delay has come to half of the range of the clock.
THEOREM WakeupsKept ==
    ASSUME MaxTime < ClockMod \div 2
    PROVE  Spec => [](now < ClockMod \div 2 => NoLostWakeup)
  <1>1. TypeInv /\ WakeInv /\ TimerInv => (now < ClockMod \div 2 => NoLostWakeup)
    <2> SUFFICES ASSUME TypeInv, WakeInv, TimerInv, NoWrap, NEW t \in Thread,
                        Position(t) = "wait", ~signal[t]
                 PROVE  /\ sendlist[t] = <<>>
                        /\ stack[t] # <<>> => Top(t).id \notin ready
                        /\ stack[t] = <<>> =>
                              /\ msgq[t] = <<>> /\ ~fStop[t]
                              /\ dmsgq[t] # <<>> =>
                                    /\ loop[t].until # kForever
                                    /\ loop[t].until - dmsgq[t][1].at <= now - loop[t].cur
      BY DEF NoLostWakeup, NoWrap
    <2>1. /\ sendlist[t] = <<>>
          /\ stack[t] # <<>> => Top(t).id \notin ready
          /\ stack[t] = <<>> => msgq[t] = <<>> /\ ~fStop[t]
      BY WakeSafe DEF SleepsRightly
    <2>2. TimerSet(t)
      BY DEF TimerInv
    <2>3. stack[t] = <<>> => loop[t].pc = "wait"
      BY DEF Position
    <2> QED
      BY <2>1, <2>2, <2>3 DEF TimerSet
  <1>2. TypeInv /\ TimerInv /\ TypeInv' /\ [Next]_vars => TimerInv'
    BY TimerStep
  <1> QED
    BY <1>1, <1>2, TypeInit, TypeStep, WakeInit, WakeStep, TimerInit, PTL DEF Spec

-----------------------------------------------------------------------------
(* The order of messages *)

Within(a, s) == \A i \in 1..Len(a) : \E j \in 1..Len(s) : a[i] = s[j]

LEMMA PrecedesWithin ==
    ASSUME NEW s, NEW r, NEW a, NEW b, Precedes(s, r), Within(a, s), Within(b, r)
    PROVE  Precedes(a, b)
  <1> SUFFICES ASSUME NEW i \in 1..Len(a), NEW j \in 1..Len(b) PROVE Ordered(a[i], b[j])
    BY DEF Precedes
  <1>1. PICK k \in 1..Len(s), l \in 1..Len(r) : a[i] = s[k] /\ b[j] = r[l]
    BY DEF Within
  <1>2. Ordered(s[k], r[l])
    BY DEF Precedes
  <1> QED
    BY <1>1, <1>2

LEMMA WithinItself ==
    ASSUME NEW s
    PROVE  Within(s, s)
  BY DEF Within

LEMMA LeftSorted ==
    ASSUME NEW a, NEW s, NEW hs, LeftOf(a, s, hs), Sorted(s)
    PROVE  Sorted(a) /\ Within(a, s)
  <1>1. PICK f : /\ \A i \in 1..Len(a) : f[i] \in 1..Len(s) /\ a[i] = s[f[i]] /\ s[f[i]].to \notin hs
                 /\ \A i, j \in 1..Len(a) : i < j => f[i] < f[j]
    BY DEF LeftOf
  <1>2. Within(a, s)
    BY <1>1 DEF Within
  <1>3. ASSUME NEW i \in 1..Len(a), NEW j \in 1..Len(a), j < i PROVE Ordered(a[j], a[i])
    <2>1. f[i] \in 1..Len(s) /\ f[j] \in 1..Len(s) /\ f[j] < f[i] /\ a[i] = s[f[i]] /\ a[j] = s[f[j]]
      BY <1>1, <1>3
    <2>2. Ordered(s[f[j]], s[f[i]])
      BY <2>1 DEF Sorted
    <2> QED
      BY <2>1, <2>2
  <1> QED
    BY <1>2, <1>3 DEF Sorted

LEMMA DroppedSorted ==
    ASSUME NEW a, NEW s, NEW n \in Nat, Dropped(a, s, n), Len(s) \in Nat, Sorted(s)
    PROVE  Sorted(a) /\ Within(a, s) /\ \A i \in 1..Len(a) : n + i \in 1..Len(s) /\ a[i] = s[n + i]
  <1>1. ASSUME NEW i \in 1..Len(a) PROVE n + i \in 1..Len(s) /\ a[i] = s[n + i] /\ i \in Nat
    BY DEF Dropped
  <1>2. Within(a, s)
    BY <1>1 DEF Within
  <1>3. ASSUME NEW i \in 1..Len(a), NEW j \in 1..Len(a), j < i PROVE Ordered(a[j], a[i])
    <2>1. /\ n + i \in 1..Len(s) /\ a[i] = s[n + i] /\ n + j \in 1..Len(s) /\ a[j] = s[n + j]
          /\ n + j < n + i
      BY <1>1, <1>3
    <2>2. Ordered(s[n + j], s[n + i])
      BY <2>1 DEF Sorted
    <2> QED
      BY <2>1, <2>2
  <1> QED
    BY <1>1, <1>2, <1>3 DEF Sorted

LEMMA CombinedSorted ==
    ASSUME NEW a, NEW s, NEW r, NEW n \in Nat, Combined(a, s, r, n), Len(s) \in Nat, Len(r) \in Nat,
           n <= Len(r), Sorted(s), Sorted(r), Precedes(s, r)
    PROVE  Sorted(a)
  <1> SUFFICES ASSUME NEW i \in 1..Len(a), NEW j \in 1..Len(a), j < i PROVE Ordered(a[j], a[i])
    BY DEF Sorted
  <1>1. \/ i \in 1..Len(s) /\ a[i] = s[i]
        \/ \E k \in 1..n : i = Len(s) + k /\ a[i] = r[k]
    BY CombinedOld
  <1>2. \/ j \in 1..Len(s) /\ a[j] = s[j]
        \/ \E k \in 1..n : j = Len(s) + k /\ a[j] = r[k]
    BY CombinedOld
  <1>3. CASE i \in 1..Len(s) /\ a[i] = s[i]
    <2>1. j \in 1..Len(s) /\ a[j] = s[j]
      BY <1>2, <1>3
    <2>2. Ordered(s[j], s[i])
      BY <1>3, <2>1 DEF Sorted
    <2> QED
      BY <1>3, <2>1, <2>2
  <1>4. ASSUME NEW k \in 1..n, i = Len(s) + k, a[i] = r[k] PROVE Ordered(a[j], a[i])
    <2>0. k \in 1..Len(r)
      OBVIOUS
    <2>1. CASE j \in 1..Len(s) /\ a[j] = s[j]
      <3>1. Ordered(s[j], r[k])
        BY <2>0, <2>1 DEF Precedes
      <3> QED
        BY <1>4, <2>1, <3>1
    <2>2. ASSUME NEW l \in 1..n, j = Len(s) + l, a[j] = r[l] PROVE Ordered(a[j], a[i])
      <3>0. l \in 1..Len(r)
        OBVIOUS
      <3>1. l \in 1..Len(r) /\ l < k
        <4>1. Len(s) + l < Len(s) + k
          BY <1>4, <2>2
        <4>2. l \in Nat /\ k \in Nat
          OBVIOUS
        <4> QED
          BY <3>0, <4>1, <4>2
      <3>2. Ordered(r[l], r[k])
        BY <2>0, <3>1 DEF Sorted
      <3> QED
        BY <1>4, <2>2, <3>2
    <2> QED
      BY <1>2, <2>1, <2>2
  <1> QED
    BY <1>1, <1>3, <1>4

LEMMA CombinedPrecedes ==
    ASSUME NEW a, NEW s, NEW r, NEW n \in Nat, Combined(a, s, r, n), Len(s) \in Nat, Len(r) \in Nat,
           n <= Len(r), NEW d, Precedes(d, s), Precedes(d, r)
    PROVE  Precedes(d, a)
  <1> SUFFICES ASSUME NEW i \in 1..Len(d), NEW j \in 1..Len(a) PROVE Ordered(d[i], a[j])
    BY DEF Precedes
  <1>1. \/ j \in 1..Len(s) /\ a[j] = s[j]
        \/ \E k \in 1..n : j = Len(s) + k /\ a[j] = r[k]
    BY CombinedOld
  <1>2. CASE j \in 1..Len(s) /\ a[j] = s[j]
    <2>1. Ordered(d[i], s[j])
      BY <1>2 DEF Precedes
    <2> QED
      BY <1>2, <2>1
  <1>3. ASSUME NEW k \in 1..n, a[j] = r[k] PROVE Ordered(d[i], a[j])
    <2>1. k \in 1..Len(r)
      OBVIOUS
    <2>2. Ordered(d[i], r[k])
      BY <2>1 DEF Precedes
    <2> QED
      BY <1>3, <2>2
  <1> QED
    BY <1>1, <1>2, <1>3

\* What is taken over from r comes before what is left of it.
LEMMA CombinedRest ==
    ASSUME NEW a, NEW b, NEW s, NEW r, NEW n \in Nat, Combined(a, s, r, n), Dropped(b, r, n),
           Len(s) \in Nat, Len(r) \in Nat, n <= Len(r), Sorted(r), Precedes(s, r)
    PROVE  Precedes(a, b)
  <1> SUFFICES ASSUME NEW i \in 1..Len(a), NEW j \in 1..Len(b) PROVE Ordered(a[i], b[j])
    BY DEF Precedes
  <1>1. n + j \in 1..Len(r) /\ b[j] = r[n + j] /\ j \in Nat /\ j > 0
    BY DEF Dropped
  <1>2. \/ i \in 1..Len(s) /\ a[i] = s[i]
        \/ \E k \in 1..n : i = Len(s) + k /\ a[i] = r[k]
    BY CombinedOld
  <1>3. CASE i \in 1..Len(s) /\ a[i] = s[i]
    <2>1. Ordered(s[i], r[n + j])
      BY <1>1, <1>3 DEF Precedes
    <2> QED
      BY <1>1, <1>3, <2>1
  <1>4. ASSUME NEW k \in 1..n, a[i] = r[k] PROVE Ordered(a[i], b[j])
    <2>0. k \in 1..Len(r) /\ k \in Nat /\ k <= n
      OBVIOUS
    <2>1. k \in 1..Len(r) /\ k < n + j
      BY <1>1, <2>0
    <2>2. Ordered(r[k], r[n + j])
      BY <1>1, <2>1 DEF Sorted
    <2> QED
      BY <1>1, <1>4, <2>2
  <1> QED
    BY <1>2, <1>3, <1>4

LEMMA ExtendsOld ==
    ASSUME NEW a, NEW s, NEW m, Extends(a, s, m), Len(s) \in Nat, NEW i \in 1..Len(a)
    PROVE  (i \in 1..Len(s) /\ a[i] = s[i]) \/ (i = Len(s) + 1 /\ a[i] = m)
  <1>1. Len(a) = Len(s) + 1 /\ a[Len(s) + 1] = m /\ \A j \in 1..Len(s) : a[j] = s[j]
    BY DEF Extends
  <1>2. i \in 1..Len(s) \/ i = Len(s) + 1
    BY <1>1
  <1> QED
    BY <1>1, <1>2

LEMMA ExtendsSorted ==
    ASSUME NEW a, NEW s, NEW m, Extends(a, s, m), Len(s) \in Nat, Sorted(s),
           \A i \in 1..Len(s) : Ordered(s[i], m)
    PROVE  Sorted(a)
  <1> SUFFICES ASSUME NEW i \in 1..Len(a), NEW j \in 1..Len(a), j < i PROVE Ordered(a[j], a[i])
    BY DEF Sorted
  <1>1. (i \in 1..Len(s) /\ a[i] = s[i]) \/ (i = Len(s) + 1 /\ a[i] = m)
    BY ExtendsOld
  <1>2. (j \in 1..Len(s) /\ a[j] = s[j]) \/ (j = Len(s) + 1 /\ a[j] = m)
    BY ExtendsOld
  <1>3. j \in 1..Len(s) /\ a[j] = s[j]
    BY <1>1, <1>2
  <1>4. CASE i \in 1..Len(s) /\ a[i] = s[i]
    <2>1. Ordered(s[j], s[i])
      BY <1>3, <1>4 DEF Sorted
    <2> QED
      BY <1>3, <1>4, <2>1
  <1>5. CASE a[i] = m
    BY <1>3, <1>5
  <1> QED
    BY <1>1, <1>4, <1>5

LEMMA ExtendsPrecedes ==
    ASSUME NEW a, NEW s, NEW m, Extends(a, s, m), Len(s) \in Nat, NEW r
    PROVE  /\ Precedes(s, r) /\ (\A j \in 1..Len(r) : Ordered(m, r[j])) => Precedes(a, r)
           /\ Precedes(r, s) /\ (\A j \in 1..Len(r) : Ordered(r[j], m)) => Precedes(r, a)
  <1>1. ASSUME NEW i \in 1..Len(a)
        PROVE  (i \in 1..Len(s) /\ a[i] = s[i]) \/ a[i] = m
    BY ExtendsOld
  <1>2. ASSUME Precedes(s, r), \A j \in 1..Len(r) : Ordered(m, r[j]),
               NEW i \in 1..Len(a), NEW j \in 1..Len(r)
        PROVE  Ordered(a[i], r[j])
    <2>1. CASE i \in 1..Len(s) /\ a[i] = s[i]
      BY <1>2, <2>1 DEF Precedes
    <2> QED
      BY <1>1, <1>2, <2>1
  <1>3. ASSUME Precedes(r, s), \A j \in 1..Len(r) : Ordered(r[j], m),
               NEW i \in 1..Len(a), NEW j \in 1..Len(r)
        PROVE  Ordered(r[j], a[i])
    <2>1. CASE i \in 1..Len(s) /\ a[i] = s[i]
      BY <1>3, <2>1 DEF Precedes
    <2> QED
      BY <1>1, <1>3, <2>1
  <1> QED
    BY <1>2, <1>3 DEF Precedes

LEMMA InsertedSorted ==
    ASSUME NEW a, NEW s, NEW m, NEW k, Inserted(a, s, m, k), Len(s) \in Nat, Sorted(s),
           \A i \in 1..k : Ordered(s[i], m), \A i \in (k + 1)..Len(s) : Ordered(m, s[i])
    PROVE  Sorted(a)
  <1> SUFFICES ASSUME NEW i \in 1..Len(a), NEW j \in 1..Len(a), j < i PROVE Ordered(a[j], a[i])
    BY DEF Sorted
  <1>0. k \in Nat
    BY InsertedOld
  <1>1. \/ i <= k /\ i \in 1..Len(s) /\ a[i] = s[i]
        \/ i = k + 1 /\ a[i] = m
        \/ \E l \in (k + 1)..Len(s) : i = l + 1 /\ l \in 1..Len(s) /\ a[i] = s[l]
    BY InsertedOld
  <1>2. \/ j <= k /\ j \in 1..Len(s) /\ a[j] = s[j]
        \/ j = k + 1 /\ a[j] = m
        \/ \E l \in (k + 1)..Len(s) : j = l + 1 /\ l \in 1..Len(s) /\ a[j] = s[l]
    BY InsertedOld
  <1>3. CASE i <= k /\ i \in 1..Len(s) /\ a[i] = s[i]
    <2>1. j \in 1..Len(s) /\ a[j] = s[j]
      BY <1>0, <1>2, <1>3
    <2>2. Ordered(s[j], s[i])
      BY <1>3, <2>1 DEF Sorted
    <2> QED
      BY <1>3, <2>1, <2>2
  <1>4. CASE i = k + 1 /\ a[i] = m
    <2>1. j \in 1..k /\ a[j] = s[j]
      BY <1>0, <1>2, <1>4
    <2> QED
      BY <1>4, <2>1
  <1>5. ASSUME NEW l \in (k + 1)..Len(s), i = l + 1, l \in 1..Len(s), a[i] = s[l]
        PROVE  Ordered(a[j], a[i])
    <2>1. CASE j <= k /\ j \in 1..Len(s) /\ a[j] = s[j]
      <3>1. j < l
        BY <1>0, <1>5, <2>1
      <3>2. Ordered(s[j], s[l])
        BY <1>5, <2>1, <3>1 DEF Sorted
      <3> QED
        BY <1>5, <2>1, <3>2
    <2>2. CASE a[j] = m
      BY <1>5, <2>2
    <2>3. ASSUME NEW o \in (k + 1)..Len(s), j = o + 1, o \in 1..Len(s), a[j] = s[o]
          PROVE  Ordered(a[j], a[i])
      <3>1. o < l
        BY <1>0, <1>5, <2>3
      <3>2. Ordered(s[o], s[l])
        BY <1>5, <2>3, <3>1 DEF Sorted
      <3> QED
        BY <1>5, <2>3, <3>2
    <2> QED
      BY <1>2, <2>1, <2>2, <2>3
  <1> QED
    BY <1>1, <1>3, <1>4, <1>5

LEMMA InsertedPrecedes ==
    ASSUME NEW a, NEW s, NEW m, NEW k, Inserted(a, s, m, k), Len(s) \in Nat, NEW r,
           Precedes(r, s), \A j \in 1..Len(r) : Ordered(r[j], m)
    PROVE  Precedes(r, a)
  <1> SUFFICES ASSUME NEW j \in 1..Len(r), NEW i \in 1..Len(a) PROVE Ordered(r[j], a[i])
    BY DEF Precedes
  <1>1. a[i] = m \/ \E l \in 1..Len(s) : a[i] = s[l]
    BY InsertedOld
  <1>2. ASSUME NEW l \in 1..Len(s), a[i] = s[l] PROVE Ordered(r[j], a[i])
    <2>1. Ordered(r[j], s[l])
      BY DEF Precedes
    <2> QED
      BY <1>2, <2>1
  <1> QED
    BY <1>1, <1>2

\* The ages of messages: nothing is younger than the last post or the time.
LEMMA AgeWithin ==
    ASSUME NEW a, NEW s, Within(a, s), UNCHANGED <<posts, now>>
    PROVE  (Past(s) => Past(a)') /\ (Delayed(s) => Delayed(a)')
  <1>1. ASSUME Past(s), NEW i \in 1..Len(a) PROVE a[i].id <= posts /\ (a[i].timed => a[i].at <= now)
    <2>1. PICK j \in 1..Len(s) : a[i] = s[j]
      BY DEF Within
    <2> QED
      BY <1>1, <2>1 DEF Past
  <1>2. ASSUME Delayed(s), NEW i \in 1..Len(a) PROVE a[i].id <= posts /\ a[i].timed
    <2>1. PICK j \in 1..Len(s) : a[i] = s[j]
      BY DEF Within
    <2> QED
      BY <1>2, <2>1 DEF Delayed
  <1> QED
    BY <1>1, <1>2 DEF Past, Delayed

\* What was dispatched, what is due and what is delayed stay what they are.
LEMMA OrderSame ==
    ASSUME TypeOK, TypeOK', NEW u \in Thread, OrderOf(u), AgeOf(u), posts' >= posts, now' >= now,
           msgq'[u] = msgq[u], dmsgq'[u] = dmsgq[u], dispatched'[u] = dispatched[u]
    PROVE  OrderOf(u)' /\ AgeOf(u)'
  <1>1. OrderOf(u)'
    BY DEF OrderOf, Sorted, Precedes
  <1>2. posts \in Nat /\ posts' \in Nat /\ now \in Nat /\ now' \in Nat
    BY ThreadAssumption DEF TypeOK
  <1>3. ASSUME NEW m \in PostedMessage PROVE m.id \in Nat /\ m.at \in Nat
    BY <1>3, ThreadAssumption DEF PostedMessage
  <1>4. ASSUME NEW m \in PostedMessage
        PROVE  (m.id <= posts => m.id <= posts') /\ (m.at <= now => m.at <= now')
    BY <1>2, <1>3
  <1>5. Past(dispatched[u])'
    <2> SUFFICES ASSUME NEW i \in 1..Len(dispatched[u])
                 PROVE  /\ dispatched[u][i].id <= posts'
                        /\ dispatched[u][i].timed => dispatched[u][i].at <= now'
      BY DEF Past
    <2>1. dispatched[u][i] \in PostedMessage
      BY QueuesNow
    <2> QED
      BY <1>4, <2>1 DEF AgeOf, Past
  <1>6. Past(msgq[u])'
    <2> SUFFICES ASSUME NEW i \in 1..Len(msgq[u])
                 PROVE  /\ msgq[u][i].id <= posts'
                        /\ msgq[u][i].timed => msgq[u][i].at <= now'
      BY DEF Past
    <2>1. msgq[u][i] \in PostedMessage
      BY QueuesNow
    <2> QED
      BY <1>4, <2>1 DEF AgeOf, Past
  <1>7. Delayed(dmsgq[u])'
    <2> SUFFICES ASSUME NEW i \in 1..Len(dmsgq[u])
                 PROVE  dmsgq[u][i].id <= posts' /\ dmsgq[u][i].timed
      BY DEF Delayed
    <2>1. dmsgq[u][i] \in PostedMessage
      BY QueuesNow
    <2> QED
      BY <1>4, <2>1 DEF AgeOf, Delayed
  <1> QED
    BY <1>1, <1>5, <1>6, <1>7 DEF AgeOf

\* Clear takes messages out.
LEMMA OrderCleared ==
    ASSUME TypeOK, NEW v \in Thread, NEW hs, Cleared(v, hs), OrderOf(v), AgeOf(v),
           UNCHANGED <<posts, now, dispatched>>
    PROVE  OrderOf(v)' /\ AgeOf(v)'
  <1>1. PICK a, b, s, r, d : /\ a = msgq'[v] /\ b = dmsgq'[v] /\ s = msgq[v] /\ r = dmsgq[v]
                             /\ d = dispatched[v] /\ d = dispatched'[v]
    OBVIOUS
  <1>2. LeftOf(a, s, hs) /\ LeftOf(b, r, hs)
    BY <1>1 DEF Cleared
  <1>3. /\ Sorted(d) /\ Sorted(s) /\ Sorted(r) /\ Precedes(d, s) /\ Precedes(d, r) /\ Precedes(s, r)
        /\ Past(d) /\ Past(s) /\ Delayed(r)
    BY <1>1 DEF OrderOf, AgeOf
  <1>4. Sorted(a) /\ Sorted(b) /\ Within(a, s) /\ Within(b, r) /\ Within(d, d)
    BY <1>2, <1>3, LeftSorted, WithinItself
  <1>5. Precedes(d, a) /\ Precedes(d, b) /\ Precedes(a, b)
    BY <1>3, <1>4, PrecedesWithin
  <1>6. Past(d)' /\ Past(a)' /\ Delayed(b)'
    BY <1>3, <1>4, AgeWithin
  <1>7. OrderOf(v)'
    BY <1>1, <1>3, <1>4, <1>5 DEF OrderOf, Sorted, Precedes
  <1>8. AgeOf(v)'
    BY <1>1, <1>6 DEF AgeOf, Past, Delayed
  <1> QED
    BY <1>7, <1>8

\* A new message is younger than all others, and what is due already goes first.
LEMMA NewLast ==
    ASSUME NEW s, Len(s) \in Nat, \A i \in 1..Len(s) : s[i] \in PostedMessage, Past(s),
           NEW m \in PostedMessage, m.id = posts + 1, posts \in Nat, now \in Nat,
           m.timed => m.put = now
    PROVE  \A i \in 1..Len(s) : Ordered(s[i], m)
  <1> SUFFICES ASSUME NEW i \in 1..Len(s) PROVE Ordered(s[i], m)
    OBVIOUS
  <1>1. PICK p \in PostedMessage : p = s[i]
    OBVIOUS
  <1>2. p.id \in Nat /\ p.at \in Nat /\ m.id \in Nat /\ m.at \in Nat
    BY ThreadAssumption DEF PostedMessage
  <1>3. p.id <= posts /\ (p.timed => p.at <= now)
    BY <1>1 DEF Past
  <1>4. p.id < m.id
    BY <1>2, <1>3
  <1>5. p.timed /\ m.timed => p.at <= m.put
    BY <1>3
  <1> QED
    BY <1>1, <1>4, <1>5 DEF Ordered, DueFirst

LEMMA NowTypes ==
    ASSUME TypeOK
    PROVE  posts \in Nat /\ now \in Nat
  BY ThreadAssumption DEF TypeOK

\* The message is put after the others that are not delayed.
LEMMA OrderPost ==
    ASSUME TypeOK, NEW v \in Thread, OrderOf(v), AgeOf(v), NEW m, NEW h, NewMessage(m, h, 0, FALSE),
           Extends(msgq'[v], msgq[v], m), posts' = posts + 1, UNCHANGED <<now, dispatched, dmsgq>>
    PROVE  OrderOf(v)' /\ AgeOf(v)'
  <1>1. PICK a, s, r, d : /\ a = msgq'[v] /\ s = msgq[v] /\ r = dmsgq[v] /\ r = dmsgq'[v]
                          /\ d = dispatched[v] /\ d = dispatched'[v]
    OBVIOUS
  <1>2. /\ m \in PostedMessage /\ m.id = posts + 1 /\ m.timed = FALSE /\ Extends(a, s, m)
    BY <1>1 DEF NewMessage
  <1>3. /\ Len(s) \in Nat /\ \A i \in 1..Len(s) : s[i] \in PostedMessage
        /\ Len(r) \in Nat /\ \A i \in 1..Len(r) : r[i] \in PostedMessage
        /\ Len(d) \in Nat /\ \A i \in 1..Len(d) : d[i] \in PostedMessage
    BY <1>1, QueuesNow
  <1>4. /\ Sorted(d) /\ Sorted(s) /\ Sorted(r) /\ Precedes(d, s) /\ Precedes(d, r) /\ Precedes(s, r)
        /\ Past(d) /\ Past(s) /\ Delayed(r)
    BY <1>1 DEF OrderOf, AgeOf
  <1>5. posts \in Nat /\ now \in Nat
    BY NowTypes
  <1>6. (\A i \in 1..Len(s) : Ordered(s[i], m)) /\ (\A i \in 1..Len(d) : Ordered(d[i], m))
    BY <1>2, <1>3, <1>4, <1>5, NewLast
  <1>7. \A j \in 1..Len(r) : Ordered(m, r[j])
    BY <1>2, <1>4 DEF Delayed, Ordered
  <1>8. Sorted(a)
    BY <1>2, <1>3, <1>4, <1>6, ExtendsSorted
  <1>9. Precedes(d, a) /\ Precedes(a, r)
    BY <1>2, <1>3, <1>4, <1>6, <1>7, ExtendsPrecedes
  <1>10. OrderOf(v)'
    BY <1>1, <1>4, <1>8, <1>9 DEF OrderOf, Sorted, Precedes
  <1>11. ASSUME NEW p \in PostedMessage, p.id <= posts PROVE p.id <= posts'
    <2>1. p.id \in Nat
      BY ThreadAssumption DEF PostedMessage
    <2> QED
      BY <1>5, <1>11, <2>1
  <1>12. Past(d)' /\ Delayed(r)'
    BY <1>3, <1>4, <1>11 DEF Past, Delayed
  <1>13. Past(a)'
    <2> SUFFICES ASSUME NEW i \in 1..Len(a) PROVE a[i].id <= posts' /\ (a[i].timed => a[i].at <= now)
      BY DEF Past
    <2>1. (i \in 1..Len(s) /\ a[i] = s[i]) \/ (i = Len(s) + 1 /\ a[i] = m)
      BY <1>2, <1>3, ExtendsOld
    <2>2. CASE i \in 1..Len(s) /\ a[i] = s[i]
      BY <1>3, <1>4, <1>11, <2>2 DEF Past
    <2>3. CASE a[i] = m
      BY <1>2, <1>5, <2>3
    <2> QED
      BY <2>1, <2>2, <2>3
  <1>14. AgeOf(v)'
    BY <1>1, <1>12, <1>13 DEF AgeOf, Past, Delayed
  <1> QED
    BY <1>10, <1>14

\* DelayedMessage::operator< agrees with time before the clock wraps.
LEMMA BeforeTimes ==
    ASSUME MaxTime < ClockMod \div 2, NEW p \in PostedMessage, NEW m \in PostedMessage
    PROVE  /\ p.at \in Nat /\ m.at \in Nat /\ p.id \in Nat /\ m.id \in Nat
           /\ Before(p, m) <=> Earlier(p, m)
  <1>1. /\ p.at \in Nat /\ m.at \in Nat /\ p.id \in Nat /\ m.id \in Nat
        /\ p.at <= MaxTime /\ m.at <= MaxTime
    BY ThreadAssumption DEF PostedMessage
  <1>2. p.at < ClockMod \div 2 /\ m.at < ClockMod \div 2
    <2>1. ClockMod \div 2 \in Nat /\ MaxTime \in Nat
      BY ThreadAssumption
    <2> QED
      BY <1>1, <2>1
  <1>3. Clock(p.at) = p.at /\ Clock(m.at) = m.at
    BY <1>1, <1>2, NoWrapTimes
  <1> QED
    BY <1>1, <1>3 DEF Before, Earlier

LEMMA OrderInserted ==
    ASSUME TypeOK, MaxTime < ClockMod \div 2, NEW v \in Thread, OrderOf(v), AgeOf(v), NEW m, NEW h, NEW k,
           NEW at, NewMessage(m, h, at, TRUE), Inserted(dmsgq'[v], dmsgq[v], m, k),
           \A i \in 1..k : Before(dmsgq[v][i], m),
           \A i \in (k + 1)..Len(dmsgq[v]) : ~Before(dmsgq[v][i], m),
           posts' = posts + 1, UNCHANGED <<now, dispatched, msgq>>
    PROVE  OrderOf(v)' /\ AgeOf(v)'
  <1>1. PICK b, s, r, d : /\ b = dmsgq'[v] /\ r = dmsgq[v] /\ s = msgq[v] /\ s = msgq'[v]
                          /\ d = dispatched[v] /\ d = dispatched'[v]
    OBVIOUS
  <1>2. /\ m \in PostedMessage /\ m.id = posts + 1 /\ m.timed = TRUE /\ m.put = now /\ Inserted(b, r, m, k)
        /\ \A i \in 1..k : Before(r[i], m)
        /\ \A i \in (k + 1)..Len(r) : ~Before(r[i], m)
    BY <1>1 DEF NewMessage
  <1>3. /\ Len(s) \in Nat /\ \A i \in 1..Len(s) : s[i] \in PostedMessage
        /\ Len(r) \in Nat /\ \A i \in 1..Len(r) : r[i] \in PostedMessage
        /\ Len(d) \in Nat /\ \A i \in 1..Len(d) : d[i] \in PostedMessage
    BY <1>1, QueuesNow
  <1>4. /\ Sorted(d) /\ Sorted(s) /\ Sorted(r) /\ Precedes(d, s) /\ Precedes(d, r) /\ Precedes(s, r)
        /\ Past(d) /\ Past(s) /\ Delayed(r)
    BY <1>1 DEF OrderOf, AgeOf
  <1>5. posts \in Nat /\ now \in Nat
    BY NowTypes
  <1>6. (\A i \in 1..Len(s) : Ordered(s[i], m)) /\ (\A i \in 1..Len(d) : Ordered(d[i], m))
    BY <1>2, <1>3, <1>4, <1>5, NewLast
  <1>7. k \in 0..Len(r)
    BY <1>2 DEF Inserted
  <1>8. ASSUME NEW i \in 1..k PROVE Ordered(r[i], m)
    <2>1. i \in 1..Len(r)
      BY <1>3, <1>7
    <2>2. Earlier(r[i], m)
      BY <1>2, <1>3, <2>1, BeforeTimes
    <2> QED
      BY <1>2, <2>2 DEF Ordered, Earlier, DueFirst
  <1>9. ASSUME NEW i \in (k + 1)..Len(r) PROVE Ordered(m, r[i])
    <2>1. i \in 1..Len(r)
      BY <1>3, <1>7
    <2>2. PICK p \in PostedMessage : p = r[i]
      BY <1>3, <2>1
    <2>3. /\ p.at \in Nat /\ m.at \in Nat /\ p.id \in Nat /\ m.id \in Nat
          /\ ~Earlier(p, m)
      BY <1>2, <2>2, BeforeTimes
    <2>4. p.id <= posts /\ p.timed
      BY <1>4, <2>1, <2>2 DEF Delayed
    <2>5. p.id < m.id
      BY <1>2, <1>5, <2>3, <2>4
    <2>6. m.at < p.at
      BY <2>3, <2>5 DEF Earlier
    <2> QED
      BY <2>2, <2>4, <2>6 DEF Ordered, DueFirst
  <1>10. Sorted(b)
    BY <1>2, <1>3, <1>4, <1>8, <1>9, InsertedSorted
  <1>11. Precedes(d, b) /\ Precedes(s, b)
    BY <1>2, <1>3, <1>4, <1>6, InsertedPrecedes
  <1>12. OrderOf(v)'
    BY <1>1, <1>4, <1>10, <1>11 DEF OrderOf, Sorted, Precedes
  <1>13. ASSUME NEW p \in PostedMessage, p.id <= posts PROVE p.id <= posts'
    <2>1. p.id \in Nat
      BY ThreadAssumption DEF PostedMessage
    <2> QED
      BY <1>5, <1>13, <2>1
  <1>14. Past(d)' /\ Past(s)'
    BY <1>3, <1>4, <1>13 DEF Past
  <1>15. Delayed(b)'
    <2> SUFFICES ASSUME NEW i \in 1..Len(b) PROVE b[i].id <= posts' /\ b[i].timed
      BY DEF Delayed
    <2>1. b[i] = m \/ \E j \in 1..Len(r) : b[i] = r[j]
      BY <1>2, <1>3, InsertedOld
    <2>2. CASE b[i] = m
      BY <1>2, <1>5, <2>2
    <2>3. ASSUME NEW j \in 1..Len(r), b[i] = r[j] PROVE b[i].id <= posts' /\ b[i].timed
      BY <1>3, <1>4, <1>13, <2>3 DEF Delayed
    <2> QED
      BY <2>1, <2>2, <2>3
  <1>16. AgeOf(v)'
    BY <1>1, <1>14, <1>15 DEF AgeOf, Past, Delayed
  <1> QED
    BY <1>12, <1>16

\* The messages that become due go behind those that are, and the first of all
\* behind those that were dispatched.
LEMMA OrderPull ==
    ASSUME TypeInv, MaxTime < ClockMod \div 2, NoWrap, NEW t \in Thread, OrderOf(t), AgeOf(t),
           NEW n, NEW a, NEW m, Dispatches(t, n, a, m), UNCHANGED <<posts, now>>
    PROVE  OrderOf(t)' /\ AgeOf(t)'
  <1>0. TypeOK
    BY DEF TypeInv
  <1>1. PICK e, q, b, s, r, d : /\ e = dispatched'[t] /\ q = msgq'[t] /\ b = dmsgq'[t]
                                /\ s = msgq[t] /\ r = dmsgq[t] /\ d = dispatched[t]
    OBVIOUS
  <1>2. /\ Len(s) \in Nat /\ \A i \in 1..Len(s) : s[i] \in PostedMessage
        /\ Len(r) \in Nat /\ \A i \in 1..Len(r) : r[i] \in PostedMessage
        /\ Len(d) \in Nat /\ \A i \in 1..Len(d) : d[i] \in PostedMessage
    BY <1>0, <1>1, QueuesNow
  <1>3. /\ n \in Nat /\ n <= Len(r) /\ Len(a) \in Nat \ {0} /\ m = a[1] /\ m \in PostedMessage
        /\ Combined(a, s, r, n) /\ Dropped(q, a, 1) /\ Dropped(b, r, n) /\ Extends(e, d, m)
        /\ \A i \in 1..n : ~TimeIsLater(loop[t].cur, r[i].at)
    BY <1>1, <1>2 DEF Dispatches, Due
  <1>4. /\ Sorted(d) /\ Sorted(s) /\ Sorted(r) /\ Precedes(d, s) /\ Precedes(d, r) /\ Precedes(s, r)
        /\ Past(d) /\ Past(s) /\ Delayed(r)
    BY <1>1 DEF OrderOf, AgeOf
  <1>5. Sorted(a)
    BY <1>2, <1>3, <1>4, CombinedSorted
  <1>6. Precedes(d, a) /\ Precedes(a, b)
    BY <1>2, <1>3, <1>4, CombinedPrecedes, CombinedRest
  <1>7. Sorted(b) /\ Within(b, r)
    BY <1>2, <1>3, <1>4, DroppedSorted
  <1>8. Sorted(q) /\ Within(q, a) /\ \A i \in 1..Len(q) : 1 + i \in 1..Len(a) /\ q[i] = a[1 + i]
    BY <1>3, <1>5, DroppedSorted
  <1>9. 1 \in 1..Len(a)
    BY <1>3
  <1>10. \A i \in 1..Len(q) : Ordered(m, q[i])
    <2> SUFFICES ASSUME NEW i \in 1..Len(q) PROVE Ordered(m, q[i])
      OBVIOUS
    <2>1. 1 + i \in 1..Len(a) /\ q[i] = a[1 + i] /\ 1 < 1 + i
      BY <1>3, <1>8
    <2>2. Ordered(a[1], a[1 + i])
      BY <1>5, <1>9, <2>1 DEF Sorted
    <2> QED
      BY <1>3, <2>1, <2>2
  <1>11. \A i \in 1..Len(d) : Ordered(d[i], m)
    BY <1>3, <1>6, <1>9 DEF Precedes
  <1>12. \A i \in 1..Len(b) : Ordered(m, b[i])
    BY <1>3, <1>6, <1>9 DEF Precedes
  <1>13. Within(d, d) /\ Within(b, b)
    BY WithinItself
  <1>14. Precedes(q, b) /\ Precedes(d, q) /\ Precedes(d, b)
    BY <1>4, <1>6, <1>7, <1>8, <1>13, PrecedesWithin
  <1>15. Sorted(e)
    BY <1>2, <1>3, <1>4, <1>11, ExtendsSorted
  <1>16. Precedes(e, q) /\ Precedes(e, b)
    BY <1>2, <1>3, <1>10, <1>12, <1>14, ExtendsPrecedes
  <1>17. OrderOf(t)'
    BY <1>1, <1>7, <1>8, <1>14, <1>15, <1>16 DEF OrderOf, Sorted, Precedes
  <1>18. Past(a)
    <2> SUFFICES ASSUME NEW i \in 1..Len(a) PROVE a[i].id <= posts /\ (a[i].timed => a[i].at <= now)
      BY DEF Past
    <2>1. \/ i \in 1..Len(s) /\ a[i] = s[i]
          \/ \E j \in 1..n : i = Len(s) + j /\ a[i] = r[j]
      BY <1>2, <1>3, CombinedOld
    <2>2. CASE i \in 1..Len(s) /\ a[i] = s[i]
      BY <1>4, <2>2 DEF Past
    <2>3. ASSUME NEW j \in 1..n, a[i] = r[j] PROVE a[i].id <= posts /\ (a[i].timed => a[i].at <= now)
      <3>1. j \in 1..Len(r)
        BY <1>2, <1>3
      <3>2. r[j].id <= posts /\ r[j] \in PostedMessage
        BY <1>2, <1>4, <3>1 DEF Delayed
      <3>3. PICK p, c, H : p = r[j].at /\ c = loop[t].cur /\ H = ClockMod \div 2
        OBVIOUS
      <3>4. p \in Nat /\ p <= MaxTime /\ H \in Nat /\ MaxTime \in Nat
        BY <3>2, <3>3, ThreadAssumption DEF PostedMessage
      <3>5. c \in Nat /\ c <= now /\ now \in Nat /\ now < H
        BY <3>3 DEF TypeInv, TypeOK, SetsOK, NoWrap
      <3>6. ~TimeIsLater(c, p)
        BY <1>3, <3>3
      <3>7. MaxTime < H
        BY <3>3
      <3>8. p < H /\ c < H
        BY <3>4, <3>5, <3>7
      <3>9. p < ClockMod \div 2 /\ c < ClockMod \div 2
        BY <3>3, <3>8
      <3>10. ~(p > c)
        BY <3>4, <3>5, <3>6, <3>9, NoWrapTimes
      <3>11. p <= now
        BY <3>4, <3>5, <3>10
      <3> QED
        BY <2>3, <3>2, <3>3, <3>11
    <2> QED
      BY <2>1, <2>2, <2>3
  <1>19. Past(q)' /\ Delayed(b)'
    BY <1>4, <1>7, <1>8, <1>18, AgeWithin
  <1>20. Past(e)'
    <2> SUFFICES ASSUME NEW i \in 1..Len(e) PROVE e[i].id <= posts /\ (e[i].timed => e[i].at <= now)
      BY DEF Past
    <2>1. (i \in 1..Len(d) /\ e[i] = d[i]) \/ (i = Len(d) + 1 /\ e[i] = m)
      BY <1>2, <1>3, ExtendsOld
    <2> QED
      BY <1>3, <1>4, <1>9, <1>18, <2>1 DEF Past
  <1>21. AgeOf(t)'
    BY <1>1, <1>19, <1>20 DEF AgeOf, Past, Delayed
  <1> QED
    BY <1>17, <1>21

\* Post puts a message behind those that are due; ~MessageHandler takes some out.
LEMMA OrderCalls ==
    ASSUME TypeInv, TypeInv', MaxTime < ClockMod \div 2, NEW u \in Thread, OrderOf(u), AgeOf(u),
           NEW t \in Thread, NEW h \in Handler, Post(t, h) \/ DestroyHandler(t, h)
    PROVE  OrderOf(u)' /\ AgeOf(u)'
  <1>0. TypeOK /\ TypeOK' /\ posts \in Nat /\ now \in Nat
    BY NowTypes DEF TypeInv
  <1>1. CASE Post(t, h)
    <2>1. /\ Posted(h) /\ UNCHANGED <<dmsgq, posting>>
          /\ \/ UNCHANGED <<msgq, signal>>
             \/ /\ Wakes(Home[h]) /\ msgq' \in [Thread -> Seq(PostedMessage)]
                /\ \A v \in Thread \ {Home[h]} : msgq'[v] = msgq[v]
                /\ \E m : /\ NewMessage(m, h, 0, FALSE)
                          /\ Extends(msgq'[Home[h]], msgq[Home[h]], m)
      BY <1>1, PostEffect
    <2>2. posts' = posts + 1 /\ UNCHANGED <<now, dispatched, dmsgq>> /\ posts' >= posts /\ now' >= now
      BY <1>0, <2>1 DEF Posted, history
    <2>3. CASE msgq'[u] = msgq[u]
      BY <1>0, <2>2, <2>3, OrderSame
    <2>4. CASE u = Home[h] /\ \E m : NewMessage(m, h, 0, FALSE) /\ Extends(msgq'[u], msgq[u], m)
      BY <1>0, <2>2, <2>4, OrderPost
    <2> QED
      BY <2>1, <2>3, <2>4
  <1>2. CASE DestroyHandler(t, h)
    <2>1. Cleared(t, {h}) /\ UNCHANGED <<posts, now, dispatched>>
      BY <1>2, DestroyEffect DEF history
    <2>2. CASE u = t
      BY <1>0, <2>1, <2>2, OrderCleared
    <2>3. CASE u # t
      <3>1. msgq'[u] = msgq[u] /\ dmsgq'[u] = dmsgq[u] /\ posts' >= posts /\ now' >= now
        BY <1>0, <2>1, <2>3 DEF Cleared
      <3> QED
        BY <1>0, <2>1, <3>1, OrderSame
    <2> QED
      BY <2>2, <2>3
  <1> QED
    BY <1>1, <1>2

\* DoDelayPost puts a message where its time belongs.
LEMMA OrderDelays ==
    ASSUME TypeInv, TypeInv', MaxTime < ClockMod \div 2, NEW u \in Thread, OrderOf(u), AgeOf(u),
           NEW t \in Thread, DoDelayPost(t)
    PROVE  OrderOf(u)' /\ AgeOf(u)'
  <1>0. TypeOK /\ TypeOK' /\ posts \in Nat /\ now \in Nat
    BY NowTypes DEF TypeInv
  <1>1. PICK h \in Handler :
              /\ Posted(h) /\ UNCHANGED msgq
              /\ \A v \in Thread \ {Home[h]} : dmsgq'[v] = dmsgq[v]
              /\ \E m, k, at : /\ NewMessage(m, h, at, TRUE)
                               /\ Inserted(dmsgq'[Home[h]], dmsgq[Home[h]], m, k)
                               /\ \A i \in 1..k : Before(dmsgq[Home[h]][i], m)
                               /\ \A i \in (k + 1)..Len(dmsgq[Home[h]]) : ~Before(dmsgq[Home[h]][i], m)
    BY DoDelayPostEffect
  <1>2. posts' = posts + 1 /\ UNCHANGED <<now, dispatched, msgq>> /\ posts' >= posts /\ now' >= now
    BY <1>0, <1>1 DEF Posted, history
  <1>3. CASE u # Home[h]
    BY <1>0, <1>1, <1>2, <1>3, OrderSame
  <1>4. CASE u = Home[h]
    <2>1. PICK m, k, at : /\ NewMessage(m, h, at, TRUE) /\ Inserted(dmsgq'[u], dmsgq[u], m, k)
                          /\ \A i \in 1..k : Before(dmsgq[u][i], m)
                          /\ \A i \in (k + 1)..Len(dmsgq[u]) : ~Before(dmsgq[u][i], m)
      BY <1>1, <1>4
    <2> QED
      BY <1>0, <1>2, <2>1, OrderInserted
  <1> QED
    BY <1>3, <1>4

\* Get takes the messages that are due; ~Thread takes all out.
LEMMA OrderTakes ==
    ASSUME TypeInv, TypeInv', MaxTime < ClockMod \div 2, NoWrap, NEW u \in Thread, OrderOf(u), AgeOf(u),
           NEW t \in Thread, Pull(t) \/ JoinReturns(t)
    PROVE  OrderOf(u)' /\ AgeOf(u)'
  <1>0. TypeOK /\ TypeOK' /\ posts \in Nat /\ now \in Nat
    BY NowTypes DEF TypeInv
  <1>1. CASE Pull(t)
    <2>1. UNCHANGED <<posts, now>> /\ posts' >= posts /\ now' >= now
      BY <1>0, <1>1, PullEffect
    <2>2. UNCHANGED <<msgq, dmsgq, dispatched>> \/ \E n, a, m : Dispatches(t, n, a, m)
      BY <1>1, PullEffect
    <2>3. CASE UNCHANGED <<msgq, dmsgq, dispatched>>
      BY <1>0, <2>1, <2>3, OrderSame
    <2>4. ASSUME NEW n, NEW a, NEW m, Dispatches(t, n, a, m) PROVE OrderOf(u)' /\ AgeOf(u)'
      <3>1. CASE u = t
        BY <2>1, <2>4, <3>1, OrderPull
      <3>2. CASE u # t
        <4>1. msgq'[u] = msgq[u] /\ dmsgq'[u] = dmsgq[u] /\ dispatched'[u] = dispatched[u]
          BY <2>4, <3>2 DEF Dispatches
        <4> QED
          BY <1>0, <2>1, <4>1, OrderSame
      <3> QED
        BY <3>1, <3>2
    <2> QED
      BY <2>2, <2>3, <2>4
  <1>2. CASE JoinReturns(t)
    <2>1. PICK v \in Thread : Cleared(v, Handler)
      BY <1>2, JoinReturnsEffect
    <2>2. UNCHANGED <<posts, now, dispatched>> /\ posts' >= posts /\ now' >= now
      BY <1>0, <1>2, JoinReturnsEffect DEF history
    <2>3. CASE u = v
      BY <1>0, <2>1, <2>2, <2>3, OrderCleared
    <2>4. CASE u # v
      <3>1. msgq'[u] = msgq[u] /\ dmsgq'[u] = dmsgq[u]
        BY <2>1, <2>4 DEF Cleared
      <3> QED
        BY <1>0, <2>2, <3>1, OrderSame
    <2> QED
      BY <2>3, <2>4
  <1> QED
    BY <1>1, <1>2

\* Every step keeps the order.
LEMMA OrderStep ==
    ASSUME TypeInv, OrderInv, TypeInv', MaxTime < ClockMod \div 2, [Next]_vars
    PROVE  OrderInv'
  <1>0. TypeOK /\ TypeOK' /\ posts \in Nat /\ now \in Nat
    BY NowTypes DEF TypeInv
  <1>1. now' >= now
    BY <1>0, LaterStep
  <1> SUFFICES ASSUME NoWrap', NEW u \in Thread PROVE OrderOf(u)' /\ AgeOf(u)'
    BY DEF OrderInv
  <1>2. NoWrap
    <2>1. now \in Nat /\ now' \in Nat /\ ClockMod \div 2 \in Nat
      BY <1>0, ThreadAssumption DEF TypeOK
    <2> QED
      BY <1>1, <2>1 DEF NoWrap
  <1>3. OrderOf(u) /\ AgeOf(u)
    BY <1>2 DEF OrderInv
  <1>4. CASE UNCHANGED <<posts, msgq, dmsgq, dispatched>>
    BY <1>0, <1>1, <1>3, <1>4, OrderSame
  <1>5. ASSUME NEW t \in Thread, NEW h \in Handler, Send(t, h) PROVE UNCHANGED <<posts, msgq, dmsgq, dispatched>>
    BY <1>5 DEF Send, queues
  <1>6. ASSUME NEW t \in Thread, NEW h \in Handler, Post(t, h) \/ DestroyHandler(t, h)
        PROVE  OrderOf(u)' /\ AgeOf(u)'
    BY <1>3, <1>6, OrderCalls
  <1>7. ASSUME NEW t \in Thread, NEW h \in Handler, NEW delay \in 0..(MaxTime - now),
               PostDelayed(t, h, delay)
        PROVE  OrderOf(u)' /\ AgeOf(u)'
    <2>1. posts' \in {posts, posts + 1} /\ UNCHANGED <<msgq, dmsgq, dispatched>>
      BY <1>7, PostDelayedEffect DEF history
    <2>2. posts' >= posts
      BY <1>0, <2>1
    <2> QED
      BY <1>0, <1>1, <1>3, <2>1, <2>2, OrderSame
  <1>14. ASSUME NEW t \in Thread, DoDelayPost(t) PROVE OrderOf(u)' /\ AgeOf(u)'
    BY <1>3, <1>14, OrderDelays
  <1>8. ASSUME NEW t \in Thread, NEW v \in Thread, Stop(t, v)
        PROVE  UNCHANGED <<posts, msgq, dmsgq, dispatched>>
    BY <1>8 DEF Stop, queues, history
  <1>9. ASSUME NEW t \in Thread, SendPush(t) \/ SendCheck(t) \/ ReceiveSend(t) \/ CallReturns(t)
        PROVE  UNCHANGED <<posts, msgq, dmsgq, dispatched>>
    BY <1>9 DEF SendPush, SendCheck, ReceiveSend, CallReturns, queues, history
  <1>10. ASSUME NEW t \in Thread, SendsDone(t) \/ PostReturns(t) \/ StopCheck(t)
         PROVE  UNCHANGED <<posts, msgq, dmsgq, dispatched>>
    BY <1>10 DEF SendsDone, PostReturns, StopCheck, queues, history
  <1>11. ASSUME NEW t \in Thread, WaitSignalled(t) \/ WaitTimeout(t)
         PROVE  UNCHANGED <<posts, msgq, dmsgq, dispatched>>
    BY <1>11 DEF WaitSignalled, WaitTimeout, queues, history
  <1>12. ASSUME NEW t \in Thread, Pull(t) \/ JoinReturns(t) PROVE OrderOf(u)' /\ AgeOf(u)'
    BY <1>2, <1>3, <1>12, OrderTakes
  <1>13. Tick \/ UNCHANGED vars => UNCHANGED <<posts, msgq, dmsgq, dispatched>>
    BY DEF Tick, vars, queues, history
  <1> QED
    BY <1>4, <1>5, <1>6, <1>7, <1>8, <1>9, <1>10, <1>11, <1>12, <1>13, <1>14, StepCases

LEMMA OrderInit == Init => OrderInv
  BY DEF Init, OrderInv, OrderOf, AgeOf, Sorted, Precedes, Past, Delayed

\* Posted messages are dispatched in the order of their posts; delayed ones never
\* early and in the order of their times, except that one which was due already
\* goes before an earlier one put in after it: the callers read the clock before
\* they take the lock.  As long as neither the time nor a delay has come to half
\* of the range of the clock.
THEOREM TimersOrdered ==
    ASSUME MaxTime < ClockMod \div 2
    PROVE  Spec => [](now < ClockMod \div 2 => TimerOrder)
  <1>1. TypeInv /\ OrderInv => (now < ClockMod \div 2 => TimerOrder)
    <2> SUFFICES ASSUME TypeInv, OrderInv, NoWrap, NEW t \in Thread, NEW i \in DOMAIN dispatched[t]
                 PROVE  /\ dispatched[t][i].timed => dispatched[t][i].at <= now
                        /\ \A j \in 1..(i - 1) :
                              dispatched[t][j].timed = dispatched[t][i].timed =>
                                 (IF dispatched[t][i].timed
                                  THEN DueFirst(dispatched[t][j], dispatched[t][i])
                                  ELSE dispatched[t][j].id < dispatched[t][i].id)
      BY DEF TimerOrder, NoWrap
    <2>1. PICK d : d = dispatched[t]
      OBVIOUS
    <2>2. TypeOK /\ Sorted(d) /\ Past(d)
      BY <2>1 DEF TypeInv, OrderInv, OrderOf, AgeOf
    <2>3. Len(d) \in Nat /\ DOMAIN d = 1..Len(d) /\ \A j \in 1..Len(d) : d[j] \in PostedMessage
      BY <2>1, <2>2, QueuesNow, SeqParts DEF TypeOK
    <2>4. i \in 1..Len(d)
      BY <2>1, <2>3
    <2>5. d[i].timed => d[i].at <= now
      BY <2>2, <2>4 DEF Past
    <2>6. ASSUME NEW j \in 1..(i - 1), d[j].timed = d[i].timed
          PROVE  IF d[i].timed THEN DueFirst(d[j], d[i]) ELSE d[j].id < d[i].id
      <3>1. j \in 1..Len(d) /\ j < i
        BY <2>3, <2>4
      <3>2. Ordered(d[j], d[i])
        BY <2>2, <2>4, <3>1 DEF Sorted
      <3> QED
        BY <2>3, <2>4, <2>6, <3>1, <3>2 DEF Ordered, PostedMessage
    <2> QED
      BY <2>1, <2>5, <2>6
  <1>2. TypeInv /\ OrderInv /\ TypeInv' /\ [Next]_vars => OrderInv'
    BY OrderStep
  <1> QED
    BY <1>1, <1>2, TypeInit, TypeStep, OrderInit, PTL DEF Spec

=============================================================================
