----------------------------- MODULE RtcThread -----------------------------
(***************************************************************************)
(* rtc::Thread and its MessageQueue, on which every call between the       *)
(* threads of the program rests: synchronous Send, Post and PostDelayed,   *)
(* Stop, and the Clear that a dying MessageHandler makes.                  *)
(*                                                                         *)
(* A thread executes Get in a loop; `loop' says where.  `stack' holds what *)
(* runs on top of it: handlers, and calls of Send that wait for an answer. *)
(* A Send that waits serves the calls that were sent to its own thread,    *)
(* but no posted message.  An application thread has no loop.              *)
(***************************************************************************)
EXTENDS Integers, Sequences, FiniteSets

CONSTANTS
    Thread,    \* all threads
    App,       \* those of the application, which run no message loop
    Handler,   \* message handlers
    Home,      \* the thread a handler gets its messages on
    MaxCalls,  \* bound: calls of Send
    MaxPosts,  \* bound: calls of Post and PostDelayed
    MaxOps,    \* bound: these, Stop and destructors together
    MaxTime,   \* bound: the time that a message may be delayed to
    ClockMod,  \* 2^32: Time() counts milliseconds modulo it
    MayStop,   \* threads that the application may stop
    MayDie     \* handlers that may be destroyed

ASSUME ThreadAssumption ==
    /\ App \subseteq Thread
    /\ Home \in [Handler -> Thread \ App]
    /\ MaxCalls \in Nat /\ MaxPosts \in Nat /\ MaxOps \in Nat /\ MaxTime \in Nat
    /\ ClockMod \in Nat \ {0, 1}
    /\ MayStop \subseteq Thread \ App
    /\ MayDie \subseteq Handler

Call == 1..MaxCalls

VARIABLES
    sendlist,  \* sendlist_ of a thread: calls, oldest first
    msgq,      \* msgq_ of a thread
    dmsgq,     \* dmsgq_ of a thread, in the order of its priority queue
    posting,   \* calls of PostDelayed that have yet to put their message into a queue
    signal,    \* the wakeup event of a thread's socket server is set
    fStop,     \* fStop_ of a thread
    loop,      \* Get: where it is, its msCurrent, its cmsDelayNext, when its Wait times out
    stack,     \* frames on top of Get, the innermost last
    ready,     \* calls whose ready flag is set
    calls,     \* calls of Send so far: who called and for whom
    posts,     \* number of posts that are complete
    now,       \* the time
    gone,      \* handlers that were destroyed
    destroyed, \* threads whose Thread object was destroyed
    \* history
    returned,  \* calls of Send that have returned
    dispatched \* messages dispatched by a thread, oldest first

queues == <<sendlist, msgq, dmsgq, posting>>
history == <<returned, dispatched>>
vars == <<queues, signal, fStop, loop, stack, ready, calls, posts, now, gone, destroyed, history>>

-----------------------------------------------------------------------------
(* Time *)

Clock(n) == n % ClockMod

\* TimeIsLater and TimeDiff: differences of 32 bits, the upper half negative
TimeDiff(later, earlier) == (Clock(later) - Clock(earlier)) % ClockMod

TimeIsLater(earlier, later) ==
    TimeDiff(later, earlier) > 0 /\ TimeDiff(later, earlier) < ClockMod \div 2

\* mutant: one millisecond more
TimeAfter_mut(elapsed) == now + elapsed + 1

TimeAfter(elapsed) == now + elapsed

kForever == -1

Listed(t) == {sendlist[t][i] : i \in DOMAIN sendlist[t]}

-----------------------------------------------------------------------------
(* Frames and positions *)

Frame == [kind: {"send", "call", "post", "join"}, id: Nat, of: Handler \cup Thread,
          pc: {"push", "check", "sends", "wait", "run", "join"}, waited: BOOLEAN]

NewFrame(kind, id, of, pc) ==
    [kind |-> kind, id |-> id, of |-> of, pc |-> pc, waited |-> FALSE]

Top(t) == stack[t][Len(stack[t])]

Position(t) == IF stack[t] = <<>> THEN loop[t].pc ELSE Top(t).pc

Push(t, f) == stack' = [stack EXCEPT ![t] = Append(@, f)]

Popped(t) == SubSeq(stack[t], 1, Len(stack[t]) - 1)

Pop(t) == stack' = [stack EXCEPT ![t] = Popped(t)]

\* the code of a handler or of the application runs and may call
Runs(t) == Position(t) = "run" /\ \A d \in posting : d.from # t

\* the innermost frame is a Send that waits, or Get
Goto(t, p) ==
    IF stack[t] = <<>>
    THEN loop' = [loop EXCEPT ![t].pc = p] /\ UNCHANGED stack
    ELSE stack' = [stack EXCEPT ![t][Len(stack[t])].pc = p] /\ UNCHANGED loop

\* mutant: only a thread that sleeps already is woken
WakeUp_mut(t) == signal' = [signal EXCEPT ![t] = @ \/ Position(t) = "wait"]

WakeUp(t) == signal' = [signal EXCEPT ![t] = TRUE]

PostsBegun == posts + Cardinality(posting)

MoreOps ==
    Len(calls) + PostsBegun + Cardinality(gone) + Cardinality({t \in Thread : fStop[t]}) < MaxOps

-----------------------------------------------------------------------------
(* Send *)

\* A Send to a stopped thread returns and calls nobody.  (A Send to the own
\* thread calls the handler directly and is part of what that thread runs.)
Send(t, h) ==
    /\ Runs(t)
    /\ Home[h] # t /\ h \notin gone
    /\ Home[h] \notin destroyed
    /\ Len(calls) < MaxCalls /\ MoreOps
    /\ LET c == Len(calls) + 1 IN
       /\ calls' = Append(calls, [from |-> t, to |-> h])
       /\ IF fStop[Home[h]]
          THEN returned' = returned \cup {c} /\ UNCHANGED stack
          ELSE Push(t, NewFrame("send", c, h, "push")) /\ UNCHANGED returned
    /\ UNCHANGED <<queues, signal, fStop, loop, ready, posts, now, gone, destroyed, dispatched>>

\* what follows the test of fStop_: the call is listed and its thread woken
SendPush(t) ==
    /\ Position(t) = "push"
    /\ LET u == Home[Top(t).of] IN
       /\ sendlist' = [sendlist EXCEPT ![u] = Append(@, Top(t).id)]
       /\ WakeUp(u)
    /\ Goto(t, "check")
    /\ UNCHANGED <<msgq, dmsgq, posting, fStop, ready, calls, posts, now, gone, destroyed, history>>

\* Send makes up for the wakeups that its wait has consumed.
WakeSelf(t) == IF Top(t).waited THEN WakeUp(t) ELSE UNCHANGED signal

\* mutant: a Send sleeps without looking at the calls for its own thread
NotReady_mut == "wait"

NotReady == "sends"

\* the loop of Send: an answer ends it, otherwise calls are served
SendCheck(t) ==
    /\ Position(t) = "check"
    /\ IF Top(t).id \in ready
       THEN /\ returned' = returned \cup {Top(t).id}
            /\ WakeSelf(t)
            /\ Pop(t)
            /\ UNCHANGED loop
       ELSE /\ Goto(t, NotReady)
            /\ UNCHANGED <<signal, returned>>
    /\ UNCHANGED <<queues, fStop, ready, calls, posts, now, gone, destroyed, dispatched>>

-----------------------------------------------------------------------------
(* ReceiveSends, of a Get or of a Send that waits *)

\* mutant: the call stays listed until it is answered
TakeSend_mut(t) == UNCHANGED sendlist

TakeSend(t) == sendlist' = [sendlist EXCEPT ![t] = Tail(@)]

ReceiveSend(t) ==
    /\ Position(t) = "sends"
    /\ sendlist[t] # <<>>
    /\ LET c == Head(sendlist[t]) IN Push(t, NewFrame("call", c, calls[c].to, "run"))
    /\ TakeSend(t)
    /\ UNCHANGED <<msgq, dmsgq, posting, signal, fStop, loop, ready, calls, posts, now, gone,
                   destroyed, history>>

\* the handler of a call returns: its sender is told and woken
CallReturns(t) ==
    /\ Runs(t) /\ stack[t] # <<>> /\ Top(t).kind = "call"
    /\ ready' = ready \cup {Top(t).id}
    /\ WakeUp(calls[Top(t).id].from)
    /\ Pop(t)
    /\ UNCHANGED <<queues, fStop, loop, calls, posts, now, gone, destroyed, returned, dispatched>>

\* no call is left: a Send goes to wait, Get goes on with the posted messages
SendsDone(t) ==
    /\ Position(t) = "sends"
    /\ sendlist[t] = <<>>
    /\ Goto(t, IF stack[t] = <<>> THEN "pull" ELSE "wait")
    /\ UNCHANGED <<queues, signal, fStop, ready, calls, posts, now, gone, destroyed, history>>

-----------------------------------------------------------------------------
(* Posted messages *)

\* DelayedMessage::operator<, on the clock's 32 bits
Before(m, n) ==
    \/ Clock(m.at) < Clock(n.at)
    \/ Clock(m.at) = Clock(n.at) /\ m.id < n.id

\* mutant: delayed messages are kept in the order of their posts
Insert_mut(t, m) == dmsgq' = [dmsgq EXCEPT ![t] = Append(@, m)]

\* m is put after the messages that are due before it
Insert(t, m) ==
    \E k \in 0..Len(dmsgq[t]) :
        /\ \A i \in 1..k : Before(dmsgq[t][i], m)
        /\ \A i \in (k + 1)..Len(dmsgq[t]) : ~Before(dmsgq[t][i], m)
        /\ dmsgq' = [dmsgq EXCEPT ![t] = SubSeq(@, 1, k) \o <<m>> \o SubSeq(@, k + 1, Len(@))]

CanPost(t, h) == /\ Runs(t)
                 /\ h \notin gone /\ Home[h] \notin destroyed
                 /\ PostsBegun < MaxPosts /\ MoreOps

\* A stopped queue takes no message.
Post(t, h) ==
    /\ CanPost(t, h)
    /\ posts' = posts + 1
    /\ IF fStop[Home[h]] THEN UNCHANGED <<msgq, signal>>
       ELSE /\ msgq' = [msgq EXCEPT ![Home[h]] =
                          Append(@, [id |-> posts', to |-> h, at |-> 0, put |-> 0, timed |-> FALSE])]
            /\ WakeUp(Home[h])
    /\ UNCHANGED <<sendlist, dmsgq, posting, fStop, loop, stack, ready, calls, now, gone, destroyed,
                   history>>

\* PostDelayed reads the clock, and DoDelayPost tests fStop_, before the lock is
\* taken: other threads may post, and time may pass, before the message is in.
PostDelayed(t, h, delay) ==
    /\ CanPost(t, h)
    /\ delay < ClockMod \div 2   \* asserted by TimeAfter
    /\ IF fStop[Home[h]]
       THEN posts' = posts + 1 /\ UNCHANGED posting
       ELSE /\ posting' = posting \cup {[from |-> t, to |-> h, at |-> TimeAfter(delay)]}
            /\ UNCHANGED posts
    /\ UNCHANGED <<sendlist, msgq, dmsgq, signal, fStop, loop, stack, ready, calls, now, gone,
                   destroyed, history>>

\* what DoDelayPost does under crit_; id stands for dmsgq_next_num_
DoDelayPost(t) ==
    /\ \E d \in posting :
       /\ d.from = t
       /\ posting' = posting \ {d}
       /\ posts' = posts + 1
       /\ Insert(Home[d.to],
                 [id |-> posts', to |-> d.to, at |-> d.at, put |-> now, timed |-> TRUE])
       /\ WakeUp(Home[d.to])
    /\ UNCHANGED <<sendlist, msgq, fStop, loop, stack, ready, calls, now, gone, destroyed, history>>

\* n delayed messages are due at msCurrent: the loop stops at the first that is not
Due(t, n) ==
    /\ \A i \in 1..n : ~TimeIsLater(loop[t].cur, dmsgq[t][i].at)
    /\ n < Len(dmsgq[t]) => TimeIsLater(loop[t].cur, dmsgq[t][n + 1].at)

\* mutant: Get waits for ever with a delayed message in the queue
DelayNext_mut(t, rest) == kForever

\* how long Get waits if it finds no message: cmsDelayNext
DelayNext(t, rest) ==
    IF rest = <<>> THEN kForever ELSE TimeDiff(Head(rest).at, loop[t].cur)

\* Get looks at its queue under crit_; ProcessMessages dispatches the message
\* that it returns and calls it again
Pull(t) ==
    /\ Position(t) = "pull"
    /\ \E n \in 0..Len(dmsgq[t]) :
       LET all == msgq[t] \o SubSeq(dmsgq[t], 1, n)
           rest == SubSeq(dmsgq[t], n + 1, Len(dmsgq[t]))
       IN /\ Due(t, n)
          /\ dmsgq' = [dmsgq EXCEPT ![t] = rest]
          /\ IF all = <<>>
             THEN /\ loop' = [loop EXCEPT ![t].pc = "stop", ![t].delay = DelayNext(t, rest)]
                  /\ UNCHANGED <<msgq, stack, dispatched>>
             ELSE /\ msgq' = [msgq EXCEPT ![t] = Tail(all)]
                  /\ dispatched' = [dispatched EXCEPT ![t] = Append(@, Head(all))]
                  /\ Push(t, NewFrame("post", Head(all).id, Head(all).to, "run"))
                  /\ UNCHANGED loop
    /\ UNCHANGED <<sendlist, posting, signal, fStop, ready, calls, posts, now, gone, destroyed,
                   returned>>

\* the handler of a message returns and Get starts again
PostReturns(t) ==
    /\ Runs(t) /\ stack[t] # <<>> /\ Top(t).kind = "post"
    /\ Pop(t)
    /\ loop' = [loop EXCEPT ![t].pc = "sends", ![t].cur = now]
    /\ UNCHANGED <<queues, signal, fStop, ready, calls, posts, now, gone, destroyed, history>>

WaitUntil(delay) == IF delay = kForever THEN kForever ELSE now + delay

\* nothing to do: Get ends if the queue was stopped, and waits if not; Wait
\* counts the delay from its own start
StopCheck(t) ==
    /\ Position(t) = "stop"
    /\ loop' = IF fStop[t] THEN [loop EXCEPT ![t].pc = "exited"]
               ELSE [loop EXCEPT ![t].pc = "wait",
                                 ![t].until = WaitUntil(loop[t].delay)]
    /\ UNCHANGED <<queues, signal, fStop, stack, ready, calls, posts, now, gone, destroyed, history>>

-----------------------------------------------------------------------------
(* PhysicalSocketServer::Wait *)

\* Wait returns because of the event, which it resets
WaitSignalled(t) ==
    /\ Position(t) = "wait"
    /\ signal[t]
    /\ signal' = [signal EXCEPT ![t] = FALSE]
    /\ IF stack[t] = <<>>
       THEN loop' = [loop EXCEPT ![t].pc = "sends", ![t].cur = now] /\ UNCHANGED stack
       ELSE /\ stack' = [stack EXCEPT ![t][Len(stack[t])].pc = "check",
                                      ![t][Len(stack[t])].waited = TRUE]
            /\ UNCHANGED loop
    /\ UNCHANGED <<queues, fStop, ready, calls, posts, now, gone, destroyed, history>>

\* the Wait of Get times out
WaitTimeout(t) ==
    /\ Position(t) = "wait" /\ stack[t] = <<>>
    /\ loop[t].until # kForever /\ now >= loop[t].until
    /\ loop' = [loop EXCEPT ![t].pc = "sends", ![t].cur = now]
    /\ UNCHANGED <<queues, signal, fStop, stack, ready, calls, posts, now, gone, destroyed, history>>

\* Time is looked at only while a message is delayed.  After MaxTime it passes
\* only while a thread waits for it.
Tick ==
    /\ \E t \in Thread : /\ dmsgq[t] # <<>>
                         /\ now < MaxTime \/ (Position(t) = "wait" /\ now < loop[t].until)
    /\ now' = now + 1
    /\ UNCHANGED <<queues, signal, fStop, loop, stack, ready, calls, posts, gone, destroyed, history>>

-----------------------------------------------------------------------------
(* Clear, Stop and the destructors *)

\* the enumeration of a set of places in their order
InOrder(places) ==
    {f \in [1..Cardinality(places) -> places] : \A i, j \in DOMAIN f : i < j => f[i] < f[j]}

\* the messages of q at the places of f
At(q, f) == [i \in DOMAIN f |-> q[f[i]]]

\* the places of q whose message is for none of hs
NotFor(q, hs) == {i \in DOMAIN q : q[i].to \notin hs}

\* mutant: delayed messages are not cleared
MessageQueueClear_mut(t, hs) ==
    /\ \E f \in InOrder(NotFor(msgq[t], hs)) : msgq' = [msgq EXCEPT ![t] = At(@, f)]
    /\ UNCHANGED dmsgq

MessageQueueClear(t, hs) ==
    /\ \E f \in InOrder(NotFor(msgq[t], hs)) : msgq' = [msgq EXCEPT ![t] = At(@, f)]
    /\ \E f \in InOrder(NotFor(dmsgq[t], hs)) : dmsgq' = [dmsgq EXCEPT ![t] = At(@, f)]

Matching(t, hs) == {c \in DOMAIN calls : calls[c].to \in hs /\ c \in Listed(t)}

\* Thread::Clear.  Its loop over sendlist_, which takes the calls of the
\* handler out and answers them, runs only if the list is empty.
ThreadClear(t, hs) ==
    /\ IF sendlist[t] = <<>>
       THEN /\ ready' = ready \cup Matching(t, hs)
            /\ signal' = [u \in Thread |-> signal[u] \/ \E c \in Matching(t, hs) : calls[c].from = u]
            /\ \E f \in InOrder({i \in DOMAIN sendlist[t] : sendlist[t][i] \notin Matching(t, hs)}) :
                  sendlist' = [sendlist EXCEPT ![t] = At(@, f)]
       ELSE UNCHANGED <<ready, signal, sendlist>>
    /\ MessageQueueClear(t, hs)

\* ~MessageHandler, on the thread that the handler belongs to, when nobody is
\* about to post to it
DestroyHandler(t, h) ==
    /\ Runs(t) /\ MoreOps
    /\ h \in MayDie \ gone /\ Home[h] = t
    /\ \A i \in 1..(Len(stack[t]) - 1) : stack[t][i].of # h   \* none of its handlers is suspended
    /\ \A d \in posting : d.to # h
    /\ gone' = gone \cup {h}
    /\ ThreadClear(t, {h})
    /\ UNCHANGED <<posting, fStop, loop, stack, calls, posts, now, destroyed, history>>

\* Thread::Stop: Quit, then Join
Stop(t, u) ==
    /\ Runs(t) /\ MoreOps
    /\ t \in App
    /\ u \in MayStop /\ ~fStop[u]
    /\ fStop' = [fStop EXCEPT ![u] = TRUE]
    /\ WakeUp(u)
    /\ Push(t, NewFrame("join", 0, u, "join"))
    /\ UNCHANGED <<queues, loop, ready, calls, posts, now, gone, destroyed, history>>

\* Join returns, and ~Thread clears what is left
JoinReturns(t) ==
    /\ Position(t) = "join"
    /\ LET u == Top(t).of IN
       /\ loop[u].pc = "exited"
       /\ ThreadClear(u, Handler)
       /\ destroyed' = destroyed \cup {u}
    /\ Pop(t)
    /\ UNCHANGED <<posting, fStop, loop, calls, posts, now, gone, history>>

-----------------------------------------------------------------------------
Init ==
    /\ sendlist = [t \in Thread |-> <<>>]
    /\ msgq = [t \in Thread |-> <<>>]
    /\ dmsgq = [t \in Thread |-> <<>>]
    /\ posting = {}
    /\ signal = [t \in Thread |-> FALSE]
    /\ fStop = [t \in Thread |-> FALSE]
    /\ loop = [t \in Thread |-> [pc |-> IF t \in App THEN "run" ELSE "sends",
                                 cur |-> 0, delay |-> kForever, until |-> kForever]]
    /\ stack = [t \in Thread |-> <<>>]
    /\ ready = {} /\ calls = <<>> /\ posts = 0 /\ now = 0
    /\ gone = {} /\ destroyed = {}
    /\ returned = {}
    /\ dispatched = [t \in Thread |-> <<>>]

\* what the code of handlers and of the application calls
Calls(t) ==
    \/ \E h \in Handler : \/ Send(t, h) \/ Post(t, h) \/ DestroyHandler(t, h)
                          \/ \E delay \in 0..(MaxTime - now) : PostDelayed(t, h, delay)
    \/ \E u \in Thread : Stop(t, u)

\* what a thread goes on with by itself
Steps(t) ==
    \/ SendPush(t) \/ SendCheck(t)
    \/ ReceiveSend(t) \/ CallReturns(t) \/ SendsDone(t)
    \/ DoDelayPost(t) \/ Pull(t) \/ PostReturns(t) \/ StopCheck(t)
    \/ WaitSignalled(t) \/ WaitTimeout(t) \/ JoinReturns(t)

Next == (\E t \in Thread : Calls(t) \/ Steps(t)) \/ Tick

Spec == Init /\ [][Next]_vars

\* Threads are scheduled, handlers return, time passes; no call is owed.
FairSpec == Spec /\ WF_vars(Tick) /\ \A t \in Thread : WF_vars(Steps(t))

-----------------------------------------------------------------------------
(* Properties *)

\* put: the time when a delayed message came into the queue
PostedMessage == [id: Nat, to: Handler, at: 0..MaxTime, put: Nat, timed: BOOLEAN]

LoopPCs == {"run", "sends", "pull", "stop", "wait", "exited"}

\* Every variable has its type.
TypeOK ==
    /\ sendlist \in [Thread -> Seq(Call)]
    /\ msgq \in [Thread -> Seq(PostedMessage)]
    /\ dmsgq \in [Thread -> Seq(PostedMessage)]
    /\ posting \subseteq [from: Thread, to: Handler, at: 0..MaxTime]
    /\ signal \in [Thread -> BOOLEAN]
    /\ fStop \in [Thread -> BOOLEAN]
    /\ loop \in [Thread -> [pc: LoopPCs, cur: Nat, delay: 0..(ClockMod - 1) \cup {kForever},
                               until: Nat \cup {kForever}]]
    /\ stack \in [Thread -> Seq(Frame)]
    /\ ready \subseteq Call
    /\ calls \in Seq([from: Thread, to: Handler])
    /\ posts \in Nat
    /\ now \in Nat
    /\ gone \subseteq Handler
    /\ destroyed \subseteq Thread
    /\ returned \subseteq Call
    /\ dispatched \in [Thread -> Seq(PostedMessage)]

\* No thread sleeps over work: one that waits without a pending wakeup has no
\* call to serve; if it waits in Send its answer is not there, and if in Get
\* there is no message, no order to stop, and it wakes for the next delayed
\* message, late by no more than the calls took that it served since it read
\* the clock.  The waits of nested Sends consume one another's wakeups.
NoLostWakeup ==
    \A t \in Thread : Position(t) = "wait" /\ ~signal[t] =>
        /\ sendlist[t] = <<>>
        /\ stack[t] # <<>> => Top(t).id \notin ready
        /\ stack[t] = <<>> =>
              /\ msgq[t] = <<>> /\ ~fStop[t]
              /\ dmsgq[t] # <<>> =>
                    /\ loop[t].until # kForever
                    /\ loop[t].until - dmsgq[t][1].at <= now - loop[t].cur

\* where the call c is: in a list, or in the frame that runs its handler
Places(c) ==
    UNION {{<<t, "listed", i>> : i \in {k \in DOMAIN sendlist[t] : sendlist[t][k] = c}}
           \cup {<<t, "runs", i>> : i \in {k \in DOMAIN stack[t] : /\ stack[t][k].kind = "call"
                                                                  /\ stack[t][k].id = c}}
              : t \in Thread}

Awaited(c) ==
    \E i \in DOMAIN stack[calls[c].from] :
        LET f == stack[calls[c].from][i] IN f.kind = "send" /\ f.id = c /\ f.pc # "push"

\* A call is listed or runs exactly as long as its sender waits for it, and in
\* one place: ReceiveSends writes the answer through a pointer into the
\* sender's stack frame, and is itself entered again by nested waits.
Rendezvous ==
    \A c \in DOMAIN calls :
        Cardinality(Places(c)) = IF Awaited(c) /\ c \notin ready THEN 1 ELSE 0

\* p is due before m, or at the same time and was put in first; or p was due
\* already when m was put in
DueFirst(p, m) ==
    \/ p.at < m.at
    \/ p.at = m.at /\ p.id < m.id
    \/ p.at <= m.put /\ p.id < m.id

\* Posted messages are dispatched in the order of their posts; delayed ones
\* never early and in the order of their times, whoever posts them and however
\* late they are put in: only one that was due already goes before an earlier
\* one that was put in after it.  (Before the clock wraps.)
TimerOrder ==
    \A t \in Thread : \A i \in DOMAIN dispatched[t] :
        LET m == dispatched[t][i] IN
        /\ m.timed => m.at <= now
        /\ \A j \in 1..(i - 1) :
              LET p == dispatched[t][j] IN
              p.timed = m.timed => IF m.timed THEN DueFirst(p, m) ELSE p.id < m.id

\* No message is dispatched to a handler that was destroyed, however it was
\* posted: ~MessageHandler clears the queue that its thread reads.
DestroyedNotRun ==
    [][\A t \in Thread : dispatched'[t] # dispatched[t] =>
          dispatched'[t][Len(dispatched'[t])].to \notin gone]_vars

\* Every Send returns, however threads call one another at the same time, as
\* long as no thread is stopped: a Send that waits serves the calls sent to it.
CallsReturn ==
    \A c \in Call : c \in DOMAIN calls ~> c \in returned \/ \E t \in MayStop : fStop[t]

Messages(q) == {q[i] : i \in DOMAIN q}

\* Every posted message is dispatched, delayed or not, unless its handler or
\* its thread goes first.
PostsRun ==
    \A p \in 1..MaxPosts :
        (\E t \in Thread : \E m \in Messages(msgq[t]) \cup Messages(dmsgq[t]) : m.id = p)
            ~> \/ \E t \in Thread : \E m \in Messages(dispatched[t]) : m.id = p
               \/ gone # {} \/ \E t \in MayStop : fStop[t]

\* The comment at thread.cc:457, "thread receiving exits: Wakeup/set ready in
\* Thread::Clear()": a Send to a thread that exits returns too.
SendReturns == \A c \in Call : c \in DOMAIN calls ~> c \in returned
=============================================================================
