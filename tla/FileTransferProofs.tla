------------------------- MODULE FileTransferProofs -------------------------
(***************************************************************************)
(* Theorems about FileTransfer, for every value of its constants: any      *)
(* number of transfers, and files and numbers of calls of any size.        *)
(***************************************************************************)
EXTENDS FileTransfer, TLAPS

-----------------------------------------------------------------------------
(* What the parts of the actions return *)

\* What SendData leaves in a queue has the type of the queue.
LEMMA SendDataType ==
    ASSUME NEW T, NEW q \in Seq(T), NEW m \in T
    PROVE  SendData(q, m) \in Seq(T)
  BY DEF SendData

\* The head of a queue that is not empty, and the queue without it.
LEMMA QueueType ==
    ASSUME NEW T, NEW q \in Seq(T), q # <<>>
    PROVE  Head(q) \in T /\ Tail(q) \in Seq(T)
  OBVIOUS

\* A handler consumes a message of the type that its queue holds.
LEMMA HeadIsR ==
    ASSUME TypeOK, NEW t, NEW g, HeadIs(toR, t, g)
    PROVE  /\ Tail(toR) \in Seq(MessageR)
           /\ Head(toR).rok \in BOOLEAN /\ Head(toR).a \in Nat /\ Head(toR).b \in Nat
  <1>1. Head(toR) \in MessageR /\ Tail(toR) \in Seq(MessageR)
    BY QueueType DEF HeadIs, TypeOK, ChannelTypes
  <1> QED
    BY <1>1 DEF MessageR, Message

\* The same for the messages that S handles.
LEMMA HeadIsS ==
    ASSUME TypeOK, NEW t, NEW g, HeadIs(toS, t, g)
    PROVE  /\ Tail(toS) \in Seq(MessageS)
           /\ Head(toS).rok \in BOOLEAN /\ Head(toS).a \in Nat
  <1>1. Head(toS) \in MessageS /\ Tail(toS) \in Seq(MessageS)
    BY QueueType DEF HeadIs, TypeOK, ChannelTypes
  <1> QED
    BY <1>1 DEF MessageS, Message

\* A message built for R has the type of the queue to R.
LEMMA MsgR ==
    ASSUME NEW t \in RTypes \cup TaskTypes, NEW g \in Guid, NEW ok \in BOOLEAN,
           NEW x \in Nat, NEW y \in Nat
    PROVE  Msg(t, g, ok, x, y) \in MessageR
  BY DEF Msg, MessageR, Message

\* A message built for S has the type of the queue to S.
LEMMA MsgS ==
    ASSUME NEW t \in STypes \cup TaskTypes, NEW g \in Guid, NEW ok \in BOOLEAN,
           NEW x \in Nat, NEW y \in Nat
    PROVE  Msg(t, g, ok, x, y) \in MessageS
  BY DEF Msg, MessageS, Message

\* A size that travels in a DWORD is a number.
LEMMA DwordType == ASSUME NEW n \in Nat PROVE Dword(n) \in Nat
  BY ConstantAssumption DEF Dword

\* It is no more than the size.
LEMMA DwordBelow == ASSUME NEW n \in Nat PROVE Dword(n) <= n
  BY ConstantAssumption DEF Dword

\* A read returns a number of bytes, none past the end of the file.
LEMMA ReadSizeType ==
    ASSUME TypeOK, NEW g \in Guid
    PROVE  ReadSize(g) \in Nat
  <1>1. FileSize[g] \in Nat /\ BlockSize \in Nat /\ src[g].pos \in Nat
    BY ConstantAssumption DEF TypeOK, SendTypes, Stream
  <1>2. src[g].pos * BlockSize \in Nat
    BY <1>1
  <1> QED
    BY <1>1, <1>2 DEF ReadSize

\* PopUp leaves a stream.
LEMMA PopUpType ==
    ASSUME TypeOK, NEW g \in Guid
    PROVE  PopUp(g) \in Stream
  <1>1. src[g] \in Stream
    BY DEF TypeOK, SendTypes
  <1>2. (ReadSize(g) < BlockSize) \in BOOLEAN
    OBVIOUS
  <1>3. [box |-> TRUE, open |-> TRUE, eof |-> ReadSize(g) < BlockSize, pos |-> src[g].pos + 1]
            \in Stream
    BY <1>1, <1>2 DEF Stream
  <1>4. [src[g] EXCEPT !.open = FALSE] \in Stream
    BY <1>1 DEF Stream
  <1> QED
    BY <1>3, <1>4 DEF PopUp

\* PushBack leaves a repository.
LEMMA PushBackType ==
    ASSUME TypeOK, NEW g \in Guid, NEW n \in Nat
    PROVE  PushBack(g, n) \in Repository
  <1>1. repo[g] \in Repository
    BY DEF TypeOK, RecvTypes
  <1> QED
    BY <1>1 DEF PushBack, Repository

\* A place of Run stays one when its wait returns.
LEMMA WokenType == ASSUME NEW p \in PCs PROVE Woken(p) \in PCs
  BY DEF Woken, PCs, Waits

\* Where a notified attempt goes on is a place of Run.
LEMMA NotifyAllType ==
    ASSUME TypeOK, NEW g \in Guid, NEW o, NotifyAll(g, o)
    PROVE  pc' \in [Guid -> [Attempt -> PCs]]
  <1>1. \A k \in Attempt : pc[g][k] \in PCs
    BY DEF TypeOK, RunTypes
  <1>2. [k \in Attempt |-> IF on[g][k] = o THEN Woken(pc[g][k]) ELSE pc[g][k]] \in [Attempt -> PCs]
    BY <1>1, WokenType
  <1> QED
    BY <1>2 DEF NotifyAll, TypeOK, RunTypes

\* An object of the thread map that exists is the object of an attempt.
LEMMA LiveObject ==
    ASSUME TypeOK, NEW g \in Guid, Live(g)
    PROVE  mapS[g] \in Attempt
  BY DEF Live, NoObject, Attempt, TypeOK, SendTypes

\* What the thread manager does to the flags of an object that may be absent.
LEMMA UnAttachType ==
    ASSUME TypeOK, NEW g \in Guid, UnAttach(g)
    PROVE  quit' \in [Guid -> [Attempt -> BOOLEAN]]
  <1>1. CASE Live(g)
    <2>1. quit' = [quit EXCEPT ![g][mapS[g]] = TRUE] /\ mapS[g] \in Attempt
      BY <1>1, LiveObject DEF UnAttach, ForceQuit
    <2> QED
      BY <2>1 DEF TypeOK, RunTypes
  <1>2. CASE ~Live(g)
    BY <1>2 DEF UnAttach, TypeOK, RunTypes
  <1> QED
    BY <1>1, <1>2

\* The same for the flag that interrupts Run.
LEMMA SuspendChildThreadType ==
    ASSUME TypeOK, NEW g \in Guid, SuspendChildThread(g)
    PROVE  skip' \in [Guid -> [Attempt -> BOOLEAN]]
  <1>1. CASE Live(g)
    <2>1. skip' = [skip EXCEPT ![g][mapS[g]] = TRUE] /\ mapS[g] \in Attempt
      BY <1>1, LiveObject DEF SuspendChildThread, Suspend
    <2> QED
      BY <2>1 DEF TypeOK, RunTypes
  <1>2. CASE ~Live(g)
    BY <1>2 DEF SuspendChildThread, TypeOK, RunTypes
  <1> QED
    BY <1>1, <1>2

\* The same for what restarts Run.
LEMMA ResumeChildThreadType ==
    ASSUME TypeOK, NEW g \in Guid, ResumeChildThread(g)
    PROVE  /\ skip' \in [Guid -> [Attempt -> BOOLEAN]]
           /\ pc' \in [Guid -> [Attempt -> PCs]]
  <1>1. CASE Live(g)
    <2>1. NotifyAll(g, mapS[g]) /\ skip' = [skip EXCEPT ![g][mapS[g]] = FALSE]
      BY <1>1 DEF ResumeChildThread, Resume
    <2> QED
      BY <1>1, <2>1, LiveObject, NotifyAllType DEF TypeOK, RunTypes
  <1>2. CASE ~Live(g)
    BY <1>2 DEF ResumeChildThread, TypeOK, RunTypes
  <1> QED
    BY <1>1, <1>2

-----------------------------------------------------------------------------
(* Type correctness *)

\* The initial state is type correct.
LEMMA TypeInit == Init => TypeOK
  BY ConstantAssumption
  DEF Init, TypeOK, ChannelTypes, RunTypes, SendTypes, RecvTypes, UserTypes, Stream,
      Repository, Reported, Attempt, NoObject, PCs, NoStream, NoRepository, NoPacket, Packet

\* A step SendFile leaves every variable in its type.
LEMMA SendFileType ==
    ASSUME TypeOK, NEW g \in Guid, SendFile(g)
    PROVE  TypeOK'
  <1>1. RunTypes'
    <2> DEFINE k == sends[g] + 1
               o == IF Live(g) THEN mapS[g] ELSE k
    <2>1. k \in Attempt
      BY ConstantAssumption DEF SendFile, TypeOK, SendTypes, Attempt
    <2>2. o \in Attempt
      BY <2>1, LiveObject
    <2>3. "start" \in PCs
      BY DEF PCs
    <2>4. /\ on' = [on EXCEPT ![g][k] = o]
          /\ pc' = [pc EXCEPT ![g][k] = "start"]
          /\ UNCHANGED <<skip, quit, des, freed>>
      BY DEF SendFile
    <2> HIDE DEF k, o
    <2> QED
      BY <2>1, <2>2, <2>3, <2>4 DEF TypeOK, RunTypes
  <1>2. SendTypes'
    BY ConstantAssumption DEF TypeOK, SendTypes, SendFile, sendVars, Live, NoObject,
       Attempt, OpenedStream, Stream, DigestWritten, UsesDigest
  <1>3. ChannelTypes' /\ RecvTypes' /\ UserTypes'
    BY DEF TypeOK, ChannelTypes, RecvTypes, UserTypes, SendFile, recvVars, userVars, bounds
  <1> QED
    BY <1>1, <1>2, <1>3 DEF TypeOK

\* A step InterruptFileTaskS leaves every variable in its type.
LEMMA InterruptFileTaskSType ==
    ASSUME TypeOK, NEW g \in Guid, InterruptFileTaskS(g)
    PROVE  TypeOK'
  <1>1. ChannelTypes'
    BY SendDataType, MsgR DEF TypeOK, ChannelTypes, InterruptFileTaskS, TaskTypes
  <1>2. RunTypes'
    BY LiveObject DEF TypeOK, RunTypes, InterruptFileTaskS, runVars, Suspend
  <1>3. UserTypes'
    BY ConstantAssumption
    DEF TypeOK, UserTypes, InterruptFileTaskS, userVars, bounds, UserOp
  <1>4. SendTypes' /\ RecvTypes'
    BY DEF TypeOK, SendTypes, RecvTypes, InterruptFileTaskS, sendVars, recvVars
  <1> QED
    BY <1>1, <1>2, <1>3, <1>4 DEF TypeOK

\* A step RestartFileTaskS leaves every variable in its type.
LEMMA RestartFileTaskSType ==
    ASSUME TypeOK, NEW g \in Guid, RestartFileTaskS(g)
    PROVE  TypeOK'
  <1>1. ChannelTypes'
    BY SendDataType, MsgR DEF TypeOK, ChannelTypes, RestartFileTaskS, TaskTypes
  <1>2. RunTypes'
    BY LiveObject, NotifyAllType DEF TypeOK, RunTypes, RestartFileTaskS, runVars, Resume
  <1>3. UserTypes'
    BY ConstantAssumption DEF TypeOK, UserTypes, RestartFileTaskS, userVars, bounds, UserOp
  <1>4. SendTypes' /\ RecvTypes'
    BY DEF TypeOK, SendTypes, RecvTypes, RestartFileTaskS, sendVars, recvVars
  <1> QED
    BY <1>1, <1>2, <1>3, <1>4 DEF TypeOK

\* A step CancleFileTaskS leaves every variable in its type.
LEMMA CancleFileTaskSType ==
    ASSUME TypeOK, NEW g \in Guid, CancleFileTaskS(g)
    PROVE  TypeOK'
  <1>1. ChannelTypes'
    BY SendDataType, MsgR DEF TypeOK, ChannelTypes, CancleFileTaskS, TaskTypes
  <1>2. RunTypes'
    BY UnAttachType DEF TypeOK, RunTypes, CancleFileTaskS
  <1>3. UserTypes'
    BY ConstantAssumption DEF TypeOK, UserTypes, CancleFileTaskS, userVars, bounds, UserOp
  <1>4. SendTypes' /\ RecvTypes'
    BY DEF TypeOK, SendTypes, RecvTypes, CancleFileTaskS, sendVars, recvVars
  <1> QED
    BY <1>1, <1>2, <1>3, <1>4 DEF TypeOK

\* A step CreateRecieveFile leaves every variable in its type.
LEMMA CreateRecieveFileType ==
    ASSUME TypeOK, NEW g \in Guid, CreateRecieveFile(g)
    PROVE  TypeOK'
  <1>1. RecvTypes'
    BY DEF TypeOK, RecvTypes, CreateRecieveFile, recvVars
  <1>2. ChannelTypes' /\ RunTypes' /\ SendTypes' /\ UserTypes'
    BY DEF TypeOK, ChannelTypes, RunTypes, SendTypes, UserTypes, CreateRecieveFile,
       runVars, sendVars, userVars, bounds
  <1> QED
    BY <1>1, <1>2 DEF TypeOK

\* A step InterruptFileTaskR leaves every variable in its type.
LEMMA InterruptFileTaskRType ==
    ASSUME TypeOK, NEW g \in Guid, InterruptFileTaskR(g)
    PROVE  TypeOK'
  <1>1. ChannelTypes'
    BY SendDataType, MsgS DEF TypeOK, ChannelTypes, InterruptFileTaskR, TaskTypes
  <1>2. UserTypes'
    BY ConstantAssumption
    DEF TypeOK, UserTypes, InterruptFileTaskR, userVars, bounds, UserOp
  <1>3. RunTypes' /\ SendTypes' /\ RecvTypes'
    BY DEF TypeOK, RunTypes, SendTypes, RecvTypes, InterruptFileTaskR, runVars, sendVars,
       recvVars
  <1> QED
    BY <1>1, <1>2, <1>3 DEF TypeOK

\* A step RestartFileTaskR leaves every variable in its type.
LEMMA RestartFileTaskRType ==
    ASSUME TypeOK, NEW g \in Guid, RestartFileTaskR(g)
    PROVE  TypeOK'
  <1>1. ChannelTypes'
    BY SendDataType, MsgS DEF TypeOK, ChannelTypes, RestartFileTaskR, TaskTypes
  <1>2. UserTypes'
    BY ConstantAssumption DEF TypeOK, UserTypes, RestartFileTaskR, userVars, bounds, UserOp
  <1>3. RunTypes' /\ SendTypes' /\ RecvTypes'
    BY DEF TypeOK, RunTypes, SendTypes, RecvTypes, RestartFileTaskR, runVars, sendVars,
       recvVars
  <1> QED
    BY <1>1, <1>2, <1>3 DEF TypeOK

\* A step CancleFileTaskR leaves every variable in its type.
LEMMA CancleFileTaskRType ==
    ASSUME TypeOK, NEW g \in Guid, CancleFileTaskR(g)
    PROVE  TypeOK'
  <1>1. ChannelTypes'
    BY SendDataType, MsgS DEF TypeOK, ChannelTypes, CancleFileTaskR, TaskTypes
  <1>2. UserTypes'
    BY ConstantAssumption DEF TypeOK, UserTypes, CancleFileTaskR, userVars, bounds, UserOp
  <1>3. RunTypes' /\ SendTypes' /\ RecvTypes'
    BY DEF TypeOK, RunTypes, SendTypes, RecvTypes, CancleFileTaskR, runVars, sendVars,
       recvVars
  <1> QED
    BY <1>1, <1>2, <1>3 DEF TypeOK

\* A step RunStart leaves every variable in its type.
LEMMA RunStartType ==
    ASSUME TypeOK, NEW g \in Guid, NEW k \in Attempt, RunStart(g, k)
    PROVE  TypeOK'
  <1>1. ChannelTypes'
    BY ConstantAssumption, DwordType, SendDataType, MsgR
    DEF TypeOK, ChannelTypes, RunStart, RTypes
  <1>2. RunTypes'
    BY DEF TypeOK, RunTypes, RunStart, runVars, Goto, PCs
  <1>3. SendTypes' /\ RecvTypes' /\ UserTypes'
    BY DEF TypeOK, SendTypes, RecvTypes, UserTypes, RunStart, sendVars, recvVars,
       userVars, bounds
  <1> QED
    BY <1>1, <1>2, <1>3 DEF TypeOK

\* A step RunSetEvent leaves every variable in its type.
LEMMA RunSetEventType ==
    ASSUME TypeOK, NEW g \in Guid, NEW k \in Attempt, RunSetEvent(g, k)
    PROVE  TypeOK'
  <1>1. RunTypes'
    <2>1. PICK p \in Waits : pc' = [pc EXCEPT ![g][k] = p]
      BY DEF RunSetEvent, Goto, Waits
    <2>2. p \in PCs
      BY DEF PCs
    <2> QED
      BY <2>1, <2>2 DEF TypeOK, RunTypes, RunSetEvent
  <1>2. ChannelTypes' /\ SendTypes' /\ RecvTypes' /\ UserTypes'
    BY DEF TypeOK, ChannelTypes, SendTypes, RecvTypes, UserTypes, RunSetEvent, sendVars,
       recvVars, userVars, bounds
  <1> QED
    BY <1>1, <1>2 DEF TypeOK

\* A step SpuriousWakeup leaves every variable in its type.
LEMMA SpuriousWakeupType ==
    ASSUME TypeOK, NEW g \in Guid, NEW k \in Attempt, SpuriousWakeup(g, k)
    PROVE  TypeOK'
  <1>1. RunTypes'
    BY WokenType DEF TypeOK, RunTypes, SpuriousWakeup, runVars, Goto, PCs, Waits
  <1>2. UserTypes'
    BY ConstantAssumption DEF TypeOK, UserTypes, SpuriousWakeup, userVars, bounds
  <1>3. ChannelTypes' /\ SendTypes' /\ RecvTypes'
    BY DEF TypeOK, ChannelTypes, SendTypes, RecvTypes, SpuriousWakeup, sendVars, recvVars
  <1> QED
    BY <1>1, <1>2, <1>3 DEF TypeOK

\* A step RunCheck leaves every variable in its type.
LEMMA RunCheckType ==
    ASSUME TypeOK, NEW g \in Guid, NEW k \in Attempt, RunCheck(g, k)
    PROVE  TypeOK'
  <1>1. RunTypes'
    BY DEF TypeOK, RunTypes, RunCheck, runVars, Goto, PCs
  <1>2. ChannelTypes' /\ SendTypes' /\ RecvTypes' /\ UserTypes'
    BY DEF TypeOK, ChannelTypes, SendTypes, RecvTypes, UserTypes, RunCheck, sendVars,
       recvVars, userVars, bounds
  <1> QED
    BY <1>1, <1>2 DEF TypeOK

\* A step RunReadBlock leaves every variable in its type.
LEMMA RunReadBlockType ==
    ASSUME TypeOK, NEW g \in Guid, NEW k \in Attempt, RunReadBlock(g, k)
    PROVE  TypeOK'
  <1>1. SendTypes'
    <2>1. Accepted(g, k) \in BOOLEAN
      BY DEF Accepted, TypeOK, RunTypes
    <2>2. src[g].pos + 1 \in Nat
      BY DEF TypeOK, SendTypes, Stream
    <2>3. NextPacket(g, k) \in Packet
      BY <2>1, <2>2, ReadSizeType DEF NextPacket, Packet
    <2> QED
      BY <2>3, PopUpType DEF TypeOK, SendTypes, RunReadBlock
  <1>2. RunTypes'
    BY DEF TypeOK, RunTypes, RunReadBlock, Goto, PCs
  <1>3. ChannelTypes' /\ RecvTypes' /\ UserTypes'
    BY DEF TypeOK, ChannelTypes, RecvTypes, UserTypes, RunReadBlock, recvVars, userVars, bounds
  <1> QED
    BY <1>1, <1>2, <1>3 DEF TypeOK

\* The packet that Run sends is a message for R.
LEMMA PacketR ==
    ASSUME TypeOK, NEW g \in Guid, NEW k \in Attempt
    PROVE  Msg("Send_File", g, pack[g][k].rok, pack[g][k].index, pack[g][k].size) \in MessageR
  <1>1. pack[g][k] \in Packet
    BY DEF TypeOK, SendTypes
  <1>2. pack[g][k].rok \in BOOLEAN /\ pack[g][k].index \in Nat /\ pack[g][k].size \in Nat
    BY <1>1 DEF Packet
  <1>3. "Send_File" \in RTypes \cup TaskTypes
    BY DEF RTypes
  <1> QED
    BY <1>2, <1>3, MsgR

\* A step RunSendBlock leaves every variable in its type.
LEMMA RunSendBlockType ==
    ASSUME TypeOK, NEW g \in Guid, NEW k \in Attempt, RunSendBlock(g, k)
    PROVE  TypeOK'
  <1>1. ChannelTypes'
    BY PacketR, SendDataType DEF TypeOK, ChannelTypes, RunSendBlock, SendBlock
  <1>2. RunTypes'
    BY DEF TypeOK, RunTypes, RunSendBlock, runVars, Goto, PCs
  <1>3. SendTypes'
    BY DEF TypeOK, SendTypes, RunSendBlock, sendVars
  <1>4. UserTypes'
    BY DEF TypeOK, UserTypes, RunSendBlock, userVars, bounds, Reported
  <1>5. RecvTypes'
    BY DEF TypeOK, RecvTypes, RunSendBlock, recvVars
  <1> QED
    BY <1>1, <1>2, <1>3, <1>4, <1>5 DEF TypeOK

\* A step RunTestSkip leaves every variable in its type.
LEMMA RunTestSkipType ==
    ASSUME TypeOK, NEW g \in Guid, NEW k \in Attempt, RunTestSkip(g, k)
    PROVE  TypeOK'
  <1>1. RunTypes'
    BY DEF TypeOK, RunTypes, RunTestSkip, Goto, PCs
  <1>2. ChannelTypes' /\ SendTypes' /\ RecvTypes' /\ UserTypes'
    BY DEF TypeOK, ChannelTypes, SendTypes, RecvTypes, UserTypes, RunTestSkip, sendVars,
       recvVars, userVars, bounds
  <1> QED
    BY <1>1, <1>2 DEF TypeOK

\* A step RunEndLoop leaves every variable in its type.
LEMMA RunEndLoopType ==
    ASSUME TypeOK, NEW g \in Guid, NEW k \in Attempt, RunEndLoop(g, k)
    PROVE  TypeOK'
  <1>1. RunTypes'
    BY DEF TypeOK, RunTypes, RunEndLoop, runVars, Goto, PCs
  <1>2. SendTypes'
    BY PopUpType DEF TypeOK, SendTypes, RunEndLoop, sendVars
  <1>3. ChannelTypes' /\ RecvTypes' /\ UserTypes'
    BY
    DEF TypeOK, ChannelTypes, RecvTypes, UserTypes, RunEndLoop, recvVars, userVars, bounds
  <1> QED
    BY <1>1, <1>2, <1>3 DEF TypeOK

\* A step RunDigest leaves every variable in its type.
LEMMA RunDigestType ==
    ASSUME TypeOK, NEW g \in Guid, NEW k \in Attempt, RunDigest(g, k)
    PROVE  TypeOK'
  <1>1. RunTypes'
    BY DEF TypeOK, RunTypes, RunDigest, Goto, PCs
  <1>2. SendTypes'
    <2>1. DigestWritten \in [Guid -> [Attempt -> BOOLEAN]]
      BY DEF TypeOK, SendTypes, DigestWritten, UsesDigest
    <2>2. PICK x \in BOOLEAN : mixed' = [DigestWritten EXCEPT ![g][k] = x]
      BY DEF RunDigest
    <2>3. mixed' \in [Guid -> [Attempt -> BOOLEAN]]
      BY <2>1, <2>2
    <2> QED
      BY <2>3 DEF TypeOK, SendTypes, RunDigest
  <1>3. ChannelTypes' /\ RecvTypes' /\ UserTypes'
    BY DEF TypeOK, ChannelTypes, RecvTypes, UserTypes, RunDigest, recvVars, userVars, bounds
  <1> QED
    BY <1>1, <1>2, <1>3 DEF TypeOK

\* What a Release sends last is a message for R.
LEMMA EndR ==
    ASSUME TypeOK, NEW g \in Guid, NEW k \in Attempt, NEW d \in Digests(g, k)
    PROVE  Msg("End_Send_File", g, Accepted(g, k), d, 0) \in MessageR
  <1>1. d \in Nat
    BY DEF Digests, OwnDigest, OtherText
  <1>2. Accepted(g, k) \in BOOLEAN
    BY DEF Accepted, TypeOK, RunTypes
  <1> QED
    BY <1>1, <1>2, MsgR DEF RTypes

\* A step Release leaves every variable in its type.
LEMMA ReleaseType ==
    ASSUME TypeOK, NEW g \in Guid, NEW k \in Attempt, Release(g, k)
    PROVE  TypeOK'
  <1>1. ChannelTypes'
    BY SendDataType, EndR DEF TypeOK, ChannelTypes, Release, SendEnd
  <1>2. RunTypes'
    BY DEF TypeOK, RunTypes, Release, runVars, Goto, PCs
  <1>3. SendTypes'
    BY DEF TypeOK, SendTypes, Release, sendVars, SpawnRelease
  <1>4. RecvTypes' /\ UserTypes'
    BY DEF TypeOK, RecvTypes, UserTypes, Release, recvVars, userVars, bounds
  <1> QED
    BY <1>1, <1>2, <1>3, <1>4 DEF TypeOK

\* A step ReleaseDelete leaves every variable in its type.
LEMMA ReleaseDeleteType ==
    ASSUME TypeOK, NEW g \in Guid, NEW k \in Attempt, ReleaseDelete(g, k)
    PROVE  TypeOK'
  <1>1. RunTypes'
    <2>1. freed' \in [Guid -> [Attempt -> BOOLEAN]]
      <3>1. CASE Live(g)
        <4>1. freed' = [freed EXCEPT ![g][mapS[g]] = TRUE] /\ mapS[g] \in Attempt
          BY <3>1, LiveObject DEF ReleaseDelete
        <4> QED
          BY <4>1 DEF TypeOK, RunTypes
      <3>2. CASE ~Live(g)
        BY <3>2 DEF TypeOK, RunTypes, ReleaseDelete
      <3> QED
        BY <3>1, <3>2
    <2> QED
      BY <2>1 DEF TypeOK, RunTypes, ReleaseDelete
  <1>2. SendTypes'
    <2>1. PICK r \in {"deleted", "done"} : rel' = [rel EXCEPT ![g][k] = r]
      BY DEF ReleaseDelete
    <2> QED
      BY <2>1 DEF TypeOK, SendTypes, ReleaseDelete
  <1>3. ChannelTypes' /\ RecvTypes' /\ UserTypes'
    BY DEF TypeOK, ChannelTypes, RecvTypes, UserTypes, ReleaseDelete, recvVars, userVars,
       bounds
  <1> QED
    BY <1>1, <1>2, <1>3 DEF TypeOK

\* A step ReleaseErase leaves every variable in its type.
LEMMA ReleaseEraseType ==
    ASSUME TypeOK, NEW g \in Guid, NEW k \in Attempt, ReleaseErase(g, k)
    PROVE  TypeOK'
  <1>1. SendTypes'
    BY ConstantAssumption DEF TypeOK, SendTypes, ReleaseErase, sendVars, NoObject
  <1>2. ChannelTypes' /\ RunTypes' /\ RecvTypes' /\ UserTypes'
    BY DEF TypeOK, ChannelTypes, RunTypes, RecvTypes, UserTypes, ReleaseErase, runVars,
       recvVars, userVars, bounds
  <1> QED
    BY <1>1, <1>2 DEF TypeOK

\* A step AcceptFile leaves every variable in its type.
LEMMA AcceptFileType ==
    ASSUME TypeOK, NEW g \in Guid, AcceptFile(g)
    PROVE  TypeOK'
  <1>1. ChannelTypes'
    BY HeadIsR, SendDataType, MsgS DEF TypeOK, ChannelTypes, AcceptFile, STypes
  <1>2. RecvTypes'
    <2>1. repo[g] \in Repository /\ disk[g] \in Seq(Nat) /\ Head(toR).a \in Nat
      BY HeadIsR DEF AcceptFile, TypeOK, RecvTypes
    <2>2. AcceptedRepository(g, Head(toR).a) \in Repository
      BY <2>1 DEF AcceptedRepository, Repository
    <2>3. Truncated(g) \in Seq(Nat)
      BY <2>1 DEF Truncated, Hole
    <2>4. PICK opened \in BOOLEAN, removed \in BOOLEAN :
             /\ repo' = [repo EXCEPT ![g] = IF opened THEN AcceptedRepository(g, Head(toR).a) ELSE @]
             /\ disk' = [disk EXCEPT ![g] = IF opened THEN Truncated(g)
                                            ELSE IF removed THEN <<>> ELSE @]
      BY DEF AcceptFile
    <2>5. repo' \in [Guid -> Repository]
      BY <2>1, <2>2, <2>4 DEF TypeOK, RecvTypes
    <2>6. disk' \in [Guid -> Seq(Nat)]
      BY <2>1, <2>3, <2>4 DEF TypeOK, RecvTypes
    <2> QED
      BY <2>5, <2>6 DEF TypeOK, RecvTypes, AcceptFile
  <1>3. RunTypes' /\ SendTypes' /\ UserTypes'
    BY DEF TypeOK, RunTypes, SendTypes, UserTypes, AcceptFile, runVars, sendVars,
       userVars, bounds
  <1> QED
    BY <1>1, <1>2, <1>3 DEF TypeOK

\* A step RefuseFile leaves every variable in its type.
LEMMA RefuseFileType ==
    ASSUME TypeOK, NEW g \in Guid, RefuseFile(g)
    PROVE  TypeOK'
  <1>1. ChannelTypes'
    BY HeadIsR, SendDataType, MsgS DEF TypeOK, ChannelTypes, RefuseFile, STypes
  <1>2. RunTypes' /\ SendTypes' /\ RecvTypes' /\ UserTypes'
    BY DEF TypeOK, RunTypes, SendTypes, RecvTypes, UserTypes, RefuseFile, runVars,
       sendVars, recvVars, userVars, bounds
  <1> QED
    BY <1>1, <1>2 DEF TypeOK

\* A step RecieveBlock leaves every variable in its type.
LEMMA RecieveBlockType ==
    ASSUME TypeOK, NEW g \in Guid, RecieveBlock(g)
    PROVE  TypeOK'
  <1>1. ChannelTypes'
    BY HeadIsR, DwordType, PushBackType, SendDataType, MsgS
    DEF TypeOK, ChannelTypes, RecieveBlock, STypes, RecvTypes, Repository
  <1>2. RecvTypes'
    <2>1. repo[g] \in Repository /\ disk[g] \in Seq(Nat) /\ Head(toR).a \in Nat /\ Head(toR).b \in Nat
      BY HeadIsR DEF RecieveBlock, TypeOK, RecvTypes
    <2>2. \A r \in Repository : Acknowledged(r) \in Repository
      BY DEF Acknowledged, Repository
    <2>3. Written(g, Head(toR).a, Head(toR).b) \in Seq(Nat)
      BY <2>1 DEF Written
    <2>4. PICK r \in Repository, d \in Seq(Nat) :
             repo' = [repo EXCEPT ![g] = r] /\ disk' = [disk EXCEPT ![g] = d]
      BY <2>1, <2>2, <2>3, PushBackType DEF RecieveBlock
    <2> QED
      BY <2>4 DEF TypeOK, RecvTypes, RecieveBlock
  <1>3. RunTypes' /\ SendTypes' /\ UserTypes'
    BY DEF TypeOK, RunTypes, SendTypes, UserTypes, RecieveBlock, runVars, sendVars,
       userVars, bounds
  <1> QED
    BY <1>1, <1>2, <1>3 DEF TypeOK

\* A step RecieveEnd leaves every variable in its type.
LEMMA RecieveEndType ==
    ASSUME TypeOK, NEW g \in Guid, RecieveEnd(g)
    PROVE  TypeOK'
  <1>1. ChannelTypes'
    <2>1. PICK t \in {"Succese_Recieve_File", "Failure_Recieve_File"} :
             toS' = SendData(toS, Msg(t, g, Head(toR).rok, 0, 0))
      BY DEF RecieveEnd
    <2>2. Msg(t, g, Head(toR).rok, 0, 0) \in MessageS
      BY HeadIsR, MsgS DEF RecieveEnd, STypes
    <2> QED
      BY <2>1, <2>2, HeadIsR, SendDataType DEF TypeOK, ChannelTypes, RecieveEnd
  <1>2. RecvTypes'
    <2>1. PICK o \in BOOLEAN : repo' = [repo EXCEPT ![g].open = o]
      BY HeadIsR DEF RecieveEnd, TypeOK, RecvTypes, Repository
    <2> QED
      BY <2>1 DEF TypeOK, RecvTypes, RecieveEnd, Repository
  <1>3. UserTypes'
    BY DEF TypeOK, UserTypes, RecieveEnd, userVars, bounds, Reported
  <1>4. RunTypes' /\ SendTypes'
    BY DEF TypeOK, RunTypes, SendTypes, RecieveEnd, runVars, sendVars
  <1> QED
    BY <1>1, <1>2, <1>3, <1>4 DEF TypeOK

\* A step RecieveTaskR leaves every variable in its type.
LEMMA RecieveTaskRType ==
    ASSUME TypeOK, NEW g \in Guid, RecieveTaskR(g)
    PROVE  TypeOK'
  <1>1. ChannelTypes'
    BY HeadIsR DEF TypeOK, ChannelTypes, RecieveTaskR
  <1>2. UserTypes'
    BY DEF TypeOK, UserTypes, RecieveTaskR, userVars, bounds, Reported
  <1>3. RunTypes' /\ SendTypes' /\ RecvTypes'
    BY DEF TypeOK, RunTypes, SendTypes, RecvTypes, RecieveTaskR, runVars, sendVars, recvVars
  <1> QED
    BY <1>1, <1>2, <1>3 DEF TypeOK

\* A step CanSendFile leaves every variable in its type.
LEMMA CanSendFileType ==
    ASSUME TypeOK, NEW g \in Guid, CanSendFile(g)
    PROVE  TypeOK'
  <1>1. ChannelTypes'
    BY HeadIsS DEF TypeOK, ChannelTypes, CanSendFile
  <1>2. RunTypes'
    <2>1. des' \in [Guid -> [Attempt -> BOOLEAN]]
      <3>1. CASE Live(g)
        <4>1. des' = [des EXCEPT ![g][mapS[g]] = Head(toS).rok] /\ mapS[g] \in Attempt
          BY <3>1, LiveObject DEF CanSendFile
        <4>2. Head(toS).rok \in BOOLEAN
          BY HeadIsS DEF CanSendFile
        <4> QED
          BY <4>1, <4>2 DEF TypeOK, RunTypes
      <3>2. CASE ~Live(g)
        BY <3>2 DEF TypeOK, RunTypes, CanSendFile
      <3> QED
        BY <3>1, <3>2
    <2> QED
      BY <2>1, ResumeChildThreadType DEF TypeOK, RunTypes, CanSendFile
  <1>3. SendTypes' /\ RecvTypes' /\ UserTypes'
    BY DEF TypeOK, SendTypes, RecvTypes, UserTypes, CanSendFile, sendVars, recvVars,
       userVars, bounds
  <1> QED
    BY <1>1, <1>2, <1>3 DEF TypeOK

\* A step IgnoreRefusal leaves every variable in its type.
LEMMA IgnoreRefusalType ==
    ASSUME TypeOK, NEW g \in Guid, IgnoreRefusal(g)
    PROVE  TypeOK'
  <1>1. ChannelTypes'
    BY HeadIsS DEF TypeOK, ChannelTypes, IgnoreRefusal
  <1>2. RunTypes' /\ SendTypes' /\ RecvTypes' /\ UserTypes'
    BY DEF TypeOK, RunTypes, SendTypes, RecvTypes, UserTypes, IgnoreRefusal, runVars,
       sendVars, recvVars, userVars, bounds
  <1> QED
    BY <1>1, <1>2 DEF TypeOK

\* A step ShakeAck leaves every variable in its type.
LEMMA ShakeAckType ==
    ASSUME TypeOK, NEW g \in Guid, ShakeAck(g)
    PROVE  TypeOK'
  <1>1. ChannelTypes'
    BY HeadIsS DEF TypeOK, ChannelTypes, ShakeAck
  <1>2. UserTypes'
    BY HeadIsS DEF TypeOK, UserTypes, ShakeAck, userVars, bounds, Finished
  <1>3. RunTypes' /\ SendTypes' /\ RecvTypes'
    BY DEF TypeOK, RunTypes, SendTypes, RecvTypes, ShakeAck, runVars, sendVars, recvVars
  <1> QED
    BY <1>1, <1>2, <1>3 DEF TypeOK

\* A step SendFileResult leaves every variable in its type.
LEMMA SendFileResultType ==
    ASSUME TypeOK, NEW g \in Guid, SendFileResult(g)
    PROVE  TypeOK'
  <1>1. ChannelTypes'
    BY HeadIsS DEF TypeOK, ChannelTypes, SendFileResult
  <1>2. UserTypes'
    BY DEF TypeOK, UserTypes, SendFileResult, userVars, bounds, Reported
  <1>3. RunTypes' /\ SendTypes' /\ RecvTypes'
    BY
    DEF TypeOK, RunTypes, SendTypes, RecvTypes, SendFileResult, runVars, sendVars, recvVars
  <1> QED
    BY <1>1, <1>2, <1>3 DEF TypeOK

\* A step InterruptTask leaves every variable in its type.
LEMMA InterruptTaskType ==
    ASSUME TypeOK, NEW g \in Guid, InterruptTask(g)
    PROVE  TypeOK'
  <1>1. ChannelTypes'
    BY HeadIsS DEF TypeOK, ChannelTypes, InterruptTask
  <1>2. RunTypes'
    BY SuspendChildThreadType DEF TypeOK, RunTypes, InterruptTask
  <1>3. SendTypes' /\ RecvTypes' /\ UserTypes'
    BY DEF TypeOK, SendTypes, RecvTypes, UserTypes, InterruptTask, sendVars, recvVars,
       userVars, bounds
  <1> QED
    BY <1>1, <1>2, <1>3 DEF TypeOK

\* A step RestartTask leaves every variable in its type.
LEMMA RestartTaskType ==
    ASSUME TypeOK, NEW g \in Guid, RestartTask(g)
    PROVE  TypeOK'
  <1>1. ChannelTypes'
    BY HeadIsS DEF TypeOK, ChannelTypes, RestartTask
  <1>2. RunTypes'
    BY ResumeChildThreadType DEF TypeOK, RunTypes, RestartTask
  <1>3. SendTypes' /\ RecvTypes' /\ UserTypes'
    BY DEF TypeOK, SendTypes, RecvTypes, UserTypes, RestartTask, sendVars, recvVars,
       userVars, bounds
  <1> QED
    BY <1>1, <1>2, <1>3 DEF TypeOK

\* A step CancleTask leaves every variable in its type.
LEMMA CancleTaskType ==
    ASSUME TypeOK, NEW g \in Guid, CancleTask(g)
    PROVE  TypeOK'
  <1>1. ChannelTypes'
    BY HeadIsS DEF TypeOK, ChannelTypes, CancleTask
  <1>2. RunTypes'
    BY UnAttachType DEF TypeOK, RunTypes, CancleTask
  <1>3. UserTypes'
    BY DEF TypeOK, UserTypes, CancleTask, userVars, bounds, Reported
  <1>4. SendTypes' /\ RecvTypes'
    BY DEF TypeOK, SendTypes, RecvTypes, CancleTask, sendVars, recvVars
  <1> QED
    BY <1>1, <1>2, <1>3, <1>4 DEF TypeOK

\* The close of the channel keeps the types: what is left of a queue is a queue.
LEMMA CloseChannelType ==
    ASSUME TypeOK, CloseChannel
    PROVE  TypeOK'
  <1>1. ChannelTypes'
    <2>1. PICK i \in 0..Len(toR), j \in 0..Len(toS) :
             toR' = SubSeq(toR, 1, i) /\ toS' = SubSeq(toS, 1, j)
      BY DEF CloseChannel
    <2>2. toR' \in Seq(MessageR)
      BY <2>1 DEF TypeOK, ChannelTypes
    <2>3. toS' \in Seq(MessageS)
      BY <2>1 DEF TypeOK, ChannelTypes
    <2> QED
      BY <2>2, <2>3 DEF CloseChannel, ChannelTypes
  <1>2. RunTypes' /\ SendTypes' /\ RecvTypes' /\ UserTypes'
    BY
    DEF TypeOK, RunTypes, SendTypes, RecvTypes, UserTypes, CloseChannel, runVars, sendVars,
           recvVars, userVars, bounds
  <1> QED
    BY <1>1, <1>2 DEF TypeOK

\* Every step keeps the types: one action after the other.
LEMMA TypeStep ==
    ASSUME TypeOK, [Next]_vars
    PROVE  TypeOK'
  <1>1. ASSUME NEW g \in Guid, UserS(g) \/ UserR(g) \/ HandleR(g) \/ HandleS(g)
        PROVE  TypeOK'
    BY <1>1, SendFileType, InterruptFileTaskSType, RestartFileTaskSType,
       CancleFileTaskSType,
       CreateRecieveFileType, InterruptFileTaskRType, RestartFileTaskRType, CancleFileTaskRType,
       AcceptFileType, RefuseFileType, RecieveBlockType, RecieveEndType,
       RecieveTaskRType, CanSendFileType, IgnoreRefusalType, ShakeAckType,
       SendFileResultType, InterruptTaskType, RestartTaskType, CancleTaskType
    DEF UserS, UserR, HandleR, HandleS
  <1>2. ASSUME NEW g \in Guid, NEW k \in Attempt,
               Run(g, k) \/ ReleaseRun(g, k) \/ SpuriousWakeup(g, k)
        PROVE  TypeOK'
    BY <1>2, RunStartType, RunSetEventType, RunCheckType, RunReadBlockType, RunSendBlockType,
       RunTestSkipType, RunEndLoopType, RunDigestType, ReleaseType, ReleaseDeleteType,
       ReleaseEraseType, SpuriousWakeupType
    DEF Run, ReleaseRun
  <1>3. CASE UNCHANGED vars
    BY <1>3
    DEF TypeOK, ChannelTypes, RunTypes, SendTypes, RecvTypes, UserTypes, vars, runVars,
                sendVars, recvVars, userVars, bounds
  <1> QED
    BY <1>1, <1>2, <1>3, CloseChannelType DEF Next

\* The variables have their types in every reachable state, whatever the
\* number of transfers, of calls and of blocks.
THEOREM TypeCorrect == Spec => []TypeOK
  <1>1. Init => TypeOK
    BY TypeInit
  <1>2. TypeOK /\ [Next]_vars => TypeOK'
    BY TypeStep
  <1> QED
    BY <1>1, <1>2, PTL DEF Spec

-----------------------------------------------------------------------------
(* No block before the acceptance.  The property is not inductive: that    *)
(* Run enters its loop only after an acceptance is known from the guid     *)
(* that its object recorded, and the object got it from an answer in       *)
(* flight.  AcceptInv adds that both are backed by the receiver's          *)
(* repository.                                                             *)

\* The receiver never takes a repository out of its data box.
BoxesStay == \A g \in Guid : repo[g].box => repo'[g].box

\* A message appended by SendData, or the head taken by a handler, leaves
\* the claim about blocks in flight true.
LEMMA BlocksAfterSend ==
    ASSUME TypeOK, BlocksWanted, UNCHANGED repo, NEW m \in MessageR,
           m.type = "Send_File" => repo[m.guid].box, toR' = SendData(toR, m)
    PROVE  BlocksWanted'
  <1>1. toR \in Seq(MessageR)
    BY DEF TypeOK, ChannelTypes
  <1>2. CASE up
    <2>1. toR' = Append(toR, m)
      BY <1>2 DEF SendData
    <2>2. \A i \in DOMAIN toR' : (i \in DOMAIN toR /\ toR'[i] = toR[i]) \/ toR'[i] = m
      BY <1>1, <2>1
    <2> QED
      BY <2>2 DEF BlocksWanted
  <1>3. CASE ~up
    BY <1>3 DEF SendData, BlocksWanted
  <1> QED
    BY <1>2, <1>3

\* The same when a handler takes the head, also when it adds a box.
LEMMA BlocksAfterTail ==
    ASSUME TypeOK, BlocksWanted, BoxesStay, NEW t, NEW h, HeadIs(toR, t, h), toR' = Tail(toR)
    PROVE  BlocksWanted'
  <1>1. toR \in Seq(MessageR) /\ toR # <<>>
    BY DEF TypeOK, ChannelTypes, HeadIs
  <1>2. \A i \in DOMAIN toR' : i + 1 \in DOMAIN toR /\ toR'[i] = toR[i + 1]
    BY <1>1
  <1>3. \A i \in DOMAIN toR : toR[i].guid \in Guid
    <2>1. \A i \in DOMAIN toR : toR[i] \in MessageR
      BY <1>1
    <2> QED
      BY <2>1 DEF MessageR, Message
  <1> QED
    BY <1>2, <1>3 DEF BlocksWanted, BoxesStay

\* The same for the answers to the sender.
LEMMA AnswersAfterSend ==
    ASSUME TypeOK, AnswersBacked, BoxesStay, NEW m \in MessageS,
           m.type = "Can_Continue_Send" /\ m.rok => repo'[m.guid].box, toS' = SendData(toS, m)
    PROVE  AnswersBacked'
  <1>1. toS \in Seq(MessageS)
    BY DEF TypeOK, ChannelTypes
  <1>2. \A i \in DOMAIN toS : toS[i].guid \in Guid
    <2>1. \A i \in DOMAIN toS : toS[i] \in MessageS
      BY <1>1
    <2> QED
      BY <2>1 DEF MessageS, Message
  <1>3. CASE up
    <2>1. toS' = Append(toS, m)
      BY <1>3 DEF SendData
    <2>2. \A i \in DOMAIN toS' : (i \in DOMAIN toS /\ toS'[i] = toS[i]) \/ toS'[i] = m
      BY <1>1, <2>1
    <2> QED
      BY <1>2, <2>2 DEF AnswersBacked, BoxesStay
  <1>4. CASE ~up
    BY <1>2, <1>4 DEF SendData, AnswersBacked, BoxesStay
  <1> QED
    BY <1>3, <1>4

\* The same when S handles the head.
LEMMA AnswersAfterTail ==
    ASSUME TypeOK, AnswersBacked, UNCHANGED repo, NEW t, NEW h, HeadIs(toS, t, h),
           toS' = Tail(toS)
    PROVE  AnswersBacked'
  <1>1. toS \in Seq(MessageS) /\ toS # <<>>
    BY DEF TypeOK, ChannelTypes, HeadIs
  <1>2. \A i \in DOMAIN toS' : i + 1 \in DOMAIN toS /\ toS'[i] = toS[i + 1]
    BY <1>1
  <1> QED
    BY <1>2 DEF AnswersBacked

\* The same when nothing is sent.
LEMMA AnswersStay ==
    ASSUME TypeOK, AnswersBacked, BoxesStay, toS' = toS
    PROVE  AnswersBacked'
  <1>1. toS \in Seq(MessageS)
    BY DEF TypeOK, ChannelTypes
  <1>2. \A i \in DOMAIN toS : toS[i] \in MessageS
    BY <1>1
  <1>3. \A i \in DOMAIN toS : toS[i].guid \in Guid
    BY <1>2 DEF MessageS, Message
  <1> QED
    BY <1>3 DEF AnswersBacked, BoxesStay

\* A step that starts no sending, records no acceptance and takes no box away.
LEMMA QuietStep ==
    ASSUME AcceptInv, BoxesStay, UNCHANGED des,
           \A g \in Guid, k \in Attempt : pc'[g][k] \in Sending => pc[g][k] \in Sending
    PROVE  SendingWanted' /\ RecordsBacked'
  BY DEF AcceptInv, NoDataBeforeAccept, SendingWanted, RecordsBacked, BoxesStay

\* ResetEvent wakes a paused Run to go on sending, and starts no other.
LEMMA NotifyAllQuiet ==
    ASSUME TypeOK, NEW g \in Guid, NEW o, NotifyAll(g, o)
    PROVE  \A h \in Guid, k \in Attempt : pc'[h][k] \in Sending => pc[h][k] \in Sending
  <1>1. pc \in [Guid -> [Attempt -> PCs]]
    BY DEF TypeOK, RunTypes
  <1>2. \A p : Woken(p) \in Sending => p \in Sending
    BY DEF Woken, Sending, Turn
  <1>3. pc' = [pc EXCEPT ![g] = [k \in Attempt |->
                  IF on[g][k] = o THEN Woken(pc[g][k]) ELSE pc[g][k]]]
    BY DEF NotifyAll
  <1> QED
    BY <1>1, <1>2, <1>3

\* A step SendFile keeps the invariant.
LEMMA SendFileAccept ==
    ASSUME AcceptInv, NEW g \in Guid, SendFile(g)
    PROVE  AcceptInv'
  <1> TypeOK /\ TypeOK'
    BY SendFileType DEF AcceptInv
  <1>1. BoxesStay
    BY DEF SendFile, BoxesStay, recvVars
  <1>2. \A h \in Guid, j \in Attempt : pc'[h][j] \in Sending => pc[h][j] \in Sending
    <2>1. pc' = [pc EXCEPT ![g][sends[g] + 1] = "start"]
      BY DEF SendFile
    <2> QED
      BY <2>1 DEF TypeOK, RunTypes, Sending, Turn
  <1>3. SendingWanted' /\ RecordsBacked'
    BY <1>1, <1>2, QuietStep DEF SendFile, runVars
  <1>4. BlocksWanted'
    BY DEF AcceptInv, NoDataBeforeAccept, BlocksWanted, SendFile, recvVars
  <1>5. AnswersBacked'
    BY DEF AcceptInv, AnswersBacked, SendFile, recvVars
  <1> QED
    BY <1>3, <1>4, <1>5 DEF AcceptInv, NoDataBeforeAccept

\* A step InterruptFileTaskS keeps the invariant.
LEMMA InterruptFileTaskSAccept ==
    ASSUME AcceptInv, NEW g \in Guid, InterruptFileTaskS(g)
    PROVE  AcceptInv'
  <1> TypeOK /\ TypeOK'
    BY InterruptFileTaskSType DEF AcceptInv
  <1>1. BoxesStay
    BY DEF InterruptFileTaskS, BoxesStay, recvVars
  <1>2. \A h \in Guid, j \in Attempt : pc'[h][j] \in Sending => pc[h][j] \in Sending
    BY DEF InterruptFileTaskS, runVars
  <1>3. SendingWanted' /\ RecordsBacked'
    BY <1>1, <1>2, QuietStep DEF InterruptFileTaskS, runVars
  <1>4. BlocksWanted'
    <2>1. Msg("Interrupt", g, FALSE, 0, 0) \in MessageR
      BY MsgR DEF RTypes, TaskTypes
    <2> QED
      BY <2>1, BlocksAfterSend
      DEF AcceptInv, NoDataBeforeAccept, InterruptFileTaskS, recvVars, Msg
  <1>5. AnswersBacked'
    BY DEF AcceptInv, AnswersBacked, InterruptFileTaskS, recvVars
  <1> QED
    BY <1>3, <1>4, <1>5 DEF AcceptInv, NoDataBeforeAccept

\* A step RestartFileTaskS keeps the invariant.
LEMMA RestartFileTaskSAccept ==
    ASSUME AcceptInv, NEW g \in Guid, RestartFileTaskS(g)
    PROVE  AcceptInv'
  <1> TypeOK /\ TypeOK'
    BY RestartFileTaskSType DEF AcceptInv
  <1>1. BoxesStay
    BY DEF RestartFileTaskS, BoxesStay, recvVars
  <1>2. \A h \in Guid, j \in Attempt : pc'[h][j] \in Sending => pc[h][j] \in Sending
    BY NotifyAllQuiet DEF RestartFileTaskS, Resume
  <1>3. SendingWanted' /\ RecordsBacked'
    BY <1>1, <1>2, QuietStep DEF RestartFileTaskS, runVars
  <1>4. BlocksWanted'
    <2>1. Msg("Restart", g, FALSE, 0, 0) \in MessageR
      BY MsgR DEF RTypes, TaskTypes
    <2> QED
      BY <2>1, BlocksAfterSend
      DEF AcceptInv, NoDataBeforeAccept, RestartFileTaskS, recvVars, Msg
  <1>5. AnswersBacked'
    BY DEF AcceptInv, AnswersBacked, RestartFileTaskS, recvVars
  <1> QED
    BY <1>3, <1>4, <1>5 DEF AcceptInv, NoDataBeforeAccept

\* A step CancleFileTaskS keeps the invariant.
LEMMA CancleFileTaskSAccept ==
    ASSUME AcceptInv, NEW g \in Guid, CancleFileTaskS(g)
    PROVE  AcceptInv'
  <1> TypeOK /\ TypeOK'
    BY CancleFileTaskSType DEF AcceptInv
  <1>1. BoxesStay
    BY DEF CancleFileTaskS, BoxesStay, recvVars
  <1>2. \A h \in Guid, j \in Attempt : pc'[h][j] \in Sending => pc[h][j] \in Sending
    BY DEF CancleFileTaskS, runVars
  <1>3. SendingWanted' /\ RecordsBacked'
    BY <1>1, <1>2, QuietStep DEF CancleFileTaskS, runVars
  <1>4. BlocksWanted'
    <2>1. Msg("Cancle", g, FALSE, 0, 0) \in MessageR
      BY MsgR DEF RTypes, TaskTypes
    <2> QED
      BY <2>1, BlocksAfterSend
      DEF AcceptInv, NoDataBeforeAccept, CancleFileTaskS, recvVars, Msg
  <1>5. AnswersBacked'
    BY DEF AcceptInv, AnswersBacked, CancleFileTaskS, recvVars
  <1> QED
    BY <1>3, <1>4, <1>5 DEF AcceptInv, NoDataBeforeAccept

\* A step CreateRecieveFile keeps the invariant.
LEMMA CreateRecieveFileAccept ==
    ASSUME AcceptInv, NEW g \in Guid, CreateRecieveFile(g)
    PROVE  AcceptInv'
  <1> TypeOK /\ TypeOK'
    BY CreateRecieveFileType DEF AcceptInv
  <1>1. BoxesStay
    BY DEF CreateRecieveFile, BoxesStay, recvVars
  <1>2. \A h \in Guid, j \in Attempt : pc'[h][j] \in Sending => pc[h][j] \in Sending
    BY DEF CreateRecieveFile, runVars
  <1>3. SendingWanted' /\ RecordsBacked'
    BY <1>1, <1>2, QuietStep DEF CreateRecieveFile, runVars
  <1>4. BlocksWanted'
    BY DEF AcceptInv, NoDataBeforeAccept, BlocksWanted, CreateRecieveFile, recvVars
  <1>5. AnswersBacked'
    BY DEF AcceptInv, AnswersBacked, CreateRecieveFile, recvVars
  <1> QED
    BY <1>3, <1>4, <1>5 DEF AcceptInv, NoDataBeforeAccept

\* A step InterruptFileTaskR keeps the invariant.
LEMMA InterruptFileTaskRAccept ==
    ASSUME AcceptInv, NEW g \in Guid, InterruptFileTaskR(g)
    PROVE  AcceptInv'
  <1> TypeOK /\ TypeOK'
    BY InterruptFileTaskRType DEF AcceptInv
  <1>1. BoxesStay
    BY DEF InterruptFileTaskR, BoxesStay, recvVars
  <1>2. \A h \in Guid, j \in Attempt : pc'[h][j] \in Sending => pc[h][j] \in Sending
    BY DEF InterruptFileTaskR, runVars
  <1>3. SendingWanted' /\ RecordsBacked'
    BY <1>1, <1>2, QuietStep DEF InterruptFileTaskR, runVars
  <1>4. BlocksWanted'
    BY DEF AcceptInv, NoDataBeforeAccept, BlocksWanted, InterruptFileTaskR, recvVars
  <1>5. AnswersBacked'
    <2>1. Msg("Interrupt", g, FALSE, 0, 0) \in MessageS
      BY MsgS DEF STypes, TaskTypes
    <2> QED
      BY <1>1, <2>1, AnswersAfterSend DEF AcceptInv, InterruptFileTaskR, Msg
  <1> QED
    BY <1>3, <1>4, <1>5 DEF AcceptInv, NoDataBeforeAccept

\* A step RestartFileTaskR keeps the invariant.
LEMMA RestartFileTaskRAccept ==
    ASSUME AcceptInv, NEW g \in Guid, RestartFileTaskR(g)
    PROVE  AcceptInv'
  <1> TypeOK /\ TypeOK'
    BY RestartFileTaskRType DEF AcceptInv
  <1>1. BoxesStay
    BY DEF RestartFileTaskR, BoxesStay, recvVars
  <1>2. \A h \in Guid, j \in Attempt : pc'[h][j] \in Sending => pc[h][j] \in Sending
    BY DEF RestartFileTaskR, runVars
  <1>3. SendingWanted' /\ RecordsBacked'
    BY <1>1, <1>2, QuietStep DEF RestartFileTaskR, runVars
  <1>4. BlocksWanted'
    BY DEF AcceptInv, NoDataBeforeAccept, BlocksWanted, RestartFileTaskR, recvVars
  <1>5. AnswersBacked'
    <2>1. Msg("Restart", g, FALSE, 0, 0) \in MessageS
      BY MsgS DEF STypes, TaskTypes
    <2> QED
      BY <1>1, <2>1, AnswersAfterSend DEF AcceptInv, RestartFileTaskR, Msg
  <1> QED
    BY <1>3, <1>4, <1>5 DEF AcceptInv, NoDataBeforeAccept

\* A step CancleFileTaskR keeps the invariant.
LEMMA CancleFileTaskRAccept ==
    ASSUME AcceptInv, NEW g \in Guid, CancleFileTaskR(g)
    PROVE  AcceptInv'
  <1> TypeOK /\ TypeOK'
    BY CancleFileTaskRType DEF AcceptInv
  <1>1. BoxesStay
    BY DEF CancleFileTaskR, BoxesStay, recvVars
  <1>2. \A h \in Guid, j \in Attempt : pc'[h][j] \in Sending => pc[h][j] \in Sending
    BY DEF CancleFileTaskR, runVars
  <1>3. SendingWanted' /\ RecordsBacked'
    BY <1>1, <1>2, QuietStep DEF CancleFileTaskR, runVars
  <1>4. BlocksWanted'
    BY DEF AcceptInv, NoDataBeforeAccept, BlocksWanted, CancleFileTaskR, recvVars
  <1>5. AnswersBacked'
    <2>1. Msg("Cancle", g, FALSE, 0, 0) \in MessageS
      BY MsgS DEF STypes, TaskTypes
    <2> QED
      BY <1>1, <2>1, AnswersAfterSend DEF AcceptInv, CancleFileTaskR, Msg
  <1> QED
    BY <1>3, <1>4, <1>5 DEF AcceptInv, NoDataBeforeAccept

\* A step RunStart keeps the invariant.
LEMMA RunStartAccept ==
    ASSUME AcceptInv, NEW g \in Guid, NEW k \in Attempt, RunStart(g, k)
    PROVE  AcceptInv'
  <1> TypeOK /\ TypeOK'
    BY RunStartType DEF AcceptInv
  <1>1. BoxesStay
    BY DEF RunStart, BoxesStay, recvVars
  <1>2. \A h \in Guid, j \in Attempt : pc'[h][j] \in Sending => pc[h][j] \in Sending
    BY DEF RunStart, Goto, TypeOK, RunTypes, Sending, Turn
  <1>3. SendingWanted' /\ RecordsBacked'
    BY <1>1, <1>2, QuietStep DEF RunStart, runVars
  <1>4. BlocksWanted'
    <2>1. Msg("Create_File", g, FALSE, Dword(FileSize[g]), 0) \in MessageR
      BY ConstantAssumption, DwordType, MsgR DEF RTypes, TaskTypes
    <2> QED
      BY <2>1, BlocksAfterSend DEF AcceptInv, NoDataBeforeAccept, RunStart, recvVars, Msg
  <1>5. AnswersBacked'
    BY DEF AcceptInv, AnswersBacked, RunStart, recvVars
  <1> QED
    BY <1>3, <1>4, <1>5 DEF AcceptInv, NoDataBeforeAccept

\* A step RunSetEvent keeps the invariant.
LEMMA RunSetEventAccept ==
    ASSUME AcceptInv, NEW g \in Guid, NEW k \in Attempt, RunSetEvent(g, k)
    PROVE  AcceptInv'
  <1> TypeOK /\ TypeOK'
    BY RunSetEventType DEF AcceptInv
  <1>1. BoxesStay
    BY DEF RunSetEvent, BoxesStay, recvVars
  <1>2. \A h \in Guid, j \in Attempt : pc'[h][j] \in Sending => pc[h][j] \in Sending
    <2>1. CASE pc[g][k] = "to_failwait" /\ Goto(g, k, "failwait")
      BY <2>1 DEF Goto, TypeOK, RunTypes, Sending, Turn
    <2>2. CASE pc[g][k] = "to_wait" /\ Goto(g, k, "wait")
      BY <2>2 DEF Goto, TypeOK, RunTypes, Sending, Turn
    <2>3. CASE pc[g][k] = "to_pause" /\ Goto(g, k, "pause")
      BY <2>3 DEF Goto, TypeOK, RunTypes, Sending, Turn
    <2> QED
      BY <2>1, <2>2, <2>3 DEF RunSetEvent
  <1>3. SendingWanted' /\ RecordsBacked'
    BY <1>1, <1>2, QuietStep DEF RunSetEvent, runVars
  <1>4. BlocksWanted'
    BY DEF AcceptInv, NoDataBeforeAccept, BlocksWanted, RunSetEvent, recvVars
  <1>5. AnswersBacked'
    BY DEF AcceptInv, AnswersBacked, RunSetEvent, recvVars
  <1> QED
    BY <1>3, <1>4, <1>5 DEF AcceptInv, NoDataBeforeAccept

\* A step SpuriousWakeup keeps the invariant.
LEMMA SpuriousWakeupAccept ==
    ASSUME AcceptInv, NEW g \in Guid, NEW k \in Attempt, SpuriousWakeup(g, k)
    PROVE  AcceptInv'
  <1> TypeOK /\ TypeOK'
    BY SpuriousWakeupType DEF AcceptInv
  <1>1. BoxesStay
    BY DEF SpuriousWakeup, BoxesStay, recvVars
  <1>2. \A h \in Guid, j \in Attempt : pc'[h][j] \in Sending => pc[h][j] \in Sending
    BY DEF SpuriousWakeup, Goto, Woken, TypeOK, RunTypes, Sending, Turn
  <1>3. SendingWanted' /\ RecordsBacked'
    BY <1>1, <1>2, QuietStep DEF SpuriousWakeup, runVars
  <1>4. BlocksWanted'
    BY DEF AcceptInv, NoDataBeforeAccept, BlocksWanted, SpuriousWakeup, recvVars
  <1>5. AnswersBacked'
    BY DEF AcceptInv, AnswersBacked, SpuriousWakeup, recvVars
  <1> QED
    BY <1>3, <1>4, <1>5 DEF AcceptInv, NoDataBeforeAccept

\* Run enters its loop only if its object has a guid, which is backed.
LEMMA RunCheckAccept ==
    ASSUME AcceptInv, NEW g \in Guid, NEW k \in Attempt, RunCheck(g, k)
    PROVE  AcceptInv'
  <1> TypeOK /\ TypeOK'
    BY RunCheckType DEF AcceptInv
  <1>1. BoxesStay
    BY DEF RunCheck, BoxesStay, recvVars
  <1>2. pc[g][k] = "check" /\ pc' = [pc EXCEPT ![g][k] = IF des[g][on[g][k]] THEN "loop" ELSE "release"]
    BY DEF RunCheck, Goto, Accepted
  <1>3. SendingWanted' /\ RecordsBacked'
    <2>1. on[g][k] \in Attempt
      BY DEF TypeOK, RunTypes
    <2>2. des[g][on[g][k]] => repo[g].box
      BY <2>1 DEF AcceptInv, RecordsBacked
    <2>3. SendingWanted'
      BY <1>1, <1>2, <2>2 DEF AcceptInv, NoDataBeforeAccept, SendingWanted, BoxesStay,
         Sending, Turn, TypeOK, RunTypes
    <2>4. RecordsBacked'
      BY <1>1 DEF RunCheck, AcceptInv, RecordsBacked, BoxesStay
    <2> QED
      BY <2>3, <2>4
  <1>4. BlocksWanted'
    BY DEF AcceptInv, NoDataBeforeAccept, BlocksWanted, RunCheck, recvVars
  <1>5. AnswersBacked'
    BY DEF AcceptInv, AnswersBacked, RunCheck, recvVars
  <1> QED
    BY <1>3, <1>4, <1>5 DEF AcceptInv, NoDataBeforeAccept

\* The steps of Run that send nothing and stay in the loop, or leave it.
LEMMA RunTurnAccept ==
    ASSUME AcceptInv, NEW g \in Guid, NEW k \in Attempt,
           RunReadBlock(g, k) \/ RunTestSkip(g, k) \/ RunDigest(g, k)
    PROVE  AcceptInv'
  <1> TypeOK /\ TypeOK'
    BY RunReadBlockType, RunTestSkipType, RunDigestType DEF AcceptInv
  <1>1. UNCHANGED <<repo, des, toR, toS>>
    BY DEF RunReadBlock, RunTestSkip, RunDigest, recvVars
  <1>2. \A h \in Guid, j \in Attempt : pc'[h][j] \in Sending => pc[h][j] \in Sending
    <2>1. /\ pc[g][k] \in {"loop", "test", "release"}
          /\ \E p \in {"send", "to_pause", "loop", "end"} :
                /\ pc' = [pc EXCEPT ![g][k] = p]
                /\ p = "end" \/ pc[g][k] # "release"
      BY DEF RunReadBlock, RunTestSkip, RunDigest, Goto
    <2> QED
      BY <2>1 DEF TypeOK, RunTypes, Sending, Turn
  <1>3. SendingWanted' /\ RecordsBacked'
    BY <1>1, <1>2, QuietStep DEF BoxesStay
  <1>4. BlocksWanted' /\ AnswersBacked'
    BY <1>1 DEF AcceptInv, NoDataBeforeAccept, BlocksWanted, AnswersBacked
  <1> QED
    BY <1>3, <1>4 DEF AcceptInv, NoDataBeforeAccept

\* A block is sent by a Run that is in its loop, so it is wanted.
LEMMA RunSendBlockAccept ==
    ASSUME AcceptInv, NEW g \in Guid, NEW k \in Attempt, RunSendBlock(g, k)
    PROVE  AcceptInv'
  <1> TypeOK /\ TypeOK'
    BY RunSendBlockType DEF AcceptInv
  <1>1. BoxesStay
    BY DEF RunSendBlock, BoxesStay, recvVars
  <1>2. \A h \in Guid, j \in Attempt : pc'[h][j] \in Sending => pc[h][j] \in Sending
    BY DEF RunSendBlock, Goto, TypeOK, RunTypes, Sending, Turn
  <1>3. SendingWanted' /\ RecordsBacked'
    BY <1>1, <1>2, QuietStep DEF RunSendBlock, runVars
  <1>4. BlocksWanted'
    <2>1. repo[g].box
      BY DEF RunSendBlock, AcceptInv, NoDataBeforeAccept, SendingWanted, Sending, Turn
    <2> DEFINE m == Msg("Send_File", g, pack[g][k].rok, pack[g][k].index, pack[g][k].size)
    <2>4. m \in MessageR /\ m.guid = g
      BY PacketR DEF Msg
    <2>5. toR' = SendData(toR, m) /\ UNCHANGED repo
      BY DEF RunSendBlock, SendBlock, recvVars
    <2> HIDE DEF m
    <2> QED
      BY <2>1, <2>4, <2>5, BlocksAfterSend DEF AcceptInv, NoDataBeforeAccept
  <1>5. AnswersBacked'
    BY DEF AcceptInv, AnswersBacked, RunSendBlock, recvVars
  <1> QED
    BY <1>3, <1>4, <1>5 DEF AcceptInv, NoDataBeforeAccept

\* A step RunEndLoop keeps the invariant.
LEMMA RunEndLoopAccept ==
    ASSUME AcceptInv, NEW g \in Guid, NEW k \in Attempt, RunEndLoop(g, k)
    PROVE  AcceptInv'
  <1> TypeOK /\ TypeOK'
    BY RunEndLoopType DEF AcceptInv
  <1>1. BoxesStay
    BY DEF RunEndLoop, BoxesStay, recvVars
  <1>2. \A h \in Guid, j \in Attempt : pc'[h][j] \in Sending => pc[h][j] \in Sending
    BY DEF RunEndLoop, Goto, TypeOK, RunTypes, Sending, Turn
  <1>3. SendingWanted' /\ RecordsBacked'
    BY <1>1, <1>2, QuietStep DEF RunEndLoop, runVars
  <1>4. BlocksWanted'
    BY DEF AcceptInv, NoDataBeforeAccept, BlocksWanted, RunEndLoop, recvVars
  <1>5. AnswersBacked'
    BY DEF AcceptInv, AnswersBacked, RunEndLoop, recvVars
  <1> QED
    BY <1>3, <1>4, <1>5 DEF AcceptInv, NoDataBeforeAccept

\* A step Release keeps the invariant.
LEMMA ReleaseAccept ==
    ASSUME AcceptInv, NEW g \in Guid, NEW k \in Attempt, Release(g, k)
    PROVE  AcceptInv'
  <1> TypeOK /\ TypeOK'
    BY ReleaseType DEF AcceptInv
  <1>1. BoxesStay
    BY DEF Release, BoxesStay, recvVars
  <1>2. \A h \in Guid, j \in Attempt : pc'[h][j] \in Sending => pc[h][j] \in Sending
    BY DEF Release, Goto, TypeOK, RunTypes, Sending, Turn
  <1>3. SendingWanted' /\ RecordsBacked'
    BY <1>1, <1>2, QuietStep DEF Release, runVars
  <1>4. BlocksWanted'
    <2>1. PICK d \in Digests(g, k) :
             toR' = SendData(toR, Msg("End_Send_File", g, Accepted(g, k), d, 0))
      BY DEF Release, SendEnd
    <2>2. Msg("End_Send_File", g, Accepted(g, k), d, 0) \in MessageR
      BY EndR
    <2> QED
      BY <2>1, <2>2, BlocksAfterSend
      DEF AcceptInv, NoDataBeforeAccept, Release, recvVars, Msg
  <1>5. AnswersBacked'
    BY DEF AcceptInv, AnswersBacked, Release, recvVars
  <1> QED
    BY <1>3, <1>4, <1>5 DEF AcceptInv, NoDataBeforeAccept

\* A step ReleaseDelete keeps the invariant.
LEMMA ReleaseDeleteAccept ==
    ASSUME AcceptInv, NEW g \in Guid, NEW k \in Attempt, ReleaseDelete(g, k)
    PROVE  AcceptInv'
  <1> TypeOK /\ TypeOK'
    BY ReleaseDeleteType DEF AcceptInv
  <1>1. BoxesStay
    BY DEF ReleaseDelete, BoxesStay, recvVars
  <1>2. \A h \in Guid, j \in Attempt : pc'[h][j] \in Sending => pc[h][j] \in Sending
    BY DEF ReleaseDelete, runVars
  <1>3. SendingWanted' /\ RecordsBacked'
    BY <1>1, <1>2, QuietStep DEF ReleaseDelete, runVars
  <1>4. BlocksWanted'
    BY DEF AcceptInv, NoDataBeforeAccept, BlocksWanted, ReleaseDelete, recvVars
  <1>5. AnswersBacked'
    BY DEF AcceptInv, AnswersBacked, ReleaseDelete, recvVars
  <1> QED
    BY <1>3, <1>4, <1>5 DEF AcceptInv, NoDataBeforeAccept

\* A step ReleaseErase keeps the invariant.
LEMMA ReleaseEraseAccept ==
    ASSUME AcceptInv, NEW g \in Guid, NEW k \in Attempt, ReleaseErase(g, k)
    PROVE  AcceptInv'
  <1> TypeOK /\ TypeOK'
    BY ReleaseEraseType DEF AcceptInv
  <1>1. BoxesStay
    BY DEF ReleaseErase, BoxesStay, recvVars
  <1>2. \A h \in Guid, j \in Attempt : pc'[h][j] \in Sending => pc[h][j] \in Sending
    BY DEF ReleaseErase, runVars
  <1>3. SendingWanted' /\ RecordsBacked'
    BY <1>1, <1>2, QuietStep DEF ReleaseErase, runVars
  <1>4. BlocksWanted'
    BY DEF AcceptInv, NoDataBeforeAccept, BlocksWanted, ReleaseErase, recvVars
  <1>5. AnswersBacked'
    BY DEF AcceptInv, AnswersBacked, ReleaseErase, recvVars
  <1> QED
    BY <1>3, <1>4, <1>5 DEF AcceptInv, NoDataBeforeAccept

\* AcceptFile answers with a guid only when the repository is in the box.
LEMMA AcceptFileAccept ==
    ASSUME AcceptInv, NEW g \in Guid, AcceptFile(g)
    PROVE  AcceptInv'
  <1> TypeOK /\ TypeOK'
    BY AcceptFileType DEF AcceptInv
  <1>1. BoxesStay
    <2>1. PICK opened \in BOOLEAN :
             repo' = [repo EXCEPT ![g] = IF opened THEN AcceptedRepository(g, Head(toR).a) ELSE @]
      BY DEF AcceptFile
    <2>2. repo[g].box => AcceptedRepository(g, Head(toR).a).box
      <3>1. repo[g] \in Repository
        BY DEF TypeOK, RecvTypes
      <3> QED
        BY <3>1 DEF AcceptedRepository, Repository
    <2> QED
      BY <2>1, <2>2 DEF BoxesStay, TypeOK, RecvTypes
  <1>2. \A h \in Guid, j \in Attempt : pc'[h][j] \in Sending => pc[h][j] \in Sending
    BY DEF AcceptFile, runVars
  <1>3. SendingWanted' /\ RecordsBacked'
    BY <1>1, <1>2, QuietStep DEF AcceptFile, runVars
  <1>4. BlocksWanted'
    BY <1>1, BlocksAfterTail DEF AcceptInv, NoDataBeforeAccept, AcceptFile
  <1>5. AnswersBacked'
    <2>1. PICK opened \in BOOLEAN :
             /\ repo' = [repo EXCEPT ![g] = IF opened THEN AcceptedRepository(g, Head(toR).a) ELSE @]
             /\ toS' = SendData(toS, Msg("Can_Continue_Send", g, opened, 0, 0))
      BY DEF AcceptFile
    <2>2. AcceptedRepository(g, Head(toR).a).box
      <3>1. repo[g] \in Repository
        BY DEF TypeOK, RecvTypes
      <3> QED
        BY <3>1 DEF AcceptedRepository, Repository
    <2>3. opened => repo'[g].box
      BY <2>1, <2>2 DEF TypeOK, RecvTypes
    <2> DEFINE m == Msg("Can_Continue_Send", g, opened, 0, 0)
    <2>4. m \in MessageS
      BY MsgS DEF STypes
    <2>5. m.guid = g /\ m.rok = opened /\ toS' = SendData(toS, m)
      BY <2>1 DEF Msg
    <2> HIDE DEF m
    <2> QED
      BY <1>1, <2>3, <2>4, <2>5, AnswersAfterSend DEF AcceptInv
  <1> QED
    BY <1>3, <1>4, <1>5 DEF AcceptInv, NoDataBeforeAccept

\* A step RefuseFile keeps the invariant.
LEMMA RefuseFileAccept ==
    ASSUME AcceptInv, NEW g \in Guid, RefuseFile(g)
    PROVE  AcceptInv'
  <1> TypeOK /\ TypeOK'
    BY RefuseFileType DEF AcceptInv
  <1>1. BoxesStay
    BY DEF RefuseFile, BoxesStay, recvVars
  <1>2. \A h \in Guid, j \in Attempt : pc'[h][j] \in Sending => pc[h][j] \in Sending
    BY DEF RefuseFile, runVars
  <1>3. SendingWanted' /\ RecordsBacked'
    BY <1>1, <1>2, QuietStep DEF RefuseFile, runVars
  <1>4. BlocksWanted'
    BY <1>1, BlocksAfterTail DEF AcceptInv, NoDataBeforeAccept, RefuseFile
  <1>5. AnswersBacked'
    <2>1. Msg("Not_Can_Continue_Send", g, FALSE, 0, 0) \in MessageS
      BY MsgS DEF STypes, TaskTypes
    <2> QED
      BY <1>1, <2>1, AnswersAfterSend DEF AcceptInv, RefuseFile, Msg
  <1> QED
    BY <1>3, <1>4, <1>5 DEF AcceptInv, NoDataBeforeAccept

\* A step RecieveBlock keeps the invariant.
LEMMA RecieveBlockAccept ==
    ASSUME AcceptInv, NEW g \in Guid, RecieveBlock(g)
    PROVE  AcceptInv'
  <1> TypeOK /\ TypeOK'
    BY RecieveBlockType DEF AcceptInv
  <1>1. BoxesStay
    <2>1. repo[g] \in Repository /\ Head(toR).b \in Nat
      BY HeadIsR DEF RecieveBlock, TypeOK, RecvTypes
    <2> DEFINE r == IF Head(toR).rok THEN PushBack(g, Head(toR).b) ELSE repo[g]
    <2>2. r \in Repository
      BY <2>1, PushBackType
    <2>3. repo[g].box => r.box
      BY <2>1 DEF PushBack, Repository
    <2>4. r.box => Acknowledged(r).box
      BY <2>2 DEF Acknowledged, Repository
    <2>5. \E due \in BOOLEAN : repo' = [repo EXCEPT ![g] = IF due THEN Acknowledged(r) ELSE r]
      <3>1. (Head(toR).rok /\ ProgressDue(r)) \in BOOLEAN
        OBVIOUS
      <3> QED
        BY <3>1 DEF RecieveBlock
    <2> HIDE DEF r
    <2> QED
      BY <2>3, <2>4, <2>5 DEF BoxesStay, TypeOK, RecvTypes
  <1>2. \A h \in Guid, j \in Attempt : pc'[h][j] \in Sending => pc[h][j] \in Sending
    BY DEF RecieveBlock, runVars
  <1>3. SendingWanted' /\ RecordsBacked'
    BY <1>1, <1>2, QuietStep DEF RecieveBlock, runVars
  <1>4. BlocksWanted'
    BY <1>1, BlocksAfterTail DEF AcceptInv, NoDataBeforeAccept, RecieveBlock
  <1>5. AnswersBacked'
    <2> DEFINE r == IF Head(toR).rok THEN PushBack(g, Head(toR).b) ELSE repo[g]
               m == Msg("Shake_Pack", g, TRUE, Dword(r.finish), Dword(r.total))
    <2>1. r \in Repository
      BY PushBackType, HeadIsR DEF RecieveBlock, TypeOK, RecvTypes
    <2>2. Dword(r.finish) \in Nat /\ Dword(r.total) \in Nat
      BY <2>1, DwordType DEF Repository
    <2>3. m \in MessageS
      <3> HIDE DEF r
      <3> QED
        BY <2>2, MsgS DEF STypes
    <2>4. m.type = "Shake_Pack"
      BY DEF Msg
    <2>5. toS' = SendData(toS, m) \/ toS' = toS
      BY DEF RecieveBlock
    <2> HIDE DEF r, m
    <2>6. CASE toS' = SendData(toS, m)
      BY <1>1, <2>3, <2>4, <2>6, AnswersAfterSend DEF AcceptInv
    <2>7. CASE toS' = toS
      BY <1>1, <2>7, AnswersStay DEF AcceptInv
    <2> QED
      BY <2>5, <2>6, <2>7
  <1> QED
    BY <1>3, <1>4, <1>5 DEF AcceptInv, NoDataBeforeAccept

\* A step RecieveEnd keeps the invariant.
LEMMA RecieveEndAccept ==
    ASSUME AcceptInv, NEW g \in Guid, RecieveEnd(g)
    PROVE  AcceptInv'
  <1> TypeOK /\ TypeOK'
    BY RecieveEndType DEF AcceptInv
  <1>1. BoxesStay
    <2>1. repo' = [repo EXCEPT ![g].open = IF Head(toR).rok THEN FALSE ELSE @]
      BY DEF RecieveEnd
    <2>2. repo[g] \in Repository
      BY DEF TypeOK, RecvTypes
    <2> QED
      BY <2>1, <2>2 DEF BoxesStay, TypeOK, RecvTypes, Repository
  <1>2. \A h \in Guid, j \in Attempt : pc'[h][j] \in Sending => pc[h][j] \in Sending
    BY DEF RecieveEnd, runVars
  <1>3. SendingWanted' /\ RecordsBacked'
    BY <1>1, <1>2, QuietStep DEF RecieveEnd, runVars
  <1>4. BlocksWanted'
    BY <1>1, BlocksAfterTail DEF AcceptInv, NoDataBeforeAccept, RecieveEnd
  <1>5. AnswersBacked'
    <2>1. PICK t \in {"Succese_Recieve_File", "Failure_Recieve_File"} :
             toS' = SendData(toS, Msg(t, g, Head(toR).rok, 0, 0))
      BY DEF RecieveEnd
    <2>2. Head(toR).rok \in BOOLEAN
      BY HeadIsR DEF RecieveEnd
    <2> DEFINE m == Msg(t, g, Head(toR).rok, 0, 0)
    <2>3. m \in MessageS
      BY <2>2, MsgS DEF STypes
    <2>4. m.type # "Can_Continue_Send"
      BY DEF Msg
    <2> HIDE DEF m
    <2> QED
      BY <1>1, <2>1, <2>3, <2>4, AnswersAfterSend DEF AcceptInv, m
  <1> QED
    BY <1>3, <1>4, <1>5 DEF AcceptInv, NoDataBeforeAccept

\* A step RecieveTaskR keeps the invariant.
LEMMA RecieveTaskRAccept ==
    ASSUME AcceptInv, NEW g \in Guid, RecieveTaskR(g)
    PROVE  AcceptInv'
  <1> TypeOK /\ TypeOK'
    BY RecieveTaskRType DEF AcceptInv
  <1>1. BoxesStay
    BY DEF RecieveTaskR, BoxesStay, recvVars
  <1>2. \A h \in Guid, j \in Attempt : pc'[h][j] \in Sending => pc[h][j] \in Sending
    BY DEF RecieveTaskR, runVars
  <1>3. SendingWanted' /\ RecordsBacked'
    BY <1>1, <1>2, QuietStep DEF RecieveTaskR, runVars
  <1>4. BlocksWanted'
    BY <1>1, BlocksAfterTail DEF AcceptInv, NoDataBeforeAccept, RecieveTaskR
  <1>5. AnswersBacked'
    BY DEF AcceptInv, AnswersBacked, RecieveTaskR, recvVars
  <1> QED
    BY <1>3, <1>4, <1>5 DEF AcceptInv, NoDataBeforeAccept

\* The guid that an object records was in an answer, which is backed.
LEMMA CanSendFileAccept ==
    ASSUME AcceptInv, NEW g \in Guid, CanSendFile(g)
    PROVE  AcceptInv'
  <1> TypeOK /\ TypeOK'
    BY CanSendFileType DEF AcceptInv
  <1>1. BoxesStay
    BY DEF CanSendFile, BoxesStay, recvVars
  <1>2. \A h \in Guid, j \in Attempt : pc'[h][j] \in Sending => pc[h][j] \in Sending
    <2>1. CASE Live(g)
      BY <2>1, NotifyAllQuiet DEF CanSendFile, ResumeChildThread, Resume
    <2>2. CASE ~Live(g)
      BY <2>2 DEF CanSendFile, ResumeChildThread
    <2> QED
      BY <2>1, <2>2
  <1>3. SendingWanted' /\ RecordsBacked'
    <2>1. SendingWanted'
      BY <1>1, <1>2 DEF AcceptInv, NoDataBeforeAccept, SendingWanted, BoxesStay
    <2>2. Head(toS).rok => repo[g].box
      <3>1. toS \in Seq(MessageS) /\ toS # <<>>
        BY DEF CanSendFile, HeadIs, TypeOK, ChannelTypes
      <3>2. 1 \in DOMAIN toS /\ Head(toS) = toS[1]
        BY <3>1
      <3> QED
        BY <3>2 DEF CanSendFile, HeadIs, AcceptInv, AnswersBacked
    <2>3. CASE Live(g)
      <3>1. des' = [des EXCEPT ![g][mapS[g]] = Head(toS).rok] /\ mapS[g] \in Attempt
        BY <2>3, LiveObject DEF CanSendFile
      <3>2. \A h \in Guid, o \in Attempt : des'[h][o] => des[h][o] \/ (h = g /\ Head(toS).rok)
        BY <3>1 DEF TypeOK, RunTypes
      <3> QED
        BY <1>1, <2>1, <2>2, <3>2 DEF AcceptInv, RecordsBacked, BoxesStay
    <2>4. CASE ~Live(g)
      BY <1>1, <2>1, <2>4 DEF CanSendFile, AcceptInv, RecordsBacked, BoxesStay
    <2> QED
      BY <2>3, <2>4
  <1>4. BlocksWanted'
    BY DEF AcceptInv, NoDataBeforeAccept, BlocksWanted, CanSendFile, recvVars
  <1>5. AnswersBacked'
    BY AnswersAfterTail DEF AcceptInv, CanSendFile, recvVars
  <1> QED
    BY <1>3, <1>4, <1>5 DEF AcceptInv, NoDataBeforeAccept

\* A step IgnoreRefusal keeps the invariant.
LEMMA IgnoreRefusalAccept ==
    ASSUME AcceptInv, NEW g \in Guid, IgnoreRefusal(g)
    PROVE  AcceptInv'
  <1> TypeOK /\ TypeOK'
    BY IgnoreRefusalType DEF AcceptInv
  <1>1. BoxesStay
    BY DEF IgnoreRefusal, BoxesStay, recvVars
  <1>2. \A h \in Guid, j \in Attempt : pc'[h][j] \in Sending => pc[h][j] \in Sending
    BY DEF IgnoreRefusal, runVars
  <1>3. SendingWanted' /\ RecordsBacked'
    BY <1>1, <1>2, QuietStep DEF IgnoreRefusal, runVars
  <1>4. BlocksWanted'
    BY DEF AcceptInv, NoDataBeforeAccept, BlocksWanted, IgnoreRefusal, recvVars
  <1>5. AnswersBacked'
    BY AnswersAfterTail DEF AcceptInv, IgnoreRefusal, recvVars
  <1> QED
    BY <1>3, <1>4, <1>5 DEF AcceptInv, NoDataBeforeAccept

\* A step ShakeAck keeps the invariant.
LEMMA ShakeAckAccept ==
    ASSUME AcceptInv, NEW g \in Guid, ShakeAck(g)
    PROVE  AcceptInv'
  <1> TypeOK /\ TypeOK'
    BY ShakeAckType DEF AcceptInv
  <1>1. BoxesStay
    BY DEF ShakeAck, BoxesStay, recvVars
  <1>2. \A h \in Guid, j \in Attempt : pc'[h][j] \in Sending => pc[h][j] \in Sending
    BY DEF ShakeAck, runVars
  <1>3. SendingWanted' /\ RecordsBacked'
    BY <1>1, <1>2, QuietStep DEF ShakeAck, runVars
  <1>4. BlocksWanted'
    BY DEF AcceptInv, NoDataBeforeAccept, BlocksWanted, ShakeAck, recvVars
  <1>5. AnswersBacked'
    BY AnswersAfterTail DEF AcceptInv, ShakeAck, recvVars
  <1> QED
    BY <1>3, <1>4, <1>5 DEF AcceptInv, NoDataBeforeAccept

\* A step SendFileResult keeps the invariant.
LEMMA SendFileResultAccept ==
    ASSUME AcceptInv, NEW g \in Guid, SendFileResult(g)
    PROVE  AcceptInv'
  <1> TypeOK /\ TypeOK'
    BY SendFileResultType DEF AcceptInv
  <1>1. BoxesStay
    BY DEF SendFileResult, BoxesStay, recvVars
  <1>2. \A h \in Guid, j \in Attempt : pc'[h][j] \in Sending => pc[h][j] \in Sending
    BY DEF SendFileResult, runVars
  <1>3. SendingWanted' /\ RecordsBacked'
    BY <1>1, <1>2, QuietStep DEF SendFileResult, runVars
  <1>4. BlocksWanted'
    BY DEF AcceptInv, NoDataBeforeAccept, BlocksWanted, SendFileResult, recvVars
  <1>5. AnswersBacked'
    BY AnswersAfterTail DEF AcceptInv, SendFileResult, recvVars
  <1> QED
    BY <1>3, <1>4, <1>5 DEF AcceptInv, NoDataBeforeAccept

\* A step InterruptTask keeps the invariant.
LEMMA InterruptTaskAccept ==
    ASSUME AcceptInv, NEW g \in Guid, InterruptTask(g)
    PROVE  AcceptInv'
  <1> TypeOK /\ TypeOK'
    BY InterruptTaskType DEF AcceptInv
  <1>1. BoxesStay
    BY DEF InterruptTask, BoxesStay, recvVars
  <1>2. \A h \in Guid, j \in Attempt : pc'[h][j] \in Sending => pc[h][j] \in Sending
    BY DEF InterruptTask, runVars
  <1>3. SendingWanted' /\ RecordsBacked'
    BY <1>1, <1>2, QuietStep DEF InterruptTask, runVars
  <1>4. BlocksWanted'
    BY DEF AcceptInv, NoDataBeforeAccept, BlocksWanted, InterruptTask, recvVars
  <1>5. AnswersBacked'
    BY AnswersAfterTail DEF AcceptInv, InterruptTask, recvVars
  <1> QED
    BY <1>3, <1>4, <1>5 DEF AcceptInv, NoDataBeforeAccept

\* A step RestartTask keeps the invariant.
LEMMA RestartTaskAccept ==
    ASSUME AcceptInv, NEW g \in Guid, RestartTask(g)
    PROVE  AcceptInv'
  <1> TypeOK /\ TypeOK'
    BY RestartTaskType DEF AcceptInv
  <1>1. BoxesStay
    BY DEF RestartTask, BoxesStay, recvVars
  <1>2. \A h \in Guid, j \in Attempt : pc'[h][j] \in Sending => pc[h][j] \in Sending
    <2>1. CASE Live(g)
      BY <2>1, NotifyAllQuiet DEF RestartTask, ResumeChildThread, Resume
    <2>2. CASE ~Live(g)
      BY <2>2 DEF RestartTask, ResumeChildThread
    <2> QED
      BY <2>1, <2>2
  <1>3. SendingWanted' /\ RecordsBacked'
    BY <1>1, <1>2, QuietStep DEF RestartTask, runVars
  <1>4. BlocksWanted'
    BY DEF AcceptInv, NoDataBeforeAccept, BlocksWanted, RestartTask, recvVars
  <1>5. AnswersBacked'
    BY AnswersAfterTail DEF AcceptInv, RestartTask, recvVars
  <1> QED
    BY <1>3, <1>4, <1>5 DEF AcceptInv, NoDataBeforeAccept

\* A step CancleTask keeps the invariant.
LEMMA CancleTaskAccept ==
    ASSUME AcceptInv, NEW g \in Guid, CancleTask(g)
    PROVE  AcceptInv'
  <1> TypeOK /\ TypeOK'
    BY CancleTaskType DEF AcceptInv
  <1>1. BoxesStay
    BY DEF CancleTask, BoxesStay, recvVars
  <1>2. \A h \in Guid, j \in Attempt : pc'[h][j] \in Sending => pc[h][j] \in Sending
    BY DEF CancleTask, runVars
  <1>3. SendingWanted' /\ RecordsBacked'
    BY <1>1, <1>2, QuietStep DEF CancleTask, runVars
  <1>4. BlocksWanted'
    BY DEF AcceptInv, NoDataBeforeAccept, BlocksWanted, CancleTask, recvVars
  <1>5. AnswersBacked'
    BY AnswersAfterTail DEF AcceptInv, CancleTask, recvVars
  <1> QED
    BY <1>3, <1>4, <1>5 DEF AcceptInv, NoDataBeforeAccept

\* What the close of the channel leaves in flight was in flight.
LEMMA CloseChannelAccept ==
    ASSUME AcceptInv, CloseChannel
    PROVE  AcceptInv'
  <1>1. TypeOK'
    BY CloseChannelType DEF AcceptInv
  <1>2. toR \in Seq(MessageR) /\ toS \in Seq(MessageS)
    BY DEF AcceptInv, TypeOK, ChannelTypes
  <1>3. PICK i \in 0..Len(toR), j \in 0..Len(toS) :
           toR' = SubSeq(toR, 1, i) /\ toS' = SubSeq(toS, 1, j)
    BY DEF CloseChannel
  <1>4. \A n \in DOMAIN toR' : n \in DOMAIN toR /\ toR'[n] = toR[n]
    BY <1>2, <1>3
  <1>5. \A n \in DOMAIN toS' : n \in DOMAIN toS /\ toS'[n] = toS[n]
    BY <1>2, <1>3
  <1>6. UNCHANGED <<pc, des, repo>>
    BY DEF CloseChannel, runVars, recvVars
  <1>7. NoDataBeforeAccept'
    BY <1>4, <1>6 DEF AcceptInv, NoDataBeforeAccept, SendingWanted, BlocksWanted
  <1>8. AnswersBacked' /\ RecordsBacked'
    BY <1>5, <1>6 DEF AcceptInv, AnswersBacked, RecordsBacked
  <1> QED
    BY <1>1, <1>7, <1>8 DEF AcceptInv

\* Every step keeps the invariant.
LEMMA AcceptStep ==
    ASSUME AcceptInv, [Next]_vars
    PROVE  AcceptInv'
  <1>1. ASSUME NEW g \in Guid, UserS(g) \/ UserR(g) \/ HandleR(g) \/ HandleS(g)
        PROVE  AcceptInv'
    BY <1>1, SendFileAccept, InterruptFileTaskSAccept, RestartFileTaskSAccept,
       CancleFileTaskSAccept,
       CreateRecieveFileAccept, InterruptFileTaskRAccept, RestartFileTaskRAccept, CancleFileTaskRAccept,
       AcceptFileAccept, RefuseFileAccept, RecieveBlockAccept, RecieveEndAccept,
       RecieveTaskRAccept, CanSendFileAccept, IgnoreRefusalAccept, ShakeAckAccept,
       SendFileResultAccept, InterruptTaskAccept, RestartTaskAccept, CancleTaskAccept
    DEF UserS, UserR, HandleR, HandleS
  <1>2. ASSUME NEW g \in Guid, NEW k \in Attempt,
               Run(g, k) \/ ReleaseRun(g, k) \/ SpuriousWakeup(g, k)
        PROVE  AcceptInv'
    BY <1>2, RunStartAccept, RunSetEventAccept, SpuriousWakeupAccept, RunCheckAccept,
       RunTurnAccept, RunSendBlockAccept, RunEndLoopAccept, ReleaseAccept,
       ReleaseDeleteAccept, ReleaseEraseAccept
    DEF Run, ReleaseRun
  <1>3. CASE UNCHANGED vars
    <2>1. TypeOK'
      BY TypeStep DEF AcceptInv
    <2>2. UNCHANGED <<pc, des, repo, toR, toS>>
      BY <1>3 DEF vars, runVars, recvVars
    <2> QED
      BY <2>1, <2>2 DEF AcceptInv, NoDataBeforeAccept, SendingWanted, BlocksWanted,
                        AnswersBacked, RecordsBacked
  <1> QED
    BY <1>1, <1>2, <1>3, CloseChannelAccept DEF Next

\* AcceptInv holds in every reachable state: Run, blocks, answers and recorded
\* guids are all backed by a repository of the receiver.
THEOREM AcceptInvariant == Spec => []AcceptInv
  <1>1. Init => AcceptInv
    <2>1. ASSUME Init PROVE TypeOK
      BY <2>1, TypeInit
    <2>2. ASSUME Init PROVE NoDataBeforeAccept /\ AnswersBacked /\ RecordsBacked
      BY <2>2 DEF Init, NoDataBeforeAccept, SendingWanted, BlocksWanted, AnswersBacked,
                  RecordsBacked, Sending, Turn
    <2> QED
      BY <2>1, <2>2 DEF AcceptInv
  <1>2. AcceptInv /\ [Next]_vars => AcceptInv'
    BY AcceptStep
  <1> QED
    BY <1>1, <1>2, PTL DEF Spec

\* Run sends no block before the receiver accepted, for any number of
\* transfers, of SendFile calls for one name, of user calls and spurious
\* wakeups, and for files of any size.
THEOREM AcceptFirst == Spec => []NoDataBeforeAccept
  <1>1. AcceptInv => NoDataBeforeAccept
    BY DEF AcceptInv
  <1> QED
    BY <1>1, AcceptInvariant, PTL
-----------------------------------------------------------------------------
(* The life of a P2PThreadFile object *)

\* Objects and Run threads are numbered by the SendFile calls that made them;
\* those to come are not in the map, not deleted and not running.
CallsMade ==
    \A g \in Guid :
        /\ mapS[g] <= sends[g]
        /\ \A k \in Attempt : k > sends[g] => ~freed[g][k] /\ pc[g][k] = "idle"

\* The release of a Run thread starts when it is done, and an object is deleted
\* by a release.
ReleasedLast == \A g \in Guid, k \in Attempt : rel[g][k] # "none" => pc[g][k] = "done"

FreedByRelease ==
    \A g \in Guid, o \in Attempt : freed[g][o] => \E k \in Attempt : rel[g][k] \in {"deleted", "done"}

LifeInv == CallsMade /\ ReleasedLast /\ FreedByRelease

\* A Run thread that was not started, or is done, stays so.
Resting == \A g \in Guid, k \in Attempt : pc[g][k] \in {"idle", "done"} => pc'[g][k] = pc[g][k]

\* A step that makes and releases no object.
LEMMA LifeSame ==
    ASSUME LifeInv, Resting, UNCHANGED <<mapS, sends, freed, rel>>
    PROVE  LifeInv'
  BY DEF LifeInv, CallsMade, ReleasedLast, FreedByRelease, Resting

\* ResetEvent wakes no thread that does not wait.
LEMMA NotifyAllRests ==
    ASSUME TypeOK, NEW g \in Guid, NEW o, NotifyAll(g, o)
    PROVE  Resting
  <1>1. pc \in [Guid -> [Attempt -> PCs]]
    BY DEF TypeOK, RunTypes
  <1>2. \A p : p \in {"idle", "done"} => Woken(p) = p
    BY DEF Woken
  <1>3. pc' = [pc EXCEPT ![g] = [k \in Attempt |->
                  IF on[g][k] = o THEN Woken(pc[g][k]) ELSE pc[g][k]]]
    BY DEF NotifyAll
  <1> QED
    BY <1>1, <1>2, <1>3 DEF Resting

\* What the user's calls and the handlers do to the objects.
LEMMA LifeHandlers ==
    ASSUME TypeOK, LifeInv, NEW g \in Guid,
           \/ InterruptFileTaskS(g) \/ RestartFileTaskS(g) \/ CancleFileTaskS(g)
           \/ UserR(g) \/ HandleR(g) \/ HandleS(g)
    PROVE  LifeInv'
  <1>1. UNCHANGED <<mapS, sends, freed, rel>>
    BY DEF InterruptFileTaskS, RestartFileTaskS, CancleFileTaskS, UserR, CreateRecieveFile,
           InterruptFileTaskR, RestartFileTaskR, CancleFileTaskR, HandleR, AcceptFile, RefuseFile,
           RecieveBlock, RecieveEnd, RecieveTaskR, HandleS, CanSendFile, IgnoreRefusal, ShakeAck,
           SendFileResult, InterruptTask, RestartTask, CancleTask, runVars, sendVars
  <1>2. CASE RestartFileTaskS(g) \/ CanSendFile(g) \/ RestartTask(g)
    <2>1. (\E o : NotifyAll(g, o)) \/ UNCHANGED pc
      BY <1>2 DEF RestartFileTaskS, CanSendFile, RestartTask, ResumeChildThread, Resume
    <2>2. Resting
      BY <2>1, NotifyAllRests DEF Resting
    <2> QED
      BY <1>1, <2>2, LifeSame
  <1>3. CASE ~(RestartFileTaskS(g) \/ CanSendFile(g) \/ RestartTask(g))
    <2>1. UNCHANGED pc
      BY <1>3 DEF InterruptFileTaskS, CancleFileTaskS, UserR, CreateRecieveFile,
             InterruptFileTaskR, RestartFileTaskR, CancleFileTaskR, HandleR, AcceptFile, RefuseFile,
             RecieveBlock, RecieveEnd, RecieveTaskR, HandleS, IgnoreRefusal, ShakeAck,
             SendFileResult, InterruptTask, CancleTask, runVars
    <2> QED
      BY <1>1, <2>1, LifeSame DEF Resting
  <1> QED
    BY <1>2, <1>3

\* Run makes and releases no object before its end.
LEMMA LifeRun ==
    ASSUME TypeOK, LifeInv, NEW g \in Guid, NEW k \in Attempt,
           \/ RunStart(g, k) \/ RunSetEvent(g, k) \/ RunCheck(g, k) \/ RunReadBlock(g, k)
           \/ RunSendBlock(g, k) \/ RunTestSkip(g, k) \/ RunEndLoop(g, k) \/ RunDigest(g, k)
           \/ SpuriousWakeup(g, k)
    PROVE  LifeInv'
  <1>1. UNCHANGED <<mapS, sends, freed, rel>>
    BY DEF RunStart, RunSetEvent, RunCheck, RunReadBlock, RunSendBlock, RunTestSkip, RunEndLoop,
           RunDigest, SpuriousWakeup, sendVars
  <1>2. pc[g][k] \notin {"idle", "done"} /\ \E p : pc' = [pc EXCEPT ![g][k] = p]
    BY DEF RunStart, RunSetEvent, RunCheck, RunReadBlock, RunSendBlock, RunTestSkip, RunEndLoop,
           RunDigest, SpuriousWakeup, Goto, Waits
  <1>3. Resting
    BY <1>2 DEF Resting, TypeOK, RunTypes
  <1> QED
    BY <1>1, <1>3, LifeSame

\* SendFile puts a new object into the map, or none.
LEMMA LifeSendFile ==
    ASSUME TypeOK, LifeInv, NEW g \in Guid, SendFile(g)
    PROVE  LifeInv'
  <1>1. PICK n : n = sends[g] + 1
    OBVIOUS
  <1>2. n \in Nat /\ sends[g] \in Nat /\ mapS[g] \in Nat /\ sends[g] < n /\ mapS[g] <= sends[g]
    BY <1>1, ConstantAssumption DEF TypeOK, SendTypes, LifeInv, CallsMade
  <1>3. n \in Attempt
    BY <1>1, <1>2, ConstantAssumption DEF SendFile, Attempt
  <1>4. /\ sends' = [sends EXCEPT ![g] = n] /\ UNCHANGED <<freed, rel>>
        /\ mapS' = [mapS EXCEPT ![g] = IF Live(g) THEN mapS[g] ELSE n]
        /\ pc' = [pc EXCEPT ![g][n] = "start"]
    BY <1>1 DEF SendFile
  <1>5. sends'[g] = n /\ \A h \in Guid \ {g} : sends'[h] = sends[h] /\ mapS'[h] = mapS[h]
    BY <1>4 DEF TypeOK, SendTypes
  <1>6. mapS'[g] = IF Live(g) THEN mapS[g] ELSE n
    BY <1>4 DEF TypeOK, SendTypes
  <1>7. \A h \in Guid, k \in Attempt : pc'[h][k] = IF h = g /\ k = n THEN "start" ELSE pc[h][k]
    BY <1>4 DEF TypeOK, RunTypes
  <1>8. ~freed[g][n] /\ pc[g][n] = "idle"
    BY <1>2, <1>3 DEF LifeInv, CallsMade
  <1>9. CallsMade'
    <2>1. mapS'[g] <= n
      BY <1>2, <1>6
    <2>2. ASSUME NEW k \in Attempt, k > n PROVE k > sends[g] /\ k # n
      BY <1>2, <2>2, ConstantAssumption DEF Attempt
    <2> QED
      BY <1>4, <1>5, <1>7, <2>1, <2>2 DEF LifeInv, CallsMade
  <1>10. ReleasedLast'
    BY <1>4, <1>7, <1>8 DEF LifeInv, ReleasedLast
  <1>11. FreedByRelease'
    BY <1>4 DEF LifeInv, FreedByRelease
  <1> QED
    BY <1>9, <1>10, <1>11 DEF LifeInv

\* A release deletes the object that the map holds, and then empties the entry.
LEMMA LifeRelease ==
    ASSUME TypeOK, LifeInv, NEW g \in Guid, NEW k \in Attempt,
           Release(g, k) \/ ReleaseDelete(g, k) \/ ReleaseErase(g, k)
    PROVE  LifeInv'
  <1>1. /\ \A h \in Guid : sends[h] \in Nat /\ mapS[h] \in 0..MaxSends
        /\ rel \in [Guid -> [Attempt -> {"none", "pending", "deleted", "done"}]]
        /\ freed \in [Guid -> [Attempt -> BOOLEAN]] /\ mapS \in [Guid -> 0..MaxSends]
        /\ pc \in [Guid -> [Attempt -> PCs]]
    BY ConstantAssumption DEF TypeOK, SendTypes, RunTypes
  <1>2. CASE Release(g, k)
    <2>1. /\ UNCHANGED <<mapS, sends, freed>> /\ pc[g][k] = "end"
          /\ rel' = [rel EXCEPT ![g][k] = "pending"] /\ pc' = [pc EXCEPT ![g][k] = "done"]
      BY <1>2 DEF Release, SpawnRelease, Goto
    <2>2. rel[g][k] = "none"
      BY <2>1 DEF LifeInv, ReleasedLast
    <2>3. \A h \in Guid, j \in Attempt : rel'[h][j] = IF h = g /\ j = k THEN "pending" ELSE rel[h][j]
      BY <1>1, <2>1
    <2>4. \A h \in Guid, j \in Attempt : pc'[h][j] = IF h = g /\ j = k THEN "done" ELSE pc[h][j]
      BY <1>1, <2>1
    <2>5. CallsMade'
      BY <2>1, <2>4 DEF LifeInv, CallsMade
    <2>6. ReleasedLast'
      BY <2>3, <2>4 DEF LifeInv, ReleasedLast
    <2>7. FreedByRelease'
      BY <2>1, <2>2, <2>3 DEF LifeInv, FreedByRelease
    <2> QED
      BY <2>5, <2>6, <2>7 DEF LifeInv
  <1>3. CASE ReleaseDelete(g, k)
    <2>1. PICK r \in {"deleted", "done"} : rel' = [rel EXCEPT ![g][k] = r] /\ (Live(g) => r = "deleted")
      BY <1>3 DEF ReleaseDelete
    <2>2. rel[g][k] = "pending" /\ UNCHANGED <<mapS, sends, pc>>
      BY <1>3 DEF ReleaseDelete, Releasing
    <2>3. \A h \in Guid, j \in Attempt : rel'[h][j] = IF h = g /\ j = k THEN r ELSE rel[h][j]
      BY <1>1, <2>1
    <2>4. CASE Live(g)
      <3>1. PICK o : o = mapS[g]
        OBVIOUS
      <3>2. o \in Attempt /\ o <= sends[g]
        BY <1>1, <2>4, <3>1, LiveObject DEF LifeInv, CallsMade
      <3>3. freed' = [freed EXCEPT ![g][o] = TRUE]
        BY <1>3, <2>4, <3>1 DEF ReleaseDelete
      <3>4. \A h \in Guid, j \in Attempt : freed'[h][j] = (freed[h][j] \/ (h = g /\ j = o))
        BY <1>1, <3>3
      <3>5. \A j \in Attempt : j > sends[g] => j # o
        BY <1>1, <3>2, ConstantAssumption DEF Attempt
      <3>6. CallsMade'
        BY <2>2, <3>4, <3>5 DEF LifeInv, CallsMade
      <3>7. ReleasedLast'
        BY <2>2, <2>3 DEF LifeInv, ReleasedLast
      <3>8. rel'[g][k] = "deleted"
        BY <2>1, <2>3, <2>4
      <3>9. \A h \in Guid, j \in Attempt : rel[h][j] \in {"deleted", "done"} => rel'[h][j] = rel[h][j]
        BY <2>2, <2>3
      <3>10. FreedByRelease'
        <4> SUFFICES ASSUME NEW h \in Guid, NEW j \in Attempt, freed'[h][j]
                     PROVE  \E i \in Attempt : rel'[h][i] \in {"deleted", "done"}
          BY DEF FreedByRelease
        <4>1. CASE freed[h][j]
          BY <3>9, <4>1 DEF LifeInv, FreedByRelease
        <4>2. CASE h = g
          BY <3>8, <4>2
        <4> QED
          BY <3>4, <4>1, <4>2
      <3> QED
        BY <3>6, <3>7, <3>10 DEF LifeInv
    <2>5. CASE ~Live(g)
      <3>1. UNCHANGED freed
        BY <1>3, <2>5 DEF ReleaseDelete
      <3>2. CallsMade' /\ ReleasedLast'
        BY <2>2, <2>3, <3>1 DEF LifeInv, CallsMade, ReleasedLast
      <3>3. FreedByRelease'
        BY <2>1, <2>2, <2>3, <3>1 DEF LifeInv, FreedByRelease
      <3> QED
        BY <3>2, <3>3 DEF LifeInv
    <2> QED
      BY <2>4, <2>5
  <1>4. CASE ReleaseErase(g, k)
    <2>1. /\ rel' = [rel EXCEPT ![g][k] = "done"] /\ rel[g][k] = "deleted" /\ UNCHANGED <<sends, pc, freed>>
          /\ mapS' = [mapS EXCEPT ![g] = 0]
      BY <1>4 DEF ReleaseErase, runVars, NoObject
    <2>2. \A h \in Guid, j \in Attempt : rel'[h][j] = IF h = g /\ j = k THEN "done" ELSE rel[h][j]
      BY <1>1, <2>1
    <2>3. \A h \in Guid : mapS'[h] = IF h = g THEN 0 ELSE mapS[h]
      BY <1>1, <2>1
    <2>4. CallsMade'
      BY <1>1, <2>1, <2>3 DEF LifeInv, CallsMade
    <2>5. ReleasedLast' /\ FreedByRelease'
      BY <2>1, <2>2 DEF LifeInv, ReleasedLast, FreedByRelease
    <2> QED
      BY <2>4, <2>5 DEF LifeInv
  <1> QED
    BY <1>2, <1>3, <1>4

\* Every step keeps the objects so.
LEMMA LifeStep ==
    ASSUME TypeOK, LifeInv, [Next]_vars
    PROVE  LifeInv'
  <1>1. ASSUME NEW g \in Guid, UserS(g) \/ UserR(g) \/ HandleR(g) \/ HandleS(g) PROVE LifeInv'
    BY <1>1, LifeSendFile, LifeHandlers DEF UserS
  <1>2. ASSUME NEW g \in Guid, NEW k \in Attempt, Run(g, k) \/ ReleaseRun(g, k) \/ SpuriousWakeup(g, k)
        PROVE  LifeInv'
    BY <1>2, LifeRun, LifeRelease DEF Run, ReleaseRun
  <1>3. CASE CloseChannel \/ UNCHANGED vars
    <2>1. UNCHANGED <<mapS, sends, freed, rel, pc>>
      BY <1>3 DEF CloseChannel, vars, runVars, sendVars
    <2> QED
      BY <2>1, LifeSame DEF Resting
  <1> QED
    BY <1>1, <1>2, <1>3 DEF Next

LEMMA LifeInit == Init => LifeInv
  BY ConstantAssumption DEF Init, LifeInv, CallsMade, ReleasedLast, FreedByRelease, NoObject

\* ReleaseThread never deletes the object that a Run thread executes on, if a
\* name is sent once: the second of two Run threads that share the entry of the
\* first would lose it.
THEOREM RunsOnLiveObject ==
    ASSUME MaxSends = 1
    PROVE  Spec => []RunOnLiveObject
  <1>1. TypeOK /\ LifeInv => RunOnLiveObject
    <2> SUFFICES ASSUME TypeOK, LifeInv, NEW g \in Guid, NEW k \in Attempt,
                        pc[g][k] \notin {"idle", "done"}, freed[g][on[g][k]]
                 PROVE  FALSE
      BY DEF RunOnLiveObject
    <2>1. on[g][k] \in Attempt
      BY DEF TypeOK, RunTypes
    <2>2. PICK j \in Attempt : rel[g][j] \in {"deleted", "done"}
      BY <2>1 DEF LifeInv, FreedByRelease
    <2>3. j = k
      BY DEF Attempt
    <2> QED
      BY <2>2, <2>3 DEF LifeInv, ReleasedLast
  <1> QED
    BY <1>1, TypeInit, TypeStep, LifeInit, LifeStep, PTL DEF Spec

-----------------------------------------------------------------------------
(* The progress that the sender's user is shown *)

\* A repository that was not created has counted nothing.
CountedInBox == \A g \in Guid : ~repo[g].box => repo[g].finish = 0

\* An acknowledgement that travels carries no more than what was written.
ShakesTruthful ==
    \A i \in DOMAIN toS : toS[i].type = "Shake_Pack" => toS[i].a <= repo[toS[i].guid].finish

ProgressInv == CountedInBox /\ ShakesTruthful /\ ProgressTruthful

\* What a step may do: the receiver's count grows, an acknowledgement is one
\* that travelled already or is true of the new count, and what is shown is
\* what was, or the finished size of an acknowledgement for the name.
CountGrows ==
    \A g \in Guid : /\ repo'[g].finish >= repo[g].finish
                    /\ ~repo'[g].box => ~repo[g].box /\ repo'[g].finish = repo[g].finish

ShakesCounted ==
    \A i \in DOMAIN toS' : toS'[i].type = "Shake_Pack" =>
        \/ \E j \in DOMAIN toS : toS'[i] = toS[j]
        \/ toS'[i].a <= repo'[toS'[i].guid].finish

ShownAsTold ==
    \A g \in Guid : \/ shown'[g] = shown[g]
                    \/ \E j \in DOMAIN toS : /\ toS[j].type = "Shake_Pack" /\ toS[j].guid = g
                                             /\ toS[j].a = shown'[g]

\* Such a step keeps the progress truthful.
LEMMA ProgressKept ==
    ASSUME TypeOK, TypeOK', ProgressInv, CountGrows, ShakesCounted, ShownAsTold
    PROVE  ProgressInv'
  <1>1. /\ \A g \in Guid : repo[g].finish \in Nat /\ repo'[g].finish \in Nat
        /\ \A g \in Guid : shown[g] \in Nat /\ shown'[g] \in Nat
        /\ \A j \in DOMAIN toS : toS[j].guid \in Guid /\ toS[j].a \in Nat
    <2>1. \A j \in DOMAIN toS : toS[j] \in MessageS
      BY DEF TypeOK, ChannelTypes
    <2> QED
      BY <2>1 DEF TypeOK, RecvTypes, UserTypes, Repository, MessageS, Message
  <1>2. CountedInBox'
    BY DEF ProgressInv, CountedInBox, CountGrows
  <1>3. \A j \in DOMAIN toS : toS[j].type = "Shake_Pack" => toS[j].a <= repo'[toS[j].guid].finish
    BY <1>1 DEF ProgressInv, ShakesTruthful, CountGrows
  <1>4. ShakesTruthful'
    BY <1>3 DEF ShakesTruthful, ShakesCounted
  <1>5. ProgressTruthful'
    BY <1>1, <1>3 DEF ProgressInv, ProgressTruthful, ShownAsTold, CountGrows
  <1> QED
    BY <1>2, <1>4, <1>5 DEF ProgressInv

\* A message that is no acknowledgement, or is a true one, is sent to S.
LEMMA ShakesAfterSend ==
    ASSUME TypeOK, NEW m, toS' = SendData(toS, m),
           m.type = "Shake_Pack" => m.a <= repo'[m.guid].finish
    PROVE  ShakesCounted
  <1>1. toS \in Seq(MessageS)
    BY DEF TypeOK, ChannelTypes
  <1>2. CASE up
    <2>1. toS' = Append(toS, m)
      BY <1>2 DEF SendData
    <2>2. \A i \in DOMAIN toS' : (i \in DOMAIN toS /\ toS'[i] = toS[i]) \/ toS'[i] = m
      BY <1>1, <2>1
    <2> QED
      BY <2>2 DEF ShakesCounted
  <1>3. CASE ~up
    BY <1>3 DEF SendData, ShakesCounted
  <1> QED
    BY <1>2, <1>3

\* S handles the head.
LEMMA ShakesAfterTail ==
    ASSUME TypeOK, NEW t, NEW h, HeadIs(toS, t, h), toS' = Tail(toS)
    PROVE  ShakesCounted
  <1>1. toS \in Seq(MessageS) /\ toS # <<>>
    BY DEF TypeOK, ChannelTypes, HeadIs
  <1>2. \A i \in DOMAIN toS' : i + 1 \in DOMAIN toS /\ toS'[i] = toS[i + 1]
    BY <1>1
  <1> QED
    BY <1>2 DEF ShakesCounted

\* A block is counted before it is acknowledged.
LEMMA RecieveBlockProgress ==
    ASSUME TypeOK, NEW g \in Guid, RecieveBlock(g)
    PROVE  CountGrows /\ ShakesCounted
  <1>1. PICK m : m = Head(toR)
    OBVIOUS
  <1>2. m.rok \in BOOLEAN /\ m.b \in Nat
    BY <1>1, HeadIsR DEF RecieveBlock
  <1>3. PICK r : r = IF m.rok THEN PushBack(g, m.b) ELSE repo[g]
    OBVIOUS
  <1>4. repo[g] \in Repository
    BY DEF TypeOK, RecvTypes
  <1>5. r \in Repository /\ r.finish >= repo[g].finish /\ r.box = repo[g].box
        /\ (~r.box => r.finish = repo[g].finish)
    <2>1. CASE m.rok /\ repo[g].box /\ repo[g].open
      <3>1. r = [repo[g] EXCEPT !.finish = repo[g].finish + m.b]
        BY <1>3, <2>1 DEF PushBack
      <3>2. repo[g].finish \in Nat /\ repo[g].finish + m.b \in Nat
            /\ repo[g].finish + m.b >= repo[g].finish
        BY <1>2, <1>4 DEF Repository
      <3>3. r.finish = repo[g].finish + m.b /\ r.box = repo[g].box /\ r \in Repository
        BY <1>4, <3>1, <3>2 DEF Repository
      <3> QED
        BY <2>1, <3>2, <3>3
    <2>2. CASE ~(m.rok /\ repo[g].box /\ repo[g].open)
      <3>1. r = repo[g]
        BY <1>3, <2>2 DEF PushBack
      <3> QED
        BY <1>4, <3>1 DEF Repository
    <2> QED
      BY <2>1, <2>2
  <1>6. repo' = [repo EXCEPT ![g] = IF m.rok /\ ProgressDue(r) THEN Acknowledged(r) ELSE r]
    BY <1>1, <1>3 DEF RecieveBlock
  <1>7. /\ repo'[g].finish = r.finish /\ repo'[g].box = r.box
        /\ \A h \in Guid \ {g} : repo'[h] = repo[h]
    <2>1. Acknowledged(r).finish = r.finish /\ Acknowledged(r).box = r.box
      BY <1>5 DEF Acknowledged, Repository
    <2> QED
      BY <1>6, <2>1 DEF TypeOK, RecvTypes
  <1>8. CountGrows
    <2>1. \A h \in Guid : repo[h].finish \in Nat
      BY DEF TypeOK, RecvTypes, Repository
    <2> QED
      BY <1>5, <1>7, <2>1 DEF CountGrows
  <1>9. ShakesCounted
    <2>1. CASE m.rok /\ ProgressDue(r)
      <3>1. PICK s : s = Msg("Shake_Pack", g, TRUE, Dword(r.finish), Dword(r.total))
        OBVIOUS
      <3>2. toS' = SendData(toS, s)
        BY <1>1, <1>3, <2>1, <3>1 DEF RecieveBlock
      <3>3. Dword(r.finish) <= r.finish
        <4>1. r.finish \in Nat
          BY <1>5 DEF Repository
        <4> QED
          BY <4>1, DwordBelow
      <3>4. s.guid = g /\ s.a <= repo'[g].finish
        BY <1>7, <3>1, <3>3 DEF Msg
      <3> QED
        BY <3>2, <3>4, ShakesAfterSend
    <2>2. CASE ~(m.rok /\ ProgressDue(r))
      <3>1. toS' = toS
        BY <1>1, <1>3, <2>2 DEF RecieveBlock
      <3> QED
        BY <3>1 DEF ShakesCounted
    <2> QED
      BY <2>1, <2>2
  <1> QED
    BY <1>8, <1>9

\* A file that is accepted keeps its count, or starts with none.
LEMMA AcceptFileProgress ==
    ASSUME TypeOK, CountedInBox, NEW g \in Guid, AcceptFile(g)
    PROVE  CountGrows /\ ShakesCounted
  <1>1. PICK opened \in BOOLEAN :
            /\ repo' = [repo EXCEPT ![g] = IF opened THEN AcceptedRepository(g, Head(toR).a) ELSE @]
            /\ toS' = SendData(toS, Msg("Can_Continue_Send", g, opened, 0, 0))
    BY DEF AcceptFile
  <1>2. repo \in [Guid -> Repository] /\ \A h \in Guid : repo[h].finish \in Nat
    BY DEF TypeOK, RecvTypes, Repository
  <1>3. PICK a : a = AcceptedRepository(g, Head(toR).a)
    OBVIOUS
  <1>4. a.finish >= repo[g].finish /\ a.box
    <2>1. CASE repo[g].box
      BY <1>2, <1>3, <2>1 DEF AcceptedRepository, Repository
    <2>2. CASE ~repo[g].box
      BY <1>2, <1>3, <2>2 DEF AcceptedRepository, CountedInBox
    <2> QED
      BY <2>1, <2>2
  <1>5. CountGrows
    <2>1. repo' = [repo EXCEPT ![g] = IF opened THEN a ELSE repo[g]]
      BY <1>1, <1>3
    <2>2. repo'[g] = (IF opened THEN a ELSE repo[g]) /\ \A h \in Guid \ {g} : repo'[h] = repo[h]
      BY <1>2, <2>1
    <2> QED
      BY <1>2, <1>4, <2>2 DEF CountGrows
  <1>6. ShakesCounted
    <2>1. Msg("Can_Continue_Send", g, opened, 0, 0).type # "Shake_Pack"
      BY DEF Msg
    <2> QED
      BY <1>1, <2>1, ShakesAfterSend
  <1> QED
    BY <1>5, <1>6

\* The other steps count nothing and acknowledge nothing.
LEMMA RecieveEndProgress ==
    ASSUME TypeOK, NEW g \in Guid, RecieveEnd(g)
    PROVE  CountGrows /\ ShakesCounted
  <1>1. repo \in [Guid -> Repository] /\ \A h \in Guid : repo[h].finish \in Nat
    BY DEF TypeOK, RecvTypes, Repository
  <1>2. PICK o : repo' = [repo EXCEPT ![g].open = o]
    BY DEF RecieveEnd
  <1>3. \A h \in Guid : repo'[h].finish = repo[h].finish /\ repo'[h].box = repo[h].box
    BY <1>1, <1>2 DEF Repository
  <1>4. PICK t \in {"Succese_Recieve_File", "Failure_Recieve_File"} :
            toS' = SendData(toS, Msg(t, g, Head(toR).rok, 0, 0))
    BY DEF RecieveEnd
  <1>5. Msg(t, g, Head(toR).rok, 0, 0).type # "Shake_Pack"
    BY DEF Msg
  <1> QED
    BY <1>1, <1>3, <1>4, <1>5, ShakesAfterSend DEF CountGrows

\* The handlers of S show what an acknowledgement says, or nothing new.
LEMMA HandleSProgress ==
    ASSUME TypeOK, NEW g \in Guid, HandleS(g)
    PROVE  ShakesCounted /\ ShownAsTold /\ UNCHANGED repo
  <1>1. UNCHANGED repo
    BY DEF HandleS, CanSendFile, IgnoreRefusal, ShakeAck, SendFileResult, InterruptTask,
           RestartTask, CancleTask, recvVars
  <1>2. toS' = Tail(toS) /\ \E t : HeadIs(toS, t, g)
    BY DEF HandleS, CanSendFile, IgnoreRefusal, ShakeAck, SendFileResult, InterruptTask,
           RestartTask, CancleTask
  <1>3. ShakesCounted
    BY <1>2, ShakesAfterTail
  <1>4. CASE ShakeAck(g)
    <2>1. toS \in Seq(MessageS) /\ toS # <<>>
      BY <1>4 DEF TypeOK, ChannelTypes, ShakeAck, HeadIs
    <2>2. 1 \in DOMAIN toS /\ Head(toS) = toS[1]
      BY <2>1
    <2>3. toS[1].type = "Shake_Pack" /\ toS[1].guid = g
      BY <1>4, <2>2 DEF ShakeAck, HeadIs
    <2>4. shown' = [shown EXCEPT ![g] = toS[1].a]
      BY <1>4, <2>2 DEF ShakeAck, Finished
    <2>5. ShownAsTold
      BY <2>2, <2>3, <2>4 DEF ShownAsTold, TypeOK, UserTypes
    <2> QED
      BY <1>1, <1>3, <2>5
  <1>5. CASE ~ShakeAck(g)
    <2>1. UNCHANGED shown
      BY <1>5 DEF HandleS, CanSendFile, IgnoreRefusal, SendFileResult, InterruptTask,
             RestartTask, CancleTask, userVars
    <2> QED
      BY <1>1, <1>3, <2>1 DEF ShownAsTold
  <1> QED
    BY <1>4, <1>5

\* The handlers of R.
LEMMA HandleRProgress ==
    ASSUME TypeOK, CountedInBox, NEW g \in Guid, HandleR(g)
    PROVE  CountGrows /\ ShakesCounted /\ UNCHANGED shown
  <1>1. UNCHANGED shown
    BY DEF HandleR, AcceptFile, RefuseFile, RecieveBlock, RecieveEnd, RecieveTaskR, userVars
  <1>2. \A h \in Guid : repo[h].finish \in Nat
    BY DEF TypeOK, RecvTypes, Repository
  <1>3. CASE RefuseFile(g)
    <2>1. Msg("Not_Can_Continue_Send", g, FALSE, 0, 0).type # "Shake_Pack"
      BY DEF Msg
    <2>2. UNCHANGED repo /\ toS' = SendData(toS, Msg("Not_Can_Continue_Send", g, FALSE, 0, 0))
      BY <1>3 DEF RefuseFile, recvVars
    <2>3. ShakesCounted
      BY <2>1, <2>2, ShakesAfterSend
    <2> QED
      BY <1>1, <1>2, <2>2, <2>3 DEF CountGrows
  <1>4. CASE RecieveTaskR(g)
    <2>1. UNCHANGED <<repo, toS>>
      BY <1>4 DEF RecieveTaskR, recvVars
    <2> QED
      BY <1>1, <1>2, <2>1 DEF CountGrows, ShakesCounted
  <1> QED
    BY <1>1, <1>3, <1>4, AcceptFileProgress, RecieveBlockProgress, RecieveEndProgress DEF HandleR

\* The user's calls and Run leave the receiver's count alone.
LEMMA CallsProgress ==
    ASSUME TypeOK,
           \/ \E g \in Guid : UserS(g) \/ UserR(g)
           \/ \E g \in Guid, k \in Attempt : Run(g, k) \/ ReleaseRun(g, k) \/ SpuriousWakeup(g, k)
    PROVE  ShakesCounted /\ UNCHANGED <<repo, shown>>
  <1>1. CASE \E g \in Guid : UserS(g)
    <2>1. UNCHANGED <<repo, shown, toS>>
      BY <1>1 DEF UserS, SendFile, InterruptFileTaskS, RestartFileTaskS, CancleFileTaskS, recvVars,
             userVars
    <2> QED
      BY <2>1 DEF ShakesCounted
  <1>2. ASSUME NEW g \in Guid, UserR(g)
        PROVE  ShakesCounted /\ UNCHANGED <<repo, shown>>
    <2>1. UNCHANGED <<repo, shown>>
      BY <1>2 DEF UserR, CreateRecieveFile, InterruptFileTaskR, RestartFileTaskR, CancleFileTaskR,
             recvVars, userVars
    <2>2. toS' = toS \/ \E t \in TaskTypes : toS' = SendData(toS, Msg(t, g, FALSE, 0, 0))
      BY <1>2 DEF UserR, CreateRecieveFile, InterruptFileTaskR, RestartFileTaskR, CancleFileTaskR,
             TaskTypes
    <2>3. \A t \in TaskTypes : Msg(t, g, FALSE, 0, 0).type # "Shake_Pack"
      BY DEF Msg, TaskTypes
    <2> QED
      BY <2>1, <2>2, <2>3, ShakesAfterSend DEF ShakesCounted
  <1>3. CASE \E g \in Guid, k \in Attempt : Run(g, k) \/ ReleaseRun(g, k) \/ SpuriousWakeup(g, k)
    <2>1. ASSUME NEW g \in Guid, NEW k \in Attempt, Run(g, k) PROVE UNCHANGED <<repo, shown, toS>>
      BY <2>1 DEF Run, RunStart, RunSetEvent, RunCheck, RunReadBlock, RunSendBlock, RunTestSkip,
             RunEndLoop, RunDigest, Release, recvVars, userVars
    <2>2. ASSUME NEW g \in Guid, NEW k \in Attempt, ReleaseRun(g, k) \/ SpuriousWakeup(g, k)
          PROVE  UNCHANGED <<repo, shown, toS>>
      BY <2>2 DEF ReleaseRun, ReleaseDelete, ReleaseErase, SpuriousWakeup, recvVars, userVars
    <2>3. UNCHANGED <<repo, shown, toS>>
      BY <1>3, <2>1, <2>2
    <2> QED
      BY <2>3 DEF ShakesCounted
  <1> QED
    BY <1>1, <1>2, <1>3

\* Every step keeps the progress truthful.
LEMMA ProgressStep ==
    ASSUME TypeOK, ProgressInv, [Next]_vars
    PROVE  ProgressInv'
  <1>1. TypeOK' /\ \A g \in Guid : repo[g].finish \in Nat
    BY TypeStep DEF TypeOK, RecvTypes, Repository
  <1>2. UNCHANGED repo => CountGrows
    BY <1>1 DEF CountGrows
  <1>3. UNCHANGED shown => ShownAsTold
    BY DEF ShownAsTold
  <1>4. CASE \E g \in Guid : HandleR(g)
    BY <1>1, <1>3, <1>4, HandleRProgress, ProgressKept DEF ProgressInv
  <1>5. CASE \E g \in Guid : HandleS(g)
    BY <1>1, <1>2, <1>5, HandleSProgress, ProgressKept
  <1>6. CASE \/ \E g \in Guid : UserS(g) \/ UserR(g)
             \/ \E g \in Guid, k \in Attempt : Run(g, k) \/ ReleaseRun(g, k) \/ SpuriousWakeup(g, k)
    BY <1>1, <1>2, <1>3, <1>6, CallsProgress, ProgressKept
  <1>7. CASE CloseChannel
    <2>1. UNCHANGED <<repo, shown>>
      BY <1>7 DEF CloseChannel, recvVars, userVars
    <2>2. toS \in Seq(MessageS) /\ \E j \in 0..Len(toS) : toS' = SubSeq(toS, 1, j)
      BY <1>7 DEF CloseChannel, TypeOK, ChannelTypes
    <2>3. \A i \in DOMAIN toS' : i \in DOMAIN toS /\ toS'[i] = toS[i]
      BY <2>2
    <2>4. ShakesCounted
      BY <2>3 DEF ShakesCounted
    <2> QED
      BY <1>1, <1>2, <1>3, <2>1, <2>4, ProgressKept
  <1>8. CASE UNCHANGED vars
    <2>1. UNCHANGED <<repo, shown, toS>>
      BY <1>8 DEF vars, recvVars, userVars
    <2>2. ShakesCounted
      BY <2>1 DEF ShakesCounted
    <2> QED
      BY <1>1, <1>2, <1>3, <2>1, <2>2, ProgressKept
  <1> QED
    BY <1>4, <1>5, <1>6, <1>7, <1>8 DEF Next

LEMMA ProgressInit == Init => ProgressInv
  BY DEF Init, ProgressInv, CountedInBox, ShakesTruthful, ProgressTruthful, NoRepository

\* The sender's user is never shown more than the receiver has written, for
\* files of any size (a size that does not fit a DWORD is shown as less).
THEOREM ProgressIsTruthful == Spec => []ProgressTruthful
  <1>1. ProgressInv => ProgressTruthful
    BY DEF ProgressInv
  <1> QED
    BY <1>1, TypeInit, TypeStep, ProgressInit, ProgressStep, PTL DEF Spec

=============================================================================
