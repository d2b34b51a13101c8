---------------------------- MODULE FileTransfer ----------------------------
(***************************************************************************)
(* The file transfer of the P2PData library, between the endpoint that     *)
(* owns a file (S) and the endpoint that receives it (R), over one ordered *)
(* message channel in each direction.                                      *)
(*                                                                         *)
(* On S a P2PThreadFile object per transfer sits in the map of the         *)
(* P2PThreadManagerFile, and a detached thread executes its Run.  On R a   *)
(* receive record sits in the same kind of map and the handlers of         *)
(* WebrtcConductor::CallbackWebrtcClient write the blocks.  The user of    *)
(* the library calls the entry points of P2PDllInterface on either side.   *)
(***************************************************************************)
EXTENDS Integers, Sequences, FiniteSets

CONSTANTS
    Guid,        \* names of the transfers
    FileSize,    \* bytes of the file behind each name
    BlockSize,   \* PER_BLOCK_SIZE, bytes read at a time
    DwordMod,    \* 2^32: sizes travel in DWORD fields
    MaxSends,    \* bound: calls of SendFile for one name
    MaxOps,      \* bound: interrupt, restart, cancel and delete calls
    MaxSpurious, \* bound: spurious wakeups of the condition variable
    MayClose     \* whether the channel may close under the transfer

ASSUME ConstantAssumption ==
    /\ FileSize \in [Guid -> Nat]
    /\ BlockSize \in Nat \ {0}
    /\ DwordMod \in Nat \ {0}
    /\ MaxSends \in Nat \ {0}
    /\ MaxOps \in Nat
    /\ MaxSpurious \in Nat
    /\ MayClose \in BOOLEAN

Attempt == 1..MaxSends   \* one per SendFile call: it names the Run thread
                         \* and the P2PThreadFile object the call creates
NoObject == 0

VARIABLES
    up,       \* the data channel is kOpen on both sides
    toR, toS, \* messages in flight, oldest first
    sends,    \* S: SendFile calls made per name
    mapS,     \* S: object the thread map holds for a name
    pc,       \* S: where the Run thread of an attempt is
    on,       \* S: object an attempt's Run thread executes on
    skip,     \* S: m_skipFlag of an object
    quit,     \* S: m_forceQuitFlag of an object
    des,      \* S: the object's receiver guid is valid
    freed,    \* S: the object has been deleted
    pack,     \* S: the packet that an attempt's Run thread has made of a block
    mixed,    \* S: another thread wrote the digest string that a Release uses
    rel,      \* S: progress of the detached ReleaseRun thread
    src,      \* S: the sender repository of a name: its ifstream
    record,   \* R: the thread map holds a receive record for the name
    repo,     \* R: the receiver repository of a name: its ofstream
    disk,     \* R: blocks in the file written for the name
    doneS, doneR, \* results the handlers of each side give to TransferFileComplete
    shown,    \* S: finished size last given to TransferProgressSlots
    ops, spurious

runVars  == <<pc, on, skip, quit, des, freed>>
sendVars == <<sends, mapS, pack, mixed, rel, src>>
recvVars == <<record, repo, disk>>
userVars == <<doneS, doneR, shown>>
bounds   == <<ops, spurious>>
vars == <<up, toR, toS, runVars, sendVars, recvVars, userVars, bounds>>

-----------------------------------------------------------------------------
(* Messages and the channel *)

RTypes == {"Create_File", "Send_File", "End_Send_File"}
STypes == {"Can_Continue_Send", "Not_Can_Continue_Send", "Shake_Pack",
           "Succese_Recieve_File", "Failure_Recieve_File"}
TaskTypes == {"Interrupt", "Restart", "Cancle"}

\* rok: rUserResGuid is not empty.  a, b: packetIndex and messageSize of a
\* block, total size of a Create_File, finished and total size of a shake; a is
\* the digest in an End_Send_File.
Message(types) ==
    [type: types, guid: Guid, rok: BOOLEAN, a: Nat, b: Nat]

Msg(t, g, ok, a, b) == [type |-> t, guid |-> g, rok |-> ok, a |-> a, b |-> b]

\* mutant: a packet that SendData reports as failed is delivered all the same
SendData_mut(q, m) == Append(q, m)

\* what a packet is made of: the receiver's guid is valid, packetIndex, messageSize
NoPacket == [rok |-> FALSE, index |-> 0, size |-> 0]

\* SessionConnectionObserver::SendData succeeds while the channel is open.
SendData(q, m) == IF up THEN Append(q, m) ELSE q

HeadIs(q, t, g) == q # <<>> /\ Head(q).type = t /\ Head(q).guid = g

Dword(n) == n % DwordMod

-----------------------------------------------------------------------------
(* The sender's and the receiver's repositories *)

NBlocks(g) == (FileSize[g] + BlockSize - 1) \div BlockSize

FileBlocks(g) == [i \in 1..NBlocks(g) |-> i]

NoStream == [box |-> FALSE, open |-> FALSE, eof |-> FALSE, pos |-> 0]

OpenedStream == [box |-> TRUE, open |-> TRUE, eof |-> FALSE, pos |-> 0]

\* bytes that the next ifstream::read of PopUp gets
ReadSize(g) ==
    LET left == FileSize[g] - src[g].pos * BlockSize IN
    IF left >= BlockSize THEN BlockSize ELSE IF left > 0 THEN left ELSE 0

CanRead(g) == src[g].box /\ src[g].open /\ ~src[g].eof

\* the stream after PopUp: a short read sets eofbit, a read that finds the
\* stream not good() closes it
PopUp(g) ==
    IF CanRead(g)
    THEN [box |-> TRUE, open |-> TRUE, eof |-> ReadSize(g) < BlockSize, pos |-> src[g].pos + 1]
    ELSE [src[g] EXCEPT !.open = FALSE]

NoRepository == [box |-> FALSE, open |-> FALSE, finish |-> 0, total |-> 0, old |-> 0]

\* the repository of a name for which AcceptFile opened the file: the data
\* box does not replace an entry it has, only the total size is set
AcceptedRepository(g, total) ==
    IF repo[g].box
    THEN [repo[g] EXCEPT !.total = total]
    ELSE [box |-> TRUE, open |-> TRUE, finish |-> 0, total |-> total, old |-> 0]

\* mutant: counts what is left instead of what is done
PushBack_mut_down(g, size) ==
    IF repo[g].box /\ repo[g].open THEN [repo[g] EXCEPT !.finish = @ - size] ELSE repo[g]

\* mutant: the size of the block replaces the sum
PushBack_mut_set(g, size) ==
    IF repo[g].box /\ repo[g].open THEN [repo[g] EXCEPT !.finish = size] ELSE repo[g]

\* P2PFileDataRepositoryReciever::PushBack: a closed stream drops the block
PushBack(g, size) ==
    IF repo[g].box /\ repo[g].open THEN [repo[g] EXCEPT !.finish = @ + size] ELSE repo[g]

Written(g, index, size) ==
    IF repo[g].box /\ repo[g].open /\ size > 0 THEN Append(disk[g], index) ELSE disk[g]

\* the file after a second stream opened it with trunc: the first stream, if
\* it is open, goes on at its old offset and leaves a hole before it
Hole == 0

Truncated(g) == IF repo[g].open THEN [i \in DOMAIN disk[g] |-> Hole] ELSE <<>>

\* ResProgressDisk: the finished share moved by a thousandth or is complete.
\* With a total of zero the share is NaN or infinite: NaN compares false.
ProgressDue(r) ==
    LET moved == IF r.finish >= r.old THEN r.finish - r.old ELSE r.old - r.finish IN
    /\ r.box
    /\ \/ r.total > 0 /\ (r.finish = r.total \/ 1000 * moved >= r.total)
       \/ r.total = 0 /\ r.finish > 0 /\ r.old = 0

Acknowledged(r) == [r EXCEPT !.old = r.finish]

-----------------------------------------------------------------------------
(* P2PThreadFile and its event *)

Waits == {"failwait", "wait", "pause"}
PCs == {"idle", "start", "to_failwait", "to_wait", "check", "loop", "send", "test",
        "to_pause", "release", "end", "done"} \cup Waits

\* where Run goes on when the wait of SetEvent returns
Woken(p) == IF p = "failwait" THEN "to_wait"
            ELSE IF p = "wait" THEN "check"
            ELSE IF p = "pause" THEN "loop" ELSE p

\* ResetEvent: notify_all wakes the threads that wait now, and no later one
NotifyAll(g, o) ==
    pc' = [pc EXCEPT ![g] = [k \in Attempt |->
                              IF on[g][k] = o THEN Woken(pc[g][k]) ELSE pc[g][k]]]

Live(g) == mapS[g] # NoObject

Suspend(g) == skip' = [skip EXCEPT ![g][mapS[g]] = TRUE]

Resume(g) ==
    /\ skip' = [skip EXCEPT ![g][mapS[g]] = FALSE]
    /\ NotifyAll(g, mapS[g])

ForceQuit(g) == quit' = [quit EXCEPT ![g][mapS[g]] = TRUE]

\* P2PThreadManagerFile::UnAttach: only sets the flag, and wakes nobody
UnAttach(g) == IF Live(g) THEN ForceQuit(g) ELSE UNCHANGED quit

SuspendChildThread(g) == IF Live(g) THEN Suspend(g) ELSE UNCHANGED skip

ResumeChildThread(g) == IF Live(g) THEN Resume(g) ELSE UNCHANGED <<skip, pc>>

-----------------------------------------------------------------------------
(* Entry points called by the user on S *)

\* The string that GetResourceMd5 and CreateDataRepository of one endpoint
\* share: a Release uses it from the computation of its digest (release) to the
\* copy that it sends (end).
UsesDigest(h, j) == pc[h][j] = "end"

DigestWritten == [h \in Guid |-> [j \in Attempt |-> mixed[h][j] \/ UsesDigest(h, j)]]

\* A user sends a name again only after a result was reported for it.  The
\* repository of the name is created before (CreateBarcodeFile).
SendFile(g) ==
    /\ sends[g] < MaxSends
    /\ sends[g] > 0 => doneS[g] # {}
    /\ LET k == sends[g] + 1
           o == IF Live(g) THEN mapS[g] ELSE k  \* insert does not overwrite
       IN /\ sends' = [sends EXCEPT ![g] = k]
          /\ mapS' = [mapS EXCEPT ![g] = o]
          /\ on' = [on EXCEPT ![g][k] = o]
          /\ pc' = [pc EXCEPT ![g][k] = "start"]
    /\ src' = [src EXCEPT ![g] = IF @.box THEN @ ELSE OpenedStream]
    /\ mixed' = IF src[g].box THEN mixed ELSE DigestWritten
    /\ UNCHANGED <<up, toR, toS, skip, quit, des, freed, pack, rel, recvVars, userVars, bounds>>

UserOp == /\ ops < MaxOps
          /\ ops' = ops + 1

InterruptFileTaskS(g) ==
    /\ UserOp
    /\ Live(g)
    /\ Suspend(g)
    /\ toR' = SendData(toR, Msg("Interrupt", g, FALSE, 0, 0))
    /\ UNCHANGED <<up, toS, pc, on, quit, des, freed, sendVars, recvVars, userVars, spurious>>

RestartFileTaskS(g) ==
    /\ UserOp
    /\ Live(g)
    /\ Resume(g)
    /\ toR' = SendData(toR, Msg("Restart", g, FALSE, 0, 0))
    /\ UNCHANGED <<up, toS, on, quit, des, freed, sendVars, recvVars, userVars, spurious>>

CancleFileTaskS(g) ==
    /\ UserOp
    /\ UnAttach(g)
    /\ toR' = SendData(toR, Msg("Cancle", g, FALSE, 0, 0))
    /\ UNCHANGED <<up, toS, pc, on, skip, des, freed, sendVars, recvVars, userVars, spurious>>

-----------------------------------------------------------------------------
(* Entry points called by the user on R.  The record is a P2PThreadFile    *)
(* whose Run is never started, so its flags have no effect.                *)

CreateRecieveFile(g) ==
    /\ ~record[g]
    /\ record' = [record EXCEPT ![g] = TRUE]
    /\ UNCHANGED <<up, toR, toS, runVars, sendVars, repo, disk, userVars, bounds>>

InterruptFileTaskR(g) ==
    /\ UserOp
    /\ record[g]
    /\ toS' = SendData(toS, Msg("Interrupt", g, FALSE, 0, 0))
    /\ UNCHANGED <<up, toR, runVars, sendVars, recvVars, userVars, spurious>>

RestartFileTaskR(g) ==
    /\ UserOp
    /\ record[g]
    /\ toS' = SendData(toS, Msg("Restart", g, FALSE, 0, 0))
    /\ UNCHANGED <<up, toR, runVars, sendVars, recvVars, userVars, spurious>>

CancleFileTaskR(g) ==
    /\ UserOp
    /\ toS' = SendData(toS, Msg("Cancle", g, FALSE, 0, 0))
    /\ UNCHANGED <<up, toR, runVars, sendVars, recvVars, userVars, spurious>>

-----------------------------------------------------------------------------
(* P2PThreadFile::Run, the sending thread of attempt k *)

Goto(g, k, p) == pc' = [pc EXCEPT ![g][k] = p]

RunStart(g, k) ==
    /\ pc[g][k] = "start"
    /\ toR' = SendData(toR, Msg("Create_File", g, FALSE, Dword(FileSize[g]), 0))
    /\ Goto(g, k, IF up THEN "to_wait" ELSE "to_failwait")
    /\ UNCHANGED <<up, toS, on, skip, quit, des, freed, sendVars, recvVars, userVars, bounds>>

\* CHandleBaseExe::SetEvent, which waits
RunSetEvent(g, k) ==
    /\ \/ pc[g][k] = "to_failwait" /\ Goto(g, k, "failwait")
       \/ pc[g][k] = "to_wait"     /\ Goto(g, k, "wait")
       \/ pc[g][k] = "to_pause"    /\ Goto(g, k, "pause")
    /\ UNCHANGED <<up, toR, toS, on, skip, quit, des, freed, sendVars, recvVars, userVars, bounds>>

\* a condition_variable wait without a predicate may return on its own
SpuriousWakeup(g, k) ==
    /\ spurious < MaxSpurious
    /\ pc[g][k] \in Waits
    /\ spurious' = spurious + 1
    /\ Goto(g, k, Woken(pc[g][k]))
    /\ UNCHANGED <<up, toR, toS, on, skip, quit, des, freed, sendVars, recvVars, userVars, ops>>

\* mutant: a wakeup is taken for an acceptance
Accepted_mut(g, k) == TRUE

Accepted(g, k) == des[g][on[g][k]]

RunCheck(g, k) ==
    /\ pc[g][k] = "check"
    /\ Goto(g, k, IF Accepted(g, k) THEN "loop" ELSE "release")
    /\ UNCHANGED <<up, toR, toS, on, skip, quit, des, freed, sendVars, recvVars, userVars, bounds>>

\* The packet of the block that PopUp reads, with the guids of that time
NextPacket(g, k) ==
    [rok |-> Accepted(g, k), index |-> src[g].pos + 1, size |-> ReadSize(g)]

\* A turn of the while loop that reads a block.  The packet is then sent by a
\* call that blocks: what users do in the meantime is seen by the tests of the
\* two flags, of which the one of m_skipFlag comes first.
RunReadBlock(g, k) ==
    /\ pc[g][k] = "loop"
    /\ ~quit[g][on[g][k]]
    /\ CanRead(g)
    /\ src' = [src EXCEPT ![g] = PopUp(g)]
    /\ pack' = [pack EXCEPT ![g][k] = NextPacket(g, k)]
    /\ Goto(g, k, "send")
    /\ UNCHANGED <<up, toR, toS, on, skip, quit, des, freed, sends, mapS, mixed, rel,
                   recvVars, userVars, bounds>>

\* mutant: the pause is taken between reading a block and sending it
SendBlock_mut(g, k) ==
    LET p == pack[g][k] IN
    IF skip[g][on[g][k]] THEN toR ELSE SendData(toR, Msg("Send_File", g, p.rok, p.index, p.size))

SendBlock(g, k) ==
    LET p == pack[g][k] IN SendData(toR, Msg("Send_File", g, p.rok, p.index, p.size))

RunSendBlock(g, k) ==
    /\ pc[g][k] = "send"
    /\ toR' = SendBlock(g, k)
    /\ Goto(g, k, IF up THEN "test" ELSE "release")
    /\ doneS' = [doneS EXCEPT ![g] = IF up THEN @ ELSE @ \cup {"FAILURE"}]
    /\ UNCHANGED <<up, toS, on, skip, quit, des, freed, sendVars,
                   recvVars, doneR, shown, bounds>>

\* the pause, if the user or the receiver has asked for one
RunTestSkip(g, k) ==
    /\ pc[g][k] = "test"
    /\ Goto(g, k, IF skip[g][on[g][k]] THEN "to_pause" ELSE "loop")
    /\ UNCHANGED <<up, toR, toS, on, skip, quit, des, freed, sendVars, recvVars,
                   userVars, bounds>>

\* a turn that leaves the loop: forced to quit, or no block left
RunEndLoop(g, k) ==
    /\ pc[g][k] = "loop"
    /\ quit[g][on[g][k]] \/ ~CanRead(g)
    /\ src' = [src EXCEPT ![g] = IF quit[g][on[g][k]] THEN @ ELSE PopUp(g)]
    /\ Goto(g, k, "release")
    /\ UNCHANGED <<up, toR, toS, on, skip, quit, des, freed, sends, mapS, pack, mixed, rel,
                   recvVars, userVars, bounds>>

\* Release begins: GetResourceMd5 clears the shared string, computes the digest
\* and stores it there.
RunDigest(g, k) ==
    /\ pc[g][k] = "release"
    /\ mixed' = [DigestWritten EXCEPT ![g][k] =
                    \E h \in Guid, j \in Attempt : UsesDigest(h, j)]
    /\ Goto(g, k, "end")
    /\ UNCHANGED <<up, toR, toS, on, skip, quit, des, freed, sends, mapS, pack, rel, src,
                   recvVars, userVars, bounds>>

\* what a Release may copy from the string: the digest of its file, and any
\* other text if another thread has written the string meanwhile
OwnDigest == 0
OtherText == 1

Digests(g, k) == {OwnDigest} \cup (IF mixed[g][k] THEN {OtherText} ELSE {})

\* mutant: the receiver's guid is not put into the packet
SendEnd_mut_guid(g, k, d) == SendData(toR, Msg("End_Send_File", g, FALSE, d, 0))

\* mutant: no packet for a transfer that was not accepted
SendEnd_mut_quiet(g, k, d) ==
    IF Accepted(g, k) THEN SendData(toR, Msg("End_Send_File", g, TRUE, d, 0)) ELSE toR

SendEnd(g, k, d) == SendData(toR, Msg("End_Send_File", g, Accepted(g, k), d, 0))

\* mutant: returns early when the last packet could not be sent
SpawnRelease_mut(g, k) == IF up THEN [rel EXCEPT ![g][k] = "pending"] ELSE rel

SpawnRelease(g, k) == [rel EXCEPT ![g][k] = "pending"]

\* the rest of Release
Release(g, k) ==
    /\ pc[g][k] = "end"
    /\ \E d \in Digests(g, k) : toR' = SendEnd(g, k, d)
    /\ rel' = SpawnRelease(g, k)
    /\ Goto(g, k, "done")
    /\ UNCHANGED <<up, toS, on, skip, quit, des, freed, sends, mapS, pack, mixed, src,
                   recvVars, userVars, bounds>>

\* mutant: UnAttach releases the object at once
Releasing_mut(g, k) ==
    \/ rel[g][k] = "pending"
    \/ rel[g][k] = "none" /\ Live(g) /\ quit[g][mapS[g]]

Releasing(g, k) == rel[g][k] = "pending"

\* P2PThreadManagerFile::ReleaseThread in its detached thread: the object is
\* deleted first and its map entry erased afterwards
ReleaseDelete(g, k) ==
    /\ Releasing(g, k)
    /\ IF Live(g)
       THEN /\ freed' = [freed EXCEPT ![g][mapS[g]] = TRUE]
            /\ rel' = [rel EXCEPT ![g][k] = "deleted"]
       ELSE /\ rel' = [rel EXCEPT ![g][k] = "done"]
            /\ UNCHANGED freed
    /\ UNCHANGED <<up, toR, toS, pc, on, skip, quit, des, sends, mapS, pack, mixed, src,
                   recvVars, userVars, bounds>>

ReleaseErase(g, k) ==
    /\ rel[g][k] = "deleted"
    /\ mapS' = [mapS EXCEPT ![g] = NoObject]
    /\ rel' = [rel EXCEPT ![g][k] = "done"]
    /\ UNCHANGED <<up, toR, toS, runVars, sends, pack, mixed, src, recvVars, userVars, bounds>>

-----------------------------------------------------------------------------
(* Messages handled by R: RecieveDataChannel and CallbackWebrtcClient *)

\* AcceptFile: a name with a receive record gets a repository, and its file is
\* made anew.  If the file cannot be opened, the repository is filed under an
\* empty name and the answer carries no guid.
AcceptFile(g) ==
    /\ HeadIs(toR, "Create_File", g)
    /\ record[g]
    /\ \E opened, removed \in BOOLEAN :
          /\ repo' = [repo EXCEPT ![g] = IF opened THEN AcceptedRepository(g, Head(toR).a) ELSE @]
          /\ removed => ~repo[g].open   \* an open file cannot be removed
          /\ disk' = [disk EXCEPT ![g] = IF opened THEN Truncated(g)
                                         ELSE IF removed THEN <<>> ELSE @]
          /\ toS' = SendData(toS, Msg("Can_Continue_Send", g, opened, 0, 0))
    /\ toR' = Tail(toR)
    /\ UNCHANGED <<up, runVars, sendVars, record, userVars, bounds>>

RefuseFile(g) ==
    /\ HeadIs(toR, "Create_File", g)
    /\ ~record[g]
    /\ toS' = SendData(toS, Msg("Not_Can_Continue_Send", g, FALSE, 0, 0))
    /\ toR' = Tail(toR)
    /\ UNCHANGED <<up, runVars, sendVars, recvVars, userVars, bounds>>

\* RECIEVE_FILE_CHANNEL: save the block, report and acknowledge progress
RecieveBlock(g) ==
    /\ HeadIs(toR, "Send_File", g)
    /\ LET m == Head(toR)
           r == IF m.rok THEN PushBack(g, m.b) ELSE repo[g]
           due == m.rok /\ ProgressDue(r)
       IN /\ repo' = [repo EXCEPT ![g] = IF due THEN Acknowledged(r) ELSE r]
          /\ disk' = [disk EXCEPT ![g] = IF m.rok THEN Written(g, m.a, m.b) ELSE @]
          /\ toS' = IF due
                    THEN SendData(toS, Msg("Shake_Pack", g, TRUE, Dword(r.finish), Dword(r.total)))
                    ELSE toS
    /\ toR' = Tail(toR)
    /\ UNCHANGED <<up, runVars, sendVars, record, userVars, bounds>>

\* mutant: a file that exists is taken for the right one
SameFile_mut_any(g, m) == m.rok /\ repo[g].box

\* mutant: an empty file is never complete
SameFile_mut_empty(g, m) == m.rok /\ repo[g].box /\ repo[g].finish > 0 /\ disk[g] = FileBlocks(g)

\* The digests are equal exactly when the contents are.
SameFile(g, m) == m.rok /\ repo[g].box /\ disk[g] = FileBlocks(g)

\* A text that is not the digest of the file may be the digest of another file,
\* which is empty as well, or the cleared string, which GetResourceMd5 also
\* gives R for a packet that names no repository.
OtherMatches(g, m) ==
    \/ m.rok /\ repo[g].box /\ disk[g] = <<>> /\ \E h \in Guid : FileSize[h] = 0
    \/ ~m.rok

\* whether the comparison of END_SEND_FILE may come out as same
Compared(g, m, same) ==
    IF m.a = OwnDigest THEN same = SameFile(g, m) ELSE same => OtherMatches(g, m)

\* END_SEND_FILE: close the file, compare the digests, answer, report.  UnAttach
\* sets the flag of the receive record, which has no Run.
RecieveEnd(g) ==
    /\ HeadIs(toR, "End_Send_File", g)
    /\ \E same \in BOOLEAN :
          /\ Compared(g, Head(toR), same)
          /\ repo' = [repo EXCEPT ![g].open = IF Head(toR).rok THEN FALSE ELSE @]
          /\ toS' = SendData(toS, Msg(IF same THEN "Succese_Recieve_File"
                                      ELSE "Failure_Recieve_File", g, Head(toR).rok, 0, 0))
          /\ doneR' = [doneR EXCEPT ![g] = @ \cup {IF same THEN "SUCCESS" ELSE "FAILURE"}]
    /\ toR' = Tail(toR)
    /\ UNCHANGED <<up, runVars, sendVars, record, disk, doneS, shown, bounds>>

\* Only a SEND_TASK is interrupted or restarted, so R ignores both.
RecieveTaskR(g) ==
    /\ \/ HeadIs(toR, "Interrupt", g) /\ UNCHANGED doneR
       \/ HeadIs(toR, "Restart", g)   /\ UNCHANGED doneR
       \/ /\ HeadIs(toR, "Cancle", g)
          /\ doneR' = [doneR EXCEPT ![g] = @ \cup {"CANCLE"}]
    /\ toR' = Tail(toR)
    /\ UNCHANGED <<up, toS, runVars, sendVars, recvVars, doneS, shown, bounds>>

-----------------------------------------------------------------------------
(* Messages handled by S *)

\* CAN_SEND_FILE
CanSendFile(g) ==
    /\ HeadIs(toS, "Can_Continue_Send", g)
    /\ IF Live(g)
       THEN des' = [des EXCEPT ![g][mapS[g]] = Head(toS).rok]
       ELSE UNCHANGED des
    /\ ResumeChildThread(g)
    /\ toS' = Tail(toS)
    /\ UNCHANGED <<up, toR, on, quit, freed, sendVars, recvVars, userVars, bounds>>

\* RecieveDataChannel has no case for a refusal: the message is dropped.
IgnoreRefusal(g) ==
    /\ HeadIs(toS, "Not_Can_Continue_Send", g)
    /\ toS' = Tail(toS)
    /\ UNCHANGED <<up, toR, runVars, sendVars, recvVars, userVars, bounds>>

\* mutant: the total size is shown for the finished one
Finished_mut(m) == m.b

Finished(m) == m.a

\* SHAKE_ACK_PACKET
ShakeAck(g) ==
    /\ HeadIs(toS, "Shake_Pack", g)
    /\ shown' = [shown EXCEPT ![g] = Finished(Head(toS))]
    /\ toS' = Tail(toS)
    /\ UNCHANGED <<up, toR, runVars, sendVars, recvVars, doneS, doneR, bounds>>

\* SEND_FILE_SUCCESS and SEND_FILE_FAILURE
SendFileResult(g) ==
    /\ \/ /\ HeadIs(toS, "Succese_Recieve_File", g)
          /\ doneS' = [doneS EXCEPT ![g] = @ \cup {"SUCCESS"}]
       \/ /\ HeadIs(toS, "Failure_Recieve_File", g)
          /\ doneS' = [doneS EXCEPT ![g] = @ \cup {"FAILURE"}]
    /\ toS' = Tail(toS)
    /\ UNCHANGED <<up, toR, runVars, sendVars, recvVars, doneR, shown, bounds>>

InterruptTask(g) ==
    /\ HeadIs(toS, "Interrupt", g)
    /\ SuspendChildThread(g)
    /\ toS' = Tail(toS)
    /\ UNCHANGED <<up, toR, pc, on, quit, des, freed, sendVars, recvVars, userVars, bounds>>

RestartTask(g) ==
    /\ HeadIs(toS, "Restart", g)
    /\ ResumeChildThread(g)
    /\ toS' = Tail(toS)
    /\ UNCHANGED <<up, toR, on, quit, des, freed, sendVars, recvVars, userVars, bounds>>

CancleTask(g) ==
    /\ HeadIs(toS, "Cancle", g)
    /\ UnAttach(g)
    /\ doneS' = [doneS EXCEPT ![g] = @ \cup {"CANCLE"}]
    /\ toS' = Tail(toS)
    /\ UNCHANGED <<up, toR, pc, on, skip, des, freed, sendVars, recvVars, doneR, shown, bounds>>

-----------------------------------------------------------------------------
(* The channel closes; what is in flight is lost from some point on. *)

CloseChannel ==
    /\ MayClose /\ up
    /\ up' = FALSE
    /\ \E i \in 0..Len(toR), j \in 0..Len(toS) :
          /\ toR' = SubSeq(toR, 1, i)
          /\ toS' = SubSeq(toS, 1, j)
    /\ UNCHANGED <<runVars, sendVars, recvVars, userVars, bounds>>

-----------------------------------------------------------------------------
Init ==
    /\ up = TRUE
    /\ toR = <<>> /\ toS = <<>>
    /\ sends = [g \in Guid |-> 0]
    /\ mapS = [g \in Guid |-> NoObject]
    /\ pc = [g \in Guid |-> [k \in Attempt |-> "idle"]]
    /\ on = [g \in Guid |-> [k \in Attempt |-> k]]
    /\ skip = [g \in Guid |-> [k \in Attempt |-> FALSE]]
    /\ quit = [g \in Guid |-> [k \in Attempt |-> FALSE]]
    /\ des = [g \in Guid |-> [k \in Attempt |-> FALSE]]
    /\ freed = [g \in Guid |-> [k \in Attempt |-> FALSE]]
    /\ pack = [g \in Guid |-> [k \in Attempt |-> NoPacket]]
    /\ mixed = [g \in Guid |-> [k \in Attempt |-> FALSE]]
    /\ rel = [g \in Guid |-> [k \in Attempt |-> "none"]]
    /\ src = [g \in Guid |-> NoStream]
    /\ record = [g \in Guid |-> FALSE]
    /\ repo = [g \in Guid |-> NoRepository]
    /\ disk = [g \in Guid |-> <<>>]
    /\ doneS = [g \in Guid |-> {}]
    /\ doneR = [g \in Guid |-> {}]
    /\ shown = [g \in Guid |-> 0]
    /\ ops = 0
    /\ spurious = 0

UserS(g) == SendFile(g) \/ InterruptFileTaskS(g) \/ RestartFileTaskS(g) \/ CancleFileTaskS(g)

UserR(g) == CreateRecieveFile(g) \/ InterruptFileTaskR(g) \/ RestartFileTaskR(g)
               \/ CancleFileTaskR(g)

Run(g, k) == RunStart(g, k) \/ RunSetEvent(g, k) \/ RunCheck(g, k) \/ RunReadBlock(g, k)
                \/ RunSendBlock(g, k) \/ RunTestSkip(g, k) \/ RunEndLoop(g, k)
                \/ RunDigest(g, k) \/ Release(g, k)

ReleaseRun(g, k) == ReleaseDelete(g, k) \/ ReleaseErase(g, k)

HandleR(g) == AcceptFile(g) \/ RefuseFile(g) \/ RecieveBlock(g) \/ RecieveEnd(g)
                 \/ RecieveTaskR(g)

HandleS(g) == CanSendFile(g) \/ IgnoreRefusal(g) \/ ShakeAck(g) \/ SendFileResult(g)
                 \/ InterruptTask(g) \/ RestartTask(g) \/ CancleTask(g)

Next ==
    \/ \E g \in Guid : UserS(g) \/ UserR(g) \/ HandleR(g) \/ HandleS(g)
    \/ \E g \in Guid, k \in Attempt : Run(g, k) \/ ReleaseRun(g, k) \/ SpuriousWakeup(g, k)
    \/ CloseChannel

Spec == Init /\ [][Next]_vars

\* The threads that run and the thread that delivers messages are scheduled;
\* users, spurious wakeups and failures are not owed.
Fairness ==
    /\ \A g \in Guid : WF_vars(HandleR(g)) /\ WF_vars(HandleS(g))
    /\ \A g \in Guid, k \in Attempt : WF_vars(Run(g, k)) /\ WF_vars(ReleaseRun(g, k))

FairSpec == Spec /\ Fairness

-----------------------------------------------------------------------------
(* Properties *)

Stream == [box: BOOLEAN, open: BOOLEAN, eof: BOOLEAN, pos: Nat]
Packet == [rok: BOOLEAN, index: Nat, size: Nat]
Repository == [box: BOOLEAN, open: BOOLEAN, finish: Nat, total: Nat, old: Nat]
Reported == {"SUCCESS", "FAILURE", "CANCLE"}
MessageR == Message(RTypes \cup TaskTypes)
MessageS == Message(STypes \cup TaskTypes)

ChannelTypes == /\ up \in BOOLEAN
                /\ toR \in Seq(MessageR)
                /\ toS \in Seq(MessageS)

RunTypes == /\ pc \in [Guid -> [Attempt -> PCs]]
            /\ on \in [Guid -> [Attempt -> Attempt]]
            /\ skip \in [Guid -> [Attempt -> BOOLEAN]]
            /\ quit \in [Guid -> [Attempt -> BOOLEAN]]
            /\ des \in [Guid -> [Attempt -> BOOLEAN]]
            /\ freed \in [Guid -> [Attempt -> BOOLEAN]]

SendTypes == /\ sends \in [Guid -> 0..MaxSends]
             /\ mapS \in [Guid -> 0..MaxSends]
             /\ pack \in [Guid -> [Attempt -> Packet]]
             /\ mixed \in [Guid -> [Attempt -> BOOLEAN]]
             /\ rel \in [Guid -> [Attempt -> {"none", "pending", "deleted", "done"}]]
             /\ src \in [Guid -> Stream]

RecvTypes == /\ record \in [Guid -> BOOLEAN]
             /\ repo \in [Guid -> Repository]
             /\ disk \in [Guid -> Seq(Nat)]

UserTypes == /\ doneS \in [Guid -> SUBSET Reported]
             /\ doneR \in [Guid -> SUBSET Reported]
             /\ shown \in [Guid -> Nat]
             /\ ops \in 0..MaxOps
             /\ spurious \in 0..MaxSpurious

\* Every variable has its type: what the handlers and Run store and send.
TypeOK == ChannelTypes /\ RunTypes /\ SendTypes /\ RecvTypes /\ UserTypes

Turn == {"loop", "send", "test"}
Sending == Turn \cup {"to_pause", "pause"}

SendingWanted == \A g \in Guid, k \in Attempt : pc[g][k] \in Sending => repo[g].box

BlocksWanted == \A i \in DOMAIN toR : toR[i].type = "Send_File" => repo[toR[i].guid].box

\* Run sends no block before the receiver accepted: whenever its thread is in
\* the sending loop, and whenever a block is in flight, the receiver has
\* created the repository that the block is for (P2PThreadFile::Run waits for
\* Can_Continue_Send, which AcceptFile sends after RecieveFile).
NoDataBeforeAccept == SendingWanted /\ BlocksWanted

\* What makes it inductive: an acceptance that travels, or that an object has
\* recorded, is backed by the repository too.
AnswersBacked ==
    \A i \in DOMAIN toS :
        toS[i].type = "Can_Continue_Send" /\ toS[i].rok => repo[toS[i].guid].box

RecordsBacked == \A g \in Guid, o \in Attempt : des[g][o] => repo[g].box

AcceptInv == /\ TypeOK
             /\ NoDataBeforeAccept
             /\ AnswersBacked
             /\ RecordsBacked

\* The received file is always a prefix of the sent one, whatever the users
\* interrupt, restart or cancel and wherever the channel closes: PopUp reads
\* and PushBack writes every block once and in order.  (One SendFile a name.)
PrefixOnDisk ==
    \A g \in Guid : \E n \in 0..NBlocks(g) : disk[g] = [i \in 1..n |-> i]

\* no Release of the name shared the digest string with another thread
OwnDigests(g) == \A k \in Attempt : ~mixed[g][k]

\* When the sender's user is told SUCCESS, the receiver's handler came to the
\* same verdict and the whole file is on the receiver's disk, from then on
\* (END_SEND_FILE closes the stream before it compares the digests), unless the
\* digest sent with the end may have been that of another transfer.
SuccessAgreement ==
    \A g \in Guid : "SUCCESS" \in doneS[g] /\ OwnDigests(g) =>
        "SUCCESS" \in doneR[g] /\ disk[g] = FileBlocks(g)

\* No user gets both SUCCESS and FAILURE from TransferFileComplete: the block
\* that Run could not send reports FAILURE, and then End_Send_File must not
\* arrive and make the receiver report as well.  (One SendFile a name.)
OneVerdict ==
    \A g \in Guid : /\ ~({"SUCCESS", "FAILURE"} \subseteq doneS[g])
                    /\ ~({"SUCCESS", "FAILURE"} \subseteq doneR[g])

\* ReleaseThread never deletes the object a Run thread still executes on.
\* (One SendFile a name: Attach does not replace an entry that the release of
\* the first call has yet to erase, and the second Run would use its object.)
RunOnLiveObject ==
    \A g \in Guid, k \in Attempt :
        pc[g][k] \notin {"idle", "done"} => ~freed[g][on[g][k]]

\* The progress shown to the sender's user never exceeds what the receiver has
\* written, although acknowledgements travel while more blocks arrive.
ProgressTruthful == \A g \in Guid : shown[g] <= repo[g].finish

\* The progress shown to the sender's user never goes back.
ProgressMonotone == [][\A g \in Guid : shown'[g] >= shown[g]]_vars

\* A Run thread that ended gets its user a verdict, however it ended (refused,
\* cancelled, complete), unless the channel closes: Release always sends
\* End_Send_File and END_SEND_FILE always answers.
VerdictReported ==
    \A g \in Guid, k \in Attempt :
        pc[g][k] = "done" ~> doneS[g] \cap {"SUCCESS", "FAILURE"} # {} \/ ~up

\* Run leaves the sending loop: it is paused, or it ends and its object is
\* released.  A cancelled one that has no order to pause (m_skipFlag) ends,
\* unless it is interrupted after the cancel: the flag of the interrupt is
\* tested first, and Run then waits with the order to quit unseen.
SendingEnds ==
    \A g \in Guid, k \in Attempt :
        /\ pc[g][k] \in Turn ~> pc[g][k] = "pause" \/ rel[g][k] = "done"
        /\ pc[g][k] \in Turn /\ quit[g][on[g][k]]
               ~> skip[g][on[g][k]] \/ rel[g][k] = "done"

\* A transfer that the receiver accepted and that nobody disturbs succeeds:
\* from the first turn of Run's loop to SUCCESS on both sides, for files of
\* every length (empty, shorter than a block, a whole number of blocks), also
\* while other transfers start, run and end.  What is left out is a Release
\* whose use of the digest string overlaps another one (GetResourceMd5).
AcceptedSucceeds ==
    \A g \in Guid, k \in Attempt :
        pc[g][k] = "loop" ~> \/ "SUCCESS" \in doneS[g] \cap doneR[g]
                             \/ ~up \/ ops > 0 \/ mixed[g][k]

\* The comment at P2PThread.cc:613, "wait opposite client's inform, then start
\* the send data stream": a Run whose acceptance has arrived starts to send.
AcceptedStarts ==
    \A g \in Guid, k \in Attempt :
        pc[g][k] \in {"to_wait", "wait"} /\ Accepted(g, k)
            ~> pc[g][k] \notin {"to_wait", "wait"}

\* The comment at P2PThread.cc:283, "set the transfering thread quit right
\* now": a sending thread that was cancelled ends.
CancelledEnds ==
    \A g \in Guid, k \in Attempt :
        pc[g][k] \in Sending /\ quit[g][on[g][k]] ~> pc[g][k] = "done"

\* The transfer implements FileDelivery, with the blocks on the receiver's
\* disk as what was delivered and the TransferFileComplete calls as what the
\* users were told.  (One SendFile a name, and no Release that shares its
\* digest string with another thread: the run has one transfer.)
Delivery == INSTANCE FileDelivery WITH
    Total <- [g \in Guid |-> NBlocks(g)],
    got <- [g \in Guid |-> Len(disk[g])],
    verdict <- doneR,
    told <- doneS

ImplementsDelivery == Delivery!Spec
=============================================================================
