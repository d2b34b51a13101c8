--------------------------- MODULE FileTransferFlow ---------------------------
(***************************************************************************)
(* The flow of one file: what Run reads is what travels is what is written *)
(* to the receiver's disk, and one verdict follows.  From this the received *)
(* file is a prefix of the sent one, the users' results agree, progress     *)
(* never goes back, and FileTransfer implements FileDelivery.  All for      *)
(* MaxSends = 1: one SendFile a name, as the properties say.                *)
(***************************************************************************)
EXTENDS FileTransferProofs

-----------------------------------------------------------------------------
(* What is in flight for a transfer *)

Answers == {"Can_Continue_Send"}
Results == {"Succese_Recieve_File", "Failure_Recieve_File"}
Verdicts == {"SUCCESS", "FAILURE"}

Of(m, g, T) == m.guid = g /\ m.type \in T

Block(m, g) == Of(m, g, {"Send_File"})

\* some message of q for g is of one of the types T
Has(q, g, T) == \E i \in DOMAIN q : Of(q[i], g, T)

One(q, g, T) == \A i, j \in DOMAIN q : Of(q[i], g, T) /\ Of(q[j], g, T) => i = j

\* A request comes first, an end comes last, blocks come in their order.
InOrder(q, g) ==
    \A i, j \in DOMAIN q :
        i < j /\ Of(q[i], g, RTypes) /\ Of(q[j], g, RTypes) =>
            /\ q[i].type # "End_Send_File"
            /\ q[j].type # "Create_File"
            /\ q[i].type = q[j].type => q[i].a < q[j].a

\* No block is missing between the n blocks on disk and one in flight.
Linked(q, g, n) ==
    \A i \in DOMAIN q : Block(q[i], g) =>
        \/ q[i].a = n + 1
        \/ \E j \in DOMAIN q : j < i /\ Block(q[j], g) /\ q[j].a + 1 = q[i].a

\* bytes of the file up to the block that follows n others
Bytes(g, n) == IF n * BlockSize <= FileSize[g] THEN n * BlockSize ELSE FileSize[g]

\* A block carries what the a-th read of the file gave.
AsRead(q, g, pos) ==
    \A i \in DOMAIN q : Block(q[i], g) =>
        /\ q[i].rok
        /\ q[i].a \in 1..pos
        /\ (q[i].a - 1) * BlockSize <= FileSize[g]
        /\ q[i].b = Bytes(g, q[i].a) - Bytes(g, q[i].a - 1)

\* The last block that was read is on disk or in flight.
LastKnown(q, g, pos, n) ==
    pos = n \/ \E i \in DOMAIN q : Block(q[i], g) /\ q[i].a = pos

-----------------------------------------------------------------------------
(* The inductive invariant *)

Judged(g) == doneR[g] \cap Verdicts # {}

\* blocks that Run has read and sent: the packet it holds is not sent yet
Sent(g) == IF pc[g][1] = "send" THEN src[g].pos - 1 ELSE src[g].pos

\* Before Run has asked, nothing of the transfer exists on the other side.
NothingYet(g) ==
    pc[g][1] \in {"idle", "start"} =>
        /\ ~repo[g].box /\ ~des[g][1]
        /\ ~Has(toR, g, RTypes) /\ ~Has(toS, g, Answers)

\* There is one request, then one answer, and then a guid in the object.
AskedOnce(g) ==
    /\ Has(toR, g, {"Create_File"}) => ~repo[g].box /\ ~des[g][1] /\ ~Has(toS, g, Answers)
    /\ Has(toS, g, Answers) => ~des[g][1]
    /\ One(toS, g, Answers)

\* Only a transfer with a guid is read.
GuidFirst(g) == pc[g][1] \in Sending \/ src[g].pos > 0 => des[g][1]

\* The packet that Run holds is what it read last.
PackedRight(g) ==
    pc[g][1] = "send" =>
        /\ src[g].pos > 0
        /\ (src[g].pos - 1) * BlockSize <= FileSize[g]
        /\ pack[g][1].rok
        /\ pack[g][1].index = src[g].pos
        /\ pack[g][1].size = Bytes(g, src[g].pos) - Bytes(g, src[g].pos - 1)

\* Run ends once, and the verdict ends the flow.
EndedOnce(g) ==
    /\ Has(toR, g, {"End_Send_File"}) => pc[g][1] = "done" /\ ~Judged(g)
    /\ \A i \in DOMAIN toR : Of(toR[i], g, {"End_Send_File"}) /\ ~toR[i].rok => src[g].pos = 0
    /\ Judged(g) => pc[g][1] = "done" /\ ~Has(toR, g, RTypes)

\* The receiver's file is open from the acceptance to the verdict.
OpenUntilJudged(g) ==
    /\ repo[g].box => repo[g].open \/ Judged(g)
    /\ ~repo[g].box => ~repo[g].open /\ disk[g] = <<>>

\* The blocks in flight continue the file on disk.
InFlight(g) ==
    /\ InOrder(toR, g)
    /\ Linked(toR, g, Len(disk[g]))
    /\ AsRead(toR, g, Sent(g))

OnDisk(g) ==
    /\ disk[g] = [i \in 1..Len(disk[g]) |-> i]
    /\ Len(disk[g]) <= NBlocks(g)
    /\ Len(disk[g]) <= Sent(g)
    /\ repo[g].finish = Bytes(g, Len(disk[g]))

\* A stream that has not met the end of the file has read no more than it.
ReadSoFar(g) ==
    /\ ~src[g].eof => src[g].pos * BlockSize <= FileSize[g]
    /\ up /\ (~src[g].eof \/ pc[g][1] = "send") => LastKnown(toR, g, Sent(g), Len(disk[g]))

\* Without another thread in the digest string, Run's end carries the digest of
\* the file.
DigestRight(g) ==
    ~mixed[g][1] =>
        \A i \in DOMAIN toR : Of(toR[i], g, {"End_Send_File"}) => toR[i].a = OwnDigest

\* The receiver has one verdict, and SUCCESS then means the whole file.
VerdictRight(g) ==
    /\ ~(Verdicts \subseteq doneR[g])
    /\ "SUCCESS" \in doneR[g] /\ ~mixed[g][1] => disk[g] = FileBlocks(g)

\* The sender's user is told the receiver's verdict once, or FAILURE when the
\* channel closed before the end was sent.
ToldRight(g) ==
    /\ One(toS, g, Results)
    /\ Has(toS, g, Results) => doneS[g] \cap Verdicts = {}
    /\ Has(toS, g, {"Succese_Recieve_File"}) => "SUCCESS" \in doneR[g]
    /\ Has(toS, g, {"Failure_Recieve_File"}) => "FAILURE" \in doneR[g]
    /\ "SUCCESS" \in doneS[g] => "SUCCESS" \in doneR[g]
    /\ "FAILURE" \in doneS[g] => \/ "FAILURE" \in doneR[g]
                                 \/ ~up /\ ~Has(toR, g, {"End_Send_File"}) /\ ~Judged(g)

Flow(g) == /\ NothingYet(g)
           /\ AskedOnce(g)
           /\ GuidFirst(g)
           /\ PackedRight(g)
           /\ EndedOnce(g)
           /\ OpenUntilJudged(g)
           /\ InFlight(g)
           /\ OnDisk(g)
           /\ ReadSoFar(g)
           /\ DigestRight(g)
           /\ VerdictRight(g)
           /\ ToldRight(g)

FlowInv == \A g \in Guid : Flow(g)

\* Acknowledgements travel in the order of what they count, from n on.
Ascending(q, g, n) ==
    \A i, j \in DOMAIN q :
        Of(q[i], g, {"Shake_Pack"}) /\ Of(q[j], g, {"Shake_Pack"}) =>
            /\ n <= q[i].a
            /\ i < j => q[i].a <= q[j].a

ShakesOrdered == \A g \in Guid : Ascending(toS, g, shown[g])

-----------------------------------------------------------------------------
(* Arithmetic of blocks and bytes *)

LEMMA Products ==
    ASSUME NEW m \in Nat, NEW n \in Nat, NEW k \in Nat, m <= n
    PROVE  /\ m * k \in Nat /\ n * k \in Nat
           /\ m * k <= n * k
           /\ (m + 1) * k = m * k + k
  <1>1. PICK d \in Nat : n = m + d
    <2>1. n - m \in Nat /\ n = m + (n - m)
      OBVIOUS
    <2> QED
      BY <2>1
  <1>2. d * k \in Nat /\ m * k \in Nat
    OBVIOUS
  <1>3. (m + d) * k = m * k + d * k
    OBVIOUS
  <1>4. (m + 1) * k = m * k + k
    OBVIOUS
  <1> QED
    BY <1>1, <1>2, <1>3, <1>4

\* Bytes counts no more than the file holds.
LEMMA BytesType ==
    ASSUME NEW g \in Guid, NEW n \in Nat
    PROVE  Bytes(g, n) \in Nat /\ Bytes(g, n) <= FileSize[g] /\ Bytes(g, 0) = 0
  <1>1. FileSize[g] \in Nat /\ BlockSize \in Nat /\ n * BlockSize \in Nat /\ 0 * BlockSize = 0
    BY ConstantAssumption
  <1> QED
    BY <1>1 DEF Bytes

\* A block that is not empty starts before the end of the file, and is one of
\* its blocks.
LEMMA BlockOfFile ==
    ASSUME NEW g \in Guid, NEW n \in Nat, n * BlockSize < FileSize[g]
    PROVE  n + 1 <= NBlocks(g)
  <1>1. FileSize[g] \in Nat /\ BlockSize \in Nat /\ BlockSize > 0 /\ n * BlockSize \in Nat
    BY ConstantAssumption
  <1>2. PICK q : q = NBlocks(g)
    OBVIOUS
  <1>3. PICK x \in Nat : x = FileSize[g] + BlockSize - 1
    BY <1>1
  <1>4. q \in Nat /\ x < q * BlockSize + BlockSize
    BY <1>1, <1>2, <1>3 DEF NBlocks
  <1>5. CASE q <= n
    <2>1. q * BlockSize <= n * BlockSize /\ q * BlockSize \in Nat
      BY <1>1, <1>4, <1>5, Products
    <2> QED
      BY <1>1, <1>3, <1>4, <2>1
  <1> QED
    BY <1>2, <1>4, <1>5

LEMMA NBlocksType == ASSUME NEW g \in Guid PROVE NBlocks(g) \in Nat
  <1>1. FileSize[g] \in Nat /\ BlockSize \in Nat /\ BlockSize > 0
    BY ConstantAssumption
  <1> QED
    BY <1>1 DEF NBlocks

\* What a read that follows n others gets: nothing only at the end of the file.
LEMMA NextBytes ==
    ASSUME NEW g \in Guid, NEW n \in Nat, n * BlockSize <= FileSize[g]
    PROVE  /\ Bytes(g, n + 1) - Bytes(g, n) \in Nat
           /\ Bytes(g, n + 1) = Bytes(g, n) + (Bytes(g, n + 1) - Bytes(g, n))
           /\ Bytes(g, n + 1) - Bytes(g, n) > 0 => n + 1 <= NBlocks(g)
           /\ ~(Bytes(g, n + 1) - Bytes(g, n) > 0) => n * BlockSize = FileSize[g]
           /\ (Bytes(g, n + 1) - Bytes(g, n) < BlockSize) \/ (n + 1) * BlockSize <= FileSize[g]
  <1>1. /\ FileSize[g] \in Nat /\ BlockSize \in Nat /\ BlockSize > 0 /\ n * BlockSize \in Nat
        /\ (n + 1) * BlockSize = n * BlockSize + BlockSize
    BY ConstantAssumption, Products
  <1>2. n * BlockSize < FileSize[g] => n + 1 <= NBlocks(g)
    BY BlockOfFile
  <1>3. Bytes(g, n) = n * BlockSize
    BY DEF Bytes
  <1>4. Bytes(g, n + 1) = IF n * BlockSize + BlockSize <= FileSize[g] THEN n * BlockSize + BlockSize
                          ELSE FileSize[g]
    BY <1>1 DEF Bytes
  <1> QED
    BY <1>1, <1>2, <1>3, <1>4

\* That is what PopUp reads.
LEMMA ReadSizeBytes ==
    ASSUME TypeOK, NEW g \in Guid, src[g].pos * BlockSize <= FileSize[g]
    PROVE  ReadSize(g) = Bytes(g, src[g].pos + 1) - Bytes(g, src[g].pos)
  <1>1. src[g].pos \in Nat
    BY DEF TypeOK, SendTypes, Stream
  <1>2. PICK p \in Nat : p = src[g].pos
    BY <1>1
  <1>3. /\ FileSize[g] \in Nat /\ BlockSize \in Nat /\ BlockSize > 0 /\ p * BlockSize \in Nat
        /\ (p + 1) * BlockSize = p * BlockSize + BlockSize
    BY ConstantAssumption, Products
  <1>4. p * BlockSize <= FileSize[g]
    BY <1>2
  <1>5. ReadSize(g) = IF FileSize[g] - p * BlockSize >= BlockSize THEN BlockSize
                      ELSE IF FileSize[g] - p * BlockSize > 0 THEN FileSize[g] - p * BlockSize ELSE 0
    BY <1>2 DEF ReadSize
  <1>6. Bytes(g, p) = p * BlockSize
    BY <1>4 DEF Bytes
  <1>7. Bytes(g, p + 1) = IF p * BlockSize + BlockSize <= FileSize[g] THEN p * BlockSize + BlockSize
                          ELSE FileSize[g]
    BY <1>3 DEF Bytes
  <1>8. ReadSize(g) = Bytes(g, p + 1) - Bytes(g, p)
    BY <1>3, <1>4, <1>5, <1>6, <1>7
  <1> QED
    BY <1>2, <1>8

\* No read follows one that got nothing.
LEMMA EndOfFile ==
    ASSUME NEW g \in Guid, NEW m \in Nat, NEW n \in Nat, m * BlockSize = FileSize[g], m < n
    PROVE  ~(n * BlockSize <= FileSize[g])
  <1>1. BlockSize \in Nat /\ BlockSize > 0 /\ FileSize[g] \in Nat /\ m + 1 \in Nat /\ m + 1 <= n
    BY ConstantAssumption
  <1>2. (m + 1) * BlockSize <= n * BlockSize /\ (m + 1) * BlockSize = m * BlockSize + BlockSize
        /\ n * BlockSize \in Nat
    <2>1. (m + 1) * BlockSize <= n * BlockSize /\ n * BlockSize \in Nat
      BY <1>1, Products
    <2>2. (m + 1) * BlockSize = m * BlockSize + BlockSize
      BY <1>1, Products
    <2> QED
      BY <2>1, <2>2
  <1> QED
    BY <1>1, <1>2

-----------------------------------------------------------------------------
(* Queues that keep what is in flight *)

\* The messages of g in qq are messages of q, d places further, ...
Passed(qq, q, g, T, d) ==
    \A i \in DOMAIN qq : Of(qq[i], g, T) => i + d \in DOMAIN q /\ qq[i] = q[i + d]

\* ... the blocks before each of them are there too, ...
Kept(qq, q, g, d) ==
    \A i \in DOMAIN qq, j \in DOMAIN q :
        Block(q[j], g) /\ j < i + d => j - d \in DOMAIN qq /\ qq[j - d] = q[j]

\* ... and none is lost.
Lossless(qq, q, g) == \A j \in DOMAIN q : Block(q[j], g) => \E i \in DOMAIN qq : qq[i] = q[j]

Flowing == RTypes \cup Answers \cup Results

FrameR(qq, q, g) == \E d \in {0, 1} : Passed(qq, q, g, RTypes, d) /\ Kept(qq, q, g, d)
FrameS(qq, q, g) == \E d \in {0, 1} : Passed(qq, q, g, Answers \cup Results, d)

LEMMA FrameHas ==
    ASSUME NEW qq, NEW q, NEW g, NEW T, NEW d, Passed(qq, q, g, T, d), NEW U, U \subseteq T,
           Has(qq, g, U)
    PROVE  Has(q, g, U)
  BY DEF Passed, Has, Of

LEMMA FrameOne ==
    ASSUME NEW S, NEW qq \in Seq(S), NEW q, NEW g, NEW T, NEW d \in Nat, Passed(qq, q, g, T, d),
           NEW U, U \subseteq T, One(q, g, U)
    PROVE  One(qq, g, U)
  <1> SUFFICES ASSUME NEW i \in DOMAIN qq, NEW j \in DOMAIN qq, Of(qq[i], g, U), Of(qq[j], g, U)
               PROVE  i = j
    BY DEF One
  <1>1. i \in Nat /\ j \in Nat
    OBVIOUS
  <1>2. Of(qq[i], g, T) /\ Of(qq[j], g, T)
    BY DEF Of
  <1>3. i + d \in DOMAIN q /\ j + d \in DOMAIN q /\ qq[i] = q[i + d] /\ qq[j] = q[j + d]
    BY <1>2 DEF Passed
  <1>4. i + d = j + d
    BY <1>3 DEF One
  <1> QED
    BY <1>1, <1>4

LEMMA FrameInOrder ==
    ASSUME NEW S, NEW qq \in Seq(S), NEW q, NEW g, NEW d \in Nat, Passed(qq, q, g, RTypes, d),
           InOrder(q, g)
    PROVE  InOrder(qq, g)
  <1> SUFFICES ASSUME NEW i \in DOMAIN qq, NEW j \in DOMAIN qq, i < j,
                      Of(qq[i], g, RTypes), Of(qq[j], g, RTypes)
               PROVE  /\ qq[i].type # "End_Send_File"
                      /\ qq[j].type # "Create_File"
                      /\ qq[i].type = qq[j].type => qq[i].a < qq[j].a
    BY DEF InOrder
  <1>1. i \in Nat /\ j \in Nat
    OBVIOUS
  <1>2. i + d \in DOMAIN q /\ j + d \in DOMAIN q /\ qq[i] = q[i + d] /\ qq[j] = q[j + d]
    BY DEF Passed
  <1>3. i + d < j + d
    BY <1>1
  <1> QED
    BY <1>2, <1>3 DEF InOrder

LEMMA FrameLinked ==
    ASSUME NEW S, NEW qq \in Seq(S), NEW q \in Seq(S), NEW g, NEW d \in {0, 1},
           Passed(qq, q, g, RTypes, d), Kept(qq, q, g, d), NEW n, Linked(q, g, n)
    PROVE  Linked(qq, g, n)
  <1> SUFFICES ASSUME NEW i \in DOMAIN qq, Block(qq[i], g), qq[i].a # n + 1
               PROVE  \E j \in DOMAIN qq : j < i /\ Block(qq[j], g) /\ qq[j].a + 1 = qq[i].a
    BY DEF Linked
  <1>1. i + d \in DOMAIN q /\ qq[i] = q[i + d]
    BY DEF Passed, Block, Of, RTypes
  <1>2. PICK j \in DOMAIN q : j < i + d /\ Block(q[j], g) /\ q[j].a + 1 = qq[i].a
    BY <1>1 DEF Linked
  <1>3. j - d \in DOMAIN qq /\ qq[j - d] = q[j]
    BY <1>2 DEF Kept
  <1>4. j - d < i
    <2>1. i \in Nat /\ j \in Nat
      OBVIOUS
    <2> QED
      BY <1>2, <2>1
  <1> QED
    BY <1>2, <1>3, <1>4

LEMMA FrameAsRead ==
    ASSUME NEW qq, NEW q, NEW g, NEW d, Passed(qq, q, g, RTypes, d), NEW p, AsRead(q, g, p)
    PROVE  AsRead(qq, g, p)
  <1> SUFFICES ASSUME NEW i \in DOMAIN qq, Block(qq[i], g)
               PROVE  i + d \in DOMAIN q /\ qq[i] = q[i + d]
    BY DEF AsRead
  <1> QED
    BY DEF Passed, Block, Of, RTypes

LEMMA FrameLast ==
    ASSUME NEW qq, NEW q, NEW g, Lossless(qq, q, g), NEW p, NEW n, LastKnown(q, g, p, n)
    PROVE  LastKnown(qq, g, p, n)
  BY DEF LastKnown, Lossless

\* What an action does to a queue that concerns g no more than a request does
\* that is dropped.
Untouched(qq, q, g) ==
    \/ qq = q
    \/ \E m : ~Of(m, g, Flowing) /\ qq = SendData(q, m)
    \/ q # <<>> /\ ~Block(Head(q), g) /\ qq = Tail(q)

LEMMA UntouchedFrame ==
    ASSUME NEW S, NEW q \in Seq(S), NEW qq, NEW g, Untouched(qq, q, g)
    PROVE  FrameR(qq, q, g) /\ FrameS(qq, q, g) /\ Lossless(qq, q, g)
  <1>1. ASSUME qq = q
        PROVE  FrameR(qq, q, g) /\ FrameS(qq, q, g) /\ Lossless(qq, q, g)
    <2>1. \A i \in DOMAIN q : i + 0 = i /\ i - 0 = i
      OBVIOUS
    <2>2. Passed(qq, q, g, RTypes, 0) /\ Passed(qq, q, g, Answers \cup Results, 0)
      BY <1>1, <2>1 DEF Passed
    <2>3. Kept(qq, q, g, 0)
      BY <1>1, <2>1 DEF Kept
    <2> QED
      BY <1>1, <2>2, <2>3 DEF FrameR, FrameS, Lossless
  <1>2. ASSUME NEW m, ~Of(m, g, Flowing), qq = Append(q, m)
        PROVE  FrameR(qq, q, g) /\ FrameS(qq, q, g) /\ Lossless(qq, q, g)
    <2>1. ~Of(m, g, RTypes) /\ ~Of(m, g, Answers \cup Results)
      BY <1>2 DEF Of, Flowing
    <2>2. \A i \in DOMAIN qq : qq[i] = m \/ (i \in DOMAIN q /\ i + 0 = i /\ qq[i] = q[i])
      BY <1>2
    <2>3. \A j \in DOMAIN q : j - 0 = j /\ j \in DOMAIN qq /\ qq[j] = q[j]
      BY <1>2
    <2>4. Passed(qq, q, g, RTypes, 0) /\ Passed(qq, q, g, Answers \cup Results, 0)
      BY <2>1, <2>2 DEF Passed
    <2>5. Kept(qq, q, g, 0)
      BY <2>3 DEF Kept
    <2> QED
      BY <2>3, <2>4, <2>5 DEF FrameR, FrameS, Lossless
  <1>3. ASSUME q # <<>>, ~Block(Head(q), g), qq = Tail(q)
        PROVE  FrameR(qq, q, g) /\ FrameS(qq, q, g) /\ Lossless(qq, q, g)
    <2>1. \A i \in DOMAIN qq : i + 1 \in DOMAIN q /\ qq[i] = q[i + 1]
      BY <1>3
    <2>2. \A j \in DOMAIN q : j = 1 \/ (j - 1 \in DOMAIN qq /\ qq[j - 1] = q[j])
      BY <1>3
    <2>3. ~Block(q[1], g)
      BY <1>3
    <2>4. Passed(qq, q, g, RTypes, 1) /\ Passed(qq, q, g, Answers \cup Results, 1)
      BY <2>1 DEF Passed
    <2>5. Kept(qq, q, g, 1)
      BY <2>2, <2>3 DEF Kept
    <2> QED
      BY <2>2, <2>3, <2>4, <2>5 DEF FrameR, FrameS, Lossless
  <1> QED
    BY <1>1, <1>2, <1>3 DEF Untouched, SendData

-----------------------------------------------------------------------------
(* Steps that leave the flow of a transfer alone *)

SameView(g) ==
    /\ repo'[g].box = repo[g].box /\ repo'[g].open = repo[g].open
    /\ repo'[g].finish = repo[g].finish
    /\ disk'[g] = disk[g]
    /\ src'[g].pos = src[g].pos /\ src'[g].eof = src[g].eof
    /\ des'[g][1] = des[g][1]
    /\ doneR'[g] \cap Verdicts = doneR[g] \cap Verdicts
    /\ doneS'[g] \cap Verdicts = doneS[g] \cap Verdicts

SameRun(g) ==
    /\ pc'[g][1] \in {"idle", "start"} => pc[g][1] \in {"idle", "start"}
    /\ pc[g][1] = "done" => pc'[g][1] = "done"
    /\ pc'[g][1] \in Sending => pc[g][1] \in Sending \/ des[g][1]
    /\ pc'[g][1] = "send" <=> pc[g][1] = "send"
    /\ pack'[g][1] = pack[g][1]

\* Once Run has ended, nobody spoils its digest.
SameDigest(g) == pc[g][1] = "done" => mixed'[g][1] = mixed[g][1]

\* What is in flight for the transfer is, or is lost with the channel.
SameQueues(g) ==
    /\ FrameR(toR', toR, g)
    /\ FrameS(toS', toS, g)
    /\ up' => up /\ Lossless(toR', toR, g)

LEMMA FlowKept ==
    ASSUME TypeOK, TypeOK', NEW g \in Guid, Flow(g), SameView(g), SameRun(g), SameDigest(g),
           SameQueues(g)
    PROVE  Flow(g)'
  <1>1. toR \in Seq(MessageR) /\ toR' \in Seq(MessageR) /\ toS \in Seq(MessageS)
        /\ toS' \in Seq(MessageS) /\ up \in BOOLEAN
    BY DEF TypeOK, ChannelTypes
  <1>2. PICK d \in {0, 1} : Passed(toR', toR, g, RTypes, d) /\ Kept(toR', toR, g, d)
    BY DEF SameQueues, FrameR
  <1>3. PICK e \in {0, 1} : Passed(toS', toS, g, Answers \cup Results, e)
    BY DEF SameQueues, FrameS
  <1>4. \A U : U \subseteq RTypes /\ Has(toR', g, U) => Has(toR, g, U)
    BY <1>2, FrameHas
  <1>5. \A U : U \subseteq Answers \cup Results /\ Has(toS', g, U) => Has(toS, g, U)
    BY <1>3, FrameHas
  <1>6. One(toS, g, Answers) => One(toS', g, Answers)
    BY <1>1, <1>3, FrameOne
  <1>7. One(toS, g, Results) => One(toS', g, Results)
    BY <1>1, <1>3, FrameOne
  <1>8. /\ Judged(g)' = Judged(g) /\ Sent(g)' = Sent(g)
        /\ \A v \in Verdicts : v \in doneR'[g] <=> v \in doneR[g]
        /\ \A v \in Verdicts : v \in doneS'[g] <=> v \in doneS[g]
    BY DEF SameView, SameRun, Judged, Sent
  <1>9. {"Create_File"} \subseteq RTypes /\ {"End_Send_File"} \subseteq RTypes
    BY DEF RTypes
  <1>10. /\ Has(toR', g, RTypes) => Has(toR, g, RTypes)
         /\ Has(toR', g, {"Create_File"}) => Has(toR, g, {"Create_File"})
         /\ Has(toR', g, {"End_Send_File"}) => Has(toR, g, {"End_Send_File"})
    BY <1>4, <1>9
  <1>11. /\ Has(toS', g, Answers) => Has(toS, g, Answers)
         /\ Has(toS', g, Results) => Has(toS, g, Results)
         /\ Has(toS', g, {"Succese_Recieve_File"}) => Has(toS, g, {"Succese_Recieve_File"})
         /\ Has(toS', g, {"Failure_Recieve_File"}) => Has(toS, g, {"Failure_Recieve_File"})
    <2>1. {"Succese_Recieve_File"} \subseteq Answers \cup Results
          /\ {"Failure_Recieve_File"} \subseteq Answers \cup Results
      BY DEF Results
    <2> QED
      BY <1>5, <2>1
  <1>12. NothingYet(g)'
    BY <1>10, <1>11 DEF Flow, NothingYet, SameView, SameRun
  <1>13. AskedOnce(g)'
    BY <1>6, <1>10, <1>11 DEF Flow, AskedOnce, SameView
  <1>14. GuidFirst(g)'
    BY DEF Flow, GuidFirst, SameView, SameRun
  <1>15. EndedOnce(g)'
    <2>1. \A i \in DOMAIN toR' : Of(toR'[i], g, {"End_Send_File"}) => \E j \in DOMAIN toR : toR'[i] = toR[j]
      BY <1>2 DEF Passed, Of, RTypes
    <2> QED
      BY <1>8, <1>10, <2>1 DEF Flow, EndedOnce, SameView, SameRun
  <1>16. OpenUntilJudged(g)'
    BY <1>8 DEF Flow, OpenUntilJudged, SameView
  <1>17. InFlight(g)'
    <2>1. InOrder(toR', g)
      BY <1>1, <1>2, FrameInOrder DEF Flow, InFlight
    <2>2. Linked(toR', g, Len(disk[g]))
      BY <1>1, <1>2, FrameLinked DEF Flow, InFlight
    <2>3. AsRead(toR', g, Sent(g))
      BY <1>2, FrameAsRead DEF Flow, InFlight
    <2> QED
      BY <1>8, <2>1, <2>2, <2>3 DEF InFlight, SameView
  <1>18. OnDisk(g)'
    BY <1>8 DEF Flow, OnDisk, SameView
  <1>19. ReadSoFar(g)'
    <2>1. up' => up /\ (LastKnown(toR, g, Sent(g), Len(disk[g]))
                           => LastKnown(toR', g, Sent(g), Len(disk[g])))
      BY FrameLast DEF SameQueues
    <2> QED
      BY <1>8, <2>1 DEF Flow, ReadSoFar, SameView, SameRun
  <1>20. VerdictRight(g)'
    <2>1. "SUCCESS" \in doneR[g] => mixed'[g][1] = mixed[g][1]
      BY DEF Flow, EndedOnce, SameDigest, Judged, Verdicts
    <2> QED
      BY <1>8, <2>1 DEF Flow, VerdictRight, SameView, Verdicts
  <1>21. ToldRight(g)'
    BY <1>7, <1>8, <1>10, <1>11 DEF Flow, ToldRight, SameView, SameQueues, Verdicts
  <1>22. PackedRight(g)'
    BY DEF Flow, PackedRight, SameView, SameRun
  <1>23. DigestRight(g)'
    <2> SUFFICES ASSUME ~mixed'[g][1], NEW i \in DOMAIN toR', Of(toR'[i], g, {"End_Send_File"})
                 PROVE  toR'[i].a = OwnDigest
      BY DEF DigestRight
    <2>1. \E j \in DOMAIN toR : toR'[i] = toR[j]
      BY <1>2 DEF Passed, Of, RTypes
    <2>2. pc[g][1] = "done"
      BY <2>1 DEF Flow, EndedOnce, Has
    <2> QED
      BY <2>1, <2>2 DEF Flow, DigestRight, SameDigest
  <1> QED
    BY <1>12, <1>13, <1>14, <1>15, <1>16, <1>17, <1>18, <1>19, <1>20, <1>21, <1>22, <1>23 DEF Flow

\* What the actions do that concern another transfer, or this one without
\* moving its flow.
Quiet(g) ==
    /\ SameView(g)
    /\ SameRun(g)
    /\ SameDigest(g)
    /\ Untouched(toR', toR, g)
    /\ Untouched(toS', toS, g)
    /\ UNCHANGED up

LEMMA QuietKeeps ==
    ASSUME TypeOK, TypeOK', NEW g \in Guid, Flow(g), Quiet(g)
    PROVE  Flow(g)'
  <1>1. toR \in Seq(MessageR) /\ toS \in Seq(MessageS)
    BY DEF TypeOK, ChannelTypes
  <1>2. FrameR(toR', toR, g) /\ Lossless(toR', toR, g) /\ FrameS(toS', toS, g)
    BY <1>1, UntouchedFrame DEF Quiet
  <1>3. SameQueues(g)
    BY <1>2 DEF SameQueues, Quiet
  <1> QED
    BY <1>3, FlowKept DEF Quiet

\* Messages that are no part of the flow.
LEMMA OtherMessages ==
    ASSUME NEW g, NEW h, NEW t, NEW ok, NEW x, NEW y, g # h \/ t \notin Flowing
    PROVE  ~Of(Msg(t, h, ok, x, y), g, Flowing)
  BY DEF Of, Msg

LEMMA OtherHead ==
    ASSUME NEW g, NEW h, NEW t, NEW q, HeadIs(q, t, h), g # h \/ t # "Send_File"
    PROVE  q # <<>> /\ ~Block(Head(q), g)
  BY DEF HeadIs, Block, Of

LEMMA TaskTypesAside == \A t \in TaskTypes \cup {"Not_Can_Continue_Send", "Shake_Pack"} : t \notin Flowing
  BY DEF TaskTypes, Flowing, RTypes, Answers, Results

\* The places that a wait returns to.
LEMMA WokenRun ==
    ASSUME TypeOK, NEW h \in Guid, NEW o, NotifyAll(h, o), UNCHANGED pack, NEW g \in Guid
    PROVE  SameRun(g)
  <1>1. pc \in [Guid -> [Attempt -> PCs]] /\ 1 \in Attempt
    BY ConstantAssumption DEF TypeOK, RunTypes, Attempt
  <1>2. \A p : /\ Woken(p) \in {"idle", "start"} => p \in {"idle", "start"}
               /\ p = "done" => Woken(p) = "done"
               /\ Woken(p) \in Sending => p \in Sending
               /\ Woken(p) = "send" <=> p = "send"
    BY DEF Woken, Sending, Turn
  <1>3. pc' = [pc EXCEPT ![h] = [k \in Attempt |->
                  IF on[h][k] = o THEN Woken(pc[h][k]) ELSE pc[h][k]]]
    BY DEF NotifyAll
  <1>4. pc'[g][1] \in {pc[g][1], Woken(pc[g][1])}
    BY <1>1, <1>3
  <1> QED
    BY <1>2, <1>4 DEF SameRun

\* Only the receiver's and the sender's results may change, by a cancellation.
LEMMA SameViewBut ==
    ASSUME TypeOK, UNCHANGED <<repo, disk, src, des>>, NEW h \in Guid,
           doneR' \in {doneR, [doneR EXCEPT ![h] = @ \cup {"CANCLE"}]},
           doneS' \in {doneS, [doneS EXCEPT ![h] = @ \cup {"CANCLE"}]},
           NEW g \in Guid
    PROVE  SameView(g)
  <1>1. doneR \in [Guid -> SUBSET Reported] /\ doneS \in [Guid -> SUBSET Reported]
    BY DEF TypeOK, UserTypes
  <1>2. doneR'[g] = doneR[g] \/ doneR'[g] = doneR[g] \cup {"CANCLE"}
    BY <1>1
  <1>3. doneS'[g] = doneS[g] \/ doneS'[g] = doneS[g] \cup {"CANCLE"}
    BY <1>1
  <1>4. doneR'[g] \cap Verdicts = doneR[g] \cap Verdicts
    BY <1>2 DEF Verdicts
  <1>5. doneS'[g] \cap Verdicts = doneS[g] \cap Verdicts
    BY <1>3 DEF Verdicts
  <1> QED
    BY <1>4, <1>5 DEF SameView

LEMMA StandingRun == ASSUME UNCHANGED <<pc, pack>>, NEW g PROVE SameRun(g)
  BY DEF SameRun

LEMMA StandingDigest == ASSUME UNCHANGED mixed, NEW g PROVE SameDigest(g)
  BY DEF SameDigest

\* The calls of the users that tell the other side something.
LEMMA CallsQuiet ==
    ASSUME TypeOK, NEW h \in Guid, NEW g \in Guid,
           \/ InterruptFileTaskS(h) \/ RestartFileTaskS(h) \/ CancleFileTaskS(h) \/ UserR(h)
    PROVE  Quiet(g)
  <1>1. SameView(g)
    <2>1. UNCHANGED <<repo, disk, src, des, doneR, doneS>>
      BY DEF InterruptFileTaskS, RestartFileTaskS, CancleFileTaskS, UserR, CreateRecieveFile,
             InterruptFileTaskR, RestartFileTaskR, CancleFileTaskR, runVars, sendVars, recvVars, userVars
    <2> QED
      BY <2>1 DEF SameView
  <1>2. SameRun(g) /\ SameDigest(g)
    <2>1. UNCHANGED <<pack, mixed>>
      BY DEF InterruptFileTaskS, RestartFileTaskS, CancleFileTaskS, UserR, CreateRecieveFile,
             InterruptFileTaskR, RestartFileTaskR, CancleFileTaskR, sendVars
    <2>2. CASE RestartFileTaskS(h)
      BY <2>1, <2>2, WokenRun, StandingDigest DEF RestartFileTaskS, Resume
    <2>3. CASE ~RestartFileTaskS(h)
      <3>1. UNCHANGED pc
        BY <2>3 DEF InterruptFileTaskS, CancleFileTaskS, UserR, CreateRecieveFile,
             InterruptFileTaskR, RestartFileTaskR, CancleFileTaskR, runVars
      <3> QED
        BY <2>1, <3>1, StandingRun, StandingDigest
    <2> QED
      BY <2>2, <2>3
  <1>3. /\ toR' = toR \/ \E t \in TaskTypes : toR' = SendData(toR, Msg(t, h, FALSE, 0, 0))
        /\ toS' = toS \/ \E t \in TaskTypes : toS' = SendData(toS, Msg(t, h, FALSE, 0, 0))
        /\ UNCHANGED up
    BY DEF InterruptFileTaskS, RestartFileTaskS, CancleFileTaskS, UserR, CreateRecieveFile,
           InterruptFileTaskR, RestartFileTaskR, CancleFileTaskR, TaskTypes
  <1>4. Untouched(toR', toR, g) /\ Untouched(toS', toS, g)
    BY <1>3, OtherMessages, TaskTypesAside DEF Untouched
  <1> QED
    BY <1>1, <1>2, <1>3, <1>4 DEF Quiet

\* Writing the digest string concerns no Run that has ended.
LEMMA WrittenElsewhere ==
    ASSUME TypeOK, NEW g \in Guid, pc[g][1] = "done"
    PROVE  DigestWritten[g][1] = mixed[g][1]
  <1>1. mixed \in [Guid -> [Attempt -> BOOLEAN]] /\ 1 \in Attempt
    BY ConstantAssumption DEF TypeOK, SendTypes, Attempt
  <1>2. mixed[g][1] \in BOOLEAN
    BY <1>1
  <1>3. DigestWritten[g][1] = (mixed[g][1] \/ pc[g][1] = "end")
    BY <1>1 DEF DigestWritten, UsesDigest
  <1> QED
    BY <1>2, <1>3

LEMMA RunDigestMixes ==
    ASSUME TypeOK, NEW h \in Guid, NEW k \in Attempt, RunDigest(h, k), NEW g \in Guid
    PROVE  SameDigest(g)
  <1> SUFFICES ASSUME pc[g][1] = "done" PROVE mixed'[g][1] = mixed[g][1]
    BY DEF SameDigest
  <1>1. pc[h][k] = "release" /\ 1 \in Attempt
    BY ConstantAssumption DEF RunDigest, Attempt
  <1>2. PICK b : mixed' = [DigestWritten EXCEPT ![h][k] = b]
    BY DEF RunDigest
  <1>3. DigestWritten \in [Guid -> [Attempt -> BOOLEAN]]
    BY DEF DigestWritten
  <1>4. g # h \/ 1 # k
    BY <1>1
  <1>5. mixed'[g][1] = DigestWritten[g][1]
    BY <1>1, <1>2, <1>3, <1>4
  <1> QED
    BY <1>5, WrittenElsewhere

\* Run between its messages, and the release of its object.
LEMMA RunQuiet ==
    ASSUME TypeOK, MaxSends = 1, NEW h \in Guid, NEW k \in Attempt, NEW g \in Guid,
           \/ RunSetEvent(h, k) \/ SpuriousWakeup(h, k) \/ RunCheck(h, k) \/ RunTestSkip(h, k)
           \/ RunEndLoop(h, k) \/ RunDigest(h, k) \/ ReleaseRun(h, k)
    PROVE  Quiet(g)
  <1>1. /\ UNCHANGED <<repo, disk, des, pack, doneR, doneS>>
        /\ UNCHANGED <<up, toR, toS>>
    BY DEF RunSetEvent, SpuriousWakeup, RunCheck, RunTestSkip, RunEndLoop, RunDigest, ReleaseRun,
           ReleaseDelete, ReleaseErase, runVars, sendVars, recvVars, userVars
  <1>2. src' = src \/ src' = [src EXCEPT ![h].open = FALSE]
    <2>1. CASE RunEndLoop(h, k)
      <3>1. CASE quit[h][on[h][k]]
        BY <2>1, <3>1 DEF RunEndLoop, TypeOK, SendTypes
      <3>2. CASE ~quit[h][on[h][k]]
        <4>1. ~CanRead(h) /\ src' = [src EXCEPT ![h] = PopUp(h)]
          BY <2>1, <3>2 DEF RunEndLoop
        <4> QED
          BY <4>1 DEF PopUp
      <3> QED
        BY <3>1, <3>2
    <2>2. CASE ~RunEndLoop(h, k)
      BY <2>2 DEF RunSetEvent, SpuriousWakeup, RunCheck, RunTestSkip, RunDigest, ReleaseRun,
             ReleaseDelete, ReleaseErase, sendVars
    <2> QED
      BY <2>1, <2>2
  <1>3. SameView(g)
    <2>1. src \in [Guid -> Stream]
      BY DEF TypeOK, SendTypes
    <2>2. src'[g] = src[g] \/ src'[g] = [src[g] EXCEPT !.open = FALSE]
      BY <1>2, <2>1
    <2>3. src'[g].pos = src[g].pos /\ src'[g].eof = src[g].eof
      BY <2>1, <2>2 DEF Stream
    <2> QED
      BY <1>1, <2>3 DEF SameView
  <1>4. pc \in [Guid -> [Attempt -> PCs]] /\ k = 1 /\ 1 \in Attempt /\ on[h][1] = 1
    BY DEF TypeOK, RunTypes, Attempt
  <1>5. SameRun(g)
    <2>1. CASE ReleaseRun(h, k)
      BY <1>1, <2>1, StandingRun DEF ReleaseRun, ReleaseDelete, ReleaseErase, runVars
    <2>2. CASE ~ReleaseRun(h, k)
      <3>1. PICK p : /\ pc' = [pc EXCEPT ![h][1] = p]
                     /\ p \notin {"idle", "start"} /\ pc[h][1] # "done"
                     /\ p \in Sending => pc[h][1] \in Sending \/ des[h][1]
                     /\ p # "send" /\ pc[h][1] # "send"
        <4>1. CASE RunSetEvent(h, k)
          <5>1. CASE pc[h][k] = "to_failwait" /\ Goto(h, k, "failwait")
            <6>1. pc' = [pc EXCEPT ![h][1] = "failwait"] /\ pc[h][1] # "done" /\ pc[h][1] # "send"
              BY <1>4, <5>1 DEF Goto
            <6>2. "failwait" # "send" /\ "failwait" \notin {"idle", "start"} /\ "failwait" \notin Sending
              BY DEF Sending, Turn
            <6> QED
              BY <6>1, <6>2, Zenon
          <5>2. CASE pc[h][k] = "to_wait" /\ Goto(h, k, "wait")
            <6>1. pc' = [pc EXCEPT ![h][1] = "wait"] /\ pc[h][1] # "done" /\ pc[h][1] # "send"
              BY <1>4, <5>2 DEF Goto
            <6>2. "wait" # "send" /\ "wait" \notin {"idle", "start"} /\ "wait" \notin Sending
              BY DEF Sending, Turn
            <6> QED
              BY <6>1, <6>2, Zenon
          <5>3. CASE pc[h][k] = "to_pause" /\ Goto(h, k, "pause")
            <6>1. pc' = [pc EXCEPT ![h][1] = "pause"] /\ pc[h][1] # "done" /\ pc[h][1] # "send"
                  /\ pc[h][1] \in Sending
              BY <1>4, <5>3 DEF Goto, Sending, Turn
            <6>2. "pause" # "send" /\ "pause" \notin {"idle", "start"}
              OBVIOUS
            <6> QED
              BY <6>1, <6>2, Zenon
          <5> QED
            BY <4>1, <5>1, <5>2, <5>3 DEF RunSetEvent
        <4>2. CASE SpuriousWakeup(h, k)
          <5>1. pc' = [pc EXCEPT ![h][1] = Woken(pc[h][1])] /\ pc[h][1] \in Waits
            BY <1>4, <4>2 DEF SpuriousWakeup, Goto
          <5>2. \A p : p \in Waits =>
                   /\ Woken(p) \notin {"idle", "start"} /\ p # "done"
                   /\ Woken(p) # "send" /\ p # "send"
                   /\ Woken(p) \in Sending => p \in Sending
            BY DEF Woken, Waits, Sending, Turn
          <5> QED
            BY <5>1, <5>2
        <4>3. CASE RunCheck(h, k)
          <5>1. pc' = [pc EXCEPT ![h][1] = IF des[h][1] THEN "loop" ELSE "release"]
                /\ pc[h][1] = "check"
            BY <1>4, <4>3 DEF RunCheck, Goto, Accepted
          <5>2. CASE des[h][1]
            <6>1. pc' = [pc EXCEPT ![h][1] = "loop"]
              BY <5>1, <5>2
            <6>2. "loop" \notin {"idle", "start"} /\ "check" # "done" /\ "check" # "send" /\ "loop" # "send"
              OBVIOUS
            <6> QED
              BY <5>1, <5>2, <6>1, <6>2, Zenon
          <5>3. CASE ~des[h][1]
            <6>1. pc' = [pc EXCEPT ![h][1] = "release"]
              BY <5>1, <5>3
            <6>2. "release" \notin Sending /\ "release" \notin {"idle", "start"} /\ "check" # "done"
                  /\ "check" # "send" /\ "release" # "send"
              BY DEF Sending, Turn
            <6> QED
              BY <5>1, <6>1, <6>2, Zenon
          <5> QED
            BY <5>2, <5>3
        <4>4. CASE RunEndLoop(h, k)
          <5>1. pc' = [pc EXCEPT ![h][1] = "release"] /\ pc[h][1] = "loop"
            BY <1>4, <4>4 DEF RunEndLoop, Goto
          <5>2. "release" \notin Sending /\ "release" \notin {"idle", "start"} /\ "loop" # "done"
                /\ "loop" # "send" /\ "release" # "send"
            BY DEF Sending, Turn
          <5> QED
            BY <5>1, <5>2, Zenon
        <4>5. CASE RunTestSkip(h, k)
          <5>1. PICK p \in {"to_pause", "loop"} : pc' = [pc EXCEPT ![h][1] = p]
            BY <1>4, <4>5 DEF RunTestSkip, Goto
          <5>2. pc[h][1] = "test"
            BY <1>4, <4>5 DEF RunTestSkip
          <5>3. p \notin {"idle", "start"} /\ "test" # "done" /\ "test" # "send" /\ p # "send"
                /\ "test" \in Sending
            BY DEF Sending, Turn
          <5> QED
            BY <5>1, <5>2, <5>3, Zenon
        <4>6. CASE RunDigest(h, k)
          <5>1. pc' = [pc EXCEPT ![h][1] = "end"] /\ pc[h][1] = "release"
            BY <1>4, <4>6 DEF RunDigest, Goto
          <5>2. "end" \notin Sending /\ "end" \notin {"idle", "start"} /\ "release" # "done"
                /\ "release" # "send" /\ "end" # "send"
            BY DEF Sending, Turn
          <5> QED
            BY <5>1, <5>2, Zenon
        <4> QED
          BY <2>2, <4>1, <4>2, <4>3, <4>4, <4>5, <4>6
      <3> QED
        BY <1>1, <1>4, <3>1 DEF SameRun
    <2> QED
      BY <2>1, <2>2
  <1>6. SameDigest(g)
    <2>1. CASE RunDigest(h, k)
      BY <2>1, RunDigestMixes
    <2>2. CASE ~RunDigest(h, k)
      BY <2>2, StandingDigest DEF RunSetEvent, SpuriousWakeup, RunCheck, RunTestSkip, RunEndLoop,
             ReleaseRun, ReleaseDelete, ReleaseErase, sendVars
    <2> QED
      BY <2>1, <2>2
  <1> QED
    BY <1>1, <1>3, <1>5, <1>6 DEF Quiet, Untouched

\* The handlers of R that move no flow.
LEMMA HandleRQuiet ==
    ASSUME TypeOK, NEW h \in Guid, NEW g \in Guid, RefuseFile(h) \/ RecieveTaskR(h)
    PROVE  Quiet(g)
  <1>1. SameView(g)
    <2>1. /\ UNCHANGED <<repo, disk, src, des, doneS>>
          /\ doneR' \in {doneR, [doneR EXCEPT ![h] = @ \cup {"CANCLE"}]}
      BY DEF RefuseFile, RecieveTaskR, runVars, sendVars, recvVars, userVars
    <2> QED
      BY <2>1, SameViewBut
  <1>2. SameRun(g) /\ SameDigest(g) /\ UNCHANGED up
    <2>1. UNCHANGED <<up, pc, pack, mixed>>
      BY DEF RefuseFile, RecieveTaskR, runVars, sendVars
    <2> QED
      BY <2>1, StandingRun, StandingDigest
  <1>3. toR' = Tail(toR) /\ \E t \in {"Create_File", "Interrupt", "Restart", "Cancle"} : HeadIs(toR, t, h)
    BY DEF RefuseFile, RecieveTaskR
  <1>4. toS' = toS \/ toS' = SendData(toS, Msg("Not_Can_Continue_Send", h, FALSE, 0, 0))
    BY DEF RefuseFile, RecieveTaskR
  <1>5. Untouched(toR', toR, g)
    BY <1>3, OtherHead DEF Untouched
  <1>6. Untouched(toS', toS, g)
    BY <1>4, OtherMessages, TaskTypesAside DEF Untouched
  <1> QED
    BY <1>1, <1>2, <1>5, <1>6 DEF Quiet

\* The handlers of S that move no flow.
LEMMA HandleSQuiet ==
    ASSUME TypeOK, NEW h \in Guid, NEW g \in Guid,
           IgnoreRefusal(h) \/ ShakeAck(h) \/ InterruptTask(h) \/ RestartTask(h) \/ CancleTask(h)
    PROVE  Quiet(g)
  <1>1. SameView(g)
    <2>1. /\ UNCHANGED <<repo, disk, src, des, doneR>>
          /\ doneS' \in {doneS, [doneS EXCEPT ![h] = @ \cup {"CANCLE"}]}
      BY DEF IgnoreRefusal, ShakeAck, InterruptTask, RestartTask, CancleTask, runVars, sendVars,
             recvVars, userVars
    <2> QED
      BY <2>1, SameViewBut
  <1>2. SameRun(g) /\ SameDigest(g)
    <2>1. UNCHANGED <<pack, mixed>>
      BY DEF IgnoreRefusal, ShakeAck, InterruptTask, RestartTask, CancleTask, sendVars
    <2>2. CASE RestartTask(h)
      BY <2>1, <2>2, WokenRun, StandingRun, StandingDigest DEF RestartTask, ResumeChildThread, Resume
    <2>3. CASE ~RestartTask(h)
      <3>1. UNCHANGED pc
        BY <2>3 DEF IgnoreRefusal, ShakeAck, InterruptTask, CancleTask, runVars
      <3> QED
        BY <2>1, <3>1, StandingRun, StandingDigest
    <2> QED
      BY <2>2, <2>3
  <1>3. UNCHANGED <<up, toR>>
    BY DEF IgnoreRefusal, ShakeAck, InterruptTask, RestartTask, CancleTask
  <1>4. toS' = Tail(toS) /\ \E t : HeadIs(toS, t, h) /\ t # "Send_File"
    BY DEF IgnoreRefusal, ShakeAck, InterruptTask, RestartTask, CancleTask
  <1>5. Untouched(toS', toS, g)
    BY <1>4, OtherHead DEF Untouched
  <1> QED
    BY <1>1, <1>2, <1>3, <1>5 DEF Quiet, Untouched

-----------------------------------------------------------------------------
(* The other actions, for another transfer than theirs *)

SameAt(g) ==
    /\ pc'[g] = pc[g] /\ des'[g] = des[g] /\ src'[g] = src[g] /\ pack'[g] = pack[g]
    /\ SameDigest(g)
    /\ repo'[g] = repo[g] /\ disk'[g] = disk[g]
    /\ doneR'[g] = doneR[g] /\ doneS'[g] = doneS[g]

Functions ==
    /\ pc \in [Guid -> [Attempt -> PCs]] /\ des \in [Guid -> [Attempt -> BOOLEAN]]
    /\ src \in [Guid -> Stream] /\ pack \in [Guid -> [Attempt -> Packet]]
    /\ repo \in [Guid -> Repository] /\ disk \in [Guid -> Seq(Nat)]
    /\ doneR \in [Guid -> SUBSET Reported] /\ doneS \in [Guid -> SUBSET Reported]

LEMMA TypeFunctions == TypeOK => Functions
  BY DEF TypeOK, Functions, RunTypes, SendTypes, RecvTypes, UserTypes

LEMMA SameAtQuiet ==
    ASSUME NEW g \in Guid, SameAt(g), UNCHANGED up,
           Untouched(toR', toR, g), Untouched(toS', toS, g)
    PROVE  Quiet(g)
  BY DEF SameAt, Quiet, SameView, SameRun

LEMMA SendFileMixes ==
    ASSUME TypeOK, NEW h \in Guid, NEW g \in Guid, SendFile(h)
    PROVE  SameDigest(g)
  <1> SUFFICES ASSUME pc[g][1] = "done" PROVE mixed'[g][1] = mixed[g][1]
    BY DEF SameDigest
  <1>1. mixed' = mixed \/ mixed' = DigestWritten
    BY DEF SendFile
  <1> QED
    BY <1>1, WrittenElsewhere

LEMMA SendFileElsewhere ==
    ASSUME TypeOK, NEW h \in Guid, NEW g \in Guid \ {h}, SendFile(h)
    PROVE  Quiet(g)
  <1>1. UNCHANGED <<up, toR, toS, des, repo, disk, doneR, doneS>>
    BY DEF SendFile, recvVars, userVars
  <1>2. pc'[g] = pc[g] /\ src'[g] = src[g] /\ pack' = pack
    BY TypeFunctions DEF SendFile, Functions
  <1>3. SameDigest(g)
    BY SendFileMixes
  <1> QED
    BY <1>1, <1>2, <1>3, SameAtQuiet DEF SameAt, Untouched

LEMMA RunElsewhere ==
    ASSUME TypeOK, NEW h \in Guid, NEW k \in Attempt, NEW g \in Guid \ {h},
           RunStart(h, k) \/ RunReadBlock(h, k) \/ RunSendBlock(h, k) \/ Release(h, k)
    PROVE  Quiet(g)
  <1>1. UNCHANGED <<up, toS, des, mixed, repo, disk, doneR>>
    BY DEF RunStart, RunReadBlock, RunSendBlock, Release, sendVars, recvVars, userVars
  <1>2. pc'[g] = pc[g] /\ pack'[g] = pack[g]
    BY TypeFunctions DEF RunStart, RunReadBlock, RunSendBlock, Release, Goto, Functions, sendVars
  <1>3. src'[g] = src[g] /\ doneS'[g] = doneS[g]
    BY TypeFunctions DEF RunStart, RunReadBlock, RunSendBlock, Release, Functions, sendVars, userVars
  <1>4. toR' = toR \/ \E t, ok, x, y : toR' = SendData(toR, Msg(t, h, ok, x, y))
    BY DEF RunStart, RunReadBlock, RunSendBlock, SendBlock, Release, SendEnd
  <1>5. Untouched(toR', toR, g)
    BY <1>4, OtherMessages DEF Untouched
  <1> QED
    BY <1>1, <1>2, <1>3, <1>5, StandingDigest, SameAtQuiet DEF SameAt, Untouched

LEMMA HandleRElsewhere ==
    ASSUME TypeOK, NEW h \in Guid, NEW g \in Guid \ {h},
           AcceptFile(h) \/ RecieveBlock(h) \/ RecieveEnd(h)
    PROVE  Quiet(g)
  <1>1. UNCHANGED <<up, pc, des, src, pack, mixed, doneS>>
    BY DEF AcceptFile, RecieveBlock, RecieveEnd, runVars, sendVars, userVars
  <1>2. repo'[g] = repo[g] /\ disk'[g] = disk[g]
    <2>1. CASE AcceptFile(h)
      BY <2>1, TypeFunctions DEF AcceptFile, Functions
    <2>2. CASE RecieveBlock(h)
      BY <2>2, TypeFunctions DEF RecieveBlock, Functions
    <2>3. CASE RecieveEnd(h)
      BY <2>3, TypeFunctions DEF RecieveEnd, Functions
    <2> QED
      BY <2>1, <2>2, <2>3
  <1>3. doneR'[g] = doneR[g]
    BY TypeFunctions DEF AcceptFile, RecieveBlock, RecieveEnd, Functions, userVars
  <1>4. toR' = Tail(toR) /\ \E t : HeadIs(toR, t, h)
    BY DEF AcceptFile, RecieveBlock, RecieveEnd
  <1>5. toS' = toS \/ \E t, ok, x, y : toS' = SendData(toS, Msg(t, h, ok, x, y))
    <2>1. CASE AcceptFile(h)
      BY <2>1 DEF AcceptFile
    <2>2. CASE RecieveBlock(h)
      BY <2>2 DEF RecieveBlock
    <2>3. CASE RecieveEnd(h)
      BY <2>3 DEF RecieveEnd
    <2> QED
      BY <2>1, <2>2, <2>3
  <1>6. Untouched(toR', toR, g)
    BY <1>4, OtherHead DEF Untouched
  <1>7. Untouched(toS', toS, g)
    BY <1>5, OtherMessages DEF Untouched
  <1> QED
    BY <1>1, <1>2, <1>3, <1>6, <1>7, StandingDigest, SameAtQuiet DEF SameAt

LEMMA HandleSElsewhere ==
    ASSUME TypeOK, NEW h \in Guid, NEW g \in Guid \ {h}, CanSendFile(h) \/ SendFileResult(h)
    PROVE  Quiet(g)
  <1>1. UNCHANGED <<up, toR, src, pack, mixed, repo, disk, doneR>>
    BY DEF CanSendFile, SendFileResult, sendVars, recvVars, userVars
  <1>2. pc'[g] = pc[g]
    BY TypeFunctions DEF CanSendFile, SendFileResult, ResumeChildThread, Resume, NotifyAll, Functions,
       runVars
  <1>3. des'[g] = des[g] /\ doneS'[g] = doneS[g]
    BY TypeFunctions DEF CanSendFile, SendFileResult, Functions, runVars, userVars
  <1>4. toS' = Tail(toS) /\ \E t : HeadIs(toS, t, h)
    BY DEF CanSendFile, SendFileResult
  <1>5. Untouched(toS', toS, g)
    BY <1>4, OtherHead DEF Untouched
  <1> QED
    BY <1>1, <1>2, <1>3, <1>5, StandingDigest, SameAtQuiet DEF SameAt, Untouched

\* The channel closes: what is left in flight is a part of what was.
LEMMA CloseChannelFlow ==
    ASSUME TypeOK, TypeOK', NEW g \in Guid, Flow(g), CloseChannel
    PROVE  Flow(g)'
  <1>1. toR \in Seq(MessageR) /\ toS \in Seq(MessageS)
    BY DEF TypeOK, ChannelTypes
  <1>2. PICK i \in 0..Len(toR), j \in 0..Len(toS) :
           toR' = SubSeq(toR, 1, i) /\ toS' = SubSeq(toS, 1, j)
    BY DEF CloseChannel
  <1>3. \A n \in DOMAIN toR' : n + 0 = n /\ n \in DOMAIN toR /\ toR'[n] = toR[n]
    BY <1>1, <1>2
  <1>4. \A n \in DOMAIN toS' : n + 0 = n /\ n \in DOMAIN toS /\ toS'[n] = toS[n]
    BY <1>1, <1>2
  <1>5. \A n \in DOMAIN toR', m \in DOMAIN toR : m < n + 0 => m - 0 \in DOMAIN toR' /\ toR'[m - 0] = toR[m]
    BY <1>1, <1>2
  <1>6. Passed(toR', toR, g, RTypes, 0) /\ Kept(toR', toR, g, 0)
    BY <1>3, <1>5 DEF Passed, Kept
  <1>7. Passed(toS', toS, g, Answers \cup Results, 0)
    BY <1>4 DEF Passed
  <1>8. FrameR(toR', toR, g) /\ FrameS(toS', toS, g)
    BY <1>6, <1>7 DEF FrameR, FrameS
  <1>9. SameQueues(g)
    BY <1>8 DEF SameQueues, CloseChannel
  <1>10. SameView(g) /\ SameRun(g) /\ SameDigest(g)
    BY DEF CloseChannel, SameView, SameRun, SameDigest, runVars, sendVars, recvVars, userVars
  <1> QED
    BY <1>9, <1>10, FlowKept

-----------------------------------------------------------------------------
(* Queues that a message of the flow is put into or taken from *)

LEMMA AppendHas ==
    ASSUME NEW S, NEW q \in Seq(S), NEW m \in S, NEW g, NEW U
    PROVE  Has(Append(q, m), g, U) <=> Has(q, g, U) \/ Of(m, g, U)
  <1>1. /\ DOMAIN Append(q, m) = 1..(Len(q) + 1) /\ DOMAIN q = 1..Len(q) /\ Len(q) \in Nat
        /\ Append(q, m)[Len(q) + 1] = m
        /\ \A i \in DOMAIN q : i \in DOMAIN Append(q, m) /\ Append(q, m)[i] = q[i]
        /\ \A i \in DOMAIN Append(q, m) : i = Len(q) + 1 \/ i \in DOMAIN q
    OBVIOUS
  <1> QED
    BY <1>1 DEF Has

LEMMA AppendOne ==
    ASSUME NEW S, NEW q \in Seq(S), NEW m \in S, NEW g, NEW U, One(q, g, U),
           Of(m, g, U) => ~Has(q, g, U)
    PROVE  One(Append(q, m), g, U)
  <1>1. /\ Append(q, m)[Len(q) + 1] = m
        /\ \A i \in DOMAIN Append(q, m) :
              i = Len(q) + 1 \/ (i \in DOMAIN q /\ Append(q, m)[i] = q[i])
    OBVIOUS
  <1> QED
    BY <1>1 DEF One, Has

\* A message that may be sent now keeps the order.
LEMMA AppendInOrder ==
    ASSUME NEW S, NEW q \in Seq(S), NEW m \in S, NEW g, InOrder(q, g), m.guid = g,
           m.type \in RTypes,
           ~Has(q, g, {"End_Send_File"}), m.type = "Create_File" => ~Has(q, g, RTypes),
           \A i \in DOMAIN q : Of(q[i], g, RTypes) /\ q[i].type = m.type => q[i].a < m.a
    PROVE  InOrder(Append(q, m), g)
  <1> DEFINE r == Append(q, m)
  <1>1. /\ r[Len(q) + 1] = m
        /\ \A i \in DOMAIN r : i = Len(q) + 1 \/ (i \in DOMAIN q /\ r[i] = q[i])
        /\ \A i \in DOMAIN r : i \in Nat /\ i <= Len(q) + 1
    OBVIOUS
  <1>2. Len(q) \in Nat
    OBVIOUS
  <1> HIDE DEF r
  <1> SUFFICES ASSUME NEW i \in DOMAIN r, NEW j \in DOMAIN r, i < j,
                      Of(r[i], g, RTypes), Of(r[j], g, RTypes)
               PROVE  /\ r[i].type # "End_Send_File"
                      /\ r[j].type # "Create_File"
                      /\ r[i].type = r[j].type => r[i].a < r[j].a
    BY DEF InOrder, r
  <1>3. i \in DOMAIN q /\ r[i] = q[i]
    BY <1>1, <1>2
  <1>4. CASE j \in DOMAIN q /\ r[j] = q[j]
    BY <1>3, <1>4 DEF InOrder
  <1>5. CASE r[j] = m
    BY <1>3, <1>5 DEF Has, Of
  <1> QED
    BY <1>1, <1>4, <1>5

LEMMA AppendLinked ==
    ASSUME NEW S, NEW q \in Seq(S), NEW m \in S, NEW g, NEW n, Linked(q, g, n),
           Block(m, g) => LastKnown(q, g, m.a - 1, n) /\ m.a \in Nat /\ n \in Nat,
           \A i \in DOMAIN q : q[i].a \in Nat
    PROVE  Linked(Append(q, m), g, n)
  <1> DEFINE r == Append(q, m)
  <1>1. /\ r[Len(q) + 1] = m
        /\ \A i \in DOMAIN r : i = Len(q) + 1 \/ (i \in DOMAIN q /\ r[i] = q[i])
        /\ \A i \in DOMAIN q : i < Len(q) + 1 /\ i \in DOMAIN r /\ r[i] = q[i]
    OBVIOUS
  <1> HIDE DEF r
  <1> SUFFICES ASSUME NEW i \in DOMAIN r, Block(r[i], g), r[i].a # n + 1
               PROVE  \E j \in DOMAIN r : j < i /\ Block(r[j], g) /\ r[j].a + 1 = r[i].a
    BY DEF Linked, r
  <1>2. CASE i \in DOMAIN q /\ r[i] = q[i]
    BY <1>1, <1>2 DEF Linked
  <1>3. CASE i = Len(q) + 1
    <2>1. r[i] = m /\ m.a - 1 # n /\ LastKnown(q, g, m.a - 1, n) /\ m.a \in Nat
      BY <1>1, <1>3
    <2>2. PICK j \in DOMAIN q : Block(q[j], g) /\ q[j].a = m.a - 1
      BY <2>1 DEF LastKnown
    <2>3. q[j].a + 1 = m.a
      BY <2>1, <2>2
    <2> QED
      BY <1>1, <1>3, <2>1, <2>2, <2>3
  <1> QED
    BY <1>1, <1>2, <1>3

LEMMA AppendAsRead ==
    ASSUME NEW S, NEW q \in Seq(S), NEW m \in S, NEW g, NEW p \in Nat, NEW pp \in Nat, p <= pp,
           AsRead(q, g, p),
           Block(m, g) => /\ m.rok /\ m.a \in 1..pp /\ (m.a - 1) * BlockSize <= FileSize[g]
                          /\ m.b = Bytes(g, m.a) - Bytes(g, m.a - 1)
    PROVE  AsRead(Append(q, m), g, pp)
  <1> DEFINE r == Append(q, m)
  <1>1. \A i \in DOMAIN r : r[i] = m \/ (i \in DOMAIN q /\ r[i] = q[i])
    OBVIOUS
  <1>2. 1..p \subseteq 1..pp
    OBVIOUS
  <1> HIDE DEF r
  <1>3. ASSUME NEW i \in DOMAIN r, Block(r[i], g)
        PROVE  /\ r[i].rok /\ r[i].a \in 1..pp /\ (r[i].a - 1) * BlockSize <= FileSize[g]
               /\ r[i].b = Bytes(g, r[i].a) - Bytes(g, r[i].a - 1)
    <2>1. CASE r[i] = m
      BY <1>3, <2>1
    <2>2. CASE i \in DOMAIN q /\ r[i] = q[i]
      BY <1>2, <1>3, <2>2 DEF AsRead
    <2> QED
      BY <1>1, <2>1, <2>2
  <1> QED
    BY <1>3 DEF AsRead, r

\* A queue without messages of the flow has none in the wrong order.
LEMMA NoneInFlight ==
    ASSUME NEW q, NEW g, NEW n, NEW p, ~Has(q, g, RTypes)
    PROVE  InOrder(q, g) /\ Linked(q, g, n) /\ AsRead(q, g, p)
           /\ \A U : U \subseteq RTypes => ~Has(q, g, U)
  BY DEF InOrder, Linked, AsRead, Has, Block, Of, RTypes

\* What is left after the head was taken.
LEMMA TailPassed ==
    ASSUME NEW S, NEW q \in Seq(S), q # <<>>, NEW g, NEW T
    PROVE  /\ Passed(Tail(q), q, g, T, 1)
           /\ Head(q) = q[1] /\ 1 \in DOMAIN q /\ Tail(q) \in Seq(S)
           /\ \A i \in DOMAIN q : i = 1 \/ (i > 1 /\ i - 1 \in DOMAIN Tail(q) /\ Tail(q)[i - 1] = q[i])
           /\ \A i \in DOMAIN Tail(q) : i + 1 \in DOMAIN q /\ i + 1 > 1 /\ Tail(q)[i] = q[i + 1]
  <1>1. /\ Head(q) = q[1] /\ 1 \in DOMAIN q /\ Tail(q) \in Seq(S)
        /\ \A i \in DOMAIN q : i = 1 \/ (i > 1 /\ i - 1 \in DOMAIN Tail(q) /\ Tail(q)[i - 1] = q[i])
        /\ \A i \in DOMAIN Tail(q) : i + 1 \in DOMAIN q /\ i + 1 > 1 /\ Tail(q)[i] = q[i + 1]
    OBVIOUS
  <1> QED
    BY <1>1 DEF Passed

\* The only message of a kind is taken.
LEMMA TailNone ==
    ASSUME NEW S, NEW q \in Seq(S), q # <<>>, NEW g, NEW U, One(q, g, U), Of(Head(q), g, U)
    PROVE  ~Has(Tail(q), g, U)
  <1>1. /\ Head(q) = q[1] /\ 1 \in DOMAIN q
        /\ \A i \in DOMAIN Tail(q) : i + 1 \in DOMAIN q /\ i + 1 # 1 /\ Tail(q)[i] = q[i + 1]
    BY TailPassed
  <1> QED
    BY <1>1 DEF One, Has

-----------------------------------------------------------------------------
(* The actions that move the flow *)

LEMMA ViewTypes ==
    ASSUME TypeOK, NEW g \in Guid
    PROVE  /\ toR \in Seq(MessageR) /\ toS \in Seq(MessageS)
           /\ \A i \in DOMAIN toR : toR[i].a \in Nat
           /\ src[g].pos \in Nat /\ repo[g].finish \in Nat /\ Len(disk[g]) \in Nat
           /\ pc[g][1] # "send" => Sent(g) = src[g].pos
           /\ 1 \in Attempt
           /\ Functions
  <1>1. toR \in Seq(MessageR) /\ toS \in Seq(MessageS)
    BY DEF TypeOK, ChannelTypes
  <1>2. \A i \in DOMAIN toR : toR[i] \in MessageR
    BY <1>1
  <1>3. \A i \in DOMAIN toR : toR[i].a \in Nat
    BY <1>2 DEF MessageR, Message
  <1>4. Functions
    BY TypeFunctions
  <1>5. disk[g] \in Seq(Nat) /\ src[g] \in Stream /\ repo[g] \in Repository
    BY <1>4 DEF Functions
  <1> QED
    BY <1>1, <1>3, <1>4, <1>5, ConstantAssumption DEF Stream, Repository, Attempt, Sent

\* Messages of the flow but for an end leave the digests alone.
LEMMA SameEnds ==
    ASSUME NEW g, DigestRight(g), UNCHANGED mixed,
           \A i \in DOMAIN toR' : Of(toR'[i], g, {"End_Send_File"}) =>
               \E j \in DOMAIN toR : toR'[i] = toR[j]
    PROVE  DigestRight(g)'
  BY DEF DigestRight

LEMMA NoEnds ==
    ASSUME NEW g, ~Has(toR', g, {"End_Send_File"})
    PROVE  DigestRight(g)'
  BY DEF DigestRight, Has

\* A user sends a name for the first and only time.
LEMMA SendFileFlow ==
    ASSUME TypeOK, TypeOK', LifeInv, MaxSends = 1, NEW g \in Guid, Flow(g), SendFile(g)
    PROVE  Flow(g)'
  <1>1. sends[g] = 0
    BY DEF SendFile, TypeOK, SendTypes
  <1>2. pc[g][1] = "idle"
    <2>1. 1 > 0 /\ 1 \in Attempt
      BY ViewTypes
    <2> QED
      BY <1>1, <2>1 DEF LifeInv, CallsMade
  <1>3. ~repo[g].box /\ ~des[g][1] /\ ~Has(toR, g, RTypes) /\ ~Has(toS, g, Answers)
    BY <1>2 DEF Flow, NothingYet
  <1>4. ~Judged(g) /\ disk[g] = <<>> /\ Len(disk[g]) = 0 /\ ~(src[g].pos > 0)
    <2>1. ~Judged(g) /\ ~(src[g].pos > 0) /\ disk[g] = <<>>
      BY <1>2, <1>3 DEF Flow, EndedOnce, GuidFirst, OpenUntilJudged
    <2> QED
      BY <2>1
  <1>5. UNCHANGED <<up, toR, toS, des, repo, disk, doneR, doneS>>
    BY DEF SendFile, recvVars, userVars
  <1>6. pc'[g][1] = "start"
    BY <1>1, ViewTypes DEF SendFile, Functions
  <1>7. src'[g].pos = 0
    <2>1. src'[g] = IF src[g].box THEN src[g] ELSE OpenedStream
      BY ViewTypes DEF SendFile, Functions
    <2>2. src[g].pos = 0
      BY <1>4, ViewTypes
    <2> QED
      BY <2>1, <2>2 DEF OpenedStream
  <1>8. ~Has(toR, g, {"Create_File"}) /\ ~Has(toR, g, {"End_Send_File"})
    BY <1>3, NoneInFlight DEF RTypes
  <1>9. NothingYet(g)' /\ AskedOnce(g)' /\ OpenUntilJudged(g)' /\ VerdictRight(g)' /\ ToldRight(g)'
    BY <1>3, <1>4, <1>5
    DEF Flow, NothingYet, AskedOnce, OpenUntilJudged, VerdictRight, ToldRight, Judged, Verdicts
  <1>10. GuidFirst(g)'
    BY <1>6, <1>7 DEF GuidFirst, Sending, Turn
  <1>11. EndedOnce(g)'
    BY <1>4, <1>5, <1>7, <1>8 DEF EndedOnce, Judged
  <1>12. InFlight(g)'
    BY <1>3, <1>5, NoneInFlight DEF InFlight
  <1>13. Sent(g)' = 0 /\ PackedRight(g)'
    BY <1>6, <1>7 DEF Sent, PackedRight
  <1>14. OnDisk(g)'
    BY <1>4, <1>5, <1>13 DEF Flow, OnDisk
  <1>15. ReadSoFar(g)'
    <2>1. 0 * BlockSize <= FileSize[g]
      BY ConstantAssumption
    <2> QED
      BY <1>4, <1>5, <1>7, <1>13, <2>1 DEF ReadSoFar, LastKnown
  <1>16. DigestRight(g)'
    BY <1>5, <1>8, NoEnds
  <1> QED
    BY <1>9, <1>10, <1>11, <1>12, <1>13, <1>14, <1>15, <1>16 DEF Flow

\* Run asks the receiver.
LEMMA RunStartFlow ==
    ASSUME TypeOK, TypeOK', NEW g \in Guid, Flow(g), RunStart(g, 1)
    PROVE  Flow(g)'
  <1> DEFINE m == Msg("Create_File", g, FALSE, Dword(FileSize[g]), 0)
  <1>1. 1 \in Attempt /\ pc \in [Guid -> [Attempt -> PCs]] /\ toR \in Seq(MessageR)
    BY ViewTypes DEF Functions
  <1>2. pc[g][1] = "start" /\ pc'[g][1] \in {"to_wait", "to_failwait"} /\ pc'[g][1] # "send"
    BY <1>1 DEF RunStart, Goto
  <1>3. ~repo[g].box /\ ~des[g][1] /\ ~Has(toR, g, RTypes) /\ ~Has(toS, g, Answers) /\ ~Judged(g)
    BY <1>2 DEF Flow, NothingYet, EndedOnce
  <1>4. /\ UNCHANGED <<up, toS, des, src, pack, mixed, repo, disk, doneR, doneS>>
        /\ Sent(g) = src[g].pos /\ Sent(g)' = src[g].pos
    BY <1>2 DEF RunStart, sendVars, recvVars, userVars, Sent
  <1>5. CASE ~up
    <2>1. toR' = toR
      BY <1>5 DEF RunStart, SendData
    <2>2. Quiet(g)
      BY <1>2, <1>4, <2>1 DEF Quiet, SameView, SameRun, SameDigest, Untouched, Sending, Turn
    <2> QED
      BY <2>2, QuietKeeps
  <1>6. CASE up
    <2>1. toR' = Append(toR, m) /\ m \in MessageR
      <3>1. Dword(FileSize[g]) \in Nat
        BY ConstantAssumption, DwordType
      <3> QED
        BY <1>6, <3>1, MsgR DEF RunStart, SendData, RTypes
    <2>2. m.guid = g /\ m.type = "Create_File"
      BY DEF Msg
    <2> HIDE DEF m
    <2>3. \A U : Has(toR', g, U) <=> Has(toR, g, U) \/ Of(m, g, U)
      BY <1>1, <2>1, AppendHas
    <2>4. ~Has(toR, g, {"End_Send_File"}) /\ ~Has(toR', g, {"End_Send_File"})
      BY <1>3, <2>2, <2>3, NoneInFlight DEF RTypes, Of
    <2>5. InFlight(g)'
      <3>1. InOrder(toR, g) /\ Linked(toR, g, Len(disk[g])) /\ AsRead(toR, g, Sent(g))
        BY DEF Flow, InFlight
      <3>2. ~Block(m, g)
        BY <2>2 DEF Block, Of
      <3>3. InOrder(toR', g)
        <4>1. \A i \in DOMAIN toR : ~Of(toR[i], g, RTypes)
          BY <1>3 DEF Has
        <4>2. m.type \in RTypes
          BY <2>2 DEF RTypes
        <4> QED
          BY <1>1, <1>3, <2>1, <2>2, <2>4, <3>1, <4>1, <4>2, AppendInOrder
      <3>4. Linked(toR', g, Len(disk[g]))
        BY <1>1, <2>1, <3>1, <3>2, AppendLinked, ViewTypes
      <3>5. AsRead(toR', g, Sent(g))
        BY <1>1, <1>4, <2>1, <3>1, <3>2, AppendAsRead, ViewTypes
      <3> QED
        BY <1>4, <3>3, <3>4, <3>5 DEF InFlight
    <2>6. NothingYet(g)' /\ AskedOnce(g)' /\ GuidFirst(g)' /\ OpenUntilJudged(g)' /\ VerdictRight(g)'
          /\ OnDisk(g)' /\ PackedRight(g)'
      BY <1>2, <1>3, <1>4
      DEF Flow, NothingYet, AskedOnce, GuidFirst, OpenUntilJudged, VerdictRight, OnDisk, PackedRight,
          Judged, Sending, Turn
    <2>7. EndedOnce(g)'
      <3>1. \A i \in DOMAIN toR' : ~Of(toR'[i], g, {"End_Send_File"})
        BY <2>4 DEF Has
      <3> QED
        BY <1>3, <1>4, <2>4, <3>1 DEF EndedOnce, Judged
    <2>8. ReadSoFar(g)'
      <3>1. LastKnown(toR, g, src[g].pos, Len(disk[g])) => src[g].pos = Len(disk[g])
        BY <1>3 DEF LastKnown, Has, Block, Of, RTypes
      <3> QED
        BY <1>2, <1>4, <1>6, <3>1 DEF Flow, ReadSoFar, LastKnown
    <2>9. ToldRight(g)'
      BY <1>4, <1>6, <2>4 DEF Flow, ToldRight, Judged
    <2>10. DigestRight(g)'
      BY <2>4, NoEnds
    <2> QED
      BY <2>5, <2>6, <2>7, <2>8, <2>9, <2>10 DEF Flow
  <1> QED
    BY <1>5, <1>6

\* Run reads a block into its packet.
LEMMA RunReadBlockFlow ==
    ASSUME TypeOK, TypeOK', MaxSends = 1, NEW g \in Guid, Flow(g), RunReadBlock(g, 1)
    PROVE  Flow(g)'
  <1> DEFINE p == src[g].pos
  <1>1. /\ 1 \in Attempt /\ pc \in [Guid -> [Attempt -> PCs]] /\ p \in Nat
        /\ src \in [Guid -> Stream] /\ pack \in [Guid -> [Attempt -> Packet]]
    BY ViewTypes DEF Functions
  <1>2. pc[g][1] = "loop" /\ pc'[g][1] = "send" /\ CanRead(g) /\ on[g][1] = 1
    BY <1>1 DEF RunReadBlock, Goto, TypeOK, RunTypes, Attempt
  <1>3. des[g][1] /\ ~src[g].eof
    BY <1>2 DEF Flow, GuidFirst, Sending, Turn, CanRead
  <1>4. ~Has(toR, g, {"End_Send_File"}) /\ ~Judged(g)
    BY <1>2 DEF Flow, EndedOnce
  <1>5. UNCHANGED <<up, toR, toS, des, mixed, repo, disk, doneR, doneS>>
    BY DEF RunReadBlock, recvVars, userVars
  <1>6. src'[g].pos = p + 1 /\ src'[g].eof = (ReadSize(g) < BlockSize)
    <2>1. src'[g] = PopUp(g)
      BY <1>1 DEF RunReadBlock
    <2> QED
      BY <1>2, <2>1 DEF PopUp
  <1>7. p * BlockSize <= FileSize[g] /\ (up => LastKnown(toR, g, p, Len(disk[g])))
    BY <1>2, <1>3, ViewTypes DEF Flow, ReadSoFar
  <1>8. ReadSize(g) = Bytes(g, p + 1) - Bytes(g, p)
    BY <1>7, ReadSizeBytes
  <1>9. pack'[g][1].rok /\ pack'[g][1].index = p + 1 /\ pack'[g][1].size = ReadSize(g)
    <2>1. pack'[g][1] = NextPacket(g, 1)
      BY <1>1 DEF RunReadBlock
    <2> QED
      BY <1>2, <1>3, <2>1 DEF NextPacket, Accepted
  <1>10. Sent(g) = p /\ Sent(g)' = p /\ p + 1 > 0 /\ (p + 1) - 1 = p
    BY <1>1, <1>2, <1>6, ViewTypes DEF Sent
  <1> HIDE DEF p
  <1>11. PackedRight(g)'
    BY <1>6, <1>7, <1>8, <1>9, <1>10 DEF PackedRight
  <1>12. NothingYet(g)' /\ AskedOnce(g)' /\ GuidFirst(g)' /\ OpenUntilJudged(g)' /\ VerdictRight(g)'
    BY <1>2, <1>3, <1>5
    DEF Flow, NothingYet, AskedOnce, GuidFirst, OpenUntilJudged, VerdictRight, Judged
  <1>13. EndedOnce(g)' /\ DigestRight(g)'
    BY <1>4, <1>5, NoEnds DEF EndedOnce, Judged, Has
  <1>14. InFlight(g)' /\ OnDisk(g)'
    BY <1>5, <1>10 DEF Flow, InFlight, OnDisk
  <1>15. ReadSoFar(g)'
    <2>1. ~src'[g].eof => (p + 1) * BlockSize <= FileSize[g]
      BY <1>1, <1>6, <1>7, <1>8, NextBytes
    <2> QED
      BY <1>5, <1>6, <1>7, <1>10, <2>1 DEF ReadSoFar
  <1>16. ToldRight(g)'
    BY <1>5 DEF Flow, ToldRight, Judged
  <1> QED
    BY <1>11, <1>12, <1>13, <1>14, <1>15, <1>16 DEF Flow

\* The packet that Run sends while the channel is open follows what is in
\* flight.
LEMMA RunSendBlockOpen ==
    ASSUME TypeOK, TypeOK', MaxSends = 1, NEW g \in Guid, Flow(g), RunSendBlock(g, 1), up
    PROVE  Flow(g)'
  <1> DEFINE m == Msg("Send_File", g, pack[g][1].rok, pack[g][1].index, pack[g][1].size)
             p == src[g].pos - 1
             n == Len(disk[g])
  <1>1. /\ 1 \in Attempt /\ pc \in [Guid -> [Attempt -> PCs]] /\ toR \in Seq(MessageR)
        /\ n \in Nat /\ src[g].pos \in Nat /\ pack[g][1] \in Packet
    BY ViewTypes DEF Functions
  <1>2. pc[g][1] = "send" /\ pc'[g][1] = "test"
    BY <1>1 DEF RunSendBlock, Goto
  <1>3. des[g][1]
    BY <1>2 DEF Flow, GuidFirst, Sending, Turn
  <1>4. /\ ~Has(toR, g, {"Create_File"}) /\ ~Has(toS, g, Answers)
        /\ ~Has(toR, g, {"End_Send_File"}) /\ ~Judged(g)
    BY <1>2, <1>3 DEF Flow, AskedOnce, EndedOnce
  <1>5. UNCHANGED <<up, toS, des, src, mixed, repo, disk, doneR>> /\ doneS'[g] = doneS[g]
    BY TypeFunctions DEF RunSendBlock, sendVars, recvVars, Functions
  <1>6. /\ src[g].pos > 0 /\ p * BlockSize <= FileSize[g]
        /\ pack[g][1].rok /\ pack[g][1].index = src[g].pos
        /\ pack[g][1].size = Bytes(g, src[g].pos) - Bytes(g, p)
    BY <1>2 DEF Flow, PackedRight
  <1>7. p \in Nat /\ src[g].pos = p + 1
    BY <1>1, <1>6
  <1>8. Sent(g) = p /\ Sent(g)' = p + 1
    BY <1>2, <1>5, <1>7 DEF Sent
  <1>9. toR' = Append(toR, m) /\ m \in MessageR
    <2>1. pack[g][1].rok \in BOOLEAN /\ pack[g][1].index \in Nat /\ pack[g][1].size \in Nat
      BY <1>1 DEF Packet
    <2> QED
      BY <2>1, MsgR DEF RunSendBlock, SendBlock, SendData, RTypes
  <1>10. m.guid = g /\ m.type = "Send_File" /\ m.rok /\ m.a = p + 1 /\ m.b = Bytes(g, p + 1) - Bytes(g, p)
    BY <1>6, <1>7 DEF Msg
  <1> HIDE DEF m, p, n
  <1>11. \A U : Has(toR', g, U) <=> Has(toR, g, U) \/ Of(m, g, U)
    BY <1>1, <1>9, AppendHas
  <1>12. ~Has(toR', g, {"Create_File"}) /\ ~Has(toR', g, {"End_Send_File"})
    BY <1>4, <1>10, <1>11 DEF Of
  <1>13. InFlight(g)'
    <2>1. InOrder(toR, g) /\ Linked(toR, g, n) /\ AsRead(toR, g, p)
      BY <1>8 DEF Flow, InFlight, n
    <2>2. m.a - 1 = p /\ m.a \in 1..(p + 1) /\ m.a \in Nat /\ p + 1 \in Nat /\ p <= p + 1
      BY <1>7, <1>10
    <2>3. \A i \in DOMAIN toR : Of(toR[i], g, RTypes) /\ toR[i].type = m.type => toR[i].a < m.a
      <3>1. \A i \in DOMAIN toR : Block(toR[i], g) => toR[i].a \in 1..p
        BY <2>1 DEF AsRead
      <3>2. \A i \in DOMAIN toR : Of(toR[i], g, RTypes) /\ toR[i].type = m.type => Block(toR[i], g)
        BY <1>10 DEF Block, Of
      <3>3. \A x \in 1..p : x < m.a
        BY <1>7, <1>10
      <3> QED
        BY <3>1, <3>2, <3>3
    <2>4. InOrder(toR', g)
      <3>1. m.type \in RTypes /\ m.type # "Create_File"
        BY <1>10 DEF RTypes
      <3> QED
        BY <1>1, <1>4, <1>9, <1>10, <2>1, <2>3, <3>1, AppendInOrder
    <2>5. Linked(toR', g, n)
      <3>1. \A i \in DOMAIN toR : toR[i].a \in Nat
        BY ViewTypes
      <3>2. LastKnown(toR, g, p, n)
        BY <1>2, <1>8 DEF Flow, ReadSoFar, n
      <3> QED
        BY <1>1, <1>9, <2>1, <2>2, <3>1, <3>2, AppendLinked
    <2>6. AsRead(toR', g, p + 1)
      <3>1. (m.a - 1) * BlockSize <= FileSize[g] /\ m.b = Bytes(g, m.a) - Bytes(g, m.a - 1)
        BY <1>6, <1>10, <2>2
      <3> QED
        BY <1>1, <1>7, <1>9, <1>10, <2>1, <2>2, <3>1, AppendAsRead
    <2> QED
      BY <1>5, <1>8, <2>4, <2>5, <2>6 DEF InFlight, n
  <1>14. /\ NothingYet(g)' /\ AskedOnce(g)' /\ GuidFirst(g)' /\ OpenUntilJudged(g)'
         /\ PackedRight(g)' /\ VerdictRight(g)'
    BY <1>2, <1>3, <1>4, <1>5, <1>12
    DEF Flow, NothingYet, AskedOnce, GuidFirst, PackedRight, OpenUntilJudged, VerdictRight, Judged
  <1>15. EndedOnce(g)' /\ DigestRight(g)'
    <2>1. \A i \in DOMAIN toR' : ~Of(toR'[i], g, {"End_Send_File"})
      BY <1>12 DEF Has
    <2> QED
      BY <1>4, <1>5, <1>12, <2>1, NoEnds DEF EndedOnce, Judged
  <1>16. OnDisk(g)'
    <2>1. n <= p /\ n <= p + 1
      BY <1>1, <1>7, <1>8 DEF Flow, OnDisk, n
    <2> QED
      BY <1>5, <1>8, <2>1 DEF Flow, OnDisk, n
  <1>17. ReadSoFar(g)'
    <2>1. LastKnown(toR', g, p + 1, n)
      <3>1. Len(toR) + 1 \in DOMAIN toR' /\ toR'[Len(toR) + 1] = m
        BY <1>1, <1>9
      <3>2. Block(m, g) /\ m.a = p + 1
        BY <1>10 DEF Block, Of
      <3> QED
        BY <3>1, <3>2 DEF LastKnown
    <2> QED
      BY <1>5, <1>8, <2>1 DEF Flow, ReadSoFar, n
  <1>18. ToldRight(g)'
    BY <1>4, <1>5 DEF Flow, ToldRight, Judged
  <1> QED
    BY <1>13, <1>14, <1>15, <1>16, <1>17, <1>18 DEF Flow

\* A packet that is sent when the channel is closed is lost, and Run says so.
LEMMA RunSendBlockClosed ==
    ASSUME TypeOK, TypeOK', NEW g \in Guid, Flow(g), RunSendBlock(g, 1), ~up
    PROVE  Flow(g)'
  <1> DEFINE p == src[g].pos
  <1>1. 1 \in Attempt /\ pc \in [Guid -> [Attempt -> PCs]] /\ p \in Nat
    BY ViewTypes DEF Functions
  <1>2. pc[g][1] = "send" /\ pc'[g][1] = "release"
    BY <1>1 DEF RunSendBlock, Goto
  <1>3. des[g][1] /\ p > 0
    BY <1>2 DEF Flow, GuidFirst, PackedRight, Sending, Turn
  <1>4. ~Has(toR, g, {"End_Send_File"}) /\ ~Judged(g)
    BY <1>2 DEF Flow, EndedOnce
  <1>5. /\ UNCHANGED <<up, toR, toS, des, src, mixed, repo, disk, doneR>>
        /\ doneS'[g] = doneS[g] \cup {"FAILURE"}
    BY TypeFunctions DEF RunSendBlock, SendBlock, SendData, sendVars, recvVars, Functions
  <1>6. Sent(g) = p - 1 /\ Sent(g)' = p
    BY <1>2, <1>5 DEF Sent
  <1> HIDE DEF p
  <1>7. InFlight(g)'
    <2>1. AsRead(toR, g, p - 1)
      BY <1>6 DEF Flow, InFlight
    <2>2. 1..(p - 1) \subseteq 1..p
      BY <1>1
    <2>3. AsRead(toR, g, p)
      BY <2>1, <2>2 DEF AsRead
    <2> QED
      BY <1>5, <1>6, <2>3 DEF Flow, InFlight
  <1>8. /\ NothingYet(g)' /\ AskedOnce(g)' /\ GuidFirst(g)' /\ OpenUntilJudged(g)'
        /\ PackedRight(g)' /\ VerdictRight(g)'
    BY <1>2, <1>3, <1>5
    DEF Flow, NothingYet, AskedOnce, GuidFirst, PackedRight, OpenUntilJudged, VerdictRight, Judged
  <1>9. EndedOnce(g)' /\ DigestRight(g)'
    <2>1. \A i \in DOMAIN toR : ~Of(toR[i], g, {"End_Send_File"})
      BY <1>4 DEF Has
    <2> QED
      BY <1>4, <1>5, <2>1, NoEnds DEF EndedOnce, Judged
  <1>10. OnDisk(g)'
    <2>1. Len(disk[g]) <= p
      BY <1>1, <1>6, ViewTypes DEF Flow, OnDisk
    <2> QED
      BY <1>5, <1>6, <2>1 DEF Flow, OnDisk
  <1>11. ReadSoFar(g)'
    BY <1>5 DEF Flow, ReadSoFar
  <1>12. ToldRight(g)'
    <2>1. ~Has(toS, g, {"Succese_Recieve_File"}) /\ ~Has(toS, g, {"Failure_Recieve_File"})
      BY <1>4 DEF Flow, ToldRight, Judged, Verdicts
    <2>2. ~Has(toS, g, Results)
      BY <2>1 DEF Has, Of, Results
    <2>3. "SUCCESS" \in doneS'[g] => "SUCCESS" \in doneS[g]
      BY <1>5
    <2> QED
      BY <1>4, <1>5, <2>1, <2>2, <2>3 DEF Flow, ToldRight, Judged
  <1> QED
    BY <1>7, <1>8, <1>9, <1>10, <1>11, <1>12 DEF Flow

\* Run ends.
LEMMA ReleaseFlow ==
    ASSUME TypeOK, TypeOK', MaxSends = 1, NEW g \in Guid, Flow(g), Release(g, 1)
    PROVE  Flow(g)'
  <1>0. PICK d \in {OwnDigest, OtherText} :
           d \in Digests(g, 1) /\ toR' = SendEnd(g, 1, d)
    BY DEF Release, Digests
  <1> DEFINE m == Msg("End_Send_File", g, des[g][1], d, 0)
  <1>1. 1 \in Attempt /\ pc \in [Guid -> [Attempt -> PCs]] /\ toR \in Seq(MessageR)
    BY ViewTypes DEF Functions
  <1>2. pc[g][1] = "end" /\ pc'[g][1] = "done" /\ on[g][1] = 1 /\ des[g][1] \in BOOLEAN
    BY <1>1 DEF Release, Goto, TypeOK, RunTypes, Attempt
  <1>3. ~Has(toR, g, {"End_Send_File"}) /\ ~Judged(g)
    BY <1>2 DEF Flow, EndedOnce
  <1>4. /\ UNCHANGED <<up, toS, des, src, pack, mixed, repo, disk, doneR, doneS>>
        /\ Sent(g) = src[g].pos /\ Sent(g)' = src[g].pos
    BY <1>2 DEF Release, recvVars, userVars, Sent
  <1>5. CASE ~up
    <2>1. toR' = toR
      BY <1>0, <1>5 DEF SendEnd, SendData
    <2>2. Quiet(g)
      BY <1>2, <1>4, <2>1 DEF Quiet, SameView, SameRun, SameDigest, Untouched, Sending, Turn
    <2> QED
      BY <2>2, QuietKeeps
  <1>6. CASE up
    <2>1. toR' = Append(toR, m) /\ m \in MessageR
      BY <1>0, <1>2, <1>6, MsgR DEF SendEnd, SendData, Accepted, RTypes, OwnDigest, OtherText
    <2>2. m.guid = g /\ m.type = "End_Send_File" /\ m.rok = des[g][1] /\ m.a = d
      BY DEF Msg
    <2> HIDE DEF m
    <2>3. \A U : Has(toR', g, U) <=> Has(toR, g, U) \/ Of(m, g, U)
      BY <1>1, <2>1, AppendHas
    <2>4. Has(toR', g, {"Create_File"}) => Has(toR, g, {"Create_File"})
      BY <2>2, <2>3 DEF Of
    <2>5. InFlight(g)'
      <3>1. InOrder(toR, g) /\ Linked(toR, g, Len(disk[g])) /\ AsRead(toR, g, Sent(g))
        BY DEF Flow, InFlight
      <3>2. ~Block(m, g)
        BY <2>2 DEF Block, Of
      <3>3. InOrder(toR', g)
        <4>1. \A i \in DOMAIN toR : Of(toR[i], g, RTypes) => toR[i].type # m.type
          BY <1>3, <2>2 DEF Has, Of
        <4>2. m.type \in RTypes /\ m.type # "Create_File"
          BY <2>2 DEF RTypes
        <4> QED
          BY <1>1, <1>3, <2>1, <2>2, <3>1, <4>1, <4>2, AppendInOrder
      <3>4. Linked(toR', g, Len(disk[g]))
        BY <1>1, <2>1, <3>1, <3>2, AppendLinked, ViewTypes
      <3>5. AsRead(toR', g, Sent(g))
        BY <1>1, <1>4, <2>1, <3>1, <3>2, AppendAsRead, ViewTypes
      <3> QED
        BY <1>4, <3>3, <3>4, <3>5 DEF InFlight
    <2>6. NothingYet(g)' /\ AskedOnce(g)' /\ GuidFirst(g)' /\ OpenUntilJudged(g)' /\ VerdictRight(g)'
          /\ OnDisk(g)' /\ PackedRight(g)'
      BY <1>2, <1>4, <2>4
      DEF Flow, NothingYet, AskedOnce, GuidFirst, OpenUntilJudged, VerdictRight, OnDisk, PackedRight,
          Judged, Sending, Turn
    <2>7. EndedOnce(g)' /\ DigestRight(g)'
      <3>1. ~des[g][1] => src[g].pos = 0
        BY ViewTypes DEF Flow, GuidFirst
      <3>2. \A i \in DOMAIN toR' : Of(toR'[i], g, {"End_Send_File"}) => toR'[i] = m
        <4>1. \A i \in DOMAIN toR' : toR'[i] = m \/ (i \in DOMAIN toR /\ toR'[i] = toR[i])
          BY <1>1, <2>1
        <4> QED
          BY <1>3, <4>1 DEF Has
      <3>3. DigestRight(g)'
        BY <1>0, <1>4, <2>2, <3>2 DEF DigestRight, Digests
      <3> QED
        BY <1>2, <1>3, <1>4, <2>2, <3>1, <3>2, <3>3 DEF EndedOnce, Judged
    <2>8. ReadSoFar(g)'
      <3>1. Lossless(toR', toR, g)
        BY <1>1, <2>1 DEF Lossless
      <3> QED
        BY <1>2, <1>4, <3>1, FrameLast DEF Flow, ReadSoFar
    <2>9. ToldRight(g)'
      BY <1>3, <1>4, <1>6 DEF Flow, ToldRight, Judged, Verdicts
    <2> QED
      BY <2>5, <2>6, <2>7, <2>8, <2>9 DEF Flow
  <1> QED
    BY <1>5, <1>6

\* The receiver accepts: its file is made, empty, and the answer is sent.
LEMMA AcceptFileFlow ==
    ASSUME TypeOK, TypeOK', BlocksWanted, NEW g \in Guid, Flow(g), AcceptFile(g)
    PROVE  Flow(g)'
  <1>1. toR \in Seq(MessageR) /\ toS \in Seq(MessageS) /\ toR # <<>> /\ toR' = Tail(toR)
        /\ Functions /\ repo \in [Guid -> Repository] /\ disk \in [Guid -> Seq(Nat)]
    BY ViewTypes DEF AcceptFile, HeadIs, Functions
  <1>2. /\ Passed(toR', toR, g, RTypes, 1)
        /\ Head(toR) = toR[1] /\ 1 \in DOMAIN toR
        /\ \A i \in DOMAIN toR' : i + 1 \in DOMAIN toR /\ i + 1 > 1 /\ toR'[i] = toR[i + 1]
    BY <1>1, TailPassed
  <1>3. Of(toR[1], g, {"Create_File"}) /\ Of(toR[1], g, RTypes)
    BY <1>2 DEF AcceptFile, HeadIs, Of, RTypes
  <1>4. Has(toR, g, {"Create_File"}) /\ Has(toR, g, RTypes)
    BY <1>2, <1>3 DEF Has
  <1>5. ~repo[g].box /\ ~des[g][1] /\ ~Has(toS, g, Answers)
    BY <1>4 DEF Flow, AskedOnce
  <1>6. pc[g][1] \notin {"idle", "start"} /\ ~Judged(g) /\ ~repo[g].open /\ disk[g] = <<>>
    BY <1>4, <1>5 DEF Flow, NothingYet, EndedOnce, OpenUntilJudged
  <1>7. ~Has(toR', g, {"Create_File"})
    <2> SUFFICES ASSUME NEW i \in DOMAIN toR', Of(toR'[i], g, {"Create_File"}) PROVE FALSE
      BY DEF Has
    <2>1. i + 1 \in DOMAIN toR /\ 1 < i + 1 /\ Of(toR[i + 1], g, RTypes)
          /\ toR[i + 1].type = "Create_File"
      BY <1>2 DEF Of, RTypes
    <2> QED
      BY <1>2, <1>3, <2>1 DEF Flow, InFlight, InOrder
  <1>8. \A i \in DOMAIN toR : ~Block(toR[i], g)
    BY <1>5 DEF BlocksWanted, Block, Of
  <1>9. \A i \in DOMAIN toR' : ~Block(toR'[i], g)
    BY <1>2, <1>8
  <1>10. PICK opened, removed \in BOOLEAN :
            /\ repo' = [repo EXCEPT ![g] = IF opened THEN AcceptedRepository(g, Head(toR).a) ELSE @]
            /\ disk' = [disk EXCEPT ![g] = IF opened THEN Truncated(g)
                                           ELSE IF removed THEN <<>> ELSE @]
            /\ toS' = SendData(toS, Msg("Can_Continue_Send", g, opened, 0, 0))
    BY DEF AcceptFile
  <1>11. disk'[g] = <<>>
    BY <1>1, <1>6, <1>10 DEF Truncated
  <1>12. repo[g].finish = 0
    <2>1. Len(disk[g]) = 0
      BY <1>6
    <2> QED
      BY <2>1, BytesType DEF Flow, OnDisk
  <1>13. repo'[g].finish = 0 /\ (repo'[g].box => repo'[g].open) /\ (~repo'[g].box => ~repo'[g].open)
    <2>1. CASE opened
      <3>1. repo'[g] = AcceptedRepository(g, Head(toR).a)
        BY <1>1, <1>10, <2>1
      <3> QED
        BY <1>5, <3>1 DEF AcceptedRepository
    <2>2. CASE ~opened
      <3>1. repo'[g] = repo[g]
        BY <1>1, <1>10, <2>2
      <3> QED
        BY <1>5, <1>6, <1>12, <3>1
    <2> QED
      BY <2>1, <2>2
  <1>14. UNCHANGED <<up, pc, des, src, pack, mixed, doneR, doneS>> /\ Sent(g)' = Sent(g)
    BY DEF AcceptFile, runVars, sendVars, userVars, Sent
  <1>15. PICK m : m = Msg("Can_Continue_Send", g, opened, 0, 0)
    OBVIOUS
  <1>16. m \in MessageS /\ ~Of(m, g, Results) /\ ~Of(m, g, {"Succese_Recieve_File"})
         /\ ~Of(m, g, {"Failure_Recieve_File"})
    <2>1. m \in MessageS
      BY <1>15, MsgS DEF STypes
    <2>2. m.type = "Can_Continue_Send"
      BY <1>15 DEF Msg
    <2> QED
      BY <2>1, <2>2 DEF Of, Results
  <1>17. toS' = toS \/ toS' = Append(toS, m)
    BY <1>10, <1>15 DEF SendData
  <1>18. /\ Has(toS', g, Results) => Has(toS, g, Results)
         /\ Has(toS', g, {"Succese_Recieve_File"}) => Has(toS, g, {"Succese_Recieve_File"})
         /\ Has(toS', g, {"Failure_Recieve_File"}) => Has(toS, g, {"Failure_Recieve_File"})
    BY <1>1, <1>16, <1>17, AppendHas
  <1>19. One(toS', g, Answers) /\ One(toS', g, Results)
    <2>1. One(toS, g, Answers) /\ One(toS, g, Results)
      BY DEF Flow, AskedOnce, ToldRight
    <2> QED
      BY <1>1, <1>5, <1>16, <1>17, <2>1, AppendOne
  <1>20. Has(toR', g, {"End_Send_File"}) => Has(toR, g, {"End_Send_File"})
    BY <1>2, FrameHas DEF RTypes
  <1>21. NothingYet(g)' /\ AskedOnce(g)' /\ GuidFirst(g)' /\ PackedRight(g)'
    BY <1>5, <1>6, <1>7, <1>14, <1>19
    DEF Flow, NothingYet, AskedOnce, GuidFirst, PackedRight
  <1>22. EndedOnce(g)' /\ DigestRight(g)'
    <2>1. \A i \in DOMAIN toR' : Of(toR'[i], g, {"End_Send_File"}) => \E j \in DOMAIN toR : toR'[i] = toR[j]
      BY <1>2
    <2> QED
      BY <1>6, <1>14, <1>20, <2>1, SameEnds DEF Flow, EndedOnce, Judged
  <1>23. OpenUntilJudged(g)' /\ VerdictRight(g)'
    BY <1>6, <1>11, <1>13, <1>14 DEF Flow, OpenUntilJudged, VerdictRight, Judged, Verdicts
  <1>24. InFlight(g)'
    <2>1. InOrder(toR', g) /\ AsRead(toR', g, Sent(g))
      <3>1. toR' \in Seq(MessageR)
        BY DEF TypeOK, ChannelTypes
      <3>2. InOrder(toR, g) /\ AsRead(toR, g, Sent(g))
        BY DEF Flow, InFlight
      <3> QED
        BY <1>2, <3>1, <3>2, FrameInOrder, FrameAsRead
    <2>2. Linked(toR', g, Len(disk'[g]))
      BY <1>9 DEF Linked
    <2> QED
      BY <1>14, <2>1, <2>2 DEF InFlight
  <1>25. OnDisk(g)'
    BY <1>6, <1>11, <1>12, <1>13, <1>14 DEF Flow, OnDisk
  <1>26. ReadSoFar(g)'
    <2>1. LastKnown(toR, g, Sent(g), Len(disk[g])) => Sent(g) = Len(disk[g])
      BY <1>8 DEF LastKnown
    <2> QED
      BY <1>6, <1>11, <1>14, <2>1 DEF Flow, ReadSoFar, LastKnown
  <1>27. ToldRight(g)'
    BY <1>14, <1>18, <1>19, <1>20 DEF Flow, ToldRight, Judged
  <1> QED
    BY <1>21, <1>22, <1>23, <1>24, <1>25, <1>26, <1>27 DEF Flow

\* The receiver's verdict ends the flow.
LEMMA RecieveEndFlow ==
    ASSUME TypeOK, TypeOK', NEW g \in Guid, Flow(g), RecieveEnd(g)
    PROVE  Flow(g)'
  <1>1. toR \in Seq(MessageR) /\ toS \in Seq(MessageS) /\ toR # <<>> /\ toR' = Tail(toR)
        /\ repo \in [Guid -> Repository] /\ doneR \in [Guid -> SUBSET Reported]
    BY ViewTypes DEF RecieveEnd, HeadIs, Functions
  <1>2. /\ Head(toR) = toR[1] /\ 1 \in DOMAIN toR
        /\ \A i \in DOMAIN toR : i = 1 \/ i > 1
        /\ \A i \in DOMAIN toR' : i + 1 \in DOMAIN toR /\ i + 1 > 1 /\ toR'[i] = toR[i + 1]
    BY <1>1, TailPassed
  <1>3. Of(toR[1], g, {"End_Send_File"}) /\ Of(toR[1], g, RTypes) /\ toR[1].type = "End_Send_File"
    BY <1>2 DEF RecieveEnd, HeadIs, Of, RTypes
  <1>4. Has(toR, g, {"End_Send_File"})
    BY <1>2, <1>3 DEF Has
  <1>5. pc[g][1] = "done" /\ ~Judged(g)
    BY <1>4 DEF Flow, EndedOnce
  <1>6. \A i \in DOMAIN toR : i > 1 => ~Of(toR[i], g, RTypes)
    BY <1>2, <1>3 DEF Flow, InFlight, InOrder
  <1>7. ~Has(toR', g, RTypes)
    BY <1>2, <1>6 DEF Has
  <1>8. \A i \in DOMAIN toR : ~Block(toR[i], g)
    BY <1>2, <1>3, <1>6 DEF Block, Of, RTypes
  <1>9. UNCHANGED <<up, pc, des, src, pack, mixed, disk, doneS>> /\ Sent(g)' = Sent(g)
    BY DEF RecieveEnd, runVars, sendVars, Sent
  <1>10. repo'[g].box = repo[g].box /\ repo'[g].finish = repo[g].finish /\ (~repo[g].open => ~repo'[g].open)
    <2>1. PICK o : o \in {repo[g].open, FALSE} /\ repo' = [repo EXCEPT ![g].open = o]
      BY DEF RecieveEnd
    <2>2. repo'[g] = [repo[g] EXCEPT !.open = o]
      BY <1>1, <2>1
    <2>3. repo[g] \in Repository
      BY <1>1
    <2> QED
      BY <2>1, <2>2, <2>3 DEF Repository
  <1>11. PICK v \in Verdicts, m \in MessageS :
            /\ doneR'[g] = doneR[g] \cup {v}
            /\ toS' = SendData(toS, m) /\ m.guid = g
            /\ v = "SUCCESS" => /\ ~mixed[g][1] => disk[g] = FileBlocks(g)
                               /\ m.type = "Succese_Recieve_File"
            /\ v = "FAILURE" => m.type = "Failure_Recieve_File"
    <2>1. Head(toR).rok \in BOOLEAN
      BY HeadIsR DEF RecieveEnd
    <2>2. PICK same \in BOOLEAN :
             /\ Compared(g, Head(toR), same)
             /\ toS' = SendData(toS, Msg(IF same THEN "Succese_Recieve_File"
                                       ELSE "Failure_Recieve_File", g, Head(toR).rok, 0, 0))
             /\ doneR' = [doneR EXCEPT ![g] = @ \cup {IF same THEN "SUCCESS" ELSE "FAILURE"}]
      BY DEF RecieveEnd
    <2>3. CASE same
      <3>1. PICK m : m = Msg("Succese_Recieve_File", g, Head(toR).rok, 0, 0)
        OBVIOUS
      <3>2. m \in MessageS /\ m.guid = g /\ m.type = "Succese_Recieve_File"
        BY <2>1, <3>1, MsgS DEF STypes, Msg
      <3>3. doneR'[g] = doneR[g] \cup {"SUCCESS"}
        BY <1>1, <2>2, <2>3
      <3>4. ~mixed[g][1] => disk[g] = FileBlocks(g)
        <4>1. ~mixed[g][1] => Head(toR).a = OwnDigest
          BY <1>2, <1>3 DEF Flow, DigestRight
        <4> QED
          BY <2>2, <2>3, <4>1 DEF Compared, SameFile
      <3>5. toS' = SendData(toS, m) /\ "SUCCESS" \in Verdicts /\ "SUCCESS" # "FAILURE"
        BY <2>2, <2>3, <3>1 DEF Verdicts
      <3> QED
        BY <3>2, <3>3, <3>4, <3>5
    <2>4. CASE ~same
      <3>1. PICK m : m = Msg("Failure_Recieve_File", g, Head(toR).rok, 0, 0)
        OBVIOUS
      <3>2. m \in MessageS /\ m.guid = g /\ m.type = "Failure_Recieve_File"
        BY <2>1, <3>1, MsgS DEF STypes, Msg
      <3>3. doneR'[g] = doneR[g] \cup {"FAILURE"}
        BY <1>1, <2>2, <2>4
      <3>4. toS' = SendData(toS, m) /\ "FAILURE" \in Verdicts /\ "SUCCESS" # "FAILURE"
        BY <2>2, <2>4, <3>1 DEF Verdicts
      <3> QED
        BY <3>2, <3>3, <3>4
    <2> QED
      BY <2>3, <2>4
  <1>12. "SUCCESS" \notin doneR[g] /\ "FAILURE" \notin doneR[g] /\ Judged(g)'
    BY <1>5, <1>11 DEF Judged, Verdicts
  <1>13. /\ ~Has(toS, g, {"Succese_Recieve_File"}) /\ ~Has(toS, g, {"Failure_Recieve_File"})
         /\ "SUCCESS" \notin doneS[g] /\ "FAILURE" \notin doneS[g]
    BY <1>4, <1>12 DEF Flow, ToldRight
  <1>14. ~Has(toS, g, Results)
    BY <1>13 DEF Has, Of, Results
  <1>15. toS' = toS \/ toS' = Append(toS, m)
    BY <1>11 DEF SendData
  <1>16. m.type \in Results /\ m.type \notin Answers
    BY <1>11 DEF Verdicts, Results, Answers
  <1>17. \A U : Has(toS', g, U) => Has(toS, g, U) \/ Of(m, g, U)
    <2>1. CASE toS' = toS
      BY <2>1
    <2>2. CASE toS' = Append(toS, m)
      BY <1>1, <2>2, AppendHas
    <2> QED
      BY <1>15, <2>1, <2>2
  <1>18. Has(toS', g, Answers) => Has(toS, g, Answers)
    BY <1>16, <1>17 DEF Of
  <1>19. One(toS', g, Answers) /\ One(toS', g, Results)
    <2>1. One(toS, g, Answers) /\ One(toS, g, Results)
      BY DEF Flow, AskedOnce, ToldRight
    <2>2. ~Of(m, g, Answers)
      BY <1>16 DEF Of
    <2> QED
      BY <1>1, <1>11, <1>14, <1>15, <2>1, <2>2, AppendOne
  <1>20. ~Has(toR', g, {"Create_File"}) /\ ~Has(toR', g, {"End_Send_File"})
    BY <1>7, NoneInFlight DEF RTypes
  <1>21. NothingYet(g)' /\ AskedOnce(g)' /\ GuidFirst(g)' /\ PackedRight(g)'
    BY <1>5, <1>9, <1>10, <1>18, <1>19, <1>20
    DEF Flow, NothingYet, AskedOnce, GuidFirst, PackedRight
  <1>22. EndedOnce(g)' /\ DigestRight(g)'
    <2>1. \A i \in DOMAIN toR' : ~Of(toR'[i], g, {"End_Send_File"})
      BY <1>20 DEF Has
    <2> QED
      BY <1>5, <1>7, <1>9, <1>20, <2>1, NoEnds DEF EndedOnce
  <1>23. OpenUntilJudged(g)' /\ OnDisk(g)'
    BY <1>9, <1>10, <1>12 DEF Flow, OpenUntilJudged, OnDisk
  <1>24. InFlight(g)'
    BY <1>7, NoneInFlight DEF InFlight
  <1>25. ReadSoFar(g)'
    <2>1. LastKnown(toR, g, Sent(g), Len(disk[g])) => Sent(g) = Len(disk[g])
      BY <1>8 DEF LastKnown
    <2> QED
      BY <1>9, <2>1 DEF Flow, ReadSoFar, LastKnown
  <1>26. VerdictRight(g)'
    BY <1>9, <1>11, <1>12 DEF VerdictRight, Verdicts
  <1>27. ToldRight(g)'
    <2>1. doneS'[g] \cap Verdicts = {}
      BY <1>9, <1>13 DEF Verdicts
    <2>2. Has(toS', g, {"Succese_Recieve_File"}) => "SUCCESS" \in doneR'[g]
      BY <1>11, <1>13, <1>17 DEF Of, Verdicts
    <2>3. Has(toS', g, {"Failure_Recieve_File"}) => "FAILURE" \in doneR'[g]
      BY <1>11, <1>13, <1>17 DEF Of, Verdicts
    <2> QED
      BY <1>9, <1>13, <1>19, <2>1, <2>2, <2>3 DEF ToldRight
  <1> QED
    BY <1>21, <1>22, <1>23, <1>24, <1>25, <1>26, <1>27 DEF Flow

\* The file with the block after its last one.
LEMMA Extended ==
    ASSUME NEW s \in Seq(Nat), NEW n \in Nat, s = [i \in 1..n |-> i], Len(s) = n
    PROVE  Append(s, n + 1) = [i \in 1..(n + 1) |-> i]
  <1>1. PICK u : u = Append(s, n + 1)
    OBVIOUS
  <1>2. u \in Seq(Nat) /\ Len(u) = n + 1
    BY <1>1
  <1>3. u \in [1..(n + 1) -> Nat]
    BY <1>2
  <1>4. \A i \in 1..(n + 1) : u[i] = i
    <2>1. \A i \in 1..n : u[i] = s[i] /\ s[i] = i
      BY <1>1
    <2>2. u[n + 1] = n + 1
      BY <1>1
    <2>3. \A i \in 1..(n + 1) : i \in 1..n \/ i = n + 1
      OBVIOUS
    <2> QED
      BY <2>1, <2>2, <2>3
  <1> QED
    BY <1>1, <1>3, <1>4

\* A block that arrives is the next one of the file.
LEMMA RecieveBlockFlow ==
    ASSUME TypeOK, TypeOK', BlocksWanted, NEW g \in Guid, Flow(g), RecieveBlock(g)
    PROVE  Flow(g)'
  <1> DEFINE n == Len(disk[g])
             p == Sent(g)
  <1>1. /\ toR \in Seq(MessageR) /\ toS \in Seq(MessageS) /\ toR' \in Seq(MessageR)
        /\ toS' \in Seq(MessageS) /\ toR # <<>> /\ toR' = Tail(toR)
        /\ repo \in [Guid -> Repository] /\ disk \in [Guid -> Seq(Nat)]
        /\ n \in Nat /\ p \in Nat /\ repo[g].finish \in Nat
        /\ \A i \in DOMAIN toR : toR[i].a \in Nat
    <2>1. p \in Nat
      BY ViewTypes DEF Flow, PackedRight, Sent
    <2> QED
      BY <2>1, ViewTypes DEF RecieveBlock, HeadIs, Functions, TypeOK, ChannelTypes
  <1> HIDE DEF n, p
  <1>2. /\ Passed(toR', toR, g, RTypes, 1)
        /\ Head(toR) = toR[1] /\ 1 \in DOMAIN toR
        /\ \A i \in DOMAIN toR : i = 1 \/ (i > 1 /\ i - 1 \in DOMAIN toR' /\ toR'[i - 1] = toR[i])
        /\ \A i \in DOMAIN toR' : i + 1 \in DOMAIN toR /\ i + 1 > 1 /\ toR'[i] = toR[i + 1]
    BY <1>1, TailPassed
  <1>3. PICK m : m = toR[1]
    OBVIOUS
  <1>4. Block(m, g) /\ Of(m, g, RTypes) /\ m.type = "Send_File" /\ m.guid = g
    BY <1>2, <1>3 DEF RecieveBlock, HeadIs, Block, Of, RTypes
  <1>5. InOrder(toR, g) /\ Linked(toR, g, n) /\ AsRead(toR, g, p)
    BY DEF Flow, InFlight, n, p
  <1>6. m.rok /\ m.a = n + 1 /\ n + 1 <= p /\ n * BlockSize <= FileSize[g]
        /\ m.b = Bytes(g, n + 1) - Bytes(g, n)
    <2>1. m.a = n + 1
      <3>1. \A j \in DOMAIN toR : ~(j < 1)
        BY <1>1
      <3> QED
        BY <1>2, <1>3, <1>4, <1>5, <3>1 DEF Linked
    <2>2. m.rok /\ m.a \in 1..p /\ (m.a - 1) * BlockSize <= FileSize[g]
          /\ m.b = Bytes(g, m.a) - Bytes(g, m.a - 1)
      BY <1>2, <1>3, <1>4, <1>5 DEF AsRead
    <2>3. m.a - 1 = n /\ n + 1 <= p
      BY <1>1, <2>1, <2>2
    <2> QED
      BY <2>1, <2>2, <2>3
  <1>7. Has(toR, g, RTypes)
    BY <1>2, <1>3, <1>4 DEF Has
  <1>8. ~Judged(g) /\ repo[g].box /\ repo[g].open
    <2>1. ~Judged(g)
      BY <1>7 DEF Flow, EndedOnce
    <2>2. repo[g].box
      BY <1>2, <1>3, <1>4 DEF BlocksWanted
    <2> QED
      BY <2>1, <2>2 DEF Flow, OpenUntilJudged
  <1>9. m.b \in Nat /\ Bytes(g, n + 1) = Bytes(g, n) + m.b
        /\ (m.b > 0 => n + 1 <= NBlocks(g)) /\ (~(m.b > 0) => n * BlockSize = FileSize[g])
    BY <1>1, <1>6, NextBytes
  <1>10. UNCHANGED <<up, pc, des, src, pack, mixed, doneR, doneS>> /\ Sent(g)' = Sent(g)
    BY DEF RecieveBlock, runVars, sendVars, userVars, Sent
  <1>11. repo'[g].box = repo[g].box /\ repo'[g].open = repo[g].open
         /\ repo'[g].finish = repo[g].finish + m.b
    <2>1. PICK r : r = [repo[g] EXCEPT !.finish = repo[g].finish + m.b]
      OBVIOUS
    <2>2. repo[g] \in Repository /\ repo[g].finish + m.b \in Nat
      <3>1. repo[g] \in Repository /\ repo[g].finish \in Nat /\ m.b \in Nat
        BY <1>1, <1>9
      <3> QED
        BY <3>1
    <2>3. r.box = repo[g].box /\ r.open = repo[g].open /\ r.finish = repo[g].finish + m.b
          /\ r \in Repository
      BY <2>1, <2>2 DEF Repository
    <2>4. PushBack(g, m.b) = r
      BY <1>8, <2>1 DEF PushBack
    <2>5. repo' = [repo EXCEPT ![g] = IF ProgressDue(r) THEN Acknowledged(r) ELSE r]
      BY <1>2, <1>3, <1>6, <2>4 DEF RecieveBlock
    <2>6. repo'[g] \in {r, Acknowledged(r)}
      BY <1>1, <2>5
    <2>7. Acknowledged(r).box = r.box /\ Acknowledged(r).open = r.open /\ Acknowledged(r).finish = r.finish
      BY <2>3 DEF Acknowledged, Repository
    <2> QED
      BY <2>3, <2>6, <2>7
  <1>12. disk'[g] = IF m.b > 0 THEN Append(disk[g], n + 1) ELSE disk[g]
    <2>1. disk'[g] = Written(g, m.a, m.b)
      BY <1>1, <1>2, <1>3, <1>6 DEF RecieveBlock
    <2> QED
      BY <1>6, <1>8, <2>1 DEF Written
  <1>13. Untouched(toS', toS, g)
    <2>1. toS' = toS \/ \E x, y : toS' = SendData(toS, Msg("Shake_Pack", g, TRUE, x, y))
      BY DEF RecieveBlock
    <2> QED
      BY <2>1, OtherMessages, TaskTypesAside DEF Untouched
  <1>14. PICK e \in {0, 1} : Passed(toS', toS, g, Answers \cup Results, e)
    BY <1>1, <1>13, UntouchedFrame DEF FrameS
  <1>15. /\ Has(toS', g, Answers) => Has(toS, g, Answers)
         /\ Has(toS', g, Results) => Has(toS, g, Results)
         /\ Has(toS', g, {"Succese_Recieve_File"}) => Has(toS, g, {"Succese_Recieve_File"})
         /\ Has(toS', g, {"Failure_Recieve_File"}) => Has(toS, g, {"Failure_Recieve_File"})
    <2>1. \A U : U \subseteq Answers \cup Results /\ Has(toS', g, U) => Has(toS, g, U)
      BY <1>14, FrameHas
    <2>2. {"Succese_Recieve_File"} \subseteq Answers \cup Results
          /\ {"Failure_Recieve_File"} \subseteq Answers \cup Results
      BY DEF Results
    <2> QED
      BY <2>1, <2>2
  <1>16. One(toS', g, Answers) /\ One(toS', g, Results)
    <2>1. One(toS, g, Answers) /\ One(toS, g, Results)
      BY DEF Flow, AskedOnce, ToldRight
    <2>2. e \in Nat
      OBVIOUS
    <2>3. One(toS', g, Answers)
      BY <1>1, <1>14, <2>1, <2>2, FrameOne
    <2>4. One(toS', g, Results)
      BY <1>1, <1>14, <2>1, <2>2, FrameOne
    <2> QED
      BY <2>3, <2>4
  <1>17. /\ Has(toR', g, RTypes) => Has(toR, g, RTypes)
         /\ Has(toR', g, {"Create_File"}) => Has(toR, g, {"Create_File"})
         /\ Has(toR', g, {"End_Send_File"}) => Has(toR, g, {"End_Send_File"})
    BY <1>2, FrameHas DEF RTypes
  <1>18. NothingYet(g)' /\ AskedOnce(g)' /\ GuidFirst(g)' /\ PackedRight(g)'
    BY <1>10, <1>11, <1>15, <1>16, <1>17 DEF Flow, NothingYet, AskedOnce, GuidFirst, PackedRight
  <1>19. EndedOnce(g)' /\ DigestRight(g)'
    <2>1. \A i \in DOMAIN toR' : \E j \in DOMAIN toR : toR'[i] = toR[j]
      BY <1>2
    <2> QED
      BY <1>10, <1>17, <2>1, SameEnds DEF Flow, EndedOnce, Judged
  <1>20. OpenUntilJudged(g)'
    BY <1>8, <1>11 DEF OpenUntilJudged
  <1>21. VerdictRight(g)'
    <2>1. "SUCCESS" \notin doneR[g]
      BY <1>8 DEF Judged, Verdicts
    <2> QED
      BY <1>10, <2>1 DEF Flow, VerdictRight
  <1>22. ToldRight(g)'
    BY <1>10, <1>15, <1>16, <1>17 DEF Flow, ToldRight, Judged
  <1>23. InOrder(toR', g) /\ AsRead(toR', g, p)
    BY <1>1, <1>2, <1>5, FrameInOrder, FrameAsRead
  <1>24. \A i \in DOMAIN toR' : Block(toR'[i], g) => toR'[i].a > n + 1
    <2>1. \A i \in DOMAIN toR : i > 1 /\ Block(toR[i], g) => m.a < toR[i].a
      BY <1>2, <1>3, <1>4, <1>5 DEF InOrder, Block, Of
    <2> QED
      BY <1>1, <1>2, <1>6, <2>1
  <1>25. CASE m.b > 0
    <2>1. disk'[g] = Append(disk[g], n + 1) /\ disk[g] = [i \in 1..n |-> i]
          /\ repo[g].finish = Bytes(g, n)
      BY <1>12, <1>25 DEF Flow, OnDisk, n
    <2>2. Len(disk'[g]) = n + 1
      BY <1>1, <2>1 DEF n
    <2>3. disk'[g] = [i \in 1..(n + 1) |-> i]
      <3>1. disk[g] \in Seq(Nat) /\ Len(disk[g]) = n
        BY <1>1 DEF n
      <3> QED
        BY <1>1, <2>1, <3>1, Extended
    <2>4. OnDisk(g)'
      <3>1. repo'[g].finish = Bytes(g, n + 1)
        BY <1>9, <1>11, <2>1
      <3> QED
        BY <1>6, <1>9, <1>10, <1>25, <2>2, <2>3, <3>1 DEF OnDisk, p, NBlocks
    <2>5. Linked(toR', g, n + 1)
      <3> SUFFICES ASSUME NEW i \in DOMAIN toR', Block(toR'[i], g), toR'[i].a # n + 2
                   PROVE  \E j \in DOMAIN toR' : j < i /\ Block(toR'[j], g) /\ toR'[j].a + 1 = toR'[i].a
        BY <1>1 DEF Linked
      <3>1. i + 1 \in DOMAIN toR /\ toR'[i] = toR[i + 1] /\ toR'[i].a > n + 1
        BY <1>2, <1>24
      <3>2. PICK j \in DOMAIN toR : j < i + 1 /\ Block(toR[j], g) /\ toR[j].a + 1 = toR'[i].a
        <4>1. toR[i + 1].a # n + 1
          <5>1. n \in Nat /\ toR[i + 1].a \in Nat
            BY <1>1, <3>1
          <5> QED
            BY <3>1, <5>1
        <4>2. Block(toR[i + 1], g)
          BY <3>1
        <4> QED
          BY <1>5, <3>1, <4>1, <4>2 DEF Linked
      <3>3. j # 1
        <4>1. n \in Nat /\ (n + 1) + 1 = n + 2
          BY <1>1
        <4> QED
          BY <1>3, <1>6, <3>2, <4>1
      <3>4. j - 1 \in DOMAIN toR' /\ toR'[j - 1] = toR[j]
        BY <1>2, <3>3
      <3>5. j - 1 < i
        <4>1. toR \in Seq(MessageR) /\ toR' \in Seq(MessageR)
          BY <1>1
        <4>2. j \in Nat
          BY <4>1
        <4>3. i \in Nat
          BY <4>1
        <4> QED
          BY <3>2, <4>2, <4>3
      <3> QED
        BY <3>2, <3>4, <3>5
    <2>6. InFlight(g)'
      BY <1>10, <1>23, <2>2, <2>5 DEF InFlight, p
    <2>7. ReadSoFar(g)'
      <3>1. LastKnown(toR, g, p, n) => LastKnown(toR', g, p, n + 1)
        <4> SUFFICES ASSUME LastKnown(toR, g, p, n), p # n + 1
                     PROVE  \E i \in DOMAIN toR' : Block(toR'[i], g) /\ toR'[i].a = p
          BY DEF LastKnown
        <4>1. p # n
          BY <1>1, <1>6
        <4>2. PICK i \in DOMAIN toR : Block(toR[i], g) /\ toR[i].a = p
          BY <4>1 DEF LastKnown
        <4>3. i # 1
          BY <1>3, <1>6, <4>2
        <4> QED
          BY <1>2, <4>2, <4>3
      <3> QED
        BY <1>10, <2>2, <3>1 DEF Flow, ReadSoFar, n, p
    <2> QED
      BY <1>18, <1>19, <1>20, <1>21, <1>22, <2>4, <2>6, <2>7 DEF Flow
  <1>26. CASE ~(m.b > 0)
    <2>1. m.b = 0 /\ n * BlockSize = FileSize[g]
      BY <1>9, <1>26
    <2>2. disk'[g] = disk[g] /\ repo'[g].finish = repo[g].finish
      BY <1>1, <1>11, <1>12, <1>26, <2>1
    <2>3. OnDisk(g)'
      BY <1>10, <2>2 DEF Flow, OnDisk
    <2>4. \A i \in DOMAIN toR' : ~Block(toR'[i], g)
      <3> SUFFICES ASSUME NEW i \in DOMAIN toR', Block(toR'[i], g) PROVE FALSE
        OBVIOUS
      <3>1. PICK x : x = toR'[i].a
        OBVIOUS
      <3>2. x > n + 1 /\ (x - 1) * BlockSize <= FileSize[g] /\ x \in 1..p
        BY <1>23, <1>24, <3>1 DEF AsRead
      <3>3. x - 1 \in Nat /\ n < x - 1
        BY <1>1, <3>2
      <3> QED
        BY <1>1, <2>1, <3>2, <3>3, EndOfFile
    <2>5. InFlight(g)'
      <3>1. Linked(toR', g, n)
        BY <2>4 DEF Linked
      <3> QED
        BY <1>10, <1>23, <2>2, <3>1 DEF InFlight, n, p
    <2>6. ReadSoFar(g)'
      <3>1. ~(p * BlockSize <= FileSize[g])
        <4>1. n < p
          BY <1>1, <1>6
        <4> QED
          BY <1>1, <2>1, <4>1, EndOfFile
      <3>2. pc[g][1] # "send" /\ src[g].eof
        <4>1. pc[g][1] # "send"
          BY <3>1 DEF Flow, PackedRight, Sent, p
        <4> QED
          BY <3>1, <4>1 DEF Flow, ReadSoFar, Sent, p
      <3> QED
        BY <1>10, <3>2 DEF ReadSoFar
    <2> QED
      BY <1>18, <1>19, <1>20, <1>21, <1>22, <2>3, <2>5, <2>6 DEF Flow
  <1> QED
    BY <1>25, <1>26

\* What S has taken the head of is still there, but for the head.
LEMMA TakenS ==
    ASSUME TypeOK, TypeOK', NEW g \in Guid, toS # <<>>, toS' = Tail(toS)
    PROVE  /\ \A U : U \subseteq Answers \cup Results /\ Has(toS', g, U) => Has(toS, g, U)
           /\ One(toS, g, Answers) => One(toS', g, Answers)
           /\ One(toS, g, Results) => One(toS', g, Results)
           /\ One(toS, g, Answers) /\ Of(Head(toS), g, Answers) => ~Has(toS', g, Answers)
           /\ One(toS, g, Results) /\ Of(Head(toS), g, Results) => ~Has(toS', g, Results)
           /\ \A U : Of(Head(toS), g, U) => Has(toS, g, U)
  <1>1. toS \in Seq(MessageS) /\ toS' \in Seq(MessageS)
    BY DEF TypeOK, ChannelTypes
  <1>2. Passed(toS', toS, g, Answers \cup Results, 1) /\ Head(toS) = toS[1] /\ 1 \in DOMAIN toS
    BY <1>1, TailPassed
  <1>3. \A U : U \subseteq Answers \cup Results /\ Has(toS', g, U) => Has(toS, g, U)
    BY <1>2, FrameHas
  <1>4. One(toS, g, Answers) => One(toS', g, Answers)
    BY <1>1, <1>2, FrameOne
  <1>5. One(toS, g, Results) => One(toS', g, Results)
    BY <1>1, <1>2, FrameOne
  <1>6. One(toS, g, Answers) /\ Of(Head(toS), g, Answers) => ~Has(toS', g, Answers)
    BY <1>1, TailNone
  <1>7. One(toS, g, Results) /\ Of(Head(toS), g, Results) => ~Has(toS', g, Results)
    BY <1>1, TailNone
  <1>8. \A U : Of(Head(toS), g, U) => Has(toS, g, U)
    BY <1>2 DEF Has
  <1> QED
    BY <1>3, <1>4, <1>5, <1>6, <1>7, <1>8

\* The sender's object learns the receiver's guid, and Run is woken.
LEMMA CanSendFileFlow ==
    ASSUME TypeOK, TypeOK', NEW g \in Guid, Flow(g), CanSendFile(g)
    PROVE  Flow(g)'
  <1>1. toS # <<>> /\ toS' = Tail(toS) /\ Of(Head(toS), g, Answers)
    BY DEF CanSendFile, HeadIs, Of, Answers
  <1>2. Has(toS, g, Answers)
    BY <1>1, TakenS
  <1>3. ~des[g][1] /\ ~Has(toR, g, {"Create_File"}) /\ pc[g][1] \notin {"idle", "start"}
    BY <1>2 DEF Flow, AskedOnce, NothingYet
  <1>4. pc[g][1] \notin Sending /\ ~(src[g].pos > 0)
    BY <1>3 DEF Flow, GuidFirst
  <1>5. SameRun(g)
    BY WokenRun, StandingRun DEF CanSendFile, ResumeChildThread, Resume, sendVars
  <1>6. UNCHANGED <<up, toR, src, pack, mixed, repo, disk, doneR, doneS>>
    BY DEF CanSendFile, sendVars, recvVars, userVars
  <1>7. pc'[g][1] \notin {"idle", "start"} /\ pc'[g][1] \notin Sending
        /\ (pc[g][1] = "done" => pc'[g][1] = "done")
        /\ pc[g][1] # "send" /\ pc'[g][1] # "send"
    BY <1>3, <1>4, <1>5 DEF SameRun, Sending, Turn
  <1>8. ~Has(toS', g, Answers) /\ One(toS', g, Answers) /\ One(toS', g, Results)
    BY <1>1, TakenS DEF Flow, AskedOnce, ToldRight
  <1>9. /\ Has(toS', g, Results) => Has(toS, g, Results)
        /\ Has(toS', g, {"Succese_Recieve_File"}) => Has(toS, g, {"Succese_Recieve_File"})
        /\ Has(toS', g, {"Failure_Recieve_File"}) => Has(toS, g, {"Failure_Recieve_File"})
    <2>1. {"Succese_Recieve_File"} \subseteq Answers \cup Results
          /\ {"Failure_Recieve_File"} \subseteq Answers \cup Results
      BY DEF Results
    <2> QED
      BY <1>1, <2>1, TakenS
  <1>10. NothingYet(g)' /\ AskedOnce(g)'
    BY <1>3, <1>6, <1>7, <1>8 DEF NothingYet, AskedOnce
  <1>11. GuidFirst(g)'
    BY <1>4, <1>6, <1>7 DEF GuidFirst
  <1>12. EndedOnce(g)' /\ DigestRight(g)' /\ PackedRight(g)'
    BY <1>6, <1>7 DEF Flow, EndedOnce, DigestRight, PackedRight, Judged
  <1>13. OpenUntilJudged(g)' /\ InFlight(g)' /\ OnDisk(g)' /\ ReadSoFar(g)' /\ VerdictRight(g)'
    <2>1. Sent(g)' = Sent(g)
      BY <1>6, <1>7 DEF Sent
    <2> QED
      BY <1>6, <1>7, <2>1 DEF Flow, OpenUntilJudged, InFlight, OnDisk, ReadSoFar, VerdictRight, Judged
  <1>14. ToldRight(g)'
    BY <1>6, <1>8, <1>9 DEF Flow, ToldRight, Judged
  <1> QED
    BY <1>10, <1>11, <1>12, <1>13, <1>14 DEF Flow

\* The sender's user is told the receiver's verdict.
LEMMA SendFileResultFlow ==
    ASSUME TypeOK, TypeOK', NEW g \in Guid, Flow(g), SendFileResult(g)
    PROVE  Flow(g)'
  <1>1. toS # <<>> /\ toS' = Tail(toS) /\ Of(Head(toS), g, Results)
    BY DEF SendFileResult, HeadIs, Of, Results
  <1>2. Has(toS, g, Results) /\ ~Has(toS', g, Results)
    BY <1>1, TakenS DEF Flow, ToldRight
  <1>3. UNCHANGED <<up, toR, pc, des, src, pack, mixed, repo, disk, doneR>> /\ Sent(g)' = Sent(g)
    BY DEF SendFileResult, runVars, sendVars, recvVars, Sent
  <1>4. /\ Has(toS', g, Answers) => Has(toS, g, Answers)
        /\ One(toS', g, Answers) /\ One(toS', g, Results)
    BY <1>1, TakenS DEF Flow, AskedOnce, ToldRight
  <1>5. ~Has(toS', g, {"Succese_Recieve_File"}) /\ ~Has(toS', g, {"Failure_Recieve_File"})
    BY <1>2 DEF Has, Of, Results
  <1>6. NothingYet(g)' /\ AskedOnce(g)'
    BY <1>3, <1>4 DEF Flow, NothingYet, AskedOnce
  <1>7. /\ GuidFirst(g)' /\ PackedRight(g)' /\ EndedOnce(g)' /\ DigestRight(g)'
        /\ OpenUntilJudged(g)' /\ InFlight(g)' /\ OnDisk(g)'
    BY <1>3
    DEF Flow, GuidFirst, PackedRight, EndedOnce, DigestRight, OpenUntilJudged, InFlight, OnDisk, Judged
  <1>8. ReadSoFar(g)' /\ VerdictRight(g)'
    BY <1>3 DEF Flow, ReadSoFar, VerdictRight
  <1>9. ToldRight(g)'
    <2>1. doneS[g] \cap Verdicts = {} /\ "SUCCESS" \notin doneS[g] /\ "FAILURE" \notin doneS[g]
      BY <1>2 DEF Flow, ToldRight, Verdicts
    <2>2. doneS \in [Guid -> SUBSET Reported]
      BY DEF TypeOK, UserTypes
    <2>3. CASE HeadIs(toS, "Succese_Recieve_File", g)
      <3>1. doneS'[g] = doneS[g] \cup {"SUCCESS"}
        BY <2>2, <2>3 DEF SendFileResult, HeadIs
      <3>2. "SUCCESS" \in doneR[g]
        <4>1. Of(Head(toS), g, {"Succese_Recieve_File"})
          BY <2>3 DEF HeadIs, Of
        <4> QED
          BY <1>1, <4>1, TakenS DEF Flow, ToldRight
      <3> QED
        BY <1>2, <1>3, <1>4, <1>5, <2>1, <3>1, <3>2 DEF ToldRight
    <2>4. CASE HeadIs(toS, "Failure_Recieve_File", g)
      <3>1. doneS'[g] = doneS[g] \cup {"FAILURE"}
        BY <2>2, <2>4 DEF SendFileResult, HeadIs
      <3>2. "FAILURE" \in doneR[g]
        <4>1. Of(Head(toS), g, {"Failure_Recieve_File"})
          BY <2>4 DEF HeadIs, Of
        <4> QED
          BY <1>1, <4>1, TakenS DEF Flow, ToldRight
      <3> QED
        BY <1>2, <1>3, <1>4, <1>5, <2>1, <3>1, <3>2 DEF ToldRight
    <2> QED
      BY <2>3, <2>4 DEF SendFileResult
  <1> QED
    BY <1>6, <1>7, <1>8, <1>9 DEF Flow

-----------------------------------------------------------------------------
(* The invariant, and what follows from it *)

LEMMA FlowInit == Init => FlowInv
  <1> SUFFICES ASSUME Init, NEW g \in Guid PROVE Flow(g)
    BY DEF FlowInv
  <1>1. toR = <<>> /\ toS = <<>> /\ DOMAIN toR = {} /\ DOMAIN toS = {}
    BY DEF Init
  <1>2. /\ disk[g] = <<>> /\ doneR[g] = {} /\ doneS[g] = {} /\ 1 \in Attempt
        /\ repo[g] = NoRepository /\ src[g] = NoStream
    BY ConstantAssumption DEF Init, Attempt
  <1>3. pc[g][1] = "idle" /\ ~des[g][1]
    BY <1>2 DEF Init
  <1>4. \A U : ~Has(toR, g, U) /\ ~Has(toS, g, U)
    BY <1>1 DEF Has
  <1>5. One(toS, g, Answers) /\ One(toS, g, Results)
    BY <1>1 DEF One
  <1>6. Len(disk[g]) = 0 /\ disk[g] = [i \in 1..0 |-> i] /\ 0 * BlockSize <= FileSize[g]
    BY <1>2, ConstantAssumption
  <1>7. NothingYet(g) /\ AskedOnce(g) /\ OpenUntilJudged(g) /\ VerdictRight(g) /\ ToldRight(g)
    BY <1>2, <1>3, <1>4, <1>5
    DEF NothingYet, AskedOnce, OpenUntilJudged, VerdictRight, ToldRight, NoRepository, Verdicts
  <1>8. GuidFirst(g) /\ PackedRight(g) /\ EndedOnce(g) /\ DigestRight(g) /\ Sent(g) = 0
    BY <1>1, <1>2, <1>3, <1>4
    DEF GuidFirst, PackedRight, EndedOnce, DigestRight, Judged, NoStream, Sending, Turn, Sent
  <1>9. InFlight(g)
    BY <1>4, NoneInFlight DEF InFlight
  <1>10. OnDisk(g)
    <2>1. NBlocks(g) \in Nat /\ Bytes(g, 0) = 0
      BY NBlocksType, BytesType
    <2>2. 0 <= NBlocks(g)
      BY <2>1
    <2> QED
      BY <1>2, <1>6, <1>8, <2>1, <2>2 DEF OnDisk, NoRepository, NoStream
  <1>11. ReadSoFar(g)
    BY <1>2, <1>3, <1>6, <1>8 DEF ReadSoFar, LastKnown, NoStream
  <1> QED
    BY <1>7, <1>8, <1>9, <1>10, <1>11 DEF Flow

LEMMA UsersFlow ==
    ASSUME TypeOK, TypeOK', LifeInv, FlowInv, MaxSends = 1, NEW h \in Guid, NEW g \in Guid,
           UserS(h) \/ UserR(h)
    PROVE  Flow(g)'
  <1>1. Flow(g)
    BY DEF FlowInv
  <1>2. CASE SendFile(h) /\ g = h
    BY <1>1, <1>2, SendFileFlow
  <1>3. CASE SendFile(h) /\ g # h
    BY <1>1, <1>3, SendFileElsewhere, QuietKeeps
  <1>4. CASE InterruptFileTaskS(h) \/ RestartFileTaskS(h) \/ CancleFileTaskS(h) \/ UserR(h)
    <2>1. Quiet(g)
      BY <1>4, CallsQuiet
    <2> QED
      BY <1>1, <2>1, QuietKeeps
  <1> QED
    BY <1>2, <1>3, <1>4 DEF UserS

LEMMA RunFlow ==
    ASSUME TypeOK, TypeOK', FlowInv, MaxSends = 1, NEW h \in Guid, NEW k \in Attempt, NEW g \in Guid,
           Run(h, k) \/ ReleaseRun(h, k) \/ SpuriousWakeup(h, k)
    PROVE  Flow(g)'
  <1>1. Flow(g) /\ k = 1
    BY DEF FlowInv, Attempt
  <1>2. CASE \/ RunSetEvent(h, k) \/ SpuriousWakeup(h, k) \/ RunCheck(h, k) \/ RunTestSkip(h, k)
             \/ RunEndLoop(h, k) \/ RunDigest(h, k) \/ ReleaseRun(h, k)
    <2>1. Quiet(g)
      BY <1>2, RunQuiet
    <2> QED
      BY <1>1, <2>1, QuietKeeps
  <1>3. CASE RunStart(h, k) \/ RunReadBlock(h, k) \/ RunSendBlock(h, k) \/ Release(h, k)
    <2>1. CASE g # h
      <3>1. Quiet(g)
        BY <1>3, <2>1, RunElsewhere
      <3> QED
        BY <1>1, <3>1, QuietKeeps
    <2>2. CASE g = h
      <3>1. CASE RunStart(g, 1)
        BY <1>1, <3>1, RunStartFlow
      <3>2. CASE RunSendBlock(g, 1) /\ up
        BY <1>1, <3>2, RunSendBlockOpen
      <3>3. CASE RunSendBlock(g, 1) /\ ~up
        BY <1>1, <3>3, RunSendBlockClosed
      <3>4. CASE Release(g, 1)
        BY <1>1, <3>4, ReleaseFlow
      <3>5. CASE RunReadBlock(g, 1)
        BY <1>1, <3>5, RunReadBlockFlow
      <3> QED
        BY <1>1, <1>3, <2>2, <3>1, <3>2, <3>3, <3>4, <3>5
    <2> QED
      BY <2>1, <2>2
  <1> QED
    BY <1>2, <1>3 DEF Run

LEMMA HandleFlow ==
    ASSUME AcceptInv, TypeOK', FlowInv, NEW h \in Guid, NEW g \in Guid, HandleR(h) \/ HandleS(h)
    PROVE  Flow(g)'
  <1>1. Flow(g) /\ TypeOK /\ BlocksWanted
    BY DEF FlowInv, AcceptInv, NoDataBeforeAccept
  <1>2. CASE RefuseFile(h) \/ RecieveTaskR(h)
    BY <1>1, <1>2, HandleRQuiet, QuietKeeps
  <1>3. CASE AcceptFile(h) \/ RecieveBlock(h) \/ RecieveEnd(h)
    <2>1. CASE g # h
      <3>1. Quiet(g)
        BY <1>1, <1>3, <2>1, HandleRElsewhere
      <3> QED
        BY <1>1, <3>1, QuietKeeps
    <2>2. CASE g = h
      BY <1>1, <1>3, <2>2, AcceptFileFlow, RecieveBlockFlow, RecieveEndFlow
    <2> QED
      BY <2>1, <2>2
  <1>4. CASE IgnoreRefusal(h) \/ ShakeAck(h) \/ InterruptTask(h) \/ RestartTask(h) \/ CancleTask(h)
    <2>1. Quiet(g)
      BY <1>1, <1>4, HandleSQuiet
    <2> QED
      BY <1>1, <2>1, QuietKeeps
  <1>5. CASE CanSendFile(h) \/ SendFileResult(h)
    <2>1. CASE g # h
      <3>1. Quiet(g)
        BY <1>1, <1>5, <2>1, HandleSElsewhere
      <3> QED
        BY <1>1, <3>1, QuietKeeps
    <2>2. CASE g = h
      BY <1>1, <1>5, <2>2, CanSendFileFlow, SendFileResultFlow
    <2> QED
      BY <2>1, <2>2
  <1> QED
    BY <1>2, <1>3, <1>4, <1>5 DEF HandleR, HandleS

LEMMA FlowStep ==
    ASSUME MaxSends = 1, AcceptInv, TypeOK', LifeInv, FlowInv, [Next]_vars
    PROVE  FlowInv'
  <1> SUFFICES ASSUME NEW g \in Guid PROVE Flow(g)'
    BY DEF FlowInv
  <1>1. TypeOK /\ Flow(g)
    BY DEF AcceptInv, FlowInv
  <1>2. ASSUME NEW h \in Guid, UserS(h) \/ UserR(h) PROVE Flow(g)'
    BY <1>1, <1>2, UsersFlow
  <1>3. ASSUME NEW h \in Guid, HandleR(h) \/ HandleS(h) PROVE Flow(g)'
    BY <1>3, HandleFlow
  <1>4. ASSUME NEW h \in Guid, NEW k \in Attempt, Run(h, k) \/ ReleaseRun(h, k) \/ SpuriousWakeup(h, k)
        PROVE  Flow(g)'
    BY <1>1, <1>4, RunFlow
  <1>5. CASE CloseChannel
    BY <1>1, <1>5, CloseChannelFlow
  <1>6. CASE UNCHANGED vars
    <2>1. UNCHANGED <<up, toR, toS, pc, des, src, pack, mixed, repo, disk, doneR, doneS>>
      BY <1>6 DEF vars, runVars, sendVars, recvVars, userVars
    <2>2. Quiet(g)
      BY <2>1, StandingDigest, SameAtQuiet DEF SameAt, Untouched
    <2> QED
      BY <1>1, <2>2, QuietKeeps
  <1> QED
    BY <1>2, <1>3, <1>4, <1>5, <1>6 DEF Next

\* What Run reads is what travels is what the receiver writes, in every
\* reachable state of a program that sends a name once: the inductive
\* invariant behind the theorems that follow.
THEOREM FlowInvariant ==
    ASSUME MaxSends = 1
    PROVE  Spec => [](AcceptInv /\ LifeInv /\ FlowInv)
  <1>1. Init => LifeInv /\ FlowInv
    BY LifeInit, FlowInit
  <1>2. AcceptInv /\ AcceptInv' /\ LifeInv /\ FlowInv /\ [Next]_vars => LifeInv' /\ FlowInv'
    <2> SUFFICES ASSUME AcceptInv, AcceptInv', LifeInv, FlowInv, [Next]_vars PROVE LifeInv' /\ FlowInv'
      OBVIOUS
    <2>1. TypeOK /\ TypeOK'
      BY DEF AcceptInv
    <2>2. LifeInv'
      BY <2>1, LifeStep
    <2>3. FlowInv'
      BY <2>1, FlowStep
    <2> QED
      BY <2>2, <2>3
  <1> QED
    BY <1>1, <1>2, AcceptInvariant, PTL DEF Spec

\* The received file is always a prefix of the sent one: files of any size,
\* any number of transfers, of user calls and of spurious wakeups, and the
\* channel closing at any moment (PopUp and PushBack, each block once and in
\* order).
THEOREM PrefixReceived ==
    ASSUME MaxSends = 1
    PROVE  Spec => []PrefixOnDisk
  <1>1. AcceptInv /\ FlowInv => PrefixOnDisk
    <2> SUFFICES ASSUME AcceptInv, FlowInv, NEW g \in Guid
                 PROVE  \E n \in 0..NBlocks(g) : disk[g] = [i \in 1..n |-> i]
      BY DEF PrefixOnDisk
    <2>1. TypeOK /\ OnDisk(g)
      BY DEF AcceptInv, FlowInv, Flow
    <2>2. Len(disk[g]) \in Nat /\ NBlocks(g) \in Nat
      BY <2>1, ViewTypes, NBlocksType
    <2>3. Len(disk[g]) \in 0..NBlocks(g)
      BY <2>1, <2>2 DEF OnDisk
    <2> QED
      BY <2>1, <2>3 DEF OnDisk
  <1> QED
    BY <1>1, FlowInvariant, PTL

\* No user gets both SUCCESS and FAILURE from TransferFileComplete.
THEOREM VerdictIsOne ==
    ASSUME MaxSends = 1
    PROVE  Spec => []OneVerdict
  <1>1. FlowInv => OneVerdict
    <2> SUFFICES ASSUME FlowInv, NEW g \in Guid
                 PROVE  /\ ~({"SUCCESS", "FAILURE"} \subseteq doneS[g])
                        /\ ~({"SUCCESS", "FAILURE"} \subseteq doneR[g])
      BY DEF OneVerdict
    <2> QED
      BY DEF FlowInv, Flow, VerdictRight, ToldRight, Judged, Verdicts
  <1> QED
    BY <1>1, FlowInvariant, PTL

\* When the sender's user is told SUCCESS, the receiver came to SUCCESS and
\* holds the whole file, then and ever after, if no other thread wrote the
\* digest string while the Release of this transfer used it (GetResourceMd5);
\* what other transfers do to each other does not matter.
THEOREM SuccessAgreed ==
    ASSUME MaxSends = 1
    PROVE  Spec => []SuccessAgreement
  <1>1. 1 \in Attempt
    BY ConstantAssumption DEF Attempt
  <1>2. FlowInv => SuccessAgreement
    BY <1>1 DEF FlowInv, Flow, VerdictRight, ToldRight, SuccessAgreement, OwnDigests
  <1> QED
    BY <1>2, FlowInvariant, PTL

-----------------------------------------------------------------------------
(* FileTransfer implements FileDelivery *)

\* Steps that neither user of FileDelivery sees.
LEMMA Stutter ==
    ASSUME \A h \in Guid : Len(disk'[h]) = Len(disk[h]), UNCHANGED <<doneR, doneS>>
    PROVE  UNCHANGED Delivery!vars
  <1>1. [h \in Guid |-> Len(disk'[h])] = [h \in Guid |-> Len(disk[h])]
    OBVIOUS
  <1> QED
    BY <1>1 DEF Delivery!vars

LEMMA Delivers ==
    ASSUME NEW g \in Guid, ~Judged(g), Len(disk[g]) < NBlocks(g), Len(disk'[g]) = Len(disk[g]) + 1,
           \A h \in Guid \ {g} : disk'[h] = disk[h], UNCHANGED <<doneR, doneS>>
    PROVE  Delivery!Deliver(g)
  <1>1. [h \in Guid |-> Len(disk'[h])] = [[h \in Guid |-> Len(disk[h])] EXCEPT ![g] = Len(disk[g]) + 1]
    OBVIOUS
  <1> QED
    BY <1>1 DEF Delivery!Deliver, Delivery!Judged, Delivery!Verdicts, Judged, Verdicts

LEMMA Judges ==
    ASSUME NEW g \in Guid, ~Judged(g), UNCHANGED <<disk, doneS>>,
           \/ /\ Len(disk[g]) = NBlocks(g)
              /\ doneR' = [doneR EXCEPT ![g] = @ \cup {"SUCCESS"}]
           \/ /\ Len(disk[g]) < NBlocks(g) \/ NBlocks(g) = 0
              /\ doneR' = [doneR EXCEPT ![g] = @ \cup {"FAILURE"}]
    PROVE  Delivery!Judge(g)
  <1>1. [h \in Guid |-> Len(disk'[h])] = [h \in Guid |-> Len(disk[h])]
    OBVIOUS
  <1> QED
    BY <1>1 DEF Delivery!Judge, Delivery!Judged, Delivery!Verdicts, Judged, Verdicts

LEMMA Tells ==
    ASSUME NEW g \in Guid, doneS[g] \cap Verdicts = {}, UNCHANGED <<disk, doneR>>,
           NEW v \in Verdicts, v \in doneR[g], doneS' = [doneS EXCEPT ![g] = @ \cup {v}]
    PROVE  Delivery!Tell(g)
  <1>1. [h \in Guid |-> Len(disk'[h])] = [h \in Guid |-> Len(disk[h])]
    OBVIOUS
  <1> QED
    BY <1>1 DEF Delivery!Tell, Delivery!Verdicts, Verdicts

LEMMA Fails ==
    ASSUME NEW g \in Guid, ~Judged(g), UNCHANGED <<disk, doneR>>,
           doneS' = [doneS EXCEPT ![g] = @ \cup {"FAILURE"}]
    PROVE  Delivery!Fail(g)
  <1>1. [h \in Guid |-> Len(disk'[h])] = [h \in Guid |-> Len(disk[h])]
    OBVIOUS
  <1> QED
    BY <1>1 DEF Delivery!Fail, Delivery!Judged, Delivery!Verdicts, Judged, Verdicts

LEMMA Cancels ==
    ASSUME NEW g \in Guid, UNCHANGED disk,
           \/ doneR' = [doneR EXCEPT ![g] = @ \cup {"CANCLE"}] /\ UNCHANGED doneS
           \/ doneS' = [doneS EXCEPT ![g] = @ \cup {"CANCLE"}] /\ UNCHANGED doneR
    PROVE  Delivery!Cancel(g)
  <1>1. [h \in Guid |-> Len(disk'[h])] = [h \in Guid |-> Len(disk[h])]
    OBVIOUS
  <1> QED
    BY <1>1 DEF Delivery!Cancel

LEMMA RecieveBlockDelivers ==
    ASSUME TypeOK, TypeOK', FlowInv, FlowInv', NEW g \in Guid, RecieveBlock(g)
    PROVE  Delivery!Deliver(g) \/ UNCHANGED Delivery!vars
  <1>1. toR \in Seq(MessageR) /\ toR # <<>> /\ Of(Head(toR), g, RTypes) /\ disk \in [Guid -> Seq(Nat)]
    BY DEF TypeOK, ChannelTypes, RecvTypes, RecieveBlock, HeadIs, Of, RTypes
  <1>2. Has(toR, g, RTypes)
    BY <1>1, TailPassed DEF Has
  <1>3. ~Judged(g)
    BY <1>2 DEF FlowInv, Flow, EndedOnce
  <1>4. UNCHANGED <<doneR, doneS>>
    BY DEF RecieveBlock, userVars
  <1>5. \A h \in Guid \ {g} : disk'[h] = disk[h]
    BY <1>1 DEF RecieveBlock
  <1>6. disk'[g] = disk[g] \/ disk'[g] = Append(disk[g], Head(toR).a)
    BY <1>1 DEF RecieveBlock, Written
  <1>7. CASE disk'[g] = disk[g]
    BY <1>4, <1>5, <1>7, Stutter
  <1>8. CASE disk'[g] = Append(disk[g], Head(toR).a)
    <2>1. Len(disk'[g]) = Len(disk[g]) + 1 /\ Len(disk[g]) \in Nat
      <3>1. disk[g] \in Seq(Nat)
        BY <1>1
      <3> QED
        BY <1>8, <3>1
    <2>2. Len(disk'[g]) <= NBlocks(g) /\ NBlocks(g) \in Nat
      BY NBlocksType DEF FlowInv, Flow, OnDisk, NBlocks
    <2>3. Len(disk[g]) < NBlocks(g)
      BY <2>1, <2>2
    <2> QED
      BY <1>3, <1>4, <1>5, <2>1, <2>3, Delivers
  <1> QED
    BY <1>6, <1>7, <1>8

\* A file that is shorter than the sent one lacks a block.
LEMMA OnDiskShort ==
    ASSUME TypeOK, NEW g \in Guid, OnDisk(g)
    PROVE  /\ Len(disk[g]) \in Nat /\ NBlocks(g) \in Nat /\ Len(disk[g]) <= NBlocks(g)
           /\ disk[g] = FileBlocks(g) <=> Len(disk[g]) = NBlocks(g)
  <1>1. Len(disk[g]) \in Nat /\ NBlocks(g) \in Nat /\ Len(disk[g]) <= NBlocks(g)
    BY ViewTypes, NBlocksType DEF OnDisk
  <1>2. ASSUME Len(disk[g]) = NBlocks(g) PROVE disk[g] = FileBlocks(g)
    BY <1>2 DEF OnDisk, FileBlocks
  <1>3. ASSUME disk[g] = FileBlocks(g) PROVE Len(disk[g]) = NBlocks(g)
    <2>1. DOMAIN disk[g] = 1..NBlocks(g)
      BY <1>3 DEF FileBlocks
    <2>2. disk[g] \in Seq(Nat)
      BY DEF TypeOK, RecvTypes
    <2>3. DOMAIN disk[g] = 1..Len(disk[g])
      BY <2>2
    <2> QED
      BY <1>1, <2>1, <2>3
  <1> QED
    BY <1>1, <1>2, <1>3

LEMMA RecieveEndJudges ==
    ASSUME TypeOK, FlowInv, NEW g \in Guid, OwnDigests(g), RecieveEnd(g)
    PROVE  Delivery!Judge(g)
  <1>1. toR \in Seq(MessageR) /\ toR # <<>> /\ Of(Head(toR), g, {"End_Send_File"})
    BY DEF TypeOK, ChannelTypes, RecieveEnd, HeadIs, Of
  <1>2. Head(toR) = toR[1] /\ 1 \in DOMAIN toR
    BY <1>1
  <1>3. Has(toR, g, {"End_Send_File"})
    BY <1>1, <1>2 DEF Has
  <1>4. ~Judged(g) /\ OnDisk(g)
    BY <1>3 DEF FlowInv, Flow, EndedOnce
  <1>5. /\ Len(disk[g]) \in Nat /\ NBlocks(g) \in Nat /\ Len(disk[g]) <= NBlocks(g)
        /\ disk[g] = FileBlocks(g) <=> Len(disk[g]) = NBlocks(g)
    BY <1>4, OnDiskShort
  <1>6. UNCHANGED <<disk, doneS>>
    BY DEF RecieveEnd
  <1>7. doneR' = [doneR EXCEPT ![g] = @ \cup {IF SameFile(g, Head(toR)) THEN "SUCCESS" ELSE "FAILURE"}]
    <2>1. 1 \in Attempt
      BY ConstantAssumption DEF Attempt
    <2>2. Head(toR).a = OwnDigest
      BY <1>1, <1>2, <2>1 DEF FlowInv, Flow, DigestRight, OwnDigests
    <2> QED
      BY <2>2 DEF RecieveEnd, Compared
  <1>8. CASE SameFile(g, Head(toR))
    <2>1. doneR' = [doneR EXCEPT ![g] = @ \cup {"SUCCESS"}] /\ Len(disk[g]) = NBlocks(g)
      BY <1>5, <1>7, <1>8 DEF SameFile
    <2> QED
      BY <1>4, <1>6, <2>1, Judges
  <1>9. CASE ~SameFile(g, Head(toR))
    <2>1. doneR' = [doneR EXCEPT ![g] = @ \cup {"FAILURE"}]
      BY <1>7, <1>9
    <2>2. Len(disk[g]) < NBlocks(g) \/ NBlocks(g) = 0
      <3>1. CASE disk[g] # FileBlocks(g)
        BY <1>5, <3>1
      <3>2. CASE ~Head(toR).rok
        <4>1. src[g].pos = 0 /\ pc[g][1] = "done"
          BY <1>1, <1>2, <1>3, <3>2 DEF FlowInv, Flow, EndedOnce
        <4>2. Len(disk[g]) <= 0
          BY <1>4, <4>1 DEF OnDisk, Sent
        <4> QED
          BY <1>5, <4>2
      <3>3. CASE ~repo[g].box
        <4>1. disk[g] = <<>>
          BY <3>3 DEF FlowInv, Flow, OpenUntilJudged
        <4>2. Len(disk[g]) = 0
          BY <4>1
        <4> QED
          BY <1>5, <4>2
      <3> QED
        BY <1>9, <3>1, <3>2, <3>3 DEF SameFile
    <2> QED
      BY <1>4, <1>6, <2>1, <2>2, Judges
  <1> QED
    BY <1>8, <1>9

LEMMA SendFileResultTells ==
    ASSUME TypeOK, FlowInv, NEW g \in Guid, SendFileResult(g)
    PROVE  Delivery!Tell(g)
  <1>1. toS \in Seq(MessageS) /\ toS # <<>> /\ UNCHANGED <<disk, doneR>>
    BY DEF TypeOK, ChannelTypes, SendFileResult, HeadIs, recvVars
  <1>2. Head(toS) = toS[1] /\ 1 \in DOMAIN toS
    BY <1>1
  <1>3. \A U : Of(Head(toS), g, U) => Has(toS, g, U)
    BY <1>2 DEF Has
  <1>4. ToldRight(g)
    BY DEF FlowInv, Flow
  <1>5. doneS[g] \cap Verdicts = {}
    <2>1. Of(Head(toS), g, Results)
      BY DEF SendFileResult, HeadIs, Of, Results
    <2> QED
      BY <1>3, <1>4, <2>1 DEF ToldRight
  <1>6. CASE HeadIs(toS, "Succese_Recieve_File", g) /\ doneS' = [doneS EXCEPT ![g] = @ \cup {"SUCCESS"}]
    <2>1. Of(Head(toS), g, {"Succese_Recieve_File"})
      BY <1>6 DEF HeadIs, Of
    <2>2. "SUCCESS" \in doneR[g] /\ "SUCCESS" \in Verdicts
      BY <1>3, <1>4, <2>1 DEF ToldRight, Verdicts
    <2> QED
      BY <1>1, <1>5, <1>6, <2>2, Tells
  <1>7. CASE HeadIs(toS, "Failure_Recieve_File", g) /\ doneS' = [doneS EXCEPT ![g] = @ \cup {"FAILURE"}]
    <2>1. Of(Head(toS), g, {"Failure_Recieve_File"})
      BY <1>7 DEF HeadIs, Of
    <2>2. "FAILURE" \in doneR[g] /\ "FAILURE" \in Verdicts
      BY <1>3, <1>4, <2>1 DEF ToldRight, Verdicts
    <2> QED
      BY <1>1, <1>5, <1>7, <2>2, Tells
  <1> QED
    BY <1>6, <1>7 DEF SendFileResult

LEMMA RunSendBlockFails ==
    ASSUME TypeOK, FlowInv, NEW g \in Guid, RunSendBlock(g, 1)
    PROVE  Delivery!Fail(g) \/ UNCHANGED Delivery!vars
  <1>1. UNCHANGED <<disk, doneR>> /\ doneS \in [Guid -> SUBSET Reported]
    BY DEF RunSendBlock, recvVars, TypeOK, UserTypes
  <1>2. CASE up
    <2>1. doneS' = doneS
      BY <1>1, <1>2 DEF RunSendBlock
    <2> QED
      BY <1>1, <2>1, Stutter
  <1>3. CASE ~up
    <2>1. doneS' = [doneS EXCEPT ![g] = @ \cup {"FAILURE"}]
      BY <1>3 DEF RunSendBlock
    <2>2. ~Judged(g)
      BY DEF RunSendBlock, FlowInv, Flow, EndedOnce
    <2> QED
      BY <1>1, <2>1, <2>2, Fails
  <1> QED
    BY <1>2, <1>3

LEMMA AcceptFileStutters ==
    ASSUME TypeOK, FlowInv, NEW g \in Guid, AcceptFile(g)
    PROVE  UNCHANGED Delivery!vars
  <1>1. toR \in Seq(MessageR) /\ toR # <<>> /\ Of(Head(toR), g, {"Create_File"})
        /\ disk \in [Guid -> Seq(Nat)]
    BY DEF TypeOK, ChannelTypes, RecvTypes, AcceptFile, HeadIs, Of
  <1>2. Head(toR) = toR[1] /\ 1 \in DOMAIN toR
    BY <1>1
  <1>3. Has(toR, g, {"Create_File"})
    BY <1>1, <1>2 DEF Has
  <1>4. ~repo[g].open /\ disk[g] = <<>>
    BY <1>3 DEF FlowInv, Flow, AskedOnce, OpenUntilJudged
  <1>5. UNCHANGED <<doneR, doneS>>
    BY DEF AcceptFile, userVars
  <1>6. disk'[g] = <<>>
    BY <1>1, <1>4 DEF AcceptFile, Truncated
  <1>7. \A h \in Guid \ {g} : disk'[h] = disk[h]
    BY <1>1 DEF AcceptFile
  <1>8. \A h \in Guid : Len(disk'[h]) = Len(disk[h])
    BY <1>4, <1>6, <1>7
  <1> QED
    BY <1>5, <1>8, Stutter

DigestsApart == \A g \in Guid : OwnDigests(g)

\* Every step of the transfer is a step of FileDelivery, or none.
LEMMA DeliveryStep ==
    ASSUME MaxSends = 1, TypeOK, TypeOK', FlowInv, FlowInv', DigestsApart, [Next]_vars
    PROVE  Delivery!Next \/ UNCHANGED Delivery!vars
  <1>1. ASSUME NEW g \in Guid, UserS(g) \/ UserR(g)
        PROVE  UNCHANGED Delivery!vars
    <2>1. UNCHANGED <<disk, doneR, doneS>>
      BY <1>1 DEF UserS, UserR, SendFile, InterruptFileTaskS, RestartFileTaskS, CancleFileTaskS,
         CreateRecieveFile, InterruptFileTaskR, RestartFileTaskR, CancleFileTaskR, recvVars, userVars
    <2> QED
      BY <2>1, Stutter
  <1>2. ASSUME NEW g \in Guid, HandleR(g)
        PROVE  Delivery!Deliver(g) \/ Delivery!Judge(g) \/ Delivery!Cancel(g) \/ UNCHANGED Delivery!vars
    <2>1. CASE RefuseFile(g)
      BY <2>1, Stutter DEF RefuseFile, recvVars, userVars
    <2>2. CASE RecieveTaskR(g)
      <3>1. UNCHANGED <<disk, doneS>>
        BY <2>2 DEF RecieveTaskR, recvVars
      <3>2. UNCHANGED doneR \/ doneR' = [doneR EXCEPT ![g] = @ \cup {"CANCLE"}]
        BY <2>2 DEF RecieveTaskR
      <3> QED
        BY <3>1, <3>2, Cancels, Stutter
    <2> QED
      BY <1>2, <2>1, <2>2, AcceptFileStutters, RecieveBlockDelivers, RecieveEndJudges
      DEF HandleR, DigestsApart
  <1>3. ASSUME NEW g \in Guid, HandleS(g)
        PROVE  Delivery!Tell(g) \/ Delivery!Cancel(g) \/ UNCHANGED Delivery!vars
    <2>1. CASE CanSendFile(g) \/ IgnoreRefusal(g) \/ ShakeAck(g) \/ InterruptTask(g) \/ RestartTask(g)
      <3>1. UNCHANGED <<disk, doneR, doneS>>
        BY <2>1 DEF CanSendFile, IgnoreRefusal, ShakeAck, InterruptTask, RestartTask, recvVars, userVars
      <3> QED
        BY <3>1, Stutter
    <2>2. CASE CancleTask(g)
      BY <2>2, Cancels DEF CancleTask, recvVars
    <2> QED
      BY <1>3, <2>1, <2>2, SendFileResultTells DEF HandleS
  <1>4. ASSUME NEW g \in Guid, NEW k \in Attempt, Run(g, k) \/ ReleaseRun(g, k) \/ SpuriousWakeup(g, k)
        PROVE  Delivery!Fail(g) \/ UNCHANGED Delivery!vars
    <2>1. k = 1
      BY DEF Attempt
    <2>2. CASE RunSendBlock(g, k)
      BY <2>1, <2>2, RunSendBlockFails
    <2>3. CASE ~RunSendBlock(g, k)
      <3>1. UNCHANGED <<disk, doneR, doneS>>
        BY <1>4, <2>3 DEF Run, RunStart, RunSetEvent, RunCheck, RunReadBlock, RunTestSkip, RunEndLoop,
           RunDigest, Release, ReleaseRun, ReleaseDelete, ReleaseErase, SpuriousWakeup, recvVars, userVars
      <3> QED
        BY <3>1, Stutter
    <2> QED
      BY <2>2, <2>3
  <1>5. CASE CloseChannel \/ UNCHANGED vars
    <2>1. UNCHANGED <<disk, doneR, doneS>>
      BY <1>5 DEF CloseChannel, vars, recvVars, userVars
    <2> QED
      BY <2>1, Stutter
  <1> QED
    BY <1>1, <1>2, <1>3, <1>4, <1>5 DEF Next, Delivery!Next

LEMMA DeliveryInit == Init => Delivery!Init
  <1> SUFFICES ASSUME Init PROVE Delivery!Init
    OBVIOUS
  <1>1. \A g \in Guid : Len(disk[g]) = 0
    BY DEF Init
  <1> QED
    BY <1>1 DEF Init, Delivery!Init

\* The transfer implements FileDelivery: the receiver's user and the sender's
\* user see blocks in order, one verdict that fits the file, and that verdict
\* told, for files of any size and any number of transfers and of calls, as
\* long as no two threads meet in the digest string (GetResourceMd5).
THEOREM DeliveryImplemented ==
    ASSUME MaxSends = 1
    PROVE  Spec /\ []DigestsApart => ImplementsDelivery
  <1>1. Init => Delivery!Init
    BY DeliveryInit
  <1>2. /\ AcceptInv /\ AcceptInv' /\ FlowInv /\ FlowInv' /\ DigestsApart /\ [Next]_vars
        => [Delivery!Next]_(Delivery!vars)
    <2>1. AcceptInv => TypeOK
      BY DEF AcceptInv
    <2>2. AcceptInv' => TypeOK'
      BY DEF AcceptInv
    <2> QED
      BY <2>1, <2>2, DeliveryStep
  <1> QED
    BY <1>1, <1>2, FlowInvariant, PTL DEF Spec, ImplementsDelivery, Delivery!Spec

\* A Run thread that is alone in the digest string spoils no digest.
LEMMA AloneStep ==
    ASSUME NEW x, Guid = {x}, MaxSends = 1, TypeOK, LifeInv, DigestsApart, [Next]_vars
    PROVE  DigestsApart'
  <1>1. /\ Attempt = {1} /\ mixed \in [Guid -> [Attempt -> BOOLEAN]]
        /\ sends \in [Guid -> 0..MaxSends] /\ \A g \in Guid : ~mixed[g][1]
    BY DEF Attempt, TypeOK, SendTypes, DigestsApart, OwnDigests
  <1>2. CASE UNCHANGED mixed
    BY <1>2 DEF DigestsApart, OwnDigests
  <1>3. ASSUME NEW g \in Guid, RunDigest(g, 1)
        PROVE  DigestsApart'
    <2>1. \A h \in Guid, j \in Attempt : ~UsesDigest(h, j)
      BY <1>1, <1>3 DEF RunDigest, UsesDigest
    <2>2. mixed'[x][1] = FALSE
      BY <1>1, <1>3, <2>1 DEF RunDigest, DigestWritten
    <2> QED
      BY <1>1, <2>2 DEF DigestsApart, OwnDigests
  <1>4. ASSUME NEW g \in Guid, SendFile(g)
        PROVE  DigestsApart'
    <2>1. pc[x][1] = "idle"
      <3>1. sends[x] = 0 /\ 1 > 0
        BY <1>1, <1>4 DEF SendFile
      <3> QED
        BY <1>1, <3>1 DEF LifeInv, CallsMade
    <2>2. \A h \in Guid, j \in Attempt : ~UsesDigest(h, j)
      BY <1>1, <2>1 DEF UsesDigest
    <2>3. mixed'[x][1] = FALSE
      BY <1>1, <1>4, <2>2 DEF SendFile, DigestWritten
    <2> QED
      BY <1>1, <2>3 DEF DigestsApart, OwnDigests
  <1>5. ASSUME NEW g \in Guid, UserS(g) \/ UserR(g) \/ HandleR(g) \/ HandleS(g)
        PROVE  UNCHANGED mixed \/ SendFile(g)
    <2>1. CASE UserS(g) \/ UserR(g)
      BY <2>1 DEF UserS, UserR, InterruptFileTaskS, RestartFileTaskS, CancleFileTaskS,
         CreateRecieveFile, InterruptFileTaskR, RestartFileTaskR, CancleFileTaskR, sendVars
    <2>2. CASE HandleR(g)
      BY <2>2 DEF HandleR, AcceptFile, RefuseFile, RecieveBlock, RecieveEnd, RecieveTaskR, sendVars
    <2>3. CASE HandleS(g)
      BY <2>3 DEF HandleS, CanSendFile, IgnoreRefusal, ShakeAck, SendFileResult, InterruptTask,
         RestartTask, CancleTask, sendVars
    <2> QED
      BY <1>5, <2>1, <2>2, <2>3
  <1>6. ASSUME NEW g \in Guid, NEW k \in Attempt, Run(g, k) \/ ReleaseRun(g, k) \/ SpuriousWakeup(g, k)
        PROVE  UNCHANGED mixed \/ RunDigest(g, 1)
    BY <1>1, <1>6 DEF Run, RunStart, RunSetEvent, RunCheck, RunReadBlock, RunSendBlock, RunTestSkip,
       RunEndLoop, Release, ReleaseRun, ReleaseDelete, ReleaseErase, SpuriousWakeup, sendVars
  <1>7. CASE CloseChannel \/ UNCHANGED vars
    BY <1>2, <1>7 DEF CloseChannel, vars, sendVars
  <1> QED
    BY <1>2, <1>3, <1>4, <1>5, <1>6, <1>7 DEF Next

\* A program that sends one name, once, implements FileDelivery, whatever the
\* users call and wherever the channel closes.
THEOREM OneTransferDelivers ==
    ASSUME NEW x, Guid = {x}, MaxSends = 1
    PROVE  Spec => ImplementsDelivery
  <1>1. Init => DigestsApart
    BY DEF Init, DigestsApart, OwnDigests
  <1>2. AcceptInv /\ LifeInv /\ DigestsApart /\ [Next]_vars => DigestsApart'
    BY AloneStep DEF AcceptInv
  <1>3. Spec => []DigestsApart
    BY <1>1, <1>2, FlowInvariant, PTL DEF Spec
  <1> QED
    BY <1>3, DeliveryImplemented, PTL

-----------------------------------------------------------------------------
(* Progress never goes back.  A count that does not fit a DWORD is cut, so  *)
(* this is for files that do.                                               *)

LEMMA PassedAscending ==
    ASSUME NEW S, NEW qq \in Seq(S), NEW q, NEW g, NEW d \in Nat, NEW n,
           Passed(qq, q, g, {"Shake_Pack"}, d), Ascending(q, g, n)
    PROVE  Ascending(qq, g, n)
  <1> SUFFICES ASSUME NEW i \in DOMAIN qq, NEW j \in DOMAIN qq,
                      Of(qq[i], g, {"Shake_Pack"}), Of(qq[j], g, {"Shake_Pack"})
               PROVE  n <= qq[i].a /\ (i < j => qq[i].a <= qq[j].a)
    BY DEF Ascending
  <1>1. i + d \in DOMAIN q /\ qq[i] = q[i + d] /\ j + d \in DOMAIN q /\ qq[j] = q[j + d]
    BY DEF Passed
  <1>2. i < j => i + d < j + d
    <2>1. i \in Nat /\ j \in Nat
      OBVIOUS
    <2> QED
      BY <2>1
  <1> QED
    BY <1>1, <1>2 DEF Ascending

LEMMA AppendAscending ==
    ASSUME NEW S, NEW q \in Seq(S), NEW m, NEW g, NEW n, Ascending(q, g, n),
           Of(m, g, {"Shake_Pack"}) =>
               /\ n <= m.a
               /\ \A i \in DOMAIN q : Of(q[i], g, {"Shake_Pack"}) => q[i].a <= m.a
    PROVE  Ascending(Append(q, m), g, n)
  <1> DEFINE r == Append(q, m)
  <1>1. /\ \A i \in DOMAIN r : (i \in DOMAIN q /\ r[i] = q[i]) \/ (i = Len(q) + 1 /\ r[i] = m)
        /\ \A i \in DOMAIN r : i \in Nat /\ i <= Len(q) + 1
        /\ Len(q) \in Nat
    OBVIOUS
  <1> HIDE DEF r
  <1> SUFFICES ASSUME NEW i \in DOMAIN r, NEW j \in DOMAIN r,
                      Of(r[i], g, {"Shake_Pack"}), Of(r[j], g, {"Shake_Pack"})
               PROVE  n <= r[i].a /\ (i < j => r[i].a <= r[j].a)
    BY DEF Ascending, r
  <1>2. n <= r[i].a
    BY <1>1 DEF Ascending
  <1>3. ASSUME i < j PROVE r[i].a <= r[j].a
    <2>1. i \in DOMAIN q /\ r[i] = q[i]
      BY <1>1, <1>3
    <2>2. CASE j \in DOMAIN q /\ r[j] = q[j]
      BY <1>3, <2>1, <2>2 DEF Ascending
    <2>3. CASE r[j] = m
      BY <2>1, <2>3
    <2> QED
      BY <1>1, <2>2, <2>3
  <1> QED
    BY <1>2, <1>3

\* What a step does to the acknowledgements of g that shows nothing: none is
\* added, or one is that counts no less.
ShakesPassed(g) ==
    \/ \E d \in {0, 1} : Passed(toS', toS, g, {"Shake_Pack"}, d)
    \/ \E m : /\ toS' = Append(toS, m) /\ m.a >= repo[g].finish /\ m.a \in Nat

LEMMA ShakesKeptOrdered ==
    ASSUME TypeOK, TypeOK', ProgressInv, ShakesOrdered, NEW g \in Guid, ShakesPassed(g),
           shown'[g] = shown[g]
    PROVE  Ascending(toS', g, shown'[g])
  <1>1. toS \in Seq(MessageS) /\ toS' \in Seq(MessageS)
    BY DEF TypeOK, ChannelTypes
  <1>2. Ascending(toS, g, shown[g])
    BY DEF ShakesOrdered
  <1>3. CASE \E d \in {0, 1} : Passed(toS', toS, g, {"Shake_Pack"}, d)
    <2>1. PICK d \in Nat : Passed(toS', toS, g, {"Shake_Pack"}, d)
      BY <1>3
    <2> QED
      BY <1>1, <1>2, <2>1, PassedAscending
  <1>4. ASSUME NEW m, toS' = Append(toS, m), m.a >= repo[g].finish, m.a \in Nat
        PROVE  Ascending(toS', g, shown[g])
    <2>1. repo[g].finish \in Nat /\ shown[g] \in Nat
      BY DEF TypeOK, RecvTypes, UserTypes, Repository
    <2>2. \A i \in DOMAIN toS : toS[i].a \in Nat
      <3>1. \A i \in DOMAIN toS : toS[i] \in MessageS
        BY <1>1
      <3> QED
        BY <3>1 DEF MessageS, Message
    <2>3. shown[g] <= repo[g].finish
          /\ \A i \in DOMAIN toS : Of(toS[i], g, {"Shake_Pack"}) => toS[i].a <= repo[g].finish
      BY DEF ProgressInv, ProgressTruthful, ShakesTruthful, Of
    <2>4. shown[g] <= m.a /\ \A i \in DOMAIN toS : Of(toS[i], g, {"Shake_Pack"}) => toS[i].a <= m.a
      BY <1>4, <2>1, <2>2, <2>3
    <2> QED
      BY <1>1, <1>2, <1>4, <2>4, AppendAscending
  <1> QED
    BY <1>3, <1>4 DEF ShakesPassed

\* Messages to S that are no acknowledgements of g.
LEMMA OtherToS ==
    ASSUME TypeOK, NEW g,
           \/ toS' = toS
           \/ \E t, h, ok, x, y : /\ t # "Shake_Pack" \/ h # g
                                  /\ toS' = SendData(toS, Msg(t, h, ok, x, y))
           \/ toS # <<>> /\ toS' = Tail(toS)
           \/ \E n \in 0..Len(toS) : toS' = SubSeq(toS, 1, n)
    PROVE  \E d \in {0, 1} : Passed(toS', toS, g, {"Shake_Pack"}, d)
  <1>1. toS \in Seq(MessageS)
    BY DEF TypeOK, ChannelTypes
  <1>2. ASSUME toS' = toS PROVE Passed(toS', toS, g, {"Shake_Pack"}, 0)
    <2>1. \A i \in DOMAIN toS : i + 0 = i
      BY <1>1
    <2> QED
      BY <1>2, <2>1 DEF Passed
  <1>3. ASSUME NEW t, NEW h, NEW ok, NEW x, NEW y, t # "Shake_Pack" \/ h # g,
               toS' = SendData(toS, Msg(t, h, ok, x, y))
        PROVE  Passed(toS', toS, g, {"Shake_Pack"}, 0)
    <2>1. PICK m : m = Msg(t, h, ok, x, y)
      OBVIOUS
    <2>2. ~Of(m, g, {"Shake_Pack"})
      BY <1>3, <2>1 DEF Of, Msg
    <2>3. CASE toS' = Append(toS, m)
      <3>1. \A i \in DOMAIN toS' : toS'[i] = m \/ (i + 0 = i /\ i \in DOMAIN toS /\ toS'[i] = toS[i])
        BY <1>1, <2>3
      <3> QED
        BY <2>2, <3>1 DEF Passed
    <2> QED
      BY <1>2, <1>3, <2>1, <2>3 DEF SendData
  <1>4. ASSUME toS # <<>>, toS' = Tail(toS) PROVE Passed(toS', toS, g, {"Shake_Pack"}, 1)
    BY <1>1, <1>4, TailPassed
  <1>5. ASSUME NEW n \in 0..Len(toS), toS' = SubSeq(toS, 1, n)
        PROVE  Passed(toS', toS, g, {"Shake_Pack"}, 0)
    <2>1. \A i \in DOMAIN toS' : i + 0 = i /\ i \in DOMAIN toS /\ toS'[i] = toS[i]
      BY <1>1, <1>5
    <2> QED
      BY <2>1 DEF Passed
  <1> QED
    BY <1>2, <1>3, <1>4, <1>5

\* A count that fits a DWORD travels whole.
LEMMA DwordWhole == ASSUME NEW n \in Nat, n < DwordMod PROVE Dword(n) = n
  BY ConstantAssumption DEF Dword

\* An acknowledgement counts no less than what was written before it.
LEMMA RecieveBlockShakes ==
    ASSUME TypeOK, TypeOK', FlowInv', \A g \in Guid : FileSize[g] < DwordMod,
           NEW h \in Guid, RecieveBlock(h), NEW g \in Guid
    PROVE  ShakesPassed(g)
  <1>1. toS' = toS \/ \E x, y : toS' = SendData(toS, Msg("Shake_Pack", h, TRUE, x, y))
    BY DEF RecieveBlock
  <1>2. CASE g # h \/ toS' = toS
    BY <1>1, <1>2, OtherToS DEF ShakesPassed
  <1>3. CASE g = h /\ toS' # toS
    <2>1. PICK m : m = Head(toR)
      OBVIOUS
    <2>2. PICK r : r = IF m.rok THEN PushBack(g, m.b) ELSE repo[g]
      OBVIOUS
    <2>3. /\ m.rok /\ ProgressDue(r)
          /\ toS' = SendData(toS, Msg("Shake_Pack", g, TRUE, Dword(r.finish), Dword(r.total)))
          /\ repo' = [repo EXCEPT ![g] = Acknowledged(r)]
      BY <1>3, <2>1, <2>2 DEF RecieveBlock
    <2>4. repo'[g].finish = r.finish
      <3>1. repo'[g] = Acknowledged(r)
        BY <2>3 DEF TypeOK, RecvTypes
      <3>2. m.b \in Nat
        BY <1>3, <2>1, HeadIsR DEF RecieveBlock
      <3>3. r \in Repository
        BY <2>2, <2>3, <3>2, PushBackType
      <3>4. Acknowledged(r).finish = r.finish
        BY <3>3 DEF Acknowledged, Repository
      <3> QED
        BY <3>1, <3>4
    <2>5. repo'[g].finish \in Nat /\ repo'[g].finish < DwordMod
      <3>1. repo'[g].finish = Bytes(g, Len(disk'[g])) /\ Len(disk'[g]) \in Nat
        <4>1. repo'[g].finish = Bytes(g, Len(disk'[g]))
          BY DEF FlowInv, Flow, OnDisk, Bytes
        <4>2. disk'[g] \in Seq(Nat)
          BY DEF TypeOK, RecvTypes
        <4> QED
          BY <4>1, <4>2
      <3>2. Bytes(g, Len(disk'[g])) \in Nat /\ Bytes(g, Len(disk'[g])) <= FileSize[g]
        BY <3>1, BytesType
      <3>3. FileSize[g] \in Nat /\ FileSize[g] < DwordMod /\ DwordMod \in Nat
        BY ConstantAssumption
      <3> QED
        BY <3>1, <3>2, <3>3
    <2>6. PICK s : s = Msg("Shake_Pack", g, TRUE, Dword(r.finish), Dword(r.total))
      OBVIOUS
    <2>7. s.a = repo'[g].finish
      BY <2>4, <2>5, <2>6, DwordWhole DEF Msg
    <2>8. repo'[g].finish >= repo[g].finish
      BY <1>3, RecieveBlockProgress DEF CountGrows
    <2>9. toS' = Append(toS, s)
      BY <1>3, <2>3, <2>6 DEF SendData
    <2> QED
      BY <2>5, <2>7, <2>8, <2>9 DEF ShakesPassed
  <1> QED
    BY <1>2, <1>3

\* What is shown is the oldest acknowledgement, which counts no more than the
\* others and no less than what was shown.
LEMMA ShakeAckOrdered ==
    ASSUME TypeOK, TypeOK', ShakesOrdered, NEW g \in Guid, ShakeAck(g)
    PROVE  Ascending(toS', g, shown'[g]) /\ shown'[g] >= shown[g]
  <1>1. /\ toS \in Seq(MessageS) /\ toS # <<>> /\ toS' = Tail(toS)
        /\ Of(Head(toS), g, {"Shake_Pack"}) /\ shown \in [Guid -> Nat]
    BY DEF TypeOK, ChannelTypes, UserTypes, ShakeAck, HeadIs, Of
  <1>2. /\ Head(toS) = toS[1] /\ 1 \in DOMAIN toS
        /\ \A i \in DOMAIN toS' : i + 1 \in DOMAIN toS /\ i + 1 > 1 /\ toS'[i] = toS[i + 1]
    BY <1>1, TailPassed
  <1>3. shown'[g] = toS[1].a
    BY <1>1, <1>2 DEF ShakeAck, Finished
  <1>4. Ascending(toS, g, shown[g])
    BY DEF ShakesOrdered
  <1>5. shown[g] <= toS[1].a /\ toS[1].a \in Nat /\ shown[g] \in Nat
    <2>1. toS[1] \in MessageS
      BY <1>1, <1>2
    <2> QED
      BY <1>1, <1>2, <1>4, <2>1 DEF Ascending, MessageS, Message
  <1>6. Ascending(toS', g, toS[1].a)
    <2> SUFFICES ASSUME NEW i \in DOMAIN toS', NEW j \in DOMAIN toS',
                        Of(toS'[i], g, {"Shake_Pack"}), Of(toS'[j], g, {"Shake_Pack"})
                 PROVE  toS[1].a <= toS'[i].a /\ (i < j => toS'[i].a <= toS'[j].a)
      BY DEF Ascending
    <2>1. toS[1].a <= toS'[i].a
      <3>1. i + 1 \in DOMAIN toS /\ 1 < i + 1 /\ toS'[i] = toS[i + 1]
        <4>1. i + 1 \in DOMAIN toS /\ i + 1 > 1 /\ toS'[i] = toS[i + 1]
          BY <1>2
        <4>2. i + 1 \in Nat
          BY <1>1, <4>1
        <4> QED
          BY <4>1, <4>2
      <3> QED
        BY <1>1, <1>2, <1>4, <3>1 DEF Ascending
    <2>2. Ascending(toS', g, shown[g])
      <3>1. Passed(toS', toS, g, {"Shake_Pack"}, 1) /\ toS' \in Seq(MessageS)
        BY <1>1, TailPassed
      <3> QED
        BY <1>4, <3>1, PassedAscending
    <2> QED
      BY <2>1, <2>2 DEF Ascending
  <1> QED
    BY <1>3, <1>5, <1>6

\* Steps that send no acknowledgement and show none.
LEMMA OthersUnshaken ==
    ASSUME TypeOK, NEW g, [Next]_vars, \A h \in Guid : ~RecieveBlock(h) /\ ~ShakeAck(h)
    PROVE  ShakesPassed(g) /\ UNCHANGED shown
  <1> DEFINE Passes ==
        \/ toS' = toS
        \/ \E t, h, ok, x, y : /\ t # "Shake_Pack" \/ h # g
                               /\ toS' = SendData(toS, Msg(t, h, ok, x, y))
        \/ toS # <<>> /\ toS' = Tail(toS)
        \/ \E n \in 0..Len(toS) : toS' = SubSeq(toS, 1, n)
  <1>1. ASSUME NEW h \in Guid, UserS(h)
        PROVE  toS' = toS /\ UNCHANGED shown
    BY <1>1 DEF UserS, SendFile, InterruptFileTaskS, RestartFileTaskS, CancleFileTaskS, userVars
  <1>2. ASSUME NEW h \in Guid, UserR(h)
        PROVE  Passes /\ UNCHANGED shown
    <2>1. UNCHANGED shown
      BY <1>2 DEF UserR, CreateRecieveFile, InterruptFileTaskR, RestartFileTaskR, CancleFileTaskR, userVars
    <2>2. toS' = toS \/ \E t \in TaskTypes : toS' = SendData(toS, Msg(t, h, FALSE, 0, 0))
      BY <1>2 DEF UserR, CreateRecieveFile, InterruptFileTaskR, RestartFileTaskR, CancleFileTaskR, TaskTypes
    <2>3. "Shake_Pack" \notin TaskTypes
      BY DEF TaskTypes
    <2> QED
      BY <2>1, <2>2, <2>3
  <1>3. ASSUME NEW h \in Guid, HandleR(h)
        PROVE  Passes /\ UNCHANGED shown
    <2>1. AcceptFile(h) \/ RefuseFile(h) \/ RecieveEnd(h) \/ RecieveTaskR(h)
      BY <1>3 DEF HandleR
    <2>2. UNCHANGED shown
      BY <2>1 DEF AcceptFile, RefuseFile, RecieveEnd, RecieveTaskR, userVars
    <2>3. toS' = toS \/ \E t, ok : t # "Shake_Pack" /\ toS' = SendData(toS, Msg(t, h, ok, 0, 0))
      <3>1. CASE AcceptFile(h)
        BY <3>1 DEF AcceptFile
      <3>2. CASE RefuseFile(h)
        BY <3>2 DEF RefuseFile
      <3>3. CASE RecieveEnd(h)
        BY <3>3 DEF RecieveEnd
      <3>4. CASE RecieveTaskR(h)
        BY <3>4 DEF RecieveTaskR
      <3> QED
        BY <2>1, <3>1, <3>2, <3>3, <3>4
    <2> QED
      BY <2>2, <2>3
  <1>4. ASSUME NEW h \in Guid, HandleS(h)
        PROVE  toS # <<>> /\ toS' = Tail(toS) /\ UNCHANGED shown
    BY <1>4 DEF HandleS, CanSendFile, IgnoreRefusal, SendFileResult, InterruptTask, RestartTask,
       CancleTask, HeadIs, userVars
  <1>5. ASSUME NEW h \in Guid, NEW k \in Attempt, Run(h, k) \/ ReleaseRun(h, k) \/ SpuriousWakeup(h, k)
        PROVE  toS' = toS /\ UNCHANGED shown
    BY <1>5 DEF Run, RunStart, RunSetEvent, RunCheck, RunReadBlock, RunSendBlock, RunTestSkip,
       RunEndLoop, RunDigest, Release, ReleaseRun, ReleaseDelete, ReleaseErase, SpuriousWakeup, userVars
  <1>6. ASSUME CloseChannel
        PROVE  Passes /\ UNCHANGED shown
    <2>1. UNCHANGED shown
      BY <1>6 DEF CloseChannel, userVars
    <2>2. \E n \in 0..Len(toS) : toS' = SubSeq(toS, 1, n)
      BY <1>6 DEF CloseChannel
    <2> QED
      BY <2>1, <2>2
  <1>7. ASSUME UNCHANGED vars
        PROVE  toS' = toS /\ UNCHANGED shown
    BY <1>7 DEF vars, userVars
  <1>8. Passes /\ UNCHANGED shown
    BY <1>1, <1>2, <1>3, <1>4, <1>5, <1>6, <1>7 DEF Next
  <1> QED
    BY <1>8, OtherToS DEF ShakesPassed

LEMMA ShakesStep ==
    ASSUME TypeOK, TypeOK', FlowInv', ProgressInv, ShakesOrdered,
           \A g \in Guid : FileSize[g] < DwordMod, [Next]_vars
    PROVE  ShakesOrdered' /\ \A g \in Guid : shown'[g] >= shown[g]
  <1> SUFFICES ASSUME NEW g \in Guid
               PROVE  Ascending(toS', g, shown'[g]) /\ shown'[g] >= shown[g]
    BY DEF ShakesOrdered, Ascending
  <1>1. shown \in [Guid -> Nat] /\ (shown'[g] = shown[g] => shown'[g] >= shown[g])
    BY DEF TypeOK, UserTypes
  <1>2. ASSUME NEW h \in Guid, RecieveBlock(h)
        PROVE  ShakesPassed(g) /\ UNCHANGED shown
    <2>1. UNCHANGED shown
      BY <1>2 DEF RecieveBlock, userVars
    <2> QED
      BY <1>2, <2>1, RecieveBlockShakes
  <1>3. ASSUME ShakeAck(g)
        PROVE  Ascending(toS', g, shown'[g]) /\ shown'[g] >= shown[g]
    BY <1>3, ShakeAckOrdered
  <1>4. ASSUME NEW h \in Guid, h # g, ShakeAck(h)
        PROVE  ShakesPassed(g) /\ shown'[g] = shown[g]
    <2>1. toS # <<>> /\ toS' = Tail(toS) /\ shown'[g] = shown[g]
      BY <1>1, <1>4 DEF ShakeAck, HeadIs
    <2> QED
      BY <2>1, OtherToS DEF ShakesPassed
  <1>5. CASE ShakesPassed(g) /\ shown'[g] = shown[g]
    BY <1>1, <1>5, ShakesKeptOrdered
  <1>6. CASE \A h \in Guid : ~RecieveBlock(h) /\ ~ShakeAck(h)
    BY <1>5, <1>6, OthersUnshaken
  <1> QED
    BY <1>2, <1>3, <1>4, <1>5, <1>6

\* The progress shown to the sender's user never goes back, for files whose
\* size fits the DWORD that acknowledgements carry it in.
THEOREM ProgressIsMonotone ==
    ASSUME MaxSends = 1, \A g \in Guid : FileSize[g] < DwordMod
    PROVE  Spec => ProgressMonotone
  <1>1. Init => ProgressInv /\ ShakesOrdered
    <2>1. Init => ShakesOrdered
      BY DEF Init, ShakesOrdered, Ascending
    <2> QED
      BY <2>1, ProgressInit
  <1>2. /\ AcceptInv /\ AcceptInv' /\ FlowInv' /\ ProgressInv /\ ShakesOrdered /\ [Next]_vars
        => ProgressInv' /\ ShakesOrdered' /\ \A g \in Guid : shown'[g] >= shown[g]
    <2> SUFFICES ASSUME AcceptInv, AcceptInv', FlowInv', ProgressInv, ShakesOrdered, [Next]_vars
                 PROVE  ProgressInv' /\ ShakesOrdered' /\ \A g \in Guid : shown'[g] >= shown[g]
      OBVIOUS
    <2>1. TypeOK /\ TypeOK'
      BY DEF AcceptInv
    <2>2. ProgressInv'
      BY <2>1, ProgressStep
    <2>3. ShakesOrdered' /\ \A g \in Guid : shown'[g] >= shown[g]
      BY <2>1, ShakesStep
    <2> QED
      BY <2>2, <2>3
  <1>3. (\A g \in Guid : shown'[g] >= shown[g]) => [\A g \in Guid : shown'[g] >= shown[g]]_vars
    OBVIOUS
  <1> QED
    BY <1>1, <1>2, <1>3, FlowInvariant, PTL DEF Spec, ProgressMonotone

=============================================================================
