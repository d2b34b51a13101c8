---------------------------- MODULE FileDelivery ----------------------------
(***************************************************************************)
(* What a file transfer promises its two users, without threads, messages  *)
(* or streams: blocks reach the receiver's file in order, the receiver     *)
(* passes one verdict on it, and the sender's user is told that verdict.   *)
(* FileTransfer is shown to implement this.                                *)
(***************************************************************************)
EXTENDS Naturals

CONSTANTS Guid,    \* names of the transfers
          Total    \* blocks of the file behind each name

VARIABLES got,     \* blocks of the file that the receiver holds, in order
          verdict, \* results the receiver came to, for its user
          told     \* results the sender's user was given

vars == <<got, verdict, told>>

Verdicts == {"SUCCESS", "FAILURE"}
Results == Verdicts \cup {"CANCLE"}

TypeOK == /\ \A g \in Guid : got[g] \in 0..Total[g]
          /\ verdict \in [Guid -> SUBSET Results]
          /\ told \in [Guid -> SUBSET Results]

Init == /\ got = [g \in Guid |-> 0]
        /\ verdict = [g \in Guid |-> {}]
        /\ told = [g \in Guid |-> {}]

Judged(g) == verdict[g] \cap Verdicts # {}

\* A verdict is final: nothing is written after it.
Deliver(g) ==
    /\ ~Judged(g)
    /\ got[g] < Total[g]
    /\ got' = [got EXCEPT ![g] = @ + 1]
    /\ UNCHANGED <<verdict, told>>

\* SUCCESS means the whole file, FAILURE that a part is missing.  A transfer
\* that was never accepted is judged too, and an empty file may be.
Judge(g) ==
    /\ ~Judged(g)
    /\ \/ /\ got[g] = Total[g]
          /\ verdict' = [verdict EXCEPT ![g] = @ \cup {"SUCCESS"}]
       \/ /\ got[g] < Total[g] \/ Total[g] = 0
          /\ verdict' = [verdict EXCEPT ![g] = @ \cup {"FAILURE"}]
    /\ UNCHANGED <<got, told>>

\* The sender's user learns the verdict, if nothing was told before.
Tell(g) ==
    /\ told[g] \cap Verdicts = {}
    /\ \E v \in verdict[g] \cap Verdicts : told' = [told EXCEPT ![g] = @ \cup {v}]
    /\ UNCHANGED <<got, verdict>>

\* The channel failed before a verdict: the sender's user is told FAILURE.
Fail(g) ==
    /\ ~Judged(g)
    /\ told' = [told EXCEPT ![g] = @ \cup {"FAILURE"}]
    /\ UNCHANGED <<got, verdict>>

\* Either side may be told that the other one cancelled, at any time.
Cancel(g) ==
    /\ \/ verdict' = [verdict EXCEPT ![g] = @ \cup {"CANCLE"}] /\ UNCHANGED told
       \/ told' = [told EXCEPT ![g] = @ \cup {"CANCLE"}] /\ UNCHANGED verdict
    /\ UNCHANGED got

Next == \E g \in Guid : Deliver(g) \/ Judge(g) \/ Tell(g) \/ Fail(g) \/ Cancel(g)

Spec == Init /\ [][Next]_vars
=============================================================================
