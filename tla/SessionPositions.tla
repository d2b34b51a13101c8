-------------------------- MODULE SessionPositions --------------------------
(***************************************************************************)
(* The positions that the users of Session carry, when one of the two      *)
(* users makes no offer: for every such choice of Offerer and every value  *)
(* of the other constants.                                                 *)
(***************************************************************************)
EXTENDS SessionProofs, SequenceTheorems

-----------------------------------------------------------------------------
(* The roles *)

Of(type) == {d \in Desc : d.type = type}

\* Endpoint e makes and keeps descriptions of one type and gets the other one;
\* one that answers has got the offer that it answers.
Role(e, mine, theirs) ==
    /\ conn[e].requests \in Seq({mine})
    /\ conn[e].made \in Seq(Of(mine))
    /\ conn[e].local.type \in {"none", mine}
    /\ conn[e].remote.type \in {"none", theirs}
    /\ obs[e].own.sdp.type \in {"none", mine}
    /\ mail[e].sdp.type \in {"none", theirs}
    /\ mine = "answer" =>
          conn[e].sig # "SentOffer" /\ (conn[e].requests # <<>> => conn[e].remote.type = "offer")
    /\ mine = "offer" => conn[e].sig # "RecvOffer"

RoleInv(a) == Role(a, "answer", "offer") /\ Role(Peer(a), "offer", "answer")

\* One offers and the other one answers, and calls CreateTurnServerConnection not.
Roles(e, mine, theirs) ==
    \/ mine = "offer" /\ theirs = "answer"
    \/ mine = "answer" /\ theirs = "offer" /\ e \notin Offerer

\* While no description has failed, m_connectedToTurnserverFlag is exactly what
\* the user was told.
ExactlyTold ==
    drops = 0 => \A e \in End :
        obs[e].turnFlag # "Connect_Zero" => told[e].server.state = obs[e].turnFlag

-----------------------------------------------------------------------------
(* The position follows the local description *)

\* Where the one position that an environment reports is: with the user who is
\* to read it, under way, at the endpoint as an offer to answer, or answered.
Awaited(a) == inform[Peer(a)]
UnderWay(a) == mail[a] # NoPosition
Asked(a) == conn[a].requests # <<>>
Answered(a) == conn[a].made # <<>>

\* Before any session ends, the answerer gets one offer at most.
OneOffer(a) ==
    /\ Awaited(a) => ~UnderWay(a)
    /\ Awaited(a) \/ UnderWay(a) \/ obs[Peer(a)].turnFlag = "Connect_Zero" =>
          ~Asked(a) /\ ~Answered(a) /\ conn[a].remote.type = "none"
    /\ obs[Peer(a)].turnFlag = "Connect_Zero" => ~Awaited(a) /\ ~UnderWay(a)
    /\ Asked(a) => ~Answered(a) /\ Len(conn[a].requests) = 1 /\ conn[a].sig = "RecvOffer"
    /\ Answered(a) => Len(conn[a].made) = 1 /\ conn[a].sig = "RecvOffer"
    /\ conn[a].live

\* The position of an endpoint is its local description with its candidates.
PositionIsLocal(e) ==
    conn[e].local.type # "none" =>
        /\ obs[e].own.sdp.type = conn[e].local.type
        /\ obs[e].own.sdp.uf = conn[e].local.uf
        /\ obs[e].own.sdp.cands \cup obs[e].own.cands = conn[e].local.cands

\* Only a connection with a description gathers.
GathersLocal(e) == conn[e].gather # "New" => conn[e].local.type # "none"

PositionInv(a) ==
    /\ GathersLocal(a) /\ GathersLocal(Peer(a))
    /\ PositionIsLocal(Peer(a))
    /\ ends = 0 => OneOffer(a) /\ PositionIsLocal(a)

-----------------------------------------------------------------------------
(* What the actions leave of an endpoint's descriptions *)

\* There are two endpoints.
LEMMA TwoEnds ==
    ASSUME NEW a \in End
    PROVE  Peer(a) \in End /\ Peer(a) # a /\ Peer(Peer(a)) = a /\ End = {a, Peer(a)}
  BY DEF End, Peer

\* The step leaves the descriptions of endpoint e, what it gathers, and the
\* part of the observer that follows them as they are.
DescriptionsKept(e) ==
    /\ conn'[e].live = conn[e].live /\ conn'[e].sig = conn[e].sig
    /\ conn'[e].local = conn[e].local /\ conn'[e].remote = conn[e].remote
    /\ conn'[e].gather = conn[e].gather
    /\ conn'[e].requests = conn[e].requests /\ conn'[e].made = conn[e].made
    /\ obs'[e].own = obs[e].own /\ obs'[e].turnFlag = obs[e].turnFlag

\* The ICE connection and the data channel do not touch them.
LEMMA ConnectivityKeeps ==
    ASSUME TypeOK, NEW e \in End, Connectivity(e)
    PROVE  /\ DescriptionsKept(e)
           /\ told'[e].server = told[e].server
           /\ UNCHANGED <<mail, inform, ends>>
           /\ drops' = 0 => drops = 0
  <1>0. /\ conn[e] \in ConnType /\ obs[e] \in ObsType /\ told[e] \in ToldType /\ drops \in Nat
        /\ DOMAIN conn = End /\ DOMAIN obs = End /\ DOMAIN told = End
    BY SessionAssumption DEF TypeOK
  <1>1. ASSUME NEW s \in DOMAIN IceNext, OnIceConnectionChange(e, s)
        PROVE  /\ DescriptionsKept(e)
               /\ told'[e].server = told[e].server
               /\ UNCHANGED <<mail, inform, ends>>
               /\ drops' = 0 => drops = 0
    <2>1. conn'[e] = [conn[e] EXCEPT !.ice = s] /\ UNCHANGED <<mail, inform, ends>>
      BY <1>0, <1>1 DEF OnIceConnectionChange
    <2>2. drops' = 0 => drops = 0
      BY <1>0, <1>1 DEF OnIceConnectionChange
    <2>3. obs'[e].own = obs[e].own /\ obs'[e].turnFlag = obs[e].turnFlag
      <3>1. obs'[e] \in {obs[e], [obs[e] EXCEPT !.peerFlag = TRUE], Lost(obs[e])}
        BY <1>0, <1>1 DEF OnIceConnectionChange
      <3> QED
        BY <1>0, <3>1 DEF Lost, ObsType
    <2>4. told'[e].server = told[e].server
      <3>1. told' = told \/ \E s1 \in TurnStates : told' = TellPeer(e, s1)
        BY <1>1 DEF OnIceConnectionChange, TurnStates
      <3> QED
        BY <1>0, <3>1 DEF TellPeer, ToldType
    <2>5. /\ conn'[e].live = conn[e].live /\ conn'[e].sig = conn[e].sig
          /\ conn'[e].local = conn[e].local /\ conn'[e].remote = conn[e].remote
          /\ conn'[e].gather = conn[e].gather
          /\ conn'[e].requests = conn[e].requests /\ conn'[e].made = conn[e].made
      BY <1>0, <2>1 DEF ConnType
    <2> QED
      BY <2>1, <2>2, <2>3, <2>4, <2>5 DEF DescriptionsKept
  <1>2. CASE OnDataChannel(e)
    <2>1. obs'[e].own = obs[e].own /\ obs'[e].turnFlag = obs[e].turnFlag
      BY <1>0, <1>2 DEF OnDataChannel, ObsType
    <2> QED
      BY <1>2, <2>1 DEF OnDataChannel, DescriptionsKept
  <1> QED
    BY <1>1, <1>2 DEF Connectivity

\* What SetOppositeSDPInformation leaves: nothing changed, an answer asked for
\* a refused offer, or the description set and an offer to be answered.
LEMMA OppositeEffect ==
    ASSUME NEW c \in ConnType, NEW d \in Desc, NEW x \in OppositeSDP(c, d),
           NEW k \in SUBSET Candidate
    PROVE  LET y == OppositeIceCandidate(x, k)
               asked == IF d.type = "offer" THEN Append(c.requests, "answer") ELSE c.requests
           IN \/ y.sig = c.sig /\ y.remote = c.remote /\ y.requests = c.requests
              \/ /\ y.sig = c.sig /\ y.remote = c.remote /\ y.requests = asked
                 /\ d.type # "none"
                 /\ ~ExpectSetRemote(c, d.type) \/ c.remote.type # "none"
              \/ /\ ExpectSetRemote(c, d.type) /\ d.type # "none"
                 /\ y.sig = IF d.type = "offer" THEN "RecvOffer" ELSE "Stable"
                 /\ y.remote = d /\ y.requests = asked
  <1> DEFINE asked == IF d.type = "offer" THEN Append(c.requests, "answer") ELSE c.requests
  <1>1. ASSUME NEW y \in ConnType
        PROVE  /\ OppositeIceCandidate(y, k).sig = y.sig
               /\ OppositeIceCandidate(y, k).remote = y.remote
               /\ OppositeIceCandidate(y, k).requests = y.requests
    BY <1>1 DEF OppositeIceCandidate, ConnType
  <1>2. ASSUME NEW y \in ConnType
        PROVE  /\ AskAnswer(y, d) \in ConnType
               /\ AskAnswer(y, d).sig = y.sig /\ AskAnswer(y, d).remote = y.remote
               /\ AskAnswer(y, d).requests =
                     IF d.type = "offer" THEN Append(y.requests, "answer") ELSE y.requests
    <2>1. Append(y.requests, "answer") \in Seq({"offer", "answer"})
      BY <1>2 DEF ConnType
    <2> QED
      BY <1>2, <2>1 DEF AskAnswer, ConnType
  <1>3. /\ Remote(c, d) \in ConnType
        /\ Remote(c, d).sig = IF d.type = "offer" THEN "RecvOffer" ELSE "Stable"
        /\ Remote(c, d).remote = d /\ Remote(c, d).requests = c.requests
    BY DEF Remote, ConnType, Desc
  <1>4. \/ x = c
        \/ /\ x = AskAnswer(c, d) /\ d.type # "none"
           /\ ~ExpectSetRemote(c, d.type) \/ c.remote.type # "none"
        \/ /\ x = AskAnswer(Remote(c, d), d) /\ d.type # "none" /\ ExpectSetRemote(c, d.type)
    BY DEF OppositeSDP
  <1>5. CASE x = c
    BY <1>1, <1>5
  <1>6. CASE /\ x = AskAnswer(c, d) /\ d.type # "none"
             /\ ~ExpectSetRemote(c, d.type) \/ c.remote.type # "none"
    BY <1>1, <1>2, <1>6
  <1>7. CASE /\ x = AskAnswer(Remote(c, d), d) /\ d.type # "none" /\ ExpectSetRemote(c, d.type)
    BY <1>1, <1>2, <1>3, <1>7
  <1> QED
    BY <1>4, <1>5, <1>6, <1>7

\* What is left when the peer's position is set, at a connection that is kept
\* or made anew.
LEMMA SetOppositeEffect ==
    ASSUME TypeOK, NEW e \in End, SetOppositeSdpIcecandidate(e)
    PROVE  LET c == IF conn[e].live THEN conn[e] ELSE NewConnection
               d == mail[e].sdp
               y == conn'[e]
               asked == IF d.type = "offer" THEN Append(c.requests, "answer") ELSE c.requests
           IN /\ y.live = c.live /\ y.local = c.local /\ y.made = c.made /\ y.gather = c.gather
              /\ \/ y.sig = c.sig /\ y.remote = c.remote /\ y.requests = c.requests
                 \/ /\ y.sig = c.sig /\ y.remote = c.remote /\ y.requests = asked
                    /\ d.type # "none"
                    /\ ~ExpectSetRemote(c, d.type) \/ c.remote.type # "none"
                 \/ /\ ExpectSetRemote(c, d.type) /\ d.type # "none"
                    /\ y.sig = IF d.type = "offer" THEN "RecvOffer" ELSE "Stable"
                    /\ y.remote = d /\ y.requests = asked
              /\ obs'[e].own = obs[e].own /\ obs'[e].turnFlag = obs[e].turnFlag
              /\ mail'[e] = NoPosition /\ mail'[Peer(e)] = mail[Peer(e)]
              /\ UNCHANGED <<told, inform, ends, drops>>
  <1> DEFINE c == IF conn[e].live THEN conn[e] ELSE NewConnection
             d == mail[e].sdp
  <1>0. /\ conn[e] \in ConnType /\ obs[e] \in ObsType /\ mail[e] \in Position
        /\ DOMAIN conn = End /\ DOMAIN obs = End /\ DOMAIN mail = End
    BY DEF TypeOK
  <1>1. PICK x \in OppositeSDP(c, d) :
           conn' = [conn EXCEPT ![e] = OppositeIceCandidate(x, mail[e].cands)]
    BY DEF SetOppositeSdpIcecandidate
  <1>2. c \in ConnType /\ d \in Desc /\ mail[e].cands \in SUBSET Candidate
    BY <1>0, StartType DEF Position
  <1>3. conn'[e] = OppositeIceCandidate(x, mail[e].cands)
    BY <1>0, <1>1
  <1>4. obs'[e].own = obs[e].own /\ obs'[e].turnFlag = obs[e].turnFlag
    BY <1>0 DEF SetOppositeSdpIcecandidate, InitializePeerConnection, ObsType
  <1>5. /\ mail'[e] = NoPosition /\ mail'[Peer(e)] = mail[Peer(e)]
        /\ UNCHANGED <<told, inform, ends, drops>>
    BY <1>0, TwoEnds DEF SetOppositeSdpIcecandidate
  <1> HIDE DEF c, d
  <1>6. /\ conn'[e].live = c.live /\ conn'[e].local = c.local
        /\ conn'[e].made = c.made /\ conn'[e].gather = c.gather
    BY <1>1, <1>2, <1>3, OppositeKeeps
  <1>7. LET asked == IF d.type = "offer" THEN Append(c.requests, "answer") ELSE c.requests
            y == conn'[e]
        IN \/ y.sig = c.sig /\ y.remote = c.remote /\ y.requests = c.requests
           \/ /\ y.sig = c.sig /\ y.remote = c.remote /\ y.requests = asked
              /\ d.type # "none"
              /\ ~ExpectSetRemote(c, d.type) \/ c.remote.type # "none"
           \/ /\ ExpectSetRemote(c, d.type) /\ d.type # "none"
              /\ y.sig = IF d.type = "offer" THEN "RecvOffer" ELSE "Stable"
              /\ y.remote = d /\ y.requests = asked
    BY <1>1, <1>2, <1>3, OppositeEffect
  <1> QED
    BY <1>4, <1>5, <1>6, <1>7 DEF c, d

\* Making a description takes the first request and leaves the rest.
LEMMA MakeEffect ==
    ASSUME TypeOK, NEW e \in End, MakeDescription(e)
    PROVE  /\ conn[e].requests # <<>>
           /\ conn'[e].requests = Tail(conn[e].requests)
           /\ \E d \in Desc : d.type = Head(conn[e].requests)
                              /\ conn'[e].made = Append(conn[e].made, d)
           /\ conn'[e].live = conn[e].live /\ conn'[e].sig = conn[e].sig
           /\ conn'[e].local = conn[e].local /\ conn'[e].remote = conn[e].remote
           /\ conn'[e].gather = conn[e].gather
           /\ UNCHANGED <<obs, told, inform, mail, ends, drops>>
  <1> DEFINE c == conn[e]
             type == Head(c.requests)
             again == c.local.type # "none" /\ ~(type = "answer" /\ c.latch)
             uf == IF again THEN c.local.uf ELSE ufrags[e] + 1
             d == [type |-> type, uf |-> uf, cands |-> IF again THEN c.local.cands ELSE {}]
  <1>0. conn[e] \in ConnType /\ DOMAIN conn = End /\ ufrags[e] \in Nat
    BY DEF TypeOK
  <1>1. c.requests # <<>> /\ UNCHANGED <<obs, told, inform, mail, ends, drops>>
    BY DEF MakeDescription
  <1>2. type \in {"offer", "answer"} /\ c.local \in Desc
    BY <1>0, <1>1 DEF ConnType
  <1>3. d \in Desc
    BY <1>0, <1>2 DEF Desc
  <1> HIDE DEF d, type
  <1>4. conn' = [conn EXCEPT ![e] = [c EXCEPT !.requests = Tail(c.requests), !.made = Append(c.made, d),
                                              !.latch = c.latch /\ type = "offer"]]
    BY DEF MakeDescription, d, type
  <1>5. conn'[e] = [c EXCEPT !.requests = Tail(c.requests), !.made = Append(c.made, d),
                             !.latch = c.latch /\ type = "offer"]
    BY <1>0, <1>4
  <1>6. /\ conn'[e].requests = Tail(conn[e].requests) /\ conn'[e].made = Append(c.made, d)
        /\ conn'[e].live = conn[e].live /\ conn'[e].sig = conn[e].sig
        /\ conn'[e].local = conn[e].local /\ conn'[e].remote = conn[e].remote
        /\ conn'[e].gather = conn[e].gather
    BY <1>0, <1>5 DEF ConnType
  <1>7. d.type = Head(conn[e].requests)
    BY DEF d, type
  <1> QED
    BY <1>1, <1>3, <1>6, <1>7

\* A failed description takes the first request.
LEMMA FailureEffect ==
    ASSUME TypeOK, NEW e \in End, OnFailure(e)
    PROVE  /\ conn[e].requests # <<>>
           /\ conn'[e].requests = Tail(conn[e].requests) /\ conn'[e].made = conn[e].made
           /\ conn'[e].live = conn[e].live /\ conn'[e].sig = conn[e].sig
           /\ conn'[e].local = conn[e].local /\ conn'[e].remote = conn[e].remote
           /\ conn'[e].gather = conn[e].gather
           /\ UNCHANGED <<obs, inform, mail, ends>>
  <1>0. conn[e] \in ConnType /\ DOMAIN conn = End
    BY DEF TypeOK
  <1>1. conn'[e] = [conn[e] EXCEPT !.requests = Tail(conn[e].requests)]
    BY <1>0 DEF OnFailure
  <1>2. /\ conn'[e].requests = Tail(conn[e].requests) /\ conn'[e].made = conn[e].made
        /\ conn'[e].live = conn[e].live /\ conn'[e].sig = conn[e].sig
        /\ conn'[e].local = conn[e].local /\ conn'[e].remote = conn[e].remote
        /\ conn'[e].gather = conn[e].gather
    BY <1>0, <1>1 DEF ConnType
  <1> QED
    BY <1>2 DEF OnFailure

\* A description handed to OnSuccess is set and read, or, when the session does
\* not expect it, only read.
LEMMA SuccessEffect ==
    ASSUME TypeOK, NEW e \in End, OnSuccess(e)
    PROVE  LET d == Head(conn[e].made) IN
           /\ conn[e].made # <<>> /\ d \in Desc
           /\ conn'[e].made = Tail(conn[e].made) /\ conn'[e].requests = conn[e].requests
           /\ conn'[e].live = conn[e].live /\ conn'[e].remote = conn[e].remote
           /\ IF ExpectSetLocal(conn[e], d.type)
              THEN /\ conn'[e].local = d
                   /\ conn'[e].sig = IF d.type = "offer" THEN "SentOffer" ELSE "Stable"
                   /\ conn'[e].gather \in {conn[e].gather, "Gathering"}
                   /\ obs'[e].own = [sdp |-> d, cands |-> {}]
              ELSE /\ conn'[e].local = conn[e].local /\ conn'[e].sig = conn[e].sig
                   /\ conn'[e].gather = conn[e].gather
                   /\ \E read \in {d, NoDesc} : obs'[e].own = [sdp |-> read, cands |-> {}]
           /\ obs'[e].turnFlag = obs[e].turnFlag
           /\ UNCHANGED <<told, inform, mail, ends, drops>>
  <1> DEFINE d == Head(conn[e].made)
             c == [conn[e] EXCEPT !.made = Tail(@)]
             set == ExpectSetLocal(c, d.type)
  <1>0. /\ conn[e] \in ConnType /\ obs[e] \in ObsType
        /\ DOMAIN conn = End /\ DOMAIN obs = End
    BY DEF TypeOK
  <1>1. conn[e].made # <<>> /\ UNCHANGED <<told, inform, mail, ends, drops>>
    BY DEF OnSuccess
  <1>2. d \in Desc /\ Tail(conn[e].made) \in Seq(Desc)
    BY <1>0, <1>1 DEF ConnType
  <1>3. /\ c \in ConnType /\ c.made = Tail(conn[e].made) /\ c.requests = conn[e].requests
        /\ c.live = conn[e].live /\ c.remote = conn[e].remote /\ c.local = conn[e].local
        /\ c.sig = conn[e].sig /\ c.gather = conn[e].gather
    BY <1>0, <1>2 DEF ConnType
  <1>4. conn'[e] = IF set THEN Local(c, d) ELSE c
    BY <1>0 DEF OnSuccess
  <1>5. PICK read \in IF set THEN {d} ELSE {d, NoDesc} :
           obs' = [obs EXCEPT ![e].own = DealOwerSessionSDP(@, read)]
    BY DEF OnSuccess
  <1>6. obs'[e].own = [sdp |-> read, cands |-> {}] /\ obs'[e].turnFlag = obs[e].turnFlag
    BY <1>0, <1>5 DEF DealOwerSessionSDP, ObsType
  <1>7. set <=> ExpectSetLocal(conn[e], d.type)
    BY <1>3 DEF ExpectSetLocal
  <1> HIDE DEF c, d, set
  <1>8. /\ Local(c, d).local = d /\ Local(c, d).made = c.made
        /\ Local(c, d).requests = c.requests /\ Local(c, d).live = c.live
        /\ Local(c, d).remote = c.remote
        /\ Local(c, d).sig = IF d.type = "offer" THEN "SentOffer" ELSE "Stable"
        /\ Local(c, d).gather \in {c.gather, "Gathering"}
    BY <1>3 DEF Local, ConnType
  <1>9. CASE set
    BY <1>1, <1>2, <1>3, <1>4, <1>5, <1>6, <1>7, <1>8, <1>9 DEF d
  <1>10. CASE ~set
    BY <1>1, <1>2, <1>3, <1>4, <1>5, <1>6, <1>7, <1>10 DEF d
  <1> QED
    BY <1>9, <1>10

\* A local candidate goes into the local description and into the position.
LEMMA CandidateEffect ==
    ASSUME TypeOK, NEW e \in End, NEW k \in Candidate, OnIceCandidate(e, k)
    PROVE  /\ conn[e].gather = "Gathering"
           /\ conn'[e].live = conn[e].live /\ conn'[e].sig = conn[e].sig
           /\ conn'[e].local.type = conn[e].local.type /\ conn'[e].local.uf = conn[e].local.uf
           /\ conn'[e].local.cands = conn[e].local.cands \cup {k}
           /\ conn'[e].remote = conn[e].remote /\ conn'[e].gather = conn[e].gather
           /\ conn'[e].requests = conn[e].requests /\ conn'[e].made = conn[e].made
           /\ obs'[e].own.sdp = obs[e].own.sdp
           /\ obs'[e].own.cands = obs[e].own.cands \cup {k}
           /\ obs'[e].turnFlag = obs[e].turnFlag
           /\ UNCHANGED <<told, inform, mail, ends, drops>>
  <1>0. /\ conn[e] \in ConnType /\ obs[e] \in ObsType
        /\ DOMAIN conn = End /\ DOMAIN obs = End
    BY DEF TypeOK
  <1>1. conn[e].local \in Desc /\ obs[e].own \in Position
    BY <1>0 DEF ConnType, ObsType
  <1>2. /\ conn'[e] = [conn[e] EXCEPT !.seen = @ \cup {k},
                                      !.local = [conn[e].local EXCEPT !.cands = @ \cup {k}]]
        /\ obs'[e] = [obs[e] EXCEPT !.getIce = TRUE,
                                    !.own = [obs[e].own EXCEPT !.cands = @ \cup {k}]]
        /\ conn[e].gather = "Gathering"
        /\ UNCHANGED <<told, inform, mail, ends, drops>>
    BY <1>0 DEF OnIceCandidate
  <1>3. /\ conn'[e].live = conn[e].live /\ conn'[e].sig = conn[e].sig
        /\ conn'[e].local = [conn[e].local EXCEPT !.cands = @ \cup {k}]
        /\ conn'[e].remote = conn[e].remote /\ conn'[e].gather = conn[e].gather
        /\ conn'[e].requests = conn[e].requests /\ conn'[e].made = conn[e].made
    BY <1>0, <1>2 DEF ConnType
  <1>4. /\ obs'[e].own = [obs[e].own EXCEPT !.cands = @ \cup {k}]
        /\ obs'[e].turnFlag = obs[e].turnFlag
    BY <1>0, <1>2 DEF ObsType
  <1> QED
    BY <1>1, <1>2, <1>3, <1>4 DEF Desc, Position

\* The end of a gathering changes the flag with the report, and asks the user
\* to read the position when it is the first success.
LEMMA GatheringEffect ==
    ASSUME TypeOK, NEW e \in End, OnIceGatheringChange(e)
    PROVE  LET s == RecieveGatheringComplete(e) IN
           /\ conn[e].gather = "Gathering" /\ conn'[e].gather = "Complete"
           /\ conn'[e].live = conn[e].live /\ conn'[e].sig = conn[e].sig
           /\ conn'[e].local = conn[e].local /\ conn'[e].remote = conn[e].remote
           /\ conn'[e].requests = conn[e].requests /\ conn'[e].made = conn[e].made
           /\ obs'[e].own = obs[e].own
           /\ obs'[e].turnFlag = IF Reports(e, s) THEN s ELSE obs[e].turnFlag
           /\ told'[e].server.state = IF Reports(e, s) THEN s ELSE told[e].server.state
           /\ inform'[e] = (inform[e] \/ (Reports(e, s) /\ s = "Connect_Success"))
           /\ UNCHANGED <<mail, ends, drops>>
  <1> DEFINE s == RecieveGatheringComplete(e)
  <1>0. /\ conn[e] \in ConnType /\ obs[e] \in ObsType /\ told[e] \in ToldType
        /\ DOMAIN conn = End /\ DOMAIN obs = End /\ DOMAIN told = End /\ DOMAIN inform = End
    BY DEF TypeOK
  <1> HIDE DEF s
  <1>1. /\ conn'[e] = [conn[e] EXCEPT !.gather = "Complete"]
        /\ obs'[e] = Recorded(e, s)
        /\ told' = (IF Reports(e, s) THEN TellServer(e, s) ELSE told)
        /\ inform'[e] = (inform[e] \/ (Reports(e, s) /\ s = "Connect_Success"))
        /\ conn[e].gather = "Gathering"
        /\ UNCHANGED <<mail, ends, drops>>
    BY <1>0 DEF OnIceGatheringChange, s
  <1>2. /\ conn'[e].gather = "Complete"
        /\ conn'[e].live = conn[e].live /\ conn'[e].sig = conn[e].sig
        /\ conn'[e].local = conn[e].local /\ conn'[e].remote = conn[e].remote
        /\ conn'[e].requests = conn[e].requests /\ conn'[e].made = conn[e].made
    BY <1>0, <1>1 DEF ConnType
  <1>3. /\ obs'[e].own = obs[e].own
        /\ obs'[e].turnFlag = IF Reports(e, s) THEN s ELSE obs[e].turnFlag
    BY <1>0, <1>1 DEF Recorded, ObsType
  <1>4. told'[e].server.state = IF Reports(e, s) THEN s ELSE told[e].server.state
    BY <1>0, <1>1 DEF TellServer, ToldType
  <1> QED
    BY <1>1, <1>2, <1>3, <1>4 DEF s

\* The user asks for an offer, at a connection that is live.
LEMMA CreateEffect ==
    ASSUME TypeOK, NEW e \in End, CreateTurnServerConnection(e)
    PROVE  /\ e \in Offerer
           /\ \/ conn'[e].requests = conn[e].requests
              \/ conn'[e].requests = Append(conn[e].requests, "offer")
           /\ conn'[e].live = conn[e].live /\ conn'[e].sig = conn[e].sig
           /\ conn'[e].local = conn[e].local /\ conn'[e].remote = conn[e].remote
           /\ conn'[e].gather = conn[e].gather /\ conn'[e].made = conn[e].made
           /\ UNCHANGED <<obs, told, inform, mail, ends, drops>>
  <1>0. conn[e] \in ConnType /\ DOMAIN conn = End
    BY DEF TypeOK
  <1>1. conn'[e] = [conn[e] EXCEPT !.requests = IF conn[e].live THEN Append(@, "offer") ELSE @]
    BY <1>0 DEF CreateTurnServerConnection
  <1>2. /\ \/ conn'[e].requests = conn[e].requests
           \/ conn'[e].requests = Append(conn[e].requests, "offer")
        /\ conn'[e].live = conn[e].live /\ conn'[e].sig = conn[e].sig
        /\ conn'[e].local = conn[e].local /\ conn'[e].remote = conn[e].remote
        /\ conn'[e].gather = conn[e].gather /\ conn'[e].made = conn[e].made
    BY <1>0, <1>1 DEF ConnType
  <1> QED
    BY <1>2 DEF CreateTurnServerConnection

\* The user starts to close a session: its descriptions are kept meanwhile.
LEMMA CloseEffect ==
    ASSUME TypeOK, NEW e \in End, CloseTurnServerConnection(e)
    PROVE  /\ DescriptionsKept(e)
           /\ ends' = ends + 1 /\ UNCHANGED <<told, inform, mail, drops>>
  <1>0. /\ conn[e] \in ConnType /\ obs[e] \in ObsType
        /\ DOMAIN conn = End /\ DOMAIN obs = End
    BY DEF TypeOK
  <1>1. /\ conn'[e] = [conn[e] EXCEPT !.closing = TRUE]
        /\ obs'[e] = [obs[e] EXCEPT !.chan = NoChannel]
        /\ ends' = ends + 1 /\ UNCHANGED <<told, inform, mail, drops>>
    BY <1>0 DEF CloseTurnServerConnection
  <1>2. /\ conn'[e].live = conn[e].live /\ conn'[e].sig = conn[e].sig
        /\ conn'[e].local = conn[e].local /\ conn'[e].remote = conn[e].remote
        /\ conn'[e].gather = conn[e].gather
        /\ conn'[e].requests = conn[e].requests /\ conn'[e].made = conn[e].made
    BY <1>0, <1>1 DEF ConnType
  <1>3. obs'[e].own = obs[e].own /\ obs'[e].turnFlag = obs[e].turnFlag
    BY <1>0, <1>1 DEF ObsType
  <1> QED
    BY <1>1, <1>2, <1>3 DEF DescriptionsKept

\* A session is over: the connection is empty, the observer keeps its position
\* or starts from nothing.
LEMMA EndEffect ==
    ASSUME TypeOK, NEW e \in End, DeletePeerConnection(e) \/ RecreateEnvironment(e)
    PROVE  /\ conn'[e].requests = <<>> /\ conn'[e].made = <<>>
           /\ conn'[e].local = NoDesc /\ conn'[e].remote = NoDesc
           /\ conn'[e].sig = "Init" /\ conn'[e].gather = "New"
           /\ obs'[e].own \in {obs[e].own, NoPosition}
           /\ \/ told'[e] = told[e] /\ obs'[e].turnFlag = obs[e].turnFlag
              \/ told'[e] = NotTold /\ obs'[e].turnFlag = "Connect_Zero"
           /\ inform'[e] => inform[e]
           /\ UNCHANGED <<mail, drops>>
           /\ conn[e].closing \/ ends' = ends + 1
  <1>0. /\ obs[e] \in ObsType
        /\ DOMAIN conn = End /\ DOMAIN obs = End /\ DOMAIN told = End /\ DOMAIN inform = End
    BY DEF TypeOK
  <1>1. CASE DeletePeerConnection(e)
    <2>1. /\ conn'[e] = NoConnection /\ obs'[e] = [obs[e] EXCEPT !.peerFlag = FALSE]
          /\ conn[e].closing /\ UNCHANGED <<told, inform, mail, drops>>
      BY <1>0, <1>1 DEF DeletePeerConnection
    <2>2. obs'[e].own = obs[e].own /\ obs'[e].turnFlag = obs[e].turnFlag
      BY <1>0, <2>1 DEF ObsType
    <2> QED
      BY <2>1, <2>2 DEF NoConnection
  <1>2. CASE RecreateEnvironment(e)
    <2>1. /\ conn'[e] = NewConnection
          /\ obs'[e] = InitializePeerConnection(NewObserver, sessions[e] + 1)
          /\ told'[e] = NotTold /\ inform'[e] = FALSE
          /\ ends' = ends + 1 /\ UNCHANGED <<mail, drops>>
      BY <1>0, <1>2 DEF RecreateEnvironment
    <2>2. obs'[e].own = NoPosition /\ obs'[e].turnFlag = "Connect_Zero"
      BY <2>1 DEF InitializePeerConnection, NewObserver
    <2> QED
      BY <2>1, <2>2 DEF NewConnection, NoConnection
  <1> QED
    BY <1>1, <1>2

\* The user reads the position and sends it to the other one.
LEMMA GetEffect ==
    ASSUME TypeOK, NEW e \in End, GetLocaltionSdpIcecandidate(e)
    PROVE  /\ inform[e] /\ ~inform'[e] /\ inform'[Peer(e)] = inform[Peer(e)]
           /\ mail'[Peer(e)] = obs[e].own /\ mail'[e] = mail[e]
           /\ UNCHANGED <<conn, obs, told, ends, drops>>
  BY TwoEnds DEF TypeOK, GetLocaltionSdpIcecandidate

-----------------------------------------------------------------------------
(* One of the two offers, the other one answers *)

\* Requests and descriptions of one type stay so.
LEMMA SeqOps ==
    ASSUME NEW T, NEW q \in Seq(T)
    PROVE  /\ q # <<>> => Head(q) \in T /\ Tail(q) \in Seq(T)
           /\ \A x \in T : Append(q, x) \in Seq(T)
           /\ <<>> \in Seq(T)
  OBVIOUS

\* Nothing is left of a sequence of one element without it.
LEMMA TailOfOne ==
    ASSUME NEW T, NEW q \in Seq(T), Len(q) = 1
    PROVE  Tail(q) = <<>>
  <1>0. q # <<>>
    BY EmptySeq
  <1>1. Tail(q) \in Seq(T) /\ Len(Tail(q)) = 0
    BY <1>0
  <1> QED
    BY <1>1, EmptySeq

LEMMA RoleStepOwn ==
    ASSUME TypeOK, NEW e \in End, NEW mine, NEW theirs, Roles(e, mine, theirs),
           Role(e, mine, theirs),
           User(e) \/ Exchange(e) \/ Describe(e) \/ Gather(e) \/ Connectivity(e)
    PROVE  Role(e, mine, theirs)'
  <1> USE DEF Role, Roles
  <1>0. conn[e].requests \in Seq({mine}) /\ conn[e].made \in Seq(Of(mine))
    OBVIOUS
  <1>a. \A d \in Of(mine) : d \in Desc /\ d.type = mine
    BY DEF Of
  <1>b. /\ NoDesc.type = "none" /\ NoPosition.sdp.type = "none"
    BY DEF NoDesc, NoPosition
  <1>1. CASE CreateTurnServerConnection(e)
    <2>1. mine = "offer" /\ theirs = "answer"
      BY <1>1, CreateEffect
    <2>2. Append(conn[e].requests, "offer") \in Seq({mine})
      BY <1>0, <2>1
    <2> QED
      BY <1>1, <2>1, <2>2, CreateEffect
  <1>2. CASE DeletePeerConnection(e) \/ RecreateEnvironment(e)
    BY <1>b, <1>2, EndEffect, SeqOps
  <1>c. CASE CloseTurnServerConnection(e)
    BY <1>c, CloseEffect DEF DescriptionsKept
  <1>3. CASE GetLocaltionSdpIcecandidate(e)
    BY <1>3, GetEffect
  <1>4. CASE SetOppositeSdpIcecandidate(e)
    <2> DEFINE c == IF conn[e].live THEN conn[e] ELSE NewConnection
               d == mail[e].sdp
               asked == IF d.type = "offer" THEN Append(c.requests, "answer") ELSE c.requests
    <2>1. /\ c.requests \in Seq({mine}) /\ c.made \in Seq(Of(mine))
          /\ c.local.type \in {"none", mine} /\ c.remote.type \in {"none", theirs}
          /\ mine = "answer" =>
                c.sig # "SentOffer" /\ (c.requests # <<>> => c.remote.type = "offer")
          /\ mine = "offer" => c.sig # "RecvOffer"
      <3>1. CASE conn[e].live
        BY <3>1
      <3>2. CASE ~conn[e].live
        BY <1>b, <3>2, SeqOps DEF NewConnection, NoConnection
      <3> QED
        BY <3>1, <3>2
    <2> HIDE DEF c
    <2>2. d.type \in {"none", theirs}
      OBVIOUS
    <2>3. asked \in Seq({mine})
      BY <2>1, <2>2, SeqOps
    <2>4. /\ conn'[e].made = c.made /\ conn'[e].local = c.local
          /\ obs'[e].own = obs[e].own /\ mail'[e] = NoPosition
          /\ \/ conn'[e].sig = c.sig /\ conn'[e].remote = c.remote
                /\ conn'[e].requests = c.requests
             \/ /\ conn'[e].sig = c.sig /\ conn'[e].remote = c.remote
                /\ conn'[e].requests = asked /\ d.type # "none"
                /\ ~ExpectSetRemote(c, d.type) \/ c.remote.type # "none"
             \/ /\ ExpectSetRemote(c, d.type) /\ d.type # "none"
                /\ conn'[e].sig = IF d.type = "offer" THEN "RecvOffer" ELSE "Stable"
                /\ conn'[e].remote = d /\ conn'[e].requests = asked
      BY <1>4, SetOppositeEffect DEF c
    <2> HIDE DEF d, asked
    <2>5. CASE conn'[e].sig = c.sig /\ conn'[e].remote = c.remote /\ conn'[e].requests = c.requests
      BY <1>b, <2>1, <2>4, <2>5
    <2>6. CASE /\ conn'[e].sig = c.sig /\ conn'[e].remote = c.remote
               /\ conn'[e].requests = asked /\ d.type # "none"
               /\ ~ExpectSetRemote(c, d.type) \/ c.remote.type # "none"
      BY <1>b, <2>1, <2>2, <2>3, <2>4, <2>6 DEF ExpectSetRemote
    <2>7. CASE /\ ExpectSetRemote(c, d.type) /\ d.type # "none"
               /\ conn'[e].sig = IF d.type = "offer" THEN "RecvOffer" ELSE "Stable"
               /\ conn'[e].remote = d /\ conn'[e].requests = asked
      BY <1>b, <2>1, <2>2, <2>3, <2>4, <2>7
    <2> QED
      BY <2>4, <2>5, <2>6, <2>7
  <1>5. CASE MakeDescription(e)
    <2>1. PICK d \in Desc : /\ d.type = Head(conn[e].requests)
                            /\ conn'[e].made = Append(conn[e].made, d)
      BY <1>5, MakeEffect
    <2>2. d \in Of(mine)
      BY <1>0, <1>5, <2>1, SeqOps, MakeEffect DEF Of
    <2>3. /\ Append(conn[e].made, d) \in Seq(Of(mine))
          /\ Tail(conn[e].requests) \in Seq({mine})
      BY <1>0, <1>5, <2>2, SeqOps, MakeEffect
    <2> QED
      BY <1>5, <2>1, <2>3, MakeEffect
  <1>6. CASE OnFailure(e)
    BY <1>0, <1>6, SeqOps, FailureEffect
  <1>7. CASE OnSuccess(e)
    <2> DEFINE d == Head(conn[e].made)
    <2>1. d.type = mine /\ Tail(conn[e].made) \in Seq(Of(mine))
      BY <1>0, <1>a, <1>7, SeqOps, SuccessEffect
    <2>2. /\ conn'[e].made = Tail(conn[e].made) /\ conn'[e].requests = conn[e].requests
          /\ conn'[e].remote = conn[e].remote /\ mail' = mail
          /\ IF ExpectSetLocal(conn[e], d.type)
             THEN /\ conn'[e].local = d /\ obs'[e].own = [sdp |-> d, cands |-> {}]
                  /\ conn'[e].sig = IF d.type = "offer" THEN "SentOffer" ELSE "Stable"
             ELSE /\ conn'[e].local = conn[e].local /\ conn'[e].sig = conn[e].sig
                  /\ \E read \in {d, NoDesc} : obs'[e].own = [sdp |-> read, cands |-> {}]
      BY <1>7, SuccessEffect
    <2> HIDE DEF d
    <2>3. conn'[e].local.type \in {"none", mine} /\ obs'[e].own.sdp.type \in {"none", mine}
      BY <1>b, <2>1, <2>2
    <2>4. /\ mine = "answer" => conn'[e].sig # "SentOffer"
          /\ mine = "offer" => conn'[e].sig # "RecvOffer"
      BY <2>1, <2>2
    <2> QED
      BY <2>1, <2>2, <2>3, <2>4
  <1>8. CASE Gather(e)
    <2>1. ASSUME NEW k \in Candidate, OnIceCandidate(e, k)
          PROVE  Role(e, mine, theirs)'
      BY <2>1, CandidateEffect
    <2>2. CASE OnIceGatheringChange(e)
      BY <2>2, GatheringEffect
    <2> QED
      BY <1>8, <2>1, <2>2 DEF Gather
  <1>9. CASE Connectivity(e)
    BY <1>9, ConnectivityKeeps DEF DescriptionsKept
  <1> QED
    BY <1>1, <1>2, <1>c, <1>3, <1>4, <1>5, <1>6, <1>7, <1>8, <1>9 DEF User, Exchange, Describe

\* A step of e may only send its position to the other endpoint.
LEMMA MailSent ==
    ASSUME TypeOK, NEW e \in End, NEW x \in End, x # e,
           User(e) \/ Exchange(e) \/ Describe(e) \/ Gather(e) \/ Connectivity(e)
    PROVE  mail'[x] \in {mail[x], obs[e].own}
  <1>0. x = Peer(e) /\ DOMAIN mail = End
    BY TwoEnds DEF TypeOK
  <1>1. CASE User(e)
    BY <1>1 DEF User, CreateTurnServerConnection, CloseTurnServerConnection,
                DeletePeerConnection, RecreateEnvironment
  <1>2. CASE Exchange(e)
    BY <1>0, <1>2, GetEffect, SetOppositeEffect DEF Exchange
  <1>3. CASE Describe(e)
    BY <1>3 DEF Describe, MakeDescription, OnFailure, OnSuccess
  <1>4. CASE Gather(e)
    BY <1>4 DEF Gather, OnIceCandidate, OnIceGatheringChange
  <1>5. CASE Connectivity(e)
    BY <1>5, ConnectivityKeeps
  <1> QED
    BY <1>1, <1>2, <1>3, <1>4, <1>5

LEMMA RoleInit ==
    ASSUME NEW a \in End
    PROVE  Init => RoleInv(a)
  <1> SUFFICES ASSUME Init, NEW e \in End, NEW mine, NEW theirs PROVE Role(e, mine, theirs)
    BY TwoEnds DEF RoleInv
  <1>1. conn[e] = NewConnection /\ mail[e] = NoPosition
    BY DEF Init
  <1>2. obs[e].own = NoPosition
    BY DEF Init, InitializePeerConnection, NewObserver
  <1>3. /\ conn[e].requests = <<>> /\ conn[e].made = <<>> /\ conn[e].sig = "Init"
        /\ conn[e].local.type = "none" /\ conn[e].remote.type = "none"
    BY <1>1 DEF NewConnection, NoConnection, NoDesc
  <1>4. NoPosition.sdp.type = "none"
    BY DEF NoPosition, NoDesc
  <1> QED
    BY <1>1, <1>2, <1>3, <1>4 DEF Role

LEMMA RoleStep ==
    ASSUME NEW a \in End, a \notin Offerer
    PROVE  TypeOK /\ RoleInv(a) /\ [Next]_vars => RoleInv(a)'
  <1> SUFFICES ASSUME TypeOK, RoleInv(a), [Next]_vars PROVE RoleInv(a)'
    OBVIOUS
  <1>1. CASE UNCHANGED vars
    BY <1>1 DEF vars, RoleInv, Role
  <1>2. ASSUME NEW e \in End,
               User(e) \/ Exchange(e) \/ Describe(e) \/ Gather(e) \/ Connectivity(e)
        PROVE  RoleInv(a)'
    <2>1. ASSUME NEW x \in End, x # e, NEW mine, NEW theirs,
                 Role(x, mine, theirs), Role(e, theirs, mine)
          PROVE  Role(x, mine, theirs)'
      <3>1. conn'[x] = conn[x] /\ obs'[x] = obs[x] /\ mail'[x] \in {mail[x], obs[e].own}
        BY <1>2, <2>1, OthersKept, MailSent
      <3> QED
        BY <2>1, <3>1 DEF Role
    <2>2. CASE e = a
      BY <1>2, <2>1, <2>2, TwoEnds, RoleStepOwn DEF RoleInv, Roles
    <2>3. CASE e = Peer(a)
      BY <1>2, <2>1, <2>3, TwoEnds, RoleStepOwn DEF RoleInv, Roles
    <2> QED
      BY <2>2, <2>3, TwoEnds
  <1> QED
    BY <1>1, <1>2 DEF Next

LEMMA RoleInvariant ==
    ASSUME NEW a \in End, a \notin Offerer
    PROVE  Spec => []RoleInv(a)
  BY RoleInit, RoleStep, TypeCorrect, PTL DEF Spec

-----------------------------------------------------------------------------
(* What was recorded was told *)

LEMMA ExactStep ==
    ASSUME NEW a \in End, a \notin Offerer
    PROVE  TypeOK /\ RoleInv(a) /\ ExactlyTold /\ [Next]_vars => ExactlyTold'
  <1> SUFFICES ASSUME TypeOK, RoleInv(a), ExactlyTold, [Next]_vars, drops' = 0, NEW x \in End,
                      obs'[x].turnFlag # "Connect_Zero"
               PROVE  told'[x].server.state = obs'[x].turnFlag
    BY DEF ExactlyTold
  <1>0. drops \in Nat
    BY SessionAssumption DEF TypeOK
  <1>1. CASE UNCHANGED vars
    BY <1>1 DEF vars, ExactlyTold
  <1>2. ASSUME NEW e \in End,
               User(e) \/ Exchange(e) \/ Describe(e) \/ Gather(e) \/ Connectivity(e)
        PROVE  told'[x].server.state = obs'[x].turnFlag
    <2>1. ~OnFailure(e)
      <3> SUFFICES ASSUME OnFailure(e) PROVE FALSE
        OBVIOUS
      <3>1. Head(conn[e].requests) = "answer" /\ conn[e].remote.type # "offer"
        BY <1>0 DEF OnFailure
      <3>2. CASE e = a
        BY <3>1, <3>2 DEF RoleInv, Role, OnFailure
      <3>3. CASE e = Peer(a)
        <4>1. conn[e].requests \in Seq({"offer"}) /\ conn[e].requests # <<>>
          BY <3>3 DEF RoleInv, Role, OnFailure
        <4> QED
          BY <3>1, <4>1
      <3> QED
        BY <3>2, <3>3, TwoEnds
    <2>2. drops = 0
      BY <1>0, <1>2, <2>1, ConnectivityKeeps
         DEF User, CreateTurnServerConnection, CloseTurnServerConnection,
             DeletePeerConnection, RecreateEnvironment, Exchange, GetLocaltionSdpIcecandidate, SetOppositeSdpIcecandidate,
             Describe, MakeDescription, OnSuccess, Gather, OnIceCandidate, OnIceGatheringChange
    <2>3. obs[x].turnFlag # "Connect_Zero" => told[x].server.state = obs[x].turnFlag
      BY <2>2 DEF ExactlyTold
    <2>4. CASE x # e
      BY <1>2, <2>3, <2>4, OthersKept
    <2>5. CASE x = e
      <3>1. CASE User(e)
        BY <2>3, <2>5, <3>1, CreateEffect, CloseEffect, EndEffect DEF User, DescriptionsKept
      <3>2. CASE Exchange(e)
        BY <2>3, <2>5, <3>2, GetEffect, SetOppositeEffect DEF Exchange
      <3>3. CASE Describe(e)
        BY <2>1, <2>3, <2>5, <3>3, MakeEffect, SuccessEffect DEF Describe
      <3>4. CASE Gather(e)
        BY <2>3, <2>5, <3>4, CandidateEffect, GatheringEffect DEF Gather
      <3>5. CASE Connectivity(e)
        BY <2>3, <2>5, <3>5, ConnectivityKeeps DEF DescriptionsKept
      <3> QED
        BY <1>2, <3>1, <3>2, <3>3, <3>4, <3>5
    <2> QED
      BY <2>4, <2>5
  <1> QED
    BY <1>1, <1>2 DEF Next

\* OnIceGatheringChange drops no state that it has recorded: what the observer
\* recorded of the server is what the user was last told, but for the failure of
\* a description since; and without one it is exactly that.  (When both users
\* offer, the refused offer of one is a failed answer of the other.)
THEOREM RecordedTold ==
    ASSUME NEW a \in End, a \notin Offerer
    PROVE  Spec => []RecordedIsTold
  <1>1. Init => ExactlyTold
    <2> SUFFICES ASSUME Init, NEW e \in End PROVE obs[e].turnFlag = "Connect_Zero"
      BY DEF ExactlyTold
    <2> QED
      BY DEF Init, InitializePeerConnection, NewObserver
  <1>2. Spec => []ExactlyTold
    BY <1>1, ExactStep, RoleInvariant, TypeCorrect, PTL DEF Spec
  <1>3. ExactlyTold /\ ReportInv => RecordedIsTold
    BY DEF ExactlyTold, ReportInv, Reported, ServerTold, RecordedIsTold
  <1> QED
    BY <1>2, <1>3, ReportInvariant, PTL

-----------------------------------------------------------------------------
(* The position is complete *)

\* A step of e keeps its position equal to its local description, if the
\* descriptions handed to OnSuccess are expected.
LEMMA LocalStepOwn ==
    ASSUME TypeOK, NEW e \in End, NEW mine, NEW theirs, Roles(e, mine, theirs),
           Role(e, mine, theirs), GathersLocal(e),
           User(e) \/ Exchange(e) \/ Describe(e) \/ Gather(e) \/ Connectivity(e)
    PROVE  /\ GathersLocal(e)'
           /\ /\ PositionIsLocal(e)
              /\ OnSuccess(e) => ExpectSetLocal(conn[e], Head(conn[e].made).type)
              => PositionIsLocal(e)'
  <1> USE DEF GathersLocal, PositionIsLocal
  <1>0. conn[e].made \in Seq(Of(mine)) /\ conn[e].local \in Desc /\ obs[e].own \in Position
    BY DEF Role, TypeOK, ConnType, ObsType
  <1>1. CASE CreateTurnServerConnection(e)
    BY <1>1, CreateEffect
  <1>2. CASE DeletePeerConnection(e) \/ RecreateEnvironment(e)
    BY <1>2, EndEffect DEF NoDesc
  <1>c. CASE CloseTurnServerConnection(e)
    BY <1>c, CloseEffect DEF DescriptionsKept
  <1>3. CASE GetLocaltionSdpIcecandidate(e)
    BY <1>3, GetEffect
  <1>4. CASE SetOppositeSdpIcecandidate(e)
    <2> DEFINE c == IF conn[e].live THEN conn[e] ELSE NewConnection
    <2>1. /\ conn'[e].local = c.local /\ conn'[e].gather = c.gather
          /\ obs'[e].own = obs[e].own
      BY <1>4, SetOppositeEffect
    <2>2. CASE conn[e].live
      BY <2>1, <2>2
    <2>3. CASE ~conn[e].live
      BY <2>1, <2>3 DEF NewConnection, NoConnection, NoDesc
    <2> QED
      BY <2>2, <2>3
  <1>5. CASE MakeDescription(e)
    BY <1>5, MakeEffect
  <1>6. CASE OnFailure(e)
    BY <1>6, FailureEffect
  <1>7. CASE OnSuccess(e)
    <2> DEFINE d == Head(conn[e].made)
    <2>0. d \in Of(mine)
      BY <1>0, <1>7, SeqOps, SuccessEffect
    <2>1. d.type = mine /\ mine # "none" /\ d.cands \cup {} = d.cands
      BY <2>0 DEF Of, Roles
    <2>2. IF ExpectSetLocal(conn[e], d.type)
          THEN conn'[e].local = d /\ obs'[e].own = [sdp |-> d, cands |-> {}]
          ELSE conn'[e].local = conn[e].local /\ conn'[e].gather = conn[e].gather
      BY <1>7, SuccessEffect
    <2> HIDE DEF d
    <2>3. GathersLocal(e)'
      BY <2>1, <2>2
    <2>4. ExpectSetLocal(conn[e], d.type) => PositionIsLocal(e)'
      BY <2>1, <2>2
    <2> QED
      BY <1>7, <2>3, <2>4 DEF d
  <1>8. CASE Gather(e)
    <2>1. ASSUME NEW k \in Candidate, OnIceCandidate(e, k)
          PROVE  GathersLocal(e)' /\ (PositionIsLocal(e) => PositionIsLocal(e)')
      <3>1. (obs[e].own.sdp.cands \cup obs[e].own.cands) \cup {k}
               = obs[e].own.sdp.cands \cup (obs[e].own.cands \cup {k})
        OBVIOUS
      <3> QED
        BY <2>1, <3>1, CandidateEffect
    <2>2. CASE OnIceGatheringChange(e)
      BY <2>2, GatheringEffect
    <2> QED
      BY <1>8, <2>1, <2>2 DEF Gather
  <1>9. CASE Connectivity(e)
    BY <1>9, ConnectivityKeeps DEF DescriptionsKept
  <1> QED
    BY <1>1, <1>2, <1>c, <1>3, <1>4, <1>5, <1>6, <1>7, <1>8, <1>9 DEF User, Exchange, Describe

\* Steps of the answerer consume the one offer.
LEMMA OneOfferAnswerer ==
    ASSUME TypeOK, ReportInv, NEW a \in End, a \notin Offerer, RoleInv(a), OneOffer(a), ends' = 0,
           User(a) \/ Exchange(a) \/ Describe(a) \/ Gather(a) \/ Connectivity(a)
    PROVE  OneOffer(a)'
  <1> USE DEF OneOffer, Awaited, UnderWay, Asked, Answered
  <1>0. /\ conn[a].requests \in Seq({"answer"}) /\ conn[a].made \in Seq(Of("answer"))
        /\ ends \in Nat
    BY SessionAssumption DEF RoleInv, Role, TypeOK
  <1>a. /\ conn'[Peer(a)] = conn[Peer(a)] /\ obs'[Peer(a)] = obs[Peer(a)]
        /\ inform'[Peer(a)] = inform[Peer(a)]
    BY TwoEnds, OthersKept
  <1>1. CASE User(a)
    <2>1. ~CreateTurnServerConnection(a)
      BY CreateEffect
    <2>2. ends' = ends + 1 \/ conn[a].closing
      BY <1>1, <2>1, CloseEffect, EndEffect DEF User
    <2>3. conn[a].closing => ends' > 0
      BY <1>1, EndsGrow DEF ReportInv, Reported, ClosingEnded
    <2> QED
      BY <1>0, <2>2, <2>3
  <1>2. CASE GetLocaltionSdpIcecandidate(a)
    BY <1>a, <1>2, GetEffect
  <1>3. CASE SetOppositeSdpIcecandidate(a)
    <2> DEFINE d == mail[a].sdp
               asked == IF d.type = "offer" THEN Append(conn[a].requests, "answer")
                        ELSE conn[a].requests
    <2>1. /\ conn'[a].live /\ conn'[a].made = conn[a].made
          /\ mail'[a] = NoPosition
          /\ \/ conn'[a].sig = conn[a].sig /\ conn'[a].remote = conn[a].remote
                /\ conn'[a].requests = conn[a].requests
             \/ /\ conn'[a].sig = conn[a].sig /\ conn'[a].remote = conn[a].remote
                /\ conn'[a].requests = asked /\ d.type # "none"
                /\ ~ExpectSetRemote(conn[a], d.type) \/ conn[a].remote.type # "none"
             \/ /\ ExpectSetRemote(conn[a], d.type) /\ d.type # "none"
                /\ conn'[a].sig = IF d.type = "offer" THEN "RecvOffer" ELSE "Stable"
                /\ conn'[a].remote = d /\ conn'[a].requests = asked
      BY <1>3, SetOppositeEffect
    <2>2. /\ UnderWay(a) /\ ~Awaited(a) /\ obs[Peer(a)].turnFlag # "Connect_Zero"
          /\ conn[a].requests = <<>> /\ conn[a].made = <<>> /\ conn[a].remote.type = "none"
      BY <1>3 DEF SetOppositeSdpIcecandidate
    <2>3. d.type \in {"none", "offer"} /\ conn[a].sig # "SentOffer"
      BY DEF RoleInv, Role
    <2>4. d.type # "none" => d.type = "offer" /\ ExpectSetRemote(conn[a], d.type)
      BY <2>3 DEF ExpectSetRemote
    <2>5. d.type = "offer" => asked = <<"answer">> /\ Len(asked) = 1
      BY <2>2
    <2> HIDE DEF d, asked
    <2>6. /\ ~Awaited(a)' /\ ~UnderWay(a)' /\ obs'[Peer(a)].turnFlag # "Connect_Zero"
          /\ conn'[a].made = <<>>
      BY <1>a, <2>1, <2>2
    <2>7. \/ conn'[a].requests = <<>>
          \/ Len(conn'[a].requests) = 1 /\ conn'[a].sig = "RecvOffer"
      BY <2>1, <2>2, <2>4, <2>5
    <2> QED
      BY <2>1, <2>6, <2>7
  <1>4. CASE MakeDescription(a)
    <2>1. PICK d \in Desc : conn'[a].made = Append(conn[a].made, d)
      BY <1>4, MakeEffect
    <2>2. /\ conn[a].requests # <<>> /\ Len(conn[a].requests) = 1 /\ conn[a].made = <<>>
          /\ conn'[a].requests = Tail(conn[a].requests)
      BY <1>4, MakeEffect
    <2>3. conn'[a].requests = <<>> /\ Len(conn'[a].made) = 1
      BY <1>0, <2>1, <2>2, TailOfOne
    <2> QED
      BY <1>a, <1>4, <2>2, <2>3, MakeEffect
  <1>5. CASE OnFailure(a)
    <2>1. conn[a].requests # <<>> /\ Len(conn[a].requests) = 1
          /\ conn'[a].requests = Tail(conn[a].requests)
      BY <1>5, FailureEffect
    <2>2. conn'[a].requests = <<>>
      BY <1>0, <2>1, TailOfOne
    <2> QED
      BY <1>a, <1>5, <2>1, <2>2, FailureEffect
  <1>6. CASE OnSuccess(a)
    <2>1. conn[a].made # <<>> /\ Len(conn[a].made) = 1 /\ conn'[a].made = Tail(conn[a].made)
      BY <1>6, SuccessEffect
    <2>2. conn'[a].made = <<>>
      BY <1>0, <2>1, TailOfOne
    <2>3. /\ conn'[a].requests = conn[a].requests /\ conn'[a].live = conn[a].live
          /\ conn'[a].remote = conn[a].remote /\ mail' = mail
      BY <1>6, SuccessEffect
    <2> QED
      BY <1>a, <2>1, <2>2, <2>3
  <1>7. CASE Gather(a)
    BY <1>a, <1>7, CandidateEffect, GatheringEffect DEF Gather
  <1>8. CASE Connectivity(a)
    BY <1>a, <1>8, ConnectivityKeeps DEF DescriptionsKept
  <1> QED
    BY <1>1, <1>2, <1>3, <1>4, <1>5, <1>6, <1>7, <1>8 DEF Exchange, Describe

\* Steps of the offerer: the first success asks for the position, no other does.
LEMMA OneOfferOfferer ==
    ASSUME TypeOK, ReportInv, NEW a \in End, OneOffer(a), NEW b \in End, b = Peer(a), ends' = 0,
           User(b) \/ Exchange(b) \/ Describe(b) \/ Gather(b) \/ Connectivity(b)
    PROVE  OneOffer(a)'
  <1> USE DEF OneOffer, Awaited, UnderWay, Asked, Answered
  <1>0. a # b /\ Peer(b) = a /\ ends \in Nat
    BY TwoEnds, SessionAssumption DEF TypeOK
  <1>a. conn'[a] = conn[a]
    BY <1>0, OthersKept
  <1>1. CASE User(b)
    <2>1. CASE CreateTurnServerConnection(b)
      BY <1>a, <2>1, CreateEffect
    <2>2. CASE ~CreateTurnServerConnection(b)
      <3>1. ends' = ends + 1 \/ conn[b].closing
        BY <1>1, <2>2, CloseEffect, EndEffect DEF User
      <3>2. conn[b].closing => ends' > 0
        BY <1>1, EndsGrow DEF ReportInv, Reported, ClosingEnded
      <3> QED
        BY <1>0, <3>1, <3>2
    <2> QED
      BY <2>1, <2>2
  <1>2. CASE GetLocaltionSdpIcecandidate(b)
    BY <1>0, <1>a, <1>2, GetEffect
  <1>3. CASE SetOppositeSdpIcecandidate(b)
    BY <1>0, <1>a, <1>3, SetOppositeEffect
  <1>4. CASE Describe(b)
    BY <1>a, <1>4, MakeEffect, FailureEffect, SuccessEffect DEF Describe
  <1>5. ASSUME NEW k \in Candidate, OnIceCandidate(b, k)
        PROVE  OneOffer(a)'
    BY <1>a, <1>5, CandidateEffect
  <1>6. CASE OnIceGatheringChange(b)
    <2> DEFINE s == RecieveGatheringComplete(b)
    <2>1. s \in TurnStates /\ obs[b].turnFlag \in TurnStates \cup {"Connect_Zero"}
      BY GatheringState DEF TypeOK, ObsType
    <2>2. /\ obs'[b].turnFlag = IF Reports(b, s) THEN s ELSE obs[b].turnFlag
          /\ inform'[b] = (inform[b] \/ (Reports(b, s) /\ s = "Connect_Success"))
          /\ mail' = mail
      BY <1>6, GatheringEffect
    <2> HIDE DEF s
    <2>3. obs'[b].turnFlag # "Connect_Zero"
      BY <2>1, <2>2 DEF Reports, TurnStates
    <2>4. inform'[b] => inform[b] \/ obs[b].turnFlag = "Connect_Zero"
      BY <2>1, <2>2 DEF Reports, TurnStates
    <2> QED
      BY <1>a, <2>2, <2>3, <2>4
  <1>7. CASE Connectivity(b)
    BY <1>a, <1>7, ConnectivityKeeps DEF DescriptionsKept
  <1> QED
    BY <1>1, <1>2, <1>3, <1>4, <1>5, <1>6, <1>7 DEF Exchange, Gather

LEMMA PositionInit ==
    ASSUME NEW a \in End
    PROVE  Init => PositionInv(a)
  <1> SUFFICES ASSUME Init PROVE PositionInv(a)
    OBVIOUS
  <1>1. \A e \in End : /\ conn[e].gather = "New" /\ conn[e].local.type = "none"
                       /\ conn[e].remote.type = "none"
                       /\ conn[e].requests = <<>> /\ conn[e].made = <<>> /\ conn[e].live
    BY DEF Init, NewConnection, NoConnection, NoDesc
  <1>2. \A e \in End : mail[e] = NoPosition /\ inform[e] = FALSE
    BY DEF Init
  <1> QED
    BY <1>1, <1>2, TwoEnds DEF PositionInv, GathersLocal, PositionIsLocal, OneOffer,
                               Awaited, UnderWay, Asked, Answered

LEMMA PositionStep ==
    ASSUME NEW a \in End, a \notin Offerer
    PROVE  TypeOK /\ ReportInv /\ RoleInv(a) /\ PositionInv(a) /\ [Next]_vars => PositionInv(a)'
  <1> SUFFICES ASSUME TypeOK, ReportInv, RoleInv(a), PositionInv(a), [Next]_vars
               PROVE  PositionInv(a)'
    OBVIOUS
  <1>1. CASE UNCHANGED vars
    BY <1>1 DEF vars, PositionInv, GathersLocal, PositionIsLocal, OneOffer,
                Awaited, UnderWay, Asked, Answered
  <1>2. ASSUME NEW e \in End,
               User(e) \/ Exchange(e) \/ Describe(e) \/ Gather(e) \/ Connectivity(e)
        PROVE  PositionInv(a)'
    <2>0. ends' = 0 => ends = 0
      BY <1>2, EndsGrow
    <2>1. ASSUME NEW x \in End, x # e
          PROVE  /\ GathersLocal(x) => GathersLocal(x)'
                 /\ PositionIsLocal(x) => PositionIsLocal(x)'
      BY <1>2, <2>1, OthersKept DEF GathersLocal, PositionIsLocal
    <2>2. CASE e = a
      <3>1. GathersLocal(a)' /\ GathersLocal(Peer(a))' /\ PositionIsLocal(Peer(a))'
        BY <1>2, <2>1, <2>2, TwoEnds, LocalStepOwn DEF RoleInv, Roles, PositionInv
      <3>2. ASSUME ends' = 0 PROVE OneOffer(a)' /\ PositionIsLocal(a)'
        <4>1. OneOffer(a) /\ PositionIsLocal(a)
          BY <2>0, <3>2 DEF PositionInv
        <4>2. OnSuccess(a) => ExpectSetLocal(conn[a], Head(conn[a].made).type)
          <5> SUFFICES ASSUME OnSuccess(a)
                       PROVE  conn[a].sig = "RecvOffer" /\ Head(conn[a].made).type = "answer"
            BY DEF ExpectSetLocal
          <5>1. conn[a].made # <<>> /\ conn[a].made \in Seq(Of("answer"))
            BY DEF OnSuccess, RoleInv, Role
          <5>2. Head(conn[a].made) \in Of("answer")
            BY <5>1, SeqOps
          <5> QED
            BY <4>1, <5>1, <5>2 DEF OneOffer, Answered, Of
        <4>3. PositionIsLocal(a)'
          BY <1>2, <2>2, <4>1, <4>2, LocalStepOwn DEF RoleInv, Roles, PositionInv
        <4> QED
          BY <1>2, <2>2, <3>2, <4>1, <4>3, OneOfferAnswerer
      <3> QED
        BY <3>1, <3>2 DEF PositionInv
    <2>3. CASE e = Peer(a)
      <3>1. GathersLocal(a)' /\ GathersLocal(e)'
        BY <1>2, <2>1, <2>3, TwoEnds, LocalStepOwn DEF RoleInv, Roles, PositionInv
      <3>2. OnSuccess(e) => ExpectSetLocal(conn[e], Head(conn[e].made).type)
        <4> SUFFICES ASSUME OnSuccess(e)
                     PROVE  conn[e].sig # "RecvOffer" /\ Head(conn[e].made).type = "offer"
          BY DEF ExpectSetLocal
        <4>1. /\ conn[e].made # <<>> /\ conn[e].made \in Seq(Of("offer"))
              /\ conn[e].sig # "RecvOffer"
          BY <2>3 DEF OnSuccess, RoleInv, Role
        <4>2. Head(conn[e].made) \in Of("offer")
          BY <4>1, SeqOps
        <4> QED
          BY <4>1, <4>2 DEF Of
      <3>3. PositionIsLocal(e)'
        BY <1>2, <2>3, <3>2, LocalStepOwn DEF RoleInv, Roles, PositionInv
      <3>4. ASSUME ends' = 0 PROVE OneOffer(a)' /\ PositionIsLocal(a)'
        <4>1. OneOffer(a) /\ PositionIsLocal(a)
          BY <2>0, <3>4 DEF PositionInv
        <4> QED
          BY <1>2, <2>1, <2>3, <3>4, <4>1, TwoEnds, OneOfferOfferer
      <3> QED
        BY <2>3, <3>1, <3>3, <3>4 DEF PositionInv
    <2> QED
      BY <2>2, <2>3, TwoEnds
  <1> QED
    BY <1>1, <1>2 DEF Next

LEMMA PositionInvariant ==
    ASSUME NEW a \in End, a \notin Offerer
    PROVE  Spec => []PositionInv(a)
  BY PositionInit, PositionStep, RoleInvariant, ReportInvariant, TypeCorrect, PTL DEF Spec

\* Endpoints whose position the invariant speaks of.
LEMMA OneSessionPosition ==
    ASSUME NEW a \in End, a \notin Offerer, PositionInv(a), NEW e \in End, OneSession(e)
    PROVE  PositionIsLocal(e) /\ GathersLocal(e)
  <1>1. CASE e = a
    BY <1>1 DEF PositionInv, OneSession
  <1>2. CASE e = Peer(a)
    BY <1>2 DEF PositionInv
  <1> QED
    BY <1>1, <1>2, TwoEnds

\* The position that the user reads is the connection's local description with
\* all its candidates: DealOwerSessionSDP and DealOwerIceCandidate keep up with
\* SetLocalDescription in every interleaving of offers, answers, candidates, new
\* credentials and new sessions, when one of the users leaves offering to the
\* other one.
THEOREM PositionsComplete ==
    ASSUME NEW a \in End, a \notin Offerer
    PROVE  Spec => []PositionComplete
  <1>1. PositionInv(a) => PositionComplete
    BY OneSessionPosition DEF PositionComplete, PositionIsLocal
  <1> QED
    BY <1>1, PositionInvariant, PTL

\* Whenever OnIceGatheringChange tells the user that the server is reached, the
\* position to be read then holds the candidates for it.
THEOREM ReportsUsable ==
    ASSUME NEW a \in End, a \notin Offerer
    PROVE  Spec => ReportedUsable
  <1> DEFINE Usable ==
         \A e \in End :
             inform'[e] /\ ~inform[e] /\ OneSession(e) =>
                 LET p == obs'[e].own IN
                 /\ p.sdp.type = "offer" => TurnKinds \subseteq p.sdp.cands \cup p.cands
                 /\ p.sdp.cands \cup p.cands # {}
  <1>1. TypeOK /\ PositionInv(a) /\ [Next]_vars => [Usable]_vars
    <2> SUFFICES ASSUME TypeOK, PositionInv(a), Next, NEW e \in End,
                        inform'[e], ~inform[e], OneSession(e)
                 PROVE  LET p == obs'[e].own IN
                        /\ p.sdp.type = "offer" => TurnKinds \subseteq p.sdp.cands \cup p.cands
                        /\ p.sdp.cands \cup p.cands # {}
      OBVIOUS
    <2>1. PICK x \in End : User(x) \/ Exchange(x) \/ Describe(x) \/ Gather(x) \/ Connectivity(x)
      BY DEF Next
    <2>2. x = e
      BY <2>1, OthersKept
    <2>3. OnIceGatheringChange(e)
      BY <2>1, <2>2, CreateEffect, CloseEffect, EndEffect, GetEffect, SetOppositeEffect, MakeEffect,
         FailureEffect, SuccessEffect, CandidateEffect, ConnectivityKeeps
         DEF User, Exchange, Describe, Gather
    <2> DEFINE p == obs[e].own
               l == conn[e].local
    <2>4. /\ RecieveGatheringComplete(e) = "Connect_Success" /\ obs'[e].own = p
          /\ conn[e].gather = "Gathering"
      BY <2>3, GatheringEffect
    <2>5. l.type # "none" /\ p.sdp.type = l.type /\ p.sdp.cands \cup p.cands = l.cands
      BY <2>4, OneSessionPosition DEF PositionIsLocal, GathersLocal
    <2>6. IF l.type = "offer" THEN TurnKinds \subseteq l.cands ELSE l.cands # {}
      BY <2>4 DEF RecieveGatheringComplete, Match
    <2>7. l.cands # {}
      BY <2>6, SessionAssumption
    <2> QED
      BY <2>4, <2>5, <2>6, <2>7
  <1>2. Spec => [][Usable]_vars
    BY <1>1, PositionInvariant, TypeCorrect, PTL DEF Spec
  <1> QED
    BY <1>2 DEF ReportedUsable
=============================================================================
