--------------------------- MODULE SessionProofs ---------------------------
(***************************************************************************)
(* Theorems about Session, for every value of its constants: any kinds of  *)
(* candidates, either, both or no endpoint offering, and any number of     *)
(* offers, closed sessions and lost connections.                           *)
(***************************************************************************)
EXTENDS Session, TLAPS

-----------------------------------------------------------------------------
(* The types of what the actions build *)

\* The values that Init and the calls of the user start from.
LEMMA StartType ==
    /\ NoDesc \in Desc
    /\ NoPosition \in Position
    /\ NoConnection \in ConnType /\ NewConnection \in ConnType
    /\ NewObserver \in ObsType
    /\ NotTold \in ToldType
  <1>1. NoDesc \in Desc
    BY DEF NoDesc, Desc
  <1>2. NoPosition \in Position
    BY <1>1 DEF NoPosition, Position
  <1>3. NoConnection \in ConnType
    BY <1>1 DEF NoConnection, ConnType, IceNext
  <1>4. NewConnection \in ConnType
    BY <1>3 DEF NewConnection, ConnType
  <1>5. NewObserver \in ObsType
    BY <1>2 DEF NewObserver, NoChannel, ObsType
  <1>6. NotTold \in ToldType
    BY DEF NotTold, ToldType
  <1> QED
    BY <1>1, <1>2, <1>3, <1>4, <1>5, <1>6

\* A new observer, one with a channel and one that has lost its peer.
LEMMA ObserverType ==
    ASSUME NEW o \in ObsType, NEW n \in Nat
    PROVE  /\ InitializePeerConnection(o, n) \in ObsType
           /\ Lost(o) \in ObsType
  BY DEF InitializePeerConnection, Lost, ObsType, NoChannel

\* The connections that a remote position may leave are connections.
LEMMA OppositeType ==
    ASSUME NEW c \in ConnType, NEW d \in Desc, NEW x \in OppositeSDP(c, d),
           NEW k \in SUBSET Candidate
    PROVE  OppositeIceCandidate(x, k) \in ConnType
  <1>1. ASSUME NEW y \in ConnType PROVE AskAnswer(y, d) \in ConnType
    <2>1. Append(y.requests, "answer") \in Seq({"offer", "answer"})
      BY <1>1 DEF ConnType
    <2> QED
      BY <1>1, <2>1 DEF AskAnswer, ConnType
  <1>2. Remote(c, d) \in ConnType
    BY DEF Remote, ConnType, Desc
  <1>3. x \in ConnType
    BY <1>1, <1>2 DEF OppositeSDP
  <1> QED
    BY <1>3 DEF OppositeIceCandidate, ConnType

\* Setting a local description leaves a connection.
LEMMA LocalType ==
    ASSUME NEW c \in ConnType, NEW d \in Desc
    PROVE  Local(c, d) \in ConnType
  BY DEF Local, ConnType, Desc

\* A report to the user is one that the user knows.
LEMMA TellType ==
    ASSUME TypeOK, NEW e \in End, NEW s \in TurnStates
    PROVE  /\ TellServer(e, s) \in [End -> ToldType]
           /\ TellPeer(e, s) \in [End -> ToldType]
  <1>1. conn[e].local.uf \in Nat /\ sessions[e] \in Nat /\ told \in [End -> ToldType]
    BY DEF TypeOK, ConnType, Desc
  <1> QED
    BY <1>1 DEF TellServer, TellPeer, ToldType

\* What the end of a gathering says is a state that the user knows.
LEMMA GatheringState ==
    ASSUME NEW e \in End
    PROVE  RecieveGatheringComplete(e) \in TurnStates
  BY DEF RecieveGatheringComplete, TurnStates

-----------------------------------------------------------------------------
(* Every step keeps the types *)

LEMMA TypeInit == Init => TypeOK
  <1> SUFFICES ASSUME Init PROVE TypeOK
    OBVIOUS
  <1>1. MaxOffers \in Nat /\ MaxEnds \in Nat /\ MaxDrops \in Nat
    BY SessionAssumption
  <1>2. InitializePeerConnection(NewObserver, 1) \in ObsType
    BY StartType, ObserverType
  <1> QED
    BY <1>1, <1>2, StartType DEF Init, TypeOK

\* The calls of the user.
LEMMA UserType ==
    ASSUME TypeOK, NEW e \in End, User(e)
    PROVE  TypeOK'
  <1>0. /\ MaxOffers \in Nat /\ MaxEnds \in Nat
        /\ conn[e] \in ConnType /\ obs[e] \in ObsType /\ sessions[e] + 1 \in Nat
    BY SessionAssumption DEF TypeOK
  <1>1. CASE CreateTurnServerConnection(e)
    <2>1. Append(conn[e].requests, "offer") \in Seq({"offer", "answer"})
      BY <1>0 DEF ConnType
    <2>2. [conn[e] EXCEPT !.requests = IF conn[e].live THEN Append(@, "offer") ELSE @] \in ConnType
      BY <1>0, <2>1 DEF ConnType
    <2>3. conn' \in [End -> ConnType]
      BY <1>1, <2>2 DEF CreateTurnServerConnection, TypeOK
    <2>4. offers' \in [End -> 0..MaxOffers]
      BY <1>0, <1>1 DEF CreateTurnServerConnection, TypeOK
    <2> QED
      BY <1>1, <2>3, <2>4 DEF CreateTurnServerConnection, TypeOK
  <1>2. CASE CloseTurnServerConnection(e)
    <2>1. [conn[e] EXCEPT !.closing = TRUE] \in ConnType
      BY <1>0 DEF ConnType
    <2>2. [obs[e] EXCEPT !.chan = NoChannel] \in ObsType
      BY <1>0 DEF ObsType, NoChannel
    <2>3. conn' \in [End -> ConnType] /\ obs' \in [End -> ObsType] /\ ends' \in 0..MaxEnds
      BY <1>0, <1>2, <2>1, <2>2 DEF CloseTurnServerConnection, TypeOK
    <2> QED
      BY <1>2, <2>3 DEF CloseTurnServerConnection, TypeOK
  <1>3. CASE DeletePeerConnection(e)
    <2>1. [obs[e] EXCEPT !.peerFlag = FALSE] \in ObsType
      BY <1>0 DEF ObsType
    <2> QED
      BY <1>3, <2>1, StartType DEF DeletePeerConnection, TypeOK
  <1>4. CASE RecreateEnvironment(e)
    <2>1. InitializePeerConnection(NewObserver, sessions[e] + 1) \in ObsType
      BY <1>0, StartType, ObserverType
    <2> QED
      BY <1>0, <1>4, <2>1, StartType DEF RecreateEnvironment, TypeOK
  <1> QED
    BY <1>1, <1>2, <1>3, <1>4 DEF User

\* The positions that the users carry.
LEMMA ExchangeType ==
    ASSUME TypeOK, NEW e \in End, Exchange(e)
    PROVE  TypeOK'
  <1>0. conn[e] \in ConnType /\ obs[e] \in ObsType /\ sessions[e] \in Nat /\ mail[e] \in Position
    BY DEF TypeOK
  <1>1. CASE GetLocaltionSdpIcecandidate(e)
    <2>1. obs[e].own \in Position
      BY <1>0 DEF ObsType
    <2> QED
      BY <1>1, <2>1 DEF GetLocaltionSdpIcecandidate, TypeOK
  <1>2. CASE SetOppositeSdpIcecandidate(e)
    <2> DEFINE made == ~conn[e].live
               session == IF made THEN sessions[e] + 1 ELSE sessions[e]
               c0 == IF made THEN NewConnection ELSE conn[e]
    <2>1. session \in Nat /\ c0 \in ConnType
      BY <1>0, StartType
    <2>2. mail[e].sdp \in Desc /\ mail[e].cands \in SUBSET Candidate
      BY <1>0 DEF Position
    <2>3. PICK c \in OppositeSDP(c0, mail[e].sdp) :
             conn' = [conn EXCEPT ![e] = OppositeIceCandidate(c, mail[e].cands)]
      BY <1>2 DEF SetOppositeSdpIcecandidate
    <2>4. conn' \in [End -> ConnType]
      BY <2>1, <2>2, <2>3, OppositeType DEF TypeOK
    <2>5. obs' \in [End -> ObsType]
      BY <1>0, <1>2, <2>1, ObserverType DEF SetOppositeSdpIcecandidate, TypeOK
    <2>6. sessions' \in [End -> Nat]
      BY <1>2, <2>1 DEF SetOppositeSdpIcecandidate, TypeOK
    <2>7. mail' \in [End -> Position]
      BY <1>2, StartType DEF SetOppositeSdpIcecandidate, TypeOK
    <2> QED
      BY <1>2, <2>4, <2>5, <2>6, <2>7 DEF SetOppositeSdpIcecandidate, TypeOK
  <1> QED
    BY <1>1, <1>2 DEF Exchange

\* The descriptions that the peer connection makes.
LEMMA DescribeType ==
    ASSUME TypeOK, NEW e \in End, Describe(e)
    PROVE  TypeOK'
  <1>0. conn[e] \in ConnType /\ obs[e] \in ObsType /\ ufrags[e] \in Nat /\ MaxDrops \in Nat
    BY SessionAssumption DEF TypeOK
  <1>1. CASE MakeDescription(e)
    <2> DEFINE c == conn[e]
               type == Head(c.requests)
               again == c.local.type # "none" /\ ~(type = "answer" /\ c.latch)
               uf == IF again THEN c.local.uf ELSE ufrags[e] + 1
               d == [type |-> type, uf |-> uf, cands |-> IF again THEN c.local.cands ELSE {}]
    <2>1. /\ c.requests \in Seq({"offer", "answer"}) /\ c.made \in Seq(Desc)
          /\ c.local \in Desc /\ c.latch \in BOOLEAN
      BY <1>0 DEF ConnType
    <2>2. type \in {"offer", "answer"} /\ Tail(c.requests) \in Seq({"offer", "answer"})
      BY <1>1, <2>1 DEF MakeDescription
    <2>3. uf \in Nat
      BY <1>0, <2>1 DEF Desc
    <2>4. d \in Desc
      BY <2>1, <2>2, <2>3 DEF Desc
    <2>5. Append(c.made, d) \in Seq(Desc)
      BY <2>1, <2>4
    <2>6. (c.latch /\ type = "offer") \in BOOLEAN
      BY <2>1
    <2> HIDE DEF again, uf, d, type
    <2>7. /\ ufrags' = [ufrags EXCEPT ![e] = IF again THEN @ ELSE uf]
          /\ conn' = [conn EXCEPT ![e] =
                        [c EXCEPT !.requests = Tail(c.requests), !.made = Append(c.made, d),
                                  !.latch = c.latch /\ type = "offer"]]
      BY <1>1 DEF MakeDescription, again, uf, d, type
    <2>8. [c EXCEPT !.requests = Tail(c.requests), !.made = Append(c.made, d),
                    !.latch = c.latch /\ type = "offer"] \in ConnType
      BY <1>0, <2>2, <2>5, <2>6 DEF ConnType
    <2>9. conn' \in [End -> ConnType] /\ ufrags' \in [End -> Nat]
      BY <1>0, <2>3, <2>7, <2>8 DEF TypeOK
    <2> QED
      BY <1>1, <2>9 DEF MakeDescription, TypeOK
  <1>2. CASE OnFailure(e)
    <2>1. Tail(conn[e].requests) \in Seq({"offer", "answer"})
      BY <1>0, <1>2 DEF OnFailure, ConnType
    <2>2. conn' \in [End -> ConnType]
      BY <1>0, <1>2, <2>1 DEF OnFailure, ConnType, TypeOK
    <2>3. told' \in [End -> ToldType]
      BY <1>2, TellType DEF OnFailure, TurnStates
    <2>4. drops' \in 0..MaxDrops
      BY <1>0, <1>2 DEF OnFailure, TypeOK
    <2> QED
      BY <1>2, <2>2, <2>3, <2>4 DEF OnFailure, TypeOK
  <1>3. CASE OnSuccess(e)
    <2> DEFINE d == Head(conn[e].made)
               c == [conn[e] EXCEPT !.made = Tail(@)]
    <2>1. d \in Desc /\ Tail(conn[e].made) \in Seq(Desc)
      BY <1>0, <1>3 DEF OnSuccess, ConnType
    <2>2. c \in ConnType
      BY <1>0, <2>1 DEF ConnType
    <2>3. Local(c, d) \in ConnType
      BY <2>1, <2>2, LocalType
    <2>4. conn' \in [End -> ConnType]
      BY <1>3, <2>2, <2>3 DEF OnSuccess, TypeOK
    <2>5. PICK read \in {d, NoDesc} :
             obs' = [obs EXCEPT ![e].own = DealOwerSessionSDP(@, read)]
      BY <1>3 DEF OnSuccess
    <2>6. obs' \in [End -> ObsType]
      BY <1>0, <2>1, <2>5, StartType DEF DealOwerSessionSDP, TypeOK, ObsType, Position
    <2> QED
      BY <1>3, <2>4, <2>6 DEF OnSuccess, TypeOK
  <1> QED
    BY <1>1, <1>2, <1>3 DEF Describe

\* Gathering.
LEMMA GatherType ==
    ASSUME TypeOK, NEW e \in End, Gather(e)
    PROVE  TypeOK'
  <1>0. conn[e] \in ConnType /\ obs[e] \in ObsType
    BY DEF TypeOK
  <1>1. ASSUME NEW k \in Candidate, OnIceCandidate(e, k)
        PROVE  TypeOK'
    <2>1. /\ conn[e].seen \cup {k} \in SUBSET Candidate
          /\ conn[e].local.cands \cup {k} \in SUBSET Candidate
          /\ conn[e].local \in Desc
      BY <1>0 DEF ConnType, Desc
    <2>2. [conn[e].local EXCEPT !.cands = @ \cup {k}] \in Desc
      BY <2>1 DEF Desc
    <2>3. conn' \in [End -> ConnType]
      BY <1>0, <1>1, <2>1, <2>2 DEF OnIceCandidate, TypeOK, ConnType
    <2>4. obs[e].own \in Position
      BY <1>0 DEF ObsType
    <2>5. [obs[e].own EXCEPT !.cands = @ \cup {k}] \in Position
      BY <2>4 DEF Position
    <2>6. obs' \in [End -> ObsType]
      BY <1>0, <1>1, <2>5 DEF OnIceCandidate, TypeOK, ObsType
    <2> QED
      BY <1>1, <2>3, <2>6 DEF OnIceCandidate, TypeOK
  <1>2. CASE OnIceGatheringChange(e)
    <2> DEFINE s == RecieveGatheringComplete(e)
    <2>1. s \in TurnStates
      BY GatheringState
    <2> HIDE DEF s
    <2>2. Recorded(e, s) \in ObsType
      BY <1>0, <2>1 DEF Recorded, ObsType
    <2>3. obs' \in [End -> ObsType]
      BY <1>2, <2>2 DEF OnIceGatheringChange, TypeOK, s
    <2>4. told' \in [End -> ToldType]
      BY <1>2, <2>1, TellType DEF OnIceGatheringChange, TypeOK, s
    <2>5. conn' \in [End -> ConnType]
      BY <1>0, <1>2 DEF OnIceGatheringChange, TypeOK, ConnType
    <2>6. inform' \in [End -> BOOLEAN]
      BY <1>2 DEF OnIceGatheringChange, TypeOK
    <2> QED
      BY <1>2, <2>3, <2>4, <2>5, <2>6 DEF OnIceGatheringChange, TypeOK
  <1> QED
    BY <1>1, <1>2 DEF Gather

\* The ICE connection and the channel that the peer opens.
LEMMA ConnectivityType ==
    ASSUME TypeOK, NEW e \in End, Connectivity(e)
    PROVE  TypeOK'
  <1>0. conn[e] \in ConnType /\ obs[e] \in ObsType /\ MaxDrops \in Nat
    BY SessionAssumption DEF TypeOK
  <1>1. ASSUME NEW s \in DOMAIN IceNext, OnIceConnectionChange(e, s)
        PROVE  TypeOK'
    <2>1. conn' \in [End -> ConnType]
      BY <1>0, <1>1 DEF OnIceConnectionChange, TypeOK, ConnType
    <2>2. [obs[e] EXCEPT !.peerFlag = TRUE] \in ObsType /\ Lost(obs[e]) \in ObsType
      BY <1>0, ObserverType DEF ObsType
    <2>3. obs' \in [End -> ObsType]
      BY <1>1, <2>2 DEF OnIceConnectionChange, TypeOK
    <2>4. told' \in [End -> ToldType]
      BY <1>1, TellType DEF OnIceConnectionChange, TypeOK, TurnStates
    <2>5. drops' \in 0..MaxDrops
      BY <1>0, <1>1 DEF OnIceConnectionChange, TypeOK
    <2> QED
      BY <1>1, <2>1, <2>3, <2>4, <2>5 DEF OnIceConnectionChange, TypeOK
  <1>2. CASE OnDataChannel(e)
    BY <1>0, <1>2 DEF OnDataChannel, TypeOK, ObsType
  <1> QED
    BY <1>1, <1>2 DEF Connectivity

LEMMA TypeStep == TypeOK /\ [Next]_vars => TypeOK'
  <1>1. CASE UNCHANGED vars
    BY <1>1 DEF vars, TypeOK
  <1> QED
    BY <1>1, UserType, ExchangeType, DescribeType, GatherType, ConnectivityType DEF Next

\* Session keeps its types: the observer's fields, the descriptions, positions
\* and reports have their types after any sequence of the user's calls and the
\* peer connection's callbacks, and the user is told no state but success,
\* failure and disconnect.
THEOREM TypeCorrect == Spec => []TypeOK
  BY TypeInit, TypeStep, PTL DEF Spec

-----------------------------------------------------------------------------
(* The inductive invariant behind the reports *)

\* A closed connection holds nothing, and the observer's flag says so.
ClosedIsEmpty(e) == ~conn[e].live => conn[e] = NoConnection /\ ~obs[e].peerFlag

\* Only a session that the user ends is being closed.
ClosingEnded(e) == conn[e].closing => ends > 0

\* m_messageChannel is of the current session, while this lasts.
ChannelCurrent(e) == conn[e].live /\ ~conn[e].closing => obs[e].chan.session = sessions[e]

\* m_connectedToPeerFlag is set exactly for what the user was told in this
\* session, and in the state Connected of the ICE connection it is set; a lost
\* connection was told, and a recovered one was told or has lost its flag.
FlagTold(e) ==
    /\ obs[e].peerFlag =>
          told[e].peer = [state |-> "Connect_Success", session |-> sessions[e]]
    /\ conn[e].ice = "Connected" => obs[e].peerFlag
    /\ conn[e].ice = "Disconnected" =>
          told[e].peer = [state |-> "Disconnect", session |-> sessions[e]]
    /\ conn[e].ice = "Completed" =>
          \/ obs[e].peerFlag
          \/ told[e].peer = [state |-> "Disconnect", session |-> sessions[e]]

\* m_connectedToTurnserverFlag is what the user was told, or a description
\* failed since; a gathering does not end without setting it.
ServerTold(e) ==
    /\ obs[e].turnFlag # "Connect_Zero" =>
          told[e].server.state \in {obs[e].turnFlag, "Connect_Failure"}
    /\ conn[e].gather = "Complete" => obs[e].turnFlag # "Connect_Zero"

Reported(e) ==
    ClosedIsEmpty(e) /\ ClosingEnded(e) /\ ChannelCurrent(e) /\ FlagTold(e) /\ ServerTold(e)

ReportInv == \A e \in End : Reported(e)

-----------------------------------------------------------------------------
(* Every step keeps the reports true *)

\* A step that leaves an endpoint alone keeps what it has reported.
LEMMA ReportFrame ==
    ASSUME NEW x \in End, Reported(x),
           conn'[x] = conn[x], obs'[x] = obs[x], told'[x] = told[x], sessions'[x] = sessions[x],
           ends > 0 => ends' > 0
    PROVE  Reported(x)'
  BY DEF Reported, ClosedIsEmpty, ClosingEnded, ChannelCurrent, FlagTold, ServerTold

\* Ended sessions stay ended.
LEMMA EndsGrow ==
    ASSUME TypeOK, NEW e \in End,
           User(e) \/ Exchange(e) \/ Describe(e) \/ Gather(e) \/ Connectivity(e)
    PROVE  ends \in Nat /\ ends' \in {ends, ends + 1}
  <1>0. ends \in Nat
    BY SessionAssumption DEF TypeOK
  <1>1. CASE User(e)
    BY <1>0, <1>1 DEF User, CreateTurnServerConnection, CloseTurnServerConnection,
                DeletePeerConnection, RecreateEnvironment
  <1>2. CASE Exchange(e) \/ Describe(e)
    BY <1>0, <1>2 DEF Exchange, GetLocaltionSdpIcecandidate, SetOppositeSdpIcecandidate,
                Describe, MakeDescription, OnFailure, OnSuccess
  <1>3. CASE Gather(e)
    BY <1>0, <1>3 DEF Gather, OnIceCandidate, OnIceGatheringChange
  <1>4. CASE Connectivity(e)
    <2>1. ASSUME NEW s, OnIceConnectionChange(e, s)
          PROVE  ends' = ends
      BY <2>1 DEF OnIceConnectionChange
    <2>2. CASE OnDataChannel(e)
      BY <1>0, <2>2 DEF OnDataChannel
    <2> QED
      BY <1>0, <1>4, <2>1, <2>2 DEF Connectivity
  <1> QED
    BY <1>0, <1>1, <1>2, <1>3, <1>4

\* A step of endpoint e touches no other endpoint's connection and observer.
LEMMA OthersKept ==
    ASSUME TypeOK, NEW e \in End, NEW x \in End, x # e,
           User(e) \/ Exchange(e) \/ Describe(e) \/ Gather(e) \/ Connectivity(e)
    PROVE  /\ conn'[x] = conn[x] /\ obs'[x] = obs[x]
           /\ told'[x] = told[x] /\ sessions'[x] = sessions[x]
           /\ inform'[x] = inform[x]
  <1>0. /\ DOMAIN conn = End /\ DOMAIN obs = End /\ DOMAIN told = End
        /\ DOMAIN sessions = End /\ DOMAIN inform = End
    BY DEF TypeOK
  <1>1. CASE User(e)
    BY <1>0, <1>1 DEF User, CreateTurnServerConnection, CloseTurnServerConnection,
                      DeletePeerConnection, RecreateEnvironment
  <1>2. CASE Exchange(e)
    BY <1>0, <1>2 DEF Exchange, GetLocaltionSdpIcecandidate, SetOppositeSdpIcecandidate
  <1>3. CASE Describe(e)
    <2>1. CASE MakeDescription(e)
      BY <1>0, <2>1 DEF MakeDescription
    <2>2. CASE OnFailure(e)
      BY <1>0, <2>2 DEF OnFailure, TellServer
    <2>3. CASE OnSuccess(e)
      BY <1>0, <2>3 DEF OnSuccess
    <2> QED
      BY <1>3, <2>1, <2>2, <2>3 DEF Describe
  <1>4. CASE Gather(e)
    BY <1>0, <1>4 DEF Gather, OnIceCandidate, OnIceGatheringChange, TellServer
  <1>5. CASE Connectivity(e)
    <2>1. ASSUME NEW s, OnIceConnectionChange(e, s)
          PROVE  /\ conn'[x] = conn[x] /\ obs'[x] = obs[x] /\ told'[x] = told[x]
                 /\ sessions' = sessions /\ inform' = inform
      BY <1>0, <2>1 DEF OnIceConnectionChange, TellPeer
    <2>2. CASE OnDataChannel(e)
      BY <1>0, <2>2 DEF OnDataChannel
    <2> QED
      BY <1>5, <2>1, <2>2 DEF Connectivity
  <1> QED
    BY <1>1, <1>2, <1>3, <1>4, <1>5

LEMMA ReportInit == Init => ReportInv
  <1> SUFFICES ASSUME Init, NEW e \in End PROVE Reported(e)
    BY DEF ReportInv
  <1>1. /\ conn[e].live /\ ~conn[e].closing
        /\ conn[e].ice = "New" /\ conn[e].gather = "New"
    BY DEF Init, NewConnection, NoConnection
  <1>2. obs[e] = InitializePeerConnection(NewObserver, 1) /\ sessions[e] = 1
    BY DEF Init
  <1>3. /\ obs[e].chan.session = sessions[e] /\ ~obs[e].peerFlag
        /\ obs[e].turnFlag = "Connect_Zero"
    BY <1>2 DEF InitializePeerConnection, NewObserver
  <1> QED
    BY <1>1, <1>3 DEF Reported, ClosedIsEmpty, ClosingEnded, ChannelCurrent, FlagTold, ServerTold

\* The calls of the user: a connection that is closed keeps its reports until
\* it is gone, a new environment starts with nothing told.
LEMMA UserReports ==
    ASSUME TypeOK, NEW e \in End, Reported(e), User(e)
    PROVE  Reported(e)'
  <1> USE DEF Reported, ClosedIsEmpty, ClosingEnded, ChannelCurrent, FlagTold, ServerTold
  <1>0. /\ conn[e] \in ConnType /\ obs[e] \in ObsType
        /\ DOMAIN conn = End /\ DOMAIN obs = End /\ DOMAIN told = End /\ DOMAIN sessions = End
    BY DEF TypeOK
  <1>a. ends > 0 => ends' > 0
    BY EndsGrow
  <1>1. CASE CreateTurnServerConnection(e)
    <2>1. CASE conn[e].live
      <3>1. /\ conn'[e] = [conn[e] EXCEPT !.requests = Append(@, "offer")]
            /\ UNCHANGED <<obs, told, sessions>>
        BY <1>0, <1>1, <2>1 DEF CreateTurnServerConnection
      <3> QED
        BY <1>0, <1>a, <2>1, <3>1 DEF ConnType
    <2>2. CASE ~conn[e].live
      <3>1. conn'[e] = [conn[e] EXCEPT !.requests = @] /\ UNCHANGED <<obs, told, sessions>>
        BY <1>0, <1>1, <2>2 DEF CreateTurnServerConnection
      <3>2. conn'[e] = conn[e]
        BY <1>0, <3>1 DEF ConnType
      <3> QED
        BY <1>a, <3>1, <3>2
    <2> QED
      BY <2>1, <2>2
  <1>2. CASE CloseTurnServerConnection(e)
    <2>1. /\ conn'[e] = [conn[e] EXCEPT !.closing = TRUE]
          /\ obs'[e] = [obs[e] EXCEPT !.chan = NoChannel]
          /\ conn[e].live /\ UNCHANGED <<told, sessions>>
      BY <1>0, <1>2 DEF CloseTurnServerConnection
    <2>2. /\ conn'[e].live /\ conn'[e].closing /\ conn'[e].ice = conn[e].ice
          /\ conn'[e].gather = conn[e].gather
      BY <1>0, <2>1 DEF ConnType
    <2>3. obs'[e].peerFlag = obs[e].peerFlag /\ obs'[e].turnFlag = obs[e].turnFlag
      BY <1>0, <2>1 DEF ObsType
    <2>4. ends' > 0
      BY <1>2, EndsGrow DEF CloseTurnServerConnection
    <2> QED
      BY <2>1, <2>2, <2>3, <2>4
  <1>3. CASE DeletePeerConnection(e)
    <2>1. /\ conn'[e] = NoConnection /\ obs'[e] = [obs[e] EXCEPT !.peerFlag = FALSE]
          /\ UNCHANGED <<told, sessions>>
      BY <1>0, <1>3 DEF DeletePeerConnection
    <2>2. ~obs'[e].peerFlag /\ obs'[e].turnFlag = obs[e].turnFlag
      BY <1>0, <2>1 DEF ObsType
    <2> QED
      BY <2>1, <2>2 DEF NoConnection
  <1>4. CASE RecreateEnvironment(e)
    <2>1. /\ conn'[e] = NewConnection /\ sessions'[e] = sessions[e] + 1
          /\ obs'[e] = InitializePeerConnection(NewObserver, sessions[e] + 1)
      BY <1>0, <1>4 DEF RecreateEnvironment
    <2> QED
      BY <2>1 DEF InitializePeerConnection, NewObserver, NewConnection, NoConnection
  <1> QED
    BY <1>1, <1>2, <1>3, <1>4 DEF User

\* The connections that a remote position may leave: the local side is kept.
LEMMA OppositeKeeps ==
    ASSUME NEW c \in ConnType, NEW d \in Desc, NEW x \in OppositeSDP(c, d),
           NEW k \in SUBSET Candidate
    PROVE  LET y == OppositeIceCandidate(x, k) IN
           /\ y.live = c.live /\ y.closing = c.closing
           /\ y.ice = c.ice /\ y.gather = c.gather
           /\ y.local = c.local /\ y.made = c.made
  <1>1. ASSUME NEW y \in ConnType
        PROVE  LET z == AskAnswer(y, d) IN
               /\ z.live = y.live /\ z.closing = y.closing /\ z.ice = y.ice /\ z.gather = y.gather
               /\ z.local = y.local /\ z.made = y.made /\ z \in ConnType
    <2>1. Append(y.requests, "answer") \in Seq({"offer", "answer"})
      BY <1>1 DEF ConnType
    <2> QED
      BY <1>1, <2>1 DEF AskAnswer, ConnType
  <1>2. /\ Remote(c, d) \in ConnType
        /\ Remote(c, d).live = c.live /\ Remote(c, d).closing = c.closing
        /\ Remote(c, d).ice = c.ice
        /\ Remote(c, d).gather = c.gather
        /\ Remote(c, d).local = c.local /\ Remote(c, d).made = c.made
    BY DEF Remote, ConnType, Desc
  <1>3. /\ x.live = c.live /\ x.closing = c.closing /\ x.ice = c.ice /\ x.gather = c.gather
        /\ x.local = c.local /\ x.made = c.made /\ x \in ConnType
    BY <1>1, <1>2 DEF OppositeSDP
  <1> QED
    BY <1>3 DEF OppositeIceCandidate, ConnType

\* The positions that the users carry: a connection made anew gets its channel.
LEMMA ExchangeReports ==
    ASSUME TypeOK, NEW e \in End, Reported(e), Exchange(e)
    PROVE  Reported(e)'
  <1> USE DEF Reported, ClosedIsEmpty, ClosingEnded, ChannelCurrent, FlagTold, ServerTold
  <1>0. /\ conn[e] \in ConnType /\ obs[e] \in ObsType /\ mail[e] \in Position
        /\ DOMAIN conn = End /\ DOMAIN obs = End /\ DOMAIN told = End /\ DOMAIN sessions = End
    BY DEF TypeOK
  <1>a. ends > 0 => ends' > 0
    BY EndsGrow
  <1>1. CASE GetLocaltionSdpIcecandidate(e)
    BY <1>a, <1>1 DEF GetLocaltionSdpIcecandidate
  <1>2. CASE SetOppositeSdpIcecandidate(e)
    <2> DEFINE made == ~conn[e].live
               session == IF made THEN sessions[e] + 1 ELSE sessions[e]
               c0 == IF made THEN NewConnection ELSE conn[e]
    <2>1. PICK c \in OppositeSDP(c0, mail[e].sdp) :
             conn' = [conn EXCEPT ![e] = OppositeIceCandidate(c, mail[e].cands)]
      BY <1>2 DEF SetOppositeSdpIcecandidate
    <2>2. c0 \in ConnType /\ mail[e].sdp \in Desc /\ mail[e].cands \in SUBSET Candidate
      BY <1>0, StartType DEF Position
    <2>3. /\ conn'[e].live = c0.live /\ conn'[e].closing = c0.closing
          /\ conn'[e].ice = c0.ice /\ conn'[e].gather = c0.gather
      BY <1>0, <2>1, <2>2, OppositeKeeps
    <2>4. /\ sessions'[e] = session /\ told' = told
          /\ obs'[e] = IF made THEN InitializePeerConnection(obs[e], session) ELSE obs[e]
      BY <1>0, <1>2 DEF SetOppositeSdpIcecandidate
    <2>5. CASE made
      <3>1. /\ conn'[e].live /\ ~conn'[e].closing
            /\ conn'[e].ice = "New" /\ conn'[e].gather = "New"
        BY <2>3, <2>5 DEF NewConnection, NoConnection
      <3>2. /\ obs'[e].chan.session = sessions'[e] /\ ~obs'[e].peerFlag
            /\ obs'[e].turnFlag = obs[e].turnFlag
        BY <1>0, <2>4, <2>5 DEF InitializePeerConnection, ObsType
      <3> QED
        BY <2>4, <3>1, <3>2
    <2>6. CASE ~made
      BY <1>a, <2>3, <2>4, <2>6
    <2> QED
      BY <2>5, <2>6
  <1> QED
    BY <1>1, <1>2 DEF Exchange

\* The descriptions: a closed connection makes none, and none of them touches
\* the ICE connection or the flags.
LEMMA DescribeReports ==
    ASSUME TypeOK, NEW e \in End, Reported(e), Describe(e)
    PROVE  Reported(e)'
  <1> USE DEF Reported, ClosedIsEmpty, ClosingEnded, ChannelCurrent, FlagTold, ServerTold
  <1>0. /\ conn[e] \in ConnType /\ obs[e] \in ObsType /\ told[e] \in ToldType
        /\ DOMAIN conn = End /\ DOMAIN obs = End /\ DOMAIN told = End
    BY DEF TypeOK
  <1>a. ends > 0 => ends' > 0
    BY EndsGrow
  <1>1. CASE MakeDescription(e)
    <2>1. conn[e].live
      BY <1>1 DEF MakeDescription, NoConnection
    <2>2. /\ conn'[e].live = conn[e].live /\ conn'[e].closing = conn[e].closing
          /\ conn'[e].ice = conn[e].ice /\ conn'[e].gather = conn[e].gather
      BY <1>0, <1>1 DEF MakeDescription, ConnType
    <2>3. UNCHANGED <<obs, told, sessions>>
      BY <1>1 DEF MakeDescription
    <2> QED
      BY <1>a, <2>1, <2>2, <2>3
  <1>2. CASE OnFailure(e)
    <2>1. conn[e].live
      BY <1>2 DEF OnFailure, NoConnection
    <2>2. /\ conn'[e].live = conn[e].live /\ conn'[e].closing = conn[e].closing
          /\ conn'[e].ice = conn[e].ice /\ conn'[e].gather = conn[e].gather
      BY <1>0, <1>2 DEF OnFailure, ConnType
    <2>3. /\ told'[e].peer = told[e].peer /\ told'[e].server.state = "Connect_Failure"
          /\ UNCHANGED <<obs, sessions>>
      BY <1>0, <1>2 DEF OnFailure, TellServer, ToldType
    <2> QED
      BY <1>a, <2>1, <2>2, <2>3
  <1>3. CASE OnSuccess(e)
    <2>1. conn[e].live
      BY <1>3 DEF OnSuccess, NoConnection
    <2> DEFINE d == Head(conn[e].made)
               c == [conn[e] EXCEPT !.made = Tail(@)]
    <2>2. conn'[e] \in {Local(c, d), c}
      BY <1>0, <1>3 DEF OnSuccess
    <2>3. c.live = conn[e].live /\ c.closing = conn[e].closing /\ c.ice = conn[e].ice /\ c.gather = conn[e].gather
      BY <1>0 DEF ConnType
    <2>4. c \in ConnType
      <3>1. conn[e].made # <<>>
        BY <1>3 DEF OnSuccess
      <3>2. Tail(conn[e].made) \in Seq(Desc)
        BY <1>0, <3>1 DEF ConnType
      <3> QED
        BY <1>0, <3>2 DEF ConnType
    <2> HIDE DEF c, d
    <2>5. /\ Local(c, d).live = c.live /\ Local(c, d).closing = c.closing
          /\ Local(c, d).ice = c.ice
          /\ Local(c, d).gather \in {c.gather, "Gathering"}
      BY <2>4 DEF Local, ConnType
    <2>6. /\ obs'[e].chan = obs[e].chan /\ obs'[e].peerFlag = obs[e].peerFlag
          /\ obs'[e].turnFlag = obs[e].turnFlag
      BY <1>0, <1>3 DEF OnSuccess, ObsType
    <2>7. UNCHANGED <<told, sessions>>
      BY <1>3 DEF OnSuccess
    <2> QED
      BY <1>a, <2>1, <2>2, <2>3, <2>5, <2>6, <2>7
  <1> QED
    BY <1>1, <1>2, <1>3 DEF Describe

\* Gathering: its end is reported, or a state was reported before.
LEMMA GatherReports ==
    ASSUME TypeOK, NEW e \in End, Reported(e), Gather(e)
    PROVE  Reported(e)'
  <1> USE DEF Reported, ClosedIsEmpty, ClosingEnded, ChannelCurrent, FlagTold, ServerTold
  <1>0. /\ conn[e] \in ConnType /\ obs[e] \in ObsType /\ told[e] \in ToldType
        /\ DOMAIN conn = End /\ DOMAIN obs = End /\ DOMAIN told = End
    BY DEF TypeOK
  <1>a. ends > 0 => ends' > 0
    BY EndsGrow
  <1>1. ASSUME NEW k \in Candidate, OnIceCandidate(e, k)
        PROVE  Reported(e)'
    <2>1. conn[e].live
      BY <1>1 DEF OnIceCandidate, NoConnection
    <2>2. /\ conn'[e].live = conn[e].live /\ conn'[e].closing = conn[e].closing
          /\ conn'[e].ice = conn[e].ice /\ conn'[e].gather = conn[e].gather
      BY <1>0, <1>1 DEF OnIceCandidate, ConnType
    <2>3. /\ obs'[e].chan = obs[e].chan /\ obs'[e].peerFlag = obs[e].peerFlag
          /\ obs'[e].turnFlag = obs[e].turnFlag
      BY <1>0, <1>1 DEF OnIceCandidate, ObsType
    <2>4. UNCHANGED <<told, sessions>>
      BY <1>1 DEF OnIceCandidate
    <2> QED
      BY <1>a, <2>1, <2>2, <2>3, <2>4
  <1>2. CASE OnIceGatheringChange(e)
    <2> DEFINE s == RecieveGatheringComplete(e)
    <2>1. s \in TurnStates
      BY GatheringState
    <2>2. conn[e].live
      BY <1>2 DEF OnIceGatheringChange, NoConnection
    <2>3. /\ conn'[e].live = conn[e].live /\ conn'[e].closing = conn[e].closing
          /\ conn'[e].ice = conn[e].ice
      BY <1>0, <1>2 DEF OnIceGatheringChange, ConnType
    <2> HIDE DEF s
    <2>4. /\ obs'[e] = Recorded(e, s) /\ told' = (IF Reports(e, s) THEN TellServer(e, s) ELSE told)
          /\ sessions' = sessions
      BY <1>0, <1>2 DEF OnIceGatheringChange, s
    <2>5. CASE Reports(e, s)
      <3>1. /\ obs'[e].chan = obs[e].chan /\ obs'[e].peerFlag = obs[e].peerFlag
            /\ obs'[e].turnFlag = s
        BY <1>0, <2>4, <2>5 DEF Recorded, ObsType
      <3>2. told'[e].peer = told[e].peer /\ told'[e].server.state = s
        BY <1>0, <2>4, <2>5 DEF TellServer, ToldType
      <3> QED
        BY <1>a, <2>1, <2>2, <2>3, <2>4, <3>1, <3>2 DEF TurnStates
    <2>6. CASE ~Reports(e, s)
      <3>1. obs[e].turnFlag # "Connect_Zero"
        BY <2>1, <2>6 DEF Reports, TurnStates
      <3> QED
        BY <1>a, <2>2, <2>3, <2>4, <2>6, <3>1 DEF Recorded
    <2> QED
      BY <2>5, <2>6
  <1> QED
    BY <1>1, <1>2 DEF Gather

\* The ICE connection: every loss resets the flag, so the next Connected is told.
LEMMA ConnectivityReports ==
    ASSUME TypeOK, NEW e \in End, Reported(e), Connectivity(e)
    PROVE  Reported(e)'
  <1> USE DEF Reported, ClosedIsEmpty, ClosingEnded, ChannelCurrent, FlagTold, ServerTold
  <1>0. /\ conn[e] \in ConnType /\ obs[e] \in ObsType /\ told[e] \in ToldType
        /\ DOMAIN conn = End /\ DOMAIN obs = End /\ DOMAIN told = End
    BY DEF TypeOK
  <1>a. ends > 0 => ends' > 0
    BY EndsGrow
  <1>1. ASSUME NEW s \in DOMAIN IceNext, OnIceConnectionChange(e, s)
        PROVE  Reported(e)'
    <2>1. conn[e].live
      <3>1. s = "Checking" => conn[e].sig = "Stable"
        BY <1>1 DEF OnIceConnectionChange
      <3>2. s \in IceNext[conn[e].ice]
        BY <1>1 DEF OnIceConnectionChange
      <3>3. NoConnection.ice = "New" /\ NoConnection.sig = "Init"
        BY DEF NoConnection
      <3>4. IceNext["New"] = {"Checking"}
        BY DEF IceNext
      <3> QED
        BY <3>1, <3>2, <3>3, <3>4
    <2>2. /\ conn'[e].live = conn[e].live /\ conn'[e].closing = conn[e].closing
          /\ conn'[e].ice = s /\ conn'[e].gather = conn[e].gather /\ sessions' = sessions
      BY <1>0, <1>1 DEF OnIceConnectionChange, ConnType
    <2>3. CASE s = "Connected" /\ ~obs[e].peerFlag
      <3>1. /\ obs'[e] = [obs[e] EXCEPT !.peerFlag = TRUE]
            /\ told'[e] = [told[e] EXCEPT !.peer = [state |-> "Connect_Success",
                                                    session |-> sessions[e]]]
        BY <1>0, <1>1, <2>3 DEF OnIceConnectionChange, TellPeer
      <3> QED
        BY <1>0, <1>a, <2>1, <2>2, <2>3, <3>1 DEF ObsType, ToldType
    <2>4. CASE s \in {"Failed", "Disconnected"}
      <3>1. PICK r : /\ obs'[e] = Lost(obs[e])
                     /\ told'[e] = [told[e] EXCEPT !.peer = r]
                     /\ s = "Disconnected" => r = [state |-> "Disconnect", session |-> sessions[e]]
        <4>1. CASE s = "Failed"
          BY <1>0, <1>1, <4>1 DEF OnIceConnectionChange, TellPeer
        <4>2. CASE s = "Disconnected"
          BY <1>0, <1>1, <4>2 DEF OnIceConnectionChange, TellPeer
        <4> QED
          BY <2>4, <4>1, <4>2
      <3>2. /\ obs'[e].chan = obs[e].chan /\ ~obs'[e].peerFlag
            /\ obs'[e].turnFlag = obs[e].turnFlag /\ told'[e].server = told[e].server
            /\ told'[e].peer = r
        BY <1>0, <3>1 DEF ObsType, ToldType, Lost
      <3> QED
        BY <1>a, <2>1, <2>2, <2>4, <3>1, <3>2
    <2>5. CASE s \in {"Checking", "Completed"} \/ (s = "Connected" /\ obs[e].peerFlag)
      <3>1. UNCHANGED <<obs, told>>
        BY <1>1, <2>5 DEF OnIceConnectionChange
      <3>2. s = "Completed" => conn[e].ice \in {"Connected", "Disconnected"}
        <4>1. /\ "Completed" \notin IceNext["New"] /\ "Completed" \notin IceNext["Checking"]
              /\ "Completed" \notin IceNext["Completed"] /\ "Completed" \notin IceNext["Failed"]
          BY DEF IceNext
        <4>2. conn[e].ice \in {"New", "Checking", "Connected", "Completed", "Disconnected", "Failed"}
          BY <1>0 DEF ConnType, IceNext
        <4> QED
          BY <1>1, <4>1, <4>2 DEF OnIceConnectionChange
      <3> QED
        BY <1>a, <2>1, <2>2, <2>5, <3>1, <3>2
    <2>6. s \in {"Checking", "Completed", "Connected", "Failed", "Disconnected"}
      BY <1>1 DEF OnIceConnectionChange
    <2> QED
      BY <2>3, <2>4, <2>5, <2>6
  <1>2. CASE OnDataChannel(e)
    <2>1. conn[e].live
      BY <1>2 DEF OnDataChannel, NoConnection
    <2>2. /\ obs'[e].chan.session = sessions[e] /\ obs'[e].peerFlag = obs[e].peerFlag
          /\ obs'[e].turnFlag = obs[e].turnFlag
      BY <1>0, <1>2 DEF OnDataChannel, ObsType
    <2> QED
      BY <1>a, <1>2, <2>1, <2>2 DEF OnDataChannel
  <1> QED
    BY <1>1, <1>2 DEF Connectivity

LEMMA ReportStep == TypeOK /\ ReportInv /\ [Next]_vars => ReportInv'
  <1> SUFFICES ASSUME TypeOK, ReportInv, [Next]_vars, NEW x \in End
               PROVE  Reported(x)'
    BY DEF ReportInv
  <1>0. Reported(x)
    BY DEF ReportInv
  <1>1. CASE UNCHANGED vars
    BY <1>0, <1>1, ReportFrame DEF vars
  <1>2. ASSUME NEW e \in End,
               User(e) \/ Exchange(e) \/ Describe(e) \/ Gather(e) \/ Connectivity(e)
        PROVE  Reported(x)'
    <2>1. CASE x = e
      BY <1>0, <1>2, <2>1, UserReports, ExchangeReports, DescribeReports, GatherReports,
         ConnectivityReports
    <2>2. CASE x # e
      BY <1>0, <1>2, <2>2, OthersKept, EndsGrow, ReportFrame
    <2> QED
      BY <2>1, <2>2
  <1> QED
    BY <1>1, <1>2 DEF Next

LEMMA ReportInvariant == Spec => []ReportInv
  BY ReportInit, ReportStep, TypeCorrect, PTL DEF Spec

\* While a session lasts, SendData uses a channel of this session, also when an
\* OnDataChannel between the two steps of the last DeletePeerConnection left the
\* channel of a dead connection: InitializePeerConnection never keeps it.
THEOREM ChannelSafe == Spec => []ChannelOfSession
  <1>1. ReportInv => ChannelOfSession
    BY DEF ReportInv, Reported, ChannelCurrent, ChannelOfSession
  <1> QED
    BY <1>1, ReportInvariant, PTL

\* Whenever the ICE connection is in the state Connected, the last report of
\* OnIceConnectionChange to the user is a success of this very session: no loss,
\* close or new environment leaves m_connectedToPeerFlag set behind.  In the
\* state Completed it is of this session, a success or the disconnect before an
\* unreported recovery.
THEOREM ConnectedTold == Spec => []ConnectedReported
  <1>1. ReportInv => ConnectedReported
    <2> SUFFICES ASSUME ReportInv, NEW e \in End, conn[e].ice \in {"Connected", "Completed"}
                 PROVE  LET p == told[e].peer IN
                        /\ conn[e].ice = "Connected" => p.state = "Connect_Success"
                        /\ p.state \in {"Connect_Success", "Disconnect"}
                        /\ p.session = sessions[e]
      BY DEF ConnectedReported
    <2>1. FlagTold(e)
      BY DEF ReportInv, Reported
    <2> QED
      BY <2>1 DEF FlagTold
  <1> QED
    BY <1>1, ReportInvariant, PTL

\* The end of a gathering is never swallowed by OnIceGatheringChange before the
\* user has been told anything about the server.
THEOREM GatheringTold == Spec => []FirstGatheringReported
  <1>1. TypeOK /\ ReportInv => FirstGatheringReported
    <2> SUFFICES ASSUME TypeOK, ReportInv, NEW e \in End, conn[e].gather = "Complete"
                 PROVE  told[e].server.state # "none"
      BY DEF FirstGatheringReported
    <2>1. obs[e].turnFlag \in TurnStates
      BY DEF TypeOK, ObsType, ReportInv, Reported, ServerTold
    <2> QED
      BY <2>1 DEF TurnStates, ReportInv, Reported, ServerTold
  <1> QED
    BY <1>1, ReportInvariant, TypeCorrect, PTL
=============================================================================
