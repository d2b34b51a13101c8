------------------------------ MODULE Session ------------------------------
(***************************************************************************)
(* How two endpoints of the P2PData library connect.  The library has no   *)
(* signaling of its own here: when an endpoint has reached its TURN server *)
(* its user is told so, reads the endpoint's position (the session         *)
(* description and the ICE candidates) and carries it to the other user,   *)
(* who sets it there.  SessionConnectionObserver drives a WebRTC peer      *)
(* connection, collects the position and decides what the user is told.    *)
(*                                                                         *)
(* A user calls from a thread of its own.  What a call asks of the peer    *)
(* connection is marshalled to the signaling thread of the factory, which  *)
(* runs the callbacks, so the two interleave: DeletePeerConnection is two  *)
(* steps, with callbacks between them.  The peer connection is external:   *)
(* its variable follows what the observer may see of webrtcsession.cc.     *)
(***************************************************************************)
EXTENDS Naturals, Sequences, FiniteSets

CONSTANTS
    Candidate,  \* kinds of local candidates that gathering may find
    TurnKinds,  \* "srflx" and "relay": the kinds TurnserverInfoVector::Match asks for
    Offerer,    \* endpoints whose user calls CreateTurnServerConnection
    MayMiss,    \* whether gathering may end without some candidates
    MaxOffers,  \* bound: calls of CreateTurnServerConnection
    MaxEnds,    \* bound: sessions closed and environments created anew
    MaxDrops    \* bound: lost ICE connections and failed descriptions

End == {"A", "B"}
Peer(e) == IF e = "A" THEN "B" ELSE "A"

ASSUME SessionAssumption ==
    /\ TurnKinds \subseteq Candidate /\ TurnKinds # {}
    /\ Offerer \subseteq End
    /\ MayMiss \in BOOLEAN
    /\ MaxOffers \in Nat /\ MaxEnds \in Nat /\ MaxDrops \in Nat

VARIABLES
    conn,    \* m_peer_connection_ of an endpoint
    obs,     \* the fields of its SessionConnectionObserver
    sessions,\* peer connections created so far, which names them
    ufrags,  \* ICE credentials made so far, which names the gatherings
    told,    \* the last report to the user about the server and the peer
    inform,  \* the user has been told of the server and has not read the position
    mail,    \* position on its way to the endpoint's user
    offers, ends, drops

vars == <<conn, obs, sessions, ufrags, told, inform, mail, offers, ends, drops>>

-----------------------------------------------------------------------------
(* Descriptions, positions and the peer connection *)

NoDesc == [type |-> "none", uf |-> 0, cands |-> {}]
Desc == [type: {"none", "offer", "answer"}, uf: Nat, cands: SUBSET Candidate]

\* what GetLocaltionSdpIcecandidate returns
NoPosition == [sdp |-> NoDesc, cands |-> {}]
Position == [sdp: Desc, cands: SUBSET Candidate]

\* closing: the user's thread is in DeletePeerConnection, which waits for the
\* signaling thread.  sig: state of the session.  rc: remote candidates.  latch: the remote
\* credentials changed.  seen: candidates of this gathering.  requests, made:
\* descriptions asked for, and made but not yet handed to OnSuccess.
NoConnection ==
    [live |-> FALSE, closing |-> FALSE, sig |-> "Init", local |-> NoDesc, remote |-> NoDesc, rc |-> {},
     latch |-> FALSE, gather |-> "New", seen |-> {}, ice |-> "New",
     requests |-> <<>>, made |-> <<>>]

NewConnection == [NoConnection EXCEPT !.live = TRUE]

\* chan: m_messageChannel, the session it belongs to and who opened it
NoChannel == [session |-> 0, by |-> "none"]

NewObserver ==
    [chan |-> NoChannel, turnFlag |-> "Connect_Zero", peerFlag |-> FALSE, getIce |-> FALSE,
     own |-> NoPosition]

NotTold == [server |-> [state |-> "none", uf |-> 0],
            peer |-> [state |-> "none", session |-> 0]]

TellServer(e, s) == [told EXCEPT ![e].server = [state |-> s, uf |-> conn[e].local.uf]]

TellPeer(e, s) == [told EXCEPT ![e].peer = [state |-> s, session |-> sessions[e]]]

\* mutant: a channel that the observer has is kept
InitializePeerConnection_mut_keep(o, session) ==
    IF o.chan = NoChannel THEN [o EXCEPT !.chan = [session |-> session, by |-> "own"]] ELSE o

\* the observer after InitializePeerConnection: AddStreams opens a channel
InitializePeerConnection(o, session) == [o EXCEPT !.chan = [session |-> session, by |-> "own"]]

-----------------------------------------------------------------------------
(* Calls of the user *)

\* ConnectToPeer and CreateOffer, which does nothing without a connection
CreateTurnServerConnection(e) ==
    /\ e \in Offerer
    /\ ~conn[e].closing
    /\ offers[e] < MaxOffers
    /\ offers' = [offers EXCEPT ![e] = @ + 1]
    /\ conn' = [conn EXCEPT ![e].requests = IF conn[e].live THEN Append(@, "offer") ELSE @]
    /\ UNCHANGED <<obs, sessions, ufrags, told, inform, mail, ends, drops>>

\* DisconnectFromCurrentPeer: DeletePeerConnection forgets the channel and
\* then releases the peer connection, whose proxy waits for the signaling thread.
CloseTurnServerConnection(e) ==
    /\ ends < MaxEnds
    /\ conn[e].live /\ ~conn[e].closing
    /\ ends' = ends + 1
    /\ conn' = [conn EXCEPT ![e].closing = TRUE]
    /\ obs' = [obs EXCEPT ![e].chan = NoChannel]
    /\ UNCHANGED <<sessions, ufrags, told, inform, mail, offers, drops>>

\* The peer connection is gone, and so are its callbacks.  The other fields of
\* the observer stay, with the channel that an OnDataChannel has left meanwhile.
DeletePeerConnection(e) ==
    /\ conn[e].closing
    /\ conn' = [conn EXCEPT ![e] = NoConnection]
    /\ obs' = [obs EXCEPT ![e].peerFlag = FALSE]
    /\ UNCHANGED <<sessions, ufrags, told, inform, mail, offers, ends, drops>>

\* CloseP2PEnvironment, and CreateP2PEnvironment again, as in a new process
RecreateEnvironment(e) ==
    /\ ends < MaxEnds
    /\ ~conn[e].closing
    /\ ends' = ends + 1
    /\ sessions' = [sessions EXCEPT ![e] = @ + 1]
    /\ conn' = [conn EXCEPT ![e] = NewConnection]
    /\ obs' = [obs EXCEPT ![e] = InitializePeerConnection(NewObserver, sessions[e] + 1)]
    /\ told' = [told EXCEPT ![e] = NotTold]
    /\ inform' = [inform EXCEPT ![e] = FALSE]
    /\ UNCHANGED <<ufrags, mail, offers, drops>>

\* The user reads the position once the server was reported, and sends it.
GetLocaltionSdpIcecandidate(e) ==
    /\ inform[e] /\ ~conn[e].closing
    /\ inform' = [inform EXCEPT ![e] = FALSE]
    /\ mail' = [mail EXCEPT ![Peer(e)] = obs[e].own]
    /\ UNCHANGED <<conn, obs, sessions, ufrags, told, offers, ends, drops>>

\* WebRtcSession::ExpectSetRemoteDescription
ExpectSetRemote(c, type) ==
    \/ type = "offer"  /\ c.sig # "SentOffer"
    \/ type = "answer" /\ c.sig = "SentOffer"

\* SetRemoteDescription, which keeps the candidates received before
Remote(c, d) ==
    [c EXCEPT !.remote = d,
              !.rc = @ \cup d.cands,
              !.sig = IF d.type = "offer" THEN "RecvOffer" ELSE "Stable",
              !.latch = @ \/ (d.type = "offer" /\ c.remote.type # "none" /\ c.remote.uf # d.uf)]

\* mutant: the offer is set and not answered
AskAnswer_mut(c, d) == c

AskAnswer(c, d) ==
    IF d.type = "offer" THEN [c EXCEPT !.requests = Append(@, "answer")] ELSE c

\* SetOppositeSDPInformation.  A description that the session does not expect
\* is deleted with its text; whether its type is then still read as an offer
\* is open.  New credentials may be refused by a connection that has others.
OppositeSDP(c, d) ==
    IF d.type = "none" THEN {c}
    ELSE LET refused == {c, AskAnswer(c, d)} IN
         IF ~ExpectSetRemote(c, d.type) THEN refused
         ELSE {AskAnswer(Remote(c, d), d)}
              \cup (IF c.remote.type # "none" /\ c.remote.uf # d.uf THEN refused ELSE {})

\* SetOppositeIceCandidate: without an offer the candidates are dropped
OppositeIceCandidate(c, cands) == IF c.sig = "Init" THEN c ELSE [c EXCEPT !.rc = @ \cup cands]

\* The peer's position is set; a connection that was closed is made anew.
SetOppositeSdpIcecandidate(e) ==
    /\ mail[e] # NoPosition /\ ~conn[e].closing
    /\ mail' = [mail EXCEPT ![e] = NoPosition]
    /\ LET made == ~conn[e].live
           session == IF made THEN sessions[e] + 1 ELSE sessions[e]
           c0 == IF made THEN NewConnection ELSE conn[e]
       IN /\ sessions' = [sessions EXCEPT ![e] = session]
          /\ obs' = [obs EXCEPT ![e] = IF made THEN InitializePeerConnection(@, session) ELSE @]
          /\ \E c \in OppositeSDP(c0, mail[e].sdp) :
                conn' = [conn EXCEPT ![e] = OppositeIceCandidate(c, mail[e].cands)]
    /\ UNCHANGED <<ufrags, told, inform, offers, ends, drops>>

-----------------------------------------------------------------------------
(* Descriptions made by the peer connection *)

\* WebRtcSessionDescriptionFactory: a description repeats the credentials and
\* the candidates of the last one, unless the peer has changed its own
MakeDescription(e) ==
    /\ conn[e].requests # <<>>
    /\ LET c == conn[e]
           type == Head(c.requests)
           again == c.local.type # "none" /\ ~(type = "answer" /\ c.latch)
           uf == IF again THEN c.local.uf ELSE ufrags[e] + 1
           d == [type |-> type, uf |-> uf, cands |-> IF again THEN c.local.cands ELSE {}]
       IN /\ type = "answer" => c.remote.type = "offer"
          /\ ufrags' = [ufrags EXCEPT ![e] = IF again THEN @ ELSE uf]
          /\ conn' = [conn EXCEPT ![e].requests = Tail(@),
                                  ![e].made = Append(@, d),
                                  ![e].latch = @ /\ type = "offer"]
    /\ UNCHANGED <<obs, sessions, told, inform, mail, offers, ends, drops>>

\* OnFailure: the user is told, m_connectedToTurnserverFlag is not changed
OnFailure(e) ==
    /\ conn[e].requests # <<>>
    /\ IF Head(conn[e].requests) = "answer" /\ conn[e].remote.type # "offer"
       THEN UNCHANGED drops
       ELSE drops < MaxDrops /\ drops' = drops + 1
    /\ conn' = [conn EXCEPT ![e].requests = Tail(@)]
    /\ told' = TellServer(e, "Connect_Failure")
    /\ UNCHANGED <<obs, sessions, ufrags, inform, mail, offers, ends>>

\* WebRtcSession::ExpectSetLocalDescription
ExpectSetLocal(c, type) ==
    \/ type = "offer"  /\ c.sig # "RecvOffer"
    \/ type = "answer" /\ c.sig = "RecvOffer"

\* SetLocalDescription; new credentials start a gathering
Local(c, d) ==
    [c EXCEPT !.local = d,
              !.sig = IF d.type = "offer" THEN "SentOffer" ELSE "Stable",
              !.gather = IF d.uf # c.local.uf THEN "Gathering" ELSE @,
              !.seen = IF d.uf # c.local.uf THEN {} ELSE @]

\* mutant: the candidates of the last description are kept
DealOwerSessionSDP_mut(p, d) == [p EXCEPT !.sdp = d]

\* DealOwerSessionSDP: the position starts again from the new description
DealOwerSessionSDP(p, d) == [sdp |-> d, cands |-> {}]

\* OnSuccess.  A description that the session does not expect is deleted by
\* SetLocalDescription and read all the same: its text, or nothing, is kept.
OnSuccess(e) ==
    /\ conn[e].made # <<>>
    /\ LET d == Head(conn[e].made)
           c == [conn[e] EXCEPT !.made = Tail(@)]
           set == ExpectSetLocal(c, d.type)
       IN /\ conn' = [conn EXCEPT ![e] = IF set THEN Local(c, d) ELSE c]
          /\ \E read \in IF set THEN {d} ELSE {d, NoDesc} :
                obs' = [obs EXCEPT ![e].own = DealOwerSessionSDP(@, read)]
    /\ UNCHANGED <<sessions, ufrags, told, inform, mail, offers, ends, drops>>

-----------------------------------------------------------------------------
(* Gathering *)

\* ProcessNewLocalCandidate: OnIceCandidate with DealOwerIceCandidate, then
\* the candidate is added to the local description
OnIceCandidate(e, k) ==
    /\ conn[e].gather = "Gathering"
    /\ k \notin conn[e].seen
    /\ conn' = [conn EXCEPT ![e].seen = @ \cup {k}, ![e].local.cands = @ \cup {k}]
    /\ obs' = [obs EXCEPT ![e].getIce = TRUE, ![e].own.cands = @ \cup {k}]
    /\ UNCHANGED <<sessions, ufrags, told, inform, mail, offers, ends, drops>>

\* mutant: any candidate will do
Match_mut(cands) == cands # {}

\* TurnserverInfoVector::Match
Match(cands) == TurnKinds \subseteq cands

\* mutant: nothing gathered leaves the state as it was initialised
RecieveGatheringComplete_mut(e) ==
    LET d == conn[e].local
        found == IF d.type = "offer" THEN Match(d.cands) ELSE d.cands # {}
    IN IF ~found THEN "Connect_Zero"
       ELSE IF obs[e].getIce THEN "Connect_Success" ELSE "Disconnect"

\* RecieveGatheringComplete: what the local description's candidates say
RecieveGatheringComplete(e) ==
    LET d == conn[e].local
        found == IF d.type = "offer" THEN Match(d.cands) ELSE d.cands # {}
    IN IF ~found THEN "Connect_Failure"
       ELSE IF obs[e].getIce THEN "Connect_Success" ELSE "Disconnect"

\* mutant: the first success is held back as well
Reports_mut(e, s) ==
    obs[e].turnFlag # s /\ ~(obs[e].turnFlag # "Connect_Success" /\ s = "Connect_Success")

\* what OnIceGatheringChange reports: a state that differs from the last one,
\* but no success after a failure
Reports(e, s) ==
    /\ obs[e].turnFlag # s
    /\ ~(obs[e].turnFlag \in {"Connect_Failure", "Disconnect"} /\ s = "Connect_Success")

\* mutant: the state is recorded before the decision to report it
Recorded_mut(e, s) ==
    IF Reports(e, s) THEN [obs[e] EXCEPT !.turnFlag = s, !.getIce = FALSE]
    ELSE [obs[e] EXCEPT !.turnFlag = s]

Recorded(e, s) ==
    IF Reports(e, s) THEN [obs[e] EXCEPT !.turnFlag = s, !.getIce = FALSE] ELSE obs[e]

\* OnIceGatheringChange with kIceGatheringComplete
OnIceGatheringChange(e) ==
    /\ conn[e].gather = "Gathering"
    /\ MayMiss \/ conn[e].seen = Candidate
    /\ LET s == RecieveGatheringComplete(e)
       IN /\ obs' = [obs EXCEPT ![e] = Recorded(e, s)]
          /\ told' = IF Reports(e, s) THEN TellServer(e, s) ELSE told
          /\ inform' = [inform EXCEPT ![e] = @ \/ (Reports(e, s) /\ s = "Connect_Success")]
    /\ conn' = [conn EXCEPT ![e].gather = "Complete"]
    /\ UNCHANGED <<sessions, ufrags, mail, offers, ends, drops>>

-----------------------------------------------------------------------------
(* The ICE connection *)

\* the transitions that WebRtcSession makes and SetIceConnectionState asserts
IceNext == [New |-> {"Checking"},
            Checking |-> {"Connected", "Failed"},
            Connected |-> {"Disconnected", "Completed"},
            Completed |-> {"Connected", "Disconnected"},
            Disconnected |-> {"Checking", "Connected", "Completed", "Failed"},
            Failed |-> {}]

\* the two connections have one another's credentials and a candidate
Reachable(e) ==
    LET c == conn[e]  p == conn[Peer(e)] IN
    /\ c.sig = "Stable" /\ p.sig = "Stable"
    /\ c.remote.uf = p.local.uf /\ p.remote.uf = c.local.uf
    /\ c.rc # {} \/ p.rc # {}

\* mutant: the flag is kept
Lost_mut(o) == o

\* the observer after a lost connection
Lost(o) == [o EXCEPT !.peerFlag = FALSE]

\* OnIceConnectionChange
OnIceConnectionChange(e, s) ==
    /\ s \in IceNext[conn[e].ice]
    /\ s = "Checking" => conn[e].sig = "Stable"
    /\ s \in {"Connected", "Completed"} => Reachable(e)
    /\ IF s \in {"Disconnected", "Failed"} THEN drops < MaxDrops /\ drops' = drops + 1
       ELSE UNCHANGED drops
    /\ conn' = [conn EXCEPT ![e].ice = s]
    /\ \/ /\ s = "Connected" /\ ~obs[e].peerFlag
          /\ obs' = [obs EXCEPT ![e].peerFlag = TRUE]
          /\ told' = TellPeer(e, "Connect_Success")
       \/ /\ s = "Failed"
          /\ obs' = [obs EXCEPT ![e] = Lost(@)]
          /\ told' = TellPeer(e, "Connect_Failure")
       \/ /\ s = "Disconnected"
          /\ obs' = [obs EXCEPT ![e] = Lost(@)]
          /\ told' = TellPeer(e, "Disconnect")
       \/ /\ s \in {"Checking", "Completed"} \/ (s = "Connected" /\ obs[e].peerFlag)
          /\ UNCHANGED <<obs, told>>
    /\ UNCHANGED <<sessions, ufrags, inform, mail, offers, ends>>

\* OnDataChannel: the channel that the peer opened replaces the own one
OnDataChannel(e) ==
    /\ conn[e].ice \in {"Connected", "Completed"}
    /\ obs' = [obs EXCEPT ![e].chan = [session |-> sessions[e], by |-> "peer"]]
    /\ UNCHANGED <<conn, sessions, ufrags, told, inform, mail, offers, ends, drops>>

-----------------------------------------------------------------------------
Init ==
    /\ conn = [e \in End |-> NewConnection]
    /\ obs = [e \in End |-> InitializePeerConnection(NewObserver, 1)]
    /\ sessions = [e \in End |-> 1]
    /\ ufrags = [e \in End |-> 0]
    /\ told = [e \in End |-> NotTold]
    /\ inform = [e \in End |-> FALSE]
    /\ mail = [e \in End |-> NoPosition]
    /\ offers = [e \in End |-> 0]
    /\ ends = 0 /\ drops = 0

User(e) == CreateTurnServerConnection(e) \/ CloseTurnServerConnection(e)
              \/ DeletePeerConnection(e) \/ RecreateEnvironment(e)

Exchange(e) == GetLocaltionSdpIcecandidate(e) \/ SetOppositeSdpIcecandidate(e)

Describe(e) == MakeDescription(e) \/ OnFailure(e) \/ OnSuccess(e)

Gather(e) == (\E k \in Candidate : OnIceCandidate(e, k)) \/ OnIceGatheringChange(e)

Connectivity(e) == (\E s \in DOMAIN IceNext : OnIceConnectionChange(e, s)) \/ OnDataChannel(e)

Next == \E e \in End : User(e) \/ Exchange(e) \/ Describe(e) \/ Gather(e) \/ Connectivity(e)

Spec == Init /\ [][Next]_vars

\* The signaling thread runs what is posted to it, gathering and connectivity
\* checks make progress, and the users carry the positions.
Fairness ==
    \A e \in End :
        /\ WF_vars(GetLocaltionSdpIcecandidate(e))
        /\ WF_vars(SetOppositeSdpIcecandidate(e))
        /\ WF_vars(Describe(e))
        /\ WF_vars(Gather(e))
        /\ WF_vars(\E s \in {"Checking", "Connected"} :
                      conn[e].ice \in {"New", "Checking"} /\ OnIceConnectionChange(e, s))

FairSpec == Spec /\ Fairness

-----------------------------------------------------------------------------
(* Properties *)

TurnStates == {"Connect_Success", "Connect_Failure", "Disconnect"}

ConnType ==
    [live: BOOLEAN, closing: BOOLEAN, sig: {"Init", "SentOffer", "RecvOffer", "Stable"}, local: Desc,
     remote: Desc, rc: SUBSET Candidate, latch: BOOLEAN,
     gather: {"New", "Gathering", "Complete"}, seen: SUBSET Candidate,
     ice: DOMAIN IceNext, requests: Seq({"offer", "answer"}), made: Seq(Desc)]

ObsType ==
    [chan: [session: Nat, by: {"none", "own", "peer"}],
     turnFlag: TurnStates \cup {"Connect_Zero"}, peerFlag: BOOLEAN, getIce: BOOLEAN,
     own: Position]

ToldType ==
    [server: [state: TurnStates \cup {"none"}, uf: Nat],
     peer: [state: TurnStates \cup {"none"}, session: Nat]]

\* Every variable has its type; in particular only the three states of
\* ConnectState that the user knows are reported.
TypeOK ==
    /\ conn \in [End -> ConnType]
    /\ obs \in [End -> ObsType]
    /\ sessions \in [End -> Nat]
    /\ ufrags \in [End -> Nat]
    /\ told \in [End -> ToldType]
    /\ inform \in [End -> BOOLEAN]
    /\ mail \in [End -> Position]
    /\ offers \in [End -> 0..MaxOffers]
    /\ ends \in 0..MaxEnds /\ drops \in 0..MaxDrops

\* Endpoints that cannot get two offers of two sessions.  One that does answers
\* both, SetLocalDescription refuses the second answer, and DealOwerSessionSDP
\* has put it into the position all the same.
OneSession(e) == e \in Offerer \/ ends = 0

\* The position that the user reads is the local description of the connection
\* with all its candidates, however offers, answers, candidates and new
\* credentials interleave: DealOwerSessionSDP and DealOwerIceCandidate keep up
\* with SetLocalDescription.  (One of the two users makes the offers.)
PositionComplete ==
    \A e \in End : LET c == conn[e]  p == obs[e].own IN
        c.local.type # "none" /\ OneSession(e) =>
            /\ p.sdp.type = c.local.type /\ p.sdp.uf = c.local.uf
            /\ p.sdp.cands \cup p.cands = c.local.cands

\* When the user is told that the server is reached, the position holds the
\* candidates for it: one of each kind that the server gives for an offer, at
\* least one for an answer.
ReportedUsable ==
    [][\A e \in End :
          inform'[e] /\ ~inform[e] /\ OneSession(e) =>
              LET p == obs'[e].own IN
              /\ p.sdp.type = "offer" => TurnKinds \subseteq p.sdp.cands \cup p.cands
              /\ p.sdp.cands \cup p.cands # {}]_vars

\* What the observer recorded of the server is what the user was told, apart
\* from a description that failed later: OnIceGatheringChange drops no state
\* that it has recorded.
RecordedIsTold ==
    \A e \in End : obs[e].turnFlag # "Connect_Zero" =>
        told[e].server.state \in {obs[e].turnFlag, "Connect_Failure"}
        /\ (drops = 0 => told[e].server.state = obs[e].turnFlag)

\* The end of the first gathering of an environment is reported, whatever it
\* found.
FirstGatheringReported ==
    \A e \in End : conn[e].gather = "Complete" => told[e].server.state # "none"

\* In the state Connected of the ICE connection the last report about the peer
\* is a success of this session: every loss resets m_connectedToPeerFlag.  In
\* Completed it is of this session too, but it may still be the disconnect:
\* OnIceConnectionChange does not report a recovery straight to Completed.
ConnectedReported ==
    \A e \in End : LET p == told[e].peer IN
        /\ conn[e].ice = "Connected" => p.state = "Connect_Success"
        /\ conn[e].ice = "Completed" => p.state \in {"Connect_Success", "Disconnect"}
        /\ conn[e].ice \in {"Connected", "Completed"} => p.session = sessions[e]

\* While a session lasts, SendData uses a channel of this session, also when
\* the last DeletePeerConnection raced an OnDataChannel and the channel of the
\* dead connection was left: AddStreams of the next session replaces it.
ChannelOfSession ==
    \A e \in End :
        conn[e].live /\ ~conn[e].closing => obs[e].chan.session = sessions[e]

\* Nobody waits for ever: an offer ends with both users told that they are
\* connected or one of them told of a failure or a loss, unless a user ends the
\* session or asks for a second offer (whose new gathering is not reported).
Connects ==
    conn["A"].requests # <<>> ~>
        \/ \A e \in End : told[e].peer.state = "Connect_Success"
        \/ \E e \in End : \/ told[e].server.state = "Connect_Failure"
                          \/ told[e].peer.state \in {"Connect_Failure", "Disconnect"}
        \/ ends > 0 \/ \E e \in End : offers[e] > 1
=============================================================================
