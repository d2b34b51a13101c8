-------------------------------- MODULE Turn --------------------------------
(***************************************************************************)
(* A TURN client, TurnPort with its StunRequestManager, and the TurnServer *)
(* that relays for it, over UDP: allocation with an authentication         *)
(* challenge, refreshes, permissions and channels.                         *)
(*                                                                         *)
(* Datagrams are lost and reordered.  The client sends a request again     *)
(* until it is answered or was sent MaxSends times, so that the server     *)
(* sees duplicates and the client answers to requests it has forgotten.    *)
(*                                                                         *)
(* An exchange takes seconds, the timers of both sides take minutes: a     *)
(* Tick is a minute and happens when no exchange is under way.  Timers and *)
(* nonces are kept as the number of minutes that they have left.           *)
(***************************************************************************)
EXTENDS Integers, FiniteSets, Functions

CONSTANTS
    None,               \* no nonce, peer or allocation
    Peer,               \* transport addresses of peers
    IpOf,               \* the IP address of a peer
    MaxFlight,          \* bound: datagrams under way
    MaxTx,              \* bound: transaction ids of a kind in use at a time
    MaxSends,           \* MAX_SENDS
    Lifetime,           \* kDefaultAllocationTimeout
    Margin,             \* one minute
    PermissionTimeout,  \* kPermissionTimeout and TURN_PERMISSION_TIMEOUT
    ChannelTimeout,     \* kChannelTimeout
    NonceTimeout,       \* kNonceTimeout
    MaxChannel,         \* kMaxChannelNumber
    MaxEntries,         \* bound: entries that the client creates
    MaxOpen,            \* bound: entries at a time
    MaxActive           \* bound: requests under way when the client makes one more

ASSUME TurnAssumption ==
    /\ MaxFlight \in Nat \ {0} /\ MaxTx \in Nat \ {0} /\ MaxSends \in Nat \ {0}
    /\ Margin \in Nat \ {0} /\ Lifetime \in Nat /\ Lifetime >= 2 * Margin
    /\ PermissionTimeout \in Nat /\ PermissionTimeout > Margin
    /\ ChannelTimeout \in Nat /\ ChannelTimeout >= PermissionTimeout
    /\ NonceTimeout \in Nat \ {0}
    /\ MaxChannel \in Nat \ {0} /\ MaxEntries \in Nat /\ MaxOpen \in Nat
    /\ MaxActive \in Nat \ {0}

Types == {"Allocate", "Refresh", "CreatePermission", "ChannelBind"}
DataTypes == {"ChannelData", "DataIndication"}

Tx == Types \X (0..MaxEntries) \X (1..MaxTx)

\* TurnServer::Allocation: the request that made it, the minutes that its
\* timers have left, its permissions by IP address, its channels by number
Allocation ==
    [tid: Tx, timers: (SUBSET (0..Lifetime)) \ {{}},
     perms: UNION {[ips -> 0..PermissionTimeout] : ips \in SUBSET {IpOf[p] : p \in Peer}},
     channels: UNION {[cs -> [peer: Peer, left: 0..ChannelTimeout]] : cs \in SUBSET (1..MaxEntries)}]

ASSUME NoneAssumption == None \notin Nat /\ None \notin Peer /\ None \notin Allocation

VARIABLES
    \* the client
    prepared,     \* PrepareAddress was called
    connected,    \* connected_
    nonce,        \* nonce_; None as long as hash_ is empty
    error,        \* MSG_ERROR is posted, SignalPortError was fired
    requests,     \* requests_ of the request manager, by transaction id
    entries,      \* entries_, by address
    nextChannel,  \* next_channel_number_
    \* the network
    toServer, toClient,
    \* the server
    alloc,        \* the client's allocation, if there is one
    validUser,    \* the authentication hook knows the client's credentials
    \* history
    failure,      \* why the allocation failed: the code of the answer, or NoAnswer
    unanswered    \* a request other than Allocate has timed out

client == <<prepared, connected, nonce, error, requests, entries, nextChannel>>
server == <<alloc, validUser>>
history == <<failure, unanswered>>
vars == <<client, toServer, toClient, server, history>>

-----------------------------------------------------------------------------
(* The network: a datagram that is sent arrives once, or is lost *)

CanHold == Cardinality(toServer) + Cardinality(toClient) < MaxFlight

ToServer(m) == \/ CanHold /\ toServer' = toServer \cup {m}
               \/ UNCHANGED toServer

\* sent in answer to `got', or by itself
ToClient(got, m) == \/ (got # {} \/ CanHold) /\ toClient' = toClient \cup {m}
                    \/ UNCHANGED toClient

-----------------------------------------------------------------------------
(* Requests *)

\* Transaction ids are random: none is chosen that anyone still knows.  (To keep
\* states few an id tells which request it is of; nobody looks at that.)
UsedTx ==
    DOMAIN requests \cup {m.tid : m \in toServer}
    \cup {m.tid : m \in {r \in toClient : r.type \in Types}}
    \cup (IF alloc = None THEN {} ELSE {alloc.tid})

IsFresh(t) == /\ t \notin UsedTx
              /\ \A k \in 1..(t[3] - 1) : <<t[1], t[2], k>> \in UsedTx

\* A request holds the nonce that the port had when it was made; `entry' is
\* the channel of the TurnEntry that waits for it, 0 if that was destroyed.
Request(type, peer, chan, auth, delay) ==
    [type |-> type, peer |-> peer, chan |-> chan, entry |-> chan,
     nonce |-> auth, wait |-> delay, sends |-> 0]

PortRequest(type, auth, delay) == Request(type, None, 0, auth, delay)

\* the map f with y at x
Put(f, x, y) == [z \in DOMAIN f \cup {x} |-> IF z = x THEN y ELSE f[z]]

Delete(f, x) == Restrict(f, DOMAIN f \ {x})

\* SendDelayed of the request r
SendDelayed(r) ==
    \E n \in 1..MaxTx : /\ IsFresh(<<r.type, r.chan, n>>)
                       /\ requests' = Put(requests, <<r.type, r.chan, n>>, r)

\* SendDelayed of r while the answer of the request t is handled; the request
\* manager deletes t after that
SendInstead(t, r) ==
    \E n \in 1..MaxTx : /\ IsFresh(<<r.type, r.chan, n>>)
                       /\ requests' = Delete(Put(requests, <<r.type, r.chan, n>>, r), t)

SendStun(t) ==
    ToServer([tid |-> t, type |-> requests[t].type, nonce |-> requests[t].nonce,
              peer |-> requests[t].peer, chan |-> requests[t].chan])

\* StunRequest::OnMessage sends the request, or sends it again
OnMessage(t) ==
    /\ t \in DOMAIN requests
    /\ requests[t].wait = 0 /\ requests[t].sends < MaxSends
    /\ SendStun(t)
    /\ requests' = [requests EXCEPT ![t].sends = @ + 1]
    /\ UNCHANGED <<prepared, connected, nonce, error, entries, nextChannel, toClient, server, history>>

OnAllocateError(code) == error' = "posted" /\ failure' = code

NoAnswer == 1

\* mutant: an allocate request that times out is only logged
OnTimeoutOf_mut(type) == UNCHANGED <<error, failure>>

\* OnTimeout of the four requests: only the first does anything
OnTimeoutOf(type) ==
    IF type = "Allocate" THEN OnAllocateError(NoAnswer) ELSE UNCHANGED <<error, failure>>

\* StunRequest::OnMessage once the request was sent MaxSends times
OnTimeout(t) ==
    /\ t \in DOMAIN requests
    /\ requests[t].sends = MaxSends
    /\ OnTimeoutOf(requests[t].type)
    /\ requests' = Delete(requests, t)
    /\ unanswered' = (unanswered \/ requests[t].type # "Allocate")
    /\ UNCHANGED <<prepared, connected, nonce, entries, nextChannel, toServer, toClient, server>>

-----------------------------------------------------------------------------
(* The port *)

PrepareAddress ==
    /\ ~prepared
    /\ prepared' = TRUE
    /\ SendDelayed(PortRequest("Allocate", nonce, 0))
    /\ UNCHANGED <<connected, nonce, error, entries, nextChannel, toServer, toClient, server, history>>

\* PrepareAddress without credentials, with a server address of another family,
\* or when CreateTurnClientSocket fails: nothing is sent
PrepareAddressFails ==
    /\ ~prepared
    /\ prepared' = TRUE
    /\ OnAllocateError(NoAnswer)
    /\ UNCHANGED <<connected, nonce, requests, entries, nextChannel, toServer, toClient, server,
                   unanswered>>

\* the posted MSG_ERROR
SignalPortError ==
    /\ error = "posted"
    /\ error' = "signalled"
    /\ UNCHANGED <<prepared, connected, nonce, requests, entries, nextChannel, toServer, toClient,
                   server, history>>

\* mutant: the refresh is scheduled for the end of the lifetime
RefreshDelay_mut(lifetime) == lifetime

RefreshDelay(lifetime) == lifetime - Margin

\* ScheduleRefresh for the answer of t; a lifetime below two minutes is not
\* refreshed
ScheduleRefresh(t, lifetime) ==
    IF lifetime < 2 * Margin THEN requests' = Delete(requests, t)
    ELSE SendInstead(t, PortRequest("Refresh", nonce, RefreshDelay(lifetime)))

\* CheckResponse finds the request of an answer by its transaction id
CheckResponse(r, type) ==
    /\ r \in toClient
    /\ r.type = type
    /\ r.tid \in DOMAIN requests
    /\ toClient' = toClient \ {r}

\* TurnAllocateRequest: OnResponse, OnErrorResponse and OnAuthChallenge
AllocateAnswered(r) ==
    /\ CheckResponse(r, "Allocate")
    /\ \/ /\ r.code = 0
          /\ connected' = TRUE
          /\ ScheduleRefresh(r.tid, r.lifetime)
          /\ UNCHANGED <<nonce, error, failure>>
       \/ /\ r.code = 401 /\ nonce = None
          /\ nonce' = r.nonce
          /\ SendInstead(r.tid, PortRequest("Allocate", r.nonce, 0))
          /\ UNCHANGED <<connected, error, failure>>
       \/ /\ r.code # 0 /\ ~(r.code = 401 /\ nonce = None)
          /\ OnAllocateError(r.code)
          /\ requests' = Delete(requests, r.tid)
          /\ UNCHANGED <<connected, nonce>>
    /\ UNCHANGED <<prepared, entries, nextChannel, toServer, server, unanswered>>

\* TurnRefreshRequest: after an error that is not a stale nonce, nothing
RefreshAnswered(r) ==
    /\ CheckResponse(r, "Refresh")
    /\ \/ /\ r.code = 0
          /\ ScheduleRefresh(r.tid, r.lifetime)
          /\ UNCHANGED nonce
       \/ /\ r.code = 438
          /\ nonce' = r.nonce
          /\ SendInstead(r.tid, PortRequest("Refresh", r.nonce, 0))
       \/ /\ r.code \notin {0, 438}
          /\ requests' = Delete(requests, r.tid)
          /\ UNCHANGED nonce
    /\ UNCHANGED <<prepared, connected, error, entries, nextChannel, toServer, server, history>>

-----------------------------------------------------------------------------
(* Entries *)

EntryRequest(type, p, auth, delay) == Request(type, p, entries[p].chan, auth, delay)

\* mutant: a channel number is taken that no entry has
NextChannel_mut == CHOOSE c \in 1..MaxEntries : \A p \in DOMAIN entries : entries[p].chan # c

NextChannel == nextChannel

MayAsk == Cardinality({t \in DOMAIN requests : requests[t].wait = 0}) < MaxActive

\* CreateConnection, CreateEntry and the constructor of TurnEntry
CreateEntry(p) ==
    /\ connected /\ p \notin DOMAIN entries
    /\ nextChannel <= MaxEntries /\ Cardinality(DOMAIN entries) < MaxOpen /\ MayAsk
    /\ entries' = Put(entries, p, [chan |-> NextChannel, state |-> "unbound"])
    /\ nextChannel' = nextChannel + 1
    /\ SendDelayed(Request("CreatePermission", p, NextChannel, nonce, 0))
    /\ UNCHANGED <<prepared, connected, nonce, error, toServer, toClient, server, history>>

\* DestroyEntry: the requests of the entry go on without it
DestroyEntry(p) ==
    /\ p \in DOMAIN entries
    /\ entries' = Delete(entries, p)
    /\ requests' = [t \in DOMAIN requests |->
                      IF requests[t].entry = entries[p].chan
                      THEN [requests[t] EXCEPT !.entry = 0] ELSE requests[t]]
    /\ UNCHANGED <<prepared, connected, nonce, error, nextChannel, toServer, toClient, server, history>>

\* TurnEntry::Send of real data to a peer whose channel was not asked for yet;
\* otherwise Send changes nothing
SendTo(p) ==
    /\ connected /\ p \in DOMAIN entries
    /\ entries[p].state = "unbound" /\ MayAsk
    /\ entries' = [entries EXCEPT ![p].state = "binding"]
    /\ SendDelayed(EntryRequest("ChannelBind", p, nonce, 0))
    /\ UNCHANGED <<prepared, connected, nonce, error, nextChannel, toServer, toClient, server, history>>

\* TurnCreatePermissionRequest and TurnEntry: an entry that is gone hears nothing
PermissionAnswered(r) ==
    /\ CheckResponse(r, "CreatePermission")
    /\ LET p == requests[r.tid].peer IN
       \/ /\ requests[r.tid].entry # 0 /\ r.code = 438
          /\ nonce' = r.nonce
          /\ SendInstead(r.tid, EntryRequest("CreatePermission", p, r.nonce, 0))
       \/ /\ requests[r.tid].entry = 0 \/ r.code # 438
          /\ requests' = Delete(requests, r.tid)
          /\ UNCHANGED nonce
    /\ UNCHANGED <<prepared, connected, error, entries, nextChannel, toServer, server, history>>

RebindDelay == PermissionTimeout - Margin

\* TurnChannelBindRequest and TurnEntry: a channel that was bound is bound
\* again, an error that is not a stale nonce leaves it as it is
BindAnswered(r) ==
    /\ CheckResponse(r, "ChannelBind")
    /\ LET p == requests[r.tid].peer IN
       \/ /\ requests[r.tid].entry # 0 /\ r.code = 0
          /\ entries' = [entries EXCEPT ![p].state = "bound"]
          /\ SendInstead(r.tid, EntryRequest("ChannelBind", p, nonce, RebindDelay))
          /\ UNCHANGED nonce
       \/ /\ requests[r.tid].entry # 0 /\ r.code = 438
          /\ nonce' = r.nonce
          /\ SendInstead(r.tid, EntryRequest("ChannelBind", p, r.nonce, 0))
          /\ UNCHANGED entries
       \/ /\ requests[r.tid].entry = 0 \/ r.code \notin {0, 438}
          /\ requests' = Delete(requests, r.tid)
          /\ UNCHANGED <<nonce, entries>>
    /\ UNCHANGED <<prepared, connected, error, nextChannel, toServer, server, history>>

\* an answer to no request
StrayAnswer(r) ==
    /\ r \in toClient
    /\ r.type \in Types /\ r.tid \notin DOMAIN requests
    /\ toClient' = toClient \ {r}
    /\ UNCHANGED <<client, toServer, server, history>>

HasPermission(ip) == \E p \in DOMAIN entries : IpOf[p] = ip

\* HandleChannelData and HandleDataIndication: the peer as whose packet a packet
\* is dispatched, None if it is dropped
DispatchedAs(m) ==
    IF m.type = "ChannelData"
    THEN IF \E p \in DOMAIN entries : entries[p].chan = m.chan
         THEN CHOOSE p \in DOMAIN entries : entries[p].chan = m.chan ELSE None
    ELSE IF HasPermission(IpOf[m.peer]) THEN m.peer ELSE None

\* OnReadPacket of relayed data, which goes to the connection
OnReadData(m) ==
    /\ m \in toClient /\ m.type \in DataTypes
    /\ toClient' = toClient \ {m}
    /\ UNCHANGED <<client, toServer, server, history>>

-----------------------------------------------------------------------------
(* The server *)

Respond(m, code) ==
    ToClient({m}, [tid |-> m.tid, type |-> m.type, code |-> code,
                   nonce |-> IF code \in {401, 438} THEN NonceTimeout ELSE None,
                   lifetime |-> IF code = 0 THEN Lifetime ELSE 0])

\* CheckAuthorization: the code it answers, 0 if the message passes
CheckAuthorization(m) ==
    CASE m.nonce = None -> 401
      [] m.nonce = 0 -> 438
      [] m.nonce # None /\ m.nonce # 0 /\ ~validUser -> 401
      [] OTHER -> 0

Receive(m) == m \in toServer /\ toServer' = toServer \ {m}

Refused(m) ==
    /\ Receive(m)
    /\ CheckAuthorization(m) # 0
    /\ Respond(m, CheckAuthorization(m))
    /\ UNCHANGED <<client, server, history>>

Authorized(m) == Receive(m) /\ CheckAuthorization(m) = 0

\* HandleAllocateRequest and CreateAllocation, which may get no socket
NewAllocation(m) ==
    /\ Authorized(m)
    /\ m.type = "Allocate" /\ alloc = None
    /\ \/ /\ alloc' = [tid |-> m.tid, timers |-> {Lifetime}, perms |-> <<>>, channels |-> <<>>]
          /\ Respond(m, 0)
       \/ Respond(m, 500) /\ UNCHANGED alloc
    /\ UNCHANGED <<client, validUser, history>>

\* mutant: a retransmitted allocate request is a second one
IsRetransmit_mut(m) == FALSE

IsRetransmit(m) == m.tid = alloc.tid

\* a retransmitted allocate request starts one more timer
AllocateAgain(m) ==
    /\ Authorized(m)
    /\ m.type = "Allocate" /\ alloc # None /\ IsRetransmit(m)
    /\ alloc' = [alloc EXCEPT !.timers = @ \cup {Lifetime}]
    /\ Respond(m, 0)
    /\ UNCHANGED <<client, validUser, history>>

\* there is no allocation, or one of another request
Mismatch(m) ==
    /\ Authorized(m)
    /\ IF m.type = "Allocate" THEN alloc # None /\ ~IsRetransmit(m) ELSE alloc = None
    /\ Respond(m, 437)
    /\ UNCHANGED <<client, server, history>>

\* mutant: the timer that runs is not cleared
Refreshed_mut(timers) == timers \cup {Lifetime}

Refreshed(timers) == {Lifetime}

HandleRefreshRequest(m) ==
    /\ Authorized(m)
    /\ m.type = "Refresh" /\ alloc # None
    /\ alloc' = [alloc EXCEPT !.timers = Refreshed(@)]
    /\ Respond(m, 0)
    /\ UNCHANGED <<client, validUser, history>>

\* mutant: the timer of a permission that exists is not started again
AddPermission_mut(perms, p) ==
    IF IpOf[p] \in DOMAIN perms THEN perms ELSE Put(perms, IpOf[p], PermissionTimeout)

AddPermission(perms, p) == Put(perms, IpOf[p], PermissionTimeout)

HandleCreatePermissionRequest(m) ==
    /\ Authorized(m)
    /\ m.type = "CreatePermission" /\ alloc # None
    /\ alloc' = [alloc EXCEPT !.perms = AddPermission(@, m.peer)]
    /\ Respond(m, 0)
    /\ UNCHANGED <<client, validUser, history>>

ChannelOf(p) == {c \in DOMAIN alloc.channels : alloc.channels[c].peer = p}

\* the channel number and the peer belong to no other peer or number
Bindable(m) ==
    /\ m.chan <= MaxChannel
    /\ ChannelOf(m.peer) = DOMAIN alloc.channels \cap {m.chan}

HandleChannelBindRequest(m) ==
    /\ Authorized(m)
    /\ m.type = "ChannelBind" /\ alloc # None
    /\ IF Bindable(m)
       THEN /\ alloc' = [alloc EXCEPT
                  !.channels = Put(@, m.chan, [peer |-> m.peer, left |-> ChannelTimeout]),
                  !.perms = AddPermission(@, m.peer)]
            /\ Respond(m, 0)
       ELSE Respond(m, 400) /\ UNCHANGED alloc
    /\ UNCHANGED <<client, validUser, history>>

\* OnExternalPacket: a peer sends to the relayed address
OnExternalPacket(p) ==
    /\ alloc # None
    /\ \/ /\ ChannelOf(p) # {}
          /\ ToClient({}, [type |-> "ChannelData", from |-> p,
                           chan |-> CHOOSE c \in ChannelOf(p) : TRUE])
       \/ /\ ChannelOf(p) = {} /\ IpOf[p] \in DOMAIN alloc.perms
          /\ ToClient({}, [type |-> "DataIndication", peer |-> p, from |-> p])
    /\ UNCHANGED <<client, toServer, server, history>>

\* HandleChannelData and HandleSendIndication relay what the client sends to p
Relays(p) ==
    /\ alloc # None
    /\ IF entries[p].state = "bound"
       THEN p \in {alloc.channels[c].peer : c \in DOMAIN alloc.channels \cap {entries[p].chan}}
       ELSE IpOf[p] \in DOMAIN alloc.perms

AllocationTimeout ==
    /\ alloc # None /\ 0 \in alloc.timers
    /\ alloc' = None
    /\ UNCHANGED <<client, toServer, toClient, validUser, history>>

PermissionExpires(ip) ==
    /\ alloc # None /\ ip \in DOMAIN alloc.perms /\ alloc.perms[ip] = 0
    /\ alloc' = [alloc EXCEPT !.perms = Delete(@, ip)]
    /\ UNCHANGED <<client, toServer, toClient, validUser, history>>

ChannelExpires(c) ==
    /\ alloc # None /\ c \in DOMAIN alloc.channels /\ alloc.channels[c].left = 0
    /\ alloc' = [alloc EXCEPT !.channels = Delete(@, c)]
    /\ UNCHANGED <<client, toServer, toClient, validUser, history>>

-----------------------------------------------------------------------------
(* Time *)

Less(n) == IF n \in {0, None} THEN n ELSE n - 1

\* a request and an allocation a minute later
LaterRequest(q) == [q EXCEPT !.wait = Less(q.wait), !.nonce = Less(q.nonce)]

LaterAllocation(a) ==
    [a EXCEPT !.timers = {n - 1 : n \in a.timers},
              !.perms = [ip \in DOMAIN a.perms |-> a.perms[ip] - 1],
              !.channels = [c \in DOMAIN a.channels |->
                              [a.channels[c] EXCEPT !.left = a.channels[c].left - 1]]]

\* every exchange is over, and every timer that was due has fired
Quiet ==
    /\ toServer = {} /\ toClient = {}
    /\ \A t \in DOMAIN requests : requests[t].wait > 0
    /\ alloc # None => /\ 0 \notin alloc.timers
                       /\ \A ip \in DOMAIN alloc.perms : alloc.perms[ip] > 0
                       /\ \A c \in DOMAIN alloc.channels : alloc.channels[c].left > 0

Tick ==
    /\ Quiet
    /\ nonce' = Less(nonce)
    /\ requests' = [t \in DOMAIN requests |-> LaterRequest(requests[t])]
    /\ alloc' = IF alloc = None THEN None ELSE LaterAllocation(alloc)
    /\ UNCHANGED <<prepared, connected, error, entries, nextChannel, toServer, toClient, validUser,
                   history>>

-----------------------------------------------------------------------------
Init ==
    /\ prepared = FALSE /\ connected = FALSE
    /\ nonce = None /\ error = "none"
    /\ requests = <<>> /\ entries = <<>> /\ nextChannel = 1
    /\ toServer = {} /\ toClient = {}
    /\ alloc = None
    /\ validUser \in BOOLEAN
    /\ failure = 0 /\ unanswered = FALSE

Client ==
    \/ PrepareAddress \/ PrepareAddressFails \/ SignalPortError
    \/ \E t \in DOMAIN requests : OnMessage(t) \/ OnTimeout(t)
    \/ \E r \in toClient : \/ AllocateAnswered(r) \/ RefreshAnswered(r) \/ PermissionAnswered(r)
                           \/ BindAnswered(r) \/ StrayAnswer(r) \/ OnReadData(r)
    \/ \E p \in Peer : CreateEntry(p) \/ DestroyEntry(p) \/ SendTo(p)

Server ==
    \/ \E m \in toServer : \/ Refused(m) \/ NewAllocation(m) \/ AllocateAgain(m) \/ Mismatch(m)
                           \/ HandleRefreshRequest(m) \/ HandleCreatePermissionRequest(m)
                           \/ HandleChannelBindRequest(m)
    \/ \E p \in Peer : OnExternalPacket(p) \/ PermissionExpires(IpOf[p])
    \/ AllocationTimeout
    \/ \E c \in 1..MaxEntries : ChannelExpires(c)

Next == Client \/ Server \/ Tick

Spec == Init /\ [][Next]_vars

-----------------------------------------------------------------------------
(* Properties *)

Auth == (0..NonceTimeout) \cup {None}

Requests == [type: Types, peer: Peer \cup {None}, chan: 0..MaxEntries, entry: 0..MaxEntries,
             nonce: Auth, sends: 0..MaxSends,
             wait: (0..(Lifetime - Margin)) \cup (0..(PermissionTimeout - Margin))]

\* Every variable has its type.
TypeOK ==
    /\ prepared \in BOOLEAN /\ connected \in BOOLEAN
    /\ nonce \in Auth /\ error \in {"none", "posted", "signalled"}
    /\ DOMAIN requests \subseteq Tx
    /\ \A t \in DOMAIN requests : requests[t] \in Requests
    /\ DOMAIN entries \subseteq Peer
    /\ \A p \in DOMAIN entries :
          entries[p] \in [chan: 1..MaxEntries, state: {"unbound", "binding", "bound"}]
    /\ nextChannel \in 1..(MaxEntries + 1)
    /\ \A m \in toServer : m \in [tid: Tx, type: Types, nonce: Auth, peer: Peer \cup {None},
                                  chan: 0..MaxEntries]
    /\ \A m \in toClient :
          \/ m \in [tid: Tx, type: Types, code: {0, 400, 401, 437, 438, 500}, nonce: Auth,
                    lifetime: {0, Lifetime}]
          \/ m \in [type: {"ChannelData"}, chan: 1..MaxEntries, from: Peer]
          \/ m \in [type: {"DataIndication"}, peer: Peer, from: Peer]
    /\ alloc \in Allocation \cup {None}
    /\ validUser \in BOOLEAN /\ unanswered \in BOOLEAN
    /\ failure \in {0, NoAnswer, 400, 401, 437, 438, 500}

\* A port that has its allocation keeps it: as long as no request has timed out
\* other than an Allocate, the server has an allocation for a connected port,
\* whatever was lost, repeated or overtaken, and also when nonces grow stale on
\* the way.
AllocationKept == connected /\ ~unanswered => alloc # None

\* What a port sends on a channel that it believes bound is relayed, and the
\* peer may answer: the server has the channel for that peer and a permission,
\* as long as no refresh or bind times out.
BoundRelayed ==
    \A p \in DOMAIN entries : entries[p].state = "bound" /\ ~unanswered =>
        Relays(p) /\ IpOf[p] \in DOMAIN alloc.perms

\* A packet is dispatched as the packet of the peer that sent it, also when the
\* entry of its channel was destroyed and another was created meanwhile.
RightSource == \A m \in toClient : m.type \in DataTypes => DispatchedAs(m) \in {None, m.from}

\* A port that gives up because of an answer leaves no allocation behind, unless
\* the server had no socket at first: a request that was granted and is sent
\* again is granted again, and answers that overtake each other agree.
RefusedHasNone == failure \in {400, 401, 437, 438} => alloc = None

\* PrepareAddress does not get stuck: the port is connected, has an error to
\* report, or has a request that will be answered or time out.
PortNotStuck ==
    prepared => \/ connected
                \/ error # "none"
                \/ \E t \in DOMAIN requests : requests[t].type = "Allocate"
=============================================================================
