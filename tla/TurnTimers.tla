----------------------------- MODULE TurnTimers -----------------------------
(***************************************************************************)
(* Theorems about Turn that rest on its timers: the port refreshes its     *)
(* allocation, and rebinds its channels, before the server's timers fire.  *)
(***************************************************************************)
EXTENDS TurnProofs

-----------------------------------------------------------------------------
(* Authentication *)

\* The port is connected, and has entries, only as a user that the server knows;
\* before PrepareAddress there is nothing.
PortAuth ==
    /\ connected => nonce # None /\ validUser
    /\ DOMAIN entries # {} => connected
    /\ ~prepared => nonce = None /\ DOMAIN requests = {}

\* An allocate request has no nonce, before the challenge, or one that is new;
\* every other request is made by a connected port and has one.
RequestAuth(q) ==
    /\ q.nonce # None => nonce # None
    /\ q.type = "Allocate" => /\ q.wait = 0 /\ q.nonce \in {None, NonceTimeout}
                              /\ q.nonce = None => nonce = None
    /\ q.type # "Allocate" => connected /\ q.nonce # None

OneAllocate ==
    \A t, u \in DOMAIN requests :
        requests[t].type = "Allocate" /\ requests[u].type = "Allocate" => t = u

\* A datagram is as its request, if that still waits.
MessageAuth(m) ==
    /\ m.nonce # None => nonce # None
    /\ m.type = "Allocate" => m.nonce \in {None, NonceTimeout}
    /\ m.type # "Allocate" => connected /\ m.nonce # None
    /\ m.tid \in DOMAIN requests =>
          /\ requests[m.tid].nonce = m.nonce /\ requests[m.tid].wait = 0
          /\ requests[m.tid].peer = m.peer /\ requests[m.tid].chan = m.chan

\* The code of an answer that finds its request tells about the request.
ResponseAuth(r) ==
    /\ r.tid \in DOMAIN requests => requests[r.tid].wait = 0
    /\ r.type # "Allocate" => connected /\ r.code # 401
    /\ r.type = "Allocate" =>
          /\ r.code \in {0, 401, 500}
          /\ r.code = 0 => nonce # None /\ validUser
          /\ r.code = 401 /\ r.tid \in DOMAIN requests => requests[r.tid].nonce = None \/ ~validUser

AllocationAuth == alloc # None => nonce # None /\ validUser /\ alloc.tid[1] = "Allocate"

\* The transaction id of an allocate request that the server may grant, or has.
Authenticated(t) ==
    \/ t \in DOMAIN requests /\ requests[t].type = "Allocate" /\ requests[t].nonce # None
    \/ \E m \in toServer : m.tid = t /\ m.type = "Allocate" /\ m.nonce # None
    \/ alloc # None /\ alloc.tid = t

OneAuthenticated == \A t, u : Authenticated(t) /\ Authenticated(u) => t = u

FailureAuth == failure \in {400, 401, 437, 438} => ~validUser

AuthInv ==
    /\ PortAuth /\ OneAllocate
    /\ \A t \in DOMAIN requests : RequestAuth(requests[t])
    /\ \A m \in toServer : MessageAuth(m)
    /\ \A r \in toClient : r.type \in Types => ResponseAuth(r)
    /\ AllocationAuth /\ OneAuthenticated /\ FailureAuth

-----------------------------------------------------------------------------
(* Timers *)

\* The allocation was made or refreshed in this minute.
FreshAllocation == alloc # None /\ alloc.timers = {Lifetime}

\* The refresh that waits is due before every timer of the allocation.
KeepInv ==
    /\ alloc # None /\ (alloc.tid \in DOMAIN requests \/ \E m \in toServer : m.tid = alloc.tid)
          => FreshAllocation
    /\ \A r \in toClient : r.type \in ForPort /\ r.code = 0 => FreshAllocation
    /\ \A r \in toClient : r.type = "Refresh" => r.code \in {0, 438} \/ unanswered
    /\ connected /\ ~unanswered =>
          /\ alloc # None
          /\ \E t \in DOMAIN requests : /\ requests[t].type = "Refresh"
                                        /\ \A n \in alloc.timers : requests[t].wait < n

\* The request t binds the channel of an entry that lives.
Binding(t) == t \in DOMAIN requests /\ requests[t].type = "ChannelBind" /\ requests[t].entry # 0

\* An entry has one request that binds its channel, once it wants one.
OneBinding ==
    /\ \A t, u \in DOMAIN requests :
          Binding(t) /\ Binding(u) /\ requests[t].chan = requests[u].chan => t = u
    /\ \A t \in DOMAIN requests : Binding(t) => entries[requests[t].peer].state # "unbound"

\* The server's channel numbers are in range, and a peer has one.
OneChannel ==
    alloc # None =>
        /\ DOMAIN alloc.channels \subseteq 1..MaxChannel
        /\ \A c, d \in DOMAIN alloc.channels :
              alloc.channels[c].peer = alloc.channels[d].peer => c = d

\* The channel c of p was bound in this minute.
FreshChannel(c, p) ==
    /\ alloc # None /\ c \in DOMAIN alloc.channels
    /\ alloc.channels[c].peer = p /\ alloc.channels[c].left = ChannelTimeout
    /\ IpOf[p] \in DOMAIN alloc.perms /\ alloc.perms[IpOf[p]] = PermissionTimeout

\* The rebinding that waits is due before the server's timers for p.
Rebinds(p) ==
    LET c == entries[p].chan
    IN /\ alloc # None /\ c \in DOMAIN alloc.channels /\ alloc.channels[c].peer = p
       /\ IpOf[p] \in DOMAIN alloc.perms
       /\ \E t \in DOMAIN requests : /\ Binding(t) /\ requests[t].chan = c
                                     /\ requests[t].wait < alloc.channels[c].left
                                     /\ requests[t].wait < alloc.perms[IpOf[p]]

\* The channel of an answer that binds it is fresh.
FreshAnswers ==
    \A r \in toClient : r.type = "ChannelBind" /\ r.tid \in DOMAIN requests /\ r.code = 0
        => FreshChannel(requests[r.tid].chan, requests[r.tid].peer)

\* A channel that is bound already is bound again, or the nonce was stale.
GoodAnswers ==
    \A r \in toClient :
        r.type = "ChannelBind" /\ Binding(r.tid) /\ entries[requests[r.tid].peer].state = "bound"
            => r.code \in {0, 438}

AllRebind == \A p \in DOMAIN entries : entries[p].state = "bound" => Rebinds(p)

BindInv ==
    /\ OneBinding /\ OneChannel
    /\ ~unanswered => FreshAnswers /\ GoodAnswers /\ AllRebind

-----------------------------------------------------------------------------
(* Requests from one step to the next *)

Kept(u) ==
    /\ u \in DOMAIN requests
    /\ requests'[u].type = requests[u].type /\ requests'[u].peer = requests[u].peer
    /\ requests'[u].chan = requests[u].chan
    /\ requests'[u].nonce = requests[u].nonce /\ requests'[u].wait = requests[u].wait

\* A request was there before, or has an id that nobody knows.
Steady == \A u \in DOMAIN requests' : Kept(u) \/ u \notin UsedTx

LEMMA Used ==
    /\ \A t \in DOMAIN requests : t \in UsedTx
    /\ \A m \in toServer : m.tid \in UsedTx
    /\ \A r \in toClient : r.type \in Types => r.tid \in UsedTx
    /\ alloc # None => alloc.tid \in UsedTx
  BY DEF UsedTx

LEMMA AddsSteady ==
    ASSUME NEW t, NEW q, NEW gone, Adds(t, q, gone)
    PROVE  /\ Steady
           /\ \A u \in DOMAIN requests' : u = t \/ (Kept(u) /\ u \notin gone)
           /\ \A u \in DOMAIN requests \ gone : u \in DOMAIN requests' /\ Kept(u)
           /\ t \in DOMAIN requests' /\ requests'[t] = q /\ t \notin UsedTx
  BY DEF Adds, Steady, Kept

LEMMA DropsSteady ==
    ASSUME NEW t, Drops(t)
    PROVE  /\ Steady
           /\ \A u \in DOMAIN requests' : Kept(u) /\ u # t
           /\ \A u \in DOMAIN requests \ {t} : u \in DOMAIN requests' /\ Kept(u)
  BY DEF Drops, Steady, Kept

LEMMA SameSteady ==
    ASSUME UNCHANGED requests
    PROVE  Steady /\ \A u \in DOMAIN requests' : Kept(u)
  BY DEF Steady, Kept

\* What stays as it is when requests are steady, the network forgets and the
\* port has a nonce and a connection as before, or more.
LEMMA AuthFrame ==
    ASSUME TypeInv, AuthInv, Steady, UNCHANGED <<alloc, validUser>>,
           toServer' \subseteq toServer, toClient' \subseteq toClient,
           nonce # None => nonce' # None, connected => connected'
    PROVE  /\ \A m \in toServer' : MessageAuth(m)'
           /\ \A r \in toClient' : r.type \in Types => ResponseAuth(r)'
           /\ AllocationAuth'
           /\ \A u \in DOMAIN requests' :
                 Kept(u) /\ (requests[u].type = "Allocate" /\ requests[u].nonce = None => nonce' = None)
                    => RequestAuth(requests[u])'
  <1>1. ASSUME NEW m \in toServer' PROVE MessageAuth(m)'
    <2>1. m \in toServer /\ MessageAuth(m) /\ m.tid \in UsedTx
      BY Used DEF AuthInv
    <2>2. m.tid \in DOMAIN requests' => Kept(m.tid)
      BY <2>1 DEF Steady
    <2> QED
      BY <2>1, <2>2 DEF MessageAuth, Kept
  <1>2. ASSUME NEW r \in toClient', r.type \in Types PROVE ResponseAuth(r)'
    <2>1. r \in toClient /\ ResponseAuth(r) /\ r.tid \in UsedTx
      BY <1>2, Used DEF AuthInv
    <2>2. r.tid \in DOMAIN requests' => Kept(r.tid)
      BY <2>1 DEF Steady
    <2> QED
      BY <2>1, <2>2 DEF ResponseAuth, Kept
  <1>3. AllocationAuth'
    BY DEF AuthInv, AllocationAuth
  <1>4. ASSUME NEW u \in DOMAIN requests', Kept(u),
               requests[u].type = "Allocate" /\ requests[u].nonce = None => nonce' = None
        PROVE  RequestAuth(requests[u])'
    <2>1. RequestAuth(requests[u])
      BY <1>4 DEF AuthInv, Kept
    <2> QED
      BY <1>4, <2>1 DEF RequestAuth, Kept
  <1> QED
    BY <1>1, <1>2, <1>3, <1>4

\* Nobody new may be granted an allocation, or nobody was before.
LEMMA AuthenticatedFrame ==
    ASSUME OneAuthenticated,
           \/ \A t : Authenticated(t)' => Authenticated(t)
           \/ \E u : \A t : Authenticated(t)' => t = u
    PROVE  OneAuthenticated'
  BY DEF OneAuthenticated

LEMMA SteadyAuthenticated ==
    ASSUME UNCHANGED alloc, toServer' \subseteq toServer,
           \A u \in DOMAIN requests' :
              requests'[u].type = "Allocate" /\ requests'[u].nonce # None => Kept(u),
           NEW t, Authenticated(t)'
    PROVE  Authenticated(t)
  BY DEF Authenticated, Kept

LEMMA OneAllocateFrame ==
    ASSUME OneAllocate,
           \A u \in DOMAIN requests' : requests'[u].type = "Allocate" => Kept(u)
    PROVE  OneAllocate'
  BY DEF OneAllocate, Kept

-----------------------------------------------------------------------------
(* The client keeps AuthInv *)

LEMMA AuthPrepare ==
    ASSUME TypeInv, AuthInv, PrepareAddress
    PROVE  AuthInv'
  <1>1. PICK q : q = PortRequest("Allocate", nonce, 0)
    OBVIOUS
  <1>2. PICK t : Adds(t, q, {})
    BY <1>1, PrepareType DEF Sends
  <1>3. /\ ~prepared /\ prepared'
        /\ UNCHANGED <<connected, nonce, error, entries, nextChannel, toServer, toClient, alloc,
                       validUser, failure, unanswered>>
    BY PrepareType DEF server, history
  <1>4. nonce = None /\ DOMAIN requests = {} /\ PortAuth
    BY <1>3 DEF AuthInv, PortAuth
  <1>5. q.type = "Allocate" /\ q.nonce = None /\ q.wait = 0
    BY <1>1, <1>4 DEF PortRequest, Request
  <1>6. /\ Steady /\ \A u \in DOMAIN requests' : u = t
        /\ t \in DOMAIN requests' /\ requests'[t] = q
    BY <1>2, <1>4, AddsSteady DEF Kept
  <1>7. /\ \A m \in toServer' : MessageAuth(m)'
        /\ \A r \in toClient' : r.type \in Types => ResponseAuth(r)'
        /\ AllocationAuth'
    BY <1>3, <1>6, AuthFrame
  <1>8. \A u \in DOMAIN requests' : RequestAuth(requests[u])'
    BY <1>3, <1>4, <1>5, <1>6 DEF RequestAuth
  <1>9. OneAllocate'
    BY <1>6 DEF OneAllocate
  <1>10. OneAuthenticated'
    <2>1. \A u : Authenticated(u)' => Authenticated(u)
      BY <1>3, <1>5, <1>6, SteadyAuthenticated
    <2> QED
      BY <2>1, AuthenticatedFrame DEF AuthInv
  <1>11. PortAuth' /\ FailureAuth'
    BY <1>3, <1>4 DEF AuthInv, PortAuth, FailureAuth
  <1> QED
    BY <1>7, <1>8, <1>9, <1>10, <1>11 DEF AuthInv

\* A request is made that is not an allocate request, or none is; the rest of the
\* client's steps are of this kind.
LEMMA AuthSteady ==
    ASSUME TypeInv, AuthInv, Steady, UNCHANGED <<alloc, validUser>>,
           prepared => prepared', prepared \/ DOMAIN requests' = {},
           toServer' \subseteq toServer, toClient' \subseteq toClient,
           nonce # None => nonce' # None, nonce = None => nonce' = None,
           connected => connected', connected' => nonce' # None /\ validUser',
           DOMAIN entries' # {} => connected',
           \A u \in DOMAIN requests' :
              Kept(u) \/ (/\ requests'[u].type # "Allocate"
                          /\ connected' /\ nonce' # None /\ requests'[u].nonce # None),
           FailureAuth'
    PROVE  AuthInv'
  <1>1. /\ \A m \in toServer' : MessageAuth(m)'
        /\ \A r \in toClient' : r.type \in Types => ResponseAuth(r)'
        /\ AllocationAuth'
    BY AuthFrame
  <1>2. \A u \in DOMAIN requests' : RequestAuth(requests[u])'
    <2>1. ASSUME NEW u \in DOMAIN requests', Kept(u) PROVE RequestAuth(requests[u])'
      <3>1. RequestAuth(requests[u])
        BY <2>1 DEF AuthInv, Kept
      <3>2. requests[u].type = "Allocate" /\ requests[u].nonce = None => nonce' = None
        BY <3>1 DEF RequestAuth
      <3> QED
        BY <2>1, <3>2, AuthFrame
    <2>2. ASSUME NEW u \in DOMAIN requests', requests'[u].type # "Allocate", connected', nonce' # None,
                 requests'[u].nonce # None
          PROVE  RequestAuth(requests[u])'
      BY <2>2 DEF RequestAuth
    <2> QED
      BY <2>1, <2>2
  <1>3. \A u \in DOMAIN requests' : requests'[u].type = "Allocate" => Kept(u)
    OBVIOUS
  <1>4. OneAllocate'
    BY <1>3, OneAllocateFrame DEF AuthInv
  <1>5. OneAuthenticated'
    <2>1. \A u : Authenticated(u)' => Authenticated(u)
      BY <1>3, SteadyAuthenticated
    <2> QED
      BY <2>1, AuthenticatedFrame DEF AuthInv
  <1>6. PortAuth'
    BY DEF AuthInv, PortAuth
  <1> QED
    BY <1>1, <1>2, <1>4, <1>5, <1>6 DEF AuthInv

LEMMA PreparedNow ==
    ASSUME AuthInv, NEW t \in DOMAIN requests
    PROVE  prepared
  BY DEF AuthInv, PortAuth

LEMMA AuthAllocate ==
    ASSUME TypeInv, AuthInv, NEW r, AllocateAnswered(r)
    PROVE  AuthInv'
  <1> DEFINE Connects == /\ r.code = 0 /\ connected' = TRUE /\ UNCHANGED <<nonce, error, failure>>
                         /\ Sends(PortRequest("Refresh", nonce, Lifetime - Margin), {r.tid})
             Challenged == /\ r.code = 401 /\ nonce = None /\ nonce' = r.nonce
                           /\ UNCHANGED <<connected, error, failure>>
                           /\ Sends(PortRequest("Allocate", r.nonce, 0), {r.tid})
             Fails == /\ r.code # 0 /\ ~(r.code = 401 /\ nonce = None)
                      /\ Drops(r.tid) /\ error' = "posted" /\ failure' = r.code
                      /\ UNCHANGED <<connected, nonce>>
  <1>1. /\ CheckResponse(r, "Allocate") /\ "Allocate" \in Types
        /\ UNCHANGED <<prepared, entries, nextChannel, toServer, alloc, validUser, unanswered>>
    BY AllocateEffect DEF server, Types
  <1>2. /\ r \in toClient /\ r.type = "Allocate" /\ r.tid \in DOMAIN requests
        /\ toClient' \subseteq toClient /\ toServer' \subseteq toServer
    BY <1>1 DEF CheckResponse
  <1>3. /\ requests[r.tid].type = "Allocate" /\ r.nonce \in Auth
        /\ r.code \in {401, 438} => r.nonce = NonceTimeout
    BY <1>1, AnswerOK
  <1>4. ResponseAuth(r) /\ RequestAuth(requests[r.tid]) /\ PortAuth /\ prepared
    BY <1>1, <1>2, PreparedNow DEF AuthInv
  <1>5. NonceTimeout # None
    BY TurnAssumption, NoneAssumption
  <1>6. CASE Connects
    <2>1. nonce # None /\ validUser
      BY <1>2, <1>4, <1>6 DEF ResponseAuth
    <2>2. PICK q : q = PortRequest("Refresh", nonce, Lifetime - Margin)
      OBVIOUS
    <2>3. PICK t : Adds(t, q, {r.tid})
      BY <1>6, <2>2 DEF Sends
    <2>4. q.type = "Refresh" /\ q.nonce = nonce
      BY <2>2 DEF PortRequest, Request
    <2>5. /\ Steady /\ \A u \in DOMAIN requests' : Kept(u) \/ requests'[u] = q
      BY <2>3, AddsSteady
    <2>6. FailureAuth'
      BY <1>1, <1>6 DEF AuthInv, FailureAuth
    <2>7. connected' /\ UNCHANGED nonce
      BY <1>6
    <2> QED
      BY <1>1, <1>2, <1>4, <2>1, <2>4, <2>5, <2>6, <2>7, AuthSteady
  <1>7. CASE Challenged
    <2>1. /\ nonce' = NonceTimeout /\ nonce' # None
          /\ UNCHANGED <<connected, failure>> /\ nonce = None
      BY <1>3, <1>5, <1>7
    <2>2. PICK q : q = PortRequest("Allocate", r.nonce, 0)
      OBVIOUS
    <2>3. PICK t : Adds(t, q, {r.tid})
      BY <1>7, <2>2 DEF Sends
    <2>4. q.type = "Allocate" /\ q.nonce = NonceTimeout /\ q.wait = 0
      BY <1>3, <1>7, <2>2 DEF PortRequest, Request
    <2>5. /\ Steady /\ \A u \in DOMAIN requests' : u = t \/ (Kept(u) /\ u # r.tid)
          /\ t \in DOMAIN requests' /\ requests'[t] = q
      BY <2>3, AddsSteady
    <2>6. ~connected
      BY <1>4, <2>1 DEF PortAuth
    <2>7. \A u \in DOMAIN requests' : u = t
      <3> SUFFICES ASSUME NEW u \in DOMAIN requests', u # t PROVE FALSE
        OBVIOUS
      <3>1. u \in DOMAIN requests /\ u # r.tid /\ RequestAuth(requests[u])
        BY <2>5 DEF AuthInv, Kept
      <3>2. requests[u].type = "Allocate"
        BY <2>6, <3>1 DEF RequestAuth
      <3> QED
        BY <1>2, <1>3, <3>1, <3>2 DEF AuthInv, OneAllocate
    <2>8. /\ \A m \in toServer' : MessageAuth(m)'
          /\ \A x \in toClient' : x.type \in Types => ResponseAuth(x)'
          /\ AllocationAuth'
      BY <1>1, <1>2, <2>1, <2>5, AuthFrame
    <2>9. \A u \in DOMAIN requests' : RequestAuth(requests[u])'
      BY <1>5, <2>1, <2>4, <2>5, <2>7 DEF RequestAuth
    <2>10. OneAllocate'
      BY <2>7 DEF OneAllocate
    <2>11. OneAuthenticated'
      <3>1. ASSUME NEW u, Authenticated(u)' PROVE u = t
        <4>1. alloc' = None
          BY <1>1, <2>1 DEF AuthInv, AllocationAuth
        <4>2. \A m \in toServer' : m.nonce = None
          BY <1>1, <2>1 DEF AuthInv, MessageAuth
        <4> QED
          BY <2>7, <3>1, <4>1, <4>2 DEF Authenticated
      <3> QED
        BY <3>1, AuthenticatedFrame DEF AuthInv
    <2>12. PortAuth' /\ FailureAuth'
      BY <1>1, <1>4, <2>1, <2>6 DEF AuthInv, PortAuth, FailureAuth
    <2> QED
      BY <2>8, <2>9, <2>10, <2>11, <2>12 DEF AuthInv
  <1>8. CASE Fails
    <2>1. Steady /\ \A u \in DOMAIN requests' : Kept(u)
      BY <1>8, DropsSteady
    <2>2. FailureAuth'
      <3>1. r.code \in {401, 500}
        BY <1>2, <1>4, <1>8 DEF ResponseAuth
      <3>2. r.code = 401 => ~validUser
        BY <1>2, <1>3, <1>4, <1>8 DEF ResponseAuth, RequestAuth
      <3> QED
        BY <1>1, <1>8, <3>1, <3>2 DEF FailureAuth
    <2>3. UNCHANGED <<connected, nonce>>
      BY <1>8
    <2> QED
      BY <1>1, <1>2, <1>4, <2>1, <2>2, <2>3, AuthSteady DEF PortAuth
  <1>9. Connects \/ Challenged \/ Fails
    BY AllocateEffect
  <1> HIDE DEF Connects, Challenged, Fails
  <1> QED
    BY <1>6, <1>7, <1>8, <1>9

\* The answers to the other requests, which a connected port has made.
LEMMA AuthOther ==
    ASSUME TypeInv, AuthInv, NEW r,
           RefreshAnswered(r) \/ PermissionAnswered(r) \/ BindAnswered(r)
    PROVE  AuthInv'
  <1>1. PICK type \in Types : CheckResponse(r, type) /\ type # "Allocate"
    BY DEF RefreshAnswered, PermissionAnswered, BindAnswered, Types
  <1>2. /\ r \in toClient /\ r.type # "Allocate" /\ r.tid \in DOMAIN requests /\ r.type \in Types
        /\ toClient' \subseteq toClient
        /\ r.code \in {401, 438} => r.nonce = NonceTimeout
    BY <1>1, AnswerOK DEF CheckResponse
  <1>3. PortAuth /\ connected /\ nonce # None /\ validUser /\ prepared
    BY <1>2, PreparedNow DEF AuthInv, ResponseAuth, PortAuth
  <1>4. /\ UNCHANGED <<prepared, connected, failure, toServer, alloc, validUser>>
        /\ DOMAIN entries' = DOMAIN entries
    BY AnsweredEntries DEF Answered, RefreshAnswered, PermissionAnswered, BindAnswered, KeepsChannels,
                           server, history
  <1>5. NonceTimeout # None
    BY TurnAssumption, NoneAssumption
  <1>6. nonce' # None
    <2>1. CASE RefreshAnswered(r)
      BY <1>2, <1>3, <1>5, <2>1 DEF RefreshAnswered
    <2>2. CASE PermissionAnswered(r)
      BY <1>2, <1>3, <1>5, <2>2 DEF PermissionAnswered
    <2>3. CASE BindAnswered(r)
      BY <1>2, <1>3, <1>5, <2>3 DEF BindAnswered
    <2> QED
      BY <2>1, <2>2, <2>3
  <1>7. Steady /\ \A u \in DOMAIN requests' :
                     Kept(u) \/ (requests'[u].type # "Allocate" /\ requests'[u].nonce # None)
    <2>1. CASE Drops(r.tid)
      BY <2>1, DropsSteady
    <2>2. ASSUME NEW q, Sends(q, {r.tid}), q.type # "Allocate", q.nonce # None
          PROVE  Steady /\ \A u \in DOMAIN requests' :
                     Kept(u) \/ (requests'[u].type # "Allocate" /\ requests'[u].nonce # None)
      <3>1. PICK t : Adds(t, q, {r.tid})
        BY <2>2 DEF Sends
      <3> QED
        BY <2>2, <3>1, AddsSteady
    <2>3. \A a, d, p : /\ PortRequest("Refresh", a, d).type # "Allocate"
                       /\ PortRequest("Refresh", a, d).nonce = a
                       /\ EntryRequest("CreatePermission", p, a, d).type # "Allocate"
                       /\ EntryRequest("CreatePermission", p, a, d).nonce = a
                       /\ EntryRequest("ChannelBind", p, a, d).type # "Allocate"
                       /\ EntryRequest("ChannelBind", p, a, d).nonce = a
      BY DEF PortRequest, EntryRequest, Request
    <2>4. CASE RefreshAnswered(r)
      <3>1. \/ Sends(PortRequest("Refresh", nonce, Lifetime - Margin), {r.tid})
            \/ Sends(PortRequest("Refresh", r.nonce, 0), {r.tid}) /\ r.code = 438
            \/ Drops(r.tid)
        BY <2>4, RefreshEffect
      <3> QED
        BY <1>2, <1>3, <1>5, <2>1, <2>2, <2>3, <3>1
    <2>5. CASE PermissionAnswered(r)
      <3>1. \/ Sends(EntryRequest("CreatePermission", requests[r.tid].peer, r.nonce, 0), {r.tid})
               /\ r.code = 438
            \/ Drops(r.tid)
        BY <2>5, PermissionEffect
      <3> QED
        BY <1>2, <1>5, <2>1, <2>2, <2>3, <3>1
    <2>6. CASE BindAnswered(r)
      <3> DEFINE p == requests[r.tid].peer
      <3>1. \/ Sends(EntryRequest("ChannelBind", p, nonce, PermissionTimeout - Margin), {r.tid})
            \/ Sends(EntryRequest("ChannelBind", p, r.nonce, 0), {r.tid}) /\ r.code = 438
            \/ Drops(r.tid)
        BY <2>6, BindEffect
      <3> QED
        BY <1>2, <1>3, <1>5, <2>1, <2>2, <2>3, <3>1
    <2> QED
      BY <2>4, <2>5, <2>6
  <1>8. FailureAuth'
    BY <1>4 DEF AuthInv, FailureAuth
  <1>9. toServer' \subseteq toServer
    BY <1>4
  <1> QED
    BY <1>2, <1>3, <1>4, <1>6, <1>7, <1>8, <1>9, AuthSteady DEF PortAuth

LEMMA AuthMessage ==
    ASSUME TypeInv, AuthInv, NEW t, OnMessage(t)
    PROVE  AuthInv'
  <1>1. /\ t \in DOMAIN requests /\ requests[t].wait = 0 /\ DOMAIN requests' = DOMAIN requests
        /\ \A u \in DOMAIN requests : Kept(u)
        /\ UNCHANGED <<prepared, connected, nonce, entries, toClient, alloc, validUser, failure>>
    BY MessageEffect DEF Kept, server, history
  <1>2. PICK m : m = Datagram(t)
    OBVIOUS
  <1>3. toServer' \in {toServer, toServer \cup {m}}
    BY <1>2, MessageEffect
  <1>4. /\ m.tid = t /\ m.type = requests[t].type /\ m.nonce = requests[t].nonce
        /\ m.peer = requests[t].peer /\ m.chan = requests[t].chan
    BY <1>2 DEF Datagram
  <1>5. RequestAuth(requests[t])
    BY <1>1 DEF AuthInv
  <1>6. \A x \in toServer' : MessageAuth(x)'
    <2>1. MessageAuth(m)'
      BY <1>1, <1>4, <1>5 DEF MessageAuth, RequestAuth, Kept
    <2>2. ASSUME NEW x \in toServer PROVE MessageAuth(x)'
      <3>1. MessageAuth(x)
        BY DEF AuthInv
      <3> QED
        BY <1>1, <3>1 DEF MessageAuth, Kept
    <2> QED
      BY <1>3, <2>1, <2>2
  <1>7. \A r \in toClient' : r.type \in Types => ResponseAuth(r)'
    BY <1>1 DEF AuthInv, ResponseAuth, Kept
  <1>8. \A u \in DOMAIN requests' : RequestAuth(requests[u])'
    BY <1>1 DEF AuthInv, RequestAuth, Kept
  <1>9. OneAllocate'
    BY <1>1, OneAllocateFrame DEF AuthInv
  <1>10. OneAuthenticated'
    <2>1. \A u : Authenticated(u)' => Authenticated(u)
      BY <1>1, <1>3, <1>4 DEF Authenticated, Kept
    <2> QED
      BY <2>1, AuthenticatedFrame DEF AuthInv
  <1>11. PortAuth' /\ AllocationAuth' /\ FailureAuth'
    BY <1>1 DEF AuthInv, PortAuth, AllocationAuth, FailureAuth
  <1> QED
    BY <1>6, <1>7, <1>8, <1>9, <1>10, <1>11 DEF AuthInv

LEMMA AuthTimeout ==
    ASSUME TypeInv, AuthInv, NEW t, OnTimeout(t)
    PROVE  AuthInv'
  <1>1. /\ t \in DOMAIN requests /\ Drops(t)
        /\ UNCHANGED <<prepared, connected, nonce, entries, toServer, toClient, alloc, validUser>>
        /\ failure' = NoAnswer \/ UNCHANGED failure
    BY TimeoutType DEF server
  <1>2. Steady /\ \A u \in DOMAIN requests' : Kept(u)
    BY <1>1, DropsSteady
  <1>3. FailureAuth'
    BY <1>1 DEF AuthInv, FailureAuth, NoAnswer
  <1>4. prepared /\ PortAuth
    BY <1>1, PreparedNow DEF AuthInv
  <1>5. toServer' \subseteq toServer /\ toClient' \subseteq toClient
    BY <1>1
  <1> QED
    BY <1>1, <1>2, <1>3, <1>4, <1>5, AuthSteady DEF PortAuth

\* A connected port makes a request for an entry.
LEMMA AuthEntry ==
    ASSUME TypeInv, AuthInv, NEW t, NEW q, Adds(t, q, {}), q.type # "Allocate", q.nonce = nonce,
           connected,
           UNCHANGED <<prepared, connected, nonce, error, toServer, toClient, server, history>>
    PROVE  AuthInv'
  <1>1. /\ UNCHANGED <<prepared, connected, nonce, alloc, validUser, failure>>
        /\ toServer' \subseteq toServer /\ toClient' \subseteq toClient
    BY DEF server, history
  <1>2. PortAuth /\ nonce # None /\ validUser
    BY DEF AuthInv, PortAuth
  <1>3. Steady /\ \A u \in DOMAIN requests' : Kept(u) \/ requests'[u] = q
    BY AddsSteady
  <1>4. FailureAuth'
    BY <1>1 DEF AuthInv, FailureAuth
  <1>5. prepared
    BY <1>2 DEF PortAuth
  <1> QED
    BY <1>1, <1>2, <1>3, <1>4, <1>5, AuthSteady

LEMMA AuthCreate ==
    ASSUME TypeInv, AuthInv, NEW p \in Peer, CreateEntry(p)
    PROVE  AuthInv'
  <1>1. PICK q : q = Request("CreatePermission", p, nextChannel, nonce, 0)
    OBVIOUS
  <1>2. PICK t : Adds(t, q, {})
    BY <1>1, CreateEffect
  <1>3. /\ connected
        /\ UNCHANGED <<prepared, connected, nonce, error, toServer, toClient, server, history>>
    BY CreateEffect
  <1>4. q.type # "Allocate" /\ q.nonce = nonce
    BY <1>1 DEF Request
  <1> QED
    BY <1>2, <1>3, <1>4, AuthEntry

LEMMA AuthSendTo ==
    ASSUME TypeInv, AuthInv, NEW p, SendTo(p)
    PROVE  AuthInv'
  <1>1. PICK q : q = EntryRequest("ChannelBind", p, nonce, 0)
    OBVIOUS
  <1>2. PICK t : Adds(t, q, {})
    BY <1>1, SendToEffect DEF Sends
  <1>3. /\ connected
        /\ UNCHANGED <<prepared, connected, nonce, error, toServer, toClient, server, history>>
    BY SendToEffect
  <1>4. q.type # "Allocate" /\ q.nonce = nonce
    BY <1>1 DEF EntryRequest, Request
  <1> QED
    BY <1>2, <1>3, <1>4, AuthEntry

LEMMA AuthDestroy ==
    ASSUME TypeInv, AuthInv, NEW p, DestroyEntry(p)
    PROVE  AuthInv'
  <1>1. /\ p \in DOMAIN entries /\ DOMAIN requests' = DOMAIN requests
        /\ \A u \in DOMAIN requests : Kept(u)
        /\ UNCHANGED <<prepared, connected, nonce, alloc, validUser, failure>>
        /\ toServer' \subseteq toServer /\ toClient' \subseteq toClient
    BY DestroyEffect DEF Kept, server, history
  <1>2. Steady /\ FailureAuth' /\ PortAuth
    BY <1>1 DEF Steady, AuthInv, FailureAuth
  <1>3. connected /\ prepared /\ nonce # None /\ validUser
    BY <1>1, <1>2 DEF PortAuth
  <1> QED
    BY <1>1, <1>2, <1>3, AuthSteady

LEMMA AuthQuiet ==
    ASSUME TypeInv, AuthInv, Calm
    PROVE  AuthInv'
  <1>1. /\ UNCHANGED <<connected, nonce, requests, entries, alloc, validUser>>
        /\ prepared => prepared'
        /\ failure' \in {failure, NoAnswer}
        /\ toServer' \subseteq toServer /\ toClient' \subseteq toClient
    BY QuietType
  <1>2. Steady /\ (\A u \in DOMAIN requests' : Kept(u)) /\ FailureAuth' /\ PortAuth
    BY <1>1, SameSteady DEF AuthInv, FailureAuth, NoAnswer
  <1>3. prepared \/ DOMAIN requests' = {}
    BY <1>1, <1>2 DEF PortAuth
  <1> QED
    BY <1>1, <1>2, <1>3, AuthSteady DEF PortAuth

-----------------------------------------------------------------------------
(* The server and time keep AuthInv *)

\* What an answer tells about its message.
LEMMA AuthAnswer ==
    ASSUME TypeInv, AuthInv, NEW m, NEW code, Replies(m, code),
           nonce # None /\ m.nonce # None => code # 401 \/ ~validUser,
           code = 0 => Granted(m), m.type = "Allocate" => code \in {0, 401, 500}
    PROVE  ResponseAuth(Answer(m, code))
  <1>1. m \in toServer /\ MessageAuth(m) /\ PortAuth
    BY DEF Replies, AuthInv
  <1>2. PICK r : r = Answer(m, code)
    OBVIOUS
  <1>3. r.tid = m.tid /\ r.type = m.type /\ r.code = code
    BY <1>2, AnswerParts
  <1>4. r.tid \in DOMAIN requests => requests[r.tid].wait = 0
    BY <1>1, <1>3 DEF MessageAuth
  <1>5. r.type # "Allocate" => connected /\ r.code # 401
    BY <1>1, <1>3 DEF MessageAuth, PortAuth
  <1>6. r.type = "Allocate" => r.code \in {0, 401, 500}
    BY <1>3
  <1>7. r.code = 0 => nonce # None /\ validUser
    BY <1>1, <1>3 DEF Granted, MessageAuth
  <1>8. r.code = 401 /\ r.tid \in DOMAIN requests => requests[r.tid].nonce = None \/ ~validUser
    BY <1>1, <1>3 DEF MessageAuth
  <1> QED
    BY <1>2, <1>4, <1>5, <1>6, <1>7, <1>8 DEF ResponseAuth

LEMMA AuthReplies ==
    ASSUME TypeInv, AuthInv, NEW m, NEW code, Replies(m, code), ResponseAuth(Answer(m, code)),
           \/ alloc' = None
           \/ alloc # None /\ alloc'.tid = alloc.tid
           \/ alloc'.tid = m.tid /\ m.type = "Allocate" /\ Granted(m)
    PROVE  AuthInv'
  <1>1. /\ m \in toServer /\ toServer' = toServer \ {m} /\ MessageOK(m) /\ MessageAuth(m)
        /\ UNCHANGED <<prepared, connected, nonce, requests, entries, validUser, failure>>
    BY DEF Replies, client, history, AuthInv
  <1>2. \A u \in DOMAIN requests' : RequestAuth(requests[u])'
    BY <1>1 DEF AuthInv, RequestAuth
  <1>3. \A x \in toServer' : MessageAuth(x)'
    BY <1>1 DEF AuthInv, MessageAuth
  <1>4. \A r \in toClient' : r.type \in Types => ResponseAuth(r)'
    <2>1. PICK a : a = Answer(m, code) /\ ResponseAuth(a)
      OBVIOUS
    <2>2. toClient' \in {toClient, toClient \cup {a}}
      BY <2>1 DEF Replies
    <2>3. \A r \in toClient' : r.type \in Types => ResponseAuth(r)
      BY <2>1, <2>2 DEF AuthInv
    <2> QED
      BY <1>1, <2>3 DEF ResponseAuth
  <1>5. AllocationAuth'
    <2>1. CASE alloc # None /\ alloc'.tid = alloc.tid
      BY <1>1, <2>1 DEF AuthInv, AllocationAuth
    <2>2. CASE alloc'.tid = m.tid /\ m.type = "Allocate" /\ Granted(m)
      <3>1. alloc'.tid[1] = "Allocate"
        BY <1>1, <2>2 DEF MessageOK
      <3> QED
        BY <1>1, <2>2, <3>1 DEF AllocationAuth, Granted, MessageAuth
    <2>3. CASE alloc' = None
      BY <2>3 DEF AllocationAuth
    <2> QED
      BY <2>1, <2>2, <2>3
  <1>6. OneAuthenticated'
    <2>1. \A t : Authenticated(t)' => Authenticated(t)
      BY <1>1 DEF Authenticated, Granted
    <2> QED
      BY <2>1, AuthenticatedFrame DEF AuthInv
  <1>7. PortAuth' /\ OneAllocate' /\ FailureAuth'
    BY <1>1 DEF AuthInv, PortAuth, OneAllocate, FailureAuth
  <1> QED
    BY <1>2, <1>3, <1>4, <1>5, <1>6, <1>7 DEF AuthInv

LEMMA AuthHandled ==
    ASSUME TypeInv, AuthInv, NEW m, Handled(m)
    PROVE  AuthInv'
  <1>0. m \in toServer /\ MessageAuth(m)
    BY HandledReplies DEF Replies, AuthInv
  <1>1. CASE Refused(m)
    <2>1. UNCHANGED alloc /\ (alloc' = None \/ (alloc # None /\ alloc'.tid = alloc.tid))
      BY <1>1, RefusedEffect
    <2>2. CASE Replies(m, 438) /\ m.nonce = 0
      <3>1. m.type # "Allocate"
        BY <1>0, <2>2, TurnAssumption, NoneAssumption DEF MessageAuth
      <3>2. ResponseAuth(Answer(m, 438))
        BY <2>2, <3>1, AuthAnswer
      <3> QED
        BY <2>1, <2>2, <3>2, AuthReplies
    <2>3. CASE Replies(m, 401) /\ (m.nonce = None \/ (m.nonce # 0 /\ ~validUser))
      <3>1. ResponseAuth(Answer(m, 401))
        BY <2>3, AuthAnswer
      <3> QED
        BY <2>1, <2>3, <3>1, AuthReplies
    <2> QED
      BY <1>1, <2>2, <2>3, RefusedEffect
  <1>2. CASE NewAllocation(m)
    <2>1. m.type = "Allocate" /\ alloc = None /\ Granted(m)
      BY <1>2, NewEffect
    <2>2. CASE Replies(m, 0) /\ alloc'.tid = m.tid
      <3>1. ResponseAuth(Answer(m, 0))
        BY <2>1, <2>2, AuthAnswer
      <3> QED
        BY <2>1, <2>2, <3>1, AuthReplies
    <2>3. CASE Replies(m, 500) /\ UNCHANGED alloc
      <3>1. ResponseAuth(Answer(m, 500))
        BY <2>1, <2>3, AuthAnswer
      <3> QED
        BY <2>1, <2>3, <3>1, AuthReplies
    <2> QED
      BY <1>2, <2>2, <2>3, NewEffect
  <1>3. CASE \/ AllocateAgain(m) \/ HandleRefreshRequest(m) \/ HandleCreatePermissionRequest(m)
    <2>1. Replies(m, 0) /\ Granted(m) /\ alloc # None /\ alloc'.tid = alloc.tid
      BY <1>3, AgainEffect, RefreshedEffect, PermittedEffect DEF Becomes
    <2>2. ResponseAuth(Answer(m, 0))
      BY <2>1, AuthAnswer
    <2> QED
      BY <2>1, <2>2, AuthReplies
  <1>4. CASE Mismatch(m)
    <2>1. /\ IF m.type = "Allocate" THEN alloc # None /\ m.tid # alloc.tid ELSE alloc = None
          /\ Granted(m) /\ Replies(m, 437) /\ UNCHANGED alloc
      BY <1>4, MismatchEffect
    <2>2. m.type # "Allocate"
      <3> SUFFICES ASSUME m.type = "Allocate" PROVE FALSE
        OBVIOUS
      <3>1. Authenticated(m.tid) /\ Authenticated(alloc.tid)
        BY <1>0, <2>1 DEF Authenticated, Granted
      <3> QED
        BY <2>1, <3>1 DEF AuthInv, OneAuthenticated
    <2>3. ResponseAuth(Answer(m, 437))
      BY <2>1, <2>2, AuthAnswer
    <2> QED
      BY <2>1, <2>3, AuthReplies
  <1>5. CASE HandleChannelBindRequest(m)
    <2>1. m.type = "ChannelBind" /\ alloc # None /\ Granted(m)
      BY <1>5, BoundEffect
    <2>2. CASE Replies(m, 0) /\ alloc'.tid = alloc.tid
      <3>1. ResponseAuth(Answer(m, 0))
        BY <2>1, <2>2, AuthAnswer
      <3> QED
        BY <2>1, <2>2, <3>1, AuthReplies
    <2>3. CASE Replies(m, 400) /\ UNCHANGED alloc
      <3>1. ResponseAuth(Answer(m, 400))
        BY <2>1, <2>3, AuthAnswer
      <3> QED
        BY <2>1, <2>3, <3>1, AuthReplies
    <2> QED
      BY <1>5, <2>2, <2>3, BoundEffect DEF Becomes
  <1> QED
    BY <1>1, <1>2, <1>3, <1>4, <1>5 DEF Handled

LEMMA AuthServer ==
    ASSUME TypeInv, AuthInv, Expires \/ \E p \in Peer : OnExternalPacket(p)
    PROVE  AuthInv'
  <1>1. /\ UNCHANGED <<client, toServer, validUser, history>>
        /\ alloc' # None => alloc # None /\ alloc'.tid = alloc.tid
        /\ \A r \in toClient' : r.type \in Types => r \in toClient
    <2>1. CASE Expires
      BY <2>1, ExpiresEffect DEF Expires, Becomes
    <2>2. ASSUME NEW p \in Peer, OnExternalPacket(p)
          PROVE  \A r \in toClient' : r.type \in Types => r \in toClient
      BY <2>2, ExternalEffect DEF DataOK, Types
    <2>3. ASSUME NEW p \in Peer, OnExternalPacket(p)
          PROVE  UNCHANGED <<client, toServer, validUser, history>> /\ UNCHANGED alloc
      BY <2>3, ExternalEffect DEF server
    <2> QED
      BY <2>1, <2>2, <2>3
  <1>2. UNCHANGED <<prepared, connected, nonce, requests, entries, toServer, validUser, failure>>
    BY <1>1 DEF client, history
  <1>3. \A u \in DOMAIN requests' : RequestAuth(requests[u])'
    BY <1>2 DEF AuthInv, RequestAuth
  <1>4. \A x \in toServer' : MessageAuth(x)'
    BY <1>2 DEF AuthInv, MessageAuth
  <1>5. \A r \in toClient' : r.type \in Types => ResponseAuth(r)'
    BY <1>1, <1>2 DEF AuthInv, ResponseAuth
  <1>6. AllocationAuth'
    BY <1>1, <1>2 DEF AuthInv, AllocationAuth
  <1>7. OneAuthenticated'
    <2>1. \A t : Authenticated(t)' => Authenticated(t)
      BY <1>1, <1>2 DEF Authenticated
    <2> QED
      BY <2>1, AuthenticatedFrame DEF AuthInv
  <1>8. PortAuth' /\ OneAllocate' /\ FailureAuth'
    BY <1>2 DEF AuthInv, PortAuth, OneAllocate, FailureAuth
  <1> QED
    BY <1>3, <1>4, <1>5, <1>6, <1>7, <1>8 DEF AuthInv

LEMMA NoNonce ==
    ASSUME TypeInv
    PROVE  /\ Less(nonce) = None <=> nonce = None
           /\ \A t \in DOMAIN requests : Less(requests[t].nonce) = None <=> requests[t].nonce = None
  <1>1. nonce \in Auth /\ \A t \in DOMAIN requests : requests[t].nonce \in Auth
    BY TypeNow DEF RequestsOK, RequestOK, Requests
  <1> QED
    BY <1>1, LessAuth

LEMMA AuthTick ==
    ASSUME TypeInv, AuthInv, Tick
    PROVE  AuthInv'
  <1>1. /\ nonce' = Less(nonce) /\ toServer' = {} /\ toClient' = {}
        /\ UNCHANGED <<prepared, connected, entries, validUser, failure>>
    BY TickRest
  <1>2. alloc' # None => alloc # None /\ alloc'.tid = alloc.tid
    BY TickRest, TickAllocation
  <1>3. /\ DOMAIN requests' = DOMAIN requests
        /\ \A u \in DOMAIN requests : /\ requests'[u].type = requests[u].type
                                      /\ requests'[u].nonce = Less(requests[u].nonce)
                                      /\ requests[u].wait > 0
    BY TickRequests
  <1>4. \A u \in DOMAIN requests : requests[u].type # "Allocate"
    BY <1>3 DEF AuthInv, RequestAuth
  <1>5. nonce' = None <=> nonce = None
    BY <1>1, NoNonce
  <1>6. \A u \in DOMAIN requests' : RequestAuth(requests[u])'
    <2> SUFFICES ASSUME NEW u \in DOMAIN requests PROVE RequestAuth(requests[u])'
      BY <1>3
    <2>1. RequestAuth(requests[u]) /\ requests[u].type # "Allocate"
      BY <1>4 DEF AuthInv
    <2>2. requests'[u].nonce = None <=> requests[u].nonce = None
      BY <1>3, NoNonce
    <2> QED
      BY <1>1, <1>3, <1>5, <2>1, <2>2 DEF RequestAuth
  <1>7. AllocationAuth'
    BY <1>1, <1>2, <1>5 DEF AuthInv, AllocationAuth
  <1>8. OneAuthenticated'
    <2>1. \A t : Authenticated(t)' => Authenticated(t)
      BY <1>1, <1>2, <1>3, <1>4 DEF Authenticated
    <2> QED
      BY <2>1, AuthenticatedFrame DEF AuthInv
  <1>9. PortAuth' /\ OneAllocate' /\ FailureAuth'
    BY <1>1, <1>3, <1>4, <1>5 DEF AuthInv, PortAuth, OneAllocate, FailureAuth
  <1> QED
    BY <1>1, <1>6, <1>7, <1>8, <1>9 DEF AuthInv

LEMMA AuthStep == TypeInv /\ AuthInv /\ [Next]_vars => AuthInv'
  <1> SUFFICES ASSUME TypeInv, AuthInv, [Next]_vars PROVE AuthInv'
    OBVIOUS
  <1>1. CASE PrepareAddress
    BY <1>1, AuthPrepare
  <1>2. CASE \E r \in toClient : Answered(r)
    BY <1>2, AuthAllocate, AuthOther DEF Answered
  <1>3. CASE \E t \in DOMAIN requests : OnMessage(t) \/ OnTimeout(t)
    BY <1>3, AuthMessage, AuthTimeout
  <1>4. CASE \E p \in Peer : CreateEntry(p) \/ DestroyEntry(p) \/ SendTo(p)
    BY <1>4, AuthCreate, AuthDestroy, AuthSendTo
  <1>5. CASE Calm
    BY <1>5, AuthQuiet
  <1>6. CASE \E m \in toServer : Handled(m)
    BY <1>6, AuthHandled
  <1>7. CASE Expires \/ \E p \in Peer : OnExternalPacket(p)
    BY <1>7, AuthServer
  <1>8. CASE Tick
    BY <1>8, AuthTick
  <1> QED
    BY <1>1, <1>2, <1>3, <1>4, <1>5, <1>6, <1>7, <1>8
       DEF Next, Client, Server, Answered, Handled, Expires, Calm

LEMMA AuthInit == Init => AuthInv
  <1> SUFFICES ASSUME Init PROVE AuthInv
    OBVIOUS
  <1>1. DOMAIN requests = {} /\ DOMAIN entries = {}
    BY DEF Init
  <1>2. PortAuth /\ OneAllocate /\ AllocationAuth /\ FailureAuth
    BY <1>1 DEF Init, PortAuth, OneAllocate, AllocationAuth, FailureAuth
  <1>3. OneAuthenticated
    BY <1>1 DEF Init, OneAuthenticated, Authenticated
  <1> QED
    BY <1>1, <1>2, <1>3 DEF Init, AuthInv

LEMMA AlwaysAuth == Spec => [](TypeInv /\ AuthInv)
  BY TypeInit, TypeStep, AuthInit, AuthStep, PTL DEF Spec

\* RefusedHasNone: a port that gave up because of an answer other than "no
\* socket" leaves no allocation on the server.  An allocate request that was
\* granted is granted each time that it is sent again, since there is never a
\* second one that the server could take for another client's.
THEOREM RefusedClean == Spec => []RefusedHasNone
  <1>1. AuthInv => RefusedHasNone
    BY DEF AuthInv, FailureAuth, AllocationAuth, RefusedHasNone
  <1> QED
    BY <1>1, AlwaysAuth, PTL

-----------------------------------------------------------------------------
(* The allocation is refreshed in time *)

\* A request of the port that is due before every timer of the allocation.
InTime(t) ==
    /\ t \in DOMAIN requests /\ requests[t].type = "Refresh"
    /\ \A n \in alloc.timers : requests[t].wait < n

LEMMA KeepNow ==
    ASSUME KeepInv
    PROVE  /\ alloc # None /\ (alloc.tid \in DOMAIN requests \/ \E m \in toServer : m.tid = alloc.tid)
                 => FreshAllocation
           /\ \A r \in toClient : r.type \in ForPort /\ r.code = 0 => FreshAllocation
           /\ \A r \in toClient : r.type = "Refresh" => r.code \in {0, 438} \/ unanswered
           /\ connected /\ ~unanswered => alloc # None /\ \E t : InTime(t)
  BY DEF KeepInv, InTime

LEMMA KeepParts ==
    ASSUME alloc' # None /\ (alloc'.tid \in DOMAIN requests' \/ \E m \in toServer' : m.tid = alloc'.tid)
              => FreshAllocation',
           \A r \in toClient' : r.type \in ForPort /\ r.code = 0 => FreshAllocation',
           \A r \in toClient' : r.type = "Refresh" => r.code \in {0, 438} \/ unanswered',
           connected' /\ ~unanswered' => alloc' # None /\ \E t : InTime(t)'
    PROVE  KeepInv'
  BY DEF KeepInv, InTime

\* The steps of the client: the network and the server forget or stay, and a
\* refresh in time is still there.
LEMMA KeepFrame ==
    ASSUME TypeInv, AuthInv, KeepInv, Steady, UNCHANGED alloc,
           \A m \in toServer' : m \in toServer \/ m.tid \in DOMAIN requests,
           toClient' \subseteq toClient, unanswered => unanswered',
           connected' /\ ~unanswered' => alloc' # None /\ \E t : InTime(t)'
    PROVE  KeepInv'
  <1>1. FreshAllocation => FreshAllocation'
    BY DEF FreshAllocation
  <1>2. ASSUME alloc' # None,
               alloc'.tid \in DOMAIN requests' \/ \E m \in toServer' : m.tid = alloc'.tid
        PROVE  FreshAllocation'
    <2>1. alloc # None /\ alloc.tid \in UsedTx
      BY <1>2, Used
    <2>2. alloc.tid \in DOMAIN requests \/ \E m \in toServer : m.tid = alloc.tid
      BY <1>2, <2>1 DEF Steady, Kept
    <2> QED
      BY <1>1, <2>1, <2>2, KeepNow
  <1>3. \A r \in toClient' : r.type \in ForPort /\ r.code = 0 => FreshAllocation'
    BY <1>1, KeepNow
  <1>4. \A r \in toClient' : r.type = "Refresh" => r.code \in {0, 438} \/ unanswered'
    BY KeepNow
  <1> QED
    BY <1>2, <1>3, <1>4, KeepParts

\* A refresh that is not answered or given up stays in time.
LEMMA RefreshStays ==
    ASSUME KeepInv, UNCHANGED alloc, connected' => connected, unanswered => unanswered',
           \A t \in DOMAIN requests : requests[t].type = "Refresh" => t \in DOMAIN requests' /\ Kept(t)
    PROVE  connected' /\ ~unanswered' => alloc' # None /\ \E t : InTime(t)'
  <1> SUFFICES ASSUME connected', ~unanswered' PROVE alloc' # None /\ \E t : InTime(t)'
    OBVIOUS
  <1>1. alloc # None
    BY KeepNow
  <1>2. PICK t : InTime(t)
    BY KeepNow
  <1>3. t \in DOMAIN requests' /\ Kept(t)
    BY <1>2 DEF InTime
  <1>4. InTime(t)'
    BY <1>2, <1>3 DEF InTime, Kept
  <1> QED
    BY <1>1, <1>4

LEMMA KeepAllocate ==
    ASSUME TypeInv, AuthInv, KeepInv, NEW r, AllocateAnswered(r)
    PROVE  KeepInv'
  <1>1. /\ CheckResponse(r, "Allocate") /\ "Allocate" \in Types
        /\ UNCHANGED <<toServer, alloc, unanswered>>
    BY AllocateEffect DEF server, Types
  <1>2. /\ r \in toClient /\ r.type = "Allocate" /\ r.tid \in DOMAIN requests
        /\ toClient' \subseteq toClient
    BY <1>1 DEF CheckResponse
  <1>3. requests[r.tid].type = "Allocate"
    BY <1>1, AnswerOK
  <1>4. Steady /\ \A u \in DOMAIN requests \ {r.tid} : u \in DOMAIN requests' /\ Kept(u)
    <2>1. (\E q : Sends(q, {r.tid})) \/ Drops(r.tid)
      BY AnsweredEffect DEF Answered
    <2> QED
      BY <2>1, AddsSteady, DropsSteady DEF Sends
  <1>5. connected' /\ ~unanswered' => alloc' # None /\ \E t : InTime(t)'
    <2>1. CASE r.code = 0 /\ Sends(PortRequest("Refresh", nonce, Lifetime - Margin), {r.tid})
      <3>1. PICK q : q = PortRequest("Refresh", nonce, Lifetime - Margin)
        OBVIOUS
      <3>2. PICK t : Adds(t, q, {r.tid})
        BY <2>1, <3>1 DEF Sends
      <3>3. q.type = "Refresh" /\ q.wait = Lifetime - Margin
        BY <3>1 DEF PortRequest, Request
      <3>4. FreshAllocation
        BY <1>2, <2>1, KeepNow DEF ForPort
      <3>5. InTime(t)'
        BY <1>1, <3>2, <3>3, <3>4, Delays DEF InTime, Adds, FreshAllocation
      <3> QED
        BY <1>1, <3>4, <3>5 DEF FreshAllocation
    <2>2. CASE UNCHANGED connected
      BY <1>1, <1>3, <1>4, <2>2, RefreshStays
    <2> QED
      BY <2>1, <2>2, AllocateEffect
  <1> QED
    BY <1>1, <1>2, <1>4, <1>5, KeepFrame

LEMMA KeepRefresh ==
    ASSUME TypeInv, AuthInv, KeepInv, NEW r, RefreshAnswered(r)
    PROVE  KeepInv'
  <1>1. /\ CheckResponse(r, "Refresh") /\ "Refresh" \in Types
        /\ UNCHANGED <<connected, toServer, alloc, unanswered>>
    BY RefreshEffect DEF server, history, Types
  <1>2. /\ r \in toClient /\ r.type = "Refresh" /\ r.tid \in DOMAIN requests
        /\ toClient' \subseteq toClient
    BY <1>1 DEF CheckResponse
  <1>3. Steady
    <2>1. (\E q : Sends(q, {r.tid})) \/ Drops(r.tid)
      BY AnsweredEffect DEF Answered
    <2> QED
      BY <2>1, AddsSteady, DropsSteady DEF Sends
  <1>4. connected' /\ ~unanswered' => alloc' # None /\ \E t : InTime(t)'
    <2> SUFFICES ASSUME connected', ~unanswered' PROVE alloc' # None /\ \E t : InTime(t)'
      OBVIOUS
    <2>1. r.code \in {0, 438} /\ alloc # None
      BY <1>1, <1>2, KeepNow
    <2>2. CASE r.code = 0 /\ Sends(PortRequest("Refresh", nonce, Lifetime - Margin), {r.tid})
      <3>1. PICK q : q = PortRequest("Refresh", nonce, Lifetime - Margin)
        OBVIOUS
      <3>2. PICK t : Adds(t, q, {r.tid})
        BY <2>2, <3>1 DEF Sends
      <3>3. q.type = "Refresh" /\ q.wait = Lifetime - Margin
        BY <3>1 DEF PortRequest, Request
      <3>4. FreshAllocation
        BY <1>2, <2>2, KeepNow DEF ForPort
      <3>5. InTime(t)'
        BY <1>1, <3>2, <3>3, <3>4, Delays DEF InTime, Adds, FreshAllocation
      <3> QED
        BY <1>1, <2>1, <3>5
    <2>3. CASE Sends(PortRequest("Refresh", r.nonce, 0), {r.tid})
      <3>1. PICK q : q = PortRequest("Refresh", r.nonce, 0)
        OBVIOUS
      <3>2. PICK t : Adds(t, q, {r.tid})
        BY <2>3, <3>1 DEF Sends
      <3>3. q.type = "Refresh" /\ q.wait = 0
        BY <3>1 DEF PortRequest, Request
      <3>4. PICK u : InTime(u)
        BY <1>1, KeepNow
      <3>5. \A n \in alloc.timers : 0 < n
        <4>1. requests[u].wait \in Nat
          BY <3>4, TypeNow, Delays DEF InTime, RequestsOK, RequestOK, Requests
        <4>2. alloc.timers \subseteq Int
          BY <2>1, AllocationNow, AllocationParts
        <4> QED
          BY <3>4, <4>1, <4>2 DEF InTime
      <3>6. InTime(t)'
        BY <1>1, <3>2, <3>3, <3>5 DEF InTime, Adds
      <3> QED
        BY <1>1, <2>1, <3>6
    <2> QED
      <3>1. \/ /\ r.code = 0 /\ UNCHANGED nonce
               /\ Sends(PortRequest("Refresh", nonce, Lifetime - Margin), {r.tid})
            \/ /\ r.code = 438 /\ nonce' = r.nonce
               /\ Sends(PortRequest("Refresh", r.nonce, 0), {r.tid})
            \/ r.code \notin {0, 438} /\ Drops(r.tid) /\ UNCHANGED nonce
        BY RefreshEffect, ZenonT(60)
      <3> QED
        BY <2>1, <2>2, <2>3, <3>1
  <1> QED
    BY <1>1, <1>2, <1>3, <1>4, KeepFrame

\* The other steps of the client leave every refresh alone, or give one up.
LEMMA KeepClient ==
    ASSUME TypeInv, AuthInv, KeepInv,
           \/ PrepareAddress \/ PrepareAddressFails \/ SignalPortError \/ UNCHANGED vars
           \/ \E t \in DOMAIN requests : OnMessage(t) \/ OnTimeout(t)
           \/ \E r \in toClient : \/ PermissionAnswered(r) \/ BindAnswered(r)
                                  \/ StrayAnswer(r) \/ OnReadData(r)
           \/ \E p \in Peer : CreateEntry(p) \/ DestroyEntry(p) \/ SendTo(p)
    PROVE  KeepInv'
  <1> DEFINE Refreshes == \A t \in DOMAIN requests :
                             requests[t].type = "Refresh" => t \in DOMAIN requests' /\ Kept(t)
             Rest == /\ UNCHANGED <<connected, alloc>>
                     /\ unanswered => unanswered'
                     /\ toClient' \subseteq toClient
                     /\ \A m \in toServer' : m \in toServer \/ m.tid \in DOMAIN requests
  <1>1. ASSUME Steady, Rest, Refreshes \/ unanswered' PROVE KeepInv'
    <2>1. connected' /\ ~unanswered' => alloc' # None /\ \E t : InTime(t)'
      BY <1>1, RefreshStays
    <2> QED
      BY <1>1, <2>1, KeepFrame
  <1>2. ASSUME NEW t, NEW q, Adds(t, q, {}) PROVE Steady /\ Refreshes
    BY <1>2, AddsSteady
  <1>3. CASE PrepareAddress
    <2>1. Rest
      BY <1>3, PrepareType DEF server, history
    <2>2. Steady /\ Refreshes
      BY <1>2, <1>3, PrepareType DEF Sends
    <2> QED
      BY <1>1, <2>1, <2>2
  <1>4. CASE Calm
    <2>1. Rest /\ UNCHANGED requests
      BY <1>4, QuietType
    <2>2. Steady /\ Refreshes
      BY <2>1, SameSteady
    <2> QED
      BY <1>1, <2>1, <2>2
  <1>5. ASSUME NEW t \in DOMAIN requests, OnMessage(t) PROVE KeepInv'
    <2>1. PICK m : m = Datagram(t)
      OBVIOUS
    <2>2. toServer' \in {toServer, toServer \cup {m}} /\ m.tid = t
      BY <1>5, <2>1, MessageEffect DEF Datagram
    <2>3. Rest
      BY <1>5, <2>2, MessageEffect DEF server, history
    <2>4. DOMAIN requests' = DOMAIN requests /\ \A u \in DOMAIN requests : Kept(u)
      BY <1>5, MessageEffect DEF Kept
    <2> QED
      BY <1>1, <2>3, <2>4 DEF Steady
  <1>6. ASSUME NEW t \in DOMAIN requests, OnTimeout(t) PROVE KeepInv'
    <2>1. Rest /\ Drops(t) /\ (requests[t].type # "Allocate" => unanswered')
      BY <1>6, TimeoutType DEF server
    <2>2. Steady /\ (Refreshes \/ unanswered')
      BY <2>1, DropsSteady
    <2> QED
      BY <1>1, <2>1, <2>2
  <1>7. ASSUME NEW r \in toClient, PermissionAnswered(r) \/ BindAnswered(r) PROVE KeepInv'
    <2>1. PICK type \in Types : CheckResponse(r, type) /\ type # "Refresh"
      BY <1>7 DEF PermissionAnswered, BindAnswered, Types
    <2>2. requests[r.tid].type # "Refresh" /\ toClient' \subseteq toClient
      BY <2>1, AnswerOK DEF CheckResponse
    <2>3. Rest
      <3>1. CASE PermissionAnswered(r)
        BY <2>2, <3>1 DEF PermissionAnswered, server, history
      <3>2. CASE BindAnswered(r)
        BY <2>2, <3>2 DEF BindAnswered, server, history
      <3> QED
        BY <1>7, <3>1, <3>2
    <2>4. Steady /\ Refreshes
      <3>1. (\E q : Sends(q, {r.tid})) \/ Drops(r.tid)
        BY <1>7, AnsweredEffect DEF Answered
      <3> QED
        BY <2>2, <3>1, AddsSteady, DropsSteady DEF Sends
    <2> QED
      BY <1>1, <2>3, <2>4
  <1>8. ASSUME NEW p \in Peer, CreateEntry(p) PROVE KeepInv'
    <2>1. Rest
      BY <1>8, CreateEffect DEF server, history
    <2>2. Steady /\ Refreshes
      BY <1>2, <1>8, CreateEffect
    <2> QED
      BY <1>1, <2>1, <2>2
  <1>9. ASSUME NEW p \in Peer, DestroyEntry(p) PROVE KeepInv'
    <2>1. Rest
      BY <1>9, DestroyEffect DEF server, history
    <2>2. DOMAIN requests' = DOMAIN requests /\ \A u \in DOMAIN requests : Kept(u)
      BY <1>9, DestroyEffect DEF Kept
    <2> QED
      BY <1>1, <2>1, <2>2 DEF Steady
  <1>10. ASSUME NEW p \in Peer, SendTo(p) PROVE KeepInv'
    <2>1. Rest
      BY <1>10, SendToEffect DEF server, history
    <2>2. Steady /\ Refreshes
      BY <1>2, <1>10, SendToEffect DEF Sends
    <2> QED
      BY <1>1, <2>1, <2>2
  <1> QED
    BY <1>3, <1>4, <1>5, <1>6, <1>7, <1>8, <1>9, <1>10 DEF Calm

\* The server answers: the client's refresh waits as before, for timers that
\* are later or the same.
LEMMA KeepReplies ==
    ASSUME TypeInv, AuthInv, KeepInv, NEW m, NEW code, Replies(m, code),
           m.type \in ForPort /\ code = 0 => FreshAllocation',
           m.type = "Refresh" => code \in {0, 438} \/ unanswered,
           FreshAllocation => FreshAllocation',
           alloc' # None =>
              \/ FreshAllocation'
              \/ alloc # None /\ alloc'.tid = alloc.tid /\ alloc'.timers = alloc.timers,
           alloc # None => alloc' # None
    PROVE  KeepInv'
  <1>1. /\ m \in toServer /\ toServer' \subseteq toServer
        /\ UNCHANGED <<connected, requests, unanswered>>
    BY DEF Replies, client, history
  <1>2. PICK a : a = Answer(m, code)
    OBVIOUS
  <1>3. toClient' \in {toClient, toClient \cup {a}} /\ a.type = m.type /\ a.code = code
    BY <1>2, AnswerParts DEF Replies
  <1>4. ASSUME alloc' # None,
               alloc'.tid \in DOMAIN requests' \/ \E x \in toServer' : x.tid = alloc'.tid
        PROVE  FreshAllocation'
    <2>1. CASE alloc # None /\ alloc'.tid = alloc.tid
      <3>1. alloc.tid \in DOMAIN requests \/ \E x \in toServer : x.tid = alloc.tid
        BY <1>1, <1>4, <2>1
      <3> QED
        BY <2>1, <3>1, KeepNow
    <2> QED
      BY <1>4, <2>1
  <1>5. \A r \in toClient' : r.type \in ForPort /\ r.code = 0 => FreshAllocation'
    BY <1>3, KeepNow
  <1>6. \A r \in toClient' : r.type = "Refresh" => r.code \in {0, 438} \/ unanswered'
    BY <1>1, <1>3, KeepNow
  <1>7. ASSUME connected', ~unanswered' PROVE alloc' # None /\ \E t : InTime(t)'
    <2>1. alloc # None /\ alloc' # None
      BY <1>1, <1>7, KeepNow
    <2>2. PICK t : InTime(t)
      BY <1>1, <1>7, KeepNow
    <2>3. InTime(t)'
      <3>1. CASE alloc'.timers = alloc.timers
        BY <1>1, <2>2, <3>1 DEF InTime
      <3>2. CASE FreshAllocation'
        <4>1. alloc.timers \subseteq 0..Lifetime /\ alloc.timers # {}
          BY <2>1, AllocationNow, AllocationParts
        <4>2. PICK n \in alloc.timers : requests[t].wait < n /\ n \in 0..Lifetime
          BY <2>2, <4>1 DEF InTime
        <4>3. requests[t].wait \in Int /\ Lifetime \in Nat
          BY <2>2, TypeNow, Delays DEF InTime, RequestsOK, RequestOK, Requests
        <4>4. requests[t].wait < Lifetime
          BY <4>2, <4>3
        <4> QED
          BY <1>1, <2>2, <3>2, <4>4 DEF InTime, FreshAllocation
      <3> QED
        BY <2>1, <3>1, <3>2
    <2> QED
      BY <2>1, <2>3
  <1> QED
    BY <1>4, <1>5, <1>6, <1>7, KeepParts

\* Without an allocation some request of a connected port has timed out.
LEMMA Unanswered ==
    ASSUME AuthInv, KeepInv, NEW m \in toServer, m.type # "Allocate", alloc = None
    PROVE  unanswered
  <1>1. connected
    BY DEF AuthInv, MessageAuth
  <1> QED
    BY <1>1, KeepNow

LEMMA KeepHandled ==
    ASSUME TypeInv, AuthInv, KeepInv, NEW m, Handled(m)
    PROVE  KeepInv'
  <1>0. m \in toServer /\ MessageAuth(m) /\ PortAuth
    BY HandledReplies DEF Replies, AuthInv
  <1>1. CASE Refused(m)
    <2>1. UNCHANGED alloc
      BY <1>1, RefusedEffect
    <2>2. FreshAllocation => FreshAllocation'
      BY <2>1 DEF FreshAllocation
    <2>3. CASE Replies(m, 438)
      BY <2>1, <2>2, <2>3, KeepReplies
    <2>4. CASE Replies(m, 401) /\ (m.nonce = None \/ (m.nonce # 0 /\ ~validUser))
      <3>1. m.type # "Refresh"
        BY <1>0, <2>4 DEF MessageAuth, PortAuth
      <3> QED
        BY <2>1, <2>2, <2>4, <3>1, KeepReplies
    <2> QED
      BY <1>1, <2>3, <2>4, RefusedEffect
  <1>2. CASE NewAllocation(m)
    <2>1. m.type = "Allocate" /\ alloc = None
      BY <1>2, NewEffect
    <2>2. ~FreshAllocation
      BY <2>1 DEF FreshAllocation
    <2>3. CASE Replies(m, 0) /\ alloc' \in Allocation /\ alloc'.timers = {Lifetime}
      <3>1. FreshAllocation'
        BY <2>3, NoneAssumption DEF FreshAllocation
      <3> QED
        BY <2>1, <2>3, <3>1, KeepReplies
    <2>4. CASE Replies(m, 500) /\ UNCHANGED alloc
      BY <2>1, <2>2, <2>4, KeepReplies
    <2> QED
      BY <1>2, <2>3, <2>4, NewEffect
  <1>3. CASE AllocateAgain(m)
    <2>1. /\ m.type = "Allocate" /\ alloc # None /\ m.tid = alloc.tid /\ Replies(m, 0)
          /\ alloc' \in Allocation /\ alloc'.timers = alloc.timers \cup {Lifetime}
      BY <1>3, AgainEffect DEF Becomes
    <2>2. FreshAllocation
      BY <1>0, <2>1, KeepNow
    <2>3. FreshAllocation'
      BY <2>1, <2>2, NoneAssumption DEF FreshAllocation
    <2> QED
      BY <2>1, <2>3, KeepReplies DEF FreshAllocation
  <1>4. CASE Mismatch(m)
    <2>1. /\ IF m.type = "Allocate" THEN alloc # None ELSE alloc = None
          /\ Replies(m, 437) /\ UNCHANGED alloc
      BY <1>4, MismatchEffect
    <2>2. m.type = "Refresh" => unanswered
      BY <1>0, <2>1, Unanswered
    <2> QED
      BY <2>1, <2>2, KeepReplies DEF FreshAllocation
  <1>5. CASE HandleRefreshRequest(m)
    <2>1. /\ m.type = "Refresh" /\ Replies(m, 0)
          /\ alloc' \in Allocation /\ alloc'.timers = {Lifetime}
      BY <1>5, RefreshedEffect DEF Becomes
    <2>2. FreshAllocation'
      BY <2>1, NoneAssumption DEF FreshAllocation
    <2> QED
      BY <2>1, <2>2, KeepReplies DEF FreshAllocation
  <1>6. CASE HandleCreatePermissionRequest(m) \/ HandleChannelBindRequest(m)
    <2>1. m.type \in ForEntry /\ alloc # None
      BY <1>6, PermittedEffect, BoundEffect DEF ForEntry
    <2>2. /\ \E code : Replies(m, code)
          /\ alloc' = alloc \/ Becomes(alloc.timers, alloc'.perms, alloc'.channels)
      <3>1. CASE HandleCreatePermissionRequest(m)
        BY <3>1, PermittedEffect DEF Becomes
      <3>2. CASE HandleChannelBindRequest(m)
        BY <3>2, BoundEffect DEF Becomes
      <3> QED
        BY <1>6, <3>1, <3>2
    <2>3. alloc' # None /\ alloc'.tid = alloc.tid /\ alloc'.timers = alloc.timers
      BY <2>1, <2>2, NoneAssumption DEF Becomes
    <2>4. FreshAllocation => FreshAllocation'
      BY <2>3 DEF FreshAllocation
    <2>5. m.type # "Refresh" /\ m.type \notin ForPort
      BY <2>1 DEF ForEntry, ForPort
    <2> QED
      BY <2>1, <2>2, <2>3, <2>4, <2>5, KeepReplies
  <1> QED
    BY <1>1, <1>2, <1>3, <1>4, <1>5, <1>6 DEF Handled

LEMMA KeepServer ==
    ASSUME TypeInv, AuthInv, KeepInv, Expires \/ \E p \in Peer : OnExternalPacket(p)
    PROVE  KeepInv'
  <1>1. CASE AllocationTimeout
    <2>1. /\ alloc # None /\ 0 \in alloc.timers /\ alloc' = None
          /\ UNCHANGED <<client, toServer, toClient, history>>
      BY <1>1, ExpiresEffect
    <2>2. ~FreshAllocation
      BY <2>1, TurnAssumption DEF FreshAllocation
    <2>3. ~(connected /\ ~unanswered)
      <3> SUFFICES ASSUME connected, ~unanswered PROVE FALSE
        OBVIOUS
      <3>1. PICK t : InTime(t)
        BY KeepNow
      <3>2. requests[t].wait < 0
        BY <2>1, <3>1 DEF InTime
      <3>3. requests[t].wait \in Nat
        BY <3>1, TypeNow, Delays DEF InTime, RequestsOK, RequestOK, Requests
      <3> QED
        BY <3>2, <3>3
    <2>4. /\ UNCHANGED <<connected, toClient, unanswered>>
      BY <2>1 DEF client, history
    <2> QED
      BY <2>1, <2>2, <2>3, <2>4, KeepNow, KeepParts
  <1>2. ASSUME UNCHANGED <<client, toServer, history>>,
               alloc # None => alloc' # None, alloc' # None => alloc # None,
               alloc # None => alloc'.tid = alloc.tid /\ alloc'.timers = alloc.timers,
               \A r \in toClient' : r.type \in Types => r \in toClient
        PROVE  KeepInv'
    <2>1. UNCHANGED <<connected, requests, toServer, unanswered>>
      BY <1>2 DEF client, history
    <2>2. FreshAllocation => FreshAllocation'
      BY <1>2 DEF FreshAllocation
    <2>3. ASSUME alloc' # None,
                 alloc'.tid \in DOMAIN requests' \/ \E x \in toServer' : x.tid = alloc'.tid
          PROVE  FreshAllocation'
      BY <1>2, <2>1, <2>2, <2>3, KeepNow
    <2>4. \A r \in toClient' : /\ r.type \in ForPort => r \in toClient
                               /\ r.type = "Refresh" => r \in toClient
      BY <1>2 DEF ForPort, Types
    <2>5. ASSUME connected', ~unanswered' PROVE alloc' # None /\ \E t : InTime(t)'
      <3>1. PICK t : InTime(t) /\ alloc # None
        BY <2>1, <2>5, KeepNow
      <3>2. InTime(t)'
        BY <1>2, <2>1, <3>1 DEF InTime
      <3> QED
        BY <1>2, <3>1, <3>2
    <2> QED
      BY <2>1, <2>2, <2>3, <2>4, <2>5, KeepNow, KeepParts
  <1>3. CASE (\E p \in Peer : PermissionExpires(IpOf[p])) \/ \E c \in 1..MaxEntries : ChannelExpires(c)
    <2>1. /\ UNCHANGED <<client, toServer, history>> /\ UNCHANGED toClient
          /\ alloc # None /\ alloc' \in Allocation
          /\ alloc'.tid = alloc.tid /\ alloc'.timers = alloc.timers
      BY <1>3, ExpiresEffect DEF Becomes
    <2>2. alloc' # None
      BY <2>1, NoneAssumption
    <2> QED
      BY <1>2, <2>1, <2>2
  <1>4. ASSUME NEW p \in Peer, OnExternalPacket(p) PROVE KeepInv'
    <2>1. UNCHANGED <<client, toServer, history>> /\ UNCHANGED alloc
      BY <1>4, ExternalEffect DEF server
    <2>2. \A r \in toClient' : r.type \in Types => r \in toClient
      BY <1>4, ExternalEffect DEF DataOK, Types
    <2> QED
      BY <1>2, <2>1, <2>2
  <1> QED
    BY <1>1, <1>3, <1>4 DEF Expires

LEMMA KeepTick ==
    ASSUME TypeInv, AuthInv, KeepInv, Tick
    PROVE  KeepInv'
  <1>1. /\ toServer' = {} /\ toClient' = {} /\ UNCHANGED <<connected, unanswered>>
    BY TickRest
  <1>2. /\ DOMAIN requests' = DOMAIN requests
        /\ \A u \in DOMAIN requests : /\ requests'[u].type = requests[u].type
                                      /\ requests[u].wait > 0
                                      /\ requests'[u].wait = requests[u].wait - 1
    BY TickRequests
  <1>3. ASSUME alloc' # None, alloc'.tid \in DOMAIN requests' PROVE FALSE
    <2>1. alloc # None /\ alloc'.tid = alloc.tid
      BY <1>3, TickRest, TickAllocation
    <2>2. alloc.tid \in DOMAIN requests /\ alloc.tid[1] = "Allocate"
      BY <1>2, <1>3, <2>1 DEF AuthInv, AllocationAuth
    <2>3. requests[alloc.tid].type = "Allocate"
      BY <2>2, TypeNow DEF RequestsOK, RequestOK
    <2>4. requests[alloc.tid].wait = 0
      BY <2>2, <2>3 DEF AuthInv, RequestAuth
    <2> QED
      BY <1>2, <2>2, <2>4
  <1>4. ASSUME connected', ~unanswered' PROVE alloc' # None /\ \E t : InTime(t)'
    <2>1. PICK t : InTime(t) /\ alloc # None
      BY <1>1, <1>4, KeepNow
    <2>2. alloc \in Allocation /\ alloc' \in Allocation /\ alloc'.timers = {n - 1 : n \in alloc.timers}
      BY <2>1, TickAllocation
    <2>3. alloc.timers \subseteq Int
      BY <2>2, AllocationParts
    <2>4. requests[t].wait \in Int
      BY <2>1, TypeNow, Delays DEF InTime, RequestsOK, RequestOK, Requests
    <2>5. t \in DOMAIN requests' /\ requests'[t].type = "Refresh"
      BY <1>2, <2>1 DEF InTime
    <2>6. \A n \in alloc'.timers : requests'[t].wait < n
      <3> SUFFICES ASSUME NEW n \in alloc.timers PROVE requests[t].wait - 1 < n - 1
        BY <1>2, <2>1, <2>2 DEF InTime
      <3>1. requests[t].wait < n
        BY <2>1 DEF InTime
      <3> QED
        BY <2>3, <2>4, <3>1
    <2>7. InTime(t)'
      BY <2>5, <2>6 DEF InTime
    <2> QED
      BY <2>2, <2>7, NoneAssumption
  <1> QED
    BY <1>1, <1>3, <1>4, KeepParts

LEMMA KeepStep == TypeInv /\ AuthInv /\ KeepInv /\ [Next]_vars => KeepInv'
  <1> SUFFICES ASSUME TypeInv, AuthInv, KeepInv, [Next]_vars PROVE KeepInv'
    OBVIOUS
  <1>1. CASE \E r \in toClient : AllocateAnswered(r)
    BY <1>1, KeepAllocate
  <1>2. CASE \E r \in toClient : RefreshAnswered(r)
    BY <1>2, KeepRefresh
  <1>3. CASE \/ PrepareAddress \/ PrepareAddressFails \/ SignalPortError \/ UNCHANGED vars
             \/ \E t \in DOMAIN requests : OnMessage(t) \/ OnTimeout(t)
             \/ \E r \in toClient : \/ PermissionAnswered(r) \/ BindAnswered(r)
                                    \/ StrayAnswer(r) \/ OnReadData(r)
             \/ \E p \in Peer : CreateEntry(p) \/ DestroyEntry(p) \/ SendTo(p)
    BY <1>3, KeepClient
  <1>4. CASE \E m \in toServer : Handled(m)
    BY <1>4, KeepHandled
  <1>5. CASE Expires \/ \E p \in Peer : OnExternalPacket(p)
    BY <1>5, KeepServer
  <1>6. CASE Tick
    BY <1>6, KeepTick
  <1> QED
    BY <1>1, <1>2, <1>3, <1>4, <1>5, <1>6 DEF Next, Client, Server, Handled, Expires

LEMMA KeepInit == Init => KeepInv
  BY DEF Init, KeepInv

LEMMA AlwaysKept == Spec => [](TypeInv /\ AuthInv /\ KeepInv)
  BY TypeInit, TypeStep, AuthInit, AuthStep, KeepInit, KeepStep, PTL DEF Spec

\* AllocationKept: as long as no refresh times out, the server has an allocation
\* for a connected port.  The refresh that waits is always due before each of
\* the timers that the server runs, of which a retransmitted allocate request
\* starts one more; this is what Margin in ScheduleRefresh is for.
THEOREM AllocationStays == Spec => []AllocationKept
  <1>1. KeepInv => AllocationKept
    BY DEF KeepInv, AllocationKept
  <1> QED
    BY <1>1, AlwaysKept, PTL

-----------------------------------------------------------------------------
(* A channel is bound again in time *)

\* The entry of a request that binds a channel.
LEMMA BindingEntry ==
    ASSUME TypeInv, NEW t, Binding(t)
    PROVE  /\ t \in DOMAIN requests /\ requests[t].peer \in DOMAIN entries
           /\ entries[requests[t].peer].chan = requests[t].chan
           /\ requests[t].entry = requests[t].chan
           /\ requests[t].peer \in Peer /\ requests[t].chan \in 1..MaxEntries
           /\ requests[t].wait \in Nat
  <1>1. /\ t \in DOMAIN requests /\ requests[t].type = "ChannelBind" /\ requests[t].entry # 0
        /\ RequestOK(t, requests[t]) /\ EntryOf(requests[t])
    BY TypeNow DEF Binding, RequestsOK
  <1>2. /\ requests[t].peer \in DOMAIN entries /\ entries[requests[t].peer].chan = requests[t].chan
        /\ requests[t].entry = requests[t].chan /\ requests[t].peer \in Peer
    BY <1>1 DEF EntryOf, RequestOK, ForEntry
  <1>3. requests[t].chan \in 1..MaxEntries
    BY <1>2, TypeNow DEF EntriesOK, EntryOK
  <1>4. requests[t].wait \in Nat
    BY <1>1, Delays DEF RequestOK, Requests
  <1> QED
    BY <1>1, <1>2, <1>3, <1>4

LEMMA SameEntry ==
    ASSUME TypeInv, ChannelInv, NEW p \in DOMAIN entries, NEW q \in DOMAIN entries,
           entries[p].chan = entries[q].chan
    PROVE  p = q
  <1>1. p \in Peer /\ q \in Peer /\ entries[p].chan \in 1..MaxEntries
    BY TypeNow DEF EntriesOK, EntryOK
  <1>2. Given(entries[p].chan, p) /\ Given(entries[p].chan, q)
    BY DEF Given, ByEntry
  <1> QED
    BY <1>1, <1>2 DEF ChannelInv

LEMMA BindNow ==
    ASSUME BindInv
    PROVE  /\ OneBinding /\ OneChannel
           /\ ~unanswered => FreshAnswers /\ GoodAnswers /\ AllRebind
  BY DEF BindInv

\* No request begins to bind a channel, and no entry goes back.
LEMMA OneBindingFrame ==
    ASSUME TypeInv, BindInv,
           \A t \in DOMAIN requests' : Binding(t)' =>
              /\ Binding(t) /\ Kept(t)
              /\ entries[requests[t].peer].state # "unbound"
                    => entries'[requests[t].peer].state # "unbound"
    PROVE  OneBinding'
  <1>1. OneBinding
    BY BindNow
  <1>2. ASSUME NEW t \in DOMAIN requests', NEW u \in DOMAIN requests', Binding(t)', Binding(u)',
               requests'[t].chan = requests'[u].chan
        PROVE  t = u
    <2>1. Binding(t) /\ Binding(u) /\ requests[t].chan = requests[u].chan
      BY <1>2 DEF Kept
    <2> QED
      BY <1>1, <2>1 DEF OneBinding, Binding
  <1>3. ASSUME NEW t \in DOMAIN requests', Binding(t)'
        PROVE  entries'[requests'[t].peer].state # "unbound"
    <2>1. /\ Binding(t) /\ Kept(t)
          /\ entries[requests[t].peer].state # "unbound" => entries'[requests[t].peer].state # "unbound"
      BY <1>3
    <2>2. entries[requests[t].peer].state # "unbound"
      BY <1>1, <2>1 DEF OneBinding, Binding
    <2> QED
      BY <2>1, <2>2 DEF Kept
  <1> QED
    BY <1>2, <1>3 DEF OneBinding

\* Nothing is bound in this step.
BindsNone ==
    \A p \in DOMAIN entries' : entries'[p].state = "bound" =>
        p \in DOMAIN entries /\ entries[p].state = "bound" /\ entries'[p].chan = entries[p].chan

\* What binds a channel again goes on, or something is as early.
RebindsGoOn ==
    \A p \in DOMAIN entries : \A t :
        /\ entries[p].state = "bound" /\ p \in DOMAIN entries'
        /\ Binding(t) /\ requests[t].chan = entries[p].chan
        => \E u \in DOMAIN requests' : /\ Binding(u)' /\ requests'[u].chan = entries[p].chan
                                       /\ requests'[u].wait \in {0, requests[t].wait}

\* The steps of the client that bind nothing.
LEMMA BindFrame ==
    ASSUME TypeInv, TypeInv', BindInv, Steady, UNCHANGED alloc, toClient' \subseteq toClient,
           unanswered => unanswered', BindsNone, OneBinding',
           \A u \in DOMAIN requests' : Kept(u) /\ Binding(u)' => Binding(u),
           ~unanswered' => RebindsGoOn
    PROVE  BindInv'
  <1>1. OneChannel'
    BY BindNow DEF OneChannel
  <1> SUFFICES ASSUME ~unanswered' PROVE FreshAnswers' /\ GoodAnswers' /\ AllRebind'
    BY <1>1 DEF BindInv
  <1>0. ~unanswered /\ FreshAnswers /\ GoodAnswers /\ AllRebind
    BY BindNow
  <1>2. ASSUME NEW r \in toClient', r.type = "ChannelBind", r.tid \in DOMAIN requests'
        PROVE  r \in toClient /\ Kept(r.tid)
    <2>1. r \in toClient /\ r.type \in Types
      BY <1>2 DEF Types
    <2> QED
      BY <1>2, <2>1, Used DEF Steady
  <1>3. FreshAnswers'
    <2> SUFFICES ASSUME NEW r \in toClient', r.type = "ChannelBind", r.tid \in DOMAIN requests', r.code = 0
                 PROVE  FreshChannel(requests[r.tid].chan, requests[r.tid].peer)'
      BY DEF FreshAnswers
    <2>1. r \in toClient /\ Kept(r.tid)
      BY <1>2
    <2>2. FreshChannel(requests[r.tid].chan, requests[r.tid].peer)
      BY <1>0, <2>1 DEF FreshAnswers, Kept
    <2> QED
      BY <2>1, <2>2 DEF FreshChannel, Kept
  <1>4. GoodAnswers'
    <2> SUFFICES ASSUME NEW r \in toClient', r.type = "ChannelBind", Binding(r.tid)',
                        entries'[requests'[r.tid].peer].state = "bound"
                 PROVE  r.code \in {0, 438}
      BY DEF GoodAnswers
    <2>1. r \in toClient /\ Kept(r.tid)
      BY <1>2 DEF Binding
    <2>2. Binding(r.tid)
      BY <2>1 DEF Binding
    <2>3. requests'[r.tid].peer \in DOMAIN entries'
      BY DEF TypeInv, Binding, EntryOf
    <2>4. entries[requests[r.tid].peer].state = "bound"
      BY <2>1, <2>3 DEF BindsNone, Kept
    <2> QED
      BY <1>0, <2>1, <2>2, <2>4 DEF GoodAnswers
  <1>5. AllRebind'
    <2> SUFFICES ASSUME NEW p \in DOMAIN entries', entries'[p].state = "bound"
                 PROVE  Rebinds(p)'
      BY DEF AllRebind
    <2>1. p \in DOMAIN entries /\ entries[p].state = "bound" /\ entries'[p].chan = entries[p].chan
      BY DEF BindsNone
    <2>2. Rebinds(p)
      BY <1>0, <2>1 DEF AllRebind
    <2>3. PICK c : c = entries[p].chan
      OBVIOUS
    <2>4. /\ alloc # None /\ c \in DOMAIN alloc.channels /\ alloc.channels[c].peer = p
          /\ IpOf[p] \in DOMAIN alloc.perms
      BY <2>2, <2>3 DEF Rebinds
    <2>5. PICK t : /\ Binding(t) /\ requests[t].chan = c
                   /\ requests[t].wait < alloc.channels[c].left
                   /\ requests[t].wait < alloc.perms[IpOf[p]]
      BY <2>2, <2>3 DEF Rebinds
    <2>6. PICK u \in DOMAIN requests' : /\ Binding(u)' /\ requests'[u].chan = c
                                        /\ requests'[u].wait \in {0, requests[t].wait}
      BY <2>1, <2>3, <2>5 DEF RebindsGoOn
    <2>7. /\ requests[t].wait \in Nat /\ alloc.channels[c].left \in Int
          /\ alloc.perms[IpOf[p]] \in Int
      <3>1. alloc \in Allocation
        BY <2>4, AllocationNow
      <3>2. alloc.channels[c].left \in Int
        BY <2>4, <3>1, AllocationParts, ChannelType
      <3>3. alloc.perms[IpOf[p]] \in Int
        BY <2>4, <3>1, AllocationParts, PermissionType
      <3> QED
        BY <2>5, <3>2, <3>3, BindingEntry
    <2>8. requests'[u].wait < alloc.channels[c].left /\ requests'[u].wait < alloc.perms[IpOf[p]]
      BY <2>5, <2>6, <2>7
    <2> QED
      BY <2>1, <2>3, <2>4, <2>6, <2>8 DEF Rebinds
  <1> QED
    BY <1>3, <1>4, <1>5

\* A step that keeps the requests that bind channels, and the entries.
LEMMA BindSame ==
    ASSUME TypeInv, TypeInv', BindInv, Steady, UNCHANGED <<entries, alloc>>,
           toClient' \subseteq toClient, unanswered => unanswered',
           \A t \in DOMAIN requests' :
              requests'[t].type = "ChannelBind" => Kept(t) /\ requests'[t].entry = requests[t].entry,
           unanswered' \/ \A t \in DOMAIN requests : requests[t].type = "ChannelBind" =>
                             t \in DOMAIN requests' /\ Kept(t) /\ requests'[t].entry = requests[t].entry
    PROVE  BindInv'
  <1>1. BindsNone
    BY DEF BindsNone
  <1>2. \A t \in DOMAIN requests' : Binding(t)' => Binding(t) /\ Kept(t)
    BY DEF Binding, Kept
  <1>3. OneBinding'
    BY <1>2, OneBindingFrame
  <1>4. ASSUME ~unanswered' PROVE RebindsGoOn
    <2> SUFFICES ASSUME NEW p \in DOMAIN entries, NEW t, Binding(t), requests[t].chan = entries[p].chan
                 PROVE  \E u \in DOMAIN requests' : /\ Binding(u)' /\ requests'[u].chan = entries[p].chan
                                                    /\ requests'[u].wait \in {0, requests[t].wait}
      BY DEF RebindsGoOn
    <2>1. t \in DOMAIN requests' /\ Kept(t) /\ requests'[t].entry = requests[t].entry
      BY <1>4 DEF Binding
    <2> QED
      BY <2>1 DEF Binding, Kept
  <1> QED
    BY <1>1, <1>2, <1>3, <1>4, BindFrame

\* A request that is added and binds no channel.
LEMMA BindAdds ==
    ASSUME TypeInv, TypeInv', BindInv, NEW t, NEW q, NEW gone, Adds(t, q, gone),
           q.type # "ChannelBind", UNCHANGED <<entries, alloc, unanswered>>,
           toClient' \subseteq toClient,
           \A u \in DOMAIN requests \cap gone : requests[u].type # "ChannelBind"
    PROVE  BindInv'
  <1>1. Steady
    BY AddsSteady
  <1>2. \A u \in DOMAIN requests' :
           requests'[u].type = "ChannelBind" => Kept(u) /\ requests'[u].entry = requests[u].entry
    BY AddsSteady DEF Adds
  <1>3. \A u \in DOMAIN requests : requests[u].type = "ChannelBind" =>
           u \in DOMAIN requests' /\ Kept(u) /\ requests'[u].entry = requests[u].entry
    BY AddsSteady DEF Adds
  <1> QED
    BY <1>1, <1>2, <1>3, BindSame

LEMMA BindDrops ==
    ASSUME TypeInv, TypeInv', BindInv, NEW t, Drops(t), UNCHANGED <<entries, alloc>>,
           unanswered => unanswered', toClient' \subseteq toClient,
           unanswered' \/ t \notin DOMAIN requests \/ requests[t].type # "ChannelBind"
    PROVE  BindInv'
  <1>1. Steady
    BY DropsSteady
  <1>2. \A u \in DOMAIN requests' :
           requests'[u].type = "ChannelBind" => Kept(u) /\ requests'[u].entry = requests[u].entry
    BY DropsSteady DEF Drops
  <1>3. unanswered' \/ \A u \in DOMAIN requests : requests[u].type = "ChannelBind" =>
           u \in DOMAIN requests' /\ Kept(u) /\ requests'[u].entry = requests[u].entry
    BY DropsSteady DEF Drops
  <1> QED
    BY <1>1, <1>2, <1>3, BindSame

\* The steps of the client that are about no channel.
LEMMA BindClient ==
    ASSUME TypeInv, TypeInv', BindInv,
           \/ PrepareAddress \/ PrepareAddressFails \/ SignalPortError \/ UNCHANGED vars
           \/ \E t \in DOMAIN requests : OnMessage(t) \/ OnTimeout(t)
           \/ \E r \in toClient : \/ AllocateAnswered(r) \/ RefreshAnswered(r)
                                  \/ PermissionAnswered(r) \/ StrayAnswer(r) \/ OnReadData(r)
    PROVE  BindInv'
  <1>1. CASE PrepareAddress
    <2>1. PICK q : q = PortRequest("Allocate", nonce, 0)
      OBVIOUS
    <2>2. PICK t : Adds(t, q, {})
      BY <1>1, <2>1, PrepareType DEF Sends
    <2>3. UNCHANGED <<entries, alloc, unanswered>> /\ toClient' \subseteq toClient
      BY <1>1, PrepareType DEF server, history
    <2>4. q.type # "ChannelBind"
      BY <2>1 DEF PortRequest, Request
    <2> QED
      BY <2>2, <2>3, <2>4, BindAdds
  <1>2. CASE Calm
    <2>1. /\ UNCHANGED <<requests, entries, alloc, unanswered>> /\ toClient' \subseteq toClient
      BY <1>2, QuietType
    <2>2. Steady /\ \A u \in DOMAIN requests' : Kept(u)
      BY <2>1, SameSteady
    <2> QED
      BY <2>1, <2>2, BindSame
  <1>3. ASSUME NEW t \in DOMAIN requests, OnMessage(t) PROVE BindInv'
    <2>1. /\ DOMAIN requests' = DOMAIN requests
          /\ \A u \in DOMAIN requests : Kept(u) /\ requests'[u].entry = requests[u].entry
          /\ UNCHANGED <<entries, alloc, unanswered>> /\ toClient' \subseteq toClient
      BY <1>3, MessageEffect DEF Kept, server, history
    <2>2. Steady
      BY <2>1 DEF Steady
    <2> QED
      BY <2>1, <2>2, BindSame
  <1>4. ASSUME NEW t \in DOMAIN requests, OnTimeout(t) PROVE BindInv'
    <2>1. /\ Drops(t) /\ UNCHANGED <<entries, alloc>> /\ toClient' \subseteq toClient
          /\ requests[t].type # "Allocate" => unanswered'
      BY <1>4, TimeoutType DEF server
    <2>2. unanswered => unanswered'
      BY <1>4, TimeoutType
    <2> QED
      BY <2>1, <2>2, BindDrops
  <1>5. ASSUME NEW r \in toClient,
               AllocateAnswered(r) \/ RefreshAnswered(r) \/ PermissionAnswered(r)
        PROVE  BindInv'
    <2>1. PICK type \in Types : CheckResponse(r, type) /\ type # "ChannelBind"
      BY <1>5 DEF AllocateAnswered, RefreshAnswered, PermissionAnswered, Types
    <2>2. requests[r.tid].type # "ChannelBind" /\ toClient' \subseteq toClient
      BY <2>1, AnswerOK DEF CheckResponse
    <2>3. UNCHANGED <<entries, alloc, unanswered>>
      BY <1>5 DEF AllocateAnswered, RefreshAnswered, PermissionAnswered, server, history
    <2>4. CASE Drops(r.tid)
      BY <2>2, <2>3, <2>4, BindDrops
    <2>5. ASSUME NEW q, Sends(q, {r.tid}), q.type # "ChannelBind" PROVE BindInv'
      <3>1. PICK t : Adds(t, q, {r.tid})
        BY <2>5 DEF Sends
      <3> QED
        BY <2>2, <2>3, <2>5, <3>1, BindAdds
    <2>6. \A a, d, p : /\ PortRequest("Allocate", a, d).type # "ChannelBind"
                       /\ PortRequest("Refresh", a, d).type # "ChannelBind"
                       /\ EntryRequest("CreatePermission", p, a, d).type # "ChannelBind"
      BY DEF PortRequest, EntryRequest, Request
    <2>7. CASE AllocateAnswered(r)
      <3>1. \/ Sends(PortRequest("Refresh", nonce, Lifetime - Margin), {r.tid})
            \/ Sends(PortRequest("Allocate", r.nonce, 0), {r.tid})
            \/ Drops(r.tid)
        BY <2>7, AllocateEffect
      <3> QED
        BY <2>4, <2>5, <2>6, <3>1
    <2>8. CASE RefreshAnswered(r)
      <3>1. \/ Sends(PortRequest("Refresh", nonce, Lifetime - Margin), {r.tid})
            \/ Sends(PortRequest("Refresh", r.nonce, 0), {r.tid})
            \/ Drops(r.tid)
        BY <2>8, RefreshEffect
      <3> QED
        BY <2>4, <2>5, <2>6, <3>1
    <2>9. CASE PermissionAnswered(r)
      <3>1. \/ Sends(EntryRequest("CreatePermission", requests[r.tid].peer, r.nonce, 0), {r.tid})
            \/ Drops(r.tid)
        BY <2>9, PermissionEffect
      <3> QED
        BY <2>4, <2>5, <2>6, <3>1
    <2> QED
      BY <1>5, <2>7, <2>8, <2>9
  <1> QED
    BY <1>1, <1>2, <1>3, <1>4, <1>5 DEF Calm

LEMMA BindCreate ==
    ASSUME TypeInv, TypeInv', BindInv, NEW p \in Peer, CreateEntry(p)
    PROVE  BindInv'
  <1>1. PICK q : q = Request("CreatePermission", p, nextChannel, nonce, 0)
    OBVIOUS
  <1>2. PICK t : Adds(t, q, {})
    BY <1>1, CreateEffect
  <1>3. /\ p \notin DOMAIN entries /\ DOMAIN entries' = DOMAIN entries \cup {p}
        /\ entries'[p] = [chan |-> nextChannel, state |-> "unbound"]
        /\ \A o \in DOMAIN entries : o # p /\ entries'[o] = entries[o]
        /\ UNCHANGED <<alloc, unanswered>> /\ toClient' \subseteq toClient
    BY CreateEffect DEF server, history
  <1>4. q.type # "ChannelBind"
    BY <1>1 DEF Request
  <1>5. /\ Steady
        /\ \A u \in DOMAIN requests' : Binding(u)' => Kept(u) /\ Binding(u)
        /\ \A u : Binding(u) => u \in DOMAIN requests' /\ Kept(u) /\ Binding(u)'
    BY <1>2, <1>4, AddsSteady DEF Adds, Binding
  <1>6. BindsNone
    BY <1>3 DEF BindsNone
  <1>7. OneBinding'
    <2>1. ASSUME NEW u \in DOMAIN requests', Binding(u)'
          PROVE  /\ Binding(u) /\ Kept(u)
                 /\ entries[requests[u].peer].state # "unbound"
                       => entries'[requests[u].peer].state # "unbound"
      <3>1. Binding(u) /\ Kept(u)
        BY <1>5, <2>1
      <3>2. requests[u].peer \in DOMAIN entries
        BY <3>1, BindingEntry
      <3> QED
        BY <1>3, <3>1, <3>2
    <2> QED
      BY <2>1, OneBindingFrame
  <1>8. RebindsGoOn
    BY <1>5 DEF RebindsGoOn, Kept
  <1> QED
    BY <1>3, <1>5, <1>6, <1>7, <1>8, BindFrame

LEMMA BindDestroy ==
    ASSUME TypeInv, TypeInv', ChannelInv, BindInv, NEW p, DestroyEntry(p)
    PROVE  BindInv'
  <1>1. /\ p \in DOMAIN entries /\ DOMAIN entries' = DOMAIN entries \ {p}
        /\ \A o \in DOMAIN entries \ {p} : entries'[o] = entries[o]
        /\ UNCHANGED <<alloc, unanswered>> /\ toClient' \subseteq toClient
    BY DestroyEffect DEF server, history
  <1>2. /\ DOMAIN requests' = DOMAIN requests
        /\ \A u \in DOMAIN requests :
              /\ Kept(u)
              /\ requests'[u].entry = IF requests[u].entry = entries[p].chan
                                      THEN 0 ELSE requests[u].entry
    <2>1. DOMAIN requests' = DOMAIN requests
      BY DestroyEffect
    <2>2. \A u \in DOMAIN requests :
             /\ requests'[u].type = requests[u].type /\ requests'[u].peer = requests[u].peer
             /\ requests'[u].chan = requests[u].chan
             /\ requests'[u].entry = IF requests[u].entry = entries[p].chan
                                     THEN 0 ELSE requests[u].entry
             /\ requests'[u].nonce = requests[u].nonce /\ requests'[u].wait = requests[u].wait
             /\ requests'[u] \in Requests
      BY DestroyEffect, Zenon
    <2>3. ASSUME NEW u \in DOMAIN requests PROVE Kept(u)
      BY <2>2 DEF Kept
    <2> QED
      BY <2>1, <2>2, <2>3
  <1>3. Steady
    BY <1>2 DEF Steady
  <1>4. ASSUME NEW u, Binding(u)
        PROVE  /\ Binding(u)' <=> requests[u].peer # p
               /\ requests[u].peer \in DOMAIN entries
    <2>1. /\ u \in DOMAIN requests /\ requests[u].peer \in DOMAIN entries
          /\ entries[requests[u].peer].chan = requests[u].entry
      BY <1>4, BindingEntry
    <2>2. requests[u].entry = entries[p].chan <=> requests[u].peer = p
      BY <1>1, <2>1, SameEntry
    <2> QED
      BY <1>2, <1>4, <2>1, <2>2 DEF Binding, Kept
  <1>5. \A u \in DOMAIN requests' : Binding(u)' => Binding(u)
    BY <1>2 DEF Binding, Kept
  <1>6. BindsNone
    BY <1>1 DEF BindsNone
  <1>7. OneBinding'
    <2>1. ASSUME NEW u \in DOMAIN requests', Binding(u)'
          PROVE  /\ Binding(u) /\ Kept(u)
                 /\ entries[requests[u].peer].state # "unbound"
                       => entries'[requests[u].peer].state # "unbound"
      <3>1. Binding(u) /\ Kept(u)
        BY <1>2, <1>5, <2>1
      <3> QED
        BY <1>1, <1>4, <2>1, <3>1
    <2> QED
      BY <2>1, OneBindingFrame
  <1>8. RebindsGoOn
    <2> SUFFICES ASSUME NEW o \in DOMAIN entries, o \in DOMAIN entries', NEW t, Binding(t),
                        requests[t].chan = entries[o].chan
                 PROVE  \E u \in DOMAIN requests' : /\ Binding(u)' /\ requests'[u].chan = entries[o].chan
                                                    /\ requests'[u].wait \in {0, requests[t].wait}
      BY DEF RebindsGoOn
    <2>1. /\ t \in DOMAIN requests /\ requests[t].peer \in DOMAIN entries
          /\ entries[requests[t].peer].chan = requests[t].chan
      BY BindingEntry
    <2>2. requests[t].peer = o /\ o # p
      BY <1>1, <2>1, SameEntry
    <2>3. Binding(t)'
      BY <1>4, <2>2
    <2> QED
      BY <1>2, <2>1, <2>3 DEF Kept
  <1> QED
    BY <1>1, <1>3, <1>5, <1>6, <1>7, <1>8, BindFrame

\* The request q begins to bind the channel of the entry of p, which no request
\* does that stays.
LEMMA BindNew ==
    ASSUME TypeInv, ChannelInv, BindInv, NEW p \in DOMAIN entries, NEW t, NEW q, NEW gone,
           Adds(t, q, gone), q.type = "ChannelBind", q.entry # 0,
           q.peer = p, q.chan = entries[p].chan,
           DOMAIN entries' = DOMAIN entries, entries'[p].state # "unbound",
           \A o \in DOMAIN entries : o # p => entries'[o] = entries[o],
           \A u : Binding(u) /\ requests[u].chan = entries[p].chan => u \in gone
    PROVE  /\ OneBinding' /\ Binding(t)' /\ Steady
           /\ \A u : Binding(u)' => u = t \/ (Binding(u) /\ Kept(u) /\ requests[u].peer # p)
           /\ \A u : Binding(u) /\ u \notin gone => Binding(u)' /\ Kept(u)
  <1>1. /\ Steady /\ t \in DOMAIN requests' /\ requests'[t] = q
        /\ \A u \in DOMAIN requests' : u = t \/ (Kept(u) /\ u \notin gone)
        /\ \A u \in DOMAIN requests \ gone : u \in DOMAIN requests' /\ Kept(u)
        /\ \A u \in DOMAIN requests \ gone : requests'[u] = requests[u]
    BY AddsSteady DEF Adds
  <1>2. Binding(t)'
    BY <1>1 DEF Binding
  <1>3. ASSUME NEW u, Binding(u), u \notin gone PROVE Binding(u)' /\ Kept(u)
    BY <1>1, <1>3 DEF Binding
  <1>4. ASSUME NEW u, Binding(u)', u # t
        PROVE  /\ Binding(u) /\ Kept(u) /\ requests[u].peer # p
               /\ requests[u].chan # entries[p].chan /\ requests[u].peer \in DOMAIN entries
    <2>1. u \in DOMAIN requests' /\ Kept(u) /\ u \notin gone
      BY <1>1, <1>4 DEF Binding
    <2>2. Binding(u)
      BY <1>1, <1>4, <2>1 DEF Binding, Kept
    <2>3. requests[u].chan # entries[p].chan
      BY <2>1, <2>2
    <2> QED
      BY <2>1, <2>2, <2>3, BindingEntry
  <1>5. \A u, v \in DOMAIN requests' :
           Binding(u)' /\ Binding(v)' /\ requests'[u].chan = requests'[v].chan => u = v
    <2> SUFFICES ASSUME NEW u \in DOMAIN requests', NEW v \in DOMAIN requests', Binding(u)', Binding(v)',
                        requests'[u].chan = requests'[v].chan
                 PROVE  u = v
      OBVIOUS
    <2>1. CASE u # t /\ v # t
      <3>1. Binding(u) /\ Binding(v) /\ requests[u].chan = requests[v].chan
        BY <1>4, <2>1 DEF Kept
      <3> QED
        BY <3>1, BindNow DEF OneBinding, Binding
    <2>2. CASE u = t \/ v = t
      BY <1>1, <1>4, <2>2 DEF Kept
    <2> QED
      BY <2>1, <2>2
  <1>6. \A u \in DOMAIN requests' : Binding(u)' => entries'[requests'[u].peer].state # "unbound"
    <2> SUFFICES ASSUME NEW u \in DOMAIN requests', Binding(u)'
                 PROVE  entries'[requests'[u].peer].state # "unbound"
      OBVIOUS
    <2>1. CASE u = t
      BY <1>1, <2>1
    <2>2. CASE u # t
      <3>1. /\ Binding(u) /\ Kept(u) /\ requests[u].peer # p /\ requests[u].peer \in DOMAIN entries
        BY <1>4, <2>2
      <3>2. entries[requests[u].peer].state # "unbound"
        BY <3>1, BindNow DEF OneBinding, Binding
      <3> QED
        BY <3>1, <3>2 DEF Kept
    <2> QED
      BY <2>1, <2>2
  <1>7. OneBinding'
    BY <1>5, <1>6 DEF OneBinding
  <1> QED
    BY <1>1, <1>2, <1>3, <1>4, <1>7

LEMMA BindSendTo ==
    ASSUME TypeInv, TypeInv', ChannelInv, BindInv, NEW p, SendTo(p)
    PROVE  BindInv'
  <1>1. PICK q : q = EntryRequest("ChannelBind", p, nonce, 0)
    OBVIOUS
  <1>2. /\ p \in DOMAIN entries /\ entries[p].state = "unbound"
        /\ entries' = [entries EXCEPT ![p].state = "binding"] /\ Sends(q, {})
        /\ UNCHANGED <<alloc, unanswered>> /\ toClient' \subseteq toClient
    BY <1>1, SendToEffect DEF server, history
  <1>3. /\ DOMAIN entries' = DOMAIN entries /\ entries'[p].state = "binding"
        /\ \A o \in DOMAIN entries : o # p => entries'[o] = entries[o]
    BY <1>2, StateChange
  <1>4. PICK t : Adds(t, q, {})
    BY <1>2 DEF Sends
  <1>5. entries[p].chan # 0
    BY <1>2, TypeNow DEF EntriesOK, EntryOK
  <1>6. q.type = "ChannelBind" /\ q.entry # 0 /\ q.peer = p /\ q.chan = entries[p].chan
    BY <1>1, <1>5 DEF EntryRequest, Request
  <1>7. ASSUME NEW u, Binding(u), requests[u].chan = entries[p].chan PROVE FALSE
    <2>1. /\ u \in DOMAIN requests /\ requests[u].peer \in DOMAIN entries
          /\ entries[requests[u].peer].chan = entries[p].chan
      BY <1>7, BindingEntry
    <2>2. requests[u].peer = p
      BY <1>2, <2>1, SameEntry
    <2>3. entries[p].state # "unbound"
      BY <1>7, <2>1, <2>2, BindNow DEF OneBinding
    <2> QED
      BY <1>2, <2>3
  <1>8. /\ OneBinding' /\ Steady
        /\ \A u : Binding(u)' => u = t \/ (Binding(u) /\ Kept(u) /\ requests[u].peer # p)
        /\ \A u : Binding(u) => Binding(u)' /\ Kept(u)
    BY <1>2, <1>3, <1>4, <1>6, <1>7, BindNew
  <1>9. BindsNone
    BY <1>2, <1>3 DEF BindsNone
  <1>10. \A u \in DOMAIN requests' : Kept(u) /\ Binding(u)' => Binding(u)
    BY <1>4, <1>8, Used DEF Kept, Adds
  <1>11. RebindsGoOn
    BY <1>8 DEF RebindsGoOn, Kept, Binding
  <1> QED
    BY <1>2, <1>8, <1>9, <1>10, <1>11, BindFrame

\* After a stale nonce, the same request with a new one.
AsksAgain(r, p) ==
    /\ p \in DOMAIN entries /\ UNCHANGED entries
    /\ Sends(EntryRequest("ChannelBind", p, r.nonce, 0), {r.tid})

\* What the port does with the answer to a request that binds a channel.
LEMMA BindCases ==
    ASSUME TypeInv, NEW r, BindAnswered(r), NEW p, p = requests[r.tid].peer
    PROVE  /\ r \in toClient /\ r.type = "ChannelBind" /\ r.tid \in DOMAIN requests
           /\ toClient' \subseteq toClient
           /\ requests[r.tid].type = "ChannelBind" /\ UNCHANGED <<alloc, unanswered>>
           /\ r.code = 0 /\ requests[r.tid].entry # 0 =>
                 /\ p \in DOMAIN entries /\ entries' = [entries EXCEPT ![p].state = "bound"]
                 /\ Sends(EntryRequest("ChannelBind", p, nonce, PermissionTimeout - Margin), {r.tid})
           /\ r.code = 438 /\ requests[r.tid].entry # 0 =>
                 AsksAgain(r, p)
           /\ requests[r.tid].entry = 0 \/ r.code \notin {0, 438} =>
                 Drops(r.tid) /\ UNCHANGED entries
  <1>0. LET o == requests[r.tid].peer
        IN /\ CheckResponse(r, "ChannelBind")
           /\ UNCHANGED <<prepared, connected, error, nextChannel, toServer, server, history>>
           /\ \/ /\ r.code = 0 /\ requests[r.tid].entry # 0 /\ o \in DOMAIN entries
                 /\ entries' = [entries EXCEPT ![o].state = "bound"] /\ UNCHANGED nonce
                 /\ Sends(EntryRequest("ChannelBind", o, nonce, PermissionTimeout - Margin), {r.tid})
              \/ /\ r.code = 438 /\ requests[r.tid].entry # 0 /\ o \in DOMAIN entries
                 /\ nonce' = r.nonce /\ UNCHANGED entries
                 /\ Sends(EntryRequest("ChannelBind", o, r.nonce, 0), {r.tid})
              \/ /\ requests[r.tid].entry = 0 \/ r.code \notin {0, 438}
                 /\ Drops(r.tid) /\ UNCHANGED <<nonce, entries>>
    BY BindEffect
  <1>1. /\ CheckResponse(r, "ChannelBind")
        /\ UNCHANGED <<prepared, connected, error, nextChannel, toServer, server, history>>
        /\ \/ /\ r.code = 0 /\ requests[r.tid].entry # 0 /\ p \in DOMAIN entries
              /\ entries' = [entries EXCEPT ![p].state = "bound"] /\ UNCHANGED nonce
              /\ Sends(EntryRequest("ChannelBind", p, nonce, PermissionTimeout - Margin), {r.tid})
           \/ /\ r.code = 438 /\ requests[r.tid].entry # 0 /\ p \in DOMAIN entries
              /\ nonce' = r.nonce /\ UNCHANGED entries
              /\ Sends(EntryRequest("ChannelBind", p, r.nonce, 0), {r.tid})
           \/ /\ requests[r.tid].entry = 0 \/ r.code \notin {0, 438}
              /\ Drops(r.tid) /\ UNCHANGED <<nonce, entries>>
    BY <1>0
  <1>2. "ChannelBind" \in Types
    BY DEF Types
  <1>3. requests[r.tid].type = "ChannelBind"
    BY <1>1, <1>2, AnswerOK
  <1>4. /\ r \in toClient /\ r.type = "ChannelBind" /\ r.tid \in DOMAIN requests
        /\ toClient' \subseteq toClient /\ UNCHANGED <<alloc, unanswered>>
    BY <1>1 DEF CheckResponse, server, history
  <1>5. r.code = 438 /\ requests[r.tid].entry # 0 => AsksAgain(r, p)
    BY <1>1 DEF AsksAgain
  <1> QED
    BY <1>1, <1>3, <1>4, <1>5

\* A channel is bound: the request that is to bind it again is due in time.
LEMMA BindBound ==
    ASSUME TypeInv, TypeInv', ChannelInv, BindInv, NEW r, BindAnswered(r), r.code = 0,
           requests[r.tid].entry # 0
    PROVE  BindInv'
  <1>1. PICK p : p = requests[r.tid].peer
    OBVIOUS
  <1>2. PICK q : q = EntryRequest("ChannelBind", p, nonce, PermissionTimeout - Margin)
    OBVIOUS
  <1>3. /\ r \in toClient /\ r.type = "ChannelBind" /\ r.tid \in DOMAIN requests
        /\ toClient' \subseteq toClient
        /\ requests[r.tid].type = "ChannelBind" /\ UNCHANGED <<alloc, unanswered>>
    BY <1>1, BindCases
  <1>4. /\ p \in DOMAIN entries /\ entries' = [entries EXCEPT ![p].state = "bound"]
        /\ Sends(q, {r.tid})
    BY <1>1, <1>2, BindCases
  <1>5. Binding(r.tid) /\ requests[r.tid].chan = entries[p].chan
    BY <1>1, <1>3, BindingEntry DEF Binding
  <1>6. /\ DOMAIN entries' = DOMAIN entries /\ entries'[p].state = "bound"
        /\ \A o \in DOMAIN entries : o # p => entries'[o] = entries[o]
        /\ KeepsChannels
    BY <1>4, StateChange
  <1>7. PICK t : Adds(t, q, {r.tid})
    BY <1>4 DEF Sends
  <1>8. entries[p].chan # 0
    BY <1>4, TypeNow DEF EntriesOK, EntryOK
  <1>9. /\ q.type = "ChannelBind" /\ q.entry # 0 /\ q.peer = p /\ q.chan = entries[p].chan
        /\ q.wait = PermissionTimeout - Margin
    BY <1>2, <1>8 DEF EntryRequest, Request
  <1>10. \A u : Binding(u) /\ requests[u].chan = entries[p].chan => u \in {r.tid}
    BY <1>5, BindNow DEF OneBinding, Binding
  <1>11. /\ OneBinding' /\ Steady /\ Binding(t)'
         /\ \A u : Binding(u)' => u = t \/ (Binding(u) /\ Kept(u) /\ requests[u].peer # p)
         /\ \A u : Binding(u) /\ u \notin {r.tid} => Binding(u)' /\ Kept(u)
    BY <1>4, <1>6, <1>7, <1>9, <1>10, BindNew
  <1>12. OneChannel'
    BY <1>3, BindNow DEF OneChannel
  <1> SUFFICES ASSUME ~unanswered' PROVE FreshAnswers' /\ GoodAnswers' /\ AllRebind'
    BY <1>11, <1>12 DEF BindInv
  <1>13. FreshAnswers /\ GoodAnswers /\ AllRebind
    BY <1>3, BindNow
  <1>14. ASSUME NEW s \in toClient', s.type = "ChannelBind", s.tid \in DOMAIN requests'
         PROVE  s \in toClient /\ s.tid # t /\ Kept(s.tid)
    <2>1. s \in toClient /\ s.type \in Types
      BY <1>3, <1>14 DEF Types
    <2>2. t \notin UsedTx
      BY <1>7 DEF Adds
    <2> QED
      BY <1>11, <1>14, <2>1, <2>2, Used DEF Steady
  <1>15. FreshAnswers'
    <2> SUFFICES ASSUME NEW s \in toClient', s.type = "ChannelBind", s.tid \in DOMAIN requests', s.code = 0
                 PROVE  FreshChannel(requests[s.tid].chan, requests[s.tid].peer)'
      BY DEF FreshAnswers
    <2>1. s \in toClient /\ Kept(s.tid)
      BY <1>14
    <2>2. FreshChannel(requests[s.tid].chan, requests[s.tid].peer)
      BY <1>13, <2>1 DEF FreshAnswers, Kept
    <2> QED
      BY <1>3, <2>1, <2>2 DEF FreshChannel, Kept
  <1>16. GoodAnswers'
    <2> SUFFICES ASSUME NEW s \in toClient', s.type = "ChannelBind", Binding(s.tid)',
                        entries'[requests'[s.tid].peer].state = "bound"
                 PROVE  s.code \in {0, 438}
      BY DEF GoodAnswers
    <2>1. s \in toClient /\ s.tid # t
      BY <1>14 DEF Binding
    <2>2. Binding(s.tid) /\ Kept(s.tid) /\ requests[s.tid].peer # p
      BY <1>11, <2>1
    <2>3. requests[s.tid].peer \in DOMAIN entries
      BY <2>2, BindingEntry
    <2>4. entries[requests[s.tid].peer].state = "bound"
      BY <1>6, <2>2, <2>3 DEF Kept
    <2> QED
      BY <1>13, <2>1, <2>2, <2>4 DEF GoodAnswers
  <1>17. Rebinds(p)'
    <2>1. FreshChannel(entries[p].chan, p)
      BY <1>1, <1>3, <1>5, <1>13 DEF FreshAnswers
    <2>2. PICK c : c = entries[p].chan
      OBVIOUS
    <2>3. entries'[p].chan = c
      BY <1>4, <1>6, <2>2 DEF KeepsChannels
    <2>4. /\ alloc # None /\ c \in DOMAIN alloc.channels /\ alloc.channels[c].peer = p
          /\ alloc.channels[c].left = ChannelTimeout
          /\ IpOf[p] \in DOMAIN alloc.perms /\ alloc.perms[IpOf[p]] = PermissionTimeout
      BY <2>1, <2>2 DEF FreshChannel
    <2>5. requests'[t].chan = c /\ t \in DOMAIN requests' /\ requests'[t].wait = PermissionTimeout - Margin
      BY <1>7, <1>9, <2>2 DEF Adds
    <2>6. requests'[t].wait < alloc.channels[c].left /\ requests'[t].wait < alloc.perms[IpOf[p]]
      BY <2>4, <2>5, Delays
    <2> QED
      BY <1>3, <1>11, <2>3, <2>4, <2>5, <2>6 DEF Rebinds
  <1>18. ASSUME NEW o \in DOMAIN entries, o # p, entries[o].state = "bound" PROVE Rebinds(o)'
    <2>1. Rebinds(o) /\ entries'[o] = entries[o]
      BY <1>6, <1>13, <1>18 DEF AllRebind
    <2>2. PICK c : c = entries[o].chan
      OBVIOUS
    <2>3. /\ alloc # None /\ c \in DOMAIN alloc.channels /\ alloc.channels[c].peer = o
          /\ IpOf[o] \in DOMAIN alloc.perms
      BY <2>1, <2>2 DEF Rebinds
    <2>4. PICK u : /\ Binding(u) /\ requests[u].chan = c
                   /\ requests[u].wait < alloc.channels[c].left
                   /\ requests[u].wait < alloc.perms[IpOf[o]]
      BY <2>1, <2>2 DEF Rebinds
    <2>5. u # r.tid
      BY <1>4, <1>5, <1>18, <2>2, <2>4, SameEntry
    <2>6. Binding(u)' /\ Kept(u)
      BY <1>11, <2>4, <2>5
    <2> QED
      BY <1>3, <2>1, <2>2, <2>3, <2>4, <2>6 DEF Rebinds, Binding, Kept
  <1>19. AllRebind'
    BY <1>6, <1>17, <1>18 DEF AllRebind
  <1> QED
    BY <1>15, <1>16, <1>19

LEMMA BindAnswer ==
    ASSUME TypeInv, TypeInv', ChannelInv, BindInv, NEW r, BindAnswered(r)
    PROVE  BindInv'
  <1>1. PICK p : p = requests[r.tid].peer
    OBVIOUS
  <1>2. PICK q : q = EntryRequest("ChannelBind", p, r.nonce, 0)
    OBVIOUS
  <1>3. /\ r \in toClient /\ r.type = "ChannelBind" /\ r.tid \in DOMAIN requests
        /\ toClient' \subseteq toClient
        /\ requests[r.tid].type = "ChannelBind" /\ UNCHANGED <<alloc, unanswered>>
    BY <1>1, BindCases
  <1>4. CASE r.code = 0 /\ requests[r.tid].entry # 0
    BY <1>4, BindBound
  <1>5. CASE r.code = 438 /\ requests[r.tid].entry # 0
    <2>0. /\ p \in DOMAIN entries /\ UNCHANGED entries
          /\ Sends(EntryRequest("ChannelBind", p, r.nonce, 0), {r.tid})
      <3>1. AsksAgain(r, p)
        BY <1>1, <1>5, BindCases
      <3> QED
        BY <3>1 DEF AsksAgain
    <2>1. p \in DOMAIN entries /\ UNCHANGED entries /\ Sends(q, {r.tid})
      BY <1>2, <2>0
    <2>2. PICK t : Adds(t, q, {r.tid})
      BY <2>1 DEF Sends
    <2>3. Binding(r.tid) /\ requests[r.tid].chan = entries[p].chan
      BY <1>1, <1>3, <1>5, BindingEntry DEF Binding
    <2>4. entries[p].chan # 0
      BY <2>1, TypeNow DEF EntriesOK, EntryOK
    <2>5. /\ q.type = "ChannelBind" /\ q.entry # 0 /\ q.peer = p /\ q.chan = entries[p].chan
          /\ q.wait = 0
      BY <1>2, <2>4 DEF EntryRequest, Request
    <2>6. \A u : Binding(u) /\ requests[u].chan = entries[p].chan => u \in {r.tid}
      BY <2>3, BindNow DEF OneBinding, Binding
    <2>7. entries[p].state # "unbound"
      BY <1>1, <1>3, <2>3, BindNow DEF OneBinding
    <2>8. /\ OneBinding' /\ Steady /\ Binding(t)'
          /\ \A u : Binding(u)' => u = t \/ (Binding(u) /\ Kept(u) /\ requests[u].peer # p)
          /\ \A u : Binding(u) /\ u \notin {r.tid} => Binding(u)' /\ Kept(u)
      BY <2>1, <2>2, <2>5, <2>6, <2>7, BindNew
    <2>9. BindsNone
      BY <2>1 DEF BindsNone
    <2>10. \A u \in DOMAIN requests' : Kept(u) /\ Binding(u)' => Binding(u)
      BY <2>2, <2>8, Used DEF Kept, Adds
    <2>11. RebindsGoOn
      <3> SUFFICES ASSUME NEW o \in DOMAIN entries, NEW u, Binding(u), requests[u].chan = entries[o].chan
                   PROVE  \E v \in DOMAIN requests' :
                             /\ Binding(v)' /\ requests'[v].chan = entries[o].chan
                             /\ requests'[v].wait \in {0, requests[u].wait}
        BY DEF RebindsGoOn
      <3>1. CASE u = r.tid
        <4>1. t \in DOMAIN requests' /\ requests'[t] = q
          BY <2>2 DEF Adds
        <4> QED
          BY <2>3, <2>5, <2>8, <3>1, <4>1
      <3>2. CASE u # r.tid
        BY <2>8, <3>2 DEF Binding, Kept
      <3> QED
        BY <3>1, <3>2
    <2> QED
      BY <1>3, <2>8, <2>9, <2>10, <2>11, BindFrame
  <1>6. CASE requests[r.tid].entry = 0 \/ r.code \notin {0, 438}
    <2>1. Drops(r.tid) /\ UNCHANGED entries
      <3>1. requests[r.tid].entry = 0 \/ r.code \notin {0, 438} =>
               Drops(r.tid) /\ UNCHANGED entries
        BY <1>1, BindCases, Zenon
      <3> QED
        BY <1>6, <3>1
    <2>2. /\ Steady /\ \A u \in DOMAIN requests' : Kept(u) /\ u # r.tid
          /\ \A u \in DOMAIN requests \ {r.tid} :
                u \in DOMAIN requests' /\ Kept(u) /\ requests'[u] = requests[u]
      BY <2>1, DropsSteady DEF Drops
    <2>3. /\ \A u \in DOMAIN requests' : Binding(u)' => Binding(u) /\ Kept(u)
          /\ \A u : Binding(u) /\ u # r.tid => Binding(u)' /\ Kept(u)
      BY <2>2 DEF Binding, Kept
    <2>4. OneBinding'
      BY <2>1, <2>3, OneBindingFrame
    <2>5. BindsNone
      BY <2>1 DEF BindsNone
    <2>6. ASSUME ~unanswered' PROVE RebindsGoOn
      <3> SUFFICES ASSUME NEW o \in DOMAIN entries, entries[o].state = "bound",
                          NEW u, Binding(u), requests[u].chan = entries[o].chan
                   PROVE  \E v \in DOMAIN requests' :
                             /\ Binding(v)' /\ requests'[v].chan = entries[o].chan
                             /\ requests'[v].wait \in {0, requests[u].wait}
        BY DEF RebindsGoOn
      <3>1. /\ requests[u].peer \in DOMAIN entries
            /\ entries[requests[u].peer].chan = entries[o].chan
        BY BindingEntry
      <3>2. requests[u].peer = o
        BY <3>1, SameEntry
      <3>3. GoodAnswers
        BY <1>3, <2>6, BindNow
      <3>4. u # r.tid
        BY <1>3, <1>6, <3>2, <3>3 DEF GoodAnswers, Binding
      <3> QED
        BY <2>3, <3>4 DEF Binding, Kept
    <2> QED
      BY <1>3, <2>2, <2>3, <2>4, <2>5, <2>6, BindFrame
  <1> QED
    BY <1>4, <1>5, <1>6

\* The server's channels and permissions last as long as before, or longer.
Grows ==
    /\ alloc \in Allocation /\ alloc' \in Allocation
    /\ \A c \in DOMAIN alloc.channels :
          /\ c \in DOMAIN alloc'.channels /\ alloc'.channels[c].peer = alloc.channels[c].peer
          /\ alloc'.channels[c].left \in {alloc.channels[c].left, ChannelTimeout}
    /\ \A ip \in DOMAIN alloc.perms :
          /\ ip \in DOMAIN alloc'.perms
          /\ alloc'.perms[ip] \in {alloc.perms[ip], PermissionTimeout}

\* Channels that are fresh stay so, and channels are still bound again in time.
ChannelsLast ==
    /\ OneChannel'
    /\ \A c, p : FreshChannel(c, p) => FreshChannel(c, p)'
    /\ \A p \in DOMAIN entries : Rebinds(p) => Rebinds(p)'

\* The code with which the server answers m, as to channels.
BindsRight(m, code) ==
    /\ m.type = "ChannelBind" /\ code = 0 => FreshChannel(m.chan, m.peer)'
    /\ (/\ ~unanswered /\ m.type = "ChannelBind" /\ Binding(m.tid)
        /\ entries[requests[m.tid].peer].state = "bound")
       => code \in {0, 438}

LEMMA GrowsKeeps ==
    ASSUME TypeInv, Grows, UNCHANGED client, OneChannel'
    PROVE  ChannelsLast
  <1>0. alloc' # None /\ UNCHANGED <<requests, entries>>
    BY NoneAssumption DEF Grows, client
  <1>1. ASSUME NEW c, NEW p, FreshChannel(c, p) PROVE FreshChannel(c, p)'
    <2>1. /\ c \in DOMAIN alloc.channels
          /\ alloc.channels[c].peer = p /\ alloc.channels[c].left = ChannelTimeout
          /\ IpOf[p] \in DOMAIN alloc.perms /\ alloc.perms[IpOf[p]] = PermissionTimeout
      BY <1>1 DEF FreshChannel
    <2>2. /\ c \in DOMAIN alloc'.channels
          /\ alloc'.channels[c].peer = p /\ alloc'.channels[c].left = ChannelTimeout
          /\ IpOf[p] \in DOMAIN alloc'.perms /\ alloc'.perms[IpOf[p]] = PermissionTimeout
      BY <2>1 DEF Grows
    <2> QED
      BY <1>0, <2>2 DEF FreshChannel
  <1>2. ASSUME NEW p \in DOMAIN entries, Rebinds(p) PROVE Rebinds(p)'
    <2>1. PICK c : c = entries[p].chan
      OBVIOUS
    <2>2. /\ c \in DOMAIN alloc.channels /\ alloc.channels[c].peer = p
          /\ IpOf[p] \in DOMAIN alloc.perms
      BY <1>2, <2>1 DEF Rebinds
    <2>3. PICK t \in DOMAIN requests : /\ Binding(t) /\ requests[t].chan = c
                                       /\ requests[t].wait < alloc.channels[c].left
                                       /\ requests[t].wait < alloc.perms[IpOf[p]]
      BY <1>2, <2>1 DEF Rebinds
    <2>4. /\ requests[t].wait \in Nat
          /\ alloc.channels[c].left \in 0..ChannelTimeout /\ alloc.perms[IpOf[p]] \in 0..PermissionTimeout
      BY <2>2, <2>3, BindingEntry, AllocationParts, ChannelType, PermissionType DEF Grows
    <2>5. /\ c \in DOMAIN alloc'.channels /\ alloc'.channels[c].peer = p
          /\ alloc'.channels[c].left \in {alloc.channels[c].left, ChannelTimeout}
          /\ IpOf[p] \in DOMAIN alloc'.perms
          /\ alloc'.perms[IpOf[p]] \in {alloc.perms[IpOf[p]], PermissionTimeout}
      BY <2>2 DEF Grows
    <2>6. requests[t].wait < alloc'.channels[c].left /\ requests[t].wait < alloc'.perms[IpOf[p]]
      BY <2>3, <2>4, <2>5, Delays
    <2>7. Binding(t)'
      BY <1>0, <2>3 DEF Binding
    <2> QED
      BY <1>0, <2>1, <2>3, <2>5, <2>6, <2>7 DEF Rebinds
  <1> QED
    BY <1>1, <1>2 DEF ChannelsLast

LEMMA SameChannels ==
    ASSUME UNCHANGED alloc, UNCHANGED client, OneChannel
    PROVE  ChannelsLast
  <1>1. UNCHANGED <<requests, entries>>
    BY DEF client
  <1>2. /\ \A c, p : FreshChannel(c, p) => FreshChannel(c, p)'
        /\ \A p \in DOMAIN entries : Rebinds(p) => Rebinds(p)'
        /\ OneChannel => OneChannel'
    BY <1>1 DEF FreshChannel, Rebinds, Binding, OneChannel
  <1> QED
    BY <1>2 DEF ChannelsLast

\* The client waits, and the server's channels are kept.
LEMMA BindWaits ==
    ASSUME TypeInv, BindInv, UNCHANGED client, UNCHANGED history, OneChannel',
           ~unanswered => FreshAnswers' /\ GoodAnswers',
           ~unanswered => \A p \in DOMAIN entries : Rebinds(p) => Rebinds(p)'
    PROVE  BindInv'
  <1>1. UNCHANGED <<requests, entries, unanswered>>
    BY DEF client, history
  <1>2. OneBinding'
    BY <1>1, BindNow DEF OneBinding, Binding
  <1>3. ~unanswered => AllRebind'
    BY <1>1, BindNow DEF AllRebind
  <1> QED
    BY <1>1, <1>2, <1>3 DEF BindInv

\* The server answers.
LEMMA BindReplies ==
    ASSUME TypeInv, AuthInv, BindInv, NEW m, NEW code, Replies(m, code), ChannelsLast,
           BindsRight(m, code)
    PROVE  BindInv'
  <1>0. /\ OneChannel' /\ \A c, p : FreshChannel(c, p) => FreshChannel(c, p)'
        /\ \A p \in DOMAIN entries : Rebinds(p) => Rebinds(p)'
    BY DEF ChannelsLast
  <1>1. /\ m \in toServer /\ UNCHANGED client /\ UNCHANGED history
    BY DEF Replies
  <1>2. UNCHANGED <<requests, entries>>
    BY <1>1 DEF client
  <1>3. PICK a : a = Answer(m, code)
    OBVIOUS
  <1>4. /\ toClient' \in {toClient, toClient \cup {a}}
        /\ a.type = m.type /\ a.code = code /\ a.tid = m.tid
    BY <1>3, AnswerParts DEF Replies
  <1>5. MessageAuth(m)
    BY <1>1 DEF AuthInv
  <1>6. ASSUME ~unanswered PROVE FreshAnswers'
    <2> SUFFICES ASSUME NEW r \in toClient', r.type = "ChannelBind", r.tid \in DOMAIN requests, r.code = 0
                 PROVE  FreshChannel(requests[r.tid].chan, requests[r.tid].peer)'
      BY <1>2 DEF FreshAnswers
    <2>1. CASE r \in toClient
      <3>1. FreshChannel(requests[r.tid].chan, requests[r.tid].peer)
        BY <1>6, <2>1, BindNow DEF FreshAnswers
      <3>2. PICK c, p : c = requests[r.tid].chan /\ p = requests[r.tid].peer
        OBVIOUS
      <3>3. FreshChannel(c, p)'
        BY <1>0, <3>1, <3>2
      <3>4. c = requests'[r.tid].chan /\ p = requests'[r.tid].peer
        BY <1>2, <3>2
      <3> QED
        BY <3>3, <3>4 DEF FreshChannel
    <2>2. CASE r = a
      <3>1. FreshChannel(m.chan, m.peer)'
        BY <1>4, <2>2 DEF BindsRight
      <3>2. requests'[r.tid].chan = m.chan /\ requests'[r.tid].peer = m.peer
        BY <1>2, <1>4, <1>5, <2>2 DEF MessageAuth
      <3> QED
        BY <3>1, <3>2 DEF FreshChannel
    <2> QED
      BY <1>4, <2>1, <2>2
  <1>7. ASSUME ~unanswered PROVE GoodAnswers'
    <2> SUFFICES ASSUME NEW r \in toClient', r.type = "ChannelBind", Binding(r.tid),
                        entries[requests[r.tid].peer].state = "bound"
                 PROVE  r.code \in {0, 438}
      BY <1>2 DEF GoodAnswers, Binding
    <2>1. CASE r \in toClient
      BY <1>7, <2>1, BindNow DEF GoodAnswers
    <2>2. CASE r = a
      BY <1>4, <1>7, <2>2 DEF BindsRight
    <2> QED
      BY <1>4, <2>1, <2>2
  <1> QED
    BY <1>0, <1>1, <1>6, <1>7, BindWaits

\* A channel that is bound can be bound again.
LEMMA BoundIsBindable ==
    ASSUME TypeInv, AuthInv, BindInv, ~unanswered, NEW m \in toServer, Binding(m.tid),
           entries[requests[m.tid].peer].state = "bound"
    PROVE  Bindable(m)
  <1>1. MessageAuth(m) /\ m.tid \in DOMAIN requests
    BY DEF AuthInv, Binding
  <1>2. requests[m.tid].peer = m.peer /\ requests[m.tid].chan = m.chan
    BY <1>1 DEF MessageAuth
  <1>3. m.peer \in DOMAIN entries /\ entries[m.peer].chan = m.chan
    BY <1>2, BindingEntry
  <1>4. Rebinds(m.peer)
    BY <1>2, <1>3, BindNow DEF AllRebind
  <1>5. alloc # None /\ m.chan \in DOMAIN alloc.channels /\ alloc.channels[m.chan].peer = m.peer
    BY <1>3, <1>4 DEF Rebinds
  <1>6. /\ DOMAIN alloc.channels \subseteq 1..MaxChannel
        /\ \A c, d \in DOMAIN alloc.channels :
              alloc.channels[c].peer = alloc.channels[d].peer => c = d
    BY <1>5, BindNow DEF OneChannel
  <1>7. m.chan <= MaxChannel
    BY <1>5, <1>6, TurnAssumption
  <1>8. ChannelOf(m.peer) = DOMAIN alloc.channels \cap {m.chan}
    BY <1>5, <1>6 DEF ChannelOf
  <1> QED
    BY <1>7, <1>8 DEF Bindable

\* A channel is bound, or bound again.
LEMMA BindGrants ==
    ASSUME TypeInv, AuthInv, BindInv, NEW m, alloc # None, m.peer \in Peer, m.chan \in 1..MaxEntries,
           Bindable(m), Replies(m, 0),
           Becomes(alloc.timers, AddPermission(alloc.perms, m.peer),
                   Put(alloc.channels, m.chan, [peer |-> m.peer, left |-> ChannelTimeout]))
    PROVE  BindInv'
  <1>1. /\ m.chan <= MaxChannel
        /\ \A c \in DOMAIN alloc.channels : alloc.channels[c].peer = m.peer <=> c = m.chan
    BY DEF Bindable, ChannelOf
  <1>2. PICK e : e = [peer |-> m.peer, left |-> ChannelTimeout]
    OBVIOUS
  <1>3. e.peer = m.peer /\ e.left = ChannelTimeout
    BY <1>2
  <1>4. /\ DOMAIN alloc'.channels = DOMAIN alloc.channels \cup {m.chan}
        /\ alloc'.channels[m.chan] = e
        /\ \A c \in DOMAIN alloc.channels : c # m.chan => alloc'.channels[c] = alloc.channels[c]
    BY <1>2 DEF Becomes, Put
  <1>5. /\ DOMAIN alloc'.perms = DOMAIN alloc.perms \cup {IpOf[m.peer]}
        /\ alloc'.perms[IpOf[m.peer]] = PermissionTimeout
        /\ \A ip \in DOMAIN alloc.perms : ip # IpOf[m.peer] => alloc'.perms[ip] = alloc.perms[ip]
    BY DEF Becomes, AddPermission, Put
  <1>6. alloc \in Allocation /\ alloc' \in Allocation
    BY DEF Becomes
  <1>7. Grows
    BY <1>1, <1>3, <1>4, <1>5, <1>6 DEF Grows
  <1>8. OneChannel'
    <2>1. /\ DOMAIN alloc.channels \subseteq 1..MaxChannel
          /\ \A c, d \in DOMAIN alloc.channels :
                alloc.channels[c].peer = alloc.channels[d].peer => c = d
      BY BindNow DEF OneChannel
    <2>2. DOMAIN alloc'.channels \subseteq 1..MaxChannel
      BY <1>1, <1>4, <2>1, TurnAssumption
    <2>3. ASSUME NEW c \in DOMAIN alloc'.channels, NEW d \in DOMAIN alloc'.channels,
                 alloc'.channels[c].peer = alloc'.channels[d].peer
          PROVE  c = d
      BY <1>1, <1>3, <1>4, <2>1, <2>3
    <2> QED
      BY <2>2, <2>3 DEF OneChannel
  <1>9. FreshChannel(m.chan, m.peer)'
    BY <1>3, <1>4, <1>5, <1>6, NoneAssumption DEF FreshChannel
  <1>10. UNCHANGED client
    BY DEF Replies
  <1>11. ChannelsLast
    BY <1>7, <1>8, <1>10, GrowsKeeps
  <1>12. BindsRight(m, 0)
    BY <1>9 DEF BindsRight
  <1> QED
    BY <1>11, <1>12, BindReplies

LEMMA BindHandled ==
    ASSUME TypeInv, AuthInv, KeepInv, BindInv, NEW m, Handled(m)
    PROVE  BindInv'
  <1>0. /\ m \in toServer /\ MessageAuth(m) /\ PortAuth /\ UNCHANGED client
        /\ OneChannel
    BY HandledReplies, BindNow DEF Replies, AuthInv
  <1>1. CASE Refused(m)
    <2>1. UNCHANGED alloc
      BY <1>1, RefusedEffect
    <2>2. CASE Replies(m, 438)
      <3>1. BindsRight(m, 438)
        BY DEF BindsRight
      <3> QED
        BY <1>0, <2>1, <2>2, <3>1, SameChannels, BindReplies
    <2>3. CASE Replies(m, 401) /\ (m.nonce = None \/ (m.nonce # 0 /\ ~validUser))
      <3>1. m.type # "ChannelBind"
        BY <1>0, <2>3 DEF MessageAuth, PortAuth
      <3>2. BindsRight(m, 401)
        BY <3>1 DEF BindsRight
      <3> QED
        BY <1>0, <2>1, <2>3, <3>2, SameChannels, BindReplies
    <2> QED
      BY <1>1, <2>2, <2>3, RefusedEffect
  <1>2. CASE NewAllocation(m)
    <2>1. m.type = "Allocate" /\ alloc = None
      BY <1>2, NewEffect
    <2>2. /\ \A c, p : ~FreshChannel(c, p)
          /\ \A p : ~Rebinds(p)
          /\ BindsRight(m, 0) /\ BindsRight(m, 500)
      BY <2>1 DEF FreshChannel, Rebinds, BindsRight
    <2>3. CASE Replies(m, 0) /\ DOMAIN alloc'.channels = {}
      <3>1. OneChannel'
        BY <2>3 DEF OneChannel
      <3>2. ChannelsLast
        BY <2>2, <3>1 DEF ChannelsLast
      <3> QED
        BY <2>2, <2>3, <3>2, BindReplies
    <2>4. CASE Replies(m, 500) /\ UNCHANGED alloc
      BY <1>0, <2>2, <2>4, SameChannels, BindReplies
    <2> QED
      BY <1>2, <2>3, <2>4, NewEffect
  <1>3. CASE AllocateAgain(m) \/ HandleRefreshRequest(m) \/ HandleCreatePermissionRequest(m)
    <2>1. /\ m.type # "ChannelBind" /\ Replies(m, 0) /\ alloc # None
          /\ alloc \in Allocation /\ alloc' \in Allocation /\ alloc'.channels = alloc.channels
      BY <1>3, AgainEffect, RefreshedEffect, PermittedEffect DEF Becomes
    <2>2. alloc'.perms = alloc.perms \/ alloc'.perms = AddPermission(alloc.perms, m.peer)
      BY <1>3, AgainEffect, RefreshedEffect, PermittedEffect DEF Becomes
    <2>3. ASSUME NEW ip \in DOMAIN alloc.perms
          PROVE  /\ ip \in DOMAIN alloc'.perms
                 /\ alloc'.perms[ip] \in {alloc.perms[ip], PermissionTimeout}
      BY <2>2 DEF AddPermission, Put
    <2>4. Grows
      BY <2>1, <2>3 DEF Grows
    <2>5. OneChannel'
      BY <1>0, <2>1 DEF OneChannel
    <2>6. ChannelsLast
      BY <1>0, <2>4, <2>5, GrowsKeeps
    <2>7. BindsRight(m, 0)
      BY <2>1 DEF BindsRight
    <2> QED
      BY <2>1, <2>6, <2>7, BindReplies
  <1>4. CASE Mismatch(m)
    <2>1. /\ IF m.type = "Allocate" THEN alloc # None ELSE alloc = None
          /\ Replies(m, 437) /\ UNCHANGED alloc
      BY <1>4, MismatchEffect
    <2>2. m.type = "ChannelBind" => unanswered
      BY <1>0, <2>1, Unanswered
    <2>3. BindsRight(m, 437)
      BY <2>2 DEF BindsRight
    <2> QED
      BY <1>0, <2>1, <2>3, SameChannels, BindReplies
  <1>5. CASE HandleChannelBindRequest(m)
    <2>1. CASE /\ Bindable(m) /\ Replies(m, 0)
               /\ Becomes(alloc.timers, AddPermission(alloc.perms, m.peer),
                          Put(alloc.channels, m.chan, [peer |-> m.peer, left |-> ChannelTimeout]))
      <3>1. alloc # None /\ m.peer \in Peer /\ m.chan \in 1..MaxEntries
        BY <1>5, BoundEffect
      <3> QED
        BY <2>1, <3>1, BindGrants
    <2>2. CASE ~Bindable(m) /\ Replies(m, 400) /\ UNCHANGED alloc
      <3>1. ~(/\ ~unanswered /\ Binding(m.tid)
              /\ entries[requests[m.tid].peer].state = "bound")
        BY <1>0, <2>2, BoundIsBindable
      <3>2. BindsRight(m, 400)
        BY <3>1 DEF BindsRight
      <3> QED
        BY <1>0, <2>2, <3>2, SameChannels, BindReplies
    <2> QED
      BY <1>5, <2>1, <2>2, BoundEffect
  <1> QED
    BY <1>1, <1>2, <1>3, <1>4, <1>5 DEF Handled

\* A port that is not connected has no channels.
LEMMA NoChannels ==
    ASSUME AuthInv, ~connected
    PROVE  /\ DOMAIN entries = {}
           /\ \A r \in toClient : r.type # "ChannelBind"
  BY DEF AuthInv, PortAuth, ResponseAuth, Types

\* No new answer: those under way stay right.
LEMMA BindSilent ==
    ASSUME TypeInv, BindInv, UNCHANGED client, UNCHANGED history, ChannelsLast,
           \A r \in toClient' : r.type \in Types => r \in toClient
    PROVE  BindInv'
  <1>1. /\ OneChannel' /\ \A c, p : FreshChannel(c, p) => FreshChannel(c, p)'
        /\ \A p \in DOMAIN entries : Rebinds(p) => Rebinds(p)'
    BY DEF ChannelsLast
  <1>2. UNCHANGED <<requests, entries>>
    BY DEF client
  <1>3. \A r \in toClient' : r.type = "ChannelBind" => r \in toClient
    BY DEF Types
  <1>4. ASSUME ~unanswered PROVE FreshAnswers'
    <2> SUFFICES ASSUME NEW r \in toClient', r.type = "ChannelBind", r.tid \in DOMAIN requests, r.code = 0
                 PROVE  FreshChannel(requests[r.tid].chan, requests[r.tid].peer)'
      BY <1>2 DEF FreshAnswers
    <2>1. FreshChannel(requests[r.tid].chan, requests[r.tid].peer)
      BY <1>3, <1>4, BindNow DEF FreshAnswers
    <2>2. PICK c, p : c = requests[r.tid].chan /\ p = requests[r.tid].peer
      OBVIOUS
    <2>3. FreshChannel(c, p)'
      BY <1>1, <2>1, <2>2
    <2>4. c = requests'[r.tid].chan /\ p = requests'[r.tid].peer
      BY <1>2, <2>2
    <2> QED
      BY <2>3, <2>4 DEF FreshChannel
  <1>5. ASSUME ~unanswered PROVE GoodAnswers'
    <2> SUFFICES ASSUME NEW r \in toClient', r.type = "ChannelBind", Binding(r.tid),
                        entries[requests[r.tid].peer].state = "bound"
                 PROVE  r.code \in {0, 438}
      BY <1>2 DEF GoodAnswers, Binding
    <2> QED
      BY <1>3, <1>5, BindNow DEF GoodAnswers
  <1> QED
    BY <1>1, <1>4, <1>5, BindWaits

LEMMA BindServer ==
    ASSUME TypeInv, AuthInv, KeepInv, BindInv, Expires \/ \E p \in Peer : OnExternalPacket(p)
    PROVE  BindInv'
  <1>0. OneChannel
    BY BindNow
  <1>1. CASE AllocationTimeout
    <2>1. /\ alloc # None /\ 0 \in alloc.timers /\ alloc' = None
          /\ UNCHANGED client /\ UNCHANGED history /\ UNCHANGED toClient
      BY <1>1, ExpiresEffect
    <2>2. OneChannel'
      BY <2>1 DEF OneChannel
    <2>3. ASSUME ~unanswered PROVE ~connected
      <3> SUFFICES ASSUME connected PROVE FALSE
        OBVIOUS
      <3>1. PICK t : InTime(t)
        BY <2>3, KeepNow
      <3>2. requests[t].wait < 0
        BY <2>1, <3>1 DEF InTime
      <3>3. requests[t].wait \in Nat
        BY <3>1, TypeNow, Delays DEF InTime, RequestsOK, RequestOK, Requests
      <3> QED
        BY <3>2, <3>3
    <2>4. ASSUME ~unanswered
          PROVE  /\ FreshAnswers' /\ GoodAnswers'
                 /\ \A p \in DOMAIN entries : Rebinds(p) => Rebinds(p)'
      <3>1. DOMAIN entries = {} /\ \A r \in toClient' : r.type # "ChannelBind"
        BY <2>1, <2>3, <2>4, NoChannels
      <3> QED
        BY <3>1 DEF FreshAnswers, GoodAnswers
    <2> QED
      BY <2>1, <2>2, <2>4, BindWaits
  <1>2. ASSUME NEW ip, PermissionExpires(ip) PROVE BindInv'
    <2>1. /\ alloc # None /\ ip \in DOMAIN alloc.perms /\ alloc.perms[ip] = 0
          /\ Becomes(alloc.timers, Delete(alloc.perms, ip), alloc.channels)
          /\ UNCHANGED client /\ UNCHANGED history /\ UNCHANGED toClient
      BY <1>2, ExpiresEffect
    <2>2. /\ alloc \in Allocation /\ alloc' \in Allocation /\ alloc'.channels = alloc.channels
          /\ DOMAIN alloc'.perms = DOMAIN alloc.perms \ {ip}
          /\ \A i \in DOMAIN alloc.perms \ {ip} : alloc'.perms[i] = alloc.perms[i]
      BY <2>1 DEF Becomes, Delete, Restrict
    <2>3. alloc' # None /\ UNCHANGED <<requests, entries>>
      BY <2>1, <2>2, NoneAssumption DEF client
    <2>4. OneChannel'
      BY <1>0, <2>1, <2>2 DEF OneChannel
    <2>5. ASSUME NEW c, NEW p, FreshChannel(c, p) PROVE FreshChannel(c, p)'
      <3>1. IpOf[p] # ip
        BY <2>1, <2>5, Delays DEF FreshChannel
      <3> QED
        BY <2>2, <2>3, <2>5, <3>1 DEF FreshChannel
    <2>6. ASSUME NEW p \in DOMAIN entries, Rebinds(p) PROVE Rebinds(p)'
      <3>1. PICK c : c = entries[p].chan
        OBVIOUS
      <3>2. PICK t \in DOMAIN requests : /\ Binding(t) /\ requests[t].chan = c
                                         /\ requests[t].wait < alloc.channels[c].left
                                         /\ requests[t].wait < alloc.perms[IpOf[p]]
        BY <2>6, <3>1 DEF Rebinds
      <3>3. requests[t].wait \in Nat
        BY <3>2, BindingEntry
      <3>4. IpOf[p] # ip
        BY <2>1, <3>2, <3>3
      <3>5. /\ c \in DOMAIN alloc.channels /\ alloc.channels[c].peer = p
            /\ IpOf[p] \in DOMAIN alloc.perms
        BY <2>6, <3>1 DEF Rebinds
      <3>6. Binding(t)'
        BY <2>3, <3>2 DEF Binding
      <3> QED
        BY <2>2, <2>3, <3>1, <3>2, <3>4, <3>5, <3>6 DEF Rebinds
    <2>7. ChannelsLast
      BY <2>4, <2>5, <2>6 DEF ChannelsLast
    <2> QED
      BY <2>1, <2>7, BindSilent
  <1>3. ASSUME NEW d, ChannelExpires(d) PROVE BindInv'
    <2>1. /\ alloc # None /\ d \in DOMAIN alloc.channels /\ alloc.channels[d].left = 0
          /\ Becomes(alloc.timers, alloc.perms, Delete(alloc.channels, d))
          /\ UNCHANGED client /\ UNCHANGED history /\ UNCHANGED toClient
      BY <1>3, ExpiresEffect
    <2>2. /\ alloc \in Allocation /\ alloc' \in Allocation /\ alloc'.perms = alloc.perms
          /\ DOMAIN alloc'.channels = DOMAIN alloc.channels \ {d}
          /\ \A c \in DOMAIN alloc.channels \ {d} : alloc'.channels[c] = alloc.channels[c]
      BY <2>1 DEF Becomes, Delete, Restrict
    <2>3. alloc' # None /\ UNCHANGED <<requests, entries>>
      BY <2>1, <2>2, NoneAssumption DEF client
    <2>4. OneChannel'
      <3>1. /\ DOMAIN alloc.channels \subseteq 1..MaxChannel
            /\ \A x, y \in DOMAIN alloc.channels :
                  alloc.channels[x].peer = alloc.channels[y].peer => x = y
        BY <1>0, <2>1 DEF OneChannel
      <3> QED
        BY <2>2, <3>1 DEF OneChannel
    <2>5. ASSUME NEW c, NEW p, FreshChannel(c, p) PROVE FreshChannel(c, p)'
      <3>1. ChannelTimeout # 0
        BY TurnAssumption
      <3>2. c # d
        BY <2>1, <2>5, <3>1 DEF FreshChannel
      <3> QED
        BY <2>2, <2>3, <2>5, <3>2 DEF FreshChannel
    <2>6. ASSUME NEW p \in DOMAIN entries, Rebinds(p) PROVE Rebinds(p)'
      <3>1. PICK c : c = entries[p].chan
        OBVIOUS
      <3>2. PICK t \in DOMAIN requests : /\ Binding(t) /\ requests[t].chan = c
                                         /\ requests[t].wait < alloc.channels[c].left
                                         /\ requests[t].wait < alloc.perms[IpOf[p]]
        BY <2>6, <3>1 DEF Rebinds
      <3>3. requests[t].wait \in Nat
        BY <3>2, BindingEntry
      <3>4. c # d
        BY <2>1, <3>2, <3>3
      <3>5. /\ c \in DOMAIN alloc.channels /\ alloc.channels[c].peer = p
            /\ IpOf[p] \in DOMAIN alloc.perms
        BY <2>6, <3>1 DEF Rebinds
      <3>6. Binding(t)'
        BY <2>3, <3>2 DEF Binding
      <3> QED
        BY <2>2, <2>3, <3>1, <3>2, <3>4, <3>5, <3>6 DEF Rebinds
    <2>7. ChannelsLast
      BY <2>4, <2>5, <2>6 DEF ChannelsLast
    <2> QED
      BY <2>1, <2>7, BindSilent
  <1>4. ASSUME NEW p \in Peer, OnExternalPacket(p) PROVE BindInv'
    <2>1. UNCHANGED client /\ UNCHANGED history /\ UNCHANGED alloc
      BY <1>4, ExternalEffect DEF server
    <2>2. \A r \in toClient' : r.type \in Types => r \in toClient
      BY <1>4, ExternalEffect DEF DataOK, Types
    <2>3. ChannelsLast
      BY <1>0, <2>1, SameChannels
    <2> QED
      BY <2>1, <2>2, <2>3, BindSilent
  <1> QED
    BY <1>1, <1>2, <1>3, <1>4 DEF Expires

LEMMA BindTick ==
    ASSUME TypeInv, BindInv, Tick
    PROVE  BindInv'
  <1>1. /\ toClient' = {} /\ UNCHANGED <<entries, unanswered>> /\ (alloc = None => alloc' = None)
    BY TickRest
  <1>2. /\ DOMAIN requests' = DOMAIN requests
        /\ \A u \in DOMAIN requests :
              /\ requests'[u].type = requests[u].type /\ requests'[u].peer = requests[u].peer
              /\ requests'[u].chan = requests[u].chan /\ requests'[u].entry = requests[u].entry
              /\ requests'[u].wait = requests[u].wait - 1
    BY TickRequests
  <1>3. \A u : Binding(u)' <=> Binding(u)
    BY <1>2 DEF Binding
  <1>4. OneBinding'
    BY <1>1, <1>2, <1>3, BindNow DEF OneBinding
  <1>5. OneChannel'
    <2> SUFFICES ASSUME alloc' # None
                 PROVE  /\ DOMAIN alloc'.channels \subseteq 1..MaxChannel
                        /\ \A c, d \in DOMAIN alloc'.channels :
                              alloc'.channels[c].peer = alloc'.channels[d].peer => c = d
      BY DEF OneChannel
    <2>1. /\ alloc # None /\ DOMAIN alloc'.channels = DOMAIN alloc.channels
          /\ \A c \in DOMAIN alloc.channels : alloc'.channels[c].peer = alloc.channels[c].peer
      BY <1>1, TickAllocation
    <2>2. /\ DOMAIN alloc.channels \subseteq 1..MaxChannel
          /\ \A c, d \in DOMAIN alloc.channels :
                alloc.channels[c].peer = alloc.channels[d].peer => c = d
      BY <2>1, BindNow DEF OneChannel
    <2> QED
      BY <2>1, <2>2
  <1>6. ASSUME NEW p \in DOMAIN entries, Rebinds(p) PROVE Rebinds(p)'
    <2>1. PICK c : c = entries[p].chan
      OBVIOUS
    <2>2. /\ alloc # None /\ c \in DOMAIN alloc.channels /\ alloc.channels[c].peer = p
          /\ IpOf[p] \in DOMAIN alloc.perms
      BY <1>6, <2>1 DEF Rebinds
    <2>3. PICK t \in DOMAIN requests : /\ Binding(t) /\ requests[t].chan = c
                                       /\ requests[t].wait < alloc.channels[c].left
                                       /\ requests[t].wait < alloc.perms[IpOf[p]]
      BY <1>6, <2>1 DEF Rebinds
    <2>4. /\ alloc \in Allocation /\ alloc' \in Allocation
          /\ IpOf[p] \in DOMAIN alloc'.perms /\ alloc'.perms[IpOf[p]] = alloc.perms[IpOf[p]] - 1
          /\ c \in DOMAIN alloc'.channels /\ alloc'.channels[c].peer = p
          /\ alloc'.channels[c].left = alloc.channels[c].left - 1
      BY <2>2, TickAllocation
    <2>5. /\ requests[t].wait \in Nat
          /\ alloc.channels[c].left \in 0..ChannelTimeout /\ alloc.perms[IpOf[p]] \in 0..PermissionTimeout
      BY <2>2, <2>3, <2>4, BindingEntry, AllocationParts, ChannelType, PermissionType
    <2>6. requests'[t].wait < alloc'.channels[c].left /\ requests'[t].wait < alloc'.perms[IpOf[p]]
      BY <1>2, <2>3, <2>4, <2>5, Delays
    <2>7. t \in DOMAIN requests' /\ Binding(t)' /\ requests'[t].chan = c
      BY <1>2, <1>3, <2>3
    <2>8. alloc' # None /\ entries'[p].chan = c
      BY <1>1, <2>1, <2>4, NoneAssumption
    <2> QED
      BY <2>4, <2>6, <2>7, <2>8 DEF Rebinds
  <1>7. ~unanswered => AllRebind'
    BY <1>1, <1>6, BindNow DEF AllRebind
  <1>8. FreshAnswers' /\ GoodAnswers'
    BY <1>1 DEF FreshAnswers, GoodAnswers
  <1> QED
    BY <1>1, <1>4, <1>5, <1>7, <1>8 DEF BindInv

LEMMA BindStep ==
    TypeInv /\ ChannelInv /\ AuthInv /\ KeepInv /\ BindInv /\ [Next]_vars => BindInv'
  <1> SUFFICES ASSUME TypeInv, ChannelInv, AuthInv, KeepInv, BindInv, [Next]_vars PROVE BindInv'
    OBVIOUS
  <1>0. TypeInv'
    BY TypeStep
  <1>1. CASE \E r \in toClient : BindAnswered(r)
    BY <1>0, <1>1, BindAnswer
  <1>2. CASE \/ PrepareAddress \/ PrepareAddressFails \/ SignalPortError \/ UNCHANGED vars
             \/ \E t \in DOMAIN requests : OnMessage(t) \/ OnTimeout(t)
             \/ \E r \in toClient : \/ AllocateAnswered(r) \/ RefreshAnswered(r)
                                    \/ PermissionAnswered(r) \/ StrayAnswer(r) \/ OnReadData(r)
    BY <1>0, <1>2, BindClient
  <1>3. CASE \E p \in Peer : CreateEntry(p) \/ DestroyEntry(p) \/ SendTo(p)
    BY <1>0, <1>3, BindCreate, BindDestroy, BindSendTo
  <1>4. CASE \E m \in toServer : Handled(m)
    BY <1>4, BindHandled
  <1>5. CASE Expires \/ \E p \in Peer : OnExternalPacket(p)
    BY <1>5, BindServer
  <1>6. CASE Tick
    BY <1>6, BindTick
  <1> QED
    BY <1>1, <1>2, <1>3, <1>4, <1>5, <1>6 DEF Next, Client, Server, Handled, Expires

LEMMA BindInit == Init => BindInv
  <1> SUFFICES ASSUME Init PROVE BindInv
    OBVIOUS
  <1>1. DOMAIN requests = {} /\ DOMAIN entries = {} /\ toClient = {} /\ alloc = None
    BY DEF Init
  <1> QED
    BY <1>1 DEF BindInv, OneBinding, OneChannel, FreshAnswers, GoodAnswers, AllRebind

\* BoundRelayed: as long as no request times out, the server relays what a port
\* sends on a channel that it believes bound, and has a permission for the peer.
\* The rebinding that waits is due before the timers of both, RebindDelay being
\* below kPermissionTimeout; the server does not refuse it, as it gave the
\* channel to that peer and to no other.
THEOREM BoundStays == Spec => []BoundRelayed
  <1>1. TypeInv /\ BindInv => BoundRelayed
    <2> SUFFICES ASSUME TypeInv, BindInv, ~unanswered, NEW p \in DOMAIN entries,
                        entries[p].state = "bound"
                 PROVE  Relays(p) /\ IpOf[p] \in DOMAIN alloc.perms
      BY DEF BoundRelayed
    <2>1. Rebinds(p)
      BY BindNow DEF AllRebind
    <2> QED
      BY <2>1 DEF Rebinds, Relays
  <1>2. Init => TypeInv /\ ChannelInv /\ AuthInv /\ KeepInv /\ BindInv
    BY TypeInit, ChannelInit, AuthInit, KeepInit, BindInit
  <1>3. TypeInv /\ ChannelInv /\ AuthInv /\ KeepInv /\ BindInv /\ [Next]_vars
           => (TypeInv /\ ChannelInv /\ AuthInv /\ KeepInv /\ BindInv)'
    BY TypeStep, ChannelStep, AuthStep, KeepStep, BindStep
  <1> QED
    BY <1>1, <1>2, <1>3, PTL DEF Spec

=============================================================================
