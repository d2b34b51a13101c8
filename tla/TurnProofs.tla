----------------------------- MODULE TurnProofs -----------------------------
(***************************************************************************)
(* Theorems about Turn, for any number of peers, addresses, entries and    *)
(* datagrams under way, and for every length of the timers that            *)
(* TurnAssumption allows.                                                  *)
(***************************************************************************)
EXTENDS Turn, TLAPS

-----------------------------------------------------------------------------
(* Maps *)

LEMMA PutMap ==
    ASSUME NEW f, NEW x, NEW y
    PROVE  /\ DOMAIN Put(f, x, y) = DOMAIN f \cup {x}
           /\ Put(f, x, y)[x] = y
           /\ \A z \in DOMAIN f : z # x => Put(f, x, y)[z] = f[z]
  BY DEF Put

LEMMA DeleteMap ==
    ASSUME NEW f, NEW x
    PROVE  /\ DOMAIN Delete(f, x) = DOMAIN f \ {x}
           /\ \A z \in DOMAIN f \ {x} : Delete(f, x)[z] = f[z]
  BY DEF Delete, Restrict

PermissionMaps ==
    UNION {[ips -> 0..PermissionTimeout] : ips \in SUBSET {IpOf[p] : p \in Peer}}

ChannelMaps ==
    UNION {[cs -> [peer: Peer, left: 0..ChannelTimeout]] : cs \in SUBSET (1..MaxEntries)}

\* The permissions of an allocation.
LEMMA PermissionType ==
    \A f \in PermissionMaps : /\ DOMAIN f \subseteq {IpOf[p] : p \in Peer}
                              /\ \A ip \in DOMAIN f : f[ip] \in 0..PermissionTimeout
  BY DEF PermissionMaps

LEMMA ChannelType ==
    \A f \in ChannelMaps : /\ DOMAIN f \subseteq 1..MaxEntries
                           /\ \A c \in DOMAIN f : /\ f[c] \in [peer: Peer, left: 0..ChannelTimeout]
                                                  /\ f[c].peer \in Peer
                                                  /\ f[c].left \in 0..ChannelTimeout
  BY DEF ChannelMaps

LEMMA PermissionMade ==
    ASSUME NEW S \in SUBSET {IpOf[p] : p \in Peer}, NEW g \in [S -> 0..PermissionTimeout]
    PROVE  g \in PermissionMaps
  BY DEF PermissionMaps

LEMMA ChannelMade ==
    ASSUME NEW S \in SUBSET (1..MaxEntries), NEW g \in [S -> [peer: Peer, left: 0..ChannelTimeout]]
    PROVE  g \in ChannelMaps
  BY DEF ChannelMaps

\* What the server does to its maps.
LEMMA PermissionKept ==
    ASSUME NEW f \in PermissionMaps
    PROVE  /\ \A p \in Peer : AddPermission(f, p) \in PermissionMaps
           /\ \A ip : Delete(f, ip) \in PermissionMaps
           /\ (\A ip \in DOMAIN f : f[ip] > 0) => [ip \in DOMAIN f |-> f[ip] - 1] \in PermissionMaps
  <1>0. /\ DOMAIN f \subseteq {IpOf[p] : p \in Peer}
        /\ \A ip \in DOMAIN f : f[ip] \in 0..PermissionTimeout
        /\ PermissionTimeout \in Nat
    BY PermissionType, TurnAssumption
  <1>1. ASSUME NEW p \in Peer PROVE AddPermission(f, p) \in PermissionMaps
    <2>1. AddPermission(f, p) \in [DOMAIN f \cup {IpOf[p]} -> 0..PermissionTimeout]
      BY <1>0 DEF AddPermission, Put
    <2>2. DOMAIN f \cup {IpOf[p]} \in SUBSET {IpOf[q] : q \in Peer}
      BY <1>0
    <2> QED
      BY <2>1, <2>2, PermissionMade
  <1>2. ASSUME NEW ip PROVE Delete(f, ip) \in PermissionMaps
    <2>1. Delete(f, ip) \in [DOMAIN f \ {ip} -> 0..PermissionTimeout]
      BY <1>0 DEF Delete, Restrict
    <2>2. DOMAIN f \ {ip} \in SUBSET {IpOf[q] : q \in Peer}
      BY <1>0
    <2> QED
      BY <2>1, <2>2, PermissionMade
  <1>3. ASSUME \A ip \in DOMAIN f : f[ip] > 0
        PROVE  [ip \in DOMAIN f |-> f[ip] - 1] \in PermissionMaps
    <2>1. [ip \in DOMAIN f |-> f[ip] - 1] \in [DOMAIN f -> 0..PermissionTimeout]
      BY <1>0, <1>3
    <2> QED
      BY <1>0, <2>1, PermissionMade
  <1> QED
    BY <1>1, <1>2, <1>3

LEMMA ChannelKept ==
    ASSUME NEW f \in ChannelMaps
    PROVE  /\ \A p \in Peer : \A c \in 1..MaxEntries :
                 Put(f, c, [peer |-> p, left |-> ChannelTimeout]) \in ChannelMaps
           /\ \A c : Delete(f, c) \in ChannelMaps
           /\ (\A c \in DOMAIN f : f[c].left > 0)
                 => [c \in DOMAIN f |-> [f[c] EXCEPT !.left = @ - 1]] \in ChannelMaps
  <1> DEFINE Channel == [peer: Peer, left: 0..ChannelTimeout]
  <1>0. /\ DOMAIN f \subseteq 1..MaxEntries
        /\ \A c \in DOMAIN f : f[c] \in Channel
        /\ ChannelTimeout \in Nat
    BY ChannelType, TurnAssumption
  <1>1. ASSUME NEW p \in Peer, NEW c \in 1..MaxEntries
        PROVE  Put(f, c, [peer |-> p, left |-> ChannelTimeout]) \in ChannelMaps
    <2>0. [peer |-> p, left |-> ChannelTimeout] \in Channel
      BY <1>0
    <2> HIDE DEF Channel
    <2>1. Put(f, c, [peer |-> p, left |-> ChannelTimeout]) \in [DOMAIN f \cup {c} -> Channel]
      BY <1>0, <2>0 DEF Put
    <2>2. DOMAIN f \cup {c} \in SUBSET (1..MaxEntries)
      BY <1>0
    <2> QED
      BY <2>1, <2>2, ChannelMade DEF Channel
  <1>2. ASSUME NEW c PROVE Delete(f, c) \in ChannelMaps
    <2> HIDE DEF Channel
    <2>1. Delete(f, c) \in [DOMAIN f \ {c} -> Channel]
      BY <1>0 DEF Delete, Restrict
    <2>2. DOMAIN f \ {c} \in SUBSET (1..MaxEntries)
      BY <1>0
    <2> QED
      BY <2>1, <2>2, ChannelMade DEF Channel
  <1>3. ASSUME \A c \in DOMAIN f : f[c].left > 0
        PROVE  [c \in DOMAIN f |-> [f[c] EXCEPT !.left = @ - 1]] \in ChannelMaps
    <2>1. \A c \in DOMAIN f : [f[c] EXCEPT !.left = @ - 1] \in Channel
      BY <1>0, <1>3
    <2> HIDE DEF Channel
    <2>2. [c \in DOMAIN f |-> [f[c] EXCEPT !.left = @ - 1]] \in [DOMAIN f -> Channel]
      BY <2>1
    <2> QED
      BY <1>0, <2>2, ChannelMade DEF Channel
  <1> QED
    BY <1>1, <1>2, <1>3

\* The parts of an allocation.
LEMMA AllocationParts ==
    ASSUME NEW a \in Allocation
    PROVE  /\ a.tid \in Tx /\ a.timers \in (SUBSET (0..Lifetime)) \ {{}}
           /\ a.perms \in PermissionMaps /\ a.channels \in ChannelMaps
  BY DEF Allocation, PermissionMaps, ChannelMaps

LEMMA AllocationMade ==
    ASSUME NEW t \in Tx
    PROVE  [tid |-> t, timers |-> {Lifetime}, perms |-> <<>>, channels |-> <<>>] \in Allocation
  <1>1. <<>> \in PermissionMaps
    <2>1. <<>> \in [{} -> 0..PermissionTimeout]
      OBVIOUS
    <2> QED
      BY <2>1, PermissionMade
  <1>2. <<>> \in ChannelMaps
    <2>1. <<>> \in [{} -> [peer: Peer, left: 0..ChannelTimeout]]
      OBVIOUS
    <2> QED
      BY <2>1, ChannelMade
  <1>3. {Lifetime} \in (SUBSET (0..Lifetime)) \ {{}}
    <2>1. Lifetime \in 0..Lifetime
      BY TurnAssumption
    <2>2. {Lifetime} \in SUBSET (0..Lifetime)
      BY <2>1
    <2>3. {Lifetime} \notin {{}}
      OBVIOUS
    <2> QED
      BY <2>2, <2>3
  <1> QED
    BY <1>1, <1>2, <1>3 DEF Allocation, PermissionMaps, ChannelMaps

-----------------------------------------------------------------------------
(* What the pieces of the state look like *)

ForPort == {"Allocate", "Refresh"}
ForEntry == {"CreatePermission", "ChannelBind"}

\* A request of the port, or of an entry: the transaction id tells which.
RequestOK(t, q) ==
    /\ t \in Tx /\ q \in Requests
    /\ t[1] = q.type /\ t[2] = q.chan
    /\ q.type \in ForPort => q.peer = None /\ q.chan = 0 /\ q.entry = 0
    /\ q.type \in ForEntry => q.peer \in Peer /\ q.chan # 0 /\ q.entry \in {0, q.chan}

Message == [tid: Tx, type: Types, nonce: Auth, peer: Peer \cup {None}, chan: 0..MaxEntries]

MessageOK(m) ==
    /\ m \in Message
    /\ m.tid[1] = m.type
    /\ m.type \in ForPort => m.peer = None /\ m.chan = 0
    /\ m.type \in ForEntry => m.peer \in Peer /\ m.chan # 0

Response == [tid: Tx, type: Types, code: {0, 400, 401, 437, 438, 500}, nonce: Auth,
             lifetime: {0, Lifetime}]

ResponseOK(r) ==
    /\ r \in Response
    /\ r.tid[1] = r.type
    /\ r.code = 0 => r.lifetime = Lifetime
    /\ r.code \in {401, 438} => r.nonce = NonceTimeout

DataOK(m) ==
    \/ m \in [type: {"ChannelData"}, chan: 1..MaxEntries, from: Peer]
    \/ m \in [type: {"DataIndication"}, peer: Peer, from: Peer] /\ m.peer = m.from

EntryOK(p) ==
    /\ p \in Peer
    /\ entries[p] \in [chan: 1..MaxEntries, state: {"unbound", "binding", "bound"}]

\* The request of an entry that lives is of that entry.
EntryOf(q) ==
    q.entry # 0 => q.peer \in DOMAIN entries /\ entries[q.peer].chan = q.chan

TypeInv ==
    /\ prepared \in BOOLEAN /\ connected \in BOOLEAN
    /\ nonce \in Auth /\ error \in {"none", "posted", "signalled"}
    /\ \A t \in DOMAIN requests : RequestOK(t, requests[t]) /\ EntryOf(requests[t])
    /\ \A p \in DOMAIN entries : EntryOK(p)
    /\ nextChannel \in 1..(MaxEntries + 1)
    /\ \A m \in toServer : MessageOK(m)
    /\ \A m \in toClient : ResponseOK(m) \/ DataOK(m)
    /\ alloc \in Allocation \cup {None}
    /\ validUser \in BOOLEAN /\ unanswered \in BOOLEAN
    /\ failure \in {0, NoAnswer, 400, 401, 437, 438, 500}

\* The channel number c was given to the entry of p.
ByEntry(c, p) == p \in DOMAIN entries /\ entries[p].chan = c
ByRequest(c, p) == \E t \in DOMAIN requests : requests[t].chan = c /\ requests[t].peer = p
ByMessage(c, p) == \E m \in toServer : m.chan = c /\ m.peer = p
ByServer(c, p) == alloc # None /\ c \in DOMAIN alloc.channels /\ alloc.channels[c].peer = p
ByData(c, p) == \E m \in toClient : m.type = "ChannelData" /\ m.chan = c /\ m.from = p

Given(c, p) ==
    ByEntry(c, p) \/ ByRequest(c, p) \/ ByMessage(c, p) \/ ByServer(c, p) \/ ByData(c, p)

\* A channel number is never given to a second peer.
ChannelInv ==
    \A c \in 1..MaxEntries : \A p \in Peer : Given(c, p) =>
        c < nextChannel /\ \A q \in Peer : Given(c, q) => p = q

-----------------------------------------------------------------------------
(* What a step does to the requests *)

\* The request q is there under the new id t, the ones of `gone' are not.
Adds(t, q, gone) ==
    /\ t \notin UsedTx
    /\ DOMAIN requests' = (DOMAIN requests \ gone) \cup {t}
    /\ requests'[t] = q
    /\ \A u \in DOMAIN requests \ gone : u # t /\ requests'[u] = requests[u]

Drops(t) ==
    /\ DOMAIN requests' = DOMAIN requests \ {t}
    /\ \A u \in DOMAIN requests \ {t} : requests'[u] = requests[u]

LEMMA DelayedAdds ==
    ASSUME NEW q, SendDelayed(q)
    PROVE  \E n \in 1..MaxTx : Adds(<<q.type, q.chan, n>>, q, {})
  <1>1. PICK n \in 1..MaxTx : /\ IsFresh(<<q.type, q.chan, n>>)
                              /\ requests' = Put(requests, <<q.type, q.chan, n>>, q)
    BY DEF SendDelayed
  <1>2. PICK t : t = <<q.type, q.chan, n>>
    OBVIOUS
  <1>3. t \notin UsedTx /\ t \notin DOMAIN requests
    BY <1>1, <1>2 DEF IsFresh, UsedTx
  <1>4. /\ DOMAIN requests' = DOMAIN requests \cup {t} /\ requests'[t] = q
        /\ \A z \in DOMAIN requests : z # t => requests'[z] = requests[z]
    BY <1>1, <1>2 DEF Put
  <1>5. Adds(t, q, {})
    BY <1>3, <1>4 DEF Adds
  <1> QED
    BY <1>2, <1>5

LEMMA InsteadAdds ==
    ASSUME NEW q, NEW u \in DOMAIN requests, SendInstead(u, q)
    PROVE  \E n \in 1..MaxTx : Adds(<<q.type, q.chan, n>>, q, {u})
  <1>1. PICK n \in 1..MaxTx :
             /\ IsFresh(<<q.type, q.chan, n>>)
             /\ requests' = Delete(Put(requests, <<q.type, q.chan, n>>, q), u)
    BY DEF SendInstead
  <1>2. PICK t : t = <<q.type, q.chan, n>>
    OBVIOUS
  <1>3. t \notin UsedTx /\ t \notin DOMAIN requests /\ t # u
    BY <1>1, <1>2 DEF IsFresh, UsedTx
  <1>4. PICK g : g = Put(requests, t, q)
    OBVIOUS
  <1>5. /\ DOMAIN g = DOMAIN requests \cup {t} /\ g[t] = q
        /\ \A z \in DOMAIN requests : z # t => g[z] = requests[z]
    BY <1>4 DEF Put
  <1>6. requests' = Delete(g, u)
    BY <1>1, <1>2, <1>4
  <1>7. /\ DOMAIN requests' = DOMAIN g \ {u}
        /\ \A z \in DOMAIN g \ {u} : requests'[z] = g[z]
    BY <1>6, DeleteMap
  <1>8. Adds(t, q, {u})
    BY <1>3, <1>5, <1>7 DEF Adds
  <1> QED
    BY <1>2, <1>8

LEMMA DeleteDrops ==
    ASSUME NEW t, requests' = Delete(requests, t)
    PROVE  Drops(t)
  BY DeleteMap DEF Drops

\* A new request of the port or of an entry is one.
LEMMA RequestMade ==
    ASSUME NEW type \in Types, NEW peer, NEW chan \in 0..MaxEntries, NEW auth \in Auth, NEW delay,
           delay \in (0..(Lifetime - Margin)) \cup (0..(PermissionTimeout - Margin)),
           IF type \in ForPort THEN peer = None /\ chan = 0 ELSE peer \in Peer /\ chan # 0,
           NEW n \in 1..MaxTx
    PROVE  LET q == Request(type, peer, chan, auth, delay)
           IN RequestOK(<<q.type, q.chan, n>>, q)
  <1>1. PICK q : q = Request(type, peer, chan, auth, delay)
    OBVIOUS
  <1>2. MaxSends \in Nat
    BY TurnAssumption
  <1>3. /\ q.type = type /\ q.peer = peer /\ q.chan = chan /\ q.entry = chan
        /\ q \in Requests
    BY <1>1, <1>2 DEF Request, Requests, ForPort
  <1>4. <<type, chan, n>> \in Tx
    BY DEF Tx
  <1>5. RequestOK(<<type, chan, n>>, q)
    BY <1>3, <1>4 DEF RequestOK, ForPort, ForEntry, Types
  <1> QED
    BY <1>1, <1>3, <1>5

-----------------------------------------------------------------------------
(* Every step of the client keeps the types *)

RequestsOK == \A t \in DOMAIN requests : RequestOK(t, requests[t]) /\ EntryOf(requests[t])

EntriesOK == \A p \in DOMAIN entries : EntryOK(p)

KeepsChannels ==
    DOMAIN entries' = DOMAIN entries /\ \A p \in DOMAIN entries : entries'[p].chan = entries[p].chan

LEMMA AddsOK ==
    ASSUME RequestsOK, NEW t, NEW q, NEW gone, Adds(t, q, gone), RequestOK(t, q),
           EntryOf(q), KeepsChannels
    PROVE  RequestsOK'
  <1> SUFFICES ASSUME NEW u \in DOMAIN requests'
               PROVE  RequestOK(u, requests'[u]) /\ EntryOf(requests[u])'
    BY DEF RequestsOK
  <1>1. CASE u = t
    BY <1>1 DEF Adds, EntryOf, KeepsChannels
  <1>2. CASE u # t
    <2>1. u \in DOMAIN requests /\ requests'[u] = requests[u]
      BY <1>2 DEF Adds
    <2> QED
      BY <2>1 DEF RequestsOK, EntryOf, KeepsChannels
  <1> QED
    BY <1>1, <1>2

LEMMA DropsOK ==
    ASSUME RequestsOK, NEW t, Drops(t), KeepsChannels
    PROVE  RequestsOK'
  <1> SUFFICES ASSUME NEW u \in DOMAIN requests'
               PROVE  RequestOK(u, requests'[u]) /\ EntryOf(requests[u])'
    BY DEF RequestsOK
  <1>1. u \in DOMAIN requests /\ requests'[u] = requests[u]
    BY DEF Drops
  <1> QED
    BY <1>1 DEF RequestsOK, EntryOf, KeepsChannels

LEMMA SameRequestsOK ==
    ASSUME RequestsOK, UNCHANGED requests, KeepsChannels
    PROVE  RequestsOK'
  BY DEF RequestsOK, EntryOf, KeepsChannels

LEMMA SameEntries ==
    ASSUME UNCHANGED entries
    PROVE  KeepsChannels /\ (EntriesOK => EntriesOK')
  BY DEF KeepsChannels, EntriesOK, EntryOK

\* The types of the parts.
LEMMA TypeNow ==
    ASSUME TypeInv
    PROVE  /\ prepared \in BOOLEAN /\ connected \in BOOLEAN
           /\ nonce \in Auth /\ error \in {"none", "posted", "signalled"}
           /\ RequestsOK /\ EntriesOK
           /\ nextChannel \in 1..(MaxEntries + 1)
           /\ \A m \in toServer : MessageOK(m)
           /\ \A m \in toClient : ResponseOK(m) \/ DataOK(m)
           /\ alloc \in Allocation \cup {None}
           /\ validUser \in BOOLEAN /\ unanswered \in BOOLEAN
           /\ failure \in {0, NoAnswer, 400, 401, 437, 438, 500}
  BY DEF TypeInv, RequestsOK, EntriesOK

LEMMA TypeParts ==
    ASSUME prepared' \in BOOLEAN, connected' \in BOOLEAN,
           nonce' \in Auth, error' \in {"none", "posted", "signalled"},
           RequestsOK', EntriesOK',
           nextChannel' \in 1..(MaxEntries + 1),
           \A m \in toServer' : MessageOK(m),
           \A m \in toClient' : ResponseOK(m) \/ DataOK(m),
           alloc' \in Allocation \cup {None},
           validUser' \in BOOLEAN, unanswered' \in BOOLEAN,
           failure' \in {0, NoAnswer, 400, 401, 437, 438, 500}
    PROVE  TypeInv'
  BY DEF TypeInv, RequestsOK, EntriesOK

\* An answer that finds its request: neither is data, and both are of one type.
LEMMA AnswerOK ==
    ASSUME TypeInv, NEW r, NEW type \in Types, CheckResponse(r, type)
    PROVE  /\ ResponseOK(r) /\ r \in Response /\ r.tid \in Tx /\ r.type = type
           /\ r.tid \in DOMAIN requests
           /\ RequestOK(r.tid, requests[r.tid]) /\ EntryOf(requests[r.tid])
           /\ requests[r.tid].type = type
           /\ toClient' = toClient \ {r} /\ r \in toClient
           /\ \A m \in toClient' : ResponseOK(m) \/ DataOK(m)
           /\ r.nonce \in Auth /\ r.code \in {0, 400, 401, 437, 438, 500}
           /\ r.code = 0 => r.lifetime = Lifetime
           /\ r.code \in {401, 438} => r.nonce = NonceTimeout
  <1>1. r \in toClient /\ r.type = type /\ r.tid \in DOMAIN requests /\ toClient' = toClient \ {r}
    BY DEF CheckResponse
  <1>2. ~DataOK(r)
    BY <1>1 DEF DataOK, Types
  <1>3. ResponseOK(r) /\ RequestsOK
    BY <1>1, <1>2, TypeNow
  <1>4. /\ r \in Response /\ r.tid \in Tx /\ r.tid[1] = r.type
        /\ r.nonce \in Auth /\ r.code \in {0, 400, 401, 437, 438, 500}
        /\ r.code = 0 => r.lifetime = Lifetime
        /\ r.code \in {401, 438} => r.nonce = NonceTimeout
    BY <1>3 DEF ResponseOK, Response
  <1>5. RequestOK(r.tid, requests[r.tid]) /\ EntryOf(requests[r.tid])
    BY <1>1, <1>3 DEF RequestsOK
  <1>6. requests[r.tid].type = type
    BY <1>1, <1>4, <1>5 DEF RequestOK
  <1>7. \A m \in toClient' : ResponseOK(m) \/ DataOK(m)
    BY <1>1, TypeNow
  <1> QED
    BY <1>1, <1>3, <1>4, <1>5, <1>6, <1>7

\* A new request of an entry is one that the entry waits for.
NewOf(q) == EntryOf(q) /\ q.entry = q.chan

\* A request of the port takes the place of another, or comes by itself.
LEMMA PortInstead ==
    ASSUME NEW u \in DOMAIN requests, NEW type \in ForPort, NEW auth \in Auth,
           NEW delay \in (0..(Lifetime - Margin)) \cup (0..(PermissionTimeout - Margin)),
           SendInstead(u, PortRequest(type, auth, delay))
    PROVE  \E t \in Tx : /\ Adds(t, PortRequest(type, auth, delay), {u})
                         /\ RequestOK(t, PortRequest(type, auth, delay))
                         /\ NewOf(PortRequest(type, auth, delay))
  <1>0. PICK q : q = PortRequest(type, auth, delay)
    OBVIOUS
  <1>1. PICK n \in 1..MaxTx : Adds(<<q.type, q.chan, n>>, q, {u})
    BY <1>0, InsteadAdds
  <1>2. 0 \in 0..MaxEntries /\ type \in Types
    BY TurnAssumption DEF Types, ForPort
  <1>3. RequestOK(<<q.type, q.chan, n>>, q)
    BY <1>0, <1>2, RequestMade DEF PortRequest
  <1>4. NewOf(q)
    BY <1>0 DEF NewOf, EntryOf, PortRequest, Request
  <1>5. <<q.type, q.chan, n>> \in Tx
    BY <1>3 DEF RequestOK
  <1> QED
    BY <1>0, <1>1, <1>3, <1>4, <1>5

LEMMA PortDelayed ==
    ASSUME NEW type \in ForPort, NEW auth \in Auth,
           NEW delay \in (0..(Lifetime - Margin)) \cup (0..(PermissionTimeout - Margin)),
           SendDelayed(PortRequest(type, auth, delay))
    PROVE  \E t \in Tx : /\ Adds(t, PortRequest(type, auth, delay), {})
                         /\ RequestOK(t, PortRequest(type, auth, delay))
                         /\ NewOf(PortRequest(type, auth, delay))
  <1>0. PICK q : q = PortRequest(type, auth, delay)
    OBVIOUS
  <1>1. PICK n \in 1..MaxTx : Adds(<<q.type, q.chan, n>>, q, {})
    BY <1>0, DelayedAdds
  <1>2. 0 \in 0..MaxEntries /\ type \in Types
    BY TurnAssumption DEF Types, ForPort
  <1>3. RequestOK(<<q.type, q.chan, n>>, q)
    BY <1>0, <1>2, RequestMade DEF PortRequest
  <1>4. NewOf(q)
    BY <1>0 DEF NewOf, EntryOf, PortRequest, Request
  <1>5. <<q.type, q.chan, n>> \in Tx
    BY <1>3 DEF RequestOK
  <1> QED
    BY <1>0, <1>1, <1>3, <1>4, <1>5

LEMMA Delays ==
    /\ Lifetime \in Nat /\ Margin \in Nat \ {0} /\ Lifetime - Margin \in Nat
    /\ Lifetime - Margin < Lifetime /\ ~(Lifetime < 2 * Margin)
    /\ PermissionTimeout - Margin \in Nat /\ PermissionTimeout - Margin < PermissionTimeout
    /\ PermissionTimeout \in Nat \ {0} /\ ChannelTimeout \in Nat
    /\ PermissionTimeout - Margin < ChannelTimeout
    /\ {0, RefreshDelay(Lifetime)} \subseteq (0..(Lifetime - Margin)) \cup (0..(PermissionTimeout - Margin))
    /\ {0, RebindDelay} \subseteq (0..(Lifetime - Margin)) \cup (0..(PermissionTimeout - Margin))
  <1>1. /\ Lifetime \in Nat /\ Margin \in Nat \ {0} /\ Lifetime - Margin \in Nat
        /\ Lifetime - Margin < Lifetime /\ ~(Lifetime < 2 * Margin)
        /\ PermissionTimeout - Margin \in Nat /\ PermissionTimeout - Margin < PermissionTimeout
        /\ PermissionTimeout \in Nat \ {0} /\ ChannelTimeout \in Nat
        /\ PermissionTimeout - Margin < ChannelTimeout
    BY TurnAssumption
  <1> QED
    BY <1>1 DEF RefreshDelay, RebindDelay

LEMMA NoDelay == 0 \in (0..(Lifetime - Margin)) \cup (0..(PermissionTimeout - Margin))
  BY Delays

LEMMA EntryInstead ==
    ASSUME TypeInv, NEW u \in DOMAIN requests, NEW type \in ForEntry, NEW auth \in Auth,
           NEW p \in DOMAIN entries,
           NEW delay \in (0..(Lifetime - Margin)) \cup (0..(PermissionTimeout - Margin)),
           SendInstead(u, EntryRequest(type, p, auth, delay))
    PROVE  \E t \in Tx : /\ Adds(t, EntryRequest(type, p, auth, delay), {u})
                         /\ RequestOK(t, EntryRequest(type, p, auth, delay))
                         /\ NewOf(EntryRequest(type, p, auth, delay))
  <1>0. PICK q : q = EntryRequest(type, p, auth, delay)
    OBVIOUS
  <1>1. PICK n \in 1..MaxTx : Adds(<<q.type, q.chan, n>>, q, {u})
    BY <1>0, InsteadAdds
  <1>2. /\ entries[p].chan \in 0..MaxEntries /\ entries[p].chan # 0 /\ type \in Types
        /\ p \in Peer /\ type \notin ForPort
    BY TypeNow DEF EntriesOK, EntryOK, Types, ForEntry, ForPort
  <1>3. RequestOK(<<q.type, q.chan, n>>, q)
    BY <1>0, <1>2, RequestMade DEF EntryRequest
  <1>4. NewOf(q)
    BY <1>0 DEF NewOf, EntryOf, EntryRequest, Request
  <1>5. <<q.type, q.chan, n>> \in Tx
    BY <1>3 DEF RequestOK
  <1> QED
    BY <1>0, <1>1, <1>3, <1>4, <1>5

LEMMA EntryDelayed ==
    ASSUME TypeInv, NEW type \in ForEntry, NEW auth \in Auth, NEW p \in DOMAIN entries,
           NEW delay \in (0..(Lifetime - Margin)) \cup (0..(PermissionTimeout - Margin)),
           SendDelayed(EntryRequest(type, p, auth, delay))
    PROVE  \E t \in Tx : /\ Adds(t, EntryRequest(type, p, auth, delay), {})
                         /\ RequestOK(t, EntryRequest(type, p, auth, delay))
                         /\ NewOf(EntryRequest(type, p, auth, delay))
  <1>0. PICK q : q = EntryRequest(type, p, auth, delay)
    OBVIOUS
  <1>1. PICK n \in 1..MaxTx : Adds(<<q.type, q.chan, n>>, q, {})
    BY <1>0, DelayedAdds
  <1>2. /\ entries[p].chan \in 0..MaxEntries /\ entries[p].chan # 0 /\ type \in Types
        /\ p \in Peer /\ type \notin ForPort
    BY TypeNow DEF EntriesOK, EntryOK, Types, ForEntry, ForPort
  <1>3. RequestOK(<<q.type, q.chan, n>>, q)
    BY <1>0, <1>2, RequestMade DEF EntryRequest
  <1>4. NewOf(q)
    BY <1>0 DEF NewOf, EntryOf, EntryRequest, Request
  <1>5. <<q.type, q.chan, n>> \in Tx
    BY <1>3 DEF RequestOK
  <1> QED
    BY <1>0, <1>1, <1>3, <1>4, <1>5

\* A new request as it is kept, and what a step with one leaves.
Sends(q, gone) == \E t \in Tx : Adds(t, q, gone) /\ RequestOK(t, q) /\ NewOf(q)

\* The answers to the port's requests.
LEMMA AllocateEffect ==
    ASSUME TypeInv, NEW r, AllocateAnswered(r)
    PROVE  /\ CheckResponse(r, "Allocate")
           /\ UNCHANGED <<prepared, entries, nextChannel, toServer, server, unanswered>>
           /\ \/ /\ r.code = 0 /\ connected' = TRUE /\ UNCHANGED <<nonce, error, failure>>
                 /\ Sends(PortRequest("Refresh", nonce, Lifetime - Margin), {r.tid})
              \/ /\ r.code = 401 /\ nonce = None /\ nonce' = r.nonce
                 /\ UNCHANGED <<connected, error, failure>>
                 /\ Sends(PortRequest("Allocate", r.nonce, 0), {r.tid})
              \/ /\ r.code # 0 /\ ~(r.code = 401 /\ nonce = None)
                 /\ Drops(r.tid) /\ error' = "posted" /\ failure' = r.code
                 /\ UNCHANGED <<connected, nonce>>
  <1>1. /\ CheckResponse(r, "Allocate")
        /\ UNCHANGED <<prepared, entries, nextChannel, toServer, server, unanswered>>
    BY DEF AllocateAnswered
  <1>2. /\ r.tid \in DOMAIN requests /\ r.nonce \in Auth /\ nonce \in Auth
        /\ r.code = 0 => r.lifetime = Lifetime
    BY <1>1, AnswerOK, TypeNow DEF Types
  <1>3. /\ "Allocate" \in ForPort /\ "Refresh" \in ForPort
        /\ RefreshDelay(Lifetime) = Lifetime - Margin
    BY DEF ForPort, RefreshDelay
  <1>4. CASE /\ r.code = 0 /\ connected' = TRUE /\ UNCHANGED <<nonce, error, failure>>
             /\ ScheduleRefresh(r.tid, r.lifetime)
    <2>1. SendInstead(r.tid, PortRequest("Refresh", nonce, Lifetime - Margin))
      BY <1>2, <1>3, <1>4, Delays DEF ScheduleRefresh
    <2>2. Sends(PortRequest("Refresh", nonce, Lifetime - Margin), {r.tid})
      BY <1>2, <1>3, <2>1, Delays, PortInstead DEF Sends
    <2> QED
      BY <1>1, <1>4, <2>2
  <1>5. CASE /\ r.code = 401 /\ nonce = None /\ nonce' = r.nonce
             /\ SendInstead(r.tid, PortRequest("Allocate", r.nonce, 0))
             /\ UNCHANGED <<connected, error, failure>>
    <2>0. SendInstead(r.tid, PortRequest("Allocate", r.nonce, 0))
      BY <1>5
    <2>1. Sends(PortRequest("Allocate", r.nonce, 0), {r.tid})
      BY <1>2, <1>3, <2>0, NoDelay, PortInstead DEF Sends
    <2> QED
      BY <1>1, <1>5, <2>1
  <1>6. CASE /\ r.code # 0 /\ ~(r.code = 401 /\ nonce = None) /\ OnAllocateError(r.code)
             /\ requests' = Delete(requests, r.tid) /\ UNCHANGED <<connected, nonce>>
    BY <1>1, <1>6, DeleteDrops DEF OnAllocateError
  <1> QED
    BY <1>4, <1>5, <1>6 DEF AllocateAnswered

LEMMA RefreshEffect ==
    ASSUME TypeInv, NEW r, RefreshAnswered(r)
    PROVE  /\ CheckResponse(r, "Refresh")
           /\ UNCHANGED <<prepared, connected, error, entries, nextChannel, toServer, server, history>>
           /\ \/ /\ r.code = 0 /\ UNCHANGED nonce
                 /\ Sends(PortRequest("Refresh", nonce, Lifetime - Margin), {r.tid})
              \/ /\ r.code = 438 /\ nonce' = r.nonce
                 /\ Sends(PortRequest("Refresh", r.nonce, 0), {r.tid})
              \/ r.code \notin {0, 438} /\ Drops(r.tid) /\ UNCHANGED nonce
  <1>1. /\ CheckResponse(r, "Refresh")
        /\ UNCHANGED <<prepared, connected, error, entries, nextChannel, toServer, server, history>>
    BY DEF RefreshAnswered
  <1>2. /\ r.tid \in DOMAIN requests /\ r.nonce \in Auth /\ nonce \in Auth
        /\ r.code = 0 => r.lifetime = Lifetime
    BY <1>1, AnswerOK, TypeNow DEF Types
  <1>3. "Refresh" \in ForPort /\ RefreshDelay(Lifetime) = Lifetime - Margin
    BY DEF ForPort, RefreshDelay
  <1>4. CASE r.code = 0 /\ UNCHANGED nonce /\ ScheduleRefresh(r.tid, r.lifetime)
    <2>1. SendInstead(r.tid, PortRequest("Refresh", nonce, Lifetime - Margin))
      BY <1>2, <1>3, <1>4, Delays DEF ScheduleRefresh
    <2>2. Sends(PortRequest("Refresh", nonce, Lifetime - Margin), {r.tid})
      BY <1>2, <1>3, <2>1, Delays, PortInstead DEF Sends
    <2> QED
      BY <1>1, <1>4, <2>2
  <1>5. CASE /\ r.code = 438 /\ nonce' = r.nonce
             /\ SendInstead(r.tid, PortRequest("Refresh", r.nonce, 0))
    <2>0. SendInstead(r.tid, PortRequest("Refresh", r.nonce, 0))
      BY <1>5
    <2>1. Sends(PortRequest("Refresh", r.nonce, 0), {r.tid})
      BY <1>2, <1>3, <2>0, NoDelay, PortInstead DEF Sends
    <2> QED
      BY <1>1, <1>5, <2>1
  <1>6. CASE r.code \notin {0, 438} /\ requests' = Delete(requests, r.tid) /\ UNCHANGED nonce
    BY <1>1, <1>6, DeleteDrops
  <1> QED
    BY <1>4, <1>5, <1>6 DEF RefreshAnswered

\* The answers to the requests of an entry.
LEMMA PermissionEffect ==
    ASSUME TypeInv, NEW r, PermissionAnswered(r)
    PROVE  LET p == requests[r.tid].peer
           IN /\ CheckResponse(r, "CreatePermission")
              /\ UNCHANGED <<prepared, connected, error, entries, nextChannel, toServer, server,
                             history>>
              /\ \/ /\ r.code = 438 /\ requests[r.tid].entry # 0 /\ p \in DOMAIN entries
                    /\ nonce' = r.nonce
                    /\ Sends(EntryRequest("CreatePermission", p, r.nonce, 0), {r.tid})
                 \/ Drops(r.tid) /\ UNCHANGED nonce
  <1> DEFINE p == requests[r.tid].peer
  <1>1. /\ CheckResponse(r, "CreatePermission")
        /\ UNCHANGED <<prepared, connected, error, entries, nextChannel, toServer, server, history>>
    BY DEF PermissionAnswered
  <1>2. /\ r.tid \in DOMAIN requests /\ r.nonce \in Auth
        /\ requests[r.tid].entry # 0 => p \in DOMAIN entries
    BY <1>1, AnswerOK DEF Types, EntryOf
  <1>3. "CreatePermission" \in ForEntry
    BY DEF ForEntry
  <1>4. CASE /\ requests[r.tid].entry # 0 /\ r.code = 438 /\ nonce' = r.nonce
             /\ SendInstead(r.tid, EntryRequest("CreatePermission", p, r.nonce, 0))
    <2>0. SendInstead(r.tid, EntryRequest("CreatePermission", p, r.nonce, 0)) /\ p \in DOMAIN entries
      BY <1>2, <1>4
    <2>1. Sends(EntryRequest("CreatePermission", p, r.nonce, 0), {r.tid})
      BY <1>2, <1>3, <2>0, NoDelay, EntryInstead DEF Sends
    <2> QED
      BY <1>1, <1>2, <1>4, <2>1
  <1>5. CASE requests' = Delete(requests, r.tid) /\ UNCHANGED nonce
    BY <1>1, <1>5, DeleteDrops
  <1> QED
    BY <1>4, <1>5 DEF PermissionAnswered

LEMMA BindEffect ==
    ASSUME TypeInv, NEW r, BindAnswered(r)
    PROVE  LET p == requests[r.tid].peer
           IN /\ CheckResponse(r, "ChannelBind")
              /\ UNCHANGED <<prepared, connected, error, nextChannel, toServer, server, history>>
              /\ \/ /\ r.code = 0 /\ requests[r.tid].entry # 0 /\ p \in DOMAIN entries
                    /\ entries' = [entries EXCEPT ![p].state = "bound"] /\ UNCHANGED nonce
                    /\ Sends(EntryRequest("ChannelBind", p, nonce, PermissionTimeout - Margin), {r.tid})
                 \/ /\ r.code = 438 /\ requests[r.tid].entry # 0 /\ p \in DOMAIN entries
                    /\ nonce' = r.nonce /\ UNCHANGED entries
                    /\ Sends(EntryRequest("ChannelBind", p, r.nonce, 0), {r.tid})
                 \/ /\ requests[r.tid].entry = 0 \/ r.code \notin {0, 438}
                    /\ Drops(r.tid) /\ UNCHANGED <<nonce, entries>>
  <1> DEFINE p == requests[r.tid].peer
  <1>1. /\ CheckResponse(r, "ChannelBind")
        /\ UNCHANGED <<prepared, connected, error, nextChannel, toServer, server, history>>
    BY DEF BindAnswered
  <1>2. /\ r.tid \in DOMAIN requests /\ r.nonce \in Auth /\ nonce \in Auth
        /\ requests[r.tid].entry # 0 => p \in DOMAIN entries
    BY <1>1, AnswerOK, TypeNow DEF Types, EntryOf
  <1>3. "ChannelBind" \in ForEntry /\ RebindDelay = PermissionTimeout - Margin
    BY DEF ForEntry, RebindDelay
  <1>4. CASE /\ requests[r.tid].entry # 0 /\ r.code = 0
             /\ entries' = [entries EXCEPT ![p].state = "bound"]
             /\ SendInstead(r.tid, EntryRequest("ChannelBind", p, nonce, RebindDelay))
             /\ UNCHANGED nonce
    <2>1. Sends(EntryRequest("ChannelBind", p, nonce, PermissionTimeout - Margin), {r.tid})
      BY <1>2, <1>3, <1>4, Delays, EntryInstead DEF Sends
    <2> QED
      BY <1>1, <1>2, <1>4, <2>1
  <1>5. CASE /\ requests[r.tid].entry # 0 /\ r.code = 438 /\ nonce' = r.nonce /\ UNCHANGED entries
             /\ SendInstead(r.tid, EntryRequest("ChannelBind", p, r.nonce, 0))
    <2>0. SendInstead(r.tid, EntryRequest("ChannelBind", p, r.nonce, 0)) /\ p \in DOMAIN entries
      BY <1>2, <1>5
    <2>1. Sends(EntryRequest("ChannelBind", p, r.nonce, 0), {r.tid})
      BY <1>2, <1>3, <2>0, NoDelay, EntryInstead DEF Sends
    <2> QED
      BY <1>1, <1>2, <1>5, <2>1
  <1>6. CASE /\ requests[r.tid].entry = 0 \/ r.code \notin {0, 438}
             /\ requests' = Delete(requests, r.tid) /\ UNCHANGED <<nonce, entries>>
    BY <1>1, <1>6, DeleteDrops
  <1> QED
    BY <1>4, <1>5, <1>6 DEF BindAnswered

LEMMA SendsOK ==
    ASSUME RequestsOK, NEW q, NEW gone, Sends(q, gone), KeepsChannels
    PROVE  RequestsOK'
  BY AddsOK DEF Sends, NewOf

\* A channel that is asked for or bound keeps its number.
LEMMA StateChange ==
    ASSUME TypeInv, NEW p \in DOMAIN entries, NEW s \in {"binding", "bound"},
           entries' = [entries EXCEPT ![p].state = s]
    PROVE  /\ KeepsChannels /\ EntriesOK'
           /\ entries'[p].state = s
           /\ \A q \in DOMAIN entries : q # p => entries'[q] = entries[q]
  <1>1. \A q \in DOMAIN entries : EntryOK(q)
    BY TypeNow DEF EntriesOK
  <1>2. entries[p] \in [chan: 1..MaxEntries, state: {"unbound", "binding", "bound"}]
    BY <1>1 DEF EntryOK
  <1>3. /\ DOMAIN entries' = DOMAIN entries
        /\ entries'[p] = [entries[p] EXCEPT !.state = s]
        /\ \A q \in DOMAIN entries : q # p => entries'[q] = entries[q]
    OBVIOUS
  <1>4. /\ entries'[p] \in [chan: 1..MaxEntries, state: {"unbound", "binding", "bound"}]
        /\ entries'[p].chan = entries[p].chan /\ entries'[p].state = s
    BY <1>2, <1>3
  <1>5. KeepsChannels
    BY <1>3, <1>4 DEF KeepsChannels
  <1>6. EntriesOK'
    BY <1>1, <1>3, <1>4 DEF EntriesOK, EntryOK
  <1> QED
    BY <1>3, <1>4, <1>5, <1>6

Answered(r) ==
    AllocateAnswered(r) \/ RefreshAnswered(r) \/ PermissionAnswered(r) \/ BindAnswered(r)

\* Whatever the answer, its request goes, and at most one takes its place.
LEMMA AnsweredEffect ==
    ASSUME TypeInv, NEW r, Answered(r)
    PROVE  /\ \E type \in Types : CheckResponse(r, type)
           /\ (\E q : Sends(q, {r.tid})) \/ Drops(r.tid)
           /\ nonce' \in {nonce, r.nonce}
           /\ connected' \in {connected, TRUE} /\ error' \in {error, "posted"}
           /\ failure' \in {failure, r.code}
           /\ UNCHANGED <<prepared, nextChannel, toServer, alloc, validUser, unanswered>>
  <1>0. {"Allocate", "Refresh", "CreatePermission", "ChannelBind"} \subseteq Types
    BY DEF Types
  <1>1. CASE AllocateAnswered(r)
    <2>1. /\ CheckResponse(r, "Allocate")
          /\ nonce' \in {nonce, r.nonce} /\ connected' \in {connected, TRUE}
          /\ error' \in {error, "posted"} /\ failure' \in {failure, r.code}
          /\ UNCHANGED <<prepared, nextChannel, toServer, alloc, validUser, unanswered>>
      BY <1>1 DEF AllocateAnswered, OnAllocateError, server
    <2>2. (\E q : Sends(q, {r.tid})) \/ Drops(r.tid)
      BY <1>1, AllocateEffect
    <2> QED
      BY <1>0, <2>1, <2>2
  <1>2. CASE RefreshAnswered(r)
    <2>1. /\ CheckResponse(r, "Refresh") /\ nonce' \in {nonce, r.nonce}
          /\ UNCHANGED <<prepared, connected, error, nextChannel, toServer, alloc, validUser, failure,
                         unanswered>>
      BY <1>2 DEF RefreshAnswered, server, history
    <2>2. (\E q : Sends(q, {r.tid})) \/ Drops(r.tid)
      BY <1>2, RefreshEffect
    <2> QED
      BY <1>0, <2>1, <2>2
  <1>3. CASE PermissionAnswered(r)
    <2>1. /\ CheckResponse(r, "CreatePermission") /\ nonce' \in {nonce, r.nonce}
          /\ UNCHANGED <<prepared, connected, error, nextChannel, toServer, alloc, validUser, failure,
                         unanswered>>
      BY <1>3 DEF PermissionAnswered, server, history
    <2>2. (\E q : Sends(q, {r.tid})) \/ Drops(r.tid)
      BY <1>3, PermissionEffect
    <2> QED
      BY <1>0, <2>1, <2>2
  <1>4. CASE BindAnswered(r)
    <2>1. /\ CheckResponse(r, "ChannelBind") /\ nonce' \in {nonce, r.nonce}
          /\ UNCHANGED <<prepared, connected, error, nextChannel, toServer, alloc, validUser, failure,
                         unanswered>>
      BY <1>4 DEF BindAnswered, server, history
    <2>2. (\E q : Sends(q, {r.tid})) \/ Drops(r.tid)
      BY <1>4, BindEffect, ZenonT(60)
    <2> QED
      BY <1>0, <2>1, <2>2
  <1> QED
    BY <1>1, <1>2, <1>3, <1>4 DEF Answered

\* An entry may become bound, and nothing else happens to the entries.
LEMMA AnsweredEntries ==
    ASSUME TypeInv, NEW r, Answered(r)
    PROVE  KeepsChannels /\ EntriesOK'
  <1>1. CASE UNCHANGED entries
    BY <1>1, SameEntries, TypeNow
  <1>2. CASE BindAnswered(r)
    BY <1>1, <1>2, BindEffect, StateChange
  <1>3. UNCHANGED entries \/ BindAnswered(r)
    BY DEF Answered, AllocateAnswered, RefreshAnswered, PermissionAnswered
  <1> QED
    BY <1>1, <1>2, <1>3

LEMMA AnsweredType ==
    ASSUME TypeInv, NEW r, Answered(r)
    PROVE  TypeInv'
  <1>1. PICK type \in Types : CheckResponse(r, type)
    BY AnsweredEffect
  <1>2. /\ r.nonce \in Auth /\ r.code \in {0, 400, 401, 437, 438, 500}
        /\ \A m \in toClient' : ResponseOK(m) \/ DataOK(m)
    BY <1>1, AnswerOK
  <1>3. KeepsChannels /\ EntriesOK'
    BY AnsweredEntries
  <1>4. RequestsOK'
    <2>1. RequestsOK
      BY TypeNow
    <2>2. CASE \E q : Sends(q, {r.tid})
      BY <1>3, <2>1, <2>2, SendsOK
    <2>3. CASE Drops(r.tid)
      BY <1>3, <2>1, <2>3, DropsOK
    <2> QED
      BY <2>2, <2>3, AnsweredEffect
  <1>5. /\ nonce' \in Auth /\ connected' \in BOOLEAN
        /\ error' \in {"none", "posted", "signalled"}
        /\ failure' \in {0, NoAnswer, 400, 401, 437, 438, 500}
    <2>1. /\ nonce' \in {nonce, r.nonce} /\ connected' \in {connected, TRUE}
          /\ error' \in {error, "posted"} /\ failure' \in {failure, r.code}
      BY AnsweredEffect
    <2>2. /\ nonce \in Auth /\ connected \in BOOLEAN /\ error \in {"none", "posted", "signalled"}
          /\ failure \in {0, NoAnswer, 400, 401, 437, 438, 500}
      BY TypeNow
    <2>3. nonce' \in Auth
      BY <1>2, <2>1, <2>2
    <2>4. connected' \in BOOLEAN /\ error' \in {"none", "posted", "signalled"}
      <3>1. connected' \in BOOLEAN
        <4>1. connected' \in {connected, TRUE} /\ connected \in BOOLEAN
          BY <2>1, <2>2
        <4> QED
          BY <4>1
      <3>2. error' \in {"none", "posted", "signalled"}
        BY <2>1, <2>2
      <3> QED
        BY <3>1, <3>2
    <2>5. failure' \in {0, NoAnswer, 400, 401, 437, 438, 500}
      <3>1. CASE failure' = failure
        BY <2>2, <3>1
      <3>2. CASE failure' = r.code
        BY <1>2, <3>2
      <3> QED
        BY <2>1, <3>1, <3>2
    <2> QED
      BY <2>3, <2>4, <2>5
  <1>6. UNCHANGED <<prepared, nextChannel, toServer, alloc, validUser, unanswered>>
    BY AnsweredEffect
  <1> QED
    BY <1>2, <1>3, <1>4, <1>5, <1>6, TypeNow, TypeParts

Datagram(t) ==
    [tid |-> t, type |-> requests[t].type, nonce |-> requests[t].nonce, peer |-> requests[t].peer,
     chan |-> requests[t].chan]

\* A request is sent, or sent again.
LEMMA MessageEffect ==
    ASSUME TypeInv, NEW t, OnMessage(t)
    PROVE  LET q == requests[t]
           IN /\ t \in DOMAIN requests /\ q.wait = 0 /\ RequestOK(t, q)
              /\ toServer' \in {toServer, toServer \cup {Datagram(t)}}
              /\ MessageOK(Datagram(t))
              /\ DOMAIN requests' = DOMAIN requests
              /\ \A u \in DOMAIN requests :
                    /\ requests'[u].type = requests[u].type /\ requests'[u].peer = requests[u].peer
                    /\ requests'[u].chan = requests[u].chan /\ requests'[u].entry = requests[u].entry
                    /\ requests'[u].nonce = requests[u].nonce /\ requests'[u].wait = requests[u].wait
                    /\ requests'[u] \in Requests
              /\ UNCHANGED <<prepared, connected, nonce, error, entries, nextChannel, toClient, server,
                             history>>
  <1>1. /\ t \in DOMAIN requests /\ requests[t].wait = 0 /\ requests[t].sends < MaxSends
        /\ SendStun(t)
        /\ requests' = [requests EXCEPT ![t].sends = @ + 1]
        /\ UNCHANGED <<prepared, connected, nonce, error, entries, nextChannel, toClient, server,
                       history>>
    BY DEF OnMessage
  <1>2. PICK q : q = requests[t]
    OBVIOUS
  <1>3. RequestOK(t, q) /\ q \in Requests /\ \A u \in DOMAIN requests : requests[u] \in Requests
    BY <1>1, <1>2, TypeNow DEF RequestsOK, RequestOK
  <1>4. PICK m : m = Datagram(t) /\ m = [tid |-> t, type |-> q.type, nonce |-> q.nonce,
                                        peer |-> q.peer, chan |-> q.chan]
    BY <1>2 DEF Datagram
  <1>5. toServer' \in {toServer, toServer \cup {m}}
    BY <1>1, <1>2, <1>4 DEF SendStun, ToServer
  <1>6. MessageOK(m)
    <2>1. /\ t \in Tx /\ q.type \in Types /\ q.nonce \in Auth /\ q.peer \in Peer \cup {None}
          /\ q.chan \in 0..MaxEntries
      BY <1>3 DEF RequestOK, Requests
    <2>2. m \in Message
      BY <1>4, <2>1 DEF Message
    <2> QED
      BY <1>3, <1>4, <2>2 DEF MessageOK, RequestOK
  <1>7. /\ DOMAIN requests' = DOMAIN requests
        /\ requests'[t] = [q EXCEPT !.sends = @ + 1]
        /\ \A u \in DOMAIN requests : u # t => requests'[u] = requests[u]
    BY <1>1, <1>2
  <1>8. /\ requests'[t] \in Requests
        /\ requests'[t].type = q.type /\ requests'[t].peer = q.peer
        /\ requests'[t].chan = q.chan /\ requests'[t].entry = q.entry
        /\ requests'[t].nonce = q.nonce /\ requests'[t].wait = q.wait
    <2>1. q.sends + 1 \in 0..MaxSends
      BY <1>1, <1>2, <1>3, TurnAssumption DEF Requests
    <2> QED
      BY <1>3, <1>7, <2>1 DEF Requests
  <1>9. \A u \in DOMAIN requests :
           /\ requests'[u].type = requests[u].type /\ requests'[u].peer = requests[u].peer
           /\ requests'[u].chan = requests[u].chan /\ requests'[u].entry = requests[u].entry
           /\ requests'[u].nonce = requests[u].nonce /\ requests'[u].wait = requests[u].wait
           /\ requests'[u] \in Requests
    BY <1>2, <1>3, <1>7, <1>8
  <1> QED
    BY <1>1, <1>2, <1>3, <1>4, <1>5, <1>6, <1>7, <1>9

LEMMA MessageType ==
    ASSUME TypeInv, NEW t, OnMessage(t)
    PROVE  TypeInv'
  <1>1. /\ DOMAIN requests' = DOMAIN requests
        /\ \A u \in DOMAIN requests :
              /\ requests'[u].type = requests[u].type /\ requests'[u].peer = requests[u].peer
              /\ requests'[u].chan = requests[u].chan /\ requests'[u].entry = requests[u].entry
              /\ requests'[u] \in Requests
        /\ UNCHANGED <<prepared, connected, nonce, error, entries, nextChannel, toClient, server, history>>
    BY MessageEffect
  <1>2. \A m \in toServer' : MessageOK(m)
    <2>1. PICK x : toServer' \in {toServer, toServer \cup {x}} /\ MessageOK(x)
      BY MessageEffect
    <2>2. \A m \in toServer : MessageOK(m)
      BY TypeNow
    <2> QED
      BY <2>1, <2>2
  <1>3. RequestsOK' /\ EntriesOK'
    <2>1. RequestsOK /\ EntriesOK
      BY TypeNow
    <2>2. RequestsOK'
      BY <1>1, <2>1 DEF RequestsOK, RequestOK, EntryOf
    <2> QED
      BY <1>1, <2>1, <2>2, SameEntries
  <1> QED
    BY <1>1, <1>2, <1>3, TypeNow, TypeParts DEF server, history

\* A request times out.
LEMMA TimeoutType ==
    ASSUME TypeInv, NEW t, OnTimeout(t)
    PROVE  /\ TypeInv' /\ Drops(t) /\ t \in DOMAIN requests
           /\ UNCHANGED <<prepared, connected, nonce, entries, nextChannel, toServer, toClient, server>>
           /\ IF requests[t].type = "Allocate"
              THEN error' = "posted" /\ failure' = NoAnswer
              ELSE unanswered' /\ UNCHANGED <<error, failure>>
           /\ unanswered => unanswered'
  <1>1. /\ t \in DOMAIN requests
        /\ requests' = Delete(requests, t)
        /\ unanswered' = (unanswered \/ requests[t].type # "Allocate")
        /\ OnTimeoutOf(requests[t].type)
        /\ UNCHANGED <<prepared, connected, nonce, entries, nextChannel, toServer, toClient, server>>
    BY DEF OnTimeout
  <1>2. Drops(t)
    BY <1>1, DeleteDrops
  <1>3. IF requests[t].type = "Allocate"
        THEN error' = "posted" /\ failure' = NoAnswer ELSE UNCHANGED <<error, failure>>
    BY <1>1 DEF OnTimeoutOf, OnAllocateError
  <1>4. RequestsOK' /\ EntriesOK'
    BY <1>1, <1>2, TypeNow, SameEntries, DropsOK
  <1>5. /\ error' \in {"none", "posted", "signalled"} /\ unanswered' \in BOOLEAN
        /\ failure' \in {0, NoAnswer, 400, 401, 437, 438, 500}
    <2>1. /\ error \in {"none", "posted", "signalled"} /\ unanswered \in BOOLEAN
          /\ failure \in {0, NoAnswer, 400, 401, 437, 438, 500}
      BY TypeNow
    <2> QED
      BY <1>1, <1>3, <2>1
  <1>6. TypeInv'
    BY <1>1, <1>4, <1>5, TypeNow, TypeParts DEF server
  <1> QED
    BY <1>1, <1>2, <1>3, <1>6

LEMMA PrepareType ==
    ASSUME TypeInv, PrepareAddress
    PROVE  /\ TypeInv' /\ Sends(PortRequest("Allocate", nonce, 0), {})
           /\ ~prepared /\ prepared'
           /\ UNCHANGED <<connected, nonce, error, entries, nextChannel, toServer, toClient, server,
                          history>>
  <1>1. /\ ~prepared /\ prepared' = TRUE /\ SendDelayed(PortRequest("Allocate", nonce, 0))
        /\ UNCHANGED <<connected, nonce, error, entries, nextChannel, toServer, toClient, server, history>>
    BY DEF PrepareAddress
  <1>2. nonce \in Auth /\ "Allocate" \in ForPort
    BY TypeNow DEF ForPort
  <1>3. Sends(PortRequest("Allocate", nonce, 0), {})
    BY <1>1, <1>2, NoDelay, PortDelayed DEF Sends
  <1>4. RequestsOK' /\ EntriesOK'
    BY <1>1, <1>3, TypeNow, SameEntries, SendsOK
  <1>5. TypeInv'
    BY <1>1, <1>4, TypeNow, TypeParts DEF server, history
  <1> QED
    BY <1>1, <1>3, <1>5

\* The entry of a peer is created, with the next channel number.
LEMMA CreateEffect ==
    ASSUME TypeInv, NEW p \in Peer, CreateEntry(p)
    PROVE  LET q == Request("CreatePermission", p, nextChannel, nonce, 0)
           IN /\ connected /\ p \notin DOMAIN entries
              /\ nextChannel \in 1..MaxEntries /\ nextChannel' = nextChannel + 1
              /\ DOMAIN entries' = DOMAIN entries \cup {p}
              /\ entries'[p] = [chan |-> nextChannel, state |-> "unbound"]
              /\ \A o \in DOMAIN entries : o # p /\ entries'[o] = entries[o]
              /\ \E n \in 1..MaxTx : /\ Adds(<<q.type, q.chan, n>>, q, {})
                                     /\ RequestOK(<<q.type, q.chan, n>>, q)
              /\ UNCHANGED <<prepared, connected, nonce, error, toServer, toClient, server, history>>
  <1>1. /\ connected /\ p \notin DOMAIN entries /\ nextChannel <= MaxEntries
        /\ entries' = Put(entries, p, [chan |-> nextChannel, state |-> "unbound"])
        /\ nextChannel' = nextChannel + 1
        /\ SendDelayed(Request("CreatePermission", p, nextChannel, nonce, 0))
        /\ UNCHANGED <<prepared, connected, nonce, error, toServer, toClient, server, history>>
    BY DEF CreateEntry, NextChannel
  <1>2. PICK q : q = Request("CreatePermission", p, nextChannel, nonce, 0)
    OBVIOUS
  <1>3. nextChannel \in 1..MaxEntries /\ nonce \in Auth
    BY <1>1, TypeNow, TurnAssumption
  <1>4. PICK n \in 1..MaxTx : Adds(<<q.type, q.chan, n>>, q, {})
    BY <1>1, <1>2, DelayedAdds
  <1>5. RequestOK(<<q.type, q.chan, n>>, q)
    <2>1. /\ "CreatePermission" \in Types /\ "CreatePermission" \notin ForPort
          /\ nextChannel \in 0..MaxEntries /\ nextChannel # 0
      BY <1>3 DEF Types, ForPort
    <2> QED
      BY <1>2, <1>3, <2>1, NoDelay, RequestMade
  <1>6. /\ DOMAIN entries' = DOMAIN entries \cup {p}
        /\ entries'[p] = [chan |-> nextChannel, state |-> "unbound"]
        /\ \A o \in DOMAIN entries : o # p /\ entries'[o] = entries[o]
    BY <1>1 DEF Put
  <1> QED
    BY <1>1, <1>2, <1>3, <1>4, <1>5, <1>6

LEMMA CreateType ==
    ASSUME TypeInv, NEW p \in Peer, CreateEntry(p)
    PROVE  TypeInv'
  <1>1. PICK q : q = Request("CreatePermission", p, nextChannel, nonce, 0)
    OBVIOUS
  <1>2. /\ p \notin DOMAIN entries
        /\ nextChannel \in 1..MaxEntries /\ nextChannel' = nextChannel + 1
        /\ DOMAIN entries' = DOMAIN entries \cup {p}
        /\ entries'[p] = [chan |-> nextChannel, state |-> "unbound"]
        /\ \A o \in DOMAIN entries : o # p /\ entries'[o] = entries[o]
        /\ UNCHANGED <<prepared, connected, nonce, error, toServer, toClient, server, history>>
    BY CreateEffect
  <1>3. PICK t : Adds(t, q, {}) /\ RequestOK(t, q)
    BY <1>1, CreateEffect
  <1>4. RequestsOK /\ EntriesOK
    BY TypeNow
  <1>5. EntriesOK'
    BY <1>2, <1>4 DEF EntriesOK, EntryOK
  <1>6. RequestsOK'
    <2> SUFFICES ASSUME NEW u \in DOMAIN requests'
                 PROVE  RequestOK(u, requests'[u]) /\ EntryOf(requests[u])'
      BY DEF RequestsOK
    <2>1. CASE u = t
      <3>1. requests'[u] = q /\ q.peer = p /\ q.chan = nextChannel
        BY <1>1, <1>3, <2>1 DEF Adds, Request
      <3> QED
        BY <1>2, <1>3, <2>1, <3>1 DEF EntryOf
    <2>2. CASE u # t
      <3>1. u \in DOMAIN requests /\ requests'[u] = requests[u]
        BY <1>3, <2>2 DEF Adds
      <3> QED
        BY <1>2, <1>4, <3>1 DEF RequestsOK, EntryOf
    <2> QED
      BY <2>1, <2>2
  <1>7. nextChannel' \in 1..(MaxEntries + 1)
    BY <1>2, TurnAssumption
  <1> QED
    BY <1>2, <1>5, <1>6, <1>7, TypeNow, TypeParts DEF server, history

\* The entry of a peer is destroyed, and its requests forget it.
LEMMA DestroyEffect ==
    ASSUME TypeInv, NEW p, DestroyEntry(p)
    PROVE  /\ p \in DOMAIN entries
           /\ DOMAIN entries' = DOMAIN entries \ {p}
           /\ \A o \in DOMAIN entries \ {p} : entries'[o] = entries[o]
           /\ DOMAIN requests' = DOMAIN requests
           /\ \A u \in DOMAIN requests :
                 /\ requests'[u].type = requests[u].type /\ requests'[u].peer = requests[u].peer
                 /\ requests'[u].chan = requests[u].chan
                 /\ requests'[u].entry = IF requests[u].entry = entries[p].chan
                                         THEN 0 ELSE requests[u].entry
                 /\ requests'[u].nonce = requests[u].nonce /\ requests'[u].wait = requests[u].wait
                 /\ requests'[u] \in Requests
           /\ UNCHANGED <<prepared, connected, nonce, error, nextChannel, toServer, toClient, server,
                          history>>
  <1>1. /\ p \in DOMAIN entries /\ entries' = Delete(entries, p)
        /\ requests' = [t \in DOMAIN requests |->
                          IF requests[t].entry = entries[p].chan
                          THEN [requests[t] EXCEPT !.entry = 0] ELSE requests[t]]
        /\ UNCHANGED <<prepared, connected, nonce, error, nextChannel, toServer, toClient, server, history>>
    BY DEF DestroyEntry
  <1>2. /\ DOMAIN entries' = DOMAIN entries \ {p}
        /\ \A o \in DOMAIN entries \ {p} : entries'[o] = entries[o]
    BY <1>1 DEF Delete, Restrict
  <1>3. \A u \in DOMAIN requests : requests[u] \in Requests
    BY TypeNow DEF RequestsOK, RequestOK
  <1>4. ASSUME NEW u \in DOMAIN requests
        PROVE  /\ requests'[u].type = requests[u].type /\ requests'[u].peer = requests[u].peer
               /\ requests'[u].chan = requests[u].chan
               /\ requests'[u].entry = IF requests[u].entry = entries[p].chan
                                       THEN 0 ELSE requests[u].entry
               /\ requests'[u].nonce = requests[u].nonce /\ requests'[u].wait = requests[u].wait
               /\ requests'[u] \in Requests
    <2>1. requests'[u] = IF requests[u].entry = entries[p].chan
                         THEN [requests[u] EXCEPT !.entry = 0] ELSE requests[u]
      BY <1>1
    <2>2. PICK q : q = requests[u] /\ q \in Requests
      BY <1>3
    <2>3. 0 \in 0..MaxEntries
      BY TurnAssumption
    <2>4. PICK g : g = [q EXCEPT !.entry = 0]
      OBVIOUS
    <2>5. /\ g \in Requests /\ g.type = q.type /\ g.peer = q.peer
          /\ g.chan = q.chan /\ g.nonce = q.nonce /\ g.wait = q.wait /\ g.entry = 0
      BY <2>2, <2>3, <2>4 DEF Requests
    <2> QED
      BY <2>1, <2>2, <2>4, <2>5
  <1> QED
    BY <1>1, <1>2, <1>4

LEMMA DestroyType ==
    ASSUME TypeInv, NEW p, DestroyEntry(p)
    PROVE  TypeInv'
  <1>1. /\ p \in DOMAIN entries
        /\ DOMAIN entries' = DOMAIN entries \ {p}
        /\ \A o \in DOMAIN entries \ {p} : entries'[o] = entries[o]
        /\ DOMAIN requests' = DOMAIN requests
        /\ \A u \in DOMAIN requests :
              /\ requests'[u].type = requests[u].type /\ requests'[u].peer = requests[u].peer
              /\ requests'[u].chan = requests[u].chan
              /\ requests'[u].entry = IF requests[u].entry = entries[p].chan
                                      THEN 0 ELSE requests[u].entry
              /\ requests'[u].nonce = requests[u].nonce /\ requests'[u].wait = requests[u].wait
              /\ requests'[u] \in Requests
        /\ UNCHANGED <<prepared, connected, nonce, error, nextChannel, toServer, toClient, server,
                       history>>
    BY DestroyEffect
  <1>2. RequestsOK /\ EntriesOK
    BY TypeNow
  <1>3. EntriesOK'
    BY <1>1, <1>2 DEF EntriesOK, EntryOK
  <1>4. RequestsOK'
    <2> SUFFICES ASSUME NEW u \in DOMAIN requests
                 PROVE  RequestOK(u, requests'[u]) /\ EntryOf(requests[u])'
      BY <1>1 DEF RequestsOK
    <2>1. RequestOK(u, requests[u]) /\ EntryOf(requests[u])
      BY <1>2 DEF RequestsOK
    <2>2. RequestOK(u, requests'[u])
      BY <1>1, <2>1 DEF RequestOK
    <2>3. EntryOf(requests[u])'
      <3> SUFFICES ASSUME requests'[u].entry # 0
                   PROVE  requests'[u].peer \in DOMAIN entries'
                          /\ entries'[requests'[u].peer].chan = requests'[u].chan
        BY DEF EntryOf
      <3>1. requests[u].entry # 0 /\ requests[u].entry # entries[p].chan
        BY <1>1
      <3>2. requests[u].entry = requests[u].chan
        BY <2>1, <3>1 DEF RequestOK, ForPort, ForEntry, Requests, Types
      <3>3. requests[u].peer \in DOMAIN entries /\ entries[requests[u].peer].chan = requests[u].chan
        BY <2>1, <3>1 DEF EntryOf
      <3>4. requests[u].peer # p
        BY <3>1, <3>2, <3>3
      <3> QED
        BY <1>1, <3>3, <3>4
    <2> QED
      BY <2>2, <2>3
  <1> QED
    BY <1>1, <1>3, <1>4, TypeNow, TypeParts DEF server, history

\* A channel is asked for.
LEMMA SendToEffect ==
    ASSUME TypeInv, NEW p, SendTo(p)
    PROVE  /\ connected /\ p \in DOMAIN entries /\ entries[p].state = "unbound"
           /\ entries' = [entries EXCEPT ![p].state = "binding"]
           /\ Sends(EntryRequest("ChannelBind", p, nonce, 0), {})
           /\ KeepsChannels /\ EntriesOK'
           /\ UNCHANGED <<prepared, connected, nonce, error, nextChannel, toServer, toClient, server,
                          history>>
  <1>1. /\ connected /\ p \in DOMAIN entries /\ entries[p].state = "unbound"
        /\ entries' = [entries EXCEPT ![p].state = "binding"]
        /\ SendDelayed(EntryRequest("ChannelBind", p, nonce, 0))
        /\ UNCHANGED <<prepared, connected, nonce, error, nextChannel, toServer, toClient, server, history>>
    BY DEF SendTo
  <1>2. nonce \in Auth /\ "ChannelBind" \in ForEntry
    BY TypeNow DEF ForEntry
  <1>3. Sends(EntryRequest("ChannelBind", p, nonce, 0), {})
    BY <1>1, <1>2, NoDelay, EntryDelayed DEF Sends
  <1>4. KeepsChannels /\ EntriesOK'
    BY <1>1, StateChange
  <1> QED
    BY <1>1, <1>3, <1>4

LEMMA SendToType ==
    ASSUME TypeInv, NEW p, SendTo(p)
    PROVE  TypeInv'
  <1>1. /\ Sends(EntryRequest("ChannelBind", p, nonce, 0), {}) /\ KeepsChannels /\ EntriesOK'
        /\ UNCHANGED <<prepared, connected, nonce, error, nextChannel, toServer, toClient, server, history>>
    BY SendToEffect
  <1>2. RequestsOK'
    BY <1>1, TypeNow, SendsOK
  <1> QED
    BY <1>1, <1>2, TypeNow, TypeParts DEF server, history

\* The rest of what the client does, and stuttering, changes no request or entry.
Calm ==
    \/ PrepareAddressFails \/ SignalPortError
    \/ \E r \in toClient : StrayAnswer(r) \/ OnReadData(r)
    \/ UNCHANGED vars

LEMMA QuietType ==
    ASSUME TypeInv, Calm
    PROVE  /\ TypeInv'
           /\ UNCHANGED <<prepared, error>> \/ error' \in {"posted", "signalled"}
           /\ prepared => prepared'
           /\ failure' \in {failure, NoAnswer}
           /\ \A m \in toClient' : m \in toClient
           /\ UNCHANGED <<connected, nonce, requests, entries, nextChannel, toServer, alloc,
                          validUser, unanswered>>
  <1>1. /\ UNCHANGED <<prepared, error>> \/ (prepared' = prepared /\ error' = "signalled")
           \/ (prepared' = TRUE /\ error' = "posted")
        /\ failure' \in {failure, NoAnswer}
        /\ \A m \in toClient' : m \in toClient
        /\ UNCHANGED <<connected, nonce, requests, entries, nextChannel, toServer, alloc,
                       validUser, unanswered>>
    BY DEF Calm, PrepareAddressFails, OnAllocateError, SignalPortError, StrayAnswer, OnReadData,
           client, server, history, vars
  <1>2. RequestsOK' /\ EntriesOK'
    BY <1>1, TypeNow, SameEntries, SameRequestsOK
  <1>3. error' \in {"none", "posted", "signalled"}
    BY <1>1, TypeNow
  <1>6. prepared' \in BOOLEAN
    BY <1>1, TypeNow, Zenon
  <1>7. failure' \in {0, NoAnswer, 400, 401, 437, 438, 500}
    BY <1>1, TypeNow
  <1>4. \A m \in toClient' : ResponseOK(m) \/ DataOK(m)
    BY <1>1, TypeNow
  <1>5. TypeInv'
    BY <1>1, <1>2, <1>3, <1>4, <1>6, <1>7, TypeNow, TypeParts
  <1> QED
    BY <1>1, <1>5

LEMMA ClientType == TypeInv /\ Client => TypeInv'
  <1> SUFFICES ASSUME TypeInv, Client PROVE TypeInv'
    OBVIOUS
  <1>1. CASE PrepareAddress
    BY <1>1, PrepareType
  <1>2. CASE Calm
    BY <1>2, QuietType
  <1>3. CASE \E t \in DOMAIN requests : OnMessage(t) \/ OnTimeout(t)
    BY <1>3, MessageType, TimeoutType
  <1>4. CASE \E r \in toClient : Answered(r)
    BY <1>4, AnsweredType
  <1>5. CASE \E p \in Peer : CreateEntry(p) \/ DestroyEntry(p) \/ SendTo(p)
    BY <1>5, CreateType, DestroyType, SendToType
  <1> QED
    BY <1>1, <1>2, <1>3, <1>4, <1>5 DEF Calm, Client, Answered

-----------------------------------------------------------------------------
(* Every step of the server keeps the types *)

Answer(m, code) ==
    [tid |-> m.tid, type |-> m.type, code |-> code,
     nonce |-> IF code \in {401, 438} THEN NonceTimeout ELSE None,
     lifetime |-> IF code = 0 THEN Lifetime ELSE 0]

\* The server takes m and answers it, unless the answer is lost.
Replies(m, code) ==
    /\ m \in toServer /\ toServer' = toServer \ {m} /\ MessageOK(m)
    /\ toClient' \in {toClient, toClient \cup {Answer(m, code)}} /\ ResponseOK(Answer(m, code))
    /\ UNCHANGED <<client, validUser, history>>

\* The allocation stays the one that it is, with these parts.
Becomes(timers, perms, channels) ==
    /\ alloc \in Allocation /\ alloc' \in Allocation /\ alloc'.tid = alloc.tid
    /\ alloc'.timers = timers /\ alloc'.perms = perms /\ alloc'.channels = channels

LEMMA AnswerParts ==
    ASSUME NEW m, NEW code
    PROVE  /\ Answer(m, code).tid = m.tid /\ Answer(m, code).type = m.type
           /\ Answer(m, code).code = code
  BY DEF Answer

LEMMA RepliesMade ==
    ASSUME TypeInv, NEW m, Receive(m), NEW code \in {0, 400, 401, 437, 438, 500}, Respond(m, code),
           UNCHANGED <<client, validUser, history>>
    PROVE  Replies(m, code)
  <1>1. m \in toServer /\ toServer' = toServer \ {m}
    BY DEF Receive
  <1>2. MessageOK(m)
    BY <1>1, TypeNow
  <1>3. PICK a : a = Answer(m, code)
    OBVIOUS
  <1>4. toClient' \in {toClient, toClient \cup {a}}
    BY <1>3 DEF Respond, ToClient, Answer
  <1>5. /\ m.tid \in Tx /\ m.type \in Types /\ m.tid[1] = m.type
    BY <1>2 DEF MessageOK, Message
  <1>6. NonceTimeout \in Auth /\ None \in Auth
    BY TurnAssumption DEF Auth
  <1>7. /\ a.tid = m.tid /\ a.type = m.type /\ a.code = code
        /\ a.nonce = IF code \in {401, 438} THEN NonceTimeout ELSE None
        /\ a.lifetime = IF code = 0 THEN Lifetime ELSE 0
        /\ a \in Response
    BY <1>3, <1>5, <1>6 DEF Answer, Response
  <1>8. ResponseOK(a)
    BY <1>5, <1>7 DEF ResponseOK
  <1> QED
    BY <1>1, <1>2, <1>3, <1>4, <1>8 DEF Replies

\* What CheckAuthorization answers.
LEMMA AuthorizationCode ==
    ASSUME NEW m
    PROVE  /\ CheckAuthorization(m) \in {0, 401, 438}
           /\ CheckAuthorization(m) = 0 <=> m.nonce # None /\ m.nonce # 0 /\ validUser
           /\ CheckAuthorization(m) = 438 <=> m.nonce = 0
           /\ CheckAuthorization(m) = 401 <=> m.nonce = None \/ (m.nonce # 0 /\ ~validUser)
  <1>1. None # 0
    BY NoneAssumption
  <1> QED
    BY <1>1 DEF CheckAuthorization

LEMMA AllocationNow ==
    ASSUME TypeInv, alloc # None
    PROVE  alloc \in Allocation
  BY TypeNow

\* The messages that the server refuses, by their code.
LEMMA RefusedEffect ==
    ASSUME TypeInv, NEW m, Refused(m)
    PROVE  /\ UNCHANGED alloc
           /\ \/ Replies(m, 438) /\ m.nonce = 0
              \/ Replies(m, 401) /\ (m.nonce = None \/ (m.nonce # 0 /\ ~validUser))
  <1>1. PICK c : c = CheckAuthorization(m)
    OBVIOUS
  <1>2. /\ Receive(m) /\ c # 0 /\ Respond(m, c) /\ UNCHANGED alloc
        /\ UNCHANGED <<client, validUser, history>>
    BY <1>1 DEF Refused, server
  <1>3. c \in {401, 438}
    BY <1>1, <1>2, AuthorizationCode
  <1>4. Replies(m, c)
    BY <1>2, <1>3, RepliesMade
  <1> QED
    BY <1>1, <1>2, <1>3, <1>4, AuthorizationCode

Granted(m) == m.nonce # None /\ m.nonce # 0 /\ validUser

LEMMA AuthorizedEffect ==
    ASSUME NEW m, Authorized(m)
    PROVE  Receive(m) /\ Granted(m)
  BY AuthorizationCode DEF Authorized, Granted

LEMMA NewEffect ==
    ASSUME TypeInv, NEW m, NewAllocation(m)
    PROVE  /\ m.type = "Allocate" /\ alloc = None /\ Granted(m)
           /\ \/ /\ Replies(m, 0)
                 /\ alloc' \in Allocation /\ alloc'.tid = m.tid /\ alloc'.timers = {Lifetime}
                 /\ DOMAIN alloc'.perms = {} /\ DOMAIN alloc'.channels = {}
              \/ Replies(m, 500) /\ UNCHANGED alloc
  <1>1. /\ Receive(m) /\ Granted(m) /\ m.type = "Allocate" /\ alloc = None
        /\ UNCHANGED <<client, validUser, history>>
    BY AuthorizedEffect DEF NewAllocation
  <1>2. CASE Respond(m, 500) /\ UNCHANGED alloc
    BY <1>1, <1>2, RepliesMade
  <1>3. CASE /\ alloc' = [tid |-> m.tid, timers |-> {Lifetime}, perms |-> <<>>, channels |-> <<>>]
             /\ Respond(m, 0)
    <2>1. Replies(m, 0)
      BY <1>1, <1>3, RepliesMade
    <2>2. m.tid \in Tx
      BY <2>1 DEF Replies, MessageOK, Message
    <2>3. alloc' \in Allocation
      BY <1>3, <2>2, AllocationMade
    <2> QED
      BY <1>1, <1>3, <2>1, <2>3
  <1> QED
    BY <1>2, <1>3 DEF NewAllocation

LEMMA TimersKept ==
    ASSUME NEW T \in SUBSET (0..Lifetime)
    PROVE  T \cup {Lifetime} \in (SUBSET (0..Lifetime)) \ {{}}
  <1>1. Lifetime \in 0..Lifetime
    BY TurnAssumption
  <1> QED
    BY <1>1

LEMMA AgainEffect ==
    ASSUME TypeInv, NEW m, AllocateAgain(m)
    PROVE  /\ m.type = "Allocate" /\ alloc # None /\ m.tid = alloc.tid /\ Granted(m)
           /\ Replies(m, 0)
           /\ Becomes(alloc.timers \cup {Lifetime}, alloc.perms, alloc.channels)
  <1>1. /\ Receive(m) /\ Granted(m) /\ m.type = "Allocate" /\ alloc # None /\ m.tid = alloc.tid
        /\ alloc' = [alloc EXCEPT !.timers = @ \cup {Lifetime}]
        /\ Respond(m, 0)
        /\ UNCHANGED <<client, validUser, history>>
    BY AuthorizedEffect DEF AllocateAgain, IsRetransmit
  <1>2. Replies(m, 0)
    BY <1>1, RepliesMade
  <1>3. PICK a : a = alloc /\ a \in Allocation
    BY <1>1, AllocationNow
  <1>4. a.timers \cup {Lifetime} \in (SUBSET (0..Lifetime)) \ {{}}
    BY <1>3, AllocationParts, TimersKept
  <1>5. PICK T : T = a.timers \cup {Lifetime}
    OBVIOUS
  <1>6. alloc' = [a EXCEPT !.timers = T]
    BY <1>1, <1>3, <1>5
  <1>7. alloc' \in Allocation
    BY <1>3, <1>4, <1>5, <1>6 DEF Allocation
  <1>8. Becomes(T, a.perms, a.channels)
    BY <1>3, <1>6, <1>7 DEF Becomes, Allocation
  <1> QED
    BY <1>1, <1>2, <1>3, <1>5, <1>8

LEMMA MismatchEffect ==
    ASSUME TypeInv, NEW m, Mismatch(m)
    PROVE  /\ IF m.type = "Allocate" THEN alloc # None /\ m.tid # alloc.tid ELSE alloc = None
           /\ Granted(m) /\ Replies(m, 437) /\ UNCHANGED alloc
  <1>1. /\ Receive(m) /\ Granted(m) /\ Respond(m, 437)
        /\ IF m.type = "Allocate" THEN alloc # None /\ m.tid # alloc.tid ELSE alloc = None
        /\ UNCHANGED alloc /\ UNCHANGED <<client, validUser, history>>
    BY AuthorizedEffect DEF Mismatch, IsRetransmit, server
  <1> QED
    BY <1>1, RepliesMade

LEMMA RefreshedEffect ==
    ASSUME TypeInv, NEW m, HandleRefreshRequest(m)
    PROVE  /\ m.type = "Refresh" /\ alloc # None /\ Granted(m) /\ Replies(m, 0)
           /\ Becomes({Lifetime}, alloc.perms, alloc.channels)
  <1>1. /\ Receive(m) /\ Granted(m) /\ m.type = "Refresh" /\ alloc # None
        /\ alloc' = [alloc EXCEPT !.timers = {Lifetime}]
        /\ Respond(m, 0)
        /\ UNCHANGED <<client, validUser, history>>
    BY AuthorizedEffect DEF HandleRefreshRequest, Refreshed
  <1>2. Replies(m, 0)
    BY <1>1, RepliesMade
  <1>3. PICK a : a = alloc /\ a \in Allocation
    BY <1>1, AllocationNow
  <1>4. {Lifetime} \in (SUBSET (0..Lifetime)) \ {{}}
    <2>1. {} \cup {Lifetime} = {Lifetime} /\ {} \in SUBSET (0..Lifetime)
      OBVIOUS
    <2> QED
      BY <2>1, TimersKept
  <1>6. alloc' = [a EXCEPT !.timers = {Lifetime}]
    BY <1>1, <1>3
  <1>7. alloc' \in Allocation
    BY <1>3, <1>4, <1>6 DEF Allocation
  <1>8. Becomes({Lifetime}, a.perms, a.channels)
    BY <1>3, <1>6, <1>7 DEF Becomes, Allocation
  <1> QED
    BY <1>1, <1>2, <1>3, <1>8

LEMMA PermittedEffect ==
    ASSUME TypeInv, NEW m, HandleCreatePermissionRequest(m)
    PROVE  /\ m.type = "CreatePermission" /\ alloc # None /\ m.peer \in Peer
           /\ Granted(m) /\ Replies(m, 0)
           /\ Becomes(alloc.timers, AddPermission(alloc.perms, m.peer), alloc.channels)
  <1>1. /\ Receive(m) /\ Granted(m) /\ m.type = "CreatePermission" /\ alloc # None
        /\ alloc' = [alloc EXCEPT !.perms = AddPermission(@, m.peer)]
        /\ Respond(m, 0)
        /\ UNCHANGED <<client, validUser, history>>
    BY AuthorizedEffect DEF HandleCreatePermissionRequest
  <1>2. Replies(m, 0)
    BY <1>1, RepliesMade
  <1>3. PICK a : a = alloc /\ a \in Allocation
    BY <1>1, AllocationNow
  <1>4. m.peer \in Peer
    BY <1>1, <1>2 DEF Replies, MessageOK, ForEntry
  <1>5. PICK P : P = AddPermission(a.perms, m.peer)
    OBVIOUS
  <1>6. P \in PermissionMaps
    BY <1>3, <1>4, <1>5, AllocationParts, PermissionKept
  <1>7. alloc' = [a EXCEPT !.perms = P]
    BY <1>1, <1>3, <1>5
  <1>8. alloc' \in Allocation
    BY <1>3, <1>6, <1>7 DEF Allocation, PermissionMaps
  <1>9. Becomes(a.timers, P, a.channels)
    BY <1>3, <1>7, <1>8 DEF Becomes, Allocation
  <1> QED
    BY <1>1, <1>2, <1>3, <1>4, <1>5, <1>9

LEMMA BoundEffect ==
    ASSUME TypeInv, NEW m, HandleChannelBindRequest(m)
    PROVE  /\ m.type = "ChannelBind" /\ alloc # None /\ m.peer \in Peer /\ m.chan \in 1..MaxEntries
           /\ Granted(m)
           /\ \/ /\ Bindable(m) /\ Replies(m, 0)
                 /\ Becomes(alloc.timers, AddPermission(alloc.perms, m.peer),
                            Put(alloc.channels, m.chan, [peer |-> m.peer, left |-> ChannelTimeout]))
              \/ ~Bindable(m) /\ Replies(m, 400) /\ UNCHANGED alloc
  <1>1. /\ Receive(m) /\ Granted(m) /\ m.type = "ChannelBind" /\ alloc # None
        /\ UNCHANGED <<client, validUser, history>>
    BY AuthorizedEffect DEF HandleChannelBindRequest
  <1>2. MessageOK(m)
    BY <1>1, TypeNow DEF Receive
  <1>3. m.peer \in Peer /\ m.chan \in 1..MaxEntries
    <2>1. m.chan \in 0..MaxEntries /\ m.peer \in Peer /\ m.chan # 0
      BY <1>1, <1>2 DEF MessageOK, Message, ForEntry
    <2> QED
      BY <2>1
  <1>4. CASE ~Bindable(m) /\ Respond(m, 400) /\ UNCHANGED alloc
    BY <1>1, <1>3, <1>4, RepliesMade
  <1>5. CASE /\ Bindable(m) /\ Respond(m, 0)
             /\ alloc' = [alloc EXCEPT
                  !.channels = Put(@, m.chan, [peer |-> m.peer, left |-> ChannelTimeout]),
                  !.perms = AddPermission(@, m.peer)]
    <2>1. Replies(m, 0)
      BY <1>1, <1>5, RepliesMade
    <2>2. PICK a : a = alloc /\ a \in Allocation
      BY <1>1, AllocationNow
    <2>3. PICK P : P = AddPermission(a.perms, m.peer)
      OBVIOUS
    <2>4. PICK C : C = Put(a.channels, m.chan, [peer |-> m.peer, left |-> ChannelTimeout])
      OBVIOUS
    <2>5. P \in PermissionMaps
      BY <1>3, <2>2, <2>3, AllocationParts, PermissionKept
    <2>6. C \in ChannelMaps
      BY <1>3, <2>2, <2>4, AllocationParts, ChannelKept
    <2>7. alloc' = [a EXCEPT !.channels = C, !.perms = P]
      BY <1>5, <2>2, <2>3, <2>4
    <2>8. alloc' \in Allocation
      BY <2>2, <2>5, <2>6, <2>7 DEF Allocation, PermissionMaps, ChannelMaps
    <2>9. Becomes(a.timers, P, C)
      BY <2>2, <2>7, <2>8 DEF Becomes, Allocation
    <2> QED
      BY <1>1, <1>3, <1>5, <2>1, <2>2, <2>3, <2>4, <2>9
  <1> QED
    BY <1>4, <1>5 DEF HandleChannelBindRequest

\* A packet of a peer is relayed, on the peer's channel if it has one.
LEMMA ExternalEffect ==
    ASSUME TypeInv, NEW p \in Peer, OnExternalPacket(p)
    PROVE  /\ alloc # None
           /\ UNCHANGED <<client, toServer, server, history>>
           /\ \E m : /\ toClient' \in {toClient, toClient \cup {m}} /\ DataOK(m) /\ m.from = p
                     /\ m.type = "ChannelData" => /\ m.chan \in DOMAIN alloc.channels
                                                  /\ alloc.channels[m.chan].peer = p
  <1>1. alloc # None /\ UNCHANGED <<client, toServer, server, history>>
    BY DEF OnExternalPacket
  <1>2. PICK a : a = alloc /\ a \in Allocation
    BY <1>1, AllocationNow
  <1>3. DOMAIN a.channels \subseteq 1..MaxEntries
    BY <1>2, AllocationParts, ChannelType
  <1>4. CASE /\ ChannelOf(p) # {}
             /\ ToClient({}, [type |-> "ChannelData", from |-> p,
                              chan |-> CHOOSE c \in ChannelOf(p) : TRUE])
    <2>1. PICK c : c = CHOOSE d \in ChannelOf(p) : TRUE
      OBVIOUS
    <2>2. c \in ChannelOf(p)
      BY <1>4, <2>1
    <2>3. c \in DOMAIN alloc.channels /\ alloc.channels[c].peer = p /\ c \in 1..MaxEntries
      BY <1>2, <1>3, <2>2 DEF ChannelOf
    <2>4. PICK m : m = [type |-> "ChannelData", from |-> p, chan |-> c]
      OBVIOUS
    <2>5. toClient' \in {toClient, toClient \cup {m}}
      BY <1>4, <2>1, <2>4 DEF ToClient
    <2>6. DataOK(m) /\ m.from = p /\ m.chan = c
      BY <2>3, <2>4 DEF DataOK
    <2> QED
      BY <1>1, <2>3, <2>5, <2>6
  <1>5. CASE ToClient({}, [type |-> "DataIndication", peer |-> p, from |-> p])
    <2>1. PICK m : m = [type |-> "DataIndication", peer |-> p, from |-> p]
      OBVIOUS
    <2>2. toClient' \in {toClient, toClient \cup {m}}
      BY <1>5, <2>1 DEF ToClient
    <2>3. DataOK(m) /\ m.from = p /\ m.type # "ChannelData"
      BY <2>1 DEF DataOK
    <2> QED
      BY <1>1, <2>2, <2>3
  <1> QED
    BY <1>4, <1>5 DEF OnExternalPacket

\* The timers of the server: the allocation, a permission or a channel goes.
LEMMA ExpiresEffect ==
    ASSUME TypeInv
    PROVE  /\ AllocationTimeout => /\ alloc # None /\ 0 \in alloc.timers /\ alloc' = None
                                   /\ UNCHANGED <<client, toServer, toClient, validUser, history>>
           /\ \A ip : PermissionExpires(ip) =>
                 /\ alloc # None /\ ip \in DOMAIN alloc.perms /\ alloc.perms[ip] = 0
                 /\ Becomes(alloc.timers, Delete(alloc.perms, ip), alloc.channels)
                 /\ UNCHANGED <<client, toServer, toClient, validUser, history>>
           /\ \A c : ChannelExpires(c) =>
                 /\ alloc # None /\ c \in DOMAIN alloc.channels /\ alloc.channels[c].left = 0
                 /\ Becomes(alloc.timers, alloc.perms, Delete(alloc.channels, c))
                 /\ UNCHANGED <<client, toServer, toClient, validUser, history>>
  <1>1. ASSUME NEW ip, PermissionExpires(ip)
        PROVE  Becomes(alloc.timers, Delete(alloc.perms, ip), alloc.channels)
    <2>1. PICK a : a = alloc /\ a \in Allocation
      BY <1>1, AllocationNow DEF PermissionExpires
    <2>2. PICK P : P = Delete(a.perms, ip)
      OBVIOUS
    <2>3. P \in PermissionMaps
      BY <2>1, <2>2, AllocationParts, PermissionKept
    <2>4. alloc' = [a EXCEPT !.perms = P]
      BY <1>1, <2>1, <2>2 DEF PermissionExpires
    <2>5. alloc' \in Allocation
      BY <2>1, <2>3, <2>4 DEF Allocation, PermissionMaps
    <2>6. Becomes(a.timers, P, a.channels)
      BY <2>1, <2>4, <2>5 DEF Becomes, Allocation
    <2> QED
      BY <2>1, <2>2, <2>6
  <1>2. ASSUME NEW c, ChannelExpires(c)
        PROVE  Becomes(alloc.timers, alloc.perms, Delete(alloc.channels, c))
    <2>1. PICK a : a = alloc /\ a \in Allocation
      BY <1>2, AllocationNow DEF ChannelExpires
    <2>2. PICK C : C = Delete(a.channels, c)
      OBVIOUS
    <2>3. C \in ChannelMaps
      BY <2>1, <2>2, AllocationParts, ChannelKept
    <2>4. alloc' = [a EXCEPT !.channels = C]
      BY <1>2, <2>1, <2>2 DEF ChannelExpires
    <2>5. alloc' \in Allocation
      BY <2>1, <2>3, <2>4 DEF Allocation, ChannelMaps
    <2>6. Becomes(a.timers, a.perms, C)
      BY <2>1, <2>4, <2>5 DEF Becomes, Allocation
    <2> QED
      BY <2>1, <2>2, <2>6
  <1>3. AllocationTimeout => /\ alloc # None /\ 0 \in alloc.timers /\ alloc' = None
                             /\ UNCHANGED <<client, toServer, toClient, validUser, history>>
    BY DEF AllocationTimeout
  <1>4. ASSUME NEW ip, PermissionExpires(ip)
        PROVE  /\ alloc # None /\ ip \in DOMAIN alloc.perms /\ alloc.perms[ip] = 0
               /\ UNCHANGED <<client, toServer, toClient, validUser, history>>
    BY <1>4 DEF PermissionExpires
  <1>5. ASSUME NEW c, ChannelExpires(c)
        PROVE  /\ alloc # None /\ c \in DOMAIN alloc.channels /\ alloc.channels[c].left = 0
               /\ UNCHANGED <<client, toServer, toClient, validUser, history>>
    BY <1>5 DEF ChannelExpires
  <1> QED
    BY <1>1, <1>2, <1>3, <1>4, <1>5

Handled(m) ==
    \/ Refused(m) \/ NewAllocation(m) \/ AllocateAgain(m) \/ Mismatch(m)
    \/ HandleRefreshRequest(m) \/ HandleCreatePermissionRequest(m) \/ HandleChannelBindRequest(m)

Expires ==
    \/ AllocationTimeout
    \/ \E p \in Peer : PermissionExpires(IpOf[p])
    \/ \E c \in 1..MaxEntries : ChannelExpires(c)

LEMMA HandledReplies ==
    ASSUME TypeInv, NEW m, Handled(m)
    PROVE  /\ \E code : Replies(m, code)
           /\ alloc' \in Allocation \cup {None}
  <1>1. alloc \in Allocation \cup {None}
    BY TypeNow
  <1>2. CASE Refused(m)
    BY <1>1, <1>2, RefusedEffect
  <1>3. CASE NewAllocation(m)
    BY <1>1, <1>3, NewEffect
  <1>4. CASE AllocateAgain(m)
    BY <1>4, AgainEffect DEF Becomes
  <1>5. CASE Mismatch(m)
    BY <1>1, <1>5, MismatchEffect
  <1>6. CASE HandleRefreshRequest(m)
    BY <1>6, RefreshedEffect DEF Becomes
  <1>7. CASE HandleCreatePermissionRequest(m)
    BY <1>7, PermittedEffect DEF Becomes
  <1>8. CASE HandleChannelBindRequest(m)
    BY <1>1, <1>8, BoundEffect DEF Becomes
  <1> QED
    BY <1>2, <1>3, <1>4, <1>5, <1>6, <1>7, <1>8 DEF Handled

\* The server leaves the client's state alone.
LEMMA SameClientOK ==
    ASSUME TypeInv, UNCHANGED <<client, validUser, history>>
    PROVE  /\ prepared' \in BOOLEAN /\ connected' \in BOOLEAN
           /\ nonce' \in Auth /\ error' \in {"none", "posted", "signalled"}
           /\ RequestsOK' /\ EntriesOK'
           /\ nextChannel' \in 1..(MaxEntries + 1)
           /\ validUser' \in BOOLEAN /\ unanswered' \in BOOLEAN
           /\ failure' \in {0, NoAnswer, 400, 401, 437, 438, 500}
  <1>1. /\ UNCHANGED <<prepared, connected, nonce, error, requests, entries, nextChannel>>
        /\ UNCHANGED <<validUser, failure, unanswered>>
    BY DEF client, history
  <1>2. RequestsOK' /\ EntriesOK'
    BY <1>1, TypeNow, SameEntries, SameRequestsOK
  <1> QED
    BY <1>1, <1>2, TypeNow

LEMMA HandledType ==
    ASSUME TypeInv, NEW m, Handled(m)
    PROVE  TypeInv'
  <1>1. PICK code : Replies(m, code)
    BY HandledReplies
  <1>2. /\ \A x \in toServer' : MessageOK(x)
        /\ \A x \in toClient' : ResponseOK(x) \/ DataOK(x)
    <2>1. /\ \A x \in toServer : MessageOK(x)
          /\ \A x \in toClient : ResponseOK(x) \/ DataOK(x)
      BY TypeNow
    <2>2. PICK a : /\ toClient' \in {toClient, toClient \cup {a}} /\ ResponseOK(a)
                   /\ toServer' = toServer \ {m}
      BY <1>1 DEF Replies
    <2> QED
      BY <2>1, <2>2
  <1>3. UNCHANGED <<client, validUser, history>> /\ alloc' \in Allocation \cup {None}
    BY <1>1, HandledReplies DEF Replies
  <1> QED
    BY <1>2, <1>3, SameClientOK, TypeParts

LEMMA ExternalType ==
    ASSUME TypeInv, NEW p \in Peer, OnExternalPacket(p)
    PROVE  TypeInv'
  <1>1. UNCHANGED <<client, toServer, server, history>>
    BY ExternalEffect
  <1>2. PICK m : toClient' \in {toClient, toClient \cup {m}} /\ DataOK(m)
    BY ExternalEffect
  <1>3. \A x \in toClient' : ResponseOK(x) \/ DataOK(x)
    BY <1>2, TypeNow
  <1>4. UNCHANGED <<client, validUser, history>> /\ UNCHANGED <<toServer, alloc>>
    BY <1>1 DEF server
  <1>5. (\A x \in toServer' : MessageOK(x)) /\ alloc' \in Allocation \cup {None}
    BY <1>4, TypeNow
  <1> QED
    BY <1>3, <1>4, <1>5, SameClientOK, TypeParts

LEMMA ExpiresType ==
    ASSUME TypeInv, Expires
    PROVE  TypeInv'
  <1>1. /\ UNCHANGED <<client, toServer, toClient, validUser, history>>
        /\ alloc' \in Allocation \cup {None}
    BY ExpiresEffect DEF Expires, Becomes
  <1>2. UNCHANGED <<client, validUser, history>> /\ UNCHANGED <<toServer, toClient>>
    BY <1>1
  <1>3. /\ \A x \in toServer' : MessageOK(x)
        /\ \A x \in toClient' : ResponseOK(x) \/ DataOK(x)
    BY <1>2, TypeNow
  <1> QED
    BY <1>1, <1>2, <1>3, SameClientOK, TypeParts

-----------------------------------------------------------------------------
(* A minute passes *)

LEMMA LessAuth ==
    ASSUME NEW n \in Auth
    PROVE  /\ Less(n) \in Auth
           /\ Less(n) = None <=> n = None
           /\ n \in Nat /\ n > 0 => Less(n) = n - 1
  <1>1. NonceTimeout \in Nat /\ None \notin Nat
    BY TurnAssumption, NoneAssumption
  <1> QED
    BY <1>1 DEF Less, Auth

Waits == (0..(Lifetime - Margin)) \cup (0..(PermissionTimeout - Margin))

\* What a minute does to the client's requests.
LEMMA TickRequests ==
    ASSUME TypeInv, Tick
    PROVE  /\ DOMAIN requests' = DOMAIN requests
           /\ \A u \in DOMAIN requests :
                 /\ requests'[u].type = requests[u].type /\ requests'[u].peer = requests[u].peer
                 /\ requests'[u].chan = requests[u].chan /\ requests'[u].entry = requests[u].entry
                 /\ requests'[u].nonce = Less(requests[u].nonce)
                 /\ requests[u].wait > 0 /\ requests'[u].wait = requests[u].wait - 1
                 /\ requests'[u] \in Requests
  <1>1. /\ requests' = [t \in DOMAIN requests |-> LaterRequest(requests[t])]
        /\ \A t \in DOMAIN requests : requests[t].wait > 0
    BY DEF Tick, Quiet
  <1>2. \A u \in DOMAIN requests : requests[u] \in Requests
    BY TypeNow DEF RequestsOK, RequestOK
  <1>3. ASSUME NEW u \in DOMAIN requests
        PROVE  /\ requests'[u].type = requests[u].type /\ requests'[u].peer = requests[u].peer
               /\ requests'[u].chan = requests[u].chan /\ requests'[u].entry = requests[u].entry
               /\ requests'[u].nonce = Less(requests[u].nonce)
               /\ requests[u].wait > 0 /\ requests'[u].wait = requests[u].wait - 1
               /\ requests'[u] \in Requests
    <2>1. PICK q : q = requests[u] /\ q \in Requests
      BY <1>2
    <2>2. q.wait \in Waits /\ q.nonce \in Auth /\ q.wait > 0
      BY <1>1, <2>1 DEF Requests, Waits
    <2>3. /\ Less(q.nonce) \in Auth
      BY <2>2, LessAuth
    <2>4. Less(q.wait) = q.wait - 1 /\ Less(q.wait) \in Waits
      <3>1. q.wait \in Nat /\ q.wait # None
        BY <2>2, NoneAssumption, Delays DEF Waits
      <3>2. Less(q.wait) = q.wait - 1
        BY <2>2, <3>1 DEF Less
      <3>3. q.wait - 1 \in Waits
        BY <2>2, Delays DEF Waits
      <3> QED
        BY <3>2, <3>3
    <2>5. PICK w, a : w = Less(q.wait) /\ a = Less(q.nonce)
      OBVIOUS
    <2>6. requests'[u] = [q EXCEPT !.wait = w, !.nonce = a]
      <3>1. requests'[u] = LaterRequest(q)
        BY <1>1, <2>1
      <3>2. LaterRequest(q) = [q EXCEPT !.wait = w, !.nonce = a]
        BY <2>5 DEF LaterRequest
      <3> QED
        BY <3>1, <3>2
    <2>7. PICK g : g = [q EXCEPT !.wait = w, !.nonce = a]
      OBVIOUS
    <2>8. /\ g \in Requests /\ g.type = q.type /\ g.peer = q.peer /\ g.chan = q.chan
          /\ g.entry = q.entry /\ g.nonce = a /\ g.wait = w
      BY <2>1, <2>3, <2>4, <2>5, <2>7 DEF Requests, Waits
    <2> QED
      BY <2>1, <2>2, <2>4, <2>5, <2>6, <2>7, <2>8
  <1>4. DOMAIN requests' = DOMAIN requests
    BY <1>1
  <1> QED
    BY <1>3, <1>4

\* What a minute does to the allocation.
LEMMA TickAllocation ==
    ASSUME TypeInv, Tick, alloc # None
    PROVE  /\ alloc \in Allocation /\ alloc' \in Allocation /\ alloc'.tid = alloc.tid
           /\ 0 \notin alloc.timers /\ alloc'.timers = {n - 1 : n \in alloc.timers}
           /\ DOMAIN alloc'.perms = DOMAIN alloc.perms
           /\ \A ip \in DOMAIN alloc.perms : alloc'.perms[ip] = alloc.perms[ip] - 1
           /\ DOMAIN alloc'.channels = DOMAIN alloc.channels
           /\ \A c \in DOMAIN alloc.channels :
                 /\ alloc'.channels[c].peer = alloc.channels[c].peer
                 /\ alloc'.channels[c].left = alloc.channels[c].left - 1
  <1>1. PICK a : a = alloc /\ a \in Allocation
    BY AllocationNow
  <1>2. /\ 0 \notin a.timers
        /\ \A ip \in DOMAIN a.perms : a.perms[ip] > 0
        /\ \A c \in DOMAIN a.channels : a.channels[c].left > 0
    BY <1>1 DEF Tick, Quiet
  <1>3. PICK T : T = {n - 1 : n \in a.timers}
    OBVIOUS
  <1>4. PICK P : P = [ip \in DOMAIN a.perms |-> a.perms[ip] - 1]
    OBVIOUS
  <1>5. PICK C : C = [c \in DOMAIN a.channels |-> [a.channels[c] EXCEPT !.left = a.channels[c].left - 1]]
    OBVIOUS
  <1>6. T \in (SUBSET (0..Lifetime)) \ {{}}
    <2>1. a.timers \in SUBSET (0..Lifetime) /\ a.timers # {} /\ Lifetime \in Nat
      BY <1>1, AllocationParts, TurnAssumption
    <2>2. \A n \in a.timers : n - 1 \in 0..Lifetime
      BY <1>2, <2>1
    <2>3. T \in SUBSET (0..Lifetime)
      BY <1>3, <2>2
    <2>4. T # {}
      BY <1>3, <2>1
    <2> QED
      BY <2>3, <2>4
  <1>7. P \in PermissionMaps
    BY <1>1, <1>2, <1>4, AllocationParts, PermissionKept
  <1>8. C \in ChannelMaps
    BY <1>1, <1>2, <1>5, AllocationParts, ChannelKept
  <1>9. alloc' = [a EXCEPT !.timers = T, !.perms = P, !.channels = C]
    BY <1>1, <1>3, <1>4, <1>5 DEF Tick, LaterAllocation
  <1>10. alloc' \in Allocation
    BY <1>1, <1>6, <1>7, <1>8, <1>9 DEF Allocation, PermissionMaps, ChannelMaps
  <1>11. alloc'.tid = a.tid /\ alloc'.timers = T /\ alloc'.perms = P /\ alloc'.channels = C
    BY <1>1, <1>9 DEF Allocation
  <1>12. /\ DOMAIN P = DOMAIN a.perms /\ \A ip \in DOMAIN a.perms : P[ip] = a.perms[ip] - 1
    BY <1>4
  <1>13. /\ DOMAIN C = DOMAIN a.channels
         /\ \A c \in DOMAIN a.channels : /\ C[c].peer = a.channels[c].peer
                                         /\ C[c].left = a.channels[c].left - 1
    <2>1. \A c \in DOMAIN a.channels : a.channels[c] \in [peer: Peer, left: 0..ChannelTimeout]
      BY <1>1, AllocationParts, ChannelType
    <2> QED
      BY <1>5, <2>1
  <1> QED
    BY <1>1, <1>2, <1>3, <1>10, <1>11, <1>12, <1>13

LEMMA TickRest ==
    ASSUME Tick
    PROVE  /\ nonce' = Less(nonce) /\ toServer = {} /\ toClient = {}
           /\ alloc = None => alloc' = None
           /\ UNCHANGED <<prepared, connected, error, entries, nextChannel, toServer, toClient,
                          validUser, failure, unanswered>>
  BY DEF Tick, Quiet, history

LEMMA TickType == TypeInv /\ Tick => TypeInv'
  <1> SUFFICES ASSUME TypeInv, Tick PROVE TypeInv'
    OBVIOUS
  <1>1. RequestsOK /\ EntriesOK
    BY TypeNow
  <1>2. RequestsOK'
    <2> SUFFICES ASSUME NEW u \in DOMAIN requests
                 PROVE  RequestOK(u, requests'[u]) /\ EntryOf(requests[u])'
      BY TickRequests DEF RequestsOK
    <2>1. RequestOK(u, requests[u]) /\ EntryOf(requests[u])
      BY <1>1 DEF RequestsOK
    <2>2. /\ requests'[u].type = requests[u].type /\ requests'[u].peer = requests[u].peer
          /\ requests'[u].chan = requests[u].chan /\ requests'[u].entry = requests[u].entry
          /\ requests'[u] \in Requests
      BY TickRequests
    <2>3. UNCHANGED entries
      BY TickRest
    <2> QED
      BY <2>1, <2>2, <2>3 DEF RequestOK, EntryOf
  <1>3. EntriesOK'
    BY <1>1, TickRest, SameEntries
  <1>4. nonce' \in Auth
    BY TickRest, TypeNow, LessAuth
  <1>5. alloc' \in Allocation \cup {None}
    BY TickRest, TickAllocation
  <1>6. /\ \A m \in toServer' : MessageOK(m)
        /\ \A m \in toClient' : ResponseOK(m) \/ DataOK(m)
    BY TickRest
  <1>7. UNCHANGED <<prepared, connected, error, nextChannel, validUser, failure, unanswered>>
    BY TickRest
  <1> QED
    BY <1>2, <1>3, <1>4, <1>5, <1>6, <1>7, TypeNow, TypeParts

LEMMA TypeStep == TypeInv /\ [Next]_vars => TypeInv'
  <1> SUFFICES ASSUME TypeInv, [Next]_vars PROVE TypeInv'
    OBVIOUS
  <1>1. CASE Client
    BY <1>1, ClientType
  <1>2. CASE \E m \in toServer : Handled(m)
    BY <1>2, HandledType
  <1>3. CASE \E p \in Peer : OnExternalPacket(p)
    BY <1>3, ExternalType
  <1>4. CASE Expires
    BY <1>4, ExpiresType
  <1>5. CASE Tick
    BY <1>5, TickType
  <1>6. CASE UNCHANGED vars
    BY <1>6, QuietType DEF Calm
  <1>7. Server => \/ \E m \in toServer : Handled(m)
                  \/ \E p \in Peer : OnExternalPacket(p)
                  \/ Expires
    BY DEF Server, Handled, Expires
  <1> QED
    BY <1>1, <1>2, <1>3, <1>4, <1>5, <1>6, <1>7 DEF Next

LEMMA TypeInit == Init => TypeInv
  <1> SUFFICES ASSUME Init PROVE TypeInv
    OBVIOUS
  <1>1. 1 \in 1..(MaxEntries + 1)
    BY TurnAssumption
  <1>2. DOMAIN requests = {} /\ DOMAIN entries = {}
    BY DEF Init
  <1> QED
    BY <1>1, <1>2 DEF Init, TypeInv, Auth

LEMMA TypeEnough == TypeInv => TypeOK
  <1> SUFFICES ASSUME TypeInv PROVE TypeOK
    OBVIOUS
  <1>1. DOMAIN requests \subseteq Tx /\ \A t \in DOMAIN requests : requests[t] \in Requests
    BY DEF TypeInv, RequestOK
  <1>2. /\ DOMAIN entries \subseteq Peer
        /\ \A p \in DOMAIN entries :
              entries[p] \in [chan: 1..MaxEntries, state: {"unbound", "binding", "bound"}]
    BY DEF TypeInv, EntryOK
  <1>3. \A m \in toServer : m \in [tid: Tx, type: Types, nonce: Auth, peer: Peer \cup {None},
                                   chan: 0..MaxEntries]
    BY DEF TypeInv, MessageOK, Message
  <1>4. \A m \in toClient :
          \/ m \in [tid: Tx, type: Types, code: {0, 400, 401, 437, 438, 500}, nonce: Auth,
                    lifetime: {0, Lifetime}]
          \/ m \in [type: {"ChannelData"}, chan: 1..MaxEntries, from: Peer]
          \/ m \in [type: {"DataIndication"}, peer: Peer, from: Peer]
    BY DEF TypeInv, ResponseOK, Response, DataOK
  <1> QED
    BY <1>1, <1>2, <1>3, <1>4, TypeNow DEF TypeOK

LEMMA AlwaysTyped == Spec => []TypeInv
  BY TypeInit, TypeStep, PTL DEF Spec

\* TypeOK: every variable of the port, the network and the server keeps its
\* type, whatever is lost, repeated or late; in particular the allocation always
\* has a timer, and no timer or nonce runs below zero.
THEOREM TypeCorrect == Spec => []TypeOK
  BY AlwaysTyped, TypeEnough, PTL

-----------------------------------------------------------------------------
(* A channel number belongs to one peer *)

\* No channel number is given to a peer in this step.
GivesNone == \A c \in 1..MaxEntries : \A p \in Peer : Given(c, p)' => Given(c, p)

LEMMA NoneGiven ==
    ASSUME ChannelInv, UNCHANGED nextChannel, GivesNone
    PROVE  ChannelInv'
  <1> SUFFICES ASSUME NEW c \in 1..MaxEntries, NEW p \in Peer, Given(c, p)'
               PROVE  c < nextChannel' /\ \A q \in Peer : Given(c, q)' => p = q
    BY DEF ChannelInv
  <1>1. Given(c, p) /\ \A q \in Peer : Given(c, q)' => Given(c, q)
    BY DEF GivesNone
  <1> QED
    BY <1>1 DEF ChannelInv

\* The parts that a step leaves alone give nothing.
LEMMA SameGiven ==
    ASSUME NEW c, NEW p
    PROVE  /\ KeepsChannels => (ByEntry(c, p)' => ByEntry(c, p))
           /\ UNCHANGED requests => (ByRequest(c, p)' => ByRequest(c, p))
           /\ toServer' \subseteq toServer => (ByMessage(c, p)' => ByMessage(c, p))
           /\ UNCHANGED alloc => (ByServer(c, p)' => ByServer(c, p))
           /\ toClient' \subseteq toClient => (ByData(c, p)' => ByData(c, p))
  <1>1. KeepsChannels => (ByEntry(c, p)' => ByEntry(c, p))
    BY DEF KeepsChannels, ByEntry
  <1>2. UNCHANGED requests => (ByRequest(c, p)' => ByRequest(c, p))
    BY DEF ByRequest
  <1>3. toServer' \subseteq toServer => (ByMessage(c, p)' => ByMessage(c, p))
    BY DEF ByMessage
  <1>4. UNCHANGED alloc => (ByServer(c, p)' => ByServer(c, p))
    BY DEF ByServer
  <1>5. toClient' \subseteq toClient => (ByData(c, p)' => ByData(c, p))
    BY DEF ByData
  <1> QED
    BY <1>1, <1>2, <1>3, <1>4, <1>5

\* Requests that keep their peers and channel numbers.
LEMMA RenewedGiven ==
    ASSUME DOMAIN requests' \subseteq DOMAIN requests,
           \A u \in DOMAIN requests' : /\ requests'[u].peer = requests[u].peer
                                       /\ requests'[u].chan = requests[u].chan,
           NEW c, NEW p, ByRequest(c, p)'
    PROVE  ByRequest(c, p)
  BY DEF ByRequest

LEMMA AnsweredGiven ==
    ASSUME TypeInv, NEW r, Answered(r)
    PROVE  GivesNone
  <1> SUFFICES ASSUME NEW c \in 1..MaxEntries, NEW p \in Peer, Given(c, p)' PROVE Given(c, p)
    BY DEF GivesNone
  <1>1. KeepsChannels
    BY AnsweredEntries
  <1>2. UNCHANGED <<nextChannel, toServer, alloc>> /\ toClient' \subseteq toClient
    <2>1. PICK type \in Types : CheckResponse(r, type)
      BY AnsweredEffect
    <2>2. toClient' \subseteq toClient
      BY <2>1 DEF CheckResponse
    <2> QED
      BY <2>2, AnsweredEffect
  <1>3. ASSUME ByRequest(c, p)' PROVE Given(c, p)
    <2>1. CASE Drops(r.tid)
      <3>1. ByRequest(c, p)
        BY <1>3, <2>1, RenewedGiven DEF Drops
      <3> QED
        BY <3>1 DEF Given
    <2>2. ASSUME NEW q, Sends(q, {r.tid}) PROVE Given(c, p)
      <3>1. PICK t : Adds(t, q, {r.tid}) /\ RequestOK(t, q) /\ NewOf(q)
        BY <2>2 DEF Sends
      <3>2. PICK u \in DOMAIN requests' : requests'[u].chan = c /\ requests'[u].peer = p
        BY <1>3 DEF ByRequest
      <3>3. CASE u = t
        <4>1. q.chan = c /\ q.peer = p /\ q.entry # 0
          BY <3>1, <3>2, <3>3 DEF Adds, NewOf
        <4>2. ByEntry(c, p)
          BY <3>1, <4>1 DEF NewOf, EntryOf, ByEntry
        <4> QED
          BY <4>2 DEF Given
      <3>4. CASE u # t
        <4>1. u \in DOMAIN requests /\ requests'[u] = requests[u]
          BY <3>1, <3>4 DEF Adds
        <4>2. ByRequest(c, p)
          BY <3>2, <4>1 DEF ByRequest
        <4> QED
          BY <4>2 DEF Given
      <3> QED
        BY <3>3, <3>4
    <2> QED
      BY <2>1, <2>2, AnsweredEffect
  <1>4. ASSUME ByEntry(c, p)' \/ ByMessage(c, p)' \/ ByServer(c, p)' \/ ByData(c, p)'
        PROVE  Given(c, p)
    <2>1. UNCHANGED alloc /\ toServer' \subseteq toServer
      BY <1>2
    <2> QED
      BY <1>1, <1>2, <1>4, <2>1, SameGiven DEF Given
  <1> QED
    BY <1>3, <1>4 DEF Given

LEMMA MessageGiven ==
    ASSUME TypeInv, NEW t, OnMessage(t)
    PROVE  GivesNone
  <1> SUFFICES ASSUME NEW c \in 1..MaxEntries, NEW p \in Peer, Given(c, p)' PROVE Given(c, p)
    BY DEF GivesNone
  <1>1. /\ t \in DOMAIN requests /\ DOMAIN requests' = DOMAIN requests
        /\ \A u \in DOMAIN requests : /\ requests'[u].peer = requests[u].peer
                                      /\ requests'[u].chan = requests[u].chan
        /\ UNCHANGED <<entries, toClient, server>>
    BY MessageEffect
  <1>2. PICK m : m = Datagram(t)
    OBVIOUS
  <1>3. toServer' \in {toServer, toServer \cup {m}}
    BY <1>2, MessageEffect
  <1>4. m.chan = requests[t].chan /\ m.peer = requests[t].peer
    BY <1>2 DEF Datagram
  <1>5. ByMessage(c, p)' => ByMessage(c, p) \/ ByRequest(c, p)
    BY <1>1, <1>3, <1>4 DEF ByMessage, ByRequest
  <1>6. ByRequest(c, p)' => ByRequest(c, p)
    BY <1>1, RenewedGiven
  <1>7. KeepsChannels /\ UNCHANGED alloc /\ toClient' \subseteq toClient
    BY <1>1, SameEntries DEF server
  <1> QED
    BY <1>5, <1>6, <1>7, SameGiven DEF Given

LEMMA CreateGiven ==
    ASSUME TypeInv, ChannelInv, NEW o \in Peer, CreateEntry(o)
    PROVE  ChannelInv'
  <1>1. PICK q : q = Request("CreatePermission", o, nextChannel, nonce, 0)
    OBVIOUS
  <1>2. /\ nextChannel \in 1..MaxEntries /\ nextChannel' = nextChannel + 1
        /\ DOMAIN entries' = DOMAIN entries \cup {o}
        /\ entries'[o] = [chan |-> nextChannel, state |-> "unbound"]
        /\ \A x \in DOMAIN entries : x # o /\ entries'[x] = entries[x]
        /\ UNCHANGED <<prepared, connected, nonce, error, toServer, toClient, server, history>>
    BY CreateEffect
  <1>3. PICK t : Adds(t, q, {})
    BY <1>1, CreateEffect
  <1>4. ASSUME NEW c \in 1..MaxEntries, NEW p \in Peer, Given(c, p)'
        PROVE  Given(c, p) \/ (c = nextChannel /\ p = o)
    <2>1. ByEntry(c, p)' => ByEntry(c, p) \/ (c = nextChannel /\ p = o)
      BY <1>2 DEF ByEntry
    <2>2. ByRequest(c, p)' => ByRequest(c, p) \/ (c = nextChannel /\ p = o)
      <3>1. q.chan = nextChannel /\ q.peer = o
        BY <1>1 DEF Request
      <3> QED
        BY <1>3, <3>1 DEF ByRequest, Adds
    <2>3. UNCHANGED alloc /\ toServer' \subseteq toServer /\ toClient' \subseteq toClient
      BY <1>2 DEF server
    <2> QED
      BY <1>4, <2>1, <2>2, <2>3, SameGiven DEF Given
  <1>5. \A c \in 1..MaxEntries : \A p \in Peer : Given(c, p) => c < nextChannel
    BY DEF ChannelInv
  <1> SUFFICES ASSUME NEW c \in 1..MaxEntries, NEW p \in Peer, Given(c, p)'
               PROVE  c < nextChannel' /\ \A x \in Peer : Given(c, x)' => p = x
    BY DEF ChannelInv
  <1>6. c < nextChannel'
    BY <1>2, <1>4, <1>5
  <1>7. ASSUME NEW x \in Peer, Given(c, x)' PROVE p = x
    <2>1. CASE c = nextChannel
      BY <1>2, <1>4, <1>5, <1>7, <2>1
    <2>2. CASE c # nextChannel
      BY <1>4, <1>7, <2>2 DEF ChannelInv
    <2> QED
      BY <2>1, <2>2
  <1> QED
    BY <1>6, <1>7

LEMMA DestroyGiven ==
    ASSUME TypeInv, NEW o, DestroyEntry(o)
    PROVE  GivesNone
  <1> SUFFICES ASSUME NEW c \in 1..MaxEntries, NEW p \in Peer, Given(c, p)' PROVE Given(c, p)
    BY DEF GivesNone
  <1>1. /\ DOMAIN entries' = DOMAIN entries \ {o}
        /\ \A x \in DOMAIN entries \ {o} : entries'[x] = entries[x]
        /\ DOMAIN requests' = DOMAIN requests
        /\ \A u \in DOMAIN requests : /\ requests'[u].peer = requests[u].peer
                                      /\ requests'[u].chan = requests[u].chan
        /\ UNCHANGED <<toServer, toClient, server>>
    BY DestroyEffect
  <1>2. ByEntry(c, p)' => ByEntry(c, p)
    BY <1>1 DEF ByEntry
  <1>3. ByRequest(c, p)' => ByRequest(c, p)
    BY <1>1, RenewedGiven
  <1>4. UNCHANGED alloc /\ toServer' \subseteq toServer /\ toClient' \subseteq toClient
    BY <1>1 DEF server
  <1> QED
    BY <1>2, <1>3, <1>4, SameGiven DEF Given

LEMMA SendToGiven ==
    ASSUME TypeInv, NEW o, SendTo(o)
    PROVE  GivesNone
  <1> SUFFICES ASSUME NEW c \in 1..MaxEntries, NEW p \in Peer, Given(c, p)' PROVE Given(c, p)
    BY DEF GivesNone
  <1>1. PICK q : q = EntryRequest("ChannelBind", o, nonce, 0)
    OBVIOUS
  <1>2. KeepsChannels /\ o \in DOMAIN entries /\ UNCHANGED <<toServer, toClient, server>>
    BY SendToEffect
  <1>3. PICK t : Adds(t, q, {}) /\ NewOf(q) /\ RequestOK(t, q)
    BY <1>1, SendToEffect DEF Sends
  <1>4. ByRequest(c, p)' => ByRequest(c, p) \/ ByEntry(c, p)
    <2>1. q.entry # 0 => ByEntry(q.chan, q.peer)
      BY <1>3 DEF NewOf, EntryOf, ByEntry
    <2>2. q.chan = c => q.entry # 0
      BY <1>3 DEF NewOf
    <2> QED
      BY <1>3, <2>1, <2>2 DEF ByRequest, Adds
  <1>5. UNCHANGED alloc /\ toServer' \subseteq toServer /\ toClient' \subseteq toClient
    BY <1>2 DEF server
  <1> QED
    BY <1>2, <1>4, <1>5, SameGiven DEF Given

LEMMA HandledGiven ==
    ASSUME TypeInv, NEW m, Handled(m)
    PROVE  GivesNone
  <1> SUFFICES ASSUME NEW c \in 1..MaxEntries, NEW p \in Peer, Given(c, p)' PROVE Given(c, p)
    BY DEF GivesNone
  <1>1. PICK code : Replies(m, code)
    BY HandledReplies
  <1>2. /\ m \in toServer /\ toServer' \subseteq toServer
        /\ UNCHANGED requests /\ KeepsChannels
    BY <1>1, SameEntries DEF Replies, client
  <1>3. ByData(c, p)' => ByData(c, p)
    <2>1. PICK a : toClient' \in {toClient, toClient \cup {a}} /\ ResponseOK(a)
      BY <1>1 DEF Replies
    <2>2. a.type # "ChannelData"
      BY <2>1 DEF ResponseOK, Response, Types
    <2> QED
      BY <2>1, <2>2 DEF ByData
  <1>4. ASSUME ByServer(c, p)' PROVE ByServer(c, p) \/ ByMessage(c, p)
    <2>0. alloc' # None /\ c \in DOMAIN alloc'.channels /\ alloc'.channels[c].peer = p
      BY <1>4 DEF ByServer
    <2>1. CASE UNCHANGED alloc
      BY <1>4, <2>1, SameGiven
    <2>2. CASE NewAllocation(m)
      BY <2>0, <2>1, <2>2, NewEffect
    <2>3. CASE AllocateAgain(m) \/ HandleRefreshRequest(m) \/ HandleCreatePermissionRequest(m)
      <3>1. alloc # None /\ alloc'.channels = alloc.channels
        BY <2>3, AgainEffect, RefreshedEffect, PermittedEffect DEF Becomes
      <3> QED
        BY <2>0, <3>1 DEF ByServer
    <2>4. CASE HandleChannelBindRequest(m) /\ ~UNCHANGED alloc
      <3>1. PICK y : y = [peer |-> m.peer, left |-> ChannelTimeout]
        OBVIOUS
      <3>2. alloc'.channels = Put(alloc.channels, m.chan, y) /\ alloc # None
        BY <2>4, <3>1, BoundEffect DEF Becomes
      <3>3. CASE c = m.chan
        <4>1. alloc'.channels[c] = y
          BY <3>2, <3>3 DEF Put
        <4>2. m.peer = p
          BY <2>0, <3>1, <4>1
        <4> QED
          BY <1>2, <3>3, <4>2 DEF ByMessage
      <3>4. CASE c # m.chan
        <4>1. c \in DOMAIN alloc.channels /\ alloc'.channels[c] = alloc.channels[c]
          BY <2>0, <3>2, <3>4 DEF Put
        <4> QED
          BY <2>0, <3>2, <4>1 DEF ByServer
      <3> QED
        BY <3>3, <3>4
    <2>5. CASE Refused(m) \/ Mismatch(m)
      BY <2>1, <2>5, RefusedEffect, MismatchEffect
    <2> QED
      BY <2>1, <2>2, <2>3, <2>4, <2>5 DEF Handled
  <1> QED
    BY <1>2, <1>3, <1>4, SameGiven DEF Given

LEMMA ServerGiven ==
    ASSUME TypeInv, Expires \/ (\E o \in Peer : OnExternalPacket(o)) \/ Tick
    PROVE  GivesNone
  <1> SUFFICES ASSUME NEW c \in 1..MaxEntries, NEW p \in Peer, Given(c, p)' PROVE Given(c, p)
    BY DEF GivesNone
  <1>1. CASE \E o \in Peer : OnExternalPacket(o)
    <2>1. PICK o \in Peer : OnExternalPacket(o)
      BY <1>1
    <2>2. alloc # None /\ UNCHANGED <<client, toServer, server, history>>
      BY <2>1, ExternalEffect
    <2>3. PICK m : /\ toClient' \in {toClient, toClient \cup {m}} /\ m.from = o
                   /\ m.type = "ChannelData" => /\ m.chan \in DOMAIN alloc.channels
                                                /\ alloc.channels[m.chan].peer = o
      BY <2>1, ExternalEffect
    <2>4. ByData(c, p)' => ByData(c, p) \/ ByServer(c, p)
      BY <2>2, <2>3 DEF ByData, ByServer
    <2>5. KeepsChannels /\ UNCHANGED <<requests, alloc>> /\ toServer' \subseteq toServer
      BY <2>2, SameEntries DEF client, server
    <2> QED
      BY <2>4, <2>5, SameGiven DEF Given
  <1>2. CASE Expires
    <2>1. /\ UNCHANGED <<client, toServer, toClient>>
      BY <1>2, ExpiresEffect DEF Expires
    <2>2. /\ KeepsChannels /\ UNCHANGED requests
          /\ toServer' \subseteq toServer /\ toClient' \subseteq toClient
      BY <2>1, SameEntries DEF client
    <2>3. ASSUME ByServer(c, p)' PROVE ByServer(c, p)
      <3>0. alloc' # None /\ c \in DOMAIN alloc'.channels /\ alloc'.channels[c].peer = p
        BY <2>3 DEF ByServer
      <3>1. CASE AllocationTimeout
        BY <3>0, <3>1, ExpiresEffect
      <3>2. CASE \E o \in Peer : PermissionExpires(IpOf[o])
        <4>1. alloc # None /\ alloc'.channels = alloc.channels
          BY <3>2, ExpiresEffect DEF Becomes
        <4> QED
          BY <3>0, <4>1 DEF ByServer
      <3>3. ASSUME NEW d \in 1..MaxEntries, ChannelExpires(d) PROVE ByServer(c, p)
        <4>1. alloc # None /\ alloc'.channels = Delete(alloc.channels, d)
          BY <3>3, ExpiresEffect DEF Becomes
        <4>2. c \in DOMAIN alloc.channels /\ alloc'.channels[c] = alloc.channels[c]
          BY <3>0, <4>1 DEF Delete, Restrict
        <4> QED
          BY <3>0, <4>1, <4>2 DEF ByServer
      <3> QED
        BY <1>2, <3>1, <3>2, <3>3 DEF Expires
    <2> QED
      BY <2>2, <2>3, SameGiven DEF Given
  <1>3. CASE Tick
    <2>1. /\ KeepsChannels /\ toServer' \subseteq toServer /\ toClient' \subseteq toClient
      BY <1>3, TickRest, SameEntries
    <2>2. ByRequest(c, p)' => ByRequest(c, p)
      BY <1>3, TickRequests, RenewedGiven
    <2>3. ByServer(c, p)' => ByServer(c, p)
      BY <1>3, TickRest, TickAllocation DEF ByServer
    <2> QED
      BY <2>1, <2>2, <2>3, SameGiven DEF Given
  <1> QED
    BY <1>1, <1>2, <1>3

LEMMA QuietGiven ==
    ASSUME TypeInv, NEW c, NEW p, Given(c, p)',
           UNCHANGED <<requests, entries, toServer, alloc>>, toClient' \subseteq toClient
    PROVE  Given(c, p)
  BY SameGiven, SameEntries DEF Given

LEMMA ChannelStep == TypeInv /\ ChannelInv /\ [Next]_vars => ChannelInv'
  <1> SUFFICES ASSUME TypeInv, ChannelInv, [Next]_vars PROVE ChannelInv'
    OBVIOUS
  <1>1. CASE \E p \in Peer : CreateEntry(p)
    BY <1>1, CreateGiven
  <1>2. CASE \E r \in toClient : Answered(r)
    BY <1>2, AnsweredGiven, AnsweredEffect, NoneGiven
  <1>3. CASE \E t \in DOMAIN requests : OnMessage(t)
    BY <1>3, MessageGiven, MessageEffect, NoneGiven
  <1>4. CASE \E p \in Peer : DestroyEntry(p)
    BY <1>4, DestroyGiven, DestroyEffect, NoneGiven
  <1>5. CASE \E p \in Peer : SendTo(p)
    BY <1>5, SendToGiven, SendToEffect, NoneGiven
  <1>6. CASE \E t \in DOMAIN requests : OnTimeout(t)
    <2>1. PICK t \in DOMAIN requests : OnTimeout(t)
      BY <1>6
    <2>2. Drops(t) /\ UNCHANGED <<entries, nextChannel, toServer, toClient, server>>
      BY <2>1, TimeoutType
    <2>3. KeepsChannels /\ UNCHANGED alloc /\ toServer' \subseteq toServer /\ toClient' \subseteq toClient
      BY <2>2, SameEntries DEF server
    <2>4. \A c, p : ByRequest(c, p)' => ByRequest(c, p)
      BY <2>2, RenewedGiven DEF Drops
    <2>5. GivesNone
      BY <2>3, <2>4, SameGiven DEF GivesNone, Given
    <2> QED
      BY <2>2, <2>5, NoneGiven
  <1>7. CASE PrepareAddress
    <2>1. PICK q : q = PortRequest("Allocate", nonce, 0)
      OBVIOUS
    <2>2. PICK t : Adds(t, q, {})
      BY <1>7, <2>1, PrepareType DEF Sends
    <2>3. UNCHANGED <<entries, nextChannel, toServer, toClient, server>> /\ q.chan = 0
      BY <1>7, <2>1, PrepareType DEF PortRequest, Request
    <2>4. \A c \in 1..MaxEntries : \A p : ByRequest(c, p)' => ByRequest(c, p)
      BY <2>2, <2>3 DEF ByRequest, Adds
    <2>5. KeepsChannels /\ UNCHANGED alloc /\ toServer' \subseteq toServer /\ toClient' \subseteq toClient
      BY <2>3, SameEntries DEF server
    <2>6. GivesNone
      BY <2>4, <2>5, SameGiven DEF GivesNone, Given
    <2> QED
      BY <2>3, <2>6, NoneGiven
  <1>8. CASE Calm
    <2>1. /\ UNCHANGED <<requests, entries, toServer, alloc>> /\ toClient' \subseteq toClient
          /\ UNCHANGED nextChannel
      BY <1>8, QuietType
    <2>2. GivesNone
      BY <2>1, QuietGiven DEF GivesNone
    <2> QED
      BY <2>1, <2>2, NoneGiven
  <1>9. CASE \E m \in toServer : Handled(m)
    <2>1. UNCHANGED nextChannel
      BY <1>9, HandledReplies DEF Replies, client
    <2> QED
      BY <1>9, <2>1, HandledGiven, NoneGiven
  <1>10. CASE Expires \/ (\E o \in Peer : OnExternalPacket(o)) \/ Tick
    <2>1. UNCHANGED nextChannel
      BY <1>10, ExpiresEffect, ExternalEffect, TickRest DEF Expires, client
    <2> QED
      BY <1>10, <2>1, ServerGiven, NoneGiven
  <1> QED
    BY <1>1, <1>2, <1>3, <1>4, <1>5, <1>6, <1>7, <1>8, <1>9, <1>10
       DEF Next, Client, Server, Answered, Handled, Expires, Calm

LEMMA ChannelInit == Init => ChannelInv
  <1> SUFFICES ASSUME Init, NEW c, NEW p, Given(c, p) PROVE FALSE
    BY DEF ChannelInv
  <1> QED
    BY DEF Init, Given, ByEntry, ByRequest, ByMessage, ByServer, ByData

LEMMA ChannelEnough == TypeInv /\ ChannelInv => RightSource
  <1> SUFFICES ASSUME TypeInv, ChannelInv, NEW m \in toClient, m.type \in DataTypes
               PROVE  DispatchedAs(m) \in {None, m.from}
    BY DEF RightSource
  <1>1. DataOK(m)
    BY TypeNow DEF ResponseOK, Response, Types, DataTypes
  <1>2. CASE m.type = "ChannelData"
    <2>1. m.chan \in 1..MaxEntries /\ m.from \in Peer
      BY <1>1, <1>2 DEF DataOK
    <2>2. ASSUME NEW p \in DOMAIN entries, entries[p].chan = m.chan PROVE p = m.from
      <3>1. p \in Peer
        BY TypeNow DEF EntriesOK, EntryOK
      <3>2. Given(m.chan, p) /\ Given(m.chan, m.from)
        BY <1>2, <2>2 DEF Given, ByEntry, ByData
      <3> QED
        BY <2>1, <3>1, <3>2 DEF ChannelInv
    <2> QED
      BY <1>2, <2>2 DEF DispatchedAs
  <1>3. CASE m.type = "DataIndication"
    BY <1>1, <1>3 DEF DataOK, DispatchedAs
  <1> QED
    BY <1>2, <1>3 DEF DataTypes

\* RightSource: relayed data is never taken for the data of another peer.  A
\* channel number that the client has given to an entry stays that peer's on its
\* way through requests, datagrams, the server's table and relayed packets, also
\* after the entry is gone, because CreateEntry never uses a number again.
THEOREM SourcesRight == Spec => []RightSource
  <1>1. Spec => [](TypeInv /\ ChannelInv)
    BY AlwaysTyped, ChannelInit, ChannelStep, PTL DEF Spec
  <1> QED
    BY <1>1, ChannelEnough, PTL

-----------------------------------------------------------------------------
(* PrepareAddress does not get stuck *)

Asking == \E t \in DOMAIN requests : requests[t].type = "Allocate"

\* An allocate request that is not answered or given up goes on.
LEMMA AskingKept ==
    ASSUME Asking, NEW gone,
           \A u \in DOMAIN requests \ gone : u \in DOMAIN requests' /\ requests'[u].type = requests[u].type,
           \A u \in DOMAIN requests \cap gone : requests[u].type # "Allocate"
    PROVE  Asking'
  BY DEF Asking

LEMMA SameAsking ==
    ASSUME DOMAIN requests' = DOMAIN requests,
           \A u \in DOMAIN requests : requests'[u].type = requests[u].type, Asking
    PROVE  Asking'
  BY DEF Asking

LEMMA StuckAnswered ==
    ASSUME TypeInv, PortNotStuck, NEW r, Answered(r)
    PROVE  PortNotStuck'
  <1>0. UNCHANGED prepared /\ (connected => connected') /\ (error # "none" => error' # "none")
    BY AnsweredEffect
  <1>1. CASE AllocateAnswered(r)
    <2>1. CASE connected' \/ error' # "none"
      BY <2>1 DEF PortNotStuck
    <2>2. CASE Sends(PortRequest("Allocate", r.nonce, 0), {r.tid})
      <3>1. PICK q : q = PortRequest("Allocate", r.nonce, 0)
        OBVIOUS
      <3>2. PICK t : Adds(t, q, {r.tid})
        BY <2>2, <3>1 DEF Sends
      <3>3. q.type = "Allocate"
        BY <3>1 DEF PortRequest, Request
      <3>4. t \in DOMAIN requests' /\ requests'[t].type = "Allocate"
        BY <3>2, <3>3 DEF Adds
      <3> QED
        BY <3>4 DEF PortNotStuck
    <2> QED
      BY <1>1, <2>1, <2>2, AllocateEffect
  <1>2. CASE RefreshAnswered(r) \/ PermissionAnswered(r) \/ BindAnswered(r)
    <2>1. PICK type \in Types : CheckResponse(r, type) /\ type # "Allocate"
      BY <1>2 DEF RefreshAnswered, PermissionAnswered, BindAnswered, Types
    <2>2. requests[r.tid].type # "Allocate"
      BY <2>1, AnswerOK
    <2>3. \A u \in DOMAIN requests \ {r.tid} : u \in DOMAIN requests' /\ requests'[u].type = requests[u].type
      BY AnsweredEffect DEF Sends, Adds, Drops
    <2>4. Asking => Asking'
      <3>1. \A u \in DOMAIN requests \cap {r.tid} : requests[u].type # "Allocate"
        BY <2>2
      <3> QED
        BY <2>3, <3>1, AskingKept
    <2> QED
      BY <1>0, <2>4 DEF PortNotStuck, Asking
  <1> QED
    BY <1>1, <1>2 DEF Answered

LEMMA StuckStep == TypeInv /\ PortNotStuck /\ [Next]_vars => PortNotStuck'
  <1> SUFFICES ASSUME TypeInv, PortNotStuck, [Next]_vars PROVE PortNotStuck'
    OBVIOUS
  <1>0. PortNotStuck <=> (prepared => connected \/ error # "none" \/ Asking)
    BY DEF PortNotStuck, Asking
  <1>1. CASE PrepareAddress
    <2>1. PICK q : q = PortRequest("Allocate", nonce, 0)
      OBVIOUS
    <2>2. PICK t : Adds(t, q, {})
      BY <1>1, <2>1, PrepareType DEF Sends
    <2>3. q.type = "Allocate"
      BY <2>1 DEF PortRequest, Request
    <2> QED
      BY <2>2, <2>3 DEF PortNotStuck, Adds
  <1>2. CASE \E r \in toClient : Answered(r)
    BY <1>2, StuckAnswered
  <1>3. CASE \E t \in DOMAIN requests : OnTimeout(t)
    <2>1. PICK t \in DOMAIN requests : OnTimeout(t)
      BY <1>3
    <2>2. /\ UNCHANGED <<prepared, connected>> /\ Drops(t)
          /\ requests[t].type = "Allocate" => error' = "posted"
          /\ requests[t].type # "Allocate" => UNCHANGED error
      BY <2>1, TimeoutType
    <2>3. CASE requests[t].type = "Allocate"
      BY <2>2, <2>3 DEF PortNotStuck
    <2>4. CASE requests[t].type # "Allocate"
      <3>1. Asking => Asking'
        BY <2>2, <2>4, AskingKept DEF Drops
      <3> QED
        BY <1>0, <2>2, <2>4, <3>1 DEF PortNotStuck, Asking
    <2> QED
      BY <2>3, <2>4
  <1>4. CASE \E p \in Peer : CreateEntry(p)
    <2>1. PICK p \in Peer : CreateEntry(p)
      BY <1>4
    <2>2. connected /\ UNCHANGED connected
      BY <2>1, CreateEffect
    <2> QED
      BY <2>2 DEF PortNotStuck
  <1>5. CASE \E p \in Peer : SendTo(p)
    <2>1. connected /\ UNCHANGED connected
      BY <1>5, SendToEffect
    <2> QED
      BY <2>1 DEF PortNotStuck
  <1>6. CASE \/ \E t \in DOMAIN requests : OnMessage(t)
             \/ \E p \in Peer : DestroyEntry(p)
             \/ Tick
    <2>1. /\ DOMAIN requests' = DOMAIN requests
          /\ \A u \in DOMAIN requests : requests'[u].type = requests[u].type
          /\ UNCHANGED <<prepared, connected, error>>
      BY <1>6, MessageEffect, DestroyEffect, TickRequests, TickRest
    <2>2. Asking => Asking'
      BY <2>1, SameAsking
    <2> QED
      BY <1>0, <2>1, <2>2 DEF PortNotStuck, Asking
  <1>7. CASE Calm
    <2>1. /\ UNCHANGED <<connected, requests>>
          /\ UNCHANGED <<prepared, error>> \/ error' # "none"
      BY <1>7, QuietType
    <2> QED
      BY <2>1 DEF PortNotStuck
  <1>8. CASE Server
    <2>1. UNCHANGED client
      BY <1>8, HandledReplies, ExpiresEffect, ExternalEffect DEF Server, Handled, Expires, Replies
    <2> QED
      BY <2>1 DEF PortNotStuck, client
  <1> QED
    BY <1>1, <1>2, <1>3, <1>4, <1>5, <1>6, <1>7, <1>8 DEF Next, Client, Answered, Calm

\* PortNotStuck: after PrepareAddress the port is connected, has an error to
\* report or still asks.  Every path through OnAuthChallenge, the error answers
\* and the time-out of the allocate request leaves one of the three.
THEOREM PortProgress == Spec => []PortNotStuck
  <1>1. Init => PortNotStuck
    BY DEF Init, PortNotStuck
  <1> QED
    BY <1>1, StuckStep, AlwaysTyped, PTL DEF Spec

=============================================================================
