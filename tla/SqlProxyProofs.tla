--------------------------- MODULE SqlProxyProofs ---------------------------
(***************************************************************************)
(* Proofs about SqlProxy, for any number of sessions and descriptors and   *)
(* whether or not descriptor numbers are recycled.                         *)
(***************************************************************************)
EXTENDS SqlProxy, TLAPS

-----------------------------------------------------------------------------
(* Maps and queues                                                         *)

LEMMA PutIsMap ==
    ASSUME NEW K, NEW V, NEW f, IsMap(f, K, V), NEW k \in K, NEW v \in V
    PROVE  /\ IsMap(Put(f, k, v), K, V)
           /\ DOMAIN Put(f, k, v) = DOMAIN f \cup {k}
           /\ Put(f, k, v)[k] = v
           /\ \A x \in DOMAIN f : x # k => Put(f, k, v)[x] = f[x]
BY DEF IsMap, Put

LEMMA EraseIsMap ==
    ASSUME NEW K, NEW V, NEW f, IsMap(f, K, V), NEW k
    PROVE  /\ IsMap(Erase(f, k), K, V)
           /\ DOMAIN Erase(f, k) = DOMAIN f \ {k}
           /\ \A x \in DOMAIN f \ {k} : Erase(f, k)[x] = f[x]
BY DEF IsMap, Erase

LEMMA TouchIsMap ==
    ASSUME NEW K, NEW V, NEW f, IsMap(f, K, V), NEW k \in K, 0 \in V
    PROVE  /\ IsMap(Touch(f, k), K, V)
           /\ DOMAIN Touch(f, k) = DOMAIN f \cup {k}
<1>1. CASE k \in DOMAIN f
  <2>1. DOMAIN f \cup {k} = DOMAIN f
    BY <1>1
  <2> QED
    BY <1>1, <2>1 DEF Touch
<1>2. CASE k \notin DOMAIN f
  <2>1. IsMap(Put(f, k, 0), K, V) /\ DOMAIN Put(f, k, 0) = DOMAIN f \cup {k}
    BY PutIsMap
  <2> QED
    BY <1>2, <2>1 DEF Touch
<1> QED
  BY <1>1, <1>2

LEMMA AtInRange ==
    ASSUME NEW K, NEW V, NEW f, IsMap(f, K, V), NEW k, 0 \in V
    PROVE  At(f, k) \in V
BY DEF At, IsMap

LEMMA FlushedType ==
    ASSUME NEW S, NEW q \in Seq(Seq(S)), NEW n \in Int, n > 0 => q # <<>> /\ n <= Len(Head(q))
    PROVE  Flushed(q, n) \in Seq(Seq(S))
<1>1. CASE n <= 0
  BY <1>1 DEF Flushed
<1>2. CASE n > 0
  <2>1. Head(q) \in Seq(S) /\ Tail(q) \in Seq(Seq(S))
    BY <1>2
  <2>2. SubSeq(Head(q), n + 1, Len(Head(q))) \in Seq(S)
    BY <1>2, <2>1
  <2> QED
    BY <1>2, <2>1, <2>2 DEF Flushed
<1> QED
  BY <1>1, <1>2

LEMMA RelayedType ==
    ASSUME NEW S, NEW q \in Seq(Seq(S)), NEW body \in Seq(S), NEW n \in Int,
           n <= Len(ToSend(q, body))
    PROVE  Relayed(q, body, n) \in Seq(Seq(S))
<1>1. CASE q # <<>>
  <2>1. Append(q, body) \in Seq(Seq(S)) /\ Append(q, body) # <<>> /\ Head(Append(q, body)) = Head(q)
    BY <1>1
  <2>2. Flushed(Append(q, body), n) \in Seq(Seq(S))
    BY <1>1, <2>1, FlushedType DEF ToSend
  <2> QED
    BY <1>1, <2>2 DEF Relayed
<1>2. CASE q = <<>>
  <2>1. <<body>> \in Seq(Seq(S)) /\ <<body>> # <<>> /\ Head(<<body>>) = body
    OBVIOUS
  <2>2. Flushed(<<body>>, n) \in Seq(Seq(S))
    BY <1>2, <2>1, FlushedType DEF ToSend
  <2> QED
    BY <1>2, <2>2 DEF Relayed
<1> QED
  BY <1>1, <1>2

-----------------------------------------------------------------------------
(* Type correctness                                                        *)

TypeInv == TypeOK /\ PolledHaveQueues

LEMMA FdFacts == 0 \in Fd /\ 0 \in FdOrNone /\ -1 \in FdOrNone /\ Fd \subseteq FdOrNone
                 /\ FdOrNone \subseteq Int
BY ProxyAssumption DEF FdOrNone

LEMMA MsgType ==
    ASSUME NEW tod \in Tod, NEW c \in FdOrNone, NEW s \in FdOrNone
    PROVE  /\ Msg(tod, c, s) \in Message
           /\ tod # "new_connect" => Msg(tod, c, s) \in ClientMessage
BY DEF Msg, Message, ClientMessage

LEMMA DataMsgType ==
    ASSUME NEW c \in FdOrNone, NEW s \in FdOrNone, NEW body \in Seq(Unit)
    PROVE  /\ DataMsg(c, s, body) \in Message
           /\ DataMsg(c, s, body) \in ClientMessage
BY DEF DataMsg, Msg, Message, ClientMessage, Tod

LEMMA ConnectMsgType ==
    ASSUME NEW c \in FdOrNone, NEW k \in Sessions
    PROVE  ConnectMsg(c, k) \in ClientMessage
<1>1. ConnectMsg(c, k) = [tod |-> "new_connect", c |-> c, s |-> -1, body |-> <<>>, who |-> k]
  BY DEF ConnectMsg, Msg
<1>2. ConnectMsg(c, k) \in Message
  BY <1>1, FdFacts DEF Message, Tod
<1> QED
  BY <1>1, <1>2 DEF ClientMessage

LEMMA RecvType ==
    ASSUME SharedTypeOK, NEW ep \in Endpoint, NEW m \in RecvCounts(ep)
    PROVE  /\ RecvBody(ep, m) \in Seq(Unit)
           /\ [read EXCEPT ![ep] = @ + m] \in [Endpoint -> 0 .. MaxUnits]
           /\ \A e \in Endpoint : [read EXCEPT ![ep] = @ + m][e] <= sent[e]
<1>1. /\ m \in Nat /\ m >= 1 /\ read[ep] \in 0 .. MaxUnits /\ sent[ep] \in 0 .. MaxUnits
      /\ read[ep] + m <= sent[ep]
  BY ProxyAssumption DEF RecvCounts, Available, SharedTypeOK
<1>2. \A i \in 1 .. m : [from |-> ep, n |-> read[ep] + i] \in Unit
  BY <1>1, ProxyAssumption DEF Unit
<1>3. RecvBody(ep, m) \in Seq(Unit)
  BY <1>1, <1>2 DEF RecvBody
<1>4. read[ep] + m \in 0 .. MaxUnits
  BY <1>1, ProxyAssumption
<1> QED
  BY <1>1, <1>3, <1>4 DEF SharedTypeOK

LEMMA TransmitType ==
    ASSUME SharedTypeOK, NEW d, NEW buf \in Seq(Unit), NEW n \in Int, n <= Len(buf),
           Transmit(d, buf, n)
    PROVE  got' \in [Endpoint -> Seq(Unit)]
<1>1. SubSeq(buf, 1, n) \in Seq(Unit)
  OBVIOUS
<1>2. CASE owner[d] \in Endpoint
  <2>1. got[owner[d]] \o SubSeq(buf, 1, n) \in Seq(Unit)
    BY <1>1, <1>2 DEF SharedTypeOK
  <2> QED
    BY <1>2, <2>1 DEF Transmit, SharedTypeOK
<1>3. CASE owner[d] \notin Endpoint
  BY <1>3 DEF Transmit, SharedTypeOK
<1> QED
  BY <1>2, <1>3

LEMMA SendResultsType ==
    ASSUME NEW d, NEW buf \in Seq(Unit), NEW n \in SendResults(d, buf)
    PROVE  n \in Int /\ n <= Len(buf)
<1>1. Len(buf) \in Nat
  OBVIOUS
<1> QED
  BY <1>1 DEF SendResults

LEMMA GiveOutType ==
    ASSUME SharedTypeOK, NEW d, NEW ep \in Endpoint, GiveOut(d, ep)
    PROVE  /\ open' \subseteq Fd
           /\ IsMap(owner', Fd, Owner)
           /\ open' \subseteq DOMAIN owner'
           /\ DOMAIN owner' = DOMAIN owner \cup {d}
           /\ owner'[d] = ep
           /\ \A x \in DOMAIN owner : x # d => owner'[x] = owner[x]
<1>1. d \in Fd /\ ep \in Owner /\ IsMap(owner, Fd, Owner) /\ owner' = Put(owner, d, ep)
  BY DEF GiveOut, IsNextFd, Owner, SharedTypeOK
<1>2. /\ IsMap(owner', Fd, Owner)
      /\ DOMAIN owner' = DOMAIN owner \cup {d}
      /\ owner'[d] = ep
      /\ \A x \in DOMAIN owner : x # d => owner'[x] = owner[x]
  BY <1>1, PutIsMap
<1> QED
  BY <1>1, <1>2 DEF GiveOut, SharedTypeOK

LEMMA InitTypeInv == Init => TypeInv
<1> SUFFICES ASSUME Init PROVE TypeInv
  OBVIOUS
<1> USE ProxyAssumption, FdFacts
<1>1. SharedTypeOK
  BY DEF Init, SharedInit, SharedTypeOK, IsMap, Owner, PeerState
<1>2. ClientTypeOK
  BY DEF Init, ClientInit, ClientTypeOK, IsMap
<1>3. ServerTypeOK
  BY DEF Init, ServerInit, ServerTypeOK, IsMap
<1>4. PolledHaveQueues
  BY DEF Init, ClientInit, ServerInit, PolledHaveQueues
<1> QED
  BY <1>1, <1>2, <1>3, <1>4 DEF TypeInv, TypeOK

LEMMA NetTypeInv ==
    ASSUME TypeInv, NetStep, UNCHANGED <<cvars, svars>>
    PROVE  TypeInv'
<1> USE ProxyAssumption
<1>1. ClientTypeOK' /\ ServerTypeOK'
  BY DEF TypeInv, TypeOK, ClientTypeOK, ServerTypeOK, cvars, svars
<1>2. SharedTypeOK' /\ UNCHANGED owner
  <2>1. CASE \E k \in Sessions : Connect(k)
    BY <2>1 DEF Connect, SharedTypeOK, TypeInv, TypeOK, PeerState
  <2>2. CASE \E ep \in Endpoint : ConnectAnswered(ep)
    BY <2>2 DEF ConnectAnswered, SharedTypeOK, TypeInv, TypeOK, PeerState
  <2>3. CASE \E ep \in Endpoint : PeerSends(ep)
    BY <2>3 DEF PeerSends, SharedTypeOK, TypeInv, TypeOK
  <2>4. CASE \E ep \in Endpoint : PeerShutsDown(ep)
    BY <2>4 DEF PeerShutsDown, SharedTypeOK, TypeInv, TypeOK, PeerState
  <2>5. CASE \E ep \in Endpoint : PeerResets(ep)
    BY <2>5 DEF PeerResets, SharedTypeOK, TypeInv, TypeOK, PeerState
  <2> QED
    BY <2>1, <2>2, <2>3, <2>4, <2>5 DEF NetStep, PeerStep
<1>3. PolledHaveQueues'
  BY <1>2 DEF PolledHaveQueues, TypeInv, cvars, svars
<1> QED
  BY <1>1, <1>2, <1>3 DEF TypeInv, TypeOK

-----------------------------------------------------------------------------
(* Type correctness: the client thread                                     *)

\* What a step of the client thread owes to the type invariant, besides the pipes.
ClientPart ==
    /\ ClientTypeOK
    /\ open \subseteq Fd
    /\ open \subseteq DOMAIN owner
    /\ c_fds \subseteq DOMAIN c_storage

LEMMA ClientCloseForceType ==
    ASSUME TypeInv, NEW d, ClientCloseConnectForce(d), UNCHANGED owner, c_stale' \in BOOLEAN
    PROVE  ClientPart' /\ c_fds' \subseteq c_fds
<1>1. /\ IsMap(c_db, Fd, FdOrNone) /\ IsMap(c_storage, Fd, Queue)
      /\ c_fds \subseteq Fd /\ c_for_close \subseteq Fd /\ c_fds \subseteq DOMAIN c_storage
      /\ open \subseteq Fd /\ open \subseteq DOMAIN owner
  BY DEF TypeInv, TypeOK, ClientTypeOK, SharedTypeOK, PolledHaveQueues
<1>2. IsMap(Erase(c_db, d), Fd, FdOrNone)
  BY <1>1, EraseIsMap
<1>3. IsMap(Erase(c_storage, d), Fd, Queue)
  BY <1>1, EraseIsMap
<1>6. DOMAIN Erase(c_storage, d) = DOMAIN c_storage \ {d}
  BY <1>1 DEF Erase
<1>4. IsMap(c_db', Fd, FdOrNone) /\ IsMap(c_storage', Fd, Queue)
  BY <1>2, <1>3 DEF ClientCloseConnectForce
<1>5. /\ c_fds' \subseteq c_fds /\ c_for_close' \subseteq Fd /\ c_fds' \subseteq DOMAIN c_storage'
      /\ open' \subseteq Fd /\ open' \subseteq DOMAIN owner'
  BY <1>1, <1>6 DEF ClientCloseConnectForce
<1> QED
  BY <1>1, <1>4, <1>5 DEF ClientPart, ClientTypeOK

LEMMA ClientCloseType ==
    ASSUME TypeInv, NEW d, ClientCloseConnect(d), UNCHANGED owner
    PROVE  ClientPart' /\ c_fds' \subseteq c_fds
<1>1. CASE ClientUnsent(d)
  <2>1. /\ IsMap(c_db, Fd, FdOrNone) /\ IsMap(c_storage, Fd, Queue)
        /\ c_fds \subseteq Fd /\ c_for_close \subseteq Fd /\ c_fds \subseteq DOMAIN c_storage
        /\ open \subseteq Fd /\ open \subseteq DOMAIN owner
    BY DEF TypeInv, TypeOK, ClientTypeOK, SharedTypeOK, PolledHaveQueues
  <2>2. d \in Fd
    BY <1>1, <2>1 DEF ClientUnsent, IsMap
  <2>3. IsMap(Erase(c_db, d), Fd, FdOrNone)
    BY <2>1, EraseIsMap
  <2> QED
    BY <1>1, <2>1, <2>2, <2>3 DEF ClientCloseConnect, ClientPart, ClientTypeOK
<1>2. CASE ~ClientUnsent(d)
  BY <1>2, ClientCloseForceType DEF ClientCloseConnect
<1> QED
  BY <1>1, <1>2

\* The conjuncts of TypeInv that a step of the client thread has to preserve.
LEMMA ClientTypeSuffices ==
    ASSUME TypeInv, UNCHANGED svars,
           ClientPart',
           alive' \in BOOLEAN,
           cs' \in Seq(ClientMessage), sc' \in Seq(Message),
           IsMap(owner', Fd, Owner),
           backlog' \subseteq Sessions, UNCHANGED <<peer, sent>>,
           read' \in [Endpoint -> 0 .. MaxUnits],
           \A ep \in Endpoint : read'[ep] <= sent[ep],
           got' \in [Endpoint -> Seq(Unit)],
           \A d \in c_fds' \cup s_fds : d \in DOMAIN owner' /\ owner'[d] \in Endpoint
    PROVE  TypeInv'
<1>1. ServerTypeOK'
  BY DEF TypeInv, TypeOK, ServerTypeOK, svars
<1>2. SharedTypeOK'
  BY DEF TypeInv, TypeOK, SharedTypeOK, ClientPart
<1>3. PolledHaveQueues'
  BY DEF TypeInv, PolledHaveQueues, ClientPart, svars
<1> QED
  BY <1>1, <1>2, <1>3 DEF TypeInv, TypeOK, ClientPart

\* Facts about the current state that the steps below use again and again.
LEMMA ClientFacts ==
    ASSUME TypeInv
    PROVE  /\ SharedTypeOK
           /\ IsMap(c_db, Fd, FdOrNone)
           /\ IsMap(c_storage, Fd, Queue)
           /\ IsMap(owner, Fd, Owner)
           /\ c_fds \subseteq Fd /\ c_for_close \subseteq Fd /\ c_stale \in BOOLEAN
           /\ c_fds \subseteq DOMAIN c_storage
           /\ open \subseteq Fd /\ open \subseteq DOMAIN owner
           /\ \A d \in c_fds \cup s_fds : d \in DOMAIN owner /\ owner[d] \in Endpoint
           /\ alive \in BOOLEAN
           /\ cs \in Seq(ClientMessage) /\ sc \in Seq(Message)
           /\ backlog \subseteq Sessions
           /\ read \in [Endpoint -> 0 .. MaxUnits]
           /\ \A ep \in Endpoint : read[ep] <= sent[ep]
           /\ got \in [Endpoint -> Seq(Unit)]
BY DEF TypeInv, TypeOK, SharedTypeOK, ClientTypeOK, PolledHaveQueues

LEMMA QueueFacts ==
    ASSUME NEW f, IsMap(f, Fd, Queue), NEW d \in DOMAIN f
    PROVE  /\ f[d] \in Seq(Seq(Unit))
           /\ f[d] # <<>> => Head(f[d]) \in Seq(Unit)
<1>1. f[d] \in Seq(Seq(Unit))
  BY DEF IsMap, Queue
<1> QED
  BY <1>1

LEMMA HeadOfPipe ==
    ASSUME NEW M, NEW q \in Seq(M), q # <<>>
    PROVE  Head(q) \in M /\ Tail(q) \in Seq(M)
OBVIOUS

LEMMA ClientFatalType ==
    ASSUME TypeInv, ClientFatal, UNCHANGED svars
    PROVE  TypeInv'
<1>1. ClientPart' /\ UNCHANGED <<owner, cs, sc, netvars, c_fds>> /\ alive' = FALSE
  BY ClientFacts DEF ClientFatal, ClientPart, ClientTypeOK, cvars
<1> QED
  BY <1>1, ClientFacts, ClientTypeSuffices DEF netvars

LEMMA AcceptType ==
    ASSUME TypeInv, NEW k \in Sessions, Accept(k), UNCHANGED svars
    PROVE  TypeInv'
<1> USE ClientFacts, FdFacts
<1>1. PICK c \in Fd : /\ GiveOut(c, Client(k))
                      /\ cs' = Append(cs, ConnectMsg(c, k))
                      /\ c_db' = Put(c_db, c, -1)
                      /\ c_storage' = Put(c_storage, c, <<>>)
                      /\ c_fds' = c_fds \cup {c}
  BY DEF Accept
<1>2. /\ UNCHANGED <<alive, sc, peer, sent, read, got, c_for_close, c_stale>>
      /\ backlog' = backlog \ {k}
  BY DEF Accept
<1>3. Client(k) \in Endpoint
  BY DEF Client, Endpoint
<1>4. /\ open' \subseteq Fd /\ open' \subseteq DOMAIN owner' /\ IsMap(owner', Fd, Owner)
      /\ \A d \in c_fds' \cup s_fds : d \in DOMAIN owner' /\ owner'[d] \in Endpoint
  BY <1>1, <1>3, GiveOutType
<1>5. IsMap(c_db', Fd, FdOrNone)
  BY <1>1, PutIsMap
<1>6. IsMap(c_storage', Fd, Queue)
  <2>1. <<>> \in Queue
    BY DEF Queue
  <2> QED
    BY <1>1, <2>1, PutIsMap
<1>7. c_fds' \subseteq DOMAIN c_storage'
  BY <1>1 DEF Put
<1>8. cs' \in Seq(ClientMessage)
  <2>1. ConnectMsg(c, k) \in ClientMessage
    BY ConnectMsgType
  <2> QED
    BY <1>1, <2>1
<1>9. ClientPart'
  BY <1>1, <1>2, <1>4, <1>5, <1>6, <1>7 DEF ClientPart, ClientTypeOK
<1> QED
  BY <1>1, <1>2, <1>4, <1>8, <1>9, ClientTypeSuffices

LEMMA ClientMessageType ==
    ASSUME TypeInv, ClientHandlesMessage, UNCHANGED svars
    PROVE  TypeInv'
<1> USE ClientFacts, FdFacts
<1> DEFINE d == Head(sc)
<1>1. sc # <<>> /\ sc' = Tail(sc)
  BY DEF ClientHandlesMessage, FromServerNewConnect, FromServerData, FromServerNotConnect,
         FromServerDisconnect, ClientReceives
<1>2. d \in Message /\ sc' \in Seq(Message)
  BY <1>1, HeadOfPipe
<1>3. d.c \in FdOrNone /\ d.s \in FdOrNone /\ d.body \in Seq(Unit)
  BY <1>2 DEF Message
<1>4. CASE FromServerNewConnect
  <2>1. UNCHANGED <<alive, open, owner, netvars, c_fds, c_for_close, c_storage>> /\ c_stale' = FALSE
    BY <1>4 DEF FromServerNewConnect
  <2>2. IsMap(c_db', Fd, FdOrNone)
    <3>1. CASE d.c \in DOMAIN c_db /\ c_db' = Put(c_db, d.c, d.s)
      <4>1. d.c \in Fd
        BY <3>1 DEF IsMap
      <4> QED
        BY <1>3, <3>1, <4>1, PutIsMap
    <3>2. CASE UNCHANGED c_db
      BY <3>2
    <3> QED
      BY <1>4, <3>1, <3>2 DEF FromServerNewConnect
  <2>3. cs' \in Seq(ClientMessage)
    <3>1. Msg("connect_not_found", d.c, d.s) \in ClientMessage
      BY <1>3, MsgType DEF Tod
    <3>2. CASE UNCHANGED cs
      BY <3>2
    <3>3. CASE cs' = Append(cs, Msg("connect_not_found", d.c, d.s))
      BY <3>1, <3>3
    <3> QED
      BY <1>4, <3>2, <3>3 DEF FromServerNewConnect
  <2>4. ClientPart'
    BY <2>1, <2>2 DEF ClientPart, ClientTypeOK
  <2> QED
    BY <1>2, <2>1, <2>3, <2>4, ClientTypeSuffices DEF netvars
<1>5. CASE FromServerData
  <2>1. /\ UNCHANGED <<alive, open, owner, backlog, peer, sent, read, c_db, c_fds, c_for_close>>
        /\ c_stale' = FALSE
    BY <1>5 DEF FromServerData
  <2>2. /\ cs' \in Seq(ClientMessage)
        /\ got' \in [Endpoint -> Seq(Unit)]
        /\ IsMap(c_storage', Fd, Queue)
        /\ DOMAIN c_storage \subseteq DOMAIN c_storage'
    <3>1. CASE UNCHANGED <<cs, got, c_storage>>
      BY <3>1
    <3>2. CASE cs' = Append(cs, Msg("connect_not_found", d.c, d.s)) /\ UNCHANGED <<got, c_storage>>
      <4>1. Msg("connect_not_found", d.c, d.s) \in ClientMessage
        BY <1>3, MsgType DEF Tod
      <4> QED
        BY <3>2, <4>1
    <3>3. ASSUME d.c \in c_fds, UNCHANGED cs,
                 NEW n \in SendResults(d.c, ToSend(c_storage[d.c], d.body)),
                 Transmit(d.c, ToSend(c_storage[d.c], d.body), n),
                 c_storage' = Put(c_storage, d.c, Relayed(c_storage[d.c], d.body, n))
          PROVE  /\ cs' \in Seq(ClientMessage)
                 /\ got' \in [Endpoint -> Seq(Unit)]
                 /\ IsMap(c_storage', Fd, Queue)
                 /\ DOMAIN c_storage \subseteq DOMAIN c_storage'
      <4>1. c_storage[d.c] \in Seq(Seq(Unit)) /\ d.c \in DOMAIN c_storage /\ d.c \in Fd
        BY <3>3, QueueFacts
      <4>2. ToSend(c_storage[d.c], d.body) \in Seq(Unit)
        BY <1>3, <4>1, QueueFacts DEF ToSend
      <4>3. n \in Int /\ n <= Len(ToSend(c_storage[d.c], d.body))
        BY <3>3, <4>2, SendResultsType
      <4>4. Relayed(c_storage[d.c], d.body, n) \in Queue
        BY <1>3, <4>1, <4>3, RelayedType DEF Queue
      <4>5. IsMap(c_storage', Fd, Queue)
        BY <3>3, <4>1, <4>4, PutIsMap
      <4>6. DOMAIN c_storage \subseteq DOMAIN c_storage'
        BY <3>3 DEF Put
      <4>7. got' \in [Endpoint -> Seq(Unit)]
        BY <3>3, <4>2, <4>3, TransmitType
      <4> QED
        BY <3>3, <4>5, <4>6, <4>7
    <3> QED
      BY <1>5, <3>1, <3>2, <3>3 DEF FromServerData
  <2>3. ClientPart'
    BY <2>1, <2>2 DEF ClientPart, ClientTypeOK
  <2> QED
    BY <1>2, <2>1, <2>2, <2>3, ClientTypeSuffices
<1>6. CASE FromServerNotConnect \/ FromServerDisconnect
  <2>1. ClientCloseConnect(d.c) /\ UNCHANGED <<alive, owner, cs, netvars>>
    BY <1>6 DEF FromServerNotConnect, FromServerDisconnect
  <2>2. ClientPart' /\ c_fds' \subseteq c_fds
    BY <2>1, ClientCloseType
  <2> QED
    BY <1>2, <2>1, <2>2, ClientTypeSuffices DEF netvars
<1> QED
  BY <1>4, <1>5, <1>6 DEF ClientHandlesMessage

LEMMA ClientReadType ==
    ASSUME TypeInv, NEW c \in c_fds, NEW q \in Queue, ClientRead(c, q), UNCHANGED <<owner, c_stale>>
    PROVE  /\ ClientPart' /\ c_fds' \subseteq c_fds
           /\ cs' \in Seq(ClientMessage)
           /\ read' \in [Endpoint -> 0 .. MaxUnits]
           /\ \A ep \in Endpoint : read'[ep] <= sent[ep]
<1> USE ClientFacts, FdFacts
<1> DEFINE ep == owner[c]
           srv == At(c_db, c)
<1>1. c \in Fd /\ c \in FdOrNone /\ ep \in Endpoint /\ srv \in FdOrNone
  BY AtInRange
<1>2. CASE /\ cs' = Append(cs, Msg("disconnect", c, srv))
           /\ ClientCloseConnectForce(c)
           /\ UNCHANGED read
  <2>1. ClientPart' /\ c_fds' \subseteq c_fds
    BY <1>2, ClientCloseForceType
  <2>2. Msg("disconnect", c, srv) \in ClientMessage
    BY <1>1, MsgType DEF Tod
  <2> QED
    BY <1>2, <2>1, <2>2
<1>3. CASE /\ c_storage' = Put(c_storage, c, q)
           /\ c_db' = Touch(c_db, c)
           /\ UNCHANGED <<open, c_fds, c_for_close>>
           /\ \/ UNCHANGED <<cs, read>>
              \/ \E m \in RecvCounts(ep) :
                  /\ cs' = Append(cs, DataMsg(c, srv, RecvBody(ep, m)))
                  /\ read' = [read EXCEPT ![ep] = @ + m]
  <2>1. IsMap(c_storage', Fd, Queue)
    BY <1>1, <1>3, PutIsMap
  <2>2. c_fds' \subseteq DOMAIN c_storage'
    BY <1>3 DEF Put
  <2>3. IsMap(c_db', Fd, FdOrNone)
    BY <1>1, <1>3, TouchIsMap
  <2>4. ClientPart' /\ c_fds' \subseteq c_fds
    BY <1>3, <2>1, <2>2, <2>3 DEF ClientPart, ClientTypeOK
  <2>5. ASSUME NEW m \in RecvCounts(ep),
               cs' = Append(cs, DataMsg(c, srv, RecvBody(ep, m))),
               read' = [read EXCEPT ![ep] = @ + m]
        PROVE  /\ cs' \in Seq(ClientMessage)
               /\ read' \in [Endpoint -> 0 .. MaxUnits]
               /\ \A e \in Endpoint : read'[e] <= sent[e]
    <3>1. RecvBody(ep, m) \in Seq(Unit)
      BY <1>1, RecvType
    <3>2. DataMsg(c, srv, RecvBody(ep, m)) \in ClientMessage
      BY <1>1, <3>1, DataMsgType
    <3>3. read' \in [Endpoint -> 0 .. MaxUnits] /\ \A e \in Endpoint : read'[e] <= sent[e]
      BY <1>1, <2>5, RecvType
    <3> QED
      BY <2>5, <3>2, <3>3
  <2> QED
    BY <1>3, <2>4, <2>5
<1> QED
  BY <1>2, <1>3 DEF ClientRead

LEMMA FromClientsType ==
    ASSUME TypeInv, NEW c, NEW out \in BOOLEAN, NEW in \in BOOLEAN, FromClients(c, out, in),
           UNCHANGED svars
    PROVE  TypeInv'
<1> USE ClientFacts, FdFacts
<1> DEFINE front == IF out /\ ClientUnsent(c) THEN Head(c_storage[c]) ELSE <<>>
           drained(q) == out /\ c \in c_for_close /\ q = <<>>
<1>1. PICK n \in IF front = <<>> THEN {0} ELSE SendResults(c, front) :
        /\ Transmit(c, front, n)
        /\ \/ /\ ClientCloseConnectForce(c)
              /\ UNCHANGED <<cs, read>>
           \/ ClientRead(c, Flushed(c_storage[c], n))
           \/ /\ c_storage' = Put(c_storage, c, Flushed(c_storage[c], n))
              /\ UNCHANGED <<open, cs, read, c_db, c_fds, c_for_close>>
  BY DEF FromClients
<1>2. c \in c_fds /\ UNCHANGED <<alive, owner, sc, backlog, peer, sent, c_stale>>
  BY DEF FromClients
<1> DEFINE q == Flushed(c_storage[c], n)
<1>3. c_storage[c] \in Seq(Seq(Unit)) /\ c \in DOMAIN c_storage /\ c \in Fd
  BY <1>2, QueueFacts
<1>4. front \in Seq(Unit) /\ n \in Int /\ n <= Len(front)
  <2>1. front \in Seq(Unit)
    BY <1>3, QueueFacts DEF ClientUnsent
  <2>2. CASE front = <<>>
    <3>1. n = 0
      BY <1>1, <2>2
    <3>2. Len(front) = 0
      BY <2>2
    <3> HIDE DEF front
    <3> QED
      BY <3>1, <3>2
  <2>3. CASE front # <<>>
    <3>1. n \in SendResults(c, front)
      BY <1>1, <2>3
    <3> QED
      BY <2>1, <3>1, SendResultsType
  <2> QED
    BY <2>1, <2>2, <2>3
<1>5. q \in Queue
  <2>1. CASE n <= 0
    BY <1>3, <2>1 DEF Flushed, Queue
  <2>2. CASE n > 0
    <3>1. front # <<>>
      BY <1>4, <2>2
    <3>2. c_storage[c] # <<>> /\ front = Head(c_storage[c])
      BY <3>1 DEF ClientUnsent
    <3> QED
      BY <1>3, <1>4, <3>2, FlushedType DEF Queue
  <2> QED
    BY <1>4, <2>1, <2>2
<1>6. got' \in [Endpoint -> Seq(Unit)]
  BY <1>1, <1>4, TransmitType
<1>7. /\ ClientPart' /\ c_fds' \subseteq c_fds
      /\ cs' \in Seq(ClientMessage)
      /\ read' \in [Endpoint -> 0 .. MaxUnits]
      /\ \A ep \in Endpoint : read'[ep] <= sent[ep]
  <2>1. CASE ClientCloseConnectForce(c) /\ UNCHANGED <<cs, read>>
    BY <1>2, <2>1, ClientCloseForceType
  <2>2. CASE ClientRead(c, q)
    BY <1>2, <1>5, <2>2, ClientReadType
  <2>3. CASE /\ c_storage' = Put(c_storage, c, q)
             /\ UNCHANGED <<open, cs, read, c_db, c_fds, c_for_close>>
    <3>1. IsMap(c_storage', Fd, Queue)
      BY <1>3, <1>5, <2>3, PutIsMap
    <3>2. c_fds' \subseteq DOMAIN c_storage'
      BY <2>3 DEF Put
    <3> QED
      BY <1>2, <2>3, <3>1, <3>2 DEF ClientPart, ClientTypeOK
  <2> QED
    BY <1>1, <2>1, <2>2, <2>3
<1> QED
  BY <1>2, <1>6, <1>7, ClientTypeSuffices

LEMMA ClientHupType ==
    ASSUME TypeInv, NEW c, ClientHup(c), UNCHANGED svars
    PROVE  TypeInv'
<1> USE ClientFacts, FdFacts
<1>1. /\ c \in c_fds /\ cs' = Append(cs, Msg("disconnect", c, At(c_db, c)))
      /\ ClientCloseConnectForce(c) /\ UNCHANGED <<alive, owner, sc, netvars, c_stale>>
  BY DEF ClientHup
<1>2. ClientPart' /\ c_fds' \subseteq c_fds
  BY <1>1, ClientCloseForceType
<1>3. Msg("disconnect", c, At(c_db, c)) \in ClientMessage
  <2>1. c \in FdOrNone /\ At(c_db, c) \in FdOrNone
    BY <1>1, AtInRange
  <2> QED
    BY <2>1, MsgType DEF Tod
<1> QED
  BY <1>1, <1>2, <1>3, ClientTypeSuffices DEF netvars

LEMMA ClientHupOnEmptySlotType ==
    ASSUME TypeInv, ClientHupOnEmptySlot, UNCHANGED svars
    PROVE  TypeInv'
<1> USE ClientFacts, FdFacts
<1>1. /\ cs' = Append(cs, Msg("disconnect", -1, At(c_db, -1))) /\ c_stale' = FALSE
      /\ UNCHANGED <<alive, open, owner, sc, netvars, c_db, c_fds, c_for_close, c_storage>>
  BY DEF ClientHupOnEmptySlot
<1>2. ClientPart'
  BY <1>1 DEF ClientPart, ClientTypeOK
<1>3. Msg("disconnect", -1, At(c_db, -1)) \in ClientMessage
  <2>1. At(c_db, -1) \in FdOrNone
    BY AtInRange
  <2> QED
    BY <2>1, MsgType DEF Tod
<1> QED
  BY <1>1, <1>2, <1>3, ClientTypeSuffices DEF netvars

LEMMA ClientTypeInv ==
    ASSUME TypeInv, ClientStep, UNCHANGED svars
    PROVE  TypeInv'
<1>1. CASE \E k \in Sessions : Accept(k)
  BY <1>1, AcceptType
<1>2. CASE AcceptFails \/ ClientPollNval
  BY <1>2, ClientFatalType DEF AcceptFails, ClientPollNval
<1>3. CASE ClientHandlesMessage
  BY <1>3, ClientMessageType
<1>4. CASE \E c \in Fd : ClientServes(c)
  BY <1>4, FromClientsType, ClientHupType DEF ClientServes
<1>5. CASE ClientHupOnEmptySlot
  BY <1>5, ClientHupOnEmptySlotType
<1> QED
  BY <1>1, <1>2, <1>3, <1>4, <1>5 DEF ClientStep

-----------------------------------------------------------------------------
(* Type correctness: the server thread                                     *)

\* What a step of the server thread owes to the type invariant, besides the pipes.
ServerPart ==
    /\ ServerTypeOK
    /\ open \subseteq Fd
    /\ open \subseteq DOMAIN owner
    /\ s_fds \subseteq DOMAIN s_storage

LEMMA ServerFacts ==
    ASSUME TypeInv
    PROVE  /\ SharedTypeOK
           /\ IsMap(s_db, Fd, FdOrNone)
           /\ IsMap(s_storage, Fd, Queue)
           /\ IsMap(owner, Fd, Owner)
           /\ s_con_wait \subseteq Fd
           /\ s_fds \subseteq Fd /\ s_for_close \subseteq Fd /\ s_stale \in BOOLEAN
           /\ s_fds \subseteq DOMAIN s_storage
           /\ open \subseteq Fd /\ open \subseteq DOMAIN owner
           /\ \A d \in c_fds \cup s_fds : d \in DOMAIN owner /\ owner[d] \in Endpoint
           /\ alive \in BOOLEAN
           /\ cs \in Seq(ClientMessage) /\ sc \in Seq(Message)
           /\ backlog \subseteq Sessions
           /\ peer \in [Endpoint -> PeerState]
           /\ read \in [Endpoint -> 0 .. MaxUnits]
           /\ \A ep \in Endpoint : read[ep] <= sent[ep]
           /\ got \in [Endpoint -> Seq(Unit)]
BY DEF TypeInv, TypeOK, SharedTypeOK, ServerTypeOK, PolledHaveQueues

LEMMA ServerCloseForceType ==
    ASSUME TypeInv, NEW d, ServerCloseConnectForce(d), UNCHANGED owner, s_stale' \in BOOLEAN
    PROVE  ServerPart' /\ s_fds' \subseteq s_fds
<1>1. /\ IsMap(s_db, Fd, FdOrNone) /\ IsMap(s_storage, Fd, Queue) /\ s_con_wait \subseteq Fd
      /\ s_fds \subseteq Fd /\ s_for_close \subseteq Fd /\ s_fds \subseteq DOMAIN s_storage
      /\ open \subseteq Fd /\ open \subseteq DOMAIN owner
  BY ServerFacts
<1>2. IsMap(Erase(s_db, d), Fd, FdOrNone)
  BY <1>1, EraseIsMap
<1>3. IsMap(Erase(s_storage, d), Fd, Queue)
  BY <1>1, EraseIsMap
<1>4. DOMAIN Erase(s_storage, d) = DOMAIN s_storage \ {d}
  BY <1>1 DEF Erase
<1>5. IsMap(s_db', Fd, FdOrNone) /\ IsMap(s_storage', Fd, Queue)
  BY <1>2, <1>3 DEF ServerCloseConnectForce
<1>6. /\ s_fds' \subseteq s_fds /\ s_for_close' \subseteq Fd /\ s_con_wait' \subseteq Fd
      /\ s_fds' \subseteq DOMAIN s_storage'
      /\ open' \subseteq Fd /\ open' \subseteq DOMAIN owner'
  BY <1>1, <1>4 DEF ServerCloseConnectForce
<1> QED
  BY <1>1, <1>5, <1>6 DEF ServerPart, ServerTypeOK

LEMMA ServerCloseType ==
    ASSUME TypeInv, NEW d, ServerCloseConnect(d), UNCHANGED owner
    PROVE  ServerPart' /\ s_fds' \subseteq s_fds
<1>1. CASE ServerUnsent(d)
  <2>1. /\ IsMap(s_db, Fd, FdOrNone) /\ IsMap(s_storage, Fd, Queue) /\ s_con_wait \subseteq Fd
        /\ s_fds \subseteq Fd /\ s_for_close \subseteq Fd /\ s_fds \subseteq DOMAIN s_storage
        /\ open \subseteq Fd /\ open \subseteq DOMAIN owner
    BY ServerFacts
  <2>2. d \in Fd
    BY <1>1, <2>1 DEF ServerUnsent, IsMap
  <2>3. IsMap(Erase(s_db, d), Fd, FdOrNone)
    BY <2>1, EraseIsMap
  <2> QED
    BY <1>1, <2>1, <2>2, <2>3 DEF ServerCloseConnect, ServerPart, ServerTypeOK
<1>2. CASE ~ServerUnsent(d)
  BY <1>2, ServerCloseForceType DEF ServerCloseConnect
<1> QED
  BY <1>1, <1>2

\* The conjuncts of TypeInv that a step of the server thread has to preserve.
LEMMA ServerTypeSuffices ==
    ASSUME TypeInv, UNCHANGED cvars,
           ServerPart',
           alive' \in BOOLEAN,
           cs' \in Seq(ClientMessage), sc' \in Seq(Message),
           IsMap(owner', Fd, Owner),
           UNCHANGED <<backlog, sent>>,
           peer' \in [Endpoint -> PeerState],
           read' \in [Endpoint -> 0 .. MaxUnits],
           \A ep \in Endpoint : read'[ep] <= sent[ep],
           got' \in [Endpoint -> Seq(Unit)],
           \A d \in c_fds \cup s_fds' : d \in DOMAIN owner' /\ owner'[d] \in Endpoint
    PROVE  TypeInv'
<1>1. ClientTypeOK'
  BY DEF TypeInv, TypeOK, ClientTypeOK, cvars
<1>2. SharedTypeOK'
  BY DEF TypeInv, TypeOK, SharedTypeOK, ServerPart
<1>3. PolledHaveQueues'
  BY DEF TypeInv, PolledHaveQueues, ServerPart, cvars
<1> QED
  BY <1>1, <1>2, <1>3 DEF TypeInv, TypeOK, ServerPart

LEMMA ServerFatalType ==
    ASSUME TypeInv, ServerFatal, UNCHANGED cvars
    PROVE  TypeInv'
<1>1. ServerPart' /\ UNCHANGED <<owner, cs, sc, netvars, s_fds>> /\ alive' = FALSE
  BY ServerFacts DEF ServerFatal, ServerPart, ServerTypeOK, svars
<1> QED
  BY <1>1, ServerFacts, ServerTypeSuffices DEF netvars

LEMMA ConnectingType ==
    ASSUME TypeInv, NEW s \in Fd, NEW d \in ClientMessage, d.tod = "new_connect",
           NEW far \in {"pending", "open"}, Connecting(s, d, far),
           s_con_wait' \subseteq Fd, s_for_close' \subseteq Fd, s_stale' \in BOOLEAN
    PROVE  /\ ServerPart'
           /\ IsMap(owner', Fd, Owner)
           /\ peer' \in [Endpoint -> PeerState]
           /\ \A x \in c_fds \cup s_fds' : x \in DOMAIN owner' /\ owner'[x] \in Endpoint
<1> USE ServerFacts, FdFacts
<1>1. d.who \in Sessions /\ d.c \in FdOrNone
  BY DEF ClientMessage, Message
<1>2. Server(d.who) \in Endpoint
  BY <1>1 DEF Server, Endpoint
<1>3. /\ GiveOut(s, Server(d.who))
      /\ peer' = [peer EXCEPT ![Server(d.who)] = far]
      /\ s_db' = Put(s_db, s, d.c)
      /\ s_storage' = Put(s_storage, s, <<>>)
      /\ s_fds' = s_fds \cup {s}
  BY DEF Connecting
<1>4. /\ open' \subseteq Fd /\ open' \subseteq DOMAIN owner' /\ IsMap(owner', Fd, Owner)
      /\ DOMAIN owner' = DOMAIN owner \cup {s}
      /\ owner'[s] = Server(d.who)
      /\ \A x \in DOMAIN owner : x # s => owner'[x] = owner[x]
  BY <1>2, <1>3, GiveOutType
<1>5. \A x \in c_fds \cup s_fds' : x \in DOMAIN owner' /\ owner'[x] \in Endpoint
  BY <1>2, <1>3, <1>4
<1>6. IsMap(s_db', Fd, FdOrNone)
  BY <1>1, <1>3, PutIsMap
<1>7. IsMap(s_storage', Fd, Queue)
  <2>1. <<>> \in Queue
    BY DEF Queue
  <2> QED
    BY <1>3, <2>1, PutIsMap
<1>8. s_fds' \subseteq Fd /\ s_fds' \subseteq DOMAIN s_storage'
  BY <1>3 DEF Put
<1>9. peer' \in [Endpoint -> PeerState]
  BY <1>3 DEF PeerState
<1>10. ServerPart'
  BY <1>4, <1>6, <1>7, <1>8 DEF ServerPart, ServerTypeOK
<1> QED
  BY <1>4, <1>5, <1>9, <1>10

LEMMA ServerMessageType ==
    ASSUME TypeInv, ServerHandlesMessage, UNCHANGED cvars
    PROVE  TypeInv'
<1> USE ServerFacts, FdFacts
<1> DEFINE d == Head(cs)
<1>1. CASE SocketFails
  BY <1>1, ServerFatalType DEF SocketFails
<1>2. CASE ~SocketFails
  <2>1. cs # <<>> /\ cs' = Tail(cs)
    BY <1>2 DEF ServerHandlesMessage, FromClientNewConnect, FromClientData,
         FromClientConnectNotFound, FromClientDisconnect, ServerReceives
  <2>2. d \in ClientMessage /\ cs' \in Seq(ClientMessage)
    BY <2>1, HeadOfPipe
  <2>3. d.c \in FdOrNone /\ d.s \in FdOrNone /\ d.body \in Seq(Unit)
    BY <2>2 DEF ClientMessage, Message
  <2>4. CASE FromClientNewConnect
    <3>1. /\ UNCHANGED <<alive, backlog, sent, read, got, s_for_close>> /\ s_stale' = FALSE
          /\ d.tod = "new_connect"
      BY <2>4 DEF FromClientNewConnect, ServerReceives
    <3>2. ASSUME NEW s \in Fd, Connecting(s, d, "pending"),
                 s_con_wait' = s_con_wait \cup {s}, UNCHANGED sc
          PROVE  TypeInv'
      <4>1. s_con_wait' \subseteq Fd
        BY <3>2
      <4>2. /\ ServerPart' /\ IsMap(owner', Fd, Owner) /\ peer' \in [Endpoint -> PeerState]
            /\ \A x \in c_fds \cup s_fds' : x \in DOMAIN owner' /\ owner'[x] \in Endpoint
        BY <2>2, <3>1, <3>2, <4>1, ConnectingType
      <4> QED
        BY <2>2, <3>1, <3>2, <4>2, ServerTypeSuffices
    <3>3. ASSUME NEW s \in Fd, Connecting(s, d, "open"),
                 sc' = Append(sc, Msg("new_connect", d.c, s)), UNCHANGED s_con_wait
          PROVE  TypeInv'
      <4>1. Msg("new_connect", d.c, s) \in Message
        BY <2>3, MsgType DEF Tod
      <4>2. sc' \in Seq(Message)
        BY <3>3, <4>1
      <4>3. /\ ServerPart' /\ IsMap(owner', Fd, Owner) /\ peer' \in [Endpoint -> PeerState]
            /\ \A x \in c_fds \cup s_fds' : x \in DOMAIN owner' /\ owner'[x] \in Endpoint
        BY <2>2, <3>1, <3>3, ConnectingType
      <4> QED
        BY <2>2, <3>1, <4>2, <4>3, ServerTypeSuffices
    <3>4. ASSUME sc' = Append(sc, Msg("not_connect", d.c, -1)),
                 UNCHANGED <<open, owner, peer, s_db, s_con_wait, s_fds, s_storage>>
          PROVE  TypeInv'
      <4>1. Msg("not_connect", d.c, -1) \in Message
        BY <2>3, MsgType DEF Tod
      <4>2. sc' \in Seq(Message)
        BY <3>4, <4>1
      <4>3. ServerPart'
        BY <3>1, <3>4 DEF ServerPart, ServerTypeOK
      <4> QED
        BY <2>2, <3>1, <3>4, <4>2, <4>3, ServerTypeSuffices
    <3> QED
      BY <2>4, <3>2, <3>3, <3>4 DEF FromClientNewConnect
  <2>5. CASE FromClientData
    <3>1. /\ UNCHANGED <<alive, open, owner, sc, backlog, peer, sent, read,
                         s_db, s_con_wait, s_fds, s_for_close>>
          /\ s_stale' = FALSE
      BY <2>5 DEF FromClientData
    <3>2. /\ got' \in [Endpoint -> Seq(Unit)]
          /\ IsMap(s_storage', Fd, Queue)
          /\ DOMAIN s_storage \subseteq DOMAIN s_storage'
      <4>1. CASE UNCHANGED <<got, s_storage>>
        BY <4>1
      <4>2. ASSUME d.s \in s_fds,
                   NEW n \in SendResults(d.s, ToSend(s_storage[d.s], d.body)),
                   Transmit(d.s, ToSend(s_storage[d.s], d.body), n),
                   s_storage' = Put(s_storage, d.s, Relayed(s_storage[d.s], d.body, n))
            PROVE  /\ got' \in [Endpoint -> Seq(Unit)]
                   /\ IsMap(s_storage', Fd, Queue)
                   /\ DOMAIN s_storage \subseteq DOMAIN s_storage'
        <5>1. s_storage[d.s] \in Seq(Seq(Unit)) /\ d.s \in DOMAIN s_storage /\ d.s \in Fd
          BY <4>2, QueueFacts
        <5>2. ToSend(s_storage[d.s], d.body) \in Seq(Unit)
          BY <2>3, <5>1, QueueFacts DEF ToSend
        <5>3. n \in Int /\ n <= Len(ToSend(s_storage[d.s], d.body))
          BY <4>2, <5>2, SendResultsType
        <5>4. Relayed(s_storage[d.s], d.body, n) \in Queue
          BY <2>3, <5>1, <5>3, RelayedType DEF Queue
        <5>5. IsMap(s_storage', Fd, Queue)
          BY <4>2, <5>1, <5>4, PutIsMap
        <5>6. DOMAIN s_storage \subseteq DOMAIN s_storage'
          BY <4>2 DEF Put
        <5>7. got' \in [Endpoint -> Seq(Unit)]
          BY <4>2, <5>2, <5>3, TransmitType
        <5> QED
          BY <5>5, <5>6, <5>7
      <4> QED
        BY <2>5, <4>1, <4>2 DEF FromClientData
    <3>3. ServerPart'
      BY <3>1, <3>2 DEF ServerPart, ServerTypeOK
    <3> QED
      BY <2>2, <3>1, <3>2, <3>3, ServerTypeSuffices
  <2>6. CASE FromClientConnectNotFound \/ FromClientDisconnect
    <3>1. ServerCloseConnect(d.s) /\ UNCHANGED <<alive, owner, sc, netvars>>
      BY <2>6 DEF FromClientConnectNotFound, FromClientDisconnect
    <3>2. ServerPart' /\ s_fds' \subseteq s_fds
      BY <3>1, ServerCloseType
    <3> QED
      BY <2>2, <3>1, <3>2, ServerTypeSuffices DEF netvars
  <2> QED
    BY <1>2, <2>4, <2>5, <2>6 DEF ServerHandlesMessage
<1> QED
  BY <1>1, <1>2

LEMMA ServerReadType ==
    ASSUME TypeInv, NEW s \in s_fds, NEW db, IsMap(db, Fd, FdOrNone), NEW q \in Queue,
           NEW log \in Seq(Message), NEW forClose \in BOOLEAN,
           ServerRead(s, db, q, log, forClose), UNCHANGED <<owner, s_stale>>
    PROVE  /\ ServerPart' /\ s_fds' \subseteq s_fds
           /\ sc' \in Seq(Message)
           /\ read' \in [Endpoint -> 0 .. MaxUnits]
           /\ \A ep \in Endpoint : read'[ep] <= sent[ep]
<1> USE ServerFacts, FdFacts
<1> DEFINE ep == owner[s]
<1>1. s \in Fd /\ s \in FdOrNone /\ ep \in Endpoint /\ At(db, s) \in FdOrNone
  BY AtInRange
<1>2. CASE /\ sc' = Append(log, Msg("disconnect", At(db, s), s))
           /\ ServerCloseConnectForce(s)
           /\ UNCHANGED read
  <2>1. ServerPart' /\ s_fds' \subseteq s_fds
    BY <1>2, ServerCloseForceType
  <2>2. Msg("disconnect", At(db, s), s) \in Message
    BY <1>1, MsgType DEF Tod
  <2> QED
    BY <1>2, <2>1, <2>2
<1>3. ASSUME NEW m \in RecvCounts(ep),
             read' = [read EXCEPT ![ep] = @ + m],
             IF forClose
               THEN sc' = log /\ s_db' = db
               ELSE /\ sc' = Append(log, DataMsg(At(db, s), s, RecvBody(ep, m)))
                    /\ s_db' = Touch(db, s),
             s_con_wait' = s_con_wait \ {s},
             s_storage' = Put(s_storage, s, q),
             UNCHANGED <<open, s_fds, s_for_close>>
      PROVE  /\ ServerPart' /\ s_fds' \subseteq s_fds
             /\ sc' \in Seq(Message)
             /\ read' \in [Endpoint -> 0 .. MaxUnits]
             /\ \A e \in Endpoint : read'[e] <= sent[e]
  <2>1. IsMap(s_storage', Fd, Queue)
    BY <1>1, <1>3, PutIsMap
  <2>2. s_fds' \subseteq DOMAIN s_storage'
    BY <1>3 DEF Put
  <2>3. IsMap(s_db', Fd, FdOrNone)
    <3>1. IsMap(Touch(db, s), Fd, FdOrNone)
      BY <1>1, TouchIsMap
    <3> QED
      BY <1>3, <3>1
  <2>4. sc' \in Seq(Message)
    <3>1. RecvBody(ep, m) \in Seq(Unit)
      BY <1>1, <1>3, RecvType
    <3>2. DataMsg(At(db, s), s, RecvBody(ep, m)) \in Message
      BY <1>1, <3>1, DataMsgType
    <3>3. Append(log, DataMsg(At(db, s), s, RecvBody(ep, m))) \in Seq(Message)
      BY <3>2
    <3> QED
      BY <1>3, <3>3
  <2>5. read' \in [Endpoint -> 0 .. MaxUnits] /\ \A e \in Endpoint : read'[e] <= sent[e]
    BY <1>1, <1>3, RecvType
  <2>6. ServerPart' /\ s_fds' \subseteq s_fds
    BY <1>3, <2>1, <2>2, <2>3 DEF ServerPart, ServerTypeOK
  <2> QED
    BY <2>4, <2>5, <2>6
<1> QED
  BY <1>2, <1>3 DEF ServerRead

LEMMA ConnectFinishedType ==
    ASSUME TypeInv, NEW s, NEW in \in BOOLEAN, ConnectFinished(s, in), UNCHANGED cvars
    PROVE  TypeInv'
<1> USE ServerFacts, FdFacts
<1>1. s \in s_fds /\ UNCHANGED <<alive, owner, cs, backlog, peer, sent, got, s_stale>>
  BY DEF ConnectFinished
<1>2. s \in Fd /\ s \in FdOrNone /\ At(s_db, s) \in FdOrNone
  BY <1>1, AtInRange
<1> DEFINE log == Append(sc, Msg("new_connect", At(s_db, s), s))
<1>3. /\ ServerPart' /\ s_fds' \subseteq s_fds
      /\ sc' \in Seq(Message)
      /\ read' \in [Endpoint -> 0 .. MaxUnits]
      /\ \A ep \in Endpoint : read'[ep] <= sent[ep]
  <2>1. CASE /\ sc' = Append(sc, Msg("not_connect", At(s_db, s), -1))
             /\ ServerCloseConnectForce(s)
             /\ UNCHANGED read
    <3>1. ServerPart' /\ s_fds' \subseteq s_fds
      BY <1>1, <2>1, ServerCloseForceType
    <3>2. Msg("not_connect", At(s_db, s), -1) \in Message
      BY <1>2, MsgType DEF Tod
    <3> QED
      BY <2>1, <3>1, <3>2
  <2>2. IsMap(Touch(s_db, s), Fd, FdOrNone)
    BY <1>2, TouchIsMap
  <2>3. log \in Seq(Message)
    <3>1. Msg("new_connect", At(s_db, s), s) \in Message
      BY <1>2, MsgType DEF Tod
    <3> QED
      BY <3>1
  <2>4. CASE ServerRead(s, Touch(s_db, s), s_storage[s], log, FALSE)
    <3>1. s_storage[s] \in Queue
      BY <1>1 DEF IsMap
    <3> HIDE DEF log
    <3> QED
      BY <1>1, <2>2, <2>3, <2>4, <3>1, ServerReadType
  <2>5. CASE /\ sc' = log
             /\ s_db' = Touch(s_db, s)
             /\ s_con_wait' = s_con_wait \ {s}
             /\ UNCHANGED <<open, read, s_fds, s_for_close, s_storage>>
    BY <1>1, <2>2, <2>3, <2>5 DEF ServerPart, ServerTypeOK
  <2> QED
    BY <2>1, <2>4, <2>5 DEF ConnectFinished
<1> QED
  BY <1>1, <1>3, ServerTypeSuffices

LEMMA FromServerType ==
    ASSUME TypeInv, NEW s, NEW out \in BOOLEAN, NEW in \in BOOLEAN, FromServer(s, out, in),
           UNCHANGED cvars
    PROVE  TypeInv'
<1> USE ServerFacts, FdFacts
<1> DEFINE front == IF out /\ ServerUnsent(s) THEN Head(s_storage[s]) ELSE <<>>
           forClose == out /\ s \in s_for_close
<1>1. PICK n \in IF front = <<>> THEN {0} ELSE SendResults(s, front) :
        /\ Transmit(s, front, n)
        /\ \/ /\ ServerCloseConnectForce(s)
              /\ UNCHANGED <<sc, read>>
           \/ ServerRead(s, s_db, Flushed(s_storage[s], n), sc, forClose)
           \/ /\ s_storage' = Put(s_storage, s, Flushed(s_storage[s], n))
              /\ UNCHANGED <<open, sc, read, s_db, s_con_wait, s_fds, s_for_close>>
  BY DEF FromServer
<1>2. s \in s_fds /\ UNCHANGED <<alive, owner, cs, backlog, peer, sent, s_stale>>
  BY DEF FromServer
<1> DEFINE q == Flushed(s_storage[s], n)
<1>3. s_storage[s] \in Seq(Seq(Unit)) /\ s \in DOMAIN s_storage /\ s \in Fd
  BY <1>2, QueueFacts
<1>4. front \in Seq(Unit) /\ n \in Int /\ n <= Len(front)
  <2>1. front \in Seq(Unit)
    BY <1>3, QueueFacts DEF ServerUnsent
  <2>2. CASE front = <<>>
    <3>1. n = 0
      BY <1>1, <2>2
    <3>2. Len(front) = 0
      BY <2>2
    <3> HIDE DEF front
    <3> QED
      BY <2>1, <3>1, <3>2
  <2>3. CASE front # <<>>
    <3>1. n \in SendResults(s, front)
      BY <1>1, <2>3
    <3> QED
      BY <2>1, <3>1, SendResultsType
  <2> QED
    BY <2>1, <2>2, <2>3
<1>5. q \in Queue
  <2>1. CASE n <= 0
    BY <1>3, <2>1 DEF Flushed, Queue
  <2>2. CASE n > 0
    <3>1. front # <<>>
      BY <1>4, <2>2
    <3>2. s_storage[s] # <<>> /\ front = Head(s_storage[s])
      BY <3>1 DEF ServerUnsent
    <3> QED
      BY <1>3, <1>4, <3>2, FlushedType DEF Queue
  <2> QED
    BY <1>4, <2>1, <2>2
<1>6. got' \in [Endpoint -> Seq(Unit)]
  BY <1>1, <1>4, TransmitType
<1>7. /\ ServerPart' /\ s_fds' \subseteq s_fds
      /\ sc' \in Seq(Message)
      /\ read' \in [Endpoint -> 0 .. MaxUnits]
      /\ \A ep \in Endpoint : read'[ep] <= sent[ep]
  <2>1. CASE ServerCloseConnectForce(s) /\ UNCHANGED <<sc, read>>
    BY <1>2, <2>1, ServerCloseForceType
  <2>2. CASE ServerRead(s, s_db, q, sc, forClose)
    <3>1. forClose \in BOOLEAN
      OBVIOUS
    <3> HIDE DEF forClose, q
    <3> QED
      BY <1>2, <1>5, <2>2, <3>1, ServerReadType
  <2>3. CASE /\ s_storage' = Put(s_storage, s, q)
             /\ UNCHANGED <<open, sc, read, s_db, s_con_wait, s_fds, s_for_close>>
    <3>1. IsMap(s_storage', Fd, Queue)
      BY <1>3, <1>5, <2>3, PutIsMap
    <3>2. s_fds' \subseteq DOMAIN s_storage'
      BY <2>3 DEF Put
    <3> QED
      BY <1>2, <2>3, <3>1, <3>2 DEF ServerPart, ServerTypeOK
  <2> QED
    BY <1>1, <2>1, <2>2, <2>3
<1> QED
  BY <1>2, <1>6, <1>7, ServerTypeSuffices

LEMMA ConnectTimeoutType ==
    ASSUME TypeInv, NEW s, ConnectTimeout(s), UNCHANGED cvars
    PROVE  TypeInv'
<1> USE ServerFacts, FdFacts
<1>1. /\ s \in s_con_wait
      /\ sc' = Append(sc, Msg("not_connect", At(s_db, s), -1))
      /\ open' = open \ {s}
      /\ s_db' = Erase(s_db, s)
      /\ s_fds' = s_fds \ {s}
      /\ s_con_wait' = s_con_wait \ {s}
      /\ UNCHANGED <<alive, owner, cs, netvars, s_for_close, s_storage, s_stale>>
  BY DEF ConnectTimeout
<1>2. IsMap(s_db', Fd, FdOrNone)
  BY <1>1, EraseIsMap
<1>3. sc' \in Seq(Message)
  <2>1. At(s_db, s) \in FdOrNone
    BY AtInRange
  <2>2. Msg("not_connect", At(s_db, s), -1) \in Message
    BY <2>1, MsgType DEF Tod
  <2> QED
    BY <1>1, <2>2
<1>4. ServerPart'
  BY <1>1, <1>2 DEF ServerPart, ServerTypeOK
<1> QED
  BY <1>1, <1>3, <1>4, ServerTypeSuffices DEF netvars

LEMMA ServerHupType ==
    ASSUME TypeInv, NEW s, ServerHup(s), UNCHANGED cvars
    PROVE  TypeInv'
<1> USE ServerFacts, FdFacts
<1>1. /\ s \in s_fds /\ sc' = Append(sc, Msg("disconnect", At(s_db, s), s))
      /\ ServerCloseConnectForce(s) /\ UNCHANGED <<alive, owner, cs, netvars, s_stale>>
  BY DEF ServerHup
<1>2. ServerPart' /\ s_fds' \subseteq s_fds
  BY <1>1, ServerCloseForceType
<1>3. Msg("disconnect", At(s_db, s), s) \in Message
  <2>1. s \in FdOrNone /\ At(s_db, s) \in FdOrNone
    BY <1>1, AtInRange
  <2> QED
    BY <2>1, MsgType DEF Tod
<1> QED
  BY <1>1, <1>2, <1>3, ServerTypeSuffices DEF netvars

LEMMA ServerHupOnEmptySlotType ==
    ASSUME TypeInv, ServerHupOnEmptySlot, UNCHANGED cvars
    PROVE  TypeInv'
<1> USE ServerFacts, FdFacts
<1>1. /\ sc' = Append(sc, Msg("disconnect", At(s_db, -1), -1)) /\ s_stale' = FALSE
      /\ UNCHANGED <<alive, open, owner, cs, netvars,
                     s_db, s_con_wait, s_fds, s_for_close, s_storage>>
  BY DEF ServerHupOnEmptySlot
<1>2. ServerPart'
  BY <1>1 DEF ServerPart, ServerTypeOK
<1>3. Msg("disconnect", At(s_db, -1), -1) \in Message
  <2>1. At(s_db, -1) \in FdOrNone
    BY AtInRange
  <2> QED
    BY <2>1, MsgType DEF Tod
<1> QED
  BY <1>1, <1>2, <1>3, ServerTypeSuffices DEF netvars

LEMMA ServerTypeInv ==
    ASSUME TypeInv, ServerStep, UNCHANGED cvars
    PROVE  TypeInv'
<1>1. CASE ServerHandlesMessage
  BY <1>1, ServerMessageType
<1>2. CASE \E s \in Fd : ServerServes(s)
  BY <1>2, ConnectFinishedType, FromServerType, ConnectTimeoutType, ServerHupType
     DEF ServerServes
<1>3. CASE ServerHupOnEmptySlot
  BY <1>3, ServerHupOnEmptySlotType
<1>4. CASE ServerPollNval
  BY <1>4, ServerFatalType DEF ServerPollNval
<1> QED
  BY <1>1, <1>2, <1>3, <1>4 DEF ServerStep

LEMMA NextTypeInv == TypeInv /\ [Next]_vars => TypeInv'
<1> SUFFICES ASSUME TypeInv, [Next]_vars PROVE TypeInv'
  OBVIOUS
<1>1. CASE ClientStep /\ UNCHANGED svars
  BY <1>1, ClientTypeInv
<1>2. CASE ServerStep /\ UNCHANGED cvars
  BY <1>2, ServerTypeInv
<1>3. CASE NetStep /\ UNCHANGED <<cvars, svars>>
  BY <1>3, NetTypeInv
<1>4. CASE UNCHANGED vars
  BY <1>4 DEF vars, sharedvars, cvars, svars, TypeInv, TypeOK, SharedTypeOK, ClientTypeOK,
              ServerTypeOK, PolledHaveQueues
<1> QED
  BY <1>1, <1>2, <1>3, <1>4 DEF Next

LEMMA TypeInvariant == Spec => []TypeInv
BY InitTypeInv, NextTypeInv, PTL DEF Spec

\* The relay is type correct: no handler reads more of a stream than was written, and no
\* message names a number that is not a descriptor or -1.
THEOREM TypeCorrect == Spec => []TypeOK
<1>1. TypeInv => TypeOK
  BY DEF TypeInv
<1> QED
  BY <1>1, TypeInvariant, PTL

=============================================================================
