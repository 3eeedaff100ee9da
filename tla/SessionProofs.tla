---------------------------- MODULE SessionProofs ----------------------------
(***************************************************************************)
(* Proofs of what the two threads know of the sockets they poll, and, when *)
(* descriptor numbers are not recycled, that sessions are kept apart.      *)
(***************************************************************************)
EXTENDS SessionInv, SqlProxyProofs

-----------------------------------------------------------------------------
(* What a thread polls is on record                                        *)

KnownInv == WaitersHaveClient /\ PolledAreKnown

LEMMA Domains ==
    ASSUME NEW f, NEW k, NEW v
    PROVE  /\ DOMAIN Put(f, k, v) = DOMAIN f \cup {k}
           /\ DOMAIN Erase(f, k) = DOMAIN f \ {k}
           /\ DOMAIN f \subseteq DOMAIN Touch(f, k)
BY DEF Put, Erase, Touch

ClientKnown == c_fds \subseteq DOMAIN c_db \cup c_for_close

ServerKnown == s_con_wait \subseteq DOMAIN s_db \cap s_fds /\ s_fds \subseteq DOMAIN s_db \cup s_for_close

LEMMA ClientCloseForceKnown ==
    ASSUME ClientKnown, NEW d, ClientCloseConnectForce(d)
    PROVE  ClientKnown'
BY DEF ClientKnown, ClientCloseConnectForce, Erase

LEMMA ClientCloseKnown ==
    ASSUME ClientKnown, NEW d, ClientCloseConnect(d)
    PROVE  ClientKnown'
<1>1. CASE ClientUnsent(d)
  BY <1>1 DEF ClientKnown, ClientCloseConnect, Erase
<1>2. CASE ~ClientUnsent(d)
  BY <1>2, ClientCloseForceKnown DEF ClientCloseConnect
<1> QED
  BY <1>1, <1>2

LEMMA ClientStepKnown ==
    ASSUME ClientKnown, ClientStep
    PROVE  ClientKnown'
<1>1. CASE \E k \in Sessions : Accept(k)
  BY <1>1 DEF ClientKnown, Accept, Put
<1>2. CASE AcceptFails \/ ClientPollNval
  BY <1>2 DEF ClientKnown, AcceptFails, ClientPollNval, ClientFatal, cvars
<1>3. CASE FromServerNewConnect
  BY <1>3 DEF ClientKnown, FromServerNewConnect, Put
<1>4. CASE FromServerData
  BY <1>4 DEF ClientKnown, FromServerData
<1>5. CASE FromServerNotConnect \/ FromServerDisconnect
  BY <1>5, ClientCloseKnown DEF FromServerNotConnect, FromServerDisconnect
<1>6. ASSUME NEW c \in Fd, ClientHup(c)
      PROVE  ClientKnown'
  BY <1>6, ClientCloseForceKnown DEF ClientHup
<1>7. ASSUME NEW c \in Fd, NEW q, ClientRead(c, q)
      PROVE  ClientKnown'
  <2>1. CASE ClientCloseConnectForce(c)
    BY <2>1, ClientCloseForceKnown
  <2>2. CASE c_db' = Touch(c_db, c) /\ UNCHANGED <<open, c_fds, c_for_close>>
    BY <2>2, Domains DEF ClientKnown
  <2> QED
    BY <1>7, <2>1, <2>2 DEF ClientRead
<1>8. ASSUME NEW c \in Fd, NEW out \in BOOLEAN, NEW in \in BOOLEAN, FromClients(c, out, in)
      PROVE  ClientKnown'
  <2>1. \/ ClientCloseConnectForce(c)
        \/ \E n : ClientRead(c, Flushed(c_storage[c], n))
        \/ UNCHANGED <<c_db, c_fds, c_for_close>>
    BY <1>8 DEF FromClients
  <2> QED
    BY <1>7, <2>1, ClientCloseForceKnown DEF ClientKnown
<1>9. CASE ClientHupOnEmptySlot
  BY <1>9 DEF ClientKnown, ClientHupOnEmptySlot
<1> QED
  BY <1>1, <1>2, <1>3, <1>4, <1>5, <1>6, <1>8, <1>9
     DEF ClientStep, ClientHandlesMessage, ClientServes

LEMMA ServerCloseForceKnown ==
    ASSUME ServerKnown, NEW d, ServerCloseConnectForce(d)
    PROVE  ServerKnown'
BY DEF ServerKnown, ServerCloseConnectForce, Erase

LEMMA ServerCloseKnown ==
    ASSUME ServerKnown, NEW d, ServerCloseConnect(d)
    PROVE  ServerKnown'
<1>1. CASE ServerUnsent(d)
  BY <1>1 DEF ServerKnown, ServerCloseConnect, Erase
<1>2. CASE ~ServerUnsent(d)
  BY <1>2, ServerCloseForceKnown DEF ServerCloseConnect
<1> QED
  BY <1>1, <1>2

LEMMA ServerReadKnown ==
    ASSUME ServerKnown, NEW s, NEW db, NEW q, NEW log, NEW forClose \in BOOLEAN,
           DOMAIN s_db \subseteq DOMAIN db, ServerRead(s, db, q, log, forClose)
    PROVE  ServerKnown'
<1>1. CASE ServerCloseConnectForce(s)
  BY <1>1, ServerCloseForceKnown
<1>2. CASE /\ s_db' = db \/ s_db' = Touch(db, s)
           /\ s_con_wait' = s_con_wait \ {s}
           /\ UNCHANGED <<s_fds, s_for_close>>
  <2>1. DOMAIN s_db \subseteq DOMAIN s_db'
    BY <1>2, Domains
  <2> QED
    BY <1>2, <2>1 DEF ServerKnown
<1> QED
  BY <1>1, <1>2 DEF ServerRead

LEMMA ServerStepKnown ==
    ASSUME ServerKnown, ServerStep
    PROVE  ServerKnown'
<1>1. CASE FromClientNewConnect
  BY <1>1 DEF ServerKnown, FromClientNewConnect, Connecting, Put
<1>2. CASE SocketFails \/ ServerPollNval
  BY <1>2 DEF ServerKnown, SocketFails, ServerPollNval, ServerFatal, svars
<1>3. CASE FromClientData
  BY <1>3 DEF ServerKnown, FromClientData
<1>4. CASE FromClientConnectNotFound \/ FromClientDisconnect
  BY <1>4, ServerCloseKnown DEF FromClientConnectNotFound, FromClientDisconnect
<1>5. ASSUME NEW s \in Fd, NEW in \in BOOLEAN, ConnectFinished(s, in)
      PROVE  ServerKnown'
  <2>1. CASE ServerCloseConnectForce(s)
    BY <2>1, ServerCloseForceKnown
  <2>2. CASE ServerRead(s, Touch(s_db, s), s_storage[s],
                        Append(sc, Msg("new_connect", At(s_db, s), s)), FALSE)
    BY <2>2, Domains, ServerReadKnown
  <2>3. CASE /\ s_db' = Touch(s_db, s)
             /\ s_con_wait' = s_con_wait \ {s}
             /\ UNCHANGED <<s_fds, s_for_close>>
    BY <2>3, Domains DEF ServerKnown
  <2> QED
    BY <1>5, <2>1, <2>2, <2>3 DEF ConnectFinished
<1>6. ASSUME NEW s \in Fd, NEW out \in BOOLEAN, NEW in \in BOOLEAN, FromServer(s, out, in)
      PROVE  ServerKnown'
  <2>1. \/ ServerCloseConnectForce(s)
        \/ \E n : ServerRead(s, s_db, Flushed(s_storage[s], n), sc, out /\ s \in s_for_close)
        \/ UNCHANGED <<s_db, s_con_wait, s_fds, s_for_close>>
    BY <1>6 DEF FromServer
  <2>2. (out /\ s \in s_for_close) \in BOOLEAN
    OBVIOUS
  <2> QED
    BY <2>1, <2>2, ServerCloseForceKnown, ServerReadKnown DEF ServerKnown
<1>7. ASSUME NEW s \in Fd, ConnectTimeout(s)
      PROVE  ServerKnown'
  BY <1>7 DEF ServerKnown, ConnectTimeout, Erase
<1>8. ASSUME NEW s \in Fd, ServerHup(s)
      PROVE  ServerKnown'
  BY <1>8, ServerCloseForceKnown DEF ServerHup
<1>9. CASE ServerHupOnEmptySlot
  BY <1>9 DEF ServerKnown, ServerHupOnEmptySlot
<1> QED
  BY <1>1, <1>2, <1>3, <1>4, <1>5, <1>6, <1>7, <1>8, <1>9
     DEF ServerStep, ServerHandlesMessage, ServerServes

LEMMA KnownParts == KnownInv <=> ClientKnown /\ ServerKnown
BY DEF KnownInv, WaitersHaveClient, PolledAreKnown, ClientKnown, ServerKnown

LEMMA KnownInvariant == Spec => []KnownInv
<1>1. Init => KnownInv
  BY DEF Init, ClientInit, ServerInit, KnownInv, WaitersHaveClient, PolledAreKnown
<1>2. KnownInv /\ [Next]_vars => KnownInv'
  <2> SUFFICES ASSUME KnownInv, [Next]_vars PROVE (ClientKnown /\ ServerKnown)'
    BY DEF KnownInv, WaitersHaveClient, PolledAreKnown, ClientKnown, ServerKnown
  <2>1. ClientKnown /\ ServerKnown
    BY KnownParts
  <2>2. CASE ClientStep /\ UNCHANGED svars
    BY <2>1, <2>2, ClientStepKnown DEF svars, ServerKnown
  <2>3. CASE ServerStep /\ UNCHANGED cvars
    BY <2>1, <2>3, ServerStepKnown DEF cvars, ClientKnown
  <2>4. CASE UNCHANGED <<cvars, svars>>
    BY <2>1, <2>4 DEF cvars, svars, ClientKnown, ServerKnown
  <2> QED
    BY <2>2, <2>3, <2>4 DEF Next, vars
<1> QED
  BY <1>1, <1>2, PTL DEF Spec

\* Whoever tells of the outcome of a connect() in progress names the client that waits for
\* it: no handler looks up db[] for a waiting socket that is not a key of it.
THEOREM WaitersAlwaysHaveClient == Spec => []WaitersHaveClient
<1>1. KnownInv => WaitersHaveClient
  BY DEF KnownInv
<1> QED
  BY <1>1, KnownInvariant, PTL

\* A socket leaves `db' and stays in the poll array only to be flushed and closed, however
\* descriptor numbers are recycled.
THEOREM PolledAreAlwaysKnown == Spec => []PolledAreKnown
<1>1. KnownInv => PolledAreKnown
  BY DEF KnownInv
<1> QED
  BY <1>1, KnownInvariant, PTL

-----------------------------------------------------------------------------
(* References to descriptors                                               *)

LEMMA SeqMonotone ==
    ASSUME NEW S, NEW T, S \subseteq T
    PROVE  Seq(S) \subseteq Seq(T)
OBVIOUS

LEMMA SessionFacts ==
    ASSUME TypeInv, SessionInv
    PROVE  /\ -1 \notin DOMAIN owner /\ DOMAIN owner \subseteq Fd
           /\ RefClient(-1) /\ RefServer(-1) /\ RefClient(0) /\ RefServer(0)
           /\ ~IsClientFd(-1) /\ ~IsServerFd(-1) /\ ~IsClientFd(0) /\ ~IsServerFd(0)
           /\ \A d : IsClientFd(d) => d \in Fd /\ owner[d] \in Endpoint /\ RefClient(d)
           /\ \A d : IsServerFd(d) => d \in Fd /\ owner[d] \in Endpoint /\ RefServer(d)
           /\ \A d : RefClient(d) => d \in FdOrNone
           /\ \A d : RefServer(d) => d \in FdOrNone
           /\ \A c \in c_fds : c \in DOMAIN c_storage /\ IsClientFd(c)
           /\ \A s \in s_fds : s \in DOMAIN s_storage /\ IsServerFd(s)
<1>1. DOMAIN owner \subseteq Fd /\ owner \in [DOMAIN owner -> Owner]
  BY DEF TypeInv, TypeOK, SharedTypeOK, IsMap
<1>2. -1 \notin DOMAIN owner /\ 0 \in DOMAIN owner /\ owner[0].side = "stdio"
  BY <1>1, ProxyAssumption DEF SessionInv, Stdio
<1>3. \A d : IsClientFd(d) \/ IsServerFd(d) => d \in Fd /\ owner[d] \in Endpoint
  BY <1>1 DEF IsClientFd, IsServerFd, Owner, Stdio
<1>4. /\ \A c \in c_fds : c \in DOMAIN c_storage /\ IsClientFd(c)
      /\ \A s \in s_fds : s \in DOMAIN s_storage /\ IsServerFd(s)
  BY DEF TypeInv, PolledHaveQueues, SessionInv, ClientStorageOK, ServerStorageOK
<1>5. (\A d : RefClient(d) => d \in FdOrNone) /\ (\A d : RefServer(d) => d \in FdOrNone)
  BY <1>1 DEF RefClient, RefServer, FdOrNone
<1>6. /\ \A d : IsClientFd(d) => RefClient(d)
      /\ \A d : IsServerFd(d) => RefServer(d)
  BY DEF IsClientFd, IsServerFd, RefClient, RefServer
<1>7. /\ RefClient(-1) /\ RefServer(-1) /\ RefClient(0) /\ RefServer(0)
      /\ ~IsClientFd(-1) /\ ~IsServerFd(-1) /\ ~IsClientFd(0) /\ ~IsServerFd(0)
  BY <1>2 DEF IsClientFd, IsServerFd, RefClient, RefServer
<1> QED
  BY <1>1, <1>2, <1>3, <1>4, <1>5, <1>6, <1>7

LEMMA PairedAreOpposite ==
    ASSUME TypeInv, SessionInv, NEW c, NEW s, IsClientFd(c), IsServerFd(s), Paired(c, s)
    PROVE  owner[s] = Opposite(owner[c]) /\ owner[c] = Opposite(owner[s])
<1>1. owner[c] \in Endpoint /\ owner[s] \in Endpoint
  BY SessionFacts
<1>2. owner[c].side = "client" /\ owner[s].side = "server" /\ owner[c].id = owner[s].id
  BY DEF IsClientFd, IsServerFd, Paired
<1> QED
  BY <1>1, <1>2 DEF Endpoint, Opposite, Client, Server

LEMMA ClientDbReference ==
    ASSUME TypeInv, SessionInv, NEW db, ClientDbOK(db), NEW c, IsClientFd(c) \/ c = -1
    PROVE  Reference(c, At(db, c))
<1>1. CASE c \in DOMAIN db
  BY <1>1 DEF ClientDbOK, At
<1>2. CASE c \notin DOMAIN db
  BY <1>2, SessionFacts DEF At, Reference, Paired
<1> QED
  BY <1>1, <1>2

LEMMA ServerDbReference ==
    ASSUME TypeInv, SessionInv, NEW db, ServerDbOK(db), NEW s, IsServerFd(s) \/ s = -1
    PROVE  Reference(At(db, s), s)
<1>1. CASE s \in DOMAIN db
  BY <1>1 DEF ServerDbOK, At
<1>2. CASE s \notin DOMAIN db
  BY <1>2, SessionFacts DEF At, Reference, Paired
<1> QED
  BY <1>1, <1>2

LEMMA PlainMessage ==
    ASSUME TypeInv, SessionInv, NEW tod \in Tod \ {"new_connect", "data"}, NEW c, NEW s,
           Reference(c, s)
    PROVE  Msg(tod, c, s) \in GoodToServer /\ Msg(tod, c, s) \in GoodToClient
<1>1. c \in FdOrNone /\ s \in FdOrNone
  BY SessionFacts DEF Reference
<1>2. Msg(tod, c, s) \in ClientMessage /\ Msg(tod, c, s) \in Message
  BY <1>1, MsgType
<1>3. Msg(tod, c, s).tod = tod /\ Msg(tod, c, s).c = c /\ Msg(tod, c, s).s = s
  BY DEF Msg
<1> QED
  BY <1>2, <1>3 DEF GoodToServer, GoodToClient

LEMMA UnitsOfType ==
    ASSUME NEW ep \in Endpoint
    PROVE  UnitsOf(ep) \subseteq Unit /\ Seq(UnitsOf(ep)) \subseteq Seq(Unit)
<1>1. UnitsOf(ep) \subseteq Unit
  BY DEF UnitsOf, Unit
<1> QED
  BY <1>1, SeqMonotone

LEMMA RecvUnits ==
    ASSUME TypeInv, NEW ep \in Endpoint, NEW m \in RecvCounts(ep)
    PROVE  RecvBody(ep, m) \in Seq(UnitsOf(ep))
<1>1. /\ m \in Nat /\ m >= 1 /\ read[ep] \in 0 .. MaxUnits /\ sent[ep] \in 0 .. MaxUnits
      /\ read[ep] + m <= sent[ep]
  BY ProxyAssumption DEF RecvCounts, Available, TypeInv, TypeOK, SharedTypeOK
<1>2. \A i \in 1 .. m : [from |-> ep, n |-> read[ep] + i] \in UnitsOf(ep)
  BY <1>1, ProxyAssumption DEF UnitsOf
<1> QED
  BY <1>1, <1>2 DEF RecvBody

LEMMA DataMessage ==
    ASSUME TypeInv, SessionInv, NEW c, NEW s, Reference(c, s), NEW body
    PROVE  /\ IsClientFd(c) /\ body \in Seq(UnitsOf(owner[c])) => DataMsg(c, s, body) \in GoodToServer
           /\ IsServerFd(s) /\ body \in Seq(UnitsOf(owner[s])) => DataMsg(c, s, body) \in GoodToClient
<1>1. c \in FdOrNone /\ s \in FdOrNone
  BY SessionFacts DEF Reference
<1>2. DataMsg(c, s, body) = [tod |-> "data", c |-> c, s |-> s, body |-> body, who |-> 0]
  BY DEF DataMsg, Msg
<1>3. ASSUME IsClientFd(c), body \in Seq(UnitsOf(owner[c]))
      PROVE  DataMsg(c, s, body) \in GoodToServer
  <2>1. DataMsg(c, s, body) \in ClientMessage
    BY <1>1, <1>3, SessionFacts, UnitsOfType, DataMsgType
  <2> QED
    BY <1>2, <1>3, <2>1 DEF GoodToServer
<1>4. ASSUME IsServerFd(s), body \in Seq(UnitsOf(owner[s]))
      PROVE  DataMsg(c, s, body) \in GoodToClient
  <2>1. DataMsg(c, s, body) \in Message
    BY <1>1, <1>4, SessionFacts, UnitsOfType, DataMsgType
  <2> QED
    BY <1>2, <1>4, <2>1 DEF GoodToClient
<1> QED
  BY <1>3, <1>4

LEMMA TransmitUnits ==
    ASSUME TypeInv, SessionInv, NEW d, owner[d] \in Endpoint,
           NEW buf \in Seq(UnitsOf(Opposite(owner[d]))), NEW n \in Int, n <= Len(buf),
           Transmit(d, buf, n)
    PROVE  GotOK(got')
<1>1. got[owner[d]] \o SubSeq(buf, 1, n) \in Seq(UnitsOf(Opposite(owner[d])))
  <2>1. SubSeq(buf, 1, n) \in Seq(UnitsOf(Opposite(owner[d])))
    OBVIOUS
  <2>2. got[owner[d]] \in Seq(UnitsOf(Opposite(owner[d])))
    BY DEF SessionInv, GotOK
  <2> QED
    BY <2>1, <2>2
<1>2. got \in [Endpoint -> Seq(Unit)]
  BY DEF TypeInv, TypeOK, SharedTypeOK
<1> QED
  BY <1>1, <1>2 DEF Transmit, SessionInv, GotOK

\* What is left to show of a step that gives out no descriptor number.
LEMMA SessionSuffices ==
    ASSUME SessionInv, UNCHANGED owner,
           cs' \in Seq(GoodToServer), sc' \in Seq(GoodToClient),
           ClientDbOK(c_db'), ServerDbOK(s_db'),
           ClientStorageOK(c_storage'), ServerStorageOK(s_storage'),
           GotOK(got'), c_fds' \cup s_fds' \subseteq open',
           PairsAreServers(c_db', c_fds', c_for_close')
    PROVE  SessionInv'
<1>1. GoodToServer' = GoodToServer /\ GoodToClient' = GoodToClient
  BY DEF GoodToServer, GoodToClient, Reference, RefClient, RefServer, Paired, IsClientFd, IsServerFd
<1>2. ClientDbOK(c_db)' /\ ServerDbOK(s_db)'
  BY DEF ClientDbOK, ServerDbOK, Reference, RefClient, RefServer, Paired, IsClientFd, IsServerFd
<1>3. ClientStorageOK(c_storage)' /\ ServerStorageOK(s_storage)'
  BY DEF ClientStorageOK, ServerStorageOK, QueueOf, IsClientFd, IsServerFd
<1>4. PairsAreServers(c_db, c_fds, c_for_close)'
  BY DEF PairsAreServers, IsServerFd
<1>5. GotOK(got)'
  BY DEF GotOK
<1> QED
  BY <1>1, <1>2, <1>3, <1>4, <1>5 DEF SessionInv

-----------------------------------------------------------------------------
(* Sessions are kept apart: the client thread                              *)

\* What a step of the client thread that gives out no number owes, besides pipes and `got'.
ClientKeeps ==
    /\ ClientDbOK(c_db')
    /\ ClientStorageOK(c_storage')
    /\ c_fds' \cup s_fds \subseteq open'
    /\ PairsAreServers(c_db', c_fds', c_for_close')

LEMMA ClientSuffices ==
    ASSUME TypeInv, SessionInv, UNCHANGED <<owner, svars>>, ClientKeeps,
           cs' \in Seq(GoodToServer), sc' \in Seq(GoodToClient), GotOK(got')
    PROVE  SessionInv'
BY SessionSuffices DEF ClientKeeps, SessionInv, svars

LEMMA ClientUnchangedKeeps ==
    ASSUME SessionInv, UNCHANGED <<open, c_db, c_storage, c_fds, c_for_close>>
    PROVE  ClientKeeps
BY DEF ClientKeeps, SessionInv

LEMMA ClientCloseForceKeeps ==
    ASSUME TypeInv, SessionInv, NEW d, RefClient(d), ClientCloseConnectForce(d)
    PROVE  ClientKeeps
<1>1. d \notin s_fds
  BY SessionFacts DEF RefClient, IsServerFd
<1>2. c_fds' \cup s_fds \subseteq open'
  BY <1>1 DEF ClientCloseConnectForce, SessionInv
<1>3. ClientDbOK(c_db') /\ ClientStorageOK(c_storage')
  BY DEF ClientCloseConnectForce, SessionInv, ClientDbOK, ClientStorageOK, Erase
<1>4. PairsAreServers(c_db', c_fds', c_for_close')
  BY DEF ClientCloseConnectForce, SessionInv, PairsAreServers, Erase
<1> QED
  BY <1>2, <1>3, <1>4 DEF ClientKeeps

LEMMA ClientCloseKeeps ==
    ASSUME TypeInv, SessionInv, NEW d, RefClient(d), ClientCloseConnect(d)
    PROVE  ClientKeeps
<1>1. CASE ClientUnsent(d)
  <2>1. /\ c_for_close' = c_for_close \cup {d}
        /\ c_db' = Erase(c_db, d)
        /\ UNCHANGED <<open, c_fds, c_storage>>
    BY <1>1 DEF ClientCloseConnect
  <2>2. ClientDbOK(c_db') /\ PairsAreServers(c_db', c_fds', c_for_close')
    BY <2>1 DEF SessionInv, ClientDbOK, PairsAreServers, Erase
  <2> QED
    BY <2>1, <2>2 DEF ClientKeeps, SessionInv
<1>2. CASE ~ClientUnsent(d)
  BY <1>2, ClientCloseForceKeeps DEF ClientCloseConnect
<1> QED
  BY <1>1, <1>2

LEMMA ClientMessageKeeps ==
    ASSUME TypeInv, SessionInv, ClientHandlesMessage, UNCHANGED svars
    PROVE  SessionInv'
<1> DEFINE d == Head(sc)
<1>1. sc # <<>> /\ sc' = Tail(sc)
  BY DEF ClientHandlesMessage, FromServerNewConnect, FromServerData, FromServerNotConnect,
         FromServerDisconnect, ClientReceives
<1>2. d \in GoodToClient /\ sc' \in Seq(GoodToClient)
  BY <1>1, HeadOfPipe DEF SessionInv
<1>3. Reference(d.c, d.s) /\ RefClient(d.c)
  BY <1>2 DEF GoodToClient, Reference
<1>4. Msg("connect_not_found", d.c, d.s) \in GoodToServer
  BY <1>3, PlainMessage DEF Tod
<1>5. cs \in Seq(GoodToServer) /\ GotOK(got)
  BY DEF SessionInv
<1>6. CASE FromServerNewConnect
  <2>1. UNCHANGED <<owner, open, got, c_fds, c_for_close, c_storage>>
    BY <1>6 DEF FromServerNewConnect, netvars
  <2>2. IsServerFd(d.s)
    BY <1>2, <1>6 DEF GoodToClient, FromServerNewConnect, ClientReceives
  <2>3. CASE d.c \in DOMAIN c_db /\ c_db' = Put(c_db, d.c, d.s) /\ UNCHANGED cs
    <3>1. ClientDbOK(c_db')
      BY <1>3, <2>3 DEF SessionInv, ClientDbOK, Put
    <3>2. PairsAreServers(c_db', c_fds', c_for_close')
      BY <2>1, <2>2, <2>3 DEF SessionInv, PairsAreServers, Put
    <3>3. ClientKeeps
      BY <2>1, <3>1, <3>2 DEF ClientKeeps, SessionInv
    <3> QED
      BY <1>2, <1>5, <2>1, <2>3, <3>3, ClientSuffices
  <2>4. CASE cs' = Append(cs, Msg("connect_not_found", d.c, d.s)) /\ UNCHANGED c_db
    <3>1. cs' \in Seq(GoodToServer)
      BY <1>4, <1>5, <2>4
    <3>2. ClientKeeps
      BY <2>1, <2>4, ClientUnchangedKeeps
    <3> QED
      BY <1>2, <1>5, <2>1, <3>1, <3>2, ClientSuffices
  <2> QED
    BY <1>6, <2>3, <2>4 DEF FromServerNewConnect
<1>7. CASE FromServerData
  <2>1. UNCHANGED <<owner, open, c_db, c_fds, c_for_close>>
    BY <1>7 DEF FromServerData
  <2>2. CASE UNCHANGED <<cs, got, c_storage>>
    BY <1>2, <1>5, <2>1, <2>2, ClientUnchangedKeeps, ClientSuffices
  <2>3. CASE cs' = Append(cs, Msg("connect_not_found", d.c, d.s)) /\ UNCHANGED <<got, c_storage>>
    <3>1. cs' \in Seq(GoodToServer)
      BY <1>4, <1>5, <2>3
    <3> QED
      BY <1>2, <1>5, <2>1, <2>3, <3>1, ClientUnchangedKeeps, ClientSuffices
  <2>4. ASSUME d.c \in c_fds, UNCHANGED cs,
               NEW n \in SendResults(d.c, ToSend(c_storage[d.c], d.body)),
               Transmit(d.c, ToSend(c_storage[d.c], d.body), n),
               c_storage' = Put(c_storage, d.c, Relayed(c_storage[d.c], d.body, n))
        PROVE  SessionInv'
    <3> DEFINE U == UnitsOf(Opposite(owner[d.c]))
               q == c_storage[d.c]
    <3>1. /\ IsClientFd(d.c) /\ d.c \in DOMAIN c_storage
          /\ owner[d.c] \in Endpoint
      BY <2>4, SessionFacts
    <3>2. IsServerFd(d.s) /\ d.body \in Seq(UnitsOf(owner[d.s]))
      BY <1>2, <1>7 DEF GoodToClient, FromServerData, ClientReceives
    <3>3. owner[d.s] = Opposite(owner[d.c])
      BY <1>3, <3>1, <3>2, PairedAreOpposite DEF Reference
    <3>4. d.body \in Seq(U)
      BY <3>2, <3>3
    <3>5. q \in Seq(Seq(U))
      BY <3>1 DEF SessionInv, ClientStorageOK, QueueOf
    <3> HIDE DEF q
    <3>6. ToSend(q, d.body) \in Seq(U)
      <4> HIDE DEF U
      <4> QED
        BY <3>4, <3>5 DEF ToSend
    <3>7. n \in Int /\ n <= Len(ToSend(q, d.body))
      <4>1. Opposite(owner[d.c]) \in Endpoint
        BY <3>1 DEF Endpoint, Opposite, Client, Server
      <4>2. ToSend(q, d.body) \in Seq(Unit)
        BY <3>6, <4>1, UnitsOfType
      <4> QED
        BY <2>4, <4>2, SendResultsType DEF q
    <3>8. Relayed(q, d.body, n) \in Seq(Seq(U))
      <4> HIDE DEF U
      <4> QED
        BY <3>4, <3>5, <3>7, RelayedType
    <3>9. ClientStorageOK(c_storage')
      BY <2>4, <3>1, <3>8 DEF SessionInv, ClientStorageOK, QueueOf, Put, q
    <3>10. GotOK(got')
      BY <2>4, <3>1, <3>6, <3>7, TransmitUnits DEF q
    <3>11. ClientKeeps
      BY <2>1, <3>9 DEF ClientKeeps, SessionInv
    <3> QED
      BY <1>2, <1>5, <2>1, <2>4, <3>10, <3>11, ClientSuffices
  <2> QED
    BY <1>7, <2>2, <2>3, <2>4 DEF FromServerData
<1>8. CASE FromServerNotConnect \/ FromServerDisconnect
  <2>1. ClientCloseConnect(d.c) /\ UNCHANGED <<owner, cs, netvars>>
    BY <1>8 DEF FromServerNotConnect, FromServerDisconnect
  <2>2. ClientKeeps
    BY <1>3, <2>1, ClientCloseKeeps
  <2> QED
    BY <1>2, <1>5, <2>1, <2>2, ClientSuffices DEF netvars
<1> QED
  BY <1>6, <1>7, <1>8 DEF ClientHandlesMessage

LEMMA ClientReadKeeps ==
    ASSUME TypeInv, SessionInv, KnownInv, NEW c \in c_fds, NEW q \in QueueOf(c), ClientRead(c, q)
    PROVE  ClientKeeps /\ cs' \in Seq(GoodToServer)
<1> DEFINE ep == owner[c]
           srv == At(c_db, c)
<1>1. IsClientFd(c) /\ ep \in Endpoint /\ RefClient(c) /\ Reference(c, srv) /\ cs \in Seq(GoodToServer)
  <2>1. IsClientFd(c) /\ ep \in Endpoint /\ RefClient(c)
    BY SessionFacts
  <2>2. ClientDbOK(c_db) /\ cs \in Seq(GoodToServer)
    BY DEF SessionInv
  <2> QED
    BY <2>1, <2>2, ClientDbReference
<1>2. CASE cs' = Append(cs, Msg("disconnect", c, srv)) /\ ClientCloseConnectForce(c)
  <2>1. Msg("disconnect", c, srv) \in GoodToServer
    BY <1>1, PlainMessage DEF Tod
  <2>2. ClientKeeps
    BY <1>1, <1>2, ClientCloseForceKeeps
  <2> QED
    BY <1>1, <1>2, <2>1, <2>2
<1>3. CASE /\ c_storage' = Put(c_storage, c, q)
           /\ c_db' = Touch(c_db, c)
           /\ UNCHANGED <<open, c_fds, c_for_close>>
           /\ \/ UNCHANGED cs
              \/ \E m \in RecvCounts(ep) : cs' = Append(cs, DataMsg(c, srv, RecvBody(ep, m)))
  <2>1. ClientStorageOK(c_storage')
    BY <1>1, <1>3 DEF SessionInv, ClientStorageOK, Put
  <2>2. ClientDbOK(c_db') /\ PairsAreServers(c_db', c_fds', c_for_close')
    <3>1. CASE c \in DOMAIN c_db
      <4>1. c_db' = c_db
        BY <1>3, <3>1 DEF Touch
      <4> QED
        BY <1>3, <4>1 DEF SessionInv
    <3>2. CASE c \notin DOMAIN c_db
      <4>1. c_db' = Put(c_db, c, 0) /\ srv = 0
        BY <1>3, <3>2 DEF Touch, At
      <4>2. c \in c_for_close
        BY <3>2 DEF KnownInv, PolledAreKnown
      <4>3. ClientDbOK(c_db')
        BY <1>1, <4>1 DEF SessionInv, ClientDbOK, Put
      <4>4. PairsAreServers(c_db', c_fds', c_for_close')
        BY <1>3, <4>1, <4>2 DEF SessionInv, PairsAreServers, Put
      <4> QED
        BY <4>3, <4>4
    <3> QED
      BY <3>1, <3>2
  <2>3. ClientKeeps
    BY <1>3, <2>1, <2>2 DEF ClientKeeps, SessionInv
  <2>4. ASSUME NEW m \in RecvCounts(ep), cs' = Append(cs, DataMsg(c, srv, RecvBody(ep, m)))
        PROVE  cs' \in Seq(GoodToServer)
    <3>1. RecvBody(ep, m) \in Seq(UnitsOf(ep))
      BY <1>1, RecvUnits
    <3>2. DataMsg(c, srv, RecvBody(ep, m)) \in GoodToServer
      BY <1>1, <3>1, DataMessage
    <3> QED
      BY <1>1, <2>4, <3>2
  <2> QED
    BY <1>1, <1>3, <2>3, <2>4
<1> QED
  BY <1>2, <1>3 DEF ClientRead

\* What a flush of the front of a queue sends and leaves, for either thread.
LEMMA FlushUnits ==
    ASSUME TypeInv, SessionInv, NEW d \in DOMAIN owner, owner[d] \in Endpoint,
           NEW q \in QueueOf(d), NEW front, front = <<>> \/ (q # <<>> /\ front = Head(q)),
           NEW n \in IF front = <<>> THEN {0} ELSE SendResults(d, front), Transmit(d, front, n)
    PROVE  Flushed(q, n) \in QueueOf(d) /\ GotOK(got')
<1> DEFINE U == UnitsOf(Opposite(owner[d]))
<1>1. Seq(U) \subseteq Seq(Unit)
  <2>1. Opposite(owner[d]) \in Endpoint
    BY DEF Endpoint, Opposite, Client, Server
  <2> QED
    BY <2>1, UnitsOfType
<1>2. q \in Seq(Seq(U))
  BY DEF QueueOf
<1> HIDE DEF U
<1>3. front \in Seq(U)
  <2>1. CASE front = <<>>
    BY <2>1
  <2>2. CASE q # <<>> /\ front = Head(q)
    BY <1>2, <2>2
  <2> QED
    BY <2>1, <2>2
<1>4. n \in Int /\ n <= Len(front)
  <2>1. CASE front = <<>>
    <3>1. n = 0
      BY <2>1
    <3>2. Len(front) = 0
      BY <2>1
    <3> QED
      BY <3>1, <3>2
  <2>2. CASE front # <<>>
    <3>1. n \in SendResults(d, front) /\ front \in Seq(Unit)
      BY <1>1, <1>3, <2>2
    <3> QED
      BY <3>1, SendResultsType
  <2> QED
    BY <2>1, <2>2
<1>5. Flushed(q, n) \in Seq(Seq(U))
  <2>1. CASE n <= 0
    BY <1>2, <2>1 DEF Flushed
  <2>2. CASE n > 0
    <3>1. n > 0 => q # <<>> /\ n <= Len(Head(q))
      BY <1>4, <2>2
    <3> QED
      BY <1>2, <1>4, <3>1, FlushedType
  <2> QED
    BY <1>4, <2>1, <2>2
<1>6. GotOK(got')
  BY <1>3, <1>4, TransmitUnits DEF U
<1> QED
  BY <1>5, <1>6 DEF QueueOf, U

LEMMA FromClientsKeeps ==
    ASSUME TypeInv, SessionInv, KnownInv, NEW c, NEW out \in BOOLEAN, NEW in \in BOOLEAN,
           FromClients(c, out, in), UNCHANGED svars
    PROVE  SessionInv'
<1> DEFINE front == IF out /\ ClientUnsent(c) THEN Head(c_storage[c]) ELSE <<>>
           q(n) == Flushed(c_storage[c], n)
<1>1. PICK n \in IF front = <<>> THEN {0} ELSE SendResults(c, front) :
        /\ Transmit(c, front, n)
        /\ \/ /\ ClientCloseConnectForce(c)
              /\ UNCHANGED <<cs, read>>
           \/ ClientRead(c, q(n))
           \/ /\ c_storage' = Put(c_storage, c, q(n))
              /\ UNCHANGED <<open, cs, read, c_db, c_fds, c_for_close>>
  BY DEF FromClients
<1>2. c \in c_fds /\ UNCHANGED <<owner, sc>>
  BY DEF FromClients
<1>3. IsClientFd(c) /\ c \in DOMAIN c_storage /\ owner[c] \in Endpoint /\ RefClient(c) /\ c \in DOMAIN owner
  BY <1>2, SessionFacts DEF IsClientFd
<1>4. c_storage[c] \in QueueOf(c)
  BY <1>3 DEF SessionInv, ClientStorageOK
<1>5. q(n) \in QueueOf(c) /\ GotOK(got')
  <2>1. front = <<>> \/ (c_storage[c] # <<>> /\ front = Head(c_storage[c]))
    BY DEF ClientUnsent
  <2> HIDE DEF front
  <2> QED
    BY <1>1, <1>3, <1>4, <2>1, FlushUnits
<1>6. ClientKeeps /\ cs' \in Seq(GoodToServer)
  <2>1. CASE ClientCloseConnectForce(c) /\ UNCHANGED cs
    BY <1>3, <2>1, ClientCloseForceKeeps DEF SessionInv
  <2>2. CASE ClientRead(c, q(n))
    BY <1>2, <1>5, <2>2, ClientReadKeeps
  <2>3. CASE c_storage' = Put(c_storage, c, q(n)) /\ UNCHANGED <<open, cs, c_db, c_fds, c_for_close>>
    <3>1. ClientStorageOK(c_storage')
      BY <1>3, <1>5, <2>3 DEF SessionInv, ClientStorageOK, Put
    <3> QED
      BY <2>3, <3>1 DEF ClientKeeps, SessionInv
  <2> QED
    BY <1>1, <2>1, <2>2, <2>3
<1> QED
  BY <1>2, <1>5, <1>6, ClientSuffices DEF SessionInv

LEMMA ClientHupKeeps ==
    ASSUME TypeInv, SessionInv, NEW c, ClientHup(c), UNCHANGED svars
    PROVE  SessionInv'
<1>1. /\ c \in c_fds /\ cs' = Append(cs, Msg("disconnect", c, At(c_db, c)))
      /\ ClientCloseConnectForce(c) /\ UNCHANGED <<owner, sc, got>>
  BY DEF ClientHup, netvars
<1>2. IsClientFd(c) /\ RefClient(c) /\ ClientDbOK(c_db)
  BY <1>1, SessionFacts DEF SessionInv
<1>3. Msg("disconnect", c, At(c_db, c)) \in GoodToServer
  BY <1>2, ClientDbReference, PlainMessage DEF Tod
<1>4. cs' \in Seq(GoodToServer)
  BY <1>1, <1>3 DEF SessionInv
<1>5. ClientKeeps
  BY <1>1, <1>2, ClientCloseForceKeeps
<1> QED
  BY <1>1, <1>4, <1>5, ClientSuffices DEF SessionInv

LEMMA ClientHupOnEmptySlotKeeps ==
    ASSUME TypeInv, SessionInv, ClientHupOnEmptySlot, UNCHANGED svars
    PROVE  SessionInv'
<1>1. /\ cs' = Append(cs, Msg("disconnect", -1, At(c_db, -1)))
      /\ UNCHANGED <<open, owner, sc, got, c_db, c_fds, c_for_close, c_storage>>
  BY DEF ClientHupOnEmptySlot, netvars
<1>2. Msg("disconnect", -1, At(c_db, -1)) \in GoodToServer
  <2>1. Reference(-1, At(c_db, -1))
    BY ClientDbReference DEF SessionInv
  <2> QED
    BY <2>1, PlainMessage DEF Tod
<1>3. cs' \in Seq(GoodToServer)
  BY <1>1, <1>2 DEF SessionInv
<1>4. ClientKeeps
  BY <1>1, ClientUnchangedKeeps
<1> QED
  BY <1>1, <1>3, <1>4, ClientSuffices DEF SessionInv

-----------------------------------------------------------------------------
(* Sessions are kept apart: a number is given out for the first time       *)

\* References stay what they are when `owner' only gains new keys.
OwnerGrows ==
    /\ DOMAIN owner \subseteq DOMAIN owner'
    /\ \A d \in DOMAIN owner : owner'[d] = owner[d]
    /\ DOMAIN owner' \subseteq Fd

LEMMA ReferencesStay ==
    ASSUME TypeInv, OwnerGrows
    PROVE  /\ \A d \in DOMAIN owner : IsClientFd(d)' <=> IsClientFd(d)
           /\ \A d \in DOMAIN owner : IsServerFd(d)' <=> IsServerFd(d)
           /\ ~IsClientFd(-1)' /\ ~IsServerFd(-1)'
           /\ \A c, s : Reference(c, s) => Reference(c, s)'
<1>1. -1 \notin DOMAIN owner'
  BY ProxyAssumption DEF OwnerGrows
<1>2. /\ \A d \in DOMAIN owner : IsClientFd(d)' <=> IsClientFd(d)
      /\ \A d \in DOMAIN owner : IsServerFd(d)' <=> IsServerFd(d)
      /\ ~IsClientFd(-1)' /\ ~IsServerFd(-1)'
  BY <1>1 DEF OwnerGrows, IsClientFd, IsServerFd
<1>3. ASSUME NEW c, NEW s, Reference(c, s)
      PROVE  Reference(c, s)'
  <2>1. RefClient(c)' /\ RefServer(s)'
    BY <1>3 DEF Reference, RefClient, RefServer, OwnerGrows
  <2>2. Paired(c, s)'
    <3>1. (c = -1 \/ c \in DOMAIN owner) /\ (s = -1 \/ s \in DOMAIN owner)
      BY <1>3 DEF Reference, RefClient, RefServer
    <3>2. ASSUME IsClientFd(c)', IsServerFd(s)'
          PROVE  owner'[c].id = owner'[s].id
      <4>1. c \in DOMAIN owner /\ s \in DOMAIN owner /\ IsClientFd(c) /\ IsServerFd(s)
        BY <1>2, <3>1, <3>2
      <4> QED
        BY <1>3, <4>1 DEF Reference, Paired, OwnerGrows
    <3> QED
      BY <3>2 DEF Paired
  <2> QED
    BY <2>1, <2>2 DEF Reference
<1> QED
  BY <1>2, <1>3

LEMMA SessionStays ==
    ASSUME TypeInv, SessionInv, OwnerGrows
    PROVE  /\ GoodToServer \subseteq GoodToServer' /\ GoodToClient \subseteq GoodToClient'
           /\ 0 \in DOMAIN owner' /\ owner'[0] = Stdio
           /\ \A c \in DOMAIN c_db : \A s : s = c_db[c] => IsClientFd(c)' /\ Reference(c, s)'
           /\ \A s \in DOMAIN s_db : \A c : c = s_db[s] => IsServerFd(s)' /\ Reference(c, s)'
           /\ \A c \in DOMAIN c_storage : IsClientFd(c)' /\ c_storage[c] \in QueueOf(c)'
           /\ \A s \in DOMAIN s_storage : IsServerFd(s)' /\ s_storage[s] \in QueueOf(s)'
           /\ \A c \in (DOMAIN c_db \cap c_fds) \ c_for_close : \A s :
                 s = c_db[c] /\ s # -1 => IsServerFd(s)'
<1>1. ASSUME NEW m \in GoodToServer PROVE m \in GoodToServer'
  <2>1. Reference(m.c, m.s)'
    BY ReferencesStay DEF GoodToServer
  <2>2. m.tod = "new_connect" => m.c \in DOMAIN owner' /\ owner'[m.c] = Client(m.who)
    BY DEF GoodToServer, OwnerGrows
  <2>3. m.tod = "data" => IsClientFd(m.c)' /\ m.body \in Seq(UnitsOf(owner'[m.c]))
    BY DEF GoodToServer, OwnerGrows, IsClientFd
  <2> QED
    BY <2>1, <2>2, <2>3 DEF GoodToServer
<1>2. ASSUME NEW m \in GoodToClient PROVE m \in GoodToClient'
  <2>1. Reference(m.c, m.s)'
    BY ReferencesStay DEF GoodToClient
  <2>2. m.tod \in {"new_connect", "data"} => IsServerFd(m.s)'
    BY DEF GoodToClient, OwnerGrows, IsServerFd
  <2>3. m.tod = "data" => m.body \in Seq(UnitsOf(owner'[m.s]))
    BY DEF GoodToClient, OwnerGrows, IsServerFd
  <2> QED
    BY <2>1, <2>2, <2>3 DEF GoodToClient
<1>3. 0 \in DOMAIN owner' /\ owner'[0] = Stdio
  BY DEF SessionInv, OwnerGrows
<1>4. \A c \in DOMAIN c_db : \A s : s = c_db[c] => IsClientFd(c)' /\ Reference(c, s)'
  BY ReferencesStay DEF SessionInv, ClientDbOK, IsClientFd
<1>5. \A s \in DOMAIN s_db : \A c : c = s_db[s] => IsServerFd(s)' /\ Reference(c, s)'
  BY ReferencesStay DEF SessionInv, ServerDbOK, IsServerFd
<1>6. \A c \in DOMAIN c_storage : IsClientFd(c)' /\ c_storage[c] \in QueueOf(c)'
  BY DEF SessionInv, ClientStorageOK, IsClientFd, QueueOf, OwnerGrows
<1>7. \A s \in DOMAIN s_storage : IsServerFd(s)' /\ s_storage[s] \in QueueOf(s)'
  BY DEF SessionInv, ServerStorageOK, IsServerFd, QueueOf, OwnerGrows
<1>8. \A c \in (DOMAIN c_db \cap c_fds) \ c_for_close : \A s :
                 s = c_db[c] /\ s # -1 => IsServerFd(s)'
  BY DEF SessionInv, PairsAreServers, IsServerFd, OwnerGrows
<1> QED
  BY <1>1, <1>2, <1>3, <1>4, <1>5, <1>6, <1>7, <1>8

LEMMA FreshNumber ==
    ASSUME ~Recycle, TypeInv, NEW d, NEW ep \in Endpoint, GiveOut(d, ep)
    PROVE  /\ OwnerGrows /\ d \in Fd /\ d \notin DOMAIN owner /\ open' = open \cup {d}
           /\ d \in DOMAIN owner' /\ owner'[d] = ep
<1>1. SharedTypeOK
  BY DEF TypeInv, TypeOK
<1>2. /\ IsMap(owner', Fd, Owner)
      /\ DOMAIN owner' = DOMAIN owner \cup {d}
      /\ owner'[d] = ep
      /\ \A x \in DOMAIN owner : x # d => owner'[x] = owner[x]
  BY <1>1, GiveOutType
<1>3. d \in Fd /\ d \notin DOMAIN owner /\ open' = open \cup {d}
  BY DEF GiveOut, IsNextFd, Taken
<1> QED
  BY <1>2, <1>3 DEF OwnerGrows, IsMap

LEMMA AcceptKeeps ==
    ASSUME ~Recycle, TypeInv, SessionInv, NEW k \in Sessions, Accept(k), UNCHANGED svars
    PROVE  SessionInv'
<1>1. PICK c \in Fd : /\ GiveOut(c, Client(k))
                      /\ cs' = Append(cs, ConnectMsg(c, k))
                      /\ c_db' = Put(c_db, c, -1)
                      /\ c_storage' = Put(c_storage, c, <<>>)
                      /\ c_fds' = c_fds \cup {c}
  BY DEF Accept
<1>2. UNCHANGED <<sc, got, c_for_close>>
  BY DEF Accept
<1>3. /\ OwnerGrows /\ c \notin DOMAIN owner /\ open' = open \cup {c}
      /\ c \in DOMAIN owner' /\ owner'[c] = Client(k)
  <2>1. Client(k) \in Endpoint
    BY DEF Client, Endpoint
  <2> QED
    BY <1>1, <2>1, FreshNumber
<1>4. /\ GoodToServer \subseteq GoodToServer' /\ GoodToClient \subseteq GoodToClient'
      /\ 0 \in DOMAIN owner' /\ owner'[0] = Stdio
      /\ \A x \in DOMAIN c_db : \A s : s = c_db[x] => IsClientFd(x)' /\ Reference(x, s)'
      /\ \A s \in DOMAIN s_db : \A x : x = s_db[s] => IsServerFd(s)' /\ Reference(x, s)'
      /\ \A x \in DOMAIN c_storage : IsClientFd(x)' /\ c_storage[x] \in QueueOf(x)'
      /\ \A s \in DOMAIN s_storage : IsServerFd(s)' /\ s_storage[s] \in QueueOf(s)'
      /\ \A x \in (DOMAIN c_db \cap c_fds) \ c_for_close : \A s :
            s = c_db[x] /\ s # -1 => IsServerFd(s)'
  BY <1>3, SessionStays
<1>5. IsClientFd(c)' /\ ~IsServerFd(-1)' /\ RefClient(c)' /\ RefServer(-1)'
  BY <1>3, ReferencesStay DEF IsClientFd, RefClient, RefServer, Client
<1>6. cs' \in Seq(GoodToServer')
  <2>1. ConnectMsg(c, k) = [tod |-> "new_connect", c |-> c, s |-> -1, body |-> <<>>, who |-> k]
    BY DEF ConnectMsg, Msg
  <2>2. ConnectMsg(c, k) \in ClientMessage
    BY <1>1, ConnectMsgType, FdFacts
  <2>3. Reference(c, -1)'
    BY <1>5 DEF Reference, Paired
  <2>4. ConnectMsg(c, k) \in GoodToServer'
    BY <1>3, <2>1, <2>2, <2>3 DEF GoodToServer
  <2>5. cs \in Seq(GoodToServer')
    BY <1>4, SeqMonotone DEF SessionInv
  <2> QED
    BY <1>1, <2>4, <2>5
<1>7. sc' \in Seq(GoodToClient')
  BY <1>2, <1>4, SeqMonotone DEF SessionInv
<1>8. ClientDbOK(c_db)'
  <2> SUFFICES ASSUME NEW x \in DOMAIN c_db', NEW s, s = c_db'[x]
               PROVE  IsClientFd(x)' /\ Reference(x, s)'
    BY DEF ClientDbOK, Reference, RefClient, RefServer, Paired, IsClientFd, IsServerFd
  <2>1. CASE x = c
    BY <1>1, <1>5, <2>1 DEF Put, Reference, Paired
  <2>2. CASE x # c
    BY <1>1, <1>4, <2>2 DEF Put
  <2> QED
    BY <2>1, <2>2
<1>9. ServerDbOK(s_db)'
  <2> SUFFICES ASSUME NEW s \in DOMAIN s_db', NEW x, x = s_db'[s]
               PROVE  IsServerFd(s)' /\ Reference(x, s)'
    BY DEF ServerDbOK, Reference, RefClient, RefServer, Paired, IsClientFd, IsServerFd
  <2> QED
    BY <1>4 DEF svars
<1>10. ClientStorageOK(c_storage)'
  <2>1. <<>> \in QueueOf(c)'
    BY DEF QueueOf
  <2>2. \A x \in DOMAIN c_storage' : IsClientFd(x)' /\ c_storage'[x] \in QueueOf(x)'
    BY <1>1, <1>4, <1>5, <2>1 DEF Put
  <2> QED
    BY <2>2 DEF ClientStorageOK, IsClientFd, QueueOf
<1>11. ServerStorageOK(s_storage)'
  BY <1>4 DEF ServerStorageOK, IsServerFd, QueueOf, svars
<1>12. GotOK(got)'
  BY <1>2 DEF SessionInv, GotOK
<1>13. (c_fds \cup s_fds \subseteq open)'
  BY <1>1, <1>3 DEF SessionInv, svars
<1>14. PairsAreServers(c_db, c_fds, c_for_close)'
  <2> SUFFICES ASSUME NEW x \in (DOMAIN c_db' \cap c_fds') \ c_for_close', NEW s,
                      s = c_db'[x], s # -1
               PROVE  IsServerFd(s)'
    BY DEF PairsAreServers, IsServerFd
  <2>1. x # c /\ x \in (DOMAIN c_db \cap c_fds) \ c_for_close /\ s = c_db[x]
    BY <1>1, <1>2 DEF Put
  <2> QED
    BY <1>4, <2>1
<1> QED
  BY <1>4, <1>6, <1>7, <1>8, <1>9, <1>10, <1>11, <1>12, <1>13, <1>14 DEF SessionInv

LEMMA ClientStepKeeps ==
    ASSUME ~Recycle, TypeInv, SessionInv, KnownInv, ClientStep, UNCHANGED svars
    PROVE  SessionInv'
<1>1. CASE AcceptFails \/ ClientPollNval
  <2>1. UNCHANGED <<open, owner, cs, sc, netvars, cvars>>
    BY <1>1 DEF AcceptFails, ClientPollNval, ClientFatal
  <2>2. ClientKeeps
    BY <2>1, ClientUnchangedKeeps DEF cvars
  <2> QED
    BY <2>1, <2>2, ClientSuffices DEF netvars, SessionInv
<1>2. CASE \E k \in Sessions : Accept(k)
  BY <1>2, AcceptKeeps
<1>3. CASE ClientHandlesMessage
  BY <1>3, ClientMessageKeeps
<1>4. CASE \E c \in Fd : ClientServes(c)
  BY <1>4, FromClientsKeeps, ClientHupKeeps DEF ClientServes
<1>5. CASE ClientHupOnEmptySlot
  BY <1>5, ClientHupOnEmptySlotKeeps
<1> QED
  BY <1>1, <1>2, <1>3, <1>4, <1>5 DEF ClientStep

-----------------------------------------------------------------------------
(* Sessions are kept apart: the server thread                              *)

\* What a step of the server thread that gives out no number owes, besides pipes and `got'.
ServerKeeps ==
    /\ ServerDbOK(s_db')
    /\ ServerStorageOK(s_storage')
    /\ c_fds \cup s_fds' \subseteq open'

LEMMA ServerSuffices ==
    ASSUME TypeInv, SessionInv, UNCHANGED <<owner, cvars>>, ServerKeeps,
           cs' \in Seq(GoodToServer), sc' \in Seq(GoodToClient), GotOK(got')
    PROVE  SessionInv'
BY SessionSuffices DEF ServerKeeps, SessionInv, cvars

LEMMA ServerCloseForceKeeps ==
    ASSUME TypeInv, SessionInv, NEW d, RefServer(d), ServerCloseConnectForce(d)
    PROVE  ServerKeeps
<1>1. d \notin c_fds
  BY SessionFacts DEF RefServer, IsClientFd
<1>2. c_fds \cup s_fds' \subseteq open'
  BY <1>1 DEF ServerCloseConnectForce, SessionInv
<1>3. ServerDbOK(s_db') /\ ServerStorageOK(s_storage')
  BY DEF ServerCloseConnectForce, SessionInv, ServerDbOK, ServerStorageOK, Erase
<1> QED
  BY <1>2, <1>3 DEF ServerKeeps

LEMMA ServerCloseKeeps ==
    ASSUME TypeInv, SessionInv, NEW d, RefServer(d), ServerCloseConnect(d)
    PROVE  ServerKeeps
<1>1. CASE ServerUnsent(d)
  <2>1. s_db' = Erase(s_db, d) /\ UNCHANGED <<open, s_fds, s_storage>>
    BY <1>1 DEF ServerCloseConnect
  <2>2. ServerDbOK(s_db')
    BY <2>1 DEF SessionInv, ServerDbOK, Erase
  <2> QED
    BY <2>1, <2>2 DEF ServerKeeps, SessionInv
<1>2. CASE ~ServerUnsent(d)
  BY <1>2, ServerCloseForceKeeps DEF ServerCloseConnect
<1> QED
  BY <1>1, <1>2

LEMMA ConnectingKeeps ==
    ASSUME ~Recycle, TypeInv, SessionInv, UNCHANGED <<cvars, got>>,
           NEW d \in GoodToServer, d.tod = "new_connect", cs' \in Seq(GoodToServer),
           NEW s \in Fd, NEW far, Connecting(s, d, far),
           sc' = sc \/ sc' = Append(sc, Msg("new_connect", d.c, s))
    PROVE  SessionInv'
<1>1. /\ GiveOut(s, Server(d.who))
      /\ s_db' = Put(s_db, s, d.c)
      /\ s_storage' = Put(s_storage, s, <<>>)
      /\ s_fds' = s_fds \cup {s}
  BY DEF Connecting
<1>2. d.who \in Sessions /\ d.c \in DOMAIN owner /\ owner[d.c] = Client(d.who) /\ d.c \in FdOrNone
  BY DEF GoodToServer, ClientMessage, Message
<1>3. /\ OwnerGrows /\ s \notin DOMAIN owner /\ open' = open \cup {s}
      /\ s \in DOMAIN owner' /\ owner'[s] = Server(d.who)
  <2>1. Server(d.who) \in Endpoint
    BY <1>2 DEF Server, Endpoint
  <2> QED
    BY <1>1, <2>1, FreshNumber
<1>4. /\ GoodToServer \subseteq GoodToServer' /\ GoodToClient \subseteq GoodToClient'
      /\ 0 \in DOMAIN owner' /\ owner'[0] = Stdio
      /\ \A c \in DOMAIN c_db : \A x : x = c_db[c] => IsClientFd(c)' /\ Reference(c, x)'
      /\ \A x \in DOMAIN s_db : \A c : c = s_db[x] => IsServerFd(x)' /\ Reference(c, x)'
      /\ \A c \in DOMAIN c_storage : IsClientFd(c)' /\ c_storage[c] \in QueueOf(c)'
      /\ \A x \in DOMAIN s_storage : IsServerFd(x)' /\ s_storage[x] \in QueueOf(x)'
      /\ \A c \in (DOMAIN c_db \cap c_fds) \ c_for_close : \A x :
            x = c_db[c] /\ x # -1 => IsServerFd(x)'
  BY <1>3, SessionStays
<1>5. ASSUME NEW c, c = d.c
      PROVE  IsServerFd(s)' /\ Reference(c, s)'
  <2>1. c \in DOMAIN owner' /\ owner'[c] = Client(d.who)
    BY <1>2, <1>3, <1>5 DEF OwnerGrows
  <2> QED
    BY <1>3, <2>1 DEF Reference, RefClient, RefServer, Paired, IsClientFd, IsServerFd, Client, Server
<1>6. cs' \in Seq(GoodToServer')
  BY <1>4, SeqMonotone
<1>7. sc' \in Seq(GoodToClient')
  <2>1. sc \in Seq(GoodToClient')
    BY <1>4, SeqMonotone DEF SessionInv
  <2>2. Msg("new_connect", d.c, s) = [tod |-> "new_connect", c |-> d.c, s |-> s, body |-> <<>>, who |-> 0]
    BY DEF Msg
  <2>3. Msg("new_connect", d.c, s) \in Message
    BY <1>2, MsgType, FdFacts DEF Tod
  <2>4. ASSUME NEW m, m = Msg("new_connect", d.c, s) PROVE m \in GoodToClient'
    <3>1. m \in Message /\ m.tod = "new_connect" /\ m.c = d.c /\ m.s = s
      BY <2>2, <2>3, <2>4
    <3>2. IsServerFd(s)' /\ Reference(m.c, m.s)'
      BY <1>5, <3>1
    <3>3. IsServerFd(m.s)'
      BY <3>1, <3>2 DEF IsServerFd
    <3> QED
      BY <3>1, <3>2, <3>3 DEF GoodToClient
  <2>5. CASE sc' = sc
    BY <2>1, <2>5
  <2>6. CASE sc' = Append(sc, Msg("new_connect", d.c, s))
    BY <2>1, <2>4, <2>6
  <2> QED
    BY <2>5, <2>6
<1>8. ServerDbOK(s_db)'
  <2> SUFFICES ASSUME NEW x \in DOMAIN s_db', NEW c, c = s_db'[x]
               PROVE  IsServerFd(x)' /\ Reference(c, x)'
    BY DEF ServerDbOK, Reference, RefClient, RefServer, Paired, IsClientFd, IsServerFd
  <2>1. CASE x = s
    <3>1. c = d.c
      BY <1>1, <2>1 DEF Put
    <3> QED
      BY <1>5, <2>1, <3>1
  <2>2. CASE x # s
    BY <1>1, <1>4, <2>2 DEF Put
  <2> QED
    BY <2>1, <2>2
<1>9. ClientDbOK(c_db)'
  <2> SUFFICES ASSUME NEW c \in DOMAIN c_db', NEW x, x = c_db'[c]
               PROVE  IsClientFd(c)' /\ Reference(c, x)'
    BY DEF ClientDbOK, Reference, RefClient, RefServer, Paired, IsClientFd, IsServerFd
  <2> QED
    BY <1>4 DEF cvars
<1>10. ServerStorageOK(s_storage)'
  <2>1. <<>> \in QueueOf(s)' /\ IsServerFd(s)'
    BY <1>5 DEF QueueOf
  <2>2. \A x \in DOMAIN s_storage' : IsServerFd(x)' /\ s_storage'[x] \in QueueOf(x)'
    BY <1>1, <1>4, <2>1 DEF Put
  <2> QED
    BY <2>2 DEF ServerStorageOK, IsServerFd, QueueOf
<1>11. ClientStorageOK(c_storage)'
  BY <1>4 DEF ClientStorageOK, IsClientFd, QueueOf, cvars
<1>12. GotOK(got)'
  BY DEF SessionInv, GotOK
<1>13. (c_fds \cup s_fds \subseteq open)'
  BY <1>1, <1>3 DEF SessionInv, cvars
<1>14. PairsAreServers(c_db, c_fds, c_for_close)'
  <2> SUFFICES ASSUME NEW c \in (DOMAIN c_db' \cap c_fds') \ c_for_close', NEW x,
                      x = c_db'[c], x # -1
               PROVE  IsServerFd(x)'
    BY DEF PairsAreServers, IsServerFd
  <2> QED
    BY <1>4 DEF cvars
<1> QED
  BY <1>4, <1>6, <1>7, <1>8, <1>9, <1>10, <1>11, <1>12, <1>13, <1>14 DEF SessionInv

LEMMA ServerMessageKeeps ==
    ASSUME ~Recycle, TypeInv, SessionInv, ServerHandlesMessage, ~SocketFails, UNCHANGED cvars
    PROVE  SessionInv'
<1> DEFINE d == Head(cs)
<1>1. cs # <<>> /\ cs' = Tail(cs)
  BY DEF ServerHandlesMessage, FromClientNewConnect, FromClientData, FromClientConnectNotFound,
         FromClientDisconnect, ServerReceives
<1>2. d \in GoodToServer /\ cs' \in Seq(GoodToServer)
  BY <1>1, HeadOfPipe DEF SessionInv
<1>3. Reference(d.c, d.s) /\ RefServer(d.s) /\ RefClient(d.c)
  BY <1>2 DEF GoodToServer, Reference
<1>4. sc \in Seq(GoodToClient) /\ GotOK(got)
  BY DEF SessionInv
<1>5. CASE FromClientNewConnect
  <2>1. UNCHANGED got /\ d.tod = "new_connect"
    BY <1>5 DEF FromClientNewConnect, ServerReceives
  <2>2. CASE \E s \in Fd : \E far \in {"pending", "open"} :
                  /\ Connecting(s, d, far)
                  /\ sc' = sc \/ sc' = Append(sc, Msg("new_connect", d.c, s))
    BY <1>2, <2>1, <2>2, ConnectingKeeps
  <2>3. CASE /\ sc' = Append(sc, Msg("not_connect", d.c, -1))
             /\ UNCHANGED <<open, owner, s_db, s_fds, s_storage>>
    <3>1. Reference(d.c, -1)
      BY <1>3, SessionFacts DEF Reference, Paired
    <3>2. Msg("not_connect", d.c, -1) \in GoodToClient
      BY <3>1, PlainMessage DEF Tod
    <3>3. sc' \in Seq(GoodToClient)
      BY <1>4, <2>3, <3>2
    <3>4. ServerKeeps
      BY <2>3 DEF ServerKeeps, SessionInv
    <3> QED
      BY <1>2, <1>4, <2>1, <2>3, <3>3, <3>4, ServerSuffices
  <2> QED
    BY <1>5, <2>2, <2>3 DEF FromClientNewConnect
<1>6. CASE FromClientData
  <2>1. UNCHANGED <<owner, sc, open, s_db, s_fds>>
    BY <1>6 DEF FromClientData
  <2>2. CASE UNCHANGED <<got, s_storage>>
    <3>1. ServerKeeps
      BY <2>1, <2>2 DEF ServerKeeps, SessionInv
    <3> QED
      BY <1>2, <1>4, <2>1, <2>2, <3>1, ServerSuffices
  <2>3. ASSUME d.s \in s_fds,
               NEW n \in SendResults(d.s, ToSend(s_storage[d.s], d.body)),
               Transmit(d.s, ToSend(s_storage[d.s], d.body), n),
               s_storage' = Put(s_storage, d.s, Relayed(s_storage[d.s], d.body, n))
        PROVE  SessionInv'
    <3> DEFINE U == UnitsOf(Opposite(owner[d.s]))
               q == s_storage[d.s]
    <3>1. /\ IsServerFd(d.s) /\ d.s \in DOMAIN s_storage
          /\ owner[d.s] \in Endpoint
      BY <2>3, SessionFacts
    <3>2. IsClientFd(d.c) /\ d.body \in Seq(UnitsOf(owner[d.c]))
      BY <1>2, <1>6 DEF GoodToServer, FromClientData, ServerReceives
    <3>3. owner[d.c] = Opposite(owner[d.s])
      BY <1>3, <3>1, <3>2, PairedAreOpposite DEF Reference
    <3>4. d.body \in Seq(U)
      BY <3>2, <3>3
    <3>5. q \in Seq(Seq(U))
      BY <3>1 DEF SessionInv, ServerStorageOK, QueueOf
    <3> HIDE DEF q
    <3>6. ToSend(q, d.body) \in Seq(U)
      <4> HIDE DEF U
      <4> QED
        BY <3>4, <3>5 DEF ToSend
    <3>7. n \in Int /\ n <= Len(ToSend(q, d.body))
      <4>1. Opposite(owner[d.s]) \in Endpoint
        BY <3>1 DEF Endpoint, Opposite, Client, Server
      <4>2. ToSend(q, d.body) \in Seq(Unit)
        BY <3>6, <4>1, UnitsOfType
      <4> QED
        BY <2>3, <4>2, SendResultsType DEF q
    <3>8. Relayed(q, d.body, n) \in Seq(Seq(U))
      <4> HIDE DEF U
      <4> QED
        BY <3>4, <3>5, <3>7, RelayedType
    <3>9. ServerStorageOK(s_storage')
      BY <2>3, <3>1, <3>8 DEF SessionInv, ServerStorageOK, QueueOf, Put, q
    <3>10. GotOK(got')
      BY <2>3, <3>1, <3>6, <3>7, TransmitUnits DEF q
    <3>11. ServerKeeps
      BY <2>1, <3>9 DEF ServerKeeps, SessionInv
    <3> QED
      BY <1>2, <1>4, <2>1, <3>10, <3>11, ServerSuffices
  <2> QED
    BY <1>6, <2>2, <2>3 DEF FromClientData
<1>7. CASE FromClientConnectNotFound \/ FromClientDisconnect
  <2>1. ServerCloseConnect(d.s) /\ UNCHANGED <<owner, sc, netvars>>
    BY <1>7 DEF FromClientConnectNotFound, FromClientDisconnect
  <2>2. ServerKeeps
    BY <1>3, <2>1, ServerCloseKeeps
  <2> QED
    BY <1>2, <1>4, <2>1, <2>2, ServerSuffices DEF netvars
<1> QED
  BY <1>5, <1>6, <1>7 DEF ServerHandlesMessage

LEMMA ServerReadKeeps ==
    ASSUME TypeInv, SessionInv, NEW s \in s_fds, NEW q \in QueueOf(s),
           NEW db, ServerDbOK(db), NEW log \in Seq(GoodToClient), NEW forClose \in BOOLEAN,
           ServerRead(s, db, q, log, forClose)
    PROVE  ServerKeeps /\ sc' \in Seq(GoodToClient)
<1> DEFINE ep == owner[s]
<1>1. IsServerFd(s) /\ ep \in Endpoint /\ RefServer(s) /\ Reference(At(db, s), s) /\ RefClient(0)
      /\ Paired(0, s)
  <2>1. IsServerFd(s) /\ ep \in Endpoint /\ RefServer(s) /\ RefClient(0) /\ Paired(0, s)
    BY SessionFacts DEF Paired
  <2> QED
    BY <2>1, ServerDbReference
<1>2. CASE sc' = Append(log, Msg("disconnect", At(db, s), s)) /\ ServerCloseConnectForce(s)
  <2>1. Msg("disconnect", At(db, s), s) \in GoodToClient
    BY <1>1, PlainMessage DEF Tod
  <2>2. ServerKeeps
    BY <1>1, <1>2, ServerCloseForceKeeps
  <2> QED
    BY <1>2, <2>1, <2>2
<1>3. ASSUME NEW m \in RecvCounts(ep),
             IF forClose
               THEN sc' = log /\ s_db' = db
               ELSE /\ sc' = Append(log, DataMsg(At(db, s), s, RecvBody(ep, m)))
                    /\ s_db' = Touch(db, s),
             s_storage' = Put(s_storage, s, q),
             UNCHANGED <<open, s_fds>>
      PROVE  ServerKeeps /\ sc' \in Seq(GoodToClient)
  <2>1. ServerStorageOK(s_storage')
    BY <1>1, <1>3 DEF SessionInv, ServerStorageOK, Put
  <2>2. ServerDbOK(s_db')
    <3>1. ServerDbOK(Touch(db, s))
      BY <1>1 DEF ServerDbOK, Touch, Put, Reference
    <3> QED
      BY <1>3, <3>1
  <2>3. sc' \in Seq(GoodToClient)
    <3>1. RecvBody(ep, m) \in Seq(UnitsOf(ep))
      BY <1>1, <1>3, RecvUnits
    <3>2. DataMsg(At(db, s), s, RecvBody(ep, m)) \in GoodToClient
      BY <1>1, <3>1, DataMessage
    <3>3. Append(log, DataMsg(At(db, s), s, RecvBody(ep, m))) \in Seq(GoodToClient)
      BY <3>2
    <3> QED
      BY <1>3, <3>3
  <2> QED
    BY <1>3, <2>1, <2>2, <2>3 DEF ServerKeeps, SessionInv
<1> QED
  BY <1>2, <1>3 DEF ServerRead

LEMMA ConnectFinishedKeeps ==
    ASSUME TypeInv, SessionInv, NEW s, NEW in \in BOOLEAN, ConnectFinished(s, in), UNCHANGED cvars
    PROVE  SessionInv'
<1>1. s \in s_fds /\ UNCHANGED <<owner, cs, got>>
  BY DEF ConnectFinished
<1>2. IsServerFd(s) /\ s \in DOMAIN s_storage /\ RefServer(s)
  BY <1>1, SessionFacts
<1>3. Reference(At(s_db, s), s) /\ RefClient(0) /\ Paired(0, s)
  BY <1>2, ServerDbReference, SessionFacts DEF SessionInv, Paired
<1>4. sc \in Seq(GoodToClient)
  BY DEF SessionInv
<1> DEFINE log == Append(sc, Msg("new_connect", At(s_db, s), s))
<1>5. log \in Seq(GoodToClient)
  <2>1. Msg("new_connect", At(s_db, s), s)
          = [tod |-> "new_connect", c |-> At(s_db, s), s |-> s, body |-> <<>>, who |-> 0]
    BY DEF Msg
  <2>2. Msg("new_connect", At(s_db, s), s) \in Message
    BY <1>3, SessionFacts, MsgType DEF Reference, Tod
  <2>3. Msg("new_connect", At(s_db, s), s) \in GoodToClient
    BY <1>2, <1>3, <2>1, <2>2 DEF GoodToClient
  <2> QED
    BY <1>4, <2>3
<1>6. ServerDbOK(Touch(s_db, s))
  BY <1>2, <1>3 DEF SessionInv, ServerDbOK, Touch, Put, Reference
<1>7. ServerKeeps /\ sc' \in Seq(GoodToClient)
  <2>1. CASE sc' = Append(sc, Msg("not_connect", At(s_db, s), -1)) /\ ServerCloseConnectForce(s)
    <3>1. Reference(At(s_db, s), -1)
      BY <1>3, SessionFacts DEF Reference, Paired
    <3>2. Msg("not_connect", At(s_db, s), -1) \in GoodToClient
      BY <3>1, PlainMessage DEF Tod
    <3>3. ServerKeeps
      BY <1>2, <2>1, ServerCloseForceKeeps
    <3> QED
      BY <1>4, <2>1, <3>2, <3>3
  <2>2. CASE ServerRead(s, Touch(s_db, s), s_storage[s], log, FALSE)
    <3>1. s_storage[s] \in QueueOf(s)
      BY <1>2 DEF SessionInv, ServerStorageOK
    <3> HIDE DEF log
    <3> QED
      BY <1>1, <1>5, <1>6, <2>2, <3>1, ServerReadKeeps
  <2>3. CASE sc' = log /\ s_db' = Touch(s_db, s) /\ UNCHANGED <<open, s_fds, s_storage>>
    BY <1>5, <1>6, <2>3 DEF ServerKeeps, SessionInv
  <2> QED
    BY <2>1, <2>2, <2>3 DEF ConnectFinished
<1> QED
  BY <1>1, <1>7, ServerSuffices DEF SessionInv

LEMMA FromServerKeeps ==
    ASSUME TypeInv, SessionInv, NEW s, NEW out \in BOOLEAN, NEW in \in BOOLEAN,
           FromServer(s, out, in), UNCHANGED cvars
    PROVE  SessionInv'
<1> DEFINE front == IF out /\ ServerUnsent(s) THEN Head(s_storage[s]) ELSE <<>>
           q(n) == Flushed(s_storage[s], n)
           forClose == out /\ s \in s_for_close
<1>1. PICK n \in IF front = <<>> THEN {0} ELSE SendResults(s, front) :
        /\ Transmit(s, front, n)
        /\ \/ /\ ServerCloseConnectForce(s)
              /\ UNCHANGED <<sc, read>>
           \/ ServerRead(s, s_db, q(n), sc, forClose)
           \/ /\ s_storage' = Put(s_storage, s, q(n))
              /\ UNCHANGED <<open, sc, read, s_db, s_con_wait, s_fds, s_for_close>>
  BY DEF FromServer
<1>2. s \in s_fds /\ UNCHANGED <<owner, cs>>
  BY DEF FromServer
<1>3. IsServerFd(s) /\ s \in DOMAIN s_storage /\ owner[s] \in Endpoint /\ RefServer(s) /\ s \in DOMAIN owner
  BY <1>2, SessionFacts DEF IsServerFd
<1>4. s_storage[s] \in QueueOf(s)
  BY <1>3 DEF SessionInv, ServerStorageOK
<1>5. q(n) \in QueueOf(s) /\ GotOK(got')
  <2>1. front = <<>> \/ (s_storage[s] # <<>> /\ front = Head(s_storage[s]))
    BY DEF ServerUnsent
  <2> HIDE DEF front
  <2> QED
    BY <1>1, <1>3, <1>4, <2>1, FlushUnits
<1>6. ServerKeeps /\ sc' \in Seq(GoodToClient)
  <2>1. CASE ServerCloseConnectForce(s) /\ UNCHANGED sc
    BY <1>3, <2>1, ServerCloseForceKeeps DEF SessionInv
  <2>2. CASE ServerRead(s, s_db, q(n), sc, forClose)
    <3>1. forClose \in BOOLEAN /\ ServerDbOK(s_db) /\ sc \in Seq(GoodToClient)
      BY DEF SessionInv
    <3> HIDE DEF forClose, q
    <3> QED
      BY <1>2, <1>5, <2>2, <3>1, ServerReadKeeps
  <2>3. CASE s_storage' = Put(s_storage, s, q(n)) /\ UNCHANGED <<open, sc, s_db, s_fds>>
    <3>1. ServerStorageOK(s_storage')
      BY <1>3, <1>5, <2>3 DEF SessionInv, ServerStorageOK, Put
    <3> QED
      BY <2>3, <3>1 DEF ServerKeeps, SessionInv
  <2> QED
    BY <1>1, <2>1, <2>2, <2>3
<1> QED
  BY <1>2, <1>5, <1>6, ServerSuffices DEF SessionInv

LEMMA ConnectTimeoutKeeps ==
    ASSUME TypeInv, SessionInv, KnownInv, NEW s, ConnectTimeout(s), UNCHANGED cvars
    PROVE  SessionInv'
<1>1. /\ s \in s_con_wait
      /\ sc' = Append(sc, Msg("not_connect", At(s_db, s), -1))
      /\ open' = open \ {s}
      /\ s_db' = Erase(s_db, s)
      /\ s_fds' = s_fds \ {s}
      /\ UNCHANGED <<owner, cs, got, s_storage>>
  BY DEF ConnectTimeout, netvars
<1>2. IsServerFd(s)
  BY <1>1, SessionFacts DEF KnownInv, WaitersHaveClient
<1>3. Msg("not_connect", At(s_db, s), -1) \in GoodToClient
  <2>1. Reference(At(s_db, s), -1)
    BY <1>2, ServerDbReference, SessionFacts DEF SessionInv, Reference, Paired
  <2> QED
    BY <2>1, PlainMessage DEF Tod
<1>4. sc' \in Seq(GoodToClient)
  BY <1>1, <1>3 DEF SessionInv
<1>5. ServerDbOK(s_db')
  BY <1>1 DEF SessionInv, ServerDbOK, Erase
<1>6. c_fds \cup s_fds' \subseteq open'
  <2>1. s \notin c_fds
    BY <1>2, SessionFacts DEF IsClientFd, IsServerFd
  <2> QED
    BY <1>1, <2>1 DEF SessionInv
<1> QED
  BY <1>1, <1>4, <1>5, <1>6, ServerSuffices DEF ServerKeeps, SessionInv

LEMMA ServerHupKeeps ==
    ASSUME TypeInv, SessionInv, NEW s, ServerHup(s), UNCHANGED cvars
    PROVE  SessionInv'
<1>1. /\ s \in s_fds /\ sc' = Append(sc, Msg("disconnect", At(s_db, s), s))
      /\ ServerCloseConnectForce(s) /\ UNCHANGED <<owner, cs, got>>
  BY DEF ServerHup, netvars
<1>2. IsServerFd(s) /\ RefServer(s) /\ ServerDbOK(s_db)
  BY <1>1, SessionFacts DEF SessionInv
<1>3. Msg("disconnect", At(s_db, s), s) \in GoodToClient
  BY <1>2, ServerDbReference, PlainMessage DEF Tod
<1>4. sc' \in Seq(GoodToClient)
  BY <1>1, <1>3 DEF SessionInv
<1>5. ServerKeeps
  BY <1>1, <1>2, ServerCloseForceKeeps
<1> QED
  BY <1>1, <1>4, <1>5, ServerSuffices DEF SessionInv

LEMMA ServerHupOnEmptySlotKeeps ==
    ASSUME TypeInv, SessionInv, ServerHupOnEmptySlot, UNCHANGED cvars
    PROVE  SessionInv'
<1>1. /\ sc' = Append(sc, Msg("disconnect", At(s_db, -1), -1))
      /\ UNCHANGED <<open, owner, cs, got, s_db, s_fds, s_storage>>
  BY DEF ServerHupOnEmptySlot, netvars
<1>2. Msg("disconnect", At(s_db, -1), -1) \in GoodToClient
  <2>1. Reference(At(s_db, -1), -1)
    BY ServerDbReference DEF SessionInv
  <2> QED
    BY <2>1, PlainMessage DEF Tod
<1>3. sc' \in Seq(GoodToClient)
  BY <1>1, <1>2 DEF SessionInv
<1>4. ServerKeeps
  BY <1>1 DEF ServerKeeps, SessionInv
<1> QED
  BY <1>1, <1>3, <1>4, ServerSuffices DEF SessionInv

LEMMA ServerStepKeeps ==
    ASSUME ~Recycle, TypeInv, SessionInv, KnownInv, ServerStep, UNCHANGED cvars
    PROVE  SessionInv'
<1>1. CASE SocketFails \/ ServerPollNval
  <2>1. UNCHANGED <<open, owner, cs, sc, netvars, svars>>
    BY <1>1 DEF SocketFails, ServerPollNval, ServerFatal
  <2>2. ServerKeeps
    BY <2>1 DEF ServerKeeps, SessionInv, svars
  <2> QED
    BY <2>1, <2>2, ServerSuffices DEF netvars, SessionInv
<1>2. CASE ServerHandlesMessage /\ ~SocketFails
  BY <1>2, ServerMessageKeeps
<1>3. CASE \E s \in Fd : ServerServes(s)
  BY <1>3, ConnectFinishedKeeps, FromServerKeeps, ConnectTimeoutKeeps, ServerHupKeeps
     DEF ServerServes
<1>4. CASE ServerHupOnEmptySlot
  BY <1>4, ServerHupOnEmptySlotKeeps
<1> QED
  BY <1>1, <1>2, <1>3, <1>4 DEF ServerStep

-----------------------------------------------------------------------------
(* Sessions are kept apart: the theorems                                   *)

LEMMA InitSessionInv == Init => SessionInv
<1> SUFFICES ASSUME Init PROVE SessionInv
  OBVIOUS
<1>1. 0 \in DOMAIN owner /\ owner[0] = Stdio
  BY DEF Init, SharedInit
<1>2. cs \in Seq(GoodToServer) /\ sc \in Seq(GoodToClient) /\ GotOK(got)
  BY DEF Init, SharedInit, GotOK
<1>3. /\ ClientDbOK(c_db) /\ ServerDbOK(s_db)
      /\ ClientStorageOK(c_storage) /\ ServerStorageOK(s_storage)
      /\ PairsAreServers(c_db, c_fds, c_for_close) /\ c_fds \cup s_fds \subseteq open
  BY DEF Init, ClientInit, ServerInit, ClientDbOK, ServerDbOK, ClientStorageOK, ServerStorageOK,
         PairsAreServers
<1> QED
  BY <1>1, <1>2, <1>3 DEF SessionInv

LEMMA NextSessionInv ==
    ~Recycle => (TypeInv /\ KnownInv /\ SessionInv /\ [Next]_vars => SessionInv')
<1> SUFFICES ASSUME ~Recycle, TypeInv, KnownInv, SessionInv, [Next]_vars PROVE SessionInv'
  OBVIOUS
<1>1. CASE ClientStep /\ UNCHANGED svars
  BY <1>1, ClientStepKeeps
<1>2. CASE ServerStep /\ UNCHANGED cvars
  BY <1>2, ServerStepKeeps
<1>3. CASE UNCHANGED <<open, owner, cs, sc, got, cvars, svars>>
  BY <1>3, SessionSuffices DEF cvars, svars, SessionInv
<1>4. NetStep => UNCHANGED <<open, owner, cs, sc, got>>
  BY DEF NetStep, Connect, PeerStep, ConnectAnswered, PeerSends, PeerShutsDown, PeerResets
<1> QED
  BY <1>1, <1>2, <1>3, <1>4 DEF Next, vars, sharedvars

LEMMA SessionInvariant == ~Recycle => (Spec => []SessionInv)
<1> SUFFICES ASSUME ~Recycle PROVE Spec => []SessionInv
  OBVIOUS
<1>1. TypeInv /\ KnownInv /\ SessionInv /\ [Next]_vars => SessionInv'
  BY NextSessionInv
<1> QED
  BY <1>1, InitSessionInv, TypeInvariant, KnownInvariant, PTL DEF Spec

\* If no descriptor number is used twice, no client is ever sent a byte of another session's
\* server, nor the other way round, however messages, closes and failures interleave.
THEOREM SessionsAreIsolated == ~Recycle => (Spec => []Isolation)
<1> SUFFICES ASSUME ~Recycle PROVE Spec => []Isolation
  OBVIOUS
<1>1. SessionInv => Isolation
  BY DEF SessionInv, GotOK, UnitsOf, Isolation
<1> QED
  BY <1>1, SessionInvariant, PTL

\* If no descriptor number is used twice, db pairs a client socket that is not being flushed
\* away with the server socket of its own session, or with none.
THEOREM PairsStaySessions == ~Recycle => (Spec => []PairsAreSessions)
<1> SUFFICES ASSUME ~Recycle PROVE Spec => []PairsAreSessions
  OBVIOUS
<1>1. TypeInv /\ SessionInv => PairsAreSessions
  <2> SUFFICES ASSUME TypeInv, SessionInv,
                      NEW c \in (DOMAIN c_db \cap c_fds) \ c_for_close, c_db[c] # -1
               PROVE  owner[c_db[c]] = Opposite(owner[c])
    BY DEF PairsAreSessions
  <2>1. IsClientFd(c) /\ IsServerFd(c_db[c]) /\ Paired(c, c_db[c])
    BY DEF SessionInv, ClientDbOK, PairsAreServers, Reference
  <2> QED
    BY <2>1, PairedAreOpposite
<1> QED
  BY <1>1, TypeInvariant, SessionInvariant, PTL

\* If no descriptor number is used twice, a thread polls only sockets that it opened itself
\* and that are still open: poll() never reports POLLNVAL, which would end the proxy.
THEOREM PolledStayOwn == ~Recycle => (Spec => []PolledAreOwn)
<1> SUFFICES ASSUME ~Recycle PROVE Spec => []PolledAreOwn
  OBVIOUS
<1>1. TypeInv /\ SessionInv => PolledAreOwn
  <2> SUFFICES ASSUME TypeInv, SessionInv PROVE PolledAreOwn
    OBVIOUS
  <2>1. \A c \in c_fds : IsClientFd(c) /\ c \in open
    BY SessionFacts DEF SessionInv
  <2>2. \A s \in s_fds : IsServerFd(s) /\ s \in open
    BY SessionFacts DEF SessionInv
  <2> QED
    BY <2>1, <2>2 DEF PolledAreOwn, IsClientFd, IsServerFd
<1> QED
  BY <1>1, TypeInvariant, SessionInvariant, PTL

=============================================================================
