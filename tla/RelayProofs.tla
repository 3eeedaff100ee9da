----------------------------- MODULE RelayProofs -----------------------------
(***************************************************************************)
(* Proofs that the relay keeps every stream in order, keeps what it has    *)
(* queued, flushes what it means to close, leaves no half of a session     *)
(* behind, and so implements SessionSpec, when descriptor numbers are not  *)
(* recycled.                                                               *)
(***************************************************************************)
EXTENDS RelayInv, SessionProofs

-----------------------------------------------------------------------------
(* A session goes through the proxy once                                   *)

\* A pipe is left alone, loses its front, or gains a message that announces no session.
PipeQuiet(pipe, next) ==
    \/ next = pipe
    \/ pipe # <<>> /\ next = Tail(pipe)
    \/ \E m : m.tod # "new_connect" /\ next = Append(pipe, m)

LEMMA PipeShape ==
    ASSUME NEW pipe \in Seq(Message), NEW next \in Seq(Message), PipeQuiet(pipe, next)
    PROVE  \A i \in 1 .. Len(next) : next[i].tod = "new_connect" =>
              \/ i \in 1 .. Len(pipe) /\ next[i] = pipe[i] /\ Len(next) >= Len(pipe)
              \/ i + 1 \in 1 .. Len(pipe) /\ next[i] = pipe[i + 1] /\ Len(next) < Len(pipe)
<1>1. CASE next = pipe
  BY <1>1
<1>2. CASE pipe # <<>> /\ next = Tail(pipe)
  <2>1. Len(next) = Len(pipe) - 1 /\ \A i \in 1 .. Len(next) : next[i] = pipe[i + 1]
    BY <1>2
  <2> QED
    BY <2>1
<1>3. ASSUME NEW m, m.tod # "new_connect", next = Append(pipe, m)
      PROVE  \A i \in 1 .. Len(next) : next[i].tod = "new_connect" =>
                i \in 1 .. Len(pipe) /\ next[i] = pipe[i] /\ Len(next) >= Len(pipe)
  <2>1. /\ Len(next) = Len(pipe) + 1 /\ next[Len(pipe) + 1] = m
        /\ \A i \in 1 .. Len(pipe) : next[i] = pipe[i]
    BY <1>3
  <2> QED
    BY <1>3, <2>1
<1> QED
  BY <1>1, <1>2, <1>3 DEF PipeQuiet

LEMMA OnceQuiet ==
    ASSUME OnceInv, TypeInv, TypeInv', PipeQuiet(cs, cs'), UNCHANGED owner,
           \A k \in Sessions : Waiting(k)' => Waiting(k),
           \A k \in Sessions : peer'[Client(k)] = "none" => k \notin backlog'
    PROVE  OnceInv'
<1>1. cs \in Seq(Message) /\ cs' \in Seq(Message)
  <2>1. ClientMessage \subseteq Message
    BY DEF ClientMessage
  <2>2. cs \in Seq(ClientMessage) /\ cs' \in Seq(ClientMessage)
    BY DEF TypeInv, TypeOK, SharedTypeOK
  <2> QED
    BY <2>1, <2>2, SeqMonotone
<1>2. \A i \in 1 .. Len(cs') : cs'[i].tod = "new_connect" =>
              \/ i \in 1 .. Len(cs) /\ cs'[i] = cs[i] /\ Len(cs') >= Len(cs)
              \/ i + 1 \in 1 .. Len(cs) /\ cs'[i] = cs[i + 1] /\ Len(cs') < Len(cs)
  BY <1>1, PipeShape
<1>3. \A k : Announced(k)' => Announced(k)
  BY <1>2 DEF Announced
<1>4. \A ep : Numbered(ep)' <=> Numbered(ep)
  BY DEF Numbered
<1>5. \A i, j \in 1 .. Len(cs') :
         cs'[i].tod = "new_connect" /\ cs'[j].tod = "new_connect" /\ cs'[i].who = cs'[j].who => i = j
  <2> SUFFICES ASSUME NEW i \in 1 .. Len(cs'), NEW j \in 1 .. Len(cs'), cs'[i].tod = "new_connect",
                      cs'[j].tod = "new_connect", cs'[i].who = cs'[j].who
               PROVE  i = j
    OBVIOUS
  <2>1. Len(cs) \in Nat /\ Len(cs') \in Nat /\ i \in Int /\ j \in Int
    BY <1>1
  <2>2. CASE Len(cs') >= Len(cs)
    BY <1>2, <2>1, <2>2 DEF OnceInv
  <2>3. CASE Len(cs') < Len(cs)
    <3>1. /\ i + 1 \in 1 .. Len(cs) /\ cs'[i] = cs[i + 1]
          /\ j + 1 \in 1 .. Len(cs) /\ cs'[j] = cs[j + 1]
      BY <1>2, <2>1, <2>3
    <3>2. i + 1 = j + 1
      BY <3>1 DEF OnceInv
    <3> QED
      BY <2>1, <3>2
  <2> QED
    BY <2>1, <2>2, <2>3
<1> QED
  BY <1>3, <1>4, <1>5 DEF OnceInv

LEMMA OnceAccept ==
    ASSUME ~Recycle, TypeInv, TypeInv', OnceInv, NEW k \in Sessions, Accept(k)
    PROVE  OnceInv'
<1>1. PICK c \in Fd : GiveOut(c, Client(k)) /\ cs' = Append(cs, ConnectMsg(c, k))
  BY DEF Accept
<1>2. k \in backlog /\ backlog' = backlog \ {k} /\ UNCHANGED peer
  BY DEF Accept
<1>3. /\ c \notin DOMAIN owner /\ owner'[c] = Client(k) /\ DOMAIN owner' = DOMAIN owner \cup {c}
      /\ \A d \in DOMAIN owner : owner'[d] = owner[d]
  BY <1>1, Domains DEF GiveOut, IsNextFd, Taken, Put
<1>4. cs \in Seq(ClientMessage)
  BY DEF TypeInv, TypeOK, SharedTypeOK
<1>5. ConnectMsg(c, k).tod = "new_connect" /\ ConnectMsg(c, k).who = k
  BY DEF ConnectMsg, Msg
<1>6. /\ Len(cs') = Len(cs) + 1 /\ Len(cs) \in Nat /\ cs'[Len(cs) + 1] = ConnectMsg(c, k)
      /\ \A i \in 1 .. Len(cs) : cs'[i] = cs[i]
  BY <1>1, <1>4
<1>7. Waiting(k) /\ ~Announced(k) /\ ~Numbered(Client(k)) /\ ~Numbered(Server(k))
  BY <1>2 DEF Waiting, OnceInv
<1>8. peer[Client(k)] # "none"
  BY <1>2 DEF OnceInv
<1>9. \A x \in Sessions : Waiting(x)' => Waiting(x) /\ x # k
  BY <1>2, <1>8 DEF Waiting
<1>10. \A x : Announced(x)' => Announced(x) \/ x = k
  BY <1>5, <1>6 DEF Announced
<1>11. \A ep : Numbered(ep)' => Numbered(ep) \/ ep = Client(k)
  BY <1>3 DEF Numbered
<1>12. \A x \in Sessions : Client(x) = Client(k) => x = k
  BY DEF Client
<1>13. \A x \in Sessions : Server(x) # Client(k)
  BY DEF Client, Server
<1>14. \A d, e \in DOMAIN owner' : owner'[d] = owner'[e] => d = e
  BY <1>3, <1>7 DEF OnceInv, Numbered
<1>15. ~Announced(k) => \A i \in 1 .. Len(cs) : cs[i].tod = "new_connect" => cs[i].who # k
  BY DEF Announced
<1>16. \A i, j \in 1 .. Len(cs') :
         cs'[i].tod = "new_connect" /\ cs'[j].tod = "new_connect" /\ cs'[i].who = cs'[j].who => i = j
  <2> SUFFICES ASSUME NEW i \in 1 .. Len(cs'), NEW j \in 1 .. Len(cs'), cs'[i].tod = "new_connect",
                      cs'[j].tod = "new_connect", cs'[i].who = cs'[j].who
               PROVE  i = j
    OBVIOUS
  <2>1. (i \in 1 .. Len(cs) \/ i = Len(cs) + 1) /\ (j \in 1 .. Len(cs) \/ j = Len(cs) + 1)
    BY <1>6
  <2>2. i \in 1 .. Len(cs) => cs[i].tod = "new_connect" /\ cs[i].who = cs'[i].who /\ cs[i].who # k
    BY <1>6, <1>7, <1>15
  <2>3. j \in 1 .. Len(cs) => cs[j].tod = "new_connect" /\ cs[j].who = cs'[j].who /\ cs[j].who # k
    BY <1>6, <1>7, <1>15
  <2> QED
    BY <1>5, <1>6, <2>1, <2>2, <2>3 DEF OnceInv
<1>17. \A x \in Sessions : peer'[Client(x)] = "none" => x \notin backlog'
  BY <1>2 DEF OnceInv
<1>18. \A x \in Sessions : Announced(x)' => ~Numbered(Server(x))'
  BY <1>7, <1>10, <1>11, <1>13 DEF OnceInv
<1>19. \A x \in Sessions : Waiting(x)' => ~Announced(x)' /\ ~Numbered(Client(x))' /\ ~Numbered(Server(x))'
  BY <1>9, <1>10, <1>11, <1>12, <1>13 DEF OnceInv
<1> QED
  BY <1>14, <1>16, <1>17, <1>18, <1>19 DEF OnceInv

\* The front of the pipe announces a session; afterwards nothing else does.
LEMMA FrontAnnounces ==
    ASSUME TypeInv, OnceInv, cs # <<>>, Head(cs).tod = "new_connect", cs' = Tail(cs),
           NEW k, k = Head(cs).who
    PROVE  /\ k \in Sessions /\ Announced(k) /\ ~Announced(k)'
           /\ \A x : Announced(x)' => Announced(x)
<1>1. cs \in Seq(ClientMessage) /\ Head(cs) \in ClientMessage /\ Head(cs) = cs[1] /\ 1 \in 1 .. Len(cs)
  BY DEF TypeInv, TypeOK, SharedTypeOK
<1>2. Len(cs') = Len(cs) - 1 /\ Len(cs) \in Nat /\ \A i \in 1 .. Len(cs') : cs'[i] = cs[i + 1]
  BY <1>1
<1>3. \A i \in 1 .. Len(cs') : i + 1 \in 1 .. Len(cs) /\ i + 1 # 1
  BY <1>2
<1>4. k \in Sessions /\ Announced(k)
  BY <1>1 DEF ClientMessage, Message, Announced
<1>5. \A x : Announced(x)' => Announced(x)
  BY <1>2, <1>3 DEF Announced
<1>6. ~Announced(k)'
  <2> SUFFICES ASSUME NEW i \in 1 .. Len(cs'), cs'[i].tod = "new_connect", cs'[i].who = k
               PROVE  FALSE
    BY DEF Announced
  <2>1. cs[i + 1].tod = "new_connect" /\ cs[i + 1].who = cs[1].who /\ cs[1].tod = "new_connect"
    BY <1>1, <1>2
  <2> QED
    BY <1>1, <1>3, <2>1 DEF OnceInv
<1> QED
  BY <1>4, <1>5, <1>6

LEMMA OnceConnecting ==
    ASSUME ~Recycle, TypeInv, TypeInv', OnceInv, UNCHANGED backlog,
           cs # <<>>, Head(cs).tod = "new_connect", cs' = Tail(cs),
           NEW s \in Fd, NEW far, Connecting(s, Head(cs), far)
    PROVE  OnceInv'
<1> PICK k : k = Head(cs).who
  OBVIOUS
<1>1. k \in Sessions /\ Announced(k) /\ ~Announced(k)' /\ \A x : Announced(x)' => Announced(x)
  BY FrontAnnounces
<1>2. GiveOut(s, Server(k)) /\ \E f : peer' = [peer EXCEPT ![Server(k)] = f]
  BY DEF Connecting
<1>3. /\ s \notin DOMAIN owner /\ owner'[s] = Server(k) /\ DOMAIN owner' = DOMAIN owner \cup {s}
      /\ \A d \in DOMAIN owner : owner'[d] = owner[d]
  BY <1>2, Domains DEF GiveOut, IsNextFd, Taken, Put
<1>4. ~Numbered(Server(k))
  BY <1>1 DEF OnceInv
<1>5. \A ep : Numbered(ep)' => Numbered(ep) \/ ep = Server(k)
  BY <1>3 DEF Numbered
<1>6. \A x \in Sessions : Client(x) # Server(k) /\ Client(x) \in Endpoint
  BY DEF Client, Server, Endpoint
<1>7. \A x \in Sessions : peer'[Client(x)] = peer[Client(x)]
  BY <1>2, <1>6 DEF TypeInv, TypeOK, SharedTypeOK
<1>8. \A x \in Sessions : Waiting(x)' => Waiting(x) /\ x # k
  BY <1>1, <1>7 DEF Waiting, OnceInv
<1>9. \A x \in Sessions : Server(x) = Server(k) => x = k
  BY DEF Server
<1>10. \A d, e \in DOMAIN owner' : owner'[d] = owner'[e] => d = e
  BY <1>3, <1>4 DEF OnceInv, Numbered
<1>11. \A x \in Sessions : Announced(x)' => ~Numbered(Server(x))'
  BY <1>1, <1>5, <1>9 DEF OnceInv
<1>12. \A x \in Sessions : Waiting(x)' => ~Announced(x)' /\ ~Numbered(Client(x))' /\ ~Numbered(Server(x))'
  BY <1>1, <1>5, <1>6, <1>8, <1>9 DEF OnceInv
<1>13. \A x \in Sessions : peer'[Client(x)] = "none" => x \notin backlog'
  BY <1>7 DEF OnceInv
<1>14. \A i, j \in 1 .. Len(cs') :
         cs'[i].tod = "new_connect" /\ cs'[j].tod = "new_connect" /\ cs'[i].who = cs'[j].who => i = j
  <2>1. cs \in Seq(ClientMessage)
    BY DEF TypeInv, TypeOK, SharedTypeOK
  <2>2. /\ Len(cs') = Len(cs) - 1 /\ Len(cs) \in Nat
        /\ \A i \in 1 .. Len(cs') : cs'[i] = cs[i + 1] /\ i + 1 \in 1 .. Len(cs)
    BY <2>1
  <2>3. \A i, j \in 1 .. Len(cs') : i + 1 = j + 1 => i = j
    OBVIOUS
  <2> QED
    BY <2>2, <2>3 DEF OnceInv
<1> QED
  BY <1>10, <1>11, <1>12, <1>13, <1>14 DEF OnceInv

LEMMA NoticeIsQuiet ==
    ASSUME NEW pipe
    PROVE  /\ PipeQuiet(pipe, pipe)
           /\ \A c, s : PipeQuiet(pipe, Append(pipe, Msg("disconnect", c, s)))
           /\ \A c, s : PipeQuiet(pipe, Append(pipe, Msg("connect_not_found", c, s)))
           /\ \A c, s, body : PipeQuiet(pipe, Append(pipe, DataMsg(c, s, body)))
<1>1. \A c, s, body : /\ Msg("disconnect", c, s).tod = "disconnect"
                      /\ Msg("connect_not_found", c, s).tod = "connect_not_found"
                      /\ DataMsg(c, s, body).tod = "data"
  BY DEF Msg, DataMsg
<1> QED
  BY <1>1 DEF PipeQuiet

\* Only accept() announces a session.
LEMMA ClientIsQuiet ==
    ASSUME ClientStep
    PROVE  \/ \E k \in Sessions : Accept(k)
           \/ PipeQuiet(cs, cs') /\ UNCHANGED <<owner, backlog, peer, sent>>
<1>1. CASE AcceptFails \/ ClientPollNval
  BY <1>1 DEF AcceptFails, ClientPollNval, ClientFatal, PipeQuiet, netvars
<1>2. CASE ClientHupOnEmptySlot
  BY <1>2, NoticeIsQuiet DEF ClientHupOnEmptySlot, netvars
<1>5. CASE FromServerNewConnect
  BY <1>5, NoticeIsQuiet DEF FromServerNewConnect, netvars
<1>6. CASE FromServerData
  BY <1>6, NoticeIsQuiet DEF FromServerData
<1>7. CASE FromServerNotConnect \/ FromServerDisconnect
  BY <1>7 DEF FromServerNotConnect, FromServerDisconnect, PipeQuiet, netvars
<1>3. ASSUME NEW c \in Fd, ClientHup(c)
      PROVE  PipeQuiet(cs, cs') /\ UNCHANGED <<owner, backlog, peer, sent>>
  BY <1>3, NoticeIsQuiet DEF ClientHup, netvars
<1>4. ASSUME NEW c \in Fd, NEW out \in BOOLEAN, NEW in \in BOOLEAN, FromClients(c, out, in)
      PROVE  PipeQuiet(cs, cs') /\ UNCHANGED <<owner, backlog, peer, sent>>
  <2>1. UNCHANGED <<owner, backlog, peer, sent>>
    BY <1>4 DEF FromClients
  <2>2. UNCHANGED cs \/ \E n : ClientRead(c, Flushed(c_storage[c], n))
    BY <1>4 DEF FromClients
  <2>3. ASSUME NEW n, ClientRead(c, Flushed(c_storage[c], n))
        PROVE  PipeQuiet(cs, cs')
    <3>1. \/ UNCHANGED cs
          \/ cs' = Append(cs, Msg("disconnect", c, At(c_db, c)))
          \/ \E body : cs' = Append(cs, DataMsg(c, At(c_db, c), body))
      BY <2>3 DEF ClientRead
    <3> QED
      BY <3>1, NoticeIsQuiet
  <2> QED
    BY <2>1, <2>2, <2>3, NoticeIsQuiet
<1> QED
  BY <1>1, <1>2, <1>3, <1>4, <1>5, <1>6, <1>7 DEF ClientStep, ClientHandlesMessage, ClientServes

\* Only the server thread's handler of an announcement dials.
LEMMA ServerIsQuiet ==
    ASSUME ServerStep
    PROVE  /\ UNCHANGED <<backlog, sent>>
           /\ \/ /\ ServerReceives("new_connect")
                 /\ \E s \in Fd, far \in PeerState : Connecting(s, Head(cs), far)
              \/ PipeQuiet(cs, cs') /\ UNCHANGED <<owner, peer>>
<1>1. CASE SocketFails \/ ServerPollNval \/ ServerHupOnEmptySlot
  BY <1>1 DEF SocketFails, ServerPollNval, ServerFatal, ServerHupOnEmptySlot, PipeQuiet, netvars
<1>2. CASE FromClientNewConnect
  BY <1>2 DEF FromClientNewConnect, ServerReceives, PipeQuiet, PeerState
<1>3. CASE FromClientData \/ FromClientConnectNotFound \/ FromClientDisconnect
  BY <1>3 DEF FromClientData, FromClientConnectNotFound, FromClientDisconnect, ServerReceives,
         PipeQuiet, netvars
<1>4. CASE \E s \in Fd : ServerServes(s)
  <2>1. ASSUME NEW s, ConnectTimeout(s) \/ ServerHup(s) PROVE UNCHANGED <<cs, owner, peer, backlog, sent>>
    BY <2>1 DEF ConnectTimeout, ServerHup, netvars
  <2>2. ASSUME NEW s, NEW in, ConnectFinished(s, in) PROVE UNCHANGED <<cs, owner, peer, backlog, sent>>
    BY <2>2 DEF ConnectFinished
  <2>3. ASSUME NEW s, NEW out, NEW in, FromServer(s, out, in)
        PROVE  UNCHANGED <<cs, owner, peer, backlog, sent>>
    BY <2>3 DEF FromServer
  <2> QED
    BY <1>4, <2>1, <2>2, <2>3 DEF ServerServes, PipeQuiet
<1> QED
  BY <1>1, <1>2, <1>3, <1>4 DEF ServerStep, ServerHandlesMessage

LEMMA NetIsQuiet ==
    ASSUME TypeInv, OnceInv, NetStep
    PROVE  /\ UNCHANGED <<alive, open, owner, cs, sc, read, got>>
           /\ \A k \in Sessions : Waiting(k)' => Waiting(k)
           /\ \A k \in Sessions : peer'[Client(k)] = "none" => k \notin backlog'
<1>1. peer \in [Endpoint -> PeerState] /\ \A k \in Sessions : Client(k) \in Endpoint
  BY DEF TypeInv, TypeOK, SharedTypeOK, Client, Endpoint
<1>2. ASSUME NEW k \in Sessions, Connect(k)
      PROVE  /\ \A x \in Sessions : Waiting(x)' => Waiting(x)
             /\ \A x \in Sessions : peer'[Client(x)] = "none" => x \notin backlog'
  <2>1. /\ peer[Client(k)] = "none" /\ backlog' = backlog \cup {k}
        /\ peer' = [peer EXCEPT ![Client(k)] = "open"]
    BY <1>2 DEF Connect
  <2>2. Waiting(k)
    BY <2>1 DEF Waiting
  <2>3. \A x \in Sessions : x # k => Client(x) # Client(k)
    BY DEF Client
  <2> QED
    BY <1>1, <2>1, <2>2, <2>3 DEF Waiting, OnceInv
<1>3. ASSUME NEW ep \in Endpoint, PeerStep(ep)
      PROVE  /\ \A x \in Sessions : Waiting(x)' => Waiting(x)
             /\ \A x \in Sessions : peer'[Client(x)] = "none" => x \notin backlog'
  <2>1. UNCHANGED backlog /\ (UNCHANGED peer \/ \E a \in {"open", "rst", "fin"} : peer' = [peer EXCEPT ![ep] = a])
    BY <1>3 DEF PeerStep, ConnectAnswered, PeerSends, PeerShutsDown, PeerResets
  <2>2. \A x \in Sessions : peer'[Client(x)] = "none" => peer[Client(x)] = "none"
    BY <1>1, <2>1
  <2> QED
    BY <2>1, <2>2 DEF Waiting, OnceInv
<1>4. UNCHANGED <<alive, open, owner, cs, sc, read, got>>
  BY DEF NetStep, Connect, PeerStep, ConnectAnswered, PeerSends, PeerShutsDown, PeerResets
<1> QED
  BY <1>2, <1>3, <1>4 DEF NetStep

LEMMA InitOnceInv == Init => OnceInv
<1> SUFFICES ASSUME Init PROVE OnceInv
  OBVIOUS
<1>1. cs = <<>> /\ owner = [d \in {0} |-> Stdio] /\ backlog = {}
  BY DEF Init, SharedInit
<1>2. \A k \in Sessions : Client(k) # Stdio /\ Server(k) # Stdio
  BY DEF Client, Server, Stdio
<1>3. \A k : ~Announced(k)
  BY <1>1 DEF Announced
<1> QED
  BY <1>1, <1>2, <1>3 DEF OnceInv, Numbered

LEMMA NextOnceInv ==
    ~Recycle => (TypeInv /\ TypeInv' /\ OnceInv /\ [Next]_vars => OnceInv')
<1> SUFFICES ASSUME ~Recycle, TypeInv, TypeInv', OnceInv, [Next]_vars PROVE OnceInv'
  OBVIOUS
<1>1. ASSUME PipeQuiet(cs, cs'), UNCHANGED <<owner, backlog, peer>>
      PROVE  OnceInv'
  <2>1. /\ \A k \in Sessions : Waiting(k)' => Waiting(k)
        /\ \A k \in Sessions : peer'[Client(k)] = "none" => k \notin backlog'
    BY <1>1 DEF Waiting, OnceInv
  <2> QED
    BY <1>1, <2>1, OnceQuiet
<1>2. CASE ClientStep
  BY <1>1, <1>2, ClientIsQuiet, OnceAccept
<1>3. CASE ServerStep
  BY <1>1, <1>3, ServerIsQuiet, OnceConnecting DEF ServerReceives
<1>4. CASE NetStep
  BY <1>4, NetIsQuiet, OnceQuiet DEF PipeQuiet
<1>5. CASE UNCHANGED vars
  BY <1>1, <1>5 DEF vars, sharedvars, PipeQuiet
<1> QED
  BY <1>2, <1>3, <1>4, <1>5 DEF Next

LEMMA OnceInvariant == ~Recycle => (Spec => []OnceInv)
<1> SUFFICES ASSUME ~Recycle PROVE Spec => []OnceInv
  OBVIOUS
<1>1. TypeInv /\ TypeInv' /\ OnceInv /\ [Next]_vars => OnceInv'
  BY NextOnceInv
<1> QED
  BY <1>1, InitOnceInv, TypeInvariant, PTL DEF Spec

-----------------------------------------------------------------------------
(* The order of a stream: runs of units                                    *)

LEMMA RunTail ==
    ASSUME NEW run \in Seq(Unit), NEW n \in Nat, n >= 1, n <= Len(run)
    PROVE  /\ SubSeq(run, 1, n) \in Seq(Unit) /\ Len(SubSeq(run, 1, n)) = n
           /\ \A i \in 1 .. n : SubSeq(run, 1, n)[i] = run[i] /\ i \in 1 .. Len(run)
           /\ SubSeq(run, n + 1, Len(run)) \in Seq(Unit)
           /\ Len(SubSeq(run, n + 1, Len(run))) = Len(run) - n
           /\ \A i \in 1 .. Len(run) - n :
                SubSeq(run, n + 1, Len(run))[i] = run[i + n] /\ i + n \in 1 .. Len(run)
OBVIOUS

\* A run is cut in two by a partial send(): both parts keep its order, and what comes before
\* or after it as a whole does so for both.
CutInOrder(run, front, rest, taken) ==
    /\ Sorted(front) /\ WasRead(front, taken)
    /\ Sorted(rest) /\ WasRead(rest, taken) /\ Before(front, rest)
    /\ \A x : Before(run, x) => Before(front, x) /\ Before(rest, x)
    /\ \A x : Before(x, run) => Before(x, front) /\ Before(x, rest)

LEMMA RunCut ==
    ASSUME NEW run \in Seq(Unit), NEW n \in Nat, n >= 1, n <= Len(run), NEW taken,
           Sorted(run), WasRead(run, taken), NEW front, NEW rest,
           front = SubSeq(run, 1, n), rest = SubSeq(run, n + 1, Len(run))
    PROVE  CutInOrder(run, front, rest, taken)
<1>1. /\ Len(front) = n /\ \A i \in 1 .. n : front[i] = run[i] /\ i \in 1 .. Len(run)
      /\ Len(rest) = Len(run) - n
      /\ \A i \in 1 .. Len(run) - n : rest[i] = run[i + n] /\ i + n \in 1 .. Len(run)
  BY RunTail
<1>2. Len(run) \in Nat /\ \A i \in 1 .. Len(run) : run[i].n \in Int
  <2>1. \A i \in 1 .. Len(run) : run[i] \in Unit
    OBVIOUS
  <2> QED
    BY <2>1, ProxyAssumption DEF Unit
<1>3. Sorted(front) /\ WasRead(front, taken) /\ WasRead(rest, taken)
  BY <1>1, <1>2 DEF Sorted, WasRead
<1>4. Sorted(rest)
  <2> SUFFICES ASSUME NEW i \in 1 .. Len(run) - n, NEW j \in 1 .. Len(run) - n, i < j
               PROVE  rest[i].n < rest[j].n
    BY <1>1 DEF Sorted
  <2>1. i + n \in 1 .. Len(run) /\ rest[i] = run[i + n]
    BY <1>1
  <2>2. j + n \in 1 .. Len(run) /\ rest[j] = run[j + n]
    BY <1>1
  <2>3. i + n < j + n
    BY <1>2
  <2> QED
    BY <2>1, <2>2, <2>3 DEF Sorted
<1>5. Before(front, rest)
  <2> SUFFICES ASSUME NEW i \in 1 .. n, NEW j \in 1 .. Len(run) - n
               PROVE  front[i].n < rest[j].n
    BY <1>1 DEF Before
  <2>1. i < j + n /\ front[i] = run[i] /\ rest[j] = run[j + n]
    BY <1>1, <1>2
  <2> QED
    BY <1>1, <2>1 DEF Sorted
<1>6. \A x : Before(run, x) => Before(front, x) /\ Before(rest, x)
  BY <1>1 DEF Before
<1>7. \A x : Before(x, run) => Before(x, front) /\ Before(x, rest)
  BY <1>1 DEF Before
<1> QED
  BY <1>3, <1>4, <1>5, <1>6, <1>7 DEF CutInOrder

\* What is passed on after a run of the same stream continues it.
LEMMA RunJoin ==
    ASSUME NEW run \in Seq(Unit), NEW next \in Seq(Unit), NEW taken,
           Sorted(run), WasRead(run, taken), Sorted(next), WasRead(next, taken), Before(run, next),
           NEW all, all = run \o next
    PROVE  /\ WasRead(all, taken)
           /\ \A x : Before(run, x) /\ Before(next, x) => Before(all, x)
           /\ (\E ep : \A i \in 1 .. Len(all) : all[i].from = ep) => Sorted(all)
<1>1. /\ Len(all) = Len(run) + Len(next) /\ Len(run) \in Nat /\ Len(next) \in Nat
      /\ \A i \in 1 .. Len(run) : all[i] = run[i]
      /\ \A i \in Len(run) + 1 .. Len(all) : all[i] = next[i - Len(run)] /\ i - Len(run) \in 1 .. Len(next)
  OBVIOUS
<1>2. \A i \in 1 .. Len(all) : i \in 1 .. Len(run) \/ i \in Len(run) + 1 .. Len(all)
  BY <1>1
<1>3. WasRead(all, taken)
  BY <1>1, <1>2 DEF WasRead
<1>4. \A x : Before(run, x) /\ Before(next, x) => Before(all, x)
  BY <1>1, <1>2 DEF Before
<1>5. ASSUME NEW ep, \A i \in 1 .. Len(all) : all[i].from = ep
      PROVE  Sorted(all)
  <2> SUFFICES ASSUME NEW i \in 1 .. Len(all), NEW j \in 1 .. Len(all), i < j
               PROVE  all[i].n < all[j].n
    BY DEF Sorted
  <2>1. CASE i \in 1 .. Len(run) /\ j \in 1 .. Len(run)
    BY <1>1, <2>1 DEF Sorted
  <2>2. CASE i \in Len(run) + 1 .. Len(all) /\ j \in Len(run) + 1 .. Len(all)
    <3>1. i - Len(run) < j - Len(run)
      BY <1>1, <2>2
    <3> QED
      BY <1>1, <2>2, <3>1 DEF Sorted
  <2>3. CASE i \in 1 .. Len(run) /\ j \in Len(run) + 1 .. Len(all)
    <3>1. all[i] = run[i] /\ all[j] = next[j - Len(run)] /\ all[i].from = all[j].from
      BY <1>1, <1>5, <2>3
    <3> QED
      BY <1>1, <2>3, <3>1 DEF Before
  <2>4. ~(i \in Len(run) + 1 .. Len(all) /\ j \in 1 .. Len(run))
    BY <1>1
  <2> QED
    BY <1>2, <2>1, <2>2, <2>3, <2>4
<1> QED
  BY <1>3, <1>4, <1>5

\* send() takes n units of the front of a queue and leaves the rest behind them.
LEMMA FlushKeepsOrder ==
    ASSUME NEW q \in Queue, NEW taken, QueueInOrder(q, taken),
           NEW n \in Int, n > 0 => q # <<>> /\ n <= Len(Head(q)),
           NEW front, front = IF n > 0 THEN SubSeq(Head(q), 1, n) ELSE <<>>
    PROVE  /\ QueueInOrder(Flushed(q, n), taken)
           /\ front \in Seq(Unit) /\ Sorted(front) /\ WasRead(front, taken)
           /\ RunBeforeQueue(front, Flushed(q, n))
           /\ \A x : (\A i \in 1 .. Len(q) : Before(q[i], x)) =>
                 Before(front, x) /\ \A i \in 1 .. Len(Flushed(q, n)) : Before(Flushed(q, n)[i], x)
           /\ \A x : RunBeforeQueue(x, q) => Before(x, front) /\ RunBeforeQueue(x, Flushed(q, n))
<1> DEFINE rest == Flushed(q, n)
<1>1. CASE n <= 0
  <2>1. rest = q /\ front = <<>>
    BY <1>1 DEF Flushed
  <2>2. Sorted(front) /\ WasRead(front, taken) /\ (\A x : Before(front, x) /\ Before(x, front))
    BY <2>1 DEF Sorted, WasRead, Before
  <2> QED
    BY <2>1, <2>2 DEF RunBeforeQueue
<1>2. CASE n > 0
  <2>1. /\ q # <<>> /\ Head(q) = q[1] /\ q[1] \in Seq(Unit) /\ n \in Nat /\ n >= 1 /\ n <= Len(q[1])
        /\ Len(q) \in Nat /\ 1 \in 1 .. Len(q) /\ front = SubSeq(q[1], 1, n)
    BY <1>2 DEF Queue
  <2>2. Sorted(q[1]) /\ WasRead(q[1], taken)
    BY <2>1 DEF QueueInOrder
  <2> PICK cut : cut = SubSeq(q[1], n + 1, Len(q[1]))
    OBVIOUS
  <2>3. /\ Sorted(front) /\ WasRead(front, taken)
        /\ Sorted(cut) /\ WasRead(cut, taken) /\ Before(front, cut)
        /\ \A x : Before(q[1], x) => Before(front, x) /\ Before(cut, x)
        /\ \A x : Before(x, q[1]) => Before(x, front) /\ Before(x, cut)
    <3> PICK run : run = q[1]
      OBVIOUS
    <3>1. run \in Seq(Unit) /\ n \in Nat /\ n >= 1 /\ n <= Len(run) /\ Sorted(run) /\ WasRead(run, taken)
      BY <2>1, <2>2
    <3>2. front = SubSeq(run, 1, n) /\ cut = SubSeq(run, n + 1, Len(run))
      BY <2>1
    <3>3. CutInOrder(run, front, cut, taken)
      BY <3>1, <3>2, RunCut
    <3> QED
      BY <3>3 DEF CutInOrder
  <2>4. front \in Seq(Unit) /\ cut \in Seq(Unit)
    BY <2>1, RunTail
  <2>5. CASE n = Len(q[1])
    <3>1. /\ rest = Tail(q) /\ Len(rest) = Len(q) - 1
          /\ \A i \in 1 .. Len(rest) : rest[i] = q[i + 1] /\ i + 1 \in 1 .. Len(q) /\ 1 < i + 1
      BY <1>2, <2>1, <2>5 DEF Flushed, Queue
    <3>2. QueueInOrder(rest, taken)
      <4>1. \A i \in 1 .. Len(rest), j \in 1 .. Len(rest) : i < j => i + 1 < j + 1
        BY <2>1, <3>1
      <4> HIDE DEF rest
      <4> QED
        BY <3>1, <4>1 DEF QueueInOrder
    <3>3. \A i \in 1 .. Len(rest) : Before(q[1], rest[i])
      BY <2>1, <3>1 DEF QueueInOrder
    <3> HIDE DEF rest
    <3>4. RunBeforeQueue(front, rest)
      BY <2>3, <3>3 DEF RunBeforeQueue
    <3>5. \A x : (\A i \in 1 .. Len(q) : Before(q[i], x)) =>
             Before(front, x) /\ \A i \in 1 .. Len(rest) : Before(rest[i], x)
      BY <2>1, <2>3, <3>1
    <3>6. \A x : RunBeforeQueue(x, q) => Before(x, front) /\ RunBeforeQueue(x, rest)
      BY <2>1, <2>3, <3>1 DEF RunBeforeQueue
    <3> QED
      BY <2>3, <2>4, <3>2, <3>4, <3>5, <3>6 DEF rest
  <2>6. CASE n # Len(q[1])
    <3>1. rest = <<cut>> \o Tail(q)
      BY <1>2, <2>1, <2>6 DEF Flushed
    <3>2. Tail(q) \in Seq(Seq(Unit)) /\ Len(Tail(q)) = Len(q) - 1 /\ \A i \in 1 .. Len(q) - 1 : Tail(q)[i] = q[i + 1]
      BY <2>1 DEF Queue
    <3>3. /\ Len(rest) = Len(q) /\ rest[1] = cut
          /\ \A i \in 2 .. Len(q) : rest[i] = q[i]
      <4> HIDE DEF rest
      <4>1. Len(<<cut>> \o Tail(q)) = Len(q)
        BY <2>1, <2>4, <3>2
      <4>2. (<<cut>> \o Tail(q))[1] = cut
        BY <2>1, <2>4, <3>2
      <4>3. ASSUME NEW i \in 2 .. Len(q) PROVE (<<cut>> \o Tail(q))[i] = q[i]
        <5>1. (<<cut>> \o Tail(q))[i] = Tail(q)[i - 1]
          BY <2>1, <2>4, <3>2
        <5>2. Tail(q)[i - 1] = q[i]
          BY <2>1, <3>2
        <5> QED
          BY <5>1, <5>2
      <4> QED
        BY <3>1, <4>1, <4>2, <4>3
    <3> HIDE DEF rest
    <3>4. \A i \in 1 .. Len(rest) : i = 1 \/ i \in 2 .. Len(q)
      BY <2>1, <3>3
    <3>5. \A j \in 2 .. Len(q) : Before(q[1], q[j]) /\ j \in 1 .. Len(q)
      BY <2>1 DEF QueueInOrder
    <3>6. QueueInOrder(rest, taken)
      <4>1. \A i \in 1 .. Len(rest) : Sorted(rest[i]) /\ WasRead(rest[i], taken)
        BY <2>1, <2>3, <3>3, <3>4, <3>5 DEF QueueInOrder
      <4>2. ASSUME NEW i \in 1 .. Len(rest), NEW j \in 1 .. Len(rest), i < j
            PROVE  Before(rest[i], rest[j])
        <5>1. j \in 2 .. Len(q) /\ rest[j] = q[j]
          BY <2>1, <3>3, <4>2
        <5>2. CASE i = 1
          BY <2>3, <3>3, <3>5, <5>1, <5>2
        <5>3. CASE i \in 2 .. Len(q)
          BY <3>3, <3>5, <4>2, <5>1, <5>3 DEF QueueInOrder
        <5> QED
          BY <3>4, <5>2, <5>3
      <4> QED
        BY <4>1, <4>2 DEF QueueInOrder
    <3>7. RunBeforeQueue(front, rest)
      BY <2>3, <3>3, <3>4, <3>5 DEF RunBeforeQueue
    <3>8. \A x : (\A i \in 1 .. Len(q) : Before(q[i], x)) =>
             Before(front, x) /\ \A i \in 1 .. Len(rest) : Before(rest[i], x)
      BY <2>1, <2>3, <3>3, <3>4, <3>5
    <3>9. \A x : RunBeforeQueue(x, q) => Before(x, front) /\ RunBeforeQueue(x, rest)
      BY <2>1, <2>3, <3>3, <3>4, <3>5 DEF RunBeforeQueue
    <3> QED
      BY <2>3, <2>4, <3>6, <3>7, <3>8, <3>9 DEF rest
  <2> QED
    BY <2>5, <2>6
<1> QED
  BY <1>1, <1>2

-----------------------------------------------------------------------------
(* The order of a stream: one direction                                    *)

\* What a run of units that recv() has just returned is to those read before.
IsNew(run, taken, later) ==
    /\ Sorted(run) /\ WasRead(run, later)
    /\ \A i \in 1 .. Len(run) : run[i].n > taken[run[i].from]

PipeMoves(pipe, next, taken, later) ==
    \/ next = pipe
    \/ pipe # <<>> /\ next = Tail(pipe)
    \/ \E m \in Message : next = Append(pipe, m) /\ IsNew(m.body, taken, later)

Counts(taken) == taken \in [Endpoint -> Int]
Grows(taken, later) == \A ep \in Endpoint : taken[ep] <= later[ep]

DirectionTyped(side, pipe, storage, passed, own) ==
    /\ pipe \in Seq(Message)
    /\ \A d \in DOMAIN storage : storage[d] \in Queue /\ own[d] \in Endpoint /\ own[d].side = side
    /\ passed \in [Endpoint -> Seq(Unit)]

LEMMA UnitFacts ==
    ASSUME NEW run \in Seq(Unit)
    PROVE  \A i \in 1 .. Len(run) : run[i].n \in Int /\ run[i].from \in Endpoint
<1>1. \A i \in 1 .. Len(run) : run[i] \in Unit
  OBVIOUS
<1> QED
  BY <1>1, ProxyAssumption DEF Unit

LEMMA ReadLater ==
    ASSUME NEW run \in Seq(Unit), NEW taken, NEW later, Counts(taken), Counts(later),
           Grows(taken, later), WasRead(run, taken)
    PROVE  WasRead(run, later)
BY UnitFacts DEF WasRead, Counts, Grows

LEMMA NewIsAfter ==
    ASSUME NEW run \in Seq(Unit), NEW next \in Seq(Unit), NEW taken, NEW later, Counts(taken),
           WasRead(run, taken), IsNew(next, taken, later)
    PROVE  Before(run, next)
<1> SUFFICES ASSUME NEW i \in 1 .. Len(run), NEW j \in 1 .. Len(next), run[i].from = next[j].from
             PROVE  run[i].n < next[j].n
  BY DEF Before
<1>1. run[i].n <= taken[run[i].from] /\ next[j].n > taken[next[j].from]
  BY DEF WasRead, IsNew
<1>2. run[i].n \in Int /\ next[j].n \in Int /\ taken[run[i].from] \in Int
  BY UnitFacts DEF Counts
<1> QED
  BY <1>1, <1>2

LEMMA PipeMovesInOrder ==
    ASSUME NEW pipe \in Seq(Message), NEW next, NEW taken, NEW later,
           Counts(taken), Counts(later), Grows(taken, later),
           PipeMoves(pipe, next, taken, later), PipeInOrder(pipe, taken)
    PROVE  /\ PipeInOrder(next, later)
           /\ \A run \in Seq(Unit) :
                WasRead(run, taken) /\ RunBeforePipe(run, pipe) => RunBeforePipe(run, next)
<1>1. Len(pipe) \in Nat /\ \A i \in 1 .. Len(pipe) : pipe[i].body \in Seq(Unit)
  <2>1. \A i \in 1 .. Len(pipe) : pipe[i] \in Message
    OBVIOUS
  <2> QED
    BY <2>1 DEF Message
<1>2. \A i \in 1 .. Len(pipe) : WasRead(pipe[i].body, later)
  BY <1>1, ReadLater DEF PipeInOrder
<1>3. CASE next = pipe
  BY <1>2, <1>3 DEF PipeInOrder
<1>4. CASE pipe # <<>> /\ next = Tail(pipe)
  <2>1. /\ Len(next) = Len(pipe) - 1
        /\ \A i \in 1 .. Len(next) : next[i] = pipe[i + 1] /\ i + 1 \in 1 .. Len(pipe)
    BY <1>4
  <2>2. \A i, j \in 1 .. Len(next) : i < j => i + 1 < j + 1
    BY <1>1, <2>1
  <2>3. PipeInOrder(next, later)
    BY <1>2, <2>1, <2>2 DEF PipeInOrder
  <2> QED
    BY <2>1, <2>3 DEF RunBeforePipe
<1>5. ASSUME NEW m \in Message, next = Append(pipe, m), IsNew(m.body, taken, later)
      PROVE  /\ PipeInOrder(next, later)
             /\ \A run \in Seq(Unit) :
                  WasRead(run, taken) /\ RunBeforePipe(run, pipe) => RunBeforePipe(run, next)
  <2>1. /\ Len(next) = Len(pipe) + 1 /\ next[Len(pipe) + 1] = m
        /\ \A i \in 1 .. Len(pipe) : next[i] = pipe[i]
    BY <1>5
  <2>2. \A i \in 1 .. Len(next) : i \in 1 .. Len(pipe) \/ i = Len(pipe) + 1
    BY <1>1, <2>1
  <2>3. m.body \in Seq(Unit)
    BY DEF Message
  <2>4. \A run \in Seq(Unit) : WasRead(run, taken) => Before(run, m.body)
    BY <1>5, <2>3, NewIsAfter
  <2>5. \A i \in 1 .. Len(next) : Sorted(next[i].body) /\ WasRead(next[i].body, later)
    BY <1>2, <1>5, <2>1, <2>2 DEF PipeInOrder, IsNew
  <2>6. ASSUME NEW i \in 1 .. Len(next), NEW j \in 1 .. Len(next), i < j
        PROVE  Before(next[i].body, next[j].body)
    <3>1. i \in 1 .. Len(pipe) /\ next[i] = pipe[i]
      BY <1>1, <2>1, <2>2, <2>6
    <3>2. CASE j \in 1 .. Len(pipe)
      BY <2>1, <2>6, <3>1, <3>2 DEF PipeInOrder
    <3>3. CASE j = Len(pipe) + 1
      <4>1. WasRead(pipe[i].body, taken) /\ pipe[i].body \in Seq(Unit)
        BY <1>1, <3>1 DEF PipeInOrder
      <4> QED
        BY <2>1, <2>4, <3>1, <3>3, <4>1
    <3> QED
      BY <2>2, <3>2, <3>3
  <2>7. PipeInOrder(next, later)
    BY <2>5, <2>6 DEF PipeInOrder
  <2>8. \A run \in Seq(Unit) :
                  WasRead(run, taken) /\ RunBeforePipe(run, pipe) => RunBeforePipe(run, next)
    BY <2>1, <2>2, <2>4 DEF RunBeforePipe
  <2> QED
    BY <2>7, <2>8
<1> QED
  BY <1>3, <1>4, <1>5 DEF PipeMoves

\* Closing and opening sockets, reading and receiving keep the order of a direction.
LEMMA DirectionQuiet ==
    ASSUME NEW side, NEW pipe, NEW storage, NEW passed, NEW taken, NEW own,
           NEW pipe2, NEW storage2, NEW passed2, NEW taken2, NEW own2,
           DirectionTyped(side, pipe, storage, passed, own),
           Counts(taken), Counts(taken2), Grows(taken, taken2),
           DirectionInOrder(side, pipe, storage, passed, taken, own),
           PipeMoves(pipe, pipe2, taken, taken2),
           \A d \in DOMAIN storage2 :
              \/ storage2[d] = <<>>
              \/ d \in DOMAIN storage /\ storage2[d] = storage[d] /\ own2[d] = own[d],
           \A ep \in Endpoint : ep.side = side => passed2[ep] = passed[ep]
    PROVE  DirectionInOrder(side, pipe2, storage2, passed2, taken2, own2)
<1>1. /\ pipe \in Seq(Message)
      /\ \A d \in DOMAIN storage : storage[d] \in Queue /\ own[d] \in Endpoint /\ own[d].side = side
      /\ \A ep \in Endpoint : passed[ep] \in Seq(Unit)
  BY DEF DirectionTyped
<1>2. PipeInOrder(pipe, taken)
  BY DEF DirectionInOrder
<1>3. /\ PipeInOrder(pipe2, taken2)
      /\ \A run \in Seq(Unit) :
           WasRead(run, taken) /\ RunBeforePipe(run, pipe) => RunBeforePipe(run, pipe2)
  BY <1>1, <1>2, PipeMovesInOrder
<1>4. ASSUME NEW d \in DOMAIN storage2
      PROVE  /\ QueueInOrder(storage2[d], taken2)
             /\ QueueBeforePipe(storage2[d], pipe2)
             /\ RunBeforeQueue(passed2[own2[d]], storage2[d])
  <2>1. CASE storage2[d] = <<>>
    BY <2>1 DEF QueueInOrder, QueueBeforePipe, RunBeforeQueue
  <2>2. CASE d \in DOMAIN storage /\ storage2[d] = storage[d] /\ own2[d] = own[d]
    <3>1. QueueInOrder(storage[d], taken) /\ QueueBeforePipe(storage[d], pipe) /\ RunBeforeQueue(passed[own[d]], storage[d])
      BY <2>2 DEF DirectionInOrder
    <3>2. \A i \in 1 .. Len(storage[d]) : storage[d][i] \in Seq(Unit)
      BY <1>1, <2>2 DEF Queue
    <3>3. QueueInOrder(storage[d], taken2)
      BY <3>1, <3>2, ReadLater DEF QueueInOrder
    <3>4. QueueBeforePipe(storage[d], pipe2)
      <4>1. \A i \in 1 .. Len(storage[d]) : WasRead(storage[d][i], taken) /\ RunBeforePipe(storage[d][i], pipe)
        BY <3>1 DEF QueueInOrder, QueueBeforePipe, RunBeforePipe
      <4>2. \A i \in 1 .. Len(storage[d]) : RunBeforePipe(storage[d][i], pipe2)
        BY <1>3, <3>2, <4>1
      <4> QED
        BY <4>2 DEF QueueBeforePipe, RunBeforePipe
    <3> QED
      BY <1>1, <2>2, <3>1, <3>3, <3>4
  <2> QED
    BY <2>1, <2>2
<1>5. ASSUME NEW ep \in Endpoint, ep.side = side
      PROVE  /\ Sorted(passed2[ep]) /\ WasRead(passed2[ep], taken2)
             /\ RunBeforePipe(passed2[ep], pipe2)
  <2>1. passed2[ep] = passed[ep] /\ passed[ep] \in Seq(Unit)
    BY <1>1, <1>5
  <2>2. Sorted(passed[ep]) /\ WasRead(passed[ep], taken) /\ RunBeforePipe(passed[ep], pipe)
    BY <1>5 DEF DirectionInOrder
  <2> QED
    BY <1>3, <2>1, <2>2, ReadLater
<1> QED
  BY <1>3, <1>4, <1>5 DEF DirectionInOrder

\* What send() took of the front of a queue, after it returned n.
SentOf(q, n) == IF n > 0 THEN SubSeq(Head(q), 1, n) ELSE <<>>

\* A send() from the front of a queue keeps the order of its direction: the socket is the
\* only one of its far end.
LEMMA DirectionSends ==
    ASSUME NEW side, NEW pipe, NEW storage, NEW passed, NEW taken, NEW own,
           DirectionTyped(side, pipe, storage, passed, own), Counts(taken),
           DirectionInOrder(side, pipe, storage, passed, taken, own),
           NEW d \in DOMAIN storage, \A e \in DOMAIN storage : own[e] = own[d] => e = d,
           NEW n \in Int, n > 0 => storage[d] # <<>> /\ n <= Len(Head(storage[d])),
           NEW passed2, passed2 = [passed EXCEPT ![own[d]] = @ \o SentOf(storage[d], n)],
           \E ep : \A i \in 1 .. Len(passed2[own[d]]) : passed2[own[d]][i].from = ep
    PROVE  DirectionInOrder(side, pipe, Put(storage, d, Flushed(storage[d], n)), passed2, taken, own)
<1> PICK q, front, rest, ep : /\ q = storage[d] /\ front = SentOf(storage[d], n)
                              /\ rest = Flushed(storage[d], n) /\ ep = own[d]
  OBVIOUS
<1> PICK storage2 : storage2 = Put(storage, d, rest)
  OBVIOUS
<1>1. /\ q \in Queue /\ ep \in Endpoint /\ ep.side = side /\ passed[ep] \in Seq(Unit)
      /\ passed2 = [passed EXCEPT ![ep] = @ \o front]
  BY DEF DirectionTyped
<1>2. /\ QueueInOrder(q, taken) /\ QueueBeforePipe(q, pipe) /\ RunBeforeQueue(passed[ep], q)
      /\ Sorted(passed[ep]) /\ WasRead(passed[ep], taken) /\ RunBeforePipe(passed[ep], pipe)
      /\ PipeInOrder(pipe, taken)
  BY <1>1 DEF DirectionInOrder
<1>3. /\ front = IF n > 0 THEN SubSeq(Head(q), 1, n) ELSE <<>>
      /\ n > 0 => q # <<>> /\ n <= Len(Head(q))
  BY DEF SentOf
<1>4. /\ QueueInOrder(rest, taken)
      /\ front \in Seq(Unit) /\ Sorted(front) /\ WasRead(front, taken)
      /\ RunBeforeQueue(front, rest)
  BY <1>1, <1>2, <1>3, FlushKeepsOrder
<1>5. \A x : (\A i \in 1 .. Len(q) : Before(q[i], x)) => Before(front, x) /\ \A i \in 1 .. Len(rest) : Before(rest[i], x)
  BY <1>1, <1>2, <1>3, FlushKeepsOrder
<1>6. Before(passed[ep], front) /\ RunBeforeQueue(passed[ep], rest)
  BY <1>1, <1>2, <1>3, FlushKeepsOrder
<1>7. RunBeforePipe(front, pipe) /\ QueueBeforePipe(rest, pipe)
  BY <1>2, <1>5 DEF QueueBeforePipe, RunBeforePipe
<1>8. passed2[ep] = passed[ep] \o front /\ \A e \in Endpoint : e # ep => passed2[e] = passed[e]
  BY <1>1 DEF DirectionTyped
<1>9. /\ WasRead(passed2[ep], taken) /\ Sorted(passed2[ep])
      /\ \A x : Before(passed[ep], x) /\ Before(front, x) => Before(passed2[ep], x)
  <2>1. \E e : \A i \in 1 .. Len(passed2[ep]) : passed2[ep][i].from = e
    OBVIOUS
  <2>2. WasRead(passed2[ep], taken) /\ Sorted(passed2[ep])
    BY <1>1, <1>2, <1>4, <1>6, <1>8, <2>1, RunJoin
  <2>3. \A x : Before(passed[ep], x) /\ Before(front, x) => Before(passed2[ep], x)
    BY <1>1, <1>2, <1>4, <1>6, <1>8, RunJoin
  <2> QED
    BY <2>2, <2>3
<1>10. RunBeforePipe(passed2[ep], pipe) /\ RunBeforeQueue(passed2[ep], rest)
  BY <1>2, <1>4, <1>6, <1>7, <1>9 DEF RunBeforePipe, RunBeforeQueue
<1>11. /\ DOMAIN storage2 = DOMAIN storage /\ storage2[d] = rest
       /\ \A e \in DOMAIN storage : e # d => storage2[e] = storage[e]
  BY DEF Put
<1>12. ASSUME NEW e \in DOMAIN storage2
       PROVE  /\ QueueInOrder(storage2[e], taken) /\ QueueBeforePipe(storage2[e], pipe)
              /\ RunBeforeQueue(passed2[own[e]], storage2[e])
  <2>1. CASE e = d
    BY <1>4, <1>7, <1>10, <1>11, <2>1
  <2>2. CASE e # d
    <3>1. own[e] # ep /\ own[e] \in Endpoint /\ e \in DOMAIN storage /\ storage2[e] = storage[e]
      BY <1>11, <2>2 DEF DirectionTyped
    <3>2. passed2[own[e]] = passed[own[e]]
      BY <1>8, <3>1
    <3> QED
      BY <3>1, <3>2 DEF DirectionInOrder
  <2> QED
    BY <2>1, <2>2
<1>13. ASSUME NEW e \in Endpoint, e.side = side
       PROVE  /\ Sorted(passed2[e]) /\ WasRead(passed2[e], taken)
              /\ RunBeforePipe(passed2[e], pipe)
  <2>1. CASE e = ep
    BY <1>9, <1>10, <2>1
  <2>2. CASE e # ep
    BY <1>8, <1>13, <2>2 DEF DirectionInOrder
  <2> QED
    BY <2>1, <2>2
<1> QED
  BY <1>2, <1>12, <1>13 DEF DirectionInOrder

\* A message's body that goes behind what is queued keeps the order of its direction.
LEMMA DirectionArrives ==
    ASSUME NEW side, NEW pipe, NEW storage, NEW passed, NEW taken, NEW own,
           DirectionTyped(side, pipe, storage, passed, own), Counts(taken),
           DirectionInOrder(side, pipe, storage, passed, taken, own),
           NEW d \in DOMAIN storage, pipe # <<>>
    PROVE  DirectionInOrder(side, Tail(pipe), Put(storage, d, Append(storage[d], Head(pipe).body)),
                            passed, taken, own)
<1> PICK q, body, q2 : /\ q = storage[d] /\ body = Head(pipe).body /\ q2 = Append(storage[d], Head(pipe).body)
  OBVIOUS
<1> PICK storage2, pipe2 : storage2 = Put(storage, d, q2) /\ pipe2 = Tail(pipe)
  OBVIOUS
<1>1. q \in Queue /\ own[d] \in Endpoint /\ own[d].side = side /\ pipe \in Seq(Message)
  BY DEF DirectionTyped
<1>2. Head(pipe) = pipe[1] /\ 1 \in 1 .. Len(pipe) /\ body = pipe[1].body /\ body \in Seq(Unit)
  <2>1. Head(pipe) = pipe[1] /\ 1 \in 1 .. Len(pipe) /\ Head(pipe) \in Message
    BY <1>1
  <2> QED
    BY <2>1 DEF Message
<1>3. /\ Len(pipe2) = Len(pipe) - 1 /\ Len(pipe) \in Nat
      /\ \A j \in 1 .. Len(pipe2) : pipe2[j] = pipe[j + 1] /\ j + 1 \in 1 .. Len(pipe) /\ 1 < j + 1
  BY <1>1
<1>4. /\ Len(q2) = Len(q) + 1 /\ Len(q) \in Nat /\ q2[Len(q) + 1] = body
      /\ \A i \in 1 .. Len(q) : q2[i] = q[i]
  BY <1>1, <1>2 DEF Queue
<1>5. \A i \in 1 .. Len(q2) : i \in 1 .. Len(q) \/ i = Len(q) + 1
  BY <1>4
<1>6. /\ QueueInOrder(q, taken) /\ QueueBeforePipe(q, pipe) /\ RunBeforeQueue(passed[own[d]], q)
      /\ RunBeforePipe(passed[own[d]], pipe) /\ PipeInOrder(pipe, taken)
  BY <1>1 DEF DirectionInOrder
<1>7. Sorted(body) /\ WasRead(body, taken) /\ RunBeforePipe(body, pipe2)
  BY <1>2, <1>3, <1>6 DEF PipeInOrder, RunBeforePipe
<1>8. \A i \in 1 .. Len(q) : Before(q[i], body)
  BY <1>2, <1>6 DEF QueueBeforePipe
<1>9. QueueInOrder(q2, taken)
  <2>1. \A i \in 1 .. Len(q2) : Sorted(q2[i]) /\ WasRead(q2[i], taken)
    BY <1>4, <1>5, <1>6, <1>7 DEF QueueInOrder
  <2>2. ASSUME NEW i \in 1 .. Len(q2), NEW j \in 1 .. Len(q2), i < j
        PROVE  Before(q2[i], q2[j])
    <3>1. i \in 1 .. Len(q) /\ q2[i] = q[i]
      BY <1>4, <1>5, <2>2
    <3> QED
      BY <1>4, <1>5, <1>6, <1>8, <2>2, <3>1 DEF QueueInOrder
  <2> QED
    BY <2>1, <2>2 DEF QueueInOrder
<1>10. QueueBeforePipe(q2, pipe2)
  <2>1. ASSUME NEW i \in 1 .. Len(q2), NEW j \in 1 .. Len(pipe2)
        PROVE  Before(q2[i], pipe2[j].body)
    <3>1. CASE i \in 1 .. Len(q)
      BY <1>3, <1>4, <1>6, <3>1 DEF QueueBeforePipe
    <3>2. CASE i = Len(q) + 1
      BY <1>4, <1>7, <3>2 DEF RunBeforePipe
    <3> QED
      BY <1>5, <3>1, <3>2
  <2> QED
    BY <2>1 DEF QueueBeforePipe
<1>11. RunBeforeQueue(passed[own[d]], q2)
  <2>1. Before(passed[own[d]], body)
    BY <1>2, <1>6 DEF RunBeforePipe
  <2> QED
    BY <1>4, <1>5, <1>6, <2>1 DEF RunBeforeQueue
<1>12. PipeMoves(pipe, pipe2, taken, taken) /\ Grows(taken, taken)
  BY DEF PipeMoves, Grows, Counts
<1>13. DirectionInOrder(side, pipe2, storage, passed, taken, own)
  BY <1>12, DirectionQuiet
<1>14. /\ DOMAIN storage2 = DOMAIN storage /\ storage2[d] = q2
       /\ \A e \in DOMAIN storage : e # d => storage2[e] = storage[e]
  BY DEF Put
<1>15. ASSUME NEW e \in DOMAIN storage2
       PROVE  /\ QueueInOrder(storage2[e], taken) /\ QueueBeforePipe(storage2[e], pipe2)
              /\ RunBeforeQueue(passed[own[e]], storage2[e])
  <2>1. CASE e = d
    BY <1>9, <1>10, <1>11, <1>14, <2>1
  <2>2. CASE e # d
    BY <1>13, <1>14, <2>2 DEF DirectionInOrder
  <2> QED
    BY <2>1, <2>2
<1> QED
  BY <1>13, <1>15 DEF DirectionInOrder

\* A message's body is relayed to its socket, behind what is queued for it.
LEMMA DirectionRelays ==
    ASSUME NEW side, NEW pipe, NEW storage, NEW passed, NEW taken, NEW own,
           DirectionTyped(side, pipe, storage, passed, own), Counts(taken),
           DirectionInOrder(side, pipe, storage, passed, taken, own), pipe # <<>>,
           NEW d \in DOMAIN storage, \A e \in DOMAIN storage : own[e] = own[d] => e = d,
           NEW body, body = Head(pipe).body,
           NEW n \in Int, n <= Len(ToSend(storage[d], body)),
           NEW passed2,
           passed2 = [passed EXCEPT ![own[d]] = @ \o SubSeq(ToSend(storage[d], body), 1, n)],
           \E ep : \A i \in 1 .. Len(passed2[own[d]]) : passed2[own[d]][i].from = ep
    PROVE  DirectionInOrder(side, Tail(pipe), Put(storage, d, Relayed(storage[d], body, n)),
                            passed2, taken, own)
<1> PICK q : q = storage[d]
  OBVIOUS
<1> PICK line : line = Append(q, body)
  OBVIOUS
<1> PICK storage1, pipe1 : storage1 = Put(storage, d, line) /\ pipe1 = Tail(pipe)
  OBVIOUS
<1>1. /\ q \in Queue /\ body \in Seq(Unit) /\ pipe1 \in Seq(Message) /\ own[d] \in Endpoint
      /\ passed \in [Endpoint -> Seq(Unit)]
  <2>1. Head(pipe) \in Message /\ pipe1 \in Seq(Message)
    BY DEF DirectionTyped
  <2> QED
    BY <2>1 DEF DirectionTyped, Message
<1>2. line \in Queue /\ line # <<>> /\ Head(line) = ToSend(q, body)
  BY <1>1 DEF Queue, ToSend
<1>3. CASE q = <<>> /\ n = -1
  <2>1. SubSeq(ToSend(q, body), 1, n) = <<>>
    BY <1>3
  <2>2. passed2 = passed
    <3>1. passed2 = [passed EXCEPT ![own[d]] = @ \o <<>>]
      BY <2>1
    <3>2. passed[own[d]] \o <<>> = passed[own[d]]
      BY <1>1
    <3>3. DOMAIN passed2 = Endpoint /\ \A e \in Endpoint : passed2[e] = passed[e]
      BY <1>1, <3>1, <3>2
    <3>4. passed2 = [e \in Endpoint |-> passed2[e]] /\ passed = [e \in Endpoint |-> passed[e]]
      BY <1>1, <3>1
    <3> QED
      BY <3>3, <3>4
  <2>3. Relayed(q, body, n) = <<>>
    BY <1>3 DEF Relayed
  <2>4. \A e \in DOMAIN Put(storage, d, <<>>) :
           \/ Put(storage, d, <<>>)[e] = <<>>
           \/ e \in DOMAIN storage /\ Put(storage, d, <<>>)[e] = storage[e]
    BY DEF Put
  <2>5. PipeMoves(pipe, pipe1, taken, taken) /\ Grows(taken, taken)
    BY DEF PipeMoves, Grows, Counts
  <2>6. DirectionInOrder(side, pipe1, Put(storage, d, <<>>), passed, taken, own)
    BY <2>4, <2>5, DirectionQuiet
  <2> QED
    BY <2>2, <2>3, <2>6
<1>4. CASE ~(q = <<>> /\ n = -1)
  <2>1. Relayed(q, body, n) = Flushed(line, n)
    <3>1. CASE q # <<>>
      BY <3>1 DEF Relayed
    <3>2. CASE q = <<>>
      <4>1. line = <<body>> /\ n # -1
        BY <1>1, <1>4, <3>2
      <4> QED
        BY <3>2, <4>1 DEF Relayed
    <3> QED
      BY <3>1, <3>2
  <2>2. SubSeq(ToSend(q, body), 1, n) = SentOf(line, n)
    <3>1. CASE n > 0
      BY <1>2, <3>1 DEF SentOf
    <3>2. CASE n <= 0
      BY <3>2 DEF SentOf
    <3> QED
      BY <3>1, <3>2
  <2>3. DirectionInOrder(side, pipe1, storage1, passed, taken, own)
    BY DirectionArrives
  <2>4. DOMAIN storage1 = DOMAIN storage /\ storage1[d] = line /\ \A e \in DOMAIN storage : e # d => storage1[e] = storage[e]
    BY DEF Put
  <2>5. DirectionTyped(side, pipe1, storage1, passed, own)
    BY <1>1, <1>2, <2>4 DEF DirectionTyped
  <2>6. n > 0 => storage1[d] # <<>> /\ n <= Len(Head(storage1[d]))
    BY <1>2, <2>4
  <2>7. passed2 = [passed EXCEPT ![own[d]] = @ \o SentOf(storage1[d], n)]
    BY <2>2, <2>4
  <2>8. \A e \in DOMAIN storage1 : own[e] = own[d] => e = d
    BY <2>4
  <2>9. DirectionInOrder(side, pipe1, Put(storage1, d, Flushed(storage1[d], n)), passed2, taken, own)
    BY <2>3, <2>4, <2>5, <2>6, <2>7, <2>8, DirectionSends, ZenonT(30)
  <2>10. Put(storage1, d, Flushed(storage1[d], n)) = Put(storage, d, Relayed(q, body, n))
    BY <2>1, <2>4 DEF Put
  <2> QED
    BY <2>9, <2>10
<1> QED
  BY <1>3, <1>4

-----------------------------------------------------------------------------
(* The order of a stream: what the pipes gain                              *)

LEMMA PipeTypes ==
    ASSUME TypeInv
    PROVE  cs \in Seq(Message) /\ sc \in Seq(Message) /\ Counts(read)
<1>1. ClientMessage \subseteq Message
  BY DEF ClientMessage
<1>2. cs \in Seq(Message)
  BY <1>1, SeqMonotone DEF TypeInv, TypeOK, SharedTypeOK
<1>3. sc \in Seq(Message)
  BY DEF TypeInv, TypeOK, SharedTypeOK
<1>4. Counts(read)
  BY ProxyAssumption DEF TypeInv, TypeOK, SharedTypeOK, Counts
<1> QED
  BY <1>2, <1>3, <1>4

LEMMA NextPipeTypes ==
    ASSUME TypeInv'
    PROVE  cs' \in Seq(Message) /\ sc' \in Seq(Message) /\ Counts(read')
<1>1. ClientMessage \subseteq Message
  BY DEF ClientMessage
<1>2. cs' \in Seq(Message)
  BY <1>1, SeqMonotone DEF TypeInv, TypeOK, SharedTypeOK
<1>3. sc' \in Seq(Message)
  BY DEF TypeInv, TypeOK, SharedTypeOK
<1>4. Counts(read')
  BY ProxyAssumption DEF TypeInv, TypeOK, SharedTypeOK, Counts
<1> QED
  BY <1>2, <1>3, <1>4

\* A message that carries no data keeps any order.
LEMMA EmptyMoves ==
    ASSUME NEW pipe \in Seq(Message), NEW next \in Seq(Message), NEW m, m.body = <<>>,
           next = Append(pipe, m), NEW taken, NEW later
    PROVE  PipeMoves(pipe, next, taken, later)
<1>1. m = next[Len(pipe) + 1] /\ Len(pipe) + 1 \in 1 .. Len(next)
  OBVIOUS
<1>2. m \in Message
  BY <1>1
<1>3. IsNew(m.body, taken, later)
  BY DEF IsNew, Sorted, WasRead
<1> QED
  BY <1>2, <1>3 DEF PipeMoves

LEMMA NoticeMoves ==
    ASSUME NEW pipe \in Seq(Message), NEW next \in Seq(Message), NEW tod, NEW c, NEW s,
           next = Append(pipe, Msg(tod, c, s)), NEW taken, NEW later
    PROVE  PipeMoves(pipe, next, taken, later)
<1>1. Msg(tod, c, s).body = <<>>
  BY DEF Msg
<1> QED
  BY <1>1, EmptyMoves

\* What recv() returns comes after everything read before.
LEMMA DataMoves ==
    ASSUME TypeInv, NEW pipe \in Seq(Message), NEW next \in Seq(Message), NEW c, NEW s,
           NEW ep \in Endpoint, NEW m \in RecvCounts(ep), read' = [read EXCEPT ![ep] = @ + m],
           next = Append(pipe, DataMsg(c, s, RecvBody(ep, m)))
    PROVE  PipeMoves(pipe, next, read, read') /\ Grows(read, read')
<1>1. m \in Nat /\ Counts(read) /\ Counts(read') /\ read'[ep] = read[ep] + m
  BY PipeTypes, ProxyAssumption DEF RecvCounts, Counts
<1>2. Grows(read, read')
  BY <1>1 DEF Grows, Counts
<1>3. PICK body : body = RecvBody(ep, m)
  OBVIOUS
<1>4. /\ Len(body) = m /\ \A i \in 1 .. m : body[i].n = read[ep] + i /\ body[i].from = ep
  BY <1>1, <1>3 DEF RecvBody
<1>5. Sorted(body)
  BY <1>1, <1>4 DEF Sorted, Counts
<1>6. IsNew(body, read, read')
  BY <1>1, <1>4, <1>5 DEF IsNew, WasRead, Counts
<1>7. DataMsg(c, s, body).body = body
  BY DEF DataMsg, Msg
<1>8. PICK msg : msg = DataMsg(c, s, body) /\ msg.body = body /\ next = Append(pipe, msg)
  BY <1>3, <1>7
<1>9. msg = next[Len(pipe) + 1] /\ Len(pipe) + 1 \in 1 .. Len(next)
  BY <1>8
<1>10. msg \in Message
  BY <1>9
<1>11. PipeMoves(pipe, next, read, read')
  BY <1>6, <1>8, <1>10 DEF PipeMoves
<1> QED
  BY <1>2, <1>11

LEMMA ClientMovesPipe ==
    ASSUME TypeInv, TypeInv', SessionInv, ClientStep
    PROVE  PipeMoves(cs, cs', read, read') /\ Grows(read, read')
<1>1. /\ cs \in Seq(Message) /\ cs' \in Seq(Message)
      /\ PipeMoves(cs, cs, read, read) /\ Grows(read, read)
  BY PipeTypes, NextPipeTypes DEF PipeMoves, Grows, Counts
<1>2. ASSUME UNCHANGED read, NEW tod, NEW c, NEW s, cs' = Append(cs, Msg(tod, c, s))
      PROVE  PipeMoves(cs, cs', read, read') /\ Grows(read, read')
  BY <1>1, <1>2, NoticeMoves
<1>3. CASE \E k \in Sessions : Accept(k)
  <2>1. PICK k, c : cs' = Append(cs, ConnectMsg(c, k)) /\ UNCHANGED read
    BY <1>3 DEF Accept
  <2>2. ConnectMsg(c, k).body = <<>>
    BY DEF ConnectMsg, Msg
  <2> QED
    BY <1>1, <2>1, <2>2, EmptyMoves
<1>4. CASE AcceptFails \/ ClientPollNval \/ ClientHupOnEmptySlot
  BY <1>1, <1>2, <1>4 DEF AcceptFails, ClientPollNval, ClientFatal, ClientHupOnEmptySlot, netvars
<1>5. CASE ClientHandlesMessage
  <2>1. UNCHANGED read
    BY <1>5 DEF ClientHandlesMessage, FromServerNewConnect, FromServerData,
           FromServerNotConnect, FromServerDisconnect, netvars
  <2>2. UNCHANGED cs \/ cs' = Append(cs, Msg("connect_not_found", Head(sc).c, Head(sc).s))
    BY <1>5 DEF ClientHandlesMessage, FromServerNewConnect, FromServerData,
           FromServerNotConnect, FromServerDisconnect
  <2> QED
    BY <1>1, <1>2, <2>1, <2>2
<1>6. ASSUME NEW c \in Fd, ClientHup(c)
      PROVE  PipeMoves(cs, cs', read, read') /\ Grows(read, read')
  BY <1>2, <1>6 DEF ClientHup, netvars
<1>7. ASSUME NEW c \in c_fds, NEW q, ClientRead(c, q)
      PROVE  PipeMoves(cs, cs', read, read') /\ Grows(read, read')
  <2>1. owner[c] \in Endpoint
    BY SessionFacts
  <2>2. \/ UNCHANGED <<cs, read>>
        \/ cs' = Append(cs, Msg("disconnect", c, At(c_db, c))) /\ UNCHANGED read
        \/ \E m \in RecvCounts(owner[c]) :
             /\ cs' = Append(cs, DataMsg(c, At(c_db, c), RecvBody(owner[c], m)))
             /\ read' = [read EXCEPT ![owner[c]] = @ + m]
    BY <1>7 DEF ClientRead
  <2> QED
    BY <1>1, <1>2, <2>1, <2>2, DataMoves
<1>8. ASSUME NEW c \in Fd, NEW out \in BOOLEAN, NEW in \in BOOLEAN, FromClients(c, out, in)
      PROVE  PipeMoves(cs, cs', read, read') /\ Grows(read, read')
  <2>1. c \in c_fds
    BY <1>8 DEF FromClients
  <2>2. UNCHANGED <<cs, read>> \/ \E q : ClientRead(c, q)
    BY <1>8 DEF FromClients
  <2> QED
    BY <1>1, <1>7, <2>1, <2>2
<1> QED
  BY <1>3, <1>4, <1>5, <1>6, <1>8 DEF ClientStep, ClientServes

\* The server thread may announce a connection and, in the same step, what it read from it.
LEMMA ServerMovesPipe ==
    ASSUME TypeInv, TypeInv', SessionInv, ServerStep
    PROVE  /\ Grows(read, read')
           /\ \E mid \in Seq(Message) : PipeMoves(sc, mid, read, read) /\ PipeMoves(mid, sc', read, read')
<1>1. sc \in Seq(Message) /\ sc' \in Seq(Message) /\ PipeMoves(sc, sc, read, read) /\ Grows(read, read)
  BY PipeTypes, NextPipeTypes DEF PipeMoves, Grows, Counts
<1>2. ASSUME UNCHANGED read, NEW tod, NEW c, NEW s, sc' = Append(sc, Msg(tod, c, s))
      PROVE  /\ Grows(read, read')
             /\ PipeMoves(sc, sc, read, read) /\ PipeMoves(sc, sc', read, read')
  BY <1>1, <1>2, NoticeMoves
<1>3. CASE UNCHANGED <<sc, read>>
  BY <1>1, <1>3
<1>4. CASE SocketFails \/ ServerPollNval \/ FromClientData \/ FromClientConnectNotFound \/ FromClientDisconnect
  BY <1>3, <1>4 DEF SocketFails, ServerPollNval, ServerFatal, FromClientData,
         FromClientConnectNotFound, FromClientDisconnect, netvars
<1>5. CASE FromClientNewConnect
  <2>1. \/ UNCHANGED sc
        \/ \E s : sc' = Append(sc, Msg("new_connect", Head(cs).c, s))
        \/ sc' = Append(sc, Msg("not_connect", Head(cs).c, -1))
    BY <1>5 DEF FromClientNewConnect
  <2>2. UNCHANGED read
    BY <1>5 DEF FromClientNewConnect
  <2> QED
    BY <1>1, <1>2, <1>3, <2>1, <2>2
<1>6. CASE ServerHupOnEmptySlot
  BY <1>1, <1>2, <1>6 DEF ServerHupOnEmptySlot, netvars
<1>7. ASSUME NEW s \in Fd, ConnectTimeout(s) \/ ServerHup(s)
      PROVE  /\ Grows(read, read')
             /\ PipeMoves(sc, sc, read, read) /\ PipeMoves(sc, sc', read, read')
  BY <1>2, <1>7 DEF ConnectTimeout, ServerHup, netvars
<1>8. ASSUME NEW s \in s_fds, NEW db, NEW q, NEW log \in Seq(Message), NEW forClose \in BOOLEAN,
             ServerRead(s, db, q, log, forClose)
      PROVE  Grows(read, read') /\ PipeMoves(log, sc', read, read')
  <2>1. owner[s] \in Endpoint /\ PipeMoves(log, log, read, read')
    BY SessionFacts DEF PipeMoves
  <2>2. \/ sc' = Append(log, Msg("disconnect", At(db, s), s)) /\ UNCHANGED read
        \/ \E m \in RecvCounts(owner[s]) :
             /\ read' = [read EXCEPT ![owner[s]] = @ + m]
             /\ sc' = log \/ sc' = Append(log, DataMsg(At(db, s), s, RecvBody(owner[s], m)))
    BY <1>8 DEF ServerRead
  <2>3. ASSUME NEW m \in RecvCounts(owner[s]), read' = [read EXCEPT ![owner[s]] = @ + m]
        PROVE  Grows(read, read')
    BY <2>1, <2>3, PipeTypes, ProxyAssumption DEF RecvCounts, Grows, Counts
  <2> QED
    BY <1>1, <2>1, <2>2, <2>3, DataMoves, NoticeMoves
<1>9. ASSUME NEW s \in Fd, NEW in \in BOOLEAN, ConnectFinished(s, in)
      PROVE  /\ Grows(read, read')
             /\ \E mid \in Seq(Message) : PipeMoves(sc, mid, read, read) /\ PipeMoves(mid, sc', read, read')
  <2>1. PICK log : log = Append(sc, Msg("new_connect", At(s_db, s), s))
    OBVIOUS
  <2>2. Msg("new_connect", At(s_db, s), s) \in Message
    <3>1. IsMap(s_db, Fd, FdOrNone)
      BY DEF TypeInv, TypeOK, ServerTypeOK
    <3>2. At(s_db, s) \in FdOrNone
      BY <3>1, FdFacts, AtInRange
    <3> QED
      BY <3>2, FdFacts, MsgType DEF Tod
  <2>3. log \in Seq(Message) /\ PipeMoves(sc, log, read, read)
    <3>1. log \in Seq(Message)
      BY <1>1, <2>1, <2>2
    <3> QED
      BY <1>1, <2>1, <3>1, NoticeMoves
  <2>4. s \in s_fds
    BY <1>9 DEF ConnectFinished
  <2>5. \/ sc' = Append(sc, Msg("not_connect", At(s_db, s), -1)) /\ UNCHANGED read
        \/ ServerRead(s, Touch(s_db, s), s_storage[s], log, FALSE)
        \/ sc' = log /\ UNCHANGED read
    BY <1>9, <2>1 DEF ConnectFinished
  <2>6. CASE sc' = log /\ UNCHANGED read
    BY <1>1, <2>3, <2>6 DEF PipeMoves
  <2> QED
    BY <1>1, <1>2, <1>8, <2>3, <2>4, <2>5, <2>6
<1>10. ASSUME NEW s \in Fd, NEW out \in BOOLEAN, NEW in \in BOOLEAN, FromServer(s, out, in)
       PROVE  /\ Grows(read, read')
              /\ PipeMoves(sc, sc, read, read) /\ PipeMoves(sc, sc', read, read')
  <2>1. s \in s_fds /\ (out /\ s \in s_for_close) \in BOOLEAN
    BY <1>10 DEF FromServer
  <2>2. UNCHANGED <<sc, read>> \/ \E q : ServerRead(s, s_db, q, sc, out /\ s \in s_for_close)
    BY <1>10 DEF FromServer
  <2> QED
    BY <1>1, <1>8, <2>1, <2>2
<1> QED
  BY <1>1, <1>4, <1>5, <1>6, <1>7, <1>9, <1>10 DEF ServerStep, ServerHandlesMessage, ServerServes

-----------------------------------------------------------------------------
(* The order of a stream: the steps of the threads                         *)

QueueTypes == /\ \A d \in DOMAIN c_storage : c_storage[d] \in Queue
              /\ \A d \in DOMAIN s_storage : s_storage[d] \in Queue

LEMMA OrderTypes ==
    ASSUME TypeInv, SessionInv
    PROVE  /\ DirectionTyped("server", cs, s_storage, got, owner)
           /\ DirectionTyped("client", sc, c_storage, got, owner)
           /\ DOMAIN c_storage \subseteq DOMAIN owner /\ DOMAIN s_storage \subseteq DOMAIN owner
<1>1. got \in [Endpoint -> Seq(Unit)]
  BY DEF TypeInv, TypeOK, SharedTypeOK
<1>2. QueueTypes
  BY DEF TypeInv, TypeOK, ClientTypeOK, ServerTypeOK, IsMap, QueueTypes
<1>3. \A d \in DOMAIN c_storage : IsClientFd(d) /\ owner[d] \in Endpoint
  BY SessionFacts DEF SessionInv, ClientStorageOK
<1>4. \A d \in DOMAIN s_storage : IsServerFd(d) /\ owner[d] \in Endpoint
  BY SessionFacts DEF SessionInv, ServerStorageOK
<1> QED
  BY <1>1, <1>2, <1>3, <1>4, PipeTypes DEF DirectionTyped, QueueTypes, IsClientFd, IsServerFd

LEMMA OneSender ==
    ASSUME GotOK(got'), NEW ep \in Endpoint
    PROVE  \E from : \A i \in 1 .. Len(got'[ep]) : got'[ep][i].from = from
<1>1. got'[ep] \in Seq(UnitsOf(Opposite(ep)))
  BY DEF GotOK
<1>2. \A i \in 1 .. Len(got'[ep]) : got'[ep][i] \in UnitsOf(Opposite(ep))
  BY <1>1
<1>3. \A i \in 1 .. Len(got'[ep]) : got'[ep][i].from = Opposite(ep)
  BY <1>2 DEF UnitsOf
<1> QED
  BY <1>3

\* What a flush of the front of d's queue took, in the terms of DirectionSends.
LEMMA FrontSent ==
    ASSUME TypeInv, SessionInv, NEW d \in DOMAIN owner, owner[d] \in Endpoint,
           NEW q \in Queue, NEW front, front = <<>> \/ (q # <<>> /\ front = Head(q)),
           NEW n \in IF front = <<>> THEN {0} ELSE SendResults(d, front)
    PROVE  /\ n \in Int /\ (n > 0 => q # <<>> /\ n <= Len(Head(q)))
           /\ SubSeq(front, 1, n) = SentOf(q, n)
<1>1. CASE front = <<>>
  <2>1. n = 0
    BY <1>1
  <2>2. SubSeq(front, 1, n) = SentOf(q, n)
    BY <1>1, <2>1 DEF SentOf
  <2> QED
    BY <2>1, <2>2
<1>2. CASE front # <<>>
  <2>1. n \in SendResults(d, front) /\ q # <<>> /\ front = Head(q) /\ front \in Seq(Unit)
    BY <1>2 DEF Queue
  <2>2. n \in Int /\ n <= Len(front)
    BY <2>1, SendResultsType
  <2>3. SubSeq(front, 1, n) = SentOf(q, n)
    <3>1. CASE n > 0
      BY <2>1, <3>1 DEF SentOf
    <3>2. CASE n <= 0
      BY <2>1, <2>2, <3>2 DEF SentOf
    <3> QED
      BY <2>2, <3>1, <3>2
  <2> QED
    BY <2>1, <2>2, <2>3
<1> QED
  BY <1>1, <1>2

LEMMA ClientOwns ==
    ASSUME TypeInv, SessionInv, OnceInv, NEW d \in c_fds
    PROVE  /\ IsClientFd(d) /\ d \in DOMAIN c_storage /\ d \in DOMAIN owner
           /\ owner[d] \in Endpoint /\ owner[d].side = "client"
           /\ \A e \in DOMAIN c_storage : owner[e] = owner[d] => e = d
<1>1. IsClientFd(d) /\ d \in DOMAIN c_storage /\ owner[d] \in Endpoint
  BY SessionFacts
<1> QED
  BY <1>1, OrderTypes DEF IsClientFd, OnceInv

LEMMA ServerOwns ==
    ASSUME TypeInv, SessionInv, OnceInv, NEW d \in s_fds
    PROVE  /\ IsServerFd(d) /\ d \in DOMAIN s_storage /\ d \in DOMAIN owner
           /\ owner[d] \in Endpoint /\ owner[d].side = "server"
           /\ \A e \in DOMAIN s_storage : owner[e] = owner[d] => e = d
<1>1. IsServerFd(d) /\ d \in DOMAIN s_storage /\ owner[d] \in Endpoint
  BY SessionFacts
<1> QED
  BY <1>1, OrderTypes DEF IsServerFd, OnceInv

LEMMA OwnerStays ==
    ASSUME ~Recycle, TypeInv, ClientStep \/ ServerStep
    PROVE  \A d \in DOMAIN owner : owner'[d] = owner[d]
<1>1. ASSUME NEW d, NEW ep, GiveOut(d, ep)
      PROVE  \A e \in DOMAIN owner : owner'[e] = owner[e]
  BY <1>1 DEF GiveOut, IsNextFd, Taken, Put
<1>2. CASE ClientStep
  BY <1>1, <1>2, ClientIsQuiet DEF Accept
<1>3. CASE ServerStep
  BY <1>1, <1>3, ServerIsQuiet DEF Connecting
<1> QED
  BY <1>2, <1>3

\* A step that passes nothing on, and leaves every queue alone or empty.
LEMMA ClientQuietOrder ==
    ASSUME ~Recycle, TypeInv, TypeInv', SessionInv, OrderInv, ClientStep, UNCHANGED got,
           sc' = sc \/ (sc # <<>> /\ sc' = Tail(sc)),
           \A d \in DOMAIN c_storage' :
              c_storage'[d] = <<>> \/ (d \in DOMAIN c_storage /\ c_storage'[d] = c_storage[d])
    PROVE  DirectionInOrder("client", sc', c_storage', got', read', owner')
<1>1. DirectionTyped("client", sc, c_storage, got, owner) /\ DOMAIN c_storage \subseteq DOMAIN owner
  BY OrderTypes
<1>2. Counts(read) /\ Counts(read') /\ Grows(read, read')
  BY PipeTypes, NextPipeTypes, ClientMovesPipe
<1>3. PipeMoves(sc, sc', read, read')
  BY DEF PipeMoves
<1>4. DirectionInOrder("client", sc, c_storage, got, read, owner)
  BY DEF OrderInv
<1>5. \A d \in DOMAIN c_storage' :
              \/ c_storage'[d] = <<>>
              \/ d \in DOMAIN c_storage /\ c_storage'[d] = c_storage[d] /\ owner'[d] = owner[d]
  BY <1>1, OwnerStays
<1> QED
  BY <1>1, <1>2, <1>3, <1>4, <1>5, DirectionQuiet

LEMMA ServerQuietOrder ==
    ASSUME ~Recycle, TypeInv, TypeInv', SessionInv, OrderInv, ServerStep, UNCHANGED got,
           cs' = cs \/ (cs # <<>> /\ cs' = Tail(cs)),
           \A d \in DOMAIN s_storage' :
              s_storage'[d] = <<>> \/ (d \in DOMAIN s_storage /\ s_storage'[d] = s_storage[d])
    PROVE  DirectionInOrder("server", cs', s_storage', got', read', owner')
<1>1. DirectionTyped("server", cs, s_storage, got, owner) /\ DOMAIN s_storage \subseteq DOMAIN owner
  BY OrderTypes
<1>2. Counts(read) /\ Counts(read') /\ Grows(read, read')
  BY PipeTypes, NextPipeTypes, ServerMovesPipe
<1>3. PipeMoves(cs, cs', read, read')
  BY DEF PipeMoves
<1>4. DirectionInOrder("server", cs, s_storage, got, read, owner)
  BY DEF OrderInv
<1>5. \A d \in DOMAIN s_storage' :
              \/ s_storage'[d] = <<>>
              \/ d \in DOMAIN s_storage /\ s_storage'[d] = s_storage[d] /\ owner'[d] = owner[d]
  BY <1>1, OwnerStays
<1> QED
  BY <1>1, <1>2, <1>3, <1>4, <1>5, DirectionQuiet

\* A step of one thread keeps the order of the other thread's direction: it only adds what
\* it has read to that thread's pipe.
LEMMA ClientKeepsServerOrder ==
    ASSUME ~Recycle, TypeInv, TypeInv', SessionInv, OrderInv, ClientStep, UNCHANGED svars,
           \A ep \in Endpoint : ep.side = "server" => got'[ep] = got[ep]
    PROVE  DirectionInOrder("server", cs', s_storage', got', read', owner')
<1>1. DirectionTyped("server", cs, s_storage, got, owner) /\ DOMAIN s_storage \subseteq DOMAIN owner
  BY OrderTypes
<1>2. Counts(read) /\ Counts(read') /\ Grows(read, read') /\ PipeMoves(cs, cs', read, read')
  BY PipeTypes, NextPipeTypes, ClientMovesPipe
<1>3. DirectionInOrder("server", cs, s_storage, got, read, owner)
  BY DEF OrderInv
<1>4. \A d \in DOMAIN s_storage' :
         d \in DOMAIN s_storage /\ s_storage'[d] = s_storage[d] /\ owner'[d] = owner[d]
  BY <1>1, OwnerStays DEF svars
<1> QED
  BY <1>1, <1>2, <1>3, <1>4, DirectionQuiet

LEMMA ServerKeepsClientOrder ==
    ASSUME ~Recycle, TypeInv, TypeInv', SessionInv, OrderInv, ServerStep, UNCHANGED cvars,
           \A ep \in Endpoint : ep.side = "client" => got'[ep] = got[ep]
    PROVE  DirectionInOrder("client", sc', c_storage', got', read', owner')
<1>1. DirectionTyped("client", sc, c_storage, got, owner) /\ DOMAIN c_storage \subseteq DOMAIN owner
  BY OrderTypes
<1>2. Counts(read) /\ Counts(read') /\ Grows(read, read') /\ Grows(read, read)
  BY PipeTypes, NextPipeTypes, ServerMovesPipe DEF Grows, Counts
<1>3. PICK mid \in Seq(Message) : PipeMoves(sc, mid, read, read) /\ PipeMoves(mid, sc', read, read')
  BY ServerMovesPipe
<1>4. DirectionInOrder("client", sc, c_storage, got, read, owner)
  BY DEF OrderInv
<1>5. DirectionInOrder("client", mid, c_storage, got, read, owner)
  BY <1>1, <1>2, <1>3, <1>4, DirectionQuiet
<1>6. DirectionTyped("client", mid, c_storage, got, owner)
  BY <1>1 DEF DirectionTyped
<1>7. \A d \in DOMAIN c_storage' :
         d \in DOMAIN c_storage /\ c_storage'[d] = c_storage[d] /\ owner'[d] = owner[d]
  BY <1>1, OwnerStays DEF cvars
<1> QED
  BY <1>2, <1>3, <1>5, <1>6, <1>7, DirectionQuiet

LEMMA TransmitToOne ==
    ASSUME TypeInv, NEW d, NEW buf, NEW n, Transmit(d, buf, n), owner[d] \in Endpoint
    PROVE  \A ep \in Endpoint : ep # owner[d] => got'[ep] = got[ep]
BY DEF Transmit, TypeInv, TypeOK, SharedTypeOK

LEMMA ErasedOrSame ==
    ASSUME NEW st, NEW d
    PROVE  /\ \A e \in DOMAIN Erase(st, d) : e \in DOMAIN st /\ Erase(st, d)[e] = st[e]
           /\ \A q : \A e \in DOMAIN Erase(st, d) : e \in DOMAIN Put(st, d, q) /\ Erase(st, d)[e] = Put(st, d, q)[e]
BY DEF Erase, Put

LEMMA FromServerDataOrder ==
    ASSUME ~Recycle, TypeInv, TypeInv', SessionInv, SessionInv', OnceInv, OrderInv,
           ClientStep, UNCHANGED svars, FromServerData
    PROVE  OrderInv'
<1> PICK d, body : d = Head(sc).c /\ body = Head(sc).body
  OBVIOUS
<1>1. sc # <<>> /\ sc' = Tail(sc) /\ UNCHANGED <<owner, read>>
  BY DEF FromServerData, ClientReceives
<1>2. CASE UNCHANGED <<got, c_storage>>
  <2>1. DirectionInOrder("client", sc', c_storage', got', read', owner')
    BY <1>1, <1>2, ClientQuietOrder
  <2>2. DirectionInOrder("server", cs', s_storage', got', read', owner')
    BY <1>2, ClientKeepsServerOrder
  <2> QED
    BY <2>1, <2>2 DEF OrderInv
<1>3. ASSUME d \in c_fds, NEW n \in SendResults(d, ToSend(c_storage[d], body)),
             Transmit(d, ToSend(c_storage[d], body), n),
             c_storage' = Put(c_storage, d, Relayed(c_storage[d], body, n))
      PROVE  OrderInv'
  <2>1. /\ d \in DOMAIN c_storage /\ owner[d] \in Endpoint /\ owner[d].side = "client"
        /\ \A e \in DOMAIN c_storage : owner[e] = owner[d] => e = d
    BY <1>3, ClientOwns
  <2>2. body \in Seq(Unit) /\ c_storage[d] \in Queue
    <3>1. Head(sc) \in Message
      BY <1>1, PipeTypes
    <3> QED
      BY <2>1, <3>1, OrderTypes DEF Message, DirectionTyped
  <2>3. ToSend(c_storage[d], body) \in Seq(Unit)
    BY <2>2 DEF ToSend, Queue
  <2>4. n \in Int /\ n <= Len(ToSend(c_storage[d], body))
    BY <1>3, <2>3, SendResultsType
  <2>5. \E ep : \A i \in 1 .. Len(got'[owner[d]]) : got'[owner[d]][i].from = ep
    BY <2>1, OneSender DEF SessionInv
  <2>6. got' = [got EXCEPT ![owner[d]] = @ \o SubSeq(ToSend(c_storage[d], body), 1, n)]
    BY <1>3 DEF Transmit
  <2>7. /\ DirectionTyped("client", sc, c_storage, got, owner) /\ Counts(read)
        /\ DirectionInOrder("client", sc, c_storage, got, read, owner)
    BY OrderTypes, PipeTypes DEF OrderInv
  <2>8. DirectionInOrder("client", Tail(sc), Put(c_storage, d, Relayed(c_storage[d], body, n)), got', read, owner)
    BY <1>1, <2>1, <2>4, <2>5, <2>6, <2>7, DirectionRelays, ZenonT(30)
  <2>9. DirectionInOrder("client", sc', c_storage', got', read', owner')
    BY <1>1, <1>3, <2>8
  <2>10. \A ep \in Endpoint : ep.side = "server" => got'[ep] = got[ep]
    BY <1>3, <2>1, TransmitToOne
  <2>11. DirectionInOrder("server", cs', s_storage', got', read', owner')
    BY <2>10, ClientKeepsServerOrder
  <2> QED
    BY <2>9, <2>11 DEF OrderInv
<1> QED
  BY <1>2, <1>3 DEF FromServerData

LEMMA FromClientsOrder ==
    ASSUME ~Recycle, TypeInv, TypeInv', SessionInv, SessionInv', OnceInv, OrderInv,
           ClientStep, UNCHANGED svars,
           NEW c, NEW out \in BOOLEAN, NEW in \in BOOLEAN, FromClients(c, out, in)
    PROVE  OrderInv'
<1> PICK front : front = IF out /\ ClientUnsent(c) THEN Head(c_storage[c]) ELSE <<>>
  OBVIOUS
<1>1. c \in c_fds /\ UNCHANGED <<owner, sc>>
  BY DEF FromClients
<1>2. PICK n \in IF front = <<>> THEN {0} ELSE SendResults(c, front) :
        /\ Transmit(c, front, n)
        /\ \/ c_storage' = Erase(c_storage, c)
           \/ c_storage' = Put(c_storage, c, Flushed(c_storage[c], n))
  BY DEF FromClients, ClientRead, ClientCloseConnectForce
<1>3. /\ c \in DOMAIN c_storage /\ c \in DOMAIN owner /\ owner[c] \in Endpoint /\ owner[c].side = "client"
      /\ \A e \in DOMAIN c_storage : owner[e] = owner[c] => e = c
  BY <1>1, ClientOwns
<1>4. /\ DirectionTyped("client", sc, c_storage, got, owner) /\ Counts(read) /\ Counts(read')
      /\ DirectionInOrder("client", sc, c_storage, got, read, owner)
      /\ Grows(read, read')
  BY OrderTypes, PipeTypes, NextPipeTypes, ClientMovesPipe DEF OrderInv
<1>5. front = <<>> \/ (c_storage[c] # <<>> /\ front = Head(c_storage[c]))
  BY DEF ClientUnsent
<1>6. /\ n \in Int /\ (n > 0 => c_storage[c] # <<>> /\ n <= Len(Head(c_storage[c])))
      /\ got' = [got EXCEPT ![owner[c]] = @ \o SentOf(c_storage[c], n)]
  <2>1. c_storage[c] \in Queue
    BY <1>3, <1>4 DEF DirectionTyped
  <2>2. n \in Int /\ (n > 0 => c_storage[c] # <<>> /\ n <= Len(Head(c_storage[c])))
    BY <1>2, <1>3, <1>5, <2>1, FrontSent
  <2>3. got' = [got EXCEPT ![owner[c]] = @ \o SentOf(c_storage[c], n)]
    <3>1. Transmit(c, front, n) /\ n \in IF front = <<>> THEN {0} ELSE SendResults(c, front)
      BY <1>2
    <3> PICK q : q = c_storage[c]
      OBVIOUS
    <3>2. q \in Queue /\ (front = <<>> \/ (q # <<>> /\ front = Head(q)))
      BY <1>5, <2>1
    <3>3. c \in DOMAIN owner /\ owner[c] \in Endpoint
      BY <1>3
    <3>4. SubSeq(front, 1, n) = SentOf(q, n)
      BY <3>1, <3>2, <3>3, FrontSent
    <3> QED
      BY <3>1, <3>4 DEF Transmit
  <2> QED
    BY <2>2, <2>3
<1> PICK storage1 : storage1 = Put(c_storage, c, Flushed(c_storage[c], n))
  OBVIOUS
<1>7. DirectionInOrder("client", sc, storage1, got', read, owner)
  <2>1. \E ep : \A i \in 1 .. Len(got'[owner[c]]) : got'[owner[c]][i].from = ep
    BY <1>3, OneSender DEF SessionInv
  <2>2. DirectionInOrder("client", sc, Put(c_storage, c, Flushed(c_storage[c], n)), got', read, owner)
    BY <1>3, <1>4, <1>6, <2>1, DirectionSends
  <2> QED
    BY <2>2
<1>8. DirectionTyped("client", sc, storage1, got', owner)
  <2>1. Flushed(c_storage[c], n) \in Queue
    <3>1. c_storage[c] \in Seq(Seq(Unit))
      BY <1>3, <1>4 DEF DirectionTyped, Queue
    <3> QED
      BY <1>6, <3>1, FlushedType DEF Queue
  <2>2. \A d \in DOMAIN storage1 : d = c \/ (d \in DOMAIN c_storage /\ storage1[d] = c_storage[d])
    BY DEF Put
  <2>3. storage1[c] = Flushed(c_storage[c], n)
    BY DEF Put
  <2>4. got' \in [Endpoint -> Seq(Unit)]
    BY DEF TypeInv, TypeOK, SharedTypeOK
  <2> QED
    BY <1>3, <1>4, <2>1, <2>2, <2>3, <2>4 DEF DirectionTyped
<1>9. \A d \in DOMAIN c_storage' : d \in DOMAIN storage1 /\ c_storage'[d] = storage1[d]
  BY <1>2, ErasedOrSame
<1>10. PipeMoves(sc, sc', read, read')
  BY <1>1 DEF PipeMoves
<1>11. DirectionInOrder("client", sc', c_storage', got', read', owner')
  BY <1>1, <1>4, <1>7, <1>8, <1>9, <1>10, DirectionQuiet
<1>12. \A ep \in Endpoint : ep.side = "server" => got'[ep] = got[ep]
  BY <1>2, <1>3, TransmitToOne
<1>13. DirectionInOrder("server", cs', s_storage', got', read', owner')
  BY <1>12, ClientKeepsServerOrder
<1> QED
  BY <1>11, <1>13 DEF OrderInv

LEMMA ClientStepOrder ==
    ASSUME ~Recycle, TypeInv, TypeInv', SessionInv, SessionInv', OnceInv, OrderInv,
           ClientStep, UNCHANGED svars
    PROVE  OrderInv'
<1>1. ASSUME UNCHANGED got, sc' = sc \/ (sc # <<>> /\ sc' = Tail(sc)),
             \A d \in DOMAIN c_storage' :
              c_storage'[d] = <<>> \/ (d \in DOMAIN c_storage /\ c_storage'[d] = c_storage[d])
      PROVE  OrderInv'
  <2>1. DirectionInOrder("client", sc', c_storage', got', read', owner')
    BY <1>1, ClientQuietOrder
  <2>2. DirectionInOrder("server", cs', s_storage', got', read', owner')
    BY <1>1, ClientKeepsServerOrder
  <2> QED
    BY <2>1, <2>2 DEF OrderInv
<1>2. CASE AcceptFails \/ ClientPollNval \/ ClientHupOnEmptySlot
  BY <1>1, <1>2 DEF AcceptFails, ClientPollNval, ClientFatal, ClientHupOnEmptySlot, netvars, cvars
<1>3. CASE \E k \in Sessions : Accept(k)
  BY <1>1, <1>3 DEF Accept, Put
<1>4. CASE FromServerNewConnect
  BY <1>1, <1>4 DEF FromServerNewConnect, ClientReceives, netvars
<1>5. CASE FromServerData
  BY <1>5, FromServerDataOrder
<1>6. ASSUME NEW d, ClientCloseConnectForce(d) \/ ClientCloseConnect(d)
      PROVE  \A e \in DOMAIN c_storage' : e \in DOMAIN c_storage /\ c_storage'[e] = c_storage[e]
  BY <1>6, ErasedOrSame DEF ClientCloseConnectForce, ClientCloseConnect
<1>7. CASE FromServerNotConnect \/ FromServerDisconnect
  BY <1>1, <1>6, <1>7 DEF FromServerNotConnect, FromServerDisconnect, ClientReceives, netvars
<1>8. CASE \E c \in Fd : ClientHup(c)
  BY <1>1, <1>6, <1>8 DEF ClientHup, netvars
<1>9. CASE \E c \in Fd : \E out, in \in BOOLEAN : FromClients(c, out, in)
  BY <1>9, FromClientsOrder
<1> QED
  BY <1>2, <1>3, <1>4, <1>5, <1>7, <1>8, <1>9 DEF ClientStep, ClientHandlesMessage, ClientServes

LEMMA FromClientDataOrder ==
    ASSUME ~Recycle, TypeInv, TypeInv', SessionInv, SessionInv', OnceInv, OrderInv,
           ServerStep, UNCHANGED cvars, FromClientData
    PROVE  OrderInv'
<1> PICK d, body : d = Head(cs).s /\ body = Head(cs).body
  OBVIOUS
<1>1. cs # <<>> /\ cs' = Tail(cs) /\ UNCHANGED <<owner, read>>
  BY DEF FromClientData, ServerReceives
<1>2. CASE UNCHANGED <<got, s_storage>>
  <2>1. DirectionInOrder("server", cs', s_storage', got', read', owner')
    BY <1>1, <1>2, ServerQuietOrder
  <2>2. DirectionInOrder("client", sc', c_storage', got', read', owner')
    BY <1>2, ServerKeepsClientOrder
  <2> QED
    BY <2>1, <2>2 DEF OrderInv
<1>3. ASSUME d \in s_fds, NEW n \in SendResults(d, ToSend(s_storage[d], body)),
             Transmit(d, ToSend(s_storage[d], body), n),
             s_storage' = Put(s_storage, d, Relayed(s_storage[d], body, n))
      PROVE  OrderInv'
  <2>1. /\ d \in DOMAIN s_storage /\ owner[d] \in Endpoint /\ owner[d].side = "server"
        /\ \A e \in DOMAIN s_storage : owner[e] = owner[d] => e = d
    BY <1>3, ServerOwns
  <2>2. body \in Seq(Unit) /\ s_storage[d] \in Queue
    <3>1. Head(cs) \in Message
      BY <1>1, PipeTypes
    <3> QED
      BY <2>1, <3>1, OrderTypes DEF Message, DirectionTyped
  <2>3. ToSend(s_storage[d], body) \in Seq(Unit)
    BY <2>2 DEF ToSend, Queue
  <2>4. n \in Int /\ n <= Len(ToSend(s_storage[d], body))
    BY <1>3, <2>3, SendResultsType
  <2>5. \E ep : \A i \in 1 .. Len(got'[owner[d]]) : got'[owner[d]][i].from = ep
    BY <2>1, OneSender DEF SessionInv
  <2>6. got' = [got EXCEPT ![owner[d]] = @ \o SubSeq(ToSend(s_storage[d], body), 1, n)]
    BY <1>3 DEF Transmit
  <2>7. /\ DirectionTyped("server", cs, s_storage, got, owner) /\ Counts(read)
        /\ DirectionInOrder("server", cs, s_storage, got, read, owner)
    BY OrderTypes, PipeTypes DEF OrderInv
  <2>8. DirectionInOrder("server", Tail(cs), Put(s_storage, d, Relayed(s_storage[d], body, n)), got', read, owner)
    BY <1>1, <2>1, <2>4, <2>5, <2>6, <2>7, DirectionRelays, ZenonT(30)
  <2>9. DirectionInOrder("server", cs', s_storage', got', read', owner')
    BY <1>1, <1>3, <2>8
  <2>10. \A ep \in Endpoint : ep.side = "client" => got'[ep] = got[ep]
    BY <1>3, <2>1, TransmitToOne
  <2>11. DirectionInOrder("client", sc', c_storage', got', read', owner')
    BY <2>10, ServerKeepsClientOrder
  <2> QED
    BY <2>9, <2>11 DEF OrderInv
<1> QED
  BY <1>2, <1>3 DEF FromClientData

LEMMA FromServerOrder ==
    ASSUME ~Recycle, TypeInv, TypeInv', SessionInv, SessionInv', OnceInv, OrderInv,
           ServerStep, UNCHANGED cvars,
           NEW s, NEW out \in BOOLEAN, NEW in \in BOOLEAN, FromServer(s, out, in)
    PROVE  OrderInv'
<1> PICK front : front = IF out /\ ServerUnsent(s) THEN Head(s_storage[s]) ELSE <<>>
  OBVIOUS
<1>1. s \in s_fds /\ UNCHANGED <<owner, cs>>
  BY DEF FromServer
<1>2. PICK n \in IF front = <<>> THEN {0} ELSE SendResults(s, front) :
        /\ Transmit(s, front, n)
        /\ \/ s_storage' = Erase(s_storage, s)
           \/ s_storage' = Put(s_storage, s, Flushed(s_storage[s], n))
  BY DEF FromServer, ServerRead, ServerCloseConnectForce
<1>3. /\ s \in DOMAIN s_storage /\ s \in DOMAIN owner /\ owner[s] \in Endpoint /\ owner[s].side = "server"
      /\ \A e \in DOMAIN s_storage : owner[e] = owner[s] => e = s
  BY <1>1, ServerOwns
<1>4. /\ DirectionTyped("server", cs, s_storage, got, owner) /\ Counts(read) /\ Counts(read')
      /\ DirectionInOrder("server", cs, s_storage, got, read, owner)
      /\ Grows(read, read')
  BY OrderTypes, PipeTypes, NextPipeTypes, ServerMovesPipe DEF OrderInv
<1>5. front = <<>> \/ (s_storage[s] # <<>> /\ front = Head(s_storage[s]))
  BY DEF ServerUnsent
<1>6. /\ n \in Int /\ (n > 0 => s_storage[s] # <<>> /\ n <= Len(Head(s_storage[s])))
      /\ got' = [got EXCEPT ![owner[s]] = @ \o SentOf(s_storage[s], n)]
  <2>1. s_storage[s] \in Queue
    BY <1>3, <1>4 DEF DirectionTyped
  <2>2. n \in Int /\ (n > 0 => s_storage[s] # <<>> /\ n <= Len(Head(s_storage[s])))
    BY <1>2, <1>3, <1>5, <2>1, FrontSent
  <2>3. got' = [got EXCEPT ![owner[s]] = @ \o SentOf(s_storage[s], n)]
    <3>1. Transmit(s, front, n) /\ n \in IF front = <<>> THEN {0} ELSE SendResults(s, front)
      BY <1>2
    <3> PICK q : q = s_storage[s]
      OBVIOUS
    <3>2. q \in Queue /\ (front = <<>> \/ (q # <<>> /\ front = Head(q)))
      BY <1>5, <2>1
    <3>3. s \in DOMAIN owner /\ owner[s] \in Endpoint
      BY <1>3
    <3>4. SubSeq(front, 1, n) = SentOf(q, n)
      BY <3>1, <3>2, <3>3, FrontSent
    <3> QED
      BY <3>1, <3>4 DEF Transmit
  <2> QED
    BY <2>2, <2>3
<1> PICK storage1 : storage1 = Put(s_storage, s, Flushed(s_storage[s], n))
  OBVIOUS
<1>7. DirectionInOrder("server", cs, storage1, got', read, owner)
  <2>1. \E ep : \A i \in 1 .. Len(got'[owner[s]]) : got'[owner[s]][i].from = ep
    BY <1>3, OneSender DEF SessionInv
  <2>2. DirectionInOrder("server", cs, Put(s_storage, s, Flushed(s_storage[s], n)), got', read, owner)
    BY <1>3, <1>4, <1>6, <2>1, DirectionSends
  <2> QED
    BY <2>2
<1>8. DirectionTyped("server", cs, storage1, got', owner)
  <2>1. Flushed(s_storage[s], n) \in Queue
    <3>1. s_storage[s] \in Seq(Seq(Unit))
      BY <1>3, <1>4 DEF DirectionTyped, Queue
    <3> QED
      BY <1>6, <3>1, FlushedType DEF Queue
  <2>2. \A d \in DOMAIN storage1 : d = s \/ (d \in DOMAIN s_storage /\ storage1[d] = s_storage[d])
    BY DEF Put
  <2>3. storage1[s] = Flushed(s_storage[s], n)
    BY DEF Put
  <2>4. got' \in [Endpoint -> Seq(Unit)]
    BY DEF TypeInv, TypeOK, SharedTypeOK
  <2> QED
    BY <1>3, <1>4, <2>1, <2>2, <2>3, <2>4 DEF DirectionTyped
<1>9. \A d \in DOMAIN s_storage' : d \in DOMAIN storage1 /\ s_storage'[d] = storage1[d]
  BY <1>2, ErasedOrSame
<1>10. PipeMoves(cs, cs', read, read')
  BY <1>1 DEF PipeMoves
<1>11. DirectionInOrder("server", cs', s_storage', got', read', owner')
  BY <1>1, <1>4, <1>7, <1>8, <1>9, <1>10, DirectionQuiet
<1>12. \A ep \in Endpoint : ep.side = "client" => got'[ep] = got[ep]
  BY <1>2, <1>3, TransmitToOne
<1>13. DirectionInOrder("client", sc', c_storage', got', read', owner')
  BY <1>12, ServerKeepsClientOrder
<1> QED
  BY <1>11, <1>13 DEF OrderInv

LEMMA ServerStepOrder ==
    ASSUME ~Recycle, TypeInv, TypeInv', SessionInv, SessionInv', OnceInv, OrderInv,
           ServerStep, UNCHANGED cvars
    PROVE  OrderInv'
<1>1. ASSUME UNCHANGED got, cs' = cs \/ (cs # <<>> /\ cs' = Tail(cs)),
             \A d \in DOMAIN s_storage' :
              s_storage'[d] = <<>> \/ (d \in DOMAIN s_storage /\ s_storage'[d] = s_storage[d])
      PROVE  OrderInv'
  <2>1. DirectionInOrder("server", cs', s_storage', got', read', owner')
    BY <1>1, ServerQuietOrder
  <2>2. DirectionInOrder("client", sc', c_storage', got', read', owner')
    BY <1>1, ServerKeepsClientOrder
  <2> QED
    BY <2>1, <2>2 DEF OrderInv
<1>2. CASE SocketFails \/ ServerPollNval \/ ServerHupOnEmptySlot \/ \E s \in Fd : ConnectTimeout(s)
  BY <1>1, <1>2 DEF SocketFails, ServerPollNval, ServerFatal, ServerHupOnEmptySlot, ConnectTimeout, netvars, svars
<1>3. CASE FromClientNewConnect
  <2>1. s_storage' = s_storage \/ \E s : s_storage' = Put(s_storage, s, <<>>)
    BY <1>3 DEF FromClientNewConnect, Connecting
  <2> QED
    BY <1>1, <1>3, <2>1 DEF FromClientNewConnect, ServerReceives, Put
<1>4. CASE FromClientData
  BY <1>4, FromClientDataOrder
<1>5. ASSUME NEW d, ServerCloseConnectForce(d) \/ ServerCloseConnect(d)
      PROVE  \A e \in DOMAIN s_storage' : e \in DOMAIN s_storage /\ s_storage'[e] = s_storage[e]
  BY <1>5, ErasedOrSame DEF ServerCloseConnectForce, ServerCloseConnect
<1>6. CASE FromClientConnectNotFound \/ FromClientDisconnect
  BY <1>1, <1>5, <1>6 DEF FromClientConnectNotFound, FromClientDisconnect, ServerReceives, netvars
<1>7. CASE \E s \in Fd : ServerHup(s)
  BY <1>1, <1>5, <1>7 DEF ServerHup, netvars
<1>8. ASSUME NEW s \in Fd, NEW in \in BOOLEAN, ConnectFinished(s, in)
      PROVE  OrderInv'
  <2>1. UNCHANGED <<cs, got>> /\ s \in DOMAIN s_storage
    BY <1>8, SessionFacts DEF ConnectFinished
  <2>2. \/ s_storage' = s_storage
        \/ s_storage' = Erase(s_storage, s)
        \/ s_storage' = Put(s_storage, s, s_storage[s])
    BY <1>8 DEF ConnectFinished, ServerRead, ServerCloseConnectForce
  <2>3. CASE s_storage' = Put(s_storage, s, s_storage[s])
    <3>1. \A e \in DOMAIN s_storage' : e \in DOMAIN s_storage /\ s_storage'[e] = s_storage[e]
      BY <2>1, <2>3 DEF Put
    <3> QED
      BY <1>1, <2>1, <3>1
  <2>4. CASE s_storage' = Erase(s_storage, s) \/ s_storage' = s_storage
    <3>1. \A e \in DOMAIN s_storage' : e \in DOMAIN s_storage /\ s_storage'[e] = s_storage[e]
      BY <2>4, ErasedOrSame
    <3> QED
      BY <1>1, <2>1, <3>1
  <2> QED
    BY <2>2, <2>3, <2>4
<1>9. CASE \E s \in Fd : \E out, in \in BOOLEAN : FromServer(s, out, in)
  BY <1>9, FromServerOrder
<1> QED
  BY <1>2, <1>3, <1>4, <1>6, <1>7, <1>8, <1>9 DEF ServerStep, ServerHandlesMessage, ServerServes

LEMMA InitOrderInv == Init => OrderInv
<1> SUFFICES ASSUME Init PROVE OrderInv
  OBVIOUS
<1>1. /\ cs = <<>> /\ sc = <<>> /\ DOMAIN c_storage = {} /\ DOMAIN s_storage = {}
      /\ \A ep \in Endpoint : got[ep] = <<>>
  BY DEF Init, SharedInit, ClientInit, ServerInit
<1> QED
  BY <1>1 DEF OrderInv, DirectionInOrder, PipeInOrder, RunBeforePipe, Sorted, WasRead

LEMMA NextOrderInv ==
    ~Recycle => (TypeInv /\ TypeInv' /\ SessionInv /\ SessionInv' /\ OnceInv /\ OrderInv /\ [Next]_vars
                   => OrderInv')
<1> SUFFICES ASSUME ~Recycle, TypeInv, TypeInv', SessionInv, SessionInv', OnceInv, OrderInv, [Next]_vars
             PROVE  OrderInv'
  OBVIOUS
<1>1. CASE ClientStep /\ UNCHANGED svars
  BY <1>1, ClientStepOrder
<1>2. CASE ServerStep /\ UNCHANGED cvars
  BY <1>2, ServerStepOrder
<1>3. CASE UNCHANGED <<cs, sc, got, read, owner, cvars, svars>>
  BY <1>3 DEF OrderInv, cvars, svars
<1>4. NetStep => UNCHANGED <<owner, cs, sc, read, got>>
  BY NetIsQuiet
<1> QED
  BY <1>1, <1>2, <1>3, <1>4 DEF Next, vars, sharedvars

LEMMA OrderInvariant == ~Recycle => (Spec => []OrderInv)
<1> SUFFICES ASSUME ~Recycle PROVE Spec => []OrderInv
  OBVIOUS
<1>1. TypeInv /\ TypeInv' /\ SessionInv /\ SessionInv' /\ OnceInv /\ OrderInv /\ [Next]_vars => OrderInv'
  BY NextOrderInv
<1> QED
  BY <1>1, InitOrderInv, TypeInvariant, SessionInvariant, OnceInvariant, PTL DEF Spec

\* If no descriptor number is used twice, the units that reach a far end come in the order in
\* which the other one wrote them, and none comes twice, for any number of sessions, any cut
\* that recv() and send() make in a stream, and whatever else happens to the proxy.
THEOREM StreamsStayInOrder == ~Recycle => (Spec => []InOrder)
<1> SUFFICES ASSUME ~Recycle PROVE Spec => []InOrder
  OBVIOUS
<1>1. OrderInv => InOrder
  BY DEF OrderInv, DirectionInOrder, Sorted, InOrder, Endpoint
<1> QED
  BY <1>1, OrderInvariant, PTL

-----------------------------------------------------------------------------
(* Unsent data                                                             *)

LEMMA FlushErase ==
    ASSUME NEW polled, NEW flushed, NEW st, NEW d, FlushOK(polled, flushed, st)
    PROVE  FlushOK(polled \ {d}, flushed \ {d}, Erase(st, d))
BY DEF FlushOK, Erase

LEMMA FlushPut ==
    ASSUME NEW polled, NEW flushed, NEW st, NEW d, NEW q, FlushOK(polled, flushed, st),
           d \in flushed => q # <<>>, q # <<>> => d \in polled
    PROVE  FlushOK(polled, flushed, Put(st, d, q))
BY DEF FlushOK, Put

\* A socket whose queue is not empty may be listed.
LEMMA FlushListed ==
    ASSUME NEW polled, NEW flushed, NEW st, NEW d \in DOMAIN st, st[d] # <<>>, FlushOK(polled, flushed, st)
    PROVE  FlushOK(polled, flushed \cup {d}, st)
BY DEF FlushOK

\* A socket whose queue is empty may come and go.
LEMMA FlushMoves ==
    ASSUME NEW polled, NEW next, NEW flushed, NEW st, FlushOK(polled, flushed, st),
           \A d \in polled \ next : d \in DOMAIN st => st[d] = <<>>
    PROVE  FlushOK(next, flushed, st)
BY DEF FlushOK

\* Partial sends and arriving data never empty a queue that the thread does not know empty.
LEMMA QueueStays ==
    ASSUME NEW q \in Queue, q # <<>>, NEW body \in Seq(Unit), NEW n \in Int
    PROVE  /\ Flushed(q, 0) = q
           /\ Relayed(q, body, n) # <<>>
<1> DEFINE r == Append(q, body)
<1>1. q \in Seq(Seq(Unit)) /\ Len(q) \in Nat /\ Len(q) # 0
  BY DEF Queue
<1>2. r \in Seq(Seq(Unit)) /\ Len(r) = Len(q) + 1
  BY <1>1
<1>6. r # <<>>
  BY <1>1, <1>2
<1>7. Tail(r) \in Seq(Seq(Unit)) /\ Len(Tail(r)) = Len(q)
  BY <1>1, <1>2, <1>6
<1>3. r # <<>> /\ Tail(r) # <<>>
  BY <1>1, <1>6, <1>7
<1>4. <<SubSeq(Head(r), n + 1, Len(Head(r)))>> \o Tail(r) # <<>>
  <2>1. \A x : <<x>> \o Tail(r) # <<>>
    BY <1>7
  <2> QED
    BY <2>1
<1>5. Flushed(r, n) # <<>>
  BY <1>3, <1>4 DEF Flushed
<1> QED
  BY <1>5 DEF Relayed, Flushed

LEMMA ClientCloseForceFlush ==
    ASSUME FlushOK(c_fds, c_for_close, c_storage), NEW d, ClientCloseConnectForce(d)
    PROVE  FlushOK(c_fds, c_for_close, c_storage)'
BY FlushErase DEF ClientCloseConnectForce

LEMMA ClientCloseFlush ==
    ASSUME FlushOK(c_fds, c_for_close, c_storage), NEW d, ClientCloseConnect(d)
    PROVE  FlushOK(c_fds, c_for_close, c_storage)'
<1>1. CASE ClientUnsent(d)
  BY <1>1, FlushListed DEF ClientCloseConnect, ClientUnsent
<1>2. CASE ~ClientUnsent(d)
  BY <1>2, ClientCloseForceFlush DEF ClientCloseConnect
<1> QED
  BY <1>1, <1>2

LEMMA FromServerDataFlush ==
    ASSUME TypeInv, FlushOK(c_fds, c_for_close, c_storage), FromServerData
    PROVE  FlushOK(c_fds, c_for_close, c_storage)'
<1>1. CASE UNCHANGED c_storage
  BY <1>1 DEF FromServerData
<1>2. CASE Head(sc).c \in c_fds /\ ~UNCHANGED c_storage
  <2> PICK d : d = Head(sc)
    OBVIOUS
  <2> PICK q : q = c_storage[d.c]
    OBVIOUS
  <2>1. d.c \in c_fds /\ UNCHANGED <<c_fds, c_for_close>>
    BY <1>2 DEF FromServerData
  <2>2. PICK n \in SendResults(d.c, ToSend(q, d.body)) : c_storage' = Put(c_storage, d.c, Relayed(q, d.body, n))
    BY <1>2 DEF FromServerData
  <2>3. d \in Message /\ d.body \in Seq(Unit)
    <3>1. sc # <<>> /\ sc \in Seq(Message)
      BY ClientFacts DEF FromServerData, ClientReceives
    <3>2. d \in Message
      BY <3>1
    <3> QED
      BY <3>2 DEF Message
  <2>4. q \in Queue
    BY <2>1, ClientFacts DEF IsMap
  <2>5. n \in Int
    <3>1. ToSend(q, d.body) \in Seq(Unit)
      BY <2>3, <2>4 DEF ToSend, Queue
    <3> QED
      BY <3>1, SendResultsType
  <2>6. d.c \in c_for_close => Relayed(q, d.body, n) # <<>>
    BY <2>3, <2>4, <2>5, QueueStays DEF FlushOK
  <2> QED
    BY <2>1, <2>2, <2>6, FlushPut
<1> QED
  BY <1>1, <1>2 DEF FromServerData

LEMMA ClientStepFlush ==
    ASSUME ~Recycle, TypeInv, SessionInv, FlushOK(c_fds, c_for_close, c_storage), ClientStep
    PROVE  FlushOK(c_fds, c_for_close, c_storage)'
<1>1. CASE AcceptFails \/ ClientPollNval \/ ClientHupOnEmptySlot \/ FromServerNewConnect
  BY <1>1 DEF AcceptFails, ClientPollNval, ClientFatal, ClientHupOnEmptySlot, FromServerNewConnect, cvars
<1>2. ASSUME NEW k \in Sessions, Accept(k)
      PROVE  FlushOK(c_fds, c_for_close, c_storage)'
  <2>1. PICK c \in Fd : /\ GiveOut(c, Client(k)) /\ c_storage' = Put(c_storage, c, <<>>)
                        /\ c_fds' = c_fds \cup {c} /\ UNCHANGED c_for_close
    BY <1>2 DEF Accept
  <2>2. c \notin DOMAIN owner
    BY <2>1 DEF GiveOut, IsNextFd, Taken
  <2>3. DOMAIN c_storage \subseteq DOMAIN owner
    BY DEF SessionInv, ClientStorageOK, IsClientFd
  <2>4. c \notin c_for_close
    BY <2>2, <2>3 DEF FlushOK
  <2>5. FlushOK(c_fds', c_for_close, c_storage)
    BY <2>1, FlushMoves
  <2> QED
    BY <2>1, <2>4, <2>5, FlushPut
<1>3. CASE FromServerData
  BY <1>3, FromServerDataFlush
<1>4. CASE FromServerNotConnect \/ FromServerDisconnect
  BY <1>4, ClientCloseFlush DEF FromServerNotConnect, FromServerDisconnect
<1>5. CASE \E c \in Fd : ClientHup(c)
  BY <1>5, ClientCloseForceFlush DEF ClientHup
<1>6. ASSUME NEW c \in Fd, NEW out \in BOOLEAN, NEW in \in BOOLEAN, FromClients(c, out, in)
      PROVE  FlushOK(c_fds, c_for_close, c_storage)'
  <2>1. CASE ClientCloseConnectForce(c)
    BY <2>1, ClientCloseForceFlush
  <2>2. CASE ~ClientCloseConnectForce(c)
    <3>1. PICK n : /\ ~out => n = 0
                   /\ ~(out /\ c \in c_for_close /\ Flushed(c_storage[c], n) = <<>>)
                   /\ c_storage' = Put(c_storage, c, Flushed(c_storage[c], n))
                   /\ UNCHANGED <<c_fds, c_for_close>>
      BY <1>6, <2>2 DEF FromClients, ClientRead
    <3>2. c \in c_fds
      BY <1>6 DEF FromClients
    <3>3. c \in c_for_close => Flushed(c_storage[c], n) # <<>>
      <4> SUFFICES ASSUME c \in c_for_close, ~out PROVE Flushed(c_storage[c], n) # <<>>
        BY <3>1
      <4>1. n = 0 /\ c_storage[c] # <<>>
        BY <3>1 DEF FlushOK
      <4> QED
        BY <4>1 DEF Flushed
    <3> QED
      BY <3>1, <3>2, <3>3, FlushPut
  <2> QED
    BY <2>1, <2>2
<1> QED
  BY <1>1, <1>2, <1>3, <1>4, <1>5, <1>6 DEF ClientStep, ClientHandlesMessage, ClientServes

\* The server sockets that may be flushed.
ServerFlushOK == FlushOK(s_fds \ s_con_wait, s_for_close, s_storage)

LEMMA ServerCloseForceFlush ==
    ASSUME ServerFlushOK, NEW d, ServerCloseConnectForce(d)
    PROVE  ServerFlushOK'
<1>1. s_fds' \ s_con_wait' = (s_fds \ s_con_wait) \ {d}
  BY DEF ServerCloseConnectForce
<1> QED
  BY <1>1, FlushErase DEF ServerCloseConnectForce, ServerFlushOK

LEMMA ServerCloseFlush ==
    ASSUME ServerFlushOK, NEW d, ServerCloseConnect(d)
    PROVE  ServerFlushOK'
<1>1. CASE ServerUnsent(d)
  <2>1. FlushOK(s_fds \ s_con_wait, s_for_close \cup {d}, s_storage)
    BY <1>1, FlushListed DEF ServerUnsent, ServerFlushOK
  <2>2. /\ s_for_close' = s_for_close \cup {d} /\ s_con_wait' = s_con_wait \ {d}
        /\ UNCHANGED <<s_fds, s_storage>>
    BY <1>1 DEF ServerCloseConnect
  <2>3. FlushOK(s_fds \ (s_con_wait \ {d}), s_for_close \cup {d}, s_storage)
    BY <2>1, FlushMoves
  <2> QED
    BY <2>2, <2>3 DEF ServerFlushOK
<1>2. CASE ~ServerUnsent(d)
  BY <1>2, ServerCloseForceFlush DEF ServerCloseConnect
<1> QED
  BY <1>1, <1>2

\* A server socket that stays, with the queue q.
LEMMA ServerQueueFlush ==
    ASSUME ServerFlushOK, NEW s \in s_fds, NEW q, s \in s_for_close => q # <<>>,
           s_storage' = Put(s_storage, s, q), s_con_wait' = s_con_wait \ {s},
           UNCHANGED <<s_fds, s_for_close>>
    PROVE  ServerFlushOK'
<1>1. FlushOK(s_fds \ (s_con_wait \ {s}), s_for_close, s_storage)
  BY FlushMoves DEF ServerFlushOK
<1>2. FlushOK(s_fds \ (s_con_wait \ {s}), s_for_close, Put(s_storage, s, q))
  BY <1>1, FlushPut
<1> QED
  BY <1>2 DEF ServerFlushOK

LEMMA ServerReadFlush ==
    ASSUME ServerFlushOK, NEW s \in s_fds, NEW db, NEW q, NEW log, NEW forClose,
           s \in s_for_close => q # <<>>, ServerRead(s, db, q, log, forClose)
    PROVE  ServerFlushOK'
BY ServerCloseForceFlush, ServerQueueFlush DEF ServerRead

LEMMA FromClientDataFlush ==
    ASSUME TypeInv, FlushInv, FromClientData
    PROVE  ServerFlushOK'
<1>1. CASE UNCHANGED s_storage
  BY <1>1 DEF FromClientData, FlushInv, ServerFlushOK
<1>2. CASE Head(cs).s \in s_fds /\ ~UNCHANGED s_storage
  <2> PICK d : d = Head(cs)
    OBVIOUS
  <2> PICK q : q = s_storage[d.s]
    OBVIOUS
  <2>1. d.s \in s_fds /\ UNCHANGED <<s_fds, s_for_close, s_con_wait>>
    BY <1>2 DEF FromClientData
  <2>2. PICK n \in SendResults(d.s, ToSend(q, d.body)) : s_storage' = Put(s_storage, d.s, Relayed(q, d.body, n))
    BY <1>2 DEF FromClientData
  <2>3. d \in Message /\ d.body \in Seq(Unit) /\ d.s \in Heard
    <3>1. cs # <<>> /\ cs \in Seq(ClientMessage)
      BY ServerFacts DEF FromClientData, ServerReceives
    <3>2. d \in ClientMessage /\ cs[1] = d /\ 1 \in 1 .. Len(cs)
      BY <3>1
    <3>3. d \in Message
      BY <3>2 DEF ClientMessage
    <3> QED
      BY <3>2, <3>3 DEF Message, Heard, NamesIn
  <2>4. q \in Queue
    BY <2>1, ServerFacts DEF IsMap
  <2>5. n \in Int
    <3>1. ToSend(q, d.body) \in Seq(Unit)
      BY <2>3, <2>4 DEF ToSend, Queue
    <3> QED
      BY <3>1, SendResultsType
  <2>6. d.s \in s_for_close => Relayed(q, d.body, n) # <<>>
    BY <2>3, <2>4, <2>5, QueueStays DEF FlushInv, FlushOK
  <2>7. d.s \in s_fds \ s_con_wait
    BY <2>1, <2>3 DEF FlushInv
  <2>8. FlushOK(s_fds \ s_con_wait, s_for_close, Put(s_storage, d.s, Relayed(q, d.body, n)))
    BY <2>6, <2>7, FlushPut DEF FlushInv
  <2> QED
    BY <2>1, <2>2, <2>8 DEF ServerFlushOK
<1> QED
  BY <1>1, <1>2 DEF FromClientData

LEMMA ConnectingFlush ==
    ASSUME ~Recycle, SessionInv, ServerFlushOK, FromClientNewConnect
    PROVE  ServerFlushOK'
<1>1. CASE UNCHANGED <<s_con_wait, s_fds, s_storage>>
  BY <1>1 DEF FromClientNewConnect, ServerFlushOK
<1>2. CASE ~UNCHANGED <<s_con_wait, s_fds, s_storage>>
  <2>1. PICK s \in Fd : /\ \E far : Connecting(s, Head(cs), far)
                        /\ s_con_wait' = s_con_wait \cup {s} \/ UNCHANGED s_con_wait
                        /\ UNCHANGED s_for_close
    BY <1>2 DEF FromClientNewConnect
  <2>2. s \notin DOMAIN owner /\ s_storage' = Put(s_storage, s, <<>>) /\ s_fds' = s_fds \cup {s}
    BY <2>1 DEF Connecting, GiveOut, IsNextFd, Taken
  <2>3. s \notin DOMAIN s_storage
    BY <2>2 DEF SessionInv, ServerStorageOK, IsServerFd
  <2>4. s \notin s_for_close
    BY <2>3 DEF ServerFlushOK, FlushOK
  <2>5. FlushOK(s_fds' \ s_con_wait', s_for_close, s_storage)
    BY <2>1, <2>2, <2>3, FlushMoves DEF ServerFlushOK
  <2>6. FlushOK(s_fds' \ s_con_wait', s_for_close, Put(s_storage, s, <<>>))
    BY <2>4, <2>5, FlushPut
  <2> QED
    BY <2>1, <2>2, <2>6 DEF ServerFlushOK
<1> QED
  BY <1>1, <1>2

LEMMA ServerStepFlush ==
    ASSUME ~Recycle, TypeInv, SessionInv, FlushInv, ServerStep
    PROVE  ServerFlushOK'
<1>0. ServerFlushOK
  BY DEF FlushInv, ServerFlushOK
<1>1. CASE SocketFails \/ ServerPollNval \/ ServerHupOnEmptySlot
  BY <1>0, <1>1 DEF SocketFails, ServerPollNval, ServerFatal, ServerHupOnEmptySlot, svars, ServerFlushOK
<1>2. CASE FromClientNewConnect
  BY <1>0, <1>2, ConnectingFlush
<1>3. CASE FromClientData
  BY <1>3, FromClientDataFlush
<1>4. CASE FromClientConnectNotFound \/ FromClientDisconnect
  BY <1>0, <1>4, ServerCloseFlush DEF FromClientConnectNotFound, FromClientDisconnect
<1>5. CASE \E s \in Fd : ServerHup(s)
  BY <1>0, <1>5, ServerCloseForceFlush DEF ServerHup
<1>6. ASSUME NEW s \in Fd, ConnectTimeout(s)
      PROVE  ServerFlushOK'
  <2>1. s_fds' \ s_con_wait' = s_fds \ s_con_wait
    BY <1>6 DEF ConnectTimeout
  <2> QED
    BY <1>0, <1>6, <2>1 DEF ConnectTimeout, ServerFlushOK
<1>7. ASSUME NEW s \in Fd, NEW in \in BOOLEAN, ConnectFinished(s, in)
      PROVE  ServerFlushOK'
  <2>1. s \in s_fds /\ s \in s_con_wait
    BY <1>7 DEF ConnectFinished
  <2>2. s \notin s_for_close
    BY <2>1 DEF FlushInv, FlushOK
  <2>3. CASE ServerCloseConnectForce(s)
    BY <1>0, <2>3, ServerCloseForceFlush
  <2>4. CASE \E db, log : ServerRead(s, db, s_storage[s], log, FALSE)
    BY <1>0, <2>1, <2>2, <2>4, ServerReadFlush
  <2>5. CASE s_con_wait' = s_con_wait \ {s} /\ UNCHANGED <<s_fds, s_for_close, s_storage>>
    <3>1. FlushOK(s_fds \ (s_con_wait \ {s}), s_for_close, s_storage)
      BY <1>0, FlushMoves DEF ServerFlushOK
    <3> QED
      BY <2>5, <3>1 DEF ServerFlushOK
  <2> QED
    BY <1>7, <2>3, <2>4, <2>5 DEF ConnectFinished
<1>8. ASSUME NEW s \in Fd, NEW out \in BOOLEAN, NEW in \in BOOLEAN, FromServer(s, out, in)
      PROVE  ServerFlushOK'
  <2>1. s \in s_fds \ s_con_wait
    BY <1>8 DEF FromServer
  <2>2. PICK n : /\ ~out => n = 0
                 /\ \/ ServerCloseConnectForce(s)
                    \/ /\ ~(out /\ s \in s_for_close /\ Flushed(s_storage[s], n) = <<>>)
                       /\ \/ ServerRead(s, s_db, Flushed(s_storage[s], n), sc, out /\ s \in s_for_close)
                          \/ /\ s_storage' = Put(s_storage, s, Flushed(s_storage[s], n))
                             /\ UNCHANGED <<s_con_wait, s_fds, s_for_close>>
    BY <1>8 DEF FromServer
  <2>3. CASE ServerCloseConnectForce(s)
    BY <1>0, <2>3, ServerCloseForceFlush
  <2>4. CASE ~ServerCloseConnectForce(s)
    <3>1. s \in s_for_close => Flushed(s_storage[s], n) # <<>>
      <4> SUFFICES ASSUME s \in s_for_close, ~out PROVE Flushed(s_storage[s], n) # <<>>
        BY <2>2, <2>4
      <4>1. n = 0 /\ s_storage[s] # <<>>
        BY <2>2 DEF FlushInv, FlushOK
      <4> QED
        BY <4>1 DEF Flushed
    <3>2. s_con_wait = s_con_wait \ {s}
      BY <2>1
    <3>3. CASE ServerRead(s, s_db, Flushed(s_storage[s], n), sc, out /\ s \in s_for_close)
      BY <1>0, <2>1, <3>1, <3>3, ServerReadFlush
    <3>4. CASE /\ s_storage' = Put(s_storage, s, Flushed(s_storage[s], n))
               /\ UNCHANGED <<s_con_wait, s_fds, s_for_close>>
      BY <1>0, <2>1, <3>1, <3>2, <3>4, ServerQueueFlush
    <3> QED
      BY <2>2, <2>4, <3>3, <3>4
  <2> QED
    BY <2>3, <2>4
<1> QED
  BY <1>1, <1>2, <1>3, <1>4, <1>5, <1>6, <1>7, <1>8 DEF ServerStep, ServerHandlesMessage, ServerServes

-----------------------------------------------------------------------------
(* Who has heard of a server socket                                        *)

LEMMA NamesMove ==
    ASSUME NEW pipe \in Seq(Message)
    PROVE  /\ pipe # <<>> => NamesIn(Tail(pipe)) \subseteq NamesIn(pipe) /\ Head(pipe).s \in NamesIn(pipe)
           /\ \A m : NamesIn(Append(pipe, m)) \subseteq NamesIn(pipe) \cup {m.s}
<1>1. ASSUME pipe # <<>>
      PROVE  NamesIn(Tail(pipe)) \subseteq NamesIn(pipe) /\ Head(pipe).s \in NamesIn(pipe)
  <2>1. /\ Len(Tail(pipe)) = Len(pipe) - 1 /\ Len(pipe) \in Nat /\ Len(pipe) # 0
        /\ \A i \in 1 .. Len(Tail(pipe)) : Tail(pipe)[i] = pipe[i + 1]
        /\ Head(pipe) = pipe[1]
    BY <1>1
  <2>2. \A i \in 1 .. Len(Tail(pipe)) : i + 1 \in 1 .. Len(pipe)
    BY <2>1
  <2> QED
    BY <2>1, <2>2 DEF NamesIn
<1>2. ASSUME NEW m
      PROVE  NamesIn(Append(pipe, m)) \subseteq NamesIn(pipe) \cup {m.s}
  <2>1. /\ Len(Append(pipe, m)) = Len(pipe) + 1 /\ Append(pipe, m)[Len(pipe) + 1] = m
        /\ \A i \in 1 .. Len(pipe) : Append(pipe, m)[i] = pipe[i]
        /\ Len(pipe) \in Nat
    OBVIOUS
  <2> QED
    BY <2>1 DEF NamesIn
<1> QED
  BY <1>1, <1>2

LEMMA PipesAreMessages ==
    ASSUME TypeInv
    PROVE  cs \in Seq(Message) /\ sc \in Seq(Message)
<1>1. ClientMessage \subseteq Message
  BY DEF ClientMessage
<1> QED
  BY <1>1, SeqMonotone DEF TypeInv, TypeOK, SharedTypeOK

LEMMA MsgNames ==
    /\ \A tod, c, s : Msg(tod, c, s).s = s /\ Msg(tod, c, s).c = c /\ Msg(tod, c, s).tod = tod
    /\ \A c, s, body : DataMsg(c, s, body).s = s /\ DataMsg(c, s, body).c = c /\ DataMsg(c, s, body).tod = "data"
    /\ \A c, k : ConnectMsg(c, k).s = -1 /\ ConnectMsg(c, k).c = c /\ ConnectMsg(c, k).tod = "new_connect"
                 /\ ConnectMsg(c, k).who = k
BY DEF Msg, DataMsg, ConnectMsg

\* What the client thread names in a step was named before, or is no socket.
KnownNames == Heard \cup {0, -1}

LEMMA ClientHearing ==
    ASSUME TypeInv,
           UNCHANGED cs \/ \E m : m.s \in KnownNames /\ cs' = Append(cs, m),
           UNCHANGED sc \/ (sc # <<>> /\ sc' = Tail(sc)),
           \A c \in DOMAIN c_db' : c_db'[c] \in KnownNames
    PROVE  Heard' \subseteq KnownNames
<1>1. NamesIn(cs') \subseteq KnownNames
  <2>1. NamesIn(cs) \subseteq KnownNames /\ \A m : NamesIn(Append(cs, m)) \subseteq NamesIn(cs) \cup {m.s}
    BY PipesAreMessages, NamesMove DEF KnownNames, Heard
  <2> QED
    BY <2>1
<1>2. NamesIn(sc') \subseteq KnownNames
  BY PipesAreMessages, NamesMove DEF KnownNames, Heard
<1> QED
  BY <1>1, <1>2 DEF Heard

LEMMA ClientStepHearing ==
    ASSUME TypeInv, ClientStep
    PROVE  Heard' \subseteq KnownNames
<1>1. /\ \A c \in DOMAIN c_db : c_db[c] \in KnownNames
      /\ \A c : At(c_db, c) \in KnownNames
      /\ sc # <<>> => Head(sc).s \in KnownNames
      /\ -1 \in KnownNames
  BY PipesAreMessages, NamesMove DEF Heard, KnownNames, At
<1>2. /\ \A d : \A c \in DOMAIN Erase(c_db, d) : Erase(c_db, d)[c] \in KnownNames
      /\ \A d : \A c \in DOMAIN Touch(c_db, d) : Touch(c_db, d)[c] \in KnownNames
      /\ \A d : \A v \in KnownNames : \A c \in DOMAIN Put(c_db, d, v) : Put(c_db, d, v)[c] \in KnownNames
  BY <1>1 DEF Erase, Touch, Put, KnownNames
<1>3. CASE AcceptFails \/ ClientPollNval
  BY <1>1, <1>3, ClientHearing DEF AcceptFails, ClientPollNval, ClientFatal, cvars
<1>4. CASE \E k \in Sessions : Accept(k)
  <2>1. PICK c, k : cs' = Append(cs, ConnectMsg(c, k)) /\ c_db' = Put(c_db, c, -1) /\ UNCHANGED sc
    BY <1>4 DEF Accept
  <2> QED
    BY <1>1, <1>2, <2>1, MsgNames, ClientHearing
<1>5. CASE FromServerNewConnect
  <2>1. sc # <<>> /\ sc' = Tail(sc)
    BY <1>5 DEF FromServerNewConnect, ClientReceives
  <2>2. \/ UNCHANGED cs /\ \E c, s : s = Head(sc).s /\ c_db' = Put(c_db, c, s)
        \/ UNCHANGED c_db /\ \E c, s : s = Head(sc).s /\ cs' = Append(cs, Msg("connect_not_found", c, s))
    BY <1>5 DEF FromServerNewConnect
  <2> QED
    BY <1>1, <1>2, <2>1, <2>2, MsgNames, ClientHearing
<1>6. CASE FromServerData
  <2>1. sc # <<>> /\ sc' = Tail(sc) /\ UNCHANGED c_db
    BY <1>6 DEF FromServerData, ClientReceives
  <2>2. UNCHANGED cs \/ \E c, s : s = Head(sc).s /\ cs' = Append(cs, Msg("connect_not_found", c, s))
    BY <1>6 DEF FromServerData
  <2> QED
    BY <1>1, <2>1, <2>2, MsgNames, ClientHearing
<1>7. CASE FromServerNotConnect \/ FromServerDisconnect
  <2>1. /\ sc # <<>> /\ sc' = Tail(sc) /\ UNCHANGED cs
        /\ \E d : c_db' = Erase(c_db, d)
    BY <1>7 DEF FromServerNotConnect, FromServerDisconnect, ClientReceives, ClientCloseConnect,
           ClientCloseConnectForce
  <2> QED
    BY <1>2, <2>1, ClientHearing
<1>8. ASSUME NEW c \in Fd, ClientHup(c)
      PROVE  Heard' \subseteq KnownNames
  <2>1. /\ cs' = Append(cs, Msg("disconnect", c, At(c_db, c))) /\ UNCHANGED sc
        /\ c_db' = Erase(c_db, c)
    BY <1>8 DEF ClientHup, ClientCloseConnectForce
  <2> QED
    BY <1>1, <1>2, <2>1, MsgNames, ClientHearing
<1>9. ASSUME NEW c \in Fd, NEW out \in BOOLEAN, NEW in \in BOOLEAN, FromClients(c, out, in)
      PROVE  Heard' \subseteq KnownNames
  <2>1. /\ UNCHANGED sc
        /\ \/ UNCHANGED cs
           \/ cs' = Append(cs, Msg("disconnect", c, At(c_db, c)))
           \/ \E body : cs' = Append(cs, DataMsg(c, At(c_db, c), body))
        /\ c_db' = Erase(c_db, c) \/ c_db' = Touch(c_db, c) \/ UNCHANGED c_db
    BY <1>9 DEF FromClients, ClientRead, ClientCloseConnectForce
  <2> QED
    BY <1>1, <1>2, <2>1, MsgNames, ClientHearing
<1>10. CASE ClientHupOnEmptySlot
  BY <1>1, <1>10, MsgNames, ClientHearing DEF ClientHupOnEmptySlot
<1> QED
  BY <1>3, <1>4, <1>5, <1>6, <1>7, <1>8, <1>9, <1>10 DEF ClientStep, ClientHandlesMessage, ClientServes

\* What the server thread names in a step is no connect() that goes on.
LEMMA ServerHearing ==
    ASSUME TypeInv, FlushInv, NEW s,
           s_con_wait' \subseteq s_con_wait \ {s},
           UNCHANGED c_db,
           UNCHANGED cs \/ (cs # <<>> /\ cs' = Tail(cs)),
           \/ UNCHANGED sc
           \/ \E m : m.s \in {s, -1} /\ sc' = Append(sc, m)
           \/ \E m, n : /\ m.s \in {s, -1} /\ n.s \in {s, -1}
                        /\ Append(sc, m) \in Seq(Message) /\ sc' = Append(Append(sc, m), n)
    PROVE  s_con_wait' \cap Heard' = {}
<1>1. NamesIn(cs') \subseteq NamesIn(cs)
  <2>1. cs # <<>> => NamesIn(Tail(cs)) \subseteq NamesIn(cs)
    BY PipesAreMessages, NamesMove
  <2> QED
    BY <2>1
<1>2. NamesIn(sc') \subseteq NamesIn(sc) \cup {s, -1}
  <2>1. \A m : NamesIn(Append(sc, m)) \subseteq NamesIn(sc) \cup {m.s}
    BY PipesAreMessages, NamesMove
  <2>2. \A m, n : Append(sc, m) \in Seq(Message) =>
                    NamesIn(Append(Append(sc, m), n)) \subseteq NamesIn(Append(sc, m)) \cup {n.s}
    BY NamesMove
  <2> QED
    BY <2>1, <2>2
<1>3. -1 \notin s_con_wait
  BY ServerFacts, ProxyAssumption
<1> QED
  BY <1>1, <1>2, <1>3 DEF Heard, FlushInv

LEMMA ConnectingHearing ==
    ASSUME ~Recycle, TypeInv, SessionInv, KnownInv, FlushInv, FromClientNewConnect, UNCHANGED c_db
    PROVE  s_con_wait' \cap Heard' = {}
<1>1. cs # <<>> /\ cs' = Tail(cs)
  BY DEF FromClientNewConnect, ServerReceives
<1>2. CASE ~UNCHANGED sc
  <2>1. /\ UNCHANGED s_con_wait
        /\ \/ \E s : s \notin DOMAIN owner /\ \E c : sc' = Append(sc, Msg("new_connect", c, s))
           \/ \E c : sc' = Append(sc, Msg("not_connect", c, -1))
    BY <1>2 DEF FromClientNewConnect, Connecting, GiveOut, IsNextFd, Taken
  <2>2. s_con_wait \subseteq DOMAIN owner /\ -1 \notin DOMAIN owner
    BY SessionFacts DEF KnownInv, WaitersHaveClient, IsServerFd
  <2>3. PICK s : s \notin DOMAIN owner /\ \E m : m.s \in {s, -1} /\ sc' = Append(sc, m)
    BY <2>1, <2>2, MsgNames
  <2>4. s_con_wait' \subseteq s_con_wait \ {s}
    BY <2>1, <2>2, <2>3
  <2> QED
    BY <1>1, <2>3, <2>4, ServerHearing
<1>3. CASE UNCHANGED sc
  <2>1. PICK s : s_con_wait' = s_con_wait \cup {s} /\ s \in Fd /\ s \notin DOMAIN owner
    BY <1>3 DEF FromClientNewConnect, Connecting, GiveOut, IsNextFd, Taken
  <2>2. Heard' \subseteq Heard
    <3>1. NamesIn(cs') \subseteq NamesIn(cs)
      BY <1>1, PipesAreMessages, NamesMove
    <3> QED
      BY <1>3, <3>1 DEF Heard
  <2>3. s \notin Heard
    <3>1. RefServer(s) => FALSE
      BY <2>1, ProxyAssumption DEF RefServer
    <3>2. \A i \in 1 .. Len(cs) : RefServer(cs[i].s)
      BY DEF SessionInv, GoodToServer, Reference
    <3>3. \A i \in 1 .. Len(sc) : RefServer(sc[i].s)
      BY DEF SessionInv, GoodToClient, Reference
    <3>4. \A c \in DOMAIN c_db : RefServer(c_db[c])
      BY DEF SessionInv, ClientDbOK, Reference
    <3> QED
      BY <3>1, <3>2, <3>3, <3>4 DEF Heard, NamesIn
  <2> QED
    BY <2>1, <2>2, <2>3 DEF FlushInv
<1> QED
  BY <1>2, <1>3 DEF FromClientNewConnect

LEMMA ServerStepHearing ==
    ASSUME ~Recycle, TypeInv, TypeInv', SessionInv, KnownInv, FlushInv, ServerStep, UNCHANGED cvars
    PROVE  s_con_wait' \cap Heard' = {}
<1>0. UNCHANGED c_db /\ -1 \notin s_con_wait
  BY ServerFacts, ProxyAssumption DEF cvars
<1>1. CASE SocketFails \/ ServerPollNval
  BY <1>0, <1>1, ServerHearing DEF SocketFails, ServerPollNval, ServerFatal, svars
<1>2. CASE FromClientNewConnect
  BY <1>0, <1>2, ConnectingHearing
<1>3. CASE FromClientData
  <2>1. s_con_wait' \subseteq s_con_wait \ {-1} /\ UNCHANGED sc /\ cs # <<>> /\ cs' = Tail(cs)
    BY <1>0, <1>3 DEF FromClientData, ServerReceives
  <2> QED
    BY <1>0, <2>1, ServerHearing
<1>4. CASE FromClientConnectNotFound \/ FromClientDisconnect
  <2>1. /\ cs # <<>> /\ cs' = Tail(cs) /\ UNCHANGED sc
        /\ \E d : s_con_wait' = s_con_wait \ {d}
    BY <1>4 DEF FromClientConnectNotFound, FromClientDisconnect, ServerReceives, ServerCloseConnect,
           ServerCloseConnectForce
  <2> QED
    BY <1>0, <2>1, ServerHearing
<1>5. ASSUME NEW s \in Fd, ServerHup(s)
      PROVE  s_con_wait' \cap Heard' = {}
  <2>1. s_con_wait' = s_con_wait \ {s} /\ UNCHANGED cs /\ \E c : sc' = Append(sc, Msg("disconnect", c, s))
    BY <1>5 DEF ServerHup, ServerCloseConnectForce
  <2> QED
    BY <1>0, <2>1, MsgNames, ServerHearing
<1>6. ASSUME NEW s \in Fd, ConnectTimeout(s)
      PROVE  s_con_wait' \cap Heard' = {}
  <2>1. s_con_wait' = s_con_wait \ {s} /\ UNCHANGED cs /\ \E c : sc' = Append(sc, Msg("not_connect", c, -1))
    BY <1>6 DEF ConnectTimeout
  <2>2. \E m : m.s \in {s, -1} /\ sc' = Append(sc, m)
    BY <2>1, MsgNames
  <2>3. s_con_wait' \subseteq s_con_wait \ {s}
    BY <2>1
  <2> QED
    BY <1>0, <2>1, <2>2, <2>3, ServerHearing
<1>7. CASE ServerHupOnEmptySlot
  <2>1. UNCHANGED s_con_wait /\ UNCHANGED cs /\ \E c : sc' = Append(sc, Msg("disconnect", c, -1))
    BY <1>7 DEF ServerHupOnEmptySlot
  <2> PICK s : s \notin s_con_wait
    BY <1>0
  <2>2. \E m : m.s \in {s, -1} /\ sc' = Append(sc, m)
    BY <2>1, MsgNames
  <2>3. s_con_wait' \subseteq s_con_wait \ {s}
    BY <1>0, <2>1
  <2>4. UNCHANGED cs /\ UNCHANGED c_db
    BY <1>0, <2>1
  <2> QED
    BY <2>2, <2>3, <2>4, ServerHearing
<1>8. ASSUME NEW s \in Fd, NEW in \in BOOLEAN, ConnectFinished(s, in)
      PROVE  s_con_wait' \cap Heard' = {}
  <2>1. s_con_wait' = s_con_wait \ {s} /\ UNCHANGED cs
    BY <1>8 DEF ConnectFinished, ServerRead, ServerCloseConnectForce
  <2>2. PICK log : /\ log = Append(sc, Msg("new_connect", At(s_db, s), s))
                   /\ \/ sc' = Append(sc, Msg("not_connect", At(s_db, s), -1))
                      \/ sc' = log
                      \/ \E c : sc' = Append(log, Msg("disconnect", c, s))
                      \/ \E c, body : sc' = Append(log, DataMsg(c, s, body))
    BY <1>8 DEF ConnectFinished, ServerRead
  <2>3. log \in Seq(Message)
    <3>1. s \in s_fds
      BY <1>8 DEF ConnectFinished
    <3>2. IsServerFd(s)
      BY <3>1, SessionFacts
    <3>3. At(s_db, s) \in FdOrNone /\ s \in FdOrNone
      BY <3>2, ServerFacts, FdFacts, AtInRange
    <3>4. Msg("new_connect", At(s_db, s), s) \in Message
      BY <3>3, MsgType DEF Tod
    <3> QED
      BY <2>2, <3>4, PipesAreMessages
  <2>4. \/ \E m : m.s \in {s, -1} /\ sc' = Append(sc, m)
        \/ \E m, n : /\ m.s \in {s, -1} /\ n.s \in {s, -1}
                     /\ Append(sc, m) \in Seq(Message) /\ sc' = Append(Append(sc, m), n)
    BY <2>2, <2>3, MsgNames
  <2> QED
    BY <1>0, <2>1, <2>4, ServerHearing
<1>9. ASSUME NEW s \in Fd, NEW out \in BOOLEAN, NEW in \in BOOLEAN, FromServer(s, out, in)
      PROVE  s_con_wait' \cap Heard' = {}
  <2>1. s \notin s_con_wait /\ UNCHANGED cs
    BY <1>9 DEF FromServer
  <2>2. s_con_wait' \subseteq s_con_wait \ {s}
    BY <1>9, <2>1 DEF FromServer, ServerRead, ServerCloseConnectForce
  <2>3. \/ UNCHANGED sc
        \/ \E c : sc' = Append(sc, Msg("disconnect", c, s))
        \/ \E c, body : sc' = Append(sc, DataMsg(c, s, body))
    BY <1>9 DEF FromServer, ServerRead
  <2>4. UNCHANGED sc \/ \E m : m.s \in {s, -1} /\ sc' = Append(sc, m)
    BY <2>3, MsgNames
  <2> QED
    BY <1>0, <2>1, <2>2, <2>4, ServerHearing
<1> QED
  BY <1>1, <1>2, <1>3, <1>4, <1>5, <1>6, <1>7, <1>8, <1>9 DEF ServerStep, ServerHandlesMessage, ServerServes

LEMMA NextFlushInv ==
    ~Recycle => (TypeInv /\ TypeInv' /\ SessionInv /\ KnownInv /\ FlushInv /\ [Next]_vars => FlushInv')
<1> SUFFICES ASSUME ~Recycle, TypeInv, TypeInv', SessionInv, KnownInv, FlushInv, [Next]_vars
             PROVE  FlushInv'
  OBVIOUS
<1>0. FlushOK(c_fds, c_for_close, c_storage) /\ ServerFlushOK
  BY DEF FlushInv, ServerFlushOK
<1>1. CASE ClientStep /\ UNCHANGED svars
  <2>1. FlushOK(c_fds, c_for_close, c_storage)'
    BY <1>0, <1>1, ClientStepFlush
  <2>2. Heard' \subseteq KnownNames
    BY <1>1, ClientStepHearing
  <2>3. 0 \notin s_con_wait /\ -1 \notin s_con_wait
    BY SessionFacts DEF KnownInv, WaitersHaveClient
  <2>4. UNCHANGED <<s_fds, s_con_wait, s_for_close, s_storage>>
    BY <1>1 DEF svars
  <2>5. (s_con_wait \cap Heard = {})'
    BY <2>2, <2>3, <2>4 DEF KnownNames, FlushInv
  <2> QED
    BY <1>0, <2>1, <2>4, <2>5 DEF FlushInv, ServerFlushOK
<1>2. CASE ServerStep /\ UNCHANGED cvars
  <2>1. ServerFlushOK'
    BY <1>2, ServerStepFlush
  <2>2. (s_con_wait \cap Heard = {})'
    BY <1>2, ServerStepHearing
  <2>3. UNCHANGED <<c_fds, c_for_close, c_storage>>
    BY <1>2 DEF cvars
  <2> QED
    BY <1>0, <2>1, <2>2, <2>3 DEF FlushInv, ServerFlushOK
<1>3. CASE UNCHANGED <<cs, sc, cvars, svars>>
  BY <1>3 DEF FlushInv, Heard, cvars, svars
<1>4. CASE NetStep /\ UNCHANGED <<cvars, svars>>
  <2>1. UNCHANGED <<cs, sc>>
    BY <1>4 DEF NetStep, Connect, PeerStep, ConnectAnswered, PeerSends, PeerShutsDown, PeerResets
  <2> QED
    BY <1>3, <1>4, <2>1
<1> QED
  BY <1>1, <1>2, <1>3, <1>4 DEF Next, vars, sharedvars

LEMMA FlushInvariant == ~Recycle => (Spec => []FlushInv)
<1> SUFFICES ASSUME ~Recycle PROVE Spec => []FlushInv
  OBVIOUS
<1>1. Init => FlushInv
  BY DEF Init, SharedInit, ClientInit, ServerInit, FlushInv, FlushOK, Heard, NamesIn
<1>2. TypeInv /\ TypeInv' /\ SessionInv /\ KnownInv /\ FlushInv /\ [Next]_vars => FlushInv'
  BY NextFlushInv
<1> QED
  BY <1>1, <1>2, TypeInvariant, SessionInvariant, KnownInvariant, PTL DEF Spec

\* If no descriptor number is used twice, a socket on the flush list is polled and has unsent
\* data: the handler that drains it will find it there, and the socket is not kept for nothing.
THEOREM FlushListAlwaysHasData == ~Recycle => (Spec => []FlushListHasData)
<1> SUFFICES ASSUME ~Recycle PROVE Spec => []FlushListHasData
  OBVIOUS
<1>1. FlushInv => FlushListHasData
  BY DEF FlushInv, FlushOK, FlushListHasData, ClientUnsent, ServerUnsent
<1> QED
  BY <1>1, FlushInvariant, PTL

-----------------------------------------------------------------------------
(* Both halves of a session                                                *)

LEMMA CarriedMoves ==
    ASSUME NEW M, NEW pipe \in Seq(M)
    PROVE  /\ \A m : Carried(Append(pipe, m)) = Carried(pipe) \cup {m}
           /\ pipe # <<>> => Carried(pipe) = Carried(Tail(pipe)) \cup {Head(pipe)}
<1>1. ASSUME NEW m
      PROVE  Carried(Append(pipe, m)) = Carried(pipe) \cup {m}
  <2>1. /\ Len(Append(pipe, m)) = Len(pipe) + 1 /\ Append(pipe, m)[Len(pipe) + 1] = m
        /\ \A i \in 1 .. Len(pipe) : Append(pipe, m)[i] = pipe[i]
        /\ Len(pipe) \in Nat
    OBVIOUS
  <2>2. 1 .. Len(pipe) + 1 = 1 .. Len(pipe) \cup {Len(pipe) + 1}
    BY <2>1
  <2> QED
    BY <2>1, <2>2 DEF Carried
<1>2. ASSUME pipe # <<>>
      PROVE  Carried(pipe) = Carried(Tail(pipe)) \cup {Head(pipe)}
  <2>1. /\ Len(Tail(pipe)) = Len(pipe) - 1 /\ Len(pipe) \in Nat /\ Len(pipe) # 0
        /\ \A i \in 1 .. Len(Tail(pipe)) : Tail(pipe)[i] = pipe[i + 1]
        /\ Head(pipe) = pipe[1]
    BY <1>2
  <2>2. \A i \in 1 .. Len(Tail(pipe)) : i + 1 \in 1 .. Len(pipe)
    BY <2>1
  <2>3. \A i \in 1 .. Len(pipe) : i = 1 \/ (i - 1 \in 1 .. Len(Tail(pipe)) /\ Tail(pipe)[i - 1] = pipe[i])
    BY <2>1
  <2>4. Carried(Tail(pipe)) \subseteq Carried(pipe)
    BY <2>1, <2>2 DEF Carried
  <2>5. Carried(pipe) \subseteq Carried(Tail(pipe)) \cup {pipe[1]}
    BY <2>3 DEF Carried
  <2>6. pipe[1] \in Carried(pipe)
    BY <2>1 DEF Carried
  <2> QED
    BY <2>1, <2>4, <2>5, <2>6
<1> QED
  BY <1>1, <1>2

LEMMA PipesMove ==
    ASSUME TypeInv
    PROVE  /\ \A m : Carried(Append(cs, m)) = Carried(cs) \cup {m}
           /\ cs # <<>> => Carried(cs) = Carried(Tail(cs)) \cup {Head(cs)}
           /\ \A m : Carried(Append(sc, m)) = Carried(sc) \cup {m}
           /\ sc # <<>> => Carried(sc) = Carried(Tail(sc)) \cup {Head(sc)}
           /\ \A k : Announced(k) <=> \E m \in Carried(cs) : m.tod = "new_connect" /\ m.who = k
<1>1. \A k : Announced(k) <=> \E m \in Carried(cs) : m.tod = "new_connect" /\ m.who = k
  BY DEF Announced, Carried
<1> QED
  BY <1>1, PipesAreMessages, CarriedMoves

\* What every message on its way says of the sockets it names.
LEMMA MessageFacts ==
    ASSUME SessionInv
    PROVE  /\ \A m \in Carried(cs) :
                /\ RefClient(m.c) /\ RefServer(m.s) /\ Paired(m.c, m.s)
                /\ m.tod = "new_connect" => m.c \in DOMAIN owner /\ owner[m.c] = Client(m.who)
           /\ \A m \in Carried(sc) :
                /\ RefClient(m.c) /\ RefServer(m.s) /\ Paired(m.c, m.s)
                /\ m.tod = "new_connect" => IsServerFd(m.s)
<1>1. \A m \in Carried(cs) : m \in GoodToServer
  BY DEF SessionInv, Carried
<1>2. \A m \in Carried(sc) : m \in GoodToClient
  BY DEF SessionInv, Carried
<1> QED
  BY <1>1, <1>2 DEF GoodToServer, GoodToClient, Reference

\* A session has one client socket and one server socket.
LEMMA OneSocketEach ==
    ASSUME TypeInv, SessionInv, OnceInv
    PROVE  /\ \A c, d : IsClientFd(c) /\ IsClientFd(d) /\ owner[c].id = owner[d].id => c = d
           /\ \A c, d : IsServerFd(c) /\ IsServerFd(d) /\ owner[c].id = owner[d].id => c = d
           /\ \A c : IsClientFd(c) => owner[c] = Client(owner[c].id) /\ owner[c].id \in Sessions
           /\ \A s : IsServerFd(s) => owner[s] = Server(owner[s].id) /\ owner[s].id \in Sessions
           /\ \A s : IsServerFd(s) => \A m \in Carried(cs) : m.tod = "new_connect" => m.who # owner[s].id
<1>1. \A c : IsClientFd(c) => c \in DOMAIN owner /\ owner[c] = Client(owner[c].id) /\ owner[c].id \in Sessions
  BY SessionFacts DEF IsClientFd, Endpoint, Client
<1>2. \A s : IsServerFd(s) => s \in DOMAIN owner /\ owner[s] = Server(owner[s].id) /\ owner[s].id \in Sessions
  BY SessionFacts DEF IsServerFd, Endpoint, Server
<1>3. \A c, d : IsClientFd(c) /\ IsClientFd(d) /\ owner[c].id = owner[d].id => c = d
  BY <1>1 DEF OnceInv
<1>4. \A c, d : IsServerFd(c) /\ IsServerFd(d) /\ owner[c].id = owner[d].id => c = d
  BY <1>2 DEF OnceInv
<1>5. \A s : IsServerFd(s) => \A m \in Carried(cs) : m.tod = "new_connect" => m.who # owner[s].id
  BY <1>2, PipesMove DEF OnceInv, Numbered
<1> QED
  BY <1>1, <1>2, <1>3, <1>4, <1>5

\* What a step of the client thread other than accept() owes to OrphanInv.
LEMMA OrphanClientFrame ==
    ASSUME TypeInv, TypeInv', OrphanInv, UNCHANGED svars, UNCHANGED owner,
           DOMAIN c_db' \subseteq c_fds',
           LiveClients' \subseteq LiveClients,
           \A d \in open \ open' : ~IsServerFd(d),
           \A s \in LiveServers \ s_con_wait : ServerIsMatched(s)',
           Carried(sc') \subseteq Carried(sc),
           \A c \in LiveClients' : \A m \in Carried(sc) : EndsClient(m, c) => m \in Carried(sc'),
           Carried(cs) \subseteq Carried(cs'),
           \A m \in Carried(cs') \ Carried(cs) :
              /\ m.tod # "new_connect"
              /\ m.tod \in {"disconnect", "connect_not_found"} /\ IsServerFd(m.s) =>
                    \A c \in LiveClients' : owner[c].id # owner[m.s].id,
           \A c \in c_for_close' : c \in c_for_close \/ owner[c].id \notin ServerSide
    PROVE  OrphanInv'
<1>1. LiveServers' = LiveServers /\ UNCHANGED s_db /\ UNCHANGED s_con_wait /\ UNCHANGED s_for_close
  BY DEF svars, LiveServers
<1>2. \A d : IsClientFd(d)' = IsClientFd(d) /\ IsServerFd(d)' = IsServerFd(d)
  BY DEF IsClientFd, IsServerFd
<1>3. ServerSide' \subseteq ServerSide
  BY <1>1 DEF ServerSide
<1>4. ClientSide' \subseteq ClientSide
  BY DEF ClientSide
<1>5. ASSUME NEW s \in LiveServers'
      PROVE  PairedWith(s_db[s], s)'
  BY <1>1 DEF OrphanInv, PairedWith, IsClientFd
<1>6. ASSUME NEW s \in LiveServers' \ s_con_wait'
      PROVE  ServerIsMatched(s)'
  BY <1>1
<1>7. ASSUME NEW c \in LiveClients'
      PROVE  ClientIsMatched(c)'
  <2>1. ClientIsMatched(c)
    BY DEF OrphanInv
  <2>2. CASE InProxy(Server(owner[c].id))
    <3>1. PICK d \in open : owner[d] = Server(owner[c].id)
      BY <2>2 DEF InProxy
    <3>2. IsServerFd(d)
      BY <3>1 DEF IsServerFd, Server, TypeInv, TypeOK, SharedTypeOK
    <3> QED
      BY <3>1, <3>2 DEF ClientIsMatched, InProxy
  <2> QED
    BY <2>1, <2>2 DEF ClientIsMatched
<1>8. ASSUME NEW c \in c_for_close'
      PROVE  owner'[c].id \notin ServerSide'
  BY <1>3 DEF OrphanInv
<1>9. ASSUME NEW s \in s_for_close'
      PROVE  owner'[s].id \notin ClientSide'
  BY <1>1, <1>4 DEF OrphanInv
<1>10. ASSUME NEW m \in Carried(sc')
       PROVE  /\ m.tod \in {"disconnect", "not_connect"} /\ IsClientFd(m.c)' =>
                   owner'[m.c].id \notin ServerSide'
              /\ m.tod = "new_connect" => PairedWith(m.c, m.s)'
  BY <1>3 DEF OrphanInv, PairedWith, IsClientFd
<1>11. ASSUME NEW m \in Carried(cs')
       PROVE  m.tod \in {"disconnect", "connect_not_found"} /\ IsServerFd(m.s)' =>
                 owner'[m.s].id \notin ClientSide'
  BY <1>4 DEF OrphanInv, ClientSide, IsServerFd
<1> QED
  BY <1>5, <1>6, <1>7, <1>8, <1>9, <1>10, <1>11 DEF OrphanInv

\* The invariants that a proof about OrphanInv rests on.
Rest == TypeInv /\ SessionInv /\ OnceInv /\ KnownInv /\ FlushInv /\ OrphanInv

\* A server socket keeps its match when the client thread forgets the client socket d.
LEMMA MatchKept ==
    ASSUME NEW d, c_db' = Erase(c_db, d), c_for_close' \subseteq c_for_close \cup {d},
           NEW s, ServerIsMatched(s), Carried(cs) \subseteq Carried(cs'),
           \A m \in Carried(sc) : m.tod = "new_connect" => m \in Carried(sc'),
           d \in DOMAIN c_db \ c_for_close /\ c_db[d] = s => \E m \in Carried(cs') : EndsServer(m, s)
    PROVE  ServerIsMatched(s)'
<1>1. CASE \E c \in DOMAIN c_db \ c_for_close : c_db[c] = s
  <2>1. PICK c \in DOMAIN c_db \ c_for_close : c_db[c] = s
    BY <1>1
  <2>2. c # d => c \in DOMAIN c_db' \ c_for_close' /\ c_db'[c] = s
    BY <2>1 DEF Erase
  <2> QED
    BY <2>1, <2>2 DEF ServerIsMatched
<1> QED
  BY <1>1 DEF ServerIsMatched

\* The client socket c has s on record: they are of one session.
LEMMA RecordedPair ==
    ASSUME Rest, NEW c \in DOMAIN c_db, IsServerFd(c_db[c])
    PROVE  IsClientFd(c) /\ owner[c].id = owner[c_db[c]].id
BY DEF Rest, SessionInv, ClientDbOK, Reference, Paired

\* from_server: the message that ends the client socket d.
LEMMA ClientToldOrphan ==
    ASSUME Rest, TypeInv', UNCHANGED svars, UNCHANGED owner, UNCHANGED cs,
           sc # <<>>, sc' = Tail(sc), NEW d, EndsClient(Head(sc), d), ClientCloseConnect(d)
    PROVE  OrphanInv'
<1> USE DEF Rest
<1>1. Carried(sc) = Carried(sc') \cup {Head(sc)}
  BY PipesMove
<1>2. ~IsServerFd(d) /\ (IsClientFd(d) => owner[d].id \notin ServerSide)
  <2>1. RefClient(d) /\ (IsClientFd(d) => owner[d].id \notin ServerSide)
    BY <1>1, MessageFacts DEF EndsClient, OrphanInv
  <2> QED
    BY <2>1, SessionFacts DEF RefClient, IsServerFd
<1>3. d \in c_fds \cup DOMAIN c_db \cup DOMAIN c_storage => IsClientFd(d)
  BY SessionFacts DEF SessionInv, ClientDbOK, ClientStorageOK
<1>4. /\ c_db' = Erase(c_db, d) /\ c_for_close' \subseteq c_for_close \cup {d}
      /\ LiveClients' = LiveClients \ {d} /\ open \ open' \subseteq {d}
      /\ c_fds \ {d} \subseteq c_fds'
  BY DEF ClientCloseConnect, ClientCloseConnectForce, LiveClients
<1>5. DOMAIN c_db' \subseteq c_fds'
  BY <1>4 DEF Erase, OrphanInv
<1>6. \A c \in c_for_close' : c \in c_for_close \/ owner[c].id \notin ServerSide
  <2>1. d \in c_for_close' => ClientUnsent(d)
    BY DEF ClientCloseConnect, ClientCloseConnectForce
  <2> QED
    BY <1>2, <1>3, <1>4, <2>1 DEF ClientUnsent
<1>7. ASSUME NEW s \in LiveServers \ s_con_wait
      PROVE  ServerIsMatched(s)'
  <2>1. ServerIsMatched(s) /\ owner[s].id \in ServerSide /\ IsServerFd(s)
    BY SessionFacts DEF OrphanInv, ServerSide, LiveServers
  <2>2. d \in DOMAIN c_db => c_db[d] # s
    BY <1>2, <1>3, <2>1, RecordedPair
  <2>3. \A m \in Carried(sc) : m.tod = "new_connect" => m \in Carried(sc')
    BY <1>1 DEF EndsClient
  <2> QED
    BY <1>4, <2>1, <2>2, <2>3, MatchKept
<1>8. \A c \in LiveClients' : \A m \in Carried(sc) : EndsClient(m, c) => m \in Carried(sc')
  BY <1>1, <1>4 DEF EndsClient
<1> QED
  BY <1>1, <1>2, <1>4, <1>5, <1>6, <1>7, <1>8, OrphanClientFrame

\* The client thread closes the client socket d and announces it, or closes it as drained.
LEMMA ClientClosesOrphan ==
    ASSUME Rest, TypeInv', UNCHANGED svars, UNCHANGED owner, UNCHANGED sc,
           NEW d \in c_fds, ClientCloseConnectForce(d),
           \/ cs' = Append(cs, Msg("disconnect", d, At(c_db, d)))
           \/ UNCHANGED cs /\ d \in c_for_close
    PROVE  OrphanInv'
<1> USE DEF Rest
<1>1. IsClientFd(d) /\ ~IsServerFd(d)
  BY SessionFacts DEF IsClientFd, IsServerFd
<1>2. /\ c_db' = Erase(c_db, d) /\ c_for_close' = c_for_close \ {d}
      /\ LiveClients' = LiveClients \ {d} /\ open \ open' \subseteq {d}
      /\ c_fds' = c_fds \ {d}
  BY DEF ClientCloseConnectForce, LiveClients
<1>3. DOMAIN c_db' \subseteq c_fds'
  BY <1>2 DEF Erase, OrphanInv
<1> PICK m : m = Msg("disconnect", d, At(c_db, d))
  OBVIOUS
<1>4. m.tod = "disconnect" /\ m.s = At(c_db, d)
  BY MsgNames
<1>5. \/ Carried(cs') = Carried(cs) \cup {m}
      \/ Carried(cs') = Carried(cs) /\ d \in c_for_close
  BY PipesMove
<1>6. ASSUME NEW s \in LiveServers \ s_con_wait
      PROVE  ServerIsMatched(s)'
  <2>1. ServerIsMatched(s)
    BY DEF OrphanInv
  <2>2. d \in DOMAIN c_db \ c_for_close /\ c_db[d] = s => \E x \in Carried(cs') : EndsServer(x, s)
    BY <1>4, <1>5 DEF EndsServer, At
  <2> QED
    BY <1>2, <1>5, <2>1, <2>2, MatchKept
<1>7. IsServerFd(m.s) => \A c \in LiveClients' : owner[c].id # owner[m.s].id
  <2> SUFFICES ASSUME IsServerFd(m.s), NEW c \in LiveClients', owner[c].id = owner[m.s].id PROVE FALSE
    OBVIOUS
  <2>1. d \in DOMAIN c_db /\ m.s = c_db[d]
    BY <1>4, SessionFacts DEF At
  <2>2. owner[d].id = owner[m.s].id
    BY <2>1, RecordedPair
  <2>3. IsClientFd(c) /\ c # d
    BY <1>2, SessionFacts DEF LiveClients
  <2> QED
    BY <1>1, <2>2, <2>3, OneSocketEach
<1> QED
  BY <1>1, <1>2, <1>3, <1>4, <1>5, <1>6, <1>7, OrphanClientFrame

\* A step of the client thread that closes nothing: it may answer a message of the server
\* thread that names a client which is gone, or send data.
LEMMA ClientGoesOnOrphan ==
    ASSUME Rest, TypeInv', UNCHANGED svars, UNCHANGED owner, UNCHANGED open,
           UNCHANGED c_fds, UNCHANGED c_for_close, DOMAIN c_db' \subseteq c_fds,
           \A c \in DOMAIN c_db : c \in DOMAIN c_db' /\ c_db'[c] = c_db[c],
           \/ UNCHANGED sc
           \/ sc # <<>> /\ sc' = Tail(sc) /\ Head(sc).tod = "data",
           \/ UNCHANGED cs
           \/ \E m : /\ cs' = Append(cs, m) /\ m.tod # "new_connect"
                     /\ m.tod = "data" \/ (IsServerFd(m.s) =>
                           \A c \in LiveClients : owner[c].id # owner[m.s].id)
    PROVE  OrphanInv'
<1> USE DEF Rest
<1>1. LiveClients' = LiveClients
  BY DEF LiveClients
<1>2. Carried(sc') \subseteq Carried(sc) /\ \A m \in Carried(sc) : m.tod # "data" => m \in Carried(sc')
  BY PipesMove
<1>3. /\ Carried(cs) \subseteq Carried(cs')
      /\ \A m \in Carried(cs') \ Carried(cs) :
           /\ m.tod # "new_connect"
           /\ m.tod = "data" \/ (IsServerFd(m.s) => \A c \in LiveClients : owner[c].id # owner[m.s].id)
  <2>1. CASE UNCHANGED cs
    BY <2>1
  <2>2. CASE ~UNCHANGED cs
    <3>1. PICK n : /\ cs' = Append(cs, n) /\ n.tod # "new_connect"
                   /\ n.tod = "data" \/ (IsServerFd(n.s) =>
                         \A c \in LiveClients : owner[c].id # owner[n.s].id)
      BY <2>2
    <3>2. Carried(cs') = Carried(cs) \cup {n}
      BY <3>1, PipesMove
    <3> QED
      BY <3>1, <3>2
  <2> QED
    BY <2>1, <2>2
<1>4. ASSUME NEW s \in LiveServers \ s_con_wait
      PROVE  ServerIsMatched(s)'
  <2>1. ServerIsMatched(s)
    BY DEF OrphanInv
  <2> QED
    BY <1>2, <1>3, <2>1 DEF ServerIsMatched
<1> QED
  BY <1>1, <1>2, <1>3, <1>4, OrphanClientFrame DEF EndsClient

\* accept() lets a session in that nothing on its way, and no socket, belongs to.
LEMMA AcceptOrphan ==
    ASSUME ~Recycle, Rest, TypeInv', UNCHANGED svars, NEW k \in Sessions, Accept(k)
    PROVE  OrphanInv'
<1> USE DEF Rest
<1>1. PICK c \in Fd :
         /\ GiveOut(c, Client(k)) /\ cs' = Append(cs, ConnectMsg(c, k))
         /\ c_db' = Put(c_db, c, -1) /\ c_fds' = c_fds \cup {c}
         /\ UNCHANGED sc /\ UNCHANGED c_for_close
  BY DEF Accept
<1>2. /\ c \notin DOMAIN owner /\ DOMAIN owner' = DOMAIN owner \cup {c} /\ owner'[c] = Client(k)
      /\ \A d \in DOMAIN owner : owner'[d] = owner[d]
      /\ open' = open \cup {c}
  BY <1>1 DEF GiveOut, IsNextFd, Taken, Put
<1>3. \A d \in DOMAIN owner : owner[d] # Client(k) /\ owner[d] # Server(k)
  BY DEF Accept, OnceInv, Waiting, Numbered
<1>4. \A d : IsClientFd(d) \/ IsServerFd(d) => d \in DOMAIN owner /\ d # c /\ owner[d].id # k
  BY <1>2, <1>3, OneSocketEach DEF IsClientFd, IsServerFd
<1> PICK n : n = ConnectMsg(c, k)
  OBVIOUS
<1>5. n.tod = "new_connect" /\ n.who = k /\ n.c = c /\ Carried(cs') = Carried(cs) \cup {n}
  BY <1>1, MsgNames, PipesMove
<1>6. /\ \A d \in LiveClients : IsClientFd(d) /\ d # c
      /\ \A d \in LiveServers : IsServerFd(d) /\ d # c
      /\ \A d \in c_for_close : IsClientFd(d)
      /\ \A d \in s_for_close : IsServerFd(d)
  <2>1. c_for_close \subseteq DOMAIN c_storage /\ s_for_close \subseteq DOMAIN s_storage
    BY DEF FlushInv, FlushOK
  <2> QED
    BY <1>4, <2>1, SessionFacts DEF LiveClients, LiveServers, SessionInv, ClientStorageOK, ServerStorageOK
<1>7. /\ LiveServers' = LiveServers /\ LiveClients' = LiveClients \cup {c}
      /\ UNCHANGED s_db /\ UNCHANGED s_con_wait /\ UNCHANGED s_for_close
  <2>1. c \notin c_for_close
    BY <1>4, <1>6
  <2> QED
    BY <1>1, <2>1 DEF LiveServers, LiveClients, svars
<1>8. Client(k).id = k /\ Client(k).side = "client" /\ Server(k).side = "server"
  BY DEF Client, Server
<1>9. ServerSide' \subseteq ServerSide \cup {k} /\ ClientSide' \subseteq ClientSide \cup {k}
  <2>1. \A s \in LiveServers : owner'[s] = owner[s]
    BY <1>2, <1>6 DEF IsServerFd
  <2>2. \A d \in LiveClients : owner'[d] = owner[d]
    BY <1>2, <1>6 DEF IsClientFd
  <2>3. ServerSide' \subseteq ServerSide \cup {k}
    BY <1>5, <1>7, <2>1 DEF ServerSide
  <2>4. ClientSide' \subseteq ClientSide \cup {k}
    BY <1>2, <1>7, <1>8, <2>2 DEF ClientSide
  <2> QED
    BY <2>3, <2>4
<1>10. \A m \in Carried(cs) \cup Carried(sc) :
          /\ IsClientFd(m.c)' <=> IsClientFd(m.c)
          /\ IsServerFd(m.s)' <=> IsServerFd(m.s)
  <2>1. c # -1
    BY ProxyAssumption
  <2>2. \A m \in Carried(cs) \cup Carried(sc) : m.c # c /\ m.s # c
    BY <1>2, <2>1, MessageFacts DEF RefClient, RefServer
  <2> QED
    BY <1>2, <2>2 DEF IsClientFd, IsServerFd
<1>11. ASSUME NEW s \in LiveServers'
       PROVE  PairedWith(s_db[s], s)' /\ (s \notin s_con_wait' => ServerIsMatched(s)')
  <2>1. PairedWith(s_db[s], s) /\ IsServerFd(s)
    BY <1>6, <1>7 DEF OrphanInv
  <2>2. PairedWith(s_db[s], s)'
    BY <1>2, <1>7, <2>1 DEF PairedWith, IsClientFd, IsServerFd
  <2>3. ASSUME s \notin s_con_wait
        PROVE  ServerIsMatched(s)'
    <3>1. ServerIsMatched(s)
      BY <1>7, <2>3 DEF OrphanInv
    <3>2. \A d \in DOMAIN c_db \ c_for_close : d # c /\ d \in DOMAIN c_db' \ c_for_close' /\ c_db'[d] = c_db[d]
      BY <1>1, <1>4 DEF SessionInv, ClientDbOK, Put
    <3> QED
      BY <1>1, <1>5, <3>1, <3>2 DEF ServerIsMatched
  <2> QED
    BY <1>7, <2>2, <2>3
<1>12. ASSUME NEW d \in LiveClients'
       PROVE  ClientIsMatched(d)'
  <2>1. CASE d = c
    BY <1>5, <2>1 DEF ClientIsMatched
  <2>2. CASE d \in LiveClients
    <3>1. ClientIsMatched(d) /\ owner'[d] = owner[d]
      BY <1>2, <1>6, <2>2 DEF OrphanInv, IsClientFd
    <3>2. \A x \in open : x \in open' /\ owner'[x] = owner[x]
      BY <1>2 DEF TypeInv, TypeOK, SharedTypeOK
    <3> QED
      BY <1>1, <1>5, <3>1, <3>2 DEF ClientIsMatched, InProxy
  <2> QED
    BY <1>7, <2>1, <2>2
<1>13. DOMAIN c_db' \subseteq c_fds'
  BY <1>1 DEF Put, OrphanInv
<1>14. ASSUME NEW d \in c_for_close'
       PROVE  owner'[d].id \notin ServerSide'
  BY <1>1, <1>2, <1>4, <1>6, <1>9 DEF OrphanInv
<1>15. ASSUME NEW s \in s_for_close'
       PROVE  owner'[s].id \notin ClientSide'
  BY <1>2, <1>4, <1>6, <1>7, <1>9 DEF OrphanInv
<1>16. ASSUME NEW m \in Carried(sc')
       PROVE  /\ m.tod \in {"disconnect", "not_connect"} /\ IsClientFd(m.c)' =>
                   owner'[m.c].id \notin ServerSide'
              /\ m.tod = "new_connect" => PairedWith(m.c, m.s)'
  <2>1. m \in Carried(sc)
    BY <1>1
  <2>2. m.tod \in {"disconnect", "not_connect"} /\ IsClientFd(m.c) => owner'[m.c].id \notin ServerSide'
    BY <1>2, <1>4, <1>9, <2>1 DEF OrphanInv
  <2>3. m.tod = "new_connect" => PairedWith(m.c, m.s) /\ IsServerFd(m.s)
    BY <2>1, MessageFacts DEF OrphanInv
  <2> QED
    BY <1>2, <1>10, <2>1, <2>2, <2>3 DEF PairedWith, IsClientFd, IsServerFd
<1>17. ASSUME NEW m \in Carried(cs')
       PROVE  m.tod \in {"disconnect", "connect_not_found"} /\ IsServerFd(m.s)' =>
                 owner'[m.s].id \notin ClientSide'
  BY <1>2, <1>4, <1>5, <1>9, <1>10 DEF OrphanInv
<1> QED
  BY <1>11, <1>12, <1>13, <1>14, <1>15, <1>16, <1>17 DEF OrphanInv

LEMMA FromServerNewConnectOrphan ==
    ASSUME Rest, TypeInv', UNCHANGED svars, FromServerNewConnect
    PROVE  OrphanInv'
<1> USE DEF Rest
<1> PICK d : d = Head(sc)
  OBVIOUS
<1>1. /\ sc # <<>> /\ sc' = Tail(sc) /\ d.tod = "new_connect" /\ UNCHANGED owner /\ UNCHANGED open
      /\ UNCHANGED c_fds /\ UNCHANGED c_for_close
  BY DEF FromServerNewConnect, ClientReceives
<1>2. Carried(sc) = Carried(sc') \cup {d}
  BY <1>1, PipesMove
<1>3. PairedWith(d.c, d.s) /\ IsServerFd(d.s)
  BY <1>1, <1>2, MessageFacts DEF OrphanInv
<1>4. LiveClients' = LiveClients
  BY <1>1 DEF LiveClients
<1>5. \A c \in LiveClients' : \A m \in Carried(sc) : EndsClient(m, c) => m \in Carried(sc')
  BY <1>1, <1>2 DEF EndsClient
<1>6. CASE d.c \in DOMAIN c_db /\ c_db' = Put(c_db, d.c, d.s) /\ UNCHANGED cs
  <2>1. DOMAIN c_db' \subseteq c_fds'
    BY <1>1, <1>6 DEF Put, OrphanInv
  <2>2. ASSUME NEW s \in LiveServers \ s_con_wait
        PROVE  ServerIsMatched(s)'
    <3>1. ServerIsMatched(s) /\ IsServerFd(s) /\ owner[s].id \in ServerSide
      BY SessionFacts DEF OrphanInv, LiveServers, ServerSide
    <3>2. CASE s = d.s
      <4>1. d.c \notin c_for_close
        BY <1>3, <3>1, <3>2 DEF OrphanInv, PairedWith
      <4>2. d.c \in DOMAIN c_db' \ c_for_close' /\ c_db'[d.c] = s
        BY <1>1, <1>6, <3>2, <4>1 DEF Put
      <4> QED
        BY <4>2 DEF ServerIsMatched
    <3>3. CASE s # d.s /\ \E c \in DOMAIN c_db \ c_for_close : c_db[c] = s
      <4>1. PICK c \in DOMAIN c_db \ c_for_close : c_db[c] = s
        BY <3>3
      <4>2. owner[c].id = owner[s].id
        BY <3>1, <4>1, RecordedPair
      <4>3. c # d.c
        BY <1>3, <3>1, <3>3, <4>2, OneSocketEach DEF PairedWith
      <4>4. c \in DOMAIN c_db' \ c_for_close' /\ c_db'[c] = s
        BY <1>1, <1>6, <4>1, <4>3 DEF Put
      <4> QED
        BY <4>4 DEF ServerIsMatched
    <3>4. CASE s # d.s /\ ~\E c \in DOMAIN c_db \ c_for_close : c_db[c] = s
      BY <1>2, <1>6, <3>1, <3>4 DEF ServerIsMatched
    <3> QED
      BY <3>2, <3>3, <3>4
  <2> QED
    BY <1>1, <1>2, <1>4, <1>5, <1>6, <2>1, <2>2, OrphanClientFrame
<1>7. CASE /\ d.c \notin DOMAIN c_db /\ UNCHANGED c_db
           /\ cs' = Append(cs, Msg("connect_not_found", d.c, d.s))
  <2> PICK n : n = Msg("connect_not_found", d.c, d.s)
    OBVIOUS
  <2>1. n.tod = "connect_not_found" /\ n.s = d.s /\ Carried(cs') = Carried(cs) \cup {n}
    BY <1>7, MsgNames, PipesMove
  <2>2. DOMAIN c_db' \subseteq c_fds'
    BY <1>1, <1>7 DEF OrphanInv
  <2>3. ASSUME NEW s \in LiveServers \ s_con_wait
        PROVE  ServerIsMatched(s)'
    <3>1. ServerIsMatched(s)
      BY DEF OrphanInv
    <3> QED
      BY <1>1, <1>2, <1>7, <2>1, <3>1 DEF ServerIsMatched, EndsServer
  <2>4. ASSUME NEW c \in LiveClients
        PROVE  owner[c].id # owner[n.s].id
    <3>1. c \in DOMAIN c_db /\ IsClientFd(c)
      BY SessionFacts DEF LiveClients, KnownInv, PolledAreKnown
    <3> QED
      BY <1>3, <1>7, <2>1, <3>1, OneSocketEach DEF PairedWith
  <2> QED
    BY <1>1, <1>2, <1>4, <1>5, <2>1, <2>2, <2>3, <2>4, OrphanClientFrame
<1> QED
  BY <1>6, <1>7 DEF FromServerNewConnect

LEMMA FromServerDataOrphan ==
    ASSUME Rest, TypeInv', UNCHANGED svars, FromServerData
    PROVE  OrphanInv'
<1> USE DEF Rest
<1> PICK d : d = Head(sc)
  OBVIOUS
<1>1. /\ sc # <<>> /\ sc' = Tail(sc) /\ d.tod = "data" /\ UNCHANGED owner /\ UNCHANGED open
      /\ UNCHANGED c_fds /\ UNCHANGED c_for_close /\ UNCHANGED c_db
  BY DEF FromServerData, ClientReceives
<1>2. UNCHANGED cs \/ (d.c \in c_fds \ DOMAIN c_db /\ cs' = Append(cs, Msg("connect_not_found", d.c, d.s)))
  BY DEF FromServerData
<1>3. ASSUME d.c \in c_fds \ DOMAIN c_db, IsServerFd(d.s), NEW c \in LiveClients
      PROVE  owner[c].id # owner[d.s].id
  <2>1. c \in DOMAIN c_db /\ IsClientFd(c) /\ IsClientFd(d.c)
    BY <1>3, SessionFacts DEF LiveClients, KnownInv, PolledAreKnown
  <2>2. Paired(d.c, d.s)
    BY <1>1, MessageFacts, PipesMove
  <2>3. owner[d.c].id = owner[d.s].id
    BY <1>3, <2>1, <2>2 DEF Paired
  <2> QED
    BY <1>3, <2>1, <2>3, OneSocketEach
<1>4. \/ UNCHANGED cs
      \/ \E m : /\ cs' = Append(cs, m) /\ m.tod # "new_connect"
                /\ m.tod = "data" \/ (IsServerFd(m.s) =>
                      \A c \in LiveClients : owner[c].id # owner[m.s].id)
  BY <1>2, <1>3, MsgNames
<1>5. DOMAIN c_db' \subseteq c_fds /\ \A c \in DOMAIN c_db : c \in DOMAIN c_db' /\ c_db'[c] = c_db[c]
  BY <1>1 DEF OrphanInv
<1> QED
  BY <1>1, <1>4, <1>5, ClientGoesOnOrphan

LEMMA ClientStepOrphan ==
    ASSUME ~Recycle, Rest, TypeInv', UNCHANGED svars, ClientStep
    PROVE  OrphanInv'
<1>1. DOMAIN c_db \subseteq c_fds
  BY DEF Rest, OrphanInv
<1>2. CASE AcceptFails \/ ClientPollNval
  <2>1. /\ UNCHANGED owner /\ UNCHANGED open /\ UNCHANGED cs /\ UNCHANGED sc
        /\ UNCHANGED c_fds /\ UNCHANGED c_for_close /\ UNCHANGED c_db
    BY <1>2 DEF AcceptFails, ClientPollNval, ClientFatal, cvars
  <2> QED
    BY <1>1, <2>1, ClientGoesOnOrphan
<1>3. CASE \E k \in Sessions : Accept(k)
  BY <1>3, AcceptOrphan
<1>4. CASE FromServerNewConnect
  BY <1>4, FromServerNewConnectOrphan
<1>5. CASE FromServerData
  BY <1>5, FromServerDataOrphan
<1>6. CASE FromServerNotConnect \/ FromServerDisconnect
  <2>1. /\ UNCHANGED owner /\ UNCHANGED cs /\ sc # <<>> /\ sc' = Tail(sc)
        /\ Head(sc).tod \in {"disconnect", "not_connect"} /\ ClientCloseConnect(Head(sc).c)
    BY <1>6 DEF FromServerNotConnect, FromServerDisconnect, ClientReceives
  <2>2. EndsClient(Head(sc), Head(sc).c)
    BY <2>1 DEF EndsClient
  <2> QED
    BY <2>1, <2>2, ClientToldOrphan
<1>7. ASSUME NEW c \in Fd, ClientHup(c)
      PROVE  OrphanInv'
  <2>1. /\ UNCHANGED owner /\ UNCHANGED sc /\ c \in c_fds /\ ClientCloseConnectForce(c)
        /\ cs' = Append(cs, Msg("disconnect", c, At(c_db, c)))
    BY <1>7 DEF ClientHup
  <2> QED
    BY <2>1, ClientClosesOrphan
<1>8. ASSUME NEW c \in Fd, NEW out \in BOOLEAN, NEW in \in BOOLEAN, FromClients(c, out, in)
      PROVE  OrphanInv'
  <2>1. UNCHANGED owner /\ UNCHANGED sc /\ c \in c_fds
    BY <1>8 DEF FromClients
  <2>2. CASE ClientCloseConnectForce(c)
    <3>1. \/ cs' = Append(cs, Msg("disconnect", c, At(c_db, c)))
          \/ UNCHANGED cs /\ c \in c_for_close
          \/ UNCHANGED c_fds
      BY <1>8 DEF FromClients, ClientRead
    <3>2. ~UNCHANGED c_fds
      BY <2>1, <2>2 DEF ClientCloseConnectForce
    <3> QED
      BY <2>1, <2>2, <3>1, <3>2, ClientClosesOrphan
  <2>3. CASE ~ClientCloseConnectForce(c)
    <3>1. /\ UNCHANGED open /\ UNCHANGED c_fds /\ UNCHANGED c_for_close
          /\ c_db' = Touch(c_db, c) \/ UNCHANGED c_db
          /\ UNCHANGED cs \/ \E body : cs' = Append(cs, DataMsg(c, At(c_db, c), body))
      BY <1>8, <2>3 DEF FromClients, ClientRead
    <3>2. /\ DOMAIN c_db' \subseteq c_fds
          /\ \A x \in DOMAIN c_db : x \in DOMAIN c_db' /\ c_db'[x] = c_db[x]
      BY <1>1, <2>1, <3>1 DEF Touch, Put
    <3>3. UNCHANGED cs \/ \E m : cs' = Append(cs, m) /\ m.tod = "data"
      BY <3>1, MsgNames
    <3> QED
      BY <2>1, <3>1, <3>2, <3>3, ClientGoesOnOrphan
  <2> QED
    BY <2>2, <2>3
<1>9. CASE ClientHupOnEmptySlot
  <2>1. /\ UNCHANGED owner /\ UNCHANGED open /\ UNCHANGED sc /\ UNCHANGED c_db
        /\ UNCHANGED c_fds /\ UNCHANGED c_for_close
        /\ cs' = Append(cs, Msg("disconnect", -1, At(c_db, -1)))
    BY <1>9 DEF ClientHupOnEmptySlot
  <2>2. ~IsServerFd(At(c_db, -1))
    BY SessionFacts DEF Rest, SessionInv, ClientDbOK, At
  <2>3. \E m : cs' = Append(cs, m) /\ m.tod # "new_connect" /\ ~IsServerFd(m.s)
    BY <2>1, <2>2, MsgNames
  <2> QED
    BY <1>1, <2>1, <2>3, ClientGoesOnOrphan
<1> QED
  BY <1>2, <1>3, <1>4, <1>5, <1>6, <1>7, <1>8, <1>9 DEF ClientStep, ClientHandlesMessage, ClientServes

\* What a step of the server thread that opens no socket owes to OrphanInv.
LEMMA OrphanServerFrame ==
    ASSUME TypeInv, TypeInv', OrphanInv, UNCHANGED cvars, UNCHANGED owner,
           LiveServers' \subseteq LiveServers,
           \A s \in LiveServers' : s_db'[s] = s_db[s],
           \A s \in LiveServers' \ s_con_wait' :
              \/ s \notin s_con_wait
              \/ \E m \in Carried(sc') : m.tod = "new_connect" /\ m.s = s,
           \A s \in LiveServers' : \A m \in Carried(cs) : EndsServer(m, s) => m \in Carried(cs'),
           Carried(sc) \subseteq Carried(sc'),
           Carried(cs') \subseteq Carried(cs),
           \A c \in LiveClients : ClientIsMatched(c)',
           \A s \in s_for_close' : s \in s_for_close \/ owner[s].id \notin ClientSide,
           \A m \in Carried(sc') \ Carried(sc) :
              /\ m.tod \in {"disconnect", "not_connect"} /\ IsClientFd(m.c) =>
                    owner[m.c].id \notin ServerSide'
              /\ m.tod = "new_connect" => PairedWith(m.c, m.s)
    PROVE  OrphanInv'
<1>1. LiveClients' = LiveClients /\ UNCHANGED c_db /\ UNCHANGED c_fds /\ UNCHANGED c_for_close
  BY DEF cvars, LiveClients
<1>2. \A d : IsClientFd(d)' = IsClientFd(d) /\ IsServerFd(d)' = IsServerFd(d)
  BY DEF IsClientFd, IsServerFd
<1>3. ServerSide' \subseteq ServerSide
  BY DEF ServerSide
<1>4. ClientSide' = ClientSide
  BY <1>1 DEF ClientSide
<1>5. ASSUME NEW s \in LiveServers'
      PROVE  PairedWith(s_db[s], s)'
  BY DEF OrphanInv, PairedWith, IsClientFd
<1>6. ASSUME NEW s \in LiveServers' \ s_con_wait'
      PROVE  ServerIsMatched(s)'
  <2>1. CASE s \notin s_con_wait
    <3>1. ServerIsMatched(s)
      BY <2>1 DEF OrphanInv
    <3> QED
      BY <1>1, <3>1 DEF ServerIsMatched
  <2> QED
    BY <2>1 DEF ServerIsMatched
<1>7. ASSUME NEW c \in LiveClients'
      PROVE  ClientIsMatched(c)'
  BY <1>1
<1>8. ASSUME NEW c \in c_for_close'
      PROVE  owner'[c].id \notin ServerSide'
  BY <1>1, <1>3 DEF OrphanInv
<1>9. ASSUME NEW s \in s_for_close'
      PROVE  owner'[s].id \notin ClientSide'
  BY <1>4 DEF OrphanInv
<1>10. ASSUME NEW m \in Carried(sc')
       PROVE  /\ m.tod \in {"disconnect", "not_connect"} /\ IsClientFd(m.c)' =>
                   owner'[m.c].id \notin ServerSide'
              /\ m.tod = "new_connect" => PairedWith(m.c, m.s)'
  BY <1>3 DEF OrphanInv, PairedWith, IsClientFd
<1>11. ASSUME NEW m \in Carried(cs')
       PROVE  m.tod \in {"disconnect", "connect_not_found"} /\ IsServerFd(m.s)' =>
                 owner'[m.s].id \notin ClientSide'
  BY <1>4 DEF OrphanInv, IsServerFd
<1>12. DOMAIN c_db' \subseteq c_fds'
  BY <1>1 DEF OrphanInv
<1> QED
  BY <1>5, <1>6, <1>7, <1>8, <1>9, <1>10, <1>11, <1>12 DEF OrphanInv

\* A live client socket keeps its match when the server thread closes at most d, and tells.
LEMMA ClientMatchKept ==
    ASSUME Rest, UNCHANGED owner, NEW d, open \ open' \subseteq {d},
           NEW c \in LiveClients,
           IsServerFd(d) /\ owner[d].id = owner[c].id => \E m \in Carried(sc') : EndsClient(m, c),
           Carried(sc) \subseteq Carried(sc'),
           \A m \in Carried(cs) : m.tod = "new_connect" => m \in Carried(cs')
    PROVE  ClientIsMatched(c)'
<1>1. ClientIsMatched(c)
  BY DEF Rest, OrphanInv
<1>2. CASE InProxy(Server(owner[c].id))
  <2>1. PICK e \in open : owner[e] = Server(owner[c].id)
    BY <1>2 DEF InProxy
  <2>2. IsServerFd(e) /\ owner[e].id = owner[c].id
    BY <2>1 DEF Rest, IsServerFd, Server, TypeInv, TypeOK, SharedTypeOK
  <2>3. CASE e \in open'
    BY <2>1, <2>3 DEF ClientIsMatched, InProxy
  <2>4. CASE e = d
    BY <2>2, <2>4 DEF ClientIsMatched
  <2> QED
    BY <2>1, <2>3, <2>4
<1> QED
  BY <1>1, <1>2 DEF ClientIsMatched

\* The client socket that the socket s of the server thread is for.
LEMMA ServerPair ==
    ASSUME Rest, NEW s \in s_fds
    PROVE  /\ IsServerFd(s) /\ owner[s].id \notin {m.who : m \in {x \in Carried(cs) : x.tod = "new_connect"}}
           /\ s \in s_con_wait => s \in LiveServers
           /\ s \in LiveServers => /\ At(s_db, s) = s_db[s] /\ s \in DOMAIN s_db
                                   /\ PairedWith(At(s_db, s), s)
           /\ \A c \in LiveClients : owner[c].id = owner[s].id =>
                 s \in LiveServers /\ At(s_db, s) = c
           /\ IsClientFd(At(s_db, s)) => owner[At(s_db, s)].id = owner[s].id
           /\ \A e \in s_fds : owner[e].id = owner[s].id => e = s
<1> USE DEF Rest
<1>1. IsServerFd(s) /\ owner[s].id \notin {m.who : m \in {x \in Carried(cs) : x.tod = "new_connect"}}
  BY SessionFacts, OneSocketEach
<1>2. s \in s_con_wait => s \in LiveServers
  BY DEF FlushInv, FlushOK, LiveServers
<1>3. s \in LiveServers => /\ At(s_db, s) = s_db[s] /\ s \in DOMAIN s_db
                           /\ PairedWith(At(s_db, s), s)
  BY DEF KnownInv, PolledAreKnown, LiveServers, At, OrphanInv
<1>4. ASSUME NEW c \in LiveClients, owner[c].id = owner[s].id
      PROVE  s \in LiveServers /\ At(s_db, s) = c
  <2>1. owner[s].id \in ClientSide
    BY <1>4 DEF ClientSide
  <2>2. s \in LiveServers
    BY <2>1 DEF OrphanInv, LiveServers
  <2>3. IsClientFd(c)
    BY SessionFacts DEF LiveClients
  <2> QED
    BY <1>3, <1>4, <2>2, <2>3, OneSocketEach DEF PairedWith
<1>5. IsClientFd(At(s_db, s)) => owner[At(s_db, s)].id = owner[s].id
  BY <1>1, ServerDbReference DEF SessionInv, Reference, Paired
<1>6. \A e \in s_fds : owner[e].id = owner[s].id => e = s
  BY <1>1, SessionFacts, OneSocketEach
<1> QED
  BY <1>1, <1>2, <1>3, <1>4, <1>5, <1>6

\* The server thread closes its socket s and says so to its client, or closes it as drained.
LEMMA ServerClosesOrphan ==
    ASSUME Rest, TypeInv', UNCHANGED cvars, UNCHANGED owner, UNCHANGED cs,
           NEW s \in s_fds, open' = open \ {s}, s_fds' = s_fds \ {s}, s_db' = Erase(s_db, s),
           s_con_wait' = s_con_wait \ {s},
           s_for_close' = s_for_close \ {s} \/ (s \in s_con_wait /\ UNCHANGED s_for_close),
           NEW m, EndsClient(m, At(s_db, s)),
           \/ UNCHANGED sc /\ s \in s_for_close
           \/ Carried(sc') = Carried(sc) \cup {m}
           \/ \E n : /\ Carried(sc') = Carried(sc) \cup {n, m} /\ s \in s_con_wait
                     /\ n.tod = "new_connect" /\ n.c = At(s_db, s) /\ n.s = s
    PROVE  OrphanInv'
<1>1. LiveServers' = LiveServers \ {s} /\ s_for_close' \subseteq s_for_close
  BY DEF LiveServers
<1>2. \A e \in LiveServers' : s_db'[e] = s_db[e]
  BY <1>1, ServerPair DEF LiveServers, Erase
<1>3. Carried(sc) \subseteq Carried(sc') /\ Carried(cs') = Carried(cs)
  OBVIOUS
<1>4. ASSUME NEW c \in LiveClients
      PROVE  ClientIsMatched(c)'
  <2>1. IsServerFd(s) /\ owner[s].id = owner[c].id => s \notin s_for_close /\ EndsClient(m, c)
    BY ServerPair DEF LiveServers
  <2>2. IsServerFd(s) /\ owner[s].id = owner[c].id => \E x \in Carried(sc') : EndsClient(x, c)
    BY <2>1
  <2> QED
    BY <1>3, <2>2, ClientMatchKept
<1>5. ASSUME IsClientFd(m.c)
      PROVE  owner[m.c].id \notin ServerSide'
  <2>1. owner[m.c].id = owner[s].id
    BY <1>5, ServerPair DEF EndsClient
  <2>2. \A e \in LiveServers' : owner'[e].id # owner[s].id
    BY <1>1, ServerPair DEF LiveServers
  <2>3. owner[s].id \notin {x.who : x \in {y \in Carried(cs') : y.tod = "new_connect"}}
    BY ServerPair
  <2> QED
    BY <2>1, <2>2, <2>3 DEF ServerSide
<1>6. ASSUME NEW x \in Carried(sc') \ Carried(sc)
      PROVE  /\ x.tod \in {"disconnect", "not_connect"} /\ IsClientFd(x.c) => owner[x.c].id \notin ServerSide'
             /\ x.tod = "new_connect" => PairedWith(x.c, x.s)
  <2>1. CASE x = m
    BY <1>5, <2>1 DEF EndsClient
  <2>2. CASE x.tod = "new_connect" /\ x.c = At(s_db, s) /\ x.s = s /\ s \in s_con_wait
    BY <2>2, ServerPair
  <2> QED
    BY <2>1, <2>2
<1> QED
  BY <1>1, <1>2, <1>3, <1>4, <1>6, OrphanServerFrame DEF Rest

\* A socket is opened for the session that is announced.
LEMMA ConnectingOrphan ==
    ASSUME ~Recycle, Rest, TypeInv', UNCHANGED cvars,
           cs # <<>>, cs' = Tail(cs), NEW d, d = Head(cs), d.tod = "new_connect",
           NEW s, NEW far, Connecting(s, d, far), UNCHANGED s_for_close,
           \/ s_con_wait' = s_con_wait \cup {s} /\ UNCHANGED sc
           \/ UNCHANGED s_con_wait /\ sc' = Append(sc, Msg("new_connect", d.c, s))
    PROVE  OrphanInv'
<1> USE DEF Rest
<1> PICK k : k = d.who
  OBVIOUS
<1>1. /\ s \in Fd /\ s \notin DOMAIN owner /\ DOMAIN owner' = DOMAIN owner \cup {s} /\ owner'[s] = Server(k)
      /\ \A x \in DOMAIN owner : owner'[x] = owner[x]
      /\ open' = open \cup {s} /\ s_fds' = s_fds \cup {s} /\ s_db' = Put(s_db, s, d.c)
  BY DEF Connecting, GiveOut, IsNextFd, Taken, Put
<1>2. Carried(cs) = Carried(cs') \cup {d} /\ d \in Carried(cs)
  BY PipesMove
<1>3. IsClientFd(d.c) /\ owner[d.c] = Client(k)
  BY <1>2, MessageFacts DEF IsClientFd, Client
<1>4. k \in Sessions /\ k \in ServerSide
  <2>1. k \in ServerSide
    BY <1>2 DEF ServerSide
  <2>2. Client(k).id = k
    BY DEF Client
  <2> QED
    BY <1>3, <2>1, <2>2, OneSocketEach
<1>5. \A x : IsClientFd(x) \/ IsServerFd(x) => x \in DOMAIN owner /\ x # s
  BY <1>1 DEF IsClientFd, IsServerFd
<1>6. \A x : IsServerFd(x) => owner[x].id # k
  BY <1>2, OneSocketEach
<1>7. /\ \A x \in LiveClients : IsClientFd(x)
      /\ \A x \in LiveServers : IsServerFd(x)
      /\ \A x \in c_for_close : IsClientFd(x)
      /\ \A x \in s_for_close : IsServerFd(x)
  <2>1. c_for_close \subseteq DOMAIN c_storage /\ s_for_close \subseteq DOMAIN s_storage
    BY DEF FlushInv, FlushOK
  <2> QED
    BY <2>1, SessionFacts DEF LiveClients, LiveServers, SessionInv, ClientStorageOK, ServerStorageOK
<1>8. /\ LiveServers' = LiveServers \cup {s} /\ LiveClients' = LiveClients
      /\ UNCHANGED c_db /\ UNCHANGED c_fds /\ UNCHANGED c_for_close
  BY <1>1, <1>5, <1>7 DEF LiveServers, LiveClients, cvars
<1>9. Server(k).id = k /\ Server(k).side = "server" /\ Client(k).id = k
  BY DEF Server, Client
<1>10. ServerSide' \subseteq ServerSide /\ ClientSide' \subseteq ClientSide
  <2>1. \A x \in LiveServers \cup LiveClients : owner'[x] = owner[x]
    BY <1>1, <1>5, <1>7
  <2>2. ServerSide' \subseteq ServerSide
    BY <1>1, <1>2, <1>4, <1>8, <1>9, <2>1 DEF ServerSide
  <2>3. ClientSide' \subseteq ClientSide
    BY <1>8, <2>1 DEF ClientSide
  <2> QED
    BY <2>2, <2>3
<1> PICK n : n = Msg("new_connect", d.c, s)
  OBVIOUS
<1>11. /\ n.tod = "new_connect" /\ n.c = d.c /\ n.s = s
       /\ Carried(sc') \subseteq Carried(sc) \cup {n} /\ Carried(sc) \subseteq Carried(sc')
       /\ n \in Carried(sc') \/ s \in s_con_wait'
  <2>1. n.tod = "new_connect" /\ n.c = d.c /\ n.s = s /\ Carried(Append(sc, n)) = Carried(sc) \cup {n}
    BY MsgNames, PipesMove
  <2>2. CASE s_con_wait' = s_con_wait \cup {s} /\ UNCHANGED sc
    BY <2>1, <2>2
  <2>3. CASE sc' = Append(sc, n)
    BY <2>1, <2>3
  <2> QED
    BY <2>1, <2>2, <2>3
<1>12. \A m \in Carried(cs) \cup Carried(sc) :
          /\ IsClientFd(m.c)' <=> IsClientFd(m.c)
          /\ IsServerFd(m.s)' <=> IsServerFd(m.s)
  <2>1. s # -1
    BY <1>1, ProxyAssumption
  <2>2. \A m \in Carried(cs) \cup Carried(sc) : m.c # s /\ m.s # s
    BY <1>1, <2>1, MessageFacts DEF RefClient, RefServer
  <2> QED
    BY <1>1, <2>2 DEF IsClientFd, IsServerFd
<1>13. PairedWith(d.c, s)'
  BY <1>1, <1>3, <1>9 DEF PairedWith, IsClientFd
<1>14. ASSUME NEW x \in LiveServers'
       PROVE  PairedWith(s_db[x], x)' /\ (x \notin s_con_wait' => ServerIsMatched(x)')
  <2>1. CASE x = s
    <3>1. PairedWith(s_db[x], x)'
      BY <1>1, <1>13, <2>1 DEF Put
    <3>2. x \notin s_con_wait' => ServerIsMatched(x)'
      BY <1>11, <2>1 DEF ServerIsMatched
    <3> QED
      BY <3>1, <3>2
  <2>2. CASE x \in LiveServers
    <3>1. PairedWith(s_db[x], x) /\ IsServerFd(x) /\ x # s /\ x \in DOMAIN s_db
      BY <1>5, <1>7, <2>2 DEF OrphanInv, KnownInv, PolledAreKnown, LiveServers
    <3>2. s_db'[x] = s_db[x]
      BY <1>1, <3>1 DEF Put
    <3>3. PairedWith(s_db[x], x)'
      BY <1>1, <3>1, <3>2 DEF PairedWith, IsClientFd, IsServerFd
    <3>4. ASSUME x \notin s_con_wait'
          PROVE  ServerIsMatched(x)'
      <4>1. ServerIsMatched(x)
        BY <2>2, <3>4 DEF OrphanInv
      <4> QED
        BY <1>2, <1>8, <1>11, <4>1 DEF ServerIsMatched, EndsServer
    <3> QED
      BY <3>3, <3>4
  <2> QED
    BY <1>8, <2>1, <2>2
<1>15. ASSUME NEW c \in LiveClients'
       PROVE  ClientIsMatched(c)'
  <2>1. ClientIsMatched(c) /\ owner'[c] = owner[c] /\ IsClientFd(c)
    BY <1>1, <1>5, <1>7, <1>8 DEF OrphanInv
  <2>2. \A x \in open : x \in open' /\ owner'[x] = owner[x]
    BY <1>1 DEF TypeInv, TypeOK, SharedTypeOK
  <2>3. CASE c = d.c
    <3>1. owner'[s] = Server(owner'[c].id) /\ s \in open'
      BY <1>1, <1>3, <1>9, <2>1, <2>3
    <3> QED
      BY <3>1 DEF ClientIsMatched, InProxy
  <2>4. CASE c # d.c
    BY <1>2, <1>11, <2>1, <2>2, <2>4 DEF ClientIsMatched, InProxy
  <2> QED
    BY <2>3, <2>4
<1>16. DOMAIN c_db' \subseteq c_fds'
  BY <1>8 DEF OrphanInv
<1>17. ASSUME NEW c \in c_for_close'
       PROVE  owner'[c].id \notin ServerSide'
  BY <1>1, <1>5, <1>7, <1>8, <1>10 DEF OrphanInv
<1>18. ASSUME NEW x \in s_for_close'
       PROVE  owner'[x].id \notin ClientSide'
  BY <1>1, <1>5, <1>7, <1>10 DEF OrphanInv
<1>19. ASSUME NEW m \in Carried(sc')
       PROVE  /\ m.tod \in {"disconnect", "not_connect"} /\ IsClientFd(m.c)' =>
                   owner'[m.c].id \notin ServerSide'
              /\ m.tod = "new_connect" => PairedWith(m.c, m.s)'
  <2>1. CASE m \in Carried(sc)
    <3>1. m.tod \in {"disconnect", "not_connect"} /\ IsClientFd(m.c) => owner'[m.c].id \notin ServerSide'
      BY <1>1, <1>5, <1>10, <2>1 DEF OrphanInv
    <3>2. m.tod = "new_connect" => PairedWith(m.c, m.s) /\ IsServerFd(m.s)
      BY <2>1, MessageFacts DEF OrphanInv
    <3> QED
      BY <1>1, <1>12, <2>1, <3>1, <3>2 DEF PairedWith, IsClientFd, IsServerFd
  <2>2. CASE m = n
    BY <1>11, <1>13, <2>2
  <2> QED
    BY <1>11, <2>1, <2>2
<1>20. ASSUME NEW m \in Carried(cs')
       PROVE  m.tod \in {"disconnect", "connect_not_found"} /\ IsServerFd(m.s)' =>
                 owner'[m.s].id \notin ClientSide'
  BY <1>1, <1>2, <1>5, <1>10, <1>12 DEF OrphanInv
<1> QED
  BY <1>14, <1>15, <1>16, <1>17, <1>18, <1>19, <1>20 DEF OrphanInv

LEMMA FromClientNewConnectOrphan ==
    ASSUME ~Recycle, Rest, TypeInv', UNCHANGED cvars, FromClientNewConnect
    PROVE  OrphanInv'
<1> USE DEF Rest
<1> PICK d : d = Head(cs)
  OBVIOUS
<1>1. cs # <<>> /\ cs' = Tail(cs) /\ d.tod = "new_connect" /\ UNCHANGED s_for_close
  BY DEF FromClientNewConnect, ServerReceives
<1>2. ASSUME NEW s, NEW far, Connecting(s, d, far),
             \/ s_con_wait' = s_con_wait \cup {s} /\ UNCHANGED sc
             \/ UNCHANGED s_con_wait /\ sc' = Append(sc, Msg("new_connect", d.c, s))
      PROVE  OrphanInv'
  BY <1>1, <1>2, ConnectingOrphan
<1>3. CASE /\ sc' = Append(sc, Msg("not_connect", d.c, -1))
           /\ UNCHANGED <<open, owner, peer, s_db, s_con_wait, s_fds, s_storage>>
  <2> PICK m : m = Msg("not_connect", d.c, -1)
    OBVIOUS
  <2>1. m.tod = "not_connect" /\ m.c = d.c /\ Carried(sc') = Carried(sc) \cup {m}
    BY <1>3, MsgNames, PipesMove
  <2>2. Carried(cs) = Carried(cs') \cup {d} /\ d \in Carried(cs)
    BY <1>1, PipesMove
  <2>3. LiveServers' = LiveServers /\ UNCHANGED s_db /\ UNCHANGED s_con_wait /\ UNCHANGED owner /\ UNCHANGED open
    BY <1>1, <1>3 DEF LiveServers
  <2>4. ASSUME NEW c \in LiveClients
        PROVE  ClientIsMatched(c)'
    <3>1. ClientIsMatched(c)
      BY DEF OrphanInv
    <3> QED
      BY <2>1, <2>2, <2>3, <3>1 DEF ClientIsMatched, InProxy, EndsClient
  <2>5. owner[d.c].id \notin ServerSide'
    <3> PICK k : k = d.who
      OBVIOUS
    <3>1. owner[d.c].id = k
      <4>1. owner[d.c] = Client(k) /\ Client(k).id = k
        BY <1>1, <2>2, MessageFacts DEF Client
      <4> QED
        BY <4>1
    <3>2. \A s \in LiveServers : owner'[s].id # k
      BY <1>1, <2>2, <2>3, SessionFacts, OneSocketEach DEF LiveServers
    <3>3. k \notin {x.who : x \in {y \in Carried(cs') : y.tod = "new_connect"}}
      <4>1. ~Announced(k)'
        BY <1>1, FrontAnnounces
      <4> QED
        BY <4>1 DEF Announced, Carried
    <3> QED
      BY <2>3, <3>1, <3>2, <3>3 DEF ServerSide
  <2> QED
    BY <1>1, <2>1, <2>2, <2>3, <2>4, <2>5, OrphanServerFrame DEF EndsServer
<1> QED
  BY <1>2, <1>3 DEF FromClientNewConnect

\* from_client: the message that ends the server socket d.
LEMMA ServerToldOrphan ==
    ASSUME Rest, TypeInv', UNCHANGED cvars, UNCHANGED owner, UNCHANGED sc,
           cs # <<>>, cs' = Tail(cs), NEW d, EndsServer(Head(cs), d), ServerCloseConnect(d)
    PROVE  OrphanInv'
<1> USE DEF Rest
<1>1. Carried(cs) = Carried(cs') \cup {Head(cs)}
  BY PipesMove
<1>2. IsServerFd(d) => owner[d].id \notin ClientSide
  BY <1>1 DEF EndsServer, OrphanInv
<1>3. /\ LiveServers' = LiveServers \ {d} /\ s_con_wait' = s_con_wait \ {d} /\ s_db' = Erase(s_db, d)
      /\ s_for_close' \subseteq s_for_close \cup {d} /\ open \ open' \subseteq {d}
  BY DEF ServerCloseConnect, ServerCloseConnectForce, LiveServers
<1>4. \A e \in LiveServers' : s_db'[e] = s_db[e]
  BY <1>3 DEF KnownInv, PolledAreKnown, LiveServers, Erase
<1>5. \A s \in s_for_close' : s \in s_for_close \/ owner[s].id \notin ClientSide
  <2>1. d \in s_for_close' => ServerUnsent(d)
    BY DEF ServerCloseConnect, ServerCloseConnectForce
  <2> QED
    BY <1>2, <1>3, <2>1 DEF ServerUnsent, SessionInv, ServerStorageOK
<1>6. ASSUME NEW c \in LiveClients
      PROVE  ClientIsMatched(c)'
  <2>1. ~(IsServerFd(d) /\ owner[d].id = owner[c].id)
    BY <1>2 DEF ClientSide
  <2>2. \A m \in Carried(cs) : m.tod = "new_connect" => m \in Carried(cs')
    BY <1>1 DEF EndsServer
  <2> QED
    BY <1>3, <2>1, <2>2, ClientMatchKept
<1>7. \A s \in LiveServers' : \A m \in Carried(cs) : EndsServer(m, s) => m \in Carried(cs')
  BY <1>1, <1>3 DEF EndsServer
<1> QED
  BY <1>1, <1>3, <1>4, <1>5, <1>6, <1>7, OrphanServerFrame

\* A step of the server thread that opens and closes nothing: it may tell a client that its
\* connect() has succeeded, or send data.
LEMMA ServerGoesOnOrphan ==
    ASSUME Rest, TypeInv', UNCHANGED cvars, UNCHANGED owner, UNCHANGED open,
           UNCHANGED s_fds, UNCHANGED s_for_close,
           \A s \in LiveServers : s_db'[s] = s_db[s],
           \A s \in s_con_wait \ s_con_wait' : \E m \in Carried(sc') : m.tod = "new_connect" /\ m.s = s,
           \/ UNCHANGED cs
           \/ cs # <<>> /\ cs' = Tail(cs) /\ Head(cs).tod = "data",
           Carried(sc) \subseteq Carried(sc'),
           \A m \in Carried(sc') \ Carried(sc) :
              \/ m.tod = "data"
              \/ m.tod = "disconnect" /\ ~IsClientFd(m.c)
              \/ m.tod = "new_connect" /\ PairedWith(m.c, m.s)
    PROVE  OrphanInv'
<1> USE DEF Rest
<1>1. LiveServers' = LiveServers
  BY DEF LiveServers
<1>2. Carried(cs') \subseteq Carried(cs) /\ \A m \in Carried(cs) : m.tod # "data" => m \in Carried(cs')
  BY PipesMove
<1>3. ASSUME NEW c \in LiveClients
      PROVE  ClientIsMatched(c)'
  <2>1. ClientIsMatched(c)
    BY DEF OrphanInv
  <2> QED
    BY <1>2, <2>1 DEF ClientIsMatched, InProxy
<1> QED
  BY <1>1, <1>2, <1>3, OrphanServerFrame DEF EndsServer

LEMMA ConnectFinishedOrphan ==
    ASSUME Rest, TypeInv', UNCHANGED cvars, NEW s \in Fd, NEW in \in BOOLEAN, ConnectFinished(s, in)
    PROVE  OrphanInv'
<1> USE DEF Rest
<1> PICK c : c = At(s_db, s)
  OBVIOUS
<1> PICK n : n = Msg("new_connect", c, s)
  OBVIOUS
<1>1. s \in s_con_wait /\ s \in s_fds /\ UNCHANGED owner /\ UNCHANGED cs
  BY DEF ConnectFinished
<1>2. /\ s \in LiveServers /\ s \in DOMAIN s_db /\ c = s_db[s] /\ PairedWith(c, s)
      /\ Touch(s_db, s) = s_db
  BY <1>1, ServerPair DEF Touch
<1>3. n.tod = "new_connect" /\ n.c = c /\ n.s = s /\ Carried(Append(sc, n)) = Carried(sc) \cup {n}
  BY MsgNames, PipesMove
<1>4. Append(sc, n) \in Seq(Message)
  <2>1. c \in FdOrNone /\ s \in FdOrNone
    BY ServerFacts, FdFacts, AtInRange
  <2>2. n \in Message
    BY <2>1, MsgType DEF Tod
  <2> QED
    BY <2>2, PipesAreMessages
<1>5. ASSUME NEW m
      PROVE  Carried(Append(Append(sc, n), m)) = Carried(sc) \cup {n, m}
  <2> PICK log : log = Append(sc, n)
    OBVIOUS
  <2>1. log \in Seq(Message)
    BY <1>4
  <2>2. Carried(Append(log, m)) = Carried(log) \cup {m}
    BY <2>1, CarriedMoves, ZenonT(30)
  <2> QED
    BY <1>3, <2>2
<1>6. CASE sc' = Append(sc, Msg("not_connect", c, -1)) /\ ServerCloseConnectForce(s)
  <2>1. \E m : EndsClient(m, c) /\ Carried(sc') = Carried(sc) \cup {m}
    BY <1>6, MsgNames, PipesMove DEF EndsClient
  <2> QED
    BY <1>1, <1>6, <2>1, ServerClosesOrphan DEF ServerCloseConnectForce
<1>7. CASE sc' = Append(Append(sc, n), Msg("disconnect", c, s)) /\ ServerCloseConnectForce(s)
  <2>1. \E m : EndsClient(m, c) /\ Carried(sc') = Carried(sc) \cup {n, m}
    BY <1>5, <1>7, MsgNames DEF EndsClient
  <2>2. n.tod = "new_connect" /\ n.c = At(s_db, s) /\ n.s = s
    BY <1>3
  <2> QED
    BY <1>1, <1>7, <2>1, <2>2, ServerClosesOrphan DEF ServerCloseConnectForce
<1>8. CASE /\ \/ sc' = Append(sc, n)
              \/ \E body : sc' = Append(Append(sc, n), DataMsg(c, s, body))
           /\ s_con_wait' = s_con_wait \ {s} /\ s_db' = s_db
           /\ UNCHANGED open /\ UNCHANGED s_fds /\ UNCHANGED s_for_close
  <2>1. Carried(sc') = Carried(sc) \cup {n} \/ \E m : m.tod = "data" /\ Carried(sc') = Carried(sc) \cup {n, m}
    <3>1. CASE sc' = Append(sc, n)
      BY <1>3, <3>1
    <3>2. ASSUME NEW body, sc' = Append(Append(sc, n), DataMsg(c, s, body))
          PROVE  \E m : m.tod = "data" /\ Carried(sc') = Carried(sc) \cup {n, m}
      <4> PICK m : m = DataMsg(c, s, body)
        OBVIOUS
      <4>1. m.tod = "data"
        BY MsgNames
      <4>2. Carried(sc') = Carried(sc) \cup {n, m}
        BY <1>5, <3>2
      <4> QED
        BY <4>1, <4>2
    <3> QED
      BY <1>8, <3>1, <3>2
  <2>2. /\ Carried(sc) \subseteq Carried(sc') /\ n \in Carried(sc')
        /\ \A m \in Carried(sc') \ Carried(sc) : m.tod = "data" \/ m = n
    BY <2>1
  <2> QED
    BY <1>1, <1>2, <1>3, <1>8, <2>2, ServerGoesOnOrphan
<1>9. \/ sc' = Append(sc, Msg("not_connect", c, -1)) /\ ServerCloseConnectForce(s)
      \/ sc' = Append(Append(sc, n), Msg("disconnect", c, s)) /\ ServerCloseConnectForce(s)
      \/ /\ \/ sc' = Append(sc, n)
            \/ \E body : sc' = Append(Append(sc, n), DataMsg(c, s, body))
         /\ s_con_wait' = s_con_wait \ {s} /\ s_db' = s_db
         /\ UNCHANGED open /\ UNCHANGED s_fds /\ UNCHANGED s_for_close
  <2>1. CASE ServerRead(s, s_db, s_storage[s], Append(sc, n), FALSE)
    BY <1>2, <2>1 DEF ServerRead
  <2>2. CASE /\ sc' = Append(sc, n) /\ s_db' = s_db /\ s_con_wait' = s_con_wait \ {s}
             /\ UNCHANGED <<open, read, s_fds, s_for_close, s_storage>>
    BY <2>2
  <2> QED
    BY <1>2, <2>1, <2>2 DEF ConnectFinished
<1> QED
  BY <1>6, <1>7, <1>8, <1>9

LEMMA FromServerOrphan ==
    ASSUME Rest, TypeInv', UNCHANGED cvars, NEW s \in Fd, NEW out \in BOOLEAN, NEW in \in BOOLEAN,
           FromServer(s, out, in)
    PROVE  OrphanInv'
<1> USE DEF Rest
<1> PICK c : c = At(s_db, s)
  OBVIOUS
<1>1. s \in s_fds \ s_con_wait /\ UNCHANGED owner /\ UNCHANGED cs
  BY DEF FromServer
<1>2. \/ s \in s_for_close /\ UNCHANGED sc /\ ServerCloseConnectForce(s)
      \/ sc' = Append(sc, Msg("disconnect", c, s)) /\ ServerCloseConnectForce(s)
      \/ /\ UNCHANGED sc \/ \E body : sc' = Append(sc, DataMsg(c, s, body))
         /\ s_con_wait' = s_con_wait \ {s} \/ UNCHANGED s_con_wait
         /\ s_db' = s_db \/ s_db' = Touch(s_db, s)
         /\ UNCHANGED open /\ UNCHANGED s_fds /\ UNCHANGED s_for_close
  BY DEF FromServer, ServerRead
<1>3. CASE s \in s_for_close /\ UNCHANGED sc /\ ServerCloseConnectForce(s)
  <2>1. EndsClient(Msg("disconnect", c, s), c)
    BY MsgNames DEF EndsClient
  <2> QED
    BY <1>1, <1>3, <2>1, ServerClosesOrphan DEF ServerCloseConnectForce
<1>4. CASE sc' = Append(sc, Msg("disconnect", c, s)) /\ ServerCloseConnectForce(s)
  <2>1. \E m : EndsClient(m, c) /\ Carried(sc') = Carried(sc) \cup {m}
    BY <1>4, MsgNames, PipesMove DEF EndsClient
  <2> QED
    BY <1>1, <1>4, <2>1, ServerClosesOrphan DEF ServerCloseConnectForce
<1>5. CASE /\ UNCHANGED sc \/ \E body : sc' = Append(sc, DataMsg(c, s, body))
           /\ s_con_wait' = s_con_wait \ {s} \/ UNCHANGED s_con_wait
           /\ s_db' = s_db \/ s_db' = Touch(s_db, s)
           /\ UNCHANGED open /\ UNCHANGED s_fds /\ UNCHANGED s_for_close
  <2>1. /\ Carried(sc) \subseteq Carried(sc')
        /\ \A m \in Carried(sc') \ Carried(sc) : m.tod = "data"
    <3>1. CASE UNCHANGED sc
      <4>1. Carried(sc') = Carried(sc)
        BY <3>1
      <4> QED
        BY <4>1
    <3>2. ASSUME NEW body, sc' = Append(sc, DataMsg(c, s, body))
          PROVE  \E m : m.tod = "data" /\ Carried(sc') = Carried(sc) \cup {m}
      <4> PICK m : m = DataMsg(c, s, body)
        OBVIOUS
      <4>1. m.tod = "data"
        BY MsgNames
      <4>2. Carried(sc') = Carried(sc) \cup {m}
        BY <3>2, PipesMove
      <4> QED
        BY <4>1, <4>2
    <3> QED
      BY <1>5, <3>1, <3>2
  <2>2. \A x \in LiveServers : s_db'[x] = s_db[x]
    BY <1>5 DEF Touch, Put, KnownInv, PolledAreKnown, LiveServers
  <2> QED
    BY <1>1, <1>5, <2>1, <2>2, ServerGoesOnOrphan
<1> QED
  BY <1>2, <1>3, <1>4, <1>5

LEMMA ServerStepOrphan ==
    ASSUME ~Recycle, Rest, TypeInv', UNCHANGED cvars, ServerStep
    PROVE  OrphanInv'
<1>1. CASE SocketFails \/ ServerPollNval
  <2>1. /\ UNCHANGED owner /\ UNCHANGED open /\ UNCHANGED cs /\ UNCHANGED sc
        /\ UNCHANGED s_fds /\ UNCHANGED s_for_close /\ UNCHANGED s_db /\ UNCHANGED s_con_wait
    BY <1>1 DEF SocketFails, ServerPollNval, ServerFatal, svars
  <2> QED
    BY <2>1, ServerGoesOnOrphan
<1>2. CASE FromClientNewConnect
  BY <1>2, FromClientNewConnectOrphan
<1>3. CASE FromClientData
  <2>1. /\ UNCHANGED owner /\ UNCHANGED open /\ UNCHANGED sc
        /\ UNCHANGED s_fds /\ UNCHANGED s_for_close /\ UNCHANGED s_db /\ UNCHANGED s_con_wait
        /\ cs # <<>> /\ cs' = Tail(cs) /\ Head(cs).tod = "data"
    BY <1>3 DEF FromClientData, ServerReceives
  <2> QED
    BY <2>1, ServerGoesOnOrphan
<1>4. CASE FromClientConnectNotFound \/ FromClientDisconnect
  <2>1. /\ UNCHANGED owner /\ UNCHANGED sc /\ cs # <<>> /\ cs' = Tail(cs)
        /\ Head(cs).tod \in {"disconnect", "connect_not_found"} /\ ServerCloseConnect(Head(cs).s)
    BY <1>4 DEF FromClientConnectNotFound, FromClientDisconnect, ServerReceives
  <2>2. EndsServer(Head(cs), Head(cs).s)
    BY <2>1 DEF EndsServer
  <2> QED
    BY <2>1, <2>2, ServerToldOrphan
<1>5. ASSUME NEW s \in Fd, ServerHup(s)
      PROVE  OrphanInv'
  <2>1. /\ UNCHANGED owner /\ UNCHANGED cs /\ s \in s_fds /\ ServerCloseConnectForce(s)
        /\ sc' = Append(sc, Msg("disconnect", At(s_db, s), s))
    BY <1>5 DEF ServerHup
  <2>2. \E m : EndsClient(m, At(s_db, s)) /\ Carried(sc') = Carried(sc) \cup {m}
    BY <2>1, MsgNames, PipesMove DEF EndsClient, Rest
  <2> QED
    BY <2>1, <2>2, ServerClosesOrphan DEF ServerCloseConnectForce
<1>6. ASSUME NEW s \in Fd, ConnectTimeout(s)
      PROVE  OrphanInv'
  <2>1. /\ UNCHANGED owner /\ UNCHANGED cs /\ s \in s_con_wait
        /\ open' = open \ {s} /\ s_fds' = s_fds \ {s} /\ s_db' = Erase(s_db, s)
        /\ s_con_wait' = s_con_wait \ {s} /\ UNCHANGED s_for_close
        /\ sc' = Append(sc, Msg("not_connect", At(s_db, s), -1))
    BY <1>6 DEF ConnectTimeout
  <2>2. s \in s_fds
    BY <2>1 DEF Rest, KnownInv, WaitersHaveClient
  <2>3. \E m : EndsClient(m, At(s_db, s)) /\ Carried(sc') = Carried(sc) \cup {m}
    BY <2>1, MsgNames, PipesMove DEF EndsClient, Rest
  <2> QED
    BY <2>1, <2>2, <2>3, ServerClosesOrphan
<1>7. CASE ServerHupOnEmptySlot
  <2>1. /\ UNCHANGED owner /\ UNCHANGED open /\ UNCHANGED cs
        /\ UNCHANGED s_fds /\ UNCHANGED s_for_close /\ UNCHANGED s_db /\ UNCHANGED s_con_wait
        /\ sc' = Append(sc, Msg("disconnect", At(s_db, -1), -1))
    BY <1>7 DEF ServerHupOnEmptySlot
  <2>2. ~IsClientFd(At(s_db, -1))
    BY SessionFacts DEF Rest, SessionInv, ServerDbOK, At
  <2>3. \E m : m.tod = "disconnect" /\ ~IsClientFd(m.c) /\ Carried(sc') = Carried(sc) \cup {m}
    BY <2>1, <2>2, MsgNames, PipesMove DEF Rest
  <2>4. /\ Carried(sc) \subseteq Carried(sc')
        /\ \A m \in Carried(sc') \ Carried(sc) : m.tod = "disconnect" /\ ~IsClientFd(m.c)
    BY <2>3
  <2> QED
    BY <2>1, <2>4, ServerGoesOnOrphan
<1>8. CASE \E s \in Fd : \E in \in BOOLEAN : ConnectFinished(s, in)
  BY <1>8, ConnectFinishedOrphan
<1>9. CASE \E s \in Fd : \E out, in \in BOOLEAN : FromServer(s, out, in)
  BY <1>9, FromServerOrphan
<1> QED
  BY <1>1, <1>2, <1>3, <1>4, <1>5, <1>6, <1>7, <1>8, <1>9 DEF ServerStep, ServerHandlesMessage, ServerServes

LEMMA NextOrphanInv ==
    ~Recycle => (Rest /\ TypeInv' /\ [Next]_vars => OrphanInv')
<1> SUFFICES ASSUME ~Recycle, Rest, TypeInv', [Next]_vars PROVE OrphanInv'
  OBVIOUS
<1>1. CASE ClientStep /\ UNCHANGED svars
  BY <1>1, ClientStepOrphan
<1>2. CASE ServerStep /\ UNCHANGED cvars
  BY <1>2, ServerStepOrphan
<1>3. CASE UNCHANGED <<open, owner, cs, sc, cvars, svars>>
  BY <1>3 DEF Rest, OrphanInv, LiveClients, LiveServers, ServerSide, ClientSide, PairedWith, IsClientFd,
         IsServerFd, ServerIsMatched, ClientIsMatched, InProxy, cvars, svars
<1>4. CASE NetStep /\ UNCHANGED <<cvars, svars>>
  <2>1. UNCHANGED <<open, owner, cs, sc>>
    BY <1>4 DEF NetStep, Connect, PeerStep, ConnectAnswered, PeerSends, PeerShutsDown, PeerResets
  <2> QED
    BY <1>3, <1>4, <2>1
<1> QED
  BY <1>1, <1>2, <1>3, <1>4 DEF Next, vars, sharedvars

LEMMA OrphanInvariant == ~Recycle => (Spec => []Rest)
<1> SUFFICES ASSUME ~Recycle PROVE Spec => []Rest
  OBVIOUS
<1>1. Init => OrphanInv
  BY DEF Init, SharedInit, ClientInit, ServerInit, OrphanInv, LiveClients, LiveServers, Carried
<1>2. Rest /\ TypeInv' /\ [Next]_vars => OrphanInv'
  BY NextOrphanInv
<1>3. Rest <=> TypeInv /\ SessionInv /\ OnceInv /\ KnownInv /\ FlushInv /\ OrphanInv
  BY DEF Rest
<1> QED
  BY <1>1, <1>2, <1>3, TypeInvariant, SessionInvariant, OnceInvariant, KnownInvariant, FlushInvariant, PTL
     DEF Spec

\* If no descriptor number is used twice, a connected server socket whose client socket is gone
\* will be closed: the message that says so is on its way, or the one that will provoke it.
THEOREM OrphanServerIsAlwaysTold == ~Recycle => (Spec => []OrphanServerIsTold)
<1> SUFFICES ASSUME ~Recycle PROVE Spec => []OrphanServerIsTold
  OBVIOUS
<1>1. Rest => OrphanServerIsTold
  <2> SUFFICES ASSUME Rest, NEW s \in s_fds \ (s_con_wait \cup s_for_close)
               PROVE  InProxy(Client(owner[s].id)) \/
                        \/ \E i \in 1 .. Len(cs) : cs[i].s = s /\ cs[i].tod \in {"disconnect", "connect_not_found"}
                        \/ \E i \in 1 .. Len(sc) : sc[i].s = s /\ sc[i].tod = "new_connect"
    BY DEF OrphanServerIsTold
  <2>1. ServerIsMatched(s) /\ IsServerFd(s)
    BY SessionFacts DEF Rest, OrphanInv, LiveServers
  <2>2. CASE \E c \in DOMAIN c_db \ c_for_close : c_db[c] = s
    <3>1. PICK c \in DOMAIN c_db : c_db[c] = s
      BY <2>2
    <3>2. IsClientFd(c) /\ owner[c].id = owner[s].id
      BY <2>1, <3>1, RecordedPair
    <3>3. c \in open /\ owner[c] = Client(owner[s].id)
      BY <3>1, <3>2, OneSocketEach DEF Rest, OrphanInv, SessionInv
    <3> QED
      BY <3>3 DEF InProxy
  <2> QED
    BY <2>1, <2>2 DEF ServerIsMatched, EndsServer, Carried
<1> QED
  BY <1>1, OrphanInvariant, PTL

\* If no descriptor number is used twice, a client socket whose server socket is gone, or never
\* was, will be closed: the message that says so is on its way, or its announcement is.
THEOREM OrphanClientIsAlwaysTold == ~Recycle => (Spec => []OrphanClientIsTold)
<1> SUFFICES ASSUME ~Recycle PROVE Spec => []OrphanClientIsTold
  OBVIOUS
<1>1. Rest => OrphanClientIsTold
  BY DEF Rest, OrphanInv, LiveClients, ClientIsMatched, OrphanClientIsTold, EndsClient, Carried
<1> QED
  BY <1>1, OrphanInvariant, PTL

-----------------------------------------------------------------------------
(* What is queued stays queued                                             *)

LEMMA UnitsAre ==
    ASSUME NEW q \in Queue, NEW u
    PROVE  u \in Units(q) <=> \E i \in 1 .. Len(q) : \E j \in 1 .. Len(q[i]) : q[i][j] = u
<1>1. DOMAIN q = 1 .. Len(q) /\ \A i \in 1 .. Len(q) : DOMAIN q[i] = 1 .. Len(q[i])
  BY DEF Queue
<1> QED
  BY <1>1 DEF Units, Range

LEMMA NoUnits == Units(<<>>) = {}
BY DEF Units

\* Every unit of the queue q is in the queue r, or in run.
FoundIn(u, r, run) == \/ \E k \in 1 .. Len(r) : \E l \in 1 .. Len(r[k]) : r[k][l] = u
                      \/ \E l \in 1 .. Len(run) : run[l] = u
AllFound(q, r, run) == \A i \in 1 .. Len(q) : \A j \in 1 .. Len(q[i]) : FoundIn(q[i][j], r, run)

LEMMA UnitsOfParts ==
    ASSUME NEW q \in Queue, NEW r \in Queue, NEW run \in Seq(Unit),
           AllFound(q, r, run)
    PROVE  Units(q) \subseteq Units(r) \cup Range(run)
<1> SUFFICES ASSUME NEW u \in Units(q) PROVE u \in Units(r) \/ u \in Range(run)
  OBVIOUS
<1>1. PICK i \in 1 .. Len(q) : \E j \in 1 .. Len(q[i]) : q[i][j] = u
  BY UnitsAre
<1>2. PICK j \in 1 .. Len(q[i]) : q[i][j] = u
  BY <1>1
<1>0. FoundIn(u, r, run)
  BY <1>1, <1>2 DEF AllFound
<1>3. CASE \E k \in 1 .. Len(r) : \E l \in 1 .. Len(r[k]) : r[k][l] = u
  BY <1>3, UnitsAre
<1>4. CASE \E l \in 1 .. Len(run) : run[l] = u
  <2>1. DOMAIN run = 1 .. Len(run)
    OBVIOUS
  <2> QED
    BY <1>4, <2>1 DEF Range
<1> QED
  BY <1>0, <1>3, <1>4 DEF FoundIn

\* A flush of a queue drops what send() took, and nothing else.
LEMMA FlushKeepsUnits ==
    ASSUME NEW q \in Queue, NEW n \in Int, n > 0 => q # <<>> /\ n <= Len(Head(q))
    PROVE  Units(q) \subseteq Units(Flushed(q, n)) \cup Range(SentOf(q, n))
<1>1. CASE n <= 0
  BY <1>1 DEF Flushed
<1>2. CASE n > 0
  <2> PICK h, t, run, rest : /\ h = Head(q) /\ t = Tail(q)
                             /\ run = SubSeq(Head(q), 1, n)
                             /\ rest = SubSeq(Head(q), n + 1, Len(Head(q)))
    OBVIOUS
  <2>1. q # <<>> /\ n <= Len(h) /\ q \in Seq(Seq(Unit)) /\ Len(q) \in Nat
    BY <1>2 DEF Queue
  <2>2. h \in Seq(Unit) /\ t \in Seq(Seq(Unit)) /\ h = q[1] /\ Len(h) \in Nat
    BY <2>1
  <2>3. Len(t) = Len(q) - 1 /\ \A i \in 1 .. Len(t) : t[i] = q[i + 1]
    BY <2>1
  <2>4. run \in Seq(Unit) /\ Len(run) = n /\ \A j \in 1 .. n : run[j] = h[j]
    BY <1>2, <2>1, <2>2
  <2>5. SentOf(q, n) = run
    BY <1>2 DEF SentOf
  <2>6. CASE n = Len(h)
    <3>1. Flushed(q, n) = t
      BY <1>2, <2>6 DEF Flushed
    <3>2. AllFound(q, t, run)
      <4> SUFFICES ASSUME NEW i \in 1 .. Len(q), NEW j \in 1 .. Len(q[i]) PROVE FoundIn(q[i][j], t, run)
        BY DEF AllFound
      <4>1. CASE i = 1
        BY <2>2, <2>4, <2>6, <4>1 DEF FoundIn
      <4>2. CASE i # 1
        <5>1. i - 1 \in 1 .. Len(t) /\ t[i - 1] = q[i]
          BY <2>1, <2>3, <4>2
        <5> QED
          BY <5>1 DEF FoundIn
      <4> QED
        BY <4>1, <4>2
    <3>3. t \in Queue
      BY <2>2 DEF Queue
    <3>4. Units(q) \subseteq Units(t) \cup Range(run)
      BY <2>4, <3>2, <3>3, UnitsOfParts
    <3> QED
      BY <2>5, <3>1, <3>4
  <2>7. CASE n # Len(h)
    <3> PICK r : r = <<rest>> \o t
      OBVIOUS
    <3>0. ~(n <= 0) /\ n # Len(Head(q))
      BY <1>2, <2>7
    <3>1. Flushed(q, n) = r
      BY <3>0 DEF Flushed
    <3>2. rest \in Seq(Unit) /\ Len(rest) = Len(h) - n /\ \A j \in 1 .. Len(h) - n : rest[j] = h[j + n]
      BY <1>2, <2>1, <2>2
    <3>3. r \in Seq(Seq(Unit)) /\ Len(r) = Len(q) /\ r[1] = rest /\ \A i \in 2 .. Len(q) : r[i] = q[i]
      <4>1. <<rest>> \in Seq(Seq(Unit)) /\ Len(<<rest>>) = 1 /\ <<rest>>[1] = rest
        BY <3>2
      <4>2. Len(r) = 1 + Len(t) /\ r[1] = rest /\ r \in Seq(Seq(Unit))
        BY <2>1, <2>2, <2>3, <4>1
      <4>3. \A i \in 2 .. Len(q) : r[i] = t[i - 1]
        BY <2>1, <2>2, <2>3, <4>1
      <4>4. \A i \in 2 .. Len(q) : i - 1 \in 1 .. Len(t) /\ t[i - 1] = q[i]
        BY <2>1, <2>3
      <4> QED
        BY <2>1, <2>3, <4>2, <4>3, <4>4
    <3>4. AllFound(q, r, run)
      <4> SUFFICES ASSUME NEW i \in 1 .. Len(q), NEW j \in 1 .. Len(q[i]) PROVE FoundIn(q[i][j], r, run)
        BY DEF AllFound
      <4>0. j \in Nat /\ j >= 1 /\ j <= Len(q[i])
        <5>1. q[i] \in Seq(Unit)
          BY <2>1
        <5> QED
          BY <5>1
      <4>1. CASE i = 1 /\ j <= n
        <5>1. j \in 1 .. Len(run) /\ run[j] = q[i][j]
          BY <1>2, <2>2, <2>4, <4>0, <4>1
        <5> QED
          BY <5>1 DEF FoundIn
      <4>2. CASE i = 1 /\ j > n
        <5>1. j - n \in 1 .. Len(rest) /\ rest[j - n] = q[1][j]
          BY <1>2, <2>2, <3>2, <4>0, <4>2
        <5>2. 1 \in 1 .. Len(r) /\ r[1][j - n] = q[i][j] /\ j - n \in 1 .. Len(r[1])
          BY <2>1, <3>3, <4>2, <5>1
        <5> QED
          BY <5>2 DEF FoundIn
      <4>3. CASE i # 1
        <5>1. i \in 2 .. Len(q) /\ i \in 1 .. Len(r)
          BY <2>1, <3>3, <4>3
        <5> QED
          BY <3>3, <5>1 DEF FoundIn
      <4>4. j <= n \/ j > n
        BY <4>0
      <4> QED
        BY <4>1, <4>2, <4>3, <4>4
    <3>5. r \in Queue
      BY <3>3 DEF Queue
    <3>6. Units(q) \subseteq Units(r) \cup Range(run)
      BY <2>4, <3>4, <3>5, UnitsOfParts
    <3> QED
      BY <2>5, <3>1, <3>6
  <2> QED
    BY <2>6, <2>7
<1> QED
  BY <1>1, <1>2

\* So does relaying `body' to a socket with a queue, which is sent from the front.
LEMMA RelayKeepsUnits ==
    ASSUME NEW q \in Queue, q # <<>>, NEW body \in Seq(Unit), NEW n \in Int, n <= Len(Head(q))
    PROVE  Units(q) \subseteq Units(Relayed(q, body, n)) \cup Range(SubSeq(Head(q), 1, n))
<1> PICK r : r = Append(q, body)
  OBVIOUS
<1>1. q \in Seq(Seq(Unit)) /\ Len(q) \in Nat /\ Len(q) # 0
  BY DEF Queue
<1>2. r \in Seq(Seq(Unit)) /\ Len(r) = Len(q) + 1 /\ \A i \in 1 .. Len(q) : r[i] = q[i]
  BY <1>1
<1>3. r \in Queue /\ r # <<>> /\ Head(r) = Head(q)
  BY <1>1, <1>2 DEF Queue
<1>4. Units(q) \subseteq Units(r)
  <2> SUFFICES ASSUME NEW u \in Units(q) PROVE u \in Units(r)
    OBVIOUS
  <2>1. PICK i \in 1 .. Len(q) : \E j \in 1 .. Len(q[i]) : q[i][j] = u
    BY UnitsAre
  <2>2. i \in 1 .. Len(r) /\ r[i] = q[i]
    BY <1>1, <1>2
  <2> QED
    BY <1>3, <2>1, <2>2, UnitsAre
<1>5. Units(r) \subseteq Units(Flushed(r, n)) \cup Range(SentOf(r, n))
  BY <1>3, FlushKeepsUnits
<1>6. Relayed(q, body, n) = Flushed(r, n)
  BY DEF Relayed
<1>7. SentOf(r, n) = SubSeq(Head(q), 1, n)
  BY <1>3 DEF SentOf
<1> QED
  BY <1>4, <1>5, <1>6, <1>7

\* What QueuedIsKept says of one socket.
HasLeft(d) == peer[owner[d]] \in {"fin", "rst"}
ClientKept(d) ==
    HasLeft(d) \/
    Units(c_storage[d]) \subseteq
        (IF d \in c_fds' THEN Units(c_storage'[d]) ELSE {}) \cup Range(got'[owner[d]])
ServerKept(d) ==
    HasLeft(d) \/
    Units(s_storage[d]) \subseteq
        (IF d \in s_fds' THEN Units(s_storage'[d]) ELSE {}) \cup Range(got'[owner[d]])

\* What send() took of a buffer is passed on.
LEMMA TransmitPasses ==
    ASSUME TypeInv, NEW d, owner[d] \in Endpoint, NEW buf, NEW n,
           SubSeq(buf, 1, n) \in Seq(Unit), Transmit(d, buf, n)
    PROVE  Range(SubSeq(buf, 1, n)) \subseteq Range(got'[owner[d]])
<1> PICK run, all, old : run = SubSeq(buf, 1, n) /\ all = got'[owner[d]] /\ old = got[owner[d]]
  OBVIOUS
<1>1. got \in [Endpoint -> Seq(Unit)]
  BY DEF TypeInv, TypeOK, SharedTypeOK
<1>2. all = old \o run /\ old \in Seq(Unit) /\ run \in Seq(Unit)
  BY <1>1 DEF Transmit
<1>3. /\ Len(all) = Len(old) + Len(run) /\ Len(old) \in Nat /\ Len(run) \in Nat
      /\ DOMAIN all = 1 .. Len(all) /\ DOMAIN run = 1 .. Len(run)
      /\ \A i \in 1 .. Len(run) : all[Len(old) + i] = run[i]
  BY <1>2
<1>4. ASSUME NEW i \in 1 .. Len(run) PROVE Len(old) + i \in DOMAIN all /\ all[Len(old) + i] = run[i]
  BY <1>3
<1>5. \A x \in DOMAIN run : \E y \in DOMAIN all : all[y] = run[x]
  BY <1>3, <1>4
<1>6. Range(run) \subseteq Range(all)
  BY <1>5 DEF Range
<1> QED
  BY <1>6

LEMMA FromServerDataKeepsQueue ==
    ASSUME TypeInv, SessionInv, FromServerData, NEW d \in c_fds
    PROVE  ClientKept(d)
<1>1. d \in DOMAIN c_storage /\ owner[d] \in Endpoint /\ c_storage[d] \in Queue
  BY SessionFacts, ClientFacts DEF IsMap
<1>2. c_fds' = c_fds
  BY DEF FromServerData
<1>3. CASE c_storage'[d] = c_storage[d]
  BY <1>2, <1>3 DEF ClientKept
<1>4. CASE c_storage'[d] # c_storage[d]
  <2> PICK body, q, e : body = Head(sc).body /\ q = c_storage[d] /\ e = Head(sc).c
    OBVIOUS
  <2>1. PICK n \in SendResults(e, ToSend(c_storage[e], body)) :
            /\ Transmit(e, ToSend(c_storage[e], body), n)
            /\ c_storage' = Put(c_storage, e, Relayed(c_storage[e], body, n))
    <3>1. ~UNCHANGED c_storage
      BY <1>4
    <3> QED
      BY <3>1 DEF FromServerData
  <2>2. e = d
    BY <1>1, <1>4, <2>1 DEF Put
  <2>3. /\ n \in SendResults(d, ToSend(q, body))
        /\ Transmit(d, ToSend(q, body), n) /\ c_storage' = Put(c_storage, d, Relayed(q, body, n))
    BY <2>1, <2>2
  <2>4. body \in Seq(Unit)
    <3>1. sc # <<>> /\ sc \in Seq(Message)
      BY ClientFacts DEF FromServerData, ClientReceives
    <3>2. Head(sc) \in Message
      BY <3>1
    <3> QED
      BY <3>2 DEF Message
  <2>5. CASE q = <<>>
    BY <2>5, NoUnits DEF ClientKept
  <2>6. CASE q # <<>>
    <3>1. ToSend(q, body) = Head(q) /\ Head(q) \in Seq(Unit)
      BY <1>1, <2>6 DEF ToSend, Queue
    <3>2. n \in Int /\ n <= Len(Head(q))
      BY <2>3, <3>1, SendResultsType
    <3>3. Units(q) \subseteq Units(Relayed(q, body, n)) \cup Range(SubSeq(Head(q), 1, n))
      BY <1>1, <2>4, <2>6, <3>2, RelayKeepsUnits
    <3>4. SubSeq(Head(q), 1, n) \in Seq(Unit)
      BY <3>1, <3>2
    <3>5. Range(SubSeq(Head(q), 1, n)) \subseteq Range(got'[owner[d]])
      BY <1>1, <2>3, <3>1, <3>4, TransmitPasses
    <3>6. c_storage'[d] = Relayed(q, body, n)
      BY <2>3 DEF Put
    <3> QED
      BY <1>2, <3>3, <3>5, <3>6 DEF ClientKept
  <2> QED
    BY <2>5, <2>6
<1> QED
  BY <1>3, <1>4

LEMMA FromClientsKeepsQueue ==
    ASSUME TypeInv, SessionInv, NEW d \in c_fds, NEW out \in BOOLEAN, NEW in \in BOOLEAN, FromClients(d, out, in)
    PROVE  ClientKept(d)
<1> PICK q, front : q = c_storage[d] /\ front = IF out /\ ClientUnsent(d) THEN Head(q) ELSE <<>>
  OBVIOUS
<1>1. d \in DOMAIN c_storage /\ d \in DOMAIN owner /\ owner[d] \in Endpoint /\ q \in Queue
  BY SessionFacts, ClientFacts DEF IsMap
<1>2. PICK n \in IF front = <<>> THEN {0} ELSE SendResults(d, front) :
        /\ Transmit(d, front, n)
        /\ \/ Flushed(q, n) = <<>>
           \/ HasLeft(d)
           \/ c_storage' = Put(c_storage, d, Flushed(q, n)) /\ UNCHANGED c_fds
  <2>1. in => Readable(owner[d])
    BY DEF FromClients
  <2>2. ASSUME in, Available(owner[d]) = 0 PROVE HasLeft(d)
    BY <2>1, <2>2 DEF Readable, HasLeft
  <2> QED
    BY <2>2 DEF FromClients, ClientRead, HasLeft
<1>3. front = <<>> \/ (q # <<>> /\ front = Head(q))
  BY DEF ClientUnsent
<1>4. /\ n \in Int /\ (n > 0 => q # <<>> /\ n <= Len(Head(q)))
      /\ SubSeq(front, 1, n) = SentOf(q, n)
  BY <1>1, <1>2, <1>3, FrontSent
<1>5. Units(q) \subseteq Units(Flushed(q, n)) \cup Range(SentOf(q, n))
  BY <1>1, <1>4, FlushKeepsUnits
<1>6. SentOf(q, n) \in Seq(Unit)
  <2>1. q # <<>> => Head(q) \in Seq(Unit)
    BY <1>1 DEF Queue
  <2> QED
    BY <1>4, <2>1 DEF SentOf
<1>7. Range(SentOf(q, n)) \subseteq Range(got'[owner[d]])
  BY <1>1, <1>2, <1>4, <1>6, TransmitPasses
<1>8. CASE Flushed(q, n) = <<>>
  BY <1>5, <1>7, <1>8, NoUnits DEF ClientKept
<1>9. CASE c_storage' = Put(c_storage, d, Flushed(q, n)) /\ UNCHANGED c_fds
  <2>1. c_storage'[d] = Flushed(q, n)
    BY <1>9 DEF Put
  <2> QED
    BY <1>5, <1>7, <1>9, <2>1 DEF ClientKept
<1> QED
  BY <1>2, <1>8, <1>9 DEF ClientKept

LEMMA ClientStepKeepsQueues ==
    ASSUME ~Recycle, TypeInv, SessionInv, ClientStep, NEW d \in c_fds
    PROVE  ClientKept(d)
<1>1. d \in DOMAIN c_storage /\ d \in DOMAIN owner
  BY ClientFacts
<1>2. ASSUME d \in c_fds', c_storage'[d] = c_storage[d] PROVE ClientKept(d)
  BY <1>2 DEF ClientKept
<1>3. ASSUME NEW e, ClientCloseConnectForce(e), e # d PROVE ClientKept(d)
  <2>1. d \in c_fds' /\ c_storage'[d] = c_storage[d]
    BY <1>1, <1>3 DEF ClientCloseConnectForce, Erase
  <2> QED
    BY <1>2, <2>1
<1>4. ASSUME NEW e, ClientCloseConnect(e) PROVE ClientKept(d)
  <2>1. CASE ClientUnsent(e)
    BY <1>2, <1>4, <2>1 DEF ClientCloseConnect
  <2>2. CASE ~ClientUnsent(e) /\ e # d
    BY <1>3, <1>4, <2>2 DEF ClientCloseConnect
  <2>3. CASE ~ClientUnsent(e) /\ e = d
    <3>1. c_storage[d] = <<>>
      BY <1>1, <2>3 DEF ClientUnsent
    <3> QED
      BY <3>1, NoUnits DEF ClientKept
  <2> QED
    BY <2>1, <2>2, <2>3
<1>5. CASE AcceptFails \/ ClientPollNval \/ ClientHupOnEmptySlot \/ FromServerNewConnect
  BY <1>2, <1>5 DEF AcceptFails, ClientPollNval, ClientFatal, ClientHupOnEmptySlot, FromServerNewConnect, cvars
<1>6. ASSUME NEW k \in Sessions, Accept(k) PROVE ClientKept(d)
  <2>1. PICK c \in Fd : /\ GiveOut(c, Client(k)) /\ c_storage' = Put(c_storage, c, <<>>)
                        /\ c_fds' = c_fds \cup {c}
    BY <1>6 DEF Accept
  <2>2. c # d
    BY <1>1, <2>1 DEF GiveOut, IsNextFd, Taken
  <2>3. c_storage'[d] = c_storage[d] /\ d \in c_fds'
    BY <1>1, <2>1, <2>2 DEF Put
  <2> QED
    BY <1>2, <2>3
<1>7. CASE FromServerData
  BY <1>7, FromServerDataKeepsQueue
<1>8. CASE FromServerNotConnect \/ FromServerDisconnect
  BY <1>4, <1>8 DEF FromServerNotConnect, FromServerDisconnect
<1>9. ASSUME NEW c \in Fd, ClientHup(c) PROVE ClientKept(d)
  <2>1. CASE c = d
    BY <1>9, <2>1 DEF ClientHup, ClientKept, HasLeft
  <2>2. CASE c # d
    BY <1>3, <1>9, <2>2 DEF ClientHup
  <2> QED
    BY <2>1, <2>2
<1>10. ASSUME NEW c \in Fd, NEW out \in BOOLEAN, NEW in \in BOOLEAN, FromClients(c, out, in)
       PROVE  ClientKept(d)
  <2>1. CASE c = d
    BY <1>10, <2>1, FromClientsKeepsQueue
  <2>2. CASE c # d /\ ClientCloseConnectForce(c)
    BY <1>3, <2>2
  <2>3. CASE c # d /\ ~ClientCloseConnectForce(c)
    <3>1. PICK q : c_storage' = Put(c_storage, c, q) /\ UNCHANGED c_fds
      BY <1>10, <2>3 DEF FromClients, ClientRead
    <3>2. c_storage'[d] = c_storage[d] /\ d \in c_fds'
      BY <1>1, <2>3, <3>1 DEF Put
    <3> QED
      BY <1>2, <3>2
  <2> QED
    BY <2>1, <2>2, <2>3
<1> QED
  BY <1>5, <1>6, <1>7, <1>8, <1>9, <1>10 DEF ClientStep, ClientHandlesMessage, ClientServes

LEMMA FromClientDataKeepsQueue ==
    ASSUME TypeInv, SessionInv, FromClientData, NEW d \in s_fds
    PROVE  ServerKept(d)
<1>1. d \in DOMAIN s_storage /\ owner[d] \in Endpoint /\ s_storage[d] \in Queue
  BY SessionFacts, ServerFacts DEF IsMap
<1>2. s_fds' = s_fds
  BY DEF FromClientData
<1>3. CASE s_storage'[d] = s_storage[d]
  BY <1>2, <1>3 DEF ServerKept
<1>4. CASE s_storage'[d] # s_storage[d]
  <2> PICK body, q, e : body = Head(cs).body /\ q = s_storage[d] /\ e = Head(cs).s
    OBVIOUS
  <2>1. PICK n \in SendResults(e, ToSend(s_storage[e], body)) :
            /\ Transmit(e, ToSend(s_storage[e], body), n)
            /\ s_storage' = Put(s_storage, e, Relayed(s_storage[e], body, n))
    <3>1. ~UNCHANGED s_storage
      BY <1>4
    <3> QED
      BY <3>1 DEF FromClientData
  <2>2. e = d
    BY <1>1, <1>4, <2>1 DEF Put
  <2>3. /\ n \in SendResults(d, ToSend(q, body))
        /\ Transmit(d, ToSend(q, body), n) /\ s_storage' = Put(s_storage, d, Relayed(q, body, n))
    BY <2>1, <2>2
  <2>4. body \in Seq(Unit)
    <3>1. cs # <<>> /\ cs \in Seq(ClientMessage)
      BY ServerFacts DEF FromClientData, ServerReceives
    <3>2. Head(cs) \in ClientMessage
      BY <3>1
    <3> QED
      BY <3>2 DEF ClientMessage, Message
  <2>5. CASE q = <<>>
    BY <2>5, NoUnits DEF ServerKept
  <2>6. CASE q # <<>>
    <3>1. ToSend(q, body) = Head(q) /\ Head(q) \in Seq(Unit)
      BY <1>1, <2>6 DEF ToSend, Queue
    <3>2. n \in Int /\ n <= Len(Head(q))
      BY <2>3, <3>1, SendResultsType
    <3>3. Units(q) \subseteq Units(Relayed(q, body, n)) \cup Range(SubSeq(Head(q), 1, n))
      BY <1>1, <2>4, <2>6, <3>2, RelayKeepsUnits
    <3>4. SubSeq(Head(q), 1, n) \in Seq(Unit)
      BY <3>1, <3>2
    <3>5. Range(SubSeq(Head(q), 1, n)) \subseteq Range(got'[owner[d]])
      BY <1>1, <2>3, <3>1, <3>4, TransmitPasses
    <3>6. s_storage'[d] = Relayed(q, body, n)
      BY <2>3 DEF Put
    <3> QED
      BY <1>2, <3>3, <3>5, <3>6 DEF ServerKept
  <2> QED
    BY <2>5, <2>6
<1> QED
  BY <1>3, <1>4

LEMMA FromServerKeepsQueue ==
    ASSUME TypeInv, SessionInv, NEW d \in s_fds, NEW out \in BOOLEAN, NEW in \in BOOLEAN, FromServer(d, out, in)
    PROVE  ServerKept(d)
<1> PICK q, front : q = s_storage[d] /\ front = IF out /\ ServerUnsent(d) THEN Head(q) ELSE <<>>
  OBVIOUS
<1>1. d \in DOMAIN s_storage /\ d \in DOMAIN owner /\ owner[d] \in Endpoint /\ q \in Queue
  BY SessionFacts, ServerFacts DEF IsMap
<1>2. PICK n \in IF front = <<>> THEN {0} ELSE SendResults(d, front) :
        /\ Transmit(d, front, n)
        /\ \/ Flushed(q, n) = <<>>
           \/ HasLeft(d)
           \/ s_storage' = Put(s_storage, d, Flushed(q, n)) /\ UNCHANGED s_fds
  <2>1. in => Readable(owner[d])
    BY DEF FromServer
  <2>2. ASSUME in, Available(owner[d]) = 0 PROVE HasLeft(d)
    BY <2>1, <2>2 DEF Readable, HasLeft
  <2> QED
    BY <2>2 DEF FromServer, ServerRead, HasLeft
<1>3. front = <<>> \/ (q # <<>> /\ front = Head(q))
  BY DEF ServerUnsent
<1>4. /\ n \in Int /\ (n > 0 => q # <<>> /\ n <= Len(Head(q)))
      /\ SubSeq(front, 1, n) = SentOf(q, n)
  BY <1>1, <1>2, <1>3, FrontSent
<1>5. Units(q) \subseteq Units(Flushed(q, n)) \cup Range(SentOf(q, n))
  BY <1>1, <1>4, FlushKeepsUnits
<1>6. SentOf(q, n) \in Seq(Unit)
  <2>1. q # <<>> => Head(q) \in Seq(Unit)
    BY <1>1 DEF Queue
  <2> QED
    BY <1>4, <2>1 DEF SentOf
<1>7. Range(SentOf(q, n)) \subseteq Range(got'[owner[d]])
  BY <1>1, <1>2, <1>4, <1>6, TransmitPasses
<1>8. CASE Flushed(q, n) = <<>>
  BY <1>5, <1>7, <1>8, NoUnits DEF ServerKept
<1>9. CASE s_storage' = Put(s_storage, d, Flushed(q, n)) /\ UNCHANGED s_fds
  <2>1. s_storage'[d] = Flushed(q, n)
    BY <1>9 DEF Put
  <2> QED
    BY <1>5, <1>7, <1>9, <2>1 DEF ServerKept
<1> QED
  BY <1>2, <1>8, <1>9 DEF ServerKept

LEMMA ServerStepKeepsQueues ==
    ASSUME ~Recycle, TypeInv, SessionInv, FlushInv, ServerStep, NEW d \in s_fds
    PROVE  ServerKept(d)
<1>1. d \in DOMAIN s_storage /\ d \in DOMAIN owner
  BY ServerFacts
<1>2. ASSUME d \in s_fds', s_storage'[d] = s_storage[d] PROVE ServerKept(d)
  BY <1>2 DEF ServerKept
<1>3. ASSUME NEW e, ServerCloseConnectForce(e), e # d PROVE ServerKept(d)
  <2>1. d \in s_fds' /\ s_storage'[d] = s_storage[d]
    BY <1>1, <1>3 DEF ServerCloseConnectForce, Erase
  <2> QED
    BY <1>2, <2>1
<1>4. ASSUME NEW e, ServerCloseConnect(e) PROVE ServerKept(d)
  <2>1. CASE ServerUnsent(e)
    BY <1>2, <1>4, <2>1 DEF ServerCloseConnect
  <2>2. CASE ~ServerUnsent(e) /\ e # d
    BY <1>3, <1>4, <2>2 DEF ServerCloseConnect
  <2>3. CASE ~ServerUnsent(e) /\ e = d
    <3>1. s_storage[d] = <<>>
      BY <1>1, <2>3 DEF ServerUnsent
    <3> QED
      BY <3>1, NoUnits DEF ServerKept
  <2> QED
    BY <2>1, <2>2, <2>3
<1>5. CASE SocketFails \/ ServerPollNval \/ ServerHupOnEmptySlot
  BY <1>2, <1>5 DEF SocketFails, ServerPollNval, ServerFatal, ServerHupOnEmptySlot, svars
<1>6. CASE FromClientNewConnect
  <2>1. CASE UNCHANGED <<s_fds, s_storage>>
    BY <1>2, <2>1
  <2>2. CASE ~UNCHANGED <<s_fds, s_storage>>
    <3>1. PICK s \in Fd : \E far : Connecting(s, Head(cs), far)
      BY <1>6, <2>2 DEF FromClientNewConnect
    <3>2. s # d /\ s_storage' = Put(s_storage, s, <<>>) /\ s_fds' = s_fds \cup {s}
      BY <1>1, <3>1 DEF Connecting, GiveOut, IsNextFd, Taken
    <3>3. s_storage'[d] = s_storage[d] /\ d \in s_fds'
      BY <1>1, <3>2 DEF Put
    <3> QED
      BY <1>2, <3>3
  <2> QED
    BY <2>1, <2>2
<1>7. CASE FromClientData
  BY <1>7, FromClientDataKeepsQueue
<1>8. CASE FromClientConnectNotFound \/ FromClientDisconnect
  BY <1>4, <1>8 DEF FromClientConnectNotFound, FromClientDisconnect
<1>9. ASSUME NEW s \in Fd, ServerHup(s) PROVE ServerKept(d)
  <2>1. CASE s = d
    BY <1>9, <2>1 DEF ServerHup, ServerKept, HasLeft
  <2>2. CASE s # d
    BY <1>3, <1>9, <2>2 DEF ServerHup
  <2> QED
    BY <2>1, <2>2
<1>10. ASSUME d \in s_con_wait PROVE s_storage[d] = <<>>
  BY <1>1, <1>10 DEF FlushInv, FlushOK
<1>11. ASSUME NEW s \in Fd, ConnectTimeout(s) PROVE ServerKept(d)
  <2>1. CASE s = d
    BY <1>10, <1>11, <2>1, NoUnits DEF ConnectTimeout, ServerKept
  <2>2. CASE s # d
    BY <1>2, <1>11, <2>2 DEF ConnectTimeout
  <2> QED
    BY <2>1, <2>2
<1>12. ASSUME NEW s \in Fd, s # d, NEW db, NEW q, NEW log, NEW forClose, ServerRead(s, db, q, log, forClose)
       PROVE  ServerKept(d)
  <2>1. CASE ServerCloseConnectForce(s)
    BY <1>3, <1>12, <2>1
  <2>2. CASE s_storage' = Put(s_storage, s, q) /\ UNCHANGED s_fds
    <3>1. s_storage'[d] = s_storage[d] /\ d \in s_fds'
      BY <1>1, <1>12, <2>2 DEF Put
    <3> QED
      BY <1>2, <3>1
  <2> QED
    BY <1>12, <2>1, <2>2 DEF ServerRead
<1>13. ASSUME NEW s \in Fd, NEW in \in BOOLEAN, ConnectFinished(s, in)
       PROVE  ServerKept(d)
  <2>1. CASE s = d
    BY <1>10, <1>13, <2>1, NoUnits DEF ConnectFinished, ServerKept
  <2>2. CASE s # d /\ (ServerCloseConnectForce(s) \/ UNCHANGED <<s_fds, s_storage>>)
    BY <1>2, <1>3, <2>2
  <2>3. CASE s # d /\ \E db, log : ServerRead(s, db, s_storage[s], log, FALSE)
    BY <1>12, <2>3
  <2> QED
    BY <1>13, <2>1, <2>2, <2>3 DEF ConnectFinished
<1>14. ASSUME NEW s \in Fd, NEW out \in BOOLEAN, NEW in \in BOOLEAN, FromServer(s, out, in)
       PROVE  ServerKept(d)
  <2>1. CASE s = d
    BY <1>14, <2>1, FromServerKeepsQueue
  <2>2. CASE s # d /\ ServerCloseConnectForce(s)
    BY <1>3, <2>2
  <2>3. CASE s # d /\ \E db, q, log, forClose : ServerRead(s, db, q, log, forClose)
    BY <1>12, <2>3
  <2>4. CASE s # d /\ \E q : s_storage' = Put(s_storage, s, q) /\ UNCHANGED s_fds
    <3>1. s_storage'[d] = s_storage[d] /\ d \in s_fds'
      BY <1>1, <2>4 DEF Put
    <3> QED
      BY <1>2, <3>1
  <2> QED
    BY <1>14, <2>1, <2>2, <2>3, <2>4 DEF FromServer
<1> QED
  BY <1>5, <1>6, <1>7, <1>8, <1>9, <1>11, <1>13, <1>14 DEF ServerStep, ServerHandlesMessage, ServerServes

\* Without recycled numbers, no step of either thread, of a far end or of the network loses a
\* unit that is queued in `storage', but for a socket whose far end has left.
THEOREM QueuedIsAlwaysKept == ~Recycle => (Spec => QueuedIsKept)
<1> SUFFICES ASSUME ~Recycle PROVE Spec => QueuedIsKept
  OBVIOUS
<1>1. TypeInv /\ SessionInv /\ FlushInv /\ [Next]_vars =>
        [(\A d \in c_fds : ClientKept(d)) /\ (\A d \in s_fds : ServerKept(d))]_vars
  <2> SUFFICES ASSUME TypeInv, SessionInv, FlushInv, Next
               PROVE  (\A d \in c_fds : ClientKept(d)) /\ (\A d \in s_fds : ServerKept(d))
    OBVIOUS
  <2>1. CASE ClientStep /\ UNCHANGED svars
    BY <2>1, ClientStepKeepsQueues DEF svars, ServerKept
  <2>2. CASE ServerStep /\ UNCHANGED cvars
    BY <2>2, ServerStepKeepsQueues DEF cvars, ClientKept
  <2>3. CASE NetStep /\ UNCHANGED <<cvars, svars>>
    BY <2>3 DEF cvars, svars, ClientKept, ServerKept
  <2> QED
    BY <2>1, <2>2, <2>3 DEF Next
<1> QED
  BY <1>1, TypeInvariant, SessionInvariant, FlushInvariant, PTL DEF Spec, QueuedIsKept, ClientKept, ServerKept, HasLeft

-----------------------------------------------------------------------------
(* An end that is gone                                                     *)

\* What a step that lets nobody in closes, its thread stops to poll.
Closes(d) == open' = open \ {d} /\ c_fds \ {d} \subseteq c_fds' /\ s_fds \ {d} \subseteq s_fds'

LEMMA ClientCloses ==
    ASSUME ClientStep, UNCHANGED svars
    PROVE  (\E k \in Sessions : Accept(k)) \/ UNCHANGED <<open, c_fds, s_fds>> \/ \E d : Closes(d)
<1>1. CASE AcceptFails \/ ClientPollNval \/ ClientHupOnEmptySlot
  BY <1>1 DEF AcceptFails, ClientPollNval, ClientFatal, ClientHupOnEmptySlot, cvars, svars
<1>2. CASE FromServerNewConnect \/ FromServerData
  BY <1>2 DEF FromServerNewConnect, FromServerData, svars
<1>3. CASE FromServerNotConnect \/ FromServerDisconnect
  BY <1>3 DEF FromServerNotConnect, FromServerDisconnect, ClientCloseConnect, ClientCloseConnectForce,
         Closes, svars
<1>4. ASSUME NEW c \in Fd, ClientHup(c) PROVE Closes(c)
  BY <1>4 DEF ClientHup, ClientCloseConnectForce, Closes, svars
<1>5. ASSUME NEW c \in Fd, NEW out \in BOOLEAN, NEW in \in BOOLEAN, FromClients(c, out, in)
      PROVE  UNCHANGED <<open, c_fds, s_fds>> \/ Closes(c)
  <2>1. UNCHANGED <<open, c_fds>> \/ ClientCloseConnectForce(c)
    BY <1>5 DEF FromClients, ClientRead
  <2> QED
    BY <2>1 DEF ClientCloseConnectForce, Closes, svars
<1> QED
  BY <1>1, <1>2, <1>3, <1>4, <1>5 DEF ClientStep, ClientHandlesMessage, ClientServes

LEMMA ServerCloses ==
    ASSUME ServerStep, UNCHANGED cvars
    PROVE  \/ FromClientNewConnect
           \/ UNCHANGED <<owner, peer>> /\ (UNCHANGED <<open, c_fds, s_fds>> \/ \E d : Closes(d))
<1>1. CASE SocketFails \/ ServerPollNval \/ ServerHupOnEmptySlot
  BY <1>1 DEF SocketFails, ServerPollNval, ServerFatal, ServerHupOnEmptySlot, cvars, svars, netvars
<1>2. CASE FromClientData
  BY <1>2 DEF FromClientData, cvars
<1>3. CASE FromClientConnectNotFound \/ FromClientDisconnect
  BY <1>3 DEF FromClientConnectNotFound, FromClientDisconnect, ServerCloseConnect, ServerCloseConnectForce,
         Closes, cvars, netvars
<1>4. ASSUME NEW s \in Fd, ConnectTimeout(s) \/ ServerHup(s)
      PROVE  UNCHANGED <<owner, peer>> /\ Closes(s)
  BY <1>4 DEF ConnectTimeout, ServerHup, ServerCloseConnectForce, Closes, cvars, netvars
<1>5. ASSUME NEW s \in Fd, NEW in \in BOOLEAN, ConnectFinished(s, in)
      PROVE  UNCHANGED <<owner, peer>> /\ (UNCHANGED <<open, c_fds, s_fds>> \/ Closes(s))
  <2>1. UNCHANGED <<owner, peer>> /\ (UNCHANGED <<open, s_fds>> \/ ServerCloseConnectForce(s))
    BY <1>5 DEF ConnectFinished, ServerRead
  <2> QED
    BY <2>1 DEF ServerCloseConnectForce, Closes, cvars
<1>6. ASSUME NEW s \in Fd, NEW out \in BOOLEAN, NEW in \in BOOLEAN, FromServer(s, out, in)
      PROVE  UNCHANGED <<owner, peer>> /\ (UNCHANGED <<open, c_fds, s_fds>> \/ Closes(s))
  <2>1. UNCHANGED <<owner, peer>>
    BY <1>6 DEF FromServer
  <2>2. UNCHANGED <<open, s_fds>> \/ ServerCloseConnectForce(s)
    BY <1>6 DEF FromServer, ServerRead
  <2> QED
    BY <2>1, <2>2 DEF ServerCloseConnectForce, Closes, cvars
<1> QED
  BY <1>1, <1>2, <1>3, <1>4, <1>5, <1>6 DEF ServerStep, ServerHandlesMessage, ServerServes

LEMMA QuietAnnounces ==
    ASSUME TypeInv, PipeQuiet(cs, cs')
    PROVE  \A k : Announced(k)' => Announced(k)
<1>1. \A k : Announced(k)' <=> \E m \in Carried(cs') : m.tod = "new_connect" /\ m.who = k
  BY DEF Announced, Carried
<1>2. \A m \in Carried(cs') : m.tod = "new_connect" => m \in Carried(cs)
  <2>1. CASE cs' = cs \/ (cs # <<>> /\ cs' = Tail(cs))
    BY <2>1, PipesMove
  <2>2. ASSUME NEW n, n.tod # "new_connect", cs' = Append(cs, n)
        PROVE  \A m \in Carried(cs') : m.tod = "new_connect" => m \in Carried(cs)
    BY <2>2, PipesMove
  <2> QED
    BY <2>1, <2>2 DEF PipeQuiet
<1> QED
  BY <1>1, <1>2, PipesMove

\* A descriptor that is given out is polled by the thread it was given to.
LEMMA GivenIsPolled ==
    ASSUME ~Recycle, TypeInv, OpenArePolled, NEW d, NEW ep \in Endpoint, GiveOut(d, ep),
           c_fds \subseteq c_fds', s_fds \subseteq s_fds',
           ep.side = "client" => d \in c_fds', ep.side = "server" => d \in s_fds'
    PROVE  OpenArePolled'
<1>1. /\ OwnerGrows /\ d \notin DOMAIN owner /\ open' = open \cup {d} /\ owner'[d] = ep
  BY FreshNumber
<1>2. open \subseteq DOMAIN owner
  BY DEF TypeInv, TypeOK, SharedTypeOK
<1>3. \A x \in open : (IsClientFd(x)' <=> IsClientFd(x)) /\ (IsServerFd(x)' <=> IsServerFd(x))
  BY <1>1, <1>2, ReferencesStay
<1>4. (IsClientFd(d)' => ep.side = "client") /\ (IsServerFd(d)' => ep.side = "server")
  BY <1>1 DEF IsClientFd, IsServerFd
<1> QED
  BY <1>1, <1>3, <1>4 DEF OpenArePolled

LEMMA NextOpenArePolled ==
    ASSUME ~Recycle, TypeInv, OnceInv, OpenArePolled, [Next]_vars
    PROVE  OpenArePolled'
<1>1. ASSUME UNCHANGED owner, UNCHANGED <<open, c_fds, s_fds>> \/ \E d : Closes(d)
      PROVE  OpenArePolled'
  BY <1>1 DEF OpenArePolled, Closes, IsClientFd, IsServerFd
<1>2. CASE ClientStep /\ UNCHANGED svars
  <2>1. ASSUME NEW k \in Sessions, Accept(k) PROVE OpenArePolled'
    <3>1. PICK c \in Fd : GiveOut(c, Client(k)) /\ c_fds' = c_fds \cup {c}
      BY <2>1 DEF Accept
    <3>2. Client(k) \in Endpoint /\ Client(k).side = "client"
      BY DEF Client, Endpoint
    <3> QED
      BY <1>2, <3>1, <3>2, GivenIsPolled DEF svars
  <2>2. (\E k \in Sessions : Accept(k)) \/ UNCHANGED owner
    BY <1>2, ClientIsQuiet
  <2> QED
    BY <1>1, <1>2, <2>1, <2>2, ClientCloses
<1>3. CASE ServerStep /\ UNCHANGED cvars
  <2>1. ASSUME NEW s \in Fd, NEW far, Connecting(s, Head(cs), far), ServerReceives("new_connect")
        PROVE  OpenArePolled'
    <3>1. Head(cs).who \in Sessions
      BY <2>1, FrontAnnounces DEF ServerReceives
    <3>2. Server(Head(cs).who) \in Endpoint /\ Server(Head(cs).who).side = "server"
      BY <3>1 DEF Server, Endpoint
    <3> QED
      BY <1>3, <2>1, <3>2, GivenIsPolled DEF cvars, Connecting
  <2>2. CASE FromClientNewConnect
    BY <1>1, <1>3, <2>1, <2>2 DEF FromClientNewConnect, cvars
  <2> QED
    BY <1>1, <1>3, <2>2, ServerCloses
<1>4. CASE NetStep /\ UNCHANGED <<cvars, svars>>
  BY <1>1, <1>4, NetIsQuiet DEF cvars, svars
<1>5. CASE UNCHANGED vars
  BY <1>1, <1>5 DEF vars, sharedvars, cvars, svars
<1> QED
  BY <1>2, <1>3, <1>4, <1>5 DEF Next

LEMMA NextCalledAfterwards ==
    ASSUME ~Recycle, TypeInv, OnceInv, CalledAfterwards, [Next]_vars
    PROVE  CalledAfterwards'
<1>1. peer \in [Endpoint -> PeerState] /\ \A k \in Sessions : Client(k) \in Endpoint /\ Server(k) \in Endpoint
  BY DEF TypeInv, TypeOK, SharedTypeOK, Client, Server, Endpoint
<1>2. ASSUME PipeQuiet(cs, cs'), UNCHANGED <<backlog, peer>> PROVE CalledAfterwards'
  BY <1>2, QuietAnnounces DEF CalledAfterwards, Waiting
<1>3. ASSUME NEW k \in Sessions, Accept(k) PROVE CalledAfterwards'
  <2>1. UNCHANGED peer /\ k \in backlog /\ backlog' = backlog \ {k} /\ \E c : cs' = Append(cs, ConnectMsg(c, k))
    BY <1>3 DEF Accept
  <2>2. PICK c : cs' = Append(cs, ConnectMsg(c, k))
    BY <2>1
  <2>3. Carried(cs') = Carried(cs) \cup {ConnectMsg(c, k)} /\ ConnectMsg(c, k).who = k
    BY <2>2, PipesMove DEF ConnectMsg, Msg
  <2>4. \A x : Announced(x)' <=> \E m \in Carried(cs') : m.tod = "new_connect" /\ m.who = x
    BY DEF Announced, Carried
  <2>5. \A x : Announced(x)' => Announced(x) \/ x = k
    BY <2>3, <2>4, PipesMove
  <2> QED
    BY <2>1, <2>5 DEF CalledAfterwards, Waiting
<1>4. ASSUME ServerReceives("new_connect"), UNCHANGED backlog,
             NEW s, NEW far, Connecting(s, Head(cs), far)
      PROVE  CalledAfterwards'
  <2>1. PICK k : k = Head(cs).who
    OBVIOUS
  <2>2. k \in Sessions /\ Announced(k) /\ ~Announced(k)' /\ \A x : Announced(x)' => Announced(x)
    BY <1>4, <2>1, FrontAnnounces DEF ServerReceives
  <2>3. peer' = [peer EXCEPT ![Server(k)] = far]
    BY <1>4, <2>1 DEF Connecting
  <2>4. \A x \in Sessions : Client(x) # Server(k) /\ (x # k => Server(x) # Server(k))
    BY DEF Client, Server
  <2>5. ~Waiting(k)
    BY <2>2 DEF OnceInv
  <2>6. \A x \in Sessions : (Waiting(x)' <=> Waiting(x)) /\ (x # k => peer'[Server(x)] = peer[Server(x)])
    BY <1>1, <1>4, <2>3, <2>4 DEF Waiting
  <2> QED
    BY <2>2, <2>5, <2>6 DEF CalledAfterwards
<1>5. CASE NetStep
  <2>1. \A k \in Sessions : (Waiting(k)' => Waiting(k)) /\ (Announced(k)' <=> Announced(k))
    BY <1>5, NetIsQuiet DEF Announced
  <2>2. \A k \in Sessions : peer[Server(k)] = "none" => peer'[Server(k)] = "none"
    <3>1. ASSUME NEW j \in Sessions, Connect(j)
          PROVE  \A k \in Sessions : peer'[Server(k)] = peer[Server(k)]
      BY <1>1, <3>1 DEF Connect, Client, Server
    <3>2. ASSUME NEW ep \in Endpoint, PeerStep(ep)
          PROVE  \A k \in Sessions : peer[Server(k)] = "none" => peer'[Server(k)] = "none"
      <4>1. UNCHANGED peer \/ (peer[ep] # "none" /\ \E a : peer' = [peer EXCEPT ![ep] = a])
        BY <3>2 DEF PeerStep, ConnectAnswered, PeerSends, PeerShutsDown, PeerResets
      <4> QED
        BY <1>1, <4>1
    <3> QED
      BY <1>5, <3>1, <3>2 DEF NetStep
  <2> QED
    BY <2>1, <2>2 DEF CalledAfterwards
<1>6. CASE ClientStep
  BY <1>2, <1>3, <1>6, ClientIsQuiet
<1>7. CASE ServerStep
  BY <1>2, <1>4, <1>7, ServerIsQuiet
<1>8. CASE UNCHANGED vars
  BY <1>2, <1>8 DEF vars, sharedvars, PipeQuiet
<1> QED
  BY <1>5, <1>6, <1>7, <1>8 DEF Next

\* A socket is put on the flush list when a message asks to close it over unsent data.
LEMMA ClientFlushes ==
    ASSUME ClientStep
    PROVE  \/ c_for_close' \subseteq c_for_close
           \/ \E d : /\ c_for_close' \subseteq c_for_close \cup {d} /\ ClientUnsent(d)
                     /\ sc # <<>> /\ EndsClient(Head(sc), d) /\ UNCHANGED <<owner, open>>
<1>1. CASE AcceptFails \/ ClientPollNval \/ ClientHupOnEmptySlot \/ \E k \in Sessions : Accept(k)
  BY <1>1 DEF AcceptFails, ClientPollNval, ClientFatal, ClientHupOnEmptySlot, Accept, cvars
<1>2. CASE FromServerNewConnect \/ FromServerData
  BY <1>2 DEF FromServerNewConnect, FromServerData
<1>3. CASE FromServerNotConnect \/ FromServerDisconnect
  <2>1. PICK d : d = Head(sc).c
    OBVIOUS
  <2>2. sc # <<>> /\ EndsClient(Head(sc), d) /\ ClientCloseConnect(d) /\ UNCHANGED owner
    BY <1>3, <2>1 DEF FromServerNotConnect, FromServerDisconnect, ClientReceives, EndsClient
  <2> QED
    BY <2>2 DEF ClientCloseConnect, ClientCloseConnectForce
<1>4. CASE \E c \in Fd : ClientServes(c)
  BY <1>4 DEF ClientServes, FromClients, ClientRead, ClientHup, ClientCloseConnectForce
<1> QED
  BY <1>1, <1>2, <1>3, <1>4 DEF ClientStep, ClientHandlesMessage

LEMMA ServerFlushes ==
    ASSUME ServerStep
    PROVE  \/ s_for_close' \subseteq s_for_close
           \/ \E d : /\ s_for_close' \subseteq s_for_close \cup {d} /\ ServerUnsent(d)
                     /\ cs # <<>> /\ EndsServer(Head(cs), d) /\ UNCHANGED <<owner, open>>
<1>1. CASE SocketFails \/ ServerPollNval \/ ServerHupOnEmptySlot \/ FromClientNewConnect \/ FromClientData
  BY <1>1 DEF SocketFails, ServerPollNval, ServerFatal, ServerHupOnEmptySlot, FromClientNewConnect,
         FromClientData, svars
<1>2. CASE FromClientConnectNotFound \/ FromClientDisconnect
  <2>1. PICK d : d = Head(cs).s
    OBVIOUS
  <2>2. cs # <<>> /\ EndsServer(Head(cs), d) /\ ServerCloseConnect(d) /\ UNCHANGED owner
    BY <1>2, <2>1 DEF FromClientConnectNotFound, FromClientDisconnect, ServerReceives, EndsServer
  <2> QED
    BY <2>2 DEF ServerCloseConnect, ServerCloseConnectForce
<1>3. CASE \E s \in Fd : ConnectTimeout(s) \/ ServerHup(s)
  BY <1>3 DEF ConnectTimeout, ServerHup, ServerCloseConnectForce
<1>4. CASE \E s \in Fd, in \in BOOLEAN : ConnectFinished(s, in)
  BY <1>4 DEF ConnectFinished, ServerRead, ServerCloseConnectForce
<1>5. CASE \E s \in Fd : \E out, in \in BOOLEAN : FromServer(s, out, in)
  BY <1>5 DEF FromServer, ServerRead, ServerCloseConnectForce
<1> QED
  BY <1>1, <1>2, <1>3, <1>4, <1>5 DEF ServerStep, ServerHandlesMessage, ServerServes

\* Sockets that wait to be flushed are open, and the ends of sessions.
LEMMA FlushedArePolled ==
    ASSUME Rest
    PROVE  /\ c_for_close \subseteq c_fds /\ s_for_close \subseteq s_fds
           /\ \A d : ClientUnsent(d) => d \in c_fds
           /\ \A d : ServerUnsent(d) => d \in s_fds
           /\ c_fds \cup s_fds \subseteq DOMAIN owner
BY SessionFacts DEF Rest, FlushInv, FlushOK, ClientUnsent, ServerUnsent, IsClientFd, IsServerFd

LEMMA NextNeverBothFlushed ==
    ASSUME ~Recycle, Rest, NeverBothFlushed, [Next]_vars
    PROVE  NeverBothFlushed'
<1>1. ASSUME \A d \in DOMAIN owner : owner'[d] = owner[d],
             c_for_close' \subseteq c_for_close, s_for_close' \subseteq s_for_close
      PROVE  NeverBothFlushed'
  BY <1>1, FlushedArePolled DEF NeverBothFlushed
<1>2. CASE ClientStep /\ UNCHANGED svars
  <2>1. ASSUME NEW d, c_for_close' \subseteq c_for_close \cup {d}, ClientUnsent(d),
               sc # <<>>, EndsClient(Head(sc), d), UNCHANGED owner
        PROVE  NeverBothFlushed'
    <3>1. d \in c_fds /\ IsClientFd(d) /\ Head(sc) \in Carried(sc)
      BY <2>1, FlushedArePolled, SessionFacts, PipesMove DEF Rest
    <3>2. ASSUME NEW s \in s_for_close, owner[d].id = owner[s].id PROVE d \in c_for_close
      <4>1. owner[s].id \notin ClientSide
        BY DEF Rest, OrphanInv
      <4> QED
        BY <3>1, <3>2, <4>1 DEF ClientSide, LiveClients
    <3> QED
      BY <1>2, <2>1, <3>2 DEF NeverBothFlushed, svars
  <2> QED
    BY <1>1, <1>2, <2>1, ClientFlushes, OwnerStays DEF Rest, svars
<1>3. CASE ServerStep /\ UNCHANGED cvars
  <2>1. ASSUME NEW d, s_for_close' \subseteq s_for_close \cup {d}, ServerUnsent(d),
               cs # <<>>, EndsServer(Head(cs), d), UNCHANGED owner
        PROVE  NeverBothFlushed'
    <3>1. d \in s_fds
      BY <2>1, FlushedArePolled
    <3>2. ASSUME NEW c \in c_for_close, owner[c].id = owner[d].id PROVE d \in s_for_close
      <4>1. owner[c].id \notin ServerSide
        BY DEF Rest, OrphanInv
      <4> QED
        BY <3>1, <3>2, <4>1 DEF ServerSide, LiveServers
    <3> QED
      BY <1>3, <2>1, <3>2 DEF NeverBothFlushed, cvars
  <2> QED
    BY <1>1, <1>3, <2>1, ServerFlushes, OwnerStays DEF Rest, cvars
<1>4. CASE NetStep /\ UNCHANGED <<cvars, svars>>
  BY <1>1, <1>4, NetIsQuiet DEF Rest, cvars, svars
<1>5. CASE UNCHANGED vars
  BY <1>1, <1>5 DEF vars, sharedvars, cvars, svars
<1> QED
  BY <1>2, <1>3, <1>4, <1>5 DEF Next

LEMMA GoneInvariant == ~Recycle => (Spec => []GoneInv)
<1> SUFFICES ASSUME ~Recycle PROVE Spec => []GoneInv
  OBVIOUS
<1>1. Init => GoneInv
  <2> SUFFICES ASSUME Init PROVE GoneInv
    OBVIOUS
  <2>1. OpenArePolled
    BY DEF Init, SharedInit, OpenArePolled, IsClientFd, IsServerFd, Stdio
  <2>2. CalledAfterwards
    BY DEF Init, SharedInit, CalledAfterwards, Server, Endpoint
  <2>3. NeverBothFlushed
    BY DEF Init, ClientInit, NeverBothFlushed
  <2> QED
    BY <2>1, <2>2, <2>3 DEF GoneInv
<1>2. Rest /\ GoneInv /\ [Next]_vars => GoneInv'
  BY NextOpenArePolled, NextCalledAfterwards, NextNeverBothFlushed DEF Rest, GoneInv
<1> QED
  BY <1>1, <1>2, OrphanInvariant, PTL DEF Spec

\* The other end is out of the proxy when a socket only waits to be flushed or is asked to close.
LEMMA OneIsGone ==
    ASSUME Rest, GoneInv
    PROVE  /\ \A c \in c_for_close : ~InProxy(Server(owner[c].id))
           /\ \A s \in s_for_close : ~InProxy(Client(owner[s].id))
           /\ \A m \in Carried(sc) : \A c \in c_fds : EndsClient(m, c) => ~InProxy(Server(owner[c].id))
           /\ \A m \in Carried(cs) : \A s \in s_fds : EndsServer(m, s) => ~InProxy(Client(owner[s].id))
<1>1. ASSUME NEW c \in c_fds, owner[c].id \notin ServerSide, InProxy(Server(owner[c].id))
      PROVE  \E s \in s_for_close : owner[s].id = owner[c].id
  <2>1. PICK s \in open : owner[s] = Server(owner[c].id)
    BY <1>1 DEF InProxy
  <2>2. IsServerFd(s) /\ owner[s].id = owner[c].id
    BY <2>1 DEF IsServerFd, Server, Rest, TypeInv, TypeOK, SharedTypeOK
  <2>3. s \in s_fds
    BY <2>2 DEF GoneInv, OpenArePolled
  <2> QED
    BY <1>1, <2>2, <2>3 DEF ServerSide, LiveServers
<1>2. ASSUME NEW s \in s_fds, owner[s].id \notin ClientSide, InProxy(Client(owner[s].id))
      PROVE  \E c \in c_for_close : owner[c].id = owner[s].id
  <2>1. PICK c \in open : owner[c] = Client(owner[s].id)
    BY <1>2 DEF InProxy
  <2>2. IsClientFd(c) /\ owner[c].id = owner[s].id
    BY <2>1 DEF IsClientFd, Client, Rest, TypeInv, TypeOK, SharedTypeOK
  <2>3. c \in c_fds
    BY <2>2 DEF GoneInv, OpenArePolled
  <2> QED
    BY <1>2, <2>2, <2>3 DEF ClientSide, LiveClients
<1>3. ASSUME NEW c \in c_for_close PROVE ~InProxy(Server(owner[c].id))
  <2>1. c \in c_fds /\ owner[c].id \notin ServerSide
    BY FlushedArePolled DEF Rest, OrphanInv
  <2> QED
    BY <1>1, <2>1 DEF GoneInv, NeverBothFlushed
<1>4. ASSUME NEW s \in s_for_close PROVE ~InProxy(Client(owner[s].id))
  <2>1. s \in s_fds /\ owner[s].id \notin ClientSide
    BY FlushedArePolled DEF Rest, OrphanInv
  <2> QED
    BY <1>2, <2>1 DEF GoneInv, NeverBothFlushed
<1>5. ASSUME NEW m \in Carried(sc), NEW c \in c_fds, EndsClient(m, c) PROVE ~InProxy(Server(owner[c].id))
  <2>1. IsClientFd(c) /\ owner[c].id \notin ServerSide
    BY <1>5, SessionFacts DEF Rest, OrphanInv, EndsClient
  <2>2. ASSUME NEW s \in s_for_close, owner[s].id = owner[c].id PROVE FALSE
    <3>1. owner[s].id \notin ClientSide
      BY DEF Rest, OrphanInv
    <3>2. c \in c_for_close
      BY <2>2, <3>1 DEF ClientSide, LiveClients
    <3> QED
      BY <2>2, <3>2 DEF GoneInv, NeverBothFlushed
  <2> QED
    BY <1>1, <2>1, <2>2
<1>6. ASSUME NEW m \in Carried(cs), NEW s \in s_fds, EndsServer(m, s) PROVE ~InProxy(Client(owner[s].id))
  <2>1. IsServerFd(s) /\ owner[s].id \notin ClientSide
    BY <1>6, SessionFacts DEF Rest, OrphanInv, EndsServer
  <2>2. ASSUME NEW c \in c_for_close, owner[c].id = owner[s].id PROVE FALSE
    <3>1. owner[c].id \notin ServerSide
      BY DEF Rest, OrphanInv
    <3>2. s \in s_for_close
      BY <2>2, <3>1 DEF ServerSide, LiveServers
    <3> QED
      BY <2>2, <3>2 DEF GoneInv, NeverBothFlushed
  <2> QED
    BY <1>2, <2>1, <2>2
<1> QED
  BY <1>3, <1>4, <1>5, <1>6

-----------------------------------------------------------------------------
(* The relay implements SessionSpec                                        *)

Left(ep) == peer[ep] \in {"fin", "rst"}

LEMMA EndsAreEndpoints ==
    /\ Promise!End = Endpoint
    /\ \A ep : Promise!Opposite(ep) = Opposite(ep)
    /\ \A k : Promise!Client(k) = Client(k) /\ Promise!Server(k) = Server(k)
    /\ \A ep \in Endpoint : Opposite(ep) \in Endpoint /\ Opposite(ep) # ep
    /\ \A k \in Sessions : Client(k) \in Endpoint /\ Server(k) \in Endpoint
    /\ \A ep \in Endpoint : ep = Client(ep.id) \/ ep = Server(ep.id)
    /\ \A ep \in Endpoint : ep.id \in Sessions /\ Opposite(ep).id = ep.id
<1>1. Promise!End = Endpoint
  BY DEF Promise!End, Endpoint
<1>2. \A k : Promise!Client(k) = Client(k) /\ Promise!Server(k) = Server(k)
  BY DEF Promise!Client, Promise!Server, Client, Server
<1>3. \A ep : Promise!Opposite(ep) = Opposite(ep)
  BY <1>2 DEF Promise!Opposite, Opposite
<1>4. \A k \in Sessions : Client(k) \in Endpoint /\ Server(k) \in Endpoint /\ Client(k) # Server(k)
  BY DEF Client, Server, Endpoint
<1>5. \A ep \in Endpoint : /\ ep.id \in Sessions
                           /\ ep = Client(ep.id) \/ ep = Server(ep.id)
                           /\ Client(ep.id).side = "client" /\ Server(ep.id).side = "server"
                           /\ Client(ep.id).id = ep.id /\ Server(ep.id).id = ep.id
  BY DEF Client, Server, Endpoint
<1>6. \A ep \in Endpoint : Opposite(ep) \in Endpoint /\ Opposite(ep) # ep /\ Opposite(ep).id = ep.id
  BY <1>4, <1>5 DEF Opposite
<1> QED
  BY <1>1, <1>2, <1>3, <1>4, <1>5, <1>6

LEMMA PromiseInit == Init => Promise!Init
<1> SUFFICES ASSUME Init PROVE Promise!Init
  OBVIOUS
<1>1. \A ep \in Endpoint : NotYet(ep)
  BY DEF Init, SharedInit, NotYet, Endpoint, Client
<1>2. \A ep \in Endpoint : StageOf(ep) = "absent"
  BY <1>1 DEF StageOf
<1>3. Promise!End = Endpoint
  BY EndsAreEndpoints
<1> QED
  BY <1>2, <1>3 DEF Promise!Init, Init, SharedInit

LEMMA PromiseFail ==
    ASSUME alive, ~alive', UNCHANGED <<owner, cs, netvars>>
    PROVE  Promise!Fail
<1>1. \A ep \in Endpoint : NotYet(ep)' = NotYet(ep)
  BY DEF NotYet, netvars
<1>2. \A ep \in Endpoint : StageOf(ep)' = IF StageOf(ep) = "absent" THEN "absent" ELSE "gone"
  BY <1>1 DEF StageOf
<1> QED
  BY <1>2, EndsAreEndpoints DEF Promise!Fail, netvars

\* No end changes its stage: a far end sends, or leaves, or nothing happens the promise speaks of.
StagesStay == \A ep \in Endpoint : StageOf(ep)' = StageOf(ep)

LEMMA PromiseNothing ==
    ASSUME StagesStay, \A ep \in Endpoint : Left(ep)' = Left(ep), UNCHANGED <<sent, read, got>>
    PROVE  UNCHANGED Promise!vars
BY DEF StagesStay, Left, Promise!vars

LEMMA PromiseFarSends ==
    ASSUME NEW e \in Endpoint, StagesStay, ~Left(e), UNCHANGED <<peer, read, got>>,
           sent' = [sent EXCEPT ![e] = @ + 1]
    PROVE  Promise!FarSends(e)
BY DEF StagesStay, Left, Promise!FarSends

LEMMA PromiseFarLeaves ==
    ASSUME NEW e \in Endpoint, StagesStay, UNCHANGED <<sent, read, got>>,
           peer \in [Endpoint -> PeerState], NEW a \in {"fin", "rst"}, peer' = [peer EXCEPT ![e] = a]
    PROVE  Promise!FarLeaves(e)
BY DEF StagesStay, Left, Promise!FarLeaves

\* A step whose stage changes for the end e only.
OthersStay(e) == \A ep \in Endpoint : ep # e => StageOf(ep)' = StageOf(ep)

LEMMA PromiseAdmit ==
    ASSUME NEW k \in Sessions, OthersStay(Client(k)), UNCHANGED <<peer, sent, read, got>>,
           StageOf(Client(k)) = "absent", StageOf(Client(k))' = "inside"
    PROVE  Promise!Admit(k)
<1>1. Client(k) \in Endpoint
  BY EndsAreEndpoints
<1>2. [ep \in Endpoint |-> StageOf(ep)'] = [[ep \in Endpoint |-> StageOf(ep)] EXCEPT ![Client(k)] = "inside"]
  BY <1>1 DEF OthersStay
<1> QED
  BY <1>1, <1>2, EndsAreEndpoints DEF Promise!Admit

LEMMA PromiseDial ==
    ASSUME NEW k \in Sessions, OthersStay(Server(k)), UNCHANGED <<sent, read, got>>,
           \A ep \in Endpoint : Left(ep)' = Left(ep),
           StageOf(Client(k)) # "absent", StageOf(Server(k)) = "absent",
           StageOf(Server(k))' \in {"dialing", "inside", "gone"}
    PROVE  Promise!Dial(k)
<1>1. Client(k) \in Endpoint /\ Server(k) \in Endpoint
  BY EndsAreEndpoints
<1>2. [ep \in Endpoint |-> StageOf(ep)']
        = [[ep \in Endpoint |-> StageOf(ep)] EXCEPT ![Server(k)] = StageOf(Server(k))']
  BY <1>1 DEF OthersStay
<1>3. [ep \in Endpoint |-> (peer[ep] \in {"fin", "rst"})]' = [ep \in Endpoint |-> peer[ep] \in {"fin", "rst"}]
  BY DEF Left
<1> QED
  BY <1>1, <1>2, <1>3, EndsAreEndpoints DEF Promise!Dial

\* What a handler takes from the end e, and what it delivers to it.
Takes(e) ==
    /\ read[e] < read'[e] /\ read'[e] <= sent[e]
    /\ read' = [read EXCEPT ![e] = read'[e]]
    /\ StageOf(Opposite(e)) \in {"inside", "gone"}

Delivers(e) ==
    /\ StageOf(e) = "inside"
    /\ Len(got[e]) < Len(got'[e]) /\ SubSeq(got'[e], 1, Len(got[e])) = got[e]
    /\ \A i \in Len(got[e]) + 1 .. Len(got'[e]) :
         /\ got'[e][i].from = Opposite(e)
         /\ got'[e][i].n <= read[Opposite(e)]
         /\ i > 1 => got'[e][i - 1].n < got'[e][i].n
    /\ got' = [got EXCEPT ![e] = got'[e]]

MayGo(e) == Left(e) \/ StageOf(Opposite(e)) = "gone" \/ StageOf(e) = "dialing"

LEMMA PromiseServe ==
    ASSUME NEW e \in Endpoint, UNCHANGED <<peer, sent>>,
           StageOf(e) \in {"dialing", "inside"}, OthersStay(e),
           UNCHANGED read \/ Takes(e), UNCHANGED got \/ Delivers(e),
           StageOf(e)' \in {StageOf(e), "inside"} \/ (StageOf(e)' = "gone" /\ MayGo(e))
    PROVE  Promise!Serve(e)
<1>1. Opposite(e) \in Endpoint
  BY EndsAreEndpoints
<1>2. [ep \in Endpoint |-> StageOf(ep)'] = [[ep \in Endpoint |-> StageOf(ep)] EXCEPT ![e] = StageOf(e)']
  BY DEF OthersStay
<1>3. UNCHANGED read \/ Promise!Takes(e)
  BY <1>1, EndsAreEndpoints DEF Promise!Takes, Takes
<1>4. UNCHANGED got \/ Promise!Delivers(e)
  BY <1>1, EndsAreEndpoints DEF Promise!Delivers, Delivers
<1>5. StageOf(e)' = "gone" => StageOf(e)' \in {StageOf(e), "inside"} \/ Promise!MayGo(e)
  BY <1>1, EndsAreEndpoints DEF Promise!MayGo, MayGo, Left
<1> QED
  BY <1>2, <1>3, <1>4, <1>5 DEF Promise!Serve

\* What every handler but those that announce or dial a session leaves alone.
Quiet ==
    /\ alive /\ UNCHANGED <<alive, owner, backlog, peer, sent>>
    /\ \/ cs' = cs
       \/ cs # <<>> /\ Head(cs).tod # "new_connect" /\ cs' = Tail(cs)
       \/ \E m : m.tod # "new_connect" /\ cs' = Append(cs, m)

LEMMA QuietStays ==
    ASSUME TypeInv, Quiet
    PROVE  \A ep \in Endpoint : NotYet(ep)' <=> NotYet(ep)
<1>1. \A k : Announced(k)' <=> \E m \in Carried(cs') : m.tod = "new_connect" /\ m.who = k
  BY DEF Announced, Carried
<1>2. \A k : Announced(k)' <=> Announced(k)
  <2>1. CASE cs' = cs
    BY <2>1 DEF Announced
  <2>2. CASE cs # <<>> /\ Head(cs).tod # "new_connect" /\ cs' = Tail(cs)
    BY <1>1, <2>2, PipesMove
  <2>3. ASSUME NEW n, n.tod # "new_connect", cs' = Append(cs, n)
        PROVE  \A k : Announced(k)' <=> Announced(k)
    BY <1>1, <2>3, PipesMove
  <2> QED
    BY <2>1, <2>2, <2>3 DEF Quiet
<1>3. UNCHANGED <<peer, backlog>>
  BY DEF Quiet
<1>4. \A ep : NotYet(ep) <=> \/ peer[Client(ep.id)] = "none" \/ ep.id \in backlog
                             \/ ep.side = "server" /\ peer[ep] = "none" /\ Announced(ep.id)
  BY DEF NotYet, Announced
<1>5. \A ep : NotYet(ep)' <=> \/ peer'[Client(ep.id)] = "none" \/ ep.id \in backlog'
                              \/ ep.side = "server" /\ peer'[ep] = "none" /\ Announced(ep.id)'
  BY DEF NotYet, Announced
<1> QED
  BY <1>2, <1>3, <1>4, <1>5

\* What happens to the socket d shows in no other stage than that of its end.
Happens(d) ==
    /\ open' = open \/ open' = open \ {d}
    /\ s_con_wait' = s_con_wait \/ s_con_wait' = s_con_wait \ {d}

LEMMA QuietStages ==
    ASSUME TypeInv, Quiet, NEW d, Happens(d)
    PROVE  /\ \A ep \in Endpoint : ep # owner[d] => StageOf(ep)' = StageOf(ep)
           /\ open' = open => \A ep \in Endpoint : StageOf(ep)' \in {StageOf(ep), "inside"}
           /\ open' = open /\ s_con_wait' = s_con_wait => StagesStay
<1> USE QuietStays DEF Happens
<1>1. alive /\ alive' /\ owner' = owner
  BY DEF Quiet
<1>2. \A ep \in Endpoint : ep # owner[d] =>
         /\ InProxy(ep)' <=> InProxy(ep)
         /\ (\E x \in s_con_wait' : owner'[x] = ep) <=> \E x \in s_con_wait : owner[x] = ep
  BY <1>1 DEF InProxy
<1>3. \A ep \in Endpoint : open' = open =>
         /\ InProxy(ep)' <=> InProxy(ep)
         /\ (\E x \in s_con_wait' : owner'[x] = ep) => \E x \in s_con_wait : owner[x] = ep
  BY <1>1 DEF InProxy
<1>4. \A ep \in Endpoint : open' = open /\ s_con_wait' = s_con_wait =>
         /\ InProxy(ep)' <=> InProxy(ep)
         /\ (\E x \in s_con_wait' : owner'[x] = ep) <=> \E x \in s_con_wait : owner[x] = ep
  BY <1>1, <1>3
<1>5. \A ep \in Endpoint : ep # owner[d] => StageOf(ep)' = StageOf(ep)
  BY <1>1, <1>2 DEF StageOf
<1>6. open' = open => \A ep \in Endpoint : StageOf(ep)' \in {StageOf(ep), "inside"}
  BY <1>1, <1>3 DEF StageOf
<1>7. open' = open /\ s_con_wait' = s_con_wait => StagesStay
  BY <1>1, <1>4 DEF StageOf, StagesStay
<1> QED
  BY <1>5, <1>6, <1>7

\* The end of a socket that is polled has come in, and so has the client of its session.
LEMMA PolledHaveCome ==
    ASSUME Rest, NEW d \in c_fds \cup s_fds
    PROVE  /\ owner[d] \in Endpoint /\ d \in DOMAIN owner /\ d \in open
           /\ ~NotYet(owner[d]) /\ ~Waiting(owner[d].id)
           /\ d \in s_fds => ~Announced(owner[d].id)
<1> USE DEF Rest
<1>1. /\ d \in DOMAIN owner /\ owner[d] \in Endpoint /\ d \in open
      /\ d \in s_fds => IsServerFd(d)
      /\ d \in c_fds => IsClientFd(d)
  BY SessionFacts DEF SessionInv, IsClientFd, IsServerFd
<1>2. owner[d] = Client(owner[d].id) \/ owner[d] = Server(owner[d].id)
  BY <1>1, EndsAreEndpoints
<1>3. ~Waiting(owner[d].id)
  BY <1>1, <1>2, EndsAreEndpoints DEF OnceInv, Numbered
<1>4. owner[d].side = "server" => ~Announced(owner[d].id)
  <2> SUFFICES ASSUME owner[d].side = "server" PROVE ~Announced(owner[d].id)
    OBVIOUS
  <2>1. owner[d] = Server(owner[d].id)
    BY <1>2 DEF Client
  <2> QED
    BY <1>1, <2>1, EndsAreEndpoints DEF OnceInv, Numbered
<1>5. ~NotYet(owner[d])
  BY <1>3, <1>4 DEF NotYet, Waiting, Announced
<1> QED
  BY <1>1, <1>3, <1>4, <1>5 DEF IsServerFd

LEMMA PolledStages ==
    ASSUME Rest, alive
    PROVE  /\ \A c \in c_fds : StageOf(owner[c]) = "inside"
           /\ \A s \in s_fds : StageOf(owner[s]) = IF s \in s_con_wait THEN "dialing" ELSE "inside"
<1> USE DEF Rest
<1>1. s_con_wait \subseteq s_fds
  BY DEF KnownInv, WaitersHaveClient
<1>2. \A s \in s_con_wait : IsServerFd(s)
  BY <1>1, SessionFacts
<1>3. ASSUME NEW c \in c_fds PROVE StageOf(owner[c]) = "inside"
  <2>1. IsClientFd(c) /\ c \in open /\ ~NotYet(owner[c])
    BY SessionFacts, PolledHaveCome
  <2>2. InProxy(owner[c])
    BY <2>1 DEF InProxy
  <2>3. \A s \in s_con_wait : owner[s] # owner[c]
    BY <1>2, <2>1 DEF IsClientFd, IsServerFd
  <2> QED
    BY <2>1, <2>2, <2>3 DEF StageOf
<1>4. ASSUME NEW s \in s_fds
      PROVE  StageOf(owner[s]) = IF s \in s_con_wait THEN "dialing" ELSE "inside"
  <2>1. s \in DOMAIN owner /\ s \in open /\ ~NotYet(owner[s])
    BY PolledHaveCome
  <2>2. InProxy(owner[s])
    BY <2>1 DEF InProxy
  <2>3. \A d \in s_con_wait : owner[d] = owner[s] => d = s
    BY <1>2, <2>1 DEF OnceInv, IsServerFd
  <2> QED
    BY <2>1, <2>2, <2>3 DEF StageOf
<1> QED
  BY <1>3, <1>4

\* The other end of a session one of whose ends is let go for it.
LEMMA OtherIsGone ==
    ASSUME Rest, GoneInv
    PROVE  /\ \A c \in c_for_close : StageOf(Opposite(owner[c])) = "gone"
           /\ \A s \in s_for_close : StageOf(Opposite(owner[s])) = "gone"
           /\ \A m \in Carried(sc) : \A c \in c_fds : EndsClient(m, c) => StageOf(Opposite(owner[c])) = "gone"
           /\ \A m \in Carried(cs) : \A s \in s_fds : EndsServer(m, s) => StageOf(Opposite(owner[s])) = "gone"
<1>1. ASSUME NEW c \in c_fds, owner[c].id \notin ServerSide, ~InProxy(Server(owner[c].id))
      PROVE  StageOf(Opposite(owner[c])) = "gone"
  <2>1. IsClientFd(c) /\ ~Waiting(owner[c].id)
    BY SessionFacts, PolledHaveCome DEF Rest
  <2>2. Opposite(owner[c]) = Server(owner[c].id) /\ Server(owner[c].id).id = owner[c].id
    BY <2>1 DEF Opposite, IsClientFd, Server
  <2>3. ~Announced(owner[c].id)
    BY <1>1, PipesMove DEF ServerSide, Rest
  <2>4. ~NotYet(Server(owner[c].id))
    BY <2>1, <2>2, <2>3 DEF NotYet, Waiting, Announced
  <2> QED
    BY <1>1, <2>2, <2>4 DEF StageOf
<1>2. ASSUME NEW s \in s_fds, ~InProxy(Client(owner[s].id))
      PROVE  StageOf(Opposite(owner[s])) = "gone"
  <2>1. IsServerFd(s) /\ ~Waiting(owner[s].id)
    BY SessionFacts, PolledHaveCome DEF Rest
  <2>2. Opposite(owner[s]) = Client(owner[s].id) /\ Client(owner[s].id).id = owner[s].id
    BY <2>1 DEF Opposite, IsServerFd, Client
  <2>3. ~NotYet(Client(owner[s].id))
    BY <2>1, <2>2 DEF NotYet, Waiting, Client
  <2> QED
    BY <1>2, <2>2, <2>3 DEF StageOf
<1>3. \A c \in c_for_close : c \in c_fds /\ owner[c].id \notin ServerSide
  BY FlushedArePolled DEF Rest, OrphanInv
<1>4. \A s \in s_for_close : s \in s_fds
  BY FlushedArePolled
<1>5. \A m \in Carried(sc) : \A c \in c_fds : EndsClient(m, c) => owner[c].id \notin ServerSide
  BY SessionFacts DEF Rest, OrphanInv, EndsClient
<1> QED
  BY <1>1, <1>2, <1>3, <1>4, <1>5, OneIsGone

\* A closed socket leaves nothing of its end in the proxy.
LEMMA ClosedIsGone ==
    ASSUME Rest, Quiet, NEW d \in c_fds \cup s_fds, open' = open \ {d}, NEW e, e = owner[d]
    PROVE  StageOf(e)' = "gone"
<1>1. d \in DOMAIN owner /\ e \in Endpoint /\ ~NotYet(e)
  BY PolledHaveCome
<1>2. ~NotYet(e)'
  BY <1>1, QuietStays DEF Rest
<1>3. open \subseteq DOMAIN owner
  BY DEF Rest, TypeInv, TypeOK, SharedTypeOK
<1>4. ~InProxy(e)'
  BY <1>1, <1>3 DEF InProxy, Rest, OnceInv, Quiet
<1> QED
  BY <1>2, <1>4 DEF StageOf, Quiet

\* What send() passes on to an end was read from the other, and comes after what it had.
LEMMA DeliversInOrder ==
    ASSUME TypeInv, TypeInv', SessionInv', OrderInv', NEW e \in Endpoint, StageOf(e) = "inside",
           read'[Opposite(e)] = read[Opposite(e)], NEW run \in Seq(Unit),
           got' = [got EXCEPT ![e] = @ \o run]
    PROVE  UNCHANGED got \/ Delivers(e)
<1> PICK old, all : old = got[e] /\ all = got'[e]
  OBVIOUS
<1>1. got \in [Endpoint -> Seq(Unit)] /\ got' \in [Endpoint -> Seq(Unit)]
  BY DEF TypeInv, TypeOK, SharedTypeOK
<1>2. old \in Seq(Unit) /\ all \in Seq(Unit) /\ all = old \o run
  BY <1>1
<1>3. /\ Len(old) \in Nat /\ Len(run) \in Nat /\ Len(all) = Len(old) + Len(run)
      /\ SubSeq(all, 1, Len(old)) = old
  BY <1>2
<1>4. got' = [got EXCEPT ![e] = all]
  BY <1>1
<1>5. CASE Len(run) = 0
  <2>1. run = <<>>
    BY <1>5
  <2>2. all = old
    BY <1>2, <2>1
  <2> QED
    BY <1>1, <1>4, <2>2
<1>6. CASE Len(run) # 0
  <2>1. all \in Seq(UnitsOf(Opposite(e)))
    BY DEF SessionInv, GotOK
  <2>2. Sorted(all) /\ WasRead(all, read')
    <3>1. e.side = "client" \/ e.side = "server"
      BY DEF Endpoint
    <3> QED
      BY <3>1 DEF OrderInv, DirectionInOrder
  <2>3. \A i \in 1 .. Len(all) : all[i] \in UnitsOf(Opposite(e))
    BY <2>1
  <2>4. \A i \in 1 .. Len(all) : all[i].from = Opposite(e) /\ all[i].n <= read[Opposite(e)]
    BY <2>2, <2>3 DEF WasRead, UnitsOf
  <2>5. \A i \in Len(old) + 1 .. Len(all) :
          i \in 1 .. Len(all) /\ (i > 1 => i - 1 \in 1 .. Len(all) /\ i - 1 < i)
    BY <1>3
  <2>6. \A i \in Len(old) + 1 .. Len(all) : i > 1 => all[i - 1].n < all[i].n
    BY <2>2, <2>5 DEF Sorted
  <2>7. Len(old) < Len(all)
    BY <1>3, <1>6
  <2>8. \A i \in Len(old) + 1 .. Len(all) :
          /\ all[i].from = Opposite(e)
          /\ all[i].n <= read[Opposite(e)]
          /\ i > 1 => all[i - 1].n < all[i].n
    BY <2>4, <2>5, <2>6
  <2> QED
    BY <1>3, <1>4, <2>7, <2>8 DEF Delivers
<1> QED
  BY <1>5, <1>6

\* A handler that works for the socket d works for the end it was given to.
Works(d) ==
    /\ Quiet /\ Happens(d)
    /\ open' = open \ {d} => MayGo(owner[d])
    /\ \/ UNCHANGED read
       \/ /\ StageOf(Opposite(owner[d])) \in {"inside", "gone"}
          /\ \E m \in RecvCounts(owner[d]) : read' = [read EXCEPT ![owner[d]] = @ + m]
    /\ \/ UNCHANGED got
       \/ /\ d \notin s_con_wait
          /\ \E run \in Seq(Unit) : got' = [got EXCEPT ![owner[d]] = @ \o run]

LEMMA WorkIsService ==
    ASSUME Rest, TypeInv', SessionInv', OrderInv', NEW d \in c_fds \cup s_fds, Works(d)
    PROVE  Promise!Serve(owner[d])
<1> PICK e : e = owner[d]
  OBVIOUS
<1>1. e \in Endpoint /\ Opposite(e) \in Endpoint /\ Opposite(e) # e
  BY PolledHaveCome, EndsAreEndpoints
<1>2. /\ read \in [Endpoint -> 0 .. MaxUnits] /\ sent \in [Endpoint -> 0 .. MaxUnits]
      /\ MaxUnits \in Nat /\ MaxBody \in Nat
  BY ProxyAssumption DEF Rest, TypeInv, TypeOK, SharedTypeOK
<1>3. StageOf(e) \in {"dialing", "inside"} /\ (d \notin s_con_wait => StageOf(e) = "inside")
  BY PolledStages DEF Works, Quiet
<1>4. OthersStay(e)
  BY QuietStages DEF Works, OthersStay, Rest
<1>5. StageOf(e)' \in {StageOf(e), "inside"} \/ (StageOf(e)' = "gone" /\ MayGo(e))
  <2>1. Quiet /\ Happens(d)
    BY DEF Works
  <2>2. CASE open' = open
    BY <1>1, <2>1, <2>2, QuietStages DEF Rest
  <2>3. CASE open' = open \ {d}
    BY <2>1, <2>3, ClosedIsGone DEF Works
  <2> QED
    BY <2>1, <2>2, <2>3 DEF Happens
<1>6. UNCHANGED read \/ Takes(e)
  <2> SUFFICES ASSUME NEW m \in RecvCounts(e), read' = [read EXCEPT ![e] = @ + m],
                      StageOf(Opposite(e)) \in {"inside", "gone"}
               PROVE  Takes(e)
    BY DEF Works
  <2>1. m \in 1 .. MaxBody /\ m <= sent[e] - read[e]
    BY DEF RecvCounts, Available
  <2>2. read[e] \in Nat /\ sent[e] \in Nat /\ m \in Nat /\ m > 0
    BY <1>1, <1>2, <2>1
  <2>3. read'[e] = read[e] + m
    BY <1>1, <1>2
  <2>4. read[e] < read'[e] /\ read'[e] <= sent[e]
    BY <2>1, <2>2, <2>3
  <2>5. read' = [read EXCEPT ![e] = read'[e]]
    BY <1>1, <1>2
  <2> QED
    BY <2>4, <2>5 DEF Takes
<1>7. read'[Opposite(e)] = read[Opposite(e)]
  BY <1>1, <1>2 DEF Works
<1>8. UNCHANGED got \/ Delivers(e)
  BY <1>1, <1>3, <1>7, DeliversInOrder DEF Works, Rest
<1>9. UNCHANGED <<peer, sent>>
  BY DEF Works, Quiet
<1> QED
  BY <1>1, <1>3, <1>4, <1>5, <1>6, <1>8, <1>9, PromiseServe

\* A handler that works for nobody.
LEMMA WorkForNobody ==
    ASSUME Rest, Quiet, UNCHANGED <<read, got>>, NEW d, owner[d] \notin Endpoint \/ d \notin open,
           Happens(d), UNCHANGED s_con_wait
    PROVE  UNCHANGED Promise!vars
<1>1. StagesStay
  BY QuietStages DEF StagesStay, Rest, Happens
<1>2. \A ep \in Endpoint : Left(ep)' = Left(ep)
  BY DEF Left, Quiet
<1> QED
  BY <1>1, <1>2, PromiseNothing DEF Quiet

-----------------------------------------------------------------------------
(* Every step of the relay is a step a session may take, or none           *)

LEMMA SubSeqOfUnits ==
    ASSUME NEW buf \in Seq(Unit), NEW n \in Int, n <= Len(buf)
    PROVE  SubSeq(buf, 1, n) \in Seq(Unit)
<1>1. CASE n <= 0
  BY <1>1
<1>2. CASE n > 0
  BY <1>2
<1> QED
  BY <1>1, <1>2

LEMMA FromServerDataIsService ==
    ASSUME Rest, TypeInv', SessionInv', OrderInv', alive, FromServerData, UNCHANGED svars
    PROVE  UNCHANGED Promise!vars \/ \E e \in Endpoint : Promise!Serve(e)
<1> PICK d, body : d = Head(sc).c /\ body = Head(sc).body
  OBVIOUS
<1>1. /\ sc # <<>> /\ UNCHANGED <<alive, open, owner, backlog, peer, sent, read, s_con_wait>>
      /\ \/ UNCHANGED <<cs, got>>
         \/ UNCHANGED got /\ cs' = Append(cs, Msg("connect_not_found", d, Head(sc).s))
         \/ /\ UNCHANGED cs /\ d \in c_fds
            /\ \E n \in SendResults(d, ToSend(c_storage[d], body)) : Transmit(d, ToSend(c_storage[d], body), n)
  BY DEF FromServerData, ClientReceives, svars
<1>2. Quiet
  BY <1>1 DEF Quiet, Msg
<1>3. CASE UNCHANGED got
  BY <1>1, <1>2, <1>3, QuietStages, PromiseNothing DEF Rest, Happens, Quiet, Left
<1>4. ASSUME d \in c_fds, NEW n \in SendResults(d, ToSend(c_storage[d], body)),
             Transmit(d, ToSend(c_storage[d], body), n)
      PROVE  Promise!Serve(owner[d])
  <2>1. d \in DOMAIN c_storage /\ d \notin s_con_wait /\ owner[d] \in Endpoint /\ d \in DOMAIN owner
    BY <1>4, SessionFacts, ClientOwns DEF Rest, KnownInv, WaitersHaveClient, IsServerFd
  <2>2. body \in Seq(Unit) /\ c_storage[d] \in Queue
    <3>1. Head(sc) \in Message
      BY <1>1, PipeTypes DEF Rest
    <3> QED
      BY <2>1, <3>1, OrderTypes DEF Message, DirectionTyped, Rest
  <2>3. ToSend(c_storage[d], body) \in Seq(Unit)
    BY <2>2 DEF ToSend, Queue
  <2>4. n \in Int /\ n <= Len(ToSend(c_storage[d], body))
    BY <1>4, <2>3, SendResultsType
  <2>5. SubSeq(ToSend(c_storage[d], body), 1, n) \in Seq(Unit)
    BY <2>3, <2>4, SubSeqOfUnits
  <2>6. \E run \in Seq(Unit) : got' = [got EXCEPT ![owner[d]] = @ \o run]
    BY <1>4, <2>5 DEF Transmit
  <2>7. Works(d)
    <3>1. Happens(d)
      BY <1>1 DEF Happens
    <3>2. open' = open /\ d \in open
      BY <1>1, <1>4, PolledHaveCome
    <3> QED
      BY <1>1, <1>2, <2>1, <2>6, <3>1, <3>2 DEF Works
  <2> QED
    BY <1>4, <2>7, WorkIsService
<1> QED
  BY <1>1, <1>3, <1>4, PolledHaveCome

\* A message asks to close a socket: it is closed for the other end's sake, or there is none.
LEMMA ClientToldIsService ==
    ASSUME Rest, GoneInv, TypeInv', SessionInv', OrderInv', alive, UNCHANGED svars,
           FromServerNotConnect \/ FromServerDisconnect
    PROVE  UNCHANGED Promise!vars \/ \E e \in Endpoint : Promise!Serve(e)
<1> PICK d : d = Head(sc).c
  OBVIOUS
<1>1. /\ sc # <<>> /\ UNCHANGED <<alive, owner, cs, backlog, peer, sent, read, got, s_con_wait>>
      /\ EndsClient(Head(sc), d) /\ ClientCloseConnect(d)
  BY DEF FromServerNotConnect, FromServerDisconnect, ClientReceives, EndsClient, netvars, svars
<1>2. Quiet /\ Happens(d)
  BY <1>1 DEF Quiet, Happens, ClientCloseConnect, ClientCloseConnectForce
<1>3. Head(sc) \in Carried(sc)
  BY <1>1, PipesMove DEF Rest
<1>4. CASE d \in c_fds
  <2>1. MayGo(owner[d])
    BY <1>1, <1>3, <1>4, OtherIsGone DEF MayGo
  <2>2. Works(d)
    BY <1>1, <1>2, <2>1 DEF Works
  <2> QED
    BY <1>4, <2>2, WorkIsService, PolledHaveCome
<1>5. CASE d \notin c_fds
  <2>1. RefClient(d)
    BY <1>1, <1>3, MessageFacts DEF Rest
  <2>2. owner[d] \notin Endpoint \/ d \notin open
    <3>1. d \in open => ~IsClientFd(d) /\ d # -1 /\ d \in DOMAIN owner
      BY <1>5, SessionFacts DEF GoneInv, OpenArePolled, Rest, TypeInv, TypeOK, SharedTypeOK
    <3> QED
      BY <2>1, <3>1 DEF RefClient, IsClientFd, Endpoint
  <2> QED
    BY <1>1, <1>2, <2>2, WorkForNobody
<1> QED
  BY <1>4, <1>5

\* A client whose server is on record, or that waits to be flushed away, has had its answer.
LEMMA ServerHasAnswered ==
    ASSUME Rest, GoneInv, alive, NEW c \in c_fds, At(c_db, c) >= 0
    PROVE  StageOf(Opposite(owner[c])) \in {"inside", "gone"}
<1>1. CASE c \in c_for_close
  BY <1>1, OtherIsGone
<1>2. CASE c \notin c_for_close
  <2>1. c \in DOMAIN c_db /\ At(c_db, c) = c_db[c] /\ c_db[c] # -1
    BY <1>2, FdFacts DEF Rest, KnownInv, PolledAreKnown, At
  <2> PICK s : s = c_db[c]
    OBVIOUS
  <2>2. IsServerFd(s) /\ s \notin s_con_wait
    BY <1>2, <2>1 DEF Rest, SessionInv, PairsAreServers, FlushInv, Heard
  <2>3. IsClientFd(c) /\ owner[c].id = owner[s].id
    BY <2>1, <2>2, RecordedPair
  <2>4. owner[s] = Server(owner[s].id) /\ owner[s].id \in Sessions /\ s \in DOMAIN owner
    BY <2>2, OneSocketEach DEF Rest, IsServerFd
  <2>5. Opposite(owner[c]) = owner[s]
    BY <2>3, <2>4 DEF Opposite, IsClientFd
  <2>6. \A x \in s_con_wait : owner[x] # owner[s]
    <3>1. \A x \in s_con_wait : x \in DOMAIN owner
      BY SessionFacts DEF Rest, KnownInv, WaitersHaveClient, IsServerFd
    <3> QED
      BY <2>2, <2>4, <3>1 DEF Rest, OnceInv
  <2>7. ~Waiting(owner[s].id) /\ ~Announced(owner[s].id)
    BY <2>4 DEF Rest, OnceInv, Numbered
  <2>8. ~NotYet(owner[s])
    BY <2>4, <2>7 DEF NotYet, Waiting, Announced
  <2> QED
    BY <2>5, <2>6, <2>8 DEF StageOf
<1> QED
  BY <1>1, <1>2

LEMMA FrontUnits ==
    ASSUME NEW d, NEW q \in Queue, NEW front, front = <<>> \/ (q # <<>> /\ front = Head(q)),
           NEW n \in IF front = <<>> THEN {0} ELSE SendResults(d, front)
    PROVE  SubSeq(front, 1, n) \in Seq(Unit)
<1>1. CASE front = <<>>
  <2>1. n = 0
    BY <1>1
  <2> QED
    BY <1>1, <2>1, SubSeqOfUnits
<1>2. CASE front # <<>>
  <2>1. front \in Seq(Unit) /\ n \in SendResults(d, front)
    BY <1>2 DEF Queue
  <2>2. n \in Int /\ n <= Len(front)
    BY <2>1, SendResultsType
  <2> QED
    BY <2>1, <2>2, SubSeqOfUnits
<1> QED
  BY <1>1, <1>2

LEMMA FromClientsIsService ==
    ASSUME Rest, GoneInv, TypeInv', SessionInv', OrderInv', alive, UNCHANGED svars,
           NEW c \in Fd, NEW out \in BOOLEAN, NEW in \in BOOLEAN, FromClients(c, out, in)
    PROVE  Promise!Serve(owner[c])
<1> PICK e : e = owner[c]
  OBVIOUS
<1> PICK front : front = IF out /\ ClientUnsent(c) THEN Head(c_storage[c]) ELSE <<>>
  OBVIOUS
<1>1. /\ c \in c_fds /\ (in => Readable(e))
      /\ UNCHANGED <<alive, owner, backlog, peer, sent, s_con_wait>>
      /\ \E n \in IF front = <<>> THEN {0} ELSE SendResults(c, front) :
            /\ Transmit(c, front, n)
            /\ \/ c \in c_for_close /\ ClientCloseConnectForce(c) /\ UNCHANGED <<cs, read>>
               \/ in /\ ClientRead(c, Flushed(c_storage[c], n))
               \/ UNCHANGED <<open, cs, read>>
  BY DEF FromClients, svars
<1>2. PICK n \in IF front = <<>> THEN {0} ELSE SendResults(c, front) :
            /\ Transmit(c, front, n)
            /\ \/ c \in c_for_close /\ ClientCloseConnectForce(c) /\ UNCHANGED <<cs, read>>
               \/ in /\ ClientRead(c, Flushed(c_storage[c], n))
               \/ UNCHANGED <<open, cs, read>>
  BY <1>1
<1>3. c \in DOMAIN c_storage /\ c \notin s_con_wait /\ e \in Endpoint /\ c \in open /\ c_storage[c] \in Queue
  BY <1>1, SessionFacts, ClientOwns, PolledHaveCome, OrderTypes
     DEF Rest, KnownInv, WaitersHaveClient, IsServerFd, IsClientFd, DirectionTyped
<1>4. \E run \in Seq(Unit) : got' = [got EXCEPT ![e] = @ \o run]
  <2>1. SubSeq(front, 1, n) \in Seq(Unit)
    BY <1>3, FrontUnits DEF ClientUnsent
  <2> QED
    BY <1>2, <2>1 DEF Transmit
<1>5. CASE c \in c_for_close /\ ClientCloseConnectForce(c) /\ UNCHANGED <<cs, read>>
  <2>1. MayGo(owner[c])
    BY <1>5, OtherIsGone DEF MayGo
  <2>2. Quiet /\ Happens(c)
    BY <1>1, <1>5 DEF Quiet, Happens, ClientCloseConnectForce
  <2> QED
    BY <1>1, <1>3, <1>4, <1>5, <2>1, <2>2, WorkIsService DEF Works
<1>6. CASE in /\ ClientRead(c, Flushed(c_storage[c], n))
  <2> PICK srv : srv = At(c_db, c)
    OBVIOUS
  <2>1. CASE /\ Available(e) = 0 \/ peer[e] = "rst"
             /\ cs' = Append(cs, Msg("disconnect", c, srv))
             /\ open' = open \ {c} /\ UNCHANGED read
    <3>1. Left(e)
      BY <1>1, <1>6, <2>1 DEF Left, Readable
    <3>2. Quiet /\ Happens(c)
      BY <1>1, <2>1 DEF Quiet, Happens, Msg
    <3> QED
      BY <1>1, <1>3, <1>4, <2>1, <3>1, <3>2, WorkIsService DEF Works, MayGo
  <2>2. CASE UNCHANGED <<cs, read, open>>
    <3>1. Quiet /\ Happens(c)
      BY <1>1, <2>2 DEF Quiet, Happens
    <3>2. open' = open /\ c \in open
      BY <1>3, <2>2
    <3> QED
      BY <1>1, <1>3, <1>4, <2>2, <3>1, <3>2, WorkIsService DEF Works
  <2>3. ASSUME srv >= 0, UNCHANGED open, NEW m \in RecvCounts(e),
               cs' = Append(cs, DataMsg(c, srv, RecvBody(e, m))), read' = [read EXCEPT ![e] = @ + m]
        PROVE  Promise!Serve(owner[c])
    <3>1. Quiet /\ Happens(c)
      BY <1>1, <2>3 DEF Quiet, Happens, DataMsg, Msg
    <3>2. open' = open /\ c \in open
      BY <1>3, <2>3
    <3>3. StageOf(Opposite(e)) \in {"inside", "gone"}
      BY <1>1, <2>3, ServerHasAnswered
    <3> QED
      BY <1>1, <1>3, <1>4, <2>3, <3>1, <3>2, <3>3, WorkIsService DEF Works
  <2> QED
    BY <1>6, <2>1, <2>2, <2>3 DEF ClientRead, ClientCloseConnectForce
<1>7. CASE UNCHANGED <<open, cs, read>>
  <2>1. Quiet /\ Happens(c)
    BY <1>1, <1>7 DEF Quiet, Happens
  <2>2. open' = open /\ c \in open
    BY <1>3, <1>7
  <2> QED
    BY <1>1, <1>3, <1>4, <1>7, <2>1, <2>2, WorkIsService DEF Works
<1> QED
  BY <1>2, <1>5, <1>6, <1>7

\* accept() lets a client in; nothing else of its session has come yet.
LEMMA AcceptIsAdmission ==
    ASSUME ~Recycle, Rest, GoneInv, alive, UNCHANGED svars, NEW k \in Sessions, Accept(k)
    PROVE  Promise!Admit(k)
<1>1. PICK c \in Fd : GiveOut(c, Client(k)) /\ cs' = Append(cs, ConnectMsg(c, k))
  BY DEF Accept
<1>2. k \in backlog /\ backlog' = backlog \ {k} /\ UNCHANGED <<alive, peer, sent, read, got, s_con_wait>>
  BY DEF Accept, svars
<1>3. Client(k) \in Endpoint /\ Server(k) \in Endpoint /\ Client(k).id = k /\ Client(k).side = "client"
  BY DEF Client, Server, Endpoint
<1>4. /\ OwnerGrows /\ c \notin DOMAIN owner /\ open' = open \cup {c} /\ owner'[c] = Client(k)
  BY <1>1, <1>3, FreshNumber DEF Rest
<1>5. open \subseteq DOMAIN owner /\ s_con_wait \subseteq DOMAIN owner
  BY SessionFacts DEF Rest, TypeInv, TypeOK, SharedTypeOK, KnownInv, WaitersHaveClient, IsServerFd
<1>6. \A x : Announced(x)' <=> Announced(x) \/ x = k
  <2>1. Carried(cs') = Carried(cs) \cup {ConnectMsg(c, k)}
    BY <1>1, PipesMove DEF Rest
  <2>2. ConnectMsg(c, k).who = k /\ ConnectMsg(c, k).tod = "new_connect"
    BY DEF ConnectMsg, Msg
  <2>3. \A x : Announced(x)' <=> \E m \in Carried(cs') : m.tod = "new_connect" /\ m.who = x
    BY DEF Announced, Carried
  <2> QED
    BY <2>1, <2>2, <2>3, PipesMove DEF Rest
<1>7. Waiting(k) /\ peer[Client(k)] # "none" /\ peer[Server(k)] = "none"
  BY <1>2 DEF Rest, OnceInv, GoneInv, CalledAfterwards, Waiting
<1>8. \A ep \in Endpoint : ep # Client(k) => (NotYet(ep)' <=> NotYet(ep))
  <2>1. \A ep \in Endpoint : ep.id = k /\ ep # Client(k) => ep = Server(k) /\ ep.side = "server"
    BY DEF Endpoint, Client, Server
  <2>2. \A ep : NotYet(ep) <=> \/ peer[Client(ep.id)] = "none" \/ ep.id \in backlog
                               \/ ep.side = "server" /\ peer[ep] = "none" /\ Announced(ep.id)
    BY DEF NotYet, Announced
  <2>3. \A ep : NotYet(ep)' <=> \/ peer'[Client(ep.id)] = "none" \/ ep.id \in backlog'
                                \/ ep.side = "server" /\ peer'[ep] = "none" /\ Announced(ep.id)'
    BY DEF NotYet, Announced
  <2>4. ASSUME NEW ep \in Endpoint, ep # Client(k), ep.id = k PROVE NotYet(ep)' /\ NotYet(ep)
    BY <1>2, <1>6, <1>7, <2>1, <2>2, <2>3, <2>4
  <2>5. ASSUME NEW ep \in Endpoint, ep.id # k PROVE NotYet(ep)' <=> NotYet(ep)
    BY <1>2, <1>6, <2>2, <2>3, <2>5
  <2> QED
    BY <2>4, <2>5
<1>9. \A ep \in Endpoint : ep # Client(k) => StageOf(ep)' = StageOf(ep)
  <2> SUFFICES ASSUME NEW ep \in Endpoint, ep # Client(k) PROVE StageOf(ep)' = StageOf(ep)
    OBVIOUS
  <2>1. InProxy(ep)' <=> InProxy(ep)
    BY <1>4, <1>5 DEF InProxy, OwnerGrows
  <2>2. (\E d \in s_con_wait' : owner'[d] = ep) <=> \E d \in s_con_wait : owner[d] = ep
    BY <1>2, <1>4, <1>5 DEF OwnerGrows
  <2> QED
    BY <1>2, <1>8, <2>1, <2>2 DEF StageOf
<1>10. StageOf(Client(k)) = "absent"
  BY <1>2, <1>3 DEF StageOf, NotYet
<1>11. StageOf(Client(k))' = "inside"
  <2>1. ~NotYet(Client(k))'
    BY <1>2, <1>3, <1>7 DEF NotYet
  <2>2. InProxy(Client(k))'
    BY <1>4 DEF InProxy
  <2>3. \A d \in s_con_wait' : owner'[d] # Client(k)
    <3>1. \A d \in s_con_wait : IsServerFd(d)
      BY SessionFacts DEF Rest, KnownInv, WaitersHaveClient
    <3> QED
      BY <1>2, <1>3, <1>4, <1>5, <3>1 DEF OwnerGrows, IsServerFd
  <2> QED
    BY <1>2, <2>1, <2>2, <2>3 DEF StageOf
<1> QED
  BY <1>2, <1>9, <1>10, <1>11, PromiseAdmit DEF OthersStay

PromiseStep == Promise!Next \/ UNCHANGED Promise!vars

LEMMA PromiseStepKinds ==
    /\ \A e \in Endpoint : Promise!Serve(e) \/ Promise!FarSends(e) \/ Promise!FarLeaves(e) => PromiseStep
    /\ \A k \in Sessions : Promise!Admit(k) \/ Promise!Dial(k) => PromiseStep
    /\ Promise!Fail => PromiseStep
BY EndsAreEndpoints DEF PromiseStep, Promise!Next

LEMMA ClientStepIsPromised ==
    ASSUME ~Recycle, Rest, GoneInv, TypeInv', SessionInv', OrderInv', ClientStep, UNCHANGED svars
    PROVE  PromiseStep
<1>1. alive
  BY DEF ClientStep
<1>2. CASE \E k \in Sessions : Accept(k)
  BY <1>1, <1>2, AcceptIsAdmission, PromiseStepKinds
<1>3. CASE AcceptFails \/ ClientPollNval
  BY <1>1, <1>3, PromiseFail, PromiseStepKinds DEF AcceptFails, ClientPollNval, ClientFatal
<1>4. CASE FromServerNewConnect \/ ClientHupOnEmptySlot
  <2>1. /\ Quiet /\ UNCHANGED <<open, read, got, s_con_wait>>
    BY <1>1, <1>4 DEF FromServerNewConnect, ClientHupOnEmptySlot, Quiet, Msg, netvars, svars
  <2>2. -1 \notin open
    BY SessionFacts DEF Rest, TypeInv, TypeOK, SharedTypeOK
  <2> QED
    BY <2>1, <2>2, WorkForNobody DEF Happens, PromiseStep
<1>5. CASE FromServerData
  BY <1>1, <1>5, FromServerDataIsService, PromiseStepKinds DEF PromiseStep
<1>6. CASE FromServerNotConnect \/ FromServerDisconnect
  BY <1>1, <1>6, ClientToldIsService, PromiseStepKinds DEF PromiseStep
<1>7. ASSUME NEW c \in Fd, NEW out \in BOOLEAN, NEW in \in BOOLEAN, FromClients(c, out, in)
      PROVE  PromiseStep
  <2>1. c \in c_fds
    BY <1>7 DEF FromClients
  <2>2. owner[c] \in Endpoint
    BY <2>1, PolledHaveCome
  <2>3. Promise!Serve(owner[c])
    BY <1>1, <1>7, FromClientsIsService
  <2> QED
    BY <2>2, <2>3, PromiseStepKinds
<1>8. ASSUME NEW c \in Fd, ClientHup(c) PROVE PromiseStep
  <2>1. c \in c_fds /\ Left(owner[c]) /\ open' = open \ {c} /\ UNCHANGED <<read, got, s_con_wait>>
    BY <1>8 DEF ClientHup, Left, ClientCloseConnectForce, netvars, svars
  <2>2. Quiet /\ Happens(c)
    BY <1>1, <1>8, <2>1 DEF ClientHup, Quiet, Happens, Msg, netvars
  <2>3. owner[c] \in Endpoint /\ Promise!Serve(owner[c])
    BY <2>1, <2>2, WorkIsService, PolledHaveCome DEF Works, MayGo
  <2> QED
    BY <2>3, PromiseStepKinds
<1> QED
  BY <1>2, <1>3, <1>4, <1>5, <1>6, <1>7, <1>8 DEF ClientStep, ClientHandlesMessage, ClientServes

LEMMA FromClientDataIsService ==
    ASSUME Rest, TypeInv', SessionInv', OrderInv', alive, FromClientData
    PROVE  UNCHANGED Promise!vars \/ \E e \in Endpoint : Promise!Serve(e)
<1> PICK d, body : d = Head(cs).s /\ body = Head(cs).body
  OBVIOUS
<1>1. /\ cs # <<>> /\ Head(cs).tod = "data" /\ cs' = Tail(cs)
      /\ UNCHANGED <<alive, open, owner, backlog, peer, sent, read, s_con_wait>>
      /\ \/ UNCHANGED got
         \/ /\ d \in s_fds
            /\ \E n \in SendResults(d, ToSend(s_storage[d], body)) : Transmit(d, ToSend(s_storage[d], body), n)
  BY DEF FromClientData, ServerReceives
<1>2. Quiet
  BY <1>1 DEF Quiet
<1>3. CASE UNCHANGED got
  BY <1>1, <1>2, <1>3, QuietStages, PromiseNothing DEF Rest, Happens, Quiet, Left
<1>4. ASSUME d \in s_fds, NEW n \in SendResults(d, ToSend(s_storage[d], body)),
             Transmit(d, ToSend(s_storage[d], body), n)
      PROVE  Promise!Serve(owner[d])
  <2>1. d \in DOMAIN s_storage /\ owner[d] \in Endpoint /\ d \in DOMAIN owner
    BY <1>4, ServerOwns DEF Rest
  <2>2. body \in Seq(Unit) /\ s_storage[d] \in Queue
    <3>1. Head(cs) \in Message
      BY <1>1, PipeTypes DEF Rest
    <3> QED
      BY <2>1, <3>1, OrderTypes DEF Message, DirectionTyped, Rest
  <2>3. ToSend(s_storage[d], body) \in Seq(Unit)
    BY <2>2 DEF ToSend, Queue
  <2>4. n \in Int /\ n <= Len(ToSend(s_storage[d], body))
    BY <1>4, <2>3, SendResultsType
  <2>5. SubSeq(ToSend(s_storage[d], body), 1, n) \in Seq(Unit)
    BY <2>3, <2>4, SubSeqOfUnits
  <2>6. \E run \in Seq(Unit) : got' = [got EXCEPT ![owner[d]] = @ \o run]
    BY <1>4, <2>5 DEF Transmit
  <2>7. d \notin s_con_wait
    <3>1. cs \in Seq(Message)
      BY PipeTypes DEF Rest
    <3>2. d \in NamesIn(cs)
      BY <1>1, <3>1 DEF NamesIn
    <3> QED
      BY <3>2 DEF Rest, FlushInv, Heard
  <2>8. Works(d)
    <3>1. Happens(d)
      BY <1>1 DEF Happens
    <3>2. open' = open /\ d \in open
      BY <1>1, <1>4, PolledHaveCome
    <3> QED
      BY <1>1, <1>2, <2>6, <2>7, <3>1, <3>2 DEF Works
  <2> QED
    BY <1>4, <2>8, WorkIsService
<1> QED
  BY <1>1, <1>3, <1>4, PolledHaveCome

LEMMA ServerToldIsService ==
    ASSUME Rest, GoneInv, TypeInv', SessionInv', OrderInv', alive,
           FromClientConnectNotFound \/ FromClientDisconnect
    PROVE  UNCHANGED Promise!vars \/ \E e \in Endpoint : Promise!Serve(e)
<1> PICK d : d = Head(cs).s
  OBVIOUS
<1>1. /\ cs # <<>> /\ cs' = Tail(cs) /\ UNCHANGED <<alive, owner, backlog, peer, sent, read, got>>
      /\ EndsServer(Head(cs), d) /\ ServerCloseConnect(d)
  BY DEF FromClientConnectNotFound, FromClientDisconnect, ServerReceives, EndsServer, netvars
<1>2. Quiet /\ Happens(d)
  BY <1>1 DEF Quiet, Happens, EndsServer, ServerCloseConnect, ServerCloseConnectForce
<1>3. Head(cs) \in Carried(cs)
  BY <1>1, PipesMove DEF Rest
<1>4. CASE d \in s_fds
  <2>1. MayGo(owner[d])
    BY <1>1, <1>3, <1>4, OtherIsGone DEF MayGo
  <2>2. Works(d)
    BY <1>1, <1>2, <2>1 DEF Works
  <2> QED
    BY <1>4, <2>2, WorkIsService, PolledHaveCome
<1>5. CASE d \notin s_fds
  <2>1. RefServer(d)
    BY <1>1, <1>3, MessageFacts DEF Rest, EndsServer
  <2>2. owner[d] \notin Endpoint \/ d \notin open
    <3>1. d \in open => ~IsServerFd(d) /\ d # -1 /\ d \in DOMAIN owner
      BY <1>5, SessionFacts DEF GoneInv, OpenArePolled, Rest, TypeInv, TypeOK, SharedTypeOK
    <3> QED
      BY <2>1, <3>1 DEF RefServer, IsServerFd, Endpoint
  <2>3. UNCHANGED s_con_wait
    BY <1>1, <1>5 DEF ServerCloseConnect, ServerCloseConnectForce, Rest, KnownInv, WaitersHaveClient
  <2> QED
    BY <1>1, <1>2, <2>2, <2>3, WorkForNobody
<1> QED
  BY <1>4, <1>5

\* The client of a server socket came in before it.
LEMMA ClientHasCome ==
    ASSUME Rest, alive, NEW s \in s_fds
    PROVE  StageOf(Opposite(owner[s])) \in {"inside", "gone"}
<1>1. IsServerFd(s) /\ ~Waiting(owner[s].id)
  BY SessionFacts, PolledHaveCome DEF Rest
<1>2. Opposite(owner[s]) = Client(owner[s].id)
  BY <1>1 DEF Opposite, IsServerFd
<1>3. ~NotYet(Client(owner[s].id))
  BY <1>1 DEF NotYet, Waiting, Client
<1>4. \A d \in s_con_wait : owner[d] # Client(owner[s].id)
  <2>1. \A d \in s_con_wait : IsServerFd(d)
    BY SessionFacts DEF Rest, KnownInv, WaitersHaveClient
  <2> QED
    BY <2>1 DEF IsServerFd, Client
<1> QED
  BY <1>2, <1>3, <1>4 DEF StageOf

\* What the read half of a server handler does to its end.
Reads(s) ==
    \/ /\ Left(owner[s]) /\ open' = open \ {s} /\ UNCHANGED read
    \/ /\ open' = open
       /\ UNCHANGED read \/ \E m \in RecvCounts(owner[s]) : read' = [read EXCEPT ![owner[s]] = @ + m]

LEMMA ReadingWorks ==
    ASSUME Rest, NEW s \in s_fds, Quiet, Reads(s), s_con_wait' = s_con_wait \/ s_con_wait' = s_con_wait \ {s},
           \/ UNCHANGED got
           \/ s \notin s_con_wait /\ \E run \in Seq(Unit) : got' = [got EXCEPT ![owner[s]] = @ \o run]
    PROVE  Works(s)
<1>1. StageOf(Opposite(owner[s])) \in {"inside", "gone"}
  BY ClientHasCome DEF Quiet
<1>2. Happens(s)
  BY DEF Reads, Happens
<1>3. open' = open \ {s} => MayGo(owner[s])
  BY PolledHaveCome DEF Reads, MayGo
<1>4. UNCHANGED read \/ \E m \in RecvCounts(owner[s]) : read' = [read EXCEPT ![owner[s]] = @ + m]
  BY DEF Reads
<1> QED
  BY <1>1, <1>2, <1>3, <1>4 DEF Works

LEMMA ServerReadReads ==
    ASSUME NEW s, Readable(owner[s]), NEW db, NEW q, NEW log, NEW forClose,
           ServerRead(s, db, q, log, forClose)
    PROVE  Reads(s) /\ s_con_wait' = s_con_wait \ {s}
<1>1. CASE Available(owner[s]) = 0 \/ peer[owner[s]] = "rst"
  <2>1. Left(owner[s])
    BY <1>1 DEF Left, Readable
  <2> QED
    BY <2>1 DEF ServerRead, ServerCloseConnectForce, Reads
<1>2. CASE ~(Available(owner[s]) = 0 \/ peer[owner[s]] = "rst")
  BY <1>2 DEF ServerRead, Reads
<1> QED
  BY <1>1, <1>2

LEMMA ConnectFinishedWorks ==
    ASSUME Rest, alive, NEW s \in Fd, NEW in \in BOOLEAN, ConnectFinished(s, in)
    PROVE  s \in s_fds /\ Works(s)
<1>1. /\ s \in s_fds /\ UNCHANGED <<alive, owner, cs, backlog, peer, sent, got>>
      /\ in => Readable(owner[s])
  BY DEF ConnectFinished
<1>2. Quiet
  BY <1>1 DEF Quiet
<1>3. Reads(s) /\ s_con_wait' = s_con_wait \ {s}
  <2>1. CASE peer[owner[s]] = "rst" /\ ServerCloseConnectForce(s) /\ UNCHANGED read
    BY <2>1 DEF Reads, Left, ServerCloseConnectForce
  <2>2. CASE in /\ ServerRead(s, Touch(s_db, s), s_storage[s], Append(sc, Msg("new_connect", At(s_db, s), s)), FALSE)
    BY <1>1, <2>2, ServerReadReads
  <2>3. CASE UNCHANGED <<open, read>> /\ s_con_wait' = s_con_wait \ {s}
    BY <2>3 DEF Reads
  <2> QED
    BY <2>1, <2>2, <2>3 DEF ConnectFinished
<1> QED
  BY <1>1, <1>2, <1>3, ReadingWorks

LEMMA FromServerWorks ==
    ASSUME Rest, GoneInv, alive, NEW s \in Fd, NEW out \in BOOLEAN, NEW in \in BOOLEAN, FromServer(s, out, in)
    PROVE  s \in s_fds /\ Works(s)
<1> PICK front : front = IF out /\ ServerUnsent(s) THEN Head(s_storage[s]) ELSE <<>>
  OBVIOUS
<1> PICK forClose : forClose = (out /\ s \in s_for_close)
  OBVIOUS
<1>1. /\ s \in s_fds /\ s \notin s_con_wait /\ (in => Readable(owner[s]))
      /\ UNCHANGED <<alive, owner, cs, backlog, peer, sent>>
      /\ \E n \in IF front = <<>> THEN {0} ELSE SendResults(s, front) :
            /\ Transmit(s, front, n)
            /\ \/ s \in s_for_close /\ ServerCloseConnectForce(s) /\ UNCHANGED read
               \/ in /\ ServerRead(s, s_db, Flushed(s_storage[s], n), sc, forClose)
               \/ UNCHANGED <<open, read, s_con_wait>>
  BY DEF FromServer
<1>2. PICK n \in IF front = <<>> THEN {0} ELSE SendResults(s, front) :
            /\ Transmit(s, front, n)
            /\ \/ s \in s_for_close /\ ServerCloseConnectForce(s) /\ UNCHANGED read
               \/ in /\ ServerRead(s, s_db, Flushed(s_storage[s], n), sc, forClose)
               \/ UNCHANGED <<open, read, s_con_wait>>
  BY <1>1
<1>3. s \in DOMAIN s_storage /\ s_storage[s] \in Queue
  BY <1>1, ServerOwns, OrderTypes DEF Rest, DirectionTyped
<1>4. \E run \in Seq(Unit) : got' = [got EXCEPT ![owner[s]] = @ \o run]
  <2>1. SubSeq(front, 1, n) \in Seq(Unit)
    BY <1>3, FrontUnits DEF ServerUnsent
  <2> QED
    BY <1>2, <2>1 DEF Transmit
<1>5. Quiet
  BY <1>1 DEF Quiet
<1>6. CASE s \in s_for_close /\ ServerCloseConnectForce(s) /\ UNCHANGED read
  <2>1. MayGo(owner[s])
    BY <1>6, OtherIsGone DEF MayGo
  <2>2. Happens(s)
    BY <1>6 DEF Happens, ServerCloseConnectForce
  <2> QED
    BY <1>1, <1>4, <1>5, <1>6, <2>1, <2>2 DEF Works
<1>7. CASE in /\ ServerRead(s, s_db, Flushed(s_storage[s], n), sc, forClose)
  <2>1. Reads(s) /\ s_con_wait' = s_con_wait \ {s}
    BY <1>1, <1>7, ServerReadReads
  <2> QED
    BY <1>1, <1>4, <1>5, <2>1, ReadingWorks
<1>8. CASE UNCHANGED <<open, read, s_con_wait>>
  <2>1. Reads(s)
    BY <1>8 DEF Reads
  <2> QED
    BY <1>1, <1>4, <1>5, <1>8, <2>1, ReadingWorks
<1> QED
  BY <1>2, <1>6, <1>7, <1>8

\* An announcement is answered once: its server has not been called, and its client is there.
LEMMA AnnouncedStages ==
    ASSUME Rest, GoneInv, alive, cs # <<>>, Head(cs).tod = "new_connect", cs' = Tail(cs),
           NEW k, k = Head(cs).who, UNCHANGED backlog,
           \A x \in Sessions : peer'[Client(x)] = peer[Client(x)] /\ (x # k => peer'[Server(x)] = peer[Server(x)])
    PROVE  /\ k \in Sessions /\ Server(k) \in Endpoint
           /\ StageOf(Client(k)) # "absent" /\ StageOf(Server(k)) = "absent"
           /\ ~NotYet(Server(k))'
           /\ \A ep \in Endpoint : ep # Server(k) => (NotYet(ep)' <=> NotYet(ep))
<1>1. k \in Sessions /\ Announced(k) /\ ~Announced(k)' /\ \A x : Announced(x)' => Announced(x)
  BY FrontAnnounces DEF Rest
<1>2. ~Waiting(k) /\ peer[Server(k)] = "none"
  BY <1>1 DEF Rest, OnceInv, GoneInv, CalledAfterwards
<1>3. \A x : x # k => (Announced(x)' <=> Announced(x))
  <2>1. \A x : Announced(x)' <=> \E m \in Carried(cs') : m.tod = "new_connect" /\ m.who = x
    BY DEF Announced, Carried
  <2> QED
    BY <2>1, PipesMove DEF Rest
<1>4. \A ep : NotYet(ep) <=> \/ peer[Client(ep.id)] = "none" \/ ep.id \in backlog
                             \/ ep.side = "server" /\ peer[ep] = "none" /\ Announced(ep.id)
  BY DEF NotYet, Announced
<1>5. \A ep : NotYet(ep)' <=> \/ peer'[Client(ep.id)] = "none" \/ ep.id \in backlog'
                              \/ ep.side = "server" /\ peer'[ep] = "none" /\ Announced(ep.id)'
  BY DEF NotYet, Announced
<1>6. \A ep \in Endpoint : /\ ep.id \in Sessions
                           /\ ep.side = "server" => ep = Server(ep.id)
                           /\ ep.side = "server" /\ ep.id = k => ep = Server(k)
  BY DEF Endpoint, Server
<1>7. Client(k).id = k /\ Client(k).side = "client" /\ Server(k).id = k /\ Server(k).side = "server"
  BY DEF Client, Server
<1>8. StageOf(Client(k)) # "absent"
  <2>1. ~NotYet(Client(k))
    BY <1>2, <1>4, <1>7 DEF Waiting
  <2> QED
    BY <2>1 DEF StageOf
<1>9. StageOf(Server(k)) = "absent"
  BY <1>1, <1>2, <1>4, <1>7 DEF StageOf
<1>10. ~NotYet(Server(k))'
  BY <1>1, <1>2, <1>5, <1>7 DEF Waiting
<1>11. \A ep \in Endpoint : ep # Server(k) => (NotYet(ep)' <=> NotYet(ep))
  BY <1>3, <1>4, <1>5, <1>6
<1>12. Server(k) \in Endpoint
  BY <1>1, EndsAreEndpoints
<1> QED
  BY <1>1, <1>8, <1>9, <1>10, <1>11, <1>12

LEMMA DialingIsPromised ==
    ASSUME ~Recycle, Rest, GoneInv, alive, FromClientNewConnect
    PROVE  Promise!Dial(Head(cs).who) /\ Head(cs).who \in Sessions
<1> PICK k : k = Head(cs).who
  OBVIOUS
<1>1. /\ cs # <<>> /\ Head(cs).tod = "new_connect" /\ cs' = Tail(cs)
      /\ UNCHANGED <<alive, backlog, sent, read, got>>
      /\ \/ \E s \in Fd : /\ Connecting(s, Head(cs), "pending") \/ Connecting(s, Head(cs), "open")
                          /\ s_con_wait' = s_con_wait \cup {s} \/ s_con_wait' = s_con_wait
         \/ UNCHANGED <<open, owner, peer, s_con_wait>>
  BY DEF FromClientNewConnect, ServerReceives
<1>2. peer \in [Endpoint -> PeerState] /\ \A x \in Sessions : Client(x) \in Endpoint /\ Server(x) \in Endpoint
  BY EndsAreEndpoints DEF Rest, TypeInv, TypeOK, SharedTypeOK
<1>3. k \in Sessions
  BY <1>1, FrontAnnounces DEF Rest
<1>4. open \subseteq DOMAIN owner /\ s_con_wait \subseteq DOMAIN owner
  BY SessionFacts DEF Rest, TypeInv, TypeOK, SharedTypeOK, KnownInv, WaitersHaveClient, IsServerFd
<1>5. CASE UNCHANGED <<open, owner, peer, s_con_wait>>
  <2>1. \A x \in Sessions : peer'[Client(x)] = peer[Client(x)] /\ (x # k => peer'[Server(x)] = peer[Server(x)])
    BY <1>5
  <2>2. /\ Server(k) \in Endpoint
        /\ StageOf(Client(k)) # "absent" /\ StageOf(Server(k)) = "absent"
        /\ ~NotYet(Server(k))'
        /\ \A ep \in Endpoint : ep # Server(k) => (NotYet(ep)' <=> NotYet(ep))
    BY <1>1, <2>1, AnnouncedStages
  <2>3. OthersStay(Server(k))
    BY <1>1, <1>5, <2>2 DEF OthersStay, StageOf, InProxy
  <2>4. StageOf(Server(k))' \in {"dialing", "inside", "gone"}
    BY <2>2 DEF StageOf
  <2>5. \A ep \in Endpoint : Left(ep)' = Left(ep)
    BY <1>5 DEF Left
  <2> QED
    BY <1>1, <1>3, <2>2, <2>3, <2>4, <2>5, PromiseDial
<1>6. ASSUME NEW s \in Fd, NEW far \in {"pending", "open"}, Connecting(s, Head(cs), far),
             s_con_wait' = s_con_wait \cup {s} \/ s_con_wait' = s_con_wait
      PROVE  Promise!Dial(k)
  <2>1. GiveOut(s, Server(k)) /\ peer' = [peer EXCEPT ![Server(k)] = far]
    BY <1>6 DEF Connecting
  <2>2. /\ OwnerGrows /\ s \notin DOMAIN owner /\ open' = open \cup {s} /\ owner'[s] = Server(k)
    BY <1>2, <1>3, <2>1, FreshNumber DEF Rest
  <2>3. \A x \in Sessions : Client(x) # Server(k) /\ (x # k => Server(x) # Server(k))
    BY DEF Client, Server
  <2>4. \A x \in Sessions : peer'[Client(x)] = peer[Client(x)] /\ (x # k => peer'[Server(x)] = peer[Server(x)])
    BY <1>2, <2>1, <2>3
  <2>5. /\ Server(k) \in Endpoint
        /\ StageOf(Client(k)) # "absent" /\ StageOf(Server(k)) = "absent"
        /\ ~NotYet(Server(k))'
        /\ \A ep \in Endpoint : ep # Server(k) => (NotYet(ep)' <=> NotYet(ep))
    BY <1>1, <2>4, AnnouncedStages
  <2>6. OthersStay(Server(k))
    <3> SUFFICES ASSUME NEW ep \in Endpoint, ep # Server(k) PROVE StageOf(ep)' = StageOf(ep)
      BY DEF OthersStay
    <3>1. InProxy(ep)' <=> InProxy(ep)
      BY <1>4, <2>2 DEF InProxy, OwnerGrows
    <3>2. (\E d \in s_con_wait' : owner'[d] = ep) <=> \E d \in s_con_wait : owner[d] = ep
      BY <1>4, <1>6, <2>2 DEF OwnerGrows
    <3> QED
      BY <1>1, <2>5, <3>1, <3>2 DEF StageOf
  <2>7. StageOf(Server(k))' \in {"dialing", "inside", "gone"}
    BY <2>5 DEF StageOf
  <2>8. \A ep \in Endpoint : Left(ep)' = Left(ep)
    <3>1. peer[Server(k)] = "none"
      <4>1. Announced(k)
        BY <1>1, FrontAnnounces DEF Rest
      <4> QED
        BY <1>3, <4>1 DEF GoneInv, CalledAfterwards
    <3> QED
      BY <1>2, <1>3, <2>1, <3>1 DEF Left
  <2> QED
    BY <1>1, <1>3, <2>5, <2>6, <2>7, <2>8, PromiseDial
<1> QED
  BY <1>1, <1>3, <1>5, <1>6

LEMMA ServerStepIsPromised ==
    ASSUME ~Recycle, Rest, GoneInv, TypeInv', SessionInv', OrderInv', ServerStep
    PROVE  PromiseStep
<1>1. alive
  BY DEF ServerStep
<1>2. CASE FromClientNewConnect
  BY <1>1, <1>2, DialingIsPromised, PromiseStepKinds
<1>3. CASE SocketFails \/ ServerPollNval
  BY <1>1, <1>3, PromiseFail, PromiseStepKinds DEF SocketFails, ServerPollNval, ServerFatal
<1>4. CASE ServerHupOnEmptySlot
  <2>1. /\ Quiet /\ UNCHANGED <<open, read, got, s_con_wait>>
    BY <1>1, <1>4 DEF ServerHupOnEmptySlot, Quiet, netvars
  <2>2. -1 \notin open
    BY SessionFacts DEF Rest, TypeInv, TypeOK, SharedTypeOK
  <2> QED
    BY <2>1, <2>2, WorkForNobody DEF Happens, PromiseStep
<1>5. CASE FromClientData
  BY <1>1, <1>5, FromClientDataIsService, PromiseStepKinds DEF PromiseStep
<1>6. CASE FromClientConnectNotFound \/ FromClientDisconnect
  BY <1>1, <1>6, ServerToldIsService, PromiseStepKinds DEF PromiseStep
<1>7. ASSUME NEW s \in s_fds, Works(s) PROVE PromiseStep
  BY <1>7, WorkIsService, PolledHaveCome, PromiseStepKinds
<1>8. ASSUME NEW s \in Fd, ConnectTimeout(s) PROVE PromiseStep
  <2>1. s \in s_con_wait /\ s \in s_fds
    BY <1>8 DEF ConnectTimeout, Rest, KnownInv, WaitersHaveClient
  <2>2. MayGo(owner[s])
    BY <1>1, <2>1, PolledStages DEF MayGo
  <2>3. Works(s)
    BY <1>1, <1>8, <2>2 DEF ConnectTimeout, Works, Quiet, Happens, netvars
  <2> QED
    BY <1>7, <2>1, <2>3
<1>9. ASSUME NEW s \in Fd, ServerHup(s) PROVE PromiseStep
  <2>1. s \in s_fds /\ Left(owner[s])
    BY <1>9 DEF ServerHup, Left
  <2>2. Works(s)
    BY <1>1, <1>9, <2>1 DEF ServerHup, ServerCloseConnectForce, Works, Quiet, Happens, MayGo, netvars
  <2> QED
    BY <1>7, <2>1, <2>2
<1>10. CASE \E s \in Fd, in \in BOOLEAN : ConnectFinished(s, in)
  BY <1>1, <1>7, <1>10, ConnectFinishedWorks
<1>11. CASE \E s \in Fd : \E out, in \in BOOLEAN : FromServer(s, out, in)
  BY <1>1, <1>7, <1>11, FromServerWorks
<1> QED
  BY <1>2, <1>3, <1>4, <1>5, <1>6, <1>8, <1>9, <1>10, <1>11 DEF ServerStep, ServerHandlesMessage, ServerServes

\* The far ends change no stage.
LEMMA NetStepIsPromised ==
    ASSUME Rest, alive, NetStep, UNCHANGED <<cvars, svars>>
    PROVE  PromiseStep
<1>1. peer \in [Endpoint -> PeerState] /\ \A k \in Sessions : Client(k) \in Endpoint /\ Server(k) \in Endpoint
  BY EndsAreEndpoints DEF Rest, TypeInv, TypeOK, SharedTypeOK
<1>2. UNCHANGED <<alive, open, owner, cs, sc, read, got, s_con_wait>>
  BY NetIsQuiet DEF Rest, svars
<1>3. ASSUME \A ep \in Endpoint : NotYet(ep)' <=> NotYet(ep) PROVE StagesStay
  BY <1>2, <1>3 DEF StagesStay, StageOf, InProxy
<1>4. ASSUME NEW k \in Sessions, Connect(k) PROVE PromiseStep
  <2>1. /\ peer[Client(k)] = "none" /\ peer' = [peer EXCEPT ![Client(k)] = "open"]
        /\ backlog' = backlog \cup {k} /\ UNCHANGED sent
    BY <1>4 DEF Connect
  <2>2. \A ep \in Endpoint : /\ Client(ep.id) \in Endpoint
                             /\ ep.id # k => Client(ep.id) # Client(k)
                             /\ ep.side = "server" => ep # Client(k)
    BY EndsAreEndpoints DEF Client
  <2>3. \A ep \in Endpoint : NotYet(ep)' <=> NotYet(ep)
    <3>1. ASSUME NEW ep \in Endpoint, ep.id = k PROVE NotYet(ep)' /\ NotYet(ep)
      BY <2>1, <3>1 DEF NotYet
    <3>2. ASSUME NEW ep \in Endpoint, ep.id # k PROVE NotYet(ep)' <=> NotYet(ep)
      BY <1>1, <1>2, <2>1, <2>2, <3>2 DEF NotYet
    <3> QED
      BY <3>1, <3>2
  <2>4. \A ep \in Endpoint : Left(ep)' = Left(ep)
    BY <1>1, <2>1 DEF Left
  <2> QED
    BY <1>2, <1>3, <2>1, <2>3, <2>4, PromiseNothing DEF PromiseStep
<1>5. ASSUME NEW ep \in Endpoint, PeerStep(ep) PROVE PromiseStep
  <2>1. /\ UNCHANGED backlog /\ peer[ep] # "none"
        /\ \/ UNCHANGED peer /\ peer[ep] = "open" /\ sent' = [sent EXCEPT ![ep] = @ + 1]
           \/ UNCHANGED sent /\ peer[ep] = "pending" /\ peer' = [peer EXCEPT ![ep] = "open"]
           \/ UNCHANGED sent /\ peer' = [peer EXCEPT ![ep] = "fin"]
           \/ UNCHANGED sent /\ peer' = [peer EXCEPT ![ep] = "rst"]
    BY <1>5 DEF PeerStep, ConnectAnswered, PeerSends, PeerShutsDown, PeerResets
  <2>2. StagesStay
    <3>1. \A x \in Endpoint : (peer'[x] = "none") <=> (peer[x] = "none")
      BY <1>1, <2>1
    <3>2. \A x \in Endpoint : NotYet(x)' <=> NotYet(x)
      BY <1>2, <2>1, <3>1, EndsAreEndpoints DEF NotYet
    <3> QED
      BY <1>3, <3>2
  <2>3. CASE UNCHANGED peer /\ peer[ep] = "open" /\ sent' = [sent EXCEPT ![ep] = @ + 1]
    BY <1>2, <2>2, <2>3, PromiseFarSends, PromiseStepKinds DEF Left
  <2>4. CASE UNCHANGED sent /\ peer[ep] = "pending" /\ peer' = [peer EXCEPT ![ep] = "open"]
    <3>1. \A x \in Endpoint : Left(x)' = Left(x)
      BY <1>1, <2>4 DEF Left
    <3> QED
      BY <1>2, <2>2, <2>4, <3>1, PromiseNothing DEF PromiseStep
  <2>5. ASSUME UNCHANGED sent, NEW a \in {"fin", "rst"}, peer' = [peer EXCEPT ![ep] = a]
        PROVE  PromiseStep
    BY <1>1, <1>2, <2>2, <2>5, PromiseFarLeaves, PromiseStepKinds
  <2>6. CASE UNCHANGED sent /\ peer' = [peer EXCEPT ![ep] = "fin"]
    BY <2>5, <2>6
  <2>7. CASE UNCHANGED sent /\ peer' = [peer EXCEPT ![ep] = "rst"]
    BY <2>5, <2>7
  <2> QED
    BY <2>1, <2>3, <2>4, <2>6, <2>7
<1> QED
  BY <1>4, <1>5 DEF NetStep

\* If no descriptor number is used twice, the relay keeps what SessionSpec promises to the two
\* ends of a session: each comes in once, the client first; unless a fatal error ends the
\* relay, it goes only when it has left itself, when its other end is gone for good, or when the
\* call to it does not get through; and every unit is delivered in order, to the other end of its
\* own session, once it has been taken.
THEOREM PromiseIsKept == ~Recycle => (Spec => KeepsPromise)
<1> SUFFICES ASSUME ~Recycle PROVE Spec => KeepsPromise
  OBVIOUS
<1>1. Rest /\ GoneInv /\ TypeInv' /\ SessionInv' /\ OrderInv' /\ [Next]_vars
        => [Promise!Next]_(Promise!vars)
  <2> SUFFICES ASSUME Rest, GoneInv, TypeInv', SessionInv', OrderInv', [Next]_vars PROVE PromiseStep
    BY DEF PromiseStep
  <2>1. CASE ClientStep /\ UNCHANGED svars
    BY <2>1, ClientStepIsPromised
  <2>2. CASE ServerStep /\ UNCHANGED cvars
    BY <2>2, ServerStepIsPromised
  <2>3. CASE alive /\ NetStep /\ UNCHANGED <<cvars, svars>>
    BY <2>3, NetStepIsPromised
  <2>4. CASE UNCHANGED vars
    <3>1. StagesStay
      BY <2>4 DEF vars, sharedvars, svars, StagesStay, StageOf, NotYet, InProxy
    <3>2. \A ep \in Endpoint : Left(ep)' = Left(ep)
      BY <2>4 DEF vars, sharedvars, Left
    <3>3. UNCHANGED <<sent, read, got>>
      BY <2>4 DEF vars, sharedvars
    <3> QED
      BY <3>1, <3>2, <3>3, PromiseNothing DEF PromiseStep
  <2> QED
    BY <2>1, <2>2, <2>3, <2>4 DEF Next
<1>2. Rest => TypeInv /\ SessionInv
  BY DEF Rest
<1> QED
  BY <1>1, <1>2, PromiseInit, OrphanInvariant, GoneInvariant, OrderInvariant, PTL
     DEF Spec, KeepsPromise, Promise!Spec

===============================================================================
