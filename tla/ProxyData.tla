------------------------------ MODULE ProxyData ------------------------------
(***************************************************************************)
(* What the client thread and the server thread of sql_proxy share: the    *)
(* messages they exchange over two socket pairs, the descriptor table of   *)
(* the process, and the TCP connections at the other end of its sockets.   *)
(*                                                                         *)
(* A session is one incoming connection: its client endpoint is the socket *)
(* accept() returns, its server endpoint the socket connect() opens for    *)
(* it.  The program knows neither: it names a session by the numbers of    *)
(* its two descriptors.  `owner' and the field `who' of a message are      *)
(* ghosts that remember which session is meant.                            *)
(***************************************************************************)
EXTENDS Integers, Sequences, FiniteSets

CONSTANTS
    Sessions,  \* the incoming connections of a behaviour
    Fd,        \* the descriptor numbers the process may use; 0 is standard input
    MaxUnits,  \* bound: units of data the far end of an endpoint sends
    MaxTalkers,\* bound: endpoints whose far end sends data at all
    MaxLeavers,\* bound: endpoints whose far end leaves
    MaxBody,   \* DATA_BUFFER_SIZE, in units: the most that one recv() returns
    Recycle    \* TRUE: a number is given out again, the lowest first, as POSIX has it;
               \* FALSE: every socket gets a number never used before

ASSUME ProxyAssumption ==
    /\ Fd \subseteq Nat
    /\ 0 \in Fd
    /\ MaxUnits \in Nat
    /\ MaxTalkers \in Nat
    /\ MaxLeavers \in Nat
    /\ MaxBody \in Nat \ {0}
    /\ Recycle \in BOOLEAN

Client(k) == [side |-> "client", id |-> k]
Server(k) == [side |-> "server", id |-> k]
Stdio == [side |-> "stdio", id |-> 0]

Endpoint == [side : {"client", "server"}, id : Sessions]
Owner == Endpoint \cup {Stdio}

Opposite(ep) == IF ep.side = "client" THEN Server(ep.id) ELSE Client(ep.id)

\* A unit of a byte stream: who wrote it, and its position in that stream.
Unit == [from : Endpoint, n : 1 .. MaxUnits]

\* What storage[d] holds: the buffers that wait for send(), each a run of units.
Queue == Seq(Seq(Unit))

FdOrNone == Fd \cup {-1}

Tod == {"new_connect", "disconnect", "data", "not_connect", "connect_not_found"}
Message == [tod : Tod, c : FdOrNone, s : FdOrNone,
            body : Seq(Unit), who : Sessions \cup {0}]
ClientMessage == {m \in Message : m.tod = "new_connect" => m.who \in Sessions}

Msg(tod, c, s) == [tod |-> tod, c |-> c, s |-> s, body |-> <<>>, who |-> 0]
DataMsg(c, s, body) == [Msg("data", c, s) EXCEPT !.body = body]
ConnectMsg(c, k) == [Msg("new_connect", c, -1) EXCEPT !.who = k]

-----------------------------------------------------------------------------
(* std::map<int, T> as a function whose domain is the set of keys.         *)

IsMap(f, K, V) == /\ DOMAIN f \subseteq K
                  /\ f \in [DOMAIN f -> V]

Put(f, k, v) == [x \in DOMAIN f \cup {k} |-> IF x = k THEN v ELSE f[x]]
Erase(f, k) == [x \in DOMAIN f \ {k} |-> f[x]]

\* map[k] of a map from int to int: the lookup itself inserts a missing key, with 0.
Touch(f, k) == IF k \in DOMAIN f THEN f ELSE Put(f, k, 0)
At(f, k) == IF k \in DOMAIN f THEN f[k] ELSE 0

-----------------------------------------------------------------------------
(* The queue of unsent buffers of one socket: storage[d].                  *)

\* Variant: a partial send leaves the whole buffer queued.
FlushedNotCut(q, n) == IF n <= 0 \/ n < Len(Head(q)) THEN q ELSE Tail(q)

\* Variant: what a partial send left is not put back.
FlushedForgets(q, n) == IF n <= 0 THEN q ELSE Tail(q)

\* save_unset_data_storage puts what send() did not take back in front.
\* delete_data_storage drops a buffer that send() took whole.
\* n is what send() returned: -1 an error, 0 stands for EWOULDBLOCK.
Flushed(q, n) ==
    IF n <= 0 THEN q
    ELSE IF n = Len(Head(q)) THEN Tail(q)
    ELSE <<SubSeq(Head(q), n + 1, Len(Head(q)))>> \o Tail(q)

\* The buffer that send() is called with when `body' arrives for a socket.
ToSend(q, body) == IF q = <<>> THEN body ELSE Head(q)

\* The queue after `body' was relayed: it is sent directly when nothing is queued, else
\* it is queued and the front of the queue is sent.
Relayed(q, body, n) ==
    IF q # <<>> THEN Flushed(Append(q, body), n)
    ELSE IF n = -1 THEN <<>>
    ELSE Flushed(<<body>>, n)

-----------------------------------------------------------------------------
VARIABLES
    alive,    \* ~pi->end_proxy: no thread has thrown a fatal error
    open,     \* the open descriptors of the process
    owner,    \* what a descriptor number was last given out for
    cs, sc,   \* the socket pairs from client to server thread and back
    backlog,  \* sessions waiting in accept()'s queue
    peer,     \* the far end of an endpoint
    sent,     \* how many units the far end has written
    read,     \* how many of them recv() has returned
    got       \* the units send() has passed on to the far end

netvars == <<backlog, peer, sent, read, got>>
sharedvars == <<alive, open, owner, cs, sc, backlog, peer, sent, read, got>>

PeerState == {"none", "pending", "open", "fin", "rst"}

SharedTypeOK ==
    /\ alive \in BOOLEAN
    /\ open \subseteq Fd
    /\ IsMap(owner, Fd, Owner)
    /\ open \subseteq DOMAIN owner
    /\ cs \in Seq(ClientMessage)
    /\ sc \in Seq(Message)
    /\ backlog \subseteq Sessions
    /\ peer \in [Endpoint -> PeerState]
    /\ sent \in [Endpoint -> 0 .. MaxUnits]
    /\ read \in [Endpoint -> 0 .. MaxUnits]
    /\ \A ep \in Endpoint : read[ep] <= sent[ep]
    /\ got \in [Endpoint -> Seq(Unit)]

SharedInit ==
    /\ alive = TRUE
    /\ open = {0}
    /\ owner = [d \in {0} |-> Stdio]
    /\ cs = <<>>
    /\ sc = <<>>
    /\ backlog = {}
    /\ peer = [ep \in Endpoint |-> "none"]
    /\ sent = [ep \in Endpoint |-> 0]
    /\ read = [ep \in Endpoint |-> 0]
    /\ got = [ep \in Endpoint |-> <<>>]

\* The numbers the kernel may not give out now.
Taken == IF Recycle THEN open ELSE DOMAIN owner

\* accept() and socket() return the lowest number that is free.
IsNextFd(d) == /\ d \in Fd \ Taken
               /\ \A e \in Fd \ Taken : d <= e

GiveOut(d, ep) ==
    /\ IsNextFd(d)
    /\ open' = open \cup {d}
    /\ owner' = Put(owner, d, ep)

Available(ep) == sent[ep] - read[ep]

\* recv() would not block: there is data, the end of the stream, or an error.
Readable(ep) == Available(ep) > 0 \/ peer[ep] \in {"fin", "rst"}

\* Variant: the size of the buffer is taken for the count that recv() returned.
RecvCountsOfBuffer(ep) == {m \in {MaxBody} : Available(ep) > 0}

\* What one recv() may return.
RecvCounts(ep) == {m \in 1 .. MaxBody : m <= Available(ep)}
RecvBody(ep, m) == [i \in 1 .. m |-> [from |-> ep, n |-> read[ep] + i]]

\* What one send() on descriptor d may return.
SendResults(d, buf) ==
    IF d \notin open \/ peer[owner[d]] = "rst" THEN {-1}
    ELSE IF peer[owner[d]] = "pending" THEN {0}
    ELSE 0 .. Len(buf)

Transmit(d, buf, n) ==
    got' = [got EXCEPT ![owner[d]] = @ \o SubSeq(buf, 1, n)]

-----------------------------------------------------------------------------
(* The far ends: clients, and the database server.                         *)

InProxy(ep) == \E d \in open : owner[d] = ep
Live(ep) == InProxy(ep) \/ (ep.side = "client" /\ ep.id \in backlog)

\* A client connects to the listening socket.
Connect(k) ==
    /\ peer[Client(k)] = "none"
    /\ peer' = [peer EXCEPT ![Client(k)] = "open"]
    /\ backlog' = backlog \cup {k}
    /\ UNCHANGED <<alive, open, owner, cs, sc, sent, read, got>>

\* The database server answers a connect() that is in progress.
ConnectAnswered(ep) ==
    /\ peer[ep] = "pending"
    /\ Live(ep)
    /\ \E answer \in {"open", "rst"} : peer' = [peer EXCEPT ![ep] = answer]
    /\ UNCHANGED <<alive, open, owner, cs, sc, backlog, sent, read, got>>

PeerSends(ep) ==
    /\ peer[ep] = "open"
    /\ Live(ep)
    /\ sent[ep] < MaxUnits
    /\ Cardinality({e \in Endpoint \ {ep} : sent[e] > 0}) < MaxTalkers
    /\ sent' = [sent EXCEPT ![ep] = @ + 1]
    /\ UNCHANGED <<alive, open, owner, cs, sc, backlog, peer, read, got>>

MayLeave(ep) == Cardinality({e \in Endpoint \ {ep} : peer[e] \in {"fin", "rst"}}) < MaxLeavers

PeerShutsDown(ep) ==
    /\ peer[ep] = "open"
    /\ Live(ep)
    /\ MayLeave(ep)
    /\ peer' = [peer EXCEPT ![ep] = "fin"]
    /\ UNCHANGED <<alive, open, owner, cs, sc, backlog, sent, read, got>>

PeerResets(ep) ==
    /\ peer[ep] \in {"open", "fin"}
    /\ Live(ep)
    /\ MayLeave(ep)
    /\ peer' = [peer EXCEPT ![ep] = "rst"]
    /\ UNCHANGED <<alive, open, owner, cs, sc, backlog, sent, read, got>>

PeerStep(ep) == ConnectAnswered(ep) \/ PeerSends(ep) \/ PeerShutsDown(ep) \/ PeerResets(ep)

=============================================================================
