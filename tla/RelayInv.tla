------------------------------- MODULE RelayInv -------------------------------
(***************************************************************************)
(* The inductive invariants behind InOrder, FlushListHasData,              *)
(* OrphanServerIsTold, OrphanClientIsTold and the refinement KeepsPromise, *)
(* when descriptor numbers are not recycled.                               *)
(***************************************************************************)
EXTENDS SessionInv

-----------------------------------------------------------------------------
(* A session goes through the proxy once: one accept(), one message, one   *)
(* connect(), and one descriptor for each.                                 *)

Announced(k) == \E i \in 1 .. Len(cs) : cs[i].tod = "new_connect" /\ cs[i].who = k
Numbered(ep) == \E d \in DOMAIN owner : owner[d] = ep
Waiting(k) == peer[Client(k)] = "none" \/ k \in backlog

OnceInv ==
    /\ \A d, e \in DOMAIN owner : owner[d] = owner[e] => d = e
    /\ \A k \in Sessions : peer[Client(k)] = "none" => k \notin backlog
    /\ \A k \in Sessions : Waiting(k) => ~Announced(k) /\ ~Numbered(Client(k)) /\ ~Numbered(Server(k))
    /\ \A k \in Sessions : Announced(k) => ~Numbered(Server(k))
    /\ \A i, j \in 1 .. Len(cs) :
         cs[i].tod = "new_connect" /\ cs[j].tod = "new_connect" /\ cs[i].who = cs[j].who => i = j

-----------------------------------------------------------------------------
(* The order of a stream: what is read comes after what is on its way,     *)
(* that after what is queued, and that after what was passed on.           *)

Sorted(run) == \A i, j \in 1 .. Len(run) : i < j => run[i].n < run[j].n

\* Two runs of units: what both have of one stream comes first in the first.
Before(run, next) ==
    \A i \in 1 .. Len(run), j \in 1 .. Len(next) : run[i].from = next[j].from => run[i].n < next[j].n

\* Nothing is on its way that was not read, with `taken' of every stream.
WasRead(run, taken) == \A i \in 1 .. Len(run) : run[i].n <= taken[run[i].from]

PipeInOrder(pipe, taken) ==
    \A i \in 1 .. Len(pipe) :
        /\ Sorted(pipe[i].body) /\ WasRead(pipe[i].body, taken)
        /\ \A j \in 1 .. Len(pipe) : i < j => Before(pipe[i].body, pipe[j].body)

QueueInOrder(q, taken) ==
    \A i \in 1 .. Len(q) :
        /\ Sorted(q[i]) /\ WasRead(q[i], taken)
        /\ \A j \in 1 .. Len(q) : i < j => Before(q[i], q[j])

QueueBeforePipe(q, pipe) ==
    \A i \in 1 .. Len(q), j \in 1 .. Len(pipe) : Before(q[i], pipe[j].body)

RunBeforePipe(run, pipe) == \A j \in 1 .. Len(pipe) : Before(run, pipe[j].body)
RunBeforeQueue(run, q) == \A i \in 1 .. Len(q) : Before(run, q[i])

\* One direction: the pipe to a thread, the queues of its sockets, and their far ends.
\* passed, taken and own stand for got, read and owner.
DirectionInOrder(side, pipe, storage, passed, taken, own) ==
    /\ PipeInOrder(pipe, taken)
    /\ \A d \in DOMAIN storage :
         /\ QueueInOrder(storage[d], taken)
         /\ QueueBeforePipe(storage[d], pipe)
         /\ RunBeforeQueue(passed[own[d]], storage[d])
    /\ \A ep \in Endpoint : ep.side = side =>
         /\ Sorted(passed[ep]) /\ WasRead(passed[ep], taken)
         /\ RunBeforePipe(passed[ep], pipe)

OrderInv ==
    /\ DirectionInOrder("server", cs, s_storage, got, read, owner)
    /\ DirectionInOrder("client", sc, c_storage, got, read, owner)

-----------------------------------------------------------------------------
(* The flush list, and a socket whose connect() is in progress: no one has *)
(* heard of it, so nothing can be queued for it.                           *)

\* The server sockets that the client thread, or a message to or from it, names.
NamesIn(pipe) == {pipe[i].s : i \in 1 .. Len(pipe)}
Heard == {c_db[c] : c \in DOMAIN c_db} \cup NamesIn(cs) \cup NamesIn(sc)

\* What is flushed has unsent data, and what has unsent data is polled.
FlushOK(polled, flushed, storage) ==
    /\ \A d \in flushed : d \in DOMAIN storage /\ storage[d] # <<>>
    /\ \A d \in DOMAIN storage : storage[d] # <<>> => d \in polled

FlushInv ==
    /\ FlushOK(c_fds, c_for_close, c_storage)
    /\ FlushOK(s_fds \ s_con_wait, s_for_close, s_storage)
    /\ s_con_wait \cap Heard = {}

-----------------------------------------------------------------------------
(* The ends of a session and the messages that end them.                   *)

\* The messages on their way through a pipe.
Carried(pipe) == {pipe[i] : i \in 1 .. Len(pipe)}

EndsServer(m, s) == m.tod \in {"disconnect", "connect_not_found"} /\ m.s = s
EndsClient(m, c) == m.tod \in {"disconnect", "not_connect"} /\ m.c = c

\* The sockets a thread polls and does not flush away.
LiveClients == c_fds \ c_for_close
LiveServers == s_fds \ s_for_close

\* c is the client socket of the session of the server socket s.
PairedWith(c, s) == IsClientFd(c) /\ owner[c].id = owner[s].id

\* The client socket of a live server socket has that socket on record, or will be told of
\* it, or the message that will close the server socket is on its way.
ServerIsMatched(s) ==
    \/ \E c \in DOMAIN c_db \ c_for_close : c_db[c] = s
    \/ \E m \in Carried(sc) : m.tod = "new_connect" /\ m.s = s
    \/ \E m \in Carried(cs) : EndsServer(m, s)

\* A live client socket has its server socket, or waits for one, or will be told there is none.
ClientIsMatched(c) ==
    \/ InProxy(Server(owner[c].id))
    \/ \E m \in Carried(sc) : EndsClient(m, c)
    \/ \E m \in Carried(cs) : m.tod = "new_connect" /\ m.c = c

\* The sessions that have a live server socket or will have one dialled, and those that have
\* a live client socket.
ServerSide ==
    {owner[s].id : s \in LiveServers}
        \cup {m.who : m \in {x \in Carried(cs) : x.tod = "new_connect"}}
ClientSide == {owner[c].id : c \in LiveClients}

OrphanInv ==
    /\ DOMAIN c_db \subseteq c_fds
    /\ \A s \in LiveServers : PairedWith(s_db[s], s)
    /\ \A s \in LiveServers \ s_con_wait : ServerIsMatched(s)
    /\ \A c \in LiveClients : ClientIsMatched(c)
    /\ \A c \in c_for_close : owner[c].id \notin ServerSide
    /\ \A s \in s_for_close : owner[s].id \notin ClientSide
    /\ \A m \in Carried(sc) :
         /\ m.tod \in {"disconnect", "not_connect"} /\ IsClientFd(m.c) =>
                owner[m.c].id \notin ServerSide
         /\ m.tod = "new_connect" => PairedWith(m.c, m.s)
    /\ \A m \in Carried(cs) :
         m.tod \in {"disconnect", "connect_not_found"} /\ IsServerFd(m.s) =>
            owner[m.s].id \notin ClientSide

-----------------------------------------------------------------------------
(* What lets one end of a session go because of the other: the other is    *)
(* out of the proxy for good, not merely on its way out.                   *)

\* What is open is polled by its thread.
OpenArePolled ==
    \A d \in open : (IsClientFd(d) => d \in c_fds) /\ (IsServerFd(d) => d \in s_fds)

\* A server is called once its session has been announced, and not before.
CalledAfterwards ==
    \A k \in Sessions : Waiting(k) \/ Announced(k) => peer[Server(k)] = "none"

\* The two sockets of a session are not both kept only to be flushed.
NeverBothFlushed ==
    \A c \in c_for_close, s \in s_for_close : owner[c].id # owner[s].id

GoneInv == OpenArePolled /\ CalledAfterwards /\ NeverBothFlushed

=============================================================================
