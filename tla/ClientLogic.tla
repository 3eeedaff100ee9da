----------------------------- MODULE ClientLogic -----------------------------
(***************************************************************************)
(* The client thread, client_logic.cpp: it accepts connections, relays     *)
(* what they send to the server thread, and hands them what it is sent.    *)
(*                                                                         *)
(* One action is one handler of the poll loop, run to its end.  The poll   *)
(* array is the set c_fds of the connections in it (its slots, and the     *)
(* gate on the output pipes, are left to a module of their own); poll()    *)
(* may report any subset of the events that are true of a socket.          *)
(*                                                                         *)
(* from_server_data lacks one closing brace at this commit (line 841 is    *)
(* commented out).  It is read with that brace in place, as its            *)
(* indentation and its variable `direct' have it.                          *)
(***************************************************************************)
EXTENDS ProxyData

VARIABLES
    c_db,         \* key: client socket descriptor, value: server socket descriptor
    c_fds,        \* the client sockets in the poll array
    c_for_close,  \* db_for_close: sockets to close once their queue is sent
    c_storage,    \* the unsent buffers of every client socket
    c_stale       \* a slot emptied in this iteration still shows POLLHUP

cvars == <<c_db, c_fds, c_for_close, c_storage, c_stale>>

ClientTypeOK ==
    /\ IsMap(c_db, Fd, FdOrNone)
    /\ c_fds \subseteq Fd
    /\ c_for_close \subseteq Fd
    /\ IsMap(c_storage, Fd, Queue)
    /\ c_stale \in BOOLEAN

ClientInit ==
    /\ c_db = [d \in {} |-> -1]
    /\ c_fds = {}
    /\ c_for_close = {}
    /\ c_storage = [d \in {} |-> <<>>]
    /\ c_stale = FALSE

ClientUnsent(d) == d \in DOMAIN c_storage /\ c_storage[d] # <<>>

ClientFatal ==
    /\ alive' = FALSE
    /\ UNCHANGED <<open, owner, cs, sc, netvars, cvars>>

ClientCloseConnectForce(d) ==
    /\ c_fds' = c_fds \ {d}
    /\ open' = open \ {d}
    /\ c_db' = Erase(c_db, d)
    /\ c_for_close' = c_for_close \ {d}
    /\ c_storage' = Erase(c_storage, d)

\* Variant: a socket is left to be flushed although nothing is unsent.
ClientCloseConnectLater(d) ==
    /\ c_for_close' = c_for_close \cup {d}
    /\ c_db' = Erase(c_db, d)
    /\ c_stale' = FALSE
    /\ UNCHANGED <<open, c_fds, c_storage>>

\* Variant: a socket with unsent data is forgotten, and not put on the flush list.
ClientCloseConnectUnlisted(d) ==
    IF ClientUnsent(d)
    THEN /\ c_db' = Erase(c_db, d)
         /\ c_stale' = FALSE
         /\ UNCHANGED <<open, c_fds, c_for_close, c_storage>>
    ELSE /\ ClientCloseConnectForce(d)
         /\ c_stale' = FALSE

ClientCloseConnect(d) ==
    IF ClientUnsent(d)
    THEN /\ c_for_close' = c_for_close \cup {d}
         /\ c_db' = Erase(c_db, d)
         /\ c_stale' = FALSE
         /\ UNCHANGED <<open, c_fds, c_storage>>
    ELSE /\ ClientCloseConnectForce(d)
         /\ c_stale' = (d \in c_fds /\ d \in open /\ peer[owner[d]] = "rst")

-----------------------------------------------------------------------------
(* new_connect: accept, tell the server thread, then record the socket.    *)

Accept(k) ==
    /\ k \in backlog
    /\ backlog' = backlog \ {k}
    /\ \E c \in Fd :
         /\ GiveOut(c, Client(k))
         /\ cs' = Append(cs, ConnectMsg(c, k))
         /\ c_db' = Put(c_db, c, -1)
         /\ c_storage' = Put(c_storage, c, <<>>)
         /\ c_fds' = c_fds \cup {c}
    /\ UNCHANGED <<alive, sc, peer, sent, read, got, c_for_close, c_stale>>

\* A socket option cannot be set: the thread ends, and with it the proxy.
AcceptFails == backlog # {} /\ ClientFatal

-----------------------------------------------------------------------------
(* from_server: one message of the server thread.                          *)

ClientReceives(tod) == /\ sc # <<>>
                       /\ Head(sc).tod = tod
                       /\ sc' = Tail(sc)

\* Variant: a server that names no known client is not told so.
FromServerNewConnectUnanswered ==
    /\ ClientReceives("new_connect")
    /\ c_db' = IF Head(sc).c \in DOMAIN c_db THEN Put(c_db, Head(sc).c, Head(sc).s) ELSE c_db
    /\ c_stale' = FALSE
    /\ UNCHANGED <<alive, open, owner, cs, netvars, c_fds, c_for_close, c_storage>>

\* Variant: the server socket goes to whichever client waits for one.
FromServerNewConnectAnyClient ==
    /\ ClientReceives("new_connect")
    /\ \E c \in {x \in DOMAIN c_db : c_db[x] = -1} : c_db' = Put(c_db, c, Head(sc).s)
    /\ c_stale' = FALSE
    /\ UNCHANGED <<alive, open, owner, cs, netvars, c_fds, c_for_close, c_storage>>

FromServerNewConnect ==
    LET d == Head(sc) IN
    /\ ClientReceives("new_connect")
    /\ \/ /\ d.c \in DOMAIN c_db
          /\ c_db' = Put(c_db, d.c, d.s)
          /\ UNCHANGED cs
       \/ /\ d.c \notin DOMAIN c_db
          /\ cs' = Append(cs, Msg("connect_not_found", d.c, d.s))
          /\ UNCHANGED c_db
    /\ c_stale' = FALSE
    /\ UNCHANGED <<alive, open, owner, netvars, c_fds, c_for_close, c_storage>>

\* `writable': POLLOUT is in revents of the socket's slot; without it the data is dropped.
FromServerData ==
    LET d == Head(sc)
        q == c_storage[d.c]
    IN
    /\ ClientReceives("data")
    /\ \E writable \in BOOLEAN :
         \/ /\ d.c \notin c_fds \/ ~writable
            /\ UNCHANGED <<cs, got, c_storage>>
         \/ /\ d.c \in c_fds \ DOMAIN c_db /\ writable
            /\ cs' = Append(cs, Msg("connect_not_found", d.c, d.s))
            /\ UNCHANGED <<got, c_storage>>
         \/ /\ d.c \in c_fds \cap DOMAIN c_db /\ writable
            /\ \E n \in SendResults(d.c, ToSend(q, d.body)) :
                 /\ Transmit(d.c, ToSend(q, d.body), n)
                 /\ c_storage' = Put(c_storage, d.c, Relayed(q, d.body, n))
            /\ UNCHANGED cs
    /\ c_stale' = FALSE
    /\ UNCHANGED <<alive, open, owner, backlog, peer, sent, read,
                   c_db, c_fds, c_for_close>>

FromServerNotConnect ==
    /\ ClientReceives("not_connect")
    /\ ClientCloseConnect(Head(sc).c)   \* the server thread always names a client: c_sd >= 0
    /\ UNCHANGED <<alive, owner, cs, netvars>>

FromServerDisconnect ==
    /\ ClientReceives("disconnect")
    /\ ClientCloseConnect(Head(sc).c)
    /\ UNCHANGED <<alive, owner, cs, netvars>>

ClientHandlesMessage == \/ FromServerNewConnect
                        \/ FromServerData
                        \/ FromServerNotConnect
                        \/ FromServerDisconnect

-----------------------------------------------------------------------------
(* from_clients: a client socket is readable or writable.                  *)

\* The second half, under POLLIN.  q is the queue the first half left.
ClientRead(c, q) ==
    LET ep == owner[c]
        srv == At(c_db, c)   \* inserts 0 for a socket that only waits to be closed
    IN
    \/ /\ Available(ep) = 0 \/ (peer[ep] = "rst" /\ srv >= 0)
       /\ cs' = Append(cs, Msg("disconnect", c, srv))
       /\ ClientCloseConnectForce(c)
       /\ UNCHANGED read
    \/ /\ Available(ep) > 0
       /\ c_storage' = Put(c_storage, c, q)
       /\ c_db' = Touch(c_db, c)
       /\ \/ /\ srv < 0   \* the server is not ready: the data waits in the socket
             /\ UNCHANGED <<cs, read>>
          \/ /\ srv >= 0
             /\ \E m \in RecvCounts(ep) :
                  /\ cs' = Append(cs, DataMsg(c, srv, RecvBody(ep, m)))
                  /\ read' = [read EXCEPT ![ep] = @ + m]
       /\ UNCHANGED <<open, c_fds, c_for_close>>

\* out, in: POLLOUT and POLLIN in revents.
FromClients(c, out, in) ==
    LET front == IF out /\ ClientUnsent(c) THEN Head(c_storage[c]) ELSE <<>> IN
    /\ c \in c_fds \cap open
    /\ in => Readable(owner[c])
    /\ \E n \in IF front = <<>> THEN {0} ELSE SendResults(c, front) :
         LET q == Flushed(c_storage[c], n)
             drained == out /\ c \in c_for_close /\ q = <<>>
         IN
         /\ Transmit(c, front, n)
         /\ \/ /\ drained
               /\ ClientCloseConnectForce(c)
               /\ UNCHANGED <<cs, read>>
            \/ /\ ~drained /\ in
               /\ ClientRead(c, q)
            \/ /\ ~drained /\ ~in
               /\ c_storage' = Put(c_storage, c, q)
               /\ UNCHANGED <<open, cs, read, c_db, c_fds, c_for_close>>
    /\ UNCHANGED <<alive, owner, sc, backlog, peer, sent, c_stale>>

-----------------------------------------------------------------------------
(* The branches of run() for POLLHUP, POLLERR and POLLNVAL.                *)

\* Variant: the end of the socket is announced, and the socket kept.
ClientHupNotClosed(c) ==
    /\ c \in c_fds \cap open
    /\ peer[owner[c]] = "rst"
    /\ cs' = Append(cs, Msg("disconnect", c, At(c_db, c)))
    /\ UNCHANGED <<alive, open, owner, sc, netvars, cvars>>

ClientHup(c) ==
    /\ c \in c_fds \cap open
    /\ peer[owner[c]] = "rst"
    /\ cs' = Append(cs, Msg("disconnect", c, At(c_db, c)))
    /\ ClientCloseConnectForce(c)
    /\ UNCHANGED <<alive, owner, sc, netvars, c_stale>>

\* The slot was emptied by a message handled earlier in the same iteration, its revents
\* were not: the thread announces the end of descriptor -1, and of db[-1], which is 0.
ClientHupOnEmptySlot ==
    /\ c_stale
    /\ c_stale' = FALSE
    /\ cs' = Append(cs, Msg("disconnect", -1, At(c_db, -1)))
    /\ UNCHANGED <<alive, open, owner, sc, netvars, c_db, c_fds, c_for_close, c_storage>>

\* poll() reports POLLNVAL for a descriptor that is not open.
ClientPollNval == c_fds \ open # {} /\ ClientFatal

ClientServes(c) == \/ \E out, in \in BOOLEAN : (out \/ in) /\ FromClients(c, out, in)
                   \/ ClientHup(c)

ClientStep ==
    /\ alive
    /\ \/ \E k \in Sessions : Accept(k)
       \/ AcceptFails
       \/ ClientHandlesMessage
       \/ \E c \in Fd : ClientServes(c)
       \/ ClientHupOnEmptySlot
       \/ ClientPollNval

=============================================================================
