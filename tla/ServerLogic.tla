----------------------------- MODULE ServerLogic -----------------------------
(***************************************************************************)
(* The server thread, server_logic.cpp: it opens a connection to the       *)
(* database server for every session the client thread announces, and      *)
(* relays data both ways.                                                  *)
(*                                                                         *)
(* One action is one handler of the poll loop, run to its end; see         *)
(* ClientLogic for what is left out.  from_client_data lacks the same      *)
(* closing brace (line 718) and is read with it in place.                  *)
(***************************************************************************)
EXTENDS ProxyData

VARIABLES
    s_db,         \* key: server socket descriptor, value: client socket descriptor
    s_con_wait,   \* db_con_wait: sockets whose connect() is in progress
    s_fds,        \* the server sockets in the poll array
    s_for_close,  \* db_for_close: sockets to close once their queue is sent
    s_storage,    \* the unsent buffers of every server socket
    s_stale       \* a slot emptied in this iteration still shows POLLHUP

svars == <<s_db, s_con_wait, s_fds, s_for_close, s_storage, s_stale>>

ServerTypeOK ==
    /\ IsMap(s_db, Fd, FdOrNone)
    /\ s_con_wait \subseteq Fd
    /\ s_fds \subseteq Fd
    /\ s_for_close \subseteq Fd
    /\ IsMap(s_storage, Fd, Queue)
    /\ s_stale \in BOOLEAN

ServerInit ==
    /\ s_db = [d \in {} |-> -1]
    /\ s_con_wait = {}
    /\ s_fds = {}
    /\ s_for_close = {}
    /\ s_storage = [d \in {} |-> <<>>]
    /\ s_stale = FALSE

ServerUnsent(d) == d \in DOMAIN s_storage /\ s_storage[d] # <<>>

ServerFatal ==
    /\ alive' = FALSE
    /\ UNCHANGED <<open, owner, cs, sc, netvars, svars>>

\* Variant: the socket stays on the list of connects in progress.
ServerCloseConnectStillWaiting(d) ==
    /\ s_fds' = s_fds \ {d}
    /\ open' = open \ {d}
    /\ s_db' = Erase(s_db, d)
    /\ s_for_close' = s_for_close \ {d}
    /\ s_storage' = Erase(s_storage, d)
    /\ UNCHANGED s_con_wait

ServerCloseConnectForce(d) ==
    /\ s_fds' = s_fds \ {d}
    /\ open' = open \ {d}
    /\ s_db' = Erase(s_db, d)
    /\ s_con_wait' = s_con_wait \ {d}
    /\ s_for_close' = s_for_close \ {d}
    /\ s_storage' = Erase(s_storage, d)

ServerCloseConnect(d) ==
    IF ServerUnsent(d)
    THEN /\ s_for_close' = s_for_close \cup {d}
         /\ s_db' = Erase(s_db, d)
         /\ s_con_wait' = s_con_wait \ {d}
         /\ s_stale' = FALSE
         /\ UNCHANGED <<open, s_fds, s_storage>>
    ELSE /\ ServerCloseConnectForce(d)
         /\ s_stale' = (d \in s_fds /\ d \in open /\ peer[owner[d]] = "rst")

-----------------------------------------------------------------------------
(* from_client: one message of the client thread.                          *)

ServerReceives(tod) == /\ cs # <<>>
                       /\ Head(cs).tod = tod
                       /\ cs' = Tail(cs)

\* new_connect(s, c), when connect() succeeded at once or is in progress.
Connecting(s, d, far) ==
    /\ GiveOut(s, Server(d.who))
    /\ peer' = [peer EXCEPT ![Server(d.who)] = far]
    /\ s_db' = Put(s_db, s, d.c)
    /\ s_storage' = Put(s_storage, s, <<>>)
    /\ s_fds' = s_fds \cup {s}

FromClientNewConnect ==
    LET d == Head(cs) IN
    /\ ServerReceives("new_connect")
    /\ \/ \E s \in Fd :   \* EINPROGRESS
            /\ Connecting(s, d, "pending")
            /\ s_con_wait' = s_con_wait \cup {s}
            /\ UNCHANGED sc
       \/ \E s \in Fd :
            /\ Connecting(s, d, "open")
            /\ sc' = Append(sc, Msg("new_connect", d.c, s))
            /\ UNCHANGED s_con_wait
       \/ /\ sc' = Append(sc, Msg("not_connect", d.c, -1))
          /\ UNCHANGED <<open, owner, peer, s_db, s_con_wait, s_fds, s_storage>>
    /\ s_stale' = FALSE
    /\ UNCHANGED <<alive, backlog, sent, read, got, s_for_close>>

\* socket() fails or a socket option cannot be set: the thread ends, and the proxy.
SocketFails ==
    /\ cs # <<>>
    /\ Head(cs).tod = "new_connect"
    /\ ServerFatal

\* `writable': POLLOUT is in revents of the socket's slot; without it the data is dropped.
FromClientData ==
    LET d == Head(cs)
        q == s_storage[d.s]
    IN
    /\ ServerReceives("data")
    /\ \E writable \in BOOLEAN :
         \/ /\ d.s \notin s_fds \/ ~writable
            /\ UNCHANGED <<got, s_storage>>
         \/ /\ d.s \in s_fds /\ writable
            /\ \E n \in SendResults(d.s, ToSend(q, d.body)) :
                 /\ Transmit(d.s, ToSend(q, d.body), n)
                 /\ s_storage' = Put(s_storage, d.s, Relayed(q, d.body, n))
    /\ s_stale' = FALSE
    /\ UNCHANGED <<alive, open, owner, sc, backlog, peer, sent, read,
                   s_db, s_con_wait, s_fds, s_for_close>>

FromClientConnectNotFound ==
    /\ ServerReceives("connect_not_found")
    /\ ServerCloseConnect(Head(cs).s)   \* the client thread always names a server: s_sd >= 0
    /\ UNCHANGED <<alive, owner, sc, netvars>>

FromClientDisconnect ==
    /\ ServerReceives("disconnect")
    /\ ServerCloseConnect(Head(cs).s)
    /\ UNCHANGED <<alive, owner, sc, netvars>>

ServerHandlesMessage == \/ FromClientNewConnect
                        \/ SocketFails
                        \/ FromClientData
                        \/ FromClientConnectNotFound
                        \/ FromClientDisconnect

-----------------------------------------------------------------------------
(* from_server: a server socket is readable or writable.                   *)

\* Under POLLIN.  db, q and log are the map, the queue and the pipe to the client thread
\* that the first half of the handler left.
ServerRead(s, db, q, log, forClose) ==
    LET ep == owner[s] IN
    \/ /\ Available(ep) = 0 \/ peer[ep] = "rst"
       /\ sc' = Append(log, Msg("disconnect", At(db, s), s))
       /\ ServerCloseConnectForce(s)
       /\ UNCHANGED read
    \/ /\ \E m \in RecvCounts(ep) :
            /\ read' = [read EXCEPT ![ep] = @ + m]
            /\ IF forClose
               THEN sc' = log /\ s_db' = db
               ELSE /\ sc' = Append(log, DataMsg(At(db, s), s, RecvBody(ep, m)))
                    /\ s_db' = Touch(db, s)
       /\ s_con_wait' = s_con_wait \ {s}
       /\ s_storage' = Put(s_storage, s, q)
       /\ UNCHANGED <<open, s_fds, s_for_close>>

\* The outcome of a connect() in progress: SO_ERROR is set, or the client thread is told
\* that the connection stands, and the handler goes on to read.
ConnectFinished(s, in) ==
    /\ s \in s_con_wait \cap s_fds \cap open
    /\ peer[owner[s]] # "pending"
    /\ in => Readable(owner[s])
    /\ \/ /\ peer[owner[s]] = "rst"
          /\ sc' = Append(sc, Msg("not_connect", At(s_db, s), -1))
          /\ ServerCloseConnectForce(s)
          /\ UNCHANGED read
       \/ LET log == Append(sc, Msg("new_connect", At(s_db, s), s)) IN
          /\ peer[owner[s]] # "rst"
          /\ \/ /\ in
                /\ ServerRead(s, Touch(s_db, s), s_storage[s], log, FALSE)
             \/ /\ ~in
                /\ sc' = log
                /\ s_db' = Touch(s_db, s)
                /\ s_con_wait' = s_con_wait \ {s}
                /\ UNCHANGED <<open, read, s_fds, s_for_close, s_storage>>
    /\ UNCHANGED <<alive, owner, cs, backlog, peer, sent, got, s_stale>>

\* out, in: POLLOUT and POLLIN in revents.  A socket that has connected is writable.
FromServer(s, out, in) ==
    LET front == IF out /\ ServerUnsent(s) THEN Head(s_storage[s]) ELSE <<>>
        forClose == out /\ s \in s_for_close
    IN
    /\ s \in (s_fds \cap open) \ s_con_wait
    /\ in => Readable(owner[s])
    /\ \E n \in IF front = <<>> THEN {0} ELSE SendResults(s, front) :
         LET q == Flushed(s_storage[s], n)
             drained == forClose /\ q = <<>>
         IN
         /\ Transmit(s, front, n)
         /\ \/ /\ drained
               /\ ServerCloseConnectForce(s)
               /\ UNCHANGED <<sc, read>>
            \/ /\ ~drained /\ in
               /\ ServerRead(s, s_db, q, sc, forClose)
            \/ /\ ~drained /\ ~in
               /\ s_storage' = Put(s_storage, s, q)
               /\ UNCHANGED <<open, sc, read, s_db, s_con_wait, s_fds, s_for_close>>
    /\ UNCHANGED <<alive, owner, cs, backlog, peer, sent, s_stale>>

-----------------------------------------------------------------------------
(* erase_old_wait_connect, and the branches of run() for POLLHUP, POLLERR  *)
(* and POLLNVAL.                                                           *)

\* Variant: the client is not told of the timeout.
ConnectTimeoutUntold(s) ==
    /\ s \in s_con_wait
    /\ open' = open \ {s}
    /\ s_db' = Erase(s_db, s)
    /\ s_fds' = s_fds \ {s}
    /\ s_con_wait' = s_con_wait \ {s}
    /\ UNCHANGED <<alive, owner, cs, sc, netvars, s_for_close, s_storage, s_stale>>

\* Variant: the socket is closed and stays in the poll array.
ConnectTimeoutStillPolled(s) ==
    /\ s \in s_con_wait
    /\ sc' = Append(sc, Msg("not_connect", At(s_db, s), -1))
    /\ open' = open \ {s}
    /\ s_db' = Erase(s_db, s)
    /\ s_con_wait' = s_con_wait \ {s}
    /\ UNCHANGED <<alive, owner, cs, netvars, s_fds, s_for_close, s_storage, s_stale>>

\* connect() has been in progress for longer than connect_timeout.
ConnectTimeout(s) ==
    /\ s \in s_con_wait
    /\ sc' = Append(sc, Msg("not_connect", At(s_db, s), -1))
    /\ open' = open \ {s}
    /\ s_db' = Erase(s_db, s)
    /\ s_fds' = s_fds \ {s}
    /\ s_con_wait' = s_con_wait \ {s}
    /\ UNCHANGED <<alive, owner, cs, netvars, s_for_close, s_storage, s_stale>>

ServerHup(s) ==
    /\ s \in s_fds \cap open
    /\ peer[owner[s]] = "rst"
    /\ sc' = Append(sc, Msg("disconnect", At(s_db, s), s))
    /\ ServerCloseConnectForce(s)
    /\ UNCHANGED <<alive, owner, cs, netvars, s_stale>>

\* As ClientHupOnEmptySlot: here it is client descriptor db[-1], 0, that is named.
ServerHupOnEmptySlot ==
    /\ s_stale
    /\ s_stale' = FALSE
    /\ sc' = Append(sc, Msg("disconnect", At(s_db, -1), -1))
    /\ UNCHANGED <<alive, open, owner, cs, netvars,
                   s_db, s_con_wait, s_fds, s_for_close, s_storage>>

ServerPollNval == s_fds \ open # {} /\ ServerFatal

ServerServes(s) == \/ \E in \in BOOLEAN : ConnectFinished(s, in)
                   \/ \E out, in \in BOOLEAN : (out \/ in) /\ FromServer(s, out, in)
                   \/ ConnectTimeout(s)
                   \/ ServerHup(s)

ServerStep ==
    /\ alive
    /\ \/ ServerHandlesMessage
       \/ \E s \in Fd : ServerServes(s)
       \/ ServerHupOnEmptySlot
       \/ ServerPollNval

=============================================================================
