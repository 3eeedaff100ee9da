------------------------------ MODULE SqlProxy ------------------------------
(***************************************************************************)
(* The relay of sql_proxy: the client thread, the server thread, the two   *)
(* socket pairs between them, and the network.                             *)
(***************************************************************************)
EXTENDS ClientLogic, ServerLogic, Functions

vars == <<sharedvars, cvars, svars>>

Init == SharedInit /\ ClientInit /\ ServerInit

NetStep == \/ \E k \in Sessions : Connect(k)
           \/ \E ep \in Endpoint : PeerStep(ep)

Next == \/ ClientStep /\ UNCHANGED svars
        \/ ServerStep /\ UNCHANGED cvars
        \/ alive /\ NetStep /\ UNCHANGED <<cvars, svars>>

Spec == Init /\ [][Next]_vars

-----------------------------------------------------------------------------
\* The maps, lists and queues of both threads keep the types the headers give them, and no
\* stream is read beyond what was written to it.
TypeOK == SharedTypeOK /\ ClientTypeOK /\ ServerTypeOK

\* What a thread polls has a queue in `storage', and was given out as a socket.
PolledHaveQueues ==
    /\ c_fds \subseteq DOMAIN c_storage
    /\ s_fds \subseteq DOMAIN s_storage
    /\ \A d \in c_fds \cup s_fds : d \in DOMAIN owner /\ owner[d] \in Endpoint

\* Whatever from_server_data and from_client_data pass to send() for a session was written by
\* the other end of the same session: no client sees the answer to another one's query.
Isolation ==
    \A ep \in Endpoint : \A i \in 1 .. Len(got[ep]) : got[ep][i].from = Opposite(ep)

\* The units a far end receives come in the order in which they were written, none twice: the
\* buffers cut by partial sends and put back in front of `storage' keep the stream in order.
InOrder ==
    \A ep \in Endpoint : \A i, j \in 1 .. Len(got[ep]) :
        i < j => got[ep][i].n < got[ep][j].n

\* A socket that is to be closed after its unsent data is still in the poll array and still
\* has unsent data: from_clients and from_server will find it and close it.
FlushListHasData ==
    /\ \A d \in c_for_close : d \in c_fds /\ ClientUnsent(d)
    /\ \A d \in s_for_close : d \in s_fds /\ ServerUnsent(d)

\* A socket whose connect() is in progress has a client on record: whoever tells of its
\* outcome names that client, never the 0 that db[] inserts for a missing key.
WaitersHaveClient == s_con_wait \subseteq DOMAIN s_db \cap s_fds

\* Each thread polls only sockets it opened itself and has not closed: no POLLNVAL.
PolledAreOwn ==
    /\ \A d \in c_fds : d \in open /\ owner[d].side = "client"
    /\ \A d \in s_fds : d \in open /\ owner[d].side = "server"

\* What a thread polls is on record in db, or is flushed to be closed.
PolledAreKnown ==
    /\ c_fds \subseteq DOMAIN c_db \cup c_for_close
    /\ s_fds \subseteq DOMAIN s_db \cup s_for_close

\* A connected server socket whose client socket is gone is being flushed, or the message
\* that will close it is on its way: no session leaves half of itself behind.
OrphanServerIsTold ==
    \A s \in s_fds \ (s_con_wait \cup s_for_close) :
        InProxy(Client(owner[s].id)) \/
          \/ \E i \in 1 .. Len(cs) : cs[i].s = s /\ cs[i].tod \in {"disconnect", "connect_not_found"}
          \/ \E i \in 1 .. Len(sc) : sc[i].s = s /\ sc[i].tod = "new_connect"

\* A client socket that believes in a server socket (or waits for one) that is gone is being
\* flushed, or the message that will close it is on its way.
OrphanClientIsTold ==
    \A c \in c_fds \ c_for_close :
        InProxy(Server(owner[c].id)) \/
          \/ \E i \in 1 .. Len(sc) : sc[i].c = c /\ sc[i].tod \in {"disconnect", "not_connect"}
          \/ \E i \in 1 .. Len(cs) : cs[i].c = c /\ cs[i].tod = "new_connect"

\* The server socket a client is paired with is that of its own session.
PairsAreSessions ==
    \A c \in (DOMAIN c_db \cap c_fds) \ c_for_close :
        c_db[c] # -1 => owner[c_db[c]] = Opposite(owner[c])

\* client_logic.hpp says of db "value: server socket descriptor": a client without a server
\* has -1 there, and no lookup of a key that is gone makes another number its server.
RecordsNameServers ==
    \A c \in DOMAIN c_db : c_db[c] = -1 \/ owner[c_db[c]].side = "server"

\* The units of a queue of unsent buffers.
Units(q) == UNION {Range(q[i]) : i \in DOMAIN q}

\* What has once been put into `storage' stays there until send() takes it; the socket is not
\* closed over it unless its far end has left.  Partial sends, data that arrives behind them
\* and a request of the other thread to close the socket lose none of it.
QueuedIsKept ==
    [][ /\ \A d \in c_fds : peer[owner[d]] \in {"fin", "rst"} \/
             Units(c_storage[d]) \subseteq
                (IF d \in c_fds' THEN Units(c_storage'[d]) ELSE {}) \cup Range(got'[owner[d]])
        /\ \A d \in s_fds : peer[owner[d]] \in {"fin", "rst"} \/
             Units(s_storage[d]) \subseteq
                (IF d \in s_fds' THEN Units(s_storage'[d]) ELSE {}) \cup Range(got'[owner[d]])
      ]_vars

-----------------------------------------------------------------------------
(* The relay implements SessionSpec.  Its descriptors say which ends are   *)
(* inside, the pairs and the accept queue which have not come in yet.      *)

NotYet(ep) ==
    \/ peer[Client(ep.id)] = "none" \/ ep.id \in backlog
    \/ /\ ep.side = "server" /\ peer[ep] = "none"
       /\ \E i \in 1 .. Len(cs) : cs[i].tod = "new_connect" /\ cs[i].who = ep.id

StageOf(ep) ==
    IF NotYet(ep) THEN "absent"
    ELSE IF ~alive \/ ~InProxy(ep) THEN "gone"
    ELSE IF \E d \in s_con_wait : owner[d] = ep THEN "dialing"
    ELSE "inside"

Promise == INSTANCE SessionSpec WITH
    stage <- [ep \in Endpoint |-> StageOf(ep)],
    left <- [ep \in Endpoint |-> peer[ep] \in {"fin", "rst"}],
    taken <- read

\* Every step of the relay is a step a session may take, or none: each end is let in once and
\* let go only for its own session's sake, what one end sends reaches the other end only, in
\* order, and nothing is taken from a client before its server has answered.
KeepsPromise == Promise!Spec

-----------------------------------------------------------------------------
ClientOf(A) == alive /\ A /\ UNCHANGED svars
ServerOf(A) == alive /\ A /\ UNCHANGED cvars

\* What the handlers of a socket owe however long its far end takes nothing: POLLIN finds
\* data that can be passed on, or the end of the stream; POLLHUP; connect() finished or late.
ClientMust(c) ==
    \/ /\ c \in c_fds \cap open
       /\ Available(owner[c]) = 0 \/ At(c_db, c) >= 0
       /\ \E out \in BOOLEAN : FromClients(c, out, TRUE)
    \/ ClientHup(c)

ServerMust(s) == \/ \E in \in BOOLEAN : ConnectFinished(s, in)
                 \/ \E out \in BOOLEAN : FromServer(s, out, TRUE)
                 \/ ConnectTimeout(s)
                 \/ ServerHup(s)

Fairness ==
    /\ \A k \in Sessions : WF_vars(ClientOf(Accept(k)))
    /\ WF_vars(ClientOf(ClientHandlesMessage))
    /\ WF_vars(ServerOf(ServerHandlesMessage))
    /\ \A d \in Fd : WF_vars(ClientOf(ClientMust(d))) /\ WF_vars(ServerOf(ServerMust(d)))

FairSpec == Spec /\ Fairness

\* What is left of the session are sockets that wait to be closed for a far end that neither
\* leaves nor takes what is still unsent.
OnlyFlushes(k) ==
    /\ k \notin backlog
    /\ \A d \in open : owner[d] \in {Client(k), Server(k)} =>
          /\ peer[owner[d]] = "open"
          /\ (d \in c_for_close /\ ClientUnsent(d)) \/ (d \in s_for_close /\ ServerUnsent(d))

\* Whichever far end leaves first, its own socket is closed for good, and so is the other one
\* of the session, but for a socket that still has data for a far end that stays and does not
\* read it: nothing bounds how long db_for_close keeps that one.
SessionsEnd ==
    \A k \in Sessions :
        (peer[Client(k)] \in {"fin", "rst"} \/ peer[Server(k)] \in {"fin", "rst"})
            ~> [](OnlyFlushes(k) \/ ~alive)

\* The handler of a socket with unsent data gets on with it, under POLLOUT: send() takes a
\* piece, sooner or later.
FarEndsRead == \A d \in Fd :
    /\ WF_vars(ClientOf(\E in \in BOOLEAN : FromClients(d, TRUE, in)))
    /\ WF_vars(ServerOf(\E in \in BOOLEAN : FromServer(d, TRUE, in)))

\* When far ends go on to read, that socket is closed too.
FlushesEnd ==
    FarEndsRead => \A k \in Sessions :
        (peer[Client(k)] \in {"fin", "rst"} \/ peer[Server(k)] \in {"fin", "rst"})
            ~> [](~alive \/ (k \notin backlog /\ ~InProxy(Client(k)) /\ ~InProxy(Server(k))))

\* A client that was accepted waits for its server socket: eventually it is paired with one,
\* or closed.
PairingResolves ==
    \A k \in Sessions :
        (\E c \in DOMAIN c_db : owner[c] = Client(k) /\ c_db[c] = -1) ~>
            \/ ~alive \/ ~InProxy(Client(k))
            \/ \E c \in DOMAIN c_db : owner[c] = Client(k) /\ c_db[c] # -1

=============================================================================
