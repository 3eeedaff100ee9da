------------------------------ MODULE SessionInv ------------------------------
(***************************************************************************)
(* The inductive invariant behind Isolation, PairsAreSessions and          *)
(* PolledAreOwn, when descriptor numbers are not recycled: every number a  *)
(* thread keeps, queues data under or sends to the other thread still      *)
(* means the session it meant when it was written down.                    *)
(***************************************************************************)
EXTENDS SqlProxy

IsClientFd(d) == d \in DOMAIN owner /\ owner[d].side = "client"
IsServerFd(d) == d \in DOMAIN owner /\ owner[d].side = "server"

\* What a field c or s may hold: a socket of that side, or descriptor 0, or -1.
RefClient(d) == d = -1 \/ (d \in DOMAIN owner /\ owner[d].side # "server")
RefServer(d) == d = -1 \/ (d \in DOMAIN owner /\ owner[d].side # "client")

\* c and s are not sockets of two different sessions.
Paired(c, s) == IsClientFd(c) /\ IsServerFd(s) => owner[c].id = owner[s].id

Reference(c, s) == RefClient(c) /\ RefServer(s) /\ Paired(c, s)

UnitsOf(ep) == [from : {ep}, n : 1 .. MaxUnits]

GoodToServer ==
    {m \in ClientMessage :
        /\ Reference(m.c, m.s)
        /\ m.tod = "new_connect" => m.c \in DOMAIN owner /\ owner[m.c] = Client(m.who)
        /\ m.tod = "data" => IsClientFd(m.c) /\ m.body \in Seq(UnitsOf(owner[m.c]))}

GoodToClient ==
    {m \in Message :
        /\ Reference(m.c, m.s)
        /\ m.tod \in {"new_connect", "data"} => IsServerFd(m.s)
        /\ m.tod = "data" => m.body \in Seq(UnitsOf(owner[m.s]))}

ClientDbOK(db) == \A c \in DOMAIN db : IsClientFd(c) /\ Reference(c, db[c])
ServerDbOK(db) == \A s \in DOMAIN db : IsServerFd(s) /\ Reference(db[s], s)

QueueOf(d) == Seq(Seq(UnitsOf(Opposite(owner[d]))))
ClientStorageOK(st) == \A c \in DOMAIN st : IsClientFd(c) /\ st[c] \in QueueOf(c)
ServerStorageOK(st) == \A s \in DOMAIN st : IsServerFd(s) /\ st[s] \in QueueOf(s)

GotOK(g) == \A ep \in Endpoint : g[ep] \in Seq(UnitsOf(Opposite(ep)))

\* A client socket that is not being flushed away is paired with a server socket or with none.
PairsAreServers(db, fds, flushed) ==
    \A c \in (DOMAIN db \cap fds) \ flushed : db[c] # -1 => IsServerFd(db[c])

SessionInv ==
    /\ 0 \in DOMAIN owner /\ owner[0] = Stdio
    /\ cs \in Seq(GoodToServer)
    /\ sc \in Seq(GoodToClient)
    /\ ClientDbOK(c_db)
    /\ ServerDbOK(s_db)
    /\ ClientStorageOK(c_storage)
    /\ ServerStorageOK(s_storage)
    /\ GotOK(got)
    /\ c_fds \cup s_fds \subseteq open
    /\ PairsAreServers(c_db, c_fds, c_for_close)

=============================================================================
