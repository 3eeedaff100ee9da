------------------------------- MODULE PollLoop -------------------------------
(***************************************************************************)
(* The poll array `fds' of one thread of the proxy, slot by slot: run(),   *)
(* compress_array, and what the handlers do to the array.  The client      *)
(* thread and the server thread have the same loop; they differ in how     *)
(* many input descriptors stand in front and in which of them a connection *)
(* arrives.  A behaviour is one thread's: `me' says whose.                 *)
(*                                                                         *)
(* The output pipes are in the array only while there are connections:     *)
(* with none, polling a pipe that is always writable would never block.    *)
(* run() tells the two cases by the length of the array alone.             *)
(***************************************************************************)
EXTENDS Integers, Sequences, FiniteSets, SequencesExt

CONSTANTS
    Conns,      \* the connection sockets
    MaxClients, \* bound: connections the client thread has at a time
    Nobody      \* -1 in a slot

ASSUME PollAssumption ==
    /\ IsFiniteSet(Conns) /\ MaxClients \in Nat
    /\ Nobody \notin Conns
    /\ (Conns \cup {Nobody}) \cap {"s_in", "w_in", "listen", "c_in", "out", "w_out"} = {}

VARIABLES
    me,       \* the thread: "client" or "server"
    fds,      \* fds[0 .. nfds - 1].fd
    revents,  \* of every slot, those past the end of fds included
    turn,     \* the slot run() is at; 0: it is at poll()
    size,     \* current_size
    writable, \* the output pipes whose write_enable is set
    holes,    \* flag_compress_array
    db,       \* the connections that are open
    shut      \* the output pipes that were closed

vars == <<me, fds, revents, turn, size, writable, holes, db, shut>>

\* The input descriptors, in the order of prepare().
Inputs == IF me = "client" THEN <<"s_in", "w_in", "listen">> ELSE <<"c_in", "w_in">>
Base == Len(Inputs)

\* The input on which connections arrive, and the one on which the other thread asks for a
\* connection to be closed.
Arrival == IF me = "client" THEN "listen" ELSE "c_in"
Control == Inputs[1]

\* The two output pipes, in the order of connects_present.
Pipes == <<"out", "w_out">>

\* No iteration takes in a connection twice: the slots emptied in it and the new ones.
Slots == 1 .. Base + 2 + 2 * Cardinality(Conns)
Fds == ToSet(Inputs) \cup ToSet(Pipes) \cup Conns \cup {Nobody}

\* What may arrive at one event: accept() is called until no client waits, a message of the
\* client thread asks for one connection.
Arrivals == IF me = "client"
            THEN {new \in SetToAllKPermutations(Conns \ db) : Len(new) + Cardinality(db) <= MaxClients}
            ELSE {<<c>> : c \in Conns \ db}

\* The array never outgrows the slots of its connections, and write_enable stands for pipes only.
TypeOK ==
    /\ me \in {"client", "server"}
    /\ fds \in Seq(Fds) /\ Len(fds) <= Cardinality(Slots)
    /\ revents \in [Slots -> {"none", "ready", "hup"}]
    /\ turn \in 0 .. Cardinality(Slots) + 1
    /\ size \in 0 .. Cardinality(Slots)
    /\ writable \subseteq ToSet(Pipes)
    /\ holes \in BOOLEAN
    /\ db \subseteq Conns
    /\ shut \subseteq ToSet(Pipes)

\* prepare()
Init ==
    /\ me \in {"client", "server"}
    /\ fds = Inputs
    /\ revents = [i \in Slots |-> "none"]
    /\ turn = 0
    /\ size = 0
    /\ writable = {}
    /\ holes = FALSE
    /\ db = {}
    /\ shut = {}

-----------------------------------------------------------------------------
\* What poll() may report for a slot.
Reports(fd) == IF fd \in Conns THEN {"none", "ready", "hup"} ELSE {"none", "ready"}

\* Variant: min_descriptors_count_rw counts one descriptor too many.
ToggledLate(f) ==
    IF Len(f) = Base THEN f \o Pipes
    ELSE IF Len(f) = Base + 3 THEN SubSeq(f, 1, Base + 1)
    ELSE f

\* Variant: the same, and connects_absence cuts the pipes out where they stand.
ToggledInPlace(f) ==
    IF Len(f) = Base THEN f \o Pipes
    ELSE IF Len(f) = Base + 3 THEN RemoveAt(RemoveAt(f, Base + 1), Base + 1)
    ELSE f

\* connects_present and connects_absence, chosen by nfds.
Toggled(f) ==
    IF Len(f) = Base THEN f \o Pipes
    ELSE IF Len(f) = Base + 2 THEN SubSeq(f, 1, Base)
    ELSE f

\* poll() returned: the write flags were cleared, the pipes go in or out.  Once an output
\* pipe is closed nothing more can be sent to the other thread: the model ends there.
Poll ==
    /\ turn = 0 /\ shut = {}
    /\ \E r \in [1 .. Len(fds) -> {"none", "ready", "hup"}] :
         /\ \A i \in 1 .. Len(fds) : r[i] \in Reports(fds[i])
         /\ \E i \in 1 .. Len(fds) : r[i] # "none"
         /\ revents' = [i \in Slots |-> IF i <= Len(fds) THEN r[i] ELSE revents[i]]
    /\ fds' = Toggled(fds)
    /\ size' = Len(Toggled(fds))
    /\ turn' = 1
    /\ writable' = {}
    /\ UNCHANGED <<me, holes, db, shut>>

Emptied(f, d) == [i \in DOMAIN f |-> IF f[i] = d THEN Nobody ELSE f[i]]

\* What is left keeps its order and moves to the front.
Rank(i, kept) == Cardinality({j \in kept : j <= i})
Compressed(f) ==
    LET kept == {i \in DOMAIN f : f[i] # Nobody} IN
    [k \in 1 .. Cardinality(kept) |-> f[CHOOSE i \in kept : Rank(i, kept) = k]]

\* erase_old_wait_connect, before poll(): it compresses the array itself.
Expire ==
    /\ me = "server" /\ turn = 0
    /\ \E late \in SUBSET db \ {{}} :
         /\ fds' = Compressed([i \in DOMAIN fds |-> IF fds[i] \in late THEN Nobody ELSE fds[i]])
         /\ db' = db \ late
    /\ UNCHANGED <<me, revents, turn, size, writable, holes, shut>>

\* close_connect_force(d)
CloseForce(d) ==
    /\ fds' = Emptied(fds, d)
    /\ holes' = (holes \/ \E i \in DOMAIN fds : fds[i] = d)
    /\ db' = db \ {d}
    /\ shut' = shut \cup ({d} \cap ToSet(Pipes))

At(i) == turn = i /\ i <= size
Advance == turn' = turn + 1 /\ UNCHANGED <<me, revents, size>>

Idle(i) ==
    /\ At(i)
    /\ revents[i] = "none" \/ (revents[i] = "ready" /\ fds[i] \in Conns /\ Cardinality(writable) < 2)
    /\ Advance
    /\ UNCHANGED <<fds, writable, holes, db, shut>>

\* POLLHUP or POLLERR on anything but an input is taken for the end of a connection.
HangsUp(i) ==
    /\ At(i)
    /\ revents[i] = "hup"
    /\ fds[i] \notin ToSet(Inputs)
    /\ CloseForce(fds[i])
    /\ Advance
    /\ UNCHANGED writable

\* The slot was emptied earlier in this iteration.
FindsHole(i) ==
    /\ At(i)
    /\ revents[i] = "ready" /\ fds[i] = Nobody
    /\ holes' = TRUE
    /\ Advance
    /\ UNCHANGED <<fds, writable, db, shut>>

\* new_connect puts the new sockets past the end of the array.
Arrives(i) ==
    /\ At(i)
    /\ revents[i] = "ready" /\ fds[i] = Arrival
    /\ \E new \in Arrivals :
         /\ fds' = fds \o new
         /\ db' = db \cup ToSet(new)
    /\ Advance
    /\ UNCHANGED <<writable, holes, shut>>

\* A message asks for a connection to be closed: close_connect, with nothing unsent.
IsClosed(i) ==
    /\ At(i)
    /\ revents[i] = "ready" /\ fds[i] = Control
    /\ \E c \in db : CloseForce(c)
    /\ Advance
    /\ UNCHANGED writable

\* Any other message, and from_worker.
OtherInput(i) ==
    /\ At(i)
    /\ revents[i] = "ready" /\ fds[i] \in ToSet(Inputs) \ (IF me = "client" THEN {Arrival} ELSE {})
    /\ Advance
    /\ UNCHANGED <<fds, writable, holes, db, shut>>

\* Variant: whatever is ready is taken for an output pipe.
PipeWritableAny(i) ==
    /\ At(i)
    /\ revents[i] = "ready" /\ fds[i] # Nobody
    /\ writable' = writable \cup {fds[i]}
    /\ Advance
    /\ UNCHANGED <<fds, holes, db, shut>>

\* can_write_to_pipe_data
PipeWritable(i) ==
    /\ At(i)
    /\ revents[i] = "ready" /\ fds[i] \in ToSet(Pipes)
    /\ writable' = writable \cup {fds[i]}
    /\ Advance
    /\ UNCHANGED <<fds, holes, db, shut>>

\* from_clients or from_server: the far end is read, or has left and the socket is closed.
Serves(i) ==
    /\ At(i)
    /\ revents[i] = "ready" /\ fds[i] \in Conns /\ Cardinality(writable) = 2
    /\ CloseForce(fds[i]) \/ UNCHANGED <<fds, holes, db, shut>>
    /\ Advance
    /\ UNCHANGED writable

\* Variant: the flag is cleared, the array is left as it is.
EndOfLoopNotCompressed ==
    /\ turn > size
    /\ turn' = 0
    /\ holes' = FALSE
    /\ UNCHANGED <<me, fds, revents, size, writable, db, shut>>

EndOfLoop ==
    /\ turn > size
    /\ turn' = 0
    /\ fds' = IF holes THEN Compressed(fds) ELSE fds
    /\ holes' = FALSE
    /\ UNCHANGED <<me, revents, size, writable, db, shut>>

Next ==
    \/ Poll
    \/ Expire
    \/ \E i \in Slots : \/ Idle(i) \/ HangsUp(i) \/ FindsHole(i) \/ Arrives(i) \/ IsClosed(i)
                        \/ OtherInput(i) \/ PipeWritable(i) \/ Serves(i)
    \/ EndOfLoop

Spec == Init /\ [][Next]_vars

-----------------------------------------------------------------------------
PolledConns == ToSet(fds) \cap Conns

PipesPolled == Len(fds) >= Base + 2 /\ SubSeq(fds, Base + 1, Base + 2) = Pipes

\* Connections are served only while the output pipes are polled, in front of them: what
\* connects_present and connects_absence are named for.
GateStands == PolledConns # {} => PipesPolled

\* What compress_array, connects_absence and connects_present leave: the inputs in front,
\* the pipes behind them or nowhere, every connection once, and no hole for poll() to see.
ArrayInOrder ==
    shut = {} =>
      /\ SubSeq(fds, 1, Base) = Inputs
      /\ \A i \in DOMAIN fds, k \in 1 .. 2 : fds[i] = Pipes[k] => i = Base + k
      /\ \A i, j \in DOMAIN fds : fds[i] = fds[j] /\ fds[i] \in Conns => i = j
      /\ turn = 0 => Nobody \notin ToSet(fds)

\* The gate falls in two ways only: a connection arrives while the pipes are out of the array
\* (the iteration that took them out can bring one), or an output pipe is closed for a report
\* poll() made of an earlier owner of its slot (connects_present sets fd and events, not
\* revents).  Neither the toggling, nor compress_array, nor a timeout brings it down.
GateFallsByLateArrival ==
    [][GateStands /\ ~GateStands' =>
         \/ ~PipesPolled /\ db \subseteq db' /\ db # db'
         \/ shut # shut']_vars

\* A connection that is open when the gate stands leaves the array only by being closed.
OpenConnsStayPolled ==
    [][GateStands => PolledConns \cap db' \subseteq ToSet(fds')]_vars

=============================================================================
