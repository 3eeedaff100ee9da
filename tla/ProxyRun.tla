------------------------------ MODULE ProxyRun ------------------------------
(***************************************************************************)
(* The life of proxy_impl::run(): the socket pairs it creates, the three   *)
(* threads it starts on them and joins, and how one thread that ends takes *)
(* the others with it.                                                     *)
(*                                                                         *)
(* The client thread "c" and the server thread "s" write every message     *)
(* twice, with blocking writes: to the other one, then to the worker "w"   *)
(* (send_data).  A message is only counted here: what it says is the       *)
(* matter of SqlProxy.  A connection is a ready descriptor (or one that    *)
(* accept() finds waiting) whose handler writes as many messages as that   *)
(* thread's handlers may.  The pairs the worker could answer on are never  *)
(* written to and are left out.  pc[t] is where thread t stands:           *)
(*   "absent"   not started          "input"    before reading its pair    *)
(*   "prepare"  in prepare()         "serve"    before a connection        *)
(*   "loop"     testing end_proxy    "peer", "worker"  in write()          *)
(*   "poll"     in poll()            "closing"  in done()                  *)
(*   "ended"    returned                                                   *)
(* The process ends at once, "gone", by SIGPIPE (whose handler jumps out   *)
(* of another thread's stack: what is undefined there is read as the end)  *)
(* and by joining a thread that could not be created.                      *)
(***************************************************************************)
EXTENDS Naturals, Sequences, FiniteSets

CONSTANTS
    Cap,        \* messages a socket pair holds before write() blocks
    Conns,      \* bound on the connections ready in one iteration, and on
                \* those whose connect() an iteration finds timed out
    Failures    \* BOOLEAN: system calls fail

ASSUME RunAssumption ==
    /\ Cap \in Nat \ {0} /\ Conns \in Nat
    /\ Failures \in BOOLEAN

VARIABLES
    pc,         \* where each thread stands
    main,       \* what run() has still to do, its first element next
    chan,       \* messages in each pair, named by writer and reader
    shutEnds,   \* ends of the pairs that are closed: <<writer, reader, owner>>
    toClose,    \* ends done() has still to close, in the order of fds[]
    listed,     \* the outgoing pairs are in fds[] (PollLoop says when)
    gate,       \* s_write_enable /\ w_write_enable of this iteration
    left,       \* ready connections the iteration has still to serve
    due,        \* messages the handler under way has still to write
    back,       \* where the thread goes on when it has written them
    wrote,      \* messages the iteration has written with the gate open (history)
    met,        \* the server thread has read a message (history): the first
                \* one says NEW_CONNECT, before it there are no connections
    endProxy,   \* proxy_impl::end_proxy
    process     \* "up", "returned" (run() returned) or "gone"

vars == <<pc, main, chan, shutEnds, toClose, listed, gate, left, due, back, wrote,
          met, endProxy, process>>

\* What an iteration goes by, and what its handlers write.
writing == <<due, back, wrote>>
turn    == <<listed, gate, left, met, writing>>

Logics  == {"c", "s"}
Threads == Logics \cup {"w"}
Peer(t) == IF t = "c" THEN "s" ELSE "c"
Pairs   == {<<"c", "s">>, <<"s", "c">>, <<"c", "w">>, <<"s", "w">>}
Ends    == {<<p[1], p[2], o>> : p \in Pairs, o \in Threads}
Reader(p) == <<p[1], p[2], p[2]>>
Writer(p) == <<p[1], p[2], p[1]>>

\* run() starts the threads in this order, joins them in it, and closes the
\* pairs.
Chores == << <<"start", "s">>, <<"start", "c">>, <<"start", "w">>,
             <<"join", "s">>, <<"join", "c">>, <<"join", "w">>, <<"close", "w">> >>

Init ==
    /\ pc = [t \in Threads |-> "absent"]
    /\ main = Chores
    /\ chan = [p \in Pairs |-> 0]
    /\ shutEnds = {}
    /\ toClose = [t \in Logics |-> <<>>]
    /\ listed = [t \in Logics |-> FALSE]
    /\ gate = [t \in Logics |-> FALSE]
    /\ left = [t \in Logics |-> 0]
    /\ due = [t \in Logics |-> 0]
    /\ back = [t \in Logics |-> "serve"]
    /\ wrote = [t \in Logics |-> 0]
    /\ met = FALSE
    /\ endProxy = FALSE
    /\ process = "up"

-----------------------------------------------------------------------------
(* The main thread, in run() *)

\* pthread_create(); when it fails the thread's identifier stays 0.
Start ==
    /\ main # <<>> /\ Head(main)[1] = "start"
    /\ \E made \in IF Failures THEN BOOLEAN ELSE {TRUE} :
        LET t == Head(main)[2] IN
        /\ pc' = IF made THEN [pc EXCEPT ![t] = IF t = "w" THEN "loop" ELSE "prepare"]
                         ELSE pc
        /\ main' = Tail(main)
    /\ UNCHANGED <<chan, shutEnds, toClose, turn, endProxy, process>>

\* A version that does not wait for the client thread.
JoinSome ==
    /\ main # <<>> /\ Head(main)[1] = "join"
    /\ Head(main)[2] = "c" \/ pc[Head(main)[2]] \in {"absent", "ended"}
    /\ process' = IF pc[Head(main)[2]] = "absent" THEN "gone" ELSE process
    /\ main' = Tail(main)
    /\ UNCHANGED <<pc, chan, shutEnds, toClose, turn, endProxy>>

\* pthread_join() waits; of identifier 0 it is no thread at all.
Join ==
    /\ main # <<>> /\ Head(main)[1] = "join"
    /\ pc[Head(main)[2]] \in {"absent", "ended"}
    /\ process' = IF pc[Head(main)[2]] = "absent" THEN "gone" ELSE process
    /\ main' = Tail(main)
    /\ UNCHANGED <<pc, chan, shutEnds, toClose, turn, endProxy>>

ClosePairs ==
    /\ main # <<>> /\ Head(main)[1] = "close"
    /\ shutEnds' = {Reader(p) : p \in Pairs} \cup {Writer(p) : p \in Pairs}
    /\ main' = Tail(main)
    /\ process' = "returned"
    /\ UNCHANGED <<pc, chan, toClose, turn, endProxy>>

Main == process = "up" /\ (Start \/ Join \/ ClosePairs)

-----------------------------------------------------------------------------
(* The client and the server thread *)

\* prepare(): only the client's asks the system for anything.  Until it
\* succeeds fds[] is empty.
Prepare(t) ==
    /\ pc[t] = "prepare"
    /\ \/ /\ pc' = [pc EXCEPT ![t] = "loop"]
       \/ /\ Failures /\ t = "c"
          /\ pc' = [pc EXCEPT ![t] = "closing"]
    /\ UNCHANGED <<main, chan, shutEnds, toClose, turn, endProxy, process>>

\* The descriptors of fds[] in the order done() closes them.
InArray(t) ==
    <<Reader(<<Peer(t), t>>)>> \o
        (IF listed[t] THEN <<Writer(<<t, Peer(t)>>), Writer(<<t, "w">>)>> ELSE <<>>)

\* A handler of t is about to write n messages, and then goes on at next.
Writes(t, n, next) ==
    /\ pc' = [pc EXCEPT ![t] = "peer"]
    /\ due' = [due EXCEPT ![t] = n]
    /\ back' = [back EXCEPT ![t] = next]

\* erase_old_wait_connect(): a NOT_CONNECT for each, whatever the pairs hold.
Expires(t) == t = "s" /\ met /\ \E n \in 1..Conns : Writes(t, n, "poll")

LoopTop(t) ==
    /\ pc[t] = "loop"
    /\ \/ /\ endProxy
          /\ pc' = [pc EXCEPT ![t] = "closing"]
          /\ toClose' = [toClose EXCEPT ![t] = InArray(t)]
          /\ UNCHANGED <<due, back>>
       \/ /\ ~endProxy
          /\ \/ pc' = [pc EXCEPT ![t] = "poll"] /\ UNCHANGED <<due, back>>
             \/ Expires(t)
          /\ UNCHANGED toClose
    /\ wrote' = [wrote EXCEPT ![t] = 0]
    /\ UNCHANGED <<main, chan, shutEnds, listed, left, met, endProxy, process>>

\* A version that leaves the write flags as the last iteration had them.
TestEndKeepsFlags(t) == LoopTop(t) /\ UNCHANGED gate

\* while(!end_proxy): the write flags are cleared, and connects that are overdue given up.
TestEnd(t) == LoopTop(t) /\ gate' = [gate EXCEPT ![t] = FALSE]

\* A socket of a pair whose other end is closed hangs up.
HangsUp(t) == Writer(<<Peer(t), t>>) \in shutEnds

\* poll() fails, the incoming pair hangs up, or a handler gives up on a descriptor:
\* c_logic_fatal, s_logic_fatal.
Fatal(t) ==
    /\ \/ pc[t] = "poll" /\ (HangsUp(t) \/ Failures)
       \/ pc[t] = "serve" /\ Failures
    /\ pc' = [pc EXCEPT ![t] = "closing"]
    /\ toClose' = [toClose EXCEPT ![t] = InArray(t)]
    /\ UNCHANGED <<main, chan, shutEnds, turn, endProxy, process>>

\* A socket of a pair is writable while a quarter of it at most is in use.
Pollout(p) == 4 * chan[p] <= Cap

\* A version that looks at the peer's pair only.
GatePeerOnly(t) == listed[t] /\ Pollout(<<t, Peer(t)>>)

\* Both outgoing pairs must report POLLOUT; can_write_to_pipe_data() adds
\* nothing, FIONREAD of the writing end of a pair being 0.
Gate(t) == listed[t] /\ Pollout(<<t, Peer(t)>>) /\ Pollout(<<t, "w">>)

\* poll() returns with events: it fixes which connections the iteration
\* serves and whether they may write.  A connection that came or went since
\* the last iteration puts the outgoing pairs in fds[] or takes them out.
PollReturns(t) ==
    /\ pc[t] = "poll" /\ ~HangsUp(t)
    /\ listed' \in {[listed EXCEPT ![t] = b] : b \in BOOLEAN}
    /\ \E n \in 0..Conns :
        /\ n = 0 => chan[<<Peer(t), t>>] > 0
        /\ t = "s" /\ ~met => n = 0
        /\ left' = [left EXCEPT ![t] = n]
    /\ gate' = [gate EXCEPT ![t] = @ \/ (Gate(t) /\ listed'[t])]
    /\ pc' = [pc EXCEPT ![t] = IF chan[<<Peer(t), t>>] > 0 THEN "input" ELSE "serve"]
    /\ UNCHANGED <<main, chan, shutEnds, toClose, writing, met, endProxy, process>>

\* The outgoing pair itself hangs up while it is in fds[]: it is taken for a
\* connection, and the DISCONNECT for it is written to the closed pair.
OutputHangsUp(t) == listed[t] /\ Reader(<<t, Peer(t)>>) \in shutEnds

DisconnectsOutput(t) ==
    /\ pc[t] = "poll" /\ ~HangsUp(t) /\ OutputHangsUp(t)
    /\ process' = "gone"
    /\ UNCHANGED <<pc, main, chan, shutEnds, toClose, turn, endProxy>>

\* poll() runs into its timeout.
TimesOut(t) ==
    /\ pc[t] = "poll" /\ ~HangsUp(t) /\ ~OutputHangsUp(t) /\ chan[<<Peer(t), t>>] = 0
    /\ pc' = [pc EXCEPT ![t] = "loop"]
    /\ UNCHANGED <<main, chan, shutEnds, toClose, turn, endProxy, process>>

\* from_server(), from_client(): one message is read; it may be answered with one.
ReadInput(t) ==
    /\ pc[t] = "input"
    /\ chan' = [chan EXCEPT ![<<Peer(t), t>>] = @ - 1]
    /\ \/ pc' = [pc EXCEPT ![t] = "serve"] /\ UNCHANGED <<due, back>>
       \/ Writes(t, 1, "serve")
    /\ met' = (met \/ t = "s")
    /\ UNCHANGED <<main, shutEnds, toClose, listed, gate, left, wrote, endProxy, process>>

\* What a handler behind the gate may write: from_clients() one message; from_server() first
\* NEW_CONNECT when a connect() has finished, then what it read, or DISCONNECT.
Most(t) == IF t = "s" THEN 2 ELSE 1

\* A ready connection is skipped, served without a message, or written for.  accept() and a
\* hang-up do not look at the gate; each of them writes one message.
Serve(t) ==
    /\ pc[t] = "serve" /\ left[t] > 0
    /\ left' = [left EXCEPT ![t] = @ - 1]
    /\ \/ UNCHANGED <<pc, due, back>>
       \/ \E n \in 1..Most(t) : (gate[t] \/ n = 1) /\ Writes(t, n, "serve")
    /\ UNCHANGED <<main, chan, shutEnds, toClose, listed, gate, met, wrote, endProxy, process>>

EndIteration(t) ==
    /\ pc[t] = "serve" /\ left[t] = 0
    /\ pc' = [pc EXCEPT ![t] = "loop"]
    /\ UNCHANGED <<main, chan, shutEnds, toClose, turn, endProxy, process>>

\* A version that does not wait for room.
WriteAnyway(t, p, next) ==
    IF Reader(p) \in shutEnds
    THEN process' = "gone" /\ UNCHANGED <<chan, pc>>
    ELSE /\ chan' = [chan EXCEPT ![p] = @ + 1]
         /\ pc' = [pc EXCEPT ![t] = next]
         /\ UNCHANGED process

\* write() to a pair: it blocks while the pair is full and raises SIGPIPE
\* when nobody can read it any more.
Write(t, p, next) ==
    IF Reader(p) \in shutEnds
    THEN process' = "gone" /\ UNCHANGED <<chan, pc>>
    ELSE /\ chan[p] < Cap
         /\ chan' = [chan EXCEPT ![p] = @ + 1]
         /\ pc' = [pc EXCEPT ![t] = next]
         /\ UNCHANGED process

\* Where a thread stands when it has written a message to both.
AfterMessage(t) == IF due[t] > 1 THEN "peer" ELSE back[t]

\* send_data(): the peer first, then the worker.
SendData(t) ==
    /\ \/ /\ pc[t] = "peer" /\ Write(t, <<t, Peer(t)>>, "worker")
          /\ UNCHANGED <<due, wrote>>
       \/ /\ pc[t] = "worker" /\ Write(t, <<t, "w">>, AfterMessage(t))
          /\ due' = [due EXCEPT ![t] = @ - 1]
          /\ wrote' = [wrote EXCEPT ![t] = IF gate[t] THEN @ + 1 ELSE @]
    /\ UNCHANGED <<main, shutEnds, toClose, listed, gate, left, back, met, endProxy>>

\* A version that leaves end_proxy alone.
DoneQuietly(t) ==
    /\ pc[t] = "closing"
    /\ IF toClose[t] # <<>>
       THEN /\ shutEnds' = shutEnds \cup {Head(toClose[t])}
            /\ toClose' = [toClose EXCEPT ![t] = Tail(@)]
            /\ UNCHANGED pc
       ELSE /\ pc' = [pc EXCEPT ![t] = "ended"]
            /\ UNCHANGED <<shutEnds, toClose>>
    /\ UNCHANGED <<main, chan, turn, endProxy, process>>

\* A version that leaves the descriptors to run().
DoneKeepsEnds(t) ==
    /\ pc[t] = "closing"
    /\ endProxy' = TRUE
    /\ pc' = [pc EXCEPT ![t] = "ended"]
    /\ toClose' = [toClose EXCEPT ![t] = <<>>]
    /\ UNCHANGED <<main, chan, shutEnds, turn, process>>

\* done(): close every descriptor of fds[], then raise end_proxy.
Done(t) ==
    /\ pc[t] = "closing"
    /\ IF toClose[t] # <<>>
       THEN /\ shutEnds' = shutEnds \cup {Head(toClose[t])}
            /\ toClose' = [toClose EXCEPT ![t] = Tail(@)]
            /\ UNCHANGED <<pc, endProxy>>
       ELSE /\ endProxy' = TRUE
            /\ pc' = [pc EXCEPT ![t] = "ended"]
            /\ UNCHANGED <<shutEnds, toClose>>
    /\ UNCHANGED <<main, chan, turn, process>>

Logic(t) ==
    process = "up" /\
        \/ Prepare(t) \/ TestEnd(t) \/ PollReturns(t) \/ TimesOut(t) \/ Fatal(t)
        \/ DisconnectsOutput(t) \/ ReadInput(t) \/ Serve(t) \/ EndIteration(t)
        \/ SendData(t) \/ Done(t)

-----------------------------------------------------------------------------
(* The worker thread *)

\* do ... while(!end_proxy)
NextTurn == IF endProxy THEN "ended" ELSE "loop"

Heard == {p \in Pairs : p[2] = "w" /\ chan[p] > 0 /\ Writer(p) \notin shutEnds}

Less(read) == [p \in Pairs |-> IF p \in read THEN chan[p] - 1 ELSE chan[p]]

\* A message of each pair that poll() found readable is read and logged.
WorkerReads ==
    /\ pc["w"] = "loop"
    /\ \E read \in SUBSET Heard \ {{}} : chan' = Less(read)
    /\ pc' = [pc EXCEPT !["w"] = NextTurn]
    /\ UNCHANGED <<main, shutEnds, toClose, turn, endProxy, process>>

\* One of its pairs hangs up: the worker stops everything.  It looks at the
\* client's pair first.
WorkerHangsUp ==
    /\ pc["w"] = "loop"
    /\ \E p \in Pairs :
        /\ p[2] = "w" /\ Writer(p) \in shutEnds
        /\ chan' \in {Less(read) : read \in SUBSET (IF p[1] = "s" THEN Heard ELSE {})}
    /\ endProxy' = TRUE
    /\ pc' = [pc EXCEPT !["w"] = "ended"]
    /\ UNCHANGED <<main, shutEnds, toClose, turn, process>>

\* poll() fails: the worker ends alone.
WorkerPollFails ==
    /\ Failures /\ pc["w"] = "loop"
    /\ pc' = [pc EXCEPT !["w"] = "ended"]
    /\ UNCHANGED <<main, chan, shutEnds, toClose, turn, endProxy, process>>

\* poll() runs into its timeout: only end_proxy is news.
WorkerTimesOut ==
    /\ pc["w"] = "loop" /\ endProxy
    /\ \A p \in Pairs : p[2] = "w" => chan[p] = 0 /\ Writer(p) \notin shutEnds
    /\ pc' = [pc EXCEPT !["w"] = "ended"]
    /\ UNCHANGED <<main, chan, shutEnds, toClose, turn, endProxy, process>>

WorkerGoes == WorkerReads \/ WorkerHangsUp \/ WorkerTimesOut

Worker == process = "up" /\ (WorkerGoes \/ WorkerPollFails)

Next == Main \/ (\E t \in Logics : Logic(t)) \/ Worker

Spec == Init /\ [][Next]_vars

\* Every thread goes on while it can; failures and events are not owed.
\* poll() has a timeout, so that a thread in it comes back on its own.
Progress(t) ==
    process = "up" /\
        \/ Prepare(t) \/ TestEnd(t) \/ PollReturns(t) \/ TimesOut(t)
        \/ (HangsUp(t) /\ Fatal(t)) \/ DisconnectsOutput(t) \/ ReadInput(t)
        \/ Serve(t) \/ EndIteration(t) \/ SendData(t) \/ Done(t)

Fairness ==
    /\ WF_vars(Main)
    /\ \A t \in Logics : WF_vars(Progress(t))
    /\ WF_vars(process = "up" /\ WorkerGoes)

FairSpec == Spec /\ Fairness

-----------------------------------------------------------------------------
(* Properties *)

\* Every pair holds what it has room for, done() closes the descriptors it has, and run() goes
\* through its chores in their order.
TypeOK ==
    /\ pc \in [Threads -> {"absent", "prepare", "loop", "poll", "input", "serve", "peer",
                           "worker", "closing", "ended"}]
    /\ \E n \in 0..Len(Chores) : main = SubSeq(Chores, n + 1, Len(Chores))
    /\ chan \in [Pairs -> 0..Cap]
    /\ shutEnds \subseteq Ends
    /\ \A t \in Logics : Len(toClose[t]) <= 3
    /\ listed \in [Logics -> BOOLEAN] /\ gate \in [Logics -> BOOLEAN]
    /\ left \in [Logics -> 0..Conns]
    /\ due \in [Logics -> 0 .. Conns + 2] /\ wrote \in [Logics -> Nat]
    /\ back \in [Logics -> {"serve", "poll"}]
    /\ met \in BOOLEAN /\ endProxy \in BOOLEAN
    /\ process \in {"up", "returned", "gone"}

\* run() closes the pairs and returns when no thread can touch them any more
\* (the joins before the twelve calls of close()).
PairsOutliveThreads == process = "returned" => \A t \in Threads : pc[t] = "ended"

\* A thread that waits in write() on the worker's full pair when the worker
\* is no longer there to read it: nothing closes that pair before the join.
StuckOnWorker ==
    \E t \in Logics :
        pc[t] = "worker" /\ chan[<<t, "w">>] = Cap /\ pc["w"] \in {"absent", "ended"}

\* A client or server thread that gives up takes everything down with it:
\* run() returns, or the process ends, unless a thread is left waiting on
\* the pair of a worker that has gone (done(), end_proxy, the hang-ups).
ShutdownEnds ==
    (\E t \in Logics : pc[t] = "closing") ~> (process # "up" \/ StuckOnWorker)

\* Both threads wait for room in a full pair that only the other one reads.
Embraced == \A t \in Logics : pc[t] = "peer" /\ chan[<<t, Peer(t)>>] = Cap

\* A thread that writes to the other one gets through, whatever that one does: it reads, or
\* its done() closes the pair.  Only two threads that write to each other at once, or one that
\* is held up by a worker that has gone, wait for ever (the ungated writes of send_data).
WriteEnds ==
    \A t \in Logics :
        pc[t] = "peer" ~> (pc[t] # "peer" \/ process # "up" \/ Embraced \/ StuckOnWorker)

\* What the iteration has written to its pair with r since it found the gate open.
Written(t, r) == wrote[t] + (IF pc[t] = "worker" /\ r # "w" THEN 1 ELSE 0)

\* An iteration that found the gate open finds in its outgoing pairs, beside what it has
\* written itself, at most the quarter that POLLOUT vouches for: flags of an earlier iteration,
\* or of one pair for both, would let more be there (s_write_enable, w_write_enable).
TurnHasRoom ==
    \A t \in Logics :
        gate[t] /\ pc[t] \in {"input", "serve", "peer", "worker"} =>
            \A r \in {Peer(t), "w"} : 4 * chan[<<t, r>>] <= Cap + 4 * Written(t, r)

\* A thread that waits for room in a pair is in a handler that does not look at the gate, in an
\* iteration that found it closed; or the iteration has filled three quarters of the pair by
\* itself.  Nothing else makes write() block, and so nothing else the two threads' embrace.
BlockedForAReason ==
    \A t \in Logics : \A r \in {Peer(t), "w"} :
        /\ pc[t] = (IF r = "w" THEN "worker" ELSE "peer")
        /\ chan[<<t, r>>] = Cap
        => ~gate[t] \/ 4 * wrote[t] >= 3 * Cap

=============================================================================
