# sql_proxy: a TLA+ model of the proxy

sql_proxy accepts TCP connections of database clients, opens one connection to the database
server for each of them, and relays the bytes both ways. It is a daemon of three threads that
talk over socket pairs. This directory holds a TLA+ model of it, the TLC configurations that
check the model on small instances, and proofs checked by TLAPS. Line numbers are those of the
repository this directory belongs to; paths are relative to its root `src/`.

## 1. The system

| component | state it keeps | operations | talks to |
|---|---|---|---|
| client thread, `client_logic.*`, `client_worker.cpp` | `db` (client socket -> server socket, -1: not ready), `db_for_close`, `storage` (unsent buffers), `fds[]`, write flags | `new_connect` (accept), `from_server_*` (one per message kind), `from_clients`, hang-up branches of `run`, `done` | server thread and worker through socket pairs, clients through sockets |
| server thread, `server_logic.*`, `server_worker.cpp` | `db` (server socket -> client socket), `db_con_wait` (connect() in progress), `db_for_close`, `storage`, `fds[]` | `from_client_*`, `from_server`, `erase_old_wait_connect`, hang-up branches, `done` | client thread and worker, database server |
| messages, `proxy_impl.hpp:75-144` | kind, two descriptor numbers, a body | NEW_CONNECT, DISCONNECT, DATA, NOT_CONNECT, CONNECT_NOT_FOUND | |
| `proxy_impl::run`, `proxy_impl.cpp` | twelve descriptors of six pairs, three thread identifiers, `end_proxy` | create pairs, start, join, close | all threads |
| `proxy` and the setters and getters of `proxy_impl` | the settings, `run_mutex` | nine setters, nine getters, `run` | whoever uses the object; the logic threads read the settings |
| worker, `worker_worker.cpp` | none | read a copy of every message, log it; stop everything when a pair hangs up | both logic threads |
| daemon, `daemon.*` | the PID file, `owner`, the signal handlers | `go`, `finish`, `SIGUSR1` and `SIGKILL` to an earlier copy | other copies of the program |
| `main.cpp`, the handlers in `daemon.cpp` | settings from environment and options, `atexit1_once`, the jump buffer, the daemon and the proxy as locals | read settings, `go`, `run`, destroy both; `atexit1`, `program_exit` | daemon, proxy, log |
| log, counters | level | `write` | syslog; counters are read by nothing that decides |

How they interact. A client socket is accepted by the client thread, which announces its number
to the server thread (NEW_CONNECT). The server thread calls connect(), at once or in progress,
and answers with the number of its own socket, or NOT_CONNECT. From then on DATA messages carry
both numbers. Whichever side sees its socket end sends DISCONNECT. A thread that gets data for a
socket that cannot take it keeps the rest in `storage[d]` and sends it when poll() reports
POLLOUT; a socket that is to be closed with unsent data goes on `db_for_close` first. Every
message is also written to the worker.

What is hard here:

- *Names are descriptor numbers.* A number is reused by the kernel as soon as it is closed, while
  messages that carry it may still be in a pair. `db[d]` of a missing key inserts 0.
- *Cross-thread sessions.* Closing is an exchange between two threads that can both start it,
  with connect() in progress, its timeout, and unsent data in between.
- *One array, changed while it is walked.* `fds[]` gains and loses slots during an iteration, its
  output pipes come and go by its length, and slots keep their old `revents`.
- *Blocking writes both ways* between two threads, and to a worker that may be dead.
- *Ends.* One thread that gives up must take the others with it, also those that wait in poll(),
  write() or pthread_join().
- *Signals and exit handlers* that jump into `main()` with longjmp, from wherever they run.
- *Settings* read without the lock that guards their change.
- *A PID file* that is created, read, removed and written by copies that know nothing of each other.

What makes each part correct: the relay never mixes sessions, never reorders a stream, and never
leaves half a session behind; the poll array has every open connection once and no hole; a write
blocks only beside the gate or behind what the same iteration has written; run() closes nothing a
thread still uses and returns; at most one copy of the program runs, it keeps its file and takes it along when it ends; a run is
not reconfigured under way. `PROJECT.json` lists the hazards at
their lines with the properties that cover each.

## 2. Modules

| module | what it is |
|---|---|
| `ProxyData` | messages, maps, send queues; descriptor table and far ends (environment) |
| `ClientLogic`, `ServerLogic` | the two threads, one action per handler |
| `SqlProxy` | their composition, properties, fairness, and the refinement mapping to `SessionSpec` |
| `SessionSpec` | what the proxy promises to the two ends of a session: the abstract specification |
| `SessionInv` | the inductive invariant of the isolation theorems |
| `RelayInv` | the inductive invariants of the order, flush-list and orphan theorems and of the refinement |
| `PollLoop` | `fds[]` of either thread, slot by slot |
| `ProxyRun` | `proxy_impl::run`, threads, pairs, blocking writes, shutdown |
| `ProxyConfig` | `proxy`, its setters, getters and `run()`, the mutex between callers, `get_timeout()`'s arithmetic |
| `DaemonLock` | `daemon::go`, `finish` and the PID file |
| `MainFlow` | `main()`: settings, way up, way down, signals and the jumps of their handlers |
| `MCSqlProxy`, `MCPollLoop`, `MCProxyRun`, `MCProxyConfig`, `MCDaemonLock`, `MCMainFlow` | what TLC instantiates |
| `SqlProxyProofs`, `SessionProofs`, `RelayProofs`, `PollLoopProofs`, `ProxyRunProofs`, `ProxyConfigProofs`, `DaemonLockProofs`, `MainFlowProofs` | theorems |

Operators named as variants ("Variant: ...", "A version that ...") are plausible mistakes in the
code, put beside the definition they would replace. No specification uses them; replacing the
definition by its variant makes the property that watches over it fail, which shows that the
property says something about that code.

### 2.1 SqlProxy

State and code. `c_db`, `s_db`, `s_con_wait`, `c_for_close`, `s_for_close`, `c_storage` and
`s_storage` are the maps and lists of the same names. `db_for_close` and `db_con_wait` are sets:
the code looks for a number in them and removes it. `c_fds` and `s_fds` are the connections in
`fds[]`; `cs` and `sc` the two socket pairs; `alive` is `~end_proxy`. A `std::map` is a function
on its keys, `Touch` and `At` are its `operator[]`.

The environment is not in `src/` and is modelled from how it is used: `owner` says what a
descriptor number was last given out for, `peer` is the far end of a socket (connecting, open,
shut down or reset), `sent`, `read` and `got` are the streams. `owner` and the field `who` are
ghosts: no guard of the program reads them except through the kernel, where a socket is what it
is. A body is a run of units that remember who wrote them.

Actions. One handler of the poll loop is one action, run to its end: two threads share only the
pairs and the descriptor table, each of them touched by one system call at a time, and a handler
reads at most one message and writes at most one to the other thread (`ConnectFinished` two, in
order). A handler that closes a socket writes its message first, and the number can be given out
from then on. poll() may report any subset of what is true of a socket, `out` and `in`; `writable`
is what a message handler finds in the `revents` of another slot. Fatal errors (`AcceptFails`,
`SocketFails`, `ClientPollNval`, `ServerPollNval`) end the relay. `ClientHupOnEmptySlot` is the
hang-up that is found in a slot emptied earlier in the iteration: it announces descriptor -1.

At this commit `client_logic.cpp:841` and `server_logic.cpp:718` hold a closing brace that is
commented out, and the files do not balance. Both handlers are read with the brace in place, as
their indentation and the use of `direct` after it have it.

Left out: the worker's copy of every message (`ProxyRun`), the slots of the array and the gate
(`PollLoop`), the counters, the log, keep-alive and no-delay options (they can only fail, which
is `AcceptFails` and `SocketFails`), the time in `connect_timeout` (it may run out at any moment).

### 2.2 SessionSpec and the refinement

`SessionSpec` knows no descriptors, messages, maps or queues. It has, for each end of a session, a
stage (absent, dialing, inside, gone), whether the far end has left, how much it has sent, how
much of that was taken, and what was delivered to it. Its steps say what may be done to one
session at a time: let a client in, dial its server once, take what was sent (not before the
other end has been reached), deliver what was taken from the other end, in order, and let an end
go, but only because it has left, because the other end of the same session is gone, or because
the call to it did not get through. `Fail` is a fatal error, which ends every session.

`SqlProxy` maps to it with `StageOf`: an end is absent until accept() returned its socket, or,
for a server, while the NEW_CONNECT that will dial it has not been read; dialing while its socket
is in `db_con_wait`; inside while some descriptor of a thread is its own; gone afterwards. `got`,
`sent` and `read` (the map's `taken`) are the streams themselves. `KeepsPromise` is the refinement,
checked by `SqlProxy_two_sessions` and proved (`PromiseIsKept`) without reuse of numbers: with it, a delivery may come from another session, which is
what `SqlProxy_cross_session` shows.

### 2.3 PollLoop

One module for both threads; `me` says whose loop a behaviour is. `Inputs` is what `prepare()` of
that thread puts in front, `Arrival` the input a connection arrives on, `Arrivals` whether one
event takes all that wait (accept in a loop) or one; `Expire` is `erase_old_wait_connect`, which
only the server thread has. `Poll` is the call and the toggling after it; then one action per slot,
chosen by what the slot held at that moment, as `run()` walks `i < current_size`; `EndOfLoop` is
`compress_array`. `revents` is kept for slots past the end, because the code never clears it. A
connection's hang-up may also be one that belongs to an earlier owner of the slot, even when a
pipe now stands there. The model ends when an output pipe was closed that way (`shut`), for then
the thread can send nothing any more. `Compressed` says where each descriptor goes by counting
(`Rank`): the k-th one that is left moves to slot k, which is what the code's shifting comes to.

### 2.4 ProxyRun

`main` is what `run()` has still to do, `pc[t]` where a thread stands, `chan` how many messages
are in a pair. A connection is only "ready"; what counts is how many messages its handler writes
(`due`), and where the thread goes on then (`back`). Behind the gate `from_clients` writes at most
one and `from_server` at most two (`Most`): NEW_CONNECT for a connect() that has finished, then
what it has read, or DISCONNECT (`server_logic.cpp:399`, 509, 518). Beside the gate one is written
by accept(), by a hang-up and by an answer to a message, and one for each connect() that has timed
out, before poll() (`Expires`); the server thread has connections only once it has read a message
(`met`). write() blocks on a full pair and raises SIGPIPE on a pair nobody can read. The pairs are socket pairs,
the program's default (`use_pipe` = 0): POLLOUT is reported while at most a quarter is in use, and
`can_write_to_pipe_data` adds nothing, because FIONREAD of the end that writes is 0. The flags of the gate are cleared at the top of the
loop and set by what poll() reports, once in an iteration. `Failures` lets
poll(), pthread_create() and `prepare()` fail, and a handler give up on a descriptor. Joining a thread that was not created, and the
longjmp of the SIGPIPE handler out of another thread's stack, are undefined: both end the process.

### 2.5 DaemonLock

A process is one start of the program from its first open() of the file on. `lock` is who created
the file that is under the path now, `written` who has written a number, `found` the file a start
has opened (reading goes through the descriptor, so it stays the same file when the path does
not). One system call is one step, so that starts interleave as they do. The calls on the file
fail for want of it, and for the starts in `Hindered` also because the system refuses them
(`Fails`): whatever made the first open() fail, the code goes on to open for reading, and reports
what fails from there on. The two fork()s before
the number is written are the step `created`, which may abort. A process may crash anywhere, and
the number of an ended one may be given to another program (`strangers`).

### 2.6 ProxyConfig

`at[t]` is where a caller stands, `todo` the fields it has still to write or read, `run_mutex` who
holds the mutex. A setter is `Set` (try_lock), a `Write` per field, `SetDone` (unlock); a getter is
`Get`, `GetUnlocks`, a `Read` per field, `GetDone`: the code unlocks before it reads. `Refused` is
`Eproxy_running`, which a caller also gets when all it met was another getter. `run()` waits for
the mutex and keeps it; what its threads read of the settings is `used`. set_timeout() has the
three fields "client", "server" and "worker", every other setter has one, and "other" stands for
those. `Sums`, `Means` and `Narrowed` are get_timeout()'s arithmetic: ints added with overflow
undefined (any int), the sum divided as a size_t, the quotient cut to an int32_t; the widths are
constants, so that TLC can use small ones and the proofs none in particular.

### 2.7 MainFlow

`at` is where main() is. `go()` appears as what it returns and the moments before and between the
calls of setsignal(), `run()` as the start and the join of each of its threads, one by one, with
main()'s message after a join; their insides are those of `DaemonLock` and `ProxyRun`. A signal without a handler ends the process (`Default`). One with a
handler runs on main()'s thread, where the system puts it unless it is blocked there (`Caught`),
else on a logic thread (`Across`, also SIGPIPE): longjmp does not restore the mask, so each signal
is handled once per thread. `CallsAt` says what main() may be in the middle of, and a logic thread
may be in the same calls (`Calls`). At a level that lets DEBUG through, the handler's message waits
for the lock of syslog() or malloc() if its thread is inside, or if another thread waits in a
handler and holds it. A logic thread that waits so (`hung`) is never joined, and what it holds
stops main() at its next message or free() (`Held`). Without the message, the jump leaves what was
under way as it is (`torn`). A jump from another
thread, or into main() after it has returned, is undefined: main() goes on at end_program there,
or the process ends. The destructors of the two locals run once each, since a shared_ptr whose
release was left by a jump is not released again; a jump out of `finish()` therefore leaves the
file. Of the settings, the level of the log, two flags that print and end the program, and one
that only prints stand for all of their kind.

## 3. What TLC checks

`Sessions` are interchangeable in the initial state and in every action, so symmetry is used for
the run with two of them; likewise the connections of `PollLoop`, whose action properties name no
single one. The runs with liveness use no symmetry.

| run | shows |
|---|---|
| `SqlProxy_one_session` | TypeOK, InOrder, FlushListHasData, PolledAreKnown, WaitersHaveClient, OrphanServerIsTold, OrphanClientIsTold, QueuedIsKept, SessionsEnd, FlushesEnd, PairingResolves, with numbers reused |
| `SqlProxy_two_sessions` | Isolation, PairsAreSessions, PolledAreOwn, and KeepsPromise (SqlProxy implements SessionSpec), when no number is reused |
| `PollLoop_threads` | TypeOK, ArrayInOrder, GateFallsByLateArrival, OpenConnsStayPolled, for both threads |
| `ProxyRun_threads` | TypeOK, PairsOutliveThreads, TurnHasRoom, BlockedForAReason, ShutdownEnds, WriteEnds, under failures and with bursts that do fill a pair |
| `ProxyConfig_callers` | TypeOK, ThreadsAgree, SettingsHoldInRun, QuietGetIsRight, and no deadlock |
| `DaemonLock_in_turn` | TypeOK, AtMostOneRuns, RunnerHoldsLock, LoneStartSucceeds; one start may not signal another, and the calls of one on the file may be refused |
| `MainFlow` | TypeOK, CommandLineWins, FileLeftExplained, NoJumpAfterMain, ProxyOutlivesThreads, StopSignalEnds |

Five more runs show the program departing from what its comments, messages or names promise;
section 5 tells what each finds.

The bounds. *Sessions*: two are enough for data of one to be mistaken for the other; one gives
room for streams. *Fd* holds 0 and one number per socket, so that a session never waits for a
number and, with `Recycle`, the lowest free one is given out again as POSIX says. *MaxUnits*,
*MaxTalkers*, *MaxBody*: two units per stream and buffers of up to two units let a send be whole,
partial or refused with one more buffer behind it; with two sessions one unit of one stream is
enough to see it in the wrong place. *MaxLeavers*: of the four far ends of two sessions two may
leave, both of one session or half of each; with one session both may.
The pairs `cs` and `sc` have no bound of their own: each
session adds finitely many messages. *PollLoop*: three connections, of which the client thread has at most
two (`MaxClients`), taken together or apart, and the server thread all, one at a time. With the
two pipes that reaches all the lengths at which `connects_present` and `connects_absence` act, one
below and one above. *ProxyRun*: a
pair of one message fills at once: the gate opens on empty pairs, and one connection and an answer
let an iteration of the server thread write three messages, so that it blocks with the gate open
(the exception of BlockedForAReason), beside the gate, and in the embrace. That POLLOUT also vouches
for a pair with a quarter in use takes a pair of four, which with failures and liveness is
too much for TLC; TurnHasRoom and BlockedForAReason are proved for every
capacity. *DaemonLock*: three
starts are a copy that runs, one that replaces it, and one more that meets what they left.
*ProxyConfig*: three callers are one that runs or writes, one that reads, and one that comes in
between; an int of 16 values and a size_t of 256 let the sum of three overflow, and a negative sum
turn into another number when it is divided as a size_t. *MainFlow*: two stop signals, so
that a second one meets what the first one left, on main() or, when it is of the same kind, on one
of two logic threads, one of which may be started when the signal comes and the other not. `Served`
has six starts that come to run(), at the levels DEBUG, INFO and ERROR, the level from the
environment, from one option or from the last of two; `Ended` has those that end first, with every
environment.

`CHECK_DEADLOCK FALSE` stands where the program may really stop: clients may stop coming, a
proxy may have ended, every start of the daemon may be over, two threads may wait for each other in
write(), which BlockedForAReason and WriteEnds name. `ProxyConfig_callers` keeps the check on: there
a state without a successor would be callers waiting on each other.

### Fairness

`SqlProxy` assumes weak fairness of each thread's next message, of each waiting accept, and, for
each polled descriptor, of what its handlers do whether or not its far end takes data: read what
can be passed on, or the end of the stream, hang up, finish a connect() or give it up
(`ClientMust`, `ServerMust`). The loop of `run()` walks all slots that poll() reported
and poll() reports a condition again while it lasts, so a handler that stays enabled is run. Two
provisos: the loop must not be stuck in write() (`ProxyRun`) and the gate must stand (`PollLoop`
shows when it does not). No step that waits for POLLOUT of a connection is owed: a far end that stays
open and stops reading keeps its socket on `db_for_close` for ever, which is what SessionsEnd says
may be left of a session (`OnlyFlushes`). That far ends go on to read (`FarEndsRead`) is a premise of
FlushesEnd and of nothing else. Fairness is not assumed of failures or of an answer to connect(); `ConnectTimeout` is part of the fairness of a polled server socket, as
`erase_old_wait_connect` runs before every poll() and poll() has a timeout. `ProxyRun` assumes
weak fairness of `run()`, of every thread's own steps and of the worker, not of failures:
poll() has a timeout and comes back on its own (a negative `--timeout` takes that away: poll() then
waits for ever, and nothing but traffic makes a thread look at `end_proxy`). `MainFlow` assumes
weak fairness of main()'s way down only: the system runs a thread that nothing holds.

## 4. What TLAPS proves

`tlapm` checks these for every value of the constants that satisfies the ASSUMEs of the modules.

| theorem | statement | assumptions |
|---|---|---|
| `TypeCorrect` | Spec => []TypeOK of SqlProxy | ProxyAssumption |
| `WaitersAlwaysHaveClient`, `PolledAreAlwaysKnown` | Spec => []WaitersHaveClient, []PolledAreKnown | ProxyAssumption; numbers reused or not |
| `SessionsAreIsolated`, `PairsStaySessions`, `PolledStayOwn` | Spec => []Isolation, []PairsAreSessions, []PolledAreOwn | and ~Recycle |
| `StreamsStayInOrder`, `FlushListAlwaysHasData` | Spec => []InOrder, []FlushListHasData | and ~Recycle |
| `OrphanServerIsAlwaysTold`, `OrphanClientIsAlwaysTold` | Spec => []OrphanServerIsTold, []OrphanClientIsTold | and ~Recycle |
| `QueuedIsAlwaysKept` | Spec => QueuedIsKept | and ~Recycle |
| `PromiseIsKept` | Spec => KeepsPromise: SqlProxy implements SessionSpec | and ~Recycle |
| `LoopTypeCorrect`, `ArrayStaysInOrder` | Spec => []TypeOK, []ArrayInOrder of PollLoop | PollAssumption; either thread |
| `OpenConnsAlwaysStayPolled`, `GateOnlyFallsByLateArrival` | Spec => OpenConnsStayPolled, GateFallsByLateArrival | PollAssumption; either thread |
| `RunTypeCorrect`, `PairsAlwaysOutliveThreads` | Spec => []TypeOK, []PairsOutliveThreads of ProxyRun | RunAssumption; any failures, any handlers |
| `TurnAlwaysHasRoom`, `BlockedAlwaysForAReason` | Spec => []TurnHasRoom, []BlockedForAReason | RunAssumption; any failures, any handlers |
| `ConfigTypeCorrect`, `ThreadsAlwaysAgree` | Spec => []TypeOK, []ThreadsAgree of ProxyConfig | ConfigAssumption |
| `SettingsAlwaysHold`, `QuietGetIsAlwaysRight` | Spec => SettingsHoldInRun, QuietGetIsRight | ConfigAssumption: any widths, any callers |
| `LockTypeCorrect` | Spec => []TypeOK of DaemonLock | LockAssumption |
| `RunnerKeepsLock`, `LockExcludes`, `LoneStartAlwaysSucceeds` | Spec => []RunnerHoldsLock, []AtMostOneRuns, []LoneStartSucceeds | and OneAtATime; whoever may signal whom, and whoever's calls may be refused |
| `FlowTypeCorrect`, `CommandLineAlwaysWins` | Spec => []TypeOK, []CommandLineWins of MainFlow | MainAssumption |
| `FileLeftIsExplained`, `NoJumpEverAfterMain`, `ProxyAlwaysOutlivesThreads` | Spec => []FileLeftExplained, []NoJumpAfterMain, []ProxyOutlivesThreads | MainAssumption: any signals and threads |

The arguments:

- *Types and records of the relay* (`SqlProxyProofs`, first part of `SessionProofs`). TypeOK is
  not inductive alone: to index `storage` and `owner` by a polled socket one must know that the
  socket has an entry there. `PolledHaveQueues` adds that. `PolledAreKnown` and
  `WaitersHaveClient` are then kept together, since what leaves one list must leave the others.
- *Isolation* (`SessionProofs`). `SessionInv` says of every place a number is written down (maps,
  queues, messages in both pairs) that it still means the session it meant there. The step that
  gives out a number is the only one that changes meanings, and without reuse it gives meaning
  only to a number that occurs nowhere. That step is where the proof, and the program, need
  ~Recycle: `SqlProxy_cross_session` is the counterexample without it.
- *Order* (`RelayProofs`). `OrderInv` follows a stream through its four places, the far end's
  `got`, the queue in `storage`, the pair, and what was read: what is further along comes before
  what is behind it, and nothing is on its way that was not read. A partial send and what is put
  back in front of a queue keep that. An end has one descriptor in a behaviour (`OnceInv`);
  with two, two queues could deliver to it in turn.
- *The flush list* (`RelayProofs`). `FlushInv` adds the converse, that what has unsent data is
  polled, and that no message and no record of the client thread names a socket whose connect()
  is in progress: so nothing is queued for it, and its timeout, which does not look at
  `db_for_close` or `storage`, loses nothing.
- *Queues* (`RelayProofs`). The units of a queue only leave it for the far end's `got`; every
  action is read for what it does to one queue (`FlushKeepsUnits`, `RelayKeepsUnits`). A socket is
  closed without looking at its queue in two places: after its far end left, where the property
  asks for nothing, and when a connect() times out, where `FlushInv` says there is no queue.
- *Half sessions* (`RelayProofs`). `OrphanInv` matches the ends of a session: a live server socket
  is on record with its client, or news of it is on the way there, or its end is on the way back,
  and the same the other way round. A message that ends one end names a session whose other end
  is no longer live and will not be (`ServerSide`, `ClientSide`): that is what keeps a match from
  being broken twice, or by a session's first message arriving late.
- *The refinement* (`RelayProofs`). Every handler is one step of `SessionSpec`, or none. accept()
  is `Admit`, the handler that reads an announcement is `Dial`, a fatal error is `Fail`, the far
  ends send and leave; all others work for the socket they were called with (`Works`), and that
  is `Serve` for its end (`WorkIsService`). What they deliver is in order by `OrderInv`, and
  nothing is taken from a client before its server has answered by `FlushInv`. Each reason to let
  an end go has to be a reason of its session: a message to close a socket is acted on only when
  the other end is out for good. `OrphanInv` says so of the messages, and `GoneInv` adds what it
  leaves open: what is open is polled, a server is called after its announcement and not before,
  and the two sockets of a session are never both kept only to be flushed, for then the one that
  is drained first would go while the other is still there.
- *The array* (`PollLoopProofs`). `LoopInv`: the array has its shape at all times (`ArrayOK`), a
  hole in it is flagged or has just been compressed away, and the slots still to come hold the
  arrivals an iteration can bring, of which there is one event only (`Room`, which is why the
  array never outgrows its slots before it is compressed). The lemma behind `compress_array` is
  a count: what is left at slot i has as many left before it as after the move (`Ranks`,
  `CompressedSlots`). The two action properties split a step by what it does to the array
  (`KindsOfSteps`): toggling, closing, compressing, arrivals.
- *Threads and pairs* (`ProxyRunProofs`). `RunTyped` and `LifeInv` tie the chores `run()` has left
  to what has been created, started and joined; a pair is closed after the joins of both its users.
- *The gate* (`ProxyRunProofs`). `RoomInv` says for an iteration that found the gate open that each
  outgoing pair holds what it has written since and a quarter of the capacity at most (`Room`); readers
  only lower that. The quarter is what the flags vouched for when they were set, so they must be down
  before poll(), also while overdue connects are given up (`Shut`): flags of the last iteration, or
  what that iteration wrote, would count for this one. A full pair is then three quarters of own
  writes. `MessageWaits` adds that a thread that is about to read its input has a message there, so
  that counts stay natural numbers.
- *The settings* (`ProxyConfigProofs`). `ConfigInv` has a part for each of its readers. While
  somebody writes (`WriterInv`), the fields it has passed have its value and the others still agree
  with each other; while nobody does (`FreeInv`), the three timeouts agree. A getter that was not
  crossed has heard the one value they had when it began (`ReaderInv`, `QuietInv`): it held the mutex
  for a moment then, so no set_timeout() was half way. What a run's threads have read is what the
  fields still hold (`UseInv`). QuietGetIsRight needs this and arithmetic: a sum of three within
  the int range is not cut by the size_t, and its third is the value.
- *The lock* (`DaemonLockProofs`). `LockInv`: at most one start is under way; whoever holds the
  lock created the file under the path and has written its number once it is past that step; only
  a start that was refused a signal goes on without the file, and it never touches it; a start
  that has read a number while somebody holds the lock has read the holder's, and a start that
  has come to unlink() proves that nobody holds it. AtMostOneRuns alone is not inductive: it says
  nothing of the step from reading the file to removing it. `LoneInv` adds what a start that meets
  nobody, and is refused nothing, has found, from its first open() on. A refused call only ends the
  start it is refused to, or sends it to open for reading, so it leaves `LockInv` alone.
- *main()* (`MainFlowProofs`). `FlowInv` keeps, for every place main() can be at, which settings
  are made (`StartInv`), which of daemon, handlers and file exist (`WayInv`, `FileInv`), and
  whether threads run (`ThreadInv`). The handlers can run at any place, so each part has to hold
  between any two steps of the way up and the way down, jumps included.

Only model-checked: the liveness properties (SessionsEnd, FlushesEnd, PairingResolves, ShutdownEnds,
WriteEnds, StopSignalEnds), since liveness under fairness and ENABLED are beyond the prover. The modules declare no recursive operators; no theorem needs
induction over data, because the invariants speak of a queue slot by slot.

## 5. Where the program departs from what it says

- `SqlProxy_cross_session`: a client socket is closed while data for it is in the pair, its
  number goes to the next connection, and the data is sent there (`client_logic.cpp:822`).
- `SqlProxy_flushed_reads`: the server leaves while data for its client is unsent, so that the client
  socket is erased from `db` and kept on `db_for_close`; its client sends, and `db[cur_fd]` makes
  descriptor 0 its server (`client_logic.cpp:713`, against the comment of `client_logic.hpp:159`).
  Its data goes nowhere, and a DISCONNECT that names descriptor 0 makes the server thread close that.
- `PollLoop_gate`: the output pipes are taken out of the array and, in the same iteration, a
  connection arrives: on accept() in the client thread (`client_logic.cpp:245`), with a NEW_CONNECT
  in the server thread (`server_logic.cpp:176`). It is polled with the pipes absent and is not
  served, and further arrivals can be mistaken for the pipes by `connects_absence`.
- `DaemonLock_together`, `DaemonLock_other_user`: two starts at once both run, for the file of
  the first is still empty when the second reads it; a start that may not signal the running
  copy goes on to run without the file. AtMostOneRuns is therefore about copies that took the
  file, and RunnersAreOwners, which the last run refutes, about the others.

Limits the model shows and no property denies: a forced start that had to kill the old copy fails
on the file the copy could not remove (`daemon.cpp:234`, state "failed" after "restart"), and a start
of another user fails on the file of a copy that crashed (`Hindered`); a socket on `db_for_close`
stays while its far end stays and does not read; the handlers beside the gate, or a burst behind it,
can fill both pairs, and the two threads wait on each other in write(); a worker that ended on a failing poll() leaves its
pairs unread, and a thread that waits there is never freed (`StuckOnWorker`, the one way out of
`ShutdownEnds`); data for a socket that is not writable in the iteration is dropped and counted.
The return codes of pthread_create() and pthread_join() are tested the wrong way round
(`proxy_impl.cpp:598`, `865`): run() never returns success, and its result is not modelled. A stop
signal that finds main() in `finish()` leaves the file; one that finds a thread in syslog() or malloc()
at level DEBUG can leave the process hanging (`CaughtInCall`); one that comes between two
pthread_create() takes the proxy from the threads that have started. SQLPROXY_FLAG_SHOW_LICENSE, which the help text
calls the same as `-l`, is bound to the setter of show-variable (`main.cpp:354`, `SetterOf`).
get_timeout() of a negative timeout returns a large positive one (`Narrowed`), and two callers that
meet are told `Eproxy_running` although nothing runs (`Refused`). A second run() of one object finds
`end_proxy` set and ends (`RunDone`).

## 6. Not modelled

- The values of options: lexical_cast of a text, and what a port or an address means; a text it
  cannot convert ends the program.
- The address of the server in `ProxyConfig`: a string has no single write, and get_server_ip()
  returns a reference that is used after the unlock, which has no meaning while another thread sets it.
- The counters, and what the log says: nothing reads them. The result codes of the threads.
- `set_max_pipe_size` and `__set_max_pipe_size_helper`: with socket pairs, the program's default,
  they change nothing and their sizes are only compared with a count that is always 0.
- The limit of 1000 slots of `fds[]`, which the code does not look at.
- What follows a longjmp out of another thread's stack, and the second `done()` of a thread.
- A write() of the PID that fails, and in `MainFlow` a pthread_create() that fails (`ProxyRun` has it).
- Short reads and writes on the pairs: a message is smaller than a pair's buffer and is written
  in one piece; a read that finds part of one is thought not to happen.

## 7. Plan

Done: the relay with its proofs and its refinement of `SessionSpec`; `PollLoop` for both
threads, `ProxyRun`, `ProxyConfig`, `DaemonLock` and `MainFlow`, each with its proofs.

Next, in this order:

1. The sizing of the pairs for a build with pipes.
2. The composition of the two poll loops with the pairs between them.
