------------------------------ MODULE DaemonLock ------------------------------
(***************************************************************************)
(* Starting the program: daemon::go() and the PID file that keeps a second *)
(* copy from running, and daemon::finish(), which removes it.              *)
(*                                                                         *)
(* A process stands for one start of the program, from the first open() of *)
(* the file on: the two fork()s leave one child that goes on, and it is    *)
(* its number that is written.  The file under the path is named by the    *)
(* process that created it; so is the number it holds, once written.  A    *)
(* step is one system call on the file or on another process.              *)
(***************************************************************************)
EXTENDS Integers, FiniteSets

CONSTANTS
    Procs,      \* the starts of the program
    Forced,     \* those with --force
    Denied,     \* <<p, q>>: p may not signal q, which runs for another user
    Hindered,   \* those whose calls on the file may be refused: another user's directory or
                \* file, no descriptor or no memory left.  What p created it may also remove.
    OneAtATime, \* TRUE: no start begins while another one is under way
    Nobody

ASSUME LockAssumption ==
    /\ IsFiniteSet(Procs)
    /\ Forced \subseteq Procs
    /\ Denied \subseteq Procs \X Procs
    /\ Hindered \subseteq Procs
    /\ OneAtATime \in BOOLEAN
    /\ Nobody \notin Procs

VARIABLES
    at,       \* the next step of a process
    lock,     \* the file under DEFAULT_LOCK_PID_PATH: who created it, or Nobody
    written,  \* the processes that have written their number into their file
    found,    \* the file a process opened for reading, then the number it read there
    owner,    \* the processes with owner = true
    strangers,\* numbers of ended processes that the system has given to other programs
    lone      \* ghost: the processes that began when no other one was alive

vars == <<at, lock, written, found, owner, strangers, lone>>

Starting == {"create", "open", "read", "probe", "unlink", "again", "wait", "restart",
             "created", "unguarded", "aborting"}
Serving == {"running", "bare"}
Ended == {"off", "gone", "failed"}
Step == Starting \cup Serving \cup Ended \cup {"finishing"}

\* The file and the numbers are those of starts of the program, and a start that reads or
\* probes has found a file to read.
TypeOK ==
    /\ at \in [Procs -> Step]
    /\ lock \in Procs \cup {Nobody}
    /\ written \subseteq Procs
    /\ found \in [Procs -> Procs \cup {Nobody}]
    /\ owner \subseteq Procs
    /\ strangers \subseteq Procs
    /\ lone \subseteq Procs
    /\ \A p \in Procs : at[p] \in {"read", "probe", "wait", "restart"} => found[p] # Nobody

Init ==
    /\ at = [p \in Procs |-> "off"]
    /\ lock = Nobody
    /\ written = {}
    /\ found = [p \in Procs |-> Nobody]
    /\ owner = {}
    /\ strangers = {}
    /\ lone = {}

Alive(p) == at[p] \notin Ended

\* kill(pid, 0) finds a process.
PidTaken(p) == Alive(p) \/ p \in strangers

GoTo(p, step) == at' = [at EXCEPT ![p] = step]

-----------------------------------------------------------------------------
(* daemon::go()                                                            *)

Begin(p) ==
    /\ at[p] = "off"
    /\ OneAtATime => \A q \in Procs : at[q] \notin Starting
    /\ GoTo(p, "create")
    /\ lone' = IF \E q \in Procs : Alive(q) THEN lone ELSE lone \cup {p}
    /\ UNCHANGED <<lock, written, found, owner, strangers>>

\* open(O_CREAT | O_EXCL)
TakesLock(p) ==
    /\ lock = Nobody
    /\ lock' = p
    /\ owner' = owner \cup {p}
    /\ GoTo(p, "created")

\* A call that needs a file under the path, or none, fails for want of it or is refused.
Fails(p, missing) == missing \/ p \in Hindered

\* Whatever made the first open() fail, the next one is for reading.
Create(p) ==
    /\ at[p] = "create"
    /\ \/ TakesLock(p)
       \/ Fails(p, lock # Nobody) /\ GoTo(p, "open") /\ UNCHANGED <<lock, owner>>
    /\ UNCHANGED <<written, found, strangers, lone>>

\* Variant: the result of open() is not looked at.
OpenUnchecked(p) ==
    /\ at[p] = "open"
    /\ GoTo(p, "read")
    /\ found' = [found EXCEPT ![p] = lock]
    /\ UNCHANGED <<lock, written, owner, strangers, lone>>

Open(p) ==
    /\ at[p] = "open"
    /\ \/ Fails(p, lock = Nobody) /\ GoTo(p, "failed") /\ UNCHANGED found
       \/ lock # Nobody /\ GoTo(p, "read") /\ found' = [found EXCEPT ![p] = lock]
    /\ UNCHANGED <<lock, written, owner, strangers, lone>>

\* Variant: a file without a number is left where it is.
ReadKeepsEmpty(p) ==
    /\ at[p] = "read"
    /\ GoTo(p, IF found[p] \in written THEN "probe" ELSE "again")
    /\ UNCHANGED <<lock, written, found, owner, strangers, lone>>

\* A file without a number is taken for the remains of a crash; read() may fail.
Read(p) ==
    /\ at[p] = "read"
    /\ \/ GoTo(p, IF found[p] \in written THEN "probe" ELSE "unlink")
       \/ Fails(p, FALSE) /\ GoTo(p, "failed")
    /\ UNCHANGED <<lock, written, found, owner, strangers, lone>>

\* SIGUSR1: without a handler it ends the process; the handler leaves go() by longjmp, on
\* whichever thread it runs.
Interrupted(q) ==
    IF at[q] = "unguarded" THEN {"gone"}
    ELSE IF at[q] \in {"running", "finishing"} THEN {"finishing", "gone"}
    ELSE {at[q]}

\* Variant: the branch for a copy that runs does not leave go().
ProbeGoesOn(p) ==
    /\ at[p] = "probe"
    /\ GoTo(p, "unlink")
    /\ UNCHANGED <<lock, written, found, owner, strangers, lone>>

Probe(p) ==
    LET q == found[p] IN
    /\ at[p] = "probe"
    /\ \/ ~PidTaken(q) /\ GoTo(p, "unlink")
       \/ PidTaken(q) /\ <<p, q>> \in Denied /\ GoTo(p, "bare")   \* go() returns RES_NO_ERROR
       \/ PidTaken(q) /\ <<p, q>> \notin Denied /\ p \notin Forced /\ GoTo(p, "failed")
       \/ /\ PidTaken(q) /\ <<p, q>> \notin Denied /\ p \in Forced
          /\ \E step \in Interrupted(q) : at' = [at EXCEPT ![q] = step, ![p] = "wait"]
    /\ UNCHANGED <<lock, written, found, owner, strangers, lone>>

\* Two seconds at most, then SIGKILL.
Wait(p) ==
    LET q == found[p] IN
    /\ at[p] = "wait"
    /\ \/ ~PidTaken(q) /\ GoTo(p, "restart")
       \/ /\ PidTaken(q)
          /\ at' = [at EXCEPT ![q] = IF Alive(q) THEN "gone" ELSE @, ![p] = "restart"]
    /\ UNCHANGED <<lock, written, found, owner, strangers, lone>>

Unlink(p) ==
    /\ at[p] = "unlink"
    /\ \/ lock # Nobody /\ lock' = Nobody /\ GoTo(p, "again")
       \/ Fails(p, lock = Nobody) /\ GoTo(p, "failed") /\ UNCHANGED lock
    /\ UNCHANGED <<written, found, owner, strangers, lone>>

CreateAgain(p) ==
    /\ at[p] \in {"again", "restart"}
    /\ \/ TakesLock(p)
       \/ Fails(p, lock # Nobody) /\ GoTo(p, "failed") /\ UNCHANGED <<lock, owner>>
    /\ UNCHANGED <<written, found, strangers, lone>>

\* fork(), setsid(), chdir() or setpgrp() fails: main() ends, with owner = true.
Abort(p) ==
    /\ at[p] = "created"
    /\ GoTo(p, "aborting")
    /\ UNCHANGED <<lock, written, found, owner, strangers, lone>>

WritePid(p) ==
    /\ at[p] = "created"
    /\ written' = written \cup {p}
    /\ GoTo(p, "unguarded")
    /\ UNCHANGED <<lock, found, owner, strangers, lone>>

SetSignals(p) ==
    /\ at[p] = "unguarded"
    /\ GoTo(p, "running")
    /\ UNCHANGED <<lock, written, found, owner, strangers, lone>>

-----------------------------------------------------------------------------
(* The end of a process.                                                   *)

\* proxy_impl::run() returns, or a signal handler calls program_exit.
Stop(p) ==
    /\ at[p] \in Serving
    /\ GoTo(p, "finishing")
    /\ UNCHANGED <<lock, written, found, owner, strangers, lone>>

\* Variant: owner is not asked.
FinishUnasked(p) ==
    /\ at[p] \in {"aborting", "finishing"}
    /\ lock' = Nobody
    /\ GoTo(p, "gone")
    /\ UNCHANGED <<written, found, owner, strangers, lone>>

\* daemon::finish()
Finish(p) ==
    /\ at[p] \in {"aborting", "finishing"}
    /\ lock' = IF p \in owner THEN Nobody ELSE lock
    /\ GoTo(p, "gone")
    /\ UNCHANGED <<written, found, owner, strangers, lone>>

\* SIGKILL, a fault, or a signal whose handler is not set yet.
Crash(p) ==
    /\ Alive(p)
    /\ GoTo(p, "gone")
    /\ UNCHANGED <<lock, written, found, owner, strangers, lone>>

\* The system gives the number of an ended process to another program.
PidReused(p) ==
    /\ at[p] = "gone"
    /\ strangers' = strangers \cup {p}
    /\ UNCHANGED <<at, lock, written, found, owner, lone>>

Next == \E p \in Procs :
    \/ Begin(p) \/ Create(p) \/ Open(p) \/ Read(p) \/ Probe(p) \/ Wait(p) \/ Unlink(p)
    \/ CreateAgain(p) \/ Abort(p) \/ WritePid(p) \/ SetSignals(p)
    \/ Stop(p) \/ Finish(p) \/ Crash(p) \/ PidReused(p)

Spec == Init /\ [][Next]_vars

-----------------------------------------------------------------------------
\* The steps at which a process that created the file has the lock.
HolderSteps == {"created", "unguarded", "aborting", "running", "finishing"}
Holds(p) == p \in owner /\ at[p] \in HolderSteps

Runs(p) == p \in owner /\ at[p] \in Serving

\* No two copies of the program run at a time, each after it created the file: a start that
\* finds a copy running does not come to create it (go() says "already running").
AtMostOneRuns == \A p, q \in Procs : Runs(p) /\ Runs(q) => p = q

\* While a copy runs, or is on its way to, the file under the path is its own: no start and
\* no end of another process has removed or replaced it, and the next start will find it.
RunnerHoldsLock == \A p \in Procs : Holds(p) => lock = p

\* A start that meets no living process, and whose calls on the file the system does not
\* refuse, does not fail, whatever a crash or a refused start has left behind, unless the
\* number in the file is that of another program by now.
LoneStartSucceeds == \A p \in lone \ Hindered : at[p] = "failed" => found[p] \in strangers

\* A copy that runs has the lock.
RunnersAreOwners == \A p \in Procs : at[p] \in Serving => p \in owner

-----------------------------------------------------------------------------
(* Why the lock excludes, when starts take turns: the inductive invariant. *)

OneStarts == \A p, q \in Procs : at[p] \in Starting /\ at[q] \in Starting => p = q

\* Only a start that could not signal the running copy goes on without the file.
HoldersOwn ==
    \A p \in Procs : /\ at[p] \in {"created", "unguarded", "running"} => p \in owner
                     /\ at[p] \in {"create", "open", "read", "probe", "unlink", "again",
                                  "wait", "restart", "bare", "off"} => p \notin owner

HoldersAreWritten ==
    \A p \in owner : at[p] \in {"unguarded", "running", "finishing"} => p \in written

\* What a start has read is the number of whoever holds the lock, if anybody does; once it
\* has come to unlink(), nobody does.
FindsTheHolder ==
    \A p, q \in Procs :
        Holds(q) => /\ at[p] \in {"read", "probe"} => found[p] = q
                    /\ at[p] # "unlink"

LockInv == OneStarts /\ HoldersOwn /\ HoldersAreWritten /\ FindsTheHolder /\ RunnerHoldsLock

-----------------------------------------------------------------------------
(* Why a start that meets nobody succeeds, when starts take turns.         *)

\* The file under the path was created by a process that knows it has done so.
LockHasOwner == lock # Nobody => lock \in owner

\* Until such a start is over there is no other process, and what it has seen of the file, if
\* nothing is refused to it, is still so: there is one to open or to remove, of an ended process,
\* or there is none.
LoneStartIsAlone ==
    \A p \in lone \ Hindered :
        /\ at[p] # "off"
        /\ at[p] \in Starting => \A q \in Procs \ {p} : at[q] \in Ended
        /\ at[p] \in {"open", "read", "probe", "unlink"} => lock # Nobody
        /\ at[p] = "again" => lock = Nobody
        /\ at[p] \in {"read", "probe"} => found[p] # p
        /\ at[p] \in {"wait", "restart"} => found[p] \in strangers

LoneInv == LockHasOwner /\ LoneStartIsAlone /\ LoneStartSucceeds

=============================================================================
