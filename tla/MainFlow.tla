-------------------------------- MODULE MainFlow --------------------------------
(***************************************************************************)
(* main(): the settings it reads, the daemon and the proxy it owns, and    *)
(* its ends: by return, by exit() and atexit1(), by a signal whose handler *)
(* jumps back into main() with longjmp.                                    *)
(*                                                                         *)
(* go() and run() appear by their outcomes and by the moments at which a   *)
(* signal can find them; DaemonLock and ProxyRun have their insides.       *)
(***************************************************************************)
EXTENDS Integers, Sequences, FiniteSets

CONSTANTS
    Signals,    \* the stop signals: SIGUSR1, SIGINT, SIGABRT, SIGTERM, SIGQUIT
    Logics,     \* the threads run() starts
    Starts,     \* the ways to start: an environment and a command line
    Unset

Main == "main"

Infos == {"help", "license"}     \* printed, then exit(EXIT_SUCCESS)
Flags == Infos \cup {"variable"}
Levels == {"DEBUG", "INFO", "ERROR"}

\* What getopt_long() makes of an option; "?" is one that it does not accept.
Option == [name : Flags \cup {"?"}, value : {1}] \cup [name : {"log"}, value : Levels]

\* The settings' values in the environment.
Environment == [help : {Unset, 1}, license : {Unset, 1}, log : {Unset, "DEBUG", "ERROR"}]

ASSUME MainAssumption ==
    /\ IsFiniteSet(Signals)
    /\ Main \notin Logics
    /\ Starts \subseteq Environment \X Seq(Option)
    /\ Unset # 1 /\ Unset \notin Levels

VARIABLES
    at,       \* where main() is, or how the process ended
    env,      \* the environment: a setting's value there, or Unset
    argv,     \* the options
    optind,   \* the option to read next
    config,   \* the settings
    owner,    \* daemon::owner
    file,     \* TRUE: the PID file this process made is there
    guarded,  \* the signals with a handler of ours
    threads,  \* the threads run() has started and not joined
    once,     \* atexit1_once
    begun,    \* the locals of main() whose destruction has begun: "p", "d"
    blocked,  \* <<s, t>>: s was handled on thread t, and longjmp() left it blocked there
    torn,     \* TRUE: a jump left the heap in the middle of a change
    hung,     \* <<t, call>>: a handler on thread t waits for ever; t was in call, and holds its lock
    caught,   \* ghost: where main() was when a handler ran on it
    crossed,  \* ghost: a handler jumped from another thread onto main()'s stack
    killed    \* ghost: a signal without a handler ended the process

settings == <<env, argv, optind, config>>
owned == <<owner, file, begun, threads>>
signalled == <<guarded, blocked, torn, hung, caught, crossed, killed>>
vars == <<at, settings, owned, once, signalled>>

Pipe == "SIGPIPE"
Handled == Signals \cup {Pipe}
Calm == {"environment", "options", "starting", "unguarded", "running", "waiting", "joining",
         "returned", "failed", "ending", "dropping", "finishing", "exiting"}
Stuck == {"heap_wait", "log_wait"}
Calls == {"none", "heap", "log"}   \* what a thread may be in the middle of

\* main() destroys p before d, and only a start that made the file installs handlers.
TypeOK ==
    /\ at \in Calm \cup Stuck \cup {"gone"}
    /\ optind \in 1 .. Len(argv) + 1
    /\ DOMAIN config = Flags \cup {"log"}
    /\ \A f \in Flags : config[f] \in {0, 1}
    /\ config["log"] \in Levels
    /\ guarded \subseteq Handled
    /\ blocked \subseteq guarded \X (Logics \cup {Main})
    /\ begun \in {{}, {"p"}, {"p", "d"}}
    /\ file \/ guarded # {} => owner
    /\ caught \subseteq Calm \cup Stuck
    /\ threads \subseteq Logics
    /\ hung \subseteq threads \X Calls
    /\ {owner, file, once, torn, crossed, killed} \subseteq BOOLEAN

Init ==
    /\ at = "environment"
    /\ \E start \in Starts : env = start[1] /\ argv = start[2]
    /\ optind = 1
    /\ config = [s \in Flags \cup {"log"} |-> IF s = "log" THEN "INFO" ELSE 0]
    /\ owner = FALSE /\ file = FALSE /\ threads = {} /\ begun = {}
    /\ once = FALSE
    /\ guarded = {} /\ blocked = {} /\ hung = {} /\ caught = {}
    /\ torn = FALSE /\ crossed = FALSE /\ killed = FALSE

-----------------------------------------------------------------------------
(* The settings                                                            *)

\* env_names: SQLPROXY_FLAG_SHOW_LICENSE comes with the setter of another flag.
SetterOf == [help |-> "help", license |-> "variable", log |-> "log"]

\* A setting takes the value of the variable whose setter it has, if that is set.
ReadEnvironment ==
    /\ at = "environment"
    /\ config' = [s \in DOMAIN config |->
                    IF \E name \in DOMAIN env : SetterOf[name] = s /\ env[name] # Unset
                    THEN env[CHOOSE name \in DOMAIN env : SetterOf[name] = s]
                    ELSE config[s]]
    /\ at' = "options"
    /\ UNCHANGED <<env, argv, optind, owned, once, signalled>>

\* Variant: the environment has the last word.
OptionYields ==
    LET o == argv[optind] IN
    /\ at = "options" /\ optind <= Len(argv)
    /\ optind' = optind + 1
    /\ \/ o.name = "?" /\ at' = "gone" /\ UNCHANGED config
       \/ /\ o.name # "?"
          /\ config' = [config EXCEPT ![o.name] =
                          IF o.name = "log" /\ env["log"] # Unset THEN @ ELSE o.value]
          /\ UNCHANGED at
    /\ UNCHANGED <<env, argv, owned, once, signalled>>

\* An option that is not known, or has no argument: usage() and exit(EXIT_FAILURE).
ReadOption ==
    LET o == argv[optind] IN
    /\ at = "options" /\ optind <= Len(argv)
    /\ optind' = optind + 1
    /\ \/ o.name = "?" /\ at' = "gone" /\ UNCHANGED config
       \/ o.name # "?" /\ config' = [config EXCEPT ![o.name] = o.value] /\ UNCHANGED at
    /\ UNCHANGED <<env, argv, owned, once, signalled>>

\* exit() for what is only to be printed (atexit1 is not registered yet), or on to the daemon,
\* the proxy, the level of the log, atexit() and setjmp().
Show ==
    /\ at = "options" /\ optind > Len(argv)
    /\ at' = IF \E info \in Infos : config[info] = 1 THEN "gone" ELSE "starting"
    /\ UNCHANGED <<settings, owned, once, signalled>>

\* log_ns::log::write(): what handlers and main() say at DEBUG gets through.
Verbose == config["log"] \notin {"INFO", "ERROR"}

\* Who waits for ever in a handler holds what it was in the middle of.
Hung == {w[1] : w \in hung}
Held(call) == \E w \in hung : w[2] = call

-----------------------------------------------------------------------------
(* The way up and the way down                                             *)

\* Variant: the file is made, and owner not set.
GoForgetsOwner ==
    /\ at = "starting"
    /\ \/ file' = TRUE /\ at' = "unguarded" /\ UNCHANGED owner
       \/ at' \in {"failed", "running"} /\ UNCHANGED <<owner, file>>
    /\ UNCHANGED <<settings, begun, threads, once, signalled>>

\* go() opens the file; it fails; or it is refused the other copy's number by kill(), and
\* reports success without file and handlers.
Go ==
    /\ at = "starting"
    /\ \/ owner' = TRUE /\ file' = TRUE /\ at' = "unguarded"
       \/ at' \in {"failed", "running"} /\ UNCHANGED <<owner, file>>
    /\ UNCHANGED <<settings, begun, threads, once, signalled>>

\* Variant: the failed start leaves by _exit().
DaemonFailsHard ==
    /\ at = "unguarded" /\ guarded = {}
    /\ at' = "gone"
    /\ UNCHANGED <<settings, owned, once, signalled>>

\* fork(), setsid() or chdir() fails after the file was made.
DaemonFails ==
    /\ at = "unguarded" /\ guarded = {}
    /\ at' = "failed"
    /\ UNCHANGED <<settings, owned, once, signalled>>

SetSignal(s) ==
    /\ at = "unguarded" /\ s \notin guarded
    /\ guarded' = guarded \cup {s}
    /\ UNCHANGED <<at, settings, owned, once, blocked, torn, hung, caught, crossed, killed>>

\* run(): one pthread_create() after the other.
Run ==
    \/ /\ at = "unguarded" /\ guarded = Handled
       /\ at' = "running"
       /\ UNCHANGED <<settings, owned, once, signalled>>
    \/ /\ at = "running"
       /\ \E t \in Logics \ threads : threads' = threads \cup {t}
       /\ at' = IF threads' = Logics THEN "waiting" ELSE "running"
       /\ UNCHANGED <<settings, owner, file, begun, once, signalled>>

\* Variant: run() does not wait for its threads.
JoinNotAll ==
    /\ at \in {"waiting", "joining"}
    /\ at' = "returned"
    /\ UNCHANGED <<settings, owned, once, signalled>>

\* pthread_join() of one thread after the other; main() writes to the log after each.
Join ==
    /\ at \in {"waiting", "joining"}
    /\ \E t \in threads \ Hung : threads' = threads \ {t}
    /\ at' = IF Held("log") THEN "log_wait" ELSE IF threads' = {} THEN "returned" ELSE "joining"
    /\ UNCHANGED <<settings, owner, file, begun, once, signalled>>

\* Variant: atexit1_once is left as it is.
ReturnsBare ==
    /\ at = "returned"
    /\ at' = "ending"
    /\ UNCHANGED <<settings, owned, once, signalled>>

Returns ==
    /\ at = "returned"
    /\ once' = TRUE
    /\ at' = "ending"
    /\ UNCHANGED <<settings, owned, signalled>>

\* exit() within main(): atexit1() jumps back into it.
StartupFailed ==
    /\ at = "failed"
    /\ once' = TRUE
    /\ at' = IF once THEN "gone" ELSE "ending"
    /\ UNCHANGED <<settings, owned, signalled>>

\* Where a step needs the heap: one that is held may block it, a torn one also end the process.
WithHeap(next) == at' \in {next} \cup (IF Held("heap") THEN {"heap_wait"} ELSE {})
                                 \cup (IF torn THEN {"heap_wait", "gone"} ELSE {})

\* end_program: main() says so at DEBUG and returns, and p goes first.  A shared_ptr that was being released when a
\* jump left it is not released again.
EndProgram ==
    /\ at = "ending"
    /\ \/ Held("log") /\ at' = "log_wait" /\ UNCHANGED begun
       \/ ~Held("log") /\ at' = "dropping" /\ begun' = begun \cup {"p"}
    /\ UNCHANGED <<settings, owner, file, threads, once, signalled>>

DropDaemon ==
    /\ at = "dropping"
    /\ WithHeap(IF "d" \in begun THEN "exiting" ELSE "finishing")
    /\ begun' = IF at' = "finishing" THEN begun \cup {"d"} ELSE begun
    /\ UNCHANGED <<settings, owner, file, threads, once, signalled>>

\* daemon::finish()
Finish ==
    /\ at = "finishing"
    /\ file' = (file /\ ~owner)
    /\ at' = "exiting"
    /\ UNCHANGED <<settings, owner, begun, threads, once, signalled>>

\* main() has returned: exit() runs atexit1() and destroys what is static.
ExitHandlers ==
    /\ at = "exiting"
    /\ IF once THEN WithHeap("gone") ELSE at' \in {"ending", "gone"}
    /\ once' = TRUE
    /\ UNCHANGED <<settings, owned, signalled>>

-----------------------------------------------------------------------------
(* Signals.  The system gives one to main()'s thread unless it is blocked   *)
(* there.                                                                   *)

\* What main() may be in the middle of.
CallsAt(place) ==
    CASE place \in {"unguarded", "running", "joining", "returned", "ending"} -> Calls
      [] place \in {"dropping", "exiting"} -> {"none", "heap"}
      [] place = "heap_wait" -> {"heap"}
      [] place = "log_wait" -> {"log"}
      [] OTHER -> {"none"}

\* longjmp() to end_program.  Onto a frame that is gone, or across threads, it is undefined: main()
\* goes on there, or the process ends.
Lands(safe) == IF safe THEN {"ending"} ELSE {"ending", "gone"}

\* At DEBUG a handler writes to the log.  It waits for the log that its own thread is in, or
\* that another one holds for ever; it may have to wait for the heap in the same way.
WaitsForLog(call) == Verbose /\ (call = "log" \/ Held("log"))
WaitsForHeap(call) == Verbose /\ (call = "heap" \/ Held("heap") \/ torn)

Default(s) ==
    /\ at # "gone" /\ s \notin guarded
    /\ at' = "gone"
    /\ killed' = TRUE
    /\ UNCHANGED <<settings, owned, once, guarded, blocked, torn, hung, caught, crossed>>

\* Variant: the handler of a stop signal only writes to the log.
CaughtOnlyLogged(s) ==
    /\ at # "gone" /\ s \in guarded /\ <<s, Main>> \notin blocked
    /\ blocked' = blocked \cup {<<s, Main>>}
    /\ caught' = caught \cup {at}
    /\ UNCHANGED <<at, settings, owned, once, guarded, torn, hung, crossed, killed>>

\* A handler and program_exit(), on main()'s thread.
Caught(s) ==
    /\ at # "gone" /\ s \in guarded /\ <<s, Main>> \notin blocked
    /\ blocked' = blocked \cup {<<s, Main>>}
    /\ caught' = caught \cup {at}
    /\ \E call \in CallsAt(at) :
          \/ WaitsForLog(call) /\ at' = "log_wait" /\ UNCHANGED <<once, torn>>
          \/ ~WaitsForLog(call) /\ WaitsForHeap(call) /\ at' = "heap_wait" /\ UNCHANGED <<once, torn>>
          \/ /\ ~WaitsForLog(call)
             /\ once' = TRUE
             /\ torn' = (torn \/ call = "heap")
             /\ at' \in Lands(~("d" \in begun /\ at \in {"exiting", "heap_wait"}))
    /\ UNCHANGED <<settings, owned, guarded, hung, crossed, killed>>

\* The same on a thread of run().  One that waits in a handler already would only wait again.
Across(s, t, calls) ==
    /\ at # "gone" /\ t \in threads \ Hung /\ s \in guarded /\ <<s, t>> \notin blocked
    /\ blocked' = blocked \cup {<<s, t>>}
    /\ \E call \in calls :
          \/ /\ WaitsForLog(call) \/ WaitsForHeap(call)
             /\ hung' = hung \cup {<<t, call>>}
             /\ UNCHANGED <<at, once, torn, crossed>>
          \/ /\ ~WaitsForLog(call)
             /\ crossed' = TRUE
             /\ once' = TRUE
             /\ torn' = (torn \/ call = "heap")
             /\ at' \in Lands(FALSE)
             /\ UNCHANGED hung
    /\ UNCHANGED <<settings, owned, guarded, caught, killed>>

Deliver(s) ==
    \/ Default(s)
    \/ Caught(s)
    \/ (<<s, Main>> \in blocked /\ \E t \in Logics : Across(s, t, Calls))

\* A thread sends to a closed socket: it is in send() or write() when the signal comes.
BrokenPipe(t) == Across(Pipe, t, {"none"}) \/ (t \in threads \ Hung /\ Default(Pipe))

\* SIGSEGV in a thread that goes on without its proxy.
ThreadFaults ==
    /\ threads \ Hung # {} /\ begun # {} /\ at # "gone"
    /\ at' = "gone"
    /\ killed' = TRUE
    /\ UNCHANGED <<settings, owned, once, guarded, blocked, torn, hung, caught, crossed>>

-----------------------------------------------------------------------------
Ends == Returns \/ StartupFailed \/ EndProgram \/ DropDaemon \/ Finish \/ ExitHandlers

Next ==
    \/ ReadEnvironment \/ ReadOption \/ Show
    \/ Go \/ DaemonFails \/ Run \/ Join
    \/ \E s \in Handled : SetSignal(s)
    \/ Ends
    \/ \E s \in Signals : Deliver(s)
    \/ \E t \in Logics : BrokenPipe(t)
    \/ ThreadFaults

\* The system schedules main() while nothing holds it.
Fairness == WF_vars(Ends)

Spec == Init /\ [][Next]_vars /\ Fairness

-----------------------------------------------------------------------------
(* Properties                                                              *)

Serves == at \notin {"environment", "options", "gone"}
LastLog == {i \in DOMAIN argv : /\ argv[i].name = "log"
                                /\ \A j \in i + 1 .. Len(argv) : argv[j].name # "log"}

\* What main() works with is the last option, else the environment, else the built-in value; who
\* asked for help in either way, or for the license by option, or gave an option that is not
\* known, starts nothing.
\* (main(), env_names, longopts)
CommandLineWins ==
    Serves =>
        /\ \A i \in DOMAIN argv : argv[i].name \notin Infos \cup {"?"}
        /\ env["help"] # 1
        /\ \A i \in LastLog : config["log"] = argv[i].value
        /\ LastLog = {} => config["log"] = IF env["log"] = Unset THEN "INFO" ELSE env["log"]

\* The file a process made outlives it only if a signal without a handler ended it (SIGKILL, a
\* fault of a thread without its proxy), a handled one caught main() in the destructor that
\* removes the file or in the heap, or a handler jumped from another thread.
\* (main(), ~daemon(), program_exit())
FileLeftExplained ==
    at = "gone" /\ file =>
        killed \/ "finishing" \in caught \/ torn \/ crossed

\* When exit() runs atexit1() after main() has returned, no jump into main() follows.
\* (atexit1_once)
NoJumpAfterMain == at = "exiting" => once

\* The proxy is destroyed under its threads only if a handler took main() out of run().
\* (main(), proxy_impl::run())
ProxyOutlivesThreads ==
    threads # {} /\ "p" \in begun =>
        crossed \/ caught \cap {"running", "waiting", "joining"} # {}

\* A stop signal that main() takes ends the process, wherever it finds main() and whatever other
\* signals come, at every level of the log.  Main() is left waiting only for a heap that a jump
\* has torn or, at DEBUG, for the log or the heap, when a signal has found a thread in them.
\* (sig_handler_*, program_exit())
CaughtInCall == hung # {} \/ \E place \in caught : CallsAt(place) # {"none"}
StopSignalEnds ==
    caught # {} ~> (at = "gone" \/ (at \in Stuck /\ (torn \/ (Verbose /\ CaughtInCall))))

=============================================================================
