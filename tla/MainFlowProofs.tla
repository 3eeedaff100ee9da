---------------------------- MODULE MainFlowProofs ----------------------------
(***************************************************************************)
(* What main() holds to, whatever signals come, on whichever thread, at    *)
(* whatever moment: the settings it works with, the order of its ends, and *)
(* who may be blamed for a PID file or a thread that is left behind.       *)
(***************************************************************************)
EXTENDS MainFlow, TLAPS

\* main() has not begun to read what it was started with, is at it, or is on its way up: no
\* handler is there to take it away.
Reading == {"environment", "options"}
Up == {"starting", "unguarded", "running", "waiting", "joining", "returned", "failed"}
Down == {"ending", "dropping", "finishing", "exiting"}

\* The settings after the environment and the first n options have been read.
Settled(n) ==
    /\ \A i \in 1 .. n : argv[i].name # "?"
    /\ \A i \in 1 .. n : argv[i].name \in Infos => config[argv[i].name] = 1
    /\ env["help"] = 1 => config["help"] = 1
    /\ \A i \in 1 .. n :
         argv[i].name = "log" /\ (\A j \in i + 1 .. n : argv[j].name # "log")
            => config["log"] = argv[i].value
    /\ \/ \E i \in 1 .. n : argv[i].name = "log" /\ \A j \in i + 1 .. n : argv[j].name # "log"
       \/ \A i \in 1 .. n : argv[i].name # "log"
    /\ (\A i \in 1 .. n : argv[i].name # "log")
            => config["log"] = IF env["log"] = Unset THEN "INFO" ELSE env["log"]

StartInv ==
    /\ env \in Environment
    /\ argv \in Seq(Option)
    /\ at = "environment" => /\ optind = 1
                             /\ config = [s \in Flags \cup {"log"} |-> IF s = "log" THEN "INFO" ELSE 0]
    /\ at = "options" => Settled(optind - 1)
    /\ at \notin Reading \cup {"gone"} =>
         /\ Settled(Len(argv))
         /\ \A info \in Infos : config[info] # 1
    /\ at \in Reading => guarded = {} /\ threads = {} /\ ~file

\* Up to the end of run() nothing has been taken down; below it atexit1() is disarmed.
WayInv ==
    /\ at \in Reading \cup Up => begun = {} /\ ~once
    /\ at \in Down => once
    /\ at = "unguarded" => owner
    /\ at \in {"starting", "failed"} /\ file => owner
    /\ at = "dropping" => "p" \in begun
    /\ at \in {"finishing", "exiting"} => "d" \in begun

\* Who may be blamed for a file that is still there when the daemon's destructor has begun.
Explained == killed \/ "finishing" \in caught \/ torn \/ crossed
FileInv ==
    /\ "d" \in begun /\ file /\ at # "finishing" => Explained
    /\ at = "gone" /\ file => Explained

\* Who may be blamed for threads that are there when main() is not in run(), and at which level
\* of the log a handler, or main() after it, can wait for ever.
LeftRun == crossed \/ caught \cap {"running", "waiting", "joining"} # {}
ThreadInv ==
    /\ threads # {} => at \in {"running", "waiting", "joining", "log_wait", "gone"} \/ LeftRun
    /\ threads # {} /\ begun # {} => LeftRun
    /\ hung # {} \/ at = "log_wait" => Verbose

FlowInv == TypeOK /\ StartInv /\ WayInv /\ FileInv /\ ThreadInv

-----------------------------------------------------------------------------
\* TypeOK, in the parts that a step disturbs together.
Places ==
    /\ at \in Calm \cup Stuck \cup {"gone"}
    /\ begun \in {{}, {"p"}, {"p", "d"}}
    /\ caught \subseteq Calm \cup Stuck
Settings ==
    /\ optind \in 1 .. Len(argv) + 1
    /\ DOMAIN config = Flags \cup {"log"}
    /\ \A f \in Flags : config[f] \in {0, 1}
    /\ config["log"] \in Levels
Handlers ==
    /\ guarded \subseteq Handled
    /\ blocked \subseteq guarded \X (Logics \cup {Main})
    /\ file \/ guarded # {} => owner
Switches ==
    /\ owner \in BOOLEAN /\ file \in BOOLEAN /\ once \in BOOLEAN
    /\ torn \in BOOLEAN /\ crossed \in BOOLEAN /\ killed \in BOOLEAN
Crew ==
    /\ threads \subseteq Logics
    /\ hung \subseteq threads \X Calls

LEMMA TypeParts == TypeOK <=> Places /\ Settings /\ Handlers /\ Switches /\ Crew
  BY DEF TypeOK, Places, Settings, Handlers, Switches, Crew

LEMMA FlowInit == Init => FlowInv
<1> SUFFICES ASSUME Init PROVE FlowInv
  OBVIOUS
<1> USE MainAssumption DEF Init
<1>1. argv \in Seq(Option) /\ Len(argv) \in Nat
  OBVIOUS
<1>2. TypeOK
  <2>1. Places /\ Switches /\ Crew
    BY DEF Places, Switches, Crew, Calm
  <2>2. Settings /\ Handlers
    BY <1>1 DEF Settings, Handlers, Flags, Infos, Levels
  <2> QED
    BY <2>1, <2>2, TypeParts
<1>3. StartInv
  <2>1. env \in Environment /\ argv \in Seq(Option)
    OBVIOUS
  <2> QED
    BY <1>1, <2>1 DEF StartInv, Reading
<1>4. WayInv /\ FileInv /\ ThreadInv
  BY DEF WayInv, FileInv, ThreadInv, Reading, Up, Down
<1> QED
  BY <1>2, <1>3, <1>4 DEF FlowInv

\* What the environment has: who sets what is decided by SetterOf alone.
LEMMA SettersDiffer ==
  ASSUME StartInv
  PROVE  /\ DOMAIN env = {"help", "license", "log"}
         /\ \A name \in DOMAIN env : SetterOf[name] = "help" <=> name = "help"
         /\ \A name \in DOMAIN env : SetterOf[name] = "variable" <=> name = "license"
         /\ \A name \in DOMAIN env : SetterOf[name] = "log" <=> name = "log"
         /\ \A name \in DOMAIN env : SetterOf[name] # "license"
  BY DEF StartInv, SetterOf, Environment

LEMMA NobodyYet ==
  ASSUME FlowInv, at \in Reading
  PROVE  threads = {} /\ hung = {}
<1>1. threads = {} /\ Crew
  BY TypeParts DEF FlowInv, StartInv
<1> QED
  BY <1>1 DEF Crew

LEMMA EnvironmentStep == ASSUME FlowInv, ReadEnvironment PROVE FlowInv'
<1> USE MainAssumption
<1> DEFINE Of(s) == CHOOSE name \in DOMAIN env : SetterOf[name] = s
           Given(s) == \E name \in DOMAIN env : SetterOf[name] = s /\ env[name] # Unset
<1>1. StartInv /\ TypeOK /\ at = "environment" /\ optind = 1 /\ UNCHANGED <<env, argv, optind>>
  BY DEF ReadEnvironment, FlowInv, StartInv
<1>2. /\ config' = [s \in DOMAIN config |-> IF Given(s) THEN env[Of(s)] ELSE config[s]]
      /\ DOMAIN config = Flags \cup {"log"}
  BY <1>1 DEF ReadEnvironment, TypeOK
<1>3. Of("help") = "help" /\ Of("log") = "log" /\ Of("variable") = "license" /\ ~Given("license")
  BY <1>1, SettersDiffer
<1>4. /\ Given("help") <=> env["help"] # Unset
      /\ Given("log") <=> env["log"] # Unset
      /\ Given("variable") <=> env["license"] # Unset
  BY <1>1, SettersDiffer
<1>5. /\ config["help"] = 0 /\ config["license"] = 0 /\ config["variable"] = 0 /\ config["log"] = "INFO"
      /\ env["help"] \in {Unset, 1} /\ env["license"] \in {Unset, 1}
      /\ env["log"] \in {Unset, "DEBUG", "ERROR"}
  BY <1>1 DEF StartInv, Environment, Flags, Infos
<1> HIDE DEF Of, Given
<1>6. /\ config'["help"] = IF env["help"] # Unset THEN 1 ELSE 0
      /\ config'["license"] = 0
      /\ config'["variable"] \in {0, 1}
      /\ config'["log"] = IF env["log"] = Unset THEN "INFO" ELSE env["log"]
  BY <1>2, <1>3, <1>4, <1>5 DEF Flags, Infos
<1>7. TypeOK'
  BY <1>1, <1>2, <1>5, <1>6 DEF TypeOK, ReadEnvironment, owned, signalled, Calm, Stuck, Flags, Infos, Levels
<1>8. StartInv'
  <2>1. at' = "options" /\ optind' - 1 = 0 /\ 1 .. 0 = {}
    BY <1>1 DEF ReadEnvironment
  <2>2. Settled(0)'
    BY <1>1, <1>6, <2>1 DEF Settled
  <2> QED
    BY <1>1, <2>1, <2>2 DEF StartInv, Reading, ReadEnvironment, owned, signalled
<1>9. WayInv' /\ FileInv'
  BY DEF ReadEnvironment, owned, signalled, FlowInv, StartInv, WayInv, FileInv, Explained,
     Reading, Up, Down
<1>10. ThreadInv'
  <2>1. at \in Reading /\ UNCHANGED <<threads, hung>> /\ at' # "log_wait"
    BY <1>1 DEF ReadEnvironment, Reading, owned, signalled
  <2> QED
    BY <2>1, NobodyYet DEF ThreadInv
<1> QED
  BY <1>7, <1>8, <1>9, <1>10 DEF FlowInv

LEMMA OptionStep == ASSUME FlowInv, ReadOption PROVE FlowInv'
<1> USE MainAssumption
<1> DEFINE n == optind
           o == argv[n]
<1>1. /\ StartInv /\ TypeOK /\ at = "options" /\ argv \in Seq(Option) /\ Len(argv) \in Nat
      /\ UNCHANGED <<env, argv>> /\ n \in 1 .. Len(argv) /\ optind' = n + 1 /\ o \in Option
  BY DEF ReadOption, FlowInv, StartInv, TypeOK
<1>2. Settled(n - 1)
  BY <1>1 DEF StartInv
<1>3. TypeOK'
  <2>1. CASE o.name = "?"
    BY <1>1, <2>1 DEF TypeOK, ReadOption, owned, signalled, Calm, Stuck
  <2>2. CASE o.name # "?"
    <3>1. /\ (o.name \in Flags /\ o.value = 1) \/ (o.name = "log" /\ o.value \in Levels)
          /\ config' = [config EXCEPT ![o.name] = o.value]
      BY <1>1, <2>2 DEF ReadOption, Option
    <3> QED
      BY <1>1, <2>2, <3>1 DEF TypeOK, ReadOption, owned, signalled, Calm, Stuck, Flags, Infos
  <2> QED
    BY <2>1, <2>2
<1>4. StartInv'
  <2>1. CASE o.name = "?"
    BY <1>1, <2>1 DEF StartInv, ReadOption, Reading
  <2>2. CASE o.name # "?"
    <3>1. /\ (o.name \in Flags /\ o.value = 1) \/ (o.name = "log" /\ o.value \in Levels)
          /\ config' = [config EXCEPT ![o.name] = o.value]
          /\ at' = "options" /\ DOMAIN config = Flags \cup {"log"}
      BY <1>1, <2>2 DEF ReadOption, Option, TypeOK
    <3>2. \A s \in Flags \cup {"log"} : config'[s] = IF s = o.name THEN o.value ELSE config[s]
      BY <3>1
    <3>3. 1 .. n = (1 .. n - 1) \cup {n} /\ optind' - 1 = n /\ n \in Nat
      BY <1>1
    <3>4. ASSUME NEW i \in 1 .. n, argv[i].name \in Infos PROVE config'[argv[i].name] = 1
      <4>1. argv[i].name \in Flags
        BY <3>4 DEF Flags
      <4>2. CASE i = n
        BY <3>1, <3>2, <4>1, <4>2, <3>4 DEF Infos
      <4>3. CASE i \in 1 .. n - 1
        <5>1. config[argv[i].name] = 1
          BY <1>2, <3>4, <4>3 DEF Settled
        <5>2. argv[i].name # "log"
          BY <3>4 DEF Infos
        <5> QED
          BY <3>1, <3>2, <4>1, <5>1, <5>2
      <4> QED
        BY <3>3, <4>2, <4>3
    <3>5. env["help"] = 1 => config'["help"] = 1
      BY <1>2, <3>1, <3>2 DEF Settled, Flags, Infos
    <3>6. ASSUME NEW i \in 1 .. n, argv[i].name = "log", \A j \in i + 1 .. n : argv[j].name # "log"
          PROVE  config'["log"] = argv[i].value
      <4>1. CASE i = n
        BY <3>1, <3>2, <3>6, <4>1
      <4>2. CASE i \in 1 .. n - 1
        <5>1. o.name # "log"
          BY <3>6, <3>3, <4>2
        <5>2. \A j \in i + 1 .. n - 1 : argv[j].name # "log"
          BY <3>6, <3>3, <4>2
        <5>3. config["log"] = argv[i].value
          BY <1>2, <3>6, <4>2, <5>2 DEF Settled
        <5> QED
          BY <3>2, <5>1, <5>3
      <4> QED
        BY <3>3, <4>1, <4>2
    <3>7. ASSUME \A i \in 1 .. n : argv[i].name # "log"
          PROVE  config'["log"] = IF env["log"] = Unset THEN "INFO" ELSE env["log"]
      <4>1. o.name # "log" /\ \A i \in 1 .. n - 1 : argv[i].name # "log"
        BY <3>7, <3>3
      <4> QED
        BY <1>2, <3>2, <4>1 DEF Settled
    <3>8. \A i \in 1 .. n : argv[i].name # "?"
      BY <1>2, <2>2, <3>3 DEF Settled
    <3>9. \/ \E i \in 1 .. n : argv[i].name = "log" /\ \A j \in i + 1 .. n : argv[j].name # "log"
          \/ \A i \in 1 .. n : argv[i].name # "log"
      <4>1. CASE o.name = "log"
        BY <3>3, <4>1
      <4>2. CASE o.name # "log"
        <5>1. CASE \A i \in 1 .. n - 1 : argv[i].name # "log"
          BY <3>3, <4>2, <5>1
        <5>2. ASSUME NEW i \in 1 .. n - 1, argv[i].name = "log",
                     \A j \in i + 1 .. n - 1 : argv[j].name # "log"
              PROVE  \A j \in i + 1 .. n : argv[j].name # "log"
          BY <3>3, <4>2, <5>2
        <5> QED
          BY <1>2, <3>3, <5>1, <5>2 DEF Settled
      <4> QED
        BY <4>1, <4>2
    <3>10. Settled(optind - 1)'
      BY <1>1, <3>3, <3>4, <3>5, <3>6, <3>7, <3>8, <3>9 DEF Settled
    <3> QED
      BY <1>1, <3>1, <3>10 DEF StartInv, ReadOption, Reading, owned, signalled
  <2> QED
    BY <2>1, <2>2
<1>5. WayInv' /\ FileInv'
  BY DEF ReadOption, owned, signalled, FlowInv, StartInv, WayInv, FileInv, Explained,
     Reading, Up, Down
<1>6. ThreadInv'
  <2>1. at \in Reading /\ UNCHANGED <<threads, hung>> /\ at' # "log_wait"
    BY <1>1 DEF ReadOption, Reading, owned, signalled
  <2> QED
    BY <2>1, NobodyYet DEF ThreadInv
<1> QED
  BY <1>3, <1>4, <1>5, <1>6 DEF FlowInv

LEMMA ShowStep == ASSUME FlowInv, Show PROVE FlowInv'
<1> USE MainAssumption
<1>1. /\ at = "options" /\ optind - 1 = Len(argv) /\ UNCHANGED settings /\ at' \in {"gone", "starting"}
      /\ at' = "starting" => \A info \in Infos : config[info] # 1
  BY DEF Show, FlowInv, TypeOK, StartInv
<1>2. TypeOK'
  BY <1>1 DEF Show, FlowInv, TypeOK, settings, owned, signalled, Calm, Stuck
<1>3. Settled(Len(argv))
  BY <1>1 DEF FlowInv, StartInv
<1>4. StartInv'
  BY <1>1, <1>3 DEF FlowInv, StartInv, Settled, settings, Reading
<1>5. WayInv' /\ FileInv'
  BY <1>1 DEF Show, owned, signalled, FlowInv, StartInv, WayInv, FileInv, Explained,
     Reading, Up, Down
<1>6. ThreadInv'
  <2>1. at \in Reading /\ UNCHANGED <<threads, hung>> /\ at' # "log_wait"
    BY <1>1 DEF Show, Reading, owned, signalled
  <2> QED
    BY <2>1, NobodyYet DEF ThreadInv
<1> QED
  BY <1>2, <1>4, <1>5, <1>6 DEF FlowInv

\* Once the settings are read, they stay.
LEMMA SettingsStay ==
  ASSUME FlowInv, UNCHANGED settings, at \notin Reading, at' \notin Reading,
         at = "gone" => at' = "gone"
  PROVE  StartInv'
  BY DEF FlowInv, StartInv, Settled, settings, Reading

LEMMA UpStep ==
  ASSUME FlowInv,
         Go \/ DaemonFails \/ Run \/ Join \/ \E s \in Handled : SetSignal(s)
  PROVE  FlowInv'
<1> USE DEF Go, DaemonFails, Run, Join, SetSignal
<1>1. StartInv'
  BY SettingsStay DEF settings, Reading
<1>2. TypeOK'
  <2>1. Places /\ Settings /\ Handlers /\ Switches /\ Crew
    BY TypeParts DEF FlowInv
  <2>2. Places'
    BY <2>1 DEF Places, owned, signalled, Calm, Stuck
  <2>3. Settings'
    BY <2>1 DEF Settings, settings
  <2>4. Handlers'
    BY <2>1 DEF Handlers, FlowInv, WayInv, owned, signalled
  <2>5. Switches'
    BY <2>1 DEF Switches, owned, signalled
  <2>6. Crew'
    <3>1. hung' = hung
      BY DEF signalled
    <3>2. \/ threads' = threads
          \/ \E t \in Logics \ threads : threads' = threads \cup {t}
          \/ \E t \in threads \ Hung : threads' = threads \ {t}
      BY DEF owned
    <3> QED
      BY <2>1, <3>1, <3>2 DEF Crew, Hung
  <2> QED
    BY <2>2, <2>3, <2>4, <2>5, <2>6 DEF TypeOK, Places, Settings, Handlers, Switches, Crew
<1>3. WayInv' /\ FileInv'
  BY DEF owned, signalled, FlowInv, StartInv, TypeOK, WayInv, FileInv, Explained,
     Reading, Up, Down
<1>4. ThreadInv'
  <2>1. UNCHANGED <<config, hung, crossed, caught, begun>>
    BY DEF settings, owned, signalled
  <2>2. Held("log") => hung # {}
    BY DEF Held
  <2>3. at' = "log_wait" => Held("log")
    OBVIOUS
  <2>4. threads' # {} => threads # {} \/ at' \in {"running", "waiting"}
    BY DEF owned
  <2>5. /\ at \in Up
        /\ threads' # {} /\ at' \notin {"running", "waiting", "joining", "log_wait"}
             => at \notin {"running", "waiting", "joining"}
    BY DEF Up, owned
  <2>6. begun' = {}
    BY <2>1, <2>5 DEF FlowInv, WayInv
  <2>7. threads' # {} => at' \in {"running", "waiting", "joining", "log_wait", "gone"} \/ LeftRun'
    BY <2>1, <2>4, <2>5 DEF FlowInv, ThreadInv, LeftRun, Up
  <2> QED
    BY <2>1, <2>2, <2>3, <2>6, <2>7 DEF FlowInv, ThreadInv, Verbose
<1> QED
  BY <1>1, <1>2, <1>3, <1>4 DEF FlowInv

LEMMA DownStep == ASSUME FlowInv, Ends PROVE FlowInv'
<1> USE DEF Ends, Returns, StartupFailed, EndProgram, DropDaemon, Finish, ExitHandlers, WithHeap
<1>1. StartInv'
  BY SettingsStay DEF settings, Reading
<1>2. TypeOK'
  <2>1. Places /\ Settings /\ Handlers /\ Switches /\ Crew
    BY TypeParts DEF FlowInv
  <2>2. Places'
    BY <2>1 DEF Places, FlowInv, WayInv, owned, signalled, Calm, Stuck
  <2>3. Settings'
    BY <2>1 DEF Settings, settings
  <2>4. Handlers'
    <3>1. CASE Finish
      BY <2>1, <3>1 DEF Handlers, Switches, signalled
    <3>2. CASE ~Finish
      <4>1. UNCHANGED <<owner, file, guarded, blocked>>
        BY <3>2 DEF owned, signalled
      <4> QED
        BY <2>1, <4>1 DEF Handlers
    <3> QED
      BY <3>1, <3>2
  <2>5. Switches'
    BY <2>1 DEF Switches, owned, signalled
  <2>6. Crew'
    BY <2>1 DEF Crew, owned, signalled
  <2> QED
    BY <2>2, <2>3, <2>4, <2>5, <2>6 DEF TypeOK, Places, Settings, Handlers, Switches, Crew
<1>3. WayInv' /\ FileInv'
  BY DEF owned, signalled, FlowInv, StartInv, TypeOK, WayInv, FileInv, Explained,
     Reading, Up, Down
<1>4. ThreadInv'
  <2>1. UNCHANGED <<config, hung, threads, crossed, caught>>
    BY DEF settings, owned, signalled
  <2>2. Held("log") => hung # {}
    BY DEF Held
  <2>3. at' = "log_wait" => Held("log")
    OBVIOUS
  <2>4. at \notin {"running", "waiting", "joining", "log_wait", "gone"}
    OBVIOUS
  <2> QED
    BY <2>1, <2>2, <2>3, <2>4 DEF FlowInv, ThreadInv, LeftRun, Verbose
<1> QED
  BY <1>1, <1>2, <1>3, <1>4 DEF FlowInv

LEMMA SignalStep ==
  ASSUME FlowInv,
         \/ \E s \in Signals : Deliver(s)
         \/ \E t \in Logics : BrokenPipe(t)
         \/ ThreadFaults
  PROVE  FlowInv'
<1>1. ASSUME NEW s, Default(s) \/ ThreadFaults PROVE FlowInv'
  <2> USE <1>1 DEF Default, ThreadFaults
  <2>1. StartInv'
    BY DEF FlowInv, StartInv, Settled, settings, Reading
  <2>2. TypeOK'
    <3>1. Places /\ Settings /\ Handlers /\ Switches /\ Crew
      BY TypeParts DEF FlowInv
    <3>2. Places' /\ Settings'
      BY <3>1 DEF Places, Settings, settings, owned
    <3>3. Handlers' /\ Switches' /\ Crew'
      <4>1. UNCHANGED <<owner, file, guarded, blocked, threads, hung, once, torn, crossed>> /\ killed' = TRUE
        BY DEF owned
      <4> QED
        BY <3>1, <4>1 DEF Handlers, Switches, Crew
    <3> QED
      BY <3>2, <3>3 DEF TypeOK, Places, Settings, Handlers, Switches, Crew
  <2>3. WayInv' /\ FileInv' /\ ThreadInv'
    BY DEF settings, owned, FlowInv, WayInv, FileInv, ThreadInv, Explained, LeftRun, Verbose,
       Reading, Up, Down
  <2> QED
    BY <2>1, <2>2, <2>3 DEF FlowInv
<1>2. ASSUME NEW s \in Handled, Caught(s) PROVE FlowInv'
  <2> USE <1>2 DEF Caught, Lands
  <2>1. at \notin Reading /\ at # "gone" /\ at' \in {"ending", "gone", "heap_wait", "log_wait"}
    BY DEF FlowInv, StartInv
  <2>2. StartInv'
    BY <2>1, SettingsStay DEF Reading
  <2>3. TypeOK'
    <3>1. Places /\ Settings /\ Handlers /\ Switches /\ Crew
      BY TypeParts DEF FlowInv
    <3>2. Places'
      BY <2>1, <3>1 DEF Places, owned, Calm, Stuck
    <3>3. Settings'
      BY <3>1 DEF Settings, settings
    <3>4. Handlers'
      BY <3>1 DEF Handlers, owned
    <3>5. Switches'
      BY <3>1 DEF Switches, owned
    <3>6. Crew'
      BY <3>1 DEF Crew, owned
    <3> QED
      BY <3>2, <3>3, <3>4, <3>5, <3>6 DEF TypeOK, Places, Settings, Handlers, Switches, Crew
  <2>4. UNCHANGED <<owner, file, threads, hung, begun, crossed, killed, config>> /\ caught' = caught \cup {at}
    BY DEF owned, settings
  <2>5. WayInv'
    BY <2>1, <2>4 DEF FlowInv, WayInv, Reading, Up, Down
  <2>6. ThreadInv'
    <3>1. at' = "log_wait" => Verbose
      BY DEF WaitsForLog, WaitsForHeap
    <3>2. ASSUME at = "log_wait" PROVE at' = "log_wait"
      <4>1. Verbose /\ CallsAt(at) = {"log"}
        BY <3>2 DEF FlowInv, ThreadInv, CallsAt
      <4> QED
        BY <4>1 DEF WaitsForLog
    <3>3. threads # {} => at' = "log_wait" \/ LeftRun'
      <4>1. CASE at \in {"running", "waiting", "joining"}
        BY <2>4, <4>1 DEF LeftRun
      <4>2. CASE at \notin {"running", "waiting", "joining", "log_wait"}
        BY <2>1, <2>4, <4>2 DEF FlowInv, ThreadInv, LeftRun
      <4> QED
        BY <3>2, <4>1, <4>2
    <3>4. threads # {} /\ begun # {} => LeftRun'
      BY <2>4 DEF FlowInv, ThreadInv, LeftRun
    <3> QED
      BY <2>4, <3>1, <3>3, <3>4 DEF FlowInv, ThreadInv, Verbose
  <2>7. torn => torn'
    OBVIOUS
  <2>8. "d" \in begun /\ file => Explained'
    BY <2>4, <2>7 DEF FlowInv, FileInv, Explained
  <2>9. at' = "gone" => "d" \in begun
    OBVIOUS
  <2>10. FileInv'
    BY <2>4, <2>8, <2>9 DEF FileInv
  <2> QED
    BY <2>2, <2>3, <2>5, <2>6, <2>10 DEF FlowInv
<1>3. ASSUME NEW s \in Handled, NEW t \in Logics, NEW calls \in SUBSET Calls, Across(s, t, calls)
      PROVE  FlowInv'
  <2> USE <1>3 DEF Across, Lands
  <2>1. at \notin Reading /\ at # "gone" /\ at' \in {"ending", "gone", at}
    BY DEF FlowInv, StartInv
  <2>2. StartInv'
    BY <2>1, SettingsStay DEF Reading
  <2>3. TypeOK'
    <3>1. Places /\ Settings /\ Handlers /\ Switches /\ Crew
      BY TypeParts DEF FlowInv
    <3>2. Places'
      BY <2>1, <3>1 DEF Places, owned, Calm, Stuck
    <3>3. Settings'
      BY <3>1 DEF Settings, settings
    <3>4. Handlers'
      BY <3>1 DEF Handlers, owned
    <3>5. Switches'
      BY <3>1 DEF Switches, owned
    <3>6. Crew'
      <4>1. threads' = threads /\ (hung' = hung \/ \E call \in Calls : hung' = hung \cup {<<t, call>>})
        BY DEF owned
      <4>2. t \in threads
        OBVIOUS
      <4> QED
        BY <3>1, <4>1, <4>2 DEF Crew
    <3> QED
      BY <3>2, <3>3, <3>4, <3>5, <3>6 DEF TypeOK, Places, Settings, Handlers, Switches, Crew
  <2>4. UNCHANGED <<owner, file, threads, begun, caught, killed, config>>
    BY DEF owned, settings
  <2>5. CASE UNCHANGED <<at, once, torn, crossed>> /\ Verbose
    <3>1. WayInv' /\ FileInv'
      BY <2>4, <2>5 DEF FlowInv, WayInv, FileInv, Explained
    <3>2. ThreadInv'
      BY <2>4, <2>5 DEF FlowInv, ThreadInv, LeftRun, Verbose
    <3> QED
      BY <2>2, <2>3, <3>1, <3>2 DEF FlowInv
  <2>6. CASE crossed' /\ once' = TRUE /\ at' \in {"ending", "gone"} /\ hung' = hung
    <3>1. WayInv' /\ FileInv'
      BY <2>1, <2>4, <2>6 DEF FlowInv, WayInv, FileInv, Explained, Reading, Up, Down
    <3>2. ThreadInv'
      BY <2>4, <2>6 DEF FlowInv, ThreadInv, LeftRun, Verbose
    <3> QED
      BY <2>2, <2>3, <3>1, <3>2 DEF FlowInv
  <2> QED
    BY <2>5, <2>6 DEF WaitsForLog, WaitsForHeap
<1> QED
  BY <1>1, <1>2, <1>3 DEF Deliver, BrokenPipe, Handled, Calls

LEMMA FlowStep == FlowInv /\ [Next]_vars => FlowInv'
<1> SUFFICES ASSUME FlowInv, [Next]_vars PROVE FlowInv'
  OBVIOUS
<1>1. CASE UNCHANGED vars
  BY <1>1 DEF vars, settings, owned, signalled, FlowInv, TypeOK, StartInv, Settled, WayInv, FileInv,
     ThreadInv, Explained, LeftRun, Verbose
<1> QED
  BY <1>1, EnvironmentStep, OptionStep, ShowStep, UpStep, DownStep, SignalStep DEF Next

LEMMA FlowInvariant == Spec => []FlowInv
  BY FlowInit, FlowStep, PTL DEF Spec

-----------------------------------------------------------------------------
\* main(), the daemon and the exit handler keep their types for any signals, threads and command
\* lines: the locals are destroyed in one order, and handlers exist only in a process that made
\* the PID file.
THEOREM FlowTypeCorrect == Spec => []TypeOK
<1>1. FlowInv => TypeOK
  BY DEF FlowInv
<1> QED
  BY <1>1, FlowInvariant, PTL

\* For any command line, the last option wins over the environment and that over the built-in
\* value, and nothing is started that was only asked to print (main(), env_names, longopts).
THEOREM CommandLineAlwaysWins == Spec => []CommandLineWins
<1>1. FlowInv => CommandLineWins
  <2> SUFFICES ASSUME FlowInv, Serves PROVE CommandLineWins
    BY DEF CommandLineWins
  <2>1. Settled(Len(argv)) /\ (\A info \in Infos : config[info] # 1) /\ DOMAIN argv = 1 .. Len(argv)
    BY DEF FlowInv, StartInv, Serves, Reading
  <2>2. \A i \in DOMAIN argv : argv[i].name \notin Infos \cup {"?"}
    BY <2>1 DEF Settled
  <2>3. env["help"] # 1
    BY <2>1 DEF Settled, Infos
  <2>4. \A i \in LastLog : config["log"] = argv[i].value
    BY <2>1 DEF Settled, LastLog
  <2>5. ASSUME LastLog = {} PROVE \A i \in DOMAIN argv : argv[i].name # "log"
    BY <2>1, <2>5 DEF Settled, LastLog
  <2> QED
    BY <2>1, <2>2, <2>3, <2>4, <2>5 DEF Settled, CommandLineWins
<1> QED
  BY <1>1, FlowInvariant, PTL

\* A PID file outlives the process that made it only by a signal without a handler, or a handled
\* one at the wrong place (main(), ~daemon(), program_exit()).
THEOREM FileLeftIsExplained == Spec => []FileLeftExplained
<1>1. FlowInv => FileLeftExplained
  BY DEF FlowInv, FileInv, Explained, FileLeftExplained
<1> QED
  BY <1>1, FlowInvariant, PTL

\* atexit1() never jumps into a main() that has returned (atexit1_once).
THEOREM NoJumpEverAfterMain == Spec => []NoJumpAfterMain
<1>1. FlowInv => NoJumpAfterMain
  BY DEF FlowInv, WayInv, Down, NoJumpAfterMain
<1> QED
  BY <1>1, FlowInvariant, PTL

\* Only a handler that takes main() out of run() destroys the proxy under its threads (main(),
\* proxy_impl::run()).
THEOREM ProxyAlwaysOutlivesThreads == Spec => []ProxyOutlivesThreads
<1>1. FlowInv => ProxyOutlivesThreads
  BY DEF FlowInv, ThreadInv, LeftRun, ProxyOutlivesThreads
<1> QED
  BY <1>1, FlowInvariant, PTL

=============================================================================
