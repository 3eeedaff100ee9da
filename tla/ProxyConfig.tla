----------------------------- MODULE ProxyConfig -----------------------------
(***************************************************************************)
(* The object that users of the library hold: proxy (proxy.hpp), which     *)
(* forwards every call to proxy_impl, its setters and getters, run(), and  *)
(* the mutex between them.  Callers are threads that use one object.       *)
(*                                                                         *)
(* set_timeout() writes three fields and get_timeout() reads three; every  *)
(* other setter and getter has one field of its own, and one field,        *)
(* "other", stands for them all (the server port, say, which the server    *)
(* thread reads at each connect()).  A step is one use of the mutex or one *)
(* read or write of a field.  The text of the server's address is not      *)
(* here: writing a string is no single step, and reading it meanwhile      *)
(* (get_server_ip() hands out a reference) has no meaning at all.          *)
(***************************************************************************)
EXTENDS Integers, Sequences

CONSTANTS
    Callers,
    Values,     \* what callers pass to the setters
    Default,    \* the value of the fields at the start
    IntCount,   \* how many values an int32_t has
    SizeCount,  \* how many values a size_t has
    Nobody

IntMax == (IntCount \div 2) - 1
Int32 == -(IntMax + 1) .. IntMax

ASSUME ConfigAssumption ==
    /\ IntCount \in Nat \ {0} /\ IntCount % 2 = 0
    /\ SizeCount \in Nat /\ IntCount < SizeCount
    /\ Default \in Values /\ Values \subseteq Int32
    /\ Nobody \notin Callers

VARIABLES
    run_mutex,  \* who holds it, or Nobody
    conf,       \* the fields
    at,         \* what each caller is doing
    todo,       \* the fields it has still to write or read
    arg,        \* the value it writes
    heard,      \* the values it has read
    answer,     \* what its last call returned, <<>> for nothing or an exception
    used,       \* what the threads of run() have read in this run
    end_proxy,
    crossed     \* ghost: getters during whose reading some setter wrote a field

vars == <<run_mutex, conf, at, todo, arg, heard, answer, used, end_proxy, crossed>>
call == <<todo, arg, heard, answer>>

Timeouts == <<"client", "server", "worker">>
Other == <<"other">>
Fields == {"client", "server", "worker", "other"}
Polled == {"client", "server"}      \* worker_poll_timeout is read by nobody
Steps == {"idle", "write", "peek", "read", "wait", "run"}

\* The mutex is held by who is in a section, and there only.
TypeOK ==
    /\ run_mutex \in Callers \cup {Nobody}
    /\ conf \in [Fields -> Values]
    /\ at \in [Callers -> Steps]
    /\ todo \in [Callers -> Seq(Fields)]
    /\ arg \in [Callers -> Values]
    /\ heard \in [Callers -> Seq(Values)]
    /\ answer \in [Callers -> Seq(Int32)]
    /\ used \in UNION {[S -> Values] : S \in SUBSET (Polled \cup {"other"})}
    /\ end_proxy \in BOOLEAN
    /\ crossed \subseteq Callers
    /\ \A t \in Callers : at[t] \in {"write", "peek", "run"} <=> run_mutex = t

\* proxy_impl::proxy_impl()
Init ==
    /\ run_mutex = Nobody
    /\ conf = [f \in Fields |-> Default]
    /\ at = [t \in Callers |-> "idle"]
    /\ todo = [t \in Callers |-> <<>>]
    /\ arg = [t \in Callers |-> Default]
    /\ heard = [t \in Callers |-> <<>>]
    /\ answer = [t \in Callers |-> <<>>]
    /\ used = [f \in {} |-> Default]
    /\ end_proxy = FALSE
    /\ crossed = {}

Locks(t) == run_mutex = Nobody /\ run_mutex' = t
GoTo(t, step) == at' = [at EXCEPT ![t] = step]

-----------------------------------------------------------------------------
(* Setters *)

\* try_lock() fails, whoever holds the mutex and whatever for: Eproxy_running.
Refused(t) ==
    /\ at[t] = "idle" /\ run_mutex # Nobody
    /\ answer' = [answer EXCEPT ![t] = <<>>]
    /\ UNCHANGED <<run_mutex, conf, at, todo, arg, heard, used, end_proxy, crossed>>

\* Variant: the result of try_lock() is not looked at.
SetAnyway(t) ==
    /\ at[t] = "idle"
    /\ GoTo(t, "write")
    /\ run_mutex' = IF run_mutex = Nobody THEN t ELSE run_mutex
    /\ \E fields \in {Timeouts, Other}, v \in Values :
        /\ todo' = [todo EXCEPT ![t] = fields]
        /\ arg' = [arg EXCEPT ![t] = v]
    /\ answer' = [answer EXCEPT ![t] = <<>>]
    /\ UNCHANGED <<conf, heard, used, end_proxy, crossed>>

Set(t) ==
    /\ at[t] = "idle" /\ Locks(t)
    /\ GoTo(t, "write")
    /\ \E fields \in {Timeouts, Other}, v \in Values :
        /\ todo' = [todo EXCEPT ![t] = fields]
        /\ arg' = [arg EXCEPT ![t] = v]
    /\ answer' = [answer EXCEPT ![t] = <<>>]
    /\ UNCHANGED <<conf, heard, used, end_proxy, crossed>>

Write(t) ==
    /\ at[t] = "write" /\ todo[t] # <<>>
    /\ conf' = [conf EXCEPT ![Head(todo[t])] = arg[t]]
    /\ todo' = [todo EXCEPT ![t] = Tail(@)]
    /\ crossed' = crossed \cup {u \in Callers : at[u] = "read"}
    /\ UNCHANGED <<run_mutex, at, arg, heard, answer, used, end_proxy>>

\* Variant: set_timeout() unlocks after its first assignment.
SetDoneEarly(t) ==
    /\ at[t] = "write" /\ Len(todo[t]) < 3
    /\ run_mutex = t \/ todo[t] = <<>>
    /\ run_mutex' = IF run_mutex = t THEN Nobody ELSE run_mutex
    /\ at' = IF todo[t] = <<>> THEN [at EXCEPT ![t] = "idle"] ELSE at
    /\ UNCHANGED <<conf, call, used, end_proxy, crossed>>

SetDone(t) ==
    /\ at[t] = "write" /\ todo[t] = <<>>
    /\ run_mutex' = Nobody
    /\ GoTo(t, "idle")
    /\ arg' = [arg EXCEPT ![t] = Default]
    /\ UNCHANGED <<conf, todo, heard, answer, used, end_proxy, crossed>>

-----------------------------------------------------------------------------
(* Getters: the mutex is taken and given back before the field is read *)

\* Variant: no try_lock(), since the mutex is given back before the read anyway.
GetAnyTime(t) ==
    /\ at[t] = "idle"
    /\ GoTo(t, "read")
    /\ \E fields \in {Timeouts, Other} : todo' = [todo EXCEPT ![t] = fields]
    /\ answer' = [answer EXCEPT ![t] = <<>>]
    /\ UNCHANGED <<run_mutex, conf, arg, heard, used, end_proxy, crossed>>

Get(t) ==
    /\ at[t] = "idle" /\ Locks(t)
    /\ GoTo(t, "peek")
    /\ \E fields \in {Timeouts, Other} : todo' = [todo EXCEPT ![t] = fields]
    /\ answer' = [answer EXCEPT ![t] = <<>>]
    /\ UNCHANGED <<conf, arg, heard, used, end_proxy, crossed>>

GetUnlocks(t) ==
    /\ at[t] = "peek"
    /\ run_mutex' = Nobody
    /\ GoTo(t, "read")
    /\ UNCHANGED <<conf, call, used, end_proxy, crossed>>

Read(t) ==
    /\ at[t] = "read" /\ todo[t] # <<>>
    /\ heard' = [heard EXCEPT ![t] = Append(@, conf[Head(todo[t])])]
    /\ todo' = [todo EXCEPT ![t] = Tail(@)]
    /\ UNCHANGED <<run_mutex, conf, at, arg, answer, used, end_proxy, crossed>>

\* std::accumulate() over int; beyond the ints its result may be any.
Sums(v) == IF {v[1] + v[2], v[1] + v[2] + v[3]} \subseteq Int32
           THEN {v[1] + v[2] + v[3]} ELSE Int32

\* A size_t returned as an int32_t.
Narrowed(n) == LET low == n % IntCount IN IF low > IntMax THEN low - IntCount ELSE low

\* The sum is divided by v.size(), a size_t, and so as a size_t itself.
Means(v) == {Narrowed((s % SizeCount) \div 3) : s \in Sums(v)}

GetDone(t) ==
    /\ at[t] = "read" /\ todo[t] = <<>>
    /\ \E r \in IF Len(heard[t]) = 3 THEN Means(heard[t]) ELSE {Head(heard[t])} :
        answer' = [answer EXCEPT ![t] = <<r>>]
    /\ GoTo(t, "idle")
    /\ heard' = [heard EXCEPT ![t] = <<>>]
    /\ crossed' = crossed \ {t}
    /\ UNCHANGED <<run_mutex, conf, todo, arg, used, end_proxy>>

-----------------------------------------------------------------------------
(* run() *)

Run(t) ==
    /\ at[t] = "idle"
    /\ GoTo(t, "wait")
    /\ answer' = [answer EXCEPT ![t] = <<>>]
    /\ UNCHANGED <<run_mutex, conf, todo, arg, heard, used, end_proxy, crossed>>

\* std::lock_guard waits for the mutex.
RunLocks(t) ==
    /\ at[t] = "wait" /\ Locks(t)
    /\ GoTo(t, "run")
    /\ UNCHANGED <<conf, call, used, end_proxy, crossed>>

\* prepare() of the client or the server thread copies its timeout.
ThreadPrepares(t) ==
    /\ at[t] = "run"
    /\ \E f \in Polled \ DOMAIN used :
        used' = [g \in DOMAIN used \cup {f} |-> IF g = f THEN conf[f] ELSE used[g]]
    /\ UNCHANGED <<run_mutex, conf, at, call, end_proxy, crossed>>

\* The loop of a thread reads the other fields again and again.
ThreadServes(t) ==
    /\ at[t] = "run" /\ ~end_proxy /\ DOMAIN used \cap Polled # {}
    /\ used' = [g \in DOMAIN used \cup {"other"} |->
                    IF g = "other" THEN conf[g] ELSE used[g]]
    /\ UNCHANGED <<run_mutex, conf, at, call, end_proxy, crossed>>

\* end_proxy is never reset: the threads of a later run() leave their loops at once.
RunDone(t) ==
    /\ at[t] = "run"
    /\ end_proxy' = TRUE
    /\ used' = [f \in {} |-> Default]
    /\ run_mutex' = Nobody
    /\ GoTo(t, "idle")
    /\ UNCHANGED <<conf, call, crossed>>

-----------------------------------------------------------------------------
Next == \E t \in Callers :
    \/ Refused(t) \/ Set(t) \/ Write(t) \/ SetDone(t)
    \/ Get(t) \/ GetUnlocks(t) \/ Read(t) \/ GetDone(t)
    \/ Run(t) \/ RunLocks(t) \/ ThreadPrepares(t) \/ ThreadServes(t) \/ RunDone(t)

Spec == Init /\ [][Next]_vars

-----------------------------------------------------------------------------
(* Properties *)

\* Both logic threads of a run poll with the same timeout, the one of some set_timeout() or the
\* default, although they read two fields at times of their own (client_logic.cpp:199,
\* server_logic.cpp:124) and callers keep calling set_timeout().
ThreadsAgree == Polled \subseteq DOMAIN used => used["client"] = used["server"]

\* From the moment run() has the mutex until it gives it back nothing is reconfigured: what a
\* thread reads late is what another one read early (proxy_impl.cpp:428, 641).
SettingsHoldInRun == [][(\E t \in Callers : at[t] = "run") => conf' = conf]_vars

\* What get_timeout() should return: a timeout whose triple an int can hold.
Summable(v) == 0 <= v /\ 3 * v <= IntMax

\* A get_timeout() during which nothing was written returns the timeout, if it is not negative
\* and small enough, although it holds no lock while it reads (proxy_impl.cpp:774): no
\* set_timeout() was in the middle when it began.
QuietGetIsRight ==
    [][\A t \in Callers :
        /\ at[t] = "read" /\ at'[t] = "idle" /\ Len(heard[t]) = 3
        /\ t \notin crossed /\ Summable(conf["client"])
        => answer'[t] = <<conf["client"]>>]_vars

==============================================================================
