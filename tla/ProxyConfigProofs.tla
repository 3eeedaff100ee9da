-------------------------- MODULE ProxyConfigProofs --------------------------
(***************************************************************************)
(* Proofs about ProxyConfig, for any set of callers, any values and any    *)
(* widths of the integers.                                                 *)
(***************************************************************************)
EXTENDS ProxyConfig, SequenceTheorems, TLAPS

-----------------------------------------------------------------------------
(* The inductive invariant *)

Last2 == <<"server", "worker">>
Last1 == <<"worker">>
Remaining == {Timeouts, Last2, Last1, Other, <<>>}

InStep == conf["client"] = conf["server"] /\ conf["server"] = conf["worker"]

\* Where a setter stands, and which of the three timeouts it has written by then.
WriterInv == \A t \in Callers : at[t] = "write" =>
    /\ todo[t] \in Remaining
    /\ todo[t] = Last2 => conf["client"] = arg[t] /\ conf["server"] = conf["worker"]
    /\ todo[t] = Last1 => conf["client"] = arg[t] /\ conf["server"] = arg[t]
    /\ todo[t] \in {Timeouts, Other, <<>>} => InStep

\* Nobody leaves the timeouts apart.
FreeInv == (\A t \in Callers : at[t] # "write") => InStep

Reads3(t) == Len(heard[t]) + Len(todo[t]) = 3

\* Where a getter stands.
ReaderInv == \A t \in Callers :
    /\ at[t] = "peek" => todo[t] \in {Timeouts, Other}
    /\ at[t] = "read" =>
        \/ Reads3(t) /\ todo[t] \in Remaining \ {Other}
        \/ Len(heard[t]) + Len(todo[t]) = 1 /\ todo[t] \in {Other, <<>>}
    /\ at[t] # "read" => heard[t] = <<>> /\ t \notin crossed

\* A get_timeout() that no setter crossed has read nothing but the timeout that still holds.
QuietInv == \A t \in Callers : at[t] = "read" /\ Reads3(t) /\ t \notin crossed =>
    InStep /\ \A i \in 1 .. Len(heard[t]) : heard[t][i] = conf["client"]

\* What the threads of a run have read is what the fields still hold.
UseInv ==
    /\ \A f \in DOMAIN used \cap Polled : used[f] = conf[f]
    /\ (\A t \in Callers : at[t] # "run") => DOMAIN used = {}

ConfigInv == TypeOK /\ WriterInv /\ FreeInv /\ ReaderInv /\ QuietInv /\ UseInv

-----------------------------------------------------------------------------
(* The sequences of fields *)

LEMMA Rests ==
    /\ Remaining \subseteq Seq(Fields)
    /\ Head(Timeouts) = "client" /\ Tail(Timeouts) = Last2 /\ Len(Timeouts) = 3
    /\ Head(Last2) = "server" /\ Tail(Last2) = Last1 /\ Len(Last2) = 2
    /\ Head(Last1) = "worker" /\ Tail(Last1) = <<>> /\ Len(Last1) = 1
    /\ Head(Other) = "other" /\ Tail(Other) = <<>> /\ Len(Other) = 1
    /\ Timeouts # Last2 /\ Timeouts # Last1 /\ Timeouts # Other /\ Timeouts # <<>>
    /\ Last2 # Last1 /\ Last2 # Other /\ Last2 # <<>>
    /\ Last1 # Other /\ Last1 # <<>> /\ Other # <<>>
    /\ Len(<<>>) = 0
<1> USE DEF Remaining, Timeouts, Other, Fields, Last2, Last1
<1>1. Remaining \subseteq Seq(Fields)
  OBVIOUS
<1>2. Head(Timeouts) = "client" /\ Tail(Timeouts) = Last2 /\ Len(Timeouts) = 3
  OBVIOUS
<1>3. Head(Last2) = "server" /\ Tail(Last2) = Last1 /\ Len(Last2) = 2
  OBVIOUS
<1>4. Head(Last1) = "worker" /\ Tail(Last1) = <<>> /\ Len(Last1) = 1
  OBVIOUS
<1>5. Head(Other) = "other" /\ Tail(Other) = <<>> /\ Len(Other) = 1
  OBVIOUS
<1>6. Timeouts # Last2 /\ Timeouts # Last1 /\ Timeouts # Other /\ Timeouts # <<>>
  <2>1. Len(Timeouts) # 2
    BY <1>2
  <2> QED BY <1>2, <1>3, <1>4, <1>5
<1>7. Last2 # Last1 /\ Last2 # Other /\ Last2 # <<>>
  BY <1>3, <1>4, <1>5
<1>8. Last1 # Other /\ Last1 # <<>> /\ Other # <<>>
  BY <1>4, <1>5
<1> QED BY <1>1, <1>2, <1>3, <1>4, <1>5, <1>6, <1>7, <1>8

\* Reading one more field: what is read and what is left keep their sum.
LEMMA ReadsOn ==
    ASSUME NEW V, NEW h \in Seq(V), NEW x \in V, NEW r \in Remaining \ {<<>>}
    PROVE  /\ Len(Append(h, x)) + Len(Tail(r)) = Len(h) + Len(r)
           /\ r # Other => Tail(r) \in Remaining \ {Other}
           /\ r = Other => Tail(r) = <<>>
           /\ Len(h) \in Nat /\ Len(Append(h, x)) = Len(h) + 1
           /\ \A i \in 1 .. Len(h) : Append(h, x)[i] = h[i]
           /\ Append(h, x)[Len(h) + 1] = x
<1>1. Len(h) \in Nat /\ Len(Append(h, x)) = Len(h) + 1
  OBVIOUS
<1>2. \A i \in 1 .. Len(h) : Append(h, x)[i] = h[i]
  OBVIOUS
<1>3. Append(h, x)[Len(h) + 1] = x
  OBVIOUS
<1>4. r \in {Timeouts, Last2, Last1, Other}
  BY DEF Remaining
<1>5. /\ r # Other => Tail(r) \in Remaining \ {Other}
      /\ r = Other => Tail(r) = <<>>
  BY <1>4, Rests DEF Remaining
<1>6. \/ Len(r) = 3 /\ Len(Tail(r)) = 2
      \/ Len(r) = 2 /\ Len(Tail(r)) = 1
      \/ Len(r) = 1 /\ Len(Tail(r)) = 0
  BY <1>4, Rests
<1> DEFINE a == Len(Append(h, x))
           b == Len(h)
           c == Len(Tail(r))
           d == Len(r)
<1>7. b \in Nat /\ a = b + 1
  BY <1>1
<1>8. a + c = b + d
  <2>1. \/ d = 3 /\ c = 2
        \/ d = 2 /\ c = 1
        \/ d = 1 /\ c = 0
    BY <1>6, Zenon
  <2> HIDE DEF a, b, c, d
  <2> QED
    BY <1>7, <2>1
<1> QED
  BY <1>1, <1>2, <1>3, <1>5, <1>8

LEMMA IntMaxIsInt == ASSUME ConfigAssumption PROVE IntMax \in Int
BY DEF ConfigAssumption, IntMax

\* What a getter returns is an int: a size_t is cut down to one.
LEMMA NarrowedIsInt ==
    ASSUME ConfigAssumption, NEW n \in Nat
    PROVE  Narrowed(n) \in Int32
<1> DEFINE low == n % IntCount
<1>1. low \in Int /\ 0 <= low /\ low <= IntCount - 1
  BY DEF ConfigAssumption
<1>2. IntCount \in Int /\ 2 * (IntCount \div 2) = IntCount /\ IntCount \div 2 \in Int
  BY DEF ConfigAssumption
<1>3. Narrowed(n) = IF low > IntMax THEN low - IntCount ELSE low
  BY DEF Narrowed
<1> HIDE DEF low
<1> QED
  BY <1>1, <1>2, <1>3 DEF IntMax, Int32

LEMMA MeanIsInt ==
    ASSUME ConfigAssumption, NEW v \in Seq(Values), Len(v) = 3, NEW r \in Means(v)
    PROVE  r \in Int32
<1>1. PICK s \in Sums(v) : r = Narrowed((s % SizeCount) \div 3)
  BY DEF Means
<1>2. v[1] \in Values /\ v[2] \in Values /\ v[3] \in Values
  BY ElementOfSeq
<1>3. Values \subseteq Int /\ SizeCount \in Nat \ {0}
  BY IntMaxIsInt DEF ConfigAssumption, Int32
<1>4. s \in Int
  <2>1. CASE {v[1] + v[2], v[1] + v[2] + v[3]} \subseteq Int32
    BY <1>2, <1>3, <2>1 DEF Sums
  <2>2. CASE ~({v[1] + v[2], v[1] + v[2] + v[3]} \subseteq Int32)
    BY <2>2, IntMaxIsInt DEF Sums, Int32
  <2> QED
    BY <2>1, <2>2
<1>5. s % SizeCount \in Nat
  BY <1>3, <1>4
<1>6. (s % SizeCount) \div 3 \in Nat
  BY <1>5
<1> QED
  BY <1>1, <1>6, NarrowedIsInt

\* Three times the same timeout, if its triple is an int, has it as its mean.
LEMMA MeanOfEqual ==
    ASSUME ConfigAssumption, NEW x \in Int, Summable(x),
           NEW v, v[1] = x, v[2] = x, v[3] = x, NEW r \in Means(v)
    PROVE  r = x
<1>1. IntCount \in Nat \ {0} /\ SizeCount \in Nat /\ IntMax \in Int /\ IntMax < IntCount
      /\ IntCount < SizeCount
  BY DEF ConfigAssumption, IntMax
<1>2. 0 <= x /\ 3 * x <= IntMax
  BY DEF Summable
<1>3. x + x \in Int32 /\ x + x + x \in Int32
  BY <1>1, <1>2 DEF Int32
<1>4. Sums(v) = {3 * x}
  BY <1>3 DEF Sums
<1>5. r = Narrowed(((3 * x) % SizeCount) \div 3)
  BY <1>4 DEF Means
<1>6. (3 * x) % SizeCount = 3 * x
  BY <1>1, <1>2
<1>7. (3 * x) \div 3 = x
  OBVIOUS
<1>8. x % IntCount = x
  BY <1>1, <1>2
<1>9. ~(x > IntMax)
  BY <1>1, <1>2
<1> QED
  BY <1>5, <1>6, <1>7, <1>8, <1>9 DEF Narrowed

-----------------------------------------------------------------------------
(* The invariant is kept *)

UseType == UNION {[S -> Values] : S \in SUBSET (Polled \cup {"other"})}

LEMMA InitConfig == ASSUME ConfigAssumption, Init PROVE ConfigInv
<1> USE DEF Init
<1>1. Default \in Values /\ Nobody \notin Callers
  BY DEF ConfigAssumption
<1>2. used \in UseType
  <2>1. used \in [{} -> Values]
    OBVIOUS
  <2> QED
    BY <2>1 DEF UseType
<1>3. TypeOK
  <2>1. <<>> \in Seq(Fields) /\ <<>> \in Seq(Values) /\ <<>> \in Seq(Int32)
    OBVIOUS
  <2>2. todo \in [Callers -> Seq(Fields)] /\ heard \in [Callers -> Seq(Values)]
        /\ answer \in [Callers -> Seq(Int32)]
    BY <2>1
  <2>3. conf \in [Fields -> Values] /\ at \in [Callers -> Steps]
        /\ arg \in [Callers -> Values]
    BY <1>1 DEF Steps
  <2> QED
    BY <1>1, <1>2, <2>2, <2>3 DEF TypeOK, UseType
<1>4. InStep
  BY DEF InStep, Fields
<1>5. WriterInv /\ FreeInv /\ ReaderInv /\ QuietInv
  BY <1>4 DEF WriterInv, FreeInv, ReaderInv, QuietInv
<1>6. UseInv
  BY DEF UseInv
<1> QED
  BY <1>3, <1>4, <1>5, <1>6 DEF ConfigInv

LEMMA TypeStep ==
    ASSUME ConfigAssumption, ConfigInv, Next PROVE TypeOK'
<1> USE DEF TypeOK, Steps, GoTo, Locks, call
<1>1. PICK t \in Callers :
    \/ Refused(t) \/ Set(t) \/ Write(t) \/ SetDone(t)
    \/ Get(t) \/ GetUnlocks(t) \/ Read(t) \/ GetDone(t)
    \/ Run(t) \/ RunLocks(t) \/ ThreadPrepares(t) \/ ThreadServes(t) \/ RunDone(t)
  BY DEF Next
<1>2. TypeOK /\ Nobody \notin Callers /\ Default \in Values /\ Values \subseteq Int32
  BY DEF ConfigInv, ConfigAssumption
<1> DEFINE Known == Polled \cup {"other"}
<1>u. used \in [DOMAIN used -> Values] /\ DOMAIN used \in SUBSET Known
  BY <1>2
<1>v. \A S \in SUBSET Known : \A f \in [S -> Values] : f \in UseType
  BY DEF UseType
<1>w. used' \in UseType =>
        used' \in UNION {[S -> Values] : S \in SUBSET (Polled \cup {"other"})}
  BY DEF UseType
<1> HIDE DEF Known
<1>3. Timeouts \in Seq(Fields) /\ Other \in Seq(Fields)
  BY Rests DEF Remaining
<1>4. CASE Refused(t)
  BY <1>2, <1>4 DEF Refused
<1>5. CASE Set(t)
  BY <1>2, <1>3, <1>5 DEF Set
<1>6. CASE Write(t)
  BY <1>2, <1>6 DEF Write
<1>7. CASE SetDone(t)
  BY <1>2, <1>7 DEF SetDone
<1>8. CASE Get(t)
  BY <1>2, <1>3, <1>8 DEF Get
<1>9. CASE GetUnlocks(t)
  BY <1>2, <1>9 DEF GetUnlocks
<1>10. CASE Read(t)
  BY <1>2, <1>10 DEF Read
<1>11. CASE GetDone(t)
  <2>1. Len(heard[t]) \in {1, 3}
    <3>1. at[t] = "read" /\ todo[t] = <<>> /\ Len(todo[t]) = 0
      BY <1>11, Rests DEF GetDone
    <3>2. Len(heard[t]) \in Nat
      BY <1>2
    <3>3. Len(heard[t]) + Len(todo[t]) \in {1, 3}
      BY <3>1 DEF ConfigInv, ReaderInv, Reads3
    <3> QED
      BY <3>1, <3>2, <3>3
  <2>2. PICK r \in IF Len(heard[t]) = 3 THEN Means(heard[t]) ELSE {Head(heard[t])} :
        answer' = [answer EXCEPT ![t] = <<r>>]
    BY <1>11 DEF GetDone
  <2>3. r \in Int32
    BY <1>2, <2>1, <2>2, MeanIsInt
  <2>4. <<r>> \in Seq(Int32)
    BY <2>3
  <2> QED
    BY <1>2, <1>11, <2>2, <2>4 DEF GetDone
<1>12. CASE Run(t)
  BY <1>2, <1>12 DEF Run
<1>13. CASE RunLocks(t)
  BY <1>2, <1>13 DEF RunLocks
<1>14. CASE ThreadPrepares(t)
  <2>1. PICK f \in Polled \ DOMAIN used :
      used' = [g \in DOMAIN used \cup {f} |-> IF g = f THEN conf[f] ELSE used[g]]
    BY <1>14 DEF ThreadPrepares
  <2>2. used' \in [DOMAIN used \cup {f} -> Values]
    BY <1>2, <1>u, <2>1 DEF Polled, Fields
  <2>3. DOMAIN used \cup {f} \in SUBSET Known
    BY <1>u, <2>1 DEF Known
  <2>4. used' \in UseType
    BY <1>v, <2>2, <2>3
  <2> QED
    BY <1>2, <1>14, <1>w, <2>4 DEF ThreadPrepares
<1>15. CASE ThreadServes(t)
  <2>1. used' \in [DOMAIN used \cup {"other"} -> Values]
    BY <1>2, <1>u, <1>15 DEF ThreadServes, Fields
  <2>2. DOMAIN used \cup {"other"} \in SUBSET Known
    BY <1>u DEF Known
  <2>3. used' \in UseType
    BY <1>v, <2>1, <2>2
  <2> QED
    BY <1>2, <1>15, <1>w, <2>3 DEF ThreadServes
<1>16. CASE RunDone(t)
  <2>1. used' \in [{} -> Values]
    BY <1>16 DEF RunDone
  <2>2. used' \in UseType
    BY <1>v, <2>1
  <2> QED
    BY <1>2, <1>16, <1>w, <2>2 DEF RunDone
<1> QED
  BY <1>1, <1>4, <1>5, <1>6, <1>7, <1>8, <1>9, <1>10, <1>11, <1>12, <1>13, <1>14, <1>15,
     <1>16

\* A setter that holds the mutex is the only one in a section.
LEMMA OneHolder ==
    ASSUME TypeOK, Nobody \notin Callers, NEW t \in Callers, at[t] \in {"write", "peek", "run"}
    PROVE  \A u \in Callers \ {t} : at[u] \notin {"write", "peek", "run"}
BY DEF TypeOK

LEMMA NobodyHolds ==
    ASSUME TypeOK, Nobody \notin Callers, run_mutex = Nobody
    PROVE  \A u \in Callers : at[u] \notin {"write", "peek", "run"}
BY DEF TypeOK

\* The actions that write no field and move no setter keep what is said of setters.
LEMMA WriterStep ==
    ASSUME ConfigAssumption, ConfigInv, Next PROVE WriterInv' /\ FreeInv'
<1> USE DEF GoTo, Locks, call
<1>1. PICK t \in Callers :
    \/ Refused(t) \/ Set(t) \/ Write(t) \/ SetDone(t)
    \/ Get(t) \/ GetUnlocks(t) \/ Read(t) \/ GetDone(t)
    \/ Run(t) \/ RunLocks(t) \/ ThreadPrepares(t) \/ ThreadServes(t) \/ RunDone(t)
  BY DEF Next
<1>2. TypeOK /\ WriterInv /\ FreeInv /\ Nobody \notin Callers
  BY DEF ConfigInv, ConfigAssumption
<1>3. at \in [Callers -> Steps] /\ todo \in [Callers -> Seq(Fields)]
      /\ arg \in [Callers -> Values] /\ conf \in [Fields -> Values]
  BY <1>2 DEF TypeOK
<1>4. CASE Set(t)
  <2>1. InStep /\ \A u \in Callers : at[u] # "write"
    BY <1>2, <1>4, NobodyHolds DEF Set, FreeInv
  <2>2. InStep'
    BY <1>4, <2>1 DEF Set, InStep
  <2>3. at'[t] = "write" /\ todo'[t] \in {Timeouts, Other}
        /\ \A u \in Callers \ {t} : at'[u] # "write"
    BY <1>3, <1>4, <2>1 DEF Set
  <2> QED
    BY <2>2, <2>3, Rests DEF WriterInv, FreeInv, Remaining
<1>5. CASE Write(t)
  <2>1. at[t] = "write" /\ at' = at /\ todo[t] # <<>> /\ arg' = arg
        /\ conf' = [conf EXCEPT ![Head(todo[t])] = arg[t]]
        /\ todo'[t] = Tail(todo[t])
    BY <1>3, <1>5 DEF Write
  <2>2. \A u \in Callers \ {t} : at'[u] # "write"
    BY <1>2, <2>1, OneHolder
  <2>3. todo[t] \in {Timeouts, Last2, Last1, Other}
    BY <1>2, <2>1 DEF WriterInv, Remaining
  <2>4. CASE todo[t] = Timeouts
    <3>1. todo'[t] = Last2 /\ conf' = [conf EXCEPT !["client"] = arg[t]] /\ InStep
      BY <1>2, <2>1, <2>4, Rests DEF WriterInv
    <3> QED
      BY <1>3, <2>1, <2>2, <3>1, Rests DEF WriterInv, FreeInv, InStep, Fields, Remaining
  <2>5. CASE todo[t] = Last2
    <3>1. todo'[t] = Last1 /\ conf' = [conf EXCEPT !["server"] = arg[t]]
          /\ conf["client"] = arg[t]
      BY <1>2, <2>1, <2>5, Rests DEF WriterInv
    <3> QED
      BY <1>3, <2>1, <2>2, <3>1, Rests DEF WriterInv, FreeInv, InStep, Fields, Remaining
  <2>6. CASE todo[t] = Last1
    <3>1. todo'[t] = <<>> /\ conf' = [conf EXCEPT !["worker"] = arg[t]]
          /\ conf["client"] = arg[t] /\ conf["server"] = arg[t]
      BY <1>2, <2>1, <2>6, Rests DEF WriterInv
    <3> QED
      BY <1>3, <2>1, <2>2, <3>1, Rests DEF WriterInv, FreeInv, InStep, Fields, Remaining
  <2>7. CASE todo[t] = Other
    <3>1. todo'[t] = <<>> /\ conf' = [conf EXCEPT !["other"] = arg[t]] /\ InStep
      BY <1>2, <2>1, <2>7, Rests DEF WriterInv
    <3> QED
      BY <1>3, <2>1, <2>2, <3>1, Rests DEF WriterInv, FreeInv, InStep, Fields, Remaining
  <2> QED
    BY <2>3, <2>4, <2>5, <2>6, <2>7
<1>6. CASE SetDone(t)
  <2>1. InStep /\ \A u \in Callers \ {t} : at[u] # "write"
    BY <1>2, <1>6, OneHolder DEF SetDone, WriterInv
  <2>2. InStep' /\ \A u \in Callers : at'[u] # "write"
    BY <1>3, <1>6, <2>1 DEF SetDone, InStep
  <2> QED
    BY <2>2 DEF WriterInv, FreeInv
<1>7. CASE Get(t)
  <2>1. InStep' /\ \A u \in Callers : at'[u] # "write"
    BY <1>2, <1>3, <1>7, NobodyHolds DEF Get, InStep, FreeInv
  <2> QED
    BY <2>1 DEF WriterInv, FreeInv
<1>8. CASE Read(t)
  <2>1. at[t] = "read" /\ at' = at /\ conf' = conf /\ arg' = arg
        /\ \A u \in Callers \ {t} : todo'[u] = todo[u]
    BY <1>3, <1>8 DEF Read
  <2> QED
    BY <1>2, <2>1 DEF WriterInv, FreeInv, InStep
<1>9. CASE \/ Refused(t) \/ GetUnlocks(t) \/ GetDone(t) \/ Run(t) \/ RunLocks(t)
           \/ ThreadPrepares(t) \/ ThreadServes(t) \/ RunDone(t)
  <2>1. conf' = conf /\ arg' = arg /\ todo' = todo
    BY <1>9 DEF Refused, GetUnlocks, GetDone, Run, RunLocks, ThreadPrepares, ThreadServes,
                RunDone
  <2>2. CASE Refused(t) \/ ThreadPrepares(t) \/ ThreadServes(t)
    BY <2>2, <1>2, <2>1 DEF Refused, ThreadPrepares, ThreadServes, WriterInv, FreeInv, InStep
  <2>3. CASE GetUnlocks(t) \/ GetDone(t) \/ Run(t) \/ RunLocks(t) \/ RunDone(t)
    <3>1. at[t] # "write" /\ \E s \in {"read", "idle", "wait", "run"} :
                                at' = [at EXCEPT ![t] = s]
      BY <2>3 DEF GetUnlocks, GetDone, Run, RunLocks, RunDone
    <3>2. \A u \in Callers : at'[u] = "write" <=> at[u] = "write"
      BY <1>3, <3>1
    <3> QED
      BY <1>2, <2>1, <3>2 DEF WriterInv, FreeInv, InStep
  <2> QED
    BY <1>9, <2>2, <2>3
<1> QED
  BY <1>1, <1>4, <1>5, <1>6, <1>7, <1>8, <1>9

\* A getter never stands between two values of the same timeouts, unless it was crossed.
LEMMA ReaderStep ==
    ASSUME ConfigAssumption, ConfigInv, Next PROVE ReaderInv' /\ QuietInv'
<1> USE DEF GoTo, Locks, call
<1>1. PICK t \in Callers :
    \/ Refused(t) \/ Set(t) \/ Write(t) \/ SetDone(t)
    \/ Get(t) \/ GetUnlocks(t) \/ Read(t) \/ GetDone(t)
    \/ Run(t) \/ RunLocks(t) \/ ThreadPrepares(t) \/ ThreadServes(t) \/ RunDone(t)
  BY DEF Next
<1>2. TypeOK /\ FreeInv /\ ReaderInv /\ QuietInv /\ Nobody \notin Callers
  BY DEF ConfigInv, ConfigAssumption
<1>3. at \in [Callers -> Steps] /\ todo \in [Callers -> Seq(Fields)]
      /\ heard \in [Callers -> Seq(Values)]
  BY <1>2 DEF TypeOK
<1>4. CASE Refused(t) \/ ThreadPrepares(t) \/ ThreadServes(t)
  <2>1. conf' = conf /\ at' = at /\ todo' = todo /\ heard' = heard /\ crossed' = crossed
    BY <1>4 DEF Refused, ThreadPrepares, ThreadServes
  <2> QED
    BY <1>2, <2>1 DEF ReaderInv, QuietInv, Reads3, InStep
<1>5. CASE SetDone(t) \/ Run(t) \/ RunLocks(t) \/ RunDone(t)
  <2>1. /\ conf' = conf /\ todo' = todo /\ heard' = heard /\ crossed' = crossed
        /\ at[t] \notin {"peek", "read"}
        /\ \E s \in {"idle", "wait", "run"} : at' = [at EXCEPT ![t] = s]
    BY <1>5 DEF SetDone, Run, RunLocks, RunDone
  <2>2. \A u \in Callers : /\ at'[u] = "peek" <=> at[u] = "peek"
                           /\ at'[u] = "read" <=> at[u] = "read"
    BY <1>3, <2>1
  <2> QED
    BY <1>2, <2>1, <2>2 DEF ReaderInv, QuietInv, Reads3, InStep
<1>6. CASE Set(t)
  <2>1. /\ conf' = conf /\ heard' = heard /\ crossed' = crossed /\ at[t] = "idle"
        /\ \A u \in Callers \ {t} : at'[u] = at[u] /\ todo'[u] = todo[u]
        /\ at'[t] = "write"
    BY <1>3, <1>6 DEF Set
  <2> QED
    BY <1>2, <2>1 DEF ReaderInv, QuietInv, Reads3, InStep
<1>7. CASE Write(t)
  <2>1. /\ at' = at /\ heard' = heard /\ at[t] = "write"
        /\ crossed' = crossed \cup {u \in Callers : at[u] = "read"}
        /\ \A u \in Callers \ {t} : todo'[u] = todo[u]
    BY <1>3, <1>7 DEF Write
  <2> QED
    BY <1>2, <2>1 DEF ReaderInv, QuietInv, Reads3, InStep
<1>8. CASE Get(t)
  <2>1. /\ conf' = conf /\ heard' = heard /\ crossed' = crossed
        /\ at[t] = "idle" /\ at'[t] = "peek" /\ todo'[t] \in {Timeouts, Other}
        /\ \A u \in Callers \ {t} : at'[u] = at[u] /\ todo'[u] = todo[u]
    BY <1>3, <1>8 DEF Get
  <2> QED
    BY <1>2, <2>1 DEF ReaderInv, QuietInv, Reads3, InStep
<1>9. CASE GetUnlocks(t)
  <2>1. /\ conf' = conf /\ heard' = heard /\ crossed' = crossed /\ todo' = todo
        /\ at[t] = "peek" /\ at'[t] = "read"
        /\ \A u \in Callers \ {t} : at'[u] = at[u]
    BY <1>3, <1>9 DEF GetUnlocks
  <2>2. heard[t] = <<>> /\ todo[t] \in {Timeouts, Other}
    BY <1>2, <2>1 DEF ReaderInv
  <2>3. InStep
    BY <1>2, <2>1, OneHolder DEF FreeInv
  <2>4. \A i \in 1 .. Len(heard[t]) : heard[t][i] = conf["client"]
    BY <2>2, Rests
  <2>5. \/ Reads3(t) /\ todo[t] \in Remaining \ {Other}
        \/ Len(heard[t]) + Len(todo[t]) = 1 /\ todo[t] \in {Other, <<>>}
    BY <2>2, Rests DEF Reads3, Remaining
  <2> QED
    BY <1>2, <2>1, <2>3, <2>4, <2>5 DEF ReaderInv, QuietInv, Reads3, InStep
<1>10. CASE Read(t)
  <2>1. /\ conf' = conf /\ crossed' = crossed /\ at' = at /\ at[t] = "read"
        /\ todo[t] # <<>> /\ todo'[t] = Tail(todo[t])
        /\ heard'[t] = Append(heard[t], conf[Head(todo[t])])
        /\ \A u \in Callers \ {t} : todo'[u] = todo[u] /\ heard'[u] = heard[u]
    BY <1>3, <1>10 DEF Read
  <2> DEFINE h == heard[t]
             r == todo[t]
             x == conf[Head(todo[t])]
  <2>2. h \in Seq(Values) /\ x \in Values
    <3>1. Head(r) \in Fields
      BY <1>3, <2>1
    <3> QED
      BY <1>2, <1>3, <3>1 DEF TypeOK
  <2> HIDE DEF h, r, x
  <2>3. heard'[t] = Append(h, x) /\ todo'[t] = Tail(r) /\ r # <<>>
    BY <2>1 DEF h, r, x
  <2>4. \/ Len(h) + Len(r) = 3 /\ r \in Remaining \ {Other}
        \/ Len(h) + Len(r) = 1 /\ r \in {Other, <<>>}
    BY <1>2, <2>1 DEF ReaderInv, Reads3, h, r
  <2>5. r \in Remaining \ {<<>>}
    BY <2>3, <2>4 DEF Remaining
  <2>6. \/ Len(heard'[t]) + Len(todo'[t]) = 3 /\ todo'[t] \in Remaining \ {Other}
        \/ Len(heard'[t]) + Len(todo'[t]) = 1 /\ todo'[t] \in {Other, <<>>}
    BY <2>2, <2>3, <2>4, <2>5, ReadsOn
  <2>7. ReaderInv'
    BY <1>2, <2>1, <2>6 DEF ReaderInv, Reads3
  <2>8. ASSUME Reads3(t)', t \notin crossed
        PROVE  InStep /\ \A i \in 1 .. Len(heard'[t]) : heard'[t][i] = conf["client"]
    <3>1. Len(h) + Len(r) = 3
      BY <2>2, <2>3, <2>5, <2>8, ReadsOn DEF Reads3
    <3>2. r # Other
      BY <2>3, <2>4, <3>1
    <3>3. InStep /\ \A i \in 1 .. Len(h) : h[i] = conf["client"]
      BY <1>2, <2>1, <2>8, <3>1 DEF QuietInv, Reads3, h, r
    <3>4. x = conf["client"]
      BY <2>5, <3>2, <3>3, Rests DEF InStep, Remaining, x, r
    <3>5. \A i \in 1 .. Len(h) + 1 : i \in 1 .. Len(h) \/ i = Len(h) + 1
      BY <2>2
    <3> QED
      BY <2>2, <2>3, <2>5, <3>3, <3>4, <3>5, ReadsOn
  <2>9. QuietInv'
    <3> SUFFICES ASSUME NEW u \in Callers, at'[u] = "read", Reads3(u)', u \notin crossed'
                 PROVE  InStep' /\ \A i \in 1 .. Len(heard'[u]) : heard'[u][i] = conf'["client"]
      BY DEF QuietInv
    <3>1. CASE u = t
      BY <2>1, <2>8, <3>1 DEF InStep
    <3>2. CASE u # t
      <4>1. heard'[u] = heard[u] /\ todo'[u] = todo[u] /\ at[u] = "read" /\ u \notin crossed
        BY <2>1, <3>2
      <4>2. Reads3(u)
        BY <4>1 DEF Reads3
      <4>3. InStep /\ \A i \in 1 .. Len(heard[u]) : heard[u][i] = conf["client"]
        BY <1>2, <4>1, <4>2 DEF QuietInv
      <4> QED
        BY <2>1, <4>1, <4>3 DEF InStep
    <3> QED
      BY <3>1, <3>2
  <2> QED
    BY <2>7, <2>9
<1>11. CASE GetDone(t)
  <2>1. /\ conf' = conf /\ todo' = todo /\ crossed' = crossed \ {t}
        /\ at'[t] = "idle" /\ heard'[t] = <<>>
        /\ \A u \in Callers \ {t} : at'[u] = at[u] /\ heard'[u] = heard[u]
    BY <1>3, <1>11 DEF GetDone
  <2>2. ReaderInv'
    BY <1>2, <2>1 DEF ReaderInv, Reads3
  <2>3. QuietInv'
    <3> SUFFICES ASSUME NEW u \in Callers, at'[u] = "read", Reads3(u)', u \notin crossed'
                 PROVE  InStep' /\ \A i \in 1 .. Len(heard'[u]) : heard'[u][i] = conf'["client"]
      BY DEF QuietInv
    <3>1. u # t
      BY <2>1
    <3>2. heard'[u] = heard[u] /\ todo'[u] = todo[u] /\ at[u] = "read" /\ u \notin crossed
      BY <2>1, <3>1
    <3>3. Reads3(u)
      BY <3>2 DEF Reads3
    <3>4. InStep /\ \A i \in 1 .. Len(heard[u]) : heard[u][i] = conf["client"]
      BY <1>2, <3>2, <3>3 DEF QuietInv
    <3> QED
      BY <2>1, <3>2, <3>4 DEF InStep
  <2> QED
    BY <2>2, <2>3
<1> QED
  BY <1>1, <1>4, <1>5, <1>6, <1>7, <1>8, <1>9, <1>10, <1>11

LEMMA UseStep ==
    ASSUME ConfigAssumption, ConfigInv, Next PROVE UseInv'
<1> USE DEF GoTo, Locks, call
<1>1. PICK t \in Callers :
    \/ Refused(t) \/ Set(t) \/ Write(t) \/ SetDone(t)
    \/ Get(t) \/ GetUnlocks(t) \/ Read(t) \/ GetDone(t)
    \/ Run(t) \/ RunLocks(t) \/ ThreadPrepares(t) \/ ThreadServes(t) \/ RunDone(t)
  BY DEF Next
<1>2. TypeOK /\ UseInv /\ Nobody \notin Callers
  BY DEF ConfigInv, ConfigAssumption
<1>3. at \in [Callers -> Steps]
  BY <1>2 DEF TypeOK
<1>4. CASE Write(t)
  <2>1. used' = used /\ at' = at /\ at[t] = "write"
    BY <1>4 DEF Write
  <2>2. DOMAIN used = {}
    BY <1>2, <2>1, OneHolder DEF UseInv
  <2> QED
    BY <2>1, <2>2 DEF UseInv
<1>5. CASE ThreadPrepares(t)
  <2>1. PICK f \in Polled \ DOMAIN used :
      used' = [g \in DOMAIN used \cup {f} |-> IF g = f THEN conf[f] ELSE used[g]]
    BY <1>5 DEF ThreadPrepares
  <2> QED
    BY <1>2, <1>5, <2>1 DEF ThreadPrepares, UseInv
<1>6. CASE ThreadServes(t)
  BY <1>2, <1>6 DEF ThreadServes, UseInv, Polled
<1>7. CASE RunDone(t)
  <2>1. DOMAIN used' = {}
    BY <1>7 DEF RunDone
  <2> QED
    BY <2>1 DEF UseInv
<1>8. CASE \/ Refused(t) \/ Set(t) \/ SetDone(t) \/ Get(t) \/ GetUnlocks(t)
           \/ Read(t) \/ GetDone(t) \/ Run(t) \/ RunLocks(t)
  <2>1. used' = used /\ conf' = conf
    BY <1>8 DEF Refused, Set, SetDone, Get, GetUnlocks, Read, GetDone, Run, RunLocks
  <2>2. at[t] # "run"
        /\ (at' = at \/ \E s \in Steps : at' = [at EXCEPT ![t] = s])
    BY <1>3, <1>8, <1>2 DEF Set, SetDone, Get, GetUnlocks, Read, GetDone, Run, RunLocks, Steps,
       Refused, TypeOK
  <2>3. \A u \in Callers : at[u] = "run" => at'[u] = "run"
    BY <1>3, <2>2
  <2> QED
    BY <1>2, <2>1, <2>3 DEF UseInv
<1> QED
  BY <1>1, <1>4, <1>5, <1>6, <1>7, <1>8

-----------------------------------------------------------------------------
(* The theorems *)

LEMMA ConfigInvariant == Spec => []ConfigInv
<1>1. Init => ConfigInv
  BY InitConfig, ConfigAssumption
<1>2. ConfigInv /\ [Next]_vars => ConfigInv'
  <2>1. ConfigInv /\ Next => ConfigInv'
    BY TypeStep, WriterStep, ReaderStep, UseStep, ConfigAssumption DEF ConfigInv
  <2>2. ConfigInv /\ UNCHANGED vars => ConfigInv'
    BY DEF ConfigInv, vars, TypeOK, WriterInv, FreeInv, ReaderInv, QuietInv, UseInv, InStep,
           Reads3
  <2> QED
    BY <2>1, <2>2
<1> QED
  BY <1>1, <1>2, PTL DEF Spec

\* The object of proxy.hpp keeps its types, and its mutex is held by whoever is in a section,
\* for any number of callers.
THEOREM ConfigTypeCorrect == Spec => []TypeOK
<1>1. ConfigInv => TypeOK
  BY DEF ConfigInv
<1> QED
  BY <1>1, ConfigInvariant, PTL

\* Both logic threads of a run poll with one and the same timeout (client_logic.cpp:199,
\* server_logic.cpp:124).
THEOREM ThreadsAlwaysAgree == Spec => []ThreadsAgree
<1>1. ConfigInv => ThreadsAgree
  <2> SUFFICES ASSUME ConfigInv, Polled \subseteq DOMAIN used
               PROVE  used["client"] = used["server"]
    BY DEF ThreadsAgree
  <2>1. used["client"] = conf["client"] /\ used["server"] = conf["server"]
    BY DEF ConfigInv, UseInv, Polled
  <2>2. PICK t \in Callers : at[t] = "run"
    BY DEF ConfigInv, UseInv, Polled
  <2>3. \A u \in Callers : at[u] # "write"
    BY <2>2, OneHolder, ConfigAssumption DEF ConfigInv, ConfigAssumption
  <2> QED
    BY <2>1, <2>3 DEF ConfigInv, FreeInv, InStep
<1> QED
  BY <1>1, ConfigInvariant, PTL

\* While a run() holds the mutex no setter writes (proxy_impl.cpp:412, 640).
THEOREM SettingsAlwaysHold == Spec => SettingsHoldInRun
<1>1. ConfigInv /\ [Next]_vars => [(\E t \in Callers : at[t] = "run") => conf' = conf]_vars
  <2> SUFFICES ASSUME ConfigInv, Next, NEW t \in Callers, at[t] = "run"
               PROVE  conf' = conf
    BY DEF vars
  <2>1. \A u \in Callers : at[u] # "write"
    BY OneHolder, ConfigAssumption DEF ConfigInv, ConfigAssumption
  <2> QED
    BY <2>1 DEF Next, Refused, Set, Write, SetDone, Get, GetUnlocks, Read, GetDone, Run,
                RunLocks, ThreadPrepares, ThreadServes, RunDone, call
<1> QED
  BY <1>1, ConfigInvariant, PTL DEF Spec, SettingsHoldInRun

\* What get_timeout() returns when nothing is written while it reads is the timeout, for any
\* widths of int32_t and size_t (proxy_impl.cpp:774).
THEOREM QuietGetIsAlwaysRight == Spec => QuietGetIsRight
<1> DEFINE Right == \A t \in Callers :
        /\ at[t] = "read" /\ at'[t] = "idle" /\ Len(heard[t]) = 3
        /\ t \notin crossed /\ Summable(conf["client"])
        => answer'[t] = <<conf["client"]>>
<1>1. ConfigInv /\ [Next]_vars => [Right]_vars
  <2> SUFFICES ASSUME ConfigInv, Next, NEW t \in Callers,
                      at[t] = "read", at'[t] = "idle", Len(heard[t]) = 3,
                      t \notin crossed, Summable(conf["client"])
               PROVE  answer'[t] = <<conf["client"]>>
    BY DEF vars
  <2>1. TypeOK /\ ReaderInv /\ QuietInv
    BY DEF ConfigInv
  <2>2. at \in [Callers -> Steps] /\ answer \in [Callers -> Seq(Int32)]
    BY <2>1 DEF TypeOK
  <2>3. GetDone(t)
    BY <2>2 DEF Next, Refused, Set, Write, SetDone, Get, GetUnlocks, Read, GetDone, Run,
                RunLocks, ThreadPrepares, ThreadServes, RunDone, call, GoTo
  <2>4. PICK r \in Means(heard[t]) : answer' = [answer EXCEPT ![t] = <<r>>]
    BY <2>3 DEF GetDone
  <2>5. Reads3(t)
    BY <2>3, Rests DEF GetDone, Reads3
  <2>6. \A i \in 1 .. 3 : heard[t][i] = conf["client"]
    BY <2>1, <2>5 DEF QuietInv
  <2>7. conf["client"] \in Int
    BY <2>1, ConfigAssumption, IntMaxIsInt DEF TypeOK, Fields, ConfigAssumption, Int32
  <2>8. r = conf["client"]
    BY <2>4, <2>6, <2>7, ConfigAssumption, MeanOfEqual
  <2> QED
    BY <2>2, <2>4, <2>8
<1> QED
  BY <1>1, ConfigInvariant, PTL DEF Spec, QuietGetIsRight

==============================================================================
