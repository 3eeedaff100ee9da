---------------------------- MODULE ProxyRunProofs ----------------------------
(***************************************************************************)
(* What run() and its threads hold to, for any capacity of the pairs, any  *)
(* number of ready connections, with every handler and every failure: the  *)
(* types are kept, a write() blocks only beside the gate or behind a burst *)
(* of its own iteration, and the pairs outlive the threads.                *)
(***************************************************************************)
EXTENDS ProxyRun, SequenceTheorems, TLAPS

Away    == {"absent", "prepare", "loop", "poll", "closing", "ended"}
Inside  == {"input", "serve", "peer", "worker"}
Writers == {"peer", "worker"}

\* A thread reads its pair only when poll() found a message in it.
MessageWaits == \A t \in Logics : pc[t] = "input" => chan[<<Peer(t), t>>] > 0

LEMMA Names ==
  ASSUME NEW t \in Logics
  PROVE  /\ t \in Threads /\ Peer(t) \in Logics /\ Peer(t) # t /\ Peer(Peer(t)) = t
         /\ t # "w" /\ Peer(t) # "w"
         /\ <<t, Peer(t)>> \in Pairs /\ <<Peer(t), t>> \in Pairs /\ <<t, "w">> \in Pairs
  BY DEF Logics, Threads, Pairs, Peer

-----------------------------------------------------------------------------
(* The types.                                                              *)

\* A thread that writes has a message to write.
WritingTyped ==
    /\ due \in [Logics -> 0 .. Conns + 2]
    /\ wrote \in [Logics -> Nat]
    /\ back \in [Logics -> {"serve", "poll"}]
    /\ process # "gone" => \A t \in Logics : pc[t] \in Writers => due[t] > 0

RunTyped ==
    /\ pc \in [Threads -> Away \cup Inside]
    /\ chan \in [Pairs -> 0..Cap]
    /\ shutEnds \subseteq Ends
    /\ toClose \in [Logics -> Seq(Ends)]
    /\ \A t \in Logics : Len(toClose[t]) <= 3
    /\ listed \in [Logics -> BOOLEAN]
    /\ gate \in [Logics -> BOOLEAN]
    /\ left \in [Logics -> 0..Conns]
    /\ met \in BOOLEAN
    /\ endProxy \in BOOLEAN
    /\ process \in {"up", "returned", "gone"}
    /\ MessageWaits
    /\ WritingTyped

LEMMA RunTypedInit == Init => RunTyped
<1> SUFFICES ASSUME Init PROVE RunTyped
  OBVIOUS
<1>1. pc \in [Threads -> Away \cup Inside] /\ \A t \in Logics : pc[t] = "absent"
  BY Names DEF Init, Away
<1>2. 0 \in 0..Cap /\ 0 \in 0..Conns
  BY RunAssumption
<1>3. chan \in [Pairs -> 0..Cap] /\ left \in [Logics -> 0..Conns]
  BY <1>2 DEF Init
<1>4. toClose \in [Logics -> Seq(Ends)] /\ \A t \in Logics : Len(toClose[t]) <= 3
  BY DEF Init
<1>5. WritingTyped
  BY <1>1, RunAssumption DEF Init, WritingTyped, Writers
<1> QED
  BY <1>1, <1>3, <1>4, <1>5 DEF Init, RunTyped, MessageWaits

LEMMA EndsOfPair ==
  ASSUME NEW p \in Pairs
  PROVE  Reader(p) \in Ends /\ Writer(p) \in Ends
<1>1. p[1] \in Threads /\ p[2] \in Threads
  BY DEF Pairs, Threads, Logics
<1> QED
  BY <1>1 DEF Reader, Writer, Ends

LEMMA InArrayType ==
  ASSUME NEW t \in Logics
  PROVE  InArray(t) \in Seq(Ends) /\ Len(InArray(t)) <= 3
<1>1. /\ Reader(<<Peer(t), t>>) \in Ends
      /\ Writer(<<t, Peer(t)>>) \in Ends
      /\ Writer(<<t, "w">>) \in Ends
  BY Names, EndsOfPair
<1> QED
  BY <1>1 DEF InArray

\* A step that leaves the pairs alone and brings nobody to read from one.
LEMMA TypesStay ==
  ASSUME RunTyped, UNCHANGED chan,
         pc' \in [Threads -> Away \cup Inside],
         \A t \in Logics : pc'[t] = "input" => pc[t] = "input",
         shutEnds' \subseteq Ends,
         toClose' \in [Logics -> Seq(Ends)], \A t \in Logics : Len(toClose'[t]) <= 3,
         listed' \in [Logics -> BOOLEAN], gate' \in [Logics -> BOOLEAN],
         left' \in [Logics -> 0..Conns], met' \in BOOLEAN, endProxy' \in BOOLEAN,
         process' \in {"up", "returned", "gone"}, WritingTyped'
  PROVE  RunTyped'
  BY DEF RunTyped, MessageWaits

\* A step that gives no handler a message to write.
LEMMA WritingStays ==
  ASSUME RunTyped, UNCHANGED <<due, back>>, wrote' \in [Logics -> Nat],
         process = "gone" => process' = "gone",
         \A t \in Logics : pc'[t] \in Writers => pc[t] \in Writers
  PROVE  WritingTyped'
  BY DEF RunTyped, WritingTyped

\* A step that does.
LEMMA WritingBegins ==
  ASSUME RunTyped, process = "up", NEW t \in Logics, NEW n \in 1 .. Conns + 2, NEW next \in {"serve", "poll"},
         Writes(t, n, next), wrote' \in [Logics -> Nat]
  PROVE  WritingTyped' /\ pc' = [pc EXCEPT ![t] = "peer"]
<1>1. due' \in [Logics -> 0 .. Conns + 2] /\ due'[t] = n
  BY RunAssumption DEF Writes, RunTyped, WritingTyped
<1>2. \A u \in Logics : u # t => due'[u] = due[u] /\ pc'[u] = pc[u]
  BY Names DEF Writes, RunTyped, WritingTyped
<1>3. back' \in [Logics -> {"serve", "poll"}]
  BY DEF Writes, RunTyped, WritingTyped
<1>4. \A u \in Logics : pc'[u] \in Writers => due'[u] > 0
  <2>1. \A u \in Logics : pc[u] \in Writers => due[u] > 0
    BY DEF RunTyped, WritingTyped
  <2> QED
    BY <1>1, <1>2, <2>1
<1> QED
  BY <1>1, <1>3, <1>4 DEF WritingTyped, Writes

LEMMA MainTypes == ASSUME RunTyped, Main PROVE RunTyped'
<1>1. UNCHANGED <<chan, toClose, listed, gate, left, due, back, wrote, met, endProxy>>
  BY DEF Main, Start, Join, ClosePairs, turn, writing
<1>2. /\ pc' \in [Threads -> Away \cup Inside]
      /\ \A t \in Logics : pc'[t] = "input" => pc[t] = "input"
      /\ \A t \in Logics : pc'[t] \in Writers => pc[t] \in Writers
  <2>1. pc' = pc \/ \E u, stand : stand \in {"loop", "prepare"} /\ pc' = [pc EXCEPT ![u] = stand]
    BY DEF Main, Start, Join, ClosePairs
  <2> QED
    BY <2>1, Names DEF RunTyped, Away, Writers
<1>3. shutEnds' \subseteq Ends
  <2>1. CASE UNCHANGED shutEnds
    BY <2>1 DEF RunTyped
  <2>2. CASE shutEnds' = {Reader(p) : p \in Pairs} \cup {Writer(p) : p \in Pairs}
    BY <2>2, EndsOfPair
  <2> QED
    BY <2>1, <2>2 DEF Main, Start, Join, ClosePairs
<1>4. process' \in {"up", "returned", "gone"}
  BY DEF Main, Start, Join, ClosePairs, RunTyped
<1>5. WritingTyped'
  BY <1>1, <1>2, WritingStays DEF RunTyped, WritingTyped, Main
<1> QED
  BY <1>1, <1>2, <1>3, <1>4, <1>5, TypesStay DEF RunTyped

\* Steps of a logic thread that neither read nor write.
LEMMA LogicTypes ==
  ASSUME RunTyped, process = "up", NEW t \in Logics,
         \/ Prepare(t) \/ TestEnd(t) \/ TimesOut(t) \/ Fatal(t) \/ DisconnectsOutput(t)
         \/ EndIteration(t) \/ Serve(t) \/ Done(t)
  PROVE  RunTyped'
<1> USE DEF Prepare, TestEnd, LoopTop, TimesOut, Fatal, DisconnectsOutput, EndIteration, Serve,
            Done, turn, writing
<1>1. UNCHANGED <<chan, listed, met>> /\ gate' \in [Logics -> BOOLEAN]
  BY DEF RunTyped
<1>2. wrote' \in [Logics -> Nat]
  <2>1. wrote' = wrote \/ wrote' = [wrote EXCEPT ![t] = 0]
    OBVIOUS
  <2>2. wrote \in [Logics -> Nat]
    BY DEF RunTyped, WritingTyped
  <2> HIDE DEF Prepare, TestEnd, LoopTop, TimesOut, Fatal, DisconnectsOutput, EndIteration,
               Serve, Done
  <2> QED
    BY <2>1, <2>2
<1>3. \/ UNCHANGED <<pc, due, back>>
      \/ UNCHANGED <<due, back>> /\ \E stand \in Away \cup {"serve"} : pc' = [pc EXCEPT ![t] = stand]
      \/ \E n \in 1 .. Conns + 2, next \in {"serve", "poll"} : Writes(t, n, next)
  <2>1. CASE TestEnd(t)
    <3>1. CASE Expires(t)
      BY <3>1, RunAssumption DEF Expires
    <3> QED
      BY <2>1, <3>1 DEF Away
  <2>2. CASE Serve(t)
    <3>1. Most(t) \in 1 .. 2
      BY DEF Most
    <3> QED
      BY <2>2, <3>1, RunAssumption
  <2> QED
    BY <2>1, <2>2 DEF Away
<1>4. /\ pc' \in [Threads -> Away \cup Inside]
      /\ \A u \in Logics : pc'[u] = "input" => pc[u] = "input"
      /\ WritingTyped'
  <2>1. CASE UNCHANGED <<pc, due, back>>
    BY <1>2, <2>1, WritingStays DEF RunTyped
  <2>2. CASE UNCHANGED <<due, back>> /\ \E stand \in Away \cup {"serve"} : pc' = [pc EXCEPT ![t] = stand]
    <3>1. PICK stand \in Away \cup {"serve"} : pc' = [pc EXCEPT ![t] = stand]
      BY <2>2
    <3>2. /\ pc' \in [Threads -> Away \cup Inside]
          /\ \A u \in Logics : pc'[u] = pc[u] \/ pc'[u] \in Away \cup {"serve"}
      BY <3>1, Names DEF RunTyped, Inside
    <3>3. \A u \in Logics : /\ pc'[u] = "input" => pc[u] = "input"
                            /\ pc'[u] \in Writers => pc[u] \in Writers
      BY <3>2 DEF Away, Writers
    <3>4. WritingTyped'
      <4> HIDE DEF Prepare, TestEnd, LoopTop, TimesOut, Fatal, DisconnectsOutput, EndIteration,
                   Serve, Done
      <4>1. \A u \in Logics : pc'[u] \in Writers => pc[u] \in Writers
        BY <3>3
      <4> QED
        BY <1>2, <2>2, <4>1, WritingStays
    <3> HIDE DEF Prepare, TestEnd, LoopTop, TimesOut, Fatal, DisconnectsOutput, EndIteration,
                 Serve, Done
    <3> QED
      BY <3>2, <3>3, <3>4
  <2>3. ASSUME NEW n \in 1 .. Conns + 2, NEW next \in {"serve", "poll"}, Writes(t, n, next)
        PROVE  /\ pc' \in [Threads -> Away \cup Inside]
               /\ \A u \in Logics : pc'[u] = "input" => pc[u] = "input"
               /\ WritingTyped'
    <3>1. WritingTyped' /\ pc' = [pc EXCEPT ![t] = "peer"]
      BY <1>2, <2>3, WritingBegins
    <3> QED
      BY <3>1, Names DEF RunTyped, Inside
  <2> QED
    BY <1>3, <2>1, <2>2, <2>3
<1>5. /\ shutEnds' \subseteq Ends
      /\ toClose' \in [Logics -> Seq(Ends)]
      /\ \A u \in Logics : Len(toClose'[u]) <= 3
  <2>1. toClose[t] \in Seq(Ends) /\ Len(toClose[t]) <= 3
    BY DEF RunTyped
  <2>2. CASE UNCHANGED <<shutEnds, toClose>>
    BY <2>2 DEF RunTyped
  <2>3. CASE toClose' = [toClose EXCEPT ![t] = InArray(t)] /\ UNCHANGED shutEnds
    BY <2>3, InArrayType DEF RunTyped
  <2>4. CASE /\ toClose[t] # <<>> /\ shutEnds' = shutEnds \cup {Head(toClose[t])}
             /\ toClose' = [toClose EXCEPT ![t] = Tail(@)]
    <3>1. Head(toClose[t]) \in Ends /\ Tail(toClose[t]) \in Seq(Ends) /\ Len(Tail(toClose[t])) <= 3
      BY <2>1, <2>4
    <3> QED
      BY <2>4, <3>1 DEF RunTyped
  <2> QED
    BY <2>2, <2>3, <2>4
<1>6. left' \in [Logics -> 0..Conns]
  <2>1. \/ left' = left
        \/ left[t] > 0 /\ left' = [left EXCEPT ![t] = left[t] - 1]
    OBVIOUS
  <2>2. left[t] \in 0..Conns
    BY DEF RunTyped
  <2>3. left[t] > 0 => left[t] - 1 \in 0..Conns
    BY <2>2, RunAssumption
  <2> QED
    BY <2>1, <2>3 DEF RunTyped
<1>7. endProxy' \in BOOLEAN /\ process' \in {"up", "returned", "gone"}
  BY DEF RunTyped
<1>8. listed' \in [Logics -> BOOLEAN] /\ met' \in BOOLEAN
  BY <1>1 DEF RunTyped
<1> QED
  BY <1>1, <1>4, <1>5, <1>6, <1>7, <1>8, TypesStay

LEMMA PollTypes == ASSUME RunTyped, process = "up", NEW t \in Logics, PollReturns(t) PROVE RunTyped'
<1> DEFINE stand == IF chan[<<Peer(t), t>>] > 0 THEN "input" ELSE "serve"
<1>1. /\ pc' = [pc EXCEPT ![t] = stand]
      /\ UNCHANGED <<chan, shutEnds, toClose, due, back, wrote, met, endProxy, process>>
  BY DEF PollReturns, writing
<1>2. pc' \in [Threads -> Away \cup Inside]
  BY <1>1 DEF RunTyped, Inside
<1>3. MessageWaits'
  BY <1>1, Names DEF RunTyped, MessageWaits
<1>4. listed' \in [Logics -> BOOLEAN] /\ left' \in [Logics -> 0..Conns]
  BY DEF PollReturns, RunTyped
<1>5. gate' \in [Logics -> BOOLEAN]
  <2>1. Gate(t) \in BOOLEAN /\ listed'[t] \in BOOLEAN
    BY <1>4 DEF Gate, Pollout, RunTyped
  <2> QED
    BY <2>1 DEF PollReturns, RunTyped
<1>6. WritingTyped'
  <2>1. \A u \in Logics : pc'[u] \in Writers => pc[u] \in Writers
    BY <1>1, Names DEF RunTyped, Writers
  <2> QED
    BY <1>1, <2>1, WritingStays DEF RunTyped, WritingTyped
<1> QED
  BY <1>1, <1>2, <1>3, <1>4, <1>5, <1>6 DEF RunTyped

\* The pairs other than p are as they were.
LEMMA OnePairTyped ==
  ASSUME RunTyped, NEW p \in Pairs, NEW n \in 0..Cap, chan' = [chan EXCEPT ![p] = n]
  PROVE  /\ chan' \in [Pairs -> 0..Cap] /\ chan'[p] = n
         /\ \A q \in Pairs : q # p => chan'[q] = chan[q]
  BY DEF RunTyped

LEMMA InputTypes == ASSUME RunTyped, process = "up", NEW t \in Logics, ReadInput(t) PROVE RunTyped'
<1> DEFINE in == <<Peer(t), t>>
<1>1. in \in Pairs /\ chan[in] \in 0..Cap /\ chan[in] > 0 /\ pc[t] = "input"
  BY Names DEF ReadInput, RunTyped, MessageWaits
<1>2. chan' = [chan EXCEPT ![in] = chan[in] - 1] /\ chan[in] - 1 \in 0..Cap
  BY <1>1, RunAssumption DEF ReadInput
<1>3. chan' \in [Pairs -> 0..Cap] /\ \A q \in Pairs : q # in => chan'[q] = chan[q]
  BY <1>1, <1>2, OnePairTyped
<1>4. PICK stand \in {"serve", "peer"} :
         /\ pc' = [pc EXCEPT ![t] = stand]
         /\ (stand = "serve" /\ UNCHANGED <<due, back>>) \/ Writes(t, 1, "serve")
  BY DEF ReadInput, Writes
<1>5. pc' \in [Threads -> Away \cup Inside]
  BY <1>4 DEF RunTyped, Inside
<1>6. MessageWaits'
  <2>1. ASSUME NEW u \in Logics, pc'[u] = "input" PROVE chan'[<<Peer(u), u>>] > 0
    <3>1. u # t /\ pc[u] = "input"
      BY <1>4, <2>1, Names DEF RunTyped
    <3>2. <<Peer(u), u>> # in /\ <<Peer(u), u>> \in Pairs
      BY <3>1, Names
    <3> QED
      BY <1>3, <3>1, <3>2 DEF RunTyped, MessageWaits
  <2> QED
    BY <2>1 DEF MessageWaits
<1>7. WritingTyped'
  <2>1. wrote' \in [Logics -> Nat]
    BY DEF ReadInput, RunTyped, WritingTyped
  <2>2. CASE stand = "serve" /\ UNCHANGED <<due, back>>
    <3>1. \A u \in Logics : pc'[u] \in Writers => pc[u] \in Writers
      BY <1>4, <2>2, Names DEF RunTyped, Writers
    <3> QED
      BY <2>1, <2>2, <3>1, WritingStays
  <2>3. CASE Writes(t, 1, "serve")
    <3>1. 1 \in 1 .. Conns + 2
      BY RunAssumption
    <3> QED
      BY <2>1, <2>3, <3>1, WritingBegins
  <2> QED
    BY <1>4, <2>2, <2>3
<1> QED
  BY <1>3, <1>5, <1>6, <1>7 DEF ReadInput, RunTyped

LEMMA WriteTypes ==
  ASSUME RunTyped, process = "up", NEW t \in Logics, NEW p \in Pairs,
         NEW next \in (Inside \ {"input"}) \cup {"poll"},
         Write(t, p, next), WritingTyped',
         UNCHANGED <<main, shutEnds, toClose, listed, gate, left, met, endProxy>>
  PROVE  RunTyped'
<1>1. CASE UNCHANGED <<chan, pc>>
  BY <1>1, TypesStay DEF RunTyped, Write
<1>2. CASE /\ chan[p] < Cap /\ chan' = [chan EXCEPT ![p] = @ + 1]
           /\ pc' = [pc EXCEPT ![t] = next] /\ UNCHANGED process
  <2>1. chan[p] + 1 \in 0..Cap /\ chan[p] \in 0..Cap
    BY <1>2, RunAssumption DEF RunTyped
  <2>2. /\ chan' \in [Pairs -> 0..Cap] /\ chan'[p] = chan[p] + 1
        /\ \A q \in Pairs : q # p => chan'[q] = chan[q]
    BY <1>2, <2>1, OnePairTyped
  <2>3. pc' \in [Threads -> Away \cup Inside] /\ \A u \in Logics : pc'[u] = "input" => pc[u] = "input"
    BY <1>2, Names DEF RunTyped, Away
  <2>4. MessageWaits'
    <3>1. ASSUME NEW u \in Logics, pc'[u] = "input" PROVE chan'[<<Peer(u), u>>] > 0
      <4>1. <<Peer(u), u>> \in Pairs /\ chan[<<Peer(u), u>>] > 0
        BY <2>3, <3>1, Names DEF RunTyped, MessageWaits
      <4> QED
        BY <2>1, <2>2, <4>1
    <3> QED
      BY <3>1 DEF MessageWaits
  <2> QED
    BY <1>2, <2>2, <2>3, <2>4 DEF RunTyped
<1> QED
  BY <1>1, <1>2 DEF Write

LEMMA SendTypes == ASSUME RunTyped, process = "up", NEW t \in Logics, SendData(t) PROVE RunTyped'
<1>1. back[t] \in {"serve", "poll"} /\ due[t] \in 0 .. Conns + 2 /\ pc[t] \in Writers /\ due[t] > 0
  BY DEF RunTyped, WritingTyped, SendData, Writers
<1>2. CASE /\ pc[t] = "peer" /\ Write(t, <<t, Peer(t)>>, "worker")
           /\ UNCHANGED <<due, wrote>>
  <2>1. \A u \in Logics : pc'[u] \in Writers => pc[u] \in Writers
    BY <1>1, <1>2, Names DEF RunTyped, Write
  <2>2. WritingTyped'
    BY <1>2, <2>1, WritingStays DEF SendData, RunTyped, WritingTyped
  <2>3. "worker" \in (Inside \ {"input"}) \cup {"poll"}
    BY DEF Inside
  <2> QED
    BY <1>2, <2>2, <2>3, Names, WriteTypes DEF SendData
<1>3. CASE /\ pc[t] = "worker" /\ Write(t, <<t, "w">>, AfterMessage(t))
           /\ due' = [due EXCEPT ![t] = @ - 1]
           /\ wrote' = [wrote EXCEPT ![t] = IF gate[t] THEN @ + 1 ELSE @]
  <2>1. AfterMessage(t) \in {"peer", "serve", "poll"}
    BY <1>1 DEF AfterMessage
  <2>2. due' \in [Logics -> 0 .. Conns + 2] /\ wrote' \in [Logics -> Nat] /\ back' = back
    <3>1. due[t] - 1 \in 0 .. Conns + 2
      BY <1>1, RunAssumption
    <3> QED
      BY <1>3, <3>1 DEF SendData, RunTyped, WritingTyped
  <2>3. ASSUME process' # "gone", NEW u \in Logics, pc'[u] \in Writers PROVE due'[u] > 0
    <3>1. pc' = [pc EXCEPT ![t] = AfterMessage(t)]
      BY <1>3, <2>3 DEF Write
    <3>2. CASE u = t
      <4>1. pc'[t] = AfterMessage(t)
        BY <3>1, Names DEF RunTyped
      <4>2. due[t] > 1
        BY <2>3, <3>2, <4>1, <1>1 DEF AfterMessage, Writers
      <4>3. due'[t] = due[t] - 1
        BY <1>3 DEF RunTyped, WritingTyped
      <4> QED
        BY <1>1, <3>2, <4>2, <4>3
    <3>3. CASE u # t
      <4>1. pc'[u] = pc[u] /\ due'[u] = due[u]
        BY <1>3, <3>1, <3>3, Names DEF RunTyped, WritingTyped
      <4> QED
        BY <2>3, <4>1 DEF RunTyped, WritingTyped
    <3> QED
      BY <3>2, <3>3
  <2>4. WritingTyped'
    BY <2>2, <2>3 DEF RunTyped, WritingTyped
  <2>5. AfterMessage(t) \in (Inside \ {"input"}) \cup {"poll"}
    BY <2>1 DEF Inside
  <2> QED
    BY <1>3, <2>4, <2>5, Names, WriteTypes DEF SendData
<1> QED
  BY <1>2, <1>3 DEF SendData

LEMMA WorkerTypes == ASSUME RunTyped, Worker PROVE RunTyped'
<1>1. UNCHANGED <<shutEnds, toClose, listed, gate, left, due, back, wrote, met, process>>
  BY DEF Worker, WorkerGoes, WorkerReads, WorkerHangsUp, WorkerTimesOut, WorkerPollFails, turn,
     writing
<1>2. /\ pc' \in [Threads -> Away \cup Inside]
      /\ \A t \in Logics : pc'[t] = pc[t]
      /\ endProxy' \in BOOLEAN
  BY DEF Worker, WorkerGoes, WorkerReads, WorkerHangsUp, WorkerTimesOut, WorkerPollFails,
     NextTurn, RunTyped, Away, Logics, Threads
<1>3. ASSUME NEW read \in SUBSET Heard, chan' = Less(read)
      PROVE  /\ chan' \in [Pairs -> 0..Cap]
             /\ \A t \in Logics : chan'[<<Peer(t), t>>] = chan[<<Peer(t), t>>]
  <2>1. \A p \in Pairs : p \in read => p[2] = "w" /\ chan[p] > 0
    BY <1>3 DEF Heard
  <2>2. \A p \in Pairs : chan[p] \in 0..Cap
    BY DEF RunTyped
  <2>3. \A t \in Logics : <<Peer(t), t>> \notin read
    BY <2>1, Names
  <2>4. ASSUME NEW p \in Pairs
        PROVE  chan'[p] \in 0..Cap /\ (p \notin read => chan'[p] = chan[p])
    BY <1>3, <2>1, <2>2, RunAssumption DEF Less
  <2>5. chan' = [p \in Pairs |-> chan'[p]]
    BY <1>3 DEF Less
  <2>6. chan' \in [Pairs -> 0..Cap]
    BY <2>4, <2>5
  <2> QED
    BY <2>3, <2>4, <2>6, Names
<1>4. chan' = chan \/ \E read \in SUBSET Heard : chan' = Less(read)
  BY DEF Worker, WorkerGoes, WorkerReads, WorkerHangsUp, WorkerTimesOut, WorkerPollFails
<1>5. /\ chan' \in [Pairs -> 0..Cap]
      /\ \A t \in Logics : chan'[<<Peer(t), t>>] = chan[<<Peer(t), t>>]
  <2>1. CASE chan' = chan
    BY <2>1 DEF RunTyped
  <2> QED
    BY <1>3, <1>4, <2>1
<1>6. MessageWaits'
  BY <1>2, <1>5 DEF RunTyped, MessageWaits
<1>7. WritingTyped'
  BY <1>1, <1>2 DEF RunTyped, WritingTyped
<1> QED
  BY <1>1, <1>2, <1>5, <1>6, <1>7 DEF RunTyped

LEMMA RunTypedStep == RunTyped /\ [Next]_vars => RunTyped'
<1> SUFFICES ASSUME RunTyped, [Next]_vars PROVE RunTyped'
  OBVIOUS
<1>1. CASE UNCHANGED vars
  BY <1>1, TypesStay DEF vars, turn, RunTyped, WritingTyped
<1>2. ASSUME NEW t \in Logics, Logic(t) PROVE RunTyped'
  BY <1>2, LogicTypes, PollTypes, InputTypes, SendTypes DEF Logic
<1> QED
  BY <1>1, <1>2, MainTypes, WorkerTypes DEF Next

-----------------------------------------------------------------------------
(* The gate.                                                               *)

\* What an iteration with the gate open has room for.
Room(t) ==
    gate[t] /\ pc[t] \in Inside =>
        \A r \in {Peer(t), "w"} : 4 * chan[<<t, r>>] <= Cap + 4 * Written(t, r)

\* Before poll() the gate is closed.
Shut(t) ==
    /\ pc[t] = "poll" => ~gate[t]
    /\ process # "gone" /\ pc[t] \in Writers /\ back[t] = "poll" => ~gate[t]

RoomInv == \A t \in Logics : Room(t) /\ Shut(t)

LEMMA Outgoing ==
  ASSUME NEW t \in Logics, NEW r \in {Peer(t), "w"}
  PROVE  /\ <<t, r>> \in Pairs
         /\ RunTyped => chan[<<t, r>>] \in Nat
<1>1. <<t, r>> \in Pairs
  BY Names
<1> QED
  BY <1>1, RunAssumption DEF RunTyped

LEMMA RoomInit == Init => RoomInv
<1> SUFFICES ASSUME Init PROVE RoomInv
  OBVIOUS
<1>1. \A t \in Logics : pc[t] = "absent"
  BY Names DEF Init
<1> QED
  BY <1>1 DEF RoomInv, Room, Shut, Inside, Writers

\* A thread that keeps its place and its gate keeps its room, if nobody writes for it.
LEMMA RoomKept ==
  ASSUME RunTyped, RunTyped', NEW t \in Logics, Room(t), Shut(t),
         gate'[t] = gate[t], wrote'[t] = wrote[t], back'[t] = back[t],
         process = "gone" => process' = "gone",
         pc'[t] = pc[t] \/ pc'[t] \in Away \ {"poll"},
         \A r \in {Peer(t), "w"} : chan'[<<t, r>>] <= chan[<<t, r>>]
  PROVE  Room(t)' /\ Shut(t)'
<1>1. Shut(t)'
  BY DEF Shut, Away, Writers
<1>2. ASSUME gate'[t], pc'[t] \in Inside, NEW r \in {Peer(t), "w"}
      PROVE  4 * chan'[<<t, r>>] <= Cap + 4 * Written(t, r)'
  <2>1. pc'[t] = pc[t]
    BY <1>2 DEF Inside, Away
  <2>2. 4 * chan[<<t, r>>] <= Cap + 4 * Written(t, r)
    BY <1>2, <2>1 DEF Room
  <2>3. Written(t, r)' = Written(t, r) /\ Written(t, r) \in Nat
    BY <2>1 DEF Written, RunTyped, WritingTyped
  <2>4. chan[<<t, r>>] \in Nat /\ chan'[<<t, r>>] \in Nat
    <3>1. <<t, r>> \in Pairs
      BY Outgoing
    <3> QED
      BY <3>1, RunAssumption DEF RunTyped
  <2> QED
    BY <2>2, <2>3, <2>4, RunAssumption
<1> QED
  BY <1>1, <1>2 DEF Room

LEMMA RoomMain ==
  ASSUME RunTyped, RunTyped', RoomInv, Main, NEW t \in Logics
  PROVE  Room(t)' /\ Shut(t)'
<1>1. UNCHANGED <<chan, gate, wrote, back>> /\ process = "up"
  BY DEF Main, Start, Join, ClosePairs, turn, writing
<1>2. pc'[t] = pc[t] \/ pc'[t] \in Away \ {"poll"}
  <2>1. pc' = pc \/ \E u, stand : stand \in {"loop", "prepare"} /\ pc' = [pc EXCEPT ![u] = stand]
    BY DEF Main, Start, Join, ClosePairs
  <2> QED
    BY <2>1, Names DEF RunTyped, Away
<1>3. \A r \in {Peer(t), "w"} : chan'[<<t, r>>] <= chan[<<t, r>>]
  <2> SUFFICES ASSUME NEW r \in {Peer(t), "w"} PROVE chan'[<<t, r>>] <= chan[<<t, r>>]
    OBVIOUS
  <2>1. chan[<<t, r>>] \in Nat
    BY Outgoing
  <2> QED
    BY <1>1, <2>1
<1> QED
  BY <1>1, <1>2, <1>3, RoomKept DEF RoomInv

LEMMA RoomWorker ==
  ASSUME RunTyped, RunTyped', RoomInv, Worker, NEW t \in Logics
  PROVE  Room(t)' /\ Shut(t)'
<1> USE DEF Worker, WorkerGoes, WorkerReads, WorkerHangsUp, WorkerTimesOut, WorkerPollFails
<1>1. UNCHANGED <<gate, wrote, back>> /\ process = "up"
  BY DEF turn, writing
<1>2. pc'[t] = pc[t]
  BY Names DEF RunTyped
<1>3. chan' = chan \/ \E read \in SUBSET Pairs : chan' = Less(read)
  BY DEF Heard
<1>4. \A r \in {Peer(t), "w"} : chan'[<<t, r>>] <= chan[<<t, r>>]
  <2>1. \A p \in Pairs : chan[p] \in Nat
    BY DEF RunTyped
  <2>2. \A p \in Pairs : chan'[p] <= chan[p]
    BY <1>3, <2>1 DEF Less
  <2> QED
    BY <2>2, Names
<1> QED
  BY <1>1, <1>2, <1>4, RoomKept DEF RoomInv

\* A step of the other thread reads from a pair of this one, or leaves them alone.
LEMMA RoomOther ==
  ASSUME RunTyped, RunTyped', RoomInv, process = "up", NEW u \in Logics, Logic(u),
         NEW t \in Logics, t # u
  PROVE  Room(t)' /\ Shut(t)'
<1> USE DEF Logic, Prepare, TestEnd, LoopTop, Expires, Writes, PollReturns, TimesOut, Fatal,
            DisconnectsOutput, ReadInput, Serve, EndIteration, SendData, Write, Done, turn, writing
<1>1. gate'[t] = gate[t]
  BY DEF RunTyped
<1>2. wrote'[t] = wrote[t]
  BY DEF RunTyped, WritingTyped
<1>3. back'[t] = back[t]
  BY DEF RunTyped, WritingTyped
<1>4. pc'[t] = pc[t]
  <2>1. pc' = pc \/ \E stand : pc' = [pc EXCEPT ![u] = stand]
    OBVIOUS
  <2> QED
    BY <2>1, Names DEF RunTyped
<1>5. \/ chan' = chan
      \/ chan' = [chan EXCEPT ![<<Peer(u), u>>] = @ - 1]
      \/ \E r \in {Peer(u), "w"} : chan' = [chan EXCEPT ![<<u, r>>] = @ + 1]
  OBVIOUS
<1>6. \A r \in {Peer(t), "w"} : chan'[<<t, r>>] <= chan[<<t, r>>]
  <2> SUFFICES ASSUME NEW r \in {Peer(t), "w"} PROVE chan'[<<t, r>>] <= chan[<<t, r>>]
    OBVIOUS
  <2>1. <<t, r>> \in Pairs /\ chan[<<t, r>>] \in Nat
    BY Outgoing
  <2>2. CASE chan' = chan
    BY <2>1, <2>2
  <2>3. CASE chan' = [chan EXCEPT ![<<Peer(u), u>>] = @ - 1]
    <3>1. chan'[<<t, r>>] \in {chan[<<t, r>>], chan[<<t, r>>] - 1}
      BY <2>1, <2>3 DEF RunTyped
    <3> QED
      BY <2>1, <3>1
  <2>4. ASSUME NEW s \in {Peer(u), "w"}, chan' = [chan EXCEPT ![<<u, s>>] = @ + 1]
        PROVE  chan'[<<t, r>>] <= chan[<<t, r>>]
    <3>1. <<t, r>> # <<u, s>>
      OBVIOUS
    <3>2. chan'[<<t, r>>] = chan[<<t, r>>]
      BY <2>1, <2>4, <3>1 DEF RunTyped
    <3> QED
      BY <2>1, <3>2
  <2> HIDE DEF Logic, Prepare, TestEnd, LoopTop, Expires, Writes, PollReturns, TimesOut, Fatal,
            DisconnectsOutput, ReadInput, Serve, EndIteration, SendData, Write, Done
  <2> QED
    BY <1>5, <2>2, <2>3, <2>4
<1> QED
  BY <1>1, <1>2, <1>3, <1>4, <1>6, RoomKept DEF RoomInv

\* Steps that leave an iteration, or close the gate.
LEMMA RoomAway ==
  ASSUME RunTyped, RunTyped', RoomInv, process = "up", NEW t \in Logics,
         \/ Prepare(t) \/ TestEnd(t) \/ TimesOut(t) \/ Fatal(t) \/ DisconnectsOutput(t)
         \/ EndIteration(t) \/ Done(t)
  PROVE  Room(t)' /\ Shut(t)'
<1>1. CASE TestEnd(t)
  <2>1. gate'[t] = FALSE
    BY <1>1 DEF TestEnd, RunTyped
  <2> QED
    BY <2>1 DEF Room, Shut
<1>2. CASE ~TestEnd(t)
  <2> USE DEF Prepare, TimesOut, Fatal, DisconnectsOutput, EndIteration, Done, turn, writing
  <2>1. UNCHANGED <<chan, gate, wrote, back>>
    BY <1>2
  <2>2. pc'[t] = pc[t] \/ pc'[t] \in Away \ {"poll"}
    BY <1>2, Names DEF RunTyped, Away
  <2>3. \A r \in {Peer(t), "w"} : chan'[<<t, r>>] <= chan[<<t, r>>]
    <3> SUFFICES ASSUME NEW r \in {Peer(t), "w"} PROVE chan'[<<t, r>>] <= chan[<<t, r>>]
      OBVIOUS
    <3>1. chan[<<t, r>>] \in Nat
      BY Outgoing
    <3> QED
      BY <2>1, <3>1
  <2> QED
    BY <2>1, <2>2, <2>3, RoomKept DEF RoomInv
<1> QED
  BY <1>1, <1>2

LEMMA RoomPoll ==
  ASSUME RunTyped, RunTyped', RoomInv, process = "up", NEW t \in Logics, PollReturns(t)
  PROVE  Room(t)' /\ Shut(t)'
<1>1. ~gate[t]
  BY DEF PollReturns, RoomInv, Shut
<1>2. gate'[t] => Gate(t)
  BY <1>1 DEF PollReturns, RunTyped
<1>3. pc'[t] \in {"input", "serve"} /\ UNCHANGED <<chan, wrote>>
  BY Names DEF PollReturns, RunTyped, writing
<1>4. ASSUME Gate(t), NEW r \in {Peer(t), "w"}
      PROVE  4 * chan'[<<t, r>>] <= Cap + 4 * Written(t, r)'
  <2>1. 4 * chan[<<t, r>>] <= Cap
    BY <1>4 DEF Gate, Pollout
  <2>2. Written(t, r)' = wrote[t] /\ wrote[t] \in Nat
    BY <1>3 DEF Written, RunTyped, WritingTyped
  <2>3. chan[<<t, r>>] \in Nat
    BY Outgoing
  <2> QED
    BY <1>3, <2>1, <2>2, <2>3, RunAssumption
<1> QED
  BY <1>2, <1>3, <1>4 DEF Room, Shut, Writers

\* Reading, and beginning to write.
LEMMA RoomTurn ==
  ASSUME RunTyped, RunTyped', RoomInv, process = "up", NEW t \in Logics, ReadInput(t) \/ Serve(t)
  PROVE  Room(t)' /\ Shut(t)'
<1>1. UNCHANGED <<gate, wrote>>
  BY DEF ReadInput, Serve
<1>2. pc[t] \in {"input", "serve"} /\ pc'[t] \in {"input", "serve", "peer"}
  BY Names DEF ReadInput, Serve, Writes, RunTyped
<1>3. pc'[t] = "peer" /\ pc[t] # "peer" => back'[t] = "serve"
  BY Names DEF ReadInput, Serve, Writes, RunTyped, WritingTyped
<1>4. Shut(t)'
  BY <1>1, <1>2, <1>3 DEF Shut, Writers
<1>5. ASSUME gate'[t], NEW r \in {Peer(t), "w"}
      PROVE  4 * chan'[<<t, r>>] <= Cap + 4 * Written(t, r)'
  <2>1. 4 * chan[<<t, r>>] <= Cap + 4 * Written(t, r)
    BY <1>1, <1>2, <1>5 DEF RoomInv, Room, Inside
  <2>2. Written(t, r)' = wrote[t] /\ Written(t, r) = wrote[t]
    BY <1>1, <1>2 DEF Written, RunTyped, WritingTyped
  <2>3. chan'[<<t, r>>] = chan[<<t, r>>]
    BY Names DEF ReadInput, Serve, RunTyped
  <2> QED
    BY <2>1, <2>2, <2>3
<1> QED
  BY <1>4, <1>5 DEF Room

LEMMA RoomSend ==
  ASSUME RunTyped, RunTyped', RoomInv, process = "up", NEW t \in Logics, SendData(t)
  PROVE  Room(t)' /\ Shut(t)'
<1>1. UNCHANGED <<gate, back>> /\ gate[t] \in BOOLEAN /\ wrote[t] \in Nat /\ wrote'[t] \in Nat
  BY DEF SendData, RunTyped, WritingTyped
<1>2. pc[t] \in Writers /\ Room(t) /\ Shut(t) /\ back[t] \in {"serve", "poll"}
  BY DEF SendData, Writers, RoomInv, RunTyped, WritingTyped
<1>3. CASE process' = "gone"
  <2>1. UNCHANGED <<chan, pc>>
    BY <1>3 DEF SendData, Write
  <2>2. Shut(t)'
    BY <1>1, <1>2, <1>3, <2>1 DEF Shut, Writers
  <2>3. ASSUME gate'[t], NEW r \in {Peer(t), "w"}
        PROVE  4 * chan'[<<t, r>>] <= Cap + 4 * Written(t, r)'
    <3>1. 4 * chan[<<t, r>>] <= Cap + 4 * Written(t, r)
      BY <1>1, <1>2, <2>3 DEF Room, Inside, Writers
    <3>2. wrote'[t] \in {wrote[t], wrote[t] + 1}
      BY DEF SendData, RunTyped, WritingTyped
    <3>3. /\ Written(t, r) \in Nat /\ Written(t, r)' \in Nat
          /\ Written(t, r) <= Written(t, r)'
      BY <1>1, <2>1, <3>2 DEF Written
    <3>4. chan[<<t, r>>] \in Nat /\ chan' = chan
      BY <2>1, Outgoing
    <3> QED
      BY <3>1, <3>3, <3>4, RunAssumption
  <2> QED
    BY <2>2, <2>3 DEF Room
<1>4. CASE /\ pc[t] = "peer" /\ UNCHANGED wrote
           /\ chan' = [chan EXCEPT ![<<t, Peer(t)>>] = @ + 1]
           /\ pc'[t] = "worker" /\ process' = "up"
  <2>1. Shut(t)'
    BY <1>1, <1>2, <1>4 DEF Shut, Writers
  <2>2. ASSUME gate'[t], NEW r \in {Peer(t), "w"}
        PROVE  4 * chan'[<<t, r>>] <= Cap + 4 * Written(t, r)'
    <3>1. 4 * chan[<<t, r>>] <= Cap + 4 * Written(t, r)
      BY <1>1, <1>2, <2>2 DEF Room, Inside, Writers
    <3>2. Written(t, r) = wrote[t] /\ Written(t, r)' = wrote[t] + (IF r # "w" THEN 1 ELSE 0)
      BY <1>1, <1>4 DEF Written
    <3>3. chan[<<t, r>>] \in Nat /\ chan'[<<t, r>>] = chan[<<t, r>>] + (IF r # "w" THEN 1 ELSE 0)
      <4>1. <<t, r>> \in Pairs /\ <<t, Peer(t)>> \in Pairs /\ chan[<<t, r>>] \in Nat
        BY Outgoing, Names
      <4>2. r = Peer(t) <=> r # "w"
        BY Names
      <4>3. chan'[<<t, r>>] = IF r = Peer(t) THEN chan[<<t, r>>] + 1 ELSE chan[<<t, r>>]
        BY <1>4, <4>1 DEF RunTyped
      <4> QED
        BY <4>1, <4>2, <4>3
    <3> QED
      BY <1>1, <3>1, <3>2, <3>3, RunAssumption
  <2> QED
    BY <2>1, <2>2 DEF Room
<1>5. CASE /\ pc[t] = "worker" /\ wrote' = [wrote EXCEPT ![t] = IF gate[t] THEN @ + 1 ELSE @]
           /\ chan' = [chan EXCEPT ![<<t, "w">>] = @ + 1]
           /\ pc'[t] = AfterMessage(t) /\ process' = "up"
  <2>1. pc'[t] = "peer" \/ pc'[t] = back[t]
    BY <1>5 DEF AfterMessage
  <2>2. Shut(t)'
    BY <1>1, <1>2, <1>5, <2>1 DEF Shut, Writers
  <2>3. ASSUME gate'[t], NEW r \in {Peer(t), "w"}
        PROVE  4 * chan'[<<t, r>>] <= Cap + 4 * Written(t, r)'
    <3>1. 4 * chan[<<t, r>>] <= Cap + 4 * Written(t, r)
      BY <1>1, <1>2, <2>3 DEF Room, Inside, Writers
    <3>2. wrote'[t] = wrote[t] + 1 /\ pc'[t] # "worker"
      BY <1>1, <1>2, <1>5, <2>1, <2>3 DEF RunTyped, WritingTyped
    <3>3. /\ Written(t, r)' = wrote[t] + 1
          /\ Written(t, r) = wrote[t] + (IF r # "w" THEN 1 ELSE 0)
      BY <1>1, <1>5, <3>2 DEF Written
    <3>4. chan[<<t, r>>] \in Nat /\ chan'[<<t, r>>] = chan[<<t, r>>] + (IF r = "w" THEN 1 ELSE 0)
      <4>1. <<t, r>> \in Pairs /\ <<t, "w">> \in Pairs /\ chan[<<t, r>>] \in Nat
        BY Outgoing, Names
      <4>2. chan'[<<t, r>>] = IF r = "w" THEN chan[<<t, r>>] + 1 ELSE chan[<<t, r>>]
        BY <1>5, <4>1 DEF RunTyped
      <4> QED
        BY <4>1, <4>2
    <3> QED
      BY <1>1, <3>1, <3>3, <3>4, RunAssumption
  <2> QED
    BY <2>2, <2>3 DEF Room
<1> QED
  BY <1>3, <1>4, <1>5, Names DEF SendData, Write, RunTyped

LEMMA RoomStep == ASSUME RunTyped, RunTyped', RoomInv, [Next]_vars PROVE RoomInv'
<1>1. CASE UNCHANGED vars
  BY <1>1 DEF vars, RoomInv, Room, Shut, Written
<1>2. ASSUME NEW t \in Logics, Main \/ Worker \/ \E u \in Logics : Logic(u)
      PROVE  Room(t)' /\ Shut(t)'
  <2>1. ASSUME NEW u \in Logics, Logic(u) PROVE Room(t)' /\ Shut(t)'
    <3>1. CASE u = t
      BY <2>1, <3>1, RoomAway, RoomPoll, RoomTurn, RoomSend DEF Logic
    <3>2. CASE u # t
      BY <2>1, <3>2, RoomOther DEF Logic
    <3> QED
      BY <3>1, <3>2
  <2> QED
    BY <1>2, <2>1, RoomMain, RoomWorker
<1> QED
  BY <1>1, <1>2 DEF Next, RoomInv

LEMMA GateInvariant == Spec => [](RunTyped /\ RoomInv)
<1>1. Init => RunTyped /\ RoomInv
  BY RunTypedInit, RoomInit
<1>2. (RunTyped /\ RoomInv) /\ [Next]_vars => (RunTyped /\ RoomInv)'
  BY RunTypedStep, RoomStep
<1> QED
  BY <1>1, <1>2, PTL DEF Spec

\* For any capacity and any number of connections, what an iteration finds in its pairs beside
\* its own writes stays within the quarter POLLOUT vouched for, although other handlers write
\* before poll() and beside the gate (s_write_enable, w_write_enable, cleared on every turn).
THEOREM TurnAlwaysHasRoom == Spec => []TurnHasRoom
<1>1. RunTyped /\ RoomInv => TurnHasRoom
  BY DEF RoomInv, Room, TurnHasRoom, Inside
<1> QED
  BY <1>1, GateInvariant, PTL

\* A write() that blocks is one of a handler that does not look at the gate, in an iteration
\* that found it closed, or follows three quarters of a pair written by the same iteration.
THEOREM BlockedAlwaysForAReason == Spec => []BlockedForAReason
<1>1. ASSUME RunTyped, RoomInv, NEW t \in Logics, NEW r \in {Peer(t), "w"},
             pc[t] = (IF r = "w" THEN "worker" ELSE "peer"), chan[<<t, r>>] = Cap, gate[t]
      PROVE  4 * wrote[t] >= 3 * Cap
  <2>1. 4 * chan[<<t, r>>] <= Cap + 4 * Written(t, r)
    BY <1>1 DEF RoomInv, Room, Inside
  <2>2. Written(t, r) = wrote[t] /\ wrote[t] \in Nat
    BY <1>1, Names DEF Written, RunTyped, WritingTyped
  <2> QED
    BY <1>1, <2>1, <2>2, RunAssumption
<1>2. RunTyped /\ RoomInv => BlockedForAReason
  <2> SUFFICES ASSUME RunTyped, RoomInv PROVE BlockedForAReason
    OBVIOUS
  <2>1. \A t \in Logics : gate[t] \in BOOLEAN
    BY DEF RunTyped
  <2> QED
    BY <1>1, <2>1 DEF BlockedForAReason
<1> QED
  BY <1>2, GateInvariant, PTL

-----------------------------------------------------------------------------
(* The order in which run() starts, joins and closes.                      *)

\* The place of a thread among those that are started, and among those that are joined.
Rank(t) == IF t = "s" THEN 1 ELSE IF t = "c" THEN 2 ELSE 3
ChoresFrom(n) == SubSeq(Chores, n + 1, 7)

\* After n chores: who has been started, and who has ended.
LifeAfter(n) ==
    /\ main = ChoresFrom(n)
    /\ \A t \in Threads : n < Rank(t) => pc[t] = "absent"
    /\ process # "gone" => \A t \in Threads : n >= Rank(t) + 3 => pc[t] = "ended"
    /\ process = "returned" => n = 7

LifeInv == \E n \in 0..7 : LifeAfter(n)

LEMMA ChoresInOrder ==
  /\ ChoresFrom(0) = Chores /\ ChoresFrom(7) = <<>>
  /\ \A n \in 0..6 : /\ ChoresFrom(n) # <<>>
                     /\ Head(ChoresFrom(n)) = Chores[n + 1]
                     /\ Tail(ChoresFrom(n)) = ChoresFrom(n + 1)
<1>1. Chores \in Seq({"start", "join", "close"} \X Threads) /\ Len(Chores) = 7
  BY DEF Chores, Threads, Logics
<1>2. ChoresFrom(0) = Chores
  BY <1>1, SubSeqFull DEF ChoresFrom
<1>3. ChoresFrom(7) = <<>>
  BY SubSeqEmpty DEF ChoresFrom
<1>4. ASSUME NEW n \in 0..6
      PROVE  /\ ChoresFrom(n) # <<>>
             /\ Head(ChoresFrom(n)) = Chores[n + 1]
             /\ Tail(ChoresFrom(n)) = ChoresFrom(n + 1)
  <2>1. n + 1 \in 1..Len(Chores) /\ 7 \in n + 1..Len(Chores)
    BY <1>1
  <2>2. /\ Head(ChoresFrom(n)) = Chores[n + 1]
        /\ Tail(ChoresFrom(n)) = SubSeq(Chores, (n + 1) + 1, 7)
    BY <1>1, <2>1, HeadTailOfSubSeq DEF ChoresFrom
  <2>3. Len(ChoresFrom(n)) = 7 - (n + 1) + 1
    <3>1. \A i \in 1..7 : Chores[i] \in {"start", "join", "close"} \X Threads
      BY <1>1, ElementOfSeq
    <3>2. \A i \in n + 1..7 : Chores[i] \in {"start", "join", "close"} \X Threads
      BY <3>1
    <3>3. n + 1 \in Int /\ n + 1 <= 7
      OBVIOUS
    <3> QED
      BY <3>2, <3>3, SubSeqProperties DEF ChoresFrom
  <2>4. ChoresFrom(n) # <<>>
    BY <2>3
  <2> QED
    BY <2>2, <2>4 DEF ChoresFrom
<1> QED
  BY <1>2, <1>3, <1>4

LEMMA ChoreAt ==
  ASSUME NEW n \in 0..6
  PROVE  /\ Chores[n + 1][1] = "start" => n < 3 /\ Rank(Chores[n + 1][2]) = n + 1
         /\ Chores[n + 1][1] = "join" => n \in 3..5 /\ Rank(Chores[n + 1][2]) + 3 = n + 1
         /\ Chores[n + 1][1] = "close" => n = 6
         /\ Chores[n + 1][2] \in Threads
  BY DEF Chores, Rank, Threads, Logics

LEMMA RankIsOwn ==
  /\ \A t \in Threads : Rank(t) \in 1..3
  /\ \A t, u \in Threads : Rank(t) = Rank(u) => t = u
  BY DEF Rank, Threads, Logics

LEMMA LifeInit == Init => LifeInv
<1> SUFFICES ASSUME Init PROVE LifeAfter(0)
  BY DEF LifeInv
<1>1. main = ChoresFrom(0) /\ process = "up" /\ \A t \in Threads : pc[t] = "absent"
  BY ChoresInOrder DEF Init
<1> QED
  BY <1>1, RankIsOwn DEF LifeAfter

LEMMA LifeMain == ASSUME RunTyped, LifeInv, Main PROVE LifeInv'
<1>1. PICK n \in 0..7 : LifeAfter(n)
  BY DEF LifeInv
<1>2. /\ n \in 0..6 /\ n + 1 \in 0..7 /\ process = "up"
      /\ Head(main) = Chores[n + 1] /\ main' = ChoresFrom(n + 1)
  <2>1. main # <<>> /\ main' = Tail(main) /\ process = "up" /\ main = ChoresFrom(n)
    BY <1>1 DEF Main, Start, Join, ClosePairs, LifeAfter
  <2>2. n # 7
    BY <2>1, ChoresInOrder
  <2> QED
    <3>1. n \in 0..6 /\ n + 1 \in 0..7
      BY <2>2
    <3> QED
      BY <2>1, <3>1, ChoresInOrder
<1> DEFINE t == Head(main)[2]
<1>3. CASE Start
  <2>1. t \in Threads /\ Rank(t) = n + 1 /\ n < 3 /\ process' = "up"
    BY <1>2, <1>3, ChoreAt DEF Start
  <2>2. \A u \in Threads : u # t => pc'[u] = pc[u]
    BY <1>3 DEF Start, RunTyped
  <2>3. LifeAfter(n + 1)'
    BY <1>1, <1>2, <2>1, <2>2, RankIsOwn DEF LifeAfter
  <2> QED
    BY <1>2, <2>3 DEF LifeInv
<1>4. CASE Join
  <2>1. t \in Threads /\ Rank(t) + 3 = n + 1 /\ n \in 3..5 /\ pc' = pc
    BY <1>2, <1>4, ChoreAt DEF Join
  <2>2. (process' = "up" /\ pc[t] = "ended") \/ process' = "gone"
    BY <1>2, <1>4 DEF Join
  <2>3. LifeAfter(n + 1)'
    BY <1>1, <1>2, <2>1, <2>2, RankIsOwn DEF LifeAfter
  <2> QED
    BY <1>2, <2>3 DEF LifeInv
<1>5. CASE ClosePairs
  <2>1. n = 6 /\ pc' = pc
    BY <1>2, <1>5, ChoreAt DEF ClosePairs
  <2>2. LifeAfter(7)'
    BY <1>1, <1>2, <2>1, RankIsOwn DEF LifeAfter
  <2> QED
    BY <2>2 DEF LifeInv
<1> QED
  BY <1>3, <1>4, <1>5 DEF Main

\* A thread that is not there, or has ended, does nothing more.
LEMMA LifeOther ==
  ASSUME LifeInv, process = "up", UNCHANGED main, process' \in {"up", "gone"},
         \A t \in Threads : pc[t] \in {"absent", "ended"} => pc'[t] = pc[t]
  PROVE  LifeInv'
<1>1. PICK n \in 0..7 : LifeAfter(n)
  BY DEF LifeInv
<1>2. LifeAfter(n)'
  BY <1>1 DEF LifeAfter
<1> QED
  BY <1>2 DEF LifeInv

LEMMA LifeStep == ASSUME RunTyped, LifeInv, [Next]_vars PROVE LifeInv'
<1>1. CASE UNCHANGED vars
  BY <1>1 DEF vars, LifeInv, LifeAfter
<1>2. ASSUME NEW t \in Logics, Logic(t) PROVE LifeInv'
  <2> USE DEF Logic, Prepare, TestEnd, LoopTop, Expires, Writes, PollReturns, TimesOut, Fatal, DisconnectsOutput, ReadInput,
          Serve, EndIteration, SendData, Write, Done
  <2>1. process = "up" /\ UNCHANGED main /\ process' \in {"up", "gone"}
    BY <1>2
  <2>2. pc' = pc \/ (pc[t] \notin {"absent", "ended"} /\ \E stand : pc' = [pc EXCEPT ![t] = stand])
    BY <1>2
  <2> QED
    BY <2>1, <2>2, Names, LifeOther DEF RunTyped
<1>3. CASE Worker
  <2> USE DEF Worker, WorkerGoes, WorkerReads, WorkerHangsUp, WorkerTimesOut, WorkerPollFails
  <2>1. process = "up" /\ UNCHANGED <<main, process>>
    BY <1>3
  <2>2. pc["w"] = "loop" /\ \E stand : pc' = [pc EXCEPT !["w"] = stand]
    BY <1>3
  <2> QED
    BY <2>1, <2>2, LifeOther DEF RunTyped
<1> QED
  BY <1>1, <1>2, <1>3, LifeMain DEF Next

LEMMA RunInvariant == Spec => [](RunTyped /\ LifeInv)
<1>1. Init => RunTyped /\ LifeInv
  BY RunTypedInit, LifeInit
<1>2. (RunTyped /\ LifeInv) /\ [Next]_vars => (RunTyped /\ LifeInv)'
  BY RunTypedStep, LifeStep
<1> QED
  BY <1>1, <1>2, PTL DEF Spec

\* For any capacity, with every handler and every failure: no pair holds more than it has room for
\* or is read when it is empty, done() closes at most the descriptors it has, and run() goes
\* through its chores in their order.
THEOREM RunTypeCorrect == Spec => []TypeOK
<1>1. RunTyped /\ LifeInv => TypeOK
  <2>1. Len(Chores) = 7
    BY DEF Chores
  <2>2. RunTyped => /\ pc \in [Threads -> {"absent", "prepare", "loop", "poll", "input", "serve",
                                             "peer", "worker", "closing", "ended"}]
                    /\ \A t \in Logics : Len(toClose[t]) <= 3
    BY DEF RunTyped, Away, Inside
  <2>3. RunTyped => /\ chan \in [Pairs -> 0..Cap] /\ shutEnds \subseteq Ends
                    /\ listed \in [Logics -> BOOLEAN] /\ gate \in [Logics -> BOOLEAN]
                    /\ left \in [Logics -> 0..Conns]
                    /\ met \in BOOLEAN /\ endProxy \in BOOLEAN
                    /\ process \in {"up", "returned", "gone"}
    BY DEF RunTyped
  <2>4. RunTyped => /\ due \in [Logics -> 0 .. Conns + 2] /\ wrote \in [Logics -> Nat]
                    /\ back \in [Logics -> {"serve", "poll"}]
    BY DEF RunTyped, WritingTyped
  <2>5. LifeInv => \E n \in 0..Len(Chores) : main = SubSeq(Chores, n + 1, Len(Chores))
    BY <2>1 DEF LifeInv, LifeAfter, ChoresFrom
  <2> QED
    BY <2>2, <2>3, <2>4, <2>5 DEF TypeOK
<1> QED
  BY <1>1, RunInvariant, PTL

\* run() has joined all three threads when it closes the pairs they use (the calls of
\* pthread_join() before those of close()).
THEOREM PairsAlwaysOutliveThreads == Spec => []PairsOutliveThreads
<1>1. LifeInv => PairsOutliveThreads
  BY RankIsOwn DEF LifeInv, LifeAfter, PairsOutliveThreads
<1> QED
  BY <1>1, RunInvariant, PTL

=============================================================================
