---------------------------- MODULE PollLoopProofs ----------------------------
(***************************************************************************)
(* What the poll array of a logic thread holds to, for any number of       *)
(* connections and either thread.                                          *)
(***************************************************************************)
EXTENDS PollLoop, FiniteSetTheorems, TLAPS

-----------------------------------------------------------------------------
(* Compressing.                                                            *)

\* The members of a finite set of numbers, counted from below.
LEMMA Ranks ==
  ASSUME NEW N \in Nat, NEW kept \in SUBSET (1 .. N)
  PROVE  /\ Cardinality(kept) \in 0 .. N
         /\ \A i \in kept : Rank(i, kept) \in 1 .. Cardinality(kept)
         /\ \A i, j \in kept : i < j => Rank(i, kept) < Rank(j, kept)
         /\ \A k \in 1 .. Cardinality(kept) : \E i \in kept : Rank(i, kept) = k
         /\ \A n \in 0 .. N : 1 .. n \subseteq kept => \A i \in 1 .. n : Rank(i, kept) = i
<1>0. \A i \in kept : i \in Int
  OBVIOUS
<1>1. IsFiniteSet(kept) /\ Cardinality(kept) \in 0 .. N
  <2>1. IsFiniteSet(1 .. N) /\ Cardinality(1 .. N) = N
    BY FS_Interval
  <2>2. IsFiniteSet(kept) /\ Cardinality(kept) <= N
    BY <2>1, FS_Subset
  <2> QED
    BY <2>2, FS_CardinalityType
<1>2. \A i : /\ IsFiniteSet({j \in kept : j <= i})
             /\ Rank(i, kept) \in 0 .. Cardinality(kept)
  <2> SUFFICES ASSUME NEW i
               PROVE  /\ IsFiniteSet({j \in kept : j <= i})
                      /\ Rank(i, kept) \in 0 .. Cardinality(kept)
    OBVIOUS
  <2>1. {j \in kept : j <= i} \in SUBSET kept
    OBVIOUS
  <2> QED
    BY <1>1, <2>1, FS_Subset, FS_CardinalityType DEF Rank
<1>3. ASSUME NEW i \in kept
      PROVE  Rank(i, kept) \in 1 .. Cardinality(kept)
  <2>1. i \in {j \in kept : j <= i}
    OBVIOUS
  <2>2. Rank(i, kept) # 0
    BY <1>2, <2>1, FS_EmptySet DEF Rank
  <2>3. Rank(i, kept) \in 0 .. Cardinality(kept)
    BY <1>2
  <2> QED
    BY <1>1, <2>2, <2>3
<1>4. ASSUME NEW i \in kept, NEW j \in kept, i < j
      PROVE  Rank(i, kept) < Rank(j, kept)
  <2> DEFINE S == {k \in kept : k <= i}
             T == {k \in kept : k <= j}
  <2>1. S \in SUBSET T /\ j \in T /\ j \notin S
    <3>1. \A k \in S : k \in T
      BY <1>0, <1>4
    <3>2. j \in T /\ j \notin S
      BY <1>0, <1>4
    <3> QED
      BY <3>1, <3>2
  <2>2. Cardinality(S) <= Cardinality(T) /\ (Cardinality(T) = Cardinality(S) => T = S)
    BY <1>2, <2>1, FS_Subset
  <2>3. Rank(i, kept) = Cardinality(S) /\ Rank(j, kept) = Cardinality(T)
    BY DEF Rank
  <2>4. T # S
    BY <2>1
  <2>5. Rank(i, kept) \in Nat /\ Rank(j, kept) \in Nat
    BY <1>1, <1>3
  <2> HIDE DEF S, T
  <2> QED
    BY <2>2, <2>3, <2>4, <2>5
<1>5. \A k \in 1 .. Cardinality(kept) : \E i \in kept : Rank(i, kept) = k
  <2> DEFINE n == Cardinality(kept)
             f == [i \in kept |-> Rank(i, kept)]
  <2>0. \A i \in kept : Rank(i, kept) \in 1 .. n
    BY <1>3
  <2>1. f \in [kept -> 1 .. n]
    BY <2>0
  <2>2. \A i, j \in kept : f[i] = f[j] => i = j
    <3> SUFFICES ASSUME NEW i \in kept, NEW j \in kept, f[i] = f[j], i # j
                 PROVE  FALSE
      OBVIOUS
    <3>1. i < j \/ j < i
      BY <1>0
    <3> QED
      BY <2>0, <1>4, <3>1
  <2>3. f \in Injection(kept, 1 .. n)
    BY <2>1, <2>2 DEF Injection, IsInjective
  <2>4. IsFiniteSet(1 .. n) /\ Cardinality(1 .. n) = n
    BY <1>1, FS_Interval
  <2> HIDE DEF f
  <2>5. f \in Surjection(kept, 1 .. n)
    BY <2>3, <2>4, FS_Injection
  <2>6. \A k \in 1 .. n : \E i \in kept : f[i] = k
    BY <2>5 DEF Surjection
  <2> QED
    BY <2>6 DEF f
<1>6. ASSUME NEW n \in 0 .. N, 1 .. n \subseteq kept, NEW i \in 1 .. n
      PROVE  Rank(i, kept) = i
  <2>1. \A j \in 1 .. i : j \in kept /\ j <= i
    BY <1>6
  <2>2. \A j \in kept : j <= i => j \in 1 .. i
    OBVIOUS
  <2>3. {j \in kept : j <= i} = 1 .. i
    BY <2>1, <2>2
  <2>4. i \in Nat /\ i >= 1 /\ Cardinality(1 .. i) = i
    BY FS_Interval
  <2> QED
    BY <2>3, <2>4 DEF Rank
<1> QED
  BY <1>1, <1>3, <1>4, <1>5, <1>6

\* Slot k of g is what slot from[k] of f was: every slot of f that is no hole goes to one slot
\* of g, and those in front of the first hole stay.
Moved(g, f, from) ==
    /\ Len(g) <= Len(f)
    /\ \A k \in 1 .. Len(g) : g[k] = f[from[k]] /\ f[from[k]] # Nobody
    /\ \A i \in 1 .. Len(f) : f[i] # Nobody => \E k \in 1 .. Len(g) : from[k] = i
    /\ \A k, l \in 1 .. Len(g) : from[k] = from[l] => k = l
    /\ \A m \in 0 .. Len(f) :
         (\A i \in 1 .. m : f[i] # Nobody) => m <= Len(g) /\ \A k \in 1 .. m : from[k] = k

\* compress_array: where every slot of the result comes from.
LEMMA CompressedSlots ==
  ASSUME NEW M, NEW f \in Seq(M), NEW g, g = Compressed(f)
  PROVE  g \in Seq(M) /\ \E from \in [1 .. Len(g) -> 1 .. Len(f)] : Moved(g, f, from)
<1> DEFINE kept == {i \in DOMAIN f : f[i] # Nobody}
           n == Cardinality(kept)
           from == [k \in 1 .. n |-> CHOOSE i \in kept : Rank(i, kept) = k]
<1>1. DOMAIN f = 1 .. Len(f) /\ Len(f) \in Nat
  OBVIOUS
<1>2. kept \in SUBSET (1 .. Len(f))
  BY <1>1
<1>3. g = [k \in 1 .. n |-> f[from[k]]]
  BY DEF Compressed
<1> HIDE DEF kept
<1>4. /\ n \in 0 .. Len(f)
      /\ \A k \in 1 .. n : \E i \in kept : Rank(i, kept) = k
      /\ \A i \in kept : Rank(i, kept) \in 1 .. n
  BY <1>1, <1>2, Ranks
<1>5. \A i, j \in kept : i < j => Rank(i, kept) < Rank(j, kept)
  BY <1>1, <1>2, Ranks
<1>6. \A m \in 0 .. Len(f) : 1 .. m \subseteq kept => \A i \in 1 .. m : Rank(i, kept) = i
  BY <1>1, <1>2, Ranks
<1>7. \A k \in 1 .. n : from[k] \in kept /\ Rank(from[k], kept) = k
  BY <1>4
<1>8. \A i \in kept : from[Rank(i, kept)] = i
  <2> SUFFICES ASSUME NEW i \in kept
               PROVE  from[Rank(i, kept)] = i
    OBVIOUS
  <2> PICK j \in kept : j = from[Rank(i, kept)]
    BY <1>4, <1>7
  <2>1. Rank(j, kept) = Rank(i, kept) /\ Rank(i, kept) \in Int
    BY <1>4, <1>7
  <2>2. ~(i < j) /\ ~(j < i)
    BY <1>5, <2>1
  <2> QED
    BY <1>2, <2>2
<1>9. n \in 0 .. Len(f) /\ from \in [1 .. n -> 1 .. Len(f)]
  BY <1>2, <1>4, <1>7
<1> HIDE DEF n, from
<1>10. g \in Seq(M) /\ Len(g) = n
  BY <1>1, <1>3, <1>4, <1>9
<1>11. \A k \in 1 .. n : g[k] = f[from[k]] /\ f[from[k]] # Nobody
  BY <1>3, <1>7 DEF kept
<1>12. \A i \in 1 .. Len(f) : f[i] # Nobody => \E k \in 1 .. n : from[k] = i
  BY <1>1, <1>4, <1>8 DEF kept
<1>13. \A k, l \in 1 .. n : from[k] = from[l] => k = l
  BY <1>7
<1>14. ASSUME NEW m \in 0 .. Len(f), \A i \in 1 .. m : f[i] # Nobody
       PROVE  m <= n /\ \A k \in 1 .. m : from[k] = k
  <2>1. 1 .. m \subseteq kept
    BY <1>14 DEF kept
  <2>2. \A k \in 1 .. m : Rank(k, kept) = k
    BY <1>6, <2>1
  <2>3. m <= n
    BY <1>4, <2>1, <2>2
  <2> QED
    BY <1>8, <2>1, <2>2, <2>3
<1>15. Moved(g, f, from) /\ from \in [1 .. Len(g) -> 1 .. Len(f)]
  BY <1>9, <1>10, <1>11, <1>12, <1>13, <1>14 DEF Moved
<1> QED
  BY <1>10, <1>15

-----------------------------------------------------------------------------
(* The shape of the array.                                                 *)

Thread == me \in {"client", "server"}
ArrivalSlot == IF me = "client" THEN 3 ELSE 1

PipesStand(f) == Base + 2 <= Len(f) /\ f[Base + 1] = "out" /\ f[Base + 2] = "w_out"
PipesOut(f) == \A i \in 1 .. Len(f) : f[i] # "out" /\ f[i] # "w_out"

\* An array f with the connections conns open and the pipes gone closed.
ArrayOK(f, conns, gone) ==
    /\ f \in Seq(Fds)
    /\ Base <= Len(f) /\ \A k \in 1 .. Base : f[k] = Inputs[k]
    /\ \A i, j \in 1 .. Len(f) : f[i] = f[j] /\ f[i] # Nobody => i = j
    /\ \A i \in 1 .. Len(f) : (f[i] \in Conns => f[i] \in conns) /\ f[i] \notin gone
    /\ gone \subseteq ToSet(Pipes)
    /\ gone = {} => PipesStand(f) \/ PipesOut(f)

NoHoles(f) == \A i \in 1 .. Len(f) : f[i] # Nobody

\* The inputs, the pipes, the connections and Nobody are told apart.
LEMMA Names ==
  ASSUME Thread
  PROVE  /\ Base \in {2, 3} /\ ArrivalSlot \in 1 .. Base /\ Inputs[ArrivalSlot] = Arrival
         /\ Control \in ToSet(Inputs) /\ Arrival \in ToSet(Inputs)
         /\ Inputs \in Seq(Fds) /\ Len(Inputs) = Base
         /\ \A k \in 1 .. Base : Inputs[k] \in ToSet(Inputs)
         /\ \A k, l \in 1 .. Base : Inputs[k] = Inputs[l] => k = l
         /\ ToSet(Pipes) = {"out", "w_out"}
         /\ Fds = ToSet(Inputs) \cup {"out", "w_out"} \cup Conns \cup {Nobody}
         /\ "out" \notin ToSet(Inputs) \cup Conns \cup {Nobody}
         /\ "w_out" \notin ToSet(Inputs) \cup Conns \cup {Nobody}
         /\ Nobody \notin ToSet(Inputs) \cup Conns /\ ToSet(Inputs) \cap Conns = {}
<1>1. ToSet(Pipes) = {"out", "w_out"}
  BY DEF ToSet, Pipes
<1>2. CASE me = "client"
  <2>1. Inputs = <<"s_in", "w_in", "listen">> /\ Base = 3
    BY <1>2 DEF Inputs, Base
  <2>2. ToSet(Inputs) = {"s_in", "w_in", "listen"}
    BY <2>1 DEF ToSet
  <2> QED
    BY <1>1, <1>2, <2>1, <2>2, PollAssumption DEF ArrivalSlot, Arrival, Control, Fds
<1>3. CASE me = "server"
  <2>1. Inputs = <<"c_in", "w_in">> /\ Base = 2
    BY <1>3 DEF Inputs, Base
  <2>2. ToSet(Inputs) = {"c_in", "w_in"}
    BY <2>1 DEF ToSet
  <2> QED
    BY <1>1, <1>3, <2>1, <2>2, PollAssumption DEF ArrivalSlot, Arrival, Control, Fds
<1> QED
  BY <1>2, <1>3 DEF Thread

\* compress_array keeps the shape.
LEMMA CompressedOK ==
  ASSUME Thread, NEW f, NEW conns, NEW gone, ArrayOK(f, conns, gone)
  PROVE  /\ ArrayOK(Compressed(f), conns, gone) /\ NoHoles(Compressed(f))
         /\ Len(Compressed(f)) <= Len(f)
         /\ \A i \in 1 .. Len(f) : f[i] # Nobody =>
              \E k \in 1 .. Len(Compressed(f)) : Compressed(f)[k] = f[i]
         /\ \A k \in 1 .. Len(Compressed(f)) : \E i \in 1 .. Len(f) : Compressed(f)[k] = f[i]
         /\ PipesStand(f) => PipesStand(Compressed(f))
<1>1. f \in Seq(Fds) /\ Len(f) \in Nat /\ Base <= Len(f) /\ Base \in Nat
  BY Names DEF ArrayOK
<1> PICK g : g = Compressed(f)
  OBVIOUS
<1> g \in Seq(Fds)
  BY <1>1, CompressedSlots
<1> PICK from \in [1 .. Len(g) -> 1 .. Len(f)] : Moved(g, f, from)
  BY <1>1, CompressedSlots
<1>14. \A k \in 1 .. Len(g) : from[k] \in 1 .. Len(f) /\ g[k] = f[from[k]] /\ g[k] # Nobody
  BY DEF Moved
<1>15. \A k, l \in 1 .. Len(g) : from[k] = from[l] => k = l
  BY DEF Moved
<1>2. ASSUME NEW m \in 0 .. Len(f), \A i \in 1 .. m : f[i] # Nobody
      PROVE  m <= Len(g) /\ \A k \in 1 .. m : g[k] = f[k]
  BY <1>2 DEF Moved
<1>3. Base <= Len(g) /\ \A k \in 1 .. Base : g[k] = Inputs[k]
  <2>1. \A i \in 1 .. Base : f[i] = Inputs[i] /\ f[i] # Nobody
    BY Names DEF ArrayOK
  <2>2. Base \in 0 .. Len(f)
    BY <1>1
  <2> QED
    BY <1>2, <2>1, <2>2
<1>4. PipesStand(f) => PipesStand(g)
  <2> SUFFICES ASSUME PipesStand(f) PROVE PipesStand(g)
    OBVIOUS
  <2>1. \A i \in 1 .. Base : f[i] # Nobody
    BY Names DEF ArrayOK
  <2>2. f[Base + 1] # Nobody /\ f[Base + 2] # Nobody
    BY Names DEF PipesStand
  <2>2a. \A i \in 1 .. Base + 2 : i \in 1 .. Base \/ i = Base + 1 \/ i = Base + 2
    BY <1>1
  <2>2b. \A i \in 1 .. Base + 2 : f[i] # Nobody
    BY <2>1, <2>2, <2>2a
  <2>3. Base + 2 \in 0 .. Len(f) /\ Base + 1 \in 1 .. Base + 2 /\ Base + 2 \in 1 .. Base + 2
    BY <1>1 DEF PipesStand
  <2>4. Base + 2 <= Len(g) /\ \A k \in 1 .. Base + 2 : g[k] = f[k]
    BY <1>2, <2>2b, <2>3
  <2> QED
    BY <2>3, <2>4 DEF PipesStand
<1>5. PipesOut(f) => PipesOut(g)
  BY <1>14 DEF PipesOut
<1>6. \A i, j \in 1 .. Len(g) : g[i] = g[j] => i = j
  <2> SUFFICES ASSUME NEW i \in 1 .. Len(g), NEW j \in 1 .. Len(g), g[i] = g[j]
               PROVE  i = j
    OBVIOUS
  <2>1. f[from[i]] = f[from[j]] /\ f[from[i]] # Nobody
    BY <1>14
  <2>2. from[i] = from[j]
    BY <1>14, <2>1 DEF ArrayOK
  <2> QED
    BY <1>15, <2>2
<1>7. \A i \in 1 .. Len(g) : (g[i] \in Conns => g[i] \in conns) /\ g[i] \notin gone
  BY <1>14 DEF ArrayOK
<1>8. gone \subseteq ToSet(Pipes) /\ (gone = {} => PipesStand(f) \/ PipesOut(f))
  BY DEF ArrayOK
<1>9. ArrayOK(g, conns, gone)
  BY <1>3, <1>4, <1>5, <1>6, <1>7, <1>8 DEF ArrayOK
<1>10. \A i \in 1 .. Len(f) : f[i] # Nobody => \E k \in 1 .. Len(g) : g[k] = f[i]
  BY <1>14 DEF Moved
<1>11. Len(g) <= Len(f)
  BY DEF Moved
<1>12. NoHoles(g)
  BY <1>14 DEF NoHoles
<1>13. \A k \in 1 .. Len(g) : \E i \in 1 .. Len(f) : g[k] = f[i]
  BY <1>14
<1> QED
  BY <1>4, <1>9, <1>10, <1>11, <1>12, <1>13

\* A closed connection or pipe leaves a hole behind, and nothing else changes.
Without(f, fd) == [i \in DOMAIN f |-> IF f[i] \in fd THEN Nobody ELSE f[i]]

LEMMA WithoutOK ==
  ASSUME Thread, NEW f, NEW conns, NEW gone, ArrayOK(f, conns, gone),
         NEW fd, fd \cap ToSet(Inputs) = {}
  PROVE  /\ ArrayOK(Without(f, fd), conns \ fd, gone \cup (fd \cap ToSet(Pipes)))
         /\ Len(Without(f, fd)) = Len(f)
         /\ \A i \in 1 .. Len(f) :
              Without(f, fd)[i] = IF f[i] \in fd THEN Nobody ELSE f[i]
<1>1. f \in Seq(Fds) /\ Len(f) \in Nat /\ DOMAIN f = 1 .. Len(f) /\ Nobody \in Fds
  BY Names DEF ArrayOK
<1> PICK g : g = Without(f, fd)
  OBVIOUS
<1>2. /\ g \in Seq(Fds) /\ Len(g) = Len(f)
      /\ \A i \in 1 .. Len(f) : g[i] = IF f[i] \in fd THEN Nobody ELSE f[i]
  <2>1. \A i \in 1 .. Len(f) : f[i] \in Fds
    BY <1>1
  <2>2. g = [i \in 1 .. Len(f) |-> IF f[i] \in fd THEN Nobody ELSE f[i]]
    BY <1>1 DEF Without
  <2>3. g \in [1 .. Len(f) -> Fds]
    BY <1>1, <2>1, <2>2
  <2> QED
    BY <1>1, <2>2, <2>3
<1>3. Base <= Len(g) /\ \A k \in 1 .. Base : g[k] = Inputs[k]
  BY <1>1, <1>2, Names DEF ArrayOK
<1>4. \A i, j \in 1 .. Len(g) : g[i] = g[j] /\ g[i] # Nobody => i = j
  BY <1>2 DEF ArrayOK
<1>5. \A i \in 1 .. Len(g) : (g[i] \in Conns => g[i] \in conns \ fd)
  BY <1>2, Names DEF ArrayOK
<1>6. \A i \in 1 .. Len(g) : g[i] \notin gone \cup (fd \cap ToSet(Pipes))
  <2>1. Nobody \notin ToSet(Pipes) /\ gone \subseteq ToSet(Pipes)
    BY Names DEF ArrayOK
  <2> SUFFICES ASSUME NEW i \in 1 .. Len(g)
               PROVE  g[i] \notin gone \cup (fd \cap ToSet(Pipes))
    OBVIOUS
  <2> QED
    BY <1>2, <2>1 DEF ArrayOK
<1>7. ASSUME gone = {}, fd \cap ToSet(Pipes) = {}
      PROVE  PipesStand(g) \/ PipesOut(g)
  <2>1. "out" \notin fd /\ "w_out" \notin fd /\ Nobody # "out" /\ Nobody # "w_out"
    BY <1>7, Names
  <2>2. PipesStand(f) => PipesStand(g)
    BY <1>1, <1>2, <2>1, Names DEF PipesStand
  <2>3. PipesOut(f) => PipesOut(g)
    BY <1>2, <2>1 DEF PipesOut
  <2> QED
    BY <1>7, <2>2, <2>3 DEF ArrayOK
<1> QED
  BY <1>2, <1>3, <1>4, <1>5, <1>6, <1>7 DEF ArrayOK

\* connects_present and connects_absence keep the shape, and lose no connection when the pipes
\* stand in front of them.
LEMMA ToggledOK ==
  ASSUME Thread, NEW f, NEW conns, ArrayOK(f, conns, {}), NoHoles(f)
  PROVE  /\ ArrayOK(Toggled(f), conns, {}) /\ NoHoles(Toggled(f))
         /\ Len(Toggled(f)) <= Len(f) \/ Len(Toggled(f)) = Base + 2
         /\ \A k \in 1 .. Len(Toggled(f)) :
              Toggled(f)[k] \in Conns => \E i \in 1 .. Len(f) : Toggled(f)[k] = f[i]
         /\ PipesStand(f) => Toggled(f) = f \/ \A i \in 1 .. Len(f) : f[i] \notin Conns
<1>1. f \in Seq(Fds) /\ Len(f) \in Nat /\ Base <= Len(f) /\ Base \in Nat
      /\ (\A k \in 1 .. Base : f[k] = Inputs[k] /\ f[k] \in ToSet(Inputs))
  BY Names DEF ArrayOK
<1> PICK g : g = Toggled(f)
  OBVIOUS
<1>2. CASE Len(f) = Base
  <2>1. g = f \o Pipes /\ Pipes = <<"out", "w_out">>
    BY <1>2 DEF Toggled, Pipes
  <2>2. Pipes \in Seq(Fds) /\ Len(Pipes) = 2 /\ Pipes[1] = "out" /\ Pipes[2] = "w_out"
    BY <2>1, Names
  <2>3. g \in Seq(Fds) /\ Len(g) = Base + 2
    BY <1>1, <1>2, <2>1, <2>2
  <2>4. /\ \A k \in 1 .. Base : g[k] = f[k]
        /\ g[Base + 1] = "out" /\ g[Base + 2] = "w_out"
    BY <1>1, <1>2, <2>1, <2>2
  <2>5. \A k \in 1 .. Len(g) : k \in 1 .. Base \/ k = Base + 1 \/ k = Base + 2
    BY <1>1, <2>3
  <2>6. \A k \in 1 .. Len(g) : g[k] \in ToSet(Inputs) \cup {"out", "w_out"}
    BY <1>1, <2>4, <2>5
  <2>7. \A i, j \in 1 .. Len(g) : g[i] = g[j] => i = j
    <3> SUFFICES ASSUME NEW i \in 1 .. Len(g), NEW j \in 1 .. Len(g), g[i] = g[j]
                 PROVE  i = j
      OBVIOUS
    <3>1. \A k \in 1 .. Base : g[k] = Inputs[k] /\ g[k] # "out" /\ g[k] # "w_out"
      BY <1>1, <2>4, Names
    <3>2. CASE i \in 1 .. Base
      <4>1. j \in 1 .. Base
        BY <2>4, <2>5, <3>1, <3>2
      <4>2. Inputs[i] = Inputs[j]
        BY <3>1, <3>2, <4>1
      <4> QED
        BY <3>2, <4>1, <4>2, Names
    <3>3. CASE i \notin 1 .. Base
      <4>1. j \notin 1 .. Base
        BY <2>4, <2>5, <3>1, <3>3
      <4>2. "out" # "w_out"
        OBVIOUS
      <4> QED
        BY <2>4, <2>5, <3>3, <4>1, <4>2
    <3> QED
      BY <3>2, <3>3
  <2>8. \A k \in 1 .. Len(g) : g[k] \notin Conns /\ g[k] # Nobody
    BY <2>6, Names
  <2>9. ArrayOK(g, conns, {})
    BY <1>1, <2>3, <2>4, <2>7, <2>8 DEF ArrayOK, PipesStand
  <2>10. ~PipesStand(f)
    BY <1>1, <1>2 DEF PipesStand
  <2> QED
    BY <2>3, <2>8, <2>9, <2>10 DEF NoHoles
<1>3. CASE Len(f) = Base + 2
  <2>1. g = SubSeq(f, 1, Base)
    BY <1>1, <1>3 DEF Toggled
  <2>2. g \in Seq(Fds) /\ Len(g) = Base /\ \A k \in 1 .. Base : g[k] = f[k]
    BY <1>1, <1>3, <2>1
  <2>3. \A k \in 1 .. Len(g) : k \in 1 .. Len(f)
    BY <1>1, <2>2
  <2>4. ArrayOK(g, conns, {}) /\ NoHoles(g)
    <3>1. \A k \in 1 .. Len(g) : g[k] \in ToSet(Inputs)
      BY <1>1, <2>2
    <3>2. PipesOut(g)
      BY <3>1, Names DEF PipesOut
    <3>3. \A k \in 1 .. Len(g) : g[k] \notin Conns /\ g[k] # Nobody
      BY <3>1, Names
    <3>4. \A i, j \in 1 .. Len(g) : g[i] = g[j] => i = j
      BY <1>1, <2>2, Names
    <3> QED
      BY <1>1, <2>2, <3>2, <3>3, <3>4 DEF ArrayOK, NoHoles
  <2>5. PipesStand(f) => \A i \in 1 .. Len(f) : f[i] \notin Conns
    <3> SUFFICES ASSUME PipesStand(f), NEW i \in 1 .. Len(f)
                 PROVE  f[i] \notin Conns
      OBVIOUS
    <3>1. i \in 1 .. Base \/ i = Base + 1 \/ i = Base + 2
      BY <1>1, <1>3
    <3> QED
      BY <1>1, <3>1, Names DEF PipesStand
  <2> QED
    BY <1>1, <1>3, <2>2, <2>3, <2>4, <2>5
<1>4. CASE Len(f) # Base /\ Len(f) # Base + 2
  BY <1>4 DEF Toggled
<1> QED
  BY <1>2, <1>3, <1>4

\* new_connect keeps the shape if what is new is not in the array yet.
LEMMA AppendedOK ==
  ASSUME Thread, NEW f, NEW conns, NEW gone, ArrayOK(f, conns, gone),
         NEW new \in Seq(Conns \ conns), \A i, j \in 1 .. Len(new) : new[i] = new[j] => i = j
  PROVE  /\ ArrayOK(f \o new, conns \cup ToSet(new), gone)
         /\ Len(f \o new) = Len(f) + Len(new)
         /\ \A i \in 1 .. Len(f) : (f \o new)[i] = f[i]
         /\ \A i \in 1 .. Len(f \o new) :
              (f \o new)[i] = Nobody => i \in 1 .. Len(f)
<1>1. f \in Seq(Fds) /\ Len(f) \in Nat /\ new \in Seq(Fds) /\ Len(new) \in Nat
      /\ Base <= Len(f) /\ Base \in Nat
  BY Names DEF ArrayOK
<1> PICK g : g = f \o new
  OBVIOUS
<1>2. /\ g \in Seq(Fds) /\ Len(g) = Len(f) + Len(new)
      /\ \A i \in 1 .. Len(f) : g[i] = f[i]
      /\ \A i \in 1 .. Len(new) : g[Len(f) + i] = new[i]
  BY <1>1
<1>3. \A i \in 1 .. Len(new) : new[i] \in Conns \ conns /\ new[i] \in ToSet(new)
  BY DEF ToSet
<1>4. ASSUME NEW i \in 1 .. Len(g)
      PROVE  \/ i \in 1 .. Len(f) /\ g[i] = f[i]
             \/ i - Len(f) \in 1 .. Len(new) /\ g[i] = new[i - Len(f)]
  <2>1. CASE i <= Len(f)
    BY <1>1, <1>2, <2>1
  <2>2. CASE i > Len(f)
    <3> PICK k : k = i - Len(f)
      OBVIOUS
    <3>1. k \in 1 .. Len(new) /\ i = Len(f) + k
      BY <1>1, <1>2, <2>2
    <3> QED
      BY <1>2, <3>1
  <2> QED
    BY <1>1, <2>1, <2>2
<1>5. \A i \in 1 .. Len(f) : f[i] \in Conns => f[i] \in conns
  BY DEF ArrayOK
<1>6. \A i, j \in 1 .. Len(g) : g[i] = g[j] /\ g[i] # Nobody => i = j
  <2> SUFFICES ASSUME NEW i \in 1 .. Len(g), NEW j \in 1 .. Len(g), g[i] = g[j], g[i] # Nobody
               PROVE  i = j
    OBVIOUS
  <2>1. CASE i \in 1 .. Len(f) /\ g[i] = f[i] /\ j \in 1 .. Len(f) /\ g[j] = f[j]
    BY <2>1 DEF ArrayOK
  <2>2. CASE /\ i - Len(f) \in 1 .. Len(new) /\ g[i] = new[i - Len(f)]
             /\ j - Len(f) \in 1 .. Len(new) /\ g[j] = new[j - Len(f)]
    <3>1. i - Len(f) = j - Len(f)
      BY <2>2
    <3> QED
      BY <1>1, <3>1
  <2> QED
    BY <1>3, <1>4, <1>5, <2>1, <2>2
<1>7. \A i \in 1 .. Len(g) : (g[i] \in Conns => g[i] \in conns \cup ToSet(new)) /\ g[i] \notin gone
  <2> SUFFICES ASSUME NEW i \in 1 .. Len(g)
               PROVE  (g[i] \in Conns => g[i] \in conns \cup ToSet(new)) /\ g[i] \notin gone
    OBVIOUS
  <2>1. gone \cap Conns = {}
    BY Names DEF ArrayOK
  <2>2. CASE i \in 1 .. Len(f) /\ g[i] = f[i]
    BY <2>2 DEF ArrayOK
  <2>3. CASE i - Len(f) \in 1 .. Len(new) /\ g[i] = new[i - Len(f)]
    BY <1>3, <2>1, <2>3
  <2> QED
    BY <1>4, <2>2, <2>3
<1>8. gone = {} => PipesStand(g) \/ PipesOut(g)
  <2>1. PipesStand(f) => PipesStand(g)
    BY <1>1, <1>2 DEF PipesStand
  <2>2. PipesOut(f) => PipesOut(g)
    BY <1>3, <1>4, Names DEF PipesOut
  <2> QED
    BY <2>1, <2>2 DEF ArrayOK
<1>9. Base <= Len(g) /\ \A k \in 1 .. Base : g[k] = Inputs[k]
  BY <1>1, <1>2 DEF ArrayOK
<1>10. ArrayOK(g, conns \cup ToSet(new), gone)
  BY <1>2, <1>6, <1>7, <1>8, <1>9 DEF ArrayOK
<1>11. \A i \in 1 .. Len(g) : g[i] = Nobody => i \in 1 .. Len(f)
  BY <1>3, <1>4, Names
<1> QED
  BY <1>2, <1>10, <1>11

\* What arrives at one event.
LEMMA ArrivalsAreNew ==
  ASSUME Thread, db \subseteq Conns, NEW new \in Arrivals
  PROVE  /\ new \in Seq(Conns \ db) /\ Len(new) <= Cardinality(Conns)
         /\ \A i, j \in 1 .. Len(new) : new[i] = new[j] => i = j
<1>0. IsFiniteSet(Conns) /\ Cardinality(Conns) \in Nat
  BY PollAssumption, FS_CardinalityType
<1>1. CASE me = "client"
  <2>1. PICK S \in SUBSET (Conns \ db) : new \in SetToSeqs(S)
    BY <1>1 DEF Arrivals, SetToAllKPermutations
  <2>2. IsFiniteSet(S) /\ Cardinality(S) \in Nat /\ Cardinality(S) <= Cardinality(Conns)
    BY <1>0, FS_Subset, FS_CardinalityType
  <2>3. new \in [1 .. Cardinality(S) -> S] /\ \A i, j \in 1 .. Cardinality(S) : i # j => new[i] # new[j]
    BY <2>1, <2>2 DEF SetToSeqs
  <2>4. new \in Seq(S) /\ Len(new) = Cardinality(S)
    BY <2>2, <2>3
  <2> QED
    BY <2>2, <2>3, <2>4
<1>2. CASE me = "server"
  <2>1. PICK c \in Conns \ db : new = <<c>>
    BY <1>2 DEF Arrivals
  <2>2. Cardinality(Conns) # 0
    BY <1>0, <2>1, FS_EmptySet
  <2> QED
    BY <1>0, <2>1, <2>2
<1> QED
  BY <1>1, <1>2 DEF Thread

\* An array without holes has room for the inputs, the pipes and every connection once.
LEMMA ArrayFits ==
  ASSUME Thread, NEW f, NEW conns, NEW gone, ArrayOK(f, conns, gone), NoHoles(f)
  PROVE  Len(f) <= Base + 2 + Cardinality(Conns)
<1>1. /\ f \in Seq(Fds) /\ Len(f) \in Nat /\ Base <= Len(f) /\ Base \in Nat
      /\ \A k \in 1 .. Base : f[k] = Inputs[k]
      /\ \A i, j \in 1 .. Len(f) : f[i] = f[j] => i = j
  BY Names DEF ArrayOK, NoHoles
<1> DEFINE S == (Conns \cup {"out"}) \cup {"w_out"}
           n == Len(f) - Base
           h == [k \in 1 .. n |-> f[Base + k]]
<1>2. n \in Nat /\ \A k \in 1 .. n : Base + k \in 1 .. Len(f) /\ Base + k \notin 1 .. Base
  BY <1>1
<1>3. \A k \in 1 .. n : f[Base + k] \in S
  <2> SUFFICES ASSUME NEW k \in 1 .. n
               PROVE  f[Base + k] \in S
    OBVIOUS
  <2>1. Base + k \in 1 .. Len(f) /\ Base + k \notin 1 .. Base
    BY <1>2
  <2>2. \A l \in 1 .. Base : f[Base + k] # Inputs[l]
    BY <1>1, <2>1
  <2>3. f[Base + k] \notin ToSet(Inputs)
    BY <2>2, Names DEF ToSet
  <2>4. f[Base + k] \in Fds /\ f[Base + k] # Nobody
    BY <1>1, <2>1 DEF NoHoles
  <2> QED
    BY <2>3, <2>4, Names
<1>4. \A k, l \in 1 .. n : f[Base + k] = f[Base + l] => k = l
  BY <1>1, <1>2
<1>5. h \in Injection(1 .. n, S)
  BY <1>3, <1>4 DEF Injection, IsInjective
<1>6. IsFiniteSet(S) /\ Cardinality(S) = Cardinality(Conns) + 2 /\ Cardinality(Conns) \in Nat
  <2>1. IsFiniteSet(Conns) /\ Cardinality(Conns) \in Nat /\ "out" \notin Conns
    BY PollAssumption, FS_CardinalityType
  <2>2. IsFiniteSet(Conns \cup {"out"}) /\ Cardinality(Conns \cup {"out"}) = Cardinality(Conns) + 1
    BY <2>1, FS_AddElement
  <2>3. "w_out" \notin Conns \cup {"out"}
    BY PollAssumption
  <2>4. IsFiniteSet(S) /\ Cardinality(S) = Cardinality(Conns) + 1 + 1
    BY <2>2, <2>3, FS_AddElement
  <2> QED
    BY <2>1, <2>4
<1> HIDE DEF S, h
<1>7. Cardinality(1 .. n) <= Cardinality(S)
  BY <1>5, <1>6, FS_Injection
<1>8. Cardinality(1 .. n) = n
  BY <1>2, FS_Interval
<1> QED
  BY <1>1, <1>6, <1>7, <1>8

-----------------------------------------------------------------------------
(* The inductive invariant.                                                *)

Room == IF turn <= ArrivalSlot THEN Base + 2 + Cardinality(Conns)
        ELSE Base + 2 + 2 * Cardinality(Conns)

\* The array is in shape, holes are flagged and gone when poll() is called, and only what has
\* arrived in this iteration may lie beyond the room of the connections there are.
LoopInv ==
    /\ Thread
    /\ ArrayOK(fds, db, shut) /\ db \subseteq Conns
    /\ ~NoHoles(fds) => turn # 0 /\ holes
    /\ Len(fds) <= Room
    /\ revents \in [Slots -> {"none", "ready", "hup"}]
    /\ turn \in 0 .. size + 1 /\ size \in 0 .. Base + 2 + 2 * Cardinality(Conns)
    /\ turn # 0 => size <= Len(fds)
    /\ writable \subseteq {"out", "w_out"} /\ holes \in BOOLEAN

LEMMA Sizes ==
  ASSUME Thread
  PROVE  /\ Cardinality(Conns) \in Nat /\ Base \in {2, 3} /\ ArrivalSlot \in 1 .. 3
         /\ Cardinality(Slots) = Base + 2 + 2 * Cardinality(Conns)
         /\ Slots = 1 .. Base + 2 + 2 * Cardinality(Conns)
<1>1. Cardinality(Conns) \in Nat
  BY PollAssumption, FS_CardinalityType
<1>2. Base \in {2, 3} /\ ArrivalSlot \in 1 .. Base
  BY Names
<1> PICK n : n = Base + 2 + 2 * Cardinality(Conns)
  OBVIOUS
<1>3. n \in Nat /\ n >= 1
  BY <1>1, <1>2
<1>4. Cardinality(1 .. n) = n
  BY <1>3, FS_Interval
<1>5. Slots = 1 .. n
  BY DEF Slots
<1> QED
  BY <1>1, <1>2, <1>4, <1>5

LEMMA LoopInit == Init => LoopInv
<1> SUFFICES ASSUME Init PROVE LoopInv
  OBVIOUS
<1>1. Thread /\ fds = Inputs /\ db = {} /\ shut = {} /\ turn = 0 /\ size = 0
  BY DEF Init, Thread
<1>2. fds \in Seq(Fds) /\ Len(fds) = Base /\ \A k \in 1 .. Base : fds[k] = Inputs[k] /\ fds[k] \in ToSet(Inputs)
  BY <1>1, Names
<1>3. PipesOut(fds) /\ NoHoles(fds) /\ \A i \in 1 .. Len(fds) : fds[i] \notin Conns
  BY <1>1, <1>2, Names DEF PipesOut, NoHoles
<1>4. ArrayOK(fds, db, shut)
  BY <1>1, <1>2, <1>3, Names DEF ArrayOK
<1>5. Len(fds) <= Room
  BY <1>1, <1>2, Sizes DEF Room
<1> QED
  <2>1. revents \in [Slots -> {"none", "ready", "hup"}] /\ writable = {} /\ holes = FALSE
    BY DEF Init
  <2>2. turn \in 0 .. size + 1 /\ size \in 0 .. Base + 2 + 2 * Cardinality(Conns)
    BY <1>1, Sizes
  <2> QED
    BY <1>1, <1>3, <1>4, <1>5, <2>1, <2>2 DEF LoopInv

\* What a step owes to the invariant.
LEMMA LoopFrame ==
  ASSUME LoopInv, UNCHANGED me,
         ArrayOK(fds', db', shut'), db' \subseteq Conns,
         ~NoHoles(fds') => turn' # 0 /\ holes',
         Len(fds') <= (IF turn' <= ArrivalSlot THEN Base + 2 + Cardinality(Conns)
                       ELSE Base + 2 + 2 * Cardinality(Conns)),
         revents' \in [Slots -> {"none", "ready", "hup"}],
         turn' \in 0 .. size' + 1, size' \in 0 .. Base + 2 + 2 * Cardinality(Conns),
         turn' # 0 => size' <= Len(fds'),
         writable' \subseteq {"out", "w_out"}, holes' \in BOOLEAN
  PROVE  LoopInv'
<1>1. Inputs' = Inputs /\ Base' = Base /\ ArrivalSlot' = ArrivalSlot /\ Thread'
  BY DEF Inputs, Base, ArrivalSlot, Thread, LoopInv
<1>2. Fds' = Fds /\ Slots' = Slots
  BY <1>1 DEF Fds, Slots, ToSet
<1>3. ArrayOK(fds, db, shut)'
  BY <1>1, <1>2 DEF ArrayOK, PipesStand, PipesOut
<1>4. (Len(fds) <= Room)'
  BY <1>1 DEF Room
<1>5. NoHoles(fds)' <=> NoHoles(fds')
  BY DEF NoHoles
<1> QED
  BY <1>1, <1>2, <1>3, <1>4, <1>5 DEF LoopInv

\* A step in the middle of an iteration.
LEMMA InnerFrame ==
  ASSUME LoopInv, NEW i \in Slots, At(i), Advance,
         ArrayOK(fds', db', shut'), db' \subseteq Conns,
         ~NoHoles(fds') => holes',
         \/ Len(fds') = Len(fds)
         \/ i = ArrivalSlot /\ Len(fds) <= Len(fds') /\ Len(fds') <= Len(fds) + Cardinality(Conns),
         Len(fds') \in Nat,
         writable' \subseteq {"out", "w_out"}, holes' \in BOOLEAN
  PROVE  LoopInv'
<1>1. turn = i /\ turn' = turn + 1 /\ turn <= size /\ UNCHANGED me /\ UNCHANGED revents /\ UNCHANGED size
  BY DEF At, Advance
<1>2. turn' \in 0 .. size' + 1 /\ turn' # 0 /\ i \in Nat /\ i # 0
  BY <1>1, Sizes DEF LoopInv
<1>3. Len(fds) \in Nat /\ size <= Len(fds)
  BY <1>1, <1>2 DEF LoopInv, ArrayOK
<1>4. Len(fds) <= (IF i <= ArrivalSlot THEN Base + 2 + Cardinality(Conns)
                   ELSE Base + 2 + 2 * Cardinality(Conns))
  BY <1>1 DEF LoopInv, Room
<1>5. Len(fds') <= (IF turn' <= ArrivalSlot THEN Base + 2 + Cardinality(Conns)
                    ELSE Base + 2 + 2 * Cardinality(Conns))
  <2>1. Cardinality(Conns) \in Nat /\ Base \in Nat /\ ArrivalSlot \in 1 .. 3
    BY Sizes DEF LoopInv
  <2>2. turn' = i + 1 /\ i \in Nat
    BY <1>1, <1>2
  <2>3. CASE Len(fds') = Len(fds)
    BY <1>3, <1>4, <2>1, <2>2, <2>3
  <2>4. CASE i = ArrivalSlot /\ Len(fds') <= Len(fds) + Cardinality(Conns)
    BY <1>3, <1>4, <2>1, <2>2, <2>4
  <2> QED
    BY <2>3, <2>4
<1>6. size' <= Len(fds')
  BY <1>1, <1>3 DEF LoopInv
<1> QED
  BY <1>1, <1>2, <1>5, <1>6, LoopFrame DEF LoopInv

\* close_connect_force(fd) of what is no input.
LEMMA CloseForceOK ==
  ASSUME LoopInv, NEW fd, fd \notin ToSet(Inputs), CloseForce(fd)
  PROVE  /\ ArrayOK(fds', db', shut') /\ db' \subseteq Conns
         /\ ~NoHoles(fds') => holes'
         /\ Len(fds') = Len(fds) /\ holes' \in BOOLEAN
         /\ \A i \in 1 .. Len(fds) : fds'[i] = IF fds[i] = fd THEN Nobody ELSE fds[i]
         /\ shut' = shut \cup ({fd} \cap ToSet(Pipes))
<1>1. Thread /\ ArrayOK(fds, db, shut)
  BY DEF LoopInv
<1>2. Emptied(fds, fd) = Without(fds, {fd})
  BY DEF Emptied, Without
<1>3. /\ fds' = Without(fds, {fd}) /\ db' = db \ {fd} /\ shut' = shut \cup ({fd} \cap ToSet(Pipes))
      /\ holes' = (holes \/ \E i \in DOMAIN fds : fds[i] = fd)
  BY <1>2 DEF CloseForce
<1>4. /\ ArrayOK(Without(fds, {fd}), db \ {fd}, shut \cup ({fd} \cap ToSet(Pipes)))
      /\ Len(Without(fds, {fd})) = Len(fds)
      /\ \A i \in 1 .. Len(fds) :
           Without(fds, {fd})[i] = IF fds[i] \in {fd} THEN Nobody ELSE fds[i]
  <2>1. {fd} \cap ToSet(Inputs) = {}
    OBVIOUS
  <2>2. ArrayOK(Without(fds, {fd}), db \ {fd}, shut \cup ({fd} \cap ToSet(Pipes)))
    BY <1>1, <2>1, WithoutOK
  <2>3. Len(Without(fds, {fd})) = Len(fds)
    BY <1>1, <2>1, WithoutOK
  <2>4. \A i \in 1 .. Len(fds) :
          Without(fds, {fd})[i] = IF fds[i] \in {fd} THEN Nobody ELSE fds[i]
    <3>1. DOMAIN fds = 1 .. Len(fds)
      BY <1>1 DEF ArrayOK
    <3> QED
      BY <3>1 DEF Without
  <2> QED
    BY <2>2, <2>3, <2>4
<1>5. DOMAIN fds = 1 .. Len(fds)
  BY <1>1 DEF ArrayOK
<1>6. ~NoHoles(fds') => holes'
  <2> SUFFICES ASSUME NEW i \in 1 .. Len(fds), fds'[i] = Nobody
               PROVE  holes'
    BY <1>3, <1>4 DEF NoHoles
  <2>1. fds[i] = fd \/ fds[i] = Nobody
    BY <1>3, <1>4
  <2> QED
    BY <1>3, <1>5, <2>1 DEF LoopInv, NoHoles
<1> QED
  BY <1>3, <1>4, <1>6 DEF LoopInv

-----------------------------------------------------------------------------
(* One lemma per action.                                                   *)

LEMMA PollKeeps ==
  ASSUME LoopInv, Poll
  PROVE  LoopInv'
<1>1. Thread /\ ArrayOK(fds, db, {}) /\ shut = {} /\ shut' = {} /\ NoHoles(fds) /\ turn = 0
  BY DEF Poll, LoopInv
<1> PICK g : g = Toggled(fds)
  OBVIOUS
<1>2. /\ ArrayOK(g, db, {}) /\ NoHoles(g)
      /\ Len(g) <= Len(fds) \/ Len(g) = Base + 2
  BY <1>1, ToggledOK
<1>3. fds' = g /\ size' = Len(g) /\ turn' = 1 /\ UNCHANGED me /\ UNCHANGED db /\ UNCHANGED holes /\ writable' = {}
  BY DEF Poll
<1>4. Len(fds) \in Nat /\ Len(g) \in Nat /\ Len(fds) <= Base + 2 + Cardinality(Conns)
  BY <1>1, <1>2, Sizes DEF ArrayOK, LoopInv, Room
<1>5. Len(g) <= Base + 2 + Cardinality(Conns)
  BY <1>1, <1>2, <1>4, Sizes
<1>6. revents' \in [Slots -> {"none", "ready", "hup"}]
  <2> PICK r \in [1 .. Len(fds) -> {"none", "ready", "hup"}] :
             revents' = [i \in Slots |-> IF i <= Len(fds) THEN r[i] ELSE revents[i]]
    BY DEF Poll
  <2>1. \A i \in Slots : i <= Len(fds) => i \in 1 .. Len(fds)
    BY <1>4, Sizes, <1>1
  <2> QED
    BY <2>1 DEF LoopInv
<1>7. turn' \in 0 .. size' + 1 /\ size' \in 0 .. Base + 2 + 2 * Cardinality(Conns) /\ 1 <= ArrivalSlot
  BY <1>1, <1>3, <1>4, <1>5, Sizes
<1> QED
  BY <1>1, <1>2, <1>3, <1>5, <1>6, <1>7, LoopFrame DEF LoopInv

LEMMA ExpireKeeps ==
  ASSUME LoopInv, Expire
  PROVE  LoopInv'
<1>1. Thread /\ ArrayOK(fds, db, shut) /\ db \subseteq Conns /\ turn = 0
      /\ Len(fds) <= Base + 2 + Cardinality(Conns)
  BY Sizes DEF Expire, LoopInv, Room
<1> PICK late \in SUBSET db : /\ fds' = Compressed(Without(fds, late))
                              /\ db' = db \ late
  BY DEF Expire, Without
<1>2. late \cap ToSet(Inputs) = {} /\ late \cap ToSet(Pipes) = {}
  BY <1>1, Names
<1> PICK g : g = Without(fds, late)
  OBVIOUS
<1>3. ArrayOK(g, db \ late, shut) /\ Len(g) = Len(fds)
  <2>1. shut \cup (late \cap ToSet(Pipes)) = shut
    BY <1>2
  <2> QED
    BY <1>1, <1>2, <2>1, WithoutOK
<1>4. ArrayOK(fds', db', shut) /\ NoHoles(fds') /\ Len(fds') <= Len(g)
  BY <1>1, <1>3, CompressedOK
<1>5. Len(fds') <= Base + 2 + Cardinality(Conns)
  BY <1>1, <1>3, <1>4, Sizes DEF ArrayOK
<1>6. /\ UNCHANGED me /\ UNCHANGED revents /\ UNCHANGED turn /\ UNCHANGED size
      /\ UNCHANGED writable /\ UNCHANGED holes /\ UNCHANGED shut
  BY DEF Expire
<1>7. turn' <= ArrivalSlot
  BY <1>1, <1>6, Sizes
<1> QED
  BY <1>1, <1>4, <1>5, <1>6, <1>7, LoopFrame DEF LoopInv

LEMMA EndOfLoopKeeps ==
  ASSUME LoopInv, EndOfLoop
  PROVE  LoopInv'
<1>1. Thread /\ ArrayOK(fds, db, shut) /\ db \subseteq Conns
  BY DEF LoopInv
<1>2. ArrayOK(fds', db, shut) /\ NoHoles(fds')
  <2>1. CASE holes
    BY <1>1, <2>1, CompressedOK DEF EndOfLoop
  <2>2. CASE ~holes
    BY <1>1, <2>2 DEF EndOfLoop, LoopInv
  <2> QED
    BY <2>1, <2>2
<1>3. Len(fds') <= Base + 2 + Cardinality(Conns)
  BY <1>1, <1>2, ArrayFits
<1>4. /\ UNCHANGED me /\ UNCHANGED revents /\ turn' = 0 /\ UNCHANGED size
      /\ UNCHANGED writable /\ holes' = FALSE /\ UNCHANGED shut /\ UNCHANGED db
  BY DEF EndOfLoop
<1>5. turn' <= ArrivalSlot /\ turn' \in 0 .. size' + 1
  BY <1>1, <1>4, Sizes DEF LoopInv
<1> QED
  BY <1>1, <1>2, <1>3, <1>4, <1>5, LoopFrame DEF LoopInv

\* An action of a slot that only closes.
LEMMA ClosingKeeps ==
  ASSUME LoopInv, NEW i \in Slots, At(i), Advance, UNCHANGED writable,
         NEW fd, fd \notin ToSet(Inputs), CloseForce(fd)
  PROVE  LoopInv'
<1>1. /\ ArrayOK(fds', db', shut') /\ db' \subseteq Conns
      /\ ~NoHoles(fds') => holes'
      /\ Len(fds') = Len(fds) /\ holes' \in BOOLEAN
  BY CloseForceOK
<1>2. Len(fds) \in Nat
  BY DEF LoopInv, ArrayOK
<1> QED
  BY <1>1, <1>2, InnerFrame DEF LoopInv

\* An action of a slot that leaves the array alone.
LEMMA QuietKeeps ==
  ASSUME LoopInv, NEW i \in Slots, At(i), Advance,
         UNCHANGED fds, UNCHANGED db, UNCHANGED shut,
         holes' = holes \/ holes' = TRUE, writable' \subseteq {"out", "w_out"}
  PROVE  LoopInv'
<1>1. ArrayOK(fds', db', shut') /\ db' \subseteq Conns /\ Len(fds') = Len(fds) /\ Len(fds) \in Nat
  BY DEF LoopInv, ArrayOK
<1>2. ~NoHoles(fds') => holes'
  BY DEF LoopInv
<1> QED
  BY <1>1, <1>2, InnerFrame DEF LoopInv

LEMMA ArrivesKeeps ==
  ASSUME LoopInv, NEW i \in Slots, Arrives(i)
  PROVE  LoopInv'
<1>1. Thread /\ ArrayOK(fds, db, shut) /\ db \subseteq Conns /\ Len(fds) \in Nat
      /\ At(i) /\ Advance /\ fds[i] = Arrival /\ UNCHANGED writable /\ UNCHANGED holes /\ UNCHANGED shut
  BY DEF Arrives, LoopInv, ArrayOK
<1> PICK new \in Arrivals : fds' = fds \o new /\ db' = db \cup ToSet(new)
  BY DEF Arrives
<1>2. /\ new \in Seq(Conns \ db) /\ Len(new) <= Cardinality(Conns) /\ Len(new) \in Nat
      /\ \A k, l \in 1 .. Len(new) : new[k] = new[l] => k = l
  BY <1>1, ArrivalsAreNew
<1>3. /\ ArrayOK(fds \o new, db \cup ToSet(new), shut)
      /\ Len(fds \o new) = Len(fds) + Len(new)
      /\ \A k \in 1 .. Len(fds) : (fds \o new)[k] = fds[k]
      /\ \A k \in 1 .. Len(fds \o new) : (fds \o new)[k] = Nobody => k \in 1 .. Len(fds)
  BY <1>1, <1>2, AppendedOK
<1>4. ~NoHoles(fds') => holes'
  <2> SUFFICES ASSUME NEW k \in 1 .. Len(fds'), fds'[k] = Nobody
               PROVE  holes'
    BY DEF NoHoles
  <2>1. k \in 1 .. Len(fds) /\ fds[k] = Nobody
    BY <1>3
  <2> QED
    BY <1>1, <2>1 DEF LoopInv, NoHoles
<1>5. db' \subseteq Conns
  BY <1>1, <1>2 DEF ToSet
<1>6. i \in 1 .. Len(fds) => i = ArrivalSlot
  <2>1. ArrivalSlot \in 1 .. Len(fds) /\ fds[ArrivalSlot] = Arrival /\ Arrival # Nobody
    BY <1>1, Names DEF ArrayOK
  <2> QED
    BY <1>1, <2>1 DEF ArrayOK
<1>7. i \in 1 .. Len(fds)
  BY <1>1, Sizes DEF At, LoopInv
<1>8. Len(fds) <= Len(fds') /\ Len(fds') <= Len(fds) + Cardinality(Conns) /\ Len(fds') \in Nat
  BY <1>1, <1>2, <1>3, Sizes
<1> QED
  BY <1>1, <1>3, <1>4, <1>5, <1>6, <1>7, <1>8, InnerFrame DEF LoopInv

LEMMA LoopStep == LoopInv /\ [Next]_vars => LoopInv'
<1> SUFFICES ASSUME LoopInv, [Next]_vars PROVE LoopInv'
  OBVIOUS
<1> USE Names DEF LoopInv
<1>1. CASE UNCHANGED vars
  BY <1>1 DEF vars, Thread, ArrayOK, PipesStand, PipesOut, NoHoles, Room, ArrivalSlot, Base, Inputs, Fds,
         Slots, ToSet
<1>2. ASSUME NEW i \in Slots, Idle(i) PROVE LoopInv'
  BY <1>2, QuietKeeps DEF Idle
<1>3. ASSUME NEW i \in Slots, HangsUp(i) PROVE LoopInv'
  BY <1>3, ClosingKeeps DEF HangsUp
<1>4. ASSUME NEW i \in Slots, FindsHole(i) PROVE LoopInv'
  BY <1>4, QuietKeeps DEF FindsHole
<1>5. ASSUME NEW i \in Slots, IsClosed(i) PROVE LoopInv'
  <2>1. PICK c \in db : CloseForce(c)
    BY <1>5 DEF IsClosed
  <2>2. c \notin ToSet(Inputs)
    BY <2>1
  <2> QED
    BY <1>5, <2>1, <2>2, ClosingKeeps DEF IsClosed
<1>6. ASSUME NEW i \in Slots, OtherInput(i) PROVE LoopInv'
  BY <1>6, QuietKeeps DEF OtherInput
<1>7. ASSUME NEW i \in Slots, PipeWritable(i) PROVE LoopInv'
  BY <1>7, QuietKeeps DEF PipeWritable
<1>8. ASSUME NEW i \in Slots, Serves(i) PROVE LoopInv'
  <2>1. CASE CloseForce(fds[i])
    <3>1. fds[i] \notin ToSet(Inputs) /\ At(i) /\ Advance /\ UNCHANGED writable
      BY <1>8 DEF Serves
    <3> QED
      BY <2>1, <3>1, ClosingKeeps
  <2>2. CASE UNCHANGED <<fds, holes, db, shut>>
    BY <1>8, <2>2, QuietKeeps DEF Serves
  <2> QED
    BY <1>8, <2>1, <2>2 DEF Serves
<1> QED
  BY <1>1, <1>2, <1>3, <1>4, <1>5, <1>6, <1>7, <1>8, PollKeeps, ExpireKeeps, ArrivesKeeps, EndOfLoopKeeps
     DEF Next

LEMMA LoopInvariant == Spec => []LoopInv
  BY LoopInit, LoopStep, PTL DEF Spec

-----------------------------------------------------------------------------
\* For any connections and either thread, the array, the reports and the counters of the loop keep
\* their types: in particular the array never outgrows the slots of its connections, though it is
\* compressed only at the end of an iteration (run(), compress_array).
THEOREM LoopTypeCorrect == Spec => []TypeOK
<1>1. LoopInv => TypeOK
  <2> SUFFICES ASSUME LoopInv PROVE TypeOK
    OBVIOUS
  <2>1. fds \in Seq(Fds) /\ Len(fds) <= Cardinality(Slots) /\ shut \subseteq ToSet(Pipes)
    BY Sizes DEF LoopInv, ArrayOK, Room
  <2>2. turn \in 0 .. Cardinality(Slots) + 1 /\ size \in 0 .. Cardinality(Slots)
    BY Sizes DEF LoopInv
  <2> QED
    BY <2>1, <2>2, Names DEF LoopInv, Thread, TypeOK
<1> QED
  BY <1>1, LoopInvariant, PTL

\* For any connections and either thread, the inputs stay in front, the pipes behind them or
\* nowhere, every connection has one slot, and poll() is never handed a hole (compress_array,
\* connects_absence, connects_present).
THEOREM ArrayStaysInOrder == Spec => []ArrayInOrder
<1>1. LoopInv => ArrayInOrder
  <2> SUFFICES ASSUME LoopInv, shut = {} PROVE ArrayInOrder
    BY DEF ArrayInOrder
  <2>1. /\ fds \in Seq(Fds) /\ Len(fds) \in Nat /\ Base <= Len(fds) /\ Base \in Nat
        /\ DOMAIN fds = 1 .. Len(fds) /\ Inputs \in Seq(Fds) /\ Len(Inputs) = Base
    BY Names DEF LoopInv, ArrayOK
  <2>2. SubSeq(fds, 1, Base) = Inputs
    <3> PICK front : front = SubSeq(fds, 1, Base)
      OBVIOUS
    <3>1. front \in Seq(Fds) /\ Len(front) = Base /\ \A k \in 1 .. Base : front[k] = fds[k]
      BY <2>1
    <3>2. \A k \in 1 .. Base : front[k] = Inputs[k]
      BY <3>1 DEF LoopInv, ArrayOK
    <3> QED
      BY <2>1, <3>1, <3>2
  <2>3. ASSUME NEW i \in DOMAIN fds, NEW k \in 1 .. 2, fds[i] = Pipes[k]
        PROVE  i = Base + k
    <3>1. Pipes[1] = "out" /\ Pipes[2] = "w_out" /\ i \in 1 .. Len(fds)
      BY <2>1 DEF Pipes
    <3>2. PipesStand(fds)
      BY <2>3, <3>1 DEF LoopInv, ArrayOK, PipesOut
    <3>3. Base + k \in 1 .. Len(fds) /\ fds[Base + k] = Pipes[k]
      BY <2>1, <3>1, <3>2 DEF PipesStand
    <3>4. fds[i] # Nobody
      BY <2>3, <3>1, Names DEF LoopInv
    <3> QED
      BY <2>3, <3>1, <3>3, <3>4 DEF LoopInv, ArrayOK
  <2>4. \A i, j \in DOMAIN fds : fds[i] = fds[j] /\ fds[i] \in Conns => i = j
    BY <2>1, PollAssumption DEF LoopInv, ArrayOK
  <2>5. turn = 0 => Nobody \notin ToSet(fds)
    BY <2>1 DEF LoopInv, NoHoles, ToSet
  <2> QED
    BY <2>2, <2>3, <2>4, <2>5 DEF ArrayInOrder
<1> QED
  BY <1>1, LoopInvariant, PTL

-----------------------------------------------------------------------------
(* What a step may do to the connections that are polled, and to the pipes *)
(* in front of them.                                                       *)

\* A step that closes fd, one that compresses, and one that brings connections.
Closes == \E fd : fd \notin ToSet(Inputs) /\ CloseForce(fd)
Compresses == \E late \in SUBSET db :
    /\ db' = db \ late /\ shut' = shut
    /\ (fds' = Compressed(fds) /\ late = {}) \/ fds' = Compressed(Without(fds, late))
Brings == shut' = shut /\ \E new \in Arrivals : fds' = fds \o new /\ db' = db \cup ToSet(new)

LEMMA KindsOfSteps ==
  ASSUME LoopInv, Next
  PROVE  /\ UNCHANGED me
         /\ Poll \/ Closes \/ Compresses \/ Brings \/ (UNCHANGED fds /\ UNCHANGED db /\ UNCHANGED shut)
<1>1. Thread /\ db \subseteq Conns
  BY DEF LoopInv
<1>2. CASE Poll
  BY <1>2 DEF Poll
<1>3. CASE Expire
  BY <1>3 DEF Expire, Compresses, Without
<1>4. CASE EndOfLoop
  <2>1. db' = db \ {} /\ shut' = shut /\ UNCHANGED me
    BY <1>4 DEF EndOfLoop
  <2> QED
    BY <1>4, <2>1 DEF EndOfLoop, Compresses
<1>5. ASSUME NEW i \in Slots,
             \/ Idle(i) \/ HangsUp(i) \/ FindsHole(i) \/ IsClosed(i) \/ OtherInput(i)
             \/ PipeWritable(i) \/ Serves(i)
      PROVE  /\ UNCHANGED me
             /\ Closes \/ (UNCHANGED fds /\ UNCHANGED db /\ UNCHANGED shut)
  <2>1. \A c \in Conns : c \notin ToSet(Inputs)
    BY <1>1, Names
  <2>2. UNCHANGED me
    BY <1>5 DEF Idle, HangsUp, FindsHole, IsClosed, OtherInput, PipeWritable, Serves, Advance
  <2>3. CASE HangsUp(i)
    BY <2>2, <2>3 DEF HangsUp, Closes
  <2>4. CASE IsClosed(i)
    BY <1>1, <2>1, <2>2, <2>4 DEF IsClosed, Closes
  <2>5. CASE Serves(i)
    BY <2>1, <2>2, <2>5 DEF Serves, Closes
  <2>6. CASE Idle(i) \/ FindsHole(i) \/ OtherInput(i) \/ PipeWritable(i)
    BY <2>2, <2>6 DEF Idle, FindsHole, OtherInput, PipeWritable
  <2> QED
    BY <1>5, <2>3, <2>4, <2>5, <2>6
<1>6. ASSUME NEW i \in Slots, Arrives(i)
      PROVE  UNCHANGED me /\ Brings
  BY <1>6 DEF Arrives, Advance, Brings
<1> QED
  BY <1>2, <1>3, <1>4, <1>5, <1>6 DEF Next

\* Two arrays are the same when their slots are.
LEMMA SameSlots ==
  ASSUME NEW S, NEW a \in Seq(S), NEW b \in Seq(S), Len(a) = Len(b),
         \A k \in 1 .. Len(a) : a[k] = b[k]
  PROVE  a = b
<1>1. PICK n \in Nat : n = Len(a)
  OBVIOUS
<1>2. a \in [1 .. n -> S] /\ b \in [1 .. n -> S]
  BY <1>1
<1> QED
  BY <1>1, <1>2

\* The pipes behind the inputs, slot by slot.
LEMMA PipesSlots ==
  ASSUME Thread, NEW f \in Seq(Fds)
  PROVE  Len(f) >= Base + 2 /\ SubSeq(f, Base + 1, Base + 2) = Pipes <=> PipesStand(f)
<1>1. Len(f) \in Nat /\ Base \in Nat /\ "out" \in Fds /\ "w_out" \in Fds
  BY Names
<1>2. Pipes \in Seq(Fds) /\ Len(Pipes) = 2 /\ Pipes[1] = "out" /\ Pipes[2] = "w_out"
  BY <1>1 DEF Pipes
<1>3. ASSUME Len(f) >= Base + 2
      PROVE  SubSeq(f, Base + 1, Base + 2) = Pipes <=> PipesStand(f)
  <2> PICK two : two = SubSeq(f, Base + 1, Base + 2)
    OBVIOUS
  <2>1. two \in Seq(Fds) /\ Len(two) = 2 /\ two[1] = f[Base + 1] /\ two[2] = f[Base + 2]
    BY <1>1, <1>3
  <2>2. ASSUME two[1] = "out", two[2] = "w_out"
        PROVE  two = Pipes
    <3>1. \A k \in 1 .. 2 : k = 1 \/ k = 2
      OBVIOUS
    <3>2. \A k \in 1 .. 2 : two[k] = Pipes[k]
      BY <1>2, <2>2, <3>1
    <3>3. Len(two) = Len(Pipes) /\ two \in Seq(Fds) /\ Pipes \in Seq(Fds)
      BY <1>2, <2>1
    <3>4. \A k \in 1 .. Len(two) : two[k] = Pipes[k]
      BY <2>1, <3>2
    <3> QED
      BY <3>3, <3>4, SameSlots
  <2> QED
    BY <1>1, <1>2, <1>3, <2>1, <2>2 DEF PipesStand
<1> QED
  BY <1>1, <1>3 DEF PipesStand

\* The connections that are polled, slot by slot, before a step and after it.
LEMMA PolledSlots ==
  ASSUME LoopInv
  PROVE  /\ \A c : c \in PolledConns <=> c \in Conns /\ \E i \in 1 .. Len(fds) : fds[i] = c
         /\ PipesPolled <=> PipesStand(fds)
<1>1. Thread /\ fds \in Seq(Fds) /\ DOMAIN fds = 1 .. Len(fds)
  BY DEF LoopInv, ArrayOK
<1> QED
  BY <1>1, PipesSlots DEF PolledConns, ToSet, PipesPolled

LEMMA PolledSlotsNext ==
  ASSUME LoopInv, LoopInv', UNCHANGED me
  PROVE  /\ \A c : c \in PolledConns' <=> c \in Conns /\ \E i \in 1 .. Len(fds') : fds'[i] = c
         /\ \A c : c \in ToSet(fds') <=> \E i \in 1 .. Len(fds') : fds'[i] = c
         /\ PipesPolled' <=> PipesStand(fds')
<1>1. Base' = Base /\ Inputs' = Inputs
  BY DEF Base, Inputs
<1>2. Fds' = Fds
  BY <1>1 DEF Fds, ToSet
<1>3. Thread /\ fds' \in Seq(Fds)
  BY <1>2 DEF LoopInv, ArrayOK
<1>4. DOMAIN fds' = 1 .. Len(fds')
  BY <1>3
<1>5. Len(fds') >= Base + 2 /\ SubSeq(fds', Base + 1, Base + 2) = Pipes <=> PipesStand(fds')
  BY <1>3, PipesSlots
<1>6. PipesPolled' <=> PipesStand(fds')
  BY <1>1, <1>5 DEF PipesPolled
<1>7. \A c : c \in PolledConns' <=> c \in Conns /\ \E i \in 1 .. Len(fds') : fds'[i] = c
  BY <1>4 DEF PolledConns, ToSet
<1> QED
  BY <1>4, <1>6, <1>7 DEF ToSet

LEMMA ClosesSlots ==
  ASSUME LoopInv, Closes
  PROVE  \E fd : /\ db' = db \ {fd} /\ shut' = shut \cup ({fd} \cap ToSet(Pipes)) /\ Len(fds') = Len(fds)
                 /\ \A i \in 1 .. Len(fds) : fds'[i] = IF fds[i] = fd THEN Nobody ELSE fds[i]
<1> PICK fd : fd \notin ToSet(Inputs) /\ CloseForce(fd)
  BY DEF Closes
<1>1. db' = db \ {fd}
  BY DEF CloseForce
<1> QED
  BY <1>1, CloseForceOK

\* Compressing, after a timeout or not, loses only what was closed, and the pipes stay in front.
LEMMA CompressesSlots ==
  ASSUME LoopInv, Compresses
  PROVE  /\ \A i \in 1 .. Len(fds) : fds[i] \in Conns \cap db' => \E k \in 1 .. Len(fds') : fds'[k] = fds[i]
         /\ \A k \in 1 .. Len(fds') : fds'[k] \in Conns => \E i \in 1 .. Len(fds) : fds'[k] = fds[i]
         /\ PipesStand(fds) => PipesStand(fds')
<1>1. Thread /\ ArrayOK(fds, db, shut) /\ db \subseteq Conns /\ Nobody \notin Conns
  BY PollAssumption DEF LoopInv
<1> PICK late \in SUBSET db :
      db' = db \ late /\ ((fds' = Compressed(fds) /\ late = {}) \/ fds' = Compressed(Without(fds, late)))
  BY DEF Compresses
<1>2. CASE fds' = Compressed(fds) /\ late = {}
  <2> PICK g : g = Compressed(fds)
    OBVIOUS
  <2>1. /\ \A i \in 1 .. Len(fds) : fds[i] # Nobody => \E k \in 1 .. Len(g) : g[k] = fds[i]
        /\ \A k \in 1 .. Len(g) : \E i \in 1 .. Len(fds) : g[k] = fds[i]
        /\ PipesStand(fds) => PipesStand(g)
    BY <1>1, CompressedOK
  <2> QED
    BY <1>1, <1>2, <2>1
<1>3. CASE fds' = Compressed(Without(fds, late))
  <2> PICK f : f = Without(fds, late)
    OBVIOUS
  <2> PICK g : g = Compressed(f)
    OBVIOUS
  <2>1. late \cap ToSet(Inputs) = {} /\ late \cap {"out", "w_out"} = {}
    BY <1>1, Names
  <2> PICK conns, gone : conns = db \ late /\ gone = shut \cup (late \cap ToSet(Pipes))
    OBVIOUS
  <2>2. ArrayOK(f, conns, gone) /\ Len(f) = Len(fds)
    BY <1>1, <2>1, WithoutOK
  <2>8. \A i \in 1 .. Len(fds) : f[i] = IF fds[i] \in late THEN Nobody ELSE fds[i]
    <3>1. DOMAIN fds = 1 .. Len(fds)
      BY <1>1 DEF ArrayOK
    <3> QED
      BY <3>1 DEF Without
  <2>3. /\ \A i \in 1 .. Len(f) : f[i] # Nobody => \E k \in 1 .. Len(g) : g[k] = f[i]
        /\ \A k \in 1 .. Len(g) : \E i \in 1 .. Len(f) : g[k] = f[i]
        /\ PipesStand(f) => PipesStand(g)
    <3>1. ArrayOK(f, conns, gone) /\ Thread
      BY <1>1, <2>2
    <3>2. \A i \in 1 .. Len(f) : f[i] # Nobody =>
            \E k \in 1 .. Len(Compressed(f)) : Compressed(f)[k] = f[i]
      BY <3>1, CompressedOK
    <3>3. \A k \in 1 .. Len(Compressed(f)) : \E i \in 1 .. Len(f) : Compressed(f)[k] = f[i]
      BY <3>1, CompressedOK
    <3>4. PipesStand(f) => PipesStand(Compressed(f))
      BY <3>1, CompressedOK
    <3> QED
      BY <3>2, <3>3, <3>4
  <2>4. PipesStand(fds) => PipesStand(f)
    <3>1. Len(fds) \in Nat /\ Base \in Nat
      BY <1>1, Names DEF ArrayOK
    <3> QED
      BY <2>1, <2>2, <2>8, <3>1 DEF PipesStand
  <2>5. g = fds'
    BY <1>3
  <2>6. \A i \in 1 .. Len(fds) : fds[i] \in Conns \cap db' => \E k \in 1 .. Len(g) : g[k] = fds[i]
    BY <1>1, <2>2, <2>8, <2>3
  <2>7. \A k \in 1 .. Len(g) : g[k] \in Conns => \E i \in 1 .. Len(fds) : g[k] = fds[i]
    BY <1>1, <2>2, <2>8, <2>3
  <2> QED
    BY <2>3, <2>4, <2>5, <2>6, <2>7
<1> QED
  BY <1>2, <1>3

LEMMA BringsSlots ==
  ASSUME LoopInv, Brings
  PROVE  \E new : /\ db' = db \cup ToSet(new) /\ ToSet(new) \subseteq Conns \ db
                  /\ \A i \in 1 .. Len(fds) : fds'[i] = fds[i]
                  /\ Len(fds) <= Len(fds')
                  /\ ToSet(new) = {} => fds' = fds
<1>1. Thread /\ ArrayOK(fds, db, shut) /\ db \subseteq Conns
  BY DEF LoopInv
<1> PICK new \in Arrivals : fds' = fds \o new /\ db' = db \cup ToSet(new)
  BY DEF Brings
<1>2. /\ new \in Seq(Conns \ db) /\ Len(new) \in Nat
      /\ \A i, j \in 1 .. Len(new) : new[i] = new[j] => i = j
  BY <1>1, ArrivalsAreNew
<1>3. Len(fds \o new) = Len(fds) + Len(new) /\ \A i \in 1 .. Len(fds) : (fds \o new)[i] = fds[i]
  BY <1>1, <1>2, AppendedOK
<1>4. fds \in Seq(Fds) /\ Len(fds) \in Nat
  BY <1>1 DEF ArrayOK
<1>5. ToSet(new) \subseteq Conns \ db
  BY <1>2 DEF ToSet
<1>6. ToSet(new) = {} => fds' = fds
  <2>1. new # <<>> => new[1] \in ToSet(new)
    BY <1>2 DEF ToSet
  <2> QED
    BY <1>4, <2>1
<1>7. Len(fds) <= Len(fds') /\ \A i \in 1 .. Len(fds) : fds'[i] = fds[i]
  BY <1>2, <1>3, <1>4
<1> QED
  BY <1>5, <1>6, <1>7

LEMMA PollSlots ==
  ASSUME LoopInv, Poll
  PROVE  /\ \A k \in 1 .. Len(fds') : fds'[k] \in Conns => \E i \in 1 .. Len(fds) : fds'[k] = fds[i]
         /\ PipesStand(fds) => fds' = fds \/ \A i \in 1 .. Len(fds) : fds[i] \notin Conns
<1>1. Thread /\ ArrayOK(fds, db, {}) /\ NoHoles(fds) /\ fds' = Toggled(fds)
  BY DEF Poll, LoopInv
<1>2. \A k \in 1 .. Len(Toggled(fds)) :
        Toggled(fds)[k] \in Conns => \E i \in 1 .. Len(fds) : Toggled(fds)[k] = fds[i]
  BY <1>1, ToggledOK
<1>3. PipesStand(fds) => Toggled(fds) = fds \/ \A i \in 1 .. Len(fds) : fds[i] \notin Conns
  BY <1>1, ToggledOK
<1> QED
  BY <1>1, <1>2, <1>3

-----------------------------------------------------------------------------
\* What a step does to the gate, and to the connections that are polled behind it.
LEMMA GateKept ==
  ASSUME LoopInv, LoopInv', UNCHANGED me, GateStands,
         PipesStand(fds) => PipesStand(fds'),
         \A k \in 1 .. Len(fds') : fds'[k] \in Conns => \E i \in 1 .. Len(fds) : fds'[k] = fds[i]
  PROVE  GateStands'
<1> SUFFICES ASSUME NEW c \in PolledConns' PROVE PipesPolled'
  BY DEF GateStands
<1>1. PICK k \in 1 .. Len(fds') : fds'[k] = c /\ c \in Conns
  BY PolledSlotsNext
<1>2. c \in PolledConns
  BY <1>1, PolledSlots
<1>3. PipesStand(fds)
  BY <1>2, PolledSlots DEF GateStands
<1> QED
  BY <1>3, PolledSlotsNext

LEMMA ToggleKeeps ==
  ASSUME LoopInv, LoopInv', UNCHANGED me, Poll, GateStands
  PROVE  GateStands' /\ PolledConns \cap db' \subseteq ToSet(fds')
<1>1. \A k \in 1 .. Len(fds') : fds'[k] \in Conns => \E i \in 1 .. Len(fds) : fds'[k] = fds[i]
  BY PollSlots
<1>2. CASE PolledConns = {}
  <2>1. GateStands'
    BY <1>1, <1>2, PolledSlots, PolledSlotsNext DEF GateStands
  <2> QED
    BY <1>2, <2>1
<1>3. CASE PolledConns # {}
  <2>1. PipesStand(fds)
    BY <1>3, PolledSlots DEF GateStands
  <2>2. fds' = fds
    BY <1>3, <2>1, PollSlots, PolledSlots
  <2>3. GateStands'
    BY <1>1, <2>2, GateKept
  <2>4. PolledConns \subseteq ToSet(fds')
    BY <2>2 DEF PolledConns
  <2> QED
    BY <2>3, <2>4
<1> QED
  BY <1>2, <1>3

LEMMA ClosesKeeps ==
  ASSUME LoopInv, LoopInv', UNCHANGED me, Closes, GateStands
  PROVE  /\ GateStands' \/ shut # shut'
         /\ PolledConns \cap db' \subseteq ToSet(fds')
<1> PICK fd : /\ db' = db \ {fd} /\ shut' = shut \cup ({fd} \cap ToSet(Pipes)) /\ Len(fds') = Len(fds)
              /\ \A i \in 1 .. Len(fds) : fds'[i] = IF fds[i] = fd THEN Nobody ELSE fds[i]
  BY ClosesSlots
<1>1. Thread /\ ArrayOK(fds, db, shut) /\ Nobody \notin Conns /\ Len(fds) \in Nat /\ Base \in Nat
  BY Names, PollAssumption DEF LoopInv, ArrayOK
<1>2. PolledConns \cap db' \subseteq ToSet(fds')
  <2> SUFFICES ASSUME NEW c \in PolledConns, c \in db' PROVE c \in ToSet(fds')
    OBVIOUS
  <2>1. PICK i \in 1 .. Len(fds) : fds[i] = c
    BY PolledSlots
  <2>2. fds'[i] = c /\ i \in 1 .. Len(fds')
    BY <2>1
  <2> QED
    BY <2>2, PolledSlotsNext
<1>3. ASSUME shut' = shut PROVE GateStands'
  <2>1. \A i \in 1 .. Len(fds) : fds[i] \in ToSet(Pipes) => fds[i] # fd
    BY <1>1, <1>3 DEF ArrayOK
  <2>2. "out" \in ToSet(Pipes) /\ "w_out" \in ToSet(Pipes)
    BY <1>1, Names
  <2>3. PipesStand(fds) => PipesStand(fds')
    BY <1>1, <2>1, <2>2 DEF PipesStand
  <2>4. \A k \in 1 .. Len(fds') : fds'[k] \in Conns => \E i \in 1 .. Len(fds) : fds'[k] = fds[i]
    BY <1>1
  <2> QED
    BY <2>3, <2>4, GateKept
<1> QED
  BY <1>2, <1>3

LEMMA CompressesKeeps ==
  ASSUME LoopInv, LoopInv', UNCHANGED me, Compresses, GateStands
  PROVE  GateStands' /\ PolledConns \cap db' \subseteq ToSet(fds')
<1>1. /\ PipesStand(fds) => PipesStand(fds')
      /\ \A k \in 1 .. Len(fds') : fds'[k] \in Conns => \E i \in 1 .. Len(fds) : fds'[k] = fds[i]
  BY CompressesSlots
<1>2. GateStands'
  BY <1>1, GateKept
<1>3. ASSUME NEW c \in PolledConns, c \in db' PROVE c \in ToSet(fds')
  <2>1. PICK i \in 1 .. Len(fds) : fds[i] = c /\ c \in Conns
    BY PolledSlots
  <2>2. PICK k \in 1 .. Len(fds') : fds'[k] = c
    BY <1>3, <2>1, CompressesSlots
  <2> QED
    BY <2>2, PolledSlotsNext
<1> QED
  BY <1>2, <1>3

LEMMA BringsKeeps ==
  ASSUME LoopInv, LoopInv', UNCHANGED me, Brings, GateStands
  PROVE  /\ GateStands' \/ (~PipesPolled /\ db \subseteq db' /\ db # db')
         /\ PolledConns \cap db' \subseteq ToSet(fds')
<1> PICK new : /\ db' = db \cup ToSet(new) /\ ToSet(new) \subseteq Conns \ db
               /\ \A i \in 1 .. Len(fds) : fds'[i] = fds[i]
               /\ Len(fds) <= Len(fds')
               /\ ToSet(new) = {} => fds' = fds
  BY BringsSlots
<1>1. Len(fds) \in Nat /\ Len(fds') \in Nat /\ Base \in Nat
  BY Names DEF LoopInv, ArrayOK
<1>2. PipesStand(fds) => PipesStand(fds')
  BY <1>1 DEF PipesStand
<1>3. ASSUME NEW c \in PolledConns PROVE c \in ToSet(fds')
  <2>1. PICK i \in 1 .. Len(fds) : fds[i] = c
    BY PolledSlots
  <2>2. i \in 1 .. Len(fds') /\ fds'[i] = c
    BY <1>1, <2>1
  <2> QED
    BY <2>2, PolledSlotsNext
<1>4. CASE ToSet(new) = {}
  <2>1. \A k \in 1 .. Len(fds') : fds'[k] \in Conns => \E i \in 1 .. Len(fds) : fds'[k] = fds[i]
    BY <1>4
  <2> QED
    BY <1>2, <1>3, <2>1, GateKept
<1>5. CASE ToSet(new) # {}
  <2>1. db \subseteq db' /\ db # db'
    BY <1>5
  <2>2. PipesPolled => GateStands'
    BY <1>2, PolledSlots, PolledSlotsNext DEF GateStands
  <2> QED
    BY <1>3, <2>1, <2>2
<1> QED
  BY <1>4, <1>5

\* What one step may do when the gate stands.
GateFalls == (~PipesPolled /\ db \subseteq db' /\ db # db') \/ shut # shut'

LEMMA GateStep ==
  ASSUME LoopInv, LoopInv', [Next]_vars, GateStands
  PROVE  /\ ~GateStands' => GateFalls
         /\ PolledConns \cap db' \subseteq ToSet(fds')
<1>1. ASSUME UNCHANGED me, UNCHANGED fds, UNCHANGED db, UNCHANGED shut
      PROVE  GateStands' /\ PolledConns \cap db' \subseteq ToSet(fds')
  <2>1. \A k \in 1 .. Len(fds') : fds'[k] \in Conns => \E i \in 1 .. Len(fds) : fds'[k] = fds[i]
    BY <1>1
  <2>2. PolledConns \subseteq ToSet(fds')
    BY <1>1 DEF PolledConns
  <2> QED
    BY <1>1, <2>1, <2>2, GateKept
<1>2. CASE Next
  <2>1. /\ UNCHANGED me
        /\ Poll \/ Closes \/ Compresses \/ Brings \/ (UNCHANGED fds /\ UNCHANGED db /\ UNCHANGED shut)
    BY <1>2, KindsOfSteps
  <2>2. CASE Poll
    BY <2>1, <2>2, ToggleKeeps
  <2>3. CASE Closes
    BY <2>1, <2>3, ClosesKeeps DEF GateFalls
  <2>4. CASE Compresses
    BY <2>1, <2>4, CompressesKeeps
  <2>5. CASE Brings
    BY <2>1, <2>5, BringsKeeps DEF GateFalls
  <2>6. CASE UNCHANGED fds /\ UNCHANGED db /\ UNCHANGED shut
    BY <1>1, <2>1, <2>6
  <2> QED
    BY <2>1, <2>2, <2>3, <2>4, <2>5, <2>6
<1>3. CASE UNCHANGED vars
  BY <1>1, <1>3 DEF vars
<1> QED
  BY <1>2, <1>3

\* A connection open behind the output pipes is never lost from the array by connects_present,
\* connects_absence, compress_array or a timeout of another: it leaves it only by being
\* closed, for any number of connections (server_logic.cpp:132, 142, 807, 824).
THEOREM OpenConnsAlwaysStayPolled == Spec => OpenConnsStayPolled
<1>1. LoopInv /\ LoopInv' /\ [Next]_vars => [GateStands => PolledConns \cap db' \subseteq ToSet(fds')]_vars
  BY GateStep
<1> QED
  BY <1>1, LoopInvariant, PTL DEF Spec, OpenConnsStayPolled

\* The output pipes stop being polled in front of the connections in two ways only: one arrives
\* in the iteration that took the pipes out of the array, or a pipe itself is closed, for any
\* number of connections (client_logic.cpp:208, 245, 955).
THEOREM GateOnlyFallsByLateArrival == Spec => GateFallsByLateArrival
<1>1. LoopInv /\ LoopInv' /\ [Next]_vars =>
        [GateStands /\ ~GateStands' =>
           \/ ~PipesPolled /\ db \subseteq db' /\ db # db'
           \/ shut # shut']_vars
  BY GateStep DEF GateFalls
<1> QED
  BY <1>1, LoopInvariant, PTL DEF Spec, GateFallsByLateArrival

=============================================================================
