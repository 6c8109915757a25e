--------------------------- MODULE MainMemoryProofs ---------------------------
(***************************************************************************)
(* What the operators of MainMemory do to a main memory that holes and     *)
(* segments tile: for lists of any length and areas of any size.           *)
(***************************************************************************)
EXTENDS MainMemory, SequenceTheorems, FiniteSetTheorems, WellFoundedInduction, TLAPS

-----------------------------------------------------------------------------
(* Induction over lists, in a form the provers can instantiate.            *)

\* A set of natural numbers that is not empty has a least element.
LEMMA Least ==
  ASSUME NEW T \in SUBSET Nat, T # {}
  PROVE  \E x \in T : \A y \in T : x <= y
<1> DEFINE R == OpToRel(<, Nat)
<1>1. IsWellFoundedOn(R, Nat)
  BY NatLessThanWellFounded
<1>2. \A x, y \in T : y < x => <<y, x>> \in R
  BY DEF OpToRel
<1> HIDE DEF R
<1>3. PICK x \in T : \A y \in T : ~ (<<y, x>> \in R)
  BY <1>1, WFMin
<1>4. \A y \in T : ~(y < x)
  BY <1>2, <1>3
<1>5. \A y \in T : x <= y
  BY <1>4
<1> QED BY <1>5

LEMMA Induction ==
  ASSUME NEW S \in SUBSET Nat, 0 \in S, \A n \in S : n + 1 \in S
  PROVE  S = Nat
<1> SUFFICES ASSUME Nat \ S # {} PROVE FALSE
  OBVIOUS
<1>1. PICK x \in Nat \ S : \A y \in Nat \ S : x <= y
  BY Least
<1>2. x # 0 /\ x - 1 \in Nat
  OBVIOUS
<1>3. x - 1 \in S
  BY <1>1, <1>2
<1> QED BY <1>3

\* A pass over n elements that starts from init and takes a step at each one.
IsPass(f, n, V, init, step) ==
  f \in [0 .. n -> V] /\ f[0] = init /\ \A i \in 1 .. n : f[i] = step[i][f[i - 1]]

LEMMA Pass ==
  ASSUME NEW n \in Nat, NEW V, NEW init \in V, NEW step \in [1 .. n -> [V -> V]]
  PROVE  \E f : IsPass(f, n, V, init, step)
<1> DEFINE Done(m, f) == f[0] = init /\ \A i \in 1 .. m : f[i] = step[i][f[i - 1]]
           S == {m \in Nat : m <= n => \E f \in [0 .. m -> V] : Done(m, f)}
<1>1. 0 \in S
  <2> DEFINE f == [i \in 0 .. 0 |-> init]
  <2>1. f \in [0 .. 0 -> V] /\ Done(0, f)
    OBVIOUS
  <2> QED BY <2>1
<1>2. ASSUME NEW m \in S PROVE m + 1 \in S
  <2>0. m \in Nat /\ m + 1 \in Nat
    BY <1>2
  <2> SUFFICES ASSUME m + 1 <= n PROVE \E f \in [0 .. m + 1 -> V] : Done(m + 1, f)
    BY <2>0, Zenon
  <2>1. PICK f \in [0 .. m -> V] : Done(m, f)
    BY <1>2
  <2> DEFINE g == [i \in 0 .. m + 1 |-> IF i <= m THEN f[i] ELSE step[m + 1][f[m]]]
  <2>2. step[m + 1][f[m]] \in V
    BY <1>2, <2>1
  <2>3. g \in [0 .. m + 1 -> V]
    BY <1>2, <2>1, <2>2
  <2>4. Done(m + 1, g)
    <3>1. m \in Nat /\ g[0] = init
      BY <1>2, <2>1
    <3>2. ASSUME NEW i \in 1 .. m PROVE g[i] = step[i][g[i - 1]]
      <4>1. f[i] = step[i][f[i - 1]] /\ g[i] = f[i] /\ g[i - 1] = f[i - 1]
        BY <2>1, <3>1
      <4> QED BY <4>1
    <3>3. g[m + 1] = step[m + 1][g[m + 1 - 1]]
      <4>1. g[m + 1] = step[m + 1][f[m]] /\ g[m] = f[m] /\ m + 1 - 1 = m
        BY <3>1
      <4> QED BY <4>1
    <3> HIDE DEF g
    <3>4. ASSUME NEW i \in 1 .. m + 1 PROVE g[i] = step[i][g[i - 1]]
      <4>1. CASE i = m + 1
        BY <3>3, <4>1
      <4>2. CASE i # m + 1
        BY <3>1, <3>2, <4>2
      <4> QED BY <4>1, <4>2
    <3> QED BY <3>1, <3>4
  <2> QED BY <2>3, <2>4
<1> HIDE DEF S
<1>3. S = Nat
  <2>1. S \in SUBSET Nat
    BY DEF S
  <2> QED BY <1>1, <1>2, <2>1, Induction
<1>4. PICK f \in [0 .. n -> V] : Done(n, f)
  BY <1>3 DEF S
<1> QED BY <1>4 DEF IsPass

-----------------------------------------------------------------------------
(* Sums.                                                                   *)

LEMMA SumExists ==
  ASSUME NEW s \in Seq(Int)
  PROVE  RunningSum(s) =
           [i \in 0 .. Len(s) |-> IF i = 0 THEN 0 ELSE RunningSum(s)[i - 1] + s[i]]
<1> DEFINE step == [i \in 1 .. Len(s) |-> [v \in Int |-> v + s[i]]]
           P(f) == f = [i \in 0 .. Len(s) |-> IF i = 0 THEN 0 ELSE f[i - 1] + s[i]]
<1>1. step \in [1 .. Len(s) -> [Int -> Int]]
  OBVIOUS
<1> HIDE DEF step
<1>2. PICK f : IsPass(f, Len(s), Int, 0, step)
  <2>1. Len(s) \in Nat /\ 0 \in Int
    OBVIOUS
  <2> QED BY <1>1, <2>1, Pass
<1>3. P(f)
  <2>1. ASSUME NEW i \in 1 .. Len(s) PROVE f[i] = f[i - 1] + s[i]
    <3>1. f[i - 1] \in Int
      BY <1>2 DEF IsPass
    <3>2. \A v \in Int : step[i][v] = v + s[i]
      BY DEF step
    <3>3. f[i] = step[i][f[i - 1]]
      BY <1>2 DEF IsPass
    <3> QED BY <3>1, <3>2, <3>3, Zenon
  <2> QED BY <1>2, <2>1 DEF IsPass
<1>4. P(CHOOSE g : P(g))
  BY <1>3, Zenon
<1>5. RunningSum(s) = CHOOSE g : P(g)
  BY Zenon DEF RunningSum
<1> QED BY <1>4, <1>5, Zenon

LEMMA SumType ==
  ASSUME NEW s \in Seq(Int)
  PROVE  /\ RunningSum(s) \in [0 .. Len(s) -> Int]
         /\ RunningSum(s)[0] = 0
         /\ \A i \in 1 .. Len(s) : RunningSum(s)[i] = RunningSum(s)[i - 1] + s[i]
<1> DEFINE f == RunningSum(s)
<1>1. f = [i \in 0 .. Len(s) |-> IF i = 0 THEN 0 ELSE f[i - 1] + s[i]]
  BY SumExists, Zenon
<1> HIDE DEF f
<1>0. Len(s) \in Nat
  OBVIOUS
<1>2. f[0] = 0 /\ \A i \in 1 .. Len(s) : f[i] = f[i - 1] + s[i]
  BY <1>0, <1>1
<1> DEFINE S == {n \in Nat : n <= Len(s) => f[n] \in Int}
<1>3. S = Nat
  <2>1. 0 \in S
    BY <1>2
  <2>2. ASSUME NEW n \in S PROVE n + 1 \in S
    <3> SUFFICES ASSUME n + 1 <= Len(s) PROVE f[n + 1] \in Int
      OBVIOUS
    <3>1. n + 1 \in 1 .. Len(s) /\ n + 1 - 1 = n /\ f[n] \in Int
      BY <1>0
    <3>2. f[n + 1] = f[n] + s[n + 1] /\ s[n + 1] \in Int
      BY <1>2, <3>1
    <3> QED BY <3>1, <3>2
  <2>3. S \in SUBSET Nat
    OBVIOUS
  <2> HIDE DEF S
  <2> QED BY <2>1, <2>2, <2>3, Induction
<1>4. \A n \in 0 .. Len(s) : f[n] \in Int
  BY <1>3
<1>5. f \in [0 .. Len(s) -> Int]
  BY <1>1, <1>4
<1> QED BY <1>2, <1>5 DEF f
-----------------------------------------------------------------------------
(* The search for a hole.                                                  *)

\* Positive sizes.
Sized(list) == \A i \in DOMAIN list : list[i].size \in Nat \ {0}

\* What the scan has chosen after the first n holes.
Best(holes, size, n, chosen) ==
  \/ chosen = NoHole /\ \A i \in 1 .. n : holes[i].size < size
  \/ /\ \E i \in 1 .. n : holes[i].size >= size /\ holes[i] = chosen
     /\ \A i \in 1 .. n : holes[i].size >= size =>
          IF STRATEGY = "BEST" THEN chosen.size <= holes[i].size
          ELSE chosen.size >= holes[i].size

\* One more hole.
LEMMA BestStep ==
  ASSUME NEW holes, Sized(holes), NEW size \in Nat, NEW n \in Nat, n + 1 \in DOMAIN holes,
         1 .. n \subseteq DOMAIN holes, NEW chosen, Best(holes, size, n, chosen),
         NEW next,
         next = IF holes[n + 1].size >= size /\ Prefers(holes[n + 1], chosen)
                THEN holes[n + 1] ELSE chosen
  PROVE  Best(holes, size, n + 1, next)
<1>1. /\ \A i \in 1 .. n : holes[i].size \in Nat \ {0}
      /\ holes[n + 1].size \in Nat \ {0} /\ n + 1 \in 1 .. n + 1
  BY DEF Sized
<1>2. \A i \in 1 .. n + 1 : i \in 1 .. n \/ i = n + 1
  OBVIOUS
<1>3. CASE chosen = NoHole /\ \A i \in 1 .. n : holes[i].size < size
  <2>1. Prefers(holes[n + 1], chosen)
    BY <1>3 DEF Prefers, NoHole
  <2>2. CASE holes[n + 1].size >= size
    <3>1. next = holes[n + 1]
      BY <2>1, <2>2
    <3>2. \A i \in 1 .. n + 1 : holes[i].size >= size => i = n + 1
      BY <1>1, <1>2, <1>3
    <3>3. \A i \in 1 .. n + 1 : holes[i].size >= size =>
            IF STRATEGY = "BEST" THEN next.size <= holes[i].size
            ELSE next.size >= holes[i].size
      BY <1>1, <3>1, <3>2
    <3> QED BY <1>1, <2>2, <3>1, <3>3 DEF Best
  <2>3. CASE ~(holes[n + 1].size >= size)
    BY <1>1, <1>2, <1>3, <2>3 DEF Best
  <2> QED BY <2>2, <2>3
<1>4. ASSUME NEW k \in 1 .. n, holes[k].size >= size, holes[k] = chosen,
             \A i \in 1 .. n : holes[i].size >= size =>
               IF STRATEGY = "BEST" THEN chosen.size <= holes[i].size
               ELSE chosen.size >= holes[i].size
      PROVE  Best(holes, size, n + 1, next)
  <2>1. chosen.size \in Nat \ {0} /\ k \in 1 .. n + 1
    BY <1>1, <1>4
  <2>2. CASE holes[n + 1].size >= size /\ Prefers(holes[n + 1], chosen)
    <3>1. next = holes[n + 1]
      BY <2>2
    <3>2. IF STRATEGY = "BEST" THEN holes[n + 1].size < chosen.size
          ELSE holes[n + 1].size > chosen.size
      BY <1>1, <2>1, <2>2, StrategyAssumption DEF Prefers
    <3>3. \A i \in 1 .. n + 1 : holes[i].size >= size =>
            IF STRATEGY = "BEST" THEN next.size <= holes[i].size
            ELSE next.size >= holes[i].size
      BY <1>1, <1>2, <1>4, <2>1, <3>1, <3>2
    <3> QED BY <1>1, <2>2, <3>1, <3>3 DEF Best
  <2>3. CASE ~(holes[n + 1].size >= size /\ Prefers(holes[n + 1], chosen))
    <3>1. next = chosen
      BY <2>3
    <3>2. holes[n + 1].size >= size =>
            IF STRATEGY = "BEST" THEN chosen.size <= holes[n + 1].size
            ELSE chosen.size >= holes[n + 1].size
      BY <1>1, <2>1, <2>3, StrategyAssumption DEF Prefers
    <3>3. \A i \in 1 .. n + 1 : holes[i].size >= size =>
            IF STRATEGY = "BEST" THEN next.size <= holes[i].size
            ELSE next.size >= holes[i].size
      BY <1>2, <1>4, <3>1, <3>2
    <3> QED BY <1>4, <2>1, <3>1, <3>3 DEF Best
  <2> QED BY <2>2, <2>3
<1> QED BY <1>3, <1>4 DEF Best

\* The scan finds a hole exactly when one is large enough, and the best of them.
LEMMA Selection ==
  ASSUME NEW S, NEW holes \in Seq(S), Sized(holes), NEW size \in Nat
  PROVE  Best(holes, size, Len(holes), hole_selection_algorithm(size, holes))
<1> DEFINE n == Len(holes)
           V == {NoHole} \cup ToSet(holes)
           step == [i \in 1 .. n |-> [v \in V |->
                      IF holes[i].size >= size /\ Prefers(holes[i], v)
                      THEN holes[i] ELSE v]]
           P(f) == f = [i \in 0 .. Len(holes) |->
                          IF i = 0 THEN NoHole
                          ELSE IF holes[i].size >= size /\ Prefers(holes[i], f[i - 1])
                               THEN holes[i] ELSE f[i - 1]]
<1>0. n \in Nat /\ DOMAIN holes = 1 .. n
  OBVIOUS
<1>1. step \in [1 .. n -> [V -> V]]
  <2>1. \A i \in 1 .. n : holes[i] \in V
    BY DEF ToSet
  <2> HIDE DEF n, V
  <2> QED BY <2>1
<1> HIDE DEF step, V
<1>2. PICK f : IsPass(f, n, V, NoHole, step)
  <2>1. NoHole \in V
    BY DEF V
  <2> HIDE DEF n
  <2> QED BY <1>0, <1>1, <2>1, Pass
<1>3. P(f)
  <2>1. ASSUME NEW i \in 1 .. n
        PROVE  f[i] = IF holes[i].size >= size /\ Prefers(holes[i], f[i - 1])
                      THEN holes[i] ELSE f[i - 1]
    <3>1. f[i - 1] \in V
      BY <1>0, <1>2 DEF IsPass
    <3>2. \A v \in V : step[i][v] = IF holes[i].size >= size /\ Prefers(holes[i], v)
                                    THEN holes[i] ELSE v
      BY DEF step
    <3>3. f[i] = step[i][f[i - 1]]
      BY <1>2 DEF IsPass
    <3> QED BY <3>1, <3>2, <3>3, Zenon
  <2> QED BY <1>2, <2>1 DEF IsPass
<1>4. P(CHOOSE g : P(g))
  BY <1>3, Zenon
<1>5. PICK g : P(g) /\ hole_selection_algorithm(size, holes) = g[Len(holes)]
  BY <1>4, Zenon DEF hole_selection_algorithm
<1>6. /\ g[0] = NoHole
      /\ \A i \in 1 .. n : g[i] = IF holes[i].size >= size /\ Prefers(holes[i], g[i - 1])
                                  THEN holes[i] ELSE g[i - 1]
  <2>1. g = [i \in 0 .. n |->
               IF i = 0 THEN NoHole
               ELSE IF holes[i].size >= size /\ Prefers(holes[i], g[i - 1])
                    THEN holes[i] ELSE g[i - 1]]
    BY <1>5, Zenon
  <2> HIDE DEF n
  <2>2. \A i \in 0 .. n :
          g[i] = IF i = 0 THEN NoHole
                 ELSE IF holes[i].size >= size /\ Prefers(holes[i], g[i - 1])
                      THEN holes[i] ELSE g[i - 1]
    BY <2>1, Zenon
  <2>3. 0 \in 0 .. n /\ \A i \in 1 .. n : i \in 0 .. n /\ i # 0
    BY <1>0
  <2> QED BY <2>2, <2>3, Zenon
<1> DEFINE T == {m \in Nat : m <= n => Best(holes, size, m, g[m])}
<1>7. 0 \in T
  BY <1>6 DEF Best
<1>8. ASSUME NEW m \in T PROVE m + 1 \in T
  <2> SUFFICES ASSUME m + 1 <= n PROVE Best(holes, size, m + 1, g[m + 1])
    OBVIOUS
  <2>1. m \in Nat /\ m + 1 \in 1 .. n /\ m + 1 - 1 = m /\ 1 .. m \subseteq 1 .. n
    BY <1>0
  <2>2. Best(holes, size, m, g[m])
    BY <1>8, <2>1
  <2>3. g[m + 1] = IF holes[m + 1].size >= size /\ Prefers(holes[m + 1], g[m])
                   THEN holes[m + 1] ELSE g[m]
    BY <1>6, <2>1
  <2> HIDE DEF n
  <2> QED BY <1>0, <2>1, <2>2, <2>3, BestStep
<1>9. T = Nat
  <2>1. T \in SUBSET Nat
    OBVIOUS
  <2> HIDE DEF T
  <2> QED BY <1>7, <1>8, <2>1, Induction
<1>10. Best(holes, size, n, g[n])
  BY <1>0, <1>9
<1> QED BY <1>5, <1>10
-----------------------------------------------------------------------------
(* The segments of a process.                                              *)

\* mine lists the segments of pid among the first n.
Filtered(segments, pid, n, mine) ==
  /\ \A k \in DOMAIN mine : mine[k].pid = pid /\ \E i \in 1 .. n : segments[i] = mine[k]
  /\ \A i \in 1 .. n : segments[i].pid = pid => \E k \in DOMAIN mine : mine[k] = segments[i]

LEMMA FilterStep ==
  ASSUME NEW S, NEW segments \in Seq(S), NEW pid, NEW n \in Nat, n + 1 <= Len(segments),
         NEW mine \in Seq(S), Filtered(segments, pid, n, mine), NEW next,
         next = IF segments[n + 1].pid = pid THEN Append(mine, segments[n + 1]) ELSE mine
  PROVE  next \in Seq(S) /\ Filtered(segments, pid, n + 1, next)
<1>0. /\ segments[n + 1] \in S /\ n + 1 \in 1 .. n + 1 /\ 1 .. n \subseteq 1 .. n + 1
      /\ \A i \in 1 .. n + 1 : i \in 1 .. n \/ i = n + 1
  OBVIOUS
<1>1. CASE segments[n + 1].pid = pid
  <2>1. /\ next \in Seq(S) /\ Len(next) = Len(mine) + 1
        /\ DOMAIN next = 1 .. Len(mine) + 1 /\ DOMAIN mine = 1 .. Len(mine)
        /\ Len(mine) \in Nat
        /\ \A k \in DOMAIN mine : next[k] = mine[k]
        /\ next[Len(mine) + 1] = segments[n + 1]
    BY <1>0, <1>1
  <2>2. \A k \in DOMAIN next : next[k].pid = pid /\ \E i \in 1 .. n + 1 : segments[i] = next[k]
    <3> TAKE k \in DOMAIN next
    <3>1. CASE k \in DOMAIN mine
      BY <1>0, <2>1, <3>1 DEF Filtered
    <3>2. CASE k = Len(mine) + 1
      BY <1>0, <1>1, <2>1, <3>2
    <3> QED BY <2>1, <3>1, <3>2
  <2>3. \A i \in 1 .. n + 1 : segments[i].pid = pid => \E k \in DOMAIN next : next[k] = segments[i]
    <3> SUFFICES ASSUME NEW i \in 1 .. n + 1, segments[i].pid = pid
                 PROVE  \E k \in DOMAIN next : next[k] = segments[i]
      OBVIOUS
    <3>1. CASE i \in 1 .. n
      <4>1. PICK k \in DOMAIN mine : mine[k] = segments[i]
        BY <3>1 DEF Filtered
      <4>2. k \in DOMAIN next /\ next[k] = segments[i]
        BY <2>1, <4>1
      <4> QED BY <4>2
    <3>2. CASE i = n + 1
      <4>1. Len(mine) + 1 \in DOMAIN next /\ next[Len(mine) + 1] = segments[i]
        BY <2>1, <3>2
      <4> DEFINE last == Len(mine) + 1
      <4>2. last \in DOMAIN next /\ next[last] = segments[i]
        BY <4>1
      <4> HIDE DEF last
      <4> QED BY <4>2
    <3> QED BY <1>0, <3>1, <3>2
  <2> QED BY <2>1, <2>2, <2>3 DEF Filtered
<1>2. CASE segments[n + 1].pid # pid
  BY <1>0, <1>2 DEF Filtered
<1> QED BY <1>1, <1>2

LEMMA FilterFacts ==
  ASSUME NEW S, NEW segments \in Seq(S), NEW pid
  PROVE  /\ filter_process_segments(segments, pid) \in Seq(S)
         /\ Filtered(segments, pid, Len(segments), filter_process_segments(segments, pid))
<1> DEFINE n == Len(segments)
           V == Seq(S)
           step == [i \in 1 .. n |-> [v \in V |->
                      IF segments[i].pid = pid THEN Append(v, segments[i]) ELSE v]]
           P(f) == f = [i \in 0 .. Len(segments) |->
                          IF i = 0 THEN <<>>
                          ELSE IF segments[i].pid = pid THEN Append(f[i - 1], segments[i])
                          ELSE f[i - 1]]
<1>0. n \in Nat /\ DOMAIN segments = 1 .. n
  OBVIOUS
<1>1. step \in [1 .. n -> [V -> V]]
  <2>1. \A i \in 1 .. n : \A v \in V : Append(v, segments[i]) \in V
    OBVIOUS
  <2> HIDE DEF n, V
  <2> QED BY <2>1
<1> HIDE DEF step, V
<1>2. PICK f : IsPass(f, n, V, <<>>, step)
  <2>1. <<>> \in V
    BY DEF V
  <2> HIDE DEF n
  <2> QED BY <1>0, <1>1, <2>1, Pass
<1>3. P(f)
  <2>1. ASSUME NEW i \in 1 .. n
        PROVE  f[i] = IF segments[i].pid = pid THEN Append(f[i - 1], segments[i])
                      ELSE f[i - 1]
    <3>1. f[i - 1] \in V
      BY <1>0, <1>2 DEF IsPass
    <3>2. \A v \in V : step[i][v] = IF segments[i].pid = pid THEN Append(v, segments[i]) ELSE v
      BY DEF step
    <3>3. f[i] = step[i][f[i - 1]]
      BY <1>2 DEF IsPass
    <3> QED BY <3>1, <3>2, <3>3, Zenon
  <2> DEFINE G == [i \in 0 .. n |->
                    IF i = 0 THEN <<>>
                    ELSE IF segments[i].pid = pid THEN Append(f[i - 1], segments[i])
                    ELSE f[i - 1]]
  <2> HIDE DEF n
  <2>2. \A i \in 0 .. n : f[i] = G[i]
    <3> TAKE i \in 0 .. n
    <3>1. CASE i = 0
      <4>1. f[0] = <<>>
        BY <1>2 DEF IsPass
      <4> QED BY <3>1, <4>1
    <3>2. CASE i # 0
      <4>1. i \in 1 .. n
        BY <1>0, <3>2
      <4> QED BY <2>1, <3>2, <4>1, Zenon
    <3> QED BY <3>1, <3>2
  <2>3. DOMAIN G = 0 .. n /\ G = [i \in 0 .. n |-> G[i]]
    OBVIOUS
  <2>4. f = [i \in 0 .. n |-> f[i]]
    BY <1>2 DEF IsPass
  <2> HIDE DEF G
  <2>5. f = G
    BY <2>2, <2>3, <2>4
  <2> QED BY <2>5 DEF G, n
<1>4. P(CHOOSE g : P(g))
  BY <1>3, Zenon
<1>5. PICK g : P(g) /\ filter_process_segments(segments, pid) = g[Len(segments)]
  BY <1>4, Zenon DEF filter_process_segments
<1>6. /\ g[0] = <<>>
      /\ \A i \in 1 .. n : g[i] = IF segments[i].pid = pid THEN Append(g[i - 1], segments[i])
                                  ELSE g[i - 1]
  <2>1. g = [i \in 0 .. n |->
               IF i = 0 THEN <<>>
               ELSE IF segments[i].pid = pid THEN Append(g[i - 1], segments[i])
               ELSE g[i - 1]]
    BY <1>5, Zenon
  <2> HIDE DEF n
  <2>2. \A i \in 0 .. n :
          g[i] = IF i = 0 THEN <<>>
                 ELSE IF segments[i].pid = pid THEN Append(g[i - 1], segments[i])
                 ELSE g[i - 1]
    BY <2>1, Zenon
  <2>3. 0 \in 0 .. n /\ \A i \in 1 .. n : i \in 0 .. n /\ i # 0
    BY <1>0
  <2> QED BY <2>2, <2>3, Zenon
<1> DEFINE T == {m \in Nat : m <= n => g[m] \in Seq(S) /\ Filtered(segments, pid, m, g[m])}
<1>7. 0 \in T
  <2>1. g[0] \in Seq(S) /\ DOMAIN g[0] = {} /\ 1 .. 0 = {}
    BY <1>6
  <2> QED BY <2>1 DEF Filtered
<1>8. ASSUME NEW m \in T PROVE m + 1 \in T
  <2> SUFFICES ASSUME m + 1 <= n
               PROVE  g[m + 1] \in Seq(S) /\ Filtered(segments, pid, m + 1, g[m + 1])
    OBVIOUS
  <2>1. m \in Nat /\ m + 1 \in 1 .. n /\ m + 1 - 1 = m
    BY <1>0
  <2>2. g[m] \in Seq(S) /\ Filtered(segments, pid, m, g[m])
    BY <1>8, <2>1
  <2>3. g[m + 1] = IF segments[m + 1].pid = pid THEN Append(g[m], segments[m + 1]) ELSE g[m]
    BY <1>6, <2>1
  <2>4. m + 1 <= Len(segments)
    OBVIOUS
  <2> HIDE DEF n
  <2> QED BY <2>1, <2>2, <2>3, <2>4, FilterStep
<1>9. T = Nat
  <2>1. T \in SUBSET Nat
    OBVIOUS
  <2> HIDE DEF T
  <2> QED BY <1>7, <1>8, <2>1, Induction
<1>10. g[n] \in Seq(S) /\ Filtered(segments, pid, n, g[n])
  BY <1>0, <1>9
<1> QED BY <1>5, <1>10

-----------------------------------------------------------------------------
(* Sums of lists that agree over a stretch.                                *)

\* m numbers of a from the j-th on are those of b from the k-th on.
Agree(a, j, b, k, m) == \A t \in 1 .. m : a[j + t] = b[k + t]

LEMMA SumStretch ==
  ASSUME NEW a \in Seq(Int), NEW b \in Seq(Int), NEW j \in Nat, NEW k \in Nat, NEW m \in Nat,
         j + m <= Len(a), k + m <= Len(b), Agree(a, j, b, k, m)
  PROVE  RunningSum(a)[j + m] - RunningSum(a)[j] = RunningSum(b)[k + m] - RunningSum(b)[k]
<1> DEFINE A == RunningSum(a)
           B == RunningSum(b)
           T == {n \in Nat : n <= m => A[j + n] - A[j] = B[k + n] - B[k]}
<1>1. /\ A \in [0 .. Len(a) -> Int] /\ \A i \in 1 .. Len(a) : A[i] = A[i - 1] + a[i]
      /\ B \in [0 .. Len(b) -> Int] /\ \A i \in 1 .. Len(b) : B[i] = B[i - 1] + b[i]
      /\ Len(a) \in Nat /\ Len(b) \in Nat
  BY SumType
<1> HIDE DEF A, B
<1>2. 0 \in T
  <2>0. j \in 0 .. Len(a) /\ k \in 0 .. Len(b)
    BY <1>1
  <2>1. A[j] \in Int /\ B[k] \in Int
    BY <1>1, <2>0
  <2>2. j + 0 = j /\ k + 0 = k
    OBVIOUS
  <2> QED BY <2>1, <2>2
<1>3. ASSUME NEW n \in T PROVE n + 1 \in T
  <2> SUFFICES ASSUME n + 1 <= m PROVE A[j + (n + 1)] - A[j] = B[k + (n + 1)] - B[k]
    OBVIOUS
  <2>1. n \in Nat /\ A[j + n] - A[j] = B[k + n] - B[k] /\ n + 1 \in 1 .. m
    BY <1>3
  <2>2. /\ j + (n + 1) \in 1 .. Len(a) /\ j + (n + 1) - 1 = j + n
        /\ k + (n + 1) \in 1 .. Len(b) /\ k + (n + 1) - 1 = k + n
        /\ j \in 0 .. Len(a) /\ k \in 0 .. Len(b) /\ j + n \in 0 .. Len(a)
        /\ k + n \in 0 .. Len(b)
    BY <1>1, <2>1
  <2>3. /\ A[j + (n + 1)] = A[j + n] + a[j + (n + 1)]
        /\ B[k + (n + 1)] = B[k + n] + b[k + (n + 1)]
    BY <1>1, <2>2
  <2>4. a[j + (n + 1)] = b[k + (n + 1)]
    BY <2>1 DEF Agree
  <2>5. A[j] \in Int /\ A[j + n] \in Int /\ B[k] \in Int /\ B[k + n] \in Int
    <3>1. (\A i \in 0 .. Len(a) : A[i] \in Int) /\ (\A i \in 0 .. Len(b) : B[i] \in Int)
      BY <1>1
    <3> QED BY <2>2, <3>1
  <2>6. a[j + (n + 1)] \in Int
    BY <2>2
  <2> DEFINE p == A[j + n]
             q == A[j]
             r == B[k + n]
             u == B[k]
             x == a[j + (n + 1)]
  <2>7. p \in Int /\ q \in Int /\ r \in Int /\ u \in Int /\ x \in Int /\ p - q = r - u
    BY <2>1, <2>5, <2>6
  <2>8. A[j + (n + 1)] = p + x /\ B[k + (n + 1)] = r + x
    BY <2>3, <2>4
  <2> HIDE DEF p, q, r, u, x
  <2>9. (p + x) - q = (r + x) - u
    BY <2>7
  <2> QED BY <2>8, <2>9, Zenon DEF q, u
<1>4. T = Nat
  <2>1. T \in SUBSET Nat
    OBVIOUS
  <2> HIDE DEF T
  <2> QED BY <1>2, <1>3, <2>1, Induction
<1>5. A[j + m] - A[j] = B[k + m] - B[k]
  <2>1. m \in T
    BY <1>4, Zenon
  <2> QED BY <2>1
<1> QED BY <1>5 DEF A, B

LEMMA SumTail ==
  ASSUME NEW a \in Seq(Int), NEW b \in Seq(Int), NEW j \in Nat, NEW k \in Nat, NEW m \in Nat,
         j + m = Len(a), k + m = Len(b), Agree(a, j, b, k, m)
  PROVE  RunningSum(a)[Len(a)] - RunningSum(a)[j] = RunningSum(b)[Len(b)] - RunningSum(b)[k]
<1>1. j + m <= Len(a) /\ k + m <= Len(b)
  OBVIOUS
<1>2. RunningSum(a)[j + m] - RunningSum(a)[j] = RunningSum(b)[k + m] - RunningSum(b)[k]
  BY <1>1, SumStretch
<1> QED BY <1>2

LEMMA SumPrefix ==
  ASSUME NEW a \in Seq(Int), NEW b \in Seq(Int), NEW m \in Nat, m <= Len(a), m <= Len(b),
         \A t \in 1 .. m : a[t] = b[t]
  PROVE  RunningSum(a)[m] = RunningSum(b)[m]
<1> DEFINE A == RunningSum(a)
           B == RunningSum(b)
<1>0. PICK z \in Nat : z = 0
  OBVIOUS
<1>1. z + m = m /\ Agree(a, z, b, z, m)
  BY <1>0 DEF Agree
<1>2. A[z + m] - A[z] = B[z + m] - B[z]
  <2>1. z + m <= Len(a) /\ z + m <= Len(b)
    BY <1>1
  <2> QED BY <1>1, <2>1, SumStretch
<1>3. /\ A \in [0 .. Len(a) -> Int] /\ A[0] = 0
      /\ B \in [0 .. Len(b) -> Int] /\ B[0] = 0
      /\ Len(a) \in Nat /\ Len(b) \in Nat
  BY SumType
<1> HIDE DEF A, B
<1>4. A[m] - 0 = B[m] - 0
  BY <1>0, <1>1, <1>2, <1>3
<1>5. m \in 0 .. Len(a) /\ m \in 0 .. Len(b)
  BY <1>3
<1>6. A[m] \in Int /\ B[m] \in Int
  BY <1>3, <1>5
<1>7. A[m] = B[m]
  BY <1>4, <1>6
<1> QED BY <1>7 DEF A, B

-----------------------------------------------------------------------------
(* Changes of a list: its elements, their sizes, their sum.                *)

LEMMA SizesFacts ==
  ASSUME NEW S, NEW s \in Seq(S), Sized(s)
  PROVE  /\ SizesOf(s) \in Seq(Int) /\ Len(SizesOf(s)) = Len(s) /\ Len(s) \in Nat
         /\ \A i \in 1 .. Len(s) : SizesOf(s)[i] = s[i].size /\ s[i].size \in Nat \ {0}
         /\ RunningSum(SizesOf(s)) \in [0 .. Len(s) -> Int]
         /\ RunningSum(SizesOf(s))[0] = 0
         /\ \A i \in 1 .. Len(s) :
              RunningSum(SizesOf(s))[i] = RunningSum(SizesOf(s))[i - 1] + s[i].size
         /\ TotalSize(s) \in Int
<1>1. Len(s) \in Nat /\ DOMAIN s = 1 .. Len(s)
  OBVIOUS
<1>2. SizesOf(s) = [i \in 1 .. Len(s) |-> s[i].size]
  BY <1>1 DEF SizesOf
<1>3. \A i \in 1 .. Len(s) : s[i].size \in Int /\ s[i].size \in Nat \ {0}
  BY <1>1 DEF Sized
<1>4. SizesOf(s) \in Seq(Int) /\ Len(SizesOf(s)) = Len(s)
  <2>1. SizesOf(s) \in [1 .. Len(s) -> Int]
    BY <1>2, <1>3
  <2> QED BY <1>1, <2>1
<1>5. \A i \in 1 .. Len(s) : SizesOf(s)[i] = s[i].size
  BY <1>2
<1> DEFINE f == RunningSum(SizesOf(s))
<1>6. /\ f \in [0 .. Len(s) -> Int] /\ f[0] = 0
      /\ \A i \in 1 .. Len(s) : f[i] = f[i - 1] + SizesOf(s)[i]
  BY <1>4, SumType
<1> HIDE DEF f
<1>7. Len(s) \in 0 .. Len(s)
  BY <1>1
<1>8. f[Len(s)] \in Int
  BY <1>6, <1>7
<1>9. TotalSize(s) = f[Len(s)]
  BY DEF TotalSize, f
<1> QED BY <1>1, <1>3, <1>4, <1>5, <1>6, <1>8, <1>9 DEF f

LEMMA Appended ==
  ASSUME NEW S, NEW s \in Seq(S), Sized(s), NEW x \in S, x.size \in Nat \ {0}
  PROVE  /\ Append(s, x) \in Seq(S) /\ Sized(Append(s, x))
         /\ ToSet(Append(s, x)) = ToSet(s) \cup {x}
         /\ IsInjective(s) /\ x \notin ToSet(s) => IsInjective(Append(s, x))
         /\ TotalSize(Append(s, x)) = TotalSize(s) + x.size
<1> DEFINE t == Append(s, x)
           n == Len(s)
<1>1. /\ n \in Nat /\ t \in Seq(S) /\ Len(t) = n + 1 /\ DOMAIN t = 1 .. n + 1
      /\ DOMAIN s = 1 .. n /\ (\A i \in 1 .. n : t[i] = s[i]) /\ t[n + 1] = x
      /\ n + 1 \in 1 .. n + 1
  OBVIOUS
<1> HIDE DEF t, n
<1>2. \A i \in 1 .. n + 1 : i \in 1 .. n \/ i = n + 1
  BY <1>1
<1>3. Sized(t)
  BY <1>1, <1>2 DEF Sized
<1>4. ToSet(t) = ToSet(s) \cup {x}
  <2>1. \A i \in 1 .. n : i \in 1 .. n + 1
    BY <1>1
  <2> QED BY <1>1, <1>2, <2>1 DEF ToSet
<1>5. ASSUME IsInjective(s), x \notin ToSet(s) PROVE IsInjective(t)
  <2>1. \A i \in 1 .. n : s[i] # x
    BY <1>1, <1>5 DEF ToSet
  <2>2. \A i, j \in 1 .. n : s[i] = s[j] => i = j
    BY <1>1, <1>5 DEF IsInjective
  <2>3. \A i, j \in 1 .. n + 1 : t[i] = t[j] => i = j
    BY <1>1, <1>2, <2>1, <2>2
  <2> QED BY <1>1, <2>3 DEF IsInjective
<1>6. TotalSize(t) = TotalSize(s) + x.size
  <2> DEFINE A == RunningSum(SizesOf(s))
             B == RunningSum(SizesOf(t))
  <2>1. /\ SizesOf(s) \in Seq(Int) /\ Len(SizesOf(s)) = n
        /\ \A i \in 1 .. n : SizesOf(s)[i] = s[i].size
        /\ A \in [0 .. n -> Int] /\ A[0] = 0
    BY SizesFacts DEF n
  <2>2. /\ SizesOf(t) \in Seq(Int) /\ Len(SizesOf(t)) = n + 1
        /\ \A i \in 1 .. n + 1 : SizesOf(t)[i] = t[i].size
        /\ B \in [0 .. n + 1 -> Int] /\ B[0] = 0
        /\ \A i \in 1 .. n + 1 : B[i] = B[i - 1] + t[i].size
    BY <1>1, <1>3, SizesFacts
  <2>3. \A i \in 1 .. n : SizesOf(s)[i] = SizesOf(t)[i]
    <3> TAKE i \in 1 .. n
    <3>1. i \in 1 .. n + 1 /\ t[i] = s[i]
      BY <1>1
    <3> QED BY <2>1, <2>2, <3>1
  <2>4. n <= Len(SizesOf(s)) /\ n <= Len(SizesOf(t))
    BY <1>1, <2>1, <2>2
  <2>5. n + 1 - 1 = n
    BY <1>1
  <2>7. A[n] = B[n]
    BY <1>1, <2>1, <2>2, <2>3, <2>4, SumPrefix
  <2> HIDE DEF A, B
  <2>8. B[n + 1] = B[n] + x.size
    BY <1>1, <2>2, <2>5
  <2> QED BY <1>1, <2>7, <2>8 DEF TotalSize, A, B, n
<1> QED BY <1>1, <1>3, <1>4, <1>5, <1>6 DEF t

LEMMA RemoveAtFacts ==
  ASSUME NEW S, NEW s \in Seq(S), NEW i \in 1 .. Len(s)
  PROVE  /\ RemoveAt(s, i) \in Seq(S) /\ Len(RemoveAt(s, i)) = Len(s) - 1
         /\ \A k \in 1 .. Len(s) - 1 :
              RemoveAt(s, i)[k] = IF k < i THEN s[k] ELSE s[k + 1]
<1> DEFINE u == SubSeq(s, 1, i - 1)
           v == SubSeq(s, i + 1, Len(s))
<1>1. /\ u \in Seq(S) /\ Len(u) = i - 1 /\ \A k \in 1 .. i - 1 : u[k] = s[k]
  OBVIOUS
<1>2. /\ v \in Seq(S) /\ Len(v) = Len(s) - i /\ \A k \in 1 .. Len(s) - i : v[k] = s[i + k]
  OBVIOUS
<1> HIDE DEF u, v
<1>3. /\ u \o v \in Seq(S) /\ Len(u \o v) = Len(u) + Len(v)
      /\ \A k \in 1 .. Len(u) + Len(v) : (u \o v)[k] = IF k <= Len(u) THEN u[k] ELSE v[k - Len(u)]
  BY <1>1, <1>2, ConcatProperties
<1>4. Len(u) + Len(v) = Len(s) - 1
  BY <1>1, <1>2
<1>5. ASSUME NEW k \in 1 .. Len(s) - 1
      PROVE  (u \o v)[k] = IF k < i THEN s[k] ELSE s[k + 1]
  <2>1. CASE k < i
    BY <1>1, <1>3, <1>4, <2>1
  <2>2. CASE ~(k < i)
    <3>1. k - Len(u) \in 1 .. Len(s) - i /\ i + (k - Len(u)) = k + 1 /\ ~(k <= Len(u))
      BY <1>1, <2>2
    <3> QED BY <1>2, <1>3, <1>4, <2>2, <3>1
  <2> QED BY <2>1, <2>2
<1> QED BY <1>3, <1>4, <1>5 DEF RemoveAt, u, v
LEMMA Removed ==
  ASSUME NEW S, NEW s \in Seq(S), Sized(s), IsInjective(s), NEW i \in 1 .. Len(s)
  PROVE  /\ RemoveAt(s, i) \in Seq(S) /\ Sized(RemoveAt(s, i))
         /\ ToSet(RemoveAt(s, i)) = ToSet(s) \ {s[i]}
         /\ IsInjective(RemoveAt(s, i))
         /\ TotalSize(RemoveAt(s, i)) = TotalSize(s) - s[i].size
<1> DEFINE t == RemoveAt(s, i)
           n == Len(s)
<1>1. /\ n \in Nat /\ i \in 1 .. n /\ DOMAIN s = 1 .. n /\ n - 1 \in Nat
  OBVIOUS
<1>2. /\ t \in Seq(S) /\ Len(t) = n - 1
      /\ \A k \in 1 .. n - 1 : t[k] = IF k < i THEN s[k] ELSE s[k + 1]
  BY RemoveAtFacts
<1>3. DOMAIN t = 1 .. n - 1
  BY <1>2
<1> HIDE DEF t, n
<1>4. \A j, k \in 1 .. n : s[j] = s[k] => j = k
  BY <1>1 DEF IsInjective
<1>5. Sized(t)
  BY <1>1, <1>2, <1>3 DEF Sized
<1>6. ToSet(t) = ToSet(s) \ {s[i]}
  <2>1. ASSUME NEW k \in 1 .. n - 1 PROVE t[k] \in ToSet(s) \ {s[i]}
    <3>1. PICK m \in 1 .. n : m # i /\ t[k] = s[m]
      BY <1>1, <1>2
    <3> QED BY <1>1, <1>4, <3>1 DEF ToSet
  <2>2. ASSUME NEW m \in 1 .. n, s[m] # s[i] PROVE s[m] \in ToSet(t)
    <3>1. m # i
      BY <2>2
    <3>2. PICK k \in 1 .. n - 1 : k = IF m < i THEN m ELSE m - 1
      BY <1>1, <3>1
    <3>3. t[k] = s[m]
      BY <1>1, <1>2, <3>1, <3>2
    <3> QED BY <1>3, <3>3 DEF ToSet
  <2> QED BY <1>1, <1>3, <2>1, <2>2 DEF ToSet
<1>7. IsInjective(t)
  <2>1. ASSUME NEW j \in 1 .. n - 1, NEW k \in 1 .. n - 1, t[j] = t[k] PROVE j = k
    <3>1. /\ t[j] = s[IF j < i THEN j ELSE j + 1] /\ (IF j < i THEN j ELSE j + 1) \in 1 .. n
          /\ t[k] = s[IF k < i THEN k ELSE k + 1] /\ (IF k < i THEN k ELSE k + 1) \in 1 .. n
      BY <1>1, <1>2
    <3>2. (IF j < i THEN j ELSE j + 1) = (IF k < i THEN k ELSE k + 1)
      BY <1>4, <2>1, <3>1
    <3> QED BY <1>1, <3>2
  <2> QED BY <1>3, <2>1 DEF IsInjective
<1>8. TotalSize(t) = TotalSize(s) - s[i].size
  <2> DEFINE A == RunningSum(SizesOf(s))
             B == RunningSum(SizesOf(t))
             a == SizesOf(s)
             b == SizesOf(t)
  <2>1. /\ a \in Seq(Int) /\ Len(a) = n
        /\ \A k \in 1 .. n : a[k] = s[k].size
        /\ A \in [0 .. n -> Int]
        /\ \A k \in 1 .. n : A[k] = A[k - 1] + s[k].size
    BY SizesFacts DEF n
  <2>2. /\ b \in Seq(Int) /\ Len(b) = n - 1
        /\ \A k \in 1 .. n - 1 : b[k] = t[k].size
        /\ B \in [0 .. n - 1 -> Int]
    BY <1>2, <1>5, SizesFacts
  <2> HIDE DEF a, b
  <2>3. A[i - 1] = B[i - 1]
    <3>1. ASSUME NEW k \in 1 .. i - 1 PROVE a[k] = b[k]
      <4>1. k \in 1 .. n /\ k \in 1 .. n - 1 /\ k < i
        BY <1>1
      <4> QED BY <1>2, <2>1, <2>2, <4>1
    <3>2. i - 1 \in Nat /\ i - 1 <= Len(a) /\ i - 1 <= Len(b)
      BY <1>1, <2>1, <2>2
    <3> QED BY <2>1, <2>2, <3>1, <3>2, SumPrefix DEF a, b
  <2>4. PICK j \in Nat, m \in Nat : j = i - 1 /\ m = n - i
    BY <1>1
  <2>5. A[n] - A[i] = B[n - 1] - B[i - 1]
    <3>1. i \in Nat /\ i + m = n /\ j + m = n - 1
      BY <1>1, <2>4
    <3>0. i + m = Len(a) /\ j + m = Len(b)
      BY <2>1, <2>2, <3>1
    <3>2. ASSUME NEW k \in 1 .. m PROVE a[i + k] = b[j + k]
      <4>1. /\ i + k \in 1 .. n /\ j + k \in 1 .. n - 1 /\ ~(j + k < i)
            /\ j + k + 1 = i + k
        BY <1>1, <2>4
      <4>2. t[j + k] = s[i + k]
        BY <1>2, <4>1
      <4> QED BY <2>1, <2>2, <4>1, <4>2
    <3>3. Agree(a, i, b, j, m)
      BY <3>2 DEF Agree
    <3>4. A[Len(a)] - A[i] = B[Len(b)] - B[j]
      <4>1. a \in Seq(Int) /\ b \in Seq(Int)
        BY <2>1, <2>2
      <4>2. RunningSum(a)[Len(a)] - RunningSum(a)[i] = RunningSum(b)[Len(b)] - RunningSum(b)[j]
        BY <2>4, <3>0, <3>1, <3>3, <4>1, SumTail
      <4> QED BY <4>2 DEF a, b
    <3> QED BY <2>1, <2>2, <2>4, <3>4
  <2>6. /\ i \in 0 .. n /\ n \in 0 .. n
        /\ i - 1 \in 0 .. n /\ i - 1 \in 0 .. n - 1 /\ n - 1 \in 0 .. n - 1
    BY <1>1
  <2> HIDE DEF A, B
  <2>7. /\ A[n] \in Int /\ A[i] \in Int /\ A[i - 1] \in Int
        /\ B[i - 1] \in Int /\ B[n - 1] \in Int
    <3>1. (\A k \in 0 .. n : A[k] \in Int) /\ (\A k \in 0 .. n - 1 : B[k] \in Int)
      BY <2>1, <2>2
    <3> QED BY <2>6, <3>1
  <2>8. A[i] = A[i - 1] + s[i].size /\ s[i].size \in Int
    <3>1. s[i].size \in Int
      BY <1>1 DEF Sized
    <3> QED BY <1>1, <2>1, <3>1, Zenon
  <2> DEFINE p == A[n]
             q == A[i]
             r == A[i - 1]
             u == B[n - 1]
             y == s[i].size
  <2>9. /\ p \in Int /\ q \in Int /\ r \in Int /\ u \in Int /\ y \in Int
        /\ q = r + y /\ p - q = u - r
    BY <2>3, <2>5, <2>7, <2>8
  <2> HIDE DEF p, q, r, u, y
  <2>10. u = p - y
    BY <2>9
  <2> QED BY <1>2, <2>10 DEF TotalSize, A, B, n, p, u, y
<1> QED BY <1>2, <1>5, <1>6, <1>7, <1>8 DEF t

LEMMA Replaced ==
  ASSUME NEW S, NEW s \in Seq(S), Sized(s), IsInjective(s), NEW i \in 1 .. Len(s),
         NEW x \in S, x.size \in Nat \ {0}, x \notin ToSet(s) \ {s[i]}
  PROVE  /\ ReplaceAt(s, i, x) \in Seq(S) /\ Sized(ReplaceAt(s, i, x))
         /\ ToSet(ReplaceAt(s, i, x)) = (ToSet(s) \ {s[i]}) \cup {x}
         /\ IsInjective(ReplaceAt(s, i, x))
         /\ TotalSize(ReplaceAt(s, i, x)) = TotalSize(s) - s[i].size + x.size
<1> DEFINE t == ReplaceAt(s, i, x)
           n == Len(s)
<1>1. /\ n \in Nat /\ i \in 1 .. n /\ DOMAIN s = 1 .. n
  OBVIOUS
<1>2. /\ t \in Seq(S) /\ Len(t) = n /\ t[i] = x
      /\ \A k \in 1 .. n : k # i => t[k] = s[k]
  BY ExceptSeq DEF ReplaceAt
<1>3. DOMAIN t = 1 .. n
  BY <1>2
<1> HIDE DEF t, n
<1>4. \A j, k \in 1 .. n : s[j] = s[k] => j = k
  BY <1>1 DEF IsInjective
<1>5. Sized(t)
  BY <1>1, <1>2, <1>3 DEF Sized
<1>6. \A k \in 1 .. n : k # i => s[k] # x /\ s[k] # s[i]
  BY <1>1, <1>4 DEF ToSet
<1>7. ToSet(t) = (ToSet(s) \ {s[i]}) \cup {x}
  BY <1>1, <1>2, <1>3, <1>6 DEF ToSet
<1>8. IsInjective(t)
  BY <1>1, <1>2, <1>3, <1>4, <1>6 DEF IsInjective
<1>9. TotalSize(t) = TotalSize(s) - s[i].size + x.size
  <2> DEFINE A == RunningSum(SizesOf(s))
             B == RunningSum(SizesOf(t))
             a == SizesOf(s)
             b == SizesOf(t)
  <2>1. /\ a \in Seq(Int) /\ Len(a) = n
        /\ \A k \in 1 .. n : a[k] = s[k].size
        /\ A \in [0 .. n -> Int]
        /\ \A k \in 1 .. n : A[k] = A[k - 1] + s[k].size
    BY SizesFacts DEF n
  <2>2. /\ b \in Seq(Int) /\ Len(b) = n
        /\ \A k \in 1 .. n : b[k] = t[k].size
        /\ B \in [0 .. n -> Int]
        /\ \A k \in 1 .. n : B[k] = B[k - 1] + t[k].size
    BY <1>2, <1>5, SizesFacts
  <2> HIDE DEF a, b
  <2>3. A[i - 1] = B[i - 1]
    <3>1. ASSUME NEW k \in 1 .. i - 1 PROVE a[k] = b[k]
      <4>1. k \in 1 .. n /\ k # i
        BY <1>1
      <4> QED BY <1>2, <2>1, <2>2, <4>1
    <3>2. i - 1 \in Nat /\ i - 1 <= Len(a) /\ i - 1 <= Len(b)
      BY <1>1, <2>1, <2>2
    <3> QED BY <2>1, <2>2, <3>1, <3>2, SumPrefix DEF a, b
  <2>4. PICK m \in Nat : m = n - i
    BY <1>1
  <2>5. A[n] - A[i] = B[n] - B[i]
    <3>1. i \in Nat /\ m \in Nat /\ i + m = n
      BY <1>1, <2>4
    <3>0. i + m = Len(a) /\ i + m = Len(b)
      BY <2>1, <2>2, <3>1
    <3>2. ASSUME NEW k \in 1 .. m PROVE a[i + k] = b[i + k]
      <4>1. i + k \in 1 .. n /\ i + k # i
        BY <1>1, <2>4
      <4>2. t[i + k] = s[i + k]
        BY <1>2, <4>1
      <4> QED BY <2>1, <2>2, <4>1, <4>2
    <3>3. Agree(a, i, b, i, m)
      BY <3>2 DEF Agree
    <3>4. A[Len(a)] - A[i] = B[Len(b)] - B[i]
      <4>1. a \in Seq(Int) /\ b \in Seq(Int)
        BY <2>1, <2>2
      <4>2. RunningSum(a)[Len(a)] - RunningSum(a)[i] = RunningSum(b)[Len(b)] - RunningSum(b)[i]
        BY <3>0, <3>1, <3>3, <4>1, SumTail
      <4> QED BY <4>2 DEF a, b
    <3> QED BY <2>1, <2>2, <3>4
  <2>6. /\ i \in 0 .. n /\ n \in 0 .. n /\ i - 1 \in 0 .. n
    BY <1>1
  <2> HIDE DEF A, B
  <2>7. /\ A[n] \in Int /\ A[i] \in Int /\ A[i - 1] \in Int
        /\ B[n] \in Int /\ B[i] \in Int /\ B[i - 1] \in Int
    <3>1. \A k \in 0 .. n : A[k] \in Int /\ B[k] \in Int
      BY <2>1, <2>2
    <3> QED BY <2>6, <3>1
  <2>8. /\ A[i] = A[i - 1] + s[i].size /\ s[i].size \in Int
    BY <1>1, <2>1 DEF Sized
  <2>9. B[i] = B[i - 1] + x.size /\ x.size \in Int
    <3>1. B[i] = B[i - 1] + t[i].size
      BY <1>1, <2>2
    <3> QED BY <1>2, <3>1
  <2> DEFINE p == A[n]
             q == A[i]
             r == A[i - 1]
             u == B[n]
             v == B[i]
             y == s[i].size
             z == x.size
  <2>10. /\ p \in Int /\ q \in Int /\ r \in Int /\ u \in Int /\ v \in Int
         /\ y \in Int /\ z \in Int
         /\ q = r + y /\ v = r + z /\ p - q = u - v
    BY <2>3, <2>5, <2>7, <2>8, <2>9
  <2> HIDE DEF p, q, r, u, v, y, z
  <2>11. u = p - y + z
    BY <2>10
  <2> QED BY <1>2, <2>11 DEF TotalSize, A, B, n, p, u, y, z
<1> QED BY <1>2, <1>5, <1>7, <1>8, <1>9 DEF t

-----------------------------------------------------------------------------
(* The first and the last index that passes a test.                        *)

LEMMA MinFacts ==
  ASSUME NEW T \in SUBSET Nat, T # {}
  PROVE  Min(T) \in T /\ \A y \in T : Min(T) <= y
<1>1. \E x \in T : \A y \in T : x <= y
  BY Least
<1> QED BY <1>1, Zenon DEF Min

LEMMA MaxFacts ==
  ASSUME NEW n \in Nat, NEW T \in SUBSET (0 .. n), T # {}
  PROVE  Max(T) \in T /\ \A y \in T : Max(T) >= y
<1> DEFINE R == {n - x : x \in T}
<1>1. R \in SUBSET Nat /\ R # {}
  <2>1. \A x \in T : n - x \in Nat
    OBVIOUS
  <2>2. PICK x \in T : TRUE
    OBVIOUS
  <2> QED BY <2>1, <2>2
<1>2. PICK r \in R : \A y \in R : r <= y
  BY <1>1, Least
<1>3. PICK x \in T : r = n - x
  BY <1>2
<1>4. \A y \in T : n - x <= n - y
  BY <1>2, <1>3
<1>5. \A y \in T : x >= y
  BY <1>4
<1> QED BY <1>5, Zenon DEF Max

-----------------------------------------------------------------------------
(* Areas that tile the memory.                                             *)

Area(x, total) == x.base \in Nat /\ x.size \in Nat \ {0} /\ x.base + x.size <= total

Apart(x, y) == x.base + x.size <= y.base \/ y.base + y.size <= x.base

Spans(x, a) == x.base <= a /\ a < x.base + x.size

SomeSpans(X, a) == \E x \in X : Spans(x, a)

Separate(X) == \A x, y \in X : x = y \/ Apart(x, y)

\* The areas of X stay inside the memory, are disjoint and leave no byte out.
Tiles(X, total) ==
  /\ \A x \in X : Area(x, total)
  /\ Separate(X)
  /\ \A a \in 0 .. total - 1 : SomeSpans(X, a)

\* Areas that are apart share no byte, and areas that are not share one.
LEMMA Overlap ==
  ASSUME NEW total \in Nat, NEW x, NEW y, Area(x, total), Area(y, total)
  PROVE  /\ Apart(x, y) => \A a \in 0 .. total - 1 : ~(Spans(x, a) /\ Spans(y, a))
         /\ ~Apart(x, y) => \E a \in 0 .. total - 1 : Spans(x, a) /\ Spans(y, a)
<1>0. /\ x.base \in Nat /\ x.size \in Nat \ {0} /\ x.base + x.size <= total
      /\ y.base \in Nat /\ y.size \in Nat \ {0} /\ y.base + y.size <= total
  BY DEF Area
<1>1. ASSUME Apart(x, y), NEW a \in 0 .. total - 1, Spans(x, a), Spans(y, a)
      PROVE  FALSE
  BY <1>0, <1>1 DEF Apart, Spans
<1>2. ASSUME ~Apart(x, y)
      PROVE  \E a \in 0 .. total - 1 : Spans(x, a) /\ Spans(y, a)
  <2>1. CASE x.base <= y.base
    <3>1. y.base \in 0 .. total - 1 /\ Spans(x, y.base) /\ Spans(y, y.base)
      BY <1>0, <1>2, <2>1 DEF Apart, Spans
    <3> QED BY <3>1
  <2>2. CASE ~(x.base <= y.base)
    <3>1. x.base \in 0 .. total - 1 /\ Spans(x, x.base) /\ Spans(y, x.base)
      BY <1>0, <1>2, <2>2 DEF Apart, Spans
    <3> QED BY <3>1
  <2> QED BY <2>1, <2>2
<1> QED BY <1>1, <1>2

\* Both sets of areas cover the same bytes.
SameBytes(A, B, total) ==
  \A a \in 0 .. total - 1 : SomeSpans(A, a) <=> SomeSpans(B, a)

\* Areas may be cut anew: those of A replaced by those of B, over the same bytes.
LEMMA Recut ==
  ASSUME NEW X, NEW total \in Nat, Tiles(X, total), NEW A \in SUBSET X, NEW B,
         \A x \in B : Area(x, total), Separate(B), SameBytes(A, B, total)
  PROVE  Tiles((X \ A) \cup B, total)
<1> DEFINE Y == (X \ A) \cup B
<1>1. \A x \in Y : Area(x, total)
  BY DEF Tiles
<1>2. ASSUME NEW x \in X \ A, NEW y \in B PROVE Apart(x, y)
  <2> SUFFICES ASSUME ~Apart(x, y) PROVE FALSE
    OBVIOUS
  <2>1. Area(x, total) /\ Area(y, total)
    BY DEF Tiles
  <2>2. PICK a \in 0 .. total - 1 : Spans(x, a) /\ Spans(y, a)
    BY <2>1, Overlap
  <2>3. PICK z \in A : Spans(z, a)
    BY <2>2 DEF SameBytes, SomeSpans
  <2>4. Area(z, total) /\ Apart(x, z)
    BY DEF Tiles, Separate
  <2> QED BY <2>1, <2>2, <2>3, <2>4, Overlap
<1>3. \A x, y : Apart(x, y) <=> Apart(y, x)
  BY DEF Apart
<1>4. Separate(Y)
  BY <1>2, <1>3 DEF Separate, Tiles
<1>5. ASSUME NEW a \in 0 .. total - 1 PROVE SomeSpans(Y, a)
  <2>1. PICK x \in X : Spans(x, a)
    BY DEF Tiles, SomeSpans
  <2>2. CASE x \in A
    BY <2>1, <2>2 DEF SameBytes, SomeSpans
  <2>3. CASE x \notin A
    BY <2>1, <2>3 DEF SomeSpans
  <2> QED BY <2>2, <2>3
<1> QED BY <1>1, <1>4, <1>5 DEF Tiles

-----------------------------------------------------------------------------
(* What the operations do to the list of holes.                            *)

\* The bytes of a hole from its size-th on, if there are any.
Rest(h, size) ==
  IF h.size = size THEN {} ELSE {[base |-> h.base + size, size |-> h.size - size]}

LEMMA HolesSized ==
  ASSUME NEW holes \in Seq(Hole)
  PROVE  /\ Sized(holes) /\ Len(holes) \in Nat /\ DOMAIN holes = 1 .. Len(holes)
         /\ \A i \in 1 .. Len(holes) : /\ holes[i] \in Hole
                                       /\ holes[i].base \in Nat /\ holes[i].size \in Nat \ {0}
<1>1. Len(holes) \in Nat /\ DOMAIN holes = 1 .. Len(holes)
  OBVIOUS
<1>2. \A i \in 1 .. Len(holes) : holes[i] \in Hole
  OBVIOUS
<1>3. \A h \in Hole : h.base \in Nat /\ h.size \in Nat \ {0}
  BY DEF Hole
<1> QED BY <1>1, <1>2, <1>3 DEF Sized

LEMMA Taken ==
  ASSUME NEW holes \in Seq(Hole), IsInjective(holes), Separate(ToSet(holes)),
         NEW i \in 1 .. Len(holes), NEW size \in Nat \ {0}, size <= holes[i].size
  PROVE  LET r == update_hole_table(holes, holes[i], size)
         IN  /\ r \in Seq(Hole) /\ IsInjective(r)
             /\ ToSet(r) = (ToSet(holes) \ {holes[i]}) \cup Rest(holes[i], size)
             /\ TotalSize(r) = TotalSize(holes) - size
<1> DEFINE r == update_hole_table(holes, holes[i], size)
           n == Len(holes)
           I == {j \in 1 .. Len(holes) : holes[j].base = holes[i].base}
           x == [base |-> holes[i].base + size, size |-> holes[i].size - size]
<1>1. /\ n \in Nat /\ DOMAIN holes = 1 .. n /\ Sized(holes)
      /\ \A j \in 1 .. n : /\ holes[j] \in Hole /\ holes[j] \in ToSet(holes)
                           /\ holes[j].base \in Nat /\ holes[j].size \in Nat \ {0}
  BY HolesSized DEF ToSet
<1>2. ASSUME NEW j \in 1 .. n, j # i
      PROVE  Apart(holes[j], holes[i])
  <2>1. holes[j] # holes[i]
    BY <1>1, <1>2 DEF IsInjective
  <2> QED BY <1>1, <2>1 DEF Separate
<1>3. I = {i}
  <2>1. ASSUME NEW j \in 1 .. n, j # i PROVE holes[j].base # holes[i].base
    BY <1>1, <1>2, <2>1 DEF Apart
  <2> QED BY <2>1
<1>4. SelectInSeq(holes, LAMBDA h : h.base = holes[i].base) = i
  <2>1. SelectInSeq(holes, LAMBDA h : h.base = holes[i].base) = IF I # {} THEN Min(I) ELSE 0
    BY DEF SelectInSeq
  <2>2. Min({i}) = i
    <3>1. {i} \in SUBSET Nat /\ {i} # {}
      BY <1>1
    <3> QED BY <3>1, MinFacts
  <2> HIDE DEF I
  <2> QED BY <1>3, <2>1, <2>2
<1>5. r = IF holes[i].size = size THEN RemoveAt(holes, i)
          ELSE [holes EXCEPT ![i] = x]
  <2>1. i # 0
    OBVIOUS
  <2> QED BY <1>4, <2>1 DEF update_hole_table
<1> HIDE DEF r
<1>6. CASE holes[i].size = size
  <2>1. r = RemoveAt(holes, i)
    BY <1>5, <1>6
  <2>2. /\ r \in Seq(Hole) /\ IsInjective(r) /\ ToSet(r) = ToSet(holes) \ {holes[i]}
        /\ TotalSize(r) = TotalSize(holes) - holes[i].size
    BY <1>1, <2>1, Removed
  <2> QED BY <1>6, <2>2 DEF Rest, r
<1>7. CASE holes[i].size # size
  <2>1. r = ReplaceAt(holes, i, x)
    BY <1>5, <1>7 DEF ReplaceAt
  <2>2. x \in Hole /\ x.size \in Nat \ {0} /\ x.base = holes[i].base + size
        /\ x.size = holes[i].size - size
    BY <1>1, <1>7 DEF Hole
  <2>3. x \notin ToSet(holes) \ {holes[i]}
    <3>1. ASSUME NEW j \in 1 .. n, holes[j] = x, j # i PROVE FALSE
      <4>1. Apart(x, holes[i])
        BY <1>2, <3>1
      <4>2. /\ x.base = holes[i].base + size /\ x.size \in Nat \ {0}
            /\ x.size = holes[i].size - size
        BY <2>2
      <4>3. holes[i].base \in Nat /\ holes[i].size \in Nat
        BY <1>1
      <4> HIDE DEF x
      <4> DEFINE hb == holes[i].base
                 hs == holes[i].size
      <4>4. /\ (hb + size) + (hs - size) <= hb \/ hb + hs <= hb + size
            /\ hb \in Nat /\ hs \in Nat /\ hs - size \in Nat \ {0}
        BY <4>1, <4>2, <4>3, Zenon DEF Apart
      <4> HIDE DEF hb, hs
      <4> QED BY <4>4
    <3> QED BY <1>1, <3>1 DEF ToSet
  <2> HIDE DEF x
  <2>4. /\ r \in Seq(Hole) /\ IsInjective(r)
        /\ ToSet(r) = (ToSet(holes) \ {holes[i]}) \cup {x}
        /\ TotalSize(r) = TotalSize(holes) - holes[i].size + x.size
    BY <1>1, <2>1, <2>2, <2>3, Replaced
  <2>5. TotalSize(r) = TotalSize(holes) - size
    <3>1. TotalSize(holes) \in Int
      BY <1>1, SizesFacts
    <3> QED BY <1>1, <2>2, <2>4, <3>1
  <2> QED BY <1>7, <2>4, <2>5 DEF Rest, r, x
<1> QED BY <1>6, <1>7 DEF r

\* A new stick: its bytes are a hole of their own, or the end of the last one.
LEMMA Grown ==
  ASSUME NEW holes \in Seq(Hole), IsInjective(holes), Separate(ToSet(holes)),
         NEW total \in Nat, \A h \in ToSet(holes) : Area(h, total), NEW size \in Nat \ {0}
  PROVE  LET r == grow_holes(holes, total, size)
             new == [base |-> total, size |-> size]
         IN  /\ r \in Seq(Hole) /\ IsInjective(r)
             /\ TotalSize(r) = TotalSize(holes) + size
             /\ \/ /\ ToSet(r) = ToSet(holes) \cup {new}
                   /\ \A h \in ToSet(holes) : h.base + h.size # total
                \/ \E h \in ToSet(holes) :
                     /\ h.base + h.size = total
                     /\ ToSet(r) = (ToSet(holes) \ {h})
                                   \cup {[base |-> h.base, size |-> h.size + size]}
<1> DEFINE r == grow_holes(holes, total, size)
           new == [base |-> total, size |-> size]
           n == Len(holes)
           I == {j \in 1 .. Len(holes) : holes[j].base + holes[j].size = total}
           i == SelectInSeq(holes, LAMBDA h : h.base + h.size = total)
<1>1. /\ n \in Nat /\ DOMAIN holes = 1 .. n /\ Sized(holes)
      /\ \A j \in 1 .. n : /\ holes[j] \in Hole /\ holes[j] \in ToSet(holes)
                           /\ holes[j].base \in Nat /\ holes[j].size \in Nat \ {0}
                           /\ holes[j].base + holes[j].size <= total
  BY HolesSized DEF ToSet, Area
<1>2. i = IF I # {} THEN Min(I) ELSE 0
  BY DEF SelectInSeq
<1>3. r = IF i = 0 THEN Append(holes, new) ELSE [holes EXCEPT ![i].size = @ + size]
  BY DEF grow_holes
<1>4. TotalSize(holes) \in Int
  BY <1>1, SizesFacts
<1> HIDE DEF r, i
<1>5. CASE I = {}
  <2>1. r = Append(holes, new)
    BY <1>2, <1>3, <1>5
  <2>2. new \in Hole /\ new.size \in Nat \ {0} /\ new.size = size
    BY DEF Hole
  <2>3. new \notin ToSet(holes)
    BY <1>1 DEF ToSet
  <2>4. \A h \in ToSet(holes) : h.base + h.size # total
    BY <1>1, <1>5 DEF ToSet
  <2> HIDE DEF new
  <2>5. /\ r \in Seq(Hole) /\ IsInjective(r) /\ ToSet(r) = ToSet(holes) \cup {new}
        /\ TotalSize(r) = TotalSize(holes) + new.size
    BY <1>1, <2>1, <2>2, <2>3, Appended
  <2> QED BY <2>2, <2>4, <2>5 DEF r, new
<1>6. CASE I # {}
  <2>1. i \in 1 .. n /\ holes[i].base + holes[i].size = total
    <3>1. I \in SUBSET Nat
      BY <1>1
    <3>2. Min(I) \in I
      BY <1>6, <3>1, MinFacts
    <3> QED BY <1>2, <1>6, <3>2
  <2> DEFINE x == [base |-> holes[i].base, size |-> holes[i].size + size]
  <2>2. r = ReplaceAt(holes, i, x)
    <3>1. i # 0
      BY <1>1, <2>1
    <3>2. x = [holes[i] EXCEPT !.size = @ + size]
      BY <1>1, <2>1 DEF Hole
    <3> QED BY <1>1, <1>3, <2>1, <3>1, <3>2 DEF ReplaceAt
  <2>3. x \in Hole /\ x.size \in Nat \ {0} /\ x.base = holes[i].base
        /\ x.size = holes[i].size + size
    BY <1>1, <2>1 DEF Hole
  <2>4. x \notin ToSet(holes) \ {holes[i]}
    <3>1. ASSUME NEW j \in 1 .. n, holes[j] = x PROVE FALSE
      BY <1>1, <2>1, <2>3, <3>1
    <3> QED BY <1>1, <3>1 DEF ToSet
  <2> HIDE DEF x
  <2>5. /\ r \in Seq(Hole) /\ IsInjective(r)
        /\ ToSet(r) = (ToSet(holes) \ {holes[i]}) \cup {x}
        /\ TotalSize(r) = TotalSize(holes) - holes[i].size + x.size
    BY <1>1, <2>1, <2>2, <2>3, <2>4, Replaced
  <2>6. TotalSize(r) = TotalSize(holes) + size
    BY <1>1, <1>4, <2>1, <2>3, <2>5
  <2>7. holes[i] \in ToSet(holes)
    BY <1>1, <2>1
  <2> QED BY <2>1, <2>5, <2>6, <2>7 DEF r, x
<1> QED BY <1>5, <1>6 DEF r

\* What removing index i of a list takes away: nothing for index 0.
ElementAt(s, i) == IF i = 0 THEN {} ELSE {s[i]}
SizeAt(s, i) == IF i = 0 THEN 0 ELSE s[i].size

LEMMA ListRemoved ==
  ASSUME NEW S, NEW s \in Seq(S), Sized(s), IsInjective(s), NEW i \in 0 .. Len(s)
  PROVE  /\ ListRemove(s, i) \in Seq(S) /\ Sized(ListRemove(s, i))
         /\ ToSet(ListRemove(s, i)) = ToSet(s) \ ElementAt(s, i)
         /\ IsInjective(ListRemove(s, i))
         /\ TotalSize(ListRemove(s, i)) = TotalSize(s) - SizeAt(s, i)
<1>1. Len(s) \in Nat /\ DOMAIN s = 1 .. Len(s) /\ TotalSize(s) \in Int
  BY SizesFacts
<1>2. CASE i = 0
  <2>1. ListRemove(s, i) = s
    BY <1>1, <1>2 DEF ListRemove
  <2>2. TotalSize(s) = TotalSize(s) - SizeAt(s, i)
    BY <1>1, <1>2 DEF SizeAt
  <2> QED BY <1>2, <2>1, <2>2 DEF ElementAt
<1>3. CASE i # 0
  <2>1. i \in 1 .. Len(s)
    BY <1>1, <1>3
  <2>2. ListRemove(s, i) = RemoveAt(s, i)
    BY <1>1, <2>1 DEF ListRemove
  <2> QED BY <1>3, <2>1, <2>2, Removed DEF ElementAt, SizeAt
<1> QED BY <1>2, <1>3

LEMMA RemoveOrdered ==
  ASSUME NEW S, NEW s \in Seq(S), Sized(s), IsInjective(s), NEW lo \in 0 .. Len(s),
         NEW hi \in 0 .. Len(s), lo < hi \/ lo = 0
  PROVE  LET u == ListRemove(ListRemove(s, hi), lo)
         IN  /\ u \in Seq(S) /\ Sized(u) /\ IsInjective(u)
             /\ ToSet(u) = ToSet(s) \ (ElementAt(s, lo) \cup ElementAt(s, hi))
             /\ TotalSize(u) = TotalSize(s) - SizeAt(s, lo) - SizeAt(s, hi)
<1> DEFINE t == ListRemove(s, hi)
           u == ListRemove(t, lo)
<1>1. /\ t \in Seq(S) /\ Sized(t) /\ IsInjective(t)
      /\ ToSet(t) = ToSet(s) \ ElementAt(s, hi)
      /\ TotalSize(t) = TotalSize(s) - SizeAt(s, hi)
  BY ListRemoved
<1>2. lo \in 0 .. Len(t) /\ ElementAt(t, lo) = ElementAt(s, lo) /\ SizeAt(t, lo) = SizeAt(s, lo)
  <2>0. Len(t) \in Nat
    BY <1>1
  <2>1. CASE lo = 0
    <3> HIDE DEF t
    <3> QED BY <2>0, <2>1 DEF ElementAt, SizeAt
  <2>2. CASE lo # 0
    <3>1. hi \in 1 .. Len(s) /\ lo < hi /\ lo \in 1 .. Len(s) - 1
      BY <2>2
    <3>2. t = RemoveAt(s, hi)
      BY <3>1 DEF ListRemove
    <3>3. Len(t) = Len(s) - 1 /\ t[lo] = s[lo]
      BY <3>1, <3>2, RemoveAtFacts
    <3> HIDE DEF t
    <3> QED BY <3>1, <3>3 DEF ElementAt, SizeAt
  <2> QED BY <2>1, <2>2
<1> HIDE DEF t
<1>3. /\ u \in Seq(S) /\ Sized(u) /\ IsInjective(u)
      /\ ToSet(u) = ToSet(t) \ ElementAt(t, lo)
      /\ TotalSize(u) = TotalSize(t) - SizeAt(t, lo)
  BY <1>1, <1>2, ListRemoved
<1>4. /\ TotalSize(s) \in Int /\ SizeAt(s, lo) \in Int /\ SizeAt(s, hi) \in Int
  <2>1. \A i \in 1 .. Len(s) : s[i].size \in Nat
    BY DEF Sized
  <2>2. lo # 0 => lo \in 1 .. Len(s)
    OBVIOUS
  <2>3. hi # 0 => hi \in 1 .. Len(s)
    OBVIOUS
  <2>4. TotalSize(s) \in Int
    BY SizesFacts
  <2> QED BY <2>1, <2>2, <2>3, <2>4 DEF SizeAt
<1> HIDE DEF u
<1>5. TotalSize(u) = TotalSize(s) - SizeAt(s, lo) - SizeAt(s, hi)
  BY <1>1, <1>2, <1>3, <1>4
<1>6. ToSet(u) = ToSet(s) \ (ElementAt(s, lo) \cup ElementAt(s, hi))
  BY <1>1, <1>2, <1>3
<1> QED BY <1>3, <1>5, <1>6 DEF t, u

LEMMA RemoveBoth ==
  ASSUME NEW S, NEW s \in Seq(S), Sized(s), IsInjective(s), NEW i \in 0 .. Len(s),
         NEW j \in 0 .. Len(s), i = j => i = 0
  PROVE  LET u == ListRemove(ListRemove(s, Max({i, j})), Min({i, j}))
         IN  /\ u \in Seq(S) /\ Sized(u) /\ IsInjective(u)
             /\ ToSet(u) = ToSet(s) \ (ElementAt(s, i) \cup ElementAt(s, j))
             /\ TotalSize(u) = TotalSize(s) - SizeAt(s, i) - SizeAt(s, j)
<1>0. Len(s) \in Nat /\ {i, j} \in SUBSET Nat /\ {i, j} \in SUBSET (0 .. Len(s)) /\ {i, j} # {}
  OBVIOUS
<1> DEFINE hi == Max({i, j})
           lo == Min({i, j})
           u == ListRemove(ListRemove(s, hi), lo)
<1>1. hi \in {i, j} /\ hi >= i /\ hi >= j
  BY <1>0, MaxFacts
<1>2. lo \in {i, j} /\ lo <= i /\ lo <= j
  BY <1>0, MinFacts
<1> HIDE DEF hi, lo
<1>3. /\ (hi = i /\ lo = j) \/ (hi = j /\ lo = i)
      /\ lo \in 0 .. Len(s) /\ hi \in 0 .. Len(s) /\ (lo < hi \/ lo = 0)
  BY <1>0, <1>1, <1>2
<1>4. /\ u \in Seq(S) /\ Sized(u) /\ IsInjective(u)
      /\ ToSet(u) = ToSet(s) \ (ElementAt(s, lo) \cup ElementAt(s, hi))
      /\ TotalSize(u) = TotalSize(s) - SizeAt(s, lo) - SizeAt(s, hi)
  BY <1>3, RemoveOrdered
<1>5. /\ TotalSize(s) \in Int /\ SizeAt(s, i) \in Int /\ SizeAt(s, j) \in Int
  <2>1. \A k \in 1 .. Len(s) : s[k].size \in Nat
    BY DEF Sized
  <2>2. i # 0 => i \in 1 .. Len(s)
    OBVIOUS
  <2>3. j # 0 => j \in 1 .. Len(s)
    OBVIOUS
  <2>4. TotalSize(s) \in Int
    BY SizesFacts
  <2> QED BY <2>1, <2>2, <2>3, <2>4 DEF SizeAt
<1> HIDE DEF u
<1>6. TotalSize(u) = TotalSize(s) - SizeAt(s, i) - SizeAt(s, j)
  <2>1. CASE hi = i /\ lo = j
    BY <1>4, <1>5, <2>1
  <2>2. CASE hi = j /\ lo = i
    BY <1>4, <2>2
  <2> QED BY <1>3, <2>1, <2>2
<1>7. ToSet(u) = ToSet(s) \ (ElementAt(s, i) \cup ElementAt(s, j))
  BY <1>3, <1>4
<1> QED BY <1>4, <1>6, <1>7 DEF hi, lo, u

\* h ends where x starts, or starts where x ends.
Beside(h, x) == h.base + h.size = x.base \/ h.base = x.base + x.size

\* m is x together with the areas of Y.
Joined(m, Y, x, total) ==
  /\ Area(m, total) /\ SameBytes(Y \cup {x}, {m}, total)
  /\ m.base = x.base \/ \E h \in Y : h.base = m.base
  /\ m.base + m.size = x.base + x.size \/ \E h \in Y : h.base + h.size = m.base + m.size

LEMMA SameEnd ==
  ASSUME NEW x \in Hole, NEW y \in Hole, x.base + x.size = y.base + y.size
  PROVE  ~Apart(x, y)
BY DEF Hole, Apart

LEMMA SameBase ==
  ASSUME NEW x \in Hole, NEW y \in Hole, x.base = y.base
  PROVE  ~Apart(x, y)
BY DEF Hole, Apart

\* At most one element of a list of separate holes passes a test of its ends.
LEMMA OnlyOne ==
  ASSUME NEW holes \in Seq(Hole), IsInjective(holes), Separate(ToSet(holes)),
         NEW I \in SUBSET (1 .. Len(holes)),
         \A j, k \in I : ~Apart(holes[j], holes[k])
  PROVE  LET i == IF I # {} THEN Max(I) ELSE 0
         IN  /\ i \in 0 .. Len(holes) /\ (i # 0 => i \in I) /\ (i = 0 => I = {})
             /\ \A j \in I : j = i
             /\ {holes[j] : j \in I} = ElementAt(holes, i)
<1> DEFINE i == IF I # {} THEN Max(I) ELSE 0
<1>1. /\ Len(holes) \in Nat /\ \A j \in 1 .. Len(holes) : holes[j] \in ToSet(holes)
  BY HolesSized DEF ToSet
<1>2. CASE I = {}
  <2>1. i = 0
    BY <1>2
  <2> HIDE DEF i
  <2> QED BY <1>1, <1>2, <2>1 DEF ElementAt, i
<1>3. CASE I # {}
  <2>1. I \in SUBSET (0 .. Len(holes))
    BY <1>1
  <2>2. i \in I
    BY <1>1, <1>3, <2>1, MaxFacts
  <2> HIDE DEF i
  <2>3. i \in 1 .. Len(holes) /\ i # 0 /\ i \in 0 .. Len(holes)
    BY <1>1, <2>2
  <2>4. ASSUME NEW j \in I PROVE j = i
    <3>1. holes[j] \in ToSet(holes) /\ holes[i] \in ToSet(holes) /\ ~Apart(holes[j], holes[i])
      BY <1>1, <2>2
    <3>2. holes[j] = holes[i]
      BY <3>1 DEF Separate
    <3>3. DOMAIN holes = 1 .. Len(holes)
      BY HolesSized
    <3> QED BY <2>2, <3>2, <3>3 DEF IsInjective
  <2>5. {holes[j] : j \in I} = {holes[i]}
    BY <2>2, <2>4
  <2> QED BY <1>3, <2>2, <2>3, <2>4, <2>5 DEF ElementAt, i
<1> QED BY <1>2, <1>3

\* Where the joined hole ends.
LEMMA JoinedEnds ==
  ASSUME NEW total \in Nat, NEW b \in Nat, NEW s \in Nat, NEW x \in Nat, NEW y \in Nat,
         NEW mb \in Nat, NEW ms \in Nat,
         mb = b - x, ms = s + x + y, s # 0, b + s + y <= total
  PROVE  ms # 0 /\ mb + ms <= total
<1>1. mb + ms = (b - x) + (s + x + y)
  OBVIOUS
<1>2. (b - x) + (s + x + y) = b + s + y
  OBVIOUS
<1> QED BY <1>1, <1>2

\* A freed segment: it and the holes beside it become one hole.
LEMMA HoleReleased ==
  ASSUME NEW holes \in Seq(Hole), IsInjective(holes), Separate(ToSet(holes)),
         NEW total \in Nat, NEW seg, Area(seg, total),
         \A h \in ToSet(holes) : Area(h, total) /\ Apart(h, seg)
  PROVE  LET r == merge_hole(holes, seg)
             Y == {h \in ToSet(holes) : Beside(h, seg)}
         IN  /\ r \in Seq(Hole) /\ IsInjective(r)
             /\ TotalSize(r) = TotalSize(holes) + seg.size
             /\ \E m \in Hole : /\ ToSet(r) = (ToSet(holes) \ Y) \cup {m}
                                /\ Joined(m, Y, seg, total)
<1> DEFINE r == merge_hole(holes, seg)
           Y == {h \in ToSet(holes) : Beside(h, seg)}
           n == Len(holes)
           P == {j \in 1 .. Len(holes) : holes[j].base + holes[j].size = seg.base}
           Q == {j \in 1 .. Len(holes) : holes[j].base = seg.base + seg.size}
           before == SelectLastInSeq(holes, LAMBDA h : h.base + h.size = seg.base)
           after == SelectLastInSeq(holes, LAMBDA h : h.base = seg.base + seg.size)
           u == ListRemove(ListRemove(holes, Max({before, after})), Min({before, after}))
           m == [base |-> IF before = 0 THEN seg.base ELSE holes[before].base,
                 size |-> seg.size + SizeAt(holes, before) + SizeAt(holes, after)]
<1>1. /\ n \in Nat /\ DOMAIN holes = 1 .. n /\ Sized(holes) /\ TotalSize(holes) \in Int
      /\ \A j \in 1 .. n : /\ holes[j] \in Hole /\ holes[j] \in ToSet(holes)
                           /\ holes[j].base \in Nat /\ holes[j].size \in Nat \ {0}
                           /\ holes[j].base + holes[j].size <= total
                           /\ Apart(holes[j], seg)
      /\ \A h \in ToSet(holes) : \E j \in 1 .. n : holes[j] = h
  BY HolesSized, SizesFacts DEF ToSet, Area
<1>2. seg.base \in Nat /\ seg.size \in Nat \ {0} /\ seg.base + seg.size <= total
  BY DEF Area
<1>3. before = IF P # {} THEN Max(P) ELSE 0
  BY DEF SelectLastInSeq
<1>4. after = IF Q # {} THEN Max(Q) ELSE 0
  BY DEF SelectLastInSeq
<1>5. r = Append(u, m)
  BY DEF merge_hole, SizeAt
<1> HIDE DEF before, after, r
<1>6. /\ before \in 0 .. n /\ (before # 0 => before \in P) /\ (before = 0 => P = {})
      /\ \A j \in P : j = before
      /\ {holes[j] : j \in P} = ElementAt(holes, before)
  <2>1. ASSUME NEW j \in P, NEW k \in P PROVE ~Apart(holes[j], holes[k])
    BY <1>1, <1>2, SameEnd
  <2>2. P \in SUBSET (1 .. Len(holes))
    OBVIOUS
  <2> HIDE DEF P
  <2> QED BY <1>3, <2>1, <2>2, OnlyOne
<1>7. /\ after \in 0 .. n /\ (after # 0 => after \in Q) /\ (after = 0 => Q = {})
      /\ \A j \in Q : j = after
      /\ {holes[j] : j \in Q} = ElementAt(holes, after)
  <2>1. ASSUME NEW j \in Q, NEW k \in Q PROVE ~Apart(holes[j], holes[k])
    BY <1>1, <1>2, SameBase
  <2>2. Q \in SUBSET (1 .. Len(holes))
    OBVIOUS
  <2> HIDE DEF Q
  <2> QED BY <1>4, <2>1, <2>2, OnlyOne
<1>8. before = after => before = 0
  BY <1>1, <1>2, <1>6, <1>7
<1>9. Y = ElementAt(holes, before) \cup ElementAt(holes, after)
  <2>1. Y = {holes[j] : j \in P} \cup {holes[j] : j \in Q}
    BY <1>1 DEF Beside
  <2> QED BY <1>6, <1>7, <2>1
<1>10. /\ u \in Seq(Hole) /\ Sized(u) /\ IsInjective(u) /\ ToSet(u) = ToSet(holes) \ Y
       /\ TotalSize(u) = TotalSize(holes) - SizeAt(holes, before) - SizeAt(holes, after)
  <2>1. holes \in Seq(Hole) /\ before \in 0 .. Len(holes) /\ after \in 0 .. Len(holes)
    BY <1>6, <1>7
  <2> HIDE DEF Y
  <2>2. /\ u \in Seq(Hole) /\ Sized(u) /\ IsInjective(u)
        /\ ToSet(u) = ToSet(holes) \ (ElementAt(holes, before) \cup ElementAt(holes, after))
        /\ TotalSize(u) = TotalSize(holes) - SizeAt(holes, before) - SizeAt(holes, after)
    BY <1>1, <1>8, <2>1, RemoveBoth
  <2> QED BY <1>9, <2>2
<1> HIDE DEF u
<1>11. /\ SizeAt(holes, before) \in Nat /\ SizeAt(holes, after) \in Nat
  BY <1>1, <1>6, <1>7 DEF SizeAt
<1>a. PICK bs \in Nat : bs = SizeAt(holes, before)
  BY <1>11
<1>b. PICK ae \in Nat : ae = SizeAt(holes, after)
  BY <1>11
<1>c. PICK sb \in Nat : sb = seg.base
  BY <1>2
<1>d. PICK ss \in Nat : ss = seg.size /\ ss # 0
  BY <1>2
<1>e. bs <= sb /\ m.base = sb - bs
  <2>1. CASE before = 0
    BY <1>a, <1>c, <2>1 DEF SizeAt
  <2>2. CASE before # 0
    <3>1. PICK hb \in Nat : hb = holes[before].base
      BY <1>1, <1>6, <2>2
    <3>2. hb + bs = sb
      BY <1>6, <1>a, <1>c, <2>2, <3>1 DEF SizeAt
    <3>3. m.base = hb
      BY <2>2, <3>1
    <3>4. bs <= sb /\ hb = sb - bs
      BY <3>2
    <3> QED BY <3>3, <3>4
  <2> QED BY <2>1, <2>2
<1>f. sb + ss + ae <= total
  <2>1. CASE after = 0
    BY <1>2, <1>b, <1>c, <1>d, <2>1 DEF SizeAt
  <2>2. CASE after # 0
    <3>1. /\ holes[after].base = sb + ss
          /\ holes[after].base + ae <= total
      BY <1>1, <1>7, <1>b, <1>c, <1>d, <2>2 DEF SizeAt
    <3> QED BY <3>1
  <2> QED BY <2>1, <2>2
<1>g. m.size = ss + bs + ae
  BY <1>a, <1>b, <1>d
<1>h. PICK mb \in Nat : mb = m.base
  BY <1>e
<1>i. PICK ms \in Nat : ms = m.size
  BY <1>g
<1>12. mb = sb - bs /\ ms = ss + bs + ae /\ ss # 0 /\ ms # 0 /\ mb + ms <= total
  <2>1. mb = sb - bs /\ ms = ss + bs + ae
    BY <1>e, <1>g, <1>h, <1>i
  <2>2. ms # 0 /\ mb + ms <= total
    BY <1>d, <1>f, <2>1, JoinedEnds
  <2> QED BY <1>d, <2>1, <2>2, Zenon
<1>0. m \in Hole /\ m.size \in Nat \ {0} /\ Area(m, total)
  <2>1. m.base \in Nat /\ m.size \in Nat \ {0}
    BY <1>12, <1>h, <1>i
  <2>2. m \in Hole
    BY <2>1 DEF Hole
  <2> HIDE DEF m
  <2> QED BY <1>12, <1>h, <1>i, <2>1, <2>2 DEF Area
<1> HIDE DEF m
<1>13. m \notin ToSet(u)
  <2>1. ASSUME NEW h \in ToSet(holes), h = m PROVE FALSE
    <3>1. mb + ms <= sb \/ sb + ss <= mb
      BY <2>1, <1>c, <1>d, <1>h, <1>i DEF Apart
    <3> QED BY <1>12, <3>1
  <2> QED BY <1>10, <2>1
<1>14. /\ r \in Seq(Hole) /\ IsInjective(r) /\ ToSet(r) = ToSet(u) \cup {m}
       /\ TotalSize(r) = TotalSize(u) + m.size
  BY <1>0, <1>5, <1>10, <1>13, Appended
<1>15. TotalSize(r) = TotalSize(holes) + seg.size
  <2>1. PICK v \in Int : v = TotalSize(holes)
    BY <1>1
  <2>2. TotalSize(u) = v - bs - ae /\ TotalSize(r) = TotalSize(u) + ms
    BY <1>10, <1>14, <1>a, <1>b, <1>i, <2>1
  <2>3. (v - bs - ae) + ms = v + ss
    BY <1>12
  <2> QED BY <1>d, <2>1, <2>2, <2>3
<1>16. SameBytes(Y \cup {seg}, {m}, total)
  <2> SUFFICES ASSUME NEW a \in 0 .. total - 1
               PROVE  SomeSpans(Y \cup {seg}, a) <=> Spans(m, a)
    BY DEF SameBytes, SomeSpans
  <2>0. PICK c \in Int : c = a
    OBVIOUS
  <2>1. SomeSpans(ElementAt(holes, before), a) <=> sb - bs <= a /\ a < sb
    <3>1. CASE before = 0
      <4>1. bs = 0 /\ ~SomeSpans(ElementAt(holes, before), a)
        BY <1>a, <3>1 DEF SomeSpans, ElementAt, SizeAt
      <4> QED BY <4>1
    <3>2. CASE before # 0
      <4>1. PICK hb \in Nat : hb = holes[before].base
        BY <1>1, <1>6, <3>2
      <4>2. hb + bs = sb
        BY <1>6, <1>a, <1>c, <3>2, <4>1 DEF SizeAt
      <4>3. SomeSpans(ElementAt(holes, before), a) <=> hb <= a /\ a < hb + bs
        BY <1>a, <3>2, <4>1 DEF SomeSpans, ElementAt, SizeAt, Spans
      <4>4. hb = sb - bs
        BY <4>2
      <4> QED BY <4>2, <4>3, <4>4
    <3> QED BY <3>1, <3>2
  <2>2. SomeSpans(ElementAt(holes, after), a) <=> sb + ss <= a /\ a < sb + ss + ae
    <3>1. CASE after = 0
      <4>1. ae = 0 /\ ~SomeSpans(ElementAt(holes, after), a)
        BY <1>b, <3>1 DEF SomeSpans, ElementAt, SizeAt
      <4> QED BY <4>1
    <3>2. CASE after # 0
      <4>1. holes[after].base = sb + ss
        BY <1>7, <1>c, <1>d, <3>2
      <4>3. SomeSpans(ElementAt(holes, after), a)
              <=> holes[after].base <= a /\ a < holes[after].base + ae
        BY <1>b, <3>2 DEF SomeSpans, ElementAt, SizeAt, Spans
      <4> QED BY <4>1, <4>3
    <3> QED BY <3>1, <3>2
  <2>3. SomeSpans(Y \cup {seg}, a)
          <=> \/ SomeSpans(ElementAt(holes, before), a)
              \/ SomeSpans(ElementAt(holes, after), a)
              \/ Spans(seg, a)
    BY <1>9 DEF SomeSpans
  <2>4. /\ Spans(seg, a) <=> sb <= a /\ a < sb + ss
        /\ Spans(m, a) <=> mb <= a /\ a < mb + ms
    BY <1>c, <1>d, <1>h, <1>i DEF Spans
  <2> DEFINE left == sb - bs <= c /\ c < sb
             right == sb + ss <= c /\ c < sb + ss + ae
             inside == sb <= c /\ c < sb + ss
             whole == mb <= c /\ c < mb + ms
  <2>5. whole => left \/ right \/ inside
    BY <1>12
  <2>6. left \/ right \/ inside => whole
    BY <1>12
  <2>7. /\ SomeSpans(ElementAt(holes, before), a) <=> left
        /\ SomeSpans(ElementAt(holes, after), a) <=> right
        /\ Spans(seg, a) <=> inside
        /\ Spans(m, a) <=> whole
    BY <2>0, <2>1, <2>2, <2>4, Zenon
  <2> HIDE DEF left, right, inside, whole
  <2> QED BY <2>3, <2>5, <2>6, <2>7, Zenon
<1>17. m.base = seg.base \/ \E h \in Y : h.base = m.base
  <2>1. CASE before = 0
    BY <2>1 DEF m
  <2>2. CASE before # 0
    <3>1. holes[before] \in Y
      BY <1>9, <2>2 DEF ElementAt
    <3>2. holes[before].base = m.base
      BY <2>2 DEF m
    <3> QED BY <3>1, <3>2
  <2> QED BY <2>1, <2>2
<1>18. m.base + m.size = seg.base + seg.size \/ \E h \in Y : h.base + h.size = m.base + m.size
  <2>0. mb + ms = sb + ss + ae
    BY <1>12
  <2>1. CASE after = 0
    <3>1. ae = 0
      BY <1>b, <2>1 DEF SizeAt
    <3>2. mb + ms = sb + ss
      BY <2>0, <3>1
    <3> QED BY <3>2, <1>c, <1>d, <1>h, <1>i
  <2>2. CASE after # 0
    <3>1. holes[after] \in Y
      BY <1>9, <2>2 DEF ElementAt
    <3>2. holes[after].base = sb + ss /\ holes[after].size = ae
      BY <1>7, <1>b, <1>c, <1>d, <2>2 DEF SizeAt
    <3>3. holes[after].base + holes[after].size = m.base + m.size
      BY <2>0, <3>2, <1>h, <1>i
    <3> QED BY <3>1, <3>3
  <2> QED BY <2>1, <2>2
<1>19. Joined(m, Y, seg, total)
  BY <1>0, <1>16, <1>17, <1>18 DEF Joined
<1> HIDE DEF Y
<1>20. ToSet(r) = (ToSet(holes) \ Y) \cup {m}
  BY <1>10, <1>14
<1> QED BY <1>0, <1>14, <1>15, <1>19, <1>20 DEF r, Y

-----------------------------------------------------------------------------
(* Sums of natural numbers grow, and every number below the last one lies  *)
(* in one of the stretches.                                                *)

LEMMA SumGrows ==
  ASSUME NEW s \in Seq(Int), \A i \in 1 .. Len(s) : s[i] >= 0,
         NEW j \in Nat, NEW k \in Nat, j <= k, k <= Len(s)
  PROVE  /\ RunningSum(s)[j] \in Nat /\ RunningSum(s)[k] \in Nat
         /\ RunningSum(s)[j] <= RunningSum(s)[k]
<1> DEFINE f == RunningSum(s)
           Up(a, m) == f[m] \in Int /\ f[a] <= f[m]
           T(a) == {m \in Nat : a <= m /\ m <= Len(s) => Up(a, m)}
<1>1. /\ Len(s) \in Nat /\ f \in [0 .. Len(s) -> Int] /\ f[0] = 0
      /\ \A i \in 1 .. Len(s) : f[i] = f[i - 1] + s[i] /\ s[i] \in Int
  BY SumType
<1> HIDE DEF f
<1>2. ASSUME NEW a \in Nat PROVE T(a) = Nat
  <2>1. 0 \in T(a)
    <3> SUFFICES ASSUME a <= 0 PROVE Up(a, 0)
      OBVIOUS
    <3>1. a = 0
      OBVIOUS
    <3> QED BY <1>1, <3>1
  <2>2. ASSUME NEW m \in T(a) PROVE m + 1 \in T(a)
    <3>0. m \in Nat
      OBVIOUS
    <3> SUFFICES ASSUME a <= m + 1, m + 1 <= Len(s) PROVE Up(a, m + 1)
      BY <3>0
    <3>1. m + 1 \in 1 .. Len(s) /\ m + 1 - 1 = m /\ m \in 0 .. Len(s) /\ m + 1 \in 0 .. Len(s)
      BY <1>1, <3>0
    <3>2. f[m + 1] = f[m] + s[m + 1]
      BY <1>1, <3>1
    <3>3. PICK x \in Int : x = f[m]
      BY <1>1, <3>1
    <3>4. PICK y \in Int : y = s[m + 1] /\ y >= 0
      BY <1>1, <3>1
    <3>5. f[m + 1] = x + y /\ x + y \in Int
      BY <3>2, <3>3, <3>4
    <3>6. CASE a = m + 1
      BY <3>5, <3>6
    <3>7. CASE a # m + 1
      <4>1. a <= m /\ m <= Len(s)
        BY <1>1, <3>0, <3>7
      <4>2. a \in 0 .. Len(s) /\ f[a] <= f[m]
        BY <1>1, <2>2, <4>1
      <4>3. PICK z \in Int : z = f[a]
        BY <1>1, <4>2
      <4>4. z <= x
        BY <3>3, <4>2, <4>3
      <4>5. z <= x + y
        BY <3>4, <4>4
      <4> QED BY <3>5, <4>3, <4>5
    <3> QED BY <3>6, <3>7
  <2>3. T(a) \in SUBSET Nat
    OBVIOUS
  <2> HIDE DEF T
  <2> QED BY <2>1, <2>2, <2>3, Induction
<1>3. ASSUME NEW a \in Nat, NEW b \in Nat, a <= b, b <= Len(s) PROVE Up(a, b)
  BY <1>2, <1>3
<1> HIDE DEF T
<1>4. Up(j, k) /\ Up(0, j) /\ Up(0, k)
  BY <1>1, <1>3
<1> QED BY <1>1, <1>4 DEF f

LEMMA SumLocates ==
  ASSUME NEW s \in Seq(Int), \A i \in 1 .. Len(s) : s[i] >= 0,
         NEW a \in Nat, a < RunningSum(s)[Len(s)]
  PROVE  \E i \in 1 .. Len(s) : RunningSum(s)[i - 1] <= a /\ a < RunningSum(s)[i]
<1> DEFINE f == RunningSum(s)
           n == Len(s)
           T == {i \in 0 .. n : a < f[i]}
<1>1. n \in Nat /\ f \in [0 .. n -> Int] /\ f[0] = 0
  BY SumType
<1>2. n \in T
  BY <1>1
<1> HIDE DEF f, n
<1>3. PICK i \in T : \A y \in T : i <= y
  <2>1. T \in SUBSET Nat /\ T # {}
    BY <1>1, <1>2
  <2> HIDE DEF T
  <2> QED BY <2>1, Least
<1>4. i \in 1 .. n /\ i - 1 \in 0 .. n /\ i - 1 \notin T
  BY <1>1, <1>3
<1>5. f[i - 1] \in Int
  BY <1>1, <1>4
<1>6. f[i - 1] <= a
  BY <1>4, <1>5
<1> QED BY <1>3, <1>4, <1>6 DEF f, n

-----------------------------------------------------------------------------
(* The same changes on the areas that tile the memory.                     *)

\* A segment takes the first size bytes of hole h.
LEMMA TilesTaken ==
  ASSUME NEW X, NEW total \in Nat, Tiles(X, total), NEW h \in X, NEW size \in Nat \ {0},
         size <= h.size, NEW x, x.base = h.base, x.size = size
  PROVE  Tiles((X \ {h}) \cup (Rest(h, size) \cup {x}), total)
<1> DEFINE B == Rest(h, size) \cup {x}
           y == [base |-> h.base + size, size |-> h.size - size]
<1>0. h.base \in Nat /\ h.size \in Nat \ {0} /\ h.base + h.size <= total
  BY DEF Tiles, Area
<1>1. PICK hb \in Nat : hb = h.base
  BY <1>0
<1>2. PICK hs \in Nat : hs = h.size
  BY <1>0
<1>3. size <= hs /\ hb + hs <= total
  BY <1>0, <1>1, <1>2
<1>4. y.base = hb + size /\ y.size = hs - size
  BY <1>1, <1>2
<1>5. Area(x, total)
  BY <1>1, <1>3 DEF Area
<1>6. ASSUME h.size # size PROVE Area(y, total) /\ Apart(x, y) /\ Apart(y, x)
  <2>1. size # hs
    BY <1>2, <1>6
  <2> HIDE DEF y
  <2> QED BY <1>1, <1>3, <1>4, <2>1 DEF Area, Apart
<1>7. B = IF h.size = size THEN {x} ELSE {x, y}
  BY DEF Rest
<1> HIDE DEF y
<1>8. (\A z \in B : Area(z, total)) /\ Separate(B)
  BY <1>5, <1>6, <1>7 DEF Separate
<1>9. SameBytes({h}, B, total)
  <2> SUFFICES ASSUME NEW a \in 0 .. total - 1 PROVE Spans(h, a) <=> SomeSpans(B, a)
    BY DEF SameBytes, SomeSpans
  <2>1. PICK c \in Int : c = a
    OBVIOUS
  <2>2. /\ Spans(h, a) <=> hb <= c /\ c < hb + hs
        /\ Spans(x, a) <=> hb <= c /\ c < hb + size
        /\ Spans(y, a) <=> hb + size <= c /\ c < (hb + size) + (hs - size)
    BY <1>1, <1>2, <1>4, <2>1 DEF Spans
  <2>3. CASE hs = size
    <3>1. SomeSpans(B, a) <=> Spans(x, a)
      BY <1>2, <1>7, <2>3 DEF SomeSpans
    <3> QED BY <2>2, <2>3, <3>1
  <2>4. CASE hs # size
    <3>1. SomeSpans(B, a) <=> Spans(x, a) \/ Spans(y, a)
      BY <1>2, <1>7, <2>4 DEF SomeSpans
    <3> DEFINE low == hb <= c /\ c < hb + size
               high == hb + size <= c /\ c < (hb + size) + (hs - size)
               whole == hb <= c /\ c < hb + hs
    <3>2. (whole => low \/ high) /\ (low => whole) /\ (high => whole)
      BY <1>3
    <3> HIDE DEF low, high, whole
    <3> QED BY <2>2, <3>1, <3>2 DEF low, high, whole
  <2> QED BY <2>3, <2>4
<1> HIDE DEF B
<1>10. {h} \in SUBSET X
  OBVIOUS
<1>11. Tiles((X \ {h}) \cup B, total)
  BY <1>8, <1>9, <1>10, Recut
<1> QED BY <1>11 DEF B

\* A new stick.
LEMMA TilesGrown ==
  ASSUME NEW X, NEW total \in Nat, Tiles(X, total), NEW size \in Nat \ {0},
         NEW x, x.base = total, x.size = size
  PROVE  Tiles(X \cup {x}, total + size)
<1>1. \A y \in X : y.base \in Nat /\ y.size \in Nat \ {0} /\ y.base + y.size <= total
  BY DEF Tiles, Area
<1>2. \A y \in X : Area(y, total + size) /\ Apart(y, x) /\ Apart(x, y)
  <2> TAKE y \in X
  <2>1. PICK e \in Nat : e = y.base + y.size /\ e <= total
    BY <1>1
  <2>2. e <= total + size /\ e <= total
    BY <2>1
  <2> QED BY <1>1, <2>1, <2>2 DEF Area, Apart
<1>3. Area(x, total + size)
  BY DEF Area
<1>4. Separate(X \cup {x})
  BY <1>2 DEF Separate, Tiles
<1>5. ASSUME NEW a \in 0 .. (total + size) - 1 PROVE SomeSpans(X \cup {x}, a)
  <2>1. CASE a < total
    <3>1. a \in 0 .. total - 1
      BY <2>1
    <3> QED BY <3>1 DEF Tiles, SomeSpans
  <2>2. CASE ~(a < total)
    <3>1. Spans(x, a)
      BY <2>2 DEF Spans
    <3> QED BY <3>1 DEF SomeSpans
  <2> QED BY <2>1, <2>2
<1> QED BY <1>2, <1>3, <1>4, <1>5 DEF Tiles

\* Two areas one after the other may be seen as one.
LEMMA TilesJoined ==
  ASSUME NEW X, NEW total \in Nat, Tiles(X, total), NEW h \in X, NEW x \in X,
         h.base + h.size = x.base, NEW y, y.base = h.base, y.size = h.size + x.size
  PROVE  Tiles((X \ {h, x}) \cup {y}, total)
<1>0. /\ h.base \in Nat /\ h.size \in Nat \ {0} /\ h.base + h.size <= total
      /\ x.base \in Nat /\ x.size \in Nat \ {0} /\ x.base + x.size <= total
  BY DEF Tiles, Area
<1>1. PICK hb \in Nat : hb = h.base
  BY <1>0
<1>2. PICK hs \in Nat : hs = h.size /\ hs # 0
  BY <1>0
<1>3. PICK xs \in Nat : xs = x.size /\ xs # 0
  BY <1>0
<1>4. x.base = hb + hs /\ (hb + hs) + xs <= total /\ y.base = hb /\ y.size = hs + xs
  BY <1>0, <1>1, <1>2, <1>3
<1>5. Area(y, total)
  <2>1. hb + (hs + xs) <= total /\ hs + xs \in Nat \ {0}
    BY <1>2, <1>3, <1>4
  <2> QED BY <1>4, <2>1 DEF Area
<1>6. SameBytes({h, x}, {y}, total)
  <2> SUFFICES ASSUME NEW a \in 0 .. total - 1 PROVE Spans(h, a) \/ Spans(x, a) <=> Spans(y, a)
    BY DEF SameBytes, SomeSpans
  <2>1. PICK c \in Int : c = a
    OBVIOUS
  <2>2. /\ Spans(h, a) <=> hb <= c /\ c < hb + hs
        /\ Spans(x, a) <=> hb + hs <= c /\ c < (hb + hs) + xs
        /\ Spans(y, a) <=> hb <= c /\ c < hb + (hs + xs)
    BY <1>1, <1>2, <1>3, <1>4, <2>1 DEF Spans
  <2> QED BY <2>2
<1>7. {h, x} \in SUBSET X /\ (\A z \in {y} : Area(z, total)) /\ Separate({y})
  BY <1>5 DEF Separate
<1> QED BY <1>6, <1>7, Recut

-----------------------------------------------------------------------------
(* Holes that do not touch.                                                *)

NoneTouch(H) == \A h, k \in H : h.base + h.size # k.base

LEMMA TouchTaken ==
  ASSUME NEW H \in SUBSET Hole, Separate(H), NoneTouch(H), NEW h \in H,
         NEW size \in Nat \ {0}, size <= h.size
  PROVE  NoneTouch((H \ {h}) \cup Rest(h, size))
<1>1. CASE h.size = size
  BY <1>1 DEF NoneTouch, Rest
<1>2. CASE h.size # size
  <2> DEFINE y == [base |-> h.base + size, size |-> h.size - size]
  <2>0. h.base \in Nat /\ h.size \in Nat \ {0} /\ \A k \in H : k.base \in Nat /\ k.size \in Nat \ {0}
    BY DEF Hole
  <2>1. PICK hb \in Nat : hb = h.base
    BY <2>0
  <2>2. PICK hs \in Nat : hs = h.size
    BY <2>0
  <2>3. size < hs
    BY <1>2, <2>2
  <2>4. y.base = hb + size /\ y.size = hs - size
    BY <2>1, <2>2
  <2> HIDE DEF y
  <2>5. y.base + y.size # y.base /\ y.base + y.size = hb + hs
    BY <2>3, <2>4
  <2>6. ASSUME NEW k \in H, k # h
        PROVE  y.base + y.size # k.base /\ k.base + k.size # y.base
    <3>1. y.base + y.size # k.base
      BY <2>1, <2>2, <2>5 DEF NoneTouch
    <3>2. PICK kb \in Nat : kb = k.base
      BY <2>0
    <3>3. PICK ks \in Nat : ks = k.size /\ ks # 0
      BY <2>0
    <3>4. kb + ks <= hb \/ hb + hs <= kb
      BY <2>1, <2>2, <2>6, <3>2, <3>3 DEF Separate, Apart
    <3>5. kb + ks # hb + size
      BY <2>3, <3>3, <3>4
    <3> QED BY <2>4, <3>1, <3>2, <3>3, <3>5
  <2>7. Rest(h, size) = {y}
    BY <1>2 DEF Rest, y
  <2> QED BY <2>5, <2>6, <2>7 DEF NoneTouch
<1> QED BY <1>1, <1>2

LEMMA TouchReleased ==
  ASSUME NEW H, NoneTouch(H), NEW total \in Nat, NEW x, Area(x, total),
         NEW m, Joined(m, {h \in H : Beside(h, x)}, x, total)
  PROVE  NoneTouch((H \ {h \in H : Beside(h, x)}) \cup {m})
<1> DEFINE Y == {h \in H : Beside(h, x)}
<1>1. m.base \in Nat /\ m.size \in Nat \ {0}
  BY DEF Joined, Area
<1>2. m.base + m.size # m.base
  BY <1>1
<1>3. ASSUME NEW k \in H \ Y PROVE k.base + k.size # m.base
  <2>1. CASE m.base = x.base
    BY <1>3, <2>1 DEF Beside
  <2>2. CASE \E h \in Y : h.base = m.base
    BY <2>2 DEF NoneTouch
  <2> QED BY <2>1, <2>2 DEF Joined
<1>4. ASSUME NEW k \in H \ Y PROVE m.base + m.size # k.base
  <2>1. CASE m.base + m.size = x.base + x.size
    BY <1>4, <2>1 DEF Beside
  <2>2. CASE \E h \in Y : h.base + h.size = m.base + m.size
    BY <2>2 DEF NoneTouch
  <2> QED BY <2>1, <2>2 DEF Joined
<1> QED BY <1>2, <1>3, <1>4 DEF NoneTouch

LEMMA TouchGrown ==
  ASSUME NEW H, NoneTouch(H), NEW total \in Nat, \A h \in H : Area(h, total),
         NEW size \in Nat \ {0}
  PROVE  /\ (\A h \in H : h.base + h.size # total)
              => NoneTouch(H \cup {[base |-> total, size |-> size]})
         /\ \A h \in H : h.base + h.size = total
              => NoneTouch((H \ {h}) \cup {[base |-> h.base, size |-> h.size + size]})
<1>0. \A k \in H : k.base \in Nat /\ k.size \in Nat \ {0} /\ k.base + k.size <= total
  BY DEF Area
<1>1. ASSUME \A h \in H : h.base + h.size # total
      PROVE  NoneTouch(H \cup {[base |-> total, size |-> size]})
  <2> DEFINE x == [base |-> total, size |-> size]
  <2>1. x.base = total /\ x.size = size
    OBVIOUS
  <2> HIDE DEF x
  <2>2. \A k \in H : x.base + x.size # k.base
    <3> TAKE k \in H
    <3>1. PICK kb \in Nat : kb = k.base
      BY <1>0
    <3>2. PICK ks \in Nat : ks = k.size
      BY <1>0
    <3>3. kb + ks <= total
      BY <1>0, <3>1, <3>2
    <3>4. total + size # kb
      BY <3>3
    <3> QED BY <2>1, <3>1, <3>4
  <2>3. x.base + x.size # x.base
    BY <2>1
  <2>4. NoneTouch(H \cup {x})
    BY <1>1, <2>1, <2>2, <2>3 DEF NoneTouch
  <2> QED BY <2>4 DEF x
<1>2. ASSUME NEW h \in H, h.base + h.size = total
      PROVE  NoneTouch((H \ {h}) \cup {[base |-> h.base, size |-> h.size + size]})
  <2> DEFINE x == [base |-> h.base, size |-> h.size + size]
  <2>1. x.base = h.base /\ x.size = h.size + size
    OBVIOUS
  <2> HIDE DEF x
  <2>2. x.base + x.size = total + size
    <3>1. PICK hb \in Nat : hb = h.base
      BY <1>0
    <3>2. PICK hs \in Nat : hs = h.size
      BY <1>0
    <3>3. hb + hs = total
      BY <1>2, <3>1, <3>2
    <3>4. hb + (hs + size) = total + size
      BY <3>3
    <3> QED BY <2>1, <3>1, <3>2, <3>4
  <2>3. \A k \in H : x.base + x.size # k.base
    <3> TAKE k \in H
    <3>1. PICK kb \in Nat : kb = k.base
      BY <1>0
    <3>2. PICK ks \in Nat : ks = k.size
      BY <1>0
    <3>3. kb + ks <= total
      BY <1>0, <3>1, <3>2
    <3>4. total + size # kb
      BY <3>3
    <3> QED BY <2>2, <3>1, <3>4
  <2>4. NoneTouch((H \ {h}) \cup {x})
    <3>1. \A k \in H : k.base + k.size # x.base
      BY <2>1 DEF NoneTouch
    <3>2. x.base + x.size # x.base
      BY <1>2, <2>1, <2>3
    <3> QED BY <2>3, <3>1, <3>2 DEF NoneTouch
  <2> QED BY <2>4 DEF x
<1> QED BY <1>1, <1>2

\* Holes that do not touch and leave nothing to segments are one hole.
LEMMA OneHole ==
  ASSUME NEW H, NEW total \in Nat \ {0}, Tiles(H, total), NoneTouch(H)
  PROVE  \E h \in H : h.size = total
<1>0. \A k \in H : k.base \in Nat /\ k.size \in Nat \ {0} /\ k.base + k.size <= total
  BY DEF Tiles, Area
<1>1. PICK h \in H : Spans(h, 0)
  BY DEF Tiles, SomeSpans
<1>2. h.base = 0
  BY <1>0, <1>1 DEF Spans
<1>3. CASE h.size = total
  BY <1>3
<1>4. CASE h.size # total
  <2>1. h.size \in 0 .. total - 1
    BY <1>0, <1>2, <1>4
  <2>2. PICK k \in H : Spans(k, h.size)
    BY <2>1 DEF Tiles, SomeSpans
  <2>3. PICK hs \in Nat : hs = h.size /\ hs # 0
    BY <1>0
  <2>4. PICK kb \in Nat : kb = k.base
    BY <1>0
  <2>5. PICK ks \in Nat : ks = k.size
    BY <1>0
  <2>6. kb <= hs /\ hs < kb + ks
    BY <2>2, <2>3, <2>4, <2>5 DEF Spans
  <2>7. k # h
    <3> SUFFICES ASSUME k = h PROVE FALSE
      OBVIOUS
    <3>1. kb = 0 /\ ks = hs
      BY <1>2, <2>3, <2>4, <2>5
    <3> QED BY <2>6, <3>1
  <2>8. 0 + hs <= kb \/ kb + ks <= 0
    BY <1>2, <2>3, <2>4, <2>5, <2>7 DEF Tiles, Separate, Apart
  <2>9. kb = 0 + hs
    BY <2>6, <2>8
  <2> QED BY <1>2, <2>3, <2>4, <2>9 DEF NoneTouch
<1> QED BY <1>3, <1>4

-----------------------------------------------------------------------------
(* The sticks.                                                             *)

StickLengths(sticks) == [j \in DOMAIN sticks |-> Len(sticks[j])]

LEMMA StickFacts ==
  ASSUME NEW V, NEW sticks \in Seq(Seq(V))
  PROVE  /\ Len(sticks) \in Nat /\ DOMAIN sticks = 1 .. Len(sticks)
         /\ \A i \in 1 .. Len(sticks) : /\ sticks[i] \in Seq(V) /\ Len(sticks[i]) \in Nat
                                        /\ DOMAIN sticks[i] = 1 .. Len(sticks[i])
                                        /\ StickLengths(sticks)[i] = Len(sticks[i])
         /\ StickLengths(sticks) \in Seq(Int) /\ Len(StickLengths(sticks)) = Len(sticks)
         /\ \A i \in 1 .. Len(sticks) : StickLengths(sticks)[i] >= 0
<1>1. Len(sticks) \in Nat /\ DOMAIN sticks = 1 .. Len(sticks)
  OBVIOUS
<1>2. \A i \in 1 .. Len(sticks) : sticks[i] \in Seq(V)
  BY ElementOfSeq
<1>3. \A t \in Seq(V) : Len(t) \in Nat /\ DOMAIN t = 1 .. Len(t)
  OBVIOUS
<1>4. \A i \in 1 .. Len(sticks) : /\ StickLengths(sticks)[i] = Len(sticks[i])
                                  /\ StickLengths(sticks)[i] >= 0
  BY <1>1, <1>2, <1>3 DEF StickLengths
<1>5. StickLengths(sticks) \in Seq(Int) /\ Len(StickLengths(sticks)) = Len(sticks)
  <2>1. StickLengths(sticks) \in [1 .. Len(sticks) -> Int]
    BY <1>1, <1>2, <1>3 DEF StickLengths
  <2> QED BY <1>1, <2>1
<1> QED BY <1>1, <1>2, <1>3, <1>4, <1>5

\* Every address below the sizes of the sticks is on a stick.
LEMMA StickFound ==
  ASSUME NEW V, NEW sticks \in Seq(Seq(V)), NEW a \in Nat,
         a < RunningSum(StickLengths(sticks))[Len(sticks)]
  PROVE  LET i == find_stick(sticks, a)
         IN  /\ i \in 1 .. Len(sticks)
             /\ a + 1 - StickBase(sticks, i) \in 1 .. Len(sticks[i])
<1> DEFINE n == Len(sticks)
           q == StickLengths(sticks)
           f == RunningSum(q)
           I == {j \in 1 .. Len([i \in DOMAIN sticks |-> i]) :
                   a \in StickBase(sticks, [i \in DOMAIN sticks |-> i][j]) ..
                         StickBase(sticks, [i \in DOMAIN sticks |-> i][j])
                           + Len(sticks[[i \in DOMAIN sticks |-> i][j]]) - 1}
           J == {j \in 1 .. n : a \in f[j - 1] .. f[j - 1] + Len(sticks[j]) - 1}
<1>1. /\ n \in Nat /\ DOMAIN sticks = 1 .. n /\ q \in Seq(Int) /\ Len(q) = n
      /\ \A i \in 1 .. n : q[i] = Len(sticks[i]) /\ Len(sticks[i]) \in Nat /\ q[i] >= 0
  BY StickFacts
<1>2. \A j : StickBase(sticks, j) = f[j - 1]
  BY DEF StickBase, StickLengths
<1>3. Len([i \in DOMAIN sticks |-> i]) = n /\ \A j \in 1 .. n : [i \in DOMAIN sticks |-> i][j] = j
  BY <1>1
<1>4. I = J
  BY <1>2, <1>3
<1>5. find_stick(sticks, a) = IF J # {} THEN Min(J) ELSE 0
  <2>1. find_stick(sticks, a) = IF I # {} THEN Min(I) ELSE 0
    BY DEF find_stick, SelectInSeq
  <2> HIDE DEF I, J
  <2> QED BY <1>4, <2>1
<1>6. /\ f \in [0 .. n -> Int] /\ \A i \in 1 .. n : f[i] = f[i - 1] + q[i]
  BY <1>1, SumType
<1>7. PICK k \in 1 .. n : f[k - 1] <= a /\ a < f[k]
  BY <1>1, SumLocates
<1> HIDE DEF f, q, n, I
<1>8. \A j \in 1 .. n : f[j - 1] \in Int /\ f[j] = f[j - 1] + Len(sticks[j])
  <2> TAKE j \in 1 .. n
  <2>1. j - 1 \in 0 .. n
    BY <1>1
  <2> QED BY <1>1, <1>6, <2>1
<1>9. k \in J
  <2>1. PICK x \in Int : x = f[k - 1]
    BY <1>8
  <2>2. PICK y \in Nat : y = Len(sticks[k])
    BY <1>1
  <2>3. x <= a /\ a < x + y
    BY <1>7, <1>8, <2>1, <2>2
  <2>4. a \in x .. x + y - 1
    BY <2>3
  <2> QED BY <2>1, <2>2, <2>4
<1>10. PICK i \in J : i = find_stick(sticks, a)
  <2>1. J \in SUBSET Nat /\ J # {}
    <3>1. \A j \in 1 .. n : j \in Nat
      BY <1>1
    <3>2. J \subseteq 1 .. n
      OBVIOUS
    <3> HIDE DEF J
    <3> QED BY <1>9, <3>1, <3>2
  <2> HIDE DEF J
  <2>2. Min(J) \in J
    BY <2>1, MinFacts
  <2> QED BY <1>5, <2>1, <2>2
<1>11. a + 1 - f[i - 1] \in 1 .. Len(sticks[i])
  <2>1. PICK x \in Int : x = f[i - 1]
    BY <1>8, <1>10
  <2>2. PICK y \in Nat : y = Len(sticks[i])
    BY <1>1, <1>10
  <2>3. a \in x .. x + y - 1
    BY <1>10, <2>1, <2>2
  <2>4. a + 1 - x \in 1 .. y
    BY <2>3
  <2> QED BY <2>1, <2>2, <2>4
<1> QED BY <1>2, <1>10, <1>11 DEF n

LEMMA FunctionIsList ==
  ASSUME NEW V, NEW n \in Nat, NEW f \in [1 .. n -> V]
  PROVE  f \in Seq(V) /\ Len(f) = n
OBVIOUS

LEMMA ReadType ==
  ASSUME NEW V, NEW sticks \in Seq(Seq(V)), NEW a \in Nat, NEW size \in Int,
         a + size <= RunningSum(StickLengths(sticks))[Len(sticks)]
  PROVE  read_from_sticks(sticks, a, size) \in Seq(V)
<1> DEFINE r == read_from_sticks(sticks, a, size)
           total == RunningSum(StickLengths(sticks))[Len(sticks)]
<1>0. total \in Int
  <2>1. /\ StickLengths(sticks) \in Seq(Int) /\ Len(StickLengths(sticks)) = Len(sticks)
        /\ Len(sticks) \in Nat
    BY StickFacts
  <2>2. Len(sticks) \in 0 .. Len(sticks)
    BY <2>1
  <2> QED BY <2>1, <2>2, SumType
<1> HIDE DEF total
<1>1. ASSUME NEW k \in 1 .. size
      PROVE  LET i == find_stick(sticks, a + k - 1)
             IN  sticks[i][a + k - StickBase(sticks, i)] \in V
  <2> DEFINE i == find_stick(sticks, a + k - 1)
  <2>1. a + k - 1 \in Nat /\ a + k - 1 < total /\ (a + k - 1) + 1 = a + k
    BY <1>0 DEF total
  <2>2. PICK b \in Nat : b = a + k - 1
    BY <2>1
  <2>3. i = find_stick(sticks, b) /\ b + 1 = a + k /\ b < total
    BY <2>1, <2>2
  <2>4. i \in 1 .. Len(sticks) /\ b + 1 - StickBase(sticks, i) \in 1 .. Len(sticks[i])
    BY <2>3, StickFound DEF total
  <2> HIDE DEF i
  <2>5. sticks[i] \in Seq(V)
    BY <2>4, StickFacts
  <2>6. sticks[i][b + 1 - StickBase(sticks, i)] \in V
    BY <2>4, <2>5, ElementOfSeq
  <2>7. b + 1 - StickBase(sticks, i) = a + k - StickBase(sticks, i)
    <3>1. b + 1 = a + k
      BY <2>3
    <3>2. PICK x \in Int : x = StickBase(sticks, i)
      <4>1. /\ StickLengths(sticks) \in Seq(Int) /\ Len(StickLengths(sticks)) = Len(sticks)
            /\ Len(sticks) \in Nat
        BY StickFacts
      <4>2. i - 1 \in 0 .. Len(sticks)
        BY <2>4, <4>1
      <4>3. RunningSum(StickLengths(sticks))[i - 1] \in Int
        BY <4>1, <4>2, SumType
      <4> QED BY <4>3 DEF StickBase, StickLengths
    <3>3. b + 1 - x = a + k - x
      BY <3>1
    <3> QED BY <3>2, <3>3
  <2>8. sticks[i][a + k - StickBase(sticks, i)] \in V
    BY <2>6, <2>7, Zenon
  <2> QED BY <2>8, Zenon DEF i
<1>2. r \in [1 .. size -> V]
  BY <1>1 DEF read_from_sticks
<1> HIDE DEF r
<1>3. PICK n \in Nat : 1 .. size = 1 .. n
  <2>1. CASE size >= 0
    <3>1. size \in Nat
      BY <2>1
    <3> QED BY <3>1, Zenon
  <2>2. CASE size < 0
    <3>1. 1 .. size = 1 .. 0
      BY <2>2
    <3> QED BY <3>1
  <2> QED BY <2>1, <2>2
<1>4. r \in [1 .. n -> V]
  BY <1>2, <1>3
<1>5. r \in Seq(V)
  BY <1>4, FunctionIsList
<1> QED BY <1>5 DEF r

LEMMA WriteType ==
  ASSUME NEW V, NEW sticks \in Seq(Seq(V)), NEW a, NEW bytes \in Seq(V)
  PROVE  LET r == write_to_sticks(sticks, a, bytes)
         IN  /\ r \in Seq(Seq(V)) /\ Len(r) = Len(sticks)
             /\ \A i \in 1 .. Len(sticks) : Len(r[i]) = Len(sticks[i])
<1> DEFINE r == write_to_sticks(sticks, a, bytes)
           byte(i, o) == LET k == StickBase(sticks, i) + o - a
                         IN  IF k \in DOMAIN bytes THEN bytes[k] ELSE sticks[i][o]
           w == [i \in DOMAIN sticks |-> [o \in DOMAIN sticks[i] |-> byte(i, o)]]
<1>0. r = IF find_stick(sticks, a) = 0 THEN sticks ELSE w
  BY Zenon DEF write_to_sticks
<1>1. CASE r = sticks
  BY <1>1
<1>2. CASE r = w
  <2>1. /\ Len(sticks) \in Nat /\ DOMAIN sticks = 1 .. Len(sticks)
        /\ \A i \in 1 .. Len(sticks) : /\ sticks[i] \in Seq(V) /\ Len(sticks[i]) \in Nat
                                       /\ DOMAIN sticks[i] = 1 .. Len(sticks[i])
    BY StickFacts
  <2>2. \A k \in DOMAIN bytes : bytes[k] \in V
    OBVIOUS
  <2>3. ASSUME NEW i \in 1 .. Len(sticks), NEW o \in 1 .. Len(sticks[i]) PROVE byte(i, o) \in V
    <3>1. sticks[i][o] \in V
      BY <2>1, ElementOfSeq
    <3> QED BY <2>2, <3>1
  <2> HIDE DEF byte
  <2>4. ASSUME NEW i \in 1 .. Len(sticks)
        PROVE  r[i] \in Seq(V) /\ Len(r[i]) = Len(sticks[i])
    <3>1. r[i] = [o \in 1 .. Len(sticks[i]) |-> byte(i, o)]
      BY <1>2, <2>1
    <3>2. r[i] \in [1 .. Len(sticks[i]) -> V]
      BY <2>3, <3>1
    <3>3. PICK m \in Nat : m = Len(sticks[i])
      BY <2>1
    <3>4. r[i] \in [1 .. m -> V]
      BY <3>2, <3>3
    <3> QED BY <3>3, <3>4, FunctionIsList
  <2>5. DOMAIN r = 1 .. Len(sticks) /\ r = [i \in 1 .. Len(sticks) |-> r[i]]
    BY <1>2, <2>1
  <2> HIDE DEF r, w
  <2>6. r \in [1 .. Len(sticks) -> Seq(V)]
    BY <2>4, <2>5
  <2> QED BY <2>1, <2>4, <2>6 DEF r
<1> QED BY <1>0, <1>1, <1>2

-----------------------------------------------------------------------------
(* Lists of anything.                                                      *)

\* s is a sequence, of whatever it lists.
IsSeq(s) == s \in Seq({s[i] : i \in DOMAIN s})

LEMMA IsSeqFrom ==
  ASSUME NEW S, NEW s \in Seq(S)
  PROVE  IsSeq(s)
<1> DEFINE T == {s[i] : i \in DOMAIN s}
<1>1. Len(s) \in Nat /\ DOMAIN s = 1 .. Len(s) /\ s = [i \in 1 .. Len(s) |-> s[i]]
  OBVIOUS
<1>2. \A i \in 1 .. Len(s) : s[i] \in T
  BY <1>1
<1> HIDE DEF T
<1>3. s \in [1 .. Len(s) -> T]
  BY <1>1, <1>2
<1>4. s \in Seq(T)
  BY <1>1, <1>3, SeqDef
<1> QED BY <1>4 DEF IsSeq, T

LEMMA SeqFacts ==
  ASSUME NEW s, IsSeq(s)
  PROVE  /\ Len(s) \in Nat /\ DOMAIN s = 1 .. Len(s)
         /\ s = <<>> <=> Len(s) = 0
BY DEF IsSeq

LEMMA SeqAppend ==
  ASSUME NEW s, IsSeq(s), NEW x
  PROVE  /\ IsSeq(Append(s, x)) /\ Len(Append(s, x)) = Len(s) + 1
         /\ \A i \in 1 .. Len(s) : Append(s, x)[i] = s[i]
         /\ Append(s, x)[Len(s) + 1] = x
<1> DEFINE S == {s[i] : i \in DOMAIN s} \cup {x}
<1>1. s \in Seq(S) /\ x \in S
  BY DEF IsSeq
<1> HIDE DEF S
<1>2. /\ Append(s, x) \in Seq(S) /\ Len(Append(s, x)) = Len(s) + 1
      /\ \A i \in 1 .. Len(s) : Append(s, x)[i] = s[i]
      /\ Append(s, x)[Len(s) + 1] = x
  BY <1>1
<1> QED BY <1>2, IsSeqFrom

LEMMA SeqTail ==
  ASSUME NEW s, IsSeq(s), s # <<>>
  PROVE  /\ IsSeq(Tail(s)) /\ Len(Tail(s)) = Len(s) - 1 /\ Len(s) \in Nat \ {0}
         /\ \A i \in 1 .. Len(s) - 1 : Tail(s)[i] = s[i + 1]
         /\ Head(s) = s[1]
<1> DEFINE S == {s[i] : i \in DOMAIN s}
<1>1. s \in Seq(S)
  BY DEF IsSeq
<1> HIDE DEF S
<1>2. /\ Tail(s) \in Seq(S) /\ Len(Tail(s)) = Len(s) - 1 /\ Len(s) \in Nat \ {0}
      /\ \A i \in 1 .. Len(s) - 1 : Tail(s)[i] = s[i + 1]
      /\ Head(s) = s[1]
  BY <1>1
<1> QED BY <1>2, IsSeqFrom

LEMMA SeqPair ==
  ASSUME NEW s, IsSeq(s), NEW x, NEW y
  PROVE  s \o <<x, y>> = Append(Append(s, x), y)
<1> DEFINE S == {s[i] : i \in DOMAIN s} \cup {x, y}
<1>1. s \in Seq(S) /\ x \in S /\ y \in S
  BY DEF IsSeq
<1> HIDE DEF S
<1> QED BY <1>1

LEMMA SeqEmpty == IsSeq(<<>>) /\ Len(<<>>) = 0 /\ DOMAIN <<>> = {}
<1>1. <<>> \in Seq({}) /\ Len(<<>>) = 0 /\ DOMAIN <<>> = {}
  OBVIOUS
<1> QED BY <1>1, IsSeqFrom

LEMMA SeqOne ==
  ASSUME NEW x
  PROVE  IsSeq(<<x>>) /\ Len(<<x>>) = 1 /\ <<x>>[1] = x /\ DOMAIN <<x>> = {1}
<1>1. <<x>> \in Seq({x}) /\ Len(<<x>>) = 1 /\ <<x>>[1] = x /\ DOMAIN <<x>> = 1 .. 1
  OBVIOUS
<1>2. IsSeq(<<x>>)
  BY <1>1, IsSeqFrom
<1> QED BY <1>1, <1>2

LEMMA SeqTwo ==
  ASSUME NEW x, NEW y
  PROVE  /\ IsSeq(<<x, y>>) /\ Len(<<x, y>>) = 2 /\ <<x, y>>[1] = x /\ <<x, y>>[2] = y
         /\ DOMAIN <<x, y>> = {1, 2}
<1>1. /\ <<x, y>> \in Seq({x, y}) /\ Len(<<x, y>>) = 2 /\ <<x, y>>[1] = x
      /\ <<x, y>>[2] = y /\ DOMAIN <<x, y>> = 1 .. 2
  OBVIOUS
<1>2. IsSeq(<<x, y>>)
  BY <1>1, IsSeqFrom
<1> QED BY <1>1, <1>2

-----------------------------------------------------------------------------
(* The segments of one process, when those of another come and go.         *)

\* The segments of a process, one by one.
LEMMA FilterPass ==
  ASSUME NEW segs, IsSeq(segs), NEW p
  PROVE  \E g : /\ filter_process_segments(segs, p) = g[Len(segs)] /\ g[0] = <<>>
                /\ \A i \in 1 .. Len(segs) :
                     g[i] = IF segs[i].pid = p THEN Append(g[i - 1], segs[i]) ELSE g[i - 1]
<1>1. PICK n \in Nat : n = Len(segs)
  BY SeqFacts
<1> DEFINE Step(i, v) == IF segs[i].pid = p THEN Append(v, segs[i]) ELSE v
           P(m, f) == f = [i \in 0 .. m |-> IF i = 0 THEN <<>> ELSE Step(i, f[i - 1])]
           S == {m \in Nat : \E f : P(m, f)}
<1> HIDE DEF Step
<1>3. 0 \in S
  <2> DEFINE f == [i \in 0 .. 0 |-> <<>>]
  <2>1. P(0, f)
    OBVIOUS
  <2> QED BY <2>1
<1>4. ASSUME NEW m \in S PROVE m + 1 \in S
  <2>1. PICK f : P(m, f)
    BY <1>4
  <2>2. m \in Nat
    BY <1>4
  <2> DEFINE x == Step(m + 1, f[m])
             g == [i \in 0 .. m + 1 |-> IF i = m + 1 THEN x ELSE f[i]]
             h == [i \in 0 .. m + 1 |-> IF i = 0 THEN <<>> ELSE Step(i, g[i - 1])]
  <2>3. \A i \in 0 .. m : f[i] = IF i = 0 THEN <<>> ELSE Step(i, f[i - 1])
    BY <2>1, Zenon
  <2>4. ASSUME NEW i \in 0 .. m + 1
        PROVE  g[i] = IF i = 0 THEN <<>> ELSE Step(i, g[i - 1])
    <3>1. CASE i = 0
      BY <2>2, <2>3, <3>1
    <3>2. CASE i \in 1 .. m
      <4>1. g[i] = f[i] /\ g[i - 1] = f[i - 1] /\ i \in 0 .. m /\ i # 0
        BY <2>2, <3>2
      <4>2. f[i] = Step(i, f[i - 1])
        BY <2>3, <4>1, Zenon
      <4> QED BY <4>1, <4>2, Zenon
    <3>3. CASE i = m + 1
      <4>1. g[i] = x /\ i - 1 = m /\ g[m] = f[m] /\ i # 0
        BY <2>2, <3>3
      <4> QED BY <3>3, <4>1
    <3> QED BY <2>2, <3>1, <3>2, <3>3
  <2>5. g = h
    <3> HIDE DEF x
    <3>1. \A i \in 0 .. m + 1 : g[i] = h[i]
      BY <2>4
    <3>2. g = [i \in 0 .. m + 1 |-> g[i]] /\ h = [i \in 0 .. m + 1 |-> h[i]]
      OBVIOUS
    <3> HIDE DEF g, h
    <3> QED BY <3>1, <3>2
  <2>6. P(m + 1, g)
    BY <2>5
  <2> HIDE DEF g, x
  <2>7. \E e : P(m + 1, e)
    <3> HIDE DEF P
    <3> QED BY <2>6
  <2>8. m + 1 \in Nat
    BY <2>2
  <2> HIDE DEF P
  <2> QED BY <2>7, <2>8
<1>5. S = Nat
  <2>1. S \in SUBSET Nat
    OBVIOUS
  <2> HIDE DEF S
  <2> QED BY <1>3, <1>4, <2>1, Induction
<1>6. P(n, CHOOSE f : P(n, f))
  <2>1. \E f : P(n, f)
    BY <1>5
  <2> QED BY <2>1, Zenon
<1>7. PICK g : P(n, g) /\ filter_process_segments(segs, p) = g[n]
  <2>1. filter_process_segments(segs, p) = (CHOOSE f : P(n, f))[n]
    BY <1>1, Zenon DEF filter_process_segments, Step
  <2> QED BY <1>6, <2>1, Zenon
<1>8. \A i \in 0 .. n : g[i] = IF i = 0 THEN <<>> ELSE Step(i, g[i - 1])
  BY <1>7, Zenon
<1>9. /\ 0 \in 0 .. n /\ \A i \in 1 .. n : i \in 0 .. n /\ i # 0
  OBVIOUS
<1>10. g[0] = <<>> /\ \A i \in 1 .. n : g[i] = Step(i, g[i - 1])
  BY <1>8, <1>9, Zenon
<1> QED BY <1>1, <1>7, <1>10 DEF Step

\* g[i] has the segments of p among the first i, for i up to n.
Collects(g, segs, p, n) ==
  /\ g[0] = <<>>
  /\ \A i \in 1 .. n : g[i] = IF segs[i].pid = p THEN Append(g[i - 1], segs[i]) ELSE g[i - 1]

LEMMA FilterCollects ==
  ASSUME NEW segs, IsSeq(segs), NEW p
  PROVE  \E g : filter_process_segments(segs, p) = g[Len(segs)] /\ Collects(g, segs, p, Len(segs))
BY FilterPass DEF Collects

LEMMA FilterEmpty ==
  ASSUME NEW p
  PROVE  filter_process_segments(<<>>, p) = <<>>
<1>1. IsSeq(<<>>) /\ Len(<<>>) = 0
  BY SeqEmpty
<1>2. PICK g : /\ filter_process_segments(<<>>, p) = g[Len(<<>>)]
               /\ Collects(g, <<>>, p, Len(<<>>))
  BY <1>1, FilterCollects
<1> QED BY <1>1, <1>2 DEF Collects

LEMMA FilterIsSeq ==
  ASSUME NEW segs, IsSeq(segs), NEW p
  PROVE  IsSeq(filter_process_segments(segs, p))
<1> DEFINE S == {segs[i] : i \in DOMAIN segs}
<1>1. segs \in Seq(S)
  BY DEF IsSeq
<1> HIDE DEF S
<1>2. filter_process_segments(segs, p) \in Seq(S)
  BY <1>1, FilterFacts
<1> QED BY <1>2, IsSeqFrom

\* What is collected from the first m segments depends on nothing else.
LEMMA CollectsSame ==
  ASSUME NEW g, NEW h, NEW s, NEW t, NEW p, NEW n \in Nat, Collects(g, s, p, n),
         Collects(h, t, p, n), \A i \in 1 .. n : s[i] = t[i]
  PROVE  \A m \in 0 .. n : g[m] = h[m]
<1> DEFINE T == {m \in Nat : m <= n => g[m] = h[m]}
<1>1. 0 \in T
  BY DEF Collects
<1>2. ASSUME NEW m \in T PROVE m + 1 \in T
  <2> SUFFICES ASSUME m + 1 <= n PROVE g[m + 1] = h[m + 1]
    OBVIOUS
  <2>1. m \in Nat /\ m + 1 \in 1 .. n /\ (m + 1) - 1 = m /\ g[m] = h[m]
    BY <1>2
  <2>2. PICK i \in 1 .. n : i = m + 1 /\ i - 1 = m
    BY <2>1
  <2>3. /\ g[i] = IF s[i].pid = p THEN Append(g[i - 1], s[i]) ELSE g[i - 1]
        /\ h[i] = IF t[i].pid = p THEN Append(h[i - 1], t[i]) ELSE h[i - 1]
        /\ s[i] = t[i]
    BY DEF Collects
  <2> QED BY <2>1, <2>2, <2>3
<1>3. T = Nat
  <2>1. T \in SUBSET Nat
    OBVIOUS
  <2> HIDE DEF T
  <2> QED BY <1>1, <1>2, <2>1, Induction
<1> QED BY <1>3

LEMMA FilterAppend ==
  ASSUME NEW segs, IsSeq(segs), NEW x, NEW p
  PROVE  filter_process_segments(Append(segs, x), p) =
           IF x.pid = p THEN Append(filter_process_segments(segs, p), x)
           ELSE filter_process_segments(segs, p)
<1>1. PICK t : t = Append(segs, x)
  OBVIOUS
<1>2. PICK n \in Nat : n = Len(segs)
  BY SeqFacts
<1>3. IsSeq(t) /\ Len(t) = n + 1 /\ (\A i \in 1 .. n : t[i] = segs[i]) /\ t[n + 1] = x
  BY <1>1, <1>2, SeqAppend
<1>4. PICK g : filter_process_segments(segs, p) = g[n] /\ Collects(g, segs, p, n)
  BY <1>2, FilterCollects
<1>5. PICK h : filter_process_segments(t, p) = h[n + 1] /\ Collects(h, t, p, n + 1)
  BY <1>3, FilterCollects
<1>6. Collects(h, t, p, n)
  BY <1>5 DEF Collects
<1>7. g[n] = h[n]
  <2>1. \A m \in 0 .. n : g[m] = h[m]
    BY <1>3, <1>4, <1>6, CollectsSame
  <2> QED BY <2>1
<1>8. h[n + 1] = IF x.pid = p THEN Append(h[n], x) ELSE h[n]
  <2>1. PICK i \in 1 .. n + 1 : i = n + 1 /\ i - 1 = n
    OBVIOUS
  <2>2. h[i] = IF t[i].pid = p THEN Append(h[i - 1], t[i]) ELSE h[i - 1]
    BY <1>5 DEF Collects
  <2> QED BY <1>3, <2>1, <2>2
<1> QED BY <1>1, <1>4, <1>5, <1>7, <1>8

\* One segment of another process is removed.
LEMMA FilterListRemove ==
  ASSUME NEW segs, IsSeq(segs), NEW j
  PROVE  /\ IsSeq(ListRemove(segs, j))
         /\ \A p : (j \in DOMAIN segs => segs[j].pid # p) =>
              filter_process_segments(ListRemove(segs, j), p) = filter_process_segments(segs, p)
<1>1. CASE j \notin DOMAIN segs
  BY <1>1 DEF ListRemove
<1>2. CASE j \in DOMAIN segs
  <2>1. PICK t : t = ListRemove(segs, j)
    OBVIOUS
  <2>2. PICK n \in Nat : n = Len(segs) /\ DOMAIN segs = 1 .. n
    BY SeqFacts
  <2>3. /\ IsSeq(t) /\ Len(t) = n - 1
        /\ \A k \in 1 .. n - 1 : t[k] = IF k < j THEN segs[k] ELSE segs[k + 1]
    <3> DEFINE S == {segs[i] : i \in DOMAIN segs}
    <3>1. segs \in Seq(S)
      BY DEF IsSeq
    <3> HIDE DEF S
    <3>2. /\ RemoveAt(segs, j) \in Seq(S) /\ Len(RemoveAt(segs, j)) = n - 1
          /\ \A k \in 1 .. n - 1 :
               RemoveAt(segs, j)[k] = IF k < j THEN segs[k] ELSE segs[k + 1]
      BY <1>2, <2>2, <3>1, RemoveAtFacts
    <3>3. t = RemoveAt(segs, j)
      BY <1>2, <2>1 DEF ListRemove
    <3> QED BY <3>2, <3>3, IsSeqFrom
  <2>4. ASSUME NEW p, segs[j].pid # p
        PROVE  filter_process_segments(t, p) = filter_process_segments(segs, p)
    <3>1. PICK g : filter_process_segments(segs, p) = g[n] /\ Collects(g, segs, p, n)
      BY <2>2, FilterCollects
    <3>2. PICK h : filter_process_segments(t, p) = h[n - 1] /\ Collects(h, t, p, n - 1)
      BY <2>3, FilterCollects
    <3> DEFINE T == {m \in Nat : m <= n - 1 => h[m] = IF m < j THEN g[m] ELSE g[m + 1]}
    <3>3. 0 \in T
      BY <1>2, <2>2, <3>1, <3>2 DEF Collects
    <3>4. ASSUME NEW m \in T PROVE m + 1 \in T
      <4> SUFFICES ASSUME m + 1 <= n - 1
                   PROVE  h[m + 1] = IF m + 1 < j THEN g[m + 1] ELSE g[m + 2]
        OBVIOUS
      <4>1. m \in Nat /\ h[m] = IF m < j THEN g[m] ELSE g[m + 1]
        BY <3>4
      <4>2. PICK i \in 1 .. n - 1 : i = m + 1 /\ i - 1 = m
        BY <4>1
      <4>3. PICK x : x = t[i]
        OBVIOUS
      <4>4. h[i] = IF x.pid = p THEN Append(h[m], x) ELSE h[m]
        BY <3>2, <4>2, <4>3 DEF Collects
      <4>5. CASE i < j
        <5>0. /\ \A k \in 1 .. n - 1 : t[k] = IF k < j THEN segs[k] ELSE segs[k + 1]
              /\ j \in 1 .. n
          BY <1>2, <2>2, <2>3
        <5>1. x = segs[i] /\ i \in 1 .. n /\ m < j
          <6>1. t[i] = segs[i]
            BY <4>2, <4>5, <5>0
          <6>2. i \in 1 .. n /\ m < j
            BY <2>2, <4>1, <4>2, <4>5, <5>0
          <6> QED BY <4>3, <6>1, <6>2
        <5>2. g[i] = IF x.pid = p THEN Append(g[i - 1], x) ELSE g[i - 1]
          BY <3>1, <5>1 DEF Collects
        <5> QED BY <4>1, <4>2, <4>4, <4>5, <5>1, <5>2
      <4>6. CASE ~(i < j)
        <5>1. PICK l \in 1 .. n : l = i + 1 /\ l - 1 = i /\ l = m + 2
          BY <4>2
        <5>2. x = segs[l]
          BY <2>3, <4>3, <4>6, <5>1
        <5>3. g[l] = IF x.pid = p THEN Append(g[i], x) ELSE g[i]
          BY <3>1, <5>1, <5>2 DEF Collects
        <5>4. h[m] = g[i]
          <6>1. CASE m < j
            <7>1. i = j /\ i \in 1 .. n
              BY <1>2, <2>2, <4>1, <4>2, <4>6, <6>1
            <7>2. g[i] = IF segs[i].pid = p THEN Append(g[i - 1], segs[i]) ELSE g[i - 1]
              BY <3>1, <7>1 DEF Collects
            <7> QED BY <2>4, <4>1, <4>2, <6>1, <7>1, <7>2
          <6>2. CASE ~(m < j)
            BY <4>1, <4>2, <6>2
          <6> QED BY <6>1, <6>2
        <5> QED BY <4>2, <4>4, <4>6, <5>1, <5>3, <5>4
      <4> QED BY <4>5, <4>6
    <3>5. T = Nat
      <4>1. T \in SUBSET Nat
        OBVIOUS
      <4> HIDE DEF T
      <4> QED BY <3>3, <3>4, <4>1, Induction
    <3>6. h[n - 1] = IF n - 1 < j THEN g[n - 1] ELSE g[n]
      <4>1. PICK m \in Nat : m = n - 1 /\ m + 1 = n
        BY <1>2, <2>2
      <4>2. m \in T
        BY <3>5
      <4> QED BY <4>1, <4>2
    <3>7. CASE n - 1 < j
      <4>1. j = n /\ n \in 1 .. n
        BY <1>2, <2>2, <3>7
      <4>2. g[n] = IF segs[n].pid = p THEN Append(g[n - 1], segs[n]) ELSE g[n - 1]
        BY <3>1, <4>1 DEF Collects
      <4> QED BY <2>4, <3>1, <3>2, <3>6, <3>7, <4>1, <4>2
    <3>8. CASE ~(n - 1 < j)
      BY <3>1, <3>2, <3>6, <3>8
    <3> QED BY <3>7, <3>8
  <2> QED BY <1>2, <2>1, <2>3, <2>4
<1> QED BY <1>1, <1>2
=============================================================================
