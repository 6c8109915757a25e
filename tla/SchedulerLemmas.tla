--------------------------- MODULE SchedulerLemmas ---------------------------
(***************************************************************************)
(* Facts about the operators of Scheduler that every proof about it needs, *)
(* for any set of processes, CPUs, IO interfaces and levels.               *)
(***************************************************************************)
EXTENDS SchedulerInv, FiniteSetTheorems, WellFoundedInduction, TLAPS

-----------------------------------------------------------------------------
(* What the critical sections of ready_queue.c do to the set of queued     *)
(* processes, for any number of levels.                                    *)
Appended(q, k, p) == [q EXCEPT ![k] = Append(@, p)]
Beheaded(q, k) == [q EXCEPT ![k] = Tail(@)]
Without(q, k, n) == [q EXCEPT ![k] = RemoveAt(@, n)]

\* list_add (in transition_to_ready): exactly p joins the queued processes,
\* and a process that was not queued is not queued twice.
LEMMA AppendQueued ==
  ASSUME NEW S, NEW q \in [Level -> Seq(S)], NEW k \in Level, NEW p \in S,
         NEW r, r = Appended(q, k, p)
  PROVE  /\ r \in [Level -> Seq(S)]
         /\ \A x : InQueues(r, x) <=> InQueues(q, x) \/ x = p
         /\ NoRepeats(q) /\ ~InQueues(q, p) => NoRepeats(r)
<1>1. /\ r \in [Level -> Seq(S)]
      /\ r[k] = Append(q[k], p)
      /\ \A l \in Level : l # k => r[l] = q[l]
  BY DEF Appended
<1>2. q[k] \in Seq(S) /\ Len(q[k]) \in Nat /\ DOMAIN q[k] = 1 .. Len(q[k])
  OBVIOUS
<1>3. /\ DOMAIN r[k] = 1 .. (Len(q[k]) + 1)
      /\ r[k][Len(q[k]) + 1] = p
      /\ \A i \in DOMAIN q[k] : r[k][i] = q[k][i]
  BY <1>1, <1>2
<1>4. \A x : InQueues(r, x) <=> InQueues(q, x) \/ x = p
  <2> SUFFICES ASSUME NEW x PROVE InQueues(r, x) <=> InQueues(q, x) \/ x = p
    OBVIOUS
  <2>1. ASSUME InQueues(r, x) PROVE InQueues(q, x) \/ x = p
    <3>0. PICK l \in Level : \E i \in DOMAIN r[l] : r[l][i] = x
      BY <2>1 DEF InQueues
    <3>1. PICK i \in DOMAIN r[l] : r[l][i] = x
      BY <3>0
    <3>2. CASE l # k
      BY <3>1, <3>2, <1>1 DEF InQueues
    <3>3. CASE l = k
      <4>1. i = Len(q[k]) + 1 \/ i \in DOMAIN q[k]
        BY <3>1, <3>3, <1>2, <1>3
      <4> QED BY <4>1, <3>1, <3>3, <1>3 DEF InQueues
    <3> QED BY <3>2, <3>3
  <2>2. ASSUME InQueues(q, x) PROVE InQueues(r, x)
    <3>0. PICK l \in Level : \E i \in DOMAIN q[l] : q[l][i] = x
      BY <2>2 DEF InQueues
    <3>1. PICK i \in DOMAIN q[l] : q[l][i] = x
      BY <3>0
    <3>2. i \in DOMAIN r[l] /\ r[l][i] = x
      BY <3>1, <1>1, <1>2, <1>3 DEF Appended
    <3> QED BY <3>2 DEF InQueues
  <2>3. InQueues(r, p)
    BY <1>2, <1>3 DEF InQueues
  <2> QED BY <2>1, <2>2, <2>3
<1>5. ASSUME NoRepeats(q), ~InQueues(q, p) PROVE NoRepeats(r)
  <2> SUFFICES ASSUME NEW l \in Level, NEW m \in Level,
                      NEW i \in DOMAIN r[l], NEW j \in DOMAIN r[m],
                      r[l][i] = r[m][j]
               PROVE  l = m /\ i = j
    BY DEF NoRepeats
  <2>1. (i \in DOMAIN q[l] /\ r[l][i] = q[l][i]) \/
        (l = k /\ i = Len(q[k]) + 1 /\ r[l][i] = p)
    BY <1>1, <1>2, <1>3 DEF Appended
  <2>2. (j \in DOMAIN q[m] /\ r[m][j] = q[m][j]) \/
        (m = k /\ j = Len(q[k]) + 1 /\ r[m][j] = p)
    BY <1>1, <1>2, <1>3 DEF Appended
  <2>3. \A n \in Level : \A h \in DOMAIN q[n] : q[n][h] # p
    BY <1>5 DEF InQueues
  <2> QED BY <2>1, <2>2, <2>3, <1>5 DEF NoRepeats
<1> QED BY <1>1, <1>4, <1>5

\* list_remove(queue, 0) (in transition_take_ready_next_no_mutex): the head
\* leaves the queued processes and everybody else stays.
LEMMA TakeHeadQueued ==
  ASSUME NEW S, NEW q \in [Level -> Seq(S)], NEW k \in Level,
         q[k] # <<>>, NoRepeats(q), NEW r, r = Beheaded(q, k)
  PROVE  /\ r \in [Level -> Seq(S)]
         /\ Head(q[k]) \in S /\ InQueues(q, Head(q[k]))
         /\ \A x : InQueues(r, x) <=> InQueues(q, x) /\ x # Head(q[k])
         /\ NoRepeats(r)
<1>1. /\ r \in [Level -> Seq(S)]
      /\ r[k] = Tail(q[k])
      /\ \A l \in Level : l # k => r[l] = q[l]
  BY DEF Beheaded
<1>2. /\ q[k] \in Seq(S) /\ Len(q[k]) \in Nat /\ Len(q[k]) >= 1
      /\ DOMAIN q[k] = 1 .. Len(q[k])
      /\ Head(q[k]) = q[k][1] /\ Head(q[k]) \in S
  OBVIOUS
<1>3. /\ DOMAIN r[k] = 1 .. (Len(q[k]) - 1)
      /\ \A i \in DOMAIN r[k] : i + 1 \in DOMAIN q[k] /\ r[k][i] = q[k][i + 1]
  BY <1>1, <1>2
<1>4. InQueues(q, Head(q[k]))
  BY <1>2 DEF InQueues
<1>5. \A x : InQueues(r, x) <=> InQueues(q, x) /\ x # Head(q[k])
  <2> SUFFICES ASSUME NEW x
               PROVE  InQueues(r, x) <=> InQueues(q, x) /\ x # Head(q[k])
    OBVIOUS
  <2>1. ASSUME InQueues(r, x) PROVE InQueues(q, x) /\ x # Head(q[k])
    <3>0. PICK l \in Level : \E i \in DOMAIN r[l] : r[l][i] = x
      BY <2>1 DEF InQueues
    <3>1. PICK i \in DOMAIN r[l] : r[l][i] = x
      BY <3>0
    <3>2. CASE l # k
      <4>1. i \in DOMAIN q[l] /\ q[l][i] = x
        BY <3>1, <3>2, <1>1
      <4>2. x # q[k][1]
        BY <4>1, <3>2, <1>2 DEF NoRepeats
      <4> QED BY <4>1, <4>2, <1>2 DEF InQueues
    <3>3. CASE l = k
      <4>1. i \in Nat /\ i >= 1 /\ i + 1 \in DOMAIN q[k] /\ q[k][i + 1] = x
        BY <3>1, <3>3, <1>2, <1>3
      <4>2. x # q[k][1]
        BY <4>1, <1>2 DEF NoRepeats
      <4> QED BY <4>1, <4>2, <1>2 DEF InQueues
    <3> QED BY <3>2, <3>3
  <2>2. ASSUME InQueues(q, x), x # Head(q[k]) PROVE InQueues(r, x)
    <3>0. PICK l \in Level : \E i \in DOMAIN q[l] : q[l][i] = x
      BY <2>2 DEF InQueues
    <3>1. PICK i \in DOMAIN q[l] : q[l][i] = x
      BY <3>0
    <3>2. CASE l # k
      BY <3>1, <3>2, <1>1 DEF InQueues
    <3>3. CASE l = k
      <4>1. i \in Nat /\ i >= 2 /\ i <= Len(q[k])
        BY <3>1, <3>3, <2>2, <1>2
      <4>2. i - 1 \in DOMAIN r[k] /\ (i - 1) + 1 = i
        BY <4>1, <1>2, <1>3
      <4>3. r[k][i - 1] = x
        BY <4>2, <1>3, <3>1, <3>3
      <4> QED BY <4>2, <4>3 DEF InQueues
    <3> QED BY <3>2, <3>3
  <2> QED BY <2>1, <2>2
<1>6. NoRepeats(r)
  <2> SUFFICES ASSUME NEW l \in Level, NEW m \in Level,
                      NEW i \in DOMAIN r[l], NEW j \in DOMAIN r[m],
                      r[l][i] = r[m][j]
               PROVE  l = m /\ i = j
    BY DEF NoRepeats
  <2> DEFINE a == IF l = k THEN i + 1 ELSE i
             b == IF m = k THEN j + 1 ELSE j
  <2>1. a \in DOMAIN q[l] /\ q[l][a] = r[l][i]
    BY <1>1, <1>3
  <2>2. b \in DOMAIN q[m] /\ q[m][b] = r[m][j]
    BY <1>1, <1>3
  <2>3. l = m /\ a = b
    BY <2>1, <2>2 DEF NoRepeats
  <2>4. CASE l = k
    <3>1. i \in Nat /\ j \in Nat
      BY <2>3, <2>4, <1>3, <1>2
    <3> QED BY <2>3, <2>4, <3>1
  <2>5. CASE l # k
    BY <2>3, <2>5
  <2> QED BY <2>4, <2>5
<1> QED BY <1>1, <1>2, <1>4, <1>5, <1>6

\* list_remove_element (in transition_take_ready): the entry n of level k
\* leaves the queued processes and everybody else stays.
LEMMA TakeEntryQueued ==
  ASSUME NEW S, NEW q \in [Level -> Seq(S)], NEW k \in Level,
         NEW n \in DOMAIN q[k], NoRepeats(q), NEW r, r = Without(q, k, n)
  PROVE  /\ r \in [Level -> Seq(S)]
         /\ q[k][n] \in S /\ InQueues(q, q[k][n])
         /\ \A x : InQueues(r, x) <=> InQueues(q, x) /\ x # q[k][n]
         /\ NoRepeats(r)
         /\ \A l \in Level : \A i \in DOMAIN r[l] :
              \E j \in DOMAIN q[l] : r[l][i] = q[l][j]
<1>0. PICK s \in Seq(S) : s = q[k]
  OBVIOUS
<1>1. n \in 1 .. Len(s) /\ Len(s) \in Nat /\ DOMAIN s = 1 .. Len(s)
  BY <1>0
<1>2. PICK t : t = RemoveAt(s, n)
  OBVIOUS
<1>3. /\ t \in Seq(S) /\ Len(t) = Len(s) - 1 /\ DOMAIN t = 1 .. Len(s) - 1
      /\ \A i \in DOMAIN t : t[i] = IF i < n THEN s[i] ELSE s[i + 1]
  <2>0. SubSeq(s, 1, n - 1) \in Seq(S) /\ SubSeq(s, n + 1, Len(s)) \in Seq(S)
    BY <1>1
  <2>1. PICK x \in Seq(S) : x = SubSeq(s, 1, n - 1)
    BY <2>0
  <2>2. PICK y \in Seq(S) : y = SubSeq(s, n + 1, Len(s))
    BY <2>0
  <2>3. Len(x) = n - 1 /\ \A i \in 1 .. n - 1 : x[i] = s[i]
    BY <2>1, <1>1
  <2>4. Len(y) = Len(s) - n /\ \A i \in 1 .. Len(s) - n : y[i] = s[i + n]
    BY <2>2, <1>1
  <2>5. t = x \o y
    BY <2>1, <2>2, <1>2 DEF RemoveAt
  <2>6. t \in Seq(S) /\ Len(t) = Len(x) + Len(y)
    BY <2>5
  <2>7. Len(t) = Len(s) - 1
    BY <2>3, <2>4, <2>6, <1>1
  <2>8. ASSUME NEW i \in 1 .. Len(s) - 1
        PROVE  t[i] = IF i < n THEN s[i] ELSE s[i + 1]
    <3>1. CASE i < n
      <4>1. i \in 1 .. Len(x) /\ i \in 1 .. n - 1
        BY <3>1, <2>3, <1>1
      <4>2. t[i] = x[i]
        BY <4>1, <2>5
      <4> QED BY <4>1, <4>2, <2>3, <3>1
    <3>2. CASE ~(i < n)
      <4>1. i - (n - 1) \in 1 .. Len(s) - n /\ (i - (n - 1)) + n = i + 1
        BY <3>2, <1>1
      <4>2. i \in Len(x) + 1 .. Len(x) + Len(y) /\ i - Len(x) = i - (n - 1)
        BY <3>2, <2>3, <2>4, <1>1
      <4>3. t[i] = y[i - Len(x)]
        BY <4>2, <2>5
      <4> QED BY <4>1, <4>2, <4>3, <2>4, <3>2
    <3> QED BY <3>1, <3>2
  <2>9. DOMAIN t = 1 .. Len(s) - 1
    BY <2>6, <2>7
  <2> QED BY <2>6, <2>7, <2>8, <2>9
<1>4. /\ r \in [Level -> Seq(S)] /\ r[k] = t
      /\ \A l \in Level : l # k => r[l] = q[l]
  BY <1>0, <1>2, <1>3 DEF Without
\* Where the entry i of r[l] was before.
<1> DEFINE Old(l, i) == IF l = k /\ ~(i < n) THEN i + 1 ELSE i
<1>5. ASSUME NEW l \in Level, NEW i \in DOMAIN r[l]
      PROVE  /\ Old(l, i) \in DOMAIN q[l] /\ r[l][i] = q[l][Old(l, i)]
             /\ ~(l = k /\ Old(l, i) = n)
  <2>1. CASE l # k
    BY <2>1, <1>4, <1>5
  <2>2. CASE l = k
    <3>1. i \in 1 .. Len(s) - 1
      BY <2>2, <1>3, <1>4, <1>5
    <3>2. i \in DOMAIN s /\ i + 1 \in DOMAIN s /\ (~(i < n) => i + 1 # n)
      BY <3>1, <1>1
    <3>3. r[l][i] = IF i < n THEN s[i] ELSE s[i + 1]
      BY <3>1, <2>2, <1>3, <1>4
    <3>4. i < n => i # n
      BY <3>1, <1>1
    <3> QED BY <3>2, <3>3, <3>4, <2>2, <1>0
  <2> QED BY <2>1, <2>2
<1>6. q[k][n] \in S /\ InQueues(q, q[k][n])
  BY <1>0, <1>1 DEF InQueues
<1>7. \A x : InQueues(r, x) <=> InQueues(q, x) /\ x # q[k][n]
  <2> SUFFICES ASSUME NEW x
               PROVE  InQueues(r, x) <=> InQueues(q, x) /\ x # q[k][n]
    OBVIOUS
  <2>1. ASSUME InQueues(r, x) PROVE InQueues(q, x) /\ x # q[k][n]
    <3>0. PICK l \in Level : \E i \in DOMAIN r[l] : r[l][i] = x
      BY <2>1 DEF InQueues
    <3>1. PICK i \in DOMAIN r[l] : r[l][i] = x
      BY <3>0
    <3>2. PICK j \in DOMAIN q[l] : x = q[l][j] /\ ~(l = k /\ j = n)
      BY <3>1, <1>5
    <3> QED BY <3>2 DEF InQueues, NoRepeats
  <2>2. ASSUME InQueues(q, x), x # q[k][n] PROVE InQueues(r, x)
    <3>0. PICK l \in Level : \E i \in DOMAIN q[l] : q[l][i] = x
      BY <2>2 DEF InQueues
    <3>1. PICK i \in DOMAIN q[l] : q[l][i] = x
      BY <3>0
    <3>2. CASE l # k
      BY <3>1, <3>2, <1>4 DEF InQueues
    <3>3. CASE l = k
      <4>1. i \in 1 .. Len(s) /\ i # n /\ s[i] = x
        BY <3>1, <3>3, <2>2, <1>0, <1>1
      <4>2. CASE i < n
        <5>1. i \in DOMAIN t
          BY <4>1, <4>2, <1>1, <1>3
        <5> QED BY <5>1, <4>1, <4>2, <3>3, <1>3, <1>4 DEF InQueues
      <4>3. CASE ~(i < n)
        <5>1. i - 1 \in 1 .. Len(s) - 1 /\ ~(i - 1 < n) /\ (i - 1) + 1 = i
          BY <4>1, <4>3, <1>1
        <5>2. t[i - 1] = x
          BY <5>1, <4>1, <1>3
        <5> QED BY <5>1, <5>2, <3>3, <1>3, <1>4 DEF InQueues
      <4> QED BY <4>2, <4>3
    <3> QED BY <3>2, <3>3
  <2> QED BY <2>1, <2>2
<1>8. NoRepeats(r)
  <2> SUFFICES ASSUME NEW l \in Level, NEW m \in Level,
                      NEW i \in DOMAIN r[l], NEW j \in DOMAIN r[m],
                      r[l][i] = r[m][j]
               PROVE  l = m /\ i = j
    BY DEF NoRepeats
  <2>1. Old(l, i) \in DOMAIN q[l] /\ Old(m, j) \in DOMAIN q[m]
        /\ q[l][Old(l, i)] = q[m][Old(m, j)]
    BY <1>5
  <2>2. l = m /\ Old(l, i) = Old(m, j)
    <3> HIDE DEF Old
    <3> QED BY <2>1 DEF NoRepeats
  <2>3. CASE l = k
    <3>1. i \in Int /\ j \in Int
      BY <2>2, <2>3, <1>3, <1>4
    <3> QED BY <2>2, <2>3, <3>1, <1>1
  <2>4. CASE l # k
    BY <2>2, <2>4
  <2> QED BY <2>3, <2>4
<1>9. \A l \in Level : \A i \in DOMAIN r[l] :
        \E j \in DOMAIN q[l] : r[l][i] = q[l][j]
  <2> TAKE l \in Level
  <2> TAKE i \in DOMAIN r[l]
  <2>1. Old(l, i) \in DOMAIN q[l] /\ r[l][i] = q[l][Old(l, i)]
    BY <1>5
  <2> HIDE DEF Old
  <2> QED BY <2>1
<1> QED BY <1>4, <1>6, <1>7, <1>8, <1>9

-----------------------------------------------------------------------------
(* The operators of Scheduler.                                             *)

\* A set of natural numbers that is not empty has a least element.
LEMMA LeastNat ==
  ASSUME NEW S, S \subseteq Nat, S # {}
  PROVE  \E n \in S : \A m \in S : n <= m
<1> DEFINE R == OpToRel(<, Nat)
<1>1. \E n \in S : \A m \in S : ~ (<<m, n>> \in R)
  BY NatLessThanWellFounded, WFMin, Zenon
<1>2. R = {ss \in Nat \X Nat : ss[1] < ss[2]}
  BY Zenon DEF OpToRel
<1>3. \A m, n \in Nat : m < n => <<m, n>> \in R
  <2> HIDE DEF R
  <2> QED BY <1>2
<1>4. PICK n \in S : \A m \in S : ~ (<<m, n>> \in R)
  BY <1>1
<1>5. \A m \in S : n <= m
  <2> HIDE DEF R
  <2> TAKE m \in S
  <2>1. m \in Nat /\ n \in Nat /\ ~ (<<m, n>> \in R)
    BY <1>4
  <2>2. ~ (m < n)
    BY <2>1, <1>3
  <2> QED BY <2>1, <2>2
<1> QED BY <1>5

\* INT_MAX, kept opaque in the proofs, is a natural number.
LEMMA IntMaxNat == INT_MAX \in Nat
BY SMT DEF INT_MAX

\* Priorities are natural numbers.
LEMMA PriorityNat == Priority \subseteq Nat
BY PriorityAssumption, IntMaxNat

\* A set of natural numbers below INT_MAX that is not empty has a greatest
\* element.
LEMMA GreatestInt ==
  ASSUME NEW S, S \subseteq 0 .. INT_MAX, S # {}
  PROVE  \E n \in S : \A m \in S : m <= n
<1> DEFINE T == {k \in Nat : \E m \in S : k = INT_MAX - m}
<1>1. PICK m0 \in S : TRUE
  OBVIOUS
<1>2. \A m \in S : INT_MAX - m \in T
  BY IntMaxNat
<1>3. T \subseteq Nat /\ T # {}
  BY <1>1, <1>2
<1>4. PICK k \in T : \A m \in T : k <= m
  BY <1>3, LeastNat, Zenon
<1>5. PICK n \in S : k = INT_MAX - n
  BY <1>4
<1>6. \A m \in S : INT_MAX - n <= INT_MAX - m
  BY <1>2, <1>4, <1>5
<1>7. \A m \in S : m <= n
  BY <1>6, IntMaxNat
<1> QED BY <1>7

\* update_lowest_exec_priority always finds a worst priority.
LEMMA LowestNat ==
  ASSUME NEW e, NEW prio \in [Proc -> Priority]
  PROVE  Lowest(e, prio) \in Nat
<1> DEFINE found == {0} \cup {prio[p] : p \in {q \in Proc : e[q] > 0}}
<1>1. found \subseteq 0 .. INT_MAX /\ found # {}
  BY PriorityAssumption, IntMaxNat
<1>2. \E n \in found : \A m \in found : m <= n
  BY <1>1, GreatestInt, Zenon
<1>3. Lowest(e, prio) = CHOOSE n \in found : \A m \in found : m <= n
  BY DEF Lowest
<1>4. Lowest(e, prio) \in found
  <2> HIDE DEF found
  <2> QED BY <1>2, <1>3
<1> QED BY <1>1, <1>4, IntMaxNat

\* The first level that is not empty exists, and there is only one.
LEMMA FirstLevel ==
  ASSUME NEW q
  PROVE  /\ ~AllEmpty(q) => \E l \in Level : IsFirstLevel(q, l)
         /\ \A k, l \in Level : IsFirstLevel(q, k) /\ IsFirstLevel(q, l) => k = l
<1>1. ASSUME ~AllEmpty(q) PROVE \E l \in Level : IsFirstLevel(q, l)
  <2> DEFINE S == {l \in Level : q[l] # <<>>}
  <2>1. S \subseteq Nat /\ S # {}
    BY <1>1, LevelsAssumption DEF AllEmpty, Level
  <2>2. PICK n \in S : \A m \in S : n <= m
    BY <2>1, LeastNat, Zenon
  <2> QED BY <2>2, LevelsAssumption DEF IsFirstLevel, Level
<1>2. \A k, l \in Level : IsFirstLevel(q, k) /\ IsFirstLevel(q, l) => k = l
  BY LevelsAssumption DEF IsFirstLevel, Level
<1> QED BY <1>1, <1>2

-----------------------------------------------------------------------------
(* A step of one thread that moves the processes of P only.                *)

\* The threads are pairwise different.
LEMMA ThreadFacts ==
  /\ \A c \in CPU : c \in Thread /\ c # NoThread /\ c \notin IO
                    /\ c # Suspender /\ c # Resumer /\ c # Resumption
  /\ \A d \in IO : d \in Thread /\ d # NoThread /\ d \notin CPU
                   /\ d # Suspender /\ d # Resumer /\ d # Resumption
  /\ {Suspender, Resumer, Resumption} \subseteq Thread
  /\ Suspender # Resumer /\ Suspender # Resumption /\ Resumer # Resumption
  /\ NoThread \notin Thread /\ NoProc \notin Proc
BY ThreadAssumption DEF Thread

SameProcess(q) ==
  /\ state'[q] = state[q] /\ lock_owner'[q] = lock_owner[q]
  /\ exec'[q] = exec[q] /\ block'[q] = block[q]
  /\ susp_block'[q] = susp_block[q] /\ susp_ready'[q] = susp_ready[q]
  /\ Queued(q)' <=> Queued(q)

\* create_resumption_routine_thread may start the sweep in any step.
SameThread(u) ==
  /\ \/ pc'[u] = pc[u]
     \/ u = Resumption /\ pc[u] = "idle" /\ pc'[u] = "sweep"
  /\ target'[u] = target[u]
  /\ u \in CPU =>
       pcb'[u] = pcb[u] /\ reason'[u] = reason[u] /\ io'[u] = io[u]

Frame(t, P) ==
  /\ \A u \in Thread \ {t} : SameThread(u)
  /\ \A q \in Proc \ P : SameProcess(q)
  /\ \A q \in P : \A u \in Thread \ {t} : ~Owns(u, q)

\* A thread that did not move keeps what it owns, and what it holds.
LEMMA OthersOwn ==
  ASSUME NEW u \in Thread, ThreadOK(u), SameThread(u)
  PROVE  \A q \in Proc : /\ Owns(u, q)' <=> Owns(u, q)
                         /\ Holds(u, q)' <=> Holds(u, q)
<1>1. CASE u # Resumption
  BY <1>1 DEF SameThread, Owns, Holds, HeldByCpu, Carries
<1>2. CASE u = Resumption
  BY <1>2, ThreadFacts
     DEF SameThread, Owns, Holds, HeldByCpu, Carries, ThreadOK, WorkerControl
<1> QED BY <1>1, <1>2

\* A thread that did not move still knows its processes if nobody touched
\* what it owns.
LEMMA OthersOK ==
  ASSUME NEW u \in Thread, ThreadOK(u), SameThread(u), TypeOK,
         \A q \in Proc : Owns(u, q) => SameProcess(q)
  PROVE  ThreadOK(u)'
<1>0. /\ u \in CPU => pcb[u] \in Proc \cup {NoProc}
      /\ target[u] \in Proc \cup {NoProc}
  BY DEF TypeOK
<1>1. CASE u \in CPU
  <2>0. u # Resumption /\ u \notin IO /\ u \notin {Suspender, Resumer, Resumption}
    BY <1>1, ThreadFacts
  <2>1. /\ pc'[u] = pc[u] /\ target'[u] = target[u]
        /\ pcb'[u] = pcb[u] /\ reason'[u] = reason[u] /\ io'[u] = io[u]
    BY <1>1, <2>0 DEF SameThread
  <2>2. CpuControl(u)'
    BY <1>1, <2>1 DEF ThreadOK, CpuControl
  <2>3. OwnProcess(u)'
    <3>1. pcb[u] # NoProc => SameProcess(pcb[u])
      BY <1>0, <1>1 DEF Owns
    <3> QED BY <2>1, <3>1, <1>1 DEF ThreadOK, OwnProcess, SameProcess, Free
  <2>4. NextProcess(u)'
    <3>1. target[u] # NoProc /\ pc[u] \in Replacing \cup {"new_ready"} =>
            SameProcess(target[u])
      BY <1>0, <1>1 DEF Owns
    <3> QED BY <2>1, <3>1, <1>1 DEF ThreadOK, NextProcess, SameProcess, Free
  <2>5. MovedProcess(u)'
    <3>1. pc[u] \in Moving => target[u] # NoProc
      BY <1>1 DEF ThreadOK, CpuControl, Moving, Inheriting
    <3>2. pc[u] \in Moving => SameProcess(target[u])
      BY <1>0, <3>1 DEF Owns
    <3> QED BY <2>1, <3>2 DEF ThreadOK, MovedProcess, SameProcess
  <2> QED BY <2>0, <2>2, <2>3, <2>4, <2>5 DEF ThreadOK
<1>2. CASE u \notin CPU
  <2>1. pc[u] \in Moving => target[u] # NoProc
    BY <1>2, ThreadFacts DEF ThreadOK, IoControl, WorkerControl, Thread, Moving
  <2>2. pc[u] \in Moving => SameProcess(target[u])
    BY <1>0, <2>1 DEF Owns
  <2>3. MovedProcess(u)'
    BY <2>2 DEF ThreadOK, MovedProcess, SameProcess, SameThread, Moving
  <2>4. u \in IO => IoControl(u)'
    BY ThreadFacts DEF ThreadOK, IoControl, SameThread
  <2>5. u \in {Suspender, Resumer, Resumption} => WorkerControl(u)'
    BY ThreadFacts DEF ThreadOK, WorkerControl, SameThread
  <2> QED BY <1>2, <2>3, <2>4, <2>5 DEF ThreadOK
<1> QED BY <1>1, <1>2

\* So it is enough to look at the thread that moved and at the processes it
\* moved.
LEMMA FramePlaced ==
  ASSUME NEW t \in Thread, NEW P \in SUBSET Proc,
         TypeOK, Placed, Frame(t, P), ThreadOK(t)',
         \A q \in Proc : Owns(t, q)' => q \in P \/ Owns(t, q),
         \A q \in Proc \ P : Holds(t, q) => Holds(t, q)',
         \A q \in P : Listed(q)' /\ NotLost(q)'
  PROVE  Placed'
<1>1. \A u \in Thread \ {t} : \A q \in Proc :
        /\ Owns(u, q)' <=> Owns(u, q)
        /\ Holds(u, q)' <=> Holds(u, q)
  BY OthersOwn DEF Placed, Frame
<1>2. \A u \in Thread : ThreadOK(u)'
  <2> SUFFICES ASSUME NEW u \in Thread \ {t} PROVE ThreadOK(u)'
    OBVIOUS
  <2>1. \A q \in Proc : Owns(u, q) => SameProcess(q)
    BY DEF Frame
  <2> QED BY <2>1, OthersOK DEF Frame, Placed
<1>3. Exclusive'
  <2> SUFFICES ASSUME NEW u \in Thread, NEW v \in Thread, NEW q \in Proc,
                      Owns(u, q)', Owns(v, q)', u # v
               PROVE  FALSE
    BY DEF Exclusive
  <2>1. ASSUME NEW x \in Thread \ {t}, Owns(x, q)', Owns(t, q)' PROVE FALSE
    <3>1. Owns(x, q)
      BY <2>1, <1>1
    <3>2. q \notin P
      BY <3>1 DEF Frame
    <3>3. Owns(t, q)
      BY <3>2, <2>1
    <3> QED BY <3>1, <3>3 DEF Placed, Exclusive
  <2>2. CASE u # t /\ v # t
    BY <2>2, <1>1 DEF Placed, Exclusive
  <2> QED BY <2>1, <2>2
<1>4. ASSUME NEW q \in Proc \ P PROVE Listed(q)' /\ NotLost(q)'
  <2>1. SameProcess(q) /\ Listed(q) /\ NotLost(q)
    BY DEF Frame, Placed
  <2>2. (\E u \in Thread : Holds(u, q)) => (\E u \in Thread : Holds(u, q)')
    BY <1>1
  <2>3. Listed(q)'
    BY <2>1 DEF SameProcess, Listed, Free
  <2>4. NotLost(q)'
    BY <2>1, <2>2 DEF SameProcess, NotLost
  <2> QED BY <2>3, <2>4
<1> QED BY <1>2, <1>3, <1>4 DEF Placed

-----------------------------------------------------------------------------
(* The critical sections of READY.                                         *)

\* Levels are natural numbers from 0, and 0 is the only one in FIFO or RR.
LEMMA LevelFacts ==
  /\ Level \subseteq Nat /\ Levels \in Nat /\ 0 \in Level
  /\ ~Multilevel => Level = {0}
BY LevelsAssumption, MultilevelAssumption DEF Level

\* update_highest_priority_ready_no_mutex.
LEMMA HighestReadyNat ==
  ASSUME NEW q, NEW n
  PROVE  /\ HighestReady(q, n) \in Nat
         /\ Multilevel /\ n > 0 /\ ~AllEmpty(q) =>
              /\ HighestReady(q, n) \in Level
              /\ IsFirstLevel(q, HighestReady(q, n))
<1>1. CASE n > 0 /\ Multilevel /\ ~AllEmpty(q)
  <2>1. \E l \in Level : IsFirstLevel(q, l)
    BY <1>1, FirstLevel
  <2>2. HighestReady(q, n) = CHOOSE l \in Level : IsFirstLevel(q, l)
    BY <1>1 DEF HighestReady
  <2>3. HighestReady(q, n) \in Level /\ IsFirstLevel(q, HighestReady(q, n))
    BY <2>1, <2>2
  <2> QED BY <2>3, LevelFacts
<1>2. CASE ~(n > 0 /\ Multilevel /\ ~AllEmpty(q))
  BY <1>2, LevelFacts DEF HighestReady
<1> QED BY <1>1, <1>2

\* READY is empty exactly when nobody is queued.
LEMMA NobodyQueued ==
  ASSUME NEW q \in [Level -> Seq(Proc)]
  PROVE  AllEmpty(q) <=> \A p \in Proc : ~InQueues(q, p)
<1>1. ASSUME NEW l \in Level, q[l] # <<>> PROVE \E p \in Proc : InQueues(q, p)
  <2>1. q[l] \in Seq(Proc) /\ q[l] # <<>>
    BY <1>1
  <2>2. 1 \in DOMAIN q[l] /\ q[l][1] \in Proc
    BY <2>1
  <2> QED BY <2>2 DEF InQueues
<1>2. ASSUME NEW l \in Level, q[l] = <<>> PROVE DOMAIN q[l] = {}
  BY <1>2
<1> QED BY <1>1, <1>2 DEF AllEmpty, InQueues

\* The queued processes are finitely many, so they can be counted.
LEMMA QueuedFinite ==
  ASSUME NEW q
  PROVE  /\ IsFiniteSet({p \in Proc : InQueues(q, p)})
         /\ Cardinality({p \in Proc : InQueues(q, p)}) \in Nat
         /\ Cardinality({p \in Proc : InQueues(q, p)}) = 0 <=>
              \A p \in Proc : ~InQueues(q, p)
<1> DEFINE S == {p \in Proc : InQueues(q, p)}
<1>1. S \in SUBSET Proc
  OBVIOUS
<1>2. S = {} <=> \A p \in Proc : ~InQueues(q, p)
  OBVIOUS
<1> HIDE DEF S
<1>3. IsFiniteSet(S)
  BY <1>1, ProcAssumption, FS_Subset
<1>4. Cardinality(S) \in Nat /\ (Cardinality(S) = 0 <=> S = {})
  BY <1>3, FS_CardinalityType, FS_EmptySet
<1>5. /\ IsFiniteSet(S) /\ Cardinality(S) \in Nat
      /\ Cardinality(S) = 0 <=> \A p \in Proc : ~InQueues(q, p)
  BY <1>2, <1>3, <1>4
<1> QED BY <1>5 DEF S

\* transition_to_ready inserts a process that was not queued.
LEMMA ToReady ==
  ASSUME TypeOK, ReadyCount, HighestIsExact, NEW p \in Proc, ~Queued(p),
         NEW n \in Nat, Multilevel => n \in Level, transition_to_ready(p, n)
  PROVE  /\ queues' \in [Level -> Seq(Proc)]
         /\ ready_process_count' \in Nat /\ highest_priority' \in Nat
         /\ preempt_all' = preempt_all
         /\ \A q \in Proc : Queued(q)' <=> Queued(q) \/ q = p
         /\ ReadyCount' /\ HighestIsExact'
         /\ \A l \in Level : \A i \in DOMAIN queues'[l] :
              \/ i \in DOMAIN queues[l] /\ queues'[l][i] = queues[l][i]
              \/ l = LevelOf(n) /\ queues'[l][i] = p
<1> DEFINE k == LevelOf(n)
           S == {q \in Proc : InQueues(queues, q)}
           R == {q \in Proc : InQueues(queues', q)}
<1>1. k \in Level /\ queues \in [Level -> Seq(Proc)]
  BY LevelFacts DEF LevelOf, TypeOK
<1>2. queues' = [queues EXCEPT ![k] = Append(@, p)]
  BY DEF transition_to_ready
<1>3. /\ queues' \in [Level -> Seq(Proc)]
      /\ \A x : InQueues(queues', x) <=> InQueues(queues, x) \/ x = p
      /\ NoRepeats(queues')
  <2>1. NoRepeats(queues) /\ ~InQueues(queues, p)
    BY DEF ReadyCount, Queued
  <2>2. queues' = Appended(queues, k, p)
    BY <1>2 DEF Appended
  <2> HIDE DEF k
  <2> QED BY <1>1, <2>1, <2>2, AppendQueued
<1>4. R = S \cup {p} /\ p \notin S
  BY <1>3 DEF Queued
<1>5. /\ Cardinality(S) \in Nat /\ Cardinality(R) = Cardinality(S) + 1
  <2>1. IsFiniteSet(S) /\ Cardinality(S) \in Nat
    BY QueuedFinite
  <2> HIDE DEF S, R
  <2> QED BY <2>1, <1>4, FS_AddElement
<1>6. ready_process_count = Cardinality(S)
  BY DEF ReadyCount, Queued
<1>7. ready_process_count' = ready_process_count + 1 /\ ready_process_count \in Nat
  BY DEF transition_to_ready, TypeOK
<1>8. ReadyCount'
  BY <1>3, <1>5, <1>6, <1>7 DEF ReadyCount, Queued
<1>9. /\ queues'[k] # <<>>
      /\ \A l \in Level : l # k => queues'[l] = queues[l]
  BY <1>1, <1>2
<1>10. /\ highest_priority' \in Nat
       /\ highest_priority' = IF ready_process_count = 0 \/ highest_priority > n
                              THEN n ELSE highest_priority
  BY DEF transition_to_ready, TypeOK
<1>11. HighestIsExact'
  <2> SUFFICES ASSUME Multilevel
               PROVE  /\ highest_priority' \in Level
                      /\ IsFirstLevel(queues', highest_priority')
    BY DEF HighestIsExact
  <2>0. k = n /\ n \in Level
    BY DEF LevelOf
  <2>1. CASE ready_process_count = 0
    <3>1. AllEmpty(queues)
      BY <2>1, <1>1, <1>6, QueuedFinite, NobodyQueued
    <3>2. \A l \in Level : l < n => l # k
      BY <2>0, LevelFacts
    <3>3. \A l \in Level : l < n => queues'[l] = <<>>
      BY <3>1, <3>2, <1>9 DEF AllEmpty
    <3> QED BY <2>0, <2>1, <3>3, <1>9, <1>10 DEF IsFirstLevel
  <2>2. CASE ready_process_count > 0
    <3>1. highest_priority \in Level /\ IsFirstLevel(queues, highest_priority)
      BY <2>2 DEF HighestIsExact
    <3>2. CASE highest_priority > n
      <4>1. \A l \in Level : l < n => queues'[l] = <<>>
        BY <3>1, <3>2, <1>9, <2>0, LevelFacts DEF IsFirstLevel
      <4> QED BY <2>0, <3>2, <4>1, <1>9, <1>10 DEF IsFirstLevel
    <3>3. CASE ~(highest_priority > n)
      <4>1. highest_priority' = highest_priority
        BY <2>2, <3>3, <1>10
      <4>2. queues'[highest_priority] # <<>>
        BY <3>1, <1>9 DEF IsFirstLevel
      <4>3. \A l \in Level : l < highest_priority => queues'[l] = <<>>
        BY <3>1, <3>3, <1>9, <2>0, LevelFacts DEF IsFirstLevel
      <4> QED BY <3>1, <4>1, <4>2, <4>3 DEF IsFirstLevel
    <3> QED BY <3>2, <3>3
  <2> QED BY <2>1, <2>2, <1>7
<1>12. ASSUME NEW l \in Level, NEW i \in DOMAIN queues'[l]
       PROVE  \/ i \in DOMAIN queues[l] /\ queues'[l][i] = queues[l][i]
              \/ l = k /\ queues'[l][i] = p
  <2>1. CASE l # k
    BY <2>1, <1>9, <1>12
  <2>2. CASE l = k
    <3>1. queues[k] \in Seq(Proc) /\ queues'[k] = Append(queues[k], p)
      BY <1>1, <1>2
    <3> QED BY <3>1, <2>2, <1>12
  <2> QED BY <2>1, <2>2
<1>13. \A q \in Proc : Queued(q)' <=> Queued(q) \/ q = p
  BY <1>3 DEF Queued
<1>14. preempt_all' = preempt_all /\ ready_process_count' \in Nat
  BY <1>7 DEF transition_to_ready
<1> QED BY <1>3, <1>8, <1>10, <1>11, <1>12, <1>13, <1>14

\* transition_take_ready_next removes the head of the best level.
LEMMA TakeNext ==
  ASSUME TypeOK, ReadyCount, HighestIsExact, NEW p, transition_take_ready_next(p)
  PROVE  /\ p \in Proc /\ Queued(p)
         /\ queues' \in [Level -> Seq(Proc)]
         /\ ready_process_count' \in Nat /\ highest_priority' \in Nat
         /\ preempt_all' = preempt_all
         /\ \A q \in Proc : Queued(q)' <=> Queued(q) /\ q # p
         /\ ReadyCount' /\ HighestIsExact'
         /\ \A l \in Level : \A i \in DOMAIN queues'[l] :
              \E j \in DOMAIN queues[l] : queues'[l][i] = queues[l][j]
         /\ Multilevel => /\ highest_priority \in Level
                          /\ 1 \in DOMAIN queues[highest_priority]
                          /\ p = queues[highest_priority][1]
<1>1. PICK l \in Level :
        /\ IsFirstLevel(queues, l) /\ p = Head(queues[l])
        /\ queues' = [queues EXCEPT ![l] = Tail(@)]
        /\ highest_priority' = IF queues'[l] = <<>>
                               THEN HighestReady(queues', ready_process_count - 1)
                               ELSE highest_priority
        /\ ready_process_count' = ready_process_count - 1
        /\ preempt_all' = preempt_all
  BY DEF transition_take_ready_next
<1> DEFINE S == {q \in Proc : InQueues(queues, q)}
           R == {q \in Proc : InQueues(queues', q)}
<1>2. /\ queues \in [Level -> Seq(Proc)] /\ ready_process_count \in Nat
      /\ highest_priority \in Nat /\ queues[l] # <<>> /\ NoRepeats(queues)
  BY <1>1 DEF TypeOK, IsFirstLevel, ReadyCount
<1>3. /\ queues' \in [Level -> Seq(Proc)]
      /\ p \in Proc /\ InQueues(queues, p)
      /\ \A x : InQueues(queues', x) <=> InQueues(queues, x) /\ x # p
      /\ NoRepeats(queues')
  <2>1. queues' = Beheaded(queues, l)
    BY <1>1 DEF Beheaded
  <2> QED BY <1>1, <1>2, <2>1, TakeHeadQueued
<1>4. R = S \ {p} /\ p \in S
  BY <1>3
<1>5. Cardinality(S) \in Nat /\ Cardinality(S) # 0 /\ Cardinality(R) = Cardinality(S) - 1
  <2>1. IsFiniteSet(S) /\ Cardinality(S) \in Nat
    BY QueuedFinite
  <2>2. Cardinality(S) = 0 <=> S = {}
    <3> HIDE DEF S
    <3> QED BY <2>1, FS_EmptySet
  <2> HIDE DEF S, R
  <2> QED BY <2>1, <2>2, <1>4, FS_RemoveElement
<1>6. ready_process_count = Cardinality(S)
  BY DEF ReadyCount, Queued
<1>7. ready_process_count' \in Nat /\ ready_process_count > 0
  BY <1>1, <1>5, <1>6
<1>8. ReadyCount'
  BY <1>1, <1>3, <1>5, <1>6 DEF ReadyCount, Queued
<1>9. highest_priority' \in Nat
  BY <1>1, <1>2, HighestReadyNat
<1>10. /\ queues'[l] = Tail(queues[l])
       /\ \A m \in Level : m # l => queues'[m] = queues[m]
  BY <1>1, <1>2
<1>11. Multilevel => highest_priority = l
  BY <1>1, <1>7, FirstLevel DEF HighestIsExact
<1>12. HighestIsExact'
  <2> SUFFICES ASSUME Multilevel, ready_process_count' > 0
               PROVE  /\ highest_priority' \in Level
                      /\ IsFirstLevel(queues', highest_priority')
    BY DEF HighestIsExact
  <2>1. CASE queues'[l] = <<>>
    <3>1. Cardinality(R) # 0
      BY <1>1, <1>5, <1>6
    <3>2. ~AllEmpty(queues')
      BY <3>1, <1>3, QueuedFinite, NobodyQueued
    <3> QED BY <2>1, <3>2, <1>1, HighestReadyNat
  <2>2. CASE queues'[l] # <<>>
    <3>1. highest_priority' = l
      BY <2>2, <1>1, <1>11
    <3>2. \A m \in Level : m < l => queues'[m] = <<>>
      BY <1>1, <1>10, LevelFacts DEF IsFirstLevel
    <3> QED BY <2>2, <3>1, <3>2 DEF IsFirstLevel
  <2> QED BY <2>1, <2>2
<1>13. ASSUME NEW m \in Level, NEW i \in DOMAIN queues'[m]
       PROVE  \E j \in DOMAIN queues[m] : queues'[m][i] = queues[m][j]
  <2>1. CASE m # l
    BY <2>1, <1>10, <1>13
  <2>2. CASE m = l
    <3>1. queues[l] \in Seq(Proc) /\ queues[l] # <<>>
      BY <1>2
    <3>2. i + 1 \in DOMAIN queues[l] /\ queues'[l][i] = queues[l][i + 1]
      BY <3>1, <2>2, <1>10, <1>13
    <3> QED BY <2>2, <3>2
  <2> QED BY <2>1, <2>2
<1>14. 1 \in DOMAIN queues[l] /\ p = queues[l][1]
  <2>1. queues[l] \in Seq(Proc) /\ queues[l] # <<>>
    BY <1>2
  <2> QED BY <2>1, <1>1
<1> QED BY <1>1, <1>3, <1>7, <1>8, <1>9, <1>11, <1>12, <1>13, <1>14 DEF Queued

\* transition_take_ready, called on a process that is in the level of its
\* priority, removes it.
LEMMA TakeReady ==
  ASSUME TypeOK, ReadyCount, NEW p \in Proc, Queued(p), NEW n \in Nat,
         Multilevel /\ n \in Level,
         \E i \in DOMAIN queues[n] : queues[n][i] = p,
         transition_take_ready(p, n)
  PROVE  /\ queues' \in [Level -> Seq(Proc)]
         /\ ready_process_count' \in Nat /\ highest_priority' \in Nat
         /\ preempt_all' = preempt_all
         /\ \A q \in Proc : Queued(q)' <=> Queued(q) /\ q # p
         /\ ReadyCount' /\ HighestIsExact'
         /\ \A l \in Level : \A i \in DOMAIN queues'[l] :
              \E j \in DOMAIN queues[l] : queues'[l][i] = queues[l][j]
<1>1. PICK k \in DOMAIN queues[n] :
        /\ queues[n][k] = p
        /\ queues' = [queues EXCEPT ![n] = RemoveAt(@, k)]
  BY DEF transition_take_ready, LevelOf
<1>2. /\ highest_priority' = HighestReady(queues', ready_process_count)
      /\ ready_process_count' = ready_process_count - 1
      /\ preempt_all' = preempt_all
  BY DEF transition_take_ready
<1> DEFINE S == {q \in Proc : InQueues(queues, q)}
           R == {q \in Proc : InQueues(queues', q)}
<1>3. queues \in [Level -> Seq(Proc)] /\ NoRepeats(queues)
  BY DEF TypeOK, ReadyCount
<1>4. queues' = Without(queues, n, k) /\ n \in Level
  BY <1>1 DEF Without
<1>5. /\ queues' \in [Level -> Seq(Proc)]
      /\ \A x : InQueues(queues', x) <=> InQueues(queues, x) /\ x # p
      /\ NoRepeats(queues')
      /\ \A l \in Level : \A i \in DOMAIN queues'[l] :
           \E j \in DOMAIN queues[l] : queues'[l][i] = queues[l][j]
  <2>1. /\ queues' \in [Level -> Seq(Proc)]
        /\ \A x : InQueues(queues', x) <=> InQueues(queues, x) /\ x # queues[n][k]
        /\ NoRepeats(queues')
        /\ \A l \in Level : \A i \in DOMAIN queues'[l] :
             \E j \in DOMAIN queues[l] : queues'[l][i] = queues[l][j]
    BY <1>3, <1>4, TakeEntryQueued
  <2> QED BY <2>1, <1>1
<1>6. R = S \ {p} /\ p \in S
  BY <1>5 DEF Queued
<1>7. Cardinality(S) \in Nat /\ Cardinality(S) # 0 /\ Cardinality(R) = Cardinality(S) - 1
  <2>1. IsFiniteSet(S) /\ Cardinality(S) \in Nat
    BY QueuedFinite
  <2>2. Cardinality(S) = 0 <=> S = {}
    <3> HIDE DEF S
    <3> QED BY <2>1, FS_EmptySet
  <2> HIDE DEF S, R
  <2> QED BY <2>1, <2>2, <1>6, FS_RemoveElement
<1>8. ready_process_count = Cardinality(S)
  BY DEF ReadyCount, Queued
<1>9. ready_process_count' \in Nat /\ ready_process_count > 0
  BY <1>2, <1>7, <1>8
<1>10. ReadyCount'
  BY <1>2, <1>5, <1>7, <1>8 DEF ReadyCount, Queued
<1>11. highest_priority' \in Nat
  BY <1>2, HighestReadyNat
<1>12. HighestIsExact'
  <2> SUFFICES ASSUME ready_process_count' > 0
               PROVE  /\ highest_priority' \in Level
                      /\ IsFirstLevel(queues', highest_priority')
    BY DEF HighestIsExact
  <2>1. Cardinality(R) # 0
    BY <1>2, <1>7, <1>8
  <2>2. ~AllEmpty(queues')
    BY <2>1, <1>5, QueuedFinite, NobodyQueued
  <2> QED BY <2>2, <1>2, <1>9, HighestReadyNat
<1>13. \A q \in Proc : Queued(q)' <=> Queued(q) /\ q # p
  BY <1>5 DEF Queued
<1> QED BY <1>2, <1>5, <1>9, <1>10, <1>11, <1>12, <1>13
=============================================================================
