--------------------------- MODULE CpuContextProofs ---------------------------
(***************************************************************************)
(* The conversation between a CPU and Kernel Memory's listener for it, and *)
(* what it carries: the registers of every process are where they belong,  *)
(* and every request is answered.                                          *)
(***************************************************************************)
EXTENDS CpuCycleProofs, MainMemoryProofs

\* A channel to a CPU that knows `known` of the `listed` sticks: the sticks it
\* does not know, in their order, with n other messages after the first k.
Layout(channel, known, listed, k, n) ==
  /\ IsSeq(channel) /\ k + n <= Len(channel) /\ known + Len(channel) = listed + n
  /\ \A i \in 1 .. Len(channel) :
       /\ i <= k => channel[i] = PACKET(known + i)
       /\ i > k + n => channel[i] = PACKET(known + i - n)

Between(c, k, n) == Layout(kmToCpu[c], Len(cpu[c].sticks), Len(sticks), k, n)

\* Nothing but sticks, or one answer, or the two that start a process.
Quiet(c) == Between(c, 0, 0)
Answer(c, op) == \E k \in 0 .. Len(kmToCpu[c]) : Between(c, k, 1) /\ kmToCpu[c][k + 1].op = op
Loads(c) == \E k \in 0 .. Len(kmToCpu[c]) :
              /\ Between(c, k, 2)
              /\ kmToCpu[c][k + 1].op = "SEND_CONTEXT"
              /\ kmToCpu[c][k + 2].op = "SEGMENT_TABLE"

\* The registers of the process before are still on their way.
Saves(channel) == channel # <<>> /\ channel[1].op = "UPDATED_CONTEXT"

\* What the two ends of the socket between c and Kernel Memory know of each
\* other.
KmTalk(c) ==
  LET s == cpu[c].stage
      p == cpu[c].pid
      asked == cpuToKm[c]
  IN  /\ IsSeq(cpu[c].sticks) /\ IsSeq(asked)
      /\ s \in {"off", "start"} => asked = <<>> /\ kmToCpu[c] = <<>> /\ cpu[c].sticks = <<>>
      /\ s = "idle" => Quiet(c) /\ (asked = <<>> \/ (asked = <<asked[1]>> /\ Saves(asked)))
      /\ s = "context" =>
           \/ Quiet(c) /\ asked = <<REQUEST_CONTEXT(p)>>
           \/ Quiet(c) /\ asked = <<asked[1], REQUEST_CONTEXT(p)>> /\ Saves(asked)
           \/ Loads(c) /\ asked = <<>>
      /\ s = "table" => Answer(c, "SEGMENT_TABLE") /\ asked = <<>>
      /\ s = "fetch" =>
           \/ Quiet(c) /\ asked = <<NEXT_INSTRUCTION(p, cpu[c].regs["PC"])>>
           \/ Answer(c, "SEND_INSTRUCTION") /\ asked = <<>>
      /\ s \in {"access", "interrupt"} => Quiet(c) /\ asked = <<>>
      /\ s = "update" =>
           \/ Quiet(c) /\ asked = <<UPDATED_SEGMENT_TABLE(p)>>
           \/ Answer(c, "SEGMENT_TABLE") /\ asked = <<>>
           \/ Quiet(c) /\ asked = <<>> /\ p \in overtaken
      /\ s = "gone" => \A k \in DOMAIN asked : asked[k].op = "NEXT_INSTRUCTION" => lost # {}

\* Kernel Memory's list of processes and the scheduler's states.
Known ==
  /\ processes \subseteq Pid /\ IsSeq(ksToKm)
  /\ \A p \in Pid : status[p] \notin {"NEW", "EXIT"} => p \in processes
  /\ \A i \in DOMAIN ksToKm : ksToKm[i] \in Pid /\ status[ksToKm[i]] = "EXIT"

\* Who has the registers of p: a CPU that runs it or is about to, or a channel.
Holding(c, p) == cpu[c].pid = p /\ cpu[c].stage \in Loaded
Sending(c, p) == \E k \in DOMAIN cpuToKm[c] : /\ cpuToKm[c][k].op = "UPDATED_CONTEXT"
                                              /\ cpuToKm[c][k].pid = p
Receiving(c, p) ==
  /\ cpu[c].pid = p /\ cpu[c].stage = "context"
  /\ \E k \in DOMAIN kmToCpu[c] : kmToCpu[c][k].op = "SEND_CONTEXT"
Owner(c, p) == Holding(c, p) \/ Sending(c, p) \/ Receiving(c, p)

\* The registers of p are in one place at most, and are those of its last
\* instruction; in Kernel Memory if nowhere else.
Owned(p) ==
  /\ \A c \in Cpu : Owner(c, p) => status[p] # "NEW" /\ \A d \in Cpu \ {c} : ~Owner(d, p)
  /\ \A c \in Cpu :
       /\ Holding(c, p) => cpu[c].regs = last[p]
       /\ \A k \in DOMAIN cpuToKm[c] :
            cpuToKm[c][k].op = "UPDATED_CONTEXT" /\ cpuToKm[c][k].pid = p
              => cpuToKm[c][k].regs = last[p]
       /\ Receiving(c, p) =>
            \A k \in DOMAIN kmToCpu[c] :
              kmToCpu[c][k].op = "SEND_CONTEXT" => kmToCpu[c][k].regs = last[p]
  /\ (\A c \in Cpu : ~Holding(c, p) /\ ~Sending(c, p)) /\ p \in processes
       => context[p] = last[p]
  /\ status[p] = "NEW" => last[p] = t_registers

\* segment_changed is set by an allocation or a release that the scheduler is
\* told of, and the process outlives it until the CPU has asked for the table.
MemOps == {"MEM_ALLOC", "MEM_FREE"}
Flagged(c) ==
  /\ cpu[c].stage \notin {"off", "start", "idle", "gone"} => cpu[c].pid \in Pid
  /\ cpu[c].stage \in {"off", "start", "idle", "context", "table", "fetch", "access"}
       => ~cpu[c].changed
  /\ cpu[c].stage = "interrupt" /\ cpuToKs[c] # <<>> =>
       /\ cpu[c].changed <=> Head(cpuToKs[c]).op \in MemOps
       /\ Head(cpuToKs[c]).op \in MemOps => Head(cpuToKs[c]).pid = cpu[c].pid
  /\ \/ cpu[c].stage = "update"
     \/ /\ cpu[c].stage = "interrupt" /\ ksToCpu[c] # <<>>
        /\ needs_table(c, Head(ksToCpu[c]))
     => cpu[c].pid \in overtaken \/ status[cpu[c].pid] \notin {"NEW", "EXIT"}

Arrays ==
  /\ kmToCpu = [c \in Cpu |-> kmToCpu[c]] /\ cpuToKm = [c \in Cpu |-> cpuToKm[c]]
  /\ context = [p \in Pid |-> context[p]] /\ last = [p \in Pid |-> last[p]]
  /\ IsSeq(sticks)

KmInv ==
  /\ Arrays /\ Known
  /\ \A p \in Pid \ overtaken : Owned(p)
  /\ \A c \in Cpu : Flagged(c) /\ (~crashed => KmTalk(c))

-----------------------------------------------------------------------------
(* Sticks and answers in the channel to a CPU.                             *)

LEMMA LayoutStick ==
  ASSUME NEW ch, NEW known \in Nat, NEW listed \in Nat, NEW k \in Nat, NEW n \in Nat,
         Layout(ch, known, listed, k, n)
  PROVE  Layout(Append(ch, PACKET(listed + 1)), known, listed + 1, k, n)
<1>1. Len(ch) \in Nat /\ known + Len(ch) = listed + n /\ k + n <= Len(ch) /\ IsSeq(ch)
  BY SeqFacts DEF Layout
<1> DEFINE x == PACKET(listed + 1)
           t == Append(ch, x)
<1>2. /\ IsSeq(t) /\ Len(t) = Len(ch) + 1
      /\ \A i \in 1 .. Len(ch) : t[i] = ch[i]
      /\ t[Len(ch) + 1] = x
  BY <1>1, SeqAppend
<1>3. known + (Len(ch) + 1) - n = listed + 1
  BY <1>1
<1> HIDE DEF t
<1>4. ASSUME NEW i \in 1 .. Len(t)
      PROVE  /\ i <= k => t[i] = PACKET(known + i)
             /\ i > k + n => t[i] = PACKET(known + i - n)
  <2>1. CASE i = Len(ch) + 1
    BY <1>1, <1>2, <1>3, <2>1
  <2>2. CASE i \in 1 .. Len(ch)
    BY <1>2, <2>2 DEF Layout
  <2> QED BY <1>1, <1>2, <2>1, <2>2
<1> QED BY <1>1, <1>2, <1>4 DEF Layout, t

\* An answer after all the sticks that are listed, and one more after it.
LEMMA LayoutAnswer ==
  ASSUME NEW ch, NEW known \in Nat, NEW listed \in Nat, Layout(ch, known, listed, 0, 0), NEW x
  PROVE  /\ Layout(Append(ch, x), known, listed, Len(ch), 1) /\ Len(ch) \in Nat
         /\ Append(ch, x)[Len(ch) + 1] = x /\ Len(Append(ch, x)) = Len(ch) + 1
<1>1. Len(ch) \in Nat /\ known + Len(ch) = listed /\ IsSeq(ch)
      /\ \A i \in 1 .. Len(ch) : ch[i] = PACKET(known + i)
  <2>1. Len(ch) \in Nat /\ known + Len(ch) = listed + 0 /\ IsSeq(ch)
    BY SeqFacts DEF Layout
  <2>2. \A i \in 1 .. Len(ch) : ch[i] = PACKET(known + i - 0) /\ known + i - 0 = known + i
    BY <2>1 DEF Layout
  <2> QED BY <2>1, <2>2
<1> DEFINE t == Append(ch, x)
<1>2. /\ IsSeq(t) /\ Len(t) = Len(ch) + 1
      /\ \A i \in 1 .. Len(ch) : t[i] = ch[i]
      /\ t[Len(ch) + 1] = x
  BY <1>1, SeqAppend
<1> HIDE DEF t
<1>3. Layout(t, known, listed, Len(ch), 1)
  BY <1>1, <1>2 DEF Layout
<1> QED BY <1>1, <1>2, <1>3 DEF t

LEMMA LayoutAnswers ==
  ASSUME NEW ch, NEW known \in Nat, NEW listed \in Nat, Layout(ch, known, listed, 0, 0),
         NEW x, NEW y
  PROVE  LET t == ch \o <<x, y>>
         IN  /\ Layout(t, known, listed, Len(ch), 2) /\ Len(ch) \in Nat
             /\ t[Len(ch) + 1] = x /\ t[Len(ch) + 2] = y /\ Len(t) = Len(ch) + 2
<1> DEFINE u == Append(ch, x)
           t == Append(u, y)
<1>1. /\ Layout(u, known, listed, Len(ch), 1) /\ Len(ch) \in Nat
      /\ u[Len(ch) + 1] = x /\ Len(u) = Len(ch) + 1
  BY LayoutAnswer
<1>2. IsSeq(ch) /\ IsSeq(u)
  BY <1>1 DEF Layout
<1>3. ch \o <<x, y>> = t
  BY <1>2, SeqPair
<1>4. /\ IsSeq(t) /\ Len(t) = Len(u) + 1
      /\ \A i \in 1 .. Len(u) : t[i] = u[i]
      /\ t[Len(u) + 1] = y
  BY <1>2, SeqAppend
<1> HIDE DEF t, u
<1>5. /\ Len(t) = Len(ch) + 2 /\ t[Len(ch) + 1] = x /\ t[Len(ch) + 2] = y
      /\ known + Len(t) = listed + 2
  <2>1. known + Len(u) = listed + 1
    BY <1>1 DEF Layout
  <2>2. Len(ch) + 1 \in 1 .. Len(u) /\ Len(u) + 1 = Len(ch) + 2
    BY <1>1
  <2> QED BY <1>1, <1>4, <2>1, <2>2
<1>6. ASSUME NEW i \in 1 .. Len(t)
      PROVE  /\ i <= Len(ch) => t[i] = PACKET(known + i)
             /\ ~(i > Len(ch) + 2)
  <2>1. i <= Len(ch) => i \in 1 .. Len(u)
    BY <1>1
  <2>2. i <= Len(ch) => t[i] = PACKET(known + i)
    BY <1>4, <2>1, <1>1 DEF Layout
  <2> QED BY <1>1, <1>5, <2>2
<1>7. Layout(t, known, listed, Len(ch), 2)
  BY <1>1, <1>4, <1>5, <1>6 DEF Layout
<1>8. LET v == t
      IN  /\ Layout(v, known, listed, Len(ch), 2) /\ Len(ch) \in Nat
          /\ v[Len(ch) + 1] = x /\ v[Len(ch) + 2] = y /\ Len(v) = Len(ch) + 2
  BY <1>1, <1>5, <1>7
<1> QED BY <1>3, <1>8, Zenon

\* The CPU takes in the stick at the head of its channel.
LEMMA LayoutTake ==
  ASSUME NEW ch, NEW known \in Nat, NEW listed \in Nat, NEW k \in Nat, NEW n \in Nat,
         Layout(ch, known, listed, k, n), ch # <<>>, k > 0 \/ n = 0
  PROVE  /\ Head(ch) = PACKET(known + 1)
         /\ Layout(Tail(ch), known + 1, listed, IF k > 0 THEN k - 1 ELSE 0, n)
         /\ \A i \in 1 .. Len(ch) - 1 : Tail(ch)[i] = ch[i + 1]
         /\ Len(Tail(ch)) = Len(ch) - 1
<1>1. /\ Len(ch) \in Nat \ {0} /\ known + Len(ch) = listed + n /\ k + n <= Len(ch)
      /\ IsSeq(ch) /\ IsSeq(Tail(ch)) /\ Len(Tail(ch)) = Len(ch) - 1
      /\ \A i \in 1 .. Len(ch) - 1 : Tail(ch)[i] = ch[i + 1]
      /\ Head(ch) = ch[1]
  BY SeqTail DEF Layout
<1>2. Head(ch) = PACKET(known + 1)
  BY <1>1 DEF Layout
<1> DEFINE t == Tail(ch)
           j == IF k > 0 THEN k - 1 ELSE 0
<1> HIDE DEF t
<1>3. j \in Nat /\ j + n <= Len(t) /\ known + 1 + Len(t) = listed + n
  BY <1>1 DEF t
<1>4. ASSUME NEW i \in 1 .. Len(t)
      PROVE  /\ i <= j => t[i] = PACKET(known + 1 + i)
             /\ i > j + n => t[i] = PACKET(known + 1 + i - n)
  <2>1. i + 1 \in 1 .. Len(ch) /\ t[i] = ch[i + 1]
    BY <1>1 DEF t
  <2>2. /\ i + 1 <= k => ch[i + 1] = PACKET(known + (i + 1))
        /\ i + 1 > k + n => ch[i + 1] = PACKET(known + (i + 1) - n)
    BY <2>1 DEF Layout
  <2>3. known + (i + 1) = known + 1 + i /\ known + (i + 1) - n = known + 1 + i - n
    OBVIOUS
  <2>4. (i <= j => i + 1 <= k) /\ (i > j + n => i + 1 > k + n)
    OBVIOUS
  <2> QED BY <2>1, <2>2, <2>3, <2>4
<1> QED BY <1>1, <1>2, <1>3, <1>4 DEF Layout, t

\* It takes the answer at the head.
LEMMA LayoutHear ==
  ASSUME NEW ch, NEW known \in Nat, NEW listed \in Nat, NEW n \in Nat \ {0},
         Layout(ch, known, listed, 0, n)
  PROVE  /\ ch # <<>> /\ Head(ch) = ch[1] /\ Layout(Tail(ch), known, listed, 0, n - 1)
         /\ \A i \in 1 .. Len(ch) - 1 : Tail(ch)[i] = ch[i + 1]
         /\ Len(Tail(ch)) = Len(ch) - 1
<1>0. Len(ch) \in Nat /\ n <= Len(ch) /\ IsSeq(ch) /\ ch # <<>>
  BY SeqFacts DEF Layout
<1>1. /\ Len(ch) \in Nat \ {0} /\ known + Len(ch) = listed + n
      /\ IsSeq(Tail(ch)) /\ Len(Tail(ch)) = Len(ch) - 1
      /\ \A i \in 1 .. Len(ch) - 1 : Tail(ch)[i] = ch[i + 1]
      /\ Head(ch) = ch[1]
  BY <1>0, SeqTail DEF Layout
<1> DEFINE t == Tail(ch)
<1> HIDE DEF t
<1>3. 0 + (n - 1) <= Len(t) /\ known + Len(t) = listed + (n - 1)
  BY <1>0, <1>1 DEF t
<1>4. ASSUME NEW i \in 1 .. Len(t)
      PROVE  /\ i <= 0 => t[i] = PACKET(known + i)
             /\ i > 0 + (n - 1) => t[i] = PACKET(known + i - (n - 1))
  <2>1. i + 1 \in 1 .. Len(ch) /\ t[i] = ch[i + 1]
    BY <1>1 DEF t
  <2>2. i + 1 > 0 + n => ch[i + 1] = PACKET(known + (i + 1) - n)
    BY <2>1 DEF Layout
  <2>3. known + (i + 1) - n = known + i - (n - 1)
    OBVIOUS
  <2>4. (i > 0 + (n - 1) => i + 1 > 0 + n) /\ ~(i <= 0)
    OBVIOUS
  <2> QED BY <2>1, <2>2, <2>3, <2>4
<1> QED BY <1>0, <1>1, <1>3, <1>4 DEF Layout, t

-----------------------------------------------------------------------------
(* Steps of one CPU, and the rest of the system.                           *)

SameKm(d) == /\ cpu'[d] = cpu[d] /\ kmToCpu'[d] = kmToCpu[d]
             /\ cpuToKm'[d] = cpuToKm[d]

LEMMA SameTalk ==
  ASSUME NEW d \in Cpu, SameKm(d), Len(sticks') = Len(sticks), lost \subseteq lost',
         overtaken \subseteq overtaken', KmTalk(d)
  PROVE  KmTalk(d)'
<1>1. \A k, n : Between(d, k, n) => Between(d, k, n)'
  BY DEF SameKm, Between
<1>2. (Quiet(d) => Quiet(d)') /\ (Loads(d) => Loads(d)')
      /\ \A op : Answer(d, op) => Answer(d, op)'
  BY <1>1 DEF SameKm, Quiet, Loads, Answer
<1> QED BY <1>2 DEF KmTalk, SameKm

LEMMA SameOwner ==
  ASSUME NEW d \in Cpu, SameKm(d), NEW p
  PROVE  /\ Holding(d, p)' <=> Holding(d, p)
         /\ Sending(d, p)' <=> Sending(d, p)
         /\ Receiving(d, p)' <=> Receiving(d, p)
BY DEF SameKm, Holding, Sending, Receiving

\* What c may do to the registers of p.
Handed(c, p) ==
  /\ Owner(c, p)' => Owner(c, p)
  /\ last'[p] = last[p] \/ Owner(c, p)
  /\ Holding(c, p)' => cpu'[c].regs = last'[p]
  /\ \A k \in DOMAIN cpuToKm'[c] :
       cpuToKm'[c][k].op = "UPDATED_CONTEXT" /\ cpuToKm'[c][k].pid = p
         => cpuToKm'[c][k].regs = last'[p]
  /\ Receiving(c, p)' =>
       \A k \in DOMAIN kmToCpu'[c] :
         kmToCpu'[c][k].op = "SEND_CONTEXT" => kmToCpu'[c][k].regs = last'[p]
  /\ ~Holding(c, p)' /\ ~Sending(c, p)' /\ p \in processes =>
       \/ ~Holding(c, p) /\ ~Sending(c, p) /\ last'[p] = last[p]
       \/ context[p] = last'[p]

LEMMA OwnedLocal ==
  ASSUME NEW p \in Pid, Owned(p), NEW c \in Cpu, \A d \in Cpu \ {c} : SameKm(d),
         UNCHANGED <<status, processes>>, context'[p] = context[p], Handed(c, p)
  PROVE  Owned(p)'
<1>1. \A d \in Cpu \ {c} : /\ Holding(d, p)' <=> Holding(d, p)
                           /\ Sending(d, p)' <=> Sending(d, p)
                           /\ Receiving(d, p)' <=> Receiving(d, p)
  BY SameOwner
<1>2. \A d \in Cpu : Owner(d, p)' => Owner(d, p)
  BY <1>1 DEF Owner, Handed
<1>3. ASSUME NEW d \in Cpu, Owner(d, p)'
      PROVE  status'[p] # "NEW" /\ \A e \in Cpu \ {d} : ~Owner(e, p)'
  BY <1>2, <1>3 DEF Owned
<1>4. ASSUME NEW d \in Cpu \ {c}, Owner(d, p) PROVE last'[p] = last[p]
  BY <1>4 DEF Owned, Handed
<1>5. ASSUME NEW d \in Cpu
      PROVE  /\ Holding(d, p)' => cpu'[d].regs = last'[p]
             /\ \A k \in DOMAIN cpuToKm'[d] :
                  cpuToKm'[d][k].op = "UPDATED_CONTEXT" /\ cpuToKm'[d][k].pid = p
                    => cpuToKm'[d][k].regs = last'[p]
             /\ Receiving(d, p)' =>
                  \A k \in DOMAIN kmToCpu'[d] :
                    kmToCpu'[d][k].op = "SEND_CONTEXT" => kmToCpu'[d][k].regs = last'[p]
  <2>1. CASE d = c
    BY <2>1 DEF Handed
  <2>2. CASE d # c
    <3>1. SameKm(d) /\ (Owner(d, p) => last'[p] = last[p])
      BY <1>4, <2>2
    <3>2. Holding(d, p)' => cpu'[d].regs = last'[p]
      BY <1>1, <2>2, <3>1 DEF Owned, SameKm, Owner
    <3>3. \A k \in DOMAIN cpuToKm'[d] :
            cpuToKm'[d][k].op = "UPDATED_CONTEXT" /\ cpuToKm'[d][k].pid = p
              => cpuToKm'[d][k].regs = last'[p]
      BY <3>1 DEF Owned, SameKm, Owner, Sending
    <3>4. Receiving(d, p)' =>
            \A k \in DOMAIN kmToCpu'[d] :
              kmToCpu'[d][k].op = "SEND_CONTEXT" => kmToCpu'[d][k].regs = last'[p]
      BY <1>1, <2>2, <3>1 DEF Owned, SameKm, Owner
    <3> QED BY <3>2, <3>3, <3>4
  <2> QED BY <2>1, <2>2
<1>6. ASSUME \A d \in Cpu : ~Holding(d, p)' /\ ~Sending(d, p)', p \in processes
      PROVE  context'[p] = last'[p]
  BY <1>1, <1>6 DEF Owned, Handed
<1>7. status'[p] = "NEW" => last'[p] = t_registers
  BY DEF Owned, Handed
<1> QED BY <1>3, <1>5, <1>6, <1>7 DEF Owned

SameFlags(d) == cpu'[d] = cpu[d] /\ ksToCpu'[d] = ksToCpu[d] /\ cpuToKs'[d] = cpuToKs[d]

LEMMA SameFlagged ==
  ASSUME NEW d \in Cpu, SameFlags(d), Flagged(d), overtaken \subseteq overtaken',
         cpu[d].stage \in {"interrupt", "update"} =>
           \/ cpu[d].pid \in overtaken' \/ status[cpu[d].pid] \in {"NEW", "EXIT"}
           \/ status'[cpu[d].pid] \notin {"NEW", "EXIT"}
  PROVE  Flagged(d)'
<1>1. \A m : needs_table(d, m)' <=> needs_table(d, m)
  BY DEF needs_table, SameFlags
<1> QED BY <1>1 DEF Flagged, SameFlags, needs_table

\* The frame of a CPU's step.
Local(c) ==
  /\ \A d \in Cpu \ {c} : SameKm(d) /\ SameFlags(d)
  /\ UNCHANGED <<status, processes, ksToKm, context, overtaken, lost, crashed>>
  /\ Len(sticks') = Len(sticks)

LEMMA LocalStep ==
  ASSUME KmInv, ~crashed, NEW c \in Cpu, Local(c), Arrays', KmTalk(c)', Flagged(c)',
         \A p \in Pid \ overtaken : Handed(c, p)
  PROVE  KmInv'
<1>1. Known'
  BY DEF KmInv, Known, Local
<1>2. \A p \in Pid \ overtaken' : Owned(p)'
  BY OwnedLocal DEF KmInv, Local
<1>3. \A d \in Cpu \ {c} : KmTalk(d)'
  BY SameTalk DEF KmInv, Local
<1>4. \A d \in Cpu \ {c} : Flagged(d)'
  BY SameFlagged DEF KmInv, Local
<1> QED BY <1>1, <1>2, <1>3, <1>4 DEF KmInv

\* What the CPU sends to Kernel Memory is a request, if anything.
Asks(c) ==
  \/ cpuToKm'[c] = cpuToKm[c]
  \/ \E m : m.op # "UPDATED_CONTEXT" /\ cpuToKm'[c] = Append(cpuToKm[c], m)

LEMMA Requests ==
  ASSUME NEW c \in Cpu, IsSeq(cpuToKm[c]), Asks(c), NEW p
  PROVE  /\ Sending(c, p)' <=> Sending(c, p)
         /\ \A k \in DOMAIN cpuToKm'[c] : cpuToKm'[c][k].op = "UPDATED_CONTEXT" =>
              k \in DOMAIN cpuToKm[c] /\ cpuToKm'[c][k] = cpuToKm[c][k]
         /\ IsSeq(cpuToKm'[c])
<1>2. ASSUME NEW k \in DOMAIN cpuToKm'[c], cpuToKm'[c][k].op = "UPDATED_CONTEXT"
      PROVE  k \in DOMAIN cpuToKm[c] /\ cpuToKm'[c][k] = cpuToKm[c][k]
  <2>1. CASE cpuToKm'[c] = cpuToKm[c]
    BY <1>2, <2>1
  <2>2. ASSUME NEW m, m.op # "UPDATED_CONTEXT", cpuToKm'[c] = Append(cpuToKm[c], m)
        PROVE  k \in DOMAIN cpuToKm[c] /\ cpuToKm'[c][k] = cpuToKm[c][k]
    <3>1. PICK s : s = cpuToKm[c]
      OBVIOUS
    <3>2. PICK u : u = cpuToKm'[c]
      OBVIOUS
    <3>3. /\ IsSeq(s) /\ IsSeq(u) /\ Len(u) = Len(s) + 1 /\ u[Len(s) + 1] = m
          /\ \A i \in 1 .. Len(s) : u[i] = s[i]
      BY <2>2, <3>1, <3>2, SeqAppend
    <3>4. Len(s) \in Nat /\ DOMAIN s = 1 .. Len(s) /\ DOMAIN u = 1 .. Len(u)
      BY <3>3, SeqFacts
    <3> QED BY <1>2, <2>2, <3>1, <3>2, <3>3, <3>4
  <2> QED BY <2>1, <2>2 DEF Asks
<1>3. Sending(c, p)' => Sending(c, p)
  BY <1>2 DEF Sending
<1>4. Sending(c, p) => Sending(c, p)'
  <2>1. CASE cpuToKm'[c] = cpuToKm[c]
    BY <2>1 DEF Sending
  <2>2. ASSUME NEW m, cpuToKm'[c] = Append(cpuToKm[c], m), Sending(c, p)
        PROVE  Sending(c, p)'
    <3>1. PICK k \in DOMAIN cpuToKm[c] : /\ cpuToKm[c][k].op = "UPDATED_CONTEXT"
                                         /\ cpuToKm[c][k].pid = p
      BY <2>2 DEF Sending
    <3>2. k \in DOMAIN cpuToKm'[c] /\ cpuToKm'[c][k] = cpuToKm[c][k]
      <4>1. PICK s : s = cpuToKm[c]
        OBVIOUS
      <4>2. /\ IsSeq(s) /\ Len(Append(s, m)) = Len(s) + 1 /\ IsSeq(Append(s, m))
            /\ \A i \in 1 .. Len(s) : Append(s, m)[i] = s[i]
        BY <4>1, SeqAppend
      <4>3. Len(s) \in Nat /\ DOMAIN s = 1 .. Len(s) /\ DOMAIN Append(s, m) = 1 .. Len(s) + 1
        BY <4>2, SeqFacts
      <4> QED BY <2>2, <3>1, <4>1, <4>2, <4>3
    <3> QED BY <3>1, <3>2 DEF Sending
  <2> QED BY <2>1, <2>2 DEF Asks
<1>5. IsSeq(cpuToKm'[c])
  <2>1. \A m : IsSeq(Append(cpuToKm[c], m))
    BY SeqAppend
  <2> QED BY <2>1 DEF Asks
<1> QED BY <1>2, <1>3, <1>4, <1>5

\* The CPU keeps the registers, or has none.
LEMMA KeepsRegs ==
  ASSUME KmInv, NEW c \in Cpu, cpu'[c].pid = cpu[c].pid, cpu'[c].regs = cpu[c].regs,
         UNCHANGED last, IsSeq(cpuToKm[c]), Asks(c),
         \/ cpu'[c].stage \in Loaded /\ cpu[c].stage \in Loaded
         \/ cpu'[c].stage = cpu[c].stage
         \/ cpu'[c].stage \in {"start", "idle"} /\ cpu[c].stage \in {"start", "idle"},
         \A k \in DOMAIN kmToCpu'[c] : kmToCpu'[c][k].op = "SEND_CONTEXT" =>
            \E j \in DOMAIN kmToCpu[c] : kmToCpu'[c][k] = kmToCpu[c][j]
  PROVE  \A p \in Pid \ overtaken : Handed(c, p)
<1> TAKE p \in Pid \ overtaken
<1>0. Owned(p)
  BY DEF KmInv
<1>1. Holding(c, p)' <=> Holding(c, p)
  BY DEF Holding, Loaded
<1>2. /\ Sending(c, p)' <=> Sending(c, p)
      /\ \A k \in DOMAIN cpuToKm'[c] : cpuToKm'[c][k].op = "UPDATED_CONTEXT" =>
           k \in DOMAIN cpuToKm[c] /\ cpuToKm'[c][k] = cpuToKm[c][k]
  BY Requests
<1>5. Receiving(c, p)' => Receiving(c, p)
  BY DEF Receiving, Loaded
<1>6. Owner(c, p)' => Owner(c, p)
  BY <1>1, <1>2, <1>5 DEF Owner
<1>7. \A k \in DOMAIN cpuToKm'[c] :
       cpuToKm'[c][k].op = "UPDATED_CONTEXT" /\ cpuToKm'[c][k].pid = p
         => cpuToKm'[c][k].regs = last'[p]
  BY <1>0, <1>2 DEF Owned
<1>8. Receiving(c, p)' =>
       \A k \in DOMAIN kmToCpu'[c] :
         kmToCpu'[c][k].op = "SEND_CONTEXT" => kmToCpu'[c][k].regs = last'[p]
  BY <1>0, <1>5 DEF Owned
<1>9. Holding(c, p)' => cpu'[c].regs = last'[p]
  BY <1>0, <1>1 DEF Owned
<1> QED BY <1>1, <1>2, <1>6, <1>7, <1>8, <1>9 DEF Handed

-----------------------------------------------------------------------------
(* The steps of a CPU.                                                     *)

\* A CPU's step changes its own state and channels, and the registers its
\* process had last.
LEMMA CpuLocal ==
  ASSUME CycleInv, KmInv, NEW c \in Cpu, CpuStep(c)
  PROVE  Local(c) /\ Arrays' /\ ~crashed
<1>0. /\ cpu = [d \in Cpu |-> cpu[d]] /\ ksToCpu = [d \in Cpu |-> ksToCpu[d]]
      /\ cpuToKs = [d \in Cpu |-> cpuToKs[d]]
      /\ kmToCpu = [d \in Cpu |-> kmToCpu[d]] /\ cpuToKm = [d \in Cpu |-> cpuToKm[d]]
      /\ context = [p \in Pid |-> context[p]] /\ last = [p \in Pid |-> last[p]]
      /\ IsSeq(sticks)
  BY DEF CycleInv, Shapes, KmInv, Arrays
<1> DEFINE Own(f, g) == f = g \/ \E x : f = [g EXCEPT ![c] = x]
<1>1. ~crashed
  BY DEF CpuStep, connect_to_kernel_memory, receive_pid, receive_context,
         receive_segment_table, connect_memory_stick, execute_local, handler_mov_in,
         handler_mov_out, handler_copy_mem, read_memory, read_done, write_memory, write_done,
         handler_mutex, handler_mem, handler_io, handler_init_proc, handler_exit,
         check_interrupt, update_segment_table, Hears, Executes, Accesses, Up
<1>2. UNCHANGED <<status, processes, ksToKm, context, overtaken, lost, crashed>>
  BY DEF CpuStep, connect_to_kernel_memory, receive_pid, receive_context,
         receive_segment_table, connect_memory_stick, execute_local, handler_mov_in,
         handler_mov_out, handler_copy_mem, read_memory, read_done, write_memory, write_done,
         handler_mutex, handler_mem, handler_io, handler_init_proc, handler_exit,
         check_interrupt, update_segment_table, Syscall, failVars, ghostVars
<1>3. Own(cpu', cpu)
  BY DEF CpuStep, connect_to_kernel_memory, receive_pid, receive_context,
         receive_segment_table, connect_memory_stick, execute_local, handler_mov_in,
         handler_mov_out, handler_copy_mem, read_memory, read_done, write_memory, write_done,
         handler_mutex, handler_mem, handler_io, handler_init_proc, handler_exit,
         check_interrupt, update_segment_table, Syscall, departs, leave, end_cycle,
         begin_access, access_fails, keep_going
<1>4. Own(ksToCpu', ksToCpu) /\ Own(kmToCpu', kmToCpu)
  BY DEF CpuStep, connect_to_kernel_memory, receive_pid, receive_context,
         receive_segment_table, connect_memory_stick, execute_local, handler_mov_in,
         handler_mov_out, handler_copy_mem, read_memory, read_done, write_memory, write_done,
         handler_mutex, handler_mem, handler_io, handler_init_proc, handler_exit,
         check_interrupt, update_segment_table, Syscall, Executes, received
<1>5. Own(cpuToKs', cpuToKs)
  BY DEF CpuStep, connect_to_kernel_memory, receive_pid, receive_context,
         receive_segment_table, connect_memory_stick, execute_local, handler_mov_in,
         handler_mov_out, handler_copy_mem, read_memory, read_done, write_memory, write_done,
         handler_mutex, handler_mem, handler_io, handler_init_proc, handler_exit,
         check_interrupt, update_segment_table, Syscall, end_cycle, leave, begin_access
<1>6. Own(cpuToKm', cpuToKm)
  BY DEF CpuStep, connect_to_kernel_memory, receive_pid, receive_context,
         receive_segment_table, connect_memory_stick, execute_local, handler_mov_in,
         handler_mov_out, handler_copy_mem, read_memory, read_done, write_memory, write_done,
         handler_mutex, handler_mem, handler_io, handler_init_proc, handler_exit,
         check_interrupt, update_segment_table, Syscall, send, access_fails, keep_going
<1>7. last' = last \/ \E q, x : last' = [last EXCEPT ![q] = x]
  BY DEF CpuStep, connect_to_kernel_memory, receive_pid, receive_context,
         receive_segment_table, connect_memory_stick, execute_local, handler_mov_in,
         handler_mov_out, handler_copy_mem, read_memory, read_done, write_memory, write_done,
         handler_mutex, handler_mem, handler_io, handler_init_proc, handler_exit,
         check_interrupt, update_segment_table, Syscall, departs, leave, end_cycle,
         begin_access, access_fails, keep_going, ghostVars
<1>8. sticks' = sticks \/ \E k, x : sticks' = [sticks EXCEPT ![k] = x]
  BY DEF CpuStep, connect_to_kernel_memory, receive_pid, receive_context,
         receive_segment_table, connect_memory_stick, execute_local, handler_mov_in,
         handler_mov_out, handler_copy_mem, read_memory, read_done, write_memory, write_done,
         handler_mutex, handler_mem, handler_io, handler_init_proc, handler_exit,
         check_interrupt, update_segment_table, Syscall, memVars
<1>9. IsSeq(sticks') /\ Len(sticks') = Len(sticks)
  <2>1. ASSUME NEW k, NEW x, sticks' = [sticks EXCEPT ![k] = x]
        PROVE  IsSeq(sticks') /\ Len(sticks') = Len(sticks)
    <3> DEFINE S == {sticks[i] : i \in DOMAIN sticks} \cup {x}
    <3>1. sticks \in Seq(S) /\ x \in S
      BY <1>0 DEF IsSeq
    <3> HIDE DEF S
    <3>2. sticks' \in Seq(S) /\ Len(sticks') = Len(sticks)
      <4>1. CASE k \in 1 .. Len(sticks)
        BY <2>1, <3>1, <4>1, ExceptSeq
      <4>2. CASE k \notin 1 .. Len(sticks)
        <5>1. sticks = [i \in 1 .. Len(sticks) |-> sticks[i]]
          BY <3>1
        <5>2. sticks' = sticks
          BY <2>1, <4>2, <5>1
        <5> QED BY <3>1, <5>2
      <4> QED BY <4>1, <4>2
    <3> QED BY <3>2, IsSeqFrom
  <2> QED BY <1>0, <1>8, <2>1
<1>10. /\ \A d \in Cpu \ {c} : SameKm(d) /\ SameFlags(d)
       /\ kmToCpu' = [d \in Cpu |-> kmToCpu'[d]] /\ cpuToKm' = [d \in Cpu |-> cpuToKm'[d]]
  <2>1. ASSUME NEW f, NEW g, g = [d \in Cpu |-> g[d]], Own(f, g)
        PROVE  f = [d \in Cpu |-> f[d]] /\ \A d \in Cpu \ {c} : f[d] = g[d]
    BY <2>1
  <2>2. /\ \A d \in Cpu \ {c} : cpu'[d] = cpu[d]
        /\ \A d \in Cpu \ {c} : ksToCpu'[d] = ksToCpu[d]
        /\ \A d \in Cpu \ {c} : cpuToKs'[d] = cpuToKs[d]
    BY <1>0, <1>3, <1>4, <1>5, <2>1
  <2>3. /\ \A d \in Cpu \ {c} : kmToCpu'[d] = kmToCpu[d]
        /\ \A d \in Cpu \ {c} : cpuToKm'[d] = cpuToKm[d]
        /\ kmToCpu' = [d \in Cpu |-> kmToCpu'[d]]
        /\ cpuToKm' = [d \in Cpu |-> cpuToKm'[d]]
    BY <1>0, <1>4, <1>6, <2>1
  <2> QED BY <2>2, <2>3 DEF SameKm, SameFlags
<1>11. context' = [p \in Pid |-> context'[p]] /\ last' = [p \in Pid |-> last'[p]]
  BY <1>0, <1>2, <1>7
<1> QED BY <1>1, <1>2, <1>9, <1>10, <1>11 DEF Local, Arrays

LEMMA CpuDone ==
  ASSUME CycleInv, KmInv, NEW c \in Cpu, CpuStep(c), KmTalk(c)', Flagged(c)',
         \A p \in Pid \ overtaken : Handed(c, p)
  PROVE  KmInv'
BY CpuLocal, LocalStep

LEMMA Sizes ==
  ASSUME KmInv, NEW c \in Cpu, ~crashed
  PROVE  Len(cpu[c].sticks) \in Nat /\ Len(sticks) \in Nat /\ KmTalk(c) /\ Flagged(c)
         /\ IsSeq(cpuToKm[c]) /\ IsSeq(cpu[c].sticks)
BY SeqFacts DEF KmInv, KmTalk, Arrays

LEMMA QuietFacts ==
  ASSUME NEW c \in Cpu, Len(cpu[c].sticks) \in Nat, Quiet(c)
  PROVE  /\ IsSeq(kmToCpu[c]) /\ Len(kmToCpu[c]) \in Nat
         /\ DOMAIN kmToCpu[c] = 1 .. Len(kmToCpu[c])
         /\ \A k \in DOMAIN kmToCpu[c] : kmToCpu[c][k].op = "PACKET"
<1>1. IsSeq(kmToCpu[c])
  BY DEF Quiet, Between, Layout
<1>2. Len(kmToCpu[c]) \in Nat /\ DOMAIN kmToCpu[c] = 1 .. Len(kmToCpu[c])
  BY <1>1, SeqFacts
<1>3. \A k : PACKET(k).op = "PACKET"
  BY DEF PACKET
<1>4. ASSUME NEW k \in 1 .. Len(kmToCpu[c]) PROVE kmToCpu[c][k].op = "PACKET"
  <2>1. k > 0 + 0
    BY <1>2
  <2>2. kmToCpu[c][k] = PACKET(Len(cpu[c].sticks) + k - 0)
    BY <2>1 DEF Quiet, Between, Layout
  <2> QED BY <1>3, <2>2
<1> QED BY <1>1, <1>2, <1>4

LEMMA KmConnect ==
  ASSUME CycleInv, KmInv, NEW c \in Cpu, connect_to_kernel_memory(c)
  PROVE  KmInv'
<1>0. CpuStep(c) /\ cpu[c] = [f \in Fields |-> cpu[c][f]] /\ cpu[c].stage = "start"
      /\ cpu = [d \in Cpu |-> cpu[d]]
  BY DEF CpuStep, CycleInv, Shapes, connect_to_kernel_memory
<1>1. Local(c) /\ Arrays' /\ ~crashed
  BY <1>0, CpuLocal
<1>2. /\ Len(cpu[c].sticks) \in Nat /\ Len(sticks) \in Nat /\ KmTalk(c) /\ Flagged(c)
      /\ IsSeq(cpuToKm[c])
  BY <1>1, Sizes
<1>3. cpuToKm[c] = <<>> /\ kmToCpu[c] = <<>> /\ cpu[c].sticks = <<>>
  BY <1>0, <1>2 DEF KmTalk
<1>4. /\ cpu'[c].stage = "idle" /\ cpu'[c].pid = cpu[c].pid /\ cpu'[c].regs = cpu[c].regs
      /\ cpu'[c].sticks = <<>> /\ cpu'[c].changed = cpu[c].changed
  BY <1>0, <1>3 DEF connect_to_kernel_memory, Fields
<1>5. cpuToKm'[c] = <<>> /\ UNCHANGED <<last, cpuToKm, sticks>>
  BY <1>3 DEF connect_to_kernel_memory, ghostVars, memVars
<1>6. kmToCpu'[c] = [k \in DOMAIN sticks |-> PACKET(k)]
  <2>1. kmToCpu'[c] = <<>> \o [k \in DOMAIN sticks |-> PACKET(k)]
    BY <1>3 DEF connect_to_kernel_memory, send_connected_sticks, KmInv, Arrays
  <2> DEFINE s == [k \in 1 .. Len(sticks) |-> PACKET(k)]
  <2>2. DOMAIN sticks = 1 .. Len(sticks)
    BY SeqFacts DEF KmInv, Arrays
  <2>3. s \in Seq({PACKET(k) : k \in 1 .. Len(sticks)})
    BY <1>2
  <2> HIDE DEF s
  <2>4. <<>> \o s = s
    BY <2>3
  <2> QED BY <2>1, <2>2, <2>4 DEF s
<1>7. Quiet(c)'
  <2>1. PICK s : s = kmToCpu'[c]
    OBVIOUS
  <2>2. DOMAIN sticks = 1 .. Len(sticks)
    BY SeqFacts DEF KmInv, Arrays
  <2>3. s = [k \in 1 .. Len(sticks) |-> PACKET(k)]
    BY <1>6, <2>1, <2>2
  <2>4. s \in Seq({PACKET(k) : k \in 1 .. Len(sticks)}) /\ Len(s) = Len(sticks)
    BY <1>2, <2>3
  <2>5. IsSeq(s)
    BY <2>4, IsSeqFrom
  <2>6. \A i \in 1 .. Len(s) : s[i] = PACKET(0 + i - 0) /\ ~(i <= 0)
    BY <1>2, <2>3, <2>4
  <2>7. Layout(s, 0, Len(sticks), 0, 0)
    BY <1>2, <2>4, <2>5, <2>6 DEF Layout
  <2> QED BY <1>4, <1>5, <2>1, <2>7 DEF Quiet, Between
<1>8. KmTalk(c)'
  <2>1. IsSeq(cpu'[c].sticks) /\ IsSeq(cpuToKm'[c])
    BY <1>4, <1>5, SeqEmpty
  <2> QED BY <1>4, <1>5, <1>7, <2>1 DEF KmTalk
<1>9. Flagged(c)'
  BY <1>0, <1>2, <1>4 DEF Flagged
<1>10. \A k \in DOMAIN kmToCpu'[c] : kmToCpu'[c][k].op # "SEND_CONTEXT"
  <2>1. Len(cpu'[c].sticks) \in Nat
    BY <1>4
  <2> QED BY <1>6, <1>7 DEF PACKET
<1>11. \A p \in Pid \ overtaken : Handed(c, p)
  BY <1>0, <1>2, <1>4, <1>5, <1>10, KeepsRegs DEF Asks
<1> QED BY <1>0, <1>8, <1>9, <1>11, CpuDone

\* What every step of a CPU starts from.
LEMMA Setting ==
  ASSUME CycleInv, KmInv, NEW c \in Cpu, CpuStep(c)
  PROVE  /\ Local(c) /\ Arrays' /\ ~crashed /\ KmTalk(c) /\ Flagged(c)
         /\ Len(cpu[c].sticks) \in Nat /\ Len(sticks) \in Nat /\ Len(sticks') = Len(sticks)
         /\ IsSeq(cpuToKm[c]) /\ IsSeq(cpu[c].sticks)
         /\ cpu[c] = [f \in Fields |-> cpu[c][f]] /\ cpu = [d \in Cpu |-> cpu[d]]
         /\ kmToCpu = [d \in Cpu |-> kmToCpu[d]] /\ cpuToKm = [d \in Cpu |-> cpuToKm[d]]
         /\ cpuToKs = [d \in Cpu |-> cpuToKs[d]] /\ ksToCpu = [d \in Cpu |-> ksToCpu[d]]
         /\ last = [p \in Pid |-> last[p]]
<1>1. Local(c) /\ Arrays' /\ ~crashed
  BY CpuLocal
<1>2. Len(cpu[c].sticks) \in Nat /\ Len(sticks) \in Nat /\ KmTalk(c) /\ Flagged(c)
      /\ IsSeq(cpuToKm[c]) /\ IsSeq(cpu[c].sticks)
  BY <1>1, Sizes
<1> QED BY <1>1, <1>2 DEF Local, CycleInv, Shapes, KmInv, Arrays

\* A message that is no stick is an answer, and no stick is before it.
LEMMA HeadAnswer ==
  ASSUME NEW ch, NEW known \in Nat, NEW listed \in Nat, NEW k \in Nat, NEW n \in Nat,
         Layout(ch, known, listed, k, n), ch # <<>>, Head(ch).op # "PACKET"
  PROVE  k = 0 /\ n # 0
<1>1. Len(ch) \in Nat \ {0} /\ Head(ch) = ch[1]
  BY SeqTail DEF Layout
<1>2. \A i : PACKET(i).op = "PACKET"
  BY DEF PACKET
<1>3. 1 \in 1 .. Len(ch)
  BY <1>1
<1>4. (1 <= k => ch[1] = PACKET(known + 1)) /\ (1 > k + n => ch[1] = PACKET(known + 1 - n))
  BY <1>3 DEF Layout
<1>5. ~(1 <= k) /\ ~(1 > k + n)
  BY <1>1, <1>2, <1>4
<1> QED BY <1>5

LEMMA KmReceivePid ==
  ASSUME CycleInv, KmInv, NEW c \in Cpu, receive_pid(c)
  PROVE  KmInv'
<1>0. CpuStep(c) /\ cpu[c].stage = "idle" /\ ksToCpu[c] # <<>>
  BY DEF CpuStep, receive_pid
<1>1. /\ ~crashed /\ KmTalk(c) /\ Flagged(c) /\ Len(sticks') = Len(sticks)
      /\ IsSeq(cpuToKm[c]) /\ IsSeq(cpu[c].sticks) /\ Len(cpu[c].sticks) \in Nat
      /\ cpu[c] = [f \in Fields |-> cpu[c][f]] /\ cpu = [d \in Cpu |-> cpu[d]]
      /\ cpuToKm = [d \in Cpu |-> cpuToKm[d]]
  BY <1>0, Setting
<1>2. cpuToKs[c] = <<>> /\ Waiting(c)
  BY <1>0 DEF CycleInv, Conversation, Talk
<1>3. PICK q \in Pid : ksToCpu[c] = <<RESUME_PROCESS(q)>>
  BY <1>0, <1>2 DEF Waiting
<1>4. Head(ksToCpu[c]).op = "RESUME_PROCESS" /\ Head(ksToCpu[c]).pid = q
  BY <1>3, OneMessage DEF RESUME_PROCESS
<1>5. /\ cpu' = [cpu EXCEPT ![c].stage = "context", ![c].pid = q]
      /\ cpuToKm' = send(cpuToKm, c, REQUEST_CONTEXT(q))
      /\ UNCHANGED <<last, kmToCpu, cpuToKs>>
  BY <1>4 DEF receive_pid
<1>6. /\ cpu'[c].stage = "context" /\ cpu'[c].pid = q /\ cpu'[c].sticks = cpu[c].sticks
      /\ cpu'[c].changed = cpu[c].changed
  BY <1>1, <1>5 DEF Fields
<1>7. cpuToKm'[c] = Append(cpuToKm[c], REQUEST_CONTEXT(q))
  BY <1>1, <1>5 DEF send
<1>8. Quiet(c) /\ (cpuToKm[c] = <<>> \/ (cpuToKm[c] = <<cpuToKm[c][1]>> /\ Saves(cpuToKm[c])))
  BY <1>0, <1>1 DEF KmTalk
<1>9. Quiet(c)'
  BY <1>1, <1>5, <1>6, <1>8 DEF Quiet, Between
<1>10. KmTalk(c)'
  <2>1. IsSeq(cpu'[c].sticks) /\ IsSeq(cpuToKm'[c])
    BY <1>1, <1>6, <1>7, SeqAppend
  <2>2. CASE cpuToKm[c] = <<>>
    <3>1. cpuToKm'[c] = <<REQUEST_CONTEXT(q)>>
      BY <1>7, <2>2, OneMessage
    <3> QED BY <1>6, <1>9, <2>1, <3>1 DEF KmTalk
  <2>3. CASE cpuToKm[c] = <<cpuToKm[c][1]>> /\ Saves(cpuToKm[c])
    <3>1. PICK x : x = cpuToKm[c][1]
      OBVIOUS
    <3>2. cpuToKm'[c] = <<x, REQUEST_CONTEXT(q)>>
      BY <1>7, <2>3, <3>1, TwoMessages
    <3>3. cpuToKm'[c][1] = x /\ cpuToKm'[c] # <<>>
      BY <3>2, TwoMessages
    <3>4. Saves(cpuToKm'[c])
      BY <2>3, <3>1, <3>3 DEF Saves
    <3> QED BY <1>6, <1>9, <2>1, <3>2, <3>3, <3>4 DEF KmTalk
  <2> QED BY <1>8, <2>2, <2>3
<1>11. Flagged(c)'
  BY <1>0, <1>1, <1>6 DEF Flagged
<1>12. \A k \in DOMAIN kmToCpu[c] : kmToCpu[c][k].op # "SEND_CONTEXT"
  BY <1>1, <1>8, QuietFacts
<1>13. \A p \in Pid \ overtaken : Handed(c, p)
  <2> TAKE p \in Pid \ overtaken
  <2>1. ~Holding(c, p) /\ ~Holding(c, p)' /\ ~Receiving(c, p)'
    BY <1>0, <1>5, <1>6, <1>12 DEF Holding, Loaded, Receiving
  <2>2. REQUEST_CONTEXT(q).op # "UPDATED_CONTEXT"
    BY DEF REQUEST_CONTEXT
  <2>3. Asks(c)
    BY <1>7, <2>2 DEF Asks
  <2>4. /\ Sending(c, p)' <=> Sending(c, p)
        /\ \A k \in DOMAIN cpuToKm'[c] : cpuToKm'[c][k].op = "UPDATED_CONTEXT" =>
             k \in DOMAIN cpuToKm[c] /\ cpuToKm'[c][k] = cpuToKm[c][k]
    BY <1>1, <2>3, Requests
  <2>5. Owned(p)
    BY DEF KmInv
  <2>6. \A k \in DOMAIN cpuToKm'[c] :
          cpuToKm'[c][k].op = "UPDATED_CONTEXT" /\ cpuToKm'[c][k].pid = p
            => cpuToKm'[c][k].regs = last'[p]
    BY <1>5, <2>4, <2>5 DEF Owned
  <2> QED BY <1>5, <2>1, <2>4, <2>6 DEF Handed, Owner
<1> QED BY <1>0, <1>10, <1>11, <1>13, CpuDone

LEMMA KmReceiveContext ==
  ASSUME CycleInv, KmInv, NEW c \in Cpu, receive_context(c)
  PROVE  KmInv'
<1>0. /\ CpuStep(c) /\ cpu[c].stage = "context" /\ kmToCpu[c] # <<>>
      /\ Head(kmToCpu[c]).op = "SEND_CONTEXT"
  BY DEF CpuStep, receive_context, Hears, Next_is
<1>1. /\ ~crashed /\ KmTalk(c) /\ Flagged(c) /\ Len(sticks') = Len(sticks)
      /\ IsSeq(cpuToKm[c]) /\ IsSeq(cpu[c].sticks) /\ Len(cpu[c].sticks) \in Nat
      /\ cpu[c] = [f \in Fields |-> cpu[c][f]] /\ cpu = [d \in Cpu |-> cpu[d]]
      /\ kmToCpu = [d \in Cpu |-> kmToCpu[d]] /\ Len(sticks) \in Nat
  BY <1>0, Setting
<1>2. /\ cpu'[c].stage = "table" /\ cpu'[c].pid = cpu[c].pid
      /\ cpu'[c].sticks = cpu[c].sticks /\ cpu'[c].changed = cpu[c].changed
      /\ cpu'[c].regs = Head(kmToCpu[c]).regs
      /\ UNCHANGED <<cpuToKm, last, status, overtaken>>
      /\ kmToCpu'[c] = Tail(kmToCpu[c])
  BY <1>1 DEF receive_context, received, Fields, ghostVars
<1>3. ~Quiet(c)
  <2> SUFFICES ASSUME Quiet(c) PROVE FALSE
    OBVIOUS
  <2>1. Layout(kmToCpu[c], Len(cpu[c].sticks), Len(sticks), 0, 0)
    BY DEF Quiet, Between
  <2> QED BY <1>0, <1>1, <2>1, HeadAnswer
<1>4. Loads(c) /\ cpuToKm[c] = <<>>
  BY <1>0, <1>1, <1>3 DEF KmTalk
<1>5. PICK ch : ch = kmToCpu[c]
  OBVIOUS
<1>6. PICK known \in Nat : known = Len(cpu[c].sticks)
  BY <1>1
<1>7. PICK k \in 0 .. Len(ch) :
        Layout(ch, known, Len(sticks), k, 2) /\ ch[k + 1].op = "SEND_CONTEXT"
        /\ ch[k + 2].op = "SEGMENT_TABLE"
  BY <1>4, <1>5, <1>6 DEF Loads, Between
<1>8. k = 0
  <2>1. k \in Nat
    BY <1>7, SeqFacts DEF Layout
  <2> QED BY <1>0, <1>1, <1>5, <1>6, <1>7, <2>1, HeadAnswer
<1>9. /\ Layout(Tail(ch), known, Len(sticks), 0, 1) /\ Head(ch) = ch[1]
      /\ Len(Tail(ch)) = Len(ch) - 1 /\ Len(ch) \in Nat /\ Len(ch) >= 2
      /\ \A i \in 1 .. Len(ch) - 1 : Tail(ch)[i] = ch[i + 1]
  <2>0. PICK n \in Nat \ {0} : n = 2
    OBVIOUS
  <2>1. Layout(ch, known, Len(sticks), 0, 2)
    BY <1>7, <1>8
  <2>2. Layout(Tail(ch), known, Len(sticks), 0, n - 1) /\ Head(ch) = ch[1]
        /\ Len(Tail(ch)) = Len(ch) - 1
        /\ \A i \in 1 .. Len(ch) - 1 : Tail(ch)[i] = ch[i + 1]
    BY <1>1, <2>0, <2>1, LayoutHear
  <2>3. Len(ch) \in Nat /\ Len(ch) >= 2
    BY <2>1, SeqFacts DEF Layout
  <2> QED BY <2>0, <2>2, <2>3
<1>10. Answer(c, "SEGMENT_TABLE")'
  <2>1. 0 \in 0 .. Len(Tail(ch)) /\ 1 \in 1 .. Len(ch) - 1
    BY <1>9
  <2>2. Tail(ch)[0 + 1].op = "SEGMENT_TABLE"
    BY <1>7, <1>8, <1>9, <2>1
  <2> QED BY <1>1, <1>2, <1>5, <1>6, <1>9, <2>1, <2>2 DEF Answer, Between
<1>11. KmTalk(c)'
  BY <1>1, <1>2, <1>4, <1>10 DEF KmTalk
<1>12. Flagged(c)'
  BY <1>0, <1>1, <1>2 DEF Flagged
<1>13. \A p \in Pid \ overtaken : Handed(c, p)
  <2> TAKE p \in Pid \ overtaken
  <2>1. 1 \in DOMAIN kmToCpu[c] /\ kmToCpu[c][1] = Head(kmToCpu[c])
    <3>1. DOMAIN ch = 1 .. Len(ch)
      BY <1>7, SeqFacts DEF Layout
    <3> QED BY <1>5, <1>9, <3>1
  <2>2. ~Receiving(c, p)' /\ ~Holding(c, p) /\ (Holding(c, p)' => Receiving(c, p))
    BY <1>0, <1>2, <2>1 DEF Receiving, Holding, Loaded
  <2>3. Sending(c, p)' <=> Sending(c, p)
    BY <1>2 DEF Sending
  <2>4. Owned(p)
    BY DEF KmInv
  <2>5. Holding(c, p)' => cpu'[c].regs = last'[p]
    BY <1>0, <1>2, <2>1, <2>2, <2>4 DEF Owned
  <2>6. \A j \in DOMAIN cpuToKm'[c] :
          cpuToKm'[c][j].op = "UPDATED_CONTEXT" /\ cpuToKm'[c][j].pid = p
            => cpuToKm'[c][j].regs = last'[p]
    BY <1>2, <2>4 DEF Owned
  <2> QED BY <1>2, <2>2, <2>3, <2>5, <2>6 DEF Handed, Owner
<1> QED BY <1>0, <1>11, <1>12, <1>13, CpuDone

\* The one answer is at the head: nothing but sticks is left.
LEMMA TakesAnswer ==
  ASSUME NEW c \in Cpu, NEW op, Answer(c, op), kmToCpu[c] # <<>>,
         Head(kmToCpu[c]).op # "PACKET", Len(cpu[c].sticks) \in Nat, Len(sticks) \in Nat,
         cpu'[c].sticks = cpu[c].sticks, Len(sticks') = Len(sticks),
         kmToCpu'[c] = Tail(kmToCpu[c])
  PROVE  Quiet(c)'
<1>1. PICK ch : ch = kmToCpu[c]
  OBVIOUS
<1>2. PICK known \in Nat : known = Len(cpu[c].sticks)
  OBVIOUS
<1>3. PICK n \in Nat \ {0} : n = 1
  OBVIOUS
<1>4. PICK k \in 0 .. Len(ch) : Layout(ch, known, Len(sticks), k, n)
  BY <1>1, <1>2, <1>3 DEF Answer, Between
<1>5. k = 0
  <2>1. k \in Nat
    BY <1>4, SeqFacts DEF Layout
  <2> QED BY <1>1, <1>4, <2>1, HeadAnswer
<1>6. Layout(Tail(ch), known, Len(sticks), 0, n - 1)
  BY <1>4, <1>5, LayoutHear
<1>7. n - 1 = 0
  BY <1>3
<1> QED BY <1>1, <1>2, <1>6, <1>7 DEF Quiet, Between

\* A quiet channel stays quiet while the CPU takes nothing from it.
LEMMA StaysQuiet ==
  ASSUME NEW c \in Cpu, Quiet(c), cpu'[c].sticks = cpu[c].sticks,
         Len(sticks') = Len(sticks), kmToCpu'[c] = kmToCpu[c]
  PROVE  Quiet(c)'
BY DEF Quiet, Between

\* What is left of a channel was there before.
LEMMA FewerMessages ==
  ASSUME NEW ch, IsSeq(ch), ch # <<>>
  PROVE  \A k \in DOMAIN Tail(ch) : \E j \in DOMAIN ch : Tail(ch)[k] = ch[j]
<1>1. /\ IsSeq(Tail(ch)) /\ Len(Tail(ch)) = Len(ch) - 1 /\ Len(ch) \in Nat \ {0}
      /\ \A i \in 1 .. Len(ch) - 1 : Tail(ch)[i] = ch[i + 1]
  BY SeqTail
<1>2. DOMAIN Tail(ch) = 1 .. Len(ch) - 1 /\ DOMAIN ch = 1 .. Len(ch)
  BY <1>1, SeqFacts
<1>3. ASSUME NEW k \in 1 .. Len(ch) - 1 PROVE \E j \in 1 .. Len(ch) : Tail(ch)[k] = ch[j]
  <2>1. PICK j \in 1 .. Len(ch) : j = k + 1
    BY <1>1
  <2> QED BY <1>1, <2>1
<1> QED BY <1>2, <1>3

LEMMA AnswerIsSeq ==
  ASSUME NEW c \in Cpu,
         (\E op : Answer(c, op)) \/ Loads(c) \/ Quiet(c)
  PROVE  IsSeq(kmToCpu[c])
BY DEF Answer, Loads, Quiet, Between, Layout

LEMMA KmReceiveTable ==
  ASSUME CycleInv, KmInv, NEW c \in Cpu, receive_segment_table(c)
  PROVE  KmInv'
<1>0. /\ CpuStep(c) /\ cpu[c].stage = "table" /\ kmToCpu[c] # <<>>
      /\ Head(kmToCpu[c]).op = "SEGMENT_TABLE"
  BY DEF CpuStep, receive_segment_table, Hears, Next_is
<1>1. /\ ~crashed /\ KmTalk(c) /\ Flagged(c) /\ Len(sticks') = Len(sticks)
      /\ IsSeq(cpuToKm[c]) /\ IsSeq(cpu[c].sticks) /\ Len(cpu[c].sticks) \in Nat
      /\ cpu[c] = [f \in Fields |-> cpu[c][f]] /\ cpu = [d \in Cpu |-> cpu[d]]
      /\ kmToCpu = [d \in Cpu |-> kmToCpu[d]] /\ cpuToKm = [d \in Cpu |-> cpuToKm[d]]
      /\ Len(sticks) \in Nat
  BY <1>0, Setting
<1>2. /\ cpu'[c].stage = "fetch" /\ cpu'[c].pid = cpu[c].pid /\ cpu'[c].regs = cpu[c].regs
      /\ cpu'[c].sticks = cpu[c].sticks /\ cpu'[c].changed = cpu[c].changed
      /\ UNCHANGED <<last, status, overtaken>>
      /\ kmToCpu'[c] = Tail(kmToCpu[c])
      /\ cpuToKm'[c] = Append(cpuToKm[c], NEXT_INSTRUCTION(cpu[c].pid, cpu[c].regs["PC"]))
  BY <1>1 DEF receive_segment_table, received, send, Fields, ghostVars
<1>3. Answer(c, "SEGMENT_TABLE") /\ cpuToKm[c] = <<>>
  BY <1>0, <1>1 DEF KmTalk
<1>4. Quiet(c)'
  BY <1>0, <1>1, <1>2, <1>3, TakesAnswer
<1>5. cpuToKm'[c] = <<NEXT_INSTRUCTION(cpu[c].pid, cpu[c].regs["PC"])>>
  BY <1>2, <1>3, OneMessage
<1>6. IsSeq(cpuToKm'[c])
  BY <1>5, SeqOne
<1>7. KmTalk(c)'
  BY <1>1, <1>2, <1>4, <1>5, <1>6 DEF KmTalk
<1>8. Flagged(c)'
  BY <1>0, <1>1, <1>2 DEF Flagged
<1>9. \A k \in DOMAIN kmToCpu'[c] : \E j \in DOMAIN kmToCpu[c] : kmToCpu'[c][k] = kmToCpu[c][j]
  BY <1>0, <1>2, <1>3, AnswerIsSeq, FewerMessages
<1>10. Asks(c)
  BY <1>2 DEF Asks, NEXT_INSTRUCTION
<1>11. cpu'[c].stage \in Loaded /\ cpu[c].stage \in Loaded
  BY <1>0, <1>2 DEF Loaded
<1>12. \A p \in Pid \ overtaken : Handed(c, p)
  BY <1>1, <1>2, <1>9, <1>10, <1>11, KeepsRegs
<1> QED BY <1>0, <1>7, <1>8, <1>12, CpuDone

\* While a CPU has registers, those it sent before have arrived.
LEMMA NothingSent ==
  ASSUME NEW c \in Cpu, KmTalk(c), cpu[c].stage \in Loaded
  PROVE  \A k \in DOMAIN cpuToKm[c] : cpuToKm[c][k].op # "UPDATED_CONTEXT"
<1>1. \/ cpuToKm[c] = <<>>
      \/ cpuToKm[c] = <<NEXT_INSTRUCTION(cpu[c].pid, cpu[c].regs["PC"])>>
      \/ cpuToKm[c] = <<UPDATED_SEGMENT_TABLE(cpu[c].pid)>>
  BY DEF KmTalk, Loaded
<1>2. /\ NEXT_INSTRUCTION(cpu[c].pid, cpu[c].regs["PC"]).op # "UPDATED_CONTEXT"
      /\ UPDATED_SEGMENT_TABLE(cpu[c].pid).op # "UPDATED_CONTEXT"
  BY DEF NEXT_INSTRUCTION, UPDATED_SEGMENT_TABLE
<1>3. ASSUME NEW m, m.op # "UPDATED_CONTEXT", cpuToKm[c] = <<m>>
      PROVE  \A k \in DOMAIN cpuToKm[c] : cpuToKm[c][k].op # "UPDATED_CONTEXT"
  BY <1>3, SeqOne
<1> QED BY <1>1, <1>2, <1>3, SeqEmpty

\* A CPU leaves: the registers of its process are those Kernel Memory has.
LEMMA KmDeparts ==
  ASSUME CycleInv, KmInv, NEW c \in Cpu, CpuStep(c), departs(c),
         cpu[c].stage \in {"idle", "context"} \/ cpu[c].stage \in Loaded,
         \/ cpuToKm'[c] = cpuToKm[c]
         \/ cpuToKm'[c] = Append(cpuToKm[c], STICK_DISCONNECTED),
         \A k \in DOMAIN cpuToKm[c] : cpuToKm[c][k].op = "NEXT_INSTRUCTION" => lost # {}
  PROVE  KmInv'
<1>1. /\ ~crashed /\ KmTalk(c) /\ Local(c)
      /\ IsSeq(cpuToKm[c]) /\ IsSeq(cpu[c].sticks)
      /\ cpu[c] = [f \in Fields |-> cpu[c][f]] /\ cpu = [d \in Cpu |-> cpu[d]]
      /\ last = [p \in Pid |-> last[p]]
  BY Setting
<1>2. cpu'[c].stage = "gone" /\ cpu'[c].sticks = cpu[c].sticks
  BY <1>1 DEF departs, Gone, Released, Fields
<1>3. Asks(c)
  BY DEF Asks, STICK_DISCONNECTED
<1>4. \A k \in DOMAIN cpuToKm'[c] : cpuToKm'[c][k].op = "NEXT_INSTRUCTION" => lost' # {}
  <2>0. lost' = lost
    BY <1>1 DEF Local
  <2>1. CASE cpuToKm'[c] = Append(cpuToKm[c], STICK_DISCONNECTED)
    <3>1. PICK s : s = cpuToKm[c]
      OBVIOUS
    <3>2. PICK m : m = STICK_DISCONNECTED
      OBVIOUS
    <3>3. /\ IsSeq(Append(s, m)) /\ Len(Append(s, m)) = Len(s) + 1
          /\ \A i \in 1 .. Len(s) : Append(s, m)[i] = s[i]
          /\ Append(s, m)[Len(s) + 1] = m
      BY <1>1, <3>1, SeqAppend
    <3>4. /\ Len(s) \in Nat /\ DOMAIN s = 1 .. Len(s)
          /\ DOMAIN Append(s, m) = 1 .. Len(s) + 1
      BY <1>1, <3>1, <3>3, SeqFacts
    <3>5. m.op # "NEXT_INSTRUCTION"
      BY <3>2 DEF STICK_DISCONNECTED
    <3>6. \A k \in 1 .. Len(s) : s[k].op = "NEXT_INSTRUCTION" => lost # {}
      BY <3>1, <3>4
    <3>7. \A k \in 1 .. Len(s) + 1 : Append(s, m)[k].op = "NEXT_INSTRUCTION" => lost # {}
      BY <3>3, <3>4, <3>5, <3>6
    <3> QED BY <2>0, <2>1, <3>1, <3>2, <3>4, <3>7
  <2> QED BY <2>0, <2>1
<1>5. IsSeq(cpuToKm'[c])
  BY <1>1, <1>3, Requests
<1>6. KmTalk(c)'
  BY <1>1, <1>2, <1>4, <1>5 DEF KmTalk
<1>7. Flagged(c)'
  BY <1>2 DEF Flagged
<1>8. \A p \in Pid \ overtaken : Handed(c, p)
  <2> TAKE p \in Pid \ overtaken
  <2>1. ~Holding(c, p)' /\ ~Receiving(c, p)'
    BY <1>2 DEF Holding, Receiving, Loaded
  <2>2. /\ Sending(c, p)' <=> Sending(c, p)
        /\ \A k \in DOMAIN cpuToKm'[c] : cpuToKm'[c][k].op = "UPDATED_CONTEXT" =>
             k \in DOMAIN cpuToKm[c] /\ cpuToKm'[c][k] = cpuToKm[c][k]
    BY <1>1, <1>3, Requests
  <2>3. Owned(p)
    BY DEF KmInv
  <2>4. CASE ~Holding(c, p)
    <3>1. last'[p] = last[p]
      BY <1>1, <2>4 DEF departs, Holding, Loaded
    <3>2. \A k \in DOMAIN cpuToKm'[c] :
            cpuToKm'[c][k].op = "UPDATED_CONTEXT" /\ cpuToKm'[c][k].pid = p
              => cpuToKm'[c][k].regs = last'[p]
      BY <2>2, <2>3, <3>1 DEF Owned
    <3> QED BY <2>1, <2>2, <2>4, <3>1, <3>2 DEF Handed, Owner
  <2>5. CASE Holding(c, p)
    <3>1. cpu[c].stage \in Loaded /\ cpu[c].pid = p
      BY <2>5 DEF Holding
    <3>2. \A k \in DOMAIN cpuToKm[c] : cpuToKm[c][k].op # "UPDATED_CONTEXT"
      BY <1>1, <3>1, NothingSent
    <3>3. Saved(c, p) = context[p]
      <4> DEFINE sent == {k \in DOMAIN cpuToKm[c] : /\ cpuToKm[c][k].op = "UPDATED_CONTEXT"
                                                    /\ cpuToKm[c][k].pid = p}
      <4>1. sent = {}
        BY <3>2
      <4>2. Saved(c, p) = IF sent = {} THEN context[p] ELSE cpuToKm[c][Max(sent)].regs
        BY DEF Saved
      <4> HIDE DEF sent
      <4> QED BY <4>1, <4>2
    <3>4. last'[p] = context[p]
      BY <1>1, <3>1, <3>3 DEF departs, Loaded
    <3>5. \A k \in DOMAIN cpuToKm'[c] : cpuToKm'[c][k].op # "UPDATED_CONTEXT"
      BY <2>2, <3>2
    <3> QED BY <2>1, <2>2, <2>5, <3>4, <3>5 DEF Handed, Owner
  <2> QED BY <2>4, <2>5
<1> QED BY <1>6, <1>7, <1>8, CpuDone

\* The channel from Kernel Memory after the answer the CPU waited for, or while
\* it waits for none.
Heard(c) ==
  \/ cpu[c].stage \in {"access", "interrupt"} /\ kmToCpu'[c] = kmToCpu[c]
  \/ /\ cpu[c].stage \in {"fetch", "update"} /\ kmToCpu[c] # <<>>
     /\ Head(kmToCpu[c]).op # "PACKET" /\ kmToCpu'[c] = Tail(kmToCpu[c])

LEMMA HeardFacts ==
  ASSUME CycleInv, KmInv, NEW c \in Cpu, CpuStep(c), Heard(c),
         cpu'[c].sticks = cpu[c].sticks
  PROVE  /\ Quiet(c)' /\ cpuToKm[c] = <<>> /\ cpu[c].stage \in Loaded
         /\ \A k \in DOMAIN kmToCpu'[c] :
              \E j \in DOMAIN kmToCpu[c] : kmToCpu'[c][k] = kmToCpu[c][j]
<1>1. /\ KmTalk(c) /\ Len(sticks') = Len(sticks) /\ Len(sticks) \in Nat
      /\ Len(cpu[c].sticks) \in Nat
  BY Setting
<1>2. CASE cpu[c].stage \in {"access", "interrupt"} /\ kmToCpu'[c] = kmToCpu[c]
  <2>1. Quiet(c) /\ cpuToKm[c] = <<>>
    BY <1>1, <1>2 DEF KmTalk
  <2> QED BY <1>1, <1>2, <2>1, StaysQuiet DEF Loaded
<1>3. CASE /\ cpu[c].stage \in {"fetch", "update"} /\ kmToCpu[c] # <<>>
           /\ Head(kmToCpu[c]).op # "PACKET" /\ kmToCpu'[c] = Tail(kmToCpu[c])
  <2>1. ~Quiet(c)
    <3>1. ~Layout(kmToCpu[c], Len(cpu[c].sticks), Len(sticks), 0, 0)
      BY <1>1, <1>3, HeadAnswer
    <3> QED BY <3>1 DEF Quiet, Between
  <2>2. PICK op : Answer(c, op) /\ cpuToKm[c] = <<>>
    BY <1>1, <1>3, <2>1 DEF KmTalk
  <2>3. Quiet(c)'
    BY <1>1, <1>3, <2>2, TakesAnswer
  <2>4. \A k \in DOMAIN kmToCpu'[c] :
          \E j \in DOMAIN kmToCpu[c] : kmToCpu'[c][k] = kmToCpu[c][j]
    BY <1>3, <2>2, AnswerIsSeq, FewerMessages
  <2> QED BY <1>3, <2>2, <2>3, <2>4 DEF Loaded
<1> QED BY <1>2, <1>3 DEF Heard

\* The cycle ends: the registers are the process's last, and Kernel Memory is
\* asked nothing.
LEMMA KmEndCycle ==
  ASSUME CycleInv, KmInv, NEW c \in Cpu, CpuStep(c), NEW regs, NEW m, NEW changed \in BOOLEAN,
         end_cycle(c, regs, <<m>>, changed), cpu[c].stage \in {"fetch", "access"}, Heard(c),
         UNCHANGED <<cpuToKm, ksToCpu>>, changed <=> m.op \in MemOps,
         m.op \in MemOps => m.pid = cpu[c].pid
  PROVE  KmInv'
<1>1. /\ ~crashed /\ KmTalk(c) /\ Flagged(c) /\ IsSeq(cpu[c].sticks) /\ Local(c)
      /\ cpu[c] = [f \in Fields |-> cpu[c][f]] /\ cpu = [d \in Cpu |-> cpu[d]]
      /\ cpuToKs = [d \in Cpu |-> cpuToKs[d]] /\ last = [p \in Pid |-> last[p]]
  BY Setting
<1>2. PICK next : next = increment_pc(cpu[c].regs, regs)
  OBVIOUS
<1>3. /\ cpu'[c].stage = "interrupt" /\ cpu'[c].pid = cpu[c].pid /\ cpu'[c].regs = next
      /\ cpu'[c].sticks = cpu[c].sticks
      /\ cpu'[c].changed = (cpu[c].changed \/ changed)
      /\ last' = [last EXCEPT ![cpu[c].pid] = next]
      /\ cpuToKs'[c] = cpuToKs[c] \o <<m>>
  BY <1>1, <1>2 DEF end_cycle, Fields
<1>4. cpuToKs[c] = <<>> /\ ksToCpu[c] = <<>>
  BY DEF CycleInv, Conversation, Talk, Working
<1>5. Quiet(c)' /\ cpuToKm[c] = <<>> /\ cpu[c].stage \in Loaded
  BY <1>3, HeardFacts
<1>6. KmTalk(c)'
  BY <1>1, <1>3, <1>5, SeqEmpty DEF KmTalk
<1>7. cpuToKs'[c] = <<m>> /\ Head(cpuToKs'[c]) = m /\ ksToCpu'[c] = <<>>
  BY <1>3, <1>4, OneMessage
<1>8. Flagged(c)'
  <2>1. ~cpu[c].changed /\ cpu[c].pid \in Pid
    BY <1>1 DEF Flagged
  <2>2. cpu'[c].changed <=> m.op \in MemOps
    BY <1>3, <2>1
  <2> QED BY <1>3, <1>7, <2>1, <2>2 DEF Flagged
<1>9. \A p \in Pid \ overtaken : Handed(c, p)
  <2> TAKE p \in Pid \ overtaken
  <2>0. Owned(p)
    BY DEF KmInv
  <2>1. (Holding(c, p)' <=> Holding(c, p)) /\ ~Receiving(c, p)'
    BY <1>3, <1>5 DEF Holding, Receiving, Loaded
  <2>2. ~Sending(c, p)' /\ ~Sending(c, p) /\ DOMAIN cpuToKm'[c] = {}
    BY <1>5, SeqEmpty DEF Sending
  <2>3. IF Holding(c, p) THEN last'[p] = next ELSE last'[p] = last[p]
    BY <1>1, <1>3, <1>5 DEF Holding
  <2> QED BY <1>3, <2>0, <2>1, <2>2, <2>3 DEF Handed, Owner, Owned
<1> QED BY <1>6, <1>8, <1>9, CpuDone

\* An access to memory begins or goes on.
LEMMA KmAccess ==
  ASSUME CycleInv, KmInv, NEW c \in Cpu, CpuStep(c), cpu[c].stage \in {"fetch", "access"},
         Heard(c), UNCHANGED <<cpuToKm, last>>, cpu'[c].stage = "access",
         cpu'[c].pid = cpu[c].pid, cpu'[c].regs = cpu[c].regs,
         cpu'[c].sticks = cpu[c].sticks, cpu'[c].changed = cpu[c].changed
  PROVE  KmInv'
<1>1. ~crashed /\ KmTalk(c) /\ Flagged(c) /\ IsSeq(cpu[c].sticks) /\ IsSeq(cpuToKm[c])
  BY Setting
<1>2. /\ Quiet(c)' /\ cpuToKm[c] = <<>> /\ cpu[c].stage \in Loaded
      /\ \A k \in DOMAIN kmToCpu'[c] :
           \E j \in DOMAIN kmToCpu[c] : kmToCpu'[c][k] = kmToCpu[c][j]
  BY HeardFacts
<1>3. KmTalk(c)'
  BY <1>1, <1>2, SeqEmpty DEF KmTalk
<1>4. Flagged(c)'
  BY <1>1 DEF Flagged
<1>5. Asks(c) /\ cpu'[c].stage \in Loaded
  BY DEF Asks, Loaded
<1>6. \A p \in Pid \ overtaken : Handed(c, p)
  BY <1>1, <1>2, <1>5, KeepsRegs
<1> QED BY <1>3, <1>4, <1>6, CpuDone

LEMMA ReleasedFields ==
  ASSUME NEW t, t = [f \in Fields |-> t[f]]
  PROVE  /\ Released(t).stage = "idle" /\ Released(t).sticks = t.sticks
         /\ Released(t).changed = FALSE
BY DEF Released, Fields

\* The CPU goes on with the next instruction, or sends the registers.
LEMMA KmKeepGoing ==
  ASSUME CycleInv, KmInv, NEW c \in Cpu, CpuStep(c), NEW s, NEW stop,
         keep_going(c, s, stop), s = [f \in Fields |-> s[f]], s.pid = cpu[c].pid,
         s.regs = cpu[c].regs, s.sticks = cpu[c].sticks,
         cpu[c].stage \in {"interrupt", "update"}, Heard(c), UNCHANGED last
  PROVE  KmInv'
<1>1. /\ ~crashed /\ KmTalk(c) /\ Flagged(c) /\ IsSeq(cpu[c].sticks) /\ Local(c)
      /\ cpu[c] = [f \in Fields |-> cpu[c][f]] /\ cpu = [d \in Cpu |-> cpu[d]]
      /\ IsSeq(cpuToKm[c]) /\ cpuToKm = [d \in Cpu |-> cpuToKm[d]]
  BY Setting
<1> DEFINE t == [s EXCEPT !.changed = FALSE, !.stop = FALSE]
<1>2. /\ t = [f \in Fields |-> t[f]] /\ t.pid = cpu[c].pid /\ t.regs = cpu[c].regs
      /\ t.sticks = cpu[c].sticks /\ t.changed = FALSE
  BY DEF Fields
<1>3. /\ stop => /\ cpu' = [cpu EXCEPT ![c] = Released(t)]
                 /\ cpuToKm' = send(cpuToKm, c, UPDATED_CONTEXT(t.pid, t.regs))
      /\ ~stop => /\ cpu' = [cpu EXCEPT ![c] = [t EXCEPT !.stage = "fetch"]]
                  /\ cpuToKm' = send(cpuToKm, c, NEXT_INSTRUCTION(t.pid, t.regs["PC"]))
  BY DEF keep_going
<1> HIDE DEF t
<1>4. cpu'[c].sticks = cpu[c].sticks
  <2>1. CASE stop
    <3>1. PICK r : r = Released(t)
      OBVIOUS
    <3>2. cpu'[c] = r
      BY <1>1, <1>3, <2>1, <3>1
    <3>3. r.sticks = cpu[c].sticks
      BY <1>2, <3>1, ReleasedFields
    <3> QED BY <3>2, <3>3
  <2>2. CASE ~stop
    BY <1>1, <1>2, <1>3, <2>2 DEF Fields
  <2> QED BY <2>1, <2>2
<1>5. /\ Quiet(c)' /\ cpuToKm[c] = <<>> /\ cpu[c].stage \in Loaded
      /\ \A k \in DOMAIN kmToCpu'[c] :
           \E j \in DOMAIN kmToCpu[c] : kmToCpu'[c][k] = kmToCpu[c][j]
  BY <1>4, HeardFacts
<1>6. CASE ~stop
  <2>1. /\ cpu'[c].stage = "fetch" /\ cpu'[c].pid = cpu[c].pid /\ cpu'[c].regs = cpu[c].regs
        /\ cpu'[c].changed = FALSE
    BY <1>1, <1>2, <1>3, <1>6 DEF Fields
  <2>2. cpuToKm'[c] = Append(cpuToKm[c], NEXT_INSTRUCTION(cpu[c].pid, cpu[c].regs["PC"]))
    BY <1>1, <1>2, <1>3, <1>6 DEF send
  <2>3. cpuToKm'[c] = <<NEXT_INSTRUCTION(cpu[c].pid, cpu[c].regs["PC"])>>
    BY <1>5, <2>2, OneMessage
  <2>4. IsSeq(cpuToKm'[c])
    BY <2>3, SeqOne
  <2>5. KmTalk(c)'
    BY <1>1, <1>4, <1>5, <2>1, <2>3, <2>4 DEF KmTalk
  <2>6. Flagged(c)'
    BY <1>1, <2>1 DEF Flagged
  <2>7. Asks(c) /\ cpu'[c].stage \in Loaded
    BY <2>1, <2>2 DEF Asks, NEXT_INSTRUCTION, Loaded
  <2>8. \A p \in Pid \ overtaken : Handed(c, p)
    BY <1>1, <1>5, <2>1, <2>7, KeepsRegs
  <2> QED BY <2>5, <2>6, <2>8, CpuDone
<1>7. CASE stop
  <2>1. cpu'[c].stage = "idle" /\ cpu'[c].changed = FALSE
    <3>1. PICK r : r = Released(t)
      OBVIOUS
    <3>2. cpu'[c] = r
      BY <1>1, <1>3, <1>7, <3>1
    <3>3. r.stage = "idle" /\ r.changed = FALSE
      BY <1>2, <3>1, ReleasedFields
    <3> QED BY <3>2, <3>3
  <2>2. PICK m : m = UPDATED_CONTEXT(cpu[c].pid, cpu[c].regs)
    OBVIOUS
  <2>3. cpuToKm'[c] = <<m>> /\ m.op = "UPDATED_CONTEXT" /\ m.pid = cpu[c].pid
        /\ m.regs = cpu[c].regs
    <3>1. cpuToKm'[c] = Append(cpuToKm[c], m)
      BY <1>1, <1>2, <1>3, <1>7, <2>2 DEF send
    <3>2. cpuToKm'[c] = <<m>>
      BY <1>5, <3>1, OneMessage
    <3> QED BY <2>2, <3>2 DEF UPDATED_CONTEXT
  <2>4. IsSeq(cpuToKm'[c]) /\ DOMAIN cpuToKm'[c] = {1} /\ cpuToKm'[c][1] = m
        /\ cpuToKm'[c] # <<>>
    BY <2>3, SeqOne, OneMessage
  <2>5. Saves(cpuToKm'[c])
    BY <2>3, <2>4 DEF Saves
  <2>6. KmTalk(c)'
    BY <1>1, <1>4, <1>5, <2>1, <2>3, <2>4, <2>5 DEF KmTalk
  <2>7. Flagged(c)'
    BY <2>1 DEF Flagged
  <2>8. \A p \in Pid \ overtaken : Handed(c, p)
    <3> TAKE p \in Pid \ overtaken
    <3>0. Owned(p)
      BY DEF KmInv
    <3>1. ~Holding(c, p)' /\ ~Receiving(c, p)'
      BY <2>1 DEF Holding, Receiving, Loaded
    <3>2. Sending(c, p)' <=> Holding(c, p)
      BY <1>5, <2>3, <2>4 DEF Sending, Holding
    <3>3. ~Sending(c, p)
      BY <1>5, SeqEmpty DEF Sending
    <3>4. Holding(c, p) => m.regs = last'[p]
      BY <2>3, <3>0 DEF Owned
    <3>5. \A k \in DOMAIN cpuToKm'[c] :
            cpuToKm'[c][k].op = "UPDATED_CONTEXT" /\ cpuToKm'[c][k].pid = p
              => cpuToKm'[c][k].regs = last'[p]
      BY <1>5, <2>3, <2>4, <3>4 DEF Holding
    <3> QED BY <3>1, <3>2, <3>3, <3>5 DEF Handed, Owner
  <2> QED BY <2>6, <2>7, <2>8, CpuDone
<1> QED BY <1>6, <1>7

\* The CPU takes in the stick at the head of its channel: what else is in it
\* stays in its place.
LEMMA TakesStick ==
  ASSUME NEW c \in Cpu, kmToCpu[c] # <<>>, Head(kmToCpu[c]).op = "PACKET",
         Len(cpu[c].sticks) \in Nat, Len(sticks) \in Nat, Len(sticks') = Len(sticks),
         kmToCpu'[c] = Tail(kmToCpu[c]), Len(cpu'[c].sticks) = Len(cpu[c].sticks) + 1
  PROVE  /\ Quiet(c) => Quiet(c)'
         /\ Loads(c) => Loads(c)'
         /\ \A op : op # "PACKET" /\ Answer(c, op) => Answer(c, op)'
<1>1. PICK ch : ch = kmToCpu[c]
  OBVIOUS
<1>2. PICK known \in Nat : known = Len(cpu[c].sticks)
  OBVIOUS
<1>3. PICK listed \in Nat : listed = Len(sticks)
  OBVIOUS
<1>4. ASSUME NEW k \in 0 .. Len(ch), NEW n \in Nat \ {0}, Between(c, k, n),
             ch[k + 1].op # "PACKET"
      PROVE  /\ k - 1 \in 0 .. Len(Tail(ch)) /\ Between(c, k - 1, n)'
             /\ \A i \in 1 .. n : Tail(ch)[(k - 1) + i] = ch[k + i]
  <2>1. Layout(ch, known, listed, k, n) /\ IsSeq(ch)
    BY <1>1, <1>2, <1>3, <1>4 DEF Between, Layout
  <2>2. Len(ch) \in Nat \ {0} /\ Head(ch) = ch[1] /\ k + n <= Len(ch)
    BY <1>1, <2>1, SeqTail DEF Layout
  <2>3. k \in Nat /\ k > 0
    BY <1>1, <1>4, <2>2
  <2>4. /\ Layout(Tail(ch), known + 1, listed, k - 1, n)
        /\ \A i \in 1 .. Len(ch) - 1 : Tail(ch)[i] = ch[i + 1]
        /\ Len(Tail(ch)) = Len(ch) - 1
    BY <1>1, <2>1, <2>3, LayoutTake
  <2>5. \A i \in 1 .. n : (k - 1) + i \in 1 .. Len(ch) - 1 /\ ((k - 1) + i) + 1 = k + i
    BY <2>2, <2>3
  <2>6. Between(c, k - 1, n)'
    BY <1>1, <1>2, <1>3, <2>4 DEF Between
  <2>7. k - 1 \in 0 .. Len(Tail(ch))
    BY <1>4, <2>2, <2>3, <2>4
  <2>8. ASSUME NEW i \in 1 .. n PROVE Tail(ch)[(k - 1) + i] = ch[k + i]
    <3>1. PICK j \in 1 .. Len(ch) - 1 : j = (k - 1) + i /\ j + 1 = k + i
      BY <2>5
    <3>2. Tail(ch)[j] = ch[j + 1]
      BY <2>4
    <3> QED BY <3>1, <3>2
  <2> QED BY <2>6, <2>7, <2>8
<1>5. Quiet(c) => Quiet(c)'
  <2> HAVE Quiet(c)
  <2>1. Layout(ch, known, listed, 0, 0)
    BY <1>1, <1>2, <1>3 DEF Quiet, Between
  <2>2. Layout(Tail(ch), known + 1, listed, 0, 0)
    BY <1>1, <2>1, LayoutTake
  <2> QED BY <1>1, <1>2, <1>3, <2>2 DEF Quiet, Between
<1>6. ASSUME NEW op, op # "PACKET", Answer(c, op) PROVE Answer(c, op)'
  <2>0. PICK n \in Nat \ {0} : n = 1
    OBVIOUS
  <2>1. PICK k \in 0 .. Len(ch) : Between(c, k, n) /\ ch[k + n].op = op
    BY <1>1, <1>6, <2>0 DEF Answer
  <2>2. /\ k - 1 \in 0 .. Len(Tail(ch)) /\ Between(c, k - 1, n)'
        /\ Tail(ch)[(k - 1) + n] = ch[k + n]
    <3>1. ch[k + 1].op # "PACKET" /\ n \in 1 .. n
      BY <1>6, <2>0, <2>1
    <3> QED BY <1>4, <2>1, <3>1
  <2>3. PICK j \in 0 .. Len(kmToCpu'[c]) : j = k - 1
    BY <1>1, <2>2
  <2> QED BY <1>1, <2>0, <2>1, <2>2, <2>3 DEF Answer
<1>7. Loads(c) => Loads(c)'
  <2> HAVE Loads(c)
  <2>0. PICK n \in Nat \ {0} : n = 2 /\ 1 \in 1 .. n /\ n \in 1 .. n
    OBVIOUS
  <2>1. PICK k \in 0 .. Len(ch) : /\ Between(c, k, n) /\ ch[k + 1].op = "SEND_CONTEXT"
                                  /\ ch[k + n].op = "SEGMENT_TABLE"
    BY <1>1, <2>0 DEF Loads
  <2>2. /\ k - 1 \in 0 .. Len(Tail(ch)) /\ Between(c, k - 1, n)'
        /\ Tail(ch)[(k - 1) + 1] = ch[k + 1] /\ Tail(ch)[(k - 1) + n] = ch[k + n]
    BY <1>4, <2>0, <2>1
  <2>3. PICK j \in 0 .. Len(kmToCpu'[c]) : j = k - 1
    BY <1>1, <2>2
  <2> QED BY <1>1, <2>0, <2>1, <2>2, <2>3 DEF Loads
<1> QED BY <1>5, <1>6, <1>7

LEMMA KmConnectStick ==
  ASSUME CycleInv, KmInv, NEW c \in Cpu, connect_memory_stick(c)
  PROVE  KmInv'
<1>0. /\ CpuStep(c) /\ cpu[c].stage \in Listening /\ kmToCpu[c] # <<>>
      /\ Head(kmToCpu[c]).op = "PACKET"
  BY DEF CpuStep, connect_memory_stick, Next_is
<1>1. /\ ~crashed /\ KmTalk(c) /\ Flagged(c) /\ Len(sticks') = Len(sticks)
      /\ IsSeq(cpuToKm[c]) /\ IsSeq(cpu[c].sticks) /\ Len(cpu[c].sticks) \in Nat
      /\ cpu[c] = [f \in Fields |-> cpu[c][f]] /\ cpu = [d \in Cpu |-> cpu[d]]
      /\ kmToCpu = [d \in Cpu |-> kmToCpu[d]] /\ Len(sticks) \in Nat /\ Local(c)
  BY <1>0, Setting
<1>2. PICK m : m = Head(kmToCpu[c])
  OBVIOUS
<1>3. CASE m.stick \in lost
  BY <1>0, <1>2, <1>3, KmDeparts DEF connect_memory_stick, Listening, Loaded
<1>4. CASE m.stick \notin lost
  <2>1. PICK e : e = [stick |-> m.stick, size |-> m.size]
    OBVIOUS
  <2>2. /\ cpu'[c].stage = cpu[c].stage /\ cpu'[c].pid = cpu[c].pid
        /\ cpu'[c].regs = cpu[c].regs /\ cpu'[c].sticks = Append(cpu[c].sticks, e)
        /\ cpu'[c].changed = cpu[c].changed
    BY <1>1, <1>2, <1>4, <2>1 DEF connect_memory_stick, Fields
  <2>3. UNCHANGED <<last, cpuToKm, overtaken, status>> /\ kmToCpu'[c] = Tail(kmToCpu[c])
    BY <1>1, <1>2, <1>4 DEF connect_memory_stick, received
  <2>4. IsSeq(cpu'[c].sticks) /\ Len(cpu'[c].sticks) = Len(cpu[c].sticks) + 1
    BY <1>1, <2>2, SeqAppend
  <2>5. /\ Quiet(c) => Quiet(c)'
        /\ Loads(c) => Loads(c)'
        /\ \A op : op # "PACKET" /\ Answer(c, op) => Answer(c, op)'
    BY <1>0, <1>1, <2>3, <2>4, TakesStick
  <2>6. KmTalk(c)'
    BY <1>0, <1>1, <2>2, <2>3, <2>4, <2>5 DEF KmTalk, Listening
  <2>7. Flagged(c)'
    BY <1>0, <1>1, <2>2, <2>3 DEF Flagged, Listening
  <2>8. IsSeq(kmToCpu[c])
    BY <1>0, <1>1, AnswerIsSeq DEF KmTalk, Listening
  <2>9. \A k \in DOMAIN kmToCpu'[c] :
          \E j \in DOMAIN kmToCpu[c] : kmToCpu'[c][k] = kmToCpu[c][j]
    BY <1>0, <2>3, <2>8, FewerMessages
  <2>10. \A p \in Pid \ overtaken : Handed(c, p)
    BY <1>1, <2>2, <2>3, <2>9, KeepsRegs DEF Asks
  <2> QED BY <1>0, <2>6, <2>7, <2>10, CpuDone
<1> QED BY <1>3, <1>4

LEMMA ExecutesHeard ==
  ASSUME NEW c \in Cpu, NEW ops, Executes(c, ops), kmToCpu = [d \in Cpu |-> kmToCpu[d]]
  PROVE  Heard(c) /\ cpu[c].stage = "fetch" /\ Fetched(c).op \in ops
BY DEF Executes, Hears, Next_is, received, Heard

\* Instructions that end their cycle at once.
LEMMA KmExecute ==
  ASSUME CycleInv, KmInv, NEW c \in Cpu,
         \/ execute_local(c) \/ handler_mutex(c) \/ handler_mem(c) \/ handler_io(c)
         \/ handler_init_proc(c) \/ handler_exit(c)
  PROVE  KmInv'
<1>0. CpuStep(c)
  BY DEF CpuStep
<1>1. kmToCpu = [d \in Cpu |-> kmToCpu[d]]
  BY <1>0, Setting
<1>2. PICK ops : Executes(c, ops)
  BY DEF execute_local, handler_mutex, handler_mem, handler_io, handler_init_proc,
         handler_exit
<1>3. Heard(c) /\ cpu[c].stage \in {"fetch", "access"}
  BY <1>1, <1>2, ExecutesHeard
<1>4. UNCHANGED <<cpuToKm, ksToCpu>>
  BY DEF execute_local, handler_mutex, handler_mem, handler_io, handler_init_proc,
         handler_exit, Syscall
<1>5. ASSUME NEW regs, NEW m, end_cycle(c, regs, <<m>>, FALSE), m.op \notin MemOps
      PROVE  KmInv'
  BY <1>0, <1>3, <1>4, <1>5, KmEndCycle
<1>6. CASE execute_local(c)
  <2>1. end_cycle(c, run_local(cpu[c].regs, Fetched(c)), <<CPU_CYCLE_OK>>, FALSE)
    BY <1>6 DEF execute_local
  <2>2. CPU_CYCLE_OK.op \notin MemOps
    BY DEF CPU_CYCLE_OK, MemOps
  <2> QED BY <1>5, <2>1, <2>2
<1>7. CASE handler_mutex(c) \/ handler_io(c) \/ handler_init_proc(c) \/ handler_exit(c)
  <2>1. PICK m : end_cycle(c, cpu[c].regs, <<m>>, FALSE) /\ m.op \notin MemOps
    <3>1. CASE handler_mutex(c)
      <4>1. PICK m : m = [op |-> Fetched(c).op]
        OBVIOUS
      <4>2. end_cycle(c, cpu[c].regs, <<m>>, FALSE)
        BY <3>1, <4>1 DEF handler_mutex, Syscall
      <4>3. m.op \in {"MUTEX_CREATE", "MUTEX_LOCK", "MUTEX_UNLOCK"}
        BY <3>1, <4>1 DEF handler_mutex, Executes
      <4> QED BY <4>2, <4>3 DEF MemOps
    <3>2. CASE handler_io(c)
      <4>1. PICK m : m = [op |-> "IO"]
        OBVIOUS
      <4>2. end_cycle(c, cpu[c].regs, <<m>>, FALSE)
        BY <3>2, <4>1 DEF handler_io, Syscall
      <4>3. m.op \notin MemOps
        BY <4>1 DEF MemOps
      <4> QED BY <4>2, <4>3
    <3>3. CASE handler_init_proc(c)
      <4>1. PICK m : m = [op |-> "INIT_PROC", child |-> Fetched(c).n]
        OBVIOUS
      <4>2. end_cycle(c, cpu[c].regs, <<m>>, FALSE)
        BY <3>3, <4>1 DEF handler_init_proc, Syscall
      <4>3. m.op \notin MemOps
        BY <4>1 DEF MemOps
      <4> QED BY <4>2, <4>3
    <3>4. CASE handler_exit(c)
      <4>1. PICK m : m = [op |-> "EXIT"]
        OBVIOUS
      <4>2. end_cycle(c, cpu[c].regs, <<m>>, FALSE)
        BY <3>4, <4>1 DEF handler_exit, Syscall
      <4>3. m.op \notin MemOps
        BY <4>1 DEF MemOps
      <4> QED BY <4>2, <4>3
    <3> QED BY <1>7, <3>1, <3>2, <3>3, <3>4
  <2> QED BY <1>5, <2>1
<1>8. CASE handler_mem(c)
  <2>1. PICK m : m = [op |-> Fetched(c).op, pid |-> cpu[c].pid,
                      segment_id |-> Fetched(c).n, size |-> Fetched(c).m]
    OBVIOUS
  <2>2. end_cycle(c, cpu[c].regs, <<m>>, TRUE)
    BY <1>8, <2>1 DEF handler_mem, Syscall
  <2>3. m.op \in MemOps /\ m.pid = cpu[c].pid
    BY <1>8, <2>1 DEF handler_mem, Executes, MemOps
  <2> QED BY <1>0, <1>3, <1>4, <2>2, <2>3, KmEndCycle
<1> QED BY <1>6, <1>7, <1>8

\* A CPU that leaves while it executes an instruction has asked nothing.
LEMMA KmLeaves ==
  ASSUME CycleInv, KmInv, NEW c \in Cpu, CpuStep(c), departs(c), UNCHANGED cpuToKm,
         cpu[c].stage \in {"fetch", "access"}, Heard(c)
  PROVE  KmInv'
<1>1. cpu[c] = [f \in Fields |-> cpu[c][f]] /\ cpu = [d \in Cpu |-> cpu[d]]
  BY Setting
<1>2. cpu'[c].sticks = cpu[c].sticks
  BY <1>1 DEF departs, Gone, Released, Fields
<1>3. cpuToKm[c] = <<>> /\ cpu[c].stage \in Loaded
  BY <1>2, HeardFacts
<1> QED BY <1>3, SeqEmpty, KmDeparts

LEMMA KmBegins ==
  ASSUME CycleInv, KmInv, NEW c \in Cpu, CpuStep(c), NEW a, begin_access(c, a),
         UNCHANGED cpuToKm, cpu[c].stage \in {"fetch", "access"}, Heard(c)
  PROVE  KmInv'
<1>1. cpu[c] = [f \in Fields |-> cpu[c][f]] /\ cpu = [d \in Cpu |-> cpu[d]]
  BY Setting
<1>2. /\ cpu'[c].stage = "access" /\ cpu'[c].pid = cpu[c].pid /\ cpu'[c].regs = cpu[c].regs
      /\ cpu'[c].sticks = cpu[c].sticks /\ cpu'[c].changed = cpu[c].changed
      /\ UNCHANGED last
  BY <1>1 DEF begin_access, Fields
<1> QED BY <1>2, KmAccess

LEMMA KmMove ==
  ASSUME CycleInv, KmInv, CopiesValid, NEW c \in Cpu,
         handler_mov_in(c) \/ handler_mov_out(c) \/ handler_copy_mem(c)
  PROVE  KmInv'
<1>0. CpuStep(c)
  BY DEF CpuStep
<1>1. kmToCpu = [d \in Cpu |-> kmToCpu[d]]
  BY <1>0, Setting
<1>2. PICK ops : Executes(c, ops)
  BY DEF handler_mov_in, handler_mov_out, handler_copy_mem
<1>3. Heard(c) /\ cpu[c].stage \in {"fetch", "access"}
  BY <1>1, <1>2, ExecutesHeard
<1>4. UNCHANGED <<cpuToKm, ksToCpu>>
  BY DEF handler_mov_in, handler_mov_out, handler_copy_mem
<1>5. \/ leave(c) \/ \E a : begin_access(c, a)
      \/ end_cycle(c, cpu[c].regs, <<SEG_FAULT>>, FALSE)
  <2>1. CASE handler_mov_in(c) \/ handler_mov_out(c)
    BY <2>1 DEF handler_mov_in, handler_mov_out
  <2>2. CASE handler_copy_mem(c)
    <3>1. Hears(c, "fetch", "SEND_INSTRUCTION") /\ Fetched(c).op = "COPY_MEM"
      BY <2>2 DEF handler_copy_mem, Executes
    <3>2. ~(translate(c, "SI").kind = "ok" /\ translate(c, "DI") = Fault)
      BY <3>1 DEF CopiesValid
    <3> QED BY <2>2, <3>2 DEF handler_copy_mem
  <2> QED BY <2>1, <2>2
<1>6. CASE leave(c)
  BY <1>0, <1>3, <1>4, <1>6, KmLeaves DEF leave
<1>7. CASE end_cycle(c, cpu[c].regs, <<SEG_FAULT>>, FALSE)
  <2>1. SEG_FAULT.op \notin MemOps
    BY DEF SEG_FAULT, MemOps
  <2> QED BY <1>0, <1>3, <1>4, <1>7, <2>1, KmEndCycle
<1> QED BY <1>0, <1>3, <1>4, <1>5, <1>6, <1>7, KmBegins

\* Reads and writes, a stick at a time.
LEMMA KmReadWrite ==
  ASSUME CycleInv, KmInv, NEW c \in Cpu,
         read_memory(c) \/ read_done(c) \/ write_memory(c) \/ write_done(c)
  PROVE  KmInv'
<1>0. CpuStep(c) /\ cpu[c].stage = "access" /\ UNCHANGED <<ksToCpu, kmToCpu>>
  BY DEF CpuStep, read_memory, read_done, write_memory, write_done, Accesses
<1>1. Heard(c)
  BY <1>0 DEF Heard
<1>2. cpu[c] = [f \in Fields |-> cpu[c][f]] /\ cpu = [d \in Cpu |-> cpu[d]]
      /\ cpuToKm = [d \in Cpu |-> cpuToKm[d]] /\ KmTalk(c)
  BY <1>0, Setting
<1>3. CASE read_done(c) \/ write_done(c)
  <2>1. UNCHANGED cpuToKm
    BY <1>3 DEF read_done, write_done
  <2>2. \/ \E a : begin_access(c, a)
        \/ \E regs : end_cycle(c, regs, <<CPU_CYCLE_OK>>, FALSE)
    <3>1. CASE read_done(c)
      BY <3>1 DEF read_done
    <3>2. CASE write_done(c)
      BY <3>2 DEF write_done
    <3> QED BY <1>3, <3>1, <3>2
  <2>3. CPU_CYCLE_OK.op \notin MemOps
    BY DEF CPU_CYCLE_OK, MemOps
  <2>4. ASSUME NEW regs, end_cycle(c, regs, <<CPU_CYCLE_OK>>, FALSE) PROVE KmInv'
    BY <1>0, <1>1, <2>1, <2>3, <2>4, KmEndCycle
  <2> QED BY <1>0, <1>1, <2>1, <2>2, <2>4, KmBegins
<1>4. CASE read_memory(c) \/ write_memory(c)
  <2>1. \/ departs(c) /\ (cpuToKm' = cpuToKm \/ cpuToKm' = send(cpuToKm, c, STICK_DISCONNECTED))
        \/ UNCHANGED <<cpuToKm, last>> /\ \E a : cpu' = [cpu EXCEPT ![c].access = a]
    <3>1. CASE read_memory(c)
      BY <3>1 DEF read_memory, access_fails
    <3>2. CASE write_memory(c)
      BY <3>2 DEF write_memory, access_fails
    <3> QED BY <1>4, <3>1, <3>2
  <2>2. CASE departs(c) /\ (cpuToKm' = cpuToKm \/ cpuToKm' = send(cpuToKm, c, STICK_DISCONNECTED))
    <3>1. \/ cpuToKm'[c] = cpuToKm[c]
          \/ cpuToKm'[c] = Append(cpuToKm[c], STICK_DISCONNECTED)
      BY <1>2, <2>2 DEF send
    <3>2. cpuToKm[c] = <<>> /\ cpu[c].stage \in Loaded
      BY <1>0, <1>2 DEF KmTalk, Loaded
    <3> QED BY <1>0, <2>2, <3>1, <3>2, SeqEmpty, KmDeparts
  <2>3. ASSUME UNCHANGED <<cpuToKm, last>>, NEW a, cpu' = [cpu EXCEPT ![c].access = a]
        PROVE  KmInv'
    <3>1. /\ cpu'[c].stage = "access" /\ cpu'[c].pid = cpu[c].pid
          /\ cpu'[c].regs = cpu[c].regs /\ cpu'[c].sticks = cpu[c].sticks
          /\ cpu'[c].changed = cpu[c].changed
      BY <1>0, <1>2, <2>3 DEF Fields
    <3> QED BY <1>0, <1>1, <2>3, <3>1, KmAccess
  <2> QED BY <2>1, <2>2, <2>3
<1> QED BY <1>3, <1>4

LEMMA KmUpdate ==
  ASSUME CycleInv, KmInv, NEW c \in Cpu, update_segment_table(c)
  PROVE  KmInv'
<1>0. /\ CpuStep(c) /\ cpu[c].stage = "update" /\ kmToCpu[c] # <<>>
      /\ Head(kmToCpu[c]).op = "SEGMENT_TABLE" /\ UNCHANGED last
  BY DEF CpuStep, update_segment_table, Hears, Next_is, ghostVars
<1>1. cpu[c] = [f \in Fields |-> cpu[c][f]] /\ kmToCpu = [d \in Cpu |-> kmToCpu[d]]
  BY <1>0, Setting
<1>2. Heard(c)
  BY <1>0, <1>1 DEF Heard, update_segment_table, received
<1> DEFINE s == [cpu[c] EXCEPT !.table = Head(kmToCpu[c]).table]
<1>3. keep_going(c, s, cpu[c].stop)
  BY DEF update_segment_table
<1>4. /\ s = [f \in Fields |-> s[f]] /\ s.pid = cpu[c].pid /\ s.regs = cpu[c].regs
      /\ s.sticks = cpu[c].sticks
  BY <1>1 DEF Fields
<1> HIDE DEF s
<1> QED BY <1>0, <1>2, <1>3, <1>4, KmKeepGoing

LEMMA KmCheckInterrupt ==
  ASSUME CycleInv, KmInv, NEW c \in Cpu, check_interrupt(c)
  PROVE  KmInv'
<1>0. /\ CpuStep(c) /\ cpu[c].stage = "interrupt" /\ ksToCpu[c] # <<>>
      /\ UNCHANGED <<kmToCpu, cpuToKs>>
  BY DEF CpuStep, check_interrupt
<1>1. /\ ~crashed /\ KmTalk(c) /\ Flagged(c) /\ Len(sticks') = Len(sticks)
      /\ IsSeq(cpuToKm[c]) /\ IsSeq(cpu[c].sticks) /\ Len(cpu[c].sticks) \in Nat
      /\ cpu[c] = [f \in Fields |-> cpu[c][f]] /\ cpu = [d \in Cpu |-> cpu[d]]
      /\ cpuToKm = [d \in Cpu |-> cpuToKm[d]] /\ Local(c)
      /\ ksToCpu = [d \in Cpu |-> ksToCpu[d]]
  BY <1>0, Setting
<1>2. PICK m : m = Head(ksToCpu[c])
  OBVIOUS
<1>3. m.op \in {"INTERRUPT", "NO_INTERRUPT"}
  <2>1. LockStep
    BY CycleLockStep
  <2>2. cpuToKs[c] = <<>>
    BY <1>0, <2>1 DEF LockStep
  <2> QED BY <1>0, <1>2, <2>1, <2>2 DEF LockStep
<1>4. Heard(c)
  BY <1>0 DEF Heard
<1>5. CASE needs_table(c, m)
  <2>1. /\ cpu' = [cpu EXCEPT ![c].stage = "update", ![c].stop = (m.op = "INTERRUPT")]
        /\ cpuToKm' = send(cpuToKm, c, UPDATED_SEGMENT_TABLE(cpu[c].pid))
        /\ UNCHANGED last
    BY <1>2, <1>3, <1>5 DEF check_interrupt
  <2>2. /\ cpu'[c].stage = "update" /\ cpu'[c].pid = cpu[c].pid /\ cpu'[c].regs = cpu[c].regs
        /\ cpu'[c].sticks = cpu[c].sticks
    BY <1>1, <2>1 DEF Fields
  <2>3. /\ Quiet(c)' /\ cpuToKm[c] = <<>> /\ cpu[c].stage \in Loaded
        /\ \A k \in DOMAIN kmToCpu'[c] :
             \E j \in DOMAIN kmToCpu[c] : kmToCpu'[c][k] = kmToCpu[c][j]
    BY <1>0, <1>4, <2>2, HeardFacts
  <2>4. cpuToKm'[c] = Append(cpuToKm[c], UPDATED_SEGMENT_TABLE(cpu[c].pid))
    BY <1>1, <2>1 DEF send
  <2>5. cpuToKm'[c] = <<UPDATED_SEGMENT_TABLE(cpu[c].pid)>>
    BY <2>3, <2>4, OneMessage
  <2>6. KmTalk(c)'
    BY <1>1, <2>2, <2>3, <2>5, SeqOne DEF KmTalk
  <2>7. Flagged(c)'
    BY <1>0, <1>1, <1>2, <1>5, <2>2 DEF Flagged, Local
  <2>8. Asks(c) /\ cpu'[c].stage \in Loaded
    BY <2>2, <2>4 DEF Asks, UPDATED_SEGMENT_TABLE, Loaded
  <2>9. \A p \in Pid \ overtaken : Handed(c, p)
    BY <1>1, <2>1, <2>2, <2>3, <2>8, KeepsRegs
  <2> QED BY <1>0, <2>6, <2>7, <2>9, CpuDone
<1>6. CASE ~needs_table(c, m)
  <2>1. keep_going(c, cpu[c], m.op = "INTERRUPT") /\ UNCHANGED last
    BY <1>2, <1>3, <1>6 DEF check_interrupt
  <2> QED BY <1>0, <1>1, <1>4, <2>1, KmKeepGoing
<1> QED BY <1>5, <1>6

LEMMA KmCpuStep ==
  ASSUME CycleInv, KmInv, CopiesValid, NEW c \in Cpu, CpuStep(c)
  PROVE  KmInv'
BY KmConnect, KmReceivePid, KmReceiveContext, KmReceiveTable, KmConnectStick, KmExecute,
   KmMove, KmReadWrite, KmCheckInterrupt, KmUpdate DEF CpuStep

-----------------------------------------------------------------------------
(* The steps of the scheduler and of Kernel Memory's scheduler listener.   *)

\* What every process may go through while no CPU takes a step.
Hosted(r) ==
  /\ status'[r] = "NEW" => status[r] = "NEW"
  /\ r \in processes' => \/ r \in processes /\ context'[r] = context[r]
                         \/ status[r] = "NEW" /\ context'[r] = t_registers

LEMMA KmElsewhere ==
  ASSUME KmInv, UNCHANGED <<cpu, cpuToKm, kmToCpu, last, overtaken, crashed>>,
         lost \subseteq lost', IsSeq(sticks'), Len(sticks') = Len(sticks), Known',
         context' = [p \in Pid |-> context'[p]], \A r \in Pid \ overtaken : Hosted(r),
         \A d \in Cpu : Flagged(d)'
  PROVE  KmInv'
<1>1. Arrays'
  BY DEF KmInv, Arrays
<1>2. \A d \in Cpu : SameKm(d)
  BY DEF SameKm
<1>3. ASSUME NEW d \in Cpu, ~crashed PROVE KmTalk(d)'
  BY <1>2, <1>3, SameTalk DEF KmInv
<1>4. ASSUME NEW p \in Pid \ overtaken PROVE Owned(p)'
  <2>1. \A d \in Cpu : /\ Holding(d, p)' <=> Holding(d, p)
                       /\ Sending(d, p)' <=> Sending(d, p)
                       /\ Receiving(d, p)' <=> Receiving(d, p)
    BY <1>2, SameOwner
  <2>2. \A d \in Cpu : Owner(d, p)' <=> Owner(d, p)
    BY <2>1 DEF Owner
  <2>3. Owned(p) /\ Hosted(p)
    BY DEF KmInv
  <2>4. ASSUME NEW d \in Cpu, Owner(d, p)'
        PROVE  status'[p] # "NEW" /\ \A e \in Cpu \ {d} : ~Owner(e, p)'
    BY <2>2, <2>3, <2>4 DEF Owned, Hosted
  <2>5. ASSUME NEW d \in Cpu
        PROVE  /\ Holding(d, p)' => cpu'[d].regs = last'[p]
               /\ \A k \in DOMAIN cpuToKm'[d] :
                    cpuToKm'[d][k].op = "UPDATED_CONTEXT" /\ cpuToKm'[d][k].pid = p
                      => cpuToKm'[d][k].regs = last'[p]
               /\ Receiving(d, p)' =>
                    \A k \in DOMAIN kmToCpu'[d] :
                      kmToCpu'[d][k].op = "SEND_CONTEXT" => kmToCpu'[d][k].regs = last'[p]
    BY <2>1, <2>3 DEF Owned
  <2>6. ASSUME \A d \in Cpu : ~Holding(d, p)' /\ ~Sending(d, p)', p \in processes'
        PROVE  context'[p] = last'[p]
    BY <2>1, <2>3, <2>6 DEF Owned, Hosted
  <2>7. status'[p] = "NEW" => last'[p] = t_registers
    BY <2>3 DEF Owned, Hosted
  <2> QED BY <2>4, <2>5, <2>6, <2>7 DEF Owned
<1> QED BY <1>1, <1>3, <1>4 DEF KmInv

\* Two assignments of states that agree on the processes that are not alive.
Lively(f, g) ==
  \A r \in Pid : f[r] = g[r] \/ (f[r] \notin {"NEW", "EXIT"} /\ g[r] \notin {"NEW", "EXIT"})

LEMMA GoOnLively ==
  ASSUME CycleInv, NEW c \in Cpu, NEW ops, Handles(c, ops), NEW states, Keeps(states),
         go_on(c, states)
  PROVE  Lively(status', states)
<1>1. ks[c].pid \in Pid /\ status[ks[c].pid] = "EXEC"
  BY Reported
<1>2. states[ks[c].pid] = "EXEC" /\ states \in [Pid -> States]
  BY <1>1 DEF Keeps
<1> QED BY <1>1, <1>2 DEF go_on, preempt, Lively

\* Everybody else's flags, when no process but c's ends.
LEMMA OtherFlags ==
  ASSUME CycleInv, KmInv, NEW c \in Cpu, NEW ops, Handles(c, ops),
         \A d \in Cpu \ {c} : ksToCpu'[d] = ksToCpu[d],
         \A r \in Pid \ {cpu[c].pid} :
           status'[r] \in {"NEW", "EXIT"} => status[r] \in {"NEW", "EXIT"}
  PROVE  \A d \in Cpu \ {c} : Flagged(d)'
<1> TAKE d \in Cpu \ {c}
<1>1. /\ cpu' = cpu /\ cpu[c].stage = "interrupt" /\ UNCHANGED overtaken
      /\ cpuToKs'[d] = cpuToKs[d] /\ status[cpu[c].pid] = "EXEC" /\ cpu[c].pid \in Pid
  <2>1. /\ cpu' = cpu /\ cpu[c].stage = "interrupt"
        /\ ks[c] = [stage |-> "receive", pid |-> cpu[c].pid]
        /\ ks[c].pid \in Pid /\ status[ks[c].pid] = "EXEC"
        /\ \A e \in Cpu \ {c} : cpuToKs'[e] = cpuToKs[e]
    BY Reported
  <2> QED BY <2>1 DEF Handles
<1>2. SameFlags(d) /\ Flagged(d)
  BY <1>1 DEF SameFlags, KmInv
<1>3. ASSUME cpu[d].stage \in {"interrupt", "update"}, cpu[d].pid \notin overtaken
      PROVE  cpu[d].pid # cpu[c].pid /\ cpu[d].pid \in Pid
  <2>1. cpu[d].pid \in Pid
    BY <1>2, <1>3 DEF Flagged
  <2>2. Owned(cpu[d].pid)
    BY <1>3, <2>1 DEF KmInv
  <2>3. Holding(d, cpu[d].pid)
    BY <1>3 DEF Holding, Loaded
  <2>4. cpu[d].pid = cpu[c].pid => Holding(c, cpu[d].pid)
    BY <1>1 DEF Holding, Loaded
  <2> QED BY <2>1, <2>2, <2>3, <2>4 DEF Owned, Owner
<1> QED BY <1>1, <1>2, <1>3, SameFlagged

\* The answer to c's report: a process that ends has nothing left to ask for.
LEMMA ReportFlags ==
  ASSUME CycleInv, KmInv, NEW c \in Cpu, NEW ops, Handles(c, ops), ksToCpu'[c] # <<>>,
         \/ status'[cpu[c].pid] \notin {"NEW", "EXIT"}
         \/ Head(cpuToKs[c]).op \notin MemOps
         \/ Head(ksToCpu'[c]) = INTERRUPT(PR_NOT_ENOUGH_MEMORY)
  PROVE  Flagged(c)'
<1>1. /\ cpu' = cpu /\ cpu[c].stage = "interrupt" /\ UNCHANGED overtaken
      /\ cpuToKs'[c] = <<>> /\ cpuToKs[c] # <<>>
  BY Reported DEF Handles
<1>2. Flagged(c)
  BY DEF KmInv
<1>3. cpu[c].changed <=> Head(cpuToKs[c]).op \in MemOps
  BY <1>1, <1>2 DEF Flagged
<1>4. PICK m : m = Head(ksToCpu'[c])
  OBVIOUS
<1>5. needs_table(c, m)' => status'[cpu[c].pid] \notin {"NEW", "EXIT"}
  <2>1. m = INTERRUPT(PR_NOT_ENOUGH_MEMORY) => ~needs_table(c, m)'
    BY <1>4 DEF needs_table, INTERRUPT
  <2>2. needs_table(c, m)' => cpu[c].changed
    BY <1>1 DEF needs_table
  <2> QED BY <1>3, <1>4, <2>1, <2>2
<1> QED BY <1>1, <1>2, <1>4, <1>5 DEF Flagged

LEMMA ReportedPid ==
  ASSUME CycleInv, NEW c \in Cpu, NEW ops, Handles(c, ops)
  PROVE  /\ cpu[c].pid \in Pid /\ status[cpu[c].pid] = "EXEC" /\ ks[c].pid = cpu[c].pid
         /\ ksToCpu[c] = <<>> /\ ksToCpu = [d \in Cpu |-> ksToCpu[d]]
         /\ UNCHANGED <<cpu, cpuToKm, kmToCpu, last, overtaken, crashed, lost>>
<1>1. /\ ks[c] = [stage |-> "receive", pid |-> cpu[c].pid] /\ ksToCpu[c] = <<>>
      /\ ks[c].pid \in Pid /\ status[ks[c].pid] = "EXEC"
  BY Reported
<1> QED BY <1>1 DEF CycleInv, Shapes, Handles, failVars

\* c, and nobody else, gets an answer.
LEMMA GoOnAnswers ==
  ASSUME CycleInv, NEW c \in Cpu, NEW ops, Handles(c, ops), NEW states, go_on(c, states)
  PROVE  ksToCpu'[c] # <<>> /\ \A d \in Cpu \ {c} : ksToCpu'[d] = ksToCpu[d]
<1>1. ksToCpu[c] = <<>> /\ ksToCpu = [d \in Cpu |-> ksToCpu[d]]
  BY ReportedPid
<1>2. PICK x : \/ ksToCpu' = send(ksToCpu, c, x)
               \/ \E y : ksToCpu' = [ksToCpu EXCEPT ![c] = @ \o <<x, y>>]
  BY DEF go_on, preempt
<1>3. CASE ksToCpu' = send(ksToCpu, c, x)
  BY <1>1, <1>3, OneMessage DEF send
<1>4. ASSUME NEW y, ksToCpu' = [ksToCpu EXCEPT ![c] = @ \o <<x, y>>]
      PROVE  ksToCpu'[c] # <<>> /\ \A d \in Cpu \ {c} : ksToCpu'[d] = ksToCpu[d]
  <2>1. PICK both : both = <<x, y>>
    OBVIOUS
  <2>2. both # <<>> /\ <<>> \o both = both
    BY <2>1, TwoMessages
  <2>3. ksToCpu' = [ksToCpu EXCEPT ![c] = @ \o both]
    BY <1>4, <2>1
  <2> QED BY <1>1, <2>2, <2>3
<1> QED BY <1>2, <1>3, <1>4

\* The process goes on, ends its quantum or gives way; with it, another process
\* may have been started.
LEMMA KmGoesOn ==
  ASSUME CycleInv, KmInv, NEW c \in Cpu, NEW ops, Handles(c, ops), NEW states, Keeps(states),
         go_on(c, states), UNCHANGED <<ksToKm, sticks>>,
         \/ states = status /\ UNCHANGED <<processes, context>>
         \/ \E q \in Pid : /\ status[q] = "NEW" /\ states = [status EXCEPT ![q] = "READY"]
                           /\ notify_new_process(q)
  PROVE  KmInv'
<1>0. /\ cpu[c].pid \in Pid /\ status[cpu[c].pid] = "EXEC"
      /\ UNCHANGED <<cpu, cpuToKm, kmToCpu, last, overtaken, crashed, lost>>
  BY ReportedPid
<1>1. Lively(status', states) /\ status \in [Pid -> States]
  BY GoOnLively DEF CycleInv, Shapes
<1>2. ksToCpu'[c] # <<>> /\ \A d \in Cpu \ {c} : ksToCpu'[d] = ksToCpu[d]
  BY GoOnAnswers
<1>3. /\ \A r \in Pid : states[r] = status[r] \/ (status[r] = "NEW" /\ states[r] = "READY")
      /\ \A r \in Pid : states[r] # status[r] => r \in processes' /\ context'[r] = t_registers
      /\ \A r \in Pid : states[r] = status[r] =>
           (r \in processes' <=> r \in processes) /\ context'[r] = context[r]
      /\ context' = [p \in Pid |-> context'[p]] /\ processes' \subseteq Pid
  BY <1>1 DEF notify_new_process, KmInv, Arrays, Known
<1>4. Known'
  BY <1>1, <1>3 DEF KmInv, Known, Lively
<1>5. \A r \in Pid : Hosted(r)
  BY <1>1, <1>3 DEF Hosted, Lively
<1>6. status'[cpu[c].pid] \notin {"NEW", "EXIT"}
  BY <1>0, <1>1 DEF Lively, Keeps
<1>7. \A r \in Pid : status'[r] \in {"NEW", "EXIT"} => status[r] \in {"NEW", "EXIT"}
  BY <1>1, <1>3 DEF Lively
<1>8. \A d \in Cpu : Flagged(d)'
  BY <1>2, <1>6, <1>7, OtherFlags, ReportFlags
<1>9. IsSeq(sticks)
  BY DEF KmInv, Arrays
<1> QED BY <1>0, <1>3, <1>4, <1>5, <1>8, <1>9, KmElsewhere

\* The process leaves EXEC: it blocks, or it ends and Kernel Memory is told.
LEMMA KmPreempted ==
  ASSUME CycleInv, KmInv, NEW c \in Cpu, NEW ops, Handles(c, ops), NEW state, NEW reason,
         preempt(c, status, state, reason), UNCHANGED <<processes, context, sticks>>,
         \/ state = "BLOCK" /\ UNCHANGED ksToKm
         \/ /\ state = "EXIT" /\ ksToKm' = Append(ksToKm, ks[c].pid)
            /\ Head(cpuToKs[c]).op \notin MemOps \/ reason = PR_NOT_ENOUGH_MEMORY
  PROVE  KmInv'
<1>0. /\ cpu[c].pid \in Pid /\ status[cpu[c].pid] = "EXEC" /\ ks[c].pid = cpu[c].pid
      /\ ksToCpu[c] = <<>> /\ ksToCpu = [d \in Cpu |-> ksToCpu[d]]
      /\ UNCHANGED <<cpu, cpuToKm, kmToCpu, last, overtaken, crashed, lost>>
  BY ReportedPid
<1>1. /\ status \in [Pid -> States] /\ status' = [status EXCEPT ![cpu[c].pid] = state]
      /\ ksToCpu' = send(ksToCpu, c, INTERRUPT(reason))
  BY <1>0 DEF CycleInv, Shapes, preempt
<1>2. /\ ksToCpu'[c] # <<>> /\ \A d \in Cpu \ {c} : ksToCpu'[d] = ksToCpu[d]
      /\ Head(ksToCpu'[c]) = INTERRUPT(reason)
  BY <1>0, <1>1, OneMessage DEF send
<1>3. status'[cpu[c].pid] = state /\ \A r \in Pid \ {cpu[c].pid} : status'[r] = status[r]
  BY <1>0, <1>1
<1>4. Known'
  <2>1. IsSeq(ksToKm) /\ processes \subseteq Pid
        /\ \A p \in Pid : status[p] \notin {"NEW", "EXIT"} => p \in processes
        /\ \A i \in DOMAIN ksToKm : ksToKm[i] \in Pid /\ status[ksToKm[i]] = "EXIT"
    BY DEF KmInv, Known
  <2>2. \A p \in Pid : status'[p] \notin {"NEW", "EXIT"} => p \in processes'
    BY <1>0, <1>3, <2>1
  <2>3. \A i \in DOMAIN ksToKm : ksToKm[i] \in Pid /\ status'[ksToKm[i]] = "EXIT"
    BY <1>0, <1>3, <2>1
  <2>4. CASE UNCHANGED ksToKm
    BY <2>1, <2>2, <2>3, <2>4 DEF Known
  <2>5. CASE state = "EXIT" /\ ksToKm' = Append(ksToKm, ks[c].pid)
    <3>1. /\ IsSeq(ksToKm') /\ Len(ksToKm') = Len(ksToKm) + 1
          /\ \A i \in 1 .. Len(ksToKm) : ksToKm'[i] = ksToKm[i]
          /\ ksToKm'[Len(ksToKm) + 1] = cpu[c].pid
      BY <1>0, <2>1, <2>5, SeqAppend
    <3>2. DOMAIN ksToKm' = 1 .. Len(ksToKm) + 1 /\ DOMAIN ksToKm = 1 .. Len(ksToKm)
          /\ Len(ksToKm) \in Nat
      BY <2>1, <3>1, SeqFacts
    <3>3. \A i \in DOMAIN ksToKm' : ksToKm'[i] \in Pid /\ status'[ksToKm'[i]] = "EXIT"
      BY <1>0, <1>3, <2>3, <2>5, <3>1, <3>2
    <3> QED BY <2>1, <2>2, <3>1, <3>3 DEF Known
  <2> QED BY <2>4, <2>5
<1>5. \A r \in Pid : Hosted(r)
  BY <1>3 DEF Hosted
<1>6. \A d \in Cpu \ {c} : Flagged(d)'
  BY <1>2, <1>3, OtherFlags
<1>7. Flagged(c)'
  BY <1>2, <1>3, ReportFlags
<1>8. IsSeq(sticks) /\ context = [p \in Pid |-> context[p]]
  BY DEF KmInv, Arrays
<1> QED BY <1>0, <1>4, <1>5, <1>6, <1>7, <1>8, KmElsewhere

\* Every report is handled by one of these.
LEMMA KmReport ==
  ASSUME CycleInv, KmInv, NEW c \in Cpu,
         \/ handle_cycle_cpu_ok(c) \/ handle_segmentation_fault(c)
         \/ handle_syscall_mutex(c) \/ handle_syscall_memory_allocation(c)
         \/ handle_syscall_memory_free(c) \/ handle_syscall_io(c)
         \/ handle_syscall_start_process(c) \/ handle_syscall_exit(c)
  PROVE  KmInv'
<1>0. Keeps(status) /\ status \in [Pid -> States]
  BY DEF CycleInv, Shapes, Keeps
<1>1. PICK ops : Handles(c, ops)
  BY DEF handle_cycle_cpu_ok, handle_segmentation_fault, handle_syscall_mutex,
         handle_syscall_memory_allocation, handle_syscall_memory_free, handle_syscall_io,
         handle_syscall_start_process, handle_syscall_exit
<1>2. UNCHANGED sticks
  BY DEF handle_cycle_cpu_ok, handle_segmentation_fault, handle_syscall_mutex,
         handle_syscall_memory_allocation, handle_syscall_memory_free, handle_syscall_io,
         handle_syscall_start_process, handle_syscall_exit, memVars
<1>3. ASSUME go_on(c, status), UNCHANGED <<processes, context, ksToKm>> PROVE KmInv'
  BY <1>0, <1>1, <1>2, <1>3, KmGoesOn
<1>4. ASSUME NEW reason, preempt(c, status, "BLOCK", reason),
             UNCHANGED <<processes, context, ksToKm>>
      PROVE  KmInv'
  BY <1>1, <1>2, <1>4, KmPreempted
<1>5. ASSUME NEW reason, exit(c, reason), UNCHANGED <<processes, context>>,
             Head(cpuToKs[c]).op \notin MemOps \/ reason = PR_NOT_ENOUGH_MEMORY
      PROVE  KmInv'
  BY <1>1, <1>2, <1>5, KmPreempted DEF exit
<1>6. CASE handle_cycle_cpu_ok(c)
  BY <1>3, <1>6 DEF handle_cycle_cpu_ok
<1>7. CASE handle_segmentation_fault(c) \/ handle_syscall_exit(c)
  BY <1>5, <1>7 DEF handle_segmentation_fault, handle_syscall_exit, Handles, MemOps
<1>8. CASE handle_syscall_mutex(c)
  BY <1>3, <1>4, <1>5, <1>8 DEF handle_syscall_mutex, Handles, MemOps
<1>9. CASE handle_syscall_memory_allocation(c)
  BY <1>3, <1>5, <1>9 DEF handle_syscall_memory_allocation
<1>10. CASE handle_syscall_memory_free(c)
  BY <1>3, <1>10 DEF handle_syscall_memory_free
<1>11. CASE handle_syscall_io(c)
  BY <1>4, <1>5, <1>11 DEF handle_syscall_io, Handles, MemOps
<1>12. CASE handle_syscall_start_process(c)
  <2>1. PICK q \in Pid : /\ status[q] = "NEW" /\ notify_new_process(q)
                         /\ go_on(c, [status EXCEPT ![q] = "READY"])
    BY <1>12 DEF handle_syscall_start_process
  <2>2. PICK states : states = [status EXCEPT ![q] = "READY"]
    OBVIOUS
  <2>3. Keeps(states)
    BY <1>0, <2>1, <2>2 DEF Keeps, States
  <2>4. UNCHANGED ksToKm
    BY <1>12 DEF handle_syscall_start_process
  <2> QED BY <1>1, <1>2, <2>1, <2>2, <2>3, <2>4, KmGoesOn
<1> QED BY <1>6, <1>7, <1>8, <1>9, <1>10, <1>11, <1>12

\* The thread of a CPU takes a process from READY.
LEMMA KmRequest ==
  ASSUME CycleInv, KmInv, NEW c \in Cpu, manage_request_process(c)
  PROVE  KmInv'
<1>0. /\ UNCHANGED <<cpu, cpuToKm, kmToCpu, last, overtaken, crashed, lost, sticks, processes,
                     context, ksToKm, cpuToKs>>
      /\ ks[c].stage = "request"
  BY DEF manage_request_process, failVars, ghostVars, memVars
<1>1. PICK p \in Pid : /\ status[p] = "READY" /\ status' = [status EXCEPT ![p] = "EXEC"]
                       /\ ksToCpu' = send(ksToCpu, c, RESUME_PROCESS(p))
  BY DEF manage_request_process
<1>2. /\ status \in [Pid -> States] /\ ksToCpu = [d \in Cpu |-> ksToCpu[d]]
      /\ ks \in [Cpu -> [stage : {"request", "receive", "closed"}, pid : Pid \cup {NoPid}]]
      /\ Talk(c)
  BY DEF CycleInv, Shapes, Conversation
<1>3. Lively(status', status)
  BY <1>1, <1>2 DEF Lively
<1>4. Known'
  BY <1>0, <1>3 DEF KmInv, Known, Lively
<1>5. \A r \in Pid : Hosted(r)
  BY <1>0, <1>3 DEF Hosted, Lively
<1>6. ASSUME NEW d \in Cpu PROVE Flagged(d)'
  <2>1. Flagged(d)
    BY DEF KmInv
  <2>2. CASE d # c
    <3>1. SameFlags(d)
      BY <1>0, <1>1, <1>2, <2>2 DEF SameFlags, send
    <3>2. cpu[d].stage \in {"interrupt", "update"} => cpu[d].pid \in Pid
      BY <2>1 DEF Flagged
    <3> QED BY <1>0, <1>3, <2>1, <3>1, <3>2, SameFlagged DEF Lively
  <2>3. CASE d = c
    <3>1. CASE cpu[c].stage = "interrupt"
      <4>1. cpuToKs[c] = <<>> /\ Answered(c)
        BY <1>0, <1>2, <3>1 DEF Talk, Working
      <4>2. PICK m : ksToCpu[c] = <<m>>
        BY <1>0, <1>2, <4>1 DEF Answered
      <4>3. ksToCpu'[c] = <<m, RESUME_PROCESS(p)>>
        BY <1>1, <1>2, <4>2, TwoMessages DEF send
      <4>4. Head(ksToCpu'[c]) = m /\ Head(ksToCpu[c]) = m /\ ksToCpu[c] # <<>>
        BY <4>2, <4>3, OneMessage, TwoMessages
      <4>5. needs_table(c, m)' <=> needs_table(c, m)
        BY <1>0 DEF needs_table
      <4>6. cpu[c].pid \in Pid
        BY <2>1, <2>3, <3>1 DEF Flagged
      <4> QED BY <1>0, <1>3, <2>1, <2>3, <3>1, <4>1, <4>4, <4>5, <4>6 DEF Flagged, Lively
    <3>2. CASE cpu[c].stage # "interrupt"
      <4>1. cpu[c].stage = "update" => cpu[c].pid \in Pid
        BY <2>1, <2>3 DEF Flagged
      <4> QED BY <1>0, <1>3, <2>1, <2>3, <3>2, <4>1 DEF Flagged, Lively
    <3> QED BY <3>1, <3>2
  <2> QED BY <2>2, <2>3
<1>7. IsSeq(sticks) /\ context = [r \in Pid |-> context[r]]
  BY DEF KmInv, Arrays
<1> QED BY <1>0, <1>4, <1>5, <1>6, <1>7, KmElsewhere

\* A step that leaves the channels alone and lets no process begin or end.
LEMMA KmLively ==
  ASSUME CycleInv, KmInv, UNCHANGED <<cpu, cpuToKm, kmToCpu, ksToCpu, cpuToKs, last, overtaken>>,
         UNCHANGED <<context, crashed>>, lost \subseteq lost', IsSeq(sticks'),
         Len(sticks') = Len(sticks), Lively(status', status), Known',
         processes' \subseteq processes
  PROVE  KmInv'
<1>1. \A r \in Pid : Hosted(r)
  BY DEF Hosted, Lively
<1>2. ASSUME NEW d \in Cpu PROVE Flagged(d)'
  <2>1. Flagged(d) /\ SameFlags(d)
    BY DEF KmInv, SameFlags
  <2>2. cpu[d].stage \in {"interrupt", "update"} => cpu[d].pid \in Pid
    BY <2>1 DEF Flagged
  <2> QED BY <2>1, <2>2, SameFlagged DEF Lively
<1>3. context = [p \in Pid |-> context[p]]
  BY DEF KmInv, Arrays
<1> QED BY <1>1, <1>2, <1>3, KmElsewhere

LEMMA SameKnown ==
  ASSUME KmInv, Lively(status', status), UNCHANGED <<processes, ksToKm>>
  PROVE  Known'
BY DEF KmInv, Known, Lively

LEMMA KmInvalid ==
  ASSUME CycleInv, KmInv, NEW c \in Cpu, handle_invalid_syscall(c)
  PROVE  KmInv'
<1>1. UNCHANGED <<cpu, cpuToKm, kmToCpu, ksToCpu, cpuToKs, last, overtaken, context, crashed,
                  lost, sticks, processes, ksToKm>>
  BY DEF handle_invalid_syscall, chanVars, failVars, ghostVars, memVars
<1>2. status \in [Pid -> States] /\ ks[c].pid \in Pid /\ status[ks[c].pid] = "EXEC"
  BY DEF CycleInv, Shapes, Conversation, Dispatched, handle_invalid_syscall
<1>3. Lively(status', status)
  BY <1>2 DEF handle_invalid_syscall, Lively
<1>4. IsSeq(sticks)
  BY DEF KmInv, Arrays
<1> QED BY <1>1, <1>3, <1>4, SameKnown, KmLively

LEMMA KmKsStep ==
  ASSUME CycleInv, KmInv, NEW c \in Cpu, KsStep(c)
  PROVE  KmInv'
BY KmRequest, KmReport, KmInvalid DEF KsStep

\* Steps about memory and the processes that are not in EXEC.
LEMMA KmQuietStep ==
  ASSUME CycleInv, KmInv,
         \/ add_total_memory \/ watch_sticks \/ \E k \in DOMAIN sticks : stick_disconnects(k)
         \/ \E p \in Pid : transition_unblock(p) \/ suspend_process(p)
  PROVE  KmInv'
<1>1. UNCHANGED <<cpu, cpuToKm, kmToCpu, ksToCpu, cpuToKs, last, overtaken, context, crashed,
                  sticks, processes, ksToKm>>
  BY DEF add_total_memory, watch_sticks, stick_disconnects, transition_unblock,
         suspend_process, chanVars, failVars, ghostVars, memVars
<1>2. status \in [Pid -> States]
  BY DEF CycleInv, Shapes
<1>3. Lively(status', status)
  BY <1>2 DEF add_total_memory, watch_sticks, stick_disconnects, transition_unblock,
              suspend_process, Lively
<1>4. IsSeq(sticks)
  BY DEF KmInv, Arrays
<1>5. lost \subseteq lost'
  BY DEF add_total_memory, watch_sticks, stick_disconnects, transition_unblock,
         suspend_process, failVars
<1> QED BY <1>1, <1>3, <1>4, <1>5, SameKnown, KmLively

LEMMA KmEndProcess ==
  ASSUME CycleInv, KmInv, handle_end_process
  PROVE  KmInv'
<1>1. /\ UNCHANGED <<cpu, cpuToKm, kmToCpu, ksToCpu, cpuToKs, last, overtaken, context, crashed,
                     lost, sticks, status>>
      /\ ksToKm # <<>> /\ ksToKm' = Tail(ksToKm) /\ processes' = processes \ {Head(ksToKm)}
  BY DEF handle_end_process, failVars
<1>2. /\ processes \subseteq Pid /\ IsSeq(ksToKm)
      /\ \A p \in Pid : status[p] \notin {"NEW", "EXIT"} => p \in processes
      /\ \A i \in DOMAIN ksToKm : ksToKm[i] \in Pid /\ status[ksToKm[i]] = "EXIT"
  BY DEF KmInv, Known
<1>3. /\ IsSeq(Tail(ksToKm)) /\ Head(ksToKm) = ksToKm[1] /\ 1 \in DOMAIN ksToKm
      /\ \A k \in DOMAIN Tail(ksToKm) : \E j \in DOMAIN ksToKm : Tail(ksToKm)[k] = ksToKm[j]
  <2>1. IsSeq(Tail(ksToKm)) /\ Head(ksToKm) = ksToKm[1] /\ Len(ksToKm) \in Nat \ {0}
    BY <1>1, <1>2, SeqTail
  <2>2. DOMAIN ksToKm = 1 .. Len(ksToKm)
    BY <1>2, SeqFacts
  <2> QED BY <1>1, <1>2, <2>1, <2>2, FewerMessages
<1>4. Known'
  BY <1>1, <1>2, <1>3 DEF Known
<1>5. Lively(status', status)
  BY <1>1 DEF Lively
<1>6. IsSeq(sticks)
  BY DEF KmInv, Arrays
<1> QED BY <1>1, <1>4, <1>5, <1>6, KmLively

-----------------------------------------------------------------------------
(* Lists that are built in one pass.                                       *)

\* Main memory, segment by segment.
LEMMA RestorePass ==
  ASSUME NEW p, IsSeq(swapped[p])
  PROVE  \E g : /\ restored(p) = g[Len(swapped[p])]
                /\ g[0] = [ok |-> TRUE, holes |-> holes, segments |-> segments,
                           sticks |-> sticks]
                /\ \A i \in 1 .. Len(swapped[p]) : g[i] = restore(p, g[i - 1], swapped[p][i])
<1>0. PICK out : out = swapped[p]
  OBVIOUS
<1>1. PICK n \in Nat : n = Len(out)
  BY <1>0, SeqFacts
<1>2. PICK init : init = [ok |-> TRUE, holes |-> holes, segments |-> segments,
                          sticks |-> sticks]
  OBVIOUS
<1> DEFINE P(m, f) == f = [i \in 0 .. m |->
                             IF i = 0 THEN init ELSE restore(p, f[i - 1], out[i])]
           S == {m \in Nat : \E f : P(m, f)}
<1>3. 0 \in S
  <2> DEFINE f == [i \in 0 .. 0 |-> init]
  <2>1. P(0, f)
    OBVIOUS
  <2> QED BY <2>1
<1>4. ASSUME NEW m \in S PROVE m + 1 \in S
  <2>1. PICK f : P(m, f)
    BY <1>4
  <2>2. m \in Nat
    BY <1>4
  <2> DEFINE x == restore(p, f[m], out[m + 1])
             g == [i \in 0 .. m + 1 |-> IF i = m + 1 THEN x ELSE f[i]]
             h == [i \in 0 .. m + 1 |-> IF i = 0 THEN init ELSE restore(p, g[i - 1], out[i])]
  <2>3. \A i \in 0 .. m : f[i] = IF i = 0 THEN init ELSE restore(p, f[i - 1], out[i])
    BY <2>1, Zenon
  <2>4. ASSUME NEW i \in 0 .. m + 1
        PROVE  g[i] = IF i = 0 THEN init ELSE restore(p, g[i - 1], out[i])
    <3>1. CASE i = 0
      BY <2>2, <2>3, <3>1
    <3>2. CASE i \in 1 .. m
      <4>1. g[i] = f[i] /\ g[i - 1] = f[i - 1] /\ i \in 0 .. m /\ i # 0
        BY <2>2, <3>2
      <4>2. f[i] = restore(p, f[i - 1], out[i])
        BY <2>3, <4>1, Zenon
      <4> QED BY <4>1, <4>2, Zenon
    <3>3. CASE i = m + 1
      <4>1. g[i] = x /\ i - 1 = m /\ g[m] = f[m] /\ i # 0
        BY <2>2, <3>3
      <4> QED BY <3>3, <4>1
    <3> QED BY <2>2, <3>1, <3>2, <3>3
  <2>5. g = h
    <3> HIDE DEF x
    <3>1. \A i \in 0 .. m + 1 : g[i] = h[i]
      BY <2>4
    <3>2. g = [i \in 0 .. m + 1 |-> g[i]] /\ h = [i \in 0 .. m + 1 |-> h[i]]
      OBVIOUS
    <3> HIDE DEF g, h
    <3> QED BY <3>1, <3>2
  <2>6. P(m + 1, g)
    BY <2>5
  <2> HIDE DEF g, x
  <2> QED BY <2>2, <2>6
<1>5. S = Nat
  <2>1. S \in SUBSET Nat
    OBVIOUS
  <2> HIDE DEF S
  <2> QED BY <1>3, <1>4, <2>1, Induction
<1>6. \E f : P(n, f)
  BY <1>5
<1>7. P(n, CHOOSE f : P(n, f))
  BY <1>6, Zenon
<1>8. PICK g : P(n, g) /\ restored(p) = g[n]
  <2>1. restored(p) = (CHOOSE f : P(n, f))[n]
    BY <1>0, <1>1, <1>2, Zenon DEF restored
  <2> QED BY <1>7, <2>1, Zenon
<1>9. \A i \in 0 .. n : g[i] = IF i = 0 THEN init ELSE restore(p, g[i - 1], out[i])
  BY <1>8, Zenon
<1>10. /\ 0 \in 0 .. n /\ \A i \in 1 .. n : i \in 0 .. n /\ i # 0
  OBVIOUS
<1>11. g[0] = init /\ \A i \in 1 .. n : g[i] = restore(p, g[i - 1], out[i])
  BY <1>9, <1>10, Zenon
<1> QED BY <1>0, <1>1, <1>2, <1>8, <1>11

\* And those that are not its own.
LEMMA RemovePass ==
  ASSUME NEW segs, IsSeq(segs), NEW p
  PROVE  \E g : /\ remove_process_segments(segs, p) = g[Len(segs)] /\ g[0] = <<>>
                /\ \A i \in 1 .. Len(segs) :
                     g[i] = IF segs[i].pid # p THEN Append(g[i - 1], segs[i]) ELSE g[i - 1]
<1>1. PICK n \in Nat : n = Len(segs)
  BY SeqFacts
<1> DEFINE Step(i, v) == IF segs[i].pid # p THEN Append(v, segs[i]) ELSE v
           P(m, f) == f = [i \in 0 .. m |-> IF i = 0 THEN <<>> ELSE Step(i, f[i - 1])]
           S == {m \in Nat : \E f : P(m, f)}
<1> HIDE DEF Step
<1>3. 0 \in S
  <2> DEFINE f == [i \in 0 .. 0 |-> <<>>]
  <2>1. P(0, f)
    OBVIOUS
  <2> QED BY <2>1
<1>4. ASSUME NEW m \in S PROVE m + 1 \in S
  <2>1. PICK f : P(m, f)
    BY <1>4
  <2>2. m \in Nat
    BY <1>4
  <2> DEFINE x == Step(m + 1, f[m])
             g == [i \in 0 .. m + 1 |-> IF i = m + 1 THEN x ELSE f[i]]
             h == [i \in 0 .. m + 1 |-> IF i = 0 THEN <<>> ELSE Step(i, g[i - 1])]
  <2>3. \A i \in 0 .. m : f[i] = IF i = 0 THEN <<>> ELSE Step(i, f[i - 1])
    BY <2>1, Zenon
  <2>4. ASSUME NEW i \in 0 .. m + 1
        PROVE  g[i] = IF i = 0 THEN <<>> ELSE Step(i, g[i - 1])
    <3>1. CASE i = 0
      BY <2>2, <2>3, <3>1
    <3>2. CASE i \in 1 .. m
      <4>1. g[i] = f[i] /\ g[i - 1] = f[i - 1] /\ i \in 0 .. m /\ i # 0
        BY <2>2, <3>2
      <4>2. f[i] = Step(i, f[i - 1])
        BY <2>3, <4>1, Zenon
      <4> QED BY <4>1, <4>2, Zenon
    <3>3. CASE i = m + 1
      <4>1. g[i] = x /\ i - 1 = m /\ g[m] = f[m] /\ i # 0
        BY <2>2, <3>3
      <4> QED BY <3>3, <4>1
    <3> QED BY <2>2, <3>1, <3>2, <3>3
  <2>5. g = h
    <3> HIDE DEF x
    <3>1. \A i \in 0 .. m + 1 : g[i] = h[i]
      BY <2>4
    <3>2. g = [i \in 0 .. m + 1 |-> g[i]] /\ h = [i \in 0 .. m + 1 |-> h[i]]
      OBVIOUS
    <3> HIDE DEF g, h
    <3> QED BY <3>1, <3>2
  <2>6. P(m + 1, g)
    BY <2>5
  <2> HIDE DEF g, x
  <2>7. \E e : P(m + 1, e)
    <3> HIDE DEF P
    <3> QED BY <2>6
  <2>8. m + 1 \in Nat
    BY <2>2
  <2> HIDE DEF P
  <2> QED BY <2>7, <2>8
<1>5. S = Nat
  <2>1. S \in SUBSET Nat
    OBVIOUS
  <2> HIDE DEF S
  <2> QED BY <1>3, <1>4, <2>1, Induction
<1>6. P(n, CHOOSE f : P(n, f))
  <2>1. \E f : P(n, f)
    BY <1>5
  <2> QED BY <2>1, Zenon
<1>7. PICK g : P(n, g) /\ remove_process_segments(segs, p) = g[n]
  <2>1. remove_process_segments(segs, p) = (CHOOSE f : P(n, f))[n]
    BY <1>1, Zenon DEF remove_process_segments, Step
  <2> QED BY <1>6, <2>1, Zenon
<1>8. \A i \in 0 .. n : g[i] = IF i = 0 THEN <<>> ELSE Step(i, g[i - 1])
  BY <1>7, Zenon
<1>9. /\ 0 \in 0 .. n /\ \A i \in 1 .. n : i \in 0 .. n /\ i # 0
  OBVIOUS
<1>10. g[0] = <<>> /\ \A i \in 1 .. n : g[i] = Step(i, g[i - 1])
  BY <1>8, <1>9, Zenon
<1> QED BY <1>1, <1>7, <1>10 DEF Step

\* The segments of another process are removed.
LEMMA FilterRemoved ==
  ASSUME NEW segs, IsSeq(segs), NEW q
  PROVE  /\ IsSeq(remove_process_segments(segs, q))
         /\ \A p : p # q => filter_process_segments(remove_process_segments(segs, q), p) =
                              filter_process_segments(segs, p)
<1>1. PICK n \in Nat : n = Len(segs)
  BY SeqFacts
<1>2. PICK k : /\ remove_process_segments(segs, q) = k[n] /\ k[0] = <<>>
               /\ \A i \in 1 .. n :
                    k[i] = IF segs[i].pid # q THEN Append(k[i - 1], segs[i]) ELSE k[i - 1]
  BY <1>1, RemovePass
<1>3. IsSeq(k[n])
  <2> DEFINE T == {m \in Nat : m <= n => IsSeq(k[m])}
  <2>1. 0 \in T
    BY <1>2, SeqEmpty
  <2>2. ASSUME NEW m \in T PROVE m + 1 \in T
    <3> SUFFICES ASSUME m + 1 <= n PROVE IsSeq(k[m + 1])
      OBVIOUS
    <3>1. m \in Nat /\ IsSeq(k[m])
      BY <2>2
    <3>2. PICK i \in 1 .. n : i = m + 1 /\ i - 1 = m
      BY <3>1
    <3>3. IsSeq(Append(k[m], segs[i]))
      BY <3>1, SeqAppend
    <3> QED BY <1>2, <3>1, <3>2, <3>3
  <2>3. T = Nat
    <3>1. T \in SUBSET Nat
      OBVIOUS
    <3> HIDE DEF T
    <3> QED BY <2>1, <2>2, <3>1, Induction
  <2> QED BY <2>3
<1>4. ASSUME NEW p, p # q
      PROVE  filter_process_segments(k[n], p) = filter_process_segments(segs, p)
  <2>1. PICK g : filter_process_segments(segs, p) = g[n] /\ Collects(g, segs, p, n)
    BY <1>1, FilterCollects
  <2> DEFINE T == {m \in Nat : m <= n =>
                     IsSeq(k[m]) /\ filter_process_segments(k[m], p) = g[m]}
  <2>2. 0 \in T
    BY <1>2, <2>1, SeqEmpty, FilterEmpty DEF Collects
  <2>3. ASSUME NEW m \in T PROVE m + 1 \in T
    <3> SUFFICES ASSUME m + 1 <= n
                 PROVE  IsSeq(k[m + 1]) /\ filter_process_segments(k[m + 1], p) = g[m + 1]
      OBVIOUS
    <3>1. m \in Nat /\ IsSeq(k[m]) /\ filter_process_segments(k[m], p) = g[m]
      BY <2>3
    <3>2. PICK i \in 1 .. n : i = m + 1 /\ i - 1 = m
      BY <3>1
    <3>3. PICK x : x = segs[i]
      OBVIOUS
    <3>4. /\ k[i] = IF x.pid # q THEN Append(k[m], x) ELSE k[m]
          /\ g[i] = IF x.pid = p THEN Append(g[m], x) ELSE g[m]
      BY <1>2, <2>1, <3>2, <3>3 DEF Collects
    <3>5. CASE x.pid # q
      <4>1. IsSeq(Append(k[m], x))
        BY <3>1, SeqAppend
      <4>2. filter_process_segments(Append(k[m], x), p) =
              IF x.pid = p THEN Append(filter_process_segments(k[m], p), x)
              ELSE filter_process_segments(k[m], p)
        BY <3>1, FilterAppend
      <4> QED BY <3>1, <3>2, <3>4, <3>5, <4>1, <4>2
    <3>6. CASE x.pid = q
      BY <1>4, <3>1, <3>2, <3>4, <3>6
    <3> QED BY <3>5, <3>6
  <2>4. T = Nat
    <3>1. T \in SUBSET Nat
      OBVIOUS
    <3> HIDE DEF T
    <3> QED BY <2>2, <2>3, <3>1, Induction
  <2>5. n \in T /\ n <= n
    BY <2>4
  <2> QED BY <2>1, <2>5
<1> QED BY <1>2, <1>3, <1>4

\* The sticks after a write are the same sticks.
LEMMA WriteIsSeq ==
  ASSUME NEW s, IsSeq(s), NEW a, NEW bytes
  PROVE  IsSeq(write_to_sticks(s, a, bytes)) /\ Len(write_to_sticks(s, a, bytes)) = Len(s)
<1>1. PICK n \in Nat : n = Len(s) /\ DOMAIN s = 1 .. n
  BY SeqFacts
<1>2. CASE find_stick(s, a) = 0
  BY <1>2 DEF write_to_sticks
<1>3. CASE find_stick(s, a) # 0
  <2>1. PICK t : t = write_to_sticks(s, a, bytes)
    OBVIOUS
  <2>2. DOMAIN t = 1 .. n /\ t = [i \in 1 .. n |-> t[i]]
    BY <1>1, <1>3, <2>1, Zenon DEF write_to_sticks
  <2> DEFINE S == {t[i] : i \in 1 .. n}
  <2>3. \A i \in 1 .. n : t[i] \in S
    OBVIOUS
  <2> HIDE DEF S
  <2>4. t \in Seq(S) /\ Len(t) = n
    BY <2>2, <2>3
  <2> QED BY <1>1, <2>1, <2>4, IsSeqFrom
<1> QED BY <1>2, <1>3

\* Main memory after some of the segments of p are back.
Restoring(m, p) ==
  /\ m = [ok |-> m.ok, holes |-> m.holes, segments |-> m.segments, sticks |-> m.sticks]
  /\ IsSeq(m.segments) /\ IsSeq(m.sticks) /\ Len(m.sticks) = Len(sticks)
  /\ \A r : r # p => filter_process_segments(m.segments, r) = filter_process_segments(segments, r)

LEMMA RestoreOne ==
  ASSUME NEW p, NEW m, Restoring(m, p), NEW s
  PROVE  Restoring(restore(p, m, s), p)
<1>1. PICK t : t = restore(p, m, s)
  OBVIOUS
<1>2. PICK chosen : chosen = hole_selection_algorithm(s.size, m.holes)
  OBVIOUS
<1>3. CASE ~m.ok \/ chosen = NoHole
  <2>1. t = [m EXCEPT !.ok = FALSE]
    BY <1>1, <1>2, <1>3, Zenon DEF restore
  <2>2. t = [ok |-> FALSE, holes |-> m.holes, segments |-> m.segments, sticks |-> m.sticks]
    <3>1. PICK a, b, d, e : m = [ok |-> a, holes |-> b, segments |-> d, sticks |-> e]
      BY DEF Restoring
    <3>2. m.holes = b /\ m.segments = d /\ m.sticks = e
      BY <3>1
    <3>3. t = [ok |-> FALSE, holes |-> b, segments |-> d, sticks |-> e]
      BY <2>1, <3>1
    <3> QED BY <3>2, <3>3
  <2> QED BY <1>1, <2>2 DEF Restoring
<1>4. CASE ~(~m.ok \/ chosen = NoHole)
  <2>1. PICK x : x = [pid |-> p, id |-> s.id, base |-> chosen.base, size |-> s.size]
    OBVIOUS
  <2>2. PICK h : h = update_hole_table(m.holes, chosen, s.size)
    OBVIOUS
  <2>3. PICK w : w = write_to_sticks(m.sticks, chosen.base, s.bytes)
    OBVIOUS
  <2>4. place(m.holes, m.segments, p, s.id, s.size) =
          [holes |-> h, segments |-> Append(m.segments, x)]
    BY <1>2, <2>1, <2>2 DEF place
  <2>5. t = [ok |-> TRUE, holes |-> place(m.holes, m.segments, p, s.id, s.size).holes,
             segments |-> place(m.holes, m.segments, p, s.id, s.size).segments, sticks |-> w]
    BY <1>1, <1>2, <1>4, <2>3, Zenon DEF restore
  <2>6. t = [ok |-> TRUE, holes |-> h, segments |-> Append(m.segments, x), sticks |-> w]
    BY <2>4, <2>5
  <2>7. IsSeq(w) /\ Len(w) = Len(sticks)
    BY <2>3, WriteIsSeq DEF Restoring
  <2>8. IsSeq(Append(m.segments, x))
    BY SeqAppend DEF Restoring
  <2>9. ASSUME NEW r, r # p
        PROVE  filter_process_segments(Append(m.segments, x), r) =
                 filter_process_segments(segments, r)
    <3>1. x.pid # r
      BY <2>1, <2>9
    <3> QED BY <2>9, <3>1, FilterAppend DEF Restoring
  <2>10. /\ t.ok = TRUE /\ t.holes = h /\ t.segments = Append(m.segments, x) /\ t.sticks = w
    BY <2>6
  <2>11. t = [ok |-> t.ok, holes |-> t.holes, segments |-> t.segments, sticks |-> t.sticks]
    BY <2>6, <2>10, Zenon
  <2>12. Restoring(t, p)
    BY <2>7, <2>8, <2>9, <2>10, <2>11 DEF Restoring
  <2> QED BY <1>1, <2>12
<1> QED BY <1>3, <1>4

LEMMA RestoredFacts ==
  ASSUME NEW p, IsSeq(swapped[p]), IsSeq(segments), IsSeq(sticks)
  PROVE  Restoring(restored(p), p)
<1>1. PICK n \in Nat : n = Len(swapped[p])
  BY SeqFacts
<1>2. PICK g : /\ restored(p) = g[n]
               /\ g[0] = [ok |-> TRUE, holes |-> holes, segments |-> segments, sticks |-> sticks]
               /\ \A i \in 1 .. n : g[i] = restore(p, g[i - 1], swapped[p][i])
  BY <1>1, RestorePass
<1> DEFINE T == {m \in Nat : m <= n => Restoring(g[m], p)}
<1>3. 0 \in T
  <2>1. /\ g[0].segments = segments /\ g[0].sticks = sticks /\ g[0].holes = holes
        /\ g[0].ok = TRUE
    BY <1>2
  <2>2. Restoring(g[0], p)
    BY <1>2, <2>1 DEF Restoring
  <2> QED BY <2>2
<1>4. ASSUME NEW m \in T PROVE m + 1 \in T
  <2> SUFFICES ASSUME m + 1 <= n PROVE Restoring(g[m + 1], p)
    OBVIOUS
  <2>1. m \in Nat /\ Restoring(g[m], p)
    BY <1>4
  <2>2. PICK i \in 1 .. n : i = m + 1 /\ i - 1 = m
    BY <2>1
  <2>3. g[i] = restore(p, g[m], swapped[p][i])
    BY <1>2, <2>2
  <2>4. Restoring(g[i], p)
    BY <2>1, <2>3, RestoreOne
  <2> QED BY <2>2, <2>4
<1>5. T = Nat
  <2>1. T \in SUBSET Nat
    OBVIOUS
  <2> HIDE DEF T
  <2> QED BY <1>3, <1>4, <2>1, Induction
<1>6. n \in T
  BY <1>5
<1>7. Restoring(g[n], p)
  BY <1>6
<1> QED BY <1>2, <1>7

-----------------------------------------------------------------------------
(* The lists of segments stay lists.                                       *)
Lists ==
  /\ IsSeq(segments) /\ swapped = [p \in Pid |-> swapped[p]]
  /\ \A p \in Pid : IsSeq(swapped[p])

LEMMA KmResume ==
  ASSUME CycleInv, KmInv, Lists, NEW p \in Pid, resume_process(p)
  PROVE  KmInv'
<1>1. UNCHANGED <<cpu, cpuToKm, kmToCpu, ksToCpu, cpuToKs, last, overtaken, context, crashed,
                  lost, processes, ksToKm>>
  BY DEF resume_process, chanVars, failVars, ghostVars
<1>2. sticks' = restored(p).sticks
  BY DEF resume_process
<1>3. IsSeq(sticks)
  BY DEF KmInv, Arrays
<1>4. IsSeq(sticks') /\ Len(sticks') = Len(sticks)
  BY <1>2, <1>3, RestoredFacts DEF Lists, Restoring
<1>5. status \in [Pid -> States]
  BY DEF CycleInv, Shapes
<1>6. Lively(status', status)
  BY <1>5 DEF resume_process, Lively
<1> QED BY <1>1, <1>4, <1>6, SameKnown, KmLively

\* The pieces of main memory that a step can put in the place of the lists.
LEMMA ListsKept ==
  ASSUME Lists, NEW segs, IsSeq(segs), NEW p \in Pid, NEW s, IsSeq(s),
         segments' = segs, swapped' = swapped \/ swapped' = [swapped EXCEPT ![p] = s]
  PROVE  Lists'
<1>1. \A r \in Pid : swapped'[r] = IF swapped' # swapped /\ r = p THEN s ELSE swapped[r]
  BY DEF Lists
<1>2. swapped' = [r \in Pid |-> swapped'[r]]
  BY DEF Lists
<1> QED BY <1>1, <1>2 DEF Lists

PlacedSegment(hs, p, id, size) ==
  [pid |-> p, id |-> id, base |-> hole_selection_algorithm(size, hs).base, size |-> size]

LEMMA PlacedSegments ==
  ASSUME NEW hs, NEW segs, NEW p, NEW id, NEW size
  PROVE  /\ place(hs, segs, p, id, size).segments = Append(segs, PlacedSegment(hs, p, id, size))
         /\ PlacedSegment(hs, p, id, size).pid = p
BY DEF place, PlacedSegment

LEMMA ListsCpu ==
  ASSUME Lists, NEW c \in Cpu, CpuStep(c) \/ KmStep(c)
  PROVE  Lists'
<1>1. UNCHANGED <<segments, swapped>>
  <2>1. CASE CpuStep(c)
    BY <2>1 DEF CpuStep, connect_to_kernel_memory, receive_pid, receive_context,
           receive_segment_table, connect_memory_stick, execute_local, handler_mov_in,
           handler_mov_out, handler_copy_mem, read_memory, read_done, write_memory,
           write_done, handler_mutex, handler_mem, handler_io, handler_init_proc,
           handler_exit, Syscall, check_interrupt, update_segment_table, memVars, tableVars
  <2>2. CASE KmStep(c)
    BY <2>2 DEF KmStep, handle_request_context, handle_next_instruction,
           handle_updated_context, handle_updated_segment_table, handle_stick_disconnected,
           Serves, memVars, tableVars
  <2> QED BY <2>1, <2>2
<1> QED BY <1>1 DEF Lists

LEMMA ListsKs ==
  ASSUME Lists, NEW c \in Cpu, KsStep(c)
  PROVE  Lists'
<1>1. CASE handle_syscall_memory_allocation(c)
  <2>1. swapped' = swapped
    BY <1>1 DEF handle_syscall_memory_allocation
  <2>2. \/ segments' = segments
        \/ \E hs, p, id, size : segments' = place(hs, segments, p, id, size).segments
    BY <1>1 DEF handle_syscall_memory_allocation
  <2>3. IsSeq(segments')
    <3>1. segments' = segments \/ \E x : segments' = Append(segments, x)
      <4>1. \A hs, q, id, size : place(hs, segments, q, id, size).segments =
                                   Append(segments, PlacedSegment(hs, q, id, size))
        BY PlacedSegments
      <4> QED BY <2>2, <4>1, Zenon
    <3>2. \A x : IsSeq(Append(segments, x))
      BY SeqAppend DEF Lists
    <3> QED BY <3>1, <3>2, Zenon DEF Lists
  <2> QED BY <2>1, <2>3 DEF Lists
<1>2. CASE handle_syscall_memory_free(c)
  <2>1. swapped' = swapped /\ \E i : segments' = ListRemove(segments, i)
    BY <1>2 DEF handle_syscall_memory_free
  <2>2. IsSeq(segments')
    BY <2>1, FilterListRemove DEF Lists
  <2> QED BY <2>1, <2>2 DEF Lists
<1>3. CASE ~handle_syscall_memory_allocation(c) /\ ~handle_syscall_memory_free(c)
  <2>1. UNCHANGED <<segments, swapped>>
    BY <1>3 DEF KsStep, manage_request_process, handle_cycle_cpu_ok,
           handle_segmentation_fault, handle_syscall_mutex, handle_syscall_io,
           handle_syscall_start_process, handle_syscall_exit, handle_invalid_syscall,
           memVars, tableVars
  <2> QED BY <2>1 DEF Lists
<1> QED BY <1>1, <1>2, <1>3

LEMMA ListsNext ==
  ASSUME Lists, IsSeq(sticks), [Next]_vars
  PROVE  Lists'
<1>1. ASSUME NEW p \in Pid, suspend_process(p) PROVE Lists'
  <2>1. PICK mine : mine = filter_process_segments(segments, p)
    OBVIOUS
  <2>2. PICK n \in Nat : n = Len(mine) /\ DOMAIN mine = 1 .. n
    BY <2>1, FilterIsSeq, SeqFacts DEF Lists
  <2>3. PICK s : s = [i \in DOMAIN mine |->
                 [id |-> mine[i].id, size |-> mine[i].size,
                  bytes |-> read_from_sticks(sticks, mine[i].base, mine[i].size)]]
    OBVIOUS
  <2>4. IsSeq(s)
    <3>1. s = [i \in 1 .. n |-> s[i]]
      BY <2>2, <2>3
    <3> DEFINE S == {s[i] : i \in 1 .. n}
    <3>2. \A i \in 1 .. n : s[i] \in S
      OBVIOUS
    <3> HIDE DEF S
    <3>3. s \in Seq(S)
      BY <3>1, <3>2
    <3> QED BY <3>3, IsSeqFrom
  <2>5. /\ swapped' = [swapped EXCEPT ![p] = s]
        /\ segments' = remove_process_segments(segments, p)
    BY <1>1, <2>1, <2>3 DEF suspend_process
  <2>6. IsSeq(remove_process_segments(segments, p))
    BY FilterRemoved DEF Lists
  <2> QED BY <2>4, <2>5, <2>6, ListsKept
<1>2. ASSUME NEW p \in Pid, resume_process(p) PROVE Lists'
  <2>1. segments' = restored(p).segments /\ swapped' = [swapped EXCEPT ![p] = <<>>]
    BY <1>2 DEF resume_process
  <2>2. IsSeq(restored(p).segments)
    BY RestoredFacts DEF Lists, Restoring
  <2> QED BY <2>1, <2>2, SeqEmpty, ListsKept
<1>3. ASSUME handle_end_process PROVE Lists'
  <2>1. /\ swapped' = swapped
        /\ \E p : segments' = remove_process_segments(segments, p)
    BY <1>3 DEF handle_end_process
  <2>2. IsSeq(segments')
    BY <2>1, FilterRemoved DEF Lists
  <2> QED BY <2>1, <2>2 DEF Lists
<1>4. ASSUME \/ add_stick_connection \/ add_total_memory \/ watch_sticks \/ UNCHANGED vars
             \/ \E k \in DOMAIN sticks : stick_disconnects(k)
             \/ \E p \in Pid : transition_unblock(p)
      PROVE  Lists'
  <2>1. UNCHANGED <<segments, swapped>>
    BY <1>4 DEF add_stick_connection, add_total_memory, watch_sticks, stick_disconnects,
           transition_unblock, vars, memVars, tableVars
  <2> QED BY <2>1 DEF Lists
<1> QED BY <1>1, <1>2, <1>3, <1>4, ListsCpu, ListsKs DEF Next, System

-----------------------------------------------------------------------------
(* A new stick is announced to every CPU that is connected.                *)
LEMMA StickBetween ==
  ASSUME NEW c \in Cpu, KmTalk(c), c \in Connected, IsSeq(sticks), add_stick_connection,
         kmToCpu = [d \in Cpu |-> kmToCpu[d]], NEW k \in Nat, NEW n \in Nat, Between(c, k, n)
  PROVE  /\ Between(c, k, n)'
         /\ Len(kmToCpu[c]) \in Nat /\ Len(kmToCpu'[c]) = Len(kmToCpu[c]) + 1
         /\ \A i \in 1 .. Len(kmToCpu[c]) : kmToCpu'[c][i] = kmToCpu[c][i]
         /\ kmToCpu'[c][Len(kmToCpu[c]) + 1].op = "PACKET"
         /\ k + n <= Len(kmToCpu[c])
<1>1. PICK ch, known, listed : ch = kmToCpu[c] /\ known = Len(cpu[c].sticks) /\ listed = Len(sticks)
  OBVIOUS
<1>2. known \in Nat /\ listed \in Nat /\ Layout(ch, known, listed, k, n)
  BY <1>1, SeqFacts DEF KmTalk, Between
<1>3. kmToCpu'[c] = Append(ch, PACKET(listed + 1)) /\ cpu' = cpu
  BY <1>1 DEF add_stick_connection, send_cpu_connection
<1>4. Len(sticks') = listed + 1
  BY <1>1, SeqAppend DEF add_stick_connection
<1>5. Layout(kmToCpu'[c], known, listed + 1, k, n)
  BY <1>2, <1>3, LayoutStick
<1>6. IsSeq(ch) /\ k + n <= Len(ch)
  BY <1>2 DEF Layout
<1>7. PACKET(listed + 1).op = "PACKET"
  BY DEF PACKET
<1>8. Len(ch) \in Nat
  BY <1>6, SeqFacts
<1>9. /\ Len(kmToCpu'[c]) = Len(ch) + 1 /\ kmToCpu'[c][Len(ch) + 1] = PACKET(listed + 1)
      /\ \A i \in 1 .. Len(ch) : kmToCpu'[c][i] = ch[i]
  BY <1>3, <1>6, SeqAppend
<1> QED BY <1>1, <1>3, <1>4, <1>5, <1>6, <1>7, <1>8, <1>9 DEF Between

LEMMA StickTalk ==
  ASSUME NEW c \in Cpu, KmTalk(c), IsSeq(sticks), add_stick_connection,
         kmToCpu = [d \in Cpu |-> kmToCpu[d]]
  PROVE  KmTalk(c)'
<1>0. UNCHANGED <<cpu, cpuToKm, overtaken, lost>>
  BY DEF add_stick_connection, ghostVars, failVars
<1>1. CASE c \in Connected
  <2>1. ASSUME NEW k \in Nat, NEW n \in Nat, Between(c, k, n)
        PROVE  /\ Between(c, k, n)'
               /\ Len(kmToCpu[c]) \in Nat /\ Len(kmToCpu'[c]) = Len(kmToCpu[c]) + 1
               /\ \A i \in 1 .. Len(kmToCpu[c]) : kmToCpu'[c][i] = kmToCpu[c][i]
               /\ k + n <= Len(kmToCpu[c])
    BY <1>1, <2>1, StickBetween
  <2>2. Quiet(c) => Quiet(c)'
    BY <2>1 DEF Quiet
  <2>3. ASSUME NEW op, Answer(c, op) PROVE Answer(c, op)'
    <3>1. PICK k \in 0 .. Len(kmToCpu[c]) : Between(c, k, 1) /\ kmToCpu[c][k + 1].op = op
      BY <2>3 DEF Answer
    <3>2. PICK n \in Nat \ {0} : n = 1
      OBVIOUS
    <3>3. k \in Nat
      OBVIOUS
    <3>4. /\ Between(c, k, n)' /\ Len(kmToCpu[c]) \in Nat
          /\ Len(kmToCpu'[c]) = Len(kmToCpu[c]) + 1 /\ k + 1 <= Len(kmToCpu[c])
          /\ \A i \in 1 .. Len(kmToCpu[c]) : kmToCpu'[c][i] = kmToCpu[c][i]
      BY <2>1, <3>1, <3>2, <3>3
    <3>5. kmToCpu'[c][k + 1] = kmToCpu[c][k + 1] /\ k \in 0 .. Len(kmToCpu'[c])
      BY <3>3, <3>4
    <3> QED BY <3>1, <3>2, <3>4, <3>5 DEF Answer
  <2>4. ASSUME Loads(c) PROVE Loads(c)'
    <3>1. PICK k \in 0 .. Len(kmToCpu[c]) : /\ Between(c, k, 2)
                                            /\ kmToCpu[c][k + 1].op = "SEND_CONTEXT"
                                            /\ kmToCpu[c][k + 2].op = "SEGMENT_TABLE"
      BY <2>4 DEF Loads
    <3>2. PICK n \in Nat \ {0} : n = 2
      OBVIOUS
    <3>3. k \in Nat
      OBVIOUS
    <3>4. /\ Between(c, k, n)' /\ Len(kmToCpu[c]) \in Nat
          /\ Len(kmToCpu'[c]) = Len(kmToCpu[c]) + 1 /\ k + 2 <= Len(kmToCpu[c])
          /\ \A i \in 1 .. Len(kmToCpu[c]) : kmToCpu'[c][i] = kmToCpu[c][i]
      BY <2>1, <3>1, <3>2, <3>3
    <3>5. /\ kmToCpu'[c][k + 1] = kmToCpu[c][k + 1] /\ kmToCpu'[c][k + 2] = kmToCpu[c][k + 2]
          /\ k \in 0 .. Len(kmToCpu'[c])
      BY <3>3, <3>4
    <3> QED BY <3>1, <3>2, <3>4, <3>5 DEF Loads
  <2>5. cpu[c].stage \notin {"off", "start"}
    BY <1>1 DEF Connected
  <2> QED BY <1>0, <2>2, <2>3, <2>4, <2>5 DEF KmTalk
<1>2. CASE c \notin Connected
  <2>1. cpu[c].stage \in {"off", "start"} /\ kmToCpu'[c] = kmToCpu[c]
    BY <1>2 DEF add_stick_connection, send_cpu_connection, Connected
  <2> QED BY <1>0, <2>1 DEF KmTalk
<1> QED BY <1>1, <1>2

\* No registers are in the announcement.
LEMMA StickReceiving ==
  ASSUME NEW c \in Cpu, KmTalk(c), IsSeq(sticks), add_stick_connection,
         kmToCpu = [d \in Cpu |-> kmToCpu[d]], cpu[c].stage = "context",
         NEW k \in DOMAIN kmToCpu'[c], kmToCpu'[c][k].op = "SEND_CONTEXT"
  PROVE  k \in DOMAIN kmToCpu[c] /\ kmToCpu'[c][k] = kmToCpu[c][k]
<1>1. c \in Connected
  BY DEF Connected
<1>2. \E j, n \in Nat : Between(c, j, n)
  <2>1. Quiet(c) \/ Loads(c)
    BY DEF KmTalk
  <2>2. CASE Quiet(c)
    BY <2>2 DEF Quiet
  <2>3. CASE Loads(c)
    <3>1. PICK j \in 0 .. Len(kmToCpu[c]) : Between(c, j, 2)
      BY <2>3 DEF Loads
    <3>2. j \in Nat /\ 2 \in Nat
      OBVIOUS
    <3> QED BY <3>1, <3>2
  <2> QED BY <2>1, <2>2, <2>3
<1>3. PICK j \in Nat, n \in Nat : Between(c, j, n)
  BY <1>2
<1>4. /\ Len(kmToCpu[c]) \in Nat /\ Len(kmToCpu'[c]) = Len(kmToCpu[c]) + 1
      /\ \A i \in 1 .. Len(kmToCpu[c]) : kmToCpu'[c][i] = kmToCpu[c][i]
      /\ kmToCpu'[c][Len(kmToCpu[c]) + 1].op = "PACKET" /\ Between(c, j, n)'
  BY <1>1, <1>3, StickBetween
<1>5. DOMAIN kmToCpu[c] = 1 .. Len(kmToCpu[c])
  BY <1>3, SeqFacts DEF Between, Layout
<1>6. DOMAIN kmToCpu'[c] = 1 .. Len(kmToCpu'[c])
  <2>1. IsSeq(kmToCpu'[c])
    BY <1>4 DEF Between, Layout
  <2> QED BY <2>1, SeqFacts
<1>7. k # Len(kmToCpu[c]) + 1
  BY <1>4
<1> QED BY <1>4, <1>5, <1>6, <1>7

LEMMA KmAddStick ==
  ASSUME KmInv, add_stick_connection
  PROVE  KmInv'
<1>1. /\ UNCHANGED <<cpu, cpuToKm, ksToCpu, cpuToKs, ksToKm, status, processes, context,
                     last, overtaken, lost, crashed>>
      /\ ~crashed
      /\ kmToCpu' = send_cpu_connection(Len(sticks) + 1)
      /\ sticks' = Append(sticks, [b \in 1..StickSizes[Len(sticks) + 1] |-> 0])
  BY DEF add_stick_connection, ghostVars, failVars, Up
<1>2. Arrays /\ IsSeq(sticks) /\ kmToCpu = [d \in Cpu |-> kmToCpu[d]] /\ Known
  BY DEF KmInv, Arrays
<1>3. IsSeq(sticks')
  BY <1>1, <1>2, SeqAppend
<1>4. kmToCpu' = [d \in Cpu |-> kmToCpu'[d]]
  BY <1>1 DEF send_cpu_connection
<1>5. Arrays' /\ Known'
  BY <1>1, <1>2, <1>3, <1>4 DEF Arrays, Known
<1>6. \A c \in Cpu : KmTalk(c)'
  BY <1>1, <1>2, StickTalk DEF KmInv
<1>7. ASSUME NEW c \in Cpu PROVE Flagged(c)'
  <2>1. SameFlags(c) /\ Flagged(c)
    BY <1>1 DEF SameFlags, KmInv
  <2> QED BY <1>1, <2>1, SameFlagged
<1>8. ASSUME NEW p \in Pid \ overtaken PROVE Owned(p)'
  <2>1. Owned(p)
    BY DEF KmInv
  <2>2. ASSUME NEW c \in Cpu, Receiving(c, p)'
        PROVE  /\ Receiving(c, p)
               /\ \A k \in DOMAIN kmToCpu'[c] :
                    kmToCpu'[c][k].op = "SEND_CONTEXT" => kmToCpu'[c][k].regs = last'[p]
    <3>1. cpu[c].pid = p /\ cpu[c].stage = "context" /\ KmTalk(c)
      BY <1>1, <2>2 DEF Receiving, KmInv
    <3>2. ASSUME NEW k \in DOMAIN kmToCpu'[c], kmToCpu'[c][k].op = "SEND_CONTEXT"
          PROVE  k \in DOMAIN kmToCpu[c] /\ kmToCpu'[c][k] = kmToCpu[c][k]
      BY <1>2, <3>1, <3>2, StickReceiving
    <3>3. Receiving(c, p)
      BY <2>2, <3>1, <3>2 DEF Receiving
    <3> QED BY <1>1, <2>1, <3>2, <3>3 DEF Owned
  <2>3. \A c \in Cpu : (Holding(c, p)' <=> Holding(c, p)) /\ (Sending(c, p)' <=> Sending(c, p))
    BY <1>1 DEF Holding, Sending
  <2>4. \A c \in Cpu : Owner(c, p)' => Owner(c, p)
    BY <2>2, <2>3 DEF Owner
  <2>5. ASSUME NEW c \in Cpu, Owner(c, p)'
        PROVE  status'[p] # "NEW" /\ \A d \in Cpu \ {c} : ~Owner(d, p)'
    BY <1>1, <2>1, <2>4, <2>5 DEF Owned
  <2>6. ASSUME NEW c \in Cpu
        PROVE  /\ Holding(c, p)' => cpu'[c].regs = last'[p]
               /\ \A k \in DOMAIN cpuToKm'[c] :
                    cpuToKm'[c][k].op = "UPDATED_CONTEXT" /\ cpuToKm'[c][k].pid = p
                      => cpuToKm'[c][k].regs = last'[p]
    BY <1>1, <2>1, <2>3 DEF Owned
  <2>7. ASSUME \A c \in Cpu : ~Holding(c, p)' /\ ~Sending(c, p)', p \in processes'
        PROVE  context'[p] = last'[p]
    BY <1>1, <2>1, <2>3, <2>7 DEF Owned
  <2>8. status'[p] = "NEW" => last'[p] = t_registers
    BY <1>1, <2>1 DEF Owned
  <2> QED BY <2>2, <2>5, <2>6, <2>7, <2>8 DEF Owned
<1> QED BY <1>1, <1>5, <1>6, <1>7, <1>8 DEF KmInv

-----------------------------------------------------------------------------
(* Kernel Memory's listener for a CPU.                                     *)

\* What every step of the listener starts from.
LEMMA Served ==
  ASSUME KmInv, NEW c \in Cpu, NEW op, Serves(c, op)
  PROVE  /\ ~crashed /\ KmTalk(c) /\ Flagged(c) /\ IsSeq(cpuToKm[c]) /\ cpuToKm[c] # <<>>
         /\ Len(cpu[c].sticks) \in Nat /\ Len(sticks) \in Nat
         /\ Head(cpuToKm[c]) = cpuToKm[c][1] /\ cpuToKm[c][1].op = op
         /\ 1 \in DOMAIN cpuToKm[c]
         /\ cpuToKm' = [d \in Cpu |-> cpuToKm'[d]] /\ cpuToKm'[c] = Tail(cpuToKm[c])
         /\ \A d \in Cpu \ {c} : cpuToKm'[d] = cpuToKm[d]
         /\ IsSeq(cpuToKm'[c])
         /\ \A k \in DOMAIN cpuToKm'[c] :
              \E j \in DOMAIN cpuToKm[c] : cpuToKm'[c][k] = cpuToKm[c][j]
         /\ \A j \in DOMAIN cpuToKm[c] : j # 1 =>
              \E k \in DOMAIN cpuToKm'[c] : cpuToKm'[c][k] = cpuToKm[c][j]
         /\ UNCHANGED <<cpu, status, ksToCpu, cpuToKs, ksToKm, processes, sticks, lost, last>>
<1>1. ~crashed
  BY DEF Serves, Up
<1>2. /\ KmTalk(c) /\ Flagged(c) /\ IsSeq(cpuToKm[c]) /\ Len(cpu[c].sticks) \in Nat
      /\ Len(sticks) \in Nat
  BY <1>1, Sizes
<1>3. PICK s : s = cpuToKm[c]
  OBVIOUS
<1>4. s # <<>> /\ Head(s).op = op /\ cpuToKm' = [cpuToKm EXCEPT ![c] = Tail(@)]
  BY <1>3 DEF Serves, Next_is, received
<1>5. cpuToKm = [d \in Cpu |-> cpuToKm[d]]
  BY DEF KmInv, Arrays
<1>6. /\ cpuToKm' = [d \in Cpu |-> cpuToKm'[d]] /\ cpuToKm'[c] = Tail(s)
      /\ \A d \in Cpu \ {c} : cpuToKm'[d] = cpuToKm[d]
  BY <1>3, <1>4, <1>5
<1>7. /\ IsSeq(s) /\ IsSeq(Tail(s)) /\ Len(Tail(s)) = Len(s) - 1 /\ Len(s) \in Nat \ {0}
      /\ \A i \in 1 .. Len(s) - 1 : Tail(s)[i] = s[i + 1]
      /\ Head(s) = s[1]
  BY <1>2, <1>3, <1>4, SeqTail
<1>8. DOMAIN s = 1 .. Len(s) /\ DOMAIN Tail(s) = 1 .. Len(s) - 1
  BY <1>7, SeqFacts
<1>9. \A k \in DOMAIN Tail(s) : \E j \in DOMAIN s : Tail(s)[k] = s[j]
  BY <1>4, <1>7, FewerMessages
<1>10. ASSUME NEW j \in DOMAIN s, j # 1 PROVE \E k \in DOMAIN Tail(s) : Tail(s)[k] = s[j]
  <2>1. PICK k \in 1 .. Len(s) - 1 : k + 1 = j
    BY <1>7, <1>8, <1>10
  <2> QED BY <1>7, <1>8, <2>1
<1>11. UNCHANGED <<cpu, status, ksToCpu, cpuToKs, ksToKm, processes, sticks, lost, last>>
  BY DEF Serves, memVars
<1>12. 1 \in DOMAIN s
  BY <1>7, <1>8
<1> QED BY <1>1, <1>2, <1>3, <1>4, <1>6, <1>7, <1>9, <1>10, <1>11, <1>12

LEMMA ServeStep ==
  ASSUME KmInv, NEW c \in Cpu, NEW op, Serves(c, op), overtaken \subseteq overtaken',
         \A d \in Cpu \ {c} : kmToCpu'[d] = kmToCpu[d], Arrays', ~crashed' => KmTalk(c)',
         \A p \in Pid \ overtaken' : Owned(p)'
  PROVE  KmInv'
<1>1. /\ ~crashed /\ \A d \in Cpu \ {c} : cpuToKm'[d] = cpuToKm[d]
      /\ UNCHANGED <<cpu, status, ksToCpu, cpuToKs, ksToKm, processes, sticks, lost>>
  BY Served
<1>2. Known'
  BY <1>1 DEF KmInv, Known
<1>3. ASSUME NEW d \in Cpu PROVE Flagged(d)'
  <2>1. SameFlags(d) /\ Flagged(d)
    BY <1>1 DEF SameFlags, KmInv
  <2> QED BY <1>1, <2>1, SameFlagged
<1>4. ASSUME NEW d \in Cpu \ {c} PROVE KmTalk(d)'
  <2>1. SameKm(d) /\ KmTalk(d)
    BY <1>1 DEF SameKm, KmInv
  <2> QED BY <1>1, <2>1, SameTalk
<1> QED BY <1>2, <1>3, <1>4 DEF KmInv

\* The registers that the message is not about.
LEMMA ServedOwned ==
  ASSUME KmInv, NEW c \in Cpu, NEW op, Serves(c, op), NEW p \in Pid \ overtaken,
         \A d \in Cpu \ {c} : kmToCpu'[d] = kmToCpu[d],
         context'[p] = context[p], op # "UPDATED_CONTEXT" \/ cpuToKm[c][1].pid # p,
         cpu[c].stage # "context" \/ cpu[c].pid # p \/ kmToCpu'[c] = kmToCpu[c]
  PROVE  Owned(p)'
<1>1. /\ cpuToKm[c][1].op = op
      /\ \A d \in Cpu \ {c} : cpuToKm'[d] = cpuToKm[d]
      /\ \A k \in DOMAIN cpuToKm'[c] :
           \E j \in DOMAIN cpuToKm[c] : cpuToKm'[c][k] = cpuToKm[c][j]
      /\ \A j \in DOMAIN cpuToKm[c] : j # 1 =>
           \E k \in DOMAIN cpuToKm'[c] : cpuToKm'[c][k] = cpuToKm[c][j]
      /\ UNCHANGED <<cpu, status, processes, last>>
  BY Served
<1>2. \A d \in Cpu \ {c} : SameKm(d)
  BY <1>1 DEF SameKm
<1>3. Owned(p)
  BY DEF KmInv
<1>4. Holding(c, p)' <=> Holding(c, p)
  BY <1>1 DEF Holding
<1>5. Sending(c, p)' <=> Sending(c, p)
  <2>1. Sending(c, p)' => Sending(c, p)
    BY <1>1 DEF Sending
  <2>2. ASSUME Sending(c, p) PROVE Sending(c, p)'
    <3>1. PICK j \in DOMAIN cpuToKm[c] : /\ cpuToKm[c][j].op = "UPDATED_CONTEXT"
                                         /\ cpuToKm[c][j].pid = p
      BY <2>2 DEF Sending
    <3>2. j # 1
      BY <1>1, <3>1
    <3> QED BY <1>1, <3>1, <3>2 DEF Sending
  <2> QED BY <2>1, <2>2
<1>6. /\ Receiving(c, p)' => Receiving(c, p)
      /\ Receiving(c, p)' => kmToCpu'[c] = kmToCpu[c]
  BY <1>1 DEF Receiving
<1>7. Owner(c, p)' => Owner(c, p)
  BY <1>4, <1>5, <1>6 DEF Owner
<1>8. Holding(c, p)' => cpu'[c].regs = last'[p]
  BY <1>1, <1>3, <1>4 DEF Owned
<1>9. \A k \in DOMAIN cpuToKm'[c] :
        cpuToKm'[c][k].op = "UPDATED_CONTEXT" /\ cpuToKm'[c][k].pid = p
          => cpuToKm'[c][k].regs = last'[p]
  BY <1>1, <1>3 DEF Owned
<1>10. Receiving(c, p)' =>
         \A k \in DOMAIN kmToCpu'[c] :
           kmToCpu'[c][k].op = "SEND_CONTEXT" => kmToCpu'[c][k].regs = last'[p]
  BY <1>1, <1>3, <1>6 DEF Owned
<1>11. Handed(c, p)
  BY <1>1, <1>4, <1>5, <1>7, <1>8, <1>9, <1>10 DEF Handed
<1> QED BY <1>1, <1>2, <1>3, <1>11, OwnedLocal

\* A CPU that has left: its messages are served all the same.
LEMMA GoneTalk ==
  ASSUME KmInv, NEW c \in Cpu, NEW op, Serves(c, op), cpu[c].stage = "gone"
  PROVE  KmTalk(c)'
<1>1. /\ KmTalk(c) /\ IsSeq(cpuToKm'[c])
      /\ \A k \in DOMAIN cpuToKm'[c] :
           \E j \in DOMAIN cpuToKm[c] : cpuToKm'[c][k] = cpuToKm[c][j]
      /\ UNCHANGED <<cpu, lost>>
  BY Served
<1> QED BY <1>1 DEF KmTalk

\* Which requests can come at which stage.
LEMMA RequestStage ==
  ASSUME NEW c \in Cpu, KmTalk(c), cpuToKm[c] # <<>>, cpu[c].stage \in Stages
  PROVE  \/ cpu[c].stage = "gone"
         \/ /\ cpu[c].stage = "idle" /\ cpuToKm[c] = <<cpuToKm[c][1]>> /\ Quiet(c)
            /\ cpuToKm[c][1].op = "UPDATED_CONTEXT"
         \/ /\ cpu[c].stage = "context" /\ cpuToKm[c] = <<REQUEST_CONTEXT(cpu[c].pid)>>
            /\ Quiet(c) /\ cpuToKm[c][1] = REQUEST_CONTEXT(cpu[c].pid)
         \/ /\ cpu[c].stage = "context" /\ Quiet(c)
            /\ cpuToKm[c] = <<cpuToKm[c][1], REQUEST_CONTEXT(cpu[c].pid)>>
            /\ cpuToKm[c][1].op = "UPDATED_CONTEXT"
         \/ /\ cpu[c].stage = "fetch" /\ Quiet(c)
            /\ cpuToKm[c] = <<NEXT_INSTRUCTION(cpu[c].pid, cpu[c].regs["PC"])>>
            /\ cpuToKm[c][1] = NEXT_INSTRUCTION(cpu[c].pid, cpu[c].regs["PC"])
         \/ /\ cpu[c].stage = "update" /\ Quiet(c)
            /\ cpuToKm[c] = <<UPDATED_SEGMENT_TABLE(cpu[c].pid)>>
            /\ cpuToKm[c][1] = UPDATED_SEGMENT_TABLE(cpu[c].pid)
<1>1. \A x : <<x>>[1] = x
  OBVIOUS
<1> QED BY <1>1, Zenon DEF KmTalk, Stages, Saves

LEMMA RequestOps ==
  /\ \A p : REQUEST_CONTEXT(p).op = "REQUEST_CONTEXT" /\ REQUEST_CONTEXT(p).pid = p
  /\ \A p, pc : /\ NEXT_INSTRUCTION(p, pc).op = "NEXT_INSTRUCTION"
                /\ NEXT_INSTRUCTION(p, pc).pid = p /\ NEXT_INSTRUCTION(p, pc).pc = pc
  /\ \A p : UPDATED_SEGMENT_TABLE(p).op = "UPDATED_SEGMENT_TABLE" /\ UPDATED_SEGMENT_TABLE(p).pid = p
BY DEF REQUEST_CONTEXT, NEXT_INSTRUCTION, UPDATED_SEGMENT_TABLE

LEMMA SameArrays ==
  ASSUME KmInv, UNCHANGED <<context, last, sticks>>, cpuToKm' = [c \in Cpu |-> cpuToKm'[c]],
         kmToCpu' = [c \in Cpu |-> kmToCpu'[c]]
  PROVE  Arrays'
BY DEF KmInv, Arrays

\* The registers have arrived.
LEMMA KmUpdatedContext ==
  ASSUME CycleInv, KmInv, NEW c \in Cpu, handle_updated_context(c)
  PROVE  KmInv'
<1> DEFINE m == cpuToKm[c][1]
<1>0. Serves(c, "UPDATED_CONTEXT")
  BY DEF handle_updated_context
<1>1. /\ ~crashed /\ KmTalk(c) /\ IsSeq(cpuToKm[c]) /\ cpuToKm[c] # <<>>
      /\ Head(cpuToKm[c]) = m /\ m.op = "UPDATED_CONTEXT" /\ 1 \in DOMAIN cpuToKm[c]
      /\ cpuToKm' = [d \in Cpu |-> cpuToKm'[d]] /\ cpuToKm'[c] = Tail(cpuToKm[c])
      /\ \A d \in Cpu \ {c} : cpuToKm'[d] = cpuToKm[d]
      /\ IsSeq(cpuToKm'[c])
      /\ UNCHANGED <<cpu, status, processes, sticks, lost, last>>
  BY <1>0, Served
<1>1a. \A k \in DOMAIN cpuToKm'[c] :
              \E j \in DOMAIN cpuToKm[c] : cpuToKm'[c][k] = cpuToKm[c][j]
  BY <1>0, Served
<1>2. /\ context' = IF m.pid \in processes THEN [context EXCEPT ![m.pid] = m.regs] ELSE context
      /\ UNCHANGED <<kmToCpu, crashed, overtaken>>
  BY <1>1 DEF handle_updated_context
<1>3. cpu[c].stage \in Stages
  BY DEF CycleInv, Shapes
<1>4. Arrays /\ context = [p \in Pid |-> context[p]] /\ kmToCpu = [d \in Cpu |-> kmToCpu[d]]
  BY DEF KmInv, Arrays
<1>5. Arrays'
  <2>1. context' = [p \in Pid |-> context'[p]]
    BY <1>2, <1>4
  <2> QED BY <1>1, <1>2, <1>4, <2>1 DEF Arrays
<1>6. KmTalk(c)'
  <2>1. CASE cpu[c].stage = "gone"
    BY <1>0, <2>1, GoneTalk
  <2>2. CASE cpu[c].stage = "idle" /\ cpuToKm[c] = <<m>> /\ Quiet(c)
    <3>1. cpuToKm'[c] = <<>>
      BY <1>1, <2>2, OneMessage
    <3>2. Quiet(c)'
      BY <1>1, <1>2, <2>2, StaysQuiet
    <3> QED BY <1>1, <2>2, <3>1, <3>2 DEF KmTalk
  <2>3. CASE /\ cpu[c].stage = "context" /\ Quiet(c)
             /\ cpuToKm[c] = <<m, REQUEST_CONTEXT(cpu[c].pid)>>
    <3>1. cpuToKm'[c] = <<REQUEST_CONTEXT(cpu[c].pid)>>
      <4>1. PICK x, y : x = m /\ y = REQUEST_CONTEXT(cpu[c].pid)
        OBVIOUS
      <4>2. cpuToKm[c] = <<x, y>> /\ Tail(<<x, y>>) = <<y>>
        BY <2>3, <4>1, TwoMessages
      <4> QED BY <1>1, <4>1, <4>2
    <3>2. Quiet(c)'
      BY <1>1, <1>2, <2>3, StaysQuiet
    <3> QED BY <1>1, <2>3, <3>1, <3>2 DEF KmTalk, REQUEST_CONTEXT
  <2> QED BY <1>1, <1>3, <2>1, <2>2, <2>3, RequestStage, RequestOps
<1>7. ASSUME NEW p \in Pid \ overtaken PROVE Owned(p)'
  <2>1. CASE m.pid # p
    <3>1. context'[p] = context[p]
      BY <1>2, <1>4, <2>1
    <3> QED BY <1>0, <1>2, <2>1, <3>1, ServedOwned
  <2>2. CASE m.pid = p
    <3>1. Owned(p)
      BY DEF KmInv
    <3>2. Sending(c, p) /\ m.regs = last[p]
      BY <1>1, <2>2, <3>1 DEF Sending, Owned
    <3>3. p \in processes => context'[p] = last'[p]
      BY <1>1, <1>2, <1>4, <2>2, <3>2
    <3>4. \A d \in Cpu : Sending(d, p)' => Sending(d, p)
      BY <1>1, <1>1a DEF Sending
    <3>5. \A d \in Cpu : /\ Holding(d, p)' <=> Holding(d, p)
                         /\ Receiving(d, p)' <=> Receiving(d, p)
      BY <1>1, <1>2 DEF Holding, Receiving
    <3>6. \A d \in Cpu : Owner(d, p)' => Owner(d, p)
      BY <3>4, <3>5 DEF Owner
    <3>7. ASSUME NEW d \in Cpu, Owner(d, p)'
          PROVE  status'[p] # "NEW" /\ \A e \in Cpu \ {d} : ~Owner(e, p)'
      BY <1>1, <3>1, <3>6, <3>7 DEF Owned
    <3>8. ASSUME NEW d \in Cpu
          PROVE  /\ Holding(d, p)' => cpu'[d].regs = last'[p]
                 /\ \A k \in DOMAIN cpuToKm'[d] :
                      cpuToKm'[d][k].op = "UPDATED_CONTEXT" /\ cpuToKm'[d][k].pid = p
                        => cpuToKm'[d][k].regs = last'[p]
                 /\ Receiving(d, p)' =>
                      \A k \in DOMAIN kmToCpu'[d] :
                        kmToCpu'[d][k].op = "SEND_CONTEXT" => kmToCpu'[d][k].regs = last'[p]
      BY <1>1, <1>1a, <1>2, <3>1, <3>5 DEF Owned
    <3>9. status'[p] = "NEW" => last'[p] = t_registers
      BY <1>1, <3>1 DEF Owned
    <3> QED BY <1>1, <3>3, <3>7, <3>8, <3>9 DEF Owned
  <2> QED BY <2>1, <2>2
<1> QED BY <1>0, <1>2, <1>5, <1>6, <1>7, ServeStep

LEMMA KmStickDisconnected ==
  ASSUME CycleInv, KmInv, NEW c \in Cpu, handle_stick_disconnected(c)
  PROVE  KmInv'
<1>0. Serves(c, "STICK_DISCONNECTED") /\ UNCHANGED <<kmToCpu, context, crashed, overtaken>>
  BY DEF handle_stick_disconnected
<1>1. /\ KmTalk(c) /\ cpuToKm[c] # <<>> /\ cpuToKm[c][1].op = "STICK_DISCONNECTED"
      /\ cpuToKm' = [d \in Cpu |-> cpuToKm'[d]] /\ UNCHANGED <<last, sticks>>
  BY <1>0, Served
<1>2. cpu[c].stage \in Stages
  BY DEF CycleInv, Shapes
<1>3. cpu[c].stage = "gone"
  BY <1>1, <1>2, RequestStage, RequestOps
<1>4. kmToCpu' = [d \in Cpu |-> kmToCpu'[d]]
  BY <1>0 DEF KmInv, Arrays
<1>5. Arrays'
  BY <1>0, <1>1, <1>4, SameArrays
<1>6. \A p \in Pid \ overtaken : Owned(p)'
  BY <1>0, ServedOwned
<1> QED BY <1>0, <1>3, <1>5, <1>6, GoneTalk, ServeStep

\* The channel to c after Kernel Memory's answer.
LEMMA Answered1 ==
  ASSUME NEW c \in Cpu, Quiet(c), Len(cpu[c].sticks) \in Nat, Len(sticks) \in Nat,
         cpu' = cpu, sticks' = sticks, NEW x, kmToCpu'[c] = Append(kmToCpu[c], x)
  PROVE  Answer(c, x.op)'
<1>1. PICK ch, known, listed : /\ ch = kmToCpu[c] /\ known = Len(cpu[c].sticks)
                               /\ listed = Len(sticks)
  OBVIOUS
<1>2. Layout(ch, known, listed, 0, 0) /\ known \in Nat /\ listed \in Nat
  BY <1>1 DEF Quiet, Between
<1>3. /\ Layout(Append(ch, x), known, listed, Len(ch), 1) /\ Len(ch) \in Nat
      /\ Append(ch, x)[Len(ch) + 1] = x /\ Len(Append(ch, x)) = Len(ch) + 1
  BY <1>2, LayoutAnswer
<1>4. Between(c, Len(ch), 1)' /\ kmToCpu'[c][Len(ch) + 1] = x
      /\ Len(ch) \in 0 .. Len(kmToCpu'[c])
  BY <1>1, <1>3 DEF Between
<1> QED BY <1>4 DEF Answer

LEMMA KmNextInstruction ==
  ASSUME CycleInv, KmInv, NEW c \in Cpu, handle_next_instruction(c)
  PROVE  KmInv'
<1>0. Serves(c, "NEXT_INSTRUCTION") /\ UNCHANGED <<context, overtaken>>
  BY DEF handle_next_instruction
<1>1. /\ ~crashed /\ KmTalk(c) /\ cpuToKm[c] # <<>> /\ cpuToKm[c][1].op = "NEXT_INSTRUCTION"
      /\ cpuToKm' = [d \in Cpu |-> cpuToKm'[d]] /\ IsSeq(cpuToKm'[c])
      /\ cpuToKm'[c] = Tail(cpuToKm[c])
      /\ Len(cpu[c].sticks) \in Nat /\ Len(sticks) \in Nat
      /\ UNCHANGED <<cpu, last, sticks>>
  BY <1>0, Served
<1>2. cpu[c].stage \in Stages /\ kmToCpu = [d \in Cpu |-> kmToCpu[d]]
  BY DEF CycleInv, Shapes, KmInv, Arrays
<1>3. \/ crashed' = TRUE /\ kmToCpu' = kmToCpu
      \/ \E i : kmToCpu' = [kmToCpu EXCEPT ![c] = Append(@, SEND_INSTRUCTION(i))]
  BY DEF handle_next_instruction, send
<1>4. /\ kmToCpu' = [d \in Cpu |-> kmToCpu'[d]]
      /\ \A d \in Cpu \ {c} : kmToCpu'[d] = kmToCpu[d]
      /\ crashed' = TRUE \/ \E i : kmToCpu'[c] = Append(kmToCpu[c], SEND_INSTRUCTION(i))
  BY <1>2, <1>3
<1>5. Arrays'
  BY <1>0, <1>1, <1>4, SameArrays
<1>6. cpu[c].stage = "gone" \/ /\ cpu[c].stage = "fetch" /\ Quiet(c)
                               /\ cpuToKm[c] = <<NEXT_INSTRUCTION(cpu[c].pid, cpu[c].regs["PC"])>>
  BY <1>1, <1>2, RequestStage, RequestOps
<1>7. \A p \in Pid \ overtaken : Owned(p)'
  BY <1>0, <1>4, <1>6, ServedOwned
<1>8. ASSUME ~crashed' PROVE KmTalk(c)'
  <2>1. CASE cpu[c].stage = "gone"
    BY <1>0, <2>1, GoneTalk
  <2>2. CASE cpu[c].stage = "fetch"
    <3>1. PICK i : kmToCpu'[c] = Append(kmToCpu[c], SEND_INSTRUCTION(i))
      BY <1>4, <1>8
    <3>2. Answer(c, SEND_INSTRUCTION(i).op)'
      BY <1>1, <1>6, <2>2, <3>1, Answered1
    <3>3. SEND_INSTRUCTION(i).op = "SEND_INSTRUCTION"
      BY DEF SEND_INSTRUCTION
    <3>4. cpuToKm'[c] = <<>>
      BY <1>1, <1>6, <2>2, OneMessage
    <3>5. Answer(c, "SEND_INSTRUCTION")'
      BY <3>2, <3>3
    <3> QED BY <1>1, <2>2, <3>4, <3>5 DEF KmTalk
  <2> QED BY <1>6, <2>1, <2>2
<1> QED BY <1>0, <1>4, <1>5, <1>7, <1>8, ServeStep

LEMMA KmUpdatedTable ==
  ASSUME CycleInv, KmInv, NEW c \in Cpu, handle_updated_segment_table(c)
  PROVE  KmInv'
<1> DEFINE p == cpuToKm[c][1].pid
<1>0. Serves(c, "UPDATED_SEGMENT_TABLE") /\ UNCHANGED <<context, overtaken, crashed>>
  BY DEF handle_updated_segment_table
<1>1. /\ ~crashed /\ KmTalk(c) /\ Flagged(c) /\ cpuToKm[c] # <<>>
      /\ cpuToKm[c][1].op = "UPDATED_SEGMENT_TABLE" /\ Head(cpuToKm[c]) = cpuToKm[c][1]
      /\ cpuToKm' = [d \in Cpu |-> cpuToKm'[d]] /\ IsSeq(cpuToKm'[c])
      /\ cpuToKm'[c] = Tail(cpuToKm[c])
      /\ Len(cpu[c].sticks) \in Nat /\ Len(sticks) \in Nat
      /\ UNCHANGED <<cpu, last, sticks>>
  BY <1>0, Served
<1>2. cpu[c].stage \in Stages /\ kmToCpu = [d \in Cpu |-> kmToCpu[d]]
  BY DEF CycleInv, Shapes, KmInv, Arrays
<1>3. kmToCpu' = IF p \in processes THEN [kmToCpu EXCEPT ![c] = Append(@, SEGMENT_TABLE(p))]
                 ELSE kmToCpu
  BY <1>1 DEF handle_updated_segment_table, send
<1>4. /\ kmToCpu' = [d \in Cpu |-> kmToCpu'[d]]
      /\ \A d \in Cpu \ {c} : kmToCpu'[d] = kmToCpu[d]
      /\ kmToCpu'[c] = IF p \in processes THEN Append(kmToCpu[c], SEGMENT_TABLE(p))
                       ELSE kmToCpu[c]
  BY <1>2, <1>3
<1>5. Arrays'
  BY <1>0, <1>1, <1>4, SameArrays
<1>6. \/ cpu[c].stage = "gone"
      \/ /\ cpu[c].stage = "update" /\ Quiet(c) /\ p = cpu[c].pid
         /\ cpuToKm[c] = <<UPDATED_SEGMENT_TABLE(cpu[c].pid)>>
  BY <1>1, <1>2, RequestStage, RequestOps
<1>7. \A q \in Pid \ overtaken : Owned(q)'
  BY <1>0, <1>4, <1>6, ServedOwned
<1>8. KmTalk(c)'
  <2>1. CASE cpu[c].stage = "gone"
    BY <1>0, <2>1, GoneTalk
  <2>2. CASE cpu[c].stage = "update"
    <3>1. cpuToKm'[c] = <<>>
      BY <1>1, <1>6, <2>2, OneMessage
    <3>2. CASE p \in processes
      <4>1. PICK x : x = SEGMENT_TABLE(p)
        OBVIOUS
      <4>2. x.op = "SEGMENT_TABLE"
        BY <4>1 DEF SEGMENT_TABLE
      <4>3. Answer(c, "SEGMENT_TABLE")'
        <5>1. kmToCpu'[c] = Append(kmToCpu[c], x)
          BY <1>4, <3>2, <4>1
        <5>2. Answer(c, x.op)'
          BY <1>1, <1>6, <2>2, <5>1, Answered1
        <5> QED BY <4>2, <5>2
      <4> QED BY <1>1, <2>2, <3>1, <4>3 DEF KmTalk
    <3>3. CASE p \notin processes
      <4>1. cpu[c].pid \in Pid /\ p = cpu[c].pid
        BY <1>1, <1>6, <2>2 DEF Flagged
      <4>2. p \in overtaken
        BY <1>1, <2>2, <3>3, <4>1 DEF Flagged, KmInv, Known
      <4>3. Quiet(c)'
        BY <1>1, <1>4, <1>6, <2>2, <3>3, StaysQuiet
      <4> QED BY <1>0, <1>1, <2>2, <3>1, <4>1, <4>2, <4>3 DEF KmTalk
    <3> QED BY <3>2, <3>3
  <2> QED BY <1>6, <2>1, <2>2
<1> QED BY <1>0, <1>4, <1>5, <1>7, <1>8, ServeStep

\* The channel to c after the two answers that start a process.
LEMMA Answered2 ==
  ASSUME NEW c \in Cpu, Quiet(c), Len(cpu[c].sticks) \in Nat, Len(sticks) \in Nat,
         cpu' = cpu, sticks' = sticks, NEW x, NEW y, kmToCpu'[c] = kmToCpu[c] \o <<x, y>>,
         x.op = "SEND_CONTEXT", y.op = "SEGMENT_TABLE"
  PROVE  /\ Loads(c)'
         /\ \A k \in DOMAIN kmToCpu'[c] :
              kmToCpu'[c][k].op = "SEND_CONTEXT" => kmToCpu'[c][k] = x
         /\ \A k \in DOMAIN kmToCpu'[c] :
              kmToCpu'[c][k].op = "SEGMENT_TABLE" => kmToCpu'[c][k] = y
<1>1. PICK ch, known, listed : /\ ch = kmToCpu[c] /\ known = Len(cpu[c].sticks)
                               /\ listed = Len(sticks)
  OBVIOUS
<1>2. Layout(ch, known, listed, 0, 0) /\ known \in Nat /\ listed \in Nat
  BY <1>1 DEF Quiet, Between
<1>3. PICK t : t = ch \o <<x, y>>
  OBVIOUS
<1>4. /\ Layout(t, known, listed, Len(ch), 2) /\ Len(ch) \in Nat
      /\ t[Len(ch) + 1] = x /\ t[Len(ch) + 2] = y /\ Len(t) = Len(ch) + 2
  BY <1>2, <1>3, LayoutAnswers
<1>5. /\ Between(c, Len(ch), 2)' /\ kmToCpu'[c][Len(ch) + 1] = x
      /\ kmToCpu'[c][Len(ch) + 2] = y /\ Len(ch) \in 0 .. Len(kmToCpu'[c])
  BY <1>1, <1>3, <1>4 DEF Between
<1>6. Loads(c)'
  BY <1>5 DEF Loads
<1>7. DOMAIN t = 1 .. Len(t)
  BY <1>4, SeqFacts DEF Layout
<1>8. \A i : PACKET(i).op = "PACKET"
  BY DEF PACKET
<1>9. \A i \in 1 .. Len(ch) : t[i].op = "PACKET"
  <2>1. \A i \in 1 .. Len(t) : i <= Len(ch) => t[i] = PACKET(known + i)
    BY <1>4 DEF Layout
  <2> QED BY <1>4, <1>8, <2>1
<1>10. ASSUME NEW k \in DOMAIN t
       PROVE  (t[k].op = "SEND_CONTEXT" => t[k] = x) /\ (t[k].op = "SEGMENT_TABLE" => t[k] = y)
  <2>1. k \in 1 .. Len(ch) \/ k = Len(ch) + 1 \/ k = Len(ch) + 2
    BY <1>4, <1>7
  <2>2. CASE k \in 1 .. Len(ch)
    <3>1. t[k].op = "PACKET"
      BY <1>9, <2>2
    <3> QED BY <3>1
  <2>3. CASE k = Len(ch) + 1
    <3>1. t[k] = x
      BY <1>4, <2>3
    <3> QED BY <3>1
  <2>4. CASE k = Len(ch) + 2
    <3>1. t[k] = y
      BY <1>4, <2>4
    <3> QED BY <3>1
  <2> QED BY <2>1, <2>2, <2>3, <2>4
<1> QED BY <1>1, <1>3, <1>6, <1>10

\* A process that is run by one CPU may still be owed to Kernel Memory by
\* another; if not, its registers are in Kernel Memory.
LEMMA NobodyElse ==
  ASSUME CycleInv, NEW c \in Cpu, NEW p \in Pid, cpu[c].pid = p, cpu[c].stage = "context",
         \A d \in Cpu \ {c} : ~Owes(d, p)
  PROVE  \A d \in Cpu \ {c} : ~Owner(d, p)
<1>1. Runs(c, p)
  BY DEF Runs
<1>2. OneExecutor
  BY CycleOneExecutor
<1>3. \A d \in Cpu \ {c} : ~Runs(d, p)
  BY <1>1, <1>2 DEF OneExecutor
<1>4. ASSUME NEW d \in Cpu \ {c}, Owner(d, p) PROVE FALSE
  <2>1. ~Sending(d, p)
    BY DEF Sending, Owes
  <2>2. ~Receiving(d, p)
    BY <1>3 DEF Receiving, Runs
  <2>3. Holding(d, p)
    BY <1>4, <2>1, <2>2 DEF Owner
  <2> QED BY <1>3, <2>3 DEF Holding, Loaded, Runs, Owes
<1> QED BY <1>4

LEMMA KmRequestContext ==
  ASSUME CycleInv, KmInv, NEW c \in Cpu, handle_request_context(c)
  PROVE  KmInv'
<1>p. PICK p : p = cpuToKm[c][1].pid
  OBVIOUS
<1>0. Serves(c, "REQUEST_CONTEXT") /\ UNCHANGED <<context, crashed>>
  BY DEF handle_request_context
<1>1. /\ ~crashed /\ KmTalk(c) /\ Flagged(c) /\ cpuToKm[c] # <<>>
      /\ cpuToKm[c][1].op = "REQUEST_CONTEXT" /\ Head(cpuToKm[c]) = cpuToKm[c][1]
      /\ cpuToKm' = [d \in Cpu |-> cpuToKm'[d]] /\ IsSeq(cpuToKm'[c])
      /\ cpuToKm'[c] = Tail(cpuToKm[c])
      /\ \A d \in Cpu \ {c} : cpuToKm'[d] = cpuToKm[d]
      /\ Len(cpu[c].sticks) \in Nat /\ Len(sticks) \in Nat
      /\ UNCHANGED <<cpu, last, sticks, status, processes>>
  BY <1>0, Served
<1>2. cpu[c].stage \in Stages /\ kmToCpu = [d \in Cpu |-> kmToCpu[d]]
  BY DEF CycleInv, Shapes, KmInv, Arrays
<1>3. PICK x, y : x = SEND_CONTEXT(p) /\ y = SEGMENT_TABLE(p)
  OBVIOUS
<1>4. /\ x.op = "SEND_CONTEXT" /\ x.regs = context[p] /\ y.op = "SEGMENT_TABLE"
  BY <1>3 DEF SEND_CONTEXT, SEGMENT_TABLE
<1>5. IF p \in processes
      THEN /\ kmToCpu' = [kmToCpu EXCEPT ![c] = @ \o <<x, y>>]
           /\ overtaken' = IF \E d \in Cpu \ {c} : Owes(d, p)
                           THEN overtaken \cup {p} ELSE overtaken
      ELSE UNCHANGED <<kmToCpu, overtaken>>
  BY <1>1, <1>p, <1>3 DEF handle_request_context
<1>6. /\ kmToCpu' = [d \in Cpu |-> kmToCpu'[d]] /\ overtaken \subseteq overtaken'
      /\ \A d \in Cpu \ {c} : kmToCpu'[d] = kmToCpu[d]
      /\ p \in processes => kmToCpu'[c] = kmToCpu[c] \o <<x, y>>
  BY <1>2, <1>5
<1>7. Arrays'
  BY <1>0, <1>1, <1>6, SameArrays
<1>8. \/ cpu[c].stage = "gone"
      \/ /\ cpu[c].stage = "context" /\ Quiet(c) /\ p = cpu[c].pid
         /\ cpuToKm[c] = <<REQUEST_CONTEXT(cpu[c].pid)>>
  BY <1>1, <1>2, <1>p, RequestStage, RequestOps
<1>9. CASE cpu[c].stage = "gone"
  <2>1. KmTalk(c)'
    BY <1>0, <1>9, GoneTalk
  <2>2. \A q \in Pid \ overtaken' : Owned(q)'
    BY <1>0, <1>6, <1>9, ServedOwned
  <2> QED BY <1>0, <1>6, <1>7, <2>1, <2>2, ServeStep
<1>10. CASE cpu[c].stage = "context"
  <2>1. p \in Pid /\ cpu[c].pid = p /\ Quiet(c)
    BY <1>1, <1>8, <1>10 DEF Flagged
  <2>2. Runs(c, p)
    BY <1>10, <2>1 DEF Runs
  <2>3. status[p] = "EXEC"
    BY <2>1, <2>2, CycleOneExecutor DEF OneExecutor
  <2>4. p \in processes
    BY <2>1, <2>3 DEF KmInv, Known
  <2>5. /\ Loads(c)'
        /\ \A k \in DOMAIN kmToCpu'[c] :
             kmToCpu'[c][k].op = "SEND_CONTEXT" => kmToCpu'[c][k] = x
    <3>1. /\ Quiet(c) /\ Len(cpu[c].sticks) \in Nat /\ Len(sticks) \in Nat /\ cpu' = cpu
          /\ sticks' = sticks /\ x.op = "SEND_CONTEXT" /\ y.op = "SEGMENT_TABLE"
      BY <1>1, <1>4, <2>1
    <3>2. kmToCpu'[c] = kmToCpu[c] \o <<x, y>>
      BY <1>6, <2>4
    <3> QED BY <3>1, <3>2, Answered2, Zenon
  <2>6. cpuToKm'[c] = <<>>
    BY <1>1, <1>8, <1>10, OneMessage
  <2>7. KmTalk(c)'
    BY <1>1, <1>10, <2>5, <2>6 DEF KmTalk
  <2>8. ASSUME NEW q \in Pid \ overtaken' PROVE Owned(q)'
    <3>1. q \in Pid \ overtaken
      BY <1>6
    <3>2. CASE q # p
      BY <1>0, <1>6, <2>1, <3>1, <3>2, ServedOwned
    <3>3. CASE q = p
      <4>1. \A d \in Cpu \ {c} : ~Owes(d, p)
        BY <1>5, <2>4, <3>3
      <4>2. \A d \in Cpu \ {c} : ~Owner(d, p)
        BY <1>10, <2>1, <4>1, NobodyElse
      <4>3. \A d \in Cpu \ {c} : SameKm(d)
        BY <1>1, <1>6 DEF SameKm
      <4>4. \A d \in Cpu \ {c} : ~Owner(d, p)'
        BY <4>2, <4>3, SameOwner DEF Owner
      <4>5. ~Holding(c, p) /\ ~Sending(c, p)
        <5>1. \A k \in DOMAIN cpuToKm[c] : cpuToKm[c][k].op = "REQUEST_CONTEXT"
          <6>1. PICK r : r = REQUEST_CONTEXT(cpu[c].pid)
            OBVIOUS
          <6>2. cpuToKm[c] = <<r>> /\ r.op = "REQUEST_CONTEXT"
            BY <1>8, <1>10, <6>1, RequestOps
          <6>3. DOMAIN <<r>> = {1} /\ <<r>>[1] = r
            BY SeqOne
          <6> QED BY <6>2, <6>3
        <5> QED BY <1>10, <5>1 DEF Holding, Sending, Loaded
      <4>6. Owned(p)
        BY <3>1, <3>3 DEF KmInv
      <4>7. context[p] = last[p]
        BY <2>4, <4>2, <4>5, <4>6 DEF Owned, Owner
      <4>8. ~Holding(c, p)' /\ ~Sending(c, p)' /\ DOMAIN cpuToKm'[c] = {}
        BY <1>1, <1>10, <2>6, SeqEmpty DEF Holding, Sending, Loaded
      <4>9. ASSUME NEW d \in Cpu, Owner(d, p)'
            PROVE  status'[p] # "NEW" /\ \A e \in Cpu \ {d} : ~Owner(e, p)'
        BY <1>1, <2>3, <4>4, <4>9
      <4>10. ASSUME NEW d \in Cpu
             PROVE  /\ Holding(d, p)' => cpu'[d].regs = last'[p]
                    /\ \A k \in DOMAIN cpuToKm'[d] :
                         cpuToKm'[d][k].op = "UPDATED_CONTEXT" /\ cpuToKm'[d][k].pid = p
                           => cpuToKm'[d][k].regs = last'[p]
                    /\ Receiving(d, p)' =>
                         \A k \in DOMAIN kmToCpu'[d] :
                           kmToCpu'[d][k].op = "SEND_CONTEXT" => kmToCpu'[d][k].regs = last'[p]
        <5>1. CASE d = c
          BY <1>1, <1>4, <2>5, <4>7, <4>8, <5>1
        <5>2. CASE d # c
          BY <4>4, <5>2 DEF Owner, Sending
        <5> QED BY <5>1, <5>2
      <4>11. context'[p] = last'[p]
        BY <1>0, <1>1, <4>7
      <4>12. status'[p] # "NEW"
        BY <1>1, <2>3
      <4>13. ASSUME NEW v, v = p PROVE Owned(v)'
        <5>1. /\ \A d \in Cpu : Owner(d, v)' => status'[v] # "NEW" /\ \A e \in Cpu \ {d} : ~Owner(e, v)'
              /\ context'[v] = last'[v] /\ status'[v] # "NEW"
              /\ \A d \in Cpu :
                    /\ Holding(d, v)' => cpu'[d].regs = last'[v]
                    /\ \A k \in DOMAIN cpuToKm'[d] :
                         cpuToKm'[d][k].op = "UPDATED_CONTEXT" /\ cpuToKm'[d][k].pid = v
                           => cpuToKm'[d][k].regs = last'[v]
                    /\ Receiving(d, v)' =>
                         \A k \in DOMAIN kmToCpu'[d] :
                           kmToCpu'[d][k].op = "SEND_CONTEXT" => kmToCpu'[d][k].regs = last'[v]
          BY <4>9, <4>10, <4>11, <4>12, <4>13
        <5> QED BY <5>1 DEF Owned
      <4> QED BY <3>3, <4>13
    <3> QED BY <3>2, <3>3
  <2> QED BY <1>0, <1>6, <1>7, <2>7, <2>8, ServeStep
<1> QED BY <1>8, <1>9, <1>10

LEMMA KmKmStep ==
  ASSUME CycleInv, KmInv, NEW c \in Cpu, KmStep(c)
  PROVE  KmInv'
BY KmRequestContext, KmNextInstruction, KmUpdatedContext, KmUpdatedTable, KmStickDisconnected
   DEF KmStep

-----------------------------------------------------------------------------
(* The invariant.                                                          *)
LEMMA ListsInit == Init => Lists
<1> SUFFICES ASSUME Init PROVE Lists
  OBVIOUS
<1>1. segments = <<>> /\ swapped = [p \in Pid |-> <<>>]
  BY DEF Init
<1> QED BY <1>1, SeqEmpty DEF Lists

LEMMA KmInit == Init => KmInv
<1> SUFFICES ASSUME Init PROVE KmInv
  OBVIOUS
<1>1. PICK s : s = Scenarios[scenario]
  OBVIOUS
<1>2. s.initial \subseteq Pid /\ s.sticks \in 0 .. Len(StickSizes) /\ Len(StickSizes) \in Nat
  BY <1>1, CycleAssumption DEF Init
<1>3. /\ cpu = [c \in Cpu |->
                 [stage |-> IF c \in s.cpus THEN "start" ELSE "off", pid |-> NoPid,
                  regs |-> t_registers, table |-> <<>>, changed |-> FALSE,
                  stop |-> FALSE, sticks |-> <<>>, access |-> NoAccess]]
      /\ status = [p \in Pid |-> IF p \in s.initial THEN "READY" ELSE "NEW"]
      /\ processes = s.initial
      /\ sticks = [k \in 1..s.sticks |-> [b \in 1..StickSizes[k] |-> 0]]
      /\ cpuToKm = [c \in Cpu |-> <<>>] /\ kmToCpu = [c \in Cpu |-> <<>>] /\ ksToKm = <<>>
      /\ context = [p \in Pid |-> t_registers] /\ last = [p \in Pid |-> t_registers]
  BY <1>1 DEF Init
<1>4. \A c \in Cpu : /\ cpu[c].stage \in {"off", "start"} /\ ~cpu[c].changed
                     /\ cpu[c].sticks = <<>> /\ cpuToKm[c] = <<>> /\ kmToCpu[c] = <<>>
  BY <1>3
<1>5. IsSeq(sticks)
  <2>1. PICK n \in Nat : n = s.sticks
    BY <1>2
  <2>2. sticks = [k \in 1 .. n |-> sticks[k]]
    BY <1>3, <2>1
  <2> DEFINE S == {sticks[k] : k \in 1 .. n}
  <2>3. \A k \in 1 .. n : sticks[k] \in S
    OBVIOUS
  <2> HIDE DEF S
  <2>4. sticks \in Seq(S)
    BY <2>2, <2>3
  <2> QED BY <2>4, IsSeqFrom
<1>6. Arrays
  BY <1>3, <1>5 DEF Arrays
<1>7. Known
  BY <1>2, <1>3, SeqEmpty DEF Known
<1>8. ASSUME NEW p \in Pid PROVE Owned(p)
  <2>1. \A c \in Cpu : ~Holding(c, p) /\ ~Sending(c, p) /\ ~Receiving(c, p)
    BY <1>4, SeqEmpty DEF Holding, Sending, Receiving, Loaded
  <2>2. context[p] = t_registers /\ last[p] = t_registers
    BY <1>3
  <2> QED BY <1>4, <2>1, <2>2, SeqEmpty DEF Owned, Owner
<1>9. \A c \in Cpu : Flagged(c)
  BY <1>4 DEF Flagged
<1>10. \A c \in Cpu : KmTalk(c)
  BY <1>4, SeqEmpty DEF KmTalk
<1> QED BY <1>6, <1>7, <1>8, <1>9, <1>10 DEF KmInv

LEMMA KmStutter ==
  ASSUME KmInv, UNCHANGED vars
  PROVE  KmInv'
<1>1. UNCHANGED <<cpu, cpuToKm, kmToCpu, ksToCpu, cpuToKs, ksToKm, status, processes, context,
                  last, overtaken, lost, crashed, sticks>>
  BY DEF vars, chanVars, memVars, failVars, ghostVars
<1>2. Arrays' /\ Known'
  BY <1>1 DEF KmInv, Arrays, Known
<1>3. \A c \in Cpu : SameKm(c) /\ SameFlags(c)
  BY <1>1 DEF SameKm, SameFlags
<1>4. \A c \in Cpu : Flagged(c)'
  BY <1>1, <1>3, SameFlagged DEF KmInv
<1>5. \A p \in Pid \ overtaken : Hosted(p)
  BY <1>1 DEF Hosted, KmInv, Known
<1> QED BY <1>1, <1>2, <1>4, <1>5, KmElsewhere DEF Arrays

LEMMA NextKm == CycleInv /\ KmInv /\ Lists /\ CopiesValid /\ [Next]_vars => KmInv' /\ Lists'
<1> SUFFICES ASSUME CycleInv, KmInv, Lists, CopiesValid, [Next]_vars PROVE KmInv' /\ Lists'
  OBVIOUS
<1>1. Lists'
  BY ListsNext DEF KmInv, Arrays
<1>2. CASE UNCHANGED vars
  BY <1>1, <1>2, KmStutter
<1>3. CASE Next
  BY <1>1, <1>3, KmCpuStep, KmKsStep, KmKmStep, KmAddStick, KmQuietStep, KmEndProcess, KmResume
     DEF Next, System
<1> QED BY <1>2, <1>3

LEMMA KmAlways == Spec /\ []CopiesValid => [](CycleInv /\ KmInv /\ Lists)
<1> QED BY InitCycle, NextCycle, KmInit, ListsInit, NextKm, PTL DEF Spec

-----------------------------------------------------------------------------
(* A CPU without a process, and what is left in the channels when Kernel   *)
(* Memory is down.                                                         *)
Parked == \A c \in Cpu : cpu[c].stage \in {"off", "start", "idle", "gone"} => cpu[c].pid = NoPid

Stray ==
  \A c \in Cpu : cpu[c].pid \in Pid /\ cpu[c].stage # "context" =>
    \A k \in DOMAIN kmToCpu[c] : kmToCpu[c][k].op # "SEND_CONTEXT"

LEMMA GoneParked ==
  ASSUME NEW s, s = [f \in Fields |-> s[f]]
  PROVE  Gone(s).pid = NoPid /\ Released(s).pid = NoPid
BY DEF Gone, Released, Fields

LEMMA ParkedCpu ==
  ASSUME CycleInv, Parked, NEW c \in Cpu, CpuStep(c)
  PROVE  Parked'
<1>1. cpu = [d \in Cpu |-> cpu[d]] /\ cpu[c] = [f \in Fields |-> cpu[c][f]]
  BY DEF CycleInv, Shapes
<1> DEFINE P == /\ \A d \in Cpu \ {c} : cpu'[d] = cpu[d]
                /\ cpu'[c].stage \in {"off", "start", "idle", "gone"} => cpu'[c].pid = NoPid
<1>2. departs(c) => P
  BY <1>1, GoneParked DEF departs
<1>3. ASSUME NEW regs, NEW messages, NEW changed, end_cycle(c, regs, messages, changed)
      PROVE  P
  BY <1>1, <1>3 DEF end_cycle, Fields
<1>4. ASSUME NEW access, begin_access(c, access) PROVE P
  BY <1>1, <1>4 DEF begin_access, Fields
<1>5. ASSUME NEW s, s = [f \in Fields |-> s[f]], NEW stop, keep_going(c, s, stop) PROVE P
  <2>1. PICK t : t = [s EXCEPT !.changed = FALSE, !.stop = FALSE]
    OBVIOUS
  <2>2. t = [f \in Fields |-> t[f]]
    BY <1>5, <2>1 DEF Fields
  <2>3. cpu' = [cpu EXCEPT ![c] = Released(t)] \/ cpu' = [cpu EXCEPT ![c] = [t EXCEPT !.stage = "fetch"]]
    BY <1>5, <2>1 DEF keep_going
  <2>4. Released(t).pid = NoPid /\ [t EXCEPT !.stage = "fetch"].stage = "fetch"
    BY <2>2, GoneParked DEF Fields
  <2> QED BY <1>1, <2>3, <2>4
<1>6. connect_to_kernel_memory(c) => P
  BY <1>1 DEF connect_to_kernel_memory, Parked, Fields
<1>7. receive_pid(c) => P
  BY <1>1, <1>2 DEF receive_pid, Fields
<1>8. receive_context(c) \/ receive_segment_table(c) => P
  BY <1>1 DEF receive_context, receive_segment_table, Fields
<1>9. connect_memory_stick(c) => P
  BY <1>1, <1>2 DEF connect_memory_stick, Listening, Fields
<1>10. handler_mov_in(c) \/ handler_mov_out(c) \/ handler_copy_mem(c) => P
  BY <1>2, <1>3, <1>4 DEF handler_mov_in, handler_mov_out, handler_copy_mem, leave
<1>11. ASSUME \/ execute_local(c) \/ handler_mutex(c) \/ handler_mem(c) \/ handler_io(c)
              \/ handler_init_proc(c) \/ handler_exit(c) \/ write_done(c)
       PROVE  P
  BY <1>3, <1>11 DEF execute_local, handler_mutex, handler_mem, handler_io, handler_init_proc,
              handler_exit, Syscall, write_done
<1>12. read_done(c) => P
  BY <1>3, <1>4 DEF read_done
<1>13. read_memory(c) => P
  BY <1>1, <1>2 DEF read_memory, access_fails, Accesses, Fields
<1>14. write_memory(c) => P
  BY <1>1, <1>2 DEF write_memory, access_fails, Accesses, Fields
<1>15. check_interrupt(c) => P
  BY <1>1, <1>2, <1>5 DEF check_interrupt, Fields
<1>16. ASSUME update_segment_table(c) PROVE P
  <2>1. PICK s : s = [cpu[c] EXCEPT !.table = Head(kmToCpu[c]).table]
    OBVIOUS
  <2>2. s = [f \in Fields |-> s[f]]
    BY <1>1, <2>1 DEF Fields
  <2>3. keep_going(c, s, cpu[c].stop)
    BY <1>16, <2>1 DEF update_segment_table
  <2> QED BY <1>5, <2>2, <2>3
<1>17. P
  BY <1>6, <1>7, <1>8, <1>9, <1>10, <1>11, <1>12, <1>13, <1>14, <1>15, <1>16 DEF CpuStep
<1> QED BY <1>17 DEF Parked

LEMMA ParkedNext == CycleInv /\ Parked /\ [Next]_vars => Parked'
<1> SUFFICES ASSUME CycleInv, Parked, [Next]_vars PROVE Parked'
  OBVIOUS
<1>1. CASE \E c \in Cpu : CpuStep(c)
  BY <1>1, ParkedCpu
<1>2. CASE ~\E c \in Cpu : CpuStep(c)
  <2>1. cpu' = cpu
    BY <1>2 DEF Next, System, KmStep, KsStep, handle_request_context, handle_next_instruction,
       handle_updated_context, handle_updated_segment_table, handle_stick_disconnected, Serves,
       manage_request_process, handle_cycle_cpu_ok, handle_segmentation_fault,
       handle_syscall_mutex, handle_syscall_memory_allocation, handle_syscall_memory_free,
       handle_syscall_io, handle_syscall_start_process, handle_syscall_exit,
       handle_invalid_syscall, Handles, add_stick_connection, add_total_memory, watch_sticks,
       handle_end_process, resume_process, transition_unblock, suspend_process,
       stick_disconnects, vars
  <2> QED BY <2>1 DEF Parked
<1> QED BY <1>1, <1>2

LEMMA ParkedInit == Init => Parked /\ Stray
<1> SUFFICES ASSUME Init PROVE Parked /\ Stray
  OBVIOUS
<1>1. \A c \in Cpu : cpu[c].pid = NoPid /\ kmToCpu[c] = <<>>
  BY DEF Init
<1> QED BY <1>1, SeqEmpty DEF Parked, Stray

\* The messages that are no sticks are where they should be.
LEMMA LayoutOthers ==
  ASSUME NEW ch, NEW known, NEW listed, NEW k \in Nat, NEW n \in Nat,
         Layout(ch, known, listed, k, n)
  PROVE  /\ DOMAIN ch = 1 .. Len(ch) /\ Len(ch) \in Nat /\ k + n <= Len(ch)
         /\ \A i \in DOMAIN ch : ch[i].op # "PACKET" => i \in k + 1 .. k + n
<1>1. DOMAIN ch = 1 .. Len(ch) /\ Len(ch) \in Nat /\ k + n <= Len(ch)
  BY SeqFacts DEF Layout
<1>2. \A i : PACKET(i).op = "PACKET"
  BY DEF PACKET
<1>3. ASSUME NEW i \in 1 .. Len(ch), ch[i].op # "PACKET" PROVE i \in k + 1 .. k + n
  <2>1. i <= k => ch[i].op = "PACKET"
    BY <1>2 DEF Layout
  <2>2. i > k + n => ch[i].op = "PACKET"
    BY <1>2 DEF Layout
  <2> QED BY <1>1, <1>3, <2>1, <2>2
<1> QED BY <1>1, <1>3

Others(channel) == {k \in DOMAIN channel : channel[k].op # "PACKET"}

LEMMA AnswerFacts ==
  ASSUME NEW c \in Cpu, NEW op, op # "PACKET", Answer(c, op)
  PROVE  /\ Others(kmToCpu[c]) # {} /\ kmToCpu[c][Min(Others(kmToCpu[c]))].op = op
         /\ \A i \in DOMAIN kmToCpu[c] : kmToCpu[c][i].op \in {"PACKET", op}
<1>1. PICK ch : ch = kmToCpu[c]
  OBVIOUS
<1>2. PICK n \in Nat : n = 1
  OBVIOUS
<1>3. PICK k \in 0 .. Len(ch) : /\ Layout(ch, Len(cpu[c].sticks), Len(sticks), k, n)
                                /\ ch[k + 1].op = op
  BY <1>1, <1>2 DEF Answer, Between
<1>4. k \in Nat
  OBVIOUS
<1>5. /\ DOMAIN ch = 1 .. Len(ch) /\ Len(ch) \in Nat /\ k + n <= Len(ch)
      /\ \A i \in DOMAIN ch : ch[i].op # "PACKET" => i \in k + 1 .. k + n
  BY <1>3, <1>4, LayoutOthers
<1>6. k + 1 \in DOMAIN ch /\ \A i \in DOMAIN ch : ch[i].op # "PACKET" => i = k + 1
  BY <1>2, <1>4, <1>5
<1>7. Others(ch) = {k + 1} /\ \A i \in DOMAIN ch : ch[i].op \in {"PACKET", op}
  BY <1>3, <1>6 DEF Others
<1>8. Min({k + 1}) = k + 1
  <2>1. {k + 1} \in SUBSET Nat /\ {k + 1} # {}
    BY <1>4
  <2>2. Min({k + 1}) \in {k + 1}
    BY <2>1, MinFacts
  <2> QED BY <2>2
<1> QED BY <1>1, <1>3, <1>7, <1>8

LEMMA LoadsFacts ==
  ASSUME NEW c \in Cpu, Loads(c)
  PROVE  /\ Others(kmToCpu[c]) # {}
         /\ kmToCpu[c][Min(Others(kmToCpu[c]))].op = "SEND_CONTEXT"
<1>1. PICK ch : ch = kmToCpu[c]
  OBVIOUS
<1>2. PICK n \in Nat : n = 2
  OBVIOUS
<1>3. PICK k \in 0 .. Len(ch) : /\ Layout(ch, Len(cpu[c].sticks), Len(sticks), k, n)
                                /\ ch[k + 1].op = "SEND_CONTEXT"
  BY <1>1, <1>2 DEF Loads, Between
<1>4. k \in Nat
  OBVIOUS
<1>5. /\ DOMAIN ch = 1 .. Len(ch) /\ Len(ch) \in Nat /\ k + n <= Len(ch)
      /\ \A i \in DOMAIN ch : ch[i].op # "PACKET" => i \in k + 1 .. k + n
  BY <1>3, <1>4, LayoutOthers
<1>6. k + 1 \in Others(ch) /\ \A i \in Others(ch) : i >= k + 1
  BY <1>2, <1>3, <1>4, <1>5 DEF Others
<1>7. Others(ch) \in SUBSET Nat
  BY <1>5 DEF Others
<1>8. Min(Others(ch)) \in Others(ch) /\ \A y \in Others(ch) : Min(Others(ch)) <= y
  BY <1>6, <1>7, MinFacts
<1>9. Min(Others(ch)) = k + 1
  BY <1>4, <1>6, <1>7, <1>8
<1> QED BY <1>1, <1>3, <1>6, <1>9

LEMMA QuietOthers ==
  ASSUME NEW c \in Cpu, Len(cpu[c].sticks) \in Nat, Quiet(c)
  PROVE  Others(kmToCpu[c]) = {}
BY QuietFacts DEF Others

\* While Kernel Memory is up, registers are only sent to a CPU that asked.
LEMMA TalkStray == CycleInv /\ KmInv /\ Parked /\ ~crashed => Stray
<1> SUFFICES ASSUME CycleInv, KmInv, Parked, ~crashed, NEW c \in Cpu, cpu[c].pid \in Pid,
                    cpu[c].stage # "context"
             PROVE  \A k \in DOMAIN kmToCpu[c] : kmToCpu[c][k].op # "SEND_CONTEXT"
  BY DEF Stray
<1>1. KmTalk(c) /\ Len(cpu[c].sticks) \in Nat /\ cpu[c].stage \in Stages
  BY Sizes DEF CycleInv, Shapes
<1>2. NoPid \notin Pid
  BY CycleAssumption DEF NoPid
<1>3. cpu[c].stage \in {"table", "fetch", "access", "interrupt", "update"}
  BY <1>1, <1>2 DEF Stages, Parked
<1>4. Quiet(c) \/ Answer(c, "SEGMENT_TABLE") \/ Answer(c, "SEND_INSTRUCTION")
  BY <1>1, <1>3 DEF KmTalk
<1>5. CASE Quiet(c)
  BY <1>1, <1>5, QuietFacts
<1>6. ASSUME NEW op, op \in {"SEGMENT_TABLE", "SEND_INSTRUCTION"}, Answer(c, op)
      PROVE  \A k \in DOMAIN kmToCpu[c] : kmToCpu[c][k].op # "SEND_CONTEXT"
  <2>1. \A k \in DOMAIN kmToCpu[c] : kmToCpu[c][k].op \in {"PACKET", op}
    BY <1>6, AnswerFacts
  <2> QED BY <1>6, <2>1
<1> QED BY <1>4, <1>5, <1>6

\* Nothing moves when Kernel Memory goes down.
LEMMA CrashedStray == Stray /\ [Next]_vars /\ crashed' => Stray'
<1> SUFFICES ASSUME Stray, [Next]_vars, crashed' PROVE Stray'
  OBVIOUS
<1>1. UNCHANGED <<cpu, kmToCpu>>
  <2>1. CASE UNCHANGED vars
    BY <2>1 DEF vars, chanVars
  <2>2. ASSUME NEW c \in Cpu, CpuStep(c) PROVE FALSE
    BY <2>2 DEF CpuStep, connect_to_kernel_memory, receive_pid, receive_context,
         receive_segment_table, connect_memory_stick, execute_local, handler_mov_in,
         handler_mov_out, handler_copy_mem, read_memory, read_done, write_memory, write_done,
         handler_mutex, handler_mem, handler_io, handler_init_proc, handler_exit, Syscall,
         check_interrupt, update_segment_table, Hears, Executes, Accesses, Up, failVars
  <2>3. ASSUME NEW c \in Cpu, KmStep(c) PROVE UNCHANGED <<cpu, kmToCpu>>
    BY <2>3 DEF KmStep, handle_request_context, handle_next_instruction,
       handle_updated_context, handle_updated_segment_table, handle_stick_disconnected,
       Serves, Up, failVars
  <2>4. ASSUME NEW c \in Cpu, KsStep(c) PROVE FALSE
    BY <2>4 DEF KsStep, manage_request_process, handle_cycle_cpu_ok, handle_segmentation_fault,
       handle_syscall_mutex, handle_syscall_memory_allocation, handle_syscall_memory_free,
       handle_syscall_io, handle_syscall_start_process, handle_syscall_exit,
       handle_invalid_syscall, Handles, Up, failVars
  <2>5. ASSUME \/ add_stick_connection \/ add_total_memory \/ watch_sticks
               \/ handle_end_process \/ \E p \in Pid : resume_process(p)
               \/ \E p \in Pid : transition_unblock(p) \/ suspend_process(p)
               \/ \E k \in DOMAIN sticks : stick_disconnects(k)
        PROVE  FALSE
    BY <2>5 DEF add_stick_connection, add_total_memory, watch_sticks, handle_end_process,
       resume_process, transition_unblock, suspend_process, stick_disconnects, Up, failVars
  <2> QED BY <2>1, <2>2, <2>3, <2>4, <2>5 DEF Next, System
<1> QED BY <1>1 DEF Stray

LEMMA StrayAlways == Spec /\ []CopiesValid => []Stray
<1>1. Spec /\ []CopiesValid => [](CycleInv /\ KmInv /\ Lists)
  BY KmAlways
<1>2. Stray /\ CycleInv' /\ KmInv' /\ Parked' /\ [Next]_vars => Stray'
  <2> SUFFICES ASSUME Stray, CycleInv', KmInv', Parked', [Next]_vars PROVE Stray'
    OBVIOUS
  <2>1. CASE crashed'
    BY <2>1, CrashedStray
  <2>2. CASE ~crashed'
    <3>1. (CycleInv /\ KmInv /\ Parked /\ ~crashed => Stray)'
      BY TalkStray, PTL
    <3> QED BY <2>2, <3>1
  <2> QED BY <2>1, <2>2
<1> QED BY <1>1, <1>2, ParkedInit, ParkedNext, PTL DEF Spec

-----------------------------------------------------------------------------
(* What follows.                                                           *)
LEMMA KmContextExact == KmInv /\ Stray => ContextExact
<1> SUFFICES ASSUME KmInv, Stray, NEW p \in processes \ overtaken
             PROVE  /\ \A c \in Cpu :
                         /\ cpu[c].pid = p /\ cpu[c].stage \in Loaded => cpu[c].regs = last[p]
                         /\ \A k \in DOMAIN cpuToKm[c] :
                              LET m == cpuToKm[c][k]
                              IN  m.op = "UPDATED_CONTEXT" => m.pid # p \/ m.regs = last[p]
                         /\ cpu[c].pid = p => \A k \in DOMAIN kmToCpu[c] :
                              LET m == kmToCpu[c][k]
                              IN  m.op = "SEND_CONTEXT" => m.regs = last[p]
                    /\ (\A c \in Cpu :
                          ~Owes(c, p) /\ ~(cpu[c].pid = p /\ cpu[c].stage \in Loaded))
                         => context[p] = last[p]
  BY DEF ContextExact
<1>1. p \in Pid /\ Owned(p)
  BY DEF KmInv, Known
<1>2. ASSUME NEW c \in Cpu, cpu[c].pid = p, NEW k \in DOMAIN kmToCpu[c],
             kmToCpu[c][k].op = "SEND_CONTEXT"
      PROVE  kmToCpu[c][k].regs = last[p]
  <2>1. cpu[c].stage = "context"
    BY <1>1, <1>2 DEF Stray
  <2>2. Receiving(c, p)
    BY <1>2, <2>1 DEF Receiving
  <2> QED BY <1>1, <1>2, <2>2 DEF Owned
<1>3. ASSUME NEW c \in Cpu
      PROVE  /\ cpu[c].pid = p /\ cpu[c].stage \in Loaded => cpu[c].regs = last[p]
             /\ \A k \in DOMAIN cpuToKm[c] :
                  cpuToKm[c][k].op = "UPDATED_CONTEXT" =>
                    cpuToKm[c][k].pid # p \/ cpuToKm[c][k].regs = last[p]
  BY <1>1 DEF Owned, Holding
<1>4. ASSUME \A c \in Cpu : ~Owes(c, p) /\ ~(cpu[c].pid = p /\ cpu[c].stage \in Loaded)
      PROVE  context[p] = last[p]
  BY <1>1, <1>4 DEF Owned, Holding, Sending, Owes
<1> QED BY <1>2, <1>3, <1>4

LEMMA KmAlwaysAnswered == CycleInv /\ KmInv /\ ~crashed => AlwaysAnswered
<1> SUFFICES ASSUME CycleInv, KmInv, ~crashed, NEW c \in Cpu, cpu[c].stage \in Listening,
                    cpu[c].pid \notin overtaken
             PROVE  IF Others(kmToCpu[c]) = {}
                    THEN Ops(cpuToKm[c]) \cap Awaits[cpu[c].stage] # {}
                    ELSE kmToCpu[c][Min(Others(kmToCpu[c]))].op \in Awaits[cpu[c].stage]
  BY DEF AlwaysAnswered, Others
<1>1. KmTalk(c) /\ Len(cpu[c].sticks) \in Nat
  BY Sizes
<1>2. ASSUME NEW m, cpuToKm[c] = <<m>> PROVE m.op \in Ops(cpuToKm[c])
  BY <1>2, SeqOne DEF Ops
<1>3. ASSUME NEW x, NEW m, cpuToKm[c] = <<x, m>> PROVE m.op \in Ops(cpuToKm[c])
  BY <1>3, SeqTwo DEF Ops
<1>4. /\ Awaits["context"] = {"REQUEST_CONTEXT", "SEND_CONTEXT"}
      /\ Awaits["table"] = {"REQUEST_CONTEXT", "SEGMENT_TABLE"}
      /\ Awaits["fetch"] = {"NEXT_INSTRUCTION", "SEND_INSTRUCTION"}
      /\ Awaits["update"] = {"UPDATED_SEGMENT_TABLE", "SEGMENT_TABLE"}
  BY DEF Awaits
<1>5. ASSUME NEW op, op # "PACKET", Answer(c, op)
      PROVE  Others(kmToCpu[c]) # {} /\ kmToCpu[c][Min(Others(kmToCpu[c]))].op = op
  BY <1>5, AnswerFacts
<1>10. ASSUME Quiet(c), NEW op, op \in Ops(cpuToKm[c]), op \in Awaits[cpu[c].stage]
       PROVE  Others(kmToCpu[c]) = {} /\ Ops(cpuToKm[c]) \cap Awaits[cpu[c].stage] # {}
  BY <1>1, <1>10, QuietOthers
<1>6. CASE cpu[c].stage = "context"
  <2>1. CASE Loads(c)
    BY <1>4, <1>6, <2>1, LoadsFacts
  <2>2. CASE Quiet(c) /\ cpuToKm[c] = <<REQUEST_CONTEXT(cpu[c].pid)>>
    <3>1. PICK m : m = REQUEST_CONTEXT(cpu[c].pid)
      OBVIOUS
    <3>2. m.op = "REQUEST_CONTEXT"
      BY <3>1, RequestOps
    <3>3. cpuToKm[c] = <<m>>
      BY <2>2, <3>1
    <3>4. m.op \in Ops(cpuToKm[c])
      BY <1>2, <3>3
    <3> QED BY <1>4, <1>10, <1>6, <2>2, <3>2, <3>4
  <2>3. CASE Quiet(c) /\ cpuToKm[c] = <<cpuToKm[c][1], REQUEST_CONTEXT(cpu[c].pid)>>
    <3>1. PICK m : m = REQUEST_CONTEXT(cpu[c].pid)
      OBVIOUS
    <3>2. m.op = "REQUEST_CONTEXT"
      BY <3>1, RequestOps
    <3>3. cpuToKm[c] = <<cpuToKm[c][1], m>>
      BY <2>3, <3>1
    <3>4. m.op \in Ops(cpuToKm[c])
      BY <1>3, <3>3
    <3> QED BY <1>4, <1>10, <1>6, <2>3, <3>2, <3>4
  <2> QED BY <1>1, <1>6, <2>1, <2>2, <2>3 DEF KmTalk
<1>7. CASE cpu[c].stage = "table"
  <2>1. Answer(c, "SEGMENT_TABLE")
    BY <1>1, <1>7 DEF KmTalk
  <2> QED BY <1>4, <1>5, <1>7, <2>1
<1>8. CASE cpu[c].stage = "fetch"
  <2>1. CASE Answer(c, "SEND_INSTRUCTION")
    BY <1>4, <1>5, <1>8, <2>1
  <2>2. CASE Quiet(c) /\ cpuToKm[c] = <<NEXT_INSTRUCTION(cpu[c].pid, cpu[c].regs["PC"])>>
    <3>1. PICK m : m = NEXT_INSTRUCTION(cpu[c].pid, cpu[c].regs["PC"])
      OBVIOUS
    <3>2. m.op = "NEXT_INSTRUCTION"
      BY <3>1, RequestOps
    <3>3. cpuToKm[c] = <<m>>
      BY <2>2, <3>1
    <3>4. m.op \in Ops(cpuToKm[c])
      BY <1>2, <3>3
    <3> QED BY <1>4, <1>10, <1>8, <2>2, <3>2, <3>4
  <2> QED BY <1>1, <1>8, <2>1, <2>2 DEF KmTalk
<1>9. CASE cpu[c].stage = "update"
  <2>1. CASE Answer(c, "SEGMENT_TABLE")
    BY <1>4, <1>5, <1>9, <2>1
  <2>2. CASE Quiet(c) /\ cpuToKm[c] = <<UPDATED_SEGMENT_TABLE(cpu[c].pid)>>
    <3>1. PICK m : m = UPDATED_SEGMENT_TABLE(cpu[c].pid)
      OBVIOUS
    <3>2. m.op = "UPDATED_SEGMENT_TABLE"
      BY <3>1, RequestOps
    <3>3. cpuToKm[c] = <<m>>
      BY <2>2, <3>1
    <3>4. m.op \in Ops(cpuToKm[c])
      BY <1>2, <3>3
    <3> QED BY <1>4, <1>10, <1>9, <2>2, <3>2, <3>4
  <2> QED BY <1>1, <1>9, <2>1, <2>2 DEF KmTalk
<1> QED BY <1>6, <1>7, <1>8, <1>9 DEF Listening

\* The scripts lead every process to its end: no CPU asks for an instruction
\* that is not in the file.
ScriptsEnd ==
  \A c \in Cpu : \A k \in DOMAIN cpuToKm[c] :
    LET m == cpuToKm[c][k]
    IN  m.op = "NEXT_INSTRUCTION" => Instruction(m.pid, m.pc).op # "END"

LEMMA KmStaysUp ==
  CycleInv /\ KmInv /\ ScriptsEnd /\ lost = {} /\ ~crashed /\ [Next]_vars => ~crashed'
<1> SUFFICES ASSUME CycleInv, KmInv, ScriptsEnd, lost = {}, ~crashed, [Next]_vars
             PROVE  ~crashed'
  OBVIOUS
<1>1. CASE \E c \in Cpu : handle_next_instruction(c)
  <2>1. PICK c \in Cpu : handle_next_instruction(c)
    BY <1>1
  <2>2. PICK m : m = cpuToKm[c][1]
    OBVIOUS
  <2>3. Serves(c, "NEXT_INSTRUCTION")
    BY <2>1 DEF handle_next_instruction
  <2>4. /\ KmTalk(c) /\ Flagged(c) /\ cpuToKm[c] # <<>> /\ Head(cpuToKm[c]) = m
        /\ m.op = "NEXT_INSTRUCTION" /\ 1 \in DOMAIN cpuToKm[c]
    BY <2>2, <2>3, Served
  <2>5. cpu[c].stage \in Stages
    BY DEF CycleInv, Shapes
  <2>6. cpu[c].stage # "gone"
    BY <2>2, <2>4 DEF KmTalk
  <2>7. cpu[c].stage = "fetch" /\ m = NEXT_INSTRUCTION(cpu[c].pid, cpu[c].regs["PC"])
    BY <2>2, <2>4, <2>5, <2>6, RequestStage, RequestOps
  <2>8. m.pid = cpu[c].pid
    BY <2>7, RequestOps
  <2>9. m.pid \in Pid
    BY <2>4, <2>7, <2>8 DEF Flagged
  <2>10. Runs(c, m.pid)
    BY <2>7, <2>8 DEF Runs
  <2>11. status[m.pid] = "EXEC"
    BY <2>9, <2>10, CycleOneExecutor DEF OneExecutor
  <2>12. m.pid \in processes
    BY <2>9, <2>11 DEF KmInv, Known
  <2>13. Instruction(m.pid, m.pc).op # "END"
    BY <2>2, <2>4 DEF ScriptsEnd
  <2> QED BY <2>1, <2>4, <2>12, <2>13 DEF handle_next_instruction
<1>2. CASE ~\E c \in Cpu : handle_next_instruction(c)
  <2>1. CASE UNCHANGED vars
    BY <2>1 DEF vars, failVars
  <2>2. ASSUME NEW c \in Cpu, CpuStep(c) PROVE crashed' = crashed
    BY <2>2, CpuLocal DEF Local
  <2>3. ASSUME NEW c \in Cpu, KmStep(c) PROVE crashed' = crashed
    BY <1>2, <2>3 DEF KmStep, handle_request_context, handle_updated_context,
       handle_updated_segment_table, handle_stick_disconnected
  <2>4. ASSUME NEW c \in Cpu, KsStep(c) PROVE crashed' = crashed
    BY <2>4 DEF KsStep, manage_request_process, handle_cycle_cpu_ok, handle_segmentation_fault,
       handle_syscall_mutex, handle_syscall_memory_allocation, handle_syscall_memory_free,
       handle_syscall_io, handle_syscall_start_process, handle_syscall_exit,
       handle_invalid_syscall, Handles, failVars
  <2>5. ASSUME \/ add_stick_connection \/ add_total_memory \/ watch_sticks
               \/ handle_end_process \/ \E p \in Pid : resume_process(p)
               \/ \E p \in Pid : transition_unblock(p) \/ suspend_process(p)
               \/ \E k \in DOMAIN sticks : stick_disconnects(k)
        PROVE  crashed' = crashed
    BY <2>5 DEF add_stick_connection, add_total_memory, watch_sticks, handle_end_process,
       resume_process, transition_unblock, suspend_process, stick_disconnects, failVars
  <2> QED BY <2>1, <2>2, <2>3, <2>4, <2>5 DEF Next, System
<1> QED BY <1>1, <1>2

-----------------------------------------------------------------------------
\* The table a CPU translates by is Kernel Memory's.

\* The stages in which the table of a CPU has to be Kernel Memory's: not while
\* it waits for one, nor while the scheduler handles its allocation or release.
Settled(c) ==
  \/ cpu[c].stage \in {"fetch", "access"}
  \/ cpu[c].stage = "interrupt" /\ ~cpu[c].changed

\* A CPU that runs a process has its table, if it has to, and no older one is
\* on its way to it.
Current(c) ==
  LET p == cpu[c].pid
      mine == filter_process_segments(segments, p)
  IN  p \in Pid /\ Runs(c, p) =>
        /\ Settled(c) => cpu[c].table = mine
        /\ \A k \in DOMAIN kmToCpu[c] :
             kmToCpu[c][k].op = "SEGMENT_TABLE" => kmToCpu[c][k].table = mine

Fresh == \A c \in Cpu : Current(c)

\* What is in the channel to c was there before.
Shrinks(c) == \A k \in DOMAIN kmToCpu'[c] :
                \E j \in DOMAIN kmToCpu[c] : kmToCpu'[c][k] = kmToCpu[c][j]

\* Where the table of a CPU comes from.
Hands(c) ==
  \/ cpu'[c].pid = NoPid
  \/ cpu'[c].stage = "context" /\ cpu[c].stage = "idle" /\ kmToCpu' = kmToCpu
  \/ /\ cpu'[c].pid = cpu[c].pid
     /\ Runs(c, cpu[c].pid)' => Runs(c, cpu[c].pid)
     /\ kmToCpu' = kmToCpu \/ (kmToCpu[c] # <<>> /\ kmToCpu' = received(kmToCpu, c))
     /\ \/ ~Settled(c)'
        \/ cpu'[c].table = cpu[c].table /\ Settled(c)
        \/ /\ kmToCpu[c] # <<>> /\ Head(kmToCpu[c]).op = "SEGMENT_TABLE"
           /\ cpu'[c].table = Head(kmToCpu[c]).table
        \/ ~Runs(c, cpu[c].pid)'

\* A CPU takes its table from nowhere but the message it waits for.
LEMMA KeptCpu ==
  ASSUME CycleInv, KmInv, Parked, NEW c \in Cpu, CpuStep(c)
  PROVE  Hands(c)
<1>1. cpu = [d \in Cpu |-> cpu[d]] /\ cpu[c] = [f \in Fields |-> cpu[c][f]]
  BY DEF CycleInv, Shapes
<1>2. departs(c) => cpu'[c].pid = NoPid
  BY <1>1, GoneParked DEF departs
<1>3. ASSUME NEW regs, NEW messages, NEW changed, end_cycle(c, regs, messages, changed),
             cpu[c].stage \in {"fetch", "access"},
             kmToCpu' = kmToCpu \/ (kmToCpu[c] # <<>> /\ kmToCpu' = received(kmToCpu, c))
      PROVE  Hands(c)
  <2>1. cpu'[c].pid = cpu[c].pid /\ cpu'[c].table = cpu[c].table
    BY <1>1, <1>3 DEF end_cycle, Fields
  <2> QED BY <1>3, <2>1 DEF Hands, Settled, Runs
<1>4. ASSUME NEW access, begin_access(c, access), cpu[c].stage \in {"fetch", "access"},
             kmToCpu' = kmToCpu \/ (kmToCpu[c] # <<>> /\ kmToCpu' = received(kmToCpu, c))
      PROVE  Hands(c)
  <2>1. cpu'[c].pid = cpu[c].pid /\ cpu'[c].table = cpu[c].table
    BY <1>1, <1>4 DEF begin_access, Fields
  <2> QED BY <1>4, <2>1 DEF Hands, Settled, Runs
<1>5. ASSUME NEW s, s = [f \in Fields |-> s[f]], NEW stop, keep_going(c, s, stop)
      PROVE  \/ cpu'[c].pid = NoPid
             \/ ~stop /\ cpu'[c].pid = s.pid /\ cpu'[c].table = s.table /\ cpu'[c].stage = "fetch"
  <2>1. PICK t : t = [s EXCEPT !.changed = FALSE, !.stop = FALSE]
    OBVIOUS
  <2>2. t = [f \in Fields |-> t[f]] /\ t.pid = s.pid /\ t.table = s.table
    BY <1>5, <2>1 DEF Fields
  <2>3. \/ cpu' = [cpu EXCEPT ![c] = Released(t)]
        \/ ~stop /\ cpu' = [cpu EXCEPT ![c] = [t EXCEPT !.stage = "fetch"]]
    BY <1>5, <2>1 DEF keep_going
  <2>4. Released(t).pid = NoPid
    BY <2>2, GoneParked
  <2>5. [t EXCEPT !.stage = "fetch"].stage = "fetch" /\ [t EXCEPT !.stage = "fetch"].pid = t.pid
        /\ [t EXCEPT !.stage = "fetch"].table = t.table
    BY <2>2 DEF Fields
  <2> QED BY <1>1, <2>2, <2>3, <2>4, <2>5
<1>6. connect_to_kernel_memory(c) => Hands(c)
  BY <1>1 DEF connect_to_kernel_memory, Parked, Fields, Hands
<1>7. receive_pid(c) => Hands(c)
  BY <1>1, <1>2 DEF receive_pid, Fields, Hands
<1>8. receive_context(c) => Hands(c)
  <2> SUFFICES ASSUME receive_context(c) PROVE Hands(c)
    OBVIOUS
  <2>1. /\ cpu'[c].pid = cpu[c].pid /\ cpu'[c].stage = "table" /\ cpu[c].stage = "context"
        /\ kmToCpu[c] # <<>> /\ kmToCpu' = received(kmToCpu, c)
    BY <1>1 DEF receive_context, Fields, Hears, Next_is
  <2> QED BY <2>1 DEF Hands, Runs, Settled
<1>14. receive_segment_table(c) => Hands(c)
  BY <1>1 DEF receive_segment_table, Fields, Hands, Runs, Hears, Next_is
<1>9. connect_memory_stick(c) => Hands(c)
  <2> SUFFICES ASSUME connect_memory_stick(c) PROVE Hands(c)
    OBVIOUS
  <2>1. CASE departs(c)
    BY <1>2, <2>1 DEF Hands
  <2>2. CASE ~departs(c)
    <3>1. /\ cpu'[c].pid = cpu[c].pid /\ cpu'[c].table = cpu[c].table
          /\ cpu'[c].stage = cpu[c].stage /\ cpu'[c].changed = cpu[c].changed
          /\ cpu'[c].stop = cpu[c].stop /\ ksToCpu' = ksToCpu
          /\ kmToCpu[c] # <<>> /\ kmToCpu' = received(kmToCpu, c)
      BY <1>1, <2>2 DEF connect_memory_stick, Fields, Next_is
    <3> QED BY <3>1 DEF Hands, Settled, Runs, Next_is
  <2> QED BY <2>1, <2>2
<1>10. handler_mov_in(c) \/ handler_mov_out(c) \/ handler_copy_mem(c) => Hands(c)
  <2>1. ASSUME handler_mov_in(c) \/ handler_mov_out(c) \/ handler_copy_mem(c)
        PROVE  /\ cpu[c].stage = "fetch" /\ kmToCpu[c] # <<>> /\ kmToCpu' = received(kmToCpu, c)
               /\ \/ departs(c) \/ \E regs, messages, changed : end_cycle(c, regs, messages, changed)
                  \/ \E access : begin_access(c, access)
    BY <2>1 DEF handler_mov_in, handler_mov_out, handler_copy_mem, leave, Executes, Hears, Next_is
  <2> QED BY <1>2, <1>3, <1>4, <2>1 DEF Hands
<1>11. ASSUME \/ execute_local(c) \/ handler_mutex(c) \/ handler_mem(c) \/ handler_io(c)
              \/ handler_init_proc(c) \/ handler_exit(c) \/ write_done(c)
       PROVE  Hands(c)
  <2>1. /\ cpu[c].stage \in {"fetch", "access"}
        /\ kmToCpu' = kmToCpu \/ (kmToCpu[c] # <<>> /\ kmToCpu' = received(kmToCpu, c))
        /\ \E regs, messages, changed : end_cycle(c, regs, messages, changed)
    BY <1>11 DEF execute_local, handler_mutex, handler_mem, handler_io, handler_init_proc,
              handler_exit, Syscall, write_done, Executes, Hears, Next_is, Accesses
  <2> QED BY <1>3, <2>1
<1>12. read_done(c) => Hands(c)
  <2>1. ASSUME read_done(c)
        PROVE  /\ cpu[c].stage = "access" /\ kmToCpu' = kmToCpu
               /\ \/ \E regs, messages, changed : end_cycle(c, regs, messages, changed)
                  \/ \E access : begin_access(c, access)
    BY <2>1 DEF read_done, Accesses
  <2> QED BY <1>3, <1>4, <2>1
<1>13. read_memory(c) \/ write_memory(c) => Hands(c)
  <2> SUFFICES ASSUME read_memory(c) \/ write_memory(c) PROVE Hands(c)
    OBVIOUS
  <2>1. CASE departs(c)
    BY <1>2, <2>1 DEF Hands
  <2>2. CASE ~departs(c)
    <3>1. /\ cpu[c].stage = "access" /\ kmToCpu' = kmToCpu
          /\ \E a : cpu' = [cpu EXCEPT ![c].access = a]
      BY <2>2 DEF read_memory, write_memory, access_fails, Accesses
    <3>2. cpu'[c].pid = cpu[c].pid /\ cpu'[c].table = cpu[c].table /\ cpu'[c].stage = "access"
      BY <1>1, <3>1 DEF Fields
    <3> QED BY <3>1, <3>2 DEF Hands, Settled, Runs
  <2> QED BY <2>1, <2>2
<1>15. check_interrupt(c) => Hands(c)
  <2> SUFFICES ASSUME check_interrupt(c) PROVE Hands(c)
    OBVIOUS
  <2>1. PICK m : m = Head(ksToCpu[c])
    OBVIOUS
  <2>2. cpu[c].stage = "interrupt" /\ ksToCpu[c] # <<>> /\ kmToCpu' = kmToCpu
    BY DEF check_interrupt
  <2>3. CASE departs(c)
    BY <1>2, <2>3 DEF Hands
  <2>4. ASSUME cpu' = [cpu EXCEPT ![c].stage = "update", ![c].stop = (m.op = "INTERRUPT")]
        PROVE  Hands(c)
    <3>1. /\ cpu'[c].pid = cpu[c].pid /\ cpu'[c].stage = "update"
          /\ cpu'[c].stop = (m.op = "INTERRUPT")
      BY <1>1, <2>4 DEF Fields
    <3>2. Runs(c, cpu[c].pid)' => m.op # "INTERRUPT"
      BY <3>1 DEF Runs
    <3>3. m.op # "INTERRUPT" => Runs(c, cpu[c].pid)
      BY <2>1, <2>2 DEF Runs, Next_is
    <3> QED BY <2>2, <3>1, <3>2, <3>3 DEF Hands, Settled
  <2>5. ASSUME keep_going(c, cpu[c], m.op = "INTERRUPT"), ~needs_table(c, m) PROVE Hands(c)
    <3>1. CASE cpu'[c].pid = NoPid
      BY <3>1 DEF Hands
    <3>2. CASE /\ m.op # "INTERRUPT" /\ cpu'[c].pid = cpu[c].pid
               /\ cpu'[c].table = cpu[c].table /\ cpu'[c].stage = "fetch"
      <4>1. Runs(c, cpu[c].pid) /\ ~cpu[c].changed
        BY <2>1, <2>2, <2>5, <3>2 DEF Runs, Next_is, needs_table
      <4> QED BY <2>2, <3>2, <4>1 DEF Hands, Settled
    <3> QED BY <1>1, <1>5, <2>5, <3>1, <3>2
  <2> QED BY <2>1, <2>3, <2>4, <2>5 DEF check_interrupt
<1>16. ASSUME update_segment_table(c) PROVE Hands(c)
  <2>1. PICK s : s = [cpu[c] EXCEPT !.table = Head(kmToCpu[c]).table]
    OBVIOUS
  <2>2. /\ s = [f \in Fields |-> s[f]] /\ s.pid = cpu[c].pid /\ s.table = Head(kmToCpu[c]).table
    BY <1>1, <2>1 DEF Fields
  <2>3. /\ keep_going(c, s, cpu[c].stop) /\ cpu[c].stage = "update"
        /\ kmToCpu[c] # <<>> /\ Head(kmToCpu[c]).op = "SEGMENT_TABLE"
        /\ kmToCpu' = received(kmToCpu, c)
    BY <1>16, <2>1 DEF update_segment_table, Hears, Next_is
  <2>4. CASE cpu'[c].pid = NoPid
    BY <2>4 DEF Hands
  <2>5. CASE /\ ~cpu[c].stop /\ cpu'[c].pid = s.pid
             /\ cpu'[c].table = s.table /\ cpu'[c].stage = "fetch"
    BY <2>2, <2>3, <2>5 DEF Hands, Runs
  <2> QED BY <1>5, <2>2, <2>3, <2>4, <2>5
<1> QED
  BY <1>6, <1>7, <1>8, <1>9, <1>10, <1>11, <1>12, <1>13, <1>14, <1>15, <1>16 DEF CpuStep

\* The steps of the CPUs leave the segments alone.
LEMMA FreshCpu ==
  ASSUME CycleInv, KmInv, Parked, Fresh, NEW c \in Cpu, CpuStep(c)
  PROVE  Fresh'
<1>1. /\ Local(c) /\ ~crashed /\ KmTalk(c) /\ Len(cpu[c].sticks) \in Nat
      /\ kmToCpu = [d \in Cpu |-> kmToCpu[d]]
  BY Setting
<1>2. segments' = segments
  BY DEF CpuStep, connect_to_kernel_memory, receive_pid, receive_context,
         receive_segment_table, connect_memory_stick, execute_local, handler_mov_in,
         handler_mov_out, handler_copy_mem, read_memory, read_done, write_memory,
         write_done, handler_mutex, handler_mem, handler_io, handler_init_proc,
         handler_exit, Syscall, check_interrupt, update_segment_table, memVars, tableVars
<1>3. ASSUME NEW d \in Cpu \ {c} PROVE Current(d)'
  <2>1. cpu'[d] = cpu[d] /\ kmToCpu'[d] = kmToCpu[d] /\ ksToCpu'[d] = ksToCpu[d]
    BY <1>1 DEF Local, SameKm, SameFlags
  <2>2. Current(d)
    BY DEF Fresh
  <2> QED BY <1>2, <2>1, <2>2 DEF Current, Runs, Next_is, Settled
<1>4. Current(c)'
  <2>1. PICK p : p = cpu'[c].pid
    OBVIOUS
  <2>2. PICK mine : mine = filter_process_segments(segments, p)
    OBVIOUS
  <2> SUFFICES ASSUME p \in Pid, Runs(c, p)'
               PROVE  /\ Settled(c)' => cpu'[c].table = mine
                      /\ \A k \in DOMAIN kmToCpu'[c] :
                           kmToCpu'[c][k].op = "SEGMENT_TABLE" => kmToCpu'[c][k].table = mine
    BY <1>2, <2>1, <2>2 DEF Current
  <2>3. NoPid \notin Pid
    BY CycleAssumption DEF NoPid
  <2>4. CASE cpu'[c].stage = "context" /\ cpu[c].stage = "idle" /\ kmToCpu' = kmToCpu
    <3>1. Quiet(c)
      BY <1>1, <2>4 DEF KmTalk
    <3>2. \A k \in DOMAIN kmToCpu[c] : kmToCpu[c][k].op = "PACKET"
      BY <1>1, <3>1, QuietFacts
    <3> QED BY <2>4, <3>2 DEF Settled
  <2>5. CASE /\ cpu'[c].pid = cpu[c].pid
             /\ Runs(c, cpu[c].pid)' => Runs(c, cpu[c].pid)
             /\ kmToCpu' = kmToCpu \/ (kmToCpu[c] # <<>> /\ kmToCpu' = received(kmToCpu, c))
             /\ \/ ~Settled(c)'
                \/ cpu'[c].table = cpu[c].table /\ Settled(c)
                \/ /\ kmToCpu[c] # <<>> /\ Head(kmToCpu[c]).op = "SEGMENT_TABLE"
                   /\ cpu'[c].table = Head(kmToCpu[c]).table
                \/ ~Runs(c, cpu[c].pid)'
    <3>1. Runs(c, p) /\ cpu[c].pid = p
      BY <2>1, <2>5
    <3>2. /\ Settled(c) => cpu[c].table = mine
          /\ \A k \in DOMAIN kmToCpu[c] :
               kmToCpu[c][k].op = "SEGMENT_TABLE" => kmToCpu[c][k].table = mine
      BY <2>2, <3>1 DEF Fresh, Current
    <3>3. PICK ch : ch = kmToCpu[c]
      OBVIOUS
    <3>4. cpu[c].stage \in {"context", "table", "fetch", "access", "interrupt", "update"}
      BY <3>1 DEF Runs
    <3>5. IsSeq(ch)
      BY <1>1, <3>3, <3>4, AnswerIsSeq DEF KmTalk
    <3>6. ch # <<>> => ch[1] = Head(ch) /\ 1 \in DOMAIN ch
      BY <3>5, SeqTail, SeqFacts
    <3>7. Shrinks(c)
      <4>1. kmToCpu'[c] = ch \/ (ch # <<>> /\ kmToCpu'[c] = Tail(ch))
        BY <1>1, <2>5, <3>3 DEF received
      <4>2. ch # <<>> => \A k \in DOMAIN Tail(ch) : \E j \in DOMAIN ch : Tail(ch)[k] = ch[j]
        BY <3>5, FewerMessages
      <4>3. CASE kmToCpu'[c] = ch
        BY <3>3, <4>3 DEF Shrinks
      <4>4. CASE ch # <<>> /\ kmToCpu'[c] = Tail(ch)
        <5>1. PICK t : t = Tail(ch)
          OBVIOUS
        <5>2. \A k \in DOMAIN t : \E j \in DOMAIN ch : t[k] = ch[j]
          BY <4>2, <4>4, <5>1
        <5>3. kmToCpu'[c] = t
          BY <4>4, <5>1
        <5> QED BY <3>3, <5>2, <5>3 DEF Shrinks
      <4> QED BY <4>1, <4>3, <4>4
    <3>8. Settled(c)' => cpu'[c].table = mine
      BY <2>1, <2>5, <3>2, <3>3, <3>6
    <3> QED BY <3>2, <3>7, <3>8 DEF Shrinks
  <2> QED BY <2>1, <2>3, <2>4, <2>5, KeptCpu DEF Hands
<1> QED BY <1>3, <1>4 DEF Fresh

\* Steps that leave the CPUs and their channels alone, and the segments of the
\* processes that run.
LEMMA FreshElsewhere ==
  ASSUME Fresh, cpu' = cpu, kmToCpu' = kmToCpu,
         \A d \in Cpu : Runs(d, cpu[d].pid)' => Runs(d, cpu[d].pid),
         \A d \in Cpu : cpu[d].pid \in Pid /\ Runs(d, cpu[d].pid) =>
           filter_process_segments(segments', cpu[d].pid) =
             filter_process_segments(segments, cpu[d].pid)
  PROVE  Fresh'
<1> SUFFICES ASSUME NEW d \in Cpu PROVE Current(d)'
  BY DEF Fresh
<1>1. Current(d)
  BY DEF Fresh
<1> QED BY <1>1 DEF Current, Settled

\* The steps of Kernel Memory that take segments away or put them back.
LEMMA FreshTables ==
  ASSUME CycleInv, KmInv, Lists, Fresh,
         \/ \E p \in Pid : suspend_process(p) \/ resume_process(p)
         \/ handle_end_process
  PROVE  Fresh'
<1>1. UNCHANGED <<cpu, kmToCpu, ksToCpu>>
  BY DEF suspend_process, resume_process, handle_end_process, chanVars
<1>2. \A d \in Cpu : Runs(d, cpu[d].pid)' => Runs(d, cpu[d].pid)
  BY <1>1 DEF Runs, Next_is
<1>3. IsSeq(segments) /\ IsSeq(sticks) /\ \A p \in Pid : IsSeq(swapped[p])
  BY DEF Lists, KmInv, Arrays
<1>4. PICK q : /\ q \in Pid => status[q] # "EXEC"
               /\ q \in Pid
               /\ \/ segments' = remove_process_segments(segments, q)
                  \/ segments' = restored(q).segments
  <2>1. ASSUME handle_end_process
        PROVE  Head(ksToKm) \in Pid /\ status[Head(ksToKm)] = "EXIT"
    <3>1. IsSeq(ksToKm) /\ ksToKm # <<>>
          /\ \A i \in DOMAIN ksToKm : ksToKm[i] \in Pid /\ status[ksToKm[i]] = "EXIT"
      BY <2>1 DEF KmInv, Known, handle_end_process
    <3>2. Head(ksToKm) = ksToKm[1] /\ 1 \in DOMAIN ksToKm
      BY <3>1, SeqTail, SeqFacts
    <3> QED BY <3>1, <3>2
  <2> QED BY <2>1 DEF suspend_process, resume_process, handle_end_process
<1>5. ASSUME NEW p, p # q
      PROVE  filter_process_segments(segments', p) = filter_process_segments(segments, p)
  <2>1. CASE segments' = remove_process_segments(segments, q)
    BY <1>3, <1>5, <2>1, FilterRemoved
  <2>2. CASE segments' = restored(q).segments
    <3>1. Restoring(restored(q), q)
      BY <1>3, <1>4, RestoredFacts
    <3> QED BY <1>5, <2>2, <3>1 DEF Restoring
  <2> QED BY <1>4, <2>1, <2>2
<1>6. ASSUME NEW d \in Cpu, cpu[d].pid \in Pid, Runs(d, cpu[d].pid)
      PROVE  cpu[d].pid # q
  <2>1. status[cpu[d].pid] = "EXEC"
    BY <1>6, CycleOneExecutor DEF OneExecutor
  <2> QED BY <1>4, <1>6, <2>1
<1> QED BY <1>1, <1>2, <1>5, <1>6, FreshElsewhere

\* A scheduler's thread changes the segments of its own process at most.
LEMMA FreshKs ==
  ASSUME CycleInv, KmInv, Lists, Fresh, ~crashed, NEW c \in Cpu, KsStep(c)
  PROVE  Fresh'
<1>1. cpu' = cpu /\ kmToCpu' = kmToCpu
  BY DEF KsStep, manage_request_process, handle_cycle_cpu_ok, handle_segmentation_fault,
       handle_syscall_mutex, handle_syscall_memory_allocation, handle_syscall_memory_free,
       handle_syscall_io, handle_syscall_start_process, handle_syscall_exit,
       handle_invalid_syscall, Handles, chanVars
<1>2. ASSUME NEW d \in Cpu, Runs(d, cpu[d].pid)' PROVE Runs(d, cpu[d].pid)
  <2>1. CASE cpu[d].stage # "interrupt"
    BY <1>1, <1>2, <2>1 DEF Runs
  <2>2. CASE cpu[d].stage = "interrupt"
    <3>1. CASE d = c
      <4>1. CASE cpuToKs[c] # <<>>
        BY <2>2, <3>1, <4>1 DEF Runs, Next_is, CycleInv, Conversation, Talk, Working
      <4>2. CASE cpuToKs[c] = <<>>
        <5>1. manage_request_process(c)
          BY <2>2, <3>1, <4>2 DEF KsStep, handle_cycle_cpu_ok, handle_segmentation_fault,
            handle_syscall_mutex, handle_syscall_memory_allocation, handle_syscall_memory_free,
            handle_syscall_io, handle_syscall_start_process, handle_syscall_exit,
            handle_invalid_syscall, Handles
        <5>2. Answered(c) /\ ks[c].stage = "request"
          BY <2>2, <3>1, <4>2, <5>1 DEF CycleInv, Conversation, Talk, manage_request_process
        <5>3. PICK r \in Reasons : ksToCpu[c] = <<INTERRUPT(r)>>
          <6>1. \A q : [stage |-> "receive", pid |-> q].stage # "request"
            OBVIOUS
          <6> QED BY <5>2, <6>1 DEF Answered
        <5>4. PICK q : ksToCpu' = send(ksToCpu, c, RESUME_PROCESS(q))
          BY <5>1 DEF manage_request_process
        <5>5. ksToCpu'[c] = <<INTERRUPT(r), RESUME_PROCESS(q)>>
          BY <5>3, <5>4, TwoMessages DEF send, CycleInv, Shapes
        <5>6. ksToCpu'[c] # <<>> /\ Head(ksToCpu'[c]) = INTERRUPT(r)
          BY <5>5, TwoMessages
        <5>7. Next_is(ksToCpu, c, "INTERRUPT")'
          BY <5>6 DEF Next_is, INTERRUPT
        <5> QED BY <1>1, <1>2, <2>2, <3>1, <5>7 DEF Runs
      <4> QED BY <4>1, <4>2
    <3>2. CASE d # c
      <4>1. ksToCpu'[d] = ksToCpu[d]
        <5>1. ksToCpu = [e \in Cpu |-> ksToCpu[e]]
          BY DEF CycleInv, Shapes
        <5>2. ksToCpu' = ksToCpu \/ \E x : ksToCpu' = [ksToCpu EXCEPT ![c] = x]
          BY DEF KsStep, manage_request_process, handle_cycle_cpu_ok, handle_segmentation_fault,
            handle_syscall_mutex, handle_syscall_memory_allocation, handle_syscall_memory_free,
            handle_syscall_io, handle_syscall_start_process, handle_syscall_exit,
            handle_invalid_syscall, go_on, exit, preempt, send, chanVars
        <5> QED BY <3>2, <5>1, <5>2
      <4> QED BY <1>1, <1>2, <4>1 DEF Runs, Next_is
    <3> QED BY <3>1, <3>2
  <2> QED BY <2>1, <2>2
<1>3. CASE segments' = segments
  BY <1>1, <1>2, <1>3, FreshElsewhere
<1>4. CASE segments' # segments
  <2>1. handle_syscall_memory_allocation(c) \/ handle_syscall_memory_free(c)
    BY <1>4 DEF KsStep, manage_request_process, handle_cycle_cpu_ok,
           handle_segmentation_fault, handle_syscall_mutex, handle_syscall_io,
           handle_syscall_start_process, handle_syscall_exit, handle_invalid_syscall,
           memVars, tableVars
  <2>2. PICK p : p = cpu[c].pid
    OBVIOUS
  <2>3. PICK m : m = Head(cpuToKs[c])
    OBVIOUS
  <2>4. Handles(c, MemOps)
    BY <2>1 DEF handle_syscall_memory_allocation, handle_syscall_memory_free, Handles, MemOps
  <2>5. cpu[c].stage = "interrupt" /\ cpuToKs[c] # <<>> /\ m.op \in MemOps
    BY <2>3, <2>4, Reported DEF Handles
  <2>6. m.pid = p /\ cpu[c].changed
    BY <2>2, <2>3, <2>5 DEF KmInv, Flagged
  <2>7. IsSeq(segments)
    BY DEF Lists
  <2>8. ASSUME NEW q, q # p
        PROVE  filter_process_segments(segments', q) = filter_process_segments(segments, q)
    <3>1. CASE handle_syscall_memory_allocation(c)
      <4>1. PICK hs, id, size : segments' = place(hs, segments, p, id, size).segments
        BY <1>4, <2>3, <2>6, <3>1 DEF handle_syscall_memory_allocation
      <4>2. PICK x : x.pid = p /\ segments' = Append(segments, x)
        <5>1. /\ place(hs, segments, p, id, size).segments =
                   Append(segments, PlacedSegment(hs, p, id, size))
              /\ PlacedSegment(hs, p, id, size).pid = p
          BY PlacedSegments
        <5> QED BY <4>1, <5>1, Zenon
      <4> QED BY <2>7, <2>8, <4>2, FilterAppend
    <3>2. CASE handle_syscall_memory_free(c)
      <4> DEFINE I == {k \in 1 .. Len(segments) : segments[k].pid = p /\ segments[k].id = m.segment_id}
      <4>1. segments' = ListRemove(segments, IF I # {} THEN Min(I) ELSE 0)
        BY <2>3, <2>6, <3>2 DEF handle_syscall_memory_free, SelectInSeq
      <4>2. PICK i : i = IF I # {} THEN Min(I) ELSE 0
        OBVIOUS
      <4>3. i \in DOMAIN segments => segments[i].pid = p
        <5>1. I \in SUBSET Nat /\ DOMAIN segments = 1 .. Len(segments)
          BY <2>7, SeqFacts
        <5>2. I # {} => Min(I) \in I
          <6> HIDE DEF I
          <6> QED BY <5>1, MinFacts
        <5> QED BY <4>2, <5>1, <5>2
      <4>4. segments' = ListRemove(segments, i)
        BY <4>1, <4>2
      <4> QED BY <2>7, <2>8, <4>3, <4>4, FilterListRemove
    <3> QED BY <2>1, <3>1, <3>2
  <2>9. ASSUME NEW d \in Cpu \ {c}, cpu[d].pid \in Pid, Runs(d, cpu[d].pid)
        PROVE  cpu[d].pid # p
    <3>1. Runs(c, p) /\ p \in Pid
      <4>1. cpu[c].pid \in Pid /\ ksToCpu[c] = <<>>
        BY <2>4, ReportedPid
      <4> QED BY <2>2, <2>5, <4>1 DEF Runs, Next_is
    <3> QED BY <2>9, <3>1, CycleOneExecutor DEF OneExecutor
  <2>10. ASSUME NEW d \in Cpu \ {c} PROVE Current(d)'
    <3>1. Current(d)
      BY DEF Fresh
    <3> QED BY <1>1, <1>2, <2>8, <2>9, <3>1 DEF Current, Settled
  <2>11. Current(c)'
    <3>1. Quiet(c) /\ Len(cpu[c].sticks) \in Nat
      BY <2>5, Sizes DEF KmTalk
    <3>2. \A k \in DOMAIN kmToCpu[c] : kmToCpu[c][k].op = "PACKET"
      BY <3>1, QuietFacts
    <3> QED BY <1>1, <2>5, <2>6, <3>2 DEF Current, Settled
  <2> QED BY <2>10, <2>11 DEF Fresh
<1> QED BY <1>3, <1>4

\* A new stick is announced, and nothing else.
LEMMA FreshStick ==
  ASSUME CycleInv, KmInv, Parked, Fresh, ~crashed, add_stick_connection
  PROVE  Fresh'
<1> SUFFICES ASSUME NEW d \in Cpu PROVE Current(d)'
  BY DEF Fresh
<1>1. UNCHANGED <<cpu, ksToCpu, segments>>
  BY DEF add_stick_connection, tableVars
<1>2. Current(d) /\ KmTalk(d) /\ kmToCpu = [e \in Cpu |-> kmToCpu[e]] /\ cpu[d].stage \in Stages
  BY DEF Fresh, KmInv, Arrays, CycleInv, Shapes
<1>3. PICK n : n = Len(sticks) + 1
  OBVIOUS
<1>4. kmToCpu'[d] = kmToCpu[d] \/ kmToCpu'[d] = Append(kmToCpu[d], PACKET(n))
  BY <1>3 DEF add_stick_connection, send_cpu_connection
<1>5. CASE cpu[d].pid \in Pid
  <2>1. cpu[d].stage \in {"context", "table", "fetch", "access", "interrupt", "update"}
    BY <1>2, <1>5, CycleAssumption DEF Parked, NoPid, Stages
  <2>2. IsSeq(kmToCpu[d])
    BY <1>2, <2>1, AnswerIsSeq DEF KmTalk
  <2>3. PICK ch, m : ch = kmToCpu[d] /\ m = PACKET(n)
    OBVIOUS
  <2>7. m.op = "PACKET"
    BY <2>3 DEF PACKET
  <2>4. /\ IsSeq(Append(ch, m)) /\ Len(Append(ch, m)) = Len(ch) + 1
        /\ \A i \in 1 .. Len(ch) : Append(ch, m)[i] = ch[i]
        /\ Append(ch, m)[Len(ch) + 1] = m
    BY <2>2, <2>3, SeqAppend
  <2>5. Len(ch) \in Nat /\ DOMAIN ch = 1 .. Len(ch) /\ DOMAIN Append(ch, m) = 1 .. Len(ch) + 1
    BY <2>2, <2>3, <2>4, SeqFacts
  <2>6. ASSUME NEW k \in DOMAIN kmToCpu'[d], kmToCpu'[d][k].op # "PACKET"
        PROVE  k \in DOMAIN kmToCpu[d] /\ kmToCpu'[d][k] = kmToCpu[d][k]
    BY <1>4, <2>3, <2>7, <2>4, <2>5, <2>6
  <2> QED BY <1>1, <1>2, <2>6 DEF Current, Runs, Next_is, Settled
<1>6. CASE cpu[d].pid \notin Pid
  BY <1>1, <1>6 DEF Current
<1> QED BY <1>5, <1>6

\* Kernel Memory's listeners: a table is sent as it is.
LEMMA FreshKm ==
  ASSUME CycleInv, KmInv, Parked, Fresh, NEW c \in Cpu, KmStep(c)
  PROVE  Fresh'
<1>1. PICK op : Serves(c, op)
  BY DEF KmStep, handle_request_context, handle_next_instruction,
           handle_updated_context, handle_updated_segment_table, handle_stick_disconnected
<1>2. UNCHANGED <<cpu, ksToCpu, segments>>
  BY <1>1 DEF Serves, memVars, tableVars
<1>3. /\ ~crashed /\ KmTalk(c) /\ cpuToKm[c] # <<>> /\ Len(cpu[c].sticks) \in Nat
      /\ Head(cpuToKm[c]) = cpuToKm[c][1] /\ kmToCpu = [d \in Cpu |-> kmToCpu[d]]
      /\ Len(sticks) \in Nat /\ sticks' = sticks /\ cpu[c].stage \in Stages
  BY <1>1, Served DEF KmInv, Arrays, CycleInv, Shapes
<1>4. \A d \in Cpu : Runs(d, cpu[d].pid)' => Runs(d, cpu[d].pid)
  BY <1>2 DEF Runs, Next_is
<1>5. CASE kmToCpu' = kmToCpu
  BY <1>2, <1>4, <1>5, FreshElsewhere
<1>6. CASE kmToCpu' # kmToCpu
  <2>1. PICK p : p = Head(cpuToKm[c]).pid
    OBVIOUS
  <2>2. \/ /\ Serves(c, "REQUEST_CONTEXT")
           /\ kmToCpu' = [kmToCpu EXCEPT ![c] = @ \o <<SEND_CONTEXT(p), SEGMENT_TABLE(p)>>]
        \/ /\ Serves(c, "UPDATED_SEGMENT_TABLE")
           /\ kmToCpu' = send(kmToCpu, c, SEGMENT_TABLE(p))
        \/ /\ Serves(c, "NEXT_INSTRUCTION")
           /\ \E i : kmToCpu' = send(kmToCpu, c, SEND_INSTRUCTION(i))
    BY <1>6, <2>1 DEF KmStep, handle_request_context, handle_next_instruction,
           handle_updated_context, handle_updated_segment_table, handle_stick_disconnected
  <2>3. ASSUME NEW d \in Cpu \ {c} PROVE Current(d)'
    <3>1. kmToCpu'[d] = kmToCpu[d] /\ Current(d)
      BY <1>3, <2>2 DEF send, Fresh
    <3> QED BY <1>2, <3>1 DEF Current, Runs, Next_is, Settled
  <2>4. CASE cpu[c].pid \notin Pid
    BY <1>2, <2>3, <2>4 DEF Current, Fresh
  <2>5. CASE cpu[c].pid \in Pid
    <3>1. cpu[c].stage \in {"context", "table", "fetch", "access", "interrupt", "update"}
      BY <1>3, <2>5, CycleAssumption DEF Parked, NoPid, Stages
    <3>2. Quiet(c) /\ (Next_is(cpuToKm, c, "REQUEST_CONTEXT") \/
                       Next_is(cpuToKm, c, "UPDATED_SEGMENT_TABLE") => p = cpu[c].pid)
      BY <1>3, <2>1, <3>1, RequestStage, RequestOps DEF Next_is
    <3>3. IsSeq(kmToCpu[c]) /\ \A k \in DOMAIN kmToCpu[c] : kmToCpu[c][k].op = "PACKET"
      BY <1>3, <3>2, QuietFacts
    <3>4. PICK mine : mine = filter_process_segments(segments, cpu[c].pid)
      OBVIOUS
    <3>5. \A k \in DOMAIN kmToCpu'[c] :
            kmToCpu'[c][k].op = "SEGMENT_TABLE" => kmToCpu'[c][k].table = mine
      <4>1. PICK x, y : x = SEND_CONTEXT(p) /\ y = SEGMENT_TABLE(p)
        OBVIOUS
      <4>2. x.op = "SEND_CONTEXT" /\ y.op = "SEGMENT_TABLE"
            /\ y.table = filter_process_segments(segments, p)
        BY <4>1 DEF SEND_CONTEXT, SEGMENT_TABLE
      <4>3. CASE /\ Serves(c, "REQUEST_CONTEXT")
                 /\ kmToCpu' = [kmToCpu EXCEPT ![c] = @ \o <<x, y>>]
        <5>1. p = cpu[c].pid
          BY <3>2, <4>3 DEF Serves
        <5>2. kmToCpu'[c] = kmToCpu[c] \o <<x, y>>
          BY <1>3, <4>3
        <5>3. \A k \in DOMAIN kmToCpu'[c] :
                kmToCpu'[c][k].op = "SEGMENT_TABLE" => kmToCpu'[c][k] = y
          BY <1>2, <1>3, <3>2, <4>2, <5>2, Answered2
        <5> QED BY <3>4, <4>2, <5>1, <5>3
      <4>4. ASSUME NEW z, kmToCpu' = send(kmToCpu, c, z)
            PROVE  \A k \in DOMAIN kmToCpu'[c] :
                     kmToCpu'[c][k].op = "SEGMENT_TABLE" => kmToCpu'[c][k] = z
        <5>1. PICK ch : ch = kmToCpu[c]
          OBVIOUS
        <5>2. kmToCpu'[c] = Append(ch, z)
          BY <1>3, <4>4, <5>1 DEF send
        <5>3. /\ IsSeq(Append(ch, z)) /\ Len(Append(ch, z)) = Len(ch) + 1
              /\ \A i \in 1 .. Len(ch) : Append(ch, z)[i] = ch[i]
              /\ Append(ch, z)[Len(ch) + 1] = z
          BY <3>3, <5>1, SeqAppend
        <5>4. Len(ch) \in Nat /\ DOMAIN ch = 1 .. Len(ch) /\ DOMAIN Append(ch, z) = 1 .. Len(ch) + 1
          BY <3>3, <5>1, <5>3, SeqFacts
        <5> QED BY <3>3, <5>1, <5>2, <5>3, <5>4
      <4>5. CASE /\ Serves(c, "UPDATED_SEGMENT_TABLE") /\ kmToCpu' = send(kmToCpu, c, y)
        <5>1. p = cpu[c].pid
          BY <3>2, <4>5 DEF Serves
        <5> QED BY <3>4, <4>2, <4>4, <4>5, <5>1
      <4>6. CASE \E i : kmToCpu' = send(kmToCpu, c, SEND_INSTRUCTION(i))
        <5>1. PICK i : kmToCpu' = send(kmToCpu, c, SEND_INSTRUCTION(i))
          BY <4>6
        <5>2. PICK z : z = SEND_INSTRUCTION(i)
          OBVIOUS
        <5>3. z.op = "SEND_INSTRUCTION"
          BY <5>2 DEF SEND_INSTRUCTION
        <5> QED BY <4>4, <5>1, <5>2, <5>3
      <4> QED BY <2>2, <4>1, <4>3, <4>5, <4>6
    <3>6. Current(c)'
      <4>1. Current(c)
        BY DEF Fresh
      <4> QED BY <1>2, <3>4, <3>5, <4>1 DEF Current, Runs, Next_is, Settled
    <3> QED BY <2>3, <3>6 DEF Fresh
  <2> QED BY <2>4, <2>5
<1> QED BY <1>5, <1>6

LEMMA FreshNext ==
  CycleInv /\ KmInv /\ Lists /\ Parked /\ Fresh /\ [Next]_vars => Fresh'
<1> SUFFICES ASSUME CycleInv, KmInv, Lists, Parked, Fresh, [Next]_vars PROVE Fresh'
  OBVIOUS
<1>1. CASE \E c \in Cpu : CpuStep(c) \/ KmStep(c)
  BY <1>1, FreshCpu, FreshKm
<1>2. CASE \E c \in Cpu : KsStep(c)
  <2>1. ~crashed
    BY <1>2 DEF KsStep, manage_request_process, handle_cycle_cpu_ok, handle_segmentation_fault,
       handle_syscall_mutex, handle_syscall_memory_allocation, handle_syscall_memory_free,
       handle_syscall_io, handle_syscall_start_process, handle_syscall_exit,
       handle_invalid_syscall, Handles, Up
  <2> QED BY <1>2, <2>1, FreshKs
<1>3. CASE add_stick_connection
  BY <1>3, FreshStick DEF add_stick_connection, Up
<1>4. CASE (\E p \in Pid : suspend_process(p) \/ resume_process(p)) \/ handle_end_process
  BY <1>4, FreshTables
<1>5. ASSUME \/ add_total_memory \/ watch_sticks \/ UNCHANGED vars
             \/ \E k \in DOMAIN sticks : stick_disconnects(k)
             \/ \E p \in Pid : transition_unblock(p)
      PROVE  Fresh'
  <2>1. UNCHANGED <<cpu, kmToCpu, ksToCpu, segments>>
    BY <1>5 DEF add_total_memory, watch_sticks, stick_disconnects, transition_unblock, vars,
         memVars, tableVars, chanVars
  <2> QED BY <2>1, FreshElsewhere DEF Runs, Next_is
<1> QED BY <1>1, <1>2, <1>3, <1>4, <1>5 DEF Next, System

LEMMA FreshInit == Init => Fresh
<1> SUFFICES ASSUME Init, NEW c \in Cpu PROVE Current(c)
  BY DEF Fresh
<1>1. cpu[c].pid = NoPid
  BY DEF Init
<1> QED BY <1>1, CycleAssumption DEF Current, NoPid

LEMMA FreshAlways == Spec /\ []CopiesValid => [](Parked /\ Fresh)
<1> QED BY KmAlways, ParkedInit, ParkedNext, FreshInit, FreshNext, PTL DEF Spec

-----------------------------------------------------------------------------
\* A process goes on with the registers its last instruction left (cpu.c
\* update_context, cpu_listener.c handle_updated_context): for any number of
\* CPUs, processes and preemptions, although Kernel Memory never confirms that
\* it has them, except for a process whose context was asked for too early.
THEOREM ContextExactHolds == Spec /\ []CopiesValid => []ContextExact
<1> QED BY KmAlways, StrayAlways, KmContextExact, PTL

\* While Kernel Memory is up, every CPU that waits for it has its request or
\* the right answer on the way (kernel_memory_protocol.c listen_kernel_memory):
\* also over sticks that come in between, and processes that end meanwhile.
THEOREM AlwaysAnsweredHolds == Spec /\ []CopiesValid => [](KmFindsProcess => AlwaysAnswered)
<1>1. CycleInv /\ KmInv => (KmFindsProcess => AlwaysAnswered)
  BY KmAlwaysAnswered DEF KmFindsProcess
<1> QED BY <1>1, KmAlways, PTL

\* Kernel Memory knows every process whose instruction it is asked for, without
\* checking (cpu_listener.c handle_next_instruction): as long as the scripts
\* lead to their ends and no stick is lost.
THEOREM KmFindsProcessHolds ==
  Spec /\ []CopiesValid /\ []ScriptsEnd /\ [](lost = {}) => []KmFindsProcess
<1>1. Init => ~crashed
  BY DEF Init
<1>2. Spec /\ []CopiesValid /\ []ScriptsEnd /\ [](lost = {}) => []~crashed
  BY <1>1, KmAlways, KmStaysUp, PTL DEF Spec
<1>3. ~crashed => KmFindsProcess
  BY DEF KmFindsProcess
<1> QED BY <1>2, <1>3, PTL

\* A CPU translates addresses by the segments Kernel Memory has for its process
\* now (cpu.c update_segment_table, cpu_listener.c
\* handle_updated_segment_table): whatever the other processes allocate and
\* release meanwhile, however often the process is suspended, moved and resumed
\* on another CPU, and although Kernel Memory never tells a CPU of a change.
THEOREM TableFreshHolds == Spec /\ []CopiesValid => []TableFresh
<1>1. KmInv /\ Fresh => TableFresh
  <2> SUFFICES ASSUME KmInv, Fresh, NEW c \in Cpu, cpu[c].stage \in {"fetch", "access"}
               PROVE  cpu[c].table = filter_process_segments(segments, cpu[c].pid)
    BY DEF TableFresh
  <2>1. Current(c) /\ cpu[c].pid \in Pid
    BY DEF Fresh, KmInv, Flagged
  <2> QED BY <2>1 DEF Current, Runs, Settled
<1> QED BY <1>1, KmAlways, FreshAlways, PTL
===============================================================================
