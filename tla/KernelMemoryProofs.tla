--------------------------- MODULE KernelMemoryProofs ---------------------------
(***************************************************************************)
(* Kernel Memory keeps main memory partitioned into holes and segments for *)
(* every number of processes, segments and sticks and every size, and no   *)
(* segment is lost between memory and swap, nor touched for another        *)
(* process; what a process writes it reads back: KMTypeOK, Tiling,         *)
(* HolesMerged, HoleSelection, OwnedIsSomewhere, BlocksInOrder,            *)
(* OthersUntouched, TableIsOwned and ContentsKept of KernelMemory.         *)
(*                                                                         *)
(* MemoryInv is inductive by itself.  StoreInv adds what the swap needs,   *)
(* PlaceInv where the segments of each process are, ContentsInv where each *)
(* byte written is.                                                        *)
(***************************************************************************)
EXTENDS KernelMemory, MainMemoryProofs, FiniteSetTheorems

-----------------------------------------------------------------------------
(* The partition, on given tables.                                         *)

\* Holes, segments and the segment in hand, of kept bytes, tile the memory; the
\* lists name no area twice; no two holes touch; the sizes add up to the total.
Partition(hs, segs, hand, kept, total) ==
  /\ hs \in Seq(Hole) /\ segs \in Seq(Segment) /\ total \in Nat
  /\ hand \subseteq Segment /\ kept \in Nat
  /\ IsInjective(hs) /\ IsInjective(segs) /\ hand \cap ToSet(segs) = {}
  /\ Tiles(ToSet(hs) \cup (ToSet(segs) \cup hand), total)
  /\ NoneTouch(ToSet(hs))
  /\ TotalSize(hs) + TotalSize(segs) + kept = total

LEMMA SegmentFacts ==
  /\ \A x \in Segment : /\ x.pid \in Pid /\ x.id \in SegId /\ x.base \in Nat
                        /\ x.size \in Sizes /\ x.size \in Nat \ {0}
  /\ \A x \in Hole : x \notin Segment
  /\ NoSegment \notin Segment /\ NoHole \notin Hole
<1>1. \A x \in Segment : /\ x.pid \in Pid /\ x.id \in SegId /\ x.base \in Nat
                         /\ x.size \in Sizes /\ x.size \in Nat \ {0}
  BY KernelMemoryAssumption DEF Segment
<1>2. \A x \in Hole : x \notin Segment
  BY DEF Hole, Segment
<1>3. NoSegment \notin Segment /\ NoHole \notin Hole
  BY DEF Hole, Segment, NoSegment, NoHole
<1> QED BY <1>1, <1>2, <1>3

LEMMA SegmentsSized ==
  ASSUME NEW segs \in Seq(Segment)
  PROVE  /\ Sized(segs) /\ Len(segs) \in Nat /\ DOMAIN segs = 1 .. Len(segs)
         /\ \A i \in 1 .. Len(segs) : segs[i] \in Segment
<1>1. Len(segs) \in Nat /\ DOMAIN segs = 1 .. Len(segs)
  OBVIOUS
<1>2. \A i \in 1 .. Len(segs) : segs[i] \in Segment
  BY ElementOfSeq
<1> QED BY <1>1, <1>2, SegmentFacts DEF Sized

LEMMA PartitionFacts ==
  ASSUME NEW hs, NEW segs, NEW hand, NEW kept, NEW total, Partition(hs, segs, hand, kept, total)
  PROVE  /\ ToSet(hs) \subseteq Hole /\ ToSet(segs) \subseteq Segment
         /\ Separate(ToSet(hs)) /\ \A h \in ToSet(hs) : Area(h, total)
         /\ \A x \in ToSet(segs) \cup hand : Area(x, total)
         /\ \A h \in ToSet(hs) : \A x \in ToSet(segs) \cup hand : h # x /\ Apart(h, x)
         /\ TotalSize(hs) \in Int /\ TotalSize(segs) \in Int
<1>1. ToSet(hs) \subseteq Hole /\ ToSet(segs) \subseteq Segment
  BY DEF Partition, ToSet
<1>2. Separate(ToSet(hs)) /\ \A h \in ToSet(hs) : Area(h, total)
  BY DEF Partition, Tiles, Separate
<1>3. \A x \in ToSet(segs) \cup hand : Area(x, total)
  BY DEF Partition, Tiles
<1>4. \A h \in ToSet(hs) : \A x \in ToSet(segs) \cup hand : h # x /\ Apart(h, x)
  <2> TAKE h \in ToSet(hs)
  <2> TAKE x \in ToSet(segs) \cup hand
  <2>1. h # x
    BY <1>1, SegmentFacts DEF Partition
  <2> QED BY <2>1 DEF Partition, Tiles, Separate
<1>5. TotalSize(hs) \in Int
  BY HolesSized, SizesFacts DEF Partition
<1>6. TotalSize(segs) \in Int
  BY SegmentsSized, SizesFacts DEF Partition
<1> QED BY <1>1, <1>2, <1>3, <1>4, <1>5, <1>6

\* What the hole search returns.
LEMMA Chosen ==
  ASSUME NEW hs \in Seq(Hole), NEW size \in Nat, NEW chosen,
         chosen = hole_selection_algorithm(size, hs)
  PROVE  /\ chosen # NoHole => \E i \in 1 .. Len(hs) : hs[i] = chosen /\ size <= hs[i].size
         /\ chosen = NoHole => \A i \in 1 .. Len(hs) : hs[i].size < size
<1>1. Best(hs, size, Len(hs), chosen)
  BY Selection, HolesSized
<1>2. \A i \in 1 .. Len(hs) : hs[i] # NoHole /\ hs[i].size \in Nat
  BY HolesSized, SegmentFacts
<1>3. CASE chosen # NoHole
  BY <1>1, <1>2, <1>3 DEF Best
<1>4. CASE chosen = NoHole
  BY <1>1, <1>2, <1>4 DEF Best
<1> QED BY <1>3, <1>4

-----------------------------------------------------------------------------
(* The operations keep the partition.                                      *)

LEMMA Placed ==
  ASSUME NEW hs, NEW segs, NEW hand, NEW kept, NEW total, Partition(hs, segs, hand, kept, total),
         NEW size \in Sizes, NEW chosen, chosen = hole_selection_algorithm(size, hs),
         chosen # NoHole, NEW x \in Segment, x.base = chosen.base, x.size = size
  PROVE  Partition(update_hole_table(hs, chosen, size), Append(segs, x), hand, kept, total)
<1>0. size \in Nat \ {0} /\ hs \in Seq(Hole) /\ segs \in Seq(Segment) /\ total \in Nat /\ kept \in Nat
  BY KernelMemoryAssumption DEF Partition
<1>1. PICK i \in 1 .. Len(hs) : hs[i] = chosen /\ size <= hs[i].size
  BY <1>0, Chosen
<1> DEFINE r == update_hole_table(hs, chosen, size)
           t == Append(segs, x)
           O == ToSet(segs) \cup hand
<1>2. IsInjective(hs) /\ Separate(ToSet(hs)) /\ chosen \in ToSet(hs)
  <2>1. chosen \in ToSet(hs)
    BY <1>0, <1>1, HolesSized DEF ToSet
  <2> QED BY <2>1, PartitionFacts DEF Partition
<1>3. /\ r \in Seq(Hole) /\ IsInjective(r)
      /\ ToSet(r) = (ToSet(hs) \ {chosen}) \cup Rest(chosen, size)
      /\ TotalSize(r) = TotalSize(hs) - size
  BY <1>0, <1>1, <1>2, Taken
<1> HIDE DEF r
<1>4. x \notin O
  <2> SUFFICES ASSUME x \in O PROVE FALSE
    OBVIOUS
  <2>1. Apart(chosen, x)
    BY <1>2, PartitionFacts
  <2>2. PICK b \in Nat : b = chosen.base
    BY SegmentFacts
  <2>3. PICK c \in Nat : c = chosen.size /\ size <= c
    BY <1>0, <1>1, HolesSized
  <2>4. b + c <= b \/ b + size <= b
    BY <2>1, <2>2, <2>3 DEF Apart
  <2> QED BY <1>0, <2>3, <2>4
<1>5. /\ t \in Seq(Segment) /\ ToSet(t) = ToSet(segs) \cup {x} /\ IsInjective(t)
      /\ TotalSize(t) = TotalSize(segs) + size
  BY <1>0, <1>4, SegmentsSized, Appended DEF Partition
<1> HIDE DEF t
<1>6. Tiles(ToSet(r) \cup (ToSet(t) \cup hand), total)
  <2>1. Tiles(((ToSet(hs) \cup O) \ {chosen}) \cup (Rest(chosen, size) \cup {x}), total)
    <3>1. Tiles(ToSet(hs) \cup O, total) /\ chosen \in ToSet(hs) \cup O /\ size <= chosen.size
      BY <1>1, <1>2 DEF Partition
    <3> HIDE DEF O
    <3> QED BY <1>0, <3>1, TilesTaken
  <2>2. chosen \notin O
    BY <1>2, PartitionFacts
  <2>3. ((ToSet(hs) \cup O) \ {chosen}) \cup (Rest(chosen, size) \cup {x})
          = ToSet(r) \cup (ToSet(t) \cup hand)
    BY <1>3, <1>5, <2>2
  <2> QED BY <2>1, <2>3
<1>7. NoneTouch(ToSet(r))
  <2>1. ToSet(hs) \in SUBSET Hole /\ NoneTouch(ToSet(hs)) /\ size <= chosen.size
    BY <1>1, PartitionFacts DEF Partition
  <2>2. NoneTouch((ToSet(hs) \ {chosen}) \cup Rest(chosen, size))
    BY <1>0, <1>2, <2>1, TouchTaken
  <2> QED BY <1>3, <2>2
<1>8. TotalSize(r) + TotalSize(t) + kept = total
  <2>1. PICK p \in Int : p = TotalSize(hs)
    BY PartitionFacts
  <2>2. PICK q \in Int : q = TotalSize(segs)
    BY PartitionFacts
  <2>3. p + q + kept = total
    BY <2>1, <2>2 DEF Partition
  <2>4. (p - size) + (q + size) + kept = total
    BY <1>0, <2>3
  <2> QED BY <1>3, <1>5, <2>1, <2>2, <2>4
<1>9. hand \subseteq Segment /\ hand \cap ToSet(t) = {}
  BY <1>4, <1>5 DEF Partition
<1> QED BY <1>0, <1>3, <1>5, <1>6, <1>7, <1>8, <1>9 DEF Partition, r, t

LEMMA Extended ==
  ASSUME NEW hs, NEW segs, NEW hand, NEW kept, NEW total, Partition(hs, segs, hand, kept, total),
         NEW size \in Nat \ {0}
  PROVE  Partition(grow_holes(hs, total, size), segs, hand, kept, total + size)
<1> DEFINE r == grow_holes(hs, total, size)
           O == ToSet(segs) \cup hand
           new == [base |-> total, size |-> size]
<1>0. hs \in Seq(Hole) /\ segs \in Seq(Segment) /\ total \in Nat /\ kept \in Nat /\ IsInjective(hs)
  BY DEF Partition
<1>1. /\ ToSet(hs) \subseteq Hole /\ Separate(ToSet(hs)) /\ NoneTouch(ToSet(hs))
      /\ \A h \in ToSet(hs) : Area(h, total)
      /\ Tiles(ToSet(hs) \cup O, total)
  BY PartitionFacts DEF Partition
<1>2. /\ r \in Seq(Hole) /\ IsInjective(r) /\ TotalSize(r) = TotalSize(hs) + size
      /\ \/ /\ ToSet(r) = ToSet(hs) \cup {new}
            /\ \A h \in ToSet(hs) : h.base + h.size # total
         \/ \E h \in ToSet(hs) :
              /\ h.base + h.size = total
              /\ ToSet(r) = (ToSet(hs) \ {h}) \cup {[base |-> h.base, size |-> h.size + size]}
  BY <1>0, <1>1, Grown
<1> HIDE DEF r
<1>3. new.base = total /\ new.size = size /\ new \in Hole
  BY <1>0 DEF Hole
<1>4. Tiles((ToSet(hs) \cup O) \cup {new}, total + size)
  <2> HIDE DEF O, new
  <2> QED BY <1>0, <1>1, <1>3, TilesGrown
<1>5. Tiles(ToSet(r) \cup O, total + size) /\ NoneTouch(ToSet(r))
  <2>1. CASE /\ ToSet(r) = ToSet(hs) \cup {new}
             /\ \A h \in ToSet(hs) : h.base + h.size # total
    <3>1. (ToSet(hs) \cup O) \cup {new} = ToSet(r) \cup O
      BY <2>1
    <3>2. NoneTouch(ToSet(hs) \cup {new})
      BY <1>0, <1>1, <2>1, TouchGrown
    <3> QED BY <1>4, <2>1, <3>1, <3>2
  <2>2. ASSUME NEW h \in ToSet(hs), h.base + h.size = total,
               ToSet(r) = (ToSet(hs) \ {h}) \cup {[base |-> h.base, size |-> h.size + size]}
        PROVE  Tiles(ToSet(r) \cup O, total + size) /\ NoneTouch(ToSet(r))
    <3> DEFINE y == [base |-> h.base, size |-> h.size + size]
               X == (ToSet(hs) \cup O) \cup {new}
    <3>1. NoneTouch((ToSet(hs) \ {h}) \cup {y})
      BY <1>0, <1>1, <2>2, TouchGrown
    <3>2. h \in X /\ new \in X /\ h.base + h.size = new.base
      BY <1>3, <2>2
    <3>3. y.base = h.base /\ y.size = h.size + new.size
      BY <1>3
    <3>4. total + size \in Nat
      BY <1>0
    <3>5. Tiles((X \ {h, new}) \cup {y}, total + size)
      <4> HIDE DEF X, y, new
      <4> QED BY <1>4, <3>2, <3>3, <3>4, TilesJoined DEF X
    <3>6. h \notin O /\ new \notin O /\ new \notin ToSet(hs)
      <4>1. h \notin O
        BY PartitionFacts
      <4>2. new \notin O
        <5>1. O \subseteq Segment
          BY PartitionFacts DEF Partition
        <5> HIDE DEF O, new
        <5> QED BY <1>3, <5>1, SegmentFacts
      <4>3. new \notin ToSet(hs)
        <5> SUFFICES ASSUME new \in ToSet(hs) PROVE FALSE
          OBVIOUS
        <5>1. Area(new, total)
          BY <1>1
        <5> QED BY <1>0, <1>3, <5>1 DEF Area
      <4> QED BY <4>1, <4>2, <4>3
    <3> HIDE DEF y, new
    <3>7. (X \ {h, new}) \cup {y} = ((ToSet(hs) \ {h}) \cup {y}) \cup O
      BY <3>6
    <3> QED BY <2>2, <3>1, <3>5, <3>7 DEF y
  <2> QED BY <1>2, <2>1, <2>2
<1>6. TotalSize(r) + TotalSize(segs) + kept = total + size
  <2>1. PICK p \in Int : p = TotalSize(hs)
    BY PartitionFacts
  <2>2. PICK q \in Int : q = TotalSize(segs)
    BY PartitionFacts
  <2>3. p + q + kept = total
    BY <2>1, <2>2 DEF Partition
  <2>4. (p + size) + q + kept = total + size
    BY <1>0, <2>3
  <2> QED BY <1>2, <2>1, <2>2, <2>4
<1>7. total + size \in Nat
  BY <1>0
<1> QED BY <1>2, <1>5, <1>6, <1>7 DEF Partition, r

LEMMA TakenOut ==
  ASSUME NEW hs, NEW segs, NEW total, Partition(hs, segs, {}, 0, total), NEW i \in 1 .. Len(segs)
  PROVE  Partition(hs, ListRemove(segs, i), {segs[i]}, segs[i].size, total)
<1> DEFINE t == ListRemove(segs, i)
           x == segs[i]
<1>0. hs \in Seq(Hole) /\ segs \in Seq(Segment) /\ total \in Nat /\ IsInjective(segs)
  BY DEF Partition
<1>1. Sized(segs) /\ Len(segs) \in Nat /\ DOMAIN segs = 1 .. Len(segs) /\ x \in Segment
  BY <1>0, SegmentsSized
<1>2. x \in ToSet(segs) /\ x.size \in Nat
  BY <1>1, SegmentFacts DEF ToSet
<1>3. /\ t \in Seq(Segment) /\ IsInjective(t) /\ ToSet(t) = ToSet(segs) \ {x}
      /\ TotalSize(t) = TotalSize(segs) - x.size
  <2>1. i \in 0 .. Len(segs) /\ i # 0
    BY <1>1
  <2> QED BY <1>0, <1>1, <2>1, ListRemoved DEF ElementAt, SizeAt
<1> HIDE DEF t, x
<1>4. ToSet(hs) \cup (ToSet(t) \cup {x}) = ToSet(hs) \cup (ToSet(segs) \cup {})
  BY <1>2, <1>3
<1>5. TotalSize(hs) + TotalSize(t) + x.size = total
  <2>1. PICK p \in Int : p = TotalSize(hs)
    BY PartitionFacts
  <2>2. PICK q \in Int : q = TotalSize(segs)
    BY PartitionFacts
  <2>3. PICK z \in Int : z = x.size
    BY <1>2
  <2>4. p + q + 0 = total
    BY <2>1, <2>2 DEF Partition
  <2>5. p + (q - z) + z = total
    BY <1>0, <2>4
  <2> QED BY <1>3, <2>1, <2>2, <2>3, <2>5
<1>6. {x} \cap ToSet(t) = {} /\ {x} \subseteq Segment
  BY <1>1, <1>3
<1>7. Tiles(ToSet(hs) \cup (ToSet(t) \cup {x}), total)
  BY <1>4 DEF Partition
<1> QED BY <1>0, <1>2, <1>3, <1>5, <1>6, <1>7 DEF Partition, t, x

LEMMA GivenBack ==
  ASSUME NEW hs, NEW segs, NEW total, NEW x, Partition(hs, segs, {x}, x.size, total)
  PROVE  Partition(merge_hole(hs, x), segs, {}, 0, total)
<1> DEFINE r == merge_hole(hs, x)
           Y == {h \in ToSet(hs) : Beside(h, x)}
           X == ToSet(hs) \cup (ToSet(segs) \cup {x})
<1>0. /\ hs \in Seq(Hole) /\ segs \in Seq(Segment) /\ total \in Nat /\ IsInjective(hs)
      /\ x \notin ToSet(segs) /\ x.size \in Nat /\ x \in Segment
  BY DEF Partition
<1>1. /\ Separate(ToSet(hs)) /\ NoneTouch(ToSet(hs)) /\ Area(x, total)
      /\ \A h \in ToSet(hs) : Area(h, total) /\ Apart(h, x)
      /\ Tiles(X, total)
  <2>1. Tiles(X, total) /\ NoneTouch(ToSet(hs))
    BY DEF Partition
  <2>2. x \in ToSet(segs) \cup {x}
    OBVIOUS
  <2>3. Separate(ToSet(hs)) /\ \A h \in ToSet(hs) : Area(h, total)
    BY PartitionFacts
  <2>4. Area(x, total) /\ \A h \in ToSet(hs) : Apart(h, x)
    BY <2>2, PartitionFacts
  <2> HIDE DEF X
  <2> QED BY <2>1, <2>3, <2>4
<1>2. /\ r \in Seq(Hole) /\ IsInjective(r) /\ TotalSize(r) = TotalSize(hs) + x.size
      /\ \E m \in Hole : ToSet(r) = (ToSet(hs) \ Y) \cup {m} /\ Joined(m, Y, x, total)
  BY <1>0, <1>1, HoleReleased
<1>3. PICK m \in Hole : ToSet(r) = (ToSet(hs) \ Y) \cup {m} /\ Joined(m, Y, x, total)
  BY <1>2
<1> HIDE DEF r
<1>4. NoneTouch(ToSet(r))
  <2>1. NoneTouch((ToSet(hs) \ Y) \cup {m})
    BY <1>0, <1>1, <1>3, TouchReleased
  <2> QED BY <1>3, <2>1
<1>5. Tiles((X \ (Y \cup {x})) \cup {m}, total)
  <2>1. Y \cup {x} \in SUBSET X
    OBVIOUS
  <2>2. (\A z \in {m} : Area(z, total)) /\ Separate({m}) /\ SameBytes(Y \cup {x}, {m}, total)
    BY <1>3 DEF Joined, Separate
  <2> HIDE DEF X, Y
  <2> QED BY <1>0, <1>1, <2>1, <2>2, Recut
<1>6. (X \ (Y \cup {x})) \cup {m} = ToSet(r) \cup (ToSet(segs) \cup {})
  <2>1. x \notin ToSet(hs) /\ \A h \in ToSet(hs) : h \notin ToSet(segs)
    BY PartitionFacts
  <2> QED BY <1>0, <1>3, <2>1
<1>7. TotalSize(r) + TotalSize(segs) + 0 = total
  <2>1. PICK p \in Int : p = TotalSize(hs)
    BY PartitionFacts
  <2>2. PICK q \in Int : q = TotalSize(segs)
    BY PartitionFacts
  <2>3. PICK z \in Int : z = x.size
    BY <1>0
  <2>4. p + q + z = total
    BY <2>1, <2>2, <2>3 DEF Partition
  <2>5. (p + z) + q + 0 = total
    BY <1>0, <2>4
  <2> QED BY <1>2, <2>1, <2>2, <2>3, <2>5
<1>8. IsInjective(segs) /\ Tiles(ToSet(r) \cup (ToSet(segs) \cup {}), total)
  BY <1>5, <1>6 DEF Partition
<1> QED BY <1>0, <1>2, <1>4, <1>7, <1>8 DEF Partition, r

\* Compacted segments tile the memory below their total size.
LEMMA Packed ==
  ASSUME NEW segs \in Seq(Segment)
  PROVE  LET r == compact_segments(segs)
         IN  /\ r \in Seq(Segment) /\ Len(r) = Len(segs) /\ IsInjective(r)
             /\ \A i \in 1 .. Len(segs) : /\ r[i].pid = segs[i].pid /\ r[i].id = segs[i].id
                                          /\ r[i].size = segs[i].size
             /\ TotalSize(segs) \in Nat /\ TotalSize(r) = TotalSize(segs)
             /\ Len(segs) # 0 => compute_last_segment_end(r) = TotalSize(segs)
             /\ Tiles(ToSet(r), TotalSize(segs))
<1> DEFINE r == compact_segments(segs)
           n == Len(segs)
           a == SizesOf(segs)
           f == RunningSum(a)
<1>1. n \in Nat /\ DOMAIN segs = 1 .. n
  OBVIOUS
<1>2. \A i \in 1 .. n : segs[i] \in Segment
  BY ElementOfSeq
<1>3. \A x \in Segment : x.base \in Nat /\ x.size \in Nat \ {0}
  BY SegmentFacts
<1>4. Sized(segs)
  BY <1>1, <1>2, <1>3 DEF Sized
<1>5. /\ a \in Seq(Int) /\ Len(a) = n
      /\ \A i \in 1 .. n : a[i] = segs[i].size /\ segs[i].size \in Nat \ {0}
      /\ f \in [0 .. n -> Int] /\ f[0] = 0
      /\ \A i \in 1 .. n : f[i] = f[i - 1] + segs[i].size
  BY <1>4, SizesFacts
<1>6. r = [i \in 1 .. n |-> [segs[i] EXCEPT !.base = f[i - 1]]]
  BY <1>1 DEF compact_segments
<1>7. TotalSize(segs) = f[n]
  BY DEF TotalSize
<1> HIDE DEF f, a, n, r
<1>8. \A i \in 1 .. Len(a) : a[i] >= 0
  <2> TAKE i \in 1 .. Len(a)
  <2>1. a[i] \in Nat
    BY <1>5
  <2> QED BY <2>1
<1>9. ASSUME NEW j \in 0 .. n, NEW k \in 0 .. n, j <= k
      PROVE  f[j] \in Nat /\ f[k] \in Nat /\ f[j] <= f[k]
  <2>1. j \in Nat /\ k \in Nat /\ k <= Len(a)
    BY <1>1, <1>5
  <2> QED BY <1>5, <1>8, <1>9, <2>1, SumGrows DEF f
<1>10. \A j \in 0 .. n : f[j] \in Nat
  BY <1>9
<1>11. ASSUME NEW i \in 1 .. n
       PROVE  /\ r[i] \in Segment /\ r[i].pid = segs[i].pid /\ r[i].id = segs[i].id
              /\ r[i].size = segs[i].size /\ r[i].base = f[i - 1]
              /\ r[i].base + r[i].size = f[i]
  <2>1. i - 1 \in 0 .. n /\ f[i - 1] \in Nat
    BY <1>1, <1>10
  <2>2. r[i] = [segs[i] EXCEPT !.base = f[i - 1]]
    BY <1>6
  <2>3. segs[i] \in Segment
    BY <1>2
  <2>4. /\ r[i] \in Segment /\ r[i].pid = segs[i].pid /\ r[i].id = segs[i].id
        /\ r[i].size = segs[i].size /\ r[i].base = f[i - 1]
    BY <2>1, <2>2, <2>3 DEF Segment
  <2> QED BY <1>5, <2>4
<1>12. r \in Seq(Segment) /\ Len(r) = n /\ DOMAIN r = 1 .. n
  <2>1. r \in [1 .. n -> Segment]
    BY <1>6, <1>11
  <2> QED BY <1>1, <2>1
<1>13. ASSUME NEW i \in 1 .. n, NEW j \in 1 .. n, i < j
       PROVE  Apart(r[i], r[j]) /\ Apart(r[j], r[i]) /\ r[i] # r[j]
  <2>1. i \in 0 .. n /\ j - 1 \in 0 .. n /\ i - 1 \in 0 .. n /\ i <= j - 1
    BY <1>1, <1>13
  <2>2. f[i] <= f[j - 1] /\ f[i] \in Nat /\ f[j - 1] \in Nat
    BY <1>9, <2>1
  <2>3. r[i].base + r[i].size <= r[j].base
    BY <1>11, <2>2
  <2>4. r[i].size \in Nat \ {0} /\ r[i].base \in Nat
    BY <1>3, <1>11
  <2>5. r[i] # r[j]
    BY <2>3, <2>4
  <2> QED BY <2>3, <2>5 DEF Apart
<1>14. \A i, j \in 1 .. n : i = j \/ (Apart(r[i], r[j]) /\ r[i] # r[j])
  <2> TAKE i, j \in 1 .. n
  <2>1. i = j \/ i < j \/ j < i
    BY <1>1
  <2> QED BY <1>13, <2>1
<1>15. IsInjective(r)
  BY <1>12, <1>14 DEF IsInjective
<1>16. Tiles(ToSet(r), f[n])
  <2>1. Separate(ToSet(r))
    BY <1>12, <1>14 DEF Separate, ToSet
  <2>2. ASSUME NEW i \in 1 .. n PROVE Area(r[i], f[n])
    <3>1. i \in 0 .. n /\ n \in 0 .. n /\ i <= n
      BY <1>1
    <3>2. f[i] <= f[n]
      BY <1>9, <3>1
    <3>3. r[i].size \in Nat \ {0} /\ r[i].base \in Nat
      BY <1>3, <1>11
    <3> QED BY <1>11, <3>2, <3>3 DEF Area
  <2>3. ASSUME NEW c \in 0 .. f[n] - 1 PROVE SomeSpans(ToSet(r), c)
    <3>1. n \in 0 .. n /\ f[n] \in Nat
      BY <1>1, <1>10
    <3>2. c \in Nat /\ c < f[n]
      BY <3>1
    <3>3. PICK i \in 1 .. n : f[i - 1] <= c /\ c < f[i]
      BY <1>5, <1>8, <3>2, SumLocates DEF f
    <3>4. Spans(r[i], c)
      BY <1>11, <3>3 DEF Spans
    <3>5. r[i] \in ToSet(r)
      BY <1>12 DEF ToSet
    <3> QED BY <3>4, <3>5 DEF SomeSpans
  <2> QED BY <1>12, <2>1, <2>2, <2>3 DEF Tiles, ToSet
<1>17. TotalSize(r) = f[n]
  <2>1. SizesOf(r) = a
    BY <1>1, <1>11, <1>12 DEF SizesOf, a
  <2> QED BY <1>12, <2>1 DEF TotalSize, f
<1>18. n # 0 => compute_last_segment_end(r) = f[n]
  <2>1. n # 0 => n \in 1 .. n
    BY <1>1
  <2> QED BY <1>11, <1>12, <2>1 DEF compute_last_segment_end
<1>19. f[n] \in Nat
  <2>1. n \in 0 .. n
    BY <1>1
  <2> QED BY <1>10, <2>1
<1> QED BY <1>7, <1>11, <1>12, <1>15, <1>16, <1>17, <1>18, <1>19 DEF r, n

\* A compaction leaves one hole, as large as the holes together.
LEMMA Compacted ==
  ASSUME NEW hs, NEW segs, NEW total, Partition(hs, segs, {}, 0, total), segs # <<>>,
         TotalSize(hs) > 0
  PROVE  LET r == compact_segments(segs)
             one == compact_holes(total, compute_last_segment_end(r))
         IN  /\ Partition(one, r, {}, 0, total)
             /\ one[1].size = TotalSize(hs) /\ Len(one) = 1 /\ Len(r) = Len(segs)
             /\ \A i \in 1 .. Len(segs) : r[i].pid = segs[i].pid /\ r[i].id = segs[i].id
<1> DEFINE r == compact_segments(segs)
           one == compact_holes(total, compute_last_segment_end(r))
<1>0. hs \in Seq(Hole) /\ segs \in Seq(Segment) /\ total \in Nat
  BY DEF Partition
<1>1. Len(segs) # 0
  BY <1>0
<1>2. /\ r \in Seq(Segment) /\ Len(r) = Len(segs) /\ IsInjective(r)
      /\ \A i \in 1 .. Len(segs) : r[i].pid = segs[i].pid /\ r[i].id = segs[i].id
      /\ TotalSize(segs) \in Nat /\ TotalSize(r) = TotalSize(segs)
      /\ compute_last_segment_end(r) = TotalSize(segs)
      /\ Tiles(ToSet(r), TotalSize(segs))
  <2>2. /\ r \in Seq(Segment) /\ Len(r) = Len(segs) /\ IsInjective(r)
        /\ \A i \in 1 .. Len(segs) : /\ r[i].pid = segs[i].pid /\ r[i].id = segs[i].id
                                     /\ r[i].size = segs[i].size
        /\ TotalSize(segs) \in Nat /\ TotalSize(r) = TotalSize(segs)
        /\ Len(segs) # 0 => compute_last_segment_end(r) = TotalSize(segs)
        /\ Tiles(ToSet(r), TotalSize(segs))
    BY <1>0, Packed
  <2> HIDE DEF r
  <2> QED BY <1>1, <2>2
<1>3. PICK p \in Nat : p = TotalSize(hs) /\ p # 0
  BY PartitionFacts
<1>4. PICK q \in Nat : q = TotalSize(segs)
  BY <1>2
<1>5. total = q + p
  <2>1. p + q + 0 = total
    BY <1>3, <1>4 DEF Partition
  <2> QED BY <1>0, <2>1
<1> DEFINE h == [base |-> q, size |-> total - q]
<1>6. one = <<h>> /\ h.base = q /\ h.size = p /\ h \in Hole
  <2>1. one = <<h>>
    BY <1>2, <1>4 DEF compact_holes
  <2>2. total - q = p /\ p \in Nat \ {0}
    BY <1>3, <1>5
  <2> QED BY <2>1, <2>2 DEF Hole
<1> HIDE DEF r, one, h
<1>7. /\ one \in Seq(Hole) /\ Len(one) = 1 /\ one[1] = h /\ ToSet(one) = {h} /\ IsInjective(one)
  BY <1>6 DEF ToSet, IsInjective
<1>8. TotalSize(one) = p
  <2>1. Sized(one)
    BY <1>7, HolesSized
  <2> DEFINE f == RunningSum(SizesOf(one))
  <2>2. f[0] = 0 /\ \A i \in 1 .. Len(one) : f[i] = f[i - 1] + one[i].size
    BY <1>7, <2>1, SizesFacts
  <2> HIDE DEF f
  <2>3. 1 \in 1 .. Len(one) /\ 1 - 1 = 0
    BY <1>7
  <2>4. f[1] = 0 + p
    BY <1>6, <1>7, <2>2, <2>3
  <2> QED BY <1>7, <2>4 DEF TotalSize, f
<1>9. Tiles(ToSet(r) \cup {h}, total)
  <2>1. p \in Nat \ {0} /\ Tiles(ToSet(r), q)
    BY <1>2, <1>3, <1>4
  <2>2. Tiles(ToSet(r) \cup {h}, q + p)
    BY <1>6, <2>1, TilesGrown
  <2> QED BY <1>5, <2>2
<1>10. Tiles(ToSet(one) \cup (ToSet(r) \cup {}), total)
  <2>1. ToSet(one) \cup (ToSet(r) \cup {}) = ToSet(r) \cup {h}
    BY <1>7
  <2> QED BY <1>9, <2>1
<1>11. NoneTouch(ToSet(one))
  <2>1. q + p # q
    BY <1>3
  <2>2. h.base + h.size # h.base
    BY <1>6, <2>1
  <2> QED BY <1>7, <2>2 DEF NoneTouch
<1>12. TotalSize(one) + TotalSize(r) + 0 = total
  <2>1. p + q + 0 = total
    BY <1>5
  <2> QED BY <1>2, <1>4, <1>8, <2>1
<1>13. Partition(one, r, {}, 0, total)
  BY <1>0, <1>2, <1>7, <1>10, <1>11, <1>12 DEF Partition
<1> QED BY <1>2, <1>3, <1>6, <1>7, <1>13 DEF r, one

-----------------------------------------------------------------------------
(* The inductive invariant.                                                *)

\* The bytes of the segment in hand.
HandSize == IF InHand = {} THEN 0 ELSE job.seg.size

Tables == Partition(holes, segments, InHand, HandSize, total_size)

\* A compaction is under way only when segments stand between the free bytes,
\* which together are enough: the second hole search cannot fail.
CompactionFits ==
  job.kind = "compacting" => segments # <<>> /\ job.size <= TotalSize(holes)

\* total_size is the size of the sticks listed so far, but for the one that the
\* accept thread has listed and not yet counted.
SticksCounted ==
  /\ \A i \in 1 .. Len(sticks) : Len(sticks[i]) # 0
  /\ accepting => Len(sticks) # 0
  /\ total_size = RunningSum(StickLengths(sticks))
                    [IF accepting THEN Len(sticks) - 1 ELSE Len(sticks)]

MemoryInv == KMTypeOK /\ Tables /\ CompactionFits /\ SticksCounted

-----------------------------------------------------------------------------
(* The tables at every step.                                               *)

\* What the kind of a request says of its record.
LEMMA RequestFacts ==
  ASSUME NEW j \in Request
  PROVE  /\ j.kind \in {"idle", "crashed", "compacting", "remove", "resume"}
         /\ j.kind = "idle" => j = Idle
         /\ j.kind = "compacting" => j.pid \in Pid /\ j.id \in SegId /\ j.size \in Sizes
         /\ j.kind = "remove" => /\ j.pid \in Pid /\ j.todo \in Seq(SegId)
                                 /\ j.seg \in Segment \cup {NoSegment}
                                 /\ j.after \in {"resident", "suspended", "ended"}
                                 /\ j \in [kind : {"remove"}, pid : Pid, todo : Seq(SegId),
                                           seg : Segment \cup {NoSegment},
                                           after : {"resident", "suspended", "ended"}]
         /\ j.kind = "resume" => /\ j.pid \in Pid /\ j.at \in 0 .. BLOCKS
                                 /\ j \in [kind : {"resume"}, pid : Pid, at : 0 .. BLOCKS]
<1>1. CASE j \in {Idle, Crashed}
  BY <1>1 DEF Idle, Crashed
<1>2. CASE j \in [kind : {"compacting"}, pid : Pid, id : SegId, size : Sizes]
  BY <1>2
<1>3. CASE j \in [kind : {"remove"}, pid : Pid, todo : Seq(SegId),
                  seg : Segment \cup {NoSegment},
                  after : {"resident", "suspended", "ended"}]
  BY <1>3
<1>4. CASE j \in [kind : {"resume"}, pid : Pid, at : 0 .. BLOCKS]
  BY <1>4
<1> QED BY <1>1, <1>2, <1>3, <1>4 DEF Request

\* A request that holds no segment.
LEMMA NothingInHand ==
  /\ job.kind # "remove" \/ job.seg = NoSegment => InHand = {} /\ HandSize = 0
  /\ job'.kind # "remove" \/ job'.seg = NoSegment => InHand' = {} /\ HandSize' = 0
BY DEF InHand, HandSize

LEMMA SomethingInHand ==
  /\ job.kind = "remove" /\ job.seg # NoSegment => InHand = {job.seg} /\ HandSize = job.seg.size
  /\ job'.kind = "remove" /\ job'.seg # NoSegment
       => InHand' = {job'.seg} /\ HandSize' = job'.seg.size
BY DEF InHand, HandSize

\* The tables are as they were when no table and no hand changed.
LEMMA TablesKept ==
  ASSUME Tables, UNCHANGED tableVars, UNCHANGED <<InHand, HandSize>>
  PROVE  Tables'
BY DEF Tables, tableVars

\* Adding a segment of a known process where the search found a hole.
LEMMA SegmentMade ==
  ASSUME NEW p \in Pid, NEW id \in SegId, NEW size \in Sizes, NEW hs \in Seq(Hole),
         NEW chosen, chosen = hole_selection_algorithm(size, hs), chosen # NoHole
  PROVE  /\ [pid |-> p, id |-> id, base |-> chosen.base, size |-> size] \in Segment
         /\ [pid |-> p, id |-> id, base |-> chosen.base, size |-> size].base = chosen.base
         /\ [pid |-> p, id |-> id, base |-> chosen.base, size |-> size].size = size
<1>1. size \in Nat
  BY KernelMemoryAssumption
<1>2. PICK i \in 1 .. Len(hs) : hs[i] = chosen
  BY <1>1, Chosen
<1>3. chosen.base \in Nat
  BY <1>2, HolesSized
<1> QED BY <1>3 DEF Segment

LEMMA EmptyList ==
  ToSet(<<>>) = {} /\ IsInjective(<<>>) /\ TotalSize(<<>>) = 0
<1>1. ToSet(<<>>) = {} /\ IsInjective(<<>>)
  BY DEF ToSet, IsInjective
<1>2. <<>> \in Seq(Segment) /\ Len(<<>>) = 0
  OBVIOUS
<1>3. RunningSum(SizesOf(<<>>))[0] = 0
  BY <1>2, SegmentsSized, SizesFacts
<1> QED BY <1>1, <1>2, <1>3 DEF TotalSize

\* With no segment the free bytes are one hole, so the search finds it.
LEMMA NoCompactionWhenEmpty ==
  ASSUME NEW hs, NEW total, Partition(hs, <<>>, {}, 0, total),
         NEW size \in Nat \ {0}, size <= TotalSize(hs)
  PROVE  hole_selection_algorithm(size, hs) # NoHole
<1>1. hs \in Seq(Hole) /\ total \in Nat
  BY DEF Partition
<1>2. ToSet(<<>>) = {} /\ TotalSize(<<>>) = 0
  BY EmptyList
<1>3. PICK t \in Int : t = TotalSize(hs)
  BY PartitionFacts
<1>4. t = total
  <2>1. t + 0 + 0 = total
    BY <1>2, <1>3 DEF Partition
  <2> QED BY <2>1
<1>5. total \in Nat \ {0} /\ size <= total
  BY <1>1, <1>3, <1>4
<1>6. Tiles(ToSet(hs), total)
  <2>1. ToSet(hs) \cup (ToSet(<<>>) \cup {}) = ToSet(hs)
    BY <1>2
  <2> QED BY <2>1 DEF Partition
<1>7. PICK h \in ToSet(hs) : h.size = total
  <2>1. NoneTouch(ToSet(hs))
    BY DEF Partition
  <2> QED BY <1>5, <1>6, <2>1, OneHole
<1>8. PICK i \in 1 .. Len(hs) : hs[i].size = total
  BY <1>1, <1>7, HolesSized DEF ToSet
<1>9. ~ (hs[i].size < size)
  BY <1>5, <1>8
<1> QED BY <1>1, <1>9, Chosen

LEMMA CreateTables ==
  ASSUME MemoryInv, NEW p \in Pid, NEW id \in SegId, NEW size \in Sizes,
         handle_create_segment(p, id, size)
  PROVE  Tables' /\ CompactionFits'
<1>0. job = Idle /\ size <= TotalSize(holes) /\ size \in Nat \ {0} /\ TotalSize(holes) \in Int
  <2>1. TotalSize(holes) \in Int /\ size \in Nat \ {0}
    BY KernelMemoryAssumption, PartitionFacts DEF MemoryInv, Tables
  <2> QED BY <2>1 DEF handle_create_segment, compute_free_space
<1>1. InHand = {} /\ HandSize = 0
  BY <1>0, NothingInHand DEF Idle
<1>2. Partition(holes, segments, {}, 0, total_size)
  BY <1>1 DEF MemoryInv, Tables
<1>3. CASE hole_selection_algorithm(size, holes) = NoHole
  <2>1. /\ job' = [kind |-> "compacting", pid |-> p, id |-> id, size |-> size]
        /\ UNCHANGED tableVars
    BY <1>3 DEF handle_create_segment
  <2>2. InHand' = {} /\ HandSize' = 0
    BY <2>1, NothingInHand
  <2>3. Tables'
    BY <1>1, <2>1, <2>2, TablesKept DEF MemoryInv
  <2>4. segments # <<>>
    <3> SUFFICES ASSUME segments = <<>> PROVE FALSE
      OBVIOUS
    <3>1. Partition(holes, <<>>, {}, 0, total_size)
      BY <1>2
    <3> QED BY <1>0, <1>3, <3>1, NoCompactionWhenEmpty
  <2> QED BY <1>0, <2>1, <2>3, <2>4 DEF CompactionFits, tableVars
<1>4. CASE hole_selection_algorithm(size, holes) # NoHole
  <2> DEFINE chosen == hole_selection_algorithm(size, holes)
             x == [pid |-> p, id |-> id, base |-> chosen.base, size |-> size]
  <2>1. /\ holes' = update_hole_table(holes, chosen, size)
        /\ segments' = Append(segments, x)
        /\ total_size' = total_size /\ job' = job
    BY <1>4 DEF handle_create_segment, place_segment
  <2>2. x \in Segment /\ x.base = chosen.base /\ x.size = size
    BY <1>4, SegmentMade DEF MemoryInv, KMTypeOK
  <2>3. Partition(update_hole_table(holes, chosen, size), Append(segments, x), {}, 0, total_size)
    <3> HIDE DEF x
    <3> QED BY <1>2, <1>4, <2>2, Placed
  <2>4. InHand' = {} /\ HandSize' = 0 /\ job'.kind # "compacting"
    BY <1>0, <2>1, NothingInHand DEF Idle
  <2> QED BY <2>1, <2>3, <2>4 DEF Tables, CompactionFits
<1> QED BY <1>3, <1>4

LEMMA CompactTables ==
  ASSUME MemoryInv, compact_memory
  PROVE  Tables' /\ CompactionFits' /\ job' = Idle
<1> DEFINE packed == compact_segments(segments)
           hs == compact_holes(total_size, compute_last_segment_end(packed))
           chosen == hole_selection_algorithm(job.size, hs)
           x == [pid |-> job.pid, id |-> job.id, base |-> chosen.base, size |-> job.size]
<1>1. /\ job.kind = "compacting" /\ job' = Idle /\ total_size' = total_size
      /\ holes' = update_hole_table(hs, chosen, job.size)
      /\ segments' = Append(packed, x)
  BY DEF compact_memory, place_segment
<1>2. job.pid \in Pid /\ job.id \in SegId /\ job.size \in Sizes /\ job.size \in Nat \ {0}
  BY <1>1, RequestFacts, KernelMemoryAssumption DEF MemoryInv, KMTypeOK
<1>3. segments # <<>> /\ job.size <= TotalSize(holes)
  BY <1>1 DEF MemoryInv, CompactionFits
<1>4. Partition(holes, segments, {}, 0, total_size)
  BY <1>1, NothingInHand DEF MemoryInv, Tables
<1>5. TotalSize(holes) \in Int /\ TotalSize(holes) > 0
  <2>1. TotalSize(holes) \in Int
    BY <1>4, PartitionFacts
  <2> QED BY <1>2, <1>3, <2>1
<1>6. /\ Partition(hs, packed, {}, 0, total_size)
      /\ hs[1].size = TotalSize(holes) /\ Len(hs) = 1
  BY <1>3, <1>4, <1>5, Compacted
<1> HIDE DEF packed, hs
<1>7. hs \in Seq(Hole)
  BY <1>6 DEF Partition
<1>8. chosen # NoHole
  <2>1. 1 \in 1 .. Len(hs) /\ ~(hs[1].size < job.size)
    BY <1>2, <1>3, <1>5, <1>6
  <2> QED BY <1>2, <1>7, <2>1, Chosen
<1>9. x \in Segment /\ x.base = chosen.base /\ x.size = job.size
  BY <1>2, <1>7, <1>8, SegmentMade
<1>10. Partition(update_hole_table(hs, chosen, job.size), Append(packed, x), {}, 0, total_size)
  <2> HIDE DEF x
  <2> QED BY <1>2, <1>6, <1>8, <1>9, Placed
<1>11. InHand' = {} /\ HandSize' = 0 /\ job'.kind # "compacting"
  BY <1>1, NothingInHand DEF Idle
<1> QED BY <1>1, <1>10, <1>11 DEF Tables, CompactionFits

\* The index of the first segment of pid with that id, 0 when there is none.
FirstIndex(segs, p, id) ==
  LET I == {k \in 1 .. Len(segs) : segs[k].pid = p /\ segs[k].id = id}
  IN  IF I # {} THEN Min(I) ELSE 0

LEMMA Found ==
  ASSUME NEW segs \in Seq(Segment), NEW p, NEW id
  PROVE  LET i == FirstIndex(segs, p, id)
             s == find_segment_by_id(segs, p, id)
         IN  \/ /\ i \in 1 .. Len(segs) /\ segs[i].pid = p /\ segs[i].id = id /\ s = segs[i]
                /\ s \in Segment /\ s # NoSegment
             \/ /\ i = 0 /\ s = NoSegment
                /\ \A k \in 1 .. Len(segs) : ~(segs[k].pid = p /\ segs[k].id = id)
<1> DEFINE I == {k \in 1 .. Len(segs) : segs[k].pid = p /\ segs[k].id = id}
           i == FirstIndex(segs, p, id)
           s == find_segment_by_id(segs, p, id)
<1>1. i = IF I # {} THEN Min(I) ELSE 0
  BY DEF FirstIndex
<1>2. s = IF i = 0 THEN NoSegment ELSE segs[i]
  BY DEF find_segment_by_id, SelectInSeq, FirstIndex
<1>3. I \in SUBSET Nat
  OBVIOUS
<1>4. CASE I # {}
  <2>1. Min(I) \in I
    BY <1>3, <1>4, MinFacts
  <2> HIDE DEF i, s
  <2>2. i \in I
    BY <1>1, <1>4, <2>1
  <2>3. i \in 1 .. Len(segs) /\ segs[i].pid = p /\ segs[i].id = id /\ i # 0
    BY <2>2
  <2>4. s = segs[i] /\ segs[i] \in Segment
    BY <1>2, <2>3, SegmentsSized
  <2>5. s # NoSegment
    BY <2>4, SegmentFacts
  <2> QED BY <2>3, <2>4, <2>5 DEF i, s
<1>5. CASE I = {}
  <2>1. i = 0 /\ s = NoSegment
    BY <1>1, <1>2, <1>5
  <2>2. \A k \in 1 .. Len(segs) : ~(segs[k].pid = p /\ segs[k].id = id)
    BY <1>5
  <2> HIDE DEF i, s
  <2> QED BY <2>1, <2>2 DEF i, s
<1> QED BY <1>4, <1>5

LEMMA FindTables ==
  ASSUME MemoryInv, find_and_remove_segment
  PROVE  Tables' /\ CompactionFits'
<1> DEFINE id == Head(job.todo)
           i == FirstIndex(segments, job.pid, id)
           x == find_segment_by_id(segments, job.pid, id)
<1>1. /\ job.kind = "remove" /\ job.seg = NoSegment
      /\ segments' = ListRemove(segments, i)
      /\ job' = [job EXCEPT !.todo = Tail(@), !.seg = x]
      /\ holes' = holes /\ total_size' = total_size
  BY DEF find_and_remove_segment, SelectInSeq, FirstIndex
<1>2. job \in Request /\ segments \in Seq(Segment)
  BY DEF MemoryInv, KMTypeOK
<1>3. job'.kind = "remove" /\ job'.seg = x
  <2>1. job \in [kind : {"remove"}, pid : Pid, todo : Seq(SegId),
                 seg : Segment \cup {NoSegment}, after : {"resident", "suspended", "ended"}]
    BY <1>1, <1>2, RequestFacts
  <2> HIDE DEF x
  <2> QED BY <1>1, <2>1
<1>4. Partition(holes, segments, {}, 0, total_size)
  BY <1>1, NothingInHand DEF MemoryInv, Tables
<1>5. \/ i \in 1 .. Len(segments) /\ x = segments[i] /\ x # NoSegment
      \/ i = 0 /\ x = NoSegment
  BY <1>2, Found
<1> HIDE DEF i, x, id
<1>6. CASE i \in 1 .. Len(segments) /\ x = segments[i] /\ x # NoSegment
  <2>1. Partition(holes, ListRemove(segments, i), {x}, x.size, total_size)
    BY <1>4, <1>6, TakenOut
  <2>2. InHand' = {x} /\ HandSize' = x.size
    BY <1>3, <1>6, SomethingInHand
  <2> QED BY <1>1, <1>3, <2>1, <2>2 DEF Tables, CompactionFits
<1>7. CASE i = 0 /\ x = NoSegment
  <2>1. ListRemove(segments, i) = segments
    BY <1>2, <1>7 DEF ListRemove
  <2>2. InHand' = {} /\ HandSize' = 0
    BY <1>3, <1>7, NothingInHand
  <2> QED BY <1>1, <1>3, <1>4, <2>1, <2>2 DEF Tables, CompactionFits
<1> QED BY <1>5, <1>6, <1>7

LEMMA RemoveTables ==
  ASSUME MemoryInv, remove_segment
  PROVE  Tables' /\ CompactionFits'
<1>1. /\ job.kind = "remove" /\ job.seg # NoSegment
      /\ holes' = merge_hole(holes, job.seg) /\ job' = [job EXCEPT !.seg = NoSegment]
      /\ segments' = segments /\ total_size' = total_size
  BY DEF remove_segment
<1>2. job'.kind = "remove" /\ job'.seg = NoSegment
  <2>1. job \in [kind : {"remove"}, pid : Pid, todo : Seq(SegId),
                 seg : Segment \cup {NoSegment}, after : {"resident", "suspended", "ended"}]
    BY <1>1, RequestFacts DEF MemoryInv, KMTypeOK
  <2> QED BY <1>1, <2>1
<1>3. Partition(holes, segments, {job.seg}, job.seg.size, total_size)
  BY <1>1, SomethingInHand DEF MemoryInv, Tables
<1>4. Partition(merge_hole(holes, job.seg), segments, {}, 0, total_size)
  BY <1>3, GivenBack
<1>5. InHand' = {} /\ HandSize' = 0
  BY <1>2, NothingInHand
<1> QED BY <1>1, <1>2, <1>4, <1>5 DEF Tables, CompactionFits

LEMMA AddTables ==
  ASSUME MemoryInv, add_total_memory
  PROVE  Tables' /\ CompactionFits'
<1> DEFINE size == Len(sticks[Len(sticks)])
<1>1. /\ accepting /\ job.kind # "compacting" /\ job' = job /\ segments' = segments
      /\ total_size' = total_size + size /\ holes' = grow_holes(holes, total_size, size)
  BY DEF add_total_memory, MutexFree
<1>2. size \in Nat \ {0}
  <2>1. sticks \in Seq(Seq(Byte)) /\ Len(sticks) # 0 /\ \A i \in 1 .. Len(sticks) : Len(sticks[i]) # 0
    BY <1>1 DEF MemoryInv, KMTypeOK, SticksCounted
  <2>2. Len(sticks) \in 1 .. Len(sticks)
    BY <2>1
  <2>3. Len(sticks[Len(sticks)]) \in Nat
    BY <2>1, <2>2, StickFacts
  <2> QED BY <2>1, <2>2, <2>3
<1> HIDE DEF size
<1>3. Partition(grow_holes(holes, total_size, size), segments, InHand, HandSize, total_size + size)
  BY <1>2, Extended DEF MemoryInv, Tables
<1>4. InHand' = InHand /\ HandSize' = HandSize
  BY <1>1 DEF InHand, HandSize
<1> QED BY <1>1, <1>3, <1>4 DEF Tables, CompactionFits

\* The block that resume_process has reached belongs to the process.
LEMMA NextBlock ==
  ASSUME MemoryInv, job.kind = "resume", BlocksLeft # {}
  PROVE  LET b == Min(BlocksLeft)
         IN  /\ b \in Block /\ b \in BlocksLeft /\ b \in Nat /\ \A c \in BlocksLeft : b <= c
             /\ block_list[b] \in BlockData /\ block_list[b].pid = job.pid
             /\ block_list[b].segment_number \in SegId /\ block_list[b].segment_size \in Sizes
             /\ block_list[b].segment_block_number \in Nat
<1> DEFINE b == Min(BlocksLeft)
<1>1. BLOCKS \in Nat /\ -1 \notin Pid
  BY KernelMemoryAssumption
<1>2. BlocksLeft \in SUBSET Nat /\ BlocksLeft \subseteq Block
  BY <1>1 DEF BlocksLeft, Block
<1>3. b \in BlocksLeft /\ \A c \in BlocksLeft : b <= c
  BY <1>2, MinFacts
<1> HIDE DEF b
<1>4. b \in Block /\ b \in Nat /\ block_list[b].pid = job.pid
  BY <1>2, <1>3 DEF BlocksLeft
<1>5. job.pid \in Pid /\ block_list[b] \in BlockData \cup {FreeBlock}
  BY <1>4, RequestFacts DEF MemoryInv, KMTypeOK
<1>6. block_list[b] \in BlockData
  BY <1>1, <1>4, <1>5 DEF FreeBlock
<1>7. /\ block_list[b].segment_number \in SegId /\ block_list[b].segment_size \in Sizes
      /\ block_list[b].segment_block_number \in Nat
  BY <1>6 DEF BlockData
<1> QED BY <1>3, <1>4, <1>6, <1>7 DEF b

LEMMA ResumeTables ==
  ASSUME MemoryInv, resume_block
  PROVE  Tables' /\ CompactionFits'
<1> DEFINE b      == Min(BlocksLeft)
           entry  == block_list[b]
           first  == entry.segment_block_number = 0
           size   == entry.segment_size
           chosen == hole_selection_algorithm(size, holes)
           x      == [pid |-> job.pid, id |-> entry.segment_number,
                      base |-> chosen.base, size |-> size]
<1>1. job.kind = "resume" /\ BlocksLeft # {} /\ total_size' = total_size
  BY DEF resume_block
<1>2. \/ job' = Idle /\ holes' = holes /\ segments' = segments
      \/ /\ ~first \/ chosen # NoHole
         /\ job' = Crashed \/ job' = [job EXCEPT !.at = b + 1]
         /\ segments' = IF first THEN Append(segments, x) ELSE segments
         /\ holes' = IF first THEN update_hole_table(holes, chosen, size) ELSE holes
  BY DEF resume_block
<1>3. job.pid \in Pid /\ entry.segment_number \in SegId /\ size \in Sizes
  BY <1>1, NextBlock, RequestFacts DEF MemoryInv, KMTypeOK
<1> HIDE DEF b, entry, first, size
<1>4. Partition(holes, segments, {}, 0, total_size)
  BY <1>1, NothingInHand DEF MemoryInv, Tables
<1>5. job'.kind # "remove" /\ job'.kind # "compacting"
  <2>1. job \in [kind : {"resume"}, pid : Pid, at : 0 .. BLOCKS]
    BY <1>1, RequestFacts DEF MemoryInv, KMTypeOK
  <2> QED BY <1>2, <2>1 DEF Idle, Crashed
<1>6. InHand' = {} /\ HandSize' = 0
  BY <1>5, NothingInHand
<1>7. CASE holes' = holes /\ segments' = segments
  BY <1>1, <1>4, <1>5, <1>6, <1>7 DEF Tables, CompactionFits
<1>8. CASE /\ chosen # NoHole /\ segments' = Append(segments, x)
           /\ holes' = update_hole_table(holes, chosen, size)
  <2>1. x \in Segment /\ x.base = chosen.base /\ x.size = size
    BY <1>3, <1>8, SegmentMade DEF MemoryInv, KMTypeOK
  <2>2. Partition(update_hole_table(holes, chosen, size), Append(segments, x), {}, 0, total_size)
    <3> HIDE DEF x
    <3> QED BY <1>3, <1>4, <1>8, <2>1, Placed
  <2> QED BY <1>1, <1>5, <1>6, <1>8, <2>2 DEF Tables, CompactionFits
<1> QED BY <1>2, <1>7, <1>8

\* Steps that leave the tables alone and hold no segment before or after.
LEMMA IdleTables ==
  ASSUME Tables, UNCHANGED tableVars, job.kind # "remove" \/ job.seg = NoSegment,
         job'.kind # "remove" \/ job'.seg = NoSegment, job'.kind # "compacting"
  PROVE  Tables' /\ CompactionFits'
<1>1. UNCHANGED <<InHand, HandSize>>
  BY NothingInHand
<1> QED BY <1>1, TablesKept DEF CompactionFits

\* Steps that leave the tables and the request alone.
LEMMA OtherTables ==
  ASSUME MemoryInv, UNCHANGED <<tableVars, job>>
  PROVE  Tables' /\ CompactionFits'
<1>1. UNCHANGED <<InHand, HandSize>>
  BY DEF InHand, HandSize
<1> QED BY <1>1, TablesKept DEF MemoryInv, CompactionFits, tableVars

\* A STDIN request writes to the sticks; the listener goes on, or ends.
LEMMA StdinStep ==
  ASSUME NEW p \in Pid, NEW id \in SegId, NEW i \in Inputs,
         handle_stdin_request(p, id, i[1], i[2])
  PROVE  /\ i[1] \in Nat /\ i[2] \in Nat \ {0}
         /\ job = Idle /\ job' \in {Idle, Crashed}
         /\ UNCHANGED <<tableVars, accepting, swapVars, status, owned>>
         /\ \E address : Write(p, id, address, i[1], i[2])
<1>1. i[1] \in Nat /\ i[2] \in Nat \ {0}
  BY KernelMemoryAssumption
<1>2. PICK off, len : off = i[1] /\ len = i[2] /\ handle_stdin_request(p, id, off, len)
  OBVIOUS
<1>3. \E address : Write(p, id, address, off, len)
  BY <1>2 DEF handle_stdin_request
<1>4. /\ job = Idle /\ job' \in {Idle, Crashed}
      /\ UNCHANGED <<tableVars, accepting, swapVars, status, owned>>
  BY <1>2 DEF handle_stdin_request
<1> QED BY <1>1, <1>2, <1>3, <1>4

LEMMA TablesStep ==
  ASSUME MemoryInv, [Next]_vars
  PROVE  Tables' /\ CompactionFits'
<1>0. job = Idle => job.kind = "idle"
  BY DEF Idle
<1>1. ASSUME add_stick_connection PROVE Tables' /\ CompactionFits'
  BY <1>1, OtherTables DEF add_stick_connection
<1>2. ASSUME add_total_memory PROVE Tables' /\ CompactionFits'
  BY <1>2, AddTables
<1>3. ASSUME init_swap_data PROVE Tables' /\ CompactionFits'
  BY <1>3, OtherTables DEF init_swap_data
<1>4. ASSUME NEW p \in Pid, handle_new_process(p) PROVE Tables' /\ CompactionFits'
  BY <1>4, OtherTables DEF handle_new_process
<1>5. ASSUME NEW p \in Pid, handle_end_process(p) PROVE Tables' /\ CompactionFits'
  <2>1. job = Idle /\ UNCHANGED tableVars /\ job'.seg = NoSegment /\ job'.kind = "remove"
    BY <1>5 DEF handle_end_process, Removing
  <2> QED BY <1>0, <2>1, IdleTables DEF MemoryInv
<1>6. ASSUME NEW p \in Pid, suspend_process(p) PROVE Tables' /\ CompactionFits'
  <2>1. /\ job = Idle /\ UNCHANGED tableVars
        /\ job' = Idle \/ (job'.seg = NoSegment /\ job'.kind = "remove")
    BY <1>6 DEF suspend_process, Removing
  <2> QED BY <1>0, <2>1, IdleTables DEF MemoryInv, Idle
<1>7. ASSUME NEW p \in Pid, resume_process(p) PROVE Tables' /\ CompactionFits'
  <2>1. job = Idle /\ UNCHANGED tableVars /\ job'.kind = "resume"
    BY <1>7 DEF resume_process
  <2> QED BY <1>0, <2>1, IdleTables DEF MemoryInv
<1>8. ASSUME NEW p \in Pid, NEW id \in SegId, NEW size \in Sizes,
             handle_create_segment(p, id, size)
      PROVE  Tables' /\ CompactionFits'
  BY <1>8, CreateTables
<1>9. ASSUME NEW p \in Pid, NEW id \in SegId, NEW i \in Inputs,
             handle_stdin_request(p, id, i[1], i[2])
      PROVE  Tables' /\ CompactionFits'
  <2>1. job = Idle /\ job' \in {Idle, Crashed} /\ UNCHANGED tableVars
    BY <1>9, StdinStep
  <2>2. job'.kind \in {"idle", "crashed"}
    BY <2>1 DEF Idle, Crashed
  <2> QED BY <1>0, <2>1, <2>2, IdleTables DEF MemoryInv
<1>10. ASSUME NEW p \in Pid, NEW id \in SegId, handle_delete_segment(p, id)
       PROVE  Tables' /\ CompactionFits'
  <2>1. job = Idle /\ UNCHANGED tableVars /\ job'.seg = NoSegment /\ job'.kind = "remove"
    BY <1>10 DEF handle_delete_segment, Removing
  <2> QED BY <1>0, <2>1, IdleTables DEF MemoryInv
<1>11. ASSUME NEW p \in Pid, NEW id \in SegId, NEW off \in 0 .. total_size - 1,
              write_memory(p, id, off)
       PROVE  Tables' /\ CompactionFits'
  BY <1>11, OtherTables DEF write_memory
<1>12. ASSUME compact_memory PROVE Tables' /\ CompactionFits'
  BY <1>12, CompactTables
<1>13. ASSUME find_and_remove_segment PROVE Tables' /\ CompactionFits'
  BY <1>13, FindTables
<1>14. ASSUME remove_segment PROVE Tables' /\ CompactionFits'
  BY <1>14, RemoveTables
<1>15. ASSUME removal_done PROVE Tables' /\ CompactionFits'
  <2>1. job.seg = NoSegment /\ UNCHANGED tableVars /\ job' = Idle
    BY <1>15 DEF removal_done
  <2> QED BY <2>1, IdleTables DEF MemoryInv, Idle
<1>16. ASSUME resume_block PROVE Tables' /\ CompactionFits'
  BY <1>16, ResumeTables
<1>17. ASSUME resume_done PROVE Tables' /\ CompactionFits'
  <2>1. job.kind = "resume" /\ UNCHANGED tableVars /\ job' = Idle
    BY <1>17 DEF resume_done
  <2> QED BY <2>1, IdleTables DEF MemoryInv, Idle
<1>18. CASE UNCHANGED vars
  BY <1>18, OtherTables DEF vars
<1> QED BY <1>1, <1>2, <1>3, <1>4, <1>5, <1>6, <1>7, <1>8, <1>9, <1>10, <1>11, <1>12, <1>13,
           <1>14, <1>15, <1>16, <1>17, <1>18 DEF Next

-----------------------------------------------------------------------------
(* The sticks at every step.                                               *)

\* Writing changes no stick's length.
LEMMA WrittenSticks ==
  ASSUME MemoryInv, NEW address, NEW bytes \in Seq(Byte),
         sticks' = write_to_sticks(sticks, address, bytes), UNCHANGED <<accepting, total_size>>
  PROVE  sticks' \in Seq(Seq(Byte)) /\ SticksCounted'
<1>1. sticks \in Seq(Seq(Byte))
  BY DEF MemoryInv, KMTypeOK
<1>2. /\ sticks' \in Seq(Seq(Byte)) /\ Len(sticks') = Len(sticks)
      /\ \A i \in 1 .. Len(sticks) : Len(sticks'[i]) = Len(sticks[i])
  BY <1>1, WriteType
<1>3. DOMAIN sticks = 1 .. Len(sticks) /\ DOMAIN sticks' = 1 .. Len(sticks)
  BY <1>1, <1>2
<1>4. StickLengths(sticks') = StickLengths(sticks)
  BY <1>2, <1>3 DEF StickLengths
<1> QED BY <1>2, <1>4 DEF MemoryInv, SticksCounted

LEMMA ListedSticks ==
  ASSUME MemoryInv, add_stick_connection
  PROVE  sticks' \in Seq(Seq(Byte)) /\ SticksCounted'
<1> DEFINE n == Len(sticks)
           new == [k \in 1 .. StickSizes[n + 1] |-> Blank]
<1>1. /\ sticks' = Append(sticks, new) /\ ~accepting /\ accepting' /\ total_size' = total_size
      /\ n < Len(StickSizes)
  BY DEF add_stick_connection, tableVars
<1>2. sticks \in Seq(Seq(Byte)) /\ n \in Nat /\ DOMAIN sticks = 1 .. n
  BY DEF MemoryInv, KMTypeOK
<1>3. StickSizes[n + 1] \in Nat \ {0}
  <2>1. StickSizes \in Seq(Nat \ {0})
    BY KernelMemoryAssumption
  <2>2. n + 1 \in 1 .. Len(StickSizes)
    BY <1>1, <1>2, <2>1
  <2> QED BY <2>1, <2>2, ElementOfSeq
<1>4. new \in Seq(Byte) /\ Len(new) \in Nat \ {0}
  <2> DEFINE m == StickSizes[n + 1]
  <2>1. new \in [1 .. m -> Byte]
    BY DEF Byte
  <2> HIDE DEF new, m
  <2>2. m \in Nat /\ m # 0
    BY <1>3 DEF m
  <2> QED BY <2>1, <2>2, FunctionIsList
<1> HIDE DEF new
<1>5. /\ sticks' \in Seq(Seq(Byte)) /\ Len(sticks') = n + 1
      /\ \A i \in 1 .. n : sticks'[i] = sticks[i]
      /\ sticks'[n + 1] = new
  BY <1>1, <1>2, <1>4
<1>6. /\ StickLengths(sticks) \in Seq(Int) /\ Len(StickLengths(sticks)) = n
      /\ \A i \in 1 .. n : StickLengths(sticks)[i] = Len(sticks[i])
  BY <1>2, StickFacts
<1>7. /\ StickLengths(sticks') \in Seq(Int) /\ Len(StickLengths(sticks')) = n + 1
      /\ \A i \in 1 .. n + 1 : StickLengths(sticks')[i] = Len(sticks'[i])
  BY <1>5, StickFacts
<1>8. RunningSum(StickLengths(sticks))[n] = RunningSum(StickLengths(sticks'))[n]
  <2>1. n <= n /\ n <= n + 1 /\ \A i \in 1 .. n : i \in 1 .. n + 1
    BY <1>2
  <2>2. \A i \in 1 .. n : StickLengths(sticks)[i] = StickLengths(sticks')[i]
    BY <1>5, <1>6, <1>7, <2>1
  <2> HIDE DEF n
  <2> QED BY <1>2, <1>6, <1>7, <2>1, <2>2, SumPrefix
<1>9. \A i \in 1 .. Len(sticks') : Len(sticks'[i]) # 0
  <2> TAKE i \in 1 .. Len(sticks')
  <2>1. i \in 1 .. n \/ i = n + 1
    BY <1>2, <1>5
  <2>2. \A j \in 1 .. n : Len(sticks[j]) # 0
    BY DEF MemoryInv, SticksCounted
  <2> QED BY <1>4, <1>5, <2>1, <2>2
<1>10. total_size = RunningSum(StickLengths(sticks))[n]
  BY <1>1 DEF MemoryInv, SticksCounted
<1>11. Len(sticks') - 1 = n /\ Len(sticks') # 0
  BY <1>2, <1>5
<1> QED BY <1>1, <1>5, <1>8, <1>9, <1>10, <1>11 DEF SticksCounted

LEMMA CountedSticks ==
  ASSUME MemoryInv, add_total_memory
  PROVE  sticks' \in Seq(Seq(Byte)) /\ SticksCounted'
<1> DEFINE n == Len(sticks)
           f == RunningSum(StickLengths(sticks))
<1>1. /\ sticks' = sticks /\ accepting /\ ~accepting'
      /\ total_size' = total_size + Len(sticks[n])
  BY DEF add_total_memory
<1>2. /\ sticks \in Seq(Seq(Byte)) /\ n # 0 /\ total_size = f[n - 1]
      /\ \A i \in 1 .. n : Len(sticks[i]) # 0
  BY <1>1 DEF MemoryInv, KMTypeOK, SticksCounted
<1>3. n \in 1 .. n
  BY <1>2
<1>4. /\ StickLengths(sticks) \in Seq(Int) /\ Len(StickLengths(sticks)) = n
      /\ StickLengths(sticks)[n] = Len(sticks[n])
  BY <1>2, <1>3, StickFacts
<1>5. f[n] = f[n - 1] + Len(sticks[n])
  BY <1>3, <1>4, SumType
<1> QED BY <1>1, <1>2, <1>5 DEF SticksCounted

\* Every address that is counted is in some stick.
LEMMA CountedAreThere ==
  ASSUME MemoryInv
  PROVE  /\ RunningSum(StickLengths(sticks))[Len(sticks)] \in Nat
         /\ total_size <= RunningSum(StickLengths(sticks))[Len(sticks)]
<1> DEFINE q == StickLengths(sticks)
           n == Len(sticks)
           c == IF accepting THEN n - 1 ELSE n
<1>1. sticks \in Seq(Seq(Byte))
  BY DEF MemoryInv, KMTypeOK
<1>2. n \in Nat /\ q \in Seq(Int) /\ Len(q) = n /\ \A i \in 1 .. n : q[i] >= 0
  BY <1>1, StickFacts
<1>3. total_size = RunningSum(q)[c] /\ (accepting => n # 0)
  BY DEF MemoryInv, SticksCounted
<1> HIDE DEF q, n
<1>4. c \in Nat /\ c <= n
  BY <1>2, <1>3
<1> HIDE DEF c
<1>5. n <= Len(q)
  BY <1>2
<1>6. RunningSum(q)[n] \in Nat /\ RunningSum(q)[c] <= RunningSum(q)[n]
  BY <1>2, <1>4, <1>5, SumGrows
<1> QED BY <1>3, <1>6 DEF q, n

\* The smaller of two numbers.
LEMMA MinOfTwo ==
  ASSUME NEW a \in Int, NEW b \in Int
  PROVE  Min({a, b}) \in Int /\ Min({a, b}) <= a /\ Min({a, b}) <= b
<1>1. \E x \in {a, b} : \A y \in {a, b} : x <= y
  <2>1. a <= b \/ b <= a
    OBVIOUS
  <2> QED BY <2>1
<1>2. Min({a, b}) \in {a, b} /\ \A y \in {a, b} : Min({a, b}) <= y
  BY <1>1 DEF Min
<1> QED BY <1>2

LEMMA MinOneOf ==
  ASSUME NEW a \in Int, NEW b \in Int
  PROVE  Min({a, b}) \in {a, b}
<1>1. \E x \in {a, b} : \A y \in {a, b} : x <= y
  <2>1. a <= b \/ b <= a
    OBVIOUS
  <2> QED BY <2>1
<1> QED BY <1>1 DEF Min

LEMMA BlockBytesFacts ==
  ASSUME NEW size \in Sizes, NEW k \in Nat
  PROVE  /\ k * BLOCK_SIZE \in Nat /\ BlockBytes(size, k) \in Int
         /\ BlockBytes(size, k) <= BLOCK_SIZE
         /\ k * BLOCK_SIZE + BlockBytes(size, k) <= size
<1>1. BLOCK_SIZE \in Nat /\ size \in Nat
  BY KernelMemoryAssumption
<1>2. PICK m \in Nat : m = k * BLOCK_SIZE
  BY <1>1
<1>3. PICK z \in Int : z = size - m
  BY <1>1
<1>4. BlockBytes(size, k) = Min({z, BLOCK_SIZE})
  BY <1>2, <1>3 DEF BlockBytes
<1>5. Min({z, BLOCK_SIZE}) \in Int /\ Min({z, BLOCK_SIZE}) <= z /\ Min({z, BLOCK_SIZE}) <= BLOCK_SIZE
  BY <1>1, MinOfTwo
<1>6. PICK w \in Int : w = BlockBytes(size, k) /\ w <= z /\ w <= BLOCK_SIZE
  BY <1>4, <1>5
<1>7. m + w <= size
  BY <1>1, <1>3, <1>6
<1> QED BY <1>2, <1>6, <1>7

LEMMA SticksStep ==
  ASSUME MemoryInv, [Next]_vars
  PROVE  sticks' \in Seq(Seq(Byte)) /\ SticksCounted' /\ accepting' \in BOOLEAN
<1>0. ASSUME UNCHANGED stickVars, UNCHANGED total_size
      PROVE  sticks' \in Seq(Seq(Byte)) /\ SticksCounted' /\ accepting' \in BOOLEAN
  BY <1>0 DEF MemoryInv, KMTypeOK, SticksCounted, stickVars
<1>1. ASSUME add_stick_connection
      PROVE  sticks' \in Seq(Seq(Byte)) /\ SticksCounted' /\ accepting' \in BOOLEAN
  <2>1. accepting' = TRUE
    BY <1>1 DEF add_stick_connection
  <2> QED BY <1>1, <2>1, ListedSticks
<1>2. ASSUME add_total_memory
      PROVE  sticks' \in Seq(Seq(Byte)) /\ SticksCounted' /\ accepting' \in BOOLEAN
  <2>1. accepting' = FALSE
    BY <1>2 DEF add_total_memory
  <2> QED BY <1>2, <2>1, CountedSticks
<1>3. ASSUME NEW p \in Pid, NEW id \in SegId, NEW address, NEW off \in Nat, NEW len \in Nat,
             Write(p, id, address, off, len), UNCHANGED <<accepting, total_size>>
      PROVE  sticks' \in Seq(Seq(Byte)) /\ SticksCounted' /\ accepting' \in BOOLEAN
  <2> DEFINE bytes == [k \in 1 .. len |-> <<p, id, off + k - 1>>]
  <2>1. bytes \in [1 .. len -> Byte]
    BY DEF Byte
  <2>2. sticks' = write_to_sticks(sticks, address, bytes)
    BY <1>3 DEF Write
  <2> HIDE DEF bytes
  <2>3. bytes \in Seq(Byte)
    BY <2>1, FunctionIsList
  <2> QED BY <1>3, <2>2, <2>3, WrittenSticks DEF MemoryInv, KMTypeOK
<1>4. ASSUME NEW p \in Pid, NEW id \in SegId, NEW i \in Inputs,
             handle_stdin_request(p, id, i[1], i[2])
      PROVE  sticks' \in Seq(Seq(Byte)) /\ SticksCounted' /\ accepting' \in BOOLEAN
  <2>1. PICK off \in Nat : off = i[1]
    BY <1>4, StdinStep
  <2>2. PICK len \in Nat : len = i[2]
    BY <1>4, StdinStep
  <2>3. PICK address : Write(p, id, address, off, len)
    BY <1>4, <2>1, <2>2, StdinStep
  <2>4. UNCHANGED <<accepting, total_size>>
    BY <1>4, StdinStep DEF tableVars
  <2> QED BY <1>3, <2>3, <2>4
<1>5. ASSUME NEW p \in Pid, NEW id \in SegId, NEW off \in 0 .. total_size - 1,
             write_memory(p, id, off)
      PROVE  sticks' \in Seq(Seq(Byte)) /\ SticksCounted' /\ accepting' \in BOOLEAN
  <2>1. off \in Nat /\ 1 \in Nat
    BY DEF MemoryInv, KMTypeOK
  <2>2. /\ Write(p, id, find_segment_by_id(segments, p, id).base + off, off, 1)
        /\ UNCHANGED <<accepting, total_size>>
    BY <1>5 DEF write_memory, tableVars
  <2> QED BY <1>3, <2>1, <2>2
<1>6. ASSUME resume_block
      PROVE  sticks' \in Seq(Seq(Byte)) /\ SticksCounted' /\ accepting' \in BOOLEAN
  <2> DEFINE b == Min(BlocksLeft)
             len == BlockBytes(block_list[b].segment_size, block_list[b].segment_block_number)
             bytes == SubSeq(disk[b], 1, len)
  <2>1. job.kind = "resume" /\ BlocksLeft # {} /\ UNCHANGED <<accepting, total_size>>
    BY <1>6 DEF resume_block
  <2>2. \/ sticks' = sticks
        \/ \E address : sticks' = write_to_sticks(sticks, address, bytes)
    BY <1>6 DEF resume_block
  <2>3. /\ b \in Block /\ block_list[b].segment_size \in Sizes
        /\ block_list[b].segment_block_number \in Nat
    BY <2>1, NextBlock
  <2> HIDE DEF b
  <2>4. disk[b] \in [1 .. BLOCK_SIZE -> Byte] /\ BLOCK_SIZE \in Nat
    BY <2>3, KernelMemoryAssumption DEF MemoryInv, KMTypeOK
  <2>5. disk[b] \in Seq(Byte) /\ Len(disk[b]) = BLOCK_SIZE
    BY <2>4, FunctionIsList
  <2>6. len \in Int /\ len <= BLOCK_SIZE
    BY <2>3, BlockBytesFacts
  <2> HIDE DEF len
  <2>7. bytes \in Seq(Byte)
    BY <2>4, <2>5, <2>6
  <2> HIDE DEF bytes
  <2>8. CASE sticks' = sticks
    BY <1>0, <2>1, <2>8 DEF stickVars
  <2> QED BY <2>1, <2>2, <2>7, <2>8, WrittenSticks DEF MemoryInv, KMTypeOK
<1>7. CASE UNCHANGED vars
  BY <1>0, <1>7 DEF vars, tableVars
<1>8. ASSUME \/ init_swap_data \/ compact_memory \/ find_and_remove_segment \/ remove_segment
             \/ removal_done \/ resume_done
      PROVE  UNCHANGED stickVars /\ UNCHANGED total_size
  BY <1>8 DEF init_swap_data, compact_memory, find_and_remove_segment, remove_segment,
              removal_done, resume_done, tableVars
<1>9. ASSUME NEW p \in Pid, \/ handle_new_process(p) \/ handle_end_process(p)
                            \/ suspend_process(p) \/ resume_process(p)
      PROVE  UNCHANGED stickVars /\ UNCHANGED total_size
  BY <1>9 DEF handle_new_process, handle_end_process, suspend_process, resume_process, tableVars
<1>10. ASSUME NEW p \in Pid, NEW id \in SegId, handle_delete_segment(p, id)
       PROVE  UNCHANGED stickVars /\ UNCHANGED total_size
  BY <1>10 DEF handle_delete_segment, tableVars
<1>11. ASSUME NEW p \in Pid, NEW id \in SegId, NEW size \in Sizes,
              handle_create_segment(p, id, size)
       PROVE  UNCHANGED stickVars /\ UNCHANGED total_size
  BY <1>11 DEF handle_create_segment, tableVars
<1> QED BY <1>0, <1>1, <1>2, <1>4, <1>5, <1>6, <1>7, <1>8, <1>9, <1>10, <1>11 DEF Next

-----------------------------------------------------------------------------
(* The copies that a suspension makes.                                     *)

LEMMA BlockCountFacts ==
  ASSUME NEW size \in Sizes
  PROVE  BlockCount(size) \in Nat \ {0}
<1>1. BLOCK_SIZE \in Nat \ {0} /\ size \in Nat \ {0}
  BY KernelMemoryAssumption
<1>2. PICK a \in Nat : a = size + BLOCK_SIZE - 1 /\ a >= BLOCK_SIZE
  BY <1>1
<1>3. PICK q \in Int : q = a \div BLOCK_SIZE /\ q >= 1
  BY <1>1, <1>2
<1> QED BY <1>2, <1>3 DEF BlockCount

\* How many blocks the first i segments of a list take.
Ends(segs) == RunningSum([i \in DOMAIN segs |-> BlockCount(segs[i].size)])

LEMMA EndsFacts ==
  ASSUME NEW segs \in Seq(Segment)
  PROVE  /\ \A i \in 0 .. Len(segs) : Ends(segs)[i] \in Nat
         /\ Ends(segs)[0] = 0
         /\ \A i \in 1 .. Len(segs) :
              /\ BlockCount(segs[i].size) \in Nat \ {0}
              /\ Ends(segs)[i] = Ends(segs)[i - 1] + BlockCount(segs[i].size)
         /\ \A i, j \in 0 .. Len(segs) : i <= j => Ends(segs)[i] <= Ends(segs)[j]
<1> DEFINE n == Len(segs)
           c == [i \in DOMAIN segs |-> BlockCount(segs[i].size)]
<1>1. n \in Nat /\ DOMAIN segs = 1 .. n /\ \A i \in 1 .. n : segs[i] \in Segment
  BY SegmentsSized
<1>2. \A i \in 1 .. n : BlockCount(segs[i].size) \in Nat \ {0}
  BY <1>1, SegmentFacts, BlockCountFacts
<1>3. c \in [1 .. n -> Int] /\ \A i \in 1 .. n : c[i] = BlockCount(segs[i].size)
  BY <1>1, <1>2
<1>4. Ends(segs) = RunningSum(c)
  BY DEF Ends
<1> HIDE DEF c, n
<1>5. c \in Seq(Int) /\ Len(c) = n
  BY <1>1, <1>3, FunctionIsList
<1>6. \A i \in 1 .. Len(c) : c[i] >= 0
  BY <1>2, <1>3, <1>5
<1>7. /\ RunningSum(c)[0] = 0
      /\ \A i \in 1 .. n : RunningSum(c)[i] = RunningSum(c)[i - 1] + BlockCount(segs[i].size)
  BY <1>3, <1>5, SumType
<1>8. ASSUME NEW i \in 0 .. n, NEW j \in 0 .. n, i <= j
      PROVE  RunningSum(c)[i] \in Nat /\ RunningSum(c)[i] <= RunningSum(c)[j]
  <2>1. i \in Nat /\ j \in Nat /\ j <= Len(c)
    BY <1>1, <1>5
  <2> QED BY <1>5, <1>6, <1>8, <2>1, SumGrows
<1>9. \A i \in 0 .. n : RunningSum(c)[i] \in Nat
  BY <1>8
<1> QED BY <1>2, <1>4, <1>7, <1>8, <1>9 DEF n

\* The t-th block copied is the k-th of some segment, after all the blocks of
\* the segments before it; and every block of every segment has its turn.
LEMMA Wanted ==
  ASSUME NEW segs \in Seq(Segment)
  PROVE  LET n == Ends(segs)[Len(segs)]
             w == BlocksWanted(segs)
         IN  /\ n \in Nat /\ DOMAIN w = 1 .. n /\ Len(w) = n
             /\ \A t \in 1 .. n : \E i \in 1 .. Len(segs) :
                  \E k \in 1 .. BlockCount(segs[i].size) :
                    t = Ends(segs)[i - 1] + k /\ w[t] = suspend_segment(segs[i])[k]
             /\ \A i \in 1 .. Len(segs) : \A k \in 1 .. BlockCount(segs[i].size) :
                  /\ Ends(segs)[i - 1] + k \in 1 .. n
                  /\ w[Ends(segs)[i - 1] + k] = suspend_segment(segs[i])[k]
<1> DEFINE f == Ends(segs)
           m == Len(segs)
           n == f[m]
           w == BlocksWanted(segs)
           at(t) == Min({j \in DOMAIN segs : t <= f[j]})
<1>1. m \in Nat /\ DOMAIN segs = 1 .. m
  BY SegmentsSized
<1>2. /\ \A i \in 0 .. m : f[i] \in Nat
      /\ f[0] = 0
      /\ \A i \in 1 .. m : /\ BlockCount(segs[i].size) \in Nat \ {0}
                           /\ f[i] = f[i - 1] + BlockCount(segs[i].size)
      /\ \A i, j \in 0 .. m : i <= j => f[i] <= f[j]
  BY EndsFacts
<1>3. w = [t \in 1 .. n |-> suspend_segment(segs[at(t)])[t - f[at(t) - 1]]]
  BY DEF BlocksWanted, Ends
<1> HIDE DEF f, m, w
<1>4. n \in Nat
  BY <1>1, <1>2
<1>5. DOMAIN w = 1 .. n /\ Len(w) = n
  <2> HIDE DEF n, at
  <2>1. DOMAIN w = 1 .. n
    BY <1>3
  <2>2. w = [t \in 1 .. n |-> w[t]]
    BY <1>3
  <2>3. w \in Seq({w[t] : t \in 1 .. n})
    BY <1>4, <2>2
  <2> QED BY <1>4, <2>1, <2>3
<1>6. ASSUME NEW t \in 1 .. n
      PROVE  \E i \in 1 .. m : \E k \in 1 .. BlockCount(segs[i].size) :
               t = f[i - 1] + k /\ w[t] = suspend_segment(segs[i])[k]
  <2> DEFINE J == {j \in DOMAIN segs : t <= f[j]}
             i == Min(J)
  <2>1. t \in Nat /\ t >= 1 /\ t <= f[m]
    BY <1>4
  <2>2. m # 0
    BY <1>2, <2>1
  <2>3. m \in J /\ J \in SUBSET Nat
    BY <1>1, <2>1, <2>2
  <2>4. i \in J /\ \A j \in J : i <= j
    BY <2>3, MinFacts
  <2>5. i \in 1 .. m /\ t <= f[i]
    BY <1>1, <2>4
  <2>6. w[t] = suspend_segment(segs[i])[t - f[i - 1]]
    BY <1>3
  <2> HIDE DEF i
  <2>7. f[i - 1] < t
    <3>1. CASE i = 1
      BY <1>2, <2>1, <3>1
    <3>2. CASE i # 1
      <4>1. i - 1 \in 1 .. m /\ ~(i <= i - 1)
        BY <1>1, <2>5, <3>2
      <4>2. i - 1 \notin J
        BY <2>4, <4>1
      <4>3. ~(t <= f[i - 1])
        BY <1>1, <4>1, <4>2
      <4>4. f[i - 1] \in Nat
        BY <1>1, <1>2, <4>1
      <4> QED BY <2>1, <4>3, <4>4
    <3> QED BY <3>1, <3>2
  <2>8. PICK p \in Nat : p = f[i - 1]
    <3>1. i - 1 \in 0 .. m
      BY <1>1, <2>5
    <3> QED BY <1>2, <3>1
  <2>9. PICK c \in Nat : c = BlockCount(segs[i].size) /\ t <= p + c
    BY <1>2, <2>5, <2>8
  <2>10. PICK k \in Nat : k = t - p /\ k \in 1 .. c /\ t = p + k
    <3>1. p < t
      BY <2>7, <2>8
    <3>2. t - p \in Nat /\ t - p \in 1 .. c /\ t = p + (t - p)
      BY <2>1, <2>9, <3>1
    <3> QED BY <3>2
  <2>11. k \in 1 .. BlockCount(segs[i].size) /\ t = f[i - 1] + k
    BY <2>8, <2>9, <2>10
  <2>12. w[t] = suspend_segment(segs[i])[k]
    BY <2>6, <2>8, <2>10
  <2> QED BY <2>5, <2>11, <2>12
<1>7. ASSUME NEW i \in 1 .. m, NEW k \in 1 .. BlockCount(segs[i].size)
      PROVE  /\ f[i - 1] + k \in 1 .. n
             /\ w[f[i - 1] + k] = suspend_segment(segs[i])[k]
  <2>1. i - 1 \in 0 .. m /\ i \in 0 .. m /\ m \in 0 .. m /\ i <= m
    BY <1>1
  <2>2. PICK p \in Nat : p = f[i - 1]
    BY <1>2, <2>1
  <2>3. PICK c \in Nat : c = BlockCount(segs[i].size) /\ f[i] = p + c
    BY <1>2, <2>2
  <2>4. PICK z \in Nat : z = n /\ p + c <= z
    BY <1>2, <1>4, <2>1, <2>3
  <2>5. k \in Nat /\ k >= 1 /\ k <= c
    BY <2>3
  <2>6. p + k \in 1 .. z /\ p + k <= p + c /\ p < p + k
    BY <2>4, <2>5
  <2> DEFINE t == p + k
             J == {j \in DOMAIN segs : t <= f[j]}
  <2>7. i \in J /\ J \in SUBSET Nat
    BY <1>1, <2>3, <2>6
  <2>8. Min(J) \in J /\ \A j \in J : Min(J) <= j
    BY <2>7, MinFacts
  <2>9. \A j \in J : i <= j
    <3> SUFFICES ASSUME NEW j \in J, ~(i <= j) PROVE FALSE
      OBVIOUS
    <3>1. j \in 0 .. m /\ j <= i - 1
      BY <1>1
    <3>2. f[j] \in Nat /\ f[j] <= p
      BY <1>2, <2>1, <2>2, <3>1
    <3>3. t <= f[j] /\ t \in Nat
      BY <2>5
    <3> QED BY <2>5, <3>2, <3>3
  <2>10. Min(J) = i
    <3>1. Min(J) \in Nat /\ Min(J) <= i /\ i <= Min(J) /\ i \in Nat
      BY <2>7, <2>8, <2>9
    <3> QED BY <3>1
  <2>11. w[t] = suspend_segment(segs[i])[t - p]
    BY <1>3, <2>2, <2>4, <2>6, <2>10
  <2>12. t - p = k
    BY <2>5
  <2> QED BY <2>2, <2>4, <2>6, <2>11, <2>12
<1> QED BY <1>4, <1>5, <1>6, <1>7 DEF f, m, w

Copy == [entry : BlockData, bytes : [1 .. BLOCK_SIZE -> Byte]]

\* The copies of segments of the table: their bytes are all in the sticks.
LEMMA WantedType ==
  ASSUME MemoryInv, NEW segs \in Seq(Segment), ToSet(segs) \subseteq ToSet(segments)
  PROVE  /\ \A t \in 1 .. Len(BlocksWanted(segs)) : BlocksWanted(segs)[t] \in Copy
         /\ \A i \in 1 .. Len(segs) : \A k \in 1 .. BlockCount(segs[i].size) :
              suspend_segment(segs[i])[k].entry =
                [pid |-> segs[i].pid, segment_number |-> segs[i].id,
                 segment_block_number |-> k - 1, segment_size |-> segs[i].size]
<1>1. ASSUME NEW i \in 1 .. Len(segs), NEW k \in 1 .. BlockCount(segs[i].size)
      PROVE  /\ suspend_segment(segs[i])[k] \in Copy
             /\ suspend_segment(segs[i])[k].entry =
                  [pid |-> segs[i].pid, segment_number |-> segs[i].id,
                   segment_block_number |-> k - 1, segment_size |-> segs[i].size]
  <2> DEFINE s == segs[i]
             address == s.base + (k - 1) * BLOCK_SIZE
             len == BlockBytes(s.size, k - 1)
             e == [pid |-> s.pid, segment_number |-> s.id,
                   segment_block_number |-> k - 1, segment_size |-> s.size]
             data == read_from_sticks(sticks, address, len)
  <2>1. s \in Segment /\ s \in ToSet(segments)
    <3>1. s \in Segment /\ i \in DOMAIN segs
      BY SegmentsSized
    <3> QED BY <3>1 DEF ToSet
  <2>2. /\ s.pid \in Pid /\ s.id \in SegId /\ s.size \in Sizes
        /\ s.base \in Nat /\ s.size \in Nat /\ s.base + s.size <= total_size
    <3>1. Area(s, total_size)
      BY <2>1, PartitionFacts DEF MemoryInv, Tables
    <3> QED BY <2>1, <3>1, SegmentFacts DEF Area
  <2>3. BlockCount(s.size) \in Nat
    BY <2>2, BlockCountFacts
  <2>4. k - 1 \in Nat
    BY <2>3
  <2>5. suspend_segment(s)[k] = [entry |-> e, bytes |-> Padded(data)]
    BY DEF suspend_segment
  <2> HIDE DEF s
  <2>6. PICK m \in Nat : m = (k - 1) * BLOCK_SIZE
    BY <2>2, <2>4, BlockBytesFacts
  <2>7. PICK z \in Int : z = len /\ m + z <= s.size
    BY <2>2, <2>4, <2>6, BlockBytesFacts
  <2>8. PICK c \in Nat : c = address
    BY <2>2, <2>6
  <2>9. PICK sum \in Nat : sum = RunningSum(StickLengths(sticks))[Len(sticks)] /\ total_size <= sum
    BY CountedAreThere
  <2>10. c + z <= sum
    <3>1. PICK u \in Nat : u = s.base
      BY <2>2
    <3>2. PICK v \in Nat : v = s.size
      BY <2>2
    <3>3. c = u + m /\ m + z <= v /\ u + v <= total_size /\ total_size \in Nat
      BY <2>2, <2>6, <2>7, <2>8, <3>1, <3>2 DEF MemoryInv, KMTypeOK
    <3> QED BY <2>9, <3>3
  <2>11. read_from_sticks(sticks, c, z) \in Seq(Byte)
    <3>1. sticks \in Seq(Seq(Byte))
      BY DEF MemoryInv, KMTypeOK
    <3> QED BY <2>9, <2>10, <3>1, ReadType
  <2>12. data \in Seq(Byte)
    BY <2>7, <2>8, <2>11
  <2> HIDE DEF data, address, len
  <2>13. Padded(data) \in [1 .. BLOCK_SIZE -> Byte]
    <3>1. \A j \in 1 .. BLOCK_SIZE : (IF j <= Len(data) THEN data[j] ELSE Blank) \in Byte
      <4> TAKE j \in 1 .. BLOCK_SIZE
      <4>1. Blank \in Byte
        BY DEF Byte
      <4>2. CASE j <= Len(data)
        <5>1. j \in 1 .. Len(data)
          BY <2>12, <4>2, KernelMemoryAssumption
        <5> QED BY <2>12, <4>2, <5>1, ElementOfSeq
      <4> QED BY <4>1, <4>2
    <3> QED BY <3>1 DEF Padded
  <2>14. e \in BlockData
    BY <2>2, <2>4 DEF BlockData
  <2> HIDE DEF e
  <2> QED BY <2>5, <2>13, <2>14 DEF Copy, e, s
<1>2. ASSUME NEW t \in 1 .. Len(BlocksWanted(segs)) PROVE BlocksWanted(segs)[t] \in Copy
  <2>1. PICK i \in 1 .. Len(segs) : \E k \in 1 .. BlockCount(segs[i].size) :
               BlocksWanted(segs)[t] = suspend_segment(segs[i])[k]
    BY Wanted
  <2> QED BY <1>1, <2>1
<1> QED BY <1>1, <1>2

LEMMA BlockSet ==
  IsFiniteSet(Block) /\ Block \subseteq Nat
<1>1. BLOCKS \in Nat
  BY KernelMemoryAssumption
<1>2. IsFiniteSet(0 .. BLOCKS - 1)
  BY <1>1, FS_Interval
<1> QED BY <1>1, <1>2 DEF Block

LEMMA TurnFacts ==
  ASSUME NEW free \in SUBSET Block, NEW b \in free
  PROVE  Turn(free, b) \in Nat \ {0}
<1> DEFINE C == {c \in free : c <= b}
<1>1. IsFiniteSet(C)
  BY BlockSet, FS_Subset
<1>2. b \in C
  BY BlockSet
<1>3. Cardinality(C) \in Nat /\ Cardinality(C) # 0
  <2>1. C # {}
    BY <1>2
  <2> HIDE DEF C
  <2> QED BY <1>1, <2>1, FS_EmptySet, FS_CardinalityType
<1> QED BY <1>3 DEF Turn

\* The segments of a process, in the order of the table.
LEMMA MineFacts ==
  ASSUME NEW segs \in Seq(Segment), NEW p
  PROVE  LET mine == filter_process_segments(segs, p)
         IN  /\ mine \in Seq(Segment) /\ ToSet(mine) \subseteq ToSet(segs)
             /\ \A k \in 1 .. Len(mine) : mine[k].pid = p
             /\ \A i \in 1 .. Len(segs) : segs[i].pid = p
                  => \E k \in 1 .. Len(mine) : mine[k] = segs[i]
             /\ IdsOf(mine) \in Seq(SegId) /\ Len(IdsOf(mine)) = Len(mine)
             /\ \A k \in 1 .. Len(mine) : IdsOf(mine)[k] = mine[k].id
<1> DEFINE mine == filter_process_segments(segs, p)
<1>1. mine \in Seq(Segment) /\ Filtered(segs, p, Len(segs), mine)
  BY FilterFacts
<1> HIDE DEF mine
<1>2. /\ Len(mine) \in Nat /\ DOMAIN mine = 1 .. Len(mine) /\ DOMAIN segs = 1 .. Len(segs)
      /\ \A k \in 1 .. Len(mine) : mine[k] \in Segment
  BY <1>1, SegmentsSized
<1>3. ToSet(mine) \subseteq ToSet(segs)
  BY <1>1, <1>2 DEF Filtered, ToSet
<1>4. IdsOf(mine) \in [1 .. Len(mine) -> SegId] /\ \A k \in 1 .. Len(mine) : IdsOf(mine)[k] = mine[k].id
  BY <1>2, SegmentFacts DEF IdsOf
<1>5. IdsOf(mine) \in Seq(SegId) /\ Len(IdsOf(mine)) = Len(mine)
  BY <1>2, <1>4, FunctionIsList
<1> QED BY <1>1, <1>2, <1>3, <1>4, <1>5 DEF Filtered, mine

\* What suspend_process does, with its local definitions named.
Free == {b \in Block : block_list[b] = FreeBlock}
WantedOf(p) == BlocksWanted(filter_process_segments(segments, p))
CopiedFor(p) == {b \in Free : Turn(Free, b) <= Len(WantedOf(p))}

LEMMA SuspendSteps ==
  ASSUME MemoryInv, NEW p \in Pid, suspend_process(p)
  PROVE  /\ job = Idle /\ status[p] = "resident"
         /\ UNCHANGED <<tableVars, stickVars, swap_connected, status, ghostVars>>
         /\ block_list' = [b \in Block |-> IF b \in CopiedFor(p)
                                           THEN WantedOf(p)[Turn(Free, b)].entry
                                           ELSE block_list[b]]
         /\ disk' = [b \in Block |-> IF b \in CopiedFor(p)
                                     THEN WantedOf(p)[Turn(Free, b)].bytes
                                     ELSE disk[b]]
         /\ job' = IF SuspensionComplete(Free, WantedOf(p))
                   THEN Removing(p, IdsOf(filter_process_segments(segments, p)), "suspended")
                   ELSE Idle
BY DEF suspend_process, Free, WantedOf, CopiedFor

\* A copied block receives a copy.
LEMMA CopiedType ==
  ASSUME MemoryInv, NEW p \in Pid, NEW b \in CopiedFor(p)
  PROVE  /\ Turn(Free, b) \in 1 .. Len(WantedOf(p))
         /\ WantedOf(p)[Turn(Free, b)].entry \in BlockData
         /\ WantedOf(p)[Turn(Free, b)].bytes \in [1 .. BLOCK_SIZE -> Byte]
<1> DEFINE mine == filter_process_segments(segments, p)
<1>1. segments \in Seq(Segment)
  BY DEF MemoryInv, KMTypeOK
<1>2. mine \in Seq(Segment) /\ ToSet(mine) \subseteq ToSet(segments)
  BY <1>1, MineFacts
<1>3. b \in Free /\ Turn(Free, b) <= Len(WantedOf(p)) /\ Free \in SUBSET Block
  BY DEF CopiedFor, Free
<1>4. WantedOf(p) = BlocksWanted(mine)
  BY DEF WantedOf
<1> HIDE DEF mine
<1>5. Len(BlocksWanted(mine)) \in Nat
  BY <1>2, Wanted
<1>6. Turn(Free, b) \in 1 .. Len(WantedOf(p))
  BY <1>3, <1>4, <1>5, TurnFacts
<1>7. WantedOf(p)[Turn(Free, b)] \in Copy
  BY <1>2, <1>4, <1>6, WantedType
<1> QED BY <1>6, <1>7 DEF Copy

SwapType ==
  /\ swap_connected \in BOOLEAN
  /\ block_list \in [Block -> BlockData \cup {FreeBlock}]
  /\ disk \in [Block -> [1 .. BLOCK_SIZE -> Byte]]

LEMMA SwapStep ==
  ASSUME MemoryInv, [Next]_vars
  PROVE  SwapType'
<1>0. SwapType
  BY DEF MemoryInv, KMTypeOK, SwapType
<1>1. ASSUME UNCHANGED swapVars PROVE SwapType'
  BY <1>0, <1>1 DEF SwapType, swapVars
<1>2. ASSUME init_swap_data PROVE SwapType'
  BY <1>0, <1>2 DEF SwapType, init_swap_data
<1>3. ASSUME NEW p \in Pid, suspend_process(p) PROVE SwapType'
  <2>1. \A b \in CopiedFor(p) : /\ WantedOf(p)[Turn(Free, b)].entry \in BlockData
                                /\ WantedOf(p)[Turn(Free, b)].bytes \in [1 .. BLOCK_SIZE -> Byte]
    BY CopiedType
  <2>2. block_list' \in [Block -> BlockData \cup {FreeBlock}]
    BY <1>0, <1>3, <2>1, SuspendSteps DEF SwapType
  <2>3. disk' \in [Block -> [1 .. BLOCK_SIZE -> Byte]]
    BY <1>0, <1>3, <2>1, SuspendSteps DEF SwapType
  <2>4. swap_connected' = swap_connected
    BY <1>3, SuspendSteps
  <2> QED BY <1>0, <2>2, <2>3, <2>4 DEF SwapType
<1>4. ASSUME resume_block PROVE SwapType'
  <2>1. /\ UNCHANGED <<swap_connected, disk>>
        /\ block_list' = block_list
           \/ block_list' = [block_list EXCEPT ![Min(BlocksLeft)] = FreeBlock]
    BY <1>4 DEF resume_block
  <2> QED BY <1>0, <2>1 DEF SwapType
<1>5. ASSUME \/ add_stick_connection \/ add_total_memory \/ compact_memory
             \/ find_and_remove_segment \/ remove_segment \/ removal_done \/ resume_done
             \/ UNCHANGED vars
      PROVE  UNCHANGED swapVars
  BY <1>5 DEF add_stick_connection, add_total_memory, compact_memory, find_and_remove_segment,
              remove_segment, removal_done, resume_done, vars
<1>6. ASSUME NEW p \in Pid,
             handle_new_process(p) \/ handle_end_process(p) \/ resume_process(p)
      PROVE  UNCHANGED swapVars
  BY <1>6 DEF handle_new_process, handle_end_process, resume_process
<1>7. ASSUME NEW p \in Pid, NEW id \in SegId, handle_delete_segment(p, id)
      PROVE  UNCHANGED swapVars
  BY <1>7 DEF handle_delete_segment
<1>8. /\ \A p \in Pid, id \in SegId, size \in Sizes :
           handle_create_segment(p, id, size) => UNCHANGED swapVars
      /\ \A p \in Pid, id \in SegId, i \in Inputs :
           handle_stdin_request(p, id, i[1], i[2]) => UNCHANGED swapVars
  BY StdinStep DEF handle_create_segment
<1>9. ASSUME NEW p \in Pid, NEW id \in SegId, NEW off \in 0 .. total_size - 1,
             write_memory(p, id, off)
      PROVE  UNCHANGED swapVars
  BY <1>9 DEF write_memory
<1> QED BY <1>1, <1>2, <1>3, <1>4, <1>5, <1>6, <1>7, <1>8, <1>9 DEF Next

LEMMA RemovingType ==
  ASSUME NEW p \in Pid, NEW ids \in Seq(SegId), NEW after \in {"resident", "suspended", "ended"}
  PROVE  Removing(p, ids, after) \in Request
BY DEF Removing, Request

LEMMA JobStep ==
  ASSUME MemoryInv, [Next]_vars
  PROVE  job' \in Request
<1>0. job \in Request /\ segments \in Seq(Segment) /\ Idle \in Request /\ Crashed \in Request
  BY DEF MemoryInv, KMTypeOK, Request
<1>1. ASSUME \/ add_stick_connection \/ add_total_memory \/ init_swap_data \/ UNCHANGED vars
      PROVE  job' = job
  BY <1>1 DEF add_stick_connection, add_total_memory, init_swap_data, vars
<1>2. ASSUME NEW p \in Pid, handle_new_process(p) PROVE job' = job
  BY <1>2 DEF handle_new_process
<1>3. ASSUME NEW p \in Pid, handle_end_process(p) PROVE job' \in Request
  <2>1. job' = Removing(p, IdsOf(filter_process_segments(segments, p)), "ended")
    BY <1>3 DEF handle_end_process
  <2>2. IdsOf(filter_process_segments(segments, p)) \in Seq(SegId)
    BY <1>0, MineFacts
  <2> QED BY <2>1, <2>2, RemovingType
<1>4. ASSUME NEW p \in Pid, suspend_process(p) PROVE job' \in Request
  <2>1. \/ job' = Removing(p, IdsOf(filter_process_segments(segments, p)), "suspended")
        \/ job' = Idle
    BY <1>4, SuspendSteps
  <2>2. IdsOf(filter_process_segments(segments, p)) \in Seq(SegId)
    BY <1>0, MineFacts
  <2> QED BY <1>0, <2>1, <2>2, RemovingType
<1>5. ASSUME NEW p \in Pid, resume_process(p) PROVE job' \in Request
  <2>1. job' = [kind |-> "resume", pid |-> p, at |-> 0] /\ 0 \in 0 .. BLOCKS
    BY <1>5, KernelMemoryAssumption DEF resume_process
  <2> QED BY <2>1 DEF Request
<1>6. ASSUME NEW p \in Pid, NEW id \in SegId, NEW size \in Sizes,
             handle_create_segment(p, id, size)
      PROVE  job' \in Request
  <2>1. job' = job \/ job' = [kind |-> "compacting", pid |-> p, id |-> id, size |-> size]
    BY <1>6 DEF handle_create_segment
  <2> QED BY <1>0, <2>1 DEF Request
<1>7. ASSUME NEW p \in Pid, NEW id \in SegId, NEW i \in Inputs,
             handle_stdin_request(p, id, i[1], i[2])
      PROVE  job' \in Request
  BY <1>7, StdinStep DEF Request
<1>8. ASSUME NEW p \in Pid, NEW id \in SegId, handle_delete_segment(p, id)
      PROVE  job' \in Request
  <2>1. job' = Removing(p, <<id>>, "resident") /\ <<id>> \in Seq(SegId)
    BY <1>8 DEF handle_delete_segment
  <2> QED BY <2>1, RemovingType
<1>9. ASSUME NEW p \in Pid, NEW id \in SegId, NEW off \in 0 .. total_size - 1,
             write_memory(p, id, off)
      PROVE  job' = job
  BY <1>9 DEF write_memory
<1>10. ASSUME compact_memory \/ removal_done \/ resume_done PROVE job' = Idle
  BY <1>10 DEF compact_memory, removal_done, resume_done
<1>11. ASSUME find_and_remove_segment PROVE job' \in Request
  <2> DEFINE x == find_segment_by_id(segments, job.pid, Head(job.todo))
  <2>1. /\ job.kind = "remove" /\ job.todo # <<>>
        /\ job' = [job EXCEPT !.todo = Tail(@), !.seg = x]
    BY <1>11 DEF find_and_remove_segment
  <2>2. x \in Segment \cup {NoSegment}
    BY <1>0, Found
  <2>3. job \in [kind : {"remove"}, pid : Pid, todo : Seq(SegId),
                 seg : Segment \cup {NoSegment}, after : {"resident", "suspended", "ended"}]
    BY <1>0, <2>1, RequestFacts
  <2> HIDE DEF x
  <2>4. Tail(job.todo) \in Seq(SegId)
    BY <2>1, <2>3
  <2>5. job' \in [kind : {"remove"}, pid : Pid, todo : Seq(SegId),
                  seg : Segment \cup {NoSegment}, after : {"resident", "suspended", "ended"}]
    BY <2>1, <2>2, <2>3, <2>4
  <2> QED BY <2>5 DEF Request
<1>12. ASSUME remove_segment PROVE job' \in Request
  <2>1. job.kind = "remove" /\ job' = [job EXCEPT !.seg = NoSegment]
    BY <1>12 DEF remove_segment
  <2>2. job \in [kind : {"remove"}, pid : Pid, todo : Seq(SegId),
                 seg : Segment \cup {NoSegment}, after : {"resident", "suspended", "ended"}]
    BY <1>0, <2>1, RequestFacts
  <2>3. job' \in [kind : {"remove"}, pid : Pid, todo : Seq(SegId),
                  seg : Segment \cup {NoSegment}, after : {"resident", "suspended", "ended"}]
    BY <2>1, <2>2
  <2> QED BY <2>3 DEF Request
<1>13. ASSUME resume_block PROVE job' \in Request
  <2> DEFINE b == Min(BlocksLeft)
  <2>1. /\ job.kind = "resume" /\ BlocksLeft # {}
        /\ job' = Idle \/ job' = Crashed \/ job' = [job EXCEPT !.at = b + 1]
    BY <1>13 DEF resume_block
  <2>2. b \in Block
    BY <2>1, NextBlock
  <2> HIDE DEF b
  <2>3. b + 1 \in 0 .. BLOCKS
    BY <2>2, KernelMemoryAssumption DEF Block
  <2>4. job \in [kind : {"resume"}, pid : Pid, at : 0 .. BLOCKS]
    BY <1>0, <2>1, RequestFacts
  <2>5. [job EXCEPT !.at = b + 1] \in [kind : {"resume"}, pid : Pid, at : 0 .. BLOCKS]
    BY <2>3, <2>4
  <2> QED BY <1>0, <2>1, <2>5 DEF Request
<1> QED BY <1>0, <1>1, <1>2, <1>3, <1>4, <1>5, <1>6, <1>7, <1>8, <1>9, <1>10, <1>11, <1>12,
           <1>13 DEF Next

KnownType ==
  /\ status \in [Pid -> {"none", "resident", "suspended", "ended"}]
  /\ owned \in [Pid -> SUBSET SegId]
  /\ written \subseteq Pid \X SegId \X Nat /\ writes \in 0 .. MaxWrites

LEMMA KnownStep ==
  ASSUME MemoryInv, [Next]_vars
  PROVE  KnownType'
<1>0. KnownType /\ job \in Request
  BY DEF MemoryInv, KMTypeOK, KnownType
<1>1. ASSUME UNCHANGED <<status, ghostVars>> PROVE KnownType'
  BY <1>0, <1>1 DEF KnownType, ghostVars
<1>2. ASSUME \/ add_stick_connection \/ add_total_memory \/ init_swap_data \/ UNCHANGED vars
             \/ find_and_remove_segment \/ remove_segment \/ resume_block
      PROVE  UNCHANGED <<status, ghostVars>>
  BY <1>2 DEF add_stick_connection, add_total_memory, init_swap_data, vars,
              find_and_remove_segment, remove_segment, resume_block
<1>3. ASSUME NEW p \in Pid, suspend_process(p) \/ resume_process(p)
      PROVE  UNCHANGED <<status, ghostVars>>
  BY <1>3 DEF suspend_process, resume_process
<1>4. ASSUME NEW p \in Pid, handle_new_process(p) PROVE KnownType'
  BY <1>0, <1>4 DEF handle_new_process, KnownType, ghostVars
<1>5. ASSUME NEW p \in Pid, handle_end_process(p) PROVE KnownType'
  BY <1>0, <1>5 DEF handle_end_process, KnownType
<1>6. ASSUME NEW p \in Pid, NEW id \in SegId, handle_delete_segment(p, id) PROVE KnownType'
  BY <1>0, <1>6 DEF handle_delete_segment, KnownType
<1>7. ASSUME NEW p \in Pid, NEW id \in SegId, NEW size \in Sizes,
             handle_create_segment(p, id, size)
      PROVE  KnownType'
  <2>1. UNCHANGED <<status, written, writes>>
        /\ (owned' = owned \/ owned' = [owned EXCEPT ![p] = @ \cup {id}])
    BY <1>7 DEF handle_create_segment
  <2> QED BY <1>0, <2>1 DEF KnownType
<1>8. ASSUME compact_memory PROVE KnownType'
  <2>1. job.kind = "compacting" /\ UNCHANGED <<status, written, writes>>
        /\ owned' = [owned EXCEPT ![job.pid] = @ \cup {job.id}]
    BY <1>8 DEF compact_memory
  <2>2. job.pid \in Pid /\ job.id \in SegId
    BY <1>0, <2>1, RequestFacts
  <2> QED BY <1>0, <2>1, <2>2 DEF KnownType
<1>9. ASSUME removal_done PROVE KnownType'
  <2>1. /\ job.kind = "remove" /\ UNCHANGED ghostVars
        /\ status' = [status EXCEPT ![job.pid] = job.after]
    BY <1>9 DEF removal_done
  <2>2. job.after \in {"resident", "suspended", "ended"}
    BY <1>0, <2>1, RequestFacts
  <2> QED BY <1>0, <2>1, <2>2 DEF KnownType, ghostVars
<1>10. ASSUME resume_done PROVE KnownType'
  <2>1. /\ job.kind = "resume" /\ UNCHANGED ghostVars
        /\ status' = [status EXCEPT ![job.pid] = IF job.at > 0 THEN "resident" ELSE @]
    BY <1>10 DEF resume_done
  <2>2. job.pid \in Pid
    BY <1>0, <2>1, RequestFacts
  <2> QED BY <1>0, <2>1, <2>2 DEF KnownType, ghostVars
<1>11. ASSUME NEW p \in Pid, NEW id \in SegId, NEW address, NEW off \in Nat, NEW len \in Nat,
              Write(p, id, address, off, len), UNCHANGED <<status, owned>>
       PROVE  KnownType'
  <2>1. writes' \in 0 .. MaxWrites
    BY <1>0, <1>11, KernelMemoryAssumption DEF Write, KnownType
  <2>2. Meant(p, id, off, len) \subseteq Pid \X SegId \X Nat
    BY DEF Meant
  <2>3. written' = written \cup Meant(p, id, off, len)
    BY <1>11 DEF Write
  <2> QED BY <1>0, <1>11, <2>1, <2>2, <2>3 DEF KnownType
<1>12. ASSUME NEW p \in Pid, NEW id \in SegId, NEW i \in Inputs,
              handle_stdin_request(p, id, i[1], i[2])
       PROVE  KnownType'
  <2>1. PICK off \in Nat : off = i[1]
    BY <1>12, StdinStep
  <2>2. PICK len \in Nat : len = i[2]
    BY <1>12, StdinStep
  <2>3. PICK address : Write(p, id, address, off, len)
    BY <1>12, <2>1, <2>2, StdinStep
  <2>4. UNCHANGED <<status, owned>>
    BY <1>12, StdinStep
  <2> QED BY <1>11, <2>3, <2>4
<1>13. ASSUME NEW p \in Pid, NEW id \in SegId, NEW off \in 0 .. total_size - 1,
              write_memory(p, id, off)
       PROVE  KnownType'
  <2>1. off \in Nat /\ 1 \in Nat
    BY DEF MemoryInv, KMTypeOK
  <2>2. /\ Write(p, id, find_segment_by_id(segments, p, id).base + off, off, 1)
        /\ UNCHANGED <<status, owned>>
    BY <1>13 DEF write_memory
  <2> QED BY <1>11, <2>1, <2>2
<1> QED BY <1>1, <1>2, <1>3, <1>4, <1>5, <1>6, <1>7, <1>8, <1>9, <1>10, <1>12, <1>13 DEF Next

-----------------------------------------------------------------------------
(* The invariant.                                                          *)

LEMMA MemoryInit ==
  ASSUME Init
  PROVE  MemoryInv
<1>1. KMTypeOK
  <2>1. BLOCK_SIZE \in Nat /\ MaxWrites \in Nat
    BY KernelMemoryAssumption
  <2>2. /\ holes \in Seq(Hole) /\ segments \in Seq(Segment) /\ total_size \in Nat
        /\ sticks \in Seq(Seq(Byte)) /\ accepting \in BOOLEAN /\ swap_connected \in BOOLEAN
    <3>1. <<>> \in Seq(Hole) /\ <<>> \in Seq(Segment) /\ <<>> \in Seq(Seq(Byte))
      OBVIOUS
    <3>2. /\ holes = <<>> /\ segments = <<>> /\ total_size = 0 /\ sticks = <<>>
          /\ accepting = FALSE /\ swap_connected = FALSE
      BY DEF Init
    <3> QED BY <3>1, <3>2
  <2>3. /\ block_list \in [Block -> BlockData \cup {FreeBlock}]
        /\ disk \in [Block -> [1 .. BLOCK_SIZE -> Byte]]
    BY DEF Init, Byte
  <2>4. job \in Request
    BY DEF Init, Request
  <2>5. /\ status \in [Pid -> {"none", "resident", "suspended", "ended"}]
        /\ owned \in [Pid -> SUBSET SegId]
        /\ written \subseteq Pid \X SegId \X Nat /\ writes \in 0 .. MaxWrites
    BY <2>1 DEF Init
  <2> QED BY <2>2, <2>3, <2>4, <2>5 DEF KMTypeOK
<1>2. Tables
  <2>1. /\ holes = <<>> /\ segments = <<>> /\ total_size = 0 /\ InHand = {} /\ HandSize = 0
    BY NothingInHand DEF Init, Idle
  <2>2. Tiles({} \cup ({} \cup {}), 0) /\ NoneTouch({})
    BY DEF Tiles, Separate, NoneTouch
  <2>3. Partition(<<>>, <<>>, {}, 0, 0)
    <3>1. <<>> \in Seq(Hole) /\ <<>> \in Seq(Segment) /\ {} \subseteq Segment
      OBVIOUS
    <3>2. {} \cap ToSet(<<>>) = {}
      OBVIOUS
    <3>3. Tiles(ToSet(<<>>) \cup (ToSet(<<>>) \cup {}), 0) /\ NoneTouch(ToSet(<<>>))
      BY <2>2, EmptyList
    <3>4. TotalSize(<<>>) + TotalSize(<<>>) + 0 = 0
      BY EmptyList
    <3> QED BY <3>1, <3>2, <3>3, <3>4, EmptyList DEF Partition
  <2> QED BY <2>1, <2>3 DEF Tables
<1>3. CompactionFits
  BY DEF Init, Idle, CompactionFits
<1>4. SticksCounted
  <2>1. sticks = <<>> /\ accepting = FALSE /\ total_size = 0 /\ Len(sticks) = 0
    BY DEF Init
  <2>2. sticks \in Seq(Seq(Byte))
    BY <2>1
  <2>3. StickLengths(sticks) \in Seq(Int)
    BY <2>2, StickFacts
  <2>4. RunningSum(StickLengths(sticks))[0] = 0
    BY <2>3, SumType
  <2> QED BY <2>1, <2>4 DEF SticksCounted
<1> QED BY <1>1, <1>2, <1>3, <1>4 DEF MemoryInv

LEMMA MemoryStep ==
  ASSUME MemoryInv, [Next]_vars
  PROVE  MemoryInv'
<1>1. Tables' /\ CompactionFits'
  BY TablesStep
<1>2. holes' \in Seq(Hole) /\ segments' \in Seq(Segment) /\ total_size' \in Nat
  BY <1>1 DEF Tables, Partition
<1>3. sticks' \in Seq(Seq(Byte)) /\ SticksCounted' /\ accepting' \in BOOLEAN
  BY SticksStep
<1>4. SwapType'
  BY SwapStep
<1>5. job' \in Request
  BY JobStep
<1>6. KnownType'
  BY KnownStep
<1>7. KMTypeOK'
  BY <1>2, <1>3, <1>4, <1>5, <1>6 DEF KMTypeOK, SwapType, KnownType
<1> QED BY <1>1, <1>3, <1>7 DEF MemoryInv

LEMMA MemoryAlways == Spec => []MemoryInv
<1>1. Init => MemoryInv
  BY MemoryInit
<1>2. MemoryInv /\ [Next]_vars => MemoryInv'
  BY MemoryStep
<1> QED BY <1>1, <1>2, PTL DEF Spec

\* Covering and spanning an address are the same for a typed area.
LEMMA CoversIsSpans ==
  ASSUME NEW x, NEW total, Area(x, total), NEW a \in Int
  PROVE  Covers(x, a) <=> Spans(x, a)
<1>1. PICK b \in Nat : b = x.base
  BY DEF Area
<1>2. PICK z \in Nat : z = x.size
  BY DEF Area
<1>3. a \in b .. b + z - 1 <=> b <= a /\ a < b + z
  OBVIOUS
<1> QED BY <1>1, <1>2, <1>3 DEF Covers, Spans

\* An address is covered by at most one index of a list of tiles: by one when
\* the tile that spans it is in the list.
LEMMA CountedOnce ==
  ASSUME NEW X, NEW total \in Nat, Tiles(X, total), NEW a \in 0 .. total - 1,
         NEW x \in X, Spans(x, a), NEW S, NEW s \in Seq(S), IsInjective(s), ToSet(s) \subseteq X
  PROVE  Cardinality({i \in DOMAIN s : Covers(s[i], a)}) = IF x \in ToSet(s) THEN 1 ELSE 0
<1>1. ASSUME NEW y \in X PROVE Covers(y, a) <=> y = x
  <2>1. Area(y, total) /\ Area(x, total)
    BY DEF Tiles
  <2>2. Covers(y, a) <=> Spans(y, a)
    BY <2>1, CoversIsSpans
  <2>3. y = x \/ Apart(y, x)
    BY DEF Tiles, Separate
  <2>4. Apart(y, x) => ~(Spans(y, a) /\ Spans(x, a))
    BY <2>1, Overlap
  <2> QED BY <2>2, <2>3, <2>4
<1>2. \A i \in DOMAIN s : s[i] \in X
  BY DEF ToSet
<1>3. CASE x \in ToSet(s)
  <2>1. PICK j \in DOMAIN s : s[j] = x
    BY <1>3 DEF ToSet
  <2>2. {i \in DOMAIN s : Covers(s[i], a)} = {j}
    BY <1>1, <1>2, <2>1 DEF IsInjective
  <2> QED BY <1>3, <2>2, FS_Singleton
<1>4. CASE x \notin ToSet(s)
  <2>1. {i \in DOMAIN s : Covers(s[i], a)} = {}
    BY <1>1, <1>2, <1>4 DEF ToSet
  <2> QED BY <1>4, <2>1, FS_EmptySet
<1> QED BY <1>3, <1>4

LEMMA TilingFromPartition == MemoryInv => Tiling
<1> SUFFICES ASSUME MemoryInv PROVE Tiling
  OBVIOUS
<1> DEFINE X == ToSet(holes) \cup (ToSet(segments) \cup InHand)
<1>0. Partition(holes, segments, InHand, HandSize, total_size)
  BY DEF MemoryInv, Tables
<1>1. /\ holes \in Seq(Hole) /\ segments \in Seq(Segment) /\ total_size \in Nat
      /\ IsInjective(holes) /\ IsInjective(segments) /\ InHand \cap ToSet(segments) = {}
      /\ Tiles(X, total_size)
  BY <1>0 DEF Partition
<1>2. \A h \in ToSet(holes) : h \notin ToSet(segments) /\ h \notin InHand
  BY <1>0, PartitionFacts
<1>3. ASSUME NEW a \in 0 .. total_size - 1
      PROVE  Cardinality({i \in DOMAIN holes : Covers(holes[i], a)})
             + Cardinality({i \in DOMAIN segments : Covers(segments[i], a)})
             + Cardinality({s \in InHand : Covers(s, a)}) = 1
  <2>1. PICK x \in X : Spans(x, a)
    BY <1>1 DEF Tiles, SomeSpans
  <2> DEFINE u == Cardinality({i \in DOMAIN holes : Covers(holes[i], a)})
             v == Cardinality({i \in DOMAIN segments : Covers(segments[i], a)})
             w == Cardinality({s \in InHand : Covers(s, a)})
  <2>2. u = IF x \in ToSet(holes) THEN 1 ELSE 0
    <3>1. ToSet(holes) \subseteq X
      OBVIOUS
    <3> HIDE DEF X
    <3> QED BY <1>1, <2>1, <3>1, CountedOnce
  <2>3. v = IF x \in ToSet(segments) THEN 1 ELSE 0
    <3>1. ToSet(segments) \subseteq X
      OBVIOUS
    <3> HIDE DEF X
    <3> QED BY <1>1, <2>1, <3>1, CountedOnce
  <2>4. w = IF x \in InHand THEN 1 ELSE 0
    <3>1. ASSUME NEW y \in InHand PROVE Covers(y, a) <=> y = x
      <4>1. y \in X /\ Area(y, total_size) /\ Area(x, total_size)
        BY <1>1, <2>1 DEF Tiles
      <4>2. Covers(y, a) <=> Spans(y, a)
        BY <4>1, CoversIsSpans
      <4>3. y = x \/ Apart(y, x)
        BY <1>1, <2>1, <4>1 DEF Tiles, Separate
      <4>4. Apart(y, x) => ~(Spans(y, a) /\ Spans(x, a))
        BY <1>1, <4>1, Overlap
      <4> QED BY <2>1, <4>2, <4>3, <4>4
    <3>2. CASE x \in InHand
      <4>1. {s \in InHand : Covers(s, a)} = {x}
        BY <3>1, <3>2
      <4> QED BY <3>2, <4>1, FS_Singleton
    <3>3. CASE x \notin InHand
      <4>1. {s \in InHand : Covers(s, a)} = {}
        BY <3>1, <3>3
      <4> QED BY <3>3, <4>1, FS_EmptySet
    <3> QED BY <3>2, <3>3
  <2> HIDE DEF u, v, w
  <2>5. CASE x \in ToSet(holes)
    <3>1. u = 1 /\ v = 0 /\ w = 0
      BY <1>2, <2>2, <2>3, <2>4, <2>5
    <3> QED BY <3>1 DEF u, v, w
  <2>6. CASE x \in ToSet(segments)
    <3>1. u = 0 /\ v = 1 /\ w = 0
      BY <1>1, <1>2, <2>2, <2>3, <2>4, <2>6
    <3> QED BY <3>1 DEF u, v, w
  <2>7. CASE x \in InHand
    <3>1. u = 0 /\ v = 0 /\ w = 1
      BY <1>1, <1>2, <2>2, <2>3, <2>4, <2>7
    <3> QED BY <3>1 DEF u, v, w
  <2> QED BY <2>1, <2>5, <2>6, <2>7
<1>4. \A i \in DOMAIN holes : holes[i].base + holes[i].size <= total_size
  BY <1>1 DEF Tiles, Area, ToSet
<1>5. \A i \in DOMAIN segments : segments[i].base + segments[i].size <= total_size
  BY <1>1 DEF Tiles, Area, ToSet
<1> QED BY <1>3, <1>4, <1>5 DEF Tiling

LEMMA MergedFromPartition == MemoryInv => HolesMerged
<1> SUFFICES ASSUME MemoryInv, NEW i \in DOMAIN holes, NEW j \in DOMAIN holes
             PROVE  holes[i].base + holes[i].size # holes[j].base
  BY DEF HolesMerged
<1>1. NoneTouch(ToSet(holes)) /\ holes[i] \in ToSet(holes) /\ holes[j] \in ToSet(holes)
  BY DEF MemoryInv, Tables, Partition, ToSet
<1> QED BY <1>1 DEF NoneTouch

LEMMA SelectionFromType == MemoryInv => HoleSelection
<1> SUFFICES ASSUME MemoryInv, NEW size \in Sizes
             PROVE  LET fit == {i \in DOMAIN holes : holes[i].size >= size}
                        chosen == hole_selection_algorithm(size, holes)
                    IN  IF fit = {} THEN chosen = NoHole
                        ELSE /\ \E i \in fit : holes[i] = chosen
                             /\ \A i \in fit : IF STRATEGY = "BEST"
                                               THEN chosen.size <= holes[i].size
                                               ELSE chosen.size >= holes[i].size
  BY DEF HoleSelection
<1> DEFINE chosen == hole_selection_algorithm(size, holes)
<1>1. holes \in Seq(Hole) /\ size \in Nat
  BY KernelMemoryAssumption DEF MemoryInv, KMTypeOK
<1>2. /\ Sized(holes) /\ DOMAIN holes = 1 .. Len(holes)
      /\ \A i \in 1 .. Len(holes) : holes[i].size \in Nat
  BY <1>1, HolesSized
<1>3. Best(holes, size, Len(holes), chosen)
  BY <1>1, <1>2, Selection
<1> HIDE DEF chosen
<1> QED BY <1>1, <1>2, <1>3, StrategyAssumption DEF Best, chosen

-----------------------------------------------------------------------------
(* Ranks of free blocks.                                                   *)

\* Blocks in order have turns in order, and every turn up to the number of free
\* blocks is the turn of one of them.
LEMMA TurnOrder ==
  ASSUME NEW free \in SUBSET Block, NEW b \in free, NEW c \in free, Turn(free, c) < Turn(free, b)
  PROVE  c < b
<1> SUFFICES ASSUME b <= c PROVE FALSE
  BY BlockSet
<1> DEFINE B == {x \in free : x <= b}
           C == {x \in free : x <= c}
<1>1. IsFiniteSet(C)
  BY BlockSet, FS_Subset
<1>2. B \in SUBSET C
  <2>1. \A x \in free : x <= b => x <= c
    <3> TAKE x \in free
    <3>1. x \in Nat /\ b \in Nat /\ c \in Nat
      BY BlockSet
    <3> QED BY <3>1
  <2> QED BY <2>1
<1>3. Turn(free, b) = Cardinality(B) /\ Turn(free, c) = Cardinality(C)
  BY DEF Turn
<1> HIDE DEF B, C
<1>4. Cardinality(B) <= Cardinality(C)
  BY <1>1, <1>2, FS_Subset
<1>5. Turn(free, b) \in Nat /\ Turn(free, c) \in Nat
  BY TurnFacts
<1> QED BY <1>3, <1>4, <1>5

LEMMA TurnTaken ==
  ASSUME NEW free \in SUBSET Block, NEW t \in Nat \ {0}, t <= Cardinality(free)
  PROVE  \E b \in free : Turn(free, b) = t
<1> DEFINE R(x) == {c \in free : c <= x}
           T == {x \in Block : t <= Cardinality(R(x))}
<1>1. IsFiniteSet(free) /\ free \subseteq Nat
  BY BlockSet, FS_Subset
<1>2. ASSUME NEW x PROVE IsFiniteSet(R(x)) /\ Cardinality(R(x)) \in Nat
  <2>1. R(x) \in SUBSET free
    OBVIOUS
  <2> HIDE DEF R
  <2> QED BY <1>1, <2>1, FS_Subset, FS_CardinalityType
<1>3. BLOCKS - 1 \in T
  <2>1. BLOCKS \in Nat \ {0}
    BY KernelMemoryAssumption
  <2>2. BLOCKS - 1 \in Block
    BY <2>1 DEF Block
  <2>3. \A c \in free : c <= BLOCKS - 1
    BY <2>1 DEF Block
  <2>4. R(BLOCKS - 1) = free
    BY <2>3
  <2> QED BY <2>2, <2>4
<1>4. PICK x \in T : \A y \in T : x <= y
  <2>1. T \in SUBSET Nat
    BY BlockSet
  <2> HIDE DEF T
  <2> QED BY <1>3, <2>1, Least
<1>5. x \in Block /\ x \in Nat /\ t <= Cardinality(R(x))
  BY <1>4, BlockSet
<1>6. PICK r \in Nat : r = Cardinality(R(x)) /\ t <= r
  BY <1>2, <1>5
<1>7. PICK q \in Nat : q = Cardinality(R(x - 1)) /\ q < t
  <2>1. CASE x = 0
    <3>1. \A c \in free : ~(c <= x - 1)
      BY <1>1, <2>1
    <3>2. Cardinality(R(x - 1)) = 0
      <4>1. R(x - 1) = {}
        BY <3>1
      <4> QED BY <4>1, FS_EmptySet
    <3> QED BY <3>2
  <2>2. CASE x # 0
    <3>1. x - 1 \in Block /\ ~(x <= x - 1)
      BY <1>5, <2>2, KernelMemoryAssumption DEF Block
    <3>2. x - 1 \notin T
      BY <1>4, <3>1
    <3>3. ~(t <= Cardinality(R(x - 1)))
      BY <3>1, <3>2
    <3>4. Cardinality(R(x - 1)) \in Nat
      BY <1>2
    <3> HIDE DEF R
    <3> QED BY <3>3, <3>4
  <2> QED BY <2>1, <2>2
<1>8. CASE x \notin free
  <2>0. \A c \in free : c <= x <=> c <= x - 1
    <3> TAKE c \in free
    <3>1. c \in Nat /\ c # x
      BY <1>1, <1>8
    <3> QED BY <1>5, <3>1
  <2>1. R(x) = R(x - 1)
    BY <2>0
  <2> HIDE DEF R
  <2>2. r = q
    BY <1>6, <1>7, <2>1
  <2> QED BY <1>6, <1>7, <2>2
<1>9. CASE x \in free
  <2>0. /\ \A c \in free : c <= x <=> c <= x - 1 \/ c = x
        /\ ~(x <= x - 1)
    <3>1. ASSUME NEW c \in free PROVE c <= x <=> c <= x - 1 \/ c = x
      <4>1. c \in Nat
        BY <1>1
      <4> QED BY <1>5, <4>1
    <3> QED BY <1>5, <3>1
  <2>1. R(x) = R(x - 1) \cup {x} /\ x \notin R(x - 1)
    BY <1>9, <2>0
  <2> HIDE DEF R
  <2>2. r = q + 1
    BY <1>2, <1>6, <1>7, <2>1, FS_AddElement
  <2>3. r = t
    BY <1>6, <1>7, <2>2
  <2>4. Turn(free, x) = t
    BY <1>6, <2>3 DEF Turn, R
  <2> QED BY <1>9, <2>4
<1> QED BY <1>8, <1>9

-----------------------------------------------------------------------------
(* What the steps do to the segment table and to block_list.               *)

Listed(segs, p, id) == find_segment_by_id(segs, p, id) # NoSegment

Has(S, p, id) == \E s \in S : s.pid = p /\ s.id = id

LEMMA ListedIsHas ==
  ASSUME NEW segs \in Seq(Segment), NEW p, NEW id
  PROVE  find_segment_by_id(segs, p, id) # NoSegment <=> Has(ToSet(segs), p, id)
<1>1. DOMAIN segs = 1 .. Len(segs)
  BY SegmentsSized
<1> DEFINE i == FirstIndex(segs, p, id)
           s == find_segment_by_id(segs, p, id)
<1>2. \/ /\ i \in 1 .. Len(segs) /\ segs[i].pid = p /\ segs[i].id = id /\ s = segs[i]
         /\ s \in Segment /\ s # NoSegment
      \/ /\ i = 0 /\ s = NoSegment
         /\ \A k \in 1 .. Len(segs) : ~(segs[k].pid = p /\ segs[k].id = id)
  BY Found
<1> HIDE DEF i, s
<1>3. s # NoSegment <=> Has(ToSet(segs), p, id)
  BY <1>1, <1>2 DEF Has, ToSet
<1> QED BY <1>3 DEF s

\* A segment that is created is listed, and those listed before still are.
LEMMA ListedAppended ==
  ASSUME segments \in Seq(Segment), NEW x \in Segment, segments' = Append(segments, x)
  PROVE  Listed(segments', x.pid, x.id) /\ \A p, id : Listed(segments, p, id) => Listed(segments', p, id)
<1>1. x.size \in Nat \ {0} /\ Sized(segments)
  BY SegmentFacts, SegmentsSized
<1>2. segments' \in Seq(Segment) /\ ToSet(segments') = ToSet(segments) \cup {x}
  BY <1>1, Appended
<1>3. \A p, id : Listed(segments', p, id) <=> Has(ToSet(segments'), p, id)
  BY <1>2, ListedIsHas DEF Listed
<1>4. \A p, id : Listed(segments, p, id) <=> Has(ToSet(segments), p, id)
  BY ListedIsHas DEF Listed
<1> QED BY <1>2, <1>3, <1>4 DEF Has

LEMMA CreateLists ==
  ASSUME MemoryInv, NEW p \in Pid, NEW id \in SegId, NEW size \in Sizes,
         handle_create_segment(p, id, size)
  PROVE  /\ \A q, d : Listed(segments, q, d) => Listed(segments', q, d)
         /\ owned' = owned \/ (Listed(segments', p, id) /\ owned' = [owned EXCEPT ![p] = @ \cup {id}])
<1>0. segments \in Seq(Segment) /\ holes \in Seq(Hole)
  BY DEF MemoryInv, KMTypeOK
<1>1. CASE hole_selection_algorithm(size, holes) = NoHole
  <2>1. segments' = segments /\ owned' = owned
    BY <1>1 DEF handle_create_segment, tableVars
  <2> QED BY <2>1 DEF Listed
<1>2. CASE hole_selection_algorithm(size, holes) # NoHole
  <2> DEFINE chosen == hole_selection_algorithm(size, holes)
             x == [pid |-> p, id |-> id, base |-> chosen.base, size |-> size]
  <2>1. segments' = Append(segments, x) /\ owned' = [owned EXCEPT ![p] = @ \cup {id}]
    BY <1>2 DEF handle_create_segment, place_segment
  <2>2. x \in Segment /\ x.pid = p /\ x.id = id
    BY <1>0, <1>2, SegmentMade
  <2> HIDE DEF x
  <2> QED BY <1>0, <2>1, <2>2, ListedAppended
<1> QED BY <1>1, <1>2

LEMMA CompactLists ==
  ASSUME MemoryInv, compact_memory
  PROVE  /\ \A q, d : Listed(segments, q, d) => Listed(segments', q, d)
         /\ Listed(segments', job.pid, job.id) /\ owned' = [owned EXCEPT ![job.pid] = @ \cup {job.id}]
<1> DEFINE packed == compact_segments(segments)
           hs == compact_holes(total_size, compute_last_segment_end(packed))
           chosen == hole_selection_algorithm(job.size, hs)
           x == [pid |-> job.pid, id |-> job.id, base |-> chosen.base, size |-> job.size]
<1>0. segments \in Seq(Segment) /\ owned' = [owned EXCEPT ![job.pid] = @ \cup {job.id}]
  BY DEF MemoryInv, KMTypeOK, compact_memory
<1>1. segments' = Append(packed, x)
  BY DEF compact_memory, place_segment
<1>2. /\ packed \in Seq(Segment) /\ Len(packed) = Len(segments)
      /\ \A i \in 1 .. Len(segments) : /\ packed[i].pid = segments[i].pid
                                       /\ packed[i].id = segments[i].id
  BY <1>0, Packed
<1>3. segments' \in Seq(Segment)
  BY CompactTables DEF Tables, Partition
<1> HIDE DEF packed, x
<1>4. /\ Len(segments') = Len(packed) + 1 /\ segments'[Len(packed) + 1] = x
      /\ \A i \in 1 .. Len(packed) : segments'[i] = packed[i]
  BY <1>1, <1>2
<1>5. /\ DOMAIN segments = 1 .. Len(segments) /\ DOMAIN segments' = 1 .. Len(segments')
      /\ Len(packed) \in Nat
  BY <1>0, <1>2, <1>3
<1>6. Has(ToSet(segments'), job.pid, job.id)
  <2>1. Len(packed) + 1 \in DOMAIN segments'
    BY <1>4, <1>5
  <2>2. x.pid = job.pid /\ x.id = job.id
    BY DEF x
  <2> QED BY <1>4, <2>1, <2>2 DEF Has, ToSet
<1>7. ASSUME NEW q, NEW d, Has(ToSet(segments), q, d) PROVE Has(ToSet(segments'), q, d)
  <2>1. PICK i \in 1 .. Len(segments) : segments[i].pid = q /\ segments[i].id = d
    BY <1>5, <1>7 DEF Has, ToSet
  <2>2. i \in DOMAIN segments' /\ i \in 1 .. Len(packed)
    BY <1>2, <1>4, <1>5
  <2>3. segments'[i].pid = q /\ segments'[i].id = d
    BY <1>2, <1>4, <2>1, <2>2
  <2> QED BY <2>2, <2>3 DEF Has, ToSet
<1>8. \A q, d : (Listed(segments', q, d) <=> Has(ToSet(segments'), q, d))
                /\ (Listed(segments, q, d) <=> Has(ToSet(segments), q, d))
  BY <1>0, <1>3, ListedIsHas DEF Listed
<1> QED BY <1>0, <1>6, <1>7, <1>8

\* remove_segment's first half takes one segment out.
LEMMA FindLists ==
  ASSUME MemoryInv, find_and_remove_segment
  PROVE  \A q, d : Listed(segments, q, d) /\ ~(q = job.pid /\ d = Head(job.todo)) => Listed(segments', q, d)
<1> DEFINE i == FirstIndex(segments, job.pid, Head(job.todo))
<1>0. segments' = ListRemove(segments, i)
  BY DEF find_and_remove_segment, SelectInSeq, FirstIndex
<1>1. segments \in Seq(Segment) /\ IsInjective(segments) /\ Sized(segments)
  BY SegmentsSized DEF MemoryInv, Tables, Partition
<1>2. \/ /\ i \in 1 .. Len(segments) /\ segments[i].pid = job.pid
         /\ segments[i].id = Head(job.todo)
      \/ i = 0
  BY <1>1, Found
<1> HIDE DEF i
<1>3. i \in 0 .. Len(segments) /\ Len(segments) \in Nat
  BY <1>1, <1>2
<1>4. segments' \in Seq(Segment) /\ ToSet(segments') = ToSet(segments) \ ElementAt(segments, i)
  BY <1>0, <1>1, <1>3, ListRemoved
<1>5. \A s \in ElementAt(segments, i) : s.pid = job.pid /\ s.id = Head(job.todo)
  BY <1>2 DEF ElementAt
<1>6. \A q, d : (Listed(segments', q, d) <=> Has(ToSet(segments'), q, d))
                /\ (Listed(segments, q, d) <=> Has(ToSet(segments), q, d))
  BY <1>1, <1>4, ListedIsHas DEF Listed
<1> QED BY <1>4, <1>5, <1>6 DEF Has

\* What resume_block does to the table and to block_list.
LEMMA ResumeLists ==
  ASSUME MemoryInv, resume_block
  PROVE  LET b == Min(BlocksLeft)
         IN  /\ \A q, d : Listed(segments, q, d) => Listed(segments', q, d)
             /\ \/ block_list' = block_list
                \/ /\ block_list' = [block_list EXCEPT ![b] = FreeBlock]
                   /\ block_list[b].segment_block_number = 0
                        => Listed(segments', job.pid, block_list[b].segment_number)
<1> DEFINE b      == Min(BlocksLeft)
           entry  == block_list[b]
           first  == entry.segment_block_number = 0
           size   == entry.segment_size
           chosen == hole_selection_algorithm(size, holes)
           x      == [pid |-> job.pid, id |-> entry.segment_number,
                      base |-> chosen.base, size |-> size]
<1>1. job.kind = "resume" /\ BlocksLeft # {}
  BY DEF resume_block
<1>2. \/ block_list' = block_list /\ segments' = segments
      \/ /\ ~first \/ chosen # NoHole
         /\ block_list' = block_list \/ block_list' = [block_list EXCEPT ![b] = FreeBlock]
         /\ segments' = IF first THEN Append(segments, x) ELSE segments
  BY DEF resume_block
<1>3. job.pid \in Pid /\ entry.segment_number \in SegId /\ size \in Sizes
  BY <1>1, NextBlock, RequestFacts DEF MemoryInv, KMTypeOK
<1>4. segments \in Seq(Segment) /\ holes \in Seq(Hole)
  BY DEF MemoryInv, KMTypeOK
<1>5. CASE segments' = segments /\ (block_list' = block_list \/ ~first)
  BY <1>2, <1>5 DEF Listed
<1>6. CASE first /\ chosen # NoHole /\ segments' = Append(segments, x)
  <2>1. x \in Segment /\ x.pid = job.pid /\ x.id = entry.segment_number
    BY <1>3, <1>4, <1>6, SegmentMade
  <2> HIDE DEF x
  <2>2. Listed(segments', job.pid, entry.segment_number) /\ \A q, d : Listed(segments, q, d) => Listed(segments', q, d)
    BY <1>4, <1>6, <2>1, ListedAppended
  <2>3. block_list' = block_list \/ block_list' = [block_list EXCEPT ![b] = FreeBlock]
    BY <1>2
  <2> QED BY <2>2, <2>3
<1> QED BY <1>2, <1>5, <1>6

\* Only remove_segment's first half takes a segment out of the table.
LEMMA TableGrows ==
  ASSUME MemoryInv, [Next]_vars, ~find_and_remove_segment
  PROVE  \A q, d : Listed(segments, q, d) => Listed(segments', q, d)
<1>1. ASSUME segments' = segments
      PROVE  \A q, d : Listed(segments, q, d) => Listed(segments', q, d)
  BY <1>1
<1>2. ASSUME \/ add_stick_connection \/ add_total_memory \/ init_swap_data \/ remove_segment
             \/ removal_done \/ resume_done \/ UNCHANGED vars
      PROVE  segments' = segments
  BY <1>2 DEF add_stick_connection, add_total_memory, init_swap_data, remove_segment,
              removal_done, resume_done, vars, tableVars
<1>3. ASSUME NEW p \in Pid, \/ handle_new_process(p) \/ handle_end_process(p)
                            \/ suspend_process(p) \/ resume_process(p)
      PROVE  segments' = segments
  BY <1>3 DEF handle_new_process, handle_end_process, suspend_process, resume_process, tableVars
<1>4. ASSUME NEW p \in Pid, NEW id \in SegId, handle_delete_segment(p, id)
      PROVE  segments' = segments
  BY <1>4 DEF handle_delete_segment, tableVars
<1>5. ASSUME NEW p \in Pid, NEW id \in SegId, NEW i \in Inputs,
             handle_stdin_request(p, id, i[1], i[2])
      PROVE  segments' = segments
  BY <1>5, StdinStep DEF tableVars
<1>6. ASSUME NEW p \in Pid, NEW id \in SegId, NEW off \in 0 .. total_size - 1,
             write_memory(p, id, off)
      PROVE  segments' = segments
  BY <1>6 DEF write_memory, tableVars
<1> QED BY <1>1, <1>2, <1>3, <1>4, <1>5, <1>6, CreateLists, CompactLists, ResumeLists DEF Next

\* Only resume_block frees a block; a suspension writes to free ones.
LEMMA SwapGrows ==
  ASSUME MemoryInv, [Next]_vars, ~resume_block
  PROVE  /\ \A b \in Block : block_list[b] # FreeBlock => block_list'[b] = block_list[b]
         /\ \/ block_list' = block_list
            \/ \E p \in Pid : suspend_process(p)
<1>1. ASSUME UNCHANGED swapVars PROVE block_list' = block_list
  BY <1>1 DEF swapVars
<1>2. ASSUME init_swap_data PROVE block_list' = block_list
  BY <1>2 DEF init_swap_data
<1>3. ASSUME NEW p \in Pid, suspend_process(p)
      PROVE  \A b \in Block : block_list[b] # FreeBlock => block_list'[b] = block_list[b]
  <2> TAKE b \in Block
  <2> HAVE block_list[b] # FreeBlock
  <2>1. b \notin CopiedFor(p)
    BY DEF CopiedFor, Free
  <2> QED BY <1>3, <2>1, SuspendSteps
<1>5. ASSUME \/ add_stick_connection \/ add_total_memory \/ compact_memory
             \/ find_and_remove_segment \/ remove_segment \/ removal_done \/ resume_done
             \/ UNCHANGED vars
      PROVE  UNCHANGED swapVars
  BY <1>5 DEF add_stick_connection, add_total_memory, compact_memory, find_and_remove_segment,
              remove_segment, removal_done, resume_done, vars
<1>6. ASSUME NEW p \in Pid,
             handle_new_process(p) \/ handle_end_process(p) \/ resume_process(p)
      PROVE  UNCHANGED swapVars
  BY <1>6 DEF handle_new_process, handle_end_process, resume_process
<1>7. ASSUME NEW p \in Pid, NEW id \in SegId, handle_delete_segment(p, id)
      PROVE  UNCHANGED swapVars
  BY <1>7 DEF handle_delete_segment
<1>8. /\ \A p \in Pid, id \in SegId, size \in Sizes :
           handle_create_segment(p, id, size) => UNCHANGED swapVars
      /\ \A p \in Pid, id \in SegId, i \in Inputs :
           handle_stdin_request(p, id, i[1], i[2]) => UNCHANGED swapVars
  BY StdinStep DEF handle_create_segment
<1>9. ASSUME NEW p \in Pid, NEW id \in SegId, NEW off \in 0 .. total_size - 1,
             write_memory(p, id, off)
      PROVE  UNCHANGED swapVars
  BY <1>9 DEF write_memory
<1>10. block_list' = block_list \/ \E p \in Pid : suspend_process(p)
  BY <1>1, <1>2, <1>5, <1>6, <1>7, <1>8, <1>9 DEF Next
<1> QED BY <1>3, <1>10

\* An entry of a segment is not that of a free block.
LEMMA EntryNotFree ==
  ASSUME NEW e, e.pid \in Pid PROVE e # FreeBlock
BY KernelMemoryAssumption DEF FreeBlock

Entry(p, id, k, size) ==
  [pid |-> p, segment_number |-> id, segment_block_number |-> k, segment_size |-> size]

\* A segment stays in swap when the blocks that hold it keep their entries.
LEMMA InSwapKept ==
  ASSUME NEW p \in Pid, NEW id, InSwap(p, id),
         \A b \in Block : block_list[b].pid = p /\ block_list[b].segment_number = id
                            => block_list'[b] = block_list[b]
  PROVE  InSwap(p, id)'
<1>1. PICK size \in Sizes : \A k \in 0 .. BlockCount(size) - 1 : \E b \in Block :
             block_list[b] = Entry(p, id, k, size)
  BY DEF InSwap, Entry
<1>2. ASSUME NEW k \in 0 .. BlockCount(size) - 1
      PROVE  \E b \in Block : block_list'[b] = Entry(p, id, k, size)
  <2>1. PICK b \in Block : block_list[b] = Entry(p, id, k, size)
    BY <1>1
  <2>2. block_list[b].pid = p /\ block_list[b].segment_number = id
    BY <2>1 DEF Entry
  <2> QED BY <2>1, <2>2
<1> QED BY <1>2 DEF InSwap, Entry

LEMMA InSwapGrows ==
  ASSUME MemoryInv, [Next]_vars, ~resume_block, NEW p \in Pid, NEW id, InSwap(p, id)
  PROVE  InSwap(p, id)'
<1>1. \A b \in Block : block_list[b].pid = p => block_list'[b] = block_list[b]
  BY SwapGrows, EntryNotFree
<1> QED BY <1>1, InSwapKept

\* A process owns a segment more only when it is listed.
LEMMA NewlyOwned ==
  ASSUME MemoryInv, [Next]_vars, NEW p \in Pid, NEW id \in owned'[p], id \notin owned[p]
  PROVE  Listed(segments', p, id)
<1>0. owned \in [Pid -> SUBSET SegId]
  BY DEF MemoryInv, KMTypeOK
<1>1. ASSUME \/ add_stick_connection \/ add_total_memory \/ init_swap_data \/ remove_segment
             \/ removal_done \/ resume_done \/ UNCHANGED vars \/ find_and_remove_segment
             \/ resume_block
      PROVE  owned' = owned
  BY <1>1 DEF add_stick_connection, add_total_memory, init_swap_data, remove_segment,
              removal_done, resume_done, vars, find_and_remove_segment, resume_block, ghostVars
<1>2. ASSUME NEW q \in Pid, handle_new_process(q) \/ suspend_process(q) \/ resume_process(q)
      PROVE  owned' = owned
  BY <1>2 DEF handle_new_process, suspend_process, resume_process, ghostVars
<1>3. ASSUME NEW q \in Pid, handle_end_process(q) PROVE owned'[p] \subseteq owned[p]
  BY <1>0, <1>3 DEF handle_end_process
<1>4. ASSUME NEW q \in Pid, NEW d \in SegId, handle_delete_segment(q, d)
      PROVE  owned'[p] \subseteq owned[p]
  BY <1>0, <1>4 DEF handle_delete_segment
<1>5. ASSUME NEW q \in Pid, NEW d \in SegId, NEW i \in Inputs,
             handle_stdin_request(q, d, i[1], i[2])
      PROVE  owned' = owned
  BY <1>5, StdinStep
<1>6. ASSUME NEW q \in Pid, NEW d \in SegId, NEW off \in 0 .. total_size - 1,
             write_memory(q, d, off)
      PROVE  owned' = owned
  BY <1>6 DEF write_memory
<1>7. ASSUME NEW q \in Pid, NEW d \in SegId, NEW size \in Sizes,
             handle_create_segment(q, d, size)
      PROVE  Listed(segments', p, id)
  <2>1. \/ owned' = owned
        \/ Listed(segments', q, d) /\ owned' = [owned EXCEPT ![q] = @ \cup {d}]
    BY <1>7, CreateLists
  <2>2. p = q /\ id = d /\ Listed(segments', q, d)
    BY <1>0, <2>1
  <2> QED BY <2>2
<1>8. ASSUME compact_memory PROVE Listed(segments', p, id)
  <2>1. Listed(segments', job.pid, job.id) /\ owned' = [owned EXCEPT ![job.pid] = @ \cup {job.id}]
    BY <1>8, CompactLists
  <2>2. p = job.pid /\ id = job.id
    BY <1>0, <2>1
  <2> QED BY <2>1, <2>2
<1> QED BY <1>1, <1>2, <1>3, <1>4, <1>5, <1>6, <1>7, <1>8 DEF Next

-----------------------------------------------------------------------------
(* No segment is lost between memory and swap.                             *)

\* While segments are removed the process is resident, and what it still owns of
\* them is in swap; while it is resumed it is suspended, and the blocks that the
\* loop has passed are no longer its own.
ListenerInv ==
  /\ job.kind = "remove" =>
       /\ status[job.pid] = "resident"
       /\ \A i \in 1 .. Len(job.todo) :
            job.todo[i] \in owned[job.pid] => InSwap(job.pid, job.todo[i])
  /\ job.kind = "resume" =>
       /\ status[job.pid] = "suspended"
       /\ \A b \in Block : b < job.at => block_list[b].pid # job.pid

StoreInv == MemoryInv /\ OwnedIsSomewhere /\ BlocksInOrder /\ ListenerInv

\* A block of the process that is not a segment's first finds the segment there.
LEMMA LaterBlockFindsSegment ==
  ASSUME StoreInv, job.kind = "resume", BlocksLeft # {},
         block_list[Min(BlocksLeft)].segment_block_number # 0
  PROVE  Listed(segments, job.pid, block_list[Min(BlocksLeft)].segment_number)
<1> DEFINE b == Min(BlocksLeft)
           id == block_list[b].segment_number
<1>1. /\ b \in Block /\ b \in Nat /\ block_list[b].pid = job.pid
      /\ block_list[b].segment_block_number \in Nat /\ \A c \in BlocksLeft : b <= c
  BY NextBlock DEF StoreInv
<1> HIDE DEF b
<1>2. block_list[b].segment_block_number > 0
  BY <1>1 DEF b
<1>3. \A c \in Block : block_list[c].pid = job.pid => ~(c < b)
  <2> SUFFICES ASSUME NEW c \in Block, block_list[c].pid = job.pid, c < b PROVE FALSE
    OBVIOUS
  <2>1. ~(c < job.at)
    BY DEF StoreInv, ListenerInv
  <2>2. c \in Nat /\ job.at \in Nat
    <3>1. job.at \in 0 .. BLOCKS
      BY RequestFacts DEF StoreInv, MemoryInv, KMTypeOK
    <3> QED BY <3>1, BlockSet
  <2>3. c \in BlocksLeft
    BY <2>1, <2>2 DEF BlocksLeft
  <2> QED BY <1>1, <2>2, <2>3
<1>4. find_segment_by_id(segments, block_list[b].pid, id) # NoSegment
  BY <1>1, <1>2, <1>3 DEF StoreInv, BlocksInOrder
<1> QED BY <1>1, <1>4 DEF Listed, b

LEMMA OwnedStep ==
  ASSUME StoreInv, [Next]_vars
  PROVE  OwnedIsSomewhere'
<1> SUFFICES ASSUME NEW p \in Pid, NEW id \in owned'[p]
             PROVE  Listed(segments', p, id) \/ InSwap(p, id)'
  BY DEF OwnedIsSomewhere, Listed
<1>0. MemoryInv
  BY DEF StoreInv
<1>1. CASE id \notin owned[p]
  BY <1>0, <1>1, NewlyOwned
<1>2. CASE id \in owned[p]
  <2>1. Listed(segments, p, id) \/ InSwap(p, id)
    BY <1>2 DEF StoreInv, OwnedIsSomewhere, Listed
  <2>2. CASE ~find_and_remove_segment /\ ~resume_block
    BY <1>0, <2>1, <2>2, TableGrows, InSwapGrows
  <2>3. CASE find_and_remove_segment
    <3>1. ~resume_block
      BY <2>3 DEF find_and_remove_segment, resume_block
    <3>2. CASE InSwap(p, id)
      BY <1>0, <3>1, <3>2, InSwapGrows
    <3>3. CASE Listed(segments, p, id) /\ ~(p = job.pid /\ id = Head(job.todo))
      BY <1>0, <2>3, <3>3, FindLists
    <3>4. CASE p = job.pid /\ id = Head(job.todo)
      <4>1. job.kind = "remove" /\ job.todo # <<>>
        BY <2>3 DEF find_and_remove_segment
      <4>2. job.todo \in Seq(SegId)
        BY <1>0, <4>1, RequestFacts DEF MemoryInv, KMTypeOK
      <4>3. 1 \in 1 .. Len(job.todo) /\ Head(job.todo) = job.todo[1]
        BY <4>1, <4>2
      <4>4. InSwap(p, id)
        BY <1>2, <3>4, <4>1, <4>3 DEF StoreInv, ListenerInv
      <4> QED BY <1>0, <3>1, <4>4, InSwapGrows
    <3> QED BY <2>1, <3>2, <3>3, <3>4
  <2>4. CASE resume_block
    <3> DEFINE b == Min(BlocksLeft)
    <3>1. ~find_and_remove_segment /\ job.kind = "resume" /\ BlocksLeft # {}
      BY <2>4 DEF find_and_remove_segment, resume_block
    <3>2. CASE Listed(segments, p, id)
      BY <1>0, <3>1, <3>2, TableGrows
    <3>3. /\ \A q, d : Listed(segments, q, d) => Listed(segments', q, d)
          /\ \/ block_list' = block_list
             \/ /\ block_list' = [block_list EXCEPT ![b] = FreeBlock]
                /\ block_list[b].segment_block_number = 0
                     => Listed(segments', job.pid, block_list[b].segment_number)
      BY <1>0, <2>4, ResumeLists
    <3>4. b \in Block /\ block_list[b].pid = job.pid
      BY <1>0, <3>1, NextBlock
    <3>5. block_list[b].segment_block_number # 0
            => Listed(segments, job.pid, block_list[b].segment_number)
      BY <3>1, LaterBlockFindsSegment
    <3> HIDE DEF b
    <3>6. CASE InSwap(p, id) /\ (block_list' = block_list \/ p # job.pid
                                 \/ id # block_list[b].segment_number)
      <4>1. block_list \in [Block -> BlockData \cup {FreeBlock}]
        BY <1>0 DEF MemoryInv, KMTypeOK
      <4>2. \A c \in Block : block_list[c].pid = p /\ block_list[c].segment_number = id
                               => block_list'[c] = block_list[c]
        BY <3>3, <3>4, <3>6, <4>1
      <4> QED BY <3>6, <4>2, InSwapKept
    <3>7. CASE /\ block_list' = [block_list EXCEPT ![b] = FreeBlock]
               /\ block_list' # block_list
               /\ p = job.pid /\ id = block_list[b].segment_number
      <4>1. Listed(segments', job.pid, block_list[b].segment_number)
        BY <3>3, <3>5, <3>7
      <4> QED BY <3>7, <4>1
    <3> QED BY <2>1, <3>2, <3>3, <3>6, <3>7
  <2> QED BY <2>2, <2>3, <2>4
<1> QED BY <1>1, <1>2

\* Where the copies of a suspension are: block k of a segment, counted from 0, is
\* after block 0 of it, and all are there when the suspension is complete.
LEMMA CopiesMade ==
  ASSUME MemoryInv, NEW p \in Pid, suspend_process(p)
  PROVE  LET mine == filter_process_segments(segments, p)
         IN  /\ \A b \in CopiedFor(p) : \E i \in 1 .. Len(mine) :
                  \E k \in 1 .. BlockCount(mine[i].size) :
                    /\ block_list'[b] = Entry(p, mine[i].id, k - 1, mine[i].size)
                    /\ k = 1 \/ \E c \in CopiedFor(p) :
                         c < b /\ block_list'[c] = Entry(p, mine[i].id, 0, mine[i].size)
             /\ SuspensionComplete(Free, WantedOf(p)) =>
                  \A i \in 1 .. Len(mine) : \A k \in 1 .. BlockCount(mine[i].size) :
                    \E b \in Block :
                      block_list'[b] = Entry(p, mine[i].id, k - 1, mine[i].size)
<1> DEFINE mine == filter_process_segments(segments, p)
           w == WantedOf(p)
           f == Ends(mine)
           n == f[Len(mine)]
<1>1. /\ mine \in Seq(Segment) /\ ToSet(mine) \subseteq ToSet(segments)
      /\ \A i \in 1 .. Len(mine) : mine[i].pid = p
  <2>1. segments \in Seq(Segment)
    BY DEF MemoryInv, KMTypeOK
  <2> QED BY <2>1, MineFacts
<1>2. w = BlocksWanted(mine)
  BY DEF WantedOf
<1> HIDE DEF mine, w
<1>3. /\ n \in Nat /\ DOMAIN w = 1 .. n /\ Len(w) = n
      /\ \A t \in 1 .. n : \E i \in 1 .. Len(mine) :
           \E k \in 1 .. BlockCount(mine[i].size) :
             t = f[i - 1] + k /\ w[t] = suspend_segment(mine[i])[k]
      /\ \A i \in 1 .. Len(mine) : \A k \in 1 .. BlockCount(mine[i].size) :
           /\ f[i - 1] + k \in 1 .. n
           /\ w[f[i - 1] + k] = suspend_segment(mine[i])[k]
  BY <1>1, <1>2, Wanted
<1>4. /\ \A i \in 0 .. Len(mine) : f[i] \in Nat
      /\ \A i \in 1 .. Len(mine) : BlockCount(mine[i].size) \in Nat \ {0}
  BY <1>1, EndsFacts
<1> HIDE DEF f, n
<1>5. ASSUME NEW i \in 1 .. Len(mine), NEW k \in 1 .. BlockCount(mine[i].size)
      PROVE  /\ f[i - 1] \in Nat /\ k \in Nat \ {0} /\ f[i - 1] + k \in 1 .. n
             /\ w[f[i - 1] + k].entry = Entry(p, mine[i].id, k - 1, mine[i].size)
  <2>1. i - 1 \in 0 .. Len(mine)
    BY <1>1
  <2>2. f[i - 1] \in Nat /\ k \in Nat \ {0}
    BY <1>4, <2>1
  <2>3. suspend_segment(mine[i])[k].entry = Entry(p, mine[i].id, k - 1, mine[i].size)
    BY <1>1, WantedType DEF Entry
  <2> QED BY <1>3, <2>2, <2>3
<1>6. Free \in SUBSET Block /\ IsFiniteSet(Free) /\ Cardinality(Free) \in Nat
  <2>1. Free \in SUBSET Block
    BY DEF Free
  <2> QED BY <2>1, BlockSet, FS_Subset, FS_CardinalityType
<1>7. \A b \in CopiedFor(p) : /\ b \in Free /\ b \in Block /\ Turn(Free, b) \in 1 .. n
                              /\ block_list'[b] = w[Turn(Free, b)].entry
  <2> TAKE b \in CopiedFor(p)
  <2>1. b \in Free /\ b \in Block
    BY DEF CopiedFor, Free
  <2>2. Turn(Free, b) \in 1 .. n
    BY <1>3, CopiedType DEF w
  <2> QED BY <2>1, <2>2, SuspendSteps DEF w
<1>8. ASSUME NEW t \in 1 .. n, t <= Cardinality(Free)
      PROVE  \E b \in CopiedFor(p) : Turn(Free, b) = t
  <2>1. t \in Nat \ {0}
    BY <1>3
  <2>2. PICK b \in Free : Turn(Free, b) = t
    BY <1>6, <1>8, <2>1, TurnTaken
  <2>3. t <= n
    BY <1>3
  <2> QED BY <1>3, <2>2, <2>3 DEF CopiedFor, w
<1>9. ASSUME NEW b \in CopiedFor(p)
      PROVE  \E i \in 1 .. Len(mine) : \E k \in 1 .. BlockCount(mine[i].size) :
               /\ block_list'[b] = Entry(p, mine[i].id, k - 1, mine[i].size)
               /\ k = 1 \/ \E c \in CopiedFor(p) :
                    c < b /\ block_list'[c] = Entry(p, mine[i].id, 0, mine[i].size)
  <2> DEFINE t == Turn(Free, b)
  <2>1. t \in 1 .. n /\ b \in Free /\ block_list'[b] = w[t].entry
    BY <1>7
  <2> HIDE DEF t
  <2>2. PICK i \in 1 .. Len(mine) : \E k \in 1 .. BlockCount(mine[i].size) : t = f[i - 1] + k
    BY <1>3, <2>1
  <2>3. PICK k \in 1 .. BlockCount(mine[i].size) : t = f[i - 1] + k
    BY <2>2
  <2>4. block_list'[b] = Entry(p, mine[i].id, k - 1, mine[i].size)
    BY <1>5, <2>1, <2>3
  <2>5. CASE k # 1
    <3>1. PICK q \in Nat : q = f[i - 1]
      BY <1>5
    <3>2. k \in Nat \ {0} /\ 1 \in 1 .. BlockCount(mine[i].size)
      BY <1>4, <1>5
    <3>3. /\ q + 1 \in 1 .. n
          /\ w[q + 1].entry = Entry(p, mine[i].id, 0, mine[i].size)
      <4>1. 1 - 1 = 0
        OBVIOUS
      <4> QED BY <1>5, <3>1, <3>2, <4>1
    <3>4. t \in Nat /\ q + 1 < t
      BY <2>3, <2>5, <3>1, <3>2
    <3>5. t <= Cardinality(Free)
      <4>1. {c \in Free : c <= b} \in SUBSET Free
        OBVIOUS
      <4>2. Cardinality({c \in Free : c <= b}) <= Cardinality(Free)
        BY <1>6, <4>1, FS_Subset
      <4> QED BY <4>2 DEF Turn, t
    <3>6. q + 1 <= Cardinality(Free)
      BY <1>6, <3>4, <3>5
    <3>7. PICK c \in CopiedFor(p) : Turn(Free, c) = q + 1
      BY <1>8, <3>3, <3>6
    <3>8. c \in Free /\ block_list'[c] = Entry(p, mine[i].id, 0, mine[i].size)
      BY <1>7, <3>3, <3>7
    <3>9. c < b
      BY <1>6, <2>1, <3>4, <3>7, <3>8, TurnOrder DEF t
    <3> QED BY <2>4, <3>8, <3>9
  <2> QED BY <2>4, <2>5
<1>10. ASSUME SuspensionComplete(Free, WantedOf(p)), NEW i \in 1 .. Len(mine),
              NEW k \in 1 .. BlockCount(mine[i].size)
       PROVE  \E b \in Block : block_list'[b] = Entry(p, mine[i].id, k - 1, mine[i].size)
  <2>1. n <= Cardinality(Free)
    BY <1>3, <1>6, <1>10 DEF SuspensionComplete, w
  <2>2. PICK t \in 1 .. n : t = f[i - 1] + k
    BY <1>5
  <2>3. t <= Cardinality(Free)
    BY <1>3, <1>6, <2>1
  <2>4. PICK b \in CopiedFor(p) : Turn(Free, b) = t
    BY <1>8, <2>3
  <2> QED BY <1>5, <1>7, <2>2, <2>4
<1> QED BY <1>9, <1>10 DEF mine

\* A process with blocks in swap does not stop being suspended.
LEMMA StaysSuspended ==
  ASSUME StoreInv, [Next]_vars, NEW p \in Pid, status[p] = "suspended",
         NEW b \in Block, block_list[b].pid = p
  PROVE  status'[p] = "suspended"
<1>0. /\ status \in [Pid -> {"none", "resident", "suspended", "ended"}] /\ job \in Request
  BY DEF StoreInv, MemoryInv, KMTypeOK
<1>1. ASSUME \/ add_stick_connection \/ add_total_memory \/ init_swap_data \/ remove_segment
             \/ UNCHANGED vars \/ find_and_remove_segment \/ resume_block \/ compact_memory
      PROVE  status' = status
  BY <1>1 DEF add_stick_connection, add_total_memory, init_swap_data, remove_segment,
              vars, find_and_remove_segment, resume_block, compact_memory
<1>2. ASSUME NEW q \in Pid, suspend_process(q) \/ resume_process(q) \/ handle_end_process(q)
      PROVE  status' = status
  BY <1>2 DEF suspend_process, resume_process, handle_end_process
<1>3. ASSUME NEW q \in Pid, handle_new_process(q) PROVE status'[p] = "suspended"
  BY <1>0, <1>3 DEF handle_new_process
<1>4. ASSUME NEW q \in Pid, NEW d \in SegId, handle_delete_segment(q, d)
      PROVE  status' = status
  BY <1>4 DEF handle_delete_segment
<1>5. /\ \A q \in Pid, d \in SegId, size \in Sizes :
           handle_create_segment(q, d, size) => status' = status
      /\ \A q \in Pid, d \in SegId, i \in Inputs :
           handle_stdin_request(q, d, i[1], i[2]) => status' = status
  BY StdinStep DEF handle_create_segment
<1>6. ASSUME NEW q \in Pid, NEW d \in SegId, NEW off \in 0 .. total_size - 1,
             write_memory(q, d, off)
      PROVE  status' = status
  BY <1>6 DEF write_memory
<1>7. ASSUME removal_done PROVE status'[p] = "suspended"
  <2>1. job.kind = "remove" /\ status' = [status EXCEPT ![job.pid] = job.after]
    BY <1>7 DEF removal_done
  <2>2. status[job.pid] = "resident"
    BY <2>1 DEF StoreInv, ListenerInv
  <2> QED BY <1>0, <2>1, <2>2
<1>8. ASSUME resume_done PROVE status'[p] = "suspended"
  <2>1. /\ job.kind = "resume" /\ BlocksLeft = {}
        /\ status' = [status EXCEPT ![job.pid] = IF job.at > 0 THEN "resident" ELSE @]
    BY <1>8 DEF resume_done
  <2>2. job.at \in 0 .. BLOCKS /\ b \in Nat
    BY <1>0, <2>1, RequestFacts, BlockSet
  <2>3. p # job.pid
    <3> SUFFICES ASSUME p = job.pid PROVE FALSE
      OBVIOUS
    <3>1. ~(b < job.at)
      BY <2>1 DEF StoreInv, ListenerInv
    <3>2. b >= job.at
      BY <2>2, <3>1, KernelMemoryAssumption
    <3> QED BY <2>1, <3>2 DEF BlocksLeft
  <2> QED BY <1>0, <2>1, <2>3
<1> QED BY <1>1, <1>2, <1>3, <1>4, <1>5, <1>6, <1>7, <1>8 DEF Next

LEMMA OrderStep ==
  ASSUME StoreInv, [Next]_vars
  PROVE  BlocksInOrder'
<1> DEFINE First(bl, b) == \E c \in Block : /\ c < b /\ bl[c].pid = bl[b].pid
                                            /\ bl[c].segment_number = bl[b].segment_number
                                            /\ bl[c].segment_block_number = 0
           Back(st, segs, e) == /\ st[e.pid] = "suspended"
                                /\ Listed(segs, e.pid, e.segment_number)
<1> SUFFICES ASSUME NEW b \in Block, block_list'[b].segment_block_number > 0
             PROVE  First(block_list', b) \/ Back(status', segments', block_list'[b])
  BY DEF BlocksInOrder, Listed
<1>0. /\ MemoryInv /\ block_list \in [Block -> BlockData \cup {FreeBlock}]
      /\ status \in [Pid -> {"none", "resident", "suspended", "ended"}]
  BY DEF StoreInv, MemoryInv, KMTypeOK
<1>1. CASE block_list'[b] = block_list[b]
  <2> DEFINE p == block_list[b].pid
             id == block_list[b].segment_number
  <2>1. p \in Pid
    BY <1>0, <1>1 DEF BlockData, FreeBlock
  <2>2. First(block_list, b) \/ Back(status, segments, block_list[b])
    BY <1>1 DEF StoreInv, BlocksInOrder, Listed
  <2>3. CASE First(block_list, b)
    <3>1. PICK c \in Block : /\ c < b /\ block_list[c].pid = p
                             /\ block_list[c].segment_number = id
                             /\ block_list[c].segment_block_number = 0
      BY <2>3
    <3>2. CASE block_list'[c] = block_list[c]
      BY <1>1, <3>1, <3>2
    <3>3. CASE block_list'[c] # block_list[c]
      <4>1. resume_block
        BY <1>0, <2>1, <3>1, <3>3, SwapGrows, EntryNotFree
      <4>2. job.kind = "resume" /\ BlocksLeft # {} /\ status' = status
        BY <4>1 DEF resume_block
      <4>3. Min(BlocksLeft) \in Block /\ block_list[Min(BlocksLeft)].pid = job.pid
        BY <1>0, <4>2, NextBlock
      <4>4. /\ block_list' = [block_list EXCEPT ![Min(BlocksLeft)] = FreeBlock]
            /\ block_list[Min(BlocksLeft)].segment_block_number = 0
                 => Listed(segments', job.pid, block_list[Min(BlocksLeft)].segment_number)
        BY <1>0, <3>3, <4>1, ResumeLists
      <4>5. c = Min(BlocksLeft)
        BY <1>0, <3>3, <4>4
      <4>6. p = job.pid /\ Listed(segments', p, id)
        BY <3>1, <4>3, <4>4, <4>5
      <4>7. status'[p] = "suspended"
        BY <4>2, <4>6 DEF StoreInv, ListenerInv
      <4> QED BY <1>1, <4>6, <4>7
    <3> QED BY <3>2, <3>3
  <2>4. CASE Back(status, segments, block_list[b])
    <3>1. status[p] = "suspended" /\ Listed(segments, p, id)
      BY <2>4
    <3>2. Listed(segments', p, id)
      <4>1. CASE ~find_and_remove_segment
        BY <1>0, <3>1, <4>1, TableGrows
      <4>2. CASE find_and_remove_segment
        <5>1. status[job.pid] = "resident"
          BY <4>2 DEF find_and_remove_segment, StoreInv, ListenerInv
        <5>2. p # job.pid
          BY <3>1, <5>1
        <5> QED BY <1>0, <3>1, <4>2, <5>2, FindLists
      <4> QED BY <4>1, <4>2
    <3>3. status'[p] = "suspended"
      BY <2>1, <3>1, StaysSuspended
    <3> QED BY <1>1, <3>2, <3>3
  <2> QED BY <2>2, <2>3, <2>4
<1>2. CASE block_list'[b] # block_list[b]
  <2>1. ~resume_block
    <3> SUFFICES ASSUME resume_block PROVE FALSE
      OBVIOUS
    <3>1. block_list' = [block_list EXCEPT ![Min(BlocksLeft)] = FreeBlock]
      BY <1>0, <1>2, ResumeLists
    <3>2. block_list'[b] = FreeBlock
      BY <1>0, <1>2, <3>1
    <3> QED BY <3>2 DEF FreeBlock
  <2>2. PICK p \in Pid : suspend_process(p)
    BY <1>0, <1>2, <2>1, SwapGrows
  <2>3. b \in CopiedFor(p)
    BY <1>0, <1>2, <2>2, SuspendSteps
  <2> DEFINE mine == filter_process_segments(segments, p)
  <2>4. PICK i \in 1 .. Len(mine) : \E k \in 1 .. BlockCount(mine[i].size) :
          /\ block_list'[b] = Entry(p, mine[i].id, k - 1, mine[i].size)
          /\ k = 1 \/ \E c \in CopiedFor(p) :
               c < b /\ block_list'[c] = Entry(p, mine[i].id, 0, mine[i].size)
    BY <1>0, <2>2, <2>3, CopiesMade
  <2>5. PICK k \in 1 .. BlockCount(mine[i].size) :
          /\ block_list'[b] = Entry(p, mine[i].id, k - 1, mine[i].size)
          /\ k = 1 \/ \E c \in CopiedFor(p) :
               c < b /\ block_list'[c] = Entry(p, mine[i].id, 0, mine[i].size)
    BY <2>4
  <2>6. k # 1
    <3> SUFFICES ASSUME k = 1 PROVE FALSE
      OBVIOUS
    <3>1. block_list'[b].segment_block_number = 0
      BY <2>5 DEF Entry
    <3> QED BY <3>1
  <2>7. PICK c \in CopiedFor(p) :
          c < b /\ block_list'[c] = Entry(p, mine[i].id, 0, mine[i].size)
    BY <2>5, <2>6
  <2>8. c \in Block
    BY DEF CopiedFor, Free
  <2>9. /\ block_list'[c].pid = block_list'[b].pid
        /\ block_list'[c].segment_number = block_list'[b].segment_number
        /\ block_list'[c].segment_block_number = 0
    BY <2>5, <2>7 DEF Entry
  <2> QED BY <2>7, <2>8, <2>9
<1> QED BY <1>1, <1>2

\* All the blocks of a segment are in a given block_list.
Stored(blocks, p, id) ==
  \E size \in Sizes : \A k \in 0 .. BlockCount(size) - 1 : \E b \in Block :
     blocks[b] = Entry(p, id, k, size)

\* The listener's part of the invariant for a request to remove segments.
LEMMA RemovingInv ==
  ASSUME NEW p \in Pid, job'.kind = "remove", job'.pid = p, status'[p] = "resident",
         \A i \in 1 .. Len(job'.todo) : job'.todo[i] \in owned'[p] => Stored(block_list', p, job'.todo[i])
  PROVE  ListenerInv'
<1> QED BY DEF ListenerInv, InSwap, Stored, Entry

LEMMA SuspendListener ==
  ASSUME StoreInv, NEW p \in Pid, suspend_process(p)
  PROVE  ListenerInv'
<1> DEFINE mine == filter_process_segments(segments, p)
<1>0. MemoryInv /\ segments \in Seq(Segment)
  BY DEF StoreInv, MemoryInv, KMTypeOK
<1>1. /\ status[p] = "resident" /\ status' = status
      /\ job' = IF SuspensionComplete(Free, WantedOf(p))
                THEN Removing(p, IdsOf(mine), "suspended") ELSE Idle
  BY <1>0, SuspendSteps
<1>2. CASE ~SuspensionComplete(Free, WantedOf(p))
  BY <1>1, <1>2 DEF ListenerInv, Idle
<1>3. CASE SuspensionComplete(Free, WantedOf(p))
  <2>1. job'.kind = "remove" /\ job'.pid = p /\ job'.todo = IdsOf(mine)
    BY <1>1, <1>3 DEF Removing
  <2>2. /\ mine \in Seq(Segment) /\ Len(IdsOf(mine)) = Len(mine)
        /\ \A i \in 1 .. Len(mine) : IdsOf(mine)[i] = mine[i].id
    BY <1>0, MineFacts
  <2>3. \A i \in 1 .. Len(mine) : \A k \in 1 .. BlockCount(mine[i].size) :
          \E b \in Block : block_list'[b] = Entry(p, mine[i].id, k - 1, mine[i].size)
    BY <1>0, <1>3, CopiesMade
  <2> HIDE DEF mine
  <2>4. ASSUME NEW i \in 1 .. Len(mine) PROVE Stored(block_list', p, mine[i].id)
    <3>1. mine[i].size \in Sizes
      BY <2>2, SegmentsSized, SegmentFacts
    <3>2. BlockCount(mine[i].size) \in Nat
      BY <3>1, BlockCountFacts
    <3>3. ASSUME NEW k \in 0 .. BlockCount(mine[i].size) - 1
          PROVE  \E b \in Block : block_list'[b] = Entry(p, mine[i].id, k, mine[i].size)
      <4>1. k + 1 \in 1 .. BlockCount(mine[i].size) /\ (k + 1) - 1 = k
        BY <3>2
      <4>2. PICK b \in Block : block_list'[b] = Entry(p, mine[i].id, (k + 1) - 1, mine[i].size)
        BY <2>3, <4>1
      <4> QED BY <4>1, <4>2
    <3> QED BY <3>1, <3>3 DEF Stored
  <2>5. \A i \in 1 .. Len(job'.todo) : Stored(block_list', p, job'.todo[i])
    <3> TAKE i \in 1 .. Len(job'.todo)
    <3>1. i \in 1 .. Len(mine) /\ job'.todo[i] = mine[i].id
      BY <2>1, <2>2
    <3> QED BY <2>4, <3>1
  <2> QED BY <1>1, <2>1, <2>5, RemovingInv
<1> QED BY <1>2, <1>3

LEMMA ListenerStep ==
  ASSUME StoreInv, [Next]_vars
  PROVE  ListenerInv'
<1>0. /\ MemoryInv /\ ListenerInv /\ job \in Request /\ segments \in Seq(Segment)
      /\ owned \in [Pid -> SUBSET SegId]
  BY DEF StoreInv, MemoryInv, KMTypeOK
<1>1. ASSUME UNCHANGED <<job, status, owned, block_list>> PROVE ListenerInv'
  BY <1>0, <1>1 DEF ListenerInv, InSwap
<1>2. ASSUME job'.kind \in {"idle", "crashed", "compacting"} PROVE ListenerInv'
  BY <1>2 DEF ListenerInv
<1>3. ASSUME add_stick_connection \/ add_total_memory \/ init_swap_data \/ UNCHANGED vars
      PROVE  UNCHANGED <<job, status, owned, block_list>>
  BY <1>3 DEF add_stick_connection, add_total_memory, init_swap_data, vars, swapVars, ghostVars
<1>4. ASSUME NEW p \in Pid, NEW id \in SegId, NEW off \in 0 .. total_size - 1,
             write_memory(p, id, off)
      PROVE  UNCHANGED <<job, status, owned, block_list>>
  BY <1>4 DEF write_memory, swapVars
<1>5. ASSUME NEW p \in Pid, NEW id \in SegId, NEW i \in Inputs,
             handle_stdin_request(p, id, i[1], i[2])
      PROVE  job'.kind \in {"idle", "crashed"}
  BY <1>5, StdinStep DEF Idle, Crashed
<1>6. ASSUME NEW p \in Pid, handle_new_process(p) PROVE job' = Idle
  BY <1>6 DEF handle_new_process
<1>7. ASSUME compact_memory \/ removal_done \/ resume_done PROVE job' = Idle
  BY <1>7 DEF compact_memory, removal_done, resume_done
<1>8. ASSUME NEW p \in Pid, NEW id \in SegId, NEW size \in Sizes,
             handle_create_segment(p, id, size)
      PROVE  job'.kind \in {"idle", "compacting"}
  BY <1>8 DEF handle_create_segment, Idle
<1>9. ASSUME NEW p \in Pid, handle_end_process(p) PROVE ListenerInv'
  <2>1. /\ job'.kind = "remove" /\ job'.pid = p /\ status'[p] = "resident" /\ owned'[p] = {}
    BY <1>0, <1>9 DEF handle_end_process, Removing
  <2> QED BY <2>1, RemovingInv
<1>10. ASSUME NEW p \in Pid, NEW id \in SegId, handle_delete_segment(p, id) PROVE ListenerInv'
  <2>1. /\ job'.kind = "remove" /\ job'.pid = p /\ job'.todo = <<id>>
        /\ status'[p] = "resident" /\ id \notin owned'[p]
    BY <1>0, <1>10 DEF handle_delete_segment, Removing
  <2>2. \A i \in 1 .. Len(job'.todo) : job'.todo[i] \notin owned'[p]
    BY <2>1
  <2> QED BY <2>1, <2>2, RemovingInv
<1>11. ASSUME NEW p \in Pid, suspend_process(p) PROVE ListenerInv'
  BY <1>11, SuspendListener
<1>12. ASSUME NEW p \in Pid, resume_process(p) PROVE ListenerInv'
  <2>1. job' = [kind |-> "resume", pid |-> p, at |-> 0] /\ status'[p] = "suspended"
    BY <1>12 DEF resume_process
  <2>2. \A b \in Block : ~(b < 0)
    BY BlockSet
  <2> QED BY <2>1, <2>2 DEF ListenerInv
<1>13. ASSUME find_and_remove_segment PROVE ListenerInv'
  <2> DEFINE x == find_segment_by_id(segments, job.pid, Head(job.todo))
  <2>1. /\ job.kind = "remove" /\ job.todo # <<>> /\ status' = status /\ owned' = owned
        /\ job' = [job EXCEPT !.todo = Tail(@), !.seg = x]
    BY <1>13 DEF find_and_remove_segment, ghostVars
  <2>2. job \in [kind : {"remove"}, pid : Pid, todo : Seq(SegId),
                 seg : Segment \cup {NoSegment}, after : {"resident", "suspended", "ended"}]
    BY <1>0, <2>1, RequestFacts
  <2> HIDE DEF x
  <2>3. PICK p \in Pid : p = job.pid /\ p = job'.pid
    BY <2>1, <2>2
  <2>4. job'.kind = "remove" /\ job'.todo = Tail(job.todo) /\ status'[p] = "resident"
    BY <1>0, <2>1, <2>2, <2>3 DEF ListenerInv
  <2>5. ~resume_block
    BY <2>1 DEF resume_block
  <2>6. ASSUME NEW i \in 1 .. Len(job'.todo), job'.todo[i] \in owned'[p]
        PROVE  Stored(block_list', p, job'.todo[i])
    <3>1. i + 1 \in 1 .. Len(job.todo) /\ job'.todo[i] = job.todo[i + 1]
      BY <2>1, <2>2, <2>4
    <3>2. PICK d : d = job.todo[i + 1]
      OBVIOUS
    <3>3. InSwap(p, d)
      BY <1>0, <2>1, <2>3, <2>6, <3>1, <3>2 DEF ListenerInv
    <3>4. Stored(block_list', p, d)
      <4>1. InSwap(p, d)'
        BY <1>0, <2>5, <3>3, InSwapGrows
      <4> QED BY <4>1 DEF InSwap, Stored, Entry
    <3> QED BY <3>1, <3>2, <3>4
  <2> QED BY <2>3, <2>4, <2>6, RemovingInv
<1>14. ASSUME remove_segment PROVE ListenerInv'
  <2>1. /\ job.kind = "remove" /\ job' = [job EXCEPT !.seg = NoSegment]
        /\ UNCHANGED <<status, owned, block_list>>
    BY <1>14 DEF remove_segment, ghostVars, swapVars
  <2>2. job \in [kind : {"remove"}, pid : Pid, todo : Seq(SegId),
                 seg : Segment \cup {NoSegment}, after : {"resident", "suspended", "ended"}]
    BY <1>0, <2>1, RequestFacts
  <2>3. job'.kind = "remove" /\ job'.pid = job.pid /\ job'.todo = job.todo
    BY <2>1, <2>2
  <2> QED BY <1>0, <2>1, <2>3 DEF ListenerInv, InSwap
<1>15. ASSUME resume_block PROVE ListenerInv'
  <2> DEFINE b == Min(BlocksLeft)
  <2>1. job.kind = "resume" /\ BlocksLeft # {} /\ status' = status
    BY <1>15 DEF resume_block
  <2>2. \/ job' = Idle \/ job' = Crashed
        \/ /\ job' = [job EXCEPT !.at = b + 1]
           /\ block_list' = [block_list EXCEPT ![b] = FreeBlock]
    BY <1>15 DEF resume_block
  <2>3. b \in Block /\ b \in Nat /\ \A c \in BlocksLeft : b <= c
    BY <1>0, <2>1, NextBlock
  <2> HIDE DEF b
  <2>4. CASE job' = Idle \/ job' = Crashed
    BY <2>4 DEF ListenerInv, Idle, Crashed
  <2>5. CASE /\ job' = [job EXCEPT !.at = b + 1]
             /\ block_list' = [block_list EXCEPT ![b] = FreeBlock]
    <3>1. job \in [kind : {"resume"}, pid : Pid, at : 0 .. BLOCKS]
      BY <1>0, <2>1, RequestFacts
    <3>2. job'.kind = "resume" /\ job'.pid = job.pid /\ job'.at = b + 1 /\ job.pid \in Pid
      BY <2>5, <3>1
    <3>3. block_list \in [Block -> BlockData \cup {FreeBlock}]
      BY <1>0 DEF MemoryInv, KMTypeOK
    <3>4. ASSUME NEW c \in Block, c < b + 1 PROVE block_list'[c].pid # job.pid
      <4>1. CASE c = b
        <5>1. block_list'[c] = FreeBlock
          BY <2>5, <3>3, <4>1
        <5> QED BY <3>2, <5>1, KernelMemoryAssumption DEF FreeBlock
      <4>2. CASE c # b
        <5>1. block_list'[c] = block_list[c]
          BY <2>5, <3>3, <4>2
        <5>2. c \in Nat /\ c < b /\ job.at \in Nat
          BY <2>3, <3>1, <3>4, <4>2, BlockSet
        <5>3. c \notin BlocksLeft
          BY <2>3, <5>2
        <5>4. c < job.at \/ block_list[c].pid # job.pid
          BY <5>2, <5>3 DEF BlocksLeft
        <5>5. block_list[c].pid # job.pid
          BY <1>0, <2>1, <5>4 DEF ListenerInv
        <5> QED BY <5>1, <5>5
      <4> QED BY <4>1, <4>2
    <3> QED BY <1>0, <2>1, <3>2, <3>4 DEF ListenerInv
  <2> QED BY <2>2, <2>4, <2>5
<1>16. Idle.kind = "idle"
  BY DEF Idle
<1> QED BY <1>1, <1>2, <1>3, <1>4, <1>5, <1>6, <1>7, <1>8, <1>9, <1>10, <1>11, <1>12, <1>13,
           <1>14, <1>15, <1>16 DEF Next

LEMMA StoreAlways == Spec => []StoreInv
<1>1. Init => StoreInv
  <2> SUFFICES ASSUME Init PROVE StoreInv
    OBVIOUS
  <2>1. MemoryInv
    BY MemoryInit
  <2>2. OwnedIsSomewhere
    BY DEF Init, OwnedIsSomewhere
  <2>3. BlocksInOrder
    BY DEF Init, BlocksInOrder, FreeBlock
  <2>4. ListenerInv
    BY DEF Init, ListenerInv, Idle
  <2> QED BY <2>1, <2>2, <2>3, <2>4 DEF StoreInv
<1>2. StoreInv /\ [Next]_vars => StoreInv'
  <2> SUFFICES ASSUME StoreInv, [Next]_vars PROVE StoreInv'
    OBVIOUS
  <2>1. MemoryInv'
    BY MemoryStep DEF StoreInv
  <2> QED BY <2>1, OwnedStep, OrderStep, ListenerStep DEF StoreInv
<1> QED BY <1>1, <1>2, PTL DEF Spec

-----------------------------------------------------------------------------
(* The segments of the other processes.                                    *)

\* A compaction: everybody's segments stay in the list, where they are.
LEMMA CompactKeeps ==
  ASSUME segments \in Seq(Segment), compact_memory
  PROVE  \A i \in DOMAIN segments :
           /\ i \in DOMAIN segments'
           /\ segments'[i] = [segments[i] EXCEPT !.base = segments'[i].base]
<1>1. PICK n \in Nat : n = Len(segments) /\ DOMAIN segments = 1 .. n
  OBVIOUS
<1>2. PICK packed : packed = compact_segments(segments)
  OBVIOUS
<1>3. PICK x : segments' = Append(packed, x)
  BY <1>2 DEF compact_memory, place_segment
<1>4. PICK sum : packed = [i \in 1 .. n |-> [segments[i] EXCEPT !.base = sum[i - 1]]]
  BY <1>1, <1>2 DEF compact_segments
<1> DEFINE V == {packed[i] : i \in 1 .. n} \cup {x}
<1>5. packed \in [1 .. n -> V]
  BY <1>4
<1> HIDE DEF V
<1>6. packed \in Seq(V) /\ Len(packed) = n
  BY <1>1, <1>5, FunctionIsList
<1>7. x \in V
  BY DEF V
<1> SUFFICES ASSUME NEW i \in 1 .. n
             PROVE  /\ i \in DOMAIN segments'
                    /\ segments'[i] = [segments[i] EXCEPT !.base = segments'[i].base]
  BY <1>1
<1>8. i \in DOMAIN segments' /\ segments'[i] = packed[i]
  BY <1>3, <1>6, <1>7
<1>9. segments[i] \in [pid : Pid, id : SegId, base : Nat, size : Sizes]
  <2>1. segments[i] \in Segment
    BY <1>1
  <2> QED BY <2>1 DEF Segment
<1>10. packed[i] = [segments[i] EXCEPT !.base = sum[i - 1]]
  BY <1>4
<1>11. packed[i].base = sum[i - 1]
  BY <1>9, <1>10
<1> QED BY <1>8, <1>10, <1>11

LEMMA KeptStep ==
  ASSUME MemoryInv, [Next]_vars
  PROVE  OthersKept \/ UNCHANGED vars
<1>1. /\ segments \in Seq(Segment) /\ IsSeq(segments)
      /\ owned = [p \in Pid |-> owned[p]] /\ job \in Request
  BY IsSeqFrom DEF MemoryInv, KMTypeOK
<1>2. CASE segments' = segments
  <2>1. ASSUME NEW i \in DOMAIN segments
        PROVE  /\ i \in DOMAIN segments'
               /\ segments'[i] = [segments[i] EXCEPT !.base = segments'[i].base]
    <3>1. segments[i] \in Segment
      BY <1>1
    <3>2. segments[i] = [segments[i] EXCEPT !.base = segments[i].base]
      BY <3>1 DEF Segment
    <3> QED BY <1>2, <3>2
  <2>2. \A p \in Pid :
          filter_process_segments(segments', p) = filter_process_segments(segments, p)
    BY <1>2
  <2> QED BY <2>1, <2>2, Zenon DEF OthersKept
<1>3. ASSUME NEW p \in Pid, NEW id \in SegId, NEW size \in Sizes,
             handle_create_segment(p, id, size), segments' # segments
      PROVE  OthersKept
  <2>1. job = Idle /\ id \notin owned[p] /\ owned' = [owned EXCEPT ![p] = @ \cup {id}]
    BY <1>3 DEF handle_create_segment, tableVars
  <2>2. PICK x : x.pid = p /\ segments' = Append(segments, x)
    <3>1. PICK b : segments' = Append(segments, [pid |-> p, id |-> id, base |-> b, size |-> size])
      BY <1>3 DEF handle_create_segment, place_segment, tableVars
    <3> QED BY <3>1
  <2>3. owned[p] # owned'[p]
    BY <1>1, <2>1
  <2>4. \A q \in Pid \ {p} :
          filter_process_segments(segments', q) = filter_process_segments(segments, q)
    BY <1>1, <2>2, FilterAppend
  <2>5. job.kind # "compacting"
    BY <2>1 DEF Idle
  <2> QED BY <2>3, <2>4, <2>5 DEF OthersKept
<1>4. CASE compact_memory
  BY <1>1, <1>4, CompactKeeps DEF compact_memory, OthersKept
<1>5. CASE find_and_remove_segment
  <2>1. PICK i : i = FirstIndex(segments, job.pid, Head(job.todo))
    OBVIOUS
  <2>2. segments' = ListRemove(segments, i) /\ job.kind = "remove"
    BY <1>5, <2>1 DEF find_and_remove_segment, SelectInSeq, FirstIndex
  <2>3. i \in DOMAIN segments => segments[i].pid = job.pid
    <3>1. \/ i \in 1 .. Len(segments) /\ segments[i].pid = job.pid
          \/ i = 0
      BY <1>1, <2>1, Found
    <3> QED BY <1>1, <3>1
  <2>4. \A q \in Pid : q # job.pid =>
          filter_process_segments(segments', q) = filter_process_segments(segments, q)
    BY <1>1, <2>2, <2>3, FilterListRemove
  <2> QED BY <2>2, <2>4 DEF OthersKept
<1>6. ASSUME resume_block, segments' # segments PROVE OthersKept
  <2>1. job.kind = "resume"
    BY <1>6 DEF resume_block
  <2>2. PICK x : x.pid = job.pid /\ segments' = Append(segments, x)
    <3>1. PICK s, d, b : segments' = Append(segments, [pid |-> job.pid, size |-> s, id |-> d,
                                                       base |-> b])
      BY <1>6 DEF resume_block
    <3> QED BY <3>1
  <2>3. \A q \in Pid : q # job.pid =>
          filter_process_segments(segments', q) = filter_process_segments(segments, q)
    BY <1>1, <2>2, FilterAppend
  <2> QED BY <2>1, <2>3 DEF OthersKept
<1>7. ASSUME \/ add_stick_connection \/ add_total_memory \/ init_swap_data
             \/ \E p \in Pid :
                  \/ handle_new_process(p) \/ handle_end_process(p)
                  \/ suspend_process(p) \/ resume_process(p)
                  \/ \E id \in SegId :
                       \/ handle_delete_segment(p, id)
                       \/ \E off \in 0 .. total_size - 1 : write_memory(p, id, off)
                       \/ \E i \in Inputs : handle_stdin_request(p, id, i[1], i[2])
             \/ remove_segment \/ removal_done \/ resume_done \/ UNCHANGED vars
      PROVE  segments' = segments
  BY <1>7 DEF vars, tableVars, add_stick_connection, add_total_memory, init_swap_data,
     handle_new_process, handle_end_process, suspend_process, resume_process,
     handle_stdin_request, handle_delete_segment, write_memory, remove_segment,
     removal_done, resume_done
<1> QED BY <1>2, <1>3, <1>4, <1>5, <1>6, <1>7 DEF Next

-----------------------------------------------------------------------------
(* Where the segments of a process are.                                    *)

\* The ids of p in a segment table, its blocks, and the segments whose first
\* block is one of them.
IdsIn(segs, p) == {d \in SegId : Has(ToSet(segs), p, d)}
BlocksOf(blocks, p) == {b \in Block : blocks[b].pid = p}
FirstIn(blocks, b, p, d) ==
  blocks[b].pid = p /\ blocks[b].segment_number = d /\ blocks[b].segment_block_number = 0
IdsSwapped(blocks, p) == {d \in SegId : \E b \in Block : FirstIn(blocks, b, p, d)}

\* No segment is listed twice, and none has two first blocks in swap.
OneListed(segs) == \A s, t \in ToSet(segs) : s.pid = t.pid /\ s.id = t.id => s = t
OneFirst(blocks) ==
  \A p \in Pid, d \in SegId : \A b, c \in Block :
    FirstIn(blocks, b, p, d) /\ FirstIn(blocks, c, p, d) => b = c

\* A process whose segments are not being removed: T are its ids in the table, S
\* those in swap, B its blocks.
Settled(T, S, B, own, st) ==
  /\ st \in {"none", "ended"} => T = {} /\ B = {} /\ own = {}
  /\ st = "resident" => T = own /\ B = {}
  /\ st = "suspended" => T \cup S = own /\ T \cap S = {}

\* A process whose segments todo are still to be removed.
Departing(T, S, B, own, todo, after) ==
  /\ IsInjective(todo)
  /\ after = "suspended" => T = ToSet(todo) /\ S = own
  /\ after # "suspended" => B = {} /\ T = own \cup ToSet(todo) /\ own \cap ToSet(todo) = {}
  /\ after = "ended" => own = {}

\* InPlace: the segments of p are where its status, or the removal under way, says.
Leaving(p) == job.kind = "remove" /\ job.pid = p

InPlace(p) ==
  LET T == IdsIn(segments, p)
      S == IdsSwapped(block_list, p)
      B == BlocksOf(block_list, p)
  IN  IF Leaving(p) THEN Departing(T, S, B, owned[p], job.todo, job.after)
      ELSE Settled(T, S, B, owned[p], status[p])

\* What PlaceInv says while the listener runs.
Places ==
  /\ OneListed(segments) /\ OneFirst(block_list)
  /\ job.kind = "compacting" => job.id \notin owned[job.pid] /\ status[job.pid] = "resident"
  /\ \A p \in Pid : InPlace(p)

PlaceInv == Running => Places

\* No suspension finds swap full: suspend_process never gives up half way, which
\* would leave copies in swap of segments that stay in memory.
SuspensionsFit == \A p \in Pid : suspend_process(p) => job' # Idle

-----------------------------------------------------------------------------
(* What a step does to the ids in the table and in swap.                   *)

\* A segment is listed: create_segment and regenerate_segment.
LEMMA AppendedIds ==
  ASSUME NEW segs \in Seq(Segment), NEW x \in Segment, OneListed(segs),
         x.id \notin IdsIn(segs, x.pid)
  PROVE  /\ OneListed(Append(segs, x))
         /\ \A q : IdsIn(Append(segs, x), q)
                     = IF q = x.pid THEN IdsIn(segs, q) \cup {x.id} ELSE IdsIn(segs, q)
<1>1. x.size \in Nat \ {0} /\ x.id \in SegId /\ Sized(segs)
  BY SegmentFacts, SegmentsSized
<1>2. ToSet(Append(segs, x)) = ToSet(segs) \cup {x}
  BY <1>1, Appended
<1>3. \A s \in ToSet(segs) : ~(s.pid = x.pid /\ s.id = x.id)
  BY <1>1 DEF IdsIn, Has
<1>4. OneListed(Append(segs, x))
  BY <1>2, <1>3 DEF OneListed
<1>5. ASSUME NEW q
      PROVE  IdsIn(Append(segs, x), q)
               = IF q = x.pid THEN IdsIn(segs, q) \cup {x.id} ELSE IdsIn(segs, q)
  BY <1>1, <1>2 DEF IdsIn, Has
<1> QED BY <1>4, <1>5

\* Compaction moves segments and renames none.
LEMMA PackedIds ==
  ASSUME NEW segs \in Seq(Segment), IsInjective(segs), OneListed(segs)
  PROVE  /\ compact_segments(segs) \in Seq(Segment) /\ OneListed(compact_segments(segs))
         /\ \A q : IdsIn(compact_segments(segs), q) = IdsIn(segs, q)
<1>1. PICK r : r = compact_segments(segs)
  OBVIOUS
<1>2. /\ r \in Seq(Segment) /\ Len(r) = Len(segs)
      /\ \A i \in 1 .. Len(segs) : r[i].pid = segs[i].pid /\ r[i].id = segs[i].id
  BY <1>1, Packed
<1>3. DOMAIN segs = 1 .. Len(segs) /\ DOMAIN r = 1 .. Len(segs)
  BY <1>2
<1>4. OneListed(r)
  <2> SUFFICES ASSUME NEW i \in 1 .. Len(segs), NEW j \in 1 .. Len(segs),
                      r[i].pid = r[j].pid, r[i].id = r[j].id
               PROVE  r[i] = r[j]
    BY <1>3 DEF OneListed, ToSet
  <2>1. segs[i] = segs[j]
    BY <1>2, <1>3 DEF OneListed, ToSet
  <2> QED BY <1>3, <2>1 DEF IsInjective
<1>5. ASSUME NEW q, NEW d PROVE Has(ToSet(r), q, d) <=> Has(ToSet(segs), q, d)
  BY <1>2, <1>3 DEF Has, ToSet
<1>6. ASSUME NEW q PROVE IdsIn(r, q) = IdsIn(segs, q)
  BY <1>5 DEF IdsIn
<1> QED BY <1>1, <1>2, <1>4, <1>6

\* find_and_remove_segment takes one id of one process out of the table.
LEMMA RemovedIds ==
  ASSUME NEW segs \in Seq(Segment), IsInjective(segs), OneListed(segs), NEW p, NEW d
  PROVE  LET r == ListRemove(segs, FirstIndex(segs, p, d))
         IN  /\ OneListed(r)
             /\ \A q : IdsIn(r, q) = IF q = p THEN IdsIn(segs, q) \ {d} ELSE IdsIn(segs, q)
<1>1. PICK i : i = FirstIndex(segs, p, d)
  OBVIOUS
<1>2. PICK r : r = ListRemove(segs, i)
  OBVIOUS
<1>3. \/ i \in 1 .. Len(segs) /\ segs[i].pid = p /\ segs[i].id = d
      \/ i = 0 /\ \A k \in 1 .. Len(segs) : ~(segs[k].pid = p /\ segs[k].id = d)
  BY <1>1, Found
<1>4. Len(segs) \in Nat /\ DOMAIN segs = 1 .. Len(segs) /\ Sized(segs)
  BY SegmentsSized
<1>5. ToSet(r) = ToSet(segs) \ ElementAt(segs, i)
  BY <1>2, <1>3, <1>4, ListRemoved
<1>6. \A s \in ToSet(segs) : s \in ElementAt(segs, i) <=> s.pid = p /\ s.id = d
  <2>1. CASE i = 0
    BY <1>3, <1>4, <2>1 DEF ElementAt, ToSet
  <2>2. CASE i # 0
    <3>1. segs[i] \in ToSet(segs) /\ segs[i].pid = p /\ segs[i].id = d
      BY <1>3, <1>4, <2>2 DEF ToSet
    <3> QED BY <2>2, <3>1 DEF ElementAt, OneListed
  <2> QED BY <2>1, <2>2
<1>7. OneListed(r)
  BY <1>5 DEF OneListed
<1>8. ASSUME NEW q
      PROVE  IdsIn(r, q) = IF q = p THEN IdsIn(segs, q) \ {d} ELSE IdsIn(segs, q)
  BY <1>5, <1>6 DEF IdsIn, Has
<1> QED BY <1>1, <1>2, <1>7, <1>8

\* Block b, which was p's, is free: nothing of another process has changed, and p
\* has one segment less in swap if b was the first block of it.
FreedFrom(blocks, freed, p, b) ==
  /\ OneFirst(freed)
  /\ \A q \in Pid \ {p} : /\ BlocksOf(freed, q) = BlocksOf(blocks, q)
                          /\ IdsSwapped(freed, q) = IdsSwapped(blocks, q)
  /\ IdsSwapped(freed, p) = IF blocks[b].segment_block_number = 0
                            THEN IdsSwapped(blocks, p) \ {blocks[b].segment_number}
                            ELSE IdsSwapped(blocks, p)

\* resume_process frees a block it has restored.
LEMMA FreedIds ==
  ASSUME NEW blocks, NEW p \in Pid, NEW b \in Block, blocks[b].pid = p, OneFirst(blocks),
         NEW freed, freed = [blocks EXCEPT ![b] = FreeBlock], DOMAIN blocks = Block,
         blocks[b].segment_number \in SegId
  PROVE  FreedFrom(blocks, freed, p, b)
<1>1. /\ freed[b].pid = -1 /\ -1 \notin Pid
      /\ \A c \in Block : c # b => freed[c] = blocks[c]
  BY KernelMemoryAssumption DEF FreeBlock
<1>2. \A q \in Pid : \A d : \A c \in Block :
        FirstIn(freed, c, q, d) <=> c # b /\ FirstIn(blocks, c, q, d)
  BY <1>1 DEF FirstIn
<1>3. OneFirst(freed)
  BY <1>2 DEF OneFirst
<1>4. ASSUME NEW q \in Pid \ {p}
      PROVE  /\ BlocksOf(freed, q) = BlocksOf(blocks, q)
             /\ IdsSwapped(freed, q) = IdsSwapped(blocks, q)
  <2>1. BlocksOf(freed, q) = BlocksOf(blocks, q)
    BY <1>1 DEF BlocksOf
  <2>2. \A d : \A c \in Block : FirstIn(freed, c, q, d) <=> FirstIn(blocks, c, q, d)
    BY <1>2 DEF FirstIn
  <2> QED BY <2>1, <2>2 DEF IdsSwapped
<1>5. CASE blocks[b].segment_block_number # 0
  <2>1. \A d : \A c \in Block : FirstIn(freed, c, p, d) <=> FirstIn(blocks, c, p, d)
    BY <1>2, <1>5 DEF FirstIn
  <2> QED BY <1>3, <1>4, <1>5, <2>1 DEF IdsSwapped, FreedFrom
<1>6. CASE blocks[b].segment_block_number = 0
  <2> DEFINE e == blocks[b].segment_number
  <2>1. FirstIn(blocks, b, p, e)
    BY <1>6 DEF FirstIn
  <2>2. \A c \in Block : ~FirstIn(freed, c, p, e)
    BY <1>2, <2>1 DEF OneFirst
  <2>3. \A d : d # e => \A c \in Block : FirstIn(freed, c, p, d) <=> FirstIn(blocks, c, p, d)
    BY <1>2, <2>1 DEF FirstIn
  <2> HIDE DEF e
  <2>4. IdsSwapped(freed, p) = IdsSwapped(blocks, p) \ {e}
    BY <2>2, <2>3 DEF IdsSwapped
  <2> QED BY <1>3, <1>4, <1>6, <2>4 DEF e, FreedFrom
<1> QED BY <1>5, <1>6

\* The ids still to be removed, once the first of them has been.
LEMMA TailIds ==
  ASSUME NEW todo \in Seq(SegId), todo # <<>>, IsInjective(todo)
  PROVE  /\ IsInjective(Tail(todo)) /\ ToSet(Tail(todo)) = ToSet(todo) \ {Head(todo)}
         /\ Head(todo) \in ToSet(todo)
<1>1. PICK n \in Nat \ {0} : n = Len(todo) /\ DOMAIN todo = 1 .. n
  OBVIOUS
<1>2. PICK t : t = Tail(todo)
  OBVIOUS
<1>3. /\ DOMAIN t = 1 .. n - 1 /\ \A i \in 1 .. n - 1 : t[i] = todo[i + 1]
      /\ Head(todo) = todo[1]
  BY <1>1, <1>2
<1>4. IsInjective(t)
  <2> SUFFICES ASSUME NEW i \in 1 .. n - 1, NEW j \in 1 .. n - 1, t[i] = t[j] PROVE i = j
    BY <1>3 DEF IsInjective
  <2>1. todo[i + 1] = todo[j + 1] /\ i + 1 \in 1 .. n /\ j + 1 \in 1 .. n
    BY <1>3
  <2>2. i + 1 = j + 1
    BY <1>1, <2>1 DEF IsInjective
  <2> QED BY <2>2
<1>5. ASSUME NEW x PROVE x \in ToSet(t) <=> x \in ToSet(todo) /\ x # todo[1]
  <2>1. ASSUME x \in ToSet(t) PROVE x \in ToSet(todo) /\ x # todo[1]
    <3>1. PICK i \in 1 .. n - 1 : x = t[i]
      BY <1>3, <2>1 DEF ToSet
    <3>2. i + 1 \in 1 .. n /\ x = todo[i + 1] /\ i + 1 # 1 /\ 1 \in 1 .. n
      BY <1>3, <3>1
    <3>3. x # todo[1]
      BY <1>1, <3>2 DEF IsInjective
    <3> QED BY <1>1, <3>2, <3>3 DEF ToSet
  <2>2. ASSUME x \in ToSet(todo), x # todo[1] PROVE x \in ToSet(t)
    <3>1. PICK i \in 1 .. n : x = todo[i]
      BY <1>1, <2>2 DEF ToSet
    <3>2. i - 1 \in 1 .. n - 1 /\ t[i - 1] = todo[(i - 1) + 1] /\ (i - 1) + 1 = i
      BY <1>3, <2>2, <3>1
    <3>3. x = t[i - 1]
      BY <3>1, <3>2
    <3> QED BY <1>3, <3>2, <3>3 DEF ToSet
  <2> QED BY <2>1, <2>2
<1>6. ToSet(t) = ToSet(todo) \ {Head(todo)}
  BY <1>3, <1>5
<1>7. Head(todo) \in ToSet(todo)
  BY <1>1, <1>3 DEF ToSet
<1> QED BY <1>2, <1>4, <1>6, <1>7

\* A sublist repeats nothing the list does not.
LEMMA FilterInjective ==
  ASSUME NEW S, NEW segs \in Seq(S), NEW p, IsInjective(segs)
  PROVE  IsInjective(filter_process_segments(segs, p))
<1>1. PICK n \in Nat : n = Len(segs) /\ DOMAIN segs = 1 .. n
  OBVIOUS
<1>2. IsSeq(segs)
  BY IsSeqFrom
<1>3. PICK g : filter_process_segments(segs, p) = g[n] /\ Collects(g, segs, p, n)
  BY <1>1, <1>2, FilterCollects
<1> DEFINE From(v, m) == /\ v \in Seq(S) /\ IsInjective(v)
                         /\ \A k \in DOMAIN v : \E i \in 1 .. m : v[k] = segs[i]
           T == {m \in Nat : m <= n => From(g[m], m)}
<1>4. 0 \in T
  <2>1. g[0] = <<>> /\ <<>> \in Seq(S) /\ DOMAIN <<>> = {}
    BY <1>3 DEF Collects
  <2> QED BY <2>1 DEF IsInjective
<1>5. ASSUME NEW m \in T PROVE m + 1 \in T
  <2> SUFFICES ASSUME m + 1 <= n PROVE From(g[m + 1], m + 1)
    OBVIOUS
  <2>1. m \in Nat /\ m + 1 \in 1 .. n /\ (m + 1) - 1 = m /\ From(g[m], m)
    BY <1>5
  <2>2. PICK i \in 1 .. n : i = m + 1 /\ i - 1 = m
    BY <2>1
  <2>3. g[i] = IF segs[i].pid = p THEN Append(g[i - 1], segs[i]) ELSE g[i - 1]
    BY <1>3 DEF Collects
  <2>4. PICK v : v = g[m]
    OBVIOUS
  <2>5. PICK l \in Nat : v \in Seq(S) /\ l = Len(v) /\ DOMAIN v = 1 .. l
    BY <2>1, <2>4
  <2>6. CASE segs[i].pid # p
    <3>1. g[m + 1] = v
      BY <2>2, <2>3, <2>4, <2>6
    <3>2. \A k \in DOMAIN v : \E j \in 1 .. m + 1 : v[k] = segs[j]
      BY <2>1, <2>4
    <3> QED BY <2>1, <2>4, <3>1, <3>2
  <2>7. CASE segs[i].pid = p
    <3>1. PICK x \in S : x = segs[i]
      BY <1>1
    <3>2. PICK w : w = Append(v, x)
      OBVIOUS
    <3>3. /\ w \in Seq(S) /\ DOMAIN w = 1 .. l + 1 /\ w[l + 1] = x
          /\ \A k \in 1 .. l : w[k] = v[k]
      BY <2>5, <3>2
    <3>4. \A k \in 1 .. l : \E j \in 1 .. m : v[k] = segs[j]
      BY <2>1, <2>4, <2>5
    <3>5. \A k \in 1 .. l : v[k] # x
      BY <1>1, <2>1, <2>2, <3>1, <3>4 DEF IsInjective
    <3>6. IsInjective(w)
      <4> SUFFICES ASSUME NEW a \in 1 .. l + 1, NEW b \in 1 .. l + 1, w[a] = w[b] PROVE a = b
        BY <3>3 DEF IsInjective
      <4>1. CASE a = l + 1 \/ b = l + 1
        BY <3>3, <3>5, <4>1
      <4>2. CASE a \in 1 .. l /\ b \in 1 .. l
        BY <2>1, <2>4, <2>5, <3>3, <4>2 DEF IsInjective
      <4> QED BY <4>1, <4>2
    <3>7. ASSUME NEW k \in 1 .. l + 1 PROVE \E j \in 1 .. m + 1 : w[k] = segs[j]
      <4>1. CASE k = l + 1
        BY <2>1, <2>2, <3>1, <3>3, <4>1
      <4>2. CASE k \in 1 .. l
        <5>1. PICK j \in 1 .. m : v[k] = segs[j]
          BY <3>4, <4>2
        <5> QED BY <2>1, <3>3, <4>2, <5>1
      <4> QED BY <4>1, <4>2
    <3>8. g[m + 1] = w
      BY <2>2, <2>3, <2>4, <2>7, <3>1, <3>2
    <3> QED BY <3>3, <3>6, <3>7, <3>8
  <2> QED BY <2>6, <2>7
<1>6. T = Nat
  <2>1. T \in SUBSET Nat
    OBVIOUS
  <2> HIDE DEF T
  <2> QED BY <1>4, <1>5, <2>1, Induction
<1> QED BY <1>3, <1>6

\* The segment table of p that a CPU would be sent has each of its ids once.
LEMMA MineIds ==
  ASSUME NEW segs \in Seq(Segment), IsInjective(segs), OneListed(segs), NEW p
  PROVE  LET mine == filter_process_segments(segs, p)
         IN  /\ IsInjective(IdsOf(mine)) /\ ToSet(IdsOf(mine)) = IdsIn(segs, p)
             /\ Len(IdsOf(mine)) = Cardinality(IdsIn(segs, p))
             /\ \A i, j \in 1 .. Len(mine) : mine[i].id = mine[j].id => i = j
<1>1. PICK mine : mine = filter_process_segments(segs, p)
  OBVIOUS
<1>2. PICK ids : ids = IdsOf(mine)
  OBVIOUS
<1>3. /\ mine \in Seq(Segment) /\ ToSet(mine) \subseteq ToSet(segs)
      /\ \A k \in 1 .. Len(mine) : mine[k].pid = p
      /\ \A i \in 1 .. Len(segs) : segs[i].pid = p => \E k \in 1 .. Len(mine) : mine[k] = segs[i]
      /\ ids \in Seq(SegId) /\ Len(ids) = Len(mine)
      /\ \A k \in 1 .. Len(mine) : ids[k] = mine[k].id
  BY <1>1, <1>2, MineFacts
<1>4. PICK n \in Nat : /\ n = Len(mine) /\ DOMAIN mine = 1 .. n /\ DOMAIN ids = 1 .. n
                       /\ DOMAIN segs = 1 .. Len(segs)
  BY <1>3
<1>5. IsInjective(mine)
  BY <1>1, FilterInjective
<1>6. \A i, j \in 1 .. n : mine[i].id = mine[j].id => i = j
  <2> SUFFICES ASSUME NEW i \in 1 .. n, NEW j \in 1 .. n, mine[i].id = mine[j].id PROVE i = j
    OBVIOUS
  <2>1. mine[i] \in ToSet(segs) /\ mine[j] \in ToSet(segs) /\ mine[i].pid = mine[j].pid
    BY <1>3, <1>4 DEF ToSet
  <2>2. mine[i] = mine[j]
    BY <2>1 DEF OneListed
  <2> QED BY <1>4, <1>5, <2>2 DEF IsInjective
<1>7. IsInjective(ids)
  BY <1>3, <1>4, <1>6 DEF IsInjective
<1>8. ASSUME NEW d PROVE d \in ToSet(ids) <=> d \in IdsIn(segs, p)
  <2>1. ASSUME d \in ToSet(ids) PROVE d \in IdsIn(segs, p)
    <3>1. PICK k \in 1 .. n : d = ids[k]
      BY <1>4, <2>1 DEF ToSet
    <3>2. d \in SegId
      BY <1>3, <1>4, <3>1
    <3>3. mine[k] \in ToSet(segs) /\ mine[k].pid = p /\ mine[k].id = d
      BY <1>3, <1>4, <3>1 DEF ToSet
    <3> QED BY <3>2, <3>3 DEF IdsIn, Has
  <2>2. ASSUME d \in IdsIn(segs, p) PROVE d \in ToSet(ids)
    <3>1. PICK i \in 1 .. Len(segs) : segs[i].pid = p /\ segs[i].id = d
      BY <1>4, <2>2 DEF IdsIn, Has, ToSet
    <3>2. PICK k \in 1 .. n : mine[k] = segs[i]
      BY <1>3, <1>4, <3>1
    <3>3. ids[k] = d
      BY <1>3, <1>4, <3>1, <3>2
    <3> QED BY <1>4, <3>3 DEF ToSet
  <2> QED BY <2>1, <2>2
<1>9. ToSet(ids) = IdsIn(segs, p)
  BY <1>8
<1>10. n = Cardinality(ToSet(ids))
  <2> DEFINE V == ToSet(ids)
  <2>1. ids \in [1 .. n -> V]
    BY <1>3, <1>4 DEF ToSet
  <2>2. ids \in Injection(1 .. n, V)
    BY <1>7, <2>1 DEF Injection
  <2>3. \A d \in V : \E k \in 1 .. n : ids[k] = d
    BY <1>4 DEF ToSet
  <2> HIDE DEF V
  <2>4. ids \in Bijection(1 .. n, V)
    BY <2>1, <2>2, <2>3 DEF Bijection, Surjection
  <2>5. ExistsBijection(1 .. n, V)
    BY <2>4 DEF ExistsBijection
  <2>6. IsFiniteSet(1 .. n) /\ Cardinality(1 .. n) = n
    <3>1. 1 \in Int /\ n \in Int
      OBVIOUS
    <3>2. IsFiniteSet(1 .. n) /\ Cardinality(1 .. n) = IF 1 > n THEN 0 ELSE n - 1 + 1
      BY <3>1, FS_Interval
    <3>3. PICK c : c = Cardinality(1 .. n)
      OBVIOUS
    <3>4. c = n
      BY <3>2, <3>3
    <3> QED BY <3>2, <3>3, <3>4
  <2>7. Cardinality(V) = n
    BY <2>5, <2>6, FS_Bijection
  <2> QED BY <2>7 DEF V
<1> QED BY <1>1, <1>2, <1>3, <1>4, <1>6, <1>7, <1>9, <1>10

\* Two free blocks have different turns.
LEMMA TurnOnce ==
  ASSUME NEW free \in SUBSET Block, NEW b \in free, NEW c \in free, Turn(free, b) = Turn(free, c)
  PROVE  b = c
<1>1. ASSUME NEW x \in free, NEW y \in free, x < y, Turn(free, x) = Turn(free, y) PROVE FALSE
  <2> DEFINE X == {a \in free : a <= x}
             Y == {a \in free : a <= y}
  <2>1. x \in Nat /\ y \in Nat /\ \A a \in free : a \in Nat
    BY BlockSet
  <2>2. X \in SUBSET Y /\ y \in Y /\ y \notin X
    <3>1. ASSUME NEW a \in X PROVE a \in Y
      BY <1>1, <2>1, <3>1
    <3>2. y <= y /\ ~(y <= x)
      BY <1>1, <2>1
    <3> QED BY <3>1, <3>2
  <2>3. IsFiniteSet(Y) /\ Cardinality(X) = Cardinality(Y)
    BY <1>1, BlockSet, FS_Subset DEF Turn
  <2> HIDE DEF X, Y
  <2> QED BY <2>2, <2>3, FS_Subset
<1>2. b \in Nat /\ c \in Nat
  BY BlockSet
<1> QED BY <1>1, <1>2

\* The blocks a suspension writes: which block of which segment each receives,
\* and that every block of every segment is written when swap has room.
LEMMA CopyAt ==
  ASSUME MemoryInv, NEW p \in Pid, suspend_process(p)
  PROVE  LET mine == filter_process_segments(segments, p)
             Holds(b, i, k) == /\ block_list'[b] = Entry(p, mine[i].id, k - 1, mine[i].size)
                               /\ disk'[b] = suspend_segment(mine[i])[k].bytes
         IN  /\ \A b \in CopiedFor(p) :
                  /\ b \in Block /\ b \in Free
                  /\ \E i \in 1 .. Len(mine) : \E k \in 1 .. BlockCount(mine[i].size) :
                       Turn(Free, b) = Ends(mine)[i - 1] + k /\ Holds(b, i, k)
             /\ SuspensionComplete(Free, WantedOf(p)) =>
                  \A i \in 1 .. Len(mine) : \A k \in 1 .. BlockCount(mine[i].size) :
                    \E b \in CopiedFor(p) : Holds(b, i, k)
<1> DEFINE mine == filter_process_segments(segments, p)
           w == WantedOf(p)
           f == Ends(mine)
           n == f[Len(mine)]
           Holds(b, i, k) == /\ block_list'[b] = Entry(p, mine[i].id, k - 1, mine[i].size)
                             /\ disk'[b] = suspend_segment(mine[i])[k].bytes
<1>1. /\ mine \in Seq(Segment) /\ ToSet(mine) \subseteq ToSet(segments)
      /\ \A i \in 1 .. Len(mine) : mine[i].pid = p
  <2>1. segments \in Seq(Segment)
    BY DEF MemoryInv, KMTypeOK
  <2> QED BY <2>1, MineFacts
<1>2. w = BlocksWanted(mine)
  BY DEF WantedOf
<1> HIDE DEF mine, w
<1>3. /\ n \in Nat /\ DOMAIN w = 1 .. n /\ Len(w) = n
      /\ \A t \in 1 .. n : \E i \in 1 .. Len(mine) :
           \E k \in 1 .. BlockCount(mine[i].size) :
             t = f[i - 1] + k /\ w[t] = suspend_segment(mine[i])[k]
      /\ \A i \in 1 .. Len(mine) : \A k \in 1 .. BlockCount(mine[i].size) :
           /\ f[i - 1] + k \in 1 .. n
           /\ w[f[i - 1] + k] = suspend_segment(mine[i])[k]
  BY <1>1, <1>2, Wanted
<1> HIDE DEF f, n
<1>4. ASSUME NEW i \in 1 .. Len(mine), NEW k \in 1 .. BlockCount(mine[i].size)
      PROVE  suspend_segment(mine[i])[k].entry = Entry(p, mine[i].id, k - 1, mine[i].size)
  BY <1>1, WantedType DEF Entry
<1>5. Free \in SUBSET Block /\ IsFiniteSet(Free) /\ Cardinality(Free) \in Nat
  <2>1. Free \in SUBSET Block
    BY DEF Free
  <2> QED BY <2>1, BlockSet, FS_Subset, FS_CardinalityType
<1>6. ASSUME NEW b \in CopiedFor(p)
      PROVE  /\ b \in Free /\ b \in Block /\ Turn(Free, b) \in 1 .. n
             /\ block_list'[b] = w[Turn(Free, b)].entry /\ disk'[b] = w[Turn(Free, b)].bytes
  <2>1. b \in Free /\ b \in Block
    BY DEF CopiedFor, Free
  <2>2. Turn(Free, b) \in 1 .. n
    BY <1>3, CopiedType DEF w
  <2> QED BY <2>1, <2>2, SuspendSteps DEF w
<1>7. ASSUME NEW b \in CopiedFor(p)
      PROVE  \E i \in 1 .. Len(mine) : \E k \in 1 .. BlockCount(mine[i].size) :
               Turn(Free, b) = f[i - 1] + k /\ Holds(b, i, k)
  <2>1. PICK t \in 1 .. n : t = Turn(Free, b)
    BY <1>6
  <2>2. PICK i \in 1 .. Len(mine) : \E k \in 1 .. BlockCount(mine[i].size) :
          t = f[i - 1] + k /\ w[t] = suspend_segment(mine[i])[k]
    BY <1>3
  <2>3. PICK k \in 1 .. BlockCount(mine[i].size) :
          t = f[i - 1] + k /\ w[t] = suspend_segment(mine[i])[k]
    BY <2>2
  <2> QED BY <1>4, <1>6, <2>1, <2>3
<1>8. ASSUME SuspensionComplete(Free, WantedOf(p)), NEW i \in 1 .. Len(mine),
             NEW k \in 1 .. BlockCount(mine[i].size)
      PROVE  \E b \in CopiedFor(p) : Holds(b, i, k)
  <2>1. n <= Cardinality(Free)
    BY <1>3, <1>5, <1>8 DEF SuspensionComplete, w
  <2>2. PICK t \in 1 .. n : t = f[i - 1] + k /\ w[t] = suspend_segment(mine[i])[k]
    BY <1>3
  <2>3. t \in Nat \ {0} /\ t <= Cardinality(Free) /\ t <= n
    BY <1>3, <1>5, <2>1
  <2>4. PICK b \in Free : Turn(Free, b) = t
    BY <1>5, <2>3, TurnTaken
  <2>5. b \in CopiedFor(p)
    BY <1>3, <2>3, <2>4 DEF CopiedFor, w
  <2>6. Holds(b, i, k)
    BY <1>4, <1>6, <2>2, <2>4, <2>5
  <2> QED BY <2>5, <2>6
<1> QED BY <1>6, <1>7, <1>8 DEF mine, f

\* A suspension that fits leaves every segment of p in swap as well, once.
LEMMA SuspendIds ==
  ASSUME MemoryInv, NEW p \in Pid, suspend_process(p), OneListed(segments), OneFirst(block_list),
         BlocksOf(block_list, p) = {}, SuspensionComplete(Free, WantedOf(p))
  PROVE  /\ OneFirst(block_list') /\ IdsSwapped(block_list', p) = IdsIn(segments, p)
         /\ \A q \in Pid \ {p} : /\ BlocksOf(block_list', q) = BlocksOf(block_list, q)
                                 /\ IdsSwapped(block_list', q) = IdsSwapped(block_list, q)
<1> DEFINE mine == filter_process_segments(segments, p)
           f == Ends(mine)
<1>1. segments \in Seq(Segment) /\ IsInjective(segments)
  BY DEF MemoryInv, Tables, Partition
<1>2. /\ mine \in Seq(Segment) /\ ToSet(IdsOf(mine)) = IdsIn(segments, p)
      /\ \A i \in 1 .. Len(mine) : mine[i].id \in SegId /\ IdsOf(mine)[i] = mine[i].id
      /\ \A i, j \in 1 .. Len(mine) : mine[i].id = mine[j].id => i = j
      /\ Len(IdsOf(mine)) = Len(mine) /\ IdsOf(mine) \in Seq(SegId)
  <2>1. mine \in Seq(Segment) /\ Len(IdsOf(mine)) = Len(mine) /\ IdsOf(mine) \in Seq(SegId)
    BY <1>1, MineFacts
  <2>2. \A i \in 1 .. Len(mine) : IdsOf(mine)[i] = mine[i].id
    BY <1>1, MineFacts
  <2>3. \A i \in 1 .. Len(mine) : mine[i].id \in SegId
    <3> HIDE DEF mine
    <3> QED BY <2>1, SegmentsSized, SegmentFacts
  <2> QED BY <1>1, <2>1, <2>2, <2>3, MineIds
<1>3. \A b \in CopiedFor(p) :
        /\ b \in Block /\ b \in Free
        /\ \E i \in 1 .. Len(mine) : \E k \in 1 .. BlockCount(mine[i].size) :
             /\ Turn(Free, b) = f[i - 1] + k
             /\ block_list'[b] = Entry(p, mine[i].id, k - 1, mine[i].size)
  BY CopyAt
<1>4. \A i \in 1 .. Len(mine) : \A k \in 1 .. BlockCount(mine[i].size) :
        \E b \in CopiedFor(p) : block_list'[b] = Entry(p, mine[i].id, k - 1, mine[i].size)
  BY CopyAt
<1>5. \A b \in Block : b \notin CopiedFor(p) => block_list'[b] = block_list[b]
  BY SuspendSteps
<1> HIDE DEF mine, f
<1>6. ASSUME NEW b \in CopiedFor(p), NEW q, NEW d
      PROVE  /\ block_list'[b].pid = p
             /\ FirstIn(block_list', b, q, d) =>
                  /\ q = p
                  /\ \E i \in 1 .. Len(mine) : d = mine[i].id /\ Turn(Free, b) = f[i - 1] + 1
  <2>0. PICK i \in 1 .. Len(mine) : \E k \in 1 .. BlockCount(mine[i].size) :
          /\ Turn(Free, b) = f[i - 1] + k
          /\ block_list'[b] = Entry(p, mine[i].id, k - 1, mine[i].size)
    BY <1>3
  <2>1. PICK k \in 1 .. BlockCount(mine[i].size) :
          /\ Turn(Free, b) = f[i - 1] + k
          /\ block_list'[b] = Entry(p, mine[i].id, k - 1, mine[i].size)
    BY <2>0
  <2>2. /\ block_list'[b].pid = p /\ block_list'[b].segment_number = mine[i].id
        /\ block_list'[b].segment_block_number = k - 1
    BY <2>1 DEF Entry
  <2>3. FirstIn(block_list', b, q, d) => q = p /\ d = mine[i].id /\ k = 1
    <3>1. k \in Int
      <4>1. mine[i].size \in Sizes
        BY <1>2, SegmentsSized, SegmentFacts
      <4> QED BY <4>1, BlockCountFacts
    <3> QED BY <2>2, <3>1 DEF FirstIn
  <2> QED BY <2>1, <2>2, <2>3
<1>7. ASSUME NEW b \in CopiedFor(p)
      PROVE  block_list[b].pid = -1 /\ -1 \notin Pid
  BY <1>3, KernelMemoryAssumption DEF Free, FreeBlock
<1>8. OneFirst(block_list')
  <2> SUFFICES ASSUME NEW q \in Pid, NEW d \in SegId, NEW b \in Block, NEW c \in Block,
                      FirstIn(block_list', b, q, d), FirstIn(block_list', c, q, d)
               PROVE  b = c
    BY DEF OneFirst
  <2>1. CASE b \in CopiedFor(p) /\ c \in CopiedFor(p)
    <3>1. PICK i \in 1 .. Len(mine) : d = mine[i].id /\ Turn(Free, b) = f[i - 1] + 1
      BY <1>6, <2>1
    <3>2. PICK j \in 1 .. Len(mine) : d = mine[j].id /\ Turn(Free, c) = f[j - 1] + 1
      BY <1>6, <2>1
    <3>3. Turn(Free, b) = Turn(Free, c)
      BY <1>2, <3>1, <3>2
    <3>4. Free \in SUBSET Block
      BY DEF Free
    <3> QED BY <1>3, <2>1, <3>3, <3>4, TurnOnce
  <2>2. CASE b \notin CopiedFor(p) /\ c \notin CopiedFor(p)
    <3>1. FirstIn(block_list, b, q, d) /\ FirstIn(block_list, c, q, d)
      BY <1>5, <2>2 DEF FirstIn
    <3> QED BY <3>1 DEF OneFirst
  <2>3. ASSUME NEW x \in Block, NEW y \in Block, x \in CopiedFor(p), y \notin CopiedFor(p),
               FirstIn(block_list', x, q, d), FirstIn(block_list', y, q, d)
        PROVE  FALSE
    <3>1. q = p
      BY <1>6, <2>3
    <3>2. block_list[y].pid = p
      BY <1>5, <2>3, <3>1 DEF FirstIn
    <3> QED BY <3>2 DEF BlocksOf
  <2> QED BY <2>1, <2>2, <2>3
<1>9. ASSUME NEW d PROVE d \in IdsSwapped(block_list', p) <=> d \in IdsIn(segments, p)
  <2>1. ASSUME d \in IdsSwapped(block_list', p) PROVE d \in IdsIn(segments, p)
    <3>1. PICK b \in Block : FirstIn(block_list', b, p, d)
      BY <2>1 DEF IdsSwapped
    <3>2. b \in CopiedFor(p)
      BY <1>5, <3>1 DEF FirstIn, BlocksOf
    <3>3. PICK i \in 1 .. Len(mine) : d = mine[i].id
      BY <1>6, <3>1, <3>2
    <3>4. d = IdsOf(mine)[i] /\ i \in DOMAIN IdsOf(mine)
      BY <1>2, <3>3
    <3> QED BY <1>2, <3>4 DEF ToSet
  <2>2. ASSUME d \in IdsIn(segments, p) PROVE d \in IdsSwapped(block_list', p)
    <3>1. PICK i \in 1 .. Len(mine) : d = mine[i].id
      BY <1>2, <2>2 DEF ToSet
    <3>2. 1 \in 1 .. BlockCount(mine[i].size)
      <4>1. mine[i].size \in Sizes
        BY <1>2, SegmentsSized, SegmentFacts
      <4> QED BY <4>1, BlockCountFacts
    <3>3. PICK b \in CopiedFor(p) : block_list'[b] = Entry(p, mine[i].id, 1 - 1, mine[i].size)
      BY <1>4, <3>2
    <3>4. FirstIn(block_list', b, p, d) /\ b \in Block
      BY <1>3, <3>1, <3>3 DEF FirstIn, Entry
    <3> QED BY <2>2, <3>4 DEF IdsSwapped, IdsIn
  <2> QED BY <2>1, <2>2
<1>10. ASSUME NEW q \in Pid \ {p}
       PROVE  /\ BlocksOf(block_list', q) = BlocksOf(block_list, q)
              /\ IdsSwapped(block_list', q) = IdsSwapped(block_list, q)
  <2>1. \A b \in Block : block_list'[b].pid = q => block_list'[b] = block_list[b]
    BY <1>5, <1>6
  <2>2. \A b \in Block : block_list[b].pid = q => block_list'[b] = block_list[b]
    BY <1>5, <1>7
  <2>3. BlocksOf(block_list', q) = BlocksOf(block_list, q)
    BY <2>1, <2>2 DEF BlocksOf
  <2>4. \A b \in Block : \A d : FirstIn(block_list', b, q, d) <=> FirstIn(block_list, b, q, d)
    BY <2>1, <2>2 DEF FirstIn
  <2> QED BY <2>3, <2>4 DEF IdsSwapped
<1>11. IdsSwapped(block_list', p) = IdsIn(segments, p)
  BY <1>9
<1> QED BY <1>8, <1>10, <1>11

-----------------------------------------------------------------------------
(* Every step leaves the segments in their place.                          *)

\* A process that the step does not concern.
LEMMA StaysInPlace ==
  ASSUME NEW q \in Pid, InPlace(q), IdsIn(segments', q) = IdsIn(segments, q),
         BlocksOf(block_list', q) = BlocksOf(block_list, q),
         IdsSwapped(block_list', q) = IdsSwapped(block_list, q),
         owned'[q] = owned[q], status'[q] = status[q],
         job' = job \/ (~Leaving(q) /\ ~(job'.kind = "remove" /\ job'.pid = q))
  PROVE  InPlace(q)'
BY DEF InPlace, Leaving

\* The process that the step concerns, at rest or with a removal under way.
LEMMA NowSettled ==
  ASSUME NEW q \in Pid, ~(job'.kind = "remove" /\ job'.pid = q),
         Settled(IdsIn(segments', q), IdsSwapped(block_list', q), BlocksOf(block_list', q),
                 owned'[q], status'[q])
  PROVE  InPlace(q)'
BY DEF InPlace, Leaving

LEMMA NowDeparting ==
  ASSUME NEW q \in Pid, job'.kind = "remove", job'.pid = q,
         Departing(IdsIn(segments', q), IdsSwapped(block_list', q), BlocksOf(block_list', q),
                   owned'[q], job'.todo, job'.after)
  PROVE  InPlace(q)'
BY DEF InPlace, Leaving

\* A step of the accept thread, or a write.
LEMMA QuietPlaces ==
  ASSUME Places, UNCHANGED <<segments, block_list, job, status, owned>>
  PROVE  Places'
<1>1. \A q \in Pid : InPlace(q)'
  BY StaysInPlace DEF Places
<1> QED BY <1>1 DEF Places, OneListed, OneFirst, FirstIn

\* One lemma per action that touches the tables, swap, status or job.
LEMMA CreatePlaces ==
  ASSUME StoreInv, Places, NEW p \in Pid, NEW id \in SegId, NEW size \in Sizes,
         handle_create_segment(p, id, size)
  PROVE  Places'
<1>1. /\ job = Idle /\ status[p] = "resident" /\ id \notin owned[p]
      /\ UNCHANGED <<block_list, status>>
  BY DEF handle_create_segment, swapVars
<1>2. /\ segments \in Seq(Segment) /\ holes \in Seq(Hole)
      /\ owned \in [Pid -> SUBSET SegId]
  BY DEF StoreInv, MemoryInv, KMTypeOK
<1>3. \A q \in Pid : ~Leaving(q) /\ InPlace(q)
  BY <1>1 DEF Leaving, Idle, Places
<1>4. CASE hole_selection_algorithm(size, holes) = NoHole
  <2>1. /\ job' = [kind |-> "compacting", pid |-> p, id |-> id, size |-> size]
        /\ UNCHANGED <<segments, owned>>
    BY <1>4 DEF handle_create_segment, tableVars
  <2>2. job'.kind = "compacting" /\ job'.pid = p /\ job'.id = id
    BY <2>1
  <2>3. \A q \in Pid : InPlace(q)'
    BY <1>1, <1>3, <2>1, <2>2, StaysInPlace
  <2> QED BY <1>1, <2>1, <2>2, <2>3 DEF Places, OneListed, OneFirst, FirstIn
<1>5. CASE hole_selection_algorithm(size, holes) # NoHole
  <2>1. PICK x : x = [pid |-> p, id |-> id, base |-> hole_selection_algorithm(size, holes).base,
                      size |-> size]
    OBVIOUS
  <2>2. segments' = Append(segments, x) /\ owned' = [owned EXCEPT ![p] = @ \cup {id}] /\ job' = job
    BY <1>5, <2>1 DEF handle_create_segment, place_segment
  <2>3. x \in Segment /\ x.pid = p /\ x.id = id
    BY <1>2, <1>5, <2>1, SegmentMade
  <2>4. /\ IdsIn(segments, p) = owned[p] /\ BlocksOf(block_list, p) = {}
    BY <1>1, <1>3 DEF InPlace, Settled
  <2>5. /\ OneListed(segments')
        /\ \A q : IdsIn(segments', q) = IF q = p THEN IdsIn(segments, q) \cup {id}
                                        ELSE IdsIn(segments, q)
    BY <1>1, <1>2, <2>2, <2>3, <2>4, AppendedIds DEF Places
  <2>6. InPlace(p)'
    <3>1. IdsIn(segments', p) = owned'[p] /\ status'[p] = "resident"
      BY <1>1, <1>2, <2>2, <2>4, <2>5
    <3>2. ~(job'.kind = "remove" /\ job'.pid = p)
      BY <1>1, <2>2 DEF Idle
    <3>3. BlocksOf(block_list', p) = {}
      BY <1>1, <2>4
    <3> QED BY <3>1, <3>2, <3>3, NowSettled DEF Settled
  <2>7. ASSUME NEW q \in Pid, q # p PROVE InPlace(q)'
    BY <1>1, <1>2, <1>3, <2>2, <2>5, <2>7, StaysInPlace
  <2>8. job'.kind # "compacting"
    BY <1>1, <2>2 DEF Idle
  <2> QED BY <1>1, <2>5, <2>6, <2>7, <2>8 DEF Places, OneFirst, FirstIn
<1> QED BY <1>4, <1>5

LEMMA CompactPlaces ==
  ASSUME StoreInv, Places, compact_memory
  PROVE  Places'
<1>1. /\ job.kind = "compacting" /\ job' = Idle /\ UNCHANGED <<block_list, status>>
      /\ owned' = [owned EXCEPT ![job.pid] = @ \cup {job.id}]
  BY DEF compact_memory, swapVars
<1>2. /\ segments \in Seq(Segment) /\ IsInjective(segments) /\ job \in Request
      /\ owned \in [Pid -> SUBSET SegId]
  BY DEF StoreInv, MemoryInv, KMTypeOK, Tables, Partition
<1>3. PICK p \in Pid, id \in SegId : p = job.pid /\ id = job.id
  BY <1>1, <1>2, RequestFacts
<1>4. id \notin owned[p] /\ status[p] = "resident"
  BY <1>1, <1>3 DEF Places
<1>5. PICK packed : packed = compact_segments(segments)
  OBVIOUS
<1>6. PICK x : segments' = Append(packed, x) /\ x.pid = p /\ x.id = id
  BY <1>3, <1>5 DEF compact_memory, place_segment
<1>7. /\ packed \in Seq(Segment) /\ OneListed(packed)
      /\ \A q : IdsIn(packed, q) = IdsIn(segments, q)
  BY <1>2, <1>5, PackedIds DEF Places
<1>8. x \in Segment
  <2>1. segments' \in Seq(Segment)
    BY CompactTables DEF StoreInv, Tables, Partition
  <2>2. Len(packed) + 1 \in DOMAIN segments' /\ segments'[Len(packed) + 1] = x
    BY <1>6, <1>7, <2>1
  <2> QED BY <2>1, <2>2
<1>9. \A q \in Pid : ~Leaving(q) /\ InPlace(q)
  BY <1>1 DEF Leaving, Places
<1>10. IdsIn(segments, p) = owned[p] /\ BlocksOf(block_list, p) = {}
  BY <1>4, <1>9 DEF InPlace, Settled
<1>11. /\ OneListed(segments')
       /\ \A q : IdsIn(segments', q) = IF q = p THEN IdsIn(segments, q) \cup {id}
                                       ELSE IdsIn(segments, q)
  BY <1>4, <1>6, <1>7, <1>8, <1>10, AppendedIds
<1>12. InPlace(p)'
  <2>1. IdsIn(segments', p) = owned'[p] /\ status'[p] = "resident"
    BY <1>1, <1>2, <1>3, <1>4, <1>10, <1>11
  <2>2. ~(job'.kind = "remove" /\ job'.pid = p)
    BY <1>1 DEF Idle
  <2>3. BlocksOf(block_list', p) = {}
    BY <1>1, <1>10
  <2> QED BY <2>1, <2>2, <2>3, NowSettled DEF Settled
<1>13. ASSUME NEW q \in Pid, q # p PROVE InPlace(q)'
  <2>1. job'.kind # "remove"
    BY <1>1 DEF Idle
  <2> QED BY <1>1, <1>2, <1>3, <1>9, <1>11, <1>13, <2>1, StaysInPlace
<1>14. job'.kind # "compacting"
  BY <1>1 DEF Idle
<1> QED BY <1>1, <1>11, <1>12, <1>13, <1>14 DEF Places, OneFirst, FirstIn

\* A request to remove segments begins: nothing moves yet.
LEMMA RemovePlaces ==
  ASSUME StoreInv, Places, NEW p \in Pid, job = Idle, NEW todo, NEW after, after # "suspended",
         job' = Removing(p, todo, after), UNCHANGED <<segments, block_list, status>>,
         owned \in [Pid -> SUBSET SegId], NEW own, owned' = [owned EXCEPT ![p] = own],
         status[p] = "resident", IsInjective(todo), owned[p] = own \cup ToSet(todo),
         own \cap ToSet(todo) = {}, after = "ended" => own = {}
  PROVE  Places'
<1>1. job'.kind = "remove" /\ job'.pid = p /\ job'.todo = todo /\ job'.after = after
  BY DEF Removing
<1>2. \A q \in Pid : ~Leaving(q) /\ InPlace(q)
  BY DEF Leaving, Idle, Places
<1>3. IdsIn(segments, p) = owned[p] /\ BlocksOf(block_list, p) = {}
  BY <1>2 DEF InPlace, Settled
<1>4. InPlace(p)'
  <2>1. /\ IdsIn(segments', p) = own \cup ToSet(todo) /\ BlocksOf(block_list', p) = {}
        /\ owned'[p] = own
    BY <1>3
  <2> QED BY <1>1, <2>1, NowDeparting DEF Departing
<1>5. ASSUME NEW q \in Pid, q # p PROVE InPlace(q)'
  BY <1>1, <1>2, <1>5, StaysInPlace
<1> QED BY <1>1, <1>4, <1>5 DEF Places, OneListed, OneFirst, FirstIn

LEMMA EndPlaces ==
  ASSUME StoreInv, Places, NEW p \in Pid, handle_end_process(p)
  PROVE  Places'
<1> DEFINE todo == IdsOf(filter_process_segments(segments, p))
<1>1. /\ job = Idle /\ status[p] = "resident" /\ job' = Removing(p, todo, "ended")
      /\ owned' = [owned EXCEPT ![p] = {}] /\ UNCHANGED <<segments, block_list, status>>
  BY DEF handle_end_process, tableVars, swapVars
<1>2. /\ segments \in Seq(Segment) /\ IsInjective(segments) /\ owned \in [Pid -> SUBSET SegId]
  BY DEF StoreInv, MemoryInv, KMTypeOK, Tables, Partition
<1>3. IsInjective(todo) /\ ToSet(todo) = IdsIn(segments, p)
  BY <1>2, MineIds DEF Places
<1>4. IdsIn(segments, p) = owned[p]
  <2>1. ~Leaving(p) /\ InPlace(p)
    BY <1>1 DEF Leaving, Idle, Places
  <2> QED BY <1>1, <2>1 DEF InPlace, Settled
<1> HIDE DEF todo
<1>5. PICK own : own = {}
  OBVIOUS
<1>6. PICK after : after = "ended" /\ after # "suspended"
  OBVIOUS
<1>7. /\ job' = Removing(p, todo, after) /\ owned' = [owned EXCEPT ![p] = own]
      /\ owned[p] = own \cup ToSet(todo) /\ own \cap ToSet(todo) = {}
  BY <1>1, <1>3, <1>4, <1>5, <1>6
<1> QED BY <1>1, <1>2, <1>3, <1>5, <1>6, <1>7, RemovePlaces

LEMMA DeletePlaces ==
  ASSUME StoreInv, Places, NEW p \in Pid, NEW id \in SegId, handle_delete_segment(p, id)
  PROVE  Places'
<1>1. /\ job = Idle /\ status[p] = "resident" /\ id \in owned[p]
      /\ job' = Removing(p, <<id>>, "resident")
      /\ owned' = [owned EXCEPT ![p] = @ \ {id}] /\ UNCHANGED <<segments, block_list, status>>
  BY DEF handle_delete_segment, tableVars, swapVars
<1>2. owned \in [Pid -> SUBSET SegId]
  BY DEF StoreInv, MemoryInv, KMTypeOK
<1>3. PICK todo : todo = <<id>>
  OBVIOUS
<1>4. IsInjective(todo) /\ ToSet(todo) = {id}
  BY <1>3 DEF IsInjective, ToSet
<1>5. PICK own : own = owned[p] \ {id}
  OBVIOUS
<1>6. owned' = [owned EXCEPT ![p] = own] /\ owned[p] = own \cup ToSet(todo) /\ own \cap ToSet(todo) = {}
  BY <1>1, <1>4, <1>5
<1>7. PICK after : after = "resident" /\ after # "suspended" /\ (after = "ended" => own = {})
  OBVIOUS
<1>8. job' = Removing(p, todo, after)
  BY <1>1, <1>3, <1>7
<1> QED BY <1>1, <1>2, <1>4, <1>6, <1>7, <1>8, RemovePlaces

LEMMA FindPlaces ==
  ASSUME StoreInv, Places, find_and_remove_segment
  PROVE  Places'
<1>0. /\ segments \in Seq(Segment) /\ IsInjective(segments) /\ job \in Request
  BY DEF StoreInv, MemoryInv, KMTypeOK, Tables, Partition
<1>1. /\ job.kind = "remove" /\ job.todo # <<>> /\ UNCHANGED <<block_list, status, owned>>
      /\ segments' = ListRemove(segments, FirstIndex(segments, job.pid, Head(job.todo)))
  BY DEF find_and_remove_segment, swapVars, ghostVars, SelectInSeq, FirstIndex
<1>2. PICK x : job' = [job EXCEPT !.todo = Tail(@), !.seg = x]
  BY DEF find_and_remove_segment
<1>3. job \in [kind : {"remove"}, pid : Pid, todo : Seq(SegId),
               seg : Segment \cup {NoSegment}, after : {"resident", "suspended", "ended"}]
  BY <1>0, <1>1, RequestFacts
<1>4. PICK p \in Pid : p = job.pid
  BY <1>3
<1>5. PICK todo \in Seq(SegId) : todo = job.todo
  BY <1>3
<1>6. job'.kind = "remove" /\ job'.pid = p /\ job'.todo = Tail(todo) /\ job'.after = job.after
  BY <1>2, <1>3, <1>4, <1>5
<1>7. Departing(IdsIn(segments, p), IdsSwapped(block_list, p), BlocksOf(block_list, p),
                owned[p], todo, job.after)
  BY <1>1, <1>4, <1>5 DEF Places, InPlace, Leaving
<1>8. /\ IsInjective(Tail(todo)) /\ ToSet(Tail(todo)) = ToSet(todo) \ {Head(todo)}
      /\ Head(todo) \in ToSet(todo)
  BY <1>1, <1>5, <1>7, TailIds DEF Departing
<1>9. /\ OneListed(segments')
      /\ \A q : IdsIn(segments', q) = IF q = p THEN IdsIn(segments, q) \ {Head(todo)}
                                      ELSE IdsIn(segments, q)
  <2>1. PICK d : d = Head(todo)
    OBVIOUS
  <2>2. PICK r : r = ListRemove(segments, FirstIndex(segments, p, d))
    OBVIOUS
  <2>3. segments' = r
    BY <1>1, <1>4, <1>5, <2>1, <2>2
  <2>4. OneListed(segments)
    BY DEF Places
  <2>5. /\ OneListed(r)
        /\ \A q : IdsIn(r, q) = IF q = p THEN IdsIn(segments, q) \ {d} ELSE IdsIn(segments, q)
    BY <1>0, <2>2, <2>4, RemovedIds
  <2> QED BY <2>1, <2>3, <2>5
<1>10. InPlace(p)'
  <2>1. IdsIn(segments', p) = IdsIn(segments, p) \ {Head(todo)}
    BY <1>9
  <2>2. Departing(IdsIn(segments', p), IdsSwapped(block_list', p), BlocksOf(block_list', p),
                  owned'[p], Tail(todo), job.after)
    <3>1. block_list' = block_list /\ owned'[p] = owned[p]
      BY <1>1
    <3> QED BY <1>7, <1>8, <2>1, <3>1 DEF Departing
  <2> QED BY <1>6, <2>2, NowDeparting
<1>11. ASSUME NEW q \in Pid, q # p PROVE InPlace(q)'
  <2>1. ~Leaving(q) /\ InPlace(q)
    BY <1>4, <1>11 DEF Leaving, Places
  <2> QED BY <1>1, <1>6, <1>9, <1>11, <2>1, StaysInPlace
<1> QED BY <1>1, <1>6, <1>9, <1>10, <1>11 DEF Places, OneFirst, FirstIn

LEMMA MergePlaces ==
  ASSUME StoreInv, Places, remove_segment
  PROVE  Places'
<1>1. /\ job.kind = "remove" /\ job' = [job EXCEPT !.seg = NoSegment]
      /\ UNCHANGED <<segments, block_list, status, owned>> /\ job \in Request
  BY DEF remove_segment, swapVars, ghostVars, StoreInv, MemoryInv, KMTypeOK
<1>2. job \in [kind : {"remove"}, pid : Pid, todo : Seq(SegId),
               seg : Segment \cup {NoSegment}, after : {"resident", "suspended", "ended"}]
  BY <1>1, RequestFacts
<1>3. /\ job'.kind = "remove" /\ job'.pid = job.pid /\ job'.todo = job.todo
      /\ job'.after = job.after
  BY <1>1, <1>2
<1>4. ASSUME NEW q \in Pid PROVE InPlace(q)'
  <2>1. InPlace(q)
    BY DEF Places
  <2> QED BY <1>1, <1>3, <2>1 DEF InPlace, Leaving
<1> QED BY <1>1, <1>3, <1>4 DEF Places, OneListed, OneFirst, FirstIn

LEMMA DonePlaces ==
  ASSUME StoreInv, Places, removal_done
  PROVE  Places'
<1>1. /\ job.kind = "remove" /\ job.todo = <<>> /\ job' = Idle
      /\ status' = [status EXCEPT ![job.pid] = job.after]
      /\ UNCHANGED <<segments, block_list, owned>> /\ job \in Request
      /\ status \in [Pid -> {"none", "resident", "suspended", "ended"}]
  BY DEF removal_done, tableVars, swapVars, ghostVars, StoreInv, MemoryInv, KMTypeOK
<1>2. PICK p \in Pid : p = job.pid /\ job.after \in {"resident", "suspended", "ended"}
  BY <1>1, RequestFacts
<1>3. ToSet(job.todo) = {}
  BY <1>1, EmptyList
<1>4. Departing(IdsIn(segments, p), IdsSwapped(block_list, p), BlocksOf(block_list, p),
                owned[p], job.todo, job.after)
  BY <1>1, <1>2 DEF Places, InPlace, Leaving
<1>5. Settled(IdsIn(segments, p), IdsSwapped(block_list, p), BlocksOf(block_list, p),
              owned[p], job.after)
  BY <1>2, <1>3, <1>4 DEF Departing, Settled
<1>6. InPlace(p)'
  <2>1. status'[p] = job.after /\ job'.kind # "remove"
    BY <1>1, <1>2 DEF Idle
  <2> QED BY <1>1, <1>5, <2>1, NowSettled
<1>7. ASSUME NEW q \in Pid, q # p PROVE InPlace(q)'
  <2>1. ~Leaving(q) /\ InPlace(q)
    BY <1>2, <1>7 DEF Leaving, Places
  <2>2. status'[q] = status[q] /\ job'.kind # "remove"
    BY <1>1, <1>2, <1>7 DEF Idle
  <2> QED BY <1>1, <2>1, <2>2, StaysInPlace
<1>8. job'.kind # "compacting"
  BY <1>1 DEF Idle
<1> QED BY <1>1, <1>6, <1>7, <1>8 DEF Places, OneListed, OneFirst, FirstIn

LEMMA NewPlaces ==
  ASSUME StoreInv, Places, NEW p \in Pid, handle_new_process(p)
  PROVE  Places'
<1>1. /\ job = Idle /\ status[p] = "none" /\ status' = [status EXCEPT ![p] = "resident"]
      /\ UNCHANGED <<segments, block_list, owned, job>>
      /\ status \in [Pid -> {"none", "resident", "suspended", "ended"}]
  BY DEF handle_new_process, tableVars, swapVars, ghostVars, StoreInv, MemoryInv, KMTypeOK
<1>2. \A q \in Pid : ~Leaving(q) /\ InPlace(q)
  BY <1>1 DEF Leaving, Idle, Places
<1>3. IdsIn(segments, p) = {} /\ BlocksOf(block_list, p) = {} /\ owned[p] = {}
  BY <1>1, <1>2 DEF InPlace, Settled
<1>4. InPlace(p)'
  <2>1. status'[p] = "resident" /\ job'.kind # "remove"
    BY <1>1 DEF Idle
  <2>2. IdsIn(segments', p) = owned'[p] /\ BlocksOf(block_list', p) = {}
    BY <1>1, <1>3
  <2> QED BY <2>1, <2>2, NowSettled DEF Settled
<1>5. ASSUME NEW q \in Pid, q # p PROVE InPlace(q)'
  <2>1. status'[q] = status[q]
    BY <1>1, <1>5
  <2> QED BY <1>1, <1>2, <2>1, StaysInPlace
<1>6. job'.kind # "compacting"
  BY <1>1 DEF Idle
<1> QED BY <1>1, <1>4, <1>5, <1>6 DEF Places, OneListed, OneFirst, FirstIn

LEMMA SuspendPlaces ==
  ASSUME StoreInv, Places, NEW p \in Pid, suspend_process(p), job' # Idle
  PROVE  Places'
<1> DEFINE todo == IdsOf(filter_process_segments(segments, p))
<1>0. /\ segments \in Seq(Segment) /\ IsInjective(segments) /\ MemoryInv
  BY DEF StoreInv, MemoryInv, KMTypeOK, Tables, Partition
<1>1. /\ job = Idle /\ status[p] = "resident" /\ UNCHANGED <<segments, status, owned>>
      /\ SuspensionComplete(Free, WantedOf(p)) /\ job' = Removing(p, todo, "suspended")
  BY <1>0, SuspendSteps DEF tableVars, ghostVars
<1>2. \A q \in Pid : ~Leaving(q) /\ InPlace(q)
  BY <1>1 DEF Leaving, Idle, Places
<1>3. IdsIn(segments, p) = owned[p] /\ BlocksOf(block_list, p) = {}
  BY <1>1, <1>2 DEF InPlace, Settled
<1>4. /\ OneFirst(block_list') /\ IdsSwapped(block_list', p) = IdsIn(segments, p)
      /\ \A q \in Pid \ {p} : /\ BlocksOf(block_list', q) = BlocksOf(block_list, q)
                              /\ IdsSwapped(block_list', q) = IdsSwapped(block_list, q)
  BY <1>0, <1>1, <1>3, SuspendIds DEF Places
<1>5. IsInjective(todo) /\ ToSet(todo) = IdsIn(segments, p)
  BY <1>0, MineIds DEF Places
<1> HIDE DEF todo
<1>6. job'.kind = "remove" /\ job'.pid = p /\ job'.todo = todo /\ job'.after = "suspended"
  BY <1>1 DEF Removing
<1>7. InPlace(p)'
  <2>1. IdsIn(segments', p) = ToSet(todo) /\ IdsSwapped(block_list', p) = owned'[p]
    BY <1>1, <1>3, <1>4, <1>5
  <2> QED BY <1>5, <1>6, <2>1, NowDeparting DEF Departing
<1>8. ASSUME NEW q \in Pid, q # p PROVE InPlace(q)'
  BY <1>1, <1>2, <1>4, <1>6, <1>8, StaysInPlace
<1> QED BY <1>1, <1>4, <1>6, <1>7, <1>8 DEF Places, OneListed

LEMMA ResumeStartPlaces ==
  ASSUME StoreInv, Places, NEW p \in Pid, resume_process(p)
  PROVE  Places'
<1>1. /\ job = Idle /\ job' = [kind |-> "resume", pid |-> p, at |-> 0]
      /\ UNCHANGED <<segments, block_list, owned, status>>
  BY DEF resume_process, tableVars, swapVars, ghostVars
<1>2. \A q \in Pid : ~Leaving(q) /\ InPlace(q)
  BY <1>1 DEF Leaving, Idle, Places
<1>3. job'.kind = "resume"
  BY <1>1
<1>4. \A q \in Pid : InPlace(q)'
  BY <1>1, <1>2, <1>3, StaysInPlace
<1> QED BY <1>1, <1>3, <1>4 DEF Places, OneListed, OneFirst, FirstIn

LEMMA ResumeBlockPlaces ==
  ASSUME StoreInv, Places, resume_block, job' # Crashed
  PROVE  Places'
<1>0. /\ segments \in Seq(Segment) /\ holes \in Seq(Hole) /\ MemoryInv /\ job \in Request
      /\ block_list \in [Block -> BlockData \cup {FreeBlock}]
  BY DEF StoreInv, MemoryInv, KMTypeOK
<1>1. /\ job.kind = "resume" /\ BlocksLeft # {} /\ UNCHANGED <<status, owned>>
  BY DEF resume_block, ghostVars
<1>2. PICK b \in Block : b = Min(BlocksLeft) /\ block_list[b].pid = job.pid
                         /\ block_list[b].segment_number \in SegId
                         /\ block_list[b].segment_size \in Sizes
  BY <1>0, <1>1, NextBlock
<1>3. PICK p \in Pid : p = job.pid
  BY <1>0, <1>1, RequestFacts
<1>4. PICK id \in SegId, size \in Sizes :
        id = block_list[b].segment_number /\ size = block_list[b].segment_size
  BY <1>2
<1>5. \A q \in Pid : ~Leaving(q) /\ InPlace(q)
  BY <1>1 DEF Leaving, Places
<1>6. status[p] = "suspended"
  BY <1>1, <1>3 DEF StoreInv, ListenerInv
<1>7. /\ IdsIn(segments, p) \cup IdsSwapped(block_list, p) = owned[p]
      /\ IdsIn(segments, p) \cap IdsSwapped(block_list, p) = {}
  BY <1>5, <1>6 DEF InPlace, Settled
<1> DEFINE first == block_list[b].segment_block_number = 0
           chosen == hole_selection_algorithm(size, holes)
           x == [pid |-> p, size |-> size, id |-> id, base |-> chosen.base]
<1>8. \/ job' = Idle /\ UNCHANGED <<segments, block_list>>
      \/ /\ first => chosen # NoHole
         /\ segments' = IF first THEN Append(segments, x) ELSE segments
         /\ block_list' = [block_list EXCEPT ![b] = FreeBlock]
         /\ job' = [job EXCEPT !.at = b + 1]
  BY <1>2, <1>3, <1>4 DEF resume_block
<1>9. job'.kind # "remove" /\ job'.kind # "compacting"
  <2>1. job \in [kind : {"resume"}, pid : Pid, at : 0 .. BLOCKS]
    BY <1>0, <1>1, RequestFacts
  <2>2. CASE job' = Idle
    BY <2>2 DEF Idle
  <2>3. CASE job' = [job EXCEPT !.at = b + 1]
    BY <2>1, <2>3
  <2> QED BY <1>8, <2>2, <2>3
<1>10. CASE UNCHANGED <<segments, block_list>>
  <2>1. \A q \in Pid : InPlace(q)'
    BY <1>1, <1>5, <1>9, <1>10, StaysInPlace
  <2> QED BY <1>9, <1>10, <2>1 DEF Places, OneListed, OneFirst, FirstIn
<1>11. CASE /\ first => chosen # NoHole
            /\ segments' = IF first THEN Append(segments, x) ELSE segments
            /\ block_list' = [block_list EXCEPT ![b] = FreeBlock]
  <2>1. /\ OneFirst(block_list')
        /\ \A q \in Pid \ {p} : /\ BlocksOf(block_list', q) = BlocksOf(block_list, q)
                                /\ IdsSwapped(block_list', q) = IdsSwapped(block_list, q)
        /\ IdsSwapped(block_list', p) = IF first THEN IdsSwapped(block_list, p) \ {id}
                                        ELSE IdsSwapped(block_list, p)
    <3>1. DOMAIN block_list = Block /\ OneFirst(block_list) /\ block_list[b].pid = p
      BY <1>0, <1>2, <1>3 DEF Places
    <3>2. PICK freed : freed = [block_list EXCEPT ![b] = FreeBlock]
      OBVIOUS
    <3>3. block_list' = freed
      BY <1>11, <3>2
    <3> HIDE DEF chosen, x
    <3>4. FreedFrom(block_list, freed, p, b)
      BY <1>2, <3>1, <3>2, FreedIds
    <3> QED BY <1>4, <3>3, <3>4 DEF FreedFrom
  <2>2. /\ OneListed(segments')
        /\ \A q : IdsIn(segments', q) = IF q = p /\ first THEN IdsIn(segments, q) \cup {id}
                                        ELSE IdsIn(segments, q)
    <3>1. CASE first
      <4>1. id \in IdsSwapped(block_list, p)
        BY <1>2, <1>3, <1>4, <3>1 DEF IdsSwapped, FirstIn
      <4>2. id \notin IdsIn(segments, p)
        BY <1>7, <4>1
      <4>3. PICK y : y = [pid |-> p, id |-> id, base |-> chosen.base, size |-> size]
        OBVIOUS
      <4>4. y \in Segment /\ y.pid = p /\ y.id = id /\ segments' = Append(segments, y)
        <5>1. y = x
          BY <4>3
        <5>2. y \in Segment
          BY <1>0, <1>11, <3>1, <4>3, SegmentMade
        <5> QED BY <1>11, <3>1, <4>3, <5>1, <5>2
      <4> QED BY <1>0, <3>1, <4>2, <4>4, AppendedIds DEF Places
    <3>2. CASE ~first
      BY <1>11, <3>2 DEF Places
    <3> QED BY <3>1, <3>2
  <2>3. InPlace(p)'
    <3>1. id \in IdsSwapped(block_list, p) \/ ~first
      BY <1>2, <1>3, <1>4 DEF IdsSwapped, FirstIn
    <3>2. /\ IdsIn(segments', p) \cup IdsSwapped(block_list', p) = owned[p]
          /\ IdsIn(segments', p) \cap IdsSwapped(block_list', p) = {}
      <4> HIDE DEF first
      <4> QED BY <1>7, <2>1, <2>2, <3>1
    <3>3. status'[p] = "suspended" /\ owned'[p] = owned[p]
      BY <1>1, <1>6
    <3> QED BY <1>9, <3>2, <3>3, NowSettled DEF Settled
  <2>4. ASSUME NEW q \in Pid, q # p PROVE InPlace(q)'
    BY <1>1, <1>5, <1>9, <2>1, <2>2, <2>4, StaysInPlace
  <2> QED BY <1>9, <2>1, <2>2, <2>3, <2>4 DEF Places
<1> HIDE DEF first, chosen, x
<1> QED BY <1>8, <1>10, <1>11

LEMMA ResumeDonePlaces ==
  ASSUME StoreInv, Places, resume_done
  PROVE  Places'
<1>1. /\ job.kind = "resume" /\ BlocksLeft = {} /\ job' = Idle /\ job \in Request
      /\ status' = [status EXCEPT ![job.pid] = IF job.at > 0 THEN "resident" ELSE @]
      /\ UNCHANGED <<segments, block_list, owned>>
      /\ status \in [Pid -> {"none", "resident", "suspended", "ended"}]
  BY DEF resume_done, tableVars, swapVars, ghostVars, StoreInv, MemoryInv, KMTypeOK
<1>2. PICK p \in Pid : p = job.pid /\ job.at \in 0 .. BLOCKS
  BY <1>1, RequestFacts
<1>3. \A q \in Pid : ~Leaving(q) /\ InPlace(q)
  BY <1>1 DEF Leaving, Places
<1>4. BlocksOf(block_list, p) = {}
  <2> SUFFICES ASSUME NEW b \in Block, block_list[b].pid = p PROVE FALSE
    BY DEF BlocksOf
  <2>1. ~(b < job.at)
    BY <1>1, <1>2 DEF StoreInv, ListenerInv
  <2>2. b \in Nat /\ job.at \in Int
    BY <1>2, BlockSet
  <2>3. b >= job.at
    BY <2>1, <2>2
  <2> QED BY <1>1, <1>2, <2>3 DEF BlocksLeft
<1>5. IdsSwapped(block_list, p) = {}
  BY <1>4 DEF IdsSwapped, FirstIn, BlocksOf
<1>6. status[p] = "suspended"
  BY <1>1, <1>2 DEF StoreInv, ListenerInv
<1>7. IdsIn(segments, p) = owned[p]
  BY <1>3, <1>5, <1>6 DEF InPlace, Settled
<1>8. job'.kind # "remove" /\ job'.kind # "compacting"
  BY <1>1 DEF Idle
<1>9. InPlace(p)'
  <2>1. status'[p] \in {"resident", "suspended"}
    BY <1>1, <1>2, <1>6
  <2>2. /\ IdsIn(segments', p) = owned'[p] /\ BlocksOf(block_list', p) = {}
        /\ IdsSwapped(block_list', p) = {}
    BY <1>1, <1>4, <1>5, <1>7
  <2> QED BY <1>8, <2>1, <2>2, NowSettled DEF Settled
<1>10. ASSUME NEW q \in Pid, q # p PROVE InPlace(q)'
  <2>1. status'[q] = status[q]
    BY <1>1, <1>2, <1>10
  <2> QED BY <1>1, <1>3, <1>8, <2>1, StaysInPlace
<1> QED BY <1>1, <1>8, <1>9, <1>10 DEF Places, OneListed, OneFirst, FirstIn

\* Kernel Memory takes no step after a crash.
LEMMA CrashIsFinal == Next => Running
<1> SUFFICES ASSUME Next, job = Crashed PROVE FALSE
  BY DEF Running
<1>1. job.kind = "crashed" /\ ~Running
  BY DEF Crashed, Running
<1>2. job # Idle
  BY <1>1 DEF Idle
<1>3. ~(add_stick_connection \/ add_total_memory \/ init_swap_data)
  BY <1>1 DEF add_stick_connection, add_total_memory, init_swap_data
<1>4. ~(\/ compact_memory \/ find_and_remove_segment \/ remove_segment
        \/ removal_done \/ resume_block \/ resume_done)
  BY <1>1 DEF compact_memory, find_and_remove_segment, remove_segment, removal_done,
    resume_block, resume_done
<1>5. \A p \in Pid : ~(\/ handle_new_process(p) \/ handle_end_process(p)
                       \/ suspend_process(p) \/ resume_process(p))
  BY <1>2 DEF handle_new_process, handle_end_process, suspend_process, resume_process
<1>6. \A p \in Pid, id \in SegId :
        /\ ~handle_delete_segment(p, id)
        /\ \A size \in Sizes : ~handle_create_segment(p, id, size)
        /\ \A i \in Inputs : ~handle_stdin_request(p, id, i[1], i[2])
        /\ \A off \in 0 .. total_size - 1 : ~write_memory(p, id, off)
  BY <1>1, <1>2 DEF handle_delete_segment, handle_create_segment, handle_stdin_request,
    write_memory
<1> QED BY <1>3, <1>4, <1>5, <1>6 DEF Next

\* Every step keeps every segment in its place.
LEMMA PlaceStep ==
  ASSUME StoreInv, PlaceInv, [Next]_vars, [SuspensionsFit]_vars
  PROVE  PlaceInv'
<1>1. CASE UNCHANGED vars
  <2>1. UNCHANGED <<segments, block_list, job, status, owned>>
    BY <1>1 DEF vars, tableVars, swapVars, ghostVars
  <2> QED BY <2>1, QuietPlaces DEF PlaceInv, Running
<1>2. CASE ~UNCHANGED vars
  <2>1. Next /\ SuspensionsFit
    BY <1>2
  <2> SUFFICES ASSUME Running' PROVE Places'
    BY DEF PlaceInv
  <2>2. Places
    BY <2>1, CrashIsFinal DEF PlaceInv
  <2>3. CASE add_stick_connection \/ add_total_memory \/ init_swap_data
    <3>1. UNCHANGED <<segments, block_list, job, status, owned>>
      BY <2>3 DEF add_stick_connection, add_total_memory, init_swap_data, tableVars, swapVars,
        ghostVars
    <3> QED BY <2>2, <3>1, QuietPlaces
  <2>4. CASE compact_memory
    BY <2>2, <2>4, CompactPlaces
  <2>5. CASE find_and_remove_segment
    BY <2>2, <2>5, FindPlaces
  <2>6. CASE remove_segment
    BY <2>2, <2>6, MergePlaces
  <2>7. CASE removal_done
    BY <2>2, <2>7, DonePlaces
  <2>8. CASE resume_block
    BY <2>2, <2>8, ResumeBlockPlaces DEF Running
  <2>9. CASE resume_done
    BY <2>2, <2>9, ResumeDonePlaces
  <2>10. ASSUME NEW p \in Pid, handle_new_process(p) PROVE Places'
    BY <2>2, <2>10, NewPlaces
  <2>11. ASSUME NEW p \in Pid, handle_end_process(p) PROVE Places'
    BY <2>2, <2>11, EndPlaces
  <2>12. ASSUME NEW p \in Pid, suspend_process(p) PROVE Places'
    <3>1. job' # Idle
      BY <2>1, <2>12 DEF SuspensionsFit
    <3> QED BY <2>2, <2>12, <3>1, SuspendPlaces
  <2>13. ASSUME NEW p \in Pid, resume_process(p) PROVE Places'
    BY <2>2, <2>13, ResumeStartPlaces
  <2>14. ASSUME NEW p \in Pid, NEW id \in SegId, NEW size \in Sizes,
                handle_create_segment(p, id, size)
         PROVE  Places'
    BY <2>2, <2>14, CreatePlaces
  <2>15. ASSUME NEW p \in Pid, NEW id \in SegId, NEW i \in Inputs,
                handle_stdin_request(p, id, i[1], i[2])
         PROVE  Places'
    <3>1. UNCHANGED <<segments, block_list, job, status, owned>>
      BY <2>15, StdinStep DEF tableVars, swapVars, Running
    <3> QED BY <2>2, <3>1, QuietPlaces
  <2>16. ASSUME NEW p \in Pid, NEW id \in SegId, handle_delete_segment(p, id)
         PROVE  Places'
    BY <2>2, <2>16, DeletePlaces
  <2>17. ASSUME NEW p \in Pid, NEW id \in SegId, NEW off \in 0 .. total_size - 1,
                write_memory(p, id, off)
         PROVE  Places'
    <3>1. UNCHANGED <<segments, block_list, job, status, owned>>
      BY <2>17 DEF write_memory, tableVars, swapVars, ghostVars
    <3> QED BY <2>2, <3>1, QuietPlaces
  <2> QED BY <2>1, <2>3, <2>4, <2>5, <2>6, <2>7, <2>8, <2>9, <2>10, <2>11, <2>12, <2>13,
             <2>14, <2>15, <2>16, <2>17 DEF Next
<1> QED BY <1>1, <1>2

\* PlaceInv holds at start, and always when no suspension finds swap full.
LEMMA PlaceInit == Init => PlaceInv
<1> SUFFICES ASSUME Init PROVE Places
  BY DEF PlaceInv
<1>1. ToSet(segments) = {}
  BY EmptyList DEF Init
<1>2. OneListed(segments)
  BY <1>1 DEF OneListed
<1>3. \A b \in Block : block_list[b].pid \notin Pid
  BY KernelMemoryAssumption DEF Init, FreeBlock
<1>4. OneFirst(block_list)
  BY <1>3 DEF OneFirst, FirstIn
<1>5. ASSUME NEW p \in Pid PROVE InPlace(p)
  <2>1. IdsIn(segments, p) = {} /\ BlocksOf(block_list, p) = {}
    BY <1>1, <1>3 DEF IdsIn, Has, BlocksOf
  <2>2. ~Leaving(p) /\ status[p] = "none" /\ owned[p] = {}
    BY DEF Init, Idle, Leaving
  <2> QED BY <2>1, <2>2 DEF InPlace, Settled
<1>6. job.kind # "compacting"
  BY DEF Init, Idle
<1> QED BY <1>2, <1>4, <1>5, <1>6 DEF Places

LEMMA PlaceAlways == Spec /\ [][SuspensionsFit]_vars => []PlaceInv
<1>1. StoreInv /\ PlaceInv /\ [Next]_vars /\ [SuspensionsFit]_vars => PlaceInv'
  BY PlaceStep
<1> QED BY <1>1, PlaceInit, StoreAlways, PTL DEF Spec

-----------------------------------------------------------------------------
(* Bytes on the sticks.                                                    *)

\* The byte at address a is w.
Lies(st, a, w) ==
  \E i \in 1 .. Len(st) : \E o \in 1 .. Len(st[i]) : StickBase(st, i) + o = a + 1 /\ st[i][o] = w

\* A stick ends before the next ones begin.
LEMMA StickOrder ==
  ASSUME NEW V, NEW st \in Seq(Seq(V))
  PROVE  /\ \A i \in 1 .. Len(st) : StickBase(st, i) \in Nat /\ Len(st[i]) \in Nat
         /\ \A i, j \in 1 .. Len(st) : i < j => StickBase(st, i) + Len(st[i]) <= StickBase(st, j)
<1> DEFINE q == StickLengths(st)
           f == RunningSum(q)
           n == Len(st)
<1>1. /\ n \in Nat /\ q \in Seq(Int) /\ Len(q) = n
      /\ \A i \in 1 .. n : q[i] = Len(st[i]) /\ Len(st[i]) \in Nat /\ q[i] >= 0
  BY StickFacts
<1>2. \A j : StickBase(st, j) = f[j - 1]
  BY DEF StickBase, StickLengths
<1>3. \A i \in 1 .. n : f[i] = f[i - 1] + q[i]
  BY <1>1, SumType
<1>4. \A j, k \in 0 .. n : j <= k => f[j] \in Nat /\ f[k] \in Nat /\ f[j] <= f[k]
  <2> HIDE DEF f, q, n
  <2> TAKE j, k \in 0 .. n
  <2> HAVE j <= k
  <2>1. j \in Nat /\ k \in Nat /\ k <= n
    BY <1>1
  <2> QED BY <1>1, <2>1, SumGrows DEF f
<1> HIDE DEF f, q, n
<1>5. ASSUME NEW i \in 1 .. n
      PROVE  StickBase(st, i) \in Nat /\ StickBase(st, i) + Len(st[i]) = f[i]
  <2>1. i - 1 \in 0 .. n /\ i \in 0 .. n
    BY <1>1
  <2>2. f[i - 1] \in Nat
    BY <1>4, <2>1
  <2> QED BY <1>1, <1>2, <1>3, <2>2
<1>6. ASSUME NEW i \in 1 .. n, NEW j \in 1 .. n, i < j
      PROVE  StickBase(st, i) + Len(st[i]) <= StickBase(st, j)
  <2>1. i \in 0 .. n /\ j - 1 \in 0 .. n /\ i <= j - 1
    BY <1>1, <1>6
  <2>2. f[i] <= f[j - 1]
    BY <1>4, <2>1
  <2> QED BY <1>2, <1>5, <2>2
<1> QED BY <1>1, <1>5, <1>6 DEF n

\* An address is one byte of one stick.
LEMMA OnePlace ==
  ASSUME NEW V, NEW st \in Seq(Seq(V)), NEW i \in 1 .. Len(st), NEW j \in 1 .. Len(st),
         NEW o \in 1 .. Len(st[i]), NEW q \in 1 .. Len(st[j]),
         StickBase(st, i) + o = StickBase(st, j) + q
  PROVE  i = j /\ o = q
<1>1. PICK x \in Nat : x = StickBase(st, i)
  BY StickOrder
<1>2. PICK y \in Nat : y = StickBase(st, j)
  BY StickOrder
<1>3. PICK l \in Nat : l = Len(st[i])
  BY StickOrder
<1>4. PICK m \in Nat : m = Len(st[j])
  BY StickOrder
<1>5. o \in 1 .. l /\ q \in 1 .. m /\ x + o = y + q
  BY <1>1, <1>2, <1>3, <1>4
<1>6. ~(i < j)
  <2> SUFFICES ASSUME i < j PROVE FALSE
    OBVIOUS
  <2>1. x + l <= y
    BY <1>1, <1>2, <1>3, StickOrder
  <2> QED BY <1>5, <2>1
<1>7. ~(j < i)
  <2> SUFFICES ASSUME j < i PROVE FALSE
    OBVIOUS
  <2>1. y + m <= x
    BY <1>1, <1>2, <1>4, StickOrder
  <2> QED BY <1>5, <2>1
<1>8. i = j
  <2>1. Len(st) \in Nat
    BY StickFacts
  <2> QED BY <1>6, <1>7, <2>1
<1> QED BY <1>1, <1>2, <1>5, <1>8

\* What is at an address is what is read there.
LEMMA LiesRead ==
  ASSUME NEW V, NEW st \in Seq(Seq(V)), NEW a \in Nat, NEW w, Lies(st, a, w),
         a < RunningSum(StickLengths(st))[Len(st)]
  PROVE  LET i == find_stick(st, a) IN st[i][a + 1 - StickBase(st, i)] = w
<1>1. PICK i \in 1 .. Len(st) : i = find_stick(st, a) /\ a + 1 - StickBase(st, i) \in 1 .. Len(st[i])
  BY StickFound
<1>2. PICK o \in 1 .. Len(st[i]) : o = a + 1 - StickBase(st, i)
  BY <1>1
<1>3. StickBase(st, i) + o = a + 1
  <2>1. PICK x \in Nat : x = StickBase(st, i)
    BY StickOrder
  <2> QED BY <1>2, <2>1
<1>4. PICK j \in 1 .. Len(st) :
        \E q \in 1 .. Len(st[j]) : StickBase(st, j) + q = a + 1 /\ st[j][q] = w
  BY DEF Lies
<1>5. PICK q \in 1 .. Len(st[j]) : StickBase(st, j) + q = a + 1 /\ st[j][q] = w
  BY <1>4
<1>6. i = j /\ o = q
  BY <1>3, <1>5, OnePlace
<1> QED BY <1>1, <1>2, <1>5, <1>6

\* Byte k of what is read from b on is the byte at address b + k - 1.
LEMMA ReadsBack ==
  ASSUME NEW V, NEW st \in Seq(Seq(V)), NEW b \in Nat, NEW size \in Int, NEW k \in 1 .. size,
         NEW w, NEW a \in Nat, a = b + k - 1, Lies(st, a, w),
         a < RunningSum(StickLengths(st))[Len(st)]
  PROVE  read_from_sticks(st, b, size)[k] = w
<1>1. PICK i : i = find_stick(st, a)
  OBVIOUS
<1>2. st[i][a + 1 - StickBase(st, i)] = w
  BY <1>1, LiesRead
<1>3. a + 1 - StickBase(st, i) = b + k - StickBase(st, i)
  <2>1. i \in 1 .. Len(st)
    BY <1>1, StickFound
  <2>2. PICK x \in Nat : x = StickBase(st, i)
    BY <2>1, StickOrder
  <2>3. a + 1 - x = b + k - x
    OBVIOUS
  <2> QED BY <2>2, <2>3
<1>4. read_from_sticks(st, b, size)[k] = st[i][b + k - StickBase(st, i)]
  <2>1. find_stick(st, b + k - 1) = i
    BY <1>1
  <2> QED BY <2>1 DEF read_from_sticks
<1> QED BY <1>2, <1>3, <1>4

\* A write changes the bytes it is given and no other.
LEMMA BytesStored ==
  ASSUME NEW V, NEW st \in Seq(Seq(V)), NEW a \in Nat, NEW bytes \in Seq(V),
         NEW sum \in Nat, sum = RunningSum(StickLengths(st))[Len(st)], a < sum,
         NEW r, r = write_to_sticks(st, a, bytes)
  PROVE  /\ \A x \in Nat : \A w :
              Lies(st, x, w) /\ (x < a \/ x >= a + Len(bytes)) => Lies(r, x, w)
         /\ \A k \in 1 .. Len(bytes) : a + k <= sum => Lies(r, a + k - 1, bytes[k])
<1> DEFINE byte(i, o) == LET k == StickBase(st, i) + o - a
                         IN  IF k \in DOMAIN bytes THEN bytes[k] ELSE st[i][o]
<1>1. /\ Len(st) \in Nat /\ DOMAIN st = 1 .. Len(st)
      /\ \A i \in 1 .. Len(st) : DOMAIN st[i] = 1 .. Len(st[i])
  BY StickFacts
<1>2. find_stick(st, a) # 0
  <2>1. find_stick(st, a) \in 1 .. Len(st)
    BY StickFound
  <2> QED BY <2>1
<1>3. r = [i \in DOMAIN st |-> [o \in DOMAIN st[i] |-> byte(i, o)]]
  BY <1>2 DEF write_to_sticks
<1>4. /\ r \in Seq(Seq(V)) /\ Len(r) = Len(st)
      /\ \A i \in 1 .. Len(st) : Len(r[i]) = Len(st[i])
  BY WriteType
<1>5. \A i \in 1 .. Len(st) : \A o \in 1 .. Len(st[i]) : r[i][o] = byte(i, o)
  BY <1>1, <1>3
<1>6. StickLengths(r) = StickLengths(st)
  <2>1. DOMAIN r = 1 .. Len(st)
    BY <1>4, StickFacts
  <2> QED BY <1>1, <1>4, <2>1 DEF StickLengths
<1>7. \A i : StickBase(r, i) = StickBase(st, i)
  BY <1>6 DEF StickBase, StickLengths
<1>8. Len(bytes) \in Nat /\ DOMAIN bytes = 1 .. Len(bytes)
  OBVIOUS
<1>9. ASSUME NEW x \in Nat, NEW w, Lies(st, x, w), x < a \/ x >= a + Len(bytes)
      PROVE  Lies(r, x, w)
  <2>1. PICK i \in 1 .. Len(st) :
          \E o \in 1 .. Len(st[i]) : StickBase(st, i) + o = x + 1 /\ st[i][o] = w
    BY <1>9 DEF Lies
  <2>2. PICK o \in 1 .. Len(st[i]) : StickBase(st, i) + o = x + 1 /\ st[i][o] = w
    BY <2>1
  <2>3. StickBase(st, i) + o - a \notin DOMAIN bytes
    <3>1. PICK m \in Nat : m = Len(bytes) /\ DOMAIN bytes = 1 .. m
      BY <1>8
    <3>2. StickBase(st, i) + o - a = x + 1 - a
      <4>1. PICK y \in Nat : y = StickBase(st, i)
        BY StickOrder
      <4>2. o \in Int
        OBVIOUS
      <4>3. y + o = x + 1
        BY <2>2, <4>1
      <4>4. y + o - a = x + 1 - a
        BY <4>2, <4>3
      <4> QED BY <4>1, <4>4
    <3>3. x + 1 - a \notin 1 .. m
      BY <1>9, <3>1
    <3> QED BY <3>1, <3>2, <3>3
  <2>4. r[i][o] = w
    BY <1>5, <2>2, <2>3
  <2> HIDE DEF byte
  <2>5. i \in 1 .. Len(r) /\ o \in 1 .. Len(r[i]) /\ StickBase(r, i) + o = x + 1
    BY <1>4, <1>7, <2>2
  <2> QED BY <2>4, <2>5 DEF Lies
<1>10. ASSUME NEW k \in 1 .. Len(bytes), a + k <= sum
       PROVE  Lies(r, a + k - 1, bytes[k])
  <2>1. PICK x \in Nat : x = a + k - 1 /\ x < sum /\ x + 1 = a + k
    BY <1>8, <1>10
  <2>2. PICK i \in 1 .. Len(st) : x + 1 - StickBase(st, i) \in 1 .. Len(st[i])
    BY <2>1, StickFound
  <2>3. PICK o \in 1 .. Len(st[i]) : o = x + 1 - StickBase(st, i)
    BY <2>2
  <2>4. PICK y \in Nat : y = StickBase(st, i)
    BY StickOrder
  <2>5. StickBase(st, i) + o = x + 1 /\ StickBase(st, i) + o - a = k
    BY <2>1, <2>3, <2>4
  <2>6. r[i][o] = bytes[k]
    BY <1>5, <1>8, <2>5
  <2> HIDE DEF byte
  <2>7. i \in 1 .. Len(r) /\ o \in 1 .. Len(r[i]) /\ StickBase(r, i) + o = x + 1
    BY <1>4, <1>7, <2>5
  <2>8. Lies(r, x, bytes[k])
    BY <2>6, <2>7 DEF Lies
  <2> QED BY <2>1, <2>8
<1> QED BY <1>9, <1>10

\* A stick that connects changes no address.
LEMMA StickAdded ==
  ASSUME NEW V, NEW st \in Seq(Seq(V)), NEW t \in Seq(V), NEW a, NEW w, Lies(st, a, w)
  PROVE  Lies(Append(st, t), a, w)
<1>1. PICK r : r = Append(st, t)
  OBVIOUS
<1>2. /\ r \in Seq(Seq(V)) /\ Len(r) = Len(st) + 1 /\ Len(st) \in Nat
      /\ \A i \in 1 .. Len(st) : r[i] = st[i]
  BY <1>1
<1>3. PICK i \in 1 .. Len(st) :
        \E o \in 1 .. Len(st[i]) : StickBase(st, i) + o = a + 1 /\ st[i][o] = w
  BY DEF Lies
<1>4. /\ StickLengths(st) \in Seq(Int) /\ Len(StickLengths(st)) = Len(st)
      /\ StickLengths(r) \in Seq(Int) /\ Len(StickLengths(r)) = Len(r)
      /\ \A j \in 1 .. Len(st) : StickLengths(st)[j] = Len(st[j])
      /\ \A j \in 1 .. Len(r) : StickLengths(r)[j] = Len(r[j])
  BY <1>2, StickFacts
<1>5. PICK m \in Nat : m = i - 1 /\ m <= Len(st) /\ m <= Len(r)
  BY <1>2
<1>6. \A j \in 1 .. m : StickLengths(st)[j] = StickLengths(r)[j]
  <2> TAKE j \in 1 .. m
  <2>1. j \in 1 .. Len(st) /\ j \in 1 .. Len(r)
    BY <1>2, <1>5
  <2> QED BY <1>2, <1>4, <2>1
<1>7. RunningSum(StickLengths(st))[m] = RunningSum(StickLengths(r))[m]
  BY <1>4, <1>5, <1>6, SumPrefix
<1>8. StickBase(r, i) = StickBase(st, i)
  BY <1>5, <1>7 DEF StickBase, StickLengths
<1>9. i \in 1 .. Len(r) /\ r[i] = st[i]
  BY <1>2
<1>10. Lies(r, a, w)
  BY <1>3, <1>8, <1>9 DEF Lies
<1> QED BY <1>1, <1>10

-----------------------------------------------------------------------------
(* Bytes of a segment and bytes of its blocks.                             *)

\* Arithmetic of positions and blocks of b bytes.
LEMMA TimesGrows ==
  ASSUME NEW b \in Nat, NEW x \in Int, NEW y \in Int, x <= y
  PROVE  x * b \in Int /\ y * b \in Int /\ x * b <= y * b
OBVIOUS

LEMMA OneMoreTime ==
  ASSUME NEW b \in Nat, NEW x \in Int
  PROVE  x * b \in Int /\ (x + 1) * b = x * b + b /\ (x - 1) * b = x * b - b
OBVIOUS

\* Quotient and remainder.
LEMMA Divided ==
  ASSUME NEW b \in Nat \ {0}, NEW o \in Nat
  PROVE  /\ o \div b \in Nat /\ o % b \in Nat /\ o % b < b
         /\ (o \div b) * b \in Nat /\ o = (o \div b) * b + (o % b)
OBVIOUS

\* The k-th block of a segment starts inside it.
LEMMA PartStarts ==
  ASSUME NEW size \in Sizes, NEW k \in 1 .. BlockCount(size)
  PROVE  (k - 1) * BLOCK_SIZE < size
<1>1. BLOCK_SIZE \in Nat \ {0} /\ size \in Nat \ {0}
  BY KernelMemoryAssumption
<1>2. PICK a \in Nat : a = size + BLOCK_SIZE - 1
  BY <1>1
<1>3. PICK q \in Nat : q = BlockCount(size) /\ q = a \div BLOCK_SIZE
  BY <1>2, BlockCountFacts DEF BlockCount
<1>4. q * BLOCK_SIZE <= a
  <2>1. PICK m \in Nat : m = q * BLOCK_SIZE
    BY <1>1
  <2>2. PICK r \in Nat : r = a % BLOCK_SIZE /\ a = m + r
    BY <1>1, <1>3, <2>1, Divided
  <2> QED BY <2>1, <2>2
<1>5. k \in Int /\ k <= q
  BY <1>3
<1>6. k * BLOCK_SIZE \in Int /\ q * BLOCK_SIZE \in Int /\ k * BLOCK_SIZE <= q * BLOCK_SIZE
  BY <1>1, <1>5, TimesGrows
<1>7. (k - 1) * BLOCK_SIZE = k * BLOCK_SIZE - BLOCK_SIZE
  BY <1>1, <1>5, OneMoreTime
<1>8. PICK x \in Int : x = k * BLOCK_SIZE
  BY <1>6
<1>9. PICK y \in Int : y = q * BLOCK_SIZE
  BY <1>6
<1>10. x <= y /\ y <= a
  BY <1>4, <1>6, <1>8, <1>9
<1>11. x - BLOCK_SIZE < size
  BY <1>1, <1>2, <1>10
<1> QED BY <1>7, <1>8, <1>11

\* Byte o of a segment is byte o % BLOCK_SIZE of its block o \div BLOCK_SIZE.
LEMMA PartOf ==
  ASSUME NEW size \in Sizes, NEW o \in Nat, o < size
  PROVE  /\ o \div BLOCK_SIZE \in Nat /\ o % BLOCK_SIZE \in Nat
         /\ (o \div BLOCK_SIZE) * BLOCK_SIZE \in Nat
         /\ o = (o \div BLOCK_SIZE) * BLOCK_SIZE + (o % BLOCK_SIZE)
         /\ (o \div BLOCK_SIZE) + 1 \in 1 .. BlockCount(size)
         /\ BlockBytes(size, o \div BLOCK_SIZE) \in Nat
         /\ (o % BLOCK_SIZE) + 1 \in 1 .. BlockBytes(size, o \div BLOCK_SIZE)
<1>1. BLOCK_SIZE \in Nat \ {0} /\ size \in Nat \ {0}
  BY KernelMemoryAssumption
<1>2. PICK k \in Nat : k = o \div BLOCK_SIZE
  BY <1>1, Divided
<1>3. PICK r \in Nat : r = o % BLOCK_SIZE /\ r < BLOCK_SIZE
  BY <1>1, Divided
<1>4. PICK m \in Nat : m = k * BLOCK_SIZE /\ o = m + r
  BY <1>1, <1>2, <1>3, Divided
<1>5. k + 1 \in 1 .. BlockCount(size)
  <2>1. PICK a \in Nat : a = size + BLOCK_SIZE - 1
    BY <1>1
  <2>2. PICK q \in Nat : q = BlockCount(size) /\ q = a \div BLOCK_SIZE
    BY <2>1, BlockCountFacts DEF BlockCount
  <2>3. PICK y \in Nat : y = q * BLOCK_SIZE
    BY <1>1
  <2>4. PICK z \in Nat : z = a % BLOCK_SIZE /\ z < BLOCK_SIZE /\ a = y + z
    BY <1>1, <2>2, <2>3, Divided
  <2>5. ~(q <= k)
    <3> SUFFICES ASSUME q <= k PROVE FALSE
      OBVIOUS
    <3>1. y <= m
      BY <1>1, <1>4, <2>3, TimesGrows
    <3> QED BY <1>1, <1>3, <1>4, <2>1, <2>4, <3>1
  <2> QED BY <2>2, <2>5
<1>6. BlockBytes(size, k) \in Nat /\ r + 1 \in 1 .. BlockBytes(size, k)
  <2>1. PICK z \in Int : z = size - m
    BY <1>1
  <2>2. BlockBytes(size, k) \in {z, BLOCK_SIZE}
    BY <1>1, <1>4, <2>1, MinOneOf DEF BlockBytes
  <2>3. r < z
    BY <1>1, <1>4, <2>1
  <2> QED BY <1>1, <1>3, <2>1, <2>2, <2>3
<1> QED BY <1>2, <1>3, <1>4, <1>5, <1>6

\* Bytes of another block of the segment are outside block k.
LEMMA OtherPart ==
  ASSUME NEW o \in Nat, NEW k \in Nat, NEW len \in Nat, len <= BLOCK_SIZE,
         o \div BLOCK_SIZE # k
  PROVE  o < k * BLOCK_SIZE \/ o >= k * BLOCK_SIZE + len
<1>1. BLOCK_SIZE \in Nat \ {0}
  BY KernelMemoryAssumption
<1>2. PICK q \in Nat : q = o \div BLOCK_SIZE
  BY <1>1, Divided
<1>3. PICK r \in Nat : r = o % BLOCK_SIZE /\ r < BLOCK_SIZE
  BY <1>1, Divided
<1>4. PICK m \in Nat : m = q * BLOCK_SIZE /\ o = m + r
  BY <1>1, <1>2, <1>3, Divided
<1>5. PICK n \in Nat : n = k * BLOCK_SIZE
  BY <1>1
<1>6. CASE q < k
  <2>1. q + 1 <= k /\ q + 1 \in Int
    BY <1>6
  <2>2. (q + 1) * BLOCK_SIZE <= n
    BY <1>1, <1>5, <2>1, TimesGrows
  <2>3. (q + 1) * BLOCK_SIZE = m + BLOCK_SIZE
    BY <1>1, <1>4, OneMoreTime
  <2>4. m + BLOCK_SIZE <= n
    BY <2>2, <2>3
  <2>5. o < n
    BY <1>1, <1>3, <1>4, <2>4
  <2> QED BY <1>5, <2>5
<1>7. CASE k < q
  <2>1. k + 1 <= q /\ k + 1 \in Int
    BY <1>7
  <2>2. (k + 1) * BLOCK_SIZE <= m
    BY <1>1, <1>4, <2>1, TimesGrows
  <2>3. (k + 1) * BLOCK_SIZE = n + BLOCK_SIZE
    BY <1>1, <1>5, OneMoreTime
  <2>4. n + BLOCK_SIZE <= m
    BY <2>2, <2>3
  <2>5. o >= n + len
    BY <1>1, <1>4, <2>4
  <2> QED BY <1>5, <2>5
<1> QED BY <1>2, <1>6, <1>7

-----------------------------------------------------------------------------
(* Where a written byte is.                                                *)

\* w = <<p, d, o>>: byte o of segment d of process p, written by p.  It lies in the
\* segment; b is the block of swap for it; it is in that block.
InTable(segs, st, w) ==
  \E s \in ToSet(segs) : /\ s.pid = w[1] /\ s.id = w[2] /\ w[3] < s.size
                         /\ Lies(st, s.base + w[3], w)
Part(blocks, b, w) ==
  /\ blocks[b].pid = w[1] /\ blocks[b].segment_number = w[2]
  /\ blocks[b].segment_block_number = w[3] \div BLOCK_SIZE
OnDisk(blocks, dk, w) ==
  \E b \in Block : /\ Part(blocks, b, w) /\ w[3] < blocks[b].segment_size
                   /\ dk[b][(w[3] % BLOCK_SIZE) + 1] = w
Restored(segs, st, blocks, w) == InTable(segs, st, w) /\ \A b \in Block : ~Part(blocks, b, w)

\* The segments of p are being removed because p is suspended.
GoesToSwap(p) == Leaving(p) /\ job.after = "suspended"

\* Kept: where byte w is, by what is happening to its process.
Kept(w) ==
  /\ w[2] \in owned[w[1]]
  /\ GoesToSwap(w[1]) => OnDisk(block_list, disk, w)
  /\ ~GoesToSwap(w[1]) /\ status[w[1]] = "suspended" =>
       OnDisk(block_list, disk, w) \/ Restored(segments, sticks, block_list, w)
  /\ ~GoesToSwap(w[1]) /\ status[w[1]] # "suspended" => InTable(segments, sticks, w)

\* The blocks of a segment are its parts, each once, and they have its size.
BlocksAgree(segs, blocks) ==
  /\ \A b \in Block : blocks[b].pid \in Pid =>
       blocks[b].segment_block_number * BLOCK_SIZE < blocks[b].segment_size
  /\ \A b, c \in Block :
       /\ blocks[b].pid \in Pid /\ blocks[b].pid = blocks[c].pid
       /\ blocks[b].segment_number = blocks[c].segment_number
       => /\ blocks[b].segment_size = blocks[c].segment_size
          /\ blocks[b].segment_block_number = blocks[c].segment_block_number => b = c
  /\ \A b \in Block, s \in ToSet(segs) :
       s.pid = blocks[b].pid /\ s.id = blocks[b].segment_number
         => s.size = blocks[b].segment_size

Contents == BlocksAgree(segments, block_list) /\ \A w \in written : Kept(w)

\* A position in the table of a process is the id of the segment there, if any,
\* where find_segment uses it; and no compaction is asked for.
Positional ==
  /\ job.kind # "compacting"
  /\ \A p \in Pid, d \in SegId :
       ~Leaving(p) /\ find_segment(segments, p, d) # NoSegment
         => find_segment(segments, p, d).id = d

\* find_segment returns a segment of the process.
LEMMA PositionFinds ==
  ASSUME NEW segs \in Seq(Segment), NEW p, NEW d \in SegId, NEW s,
         s = find_segment(segs, p, d), s # NoSegment
  PROVE  s \in ToSet(segs) /\ s.pid = p
<1>1. PICK mine : mine = filter_process_segments(segs, p)
  OBVIOUS
<1>2. /\ mine \in Seq(Segment) /\ ToSet(mine) \subseteq ToSet(segs)
      /\ \A k \in 1 .. Len(mine) : mine[k].pid = p
  BY <1>1, MineFacts
<1>3. d < Len(mine) /\ s = mine[d + 1]
  BY <1>1 DEF find_segment
<1>4. d + 1 \in 1 .. Len(mine) /\ DOMAIN mine = 1 .. Len(mine)
  BY <1>2, <1>3, KernelMemoryAssumption
<1> QED BY <1>2, <1>3, <1>4 DEF ToSet

\* A written byte names its process, its segment and its offset.
LEMMA WrittenFacts ==
  ASSUME StoreInv, NEW w \in written
  PROVE  w[1] \in Pid /\ w[2] \in SegId /\ w[3] \in Nat /\ w = <<w[1], w[2], w[3]>>
<1>1. w \in Pid \X SegId \X Nat
  BY DEF StoreInv, MemoryInv, KMTypeOK
<1> QED BY <1>1

-----------------------------------------------------------------------------
(* What each step does to the bytes written.                               *)

\* A byte the step does not concern.
LEMMA StaysKept ==
  ASSUME NEW w, Kept(w), owned'[w[1]] = owned[w[1]], status'[w[1]] = status[w[1]],
         GoesToSwap(w[1])' <=> GoesToSwap(w[1]),
         InTable(segments, sticks, w) => InTable(segments', sticks', w),
         OnDisk(block_list, disk, w) => OnDisk(block_list', disk', w),
         (\A b \in Block : ~Part(block_list, b, w)) => (\A b \in Block : ~Part(block_list', b, w))
  PROVE  Kept(w)'
<1>1. /\ w[2] \in owned'[w[1]]
      /\ GoesToSwap(w[1])' => OnDisk(block_list', disk', w)
  BY DEF Kept
<1>2. ~GoesToSwap(w[1])' /\ status'[w[1]] = "suspended" =>
        OnDisk(block_list', disk', w) \/ Restored(segments', sticks', block_list', w)
  BY DEF Kept, Restored
<1>3. ~GoesToSwap(w[1])' /\ status'[w[1]] # "suspended" => InTable(segments', sticks', w)
  BY DEF Kept
<1> QED BY <1>1, <1>2, <1>3 DEF Kept

\* Steps that move no byte.
LEMMA QuietContents ==
  ASSUME Contents, UNCHANGED <<segments, sticks, block_list, disk, owned, written>>,
         \A w \in written : /\ status'[w[1]] = status[w[1]]
                            /\ GoesToSwap(w[1])' <=> GoesToSwap(w[1])
  PROVE  Contents'
<1>1. \A w \in written : Kept(w)'
  BY StaysKept DEF Contents
<1> QED BY <1>1 DEF Contents

\* A stick connects.
LEMMA AddStickContents ==
  ASSUME StoreInv, Contents, add_stick_connection
  PROVE  Contents'
<1>1. /\ UNCHANGED <<segments, block_list, disk, owned, status, job, written>>
      /\ sticks' = Append(sticks, [k \in 1..StickSizes[Len(sticks) + 1] |-> Blank])
      /\ Len(sticks) < Len(StickSizes)
  BY DEF add_stick_connection, tableVars, swapVars, ghostVars
<1>2. sticks \in Seq(Seq(Byte))
  BY DEF StoreInv, MemoryInv, KMTypeOK
<1>3. PICK t \in Seq(Byte) : sticks' = Append(sticks, t)
  <2>1. StickSizes[Len(sticks) + 1] \in Nat
    BY <1>1, <1>2, KernelMemoryAssumption
  <2>2. PICK n \in Nat : n = StickSizes[Len(sticks) + 1]
    BY <2>1
  <2>3. Blank \in Byte
    BY DEF Byte
  <2>4. [k \in 1 .. n |-> Blank] \in Seq(Byte)
    <3>1. [k \in 1 .. n |-> Blank] \in [1 .. n -> Byte]
      BY <2>3
    <3> QED BY <3>1, FunctionIsList
  <2> QED BY <1>1, <2>2, <2>4
<1>4. ASSUME NEW w \in written PROVE Kept(w)'
  <2>1. InTable(segments, sticks, w) => InTable(segments', sticks', w)
    BY <1>1, <1>2, <1>3, StickAdded DEF InTable
  <2>2. Kept(w)
    BY DEF Contents
  <2> QED BY <1>1, <2>1, <2>2, StaysKept DEF GoesToSwap, Leaving
<1> QED BY <1>1, <1>4 DEF Contents

\* A process that starts has written nothing.
LEMMA NewContents ==
  ASSUME StoreInv, Places, Contents, NEW p \in Pid, handle_new_process(p)
  PROVE  Contents'
<1>1. /\ job = Idle /\ status[p] = "none" /\ status' = [status EXCEPT ![p] = "resident"]
      /\ UNCHANGED <<segments, sticks, block_list, disk, owned, written, job>>
      /\ status \in [Pid -> {"none", "resident", "suspended", "ended"}]
  BY DEF handle_new_process, tableVars, stickVars, swapVars, ghostVars, StoreInv, MemoryInv,
    KMTypeOK
<1>2. owned[p] = {}
  BY <1>1 DEF Places, InPlace, Settled, Leaving, Idle
<1>3. ASSUME NEW w \in written PROVE status'[w[1]] = status[w[1]]
  <2>1. w[1] # p
    BY <1>2 DEF Contents, Kept
  <2> QED BY <1>1, <2>1, WrittenFacts
<1> QED BY <1>1, <1>3, QuietContents DEF GoesToSwap, Leaving

\* A new segment holds no written byte yet.
LEMMA CreateContents ==
  ASSUME StoreInv, Places, Contents, NEW p \in Pid, NEW id \in SegId, NEW size \in Sizes,
         handle_create_segment(p, id, size), job'.kind # "compacting"
  PROVE  Contents'
<1>1. /\ job = Idle /\ status[p] = "resident"
      /\ UNCHANGED <<sticks, block_list, disk, status, written>>
  BY DEF handle_create_segment, swapVars, stickVars
<1>2. /\ segments \in Seq(Segment) /\ owned \in [Pid -> SUBSET SegId] /\ holes \in Seq(Hole)
  BY DEF StoreInv, MemoryInv, KMTypeOK
<1>3. hole_selection_algorithm(size, holes) # NoHole
  <2> SUFFICES ASSUME hole_selection_algorithm(size, holes) = NoHole PROVE FALSE
    OBVIOUS
  <2>1. job' = [kind |-> "compacting", pid |-> p, id |-> id, size |-> size]
    BY DEF handle_create_segment
  <2> QED BY <2>1
<1>4. /\ owned' = [owned EXCEPT ![p] = @ \cup {id}] /\ job' = job
      /\ segments' = Append(segments, [pid |-> p, id |-> id, size |-> size,
                         base |-> hole_selection_algorithm(size, holes).base])
  BY <1>3 DEF handle_create_segment, place_segment
<1>5. PICK x \in Segment : x.pid = p /\ segments' = Append(segments, x)
  BY <1>2, <1>3, <1>4, SegmentMade
<1>6. ToSet(segments') = ToSet(segments) \cup {x}
  BY <1>2, <1>5, SegmentsSized, SegmentFacts, Appended
<1>7. BlocksOf(block_list, p) = {}
  BY <1>1 DEF Places, InPlace, Settled, Leaving, Idle
<1>8. BlocksAgree(segments', block_list')
  <2>1. BlocksAgree(segments, block_list)
    BY DEF Contents
  <2>2. \A b \in Block : block_list[b].pid # p
    BY <1>7 DEF BlocksOf
  <2> QED BY <1>1, <1>5, <1>6, <2>1, <2>2 DEF BlocksAgree
<1>9. ASSUME NEW w \in written PROVE Kept(w)'
  <2>1. Kept(w) /\ w[1] \in Pid /\ w[2] \in owned[w[1]]
    BY WrittenFacts DEF Contents, Kept
  <2>2. w[2] \in owned'[w[1]]
    BY <1>2, <1>4, <2>1
  <2>3. InTable(segments, sticks, w) => InTable(segments', sticks', w)
    BY <1>1, <1>6 DEF InTable
  <2> QED BY <1>1, <1>4, <2>1, <2>2, <2>3 DEF Kept, GoesToSwap, Leaving, Restored
<1> QED BY <1>1, <1>8, <1>9 DEF Contents

\* What the process frees is no longer its own.
LEMMA DeleteContents ==
  ASSUME StoreInv, Contents, NEW p \in Pid, NEW id \in SegId, handle_delete_segment(p, id)
  PROVE  Contents'
<1>1. /\ job = Idle /\ status[p] = "resident" /\ job' = Removing(p, <<id>>, "resident")
      /\ owned' = [owned EXCEPT ![p] = @ \ {id}] /\ written' = written \ BytesOfSegment(p, id)
      /\ UNCHANGED <<segments, sticks, block_list, disk, status>>
      /\ owned \in [Pid -> SUBSET SegId]
  BY DEF handle_delete_segment, tableVars, stickVars, swapVars, StoreInv, MemoryInv, KMTypeOK
<1>2. \A q : ~GoesToSwap(q) /\ ~GoesToSwap(q)'
  BY <1>1 DEF GoesToSwap, Leaving, Idle, Removing
<1>3. ASSUME NEW w \in written' PROVE Kept(w)'
  <2>1. w \in written /\ ~(w[1] = p /\ w[2] = id)
    BY <1>1 DEF BytesOfSegment
  <2>2. Kept(w) /\ w[1] \in Pid /\ w[2] \in owned[w[1]]
    BY <2>1, WrittenFacts DEF Contents, Kept
  <2>3. w[2] \in owned'[w[1]]
    BY <1>1, <2>1, <2>2
  <2> QED BY <1>1, <1>2, <2>2, <2>3 DEF Kept
<1> QED BY <1>1, <1>3 DEF Contents

\* A process that ends keeps nothing.
LEMMA EndContents ==
  ASSUME StoreInv, Contents, NEW p \in Pid, handle_end_process(p)
  PROVE  Contents'
<1>1. /\ job = Idle /\ status[p] = "resident"
      /\ job' = Removing(p, IdsOf(filter_process_segments(segments, p)), "ended")
      /\ owned' = [owned EXCEPT ![p] = {}] /\ written' = {w \in written : w[1] # p}
      /\ UNCHANGED <<segments, sticks, block_list, disk, status>>
      /\ owned \in [Pid -> SUBSET SegId]
  BY DEF handle_end_process, tableVars, stickVars, swapVars, StoreInv, MemoryInv, KMTypeOK
<1>2. \A q : ~GoesToSwap(q) /\ ~GoesToSwap(q)'
  BY <1>1 DEF GoesToSwap, Leaving, Idle, Removing
<1>3. ASSUME NEW w \in written' PROVE Kept(w)'
  <2>1. w \in written /\ w[1] # p
    BY <1>1
  <2>2. Kept(w) /\ w[1] \in Pid /\ w[2] \in owned[w[1]]
    BY <2>1, WrittenFacts DEF Contents, Kept
  <2>3. w[2] \in owned'[w[1]]
    BY <1>1, <2>1, <2>2
  <2> QED BY <1>1, <1>2, <2>2, <2>3 DEF Kept
<1> QED BY <1>1, <1>3 DEF Contents

\* remove_segment's first half: the byte's segment stays, or the byte is in swap.
LEMMA FindContents ==
  ASSUME StoreInv, Places, Contents, find_and_remove_segment
  PROVE  Contents'
<1>0. /\ segments \in Seq(Segment) /\ IsInjective(segments) /\ job \in Request
  BY DEF StoreInv, MemoryInv, KMTypeOK, Tables, Partition
<1>1. /\ job.kind = "remove" /\ job.todo # <<>>
      /\ UNCHANGED <<sticks, block_list, disk, status, owned, written>>
      /\ segments' = ListRemove(segments, FirstIndex(segments, job.pid, Head(job.todo)))
  BY DEF find_and_remove_segment, stickVars, swapVars, ghostVars, SelectInSeq, FirstIndex
<1>2. PICK x : job' = [job EXCEPT !.todo = Tail(@), !.seg = x]
  BY DEF find_and_remove_segment
<1>3. job \in [kind : {"remove"}, pid : Pid, todo : Seq(SegId),
               seg : Segment \cup {NoSegment}, after : {"resident", "suspended", "ended"}]
  BY <1>0, <1>1, RequestFacts
<1>4. PICK p \in Pid : p = job.pid
  BY <1>3
<1>5. PICK todo \in Seq(SegId) : todo = job.todo
  BY <1>3
<1>6. job'.kind = "remove" /\ job'.pid = p /\ job'.after = job.after
  BY <1>2, <1>3, <1>4
<1>7. PICK i : i = FirstIndex(segments, p, Head(todo))
  OBVIOUS
<1>8. \/ i \in 1 .. Len(segments) /\ segments[i].pid = p /\ segments[i].id = Head(todo)
      \/ i = 0
  BY <1>0, <1>7, Found
<1>9. ToSet(segments') = ToSet(segments) \ ElementAt(segments, i)
  <2>1. segments' = ListRemove(segments, i)
    BY <1>1, <1>4, <1>5, <1>7
  <2>2. Len(segments) \in Nat /\ Sized(segments) /\ DOMAIN segments = 1 .. Len(segments)
    BY <1>0, SegmentsSized
  <2> QED BY <1>0, <1>8, <2>1, <2>2, ListRemoved
<1>10. \A s \in ToSet(segments) : (s.pid = p /\ s.id = Head(todo)) \/ s \in ToSet(segments')
  BY <1>8, <1>9 DEF ElementAt
<1>11. Departing(IdsIn(segments, p), IdsSwapped(block_list, p), BlocksOf(block_list, p),
                 owned[p], todo, job.after)
  BY <1>1, <1>4, <1>5 DEF Places, InPlace, Leaving
<1>12. Head(todo) \in ToSet(todo)
  BY <1>1, <1>5, <1>11, TailIds DEF Departing
<1>13. BlocksAgree(segments', block_list')
  BY <1>1, <1>9 DEF Contents, BlocksAgree
<1>14. \A q : GoesToSwap(q)' <=> GoesToSwap(q)
  BY <1>1, <1>4, <1>6 DEF GoesToSwap, Leaving
<1>15. ASSUME NEW w \in written PROVE Kept(w)'
  <2>1. Kept(w) /\ w[1] \in Pid /\ w[2] \in owned[w[1]]
    BY WrittenFacts DEF Contents, Kept
  <2>2. CASE w[1] # p
    <3>1. InTable(segments, sticks, w) => InTable(segments', sticks', w)
      BY <1>1, <1>10, <2>2 DEF InTable
    <3> QED BY <1>1, <1>14, <2>1, <3>1, StaysKept
  <2>3. CASE w[1] = p /\ job.after = "suspended"
    <3>1. GoesToSwap(w[1]) /\ GoesToSwap(w[1])'
      BY <1>1, <1>4, <1>14, <2>3 DEF GoesToSwap, Leaving
    <3>2. OnDisk(block_list', disk', w)
      BY <1>1, <2>1, <3>1 DEF Kept
    <3> QED BY <1>1, <2>1, <3>1, <3>2 DEF Kept
  <2>4. CASE w[1] = p /\ job.after # "suspended"
    <3>1. w[2] # Head(todo)
      BY <1>11, <1>12, <2>1, <2>4 DEF Departing
    <3>2. InTable(segments, sticks, w) => InTable(segments', sticks', w)
      BY <1>1, <1>10, <3>1 DEF InTable
    <3> QED BY <1>1, <1>14, <2>1, <3>2, StaysKept
  <2> QED BY <2>2, <2>3, <2>4
<1> QED BY <1>1, <1>13, <1>15 DEF Contents

\* The removal is over: what went to swap is on disk.
LEMMA DoneContents ==
  ASSUME StoreInv, Places, Contents, removal_done
  PROVE  Contents'
<1>1. /\ job.kind = "remove" /\ job' = Idle
      /\ status' = [status EXCEPT ![job.pid] = job.after]
      /\ UNCHANGED <<segments, sticks, block_list, disk, owned, written>> /\ job \in Request
      /\ status \in [Pid -> {"none", "resident", "suspended", "ended"}]
  BY DEF removal_done, tableVars, stickVars, swapVars, ghostVars, StoreInv, MemoryInv, KMTypeOK
<1>2. PICK p \in Pid : p = job.pid /\ job.after \in {"resident", "suspended", "ended"}
                       /\ status[p] = "resident"
  BY <1>1, RequestFacts DEF StoreInv, ListenerInv
<1>3. \A q : ~GoesToSwap(q)'
  BY <1>1 DEF GoesToSwap, Leaving, Idle
<1>4. ASSUME NEW w \in written PROVE Kept(w)'
  <2>1. Kept(w) /\ w[1] \in Pid /\ w[2] \in owned[w[1]]
    BY WrittenFacts DEF Contents, Kept
  <2>2. CASE w[1] # p
    <3>1. ~GoesToSwap(w[1]) /\ status'[w[1]] = status[w[1]]
      BY <1>1, <1>2, <2>1, <2>2 DEF GoesToSwap, Leaving
    <3> QED BY <1>1, <1>3, <2>1, <3>1, StaysKept
  <2>3. CASE w[1] = p /\ job.after = "suspended"
    <3>1. OnDisk(block_list', disk', w)
      BY <1>1, <1>2, <2>1, <2>3 DEF Kept, GoesToSwap, Leaving
    <3>2. status'[w[1]] = "suspended"
      BY <1>1, <1>2, <2>3
    <3> QED BY <1>1, <1>3, <2>1, <3>1, <3>2 DEF Kept
  <2>4. CASE w[1] = p /\ job.after # "suspended"
    <3>1. InTable(segments', sticks', w)
      BY <1>1, <1>2, <2>1, <2>4 DEF Kept, GoesToSwap
    <3>2. status'[w[1]] # "suspended"
      BY <1>1, <1>2, <2>4
    <3> QED BY <1>1, <1>3, <2>1, <3>1, <3>2 DEF Kept
  <2> QED BY <2>2, <2>3, <2>4
<1> QED BY <1>1, <1>4 DEF Contents

\* The bytes of a removed segment become a hole.
LEMMA MergeContents ==
  ASSUME StoreInv, Contents, remove_segment
  PROVE  Contents'
<1>1. /\ job.kind = "remove" /\ job' = [job EXCEPT !.seg = NoSegment]
      /\ UNCHANGED <<segments, sticks, block_list, disk, status, owned, written>>
      /\ job \in Request
  BY DEF remove_segment, stickVars, swapVars, ghostVars, StoreInv, MemoryInv, KMTypeOK
<1>2. job \in [kind : {"remove"}, pid : Pid, todo : Seq(SegId),
               seg : Segment \cup {NoSegment}, after : {"resident", "suspended", "ended"}]
  BY <1>1, RequestFacts
<1>3. job'.kind = "remove" /\ job'.pid = job.pid /\ job'.after = job.after
  BY <1>1, <1>2
<1> QED BY <1>1, <1>3, QuietContents DEF GoesToSwap, Leaving

\* A resumption starts.
LEMMA ResumeStartContents ==
  ASSUME Contents, NEW p \in Pid, resume_process(p)
  PROVE  Contents'
<1>1. /\ job = Idle /\ job' = [kind |-> "resume", pid |-> p, at |-> 0]
      /\ UNCHANGED <<segments, sticks, block_list, disk, owned, status, written>>
  BY DEF resume_process, tableVars, stickVars, swapVars, ghostVars
<1>2. job.kind # "remove" /\ job'.kind # "remove"
  BY <1>1 DEF Idle
<1> QED BY <1>1, <1>2, QuietContents DEF GoesToSwap, Leaving

\* No block is left in swap: every byte has been restored.
LEMMA ResumeDoneContents ==
  ASSUME StoreInv, Contents, resume_done
  PROVE  Contents'
<1>1. /\ job.kind = "resume" /\ BlocksLeft = {} /\ job' = Idle /\ job \in Request
      /\ status' = [status EXCEPT ![job.pid] = IF job.at > 0 THEN "resident" ELSE @]
      /\ UNCHANGED <<segments, sticks, block_list, disk, owned, written>>
      /\ status \in [Pid -> {"none", "resident", "suspended", "ended"}]
  BY DEF resume_done, tableVars, stickVars, swapVars, ghostVars, StoreInv, MemoryInv, KMTypeOK
<1>2. PICK p \in Pid : p = job.pid /\ job.at \in 0 .. BLOCKS
  BY <1>1, RequestFacts
<1>3. ASSUME NEW b \in Block PROVE block_list[b].pid # p
  <2> SUFFICES ASSUME block_list[b].pid = p PROVE FALSE
    OBVIOUS
  <2>1. ~(b < job.at)
    BY <1>1, <1>2 DEF StoreInv, ListenerInv
  <2>2. b \in Nat /\ job.at \in Int
    BY <1>2, BlockSet
  <2>3. b >= job.at
    BY <2>1, <2>2
  <2> QED BY <1>1, <1>2, <2>3 DEF BlocksLeft
<1>4. status[p] = "suspended"
  BY <1>1, <1>2 DEF StoreInv, ListenerInv
<1>5. \A q : ~GoesToSwap(q) /\ ~GoesToSwap(q)'
  BY <1>1 DEF GoesToSwap, Leaving, Idle
<1>6. ASSUME NEW w \in written PROVE Kept(w)'
  <2>1. Kept(w) /\ w[1] \in Pid /\ w[2] \in owned[w[1]]
    BY WrittenFacts DEF Contents, Kept
  <2>2. CASE w[1] # p
    <3>1. status'[w[1]] = status[w[1]]
      BY <1>1, <1>2, <2>1, <2>2
    <3> QED BY <1>1, <1>5, <2>1, <3>1, StaysKept
  <2>3. CASE w[1] = p
    <3>1. \A b \in Block : ~Part(block_list, b, w)
      BY <1>3, <2>3 DEF Part
    <3>2. InTable(segments, sticks, w)
      BY <1>4, <1>5, <2>1, <2>3, <3>1 DEF Kept, OnDisk, Restored
    <3> QED BY <1>1, <1>5, <2>1, <3>1, <3>2 DEF Kept, Restored
  <2> QED BY <2>2, <2>3
<1> QED BY <1>1, <1>6 DEF Contents

\* Areas that lie apart from each other, below sum.
Spread(S, sum) ==
  \A s \in S : /\ s.base \in Nat /\ s.size \in Nat /\ s.base + s.size <= sum
               /\ \A t \in S : s = t \/ Apart(s, t)

\* The segments of a partition lie apart.
LEMMA SpreadFrom ==
  ASSUME NEW hs, NEW segs, NEW hand, NEW kept, NEW total \in Nat, NEW sum \in Nat,
         Partition(hs, segs, hand, kept, total), total <= sum
  PROVE  Spread(ToSet(segs), sum)
<1>1. \A s \in ToSet(segs) : Area(s, total)
  BY PartitionFacts
<1>2. \A s, t \in ToSet(segs) : s = t \/ Apart(s, t)
  BY DEF Partition, Tiles, Separate
<1>3. ASSUME NEW s \in ToSet(segs)
      PROVE  s.base \in Nat /\ s.size \in Nat /\ s.base + s.size <= total
  BY <1>1 DEF Area
<1>4. ASSUME NEW s \in ToSet(segs) PROVE s.base + s.size <= sum
  <2>1. PICK x \in Nat : x = s.base
    BY <1>3
  <2>2. PICK y \in Nat : y = s.size
    BY <1>3
  <2>3. x + y <= total
    BY <1>3, <2>1, <2>2
  <2>4. x + y <= sum
    BY <2>3
  <2> QED BY <2>1, <2>2, <2>4
<1> QED BY <1>2, <1>3, <1>4 DEF Spread

\* Bytes of a segment are bytes of the memory, and of no other segment.
LEMMA SegmentBytes ==
  ASSUME StoreInv
  PROVE  /\ \A s \in ToSet(segments) :
              /\ s.base \in Nat /\ s.size \in Nat /\ s.base + s.size <= total_size
              /\ \A t \in ToSet(segments) : s = t \/ Apart(s, t)
         /\ total_size \in Nat /\ sticks \in Seq(Seq(Byte))
         /\ RunningSum(StickLengths(sticks))[Len(sticks)] \in Nat
         /\ total_size <= RunningSum(StickLengths(sticks))[Len(sticks)]
         /\ Spread(ToSet(segments), RunningSum(StickLengths(sticks))[Len(sticks)])
<1>1. MemoryInv /\ Partition(holes, segments, InHand, HandSize, total_size)
  BY DEF StoreInv, MemoryInv, Tables
<1>2. \A s \in ToSet(segments) : Area(s, total_size)
  BY <1>1, PartitionFacts
<1>3. \A s, t \in ToSet(segments) : s = t \/ Apart(s, t)
  BY <1>1 DEF Partition, Tiles, Separate
<1>4. total_size \in Nat /\ sticks \in Seq(Seq(Byte))
  BY <1>1 DEF MemoryInv, KMTypeOK
<1>5. /\ RunningSum(StickLengths(sticks))[Len(sticks)] \in Nat
      /\ total_size <= RunningSum(StickLengths(sticks))[Len(sticks)]
  BY <1>1, CountedAreThere
<1>6. PICK sum \in Nat : sum = RunningSum(StickLengths(sticks))[Len(sticks)] /\ total_size <= sum
  BY <1>5
<1>7. Spread(ToSet(segments), sum)
  BY <1>1, <1>4, <1>6, SpreadFrom
<1>8. ASSUME NEW s \in ToSet(segments)
      PROVE  s.base \in Nat /\ s.size \in Nat /\ s.base + s.size <= total_size
  BY <1>2 DEF Area
<1> QED BY <1>3, <1>4, <1>5, <1>6, <1>7, <1>8

\* Offsets in areas that lie apart.
LEMMA OutsideArithmetic ==
  ASSUME NEW u \in Nat, NEW v \in Nat, NEW x \in Nat, NEW y \in Nat, NEW o \in Nat,
         NEW off \in Nat, NEW len \in Nat, u + v <= x \/ x + y <= u, o < v, off + len <= y
  PROVE  u + o < x + off \/ u + o >= x + off + len
OBVIOUS

\* bytes are at offset off of area s, and the other bytes of the areas are as before.
OnlyInside(S, s, off, bytes, st, after) ==
  /\ \A k \in 1 .. Len(bytes) : Lies(after, s.base + (off + k - 1), bytes[k])
  /\ \A t \in S, o \in Nat : \A w :
       /\ o < t.size /\ Lies(st, t.base + o, w)
       /\ t = s => o < off \/ o >= off + Len(bytes)
       => Lies(after, t.base + o, w)

\* What is written inside area s leaves the bytes of the others alone.
LEMMA WriteInside ==
  ASSUME NEW st \in Seq(Seq(Byte)), NEW sum \in Nat,
         sum = RunningSum(StickLengths(st))[Len(st)],
         NEW S, Spread(S, sum), NEW s \in S, NEW off \in Nat, NEW bytes \in Seq(Byte),
         NEW len \in Nat, len = Len(bytes), len > 0, off + len <= s.size,
         NEW address, address = s.base + off, NEW after,
         after = write_to_sticks(st, address, bytes)
  PROVE  OnlyInside(S, s, off, bytes, st, after)
<1>2. PICK x \in Nat : x = s.base
  BY DEF Spread
<1>3. PICK y \in Nat : y = s.size
  BY DEF Spread
<1>4. PICK a \in Nat : a = address /\ a = x + off
  BY <1>2
<1>5. x + y <= sum
  BY <1>2, <1>3 DEF Spread
<1>6. off + len <= y /\ a < sum /\ a + len <= sum
  BY <1>3, <1>4, <1>5
<1>7. /\ \A z \in Nat : \A w : Lies(st, z, w) /\ (z < a \/ z >= a + len) => Lies(after, z, w)
      /\ \A k \in 1 .. len : a + k <= sum => Lies(after, a + k - 1, bytes[k])
  BY <1>4, <1>6, BytesStored
<1>8. ASSUME NEW k \in 1 .. len PROVE Lies(after, s.base + (off + k - 1), bytes[k])
  <2>1. PICK j \in Nat : j = k /\ j <= len
    OBVIOUS
  <2>2. a + j <= sum
    BY <1>6, <2>1
  <2>3. a = x + off
    BY <1>4
  <2>4. a + j - 1 = x + (off + j - 1)
    BY <2>3
  <2> QED BY <1>2, <1>7, <2>1, <2>2, <2>4
<1>9. ASSUME NEW t \in S, NEW o \in Nat, NEW w, o < t.size,
             Lies(st, t.base + o, w), t = s => o < off \/ o >= off + len
      PROVE  Lies(after, t.base + o, w)
  <2>1. PICK u \in Nat : u = t.base
    BY DEF Spread
  <2>2. PICK v \in Nat : v = t.size
    BY DEF Spread
  <2>3. PICK z \in Nat : z = u + o
    OBVIOUS
  <2>4. CASE t = s
    <3>1. u = x
      BY <1>2, <2>1, <2>4
    <3>2. o < off \/ o >= off + len
      BY <1>9, <2>4
    <3>3. z < a \/ z >= a + len
      BY <1>4, <2>3, <3>1, <3>2
    <3>4. Lies(st, z, w)
      BY <1>9, <2>1, <2>3
    <3> QED BY <1>7, <2>1, <2>3, <3>3, <3>4
  <2>5. CASE t # s
    <3>1. u + v <= x \/ x + y <= u
      <4>1. Apart(t, s)
        BY <2>5 DEF Spread
      <4> QED BY <1>2, <1>3, <2>1, <2>2, <4>1 DEF Apart
    <3>2. o < v
      BY <1>9, <2>2
    <3>3. z < a \/ z >= a + len
      BY <1>4, <1>6, <2>3, <3>1, <3>2, OutsideArithmetic
    <3>4. Lies(st, z, w)
      BY <1>9, <2>1, <2>3
    <3> QED BY <1>7, <2>1, <2>3, <3>3, <3>4
  <2> QED BY <2>4, <2>5
<1> QED BY <1>8, <1>9 DEF OnlyInside

\* A write of a process into one of its segments.
LEMMA WriteContents ==
  ASSUME StoreInv, Places, Contents, NEW p \in Pid, NEW id \in SegId,
         NEW s \in ToSet(segments), s.pid = p, s.id = id, status[p] = "resident", ~Leaving(p),
         NEW off \in Nat, NEW len \in Nat, len > 0, off + len <= s.size,
         NEW address, address = s.base + off, Write(p, id, address, off, len),
         s = find_segment_by_id(segments, p, id),
         UNCHANGED <<segments, block_list, disk, owned, status, job>>
  PROVE  Contents'
<1> DEFINE bytes == [k \in 1 .. len |-> <<p, id, off + k - 1>>]
<1>1. /\ sticks' = write_to_sticks(sticks, address, bytes)
      /\ written' = written \cup {<<p, id, off + k>> : k \in 0 .. len - 1}
  <2>1. PICK y \in Nat : y = s.size
    BY SegmentBytes
  <2>2. \A j \in 0 .. len - 1 : off + j < y
    BY <2>1
  <2>3. {j \in 0 .. len - 1 : off + j < s.size} = 0 .. len - 1
    BY <2>1, <2>2
  <2>4. Meant(p, id, off, len) = {<<p, id, off + k>> : k \in 0 .. len - 1}
    BY <2>3 DEF Meant
  <2> QED BY <2>4 DEF Write
<1>2. bytes \in Seq(Byte) /\ len = Len(bytes)
  <2>1. \A k \in 1 .. len : <<p, id, off + k - 1>> \in Byte
    <3> TAKE k \in 1 .. len
    <3>1. off + k - 1 \in Nat
      OBVIOUS
    <3> QED BY <3>1 DEF Byte
  <2>2. bytes \in [1 .. len -> Byte]
    BY <2>1
  <2> QED BY <2>2, FunctionIsList
<1>3. \A k \in 1 .. len : bytes[k] = <<p, id, off + k - 1>>
  OBVIOUS
<1> HIDE DEF bytes
<1>4. /\ \A k \in 1 .. len : Lies(sticks', s.base + (off + k - 1), bytes[k])
      /\ \A t \in ToSet(segments), o \in Nat : \A w :
           /\ o < t.size /\ Lies(sticks, t.base + o, w)
           /\ t = s => o < off \/ o >= off + len
           => Lies(sticks', t.base + o, w)
  <2>1. PICK sum \in Nat : /\ sum = RunningSum(StickLengths(sticks))[Len(sticks)]
                           /\ Spread(ToSet(segments), sum) /\ sticks \in Seq(Seq(Byte))
    BY SegmentBytes
  <2>2. PICK S : S = ToSet(segments)
    OBVIOUS
  <2>3. PICK bs : bs = bytes
    OBVIOUS
  <2>4. PICK after : after = sticks'
    OBVIOUS
  <2>5. PICK st : st = sticks
    OBVIOUS
  <2>6. /\ st \in Seq(Seq(Byte)) /\ sum = RunningSum(StickLengths(st))[Len(st)]
        /\ Spread(S, sum) /\ s \in S /\ bs \in Seq(Byte) /\ len = Len(bs)
        /\ after = write_to_sticks(st, address, bs)
    BY <1>1, <1>2, <2>1, <2>2, <2>3, <2>4, <2>5
  <2>7. OnlyInside(S, s, off, bs, st, after)
    BY <2>6, WriteInside
  <2> QED BY <2>2, <2>3, <2>4, <2>5, <2>6, <2>7 DEF OnlyInside
<1>5. id \in owned[p]
  <2>1. IdsIn(segments, p) = owned[p]
    BY DEF Places, InPlace, Settled
  <2> QED BY <2>1 DEF IdsIn, Has
<1>6. \A q : GoesToSwap(q)' <=> GoesToSwap(q)
  BY DEF GoesToSwap, Leaving
<1>7. ASSUME NEW k \in 0 .. len - 1 PROVE Kept(<<p, id, off + k>>)'
  <2>1. PICK j \in 1 .. len : j = k + 1
    OBVIOUS
  <2>2. off + j - 1 = off + k /\ off + k < s.size
    <3>1. PICK y \in Nat : y = s.size
      BY SegmentBytes
    <3> QED BY <2>1, <3>1
  <2>3. Lies(sticks', s.base + (off + k), <<p, id, off + k>>)
    BY <1>3, <1>4, <2>1, <2>2
  <2>4. PICK w : w = <<p, id, off + k>>
    OBVIOUS
  <2>5. w[1] = p /\ w[2] = id /\ w[3] = off + k
    BY <2>4
  <2>6. InTable(segments', sticks', w)
    BY <2>2, <2>3, <2>4, <2>5 DEF InTable
  <2>7. ~GoesToSwap(p)' /\ status'[p] # "suspended" /\ id \in owned'[p]
    BY <1>5, <1>6 DEF GoesToSwap
  <2>8. Kept(w)'
    BY <2>5, <2>6, <2>7 DEF Kept
  <2> QED BY <2>4, <2>8
<1>8. ASSUME NEW w \in written, w \notin {<<p, id, off + k>> : k \in 0 .. len - 1}
      PROVE  Kept(w)'
  <2>1. Kept(w) /\ w[3] \in Nat /\ w = <<w[1], w[2], w[3]>>
    BY WrittenFacts DEF Contents
  <2>2. ASSUME InTable(segments, sticks, w) PROVE InTable(segments', sticks', w)
    <3>1. PICK t \in ToSet(segments) : /\ t.pid = w[1] /\ t.id = w[2] /\ w[3] < t.size
                                       /\ Lies(sticks, t.base + w[3], w)
      BY <2>2 DEF InTable
    <3>2. ASSUME t = s PROVE w[3] < off \/ w[3] >= off + len
      <4> SUFFICES ASSUME ~(w[3] < off), ~(w[3] >= off + len) PROVE FALSE
        OBVIOUS
      <4>1. PICK o \in Nat : o = w[3]
        BY <2>1
      <4>2. PICK k \in 0 .. len - 1 : o = off + k
        <5>1. o - off \in 0 .. len - 1 /\ o = off + (o - off)
          BY <4>1
        <5> QED BY <5>1
      <4>3. w = <<p, id, off + k>>
        BY <2>1, <3>1, <3>2, <4>1, <4>2
      <4> QED BY <1>8, <4>3
    <3>3. Lies(sticks', t.base + w[3], w)
      BY <1>4, <2>1, <3>1, <3>2
    <3> QED BY <3>1, <3>3 DEF InTable
  <2> QED BY <1>6, <2>1, <2>2, StaysKept
<1>9. \A w \in written' : Kept(w)'
  BY <1>1, <1>7, <1>8
<1> QED BY <1>9 DEF Contents

\* A write through the MMU.
LEMMA WriteMemoryContents ==
  ASSUME StoreInv, Places, Contents, NEW p \in Pid, NEW id \in SegId,
         NEW off \in 0 .. total_size - 1, write_memory(p, id, off)
  PROVE  Contents'
<1>1. PICK s : s = find_segment_by_id(segments, p, id)
  OBVIOUS
<1>2. /\ Running /\ status[p] = "resident" /\ (job # Idle => job.pid # p)
      /\ s # NoSegment /\ off < s.size /\ Write(p, id, s.base + off, off, 1)
      /\ UNCHANGED <<segments, block_list, disk, owned, status, job>>
  BY <1>1 DEF write_memory, tableVars, swapVars
<1>3. segments \in Seq(Segment) /\ total_size \in Nat
  BY DEF StoreInv, MemoryInv, KMTypeOK
<1>4. s \in ToSet(segments) /\ s.pid = p /\ s.id = id
  BY <1>1, <1>2, <1>3, Found, SegmentsSized DEF ToSet
<1>5. ~Leaving(p)
  BY <1>2 DEF Leaving, Idle
<1>6. PICK y \in Nat : y = s.size
  BY <1>4, SegmentBytes
<1>7. off \in Nat /\ off + 1 <= s.size
  BY <1>2, <1>3, <1>6
<1>8. PICK len \in Nat : len = 1 /\ len > 0
  OBVIOUS
<1>9. PICK address : address = s.base + off
  OBVIOUS
<1>10. Write(p, id, address, off, len) /\ off + len <= s.size
  BY <1>2, <1>7, <1>8, <1>9
<1> QED BY <1>1, <1>2, <1>4, <1>5, <1>7, <1>8, <1>9, <1>10, WriteContents

\* A STDIN reply inside a segment goes to the segment that has the id.
LEMMA StdinContents ==
  ASSUME StoreInv, Places, Contents, Positional, NEW p \in Pid, NEW id \in SegId,
         NEW i \in Inputs, handle_stdin_request(p, id, i[1], i[2]), job' = Idle,
         i[1] + i[2] <= find_segment_by_id(segments, p, id).size
  PROVE  Contents'
<1>1. PICK s : s = find_segment(segments, p, id)
  OBVIOUS
<1>2. PICK t : t = find_segment_by_id(segments, p, id)
  OBVIOUS
<1>3. PICK off \in Nat : off = i[1]
  BY StdinStep
<1>4. PICK len \in Nat : len = i[2] /\ len > 0
  <2>1. i[2] \in Nat \ {0}
    BY StdinStep
  <2> QED BY <2>1
<1>5. PICK address : address = s.base + off
  OBVIOUS
<1>6. /\ job = Idle /\ status[p] = "resident" /\ off + len <= t.size
      /\ s # NoSegment /\ Write(p, id, address, off, len)
      /\ UNCHANGED <<segments, block_list, disk, owned, status, job>>
  BY <1>1, <1>2, <1>3, <1>4, <1>5 DEF handle_stdin_request, tableVars, swapVars
<1>7. segments \in Seq(Segment) /\ id \in Nat
  BY KernelMemoryAssumption DEF StoreInv, MemoryInv, KMTypeOK
<1>8. ~Leaving(p)
  BY <1>6 DEF Leaving, Idle
<1>9. s \in ToSet(segments) /\ s.pid = p /\ s.id = id
  <2>1. s \in ToSet(segments) /\ s.pid = p
    BY <1>1, <1>6, <1>7, PositionFinds
  <2>2. s.id = id
    BY <1>1, <1>6, <1>8 DEF Positional
  <2> QED BY <2>1, <2>2
<1>10. t = s
  <2>1. \E k \in 1 .. Len(segments) : segments[k] = s
    BY <1>7, <1>9 DEF ToSet
  <2>2. t \in ToSet(segments) /\ t.pid = p /\ t.id = id
    BY <1>2, <1>7, <1>9, <2>1, Found, SegmentsSized DEF ToSet
  <2> QED BY <1>9, <2>2 DEF Places, OneListed
<1> QED BY <1>2, <1>4, <1>5, <1>6, <1>8, <1>9, <1>10, WriteContents

-----------------------------------------------------------------------------
(* Bytes that go to swap, and come back.                                   *)

\* suspend_segment copies every byte of a segment to its place in its block.
LEMMA CopyReads ==
  ASSUME StoreInv, NEW s \in ToSet(segments), NEW o \in Nat, o < s.size, NEW w,
         Lies(sticks, s.base + o, w)
  PROVE  suspend_segment(s)[(o \div BLOCK_SIZE) + 1].bytes[(o % BLOCK_SIZE) + 1] = w
<1>1. s.size \in Sizes
  <2>1. segments \in Seq(Segment)
    BY DEF StoreInv, MemoryInv, KMTypeOK
  <2> QED BY <2>1, SegmentsSized, SegmentFacts DEF ToSet
<1>2. PICK size \in Sizes : size = s.size
  BY <1>1
<1>3. PICK x \in Nat : x = s.base
  BY SegmentBytes
<1>4. PICK k \in Nat : k = o \div BLOCK_SIZE
  BY <1>2, PartOf
<1>5. PICK r \in Nat : r = o % BLOCK_SIZE
  BY <1>2, PartOf
<1>6. PICK m \in Nat : m = k * BLOCK_SIZE /\ o = m + r
  BY <1>2, <1>4, <1>5, PartOf
<1>7. PICK len \in Nat : len = BlockBytes(size, k) /\ r + 1 \in 1 .. len /\ len <= BLOCK_SIZE
  BY <1>2, <1>4, <1>5, PartOf, BlockBytesFacts
<1>8. k + 1 \in 1 .. BlockCount(size) /\ (k + 1) - 1 = k
  BY <1>2, <1>4, PartOf
<1>9. PICK sum \in Nat : /\ sum = RunningSum(StickLengths(sticks))[Len(sticks)]
                         /\ x + size <= sum /\ sticks \in Seq(Seq(Byte))
  BY <1>2, <1>3, SegmentBytes DEF Spread
<1>10. PICK b \in Nat : b = x + m
  OBVIOUS
<1>11. PICK a \in Nat : a = x + o /\ a = b + (r + 1) - 1 /\ a < sum
  <2>1. size \in Nat /\ o < size
    BY <1>2, KernelMemoryAssumption
  <2>2. x + o \in Nat /\ x + o = b + (r + 1) - 1
    BY <1>6, <1>10
  <2>3. x + o < sum
    BY <1>9, <2>1
  <2> QED BY <2>2, <2>3
<1>12. read_from_sticks(sticks, b, len)[r + 1] = w
  BY <1>3, <1>7, <1>9, <1>11, ReadsBack
<1>13. Len(read_from_sticks(sticks, b, len)) = len
  <2>1. read_from_sticks(sticks, b, len) \in
          [1 .. len -> {read_from_sticks(sticks, b, len)[i] : i \in 1 .. len}]
    BY DEF read_from_sticks
  <2> QED BY <2>1, FunctionIsList
<1>14. Padded(read_from_sticks(sticks, b, len))[r + 1] = w
  <2>1. r + 1 \in 1 .. BLOCK_SIZE /\ r + 1 <= len
    BY <1>7, KernelMemoryAssumption
  <2> QED BY <1>12, <1>13, <2>1 DEF Padded
<1>15. suspend_segment(s)[k + 1].bytes = Padded(read_from_sticks(sticks, b, len))
  <2>1. s.base + ((k + 1) - 1) * BLOCK_SIZE = b
    BY <1>3, <1>6, <1>8, <1>10
  <2>2. BlockBytes(s.size, (k + 1) - 1) = len
    BY <1>2, <1>7, <1>8
  <2>3. k + 1 \in 1 .. BlockCount(s.size)
    BY <1>2, <1>8
  <2> QED BY <2>1, <2>2, <2>3 DEF suspend_segment
<1> QED BY <1>4, <1>5, <1>14, <1>15

\* A suspension that fits puts every byte of the process in swap as well.
LEMMA SuspendContents ==
  ASSUME StoreInv, Places, Contents, NEW p \in Pid, suspend_process(p), job' # Idle
  PROVE  Contents'
<1> DEFINE mine == filter_process_segments(segments, p)
           f == Ends(mine)
<1>0. /\ segments \in Seq(Segment) /\ IsInjective(segments) /\ MemoryInv
      /\ OneListed(segments)
  BY DEF StoreInv, MemoryInv, KMTypeOK, Tables, Partition, Places
<1>1. /\ job = Idle /\ status[p] = "resident"
      /\ UNCHANGED <<segments, sticks, status, owned, written>>
      /\ SuspensionComplete(Free, WantedOf(p))
      /\ job' = Removing(p, IdsOf(mine), "suspended")
  BY <1>0, SuspendSteps DEF tableVars, stickVars, ghostVars
<1>2. /\ \A q : ~GoesToSwap(q) /\ (GoesToSwap(q)' <=> q = p)
  BY <1>1 DEF GoesToSwap, Leaving, Idle, Removing
<1>3. \A b \in Block : block_list[b].pid # p
  <2>1. BlocksOf(block_list, p) = {}
    BY <1>1 DEF Places, InPlace, Settled, Leaving, Idle
  <2> QED BY <2>1 DEF BlocksOf
<1>4. /\ mine \in Seq(Segment) /\ Len(mine) \in Nat
      /\ \A i \in 1 .. Len(mine) : /\ mine[i] \in ToSet(segments) /\ mine[i].pid = p
                                   /\ mine[i].id \in SegId /\ mine[i].size \in Sizes
      /\ \A i, j \in 1 .. Len(mine) : mine[i].id = mine[j].id => i = j
      /\ \A s \in ToSet(segments) : s.pid = p => \E i \in 1 .. Len(mine) : mine[i] = s
  <2>1. /\ mine \in Seq(Segment) /\ ToSet(mine) \subseteq ToSet(segments)
        /\ \A i \in 1 .. Len(mine) : mine[i].pid = p
        /\ \A i \in 1 .. Len(segments) : segments[i].pid = p
             => \E k \in 1 .. Len(mine) : mine[k] = segments[i]
    BY <1>0, MineFacts
  <2>2. \A i, j \in 1 .. Len(mine) : mine[i].id = mine[j].id => i = j
    BY <1>0, MineIds
  <2> HIDE DEF mine
  <2>3. /\ Len(mine) \in Nat /\ DOMAIN mine = 1 .. Len(mine)
        /\ DOMAIN segments = 1 .. Len(segments)
        /\ \A i \in 1 .. Len(mine) : mine[i].id \in SegId /\ mine[i].size \in Sizes
    BY <1>0, <2>1, SegmentsSized, SegmentFacts
  <2>4. \A i \in 1 .. Len(mine) : mine[i] \in ToSet(segments)
    BY <2>1, <2>3 DEF ToSet
  <2>5. ASSUME NEW s \in ToSet(segments), s.pid = p PROVE \E i \in 1 .. Len(mine) : mine[i] = s
    <3>1. PICK j \in 1 .. Len(segments) : segments[j] = s
      BY <2>3 DEF ToSet
    <3> QED BY <2>1, <2>5, <3>1
  <2> QED BY <2>1, <2>2, <2>3, <2>4, <2>5
<1>5. \A b \in CopiedFor(p) :
        /\ b \in Block /\ b \in Free
        /\ \E i \in 1 .. Len(mine) : \E k \in 1 .. BlockCount(mine[i].size) :
             /\ Turn(Free, b) = f[i - 1] + k
             /\ block_list'[b] = Entry(p, mine[i].id, k - 1, mine[i].size)
  BY <1>0, CopyAt
<1>6. \A i \in 1 .. Len(mine) : \A k \in 1 .. BlockCount(mine[i].size) :
        \E b \in CopiedFor(p) :
          /\ block_list'[b] = Entry(p, mine[i].id, k - 1, mine[i].size)
          /\ disk'[b] = suspend_segment(mine[i])[k].bytes
  BY <1>0, <1>1, CopyAt
<1>7. \A b \in Block : b \notin CopiedFor(p) =>
        block_list'[b] = block_list[b] /\ disk'[b] = disk[b]
  BY <1>0, SuspendSteps
<1> HIDE DEF mine, f
<1>8. ASSUME NEW b \in CopiedFor(p)
      PROVE  \E i \in 1 .. Len(mine) : \E k \in 1 .. BlockCount(mine[i].size) :
               /\ k \in Nat /\ Turn(Free, b) = f[i - 1] + k
               /\ block_list'[b].pid = p /\ block_list'[b].segment_number = mine[i].id
               /\ block_list'[b].segment_block_number = k - 1
               /\ block_list'[b].segment_size = mine[i].size
  <2>1. PICK i \in 1 .. Len(mine) : \E k \in 1 .. BlockCount(mine[i].size) :
          /\ Turn(Free, b) = f[i - 1] + k
          /\ block_list'[b] = Entry(p, mine[i].id, k - 1, mine[i].size)
    BY <1>5
  <2>2. PICK k \in 1 .. BlockCount(mine[i].size) :
          /\ Turn(Free, b) = f[i - 1] + k
          /\ block_list'[b] = Entry(p, mine[i].id, k - 1, mine[i].size)
    BY <2>1
  <2>3. k \in Nat
    BY <1>4, BlockCountFacts
  <2> QED BY <2>2, <2>3 DEF Entry
<1>9. \A b \in CopiedFor(p) : block_list[b].pid = -1 /\ -1 \notin Pid
  BY <1>5, KernelMemoryAssumption DEF Free, FreeBlock
<1>10. BlocksAgree(segments, block_list)
  BY DEF Contents
<1>11. ASSUME NEW b \in Block, block_list'[b].pid \in Pid
       PROVE  block_list'[b].segment_block_number * BLOCK_SIZE < block_list'[b].segment_size
  <2>1. CASE b \in CopiedFor(p)
    <3>1. PICK i \in 1 .. Len(mine) : \E k \in 1 .. BlockCount(mine[i].size) :
               /\ block_list'[b].segment_block_number = k - 1
               /\ block_list'[b].segment_size = mine[i].size
      BY <1>8, <2>1
    <3>2. mine[i].size \in Sizes
      BY <1>4
    <3> QED BY <3>1, <3>2, PartStarts
  <2>2. CASE b \notin CopiedFor(p)
    BY <1>7, <1>10, <1>11, <2>2 DEF BlocksAgree
  <2> QED BY <2>1, <2>2
<1>12. ASSUME NEW b \in Block, NEW c \in Block, block_list'[b].pid \in Pid,
              block_list'[b].pid = block_list'[c].pid,
              block_list'[b].segment_number = block_list'[c].segment_number
       PROVE  /\ block_list'[b].segment_size = block_list'[c].segment_size
              /\ block_list'[b].segment_block_number = block_list'[c].segment_block_number
                   => b = c
  <2>1. CASE b \in CopiedFor(p) /\ c \in CopiedFor(p)
    <3>1. PICK i \in 1 .. Len(mine) : \E k \in 1 .. BlockCount(mine[i].size) :
             /\ k \in Nat /\ Turn(Free, b) = f[i - 1] + k
             /\ block_list'[b].pid = p /\ block_list'[b].segment_number = mine[i].id
             /\ block_list'[b].segment_block_number = k - 1
             /\ block_list'[b].segment_size = mine[i].size
      BY <1>8, <2>1
    <3>2. PICK j \in 1 .. Len(mine) : \E k \in 1 .. BlockCount(mine[j].size) :
             /\ k \in Nat /\ Turn(Free, c) = f[j - 1] + k
             /\ block_list'[c].pid = p /\ block_list'[c].segment_number = mine[j].id
             /\ block_list'[c].segment_block_number = k - 1
             /\ block_list'[c].segment_size = mine[j].size
      BY <1>8, <2>1
    <3>3. i = j
      BY <1>4, <1>12, <3>1, <3>2
    <3>4. PICK k \in Nat : Turn(Free, b) = f[i - 1] + k
                           /\ block_list'[b].segment_block_number = k - 1
      BY <3>1
    <3>5. PICK l \in Nat : Turn(Free, c) = f[i - 1] + l
                           /\ block_list'[c].segment_block_number = l - 1
      BY <3>2, <3>3
    <3>6. ASSUME block_list'[b].segment_block_number = block_list'[c].segment_block_number
          PROVE  b = c
      <4>1. k - 1 = l - 1
        BY <3>4, <3>5, <3>6
      <4>2. k = l
        BY <4>1
      <4>3. Turn(Free, b) = Turn(Free, c)
        BY <3>4, <3>5, <4>2
      <4>4. Free \in SUBSET Block
        BY DEF Free
      <4> QED BY <1>5, <2>1, <4>3, <4>4, TurnOnce
    <3> QED BY <3>1, <3>2, <3>3, <3>6
  <2>2. CASE b \notin CopiedFor(p) /\ c \notin CopiedFor(p)
    <3>1. block_list'[b] = block_list[b] /\ block_list'[c] = block_list[c]
      BY <1>7, <2>2
    <3> QED BY <1>10, <1>12, <3>1 DEF BlocksAgree
  <2>3. ASSUME NEW x \in Block, NEW y \in Block, x \in CopiedFor(p), y \notin CopiedFor(p),
               block_list'[x].pid = block_list'[y].pid
        PROVE  FALSE
    <3>1. block_list'[x].pid = p
      BY <1>8, <2>3
    <3>2. block_list[y].pid = p
      BY <1>7, <2>3, <3>1
    <3> QED BY <1>3, <3>2
  <2> QED BY <1>12, <2>1, <2>2, <2>3
<1>13. ASSUME NEW b \in Block, NEW s \in ToSet(segments), s.pid = block_list'[b].pid,
              s.id = block_list'[b].segment_number
       PROVE  s.size = block_list'[b].segment_size
  <2>1. CASE b \in CopiedFor(p)
    <3>1. PICK i \in 1 .. Len(mine) :
             /\ block_list'[b].pid = p /\ block_list'[b].segment_number = mine[i].id
             /\ block_list'[b].segment_size = mine[i].size
      BY <1>8, <2>1
    <3>2. s = mine[i]
      <4>1. mine[i] \in ToSet(segments) /\ mine[i].pid = p
        BY <1>4
      <4> QED BY <1>0, <1>13, <3>1, <4>1 DEF OneListed
    <3> QED BY <3>1, <3>2
  <2>2. CASE b \notin CopiedFor(p)
    <3>1. block_list'[b] = block_list[b]
      BY <1>7, <2>2
    <3> QED BY <1>10, <1>13, <3>1 DEF BlocksAgree
  <2> QED BY <2>1, <2>2
<1>14. BlocksAgree(segments', block_list')
  BY <1>1, <1>11, <1>12, <1>13 DEF BlocksAgree
<1>15. ASSUME NEW w \in written PROVE Kept(w)'
  <2>1. Kept(w) /\ w[1] \in Pid /\ w[2] \in owned[w[1]] /\ w[3] \in Nat
    BY WrittenFacts DEF Contents, Kept
  <2>2. CASE w[1] = p
    <3>1. InTable(segments, sticks, w)
      BY <1>1, <1>2, <2>1, <2>2 DEF Kept
    <3>2. PICK s \in ToSet(segments) : /\ s.pid = w[1] /\ s.id = w[2] /\ w[3] < s.size
                                       /\ Lies(sticks, s.base + w[3], w)
      BY <3>1 DEF InTable
    <3>3. PICK i \in 1 .. Len(mine) : mine[i] = s
      BY <1>4, <2>2, <3>2
    <3>4. s.size \in Sizes
      BY <1>4, <3>3
    <3>5. PICK k \in Nat : k = w[3] \div BLOCK_SIZE /\ k + 1 \in 1 .. BlockCount(s.size)
      BY <2>1, <3>2, <3>4, PartOf
    <3>6. PICK b \in CopiedFor(p) :
            /\ block_list'[b] = Entry(p, s.id, (k + 1) - 1, s.size)
            /\ disk'[b] = suspend_segment(s)[k + 1].bytes
      BY <1>6, <3>3, <3>5
    <3>7. (k + 1) - 1 = k
      OBVIOUS
    <3>8. Part(block_list', b, w) /\ w[3] < block_list'[b].segment_size /\ b \in Block
      BY <1>5, <2>2, <3>2, <3>5, <3>6, <3>7 DEF Part, Entry
    <3>9. disk'[b][(w[3] % BLOCK_SIZE) + 1] = w
      BY <2>1, <3>2, <3>5, <3>6, CopyReads
    <3>10. OnDisk(block_list', disk', w)
      BY <3>8, <3>9 DEF OnDisk
    <3> QED BY <1>1, <1>2, <2>1, <2>2, <3>10 DEF Kept
  <2>3. CASE w[1] # p
    <3>1. \A b \in CopiedFor(p) : ~Part(block_list, b, w) /\ ~Part(block_list', b, w)
      BY <1>8, <1>9, <2>1, <2>3 DEF Part
    <3>2. OnDisk(block_list, disk, w) => OnDisk(block_list', disk', w)
      BY <1>7, <3>1 DEF OnDisk, Part
    <3>3. (\A b \in Block : ~Part(block_list, b, w)) => (\A b \in Block : ~Part(block_list', b, w))
      BY <1>7, <3>1 DEF Part
    <3> QED BY <1>1, <1>2, <2>1, <2>3, <3>2, <3>3, StaysKept
  <2> QED BY <2>2, <2>3
<1> QED BY <1>1, <1>14, <1>15 DEF Contents

\* What resume_block does when it restores a block: b is the block, k its number
\* in the segment, target the segment that receives it.
Restores(b, p, id, size, k, target) ==
  /\ block_list[b].pid = p /\ block_list[b].segment_number = id
  /\ block_list[b].segment_size = size /\ block_list[b].segment_block_number = k
  /\ status[p] = "suspended"
  /\ \/ segments' = segments
     \/ \E x \in Segment : /\ x.pid = p /\ x.id = id /\ x.size = size
                           /\ segments' = Append(segments, x)
  /\ target = find_segment(segments', p, id) /\ target # NoSegment
  /\ sticks' = write_to_sticks(sticks, target.base + k * BLOCK_SIZE,
                               SubSeq(disk[b], 1, BlockBytes(size, k)))
  /\ block_list' = [block_list EXCEPT ![b] = FreeBlock]

\* Either nothing but the request changes, or a block is restored.
LEMMA ResumeBlockDoes ==
  ASSUME StoreInv, resume_block, job' # Crashed
  PROVE  /\ UNCHANGED <<disk, owned, status, written, total_size>>
         /\ \A q : ~Leaving(q) /\ ~(Leaving(q)')
         /\ \/ UNCHANGED <<segments, sticks, block_list>>
            \/ \E b \in Block, p \in Pid, id \in SegId, size \in Sizes, k \in Nat :
                 \E target : Restores(b, p, id, size, k, target)
<1>0. /\ segments \in Seq(Segment) /\ holes \in Seq(Hole) /\ MemoryInv /\ job \in Request
      /\ block_list \in [Block -> BlockData \cup {FreeBlock}]
  BY DEF StoreInv, MemoryInv, KMTypeOK
<1>1. /\ job.kind = "resume" /\ BlocksLeft # {}
      /\ UNCHANGED <<disk, owned, status, written, total_size>>
  BY DEF resume_block, ghostVars
<1>2. PICK b \in Block : /\ b = Min(BlocksLeft) /\ block_list[b].pid = job.pid
                         /\ block_list[b].segment_number \in SegId
                         /\ block_list[b].segment_size \in Sizes
                         /\ block_list[b].segment_block_number \in Nat
  BY <1>0, <1>1, NextBlock
<1>3. PICK p \in Pid : p = job.pid
  BY <1>0, <1>1, RequestFacts
<1>4. PICK id \in SegId : id = block_list[b].segment_number
  BY <1>2
<1>5. PICK size \in Sizes : size = block_list[b].segment_size
  BY <1>2
<1>6. PICK k \in Nat : k = block_list[b].segment_block_number
  BY <1>2
<1>7. status[p] = "suspended"
  BY <1>1, <1>3 DEF StoreInv, ListenerInv
<1> DEFINE first == k = 0
           chosen == hole_selection_algorithm(size, holes)
           x == [pid |-> p, size |-> size, id |-> id, base |-> chosen.base]
           segs == IF first THEN Append(segments, x) ELSE segments
           target == find_segment(segs, p, id)
<1>8. \/ job' = Idle /\ UNCHANGED <<segments, sticks, block_list>>
      \/ /\ first => chosen # NoHole
         /\ segments' = segs /\ target # NoSegment
         /\ sticks' = write_to_sticks(sticks, target.base + k * BLOCK_SIZE,
                                      SubSeq(disk[b], 1, BlockBytes(size, k)))
         /\ block_list' = [block_list EXCEPT ![b] = FreeBlock]
         /\ job' = [job EXCEPT !.at = b + 1]
  BY <1>2, <1>3, <1>4, <1>5, <1>6 DEF resume_block
<1>9. job'.kind # "remove" /\ job.kind # "remove"
  <2>1. job \in [kind : {"resume"}, pid : Pid, at : 0 .. BLOCKS]
    BY <1>0, <1>1, RequestFacts
  <2>2. CASE job' = Idle
    BY <1>1, <2>2 DEF Idle
  <2>3. CASE job' = [job EXCEPT !.at = b + 1]
    BY <2>1, <2>3
  <2> HIDE DEF first, chosen, segs, target
  <2> QED BY <1>8, <2>2, <2>3
<1>10. \A q : ~Leaving(q) /\ ~(Leaving(q)')
  BY <1>9 DEF Leaving
<1>11. CASE UNCHANGED <<segments, sticks, block_list>>
  BY <1>1, <1>10, <1>11
<1>12. CASE /\ first => chosen # NoHole
            /\ segments' = segs /\ target # NoSegment
            /\ sticks' = write_to_sticks(sticks, target.base + k * BLOCK_SIZE,
                                         SubSeq(disk[b], 1, BlockBytes(size, k)))
            /\ block_list' = [block_list EXCEPT ![b] = FreeBlock]
  <2>1. \/ segments' = segments
        \/ \E y \in Segment : /\ y.pid = p /\ y.id = id /\ y.size = size
                              /\ segments' = Append(segments, y)
    <3>1. CASE first
      <4>1. PICK y : y = [pid |-> p, id |-> id, base |-> chosen.base, size |-> size]
        OBVIOUS
      <4>2. y \in Segment
        BY <1>0, <1>12, <3>1, <4>1, SegmentMade
      <4>3. y = x
        BY <4>1
      <4>4. y.pid = p /\ y.id = id /\ y.size = size
        BY <4>1
      <4>5. segments' = Append(segments, y)
        BY <1>12, <3>1, <4>3
      <4> QED BY <4>2, <4>4, <4>5
    <3>2. CASE ~first
      BY <1>12, <3>2
    <3> QED BY <3>1, <3>2
  <2> HIDE DEF first, chosen, x, segs
  <2>2. PICK t : t = target
    OBVIOUS
  <2>3. t = find_segment(segments', p, id) /\ t # NoSegment
    BY <1>12, <2>2
  <2> HIDE DEF target
  <2>4. Restores(b, p, id, size, k, t)
    BY <1>2, <1>3, <1>4, <1>5, <1>6, <1>7, <1>12, <2>1, <2>2, <2>3 DEF Restores
  <2> QED BY <1>1, <1>10, <2>4
<1> HIDE DEF first, chosen, x, segs, target
<1> QED BY <1>8, <1>11, <1>12

\* bytes are the first len bytes of block d.
StartOf(bytes, d, len) ==
  /\ len \in Nat \ {0} /\ len <= BLOCK_SIZE /\ bytes \in Seq(Byte) /\ Len(bytes) = len
  /\ \A i \in 1 .. len : bytes[i] = d[i]

\* The bytes of a block on disk, without the padding.
LEMMA BlockOnDisk ==
  ASSUME StoreInv, NEW b \in Block, NEW size \in Sizes, NEW k \in Nat, k * BLOCK_SIZE < size,
         NEW bytes, bytes = SubSeq(disk[b], 1, BlockBytes(size, k))
  PROVE  StartOf(bytes, disk[b], BlockBytes(size, k))
<1>1. BLOCK_SIZE \in Nat \ {0} /\ size \in Nat
  BY KernelMemoryAssumption
<1>2. PICK m \in Nat : m = k * BLOCK_SIZE
  BY <1>1
<1>3. PICK z \in Int : z = size - m
  BY <1>1
<1>4. BlockBytes(size, k) \in {z, BLOCK_SIZE} /\ BlockBytes(size, k) <= BLOCK_SIZE
  BY <1>1, <1>2, <1>3, MinOneOf, BlockBytesFacts DEF BlockBytes
<1>5. z > 0
  BY <1>1, <1>2, <1>3
<1>6. PICK len \in Nat \ {0} : len = BlockBytes(size, k) /\ len <= BLOCK_SIZE
  BY <1>1, <1>3, <1>4, <1>5
<1>7. disk[b] \in [1 .. BLOCK_SIZE -> Byte]
  BY DEF StoreInv, MemoryInv, KMTypeOK
<1>8. disk[b] \in Seq(Byte) /\ Len(disk[b]) = BLOCK_SIZE
  BY <1>1, <1>7, FunctionIsList
<1>9. PICK d \in Seq(Byte) : d = disk[b] /\ Len(d) = BLOCK_SIZE
  BY <1>8
<1>10. bytes \in Seq(Byte) /\ Len(bytes) = len /\ \A i \in 1 .. len : bytes[i] = d[i]
  <2>1. bytes = SubSeq(d, 1, len)
    BY <1>6, <1>9
  <2>2. len \in Nat /\ len <= Len(d) /\ 1 <= len /\ 1 \in Int /\ len \in Int
    BY <1>6, <1>9
  <2>3. \A i \in 1 .. len : d[i] \in Byte
    BY <1>9, <2>2
  <2>4. PICK one \in Int : one = 1
    OBVIOUS
  <2>6. \A i \in one .. len : d[i] \in Byte
    BY <2>3, <2>4
  <2>7. /\ SubSeq(d, one, len) \in Seq(Byte)
        /\ Len(SubSeq(d, one, len)) = IF one <= len THEN len - one + 1 ELSE 0
        /\ \A i \in 1 .. len - one + 1 : SubSeq(d, one, len)[i] = d[one + i - 1]
    BY <2>2, <2>6, SubSeqProperties
  <2>5. len - 1 + 1 = len /\ \A i \in 1 .. len : 1 + i - 1 = i
    BY <2>2
  <2>8. bytes \in Seq(Byte) /\ Len(bytes) = len
    BY <2>1, <2>2, <2>4, <2>5, <2>7
  <2>9. \A i \in 1 .. len : bytes[i] = d[i]
    <3> TAKE i \in 1 .. len
    <3>1. i \in 1 .. len - one + 1 /\ one + i - 1 = i
      BY <2>2, <2>4, <2>5
    <3> QED BY <2>1, <2>4, <2>7, <3>1
  <2> QED BY <2>8, <2>9
<1> QED BY <1>6, <1>9, <1>10 DEF StartOf

\* The blocks still agree with the table when the segment of block b is listed.
LEMMA ListedAgree ==
  ASSUME BlocksAgree(segments, block_list), NEW b \in Block, NEW p \in Pid,
         block_list[b].pid = p, NEW x \in Segment, x.pid = p,
         x.id = block_list[b].segment_number, x.size = block_list[b].segment_size,
         segments \in Seq(Segment)
  PROVE  BlocksAgree(Append(segments, x), block_list)
<1>1. ToSet(Append(segments, x)) = ToSet(segments) \cup {x}
  BY SegmentsSized, SegmentFacts, Appended
<1> QED BY <1>1 DEF BlocksAgree

\* The blocks still agree when one of them is freed.
LEMMA FreedAgree ==
  ASSUME NEW segs \in Seq(Segment), BlocksAgree(segs, block_list), NEW b \in Block,
         block_list \in [Block -> BlockData \cup {FreeBlock}],
         block_list' = [block_list EXCEPT ![b] = FreeBlock]
  PROVE  BlocksAgree(segs, block_list')
<1>1. -1 \notin Pid /\ block_list'[b].pid = -1
  BY KernelMemoryAssumption DEF FreeBlock
<1>2. \A c \in Block : c # b => block_list'[c] = block_list[c]
  OBVIOUS
<1>3. \A s \in ToSet(segs) : s.pid \in Pid
  BY SegmentsSized, SegmentFacts DEF ToSet
<1>4. \A c \in Block : block_list'[c].pid \in Pid => c # b /\ block_list'[c] = block_list[c]
  BY <1>1, <1>2
<1> QED BY <1>3, <1>4 DEF BlocksAgree

\* A block goes back to its segment and leaves the other bytes alone.
LEMMA ResumeBlockContents ==
  ASSUME StoreInv, Places, Contents, resume_block, job' # Crashed, Positional'
  PROVE  Contents'
<1>0. /\ segments \in Seq(Segment) /\ MemoryInv /\ Places' /\ Tables'
      /\ block_list \in [Block -> BlockData \cup {FreeBlock}]
      /\ BlocksAgree(segments, block_list)
  BY ResumeBlockPlaces, ResumeTables DEF StoreInv, MemoryInv, KMTypeOK, Contents
<1>1. /\ UNCHANGED <<disk, owned, status, written, total_size>>
      /\ \A q : ~Leaving(q) /\ ~(Leaving(q)')
  BY ResumeBlockDoes
<1>2. \A q : ~GoesToSwap(q) /\ ~GoesToSwap(q)'
  BY <1>1 DEF GoesToSwap
<1>3. CASE UNCHANGED <<segments, sticks, block_list>>
  BY <1>1, <1>2, <1>3, QuietContents
<1>4. ASSUME NEW b \in Block, NEW p \in Pid, NEW id \in SegId, NEW size \in Sizes, NEW k \in Nat,
             NEW target, Restores(b, p, id, size, k, target)
      PROVE  Contents'
  <2> DEFINE bytes == SubSeq(disk[b], 1, BlockBytes(size, k))
             len == BlockBytes(size, k)
             off == k * BLOCK_SIZE
  <2>1. /\ block_list[b].pid = p /\ block_list[b].segment_number = id
        /\ block_list[b].segment_size = size /\ block_list[b].segment_block_number = k
        /\ status[p] = "suspended"
        /\ sticks' = write_to_sticks(sticks, target.base + off, bytes)
        /\ block_list' = [block_list EXCEPT ![b] = FreeBlock]
        /\ target = find_segment(segments', p, id) /\ target # NoSegment
    BY <1>4 DEF Restores
  <2>2. /\ segments' \in Seq(Segment) /\ ToSet(segments) \subseteq ToSet(segments')
        /\ BlocksAgree(segments', block_list)
    <3>1. CASE segments' = segments
      BY <1>0, <3>1
    <3>2. ASSUME NEW x \in Segment, x.pid = p, x.id = id, x.size = size,
                 segments' = Append(segments, x)
          PROVE  /\ segments' \in Seq(Segment) /\ ToSet(segments) \subseteq ToSet(segments')
                 /\ BlocksAgree(segments', block_list)
      <4>1. Append(segments, x) \in Seq(Segment)
        BY <1>0
      <4>2. ToSet(Append(segments, x)) = ToSet(segments) \cup {x}
        BY <1>0, SegmentsSized, SegmentFacts, Appended
      <4>3. BlocksAgree(Append(segments, x), block_list)
        BY <1>0, <2>1, <3>2, ListedAgree
      <4> QED BY <3>2, <4>1, <4>2, <4>3
    <3> QED BY <1>4, <3>1, <3>2 DEF Restores
  <2>3. BlocksAgree(segments', block_list')
    BY <1>0, <2>1, <2>2, FreedAgree
  <2>4. target \in ToSet(segments') /\ target.pid = p
    BY <2>1, <2>2, PositionFinds
  <2>5. target.id = id
    BY <1>1, <2>1 DEF Positional
  <2>6. target.size = size
    BY <2>1, <2>2, <2>4, <2>5 DEF BlocksAgree
  <2>7. off < size
    BY <1>0, <2>1 DEF BlocksAgree
  <2>8. /\ len \in Nat \ {0} /\ len <= BLOCK_SIZE /\ bytes \in Seq(Byte) /\ Len(bytes) = len
        /\ \A i \in 1 .. len : bytes[i] = disk[b][i]
    <3>1. PICK bs : bs = bytes
      OBVIOUS
    <3>2. bs = SubSeq(disk[b], 1, BlockBytes(size, k)) /\ k * BLOCK_SIZE < size
      BY <2>7, <3>1
    <3> HIDE DEF bytes
    <3> HIDE DEF len, off
    <3>3. StartOf(bs, disk[b], BlockBytes(size, k))
      BY <3>2, BlockOnDisk
    <3>4. StartOf(bytes, disk[b], len)
      BY <3>1, <3>3 DEF len
    <3> QED BY <3>4 DEF StartOf
  <2>9. off \in Nat /\ off + len <= size
    BY BlockBytesFacts
  <2>10. PICK sum \in Nat : /\ sum = RunningSum(StickLengths(sticks))[Len(sticks)]
                            /\ total_size \in Nat /\ total_size <= sum
                            /\ sticks \in Seq(Seq(Byte))
    BY SegmentBytes
  <2>11. PICK S : S = ToSet(segments')
    OBVIOUS
  <2>12. Spread(S, sum)
    BY <1>0, <1>1, <2>10, <2>11, SpreadFrom DEF Tables
  <2> HIDE DEF bytes, len, off
  <2>13. OnlyInside(S, target, off, bytes, sticks, sticks')
    <3>1. PICK after : after = sticks'
      OBVIOUS
    <3>2. PICK address : address = target.base + off
      OBVIOUS
    <3>3. PICK l \in Nat : l = len /\ l = Len(bytes) /\ l > 0 /\ off + l <= target.size
      BY <2>6, <2>8, <2>9
    <3>4. after = write_to_sticks(sticks, address, bytes) /\ target \in S
      BY <2>1, <2>4, <2>11, <3>1, <3>2
    <3>5. PICK st \in Seq(Seq(Byte)) : st = sticks
      BY <2>10
    <3>6. OnlyInside(S, target, off, bytes, st, after)
      BY <2>8, <2>9, <2>10, <2>12, <3>2, <3>3, <3>4, <3>5, WriteInside
    <3> QED BY <3>1, <3>5, <3>6
  <2>14. -1 \notin Pid /\ block_list'[b].pid = -1 /\ \A c \in Block : c # b => block_list'[c] = block_list[c]
    BY <1>0, <2>1, KernelMemoryAssumption DEF FreeBlock
  <2>15. ASSUME NEW w \in written PROVE Kept(w)'
    <3>1. /\ Kept(w) /\ w[1] \in Pid /\ w[2] \in owned[w[1]] /\ w[3] \in Nat
      BY WrittenFacts DEF Contents, Kept
    <3>2. ASSUME InTable(segments, sticks, w),
                 w[1] # p \/ w[2] # id \/ w[3] \div BLOCK_SIZE # k
          PROVE  InTable(segments', sticks', w)
      <4>1. PICK t \in ToSet(segments) : /\ t.pid = w[1] /\ t.id = w[2] /\ w[3] < t.size
                                         /\ Lies(sticks, t.base + w[3], w)
        BY <3>2 DEF InTable
      <4>2. t \in S
        BY <2>2, <2>11, <4>1
      <4>3. ASSUME t = target PROVE w[3] < off \/ w[3] >= off + Len(bytes)
        <5>1. w[3] \div BLOCK_SIZE # k
          BY <2>4, <2>5, <3>2, <4>1, <4>3
        <5>2. PICK o \in Nat : o = w[3]
          BY <3>1
        <5>3. PICK l \in Nat : l = len /\ l <= BLOCK_SIZE /\ l = Len(bytes)
          BY <2>8
        <5>4. o < k * BLOCK_SIZE \/ o >= k * BLOCK_SIZE + l
          BY <5>1, <5>2, <5>3, OtherPart
        <5> QED BY <5>2, <5>3, <5>4 DEF off
      <4>4. Lies(sticks', t.base + w[3], w)
        BY <2>13, <3>1, <4>1, <4>2, <4>3 DEF OnlyInside
      <4> QED BY <2>11, <4>1, <4>2, <4>4 DEF InTable
    <3>3. \A c \in Block : Part(block_list', c, w) => c # b /\ Part(block_list, c, w)
      BY <2>14, <3>1 DEF Part
    <3>4. CASE status[w[1]] # "suspended"
      <4>1. w[1] # p /\ InTable(segments, sticks, w)
        BY <1>2, <2>1, <3>1, <3>4 DEF Kept
      <4>2. InTable(segments', sticks', w)
        BY <3>2, <4>1
      <4> QED BY <1>1, <1>2, <3>1, <3>4, <4>2 DEF Kept
    <3>5. CASE status[w[1]] = "suspended" /\ Restored(segments, sticks, block_list, w)
      <4>1. InTable(segments, sticks, w) /\ ~Part(block_list, b, w)
        BY <3>5 DEF Restored
      <4>2. w[1] # p \/ w[2] # id \/ w[3] \div BLOCK_SIZE # k
        BY <2>1, <4>1 DEF Part
      <4>3. InTable(segments', sticks', w)
        BY <3>2, <4>1, <4>2
      <4>4. Restored(segments', sticks', block_list', w)
        BY <3>3, <3>5, <4>3 DEF Restored
      <4> QED BY <1>1, <1>2, <3>1, <3>5, <4>4 DEF Kept
    <3>6. CASE status[w[1]] = "suspended" /\ OnDisk(block_list, disk, w)
      <4>1. PICK c \in Block : /\ Part(block_list, c, w) /\ w[3] < block_list[c].segment_size
                               /\ disk[c][(w[3] % BLOCK_SIZE) + 1] = w
        BY <3>6 DEF OnDisk
      <4>2. CASE c # b
        <5>1. OnDisk(block_list', disk', w)
          BY <1>1, <2>14, <4>1, <4>2 DEF OnDisk, Part
        <5> QED BY <1>1, <1>2, <3>1, <3>6, <5>1 DEF Kept
      <4>3. CASE c = b
        <5>1. w[1] = p /\ w[2] = id /\ w[3] \div BLOCK_SIZE = k /\ w[3] < size
          BY <2>1, <4>1, <4>3 DEF Part
        <5>2. PICK r \in Nat : /\ r = w[3] % BLOCK_SIZE /\ r + 1 \in 1 .. len
                               /\ w[3] = off + r
          BY <3>1, <5>1, PartOf DEF off, len
        <5>3. bytes[r + 1] = w
          BY <2>8, <4>1, <4>3, <5>2
        <5>4. off + (r + 1) - 1 = w[3]
          BY <2>9, <5>2
        <5>5. Lies(sticks', target.base + w[3], w)
          BY <2>8, <2>13, <5>2, <5>3, <5>4 DEF OnlyInside
        <5>6. InTable(segments', sticks', w)
          BY <2>4, <2>5, <2>6, <5>1, <5>5 DEF InTable
        <5>7. ASSUME NEW e \in Block, Part(block_list', e, w) PROVE FALSE
          <6>1. e # b /\ Part(block_list, e, w)
            BY <3>3, <5>7
          <6>2. /\ block_list[e].pid = block_list[b].pid
                /\ block_list[e].segment_number = block_list[b].segment_number
                /\ block_list[e].segment_block_number = block_list[b].segment_block_number
                /\ block_list[e].pid \in Pid
            BY <2>1, <5>1, <6>1 DEF Part
          <6> QED BY <1>0, <6>1, <6>2 DEF BlocksAgree
        <5>8. Restored(segments', sticks', block_list', w)
          BY <5>6, <5>7 DEF Restored
        <5> QED BY <1>1, <1>2, <3>1, <3>6, <5>8 DEF Kept
      <4> QED BY <4>2, <4>3
    <3> QED BY <1>2, <3>1, <3>4, <3>5, <3>6 DEF Kept
  <2> QED BY <1>1, <2>3, <2>15 DEF Contents
<1> QED BY <1>3, <1>4, ResumeBlockDoes

-----------------------------------------------------------------------------
(* Every step keeps the bytes written.                                     *)

\* What ContentsAlways shows.
ContentsInv == Running => Contents

\* Every step keeps every byte written.
LEMMA ContentsStep ==
  ASSUME StoreInv, PlaceInv, ContentsInv, Positional, Positional', [Next]_vars,
         [SuspensionsFit]_vars, [StdinFits]_vars
  PROVE  ContentsInv'
<1>1. CASE UNCHANGED vars
  <2>1. UNCHANGED <<segments, sticks, block_list, disk, owned, written, status, job>>
    BY <1>1 DEF vars, tableVars, stickVars, swapVars, ghostVars
  <2>2. \A q : GoesToSwap(q)' <=> GoesToSwap(q)
    BY <2>1 DEF GoesToSwap, Leaving
  <2> QED BY <2>1, <2>2, QuietContents DEF ContentsInv, Running
<1>2. CASE ~UNCHANGED vars
  <2>1. Next /\ SuspensionsFit /\ StdinFits
    BY <1>2
  <2> SUFFICES ASSUME Running' PROVE Contents'
    BY DEF ContentsInv
  <2>2. Places /\ Contents /\ Running
    BY <2>1, CrashIsFinal DEF PlaceInv, ContentsInv
  <2>3. CASE add_stick_connection
    BY <2>2, <2>3, AddStickContents
  <2>4. CASE add_total_memory \/ init_swap_data
    <3>1. UNCHANGED <<segments, sticks, block_list, disk, owned, written, status, job>>
      BY <2>4 DEF add_total_memory, init_swap_data, tableVars, stickVars, swapVars, ghostVars
    <3>2. \A q : GoesToSwap(q)' <=> GoesToSwap(q)
      BY <3>1 DEF GoesToSwap, Leaving
    <3> QED BY <2>2, <3>1, <3>2, QuietContents
  <2>5. CASE compact_memory
    BY <2>5 DEF compact_memory, Positional
  <2>6. CASE find_and_remove_segment
    BY <2>2, <2>6, FindContents
  <2>7. CASE remove_segment
    BY <2>2, <2>7, MergeContents
  <2>8. CASE removal_done
    BY <2>2, <2>8, DoneContents
  <2>9. CASE resume_block
    BY <2>2, <2>9, ResumeBlockContents DEF Running
  <2>10. CASE resume_done
    BY <2>2, <2>10, ResumeDoneContents
  <2>11. ASSUME NEW p \in Pid, handle_new_process(p) PROVE Contents'
    BY <2>2, <2>11, NewContents
  <2>12. ASSUME NEW p \in Pid, handle_end_process(p) PROVE Contents'
    BY <2>2, <2>12, EndContents
  <2>13. ASSUME NEW p \in Pid, suspend_process(p) PROVE Contents'
    <3>1. job' # Idle
      BY <2>1, <2>13 DEF SuspensionsFit
    <3> QED BY <2>2, <2>13, <3>1, SuspendContents
  <2>14. ASSUME NEW p \in Pid, resume_process(p) PROVE Contents'
    BY <2>2, <2>14, ResumeStartContents
  <2>15. ASSUME NEW p \in Pid, NEW id \in SegId, NEW size \in Sizes,
                handle_create_segment(p, id, size)
         PROVE  Contents'
    <3>1. job'.kind # "compacting"
      BY DEF Positional
    <3> QED BY <2>2, <2>15, <3>1, CreateContents
  <2>16. ASSUME NEW p \in Pid, NEW id \in SegId, NEW i \in Inputs,
                handle_stdin_request(p, id, i[1], i[2])
         PROVE  Contents'
    <3>1. job' = Idle
      BY <2>16, StdinStep DEF Running
    <3>2. i[1] + i[2] <= find_segment_by_id(segments, p, id).size
      BY <2>1, <2>16 DEF StdinFits
    <3> QED BY <2>2, <2>16, <3>1, <3>2, StdinContents
  <2>17. ASSUME NEW p \in Pid, NEW id \in SegId, handle_delete_segment(p, id)
         PROVE  Contents'
    BY <2>2, <2>17, DeleteContents
  <2>18. ASSUME NEW p \in Pid, NEW id \in SegId, NEW off \in 0 .. total_size - 1,
                write_memory(p, id, off)
         PROVE  Contents'
    BY <2>2, <2>18, WriteMemoryContents
  <2> QED BY <2>1, <2>3, <2>4, <2>5, <2>6, <2>7, <2>8, <2>9, <2>10, <2>11, <2>12, <2>13,
             <2>14, <2>15, <2>16, <2>17, <2>18 DEF Next
<1> QED BY <1>1, <1>2

\* No byte is written at start.
LEMMA ContentsInit == Init => ContentsInv
<1> SUFFICES ASSUME Init PROVE Contents
  BY DEF ContentsInv
<1>1. \A b \in Block : block_list[b].pid \notin Pid
  BY KernelMemoryAssumption DEF Init, FreeBlock
<1>2. ToSet(segments) = {}
  BY EmptyList DEF Init
<1>3. BlocksAgree(segments, block_list)
  BY <1>1, <1>2 DEF BlocksAgree
<1>4. written = {}
  BY DEF Init
<1> QED BY <1>3, <1>4 DEF Contents

\* The conditions under which no byte is lost: swap is never full, no input runs
\* past its segment, no compaction is asked for, and positions are ids.
LEMMA ContentsAlways ==
  Spec /\ [][SuspensionsFit]_vars /\ [][StdinFits]_vars /\ []Positional => []ContentsInv
<1>1. /\ StoreInv /\ PlaceInv /\ ContentsInv /\ Positional /\ Positional'
      /\ [Next]_vars /\ [SuspensionsFit]_vars /\ [StdinFits]_vars
      => ContentsInv'
  BY ContentsStep
<1> QED BY <1>1, ContentsInit, StoreAlways, PlaceAlways, PTL DEF Spec

-----------------------------------------------------------------------------
(* The theorems.                                                           *)

\* The tables, the sticks, the swap blocks and the request keep their types: in
\* particular no segment is ever placed at the base -1 of a failed hole search,
\* and every block copied to swap is read from addresses that exist.
THEOREM MemoryTypeCorrect == Spec => []KMTypeOK
<1>1. MemoryInv => KMTypeOK
  BY DEF MemoryInv
<1> QED BY <1>1, MemoryAlways, PTL

\* Every address of main memory is in exactly one hole or segment, whatever the
\* order of create_segment, compact_memory, remove_segment, suspend_process,
\* resume_process and the sticks that connect meanwhile.
THEOREM TilingHolds == Spec => []Tiling
BY TilingFromPartition, MemoryAlways, PTL

\* remove_segment and add_total_memory leave no two holes side by side.
THEOREM HolesMergedHolds == Spec => []HolesMerged
BY MergedFromPartition, MemoryAlways, PTL

\* hole_selection_algorithm finds a hole when one fits, and the best or the worst
\* of them as the strategy says, on every hole list the program reaches.
THEOREM HoleSelectionHolds == Spec => []HoleSelection
BY SelectionFromType, MemoryAlways, PTL

\* A segment that its process has not freed is in the table or whole in swap,
\* at every step of suspend_process, remove_segment and resume_process.
THEOREM OwnedIsSomewhereHolds == Spec => []OwnedIsSomewhere
<1>1. StoreInv => OwnedIsSomewhere
  BY DEF StoreInv
<1> QED BY <1>1, StoreAlways, PTL

\* The order of the blocks that resume_process relies on: find_free_block, with
\* blocks freed and taken in any order, keeps a segment's first block first.
THEOREM BlocksInOrderHolds == Spec => []BlocksInOrder
<1>1. StoreInv => BlocksInOrder
  BY DEF StoreInv
<1> QED BY <1>1, StoreAlways, PTL

\* find_and_remove_segment, regenerate_segment, create_segment and
\* compact_segments leave the segments of every process but the one they serve
\* as they are, in their order, whatever the others' requests and ids.
THEOREM OthersUntouchedHolds == Spec => OthersUntouched
<1>1. MemoryInv /\ [Next]_vars => [OthersKept]_vars
  BY KeptStep
<1> QED BY <1>1, MemoryAlways, PTL DEF Spec, OthersUntouched

\* When no suspension finds swap full, the table that a resident process is served
\* by between requests has each segment it created and did not delete exactly once:
\* for any interleaving of creations, removals, compactions, suspensions and
\* resumptions of any number of processes, failed resumptions included.
THEOREM TableIsOwnedHolds == Spec /\ [][SuspensionsFit]_vars => []TableIsOwned
<1>1. StoreInv /\ PlaceInv => TableIsOwned
  <2> SUFFICES ASSUME StoreInv, PlaceInv, job = Idle, NEW p \in Pid, status[p] = "resident"
               PROVE  LET ids == IdsOf(filter_process_segments(segments, p))
                      IN  Len(ids) = Cardinality(owned[p]) /\ ToSet(ids) = owned[p]
    BY DEF TableIsOwned
  <2>1. segments \in Seq(Segment) /\ IsInjective(segments)
    BY DEF StoreInv, MemoryInv, KMTypeOK, Tables, Partition
  <2>2. Places /\ ~Leaving(p)
    BY DEF PlaceInv, Running, Idle, Crashed, Leaving
  <2>3. IdsIn(segments, p) = owned[p] /\ OneListed(segments)
    BY <2>2 DEF Places, InPlace, Settled
  <2> QED BY <2>1, <2>3, MineIds
<1> QED BY <1>1, PlaceAlways, StoreAlways, PTL

\* Every byte that a process wrote through the MMU or read with STDIN is read back
\* between requests, for any interleaving of the processes' allocations, releases,
\* writes, suspensions and resumptions, failed ones included, when no suspension
\* finds swap full, no input runs past the segment it is meant for (a check that
\* handle_stdin_request does not make), no allocation asks for a compaction, and
\* find_segment, which looks by position, finds the segment that has the id.
THEOREM ContentsKeptHolds ==
  Spec /\ [][SuspensionsFit]_vars /\ [][StdinFits]_vars /\ []Positional => []ContentsKept
<1>1. StoreInv /\ PlaceInv /\ ContentsInv => ContentsKept
  <2> SUFFICES ASSUME StoreInv, PlaceInv, ContentsInv, job = Idle, NEW w \in written,
                      status[w[1]] = "resident"
               PROVE  LET s == find_segment_by_id(segments, w[1], w[2])
                      IN  s # NoSegment /\ read_from_sticks(sticks, s.base + w[3], 1) = <<w>>
    BY DEF ContentsKept
  <2>1. Places /\ Contents /\ \A q : ~GoesToSwap(q)
    BY DEF PlaceInv, ContentsInv, Running, Idle, Crashed, GoesToSwap, Leaving
  <2>2. InTable(segments, sticks, w) /\ w[3] \in Nat
    BY <2>1, WrittenFacts DEF Contents, Kept
  <2>3. PICK t \in ToSet(segments) : /\ t.pid = w[1] /\ t.id = w[2] /\ w[3] < t.size
                                     /\ Lies(sticks, t.base + w[3], w)
    BY <2>2 DEF InTable
  <2>4. PICK s : s = find_segment_by_id(segments, w[1], w[2])
    OBVIOUS
  <2>5. s # NoSegment /\ s = t
    <3>1. segments \in Seq(Segment)
      BY DEF StoreInv, MemoryInv, KMTypeOK
    <3>2. \E k \in 1 .. Len(segments) : segments[k] = t
      BY <2>3, <3>1, SegmentsSized DEF ToSet
    <3>3. s # NoSegment /\ s \in ToSet(segments) /\ s.pid = w[1] /\ s.id = w[2]
      BY <2>3, <2>4, <3>1, <3>2, Found, SegmentsSized DEF ToSet
    <3> QED BY <2>1, <2>3, <3>3 DEF Places, OneListed
  <2>6. PICK sum \in Nat : /\ sum = RunningSum(StickLengths(sticks))[Len(sticks)]
                           /\ Spread(ToSet(segments), sum) /\ sticks \in Seq(Seq(Byte))
    BY SegmentBytes
  <2>7. PICK x \in Nat : x = t.base
    BY <2>6 DEF Spread
  <2>8. PICK y \in Nat : y = t.size /\ x + y <= sum
    BY <2>6, <2>7 DEF Spread
  <2>9. PICK a \in Nat : a = t.base + w[3] /\ a < sum
    <3>1. x + w[3] \in Nat /\ x + w[3] < sum
      BY <2>2, <2>3, <2>7, <2>8
    <3> QED BY <2>7, <3>1
  <2>10. read_from_sticks(sticks, a, 1)[1] = w
    <3>1. a = a + 1 - 1 /\ 1 \in 1 .. 1 /\ 1 \in Int
      OBVIOUS
    <3> QED BY <2>3, <2>6, <2>9, <3>1, ReadsBack
  <2>11. read_from_sticks(sticks, a, 1) = <<w>>
    <3>1. PICK r : r = read_from_sticks(sticks, a, 1)
      OBVIOUS
    <3>2. DOMAIN r = 1 .. 1 /\ r = [k \in 1 .. 1 |-> r[k]]
      BY <3>1 DEF read_from_sticks
    <3>3. r[1] = w
      BY <2>10, <3>1
    <3>4. r = <<w>>
      BY <3>2, <3>3
    <3> QED BY <3>1, <3>4
  <2> QED BY <2>4, <2>5, <2>9, <2>11
<1> QED BY <1>1, ContentsAlways, PlaceAlways, StoreAlways, PTL
=============================================================================
