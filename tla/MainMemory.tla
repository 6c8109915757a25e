------------------------------ MODULE MainMemory ------------------------------
(***************************************************************************)
(* The tables of Kernel Memory's t_main_memory as pure operators: the list *)
(* of free holes, the list of segments, and the Memory Sticks that hold    *)
(* the bytes (holes.c, segments.c, compaction.c, address_translation.c).   *)
(* Both lists are unordered in memory address: removal and allocation      *)
(* leave them in the order of the operations, so the operators work on     *)
(* sequences, as the code does.                                            *)
(***************************************************************************)
EXTENDS Integers, SequencesExt

CONSTANTS
  STRATEGY    \* ALLOCATION_STRATEGY of the configuration: "BEST" or "WORST"

ASSUME StrategyAssumption == STRATEGY \in {"BEST", "WORST"}

Hole == [base : Nat, size : Nat \ {0}]

\* A failed search: the hole {-1, -1}, the NULL segment.
NoHole == [base |-> -1, size |-> -1]
NoSegment == [pid |-> -1, id |-> -1, base |-> -1, size |-> -1]

\* The segments of pid, in list order: one pass over the list.
filter_process_segments(segments, pid) ==
  LET kept[i \in 0 .. Len(segments)] ==
        IF i = 0 THEN <<>>
        ELSE IF segments[i].pid = pid THEN Append(kept[i - 1], segments[i])
        ELSE kept[i - 1]
  IN  kept[Len(segments)]

\* The sum of the first i numbers of a list, for each i.
RunningSum(numbers) ==
  LET sum[i \in 0 .. Len(numbers)] ==
        IF i = 0 THEN 0 ELSE sum[i - 1] + numbers[i]
  IN  sum

SizesOf(list) == [i \in DOMAIN list |-> list[i].size]

\* The bytes of a list of holes or segments.
TotalSize(list) == RunningSum(SizesOf(list))[Len(list)]

compute_free_space(holes) == TotalSize(holes)

-----------------------------------------------------------------------------
(***************************************************************************)
(* Allocation.                                                             *)
(***************************************************************************)

\* Mutant: the first hole that fits is kept.
Prefers_First(h, chosen) == chosen.size = -1

\* Whether the scan prefers hole h to the one chosen so far.
Prefers(h, chosen) ==
  \/ chosen.size = -1
  \/ STRATEGY = "BEST"  /\ chosen.size > h.size
  \/ STRATEGY = "WORST" /\ chosen.size < h.size

\* One pass over the list; the first of several equal holes wins.
hole_selection_algorithm(size, holes) ==
  LET scan[i \in 0 .. Len(holes)] ==
        IF i = 0 THEN NoHole
        ELSE LET chosen == scan[i - 1]
             IN  IF holes[i].size >= size /\ Prefers(holes[i], chosen)
                 THEN holes[i] ELSE chosen
  IN  scan[Len(holes)]

\* Mutant: the hole shrinks from its end.
update_hole_table_End(holes, chosen, size) ==
  LET i == SelectInSeq(holes, LAMBDA h : h.base = chosen.base)
  IN  IF i = 0 THEN holes
      ELSE IF holes[i].size = size THEN RemoveAt(holes, i)
      ELSE [holes EXCEPT ![i].size = @ - size]

\* The chosen hole loses its first size bytes, and its entry when none is left.
update_hole_table(holes, chosen, size) ==
  LET i == SelectInSeq(holes, LAMBDA h : h.base = chosen.base)
  IN  IF i = 0 THEN holes
      ELSE IF holes[i].size = size THEN RemoveAt(holes, i)
      ELSE [holes EXCEPT ![i] = [base |-> @.base + size, size |-> @.size - size]]

-----------------------------------------------------------------------------
(***************************************************************************)
(* Release: the freed bytes join the hole that ends where they start and   *)
(* the hole that starts where they end.                                    *)
(***************************************************************************)

\* list_remove: an index outside the list removes nothing.
ListRemove(list, i) == IF i \in DOMAIN list THEN RemoveAt(list, i) ELSE list

\* Mutant: the hole that follows the segment is forgotten.
merge_hole_Before(holes, seg) ==
  LET before == SelectLastInSeq(holes, LAMBDA h : h.base + h.size = seg.base)
  IN  IF before = 0
      THEN Append(holes, [base |-> seg.base, size |-> seg.size])
      ELSE [holes EXCEPT ![before].size = @ + seg.size]

\* remove_segment's part under the second lock.
merge_hole(holes, seg) ==
  LET before == SelectLastInSeq(holes, LAMBDA h : h.base + h.size = seg.base)
      after  == SelectLastInSeq(holes, LAMBDA h : h.base = seg.base + seg.size)
      sizeAt(i) == IF i = 0 THEN 0 ELSE holes[i].size
      merged == [base |-> IF before = 0 THEN seg.base ELSE holes[before].base,
                 size |-> seg.size + sizeAt(before) + sizeAt(after)]
  IN  \* the higher index goes first, so that the lower one stays valid
      Append(ListRemove(ListRemove(holes, Max({before, after})),
                        Min({before, after})),
             merged)

\* A new stick's bytes extend the hole that ends at the old total, if any.
grow_holes(holes, total, size) ==
  LET i == SelectInSeq(holes, LAMBDA h : h.base + h.size = total)
  IN  IF i = 0 THEN Append(holes, [base |-> total, size |-> size])
      ELSE [holes EXCEPT ![i].size = @ + size]

-----------------------------------------------------------------------------
(***************************************************************************)
(* Compaction of the tables: bases become the running sum of the sizes in  *)
(* list order, and one hole covers what is left after the last segment.    *)
(***************************************************************************)
compact_segments(segments) ==
  LET before == RunningSum(SizesOf(segments))
  IN  [i \in DOMAIN segments |-> [segments[i] EXCEPT !.base = before[i - 1]]]

compute_last_segment_end(segments) ==
  LET last == segments[Len(segments)] IN last.base + last.size

compact_holes(total, end) == <<[base |-> end, size |-> total - end]>>

-----------------------------------------------------------------------------
(***************************************************************************)
(* Address translation.                                                    *)
(***************************************************************************)

\* Kernel Memory's lookup: the n-th segment of pid in list order, from 0.
find_segment(segments, pid, n) ==
  LET mine == filter_process_segments(segments, pid)
  IN  IF n < Len(mine) THEN mine[n + 1] ELSE NoSegment

\* The CPU's lookup in the segment table it was sent: the first with that id.
find_segment_by_id(segments, pid, id) ==
  LET i == SelectInSeq(segments, LAMBDA s : s.pid = pid /\ s.id = id)
  IN  IF i = 0 THEN NoSegment ELSE segments[i]

\* The first address of the i-th stick: the sizes of those before it.
StickBase(sticks, i) == RunningSum([j \in DOMAIN sticks |-> Len(sticks[j])])[i - 1]

\* The index of the stick that holds a physical address; 0 when none does.
find_stick(sticks, address) ==
  SelectInSeq([i \in DOMAIN sticks |-> i],
              LAMBDA i : address \in StickBase(sticks, i) ..
                                     StickBase(sticks, i) + Len(sticks[i]) - 1)

\* The bytes at addresses address, address + 1, ...
read_from_sticks(sticks, address, size) ==
  [k \in 1..size |->
     LET i == find_stick(sticks, address + k - 1)
     IN  sticks[i][address + k - StickBase(sticks, i)]]

\* The bytes go to the sticks from the one that holds the address on, as far
\* as there are sticks: stick i's byte o, from 1, has address StickBase + o - 1.
write_to_sticks(sticks, address, bytes) ==
  IF find_stick(sticks, address) = 0 THEN sticks
  ELSE [i \in DOMAIN sticks |-> [o \in DOMAIN sticks[i] |->
          LET k == StickBase(sticks, i) + o - address
          IN  IF k \in DOMAIN bytes THEN bytes[k] ELSE sticks[i][o]]]
===============================================================================
