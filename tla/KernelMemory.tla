----------------------------- MODULE KernelMemory -----------------------------
(***************************************************************************)
(* The Kernel Memory process: the thread that serves the Kernel Scheduler  *)
(* (scheduler_listener.c, with holes.c, segments.c, compaction.c, swap.c), *)
(* the accept thread that takes in Memory Sticks and the Swap module       *)
(* (server.c), and the CPUs' writes to the sticks (cpu/memory.c).          *)
(*                                                                         *)
(* The Kernel Scheduler sends one request at a time and waits for its      *)
(* reply, so one record, job, says where the listener is.  Each step is a  *)
(* stretch of code between two points at which another thread may act:     *)
(* main_memory_mutex is free between the two halves of remove_segment and  *)
(* between the blocks of resume_process, and it is held while the listener *)
(* waits for OP_CAN_COMPACT.  A request that is refused (no memory, no     *)
(* swap, unknown segment) changes nothing and is not an action.            *)
(***************************************************************************)
EXTENDS MainMemory

CONSTANTS
  Pid,          \* processes
  SegId,        \* segment ids a program passes to MEM_ALLOC (naturals)
  Sizes,        \* sizes a program passes to MEM_ALLOC
  Inputs,       \* <<offset, length>> pairs a program passes to STDIN
  StickSizes,   \* the sizes of the sticks, in the order in which they connect
  BLOCK_SIZE,   \* bytes per swap block
  BLOCKS,       \* number of swap blocks: swap_size / block_size
  MaxWrites     \* bound: writes to main memory in a behaviour

ASSUME KernelMemoryAssumption ==
  /\ -1 \notin Pid
  /\ SegId \subseteq Nat
  /\ Sizes \subseteq Nat \ {0}
  /\ Inputs \subseteq Nat \X (Nat \ {0})
  /\ StickSizes \in Seq(Nat \ {0})
  /\ {BLOCK_SIZE, BLOCKS} \subseteq Nat \ {0}
  /\ MaxWrites \in Nat

VARIABLES
  holes,           \* main_memory->holes
  segments,        \* main_memory->segments
  total_size,      \* main_memory->total_size
  sticks,          \* connected_sticks, each the sequence of its bytes
  accepting,       \* the last stick is listed but not yet counted in total_size
  swap_connected,  \* swap_data # NULL
  block_list,      \* swap_data->block_list
  disk,            \* the Swap module's blocks
  job,             \* the request the scheduler's listener is serving
  status,          \* what the Kernel Scheduler knows of each process
  owned,           \* ids each process allocated and did not free
  written,         \* bytes of live segments written by their process
  writes           \* number of writes so far, up to MaxWrites

tableVars == <<holes, segments, total_size>>
stickVars == <<sticks, accepting>>
swapVars  == <<swap_connected, block_list, disk>>
ghostVars == <<owned, written, writes>>
vars == <<tableVars, stickVars, swapVars, job, status, ghostVars>>

Block == 0 .. BLOCKS - 1
FreeBlock == [pid |-> -1, segment_number |-> -1,
              segment_block_number |-> -1, segment_size |-> -1]

\* A byte is identified by who wrote it and where; Blank is any other byte.
Blank == <<>>

Idle == [kind |-> "idle"]
Crashed == [kind |-> "crashed"]     \* the listener is over
Running == job # Crashed

\* main_memory_mutex is free: only a compaction holds it across a step.
MutexFree == job.kind # "compacting"

BytesOfSegment(p, id) == {w \in written : w[1] = p /\ w[2] = id}

Init ==
  /\ holes = <<>> /\ segments = <<>> /\ total_size = 0
  /\ sticks = <<>> /\ accepting = FALSE
  /\ swap_connected = FALSE
  /\ block_list = [b \in Block |-> FreeBlock]
  /\ disk = [b \in Block |-> [k \in 1..BLOCK_SIZE |-> Blank]]
  /\ job = Idle
  /\ status = [p \in Pid |-> "none"]
  /\ owned = [p \in Pid |-> {}]
  /\ written = {} /\ writes = 0

-----------------------------------------------------------------------------
(***************************************************************************)
(* The accept thread.  A stick is listed first and counted afterwards, the *)
(* second step under main_memory_mutex.                                    *)
(***************************************************************************)
add_stick_connection ==
  /\ Running /\ ~accepting
  /\ Len(sticks) < Len(StickSizes)
  /\ sticks' = Append(sticks, [k \in 1..StickSizes[Len(sticks) + 1] |-> Blank])
  /\ accepting' = TRUE
  /\ UNCHANGED <<tableVars, swapVars, job, status, ghostVars>>

add_total_memory ==
  /\ Running /\ accepting /\ MutexFree
  /\ LET size == Len(sticks[Len(sticks)])
     IN  /\ total_size' = total_size + size
         /\ holes' = grow_holes(holes, total_size, size)
  /\ accepting' = FALSE
  /\ UNCHANGED <<segments, sticks, swapVars, job, status, ghostVars>>

init_swap_data ==
  /\ Running /\ ~accepting /\ ~swap_connected
  /\ swap_connected' = TRUE
  /\ UNCHANGED <<tableVars, stickVars, block_list, disk, job, status, ghostVars>>

-----------------------------------------------------------------------------
(***************************************************************************)
(* Processes and segments.                                                 *)
(***************************************************************************)
handle_new_process(p) ==
  /\ job = Idle /\ status[p] = "none"
  /\ status' = [status EXCEPT ![p] = "resident"]
  /\ UNCHANGED <<tableVars, stickVars, swapVars, job, ghostVars>>

\* select_hole and update_segment_list on given tables.
place_segment(hs, segs, p, id, size) ==
  LET chosen == hole_selection_algorithm(size, hs)
  IN  /\ holes' = update_hole_table(hs, chosen, size)
      /\ segments' = Append(segs, [pid |-> p, id |-> id,
                                   base |-> chosen.base, size |-> size])

\* Mutant: the hole search is not checked and no compaction is asked for.
handle_create_segment_Unchecked(p, id, size) ==
  /\ job = Idle /\ status[p] = "resident" /\ id \notin owned[p]
  /\ compute_free_space(holes) >= size
  /\ place_segment(holes, segments, p, id, size)
  /\ owned' = [owned EXCEPT ![p] = @ \cup {id}]
  /\ UNCHANGED <<total_size, job, stickVars, swapVars, status, written, writes>>

\* create_segment: into a hole, or after a compaction when there is room but
\* no hole is large enough.  The mutex is kept until the compaction is done.
handle_create_segment(p, id, size) ==
  /\ job = Idle /\ status[p] = "resident" /\ id \notin owned[p]
  /\ compute_free_space(holes) >= size
  /\ IF hole_selection_algorithm(size, holes) = NoHole
     THEN /\ job' = [kind |-> "compacting", pid |-> p, id |-> id, size |-> size]
          /\ UNCHANGED <<tableVars, owned>>
     ELSE /\ place_segment(holes, segments, p, id, size)
          /\ owned' = [owned EXCEPT ![p] = @ \cup {id}]
          /\ UNCHANGED <<total_size, job>>
  /\ UNCHANGED <<stickVars, swapVars, status, written, writes>>

\* OP_CAN_COMPACT arrived: the tables are rebuilt, the bytes stay where they
\* are, and the hole search is made a second time without looking at its result.
compact_memory ==
  /\ job.kind = "compacting"
  /\ LET packed == compact_segments(segments)
         hs == compact_holes(total_size, compute_last_segment_end(packed))
     IN  place_segment(hs, packed, job.pid, job.id, job.size)
  /\ owned' = [owned EXCEPT ![job.pid] = @ \cup {job.id}]
  /\ job' = Idle
  /\ UNCHANGED <<total_size, stickVars, swapVars, status, written, writes>>

\* The listener goes on to remove_segment, for each id in turn; the process is
\* in state after when all are gone.
Removing(p, ids, after) ==
  [kind |-> "remove", pid |-> p, todo |-> ids, seg |-> NoSegment, after |-> after]

IdsOf(segs) == [i \in DOMAIN segs |-> segs[i].id]

handle_delete_segment(p, id) ==
  /\ job = Idle /\ status[p] = "resident" /\ id \in owned[p]
  /\ job' = Removing(p, <<id>>, "resident")
  /\ owned' = [owned EXCEPT ![p] = @ \ {id}]
  /\ written' = written \ BytesOfSegment(p, id)
  /\ UNCHANGED <<tableVars, stickVars, swapVars, status, writes>>

handle_end_process(p) ==
  /\ job = Idle /\ status[p] = "resident"
  /\ job' = Removing(p, IdsOf(filter_process_segments(segments, p)), "ended")
  /\ owned' = [owned EXCEPT ![p] = {}]
  /\ written' = {w \in written : w[1] # p}
  /\ UNCHANGED <<tableVars, stickVars, swapVars, status, writes>>

\* Mutant: the segment is looked for by its id alone.
find_and_remove_segment_AnyPid ==
  /\ job.kind = "remove" /\ job.seg = NoSegment /\ job.todo # <<>>
  /\ LET i == SelectInSeq(segments, LAMBDA s : s.id = Head(job.todo))
     IN  /\ segments' = ListRemove(segments, i)
         /\ job' = [job EXCEPT !.todo = Tail(@),
                               !.seg = IF i = 0 THEN NoSegment ELSE segments[i]]
  /\ UNCHANGED <<holes, total_size, stickVars, swapVars, status, ghostVars>>

\* First half of remove_segment: the segment leaves its table, mutex released.
find_and_remove_segment ==
  /\ job.kind = "remove" /\ job.seg = NoSegment /\ job.todo # <<>>
  /\ LET id == Head(job.todo)
         i == SelectInSeq(segments, LAMBDA s : s.pid = job.pid /\ s.id = id)
     IN  /\ segments' = ListRemove(segments, i)
         /\ job' = [job EXCEPT !.todo = Tail(@),
                               !.seg = find_segment_by_id(segments, job.pid, id)]
  /\ UNCHANGED <<holes, total_size, stickVars, swapVars, status, ghostVars>>

\* Second half: its bytes become a hole, merged with its neighbours.
remove_segment ==
  /\ job.kind = "remove" /\ job.seg # NoSegment
  /\ holes' = merge_hole(holes, job.seg)
  /\ job' = [job EXCEPT !.seg = NoSegment]
  /\ UNCHANGED <<segments, total_size, stickVars, swapVars, status, ghostVars>>

removal_done ==
  /\ job.kind = "remove" /\ job.seg = NoSegment /\ job.todo = <<>>
  /\ status' = [status EXCEPT ![job.pid] = job.after]
  /\ job' = Idle
  /\ UNCHANGED <<tableVars, stickVars, swapVars, ghostVars>>

-----------------------------------------------------------------------------
(***************************************************************************)
(* Suspension.  The copies of all the segments come first, each block to   *)
(* the lowest free one; then the segments are removed.  When swap fills up *)
(* the handler returns: what was copied stays allocated in block_list.     *)
(***************************************************************************)
BlockCount(size) == (size + BLOCK_SIZE - 1) \div BLOCK_SIZE

\* Bytes of a segment in its k-th block: the last one may be short.
BlockBytes(size, k) == Min({size - k * BLOCK_SIZE, BLOCK_SIZE})

\* write_block_to_swap: a short block is padded.
Padded(bytes) ==
  [k \in 1..BLOCK_SIZE |-> IF k <= Len(bytes) THEN bytes[k] ELSE Blank]

\* Mutant: every block is marked as the first of its segment.
suspend_segment_NoCounter(s) ==
  [k \in 1..BlockCount(s.size) |->
     [entry |-> [pid |-> s.pid, segment_number |-> s.id,
                 segment_block_number |-> 0, segment_size |-> s.size],
      bytes |-> Padded(read_from_sticks(sticks, s.base + (k - 1) * BLOCK_SIZE,
                                        BlockBytes(s.size, k - 1)))]]

\* Mutant: every block is read from the start of the segment.
suspend_segment_NoOffset(s) ==
  [k \in 1..BlockCount(s.size) |->
     [entry |-> [pid |-> s.pid, segment_number |-> s.id,
                 segment_block_number |-> k - 1, segment_size |-> s.size],
      bytes |-> Padded(read_from_sticks(sticks, s.base,
                                        BlockBytes(s.size, k - 1)))]]

\* suspend_segment: the block entries and contents of one segment, in order.
suspend_segment(s) ==
  [k \in 1..BlockCount(s.size) |->
     [entry |-> [pid |-> s.pid, segment_number |-> s.id,
                 segment_block_number |-> k - 1, segment_size |-> s.size],
      bytes |-> Padded(read_from_sticks(sticks, s.base + (k - 1) * BLOCK_SIZE,
                                        BlockBytes(s.size, k - 1)))]]

\* The blocks of a list of segments, in the order in which they are copied.
BlocksWanted(segs) ==
  LET ends == RunningSum([i \in DOMAIN segs |-> BlockCount(segs[i].size)])
  IN  [t \in 1 .. ends[Len(segs)] |->
         LET i == Min({j \in DOMAIN segs : t <= ends[j]})
         IN  suspend_segment(segs[i])[t - ends[i - 1]]]

\* Mutant: the highest free block is taken first.
Turn_Highest(free, b) == Cardinality({c \in free : c >= b})

\* find_free_block takes the lowest free block each time: block b receives the
\* copy of this number, from 1.
Turn(free, b) == Cardinality({c \in free : c <= b})

\* Mutant: one free block is enough.
SuspensionComplete_Any(free, wanted) == free # {}

\* Whether the segments are removed: not when swap fills up before the end.
SuspensionComplete(free, wanted) == Cardinality(free) >= Len(wanted)

suspend_process(p) ==
  /\ job = Idle /\ status[p] = "resident" /\ swap_connected
  /\ LET mine   == filter_process_segments(segments, p)
         wanted == BlocksWanted(mine)
         free   == {b \in Block : block_list[b] = FreeBlock}
         copied == {b \in free : Turn(free, b) <= Len(wanted)}
     IN  /\ wanted # <<>>
         /\ block_list' = [b \in Block |-> IF b \in copied
                                           THEN wanted[Turn(free, b)].entry
                                           ELSE block_list[b]]
         /\ disk' = [b \in Block |-> IF b \in copied
                                     THEN wanted[Turn(free, b)].bytes
                                     ELSE disk[b]]
         /\ job' = IF SuspensionComplete(free, wanted)
                   THEN Removing(p, IdsOf(mine), "suspended") ELSE Idle
  /\ UNCHANGED <<tableVars, stickVars, swap_connected, status, ghostVars>>

-----------------------------------------------------------------------------
(***************************************************************************)
(* Resumption: one step per block of the process, in block order.          *)
(***************************************************************************)
can_resume(p) ==
  LET firsts == {b \in Block : block_list[b].pid = p
                               /\ block_list[b].segment_block_number = 0}
  IN  FoldLeft(LAMBDA sum, b : sum + block_list[b].segment_size, 0,
               SetToSeq(firsts)) <= compute_free_space(holes)

\* at is the block the loop has reached.
resume_process(p) ==
  /\ job = Idle /\ status[p] = "suspended" /\ swap_connected
  /\ can_resume(p)
  /\ job' = [kind |-> "resume", pid |-> p, at |-> 0]
  /\ UNCHANGED <<tableVars, stickVars, swapVars, status, ghostVars>>

\* The blocks of the process from block at on.
BlocksLeft == {b \in Block : b >= job.at /\ block_list[b].pid = job.pid}

\* regenerate_segment gives the first block of a segment a hole, never
\* compacting; every block then goes to the segment found at the position
\* given by the segment's id.
resume_block ==
  /\ job.kind = "resume" /\ BlocksLeft # {}
  /\ LET b      == Min(BlocksLeft)
         entry  == block_list[b]
         first  == entry.segment_block_number = 0
         size   == entry.segment_size
         chosen == hole_selection_algorithm(size, holes)
         segs   == IF first
                   THEN Append(segments, [pid |-> job.pid, size |-> size,
                                          id |-> entry.segment_number,
                                          base |-> chosen.base])
                   ELSE segments
         target == find_segment(segs, job.pid, entry.segment_number)
         offset == entry.segment_block_number * BLOCK_SIZE
         bytes  == SubSeq(disk[b], 1, BlockBytes(size, entry.segment_block_number))
     IN  IF first /\ chosen = NoHole
         THEN /\ job' = Idle          \* OP_RESUME_SUSPENSION_FAILED
              /\ UNCHANGED <<holes, segments, sticks, block_list>>
         ELSE /\ segments' = segs
              /\ holes' = IF first THEN update_hole_table(holes, chosen, size)
                          ELSE holes
              /\ IF target = NoSegment
                 THEN job' = Crashed /\ UNCHANGED <<sticks, block_list>>
                 ELSE /\ sticks' = write_to_sticks(sticks, target.base + offset,
                                                   bytes)
                      /\ block_list' = [block_list EXCEPT ![b] = FreeBlock]
                      /\ job' = [job EXCEPT !.at = b + 1]
  /\ UNCHANGED <<total_size, accepting, swap_connected, disk, status, ghostVars>>

\* OP_RESUME_SUSPENSION_OK when the loop met a block of the process.
resume_done ==
  /\ job.kind = "resume" /\ BlocksLeft = {}
  /\ status' = [status EXCEPT ![job.pid] = IF job.at > 0 THEN "resident" ELSE @]
  /\ job' = Idle
  /\ UNCHANGED <<tableVars, stickVars, swapVars, ghostVars>>

-----------------------------------------------------------------------------
(***************************************************************************)
(* Writes.  A running process writes through its CPU's MMU, which finds    *)
(* the segment by id and checks the size.  A STDIN reply is written by the *)
(* listener, which finds the segment by position and looks neither at the  *)
(* offset nor at the length; when it runs off the sticks the scheduler is  *)
(* told and the listener ends.                                             *)
(***************************************************************************)

\* The bytes of its segment id that p asks to write, as far as it has them.
Meant(p, id, off, len) ==
  {<<p, id, off + k>> : k \in {j \in 0 .. len - 1 :
                                off + j < find_segment_by_id(segments, p, id).size}}

Write(p, id, address, off, len) ==
  /\ writes < MaxWrites /\ writes' = writes + 1
  /\ sticks' = write_to_sticks(sticks, address,
                               [k \in 1..len |-> <<p, id, off + k - 1>>])
  /\ written' = written \cup Meant(p, id, off, len)

write_memory(p, id, off) ==
  /\ Running /\ status[p] = "resident"
  /\ job # Idle => job.pid # p      \* p is not in a system call
  /\ LET s == find_segment_by_id(segments, p, id)
     IN  /\ s # NoSegment /\ off < s.size
         /\ Write(p, id, s.base + off, off, 1)
  /\ UNCHANGED <<tableVars, accepting, swapVars, job, status, owned>>

handle_stdin_request(p, id, off, len) ==
  /\ job = Idle /\ status[p] = "resident"
  /\ LET s == find_segment(segments, p, id)
         fits == \A k \in 0 .. len - 1 : find_stick(sticks, s.base + off + k) # 0
     IN  /\ s # NoSegment /\ Write(p, id, s.base + off, off, len)
         /\ job' = IF fits THEN Idle ELSE Crashed
  /\ UNCHANGED <<tableVars, accepting, swapVars, status, owned>>

-----------------------------------------------------------------------------
Next ==
  \/ add_stick_connection \/ add_total_memory \/ init_swap_data
  \/ \E p \in Pid :
       \/ handle_new_process(p) \/ handle_end_process(p)
       \/ suspend_process(p) \/ resume_process(p)
       \/ \E id \in SegId :
            \/ \E size \in Sizes : handle_create_segment(p, id, size)
            \/ handle_delete_segment(p, id)
            \/ \E off \in 0 .. total_size - 1 : write_memory(p, id, off)
            \/ \E i \in Inputs : handle_stdin_request(p, id, i[1], i[2])
  \/ compact_memory
  \/ find_and_remove_segment \/ remove_segment \/ removal_done
  \/ resume_block \/ resume_done

Spec == Init /\ [][Next]_vars

-----------------------------------------------------------------------------
(***************************************************************************)
(* Properties.                                                             *)
(***************************************************************************)
Segment == [pid : Pid, id : SegId, base : Nat, size : Sizes]
Byte == {Blank} \cup (Pid \X SegId \X Nat)
BlockData == [pid : Pid, segment_number : SegId,
              segment_block_number : Nat, segment_size : Sizes]
Request ==
  {Idle, Crashed}
  \cup [kind : {"compacting"}, pid : Pid, id : SegId, size : Sizes]
  \cup [kind : {"remove"}, pid : Pid, todo : Seq(SegId),
        seg : Segment \cup {NoSegment}, after : {"resident", "suspended", "ended"}]
  \cup [kind : {"resume"}, pid : Pid, at : 0 .. BLOCKS]

\* The tables, the sticks, the swap blocks and the listener's progress have the
\* types of structs.h; no hole and no segment is empty.
KMTypeOK ==
  /\ holes \in Seq(Hole) /\ segments \in Seq(Segment) /\ total_size \in Nat
  /\ sticks \in Seq(Seq(Byte)) /\ accepting \in BOOLEAN
  /\ swap_connected \in BOOLEAN
  /\ block_list \in [Block -> BlockData \cup {FreeBlock}]
  /\ disk \in [Block -> [1 .. BLOCK_SIZE -> Byte]]
  /\ job \in Request
  /\ status \in [Pid -> {"none", "resident", "suspended", "ended"}]
  /\ owned \in [Pid -> SUBSET SegId]
  /\ written \subseteq Pid \X SegId \X Nat /\ writes \in 0 .. MaxWrites

Covers(area, a) == a \in area.base .. area.base + area.size - 1

\* The segment the listener has taken out of its table and not yet freed.
InHand == IF job.kind = "remove" /\ job.seg # NoSegment THEN {job.seg} ELSE {}

\* Every address of main memory belongs to exactly one hole or segment, and no
\* hole or segment reaches past the total, whatever the order of allocations,
\* releases, compactions, suspensions and sticks: nothing is lost and nothing
\* is given twice, in particular by the hole search that create_segment repeats
\* after a compaction without looking at its result.
Tiling ==
  /\ \A a \in 0 .. total_size - 1 :
       Cardinality({i \in DOMAIN holes : Covers(holes[i], a)})
       + Cardinality({i \in DOMAIN segments : Covers(segments[i], a)})
       + Cardinality({s \in InHand : Covers(s, a)}) = 1
  /\ \A i \in DOMAIN holes : holes[i].base + holes[i].size <= total_size
  /\ \A i \in DOMAIN segments : segments[i].base + segments[i].size <= total_size

\* Two holes never touch: what remove_segment and add_total_memory free is
\* joined with both neighbours, so that a compaction is asked for only when
\* segments stand between the free bytes.
HolesMerged ==
  \A i, j \in DOMAIN holes : holes[i].base + holes[i].size # holes[j].base

\* The scan of hole_selection_algorithm returns a hole exactly when one is
\* large enough, and then one of the smallest (BEST) or largest (WORST).
HoleSelection ==
  \A size \in Sizes :
    LET fit == {i \in DOMAIN holes : holes[i].size >= size}
        chosen == hole_selection_algorithm(size, holes)
    IN  IF fit = {} THEN chosen = NoHole
        ELSE /\ \E i \in fit : holes[i] = chosen
             /\ \A i \in fit : IF STRATEGY = "BEST"
                               THEN chosen.size <= holes[i].size
                               ELSE chosen.size >= holes[i].size

\* All the blocks of segment id of p are in swap.
InSwap(p, id) ==
  \E size \in Sizes : \A k \in 0 .. BlockCount(size) - 1 : \E b \in Block :
     block_list[b] = [pid |-> p, segment_number |-> id,
                      segment_block_number |-> k, segment_size |-> size]

\* A segment its process has not freed is in memory or whole in swap at every
\* moment: a suspension that finds swap full, a resumption that finds no hole
\* and the steps between copy and removal lose none.
OwnedIsSomewhere ==
  \A p \in Pid : \A id \in owned[p] :
    find_segment_by_id(segments, p, id) # NoSegment \/ InSwap(p, id)

\* A block of a segment that is not its first comes after a first one of the
\* same segment, unless a resumption that failed has already put the segment
\* back in the table: going through block_list once, resume_process never meets
\* a block whose segment is not there to receive it ("blocks of the same segment
\* are assumed to be in order due to the logic of find_free_block", swap.c).
BlocksInOrder ==
  \A b \in Block : block_list[b].segment_block_number > 0 =>
    LET p  == block_list[b].pid
        id == block_list[b].segment_number
    IN  \/ \E c \in Block : /\ c < b /\ block_list[c].pid = p
                             /\ block_list[c].segment_number = id
                             /\ block_list[c].segment_block_number = 0
        \/ status[p] = "suspended" /\ find_segment_by_id(segments, p, id) # NoSegment

\* A step that leaves the segments of p alone, with the order by which
\* find_segment counts them, unless it serves a request of p.  A compaction
\* gives everybody's segments new bases, and nothing else.
OthersKept ==
  IF job.kind = "compacting"
  THEN \A i \in DOMAIN segments :
         /\ i \in DOMAIN segments'
         /\ segments'[i] = [segments[i] EXCEPT !.base = segments'[i].base]
  ELSE \A p \in Pid :
         \/ filter_process_segments(segments', p) = filter_process_segments(segments, p)
         \/ job.kind \in {"remove", "resume"} /\ job.pid = p
         \/ owned[p] # owned'[p]

\* The segments of a process change only while its own request is served,
\* although all processes share one list, their ids repeat, and a removal or a
\* resumption is many steps: what find_segment and a CPU's table say of a process
\* stays right without a word to it (segments.c find_and_remove_segment).
OthersUntouched == [][OthersKept]_vars

\* Between requests the segment table of a resident process lists each of the
\* segments it owns once, and nothing else.
TableIsOwned ==
  job = Idle =>
    \A p \in Pid : status[p] = "resident" =>
      LET ids == IdsOf(filter_process_segments(segments, p))
      IN  Len(ids) = Cardinality(owned[p]) /\ ToSet(ids) = owned[p]

\* Every program asks for its input inside one of its own segments.  Nothing in
\* the code makes sure of it: translate_logical_address ignores the size.
StdinFits ==
  \A p \in Pid, id \in SegId : \A i \in Inputs :
    handle_stdin_request(p, id, i[1], i[2]) =>
      id \in owned[p] /\ i[1] + i[2] <= find_segment_by_id(segments, p, id).size

\* A resident process reads back, through the MMU, every byte it wrote: also
\* after its segments went to swap and came back elsewhere, or after they were
\* moved (README of kernel_memory, "Compaction", "Suspend" and "Resume Process").
ContentsKept ==
  job = Idle =>
    \A w \in written : status[w[1]] = "resident" =>
      LET s == find_segment_by_id(segments, w[1], w[2])
      IN  s # NoSegment /\ read_from_sticks(sticks, s.base + w[3], 1) = <<w>>

\* Restoring a block never stops Kernel Memory: resume_process "restores pid's
\* suspended segments from swap" or "fails gracefully" (swap.h).
ListenerSurvives == Running
===============================================================================
