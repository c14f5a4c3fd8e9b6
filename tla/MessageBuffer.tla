---------------------------- MODULE MessageBuffer ----------------------------
(***************************************************************************)
(* The buffer between a network interface and a protocol controller, as    *)
(* far as its occupancy goes.  The producer sees a pop one cycle late and  *)
(* its own enqueues at once; a message can be popped in the cycle after    *)
(* the one it was enqueued in.  Times are relative to the current cycle.   *)
(***************************************************************************)
EXTENDS Naturals

CONSTANT m_max_size    \* 0 stands for an infinite buffer

EmptyBuffer ==
  [heap |-> 0,         \* m_prio_heap.size()
   enqueued |-> 0,     \* m_msgs_this_cycle, 0 when nothing came in this cycle
   popped |-> 0,       \* pops in this cycle
   start |-> 0,        \* m_size_at_cycle_start when popped > 0
   callback |-> FALSE] \* m_dequeue_callback is set

current_size(b) ==
  IF b.popped = 0 THEN b.heap
  ELSE IF b.enqueued = 0 THEN b.start ELSE b.start + b.enqueued

areNSlotsAvailable_oneMore(b, n) == m_max_size = 0 \/ current_size(b) <= m_max_size

areNSlotsAvailable(b, n) == m_max_size = 0 \/ current_size(b) + n <= m_max_size

isReady(b) == b.heap > b.enqueued

enqueue(b) == [b EXCEPT !.heap = @ + 1, !.enqueued = @ + 1]

dequeue(b) ==
  [b EXCEPT !.heap = @ - 1, !.popped = @ + 1,
            !.start = IF b.popped = 0 THEN b.heap ELSE @]

registerDequeueCallback(b) == [b EXCEPT !.callback = TRUE]
unregisterDequeueCallback(b) == [b EXCEPT !.callback = FALSE]

NextCycle(b) == [b EXCEPT !.enqueued = 0, !.popped = 0, !.start = 0]

=============================================================================
