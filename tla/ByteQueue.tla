------------------------------ MODULE ByteQueue ------------------------------
(***************************************************************************)
(* The circular byte queue between the control thread and the upgrade      *)
(* thread (App/queue.c, struct Queue_uart).  One slot is always unused:    *)
(* equal indices mean "empty".                                             *)
(***************************************************************************)
EXTENDS UartBytes, Integers, Sequences

CONSTANT QUEUE_SIZE   \* 1040 in queue.h

ASSUME ByteQueueAssumption == QUEUE_SIZE \in Nat \ {0, 1}

Positions == 0 .. QUEUE_SIZE - 1

(* The array has one slot more than the queue ever uses. *)
QueueType == [val : [0 .. QUEUE_SIZE -> Byte], head : Positions, tail : Positions]

InitQueue == [val |-> [i \in 0 .. QUEUE_SIZE |-> Zero], head |-> 0, tail |-> 0]

IsQueueFull(q) == (q.tail + 1) % QUEUE_SIZE = q.head

IsQueueEmpty(q) == q.head = q.tail

(* EnQueue on a queue that is not full, DeQueue on one that is not empty:  *)
(* every caller tests first.                                               *)
EnQueue(q, b) ==
  [val  |-> [q.val EXCEPT ![q.tail] = b],
   head |-> q.head,
   tail |-> (q.tail + 1) % QUEUE_SIZE]

QueueHead(q) == q.val[q.head]

DeQueue(q) ==
  [val |-> q.val, head |-> (q.head + 1) % QUEUE_SIZE, tail |-> q.tail]

(* The number of bytes between head and tail, and the bytes, oldest first. *)
QueueLength(q) ==
  IF q.tail >= q.head THEN q.tail - q.head ELSE q.tail - q.head + QUEUE_SIZE

QueueContents(q) ==
  [k \in 1 .. QueueLength(q) |-> q.val[(q.head + k - 1) % QUEUE_SIZE]]
=============================================================================
