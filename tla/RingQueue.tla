----------------------------- MODULE RingQueue ------------------------------
(***************************************************************************)
(* The ring buffer under the send and the receive queue,                   *)
(* zcm/util/queue.hpp.  Every operation runs under the mutex of the        *)
(* ThreadsafeQueue that wraps it, so each one is a step.                   *)
(***************************************************************************)
EXTENDS Naturals, Sequences

CONSTANTS
  Elements,   \* what is queued
  Sizes,      \* capacities the queue is created with and set to
  Shrink,     \* whether setCapacity may get less room than is in use
  Garbage     \* a cell with no live element

ASSUME SizesAssumption ==
  /\ Sizes \subseteq Nat \ {0}
  /\ Shrink \in BOOLEAN
  /\ Garbage \notin Elements

VARIABLES
  queue,      \* the array, indexed from 0
  capacity,   \* its length
  front,      \* index of the oldest element
  back        \* index one past the newest

vars == <<queue, capacity, front, back>>

-----------------------------------------------------------------------------
incIdx(i) == IF i + 1 = capacity THEN 0 ELSE i + 1

\* Mutant: the cell that tells a full ring from an empty one is used too.
hasFreeSpace_Last == TRUE

hasFreeSpace == front # incIdx(back)

hasMessage == front # back

numMessages == IF back >= front THEN back - front ELSE capacity - (front - back)

\* Where the k-th oldest element is: incIdx applied k-1 times to front.
Cell(k) == IF front + k - 1 < capacity THEN front + k - 1
                                       ELSE front + k - 1 - capacity

-----------------------------------------------------------------------------
Init ==
  /\ capacity \in Sizes
  /\ queue = [i \in 0..(capacity - 1) |-> Garbage]
  /\ front = 0
  /\ back = 0

\* A write past the end of the array leaves the array alone.
push(e) ==
  /\ hasFreeSpace
  /\ queue' = [i \in DOMAIN queue |-> IF i = back THEN e ELSE queue[i]]
  /\ back' = incIdx(back)
  /\ UNCHANGED <<capacity, front>>

pop ==
  /\ hasMessage
  /\ queue' = [queue EXCEPT ![front] = Garbage]
  /\ front' = incIdx(front)
  /\ UNCHANGED <<capacity, back>>

\* How many elements the copy loop moves: as many as there are and fit.
Moved(n) == IF numMessages < n THEN numMessages ELSE n

\* Mutant: copies from the first cell of the array, not from the front.
setCapacity_Raw(n) ==
  /\ Shrink \/ numMessages < n
  /\ queue' = [i \in 0..(n - 1) |->
                 IF i < Moved(n) /\ i < capacity THEN queue[i] ELSE Garbage]
  /\ front' = 0
  /\ back' = Moved(n)
  /\ capacity' = n

setCapacity(n) ==
  /\ Shrink \/ numMessages < n
  /\ queue' = [i \in 0..(n - 1) |->
                 IF i < Moved(n) THEN queue[Cell(i + 1)] ELSE Garbage]
  /\ front' = 0
  /\ back' = Moved(n)
  /\ capacity' = n

Next ==
  \/ \E e \in Elements : push(e)
  \/ pop
  \/ \E n \in Sizes : setCapacity(n)

Spec == Init /\ [][Next]_vars

-----------------------------------------------------------------------------
\* The indices of the ring lie inside its array.
TypeOK ==
  /\ capacity \in Sizes
  /\ queue \in [0..(capacity - 1) -> Elements \cup {Garbage}]
  /\ front \in 0..(capacity - 1)
  /\ back \in 0..(capacity - 1)

\* Exactly the cells from front up to back hold live elements: top() and
\* pop() never touch one that was destroyed or never constructed, and the
\* destructor's loop leaves none behind.
LiveCells ==
  {i \in DOMAIN queue : queue[i] # Garbage} = {Cell(k) : k \in 1..numMessages}

\* The elements from the oldest to the newest.
Contents == [k \in 1..numMessages |-> queue[Cell(k)]]

F == INSTANCE Fifo WITH items <- Contents, size <- capacity - 1,
                        Sizes <- {n - 1 : n \in Sizes}

\* The ring is a FIFO of capacity - 1 elements: what push() adds comes out of
\* top() and pop() once and in order, across wrap-around and setCapacity().
ImplementsFifo == F!Spec

\* What the documentation of zcm_set_queue_size promises: a queue of size n
\* never stores more than n messages, also after the size was reduced.
StoredWithinSize == numMessages <= capacity
=============================================================================
