--------------------------- MODULE RingQueueProofs --------------------------
(***************************************************************************)
(* The ring buffer is a FIFO for every set of elements and capacities, as  *)
(* long as setCapacity() is given room for what is stored.                 *)
(***************************************************************************)
EXTENDS RingQueue, TLAPS

\* The cells between front and back, without counting through them.
Used(i) == IF front <= back THEN front <= i /\ i < back
                            ELSE front <= i \/ i < back

\* The live elements are those in the cells between front and back.
LiveUsed == \A i \in 0..(capacity - 1) : queue[i] # Garbage <=> Used(i)

\* The inductive invariant of the ring.
Inv == TypeOK /\ LiveUsed

\* The number of elements and the cell of each stay in the ring.
LEMMA Counting ==
  ASSUME TypeOK
  PROVE  /\ capacity \in Nat \ {0}
         /\ front \in Nat /\ back \in Nat
         /\ numMessages \in 0..(capacity - 1)
         /\ \A k \in 1..numMessages : Cell(k) \in 0..(capacity - 1) /\ Used(Cell(k))
         /\ \A i \in 0..(capacity - 1) :
              Used(i) => \E k \in 1..numMessages : i = Cell(k)
<1>1. /\ capacity \in Nat \ {0}
      /\ front \in Nat /\ back \in Nat /\ front < capacity /\ back < capacity
  BY SizesAssumption DEF SizesAssumption, TypeOK
<1>2. numMessages \in 0..(capacity - 1)
  BY <1>1 DEF numMessages
<1>3. \A k \in 1..numMessages : Cell(k) \in 0..(capacity - 1) /\ Used(Cell(k))
  BY <1>1 DEF numMessages, Cell, Used
<1>4. ASSUME NEW i \in 0..(capacity - 1), Used(i)
      PROVE  \E k \in 1..numMessages : i = Cell(k)
  <2>1. CASE front <= i
    <3>1. i - front + 1 \in 1..numMessages /\ i = Cell(i - front + 1)
      BY <1>1, <1>4, <2>1 DEF numMessages, Cell, Used
    <3> QED BY <3>1, Zenon
  <2>2. CASE i < front
    <3>1. /\ i + capacity - front + 1 \in 1..numMessages
          /\ i = Cell(i + capacity - front + 1)
      BY <1>1, <1>4, <2>2 DEF numMessages, Cell, Used
    <3> QED BY <3>1, Zenon
  <2> QED BY <2>1, <2>2, <1>1
<1> QED BY <1>1, <1>2, <1>3, <1>4, Zenon

\* The invariant, in the form the runs check it.
LEMMA LiveUsedIsLiveCells ==
  ASSUME Inv
  PROVE  LiveCells
<1>1. TypeOK /\ LiveUsed /\ DOMAIN queue = 0..(capacity - 1)
  BY Zenon DEF Inv, TypeOK
<1>2. ASSUME NEW i
      PROVE  i \in {j \in DOMAIN queue : queue[j] # Garbage}
               <=> i \in {Cell(k) : k \in 1..numMessages}
  <2>1. i \in {j \in DOMAIN queue : queue[j] # Garbage}
          <=> i \in 0..(capacity - 1) /\ Used(i)
    BY <1>1, Zenon DEF LiveUsed
  <2>2. i \in {Cell(k) : k \in 1..numMessages}
          <=> i \in 0..(capacity - 1) /\ Used(i)
    BY <1>1, Counting, Zenon
  <2> QED BY <2>1, <2>2, Zenon
<1> QED BY <1>2, Zenon DEF LiveCells

\* An empty ring satisfies the invariant.
LEMMA InitInv == Init => Inv
BY SizesAssumption DEF SizesAssumption, Init, Inv, TypeOK, LiveUsed, Used

\* push() keeps the invariant.
LEMMA PushInv ==
  ASSUME Inv, NEW e \in Elements, push(e)
  PROVE  Inv'
<1>1. /\ TypeOK /\ LiveUsed /\ capacity \in Nat \ {0}
      /\ front \in Nat /\ back \in Nat /\ front < capacity /\ back < capacity
  BY Counting DEF Inv, TypeOK
<1>2. /\ front # incIdx(back) /\ back' = incIdx(back)
      /\ capacity' = capacity /\ front' = front
      /\ queue' = [i \in DOMAIN queue |-> IF i = back THEN e ELSE queue[i]]
      /\ DOMAIN queue = 0..(capacity - 1)
  BY <1>1, Zenon DEF push, hasFreeSpace, TypeOK
<1>3. back' \in 0..(capacity - 1)
  BY <1>1, <1>2 DEF incIdx
<1>4. TypeOK'
  BY <1>1, <1>2, <1>3, Zenon DEF TypeOK
<1>5. ASSUME NEW i \in 0..(capacity - 1)
      PROVE  Used(i)' <=> (Used(i) \/ i = back)
  BY <1>1, <1>2 DEF Used, incIdx
<1>6. LiveUsed'
  BY <1>1, <1>2, <1>5, SizesAssumption, Zenon DEF LiveUsed, SizesAssumption
<1> QED BY <1>4, <1>6, Zenon DEF Inv

\* pop() keeps the invariant.
LEMMA PopInv ==
  ASSUME Inv, pop
  PROVE  Inv'
<1>1. /\ TypeOK /\ LiveUsed /\ capacity \in Nat \ {0}
      /\ front \in Nat /\ back \in Nat /\ front < capacity /\ back < capacity
  BY Counting DEF Inv, TypeOK
<1>2. /\ front # back /\ front' = incIdx(front)
      /\ capacity' = capacity /\ back' = back
      /\ queue' = [queue EXCEPT ![front] = Garbage]
  BY Zenon DEF pop, hasMessage
<1>3. front' \in 0..(capacity - 1)
  BY <1>1, <1>2 DEF incIdx
<1>4. TypeOK'
  BY <1>1, <1>2, <1>3, Zenon DEF TypeOK
<1>5. ASSUME NEW i \in 0..(capacity - 1)
      PROVE  Used(i)' <=> (Used(i) /\ i # front)
  BY <1>1, <1>2 DEF Used, incIdx
<1>6. LiveUsed'
  BY <1>1, <1>2, <1>5, Zenon DEF LiveUsed, TypeOK
<1> QED BY <1>4, <1>6, Zenon DEF Inv

\* setCapacity() keeps the invariant if there is room for what is stored.
LEMMA SetCapacityInv ==
  ASSUME Inv, Shrink = FALSE, NEW n \in Sizes, setCapacity(n)
  PROVE  Inv'
<1>1. /\ TypeOK /\ LiveUsed /\ n \in Nat \ {0}
      /\ numMessages \in 0..(capacity - 1)
      /\ \A k \in 1..numMessages : Cell(k) \in 0..(capacity - 1) /\ Used(Cell(k))
  BY Counting, SizesAssumption, Zenon DEF Inv, SizesAssumption
<1>2. capacity \in Nat \ {0}
  BY <1>1, Counting, Zenon
<1>3. Moved(n) = numMessages /\ numMessages < n
  BY Zenon DEF setCapacity, Moved
<1>4. /\ queue' = [i \in 0..(n - 1) |->
                     IF i < numMessages THEN queue[Cell(i + 1)] ELSE Garbage]
      /\ front' = 0 /\ back' = numMessages /\ capacity' = n
  BY <1>3, Zenon DEF setCapacity
<1>5. ASSUME NEW i \in 0..(n - 1)
      PROVE  /\ queue'[i] \in Elements \cup {Garbage}
             /\ queue'[i] # Garbage <=> i < numMessages
  <2>1. CASE i < numMessages
    <3>1. i + 1 \in 1..numMessages
      BY <2>1, <1>1, <1>2
    <3>2. Cell(i + 1) \in 0..(capacity - 1) /\ Used(Cell(i + 1))
      BY <3>1, <1>1, Zenon
    <3>3. queue[Cell(i + 1)] # Garbage
      BY <3>2, <1>1, Zenon DEF LiveUsed
    <3>4. queue[Cell(i + 1)] \in Elements \cup {Garbage}
      BY <3>2, <1>1, Zenon DEF TypeOK
    <3>5. queue'[i] = queue[Cell(i + 1)]
      BY <1>4, <2>1, Zenon
    <3> QED BY <2>1, <3>3, <3>4, <3>5, Zenon
  <2>2. CASE ~(i < numMessages)
    BY <1>4, <2>2, Zenon
  <2> QED BY <2>1, <2>2, Zenon
<1>6. TypeOK'
  <2>1. queue' \in [0..(n - 1) -> Elements \cup {Garbage}]
    BY <1>4, <1>5, Zenon
  <2>2. front' \in 0..(n - 1) /\ back' \in 0..(n - 1)
    BY <1>1, <1>2, <1>3, <1>4
  <2> QED BY <2>1, <2>2, <1>4, Zenon DEF TypeOK
<1>7. ASSUME NEW i \in 0..(n - 1)
      PROVE  Used(i)' <=> i < numMessages
  BY <1>1, <1>2, <1>4 DEF Used
<1>8. LiveUsed'
  BY <1>4, <1>5, <1>7, Zenon DEF LiveUsed
<1> QED BY <1>6, <1>8, Zenon DEF Inv

\* Every step keeps the invariant.
LEMMA NextInv ==
  ASSUME Inv, Shrink = FALSE, [Next]_vars
  PROVE  Inv'
<1>1. CASE UNCHANGED vars
  BY <1>1, Zenon DEF Inv, TypeOK, LiveUsed, Used, vars
<1>2. ASSUME NEW e \in Elements, push(e) PROVE Inv'
  BY <1>2, PushInv, Zenon
<1>3. CASE pop
  BY <1>3, PopInv, Zenon
<1>4. ASSUME NEW n \in Sizes, setCapacity(n) PROVE Inv'
  BY <1>4, SetCapacityInv, Zenon
<1> QED BY <1>1, <1>2, <1>3, <1>4, Zenon DEF Next

\* Inv is an invariant of queue.hpp, however push(), pop() and setCapacity()
\* follow one another, when no call shrinks the queue below what it holds.
THEOREM RingInvariant ==
  ASSUME Shrink = FALSE
  PROVE  Spec => []Inv
<1>1. Init => Inv
  BY InitInv, Zenon
<1>2. Inv /\ [Next]_vars => Inv'
  BY NextInv, Zenon
<1> QED BY <1>1, <1>2, PTL DEF Spec

\* Then the indices stay inside the array.
THEOREM RingTypes ==
  ASSUME Shrink = FALSE
  PROVE  Spec => []TypeOK
<1>1. Inv => TypeOK
  BY Zenon DEF Inv
<1> QED BY <1>1, RingInvariant, PTL

\* And the live elements are exactly those between front and back.
THEOREM RingSafety ==
  ASSUME Shrink = FALSE
  PROVE  Spec => []LiveCells
<1>1. Inv => LiveCells
  BY LiveUsedIsLiveCells, Zenon DEF Inv
<1> QED BY <1>1, RingInvariant, PTL

-----------------------------------------------------------------------------
\* What the ring stores is a sequence of numMessages elements.
LEMMA ContentsLen ==
  ASSUME TypeOK
  PROVE  Contents \in Seq(Elements \cup {Garbage}) /\ Len(Contents) = numMessages
<1>1. /\ numMessages \in Nat
      /\ \A k \in 1..numMessages : Cell(k) \in 0..(capacity - 1)
  BY Counting
<1>2. \A k \in 1..numMessages : queue[Cell(k)] \in Elements \cup {Garbage}
  BY <1>1, Zenon DEF TypeOK
<1>3. Contents \in [1..numMessages -> Elements \cup {Garbage}]
  BY <1>2, Zenon DEF Contents
<1> QED BY <1>1, <1>3

\* The same after a step.
LEMMA ContentsLenNext ==
  (TypeOK => /\ Contents \in Seq(Elements \cup {Garbage})
             /\ Len(Contents) = numMessages)'
<1>1. TypeOK => /\ Contents \in Seq(Elements \cup {Garbage})
                /\ Len(Contents) = numMessages
  BY ContentsLen, Zenon
<1> QED BY <1>1, PTL

\* push() appends its element to what the ring contains.
LEMMA PushAppends ==
  ASSUME TypeOK, TypeOK', NEW e \in Elements, push(e)
  PROVE  /\ Contents' = Append(Contents, e)
         /\ numMessages < capacity - 1
<1>1. /\ capacity \in Nat \ {0}
      /\ front \in Nat /\ back \in Nat /\ front < capacity /\ back < capacity
  BY Counting DEF TypeOK
<1>2. /\ front # incIdx(back) /\ back' = incIdx(back)
      /\ capacity' = capacity /\ front' = front
      /\ queue' = [i \in DOMAIN queue |-> IF i = back THEN e ELSE queue[i]]
      /\ DOMAIN queue = 0..(capacity - 1)
  BY Zenon DEF push, hasFreeSpace, TypeOK
<1>3. numMessages' = numMessages + 1 /\ numMessages < capacity - 1
  BY <1>1, <1>2 DEF numMessages, incIdx
<1>4. numMessages \in Nat
  BY Counting
<1>5. \A k \in Nat : k = numMessages + 1 => Cell(k)' = back
  BY <1>1, <1>2 DEF numMessages, Cell
<1>6. ASSUME NEW k \in 1..numMessages
      PROVE  Cell(k)' = Cell(k) /\ Cell(k) # back /\ Cell(k) \in 0..(capacity - 1)
  BY <1>1, <1>2 DEF numMessages, Cell
<1>7. /\ Contents \in Seq(Elements \cup {Garbage}) /\ Len(Contents) = numMessages
      /\ Contents' \in Seq(Elements \cup {Garbage})
      /\ Len(Contents') = numMessages + 1
  BY ContentsLen, ContentsLenNext, <1>3, Zenon
<1>8. ASSUME NEW k \in 1..(numMessages + 1)
      PROVE  Contents'[k] = Append(Contents, e)[k]
  <2>1. Contents'[k] = queue'[Cell(k)']
    BY <1>3, Zenon DEF Contents
  <2>2. CASE k = numMessages + 1
    <3>1. Contents'[k] = e
      BY <2>1, <2>2, <1>1, <1>2, <1>4, <1>5
    <3> QED BY <3>1, <2>2, <1>7
  <2>3. CASE k # numMessages + 1
    <3>1. k \in 1..numMessages
      BY <2>3, <1>4
    <3>2. Contents'[k] = queue[Cell(k)]
      BY <2>1, <3>1, <1>2, <1>6, Zenon
    <3>3. Contents[k] = queue[Cell(k)]
      BY <3>1, Zenon DEF Contents
    <3> QED BY <3>1, <3>2, <3>3, <1>7
  <2> QED BY <2>2, <2>3, Zenon
<1>9. /\ Append(Contents, e) \in Seq(Elements \cup {Garbage})
      /\ Len(Append(Contents, e)) = numMessages + 1
  BY <1>7
<1> QED BY <1>3, <1>7, <1>8, <1>9

\* pop() removes the oldest element.
LEMMA PopRemoves ==
  ASSUME TypeOK, TypeOK', pop
  PROVE  Contents # <<>> /\ Contents' = Tail(Contents)
<1>1. /\ capacity \in Nat \ {0}
      /\ front \in Nat /\ back \in Nat /\ front < capacity /\ back < capacity
  BY Counting DEF TypeOK
<1>2. /\ front # back /\ front' = incIdx(front)
      /\ capacity' = capacity /\ back' = back
      /\ queue' = [queue EXCEPT ![front] = Garbage]
  BY Zenon DEF pop, hasMessage
<1>3. numMessages > 0 /\ numMessages' = numMessages - 1
  BY <1>1, <1>2 DEF numMessages, incIdx
<1>4. numMessages \in Nat
  BY Counting
<1>5. ASSUME NEW k \in 1..(numMessages - 1)
      PROVE  /\ Cell(k)' = Cell(k + 1) /\ Cell(k + 1) # front
             /\ Cell(k + 1) \in 0..(capacity - 1)
  BY <1>1, <1>2 DEF numMessages, Cell, incIdx
<1>6. /\ Contents \in Seq(Elements \cup {Garbage}) /\ Len(Contents) = numMessages
      /\ Contents' \in Seq(Elements \cup {Garbage})
      /\ Len(Contents') = numMessages - 1
  BY ContentsLen, ContentsLenNext, <1>3, Zenon
<1>7. Contents # <<>>
  BY <1>3, <1>6
<1>8. ASSUME NEW k \in 1..(numMessages - 1)
      PROVE  Contents'[k] = Tail(Contents)[k]
  <2>1. Contents'[k] = queue'[Cell(k)']
    BY <1>3, Zenon DEF Contents
  <2>2. queue'[Cell(k)'] = queue[Cell(k + 1)]
    BY <1>2, <1>5, Zenon DEF TypeOK
  <2>3. k + 1 \in 1..numMessages
    BY <1>4
  <2>4. Contents[k + 1] = queue[Cell(k + 1)]
    BY <2>3, Zenon DEF Contents
  <2>5. Tail(Contents)[k] = Contents[k + 1]
    BY <1>4, <1>6, <1>7
  <2> QED BY <2>1, <2>2, <2>4, <2>5, Zenon
<1>9. /\ Tail(Contents) \in Seq(Elements \cup {Garbage})
      /\ Len(Tail(Contents)) = numMessages - 1
  BY <1>6, <1>7
<1> QED BY <1>6, <1>7, <1>8, <1>9

\* setCapacity() keeps what the ring contains when there is room for it.
LEMMA SetCapacityKeeps ==
  ASSUME TypeOK, TypeOK', Shrink = FALSE, NEW n \in Sizes, setCapacity(n)
  PROVE  Contents' = Contents /\ numMessages <= n - 1
<1>1. /\ capacity \in Nat \ {0} /\ n \in Nat \ {0}
      /\ numMessages \in Nat
  BY Counting, SizesAssumption DEF SizesAssumption
<1>2. Moved(n) = numMessages /\ numMessages < n
  BY Zenon DEF setCapacity, Moved
<1>3. /\ queue' = [i \in 0..(n - 1) |->
                     IF i < numMessages THEN queue[Cell(i + 1)] ELSE Garbage]
      /\ front' = 0 /\ back' = numMessages /\ capacity' = n
  BY <1>2, Zenon DEF setCapacity
<1>4. numMessages' = numMessages
  <2>1. numMessages' = IF back' >= front' THEN back' - front'
                                          ELSE capacity' - (front' - back')
    BY Zenon DEF numMessages
  <2> QED BY <2>1, <1>1, <1>3
<1>5. ASSUME NEW k \in 1..numMessages
      PROVE  queue'[Cell(k)'] = queue[Cell(k)]
  <2>1. Cell(k)' = k - 1
    BY <1>1, <1>2, <1>3 DEF Cell
  <2>2. k - 1 \in 0..(n - 1) /\ k - 1 < numMessages /\ (k - 1) + 1 = k
    BY <1>1, <1>2
  <2> QED BY <2>1, <2>2, <1>3, Zenon
<1> QED BY <1>1, <1>2, <1>4, <1>5 DEF Contents

\* The ring of queue.hpp behaves as a FIFO of one element less than its
\* capacity: every push(), pop() and setCapacity() is a step of Fifo, when no
\* call shrinks the queue below what it holds.
THEOREM RingRefinement ==
  ASSUME Shrink = FALSE
  PROVE  Spec => ImplementsFifo
<1>1. Init => F!Init
  <2> SUFFICES ASSUME Init PROVE F!Init
    BY Zenon
  <2>1. Inv
    BY InitInv, Zenon
  <2>2. numMessages = 0
    BY DEF Init, numMessages
  <2>3. Contents = <<>>
    BY <2>1, <2>2, ContentsLen DEF Inv
  <2> QED BY <2>3, Zenon DEF Init, F!Init
<1>2. Inv /\ Inv' /\ [Next]_vars => [F!Next]_(F!vars)
  <2> SUFFICES ASSUME Inv, Inv', [Next]_vars PROVE [F!Next]_(F!vars)
    BY Zenon
  <2>1. TypeOK /\ TypeOK' /\ Len(Contents) = numMessages
    BY ContentsLen, Zenon DEF Inv
  <2>2. CASE UNCHANGED vars
    BY <2>2, Zenon DEF vars, F!vars, Contents, numMessages, Cell
  <2>3. ASSUME NEW e \in Elements, push(e) PROVE F!Next
    <3>1. Contents' = Append(Contents, e) /\ numMessages < capacity - 1
      BY <2>1, <2>3, PushAppends, Zenon
    <3>2. capacity' = capacity
      BY <2>3, Zenon DEF push
    <3>3. F!Push(e)
      BY <2>1, <3>1, <3>2, Zenon DEF F!Push
    <3> QED BY <3>3, Zenon DEF F!Next
  <2>4. CASE pop
    <3>1. Contents # <<>> /\ Contents' = Tail(Contents)
      BY <2>1, <2>4, PopRemoves, Zenon
    <3>2. capacity' = capacity
      BY <2>4, Zenon DEF pop
    <3>3. F!Pop
      BY <3>1, <3>2, Zenon DEF F!Pop
    <3> QED BY <3>3, Zenon DEF F!Next
  <2>5. ASSUME NEW n \in Sizes, setCapacity(n) PROVE F!Next
    <3>1. Contents' = Contents /\ numMessages <= n - 1
      BY <2>1, <2>5, SetCapacityKeeps, Zenon
    <3>2. capacity' = n
      BY <2>5, Zenon DEF setCapacity
    <3>3. F!Resize(n - 1)
      BY <2>1, <3>1, <3>2, Zenon DEF F!Resize
    <3>4. n - 1 \in {m - 1 : m \in Sizes}
      BY Zenon
    <3> QED BY <3>3, <3>4, Zenon DEF F!Next
  <2> QED BY <2>2, <2>3, <2>4, <2>5, Zenon DEF Next
<1>3. Init => Inv
  BY InitInv, Zenon
<1>4. Inv /\ [Next]_vars => Inv'
  BY NextInv, Zenon
<1> QED BY <1>1, <1>2, <1>3, <1>4, PTL DEF Spec, F!Spec, ImplementsFifo
=============================================================================
