--------------------------- MODULE LfBcastProofs ----------------------------
(***************************************************************************)
(* QueueInv is an invariant of the broadcast queue, for any number of      *)
(* publishers and subscribers, any depth and any bounds, and the queue     *)
(* implements BcastLog: a commit appends to the log, a head that moves     *)
(* rolls a message off, and a subscriber's read, validated afterwards,     *)
(* delivers a whole message or counts a drop.  The lemmas come first: the  *)
(* arithmetic of slots and indices, types, and what a step leaves alone.   *)
(***************************************************************************)
EXTENDS LfBcast, TLAPS

\* A leaf is left to Zenon unless it names another prover.
USE Zenon

-----------------------------------------------------------------------------
(* Slots, types and what a step leaves alone. *)

\* The slot of an index exists.
LEMMA SlotRange ==
  ASSUME NEW i \in Nat
  PROVE  SlotOf(i) \in 0..Depth - 1
BY SMT, DepthAssumption DEF SlotOf, DepthAssumption

\* A number is determined by its remainder and its turn.
LEMMA Turn ==
  ASSUME NEW m \in Nat \ {0}, NEW i \in Nat
  PROVE  i \div m \in Nat /\ i % m \in 0..m - 1 /\ i = m * (i \div m) + (i % m)
<1>1. i \div m \in Nat /\ i = m * (i \div m) + (i % m)
  BY SMT
<1>2. i % m \in 0..m - 1
  BY SMT
<1> QED  BY <1>1, <1>2

\* Multiples of m are at least m apart.
LEMMA TurnsApart ==
  ASSUME NEW m \in Nat \ {0}, NEW a \in Nat, NEW b \in Nat, a < b
  PROVE  m * a + m <= m * b
<1>1. PICK k \in Nat : b = a + 1 + k
  <2>1. b - a - 1 \in Nat /\ b = a + 1 + (b - a - 1)
    BY SMT
  <2> QED  BY <2>1
<1>2. m * b = m * a + m + m * k
  BY SMT, <1>1
<1>3. m * k \in Nat /\ m * a \in Nat
  BY SMT
<1> QED  BY SMT, <1>2, <1>3

\* Two different numbers that are less than m apart have different remainders.
LEMMA RemaindersDiffer ==
  ASSUME NEW m \in Nat \ {0}, NEW i \in Nat, NEW j \in Nat, i < j, j < i + m
  PROVE  i % m # j % m
<1> DEFINE a == i \div m
           b == j \div m
<1>1. a \in Nat /\ b \in Nat /\ i = m * a + (i % m) /\ j = m * b + (j % m)
  BY Turn
<1>2. i % m \in 0..m - 1 /\ j % m \in 0..m - 1
  BY Turn
<1>3. m * a \in Nat /\ m * b \in Nat /\ m \in Nat
  BY SMT, <1>1
<1>4. a < b => m * a + m <= m * b
  BY <1>1, TurnsApart
<1>5. b < a => m * b + m <= m * a
  BY <1>1, TurnsApart
<1>6. a < b \/ b < a \/ m * a = m * b
  BY SMT, <1>1
<1> HIDE DEF a, b
<1> QED  BY SMT, <1>1, <1>2, <1>3, <1>4, <1>5, <1>6

\* An index is determined by its slot and its turn around the queue.
LEMMA SlotTurn ==
  ASSUME NEW i \in Nat
  PROVE  /\ i \div Depth \in Nat
         /\ i = Depth * (i \div Depth) + SlotOf(i)
BY SMT, Turn, DepthAssumption DEF SlotOf, DepthAssumption

\* Two different indices that are less than Depth apart have different slots.
LEMMA SlotsDiffer ==
  ASSUME NEW i \in Nat, NEW j \in Nat, i < j, j < i + Depth
  PROVE  SlotOf(i) # SlotOf(j)
BY RemaindersDiffer, DepthAssumption DEF SlotOf, DepthAssumption

\* Indices Depth apart share their slot.
LEMMA SlotRepeats ==
  ASSUME NEW i \in Nat
  PROVE  SlotOf(i + Depth) = SlotOf(i)
<1> DEFINE a == i \div Depth
           b == (i + Depth) \div Depth
<1>0. i + Depth \in Nat
  BY SMT, DepthAssumption DEF DepthAssumption
<1>1. a \in Nat /\ b \in Nat /\ i = Depth * a + SlotOf(i)
      /\ i + Depth = Depth * b + SlotOf(i + Depth)
  BY <1>0, SlotTurn
<1>2. SlotOf(i) \in 0..Depth - 1 /\ SlotOf(i + Depth) \in 0..Depth - 1
  BY <1>0, SlotRange
<1>3. Depth * a \in Nat /\ Depth * b \in Nat /\ Depth * (a + 1) \in Nat /\ Depth \in Nat
  BY SMT, <1>1, DepthAssumption DEF DepthAssumption
<1>4. a + 1 < b => Depth * (a + 1) + Depth <= Depth * b
  BY SMT, <1>1, TurnsApart, DepthAssumption DEF DepthAssumption
<1>5. b < a + 1 => Depth * b + Depth <= Depth * (a + 1)
  BY SMT, <1>1, TurnsApart, DepthAssumption DEF DepthAssumption
<1>6. a + 1 < b \/ b < a + 1 \/ Depth * (a + 1) = Depth * b
  BY SMT, <1>1
<1>7. Depth * (a + 1) = Depth * a + Depth
  BY SMT, <1>1, DepthAssumption DEF DepthAssumption
<1> HIDE DEF a, b
<1> QED  BY SMT, <1>1, <1>2, <1>3, <1>4, <1>5, <1>6, <1>7
-----------------------------------------------------------------------------
(* Numbers: what the steps below use of the order of the indices. *)

\* A number in an interval from zero.
LEMMA InRange ==
  ASSUME NEW n \in Nat, NEW a \in 0..n
  PROVE  a \in Nat /\ a <= n
BY SMT

\* A number up to a bound.
LEMMA UpTo ==
  ASSUME NEW n \in Nat, NEW a \in Nat, a <= n
  PROVE  a \in 0..n /\ (a # 0 => a \in 1..n)
BY SMT

\* Zero, which forgotten loads hold, is below every index.
LEMMA Zeroes ==
  ASSUME NEW n \in Nat
  PROVE  0 <= n /\ n <= n /\ NoSlot.tag <= n
BY SMT DEF NoSlot

\* A slot loaded half, over a cleared local, has no later tag.
LEMMA LoadedTag ==
  ASSUME NEW n \in Nat, NEW m, m.tag \in 0..n, NEW hf
  PROVE  LoadHalf(NoSlot, m, hf).tag <= n
BY SMT DEF LoadHalf, NoSlot

\* The half that is loaded, and the one that is left.
LEMMA LoadedHalf ==
  ASSUME NEW r, NEW m
  PROVE  /\ LoadHalf(r, m, "tag").tag = m.tag /\ Other("tag") = "val"
         /\ LoadHalf(r, m, "val").val = m.val /\ Other("val") = "tag"
BY SMT DEF LoadHalf, Other

\* dequeue_head's load: only the val of the slot.
LEMMA LoadedVal ==
  ASSUME NEW m
  PROVE  LoadHalf(NoSlot, m, "val").tag = 0 /\ LoadHalf(NoSlot, m, "val").val = m.val
BY SMT DEF LoadHalf, NoSlot

\* What lf_bcast_pub finds out of a slot's tag, of an index that is not zero.
LEMMA FoundTag ==
  ASSUME NEW n \in Nat, NEW c \in 0..n, NEW a \in Nat \ {0}
  PROVE  c \in Nat /\ c <= n /\ a # 0 /\ 0 < a /\ (a = c => a \in 1..n)
BY SMT

\* The order of a head, a tail and the end of the log once the head has moved.
LEMMA HeadAdvances ==
  ASSUME NEW a \in Nat, NEW b \in Nat, NEW n \in Nat, a < b, b \in {n, n + 1},
         n < a + Depth
  PROVE  /\ a + 1 <= b /\ n < a + 1 + Depth
         /\ a <= n /\ (a # 0 => a \in 1..n)
BY SMT, DepthAssumption DEF DepthAssumption

\* The window once the head has moved.
LEMMA WindowShrinks ==
  ASSUME NEW a \in Nat, NEW n \in Nat, a <= n
  PROVE  (a + 1)..n \subseteq a..n /\ a \in a..n /\ a \notin (a + 1)..n
BY SMT

\* The window once a message has been committed.
LEMMA WindowGrows ==
  ASSUME NEW a \in Nat, NEW n \in Nat, a <= n + 1
  PROVE  a..(n + 1) = (a..n) \cup {n + 1} /\ n + 1 \notin a..n
BY SMT

\* A window that starts after zero names entries of the log.
LEMMA WindowInLog ==
  ASSUME NEW a \in Nat \ {0}, NEW n \in Nat
  PROVE  a..n \subseteq 1..n
BY SMT

\* An index that is behind the slot's tag, if the slot is taken, is the next.
LEMMA NextIndex ==
  ASSUME NEW n \in Nat, NEW b \in Nat, NEW a \in Nat, NEW c \in Nat,
         b \in {n, n + 1}, a # 0, c < a, a <= b, a \in 1..n => c >= a
  PROVE  a = n + 1 /\ b = n + 1
BY SMT

\* What is behind an old head is behind the head.
LEMMA BehindHead ==
  ASSUME NEW c \in Nat, NEW a \in Nat, NEW b \in Nat, c < a, a <= b
  PROVE  c < b
BY SMT

\* The index after one that is behind the tail.
LEMMA AfterIndex ==
  ASSUME NEW a \in Nat, NEW b \in Nat, a < b
  PROVE  a + 1 \in Nat /\ a + 1 <= b /\ a + 1 # 0 /\ a <= b
BY SMT

\* An entry of the log, by its index.
LEMMA FromOne ==
  ASSUME NEW n \in Nat, NEW i \in 1..n
  PROVE  i \in Nat /\ i # 0 /\ i <= n
BY SMT

\* The entries before the one that is appended.
LEMMA BeforeNext ==
  ASSUME NEW n \in Nat, NEW i \in 1..(n + 1), i # n + 1
  PROVE  i \in 1..n /\ i < n + 1
BY SMT

\* The bounds that a longer log keeps.
LEMMA OneMore ==
  ASSUME NEW n \in Nat
  PROVE  /\ n + 1 \in Nat /\ n + 1 >= n /\ n >= n
         /\ \A a \in Nat : a <= n => a <= n + 1
         /\ \A a \in Nat : a < n => n >= a
BY SMT

\* Appending to a log.
LEMMA Appended ==
  ASSUME NEW S, NEW l \in Seq(S), NEW e
  PROVE  /\ Len(Append(l, e)) = Len(l) + 1
         /\ Append(l, e)[Len(l) + 1] = e
         /\ \A i \in 1..Len(l) : Append(l, e)[i] = l[i]
BY SMT

\* A counter that is counted up.
LEMMA CountUp ==
  ASSUME NEW n \in Nat
  PROVE  n + 1 > 0 /\ n <= n + 1 /\ n <= n
BY SMT

\* A bound on a count stays one on a smaller count.
LEMMA Bounded ==
  ASSUME NEW a \in Nat, NEW b \in Nat, NEW c \in Nat, a <= b, b <= c
  PROVE  a <= c
BY SMT

\* At most one element is added, and one is added to its bound.
LEMMA OneAdded ==
  ASSUME NEW c \in Nat, NEW b \in Nat, NEW d, d = c \/ d = c + 1
  PROVE  /\ c <= b => d <= b + 1
         /\ c < b => d < b + 1
         /\ c <= b /\ d = c => d < b + 1
BY SMT

\* Of the elements that are in no other place, fewer than one a publisher.
LEMMA Shortfall ==
  ASSUME NEW d \in Nat, NEW f \in Nat, NEW l \in Nat, NEW k \in Nat,
         NEW r \in Nat, NEW c \in Nat, NEW n \in Nat, NEW a \in Nat, NEW q,
         d <= f + l + q + (n - a + 1), f <= r, l <= c,
         \/ q = k - 1 /\ n < a
         \/ q = k - 1 /\ n = a /\ l < c
         \/ q = k - 1 - 1 /\ n = a
  PROVE  d < k + c + r
BY SMT

\* An element added to a set, unless it is the null reference.
LEMMA UnlessNull ==
  ASSUME NEW S, NEW b
  PROVE  /\ b = 0 => S \cup ({b} \ {0}) = S
         /\ b # 0 => S \cup ({b} \ {0}) = S \cup {b}
BY SMT

\* The parts of a slot that is written whole.
LEMMA NewSlot ==
  ASSUME NEW e, NEW a, NEW b, e = [tag |-> a, val |-> b]
  PROVE  e.tag = a /\ e.val = b
BY SMT

\* The null reference is no element.
LEMMA NullBuf == 0 \notin Bufs
BY SMT DEF Bufs

\* An element that is not the null reference is one of the pool's.
LEMMA OwnedBuf ==
  ASSUME NEW c \in 0..NumBufs, c # 0
  PROVE  c \in Bufs
BY SMT, DepthAssumption DEF NumBufs, Bufs, DepthAssumption

-----------------------------------------------------------------------------
(* Types *)

\* What is loaded from a slot, whole or torn, has the type of a slot.
LEMMA LoadHalfType ==
  ASSUME NEW r \in Slot, NEW m \in Slot, NEW hf \in Halves
  PROVE  /\ LoadHalf(r, m, hf) \in Slot
         /\ NoSlot \in Slot
         /\ Other(hf) \in Halves
BY SMT, DepthAssumption
   DEF LoadHalf, Slot, NoSlot, Other, Halves, NumBufs, DepthAssumption

\* The pool has as many elements as the queue has slots.
LEMMA BufsType == NumBufs \in Nat /\ Bufs = 1..NumBufs /\ NoSlot \in Slot
BY SMT, DepthAssumption DEF NumBufs, Bufs, DepthAssumption, NoSlot, Slot

\* Bytes of no message are a buffer's content too.
LEMMA JunkType == Junk \in Buffer /\ MaxMsgs \in Nat
BY SMT, BoundsAssumption DEF Junk, Buffer, BoundsAssumption

\* A link overlays the size of a buffer.
LEMMA ZeroSize ==
  ASSUME NEW d \in [Bufs -> Buffer], NEW b
  PROVE  [d EXCEPT ![b].size = 0] \in [Bufs -> Buffer]
<1>1. 0 \in 0..MaxMsgs
  BY SMT, JunkType
<1> QED  BY <1>1 DEF Buffer

\* So does storing a size or a body in one of them.
LEMMA SetField ==
  ASSUME NEW D, NEW d \in [D -> Buffer], NEW b, NEW v \in 0..MaxMsgs
  PROVE  /\ [d EXCEPT ![b].size = v] \in [D -> Buffer]
         /\ [d EXCEPT ![b].body = v] \in [D -> Buffer]
BY DEF Buffer

\* Slots that an index selects have their type.
LEMMA SlotType ==
  ASSUME TypeOK, NEW i \in Nat
  PROVE  slots[SlotOf(i)] \in Slot
BY SlotRange DEF TypeOK, SharedTypes

\* A publisher that owns a buffer owns a real one, for a real message.
LEMMA OwnerTypes ==
  ASSUME QueueInv, NEW p \in Pubs
  PROVE  /\ pc[p] # "idle" => msg[p] \in Msgs
         /\ pc[p] \in Owning => buf[p] \in Bufs
<1>1. TypeOK /\ PubLocals /\ OneOwner
  BY DEF QueueInv
<1> QED
  BY SMT, <1>1, BufsType, JunkType DEF TypeOK, PubTypes, PubLocals, PubLocal, OneOwner, Msgs

\* Sending keeps the types of the publishers' locals.
LEMMA SendPubTypes ==
  ASSUME QueueInv, NEW p \in Pubs, SendMsg(p) \/ BufRelease(p) \/ Crash(p)
  PROVE  PubTypes'
<1> USE DEF Goto, Forget, shared, plocals, publ, slocals, subl, bounds
<1>t. TypeOK /\ PubTypes /\ SharedTypes
  BY DEF QueueInv, TypeOK
<1>1. CASE StartSend(p)
  BY SMT, <1>t, <1>1, JunkType
     DEF StartSend, PubTypes, PubPcs, TypeOK, BoundTypes
<1>2. CASE AcqFromPool(p)
  BY SMTT(30), <1>t, <1>2, BufsType
     DEF AcqFromPool, SharedTypes, PubTypes, PubPcs
<1>3. CASE AcqPoolEmpty(p)
  BY <1>t, <1>3
     DEF AcqPoolEmpty, PubTypes, PubPcs
<1>4. CASE AcqReadHead(p)
  BY <1>t, <1>4
     DEF AcqReadHead, SharedTypes, PubTypes, PubPcs
<1>5. CASE AcqReadTail(p)
  BY <1>t, <1>5
     DEF AcqReadTail, PubTypes, PubPcs
<1>6. CASE AcqReadSlot(p)
  BY <1>t, <1>6, SlotType, BufsType, LoadHalfType
     DEF AcqReadSlot, Halves, PubTypes, PubPcs
<1>7. CASE AcqCas(p)
  BY <1>t, <1>7, BufsType
     DEF AcqCas, Slot, PubTypes, PubPcs
<1>8. CASE AcqCasFail(p)
  BY <1>t, <1>8, BufsType
     DEF AcqCasFail, PubTypes, PubPcs
<1>9. CASE FillSize(p)
  BY <1>t, <1>9
     DEF FillSize, PubTypes, PubPcs
<1>10. CASE FillBody(p)
  BY <1>t, <1>10
     DEF FillBody, PubTypes, PubPcs
<1>11. CASE PubLoadFirst(p)
  BY SMTT(30), <1>t, <1>11
     DEF PubLoadFirst, SharedTypes, PubTypes, PubPcs
<1>12. CASE PubLoadTail(p)
  BY <1>t, <1>12
     DEF PubLoadTail, SharedTypes, PubTypes, PubPcs
<1>13. CASE PubLoadHead(p)
  BY <1>t, <1>13
     DEF PubLoadHead, SharedTypes, PubTypes, PubPcs
<1>14. CASE PubLoadSlot(p)
  <2>1. t[p] \in Nat /\ slots[SlotOf(t[p])] \in Slot
    BY <1>t, SlotType DEF PubTypes
  <2>2. \A first \in Halves :
          /\ LoadHalf(NoSlot, slots[SlotOf(t[p])], first) \in Slot
          /\ Other(first) \in Halves
    BY <2>1, BufsType, LoadHalfType
  <2> QED  BY SMT, <1>t, <1>14, <2>2 DEF PubLoadSlot, PubTypes, PubPcs
<1>15. CASE PubLoadSlot2(p)
  <2>1. t[p] \in Nat /\ slots[SlotOf(t[p])] \in Slot /\ cur[p] \in Slot
    BY <1>t, SlotType DEF PubTypes
  <2> DEFINE c == LoadHalf(cur[p], slots[SlotOf(t[p])], left[p])
  <2>2. c \in Slot
    BY <1>t, <2>1, LoadHalfType DEF PubTypes
  <2>3. c.tag \in Nat /\ h[p] \in Nat
    BY <1>t, <2>2 DEF Slot, PubTypes
  <2> HIDE DEF c
  <2>4. Verdict(h[p], t[p], c.tag) \in PubPcs
    BY SMT, <2>1, <2>3 DEF Verdict, PubPcs
  <2> QED  BY <1>t, <1>15, <2>2, <2>4 DEF c, PubLoadSlot2, PubTypes
<1>16. CASE PubFixTail(p)
  BY <1>t, <1>16, BufsType
     DEF PubFixTail, PubTypes, PubPcs
<1>17. CASE PubDropHead(p)
  BY <1>t, <1>17, BufsType
     DEF PubDropHead, PubTypes, PubPcs
<1>18. CASE PubCas(p)
  BY SMTT(30), <1>t, <1>18, BufsType
     DEF PubCas, PubTypes, PubPcs
<1>19. CASE PubCasFail(p)
  BY <1>t, <1>19, BufsType
     DEF PubCasFail, PubTypes, PubPcs
<1>20. CASE PubBumpTail(p)
  BY <1>t, <1>20, BufsType
     DEF PubBumpTail, PubTypes, PubPcs
<1>21. CASE PubWake(p)
  BY SMTT(30), <1>t, <1>21, BufsType, JunkType
     DEF PubWake, PubTypes, PubPcs
<1>22. CASE BufRelease(p)
  BY SMT, <1>t, <1>22, BufsType, JunkType
     DEF BufRelease, PubTypes, PubPcs
<1>23. CASE Crash(p)
  BY SMTT(30), <1>t, <1>23, BufsType, JunkType
     DEF Crash, PubTypes, PubPcs
<1> QED
  BY <1>1, <1>2, <1>3, <1>4, <1>5, <1>6, <1>7, <1>8, <1>9, <1>10, <1>11, <1>12, <1>13,
     <1>14, <1>15, <1>16, <1>17, <1>18, <1>19, <1>20, <1>21, <1>22, <1>23, Zenon
     DEF SendMsg, BufAcquire, Publish

\* Sending keeps the types of the shared region.
LEMMA SendSharedTypes ==
  ASSUME QueueInv, NEW p \in Pubs, SendMsg(p) \/ BufRelease(p) \/ Crash(p)
  PROVE  SharedTypes'
<1> USE DEF Goto, Forget, shared, plocals, publ, slocals, subl, bounds
<1>t. TypeOK /\ PubTypes /\ SharedTypes
  BY DEF QueueInv, TypeOK
<1>o. /\ pc[p] # "idle" => msg[p] \in Msgs
      /\ pc[p] \in Owning => buf[p] \in Bufs
  BY OwnerTypes
<1>d. pc[p] = "pub_drop" => slots[SlotOf(h[p])].val \in Bufs
  <2>1. Window /\ SlotsIntact /\ SlotTags /\ PubLocals
    BY DEF QueueInv
  <2>2. SUFFICES ASSUME pc[p] = "pub_drop"
                 PROVE  slots[SlotOf(h[p])].val \in Bufs
    OBVIOUS
  <2>3. h[p] \in 1..N
    BY SMT, <1>t, <2>1, <2>2 DEF PubLocals, PubLocal, Window, PubTypes, SharedTypes, N
  <2>4. h[p] \in Nat
    BY <1>t DEF PubTypes
  <2>5. SlotOf(h[p]) \in 0..Depth - 1 /\ slots[SlotOf(h[p])] \in Slot
    BY <1>t, <2>4, SlotRange, SlotType
  <2>6. slots[SlotOf(h[p])].tag >= h[p]
    BY <2>1, <2>3 DEF SlotsIntact
  <2> QED  BY SMT, <2>1, <2>3, <2>5, <2>6, BufsType DEF SlotTags, Slot
<1>1. CASE AcqFromPool(p)
  BY <1>t, <1>1
     DEF AcqFromPool, SharedTypes
<1>2. CASE AcqCas(p)
  BY SMT, <1>t, <1>2
     DEF AcqCas, SharedTypes
<1>3. CASE FillSize(p)
  BY <1>t, <1>3
     DEF FillSize, Buffer, PubTypes, SharedTypes
<1>4. CASE FillBody(p)
  BY <1>t, <1>4
     DEF FillBody, Buffer, PubTypes, SharedTypes
<1>5. CASE PubFixTail(p)
  BY SMT, <1>t, <1>5
     DEF PubFixTail, SharedTypes
<1>6. CASE PubDropHead(p)
  <2>1. /\ pc[p] = "pub_drop"
        /\ head' \in {head, head + 1}
        /\ pool' \in {pool, pool \cup {slots[SlotOf(h[p])].val}}
        /\ \/ data' = data
           \/ data' = [data EXCEPT ![slots[SlotOf(h[p])].val].size = 0]
        /\ tail' = tail /\ slots' = slots /\ log' = log
    BY <1>6 DEF PubDropHead
  <2>2. data' \in [Bufs -> Buffer]
    BY SMT, <1>t, <2>1, ZeroSize DEF SharedTypes
  <2> QED  BY SMTT(30), <1>t, <2>1, <2>2, <1>d DEF SharedTypes
<1>7. CASE PubCas(p)
  <2>1. msg[p] \in Msgs /\ buf[p] \in Bufs /\ t[p] \in Nat
    BY <1>t, <1>7, <1>o DEF PubCas, Owning, Publishing, PubTypes
  <2>2. slots' \in [0..Depth - 1 -> Slot]
    <3>1. [tag |-> t[p], val |-> buf[p]] \in Slot
      BY SMT, <2>1, BufsType DEF Slot
    <3> QED  BY <1>t, <1>7, <3>1 DEF PubCas, SharedTypes
  <2>3. log' \in Seq([msg : Msgs, buf : Bufs])
    BY SMT, <1>t, <1>7, <2>1 DEF PubCas, SharedTypes
  <2> QED  BY <1>t, <1>7, <2>2, <2>3 DEF PubCas, SharedTypes
<1>8. CASE PubBumpTail(p)
  BY SMT, <1>t, <1>8
     DEF PubBumpTail, SharedTypes
<1>9. CASE BufRelease(p)
  <2>1. buf[p] \in Bufs
    BY <1>9, <1>o DEF BufRelease, Owning
  <2>2. data' \in [Bufs -> Buffer]
    BY <1>t, <1>9, ZeroSize DEF BufRelease, SharedTypes
  <2> QED  BY <1>t, <1>9, <2>1, <2>2 DEF BufRelease, SharedTypes
<1>10. CASE \/ StartSend(p) \/ AcqPoolEmpty(p) \/ AcqReadHead(p)
         \/ AcqReadTail(p) \/ AcqReadSlot(p) \/ AcqCasFail(p)
         \/ PubLoadFirst(p) \/ PubLoadTail(p) \/ PubLoadHead(p)
         \/ PubLoadSlot(p) \/ PubLoadSlot2(p) \/ PubCasFail(p)
         \/ PubWake(p) \/ Crash(p)
  BY <1>t, <1>10
     DEF StartSend, AcqPoolEmpty, AcqReadHead, AcqReadTail, AcqReadSlot, AcqCasFail,
         PubLoadFirst, PubLoadTail, PubLoadHead, PubLoadSlot, PubLoadSlot2,
         PubCasFail, PubWake, Crash, SharedTypes
<1> QED
  BY <1>1, <1>2, <1>3, <1>4, <1>5, <1>6, <1>7, <1>8, <1>9, <1>10
     DEF SendMsg, BufAcquire, Publish

\* Sending keeps the types of the subscribers' state and of the bounds.
LEMMA SendOtherTypes ==
  ASSUME QueueInv, NEW p \in Pubs, SendMsg(p) \/ BufRelease(p) \/ Crash(p)
  PROVE  SubTypes' /\ BoundTypes'
<1> USE DEF Goto, Forget, shared, plocals, publ, slocals, subl, bounds
<1>t. SubTypes /\ BoundTypes /\ PubTypes
  BY DEF QueueInv, TypeOK
<1>1. CASE PubWake(p)
  BY <1>t, <1>1
     DEF PubWake, SubTypes, SubPcs, BoundTypes
<1>2. CASE StartSend(p)
  BY SMT, <1>t, <1>2, JunkType
     DEF StartSend, SubTypes, BoundTypes
<1>3. CASE BufRelease(p)
  BY SMT, <1>t, <1>3
     DEF BufRelease, SubTypes, BoundTypes
<1>4. CASE Crash(p)
  <2>1. leaked' \in SUBSET Bufs
    <3>1. {buf[p]} \ {0} \subseteq Bufs
      BY SMT, <1>t, BufsType DEF PubTypes
    <3> QED  BY <1>t, <1>4, <3>1 DEF Crash, BoundTypes
  <2> QED  BY SMT, <1>t, <1>4, <2>1 DEF Crash, SubTypes, BoundTypes
<1>5. CASE \/ AcqFromPool(p) \/ AcqPoolEmpty(p) \/ AcqReadHead(p)
         \/ AcqReadTail(p) \/ AcqReadSlot(p) \/ AcqCas(p)
         \/ AcqCasFail(p) \/ FillSize(p) \/ FillBody(p)
         \/ PubLoadFirst(p) \/ PubLoadTail(p) \/ PubLoadHead(p)
         \/ PubLoadSlot(p) \/ PubLoadSlot2(p) \/ PubFixTail(p)
         \/ PubDropHead(p) \/ PubCas(p) \/ PubCasFail(p)
         \/ PubBumpTail(p)
  BY <1>t, <1>5
     DEF AcqFromPool, AcqPoolEmpty, AcqReadHead, AcqReadTail, AcqReadSlot, AcqCas,
         AcqCasFail, FillSize, FillBody, PubLoadFirst, PubLoadTail, PubLoadHead,
         PubLoadSlot, PubLoadSlot2, PubFixTail, PubDropHead, PubCas, PubCasFail,
         PubBumpTail, SubTypes, BoundTypes
<1> QED
  BY <1>1, <1>2, <1>3, <1>4, <1>5
     DEF SendMsg, BufAcquire, Publish

\* Receiving keeps the types of the subscribers' state.
LEMMA ReceiveSubTypes ==
  ASSUME QueueInv, NEW s \in Subs, SubInit(s) \/ RecvMsg(s)
  PROVE  SubTypes'
<1> USE DEF SubGoto, shared, plocals, publ, slocals, subl, bounds
<1>t. TypeOK /\ SubTypes /\ SharedTypes /\ PubTypes /\ BoundTypes
  BY DEF QueueInv, TypeOK
<1>h. slots[SlotOf(idx[s])] \in Slot
  BY <1>t, SlotType DEF SubTypes
<1>r. spc[s] \in {"con_size", "con_body"} => ref[s].val \in Bufs
  BY SMTT(30), <1>t, BufsType DEF QueueInv, SubLocals, SubLocal, SubTypes, Slot
<1>1. CASE SubInit(s)
  BY <1>t, <1>1
     DEF SubInit, SharedTypes, SubTypes, SubPcs
<1>2. CASE ConReadTail(s)
  BY <1>t, <1>2
     DEF ConReadTail, SubTypes, SubPcs
<1>3. CASE FutexWait(s)
  BY <1>t, <1>3
     DEF FutexWait, SubTypes, SubPcs
<1>4. CASE FutexTimeout(s)
  BY <1>t, <1>4
     DEF FutexTimeout, SubTypes, SubPcs
<1>5. CASE ConReadRef(s)
  <2>1. \A first \in Halves :
          /\ LoadHalf(NoSlot, slots[SlotOf(idx[s])], first) \in Slot
          /\ Other(first) \in Halves
    BY <1>h, BufsType, LoadHalfType
  <2> QED  BY SMT, <1>t, <1>5, <2>1 DEF ConReadRef, SubTypes, SubPcs
<1>6. CASE ConReadRef2(s)
  <2> DEFINE c == LoadHalf(ref[s], slots[SlotOf(idx[s])], half[s])
  <2>1. c \in Slot
    BY <1>t, <1>h, LoadHalfType DEF SubTypes
  <2> HIDE DEF c
  <2> QED  BY SMTT(30), <1>t, <1>6, <2>1, BufsType DEF c, ConReadRef2, SubTypes, SubPcs
<1>7. CASE ConReadSize(s)
  <2>1. spc[s] = "con_size" => data[ref[s].val].size \in 0..MaxMsgs
    BY <1>t, <1>r DEF SharedTypes, Buffer
  <2>2. copy' \in [Subs -> Buffer]
    <3>1. spc[s] = "con_size" /\ copy' = [copy EXCEPT ![s].size = data[ref[s].val].size]
      BY <1>7 DEF ConReadSize
    <3>2. copy \in [Subs -> Buffer]
      BY <1>t DEF SubTypes
    <3> QED  BY <2>1, <3>1, <3>2, SetField
  <2>3. spc' \in [Subs -> SubPcs]
    BY <1>t, <1>7 DEF ConReadSize, SubTypes, SubPcs
  <2> QED  BY <1>t, <1>7, <2>2, <2>3 DEF ConReadSize, SubTypes
<1>8. CASE ConReadBody(s)
  <2>1. spc[s] = "con_body" => data[ref[s].val].body \in 0..MaxMsgs
    BY <1>t, <1>r DEF SharedTypes, Buffer
  <2>2. copy' \in [Subs -> Buffer]
    <3>1. spc[s] = "con_body" /\ copy' = [copy EXCEPT ![s].body = data[ref[s].val].body]
      BY <1>8 DEF ConReadBody
    <3>2. copy \in [Subs -> Buffer]
      BY <1>t DEF SubTypes
    <3> QED  BY <2>1, <3>1, <3>2, SetField
  <2>3. spc' \in [Subs -> SubPcs]
    BY <1>t, <1>8 DEF ConReadBody, SubTypes, SubPcs
  <2> QED  BY <1>t, <1>8, <2>2, <2>3 DEF ConReadBody, SubTypes
<1>9. CASE ConEnd(s)
  BY SMT, <1>t, <1>9, BufsType, JunkType
     DEF ConEnd, ConsumeEnd, SubTypes, SubPcs
<1>10. CASE ConDiscard(s)
  BY SMT, <1>t, <1>10, BufsType, JunkType
     DEF ConDiscard, ConsumeEnd, SubTypes, SubPcs
<1> QED
  BY <1>1, <1>2, <1>3, <1>4, <1>5, <1>6, <1>7, <1>8, <1>9, <1>10
     DEF RecvMsg

\* And it touches nothing else.
LEMMA ReceiveTypes ==
  ASSUME QueueInv, NEW s \in Subs, SubInit(s) \/ RecvMsg(s)
  PROVE  /\ TypeOK'
         /\ UNCHANGED <<shared, publ, bounds>>
<1>1. UNCHANGED <<shared, publ, bounds>>
  BY DEF SubInit, RecvMsg, ConReadTail, FutexWait, FutexTimeout, ConReadRef,
         ConReadRef2, ConReadSize, ConReadBody, ConEnd, ConDiscard, ConsumeEnd
<1>2. SharedTypes' /\ PubTypes' /\ BoundTypes'
  BY <1>1 DEF QueueInv, TypeOK, SharedTypes, PubTypes, BoundTypes, shared, publ,
              plocals, bounds
<1> QED  BY <1>1, <1>2, ReceiveSubTypes DEF TypeOK

\* A step of sendmsg, a buffer given back and a crash keep all types.
LEMMA SendTypes ==
  ASSUME QueueInv, NEW p \in Pubs, SendMsg(p) \/ BufRelease(p) \/ Crash(p)
  PROVE  TypeOK'
BY SendPubTypes, SendSharedTypes, SendOtherTypes DEF TypeOK

-----------------------------------------------------------------------------
(* What others know survives a step. *)

\* The log only grows.
Grows ==
  /\ head' \in {head, head + 1}
  /\ tail' >= tail
  /\ N' >= N
  /\ \A i \in 1..N : log'[i] = log[i]

\* The locals of publisher q do not change.
SamePub(q) ==
  /\ pc'[q] = pc[q]
  /\ buf'[q] = buf[q]
  /\ msg'[q] = msg[q]
  /\ h'[q] = h[q]
  /\ t'[q] = t[q]
  /\ cur'[q] = cur[q]

\* The indices are numbers.
LEMMA IndexTypes ==
  ASSUME TypeOK
  PROVE  head \in Nat \ {0} /\ tail \in Nat \ {0} /\ N \in Nat
BY SMT DEF TypeOK, SharedTypes, N

\* An entry of the log names a message and a buffer.
LEMMA LogTypes ==
  ASSUME TypeOK, NEW i \in 1..N
  PROVE  log[i].buf \in Bufs /\ log[i].buf # 0 /\ log[i].msg \in Msgs
<1> DEFINE Entry == [msg : Msgs, buf : Bufs]
<1>1. log \in Seq(Entry) /\ i \in 1..Len(log)
  BY DEF TypeOK, SharedTypes, N
<1>2. log[i] \in Entry
  <2> HIDE DEF Entry
  <2> QED  BY SMT, <1>1
<1> QED  BY SMT, <1>2, BufsType

\* What the slot of a message carries.
LEMMA SlotHeld ==
  ASSUME SlotsIntact, NEW i \in 1..N
  PROVE  /\ slots[SlotOf(i)].tag >= i
         /\ i + Depth > N =>
              slots[SlotOf(i)].tag = i /\ slots[SlotOf(i)].val = log[i].buf
<1>1. /\ slots[SlotOf(i)].tag >= i
      /\ i + Depth > N => slots[SlotOf(i)] = [tag |-> i, val |-> log[i].buf]
  BY DEF SlotsIntact
<1> QED  BY SMT, <1>1

-----------------------------------------------------------------------------
(* What a step leaves alone stays right. *)

\* The slots of the log.
LEMMA KeepSlots ==
  ASSUME QueueInv, UNCHANGED <<slots, log>>
  PROVE  SlotsIntact' /\ SlotTags'
<1>1. SlotsIntact /\ SlotTags
  BY DEF QueueInv
<1> QED  BY <1>1 DEF SlotsIntact, SlotTags, N

\* The window of the queue.
LEMMA KeepWindow ==
  ASSUME QueueInv, UNCHANGED <<head, tail, log>>
  PROVE  Window'
<1>1. Window /\ N' = N
  BY DEF QueueInv, N
<1> QED  BY <1>1 DEF Window

\* The data of the queue.
LEMMA KeepData ==
  ASSUME QueueInv, UNCHANGED <<head, data, log>>
  PROVE  QueuedDataWhole' /\ Queued' = Queued
<1>1. QueuedDataWhole /\ Queued' = Queued
  BY DEF QueueInv, Queued, N
<1> QED  BY <1>1 DEF QueuedDataWhole

\* The owners of the buffers.
LEMMA KeepOwners ==
  ASSUME OneOwner, UNCHANGED <<head, log, pool, leaked, buf>>,
         \A q \in Pubs : pc'[q] \in Owning <=> pc[q] \in Owning
  PROVE  OneOwner'
<1>1. Queued' = Queued
  BY DEF Queued, N
<1> QED  BY <1>1 DEF OneOwner

\* Indices that move forward leave the log as it is.
LEMMA LogStays ==
  ASSUME TypeOK, log' = log, head' \in {head, head + 1}, tail' \in {tail, tail + 1}
  PROVE  Grows
BY SMT, IndexTypes DEF Grows, N

\* A publisher that does not move keeps what it knows while the log grows and
\* nobody writes to its buffer.
LEMMA KeepPub ==
  ASSUME TypeOK, TypeOK', Window, Grows, NEW q \in Pubs, PubLocal(q), SamePub(q),
         pc[q] \in Owning => data'[buf[q]] = data[buf[q]]
  PROVE  PubLocal(q)'
<1>1. h[q] \in Nat /\ t[q] \in Nat /\ cur[q].tag \in Nat
  BY DEF TypeOK, PubTypes, Slot
<1>2. head' = head \/ h[q] < head'
  <2>1. head' \in {head, head + 1} /\ h[q] <= head /\ head \in Nat
    BY IndexTypes DEF Grows, PubLocal
  <2> QED  BY SMT, <1>1, <2>1
<1>3. pc[q] = "acq_cas" /\ h[q] = head => head \in 1..N
  <2>1. pc[q] = "acq_cas" => h[q] < tail
    BY DEF PubLocal
  <2>2. tail \in {N, N + 1} /\ head \in Nat \ {0} /\ N \in Nat
    BY IndexTypes DEF Window
  <2> QED  BY SMT, <1>1, <2>1, <2>2
<1>4. N' \in Nat /\ tail' \in Nat /\ head' \in Nat
  BY SMT DEF TypeOK, SharedTypes, N
<1> QED
  BY SMT, <1>1, <1>2, <1>3, <1>4, IndexTypes DEF PubLocal, SamePub, Grows, Owning, Publishing

\* So does a subscriber.
LEMMA KeepSub ==
  ASSUME TypeOK, TypeOK', Window, Grows, NEW s \in Subs, SubLocal(s),
         UNCHANGED slocals,
         spc'[s] = spc[s] \/ (spc[s] = "sleep" /\ spc'[s] = "begin")
  PROVE  SubLocal(s)'
<1>1. idx[s] \in Nat
  BY DEF TypeOK, SubTypes
<1>2. N' \in Nat /\ tail' \in Nat /\ head' \in Nat /\ head' >= head
  BY SMT, IndexTypes DEF TypeOK, SharedTypes, N, Grows
<1>3. idx[s] < tail /\ idx[s] >= head => log'[idx[s]] = log[idx[s]]
  BY SMT, <1>1, IndexTypes DEF Window, Grows
<1>4. /\ idx[s] <= tail' /\ (idx[s] < tail => idx[s] < tail')
      /\ (idx[s] >= head' => idx[s] >= head)
  <2>1. idx[s] <= tail /\ tail' >= tail /\ head \in Nat /\ tail \in Nat
    BY IndexTypes DEF SubLocal, Grows
  <2> QED  BY SMT, <1>1, <1>2, <2>1
<1>5. idx'[s] = idx[s] /\ ref'[s] = ref[s] /\ half'[s] = half[s] /\ copy'[s] = copy[s]
  BY DEF slocals
<1> QED  BY <1>3, <1>4, <1>5, ZenonT(40) DEF SubLocal, SubPcs

\* All that is left to show of a publisher's step is what it does to the shared
\* invariants and to its own locals.
LEMMA SendFrame ==
  ASSUME QueueInv, TypeOK', NEW p \in Pubs, Grows, PubLocal(p)',
         \A q \in Pubs \ {p} :
           /\ SamePub(q)
           /\ pc[q] \in Owning => data'[buf[q]] = data[buf[q]],
         UNCHANGED slocals,
         \A s \in Subs : spc'[s] = spc[s] \/ (spc[s] = "sleep" /\ spc'[s] = "begin")
  PROVE  PubLocals' /\ SubLocals'
<1>1. TypeOK /\ Window /\ PubLocals /\ SubLocals
  BY DEF QueueInv
<1>2. \A q \in Pubs : PubLocal(q)'
  BY <1>1, KeepPub DEF PubLocals
<1>3. \A s \in Subs : SubLocal(s)'
  BY <1>1, KeepSub DEF SubLocals
<1> QED  BY <1>2, <1>3 DEF PubLocals, SubLocals

\* The other publishers, and all subscribers but sleepers, stand still while one
\* publisher takes a step.
LEMMA Others ==
  ASSUME TypeOK, NEW p \in Pubs, SendMsg(p) \/ BufRelease(p) \/ Crash(p)
  PROVE  /\ \A q \in Pubs \ {p} : SamePub(q)
         /\ UNCHANGED slocals
         /\ \A s \in Subs :
              spc'[s] = spc[s] \/ (spc[s] = "sleep" /\ spc'[s] = "begin")
<1> USE DEF Goto, Forget, SamePub, plocals, subl, TypeOK, PubTypes
<1>1. CASE BufAcquire(p) \/ StartSend(p) \/ FillSize(p) \/ FillBody(p)
  BY <1>1, ZenonT(40) DEF BufAcquire, StartSend, AcqFromPool, AcqPoolEmpty, AcqReadHead,
     AcqReadTail, AcqReadSlot, AcqCas, AcqCasFail, FillSize, FillBody
<1>2. CASE PubWake(p)
  BY <1>2 DEF PubWake
<1>3. CASE Publish(p) /\ ~PubWake(p)
  BY ZenonT(40), <1>3, ZenonT(40) DEF Publish, PubLoadFirst, PubLoadTail, PubLoadHead, PubLoadSlot,
     PubLoadSlot2, PubFixTail, PubDropHead, PubCas, PubCasFail, PubBumpTail
<1>4. CASE BufRelease(p) \/ Crash(p)
  BY <1>4, ZenonT(40) DEF BufRelease, Crash
<1> QED  BY <1>1, <1>2, <1>3, <1>4 DEF SendMsg

\* A step that changes nothing but the locals of one publisher.
LEMMA LocalStep ==
  ASSUME QueueInv, NEW p \in Pubs, SendMsg(p), PubLocal(p)',
         UNCHANGED <<shared, buf, leaked>>,
         pc'[p] \in Owning <=> pc[p] \in Owning
  PROVE  QueueInv'
<1>1. /\ TypeOK /\ TypeOK' /\ OneOwner
      /\ UNCHANGED <<head, tail, slots, pool, data, log>>
  BY SendTypes DEF QueueInv, shared
<1>o. \A q \in Pubs \ {p} : SamePub(q)
  BY <1>1, Others
<1>2. Grows
  BY <1>1, LogStays
<1>3. PubLocals' /\ SubLocals'
  BY <1>1, <1>2, Others, SendFrame
<1>4. Window' /\ SlotsIntact' /\ SlotTags' /\ QueuedDataWhole'
  BY <1>1, KeepWindow, KeepData, KeepSlots
<1>5. OneOwner'
  <2>1. \A q \in Pubs : pc'[q] \in Owning <=> pc[q] \in Owning
    BY <1>o DEF SamePub
  <2> QED  BY <1>1, <2>1, KeepOwners
<1> QED  BY <1>1, <1>3, <1>4, <1>5 DEF QueueInv

-----------------------------------------------------------------------------
(* The steps of sendmsg that only load. *)

\* What every step of a publisher starts from.
LEMMA StepFacts ==
  ASSUME QueueInv, NEW p \in Pubs, SendMsg(p) \/ BufRelease(p) \/ Crash(p)
  PROVE  /\ TypeOK /\ TypeOK'
         /\ head \in Nat \ {0} /\ tail \in Nat \ {0} /\ N \in Nat
         /\ pc \in [Pubs -> PubPcs] /\ buf \in [Pubs -> 0..NumBufs]
         /\ msg \in [Pubs -> 0..MaxMsgs] /\ h \in [Pubs -> Nat]
         /\ t \in [Pubs -> Nat] /\ cur \in [Pubs -> Slot]
         /\ \A q \in Pubs \ {p} : SamePub(q)
         /\ PubLocal(p) /\ Window
<1>1. TypeOK /\ PubLocal(p) /\ Window
  BY DEF QueueInv, PubLocals
<1>2. TypeOK'
  BY SendTypes
<1>3. PubTypes
  BY <1>1 DEF TypeOK
<1> QED  BY <1>1, <1>2, <1>3, IndexTypes, Others DEF PubTypes

\* lf_bcast_buf_acquire up to its compare-and-swap.
LEMMA AcquireLoads ==
  ASSUME QueueInv, NEW p \in Pubs,
         \/ StartSend(p) \/ AcqPoolEmpty(p) \/ AcqReadHead(p) \/ AcqReadTail(p)
         \/ AcqReadSlot(p) \/ AcqCasFail(p)
  PROVE  QueueInv'
<1>s. SendMsg(p)
  BY DEF SendMsg, BufAcquire
<1>t. /\ PubLocal(p) /\ Window
      /\ head \in Nat \ {0} /\ tail \in Nat \ {0} /\ N \in Nat
      /\ pc \in [Pubs -> PubPcs] /\ h \in [Pubs -> Nat] /\ t \in [Pubs -> Nat]
      /\ cur \in [Pubs -> Slot] /\ msg \in [Pubs -> 0..MaxMsgs]
  BY <1>s, StepFacts
<1> USE DEF Goto, Forget, shared, plocals, bounds
<1>o. UNCHANGED <<shared, buf, leaked>> /\ (pc'[p] \in Owning <=> pc[p] \in Owning)
  BY ZenonT(40), <1>t, ZenonT(40) DEF StartSend, AcqPoolEmpty, AcqReadHead, AcqReadTail, AcqReadSlot,
              AcqCasFail, Owning, Publishing
<1>z. 0 <= head /\ 0 <= tail /\ 0 <= N /\ NoSlot.tag = 0
  <2>1. head \in Nat /\ tail \in Nat /\ N \in Nat
    BY <1>t
  <2> QED  BY SMT, <2>1 DEF NoSlot
<1> USE DEF PubLocal, N, Owning, Publishing
<1>1. ASSUME StartSend(p) PROVE PubLocal(p)'
  <2>1. sent \in Nat
    BY SMT DEF QueueInv, TypeOK, BoundTypes
  <2> QED  BY SMT, <1>t, <1>1, <2>1 DEF StartSend
<1>2. ASSUME AcqPoolEmpty(p) PROVE PubLocal(p)'
  BY <1>t, <1>2 DEF AcqPoolEmpty
<1>3. ASSUME AcqReadHead(p) PROVE PubLocal(p)'
  <2>1. /\ pc'[p] = "acq_tail" /\ h'[p] = head /\ UNCHANGED <<head, tail, log, msg, t, cur>>
        /\ pc[p] = "acq_head"
    BY ZenonT(40), <1>t, <1>3 DEF AcqReadHead
  <2>2. head # 0 /\ head <= head
    <3>1. head \in Nat /\ head # 0
      BY <1>t
    <3> QED  BY <3>1, Zeroes
  <2>3. t[p] <= tail /\ cur[p].tag <= N /\ msg[p] # 0
    BY <1>t, <2>1
  <2> QED  BY <2>1, <2>2, <2>3
<1>4. ASSUME AcqReadTail(p) PROVE PubLocal(p)'
  BY SMT, <1>t, <1>4 DEF AcqReadTail, Window
<1>5. ASSUME AcqReadSlot(p) PROVE PubLocal(p)'
  <2>1. pc[p] = "acq_slot"
    BY <1>5 DEF AcqReadSlot
  <2>2. h[p] = head => head \in 1..N /\ head + Depth > N
    <3> HIDE DEF PubLocal, N, Owning, Publishing
    <3>1. /\ h[p] < tail /\ tail \in {N, N + 1} /\ N < head + Depth
          /\ head \in Nat \ {0} /\ tail \in Nat /\ N \in Nat
      BY <1>t, <2>1 DEF PubLocal, Window
    <3> QED  BY SMT, <3>1, DepthAssumption DEF DepthAssumption
  <2>3. h[p] = head => slots[SlotOf(head)].val = log[head].buf
    <3> HIDE DEF PubLocal, N
    <3> QED  BY <2>2, SlotHeld DEF QueueInv
  <2>4. cur'[p] = LoadHalf(NoSlot, slots[SlotOf(h[p])], "val")
    BY ZenonT(40), <1>t, <1>5 DEF AcqReadSlot
  <2>5. cur'[p].tag = 0 /\ cur'[p].val = slots[SlotOf(h[p])].val
    BY <2>4, LoadedVal
  <2> QED  BY <1>t, <1>z, <1>5, <2>3, <2>5 DEF AcqReadSlot
<1>6. ASSUME AcqCasFail(p) PROVE PubLocal(p)'
  BY <1>t, <1>z, <1>6 DEF AcqCasFail
<1> HIDE DEF PubLocal, N, Owning, Publishing, Goto, Forget, shared, plocals, bounds
<1>7. PubLocal(p)'
  BY <1>1, <1>2, <1>3, <1>4, <1>5, <1>6
<1> QED  BY <1>s, <1>o, <1>7, LocalStep

\* What the checks after the loads of lf_bcast_pub let through.
LEMMA VerdictCases ==
  ASSUME NEW hd \in Nat, NEW tl \in Nat, NEW tag \in Nat
  PROVE  LET v == Verdict(hd, tl, tag) IN
         /\ v \in {"pub_fix", "pub_first", "pub_drop", "aborted", "pub_cas"}
         /\ v = "pub_fix" => tag = tl
         /\ v = "pub_drop" => hd < tl
         /\ v = "pub_cas" => tag < tl /\ tag < hd
BY SMT DEF Verdict

\* lf_bcast_pub up to its compare-and-swap, and after it.
LEMMA PublishLoads ==
  ASSUME QueueInv, NEW p \in Pubs,
         \/ PubLoadFirst(p) \/ PubLoadTail(p) \/ PubLoadHead(p) \/ PubLoadSlot(p)
         \/ PubLoadSlot2(p) \/ PubCasFail(p) \/ PubWake(p)
  PROVE  QueueInv'
<1>s. SendMsg(p)
  BY DEF SendMsg, Publish
<1>t. /\ PubLocal(p)
      /\ head \in Nat \ {0} /\ tail \in Nat \ {0} /\ N \in Nat
      /\ pc \in [Pubs -> PubPcs] /\ h \in [Pubs -> Nat] /\ t \in [Pubs -> Nat]
      /\ cur \in [Pubs -> Slot] /\ msg \in [Pubs -> 0..MaxMsgs]
  BY ZenonT(40), <1>s, StepFacts
<1>l. slots[SlotOf(t[p])].tag \in 0..N
  <2>1. TypeOK /\ SlotTags /\ t[p] \in Nat
    BY <1>t DEF QueueInv
  <2>2. SlotOf(t[p]) \in 0..Depth - 1
    BY <2>1, SlotRange
  <2>3. slots[SlotOf(t[p])].tag \in Nat /\ slots[SlotOf(t[p])].tag <= N /\ N \in Nat
    BY <1>t, <2>1, <2>2 DEF SlotTags, TypeOK, SharedTypes, Slot
  <2> QED  BY <2>3, UpTo
<1>m. head <= head /\ tail <= tail /\ head # 0 /\ tail # 0
  <2>1. head \in Nat /\ tail \in Nat /\ head # 0 /\ tail # 0
    BY <1>t
  <2> QED  BY <2>1, Zeroes
<1> DEFINE Quiet == /\ UNCHANGED <<shared, buf, leaked>>
                    /\ pc'[p] \in Owning <=> pc[p] \in Owning
                    /\ PubLocal(p)'
<1> USE DEF Goto, Forget, shared, plocals, bounds, PubLocal, N, Owning, Publishing
<1>1. ASSUME PubLoadFirst(p) PROVE Quiet
  <2>1. PICK first \in LoadOrders :
          /\ Goto(p, "pub_first", IF first = "head" THEN "pub_tail" ELSE "pub_head")
          /\ h' = IF first = "head" THEN [h EXCEPT ![p] = head] ELSE h
          /\ t' = IF first = "tail" THEN [t EXCEPT ![p] = tail] ELSE t
          /\ UNCHANGED <<shared, buf, msg, cur, left, subl, bounds>>
    <3> HIDE DEF Goto, shared, bounds, PubLocal
    <3> QED  BY <1>1 DEF PubLoadFirst
  <2>2. first = "head" \/ first = "tail"
    BY LoadAssumption DEF LoadAssumption
  <2>3. CASE first = "head"
    <3>1. pc[p] = "pub_first" /\ pc'[p] = "pub_tail" /\ h'[p] = head /\ t' = t
      BY <1>t, <2>1, <2>3
    <3> QED  BY <1>t, <1>m, <2>1, <3>1
  <2>4. CASE first = "tail"
    <3>1. pc[p] = "pub_first" /\ pc'[p] = "pub_head" /\ t'[p] = tail /\ h' = h
      BY <1>t, <2>1, <2>4
    <3> QED  BY <1>t, <1>m, <2>1, <3>1
  <2> HIDE DEF Quiet
  <2> QED  BY <2>2, <2>3, <2>4
<1>2. ASSUME PubLoadTail(p) PROVE Quiet
  <2>1. /\ pc[p] = "pub_tail" /\ pc'[p] = "pub_slot"
        /\ UNCHANGED <<shared, buf, msg, h, cur, leaked>> /\ t'[p] = tail
    BY <1>t, <1>2 DEF PubLoadTail
  <2> QED  BY <1>t, <1>m, <2>1
<1>3. ASSUME PubLoadHead(p) PROVE Quiet
  <2>1. /\ pc[p] = "pub_head" /\ pc'[p] = "pub_slot"
        /\ UNCHANGED <<shared, buf, msg, t, cur, leaked>> /\ h'[p] = head
    BY <1>t, <1>3 DEF PubLoadHead
  <2> QED  BY <1>t, <1>m, <2>1
<1>4. ASSUME PubLoadSlot(p) PROVE Quiet
  <2>1. cur'[p].tag <= N
    <3> HIDE DEF PubLocal, Owning, Publishing, N
    <3>1. \A first \in Halves :
            LoadHalf(NoSlot, slots[SlotOf(t[p])], first).tag <= N
      <4>1. N \in Nat
        BY <1>t
      <4> QED  BY <1>l, <4>1, LoadedTag
    <3> QED  BY <1>t, <1>4, <3>1 DEF PubLoadSlot
  <2> QED  BY ZenonT(40), <1>t, <1>4, <2>1, ZenonT(40) DEF PubLoadSlot
<1>5. ASSUME PubLoadSlot2(p) PROVE Quiet
  <2>1. /\ cur'[p].tag \in 0..N
        /\ pc'[p] = Verdict(h[p], t[p], cur'[p].tag)
    <3> HIDE DEF PubLocal, Owning, Publishing, N, shared, bounds
    <3>1. LoadHalf(cur[p], slots[SlotOf(t[p])], left[p]).tag \in 0..N
      <4>1. cur[p].tag \in 0..N
        <5>1. cur[p].tag \in Nat /\ cur[p].tag <= N /\ N \in Nat
          BY <1>t DEF PubLocal, Slot
        <5> QED  BY <5>1, UpTo
      <4> QED  BY ZenonT(40), <1>l, <4>1 DEF LoadHalf
    <3> QED  BY <1>t, <1>5, <3>1 DEF PubLoadSlot2
  <2>2. /\ pc[p] = "pub_slot2" /\ UNCHANGED <<shared, buf, msg, h, t, leaked>>
        /\ h[p] \in Nat \ {0} /\ t[p] \in Nat \ {0}
    BY ZenonT(40), <1>t, <1>5 DEF PubLoadSlot2
  <2>3. /\ pc'[p] \in {"pub_fix", "pub_first", "pub_drop", "aborted", "pub_cas"}
        /\ pc'[p] = "pub_fix" => t[p] = cur'[p].tag
        /\ pc'[p] = "pub_drop" => h[p] < t[p]
        /\ pc'[p] = "pub_cas" => cur'[p].tag < t[p] /\ cur'[p].tag < h[p]
    <3> HIDE DEF PubLocal, Owning, Publishing, N
    <3>1. h[p] \in Nat /\ t[p] \in Nat /\ cur'[p].tag \in Nat
      <4>1. h[p] \in Nat /\ t[p] \in Nat /\ N \in Nat
        BY <1>t
      <4> QED  BY <2>1, <4>1, InRange
    <3> DEFINE v == Verdict(h[p], t[p], cur'[p].tag)
    <3>2. /\ v \in {"pub_fix", "pub_first", "pub_drop", "aborted", "pub_cas"}
          /\ v = "pub_fix" => cur'[p].tag = t[p]
          /\ v = "pub_drop" => h[p] < t[p]
          /\ v = "pub_cas" => cur'[p].tag < t[p] /\ cur'[p].tag < h[p]
      BY <3>1, VerdictCases
    <3>3. pc'[p] = v
      BY <2>1
    <3> HIDE DEF v
    <3> QED  BY <3>2, <3>3
  <2>4. cur'[p].tag <= N /\ h[p] # 0 /\ t[p] # 0 /\ 0 < h[p] /\ (t[p] = cur'[p].tag => t[p] \in 1..N)
    <3> HIDE DEF PubLocal, Owning, Publishing, N
    <3>1. N \in Nat
      BY <1>t
    <3> QED  BY <2>1, <2>2, <3>1, FoundTag
  <2> QED  BY <1>t, <2>2, <2>3, <2>4, ZenonT(40)
<1>n. 0 <= head /\ 0 <= tail /\ NoSlot.tag <= N
  <2>1. head \in Nat /\ tail \in Nat /\ N \in Nat
    BY <1>t
  <2> QED  BY <2>1, Zeroes
<1>6. ASSUME PubCasFail(p) PROVE Quiet
  <2>1. /\ pc[p] = "pub_cas" /\ pc'[p] = "pub_first"
        /\ UNCHANGED <<shared, buf, msg, leaked>>
        /\ h'[p] = 0 /\ t'[p] = 0 /\ cur'[p] = NoSlot
    BY <1>t, <1>6 DEF PubCasFail
  <2> QED  BY <1>t, <1>n, <2>1
<1>7. ASSUME PubWake(p) PROVE Quiet
  <2>1. /\ pc[p] = "pub_wake" /\ pc'[p] = "idle"
        /\ UNCHANGED <<shared, buf, leaked>>
        /\ h'[p] = 0 /\ t'[p] = 0 /\ cur'[p] = NoSlot
    BY <1>t, <1>7 DEF PubWake
  <2> QED  BY <1>n, <2>1
<1> HIDE DEF PubLocal, N, Owning, Publishing, Goto, Forget, shared, plocals, bounds
<1>8. Quiet
  <2> HIDE DEF Quiet
  <2> QED  BY <1>1, <1>2, <1>3, <1>4, <1>5, <1>6, <1>7
<1> QED  BY <1>s, <1>8, LocalStep

-----------------------------------------------------------------------------
(* The steps that take, fill, drop and give back buffers, and a crash. *)

\* Advancing the tail over a committed message, by its publisher or another.
LEMMA TailStep ==
  ASSUME QueueInv, NEW p \in Pubs, PubFixTail(p) \/ PubBumpTail(p)
  PROVE  QueueInv'
<1> USE DEF Goto, Forget, plocals, bounds
<1>s. SendMsg(p)
  BY DEF SendMsg, Publish
<1>t. /\ TypeOK /\ TypeOK' /\ PubLocal(p) /\ Window
      /\ head \in Nat \ {0} /\ tail \in Nat \ {0} /\ N \in Nat
      /\ pc \in [Pubs -> PubPcs] /\ t \in [Pubs -> Nat] /\ h \in [Pubs -> Nat]
      /\ cur \in [Pubs -> Slot]
      /\ \A q \in Pubs \ {p} : SamePub(q)
  BY <1>s, StepFacts
<1>1. /\ UNCHANGED <<head, slots, pool, data, log, buf, msg, leaked>>
      /\ tail' = tail \/ (tail' = tail + 1 /\ tail <= N)
      /\ pc'[p] \in Owning <=> pc[p] \in Owning
  <2>1. /\ UNCHANGED <<head, slots, pool, data, log, buf, msg, leaked>>
        /\ tail' = (IF tail = t[p] THEN tail + 1 ELSE tail)
        /\ pc'[p] \in Owning <=> pc[p] \in Owning
        /\ t[p] \in 1..N /\ N \in Nat
    BY <1>t DEF PubFixTail, PubBumpTail, PubLocal, Owning, Publishing
  <2>2. tail = t[p] => tail <= N
    BY SMT, <2>1
  <2> QED  BY <2>1, <2>2
<1>2. Grows
  BY <1>t, <1>1, LogStays
<1>3. Window'
  BY SMT, <1>t, <1>1 DEF Window, N
<1>4. SlotsIntact' /\ SlotTags' /\ QueuedDataWhole'
  BY <1>1, KeepSlots, KeepData
<1>5. OneOwner'
  <2>1. \A q \in Pubs : pc'[q] \in Owning <=> pc[q] \in Owning
    BY <1>t, <1>1 DEF SamePub
  <2> QED  BY <1>1, <2>1, KeepOwners DEF QueueInv
<1>6. PubLocal(p)'
  <2>1. CASE PubFixTail(p)
    <3>1. /\ pc[p] = "pub_fix" /\ pc'[p] = "pub_first"
          /\ h'[p] = 0 /\ t'[p] = 0 /\ cur'[p] = NoSlot
      BY <1>t, <2>1 DEF PubFixTail
    <3>2. msg[p] # 0 /\ data[buf[p]] = Whole(msg[p])
      BY <1>t, <3>1 DEF PubLocal, Owning, Publishing
    <3>3. head \in Nat /\ tail' \in Nat /\ N \in Nat /\ N' = N
      BY <1>t, <1>1 DEF N, TypeOK, SharedTypes
    <3>4. 0 <= head /\ 0 <= tail' /\ NoSlot.tag <= N
      BY <3>3, Zeroes
    <3> QED  BY <1>1, <3>1, <3>2, <3>3, <3>4 DEF PubLocal, Owning, Publishing
  <2>2. CASE PubBumpTail(p)
    <3>1. /\ pc[p] = "pub_bump" /\ pc'[p] = "pub_wake" /\ N' = N
          /\ UNCHANGED <<h, t, cur, msg>>
      BY <1>t, <1>1, <2>2 DEF PubBumpTail, N
    <3>2. h[p] <= head /\ t[p] <= tail /\ cur[p].tag <= N /\ msg[p] # 0
      BY <1>t, <3>1 DEF PubLocal
    <3>3. t[p] <= tail'
      <4>1. tail \in Nat /\ t[p] \in Nat
        BY <1>t
      <4>2. t[p] <= tail + 1
        BY <3>2, <4>1, OneMore
      <4> QED  BY <1>1, <3>2, <4>2
    <3> QED  BY <1>1, <3>1, <3>2, <3>3 DEF PubLocal, Owning, Publishing
  <2> QED  BY ZenonT(40), <2>1, <2>2
<1>7. PubLocals' /\ SubLocals'
  BY <1>s, <1>t, <1>1, <1>2, <1>6, Others, SendFrame
<1> QED  BY <1>t, <1>3, <1>4, <1>5, <1>7 DEF QueueInv

\* Taking an element from the pool.
LEMMA FromPoolStep ==
  ASSUME QueueInv, NEW p \in Pubs, AcqFromPool(p)
  PROVE  QueueInv'
<1> USE DEF Goto, subl, bounds
<1>s. SendMsg(p)
  BY DEF SendMsg, BufAcquire
<1>t. /\ TypeOK /\ TypeOK' /\ PubLocal(p) /\ Window
      /\ head \in Nat \ {0} /\ tail \in Nat \ {0} /\ N \in Nat
      /\ pc \in [Pubs -> PubPcs] /\ buf \in [Pubs -> 0..NumBufs]
      /\ \A q \in Pubs \ {p} : SamePub(q)
  BY <1>s, StepFacts
<1>1. PICK b \in pool : pool' = pool \ {b} /\ buf' = [buf EXCEPT ![p] = b]
  BY DEF AcqFromPool
<1>2. /\ UNCHANGED <<head, tail, slots, data, log, msg, h, t, cur, leaked>>
      /\ pc[p] = "acq_pool" /\ pc'[p] = "fill_size"
      /\ b \in Bufs /\ b # 0
  BY SMT, <1>t, BufsType DEF AcqFromPool, TypeOK, SharedTypes
<1>3. Grows
  BY <1>t, <1>2, LogStays
<1>4. Window' /\ SlotsIntact' /\ SlotTags' /\ QueuedDataWhole'
  BY <1>2, KeepWindow, KeepSlots, KeepData
<1>5. OneOwner'
  <2>1. OneOwner /\ buf'[p] = b /\ \A q \in Pubs \ {p} : buf'[q] = buf[q] /\ pc'[q] = pc[q]
    BY <1>t, <1>1 DEF QueueInv, SamePub
  <2> QED
    BY SMT, <1>1, <1>2, <2>1 DEF OneOwner, Queued, N, Owning, Publishing
<1>6. PubLocal(p)'
  BY <1>t, <1>2 DEF PubLocal, N, Owning, Publishing
<1>7. PubLocals' /\ SubLocals'
  BY <1>s, <1>t, <1>2, <1>3, <1>6, Others, SendFrame
<1> QED  BY <1>t, <1>4, <1>5, <1>7 DEF QueueInv

\* Taking the buffer of the oldest message.
LEMMA AcqCasStep ==
  ASSUME QueueInv, NEW p \in Pubs, AcqCas(p)
  PROVE  QueueInv'
<1> USE DEF Goto, Forget, bounds
<1>s. SendMsg(p)
  BY DEF SendMsg, BufAcquire
<1>t. /\ TypeOK /\ TypeOK' /\ PubLocal(p) /\ Window
      /\ head \in Nat \ {0} /\ tail \in Nat \ {0} /\ N \in Nat
      /\ pc \in [Pubs -> PubPcs] /\ buf \in [Pubs -> 0..NumBufs]
      /\ h \in [Pubs -> Nat] /\ t \in [Pubs -> Nat] /\ cur \in [Pubs -> Slot]
      /\ \A q \in Pubs \ {p} : SamePub(q)
  BY <1>s, StepFacts
<1>1. /\ UNCHANGED <<tail, slots, pool, data, log, msg, leaked>>
      /\ head' = head + 1 /\ head < tail
      /\ pc[p] = "acq_cas" /\ pc'[p] = "fill_size"
      /\ buf' = [buf EXCEPT ![p] = log[head].buf]
      /\ h'[p] = 0 /\ t'[p] = 0 /\ cur'[p] = NoSlot
  BY <1>t DEF AcqCas, PubLocal
<1>2. Grows
  BY ZenonT(40), <1>t, <1>1, LogStays
<1>w. /\ head + 1 <= tail /\ N < head + 1 + Depth /\ head <= N /\ head \in 1..N
  <2>1. /\ head \in Nat /\ head # 0 /\ tail \in Nat /\ N \in Nat /\ head < tail
        /\ tail \in {N, N + 1} /\ N < head + Depth
    BY <1>t, <1>1 DEF Window
  <2> QED  BY <2>1, HeadAdvances
<1>3. Window'
  <2>1. tail \in {N, N + 1}
    BY <1>t DEF Window
  <2> QED  BY <1>1, <1>w, <2>1 DEF Window, N
<1>4. SlotsIntact' /\ SlotTags'
  BY <1>1, KeepSlots
<1>5. Queued' \subseteq Queued /\ head \in Queued /\ head \notin Queued'
  <2>1. head \in Nat /\ N \in Nat /\ head' = head + 1 /\ log' = log
    BY <1>t, <1>1
  <2> QED  BY <1>w, <2>1, WindowShrinks DEF Queued, N
<1>6. QueuedDataWhole'
  BY <1>1, <1>5 DEF QueueInv, QueuedDataWhole
<1>7. OneOwner'
  <2>1. /\ OneOwner /\ buf'[p] = log[head].buf
        /\ \A q \in Pubs \ {p} : buf'[q] = buf[q] /\ pc'[q] = pc[q]
    BY <1>t, <1>1 DEF QueueInv, SamePub
  <2>2. log[head].buf \in Bufs /\ log[head].buf # 0
    BY <1>t, <1>w, LogTypes
  <2> QED
    BY SMT, <1>1, <1>5, <2>1, <2>2 DEF OneOwner, Owning, Publishing
<1>8. PubLocal(p)'
  BY SMT, <1>t, <1>1 DEF PubLocal, N, Owning, Publishing, NoSlot
<1>9. PubLocals' /\ SubLocals'
  BY <1>s, <1>t, <1>1, <1>2, <1>8, Others, SendFrame
<1> QED  BY <1>t, <1>3, <1>4, <1>6, <1>7, <1>9 DEF QueueInv

\* Writing a message into the buffer it owns, which is not queued.
LEMMA FillStep ==
  ASSUME QueueInv, NEW p \in Pubs, FillSize(p) \/ FillBody(p)
  PROVE  QueueInv'
<1> USE DEF Goto, plocals, bounds
<1>s. SendMsg(p)
  BY DEF SendMsg
<1>t. /\ TypeOK /\ TypeOK' /\ PubLocal(p) /\ Window /\ OneOwner
      /\ head \in Nat \ {0} /\ tail \in Nat \ {0} /\ N \in Nat
      /\ pc \in [Pubs -> PubPcs] /\ buf \in [Pubs -> 0..NumBufs]
      /\ \A q \in Pubs \ {p} : SamePub(q)
  BY <1>s, StepFacts DEF QueueInv
<1>1. /\ UNCHANGED <<head, tail, slots, pool, log, plocals, leaked>>
      /\ pc[p] \in Owning /\ pc'[p] \in Owning /\ buf[p] # 0
      /\ \A b \in Bufs \ {buf[p]} : data'[b] = data[b]
      /\ buf[p] \in Bufs
  BY SMT, <1>t, BufsType DEF FillSize, FillBody, Owning, Publishing, OneOwner, TypeOK, SharedTypes
<1>2. Grows
  BY <1>t, <1>1, LogStays
<1>3. Window' /\ SlotsIntact' /\ SlotTags'
  BY <1>1, KeepWindow, KeepSlots
<1>4. Queued' = Queued
  BY <1>1 DEF Queued, N
<1>5. QueuedDataWhole'
  <2>1. \A i \in Queued : log[i].buf \in Bufs \ {buf[p]}
    BY SMT, <1>t, LogTypes DEF OneOwner, Queued
  <2> QED  BY <1>1, <1>4, <2>1 DEF QueueInv, QueuedDataWhole
<1>6. OneOwner'
  <2>1. \A q \in Pubs : pc'[q] \in Owning <=> pc[q] \in Owning
    BY <1>t, <1>1 DEF SamePub
  <2> QED  BY <1>t, <1>1, <1>4, <2>1 DEF OneOwner
<1>7. PubLocal(p)'
  <2>1. data \in [Bufs -> Buffer] /\ data[buf[p]] \in Buffer
    BY <1>t, <1>1 DEF TypeOK, SharedTypes
  <2>2. CASE FillSize(p)
    <3>1. pc[p] = "fill_size" /\ pc'[p] = "fill_body" /\ data'[buf[p]].size = msg[p]
      BY <1>t, <1>1, <2>1, <2>2 DEF FillSize, Buffer
    <3> QED  BY <1>t, <1>1, <3>1 DEF PubLocal, N, Owning, Publishing
  <2>3. CASE FillBody(p)
    <3>1. pc[p] = "fill_body" /\ pc'[p] = "pub_first"
      BY <1>t, <2>3 DEF FillBody
    <3>2. data'[buf[p]] = Whole(msg[p])
      BY ZenonT(40), <1>t, <1>1, <2>1, <2>3, <3>1 DEF FillBody, Buffer, Whole, PubLocal
    <3> QED  BY <1>t, <1>1, <3>1, <3>2 DEF PubLocal, N, Owning, Publishing
  <2> QED  BY <2>2, <2>3
<1>8. \A q \in Pubs \ {p} : pc[q] \in Owning => data'[buf[q]] = data[buf[q]]
  BY SMTT(30), <1>t, <1>1, BufsType DEF OneOwner
<1>9. PubLocals' /\ SubLocals'
  BY <1>s, <1>t, <1>2, <1>7, <1>8, Others, SendFrame
<1> QED  BY <1>t, <1>3, <1>5, <1>6, <1>9 DEF QueueInv

\* Giving an unpublished buffer back.
LEMMA ReleaseStep ==
  ASSUME QueueInv, NEW p \in Pubs, BufRelease(p)
  PROVE  QueueInv'
<1> USE DEF Goto
<1>t. /\ TypeOK /\ TypeOK' /\ PubLocal(p) /\ Window /\ OneOwner
      /\ head \in Nat \ {0} /\ tail \in Nat \ {0} /\ N \in Nat
      /\ pc \in [Pubs -> PubPcs] /\ buf \in [Pubs -> 0..NumBufs]
      /\ msg \in [Pubs -> 0..MaxMsgs]
      /\ \A q \in Pubs \ {p} : SamePub(q)
  BY StepFacts DEF QueueInv
<1>1. /\ UNCHANGED <<head, tail, slots, log, h, t, cur, leaked>>
      /\ pc[p] = "fill_size" /\ pc'[p] = "idle" /\ buf[p] # 0
      /\ pool' = pool \cup {buf[p]} /\ buf'[p] = 0 /\ msg'[p] = 0
      /\ \A b \in Bufs \ {buf[p]} : data'[b] = data[b]
      /\ buf[p] \in Bufs
  BY SMT, <1>t, BufsType DEF BufRelease, Owning, Publishing, OneOwner, TypeOK, SharedTypes
<1>2. Grows
  BY <1>t, <1>1, LogStays
<1>3. Window' /\ SlotsIntact' /\ SlotTags'
  BY <1>1, KeepWindow, KeepSlots
<1>4. Queued' = Queued
  BY <1>1 DEF Queued, N
<1>4a. \A i \in Queued : log[i].buf \in Bufs \ {buf[p]} /\ log[i].buf # 0
  BY SMT, <1>t, LogTypes DEF OneOwner, Queued
<1>5. QueuedDataWhole'
  BY ZenonT(40), <1>1, <1>4, <1>4a DEF QueueInv, QueuedDataWhole
<1>6. OneOwner'
  <2>1. \A q \in Pubs \ {p} : buf'[q] = buf[q] /\ pc'[q] = pc[q]
    BY <1>t DEF SamePub
  <2>2. 0 \notin Bufs /\ pool \subseteq Bufs /\ leaked \subseteq Bufs
    BY <1>t, NullBuf DEF TypeOK, SharedTypes, BoundTypes
  <2> QED
    BY SMT, <1>t, <1>1, <1>4, <1>4a, <2>1, <2>2 DEF OneOwner, Owning, Publishing
<1>7. PubLocal(p)'
  BY <1>t, <1>1 DEF PubLocal, N, Owning, Publishing
<1>8. \A q \in Pubs \ {p} : pc[q] \in Owning => data'[buf[q]] = data[buf[q]]
  BY SMT, <1>t, <1>1, BufsType DEF OneOwner
<1>9. PubLocals' /\ SubLocals'
  BY <1>t, <1>2, <1>7, <1>8, Others, SendFrame
<1> QED  BY <1>t, <1>3, <1>5, <1>6, <1>9 DEF QueueInv

\* A crash: nothing that is shared changes.
LEMMA CrashStep ==
  ASSUME QueueInv, NEW p \in Pubs, Crash(p)
  PROVE  QueueInv'
<1> USE DEF Forget, shared
<1>t. /\ TypeOK /\ TypeOK' /\ PubLocal(p) /\ Window /\ OneOwner
      /\ head \in Nat \ {0} /\ tail \in Nat \ {0} /\ N \in Nat
      /\ pc \in [Pubs -> PubPcs] /\ buf \in [Pubs -> 0..NumBufs]
      /\ msg \in [Pubs -> 0..MaxMsgs] /\ h \in [Pubs -> Nat]
      /\ t \in [Pubs -> Nat] /\ cur \in [Pubs -> Slot]
      /\ \A q \in Pubs \ {p} : SamePub(q)
  BY StepFacts DEF QueueInv
<1>1. /\ UNCHANGED shared
      /\ pc'[p] = "idle" /\ buf'[p] = 0 /\ msg'[p] = 0
      /\ h'[p] = 0 /\ t'[p] = 0 /\ cur'[p] = NoSlot
      /\ leaked' = leaked \cup ({buf[p]} \ {0})
  BY <1>t DEF Crash
<1>2. Grows
  BY <1>t, <1>1, LogStays
<1>3. Window' /\ SlotsIntact' /\ SlotTags' /\ QueuedDataWhole'
  BY <1>1, KeepWindow, KeepSlots, KeepData DEF shared
<1>4. Queued' = Queued /\ \A i \in Queued : log[i].buf # 0
  <2>n. head \in Nat \ {0} /\ N \in Nat
    BY <1>t
  <2>1. Queued \subseteq 1..N
    BY <2>n, WindowInLog DEF Queued
  <2> QED  BY <1>t, <1>1, <2>1, LogTypes DEF Queued, N, shared
<1>5. OneOwner'
  <2>1. \A q \in Pubs \ {p} : buf'[q] = buf[q] /\ pc'[q] = pc[q]
    BY <1>t DEF SamePub
  <2>2. 0 \notin Bufs /\ pool \subseteq Bufs /\ leaked \subseteq Bufs
    BY <1>t, NullBuf DEF TypeOK, SharedTypes, BoundTypes
  <2> QED
    BY SMTT(30), <1>t, <1>1, <1>4, <2>1, <2>2 DEF OneOwner, Owning, Publishing
<1>6. PubLocal(p)'
  <2>1. head \in Nat /\ tail \in Nat /\ N \in Nat
    BY <1>t
  <2>2. 0 <= head /\ 0 <= tail /\ NoSlot.tag <= N
    BY <2>1, Zeroes
  <2> QED  BY <1>1, <2>2 DEF PubLocal, N, Owning, Publishing, shared
<1>7. PubLocals' /\ SubLocals'
  BY <1>t, <1>1, <1>2, <1>6, Others, SendFrame
<1> QED  BY <1>t, <1>3, <1>5, <1>7 DEF QueueInv

\* Dropping the head of a full queue.
LEMMA DropStep ==
  ASSUME QueueInv, NEW p \in Pubs, PubDropHead(p)
  PROVE  QueueInv'
<1> USE DEF Goto, Forget, bounds
<1>s. SendMsg(p)
  BY DEF SendMsg, Publish
<1>t. /\ TypeOK /\ TypeOK' /\ PubLocal(p) /\ Window /\ OneOwner
      /\ head \in Nat \ {0} /\ tail \in Nat \ {0} /\ N \in Nat
      /\ pc \in [Pubs -> PubPcs] /\ buf \in [Pubs -> 0..NumBufs]
      /\ msg \in [Pubs -> 0..MaxMsgs] /\ h \in [Pubs -> Nat]
      /\ t \in [Pubs -> Nat] /\ cur \in [Pubs -> Slot]
      /\ \A q \in Pubs \ {p} : SamePub(q)
  BY <1>s, StepFacts DEF QueueInv
<1>1. /\ UNCHANGED <<tail, slots, log, buf, msg, leaked>>
      /\ pc[p] = "pub_drop" /\ pc'[p] = "pub_first"
      /\ h'[p] = 0 /\ t'[p] = 0 /\ cur'[p] = NoSlot
  BY <1>t DEF PubDropHead
<1>2. CASE head # h[p]
  <2>1. UNCHANGED shared
    BY ZenonT(40), <1>2 DEF PubDropHead, shared
  <2>2. PubLocal(p)'
    BY SMT, <1>t, <1>1, <2>1 DEF PubLocal, N, Owning, Publishing, NoSlot, shared
  <2> QED
    BY <1>s, <1>1, <2>1, <2>2, LocalStep DEF Owning, Publishing
<1>3. CASE head = h[p]
  <2> DEFINE b == log[head].buf
  <2>1. head \in 1..N /\ head < tail
    <3>1. /\ head \in Nat \ {0} /\ tail \in Nat /\ N \in Nat /\ t[p] \in Nat
          /\ head < t[p] /\ t[p] <= tail /\ tail \in {N, N + 1}
      BY <1>t, <1>1, <1>3 DEF PubLocal, Window
    <3> QED  BY SMT, <3>1
  <2>2. slots[SlotOf(head)].val = b
    <3>1. head + Depth > N
      BY <1>t, DepthAssumption DEF Window, DepthAssumption
    <3> QED  BY <2>1, <3>1, SlotHeld DEF QueueInv
  <2>3. b \in Bufs /\ b # 0
    BY <1>t, <2>1, LogTypes
  <2> HIDE DEF b
  <2>4. /\ head' = head + 1 /\ pool' = pool \cup {b}
        /\ \A c \in Bufs \ {b} : data'[c] = data[c]
    BY <1>t, <1>3, <2>2, <2>3 DEF PubDropHead, TypeOK, SharedTypes
  <2>n. head \in Nat /\ N \in Nat /\ N' = N /\ tail \in Nat /\ tail' = tail
    BY <1>t, <1>1 DEF N
  <2>w. /\ head + 1 <= tail /\ N < head + 1 + Depth /\ head <= N
        /\ tail \in {N, N + 1}
    <3>1. tail \in {N, N + 1} /\ N < head + Depth
      BY <1>t DEF Window
    <3> QED  BY <2>1, <2>n, <3>1, HeadAdvances
  <2>5. /\ Queued' \subseteq Queued /\ head \in Queued /\ head \notin Queued'
        /\ Queued \subseteq 1..N
    <3>1. head' = head + 1 /\ head \in Nat \ {0}
      BY <1>t, <2>4
    <3>2. Queued \subseteq 1..N
      BY <2>n, <3>1, WindowInLog DEF Queued
    <3> QED  BY <2>n, <2>w, <3>1, <3>2, WindowShrinks DEF Queued
  <2>6. /\ \A i \in Queued' : log[i].buf # b /\ log[i].buf \in Bufs
        /\ \A q \in Pubs : buf[q] # b
        /\ b \notin pool \cup leaked
    <3>1. OneOwner /\ TypeOK
      BY <1>t
    <3> QED  BY <2>5, <3>1, LogTypes DEF OneOwner, b
  <2>7. Grows
    BY <1>t, <1>1, <2>4, LogStays
  <2>8. Window' /\ SlotsIntact' /\ SlotTags'
    <3>1. Window'
      BY <2>4, <2>n, <2>w DEF Window
    <3> QED  BY ZenonT(40), <1>1, <3>1, KeepSlots
  <2>9. QueuedDataWhole'
    BY <1>1, <2>4, <2>5, <2>6 DEF QueueInv, QueuedDataWhole
  <2>10. OneOwner'
    <3>1. \A q \in Pubs : pc'[q] \in Owning <=> pc[q] \in Owning
      BY <1>t, <1>1 DEF SamePub, Owning, Publishing
    <3> QED  BY ZenonT(40), <1>t, <1>1, <2>4, <2>5, <2>6, <3>1, ZenonT(40) DEF OneOwner
  <2>11. \A q \in Pubs : pc[q] \in Owning => data'[buf[q]] = data[buf[q]]
    <3>1. \A q \in Pubs : pc[q] \in Owning => buf[q] # 0 /\ buf[q] \in 0..NumBufs
      BY <1>t DEF OneOwner
    <3> QED  BY <2>4, <2>6, <3>1, OwnedBuf
  <2>12. PubLocal(p)'
    <3>1. data'[buf'[p]] = Whole(msg'[p]) /\ msg'[p] # 0
      BY <1>1, <1>t, <2>11 DEF PubLocal, Owning, Publishing
    <3>2. 0 <= head' /\ 0 <= tail' /\ NoSlot.tag <= N'
      <4>1. head' \in Nat
        BY <1>t DEF TypeOK, SharedTypes
      <4> QED  BY <2>n, <4>1, Zeroes
    <3>3. /\ pc'[p] = "pub_first" /\ h'[p] = 0 /\ t'[p] = 0 /\ cur'[p] = NoSlot
      BY <1>1
    <3> QED
      BY <3>1, <3>2, <3>3 DEF PubLocal, Owning, Publishing
  <2>13. PubLocals' /\ SubLocals'
    BY ZenonT(40), <1>s, <1>t, <2>7, <2>11, <2>12, Others, SendFrame
  <2> QED  BY <1>t, <2>8, <2>9, <2>10, <2>13 DEF QueueInv
<1> QED  BY <1>2, <1>3

-----------------------------------------------------------------------------
(* The step of sendmsg that publishes. *)

\* A slot that still holds what was checked is that of the next message.
LEMMA CommitAt ==
  ASSUME QueueInv, NEW p \in Pubs, PubCas(p)
  PROVE  t[p] = N + 1 /\ tail = N + 1
<1>1. /\ TypeOK /\ PubLocal(p) /\ SlotsIntact /\ N \in Nat /\ tail \in Nat
      /\ t[p] \in Nat /\ cur[p].tag \in Nat /\ tail \in {N, N + 1}
  BY IndexTypes DEF QueueInv, TypeOK, PubTypes, PubLocals, Window, Slot
<1>2. pc[p] = "pub_cas" /\ slots[SlotOf(t[p])] = cur[p]
  BY DEF PubCas, Goto
<1>3. t[p] # 0 /\ cur[p].tag < t[p] /\ t[p] <= tail
  BY <1>1, <1>2 DEF PubLocal
<1>4. t[p] \in 1..N => cur[p].tag >= t[p]
  BY <1>1, <1>2 DEF SlotsIntact
<1> QED  BY <1>1, <1>3, <1>4, NextIndex

\* The commit: a slot that still holds what was checked is that of the next
\* message, and its old message has been rolled off.
LEMMA CommitStep ==
  ASSUME QueueInv, NEW p \in Pubs, PubCas(p)
  PROVE  QueueInv'
<1> USE DEF Goto, bounds
<1>s. SendMsg(p)
  BY DEF SendMsg, Publish
<1>t. /\ TypeOK /\ TypeOK' /\ PubLocal(p) /\ Window /\ OneOwner
      /\ SlotsIntact /\ SlotTags
      /\ head \in Nat \ {0} /\ tail \in Nat \ {0} /\ N \in Nat
      /\ pc \in [Pubs -> PubPcs] /\ buf \in [Pubs -> 0..NumBufs]
      /\ msg \in [Pubs -> 0..MaxMsgs] /\ h \in [Pubs -> Nat]
      /\ t \in [Pubs -> Nat] /\ cur \in [Pubs -> Slot]
      /\ \A q \in Pubs \ {p} : SamePub(q)
  BY <1>s, StepFacts DEF QueueInv
<1> DEFINE n == t[p]
           x == SlotOf(n)
           entry == [msg |-> msg[p], buf |-> buf[p]]
<1>1. /\ UNCHANGED <<head, tail, pool, data, msg, h, t, cur, leaked>>
      /\ pc[p] = "pub_cas" /\ pc'[p] = "pub_bump"
      /\ slots[x] = cur[p] /\ cur[p].tag \in Nat
      /\ slots' = [slots EXCEPT ![x] = [tag |-> n, val |-> buf[p]]]
      /\ log' = Append(log, entry)
      /\ buf'[p] = 0
  BY <1>t DEF PubCas, Slot
<1>2. /\ n \in Nat \ {0} /\ cur[p].tag < n /\ cur[p].tag < head /\ n <= tail
      /\ data[buf[p]] = Whole(msg[p]) /\ msg[p] # 0
      /\ buf[p] # 0
  <2>1. pc[p] \in Owning \ {"fill_size", "fill_body"}
    BY <1>1 DEF Owning, Publishing
  <2>2. h[p] \in Nat /\ h[p] <= head /\ n \in Nat
    BY <1>t DEF PubLocal
  <2>3. n # 0 /\ cur[p].tag < n /\ cur[p].tag < h[p] /\ n <= tail /\ msg[p] # 0
    BY <1>t, <1>1 DEF PubLocal
  <2>4. data[buf[p]] = Whole(msg[p]) /\ buf[p] # 0
    BY <1>t, <2>1 DEF PubLocal, OneOwner
  <2>5. cur[p].tag \in Nat /\ head \in Nat
    BY ZenonT(40), <1>t, <1>1
  <2> HIDE DEF n
  <2>6. cur[p].tag < head /\ n \in Nat \ {0}
    BY <2>2, <2>3, <2>5, BehindHead
  <2> QED  BY <2>3, <2>4, <2>6
<1>3. n = N + 1 /\ tail = n
  BY CommitAt
<1>4. n < head + Depth
  <2>n. head \in Nat \ {0} /\ n \in Nat /\ Depth \in Nat
    BY <1>t, <1>2, DepthAssumption DEF DepthAssumption
  <2>1. CASE n <= Depth
    BY SMT, <2>n, <2>1
  <2>2. CASE n > Depth
    <3>1. n - Depth \in 1..N /\ SlotOf(n - Depth) = x
      BY SMT, <1>t, <1>2, <1>3, <2>2, SlotRepeats, DepthAssumption DEF DepthAssumption
    <3>2. slots[x].tag >= n - Depth
      BY <1>t, <3>1 DEF SlotsIntact
    <3>3. slots[x].tag < head /\ slots[x].tag \in Nat
      BY <1>1, <1>2
    <3> HIDE DEF n, x
    <3> QED  BY SMT, <2>n, <3>2, <3>3
  <2>3. n <= Depth \/ n > Depth
    <3> HIDE DEF n
    <3> QED  BY SMT, <2>n
  <2> QED  BY <2>1, <2>2, <2>3
<1>5. /\ N' = n /\ log'[n] = entry
      /\ \A i \in 1..N : log'[i] = log[i]
  <2>1. log \in Seq([msg : Msgs, buf : Bufs])
    BY <1>t DEF TypeOK, SharedTypes
  <2> HIDE DEF entry
  <2>2. /\ Len(log') = Len(log) + 1 /\ log'[Len(log) + 1] = entry
        /\ \A i \in 1..Len(log) : log'[i] = log[i]
    <3>1. /\ Len(Append(log, entry)) = Len(log) + 1
          /\ Append(log, entry)[Len(log) + 1] = entry
          /\ \A i \in 1..Len(log) : Append(log, entry)[i] = log[i]
      BY ZenonT(40), <2>1, Appended
    <3>2. log' = Append(log, entry)
      BY <1>1
    <3> QED  BY <3>1, <3>2
  <2> QED  BY <1>3, <2>2 DEF N
<1>6. x \in 0..Depth - 1 /\ slots'[x] = [tag |-> n, val |-> buf[p]]
      /\ \A y \in 0..Depth - 1 : y # x => slots'[y] = slots[y]
  <2>1. x \in 0..Depth - 1
    BY <1>2, SlotRange
  <2> QED  BY <1>1, <1>t, <2>1 DEF TypeOK, SharedTypes
<1> HIDE DEF n, x
<1>7. Grows
  <2>1. head' = head /\ tail' = tail /\ N' = N + 1
    BY <1>1, <1>3, <1>5
  <2>2. tail >= tail /\ N + 1 >= N
    BY <1>t, OneMore
  <2> QED  BY <1>5, <2>1, <2>2 DEF Grows
<1>8. Window'
  BY <1>t, <1>1, <1>3, <1>4, <1>5 DEF Window

<1>9. SlotsIntact'
  <2> SUFFICES ASSUME NEW i \in 1..n
               PROVE  /\ slots'[SlotOf(i)].tag >= i
                      /\ i + Depth > n =>
                           slots'[SlotOf(i)] = [tag |-> i, val |-> log'[i].buf]
    BY <1>5 DEF SlotsIntact
  <2>1. i \in Nat /\ SlotOf(i) \in 0..Depth - 1 /\ n \in Nat
    <3>1. n \in Nat
      BY <1>2
    <3>2. i \in Nat
      BY <3>1, FromOne
    <3> QED  BY <3>1, <3>2, SlotRange
  <2>e. entry.buf = buf[p]
    OBVIOUS
  <2>s. slots'[x].tag = n
    <3>1. slots'[x] = [tag |-> n, val |-> buf[p]]
      BY <1>6
    <3> QED  BY <3>1, NewSlot
  <2> HIDE DEF entry
  <2>2. CASE i = n
    <3>1. SlotOf(i) = x /\ log'[i].buf = buf[p] /\ n >= n
      BY <1>5, <2>1, <2>2, <2>e, OneMore DEF x
    <3> QED  BY <1>6, <2>2, <2>s, <3>1
  <2>3. CASE i # n
    <3>1. i \in 1..N /\ i < n /\ log'[i] = log[i]
      <4>1. N \in Nat /\ i \in 1..(N + 1) /\ i # N + 1
        BY <1>t, <1>3, <2>3
      <4> QED  BY <1>3, <1>5, <4>1, BeforeNext
    <3>2. SlotOf(i) = x => slots'[SlotOf(i)].tag = n
      BY <2>s
    <3>3. SlotOf(i) # x => slots'[SlotOf(i)] = slots[SlotOf(i)]
      BY <1>6, <2>1
    <3>4. i + Depth > n => SlotOf(i) # x /\ i + Depth > N
      <4>1. N \in Nat /\ Depth \in Nat
        BY <1>t, DepthAssumption DEF DepthAssumption
      <4>2. i + Depth > n => n < i + Depth /\ i + Depth > N
        BY SMT, <1>3, <2>1, <4>1
      <4> QED  BY <2>1, <3>1, <4>2, SlotsDiffer DEF x
    <3>5. /\ slots[SlotOf(i)].tag >= i
          /\ i + Depth > N => slots[SlotOf(i)] = [tag |-> i, val |-> log[i].buf]
      BY <1>t, <3>1 DEF SlotsIntact
    <3>6. SlotOf(i) = x => slots'[SlotOf(i)].tag >= i
      BY <2>1, <3>1, <3>2, OneMore
    <3> QED  BY ZenonT(40), <3>1, <3>3, <3>4, <3>5, <3>6
  <2> QED  BY <2>2, <2>3
<1>10. SlotTags'
  <2>1. \A y \in 0..Depth - 1 : slots[y].tag \in Nat
    BY ZenonT(40), <1>t DEF TypeOK, SharedTypes, Slot
  <2>2. \A y \in 0..Depth - 1 : slots[y].tag <= n /\ (slots[y].tag # 0 => slots[y].val # 0)
    <3>1. \A y \in 0..Depth - 1 : slots[y].tag <= N /\ (slots[y].tag # 0 => slots[y].val # 0)
      BY <1>t DEF SlotTags
    <3>2. N \in Nat
      BY <1>t
    <3> QED  BY <1>3, <2>1, <3>1, <3>2, OneMore
  <2>3. slots'[x].tag = n /\ slots'[x].val = buf[p] /\ buf[p] # 0 /\ n <= n
    <3>1. n \in Nat /\ buf[p] # 0
      BY ZenonT(40), <1>2
    <3>2. slots'[x].tag = n /\ slots'[x].val = buf[p]
      <4>1. slots'[x] = [tag |-> n, val |-> buf[p]]
        BY <1>6
      <4> QED  BY <4>1, NewSlot
    <3> QED  BY <3>1, <3>2, Zeroes
  <2>4. N' = n
    BY <1>5
  <2> QED  BY <1>6, <2>2, <2>3, <2>4 DEF SlotTags
<1>11. /\ Queued' = Queued \cup {n} /\ n \notin Queued
       /\ \A i \in Queued : log'[i] = log[i]
  <2>1. Queued' = head..N + 1 /\ Queued = head..N /\ n = N + 1 /\ head <= N + 1
    BY <1>t, <1>1, <1>3, <1>5 DEF Queued, Window
  <2>2. head \in Nat \ {0} /\ head \in Nat /\ N \in Nat
    BY <1>t
  <2>3. Queued \subseteq 1..N
    BY <2>1, <2>2, WindowInLog
  <2>4. head..N + 1 = (head..N) \cup {N + 1} /\ N + 1 \notin head..N
    BY <2>1, <2>2, WindowGrows
  <2> QED  BY <1>5, <2>1, <2>3, <2>4
<1>12. QueuedDataWhole'
  <2>1. data'[log'[n].buf] = Whole(log'[n].msg)
    <3>1. log'[n].buf = buf[p] /\ log'[n].msg = msg[p] /\ data' = data
      <4>1. entry.buf = buf[p] /\ entry.msg = msg[p]
        OBVIOUS
      <4> HIDE DEF entry
      <4> QED  BY <1>1, <1>5, <4>1
    <3> QED  BY <1>2, <3>1
  <2> HIDE DEF entry
  <2>2. \A i \in Queued : data'[log'[i].buf] = Whole(log'[i].msg)
    BY <1>1, <1>11 DEF QueueInv, QueuedDataWhole
  <2> QED  BY <1>11, <2>1, <2>2 DEF QueuedDataWhole
<1>13. OneOwner'
  <2>1. \A q \in Pubs \ {p} : buf'[q] = buf[q] /\ pc'[q] = pc[q]
    BY <1>t DEF SamePub
  <2>2. 0 \notin pool /\ 0 \notin leaked
    <3>1. 0 \notin Bufs
      BY NullBuf
    <3> QED  BY <1>t, <3>1 DEF TypeOK, SharedTypes, BoundTypes
  <2>3. \A i \in Queued : log[i].buf # 0
    <3>1. \A i \in Queued : i \in 1..N
      <4>1. head \in Nat \ {0} /\ N \in Nat
        BY <1>t
      <4> QED  BY <4>1, WindowInLog DEF Queued
    <3> QED  BY <1>t, <3>1, LogTypes
  <2>4. log'[n].buf = buf[p]
    <3>1. entry.buf = buf[p]
      OBVIOUS
    <3> HIDE DEF entry
    <3> QED  BY <1>5, <3>1
  <2> HIDE DEF entry
  <2>a. OneOwner
    BY DEF QueueInv
  <2>b. /\ \A i \in Queued : /\ log'[i].buf = log[i].buf
                            /\ log[i].buf # buf[p]
        /\ \A i \in Queued' : i \in Queued \/ i = n
    BY <1>11, <2>a DEF OneOwner
  <2>c. \A i \in Queued' : /\ log'[i].buf \notin pool \cup leaked
                           /\ log'[i].buf # 0
    BY <1>2, <2>3, <2>4, <2>a, <2>b DEF OneOwner
  <2>d. \A i, j \in Queued' : log'[i].buf = log'[j].buf => i = j
    BY <2>4, <2>a, <2>b DEF OneOwner
  <2>e. \A i \in Queued', q \in Pubs \ {p} : log'[i].buf # buf[q]
    BY <1>2, <2>4, <2>a, <2>b DEF OneOwner
  <2>6. UNCHANGED <<pool, leaked>> /\ pc'[p] \notin Owning /\ buf'[p] = 0
    BY <1>1 DEF Owning, Publishing
  <2>7. \A q \in Pubs : q # p => buf'[q] = buf[q] /\ pc'[q] = pc[q]
    BY <2>1
  <2>8. \A q \in Pubs : \A i \in Queued' : log'[i].buf # buf'[q]
    BY <2>6, <2>7, <2>c, <2>e
  <2>9. /\ \A q \in Pubs : buf'[q] \notin pool \cup leaked
        /\ \A q \in Pubs : pc'[q] \in Owning <=> buf'[q] # 0
    BY <2>2, <2>6, <2>7, <2>a DEF OneOwner
  <2>10. \A q, r \in Pubs : buf'[q] = buf'[r] /\ buf'[q] # 0 => q = r
    <3> SUFFICES ASSUME NEW q \in Pubs, NEW r \in Pubs,
                        buf'[q] = buf'[r], buf'[q] # 0
                 PROVE  q = r
      OBVIOUS
    <3>1. buf'[q] = buf[q] /\ buf'[r] = buf[r]
      BY <2>6, <2>7
    <3> QED  BY <2>a, <3>1 DEF OneOwner
  <2>11. Owning' = Owning /\ pool \cap leaked = {}
    BY ZenonT(40), <2>a DEF OneOwner, Owning, Publishing
  <2> QED  BY <2>6, <2>8, <2>9, <2>10, <2>11, <2>c, <2>d DEF OneOwner
<1>14. PubLocal(p)'
  <2>1. h[p] <= head
    BY <1>t DEF PubLocal
  <2>2. cur[p].tag <= n /\ n \in 1..n
    <3>1. n \in Nat /\ n # 0 /\ cur[p].tag \in Nat /\ cur[p].tag < n
      BY <1>1, <1>2
    <3> QED  BY <3>1, AfterIndex, Zeroes, UpTo
  <2> QED  BY <1>1, <1>2, <1>5, <2>1, <2>2 DEF PubLocal, Owning, Publishing, n
<1>15. PubLocals' /\ SubLocals'
  BY <1>s, <1>t, <1>1, <1>7, <1>14, Others, SendFrame
<1> QED  BY <1>t, <1>8, <1>9, <1>10, <1>12, <1>13, <1>15 DEF QueueInv

-----------------------------------------------------------------------------
(* The steps of a subscriber. *)

\* A subscriber's step changes only its own locals.
LEMMA OtherSubs ==
  ASSUME TypeOK, NEW s \in Subs, SubInit(s) \/ RecvMsg(s)
  PROVE  \A r \in Subs \ {s} :
           /\ spc'[r] = spc[r] /\ idx'[r] = idx[r] /\ ref'[r] = ref[r]
           /\ half'[r] = half[r] /\ copy'[r] = copy[r]
<1> DEFINE Same == \A r \in Subs \ {s} :
              /\ spc'[r] = spc[r] /\ idx'[r] = idx[r] /\ ref'[r] = ref[r]
              /\ half'[r] = half[r] /\ copy'[r] = copy[r]
<1>t. SubTypes
  BY DEF TypeOK
<1> USE <1>t DEF SubTypes, SubGoto
<1>1. CASE SubInit(s)
  BY <1>1 DEF SubInit
<1>2. CASE ConReadTail(s)
  BY <1>2 DEF ConReadTail, slocals
<1>3. CASE FutexWait(s) \/ FutexTimeout(s)
  BY <1>3 DEF FutexWait, FutexTimeout, slocals
<1>4. CASE ConReadRef(s)
  BY <1>4 DEF ConReadRef
<1>5. CASE ConReadRef2(s)
  BY <1>5 DEF ConReadRef2
<1>6. CASE ConReadSize(s) \/ ConReadBody(s)
  BY <1>6 DEF ConReadSize, ConReadBody
<1>7. CASE ConEnd(s) \/ ConDiscard(s)
  BY <1>7 DEF ConEnd, ConDiscard, ConsumeEnd
<1> QED
  BY <1>1, <1>2, <1>3, <1>4, <1>5, <1>6, <1>7 DEF RecvMsg

\* What holds of a publisher's locals holds while they and the region stay.
LEMMA SamePubs ==
  ASSUME PubLocals, UNCHANGED <<shared, publ>>
  PROVE  PubLocals'
<1>1. N' = N /\ UNCHANGED <<head, tail, data, log, pc, buf, msg, h, t, cur>>
  BY DEF N, shared, publ, plocals
<1>2. ASSUME NEW p \in Pubs PROVE PubLocal(p)'
  <2>1. PubLocal(p)
    BY DEF PubLocals
  <2> QED  BY ZenonT(40), <1>1, <2>1, ZenonT(40) DEF PubLocal
<1> QED  BY <1>2 DEF PubLocals

\* So it is with a subscriber's.
LEMMA SameSub ==
  ASSUME NEW r \in Subs, SubLocal(r), UNCHANGED shared,
         spc'[r] = spc[r], idx'[r] = idx[r], ref'[r] = ref[r],
         half'[r] = half[r], copy'[r] = copy[r]
  PROVE  SubLocal(r)'
<1>1. UNCHANGED <<head, tail, log>>
  BY DEF shared
<1> QED  BY <1>1 DEF SubLocal

\* The slot of a queued message, which a subscriber is about to load.
LEMMA QueuedSlot ==
  ASSUME QueueInv, NEW i \in Nat, head <= i, i < tail
  PROVE  /\ i \in 1..N /\ i \in Queued
         /\ slots[SlotOf(i)].tag = i /\ slots[SlotOf(i)].val = log[i].buf
         /\ data[log[i].buf] = Whole(log[i].msg)
<1>1. TypeOK /\ Window /\ SlotsIntact /\ QueuedDataWhole
  BY DEF QueueInv
<1>2. head \in Nat \ {0} /\ tail \in Nat \ {0} /\ N \in Nat
  BY <1>1, IndexTypes
<1>3. i \in 1..N /\ i \in Queued /\ i + Depth > N
  BY SMT, <1>1, <1>2, DepthAssumption DEF Window, Queued, DepthAssumption
<1> QED  BY <1>1, <1>3, SlotHeld DEF QueuedDataWhole

\* A slot a subscriber looks at has been used: it carries a buffer.
LEMMA UsedSlot ==
  ASSUME QueueInv, NEW i \in Nat \ {0}, i < tail
  PROVE  slots[SlotOf(i)].val # 0
<1>1. TypeOK /\ Window /\ SlotsIntact /\ SlotTags
  BY DEF QueueInv
<1>2. tail \in Nat \ {0} /\ N \in Nat
  BY <1>1, IndexTypes
<1>3. i \in 1..N
  BY SMT, <1>1, <1>2 DEF Window
<1>4. slots[SlotOf(i)].tag >= i /\ SlotOf(i) \in 0..Depth - 1
  BY <1>1, <1>3, SlotHeld, SlotRange
<1>5. slots[SlotOf(i)].tag # 0
  BY SMT, <1>4
<1> QED  BY <1>1, <1>4, <1>5 DEF SlotTags

\* What a subscriber knows after its own step.
LEMMA ReceiveLocal ==
  ASSUME QueueInv, NEW s \in Subs, SubInit(s) \/ RecvMsg(s), UNCHANGED shared
  PROVE  SubLocal(s)'
<1> USE DEF SubGoto
<1>t. /\ TypeOK /\ Window /\ SubLocal(s)
      /\ head \in Nat \ {0} /\ tail \in Nat \ {0} /\ N \in Nat
      /\ spc \in [Subs -> SubPcs] /\ idx \in [Subs -> Nat]
      /\ ref \in [Subs -> Slot] /\ half \in [Subs -> Halves]
      /\ copy \in [Subs -> Buffer]
  BY IndexTypes DEF QueueInv, SubLocals, TypeOK, SubTypes
<1>u. UNCHANGED <<head, tail, slots, log, data>>
  BY DEF shared
<1>q. /\ idx[s] \in Nat
      /\ idx[s] >= head /\ idx[s] < tail =>
           /\ slots[SlotOf(idx[s])].tag = idx[s]
           /\ slots[SlotOf(idx[s])].val = log[idx[s]].buf
           /\ data[log[idx[s]].buf] = Whole(log[idx[s]].msg)
      /\ idx[s] # 0 /\ idx[s] < tail => slots[SlotOf(idx[s])].val # 0
  BY ZenonT(40), <1>t, QueuedSlot, UsedSlot
<1>1. CASE SubInit(s)
  <2>1. spc'[s] = "begin" /\ idx'[s] = tail /\ tail # 0 /\ tail <= tail
    <3>1. tail \in Nat /\ tail # 0
      BY <1>t
    <3>2. tail <= tail
      BY <3>1, Zeroes
    <3> QED  BY <1>t, <1>1, <3>1, <3>2 DEF SubInit
  <2> QED  BY <1>u, <2>1 DEF SubLocal, SubPcs
<1>2. CASE ConReadTail(s)
  <2>1. /\ spc[s] = "begin" /\ idx' = idx
        /\ spc'[s] = IF idx[s] = tail THEN "futex" ELSE "con_ref"
    BY <1>t, <1>2 DEF ConReadTail, slocals
  <2>2. idx[s] <= tail /\ idx[s] # 0
    BY <1>t, <2>1 DEF SubLocal
  <2>3. idx[s] \in Nat /\ tail \in Nat
    BY <1>t
  <2>4. idx[s] # tail => idx[s] < tail
    BY SMT, <2>2, <2>3
  <2>5. \/ spc'[s] = "futex"
        \/ spc'[s] = "con_ref" /\ idx[s] < tail
    BY <2>1, <2>4
  <2> QED  BY <1>u, <2>1, <2>2, <2>5 DEF SubLocal, SubPcs
<1>3. CASE FutexWait(s) \/ FutexTimeout(s)
  BY <1>t, <1>u, <1>3 DEF FutexWait, FutexTimeout, SubLocal, SubPcs, slocals
<1>4. CASE ConReadRef(s)
  <2>1. /\ spc[s] = "con_ref" /\ spc'[s] = "con_ref2" /\ idx' = idx
        /\ \/ half'[s] = "val" /\ ref'[s].tag = slots[SlotOf(idx[s])].tag
           \/ half'[s] = "tag" /\ ref'[s].val = slots[SlotOf(idx[s])].val
    <3>1. PICK first \in Halves :
            /\ spc[s] = "con_ref" /\ spc'[s] = "con_ref2" /\ idx' = idx
            /\ ref'[s] = LoadHalf(NoSlot, slots[SlotOf(idx[s])], first)
            /\ half'[s] = Other(first)
      BY <1>t, <1>4 DEF ConReadRef
    <3>2. first = "tag" \/ first = "val"
      BY ZenonT(40) DEF Halves
    <3>3. /\ first = "tag" => half'[s] = "val" /\ ref'[s].tag = slots[SlotOf(idx[s])].tag
          /\ first = "val" => half'[s] = "tag" /\ ref'[s].val = slots[SlotOf(idx[s])].val
      <4> DEFINE m == slots[SlotOf(idx[s])]
      <4>1. /\ LoadHalf(NoSlot, m, "tag").tag = m.tag /\ Other("tag") = "val"
            /\ LoadHalf(NoSlot, m, "val").val = m.val /\ Other("val") = "tag"
        BY LoadedHalf
      <4>2. ref'[s] = LoadHalf(NoSlot, m, first) /\ half'[s] = Other(first)
        BY <3>1
      <4> HIDE DEF m
      <4> QED  BY <4>1, <4>2 DEF m
    <3> QED  BY <3>1, <3>2, <3>3
  <2>2. /\ idx[s] < tail /\ idx[s] # 0
        /\ slots[SlotOf(idx[s])].val # 0
    BY <1>t, <1>q, <2>1 DEF SubLocal, SubPcs
  <2>3. /\ idx'[s] = idx[s] /\ idx[s] <= tail
        /\ idx[s] >= head => /\ slots[SlotOf(idx[s])].tag = idx[s]
                             /\ slots[SlotOf(idx[s])].val = log[idx[s]].buf
    BY <1>t, <1>q, <2>1, <2>2 DEF SubLocal
  <2> QED  BY <1>u, <2>1, <2>2, <2>3 DEF SubLocal, SubPcs
<1>5. CASE ConReadRef2(s)
  <2> DEFINE c == LoadHalf(ref[s], slots[SlotOf(idx[s])], half[s])
  <2>1. spc[s] = "con_ref2" /\ idx[s] < tail /\ slots[SlotOf(idx[s])].val # 0
    <3>1. spc[s] = "con_ref2"
      BY <1>5 DEF ConReadRef2
    <3>2. idx[s] < tail /\ idx[s] # 0
      BY <1>t, <3>1 DEF SubLocal, SubPcs
    <3> QED  BY <1>q, <3>1, <3>2
  <2>2. CASE c.tag # idx[s]
    <3>1. spc'[s] = "begin" /\ idx'[s] = idx[s] + 1
      BY ZenonT(40), <1>t, <1>5, <2>2 DEF ConReadRef2
    <3>2. idx[s] + 1 <= tail /\ idx[s] + 1 # 0
      <4>1. idx[s] \in Nat /\ tail \in Nat
        BY <1>t, <1>q
      <4> QED  BY <2>1, <4>1, AfterIndex
    <3> QED  BY <1>u, <3>1, <3>2 DEF SubLocal, SubPcs
  <2>3. CASE c.tag = idx[s]
    <3>1. /\ spc'[s] = "con_size" /\ idx'[s] = idx[s] /\ ref'[s] = c
          /\ UNCHANGED <<half, copy>>
      BY <1>t, <1>5, <2>3 DEF ConReadRef2
    <3>2. half[s] = "tag" \/ half[s] = "val"
      BY <1>t DEF Halves
    <3>3. c.val # 0
      BY <1>t, <2>1, <3>2 DEF SubLocal, LoadHalf
    <3>4. idx[s] >= head => c.val = log[idx[s]].buf
      BY <1>t, <1>q, <2>1, <3>2 DEF SubLocal, LoadHalf
    <3> QED
      <4> HIDE DEF c
      <4> QED  BY <1>t, <1>u, <2>1, <3>1, <3>3, <3>4 DEF SubLocal, SubPcs
  <2> QED  BY <2>2, <2>3
<1>6. CASE ConReadSize(s)
  <2>1. idx[s] >= head /\ idx[s] < tail => log[idx[s]].msg # 0
    <3>1. idx[s] >= head /\ idx[s] < tail => idx[s] \in 1..N
      BY <1>t, QueuedSlot
    <3>2. 0 \notin Msgs
      BY SMT, JunkType DEF Msgs
    <3> QED  BY <1>t, <3>1, <3>2, LogTypes
  <2> QED
    BY SMTT(30), <1>t, <1>u, <1>q, <1>6, <2>1
       DEF ConReadSize, SubLocal, SubPcs, Buffer, Whole
<1>7. CASE ConReadBody(s)
  <2>1. /\ spc[s] = "con_body" /\ spc'[s] = "con_end" /\ idx'[s] = idx[s]
        /\ copy'[s] = [copy[s] EXCEPT !.body = data[ref[s].val].body]
        /\ copy[s] \in Buffer
    BY <1>t, <1>7 DEF ConReadBody
  <2>2. idx[s] <= tail /\ idx[s] < tail /\ idx[s] # 0
    BY <1>t, <2>1 DEF SubLocal, SubPcs
  <2>3. idx[s] >= head => /\ copy[s].size = log[idx[s]].msg
                          /\ data[ref[s].val] = Whole(log[idx[s]].msg)
    BY <1>t, <1>q, <2>1, <2>2 DEF SubLocal
  <2>4. idx[s] >= head => copy'[s] = Whole(log[idx[s]].msg)
    BY SMTT(30), <2>1, <2>3 DEF Whole, Buffer
  <2> QED  BY <1>u, <2>1, <2>2, <2>4 DEF SubLocal, SubPcs
<1>8. CASE ConEnd(s) \/ ConDiscard(s)
  <2>1. spc[s] \in {"con_end", "con_discard"} /\ spc'[s] = "begin" /\ idx'[s] = idx[s] + 1
    BY <1>t, <1>8 DEF ConEnd, ConDiscard, ConsumeEnd
  <2>2. idx[s] < tail /\ idx[s] \in Nat /\ tail \in Nat
    BY <1>t, <1>q, <2>1 DEF SubLocal, SubPcs
  <2>3. idx[s] + 1 <= tail /\ idx[s] + 1 # 0
    BY <2>2, AfterIndex
  <2> QED  BY <1>u, <2>1, <2>3 DEF SubLocal, SubPcs
<1> QED
  BY <1>1, <1>2, <1>3, <1>4, <1>5, <1>6, <1>7, <1>8 DEF RecvMsg

\* A subscriber's step keeps the invariant.
LEMMA ReceiveStep ==
  ASSUME QueueInv, NEW s \in Subs, SubInit(s) \/ RecvMsg(s)
  PROVE  QueueInv'
<1>1. TypeOK /\ TypeOK' /\ UNCHANGED <<shared, publ, bounds>>
  BY ReceiveTypes DEF QueueInv
<1>2. Window' /\ SlotsIntact' /\ SlotTags' /\ QueuedDataWhole'
  BY <1>1, KeepWindow, KeepSlots, KeepData DEF shared
<1>3. OneOwner' /\ PubLocals'
  BY <1>1, KeepOwners, SamePubs
     DEF QueueInv, shared, publ, plocals, bounds
<1>4. SubLocal(s)'
  BY <1>1, ReceiveLocal
<1>5. \A r \in Subs \ {s} : SubLocal(r)'
  BY <1>1, OtherSubs, SameSub DEF QueueInv, SubLocals
<1>6. SubLocals'
  BY <1>4, <1>5 DEF SubLocals
<1> QED  BY <1>1, <1>2, <1>3, <1>6 DEF QueueInv

-----------------------------------------------------------------------------
(* The invariant *)

\* The window over an empty log is empty.
LEMMA NothingQueued ==
  ASSUME log = <<>>, head = 1
  PROVE  N = 0 /\ Queued = {}
BY SMT DEF N, Queued

\* A region that lf_bcast_mem_init has set up satisfies it.
LEMMA InitInv == Init => QueueInv
<1> SUFFICES ASSUME Init PROVE QueueInv
  OBVIOUS
<1> USE DEF Init, InitRest
<1>1. log = <<>> /\ N = 0 /\ Queued = {}
  BY NothingQueued
<1>2. TypeOK
  <2>1. 0 \in 0..NumBufs /\ 0 \in 0..MaxMsgs /\ Junk \in Buffer /\ NoSlot \in Slot
    BY SMT, BufsType, JunkType
  <2>2. SharedTypes
    BY SMT, <2>1 DEF SharedTypes
  <2>3. PubTypes
    BY <2>1 DEF PubTypes, PubPcs, Halves
  <2>4. SubTypes
    BY <2>1 DEF SubTypes, SubPcs, Halves
  <2>5. BoundTypes
    BY <2>1 DEF BoundTypes
  <2> QED  BY <2>2, <2>3, <2>4, <2>5 DEF TypeOK
<1>3. Window
  BY SMTT(30), <1>1, DepthAssumption DEF Window, DepthAssumption
<1>4. SlotsIntact /\ SlotTags /\ QueuedDataWhole
  BY SMTT(30), <1>1 DEF SlotsIntact, SlotTags, QueuedDataWhole, NoSlot
<1>5. OneOwner
  <2>1. 0 \notin Bufs
    BY NullBuf
  <2> QED  BY <1>1, <2>1 DEF OneOwner, Owning, Publishing
<1>6. PubLocals
  <2>1. 0 <= head /\ 0 <= tail /\ NoSlot.tag <= N
    BY <1>1, Zeroes
  <2> QED  BY <1>1, <2>1 DEF PubLocals, PubLocal, Owning, Publishing
<1>7. SubLocals
  <2>1. 0 <= tail
    BY Zeroes
  <2> QED  BY <2>1 DEF SubLocals, SubLocal, SubPcs
<1> QED  BY <1>2, <1>3, <1>4, <1>5, <1>6, <1>7 DEF QueueInv

\* Every step keeps it.
LEMMA NextInv == QueueInv /\ [Next]_vars => QueueInv'
<1> SUFFICES ASSUME QueueInv, [Next]_vars PROVE QueueInv'
  OBVIOUS
<1>1. ASSUME NEW p \in Pubs, StartSend(p) \/ BufAcquire(p) PROVE QueueInv'
  BY <1>1, AcquireLoads, FromPoolStep, AcqCasStep DEF BufAcquire
<1>2. ASSUME NEW p \in Pubs, FillSize(p) \/ FillBody(p) PROVE QueueInv'
  BY <1>2, FillStep
<1>3. ASSUME NEW p \in Pubs, Publish(p) PROVE QueueInv'
  BY <1>3, PublishLoads, TailStep, DropStep, CommitStep DEF Publish
<1>4. ASSUME NEW p \in Pubs, BufRelease(p) \/ Crash(p) PROVE QueueInv'
  BY <1>4, ReleaseStep, CrashStep
<1>5. ASSUME NEW s \in Subs, SubInit(s) \/ RecvMsg(s) PROVE QueueInv'
  BY <1>5, ReceiveStep
<1>6. CASE UNCHANGED vars
  <2>1. UNCHANGED <<shared, publ, subl, bounds>>
    BY <1>6 DEF vars
  <2>2. TypeOK'
    <3>1. SharedTypes' /\ BoundTypes'
      BY <2>1 DEF QueueInv, TypeOK, SharedTypes, BoundTypes, shared, bounds
    <3>2. PubTypes'
      BY <2>1 DEF QueueInv, TypeOK, PubTypes, publ, plocals
    <3>3. SubTypes'
      BY <2>1 DEF QueueInv, TypeOK, SubTypes, subl, slocals
    <3> QED  BY <3>1, <3>2, <3>3 DEF TypeOK
  <2>3. Window' /\ SlotsIntact' /\ SlotTags' /\ QueuedDataWhole'
    BY <2>1, <2>2, KeepWindow, KeepSlots, KeepData DEF QueueInv, shared
  <2>4. OneOwner' /\ PubLocals'
    BY <2>1, KeepOwners, SamePubs
       DEF QueueInv, shared, publ, plocals, bounds
  <2>5. SubLocals'
    BY <2>1, SameSub DEF QueueInv, SubLocals, subl, slocals
  <2> QED  BY <2>2, <2>3, <2>4, <2>5 DEF QueueInv
<1> QED  BY <1>1, <1>2, <1>3, <1>4, <1>5, <1>6 DEF Next, SendMsg

\* QueueInv is an invariant of the broadcast queue: of any number of publishers
\* and subscribers, in any build's load order, with crashes at any access.
THEOREM QueueInvariant == Spec => []QueueInv
BY InitInv, NextInv, PTL DEF Spec

\* The state of lf_bcast.c keeps its types, references loaded in halves too.
THEOREM QueueTypes == Spec => []TypeOK
<1>1. QueueInv => TypeOK
  BY DEF QueueInv
<1> QED  BY <1>1, QueueInvariant, PTL

\* Whatever publishers interleave or crash, head_idx and tail_idx enclose a
\* window over the committed messages that is no longer than the queue.
THEOREM QueueWindow == Spec => []Window
<1>1. QueueInv => Window
  BY DEF QueueInv
<1> QED  BY <1>1, QueueInvariant, PTL

\* Every queued message is in its slot: no delayed compare-and-swap of a
\* publisher overwrites a newer one.
THEOREM QueueSlots == Spec => []SlotsIntact
<1>1. QueueInv => SlotsIntact
  BY DEF QueueInv
<1> QED  BY <1>1, QueueInvariant, PTL

\* A buffer is in the pool, queued once, or with one publisher, never two.
THEOREM QueueOwners == Spec => []OneOwner
<1>1. QueueInv => OneOwner
  BY DEF QueueInv
<1> QED  BY <1>1, QueueInvariant, PTL

\* Nobody writes into a buffer that is queued.
THEOREM QueueData == Spec => []QueuedDataWhole
<1>1. QueueInv => QueuedDataWhole
  BY DEF QueueInv
<1> QED  BY <1>1, QueueInvariant, PTL

-----------------------------------------------------------------------------
(* The refinement of BcastLog *)

\* The messages of the log, as BcastLog sees them.
View == [i \in 1..N |-> Whole(log[i].msg)]

\* Sequences are functions.
LEMMA FunIsSeq ==
  ASSUME NEW S, NEW n \in Nat, NEW f \in [1..n -> S]
  PROVE  f \in Seq(S) /\ Len(f) = n
<1>1. f \in Seq(S)
  BY SMT
<1>2. Len(f) = n
  BY SMT
<1> QED  BY SMT, <1>1, <1>2

LEMMA SeqIsFun ==
  ASSUME NEW S, NEW x \in Seq(S)
  PROVE  x \in [1..Len(x) -> S]
BY SMT

\* The view is a sequence as long as the log.
LEMMA ViewIsSeq ==
  ASSUME TypeOK
  PROVE  /\ View \in Seq({Whole(m) : m \in Msgs})
         /\ Len(View) = N
         /\ \A i \in 1..N : View[i] = Whole(log[i].msg)
<1> DEFINE S == {Whole(m) : m \in Msgs}
<1>1. N \in Nat /\ \A i \in 1..N : log[i].msg \in Msgs
  BY IndexTypes, LogTypes
<1>2. View \in [1..N -> S]
  BY <1>1 DEF View
<1>3. View \in Seq(S) /\ Len(View) = N
  <2> HIDE DEF S
  <2> QED  BY <1>1, <1>2, FunIsSeq
<1> QED  BY <1>3 DEF View

\* A commit appends its message to the view.
LEMMA CommitAppends ==
  ASSUME QueueInv, NEW p \in Pubs, PubCas(p)
  PROVE  /\ Whole(msg[p]) \in {Whole(m) : m \in Msgs}
         /\ View' = Append(View, Whole(msg[p]))
<1> DEFINE S == {Whole(m) : m \in Msgs}
           w == Whole(msg[p])
<1>1. TypeOK /\ TypeOK'
  BY CommitStep DEF QueueInv
<1>2. N \in Nat /\ N' = N + 1 /\ log'[N + 1].msg = msg[p]
      /\ \A i \in 1..N : log'[i] = log[i]
  <2> DEFINE entry == [msg |-> msg[p], buf |-> buf[p]]
  <2>1. log' = Append(log, entry) /\ entry.msg = msg[p]
    BY DEF PubCas
  <2> HIDE DEF entry
  <2>2. log \in Seq([msg : Msgs, buf : Bufs])
    BY <1>1 DEF TypeOK, SharedTypes
  <2>3. /\ Len(Append(log, entry)) = Len(log) + 1
        /\ Append(log, entry)[Len(log) + 1] = entry
        /\ \A i \in 1..Len(log) : Append(log, entry)[i] = log[i]
    BY <2>2, Appended
  <2>4. N \in Nat
    BY <1>1, IndexTypes
  <2> QED  BY <2>1, <2>3, <2>4 DEF N
<1>3. w \in S
  <2>1. msg[p] \in 0..MaxMsgs /\ msg[p] # 0
    <3>1. pc[p] = "pub_cas"
      BY DEF PubCas, Goto
    <3>2. msg \in [Pubs -> 0..MaxMsgs] /\ PubLocal(p)
      BY <1>1 DEF QueueInv, TypeOK, PubTypes, PubLocals
    <3> QED  BY <3>1, <3>2 DEF PubLocal
  <2>2. msg[p] \in Msgs
    BY SMT, <2>1, JunkType DEF Msgs
  <2> QED  BY ZenonT(40), <2>2
<1> HIDE DEF S, w
<1>4. View \in Seq(S) /\ Len(View) = N /\ \A i \in 1..N : View[i] = Whole(log[i].msg)
  BY <1>1, ViewIsSeq DEF S
<1>5. /\ Append(View, w) \in Seq(S) /\ Len(Append(View, w)) = N + 1
      /\ \A i \in 1..N : Append(View, w)[i] = View[i]
      /\ Append(View, w)[N + 1] = w
  BY SMT, <1>2, <1>3, <1>4
<1>6. View' = [i \in 1..N + 1 |-> Whole(log'[i].msg)]
  BY <1>2 DEF View
<1>7. Append(View, w) \in [1..N + 1 -> S]
  BY <1>5, SeqIsFun
<1>8. \A i \in 1..N + 1 : Append(View, w)[i] = Whole(log'[i].msg)
  BY SMT, <1>2, <1>4, <1>5 DEF w
<1>9. View' = Append(View, w)
  BY <1>6, <1>7, <1>8
<1> QED  BY <1>3, <1>9 DEF S, w

\* A publisher's step that moves the head moves it over a queued message.
LEMMA HeadMoves ==
  ASSUME QueueInv, NEW p \in Pubs, AcqCas(p) \/ PubDropHead(p)
  PROVE  /\ UNCHANGED log
         /\ head' = head \/ (head' = head + 1 /\ head <= N)
         /\ UNCHANGED <<idx, drops, last>>
<1>1. TypeOK /\ Window /\ PubLocal(p)
  BY DEF QueueInv, PubLocals
<1>2. head \in Nat \ {0} /\ tail \in Nat \ {0} /\ N \in Nat /\ h[p] \in Nat /\ t[p] \in Nat
  BY <1>1, IndexTypes DEF TypeOK, PubTypes
<1> QED
  BY SMTT(30), <1>1, <1>2 DEF AcqCas, PubDropHead, Goto, PubLocal, Window, subl, slocals

\* Publishers change the log, the head and a subscriber's progress nowhere else.
LEMMA OtherSends ==
  ASSUME NEW p \in Pubs, SendMsg(p) \/ BufRelease(p) \/ Crash(p),
         ~PubCas(p), ~AcqCas(p), ~PubDropHead(p)
  PROVE  UNCHANGED <<log, head, idx, drops, last>>
BY DEF SendMsg, StartSend, BufAcquire, AcqFromPool, AcqPoolEmpty, AcqReadHead,
   AcqReadTail, AcqReadSlot, AcqCasFail, FillSize, FillBody, BufRelease, Publish,
   PubLoadFirst, PubLoadTail, PubLoadHead, PubLoadSlot, PubLoadSlot2, PubFixTail,
   PubCasFail, PubBumpTail, PubWake, Crash, shared, subl, slocals

\* A subscriber joins at the end of the log.
LEMMA JoinStep ==
  ASSUME QueueInv, NEW s \in Subs, SubInit(s)
  PROVE  /\ idx[s] = 0 /\ UNCHANGED <<log, head, drops, last>>
         /\ \E i \in {N, N + 1} \ {0} : idx' = [idx EXCEPT ![s] = i]
BY IndexTypes DEF QueueInv, Window, SubLocals, SubLocal, SubInit, SubGoto, shared

\* A subscriber moves on by one message, and gets a queued message whole or
\* counts one that was rolled off.
LEMMA ReceiveMoves ==
  ASSUME QueueInv, NEW s \in Subs, RecvMsg(s)
  PROVE  /\ UNCHANGED <<log, head>>
         /\ \/ UNCHANGED <<idx, drops, last>>
            \/ /\ idx[s] \in head..N
               /\ last' = [last EXCEPT ![s] = Whole(log[idx[s]].msg)]
               /\ idx' = [idx EXCEPT ![s] = @ + 1]
               /\ drops' = drops
            \/ /\ idx[s] \in 1..head - 1
               /\ drops' = [drops EXCEPT ![s] = @ + 1]
               /\ idx' = [idx EXCEPT ![s] = @ + 1]
               /\ last' = last
<1>0. UNCHANGED <<log, head>>
  BY ReceiveTypes DEF shared
<1>t. /\ TypeOK /\ Window /\ SubLocal(s)
      /\ head \in Nat \ {0} /\ tail \in Nat \ {0} /\ N \in Nat
      /\ spc \in [Subs -> SubPcs] /\ idx \in [Subs -> Nat] /\ idx[s] \in Nat
      /\ drops \in [Subs -> Nat] /\ last \in [Subs -> Buffer]
      /\ ref[s] \in Slot /\ half[s] \in Halves
  BY IndexTypes DEF QueueInv, SubLocals, TypeOK, SubTypes
<1>q. idx[s] >= head /\ idx[s] < tail =>
        idx[s] \in head..N /\ slots[SlotOf(idx[s])].tag = idx[s]
  BY <1>t, QueuedSlot DEF Queued
<1>n. idx[s] < tail /\ idx[s] # 0 /\ ~(idx[s] >= head) => idx[s] \in 1..head - 1
  BY SMT, <1>t
<1>1. CASE \/ ConReadTail(s) \/ FutexWait(s) \/ FutexTimeout(s) \/ ConReadRef(s)
           \/ ConReadSize(s) \/ ConReadBody(s)
  BY <1>0, <1>1 DEF ConReadTail, FutexWait, FutexTimeout, ConReadRef, ConReadSize,
     ConReadBody, slocals
<1>2. CASE ConReadRef2(s)
  <2> DEFINE c == LoadHalf(ref[s], slots[SlotOf(idx[s])], half[s])
  <2>1. idx[s] < tail /\ idx[s] # 0
    BY <1>t, <1>2 DEF ConReadRef2, SubGoto, SubLocal, SubPcs
  <2>2. idx[s] >= head => c.tag = idx[s]
    BY <1>t, <1>q, <1>2, <2>1
       DEF ConReadRef2, SubGoto, SubLocal, LoadHalf, Halves
  <2>3. CASE c.tag = idx[s]
    <3>1. idx' = idx /\ drops' = drops /\ last' = last
      BY <1>t, <1>2, <2>3 DEF ConReadRef2
    <3> QED  BY <1>0, <3>1
  <2>4. CASE c.tag # idx[s]
    <3>1. /\ idx' = [idx EXCEPT ![s] = @ + 1] /\ drops' = [drops EXCEPT ![s] = @ + 1]
          /\ last' = last
      BY <1>t, <1>2, <2>4 DEF ConReadRef2
    <3>2. idx[s] \in 1..head - 1
      BY <1>n, <2>1, <2>2, <2>4
    <3> QED  BY <1>0, <3>1, <3>2
  <2> QED  BY <2>3, <2>4
<1>3. CASE ConEnd(s)
  <2>1. /\ spc[s] = "con_end" /\ idx[s] < tail /\ idx[s] # 0
        /\ idx' = [idx EXCEPT ![s] = @ + 1]
    BY <1>t, <1>3 DEF ConEnd, ConsumeEnd, SubGoto, SubLocal, SubPcs
  <2>2. CASE idx[s] >= head
    <3>1. last' = [last EXCEPT ![s] = copy[s]] /\ drops' = drops
      BY <1>t, <1>3, <2>2 DEF ConEnd, ConsumeEnd
    <3>2. copy[s] = Whole(log[idx[s]].msg)
      BY <1>t, <2>1, <2>2 DEF SubLocal
    <3> QED  BY <1>0, <1>q, <2>1, <2>2, <3>1, <3>2
  <2>3. CASE ~(idx[s] >= head)
    <3>1. last' = last /\ drops' = [drops EXCEPT ![s] = @ + 1]
      BY <1>t, <1>3, <2>3 DEF ConEnd, ConsumeEnd
    <3> QED  BY <1>0, <1>n, <2>1, <2>3, <3>1
  <2> QED  BY <2>2, <2>3
<1>4. CASE ConDiscard(s)
  <2>1. /\ spc[s] = "con_discard" /\ idx[s] < tail /\ idx[s] # 0
        /\ idx' = [idx EXCEPT ![s] = @ + 1] /\ last' = last
        /\ ~(idx[s] >= head)
    BY <1>t, <1>4 DEF ConDiscard, ConsumeEnd, SubGoto, SubLocal, SubPcs
  <2>2. drops' = [drops EXCEPT ![s] = @ + 1]
    BY <1>t, <1>4, <2>1 DEF ConDiscard, ConsumeEnd
  <2> QED  BY <1>0, <1>n, <2>1, <2>2
<1> QED  BY <1>1, <1>2, <1>3, <1>4 DEF RecvMsg

-----------------------------------------------------------------------------
\* The broadcast queue implements BcastLog: no interleaving of publishers, stale
\* index or torn load makes a subscriber see a message twice, out of order or
\* mixed with another, skip one it does not count, or count one still queued.
THEOREM QueueRefinement == Spec => ImplementsBcastLog
<1>1. Init => Abstract!Init
  <2> SUFFICES ASSUME Init PROVE Abstract!Init
    OBVIOUS
  <2>1. N = 0 /\ log = <<>>
    BY DEF Init, InitRest, N
  <2>2. [i \in 1..N |-> Whole(log[i].msg)] = <<>>
    BY SMT, <2>1
  <2> QED  BY <2>2 DEF Abstract!Init, Init, InitRest
<1>2. QueueInv /\ [Next]_vars => [Abstract!Next]_Abstract!vars
  <2> SUFFICES ASSUME QueueInv, [Next]_vars
               PROVE  Abstract!Next \/ UNCHANGED Abstract!vars
    OBVIOUS
  <2>v. TypeOK /\ View = [i \in 1..N |-> Whole(log[i].msg)] /\ Len(View) = N
        /\ \A i \in 1..N : View[i] = Whole(log[i].msg)
    BY ViewIsSeq DEF QueueInv, View
  <2>w. log' = log => View' = View
    BY DEF View, N
  <2>1. ASSUME NEW p \in Pubs, PubCas(p) PROVE Abstract!Next
    <3>1. UNCHANGED <<head, idx, drops, last>>
      BY <2>1 DEF PubCas, subl, slocals
    <3> QED
      BY <2>1, <3>1, CommitAppends DEF Abstract!Next, Abstract!Publish, View
  <2>2. ASSUME NEW p \in Pubs, AcqCas(p) \/ PubDropHead(p)
        PROVE  Abstract!Next \/ UNCHANGED Abstract!vars
    <3>1. View' = View /\ Len(View) = N /\ UNCHANGED <<idx, drops, last>>
          /\ (head' = head \/ (head' = head + 1 /\ head <= N))
      BY <2>2, <2>v, <2>w, HeadMoves
    <3> QED
      BY <3>1 DEF Abstract!Next, Abstract!RollOff, Abstract!vars, View
  <2>3. ASSUME NEW p \in Pubs, SendMsg(p) \/ BufRelease(p) \/ Crash(p),
               ~PubCas(p), ~AcqCas(p), ~PubDropHead(p)
        PROVE  UNCHANGED Abstract!vars
    BY <2>3, <2>w, OtherSends DEF Abstract!vars, View
  <2>4. ASSUME NEW s \in Subs, SubInit(s) PROVE Abstract!Next
    <3>1. View' = View
      BY <2>4, <2>w, JoinStep
    <3> QED
      BY <2>v, <2>4, <3>1, JoinStep DEF Abstract!Next, Abstract!Join, View
  <2>5. ASSUME NEW s \in Subs, RecvMsg(s) PROVE Abstract!Next \/ UNCHANGED Abstract!vars
    <3>1. View' = View /\ head' = head
      BY <2>5, <2>w, ReceiveMoves
    <3>2. CASE UNCHANGED <<idx, drops, last>>
      BY <3>1, <3>2 DEF Abstract!vars, View
    <3>3. CASE /\ idx[s] \in head..N
               /\ last' = [last EXCEPT ![s] = Whole(log[idx[s]].msg)]
               /\ idx' = [idx EXCEPT ![s] = @ + 1]
               /\ drops' = drops
      <4>1. View[idx[s]] = Whole(log[idx[s]].msg) /\ idx[s] \in head..Len(View)
        BY SMT, <2>v, <3>3, IndexTypes
      <4> QED
        BY <3>1, <3>3, <4>1 DEF Abstract!Next, Abstract!Deliver, View
    <3>4. CASE /\ idx[s] \in 1..head - 1
               /\ drops' = [drops EXCEPT ![s] = @ + 1]
               /\ idx' = [idx EXCEPT ![s] = @ + 1]
               /\ last' = last
      BY <3>1, <3>4 DEF Abstract!Next, Abstract!Drop, View
    <3> QED  BY <2>5, <3>2, <3>3, <3>4, ReceiveMoves
  <2>6. CASE UNCHANGED vars
    BY <2>6 DEF vars, shared, subl, slocals, Abstract!vars, N
  <2> QED
    BY <2>1, <2>2, <2>3, <2>4, <2>5, <2>6 DEF Next
<1> QED
  BY QueueInvariant, <1>1, <1>2, PTL DEF Spec, ImplementsBcastLog, Abstract!Spec

=============================================================================
