---------------------------- MODULE LfPoolProofs ----------------------------
(***************************************************************************)
(* Proofs about LfPool for every set of threads and number of elements:    *)
(* the inductive invariant PoolInv holds initially and every step of       *)
(* lf_pool_acquire and lf_pool_release preserves it, and the theorems that *)
(* follow from it.                                                         *)
(***************************************************************************)
EXTENDS LfPool, TLAPS

\* The references of free elements.
StackRef == [tag : Nat \ {0}, val : Elts]

-----------------------------------------------------------------------------
(* Popping, pushing and loading *)

\* What an acquire leaves of the stack of free elements.
LEMMA PopFacts ==
  ASSUME NEW S, NEW s \in Seq(S), s # <<>>
  PROVE  /\ Pop(s) \in Seq(S)
         /\ Len(s) \in Nat \ {0}
         /\ Len(Pop(s)) = Len(s) - 1
         /\ \A k \in 1..Len(Pop(s)) : Pop(s)[k] = s[k + 1]
BY DEF Pop

\* What a release makes of the stack of free elements.
LEMMA PushFacts ==
  ASSUME NEW S, NEW s \in Seq(S), NEW x \in S
  PROVE  /\ <<x>> \o s \in Seq(S)
         /\ <<x>> \o s # <<>>
         /\ Len(s) \in Nat
         /\ Len(<<x>> \o s) = Len(s) + 1
         /\ (<<x>> \o s)[1] = x
         /\ \A k \in 1..Len(s) : (<<x>> \o s)[k + 1] = s[k]
OBVIOUS

\* A sequence is empty when its length is 0, and its members are typed.
LEMMA LenFacts ==
  ASSUME NEW S, NEW s \in Seq(S)
  PROVE  /\ Len(s) \in Nat
         /\ s = <<>> <=> Len(s) = 0
         /\ \A k \in 1..Len(s) : s[k] \in S
OBVIOUS

\* Loading half of a reference gives a reference, with the old tag or the new.
LEMMA LoadHalfFacts ==
  ASSUME NEW local \in Ref, NEW memory \in Ref, NEW half \in Halves
  PROVE  /\ LoadHalf(local, memory, half) \in Ref
         /\ LoadHalf(local, memory, half).tag \in {local.tag, memory.tag}
         /\ Other(half) \in Halves
BY Zenon DEF LoadHalf, Ref, Halves, Other

-----------------------------------------------------------------------------
(* Consequences of the invariant *)

\* LF_REF_NULL is a reference.
LEMMA NullRefType == NullRef \in Ref
BY NumEltsAssumption DEF NullRef, Ref, Offsets

\* The stack holds references to free elements, with tags that a release gave.
LEMMA StackFacts ==
  ASSUME PoolInv
  PROVE  /\ stack \in Seq(StackRef)
         /\ Len(stack) \in Nat
         /\ stack = <<>> <=> Len(stack) = 0
         /\ \A k \in 1..Len(stack) : /\ stack[k] \in StackRef
                                     /\ stack[k] \in Ref
                                     /\ stack[k].tag \in Nat \ {0}
                                     /\ stack[k].val \in Elts
                                     /\ stack[k].val \in Free
<1>1. stack \in Seq(StackRef)
  BY Zenon DEF PoolInv, TypeOK, StackRef
<1>2. StackRef \subseteq Ref
  BY NumEltsAssumption DEF StackRef, Ref, Elts, Offsets
<1>3. /\ Len(stack) \in Nat
      /\ stack = <<>> <=> Len(stack) = 0
      /\ \A k \in 1..Len(stack) : stack[k] \in StackRef
  BY <1>1, LenFacts, Zenon
<1>4. \A k \in 1..Len(stack) : stack[k].val \in Free
  BY Zenon DEF Free
<1>5. \A r \in StackRef : r \in Ref /\ r.tag \in Nat \ {0} /\ r.val \in Elts
  BY <1>2, Zenon DEF StackRef
<1> QED
  BY <1>1, <1>3, <1>4, <1>5, Zenon

\* A loaded head carries no tag that a pending release has reserved.
LEMMA HeadFacts ==
  ASSUME PoolInv
  PROVE  /\ head \in Ref
         /\ head.tag \in Nat
         /\ head.tag <= tag_next
         /\ \A u \in Threads : Releasing(u) => head.tag # nxt[u].tag
         /\ stack # <<>> => head.tag # 0 /\ head.val # 0 /\ head = stack[1]
<1>1. CASE stack = <<>>
  BY <1>1 DEF PoolInv, ChainIntact, TypeOK, NullRef, ReleaseLocals, Ref
<1>2. CASE stack # <<>>
  <2>1. 1 \in 1..Len(stack) /\ head = stack[1]
    BY <1>2, StackFacts DEF PoolInv, ChainIntact
  <2>2. /\ head \in Ref
        /\ head.tag \in Nat \ {0}
        /\ head.val \in Elts
    BY <2>1, StackFacts, Zenon
  <2>3. head.tag <= tag_next
    BY <2>1, Zenon DEF PoolInv, TagsFresh
  <2>4. \A u \in Threads : Releasing(u) => head.tag # nxt[u].tag
    BY <2>1, Zenon DEF PoolInv, TagsFresh
  <2> QED
    BY <2>1, <2>2, <2>3, <2>4, NumEltsAssumption DEF Elts
<1> QED
  BY <1>1, <1>2, Zenon

\* The link read at the offset of a free element names the one below it.
LEMMA DerefFacts ==
  ASSUME PoolInv, NEW off \in Offsets
  PROVE  /\ Deref(off) \in Ref
         /\ \A k \in 1..Len(stack) : stack[k].val = off => Deref(off) = Succ(k)
<1>1. CASE off = 0
  BY <1>1, StackFacts, NumEltsAssumption DEF Deref, Junk, Ref, Offsets, Elts
<1>2. CASE off # 0
  BY SMTT(60), <1>2, StackFacts, NumEltsAssumption
  DEF Deref, PoolInv, TypeOK, ChainIntact, Offsets, Elts
<1> QED
  BY <1>1, <1>2, Zenon

-----------------------------------------------------------------------------
(* The inductive invariant holds initially and is preserved. *)

\* lf_pool_mem_init leaves the pool in a state that satisfies the invariant.
LEMMA InitInv == Init => PoolInv
<1> SUFFICES ASSUME Init PROVE PoolInv
  BY Zenon
<1> USE NumEltsAssumption
<1>1. /\ stack \in Seq(StackRef)
      /\ Len(stack) = NumElts
      /\ \A i \in 1..NumElts : stack[i] = [tag |-> NumElts + 1 - i, val |-> i]
  BY DEF Init, StackRef, Elts
<1>2. TypeOK
  BY <1>1 DEF Init, TypeOK, StackRef, Ref, NullRef, Elts, Offsets, PcValues, Halves
<1>3. Free = Elts
  BY <1>1 DEF Free, Elts
<1>4. \A t \in Threads : Owned(t) = {} /\ ~Releasing(t) /\ ~Acquiring(t)
  BY ZenonT(60) DEF Init, Owned, Releasing, Acquiring
<1>5. OneOwner
  BY <1>1, <1>3, <1>4 DEF OneOwner, Elts
<1>6. ChainIntact
  <2>1. stack = <<>> <=> NumElts = 0
    BY <1>1, LenFacts, Zenon
  <2>2. head = IF NumElts = 0 THEN NullRef ELSE stack[1]
    BY Zenon DEF Init
  <2>3. \A i \in 1..Len(stack) : link[stack[i].val] = Succ(i)
    BY <1>1 DEF Init, Elts, Succ
  <2> QED
    BY <2>1, <2>2, <2>3, Zenon DEF ChainIntact
<1>7. ReleaseLocals
  BY <1>4, Zenon DEF ReleaseLocals
<1>8. TagsFresh
  BY <1>1, <1>4 DEF TagsFresh, Init, NullRef
<1>9. SnapshotCurrent
  BY ZenonT(60), <1>1 DEF SnapshotCurrent, Init
<1>10. EmptySeen
  BY ZenonT(60), <1>4 DEF EmptySeen, Init
<1> QED
  BY <1>2, <1>5, <1>6, <1>7, <1>8, <1>9, <1>10, Zenon DEF PoolInv

\* A step that moves no element leaves the owners alone.
LEMMA SameOwners ==
  ASSUME PoolInv, UNCHANGED <<held, elt, stack>>,
         \A u \in Threads : Releasing(u)' <=> Releasing(u)
  PROVE  OneOwner'
<1>1. \A u \in Threads : Owned(u)' = Owned(u)
  BY Zenon DEF Owned
<1>2. Free' = Free
  BY Zenon DEF Free
<1> QED
  BY <1>1, <1>2 DEF PoolInv, OneOwner

\* What an acquirer dereferences is the link of a free element, if the head
\* it loaded is that element's reference.
LEMMA CurDeref ==
  ASSUME PoolInv, NEW t \in Threads,
         pc[t] \in {"acq_next", "acq_next2", "acq_cas"}
  PROVE  /\ cur[t] \in Ref
         /\ cur[t] # NullRef
         /\ Deref(cur[t].val) \in Ref
         /\ \A k \in 1..Len(stack) :
              stack[k] = cur[t] => Deref(cur[t].val) = Succ(k)
BY SMTT(60), DerefFacts DEF PoolInv, TypeOK, SnapshotCurrent, Ref

\* A successful compare-and-swap of lf_pool_acquire pops the top of the stack.
LEMMA AcqCasStack ==
  ASSUME PoolInv, NEW t \in Threads, AcqCas(t)
  PROVE  /\ stack # <<>>
         /\ cur[t] = stack[1]
         /\ 1 \in 1..Len(stack)
         /\ stack' \in Seq(StackRef)
         /\ Len(stack') \in Nat
         /\ stack' = <<>> <=> Len(stack') = 0
         /\ Len(stack') = Len(stack) - 1
         /\ \A k \in 1..Len(stack') : /\ k + 1 \in 1..Len(stack)
                                      /\ stack'[k] = stack[k + 1]
                                      /\ Succ(k)' = Succ(k + 1)
         /\ \A k \in 1..Len(stack) :
              \/ stack[k] = stack[1]
              \/ k - 1 \in 1..Len(stack') /\ stack[k] = stack'[k - 1]
<1>1. /\ head = cur[t]
      /\ head' = nxt[t]
      /\ stack' = Pop(stack)
      /\ held' = [held EXCEPT ![t] = @ \cup {cur[t].val}]
      /\ pc' = [pc EXCEPT ![t] = "idle"]
      /\ emptied' = IF stack' = <<>> THEN Threads ELSE emptied
      /\ UNCHANGED <<tag_next, link, left, cur, nxt, elt, ops>>
      /\ pc[t] = "acq_cas"
  BY Zenon DEF AcqCas, Goto, locals
<1>2. /\ stack # <<>>
      /\ cur[t] = stack[1]
      /\ 1 \in 1..Len(stack)
  BY <1>1, StackFacts, CurDeref DEF PoolInv, ChainIntact
<1>3. /\ stack' \in Seq(StackRef)
      /\ Len(stack') = Len(stack) - 1
      /\ Len(stack') \in Nat
      /\ stack' = <<>> <=> Len(stack') = 0
      /\ \A k \in 1..Len(stack') : /\ k + 1 \in 1..Len(stack)
                                   /\ stack'[k] = stack[k + 1]
                                   /\ Succ(k)' = Succ(k + 1)
  <2>1. /\ stack' \in Seq(StackRef)
        /\ Len(stack') = Len(stack) - 1
        /\ Len(stack) \in Nat \ {0}
        /\ \A k \in 1..Len(stack') : stack'[k] = stack[k + 1]
    BY <1>1, <1>2, StackFacts, PopFacts, Zenon
  <2>2. Len(stack') \in Nat /\ (stack' = <<>> <=> Len(stack') = 0)
    BY <2>1, LenFacts, Zenon
  <2> QED
    BY <2>1, <2>2 DEF Succ
<1>4. \A k \in 1..Len(stack) :
        stack[k] = stack[1] \/ (k - 1 \in 1..Len(stack') /\ stack[k] = stack'[k - 1])
  BY <1>3
<1> QED
  BY <1>2, <1>3, <1>4, Zenon

\* A successful acquire moves one element from the pool to its caller.
LEMMA AcqCasMoves ==
  ASSUME PoolInv, NEW t \in Threads, AcqCas(t)
  PROVE  /\ Free' = Free \ {cur[t].val}
         /\ cur[t].val \in Free
         /\ \A i, j \in 1..Len(stack') : stack'[i].val = stack'[j].val => i = j
         /\ \A u \in Threads :
              /\ Releasing(u)' <=> Releasing(u)
              /\ Owned(u)' = IF u = t THEN Owned(u) \cup {cur[t].val} ELSE Owned(u)
<1>1. /\ head = cur[t]
      /\ head' = nxt[t]
      /\ stack' = Pop(stack)
      /\ held' = [held EXCEPT ![t] = @ \cup {cur[t].val}]
      /\ pc' = [pc EXCEPT ![t] = "idle"]
      /\ emptied' = IF stack' = <<>> THEN Threads ELSE emptied
      /\ UNCHANGED <<tag_next, link, left, cur, nxt, elt, ops>>
      /\ pc[t] = "acq_cas"
  BY Zenon DEF AcqCas, Goto, locals
<1>2. cur[t] = stack[1] /\ 1 \in 1..Len(stack)
  BY AcqCasStack, Zenon
<1>7. /\ Free' = Free \ {cur[t].val}
      /\ cur[t].val \in Free
      /\ \A i, j \in 1..Len(stack') : stack'[i].val = stack'[j].val => i = j
  <2>1. \A i, j \in 1..Len(stack) : stack[i].val = stack[j].val => i = j
    BY Zenon DEF PoolInv, OneOwner
  <2>2. \A k \in 1..Len(stack') : stack'[k].val # cur[t].val
    <3> TAKE k \in 1..Len(stack')
    <3>1. k + 1 \in 1..Len(stack) /\ k + 1 # 1 /\ stack'[k] = stack[k + 1]
      BY AcqCasStack
    <3>2. stack[k + 1].val # stack[1].val
      BY <3>1, <1>2, <2>1, Zenon
    <3> QED
      BY <3>1, <3>2, <1>2, Zenon
  <2>3. \A i, j \in 1..Len(stack') : stack'[i].val = stack'[j].val => i = j
    BY SMTT(60), <2>1, AcqCasStack
  <2>4. \A k \in 1..Len(stack') :
          k + 1 \in 1..Len(stack) /\ stack'[k] = stack[k + 1]
    BY AcqCasStack, Zenon
  <2>5. \A k \in 1..Len(stack) :
          \/ stack[k] = cur[t]
          \/ k - 1 \in 1..Len(stack') /\ stack[k] = stack'[k - 1]
    BY AcqCasStack, Zenon
  <2> QED
    BY SMTT(60), <2>2, <2>3, <2>4, <2>5, <1>2 DEF Free
<1>8. \A u \in Threads :
        /\ Releasing(u)' <=> Releasing(u)
        /\ Owned(u)' = IF u = t THEN Owned(u) \cup {cur[t].val} ELSE Owned(u)
  BY <1>1, Zenon DEF Releasing, Owned, PoolInv, TypeOK
<1> QED
  BY <1>7, <1>8, Zenon

\* A successful compare-and-swap of lf_pool_acquire keeps the invariant.
LEMMA AcqCasInv ==
  ASSUME PoolInv, NEW t \in Threads, AcqCas(t)
  PROVE  PoolInv'
<1>1. /\ head = cur[t]
      /\ head' = nxt[t]
      /\ stack' = Pop(stack)
      /\ held' = [held EXCEPT ![t] = @ \cup {cur[t].val}]
      /\ pc' = [pc EXCEPT ![t] = "idle"]
      /\ emptied' = IF stack' = <<>> THEN Threads ELSE emptied
      /\ UNCHANGED <<tag_next, link, left, cur, nxt, elt, ops>>
      /\ pc[t] = "acq_cas"
  BY Zenon DEF AcqCas, Goto, locals
<1>2. stack # <<>> /\ cur[t] = stack[1] /\ 1 \in 1..Len(stack)
  BY AcqCasStack, Zenon
<1>3. /\ stack' \in Seq(StackRef)
      /\ Len(stack') = Len(stack) - 1
      /\ Len(stack') \in Nat
      /\ stack' = <<>> <=> Len(stack') = 0
      /\ \A k \in 1..Len(stack') : /\ k + 1 \in 1..Len(stack)
                                   /\ stack'[k] = stack[k + 1]
                                   /\ Succ(k)' = Succ(k + 1)
  BY AcqCasStack, Zenon
<1>5. nxt[t] = Succ(1)
  BY <1>1, <1>2, Zenon DEF PoolInv, SnapshotCurrent
<1>6. TypeOK'
  BY <1>1, <1>2, <1>3, StackFacts DEF PoolInv, TypeOK, PcValues, StackRef
<1>7. /\ Free' = Free \ {cur[t].val}
      /\ cur[t].val \in Free
      /\ \A i, j \in 1..Len(stack') : stack'[i].val = stack'[j].val => i = j
  BY AcqCasMoves, Zenon
<1>8. \A u \in Threads :
        /\ Releasing(u)' <=> Releasing(u)
        /\ Owned(u)' = IF u = t THEN Owned(u) \cup {cur[t].val} ELSE Owned(u)
  BY AcqCasMoves, Zenon
<1>9. OneOwner'
  <2>1. \A u, v \in Threads : u # v => (Owned(u) \cap Owned(v))' = {}
    BY <1>7, <1>8 DEF PoolInv, OneOwner
  <2>2. \A u \in Threads : (Owned(u) \cap Free)' = {}
    BY <1>7, <1>8 DEF PoolInv, OneOwner
  <2>3. \A u \in Threads : Releasing(u)' => elt'[u] \notin held'[u]
    BY <1>1, <1>8, Zenon DEF PoolInv, OneOwner, TypeOK, Releasing
  <2>4. \A e \in Elts \ Free' : \E u \in Threads : e \in Owned(u)'
    BY <1>7, <1>8 DEF PoolInv, OneOwner
  <2> QED
    BY <2>1, <2>2, <2>3, <2>4, <1>7, Zenon DEF OneOwner, Elts
<1>10. ChainIntact'
  <2>1. head' = IF stack' = <<>> THEN NullRef ELSE stack'[1]
    <3>1. head' = Succ(1) /\ Len(stack) \in Nat
      BY <1>1, <1>5, StackFacts, Zenon
    <3>2. CASE Len(stack) = 1
      <4>1. Succ(1) = NullRef /\ stack' = <<>>
        BY <3>2, <1>3 DEF Succ
      <4> QED  BY <3>1, <4>1, Zenon
    <3>3. CASE Len(stack) # 1
      <4>1. 1 \in 1..Len(stack') /\ stack' # <<>>
        BY <3>1, <3>3, <1>2, <1>3
      <4>2. Succ(1) = stack[1 + 1]
        BY <3>3, Zenon DEF Succ
      <4>3. stack'[1] = stack[1 + 1]
        BY <4>1, <1>3, Zenon
      <4> QED  BY <3>1, <4>1, <4>2, <4>3, Zenon
    <3> QED  BY <3>2, <3>3, Zenon
  <2>2. \A k \in 1..Len(stack') : link'[stack'[k].val] = Succ(k)'
    BY ZenonT(60), <1>1, <1>3 DEF PoolInv, ChainIntact
  <2> QED
    BY <2>1, <2>2, Zenon DEF ChainIntact
<1>11. ReleaseLocals'
  BY <1>1, <1>8, Zenon DEF PoolInv, ReleaseLocals, TypeOK, Releasing
<1>12. TagsFresh'
  <2>1. \A i, j \in 1..Len(stack') : stack'[i].tag = stack'[j].tag => i = j
    BY SMTT(60), <1>3 DEF PoolInv, TagsFresh
  <2>2. \A u \in Threads, i \in 1..Len(stack') :
          Releasing(u)' => stack'[i].tag # nxt'[u].tag
    BY SMTT(30), <1>1, <1>3, <1>8 DEF PoolInv, TagsFresh
  <2>3. \A i \in 1..Len(stack') : stack'[i].tag <= tag_next'
    BY SMTT(60), <1>1, <1>3 DEF PoolInv, TagsFresh
  <2> QED
    BY <2>1, <2>2, <2>3, <1>1, <1>8, Zenon DEF PoolInv, TagsFresh
<1>13. SnapshotCurrent'
  BY SMTT(60), <1>1, <1>3 DEF PoolInv, SnapshotCurrent, TypeOK
<1>14. EmptySeen'
  BY <1>1, <1>3, Zenon DEF PoolInv, EmptySeen, TypeOK, Acquiring
<1> QED
  BY <1>6, <1>9, <1>10, <1>11, <1>12, <1>13, <1>14, Zenon DEF PoolInv

\* A step of thread t that changes only its own pc and locals preserves the
\* invariant if what it leaves in them is right.
LEMMA LocalStep ==
  ASSUME PoolInv, TypeOK', NEW t \in Threads,
         UNCHANGED <<head, tag_next, link, elt, held, stack>>,
         \A u \in Threads : u # t =>
           /\ pc'[u] = pc[u] /\ left'[u] = left[u]
           /\ cur'[u] = cur[u] /\ nxt'[u] = nxt[u]
           /\ u \in emptied' <=> u \in emptied,
         Releasing(t)' <=> Releasing(t),
         Releasing(t) => nxt'[t] = nxt[t] /\ pc'[t] # "rel_cas",
         cur'[t].tag \in {0, cur[t].tag, head.tag},
         pc'[t] \in {"acq_next", "acq_next2", "acq_cas"} => cur'[t] # NullRef,
         \A k \in 1..Len(stack) : stack[k] = cur'[t] =>
           /\ pc'[t] = "acq_cas" => nxt'[t] = Succ(k)
           /\ pc'[t] = "acq_next2" =>
                IF left'[t] = "val" THEN nxt'[t].tag = Succ(k).tag
                                    ELSE nxt'[t].val = Succ(k).val,
         Acquiring(t)' /\ stack = <<>> => t \in emptied',
         pc'[t] = "acq_head2" /\ t \notin emptied' =>
           IF left'[t] = "val" THEN cur'[t].tag # 0 ELSE cur'[t].val # 0
  PROVE  PoolInv'
<1>1. \A u \in Threads : Releasing(u)' <=> Releasing(u)
  BY Zenon DEF Releasing
<1>2. OneOwner'
  BY <1>1, SameOwners, Zenon
<1>3. ChainIntact'
  BY Zenon DEF PoolInv, ChainIntact, Succ
<1>4. ReleaseLocals'
  BY <1>1 DEF PoolInv, ReleaseLocals
<1>5. \A u \in Threads : /\ cur'[u].tag <= tag_next
                         /\ \A v \in Threads : Releasing(v) => cur'[u].tag # nxt[v].tag
  <2>1. \A v \in Threads : Releasing(v) => nxt[v].tag # 0
    BY DEF PoolInv, ReleaseLocals, TypeOK
  <2>2. 0 <= tag_next
    BY DEF PoolInv, TypeOK
  <2> QED
    BY <2>1, <2>2, HeadFacts DEF PoolInv, TagsFresh
<1>6. \A u \in Threads : Releasing(u) => nxt'[u] = nxt[u]
  BY Zenon
<1>7. TagsFresh'
  BY <1>1, <1>5, <1>6 DEF PoolInv, TagsFresh
<1>8. \A k \in 1..Len(stack) : Succ(k)' = Succ(k)
  BY Zenon DEF Succ
<1>9. SnapshotCurrent'
  BY <1>8 DEF PoolInv, SnapshotCurrent
<1>10. EmptySeen'
  BY DEF PoolInv, EmptySeen, Acquiring
<1> QED
  BY <1>2, <1>3, <1>4, <1>7, <1>9, <1>10, Zenon DEF PoolInv

\* Every step of lf_pool_acquire preserves the invariant.
LEMMA AcquireInv ==
  ASSUME PoolInv, NEW t \in Threads, Acquire(t)
  PROVE  PoolInv'
<1> USE DEF Goto, locals, history
<1>0. TypeOK
  BY SMTT(60) DEF PoolInv
<1>1. CASE StartAcquire(t)
  <2>1. TypeOK'
    BY <1>0, <1>1 DEF StartAcquire, TypeOK, PcValues
  <2> QED
    BY SMTT(60), <1>0, <1>1, <2>1, LocalStep DEF StartAcquire, TypeOK, Releasing, Acquiring
<1>2. CASE AcqReadHead(t)
  <2>1. PICK half \in Halves :
          /\ pc[t] = "acq_head" /\ pc' = [pc EXCEPT ![t] = "acq_head2"]
          /\ cur' = [cur EXCEPT ![t] = LoadHalf(NullRef, head, half)]
          /\ left' = [left EXCEPT ![t] = Other(half)]
    BY <1>2, Zenon DEF AcqReadHead
  <2>2. LoadHalf(NullRef, head, half) \in Ref /\ Other(half) \in Halves
    BY HeadFacts, NullRefType, LoadHalfFacts, Zenon
  <2>3. TypeOK'
    BY <1>0, <1>2, <2>1, <2>2, Zenon DEF AcqReadHead, TypeOK, PcValues
  <2>4. /\ cur'[t] = LoadHalf(NullRef, head, half)
        /\ left'[t] = Other(half)
        /\ pc'[t] = "acq_head2"
    BY <1>0, <2>1, Zenon DEF TypeOK
  <2>5. cur'[t].tag \in {0, head.tag}
    BY <2>4 DEF LoadHalf, NullRef
  <2>6. t \notin emptied => stack # <<>>
    BY <2>1, Zenon DEF PoolInv, EmptySeen, Acquiring
  <2>7. t \notin emptied =>
          IF left'[t] = "val" THEN cur'[t].tag # 0 ELSE cur'[t].val # 0
    BY <2>4, <2>6, HeadFacts DEF LoadHalf, Other, Halves
  <2> QED
    BY ZenonT(60), <1>0, <1>2, <2>1, <2>3, <2>4, <2>5, <2>6, <2>7, LocalStep
    DEF AcqReadHead, TypeOK, Releasing, Acquiring
<1>3. CASE AcqReadHead2(t)
  <2> DEFINE c == LoadHalf(cur[t], head, left[t])
  <2>1. c \in Ref /\ c.tag \in {cur[t].tag, head.tag}
    BY <1>0, HeadFacts, LoadHalfFacts, Zenon DEF TypeOK
  <2>2. TypeOK'
    BY <1>0, <1>3, <2>1, Zenon DEF AcqReadHead2, TypeOK, PcValues
  <2>3. /\ cur'[t] = c
        /\ pc[t] = "acq_head2"
        /\ pc'[t] = IF c = NullRef THEN "idle" ELSE "acq_next"
    BY <1>0, <1>3, Zenon DEF AcqReadHead2, TypeOK
  <2>4. stack = <<>> => t \in emptied
    BY <2>3, Zenon DEF PoolInv, EmptySeen, Acquiring
  <2> QED
    BY ZenonT(60), <1>0, <1>3, <2>1, <2>2, <2>3, <2>4, LocalStep
    DEF AcqReadHead2, TypeOK, Releasing, Acquiring
<1>4. CASE AcqReadNext(t)
  <2>1. PICK half \in Halves :
          /\ pc[t] = "acq_next" /\ pc' = [pc EXCEPT ![t] = "acq_next2"]
          /\ nxt' = [nxt EXCEPT ![t] = LoadHalf(NullRef, Deref(cur[t].val), half)]
          /\ left' = [left EXCEPT ![t] = Other(half)]
    BY <1>4, Zenon DEF AcqReadNext
  <2>2. LoadHalf(NullRef, Deref(cur[t].val), half) \in Ref /\ Other(half) \in Halves
    BY <2>1, CurDeref, NullRefType, LoadHalfFacts, Zenon
  <2>3. TypeOK'
    BY <1>0, <1>4, <2>1, <2>2, Zenon DEF AcqReadNext, TypeOK, PcValues
  <2>4. /\ nxt'[t] = LoadHalf(NullRef, Deref(cur[t].val), half)
        /\ left'[t] = Other(half)
        /\ pc'[t] = "acq_next2"
        /\ cur' = cur
    BY <1>0, <1>4, <2>1, Zenon DEF AcqReadNext, TypeOK
  <2>5. \A k \in 1..Len(stack) : stack[k] = cur[t] =>
          IF left'[t] = "val" THEN nxt'[t].tag = Succ(k).tag
                              ELSE nxt'[t].val = Succ(k).val
    BY <2>1, <2>4, CurDeref DEF LoadHalf, Other, Halves
  <2>6. stack = <<>> => t \in emptied
    BY <2>1, Zenon DEF PoolInv, EmptySeen, Acquiring
  <2>7. cur[t] # NullRef
    BY SMTT(60), <2>1, CurDeref
  <2> QED
    BY SMTT(60), <1>0, <1>4, <2>1, <2>3, <2>4, <2>5, <2>6, <2>7, LocalStep
    DEF AcqReadNext, TypeOK, Releasing, Acquiring
<1>5. CASE AcqReadNext2(t)
  <2> DEFINE n == LoadHalf(nxt[t], Deref(cur[t].val), left[t])
  <2>1. pc[t] = "acq_next2"
    BY <1>5, Zenon DEF AcqReadNext2
  <2>2. n \in Ref
    BY <1>0, <2>1, CurDeref, LoadHalfFacts, Zenon DEF TypeOK
  <2>3. TypeOK'
    BY <1>0, <1>5, <2>2, Zenon DEF AcqReadNext2, TypeOK, PcValues
  <2>4. nxt'[t] = n /\ pc'[t] = "acq_cas" /\ cur' = cur /\ left' = left
    BY <1>0, <1>5, Zenon DEF AcqReadNext2, TypeOK
  <2>5. \A k \in 1..Len(stack) : stack[k] = cur[t] => n = Succ(k)
    <3>1. \A k \in 1..Len(stack) : stack[k] = cur[t] =>
            /\ Deref(cur[t].val) = Succ(k)
            /\ IF left[t] = "val" THEN nxt[t].tag = Succ(k).tag
                                  ELSE nxt[t].val = Succ(k).val
      BY <2>1, CurDeref, Zenon DEF PoolInv, SnapshotCurrent
    <3>2. left[t] = "tag" \/ left[t] = "val"
      BY <1>0, Zenon DEF TypeOK, Halves
    <3>3. Deref(cur[t].val) \in Ref
      BY <2>1, CurDeref, Zenon
    <3> QED
      BY <3>1, <3>2, <3>3, Zenon DEF LoadHalf, Ref
  <2>6. stack = <<>> => t \in emptied
    BY <2>1, Zenon DEF PoolInv, EmptySeen, Acquiring
  <2>7. cur[t] # NullRef
    BY <2>1, CurDeref, Zenon
  <2> QED
    BY SMTT(30), <1>0, <1>5, <2>1, <2>3, <2>4, <2>5, <2>6, <2>7, LocalStep
    DEF AcqReadNext2, TypeOK, Releasing, Acquiring
<1>6. CASE AcqCas(t)
  BY SMTT(60), <1>6, AcqCasInv
<1>7. CASE AcqCasFail(t)
  <2>1. TypeOK'
    BY <1>0, <1>7, Zenon DEF AcqCasFail, TypeOK, PcValues
  <2>2. stack = <<>> => t \in emptied
    BY <1>7, Zenon DEF AcqCasFail, PoolInv, EmptySeen, Acquiring
  <2> QED
    BY ZenonT(60), <1>0, <1>7, <2>1, <2>2, LocalStep
    DEF AcqCasFail, TypeOK, Releasing, Acquiring
<1> QED
  BY <1>1, <1>2, <1>3, <1>4, <1>5, <1>6, <1>7, Zenon DEF Acquire

-----------------------------------------------------------------------------
(* The steps of lf_pool_release *)

\* The element a releaser has started to release still counts as its own.
LEMMA StartReleaseOwners ==
  ASSUME PoolInv, NEW t \in Threads, StartRelease(t)
  PROVE  \A u \in Threads : Owned(u)' = Owned(u)
<1>1. PICK e \in held[t] :
        /\ elt' = [elt EXCEPT ![t] = e]
        /\ held' = [held EXCEPT ![t] = @ \ {e}]
        /\ nxt' = [nxt EXCEPT ![t] = [tag |-> tag_next + 1, val |-> e]]
  BY Zenon DEF StartRelease
<1>2. /\ tag_next' = tag_next + 1
      /\ pc' = [pc EXCEPT ![t] = "rel_head"]
      /\ pc[t] = "idle"
      /\ ops' = ops + 1
      /\ UNCHANGED <<head, link, left, cur, stack, emptied>>
  BY Zenon DEF StartRelease, Goto, history
<1>3. /\ e \in Elts
      /\ tag_next \in Nat
      /\ ops \in Nat
      /\ [tag |-> tag_next + 1, val |-> e] \in Ref
  BY NumEltsAssumption DEF PoolInv, TypeOK, Ref, Elts, Offsets
<1>4. \A u \in Threads :
        /\ Releasing(u)' <=> (u = t \/ Releasing(u))
        /\ u # t => /\ elt'[u] = elt[u]
                    /\ nxt'[u] = nxt[u]
                    /\ held'[u] = held[u]
                    /\ pc'[u] = pc[u]
  BY <1>1, <1>2, Zenon DEF Releasing, PoolInv, TypeOK
<1>5. /\ ~Releasing(t)
      /\ elt'[t] = e
      /\ nxt'[t] = [tag |-> tag_next + 1, val |-> e]
      /\ held'[t] = held[t] \ {e}
      /\ pc'[t] = "rel_head"
  BY <1>1, <1>2, Zenon DEF Releasing, PoolInv, TypeOK
<1> QED
  BY <1>4, <1>5 DEF Owned

\* Drawing a tag for an element to be released keeps the invariant.
LEMMA StartReleaseInv ==
  ASSUME PoolInv, NEW t \in Threads, StartRelease(t)
  PROVE  PoolInv'
<1>1. PICK e \in held[t] :
        /\ elt' = [elt EXCEPT ![t] = e]
        /\ held' = [held EXCEPT ![t] = @ \ {e}]
        /\ nxt' = [nxt EXCEPT ![t] = [tag |-> tag_next + 1, val |-> e]]
  BY Zenon DEF StartRelease
<1>2. /\ tag_next' = tag_next + 1
      /\ pc' = [pc EXCEPT ![t] = "rel_head"]
      /\ pc[t] = "idle"
      /\ ops' = ops + 1
      /\ UNCHANGED <<head, link, left, cur, stack, emptied>>
  BY Zenon DEF StartRelease, Goto, history
<1>3. /\ e \in Elts
      /\ tag_next \in Nat
      /\ ops \in Nat
      /\ [tag |-> tag_next + 1, val |-> e] \in Ref
  BY NumEltsAssumption DEF PoolInv, TypeOK, Ref, Elts, Offsets
<1>4. \A u \in Threads :
        /\ Releasing(u)' <=> (u = t \/ Releasing(u))
        /\ u # t => /\ elt'[u] = elt[u]
                    /\ nxt'[u] = nxt[u]
                    /\ held'[u] = held[u]
                    /\ pc'[u] = pc[u]
  BY <1>1, <1>2, Zenon DEF Releasing, PoolInv, TypeOK
<1>5. /\ ~Releasing(t)
      /\ elt'[t] = e
      /\ nxt'[t] = [tag |-> tag_next + 1, val |-> e]
      /\ held'[t] = held[t] \ {e}
      /\ pc'[t] = "rel_head"
  BY <1>1, <1>2, Zenon DEF Releasing, PoolInv, TypeOK
<1>6. TypeOK'
  BY <1>1, <1>2, <1>3, NumEltsAssumption
  DEF PoolInv, TypeOK, PcValues, Elts, Offsets
<1>7. \A u \in Threads : Owned(u)' = Owned(u)
  BY StartReleaseOwners, Zenon
<1>8. OneOwner'
  <2>1. Free' = Free
    BY <1>2, Zenon DEF Free
  <2>2. \A u \in Threads : Releasing(u)' => elt'[u] \notin held'[u]
    BY <1>4, <1>5, Zenon DEF PoolInv, OneOwner
  <2> QED
    BY <1>2, <1>7, <2>1, <2>2 DEF PoolInv, OneOwner
<1>9. ChainIntact'
  BY <1>2, Zenon DEF PoolInv, ChainIntact, Succ
<1>10. ReleaseLocals'
  BY <1>2, <1>3, <1>4, <1>5 DEF PoolInv, TypeOK, Ref, ReleaseLocals
<1>11. TagsFresh'
  <2>1. \A i \in 1..Len(stack) : stack[i].tag \in Nat /\ stack[i].tag <= tag_next
    BY StackFacts, Zenon DEF PoolInv, TagsFresh
  <2>2. \A u \in Threads : cur[u].tag \in Nat /\ cur[u].tag <= tag_next
    BY Zenon DEF PoolInv, TagsFresh, TypeOK, Ref
  <2>3. \A u \in Threads : Releasing(u) => nxt[u].tag \in 1..tag_next
    BY Zenon DEF PoolInv, ReleaseLocals
  <2>4. nxt'[t].tag = tag_next + 1
    BY <1>5
  <2>5. \A u \in Threads : Releasing(u)' =>
          /\ \A i \in 1..Len(stack) : stack[i].tag # nxt'[u].tag
          /\ \A v \in Threads : cur[v].tag # nxt'[u].tag
          /\ \A v \in Threads : Releasing(v)' /\ v # u => nxt'[v].tag # nxt'[u].tag
    <3> SUFFICES ASSUME NEW u \in Threads, Releasing(u)'
                 PROVE  /\ \A i \in 1..Len(stack) : stack[i].tag # nxt'[u].tag
                        /\ \A v \in Threads : cur[v].tag # nxt'[u].tag
                        /\ \A v \in Threads : Releasing(v)' /\ v # u =>
                             nxt'[v].tag # nxt'[u].tag
      BY Zenon
    <3>1. CASE u = t
      BY <3>1, <1>3, <1>4, <2>1, <2>2, <2>3, <2>4
    <3>2. CASE u # t
      BY <3>2, <1>3, <1>4, <2>3, <2>4 DEF PoolInv, TagsFresh
    <3> QED
      BY <3>1, <3>2, Zenon
  <2>6. \A i \in 1..Len(stack) : stack[i].tag <= tag_next + 1
    BY <2>1, <1>3
  <2>7. \A u \in Threads : cur[u].tag <= tag_next + 1
    <3> TAKE u \in Threads
    <3>1. cur[u].tag \in Nat /\ cur[u].tag <= tag_next
      BY <2>2, Zenon
    <3> QED
      BY <3>1, <1>3
  <2> QED
    BY <2>5, <2>6, <2>7, <1>2, Zenon DEF PoolInv, TagsFresh
<1>12. SnapshotCurrent'
  BY <1>2, <1>4, <1>5 DEF PoolInv, SnapshotCurrent, Succ
<1>13. EmptySeen'
  BY <1>2, <1>4, <1>5, Zenon DEF PoolInv, EmptySeen, Acquiring
<1> QED
  BY <1>6, <1>8, <1>9, <1>10, <1>11, <1>12, <1>13, Zenon DEF PoolInv

\* A successful release moves its element from the caller to the pool.
LEMMA RelCasMoves ==
  ASSUME PoolInv, NEW t \in Threads, RelCas(t)
  PROVE  /\ \A u \in Threads :
              Owned(u)' = IF u = t THEN Owned(u) \ {elt[t]} ELSE Owned(u)
         /\ Free' = Free \cup {elt[t]}
         /\ elt[t] \in Owned(t)
<1>1. /\ head = cur[t]
      /\ head' = nxt[t]
      /\ stack' = <<nxt[t]>> \o stack
      /\ elt' = [elt EXCEPT ![t] = 0]
      /\ pc' = [pc EXCEPT ![t] = "idle"]
      /\ UNCHANGED <<tag_next, link, left, cur, nxt, held, emptied, ops>>
      /\ pc[t] = "rel_cas"
  BY Zenon DEF RelCas, Goto
<1>2. /\ Releasing(t)
      /\ elt[t] \in Elts
      /\ nxt[t] \in StackRef
      /\ nxt[t].val = elt[t]
      /\ link[elt[t]] = head
  BY <1>1 DEF PoolInv, ReleaseLocals, Releasing, TypeOK, Ref, StackRef
<1>3. /\ stack' \in Seq(StackRef)
      /\ stack' # <<>>
      /\ Len(stack) \in Nat
      /\ Len(stack') = Len(stack) + 1
      /\ stack'[1] = nxt[t]
      /\ \A k \in 1..Len(stack) : stack'[k + 1] = stack[k]
  BY <1>1, <1>2, StackFacts, PushFacts
<1>4. \A k \in 1..Len(stack') :
        \/ k = 1
        \/ k - 1 \in 1..Len(stack) /\ stack'[k] = stack[k - 1] /\ Succ(k)' = Succ(k - 1)
  BY SMTT(60), <1>3 DEF Succ
<1>5. \A u \in Threads :
        /\ Releasing(u)' <=> (u # t /\ Releasing(u))
        /\ u # t => elt'[u] = elt[u] /\ pc'[u] = pc[u]
  BY <1>1, Zenon DEF Releasing, PoolInv, TypeOK
<1>8. \A u \in Threads :
        Owned(u)' = IF u = t THEN Owned(u) \ {elt[t]} ELSE Owned(u)
  BY <1>1, <1>2, <1>5 DEF Owned, PoolInv, OneOwner
<1>9. Free' = Free \cup {elt[t]}
  <2>1. Free' \subseteq Free \cup {elt[t]}
    <3> SUFFICES ASSUME NEW k \in 1..Len(stack')
                 PROVE  stack'[k].val \in Free \cup {elt[t]}
      BY Zenon DEF Free
    <3>1. CASE k = 1
      BY <1>2, <1>3, <3>1, Zenon
    <3>2. CASE k - 1 \in 1..Len(stack) /\ stack'[k] = stack[k - 1]
      BY <3>2, Zenon DEF Free
    <3> QED
      BY <1>4, <3>1, <3>2, Zenon
  <2>2. \A k \in 1..Len(stack) : k + 1 \in 1..Len(stack')
    BY <1>3
  <2>3. elt[t] \in Free'
    BY <1>2, <1>3 DEF Free
  <2>4. Free \subseteq Free'
    BY <2>2, <1>3 DEF Free
  <2> QED
    BY <2>1, <2>3, <2>4, Zenon
<1>10. elt[t] \in Owned(t)
  BY <1>2, Zenon DEF Owned
<1> QED
  BY <1>8, <1>9, <1>10, Zenon

\* A successful compare-and-swap of lf_pool_release keeps the invariant.
LEMMA RelCasInv ==
  ASSUME PoolInv, NEW t \in Threads, RelCas(t)
  PROVE  PoolInv'
<1>1. /\ head = cur[t]
      /\ head' = nxt[t]
      /\ stack' = <<nxt[t]>> \o stack
      /\ elt' = [elt EXCEPT ![t] = 0]
      /\ pc' = [pc EXCEPT ![t] = "idle"]
      /\ UNCHANGED <<tag_next, link, left, cur, nxt, held, emptied, ops>>
      /\ pc[t] = "rel_cas"
  BY Zenon DEF RelCas, Goto
<1>2. /\ Releasing(t)
      /\ elt[t] \in Elts
      /\ nxt[t] \in StackRef
      /\ nxt[t].val = elt[t]
      /\ link[elt[t]] = head
  BY <1>1 DEF PoolInv, ReleaseLocals, Releasing, TypeOK, Ref, StackRef
<1>3. /\ stack' \in Seq(StackRef)
      /\ stack' # <<>>
      /\ Len(stack) \in Nat
      /\ Len(stack') = Len(stack) + 1
      /\ stack'[1] = nxt[t]
      /\ \A k \in 1..Len(stack) : stack'[k + 1] = stack[k]
  BY <1>1, <1>2, StackFacts, PushFacts
<1>4. \A k \in 1..Len(stack') :
        \/ k = 1
        \/ k - 1 \in 1..Len(stack) /\ stack'[k] = stack[k - 1] /\ Succ(k)' = Succ(k - 1)
  BY <1>3 DEF Succ
<1>5. \A u \in Threads :
        /\ Releasing(u)' <=> (u # t /\ Releasing(u))
        /\ u # t => elt'[u] = elt[u] /\ pc'[u] = pc[u]
  BY <1>1, Zenon DEF Releasing, PoolInv, TypeOK
<1>6. pc'[t] = "idle"
  BY <1>1, Zenon DEF PoolInv, TypeOK
<1>7. TypeOK'
  BY SMTT(60), <1>1, <1>2, <1>3, NumEltsAssumption
  DEF PoolInv, TypeOK, PcValues, StackRef, Ref, Offsets
<1>8. \A u \in Threads :
        Owned(u)' = IF u = t THEN Owned(u) \ {elt[t]} ELSE Owned(u)
  BY RelCasMoves, Zenon
<1>9. Free' = Free \cup {elt[t]}
  BY RelCasMoves, Zenon
<1>10. elt[t] \in Owned(t)
  BY <1>2, Zenon DEF Owned
<1>11. OneOwner'
  <2>1. \A u, v \in Threads : u # v => (Owned(u) \cap Owned(v))' = {}
    BY <1>8 DEF PoolInv, OneOwner
  <2>2. \A u \in Threads : (Owned(u) \cap Free)' = {}
    BY <1>8, <1>9, <1>10 DEF PoolInv, OneOwner
  <2>3. \A u \in Threads : Releasing(u)' => elt'[u] \notin held'[u]
    BY <1>1, <1>5, Zenon DEF PoolInv, OneOwner
  <2>4. \A e \in Elts \ Free' : \E u \in Threads : e \in Owned(u)'
    BY <1>8, <1>9 DEF PoolInv, OneOwner
  <2>5. \A i \in 1..Len(stack) : stack[i].val # elt[t]
    BY <1>10, StackFacts, Zenon DEF PoolInv, OneOwner
  <2>6. \A i, j \in 1..Len(stack') : stack'[i].val = stack'[j].val => i = j
    <3>1. \A i, j \in 1..Len(stack) : stack[i].val = stack[j].val => i = j
      BY Zenon DEF PoolInv, OneOwner
    <3> SUFFICES ASSUME NEW i \in 1..Len(stack'), NEW j \in 1..Len(stack'),
                        stack'[i].val = stack'[j].val
                 PROVE  i = j
      BY Zenon
    <3>2. CASE i = 1
      BY ZenonT(60), <3>2, <2>5, <1>2, <1>3, <1>4
    <3>3. CASE j = 1
      BY <3>3, <2>5, <1>2, <1>3, <1>4, Zenon
    <3>4. CASE i # 1 /\ j # 1
      <4>1. /\ i - 1 \in 1..Len(stack) /\ stack'[i] = stack[i - 1]
            /\ j - 1 \in 1..Len(stack) /\ stack'[j] = stack[j - 1]
        BY <3>4, <1>4, Zenon
      <4>2. i - 1 = j - 1
        BY <4>1, <3>1, Zenon
      <4> QED
        BY <4>2
    <3> QED
      BY <3>2, <3>3, <3>4, Zenon
  <2> QED
    BY <2>1, <2>2, <2>3, <2>4, <2>6, Zenon DEF OneOwner, Elts
<1>12. ChainIntact'
  <2>1. Succ(1)' = head
    <3>1. CASE stack = <<>>
      BY <3>1, <1>3, StackFacts DEF Succ, PoolInv, ChainIntact
    <3>2. CASE stack # <<>>
      BY <3>2, <1>3, StackFacts, HeadFacts DEF Succ
    <3> QED
      BY <3>1, <3>2, Zenon
  <2>2. \A k \in 1..Len(stack') : link'[stack'[k].val] = Succ(k)'
    BY <2>1, <1>1, <1>2, <1>3, <1>4 DEF PoolInv, ChainIntact
  <2> QED
    BY <2>2, <1>1, <1>3, Zenon DEF ChainIntact
<1>13. ReleaseLocals'
  BY <1>1, <1>5 DEF PoolInv, ReleaseLocals
<1>14. TagsFresh'
  <2>1. \A i \in 1..Len(stack) : stack[i].tag # nxt[t].tag
    BY <1>2, Zenon DEF PoolInv, TagsFresh
  <2>2. \A i, j \in 1..Len(stack') : stack'[i].tag = stack'[j].tag => i = j
    <3>1. \A i, j \in 1..Len(stack) : stack[i].tag = stack[j].tag => i = j
      BY Zenon DEF PoolInv, TagsFresh
    <3> SUFFICES ASSUME NEW i \in 1..Len(stack'), NEW j \in 1..Len(stack'),
                        stack'[i].tag = stack'[j].tag
                 PROVE  i = j
      BY Zenon
    <3>2. CASE i = 1
      BY <3>2, <2>1, <1>3, <1>4, Zenon
    <3>3. CASE j = 1
      BY SMTT(60), <3>3, <2>1, <1>3, <1>4
    <3>4. CASE i # 1 /\ j # 1
      <4>1. /\ i - 1 \in 1..Len(stack) /\ stack'[i] = stack[i - 1]
            /\ j - 1 \in 1..Len(stack) /\ stack'[j] = stack[j - 1]
        BY <3>4, <1>4, Zenon
      <4>2. i - 1 = j - 1
        BY <4>1, <3>1, Zenon
      <4> QED
        BY <4>2
    <3> QED
      BY <3>2, <3>3, <3>4, Zenon
  <2>3. \A i \in 1..Len(stack') : stack'[i].tag <= tag_next'
    BY <1>1, <1>2, <1>3, <1>4 DEF PoolInv, TagsFresh, ReleaseLocals
  <2>4. \A u \in Threads, i \in 1..Len(stack') :
          Releasing(u)' => stack'[i].tag # nxt'[u].tag
    BY SMTT(30), <1>1, <1>2, <1>3, <1>4, <1>5 DEF PoolInv, TagsFresh
  <2> QED
    BY <2>2, <2>3, <2>4, <1>1, <1>5 DEF PoolInv, TagsFresh
<1>15. SnapshotCurrent'
  <2>1. \A u \in Threads : cur[u].tag # nxt[t].tag
    BY <1>2, Zenon DEF PoolInv, TagsFresh
  <2>2. \A u \in Threads, k \in 1..Len(stack') : stack'[k] = cur[u] =>
          k - 1 \in 1..Len(stack) /\ stack[k - 1] = cur[u] /\ Succ(k)' = Succ(k - 1)
    BY <2>1, <1>3, <1>4
  <2>3. \A u \in Threads : u # t =>
          pc'[u] = pc[u] /\ cur'[u] = cur[u] /\ nxt'[u] = nxt[u] /\ left'[u] = left[u]
    BY <1>1, <1>5, Zenon
  <2>4. pc'[t] = "idle"
    BY <1>6, Zenon
  <2> QED
    BY SMTT(60), <2>2, <2>3, <2>4, <1>1 DEF PoolInv, SnapshotCurrent
<1>16. EmptySeen'
  BY <1>1, <1>3, <1>5, <1>6, Zenon DEF PoolInv, EmptySeen, Acquiring
<1> QED
  BY <1>7, <1>11, <1>12, <1>13, <1>14, <1>15, <1>16, Zenon DEF PoolInv

\* A releaser writes the link of an element that is nobody else's.
LEMMA RelWriteLinkInv ==
  ASSUME PoolInv, NEW t \in Threads, RelWriteLink(t)
  PROVE  PoolInv'
<1>0. TypeOK
  BY Zenon DEF PoolInv
<1>1. /\ pc[t] = "rel_link"
      /\ pc' = [pc EXCEPT ![t] = "rel_cas"]
      /\ link' = [link EXCEPT ![elt[t]] = cur[t]]
      /\ UNCHANGED <<head, tag_next, left, cur, nxt, elt, held, stack, emptied, ops>>
  BY Zenon DEF RelWriteLink, Goto, locals, history
<1>2. TypeOK'
  BY ZenonT(60), <1>0, <1>1 DEF TypeOK, PcValues
<1>3. /\ \A u \in Threads : Releasing(u)' <=> Releasing(u)
      /\ \A u \in Threads : u # t => pc'[u] = pc[u]
      /\ Releasing(t)
      /\ pc'[t] = "rel_cas"
  BY <1>0, <1>1, Zenon DEF Releasing, TypeOK
<1>4. OneOwner'
  BY <1>1, <1>3, SameOwners, Zenon
<1>5. elt[t] \in Owned(t)
  BY <1>3, Zenon DEF Owned
<1>6. ChainIntact'
  <2>1. elt[t] \notin Free
    BY <1>5, Zenon DEF PoolInv, OneOwner
  <2>2. \A k \in 1..Len(stack) : link'[stack[k].val] = link[stack[k].val]
    BY <1>0, <1>1, <2>1, StackFacts, Zenon DEF TypeOK
  <2> QED
    BY <1>1, <2>2, Zenon DEF PoolInv, ChainIntact, Succ
<1>7. ReleaseLocals'
  <2>1. \A u \in Threads : u # t /\ Releasing(u) => elt[u] # elt[t]
    BY <1>5, Zenon DEF PoolInv, OneOwner, Owned
  <2>2. elt[t] \in Elts
    BY <1>3, Zenon DEF PoolInv, ReleaseLocals
  <2> QED
    BY <1>0, <1>1, <1>3, <2>1, <2>2, Zenon DEF PoolInv, ReleaseLocals, TypeOK
<1>8. TagsFresh'
  BY <1>1, <1>3, Zenon DEF PoolInv, TagsFresh
<1>9. SnapshotCurrent'
  BY <1>1, <1>3 DEF PoolInv, SnapshotCurrent, Succ
<1>10. EmptySeen'
  BY <1>1, <1>3, Zenon DEF PoolInv, EmptySeen, Acquiring
<1> QED
  BY <1>2, <1>4, <1>6, <1>7, <1>8, <1>9, <1>10, Zenon DEF PoolInv

\* Every step of lf_pool_release preserves the invariant.
LEMMA ReleaseInv ==
  ASSUME PoolInv, NEW t \in Threads, Release(t)
  PROVE  PoolInv'
<1> USE DEF Goto, locals, history
<1>0. TypeOK
  BY Zenon DEF PoolInv
<1>1. CASE StartRelease(t)
  BY SMTT(60), <1>1, StartReleaseInv
<1>2. CASE RelReadHead(t)
  <2>1. PICK half \in Halves :
          /\ pc[t] = "rel_head" /\ pc' = [pc EXCEPT ![t] = "rel_head2"]
          /\ cur' = [cur EXCEPT ![t] = LoadHalf(NullRef, head, half)]
          /\ left' = [left EXCEPT ![t] = Other(half)]
    BY <1>2, Zenon DEF RelReadHead
  <2>2. LoadHalf(NullRef, head, half) \in Ref /\ Other(half) \in Halves
    BY HeadFacts, NullRefType, LoadHalfFacts, Zenon
  <2>3. TypeOK'
    BY <1>0, <1>2, <2>1, <2>2, Zenon DEF RelReadHead, TypeOK, PcValues
  <2>4. cur'[t] = LoadHalf(NullRef, head, half) /\ pc'[t] = "rel_head2"
    BY <1>0, <2>1, Zenon DEF TypeOK
  <2>5. cur'[t].tag \in {0, head.tag}
    BY SMTT(60), <2>4 DEF LoadHalf, NullRef
  <2> QED
    BY <1>0, <1>2, <2>1, <2>3, <2>4, <2>5, LocalStep, Zenon
    DEF RelReadHead, TypeOK, Releasing, Acquiring
<1>3. CASE RelReadHead2(t)
  <2> DEFINE c == LoadHalf(cur[t], head, left[t])
  <2>1. c \in Ref /\ c.tag \in {cur[t].tag, head.tag}
    BY <1>0, HeadFacts, LoadHalfFacts, Zenon DEF TypeOK
  <2>2. TypeOK'
    BY <1>0, <1>3, <2>1, Zenon DEF RelReadHead2, TypeOK, PcValues
  <2>3. cur'[t] = c /\ pc'[t] = "rel_link"
    BY SMTT(60), <1>0, <1>3 DEF RelReadHead2, TypeOK
  <2> QED
    BY <1>0, <1>3, <2>1, <2>2, <2>3, LocalStep, Zenon
    DEF RelReadHead2, TypeOK, Releasing, Acquiring
<1>4. CASE RelWriteLink(t)
  BY <1>4, RelWriteLinkInv, Zenon
<1>5. CASE RelCas(t)
  BY <1>5, RelCasInv, Zenon
<1>6. CASE RelCasFail(t)
  <2>1. TypeOK'
    BY <1>0, <1>6, Zenon DEF RelCasFail, TypeOK, PcValues
  <2> QED
    BY <1>0, <1>6, <2>1, LocalStep, Zenon DEF RelCasFail, TypeOK, Releasing, Acquiring
<1> QED
  BY <1>1, <1>2, <1>3, <1>4, <1>5, <1>6, Zenon DEF Release

\* The caller may write over the element it holds.
LEMMA ScribbleInv ==
  ASSUME PoolInv, NEW t \in Threads, Scribble(t)
  PROVE  PoolInv'
<1>1. PICK e \in held[t] : link' = [link EXCEPT ![e] = Junk]
  BY Zenon DEF Scribble
<1>2. UNCHANGED <<head, tag_next, pc, left, cur, nxt, elt, held, stack, emptied, ops>>
  BY Zenon DEF Scribble, locals, history
<1>3. Junk \in Ref
  BY NumEltsAssumption DEF Junk, Ref, Offsets
<1>4. TypeOK'
  BY <1>1, <1>2, <1>3, Zenon DEF PoolInv, TypeOK
<1>5. OneOwner'
  BY <1>2, SameOwners, Zenon DEF Releasing
<1>6. e \notin Free
  BY SMTT(60) DEF PoolInv, OneOwner, Owned
<1>7. ChainIntact'
  BY ZenonT(60), <1>1, <1>2, <1>6, StackFacts DEF PoolInv, TypeOK, ChainIntact, Succ
<1>8. \A u \in Threads : Releasing(u) => elt[u] # e
  <2>1. \A u \in Threads : u # t /\ Releasing(u) => elt[u] # e
    BY Zenon DEF PoolInv, OneOwner, Owned
  <2>2. Releasing(t) => elt[t] # e
    BY Zenon DEF PoolInv, OneOwner
  <2> QED
    BY <2>1, <2>2, Zenon
<1>9. ReleaseLocals'
  BY <1>1, <1>2, <1>8, Zenon DEF PoolInv, TypeOK, ReleaseLocals, Releasing
<1>10. TagsFresh' /\ SnapshotCurrent' /\ EmptySeen'
  BY <1>2 DEF PoolInv, TagsFresh, SnapshotCurrent, EmptySeen, Succ, Releasing, Acquiring
<1> QED
  BY <1>4, <1>5, <1>7, <1>9, <1>10, Zenon DEF PoolInv

\* A step that changes nothing keeps the invariant.
LEMMA StutterInv == PoolInv /\ UNCHANGED vars => PoolInv'
<1> SUFFICES ASSUME PoolInv, UNCHANGED vars PROVE PoolInv'
  BY Zenon
<1>1. /\ UNCHANGED <<head, tag_next, link, pc, left, cur, nxt, elt, held, stack>>
      /\ UNCHANGED <<emptied, ops>>
  BY Zenon DEF vars
<1>2. TypeOK'
  BY <1>1, Zenon DEF PoolInv, TypeOK
<1>3. OneOwner'
  BY <1>1, SameOwners, Zenon DEF Releasing
<1>4. ChainIntact'
  BY <1>1, Zenon DEF PoolInv, ChainIntact, Succ
<1>5. ReleaseLocals'
  BY <1>1, Zenon DEF PoolInv, ReleaseLocals, Releasing
<1>6. TagsFresh'
  BY <1>1, Zenon DEF PoolInv, TagsFresh, Releasing
<1>7. SnapshotCurrent'
  BY <1>1 DEF PoolInv, SnapshotCurrent, Succ
<1>8. EmptySeen'
  BY <1>1, Zenon DEF PoolInv, EmptySeen, Acquiring
<1> QED
  BY <1>2, <1>3, <1>4, <1>5, <1>6, <1>7, <1>8, Zenon DEF PoolInv

-----------------------------------------------------------------------------
(* Theorems *)

\* The inductive invariant holds in every reachable state of lf_pool.c.
THEOREM PoolInvariant == Spec => []PoolInv
<1>1. PoolInv /\ [Next]_vars => PoolInv'
  BY AcquireInv, ReleaseInv, ScribbleInv, StutterInv, Zenon DEF Next
<1> QED
  BY InitInv, <1>1, PTL DEF Spec

\* The state of lf_pool.c keeps its types, heads loaded in halves too.
THEOREM PoolTypes == Spec => []TypeOK
<1>1. PoolInv => TypeOK
  BY Zenon DEF PoolInv
<1> QED
  BY PoolInvariant, <1>1, PTL

\* No element is handed out twice or lost, whatever the number of threads and
\* elements.
THEOREM PoolOwners == Spec => []OneOwner
<1>1. PoolInv => OneOwner
  BY Zenon DEF PoolInv
<1> QED
  BY PoolInvariant, <1>1, PTL

\* The free list in memory is intact: no compare-and-swap installs a head that
\* was read from an element reused meanwhile.
THEOREM PoolChain == Spec => []ChainIntact
<1>1. PoolInv => ChainIntact
  BY Zenon DEF PoolInv
<1> QED
  BY PoolInvariant, <1>1, PTL

\* lf_pool_acquire returns NULL only if the pool was empty during the call.
THEOREM NullOnlyIfEmpty == Spec => NullMeansEmpty
<1> DEFINE A == \A t \in Threads :
       Acquiring(t) /\ pc'[t] = "idle" /\ held'[t] = held[t] => t \in emptied
<1>1. PoolInv /\ [Next]_vars => [A]_vars
  <2> SUFFICES ASSUME PoolInv, Next, NEW t \in Threads,
                      Acquiring(t), pc'[t] = "idle", held'[t] = held[t]
               PROVE  t \in emptied
    BY Zenon
  <2>1. PICK u \in Threads : Acquire(u) \/ Release(u) \/ Scribble(u)
    BY Zenon DEF Next
  <2>2. u = t
    <3>1. pc \in [Threads -> PcValues] /\ pc[t] # "idle"
      BY Zenon DEF PoolInv, TypeOK, Acquiring
    <3>2. \E v : pc' = pc \/ pc' = [pc EXCEPT ![u] = v]
      BY <2>1, Zenon DEF Acquire, Release, Scribble, StartAcquire, AcqReadHead,
        AcqReadHead2, AcqReadNext, AcqReadNext2, AcqCas, AcqCasFail,
        StartRelease, RelReadHead, RelReadHead2, RelWriteLink, RelCas,
        RelCasFail, Goto
    <3>3. PICK v : pc' = pc \/ pc' = [pc EXCEPT ![u] = v]
      BY <3>2, Zenon
    <3> QED  BY <3>1, <3>3, Zenon
  <2>3. AcqReadHead2(t) \/ AcqCas(t)
    BY ZenonT(60), <2>1, <2>2 DEF Acquire, Release, Scribble, StartAcquire, AcqReadHead,
      AcqReadNext, AcqReadNext2, AcqCasFail,
      StartRelease, RelReadHead, RelReadHead2, RelWriteLink, RelCas,
      RelCasFail, Goto, PoolInv, TypeOK, Acquiring
  <2>4. CASE AcqReadHead2(t)
    <3>1. pc[t] = "acq_head2" /\ LoadHalf(cur[t], head, left[t]) = NullRef
      BY <2>4, Zenon DEF AcqReadHead2, Goto, PoolInv, TypeOK
    <3>2. CASE stack = <<>>
      BY SMTT(60), <3>2 DEF PoolInv, EmptySeen
    <3>3. CASE stack # <<>>
      BY SMTT(60), <3>1, <3>3, HeadFacts
      DEF PoolInv, TypeOK, EmptySeen, LoadHalf, NullRef, Halves
    <3> QED
      BY <3>2, <3>3, Zenon
  <2>5. CASE AcqCas(t)
    <3>1. /\ pc[t] = "acq_cas"
          /\ head = cur[t]
          /\ cur[t].val \in held'[t]
      BY <2>5, Zenon DEF AcqCas, Goto, PoolInv, TypeOK
    <3>2. stack # <<>>
      BY <3>1, CurDeref, Zenon DEF PoolInv, ChainIntact
    <3>3. cur[t].val \in Free
      <4>1. 1 \in 1..Len(stack) /\ head = stack[1]
        BY <3>2, StackFacts, HeadFacts
      <4> QED
        BY ZenonT(60), <4>1, <3>1, StackFacts
    <3>4. Owned(t) \cap Free = {}
      BY Zenon DEF PoolInv, OneOwner
    <3> QED
      BY <3>1, <3>3, <3>4, Zenon DEF Owned
  <2> QED
    BY <2>3, <2>4, <2>5, Zenon
<1> QED
  BY PoolInvariant, <1>1, PTL DEF Spec, NullMeansEmpty

\* The lock-free pool implements the one-step pool of PoolSpec.
THEOREM PoolRefinement == Spec => ImplementsPoolSpec
<1>1. Init => Abstract!Init
  <2> SUFFICES ASSUME Init PROVE Abstract!Init
    BY Zenon
  <2>1. Free = Elts
    BY NumEltsAssumption DEF Init, Free, Elts
  <2>2. \A t \in Threads : Owned(t) = {}
    BY ZenonT(60) DEF Init, Owned, Releasing
  <2> QED
    BY <2>1, <2>2, Zenon DEF Abstract!Init
<1>2. PoolInv /\ [Next]_vars => [Abstract!Next]_Abstract!vars
  <2> SUFFICES ASSUME PoolInv, [Next]_vars PROVE [Abstract!Next]_Abstract!vars
    BY Zenon
  <2> DEFINE owned == [t \in Threads |-> Owned(t)]
  <2>1. ASSUME NEW t \in Threads, AcqCas(t) PROVE Abstract!Next
    <3>1. owned' = [owned EXCEPT ![t] = @ \cup {cur[t].val}]
      BY ZenonT(60), <2>1, AcqCasMoves
    <3>2. Abstract!Acquire(t)
      BY ZenonT(60), <2>1, <3>1, AcqCasMoves DEF Abstract!Acquire
    <3> QED
      BY <3>2, Zenon DEF Abstract!Next
  <2>2. ASSUME NEW t \in Threads, RelCas(t) PROVE Abstract!Next
    <3>1. owned' = [owned EXCEPT ![t] = @ \ {elt[t]}]
      BY ZenonT(60), <2>2, RelCasMoves
    <3>2. Abstract!Release(t)
      BY ZenonT(60), <2>2, <3>1, RelCasMoves DEF Abstract!Release
    <3> QED
      BY <3>2, Zenon DEF Abstract!Next
  <2>3. ASSUME NEW t \in Threads, StartRelease(t) PROVE UNCHANGED Abstract!vars
    <3>1. \A u \in Threads : Owned(u)' = Owned(u)
      BY <2>3, StartReleaseOwners, Zenon
    <3>2. Free' = Free
      BY <2>3, Zenon DEF StartRelease, history, Free
    <3> QED
      BY <3>1, <3>2, Zenon DEF Abstract!vars
  <2>4. ASSUME UNCHANGED <<held, elt, stack>>,
               \A u \in Threads : Releasing(u)' <=> Releasing(u)
        PROVE  UNCHANGED Abstract!vars
    BY <2>4, Zenon DEF Abstract!vars, Free, Owned
  <2>5. CASE UNCHANGED vars
    BY <2>4, <2>5, Zenon DEF vars, Releasing
  <2>6. ASSUME NEW t \in Threads,
               Acquire(t) \/ Release(t) \/ Scribble(t),
               ~AcqCas(t), ~RelCas(t), ~StartRelease(t)
        PROVE  UNCHANGED Abstract!vars
    <3>1. UNCHANGED <<held, elt, stack>>
      BY ZenonT(60), <2>6 DEF Acquire, Release, Scribble, StartAcquire, AcqReadHead,
        AcqReadHead2, AcqReadNext, AcqReadNext2, AcqCasFail, RelReadHead,
        RelReadHead2, RelWriteLink, RelCasFail, locals, history
    <3>2. \A u \in Threads : Releasing(u)' <=> Releasing(u)
      BY <2>6, ZenonT(40) DEF Acquire, Release, Scribble, StartAcquire, AcqReadHead,
        AcqReadHead2, AcqReadNext, AcqReadNext2, AcqCasFail, RelReadHead,
        RelReadHead2, RelWriteLink, RelCasFail, Goto, Releasing, PoolInv, TypeOK
    <3> QED
      BY SMTT(60), <2>4, <3>1, <3>2
  <2> QED
    BY <2>1, <2>2, <2>3, <2>5, <2>6, Zenon DEF Next
<1> QED
  BY PoolInvariant, <1>1, <1>2, PTL DEF Spec, ImplementsPoolSpec, Abstract!Spec
=============================================================================
