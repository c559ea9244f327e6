------------------------------- MODULE LfPool -------------------------------
(***************************************************************************)
(* The lock-free element pool, zcm/transport/lockfree/lf_pool.c: a stack   *)
(* of elements linked through their own first sixteen bytes, whose head is *)
(* a 128-bit reference (tag, val) changed only by compare-and-swap.        *)
(*                                                                         *)
(* A plain load of a 128-bit reference is not atomic: the build loads its  *)
(* two 64-bit halves one after the other, tag first in lf_pool_acquire and *)
(* val first in lf_pool_release.  Each such load is two steps here, and    *)
(* either half may come first.  Loads and stores of different objects keep *)
(* their program order.                                                    *)
(*                                                                         *)
(* While a caller holds an element its first bytes are the caller's data;  *)
(* the link stored there may be overwritten at any time.                   *)
(***************************************************************************)
EXTENDS Integers, Sequences

CONSTANTS
  Threads,   \* threads of any process that uses the pool
  NumElts,   \* num_elts: elements 1..NumElts, in address order
  OpBudget   \* bound: operations the threads start between them

ASSUME NumEltsAssumption  == NumElts \in Nat
ASSUME OpBudgetAssumption == OpBudget \in Nat

Elts == 1..NumElts

\* Offsets: an element, or 0, which is the pool header itself.
Offsets == 0..NumElts

\* LF_REF_NULL is all zero; tags of released elements start at 1.
Ref     == [tag : Nat, val : Offsets]
NullRef == [tag |-> 0, val |-> 0]

\* What a reader finds where a link is not: caller data or the pool header.
\* No reference the pool stores has an offset with tag 0.
Junk == [tag |-> 0, val |-> NumElts]

VARIABLES
  head,      \* pool->head
  tag_next,  \* pool->tag_next
  link,      \* first sixteen bytes of every element
  pc,        \* where each thread is in lf_pool_acquire or lf_pool_release
  left,      \* local: the half of the current 128-bit load still to come
  cur,       \* local: the head as read, one half at a time
  nxt,       \* local: acquire's next as read; release's new head
  elt,       \* local: the element release was called with, 0 for none
  held,      \* elements each thread got from acquire and still owns
  stack,     \* history: references of the free elements, top first
  emptied,   \* history: threads that called acquire before the pool was last empty
  ops        \* operations started so far

vars == <<head, tag_next, link, pc, left, cur, nxt, elt, held, stack, emptied,
          ops>>

locals == <<left, cur, nxt, elt>>
history == <<stack, emptied>>

-----------------------------------------------------------------------------
Halves == {"tag", "val"}
Other(half) == IF half = "tag" THEN "val" ELSE "tag"

\* A reference of which one half has just been loaded from memory.
LoadHalf(local, memory, half) ==
  IF half = "tag" THEN [tag |-> memory.tag, val |-> local.val]
                  ELSE [tag |-> local.tag, val |-> memory.val]

\* The sixteen bytes at an offset from the pool: a link, or the header.
Deref(off) == IF off = 0 THEN Junk ELSE link[off]

Pop(s) == IF s = <<>> THEN s ELSE Tail(s)

Goto(t, from, to) ==
  /\ pc[t] = from
  /\ pc' = [pc EXCEPT ![t] = to]

\* lf_pool_mem_init: single-threaded, releases the elements from the last to
\* the first, so element 1 ends on top with the largest tag.
Init ==
  /\ stack = [i \in 1..NumElts |-> [tag |-> NumElts + 1 - i, val |-> i]]
  /\ head = IF NumElts = 0 THEN NullRef ELSE stack[1]
  /\ link = [e \in Elts |-> IF e = NumElts THEN NullRef ELSE stack[e + 1]]
  /\ tag_next = NumElts
  /\ pc = [t \in Threads |-> "idle"]
  /\ left = [t \in Threads |-> "tag"]
  /\ cur = [t \in Threads |-> NullRef]
  /\ nxt = [t \in Threads |-> NullRef]
  /\ elt = [t \in Threads |-> 0]
  /\ held = [t \in Threads |-> {}]
  /\ emptied = {}
  /\ ops = 0

-----------------------------------------------------------------------------
(* lf_pool_acquire *)

StartAcquire(t) ==
  /\ ops < OpBudget
  /\ ops' = ops + 1
  /\ emptied' = IF stack = <<>> THEN emptied \cup {t} ELSE emptied \ {t}
  /\ Goto(t, "idle", "acq_head")
  /\ UNCHANGED <<head, tag_next, link, locals, held, stack>>

\* First half of "cur = pool->head".
AcqReadHead(t) ==
  \E half \in Halves :
    /\ Goto(t, "acq_head", "acq_head2")
    /\ cur' = [cur EXCEPT ![t] = LoadHalf(NullRef, head, half)]
    /\ left' = [left EXCEPT ![t] = Other(half)]
    /\ UNCHANGED <<head, tag_next, link, nxt, elt, held, history, ops>>

\* Second half, and the test for NULL, which ends the call.
AcqReadHead2(t) ==
  LET c == LoadHalf(cur[t], head, left[t]) IN
  /\ Goto(t, "acq_head2", IF c = NullRef THEN "idle" ELSE "acq_next")
  /\ cur' = [cur EXCEPT ![t] = c]
  /\ UNCHANGED <<head, tag_next, link, left, nxt, elt, held, history, ops>>

\* "next = *elt".
AcqReadNext(t) ==
  \E half \in Halves :
    /\ Goto(t, "acq_next", "acq_next2")
    /\ nxt' = [nxt EXCEPT ![t] = LoadHalf(NullRef, Deref(cur[t].val), half)]
    /\ left' = [left EXCEPT ![t] = Other(half)]
    /\ UNCHANGED <<head, tag_next, link, cur, elt, held, history, ops>>

AcqReadNext2(t) ==
  /\ Goto(t, "acq_next2", "acq_cas")
  /\ nxt' = [nxt EXCEPT ![t] = LoadHalf(@, Deref(cur[t].val), left[t])]
  /\ UNCHANGED <<head, tag_next, link, left, cur, elt, held, history, ops>>

\* Mutant: the next link is loaded again, the head is not.
AcqCasFail_Stale(t) ==
  /\ Goto(t, "acq_cas", "acq_next")
  /\ head # cur[t]
  /\ UNCHANGED <<head, tag_next, link, locals, held, history, ops>>

\* Mutant: a lost race is reported as an empty pool.
AcqCasFail_Null(t) ==
  /\ Goto(t, "acq_cas", "idle")
  /\ head # cur[t]
  /\ UNCHANGED <<head, tag_next, link, locals, held, history, ops>>

AcqCas(t) ==
  /\ Goto(t, "acq_cas", "idle")
  /\ head = cur[t]
  /\ head' = nxt[t]
  /\ held' = [held EXCEPT ![t] = @ \cup {cur[t].val}]
  /\ stack' = Pop(stack)
  /\ emptied' = IF stack' = <<>> THEN Threads ELSE emptied
  /\ UNCHANGED <<tag_next, link, locals, ops>>

AcqCasFail(t) ==
  /\ Goto(t, "acq_cas", "acq_head")
  /\ head # cur[t]
  /\ UNCHANGED <<head, tag_next, link, locals, held, history, ops>>

-----------------------------------------------------------------------------
(* lf_pool_release *)

\* Mutant: the tag is read and not incremented.
StartRelease_SameTag(t) ==
  /\ ops < OpBudget
  /\ ops' = ops + 1
  /\ \E e \in held[t] :
       /\ elt' = [elt EXCEPT ![t] = e]
       /\ held' = [held EXCEPT ![t] = @ \ {e}]
       /\ nxt' = [nxt EXCEPT ![t] = [tag |-> tag_next, val |-> e]]
  /\ Goto(t, "idle", "rel_head")
  /\ UNCHANGED <<head, tag_next, link, left, cur, history>>

\* Mutant: the link is written once, before the loop, from a head that a
\* failed compare-and-swap has shown to be out of date.
RelCasFail_KeepLink(t) ==
  /\ Goto(t, "rel_cas", "rel_cas")
  /\ head # cur[t]
  /\ cur' = [cur EXCEPT ![t] = head]
  /\ UNCHANGED <<head, tag_next, link, left, nxt, elt, held, history, ops>>

\* The tag is taken with one atomic increment, before the loop.
StartRelease(t) ==
  /\ ops < OpBudget
  /\ ops' = ops + 1
  /\ \E e \in held[t] :
       /\ elt' = [elt EXCEPT ![t] = e]
       /\ held' = [held EXCEPT ![t] = @ \ {e}]
       /\ nxt' = [nxt EXCEPT ![t] = [tag |-> tag_next + 1, val |-> e]]
  /\ tag_next' = tag_next + 1
  /\ Goto(t, "idle", "rel_head")
  /\ UNCHANGED <<head, link, left, cur, history>>

RelReadHead(t) ==
  \E half \in Halves :
    /\ Goto(t, "rel_head", "rel_head2")
    /\ cur' = [cur EXCEPT ![t] = LoadHalf(NullRef, head, half)]
    /\ left' = [left EXCEPT ![t] = Other(half)]
    /\ UNCHANGED <<head, tag_next, link, nxt, elt, held, history, ops>>

RelReadHead2(t) ==
  /\ Goto(t, "rel_head2", "rel_link")
  /\ cur' = [cur EXCEPT ![t] = LoadHalf(@, head, left[t])]
  /\ UNCHANGED <<head, tag_next, link, left, nxt, elt, held, history, ops>>

RelWriteLink(t) ==
  /\ Goto(t, "rel_link", "rel_cas")
  /\ link' = [link EXCEPT ![elt[t]] = cur[t]]
  /\ UNCHANGED <<head, tag_next, locals, held, history, ops>>

RelCas(t) ==
  /\ Goto(t, "rel_cas", "idle")
  /\ head = cur[t]
  /\ head' = nxt[t]
  /\ stack' = <<nxt[t]>> \o stack
  /\ elt' = [elt EXCEPT ![t] = 0]
  /\ UNCHANGED <<tag_next, link, left, cur, nxt, held, emptied, ops>>

RelCasFail(t) ==
  /\ Goto(t, "rel_cas", "rel_head")
  /\ head # cur[t]
  /\ UNCHANGED <<head, tag_next, link, locals, held, history, ops>>

-----------------------------------------------------------------------------
\* The owner of an element writes its own data over the stale link.
Scribble(t) ==
  /\ \E e \in held[t] :
       /\ link[e] # Junk
       /\ link' = [link EXCEPT ![e] = Junk]
  /\ UNCHANGED <<head, tag_next, pc, locals, held, history, ops>>

Acquire(t) ==
  \/ StartAcquire(t)
  \/ AcqReadHead(t)
  \/ AcqReadHead2(t)
  \/ AcqReadNext(t)
  \/ AcqReadNext2(t)
  \/ AcqCas(t)
  \/ AcqCasFail(t)

Release(t) ==
  \/ StartRelease(t)
  \/ RelReadHead(t)
  \/ RelReadHead2(t)
  \/ RelWriteLink(t)
  \/ RelCas(t)
  \/ RelCasFail(t)

Next == \E t \in Threads : Acquire(t) \/ Release(t) \/ Scribble(t)

Spec == Init /\ [][Next]_vars

\* Some thread that can run does run; no thread in particular is favoured.
FairSpec == Spec /\ WF_vars(\E t \in Threads : Acquire(t) \/ Release(t))

-----------------------------------------------------------------------------
(* Properties *)

PcValues ==
  {"idle", "acq_head", "acq_head2", "acq_next", "acq_next2", "acq_cas",
   "rel_head", "rel_head2", "rel_link", "rel_cas"}

Acquiring(t) ==
  pc[t] \in {"acq_head", "acq_head2", "acq_next", "acq_next2", "acq_cas"}
Releasing(t) == pc[t] \in {"rel_head", "rel_head2", "rel_link", "rel_cas"}

\* The shape of the pool's memory and of the threads' local variables.
TypeOK ==
  /\ head \in Ref
  /\ tag_next \in Nat
  /\ link \in [Elts -> Ref]
  /\ pc \in [Threads -> PcValues]
  /\ left \in [Threads -> Halves]
  /\ cur \in [Threads -> Ref]
  /\ nxt \in [Threads -> Ref]
  /\ elt \in [Threads -> Offsets]
  /\ held \in [Threads -> SUBSET Elts]
  /\ stack \in Seq([tag : Nat \ {0}, val : Elts])
  /\ emptied \in SUBSET Threads
  /\ ops \in Nat

\* The elements a thread owns: got from acquire, or still being released.
Owned(t) == held[t] \cup (IF Releasing(t) THEN {elt[t]} ELSE {})
Free     == {stack[i].val : i \in 1..Len(stack)}

\* No element is handed to two threads, and none is lost or both free and in
\* use, however acquires and releases interleave: lf_pool_acquire and
\* lf_pool_release never duplicate or drop an element.
OneOwner ==
  /\ \A t, u \in Threads : t # u => Owned(t) \cap Owned(u) = {}
  /\ \A t \in Threads : Owned(t) \cap Free = {}
  /\ \A t \in Threads : Releasing(t) => elt[t] \notin held[t]
  /\ \A e \in Elts \ Free : \E t \in Threads : e \in Owned(t)
  /\ \A i, j \in 1..Len(stack) : stack[i].val = stack[j].val => i = j

\* The reference that the link of the k-th free element must hold.
Succ(k) == IF k = Len(stack) THEN NullRef ELSE stack[k + 1]

\* Following pool->head and the links in memory visits exactly the free
\* elements: a compare-and-swap never installs a head read from an element
\* that was taken, written over or released again in the meantime (ABA).
ChainIntact ==
  /\ head = IF stack = <<>> THEN NullRef ELSE stack[1]
  /\ \A i \in 1..Len(stack) :
       link[stack[i].val] = Succ(i)

-----------------------------------------------------------------------------
(* The facts that make OneOwner and ChainIntact inductive. *)

\* A releaser owns the reference it is about to install.
ReleaseLocals ==
  \A t \in Threads : Releasing(t) =>
    /\ elt[t] \in Elts
    /\ nxt[t].val = elt[t]
    /\ nxt[t].tag \in 1..tag_next
    /\ pc[t] = "rel_cas" => link[elt[t]] = cur[t]

\* No tag is ever used twice, by a free element, by a pending release, or by
\* a head that some thread has loaded.
TagsFresh ==
  /\ \A i \in 1..Len(stack) : stack[i].tag <= tag_next
  /\ \A i, j \in 1..Len(stack) : stack[i].tag = stack[j].tag => i = j
  /\ \A t \in Threads : cur[t].tag <= tag_next
  /\ \A t \in Threads : Releasing(t) =>
       /\ \A i \in 1..Len(stack) : stack[i].tag # nxt[t].tag
       /\ \A u \in Threads : cur[u].tag # nxt[t].tag
       /\ \A u \in Threads : Releasing(u) /\ u # t => nxt[u].tag # nxt[t].tag

\* What an acquirer has loaded of the next link is right whenever the head it
\* loaded before is (still, or again) the reference of a free element.
SnapshotCurrent ==
  \A t \in Threads :
    /\ pc[t] \in {"acq_next", "acq_next2", "acq_cas"} => cur[t] # NullRef
    /\ \A k \in 1..Len(stack) : stack[k] = cur[t] =>
         /\ pc[t] = "acq_cas" => nxt[t] = Succ(k)
         /\ pc[t] = "acq_next2" =>
              IF left[t] = "val" THEN nxt[t].tag = Succ(k).tag
                                 ELSE nxt[t].val = Succ(k).val

\* An acquirer that has loaded half of a NULL head saw the pool empty.
EmptySeen ==
  \A t \in Threads :
    /\ Acquiring(t) /\ stack = <<>> => t \in emptied
    /\ pc[t] = "acq_head2" /\ t \notin emptied =>
         IF left[t] = "val" THEN cur[t].tag # 0 ELSE cur[t].val # 0

\* The inductive invariant of the pool: with it, no thread's compare-and-swap
\* can install a stale link.
PoolInv ==
  /\ TypeOK
  /\ OneOwner
  /\ ChainIntact
  /\ ReleaseLocals
  /\ TagsFresh
  /\ SnapshotCurrent
  /\ EmptySeen

\* lf_pool_acquire returns NULL only if the pool was empty at some moment of
\* that very call, although it tests a head loaded in two halves.
NullMeansEmpty ==
  [][\A t \in Threads :
       Acquiring(t) /\ pc'[t] = "idle" /\ held'[t] = held[t] => t \in emptied]_vars

\* The pool implements PoolSpec: each call takes effect at its successful
\* compare-and-swap.
Abstract == INSTANCE PoolSpec
              WITH free <- Free, owned <- [t \in Threads |-> Owned(t)]

ImplementsPoolSpec == Abstract!Spec

\* Lock freedom: a failed compare-and-swap means another thread made
\* progress, so finitely many calls all return although no single thread is
\* scheduled fairly.
AllCallsReturn == <>[](\A t \in Threads : pc[t] = "idle")
=============================================================================
