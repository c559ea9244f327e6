------------------------------ MODULE PoolSpec ------------------------------
(***************************************************************************)
(* What the element pool promises its callers: a set of free elements and, *)
(* for every thread, the elements it has taken and not yet given back.     *)
(* lf_pool_acquire hands out some free element, or NULL when none is free; *)
(* lf_pool_release gives back an element the caller holds.  Each takes     *)
(* effect in one step, whatever the threads do to each other.              *)
(***************************************************************************)
CONSTANTS Threads, Elts

VARIABLES free, owned

vars == <<free, owned>>

\* Elements are free or owned by a thread.
TypeOK ==
  /\ free \in SUBSET Elts
  /\ owned \in [Threads -> SUBSET Elts]

Init ==
  /\ free = Elts
  /\ owned = [t \in Threads |-> {}]

Acquire(t) ==
  \E e \in free :
    /\ free' = free \ {e}
    /\ owned' = [owned EXCEPT ![t] = @ \cup {e}]

Release(t) ==
  \E e \in owned[t] :
    /\ free' = free \cup {e}
    /\ owned' = [owned EXCEPT ![t] = @ \ {e}]

Next == \E t \in Threads : Acquire(t) \/ Release(t)

Spec == Init /\ [][Next]_vars
=============================================================================
