-------------------------------- MODULE Fifo --------------------------------
(***************************************************************************)
(* What zcm/util/queue.hpp promises: elements leave in the order they came *)
(* in, at most "size" are stored, and a new size keeps those stored.       *)
(***************************************************************************)
EXTENDS Naturals, Sequences

CONSTANTS Elements, Sizes

VARIABLES items, size

vars == <<items, size>>

Init == items = <<>> /\ size \in Sizes

Push(e) ==
  /\ Len(items) < size
  /\ items' = Append(items, e)
  /\ UNCHANGED size

Pop ==
  /\ items # <<>>
  /\ items' = Tail(items)
  /\ UNCHANGED size

Resize(n) ==
  /\ Len(items) <= n
  /\ size' = n
  /\ UNCHANGED items

Next ==
  \/ \E e \in Elements : Push(e)
  \/ Pop
  \/ \E n \in Sizes : Resize(n)

Spec == Init /\ [][Next]_vars
=============================================================================
