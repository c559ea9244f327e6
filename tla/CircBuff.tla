------------------------------ MODULE CircBuff ------------------------------
(***************************************************************************)
(* The ring of bytes of the generic serial transport                       *)
(* (generic_serial_circ_buff.c), as functions of its state: front and back *)
(* are the indices of the code, one cell always stays empty.  A cell with  *)
(* nothing in it holds Stale, so that reading past the end shows.          *)
(***************************************************************************)
EXTENDS Integers, Sequences, FiniteSetsExt, SequencesExt

CONSTANT Capacity

ASSUME CapacityAssumption == Capacity \in Nat \ {0, 1}

Stale == -1

cb_init == [data |-> [k \in 0..(Capacity - 1) |-> Stale], front |-> 0, back |-> 0]

cb_size(cb) == IF cb.back >= cb.front THEN cb.back - cb.front
                                      ELSE Capacity - (cb.front - cb.back)

cb_room(cb) == Capacity - 1 - cb_size(cb)

Wrap(k) == IF k >= Capacity THEN k - Capacity ELSE k

\* The cells of num bytes from index k on.
Cells(k, num) == {Wrap(k + n) : n \in 0..(num - 1)}

Vacate(cb, cells) ==
  [cb EXCEPT !.data = [k \in DOMAIN @ |-> IF k \in cells THEN Stale ELSE @[k]]]

cb_push_back(cb, d) == [cb EXCEPT !.data[cb.back] = d, !.back = Wrap(@ + 1)]

cb_front(cb, offset) == cb.data[Wrap(cb.front + offset)]

cb_pop_front(cb, num) ==
  [Vacate(cb, Cells(cb.front, num)) EXCEPT !.front = Wrap(@ + num)]

\* A pop_back that forgets that the frame may lie across the end of the array.
BackBy_NoWrap(cb, num) == IF cb.back < num THEN 0 ELSE cb.back - num

BackBy(cb, num) == IF cb.back < num THEN Capacity - (num - cb.back) ELSE cb.back - num

cb_pop_back(cb, num) ==
  [Vacate(cb, Cells(BackBy(cb, num), num)) EXCEPT !.back = BackBy(cb, num)]

(***************************************************************************)
(* The callback write takes n of the bytes it is offered and read gives    *)
(* some; either may stop short in the first piece, and is asked for the    *)
(* second piece, at the start of the array, only when it did not.          *)
(***************************************************************************)

OutContiguous(cb) == Min({Capacity - cb.front, cb_size(cb)})

\* The n bytes that write sees: from front on, then from the first cell.
Written(cb, n) ==
  [k \in 1..n |-> cb.data[IF k <= OutContiguous(cb) THEN cb.front + k - 1
                                                     ELSE k - OutContiguous(cb) - 1]]

cb_flush_out(cb, n) ==
  LET first == Min({n, OutContiguous(cb)})
  IN cb_pop_front(cb_pop_front(cb, first), n - first)

Store(cb, k, bytes) ==
  [cb EXCEPT !.data = [j \in DOMAIN @ |-> IF j \in k..(k + Len(bytes) - 1)
                                            THEN bytes[j - k + 1] ELSE @[j]],
             !.back = k + Len(bytes)]

cb_flush_in(cb, bytes) ==
  LET contiguous == Min({Capacity - cb.back, cb_room(cb)})
      end        == cb.back + contiguous
      first      == Store(cb, cb.back, SubSeq(bytes, 1, contiguous))
      rest       == SubSeq(bytes, contiguous + 1, Len(bytes))
  IN IF cb.back < cb.front \/ Len(bytes) < contiguous
       THEN Store(cb, cb.back, bytes)
       ELSE IF end < Capacity THEN first
                              ELSE Store([first EXCEPT !.back = 0], 0, rest)
=============================================================================
