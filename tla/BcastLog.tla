------------------------------ MODULE BcastLog ------------------------------
(***************************************************************************)
(* What the broadcast queue promises (zcm/transport/lockfree/lf_bcast.h):  *)
(* publishers append to one log; every subscriber walks the log in order   *)
(* from where it joined, and for each message either receives exactly what *)
(* was published or counts one drop.  A message may be dropped only after  *)
(* the queue has rolled it off.                                            *)
(***************************************************************************)
EXTENDS Integers, Sequences

CONSTANTS Subs, Msgs, None

VARIABLES
  log,    \* messages in publishing order
  first,  \* oldest message that has not been rolled off
  next,   \* per subscriber: the message it is to see next, 0 before it joins
  drops,  \* per subscriber: messages it missed
  last    \* per subscriber: what it received last, None at first

vars == <<log, first, next, drops, last>>

Init ==
  /\ log = <<>>
  /\ first = 1
  /\ next = [s \in Subs |-> 0]
  /\ drops = [s \in Subs |-> 0]
  /\ last = [s \in Subs |-> None]

Publish ==
  /\ \E m \in Msgs : log' = Append(log, m)
  /\ UNCHANGED <<first, next, drops, last>>

RollOff ==
  /\ first <= Len(log)
  /\ first' = first + 1
  /\ UNCHANGED <<log, next, drops, last>>

\* A subscriber starts behind the log's end, or behind the one before it if
\* that is still being published.
Join(s) ==
  /\ next[s] = 0
  /\ \E i \in {Len(log), Len(log) + 1} \ {0} : next' = [next EXCEPT ![s] = i]
  /\ UNCHANGED <<log, first, drops, last>>

Deliver(s) ==
  /\ next[s] \in first..Len(log)
  /\ last' = [last EXCEPT ![s] = log[next[s]]]
  /\ next' = [next EXCEPT ![s] = @ + 1]
  /\ UNCHANGED <<log, first, drops>>

Drop(s) ==
  /\ next[s] \in 1..first - 1
  /\ drops' = [drops EXCEPT ![s] = @ + 1]
  /\ next' = [next EXCEPT ![s] = @ + 1]
  /\ UNCHANGED <<log, first, last>>

Next == Publish \/ RollOff \/ \E s \in Subs : Join(s) \/ Deliver(s) \/ Drop(s)

Spec == Init /\ [][Next]_vars
=============================================================================
