--------------------------- MODULE BlockingProofs ---------------------------
(***************************************************************************)
(* The queues of the blocking layer, for every program of its users: one   *)
(* at a time uses a queue, in order, and pause() is heeded.  Then the life *)
(* of its threads, in the programs that end them with stop(): the state    *)
(* flags say where a thread is, each thread is joined before it is started *)
(* again, and std::terminate() is not called.                              *)
(***************************************************************************)
EXTENDS Blocking, TLAPS

\* A leaf is left to Zenon unless it names another prover.
USE Zenon

-----------------------------------------------------------------------------
(* Messages *)

\* The rest of a sequence without its head.
LEMMA TailFacts ==
  ASSUME NEW S, NEW x \in Seq(S), x # <<>>
  PROVE  /\ Tail(x) \in Seq(S) /\ Len(x) \in Nat \ {0} /\ Head(x) = x[1]
         /\ Len(Tail(x)) = Len(x) - 1
         /\ \A i \in 1..Len(Tail(x)) : Tail(x)[i] = x[i + 1]
BY SMT

\* A sequence that counts on from another.
LEMMA CountOn ==
  ASSUME NEW a \in Seq(Nat), NEW b \in Seq(Nat), NEW n \in Nat,
         Len(a) + Len(b) = n,
         \A i \in 1..Len(a) : a[i] = i,
         \A i \in 1..Len(b) : b[i] = Len(a) + i
  PROVE  a \o b = [i \in 1..n |-> i]
<1> DEFINE c == a \o b  d == [i \in 1..n |-> i]
<1>1. c \in Seq(Nat) /\ Len(c) = n
  BY SMT
<1>2. d \in Seq(Nat) /\ Len(d) = n
  BY SMT
<1>3. ASSUME NEW i \in 1..n PROVE c[i] = d[i]
  <2>1. c[i] = IF i <= Len(a) THEN a[i] ELSE b[i - Len(a)]
    BY SMT, <1>1
  <2>2. Len(a) \in Nat /\ Len(b) \in Nat /\ d[i] = i
    BY SMT
  <2>3. CASE i <= Len(a)
    BY SMT, <2>1, <2>2, <2>3
  <2>4. CASE ~(i <= Len(a))
    <3>1. i - Len(a) \in 1..Len(b)
      BY SMT, <2>2, <2>4
    <3>2. b[i - Len(a)] = Len(a) + (i - Len(a))
      BY <3>1
    <3> QED  BY SMT, <2>1, <2>2, <2>4, <3>2
  <2> QED  BY SMT, <2>3, <2>4
<1> HIDE DEF c, d
<1>4. c = d
  BY SMT, <1>1, <1>2, <1>3
<1> QED  BY SMT, <1>4 DEF c, d

\* Nothing is lost or out of order while no message is both out and queued,
LEMMA OrderedAll ==
  ASSUME NEW a \in Seq(Nat), NEW x \in Seq(Nat), NEW n \in Nat, Ordered(a, x, n, 0)
  PROVE  a \o x = [i \in 1..n |-> i]
<1>1. Len(a) \in Nat /\ Len(x) \in Nat /\ Len(a) + Len(x) = n
  BY SMT DEF Ordered
<1>2. n - Len(x) = Len(a)
  BY SMT, <1>1
<1>3. /\ \A i \in 1..Len(a) : a[i] = i
      /\ \A i \in 1..Len(x) : x[i] = Len(a) + i
  BY <1>2 DEF Ordered
<1> QED  BY SMT, <1>1, <1>3, CountOn

\* and the head is used,
LEMMA OrderedUse ==
  ASSUME NEW a \in Seq(Nat), NEW x \in Seq(Nat), NEW n \in Nat, Ordered(a, x, n, 0),
         x # <<>>
  PROVE  Append(a, Head(x)) \in Seq(Nat) /\ Ordered(Append(a, Head(x)), x, n, 1)
<1>1. Len(x) \in Nat \ {0} /\ Head(x) = x[1] /\ Len(a) \in Nat
  BY SMT
<1>2. x[1] = Len(a) + 1
  BY SMT, <1>1 DEF Ordered
<1>3. /\ Append(a, Head(x)) \in Seq(Nat) /\ Len(Append(a, Head(x))) = Len(a) + 1
      /\ \A i \in 1..Len(a) : Append(a, Head(x))[i] = a[i]
      /\ Append(a, Head(x))[Len(a) + 1] = Len(a) + 1
  BY SMT, <1>1, <1>2
<1> QED  BY SMTT(30), <1>1, <1>3 DEF Ordered

\* then removed,
LEMMA OrderedPop ==
  ASSUME NEW a \in Seq(Nat), NEW x \in Seq(Nat), NEW n \in Nat, Ordered(a, x, n, 1),
         x # <<>>
  PROVE  Tail(x) \in Seq(Nat) /\ Ordered(a, Tail(x), n, 0)
<1>1. /\ Tail(x) \in Seq(Nat) /\ Len(x) \in Nat \ {0}
      /\ Len(Tail(x)) = Len(x) - 1
      /\ \A i \in 1..Len(Tail(x)) : Tail(x)[i] = x[i + 1]
  BY TailFacts
<1>2. Len(a) \in Nat
  BY SMT
<1> QED  BY SMT, <1>1, <1>2 DEF Ordered

\* while the next one may be queued.
LEMMA OrderedPush ==
  ASSUME NEW a \in Seq(Nat), NEW x \in Seq(Nat), NEW n \in Nat, NEW k \in {0, 1},
         Ordered(a, x, n, k)
  PROVE  Append(x, n + 1) \in Seq(Nat) /\ Ordered(a, Append(x, n + 1), n + 1, k)
<1>1. /\ Append(x, n + 1) \in Seq(Nat) /\ Len(Append(x, n + 1)) = Len(x) + 1
      /\ \A i \in 1..Len(x) : Append(x, n + 1)[i] = x[i]
      /\ Append(x, n + 1)[Len(x) + 1] = n + 1
      /\ Len(x) \in Nat /\ Len(a) \in Nat
  BY SMT
<1> DEFINE y == Append(x, n + 1)
<1> HIDE DEF y
<1>2. Len(a) + Len(y) = n + 1 + k
  BY SMT, <1>1 DEF Ordered, y
<1>3. ASSUME NEW i \in 1..Len(y) PROVE y[i] = n + 1 - Len(y) + i
  <2>1. CASE i = Len(x) + 1
    BY SMT, <1>1, <2>1 DEF y
  <2>2. CASE i \in 1..Len(x)
    BY SMT, <1>1, <2>2 DEF y, Ordered
  <2> QED  BY SMT, <1>1, <2>1, <2>2 DEF y
<1>4. Ordered(a, y, n + 1, k)
  BY SMT, <1>2, <1>3 DEF Ordered
<1> QED  BY <1>1, <1>4 DEF y

\* What was taken is out or queued, in order.
LEMMA OrderIsFifo ==
  ASSUME FlowInv
  PROVE  FifoDelivery
<1> SUFFICES ASSUME NEW s \in Sides
             PROVE  out[s] \o Pending(s) = [i \in 1..taken[s] |-> i]
  BY DEF FifoDelivery
<1>1. q[s] \in Seq(Nat) /\ out[s] \in Seq(Nat) /\ taken[s] \in Nat /\ InOrder(s)
  BY DEF FlowInv, FlowTypes
<1>2. CASE Using(s)
  <2>1. Pending(s) = Tail(q[s]) /\ q[s] # <<>>
    BY <1>2 DEF Pending, Using, FlowInv, HeadStays
  <2>2. Ordered(out[s], q[s], taken[s], 1)
    BY <1>1, <1>2 DEF InOrder
  <2>3. Tail(q[s]) \in Seq(Nat) /\ Ordered(out[s], Tail(q[s]), taken[s], 0)
    BY <1>1, <2>1, <2>2, OrderedPop
  <2> QED  BY <1>1, <2>1, <2>3, OrderedAll
<1>3. CASE ~Using(s)
  <2>1. Pending(s) = q[s]
    BY <1>3 DEF Pending, Using
  <2>2. Ordered(out[s], q[s], taken[s], 0)
    BY <1>1, <1>3 DEF InOrder
  <2> QED  BY <1>1, <2>1, <2>2, OrderedAll
<1> QED  BY <1>2, <1>3

-----------------------------------------------------------------------------
(* Steps that touch no message. *)

\* The users are not the layer's threads.
LEMMA UsersApart == \A u \in Users : u \notin Threads /\ u # none
BY SMT, BlockingAssumption DEF BlockingAssumption

\* Nobody else is moved to or from a place where a side's mutex is held.
Others(p) ==
  \A r \in Procs \ {p} :
    /\ at'[r] = at[r]
    /\ pc'[r] = pc[r] \/ (pc[r] \notin Holding /\ pc'[r] \notin Holding)
    /\ r \in Users => call'[r] = call[r]

\* A side's mutex is taken when it is free and given back by its holder.
Locks(p) ==
  /\ \/ one' = one
     \/ pc[p] \in Holding /\ one' = [one EXCEPT ![at[p]] = none]
     \/ one[at[p]] = none /\ one' = [one EXCEPT ![at[p]] = p]
  /\ pc'[p] \in Holding => one'[at'[p]] = p

\* A step of p that uses no message.
Quiet(p) ==
  /\ UNCHANGED <<q, out, taken, begun>>
  /\ paused' => paused
  /\ Others(p) /\ Locks(p)
  /\ pc[p] # "o_pop" /\ pc'[p] # "o_pop"
  /\ pc'[p] \in {"o_check", "o_use"} => q[at'[p]] # <<>>
  /\ pc'[p] = "o_use" /\ HeedsPause(p)' => ~paused

LEMMA HoldingLocs ==
  /\ "o_top" \in Holding /\ "o_check" \in Holding /\ "o_use" \in Holding
  /\ "o_pop" \in Holding /\ "f_enable" \in Holding /\ "f_unlock" \in Holding
  /\ "q_resize" \in Holding
BY SMT DEF Holding

\* Whoever holds a mutex keeps it,
LEMMA MutexStep ==
  ASSUME FlowInv, NEW p \in Procs, Others(p), Locks(p)
  PROVE  Mutex'
<1> SUFFICES ASSUME NEW r \in Procs, pc'[r] \in Holding PROVE one'[at'[r]] = r
  BY DEF Mutex
<1>1. CASE r = p
  BY <1>1 DEF Locks
<1>2. CASE r # p
  <2>1. pc[r] \in Holding /\ at'[r] = at[r] /\ one[at[r]] = r
    BY <1>2 DEF Others, FlowInv, Mutex
  <2>2. pc[p] \in Holding => at[r] # at[p]
    BY <1>2, <2>1 DEF FlowInv, Mutex
  <2>3. one[at[p]] = none => at[r] # at[p]
    BY SMT, <2>1, UsersApart DEF none, Procs, Threads
  <2>4. one \in [Sides -> Procs \cup {none}] /\ at[r] \in Sides
    BY DEF FlowInv, FlowTypes
  <2> QED  BY <2>1, <2>2, <2>3, <2>4 DEF Locks
<1> QED  BY <1>1, <1>2

\* and the others go on using what they use.
LEMMA OthersUse ==
  ASSUME NEW p \in Procs, Others(p), NEW r \in Procs, r # p
  PROVE  /\ at'[r] = at[r] /\ (HeedsPause(r)' <=> HeedsPause(r))
         /\ \A l \in Holding : pc'[r] = l <=> pc[r] = l
<1>1. HeedsPause(r)' <=> HeedsPause(r)
  BY DEF Others, HeedsPause, IsWorker, IsFlush, Procs
<1> QED  BY <1>1 DEF Others

\* The order of the messages depends on the queue, and on who uses one.
LEMMA OrderStays ==
  ASSUME FlowInv, NEW s \in Sides,
         q'[s] = q[s], out'[s] = out[s], taken'[s] = taken[s], Using(s)' <=> Using(s)
  PROVE  InOrder(s)'
<1>1. InOrder(s)
  BY DEF FlowInv
<1>2. CASE Using(s)
  BY <1>1, <1>2 DEF InOrder
<1>3. CASE ~Using(s)
  BY <1>1, <1>3 DEF InOrder
<1> QED  BY <1>2, <1>3

LEMMA UsingStays ==
  ASSUME NEW p \in Procs, Others(p), NEW s \in Sides,
         (at'[p] = s /\ pc'[p] = "o_pop") <=> (at[p] = s /\ pc[p] = "o_pop")
  PROVE  Using(s)' <=> Using(s)
<1>1. \A r \in Procs : (at'[r] = s /\ pc'[r] = "o_pop") <=> (at[r] = s /\ pc[r] = "o_pop")
  BY OthersUse, HoldingLocs
<1>2. (\E r \in Procs : at'[r] = s /\ pc'[r] = "o_pop") <=>
      (\E r \in Procs : at[r] = s /\ pc[r] = "o_pop")
  BY <1>1
<1> QED  BY <1>2 DEF Using

LEMMA QuietStep ==
  ASSUME FlowInv, NEW p \in Procs, Quiet(p), FlowTypes', NotStarted'
  PROVE  FlowInv'
<1>1. Mutex'
  BY MutexStep DEF Quiet
<1>2. HeadStays'
  <2> SUFFICES ASSUME NEW r \in Procs, pc'[r] \in {"o_check", "o_use", "o_pop"}
               PROVE  q[at'[r]] # <<>>
    BY DEF HeadStays, Quiet
  <2>1. CASE r = p
    BY SMT, <2>1 DEF Quiet
  <2>2. CASE r # p
    <3>1. pc'[r] \in Holding
      BY SMT DEF Holding
    <3>2. pc[r] = pc'[r] /\ at'[r] = at[r]
      BY <2>2, <3>1, OthersUse DEF Quiet
    <3> QED  BY <3>2 DEF FlowInv, HeadStays
  <2> QED  BY <2>1, <2>2
<1>3. ASSUME NEW s \in Sides PROVE InOrder(s)'
  <2>1. Using(s)' <=> Using(s)
    BY UsingStays DEF Quiet
  <2> QED  BY <2>1, OrderStays DEF Quiet
<1>4. BegunBefore'
  <2> SUFFICES ASSUME paused', NEW r \in Procs, pc'[r] = "o_use", HeedsPause(r)'
               PROVE  begun'[at'[r]] >= 1
    BY DEF BegunBefore
  <2>1. r # p /\ paused
    BY DEF Quiet
  <2>2. pc[r] = "o_use" /\ HeedsPause(r) /\ at'[r] = at[r]
    BY ZenonT(40), <2>1, OthersUse, HoldingLocs DEF Quiet
  <2> QED  BY <2>1, <2>2 DEF Quiet, FlowInv, BegunBefore
<1> QED  BY <1>1, <1>2, <1>3, <1>4 DEF FlowInv

-----------------------------------------------------------------------------
(* The quiet steps. *)

\* A step of p that moves p, and others at most by waking them up.
Plain(p) ==
  /\ UNCHANGED <<q, out, taken, begun, joinable, died>>
  /\ paused' \in {paused, FALSE}
  /\ pc' \in [Procs -> Locations] /\ pc[p] \notin {"off", "o_pop"} /\ pc'[p] # "o_pop"
  /\ \A r \in Procs \ {p} :
       pc'[r] = pc[r] \/ (pc[r] = "w_asleep" /\ pc'[r] = "w_check")
  /\ at' = at \/ \E s \in Sides : at' = [at EXCEPT ![p] = s]
  /\ \/ call' = call
     \/ p \in Users /\ \E c \in CallNames \cup {none} : call' = [call EXCEPT ![p] = c]
  /\ Locks(p)
  /\ pc'[p] \in {"o_check", "o_use"} => q[at'[p]] # <<>>
  /\ pc'[p] = "o_use" /\ HeedsPause(p)' => ~paused

LEMMA PlainStep ==
  ASSUME FlowInv, NEW p \in Procs, Plain(p)
  PROVE  FlowInv'
<1>1. /\ pc \in [Procs -> Locations] /\ at \in [Procs -> Sides]
      /\ one \in [Sides -> Procs \cup {none}]
      /\ call \in [Users -> CallNames \cup {none}]
      /\ paused \in BOOLEAN
  BY DEF FlowInv, FlowTypes
<1>2. Others(p)
  <2> SUFFICES ASSUME NEW r \in Procs \ {p}
               PROVE  /\ at'[r] = at[r]
                      /\ pc'[r] = pc[r] \/ (pc[r] \notin Holding /\ pc'[r] \notin Holding)
                      /\ r \in Users => call'[r] = call[r]
    BY DEF Others
  <2>1. at'[r] = at[r]
    BY SMT, <1>1 DEF Plain
  <2>2. pc'[r] = pc[r] \/ (pc[r] \notin Holding /\ pc'[r] \notin Holding)
    BY SMT DEF Plain, Holding
  <2>3. r \in Users => call'[r] = call[r]
    BY SMT, <1>1 DEF Plain
  <2> QED  BY <2>1, <2>2, <2>3
<1>3. FlowTypes'
  <2>1. at' \in [Procs -> Sides]
    BY SMT, <1>1 DEF Plain
  <2>2. call' \in [Users -> CallNames \cup {none}]
    BY SMT, <1>1 DEF Plain
  <2>3. one' \in [Sides -> Procs \cup {none}]
    BY SMT, <1>1 DEF Plain, Locks
  <2>4. paused' \in BOOLEAN
    BY <1>1 DEF Plain
  <2> QED  BY <2>1, <2>2, <2>3, <2>4 DEF Plain, FlowInv, FlowTypes
<1>4. NotStarted'
  <2> SUFFICES ASSUME NEW t \in Threads, ~joinable[t] PROVE pc'[t] = "off"
    BY DEF NotStarted, Plain
  <2>1. pc[t] = "off" /\ t \in Procs
    BY DEF FlowInv, NotStarted, Procs
  <2>2. t # p
    BY SMT, <2>1 DEF Plain
  <2> QED  BY SMT, <2>1, <2>2 DEF Plain
<1>5. Quiet(p)
  <2>1. paused' => paused
    BY <1>1 DEF Plain
  <2>2. pc[p] # "o_pop"
    BY SMT DEF Plain
  <2> QED  BY <1>2, <2>1, <2>2 DEF Quiet, Plain
<1> QED  BY <1>3, <1>4, <1>5, QuietStep

\* notify_all() wakes up who is asleep.
LEMMA WakeFacts ==
  ASSUME NEW s, NEW f \in [Procs -> Locations]
  PROVE  /\ WakePaused(f, s) \in [Procs -> Locations]
         /\ \A r \in Procs : \/ WakePaused(f, s)[r] = f[r]
                             \/ f[r] = "w_asleep" /\ WakePaused(f, s)[r] = "w_check"
BY SMT DEF WakePaused, Locations

\* The steps of a worker that waits.
LEMMA WaitSteps ==
  ASSUME FlowInv, NEW p \in Procs, WCheck(p) \/ WSleep(p) \/ WakeUp(p) \/ WLock(p)
  PROVE  FlowInv'
<1>1. /\ pc \in [Procs -> Locations] /\ at \in [Procs -> Sides]
      /\ one \in [Sides -> Procs \cup {none}]
  BY DEF FlowInv, FlowTypes
<1>2. CASE WCheck(p)
  BY SMT, <1>1, <1>2, PlainStep DEF WCheck, Plain, Locks, Holding, Locations,
     queues, threads, locals, history
<1>3. CASE WSleep(p) \/ WakeUp(p)
  BY ZenonT(40), <1>1, <1>3, PlainStep DEF WSleep, WakeUp, Plain, Locks, Holding, Locations,
     queues, threads, locals, history
<1>4. CASE WLock(p)
  BY <1>1, <1>4, PlainStep DEF WLock, Plain, Locks, Holding, Locations,
     queues, threads, locals, history
<1> QED  BY <1>2, <1>3, <1>4

\* The ends of the threads, and of run().
LEMMA EndSteps ==
  ASSUME FlowInv, NEW p \in Procs,
         HHalt(p) \/ HHalted(p) \/ (p = "S" /\ SHalted) \/ (p = "R" /\ (RCheck \/ RRecv \/ RHalted))
  PROVE  FlowInv'
<1>1. /\ pc \in [Procs -> Locations] /\ at \in [Procs -> Sides]
      /\ one \in [Sides -> Procs \cup {none}]
  BY DEF FlowInv, FlowTypes
<1>2. CASE HHalt(p)
  BY SMT, <1>1, <1>2, PlainStep DEF HHalt, Plain, Locks, Holding, Locations, locals, history
<1>3. CASE HHalted(p)
  BY SMT, <1>1, <1>3, PlainStep DEF HHalted, Plain, Locks, Holding, Locations, queues, locals,
     history
<1>4. CASE p = "S" /\ SHalted
  BY SMT, <1>1, <1>4, PlainStep DEF SHalted, Plain, Locks, Holding, Locations, queues, locals,
     history
<1>5. CASE p = "R" /\ RCheck
  BY SMT, <1>1, <1>5, PlainStep DEF RCheck, Plain, Locks, Holding, Locations, queues, threads,
     locals, history
<1>6. CASE p = "R" /\ RRecv
  BY SMT, <1>1, <1>6, PlainStep DEF RRecv, Plain, Locks, Holding, Locations, queues, threads,
     locals, history
<1>7. CASE p = "R" /\ RHalted
  BY SMT, <1>1, <1>7, PlainStep DEF RHalted, Plain, Locks, Holding, Locations, queues, locals,
     history
<1> QED  BY <1>2, <1>3, <1>4, <1>5, <1>6, <1>7

\* What the callers of sendOneMessage() and dispatchOneMessage() do when it returns.
LEMMA DoneFacts ==
  ASSUME FlowInv, NEW p \in Procs, pc[p] \in {"o_top", "o_check", "o_pop"}, NEW ok,
         OneDone(p, ok), at' = at
  PROVE  /\ pc' \in [Procs -> Locations]
         /\ pc'[p] \in {"w_check", "f_unlock", "o_top", "idle"}
         /\ \A r \in Procs \ {p} : pc'[r] = pc[r]
         /\ Locks(p)
         /\ call' = call \/ (p \in Users /\ call' = [call EXCEPT ![p] = none])
<1>1. pc \in [Procs -> Locations] /\ at[p] \in Sides
  BY DEF FlowInv, FlowTypes
<1>2. pc[p] \in Holding /\ one[at[p]] = p
  BY SMT DEF FlowInv, Mutex, Holding
<1>3. CASE IsWorker(p)
  BY SMT, <1>1, <1>2, <1>3 DEF OneDone, Locks, Holding, Locations
<1>4. CASE ~IsWorker(p) /\ IsFlush(p)
  BY SMT, <1>1, <1>2, <1>4 DEF OneDone, Locks, Holding, Locations
<1>5. CASE ~IsWorker(p) /\ ~IsFlush(p)
  <2>1. p \in Users
    BY <1>5 DEF IsWorker, Procs
  <2>2. /\ pc' = [pc EXCEPT ![p] = "idle"] /\ call' = [call EXCEPT ![p] = none]
        /\ one' = [one EXCEPT ![at[p]] = none]
    BY <1>5 DEF OneDone, Return
  <2> QED  BY SMT, <1>1, <1>2, <2>1, <2>2 DEF Locks, Holding, Locations
<1> QED  BY <1>3, <1>4, <1>5

\* The steps before a message is used.
LEMMA LookSteps ==
  ASSUME FlowInv, NEW p \in Procs, OTop(p) \/ OCheck(p)
  PROVE  FlowInv'
<1>1. /\ pc \in [Procs -> Locations] /\ at \in [Procs -> Sides]
      /\ one \in [Sides -> Procs \cup {none}]
  BY DEF FlowInv, FlowTypes
<1>2. pc[p] \in {"o_top", "o_check"} /\ one[at[p]] = p
  BY HoldingLocs DEF OTop, OCheck, FlowInv, Mutex
<1>3. CASE OneDone(p, FALSE) /\ UNCHANGED <<queues, threads, paused, at, client, history>>
  <2>1. /\ pc' \in [Procs -> Locations]
        /\ pc'[p] \in {"w_check", "f_unlock", "o_top", "idle"}
        /\ \A r \in Procs \ {p} : pc'[r] = pc[r]
        /\ Locks(p)
        /\ call' = call \/ (p \in Users /\ call' = [call EXCEPT ![p] = none])
    BY <1>2, <1>3, DoneFacts
  <2>2. Plain(p)
    BY SMT, <1>2, <1>3, <2>1 DEF Plain, queues, threads, history
  <2> QED  BY <2>2, PlainStep
<1>4. CASE /\ \/ /\ pc[p] = "o_top" /\ q[at[p]] # <<>>
                 /\ pc' = [pc EXCEPT ![p] = IF HeedsPause(p) THEN "o_check" ELSE "o_use"]
              \/ pc[p] = "o_check" /\ ~paused /\ pc' = [pc EXCEPT ![p] = "o_use"]
           /\ UNCHANGED <<one, call>>
           /\ UNCHANGED <<queues, threads, paused, at, client, history>>
  <2>1. q[at[p]] # <<>>
    BY SMT, <1>4, <1>1 DEF FlowInv, HeadStays
  <2>2. HeedsPause(p)' <=> HeedsPause(p)
    BY <1>4 DEF HeedsPause, IsWorker, IsFlush
  <2>3. PICK l \in {"o_check", "o_use"} :
          pc' = [pc EXCEPT ![p] = l] /\ (l = "o_use" => ~HeedsPause(p) \/ ~paused)
    BY SMT, <1>4 DEF HeedsPause
  <2>4. pc' \in [Procs -> Locations] /\ pc'[p] = l /\ \A r \in Procs \ {p} : pc'[r] = pc[r]
    BY SMT, <1>1, <2>3 DEF Locations
  <2>5. Locks(p)
    BY <1>2, <1>4 DEF Locks
  <2>6. pc[p] \notin {"off", "o_pop"} /\ pc'[p] # "o_pop" /\ paused' \in {paused, FALSE}
    BY SMT, <1>2, <1>4, <2>3, <2>4
  <2>7. UNCHANGED <<q, out, taken, begun, joinable, died, at, call>>
    BY <1>4 DEF queues, threads, history
  <2>8. Plain(p)
    BY <2>1, <2>2, <2>3, <2>4, <2>5, <2>6, <2>7 DEF Plain
  <2> QED  BY <2>8, PlainStep
<1>5. CASE OTop(p)
  BY <1>3, <1>4, <1>5 DEF OTop
<1>6. CASE OCheck(p)
  BY <1>3, <1>4, <1>6 DEF OCheck
<1> QED  BY <1>5, <1>6

\* A call begins.
LEMMA BeginStep ==
  ASSUME FlowInv, NEW u \in Users, NEW c \in CallNames, Begin(u, c)
  PROVE  FlowInv'
<1>1. /\ pc \in [Procs -> Locations] /\ at \in [Procs -> Sides]
      /\ one \in [Sides -> Procs \cup {none}] /\ u \in Procs
  BY DEF FlowInv, FlowTypes, Procs
<1> DEFINE l == CASE c \in {"flush", "try_flush", "set_size", "try_set_size"} -> "f_disable"
                  [] c \in {"stop", "try_stop"} -> "stop"
                  [] c \in {"handle", "handle_nonblock"} -> "handle"
                  [] OTHER -> c
<1>2. l \in Locations \ (Holding \cup {"off"})
  BY SMT DEF CallNames, Locations, Holding
<1>3. pc' = [pc EXCEPT ![u] = l]
  BY DEF Begin
<1> HIDE DEF l
<1>4. pc' \in [Procs -> Locations] /\ pc'[u] = l /\ \A r \in Procs \ {u} : pc'[r] = pc[r]
  BY SMT, <1>1, <1>2, <1>3
<1>5. \E s \in Sides : at' = [at EXCEPT ![u] = s]
  BY DEF Begin, Sides
<1>6. \E d \in CallNames \cup {none} : call' = [call EXCEPT ![u] = d]
  BY DEF Begin
<1> QED  BY <1>1, <1>2, <1>4, <1>5, <1>6, PlainStep DEF Begin, Plain, Locks, Holding, queues,
            threads, history

\* flush() and setQueueSize().
LEMMA FlushSteps ==
  ASSUME FlowInv, NEW u \in Users,
         FDisable(u) \/ FLock(u) \/ FBack(u) \/ FEnable(u) \/ FUnlock(u) \/ QResize(u)
  PROVE  FlowInv'
<1>1. /\ pc \in [Procs -> Locations] /\ at \in [Procs -> Sides]
      /\ one \in [Sides -> Procs \cup {none}] /\ u \in Procs
  BY DEF FlowInv, FlowTypes, Procs
<1>2. CASE FDisable(u)
  BY SMTT(30), <1>1, <1>2, PlainStep DEF FDisable, NextSide, Return, Plain, Locks, Holding, Locations,
     Sides, threads, history
<1>3. CASE FLock(u)
  BY <1>1, <1>3, PlainStep DEF FLock, Plain, Locks, Holding, Locations, queues, threads,
     locals, history
<1>4. CASE FBack(u)
  <2>1. PICK f \in {pc, WakePaused(pc, at[u])} : Return(u, f, "again")
    BY <1>4 DEF FBack
  <2>2. /\ f \in [Procs -> Locations]
        /\ \A r \in Procs : f[r] = pc[r] \/ (pc[r] = "w_asleep" /\ f[r] = "w_check")
    BY SMT, <1>1, <2>1, WakeFacts
  <2>3. /\ pc' \in [Procs -> Locations] /\ pc'[u] = "idle"
        /\ \A r \in Procs \ {u} : pc'[r] = f[r]
    BY SMT, <1>1, <2>1, <2>2 DEF Return, Locations
  <2>4. Plain(u)
    BY ZenonT(40), <1>4, <2>1, <2>2, <2>3 DEF FBack, Return, Plain, Locks, Holding, threads, history
  <2> QED  BY <1>1, <2>4, PlainStep
<1>5. CASE FEnable(u)
  <2>1. one[at[u]] = u
    BY <1>1, <1>5, HoldingLocs DEF FEnable, FlowInv, Mutex
  <2> QED  BY SMT, <1>1, <1>5, <2>1, PlainStep DEF FEnable, Plain, Locks, Holding, Locations,
              threads, history
<1>6. CASE FUnlock(u) \/ QResize(u)
  <2>1. PICK f \in {pc, WakePaused(pc, at[u])} : NextSide(u, f)
    BY <1>6 DEF FUnlock, QResize
  <2>2. /\ f \in [Procs -> Locations]
        /\ \A r \in Procs : f[r] = pc[r] \/ (pc[r] = "w_asleep" /\ f[r] = "w_check")
    BY SMT, <1>1, <2>1, WakeFacts
  <2>3. /\ pc[u] \in {"f_unlock", "q_resize"} /\ one' = [one EXCEPT ![at[u]] = none]
        /\ UNCHANGED <<q, threads, paused, history>>
    BY <1>6 DEF FUnlock, QResize, queues
  <2>4. PICK l \in {"idle", "f_disable"} : pc' = [f EXCEPT ![u] = l]
    BY SMT, <2>1 DEF NextSide, Return
  <2>5. /\ pc' \in [Procs -> Locations] /\ pc'[u] = l
        /\ \A r \in Procs \ {u} : pc'[r] = f[r]
    BY SMT, <1>1, <2>2, <2>4 DEF Locations
  <2>6. /\ at' = at \/ \E s \in Sides : at' = [at EXCEPT ![u] = s]
        /\ call' = call \/ call' = [call EXCEPT ![u] = none]
    BY SMT, <2>1 DEF NextSide, Return, Sides
  <2>7. Plain(u)
    BY <2>2, <2>3, <2>4, <2>5, <2>6 DEF Plain, Locks, Holding, threads, history
  <2> QED  BY <1>1, <2>7, PlainStep
<1> QED  BY <1>2, <1>3, <1>4, <1>5, <1>6

\* A thread is started,
LEMMA SpawnStep ==
  ASSUME FlowInv, NEW p \in Procs, NEW t \in Threads,
         NEW k \in Locations \ Holding, NEW l \in Locations \ Holding,
         Spawn(t, [pc EXCEPT ![p] = k], l), ~died', pc[p] \notin Holding \cup {"off"},
         UNCHANGED <<q, out, taken, begun, paused, at, one>>,
         call' = call \/ (p \in Users /\ call' = [call EXCEPT ![p] = none])
  PROVE  FlowInv'
<1>1. /\ pc \in [Procs -> Locations] /\ joinable \in [Threads -> BOOLEAN] /\ t \in Procs
      /\ call \in [Users -> CallNames \cup {none}]
  BY DEF FlowInv, FlowTypes, Procs
<1>2. pc[t] = "off" /\ t # p
  BY SMT, <1>1 DEF FlowInv, NotStarted, Spawn
<1>3. /\ pc' \in [Procs -> Locations] /\ pc'[p] = k /\ pc'[t] = l
      /\ \A r \in Procs \ {p, t} : pc'[r] = pc[r]
  BY SMT, <1>1, <1>2 DEF Spawn
<1>4. FlowTypes'
  <2>1. joinable' \in [Threads -> BOOLEAN] /\ died' \in BOOLEAN
    BY SMT, <1>1 DEF Spawn
  <2>2. call' \in [Users -> CallNames \cup {none}]
    BY SMT, <1>1
  <2> QED  BY <1>3, <2>1, <2>2 DEF FlowInv, FlowTypes
<1>5. NotStarted'
  BY SMT, <1>1, <1>2, <1>3 DEF FlowInv, NotStarted, Spawn, Procs
<1>6. Others(p)
  BY SMTT(30), <1>1, <1>2, <1>3 DEF Others, Holding
<1>7. Quiet(p)
  BY SMT, <1>3, <1>6 DEF Quiet, Locks, Holding
<1> QED  BY <1>4, <1>5, <1>7, QuietStep

\* or joined.
LEMMA JoinStep ==
  ASSUME FlowInv, NEW p \in Procs, NEW t \in Threads, NEW k \in Locations \ Holding,
         Join(t), pc' = [pc EXCEPT ![p] = k], pc[p] \notin Holding \cup {"off"}, k # "off",
         UNCHANGED <<q, out, taken, begun, paused, at, one, call>>
  PROVE  FlowInv'
<1>1. /\ pc \in [Procs -> Locations] /\ joinable \in [Threads -> BOOLEAN] /\ t \in Procs
      /\ died \in BOOLEAN
  BY DEF FlowInv, FlowTypes, Procs
<1>2. pc[t] = "off" /\ t # p
  BY SMT DEF Join
<1>3. /\ pc' \in [Procs -> Locations] /\ pc'[p] = k
      /\ \A r \in Procs \ {p} : pc'[r] = pc[r]
  BY SMT, <1>1, <1>2
<1>4. FlowTypes'
  <2>1. joinable' \in [Threads -> BOOLEAN] /\ died' \in BOOLEAN
    BY SMT, <1>1 DEF Join
  <2> QED  BY <1>3, <2>1 DEF FlowInv, FlowTypes
<1>5. NotStarted'
  BY SMT, <1>1, <1>2, <1>3 DEF FlowInv, NotStarted, Join, Procs
<1>6. Others(p)
  BY <1>3 DEF Others
<1>7. Quiet(p)
  BY SMT, <1>3, <1>6 DEF Quiet, Locks, Holding
<1> QED  BY <1>4, <1>5, <1>7, QuietStep

\* The steps that start a thread.
LEMMA SpawnSteps ==
  ASSUME FlowInv, ~died', NEW p \in Procs,
         HSpawn(p) \/ (p \in Users /\ (PubSpawn(p) \/ StartOrRun(p) \/ Handle(p)))
  PROVE  FlowInv'
<1>1. pc \in [Procs -> Locations]
  BY DEF FlowInv, FlowTypes
<1>2. CASE HSpawn(p)
  <2>1. /\ "R" \in Threads /\ {"w_check", "r_check"} \subseteq Locations \ Holding
        /\ "h_spawn" \notin Holding \cup {"off"}
    BY SMT DEF Threads, Locations, Holding
  <2> QED  BY <1>2, <2>1, SpawnStep DEF HSpawn, queues, locals, history
<1>3. CASE p \in Users /\ PubSpawn(p)
  <2>1. /\ "S" \in Threads /\ {"w_check", "p_push"} \subseteq Locations \ Holding
        /\ "publish" \notin Holding \cup {"off"}
    BY SMT DEF Threads, Locations, Holding
  <2>2. CASE state["send"] = "stopped"
    BY ZenonT(40), <1>3, <2>1, <2>2, SpawnStep DEF PubSpawn, queues, locals, history
  <2>3. CASE state["send"] # "stopped"
    BY SMT, <1>1, <1>3, <2>3, PlainStep DEF PubSpawn, Plain, Locks, Holding, Locations, queues,
       locals, history
  <2> QED  BY <2>2, <2>3
<1>4. CASE p \in Users /\ StartOrRun(p)
  <2>1. /\ "H" \in Threads /\ {"idle", "h_spawn"} \subseteq Locations \ Holding
        /\ "start" \notin Holding \cup {"off"}
    BY SMT DEF Threads, Locations, Holding
  <2>2. CASE recvMode = "none" /\ pc[p] = "start"
    BY ZenonT(40), <1>4, <2>1, <2>2, SpawnStep DEF StartOrRun, history
  <2>3. CASE recvMode # "none" \/ pc[p] = "run"
    BY SMTT(30), <1>1, <1>4, <2>3, PlainStep DEF StartOrRun, Return, Plain, Locks, Holding, Locations,
       history
  <2> QED  BY <1>4, <2>2, <2>3 DEF StartOrRun
<1>5. CASE p \in Users /\ Handle(p)
  <2>1. /\ "R" \in Threads /\ {"h_lock", "r_check"} \subseteq Locations \ Holding
        /\ "handle" \notin Holding \cup {"off"}
    BY SMT DEF Threads, Locations, Holding
  <2>2. CASE recvMode = "none"
    BY <1>5, <2>1, <2>2, SpawnStep DEF Handle, history
  <2>3. CASE recvMode # "none"
    BY SMTT(30), <1>1, <1>5, <2>3, PlainStep DEF Handle, Return, Plain, Locks, Holding, Locations,
       history
  <2> QED  BY <2>2, <2>3
<1> QED  BY <1>2, <1>3, <1>4, <1>5

\* try_stop() joins a thread that has ended.
LEMMA TryJoinStep ==
  ASSUME FlowInv, NEW u \in Users, NEW x, NEW t \in Threads, NEW l \in {"s_trysend", "s_end"},
         pc[u] \in {"s_try", "s_trysend"}, TryJoin(u, x, t, l),
         UNCHANGED <<q, out, taken, begun, paused, at, one>>
  PROVE  FlowInv'
<1>1. pc \in [Procs -> Locations] /\ u \in Procs
  BY DEF FlowInv, FlowTypes, Procs
<1>2. l \in Locations \ Holding /\ l # "off" /\ pc[u] \notin Holding \cup {"off"}
  BY SMT DEF Locations, Holding
<1>3. CASE Join(t) /\ pc' = [pc EXCEPT ![u] = l] /\ UNCHANGED call
  BY <1>1, <1>2, <1>3, JoinStep
<1>4. CASE /\ \/ Return(u, pc, "again")
              \/ pc' = [pc EXCEPT ![u] = l] /\ call' = call
           /\ UNCHANGED <<joinable, died>>
  BY SMT, <1>1, <1>2, <1>4, PlainStep DEF Return, Plain, Locks, Holding, Locations
<1> QED  BY <1>3, <1>4 DEF TryJoin

\* The steps that join a thread.
LEMMA JoinSteps ==
  ASSUME FlowInv, NEW p \in Procs,
         \/ HJoin(p)
         \/ p \in Users /\ (StopJoin(p) \/ StopJoinSend(p) \/ StopTry(p) \/ StopTrySend(p))
  PROVE  FlowInv'
<1>1. pc \in [Procs -> Locations]
  BY DEF FlowInv, FlowTypes
<1>2. /\ {"R", "S", StopThread} \subseteq Threads
      /\ {"h_halted", "s_send", "s_end"} \subseteq Locations \ Holding
      /\ {"h_join", "s_join", "s_joinsend"} \cap (Holding \cup {"off"}) = {}
      /\ "h_halted" # "off" /\ "s_send" # "off" /\ "s_end" # "off"
  BY SMT DEF Threads, StopThread, Locations, Holding
<1>3. CASE HJoin(p)
  BY <1>2, <1>3, JoinStep DEF HJoin, queues, locals, history
<1>4. CASE p \in Users /\ StopJoin(p)
  BY <1>2, <1>4, JoinStep DEF StopJoin, queues, locals, history
<1>5. CASE p \in Users /\ StopJoinSend(p)
  BY <1>2, <1>5, JoinStep DEF StopJoinSend, queues, locals, history
<1>6. CASE p \in Users /\ StopTry(p)
  <2>1. CASE recvMode \in {"spawn", "handle"}
    BY ZenonT(40), <1>2, <1>6, <2>1, TryJoinStep DEF StopTry, queues, history
  <2>2. CASE recvMode \notin {"spawn", "handle"}
    BY SMTT(30), <1>1, <1>6, <2>2, PlainStep DEF StopTry, Plain, Locks, Holding, Locations, queues,
       history
  <2> QED  BY <2>1, <2>2
<1>7. CASE p \in Users /\ StopTrySend(p)
  BY SMT, <1>2, <1>7, TryJoinStep DEF StopTrySend, queues, history
<1> QED  BY <1>3, <1>4, <1>5, <1>6, <1>7

\* The other steps of stop(), and resume() and handle().
LEMMA StopSteps ==
  ASSUME FlowInv, NEW u \in Users,
         Stop(u) \/ StopSend(u) \/ StopEnd(u) \/ RunEnd(u) \/ Resume(u) \/ HandleLock(u)
  PROVE  FlowInv'
<1>1. /\ pc \in [Procs -> Locations] /\ at \in [Procs -> Sides] /\ paused \in BOOLEAN
      /\ one \in [Sides -> Procs \cup {none}] /\ u \in Procs
  BY DEF FlowInv, FlowTypes, Procs
<1>2. CASE Stop(u) \/ StopSend(u)
  <2>1. PICK f \in {pc, WakePaused(pc, "recv"), WakePaused(pc, "send")},
             l \in {"s_join", "s_send", "s_try", "s_joinsend", "s_end"} :
               pc' = [f EXCEPT ![u] = l]
    BY SMT, <1>2 DEF Stop, StopSend
  <2>2. /\ f \in [Procs -> Locations]
        /\ \A r \in Procs : f[r] = pc[r] \/ (pc[r] = "w_asleep" /\ f[r] = "w_check")
    BY SMT, <1>1, <2>1, WakeFacts
  <2>3. /\ pc' \in [Procs -> Locations] /\ pc'[u] = l
        /\ \A r \in Procs \ {u} : pc'[r] = f[r]
    BY SMT, <1>1, <2>1, <2>2 DEF Locations
  <2>4. /\ pc[u] \in {"stop", "s_send"}
        /\ UNCHANGED <<q, joinable, died, paused, one, locals, history>>
    BY ZenonT(40), <1>2 DEF Stop, StopSend
  <2>5. Plain(u)
    BY SMT, <2>2, <2>3, <2>4 DEF Plain, Locks, Holding, locals, history
  <2> QED  BY <1>1, <2>5, PlainStep
<1>3. CASE StopEnd(u) \/ RunEnd(u)
  <2>1. /\ pc' = [pc EXCEPT ![u] = "idle"] /\ call' = [call EXCEPT ![u] = none]
        /\ pc[u] \in {"s_end", "run_end"}
        /\ UNCHANGED <<q, joinable, died, paused, one, at, history>>
    BY <1>3 DEF StopEnd, RunEnd, Return, queues
  <2> QED  BY ZenonT(40), <1>1, <2>1, PlainStep DEF Plain, Locks, Holding, Locations, history
<1>4. CASE Resume(u)
  <2> DEFINE f == WakePaused(pc, "send")  g == WakePaused(f, "recv")
  <2>1. /\ f \in [Procs -> Locations]
        /\ \A r \in Procs : f[r] = pc[r] \/ (pc[r] = "w_asleep" /\ f[r] = "w_check")
    BY SMT, <1>1, WakeFacts
  <2>2. /\ pc' = [g EXCEPT ![u] = "idle"] /\ call' = [call EXCEPT ![u] = none]
        /\ paused' = FALSE /\ pc[u] = "resume"
        /\ UNCHANGED <<q, joinable, died, one, at, history>>
    BY <1>4 DEF Resume, Return, queues, threads
  <2> HIDE DEF f
  <2>3. /\ g \in [Procs -> Locations]
        /\ \A r \in Procs : g[r] = f[r] \/ (f[r] = "w_asleep" /\ g[r] = "w_check")
    BY SMT, <2>1, WakeFacts
  <2> HIDE DEF g
  <2>4. /\ pc' \in [Procs -> Locations] /\ pc'[u] = "idle"
        /\ \A r \in Procs \ {u} : pc'[r] = g[r]
    BY SMT, <1>1, <2>2, <2>3 DEF Locations
  <2>5. \A r \in Procs \ {u} : pc'[r] = pc[r] \/ (pc[r] = "w_asleep" /\ pc'[r] = "w_check")
    BY SMT, <2>1, <2>3, <2>4
  <2>6. Plain(u)
    BY <2>2, <2>4, <2>5 DEF Plain, Locks, Holding, history
  <2> QED  BY <1>1, <2>6, PlainStep
<1>5. CASE HandleLock(u)
  <2>1. CASE Return(u, pc, "again") /\ UNCHANGED one
    BY <1>1, <1>5, <2>1, PlainStep DEF HandleLock, Return, Plain, Locks, Holding, Locations,
       queues, threads, history
  <2>2. CASE /\ one' = [one EXCEPT ![at[u]] = u] /\ pc' = [pc EXCEPT ![u] = "o_top"]
             /\ UNCHANGED call
    BY <1>1, <1>5, <2>2, PlainStep DEF HandleLock, Plain, Locks, Holding, Locations,
       queues, threads, history
  <2> QED  BY <1>5, <2>1, <2>2 DEF HandleLock
<1> QED  BY <1>2, <1>3, <1>4, <1>5

-----------------------------------------------------------------------------
(* The steps that touch a message. *)

\* The head of the queue is used,
LEMMA UseStep ==
  ASSUME FlowInv, NEW p \in Procs, OUse(p)
  PROVE  FlowInv' /\ (PauseHolds => PauseHolds')
<1>0. PICK s \in Sides : s = at[p]
  BY DEF FlowInv, FlowTypes
<1>1. /\ pc \in [Procs -> Locations] /\ at \in [Procs -> Sides]
      /\ out \in [Sides -> Seq(Nat)] /\ q \in [Sides -> Seq(Nat)] /\ taken \in [Sides -> Nat]
      /\ begun \in [Sides -> Int]
  BY DEF FlowInv, FlowTypes
<1>2. /\ pc[p] = "o_use" /\ one[s] = p /\ q[s] # <<>>
      /\ pc' = [pc EXCEPT ![p] = "o_pop"] /\ out' = [out EXCEPT ![s] = Append(@, Head(q[s]))]
      /\ begun' = IF paused /\ HeedsPause(p) THEN [begun EXCEPT ![s] = @ - 1] ELSE begun
      /\ UNCHANGED <<q, taken, paused, one, at, call, joinable, died>>
  BY <1>0, HoldingLocs DEF OUse, queues, threads, locals, FlowInv, Mutex, HeadStays
<1>3. /\ pc' \in [Procs -> Locations] /\ pc'[p] = "o_pop"
      /\ \A r \in Procs \ {p} : pc'[r] = pc[r]
  BY SMT, <1>1, <1>2 DEF Locations
<1>4. \A r \in Procs \ {p} : pc[r] \in Holding => at[r] # s
  BY <1>0, <1>2 DEF FlowInv, Mutex
<1>5. Others(p) /\ Locks(p)
  BY <1>0, <1>2, <1>3 DEF Others, Locks
<1>6. ~Using(s) /\ Using(s)'
  BY SMT, <1>0, <1>2, <1>3, <1>4, HoldingLocs DEF Using
<1>7. Append(out[s], Head(q[s])) \in Seq(Nat) /\ InOrder(s)'
  <2>1. Ordered(out[s], q[s], taken[s], 0)
    BY <1>6, <1>1 DEF InOrder, FlowInv
  <2>2. /\ Append(out[s], Head(q[s])) \in Seq(Nat)
        /\ Ordered(Append(out[s], Head(q[s])), q[s], taken[s], 1)
    BY <1>1, <1>2, <2>1, OrderedUse
  <2>3. out'[s] = Append(out[s], Head(q[s]))
    BY <1>1, <1>2
  <2> QED  BY <1>2, <1>6, <2>2, <2>3 DEF InOrder
<1>8. ASSUME NEW x \in Sides PROVE InOrder(x)'
  <2>1. CASE x # s
    <3>1. Using(x)' <=> Using(x)
      BY <1>0, <1>2, <1>5, <2>1, UsingStays
    <3>2. out'[x] = out[x]
      BY <1>1, <1>2, <2>1
    <3> QED  BY <1>2, <3>1, <3>2, OrderStays
  <2> QED  BY <1>7, <2>1
<1>9. out' \in [Sides -> Seq(Nat)] /\ begun' \in [Sides -> Int]
  <2>1. out' \in [Sides -> Seq(Nat)]
    BY SMT, <1>1, <1>2, <1>7
  <2>2. begun' \in [Sides -> Int]
    <3>1. begun[s] - 1 \in Int
      BY SMT, <1>1
    <3> QED  BY SMTT(30), <1>1, <1>2, <3>1
  <2> QED  BY <2>1, <2>2
<1>10. FlowTypes'
  BY <1>2, <1>3, <1>9 DEF FlowInv, FlowTypes
<1>11. Mutex'
  BY <1>5, MutexStep
<1>12. NotStarted'
  BY SMTT(30), <1>1, <1>2, <1>3 DEF NotStarted, FlowInv, Threads, Procs
<1>13. HeadStays'
  BY <1>2, <1>3 DEF HeadStays, FlowInv
<1>14. BegunBefore'
  <2> SUFFICES ASSUME paused', NEW r \in Procs, pc'[r] = "o_use", HeedsPause(r)'
               PROVE  begun'[at'[r]] >= 1
    BY DEF BegunBefore
  <2>1. r # p /\ pc[r] = "o_use" /\ HeedsPause(r) /\ at'[r] = at[r] /\ at[r] # s
    BY SMT, <1>2, <1>3, <1>4, <1>5, HoldingLocs, OthersUse
  <2>2. begun[at[r]] >= 1
    BY <1>2, <2>1 DEF FlowInv, BegunBefore
  <2> QED  BY SMT, <1>1, <1>2, <2>1, <2>2
<1>15. PauseHolds => PauseHolds'
  <2>1. paused /\ HeedsPause(p) => begun[s] >= 1
    BY <1>0, <1>2 DEF FlowInv, BegunBefore
  <2> QED  BY SMT, <1>1, <1>2, <2>1 DEF PauseHolds
<1> QED  BY <1>8, <1>10, <1>11, <1>12, <1>13, <1>14, <1>15 DEF FlowInv

\* then removed,
LEMMA PopStep ==
  ASSUME FlowInv, NEW p \in Procs, OPop(p)
  PROVE  FlowInv'
<1>0. PICK s \in Sides : s = at[p]
  BY DEF FlowInv, FlowTypes
<1>1. /\ out \in [Sides -> Seq(Nat)] /\ q \in [Sides -> Seq(Nat)] /\ taken \in [Sides -> Nat]
      /\ one \in [Sides -> Procs \cup {none}] /\ call \in [Users -> CallNames \cup {none}]
  BY DEF FlowInv, FlowTypes
<1>2. /\ pc[p] = "o_pop" /\ one[s] = p /\ q[s] # <<>>
      /\ q' = [q EXCEPT ![s] = Tail(@)] /\ OneDone(p, TRUE)
      /\ UNCHANGED <<out, taken, begun, paused, at, joinable, died>>
  BY <1>0, HoldingLocs DEF OPop, threads, history, FlowInv, Mutex, HeadStays
<1>3. /\ pc' \in [Procs -> Locations] /\ pc'[p] \in {"w_check", "f_unlock", "o_top", "idle"}
      /\ \A r \in Procs \ {p} : pc'[r] = pc[r]
      /\ Locks(p)
      /\ call' = call \/ (p \in Users /\ call' = [call EXCEPT ![p] = none])
  BY <1>2, DoneFacts
<1>4. \A r \in Procs \ {p} : pc[r] \in Holding => at[r] # s
  BY <1>0, <1>2 DEF FlowInv, Mutex
<1>5. Others(p)
  BY ZenonT(40), <1>1, <1>2, <1>3 DEF Others
<1>6. Using(s) /\ ~Using(s)'
  BY SMTT(30), <1>0, <1>2, <1>3, <1>4, HoldingLocs DEF Using
<1>7. Tail(q[s]) \in Seq(Nat) /\ InOrder(s)'
  <2>1. Ordered(out[s], q[s], taken[s], 1)
    BY <1>6, <1>1 DEF InOrder, FlowInv
  <2>2. Tail(q[s]) \in Seq(Nat) /\ Ordered(out[s], Tail(q[s]), taken[s], 0)
    BY <1>1, <1>2, <2>1, OrderedPop
  <2>3. q'[s] = Tail(q[s])
    BY <1>1, <1>2
  <2> QED  BY <1>2, <1>6, <2>2, <2>3 DEF InOrder
<1>8. ASSUME NEW x \in Sides PROVE InOrder(x)'
  <2>1. CASE x # s
    <3>1. Using(x)' <=> Using(x)
      BY <1>0, <1>2, <1>5, <2>1, UsingStays
    <3>2. q'[x] = q[x]
      BY <1>1, <1>2, <2>1
    <3> QED  BY <1>2, <3>1, <3>2, OrderStays
  <2> QED  BY <1>7, <2>1
<1>9. FlowTypes'
  <2>1. q' \in [Sides -> Seq(Nat)]
    <3>1. /\ q' = [q EXCEPT ![s] = Tail(@)] /\ q \in [Sides -> Seq(Nat)]
          /\ Tail(q[s]) \in Seq(Nat)
      BY ZenonT(40), <1>1, <1>2, <1>7
    <3> QED  BY SMT, <3>1
  <2>2. one' \in [Sides -> Procs \cup {none}]
    BY SMTT(30), <1>1, <1>3 DEF Locks
  <2>3. call' \in [Users -> CallNames \cup {none}]
    BY <1>1, <1>3
  <2> QED  BY <1>2, <1>3, <2>1, <2>2, <2>3 DEF FlowInv, FlowTypes
<1>10. Mutex'
  BY <1>3, <1>5, MutexStep
<1>11. NotStarted'
  BY SMT, <1>2, <1>3 DEF NotStarted, FlowInv, Threads, Procs
<1>12. HeadStays'
  <2> SUFFICES ASSUME NEW r \in Procs, pc'[r] \in {"o_check", "o_use", "o_pop"}
               PROVE  q'[at'[r]] # <<>>
    BY DEF HeadStays
  <2>1. r # p /\ pc[r] = pc'[r] /\ at'[r] = at[r] /\ at[r] # s
    BY SMT, <1>2, <1>3, <1>4 DEF Holding
  <2>2. q[at[r]] # <<>> /\ at[r] \in Sides
    BY <2>1 DEF FlowInv, HeadStays, FlowTypes
  <2> QED  BY <1>1, <1>2, <2>1, <2>2
<1>13. BegunBefore'
  <2> SUFFICES ASSUME paused', NEW r \in Procs, pc'[r] = "o_use", HeedsPause(r)'
               PROVE  begun'[at'[r]] >= 1
    BY DEF BegunBefore
  <2>1. r # p
    BY SMT, <1>3
  <2>2. pc[r] = "o_use" /\ HeedsPause(r)
    BY <1>3, <1>5, <2>1, OthersUse
  <2> QED  BY <1>2, <2>2 DEF FlowInv, BegunBefore
<1> QED  BY <1>8, <1>9, <1>10, <1>11, <1>12, <1>13 DEF FlowInv

\* while others are added.
LEMMA PushStep ==
  ASSUME FlowInv, NEW p \in Procs, NEW s \in Sides, NEW l \in Locations \ Holding,
         pc[p] \notin Holding \cup {"off"}, l # "off",
         pc' = [pc EXCEPT ![p] = l],
         call' = call \/ (p \in Users /\ call' = [call EXCEPT ![p] = none]),
         taken' = [taken EXCEPT ![s] = @ + 1],
         q' = [q EXCEPT ![s] = Append(@, taken'[s])],
         UNCHANGED <<out, begun, paused, one, at, joinable, died>>
  PROVE  FlowInv'
<1>1. /\ pc \in [Procs -> Locations] /\ call \in [Users -> CallNames \cup {none}]
      /\ out \in [Sides -> Seq(Nat)] /\ q \in [Sides -> Seq(Nat)] /\ taken \in [Sides -> Nat]
  BY DEF FlowInv, FlowTypes
<1>2. /\ pc' \in [Procs -> Locations] /\ pc'[p] = l
      /\ \A r \in Procs \ {p} : pc'[r] = pc[r]
  BY SMTT(30), <1>1
<1>3. Others(p) /\ Locks(p)
  BY SMT, <1>1, <1>2 DEF Others, Locks
<1>4. ASSUME NEW x \in Sides PROVE Using(x)' <=> Using(x)
  <2>1. pc[p] # "o_pop" /\ pc'[p] # "o_pop"
    BY SMT, <1>2, HoldingLocs
  <2> QED  BY <1>3, <2>1, UsingStays
<1>5. /\ taken'[s] = taken[s] + 1 /\ q'[s] = Append(q[s], taken[s] + 1)
      /\ \A x \in Sides \ {s} : taken'[x] = taken[x] /\ q'[x] = q[x]
  BY <1>1
<1>6. Append(q[s], taken[s] + 1) \in Seq(Nat) /\ InOrder(s)'
  <2> DEFINE k == IF Using(s) THEN 1 ELSE 0
  <2>1. k \in {0, 1}
    BY SMT
  <2>2. Ordered(out[s], q[s], taken[s], k)
    BY DEF FlowInv, InOrder
  <2>3. (IF Using(s)' THEN 1 ELSE 0) = k
    BY <1>4
  <2> HIDE DEF k
  <2>4. out[s] \in Seq(Nat) /\ q[s] \in Seq(Nat) /\ taken[s] \in Nat
    BY <1>1
  <2>5. /\ Append(q[s], taken[s] + 1) \in Seq(Nat)
        /\ Ordered(out[s], Append(q[s], taken[s] + 1), taken[s] + 1, k)
    BY ZenonT(40), <2>1, <2>2, <2>4, OrderedPush
  <2> QED  BY <1>5, <2>3, <2>5 DEF InOrder
<1>7. ASSUME NEW x \in Sides PROVE InOrder(x)'
  <2>1. CASE x # s
    BY <1>4, <1>5, <2>1, OrderStays
  <2> QED  BY <1>6, <2>1
<1>8. FlowTypes'
  <2>1. q' \in [Sides -> Seq(Nat)]
    <3>1. q' = [q EXCEPT ![s] = Append(q[s], taken[s] + 1)]
      BY <1>1, <1>5
    <3> QED  BY SMT, <1>1, <1>6, <3>1
  <2>2. taken' \in [Sides -> Nat]
    <3>1. taken[s] + 1 \in Nat
      BY SMT, <1>1
    <3> QED  BY SMTT(30), <1>1, <3>1
  <2>3. call' \in [Users -> CallNames \cup {none}]
    BY <1>1
  <2> QED  BY <1>2, <2>1, <2>2, <2>3 DEF FlowInv, FlowTypes
<1>9. Mutex'
  BY <1>3, MutexStep
<1>10. NotStarted'
  BY SMT, <1>2 DEF NotStarted, FlowInv, Threads, Procs
<1>11. HeadStays'
  <2> SUFFICES ASSUME NEW r \in Procs, pc'[r] \in {"o_check", "o_use", "o_pop"}
               PROVE  q'[at[r]] # <<>>
    BY DEF HeadStays
  <2>1. pc[r] = pc'[r]
    BY SMT, <1>2 DEF Holding
  <2>2. q[at[r]] # <<>> /\ at[r] \in Sides
    BY <2>1 DEF FlowInv, HeadStays, FlowTypes
  <2>3. Append(q[s], taken[s] + 1) # <<>>
    BY SMT, <1>1
  <2> QED  BY <1>5, <2>2, <2>3
<1>12. BegunBefore'
  <2> SUFFICES ASSUME paused', NEW r \in Procs, pc'[r] = "o_use", HeedsPause(r)'
               PROVE  begun'[at'[r]] >= 1
    BY DEF BegunBefore
  <2>1. r # p
    BY SMT, <1>2, HoldingLocs
  <2>2. pc[r] = "o_use" /\ HeedsPause(r)
    BY <1>2, <1>3, <2>1, OthersUse
  <2> QED  BY <2>2 DEF FlowInv, BegunBefore
<1> QED  BY <1>7, <1>8, <1>9, <1>10, <1>11, <1>12 DEF FlowInv

LEMMA PushSteps ==
  ASSUME FlowInv, NEW p \in Procs, (p \in Users /\ PushIfRoom(p)) \/ (p = "R" /\ RPush)
  PROVE  FlowInv'
<1>1. pc \in [Procs -> Locations]
  BY DEF FlowInv, FlowTypes
<1>2. /\ "send" \in Sides /\ "recv" \in Sides
      /\ {"idle", "r_check"} \subseteq Locations \ Holding
      /\ {"p_push", "r_push"} \cap (Holding \cup {"off"}) = {}
      /\ "idle" # "off" /\ "r_check" # "off"
  BY SMT DEF Sides, Locations, Holding
<1>3. CASE p \in Users /\ PushIfRoom(p)
  <2>1. CASE hasFreeSpace("send")
    BY SMTT(30), <1>2, <1>3, <2>1, PushStep DEF PushIfRoom, Return, threads
  <2>2. CASE ~hasFreeSpace("send")
    BY SMTT(30), <1>1, <1>3, <2>2, PlainStep DEF PushIfRoom, Return, Plain, Locks, Holding, Locations,
       threads
  <2> QED  BY <2>1, <2>2
<1>4. CASE p = "R" /\ RPush
  <2>1. CASE hasFreeSpace("recv")
    BY <1>2, <1>4, <2>1, PushStep DEF RPush, threads, locals
  <2>2. CASE ~hasFreeSpace("recv")
    BY SMT, <1>1, <1>4, <2>2, PlainStep DEF RPush, Plain, Locks, Holding, Locations, threads, locals
  <2> QED  BY <2>1, <2>2
<1> QED  BY <1>3, <1>4

\* pause() counts the message that is being used.
LEMMA PauseStep ==
  ASSUME FlowInv, NEW u \in Users, Pause(u)
  PROVE  FlowInv' /\ PauseHolds'
<1>1. /\ pc \in [Procs -> Locations] /\ call \in [Users -> CallNames \cup {none}]
      /\ at \in [Procs -> Sides] /\ u \in Procs
  BY DEF FlowInv, FlowTypes, Procs
<1>2. /\ pc[u] = "pause" /\ paused' = TRUE
      /\ begun' = [s \in Sides |->
           IF \E p \in Procs : at[p] = s /\ pc[p] = "o_use" /\ HeedsPause(p) THEN 1 ELSE 0]
      /\ pc' = [pc EXCEPT ![u] = "idle"] /\ call' = [call EXCEPT ![u] = none]
      /\ UNCHANGED <<q, out, taken, one, at, joinable, died>>
  BY DEF Pause, Return, queues, threads
<1>3. /\ pc' \in [Procs -> Locations] /\ pc'[u] = "idle"
      /\ \A r \in Procs \ {u} : pc'[r] = pc[r]
  BY SMTT(30), <1>1, <1>2 DEF Locations
<1>4. Others(u) /\ Locks(u)
  BY SMT, <1>1, <1>2, <1>3 DEF Others, Locks, Holding
<1>5. begun' \in [Sides -> Int] /\ \A s \in Sides : begun'[s] >= 0
  BY SMT, <1>2
<1>6. FlowTypes'
  <2>1. call' \in [Users -> CallNames \cup {none}]
    BY SMT, <1>1, <1>2
  <2> QED  BY <1>2, <1>3, <1>5, <2>1 DEF FlowInv, FlowTypes
<1>7. Mutex'
  BY <1>1, <1>4, MutexStep
<1>8. NotStarted'
  BY SMTT(30), <1>2, <1>3, UsersApart DEF NotStarted, FlowInv, Procs
<1>9. HeadStays'
  BY SMT, <1>2, <1>3 DEF HeadStays, FlowInv
<1>10. ASSUME NEW x \in Sides PROVE InOrder(x)'
  <2>1. pc[u] # "o_pop" /\ pc'[u] # "o_pop"
    BY SMT, <1>2, <1>3
  <2>2. Using(x)' <=> Using(x)
    BY <1>1, <1>4, <2>1, UsingStays
  <2> QED  BY <1>2, <2>2, OrderStays
<1>11. BegunBefore'
  <2> SUFFICES ASSUME NEW r \in Procs, pc'[r] = "o_use", HeedsPause(r)'
               PROVE  begun'[at'[r]] >= 1
    BY DEF BegunBefore
  <2>1. r # u
    BY SMT, <1>3
  <2>2. pc[r] = "o_use" /\ HeedsPause(r) /\ at'[r] = at[r] /\ at[r] \in Sides
    BY <1>1, <1>3, <1>4, <2>1, OthersUse
  <2>3. begun'[at[r]] = 1
    BY <1>2, <2>2
  <2> QED  BY SMT, <2>2, <2>3
<1>12. PauseHolds'
  BY <1>5 DEF PauseHolds
<1> QED  BY <1>6, <1>7, <1>8, <1>9, <1>10, <1>11, <1>12 DEF FlowInv

\* No other step counts a message or pauses.
LEMMA CountStays ==
  ASSUME \/ \E u \in Users, c \in CallNames : Begin(u, c)
         \/ \E u \in Users : CallStep(u) /\ ~Pause(u)
         \/ \E p \in Procs : (WorkStep(p) /\ ~OUse(p)) \/ WakeUp(p)
         \/ SHalted \/ RecvStep
  PROVE  begun' = begun /\ (paused' = paused \/ paused' = FALSE)
<1>1. ASSUME NEW u \in Users, NEW c \in CallNames, Begin(u, c)
      PROVE  begun' = begun /\ paused' = paused
  BY <1>1 DEF Begin, history
<1>2. ASSUME NEW u \in Users,
             \/ PubSpawn(u) \/ PushIfRoom(u) \/ FDisable(u) \/ FLock(u) \/ FBack(u)
             \/ FEnable(u) \/ FUnlock(u) \/ QResize(u)
      PROVE  begun' = begun /\ paused' = paused
  BY <1>2 DEF PubSpawn, PushIfRoom, FDisable, FLock, FBack, FEnable, FUnlock, QResize,
     history
<1>3. ASSUME NEW u \in Users,
             \/ Resume(u) \/ StartOrRun(u) \/ RunEnd(u) \/ Stop(u) \/ StopJoin(u)
             \/ StopSend(u) \/ StopJoinSend(u) \/ StopTry(u) \/ StopTrySend(u) \/ StopEnd(u)
             \/ Handle(u) \/ HandleLock(u)
      PROVE  begun' = begun /\ (paused' = paused \/ paused' = FALSE)
  BY <1>3 DEF Resume, StartOrRun, RunEnd, Stop, StopJoin, StopSend, StopJoinSend,
     StopTry, StopTrySend, StopEnd, Handle, HandleLock, history
<1>4. ASSUME NEW p \in Procs, (WorkStep(p) /\ ~OUse(p)) \/ WakeUp(p)
      PROVE  begun' = begun /\ paused' = paused
  BY <1>4 DEF WorkStep, WCheck, WSleep, WLock, OTop, OCheck, OPop, HSpawn, HHalt, HJoin,
     HHalted, WakeUp, history
<1>5. ASSUME SHalted \/ RecvStep PROVE begun' = begun /\ paused' = paused
  BY <1>5 DEF SHalted, RecvStep, RCheck, RRecv, RPush, RHalted, history
<1> QED  BY <1>1, <1>2, <1>3, <1>4, <1>5 DEF CallStep

-----------------------------------------------------------------------------
(* The queues *)

LEMMA FlowInit == Init => FlowOrDied
<1> SUFFICES ASSUME Init PROVE PauseHolds /\ FlowInv
  BY DEF FlowOrDied
<1>1. FlowTypes
  <2>1. pc \in [Procs -> Locations] /\ at \in [Procs -> Sides]
    BY SMT DEF Init, Locations, Sides
  <2>2. <<>> \in Seq(Nat) /\ 0 \in Nat /\ 0 \in Int
    BY SMT
  <2>3. /\ q \in [Sides -> Seq(Nat)] /\ out \in [Sides -> Seq(Nat)]
        /\ taken \in [Sides -> Nat] /\ begun \in [Sides -> Int]
    BY <2>2 DEF Init
  <2>4. /\ one \in [Sides -> Procs \cup {none}] /\ call \in [Users -> CallNames \cup {none}]
        /\ joinable \in [Threads -> BOOLEAN] /\ died \in BOOLEAN /\ paused \in BOOLEAN
    BY DEF Init
  <2> QED  BY <2>1, <2>3, <2>4 DEF FlowTypes
<1>2. pc = [p \in Procs |-> IF p \in Users THEN "idle" ELSE "off"] /\ ~paused
  BY DEF Init
<1>3. \A p \in Procs : pc[p] \notin Holding
  BY SMT, <1>2 DEF Holding
<1>4. Mutex /\ HeadStays /\ BegunBefore /\ PauseHolds /\ \A s \in Sides : ~Using(s)
  <2>1. Mutex /\ HeadStays
    BY SMT, <1>3 DEF Mutex, HeadStays, Holding
  <2>2. BegunBefore /\ PauseHolds
    BY <1>2 DEF BegunBefore, PauseHolds
  <2>3. \A s \in Sides : ~Using(s)
    BY <1>3, HoldingLocs DEF Using
  <2> QED  BY <2>1, <2>2, <2>3
<1>5. NotStarted
  BY SMT, <1>2, UsersApart DEF NotStarted, Procs
<1>6. ASSUME NEW s \in Sides PROVE InOrder(s)
  <2>1. out[s] = <<>> /\ q[s] = <<>> /\ taken[s] = 0
    BY DEF Init
  <2>2. Ordered(<<>>, <<>>, 0, 0)
    BY SMT DEF Ordered
  <2> QED  BY <1>4, <2>1, <2>2 DEF InOrder
<1> QED  BY <1>1, <1>4, <1>5, <1>6 DEF FlowInv

\* The invariant speaks of no other variable.
LEMMA QuietVars ==
  ASSUME FlowInv, UNCHANGED vars
  PROVE  FlowInv'
<1>1. UNCHANGED <<pc, at, one, call, joinable, died, paused, q, out, taken, begun>>
  BY DEF vars, queues, threads, locals, history
<1>2. \A p \in Procs : HeedsPause(p)' <=> HeedsPause(p)
  BY <1>1 DEF HeedsPause, IsWorker, IsFlush
<1>3. FlowTypes' /\ Mutex' /\ NotStarted' /\ HeadStays'
  BY <1>1 DEF FlowInv, FlowTypes, Mutex, NotStarted, HeadStays
<1>4. BegunBefore'
  BY <1>1, <1>2 DEF FlowInv, BegunBefore
<1>5. ASSUME NEW s \in Sides PROVE InOrder(s)'
  <2>1. Using(s)' <=> Using(s)
    BY <1>1 DEF Using
  <2> QED  BY <1>1, <2>1, OrderStays
<1> QED  BY <1>3, <1>4, <1>5 DEF FlowInv

\* One step of Next while the program lives.
LEMMA FlowNext ==
  ASSUME FlowInv, PauseHolds, Next, ~died'
  PROVE  FlowInv' /\ PauseHolds'
<1>1. CASE \E u \in Users : Pause(u)
  BY <1>1, PauseStep
<1>2. CASE \E p \in Procs : OUse(p)
  BY <1>2, UseStep
<1>3. CASE ~(\E u \in Users : Pause(u)) /\ ~(\E p \in Procs : OUse(p))
  <2>1. begun' = begun /\ (paused' = paused \/ paused' = FALSE)
    BY <1>3, CountStays DEF Next
  <2>2. PauseHolds'
    BY <2>1 DEF PauseHolds
  <2>3. "S" \in Procs /\ "R" \in Procs /\ \A u \in Users : u \in Procs
    BY SMT DEF Procs, Threads
  <2>4. ASSUME NEW u \in Users, NEW c \in CallNames, Begin(u, c) PROVE FlowInv'
    BY <2>4, BeginStep
  <2>5. ASSUME NEW u \in Users, CallStep(u) PROVE FlowInv'
    <3>1. CASE FDisable(u) \/ FLock(u) \/ FBack(u) \/ FEnable(u) \/ FUnlock(u) \/ QResize(u)
      BY <3>1, FlushSteps
    <3>2. CASE PubSpawn(u) \/ StartOrRun(u) \/ Handle(u)
      BY <2>3, <3>2, SpawnSteps
    <3>3. CASE StopJoin(u) \/ StopJoinSend(u) \/ StopTry(u) \/ StopTrySend(u)
      BY <2>3, <3>3, JoinSteps
    <3>4. CASE Stop(u) \/ StopSend(u) \/ StopEnd(u) \/ RunEnd(u) \/ Resume(u) \/ HandleLock(u)
      BY <3>4, StopSteps
    <3>5. CASE PushIfRoom(u)
      BY <2>3, <3>5, PushSteps
    <3> QED  BY <1>3, <2>5, <3>1, <3>2, <3>3, <3>4, <3>5 DEF CallStep
  <2>6. ASSUME NEW p \in Procs, WorkStep(p) \/ WakeUp(p) PROVE FlowInv'
    <3>1. CASE WCheck(p) \/ WSleep(p) \/ WakeUp(p) \/ WLock(p)
      BY <3>1, WaitSteps
    <3>2. CASE OTop(p) \/ OCheck(p)
      BY <3>2, LookSteps
    <3>3. CASE OPop(p)
      BY <3>3, PopStep
    <3>4. CASE HHalt(p) \/ HHalted(p)
      BY <3>4, EndSteps
    <3>5. CASE HSpawn(p)
      BY <3>5, SpawnSteps
    <3>6. CASE HJoin(p)
      BY <3>6, JoinSteps
    <3> QED  BY <1>3, <2>6, <3>1, <3>2, <3>3, <3>4, <3>5, <3>6 DEF WorkStep
  <2>7. ASSUME SHalted PROVE FlowInv'
    BY SMT, <2>3, <2>7, EndSteps
  <2>8. ASSUME RecvStep PROVE FlowInv'
    <3>1. CASE RCheck \/ RRecv \/ RHalted
      BY SMT, <2>3, <3>1, EndSteps
    <3>2. CASE RPush
      BY SMT, <2>3, <3>2, PushSteps
    <3> QED  BY <2>8, <3>1, <3>2 DEF RecvStep
  <2> QED  BY <2>2, <2>4, <2>5, <2>6, <2>7, <2>8 DEF Next
<1> QED  BY <1>1, <1>2, <1>3

\* In every program, as long as std::terminate() was not called: the mutex of a
\* side is held by one thread that uses its queue, the head of the queue stays
\* while it is used, and what was taken is out or queued, in order.
THEOREM QueuesInvariant == Spec => []FlowOrDied
<1>1. FlowOrDied /\ [Next]_vars => FlowOrDied'
  <2> SUFFICES ASSUME FlowOrDied, [Next]_vars PROVE FlowOrDied'
    BY SMT
  <2>1. CASE UNCHANGED vars
    <3>1. FlowInv => FlowInv'
      BY <2>1, QuietVars
    <3> QED  BY <2>1, <3>1 DEF FlowOrDied, PauseHolds, vars, threads, history
  <2>2. CASE Next
    <3>1. ~died /\ FlowInv /\ PauseHolds
      BY <2>2 DEF Next, Alive, FlowOrDied
    <3>2. CASE ~died'
      BY <2>2, <3>1, <3>2, FlowNext DEF FlowOrDied
    <3>3. CASE died'
      <4>1. PauseHolds'
        <5>1. CASE (\E u \in Users : Pause(u)) \/ (\E p \in Procs : OUse(p))
          BY <3>1, <5>1, PauseStep, UseStep
        <5>2. CASE ~((\E u \in Users : Pause(u)) \/ (\E p \in Procs : OUse(p)))
          BY <2>2, <3>1, <5>2, CountStays DEF Next, PauseHolds
        <5> QED  BY <5>1, <5>2
      <4> QED  BY <3>3, <4>1 DEF FlowOrDied
    <3> QED  BY <3>2, <3>3
  <2> QED  BY <2>1, <2>2
<1> QED  BY <1>1, FlowInit, PTL DEF Spec

\* PauseHolds: after pause() the workers and handle() let no message through but
\* the one they had already begun to use.  In every program, and even at the
\* step that terminates it.
THEOREM PauseIsHeld == Spec => []PauseHolds
<1>1. FlowOrDied => PauseHolds
  BY DEF FlowOrDied
<1> QED  BY <1>1, QueuesInvariant, PTL

\* FifoDelivery: each message is sent or dispatched once, in order, and stays
\* queued until it is, in every program that is not terminated.
THEOREM FifoWhileAlive == Spec => [](NoTerminate => FifoDelivery)
<1>1. FlowOrDied => (NoTerminate => FifoDelivery)
  BY OrderIsFifo DEF FlowOrDied, NoTerminate
<1> QED  BY <1>1, QueuesInvariant, PTL

-----------------------------------------------------------------------------
(* Processes *)

\* Every process is a user or one of the three threads.
LEMMA ThreadNames ==
  /\ "S" \in Procs /\ "H" \in Procs /\ "R" \in Procs
  /\ \A u \in Users : u \in Procs /\ u # "S" /\ u # "H" /\ u # "R" /\ u # none
  /\ \A p \in Procs : p \in Users \/ p \in {"S", "H"} \/ p = "R"
BY SMT, UsersApart DEF Procs, Threads

-----------------------------------------------------------------------------
(* Steps that neither start nor end a thread. *)

\* A step of p in a call that is not stop(), in the loop of a worker, or in that
\* of the receive thread.
Calm(p) ==
  /\ UNCHANGED <<recvMode, modeLock, state, joinable, died, program>>
  /\ pc' \in [Procs -> Locations]
  /\ \A r \in Procs \ {p} :
       pc'[r] = pc[r] \/ (pc[r] = "w_asleep" /\ pc'[r] = "w_check")
  /\ at' = at \/ (p \in Users /\ \E s \in Sides : at' = [at EXCEPT ![p] = s])
  /\ \/ call' = call
     \/ p \in Users /\ \E c \in (CallNames \ {"run", "try_stop"}) \cup {none} :
                         call' = [call EXCEPT ![p] = c]
  /\ p \in Users =>
       /\ pc[p] \notin Stopping /\ pc'[p] \notin Stopping \cup NeverUser
       /\ pc'[p] = "stop" => call'[p] = "stop"
  /\ p \in {"S", "H"} =>
       /\ pc[p] \in WorkLocs /\ pc'[p] \in WorkLocs
       /\ pc'[p] = "w_exit" => state[IF p = "S" THEN "send" ELSE "hndl"] = "halting"
  /\ p = "R" =>
       /\ pc[p] \in RecvLocs /\ pc'[p] \in RecvLocs
       /\ pc'[p] = "r_exit" => state["recv"] = "halting"

LEMMA CalmStep ==
  ASSUME ThreadInv, NEW p \in Procs, Calm(p)
  PROVE  ThreadInv'
<1>1. /\ pc \in [Procs -> Locations] /\ at \in [Procs -> Sides]
      /\ call \in [Users -> CallNames \cup {none}]
  BY DEF ThreadInv, ThreadTypes
<1>2. ThreadTypes'
  <2>1. at' \in [Procs -> Sides]
    BY SMTT(30), <1>1 DEF Calm
  <2>2. call' \in [Users -> CallNames \cup {none}]
    BY SMTT(30), <1>1 DEF Calm
  <2> QED  BY <2>1, <2>2 DEF Calm, ThreadInv, ThreadTypes
<1>3. /\ \/ pc'["S"] = pc["S"]
         \/ /\ pc["S"] \in WorkLocs /\ pc'["S"] \in WorkLocs
            /\ pc'["S"] = "w_exit" => state["send"] = "halting"
      /\ \/ pc'["H"] = pc["H"]
         \/ /\ pc["H"] \in WorkLocs /\ pc'["H"] \in WorkLocs
            /\ pc'["H"] = "w_exit" => state["hndl"] = "halting"
      /\ \/ pc'["R"] = pc["R"]
         \/ /\ pc["R"] \in RecvLocs /\ pc'["R"] \in RecvLocs
            /\ pc'["R"] = "r_exit" => state["recv"] = "halting"
  BY SMTT(30), ThreadNames DEF Calm, WorkLocs, RecvLocs, ThreadInv, Places
<1>4. at'["S"] = at["S"] /\ at'["H"] = at["H"]
  BY SMTT(30), <1>1, ThreadNames DEF Calm
<1>5. Places'
  BY SMT, <1>3, <1>4 DEF Places, ThreadInv
<1>6. /\ "off" \notin WorkLocs /\ "off" \notin RecvLocs
      /\ \A l \in WorkLocs : l \in Leaving => l = "w_exit"
      /\ \A l \in RecvLocs : l \in Leaving => l = "r_exit"
  BY SMT DEF WorkLocs, RecvLocs, Leaving
<1>7. Lives("send", "S")'
  BY <1>3, <1>6 DEF Lives, ThreadInv, Calm
<1>8. Lives("hndl", "H")' /\ (Lives("recv", "R") => Lives("recv", "R")')
  BY <1>3, <1>6 DEF Lives, ThreadInv, Calm, RecvLife
<1>9. RecvLife'
  <2>1. IF pc["H"] \in WorkLocs \cup {"h_join"} THEN pc'["H"] \in WorkLocs \cup {"h_join"}
        ELSE pc'["H"] \notin WorkLocs \cup {"h_join"}
    BY SMT, <1>3
  <2>2. pc["R"] = "off" => pc'["R"] = "off"
    BY <1>3, <1>6
  <2> QED  BY <1>8, <2>1, <2>2 DEF RecvLife, ThreadInv, Calm
<1>10. pc["R"] = "off" => pc'["R"] = "off"
  BY <1>3, <1>6
<1>11. pc["H"] = "off" => pc'["H"] = "off"
  BY <1>3, <1>6
<1>12. IdleMeansJoined'
  BY SMT, <1>10, <1>11 DEF IdleMeansJoined, ThreadInv, Calm
<1>13. ASSUME NEW u \in Users PROVE Stage(u)'
  <2>1. Stage(u) /\ pc[u] # "w_asleep"
    BY SMTT(30) DEF ThreadInv, Stage, NeverUser, WorkLocs, Holding
  <2>2. /\ StopState' = StopState
        /\ \A t \in {"R", "H"} : pc[t] = "off" /\ ~joinable[t] => pc'[t] = "off" /\ ~joinable'[t]
    BY SMT, <1>10, <1>11 DEF StopState, Calm
  <2>3. CASE u # p
    <3>1. pc'[u] = pc[u] /\ call'[u] = call[u]
      BY SMTT(30), <1>1, <2>1, <2>3, ThreadNames DEF Calm
    <3> QED  BY <2>1, <2>2, <3>1 DEF Stage, Calm
  <2>4. CASE u = p
    <3>1. /\ pc[u] \notin Stopping /\ pc'[u] \notin Stopping /\ pc'[u] \notin NeverUser
          /\ pc'[u] = "stop" => call'[u] = "stop"
      BY SMTT(30), <2>4 DEF Calm
    <3>2. call'[u] \notin {"run", "try_stop"}
      BY SMT, <1>1, <2>1, <2>4 DEF Calm, Stage, none
    <3>3. modeLock' # u
      BY <2>1, <3>1 DEF Stage, Calm
    <3> QED  BY SMTT(30), <3>1, <3>2, <3>3 DEF Stage, Stopping
  <2> QED  BY <2>3, <2>4
<1> QED  BY <1>2, <1>5, <1>7, <1>9, <1>12, <1>13 DEF ThreadInv, Calm

\* A user goes on to l, and wakes others up or not.
LEMMA UserMove ==
  ASSUME ThreadInv, NEW u \in Users, NEW f \in [Procs -> Locations], NEW l \in Locations,
         l \notin Stopping \cup NeverUser \cup {"stop"}, pc[u] \notin Stopping,
         \A r \in Procs : f[r] = pc[r] \/ (pc[r] = "w_asleep" /\ f[r] = "w_check"),
         pc' = [f EXCEPT ![u] = l],
         UNCHANGED <<recvMode, modeLock, state, joinable, died, program>>,
         at' = at \/ \E s \in Sides : at' = [at EXCEPT ![u] = s],
         call' = call \/ call' = [call EXCEPT ![u] = none]
  PROVE  ThreadInv'
<1>1. /\ pc' \in [Procs -> Locations] /\ pc'[u] = l
      /\ \A r \in Procs \ {u} : pc'[r] = f[r]
  BY SMT, ThreadNames
<1>2. u \in Procs /\ u \notin {"S", "H"} /\ u # "R"
  BY SMT, ThreadNames
<1>3. Calm(u)
  BY <1>1, <1>2 DEF Calm
<1> QED  BY <1>2, <1>3, CalmStep

LEMMA UserMoveOnly ==
  ASSUME ThreadInv, NEW u \in Users, NEW l \in Locations,
         l \notin Stopping \cup NeverUser \cup {"stop"}, pc[u] \notin Stopping,
         pc' = [pc EXCEPT ![u] = l],
         UNCHANGED <<recvMode, modeLock, state, joinable, died, program>>,
         at' = at \/ \E s \in Sides : at' = [at EXCEPT ![u] = s],
         call' = call \/ call' = [call EXCEPT ![u] = none]
  PROVE  ThreadInv'
<1>1. pc \in [Procs -> Locations]
  BY DEF ThreadInv, ThreadTypes
<1> QED  BY <1>1, UserMove

\* A worker goes on to l.
LEMMA WorkMove ==
  ASSUME ThreadInv, NEW p \in {"S", "H"}, NEW l \in WorkLocs, pc[p] \in WorkLocs,
         l = "w_exit" => state[IF p = "S" THEN "send" ELSE "hndl"] = "halting",
         pc' = [pc EXCEPT ![p] = l],
         UNCHANGED <<recvMode, modeLock, state, joinable, died, program, at, call>>
  PROVE  ThreadInv'
<1>1. pc \in [Procs -> Locations] /\ p \in Procs /\ p \notin Users /\ p # "R"
  BY SMT, ThreadNames DEF ThreadInv, ThreadTypes
<1>2. l \in Locations
  BY SMT DEF WorkLocs, Locations
<1>3. /\ pc' \in [Procs -> Locations] /\ pc'[p] = l
      /\ \A r \in Procs \ {p} : pc'[r] = pc[r]
  BY SMT, <1>1, <1>2
<1>4. Calm(p)
  BY <1>1, <1>3 DEF Calm
<1> QED  BY <1>1, <1>4, CalmStep

\* Who waits on a pause condition or starts and ends R is a worker.
LEMMA IsThread ==
  ASSUME ThreadInv, NEW p \in Procs
  PROVE  /\ pc[p] \in {"w_check", "w_sleepy", "w_asleep", "w_lock", "w_exit"} =>
              p \in {"S", "H"}
         /\ pc[p] \in {"h_spawn", "h_join", "h_halted"} => p = "H"
         /\ pc[p] \in {"o_top", "o_check", "o_use", "o_pop"} => p \in Users \cup {"S", "H"}
         /\ p = "S" => StateOf(at[p]) = "send"
         /\ p = "H" => StateOf(at[p]) = "hndl"
<1>1. p \in Users => pc[p] \notin NeverUser
  BY DEF ThreadInv, Stage
<1>2. Places
  BY DEF ThreadInv
<1> QED  BY SMT, <1>1, <1>2, ThreadNames DEF NeverUser, WorkLocs, RecvLocs, Holding, Places, StateOf

\* The steps of a worker's loop.
LEMMA LoopSteps ==
  ASSUME ThreadInv, NEW p \in Procs, WCheck(p) \/ WSleep(p) \/ WakeUp(p) \/ WLock(p)
  PROVE  ThreadInv'
<1>1. p \in {"S", "H"}
  BY SMT, IsThread DEF WCheck, WSleep, WakeUp, WLock
<1>2. UNCHANGED <<recvMode, modeLock, state, joinable, died, program, at, call>>
  BY DEF WCheck, WSleep, WakeUp, WLock, threads, locals, client
<1>3. PICK l \in WorkLocs :
        /\ pc' = [pc EXCEPT ![p] = l] /\ pc[p] \in WorkLocs
        /\ l = "w_exit" => state[StateOf(at[p])] = "halting"
  BY SMT DEF WCheck, WSleep, WakeUp, WLock, WorkLocs
<1>4. StateOf(at[p]) = IF p = "S" THEN "send" ELSE "hndl"
  BY SMT, <1>1, IsThread
<1> QED  BY <1>1, <1>2, <1>3, <1>4, WorkMove

\* sendOneMessage() and dispatchOneMessage(), whoever calls them.
LEMMA OneSteps ==
  ASSUME ThreadInv, NEW p \in Procs, OTop(p) \/ OCheck(p) \/ OUse(p) \/ OPop(p)
  PROVE  ThreadInv'
<1>1. /\ UNCHANGED <<recvMode, modeLock, state, joinable, died, program, at>>
      /\ pc[p] \in {"o_top", "o_check", "o_use", "o_pop"}
  BY DEF OTop, OCheck, OUse, OPop, threads, locals, client
<1>2. \/ OneDone(p, TRUE) \/ OneDone(p, FALSE)
      \/ \E l \in {"o_check", "o_use", "o_pop"} : pc' = [pc EXCEPT ![p] = l] /\ call' = call
  BY DEF OTop, OCheck, OUse, OPop, locals
<1>3. CASE p \in {"S", "H"}
  <2>1. IsWorker(p)
    BY SMTT(30), <1>3 DEF IsWorker, Threads
  <2>2. PICK l \in {"w_check", "o_check", "o_use", "o_pop"} :
          pc' = [pc EXCEPT ![p] = l] /\ call' = call
    BY SMT, <1>2, <2>1 DEF OneDone
  <2>3. l \in WorkLocs /\ l # "w_exit" /\ pc[p] \in WorkLocs
    BY SMT, <1>1, <2>2 DEF WorkLocs
  <2> QED  BY <1>1, <1>3, <2>2, <2>3, WorkMove
<1>4. CASE p \in Users
  <2>1. ~IsWorker(p)
    BY SMTT(30), <1>4, UsersApart DEF IsWorker, ThreadInv, Stage
  <2>2. PICK l \in {"o_check", "o_use", "o_pop", "o_top", "f_unlock", "idle"} :
          /\ pc' = [pc EXCEPT ![p] = l]
          /\ call' = call \/ call' = [call EXCEPT ![p] = none]
    BY SMT, <1>2, <2>1 DEF OneDone, Return
  <2>3. /\ l \in Locations /\ l \notin Stopping \cup NeverUser \cup {"stop"}
        /\ pc[p] \notin Stopping
    BY SMT, <1>1, <2>2 DEF Locations, Stopping, NeverUser, WorkLocs, RecvLocs, Holding
  <2> QED  BY <1>1, <1>4, <2>2, <2>3, UserMoveOnly
<1> QED  BY <1>1, <1>3, <1>4, IsThread

\* The receive thread's loop.
LEMMA RecvSteps ==
  ASSUME ThreadInv, RCheck \/ RRecv \/ RPush
  PROVE  ThreadInv'
<1>1. pc \in [Procs -> Locations]
  BY DEF ThreadInv, ThreadTypes
<1>2. PICK l \in RecvLocs :
        /\ pc' = [pc EXCEPT !["R"] = l] /\ pc["R"] \in RecvLocs
        /\ l = "r_exit" => state["recv"] = "halting"
  BY SMT DEF RCheck, RRecv, RPush, RecvLocs
<1>3. UNCHANGED <<recvMode, modeLock, state, joinable, died, program, at, call>>
  BY DEF RCheck, RRecv, RPush, threads, locals, client
<1>4. l \in Locations
  BY SMT DEF RecvLocs, Locations
<1>5. /\ pc' \in [Procs -> Locations] /\ pc'["R"] = l
      /\ \A r \in Procs \ {"R"} : pc'[r] = pc[r]
  BY SMT, <1>1, <1>2, <1>4, ThreadNames
<1>6. "R" \notin Users /\ "R" \notin {"S", "H"} /\ "R" \in Procs
  BY SMT, ThreadNames
<1>7. Calm("R")
  BY <1>2, <1>3, <1>5, <1>6 DEF Calm
<1> QED  BY <1>6, <1>7, CalmStep

\* A call begins that is neither run() nor try_stop().
LEMMA BeginOrderly ==
  ASSUME Orderly, ThreadInv, NEW u \in Users, NEW c \in CallNames, Begin(u, c)
  PROVE  ThreadInv'
<1>1. pc \in [Procs -> Locations] /\ call \in [Users -> CallNames \cup {none}]
  BY DEF ThreadInv, ThreadTypes
<1>2. c \notin {"run", "try_stop"}
  BY SMT DEF Orderly, ThreadInv, ThreadTypes, Begin
<1> DEFINE l == CASE c \in {"flush", "try_flush", "set_size", "try_set_size"} -> "f_disable"
                  [] c \in {"stop", "try_stop"} -> "stop"
                  [] c \in {"handle", "handle_nonblock"} -> "handle"
                  [] OTHER -> c
<1>3. l \in Locations /\ l \notin Stopping \cup NeverUser /\ (l = "stop" => c = "stop")
  BY SMT, <1>2 DEF CallNames, Locations, Stopping, NeverUser, WorkLocs, RecvLocs, Holding
<1>4. pc' = [pc EXCEPT ![u] = l]
  BY DEF Begin
<1> HIDE DEF l
<1>5. u \in Procs /\ u \notin {"S", "H"} /\ u # "R"
  BY SMT, ThreadNames
<1>6. pc' \in [Procs -> Locations] /\ pc'[u] = l /\ \A r \in Procs \ {u} : pc'[r] = pc[r]
  BY SMT, <1>1, <1>3, <1>4, <1>5
<1>7. \E s \in Sides : at' = [at EXCEPT ![u] = s]
  BY DEF Begin, Sides
<1>8. call' = [call EXCEPT ![u] = c] /\ call'[u] = c
  BY <1>1 DEF Begin
<1>9. pc[u] \notin Stopping
  BY SMT DEF Begin, Stopping
<1>10. UNCHANGED <<recvMode, modeLock, state, joinable, died, program>>
  BY DEF Begin, threads
<1>11. Calm(u)
  BY <1>2, <1>3, <1>5, <1>6, <1>7, <1>8, <1>9, <1>10 DEF Calm
<1> QED  BY <1>5, <1>11, CalmStep

\* The steps of the other calls that start no thread.
LEMMA CallSteps ==
  ASSUME ThreadInv, NEW u \in Users,
         \/ PushIfRoom(u) \/ FDisable(u) \/ FLock(u) \/ FBack(u) \/ FEnable(u) \/ FUnlock(u)
         \/ QResize(u) \/ Pause(u) \/ Resume(u) \/ HandleLock(u)
  PROVE  ThreadInv'
<1>1. pc \in [Procs -> Locations]
  BY DEF ThreadInv, ThreadTypes
<1>2. UNCHANGED <<recvMode, modeLock, state, joinable, died, program>>
  BY DEF PushIfRoom, FDisable, FLock, FBack, FEnable, FUnlock, QResize, Pause, Resume,
     HandleLock, threads, locals, client
<1>3. pc[u] \in {"p_push", "f_disable", "f_lock", "f_enable", "f_unlock", "q_resize", "pause",
                 "resume", "h_lock"}
  BY DEF PushIfRoom, FDisable, FLock, FBack, FEnable, FUnlock, QResize, Pause, Resume,
     HandleLock
<1>4. /\ at' = at \/ \E s \in Sides : at' = [at EXCEPT ![u] = s]
      /\ call' = call \/ call' = [call EXCEPT ![u] = none]
  BY DEF PushIfRoom, FDisable, FLock, FBack, FEnable, FUnlock, QResize, Pause, Resume,
     HandleLock, NextSide, Return, locals, Sides
<1>5. PICK l \in {"idle", "f_disable", "f_lock", "f_enable", "q_resize", "f_unlock", "o_top"},
           f \in [Procs -> Locations] :
        /\ pc' = [f EXCEPT ![u] = l]
        /\ \A r \in Procs : f[r] = pc[r] \/ (pc[r] = "w_asleep" /\ f[r] = "w_check")
  <2>1. ASSUME NEW f \in {pc, WakePaused(pc, "send"), WakePaused(pc, "recv"),
                          WakePaused(pc, at[u])}
        PROVE  /\ f \in [Procs -> Locations]
               /\ \A r \in Procs : f[r] = pc[r] \/ (pc[r] = "w_asleep" /\ f[r] = "w_check")
    <3>1. CASE f = pc
      BY <1>1, <3>1
    <3>2. ASSUME NEW s, f = WakePaused(pc, s)
          PROVE  /\ f \in [Procs -> Locations]
                 /\ \A r \in Procs : f[r] = pc[r] \/ (pc[r] = "w_asleep" /\ f[r] = "w_check")
      BY ZenonT(40), <1>1, <3>2, WakeFacts
    <3> QED  BY <2>1, <3>1, <3>2
  <2>2. CASE PushIfRoom(u) \/ FDisable(u) \/ FLock(u) \/ FEnable(u)
    BY <2>1, <2>2 DEF PushIfRoom, FDisable, FLock, FEnable, NextSide, Return
  <2>3. CASE FBack(u)
    BY <2>1, <2>3 DEF FBack, Return
  <2>4. CASE FUnlock(u) \/ QResize(u)
    BY SMTT(30), <2>1, <2>4 DEF FUnlock, QResize, NextSide, Return
  <2>5. CASE Pause(u) \/ HandleLock(u)
    BY <2>1, <2>5 DEF Pause, HandleLock, Return
  <2>6. CASE Resume(u)
    <3> DEFINE f == WakePaused(pc, "send")  g == WakePaused(f, "recv")
    <3>1. /\ f \in [Procs -> Locations]
          /\ \A r \in Procs : f[r] = pc[r] \/ (pc[r] = "w_asleep" /\ f[r] = "w_check")
      BY SMT, <2>1
    <3>2. pc' = [g EXCEPT ![u] = "idle"]
      BY <2>6 DEF Resume, Return
    <3> HIDE DEF f
    <3>3. /\ g \in [Procs -> Locations]
          /\ \A r \in Procs : g[r] = f[r] \/ (f[r] = "w_asleep" /\ g[r] = "w_check")
      BY SMT, <3>1, WakeFacts
    <3> HIDE DEF g
    <3>4. \A r \in Procs : g[r] = pc[r] \/ (pc[r] = "w_asleep" /\ g[r] = "w_check")
      BY SMTT(30), <3>1, <3>3
    <3> QED  BY <3>2, <3>3, <3>4
  <2> QED  BY <2>2, <2>3, <2>4, <2>5, <2>6
<1>6. /\ l \in Locations /\ l \notin Stopping \cup NeverUser \cup {"stop"}
      /\ pc[u] \notin Stopping
  BY SMT, <1>3, <1>5 DEF Locations, Stopping, NeverUser, WorkLocs, RecvLocs, Holding
<1> QED  BY <1>2, <1>4, <1>5, <1>6, UserMove

-----------------------------------------------------------------------------
(* Steps that start or end a thread. *)

\* The send thread is started,
LEMMA PubSpawnStep ==
  ASSUME ThreadInv, NEW u \in Users, PubSpawn(u)
  PROVE  ThreadInv'
<1>1. /\ pc \in [Procs -> Locations] /\ joinable \in [Threads -> BOOLEAN]
      /\ state \in [{"send", "recv", "hndl"} -> {"stopped", "running", "halting", "halted"}]
      /\ ~died /\ Places /\ Lives("send", "S") /\ RecvLife /\ IdleMeansJoined
  BY DEF ThreadInv, ThreadTypes
<1>2. /\ pc[u] = "publish" /\ UNCHANGED <<recvMode, modeLock, program, at, call>>
  BY DEF PubSpawn, locals, client
<1>3. CASE state["send"] # "stopped"
  <2>1. /\ pc' = [pc EXCEPT ![u] = "p_push"] /\ UNCHANGED <<state, joinable, died>>
    BY <1>3 DEF PubSpawn
  <2>2. /\ "p_push" \in Locations /\ "p_push" \notin Stopping \cup NeverUser \cup {"stop"}
        /\ pc[u] \notin Stopping
    BY SMT, <1>2 DEF Locations, Stopping, NeverUser, WorkLocs, RecvLocs, Holding
  <2> QED  BY <1>2, <2>1, <2>2, UserMoveOnly
<1>4. CASE state["send"] = "stopped"
  <2>1. /\ state' = [state EXCEPT !["send"] = "running"]
        /\ joinable' = [joinable EXCEPT !["S"] = TRUE] /\ died' = (died \/ joinable["S"])
        /\ pc' = [[pc EXCEPT ![u] = "p_push"] EXCEPT !["S"] = "w_check"]
    BY <1>4 DEF PubSpawn, Spawn
  <2>2. /\ pc' \in [Procs -> Locations] /\ pc'["S"] = "w_check" /\ pc'[u] = "p_push"
        /\ \A r \in Procs \ {u, "S"} : pc'[r] = pc[r]
    BY SMT, <1>1, <2>1, ThreadNames DEF Locations
  <2>3. pc'["H"] = pc["H"] /\ pc'["R"] = pc["R"]
    BY SMT, <2>2, ThreadNames
  <2>4. /\ joinable' \in [Threads -> BOOLEAN] /\ joinable'["S"]
        /\ joinable'["H"] = joinable["H"] /\ joinable'["R"] = joinable["R"]
    BY SMT, <1>1, <2>1 DEF Threads
  <2>5. /\ state' \in [{"send", "recv", "hndl"} -> {"stopped", "running", "halting", "halted"}]
        /\ state'["send"] = "running" /\ state'["recv"] = state["recv"]
        /\ state'["hndl"] = state["hndl"]
    BY SMT, <1>1, <2>1
  <2>6. ThreadTypes'
    BY <1>2, <2>2, <2>4, <2>5 DEF ThreadInv, ThreadTypes
  <2>7. ~died'
    BY <1>1, <1>4, <2>1 DEF Lives
  <2>8. Places'
    BY SMTT(30), <1>1, <1>2, <2>2, <2>3 DEF Places, WorkLocs
  <2>9. Lives("send", "S")'
    BY SMT, <2>2, <2>4, <2>5 DEF Lives, Leaving
  <2>10. RecvLife'
    BY <1>1, <1>2, <2>3, <2>4, <2>5 DEF RecvLife, Lives
  <2>11. IdleMeansJoined'
    BY SMT, <1>1, <1>2, <2>3, <2>4 DEF IdleMeansJoined
  <2>12. ASSUME NEW v \in Users PROVE Stage(v)'
    <3>1. Stage(v) /\ StopState' = StopState /\ StopState \in {"recv", "hndl"}
      BY SMTT(30), <1>2 DEF ThreadInv, StopState
    <3>2. CASE v = u
      BY SMTT(30), <1>2, <2>2, <3>1, <3>2 DEF Stage, Stopping, NeverUser, WorkLocs, RecvLocs, Holding
    <3>3. CASE v # u
      <4>1. pc'[v] = pc[v] /\ call'[v] = call[v]
        BY SMT, <1>2, <2>2, <3>3, ThreadNames
      <4>2. state'[StopState] = state[StopState]
        BY SMT, <2>5, <3>1
      <4> QED  BY SMTT(30), <1>2, <1>4, <2>3, <2>4, <3>1, <4>1, <4>2 DEF Stage
    <3> QED  BY <3>2, <3>3
  <2> QED  BY <2>6, <2>7, <2>8, <2>9, <2>10, <2>11, <2>12 DEF ThreadInv
<1> QED  BY <1>3, <1>4

\* the handle thread by start(),
LEMMA StartStep ==
  ASSUME ThreadInv, NEW u \in Users, StartOrRun(u)
  PROVE  ThreadInv'
<1>1. /\ pc \in [Procs -> Locations] /\ joinable \in [Threads -> BOOLEAN]
      /\ state \in [{"send", "recv", "hndl"} -> {"stopped", "running", "halting", "halted"}]
      /\ ~died /\ Places /\ Lives("send", "S") /\ RecvLife /\ IdleMeansJoined
  BY DEF ThreadInv, ThreadTypes
<1>2. pc[u] = "start" /\ modeLock = none /\ UNCHANGED <<modeLock, program, at>>
  BY SMT DEF StartOrRun, client, ThreadInv, Stage, NeverUser
<1>3. CASE recvMode # "none"
  <2>1. /\ pc' = [pc EXCEPT ![u] = "idle"] /\ call' = [call EXCEPT ![u] = none]
        /\ UNCHANGED <<recvMode, state, joinable, died>>
    BY <1>3 DEF StartOrRun, Return
  <2>2. /\ "idle" \in Locations /\ "idle" \notin Stopping \cup NeverUser \cup {"stop"}
        /\ pc[u] \notin Stopping
    BY SMT, <1>2 DEF Locations, Stopping, NeverUser, WorkLocs, RecvLocs, Holding
  <2> QED  BY <1>2, <2>1, <2>2, UserMoveOnly
<1>4. CASE recvMode = "none"
  <2>1. /\ state' = [state EXCEPT !["hndl"] = "running"] /\ recvMode' = "spawn"
        /\ joinable' = [joinable EXCEPT !["H"] = TRUE] /\ died' = (died \/ joinable["H"])
        /\ pc' = [[pc EXCEPT ![u] = "idle"] EXCEPT !["H"] = "h_spawn"]
        /\ call' = [call EXCEPT ![u] = none]
    BY SMTT(30), <1>2, <1>4 DEF StartOrRun, Spawn
  <2>2. /\ pc' \in [Procs -> Locations] /\ pc'["H"] = "h_spawn" /\ pc'[u] = "idle"
        /\ \A r \in Procs \ {u, "H"} : pc'[r] = pc[r]
    BY SMT, <1>1, <2>1, ThreadNames DEF Locations
  <2>3. pc'["S"] = pc["S"] /\ pc'["R"] = pc["R"]
    BY SMT, <2>2, ThreadNames
  <2>4. /\ joinable' \in [Threads -> BOOLEAN] /\ joinable'["H"]
        /\ joinable'["S"] = joinable["S"] /\ joinable'["R"] = joinable["R"]
    BY SMT, <1>1, <2>1 DEF Threads
  <2>5. /\ state' \in [{"send", "recv", "hndl"} -> {"stopped", "running", "halting", "halted"}]
        /\ state'["hndl"] = "running" /\ state'["recv"] = state["recv"]
        /\ state'["send"] = state["send"]
    BY SMTT(30), <1>1, <2>1
  <2>6. /\ call \in [Users -> CallNames \cup {none}]
        /\ call' \in [Users -> CallNames \cup {none}] /\ call'[u] = none
        /\ \A v \in Users \ {u} : call'[v] = call[v]
    BY SMT, <2>1 DEF ThreadInv, ThreadTypes
  <2>7. ThreadTypes'
    BY ZenonT(40), <1>2, <2>1, <2>2, <2>4, <2>5, <2>6 DEF ThreadInv, ThreadTypes
  <2>8. pc["R"] = "off" /\ ~joinable["R"] /\ ~joinable["H"]
    BY SMT, <1>1, <1>4 DEF IdleMeansJoined
  <2>9. ~died' /\ IdleMeansJoined'
    BY <1>1, <2>1, <2>8 DEF IdleMeansJoined
  <2>10. Places'
    BY SMT, <1>1, <1>2, <2>2, <2>3 DEF Places
  <2>11. Lives("send", "S")'
    BY <1>1, <2>3, <2>4, <2>5 DEF Lives
  <2>12. RecvLife'
    BY ZenonT(40), <2>1, <2>2, <2>3, <2>4, <2>5, <2>8 DEF RecvLife, Lives, Leaving, WorkLocs
  <2>13. ASSUME NEW v \in Users PROVE Stage(v)'
    <3>1. Stage(v) /\ v # none
      BY SMT, ThreadNames DEF ThreadInv
    <3>2. /\ pc'[v] \notin Stopping \cup NeverUser /\ (pc'[v] = "stop" => call'[v] = "stop")
          /\ call'[v] \notin {"run", "try_stop"}
      <4>1. CASE v = u
        BY SMTT(30), <2>2, <2>6, <4>1 DEF none, Stopping, NeverUser, WorkLocs, RecvLocs, Holding
      <4>2. CASE v # u
        BY SMT, <1>2, <2>2, <2>6, <3>1, <4>2, ThreadNames DEF Stage
      <4> QED  BY <4>1, <4>2
    <3> QED  BY SMT, <1>2, <3>1, <3>2 DEF Stage, Stopping
  <2> QED  BY <2>7, <2>9, <2>10, <2>11, <2>12, <2>13 DEF ThreadInv
<1> QED  BY <1>3, <1>4

\* the receive thread by handle(),
LEMMA HandleStep ==
  ASSUME ThreadInv, NEW u \in Users, Handle(u)
  PROVE  ThreadInv'
<1>1. /\ pc \in [Procs -> Locations] /\ joinable \in [Threads -> BOOLEAN]
      /\ state \in [{"send", "recv", "hndl"} -> {"stopped", "running", "halting", "halted"}]
      /\ ~died /\ Places /\ Lives("send", "S") /\ RecvLife /\ IdleMeansJoined
  BY DEF ThreadInv, ThreadTypes
<1>2. pc[u] = "handle" /\ modeLock = none /\ UNCHANGED <<modeLock, program, at>>
  BY DEF Handle, client
<1>3. CASE recvMode # "none"
  <2>1. /\ \E l \in {"idle", "h_lock"} : pc' = [pc EXCEPT ![u] = l]
        /\ call' = call \/ call' = [call EXCEPT ![u] = none]
        /\ UNCHANGED <<recvMode, state, joinable, died>>
    BY <1>3 DEF Handle, Return
  <2>2. /\ \A l \in {"idle", "h_lock"} :
             l \in Locations /\ l \notin Stopping \cup NeverUser \cup {"stop"}
        /\ pc[u] \notin Stopping
    BY SMTT(30), <1>2 DEF Locations, Stopping, NeverUser, WorkLocs, RecvLocs, Holding
  <2> QED  BY <1>2, <2>1, <2>2, UserMoveOnly
<1>4. CASE recvMode = "none"
  <2>1. /\ state' = [state EXCEPT !["recv"] = "running"] /\ recvMode' = "handle"
        /\ joinable' = [joinable EXCEPT !["R"] = TRUE] /\ died' = (died \/ joinable["R"])
        /\ pc' = [[pc EXCEPT ![u] = "h_lock"] EXCEPT !["R"] = "r_check"]
        /\ call' = call
    BY SMTT(30), <1>4 DEF Handle, Spawn
  <2>2. /\ pc' \in [Procs -> Locations] /\ pc'["R"] = "r_check" /\ pc'[u] = "h_lock"
        /\ \A r \in Procs \ {u, "R"} : pc'[r] = pc[r]
    BY SMT, <1>1, <2>1, ThreadNames DEF Locations
  <2>3. pc'["S"] = pc["S"] /\ pc'["H"] = pc["H"]
    BY SMT, <2>2, ThreadNames
  <2>4. /\ joinable' \in [Threads -> BOOLEAN] /\ joinable'["R"]
        /\ joinable'["S"] = joinable["S"] /\ joinable'["H"] = joinable["H"]
    BY SMTT(30), <1>1, <2>1 DEF Threads
  <2>5. /\ state' \in [{"send", "recv", "hndl"} -> {"stopped", "running", "halting", "halted"}]
        /\ state'["recv"] = "running" /\ state'["hndl"] = state["hndl"]
        /\ state'["send"] = state["send"]
    BY SMT, <1>1, <2>1
  <2>6. ThreadTypes'
    BY <1>2, <2>1, <2>2, <2>4, <2>5 DEF ThreadInv, ThreadTypes
  <2>7. pc["H"] = "off" /\ ~joinable["R"] /\ ~joinable["H"] /\ state["hndl"] = "stopped"
    BY SMT, <1>1, <1>4 DEF IdleMeansJoined, RecvLife, Lives
  <2>8. ~died' /\ IdleMeansJoined'
    BY <1>1, <2>1, <2>7 DEF IdleMeansJoined
  <2>9. Places'
    BY SMT, <1>1, <1>2, <2>2, <2>3 DEF Places, RecvLocs
  <2>10. Lives("send", "S")'
    BY ZenonT(40), <1>1, <2>3, <2>4, <2>5 DEF Lives
  <2>11. RecvLife'
    BY SMTT(30), <1>1, <2>1, <2>2, <2>3, <2>4, <2>5, <2>7 DEF RecvLife, Lives, Leaving
  <2>12. ASSUME NEW v \in Users PROVE Stage(v)'
    <3>1. Stage(v) /\ v # none
      BY SMT, ThreadNames DEF ThreadInv
    <3>2. pc'[v] \notin Stopping \cup NeverUser /\ (pc'[v] = "stop" => call'[v] = "stop")
      <4>1. CASE v = u
        BY SMTT(30), <2>2, <4>1 DEF Stopping, NeverUser, WorkLocs, RecvLocs, Holding
      <4>2. CASE v # u
        BY SMTT(30), <1>2, <2>1, <2>2, <3>1, <4>2, ThreadNames DEF Stage
      <4> QED  BY <4>1, <4>2
    <3> QED  BY SMT, <1>2, <2>1, <3>1, <3>2 DEF Stage, Stopping
  <2> QED  BY <2>6, <2>8, <2>9, <2>10, <2>11, <2>12 DEF ThreadInv
<1> QED  BY <1>3, <1>4

\* A step of a thread leaves stop() where it is.
LEMMA StageKept ==
  ASSUME ThreadInv, NEW u \in Users, pc'[u] = pc[u], UNCHANGED <<call, modeLock, recvMode>>,
         state'[StopState] = state[StopState] \/ state'[StopState] \in {"halting", "halted"},
         state'["send"] = state["send"] \/ state'["send"] \in {"halting", "halted"},
         \/ pc["H"] # "off" \/ pc["R"] # "off"
         \/ /\ pc'["H"] = pc["H"] /\ joinable'["H"] = joinable["H"]
            /\ pc'["R"] = pc["R"] /\ joinable'["R"] = joinable["R"]
  PROVE  Stage(u)'
<1>1. Stage(u) /\ StopState' = StopState /\ StopState \in {"recv", "hndl"}
  BY SMT DEF ThreadInv, StopState
<1> QED  BY SMTT(30), <1>1 DEF Stage

\* by the handle thread,
LEMMA HSpawnStep ==
  ASSUME ThreadInv, NEW p \in Procs, HSpawn(p)
  PROVE  ThreadInv'
<1>1. /\ pc \in [Procs -> Locations] /\ joinable \in [Threads -> BOOLEAN]
      /\ state \in [{"send", "recv", "hndl"} -> {"stopped", "running", "halting", "halted"}]
      /\ ~died /\ Places /\ Lives("send", "S") /\ RecvLife /\ IdleMeansJoined
  BY DEF ThreadInv, ThreadTypes
<1>2. /\ p = "H" /\ pc["H"] = "h_spawn" /\ UNCHANGED <<recvMode, modeLock, program, at, call>>
      /\ state' = [state EXCEPT !["recv"] = "running"]
      /\ joinable' = [joinable EXCEPT !["R"] = TRUE] /\ died' = (died \/ joinable["R"])
      /\ pc' = [[pc EXCEPT !["H"] = "w_check"] EXCEPT !["R"] = "r_check"]
  BY IsThread DEF HSpawn, Spawn, locals, client
<1>3. /\ pc' \in [Procs -> Locations] /\ pc'["R"] = "r_check" /\ pc'["H"] = "w_check"
      /\ \A r \in Procs \ {"H", "R"} : pc'[r] = pc[r]
  BY SMTT(30), <1>1, <1>2, ThreadNames DEF Locations
<1>4. pc'["S"] = pc["S"] /\ \A u \in Users : pc'[u] = pc[u]
  BY SMTT(30), <1>3, ThreadNames
<1>5. /\ joinable' \in [Threads -> BOOLEAN] /\ joinable'["R"]
      /\ joinable'["S"] = joinable["S"] /\ joinable'["H"] = joinable["H"]
  BY SMTT(30), <1>1, <1>2 DEF Threads
<1>6. /\ state' \in [{"send", "recv", "hndl"} -> {"stopped", "running", "halting", "halted"}]
      /\ state'["recv"] = "running" /\ state'["hndl"] = state["hndl"]
      /\ state'["send"] = state["send"]
  BY SMT, <1>1, <1>2
<1>7. ThreadTypes'
  BY ZenonT(40), <1>2, <1>3, <1>5, <1>6 DEF ThreadInv, ThreadTypes
<1>8. recvMode = "spawn" /\ ~joinable["R"]
  BY SMTT(30), <1>1, <1>2 DEF ThreadInv, ThreadTypes, IdleMeansJoined, RecvLife, Lives, WorkLocs
<1>9. ~died' /\ IdleMeansJoined'
  BY <1>1, <1>2, <1>8 DEF IdleMeansJoined
<1>10. Places'
  BY <1>1, <1>2, <1>3, <1>4 DEF Places, RecvLocs, WorkLocs
<1>11. Lives("send", "S")'
  BY ZenonT(40), <1>1, <1>4, <1>5, <1>6 DEF Lives
<1>12. RecvLife'
  BY SMT, <1>1, <1>2, <1>3, <1>5, <1>6, <1>8 DEF RecvLife, Lives, Leaving, WorkLocs
<1>13. ASSUME NEW u \in Users PROVE Stage(u)'
  <2>1. StopState = "hndl" /\ pc["H"] # "off"
    BY SMT, <1>2, <1>8 DEF StopState
  <2> QED  BY <1>2, <1>4, <1>6, <2>1, StageKept
<1> QED  BY <1>7, <1>9, <1>10, <1>11, <1>12, <1>13 DEF ThreadInv

\* The send thread ends,
LEMMA SHaltedStep ==
  ASSUME ThreadInv, SHalted
  PROVE  ThreadInv'
<1>1. /\ pc \in [Procs -> Locations] /\ joinable \in [Threads -> BOOLEAN]
      /\ state \in [{"send", "recv", "hndl"} -> {"stopped", "running", "halting", "halted"}]
      /\ ~died /\ Places /\ Lives("send", "S") /\ RecvLife /\ IdleMeansJoined
  BY DEF ThreadInv, ThreadTypes
<1>2. /\ pc["S"] = "w_exit" /\ UNCHANGED <<recvMode, modeLock, program, at, call, joinable, died>>
      /\ state' = [state EXCEPT !["send"] = "halted"] /\ pc' = [pc EXCEPT !["S"] = "off"]
  BY DEF SHalted, locals, client
<1>3. /\ pc' \in [Procs -> Locations] /\ pc'["S"] = "off"
      /\ pc'["H"] = pc["H"] /\ pc'["R"] = pc["R"] /\ \A u \in Users : pc'[u] = pc[u]
  BY SMTT(30), <1>1, <1>2, ThreadNames DEF Locations
<1>4. /\ state' \in [{"send", "recv", "hndl"} -> {"stopped", "running", "halting", "halted"}]
      /\ state'["send"] = "halted" /\ state'["hndl"] = state["hndl"]
      /\ state'["recv"] = state["recv"]
  BY SMT, <1>1, <1>2
<1>5. ThreadTypes'
  BY <1>2, <1>3, <1>4 DEF ThreadInv, ThreadTypes
<1>6. Places' /\ IdleMeansJoined'
  BY SMTT(30), <1>1, <1>2, <1>3 DEF Places, IdleMeansJoined
<1>7. Lives("send", "S")'
  BY SMT, <1>1, <1>2, <1>3, <1>4 DEF Lives, Leaving
<1>8. RecvLife'
  BY <1>1, <1>2, <1>3, <1>4 DEF RecvLife, Lives
<1>9. ASSUME NEW u \in Users PROVE Stage(u)'
  <2>1. StopState \in {"recv", "hndl"}
    BY SMT DEF StopState
  <2>2. state'[StopState] = state[StopState]
    BY SMT, <1>4, <2>1
  <2> QED  BY <1>2, <1>3, <1>4, <2>2, StageKept
<1> QED  BY <1>1, <1>2, <1>5, <1>6, <1>7, <1>8, <1>9 DEF ThreadInv

\* and the handle thread after it has ended and joined the receive thread.
LEMMA HEndSteps ==
  ASSUME ThreadInv, NEW p \in Procs, HHalt(p) \/ HJoin(p) \/ HHalted(p)
  PROVE  ThreadInv'
<1>1. /\ pc \in [Procs -> Locations] /\ joinable \in [Threads -> BOOLEAN]
      /\ state \in [{"send", "recv", "hndl"} -> {"stopped", "running", "halting", "halted"}]
      /\ ~died /\ Places /\ Lives("send", "S") /\ RecvLife /\ IdleMeansJoined
  BY DEF ThreadInv, ThreadTypes
<1>2. p = "H" /\ pc["H"] \in Leaving
  BY SMT, IsThread, <1>1 DEF HHalt, HJoin, HHalted, Leaving, Places
<1>3. UNCHANGED <<recvMode, modeLock, program, at, call>>
  BY DEF HHalt, HJoin, HHalted, locals, client
<1>4. PICK l \in {"h_join", "h_halted", "off"} : pc' = [pc EXCEPT !["H"] = l]
  BY SMTT(30), <1>2 DEF HHalt, HJoin, HHalted
<1>5. /\ pc' \in [Procs -> Locations] /\ pc'["H"] = l
      /\ pc'["S"] = pc["S"] /\ pc'["R"] = pc["R"] /\ \A u \in Users : pc'[u] = pc[u]
  BY SMTT(30), <1>1, <1>4, ThreadNames DEF Locations
<1>6. /\ state["hndl"] = "halting" /\ joinable["H"] /\ recvMode = "spawn" /\ modeLock # none
      /\ pc["H"] # "off"
  BY SMTT(30), <1>1, <1>2 DEF ThreadInv, ThreadTypes, RecvLife, Lives, IdleMeansJoined, Leaving
<1>7. /\ IdleMeansJoined' /\ Places'
  <2>1. IdleMeansJoined'
    BY <1>3, <1>6 DEF IdleMeansJoined
  <2>2. /\ Places /\ UNCHANGED at /\ pc'["S"] = pc["S"] /\ pc'["R"] = pc["R"]
        /\ pc'["H"] \in {"h_join", "h_halted", "off"}
    BY <1>1, <1>3, <1>4, <1>5
  <2> QED  BY <2>1, <2>2 DEF Places
<1>s. StopState = "hndl"
  BY SMT, <1>6 DEF StopState
<1>8. CASE HHalt(p)
  <2>1. /\ state' = [state EXCEPT !["recv"] = "halting"] /\ UNCHANGED <<joinable, died>>
        /\ pc["H"] = "w_exit" /\ pc'["H"] = "h_join"
    BY SMT, <1>1, <1>2, <1>8, ThreadNames DEF HHalt
  <2>2. /\ state' \in [{"send", "recv", "hndl"} -> {"stopped", "running", "halting", "halted"}]
        /\ state'["hndl"] = state["hndl"] /\ state'["send"] = state["send"]
    BY SMTT(30), <1>1, <2>1
  <2>3. RecvLife'
    BY SMT, <1>1, <1>3, <1>5, <1>6, <2>1, <2>2 DEF RecvLife, Lives, WorkLocs
  <2>4. Lives("send", "S")'
    BY <1>1, <1>5, <2>1, <2>2 DEF Lives
  <2>5. ASSUME NEW u \in Users PROVE Stage(u)'
    BY <1>3, <1>5, <1>6, <1>s, <2>2, StageKept
  <2>6. ThreadTypes'
    BY <1>3, <1>5, <2>1, <2>2 DEF ThreadInv, ThreadTypes
  <2> QED  BY <1>1, <1>7, <2>1, <2>3, <2>4, <2>5, <2>6 DEF ThreadInv
<1>9. CASE HJoin(p)
  <2>1. /\ joinable' = [joinable EXCEPT !["R"] = FALSE] /\ died' = (died \/ ~joinable["R"])
        /\ pc["R"] = "off" /\ state' = state /\ pc["H"] = "h_join" /\ pc'["H"] = "h_halted"
    BY SMTT(30), <1>1, <1>2, <1>9, ThreadNames DEF HJoin, Join
  <2>2. /\ joinable' \in [Threads -> BOOLEAN] /\ ~joinable'["R"]
        /\ joinable'["S"] = joinable["S"] /\ joinable'["H"] = joinable["H"]
    BY SMTT(30), <1>1, <2>1 DEF Threads
  <2>3. joinable["R"]
    BY SMTT(30), <1>1, <1>6, <2>1 DEF RecvLife
  <2>4. RecvLife'
    BY SMT, <1>1, <1>3, <1>5, <1>6, <2>1, <2>2 DEF RecvLife, Lives, WorkLocs, Leaving
  <2>5. Lives("send", "S")'
    BY <1>1, <1>5, <2>1, <2>2 DEF Lives
  <2>6. ASSUME NEW u \in Users PROVE Stage(u)'
    BY <1>3, <1>5, <1>6, <1>s, <2>1, <2>2, StageKept
  <2>7. ThreadTypes'
    BY <1>3, <1>5, <2>1, <2>2 DEF ThreadInv, ThreadTypes
  <2> QED  BY ZenonT(40), <1>1, <1>7, <2>1, <2>3, <2>4, <2>5, <2>6, <2>7 DEF ThreadInv
<1>10. CASE HHalted(p)
  <2>1. /\ state' = [state EXCEPT !["hndl"] = "halted"] /\ UNCHANGED <<joinable, died>>
        /\ pc["H"] = "h_halted" /\ pc'["H"] = "off"
    BY SMTT(30), <1>1, <1>2, <1>10, ThreadNames DEF HHalted
  <2>2. /\ state' \in [{"send", "recv", "hndl"} -> {"stopped", "running", "halting", "halted"}]
        /\ state'["recv"] = state["recv"] /\ state'["send"] = state["send"]
        /\ state'["hndl"] = "halted"
    BY SMTT(30), <1>1, <2>1
  <2>3. RecvLife'
    BY SMT, <1>1, <1>3, <1>5, <1>6, <2>1, <2>2 DEF RecvLife, Lives, WorkLocs, Leaving
  <2>4. Lives("send", "S")'
    BY <1>1, <1>5, <2>1, <2>2 DEF Lives
  <2>5. ASSUME NEW u \in Users PROVE Stage(u)'
    BY <1>3, <1>5, <1>6, <1>s, <2>1, <2>2, StageKept
  <2>6. ThreadTypes'
    BY <1>3, <1>5, <2>1, <2>2 DEF ThreadInv, ThreadTypes
  <2> QED  BY <1>1, <1>7, <2>1, <2>3, <2>4, <2>5, <2>6 DEF ThreadInv
<1> QED  BY <1>8, <1>9, <1>10

\* The receive thread ends.
LEMMA RHaltedStep ==
  ASSUME ThreadInv, RHalted
  PROVE  ThreadInv'
<1>1. /\ pc \in [Procs -> Locations] /\ joinable \in [Threads -> BOOLEAN]
      /\ state \in [{"send", "recv", "hndl"} -> {"stopped", "running", "halting", "halted"}]
      /\ ~died /\ Places /\ Lives("send", "S") /\ RecvLife /\ IdleMeansJoined
  BY DEF ThreadInv, ThreadTypes
<1>2. /\ pc["R"] = "r_exit" /\ UNCHANGED <<recvMode, modeLock, program, at, call, joinable, died>>
      /\ state' = [state EXCEPT !["recv"] = "halted"] /\ pc' = [pc EXCEPT !["R"] = "off"]
  BY DEF RHalted, locals, client
<1>3. /\ pc' \in [Procs -> Locations] /\ pc'["R"] = "off"
      /\ pc'["H"] = pc["H"] /\ pc'["S"] = pc["S"] /\ \A u \in Users : pc'[u] = pc[u]
  BY SMTT(30), <1>1, <1>2, ThreadNames DEF Locations
<1>4. /\ state' \in [{"send", "recv", "hndl"} -> {"stopped", "running", "halting", "halted"}]
      /\ state'["recv"] = "halted" /\ state'["hndl"] = state["hndl"]
      /\ state'["send"] = state["send"]
  BY SMT, <1>1, <1>2
<1>5. ThreadTypes'
  BY ZenonT(40), <1>2, <1>3, <1>4 DEF ThreadInv, ThreadTypes
<1>6. Places' /\ IdleMeansJoined'
  BY SMT, <1>1, <1>2, <1>3 DEF Places, IdleMeansJoined
<1>7. Lives("send", "S")'
  BY ZenonT(40), <1>1, <1>2, <1>3, <1>4 DEF Lives
<1>8. RecvLife'
  BY SMT, <1>1, <1>2, <1>3, <1>4 DEF RecvLife, Lives, Leaving
<1>9. ASSUME NEW u \in Users PROVE Stage(u)'
  <2>1. state'[StopState] = state[StopState] \/ state'[StopState] \in {"halting", "halted"}
    BY SMT, <1>4 DEF StopState
  <2>2. pc["R"] # "off"
    BY SMTT(30), <1>2
  <2> QED  BY <1>2, <1>3, <1>4, <2>1, <2>2, StageKept
<1> QED  BY <1>1, <1>2, <1>5, <1>6, <1>7, <1>8, <1>9 DEF ThreadInv

-----------------------------------------------------------------------------
(* stop() *)

\* What the users other than u, who is in stop(), are doing.
LEMMA StageOthers ==
  ASSUME ThreadInv, NEW u \in Users, modeLock \in {u, none}, modeLock' \in {u, none},
         NEW v \in Users, v # u,
         pc'[v] = pc[v] \/ pc[v] = "w_asleep", call'[v] = call[v]
  PROVE  Stage(v)'
<1>1. Stage(v) /\ v # none
  BY SMTT(30), ThreadNames DEF ThreadInv
<1>2. pc[v] \notin Stopping /\ pc[v] \notin NeverUser /\ modeLock' # v
  BY SMTT(30), <1>1 DEF Stage
<1>3. pc'[v] = pc[v]
  BY SMT, <1>2 DEF NeverUser, WorkLocs, Holding
<1> QED  BY SMTT(30), <1>1, <1>2, <1>3 DEF Stage, Stopping

\* stop() tells the threads of the receive side to end,
LEMMA StopStep ==
  ASSUME ThreadInv, NEW u \in Users, Stop(u)
  PROVE  ThreadInv'
<1>1. /\ pc \in [Procs -> Locations] /\ joinable \in [Threads -> BOOLEAN]
      /\ state \in [{"send", "recv", "hndl"} -> {"stopped", "running", "halting", "halted"}]
      /\ ~died /\ Places /\ Lives("send", "S") /\ RecvLife /\ IdleMeansJoined
  BY DEF ThreadInv, ThreadTypes
<1>2. /\ pc[u] = "stop" /\ modeLock = none /\ modeLock' = u /\ ~IsTry(u)
      /\ recvMode \in {"none", "spawn", "handle"}
      /\ UNCHANGED <<recvMode, program, at, call, joinable, died>>
  BY SMT DEF Stop, IsTry, locals, client, ThreadInv, Stage, ThreadTypes
<1>3. CASE recvMode = "none"
  <2>1. pc' = [pc EXCEPT ![u] = "s_send"] /\ state' = state
    BY <1>3 DEF Stop
  <2>2. /\ pc' \in [Procs -> Locations] /\ pc'[u] = "s_send"
        /\ \A r \in Procs \ {u} : pc'[r] = pc[r]
        /\ pc'["S"] = pc["S"] /\ pc'["H"] = pc["H"] /\ pc'["R"] = pc["R"]
    BY SMTT(30), <1>1, <2>1, ThreadNames DEF Locations
  <2>3. ThreadTypes'
    BY SMTT(30), <1>2, <2>1, <2>2 DEF ThreadInv, ThreadTypes
  <2>4. Places' /\ IdleMeansJoined' /\ Lives("send", "S")'
    BY SMTT(30), <1>1, <1>2, <2>1, <2>2 DEF Places, IdleMeansJoined, Lives
  <2>5. RecvLife'
    BY SMTT(30), <1>1, <1>2, <1>3, <2>1, <2>2, ThreadNames DEF RecvLife, Lives
  <2>6. Stage(u)'
    <3>1. \A t \in {"R", "H"} : pc'[t] = "off" /\ ~joinable'[t]
      BY SMTT(30), <1>1, <1>2, <1>3, <2>2 DEF IdleMeansJoined
    <3>2. call[u] = "stop"
      BY SMTT(30), <1>2 DEF ThreadInv, Stage
    <3> QED  BY SMTT(30), <1>2, <2>2, <3>1, <3>2 DEF Stage, Stopping, NeverUser, WorkLocs, RecvLocs, Holding
  <2>7. ASSUME NEW v \in Users, v # u PROVE Stage(v)'
    BY SMT, <1>2, <2>2, <2>7, StageOthers, ThreadNames
  <2> QED  BY <1>1, <1>2, <2>3, <2>4, <2>5, <2>6, <2>7 DEF ThreadInv
<1>4. CASE recvMode # "none"
  <2>1. state[StopState] = "running" /\ StopState \in {"recv", "hndl"}
    BY SMTT(30), <1>1, <1>2, <1>4 DEF RecvLife, StopState
  <2>2. PICK f \in {pc, WakePaused(pc, "recv")} : pc' = [f EXCEPT ![u] = "s_join"]
    BY SMTT(30), <1>2, <1>4, <2>1 DEF Stop
  <2>3. /\ f \in [Procs -> Locations]
        /\ \A r \in Procs : f[r] = pc[r] \/ (pc[r] = "w_asleep" /\ f[r] = "w_check")
    BY SMTT(30), <1>1, <2>2, WakeFacts
  <2>4. /\ pc' \in [Procs -> Locations] /\ pc'[u] = "s_join"
        /\ \A r \in Procs \ {u} :
             pc'[r] = pc[r] \/ (pc[r] = "w_asleep" /\ pc'[r] = "w_check")
    BY SMTT(30), <2>2, <2>3, ThreadNames DEF Locations
  <2>5. /\ pc'["R"] = pc["R"]
        /\ pc'["S"] = pc["S"] \/ (pc["S"] = "w_asleep" /\ pc'["S"] = "w_check")
        /\ pc'["H"] = pc["H"] \/ (pc["H"] = "w_asleep" /\ pc'["H"] = "w_check")
    BY SMTT(30), <1>1, <2>4, ThreadNames DEF Places, RecvLocs
  <2>6. /\ state' \in [{"send", "recv", "hndl"} -> {"stopped", "running", "halting", "halted"}]
        /\ state'[StopState] = "halting" /\ state'["send"] = state["send"]
        /\ \A x \in {"recv", "hndl"} : x # StopState => state'[x] = state[x]
    BY SMTT(30), <1>1, <1>4, <2>1 DEF Stop
  <2>7. ThreadTypes'
    BY SMTT(30), <1>2, <2>4, <2>6 DEF ThreadInv, ThreadTypes
  <2>8. Places' /\ IdleMeansJoined' /\ Lives("send", "S")'
    BY SMTT(30), <1>1, <1>2, <1>4, <2>5, <2>6 DEF Places, IdleMeansJoined, Lives, WorkLocs, Leaving
  <2>9. RecvLife'
    <3>1. modeLock' # none
      BY SMTT(30), <1>2, ThreadNames
    <3>2. CASE recvMode = "spawn"
      <4>1. StopState = "hndl"
        BY SMTT(30), <3>2 DEF StopState
      <4> QED  BY SMTT(30), <1>1, <1>2, <2>1, <2>5, <2>6, <3>1, <3>2, <4>1
                  DEF RecvLife, Lives, WorkLocs, Leaving
    <3>3. CASE recvMode = "handle"
      <4>1. StopState = "recv"
        BY SMTT(30), <3>3 DEF StopState
      <4> QED  BY SMTT(30), <1>1, <1>2, <2>1, <2>5, <2>6, <3>1, <3>3, <4>1 DEF RecvLife, Lives, Leaving
    <3> QED  BY SMTT(30), <1>2, <1>4, <3>2, <3>3
  <2>10. Stage(u)'
    <3>1. call[u] = "stop" /\ StopState' = StopState
      BY SMTT(30), <1>2 DEF ThreadInv, Stage, StopState
    <3> QED  BY SMTT(30), <1>2, <1>4, <2>4, <2>6, <3>1
                DEF Stage, Stopping, NeverUser, WorkLocs, RecvLocs, Holding
  <2>11. ASSUME NEW v \in Users, v # u PROVE Stage(v)'
    BY SMT, <1>2, <2>4, <2>11, StageOthers, ThreadNames
  <2> QED  BY <1>1, <1>2, <2>7, <2>8, <2>9, <2>10, <2>11 DEF ThreadInv
<1> QED  BY ZenonT(40), <1>3, <1>4

\* joins the one it has told,
LEMMA StopJoinStep ==
  ASSUME ThreadInv, NEW u \in Users, StopJoin(u)
  PROVE  ThreadInv'
<1>1. /\ pc \in [Procs -> Locations] /\ joinable \in [Threads -> BOOLEAN]
      /\ state \in [{"send", "recv", "hndl"} -> {"stopped", "running", "halting", "halted"}]
      /\ ~died /\ Places /\ Lives("send", "S") /\ RecvLife /\ IdleMeansJoined
  BY DEF ThreadInv, ThreadTypes
<1>2. /\ pc[u] = "s_join" /\ Join(StopThread) /\ state' = [state EXCEPT ![StopState] = "stopped"]
      /\ pc' = [pc EXCEPT ![u] = "s_send"] /\ UNCHANGED <<recvMode, modeLock, program, at, call>>
  BY DEF StopJoin, locals, client
<1>3. /\ modeLock = u /\ call[u] = "stop" /\ recvMode \in {"spawn", "handle"} /\ u # none
      /\ state[StopState] \in {"halting", "halted"}
  BY SMTT(30), <1>2, ThreadNames DEF ThreadInv, Stage, Stopping
<1>4. /\ pc' \in [Procs -> Locations] /\ pc'[u] = "s_send"
      /\ \A r \in Procs \ {u} : pc'[r] = pc[r]
      /\ pc'["S"] = pc["S"] /\ pc'["H"] = pc["H"] /\ pc'["R"] = pc["R"]
  BY SMTT(30), <1>1, <1>2, ThreadNames DEF Locations
<1>5. /\ state' \in [{"send", "recv", "hndl"} -> {"stopped", "running", "halting", "halted"}]
      /\ state'[StopState] = "stopped" /\ state'["send"] = state["send"]
      /\ \A x \in {"recv", "hndl"} : x # StopState => state'[x] = state[x]
  BY SMTT(30), <1>1, <1>2 DEF StopState
<1>6. /\ joinable' \in [Threads -> BOOLEAN] /\ joinable'["S"] = joinable["S"]
      /\ ~joinable'[StopThread] /\ died' = (died \/ ~joinable[StopThread])
      /\ \A t \in {"R", "H"} : t # StopThread => joinable'[t] = joinable[t]
      /\ pc[StopThread] = "off"
  BY SMTT(30), <1>1, <1>2 DEF StopThread, Threads, Join
<1>7. joinable[StopThread]
  BY SMT, <1>1, <1>3 DEF StopThread, StopState, RecvLife, Lives
<1>8. ThreadTypes'
  BY ZenonT(40), <1>2, <1>4, <1>5, <1>6 DEF ThreadInv, ThreadTypes
<1>9. Places' /\ IdleMeansJoined' /\ Lives("send", "S")'
  BY SMTT(30), <1>1, <1>2, <1>3, <1>4, <1>5, <1>6 DEF Places, IdleMeansJoined, Lives
<1>10. \A t \in {"R", "H"} : pc[t] = "off" /\ ~joinable'[t]
  <2>1. CASE recvMode = "spawn"
    <3>1. StopThread = "H"
      BY SMTT(30), <2>1 DEF StopThread
    <3> QED  BY SMT, <1>1, <1>6, <2>1, <3>1 DEF RecvLife, WorkLocs
  <2>2. CASE recvMode = "handle"
    <3>1. StopThread = "R"
      BY SMT, <2>2 DEF StopThread
    <3> QED  BY SMT, <1>1, <1>6, <2>2, <3>1 DEF RecvLife, Lives
  <2> QED  BY SMTT(30), <1>3, <2>1, <2>2
<1>11. RecvLife'
  <2>1. CASE recvMode = "spawn"
    <3>1. StopState = "hndl"
      BY SMTT(30), <2>1 DEF StopState
    <3> QED  BY SMT, <1>2, <1>3, <1>4, <1>5, <1>10, <2>1, <3>1 DEF RecvLife, Lives, WorkLocs, Leaving
  <2>2. CASE recvMode = "handle"
    <3>1. StopState = "recv"
      BY ZenonT(40), <2>2 DEF StopState
    <3>2. /\ state["hndl"] = "stopped" /\ state'["hndl"] = state["hndl"]
          /\ state'["recv"] = "stopped"
      BY <1>1, <1>5, <2>2, <3>1 DEF RecvLife
    <3>3. \A t \in {"R", "H"} : pc'[t] = "off" /\ ~joinable'[t]
      BY <1>4, <1>10
    <3>4. modeLock' # none /\ recvMode' = "handle"
      BY <1>2, <1>3, <2>2
    <3>5. "off" \notin Leaving
      BY DEF Leaving
    <3> QED  BY <3>2, <3>3, <3>4, <3>5 DEF RecvLife, Lives
  <2> QED  BY SMTT(30), <1>3, <2>1, <2>2
<1>12. Stage(u)'
  <2>1. /\ pc'[u] = "s_send" /\ call'[u] = "stop" /\ modeLock' = u
        /\ \A t \in {"R", "H"} : pc'[t] = "off" /\ ~joinable'[t]
    BY <1>2, <1>3, <1>4, <1>10
  <2>2. /\ "s_send" \notin NeverUser /\ "s_send" \in Stopping
        /\ "stop" \notin {"run", "try_stop"} /\ "s_send" # "s_join" /\ "s_send" # "s_joinsend"
    BY SMTT(30) DEF Stopping, NeverUser, WorkLocs, RecvLocs, Holding
  <2> QED  BY <2>1, <2>2 DEF Stage
<1>13. ASSUME NEW v \in Users, v # u PROVE Stage(v)'
  BY SMT, <1>2, <1>3, <1>4, <1>13, StageOthers, ThreadNames
<1> QED  BY <1>1, <1>6, <1>7, <1>8, <1>9, <1>11, <1>12, <1>13 DEF ThreadInv

\* tells the send thread to end,
LEMMA StopSendStep ==
  ASSUME ThreadInv, NEW u \in Users, StopSend(u)
  PROVE  ThreadInv'
<1>1. /\ pc \in [Procs -> Locations] /\ joinable \in [Threads -> BOOLEAN]
      /\ state \in [{"send", "recv", "hndl"} -> {"stopped", "running", "halting", "halted"}]
      /\ ~died /\ Places /\ Lives("send", "S") /\ RecvLife /\ IdleMeansJoined
  BY DEF ThreadInv, ThreadTypes
<1>2. /\ pc[u] = "s_send" /\ UNCHANGED <<recvMode, modeLock, program, at, call, joinable, died>>
  BY DEF StopSend, locals, client
<1>3. /\ modeLock = u /\ call[u] = "stop" /\ u # none /\ ~IsTry(u)
      /\ \A t \in {"R", "H"} : pc[t] = "off" /\ ~joinable[t]
  BY <1>2, ThreadNames DEF ThreadInv, Stage, Stopping, IsTry
<1>4. PICK f \in {pc, WakePaused(pc, "send")}, l \in {"s_joinsend", "s_end"} :
        /\ pc' = [f EXCEPT ![u] = l]
        /\ IF state["send"] = "running" THEN state' = [state EXCEPT !["send"] = "halting"]
                                        ELSE l = "s_end" /\ state' = state
  BY <1>3 DEF StopSend
<1>5. /\ f \in [Procs -> Locations]
      /\ \A r \in Procs : f[r] = pc[r] \/ (pc[r] = "w_asleep" /\ f[r] = "w_check")
  BY SMTT(30), <1>1, <1>4, WakeFacts
<1>6. /\ pc' \in [Procs -> Locations] /\ pc'[u] = l
      /\ \A r \in Procs \ {u} :
           pc'[r] = pc[r] \/ (pc[r] = "w_asleep" /\ pc'[r] = "w_check")
  BY SMTT(30), <1>4, <1>5, ThreadNames DEF Locations
<1>7. /\ pc'["R"] = pc["R"] /\ pc'["H"] = pc["H"]
      /\ pc'["S"] = pc["S"] \/ (pc["S"] = "w_asleep" /\ pc'["S"] = "w_check")
  BY SMTT(30), <1>3, <1>6, ThreadNames
<1>8. /\ state' \in [{"send", "recv", "hndl"} -> {"stopped", "running", "halting", "halted"}]
      /\ state'["recv"] = state["recv"] /\ state'["hndl"] = state["hndl"]
      /\ IF state["send"] = "running" THEN state'["send"] = "halting"
                                      ELSE l = "s_end" /\ state'["send"] = state["send"]
  BY SMT, <1>1, <1>4
<1>9. ThreadTypes'
  BY ZenonT(40), <1>2, <1>6, <1>8 DEF ThreadInv, ThreadTypes
<1>10. Places' /\ IdleMeansJoined'
  BY SMTT(30), <1>1, <1>2, <1>7 DEF Places, IdleMeansJoined, WorkLocs
<1>11. Lives("send", "S")'
  BY SMT, <1>1, <1>2, <1>7, <1>8 DEF Lives, Leaving
<1>12. RecvLife'
  BY ZenonT(40), <1>1, <1>2, <1>7, <1>8 DEF RecvLife, Lives
<1>13. Stage(u)'
  BY SMTT(30), <1>2, <1>3, <1>4, <1>6, <1>7, <1>8
     DEF Stage, Stopping, NeverUser, WorkLocs, RecvLocs, Holding
<1>14. ASSUME NEW v \in Users, v # u PROVE Stage(v)'
  BY SMT, <1>2, <1>3, <1>6, <1>14, StageOthers, ThreadNames
<1> QED  BY <1>1, <1>2, <1>9, <1>10, <1>11, <1>12, <1>13, <1>14 DEF ThreadInv

\* joins it,
LEMMA StopJoinSendStep ==
  ASSUME ThreadInv, NEW u \in Users, StopJoinSend(u)
  PROVE  ThreadInv'
<1>1. /\ pc \in [Procs -> Locations] /\ joinable \in [Threads -> BOOLEAN]
      /\ state \in [{"send", "recv", "hndl"} -> {"stopped", "running", "halting", "halted"}]
      /\ ~died /\ Places /\ Lives("send", "S") /\ RecvLife /\ IdleMeansJoined
  BY DEF ThreadInv, ThreadTypes
<1>2. /\ pc[u] = "s_joinsend" /\ pc["S"] = "off" /\ state' = [state EXCEPT !["send"] = "stopped"]
      /\ joinable' = [joinable EXCEPT !["S"] = FALSE] /\ died' = (died \/ ~joinable["S"])
      /\ pc' = [pc EXCEPT ![u] = "s_end"] /\ UNCHANGED <<recvMode, modeLock, program, at, call>>
  BY DEF StopJoinSend, Join, locals, client
<1>3. /\ modeLock = u /\ call[u] = "stop" /\ u # none
      /\ \A t \in {"R", "H"} : pc[t] = "off" /\ ~joinable[t]
      /\ state["send"] \in {"halting", "halted"}
  BY SMTT(30), <1>2, ThreadNames DEF ThreadInv, Stage, Stopping
<1>4. /\ pc' \in [Procs -> Locations] /\ pc'[u] = "s_end"
      /\ \A r \in Procs \ {u} : pc'[r] = pc[r]
      /\ pc'["S"] = pc["S"] /\ pc'["H"] = pc["H"] /\ pc'["R"] = pc["R"]
  BY SMTT(30), <1>1, <1>2, ThreadNames DEF Locations
<1>5. /\ state' \in [{"send", "recv", "hndl"} -> {"stopped", "running", "halting", "halted"}]
      /\ state'["send"] = "stopped" /\ state'["recv"] = state["recv"]
      /\ state'["hndl"] = state["hndl"]
  BY SMTT(30), <1>1, <1>2
<1>6. /\ joinable' \in [Threads -> BOOLEAN] /\ ~joinable'["S"]
      /\ joinable'["R"] = joinable["R"] /\ joinable'["H"] = joinable["H"]
  BY SMTT(30), <1>1, <1>2 DEF Threads
<1>7. joinable["S"]
  BY SMT, <1>1, <1>3 DEF Lives
<1>8. ThreadTypes'
  BY ZenonT(40), <1>2, <1>4, <1>5, <1>6 DEF ThreadInv, ThreadTypes
<1>9. Places' /\ IdleMeansJoined'
  BY SMTT(30), <1>1, <1>2, <1>4, <1>6 DEF Places, IdleMeansJoined
<1>10. Lives("send", "S")'
  BY SMT, <1>2, <1>4, <1>5, <1>6 DEF Lives, Leaving
<1>11. RecvLife'
  BY ZenonT(40), <1>1, <1>2, <1>4, <1>5, <1>6 DEF RecvLife, Lives
<1>12. Stage(u)'
  BY SMT, <1>2, <1>3, <1>4, <1>6 DEF Stage, Stopping, NeverUser, WorkLocs, RecvLocs, Holding
<1>13. ASSUME NEW v \in Users, v # u PROVE Stage(v)'
  BY SMTT(30), <1>2, <1>3, <1>4, <1>13, StageOthers, ThreadNames
<1> QED  BY <1>1, <1>2, <1>7, <1>8, <1>9, <1>10, <1>11, <1>12, <1>13 DEF ThreadInv

\* and restores the "non-running" state.
LEMMA StopEndStep ==
  ASSUME ThreadInv, NEW u \in Users, StopEnd(u)
  PROVE  ThreadInv'
<1>1. /\ pc \in [Procs -> Locations] /\ joinable \in [Threads -> BOOLEAN]
      /\ state \in [{"send", "recv", "hndl"} -> {"stopped", "running", "halting", "halted"}]
      /\ ~died /\ Places /\ Lives("send", "S") /\ RecvLife /\ IdleMeansJoined
  BY DEF ThreadInv, ThreadTypes
<1>2. /\ pc[u] = "s_end" /\ recvMode' = "none" /\ modeLock' = none
      /\ pc' = [pc EXCEPT ![u] = "idle"] /\ call' = [call EXCEPT ![u] = none]
      /\ UNCHANGED <<state, joinable, died, program, at>>
  BY DEF StopEnd, Return, client
<1>3. /\ modeLock = u /\ \A t \in {"R", "H"} : pc[t] = "off" /\ ~joinable[t]
  BY SMTT(30), <1>2 DEF ThreadInv, Stage, Stopping
<1>4. /\ pc' \in [Procs -> Locations] /\ pc'[u] = "idle"
      /\ \A r \in Procs \ {u} : pc'[r] = pc[r]
      /\ pc'["S"] = pc["S"] /\ pc'["H"] = pc["H"] /\ pc'["R"] = pc["R"]
  BY SMTT(30), <1>1, <1>2, ThreadNames DEF Locations
<1>5. /\ call' \in [Users -> CallNames \cup {none}] /\ call'[u] = none
      /\ \A v \in Users \ {u} : call'[v] = call[v]
  BY SMTT(30), <1>2 DEF ThreadInv, ThreadTypes
<1>6. ThreadTypes'
  <2>1. ThreadTypes
    BY ZenonT(40) DEF ThreadInv
  <2> QED  BY <1>2, <1>4, <1>5, <2>1 DEF ThreadTypes
<1>7. Places' /\ IdleMeansJoined' /\ Lives("send", "S")'
  BY SMTT(30), <1>1, <1>2, <1>3, <1>4 DEF Places, IdleMeansJoined, Lives
<1>8. RecvLife'
  BY SMTT(30), <1>1, <1>2, <1>4 DEF RecvLife, Lives
<1>9. Stage(u)'
  BY SMTT(30), <1>2, <1>4, <1>5, ThreadNames
     DEF Stage, Stopping, NeverUser, WorkLocs, RecvLocs, Holding, none
<1>10. ASSUME NEW v \in Users, v # u PROVE Stage(v)'
  BY SMTT(30), <1>2, <1>3, <1>4, <1>5, <1>10, StageOthers, ThreadNames
<1> QED  BY <1>1, <1>2, <1>6, <1>7, <1>8, <1>9, <1>10 DEF ThreadInv

LEMMA ThreadInit == Init => ThreadInv
<1> SUFFICES ASSUME Init PROVE ThreadInv
  BY SMTT(30)
<1>1. ThreadTypes /\ ~died
  BY SMT DEF Init, ThreadTypes, Locations, Procs, Sides
<1>2. /\ \A t \in Threads : t \in Procs /\ t \notin Users
      /\ \A u \in Users : u \in Procs /\ u # none
  BY SMT, UsersApart DEF Procs
<1>3. /\ \A t \in Threads : pc[t] = "off" /\ ~joinable[t]
      /\ \A u \in Users : pc[u] = "idle" /\ call[u] = none
  BY <1>2 DEF Init
<1>4. at["S"] = "send" /\ at["H"] = "recv"
  BY SMT DEF Init, Procs, Threads
<1>5. Places /\ IdleMeansJoined /\ Lives("send", "S") /\ RecvLife
  BY <1>3, <1>4 DEF Init, Threads, Places, IdleMeansJoined, Lives, RecvLife, Leaving
<1>6. \A u \in Users : Stage(u)
  BY <1>2, <1>3 DEF Init, Stage, Stopping, NeverUser, WorkLocs, RecvLocs, Holding, none
<1> QED  BY <1>1, <1>5, <1>6 DEF ThreadInv

LEMMA ThreadStutter ==
  ASSUME ThreadInv, UNCHANGED vars
  PROVE  ThreadInv'
<1>1. UNCHANGED <<recvMode, modeLock, state, joinable, died, pc, at, call, program>>
  BY DEF vars, queues, threads, locals, client, history
<1>2. ThreadTypes' /\ ~died' /\ Places' /\ IdleMeansJoined'
  BY <1>1 DEF ThreadInv, ThreadTypes, Places, IdleMeansJoined
<1>3. Lives("send", "S")' /\ RecvLife'
  BY <1>1 DEF ThreadInv, Lives, RecvLife
<1>4. ASSUME NEW u \in Users PROVE Stage(u)'
  BY <1>1 DEF ThreadInv, Stage, StopState
<1> QED  BY <1>2, <1>3, <1>4 DEF ThreadInv

LEMMA ThreadNext ==
  ASSUME Orderly, ThreadInv, Next
  PROVE  ThreadInv'
<1>1. ASSUME NEW u \in Users, NEW c \in CallNames, Begin(u, c) PROVE ThreadInv'
  BY <1>1, BeginOrderly
<1>2. ASSUME NEW u \in Users, CallStep(u) PROVE ThreadInv'
  <2>1. pc[u] \notin {"run_end", "s_try", "s_trysend"}
    BY SMTT(30) DEF ThreadInv, Stage, NeverUser
  <2>2. ~RunEnd(u) /\ ~StopTry(u) /\ ~StopTrySend(u)
    BY SMT, <2>1 DEF RunEnd, StopTry, StopTrySend
  <2>3. CASE \/ PushIfRoom(u) \/ FDisable(u) \/ FLock(u) \/ FBack(u) \/ FEnable(u) \/ FUnlock(u)
             \/ QResize(u) \/ Pause(u) \/ Resume(u) \/ HandleLock(u)
    BY <2>3, CallSteps
  <2>4. CASE PubSpawn(u) \/ StartOrRun(u) \/ Handle(u)
    BY <2>4, PubSpawnStep, StartStep, HandleStep
  <2>5. CASE Stop(u) \/ StopJoin(u) \/ StopSend(u) \/ StopJoinSend(u) \/ StopEnd(u)
    BY <2>5, StopStep, StopJoinStep, StopSendStep, StopJoinSendStep, StopEndStep
  <2> QED  BY <1>2, <2>2, <2>3, <2>4, <2>5 DEF CallStep
<1>3. ASSUME NEW p \in Procs, WorkStep(p) \/ WakeUp(p) PROVE ThreadInv'
  <2>1. CASE WCheck(p) \/ WSleep(p) \/ WakeUp(p) \/ WLock(p)
    BY <2>1, LoopSteps
  <2>2. CASE OTop(p) \/ OCheck(p) \/ OUse(p) \/ OPop(p)
    BY <2>2, OneSteps
  <2>3. CASE HSpawn(p) \/ HHalt(p) \/ HJoin(p) \/ HHalted(p)
    BY <2>3, HSpawnStep, HEndSteps
  <2> QED  BY <1>3, <2>1, <2>2, <2>3 DEF WorkStep
<1>4. ASSUME RecvStep PROVE ThreadInv'
  BY <1>4, RecvSteps, RHaltedStep DEF RecvStep
<1> QED  BY <1>1, <1>2, <1>3, <1>4, SHaltedStep DEF Next

\* In a program that ends its threads with stop(): each thread is joinable from
\* its start until stop() or the handle thread has joined it, the state flags
\* say where it is, and stop() leaves no thread of the receive side behind.
THEOREM ThreadsInvariant == Orderly => (Spec => []ThreadInv)
<1> SUFFICES ASSUME Orderly PROVE Spec => []ThreadInv
  BY SMT
<1>1. ThreadInv /\ [Next]_vars => ThreadInv'
  BY ThreadNext, ThreadStutter
<1> QED  BY <1>1, ThreadInit, PTL DEF Spec

\* NoTerminate: no std::thread is overwritten while it has a thread, and none is
\* joined that has not, whatever is published, flushed, resized, paused, handled,
\* started and stopped concurrently.
THEOREM NeverTerminates == Orderly => (Spec => []NoTerminate)
<1>1. ThreadInv => NoTerminate
  BY DEF ThreadInv, NoTerminate
<1> QED  BY <1>1, ThreadsInvariant, PTL

\* In those programs messages are delivered once, in the order they were taken
\* from the transport or given to publish(), whatever is started, stopped,
\* paused, flushed and resized meanwhile.
THEOREM FifoWhenOrderly == Orderly => (Spec => []FifoDelivery)
BY FifoWhileAlive, NeverTerminates, PTL

=============================================================================
