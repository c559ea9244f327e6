------------------------------ MODULE LfBcast -------------------------------
(***************************************************************************)
(* The lock-free broadcast queue, zcm/transport/lockfree/lf_bcast.c, used  *)
(* as zcm/transport/transport_ipcshm.cpp uses it: every publisher fills a  *)
(* buffer and publishes it (sendmsg), every subscriber copies the next     *)
(* buffer out of memory that may change under it and asks afterwards       *)
(* whether the copy is good (recvmsg).                                     *)
(*                                                                         *)
(* One step is one access to shared memory.  A slot is a 128-bit reference *)
(* that the build loads as two 64-bit halves.  The element pool is used    *)
(* through PoolSpec's atomic operations, which LfPool implements.          *)
(***************************************************************************)
EXTENDS Integers, Sequences, FiniteSets

CONSTANTS
  Pubs,         \* publishing threads, of any process
  Subs,         \* subscribers
  Depth,        \* queue depth
  LoadOrders,   \* which index lf_bcast_pub loads first: "head", "tail"
  FutexMod,     \* the futex compares indices modulo this (2^32)
  MaxMsgs,      \* bound: messages sent
  MaxReleases,  \* bound: buffers given back unpublished
  MaxCrashes    \* bound: publishers that crash

ASSUME PubsAssumption     == IsFiniteSet(Pubs)
ASSUME DepthAssumption    == Depth \in Nat \ {0}
ASSUME FutexModAssumption == FutexMod \in Nat \ {0}
ASSUME LoadAssumption     == LoadOrders \subseteq {"head", "tail"}
ASSUME BoundsAssumption   ==
  /\ MaxMsgs \in Nat
  /\ MaxReleases \in Nat
  /\ MaxCrashes \in Nat

VARIABLES
  head,      \* b->head_idx
  tail,      \* b->tail_idx
  slots,     \* b->slots
  pool,      \* free elements of the pool
  data,      \* the two parts of every buffer, written and copied in turn
  log,       \* history: message and buffer of every slot ever committed
  pc,        \* publisher: where it is in sendmsg
  buf,       \* publisher: the buffer it owns, 0 for none
  msg,       \* publisher: the message it is sending, 0 for none
  h,         \* publisher: local head_idx
  t,         \* publisher: local tail_idx
  cur,       \* publisher: local copy of a slot (tail_cur, head_cur)
  left,      \* publisher: the half of that copy still to be loaded
  spc,       \* subscriber: where it is in recvmsg
  idx,       \* subscriber: sub->idx, 0 before lf_bcast_sub_init
  drops,     \* subscriber: sub->drops
  ref,       \* subscriber: local copy of a slot
  half,      \* subscriber: the half of that copy still to be loaded
  copy,      \* subscriber: what recvmsg has copied out
  last,      \* history: what each subscriber was last given, Junk at first
  sent,      \* messages sendmsg was called with
  released,  \* buffers given back unpublished
  leaked,    \* history: buffers lost with the publisher that owned them
  crashes    \* publishers that crashed so far

shared  == <<head, tail, slots, pool, data, log>>
plocals == <<buf, msg, h, t, cur, left>>
publ    == <<pc, plocals>>
slocals == <<idx, drops, ref, half, copy, last>>
subl    == <<spc, slocals>>
bounds  == <<sent, released, leaked, crashes>>
vars    == <<shared, publ, subl, bounds>>

-----------------------------------------------------------------------------
\* Mutant: one element more than the queue has slots.
NumBufs_Extra == Depth + 1

\* lf_pool_mem_init(pool_mem, depth, ...): as many elements as slots.
NumBufs == Depth

Bufs   == 1..NumBufs
Msgs   == 1..MaxMsgs

\* idx & depth_mask
SlotOf(i) == i % Depth

Slot   == [tag : Nat, val : 0..NumBufs]
NoSlot == [tag |-> 0, val |-> 0]

\* A buffer's two parts: the size field, which a free element's link also
\* overlays, and the rest.  0 stands for bytes that are of no message.
Junk   == [size |-> 0, body |-> 0]
Buffer == [size : 0..MaxMsgs, body : 0..MaxMsgs]

\* The buffer that holds message m, whole.
Whole(m) == [size |-> m, body |-> m]

Halves     == {"tag", "val"}
Other(hf)  == IF hf = "tag" THEN "val" ELSE "tag"

LoadHalf(local, memory, hf) ==
  IF hf = "tag" THEN [tag |-> memory.tag, val |-> local.val]
                  ELSE [tag |-> local.tag, val |-> memory.val]

Goto(p, from, to) ==
  /\ pc[p] = from
  /\ pc' = [pc EXCEPT ![p] = to]

SubGoto(s, from, to) ==
  /\ spc[s] = from
  /\ spc' = [spc EXCEPT ![s] = to]

\* The locals of one attempt, of no use after it.
Forget(p) ==
  /\ h' = [h EXCEPT ![p] = 0]
  /\ t' = [t EXCEPT ![p] = 0]
  /\ cur' = [cur EXCEPT ![p] = NoSlot]

\* Everything but the two indices: slots unused, elements free, no calls yet.
InitRest ==
  /\ slots = [i \in 0..Depth - 1 |-> NoSlot]
  /\ pool = Bufs
  /\ data = [b \in Bufs |-> Junk]
  /\ log = <<>>
  /\ pc = [p \in Pubs |-> "idle"]
  /\ buf = [p \in Pubs |-> 0]
  /\ msg = [p \in Pubs |-> 0]
  /\ h = [p \in Pubs |-> 0]
  /\ t = [p \in Pubs |-> 0]
  /\ cur = [p \in Pubs |-> NoSlot]
  /\ left = [p \in Pubs |-> "tag"]
  /\ spc = [s \in Subs |-> "off"]
  /\ ref = [s \in Subs |-> NoSlot]
  /\ half = [s \in Subs |-> "tag"]
  /\ idx = [s \in Subs |-> 0]
  /\ drops = [s \in Subs |-> 0]
  /\ copy = [s \in Subs |-> Junk]
  /\ last = [s \in Subs |-> Junk]
  /\ sent = 0
  /\ released = 0
  /\ leaked = {}
  /\ crashes = 0

\* lf_bcast_mem_init: indices start at 1 because tag 0 means unused.
Init == head = 1 /\ tail = 1 /\ InitRest

-----------------------------------------------------------------------------
(* sendmsg and lf_bcast_buf_acquire *)

StartSend(p) ==
  /\ sent < MaxMsgs
  /\ sent' = sent + 1
  /\ msg' = [msg EXCEPT ![p] = sent + 1]
  /\ Goto(p, "idle", "acq_pool")
  /\ UNCHANGED <<shared, buf, h, t, cur, left, subl, released, leaked, crashes>>

\* lf_pool_acquire found an element.
AcqFromPool(p) ==
  /\ Goto(p, "acq_pool", "fill_size")
  /\ \E b \in pool :
       /\ pool' = pool \ {b}
       /\ buf' = [buf EXCEPT ![p] = b]
  /\ UNCHANGED <<head, tail, slots, data, log, msg, h, t, cur, left, subl,
                 bounds>>

\* Mutant: the queue's head is preferred to a free element.
AcqPoolEmpty_Any(p) ==
  /\ Goto(p, "acq_pool", "acq_head")
  /\ UNCHANGED <<shared, plocals, subl, bounds>>

\* lf_pool_acquire returned NULL.
AcqPoolEmpty(p) ==
  /\ pool = {}
  /\ Goto(p, "acq_pool", "acq_head")
  /\ UNCHANGED <<shared, plocals, subl, bounds>>

AcqReadHead(p) ==
  /\ Goto(p, "acq_head", "acq_tail")
  /\ h' = [h EXCEPT ![p] = head]
  /\ UNCHANGED <<shared, buf, msg, t, cur, left, subl, bounds>>

\* Mutant: the queue is taken for empty while one message is left in it.
AcqReadTail_OneLeft(p) ==
  /\ Goto(p, "acq_tail", IF h[p] + 1 >= tail THEN "starved" ELSE "acq_slot")
  /\ UNCHANGED <<shared, plocals, subl, bounds>>

\* With the queue empty too, lf_bcast_buf_acquire returns NULL and sendmsg
\* aborts the process.
AcqReadTail(p) ==
  /\ Goto(p, "acq_tail", IF h[p] = tail THEN "starved" ELSE "acq_slot")
  /\ UNCHANGED <<shared, plocals, subl, bounds>>

\* dequeue_head: only the slot's val is used.
AcqReadSlot(p) ==
  /\ Goto(p, "acq_slot", "acq_cas")
  /\ cur' = [cur EXCEPT ![p] = LoadHalf(NoSlot, slots[SlotOf(h[p])], "val")]
  /\ UNCHANGED <<shared, buf, msg, h, t, left, subl, bounds>>

\* The head moves on, and with it the ownership of its buffer.
AcqCas(p) ==
  /\ Goto(p, "acq_cas", "fill_size")
  /\ head = h[p]
  /\ head' = head + 1
  /\ buf' = [buf EXCEPT ![p] = cur[p].val]
  /\ Forget(p)
  /\ UNCHANGED <<tail, slots, pool, data, log, msg, left, subl, bounds>>

AcqCasFail(p) ==
  /\ Goto(p, "acq_cas", "acq_pool")
  /\ head # h[p]
  /\ Forget(p)
  /\ UNCHANGED <<shared, buf, msg, left, subl, bounds>>

FillSize(p) ==
  /\ Goto(p, "fill_size", "fill_body")
  /\ data' = [data EXCEPT ![buf[p]].size = msg[p]]
  /\ UNCHANGED <<head, tail, slots, pool, log, plocals, subl, bounds>>

FillBody(p) ==
  /\ Goto(p, "fill_body", "pub_first")
  /\ data' = [data EXCEPT ![buf[p]].body = msg[p]]
  /\ UNCHANGED <<head, tail, slots, pool, log, plocals, subl, bounds>>

\* lf_bcast_buf_release: a caller that will not publish gives its buffer back.
BufRelease(p) ==
  /\ released < MaxReleases
  /\ released' = released + 1
  /\ Goto(p, "fill_size", "idle")
  /\ pool' = pool \cup {buf[p]}
  /\ data' = [data EXCEPT ![buf[p]].size = 0]
  /\ buf' = [buf EXCEPT ![p] = 0]
  /\ msg' = [msg EXCEPT ![p] = 0]
  /\ UNCHANGED <<head, tail, slots, log, h, t, cur, left, subl, sent, leaked,
                 crashes>>
-----------------------------------------------------------------------------
(* lf_bcast_pub *)

\* The loads of head_idx and tail_idx: in program order at -O0 and -O1, the
\* tail first from -O2 on.
PubLoadFirst(p) ==
  \E first \in LoadOrders :
    /\ Goto(p, "pub_first", IF first = "head" THEN "pub_tail" ELSE "pub_head")
    /\ h' = IF first = "head" THEN [h EXCEPT ![p] = head] ELSE h
    /\ t' = IF first = "tail" THEN [t EXCEPT ![p] = tail] ELSE t
    /\ UNCHANGED <<shared, buf, msg, cur, left, subl, bounds>>

PubLoadTail(p) ==
  /\ Goto(p, "pub_tail", "pub_slot")
  /\ t' = [t EXCEPT ![p] = tail]
  /\ UNCHANGED <<shared, buf, msg, h, cur, left, subl, bounds>>

PubLoadHead(p) ==
  /\ Goto(p, "pub_head", "pub_slot")
  /\ h' = [h EXCEPT ![p] = head]
  /\ UNCHANGED <<shared, buf, msg, t, cur, left, subl, bounds>>

PubLoadSlot(p) ==
  \E first \in Halves :
    /\ Goto(p, "pub_slot", "pub_slot2")
    /\ cur' = [cur EXCEPT ![p] = LoadHalf(NoSlot, slots[SlotOf(t[p])], first)]
    /\ left' = [left EXCEPT ![p] = Other(first)]
    /\ UNCHANGED <<shared, buf, msg, h, t, subl, bounds>>

\* What the checks between the loads and the commit decide: a stale tail to
\* advance, a stale tail_idx to load again, a full queue whose head goes (the
\* assertion fails unless that head is the slot's), or a free slot.
Verdict(hd, tl, tag) ==
  CASE tag = tl -> "pub_fix"
    [] tag > tl -> "pub_first"
    [] tag < tl /\ hd = tag -> "pub_drop"
    [] tag < tl /\ hd < tag -> "aborted"
    [] tag < tl /\ hd > tag -> "pub_cas"

PubLoadSlot2(p) ==
  LET c == LoadHalf(cur[p], slots[SlotOf(t[p])], left[p]) IN
  /\ Goto(p, "pub_slot2", Verdict(h[p], t[p], c.tag))
  /\ cur' = [cur EXCEPT ![p] = c]
  /\ UNCHANGED <<shared, buf, msg, h, t, left, subl, bounds>>

\* A message was committed and its publisher has not advanced the tail, or
\* crashed before it did.
PubFixTail(p) ==
  /\ Goto(p, "pub_fix", "pub_first")
  /\ tail' = IF tail = t[p] THEN tail + 1 ELSE tail
  /\ Forget(p)
  /\ UNCHANGED <<head, slots, pool, data, log, buf, msg, left, subl, bounds>>

\* try_drop_head: the head's buffer goes back to the pool, unless the head
\* has moved since it was loaded.
PubDropHead(p) ==
  LET b == slots[SlotOf(h[p])].val
      full == head = h[p]
  IN
  /\ Goto(p, "pub_drop", "pub_first")
  /\ head' = IF full THEN head + 1 ELSE head
  /\ pool' = IF full THEN pool \cup {b} ELSE pool
  /\ data' = IF full THEN [data EXCEPT ![b].size = 0] ELSE data
  /\ Forget(p)
  /\ UNCHANGED <<tail, slots, log, buf, msg, left, subl, bounds>>

\* Mutant: the slot is stored to, whatever another publisher put there.
PubCas_Store(p) ==
  /\ Goto(p, "pub_cas", "pub_bump")
  /\ slots' = [slots EXCEPT ![SlotOf(t[p])] = [tag |-> t[p], val |-> buf[p]]]
  /\ log' = Append(log, [msg |-> msg[p], buf |-> buf[p]])
  /\ buf' = [buf EXCEPT ![p] = 0]
  /\ UNCHANGED <<head, tail, pool, data, msg, h, t, cur, left, subl, bounds>>

\* The commit.
PubCas(p) ==
  /\ Goto(p, "pub_cas", "pub_bump")
  /\ slots[SlotOf(t[p])] = cur[p]
  /\ slots' = [slots EXCEPT ![SlotOf(t[p])] = [tag |-> t[p], val |-> buf[p]]]
  /\ log' = Append(log, [msg |-> msg[p], buf |-> buf[p]])
  /\ buf' = [buf EXCEPT ![p] = 0]
  /\ UNCHANGED <<head, tail, pool, data, msg, h, t, cur, left, subl, bounds>>

PubCasFail(p) ==
  /\ Goto(p, "pub_cas", "pub_first")
  /\ slots[SlotOf(t[p])] # cur[p]
  /\ Forget(p)
  /\ UNCHANGED <<shared, buf, msg, left, subl, bounds>>

\* Mutant: a tail that another publisher advanced is taken for a lost race.
PubBumpTail_Again(p) ==
  /\ Goto(p, "pub_bump", IF tail = t[p] THEN "pub_wake" ELSE "pub_first")
  /\ tail' = IF tail = t[p] THEN tail + 1 ELSE tail
  /\ buf' = [buf EXCEPT ![p] = IF tail = t[p] THEN 0 ELSE slots[SlotOf(t[p])].val]
  /\ UNCHANGED <<head, slots, pool, data, log, msg, h, t, cur, left, subl, bounds>>

PubBumpTail(p) ==
  /\ Goto(p, "pub_bump", "pub_wake")
  /\ tail' = IF tail = t[p] THEN tail + 1 ELSE tail
  /\ UNCHANGED <<head, slots, pool, data, log, plocals, subl, bounds>>

\* futex_wake on the tail wakes every sleeper; lf_bcast_pub and sendmsg return.
PubWake(p) ==
  /\ Goto(p, "pub_wake", "idle")
  /\ spc' = [s \in Subs |-> IF spc[s] = "sleep" THEN "begin" ELSE spc[s]]
  /\ msg' = [msg EXCEPT ![p] = 0]
  /\ Forget(p)
  /\ UNCHANGED <<shared, buf, left, slocals, bounds>>

\* A publisher's process dies between two accesses and is started again; the
\* buffer it owned stays allocated in the shared region.
Crash(p) ==
  /\ crashes < MaxCrashes
  /\ crashes' = crashes + 1
  /\ pc[p] # "idle"
  /\ pc' = [pc EXCEPT ![p] = "idle"]
  /\ leaked' = leaked \cup ({buf[p]} \ {0})
  /\ buf' = [buf EXCEPT ![p] = 0]
  /\ msg' = [msg EXCEPT ![p] = 0]
  /\ Forget(p)
  /\ UNCHANGED <<shared, left, subl, sent, released>>

-----------------------------------------------------------------------------
(* lf_bcast_sub_init, lf_bcast_sub_consume_begin and _end, and recvmsg *)

SubInit(s) ==
  /\ SubGoto(s, "off", "begin")
  /\ idx' = [idx EXCEPT ![s] = tail]
  /\ UNCHANGED <<shared, publ, ref, half, drops, copy, last, bounds>>

\* Nothing new: wait, if any of the timeout is left.  A call that returns NULL
\* instead changes nothing; the next one starts here again.
ConReadTail(s) ==
  /\ SubGoto(s, "begin", IF idx[s] = tail THEN "futex" ELSE "con_ref")
  /\ UNCHANGED <<shared, publ, slocals, bounds>>

\* Mutant: the kernel is not told which index the subscriber has seen.
FutexWait_NoCompare(s) ==
  /\ SubGoto(s, "futex", "sleep")
  /\ UNCHANGED <<shared, publ, slocals, bounds>>

\* futex_wait sleeps if the lower bits of the tail are still those of idx.
FutexWait(s) ==
  /\ SubGoto(s, "futex",
             IF tail % FutexMod = idx[s] % FutexMod THEN "sleep" ELSE "begin")
  /\ UNCHANGED <<shared, publ, slocals, bounds>>

FutexTimeout(s) ==
  /\ SubGoto(s, "sleep", "begin")
  /\ UNCHANGED <<shared, publ, slocals, bounds>>

ConReadRef(s) ==
  \E first \in Halves :
    /\ SubGoto(s, "con_ref", "con_ref2")
    /\ ref' = [ref EXCEPT ![s] = LoadHalf(NoSlot, slots[SlotOf(idx[s])], first)]
    /\ half' = [half EXCEPT ![s] = Other(first)]
    /\ UNCHANGED <<shared, publ, idx, drops, copy, last, bounds>>

\* Mutant: a missing message is waited for.
ConReadRef2_Wait(s) ==
  LET c == LoadHalf(ref[s], slots[SlotOf(idx[s])], half[s])
      missing == c.tag # idx[s]
  IN
  /\ SubGoto(s, "con_ref2", IF missing THEN "begin" ELSE "con_size")
  /\ ref' = [ref EXCEPT ![s] = IF missing THEN NoSlot ELSE c]
  /\ UNCHANGED <<shared, publ, half, idx, drops, copy, last, bounds>>

\* The slot holds a later message: this one was dropped.
ConReadRef2(s) ==
  LET c == LoadHalf(ref[s], slots[SlotOf(idx[s])], half[s])
      missing == c.tag # idx[s]
  IN
  /\ SubGoto(s, "con_ref2", IF missing THEN "begin" ELSE "con_size")
  /\ ref' = [ref EXCEPT ![s] = IF missing THEN NoSlot ELSE c]
  /\ idx' = [idx EXCEPT ![s] = IF missing THEN @ + 1 ELSE @]
  /\ drops' = [drops EXCEPT ![s] = IF missing THEN @ + 1 ELSE @]
  /\ UNCHANGED <<shared, publ, half, copy, last, bounds>>

\* recvmsg reads the size, and discards the message if it cannot be right.
\* Bytes that are no size may or may not look like one.
ConReadSize(s) ==
  \E to \in {"con_body", "con_discard"} :
    /\ SubGoto(s, "con_size", to)
    /\ to = "con_discard" => data[ref[s].val].size = 0
    /\ copy' = [copy EXCEPT ![s].size = data[ref[s].val].size]
    /\ UNCHANGED <<shared, publ, ref, half, idx, drops, last, bounds>>

ConReadBody(s) ==
  /\ SubGoto(s, "con_body", "con_end")
  /\ copy' = [copy EXCEPT ![s].body = data[ref[s].val].body]
  /\ UNCHANGED <<shared, publ, ref, half, idx, drops, last, bounds>>

\* lf_bcast_sub_consume_end, up to its return value.
ConsumeEnd(s, from, valid) ==
  /\ SubGoto(s, from, "begin")
  /\ drops' = [drops EXCEPT ![s] = IF valid THEN @ ELSE @ + 1]
  /\ idx' = [idx EXCEPT ![s] = @ + 1]
  /\ ref' = [ref EXCEPT ![s] = NoSlot]
  /\ copy' = [copy EXCEPT ![s] = Junk]
  /\ UNCHANGED <<shared, publ, half, bounds>>

\* Mutant: a message that was just rolled off still passes for valid.
ConEnd_OffByOne(s) ==
  LET valid == idx[s] + 1 >= head IN
  /\ ConsumeEnd(s, "con_end", valid)
  /\ last' = [last EXCEPT ![s] = IF valid THEN copy[s] ELSE @]

\* The copy is handed to the caller if the buffer stayed in the queue.
ConEnd(s) ==
  LET valid == idx[s] >= head IN
  /\ ConsumeEnd(s, "con_end", valid)
  /\ last' = [last EXCEPT ![s] = IF valid THEN copy[s] ELSE @]

ConDiscard(s) ==
  /\ ConsumeEnd(s, "con_discard", idx[s] >= head)
  /\ UNCHANGED last

-----------------------------------------------------------------------------
BufAcquire(p) ==
  \/ AcqFromPool(p)
  \/ AcqPoolEmpty(p)
  \/ AcqReadHead(p)
  \/ AcqReadTail(p)
  \/ AcqReadSlot(p)
  \/ AcqCas(p)
  \/ AcqCasFail(p)

Publish(p) ==
  \/ PubLoadFirst(p)
  \/ PubLoadTail(p)
  \/ PubLoadHead(p)
  \/ PubLoadSlot(p)
  \/ PubLoadSlot2(p)
  \/ PubFixTail(p)
  \/ PubDropHead(p)
  \/ PubCas(p)
  \/ PubCasFail(p)
  \/ PubBumpTail(p)
  \/ PubWake(p)

SendMsg(p) ==
  \/ StartSend(p)
  \/ BufAcquire(p)
  \/ FillSize(p)
  \/ FillBody(p)
  \/ Publish(p)

RecvMsg(s) ==
  \/ ConReadTail(s)
  \/ FutexWait(s)
  \/ FutexTimeout(s)
  \/ ConReadRef(s)
  \/ ConReadRef2(s)
  \/ ConReadSize(s)
  \/ ConReadBody(s)
  \/ ConEnd(s)
  \/ ConDiscard(s)

Next ==
  \/ \E p \in Pubs : SendMsg(p) \/ BufRelease(p) \/ Crash(p)
  \/ \E s \in Subs : SubInit(s) \/ RecvMsg(s)

Spec == Init /\ [][Next]_vars

\* Some publisher that can run does, and so does every subscriber; a timeout
\* that was set runs out.
FairSpec ==
  /\ Spec
  /\ WF_vars(\E p \in Pubs : SendMsg(p))
  /\ \A s \in Subs : WF_vars(RecvMsg(s))

-----------------------------------------------------------------------------
(* Properties *)

PubPcs ==
  {"idle", "acq_pool", "acq_head", "acq_tail", "acq_slot", "acq_cas", "starved",
   "fill_size", "fill_body", "pub_first", "pub_tail", "pub_head", "pub_slot",
   "pub_slot2", "pub_fix", "pub_drop", "pub_cas", "pub_bump", "pub_wake",
   "aborted"}

SubPcs ==
  {"off", "begin", "futex", "sleep", "con_ref", "con_ref2", "con_size",
   "con_body", "con_discard", "con_end"}

\* Publishers inside lf_bcast_pub that have not committed, or not returned.
Publishing ==
  {"pub_first", "pub_tail", "pub_head", "pub_slot", "pub_slot2", "pub_fix",
   "pub_drop", "pub_cas", "pub_bump", "pub_wake"}

\* Publishers that own a buffer.
Owning ==
  {"fill_size", "fill_body", "aborted"} \cup (Publishing \ {"pub_bump", "pub_wake"})

SharedTypes ==
  /\ head \in Nat \ {0}
  /\ tail \in Nat \ {0}
  /\ slots \in [0..Depth - 1 -> Slot]
  /\ pool \in SUBSET Bufs
  /\ data \in [Bufs -> Buffer]
  /\ log \in Seq([msg : Msgs, buf : Bufs])

PubTypes ==
  /\ pc \in [Pubs -> PubPcs]
  /\ buf \in [Pubs -> 0..NumBufs]
  /\ msg \in [Pubs -> 0..MaxMsgs]
  /\ h \in [Pubs -> Nat]
  /\ t \in [Pubs -> Nat]
  /\ cur \in [Pubs -> Slot]
  /\ left \in [Pubs -> Halves]

SubTypes ==
  /\ spc \in [Subs -> SubPcs]
  /\ idx \in [Subs -> Nat]
  /\ drops \in [Subs -> Nat]
  /\ ref \in [Subs -> Slot]
  /\ half \in [Subs -> Halves]
  /\ copy \in [Subs -> Buffer]
  /\ last \in [Subs -> Buffer]

BoundTypes ==
  /\ sent \in 0..MaxMsgs
  /\ released \in Nat
  /\ leaked \in SUBSET Bufs
  /\ crashes \in Nat

\* The shape of the shared region and of the locals.
TypeOK == SharedTypes /\ PubTypes /\ SubTypes /\ BoundTypes

N == Len(log)

\* The indices of the messages in the queue.
Queued == head..N

\* The queue's window over the log: the tail is the log's end or one message
\* behind it, the head never passes the tail, and no more messages are queued
\* than there are slots.
Window ==
  /\ head <= tail
  /\ tail \in {N, N + 1}
  /\ N < head + Depth

\* Every queued message is where subscribers look for it: its slot carries its
\* index and its buffer, although lf_bcast_pub tests and writes the slot at
\* different moments.
SlotsIntact ==
  \A i \in 1..N :
    /\ slots[SlotOf(i)].tag >= i
    /\ i + Depth > N => slots[SlotOf(i)] = [tag |-> i, val |-> log[i].buf]

\* A buffer is in one place only: queued once, free, leaked, or owned by one
\* publisher.
OneOwner ==
  /\ \A i, j \in Queued : log[i].buf = log[j].buf => i = j
  /\ \A i \in Queued : log[i].buf \notin pool \cup leaked
  /\ \A p \in Pubs : \A i \in Queued : log[i].buf # buf[p]
  /\ \A p \in Pubs : buf[p] \notin pool \cup leaked
  /\ \A p \in Pubs : pc[p] \in Owning <=> buf[p] # 0
  /\ \A p, q \in Pubs : buf[p] = buf[q] /\ buf[p] # 0 => p = q
  /\ pool \cap leaked = {}

\* No publisher writes into a buffer while it is queued.
QueuedDataWhole ==
  \A i \in Queued : data[log[i].buf] = Whole(log[i].msg)

\* A message whose tail bump lost a race is not published again.
PublishedOnce ==
  \A i, j \in 1..N : log[i].msg = log[j].msg => i = j

\* The facts about locals that make the four invariants above inductive.

\* Slots only ever carry indices of the log, and then a buffer.
SlotTags ==
  \A x \in 0..Depth - 1 :
    /\ slots[x].tag <= N
    /\ slots[x].tag # 0 => slots[x].val # 0

\* A publisher's indices are old values of head and tail, a buffer it has
\* filled holds its message, and what it has checked stays true.
PubLocal(p) ==
  /\ h[p] <= head
  /\ t[p] <= tail
  /\ cur[p].tag <= N
  /\ pc[p] # "idle" => msg[p] # 0
  /\ pc[p] = "fill_body" => data[buf[p]].size = msg[p]
  /\ pc[p] \in Owning \ {"fill_size", "fill_body"} =>
       data[buf[p]] = Whole(msg[p])
  /\ pc[p] \in {"acq_tail", "acq_slot", "acq_cas", "pub_tail"} => h[p] # 0
  /\ pc[p] \in {"acq_slot", "acq_cas"} => h[p] < tail
  /\ pc[p] = "acq_cas" /\ h[p] = head => cur[p].val = log[head].buf
  /\ pc[p] = "pub_head" => t[p] # 0
  /\ pc[p] \in {"pub_slot", "pub_slot2"} => h[p] # 0 /\ t[p] # 0
  /\ pc[p] \in {"pub_fix", "pub_bump"} => t[p] \in 1..N
  /\ pc[p] = "pub_drop" => 0 < h[p] /\ h[p] < t[p]
  /\ pc[p] = "pub_cas" => t[p] # 0 /\ cur[p].tag < t[p] /\ cur[p].tag < h[p]

PubLocals == \A p \in Pubs : PubLocal(p)

\* What a subscriber has loaded is right as long as its message is queued.
SubLocal(s) ==
  /\ idx[s] <= tail
  /\ spc[s] = "off" <=> idx[s] = 0
  /\ spc[s] \in SubPcs \ {"off", "begin", "futex", "sleep"} => idx[s] < tail
  /\ spc[s] = "con_ref2" /\ half[s] = "tag" => ref[s].val # 0
  /\ spc[s] \in {"con_size", "con_body"} => ref[s].val # 0
  /\ idx[s] >= head =>
       /\ spc[s] = "con_ref2" =>
            IF half[s] = "val" THEN ref[s].tag = idx[s]
                               ELSE ref[s].val = log[idx[s]].buf
       /\ spc[s] \in {"con_size", "con_body"} => ref[s].val = log[idx[s]].buf
       /\ spc[s] = "con_body" => copy[s].size = log[idx[s]].msg
       /\ spc[s] = "con_end" => copy[s] = Whole(log[idx[s]].msg)
       /\ spc[s] # "con_discard"

SubLocals == \A s \in Subs : SubLocal(s)

\* The inductive invariant of the queue.
QueueInv ==
  /\ TypeOK
  /\ Window
  /\ SlotsIntact
  /\ SlotTags
  /\ OneOwner
  /\ QueuedDataWhole
  /\ PubLocals
  /\ SubLocals

\* Where a publisher has nothing to commit, any more.
Committed == {"idle", "pub_bump", "pub_wake"}

\* A message is one publisher's until it is committed.
MsgsApart ==
  /\ \A i \in 1..N : log[i].msg <= sent
  /\ \A p \in Pubs : msg[p] <= sent
  /\ \A p, q \in Pubs : msg[p] = msg[q] /\ msg[p] # 0 => p = q
  /\ \A p \in Pubs : pc[p] \notin Committed =>
       \A i \in 1..N : log[i].msg # msg[p]

OnceInv == MsgsApart /\ PublishedOnce

\* As many elements as slots: a publisher that owns a buffer never finds the
\* queue full, so try_drop_head in lf_bcast_pub never drops a message and a
\* head that seems full is a stale one.
NeverFullWhilePublishing ==
  \A p \in Pubs : pc[p] = "pub_drop" => head # h[p]

\* A slot only carries indices that belong there, and so does a copy of it: the
\* message that lf_bcast_pub is to drop is one turn or more behind its own.
DropsBehind ==
  /\ \A x \in 0..Depth - 1 : slots[x].tag # 0 => SlotOf(slots[x].tag) = x
  /\ \A p \in Pubs : pc[p] = "pub_slot2" /\ cur[p].tag # 0 =>
                       SlotOf(cur[p].tag) = SlotOf(t[p])
  /\ \A p \in Pubs : pc[p] = "pub_drop" => SlotOf(h[p]) = SlotOf(t[p])

\* lf_bcast_buf_acquire finds nothing, and sendmsg aborts, only if the other
\* publishers and the crashed ones can hold every element between them.
StarvedOnlyIfUndersized ==
  \A p \in Pubs : pc[p] = "starved" =>
    Depth < Cardinality(Pubs) + crashes + released

\* The queue rolls a message off only when the elements are used up: whoever
\* takes the head leaves at least the newest messages that the other
\* publishers, crashed publishers and buffers given back cannot account for.
Retention ==
  [][head' # head =>
       Depth < (N - head + 1) + Cardinality(Pubs) + crashes + released]_vars

\* A subscriber sleeps through a message only while a publisher that has
\* committed one is about to wake it, although any publisher may advance the tail
\* for another.  Two things excuse it: a crash on the way to futex_wake, or a tail
\* that came round to the same word between the test and futex_wait.
NoLostWakeup ==
  \A s \in Subs : spc[s] = "sleep" /\ idx[s] # tail =>
    \/ \E p \in Pubs : pc[p] \in {"pub_bump", "pub_wake"}
    \/ crashes > 0
    \/ tail - idx[s] >= FutexMod

\* A tail that is behind the log is its committer's to advance.
TailOwed ==
  tail = N => \/ \E p \in Pubs : pc[p] = "pub_bump" /\ t[p] = N
              \/ crashes > 0

WakeInv == TailOwed /\ NoLostWakeup

\* Every buffer is somewhere.
Somewhere(b) ==
  \/ b \in pool \cup leaked
  \/ \E p \in Pubs : buf[p] = b
  \/ \E i \in Queued : log[i].buf = b

Accounted == \A b \in Bufs : Somewhere(b)

\* Once lf_pool_acquire found nothing, only buffers given back are free.
PoolSpent ==
  \A p \in Pubs : pc[p] \in {"acq_head", "acq_tail", "acq_slot", "acq_cas"} =>
    Cardinality(pool) <= released

\* Every leaked buffer is a crash's; so is a tail that nobody is to advance.
LeaksOwed ==
  /\ Cardinality(leaked) <= crashes
  /\ tail = N => \/ \E p \in Pubs : pc[p] = "pub_bump" /\ t[p] = N
                 \/ Cardinality(leaked) < crashes

CountInv == Accounted /\ PoolSpent /\ LeaksOwed /\ StarvedOnlyIfUndersized

\* The queue implements BcastLog: every subscriber sees every message from
\* where it joined, in order, whole, or counted as dropped, and dropped only
\* if the queue rolled it off.
Abstract == INSTANCE BcastLog WITH
  Msgs <- {Whole(m) : m \in Msgs},
  None <- Junk,
  log <- [i \in 1..N |-> Whole(log[i].msg)],
  first <- head,
  next <- idx

ImplementsBcastLog == Abstract!Spec

\* lf_bcast_pub "cannot fail" (lf_bcast.h): its assertion on the head holds.
PubCannotFail == \A p \in Pubs : pc[p] # "aborted"

\* Every publish ends and every subscriber gets to the end of the queue, with
\* publishers crashing anywhere and the futex comparing truncated indices.
CatchUp ==
  <>[](/\ \A p \in Pubs : pc[p] \in {"idle", "starved", "aborted"}
       /\ \A s \in Subs : idx[s] \in {0, tail})
=============================================================================
