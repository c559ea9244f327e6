--------------------------- MODULE LfBcastSafety ----------------------------
(***************************************************************************)
(* What follows from the invariant of the broadcast queue: a message is    *)
(* published once, no sleeper is forgotten, lf_bcast_pub drops no message, *)
(* and, by counting where the elements are, who starves and what is        *)
(* retained.                                                               *)
(***************************************************************************)
EXTENDS LfBcastProofs, FiniteSetTheorems

\* A leaf is left to Zenon unless it names another prover.
USE Zenon

-----------------------------------------------------------------------------
(* Each message is published once. *)

\* What a step of p does to messages, unless it starts or commits one: its own
\* may go, when it is done with it.
Keeps(p) ==
  /\ UNCHANGED <<log, sent>>
  /\ msg' = msg \/ (msg' = [msg EXCEPT ![p] = 0] /\ pc'[p] = "idle")
  /\ \E l \in PubPcs : pc' = [pc EXCEPT ![p] = l] /\ (pc[p] \in Committed => l \in Committed)

LEMMA KeepsOnce ==
  ASSUME OnceInv, TypeOK, NEW p \in Pubs, Keeps(p)
  PROVE  OnceInv'
<1>1. /\ msg \in [Pubs -> 0..MaxMsgs] /\ pc \in [Pubs -> PubPcs] /\ sent \in Nat
  BY SMT DEF TypeOK, PubTypes, BoundTypes
<1>2. /\ UNCHANGED <<log, sent, N>>
      /\ \A q \in Pubs : \/ msg'[q] = msg[q] /\ (pc'[q] \in Committed \/ pc[q] \notin Committed)
                         \/ msg'[q] = 0 /\ pc'[q] \in Committed
  <2>1. \A q \in Pubs : q # p => msg'[q] = msg[q] /\ pc'[q] = pc[q]
    BY <1>1 DEF Keeps
  <2>2. msg'[p] = msg[p] \/ (msg'[p] = 0 /\ pc'[p] = "idle")
    BY <1>1 DEF Keeps
  <2>3. pc'[p] \in Committed \/ pc[p] \notin Committed
    BY <1>1 DEF Keeps
  <2>4. "idle" \in Committed /\ UNCHANGED <<log, sent, N>>
    BY DEF Committed, Keeps, N
  <2> QED  BY <2>1, <2>2, <2>3, <2>4
<1>3. 0 <= sent
  BY SMT, <1>1
<1>4. PublishedOnce'
  BY <1>2 DEF OnceInv, PublishedOnce
<1>5. \A q \in Pubs : msg'[q] <= sent'
  BY <1>2, <1>3 DEF OnceInv, MsgsApart
<1>6. \A q, r \in Pubs : msg'[q] = msg'[r] /\ msg'[q] # 0 => q = r
  BY <1>2 DEF OnceInv, MsgsApart
<1>7. ASSUME NEW q \in Pubs, pc'[q] \notin Committed, NEW i \in (1..N)'
      PROVE  log'[i].msg # msg'[q]
  BY <1>2, <1>7 DEF OnceInv, MsgsApart
<1> QED  BY <1>2, <1>4, <1>5, <1>6, <1>7 DEF OnceInv, MsgsApart

LEMMA StartOnce ==
  ASSUME OnceInv, TypeOK, NEW p \in Pubs, StartSend(p)
  PROVE  OnceInv'
<1>1. /\ msg \in [Pubs -> 0..MaxMsgs] /\ pc \in [Pubs -> PubPcs] /\ sent \in Nat
      /\ log \in Seq([msg : Msgs, buf : Bufs]) /\ N \in Nat
  BY SMT DEF TypeOK, SharedTypes, PubTypes, BoundTypes, N
<1>2. /\ sent' = sent + 1 /\ UNCHANGED <<log, N>> /\ pc[p] = "idle"
      /\ msg'[p] = sent + 1 /\ \A q \in Pubs : q # p => msg'[q] = msg[q] /\ pc'[q] = pc[q]
  BY <1>1 DEF StartSend, Goto, shared, N
<1>3. \A q \in Pubs : msg[q] \in Nat /\ msg[q] <= sent
  BY SMT, <1>1 DEF OnceInv, MsgsApart
<1>4. \A i \in 1..N : log[i].msg \in Nat /\ log[i].msg <= sent
  <2>1. \A i \in 1..N : log[i].msg \in Msgs
    BY LogTypes
  <2> QED  BY SMT, <2>1 DEF OnceInv, MsgsApart, Msgs
<1>5. PublishedOnce'
  BY <1>2 DEF OnceInv, PublishedOnce
<1>6. \A i \in 1..N : log[i].msg <= sent + 1 /\ log[i].msg # sent + 1
  BY SMT, <1>1, <1>4
<1>7. \A q \in Pubs : q # p => msg'[q] <= sent + 1 /\ msg'[q] # sent + 1
  BY SMTT(30), <1>1, <1>2, <1>3
<1>8. \A q \in Pubs : msg'[q] <= sent'
  <2>1. sent + 1 <= sent + 1
    BY SMT, <1>1
  <2> QED  BY <1>2, <1>7, <2>1
<1>9. \A q, r \in Pubs : msg'[q] = msg'[r] /\ msg'[q] # 0 => q = r
  BY ZenonT(40), <1>2, <1>7 DEF OnceInv, MsgsApart
<1>10. ASSUME NEW q \in Pubs, pc'[q] \notin Committed, NEW i \in 1..N
       PROVE  log[i].msg # msg'[q]
  BY <1>2, <1>6, <1>10 DEF OnceInv, MsgsApart
<1> QED  BY <1>2, <1>5, <1>6, <1>8, <1>9, <1>10 DEF OnceInv, MsgsApart

LEMMA CommitOnce ==
  ASSUME OnceInv, TypeOK, NEW p \in Pubs, PubCas(p), msg[p] # 0
  PROVE  OnceInv'
<1>1. /\ msg \in [Pubs -> 0..MaxMsgs] /\ pc \in [Pubs -> PubPcs] /\ sent \in Nat
      /\ log \in Seq([msg : Msgs, buf : Bufs]) /\ N \in Nat
  BY SMT DEF TypeOK, SharedTypes, PubTypes, BoundTypes, N
<1> DEFINE entry == [msg |-> msg[p], buf |-> buf[p]]
<1>2. /\ UNCHANGED <<msg, sent>> /\ log' = Append(log, entry) /\ entry.msg = msg[p]
      /\ pc[p] \notin Committed /\ pc'[p] \in Committed
      /\ \A q \in Pubs : q # p => pc'[q] = pc[q]
  BY <1>1 DEF PubCas, Goto, bounds, Committed
<1> HIDE DEF entry
<1>3. N' = N + 1 /\ log'[N + 1] = entry /\ \A i \in 1..N : log'[i] = log[i]
  <2>1. log \in Seq([msg : Msgs, buf : Bufs]) /\ log' = Append(log, entry)
    BY <1>1, <1>2
  <2> QED  BY SMT, <2>1 DEF N
<1>4. \A i \in 1..N + 1 : i \in 1..N \/ i = N + 1
  BY SMT, <1>1
<1>5. log'[N + 1].msg = msg[p] /\ \A i \in 1..N : log'[i].msg = log[i].msg /\ log[i].msg # msg[p]
  BY <1>2, <1>3 DEF OnceInv, MsgsApart
<1>6. PublishedOnce'
  <2>1. ASSUME NEW i \in 1..N + 1, NEW j \in 1..N + 1, log'[i].msg = log'[j].msg
        PROVE  i = j
    <3>1. CASE i \in 1..N /\ j \in 1..N
      BY <1>5, <2>1, <3>1 DEF OnceInv, PublishedOnce
    <3>2. CASE i = N + 1 \/ j = N + 1
      BY <1>4, <1>5, <2>1, <3>2
    <3> QED  BY <1>4, <3>1, <3>2
  <2> QED  BY <1>3, <2>1 DEF PublishedOnce
<1>7. \A i \in 1..N + 1 : log'[i].msg <= sent
  BY <1>4, <1>5 DEF OnceInv, MsgsApart
<1>8. ASSUME NEW q \in Pubs, pc'[q] \notin Committed, NEW i \in 1..N + 1
      PROVE  log'[i].msg # msg[q]
  <2>1. q # p /\ pc[q] \notin Committed /\ msg[q] # msg[p]
    BY <1>2, <1>8 DEF OnceInv, MsgsApart
  <2> QED  BY <1>4, <1>5, <2>1 DEF OnceInv, MsgsApart
<1> QED  BY <1>2, <1>3, <1>6, <1>7, <1>8 DEF OnceInv, MsgsApart

\* Only the start of sendmsg and the commit are more than that.
LEMMA KeepsSteps ==
  ASSUME QueueInv, NEW p \in Pubs,
         \/ BufAcquire(p) \/ FillSize(p) \/ FillBody(p) \/ BufRelease(p) \/ Crash(p)
         \/ (Publish(p) /\ ~PubCas(p))
  PROVE  Keeps(p)
<1>1. pc \in [Pubs -> PubPcs]
  BY DEF QueueInv, TypeOK, PubTypes
<1>2. CASE BufAcquire(p)
  BY <1>2
     DEF BufAcquire, AcqFromPool, AcqPoolEmpty, AcqReadHead, AcqReadTail, AcqReadSlot, AcqCas,
         AcqCasFail, Keeps, Goto, shared, plocals, bounds, PubPcs, Committed
<1>3. CASE FillSize(p) \/ FillBody(p) \/ BufRelease(p)
  BY <1>1, <1>3
     DEF FillSize, FillBody, BufRelease, Keeps, Goto, plocals, bounds, PubPcs, Committed
<1>4. CASE Crash(p)
  BY <1>1, <1>4 DEF Crash, Keeps, shared, PubPcs, Committed
<1>5. CASE Publish(p) /\ ~PubCas(p)
  <2>1. CASE PubLoadSlot2(p)
    <3>1. PICK l : pc[p] = "pub_slot2" /\ pc' = [pc EXCEPT ![p] = l] /\ UNCHANGED <<log, sent, msg>>
      BY <2>1 DEF PubLoadSlot2, Goto, shared, plocals, bounds
    <3>2. SendMsg(p)
      BY <2>1 DEF SendMsg, Publish
    <3>3. pc' \in [Pubs -> PubPcs] /\ pc'[p] = l
      BY <1>1, <3>1, <3>2, SendTypes DEF TypeOK, PubTypes
    <3> QED  BY <3>1, <3>3 DEF Keeps, Committed
  <2>2. CASE PubWake(p)
    BY <1>1, <2>2 DEF PubWake, Keeps, Goto, shared, bounds, PubPcs, Committed
  <2>3. CASE ~PubLoadSlot2(p) /\ ~PubWake(p)
    BY <1>5, <2>3
       DEF Publish, PubLoadFirst, PubLoadTail, PubLoadHead, PubLoadSlot, PubFixTail, PubDropHead,
           PubCasFail, PubBumpTail, Keeps, Goto, shared, plocals, bounds, PubPcs, Committed
  <2> QED  BY <2>1, <2>2, <2>3
<1> QED  BY <1>2, <1>3, <1>4, <1>5

LEMMA NextOnce == QueueInv /\ OnceInv /\ [Next]_vars => OnceInv'
<1> SUFFICES ASSUME QueueInv, OnceInv, [Next]_vars PROVE OnceInv'
  BY SMT
<1>1. TypeOK /\ PubLocals
  BY DEF QueueInv
<1>2. ASSUME UNCHANGED <<log, sent, msg, pc>> PROVE OnceInv'
  BY <1>2 DEF OnceInv, MsgsApart, PublishedOnce, N
<1>3. CASE UNCHANGED vars
  BY <1>2, <1>3 DEF vars, shared, publ, plocals, bounds
<1>4. ASSUME NEW s \in Subs, SubInit(s) \/ RecvMsg(s) PROVE OnceInv'
  <2>1. UNCHANGED <<shared, publ, bounds>>
    BY <1>4
       DEF SubInit, RecvMsg, ConReadTail, FutexWait, FutexTimeout, ConReadRef, ConReadRef2,
           ConReadSize, ConReadBody, ConEnd, ConDiscard, ConsumeEnd
  <2> QED  BY <1>2, <2>1 DEF shared, publ, plocals, bounds
<1>5. ASSUME NEW p \in Pubs, SendMsg(p) \/ BufRelease(p) \/ Crash(p) PROVE OnceInv'
  <2>1. CASE StartSend(p)
    BY <1>1, <2>1, StartOnce
  <2>2. CASE PubCas(p)
    <3>1. msg[p] # 0
      BY SMTT(30), <1>1, <2>2 DEF PubLocals, PubLocal, PubCas, Goto
    <3> QED  BY <1>1, <2>2, <3>1, CommitOnce
  <2>3. CASE ~StartSend(p) /\ ~PubCas(p)
    <3>1. Keeps(p)
      BY <1>1, <1>5, <2>3, KeepsSteps DEF SendMsg
    <3> QED  BY <1>1, <3>1, KeepsOnce
  <2> QED  BY <2>1, <2>2, <2>3
<1> QED  BY <1>3, <1>4, <1>5 DEF Next

-----------------------------------------------------------------------------
(* No subscriber is left asleep. *)

\* A publisher that has committed keeps on, and nobody falls asleep.
LEMMA QuietWake ==
  ASSUME WakeInv, UNCHANGED <<tail, log, crashes>>,
         \A q \in Pubs : pc[q] \in {"pub_bump", "pub_wake"} => pc'[q] = pc[q] /\ t'[q] = t[q],
         \A s \in Subs : spc'[s] = "sleep" => spc[s] = "sleep" /\ idx'[s] = idx[s]
  PROVE  WakeInv'
<1>1. N' = N
  BY DEF N
<1>2. TailOwed'
  BY <1>1 DEF WakeInv, TailOwed
<1>3. NoLostWakeup'
  <2>1. ASSUME NEW s \in Subs, spc'[s] = "sleep", idx'[s] # tail'
        PROVE  \/ \E p \in Pubs : pc'[p] \in {"pub_bump", "pub_wake"}
               \/ crashes' > 0
               \/ tail' - idx'[s] >= FutexMod
    <3>1. \/ \E p \in Pubs : pc[p] \in {"pub_bump", "pub_wake"}
          \/ crashes > 0
          \/ tail - idx[s] >= FutexMod
      BY <2>1 DEF WakeInv, NoLostWakeup
    <3>2. idx'[s] = idx[s]
      BY <2>1
    <3> QED  BY <3>1, <3>2
  <2> QED  BY <2>1 DEF NoLostWakeup
<1> QED  BY <1>2, <1>3 DEF WakeInv

\* While a publisher that has committed is there, nobody sleeps for good.
LEMMA AwakeBy ==
  ASSUME NEW p \in Pubs, pc'[p] \in {"pub_bump", "pub_wake"}
  PROVE  NoLostWakeup'
BY DEF NoLostWakeup

LEMMA CommitWake ==
  ASSUME QueueInv, NEW p \in Pubs, PubCas(p), t[p] = N + 1
  PROVE  WakeInv'
<1>1. /\ pc \in [Pubs -> PubPcs] /\ log \in Seq([msg : Msgs, buf : Bufs])
  BY DEF QueueInv, TypeOK, SharedTypes, PubTypes
<1> DEFINE entry == [msg |-> msg[p], buf |-> buf[p]]
<1>2. pc'[p] = "pub_bump" /\ t' = t /\ log' = Append(log, entry)
  BY <1>1 DEF PubCas, Goto
<1> HIDE DEF entry
<1>3. N' = N + 1
  BY SMT, <1>1, <1>2 DEF N
<1>4. TailOwed'
  BY <1>2, <1>3 DEF TailOwed
<1> QED  BY <1>2, <1>4, AwakeBy DEF WakeInv

\* Whoever finds a stale tail, its committer is there too.
LEMMA FixWake ==
  ASSUME QueueInv, WakeInv, NEW p \in Pubs, PubFixTail(p)
  PROVE  WakeInv'
<1>1. /\ pc \in [Pubs -> PubPcs] /\ t \in [Pubs -> Nat] /\ N \in Nat /\ tail \in Nat
      /\ PubLocal(p) /\ tail \in {N, N + 1}
  BY IndexTypes DEF QueueInv, TypeOK, SharedTypes, PubTypes, PubLocals, Window
<1>2. /\ pc[p] = "pub_fix" /\ UNCHANGED <<log, crashes, spc, idx>>
      /\ tail' = IF tail = t[p] THEN tail + 1 ELSE tail
      /\ \A q \in Pubs : q # p => pc'[q] = pc[q] /\ t'[q] = t[q]
  BY <1>1 DEF PubFixTail, Goto, Forget, subl, slocals, bounds
<1>3. CASE tail # t[p]
  BY <1>2, <1>3, QuietWake
<1>4. CASE tail = t[p]
  <2>1. t[p] \in 1..N
    BY <1>1, <1>2 DEF PubLocal
  <2>2. tail = N /\ tail' # N
    BY SMT, <1>1, <1>2, <1>4, <2>1
  <2>3. TailOwed'
    BY <1>2, <2>2 DEF TailOwed, N
  <2>4. (\E q \in Pubs : pc[q] = "pub_bump") \/ crashes > 0
    BY <2>2 DEF WakeInv, TailOwed
  <2>5. NoLostWakeup'
    <3>1. CASE crashes > 0
      BY <1>2, <3>1 DEF NoLostWakeup
    <3>2. ASSUME NEW q \in Pubs, pc[q] = "pub_bump" PROVE NoLostWakeup'
      <4>1. q # p
        BY <1>2, <3>2
      <4> QED  BY <1>2, <3>2, <4>1, AwakeBy
    <3> QED  BY <2>4, <3>1, <3>2
  <2> QED  BY <2>3, <2>5 DEF WakeInv
<1> QED  BY <1>3, <1>4

LEMMA BumpWake ==
  ASSUME QueueInv, WakeInv, NEW p \in Pubs, PubBumpTail(p)
  PROVE  WakeInv'
<1>1. /\ pc \in [Pubs -> PubPcs] /\ t \in [Pubs -> Nat] /\ N \in Nat /\ tail \in Nat
      /\ PubLocal(p) /\ tail \in {N, N + 1}
  BY IndexTypes DEF QueueInv, TypeOK, SharedTypes, PubTypes, PubLocals, Window
<1>2. /\ pc[p] = "pub_bump" /\ pc'[p] = "pub_wake" /\ UNCHANGED <<log, crashes, t>>
      /\ tail' = IF tail = t[p] THEN tail + 1 ELSE tail
      /\ \A q \in Pubs : q # p => pc'[q] = pc[q]
  BY <1>1 DEF PubBumpTail, Goto, plocals, bounds
<1>3. TailOwed'
  <2>1. CASE tail # t[p]
    BY <1>2, <2>1 DEF WakeInv, TailOwed, N
  <2>2. CASE tail = t[p]
    <3>1. t[p] \in 1..N
      BY <1>1, <1>2 DEF PubLocal
    <3>2. tail' # N
      BY SMTT(30), <1>1, <1>2, <2>2, <3>1
    <3> QED  BY <1>2, <3>2 DEF TailOwed, N
  <2> QED  BY <2>1, <2>2
<1> QED  BY <1>2, <1>3, AwakeBy DEF WakeInv

LEMMA WakeWake ==
  ASSUME QueueInv, WakeInv, NEW p \in Pubs, PubWake(p) \/ Crash(p)
  PROVE  WakeInv'
<1>1. /\ pc \in [Pubs -> PubPcs] /\ t \in [Pubs -> Nat] /\ crashes \in Nat
  BY DEF QueueInv, TypeOK, PubTypes, BoundTypes
<1>2. CASE PubWake(p)
  <2>1. /\ pc[p] = "pub_wake" /\ UNCHANGED <<tail, log, crashes>>
        /\ \A q \in Pubs : q # p => pc'[q] = pc[q] /\ t'[q] = t[q]
        /\ \A s \in Subs : spc'[s] # "sleep"
    BY <1>1, <1>2 DEF PubWake, Goto, Forget, shared, bounds
  <2>2. TailOwed'
    BY <2>1 DEF WakeInv, TailOwed, N
  <2> QED  BY <2>1, <2>2 DEF WakeInv, NoLostWakeup
<1>3. CASE Crash(p)
  <2>1. crashes' = crashes + 1
    BY <1>3 DEF Crash
  <2>2. crashes' > 0
    <3>1. crashes \in Nat
      BY <1>1
    <3> QED  BY <2>1, <3>1, CountUp
  <2> QED  BY <2>2 DEF WakeInv, TailOwed, NoLostWakeup
<1> QED  BY <1>2, <1>3

\* futex_wait compares before it sleeps: the tail is still the one that was
\* tested, or has come round.
LEMMA SleepWake ==
  ASSUME QueueInv, WakeInv, NEW s \in Subs, FutexWait(s)
  PROVE  WakeInv'
<1>1. /\ spc \in [Subs -> SubPcs] /\ idx[s] \in Nat /\ tail \in Nat
  BY DEF QueueInv, TypeOK, SharedTypes, SubTypes
<1>2. /\ UNCHANGED <<tail, log, crashes, pc, t, idx>>
      /\ \A r \in Subs : r # s => spc'[r] = spc[r]
      /\ spc'[s] = "sleep" => tail % FutexMod = idx[s] % FutexMod
  BY <1>1 DEF FutexWait, SubGoto, shared, publ, plocals, slocals, bounds
<1>3. spc'[s] = "sleep" /\ idx[s] # tail => tail - idx[s] >= FutexMod
  <2>1. idx[s] <= tail
    BY DEF QueueInv, SubLocals, SubLocal
  <2>2. FutexMod \in Nat \ {0}
    BY FutexModAssumption DEF FutexModAssumption
  <2>3. idx[s] < tail /\ tail < idx[s] + FutexMod =>
          idx[s] % FutexMod # tail % FutexMod
    BY <1>1, <2>2, RemaindersDiffer
  <2>4. CASE idx[s] # tail /\ tail - idx[s] < FutexMod
    <3>1. idx[s] < tail /\ tail < idx[s] + FutexMod
      BY SMTT(30), <1>1, <2>1, <2>2, <2>4
    <3> QED  BY <1>2, <2>3, <3>1
  <2>5. tail - idx[s] < FutexMod \/ tail - idx[s] >= FutexMod
    BY SMTT(30), <1>1, <2>2
  <2> QED  BY <2>4, <2>5
<1>4. TailOwed'
  BY <1>2 DEF WakeInv, TailOwed, N
<1>5. NoLostWakeup'
  BY <1>2, <1>3 DEF WakeInv, NoLostWakeup
<1> QED  BY <1>4, <1>5 DEF WakeInv

LEMMA NextWake == QueueInv /\ WakeInv /\ [Next]_vars => WakeInv'
<1> SUFFICES ASSUME QueueInv, WakeInv, [Next]_vars PROVE WakeInv'
  BY SMT
<1>1. CASE UNCHANGED vars
  <2>1. UNCHANGED <<tail, log, crashes, pc, t, spc, idx>>
    BY <1>1 DEF vars, shared, publ, plocals, subl, slocals, bounds
  <2> QED  BY <2>1, QuietWake
<1>2. ASSUME NEW s \in Subs, SubInit(s) \/ RecvMsg(s), ~FutexWait(s) PROVE WakeInv'
  <2>1. UNCHANGED <<shared, publ, bounds>>
    BY <1>2
       DEF SubInit, RecvMsg, ConReadTail, FutexTimeout, ConReadRef, ConReadRef2, ConReadSize,
           ConReadBody, ConEnd, ConDiscard, ConsumeEnd
  <2>2. TypeOK /\ spc \in [Subs -> SubPcs]
    BY DEF QueueInv, TypeOK, SubTypes
  <2>3. spc'[s] # "sleep"
    BY <1>2, <2>2
       DEF SubInit, RecvMsg, ConReadTail, FutexTimeout, ConReadRef, ConReadRef2, ConReadSize,
           ConReadBody, ConEnd, ConDiscard, ConsumeEnd, SubGoto
  <2>4. \A r \in Subs \ {s} : spc'[r] = spc[r] /\ idx'[r] = idx[r]
    BY <1>2, <2>2, OtherSubs
  <2> QED  BY <2>1, <2>3, <2>4, QuietWake DEF shared, publ, plocals, bounds
<1>3. ASSUME NEW p \in Pubs, SendMsg(p) \/ BufRelease(p) \/ Crash(p),
             ~PubCas(p), ~PubFixTail(p), ~PubBumpTail(p), ~PubWake(p), ~Crash(p)
      PROVE  WakeInv'
  <2>1. /\ UNCHANGED <<tail, log, crashes, spc, idx>>
        /\ pc[p] \notin {"pub_bump", "pub_wake"}
    <3>1. CASE StartSend(p) \/ BufAcquire(p)
      BY <3>1
         DEF StartSend, BufAcquire, AcqFromPool, AcqPoolEmpty, AcqReadHead, AcqReadTail,
             AcqReadSlot, AcqCas, AcqCasFail, Goto, shared, subl, slocals, bounds
    <3>2. CASE FillSize(p) \/ FillBody(p) \/ BufRelease(p)
      BY <3>2 DEF FillSize, FillBody, BufRelease, Goto, subl, slocals, bounds
    <3>3. CASE Publish(p)
      BY <1>3, <3>3
         DEF Publish, PubLoadFirst, PubLoadTail, PubLoadHead, PubLoadSlot, PubLoadSlot2,
             PubDropHead, PubCasFail, Goto, shared, subl, slocals, bounds
    <3> QED  BY <1>3, <3>1, <3>2, <3>3 DEF SendMsg
  <2>2. \A q \in Pubs \ {p} : pc'[q] = pc[q] /\ t'[q] = t[q]
    BY <1>3, StepFacts DEF SamePub
  <2> QED  BY <2>1, <2>2, QuietWake
<1>4. ASSUME NEW p \in Pubs, PubCas(p) PROVE WakeInv'
  BY <1>4, CommitAt, CommitWake
<1> QED
  BY <1>1, <1>2, <1>3, <1>4, FixWake, BumpWake, WakeWake, SleepWake DEF Next, RecvMsg

\* PublishedOnce: a message is committed once, however often lf_bcast_pub goes
\* round its loop and whoever advances the tail for it.
THEOREM QueueOnce == Spec => []PublishedOnce
<1>1. Init => OnceInv
  <2> SUFFICES ASSUME Init PROVE OnceInv
    BY SMT
  <2>1. N = 0 /\ sent = 0 /\ \A p \in Pubs : msg[p] = 0 /\ pc[p] = "idle"
    BY SMT DEF Init, InitRest, N
  <2>2. 1..N = {}
    BY SMT, <2>1
  <2>3. \A p \in Pubs : msg[p] <= sent
    BY SMT, <2>1
  <2> QED  BY <2>1, <2>2, <2>3 DEF OnceInv, MsgsApart, PublishedOnce, Committed
<1>2. OnceInv => PublishedOnce
  BY DEF OnceInv
<1> QED  BY <1>1, <1>2, NextOnce, QueueInvariant, PTL DEF Spec

\* NoLostWakeup: a subscriber that sleeps past a message is about to be woken,
\* unless a publisher crashed or the tail came round to the same futex word.
THEOREM QueueWakes == Spec => []NoLostWakeup
<1>1. Init => WakeInv
  <2> SUFFICES ASSUME Init PROVE WakeInv
    BY SMT
  <2>1. N = 0 /\ tail = 1 /\ \A s \in Subs : spc[s] = "off"
    BY SMT DEF Init, InitRest, N
  <2>2. tail # N
    BY SMT, <2>1
  <2> QED  BY <2>1, <2>2 DEF WakeInv, TailOwed, NoLostWakeup
<1>2. WakeInv => NoLostWakeup
  BY DEF WakeInv
<1> QED  BY <1>1, <1>2, NextWake, QueueInvariant, PTL DEF Spec

-----------------------------------------------------------------------------
(* lf_bcast_pub never drops a message. *)

\* More indices than buffers: two of them share one.
LEMMA Pigeons ==
  ASSUME NEW n \in Nat, NEW a \in Int, NEW b \in Int, b - a >= n, NEW f \in [a..b -> 1..n]
  PROVE  \E x, y \in a..b : x # y /\ f[x] = f[y]
<1>1. IsFiniteSet(1..n) /\ Cardinality(1..n) = IF 1 > n THEN 0 ELSE n - 1 + 1
  BY SMT, FS_Interval
<1>2. IsFiniteSet(a..b) /\ Cardinality(a..b) = IF a > b THEN 0 ELSE b - a + 1
  BY SMT, FS_Interval
<1>3. Cardinality(1..n) < Cardinality(a..b)
  BY SMTT(30), <1>1, <1>2
<1> QED  BY <1>1, <1>2, <1>3, FS_PigeonHole

\* While a publisher owns a buffer, the queued messages leave a slot free.
LEMMA RoomForOwner ==
  ASSUME QueueInv, NEW p \in Pubs, buf[p] # 0
  PROVE  N + 1 < head + Depth
<1>1. /\ TypeOK /\ head \in Nat \ {0} /\ N \in Nat /\ OneOwner /\ buf[p] \in 0..NumBufs
  BY IndexTypes DEF QueueInv, TypeOK, PubTypes
<1>2. NumBufs = Depth /\ Depth \in Nat /\ Bufs = 1..Depth
  BY SMT, DepthAssumption DEF DepthAssumption, NumBufs, Bufs
<1> DEFINE f == [i \in head..N + 1 |-> IF i = N + 1 THEN buf[p] ELSE log[i].buf]
<1>3. \A i \in head..N + 1 : i = N + 1 \/ (i \in Queued /\ i \in 1..N)
  BY SMT, <1>1 DEF Queued
<1>4. \A i \in Queued : i \in 1..N => log[i].buf \in 1..Depth /\ log[i].buf # buf[p]
  BY <1>1, <1>2, LogTypes DEF OneOwner
<1>5. buf[p] \in 1..Depth
  BY SMT, <1>1, <1>2
<1>6. f \in [head..N + 1 -> 1..Depth]
  BY <1>3, <1>4, <1>5
<1>7. ASSUME NEW x \in head..N + 1, NEW y \in head..N + 1, f[x] = f[y] PROVE x = y
  <2>1. f[x] = (IF x = N + 1 THEN buf[p] ELSE log[x].buf)
        /\ f[y] = (IF y = N + 1 THEN buf[p] ELSE log[y].buf)
    OBVIOUS
  <2> HIDE DEF f
  <2>2. CASE x = N + 1 \/ y = N + 1
    BY <1>3, <1>4, <1>7, <2>1, <2>2
  <2>3. CASE x # N + 1 /\ y # N + 1
    BY ZenonT(40), <1>1, <1>3, <1>7, <2>1, <2>3 DEF OneOwner
  <2> QED  BY <2>2, <2>3
<1> HIDE DEF f
<1>8. ASSUME N + 1 - head >= Depth PROVE FALSE
  <2>1. PICK a \in Int, b \in Int : a = head /\ b = N + 1
    BY SMT, <1>1
  <2>2. b - a >= Depth
    BY SMTT(30), <1>1, <1>2, <1>8, <2>1
  <2>3. f \in [a..b -> 1..Depth]
    BY <1>6, <2>1
  <2>4. \E x, y \in a..b : x # y /\ f[x] = f[y]
    BY ZenonT(40), <1>2, <2>2, <2>3, Pigeons
  <2> QED  BY <1>7, <2>1, <2>4
<1> QED  BY SMTT(30), <1>1, <1>2, <1>8

\* So what is a turn behind has been rolled off already.
LEMMA BehindIsGone ==
  ASSUME QueueInv, DropsBehind
  PROVE  NeverFullWhilePublishing
<1> SUFFICES ASSUME NEW p \in Pubs, pc[p] = "pub_drop" PROVE head # h[p]
  BY DEF NeverFullWhilePublishing
<1>1. /\ head \in Nat /\ N \in Nat /\ tail \in {N, N + 1} /\ h[p] \in Nat /\ t[p] \in Nat
      /\ t[p] <= tail /\ h[p] < t[p] /\ SlotOf(h[p]) = SlotOf(t[p])
      /\ Depth \in Nat
  BY IndexTypes, DepthAssumption
     DEF QueueInv, TypeOK, PubTypes, PubLocals, PubLocal, Window, DropsBehind, DepthAssumption
<1>2. buf[p] # 0
  BY DEF QueueInv, OneOwner, Owning, Publishing
<1>3. N + 1 < head + Depth
  BY <1>2, RoomForOwner
<1>4. ~(t[p] < h[p] + Depth)
  BY <1>1, SlotsDiffer
<1> QED  BY SMT, <1>1, <1>3, <1>4

LEMMA NextBehind == QueueInv /\ DropsBehind /\ [Next]_vars => DropsBehind'
<1> SUFFICES ASSUME QueueInv, DropsBehind, [Next]_vars PROVE DropsBehind'
  OBVIOUS
<1>1. /\ slots \in [0..Depth - 1 -> Slot] /\ t \in [Pubs -> Nat] /\ h \in [Pubs -> Nat]
      /\ cur \in [Pubs -> Slot] /\ left \in [Pubs -> Halves] /\ pc \in [Pubs -> PubPcs]
  BY DEF QueueInv, TypeOK, SharedTypes, PubTypes
<1>2. ASSUME UNCHANGED <<slots, pc, cur, h, t>> PROVE DropsBehind'
  BY <1>2 DEF DropsBehind
<1>3. CASE UNCHANGED vars
  BY <1>2, <1>3 DEF vars, shared, publ, plocals
<1>4. ASSUME NEW s \in Subs, SubInit(s) \/ RecvMsg(s) PROVE DropsBehind'
  <2>1. UNCHANGED <<shared, publ>>
    BY <1>4
       DEF SubInit, RecvMsg, ConReadTail, FutexWait, FutexTimeout, ConReadRef, ConReadRef2,
           ConReadSize, ConReadBody, ConEnd, ConDiscard, ConsumeEnd
  <2> QED  BY <1>2, <2>1 DEF shared, publ, plocals
<1>5. ASSUME NEW p \in Pubs, SendMsg(p) \/ BufRelease(p) \/ Crash(p) PROVE DropsBehind'
  <2>1. \A q \in Pubs \ {p} : SamePub(q)
    BY <1>5, StepFacts
  <2>2. ASSUME slots' = slots,
               pc'[p] = "pub_slot2" /\ cur'[p].tag # 0 => SlotOf(cur'[p].tag) = SlotOf(t'[p]),
               pc'[p] = "pub_drop" => SlotOf(h'[p]) = SlotOf(t'[p])
        PROVE  DropsBehind'
    BY <2>1, <2>2 DEF DropsBehind, SamePub
  <2>3. CASE PubLoadSlot(p)
    <3>1. PICK f \in Halves :
            /\ pc'[p] = "pub_slot2" /\ UNCHANGED <<slots, t>>
            /\ cur'[p] = LoadHalf(NoSlot, slots[SlotOf(t[p])], f)
      BY <1>1, <2>3 DEF PubLoadSlot, Goto, shared
    <3>2. cur'[p].tag \in {0, slots[SlotOf(t[p])].tag}
      BY SMT, <3>1 DEF LoadHalf, NoSlot
    <3>3. SlotOf(t[p]) \in 0..Depth - 1
      BY <1>1, SlotRange
    <3>4. cur'[p].tag # 0 => SlotOf(cur'[p].tag) = SlotOf(t[p])
      BY <3>2, <3>3 DEF DropsBehind
    <3> QED  BY <2>2, <3>1, <3>4
  <2>4. CASE PubLoadSlot2(p)
    <3> DEFINE c == LoadHalf(cur[p], slots[SlotOf(t[p])], left[p])
    <3>1. /\ pc[p] = "pub_slot2" /\ pc'[p] = Verdict(h[p], t[p], c.tag)
          /\ UNCHANGED <<slots, t, h>>
      BY <1>1, <2>4 DEF PubLoadSlot2, Goto, shared
    <3>2. c.tag \in {cur[p].tag, slots[SlotOf(t[p])].tag}
      BY SMT DEF LoadHalf
    <3>3. SlotOf(t[p]) \in 0..Depth - 1
      BY <1>1, SlotRange
    <3>4. c.tag # 0 => SlotOf(c.tag) = SlotOf(t[p])
      BY ZenonT(40), <3>1, <3>2, <3>3 DEF DropsBehind
    <3>5. h[p] # 0 /\ h[p] \in Nat /\ t[p] \in Nat /\ c.tag \in Nat
      <4>1. c.tag \in Nat
        BY <1>1, <3>2, <3>3 DEF Slot
      <4> HIDE DEF c
      <4> QED  BY <1>1, <3>1, <4>1 DEF QueueInv, PubLocals, PubLocal
    <3> HIDE DEF c
    <3>6. /\ pc'[p] # "pub_slot2"
          /\ pc'[p] = "pub_drop" => c.tag = h[p]
      BY SMTT(30), <3>1, <3>5 DEF Verdict
    <3> QED  BY <2>2, <3>1, <3>4, <3>5, <3>6
  <2>5. CASE PubCas(p)
    <3>1. /\ pc'[p] = "pub_bump" /\ UNCHANGED <<t, cur, h>>
          /\ slots' = [slots EXCEPT ![SlotOf(t[p])] = [tag |-> t[p], val |-> buf[p]]]
      BY <1>1, <2>5 DEF PubCas, Goto
    <3>2. \A x \in 0..Depth - 1 :
            slots'[x].tag = slots[x].tag \/ (x = SlotOf(t[p]) /\ slots'[x].tag = t[p])
      BY SMTT(30), <1>1, <3>1
    <3>3. \A x \in 0..Depth - 1 : slots'[x].tag # 0 => SlotOf(slots'[x].tag) = x
      BY <3>2 DEF DropsBehind
    <3> QED  BY <2>1, <3>1, <3>3 DEF DropsBehind, SamePub
  <2>6. CASE ~PubLoadSlot(p) /\ ~PubLoadSlot2(p) /\ ~PubCas(p)
    <3>1. slots' = slots /\ pc'[p] \notin {"pub_slot2", "pub_drop"}
      <4>1. CASE StartSend(p) \/ BufAcquire(p)
        BY <1>1, <4>1
           DEF StartSend, BufAcquire, AcqFromPool, AcqPoolEmpty, AcqReadHead, AcqReadTail,
               AcqReadSlot, AcqCas, AcqCasFail, Goto, shared
      <4>2. CASE FillSize(p) \/ FillBody(p) \/ BufRelease(p) \/ Crash(p)
        BY <1>1, <4>2 DEF FillSize, FillBody, BufRelease, Crash, Goto, shared
      <4>3. CASE Publish(p)
        BY <1>1, <2>6, <4>3
           DEF Publish, PubLoadFirst, PubLoadTail, PubLoadHead, PubFixTail, PubDropHead,
               PubCasFail, PubBumpTail, PubWake, Goto, shared
      <4> QED  BY <1>5, <4>1, <4>2, <4>3 DEF SendMsg
    <3> QED  BY <2>2, <3>1
  <2> QED  BY <2>3, <2>4, <2>5, <2>6
<1> QED  BY <1>3, <1>4, <1>5 DEF Next

\* NeverFullWhilePublishing: with as many elements as slots, try_drop_head never
\* drops a message when it is called from lf_bcast_pub.
THEOREM QueueNeverDrops == Spec => []NeverFullWhilePublishing
<1>1. ASSUME Init PROVE DropsBehind
  <2>1. /\ \A x \in 0..Depth - 1 : slots[x] = NoSlot
        /\ \A p \in Pubs : pc[p] = "idle"
    BY <1>1 DEF Init, InitRest
  <2>2. NoSlot.tag = 0
    BY SMT DEF NoSlot
  <2> QED  BY <2>1, <2>2 DEF DropsBehind
<1>2. QueueInv /\ DropsBehind => NeverFullWhilePublishing
  BY BehindIsGone
<1> QED  BY <1>1, <1>2, NextBehind, QueueInvariant, PTL DEF Spec

-----------------------------------------------------------------------------
(* Where the elements are: what is rolled off, and who starves. *)

\* No more values than arguments.
LEMMA ValuesAtMost ==
  ASSUME NEW S, IsFiniteSet(S), NEW V, NEW f \in [S -> V], NEW U,
         \A u \in U : \E x \in S : f[x] = u
  PROVE  IsFiniteSet(U) /\ Cardinality(U) <= Cardinality(S)
<1> DEFINE T == {f[x] : x \in S}
<1>1. f \in Surjection(S, T)
  BY DEF Surjection
<1>2. U \in SUBSET T
  OBVIOUS
<1> HIDE DEF T
<1>3. IsFiniteSet(T) /\ Cardinality(T) <= Cardinality(S)
  BY <1>1, FS_Surjection
<1>4. IsFiniteSet(U) /\ Cardinality(U) <= Cardinality(T)
  BY <1>2, <1>3, FS_Subset
<1>5. Cardinality(S) \in Nat /\ Cardinality(T) \in Nat /\ Cardinality(U) \in Nat
  BY <1>3, <1>4, FS_CardinalityType
<1> QED  BY SMTT(30), <1>3, <1>4, <1>5

LEMMA UnionAtMost ==
  ASSUME NEW S, IsFiniteSet(S), NEW T, IsFiniteSet(T)
  PROVE  /\ IsFiniteSet(S \cup T)
         /\ Cardinality(S \cup T) <= Cardinality(S) + Cardinality(T)
<1>1. /\ IsFiniteSet(S \cup T)
      /\ Cardinality(S \cup T) = Cardinality(S) + Cardinality(T) - Cardinality(S \cap T)
  BY FS_Union
<1>2. IsFiniteSet(S \cap T)
  BY FS_Subset
<1>3. Cardinality(S) \in Nat /\ Cardinality(T) \in Nat /\ Cardinality(S \cap T) \in Nat
  BY <1>2, FS_CardinalityType
<1> QED  BY SMTT(30), <1>1, <1>3

\* The sets that are counted are finite.
LEMMA Counts ==
  ASSUME TypeOK
  PROVE  /\ IsFiniteSet(pool) /\ IsFiniteSet(leaked)
         /\ Cardinality(pool) \in Nat /\ Cardinality(leaked) \in Nat
         /\ released \in Nat /\ crashes \in Nat /\ Cardinality(Pubs) \in Nat
<1>1. IsFiniteSet(1..NumBufs) /\ Bufs = 1..NumBufs
  BY SMTT(30), BufsType, FS_Interval
<1>2. pool \in SUBSET Bufs /\ leaked \in SUBSET Bufs /\ released \in Nat /\ crashes \in Nat
  BY DEF TypeOK, SharedTypes, BoundTypes
<1>3. IsFiniteSet(pool) /\ IsFiniteSet(leaked)
  BY <1>1, <1>2, FS_Subset
<1> QED  BY <1>2, <1>3, PubsAssumption, FS_CardinalityType DEF PubsAssumption

\* The elements are free, leaked, queued, or with publishers that own one.
LEMMA Budget ==
  ASSUME QueueInv, Accounted, NEW Q \in SUBSET Pubs, \A q \in Q : buf[q] = 0
  PROVE  Depth <= Cardinality(pool) + Cardinality(leaked) + Cardinality(Pubs \ Q)
                  + (N - head + 1)
<1>1. /\ TypeOK /\ head \in Nat \ {0} /\ N \in Nat /\ head <= N + 1
  <2>1. TypeOK /\ head <= tail /\ tail \in {N, N + 1}
    BY DEF QueueInv, Window
  <2> QED  BY SMTT(30), <2>1, IndexTypes
<1>2. NumBufs = Depth /\ Depth \in Nat /\ Bufs = 1..Depth
  BY SMT, DepthAssumption DEF DepthAssumption, NumBufs, Bufs
<1> DEFINE A == {b \in Bufs : \E q \in Pubs \ Q : buf[q] = b}
           B == {b \in Bufs : \E i \in Queued : log[i].buf = b}
           R == Pubs \ Q
           f == [q \in R |-> buf[q]]
           g == [i \in Queued |-> log[i].buf]
<1>3. IsFiniteSet(R) /\ Cardinality(R) \in Nat
  BY PubsAssumption, FS_Difference, FS_CardinalityType DEF PubsAssumption
<1>4. IsFiniteSet(A) /\ Cardinality(A) <= Cardinality(R)
  <2>1. \A u \in A : \E x \in R : f[x] = u
    OBVIOUS
  <2>2. f \in [R -> {buf[q] : q \in R}]
    OBVIOUS
  <2> HIDE DEF A, R, f
  <2>3. PICK V : f \in [R -> V]
    BY <2>2
  <2> QED  BY <1>3, <2>1, <2>3, ValuesAtMost
<1>5. IsFiniteSet(Queued) /\ Cardinality(Queued) = N - head + 1
  <2>1. PICK a \in Int, b \in Int : a = head /\ b = N
    BY SMT, <1>1
  <2>2. IsFiniteSet(a..b) /\ Cardinality(a..b) = IF a > b THEN 0 ELSE b - a + 1
    BY SMT, FS_Interval
  <2> QED  BY SMTT(30), <1>1, <2>1, <2>2 DEF Queued
<1>6. IsFiniteSet(B) /\ Cardinality(B) <= Cardinality(Queued)
  <2>1. \A u \in B : \E x \in Queued : g[x] = u
    OBVIOUS
  <2>2. g \in [Queued -> {log[i].buf : i \in Queued}]
    OBVIOUS
  <2> HIDE DEF B, g
  <2>3. PICK V : g \in [Queued -> V]
    BY <2>2
  <2> QED  BY <1>5, <2>1, <2>3, ValuesAtMost
<1>7. \A b \in Bufs : b # 0
  BY SMT, <1>2
<1>8. Bufs \in SUBSET ((pool \cup leaked) \cup (A \cup B))
  BY <1>7 DEF Accounted, Somewhere
<1> HIDE DEF A, B, R, f, g
<1>9. IsFiniteSet(pool) /\ IsFiniteSet(leaked)
      /\ Cardinality(pool) \in Nat /\ Cardinality(leaked) \in Nat
  BY <1>1, Counts
<1>10. IsFiniteSet(pool \cup leaked)
       /\ Cardinality(pool \cup leaked) <= Cardinality(pool) + Cardinality(leaked)
  BY <1>9, UnionAtMost
<1>11. IsFiniteSet(A \cup B) /\ Cardinality(A \cup B) <= Cardinality(A) + Cardinality(B)
  BY <1>4, <1>6, UnionAtMost
<1>12. /\ IsFiniteSet((pool \cup leaked) \cup (A \cup B))
       /\ Cardinality((pool \cup leaked) \cup (A \cup B))
            <= Cardinality(pool \cup leaked) + Cardinality(A \cup B)
  BY <1>10, <1>11, UnionAtMost
<1>13. Cardinality(Bufs) <= Cardinality((pool \cup leaked) \cup (A \cup B))
  BY <1>8, <1>12, FS_Subset
<1>14. Cardinality(Bufs) = Depth
  <2>1. Cardinality(1..Depth) = IF 1 > Depth THEN 0 ELSE Depth - 1 + 1
    BY SMT, <1>2, FS_Interval
  <2> QED  BY SMT, <1>2, <2>1
<1>15. /\ Cardinality(A) \in Nat /\ Cardinality(B) \in Nat
       /\ Cardinality(A \cup B) \in Nat /\ Cardinality(pool \cup leaked) \in Nat
       /\ Cardinality((pool \cup leaked) \cup (A \cup B)) \in Nat
  BY <1>4, <1>6, <1>10, <1>11, <1>12, FS_CardinalityType
<1>16. Cardinality(R) = Cardinality(Pubs \ Q)
  BY DEF R
<1>17. Cardinality(Bufs) <= Cardinality(pool) + Cardinality(leaked) + Cardinality(R)
                            + Cardinality(Queued)
  <2>1. PICK c \in Nat : c = Cardinality(Queued)
    BY SMT, <1>1, <1>5
  <2>2. Cardinality(B) <= c
    BY <1>6, <2>1
  <2> QED  BY SMTT(30), <1>3, <1>4, <1>9, <1>10, <1>11, <1>12, <1>13, <1>14, <1>2, <1>15, <2>1, <2>2
<1> QED  BY <1>5, <1>14, <1>16, <1>17

Rolling == {"acq_head", "acq_tail", "acq_slot", "acq_cas"}

\* A step that moves no element, no index and no committer.
Still ==
  /\ UNCHANGED <<head, tail, log, pool, buf, leaked, crashes, released>>
  /\ \A q \in Pubs : pc[q] = "pub_bump" => pc'[q] = pc[q] /\ t'[q] = t[q]
  /\ \A q \in Pubs : pc'[q] \in Rolling => pc[q] \in Rolling
  /\ \A q \in Pubs : pc'[q] = "starved" => pc[q] = "starved"

LEMMA StillCounts == ASSUME CountInv, Still PROVE CountInv'
<1>1. N' = N /\ Queued' = Queued
  BY DEF N, Queued, Still
<1>2. Accounted'
  BY <1>1 DEF CountInv, Accounted, Somewhere, Still
<1>3. PoolSpent'
  BY DEF CountInv, PoolSpent, Still, Rolling
<1>4. LeaksOwed'
  BY <1>1 DEF CountInv, LeaksOwed, Still
<1>5. StarvedOnlyIfUndersized'
  BY DEF CountInv, StarvedOnlyIfUndersized, Still
<1> QED  BY <1>2, <1>3, <1>4, <1>5 DEF CountInv

\* The counters of crashes and of buffers given back only grow.
LEMMA StarvedStays ==
  ASSUME TypeOK, TypeOK', StarvedOnlyIfUndersized, crashes <= crashes', released <= released',
         \A q \in Pubs : pc'[q] = "starved" => pc[q] = "starved"
  PROVE  StarvedOnlyIfUndersized'
<1> SUFFICES ASSUME NEW p \in Pubs, pc'[p] = "starved"
             PROVE  Depth < Cardinality(Pubs) + crashes' + released'
  BY DEF StarvedOnlyIfUndersized
<1>1. Depth < Cardinality(Pubs) + crashes + released
  BY DEF StarvedOnlyIfUndersized
<1>2. /\ crashes \in Nat /\ released \in Nat /\ crashes' \in Nat /\ released' \in Nat
      /\ Cardinality(Pubs) \in Nat
  BY Counts DEF TypeOK, BoundTypes
<1> QED  BY SMTT(30), <1>1, <1>2, DepthAssumption DEF DepthAssumption

\* Fewer free elements than before.
LEMMA SpentStays ==
  ASSUME TypeOK, PoolSpent, pool' \in SUBSET pool, released' = released,
         \A q \in Pubs : pc'[q] \in Rolling => pc[q] \in Rolling
  PROVE  PoolSpent'
<1> SUFFICES ASSUME NEW p \in Pubs, pc'[p] \in Rolling PROVE Cardinality(pool') <= released
  BY DEF PoolSpent, Rolling
<1>1. Cardinality(pool) <= released
  BY DEF PoolSpent, Rolling
<1>2. IsFiniteSet(pool) /\ Cardinality(pool) \in Nat /\ released \in Nat
  BY Counts
<1>3. IsFiniteSet(pool') /\ Cardinality(pool') <= Cardinality(pool)
  BY <1>2, FS_Subset
<1>4. Cardinality(pool') \in Nat
  BY <1>3, FS_CardinalityType
<1> QED  BY <1>1, <1>2, <1>3, <1>4, Bounded

\* Nothing leaks and the tail is as far behind as before.
LEMMA LeaksStay ==
  ASSUME LeaksOwed, UNCHANGED <<tail, log, leaked, crashes>>,
         \A q \in Pubs : pc[q] = "pub_bump" => pc'[q] = pc[q] /\ t'[q] = t[q]
  PROVE  LeaksOwed'
<1>1. N' = N
  BY DEF N
<1> QED  BY <1>1 DEF LeaksOwed

\* lf_bcast_buf_acquire takes a free element, or the head's.
LEMMA AcquireCounts ==
  ASSUME QueueInv, CountInv, NEW p \in Pubs, AcqFromPool(p) \/ AcqCas(p)
  PROVE  CountInv'
<1>s. SendMsg(p)
  BY DEF SendMsg, BufAcquire
<1>t. /\ TypeOK /\ TypeOK' /\ PubLocal(p) /\ head \in Nat \ {0} /\ N \in Nat
      /\ pc \in [Pubs -> PubPcs] /\ buf \in [Pubs -> 0..NumBufs]
      /\ released \in Nat /\ crashes \in Nat
      /\ \A q \in Pubs \ {p} : SamePub(q)
  BY <1>s, StepFacts, Counts
<1>1. /\ pc[p] \in {"acq_pool", "acq_cas"} /\ pc'[p] = "fill_size" /\ buf[p] = 0
      /\ UNCHANGED <<tail, log, leaked, crashes, released>> /\ pool' \in SUBSET pool
  <2>1. /\ pc[p] \in {"acq_pool", "acq_cas"} /\ pc'[p] = "fill_size"
        /\ UNCHANGED <<tail, log, leaked, crashes, released>> /\ pool' \in SUBSET pool
    BY <1>t DEF AcqFromPool, AcqCas, Goto, bounds
  <2>2. buf[p] = 0
    BY <2>1 DEF QueueInv, OneOwner, Owning, Publishing
  <2> QED  BY <2>1, <2>2
<1>2. \A b \in Bufs : b # 0
  BY SMT, BufsType
<1>3. Accounted'
  <2>1. CASE AcqFromPool(p)
    <3>1. PICK x \in pool : pool' = pool \ {x} /\ buf'[p] = x
      BY <1>t, <2>1 DEF AcqFromPool
    <3>2. Queued' = Queued
      BY <1>1, <2>1 DEF AcqFromPool, Queued, N
    <3>3. ASSUME NEW b \in Bufs PROVE Somewhere(b)'
      <4>1. CASE b \in pool \cup leaked
        BY <1>1, <3>1, <4>1 DEF Somewhere
      <4>2. ASSUME NEW q \in Pubs, buf[q] = b PROVE Somewhere(b)'
        BY <1>t, <1>1, <1>2, <4>2 DEF SamePub, Somewhere
      <4>3. CASE \E i \in Queued : log[i].buf = b
        BY <1>1, <3>2, <4>3 DEF Somewhere
      <4> QED  BY <4>1, <4>2, <4>3 DEF CountInv, Accounted, Somewhere
    <3> QED  BY <3>3 DEF Accounted
  <2>2. CASE AcqCas(p)
    <3>1. /\ head = h[p] /\ head' = head + 1 /\ pool' = pool /\ buf'[p] = cur[p].val
          /\ pc[p] = "acq_cas"
      BY <1>t, <2>2 DEF AcqCas, Goto
    <3>2. cur[p].val = log[head].buf
      BY <1>t, <3>1 DEF PubLocal
    <3>3. N' = N
      BY <1>1 DEF N
    <3>4. \A i \in Queued : i = head \/ i \in Queued'
      BY SMTT(30), <1>t, <3>1, <3>3 DEF Queued
    <3>5. ASSUME NEW b \in Bufs PROVE Somewhere(b)'
      <4>1. CASE b \in pool \cup leaked
        BY <1>1, <3>1, <4>1 DEF Somewhere
      <4>2. ASSUME NEW q \in Pubs, buf[q] = b PROVE Somewhere(b)'
        BY <1>t, <1>1, <1>2, <4>2 DEF SamePub, Somewhere
      <4>3. ASSUME NEW i \in Queued, log[i].buf = b PROVE Somewhere(b)'
        BY <1>1, <3>1, <3>2, <3>4, <4>3 DEF Somewhere
      <4> QED  BY <4>1, <4>2, <4>3 DEF CountInv, Accounted, Somewhere
    <3> QED  BY <3>5 DEF Accounted
  <2> QED  BY <2>1, <2>2
<1>4. \A q \in Pubs : /\ pc[q] = "pub_bump" => pc'[q] = pc[q] /\ t'[q] = t[q]
                      /\ pc'[q] \in Rolling => pc[q] \in Rolling
                      /\ pc'[q] = "starved" => pc[q] = "starved"
  BY <1>t, <1>1 DEF SamePub, Rolling
<1>5. PoolSpent'
  BY <1>t, <1>1, <1>4, SpentStays DEF CountInv
<1>6. LeaksOwed'
  BY <1>1, <1>4, LeaksStay DEF CountInv
<1>7. crashes <= crashes' /\ released <= released'
  BY SMTT(30), <1>t, <1>1
<1>8. StarvedOnlyIfUndersized'
  BY <1>t, <1>4, <1>7, StarvedStays DEF CountInv
<1> QED  BY <1>3, <1>5, <1>6, <1>8 DEF CountInv

\* A publisher's buffer goes to the pool, or is lost with it.
LEMMA LoseCounts ==
  ASSUME QueueInv, CountInv, NEW p \in Pubs, BufRelease(p) \/ Crash(p)
  PROVE  CountInv'
<1>t. /\ TypeOK /\ TypeOK'
      /\ pc \in [Pubs -> PubPcs] /\ buf \in [Pubs -> 0..NumBufs]
      /\ \A q \in Pubs \ {p} : SamePub(q)
  BY StepFacts
<1>c. /\ IsFiniteSet(pool) /\ IsFiniteSet(leaked)
      /\ Cardinality(pool) \in Nat /\ Cardinality(leaked) \in Nat
      /\ released \in Nat /\ crashes \in Nat
  BY <1>t, Counts
<1>1. /\ UNCHANGED <<head, tail, log>> /\ pc'[p] = "idle" /\ buf'[p] = 0
      /\ \/ /\ pool' = pool \cup {buf[p]} /\ leaked' = leaked
            /\ released' = released + 1 /\ crashes' = crashes /\ pc[p] = "fill_size"
         \/ /\ pool' = pool /\ leaked' = leaked \cup ({buf[p]} \ {0})
            /\ released' = released /\ crashes' = crashes + 1
  BY <1>t DEF BufRelease, Crash, Goto, shared
<1>2. \A b \in Bufs : b # 0
  BY SMT, BufsType
<1>3. N' = N /\ Queued' = Queued
  BY <1>1 DEF N, Queued
<1>4. Accounted'
  <2>1. ASSUME NEW b \in Bufs PROVE Somewhere(b)'
    <3>1. CASE b \in pool \cup leaked
      BY <1>1, <3>1 DEF Somewhere
    <3>2. ASSUME NEW q \in Pubs, buf[q] = b PROVE Somewhere(b)'
      <4>1. CASE q = p
        BY <1>1, <1>2, <3>2, <4>1 DEF Somewhere
      <4>2. CASE q # p
        BY <1>t, <3>2, <4>2 DEF SamePub, Somewhere
      <4> QED  BY <4>1, <4>2
    <3>3. CASE \E i \in Queued : log[i].buf = b
      BY <1>1, <1>3, <3>3 DEF Somewhere
    <3> QED  BY <3>1, <3>2, <3>3 DEF CountInv, Accounted, Somewhere
  <2> QED  BY <2>1 DEF Accounted
<1>5. \A q \in Pubs : /\ pc'[q] \in Rolling => pc[q] \in Rolling
                      /\ pc'[q] = "starved" => pc[q] = "starved"
  BY <1>t, <1>1 DEF SamePub, Rolling
<1>6. PoolSpent'
  <2>1. CASE pool' = pool /\ released' = released
    BY <1>t, <1>5, <2>1, SpentStays DEF CountInv
  <2>2. CASE pool' = pool \cup {buf[p]} /\ released' = released + 1
    <3>1. Cardinality(pool') \in {Cardinality(pool), Cardinality(pool) + 1}
      BY <1>c, <2>2, FS_AddElement
    <3>2. ASSUME NEW q \in Pubs, pc'[q] \in Rolling PROVE Cardinality(pool') <= released'
      <4>1. Cardinality(pool) <= released
        BY <1>5, <3>2 DEF CountInv, PoolSpent, Rolling
      <4>2. Cardinality(pool) \in Nat /\ released \in Nat
        BY <1>c
      <4>3. Cardinality(pool') <= released + 1
        BY ZenonT(40), <3>1, <4>1, <4>2, OneAdded
      <4> QED  BY <2>2, <4>3
    <3> QED  BY <3>2 DEF PoolSpent, Rolling
  <2> QED  BY <1>1, <2>1, <2>2
<1>7. LeaksOwed'
  <2>1. CASE leaked' = leaked /\ crashes' = crashes /\ pc[p] = "fill_size"
    <3>1. \A q \in Pubs : pc[q] = "pub_bump" => pc'[q] = pc[q] /\ t'[q] = t[q]
      BY <1>t, <2>1 DEF SamePub
    <3> QED  BY ZenonT(40), <1>1, <2>1, <3>1, LeaksStay DEF CountInv
  <2>2. CASE leaked' = leaked \cup ({buf[p]} \ {0}) /\ crashes' = crashes + 1
    <3>1. \/ leaked' = leaked
          \/ leaked' = leaked \cup {buf[p]} /\ pc[p] # "pub_bump"
      <4>1. CASE buf[p] = 0
        BY <2>2, <4>1, UnlessNull
      <4>2. CASE buf[p] # 0
        <5>1. pc[p] # "pub_bump"
          BY <4>2 DEF QueueInv, OneOwner, Owning, Publishing
        <5> QED  BY ZenonT(40), <2>2, <4>2, <5>1, UnlessNull
      <4> QED  BY <4>1, <4>2
    <3>2. \/ Cardinality(leaked') = Cardinality(leaked)
          \/ Cardinality(leaked') = Cardinality(leaked) + 1 /\ pc[p] # "pub_bump"
      BY <1>c, <3>1, FS_AddElement
    <3>3. Cardinality(leaked) <= crashes
      BY DEF CountInv, LeaksOwed
    <3>n. Cardinality(leaked) \in Nat /\ crashes \in Nat /\ crashes' = crashes + 1
      BY <1>c, <2>2
    <3>4. Cardinality(leaked') <= crashes'
      <4>1. Cardinality(leaked') <= crashes + 1
        BY ZenonT(40), <3>2, <3>3, <3>n, OneAdded
      <4> QED  BY <3>n, <4>1
    <3>5. ASSUME tail' = N'
          PROVE  \/ \E q \in Pubs : pc'[q] = "pub_bump" /\ t'[q] = N'
                 \/ Cardinality(leaked') < crashes'
      <4>1. \/ \E q \in Pubs : pc[q] = "pub_bump" /\ t[q] = N
            \/ Cardinality(leaked) < crashes
        BY <1>1, <1>3, <3>5 DEF CountInv, LeaksOwed
      <4>2. CASE Cardinality(leaked) < crashes
        <5>1. Cardinality(leaked') < crashes'
          <6>1. Cardinality(leaked') < crashes + 1
            BY ZenonT(40), <3>2, <3>n, <4>2, OneAdded
          <6> QED  BY <3>n, <6>1
        <5> QED  BY <5>1
      <4>3. ASSUME NEW q \in Pubs, pc[q] = "pub_bump", t[q] = N, q # p
            PROVE  \E r \in Pubs : pc'[r] = "pub_bump" /\ t'[r] = N'
        BY ZenonT(40), <1>t, <1>3, <4>3 DEF SamePub
      <4>4. CASE pc[p] = "pub_bump"
        <5>1. Cardinality(leaked') = Cardinality(leaked)
          BY ZenonT(40), <3>2, <4>4
        <5>2. Cardinality(leaked') < crashes'
          <6>1. Cardinality(leaked') < crashes + 1
            BY ZenonT(40), <3>3, <3>n, <5>1, OneAdded
          <6> QED  BY <3>n, <6>1
        <5> QED  BY <5>2
      <4> QED  BY ZenonT(40), <4>1, <4>2, <4>3, <4>4
    <3> QED  BY <3>4, <3>5 DEF LeaksOwed
  <2> QED  BY <1>1, <2>1, <2>2
<1>8. crashes <= crashes' /\ released <= released'
  BY SMTT(30), <1>c, <1>1
<1>9. StarvedOnlyIfUndersized'
  BY <1>t, <1>5, <1>8, StarvedStays DEF CountInv
<1> QED  BY <1>4, <1>6, <1>7, <1>9 DEF CountInv

\* The commit queues the publisher's buffer and leaves it the tail to advance.
LEMMA CommitCounts ==
  ASSUME QueueInv, CountInv, NEW p \in Pubs, PubCas(p), t[p] = N + 1
  PROVE  CountInv'
<1>s. SendMsg(p)
  BY DEF SendMsg, Publish
<1>t. /\ TypeOK /\ TypeOK' /\ head \in Nat \ {0} /\ N \in Nat
      /\ pc \in [Pubs -> PubPcs] /\ released \in Nat /\ crashes \in Nat
      /\ \A q \in Pubs \ {p} : SamePub(q)
  BY <1>s, StepFacts, Counts
<1> DEFINE entry == [msg |-> msg[p], buf |-> buf[p]]
<1>1. /\ pc'[p] = "pub_bump" /\ t' = t /\ log' = Append(log, entry)
      /\ UNCHANGED <<head, pool, leaked, crashes, released>>
  BY <1>t DEF PubCas, Goto, bounds
<1>2. entry.buf = buf[p]
  OBVIOUS
<1> HIDE DEF entry
<1>3. log \in Seq([msg : Msgs, buf : Bufs])
  BY <1>t DEF TypeOK, SharedTypes
<1>4. N' = N + 1 /\ log'[N + 1] = entry /\ \A i \in 1..N : log'[i] = log[i]
  BY SMTT(30), <1>1, <1>3 DEF N
<1>5. N + 1 \in Queued' /\ \A i \in Queued : i \in Queued' /\ i \in 1..N
  <2>1. head <= tail /\ tail \in {N, N + 1}
    BY DEF QueueInv, Window
  <2> QED  BY SMTT(30), <1>t, <1>1, <1>4, <2>1 DEF Queued
<1>6. Accounted'
  <2>1. ASSUME NEW b \in Bufs PROVE Somewhere(b)'
    <3>1. CASE b \in pool \cup leaked
      BY <1>1, <3>1 DEF Somewhere
    <3>2. ASSUME NEW q \in Pubs, buf[q] = b PROVE Somewhere(b)'
      <4>1. CASE q = p
        BY ZenonT(40), <1>2, <1>4, <1>5, <3>2, <4>1 DEF Somewhere
      <4>2. CASE q # p
        BY <1>t, <3>2, <4>2 DEF SamePub, Somewhere
      <4> QED  BY <4>1, <4>2
    <3>3. ASSUME NEW i \in Queued, log[i].buf = b PROVE Somewhere(b)'
      BY <1>4, <1>5, <3>3 DEF Somewhere
    <3> QED  BY <3>1, <3>2, <3>3 DEF CountInv, Accounted, Somewhere
  <2> QED  BY <2>1 DEF Accounted
<1>7. \A q \in Pubs : /\ pc'[q] \in Rolling => pc[q] \in Rolling
                      /\ pc'[q] = "starved" => pc[q] = "starved"
  BY <1>t, <1>1 DEF SamePub, Rolling
<1>8. PoolSpent'
  BY <1>t, <1>1, <1>7, SpentStays DEF CountInv
<1>9. LeaksOwed'
  BY <1>1, <1>4 DEF CountInv, LeaksOwed
<1>10. crashes <= crashes' /\ released <= released'
  BY SMTT(30), <1>t, <1>1
<1>11. StarvedOnlyIfUndersized'
  BY <1>t, <1>7, <1>10, StarvedStays DEF CountInv
<1> QED  BY <1>6, <1>8, <1>9, <1>11 DEF CountInv

\* The tail moves on past the log's end.
LEMMA TailCounts ==
  ASSUME QueueInv, CountInv, NEW p \in Pubs, PubFixTail(p) \/ PubBumpTail(p)
  PROVE  CountInv'
<1>s. SendMsg(p)
  BY DEF SendMsg, Publish
<1>t. /\ TypeOK /\ TypeOK' /\ PubLocal(p) /\ N \in Nat /\ tail \in Nat
      /\ pc \in [Pubs -> PubPcs] /\ released \in Nat /\ crashes \in Nat
      /\ \A q \in Pubs \ {p} : SamePub(q)
  BY <1>s, StepFacts, Counts
<1>1. /\ UNCHANGED <<head, log, pool, buf, leaked, crashes, released>>
      /\ pc[p] \in {"pub_fix", "pub_bump"} /\ pc'[p] \in {"pub_first", "pub_wake"}
      /\ tail' = IF tail = t[p] THEN tail + 1 ELSE tail
  BY <1>t DEF PubFixTail, PubBumpTail, Goto, plocals, bounds
<1>2. N' = N /\ Queued' = Queued
  BY <1>1 DEF N, Queued
<1>3. Accounted'
  BY <1>1, <1>2 DEF CountInv, Accounted, Somewhere
<1>4. \A q \in Pubs : /\ pc'[q] \in Rolling => pc[q] \in Rolling
                      /\ pc'[q] = "starved" => pc[q] = "starved"
  BY <1>t, <1>1 DEF SamePub, Rolling
<1>5. PoolSpent'
  BY <1>t, <1>1, <1>4, SpentStays DEF CountInv
<1>6. LeaksOwed'
  <2>1. CASE tail = t[p]
    <3>1. t[p] \in 1..N
      BY <1>t, <1>1 DEF PubLocal
    <3>2. tail' # N
      <4>1. tail \in {N, N + 1} /\ tail' = tail + 1
        BY <1>1, <2>1 DEF QueueInv, Window
      <4> QED  BY SMTT(30), <1>t, <2>1, <3>1, <4>1
    <3> QED  BY <1>1, <1>2, <3>2 DEF CountInv, LeaksOwed
  <2>2. CASE tail # t[p]
    BY ZenonT(40), <1>t, <1>1, <1>2, <2>2 DEF CountInv, LeaksOwed, SamePub
  <2> QED  BY <2>1, <2>2
<1>7. crashes <= crashes' /\ released <= released'
  BY SMTT(30), <1>t, <1>1
<1>8. StarvedOnlyIfUndersized'
  BY <1>t, <1>4, <1>7, StarvedStays DEF CountInv
<1> QED  BY <1>3, <1>5, <1>6, <1>8 DEF CountInv

\* lf_pool_acquire finds nothing.
LEMMA EmptyCounts ==
  ASSUME QueueInv, CountInv, NEW p \in Pubs, AcqPoolEmpty(p)
  PROVE  CountInv'
<1>s. SendMsg(p)
  BY DEF SendMsg, BufAcquire
<1>t. /\ pc \in [Pubs -> PubPcs] /\ released \in Nat /\ \A q \in Pubs \ {p} : SamePub(q)
  BY <1>s, StepFacts, Counts
<1>1. /\ UNCHANGED <<head, tail, log, pool, buf, t, leaked, crashes, released>>
      /\ pool = {} /\ pc[p] = "acq_pool" /\ pc'[p] = "acq_head"
  BY <1>t DEF AcqPoolEmpty, Goto, shared, plocals, bounds
<1>2. N' = N /\ Queued' = Queued
  BY <1>1 DEF N, Queued
<1>3. Accounted'
  BY <1>1, <1>2 DEF CountInv, Accounted, Somewhere
<1>4. Cardinality(pool) <= released
  BY SMTT(30), <1>t, <1>1, FS_EmptySet
<1>5. PoolSpent'
  BY <1>1, <1>4 DEF PoolSpent
<1>6. LeaksOwed'
  BY <1>t, <1>1, LeaksStay DEF CountInv, SamePub
<1>7. StarvedOnlyIfUndersized'
  BY <1>t, <1>1 DEF CountInv, StarvedOnlyIfUndersized, SamePub
<1> QED  BY <1>3, <1>5, <1>6, <1>7 DEF CountInv

\* Neither pool nor queue has an element for p: the others have them all.
LEMMA AllTaken ==
  ASSUME QueueInv, CountInv, NEW p \in Pubs, pc[p] = "acq_tail", h[p] = tail
  PROVE  Depth < Cardinality(Pubs) + crashes + released
<1>1. /\ TypeOK /\ head \in Nat /\ tail \in Nat /\ N \in Nat /\ h[p] <= head
      /\ head <= tail /\ tail \in {N, N + 1}
  BY IndexTypes DEF QueueInv, Window, PubLocals, PubLocal
<1>2. head = tail
  BY SMTT(30), <1>1
<1>3. buf[p] = 0
  BY DEF QueueInv, OneOwner, Owning, Publishing
<1>4. /\ Cardinality(pool) \in Nat /\ Cardinality(leaked) \in Nat
      /\ released \in Nat /\ crashes \in Nat /\ Cardinality(Pubs) \in Nat
      /\ Cardinality(pool) <= released /\ Cardinality(leaked) <= crashes
  BY <1>1, Counts DEF CountInv, PoolSpent, LeaksOwed
<1>5. IsFiniteSet(Pubs \ {p}) /\ Cardinality(Pubs \ {p}) = Cardinality(Pubs) - 1
  BY PubsAssumption, FS_RemoveElement DEF PubsAssumption
<1>6. Depth <= Cardinality(pool) + Cardinality(leaked) + Cardinality(Pubs \ {p})
               + (N - head + 1)
  BY <1>3, Budget DEF CountInv
<1>d. Depth \in Nat
  BY SMT, DepthAssumption DEF DepthAssumption
<1>7. CASE tail = N + 1
  <2>1. N < head /\ N \in Nat /\ head \in Nat
    BY SMTT(30), <1>1, <1>2, <1>7
  <2>2. Cardinality(Pubs \ {p}) = Cardinality(Pubs) - 1
    BY <1>5
  <2> QED  BY <1>d, <1>4, <1>6, <2>1, <2>2, Shortfall
<1>8. CASE tail = N /\ Cardinality(leaked) < crashes
  <2>1. N = head /\ N \in Nat /\ head \in Nat
    BY <1>1, <1>2, <1>8
  <2>2. Cardinality(Pubs \ {p}) = Cardinality(Pubs) - 1
    BY <1>5
  <2> QED  BY <1>d, <1>4, <1>6, <1>8, <2>1, <2>2, Shortfall
<1>9. ASSUME NEW q \in Pubs, pc[q] = "pub_bump", tail = N
      PROVE  Depth < Cardinality(Pubs) + crashes + released
  <2>1. q # p /\ buf[q] = 0
    BY <1>9 DEF QueueInv, OneOwner, Owning, Publishing
  <2>2. Pubs \ {p, q} = (Pubs \ {p}) \ {q} /\ q \in Pubs \ {p} /\ {p, q} \in SUBSET Pubs
    BY SMTT(30), <2>1
  <2>3. Cardinality(Pubs \ {p, q}) = Cardinality(Pubs) - 1 - 1
    BY ZenonT(40), <1>5, <2>2, FS_RemoveElement
  <2>4. \A r \in {p, q} : buf[r] = 0
    BY <1>3, <2>1
  <2>5. Depth <= Cardinality(pool) + Cardinality(leaked) + Cardinality(Pubs \ {p, q})
                 + (N - head + 1)
    BY <2>2, <2>4, Budget DEF CountInv
  <2>6. N = head /\ N \in Nat /\ head \in Nat
    BY <1>1, <1>2, <1>9
  <2> QED  BY ZenonT(40), <1>d, <1>4, <2>3, <2>5, <2>6, Shortfall
<1> QED  BY <1>1, <1>7, <1>8, <1>9 DEF CountInv, LeaksOwed

LEMMA StarveCounts ==
  ASSUME QueueInv, CountInv, NEW p \in Pubs, AcqReadTail(p)
  PROVE  CountInv'
<1>s. SendMsg(p)
  BY DEF SendMsg, BufAcquire
<1>t. /\ TypeOK /\ pc \in [Pubs -> PubPcs] /\ \A q \in Pubs \ {p} : SamePub(q)
  BY <1>s, StepFacts
<1>1. /\ UNCHANGED <<head, tail, log, pool, buf, t, leaked, crashes, released>>
      /\ pc[p] = "acq_tail" /\ pc'[p] = IF h[p] = tail THEN "starved" ELSE "acq_slot"
  BY <1>t DEF AcqReadTail, Goto, shared, plocals, bounds
<1>2. N' = N /\ Queued' = Queued
  BY <1>1 DEF N, Queued
<1>3. Accounted'
  BY <1>1, <1>2 DEF CountInv, Accounted, Somewhere
<1>4. \A q \in Pubs : pc'[q] \in Rolling => pc[q] \in Rolling
  BY <1>t, <1>1 DEF SamePub, Rolling
<1>5. PoolSpent'
  BY <1>t, <1>1, <1>4, SpentStays DEF CountInv
<1>6. LeaksOwed'
  BY <1>t, <1>1, LeaksStay DEF CountInv, SamePub
<1>7. StarvedOnlyIfUndersized'
  <2>1. h[p] = tail => Depth < Cardinality(Pubs) + crashes + released
    BY <1>1, AllTaken
  <2>2. pc'[p] = "starved" => h[p] = tail
    BY <1>1
  <2> QED  BY ZenonT(40), <1>t, <1>1, <2>1, <2>2 DEF CountInv, StarvedOnlyIfUndersized, SamePub
<1> QED  BY <1>3, <1>5, <1>6, <1>7 DEF CountInv

LEMMA NextCounts ==
  QueueInv /\ NeverFullWhilePublishing /\ CountInv /\ [Next]_vars => CountInv'
<1> SUFFICES ASSUME QueueInv, NeverFullWhilePublishing, CountInv, [Next]_vars
             PROVE  CountInv'
  OBVIOUS
<1>t. pc \in [Pubs -> PubPcs] /\ t \in [Pubs -> Nat]
  BY DEF QueueInv, TypeOK, PubTypes
<1>1. CASE UNCHANGED vars
  <2>1. Still
    BY <1>1 DEF Still, vars, shared, publ, plocals, bounds
  <2> QED  BY <2>1, StillCounts
<1>2. ASSUME NEW s \in Subs, SubInit(s) \/ RecvMsg(s) PROVE CountInv'
  <2>1. UNCHANGED <<shared, publ, bounds>>
    BY <1>2
       DEF SubInit, RecvMsg, ConReadTail, FutexWait, FutexTimeout, ConReadRef, ConReadRef2,
           ConReadSize, ConReadBody, ConEnd, ConDiscard, ConsumeEnd
  <2>2. Still
    BY <2>1 DEF Still, shared, publ, plocals, bounds
  <2> QED  BY <2>2, StillCounts
<1>3. ASSUME NEW p \in Pubs, SendMsg(p) PROVE CountInv'
  <2>1. \A q \in Pubs \ {p} : SamePub(q)
    BY ZenonT(40), <1>3, StepFacts
  <2>2. ASSUME UNCHANGED <<head, tail, log, pool, buf, leaked, crashes, released>>,
               pc[p] # "pub_bump", pc'[p] # "starved",
               pc'[p] \in Rolling => pc[p] \in Rolling
        PROVE  CountInv'
    <3>1. Still
      BY <2>1, <2>2 DEF Still, SamePub
    <3> QED  BY <3>1, StillCounts
  <2>3. CASE StartSend(p)
    BY <1>t, <2>2, <2>3 DEF StartSend, Goto, shared, Rolling
  <2>4. CASE AcqReadHead(p) \/ AcqReadSlot(p) \/ AcqCasFail(p)
    BY <1>t, <2>2, <2>4
       DEF AcqReadHead, AcqReadSlot, AcqCasFail, Goto, shared, bounds, Rolling
  <2>5. CASE AcqFromPool(p) \/ AcqCas(p)
    BY <2>5, AcquireCounts
  <2>6. CASE AcqPoolEmpty(p)
    BY <2>6, EmptyCounts
  <2>7. CASE AcqReadTail(p)
    BY <2>7, StarveCounts
  <2>8. CASE FillSize(p) \/ FillBody(p)
    BY <1>t, <2>2, <2>8 DEF FillSize, FillBody, Goto, plocals, bounds, Rolling
  <2>9. CASE PubLoadFirst(p) \/ PubLoadTail(p) \/ PubLoadHead(p) \/ PubLoadSlot(p)
    BY <1>t, <2>2, <2>9
       DEF PubLoadFirst, PubLoadTail, PubLoadHead, PubLoadSlot, Goto, shared, bounds, Rolling
  <2>10. CASE PubLoadSlot2(p)
    <3> DEFINE c == LoadHalf(cur[p], slots[SlotOf(t[p])], left[p])
    <3>1. /\ pc[p] = "pub_slot2" /\ pc'[p] = Verdict(h[p], t[p], c.tag)
          /\ UNCHANGED <<head, tail, log, pool, buf, leaked, crashes, released>>
      BY <1>t, <2>10 DEF PubLoadSlot2, Goto, shared, bounds
    <3>2. c.tag \in Nat /\ h[p] \in Nat /\ t[p] \in Nat
      <4>1. /\ slots \in [0..Depth - 1 -> Slot] /\ h \in [Pubs -> Nat]
            /\ cur \in [Pubs -> Slot] /\ left \in [Pubs -> Halves]
        BY DEF QueueInv, TypeOK, SharedTypes, PubTypes
      <4>2. SlotOf(t[p]) \in 0..Depth - 1
        BY <1>t, SlotRange
      <4>3. c \in Slot
        BY <4>1, <4>2, LoadHalfType
      <4> HIDE DEF c
      <4> QED  BY ZenonT(40), <1>t, <4>1, <4>3 DEF Slot
    <3> HIDE DEF c
    <3>3. pc'[p] \in {"pub_fix", "pub_first", "pub_drop", "aborted", "pub_cas"}
      BY <3>1, <3>2, VerdictCases
    <3> QED  BY <2>2, <3>1, <3>3 DEF Rolling
  <2>11. CASE PubFixTail(p) \/ PubBumpTail(p)
    BY <2>11, TailCounts
  <2>12. CASE PubDropHead(p)
    <3>1. head # h[p]
      BY <2>12 DEF PubDropHead, Goto, NeverFullWhilePublishing
    <3> QED  BY <1>t, <2>2, <2>12, <3>1 DEF PubDropHead, Goto, bounds, Rolling
  <2>13. CASE PubCas(p)
    BY <2>13, CommitAt, CommitCounts
  <2>14. CASE PubCasFail(p) \/ PubWake(p)
    BY <1>t, <2>2, <2>14 DEF PubCasFail, PubWake, Goto, shared, bounds, Rolling
  <2>15. \/ StartSend(p) \/ BufAcquire(p) \/ FillSize(p) \/ FillBody(p) \/ Publish(p)
    BY <1>3 DEF SendMsg
  <2>16. CASE BufAcquire(p)
    BY ZenonT(40), <2>4, <2>5, <2>6, <2>7, <2>16 DEF BufAcquire
  <2>17. CASE Publish(p)
    BY ZenonT(40), <2>9, <2>10, <2>11, <2>12, <2>13, <2>14, <2>17 DEF Publish
  <2> QED  BY <2>3, <2>8, <2>15, <2>16, <2>17
<1>4. ASSUME NEW p \in Pubs, BufRelease(p) \/ Crash(p) PROVE CountInv'
  BY <1>4, LoseCounts
<1> QED  BY ZenonT(40), <1>1, <1>2, <1>3, <1>4 DEF Next

LEMMA InitCounts == Init => CountInv
<1> SUFFICES ASSUME Init PROVE CountInv
  OBVIOUS
<1>1. /\ pool = Bufs /\ leaked = {} /\ crashes = 0 /\ log = <<>> /\ tail = 1
      /\ \A p \in Pubs : pc[p] = "idle"
  BY DEF Init, InitRest
<1>2. Accounted
  BY <1>1 DEF Accounted, Somewhere
<1>3. Cardinality(leaked) <= crashes /\ tail # N
  BY SMTT(30), <1>1, FS_EmptySet DEF N
<1> QED  BY <1>1, <1>2, <1>3 DEF CountInv, PoolSpent, LeaksOwed, StarvedOnlyIfUndersized

\* The head moves only if no element is left elsewhere.
LEMMA RollsOff ==
  ASSUME QueueInv, NeverFullWhilePublishing, CountInv, [Next]_vars, head' # head
  PROVE  Depth < (N - head + 1) + Cardinality(Pubs) + crashes + released
<1>1. PICK p \in Pubs : AcqCas(p)
  <2>1. ~ UNCHANGED vars
    BY DEF vars, shared
  <2>2. \A s \in Subs : ~(SubInit(s) \/ RecvMsg(s))
    BY DEF SubInit, RecvMsg, ConReadTail, FutexWait, FutexTimeout, ConReadRef, ConReadRef2,
           ConReadSize, ConReadBody, ConEnd, ConDiscard, ConsumeEnd, shared
  <2>3. \A p \in Pubs : ~(BufRelease(p) \/ Crash(p) \/ StartSend(p) \/ FillSize(p) \/ FillBody(p))
    BY DEF BufRelease, Crash, StartSend, FillSize, FillBody, shared
  <2>4. \A p \in Pubs : BufAcquire(p) => AcqCas(p)
    BY DEF BufAcquire, AcqFromPool, AcqPoolEmpty, AcqReadHead, AcqReadTail, AcqReadSlot,
                 AcqCasFail, shared
  <2>5. \A p \in Pubs : ~Publish(p)
    BY DEF Publish, PubLoadFirst, PubLoadTail, PubLoadHead, PubLoadSlot, PubLoadSlot2,
                 PubFixTail, PubDropHead, PubCas, PubCasFail, PubBumpTail, PubWake, Goto,
                 shared, NeverFullWhilePublishing
  <2> QED  BY ZenonT(40), <2>1, <2>2, <2>3, <2>4, <2>5 DEF Next, SendMsg
<1>2. pc[p] = "acq_cas"
  BY <1>1 DEF AcqCas, Goto
<1>3. buf[p] = 0
  BY <1>2 DEF QueueInv, OneOwner, Owning, Publishing
<1>4. TypeOK /\ head \in Nat /\ N \in Nat
  BY IndexTypes DEF QueueInv
<1>5. /\ Cardinality(pool) \in Nat /\ Cardinality(leaked) \in Nat
      /\ released \in Nat /\ crashes \in Nat /\ Cardinality(Pubs) \in Nat
      /\ Cardinality(pool) <= released /\ Cardinality(leaked) <= crashes
  BY <1>2, <1>4, Counts DEF CountInv, PoolSpent, LeaksOwed
<1>6. Cardinality(Pubs \ {p}) = Cardinality(Pubs) - 1
  BY PubsAssumption, FS_RemoveElement DEF PubsAssumption
<1>7. Depth <= Cardinality(pool) + Cardinality(leaked) + Cardinality(Pubs \ {p})
               + (N - head + 1)
  BY <1>3, Budget DEF CountInv
<1> QED  BY SMTT(30), <1>4, <1>5, <1>6, <1>7, DepthAssumption DEF DepthAssumption

\* StarvedOnlyIfUndersized: sendmsg aborts for want of a buffer only if the other
\* publishers, crashes and buffers given back account for every element.
THEOREM QueueStarves == Spec => []StarvedOnlyIfUndersized
<1>1. CountInv => StarvedOnlyIfUndersized
  BY DEF CountInv
<1> QED  BY <1>1, InitCounts, NextCounts, QueueInvariant, QueueNeverDrops, PTL DEF Spec

\* Retention: lf_bcast_buf_acquire rolls a message off only when no element is
\* left elsewhere, however the publishers interleave.
THEOREM QueueRetains == Spec => Retention
<1>1. QueueInv /\ NeverFullWhilePublishing /\ CountInv /\ [Next]_vars =>
        [head' # head =>
           Depth < (N - head + 1) + Cardinality(Pubs) + crashes + released]_vars
  BY RollsOff
<1> QED  BY <1>1, InitCounts, NextCounts, QueueInvariant, QueueNeverDrops, PTL
         DEF Spec, Retention

=============================================================================
