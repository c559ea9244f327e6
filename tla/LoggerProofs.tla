---------------------------- MODULE LoggerProofs ----------------------------
(***************************************************************************)
(* LoggerInv is an invariant of zcm-logger, for any number of shards and   *)
(* any bounds on messages, requests, signals and failing calls: the files  *)
(* hold the events in the order they were queued in, a cycle is queued     *)
(* once, its barrier ends a file, and its completion is truly reported.    *)
(***************************************************************************)
EXTENDS Logger, TLAPS

\* A leaf is left to Zenon unless it names another prover.
USE Zenon

-----------------------------------------------------------------------------
(* Sequences *)

\* A sequence and one more element.
LEMMA AppendFacts ==
  ASSUME NEW S, NEW x \in Seq(S), NEW e \in S
  PROVE  /\ Append(x, e) \in Seq(S) /\ Append(x, e) # <<>>
         /\ Len(x) \in Nat /\ Len(Append(x, e)) = Len(x) + 1
         /\ Append(x, e)[Len(x) + 1] = e
         /\ \A i \in 1..Len(x) : i \in 1..Len(x) + 1 /\ Append(x, e)[i] = x[i]
         /\ \A i \in 1..Len(x) + 1 : i \in 1..Len(x) \/ i = Len(x) + 1
BY SMT

\* The rest of a sequence without its head.
LEMMA TailFacts ==
  ASSUME NEW S, NEW x \in Seq(S), x # <<>>
  PROVE  /\ Tail(x) \in Seq(S) /\ Len(x) \in Nat \ {0} /\ Head(x) = x[1] /\ x[1] \in S
         /\ 1 \in 1..Len(x)
         /\ Len(Tail(x)) = Len(x) - 1
         /\ \A i \in 1..Len(Tail(x)) : i + 1 \in 1..Len(x) /\ Tail(x)[i] = x[i + 1]
BY SMT

\* One element before a sequence.
LEMMA ConsFacts ==
  ASSUME NEW S, NEW x \in Seq(S), NEW e \in S
  PROVE  /\ <<e>> \o x \in Seq(S) /\ <<e>> \o x # <<>> /\ <<>> \o x = x
         /\ Head(<<e>> \o x) = e /\ Tail(<<e>> \o x) = x
BY SMT

\* A sequence is its head and the rest.
LEMMA HeadTail ==
  ASSUME NEW S, NEW x \in Seq(S), x # <<>>
  PROVE  <<Head(x)>> \o Tail(x) = x
BY SMT

-----------------------------------------------------------------------------
(* Files and their names *)

\* A name that was never used is found, and it is the next one.
LEMMA NextNameIsFree ==
  ASSUME TypeOK, NamesInv, mode = "increment", next_increment_num \in Names
  PROVE  NextName(names) = next_increment_num
<1> DEFINE P(n) == /\ n >= next_increment_num /\ Free(names, n)
                   /\ \A k \in next_increment_num .. n - 1 : ~Free(names, k)
<1>1. next_increment_num \in Nat /\ Names \subseteq Nat
  BY SMT, LoggerAssumption DEF TypeOK, FileTypes, Names, LoggerAssumption
<1>2. Free(names, next_increment_num)
  <2>1. next_increment_num >= next_increment_num
    BY SMT, <1>1
  <2> QED  BY <2>1 DEF NamesInv, Free
<1>3. P(next_increment_num)
  <2>1. next_increment_num >= next_increment_num
        /\ next_increment_num .. next_increment_num - 1 = {}
    BY SMT, <1>1
  <2> QED  BY <1>2, <2>1
<1>4. \A n \in Names : P(n) => n = next_increment_num
  <2> SUFFICES ASSUME NEW n \in Names, P(n), n # next_increment_num PROVE FALSE
    OBVIOUS
  <2>1. next_increment_num \in next_increment_num .. n - 1
    BY SMT, <1>1
  <2> QED  BY <1>2, <2>1
<1>5. NextName(names) = CHOOSE n \in Names : P(n)
  BY DEF NextName
<1> HIDE DEF P
<1> QED  BY <1>3, <1>4, <1>5

\* What openLogfile does to the files and their names.
LEMMA OpenFacts ==
  ASSUME TypeOK, NamesInv, OpenNext
  PROVE  /\ files' = Append(files, <<>>) /\ mode' = mode /\ logsize' = 0
         /\ names' \in [Names -> 0 .. Len(files) + 1] /\ filename' \in Names
         /\ next_increment_num' \in Nat
         /\ mode = "increment" =>
              /\ names[filename'] = 0
              /\ names' = [names EXCEPT ![filename'] = Len(files) + 1]
              /\ filename' = next_increment_num /\ next_increment_num' = filename' + 1
<1>1. /\ names \in [Names -> 0 .. Len(files)] /\ Len(files) \in Nat
      /\ next_increment_num \in Nat
  BY SMT DEF TypeOK, FileTypes
<1>2. 0 \in Names /\ Names \subseteq Nat
  BY SMT, LoggerAssumption DEF Names, LoggerAssumption
<1>3. 0 .. Len(files) \subseteq 0 .. Len(files) + 1
      /\ 0 \in 0 .. Len(files) + 1 /\ Len(files) + 1 \in 0 .. Len(files) + 1
  BY SMT, <1>1
<1>4. next_increment_num \in Names /\ files' = Append(files, <<>>) /\ mode' = mode /\ logsize' = 0
  BY DEF OpenNext
<1>5. CASE mode = "increment"
  <2>1. NextName(names) = next_increment_num
    BY <1>4, <1>5, NextNameIsFree
  <2>2. /\ filename' = next_increment_num /\ next_increment_num' = next_increment_num + 1
        /\ names' = [names EXCEPT ![next_increment_num] = Len(files) + 1]
    BY <1>5, <2>1 DEF OpenNext
  <2>3. names' \in [Names -> 0 .. Len(files) + 1]
    BY <1>1, <1>3, <2>2
  <2>4. next_increment_num + 1 \in Nat /\ next_increment_num >= next_increment_num
    BY SMT, <1>1
  <2>5. names[filename'] = 0
    BY <1>4, <1>5, <2>2, <2>4 DEF NamesInv
  <2> QED  BY <1>4, <1>5, <2>2, <2>3, <2>4, <2>5
<1>6. CASE mode # "increment"
  <2> DEFINE dir == IF mode = "rotate" THEN rotate_logfiles(names) ELSE names
  <2>1. /\ filename' = 0 /\ next_increment_num' = next_increment_num
        /\ names' = [dir EXCEPT ![0] = Len(files) + 1]
    BY <1>6 DEF OpenNext, NextName
  <2>2. rotate_logfiles(names) \in [Names -> 0 .. Len(files)]
    <3>1. \A n \in Names : n = 0 \/ n - 1 \in Names
      BY SMT, LoggerAssumption DEF Names, LoggerAssumption
    <3>2. 0 \in 0 .. Len(files)
      BY SMT, <1>1
    <3> QED  BY <1>1, <3>1, <3>2 DEF rotate_logfiles
  <2>3. dir \in [Names -> 0 .. Len(files)]
    BY <1>1, <2>2
  <2> HIDE DEF dir
  <2>4. names' \in [Names -> 0 .. Len(files) + 1]
    BY <1>3, <2>1, <2>3
  <2> QED  BY <1>1, <1>2, <1>4, <1>6, <2>1, <2>4
<1> QED  BY <1>5, <1>6

-----------------------------------------------------------------------------
(* Types *)

\* The main thread is none of the shards.
LEMMA MainApart ==
  /\ Main \in Threads /\ Main \notin Shards /\ Control \in Shards
  /\ \A s \in Shards : s \in Threads /\ s # Main
BY LoggerAssumption DEF Threads, Main, LoggerAssumption

\* writeEvent adds to the last file only.
LEMMA WriteFacts ==
  ASSUME TypeOK, NEW e \in Event, writeEvent(e)
  PROVE  /\ Len(files) \in Nat \ {0} /\ Len(files) \in 1..Len(files)
         /\ Len(files') = Len(files) /\ files' \in Seq(Seq(Event)) /\ files' # <<>>
         /\ files'[Len(files)] = Append(files[Len(files)], e)
         /\ files[Len(files)] \in Seq(Event)
         /\ \A i \in 1..Len(files) : i # Len(files) => files'[i] = files[i]
         /\ UNCHANGED <<mode, names, filename, next_increment_num>> /\ logsize' \in Nat
<1>1. files \in Seq(Seq(Event)) /\ files # <<>> /\ logsize \in Nat
  BY DEF TypeOK, FileTypes
<1>2. /\ files' = [files EXCEPT ![Len(files)] = Append(@, e)] /\ logsize' = logsize + 1
      /\ UNCHANGED <<mode, names, filename, next_increment_num>>
  BY DEF writeEvent
<1>3. Len(files) \in Nat \ {0} /\ Len(files) \in 1..Len(files)
  BY SMT, <1>1
<1>4. files[Len(files)] \in Seq(Event)
  BY SMT, <1>1, <1>3
<1>5. Append(files[Len(files)], e) \in Seq(Event)
  BY <1>4, AppendFacts
<1>6. /\ Len(files') = Len(files) /\ files' \in Seq(Seq(Event)) /\ files' # <<>>
      /\ files'[Len(files)] = Append(files[Len(files)], e)
      /\ \A i \in 1..Len(files) : i # Len(files) => files'[i] = files[i]
  BY SMT, <1>1, <1>2, <1>3, <1>5
<1>7. logsize' \in Nat
  BY SMT, <1>1, <1>2
<1> QED  BY <1>2, <1>3, <1>4, <1>6, <1>7

-----------------------------------------------------------------------------
(* What a step leaves alone stays right. *)

\* What the main thread holds, while it goes nowhere or puts it down.
LEMMA KeepHand ==
  ASSUME HandInv, UNCHANGED files,
         \/ pc'[Main] = pc[Main] /\ le' = le
         \/ pc'[Main] \notin {"msg", "barrier", "cycle"}
  PROVE  HandInv'
<1>1. CASE pc'[Main] = pc[Main] /\ le' = le
  BY <1>1 DEF HandInv, Ends, Barrier
<1>2. CASE pc'[Main] \notin {"msg", "barrier", "cycle"}
  BY <1>2 DEF HandInv
<1> QED  BY <1>1, <1>2

\* The pending cycle, while the queue and the main thread's part of it stay.
LEMMA KeepPending ==
  ASSUME PendingInv, UNCHANGED <<q, pending>>, job'[Main].reply = job[Main].reply,
         \/ pc'[Main] = pc[Main] /\ le' = le
         \/ pc'[Main] \notin Cycling
         \/ pc[Main] = "cycled" /\ pc'[Main] = "cycle locked"
  PROVE  PendingInv'
BY DEF PendingInv, Cycling

\* The order of the requests, while none is sent, received or done.
LEMMA KeepRequests ==
  ASSUME RequestsInv, UNCHANGED <<reqs, cseq>>, Latest' = Latest
  PROVE  RequestsInv'
BY DEF RequestsInv

\* The work of the shards, while nobody gets any and nothing is queued.
LEMMA KeepJobs ==
  ASSUME JobsInv, UNCHANGED <<accepted, reqs, cseq, nmsgs>>, Latest' = Latest,
         \A s \in Shards : Received(s)' => Received(s) /\ job'[s].ev = job[s].ev
  PROVE  JobsInv'
BY DEF JobsInv, NewMsg, InTurn

\* The history of the queue, while nothing is queued and no write fails.
LEMMA KeepAccepted ==
  ASSUME AcceptedInv, UNCHANGED <<accepted, failed, nmsgs>>, Latest' = Latest
  PROVE  AcceptedInv'
BY DEF AcceptedInv

\* What a frame reports, while no file changes.
LEMMA KeepTold ==
  ASSUME UNCHANGED <<files, names>>, NEW r, Told(r)
  PROVE  Told(r)'
BY DEF Told, Ends, Barrier

\* The names and the frames that are kept, while no file changes.
LEMMA KeepNames ==
  ASSUME NamesInv, UNCHANGED <<mode, files, names, filename, next_increment_num, completed>>,
         \A t \in Threads : \/ job'[t].reply \in {job[t].reply, completed}
                            \/ job'[t].reply.kind # "complete"
  PROVE  NamesInv'
BY DEF NamesInv, Told, Ends, Barrier

\* What the controller was told, while no file changes.
LEMMA KeepCompletion ==
  ASSUME CompletionTrue, UNCHANGED <<mode, files, names>>,
         \A r \in replies' : r \in replies \/ r.kind # "complete" \/ (mode = "increment" => Told(r))
  PROVE  CompletionTrue'
BY DEF CompletionTrue, Told, Ends, Barrier

\* The order of the events, while none moves.
LEMMA KeepOrder ==
  ASSUME LogOrder, UNCHANGED <<files, accepted, failed>>, Waiting' = Waiting
  PROVE  LogOrder'
<1>1. \A e : Kept(e) => Kept(e)'
  BY DEF Kept
<1>2. \A e, f : Before(e, f) => Before(e, f)'
  BY DEF Before
<1>3. AcceptedOnce' /\ NoneLost'
  BY ZenonT(40) DEF LogOrder, AcceptedOnce, NoneLost
<1>4. FilesInOrder'
  BY <1>1, <1>2 DEF LogOrder, FilesInOrder
<1>5. WaitingInOrder'
  BY <1>1, <1>2 DEF LogOrder, WaitingInOrder
<1> QED  BY <1>3, <1>4, <1>5 DEF LogOrder

\* The last events of the files, while no file changes.
LEMMA KeepEnds ==
  ASSUME BarrierEndsFile, UNCHANGED files,
         pc[Main] = "cycle" => pc'[Main] = "cycle" \/ status' # "running",
         status # "running" => status' # "running"
  PROVE  BarrierEndsFile'
BY DEF BarrierEndsFile

\* Where the main thread has no event in hand.
Between == {"lock", "locked", "waiting", "stopping"}

\* A step that moves no event and no cycle.
Quiet ==
  /\ UNCHANGED <<mode, files, names, filename, next_increment_num, q, accepted, failed>>
  /\ UNCHANGED <<pending, completed, reqs, cseq, nmsgs>>
  /\ \/ pc'[Main] = pc[Main] /\ le' = le
     \/ pc[Main] \in Between /\ pc'[Main] \in Between
     \/ pc[Main] = "cycled" /\ pc'[Main] = "cycle locked"
     \/ pc[Main] = "complete" /\ pc'[Main] = "lock"
  /\ \A s \in Shards : Received(s)' => Received(s)
  /\ job'[Main].reply = job[Main].reply
  /\ \A t \in Threads : /\ job'[t].ev = job[t].ev
                        /\ \/ job'[t].reply \in {job[t].reply, completed}
                           \/ job'[t].reply.kind # "complete"
  /\ \A r \in replies' : r \in replies \/ r.kind # "complete" \/ \E t \in Threads : r = job[t].reply
  /\ status # "running" => status' # "running"

\* A quiet step keeps the invariant.
LEMMA QuietStep == ASSUME LoggerInv, Quiet, TypeOK' PROVE LoggerInv'
<1>1. /\ HandInv /\ PendingInv /\ RequestsInv /\ JobsInv /\ AcceptedInv /\ NamesInv
      /\ LogOrder /\ BarrierEndsFile /\ CompletionTrue
  BY DEF LoggerInv
<1>2. \/ pc'[Main] = pc[Main] /\ le' = le
      \/ pc'[Main] \notin {"msg", "barrier", "cycle"}
  BY DEF Quiet, Between
<1>3. HandInv'
  BY <1>1, <1>2, KeepHand DEF Quiet
<1>4. PendingInv'
  <2>1. \/ pc'[Main] = pc[Main] /\ le' = le
        \/ pc'[Main] \notin Cycling
        \/ pc[Main] = "cycled" /\ pc'[Main] = "cycle locked"
    BY DEF Quiet, Between, Cycling
  <2> QED  BY <1>1, <2>1, KeepPending DEF Quiet
<1>5. RequestsInv' /\ JobsInv' /\ AcceptedInv' /\ NamesInv'
  <2>1. Latest' = Latest
    BY DEF Quiet, Latest
  <2>2. \A s \in Shards : Received(s)' => Received(s) /\ job'[s].ev = job[s].ev
    BY MainApart DEF Quiet
  <2> QED
    BY <1>1, <2>1, <2>2, KeepRequests, KeepJobs, KeepAccepted, KeepNames DEF Quiet
<1>6. CompletionTrue'
  <2>1. \A r \in replies' : r \in replies \/ r.kind # "complete" \/ (mode = "increment" => Told(r))
    BY <1>1 DEF Quiet, NamesInv
  <2> QED  BY <1>1, <2>1, KeepCompletion DEF Quiet
<1>7. LogOrder'
  <2>1. Waiting' = Waiting
    BY DEF Waiting, Hand, Quiet, Between
  <2> QED  BY <1>1, <2>1, KeepOrder DEF Quiet
<1>8. BarrierEndsFile'
  <2>1. pc[Main] = "cycle" => pc'[Main] = "cycle"
    BY DEF Quiet, Between
  <2> QED  BY <1>1, <2>1, KeepEnds DEF Quiet
<1> QED  BY <1>3, <1>4, <1>5, <1>6, <1>7, <1>8 DEF LoggerInv

-----------------------------------------------------------------------------
(* Types *)

\* One thread moves on.
LEMMA PcType ==
  ASSUME ThreadTypes, NEW t \in Threads, NEW x,
         IF t = Main THEN x \in MainLocs ELSE x \in ShardLocs,
         pc' = [pc EXCEPT ![t] = x]
  PROVE  /\ pc' \in [Threads -> MainLocs \cup ShardLocs]
         /\ pc'[Main] \in MainLocs /\ \A s \in Shards : pc'[s] \in ShardLocs
         /\ pc'[t] = x /\ \A r \in Threads : r # t => pc'[r] = pc[r]
BY MainApart DEF ThreadTypes

\* One thread gets an event to work on.
LEMMA EvType ==
  ASSUME ThreadTypes, NEW t \in Threads, NEW e \in Event,
         job' = [job EXCEPT ![t].ev = e]
  PROVE  /\ job' \in [Threads -> [ev : Event \cup {NoEvent}, reply : Frame]]
         /\ job'[t].ev = e
         /\ \A r \in Threads : /\ job'[r].reply = job[r].reply
                               /\ r # t => job'[r].ev = job[r].ev
BY SMT DEF ThreadTypes

\* One thread gets a frame to send.
LEMMA ReplyType ==
  ASSUME ThreadTypes, NEW t \in Threads, NEW f \in Frame,
         job' = [job EXCEPT ![t].reply = f]
  PROVE  /\ job' \in [Threads -> [ev : Event \cup {NoEvent}, reply : Frame]]
         /\ job'[t].reply = f
         /\ \A r \in Threads : /\ job'[r].ev = job[r].ev
                               /\ r # t => job'[r].reply = job[r].reply
BY SMT DEF ThreadTypes

\* What handler() and handleCycleRequest queue.
LEMMA PushType ==
  ASSUME QueueTypes, NEW e \in Event, push(e), UNCHANGED failed
  PROVE  QueueTypes'
<1>1. q' = Append(q, e) /\ accepted' = Append(accepted, e) /\ totalMemoryUsage' = Len(q) + 1
  BY DEF push, QueueTypes
<1> QED  BY <1>1, AppendFacts DEF QueueTypes

\* The variables a step does not touch keep their types.
LEMMA KeepTypes ==
  /\ FileTypes /\ UNCHANGED log => FileTypes'
  /\ QueueTypes /\ UNCHANGED <<queue, failed>> => QueueTypes'
  /\ CycleTypes /\ UNCHANGED <<cycle, reqs, cseq, replies>> => CycleTypes'
  /\ SignalTypes /\ UNCHANGED <<signals, status, nmsgs, nreqs, faults>> => SignalTypes'
<1>1. FileTypes /\ UNCHANGED log => FileTypes'
  BY DEF FileTypes, log
<1>2. QueueTypes /\ UNCHANGED <<queue, failed>> => QueueTypes'
  BY DEF QueueTypes, queue
<1>3. CycleTypes /\ UNCHANGED <<cycle, reqs, cseq, replies>> => CycleTypes'
  BY DEF CycleTypes, cycle
<1>4. SignalTypes /\ UNCHANGED <<signals, status, nmsgs, nreqs, faults>> => SignalTypes'
  BY DEF SignalTypes, signals
<1> QED  BY <1>1, <1>2, <1>3, <1>4

\* A frame is sent or the process gives up.
LEMMA SendType ==
  ASSUME CycleTypes, SignalTypes, NEW f \in Frame, Send(f),
         UNCHANGED <<cycle, reqs, cseq, signals, nmsgs, nreqs>>
  PROVE  CycleTypes' /\ SignalTypes'
<1>1. CycleTypes'
  BY DEF CycleTypes, Send, cycle
<1>2. faults' \in Nat /\ status' \in {"running", "exited", "failed"}
  <2>1. faults \in Nat /\ faults + 1 \in Nat
    BY SMT DEF SignalTypes
  <2> QED  BY <2>1 DEF SignalTypes, Send
<1>3. SignalTypes'
  BY <1>2 DEF SignalTypes, signals
<1> QED  BY <1>1, <1>3

\* The types of a thread's own step: where it goes, and what it locks.
LEMMA ThreadType ==
  ASSUME ThreadTypes, NEW t \in Threads, NEW x,
         IF t = Main THEN x \in MainLocs ELSE x \in ShardLocs,
         pc' = [pc EXCEPT ![t] = x],
         lk' = lk \/ Lock(t) \/ Unlock(t),
         le' = le \/ le' \in Event \cup {NoEvent},
         job' = job \/ job' \in [Threads -> [ev : Event \cup {NoEvent}, reply : Frame]]
  PROVE  ThreadTypes'
<1>1. /\ pc' \in [Threads -> MainLocs \cup ShardLocs]
      /\ pc'[Main] \in MainLocs /\ \A s \in Shards : pc'[s] \in ShardLocs
  BY PcType
<1>2. lk' \in Threads \cup {Nobody}
  BY DEF Lock, Unlock, ThreadTypes
<1> QED  BY <1>1, <1>2 DEF ThreadTypes

\* A step of a shard's thread keeps the types.
LEMMA ShardTypes ==
  ASSUME TypeOK, JobsInv, NEW s \in Shards, ReceiveMsg(s) \/ ShardStep(s)
  PROVE  TypeOK'
<1> USE DEF Goto
<1>t. FileTypes /\ QueueTypes /\ ThreadTypes /\ CycleTypes /\ SignalTypes
  BY DEF TypeOK
<1>s. /\ s \in Threads /\ s # Main
      /\ \A x : x \in ShardLocs => IF s = Main THEN x \in MainLocs ELSE x \in ShardLocs
      /\ job[s].reply \in Frame
  BY <1>t, MainApart DEF ThreadTypes
<1>j. pc[s] = "locked" => job[s].ev \in Event
  BY DEF JobsInv, Received
<1>n. nmsgs \in Nat /\ nmsgs + 1 \in Nat \ {0}
  BY SMT, <1>t DEF SignalTypes
<1> USE DEF ShardLocs
<1>1. CASE ReceiveMsg(s)
  <2>1. Msg(nmsgs + 1) \in Event
    BY <1>n DEF Msg, Event
  <2>2. ThreadTypes'
    BY <1>1, <1>t, <1>s, <2>1, EvType, ThreadType DEF ReceiveMsg
  <2>3. SignalTypes'
    BY <1>1, <1>t, <1>n DEF ReceiveMsg, SignalTypes, signals, controller
  <2> QED
    BY <1>1, <1>t, <2>2, <2>3, KeepTypes DEF ReceiveMsg, controller, TypeOK
<1>2. CASE ReceiveRequest(s)
  <2>1. Head(reqs) \in Nat \ {0} /\ Tail(reqs) \in Seq(Nat \ {0})
    <3>1. reqs \in Seq(Nat \ {0}) /\ reqs # <<>>
      BY <1>2, <1>t DEF ReceiveRequest, CycleTypes
    <3> QED  BY SMT, <3>1
  <2>2. Barrier(Head(reqs)) \in Event
    BY <2>1 DEF Barrier, Event
  <2>3. ThreadTypes'
    BY <1>2, <1>t, <1>s, <2>2, EvType, ThreadType DEF ReceiveRequest
  <2>4. CycleTypes'
    BY <1>2, <1>t, <2>1 DEF ReceiveRequest, CycleTypes, cycle
  <2> QED
    BY <1>2, <1>t, <2>3, <2>4, KeepTypes DEF ReceiveRequest, TypeOK
<1>3. CASE HandlerLock(s)
  BY <1>3, <1>t, <1>s, ThreadType, KeepTypes DEF HandlerLock, controller, TypeOK
<1>4. CASE handler(s)
  <2>1. QueueTypes'
    BY <1>4, <1>t, <1>j, PushType DEF handler
  <2>2. ThreadTypes'
    BY <1>4, <1>t, <1>s, ThreadType DEF handler
  <2> QED
    BY <1>4, <1>t, <2>1, <2>2, KeepTypes DEF handler, controller, TypeOK
<1>5. CASE handleCycleRequest(s)
  <2> DEFINE n == job[s].ev.id
             busy == [kind |-> "busy", seq |-> n, old |-> 0, new |-> 0]
  <2>1. /\ Unlock(s) /\ pc[s] = "locked"
        /\ \/ pc' = [pc EXCEPT ![s] = "idle"] /\ UNCHANGED <<queue, pending, job>>
           \/ /\ pc' = [pc EXCEPT ![s] = "reply"] /\ UNCHANGED <<queue, pending>>
              /\ \/ job' = [job EXCEPT ![s].reply = busy]
                 \/ job' = [job EXCEPT ![s].reply = completed]
           \/ /\ pc' = [pc EXCEPT ![s] = "notify"] /\ push(job[s].ev)
              /\ pending' = n /\ UNCHANGED job
        /\ UNCHANGED <<log, completed, signals, le, controller, replies,
                       status, failed, nmsgs, faults>>
    BY <1>5 DEF handleCycleRequest
  <2>2. n \in Nat
    BY <1>j, <2>1 DEF Event
  <2>3. busy \in Frame /\ completed \in Frame
    <3>1. 0 \in Names
      BY SMT, LoggerAssumption DEF Names, LoggerAssumption
    <3> QED  BY <1>t, <2>2, <3>1 DEF Frame, CycleTypes
  <2> HIDE DEF n, busy
  <2>4. job' = job \/ job' \in [Threads -> [ev : Event \cup {NoEvent}, reply : Frame]]
    BY <1>t, <1>s, <2>1, <2>3, ReplyType
  <2>5. ThreadTypes'
    BY <1>t, <1>s, <2>1, <2>4, ThreadType
  <2>6. QueueTypes'
    BY <1>t, <1>j, <2>1, PushType, KeepTypes
  <2>7. CycleTypes'
    BY <1>t, <2>1, <2>2 DEF CycleTypes, controller
  <2> QED
    BY <1>t, <2>1, <2>5, <2>6, <2>7, KeepTypes DEF controller, TypeOK
<1>6. CASE Notify(s) \/ wakeup(s)
  <2>1. /\ pc' \in [Threads -> MainLocs \cup ShardLocs]
        /\ pc'[Main] \in MainLocs /\ \A r \in Shards : pc'[r] \in ShardLocs
    <3>1. Woken \in MainLocs
      BY <1>t DEF Woken, ThreadTypes, MainLocs
    <3>2. \/ pc' = [pc EXCEPT ![s] = "idle", ![Main] = Woken]
          \/ pc' = [pc EXCEPT ![Main] = Woken]
      BY <1>6 DEF Notify, wakeup
    <3> QED  BY <1>t, <1>s, <3>1, <3>2, MainApart DEF ThreadTypes
  <2>2. ThreadTypes'
    BY <1>6, <1>t, <2>1 DEF Notify, wakeup, ThreadTypes
  <2>3. SignalTypes'
    BY <1>6, <1>t, <1>s DEF Notify, wakeup, SignalTypes, signals, controller
  <2> QED
    BY <1>6, <1>t, <2>2, <2>3, KeepTypes DEF Notify, wakeup, controller, TypeOK
<1>7. CASE Reply(s)
  BY <1>7, <1>t, <1>s, ThreadType, SendType, KeepTypes DEF Reply, controller, TypeOK
<1> QED  BY <1>1, <1>2, <1>3, <1>4, <1>5, <1>6, <1>7 DEF ShardStep

\* A step of the main thread keeps the types.
LEMMA MainTypes ==
  ASSUME TypeOK, HandInv, NamesInv, MainStep
  PROVE  TypeOK'
<1> USE DEF Goto
<1>t. FileTypes /\ QueueTypes /\ ThreadTypes /\ CycleTypes /\ SignalTypes
  BY DEF TypeOK
<1>s. /\ Main \in Threads
      /\ \A x : x \in MainLocs => IF Main = Main THEN x \in MainLocs ELSE x \in ShardLocs
      /\ job[Main].reply \in Frame
  BY <1>t, MainApart DEF ThreadTypes
<1>e. pc[Main] \in {"msg", "barrier", "cycle"} => le \in Event
  <2>1. NoEvent.kind = "none"
    BY DEF NoEvent
  <2>2. le = NoEvent => le.kind = "none"
    BY <2>1
  <2> QED  BY <1>t, <2>2 DEF HandInv, ThreadTypes
<1>z. 0 \in Names
  BY SMT, LoggerAssumption DEF Names, LoggerAssumption
<1>o. ASSUME OpenNext PROVE FileTypes'
  <2>1. /\ files' = Append(files, <<>>) /\ mode' = mode /\ logsize' = 0
        /\ names' \in [Names -> 0 .. Len(files) + 1] /\ filename' \in Names
        /\ next_increment_num' \in Nat
    BY <1>o, OpenFacts
  <2>2. /\ files' \in Seq(Seq(Event)) /\ files' # <<>> /\ Len(files') = Len(files) + 1
        /\ 0 \in Nat
    <3>1. files \in Seq(Seq(Event)) /\ <<>> \in Seq(Event)
      BY SMT, <1>t DEF FileTypes
    <3> QED  BY SMTT(30), <2>1, <3>1
  <2> QED  BY <1>t, <2>1, <2>2 DEF FileTypes
<1>w. ASSUME writeEvent(le), le \in Event PROVE FileTypes'
  <2>1. /\ Len(files') = Len(files) /\ files' \in Seq(Seq(Event)) /\ files' # <<>>
        /\ UNCHANGED <<mode, names, filename, next_increment_num>> /\ logsize' \in Nat
    BY <1>w, WriteFacts
  <2> QED  BY <1>t, <2>1 DEF FileTypes
<1> USE DEF MainLocs
<1>1. CASE MainLock \/ CycleLock
  BY <1>1, <1>t, <1>s, ThreadType, KeepTypes DEF MainLock, CycleLock, controller, TypeOK
<1>2. CASE flushWhenReady
  <2>1. /\ Unlock(Main) /\ UNCHANGED <<log, accepted, cycle, signals, job, controller,
                                       replies, status, failed, nmsgs, faults>>
        /\ \/ /\ UNCHANGED <<q, totalMemoryUsage, le>>
              /\ \E x \in {"waiting", "stopping"} : pc' = [pc EXCEPT ![Main] = x]
           \/ /\ q # <<>> /\ pc' = [pc EXCEPT ![Main] = Head(q).kind]
              /\ le' = Head(q) /\ q' = Tail(q)
              /\ totalMemoryUsage' = totalMemoryUsage - 1
    BY <1>2 DEF flushWhenReady
  <2>2. q # <<>> => /\ Head(q) \in Event /\ Tail(q) \in Seq(Event)
                    /\ Len(Tail(q)) = Len(q) - 1
    BY <1>t, TailFacts DEF QueueTypes
  <2>3. Head(q) \in Event => Head(q).kind \in MainLocs
    BY DEF Event
  <2>4. QueueTypes'
    BY <1>t, <2>1, <2>2 DEF QueueTypes
  <2>5. ThreadTypes'
    <3>1. CASE UNCHANGED le
      BY <1>t, <1>s, <2>1, <2>2, <2>3, <3>1, ThreadType
    <3>2. CASE q # <<>> /\ pc' = [pc EXCEPT ![Main] = Head(q).kind] /\ le' = Head(q)
      BY <1>t, <1>s, <2>1, <2>2, <2>3, <3>2, ThreadType
    <3> QED  BY <2>1, <3>1, <3>2
  <2> QED  BY <1>t, <2>1, <2>4, <2>5, KeepTypes DEF controller, TypeOK
<1>3. CASE Split
  <2>1. SignalTypes'
    <3>1. got_sighup' \in {0, 1}
      BY <1>3, <1>t DEF Split, SignalTypes
    <3> QED  BY <1>3, <1>t, <3>1 DEF Split, SignalTypes, controller
  <2>2. ThreadTypes'
    BY <1>3, <1>t DEF Split, ThreadTypes
  <2> QED  BY <1>3, <1>o, <1>t, <2>1, <2>2, KeepTypes DEF Split, controller, TypeOK
<1>4. CASE SplitFails \/ Exit
  <2>1. SignalTypes'
    BY <1>4, <1>t DEF SplitFails, Exit, SignalTypes, signals, controller
  <2>2. ThreadTypes'
    BY <1>4, <1>t DEF SplitFails, Exit, ThreadTypes
  <2> QED
    BY <1>4, <1>t, <2>1, <2>2, KeepTypes DEF SplitFails, Exit, controller, TypeOK
<1>5. CASE WriteMsg
  <2>1. ThreadTypes'
    BY <1>5, <1>t, <1>s, ThreadType DEF WriteMsg
  <2> QED  BY <1>5, <1>e, <1>w, <1>t, <2>1, KeepTypes DEF WriteMsg, controller, TypeOK
<1>6. CASE WriteFails
  <2>1. le \in Event /\ pc[Main] = le.kind
    <3>1. NoEvent.kind = "none"
      BY DEF NoEvent
    <3>2. le = NoEvent => le.kind = "none"
      BY <3>1
    <3>3. pc[Main] = le.kind
      BY <1>6 DEF WriteFails
    <3> QED  BY <1>t, <3>2, <3>3 DEF ThreadTypes
  <2>2. [kind |-> "error", seq |-> le.id, old |-> 0, new |-> 0] \in Frame
    BY <1>z, <2>1 DEF Event, Frame
  <2>3. \A r \in replies' : r \in replies
                          \/ r = [kind |-> "error", seq |-> le.id, old |-> 0, new |-> 0]
    BY <1>6 DEF WriteFails
  <2>4. CycleTypes'
    BY <1>6, <1>t, <2>2, <2>3 DEF WriteFails, CycleTypes, cycle, controller
  <2>5. SignalTypes'
    <3>1. faults \in Nat /\ faults + 1 \in Nat
      BY SMT, <1>t DEF SignalTypes
    <3> QED  BY <1>6, <1>t, <3>1 DEF WriteFails, SignalTypes, signals, controller
  <2>6. QueueTypes'
    BY <1>6, <1>t, <2>1 DEF WriteFails, QueueTypes, queue
  <2>7. ThreadTypes'
    BY <1>6, <1>t, <1>s, ThreadType DEF WriteFails
  <2> QED
    BY <1>6, <1>t, <2>4, <2>5, <2>6, <2>7, KeepTypes DEF WriteFails, TypeOK
<1>7. CASE WriteBarrier
  <2>1. ThreadTypes'
    BY <1>7, <1>t, <1>s, ThreadType DEF WriteBarrier
  <2> QED  BY <1>7, <1>e, <1>w, <1>t, <2>1, KeepTypes DEF WriteBarrier, controller, TypeOK
<1>8. CASE Cycle
  <2> DEFINE f == [kind |-> "complete", seq |-> le.id, old |-> filename, new |-> filename']
  <2>1. f \in Frame
    <3>1. filename \in Names /\ filename' \in Names /\ le.id \in Nat
      BY <1>8, <1>t, <1>e, OpenFacts DEF Cycle, FileTypes, Event
    <3> QED  BY <3>1 DEF Frame
  <2>2. job' = [job EXCEPT ![Main].reply = f]
    BY <1>8 DEF Cycle
  <2> HIDE DEF f
  <2>3. ThreadTypes'
    BY <1>8, <1>t, <1>s, <2>1, <2>2, ReplyType, ThreadType DEF Cycle
  <2> QED  BY <1>8, <1>o, <1>t, <2>3, KeepTypes DEF Cycle, controller, TypeOK
<1>9. CASE CycleFails
  <2>1. [kind |-> "error", seq |-> le.id, old |-> 0, new |-> 0] \in Frame
    BY <1>9, <1>z, <1>e DEF CycleFails, Event, Frame
  <2>2. CycleTypes'
    BY <1>9, <1>t, <2>1 DEF CycleFails, CycleTypes, cycle, controller
  <2>3. SignalTypes'
    BY <1>9, <1>t DEF CycleFails, SignalTypes, signals, controller
  <2>4. ThreadTypes'
    BY <1>9, <1>t DEF CycleFails, ThreadTypes
  <2> QED  BY <1>9, <1>t, <2>2, <2>3, <2>4, KeepTypes DEF CycleFails, TypeOK
<1>10. CASE CycleDone
  <2>1. CycleTypes'
    BY <1>10, <1>t, <1>s DEF CycleDone, CycleTypes, controller, NoCycle
  <2>2. ThreadTypes'
    BY <1>10, <1>t, <1>s, ThreadType DEF CycleDone
  <2> QED  BY <1>10, <1>t, <2>1, <2>2, KeepTypes DEF CycleDone, controller, TypeOK
<1>11. CASE sendCycleComplete
  <2>1. ThreadTypes'
    BY <1>11, <1>t, <1>s, ThreadType DEF sendCycleComplete
  <2> QED
    BY <1>11, <1>t, <1>s, <2>1, SendType, KeepTypes DEF sendCycleComplete, controller, TypeOK
<1>12. CASE wakeup(Main)
  <2>1. Woken \in MainLocs
    BY <1>t DEF Woken, ThreadTypes
  <2>2. ThreadTypes'
    BY <1>12, <1>t, <1>s, <2>1, ThreadType DEF wakeup
  <2>3. SignalTypes'
    BY <1>12, <1>t, <1>s DEF wakeup, SignalTypes, controller
  <2> QED  BY <1>12, <1>t, <2>2, <2>3, KeepTypes DEF wakeup, controller, TypeOK
<1> QED
  BY <1>1, <1>2, <1>3, <1>4, <1>5, <1>6, <1>7, <1>8, <1>9, <1>10, <1>11, <1>12 DEF MainStep

\* Signals and requests keep the types.
LEMMA OtherTypes ==
  ASSUME TypeOK, (\E t \in Threads : sighandler(t) \/ sighup_handler(t)) \/ Request
  PROVE  TypeOK'
<1>t. FileTypes /\ QueueTypes /\ ThreadTypes /\ CycleTypes /\ SignalTypes
  BY DEF TypeOK
<1>1. ASSUME NEW t \in Threads, sighandler(t) \/ sighup_handler(t) PROVE TypeOK'
  <2>1. done + 1 \in Nat /\ hups + 1 \in Nat
    BY SMT, <1>t DEF SignalTypes
  <2>2. SignalTypes'
    BY <1>1, <1>t, <2>1 DEF sighandler, sighup_handler, SignalTypes, controller
  <2>3. ThreadTypes'
    BY <1>1, <1>t DEF sighandler, sighup_handler, ThreadTypes
  <2> QED
    BY <1>1, <1>t, <2>2, <2>3, KeepTypes DEF sighandler, sighup_handler, controller, TypeOK
<1>2. CASE Request
  <2>1. cseq' \in Nat \ {0} /\ Append(reqs, cseq') \in Seq(Nat \ {0}) /\ nreqs + 1 \in Nat
    <3>1. cseq' \in {cseq, cseq + 1} \ {0} /\ cseq \in Nat /\ nreqs \in Nat
          /\ reqs \in Seq(Nat \ {0})
      BY <1>2, <1>t DEF Request, CycleTypes, SignalTypes
    <3> QED  BY SMT, <3>1
  <2>2. CycleTypes'
    BY <1>2, <1>t, <2>1 DEF Request, CycleTypes, cycle
  <2>3. SignalTypes' /\ ThreadTypes'
    BY <1>2, <1>t, <2>1 DEF Request, SignalTypes, ThreadTypes, signals
  <2> QED  BY <1>2, <1>t, <2>2, <2>3, KeepTypes DEF Request, TypeOK
<1> QED  BY <1>1, <1>2

-----------------------------------------------------------------------------
(* The quiet steps *)

\* The steps of a shard that queue nothing, and those of the signals.
LEMMA ShardQuiet ==
  ASSUME LoggerInv, TypeOK', NEW t \in Threads,
         \/ t \in Shards /\ (HandlerLock(t) \/ Notify(t) \/ Reply(t))
         \/ sighandler(t) \/ sighup_handler(t) \/ wakeup(t)
  PROVE  LoggerInv'
<1>p. pc \in [Threads -> MainLocs \cup ShardLocs]
  BY DEF LoggerInv, TypeOK, ThreadTypes
<1>m. /\ Main \in Threads /\ \A s \in Shards : s \in Threads /\ s # Main
  BY MainApart
<1> USE DEF log, queue, cycle, controller, Quiet, Received
<1>w. Woken = pc[Main] \/ (pc[Main] \in Between /\ Woken \in Between)
  BY SMT DEF Woken, Between
<1>1. CASE t \in Shards /\ HandlerLock(t)
  <2>a. pc[t] = "lock" /\ pc' = [pc EXCEPT ![t] = "locked"]
    BY <1>1 DEF HandlerLock, Goto
  <2>b. pc'[Main] = pc[Main]
    BY <1>1, <1>p, <1>m, <2>a
  <2>1. /\ pc'[Main] = pc[Main]
        /\ \A s \in Shards : \/ pc'[s] = pc[s]
                             \/ pc[s] = "lock" /\ pc'[s] = "locked"
    BY SMT, <1>p, <1>m, <2>a, <2>b
  <2> QED  BY <1>1, <2>1, QuietStep DEF HandlerLock
<1>2. CASE t \in Shards /\ Notify(t)
  <2>1. pc'[Main] = Woken /\ \A s \in Shards : pc'[s] \in {pc[s], "idle"}
    BY <1>2, <1>p, <1>m DEF Notify
  <2> QED  BY <1>2, <1>w, <2>1, QuietStep DEF Notify, Running
<1>3. CASE t \in Shards /\ Reply(t)
  <2>1. pc'[Main] = pc[Main] /\ \A s \in Shards : pc'[s] \in {pc[s], "idle"}
    BY <1>3, <1>p, <1>m DEF Reply, Goto
  <2>2. replies' \in {replies, replies \cup {job[t].reply}} /\ status = "running"
    BY <1>3 DEF Reply, Send, Goto, Running
  <2> QED  BY <1>3, <2>1, <2>2, QuietStep DEF Reply
<1>4. CASE sighandler(t) \/ sighup_handler(t)
  BY <1>4, QuietStep DEF sighandler, sighup_handler
<1>5. CASE wakeup(t)
  <2>1. pc'[Main] = Woken /\ \A s \in Shards : pc'[s] = pc[s]
    BY <1>5, <1>p, <1>m DEF wakeup
  <2> QED  BY <1>5, <1>w, <2>1, QuietStep DEF wakeup
<1> QED  BY <1>1, <1>2, <1>3, <1>4, <1>5

\* The steps of the main thread that move no event and no cycle.
LEMMA MainQuiet ==
  ASSUME LoggerInv, TypeOK',
         \/ MainLock \/ CycleLock \/ SplitFails \/ CycleFails \/ Exit
         \/ sendCycleComplete \/ (flushWhenReady /\ UNCHANGED <<q, le>>)
  PROVE  LoggerInv'
<1>p. pc \in [Threads -> MainLocs \cup ShardLocs]
  BY DEF LoggerInv, TypeOK, ThreadTypes
<1>m. Main \in Threads /\ \A s \in Shards : s \in Threads /\ s # Main
  BY MainApart
<1>g. ASSUME NEW a, NEW b, Goto(Main, a, b)
      PROVE  pc[Main] = a /\ pc'[Main] = b /\ (\A s \in Shards : pc'[s] = pc[s])
             /\ status = "running"
  BY <1>g, <1>p, <1>m DEF Goto, Running
<1> USE DEF log, queue, cycle, controller, Quiet, Received
<1>1. CASE MainLock
  <2>1. pc[Main] = "lock" /\ pc'[Main] = "locked" /\ (\A s \in Shards : pc'[s] = pc[s])
    BY <1>1, <1>g DEF MainLock
  <2> QED  BY <1>1, <2>1, QuietStep DEF MainLock, Between
<1>2. CASE CycleLock
  <2>1. pc[Main] = "cycled" /\ pc'[Main] = "cycle locked" /\ (\A s \in Shards : pc'[s] = pc[s])
    BY <1>2, <1>g DEF CycleLock
  <2> QED  BY <1>2, <2>1, QuietStep DEF CycleLock
<1>3. CASE SplitFails \/ Exit
  BY <1>3, QuietStep DEF SplitFails, Exit
<1>4. CASE CycleFails
  <2>1. \A r \in replies' : r \in replies \/ r.kind = "error"
    <3> DEFINE f == [kind |-> "error", seq |-> le.id, old |-> 0, new |-> 0]
    <3>1. f.kind = "error" /\ replies' = replies \cup {f}
      BY <1>4 DEF CycleFails
    <3> HIDE DEF f
    <3> QED  BY <3>1
  <2> QED  BY <1>4, <2>1, QuietStep DEF CycleFails
<1>5. CASE sendCycleComplete
  <2>1. /\ pc[Main] = "complete" /\ pc'[Main] = "lock" /\ (\A s \in Shards : pc'[s] = pc[s])
        /\ status = "running"
    BY <1>5, <1>g DEF sendCycleComplete
  <2>2. replies' \in {replies, replies \cup {job[Main].reply}}
    BY <1>5 DEF sendCycleComplete, Send
  <2> QED  BY <1>5, <1>m, <2>1, <2>2, QuietStep DEF sendCycleComplete
<1>6. CASE flushWhenReady /\ UNCHANGED <<q, le>>
  <2>1. q # <<>> => Tail(q) # q
    BY SMT DEF LoggerInv, TypeOK, QueueTypes
  <2>2. /\ pc[Main] = "locked" /\ pc'[Main] \in {"waiting", "stopping"}
        /\ \A s \in Shards : pc'[s] = pc[s]
    BY <1>6, <1>g, <2>1 DEF flushWhenReady
  <2> QED  BY <1>6, <2>2, QuietStep DEF flushWhenReady, Between
<1> QED  BY <1>1, <1>2, <1>3, <1>4, <1>5, <1>6

-----------------------------------------------------------------------------
(* The shards *)

\* What a shard's step that only receives leaves alone.
LEMMA ReceiveKeeps ==
  ASSUME LoggerInv, UNCHANGED <<log, queue, lk, cycle, le, replies, status, failed>>,
         pc'[Main] = pc[Main], \A t \in Threads : job'[t].reply = job[t].reply
  PROVE  /\ HandInv' /\ PendingInv' /\ NamesInv' /\ LogOrder' /\ BarrierEndsFile'
         /\ CompletionTrue' /\ Latest' = Latest
<1> USE DEF log, queue, cycle
<1>1. HandInv' /\ NamesInv' /\ BarrierEndsFile' /\ CompletionTrue'
  BY KeepHand, KeepNames, KeepEnds, KeepCompletion DEF LoggerInv
<1>2. PendingInv'
  BY MainApart, KeepPending DEF LoggerInv
<1>3. Waiting' = Waiting /\ Latest' = Latest
  BY DEF Waiting, Hand, Latest
<1>4. LogOrder'
  BY <1>3, KeepOrder DEF LoggerInv
<1> QED  BY <1>1, <1>2, <1>3, <1>4

\* A message is one that nobody has seen.
LEMMA ReceiveMsgStep ==
  ASSUME LoggerInv, TypeOK', NEW s \in Shards, ReceiveMsg(s)
  PROVE  LoggerInv'
<1> DEFINE e == Msg(nmsgs + 1)
<1>t. /\ ThreadTypes /\ nmsgs \in Nat /\ accepted \in Seq(Event)
      /\ RequestsInv /\ JobsInv /\ AcceptedInv
  BY DEF LoggerInv, TypeOK, SignalTypes, QueueTypes
<1>m. s \in Threads /\ s # Main /\ \A r \in Shards : r \in Threads /\ r # Main
  BY MainApart
<1>1. e \in Event /\ e.kind = "msg" /\ e.id = nmsgs + 1
  BY SMT, <1>t DEF Msg, Event
<1>2. /\ pc' = [pc EXCEPT ![s] = "lock"] /\ pc[s] = "idle" /\ nmsgs' = nmsgs + 1
      /\ job' = [job EXCEPT ![s].ev = e]
      /\ UNCHANGED <<log, queue, lk, cycle, le, reqs, cseq, replies, status, failed>>
  BY DEF ReceiveMsg, Goto, controller
<1> HIDE DEF e
<1>3. /\ pc'[s] = "lock" /\ \A r \in Threads : r # s => pc'[r] = pc[r]
      /\ pc'[Main] = pc[Main]
  BY <1>t, <1>m, <1>2, MainApart DEF ThreadTypes
<1>4. /\ job'[s].ev = e
      /\ \A r \in Threads : job'[r].reply = job[r].reply /\ (r # s => job'[r].ev = job[r].ev)
  BY <1>t, <1>m, <1>1, <1>2, EvType
<1>5. /\ HandInv' /\ PendingInv' /\ NamesInv' /\ LogOrder' /\ BarrierEndsFile'
      /\ CompletionTrue' /\ Latest' = Latest
  BY <1>2, <1>3, <1>4, ReceiveKeeps
<1>6. RequestsInv'
  BY <1>t, <1>2, <1>5, KeepRequests
<1>7. \A f \in Event : f.id <= nmsgs => f.id <= nmsgs' /\ f # e
  BY SMT, <1>t, <1>1, <1>2 DEF Event
<1>8. \A a \in 1..Len(accepted) : accepted[a] \in Event
  BY SMT, <1>t
<1>9. AcceptedInv'
  BY <1>t, <1>2, <1>5, <1>7, <1>8 DEF AcceptedInv, queue
<1>10. \A a \in 1..Len(accepted) : accepted[a] # e
  BY <1>t, <1>1, <1>7, <1>8 DEF AcceptedInv
<1>11. JobsInv'
  <2>1. \A r \in Shards : Received(r) /\ r # s =>
          job[r].ev \in Event /\ job[r].ev # e
    BY <1>t, <1>1, <1>7 DEF JobsInv, NewMsg
  <2>2. \A r \in Shards : r # s => (Received(r)' <=> Received(r)) /\ job'[r].ev = job[r].ev
    BY <1>m, <1>3, <1>4 DEF Received
  <2>3. ASSUME NEW r \in Shards, Received(r)', r # s
        PROVE  /\ job'[r].ev \in Event
               /\ job'[r].ev.kind = "msg" => NewMsg(r)'
               /\ job'[r].ev.kind = "barrier" => InTurn(r)'
    <3>1. job'[r].ev = job[r].ev /\ Received(r) /\ job[r].ev \in Event /\ job[r].ev # e
      BY <2>1, <2>2, <2>3
    <3>2. NewMsg(r) => NewMsg(r)'
      BY <1>2, <1>4, <1>7, <2>2, <3>1 DEF NewMsg, queue
    <3>3. InTurn(r) => InTurn(r)'
      BY <1>2, <1>5, <3>1 DEF InTurn
    <3> QED  BY <1>t, <3>1, <3>2, <3>3 DEF JobsInv
  <2>4. job'[s].ev \in Event /\ job'[s].ev.kind # "barrier" /\ NewMsg(s)'
    <3>1. e.id <= nmsgs' /\ e.kind # "barrier"
      BY SMT, <1>t, <1>1, <1>2
    <3> QED  BY <1>1, <1>2, <1>4, <1>10, <2>1, <2>2, <3>1 DEF NewMsg, queue
  <2> QED  BY <2>3, <2>4 DEF JobsInv
<1> QED  BY <1>5, <1>6, <1>9, <1>11 DEF LoggerInv

\* The shard that is subscribed to the control channel receives a request.
LEMMA ReceiveRequestStep ==
  ASSUME LoggerInv, TypeOK', NEW s \in Shards, ReceiveRequest(s)
  PROVE  LoggerInv'
<1> DEFINE e == Barrier(Head(reqs))
<1>t. /\ ThreadTypes /\ cseq \in Nat /\ reqs \in Seq(Nat \ {0}) /\ Latest \in Nat
      /\ RequestsInv /\ JobsInv /\ AcceptedInv
  <2>1. completed.seq \in Nat /\ pending \in Nat
    BY DEF LoggerInv, TypeOK, CycleTypes, Frame
  <2> QED  BY <2>1 DEF LoggerInv, TypeOK, CycleTypes, Latest
<1>m. s \in Threads /\ s # Main /\ \A r \in Shards : r \in Threads /\ r # Main
  BY MainApart
<1>2. /\ pc' = [pc EXCEPT ![s] = "lock"] /\ pc[s] = "idle" /\ s = Control
      /\ job' = [job EXCEPT ![s].ev = e] /\ reqs # <<>> /\ reqs' = Tail(reqs)
      /\ UNCHANGED <<log, queue, lk, cycle, le, cseq, nmsgs, replies, status, failed>>
  BY DEF ReceiveRequest, Goto
<1>1. /\ 1 \in 1..Len(reqs) /\ Head(reqs) = reqs[1] /\ reqs[1] \in Nat \ {0}
      /\ \A x \in 1..Len(reqs') : x + 1 \in 1..Len(reqs) /\ reqs'[x] = reqs[x + 1] /\ 1 < x + 1
      /\ \A x, y \in 1..Len(reqs') : x < y => x + 1 < y + 1
  <2>1. reqs \in Seq(Nat \ {0}) /\ reqs # <<>> /\ reqs' = Tail(reqs)
    BY <1>t, <1>2
  <2> QED  BY SMT, <2>1
<1>e. e \in Event /\ e.kind = "barrier" /\ e.id = reqs[1]
  BY <1>1 DEF Barrier, Event
<1> HIDE DEF e
<1>3. /\ pc'[s] = "lock" /\ \A r \in Threads : r # s => pc'[r] = pc[r]
      /\ pc'[Main] = pc[Main]
  BY <1>t, <1>m, <1>2, MainApart DEF ThreadTypes
<1>4. /\ job'[s].ev = e
      /\ \A r \in Threads : job'[r].reply = job[r].reply /\ (r # s => job'[r].ev = job[r].ev)
  BY ZenonT(40), <1>t, <1>m, <1>e, <1>2, EvType
<1>5. /\ HandInv' /\ PendingInv' /\ NamesInv' /\ LogOrder' /\ BarrierEndsFile'
      /\ CompletionTrue' /\ Latest' = Latest
  BY <1>2, <1>3, <1>4, ReceiveKeeps
<1>6. RequestsInv'
  BY <1>t, <1>1, <1>2, <1>5 DEF RequestsInv
<1>7. AcceptedInv'
  BY <1>t, <1>2, <1>5, KeepAccepted DEF queue
<1>8. JobsInv'
  <2>1. InTurn(s)'
    BY <1>t, <1>1, <1>2, <1>4, <1>5, <1>e DEF InTurn, RequestsInv
  <2>2. \A r \in Shards : r # s => (Received(r)' <=> Received(r)) /\ job'[r].ev = job[r].ev
    BY <1>m, <1>3, <1>4 DEF Received
  <2>3. ASSUME NEW r \in Shards, Received(r)', r # s
        PROVE  /\ job'[r].ev \in Event
               /\ job'[r].ev.kind = "msg" => NewMsg(r)'
               /\ job'[r].ev.kind # "barrier"
    <3>1. /\ job'[r].ev = job[r].ev /\ Received(r) /\ job[r].ev \in Event
          /\ job[r].ev.kind # "barrier"
      BY <1>t, <1>2, <2>2, <2>3 DEF JobsInv, InTurn
    <3>2. job[r].ev # e
      BY <1>e, <3>1
    <3>3. NewMsg(r) => NewMsg(r)'
      BY <1>2, <1>4, <2>2, <3>1, <3>2 DEF NewMsg, queue
    <3> QED  BY <1>t, <3>1, <3>3 DEF JobsInv
  <2> QED  BY <1>4, <1>e, <2>1, <2>3 DEF JobsInv
<1> QED  BY <1>5, <1>6, <1>7, <1>8 DEF LoggerInv

\* Kept and Before of the next state, for terms of either state.
KeptNext(f) == f \notin failed' /\ \E a \in 1 .. Len(accepted') : accepted'[a] = f

BeforeNext(f, g) ==
  \E a, b \in 1 .. Len(accepted') : a < b /\ accepted'[a] = f /\ accepted'[b] = g

\* FilesInOrder of the next state.
LEMMA FilesNext ==
  ASSUME \A i \in 1 .. Len(files') : \A k \in 1 .. Len(files'[i]) :
           /\ KeptNext(files'[i][k])
           /\ \A l \in 1 .. Len(files'[i]) :
                k < l => BeforeNext(files'[i][k], files'[i][l])
           /\ \A j \in 1 .. Len(files') : i < j =>
                \A l \in 1 .. Len(files'[j]) : BeforeNext(files'[i][k], files'[j][l])
           /\ \A x \in 1 .. Len(Waiting') : BeforeNext(files'[i][k], Waiting'[x])
  PROVE  FilesInOrder'
BY DEF FilesInOrder, Kept, Before, KeptNext, BeforeNext

\* WaitingInOrder of the next state.
LEMMA WaitingNext ==
  ASSUME \A x \in 1 .. Len(Waiting') :
           /\ KeptNext(Waiting'[x])
           /\ \A y \in 1 .. Len(Waiting') : x < y => BeforeNext(Waiting'[x], Waiting'[y])
  PROVE  WaitingInOrder'
BY DEF WaitingInOrder, Kept, Before, KeptNext, BeforeNext

\* NoneLost of the next state.
LEMMA NoneLostNext ==
  ASSUME \A a \in 1 .. Len(accepted') :
           \/ accepted'[a] \in failed'
           \/ \E x \in 1 .. Len(Waiting') : Waiting'[x] = accepted'[a]
           \/ \E i \in 1 .. Len(files') : \E k \in 1 .. Len(files'[i]) :
                files'[i][k] = accepted'[a]
  PROVE  NoneLost'
BY DEF NoneLost

\* A new event at the end of the queue is in order.
LEMMA PushOrder ==
  ASSUME LoggerInv, NEW e \in Event, push(e), UNCHANGED <<files, failed, le>>,
         pc'[Main] = pc[Main], \A a \in 1..Len(accepted) : accepted[a] # e
  PROVE  LogOrder'
<1> DEFINE m == Len(accepted)  w == Len(Waiting)
<1>1. /\ accepted' = Append(accepted, e) /\ q' = Append(q, e)
      /\ accepted \in Seq(Event) /\ q \in Seq(Event)
  BY DEF push, LoggerInv, TypeOK, QueueTypes
<1>2. /\ m \in Nat /\ Len(accepted') = m + 1 /\ accepted'[m + 1] = e
      /\ \A a \in 1..m : a \in 1..m + 1 /\ accepted'[a] = accepted[a] /\ a < m + 1
      /\ \A a \in 1..m + 1 : a \in 1..m \/ a = m + 1
      /\ m + 1 \in 1..m + 1
  <2>1. accepted \in Seq(Event) /\ accepted' = Append(accepted, e)
    BY <1>1
  <2> QED  BY SMT, <2>1
<1>3. /\ w \in Nat /\ Len(Waiting') = w + 1 /\ Waiting'[w + 1] = e
      /\ \A x \in 1..w : x \in 1..w + 1 /\ Waiting'[x] = Waiting[x]
      /\ \A x \in 1..w + 1 : x \in 1..w \/ x = w + 1
      /\ \A x \in 1..w + 1 : x > w => x = w + 1
      /\ w + 1 \in 1..w + 1
      /\ \A x \in 1..w + 1 : ~(w + 1 < x)
  <2>1. Hand \in Seq(Event) /\ Hand' = Hand
    <3>1. pc[Main] \in {"msg", "barrier"} => le \in Event
      <4>1. NoEvent.kind = "none"
        BY DEF NoEvent
      <4>2. le = NoEvent => le.kind = "none"
        BY <4>1
      <4>3. le \in Event \cup {NoEvent} /\ HandInv
        BY DEF LoggerInv, TypeOK, ThreadTypes
      <4> QED  BY <4>2, <4>3 DEF HandInv
    <3>2. <<>> \in Seq(Event) /\ (le \in Event => <<le>> \in Seq(Event))
      BY SMT
    <3> QED  BY <3>1, <3>2 DEF Hand
  <2>2. Waiting \in Seq(Event) /\ Waiting' = Append(Waiting, e)
    BY SMTT(30), <1>1, <2>1 DEF Waiting
  <2> QED  BY SMT, <2>2
<1>4. /\ AcceptedOnce /\ FilesInOrder /\ WaitingInOrder /\ NoneLost /\ AcceptedInv
      /\ e \notin failed
  BY DEF LoggerInv, LogOrder, AcceptedInv
<1> HIDE DEF m, w
<1>5. AcceptedOnce'
  BY <1>2, <1>4 DEF AcceptedOnce, m
<1>6. \A f, g : Before(f, g) => BeforeNext(f, g)
  BY <1>2 DEF Before, BeforeNext, m
<1>7. \A f : Kept(f) => KeptNext(f) /\ BeforeNext(f, e)
  BY <1>2 DEF Kept, KeptNext, BeforeNext, m
<1>8. KeptNext(e)
  BY <1>2, <1>4 DEF KeptNext
<1>9. FilesInOrder'
  <2>1. ASSUME NEW i \in 1..Len(files), NEW k \in 1..Len(files[i])
        PROVE  /\ KeptNext(files[i][k])
               /\ \A l \in 1 .. Len(files[i]) : k < l => BeforeNext(files[i][k], files[i][l])
               /\ \A j \in 1 .. Len(files) : i < j =>
                    \A l \in 1 .. Len(files[j]) : BeforeNext(files[i][k], files[j][l])
               /\ \A x \in 1 .. w + 1 : BeforeNext(files[i][k], Waiting'[x])
    <3>1. /\ Kept(files[i][k])
          /\ \A l \in 1 .. Len(files[i]) : k < l => Before(files[i][k], files[i][l])
          /\ \A j \in 1 .. Len(files) : i < j =>
               \A l \in 1 .. Len(files[j]) : Before(files[i][k], files[j][l])
          /\ \A x \in 1 .. w : Before(files[i][k], Waiting[x])
      BY <1>4 DEF FilesInOrder, w
    <3>2. \A x \in 1 .. w + 1 : BeforeNext(files[i][k], Waiting'[x])
      BY <1>3, <1>6, <1>7, <3>1
    <3> QED  BY <1>6, <1>7, <3>1, <3>2
  <2>2. files' = files /\ Len(Waiting') = w + 1
    BY <1>3
  <2> QED  BY <2>1, <2>2, FilesNext
<1>10. WaitingInOrder'
  <2>1. ASSUME NEW x \in 1..w + 1
        PROVE  /\ KeptNext(Waiting'[x])
               /\ \A y \in 1 .. w + 1 : x < y => BeforeNext(Waiting'[x], Waiting'[y])
    <3>1. CASE x \in 1..w
      <4>1. Kept(Waiting[x]) /\ \A y \in 1 .. w : x < y => Before(Waiting[x], Waiting[y])
        BY <1>4, <3>1 DEF WaitingInOrder, w
      <4> QED  BY <1>3, <1>6, <1>7, <3>1, <4>1
    <3>2. CASE x = w + 1
      BY <1>3, <1>8, <3>2
    <3> QED  BY <1>3, <3>1, <3>2
  <2> QED  BY <1>3, <2>1, WaitingNext
<1>11. NoneLost'
  <2>1. ASSUME NEW a \in 1..m
        PROVE  \/ accepted'[a] \in failed'
               \/ \E x \in 1 .. w + 1 : Waiting'[x] = accepted'[a]
               \/ \E i \in 1 .. Len(files) : \E k \in 1 .. Len(files[i]) :
                    files[i][k] = accepted'[a]
    <3>1. \/ accepted[a] \in failed
          \/ \E x \in 1 .. w : Waiting[x] = accepted[a]
          \/ \E i \in 1 .. Len(files) : \E k \in 1 .. Len(files[i]) :
               files[i][k] = accepted[a]
      BY <1>4 DEF NoneLost, m, w
    <3>2. accepted'[a] = accepted[a] /\ failed' = failed
      BY <1>2
    <3> QED  BY <1>3, <3>1, <3>2
  <2>2. \E x \in 1 .. w + 1 : Waiting'[x] = accepted'[m + 1]
    BY <1>2, <1>3
  <2> QED  BY ZenonT(40), <1>2, <1>3, <2>1, <2>2 DEF NoneLost
<1> QED  BY <1>5, <1>9, <1>10, <1>11 DEF LogOrder

\* What queueing an event leaves alone.
LEMMA PushKeeps ==
  ASSUME LoggerInv, UNCHANGED <<log, completed, le, job, replies, status, failed>>,
         pc'[Main] = pc[Main]
  PROVE  HandInv' /\ NamesInv' /\ BarrierEndsFile' /\ CompletionTrue'
<1> USE DEF log
<1> QED  BY KeepHand, KeepNames, KeepEnds, KeepCompletion DEF LoggerInv

\* A message is queued.
LEMMA HandlerStep ==
  ASSUME LoggerInv, TypeOK', NEW s \in Shards, handler(s)
  PROVE  LoggerInv'
<1> DEFINE e == job[s].ev
<1>t. /\ ThreadTypes /\ nmsgs \in Nat /\ accepted \in Seq(Event) /\ q \in Seq(Event)
      /\ PendingInv /\ RequestsInv /\ JobsInv /\ AcceptedInv
  BY DEF LoggerInv, TypeOK, SignalTypes, QueueTypes
<1>m. s \in Threads /\ s # Main /\ \A r \in Shards : r \in Threads /\ r # Main
  BY MainApart
<1>1. /\ pc' = [pc EXCEPT ![s] = "notify"] /\ pc[s] = "locked" /\ e.kind = "msg"
      /\ push(e)
      /\ UNCHANGED <<log, cycle, le, job, reqs, cseq, nmsgs, replies, status, failed>>
  BY DEF handler, Goto, controller
<1>2. e \in Event /\ NewMsg(s)
  BY <1>t, <1>1 DEF JobsInv, Received
<1>3. /\ pc'[s] = "notify" /\ \A r \in Threads : r # s => pc'[r] = pc[r]
      /\ pc'[Main] = pc[Main]
  BY <1>t, <1>m, <1>1, MainApart DEF ThreadTypes
<1>4. LogOrder'
  BY <1>1, <1>2, <1>3, PushOrder DEF NewMsg, log
<1>5. HandInv' /\ NamesInv' /\ BarrierEndsFile' /\ CompletionTrue'
  BY <1>1, <1>3, PushKeeps DEF cycle
<1>6. Latest' = Latest
  BY <1>1 DEF Latest, cycle
<1>7. RequestsInv'
  BY <1>t, <1>1, <1>6, KeepRequests
<1>8. /\ q' = Append(q, e) /\ accepted' = Append(accepted, e)
  BY <1>1 DEF push
<1>9. /\ Len(accepted') = Len(accepted) + 1 /\ accepted'[Len(accepted) + 1] = e
      /\ \A a \in 1..Len(accepted) : a \in 1..Len(accepted') /\ accepted'[a] = accepted[a]
      /\ \A a \in 1..Len(accepted') : a \in 1..Len(accepted) \/ accepted'[a] = e
      /\ \A x \in 1..Len(q') : (x \in 1..Len(q) /\ q'[x] = q[x]) \/ q'[x] = e
  <2>1. /\ accepted \in Seq(Event) /\ q \in Seq(Event) /\ e \in Event
        /\ q' = Append(q, e) /\ accepted' = Append(accepted, e)
    BY <1>t, <1>2, <1>8
  <2> HIDE DEF e
  <2> QED  BY SMT, <2>1
<1> HIDE DEF e
<1>11. PendingInv'
  <2>1. \A x \in 1..Len(q') : q'[x].kind = "barrier" => x \in 1..Len(q) /\ q'[x] = q[x]
    BY <1>1, <1>9
  <2> QED  BY ZenonT(40), <1>t, <1>1, <1>3, <2>1 DEF PendingInv, cycle
<1>12. AcceptedInv'
  <2>1. e.id <= nmsgs
    BY <1>2 DEF NewMsg, e
  <2> QED  BY ZenonT(40), <1>t, <1>1, <1>6, <1>9, <2>1 DEF AcceptedInv
<1>13. JobsInv'
  <2> SUFFICES ASSUME NEW r \in Shards, Received(r)'
               PROVE  /\ job'[r].ev \in Event
                      /\ job'[r].ev.kind = "msg" => NewMsg(r)'
                      /\ job'[r].ev.kind = "barrier" => InTurn(r)'
    BY DEF JobsInv
  <2>1. r # s /\ Received(r)
    BY <1>m, <1>3 DEF Received
  <2>2. job[r].ev # e
    BY <1>1, <1>2, <2>1 DEF NewMsg, e
  <2>3. \A k \in Shards : Received(k)' => Received(k)
    BY <1>m, <1>3 DEF Received
  <2>4. NewMsg(r) => NewMsg(r)'
    BY <1>1, <1>9, <2>2, <2>3 DEF NewMsg
  <2>5. InTurn(r) => InTurn(r)'
    BY <1>1, <1>6 DEF InTurn
  <2> QED  BY <1>t, <1>1, <2>1, <2>4, <2>5 DEF JobsInv
<1> QED  BY <1>4, <1>5, <1>7, <1>11, <1>12, <1>13 DEF LoggerInv

\* The number of the last cycle is a number.
LEMMA LatestType == ASSUME TypeOK PROVE Latest \in Nat
<1>1. pending \in Nat /\ completed.seq \in Nat
  BY DEF TypeOK, CycleTypes, Frame
<1> QED  BY <1>1 DEF Latest

\* A request is refused, or answered again, or its cycle is queued.
LEMMA CycleRequestStep ==
  ASSUME LoggerInv, TypeOK', NEW s \in Shards, handleCycleRequest(s)
  PROVE  LoggerInv'
<1> DEFINE e == job[s].ev
           n == e.id
           busy == [kind |-> "busy", seq |-> n, old |-> 0, new |-> 0]
<1>t. /\ ThreadTypes /\ cseq \in Nat /\ accepted \in Seq(Event) /\ q \in Seq(Event)
      /\ Latest \in Nat /\ PendingInv /\ RequestsInv /\ JobsInv /\ AcceptedInv
      /\ completed \in Frame /\ pending \in Nat
  BY LatestType DEF LoggerInv, TypeOK, CycleTypes, QueueTypes
<1>m. s \in Threads /\ s # Main /\ \A r \in Shards : r \in Threads /\ r # Main
  BY MainApart
<1>1. /\ e.kind = "barrier" /\ pc[s] = "locked" /\ status = "running"
      /\ UNCHANGED <<log, completed, le, reqs, cseq, nmsgs, replies, status, failed>>
  BY DEF handleCycleRequest, Goto, Running, controller
<1>2. e \in Event /\ InTurn(s) /\ n \in Nat \ {0}
  BY <1>t, <1>1 DEF JobsInv, Received, Event
<1>3. ASSUME pc' = [pc EXCEPT ![s] = "idle"], UNCHANGED <<queue, pending, job>>
      PROVE  LoggerInv'
  <2>1. pc'[Main] = pc[Main] /\ \A r \in Shards : Received(r)' => Received(r)
    BY <1>t, <1>m, <1>3, MainApart DEF ThreadTypes, Received
  <2> QED  BY <1>1, <1>3, <2>1, QuietStep DEF Quiet, log, queue
<1>4. ASSUME pc' = [pc EXCEPT ![s] = "reply"], UNCHANGED <<queue, pending>>,
             NEW f \in Frame, job' = [job EXCEPT ![s].reply = f],
             f = completed \/ f.kind # "complete"
      PROVE  LoggerInv'
  <2>1. pc'[Main] = pc[Main] /\ \A r \in Shards : Received(r)' => Received(r)
    BY <1>t, <1>m, <1>4, MainApart DEF ThreadTypes, Received
  <2>2. /\ job'[s].reply = f
        /\ \A r \in Threads : job'[r].ev = job[r].ev /\ (r # s => job'[r].reply = job[r].reply)
    BY <1>t, <1>m, <1>4, ReplyType
  <2>3. /\ job'[Main].reply = job[Main].reply
        /\ \A t \in Threads : /\ job'[t].ev = job[t].ev
                              /\ \/ job'[t].reply \in {job[t].reply, completed}
                                 \/ job'[t].reply.kind # "complete"
    BY <1>m, <1>4, <2>2, MainApart
  <2> QED  BY <1>1, <1>4, <2>1, <2>3, QuietStep DEF Quiet, log, queue
<1>5. ASSUME pc' = [pc EXCEPT ![s] = "notify"], push(e), pending' = n, UNCHANGED job,
             pending = NoCycle, completed.seq # n
      PROVE  LoggerInv'
  <2>1. /\ pc'[s] = "notify" /\ \A r \in Threads : r # s => pc'[r] = pc[r]
        /\ pc'[Main] = pc[Main]
    BY <1>t, <1>m, <1>5, MainApart DEF ThreadTypes
  <2>2. Latest' = n /\ Latest < n
    <3>1. Latest = completed.seq /\ Latest' = n /\ Latest <= n
      BY <1>2, <1>5 DEF Latest, NoCycle, InTurn
    <3> HIDE DEF n
    <3> QED  BY SMT, <1>t, <1>2, <1>5, <3>1
  <2>3. /\ q' = Append(q, e) /\ accepted' = Append(accepted, e)
    BY <1>5 DEF push
  <2>4. /\ accepted'[Len(accepted) + 1] = e
        /\ \A a \in 1..Len(accepted) : /\ a \in 1..Len(accepted')
                                       /\ accepted'[a] = accepted[a]
                                       /\ accepted[a] \in Event
        /\ \A a \in 1..Len(accepted') : a \in 1..Len(accepted) \/ accepted'[a] = e
        /\ \A x \in 1..Len(q') : \/ x \in 1..Len(q) /\ q'[x] = q[x] /\ q[x] \in Event
                                 \/ x = Len(q) + 1 /\ q'[x] = e
    <3>1. /\ accepted \in Seq(Event) /\ q \in Seq(Event) /\ e \in Event
          /\ q' = Append(q, e) /\ accepted' = Append(accepted, e)
      BY <1>t, <1>2, <2>3
    <3> HIDE DEF e
    <3> QED  BY SMT, <3>1
  <2>5. \A a \in 1..Len(accepted) : accepted[a].kind = "barrier" => accepted[a].id < n
    <3>1. \A i \in Nat : i <= Latest => i < n
      <4> HIDE DEF n
      <4> QED  BY SMT, <1>t, <1>2, <2>2
    <3>2. \A f \in Event : f.id \in Nat
      BY DEF Event
    <3> QED  BY <1>t, <2>4, <3>1, <3>2 DEF AcceptedInv
  <2>n. ~(n < n)
    <3> HIDE DEF n
    <3> QED  BY SMT, <1>2
  <2>6. \A a \in 1..Len(accepted) : accepted[a] # e
    BY <1>1, <2>5, <2>n
  <2>7. LogOrder'
    BY <1>1, <1>2, <1>5, <2>1, <2>6, PushOrder DEF log
  <2>8. HandInv' /\ NamesInv' /\ BarrierEndsFile' /\ CompletionTrue'
    BY <1>1, <1>5, <2>1, PushKeeps
  <2>9. RequestsInv'
    BY <1>1, <1>2, <1>t, <2>2 DEF RequestsInv, InTurn
  <2>10. PendingInv'
    <3>1. \A x \in 1..Len(q) : q[x].kind # "barrier"
      <4>1. \A f \in Event : f.id # 0
        BY DEF Event
      <4>2. \A x \in 1..Len(q) : q[x] \in Event
        BY SMT, <1>t
      <4> QED  BY <1>t, <1>5, <4>1, <4>2 DEF PendingInv, NoCycle
    <3>2. pc[Main] \notin Cycling
      BY <1>t, <1>5 DEF PendingInv
    <3>3. \A x \in 1..Len(q') : q'[x].kind = "barrier" => x = Len(q) + 1 /\ q'[x] = e
      BY <2>4, <3>1
    <3> QED  BY <1>5, <2>1, <3>2, <3>3 DEF PendingInv, Cycling
  <2>11. AcceptedInv'
    <3>1. \A a \in 1..Len(accepted) : accepted[a].kind = "barrier" => accepted[a].id <= n
      <4>1. \A f \in Event : f.id \in Nat
        BY DEF Event
      <4>2. \A i \in Nat : i < n => i <= n
        <5> HIDE DEF n
        <5> QED  BY SMT, <1>2
      <4> QED  BY <2>4, <2>5, <4>1, <4>2
    <3>2. n <= n
      <4> HIDE DEF n
      <4> QED  BY SMT, <1>2
    <3>3. \A a \in 1..Len(accepted) : accepted[a].kind # "barrier" => accepted[a].id <= nmsgs
      BY <1>t DEF AcceptedInv
    <3> QED  BY ZenonT(40), <1>t, <1>1, <2>2, <2>4, <3>1, <3>2, <3>3 DEF AcceptedInv
  <2>12. JobsInv'
    <3> SUFFICES ASSUME NEW r \in Shards, Received(r)'
                 PROVE  /\ job'[r].ev \in Event
                        /\ job'[r].ev.kind = "msg" => NewMsg(r)'
                        /\ job'[r].ev.kind # "barrier"
      BY DEF JobsInv
    <3>1. r # s /\ Received(r) /\ \A k \in Shards : Received(k)' => Received(k)
      BY <1>m, <2>1 DEF Received
    <3>2. job[r].ev.kind # "barrier" /\ job[r].ev # e
      BY <1>1, <1>2, <1>t, <3>1 DEF JobsInv, InTurn
    <3>3. NewMsg(r) => NewMsg(r)'
      BY <1>1, <1>5, <2>4, <3>1, <3>2 DEF NewMsg
    <3> QED  BY <1>t, <1>5, <3>1, <3>2, <3>3 DEF JobsInv
  <2> QED  BY <2>7, <2>8, <2>9, <2>10, <2>11, <2>12 DEF LoggerInv
<1>6. busy \in Frame /\ busy.kind # "complete"
  <2>1. 0 \in Names
    BY SMT, LoggerAssumption DEF Names, LoggerAssumption
  <2> QED  BY <1>2, <2>1 DEF Frame
<1>7. \/ pc' = [pc EXCEPT ![s] = "idle"] /\ UNCHANGED <<queue, pending, job>>
      \/ /\ pc' = [pc EXCEPT ![s] = "reply"] /\ UNCHANGED <<queue, pending>>
         /\ \E f \in {busy, completed} : job' = [job EXCEPT ![s].reply = f]
      \/ /\ pc' = [pc EXCEPT ![s] = "notify"] /\ push(e) /\ pending' = n
         /\ UNCHANGED job /\ pending = NoCycle /\ completed.seq # n
  BY DEF handleCycleRequest, Goto
<1> HIDE DEF e, n, busy
<1> QED  BY <1>t, <1>3, <1>4, <1>5, <1>6, <1>7

-----------------------------------------------------------------------------
(* The controller and the main thread *)

\* The controller asks for its cycle again, or for the next one.
LEMMA RequestStep ==
  ASSUME LoggerInv, TypeOK', Request
  PROVE  LoggerInv'
<1>t. /\ cseq \in Nat /\ reqs \in Seq(Nat \ {0}) /\ Latest \in Nat
      /\ RequestsInv /\ JobsInv /\ AcceptedInv
  BY LatestType DEF LoggerInv, TypeOK, CycleTypes
<1>1. /\ cseq' \in {cseq, cseq + 1} \ {0} /\ reqs' = Append(reqs, cseq')
      /\ UNCHANGED <<log, queue, lk, cycle, le, pc, job, nmsgs, replies, status, failed>>
  BY DEF Request
<1>2. /\ HandInv' /\ PendingInv' /\ NamesInv' /\ LogOrder' /\ BarrierEndsFile'
      /\ CompletionTrue' /\ Latest' = Latest
  BY <1>1, ReceiveKeeps
<1>3. AcceptedInv'
  BY <1>t, <1>1, <1>2, KeepAccepted DEF queue
<1>4. /\ \A i \in Nat : i <= cseq => i <= cseq'
      /\ cseq' \in Nat \ {0} /\ cseq' <= cseq' /\ cseq <= cseq
  BY SMT, <1>t, <1>1
<1>5. /\ \A x \in 1..Len(reqs') : \/ x \in 1..Len(reqs) /\ reqs'[x] = reqs[x] /\ reqs[x] \in Nat
                                  \/ x = Len(reqs) + 1 /\ reqs'[x] = cseq'
      /\ \A x \in 1..Len(reqs') : ~(Len(reqs) + 1 < x)
  <2>1. reqs \in Seq(Nat \ {0}) /\ cseq' \in Nat \ {0} /\ reqs' = Append(reqs, cseq')
    BY <1>t, <1>1, <1>4
  <2> QED  BY SMT, <2>1
<1>6. RequestsInv'
  <2>1. Latest' <= cseq'
    BY <1>t, <1>2, <1>4 DEF RequestsInv
  <2>2. \A x \in 1..Len(reqs') : Latest' <= reqs'[x] /\ reqs'[x] <= cseq'
    BY <1>t, <1>2, <1>4, <1>5, <2>1 DEF RequestsInv
  <2>3. \A x, y \in 1..Len(reqs') : x < y => reqs'[x] <= reqs'[y]
    <3> SUFFICES ASSUME NEW x \in 1..Len(reqs'), NEW y \in 1..Len(reqs'), x < y
                 PROVE  reqs'[x] <= reqs'[y]
      OBVIOUS
    <3>1. x \in 1..Len(reqs) /\ reqs'[x] = reqs[x]
      BY <1>5
    <3> QED  BY <1>t, <1>5, <2>2, <3>1 DEF RequestsInv
  <2> QED  BY <2>1, <2>2, <2>3 DEF RequestsInv
<1>7. JobsInv'
  <2> SUFFICES ASSUME NEW r \in Shards, Received(r)
               PROVE  /\ job[r].ev \in Event
                      /\ job[r].ev.kind = "msg" => NewMsg(r)'
                      /\ job[r].ev.kind = "barrier" => InTurn(r)'
    BY <1>1 DEF JobsInv, Received
  <2>1. job[r].ev \in Event /\ job[r].ev.id \in Nat
    BY <1>t DEF JobsInv, Event
  <2>2. NewMsg(r) => NewMsg(r)'
    BY <1>1 DEF NewMsg, Received, queue
  <2>3. InTurn(r) => InTurn(r)'
    BY <1>1, <1>2, <1>4, <1>5, <2>1 DEF InTurn
  <2> QED  BY <1>t, <2>1, <2>2, <2>3 DEF JobsInv
<1> QED  BY <1>2, <1>3, <1>6, <1>7 DEF LoggerInv

\* The main thread takes an event from the queue.
LEMMA TakeStep ==
  ASSUME LoggerInv, TypeOK', flushWhenReady, ~UNCHANGED <<q, le>>
  PROVE  LoggerInv'
<1>t. /\ ThreadTypes /\ q \in Seq(Event) /\ PendingInv /\ RequestsInv /\ JobsInv
      /\ AcceptedInv
  BY DEF LoggerInv, TypeOK, QueueTypes
<1>m. Main \in Threads /\ \A s \in Shards : s \in Threads /\ s # Main
  BY MainApart
<1>1. /\ q # <<>> /\ pc[Main] = "locked" /\ pc' = [pc EXCEPT ![Main] = Head(q).kind]
      /\ le' = Head(q) /\ q' = Tail(q)
      /\ UNCHANGED <<log, accepted, cycle, job, reqs, cseq, nmsgs, replies, status, failed>>
  BY DEF flushWhenReady, Goto, controller
<1>2. /\ Head(q) = q[1] /\ q[1] \in Event /\ 1 \in 1..Len(q)
      /\ \A x \in 1..Len(q') : x + 1 \in 1..Len(q) /\ q'[x] = q[x + 1] /\ x + 1 # 1
      /\ \A x, y \in 1..Len(q') : x + 1 = y + 1 => x = y
      /\ <<Head(q)>> \o Tail(q) = q /\ <<>> \o q = q
  <2>1. q \in Seq(Event) /\ q # <<>> /\ q' = Tail(q)
    BY <1>t, <1>1
  <2> QED  BY SMT, <2>1
<1>3. /\ pc'[Main] = le'.kind /\ le'.kind \in {"msg", "barrier"} /\ le'.id # 0
      /\ \A s \in Shards : pc'[s] = pc[s]
  BY <1>t, <1>m, <1>1, <1>2 DEF ThreadTypes, Event
<1>4. Waiting' = Waiting
  <2>1. Hand' = <<Head(q)>>
    BY <1>1, <1>3 DEF Hand
  <2>2. Hand = <<>>
    BY <1>1 DEF Hand
  <2> QED  BY <1>1, <1>2, <2>1, <2>2 DEF Waiting
<1>5. LogOrder' /\ NamesInv' /\ BarrierEndsFile' /\ CompletionTrue'
  BY <1>1, <1>4, KeepOrder, KeepNames, KeepEnds, KeepCompletion DEF LoggerInv, log, cycle
<1>6. HandInv'
  BY <1>3 DEF HandInv
<1>7. Latest' = Latest
  BY <1>1 DEF Latest, cycle
<1>8. RequestsInv' /\ JobsInv' /\ AcceptedInv'
  BY <1>t, <1>1, <1>3, <1>7, KeepRequests, KeepJobs, KeepAccepted DEF Received
<1>9. PendingInv'
  <2>a. \A x, y \in 1..Len(q) : q[x].kind = "barrier" /\ q[y].kind = "barrier" => x = y
    BY <1>t DEF PendingInv
  <2>b. \A x \in 1..Len(q') : /\ x + 1 \in 1..Len(q) /\ x + 1 # 1
                              /\ q'[x].kind = q[x + 1].kind /\ q'[x].id = q[x + 1].id
    BY <1>2
  <2>1. \A x \in 1..Len(q') : q'[x].kind = "barrier" =>
           q'[x].id = pending /\ q[1].kind # "barrier"
    BY <1>t, <1>2, <2>a, <2>b DEF PendingInv
  <2>2. \A x, y \in 1..Len(q') : q'[x].kind = "barrier" /\ q'[y].kind = "barrier" => x = y
    <3> SUFFICES ASSUME NEW x \in 1..Len(q'), NEW y \in 1..Len(q'),
                        q'[x].kind = "barrier", q'[y].kind = "barrier"
                 PROVE  x = y
      OBVIOUS
    <3>1. x + 1 = y + 1
      BY ZenonT(40), <2>a, <2>b
    <3> QED  BY <1>2, <3>1
  <2>3. le'.kind = "barrier" => le'.id = pending
    BY <1>t, <1>1, <1>2 DEF PendingInv
  <2>4. pending' = pending /\ le' = q[1]
    BY <1>1, <1>2 DEF cycle
  <2> QED  BY <1>3, <2>1, <2>2, <2>3, <2>4 DEF PendingInv, Cycling, NoCycle
<1> QED  BY <1>5, <1>6, <1>8, <1>9 DEF LoggerInv

\* The cycle is done, and the next one can be asked for.
LEMMA CycleDoneStep ==
  ASSUME LoggerInv, TypeOK', CycleDone
  PROVE  LoggerInv'
<1>t. ThreadTypes /\ PendingInv /\ RequestsInv /\ JobsInv /\ AcceptedInv /\ NamesInv
  BY DEF LoggerInv, TypeOK
<1>m. Main \in Threads /\ \A s \in Shards : s \in Threads /\ s # Main
  BY MainApart
<1>1. /\ pc[Main] = "cycle locked" /\ pc' = [pc EXCEPT ![Main] = "complete"]
      /\ pending' = NoCycle /\ completed' = job[Main].reply
      /\ UNCHANGED <<log, queue, le, job, reqs, cseq, nmsgs, replies, status, failed>>
  BY DEF CycleDone, Goto, controller
<1>2. pc'[Main] = "complete" /\ \A s \in Shards : pc'[s] = pc[s]
  BY <1>t, <1>m, <1>1 DEF ThreadTypes
<1>3. pc[Main] \in Cycling /\ pending # NoCycle /\ job[Main].reply.seq = pending
  BY <1>t, <1>1 DEF PendingInv, Cycling
<1>4. Latest' = Latest
  BY <1>1, <1>3 DEF Latest
<1>5. RequestsInv' /\ JobsInv' /\ AcceptedInv'
  BY <1>t, <1>1, <1>2, <1>4, KeepRequests, KeepJobs, KeepAccepted DEF Received, queue
<1>6. PendingInv'
  BY <1>t, <1>1, <1>2, <1>3 DEF PendingInv, Cycling, queue
<1>7. HandInv' /\ BarrierEndsFile' /\ CompletionTrue'
  BY <1>1, <1>2, KeepHand, KeepEnds, KeepCompletion DEF LoggerInv, log
<1>8. LogOrder'
  <2>1. Waiting' = Waiting
    BY <1>1, <1>2 DEF Waiting, Hand, queue
  <2> QED  BY <1>1, <2>1, KeepOrder DEF LoggerInv, log, queue
<1>9. NamesInv'
  BY <1>t, <1>m, <1>1 DEF NamesInv, Told, Ends, Barrier, log
<1> QED  BY <1>5, <1>6, <1>7, <1>8, <1>9 DEF LoggerInv

-----------------------------------------------------------------------------
(* Another file *)

\* Told of the next state, for frames of either state.
ToldNext(r) ==
  r.kind = "complete" =>
    /\ names'[r.old] # 0 /\ files'[names'[r.old]] # <<>>
    /\ files'[names'[r.old]][Len(files'[names'[r.old]])] = Barrier(r.seq)
    /\ names'[r.new] = names'[r.old] + 1

\* NamesInv of the next state.
LEMMA NamesNext ==
  ASSUME mode' = "increment" =>
           /\ names'[filename'] = Len(files')
           /\ \A n \in Names : n >= next_increment_num' => names'[n] = 0
           /\ ToldNext(completed')
           /\ \A t \in Threads : ToldNext(job'[t].reply)
  PROVE  NamesInv'
BY DEF NamesInv, Told, Ends, ToldNext, Barrier

\* CompletionTrue of the next state.
LEMMA CompletionNext ==
  ASSUME mode' = "increment" => \A r \in replies' : ToldNext(r)
  PROVE  CompletionTrue'
BY DEF CompletionTrue, Told, Ends, ToldNext, Barrier

\* A file is opened after the others.
LEMMA OpenFiles ==
  ASSUME TypeOK, files' = Append(files, <<>>)
  PROVE  /\ Len(files) \in Nat \ {0} /\ Len(files') = Len(files) + 1
         /\ \A i \in 1..Len(files) : /\ i \in 1..Len(files') /\ files'[i] = files[i]
                                     /\ i < Len(files')
         /\ \A i \in 1..Len(files') : \A k \in 1..Len(files'[i]) :
              i \in 1..Len(files) /\ files'[i] = files[i]
<1>1. files \in Seq(Seq(Event)) /\ files # <<>> /\ <<>> \in Seq(Event)
  BY SMT DEF TypeOK, FileTypes
<1>2. /\ Len(files) \in Nat \ {0} /\ Len(files') = Len(files) + 1
      /\ \A i \in 1..Len(files) : /\ i \in 1..Len(files') /\ files'[i] = files[i]
                                  /\ i < Len(files')
      /\ \A i \in 1..Len(files') : i \in 1..Len(files) \/ files'[i] = <<>>
  BY SMT, <1>1
<1>3. 1..Len(<<>>) = {}
  BY SMT
<1> QED  BY <1>2, <1>3

\* Opening a file moves no event.
LEMMA OpenOrder ==
  ASSUME LoggerInv, files' = Append(files, <<>>), UNCHANGED <<accepted, failed>>,
         Waiting' = Waiting
  PROVE  LogOrder'
<1>t. TypeOK /\ AcceptedOnce /\ FilesInOrder /\ WaitingInOrder /\ NoneLost
  BY DEF LoggerInv, LogOrder
<1>1. /\ \A i \in 1..Len(files) : i \in 1..Len(files') /\ files'[i] = files[i]
      /\ \A i \in 1..Len(files') : \A k \in 1..Len(files'[i]) :
           i \in 1..Len(files) /\ files'[i] = files[i]
  BY <1>t, OpenFiles
<1>2. /\ \A f : Kept(f) => KeptNext(f)
      /\ \A f, g : Before(f, g) => BeforeNext(f, g)
  BY DEF Kept, KeptNext, Before, BeforeNext
<1>3. AcceptedOnce'
  BY <1>t DEF AcceptedOnce
<1>4. FilesInOrder'
  <2>1. ASSUME NEW i \in 1..Len(files'), NEW k \in 1..Len(files'[i])
        PROVE  /\ KeptNext(files'[i][k])
               /\ \A l \in 1 .. Len(files'[i]) :
                    k < l => BeforeNext(files'[i][k], files'[i][l])
               /\ \A j \in 1 .. Len(files') : i < j =>
                    \A l \in 1 .. Len(files'[j]) : BeforeNext(files'[i][k], files'[j][l])
               /\ \A x \in 1 .. Len(Waiting') : BeforeNext(files'[i][k], Waiting'[x])
    <3>1. i \in 1..Len(files) /\ files'[i] = files[i] /\ k \in 1..Len(files[i])
      BY <1>1
    <3>2. /\ Kept(files[i][k])
          /\ \A l \in 1 .. Len(files[i]) : k < l => Before(files[i][k], files[i][l])
          /\ \A j \in 1 .. Len(files) : i < j =>
               \A l \in 1 .. Len(files[j]) : Before(files[i][k], files[j][l])
          /\ \A x \in 1 .. Len(Waiting) : Before(files[i][k], Waiting[x])
      BY <1>t, <3>1 DEF FilesInOrder
    <3>3. \A j \in 1 .. Len(files') : i < j =>
            \A l \in 1 .. Len(files'[j]) : BeforeNext(files[i][k], files'[j][l])
      BY <1>1, <1>2, <3>2
    <3> QED  BY <1>2, <3>1, <3>2, <3>3
  <2> QED  BY <2>1, FilesNext
<1>5. WaitingInOrder'
  <2>1. \A x \in 1 .. Len(Waiting') :
           /\ KeptNext(Waiting'[x])
           /\ \A y \in 1 .. Len(Waiting') : x < y => BeforeNext(Waiting'[x], Waiting'[y])
    BY <1>t, <1>2 DEF WaitingInOrder
  <2> QED  BY <2>1, WaitingNext
<1>6. NoneLost'
  <2>1. ASSUME NEW a \in 1..Len(accepted')
        PROVE  \/ accepted'[a] \in failed'
               \/ \E x \in 1 .. Len(Waiting') : Waiting'[x] = accepted'[a]
               \/ \E i \in 1 .. Len(files') : \E k \in 1 .. Len(files'[i]) :
                    files'[i][k] = accepted'[a]
    <3>1. (\E i \in 1 .. Len(files) : \E k \in 1 .. Len(files[i]) : files[i][k] = accepted[a])
            => \E i \in 1 .. Len(files') : \E k \in 1 .. Len(files'[i]) :
                 files'[i][k] = accepted[a]
      BY ZenonT(40), <1>1
    <3> QED  BY <1>t, <3>1 DEF NoneLost
  <2> QED  BY <2>1, NoneLostNext
<1> QED  BY <1>3, <1>4, <1>5, <1>6 DEF LogOrder

\* The names that were reported stay with their files when another is opened.
LEMMA OpenTold ==
  ASSUME LoggerInv, OpenNext, mode = "increment", NEW r \in Frame, Told(r)
  PROVE  ToldNext(r)
<1> SUFFICES ASSUME r.kind = "complete" PROVE ToldNext(r)
  BY DEF ToldNext
<1>t. /\ TypeOK /\ NamesInv /\ names \in [Names -> 0 .. Len(files)]
      /\ r.old \in Names /\ r.new \in Names
  BY DEF LoggerInv, TypeOK, FileTypes, Frame
<1>1. /\ files' = Append(files, <<>>) /\ names[filename'] = 0 /\ filename' \in Names
      /\ names' = [names EXCEPT ![filename'] = Len(files) + 1]
  BY <1>t, OpenFacts
<1>2. /\ names[r.old] # 0 /\ files[names[r.old]] # <<>>
      /\ files[names[r.old]][Len(files[names[r.old]])] = Barrier(r.seq)
      /\ names[r.new] = names[r.old] + 1
  BY DEF Told, Ends
<1>3. names[r.old] \in 1..Len(files) /\ names[r.new] # 0
  <2>1. names[r.old] \in 0..Len(files) /\ Len(files) \in Nat \ {0}
    BY <1>t, <1>1, OpenFiles
  <2> QED  BY SMT, <1>2, <2>1
<1>4. names'[r.old] = names[r.old] /\ names'[r.new] = names[r.new]
  BY <1>t, <1>1, <1>2, <1>3
<1>5. files'[names[r.old]] = files[names[r.old]]
  BY <1>t, <1>1, <1>3, OpenFiles
<1> QED  BY <1>2, <1>4, <1>5 DEF ToldNext

\* What opening a file keeps.
LEMMA OpenKeeps ==
  ASSUME LoggerInv, OpenNext, UNCHANGED <<queue, cycle, le, reqs, cseq, nmsgs, failed>>,
         \A s \in Shards : pc'[s] = pc[s], \A s \in Shards : job'[s].ev = job[s].ev,
         Waiting' = Waiting, status' = status
  PROVE  /\ RequestsInv' /\ JobsInv' /\ AcceptedInv' /\ LogOrder' /\ BarrierEndsFile'
         /\ files' = Append(files, <<>>)
<1>1. files' = Append(files, <<>>)
  BY DEF OpenNext
<1>2. Latest' = Latest
  BY DEF Latest, cycle
<1>3. RequestsInv' /\ JobsInv' /\ AcceptedInv'
  BY <1>2, KeepRequests, KeepJobs, KeepAccepted DEF LoggerInv, Received, queue
<1>4. LogOrder'
  BY <1>1, OpenOrder DEF queue
<1>5. BarrierEndsFile'
  <2>1. /\ \A i \in 1..Len(files) : i < Len(files')
        /\ \A i \in 1..Len(files') : \A k \in 1..Len(files'[i]) :
             i \in 1..Len(files) /\ files'[i] = files[i]
    BY <1>1, OpenFiles DEF LoggerInv
  <2> QED  BY <2>1 DEF BarrierEndsFile, LoggerInv
<1> QED  BY <1>1, <1>3, <1>4, <1>5

\* The files' names, when another file is opened and the threads' frames are
\* true.
LEMMA OpenNames ==
  ASSUME LoggerInv, OpenNext, UNCHANGED <<completed, replies>>,
         mode = "increment" =>
           \A t \in Threads : job'[t].reply = job[t].reply \/ ToldNext(job'[t].reply)
  PROVE  NamesInv' /\ CompletionTrue'
<1>t. TypeOK /\ NamesInv /\ CompletionTrue
  BY DEF LoggerInv
<1>1. mode' = mode
  BY DEF OpenNext
<1>2. ASSUME mode = "increment"
      PROVE  /\ names'[filename'] = Len(files')
             /\ \A n \in Names : n >= next_increment_num' => names'[n] = 0
             /\ ToldNext(completed')
             /\ \A t \in Threads : ToldNext(job'[t].reply)
             /\ \A r \in replies' : ToldNext(r)
  <2>1. /\ files' = Append(files, <<>>) /\ filename' \in Names
        /\ names' = [names EXCEPT ![filename'] = Len(files) + 1]
        /\ filename' = next_increment_num /\ next_increment_num' = filename' + 1
    BY <1>t, <1>2, OpenFacts
  <2>2. names \in [Names -> 0 .. Len(files)] /\ Len(files') = Len(files) + 1
    BY <1>t, <2>1, OpenFiles DEF TypeOK, FileTypes
  <2>3. \A n \in Names : n >= next_increment_num' => n # filename' /\ n >= next_increment_num
    <3>1. Names \subseteq Nat
      BY SMT, LoggerAssumption DEF Names, LoggerAssumption
    <3> QED  BY SMT, <2>1, <3>1
  <2>4. \A n \in Names : n >= next_increment_num' => names'[n] = 0
    BY <1>t, <1>2, <2>1, <2>2, <2>3 DEF NamesInv
  <2>5. \A r \in Frame : Told(r) => ToldNext(r)
    BY <1>2, OpenTold
  <2>6. completed \in Frame /\ replies \subseteq Frame /\ \A t \in Threads : job[t].reply \in Frame
    BY <1>t DEF TypeOK, CycleTypes, ThreadTypes
  <2>7. /\ Told(completed) /\ \A t \in Threads : Told(job[t].reply)
        /\ \A r \in replies : Told(r)
    BY <1>t, <1>2 DEF NamesInv, CompletionTrue
  <2>8. ToldNext(completed') /\ \A r \in replies' : ToldNext(r)
    BY <2>5, <2>6, <2>7
  <2>9. \A t \in Threads : ToldNext(job'[t].reply)
    BY <1>2, <2>5, <2>6, <2>7
  <2> QED  BY <2>1, <2>2, <2>4, <2>8, <2>9
<1> QED  BY <1>1, <1>2, NamesNext, CompletionNext

\* Another file before a message is written.
LEMMA SplitStep ==
  ASSUME LoggerInv, TypeOK', Split
  PROVE  LoggerInv'
<1>1. /\ OpenNext /\ pc[Main] = "msg"
      /\ UNCHANGED <<queue, cycle, le, reqs, cseq, nmsgs, failed, pc, job, replies, status>>
  BY DEF Split, controller
<1>2. Waiting' = Waiting
  BY <1>1 DEF Waiting, Hand, queue
<1>3. RequestsInv' /\ JobsInv' /\ AcceptedInv' /\ LogOrder' /\ BarrierEndsFile'
  BY <1>1, <1>2, OpenKeeps
<1>4. NamesInv' /\ CompletionTrue'
  BY <1>1, OpenNames DEF cycle
<1>5. HandInv'
  BY <1>1 DEF LoggerInv, HandInv
<1>6. PendingInv'
  BY <1>1, KeepPending DEF LoggerInv, queue, cycle
<1> QED  BY <1>3, <1>4, <1>5, <1>6 DEF LoggerInv

\* The file that ends with the barrier is closed, and another one opened.
LEMMA CycleStep ==
  ASSUME LoggerInv, TypeOK', Cycle
  PROVE  LoggerInv'
<1> DEFINE f == [kind |-> "complete", seq |-> le.id, old |-> filename, new |-> filename']
<1>t. TypeOK /\ ThreadTypes /\ HandInv /\ PendingInv /\ NamesInv
  BY DEF LoggerInv, TypeOK
<1>m. Main \in Threads /\ \A s \in Shards : s \in Threads /\ s # Main
  BY MainApart
<1>1. /\ OpenNext /\ pc[Main] = "cycle" /\ pc' = [pc EXCEPT ![Main] = "cycled"]
      /\ job' = [job EXCEPT ![Main].reply = f]
      /\ UNCHANGED <<queue, cycle, le, reqs, cseq, nmsgs, failed, replies, status>>
  BY DEF Cycle, Goto, controller
<1>2. pc'[Main] = "cycled" /\ \A s \in Shards : pc'[s] = pc[s]
  BY <1>t, <1>m, <1>1 DEF ThreadTypes
<1>f. f.kind = "complete" /\ f.seq = le.id /\ f.old = filename /\ f.new = filename'
  OBVIOUS
<1> HIDE DEF f
<1>3. /\ job'[Main].reply = f
      /\ \A s \in Threads : s # Main => job'[s].reply = job[s].reply
      /\ \A s \in Threads : job'[s].ev = job[s].ev
  BY SMT, <1>t, <1>m, <1>1 DEF ThreadTypes
<1>4. Waiting' = Waiting
  BY <1>1, <1>2 DEF Waiting, Hand, queue
<1>5. /\ RequestsInv' /\ JobsInv' /\ AcceptedInv' /\ LogOrder' /\ BarrierEndsFile'
      /\ files' = Append(files, <<>>)
  BY <1>m, <1>1, <1>2, <1>3, <1>4, OpenKeeps
<1>6. mode = "increment" => ToldNext(f)
  <2> SUFFICES ASSUME mode = "increment" PROVE ToldNext(f)
    OBVIOUS
  <2>1. /\ names[filename'] = 0 /\ filename' \in Names /\ filename \in Names
        /\ names' = [names EXCEPT ![filename'] = Len(files) + 1]
        /\ names[filename] = Len(files) /\ names \in [Names -> 0 .. Len(files)]
    BY <1>t, <1>1, OpenFacts DEF NamesInv, TypeOK, FileTypes
  <2>2. Len(files) # 0 /\ Len(files) \in 1..Len(files) /\ files'[Len(files)] = files[Len(files)]
    <3>1. Len(files) \in Nat \ {0}
      BY <1>t, <1>5, OpenFiles
    <3>2. Len(files) \in 1..Len(files) /\ Len(files) # 0
      BY SMT, <3>1
    <3> QED  BY <1>t, <1>5, <3>2, OpenFiles
  <2>3. names'[filename] = Len(files) /\ names'[filename'] = Len(files) + 1
    BY <2>1, <2>2
  <2>4. Ends(Len(files), le.id)
    BY <1>t, <1>1 DEF HandInv
  <2> QED  BY <1>f, <2>2, <2>3, <2>4 DEF ToldNext, Ends
<1>7. NamesInv' /\ CompletionTrue'
  BY <1>1, <1>3, <1>6, OpenNames DEF cycle
<1>8. HandInv'
  BY <1>2 DEF HandInv
<1>9. PendingInv'
  BY <1>t, <1>1, <1>2, <1>3, <1>f DEF PendingInv, Cycling, queue, cycle
<1> QED  BY <1>5, <1>7, <1>8, <1>9 DEF LoggerInv

-----------------------------------------------------------------------------
(* Writing *)

\* The event in hand comes before the queue.
LEMMA InHand ==
  ASSUME LoggerInv, pc[Main] \in {"msg", "barrier"}
  PROVE  /\ le \in Event /\ q \in Seq(Event)
         /\ 1 \in 1..Len(Waiting) /\ Waiting[1] = le
         /\ \A x \in 1..Len(q) : /\ x + 1 \in 1..Len(Waiting) /\ Waiting[x + 1] = q[x]
                                 /\ 1 < x + 1
         /\ \A x, y \in 1..Len(q) : x < y => x + 1 < y + 1
         /\ \A x \in 1..Len(Waiting) : x = 1 \/ \E y \in 1..Len(q) : x = y + 1
<1>1. le \in Event
  <2>1. NoEvent.kind = "none"
    BY DEF NoEvent
  <2>2. le = NoEvent => le.kind = "none"
    BY <2>1
  <2>3. le \in Event \cup {NoEvent} /\ HandInv
    BY DEF LoggerInv, TypeOK, ThreadTypes
  <2> QED  BY <2>2, <2>3 DEF HandInv
<1>2. q \in Seq(Event) /\ Waiting = <<le>> \o q
  BY DEF LoggerInv, TypeOK, QueueTypes, Waiting, Hand
<1>3. /\ 1 \in 1..Len(Waiting) /\ Waiting[1] = le
      /\ \A x \in 1..Len(q) : /\ x + 1 \in 1..Len(Waiting) /\ Waiting[x + 1] = q[x]
                              /\ 1 < x + 1
      /\ \A x, y \in 1..Len(q) : x < y => x + 1 < y + 1
  BY SMT, <1>1, <1>2
<1>4. ASSUME NEW x \in 1..Len(Waiting), x # 1 PROVE \E y \in 1..Len(q) : x = y + 1
  <2>1. x - 1 \in 1..Len(q) /\ x = (x - 1) + 1
    BY SMT, <1>1, <1>2, <1>4
  <2> QED  BY <2>1
<1> QED  BY <1>1, <1>2, <1>3, <1>4

\* No event was queued before itself.
LEMMA NotBeforeItself ==
  ASSUME LoggerInv, NEW e, NEW f, Before(e, f)
  PROVE  e # f
<1>1. AcceptedOnce
  BY DEF LoggerInv, LogOrder
<1>2. PICK a, b \in 1..Len(accepted) : a < b /\ accepted[a] = e /\ accepted[b] = f
  BY DEF Before
<1>3. a # b
  <2>1. Len(accepted) \in Nat
    BY SMT DEF LoggerInv, TypeOK, QueueTypes
  <2> QED  BY SMT, <1>2, <2>1
<1> QED  BY <1>1, <1>2, <1>3 DEF AcceptedOnce

\* The events of a file after the one in hand is written.
LEMMA WriteFiles ==
  ASSUME TypeOK, NEW e \in Event, writeEvent(e)
  PROVE  /\ Len(files) \in Nat \ {0} /\ Len(files') = Len(files)
         /\ Len(files) \in 1..Len(files) /\ Len(files[Len(files)]) \in Nat
         /\ Len(files'[Len(files)]) = Len(files[Len(files)]) + 1
         /\ Len(files[Len(files)]) + 1 \in 1..Len(files'[Len(files)])
         /\ files'[Len(files)][Len(files[Len(files)]) + 1] = e
         /\ \A i \in 1..Len(files) : \A k \in 1..Len(files[i]) :
              k \in 1..Len(files'[i]) /\ files'[i][k] = files[i][k]
         /\ \A i \in 1..Len(files) : \A k \in 1..Len(files'[i]) :
              \/ k \in 1..Len(files[i]) /\ files'[i][k] = files[i][k]
              \/ i = Len(files) /\ k = Len(files[i]) + 1 /\ files'[i][k] = e
         /\ \A i \in 1..Len(files) : i # Len(files) => files'[i] = files[i]
<1> DEFINE L == Len(files)
<1>1. /\ L \in Nat \ {0} /\ L \in 1..L /\ Len(files') = L
      /\ files'[L] = Append(files[L], e) /\ files[L] \in Seq(Event)
      /\ \A i \in 1..L : i # L => files'[i] = files[i]
  BY WriteFacts
<1> HIDE DEF L
<1>2. /\ Len(files[L]) \in Nat /\ Len(files'[L]) = Len(files[L]) + 1
      /\ files'[L][Len(files[L]) + 1] = e
      /\ \A k \in 1..Len(files[L]) : k \in 1..Len(files'[L]) /\ files'[L][k] = files[L][k]
      /\ \A k \in 1..Len(files'[L]) : \/ k \in 1..Len(files[L])
                                      \/ k = Len(files[L]) + 1
      /\ Len(files[L]) + 1 \in 1..Len(files'[L])
  <2>1. files'[L] = Append(files[L], e) /\ files[L] \in Seq(Event)
    BY <1>1
  <2> QED  BY SMT, <2>1
<1>3. \A i \in 1..L : \A k \in 1..Len(files[i]) :
        k \in 1..Len(files'[i]) /\ files'[i][k] = files[i][k]
  BY <1>1, <1>2
<1>4. \A i \in 1..L : \A k \in 1..Len(files'[i]) :
        \/ k \in 1..Len(files[i]) /\ files'[i][k] = files[i][k]
        \/ i = L /\ k = Len(files[i]) + 1 /\ files'[i][k] = e
  BY <1>1, <1>2
<1> QED  BY <1>1, <1>2, <1>3, <1>4 DEF L

\* Writing the event in hand moves it from the front of what waits to the end of
\* the last file.
LEMMA WriteOrder ==
  ASSUME LoggerInv, pc[Main] \in {"msg", "barrier"}, pc'[Main] \notin {"msg", "barrier"},
         writeEvent(le), UNCHANGED <<q, accepted, failed>>
  PROVE  LogOrder'
<1> DEFINE L == Len(files)  c == Len(files[L])
<1>t. TypeOK /\ AcceptedOnce /\ FilesInOrder /\ WaitingInOrder /\ NoneLost
  BY DEF LoggerInv, LogOrder
<1>1. /\ le \in Event /\ q \in Seq(Event)
      /\ 1 \in 1..Len(Waiting) /\ Waiting[1] = le
      /\ \A x \in 1..Len(q) : /\ x + 1 \in 1..Len(Waiting) /\ Waiting[x + 1] = q[x]
                              /\ 1 < x + 1
      /\ \A x, y \in 1..Len(q) : x < y => x + 1 < y + 1
      /\ \A x \in 1..Len(Waiting) : x = 1 \/ \E y \in 1..Len(q) : x = y + 1
  BY InHand
<1>2. Waiting' = q
  <2>1. <<>> \o q = q
    BY SMT, <1>1
  <2> QED  BY <2>1 DEF Waiting, Hand
<1>3. /\ L \in Nat \ {0} /\ Len(files') = L /\ L \in 1..L /\ c \in Nat
      /\ c + 1 \in 1..Len(files'[L]) /\ files'[L][c + 1] = le
      /\ \A i \in 1..L : \A k \in 1..Len(files[i]) :
           k \in 1..Len(files'[i]) /\ files'[i][k] = files[i][k]
      /\ \A i \in 1..L : \A k \in 1..Len(files'[i]) :
           \/ k \in 1..Len(files[i]) /\ files'[i][k] = files[i][k]
           \/ i = L /\ k = Len(files[i]) + 1 /\ files'[i][k] = le
  BY <1>t, <1>1, WriteFiles
<1>4. /\ \A f : Kept(f) => KeptNext(f)
      /\ \A f, g : Before(f, g) => BeforeNext(f, g)
  BY DEF Kept, KeptNext, Before, BeforeNext
<1>5. /\ \A i \in 1..L : ~(L < i)
      /\ \A l \in 1..c : ~(c + 1 < l)
      /\ ~(c + 1 < c + 1)
  BY SMT, <1>3
<1> HIDE DEF L, c
<1>a. ASSUME NEW i \in 1..L, NEW k \in 1..Len(files'[i])
      PROVE  \/ k \in 1..Len(files[i]) /\ files'[i][k] = files[i][k]
             \/ i = L /\ k = Len(files[i]) + 1 /\ files'[i][k] = le
  BY <1>3
<1>b. L \in 1..L /\ c + 1 \in 1..Len(files'[L]) /\ files'[L][c + 1] = le
  BY <1>3
<1>c. ASSUME NEW i \in 1..L, NEW k \in 1..Len(files[i])
      PROVE  k \in 1..Len(files'[i]) /\ files'[i][k] = files[i][k]
  BY <1>3
<1>6. ASSUME NEW i \in 1..L, NEW k \in 1..Len(files[i])
      PROVE  /\ Kept(files[i][k])
             /\ \A l \in 1 .. Len(files[i]) : k < l => Before(files[i][k], files[i][l])
             /\ \A j \in 1 .. L : i < j =>
                  \A l \in 1 .. Len(files[j]) : Before(files[i][k], files[j][l])
             /\ Before(files[i][k], le)
             /\ \A x \in 1 .. Len(q) : Before(files[i][k], q[x])
  BY <1>t, <1>1 DEF FilesInOrder, L
<1>7. /\ Kept(le) /\ \A x \in 1 .. Len(q) : Kept(q[x]) /\ Before(le, q[x])
      /\ \A x, y \in 1 .. Len(q) : x < y => Before(q[x], q[y])
  BY <1>t, <1>1 DEF WaitingInOrder
<1>8. FilesInOrder'
  <2>1. ASSUME NEW i \in 1..L, NEW k \in 1..Len(files'[i])
        PROVE  /\ KeptNext(files'[i][k])
               /\ \A l \in 1 .. Len(files'[i]) :
                    k < l => BeforeNext(files'[i][k], files'[i][l])
               /\ \A j \in 1 .. L : i < j =>
                    \A l \in 1 .. Len(files'[j]) : BeforeNext(files'[i][k], files'[j][l])
               /\ \A x \in 1 .. Len(q) : BeforeNext(files'[i][k], q[x])
    <3>1. CASE k \in 1..Len(files[i]) /\ files'[i][k] = files[i][k]
      <4>1. /\ KeptNext(files[i][k])
            /\ \A x \in 1 .. Len(q) : BeforeNext(files[i][k], q[x])
        BY <1>4, <1>6, <3>1
      <4>2. ASSUME NEW l \in 1 .. Len(files'[i]), k < l
            PROVE  BeforeNext(files[i][k], files'[i][l])
        <5>1. \/ l \in 1..Len(files[i]) /\ files'[i][l] = files[i][l]
              \/ files'[i][l] = le
          BY <1>a
        <5>2. Before(files[i][k], files'[i][l])
          BY <1>6, <3>1, <4>2, <5>1
        <5> QED  BY <1>4, <5>2
      <4>3. ASSUME NEW j \in 1 .. L, i < j, NEW l \in 1 .. Len(files'[j])
            PROVE  BeforeNext(files[i][k], files'[j][l])
        <5>1. \/ l \in 1..Len(files[j]) /\ files'[j][l] = files[j][l]
              \/ files'[j][l] = le
          BY <1>a
        <5>2. Before(files[i][k], files'[j][l])
          BY <1>6, <3>1, <4>3, <5>1
        <5> QED  BY <1>4, <5>2
      <4> QED  BY <3>1, <4>1, <4>2, <4>3
    <3>2. CASE i = L /\ k = c + 1 /\ files'[i][k] = le
      <4>1. \A l \in 1 .. Len(files'[i]) : ~(k < l)
        <5>1. \A l \in 1 .. Len(files'[i]) : l \in 1..Len(files[i]) \/ l = Len(files[i]) + 1
          BY <1>a
        <5>2. Len(files[i]) = c /\ k = c + 1
          BY <3>2 DEF c
        <5> QED  BY <1>5, <5>1, <5>2
      <4> QED  BY <1>4, <1>5, <1>7, <3>2, <4>1
    <3>3. i = L => Len(files[i]) = c
      BY DEF c
    <3> QED  BY <1>a, <3>1, <3>2, <3>3
  <2> QED  BY <1>2, <1>3, <2>1, FilesNext
<1>9. WaitingInOrder'
  BY <1>2, <1>4, <1>7, WaitingNext
<1>10. NoneLost'
  <2>1. ASSUME NEW a \in 1..Len(accepted)
        PROVE  \/ accepted[a] \in failed
               \/ \E x \in 1 .. Len(q) : q[x] = accepted[a]
               \/ \E i \in 1 .. L : \E k \in 1 .. Len(files'[i]) :
                    files'[i][k] = accepted[a]
    <3>1. CASE \E x \in 1 .. Len(Waiting) : Waiting[x] = accepted[a]
      <4>1. PICK x \in 1 .. Len(Waiting) : Waiting[x] = accepted[a]
        BY <3>1
      <4>2. CASE x = 1
        <5>1. files'[L][c + 1] = accepted[a]
          BY <1>1, <1>b, <4>1, <4>2
        <5> QED  BY <1>b, <5>1
      <4>3. CASE x # 1
        <5>1. PICK y \in 1..Len(q) : x = y + 1
          BY <1>1, <4>3
        <5>2. q[y] = accepted[a]
          BY <1>1, <4>1, <5>1
        <5> QED  BY <5>2
      <4> QED  BY <4>2, <4>3
    <3>2. CASE \E i \in 1 .. L : \E k \in 1 .. Len(files[i]) : files[i][k] = accepted[a]
      <4>1. PICK i \in 1 .. L : \E k \in 1 .. Len(files[i]) : files[i][k] = accepted[a]
        BY <3>2
      <4>2. PICK k \in 1 .. Len(files[i]) : files[i][k] = accepted[a]
        BY <4>1
      <4>3. k \in 1..Len(files'[i]) /\ files'[i][k] = accepted[a]
        BY <1>c, <4>2
      <4> QED  BY <4>3
    <3> QED  BY <1>t, <3>1, <3>2 DEF NoneLost, L
  <2>2. Len(files') = L /\ Waiting' = q /\ accepted' = accepted /\ failed' = failed
    BY <1>2, <1>3
  <2>3. ASSUME NEW a \in 1..Len(accepted')
        PROVE  \/ accepted'[a] \in failed'
               \/ \E x \in 1 .. Len(Waiting') : Waiting'[x] = accepted'[a]
               \/ \E i \in 1 .. Len(files') : \E k \in 1 .. Len(files'[i]) :
                    files'[i][k] = accepted'[a]
    BY ZenonT(40), <2>1, <2>2
  <2> QED  BY <2>3, NoneLostNext
<1>11. AcceptedOnce'
  BY <1>t DEF AcceptedOnce
<1> QED  BY <1>8, <1>9, <1>10, <1>11 DEF LogOrder

\* An event that cannot be written is left out.
LEMMA FailOrder ==
  ASSUME LoggerInv, pc[Main] \in {"msg", "barrier"}, pc'[Main] \notin {"msg", "barrier"},
         failed' = failed \cup {le}, UNCHANGED <<files, q, accepted>>
  PROVE  LogOrder' /\ Kept(le)
<1>t. TypeOK /\ AcceptedOnce /\ FilesInOrder /\ WaitingInOrder /\ NoneLost
  BY DEF LoggerInv, LogOrder
<1>1. /\ le \in Event /\ q \in Seq(Event)
      /\ 1 \in 1..Len(Waiting) /\ Waiting[1] = le
      /\ \A x \in 1..Len(q) : /\ x + 1 \in 1..Len(Waiting) /\ Waiting[x + 1] = q[x]
                              /\ 1 < x + 1
      /\ \A x, y \in 1..Len(q) : x < y => x + 1 < y + 1
      /\ \A x \in 1..Len(Waiting) : x = 1 \/ \E y \in 1..Len(q) : x = y + 1
  BY InHand
<1>2. Waiting' = q
  <2>1. <<>> \o q = q
    BY SMT, <1>1
  <2> QED  BY <2>1 DEF Waiting, Hand
<1>3. /\ \A f : Kept(f) /\ f # le => KeptNext(f)
      /\ \A f, g : Before(f, g) => BeforeNext(f, g)
  BY DEF Kept, KeptNext, Before, BeforeNext
<1>4. ASSUME NEW i \in 1..Len(files), NEW k \in 1..Len(files[i])
      PROVE  /\ KeptNext(files[i][k])
             /\ \A l \in 1 .. Len(files[i]) : k < l => BeforeNext(files[i][k], files[i][l])
             /\ \A j \in 1 .. Len(files) : i < j =>
                  \A l \in 1 .. Len(files[j]) : BeforeNext(files[i][k], files[j][l])
             /\ \A x \in 1 .. Len(q) : BeforeNext(files[i][k], q[x])
  <2>1. /\ Kept(files[i][k])
        /\ \A l \in 1 .. Len(files[i]) : k < l => Before(files[i][k], files[i][l])
        /\ \A j \in 1 .. Len(files) : i < j =>
             \A l \in 1 .. Len(files[j]) : Before(files[i][k], files[j][l])
        /\ Before(files[i][k], le)
        /\ \A x \in 1 .. Len(q) : Before(files[i][k], q[x])
    BY <1>t, <1>1 DEF FilesInOrder
  <2>2. files[i][k] # le
    BY <2>1, NotBeforeItself
  <2> QED  BY <1>3, <2>1, <2>2
<1>5. /\ Kept(le) /\ \A x \in 1 .. Len(q) : Kept(q[x]) /\ Before(le, q[x])
      /\ \A x, y \in 1 .. Len(q) : x < y => Before(q[x], q[y])
  BY <1>t, <1>1 DEF WaitingInOrder
<1>6. FilesInOrder'
  <2>1. files' = files /\ Waiting' = q
    BY <1>2
  <2> QED  BY <1>4, <2>1, FilesNext
<1>7. WaitingInOrder'
  <2>1. \A x \in 1..Len(q) : q[x] # le
    BY <1>5, NotBeforeItself
  <2> QED  BY <1>2, <1>3, <1>5, <2>1, WaitingNext
<1>8. NoneLost'
  <2>1. ASSUME NEW a \in 1..Len(accepted)
        PROVE  \/ accepted[a] \in failed'
               \/ \E x \in 1 .. Len(q) : q[x] = accepted[a]
               \/ \E i \in 1 .. Len(files) : \E k \in 1 .. Len(files[i]) :
                    files[i][k] = accepted[a]
    <3>1. CASE \E x \in 1 .. Len(Waiting) : Waiting[x] = accepted[a]
      <4>1. PICK x \in 1 .. Len(Waiting) : Waiting[x] = accepted[a]
        BY <3>1
      <4>2. CASE x = 1
        BY <1>1, <4>1, <4>2
      <4>3. CASE x # 1
        <5>1. PICK y \in 1..Len(q) : x = y + 1
          BY <1>1, <4>3
        <5>2. q[y] = accepted[a]
          BY <1>1, <4>1, <5>1
        <5> QED  BY <5>2
      <4> QED  BY <4>2, <4>3
    <3> QED  BY <1>t, <3>1 DEF NoneLost
  <2> QED  BY ZenonT(40), <1>2, <2>1, NoneLostNext
<1>9. AcceptedOnce'
  BY <1>t DEF AcceptedOnce
<1> QED  BY <1>5, <1>6, <1>7, <1>8, <1>9 DEF LogOrder

\* A barrier that is written ends its file, and nothing is written after one.
LEMMA WriteEnds ==
  ASSUME LoggerInv, pc[Main] \in {"msg", "barrier"}, status = "running", writeEvent(le),
         le.kind = "barrier" => pc'[Main] = "cycle"
  PROVE  BarrierEndsFile'
<1>1. /\ Len(files) \in Nat \ {0} /\ Len(files') = Len(files)
      /\ Len(files'[Len(files)]) = Len(files[Len(files)]) + 1
      /\ \A i \in 1..Len(files) : \A k \in 1..Len(files'[i]) :
           \/ k \in 1..Len(files[i]) /\ files'[i][k] = files[i][k]
           \/ i = Len(files) /\ k = Len(files[i]) + 1 /\ files'[i][k] = le
      /\ \A i \in 1..Len(files) : i # Len(files) => files'[i] = files[i]
  BY InHand, WriteFiles DEF LoggerInv
<1>2. BarrierEndsFile
  BY DEF LoggerInv
<1>3. \A i \in 1..Len(files) : i # Len(files) <=> i < Len(files)
  BY SMT, <1>1
<1>4. ASSUME NEW i \in 1..Len(files), NEW k \in 1..Len(files'[i]),
             files'[i][k].kind = "barrier"
      PROVE  k = Len(files'[i]) /\ (i < Len(files) \/ pc'[Main] = "cycle")
  <2>1. CASE i # Len(files)
    BY <1>1, <1>2, <1>3, <1>4, <2>1 DEF BarrierEndsFile
  <2>2. CASE i = Len(files)
    <3>1. \A l \in 1..Len(files[i]) : files[i][l].kind # "barrier"
      BY <1>2, <1>3, <2>2 DEF BarrierEndsFile
    <3>2. k = Len(files[i]) + 1 /\ files'[i][k] = le
      BY <1>1, <1>4, <3>1
    <3> QED  BY <1>1, <1>4, <2>2, <3>2
  <2> QED  BY <2>1, <2>2
<1> QED  BY <1>1, <1>4 DEF BarrierEndsFile

\* What frames report stays true: the file they name is no longer written.
LEMMA WriteNames ==
  ASSUME LoggerInv, pc[Main] \in {"msg", "barrier"}, writeEvent(le),
         UNCHANGED <<completed, replies, job>>
  PROVE  NamesInv' /\ CompletionTrue'
<1>t. TypeOK /\ NamesInv /\ CompletionTrue
  BY DEF LoggerInv
<1>1. /\ Len(files) \in Nat \ {0} /\ Len(files') = Len(files)
      /\ \A i \in 1..Len(files) : i # Len(files) => files'[i] = files[i]
      /\ UNCHANGED <<mode, names, filename, next_increment_num>>
  BY <1>t, InHand, WriteFiles DEF writeEvent
<1>2. ASSUME NEW r \in Frame, Told(r) PROVE ToldNext(r)
  <2> SUFFICES ASSUME r.kind = "complete" PROVE ToldNext(r)
    BY DEF ToldNext
  <2>1. names[r.old] \in 0..Len(files) /\ names[r.new] \in 0..Len(files)
    BY <1>t DEF TypeOK, FileTypes, Frame
  <2>2. /\ names[r.old] # 0 /\ files[names[r.old]] # <<>>
        /\ files[names[r.old]][Len(files[names[r.old]])] = Barrier(r.seq)
        /\ names[r.new] = names[r.old] + 1
    BY <1>2 DEF Told, Ends
  <2>3. names[r.old] \in 1..Len(files) /\ names[r.old] # Len(files)
    BY SMT, <1>1, <2>1, <2>2
  <2>4. files'[names[r.old]] = files[names[r.old]]
    BY <1>1, <2>3
  <2> QED  BY <1>1, <2>2, <2>4 DEF ToldNext
<1>3. completed \in Frame /\ replies \subseteq Frame /\ \A t \in Threads : job[t].reply \in Frame
  BY <1>t DEF TypeOK, CycleTypes, ThreadTypes
<1>4. mode = "increment" =>
        /\ names[filename] = Len(files)
        /\ \A n \in Names : n >= next_increment_num => names[n] = 0
        /\ ToldNext(completed) /\ \A t \in Threads : ToldNext(job[t].reply)
        /\ \A r \in replies : ToldNext(r)
  BY <1>t, <1>2, <1>3 DEF NamesInv, CompletionTrue
<1>5. NamesInv'
  BY <1>1, <1>4, NamesNext
<1>6. CompletionTrue'
  BY <1>1, <1>4, CompletionNext
<1> QED  BY <1>5, <1>6

\* A message is written.
LEMMA WriteMsgStep ==
  ASSUME LoggerInv, TypeOK', WriteMsg
  PROVE  LoggerInv'
<1>t. ThreadTypes /\ HandInv /\ PendingInv /\ RequestsInv /\ JobsInv /\ AcceptedInv
  BY DEF LoggerInv, TypeOK
<1>m. Main \in Threads /\ \A s \in Shards : s \in Threads /\ s # Main
  BY MainApart
<1>1. /\ status = "running" /\ pc[Main] = "msg" /\ pc' = [pc EXCEPT ![Main] = "lock"]
      /\ writeEvent(le)
      /\ UNCHANGED <<queue, cycle, job, reqs, cseq, nmsgs, replies, status, failed>>
  BY DEF WriteMsg, Goto, Running, controller
<1>2. pc'[Main] = "lock" /\ \A s \in Shards : pc'[s] = pc[s]
  BY <1>t, <1>m, <1>1 DEF ThreadTypes
<1>3. Latest' = Latest
  BY <1>1 DEF Latest, cycle
<1>4. RequestsInv' /\ JobsInv' /\ AcceptedInv'
  BY <1>t, <1>1, <1>2, <1>3, KeepRequests, KeepJobs, KeepAccepted DEF Received, queue
<1>5. HandInv'
  BY <1>2 DEF HandInv
<1>6. PendingInv'
  BY <1>t, <1>1, <1>2 DEF PendingInv, Cycling, queue, cycle
<1>7. LogOrder'
  BY <1>1, <1>2, WriteOrder DEF queue
<1>8. BarrierEndsFile'
  BY <1>t, <1>1, WriteEnds DEF HandInv
<1>9. NamesInv' /\ CompletionTrue'
  BY <1>1, WriteNames DEF cycle
<1> QED  BY <1>4, <1>5, <1>6, <1>7, <1>8, <1>9 DEF LoggerInv

\* A barrier is written.
LEMMA WriteBarrierStep ==
  ASSUME LoggerInv, TypeOK', WriteBarrier
  PROVE  LoggerInv'
<1>t. ThreadTypes /\ HandInv /\ PendingInv /\ RequestsInv /\ JobsInv /\ AcceptedInv
  BY DEF LoggerInv, TypeOK
<1>m. Main \in Threads /\ \A s \in Shards : s \in Threads /\ s # Main
  BY MainApart
<1>1. /\ status = "running" /\ pc[Main] = "barrier" /\ pc' = [pc EXCEPT ![Main] = "cycle"]
      /\ writeEvent(le)
      /\ UNCHANGED <<queue, cycle, le, job, reqs, cseq, nmsgs, replies, status, failed>>
  BY DEF WriteBarrier, Goto, Running, controller
<1>2. pc'[Main] = "cycle" /\ \A s \in Shards : pc'[s] = pc[s]
  BY <1>t, <1>m, <1>1 DEF ThreadTypes
<1>3. Latest' = Latest
  BY <1>1 DEF Latest, cycle
<1>4. RequestsInv' /\ JobsInv' /\ AcceptedInv'
  BY <1>t, <1>1, <1>2, <1>3, KeepRequests, KeepJobs, KeepAccepted DEF Received, queue
<1>5. HandInv'
  <2>1. le \in Event /\ le.kind = "barrier"
    BY <1>t, <1>1, InHand DEF HandInv
  <2>2. le = Barrier(le.id)
    BY SMT, <2>1 DEF Event, Barrier
  <2>3. /\ Len(files) # 0 /\ Len(files') = Len(files)
        /\ Len(files'[Len(files)]) = Len(files[Len(files)]) + 1
        /\ Len(files[Len(files)]) + 1 \in 1..Len(files'[Len(files)])
        /\ files'[Len(files)][Len(files[Len(files)]) + 1] = le
    BY <1>1, <2>1, WriteFiles DEF LoggerInv
  <2>4. files'[Len(files)] # <<>>
    <3>1. Len(<<>>) = 0
      BY SMT
    <3>2. 1..0 = {}
      BY SMT
    <3> QED  BY <2>3, <3>1, <3>2
  <2>5. /\ Len(files') # 0 /\ files'[Len(files')] # <<>>
        /\ files'[Len(files')][Len(files'[Len(files')])] = Barrier(le.id)
    BY <2>2, <2>3, <2>4
  <2> QED  BY <1>1, <1>2, <2>1, <2>5 DEF HandInv, Ends, Barrier
<1>6. PendingInv'
  BY <1>t, <1>1, <1>2 DEF PendingInv, Cycling, queue, cycle
<1>7. LogOrder'
  BY <1>1, <1>2, WriteOrder DEF queue
<1>8. BarrierEndsFile'
  BY <1>1, <1>2, WriteEnds
<1>9. NamesInv' /\ CompletionTrue'
  BY <1>1, WriteNames DEF cycle
<1> QED  BY <1>4, <1>5, <1>6, <1>7, <1>8, <1>9 DEF LoggerInv

\* An event is left out.
LEMMA WriteFailsStep ==
  ASSUME LoggerInv, TypeOK', WriteFails
  PROVE  LoggerInv'
<1> DEFINE f == [kind |-> "error", seq |-> le.id, old |-> 0, new |-> 0]
<1>t. ThreadTypes /\ HandInv /\ PendingInv /\ RequestsInv /\ JobsInv /\ AcceptedInv
  BY DEF LoggerInv, TypeOK
<1>m. Main \in Threads /\ \A s \in Shards : s \in Threads /\ s # Main
  BY MainApart
<1>1. /\ status = "running" /\ pc[Main] = le.kind /\ pc' = [pc EXCEPT ![Main] = "lock"]
      /\ failed' = failed \cup {le}
      /\ \A r \in replies' : r \in replies \/ r = f
      /\ UNCHANGED <<log, queue, cycle, job, reqs, cseq, nmsgs>>
  BY DEF WriteFails, Goto, Running, controller
<1>f. f.kind # "complete"
  OBVIOUS
<1> HIDE DEF f
<1>2. pc'[Main] = "lock" /\ \A s \in Shards : pc'[s] = pc[s]
  BY <1>t, <1>m, <1>1 DEF ThreadTypes
<1>3. pc[Main] \in {"msg", "barrier"}
  <2>1. pc[Main] # "none"
    BY <1>t DEF ThreadTypes, MainLocs
  <2>2. le \in Event \/ le.kind = "none"
    <3>1. NoEvent.kind = "none"
      BY DEF NoEvent
    <3>2. le \in Event \cup {NoEvent}
      BY <1>t DEF ThreadTypes
    <3>3. le = NoEvent => le.kind = "none"
      BY <3>1
    <3> QED  BY <3>2, <3>3
  <2>3. le \in Event => le.kind \in {"msg", "barrier"}
    BY SMT DEF Event
  <2> QED  BY <1>1, <2>1, <2>2, <2>3
<1>4. LogOrder' /\ Kept(le)
  BY <1>1, <1>2, <1>3, FailOrder DEF log, queue
<1>5. Latest' = Latest
  BY <1>1 DEF Latest, cycle
<1>6. RequestsInv' /\ JobsInv'
  BY <1>t, <1>1, <1>2, <1>5, KeepRequests, KeepJobs DEF Received, queue
<1>7. AcceptedInv'
  BY <1>t, <1>1, <1>4, <1>5 DEF AcceptedInv, Kept, queue
<1>8. HandInv'
  BY <1>2 DEF HandInv
<1>9. PendingInv'
  BY <1>t, <1>1, <1>2 DEF PendingInv, Cycling, queue, cycle
<1>10. BarrierEndsFile'
  BY <1>1, <1>3, KeepEnds DEF LoggerInv, log
<1>11. NamesInv' /\ CompletionTrue'
  BY <1>1, <1>f, KeepNames, KeepCompletion DEF LoggerInv, log, cycle
<1> QED  BY <1>4, <1>6, <1>7, <1>8, <1>9, <1>10, <1>11 DEF LoggerInv

-----------------------------------------------------------------------------
(* The invariant *)

\* The process starts with one empty file and nothing queued.
LEMMA InitTypes == Init => TypeOK
<1> SUFFICES ASSUME Init PROVE TypeOK
  OBVIOUS
<1>m. Main \in Threads /\ \A s \in Shards : s \in Threads /\ s # Main
  BY MainApart
<1>0. 0 \in Names /\ Len(<<>>) = 0
  BY SMT, LoggerAssumption DEF Names, LoggerAssumption
<1>1. FileTypes
  <2>1. << <<>> >> \in Seq(Seq(Event)) /\ << <<>> >> # <<>> /\ Len(<< <<>> >>) = 1
    BY SMT
  <2>2. 0 \in 0..1 /\ 1 \in 0..1 /\ 0 \in Nat /\ 1 \in Nat
    BY SMT
  <2>3. names \in [Names -> 0..1]
    BY <2>2 DEF Init
  <2> QED  BY <1>0, <2>1, <2>2, <2>3 DEF Init, FileTypes
<1>2. QueueTypes
  <2>1. <<>> \in Seq(Event)
    BY SMT
  <2> QED  BY <1>0, <2>1 DEF Init, QueueTypes
<1>3. NoReply \in Frame
  BY SMT, <1>0 DEF NoReply, Frame
<1>4. ThreadTypes
  <2>1. /\ pc[Main] = "lock" /\ \A s \in Shards : pc[s] = "idle"
        /\ pc \in [Threads -> MainLocs \cup ShardLocs]
    BY <1>m DEF Init, MainLocs, ShardLocs
  <2>2. job \in [Threads -> [ev : Event \cup {NoEvent}, reply : Frame]]
    <3>1. NoEvent \in Event \cup {NoEvent}
      OBVIOUS
    <3>2. [ev |-> NoEvent, reply |-> NoReply] \in [ev : Event \cup {NoEvent}, reply : Frame]
      BY SMT, <1>3, <3>1
    <3> QED  BY <3>2 DEF Init
  <2> QED  BY <2>1, <2>2 DEF Init, ThreadTypes, MainLocs, ShardLocs
<1>5. CycleTypes
  <2>1. <<>> \in Seq(Nat \ {0}) /\ 0 \in Nat
    BY SMT
  <2> QED  BY <1>3, <2>1 DEF Init, CycleTypes, NoCycle
<1>6. SignalTypes
  <2>1. 0 \in Nat
    BY SMT
  <2> QED  BY <2>1 DEF Init, SignalTypes
<1> QED  BY <1>1, <1>2, <1>4, <1>5, <1>6 DEF TypeOK

\* The rest of the invariant says nothing of a process that has done nothing.
LEMMA InitInv == Init => LoggerInv
<1> SUFFICES ASSUME Init PROVE LoggerInv
  OBVIOUS
<1>t. TypeOK
  BY InitTypes
<1>m. Main \in Threads /\ \A s \in Shards : s \in Threads /\ s # Main
  BY MainApart
<1>0. /\ Len(<<>>) = 0 /\ 1..0 = {} /\ Len(<< <<>> >>) = 1
      /\ \A i \in 1..1 : << <<>> >>[i] = <<>>
  BY SMT
<1>1. pc[Main] = "lock" /\ \A s \in Shards : pc[s] = "idle"
  BY <1>m DEF Init
<1>2. Waiting = <<>>
  <2>1. <<>> \o <<>> = <<>>
    BY SMT
  <2> QED  BY <1>1, <2>1 DEF Init, Waiting, Hand
<1>3. HandInv /\ PendingInv /\ JobsInv /\ AcceptedInv /\ CompletionTrue
  BY <1>0, <1>1 DEF Init, HandInv, PendingInv, Cycling, JobsInv, Received, AcceptedInv,
     CompletionTrue
<1>4. RequestsInv
  <2>1. Latest = 0
    BY DEF Init, Latest, NoReply, NoCycle
  <2>2. 0 <= 0
    BY SMT
  <2> QED  BY <1>0, <2>1, <2>2 DEF Init, RequestsInv
<1>5. NamesInv
  <2>1. 0 \in Names /\ \A n \in Names : n >= 1 => n # 0
    BY SMT, LoggerAssumption DEF Names, LoggerAssumption
  <2>2. Told(NoReply)
    BY DEF Told, NoReply
  <2>3. names[filename] = Len(files) /\ \A n \in Names : n >= next_increment_num => names[n] = 0
    BY <1>0, <2>1 DEF Init
  <2>4. completed = NoReply /\ \A t \in Threads : job[t].reply = NoReply
    BY DEF Init
  <2> QED  BY <2>2, <2>3, <2>4 DEF NamesInv
<1>6. \A i \in 1..Len(files) : files[i] = <<>>
  BY <1>0 DEF Init
<1>7. LogOrder
  BY <1>0, <1>2, <1>6 DEF Init, LogOrder, AcceptedOnce, FilesInOrder, WaitingInOrder, NoneLost
<1>8. BarrierEndsFile
  BY <1>0, <1>6 DEF BarrierEndsFile
<1> QED  BY <1>t, <1>3, <1>4, <1>5, <1>7, <1>8 DEF LoggerInv

\* Every step keeps the invariant.
LEMMA NextInv == ASSUME LoggerInv, [Next]_vars PROVE LoggerInv'
<1>i. TypeOK /\ HandInv /\ NamesInv /\ JobsInv
  BY DEF LoggerInv
<1>m. Main \in Threads /\ \A s \in Shards : s \in Threads /\ s # Main
  BY MainApart
<1>1. ASSUME NEW s \in Shards, ReceiveMsg(s) \/ ShardStep(s) PROVE LoggerInv'
  <2>1. TypeOK'
    BY <1>i, <1>1, ShardTypes
  <2> QED
    BY <1>m, <1>1, <2>1, ReceiveMsgStep, ReceiveRequestStep, HandlerStep, CycleRequestStep,
       ShardQuiet DEF ShardStep
<1>2. CASE MainStep
  <2>1. TypeOK'
    BY <1>i, <1>2, MainTypes
  <2>2. CASE \/ MainLock \/ CycleLock \/ SplitFails \/ CycleFails \/ Exit
             \/ sendCycleComplete \/ flushWhenReady
    BY <2>1, <2>2, MainQuiet, TakeStep
  <2>3. CASE Split \/ Cycle \/ CycleDone
    BY <2>1, <2>3, SplitStep, CycleStep, CycleDoneStep
  <2>4. CASE WriteMsg \/ WriteBarrier \/ WriteFails
    BY <2>1, <2>4, WriteMsgStep, WriteBarrierStep, WriteFailsStep
  <2>5. CASE wakeup(Main)
    BY <1>m, <2>1, <2>5, ShardQuiet
  <2> QED  BY <1>2, <2>2, <2>3, <2>4, <2>5 DEF MainStep
<1>3. CASE (\E t \in Threads : sighandler(t) \/ sighup_handler(t)) \/ Request
  <2>1. TypeOK'
    BY <1>i, <1>3, OtherTypes
  <2>2. ASSUME NEW t \in Threads, sighandler(t) \/ sighup_handler(t) PROVE LoggerInv'
    BY <2>1, <2>2, ShardQuiet
  <2>3. CASE Request
    BY <2>1, <2>3, RequestStep
  <2> QED  BY <1>3, <2>2, <2>3
<1>4. CASE UNCHANGED vars
  <2>1. UNCHANGED <<log, queue, cycle, controller, le, pc, job, replies, status, failed, nmsgs>>
    BY <1>4 DEF vars
  <2>2. TypeOK'
    BY <1>i, <1>4 DEF vars, log, queue, cycle, signals, controller, TypeOK, FileTypes,
       QueueTypes, ThreadTypes, CycleTypes, SignalTypes
  <2>3. Quiet
    BY <2>1 DEF Quiet, log, queue, cycle, controller, Received
  <2> QED  BY <2>2, <2>3, QuietStep
<1> QED  BY <1>1, <1>2, <1>3, <1>4 DEF Next

\* The logger's inductive invariant holds of every behaviour.
THEOREM LoggerInvariant == Spec => []LoggerInv
BY InitInv, NextInv, PTL DEF Spec

\* Whatever the shards, the splits, the cycles and the signals do, no event is
\* written twice or out of order, and none is left out but those whose write
\* failed and those still waiting.
THEOREM LogInOrder == Spec => []LogOrder
<1>1. LoggerInv => LogOrder
  BY DEF LoggerInv
<1> QED  BY <1>1, LoggerInvariant, PTL

\* The barrier of a cycle is the last event of its file.
THEOREM BarriersEndFiles == Spec => []BarrierEndsFile
<1>1. LoggerInv => BarrierEndsFile
  BY DEF LoggerInv
<1> QED  BY <1>1, LoggerInvariant, PTL

\* However often a request is repeated, its barrier is queued once.
THEOREM CycledOnce == Spec => []CycleOnce
<1>1. LoggerInv => CycleOnce
  BY DEF LoggerInv, LogOrder, AcceptedOnce, CycleOnce
<1> QED  BY <1>1, LoggerInvariant, PTL

\* A completion names the file the barrier ends, and the file opened after it.
THEOREM CompletionsTrue == Spec => []CompletionTrue
<1>1. LoggerInv => CompletionTrue
  BY DEF LoggerInv
<1> QED  BY <1>1, LoggerInvariant, PTL

=============================================================================
