------------------------------- MODULE Logger -------------------------------
(***************************************************************************)
(* zcm-logger, tools/cpp/logger/main.cpp: the threads of the shards queue  *)
(* the messages they receive, the main thread writes them into log files   *)
(* it splits and rotates, a controller asks for a new file over a control  *)
(* channel and gets its answers through a socket, and signals run their    *)
(* handlers on whichever thread they interrupt.                            *)
(*                                                                         *)
(* A file is the sequence of its events, and files are numbered in the     *)
(* order they are opened.  An event takes one unit of memory and of file.  *)
(* Transcoder plugins are left out: each message is one event.             *)
(***************************************************************************)
EXTENDS Naturals, Sequences

CONSTANTS
  Shards,       \* threads that call handler()
  Control,      \* the one that is subscribed to the control channel
  Modes,        \* of naming files: "increment", "rotate" and "single"
  rotate,       \* how many files a rotation keeps
  auto_split,   \* events a file may hold before the next one opens another file
                \* (0: a limit below the size of one event)
  MaxArrivals,  \* bound on messages and requests, taken together
  MaxMishaps    \* bound on failed calls and signals, taken together

ASSUME LoggerAssumption ==
  /\ Control \in Shards /\ "main" \notin Shards
  /\ Modes \subseteq {"increment", "rotate", "single"}
  /\ rotate \in Nat \ {0} /\ auto_split \in Nat
  /\ MaxArrivals \in Nat /\ MaxMishaps \in Nat

VARIABLES
  mode,
  files,        \* every file opened so far: its events in order
  names,        \* the directory: which file a name stands for now
  filename,     \* the name of the open file
  next_increment_num,
  logsize,
  q, totalMemoryUsage,
  lk,           \* the thread that holds the mutex, or Nobody
  pending,      \* the cycle that is queued, or NoCycle
  completed,    \* the last one that was done, with its old and new file
  done, got_sighup,
  pc,           \* of the main thread and of the shards
  le,           \* the event the main thread works on
  job,          \* the message or the request a shard's thread works on
  sig,          \* what the signal handler on each thread is about to do
  reqs,         \* requests that are on their way
  cseq,         \* the cycle the controller asks for
  replies,      \* frames sent to the controller
  status,       \* of the process
  accepted, failed,         \* history: events queued; events whose write failed
  nmsgs, nreqs, faults, hups    \* counters of the bounds

log == <<mode, files, names, filename, next_increment_num, logsize>>
queue == <<q, totalMemoryUsage, accepted>>
cycle == <<pending, completed>>
signals == <<done, got_sighup, sig, hups>>
controller == <<reqs, cseq, nreqs>>
vars == <<log, queue, lk, cycle, signals, pc, le, job, controller,
          replies, status, failed, nmsgs, faults>>

Main == "main"
Threads == Shards \cup {Main}
Nobody == "nobody"
NoCycle == 0
NoEvent == [kind |-> "none", id |-> 0]
Msg(n) == [kind |-> "msg", id |-> n]
Barrier(n) == [kind |-> "barrier", id |-> n]
NoReply == [kind |-> "none", seq |-> 0, old |-> 0, new |-> 0]

\* As many names as files can be opened within the bounds.
Names == 0 .. (MaxArrivals + MaxMishaps + rotate)

Mishap == faults + done + hups < MaxMishaps
Running(t) == status = "running" /\ sig[t] = "none"
Goto(t, from, to) == Running(t) /\ pc[t] = from /\ pc' = [pc EXCEPT ![t] = to]
Lock(t) == lk = Nobody /\ lk' = t
Unlock(t) == lk = t /\ lk' = Nobody

-----------------------------------------------------------------------------
(* Files.                                                                  *)

\* rotate_logfiles: the last one is deleted and every other moves up a name.
rotate_logfiles(dir) ==
  [n \in Names |-> IF n = 0 \/ n >= rotate THEN 0 ELSE dir[n - 1]]

Free(dir, n) == dir[n] = 0

\* The name openLogfile picks.
NextName(dir) ==
  IF mode = "increment"
  THEN CHOOSE n \in Names :
         /\ n >= next_increment_num /\ Free(dir, n)
         /\ \A k \in next_increment_num .. n - 1 : ~Free(dir, k)
  ELSE 0

\* A single file is not overwritten.
MayOpen(dir) == mode = "single" => Free(dir, 0)

\* The file is closed, the others rotate, and the next one is opened.
OpenNext ==
  LET dir == IF mode = "rotate" THEN rotate_logfiles(names) ELSE names
  IN  /\ MayOpen(dir) /\ next_increment_num \in Names
      /\ filename' = NextName(dir)
      /\ next_increment_num' =
           IF mode = "increment" THEN NextName(dir) + 1 ELSE next_increment_num
      /\ names' = [dir EXCEPT ![NextName(dir)] = Len(files) + 1]
      /\ files' = Append(files, <<>>)
      /\ logsize' = 0
      /\ UNCHANGED mode

OpenFails ==
  ~MayOpen(IF mode = "rotate" THEN rotate_logfiles(names) ELSE names)

writeEvent(e) ==
  /\ files' = [files EXCEPT ![Len(files)] = Append(@, e)]
  /\ logsize' = logsize + 1
  /\ UNCHANGED <<mode, names, filename, next_increment_num>>

-----------------------------------------------------------------------------
(* The shards.                                                             *)

ReceiveMsg(s) ==
  /\ Goto(s, "idle", "lock")
  /\ nmsgs + nreqs < MaxArrivals
  /\ nmsgs' = nmsgs + 1
  /\ job' = [job EXCEPT ![s].ev = Msg(nmsgs + 1)]
  /\ UNCHANGED <<log, queue, lk, cycle, signals, le, controller, replies, status,
                 failed, faults>>

ReceiveRequest(s) ==
  /\ s = Control /\ reqs # <<>>
  /\ Goto(s, "idle", "lock")
  /\ job' = [job EXCEPT ![s].ev = Barrier(Head(reqs))]
  /\ reqs' = Tail(reqs)
  /\ UNCHANGED <<log, queue, lk, cycle, signals, le, cseq, nreqs, replies, status,
                 failed, nmsgs, faults>>

HandlerLock(s) ==
  /\ Goto(s, "lock", "locked") /\ Lock(s)
  /\ UNCHANGED <<log, queue, cycle, signals, le, job, controller,
                 replies, status, failed, nmsgs, faults>>

push(e) ==
  /\ q' = Append(q, e)
  /\ totalMemoryUsage' = totalMemoryUsage + 1
  /\ accepted' = Append(accepted, e)

handler(s) ==
  /\ job[s].ev.kind = "msg"
  /\ Goto(s, "locked", "notify") /\ Unlock(s)
  /\ push(job[s].ev)
  /\ UNCHANGED <<log, cycle, signals, le, job, controller, replies,
                 status, failed, nmsgs, faults>>

\* Mutant: a request is queued without a look at what was done already.
handleCycleRequest_Again(s) ==
  /\ job[s].ev.kind = "barrier"
  /\ Unlock(s)
  /\ IF pending = NoCycle
     THEN Goto(s, "locked", "notify") /\ push(job[s].ev) /\ pending' = job[s].ev.id
     ELSE Goto(s, "locked", "idle") /\ UNCHANGED <<queue, pending>>
  /\ UNCHANGED <<log, completed, signals, le, job, controller, replies,
                 status, failed, nmsgs, faults>>

\* The same request again is ignored while its cycle is queued, and answered
\* again when it is done; another one is refused while one is queued.
handleCycleRequest(s) ==
  LET n == job[s].ev.id
  IN  /\ job[s].ev.kind = "barrier"
      /\ Unlock(s)
      /\ \/ /\ pending = n
            /\ Goto(s, "locked", "idle")
            /\ UNCHANGED <<queue, pending, job>>
         \/ /\ pending \notin {NoCycle, n}
            /\ Goto(s, "locked", "reply")
            /\ job' = [job EXCEPT ![s].reply =
                         [kind |-> "busy", seq |-> n, old |-> 0, new |-> 0]]
            /\ UNCHANGED <<queue, pending>>
         \/ /\ pending = NoCycle /\ completed.seq = n
            /\ Goto(s, "locked", "reply")
            /\ job' = [job EXCEPT ![s].reply = completed]
            /\ UNCHANGED <<queue, pending>>
         \/ /\ pending = NoCycle /\ completed.seq # n
            /\ Goto(s, "locked", "notify")
            /\ push(job[s].ev)
            /\ pending' = n
            /\ UNCHANGED job
      /\ UNCHANGED <<log, completed, signals, le, controller, replies,
                     status, failed, nmsgs, faults>>

\* notify_all reaches the main thread only while it waits.
Woken == IF pc[Main] = "waiting" THEN "lock" ELSE pc[Main]

Notify(s) ==
  /\ Running(s) /\ pc[s] = "notify"
  /\ pc' = [pc EXCEPT ![s] = "idle", ![Main] = Woken]
  /\ UNCHANGED <<log, queue, lk, cycle, signals, le, job, controller, replies,
                 status, failed, nmsgs, faults>>

\* A frame is sent, or the process gives up.
Send(frame) ==
  \/ /\ replies' = replies \cup {frame}
     /\ UNCHANGED <<status, faults>>
  \/ /\ Mishap
     /\ faults' = faults + 1
     /\ status' = "failed"
     /\ UNCHANGED replies

Reply(s) ==
  /\ Goto(s, "reply", "idle")
  /\ Send(job[s].reply)
  /\ UNCHANGED <<log, queue, lk, cycle, signals, le, job, controller,
                 failed, nmsgs>>

-----------------------------------------------------------------------------
(* The main thread.                                                        *)

MainLock ==
  /\ Goto(Main, "lock", "locked") /\ Lock(Main)
  /\ UNCHANGED <<log, queue, cycle, signals, le, job, controller, replies,
                 status, failed, nmsgs, faults>>

\* flushWhenReady with the mutex held: wait, leave, or take an event.
flushWhenReady ==
  /\ Unlock(Main)
  /\ \/ /\ q = <<>> /\ done = 0
        /\ Goto(Main, "locked", "waiting")
        /\ UNCHANGED <<q, totalMemoryUsage, le>>
     \/ /\ done > 0
        /\ Goto(Main, "locked", "stopping")
        /\ UNCHANGED <<q, totalMemoryUsage, le>>
     \/ /\ q # <<>> /\ done = 0
        /\ Goto(Main, "locked", Head(q).kind)
        /\ le' = Head(q) /\ q' = Tail(q)
        /\ totalMemoryUsage' = totalMemoryUsage - 1
  /\ UNCHANGED <<log, accepted, cycle, signals, job, controller, replies, status,
                 failed, nmsgs, faults>>

\* Mutant: the event that made the file split is not written.
Split_Drops ==
  /\ Goto(Main, "msg", "lock")
  /\ logsize > auto_split \/ got_sighup = 1
  /\ got_sighup' = IF logsize > auto_split THEN got_sighup ELSE 0
  /\ OpenNext
  /\ UNCHANGED <<queue, lk, cycle, done, sig, hups, le, job, controller,
                 replies, status, failed, nmsgs, faults>>

\* Another file before the event is written: the last one is full, or SIGHUP.
Split ==
  /\ Running(Main) /\ pc[Main] = "msg"
  /\ logsize > auto_split \/ got_sighup = 1
  /\ got_sighup' = IF logsize > auto_split THEN got_sighup ELSE 0
  /\ OpenNext
  /\ UNCHANGED <<queue, lk, cycle, done, sig, hups, pc, le, job, controller,
                 replies, status, failed, nmsgs, faults>>

SplitFails ==
  /\ Running(Main) /\ pc[Main] = "msg"
  /\ logsize > auto_split \/ got_sighup = 1
  /\ OpenFails
  /\ status' = "failed"
  /\ UNCHANGED <<log, queue, lk, cycle, signals, pc, le, job, controller,
                 replies, failed, nmsgs, faults>>

WriteMsg ==
  /\ ~(logsize > auto_split \/ got_sighup = 1)
  /\ Goto(Main, "msg", "lock")
  /\ writeEvent(le)
  /\ le' = NoEvent
  /\ UNCHANGED <<queue, lk, cycle, signals, job, controller, replies, status,
                 failed, nmsgs, faults>>

\* The write of an event fails: a full disk ends the process, and otherwise
\* the event is skipped; for a barrier the controller is told, and whether that
\* frame could be sent is not looked at.
WriteFails ==
  /\ pc[Main] = "msg" => ~(logsize > auto_split \/ got_sighup = 1)
  /\ Goto(Main, le.kind, "lock")
  /\ Mishap
  /\ faults' = faults + 1
  /\ status' \in {"running", "failed"}
  /\ failed' = failed \cup {le}
  /\ LET error == [kind |-> "error", seq |-> le.id, old |-> 0, new |-> 0]
     IN  replies' \in {replies} \cup
                      IF le.kind = "msg" THEN {} ELSE {replies \cup {error}}
  /\ le' = NoEvent
  /\ UNCHANGED <<log, queue, lk, cycle, signals, job, controller, nmsgs>>

\* Mutant: the file is not closed after the barrier.
WriteBarrier_Stays ==
  /\ Goto(Main, "barrier", "lock")
  /\ writeEvent(le)
  /\ UNCHANGED <<queue, lk, cycle, signals, le, job, controller, replies,
                 status, failed, nmsgs, faults>>

WriteBarrier ==
  /\ Goto(Main, "barrier", "cycle")
  /\ writeEvent(le)
  /\ UNCHANGED <<queue, lk, cycle, signals, le, job, controller, replies,
                 status, failed, nmsgs, faults>>

\* Mutant: the new name is taken for the old one too.
Cycle_Renamed ==
  /\ Goto(Main, "cycle", "cycled")
  /\ OpenNext
  /\ job' = [job EXCEPT ![Main].reply = [kind |-> "complete", seq |-> le.id,
                                         old |-> filename', new |-> filename']]
  /\ UNCHANGED <<queue, lk, cycle, signals, le, controller, replies, status,
                 failed, nmsgs, faults>>

Cycle ==
  /\ Goto(Main, "cycle", "cycled")
  /\ OpenNext
  /\ job' = [job EXCEPT ![Main].reply = [kind |-> "complete", seq |-> le.id,
                                         old |-> filename, new |-> filename']]
  /\ UNCHANGED <<queue, lk, cycle, signals, le, controller, replies, status,
                 failed, nmsgs, faults>>

CycleFails ==
  /\ Running(Main) /\ pc[Main] = "cycle"
  /\ OpenFails
  /\ replies' = replies \cup {[kind |-> "error", seq |-> le.id, old |-> 0, new |-> 0]}
  /\ status' = "failed"
  /\ UNCHANGED <<log, queue, lk, cycle, signals, pc, le, job, controller,
                 failed, nmsgs, faults>>

CycleLock ==
  /\ Goto(Main, "cycled", "cycle locked") /\ Lock(Main)
  /\ UNCHANGED <<log, queue, cycle, signals, le, job, controller, replies,
                 status, failed, nmsgs, faults>>

CycleDone ==
  /\ Goto(Main, "cycle locked", "complete") /\ Unlock(Main)
  /\ pending' = NoCycle
  /\ completed' = job[Main].reply
  /\ UNCHANGED <<log, queue, signals, le, job, controller, replies, status,
                 failed, nmsgs, faults>>

\* Mutant: the controller is not told.
sendCycleComplete_Silent ==
  /\ Goto(Main, "complete", "lock")
  /\ le' = NoEvent
  /\ UNCHANGED <<log, queue, lk, cycle, signals, job, controller, replies,
                 status, failed, nmsgs, faults>>

sendCycleComplete ==
  /\ Goto(Main, "complete", "lock")
  /\ Send(job[Main].reply)
  /\ le' = NoEvent
  /\ UNCHANGED <<log, queue, lk, cycle, signals, job, controller, failed, nmsgs>>

\* stop() joins the shards' threads; what is still queued is not written.
Exit ==
  /\ Running(Main) /\ pc[Main] = "stopping"
  /\ \A s \in Shards : pc[s] = "idle" /\ sig[s] = "none"
  /\ status' = "exited"
  /\ UNCHANGED <<log, queue, lk, cycle, signals, pc, le, job, controller,
                 replies, failed, nmsgs, faults>>

-----------------------------------------------------------------------------
(* Signals and the controller.                                             *)

\* A signal interrupts thread t, and t goes on when the handler returns.
sighandler(t) ==
  /\ status = "running" /\ sig[t] = "none"
  /\ Mishap
  /\ done' = done + 1
  /\ sig' = [sig EXCEPT ![t] = "int"]
  /\ UNCHANGED <<log, queue, lk, cycle, got_sighup, hups, pc, le, job, controller,
                 replies, status, failed, nmsgs, faults>>

sighup_handler(t) ==
  /\ status = "running" /\ sig[t] = "none"
  /\ mode # "single"
  /\ Mishap
  /\ hups' = hups + 1
  /\ got_sighup' = 1
  /\ sig' = [sig EXCEPT ![t] = "hup"]
  /\ UNCHANGED <<log, queue, lk, cycle, done, pc, le, job, controller, replies,
                 status, failed, nmsgs, faults>>

\* Mutant: nobody is notified.
wakeup_Silent(t) ==
  /\ status = "running" /\ sig[t] # "none"
  /\ lk = Nobody
  /\ sig' = [sig EXCEPT ![t] = "none"]
  /\ pc' = pc
  /\ status' = IF sig[t] = "int" /\ done = 3 THEN "failed" ELSE status
  /\ UNCHANGED <<log, queue, lk, cycle, done, got_sighup, hups, le, job,
                 controller, replies, failed, nmsgs, faults>>

\* wakeup() takes the mutex, so it never returns on the thread that holds it.
wakeup(t) ==
  /\ status = "running" /\ sig[t] # "none"
  /\ lk = Nobody
  /\ sig' = [sig EXCEPT ![t] = "none"]
  /\ pc' = [pc EXCEPT ![Main] = Woken]
  /\ status' = IF sig[t] = "int" /\ done = 3 THEN "failed" ELSE status
  /\ UNCHANGED <<log, queue, lk, cycle, done, got_sighup, hups, le, job,
                 controller, replies, failed, nmsgs, faults>>

\* The controller repeats its request as it likes, and goes on to the next
\* cycle whether or not it has an answer; its requests arrive in order.
Request ==
  /\ status = "running"
  /\ nmsgs + nreqs < MaxArrivals
  /\ nreqs' = nreqs + 1
  /\ cseq' \in {cseq, cseq + 1} \ {0}
  /\ reqs' = Append(reqs, cseq')
  /\ UNCHANGED <<log, queue, lk, cycle, signals, pc, le, job, replies, status,
                 failed, nmsgs, faults>>

-----------------------------------------------------------------------------
Init ==
  /\ mode \in Modes
  /\ files = << <<>> >>
  /\ names = [n \in Names |-> IF n = 0 THEN 1 ELSE 0]
  /\ filename = 0 /\ next_increment_num = 1 /\ logsize = 0
  /\ q = <<>> /\ totalMemoryUsage = 0 /\ accepted = <<>>
  /\ lk = Nobody
  /\ pending = NoCycle /\ completed = NoReply
  /\ done = 0 /\ got_sighup = 0 /\ hups = 0
  /\ sig = [t \in Threads |-> "none"]
  /\ pc = [t \in Threads |-> IF t = Main THEN "lock" ELSE "idle"]
  /\ le = NoEvent
  /\ job = [t \in Threads |-> [ev |-> NoEvent, reply |-> NoReply]]
  /\ reqs = <<>> /\ cseq = 0 /\ nreqs = 0
  /\ replies = {} /\ status = "running" /\ failed = {}
  /\ nmsgs = 0 /\ faults = 0

ShardStep(s) ==
  \/ ReceiveRequest(s) \/ HandlerLock(s) \/ handler(s) \/ handleCycleRequest(s)
  \/ Notify(s) \/ Reply(s) \/ wakeup(s)

MainStep ==
  \/ MainLock \/ flushWhenReady \/ Split \/ SplitFails \/ WriteMsg \/ WriteFails
  \/ WriteBarrier \/ Cycle \/ CycleFails \/ CycleLock \/ CycleDone
  \/ sendCycleComplete \/ Exit \/ wakeup(Main)

Next ==
  \/ \E s \in Shards : ReceiveMsg(s) \/ ShardStep(s)
  \/ MainStep
  \/ \E t \in Threads : sighandler(t) \/ sighup_handler(t)
  \/ Request

\* The scheduler runs every thread that can run; messages, requests and
\* signals need never come.
Fairness ==
  /\ WF_vars(MainStep)
  /\ \A s \in Shards : WF_vars(ShardStep(s))

Spec == Init /\ [][Next]_vars /\ Fairness

-----------------------------------------------------------------------------
Event == [kind : {"msg", "barrier"}, id : Nat \ {0}]
Frame == [kind : {"none", "busy", "error", "complete"}, seq : Nat, old : Names, new : Names]

MainLocs == {"lock", "locked", "waiting", "stopping", "msg", "barrier", "cycle", "cycled",
             "cycle locked", "complete"}
ShardLocs == {"idle", "lock", "locked", "notify", "reply"}

FileTypes ==
  /\ mode \in Modes /\ logsize \in Nat
  /\ files \in Seq(Seq(Event)) /\ files # <<>>
  /\ names \in [Names -> 0 .. Len(files)] /\ filename \in Names
  /\ next_increment_num \in Nat

QueueTypes ==
  /\ q \in Seq(Event) /\ accepted \in Seq(Event) /\ totalMemoryUsage = Len(q)
  /\ failed \in SUBSET Event

ThreadTypes ==
  /\ pc \in [Threads -> MainLocs \cup ShardLocs]
  /\ pc[Main] \in MainLocs /\ \A s \in Shards : pc[s] \in ShardLocs
  /\ le \in Event \cup {NoEvent}
  /\ job \in [Threads -> [ev : Event \cup {NoEvent}, reply : Frame]]
  /\ lk \in Threads \cup {Nobody}

CycleTypes ==
  /\ pending \in Nat /\ completed \in Frame
  /\ reqs \in Seq(Nat \ {0}) /\ cseq \in Nat /\ replies \in SUBSET Frame

SignalTypes ==
  /\ done \in Nat /\ got_sighup \in {0, 1} /\ sig \in [Threads -> {"none", "int", "hup"}]
  /\ status \in {"running", "exited", "failed"}
  /\ nmsgs \in Nat /\ nreqs \in Nat /\ faults \in Nat /\ hups \in Nat

\* Every variable has the values the code can give it, and the memory in the
\* queue is counted exactly (main.cpp:935 and 961).
TypeOK == FileTypes /\ QueueTypes /\ ThreadTypes /\ CycleTypes /\ SignalTypes

\* The event the main thread has taken and not written yet, and the queue.
Hand == IF pc[Main] \in {"msg", "barrier"} THEN <<le>> ELSE <<>>
Waiting == Hand \o q

\* handler() queued e before f.
Before(e, f) ==
  \E a, b \in 1 .. Len(accepted) : a < b /\ accepted[a] = e /\ accepted[b] = f

\* handler() queued e, and its write has not failed.
Kept(e) == e \notin failed /\ \E a \in 1 .. Len(accepted) : accepted[a] = e

AcceptedOnce ==
  \A a, b \in 1 .. Len(accepted) : accepted[a] = accepted[b] => a = b

FilesInOrder ==
  \A i \in 1 .. Len(files) : \A k \in 1 .. Len(files[i]) :
    /\ Kept(files[i][k])
    /\ \A l \in 1 .. Len(files[i]) : k < l => Before(files[i][k], files[i][l])
    /\ \A j \in 1 .. Len(files) : i < j =>
         \A l \in 1 .. Len(files[j]) : Before(files[i][k], files[j][l])
    /\ \A x \in 1 .. Len(Waiting) : Before(files[i][k], Waiting[x])

WaitingInOrder ==
  \A x \in 1 .. Len(Waiting) :
    /\ Kept(Waiting[x])
    /\ \A y \in 1 .. Len(Waiting) : x < y => Before(Waiting[x], Waiting[y])

NoneLost ==
  \A a \in 1 .. Len(accepted) :
    \/ accepted[a] \in failed
    \/ \E x \in 1 .. Len(Waiting) : Waiting[x] = accepted[a]
    \/ \E i \in 1 .. Len(files) : \E k \in 1 .. Len(files[i]) : files[i][k] = accepted[a]

\* Whatever shards, splits and cycles interleave, the files read one after the
\* other, then the event in hand, then the queue, are the events in the order in
\* which handler() queued them: none twice, none left out but failed writes.
LogOrder == AcceptedOnce /\ FilesInOrder /\ WaitingInOrder /\ NoneLost

\* A barrier is the last event of its file: what was queued before it is in
\* that file or an earlier one, and what came later is in a later one.
BarrierEndsFile ==
  \A i \in 1 .. Len(files) : \A k \in 1 .. Len(files[i]) :
    files[i][k].kind = "barrier" =>
      k = Len(files[i]) /\ (i < Len(files) \/ pc[Main] = "cycle" \/ status # "running")

\* A request that is repeated, however it races the cycle it asks for, is queued
\* once, and so makes one new file (main.cpp:714 to 731).
CycleOnce ==
  \A a, b \in 1 .. Len(accepted) :
    accepted[a].kind = "barrier" /\ accepted[a] = accepted[b] => a = b

\* File i ends with the barrier of cycle n.
Ends(i, n) == /\ i # 0 /\ files[i] # <<>>
              /\ files[i][Len(files[i])] = Barrier(n)

\* What a completion reports.
Told(r) ==
  r.kind = "complete" =>
    Ends(names[r.old], r.seq) /\ names[r.new] = names[r.old] + 1

\* The controller is told that a cycle is complete only when its barrier ends
\* the file reported as old, and the one reported as new was opened next.
\* (With --rotate both are named .0, and the old one has moved on.)
CompletionTrue == mode = "increment" => \A r \in replies : Told(r)

\* Further cycles are refused only while one really is under way: its barrier
\* is queued or being worked on, or its write has failed, after which nothing
\* resets pending_cycle_valid (main.cpp:1004).
PendingHasBarrier ==
  pending # NoCycle =>
    \/ Barrier(pending) \in {le} \cup failed
    \/ \E x \in 1 .. Len(q) : q[x] = Barrier(pending)

\* Rotated names count back from the newest file, and none but the files that
\* fell off the end is missing.
RotationOrder ==
  mode = "rotate" =>
    \A n \in 0 .. rotate - 1 :
      names[n] = IF n < Len(files) THEN Len(files) - n ELSE 0

-----------------------------------------------------------------------------
(* The inductive invariant. *)

\* What the main thread holds is what it is about to write or has written.
HandInv ==
  /\ pc[Main] = "msg" => le.kind = "msg"
  /\ pc[Main] \in {"barrier", "cycle"} => le.kind = "barrier"
  /\ pc[Main] = "cycle" => Ends(Len(files), le.id)

\* The number of the last cycle that was queued.
Latest == IF pending # NoCycle THEN pending ELSE completed.seq

Cycling == {"barrier", "cycle", "cycled", "cycle locked"}

\* The barrier in the queue is that of the pending cycle, which is either there
\* or with the main thread.
PendingInv ==
  /\ \A x, y \in 1 .. Len(q) : q[x].kind = "barrier" /\ q[y].kind = "barrier" => x = y
  /\ \A x \in 1 .. Len(q) :
       q[x].kind = "barrier" => q[x].id = pending /\ pc[Main] \notin Cycling
  /\ pc[Main] \in Cycling => pending # NoCycle
  /\ pc[Main] \in {"barrier", "cycle"} => le.id = pending
  /\ pc[Main] \in {"cycled", "cycle locked"} => job[Main].reply.seq = pending

\* Requests reach the one shard that is subscribed to them in order.
RequestsInv ==
  /\ Latest <= cseq
  /\ \A x \in 1 .. Len(reqs) : Latest <= reqs[x] /\ reqs[x] <= cseq
  /\ \A x, y \in 1 .. Len(reqs) : x < y => reqs[x] <= reqs[y]

Received(s) == pc[s] \in {"lock", "locked"}

\* A message that is received and not queued yet is nobody else's.
NewMsg(s) ==
  /\ job[s].ev.id <= nmsgs
  /\ \A a \in 1 .. Len(accepted) : accepted[a] # job[s].ev
  /\ \A r \in Shards : Received(r) /\ job[r].ev = job[s].ev => r = s

\* A request that is received comes after what was queued and before the others.
InTurn(s) ==
  /\ s = Control /\ Latest <= job[s].ev.id /\ job[s].ev.id <= cseq
  /\ \A x \in 1 .. Len(reqs) : job[s].ev.id <= reqs[x]

JobsInv ==
  \A s \in Shards : Received(s) =>
    /\ job[s].ev \in Event
    /\ job[s].ev.kind = "msg" => NewMsg(s)
    /\ job[s].ev.kind = "barrier" => InTurn(s)

AcceptedInv ==
  /\ \A a \in 1 .. Len(accepted) :
       accepted[a].id <= IF accepted[a].kind = "barrier" THEN Latest ELSE nmsgs
  /\ \A e \in failed : \E a \in 1 .. Len(accepted) : accepted[a] = e

\* Names are used once, and frames that are kept to be sent are true as well.
NamesInv ==
  mode = "increment" =>
    /\ names[filename] = Len(files)
    /\ \A n \in Names : n >= next_increment_num => names[n] = 0
    /\ Told(completed)
    /\ \A t \in Threads : Told(job[t].reply)

LoggerInv ==
  /\ TypeOK /\ HandInv /\ PendingInv /\ RequestsInv /\ JobsInv /\ AcceptedInv
  /\ NamesInv /\ LogOrder /\ BarrierEndsFile /\ CompletionTrue

-----------------------------------------------------------------------------
(* Liveness. *)

\* A signal handler waits for the mutex of the thread it interrupted.
Stuck == \E t \in Threads : sig[t] # "none" /\ lk = t

\* The queue is written out, unless the process is told to stop or dies: no
\* notification is lost between the shards, the signals and the main thread.
QueueDrains ==
  q # <<>> ~> q = <<>> \/ done > 0 \/ status # "running" \/ Stuck

\* SIGINT ends the process, unless its handler interrupted the very thread
\* that held the mutex (main.cpp:1155).
StopsWhenAsked == done > 0 ~> status # "running" \/ Stuck

\* Every request is answered, by its completion or by an error, unless its
\* barrier could not be written (main.cpp:994 sends that error unchecked).
RequestAnswered ==
  cseq > 0 ~> \/ \A n \in 1 .. cseq :
                   Barrier(n) \in failed \/ \E r \in replies : r.seq = n
              \/ done > 0 \/ status # "running" \/ Stuck
=============================================================================
