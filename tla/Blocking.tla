------------------------------ MODULE Blocking ------------------------------
(***************************************************************************)
(* The blocking layer, zcm/blocking.cpp, with the ThreadsafeQueue of       *)
(* zcm/util/threadsafe_queue.hpp: user threads call the API while the send *)
(* thread S, the receive thread R and the handle thread H run.             *)
(*                                                                         *)
(* The layer has two halves that work alike.  On side "send" publish()     *)
(* fills the queue and S drains it into the transport; on side "recv" R    *)
(* fills it from the transport and H drains it into the callbacks.         *)
(*                                                                         *)
(* A critical section that touches only what its mutex protects is one     *)
(* step.  The wait on a pause condition is two, evaluate and sleep, since  *)
(* flush() and setQueueSize() change and notify without the state mutex.   *)
(* top() and push() are steps with the awaited condition as guard: every   *)
(* change that makes it true is made under the queue's mutex and notified. *)
(***************************************************************************)
EXTENDS Integers, Sequences

CONSTANTS
  Users,      \* the threads that call the API
  Programs,   \* what the users do: the calls each makes and how many
  QueueSize,  \* QUEUE_SIZE, the capacity both queues start with
  NewSize,    \* the capacity set_queue_size asks for
  MaxRecv     \* how many messages the transport delivers

CallNames == {"publish", "flush", "try_flush", "set_size", "try_set_size",
              "pause", "resume", "start", "run", "stop", "try_stop",
              "handle", "handle_nonblock"}
Threads == {"S", "R", "H"}
Sides == {"send", "recv"}
Procs == Users \cup Threads
none == "none"

ASSUME BlockingAssumption ==
  /\ Users \cap (Threads \cup {none}) = {}
  /\ \A f \in Programs :
       /\ DOMAIN f = Users
       /\ \A u \in Users : f[u].calls \subseteq CallNames /\ f[u].budget \in Nat
  /\ QueueSize \in Nat \ {0}
  /\ NewSize \in Nat /\ NewSize >= QueueSize   \* less: see RingQueue
  /\ MaxRecv \in Nat

VARIABLES
  program,    \* the member of Programs that is run
  recvMode,   \* RECV_MODE_...
  modeLock,   \* who holds recvModeMutex from one step to the next
  state,      \* sendThreadState, recvThreadState and hndlThreadState
  paused,
  q,          \* q[s]: the messages in sendQueue and recvQueue
  capacity,   \* capacity[s]: the queue's capacity
  disabled,   \* disabled[s]: the queue's disabled flag
  one,        \* one[s]: who holds sendOneMutex and dispOneMutex
  joinable,   \* joinable[t]: the std::thread of t has a thread to join
  died,       \* std::terminate() was called
  pc,         \* pc[p]: where p is
  at,         \* at[p]: the side p works on
  call,       \* call[u]: the call u is in
  ret,        \* ret[u]: what u's latest call returned
  left,       \* left[u]: messages the loop in flush() still handles
  budget,     \* budget[u]: calls u may still make
  taken,      \* taken[s]: how many messages the queue has accepted
  out,        \* out[s]: the messages sent or dispatched, in order
  lost,       \* how many received messages push() gave up
  goal,       \* goal[u][s]: taken[s] when u called flush()
  begun       \* begun[s]: 1 if a message was in use at pause(), less those used since

queues  == <<q, capacity, disabled>>
threads == <<recvMode, modeLock, state, joinable, died>>
client  == <<program, budget, goal>>
locals  == <<at, call, ret, left, client>>
history == <<taken, out, lost, begun>>

vars == <<queues, threads, paused, one, pc, locals, history>>

-----------------------------------------------------------------------------
Worker(s) == IF s = "send" THEN "S" ELSE "H"

\* The flag that tells the worker of side s to stop.
StateOf(s) == IF s = "send" THEN "send" ELSE "hndl"

\* A worker that found its condition false holds the state mutex until it
\* sleeps; every other use of that mutex is a single step.
StateFree(s) == \A p \in Procs : ~(at[p] = s /\ pc[p] = "w_sleepy")

\* notify_all() on the pause condition of side s, in the locations f.
WakePaused(f, s) ==
  [p \in Procs |-> IF at[p] = s /\ f[p] = "w_asleep" THEN "w_check" ELSE f[p]]

hasFreeSpace(s) == Len(q[s]) < capacity[s] - 1

IsTry(u) == call[u] \in {"try_flush", "try_set_size", "try_stop"}
IsFlush(u) == call[u] \in {"flush", "try_flush"}

\* S, H, and a user in run(): they drain a queue until told to stop.
IsWorker(p) == p \in Threads \/ call[p] = "run"

\* returnIfPaused: everybody but flush().
HeedsPause(p) == IsWorker(p) \/ ~IsFlush(p)

\* Assigning to a std::thread that is joinable ends the program.
Spawn(t, f, l) ==
  /\ died' = (died \/ joinable[t])
  /\ joinable' = [joinable EXCEPT ![t] = TRUE]
  /\ pc' = [f EXCEPT ![t] = l]

\* join() of thread t: waits for its function to end, and ends the program
\* when there is no thread.
Join(t) ==
  /\ pc[t] = "off"
  /\ died' = (died \/ ~joinable[t])
  /\ joinable' = [joinable EXCEPT ![t] = FALSE]

\* User u's call returns code c; f is where everybody else is.
Return(u, f, c) ==
  /\ pc' = [f EXCEPT ![u] = "idle"]
  /\ call' = [call EXCEPT ![u] = none]
  /\ ret' = [ret EXCEPT ![u] = c]

Init ==
  /\ recvMode = "none" /\ modeLock = none
  /\ state = [x \in {"send", "recv", "hndl"} |-> "stopped"]
  /\ paused = FALSE
  /\ q = [s \in Sides |-> <<>>]
  /\ capacity = [s \in Sides |-> QueueSize]
  /\ disabled = [s \in Sides |-> FALSE]
  /\ one = [s \in Sides |-> none]
  /\ joinable = [t \in Threads |-> FALSE] /\ died = FALSE
  /\ pc = [p \in Procs |-> IF p \in Users THEN "idle" ELSE "off"]
  /\ at = [p \in Procs |-> IF p = "S" THEN "send" ELSE "recv"]
  /\ call = [u \in Users |-> none]
  /\ ret = [u \in Users |-> none]
  /\ left = [u \in Users |-> 0]
  /\ program \in Programs
  /\ budget = [u \in Users |-> program[u].budget]
  /\ goal = [u \in Users |-> [s \in Sides |-> 0]]
  /\ taken = [s \in Sides |-> 0]
  /\ out = [s \in Sides |-> <<>>]
  /\ lost = 0
  /\ begun = [s \in Sides |-> 0]

-----------------------------------------------------------------------------
\* A user calls the API.
Begin(u, c) ==
  /\ pc[u] = "idle"
  /\ c \in program[u].calls
  /\ budget[u] > 0
  /\ budget' = [budget EXCEPT ![u] = @ - 1]
  /\ call' = [call EXCEPT ![u] = c]
  /\ ret' = [ret EXCEPT ![u] = none]
  /\ at' = [at EXCEPT ![u] =
              IF c \in {"publish", "flush", "try_flush", "set_size", "try_set_size"}
              THEN "send" ELSE "recv"]
  /\ pc' = [pc EXCEPT ![u] =
              CASE c \in {"flush", "try_flush", "set_size", "try_set_size"} -> "f_disable"
                [] c \in {"stop", "try_stop"} -> "stop"
                [] c \in {"handle", "handle_nonblock"} -> "handle"
                [] OTHER -> c]
  /\ goal' = [goal EXCEPT ![u] = IF c \in {"flush", "try_flush"} THEN taken ELSE @]
  /\ UNCHANGED <<queues, threads, paused, one, left, program, history>>

-----------------------------------------------------------------------------
(* publish() *)

\* The send thread is started by the first publish(), and again after a stop.
PubSpawn(u) ==
  /\ pc[u] = "publish"
  /\ StateFree("send")
  /\ IF state["send"] = "stopped"
       THEN /\ state' = [state EXCEPT !["send"] = "running"]
            /\ Spawn("S", [pc EXCEPT ![u] = "p_push"], "w_check")
       ELSE /\ pc' = [pc EXCEPT ![u] = "p_push"]
            /\ UNCHANGED <<state, joinable, died>>
  /\ UNCHANGED <<queues, recvMode, modeLock, paused, one, locals, history>>

\* pushIfRoom()
PushIfRoom(u) ==
  /\ pc[u] = "p_push"
  /\ IF hasFreeSpace("send")
       THEN /\ taken' = [taken EXCEPT !["send"] = @ + 1]
            /\ q' = [q EXCEPT !["send"] = Append(@, taken'["send"])]
            /\ Return(u, pc, "ok")
       ELSE /\ Return(u, pc, "again")
            /\ UNCHANGED <<taken, q>>
  /\ UNCHANGED <<capacity, disabled, threads, paused, one, at, left, client,
                 out, lost, begun>>

-----------------------------------------------------------------------------
(* sendThreadFunc() and the loop of hndlThreadFunc() *)

\* Evaluates the condition of the wait on the pause condition variable.
WCheck(p) ==
  LET s == at[p] IN
  /\ pc[p] = "w_check"
  /\ StateFree(s)
  /\ pc' = [pc EXCEPT ![p] =
              IF state[StateOf(s)] = "halting" THEN "w_exit"
              ELSE IF ~paused /\ ~disabled[s] THEN "w_lock"
              ELSE "w_sleepy"]
  /\ UNCHANGED <<queues, threads, paused, one, locals, history>>

WSleep(p) ==
  /\ pc[p] = "w_sleepy"
  /\ pc' = [pc EXCEPT ![p] = "w_asleep"]
  /\ UNCHANGED <<queues, threads, paused, one, locals, history>>

\* A condition variable may wake up on its own, or by a notification that was
\* sent late.
WakeUp(p) ==
  /\ pc[p] = "w_asleep"
  /\ pc' = [pc EXCEPT ![p] = "w_check"]
  /\ UNCHANGED <<queues, threads, paused, one, locals, history>>

WLock(p) ==
  /\ pc[p] = "w_lock"
  /\ one[at[p]] = none
  /\ one' = [one EXCEPT ![at[p]] = p]
  /\ pc' = [pc EXCEPT ![p] = "o_top"]
  /\ UNCHANGED <<queues, threads, paused, locals, history>>

-----------------------------------------------------------------------------
(* sendOneMessage() and dispatchOneMessage(), called with the side's mutex *)

\* The return to the caller: a worker unlocks and loops, flush() counts, and
\* handle() unlocks and returns.
OneDone(p, ok) ==
  IF IsWorker(p)
    THEN /\ pc' = [pc EXCEPT ![p] = "w_check"]
         /\ one' = [one EXCEPT ![at[p]] = none]
         /\ UNCHANGED <<call, ret, left>>
  ELSE IF IsFlush(p)
    THEN /\ left' = [left EXCEPT ![p] = @ - 1]
         /\ pc' = [pc EXCEPT ![p] = IF left[p] = 1 THEN "f_unlock" ELSE "o_top"]
         /\ UNCHANGED <<one, call, ret>>
  ELSE   /\ Return(p, pc, IF ok THEN "ok" ELSE "again")
         /\ one' = [one EXCEPT ![at[p]] = none]
         /\ UNCHANGED left

\* top() waits for a message, or gives up when the queue is disabled.
OTop(p) ==
  LET s == at[p] IN
  /\ pc[p] = "o_top"
  /\ disabled[s] \/ q[s] # <<>>
  /\ IF disabled[s]
       THEN OneDone(p, FALSE)
       ELSE /\ pc' = [pc EXCEPT ![p] =
                        IF HeedsPause(p) THEN "o_check" ELSE "o_use"]
            /\ UNCHANGED <<one, call, ret, left>>
  /\ UNCHANGED <<queues, threads, paused, at, client, history>>

\* Mutant: the running condition is not checked again.
OCheck_Skip(p) ==
  /\ pc[p] = "o_check"
  /\ pc' = [pc EXCEPT ![p] = "o_use"]
  /\ UNCHANGED <<queues, threads, paused, one, locals, history>>

\* returnIfPaused
OCheck(p) ==
  LET s == at[p] IN
  /\ pc[p] = "o_check"
  /\ StateFree(s)
  /\ IF paused \/ state[StateOf(s)] = "halting"
       THEN OneDone(p, FALSE)
       ELSE /\ pc' = [pc EXCEPT ![p] = "o_use"]
            /\ UNCHANGED <<one, call, ret, left>>
  /\ UNCHANGED <<queues, threads, paused, at, client, history>>

\* The message goes to the transport, or to the callbacks.
OUse(p) ==
  LET s == at[p] IN
  /\ pc[p] = "o_use"
  /\ out' = [out EXCEPT ![s] = Append(@, Head(q[s]))]
  /\ begun' = IF paused /\ HeedsPause(p) THEN [begun EXCEPT ![s] = @ - 1] ELSE begun
  /\ pc' = [pc EXCEPT ![p] = "o_pop"]
  /\ UNCHANGED <<queues, threads, paused, one, locals, taken, lost>>

OPop(p) ==
  /\ pc[p] = "o_pop"
  /\ q' = [q EXCEPT ![at[p]] = Tail(@)]
  /\ OneDone(p, TRUE)
  /\ UNCHANGED <<capacity, disabled, threads, paused, at, client, history>>

-----------------------------------------------------------------------------
(* flush() and setQueueSize(): the send side, then the receive side *)

\* On to the other side, or the return; f is where everybody else is.
NextSide(u, f) ==
  IF at[u] = "send"
    THEN /\ at' = [at EXCEPT ![u] = "recv"]
         /\ pc' = [f EXCEPT ![u] = "f_disable"]
         /\ UNCHANGED <<call, ret>>
    ELSE Return(u, f, "ok") /\ UNCHANGED at

\* setQueueSize() has nothing to do when the capacity is right already.
FDisable(u) ==
  LET s == at[u] IN
  /\ pc[u] = "f_disable"
  /\ IF ~IsFlush(u) /\ capacity[s] = NewSize
       THEN NextSide(u, pc) /\ UNCHANGED disabled
       ELSE /\ disabled' = [disabled EXCEPT ![s] = TRUE]
            /\ pc' = [pc EXCEPT ![u] = "f_lock"]
            /\ UNCHANGED <<at, call, ret>>
  /\ UNCHANGED <<q, capacity, threads, paused, one, left, client, history>>

\* Mutant: flush() drains the queue without the mutex.
FLock_Free(u) ==
  /\ pc[u] = "f_lock"
  /\ pc' = [pc EXCEPT ![u] = IF IsFlush(u) THEN "f_enable" ELSE "q_resize"]
  /\ one' = one
  /\ UNCHANGED <<queues, threads, paused, locals, history>>

FLock(u) ==
  LET s == at[u] IN
  /\ pc[u] = "f_lock"
  /\ one[s] = none
  /\ one' = [one EXCEPT ![s] = u]
  /\ pc' = [pc EXCEPT ![u] = IF IsFlush(u) THEN "f_enable" ELSE "q_resize"]
  /\ UNCHANGED <<queues, threads, paused, locals, history>>

\* try_lock() failed: the queue is enabled again, and only flush() notifies.
FBack(u) ==
  LET s == at[u] IN
  /\ pc[u] = "f_lock" /\ IsTry(u)
  /\ one[s] # none
  /\ disabled' = [disabled EXCEPT ![s] = FALSE]
  /\ Return(u, IF IsFlush(u) THEN WakePaused(pc, s) ELSE pc, "again")
  /\ UNCHANGED <<q, capacity, threads, paused, one, at, left, client, history>>

\* Mutant: the newest message is not counted.
FEnable_Short(u) ==
  LET s == at[u] IN
  /\ pc[u] = "f_enable"
  /\ disabled' = [disabled EXCEPT ![s] = FALSE]
  /\ left' = [left EXCEPT ![u] = IF q[s] = <<>> THEN 0 ELSE Len(q[s]) - 1]
  /\ pc' = [pc EXCEPT ![u] = IF Len(q[s]) < 2 THEN "f_unlock" ELSE "o_top"]
  /\ UNCHANGED <<q, capacity, threads, paused, one, at, call, ret, client, history>>

\* enable() and numMessages()
FEnable(u) ==
  LET s == at[u] IN
  /\ pc[u] = "f_enable"
  /\ disabled' = [disabled EXCEPT ![s] = FALSE]
  /\ left' = [left EXCEPT ![u] = Len(q[s])]
  /\ pc' = [pc EXCEPT ![u] = IF q[s] = <<>> THEN "f_unlock" ELSE "o_top"]
  /\ UNCHANGED <<q, capacity, threads, paused, one, at, call, ret, client, history>>

FUnlock(u) ==
  LET s == at[u] IN
  /\ pc[u] = "f_unlock"
  /\ one' = [one EXCEPT ![s] = none]
  /\ NextSide(u, WakePaused(pc, s))
  /\ UNCHANGED <<queues, threads, paused, left, client, history>>

\* setCapacity(), enable() and the unlock; nobody is notified.
QResize(u) ==
  LET s == at[u] IN
  /\ pc[u] = "q_resize"
  /\ capacity' = [capacity EXCEPT ![s] = NewSize]
  /\ disabled' = [disabled EXCEPT ![s] = FALSE]
  /\ one' = [one EXCEPT ![s] = none]
  /\ NextSide(u, pc)
  /\ UNCHANGED <<q, threads, paused, left, client, history>>

-----------------------------------------------------------------------------
(* pause() and resume() *)

Pause(u) ==
  /\ pc[u] = "pause"
  /\ StateFree("send") /\ StateFree("recv")
  /\ paused' = TRUE
  /\ begun' = [s \in Sides |->
       IF \E p \in Procs : at[p] = s /\ pc[p] = "o_use" /\ HeedsPause(p) THEN 1 ELSE 0]
  /\ Return(u, pc, "ok")
  /\ UNCHANGED <<queues, threads, one, at, left, client, taken, out, lost>>

\* Mutant: the send thread is not notified.
Resume_Quiet(u) ==
  /\ pc[u] = "resume"
  /\ StateFree("send") /\ StateFree("recv")
  /\ paused' = FALSE
  /\ Return(u, WakePaused(pc, "recv"), "ok")
  /\ UNCHANGED <<queues, threads, one, at, left, client, history>>

Resume(u) ==
  /\ pc[u] = "resume"
  /\ StateFree("send") /\ StateFree("recv")
  /\ paused' = FALSE
  /\ Return(u, WakePaused(WakePaused(pc, "send"), "recv"), "ok")
  /\ UNCHANGED <<queues, threads, one, at, left, client, history>>

-----------------------------------------------------------------------------
(* start(), run() and the rest of hndlThreadFunc() *)

\* start() spawns the handle thread, run() becomes it.
StartOrRun(u) ==
  /\ pc[u] \in {"start", "run"}
  /\ modeLock = none
  /\ recvMode = "none" => StateFree("recv")
  /\ IF recvMode # "none"
       THEN /\ Return(u, pc, "ok")
            /\ UNCHANGED <<recvMode, state, disabled, joinable, died>>
       ELSE /\ state' = [state EXCEPT !["hndl"] = "running"]
            /\ disabled' = [disabled EXCEPT !["recv"] = FALSE]
            /\ \/ /\ pc[u] = "start"
                  /\ recvMode' = "spawn"
                  /\ Spawn("H", [pc EXCEPT ![u] = "idle"], "h_spawn")
                  /\ call' = [call EXCEPT ![u] = none]
                  /\ ret' = [ret EXCEPT ![u] = "ok"]
               \/ /\ pc[u] = "run"
                  /\ recvMode' = "run"
                  /\ pc' = [pc EXCEPT ![u] = "h_spawn"]
                  /\ UNCHANGED <<joinable, died, call, ret>>
  /\ UNCHANGED <<q, capacity, modeLock, paused, one, at, left, client, history>>

HSpawn(p) ==
  /\ pc[p] = "h_spawn"
  /\ state' = [state EXCEPT !["recv"] = "running"]
  /\ Spawn("R", [pc EXCEPT ![p] = "w_check"], "r_check")
  /\ UNCHANGED <<queues, recvMode, modeLock, paused, one, locals, history>>

\* The end of sendThreadFunc().
SHalted ==
  /\ pc["S"] = "w_exit"
  /\ StateFree("send")
  /\ state' = [state EXCEPT !["send"] = "halted"]
  /\ pc' = [pc EXCEPT !["S"] = "off"]
  /\ UNCHANGED <<queues, recvMode, modeLock, joinable, died, paused, one, locals, history>>

\* The receive thread is told to stop,
HHalt(p) ==
  /\ pc[p] = "w_exit" /\ at[p] = "recv"
  /\ state' = [state EXCEPT !["recv"] = "halting"]
  /\ disabled' = [disabled EXCEPT !["recv"] = TRUE]
  /\ pc' = [pc EXCEPT ![p] = "h_join"]
  /\ UNCHANGED <<q, capacity, recvMode, modeLock, joinable, died, paused, one,
                 locals, history>>

\* joined,
HJoin(p) ==
  /\ pc[p] = "h_join"
  /\ Join("R")
  /\ pc' = [pc EXCEPT ![p] = "h_halted"]
  /\ UNCHANGED <<queues, recvMode, modeLock, state, paused, one, locals, history>>

\* and the handle thread ends.
HHalted(p) ==
  /\ pc[p] = "h_halted"
  /\ StateFree("recv")
  /\ state' = [state EXCEPT !["hndl"] = "halted"]
  /\ pc' = [pc EXCEPT ![p] = IF p = "H" THEN "off" ELSE "run_end"]
  /\ UNCHANGED <<queues, recvMode, modeLock, joinable, died, paused, one, locals, history>>

RunEnd(u) ==
  /\ pc[u] = "run_end"
  /\ modeLock = none
  /\ recvMode' = "none"
  /\ Return(u, pc, "ok")
  /\ UNCHANGED <<queues, modeLock, state, joinable, died, paused, one, at, left,
                 client, history>>

-----------------------------------------------------------------------------
(* recvThreadFunc() *)

RCheck ==
  /\ pc["R"] = "r_check"
  /\ pc' = [pc EXCEPT !["R"] = IF state["recv"] = "halting" THEN "r_exit" ELSE "r_recv"]
  /\ UNCHANGED <<queues, threads, paused, one, locals, history>>

\* The transport delivers a message, or times out; a message nobody
\* subscribed to is the same as none.
RRecv ==
  /\ pc["R"] = "r_recv"
  /\ \/ /\ taken["recv"] + lost < MaxRecv
        /\ pc' = [pc EXCEPT !["R"] = "r_push"]
     \/ pc' = [pc EXCEPT !["R"] = "r_check"]
  /\ UNCHANGED <<queues, threads, paused, one, locals, history>>

\* push() waits for room, or gives up when the queue is disabled.
RPush ==
  /\ pc["R"] = "r_push"
  /\ disabled["recv"] \/ hasFreeSpace("recv")
  /\ IF hasFreeSpace("recv")
       THEN /\ taken' = [taken EXCEPT !["recv"] = @ + 1]
            /\ q' = [q EXCEPT !["recv"] = Append(@, taken'["recv"])]
            /\ UNCHANGED lost
       ELSE lost' = lost + 1 /\ UNCHANGED <<taken, q>>
  /\ pc' = [pc EXCEPT !["R"] = "r_check"]
  /\ UNCHANGED <<capacity, disabled, threads, paused, one, locals, out, begun>>

RHalted ==
  /\ pc["R"] = "r_exit"
  /\ state' = [state EXCEPT !["recv"] = "halted"]
  /\ pc' = [pc EXCEPT !["R"] = "off"]
  /\ UNCHANGED <<queues, recvMode, modeLock, joinable, died, paused, one, locals, history>>

-----------------------------------------------------------------------------
(* stop() *)

\* The state flag and the thread stop() deals with on the receive side.
StopState == IF recvMode = "handle" THEN "recv" ELSE "hndl"
StopThread == IF recvMode = "handle" THEN "R" ELSE "H"

\* Mutant: the handle thread is told to stop but not woken.
Stop_Quiet(u) ==
  /\ pc[u] = "stop"
  /\ modeLock = none
  /\ modeLock' = u
  /\ recvMode \in {"run", "spawn"} => StateFree("recv")
  /\ state' = [state EXCEPT ![StopState] =
                 IF recvMode # "none" /\ @ = "running" THEN "halting" ELSE @]
  /\ pc' = [pc EXCEPT ![u] = IF state' # state /\ ~IsTry(u) /\ recvMode # "run"
                               THEN "s_join" ELSE "s_send"]
  /\ UNCHANGED <<queues, recvMode, joinable, died, paused, one, locals, history>>

\* Shutdown recv and hndl threads.  recvModeMutex is held to the end.
Stop(u) ==
  /\ pc[u] = "stop"
  /\ modeLock = none
  /\ modeLock' = u
  /\ recvMode \in {"run", "spawn"} => StateFree("recv")
  /\ IF recvMode # "none" /\ state[StopState] = "running"
       THEN /\ state' = [state EXCEPT ![StopState] = "halting"]
            /\ disabled' = [disabled EXCEPT !["recv"] = TRUE]
            /\ pc' = [IF recvMode = "handle" THEN pc ELSE WakePaused(pc, "recv")
                        EXCEPT ![u] = IF ~IsTry(u) /\ recvMode # "run"
                                        THEN "s_join" ELSE "s_send"]
       ELSE /\ pc' = [pc EXCEPT ![u] = "s_send"]
            /\ UNCHANGED <<state, disabled>>
  /\ UNCHANGED <<q, capacity, recvMode, joinable, died, paused, one, locals, history>>

\* Mutant: the thread is told to stop and not joined.
StopJoin_Not(u) ==
  /\ pc[u] = "s_join"
  /\ pc[StopThread] = "off"
  /\ state' = [state EXCEPT ![StopState] = "stopped"]
  /\ pc' = [pc EXCEPT ![u] = "s_send"]
  /\ UNCHANGED <<queues, recvMode, modeLock, joinable, died, paused, one, locals, history>>

StopJoin(u) ==
  /\ pc[u] = "s_join"
  /\ Join(StopThread)
  /\ StopState = "hndl" => StateFree("recv")
  /\ state' = [state EXCEPT ![StopState] = "stopped"]
  /\ pc' = [pc EXCEPT ![u] = "s_send"]
  /\ UNCHANGED <<queues, recvMode, modeLock, paused, one, locals, history>>

\* Mutant: the send queue is not disabled.
StopSend_Enabled(u) ==
  /\ pc[u] = "s_send"
  /\ StateFree("send")
  /\ IF state["send"] = "running"
       THEN /\ state' = [state EXCEPT !["send"] = "halting"]
            /\ pc' = [WakePaused(pc, "send")
                        EXCEPT ![u] = IF IsTry(u) THEN "s_try" ELSE "s_joinsend"]
       ELSE /\ pc' = [pc EXCEPT ![u] = IF IsTry(u) THEN "s_try" ELSE "s_end"]
            /\ UNCHANGED state
  /\ UNCHANGED <<queues, recvMode, modeLock, joinable, died, paused, one, locals, history>>

\* Shutdown send thread
StopSend(u) ==
  /\ pc[u] = "s_send"
  /\ StateFree("send")
  /\ IF state["send"] = "running"
       THEN /\ state' = [state EXCEPT !["send"] = "halting"]
            /\ disabled' = [disabled EXCEPT !["send"] = TRUE]
            /\ pc' = [WakePaused(pc, "send")
                        EXCEPT ![u] = IF IsTry(u) THEN "s_try" ELSE "s_joinsend"]
       ELSE /\ pc' = [pc EXCEPT ![u] = IF IsTry(u) THEN "s_try" ELSE "s_end"]
            /\ UNCHANGED <<state, disabled>>
  /\ UNCHANGED <<q, capacity, recvMode, modeLock, joinable, died, paused, one,
                 locals, history>>

StopJoinSend(u) ==
  /\ pc[u] = "s_joinsend"
  /\ Join("S")
  /\ StateFree("send")
  /\ state' = [state EXCEPT !["send"] = "stopped"]
  /\ pc' = [pc EXCEPT ![u] = "s_end"]
  /\ UNCHANGED <<queues, recvMode, modeLock, paused, one, locals, history>>

\* try_stop() looks at the state x of thread t, which is on side s, and goes
\* on to location l unless the thread is still on its way out.
TryJoin(u, x, t, l) ==
  \/ /\ state[x] = "halting"
     /\ Return(u, pc, "again")
     /\ modeLock' = none
     /\ UNCHANGED <<state, joinable, died>>
  \/ /\ state[x] = "halted"
     /\ Join(t)
     /\ state' = [state EXCEPT ![x] = "stopped"]
     /\ pc' = [pc EXCEPT ![u] = l]
     /\ UNCHANGED <<modeLock, call, ret>>
  \/ /\ state[x] \notin {"halting", "halted"}
     /\ pc' = [pc EXCEPT ![u] = l]
     /\ UNCHANGED <<modeLock, state, joinable, died, call, ret>>

StopTry(u) ==
  /\ pc[u] = "s_try"
  /\ IF recvMode \in {"spawn", "handle"}
       THEN /\ recvMode = "spawn" => StateFree("recv")
            /\ TryJoin(u, StopState, StopThread, "s_trysend")
       ELSE /\ pc' = [pc EXCEPT ![u] = "s_trysend"]
            /\ UNCHANGED <<modeLock, state, joinable, died, call, ret>>
  /\ UNCHANGED <<queues, recvMode, paused, one, at, left, client, history>>

StopTrySend(u) ==
  /\ pc[u] = "s_trysend"
  /\ StateFree("send")
  /\ TryJoin(u, "send", "S", "s_end")
  /\ UNCHANGED <<queues, recvMode, paused, one, at, left, client, history>>

\* Restore the "non-running" state.
StopEnd(u) ==
  /\ pc[u] = "s_end"
  /\ recvMode' = "none"
  /\ modeLock' = none
  /\ Return(u, pc, "ok")
  /\ UNCHANGED <<queues, state, joinable, died, paused, one, at, left, client, history>>

-----------------------------------------------------------------------------
(* handle() and handle_nonblock() *)

\* startRecvThread()
Handle(u) ==
  /\ pc[u] = "handle"
  /\ modeLock = none
  /\ \/ /\ recvMode \in {"run", "spawn"}
        /\ Return(u, pc, "invalid")
        /\ UNCHANGED <<recvMode, state, disabled, joinable, died>>
     \/ /\ recvMode = "handle"
        /\ pc' = [pc EXCEPT ![u] = "h_lock"]
        /\ UNCHANGED <<recvMode, state, disabled, joinable, died, call, ret>>
     \/ /\ recvMode = "none"
        /\ recvMode' = "handle"
        /\ state' = [state EXCEPT !["recv"] = "running"]
        /\ disabled' = [disabled EXCEPT !["recv"] = FALSE]
        /\ Spawn("R", [pc EXCEPT ![u] = "h_lock"], "r_check")
        /\ UNCHANGED <<call, ret>>
  /\ UNCHANGED <<q, capacity, modeLock, paused, one, at, left, client, history>>

HandleLock(u) ==
  LET s == at[u] IN
  /\ pc[u] = "h_lock"
  /\ one[s] = none
  /\ IF call[u] = "handle_nonblock" /\ q[s] = <<>>
       THEN Return(u, pc, "again") /\ UNCHANGED one
       ELSE /\ one' = [one EXCEPT ![s] = u]
            /\ pc' = [pc EXCEPT ![u] = "o_top"]
            /\ UNCHANGED <<call, ret>>
  /\ UNCHANGED <<queues, threads, paused, at, left, client, history>>

-----------------------------------------------------------------------------
\* The steps of any thread that works on a queue.
WorkStep(p) ==
  \/ WCheck(p) \/ WSleep(p) \/ WLock(p)
  \/ OTop(p) \/ OCheck(p) \/ OUse(p) \/ OPop(p)
  \/ HSpawn(p) \/ HHalt(p) \/ HJoin(p) \/ HHalted(p)

\* The steps of a call in progress.
CallStep(u) ==
  \/ PubSpawn(u) \/ PushIfRoom(u)
  \/ FDisable(u) \/ FLock(u) \/ FBack(u) \/ FEnable(u) \/ FUnlock(u) \/ QResize(u)
  \/ Pause(u) \/ Resume(u)
  \/ StartOrRun(u) \/ RunEnd(u)
  \/ Stop(u) \/ StopJoin(u) \/ StopSend(u) \/ StopJoinSend(u)
  \/ StopTry(u) \/ StopTrySend(u) \/ StopEnd(u)
  \/ Handle(u) \/ HandleLock(u)

RecvStep == RCheck \/ RRecv \/ RPush \/ RHalted

\* Nothing happens once the program has been terminated.
Alive == ~died

Next ==
  \/ \E u \in Users, c \in CallNames : Alive /\ Begin(u, c)
  \/ \E u \in Users : Alive /\ CallStep(u)
  \/ \E p \in Procs : Alive /\ WorkStep(p)
  \/ \E p \in Procs : Alive /\ WakeUp(p)
  \/ Alive /\ SHalted
  \/ Alive /\ RecvStep

Spec == Init /\ [][Next]_vars

\* The operating system lets every thread run that can.  Nobody has to make
\* a call; condition variables do not wake up on their own for ever.
Fairness ==
  /\ <>[][\A p \in Procs : ~WakeUp(p)]_vars
  /\ \A u \in Users : WF_vars(Alive /\ CallStep(u))
  /\ \A p \in Procs : WF_vars(Alive /\ WorkStep(p))
  /\ WF_vars(Alive /\ SHalted)
  /\ WF_vars(Alive /\ RecvStep)

LiveSpec == Spec /\ Fairness

-----------------------------------------------------------------------------
Locations ==
  {"idle", "off", "publish", "p_push", "pause", "resume", "start", "run", "run_end",
   "stop", "s_join", "s_send", "s_joinsend", "s_try", "s_trysend", "s_end",
   "handle", "h_lock", "h_spawn", "h_join", "h_halted",
   "f_disable", "f_lock", "f_enable", "f_unlock", "q_resize",
   "w_check", "w_sleepy", "w_asleep", "w_lock", "w_exit",
   "o_top", "o_check", "o_use", "o_pop", "r_check", "r_recv", "r_push", "r_exit"}

\* Every variable has the values the code can give it, and no queue is over-full.
TypeOK ==
  /\ recvMode \in {"none", "run", "spawn", "handle"}
  /\ modeLock \in Users \cup {none}
  /\ state \in [{"send", "recv", "hndl"} -> {"stopped", "running", "halting", "halted"}]
  /\ paused \in BOOLEAN /\ died \in BOOLEAN
  /\ \A s \in Sides : Len(q[s]) < capacity[s]
  /\ capacity \in [Sides -> {QueueSize, NewSize}]
  /\ disabled \in [Sides -> BOOLEAN]
  /\ one \in [Sides -> Procs \cup {none}]
  /\ joinable \in [Threads -> BOOLEAN]
  /\ pc \in [Procs -> Locations]
  /\ at \in [Procs -> Sides]
  /\ call \in [Users -> CallNames \cup {none}]
  /\ ret \in [Users -> {none, "ok", "again", "invalid"}]
  /\ left \in [Users -> Nat] /\ budget \in [Users -> Nat]

\* What is in the queue and was not sent or dispatched yet: the head is only
\* removed after its use, by the one that holds the side's mutex.
Pending(s) ==
  IF \E p \in Procs : at[p] = s /\ pc[p] = "o_pop" THEN Tail(q[s]) ELSE q[s]

\* Every message publish() accepted or R queued is sent or dispatched at most
\* once and in order, and stays queued until it is: whichever of the worker,
\* flush() and handle() drains the queue, and whatever is paused, resized or
\* stopped meanwhile.
FifoDelivery ==
  \A s \in Sides : out[s] \o Pending(s) = [i \in 1..taken[s] |-> i]

\* After pause() returned, the send and handle threads and handle() let no
\* message through but the one they had already begun to send or dispatch: not
\* even one that arrives while they wait for it.
PauseHolds == paused => \A s \in Sides : begun[s] >= 0

\* No std::thread is overwritten while it has a thread, and none is joined
\* that has not: either calls std::terminate().
NoTerminate == ~died

\* flush() returns only after everything published and received before the
\* call was sent and dispatched.
FlushSendsAll ==
  [][\A u \in Users :
       /\ call[u] \in {"flush", "try_flush"}
       /\ call'[u] = none /\ ret'[u] = "ok"
       => \A s \in Sides : Len(out[s]) >= goal[u][s]]_vars

\* What was published is sent, unless publishing is paused.
PublishedIsSent ==
  \A i \in 1..2 :
    taken["send"] >= i ~> (Len(out["send"]) >= i \/ paused)

\* The calls that disable the send queue.
Disabling == {"flush", "try_flush", "set_size", "try_set_size", "stop", "try_stop"}

\* In a program that never disables the send queue, what was published is sent
\* unless publishing is paused: publish() starts the send thread, resume()
\* wakes it up, and a message that arrives while it is paused waits for it.
SentUnlessDisabled ==
  \A i \in 1..2 :
    /\ \A u \in Users : program[u].calls \cap Disabling = {}
    /\ taken["send"] >= i
    ~> (Len(out["send"]) >= i \/ paused)

\* Every call but run() and handle(), which wait for something, returns.
CallsReturn ==
  \A u \in Users :
    call[u] \notin {none, "run", "handle"} ~> call[u] = none

\* run() returns once stop() was called.
RunReturns ==
  \A u \in Users :
    (call[u] = "run" /\ state["hndl"] = "halting") ~> call[u] # "run"

-----------------------------------------------------------------------------
(* The inductive invariant of the queues, for every program. *)

\* Where the side's mutex is held.
Holding == {"o_top", "o_check", "o_use", "o_pop", "f_enable", "f_unlock", "q_resize"}

Mutex == \A p \in Procs : pc[p] \in Holding => one[at[p]] = p

\* A thread that is not joinable has no function to run.
NotStarted == \A t \in Threads : ~joinable[t] => pc[t] = "off"

\* Who has looked at the head of a queue relies on it to stay.
HeadStays ==
  \A p \in Procs : pc[p] \in {"o_check", "o_use", "o_pop"} => q[at[p]] # <<>>

Using(s) == \E p \in Procs : at[p] = s /\ pc[p] = "o_pop"

\* The messages a are out and x are queued of the n that were taken; k of them
\* are both.
Ordered(a, x, n, k) ==
  /\ Len(a) + Len(x) = n + k
  /\ \A i \in 1..Len(a) : a[i] = i
  /\ \A i \in 1..Len(x) : x[i] = n - Len(x) + i

InOrder(s) == Ordered(out[s], q[s], taken[s], IF Using(s) THEN 1 ELSE 0)

\* A message that is being used while the layer is paused was begun before.
BegunBefore ==
  paused => \A p \in Procs : pc[p] = "o_use" /\ HeedsPause(p) => begun[at[p]] >= 1

FlowTypes ==
  /\ pc \in [Procs -> Locations] /\ at \in [Procs -> Sides]
  /\ one \in [Sides -> Procs \cup {none}]
  /\ call \in [Users -> CallNames \cup {none}]
  /\ joinable \in [Threads -> BOOLEAN] /\ died \in BOOLEAN /\ paused \in BOOLEAN
  /\ q \in [Sides -> Seq(Nat)] /\ out \in [Sides -> Seq(Nat)]
  /\ taken \in [Sides -> Nat] /\ begun \in [Sides -> Int]

FlowInv ==
  /\ FlowTypes
  /\ Mutex
  /\ NotStarted
  /\ HeadStays
  /\ \A s \in Sides : InOrder(s)
  /\ BegunBefore

\* A program that was terminated may leave a message half done.
FlowOrDied == PauseHolds /\ (died \/ FlowInv)

-----------------------------------------------------------------------------
(* The life of the threads, for programs that stop them with stop() only. *)

\* Nobody calls run(), which stop() does not wait for, or try_stop(), after
\* which stop() gives up on the threads that are still on their way out.
Orderly ==
  \A f \in Programs, u \in Users : f[u].calls \cap {"run", "try_stop"} = {}

\* In the "non-running" state that stop() restores, the receive and handle
\* threads have ended and have been joined.
IdleMeansJoined ==
  recvMode = "none" =>
    \A t \in {"R", "H"} : pc[t] = "off" /\ ~joinable[t]

WorkLocs == {"w_check", "w_sleepy", "w_asleep", "w_lock", "w_exit",
             "o_top", "o_check", "o_use", "o_pop"}
RecvLocs == {"r_check", "r_recv", "r_push", "r_exit"}
Leaving == {"w_exit", "h_join", "h_halted", "r_exit"}
Stopping == {"s_join", "s_send", "s_joinsend", "s_end"}

\* Where each thread can be.
Places ==
  /\ pc["S"] \in WorkLocs \cup {"off"} /\ at["S"] = "send"
  /\ pc["H"] \in WorkLocs \cup {"off", "h_spawn", "h_join", "h_halted"} /\ at["H"] = "recv"
  /\ pc["R"] \in RecvLocs \cup {"off"}

\* Where a user never is.
NeverUser == (WorkLocs \ Holding) \cup RecvLocs \cup
             {"off", "run", "run_end", "h_spawn", "h_join", "h_halted", "s_try", "s_trysend"}

\* The thread of state flag x runs t.
Lives(x, t) ==
  /\ joinable[t] <=> state[x] # "stopped"
  /\ pc[t] = "off" <=> state[x] \in {"stopped", "halted"}
  /\ pc[t] \in Leaving => state[x] = "halting"

\* The threads of the receive side, by mode: H keeps R from its start to its end.
RecvLife ==
  /\ Lives("hndl", "H")
  /\ recvMode = "handle" => Lives("recv", "R") /\ state["hndl"] = "stopped"
  /\ recvMode = "spawn" =>
       IF pc["H"] \in WorkLocs \cup {"h_join"} THEN joinable["R"]
                                               ELSE ~joinable["R"] /\ pc["R"] = "off"
  /\ modeLock = none =>
       /\ recvMode = "spawn" => state["hndl"] = "running"
       /\ recvMode = "handle" => state["recv"] = "running"

\* How far stop() has come.
Stage(u) ==
  /\ pc[u] \notin NeverUser
  /\ call[u] \notin {"run", "try_stop"}
  /\ pc[u] \in Stopping \cup {"stop"} => call[u] = "stop"
  /\ pc[u] \in Stopping <=> modeLock = u
  /\ pc[u] = "s_join" =>
       recvMode \in {"spawn", "handle"} /\ state[StopState] \in {"halting", "halted"}
  /\ pc[u] \in {"s_send", "s_joinsend", "s_end"} =>
       \A t \in {"R", "H"} : pc[t] = "off" /\ ~joinable[t]
  /\ pc[u] = "s_joinsend" => state["send"] \in {"halting", "halted"}

ThreadTypes ==
  /\ program \in Programs
  /\ recvMode \in {"none", "spawn", "handle"} /\ modeLock \in Users \cup {none}
  /\ state \in [{"send", "recv", "hndl"} -> {"stopped", "running", "halting", "halted"}]
  /\ pc \in [Procs -> Locations] /\ at \in [Procs -> Sides]
  /\ call \in [Users -> CallNames \cup {none}]
  /\ joinable \in [Threads -> BOOLEAN]

ThreadInv ==
  /\ ThreadTypes
  /\ ~died
  /\ Places
  /\ Lives("send", "S")
  /\ RecvLife
  /\ IdleMeansJoined
  /\ \A u \in Users : Stage(u)
-----------------------------------------------------------------------------
(* flush(), for programs in which it has the queues to itself. *)

\* Next to a user that may flush, nobody stops the layer, and nobody else
\* flushes or resizes its queues.
FlushesAlone ==
  \A f \in Programs, u, v \in Users :
    f[u].calls \cap {"flush", "try_flush"} # {} =>
      /\ f[v].calls \cap {"stop", "try_stop"} = {}
      /\ u # v => f[v].calls \cap Disabling = {}

HasFlush == \E u \in Users : program[u].calls \cap {"flush", "try_flush"} # {}

\* Where a thread only is when the layer is being stopped.
Halts == {"stop", "s_join", "s_send", "s_joinsend", "s_try", "s_trysend", "s_end",
          "w_exit", "h_join", "h_halted", "run_end", "r_exit"}

DisablingLocs == {"f_disable", "f_lock", "f_enable", "f_unlock", "q_resize"}

\* How far flush() has come: what it still counts makes up for what is missing.
FlushPlace(u) ==
  LET s == at[u] IN
  /\ pc[u] \in {"f_disable", "f_lock", "f_enable", "f_unlock", "o_top", "o_use", "o_pop"}
  /\ \A x \in Sides : goal[u][x] <= taken[x]
  /\ s = "recv" => Len(out["send"]) >= goal[u]["send"]
  /\ pc[u] \in {"o_top", "o_use"} => Len(out[s]) + left[u] >= goal[u][s]
  /\ pc[u] = "o_pop" => Len(out[s]) + left[u] > goal[u][s]
  /\ pc[u] \in {"o_top", "o_use", "o_pop"} => ~disabled[s]
  /\ pc[u] = "f_unlock" => Len(out[s]) >= goal[u][s]

FlushTypes ==
  /\ state \in [{"send", "recv", "hndl"} -> {"stopped", "running"}]
  /\ pc \in [Procs -> Locations \ Halts]
  /\ left \in [Users -> Int]
  /\ goal \in [Users -> [Sides -> Nat]]
  /\ disabled \in [Sides -> BOOLEAN]
  /\ ret \in [Users -> {none, "ok", "again", "invalid"}]

DuringFlush ==
  /\ FlushTypes
  /\ \A u \in Users :
       /\ pc[u] \in DisablingLocs => call[u] \in Disabling
       /\ IsFlush(u) => FlushPlace(u)

FlushInv ==
  /\ program \in Programs
  /\ \A u \in Users : call[u] \in program[u].calls \cup {none}
  /\ HasFlush => DuringFlush
=============================================================================
