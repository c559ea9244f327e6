---------------------------- MODULE BlockingFlush ---------------------------
(***************************************************************************)
(* flush(), in the programs that give it the queues to itself: it returns  *)
(* only after what was queued before the call was sent and dispatched.     *)
(***************************************************************************)
EXTENDS BlockingProofs

\* A leaf is left to Zenon unless it names another prover.
USE Zenon

\* flush() that returns has sent and dispatched what it had to.
FlushGoal(u) ==
  IsFlush(u) /\ call'[u] = none /\ ret'[u] = "ok" =>
    \A s \in Sides : Len(out[s]) >= goal[u][s]

\* No message is taken back.
Growing ==
  \A s \in Sides : /\ Len(out'[s]) \in Nat /\ Len(out'[s]) >= Len(out[s])
                    /\ taken'[s] \in Nat /\ taken'[s] >= taken[s]

\* A step of p that leaves the calls of the others alone, and disables no queue that
\* they flush.
Steady(p) ==
  /\ \A u \in Users \ {p} :
       /\ at'[u] = at[u] /\ call'[u] = call[u] /\ left'[u] = left[u] /\ goal'[u] = goal[u]
       /\ pc'[u] = pc[u] \/ (pc[u] = "w_asleep" /\ pc'[u] = "w_check")
       /\ IsFlush(u) /\ disabled'[at[u]] => disabled[at[u]]
  /\ Growing
  /\ FlushTypes'

LEMMA Grows ==
  ASSUME NEW a \in Nat, NEW b \in Nat, b >= a, NEW k \in Nat, NEW n \in Int
  PROVE  /\ a + n >= k => b + n >= k
         /\ a + n > k => b + n > k
         /\ a >= k => b >= k
         /\ k <= a => k <= b
BY SMT

\* How far the flush() of u has come does not depend on the steps of others,
LEMMA PlaceKept ==
  ASSUME FlowTypes, FlushTypes, NEW u \in Users, FlushPlace(u), Growing,
         goal'[u] = goal[u],
         at'[u] = at[u], left'[u] = left[u],
         pc'[u] = pc[u] \/ (pc[u] = "w_asleep" /\ pc'[u] = "w_check"),
         disabled'[at[u]] => disabled[at[u]]
  PROVE  FlushPlace(u)'
<1>1. PICK s \in Sides : s = at[u] /\ at'[u] = s
  BY DEF FlowTypes, Procs
<1>2. PICK g \in [Sides -> Nat] : g = goal[u] /\ goal'[u] = g
  BY DEF FlushTypes
<1>3. PICK n \in Int : n = left[u] /\ left'[u] = n
  BY DEF FlushTypes
<1>4. pc'[u] = pc[u]
  BY SMT DEF FlushPlace
<1>5. /\ \A x \in Sides : Len(out[x]) \in Nat /\ taken[x] \in Nat /\ g[x] \in Nat
      /\ "send" \in Sides
  BY SMT DEF FlowTypes, Sides
<1>6. /\ pc[u] \in {"f_disable", "f_lock", "f_enable", "f_unlock", "o_top", "o_use", "o_pop"}
      /\ \A x \in Sides : g[x] <= taken[x]
      /\ s = "recv" => Len(out["send"]) >= g["send"]
      /\ pc[u] \in {"o_top", "o_use"} => Len(out[s]) + n >= g[s]
      /\ pc[u] = "o_pop" => Len(out[s]) + n > g[s]
      /\ pc[u] \in {"o_top", "o_use", "o_pop"} => ~disabled[s]
      /\ pc[u] = "f_unlock" => Len(out[s]) >= g[s]
  BY <1>1, <1>2, <1>3 DEF FlushPlace
<1>7. /\ \A x \in Sides : g[x] <= taken'[x]
      /\ s = "recv" => Len(out'["send"]) >= g["send"]
      /\ pc[u] \in {"o_top", "o_use"} => Len(out'[s]) + n >= g[s]
      /\ pc[u] = "o_pop" => Len(out'[s]) + n > g[s]
      /\ pc[u] = "f_unlock" => Len(out'[s]) >= g[s]
  <2>1. /\ Len(out[s]) + n >= g[s] => Len(out'[s]) + n >= g[s]
        /\ Len(out[s]) + n > g[s] => Len(out'[s]) + n > g[s]
        /\ Len(out[s]) >= g[s] => Len(out'[s]) >= g[s]
    <3>1. /\ Len(out[s]) \in Nat /\ Len(out'[s]) \in Nat /\ g[s] \in Nat
          /\ Len(out'[s]) >= Len(out[s])
      BY <1>5 DEF Growing
    <3> QED  BY <3>1, Grows
  <2>2. Len(out["send"]) >= g["send"] => Len(out'["send"]) >= g["send"]
    <3>1. /\ Len(out["send"]) \in Nat /\ Len(out'["send"]) \in Nat /\ g["send"] \in Nat
          /\ Len(out'["send"]) >= Len(out["send"])
      BY <1>5 DEF Growing
    <3> QED  BY <3>1, Grows
  <2>3. ASSUME NEW x \in Sides PROVE g[x] <= taken'[x]
    <3>1. g[x] <= taken[x]
      BY <1>6
    <3> QED  BY <1>5, <3>1, Grows DEF Growing
  <2> QED  BY <1>6, <2>1, <2>2, <2>3
<1>8. pc[u] \in {"o_top", "o_use", "o_pop"} => ~disabled'[s]
  BY <1>1, <1>6
<1> QED  BY <1>1, <1>2, <1>3, <1>4, <1>6, <1>7, <1>8 DEF FlushPlace

\* so it is enough to look at the call of p itself.
LEMMA SteadyStep ==
  ASSUME FlowTypes, DuringFlush, NEW p \in Procs, Steady(p),
         p \in Users => /\ pc'[p] \in DisablingLocs => call'[p] \in Disabling
                        /\ IsFlush(p)' => FlushPlace(p)'
                        /\ FlushGoal(p)
  PROVE  DuringFlush' /\ \A u \in Users : FlushGoal(u)
<1>1. ASSUME NEW u \in Users
      PROVE  /\ pc'[u] \in DisablingLocs => call'[u] \in Disabling
             /\ IsFlush(u)' => FlushPlace(u)'
             /\ FlushGoal(u)
  <2>1. CASE u = p
    BY <2>1
  <2>2. CASE u # p
    <3>1. /\ at'[u] = at[u] /\ call'[u] = call[u] /\ left'[u] = left[u] /\ goal'[u] = goal[u]
          /\ pc'[u] = pc[u] \/ (pc[u] = "w_asleep" /\ pc'[u] = "w_check")
      BY <2>2 DEF Steady
    <3>2. pc'[u] \in DisablingLocs => call'[u] \in Disabling
      <4>1. pc'[u] \in DisablingLocs => pc'[u] = pc[u]
        BY SMT, <3>1 DEF DisablingLocs
      <4> QED  BY <3>1, <4>1 DEF DuringFlush
    <3>3. IsFlush(u)' => FlushPlace(u)'
      <4> SUFFICES ASSUME IsFlush(u)' PROVE FlushPlace(u)'
        BY Zenon
      <4>1. IsFlush(u)
        BY <3>1 DEF IsFlush
      <4>2. FlushPlace(u) /\ at[u] \in Sides
        BY <4>1 DEF DuringFlush, FlowTypes, Procs
      <4>3. FlushTypes /\ Growing /\ (disabled'[at[u]] => disabled[at[u]])
        BY <2>2, <4>1 DEF DuringFlush, Steady
      <4> QED  BY <3>1, <4>2, <4>3, PlaceKept
    <3>4. FlushGoal(u)
      <4>1. call[u] \in {"flush", "try_flush"} => call[u] # none
        BY SMT DEF none
      <4> QED  BY <3>1, <4>1 DEF FlushGoal, IsFlush
    <3> QED  BY <3>2, <3>3, <3>4
  <2> QED  BY <2>1, <2>2
<1> QED  BY <1>1 DEF DuringFlush, Steady

\* Only the result of p changes.
Answers(p) ==
  ret' = ret \/ \E c \in {none, "ok", "again", "invalid"} : ret' = [ret EXCEPT ![p] = c]

\* A step of p that is no step of flush() or set_queue_size().
Aside(p) ==
  /\ UNCHANGED <<program, goal, at, left>>
  /\ Growing
  /\ call' = call \/ (p \in Users /\ call' = [call EXCEPT ![p] = none])
  /\ Answers(p)
  /\ pc' \in [Procs -> Locations \ Halts]
  /\ \A u \in Users \ {p} :
       pc'[u] = pc[u] \/ (pc[u] = "w_asleep" /\ pc'[u] = "w_check")
  /\ disabled' = disabled \/ \E s \in Sides : disabled' = [disabled EXCEPT ![s] = FALSE]
  /\ state' \in [{"send", "recv", "hndl"} -> {"stopped", "running"}]
  /\ p \in Users => ~IsFlush(p) /\ pc'[p] \notin DisablingLocs

LEMMA AsideStep ==
  ASSUME FlowTypes, DuringFlush, NEW p \in Procs, Aside(p)
  PROVE  DuringFlush' /\ \A u \in Users : FlushGoal(u)
<1>1. FlushTypes /\ call \in [Users -> CallNames \cup {none}]
  BY DEF DuringFlush, FlowTypes
<1>2. disabled' \in [Sides -> BOOLEAN] /\ \A s \in Sides : disabled'[s] => disabled[s]
  <2>1. disabled \in [Sides -> BOOLEAN]
    BY <1>1 DEF FlushTypes
  <2>2. CASE disabled' = disabled
    BY <2>1, <2>2
  <2>3. CASE \E s \in Sides : disabled' = [disabled EXCEPT ![s] = FALSE]
    BY <2>1, <2>3
  <2> QED  BY <2>2, <2>3 DEF Aside
<1>3. FlushTypes'
  <2>1. ret' \in [Users -> {none, "ok", "again", "invalid"}]
    BY <1>1 DEF Aside, Answers, FlushTypes
  <2> QED  BY <1>1, <1>2, <2>1 DEF Aside, FlushTypes
<1>4. ASSUME NEW u \in Users PROVE call'[u] = call[u] \/ (u = p /\ call'[u] = none)
  BY <1>1 DEF Aside
<1>5. \A u \in Users \ {p} : call'[u] = call[u] /\ at[u] \in Sides
  BY <1>4 DEF FlowTypes, Procs
<1>6. Steady(p)
  BY <1>2, <1>3, <1>5 DEF Steady, Aside
<1>7. ASSUME p \in Users
      PROVE  pc'[p] \notin DisablingLocs /\ ~IsFlush(p)' /\ ~IsFlush(p)
  <2>1. ~IsFlush(p) /\ pc'[p] \notin DisablingLocs
    BY <1>7 DEF Aside
  <2>2. call'[p] \in {call[p], none}
    BY <1>4, <1>7
  <2>3. call'[p] \notin {"flush", "try_flush"}
    BY SMT, <2>1, <2>2 DEF IsFlush, none
  <2> QED  BY <2>1, <2>3 DEF IsFlush
<1> QED  BY <1>6, <1>7, SteadyStep DEF FlushGoal

\* Outside of flush(), and with nobody to stop the layer.
LEMMA AsideFacts ==
  ASSUME FlowInv, DuringFlush
  PROVE  /\ pc \in [Procs -> Locations \ Halts] /\ at \in [Procs -> Sides]
         /\ state \in [{"send", "recv", "hndl"} -> {"stopped", "running"}]
         /\ call \in [Users -> CallNames \cup {none}] /\ FlowTypes
         /\ \A u \in Users : IsFlush(u) =>
              pc[u] \in {"f_disable", "f_lock", "f_enable", "f_unlock", "o_top", "o_use", "o_pop"}
         /\ \A s \in Sides : Len(out[s]) \in Nat /\ taken[s] \in Nat
         /\ UNCHANGED <<out, taken>> => Growing
<1>1. /\ pc \in [Procs -> Locations \ Halts] /\ at \in [Procs -> Sides]
      /\ state \in [{"send", "recv", "hndl"} -> {"stopped", "running"}]
      /\ call \in [Users -> CallNames \cup {none}] /\ FlowTypes
  BY DEF FlowInv, FlowTypes, DuringFlush, FlushTypes
<1>2. \A s \in Sides : Len(out[s]) \in Nat /\ taken[s] \in Nat
  BY SMT DEF FlowInv, FlowTypes
<1>3. UNCHANGED <<out, taken>> => Growing
  BY SMT, <1>2 DEF Growing
<1> QED  BY <1>1, <1>2, <1>3 DEF DuringFlush, FlushPlace

\* The loop of a worker, up to the mutex.
LEMMA AsideLoop ==
  ASSUME FlowInv, DuringFlush, NEW p \in Procs,
         WCheck(p) \/ WSleep(p) \/ WakeUp(p) \/ WLock(p) \/ HSpawn(p)
  PROVE  DuringFlush' /\ \A u \in Users : FlushGoal(u)
<1>1. /\ pc \in [Procs -> Locations \ Halts] /\ at \in [Procs -> Sides]
      /\ state \in [{"send", "recv", "hndl"} -> {"stopped", "running"}] /\ FlowTypes
  BY AsideFacts
<1>2. UNCHANGED <<program, goal, at, left, call, ret, disabled, out, taken>>
  BY DEF WCheck, WSleep, WakeUp, WLock, HSpawn, queues, locals, client, history
<1>3. p \in Users => ~IsFlush(p)
  <2>1. pc[p] \notin {"f_disable", "f_lock", "f_enable", "f_unlock", "o_top", "o_use", "o_pop"}
    BY SMT DEF WCheck, WSleep, WakeUp, WLock, HSpawn
  <2> QED  BY <2>1, AsideFacts
<1>4. state' \in [{"send", "recv", "hndl"} -> {"stopped", "running"}]
  BY SMT, <1>1 DEF WCheck, WSleep, WakeUp, WLock, HSpawn, threads
<1>5. /\ pc' \in [Procs -> Locations \ Halts] /\ pc'[p] \notin DisablingLocs
      /\ \A u \in Users \ {p} : pc'[u] = pc[u]
  <2>1. CASE WCheck(p)
    <3>1. state[StateOf(at[p])] # "halting"
      BY SMT, <1>1 DEF StateOf
    <3>2. PICK l \in {"w_lock", "w_sleepy"} : pc' = [pc EXCEPT ![p] = l]
      BY <2>1, <3>1 DEF WCheck
    <3> QED  BY SMT, <1>1, <3>2, UsersApart DEF Locations, Halts, DisablingLocs, Procs
  <2>2. CASE WSleep(p) \/ WakeUp(p) \/ WLock(p)
    <3>1. PICK l \in {"w_asleep", "w_check", "o_top"} : pc' = [pc EXCEPT ![p] = l]
      BY <2>2 DEF WSleep, WakeUp, WLock
    <3> QED  BY SMT, <1>1, <3>1, UsersApart DEF Locations, Halts, DisablingLocs, Procs
  <2>3. CASE HSpawn(p)
    <3>1. pc' = [[pc EXCEPT ![p] = "w_check"] EXCEPT !["R"] = "r_check"]
      BY <2>3 DEF HSpawn, Spawn
    <3> QED  BY SMT, <1>1, <3>1, UsersApart DEF Locations, Halts, DisablingLocs, Procs, Threads
  <2> QED  BY <2>1, <2>2, <2>3
<1>6. Aside(p)
  BY <1>2, <1>3, <1>4, <1>5, AsideFacts DEF Aside, Answers
<1> QED  BY <1>1, <1>6, AsideStep

\* The receive thread.
LEMMA AsideRecv ==
  ASSUME FlowInv, DuringFlush, RCheck \/ RRecv \/ RPush
  PROVE  DuringFlush' /\ \A u \in Users : FlushGoal(u)
<1>1. /\ pc \in [Procs -> Locations \ Halts] /\ FlowTypes
      /\ state \in [{"send", "recv", "hndl"} -> {"stopped", "running"}]
      /\ "R" \in Procs /\ "R" \notin Users
  BY AsideFacts, ThreadNames
<1>2. UNCHANGED <<program, goal, at, left, call, ret, disabled, out, state>>
  BY DEF RCheck, RRecv, RPush, queues, threads, locals, client, history
<1>3. Growing
  <2>1. CASE RCheck \/ RRecv
    BY <2>1, AsideFacts DEF RCheck, RRecv, history
  <2>2. CASE RPush
    <3>1. taken' = taken \/ taken' = [taken EXCEPT !["recv"] = @ + 1]
      BY <2>2 DEF RPush
    <3>2. taken \in [Sides -> Nat] /\ \A s \in Sides : Len(out[s]) \in Nat
      BY AsideFacts DEF FlowTypes
    <3> QED  BY SMT, <1>2, <3>1, <3>2 DEF Growing
  <2> QED  BY <2>1, <2>2
<1>4. PICK l \in {"r_recv", "r_push", "r_check"} : pc' = [pc EXCEPT !["R"] = l]
  <2>1. state["recv"] # "halting"
    BY SMT, <1>1
  <2> QED  BY <2>1 DEF RCheck, RRecv, RPush
<1>5. /\ pc' \in [Procs -> Locations \ Halts]
      /\ \A u \in Users \ {"R"} : pc'[u] = pc[u]
  BY SMT, <1>1, <1>4 DEF Locations, Halts, Procs
<1>6. Aside("R")
  BY <1>1, <1>2, <1>3, <1>5 DEF Aside, Answers
<1> QED  BY <1>1, <1>6, AsideStep

\* The calls that neither flush nor resize.
LEMMA AsideCalls ==
  ASSUME FlowInv, DuringFlush, NEW u \in Users,
         \/ PubSpawn(u) \/ PushIfRoom(u) \/ Pause(u) \/ Resume(u) \/ StartOrRun(u)
         \/ Handle(u) \/ HandleLock(u)
  PROVE  DuringFlush' /\ \A v \in Users : FlushGoal(v)
<1>1. /\ pc \in [Procs -> Locations \ Halts] /\ FlowTypes
      /\ state \in [{"send", "recv", "hndl"} -> {"stopped", "running"}]
      /\ u \in Procs /\ u \notin Threads /\ \A v \in Users : v \in Procs /\ v \notin Threads
  BY AsideFacts, UsersApart DEF Procs
<1>2. UNCHANGED <<program, goal, at, left, out>>
  BY DEF PubSpawn, PushIfRoom, Pause, Resume, StartOrRun, Handle, HandleLock, queues,
         locals, client, history
<1>3. (call' = call \/ call' = [call EXCEPT ![u] = none]) /\ Answers(u)
  BY DEF Answers, PubSpawn, PushIfRoom, Pause, Resume, StartOrRun, Handle, HandleLock, Return, locals
<1>4. Growing
  <2>1. taken' = taken \/ taken' = [taken EXCEPT !["send"] = @ + 1]
    BY DEF PubSpawn, PushIfRoom, Pause, Resume, StartOrRun, Handle, HandleLock, history
  <2>2. taken \in [Sides -> Nat] /\ \A s \in Sides : Len(out[s]) \in Nat
    BY AsideFacts DEF FlowTypes
  <2> QED  BY SMT, <1>2, <2>1, <2>2 DEF Growing
<1>5. disabled' = disabled \/ \E s \in Sides : disabled' = [disabled EXCEPT ![s] = FALSE]
  <2>1. "recv" \in Sides
    BY DEF Sides
  <2> QED  BY <2>1 DEF PubSpawn, PushIfRoom, Pause, Resume, StartOrRun, Handle, HandleLock, queues
<1>6. state' \in [{"send", "recv", "hndl"} -> {"stopped", "running"}]
  <2>1. state' = state \/ \E x \in {"send", "recv", "hndl"} : state' = [state EXCEPT ![x] = "running"]
    BY SMT DEF PubSpawn, PushIfRoom, Pause, Resume, StartOrRun, Handle, HandleLock, threads
  <2> QED  BY ZenonT(40), <1>1, <2>1
<1>7. ~IsFlush(u)
  <2>1. pc[u] \notin {"f_disable", "f_lock", "f_enable", "f_unlock", "o_top", "o_use", "o_pop"}
    BY SMT DEF PubSpawn, PushIfRoom, Pause, Resume, StartOrRun, Handle, HandleLock
  <2> QED  BY ZenonT(40), <2>1, AsideFacts
<1>8. /\ pc' \in [Procs -> Locations \ Halts] /\ pc'[u] \notin DisablingLocs
      /\ \A v \in Users \ {u} :
           pc'[v] = pc[v] \/ (pc[v] = "w_asleep" /\ pc'[v] = "w_check")
  <2>1. CASE Resume(u)
    <3> DEFINE f == WakePaused(pc, "send")
    <3> DEFINE g == WakePaused(f, "recv")
    <3>1. /\ f \in [Procs -> Locations \ Halts]
          /\ \A r \in Procs : f[r] = pc[r] \/ (pc[r] = "w_asleep" /\ f[r] = "w_check")
      BY SMTT(30), <1>1 DEF WakePaused, Locations, Halts
    <3> HIDE DEF f
    <3>2. /\ g \in [Procs -> Locations \ Halts]
          /\ \A r \in Procs : g[r] = f[r] \/ (f[r] = "w_asleep" /\ g[r] = "w_check")
      BY SMT, <3>1 DEF WakePaused, Locations, Halts
    <3> HIDE DEF g
    <3>3. pc' = [g EXCEPT ![u] = "idle"]
      BY <2>1 DEF Resume, Return, f, g
    <3> QED  BY SMT, <1>1, <3>1, <3>2, <3>3 DEF Locations, Halts, DisablingLocs
  <2>2. CASE PushIfRoom(u) \/ Pause(u) \/ HandleLock(u)
    <3>1. PICK l \in {"idle", "o_top"} : pc' = [pc EXCEPT ![u] = l]
      BY <2>2 DEF PushIfRoom, Pause, HandleLock, Return
    <3> QED  BY SMT, <1>1, <3>1 DEF Locations, Halts, DisablingLocs
  <2>3. CASE PubSpawn(u) \/ StartOrRun(u) \/ Handle(u)
    <3>1. PICK l \in {"p_push", "idle", "h_spawn", "h_lock"} :
            \/ pc' = [pc EXCEPT ![u] = l]
            \/ \E t \in Threads, k \in {"w_check", "h_spawn", "r_check"} :
                 pc' = [[pc EXCEPT ![u] = l] EXCEPT ![t] = k]
      BY SMT, <2>3 DEF PubSpawn, StartOrRun, Handle, Return, Spawn, Threads
    <3>2. CASE pc' = [pc EXCEPT ![u] = l]
      BY SMT, <1>1, <3>2 DEF Locations, Halts, DisablingLocs
    <3>3. CASE \E t \in Threads, k \in {"w_check", "h_spawn", "r_check"} :
                 pc' = [[pc EXCEPT ![u] = l] EXCEPT ![t] = k]
      <4>1. PICK t \in Threads, k \in {"w_check", "h_spawn", "r_check"} :
                 pc' = [[pc EXCEPT ![u] = l] EXCEPT ![t] = k]
        BY <3>3
      <4>2. u # t /\ \A v \in Users : v # t
        BY <1>1
      <4>3. PICK f \in [Procs -> Locations \ Halts] : f = [pc EXCEPT ![u] = l]
        <5>1. l \in Locations \ Halts
          BY SMT DEF Locations, Halts
        <5> QED  BY <1>1, <5>1
      <4>4. f[u] = l /\ \A v \in Users \ {u} : f[v] = pc[v]
        BY <1>1, <4>3
      <4>5. pc' = [f EXCEPT ![t] = k] /\ k \in Locations \ Halts
        BY SMT, <4>1, <4>3 DEF Locations, Halts
      <4>6. pc' \in [Procs -> Locations \ Halts] /\ \A v \in Users : pc'[v] = f[v]
        BY <1>1, <4>2, <4>5
      <4>7. l \notin DisablingLocs
        BY SMT DEF DisablingLocs
      <4> QED  BY <4>4, <4>6, <4>7
    <3> QED  BY ZenonT(40), <3>1, <3>2, <3>3
  <2> QED  BY <2>1, <2>2, <2>3
<1>9. Aside(u)
  BY <1>2, <1>3, <1>4, <1>5, <1>6, <1>7, <1>8 DEF Aside
<1> QED  BY <1>1, <1>9, AsideStep

\* The use of a message by anybody but flush().
LEMMA AsideOne ==
  ASSUME FlowInv, DuringFlush, NEW p \in Procs, OTop(p) \/ OCheck(p) \/ OUse(p) \/ OPop(p),
         ~(p \in Users /\ IsFlush(p))
  PROVE  DuringFlush' /\ \A u \in Users : FlushGoal(u)
<1>1. /\ pc \in [Procs -> Locations \ Halts] /\ FlowTypes /\ at[p] \in Sides
      /\ state \in [{"send", "recv", "hndl"} -> {"stopped", "running"}]
  BY AsideFacts
<1>2. UNCHANGED <<program, goal, at, disabled, taken, state>>
  BY DEF OTop, OCheck, OUse, OPop, queues, threads, locals, client, history
<1>3. Growing
  <2>1. CASE OUse(p)
    <3>1. q[at[p]] # <<>> /\ q[at[p]] \in Seq(Nat) /\ out \in [Sides -> Seq(Nat)]
      BY SMTT(30), <1>1, <2>1 DEF OUse, FlowInv, HeadStays, FlowTypes
    <3>2. Head(q[at[p]]) \in Nat
      BY SMT, <3>1
    <3>3. PICK n \in Nat : out' = [out EXCEPT ![at[p]] = Append(@, n)]
      BY <2>1, <3>2 DEF OUse
    <3>4. \A s \in Sides : taken[s] \in Nat
      BY AsideFacts
    <3> QED  BY SMTT(30), <1>1, <1>2, <3>1, <3>3, <3>4 DEF Growing
  <2>2. CASE OTop(p) \/ OCheck(p) \/ OPop(p)
    BY <2>2, AsideFacts DEF OTop, OCheck, OPop, history
  <2> QED  BY ZenonT(40), <2>1, <2>2
<1>4. IsWorker(p) \/ ~IsFlush(p)
  BY DEF IsWorker, Procs
<1>5. /\ left' = left /\ Answers(p)
      /\ call' = call \/ (p \in Users /\ call' = [call EXCEPT ![p] = none])
      /\ \E l \in {"w_check", "idle", "o_check", "o_use", "o_pop"} : pc' = [pc EXCEPT ![p] = l]
  <2>1. ASSUME NEW ok, OneDone(p, ok)
        PROVE  /\ left' = left /\ Answers(p)
               /\ call' = call \/ (p \in Users /\ call' = [call EXCEPT ![p] = none])
               /\ \E l \in {"w_check", "idle"} : pc' = [pc EXCEPT ![p] = l]
    <3>1. CASE IsWorker(p)
      BY <2>1, <3>1 DEF OneDone, Answers
    <3>2. CASE ~IsWorker(p)
      BY <1>4, <2>1, <3>2 DEF OneDone, Return, IsWorker, Procs, Answers
    <3> QED  BY <3>1, <3>2
  <2>2. CASE OneDone(p, FALSE) \/ OneDone(p, TRUE)
    BY <2>1, <2>2
  <2>3. CASE ~(OneDone(p, FALSE) \/ OneDone(p, TRUE))
    BY <2>3 DEF OTop, OCheck, OUse, OPop, locals, Answers
  <2> QED  BY <2>2, <2>3
<1>6. /\ pc' \in [Procs -> Locations \ Halts] /\ pc'[p] \notin DisablingLocs
      /\ \A u \in Users \ {p} : pc'[u] = pc[u]
  <2>1. PICK l \in {"w_check", "idle", "o_check", "o_use", "o_pop"} : pc' = [pc EXCEPT ![p] = l]
    BY <1>5
  <2> QED  BY SMT, <1>1, <2>1 DEF Locations, Halts, DisablingLocs, Procs
<1>7. Aside(p)
  BY <1>1, <1>2, <1>3, <1>5, <1>6 DEF Aside
<1> QED  BY <1>1, <1>7, AsideStep

\* The use of a message by flush().
LEMMA FlushOne ==
  ASSUME FlowInv, DuringFlush, NEW u \in Users, IsFlush(u),
         OTop(u) \/ OCheck(u) \/ OUse(u) \/ OPop(u)
  PROVE  DuringFlush' /\ \A v \in Users : FlushGoal(v)
<1>1. /\ pc \in [Procs -> Locations \ Halts] /\ FlowTypes /\ u \in Procs
      /\ \A v \in Users : v \in Procs
  BY AsideFacts DEF Procs
<1>2. PICK s \in Sides : s = at[u]
  BY AsideFacts, <1>1
<1>3. PICK g \in [Sides -> Nat] : g = goal[u]
  BY DEF DuringFlush, FlushTypes
<1>4. PICK n \in Int : n = left[u]
  BY DEF DuringFlush, FlushTypes
<1>5. /\ pc[u] \in {"f_disable", "f_lock", "f_enable", "f_unlock", "o_top", "o_use", "o_pop"}
      /\ \A x \in Sides : g[x] <= taken[x]
      /\ s = "recv" => Len(out["send"]) >= g["send"]
      /\ pc[u] \in {"o_top", "o_use"} => Len(out[s]) + n >= g[s]
      /\ pc[u] = "o_pop" => Len(out[s]) + n > g[s]
      /\ pc[u] \in {"o_top", "o_use", "o_pop"} => ~disabled[s]
  BY <1>2, <1>3, <1>4 DEF DuringFlush, FlushPlace
<1>6. ~IsWorker(u) /\ ~HeedsPause(u)
  BY SMT, UsersApart DEF IsWorker, HeedsPause, IsFlush
<1>7. /\ UNCHANGED <<program, goal, at, call, ret, disabled, taken, state>>
      /\ \/ pc[u] = "o_top" /\ pc' = [pc EXCEPT ![u] = "o_use"] /\ UNCHANGED <<left, out>>
         \/ /\ pc[u] = "o_use" /\ pc' = [pc EXCEPT ![u] = "o_pop"] /\ left' = left
            /\ out' = [out EXCEPT ![s] = Append(@, Head(q[s]))]
         \/ /\ pc[u] = "o_pop" /\ out' = out
            /\ pc' = [pc EXCEPT ![u] = IF n = 1 THEN "f_unlock" ELSE "o_top"]
            /\ left' = [left EXCEPT ![u] = n - 1]
  <2>1. CASE OTop(u)
    <3>1. ~disabled[s] /\ pc[u] = "o_top"
      BY <1>5, <2>1 DEF OTop
    <3>2. pc' = [pc EXCEPT ![u] = "o_use"] /\ UNCHANGED <<call, ret, left>>
      BY <1>2, <1>6, <2>1, <3>1 DEF OTop
    <3> QED  BY <2>1, <3>1, <3>2 DEF OTop, queues, threads, client, history
  <2>2. CASE OCheck(u)
    BY SMT, <1>5, <2>2 DEF OCheck
  <2>3. CASE OUse(u)
    BY <1>2, <2>3 DEF OUse, queues, threads, locals, client
  <2>4. CASE OPop(u)
    <3>1. /\ left' = [left EXCEPT ![u] = n - 1] /\ UNCHANGED <<call, ret>>
          /\ pc' = [pc EXCEPT ![u] = IF n = 1 THEN "f_unlock" ELSE "o_top"]
      BY <1>4, <1>6, <2>4 DEF OPop, OneDone
    <3> QED  BY <2>4, <3>1 DEF OPop, threads, client, history
  <2> QED  BY <2>1, <2>2, <2>3, <2>4
<1>8. \A x \in Sides : Len(out[x]) \in Nat /\ taken[x] \in Nat
  BY AsideFacts
<1>9. left \in [Users -> Int] /\ FlushTypes
  BY DEF DuringFlush, FlushTypes
<1>10. ASSUME NEW l \in {"o_use", "o_pop", "o_top", "f_unlock"}, pc' = [pc EXCEPT ![u] = l],
              NEW m \in Int, left' = [left EXCEPT ![u] = m], Growing,
              s = "recv" => Len(out'["send"]) >= g["send"],
              l \in {"o_top", "o_use"} => Len(out'[s]) + m >= g[s],
              l = "o_pop" => Len(out'[s]) + m > g[s],
              l = "f_unlock" => Len(out'[s]) >= g[s],
              l # "f_unlock" => pc[u] \in {"o_top", "o_use", "o_pop"}
       PROVE  DuringFlush' /\ \A v \in Users : FlushGoal(v)
  <2>1. /\ pc' \in [Procs -> Locations \ Halts] /\ pc'[u] = l
        /\ \A v \in Users \ {u} : pc'[v] = pc[v]
    BY SMT, <1>1, <1>10 DEF Locations, Halts
  <2>2. /\ left' \in [Users -> Int] /\ left'[u] = m
        /\ \A v \in Users \ {u} : left'[v] = left[v]
    BY SMT, <1>9, <1>10
  <2>3. FlushTypes'
    BY <1>7, <1>9, <2>1, <2>2 DEF FlushTypes
  <2>4. Steady(u)
    BY <1>7, <1>10, <2>1, <2>2, <2>3 DEF Steady
  <2>5. \A x \in Sides : g[x] <= taken'[x]
    BY <1>5, <1>7
  <2>6. l \in {"o_top", "o_use", "o_pop"} => ~disabled'[s]
    BY SMT, <1>5, <1>7, <1>10
  <2>7. l \in {"f_disable", "f_lock", "f_enable", "f_unlock", "o_top", "o_use", "o_pop"}
    BY SMT
  <2>8. at'[u] = s /\ goal'[u] = g
    BY <1>2, <1>3, <1>7
  <2>9. FlushPlace(u)'
    BY <1>10, <2>1, <2>2, <2>5, <2>6, <2>7, <2>8 DEF FlushPlace
  <2>10. call'[u] \in Disabling /\ call'[u] # none
    BY SMT, <1>7 DEF IsFlush, Disabling, none
  <2> QED  BY <1>1, <2>4, <2>9, <2>10, SteadyStep DEF FlushGoal
<1>11. CASE pc[u] = "o_top" /\ pc' = [pc EXCEPT ![u] = "o_use"] /\ UNCHANGED <<left, out>>
  <2>1. Growing /\ left' = [left EXCEPT ![u] = n]
    BY <1>4, <1>7, <1>9, <1>11, AsideFacts
  <2>2. Len(out'[s]) + n >= g[s] /\ (s = "recv" => Len(out'["send"]) >= g["send"])
    BY SMT, <1>5, <1>11
  <2>3. /\ "o_use" \in {"o_use", "o_pop", "o_top", "f_unlock"}
        /\ "o_use" # "o_pop" /\ "o_use" # "f_unlock"
    BY SMT
  <2> QED  BY <1>4, <1>10, <1>11, <2>1, <2>2, <2>3
<1>12. CASE /\ pc[u] = "o_use" /\ pc' = [pc EXCEPT ![u] = "o_pop"] /\ left' = left
            /\ out' = [out EXCEPT ![s] = Append(@, Head(q[s]))]
  <2>1. q[s] # <<>> /\ q[s] \in Seq(Nat) /\ out \in [Sides -> Seq(Nat)] /\ "send" \in Sides
    BY SMTT(30), <1>1, <1>2, <1>12 DEF FlowInv, HeadStays, FlowTypes, Sides
  <2>2. PICK m \in Nat : m = Head(q[s])
    BY SMTT(30), <2>1
  <2>3. Growing /\ Len(out'[s]) = Len(out[s]) + 1
    BY SMTT(30), <1>7, <1>8, <1>12, <2>1, <2>2 DEF Growing
  <2>4. g[s] \in Nat /\ g["send"] \in Nat
    BY <2>1
  <2>5. Len(out'[s]) + n > g[s] /\ (s = "recv" => Len(out'["send"]) >= g["send"])
    BY SMT, <1>5, <1>8, <1>12, <2>1, <2>3, <2>4 DEF Growing
  <2>6. left' = [left EXCEPT ![u] = n]
    BY <1>4, <1>9, <1>12
  <2>7. /\ "o_pop" \in {"o_use", "o_pop", "o_top", "f_unlock"}
        /\ "o_pop" \notin {"o_top", "o_use"} /\ "o_pop" # "f_unlock"
    BY SMT
  <2> QED  BY ZenonT(40), <1>4, <1>10, <1>12, <2>3, <2>5, <2>6, <2>7
<1>13. CASE /\ pc[u] = "o_pop" /\ out' = out
            /\ pc' = [pc EXCEPT ![u] = IF n = 1 THEN "f_unlock" ELSE "o_top"]
            /\ left' = [left EXCEPT ![u] = n - 1]
  <2>1. Growing
    BY <1>7, <1>13, AsideFacts
  <2>2. /\ Len(out'[s]) + (n - 1) >= g[s] /\ (n = 1 => Len(out'[s]) >= g[s])
        /\ s = "recv" => Len(out'["send"]) >= g["send"]
        /\ n - 1 \in Int
    BY SMT, <1>5, <1>8, <1>13
  <2>3. PICK l \in {"o_top", "f_unlock"} :
          pc' = [pc EXCEPT ![u] = l] /\ (l = "f_unlock" => n = 1)
    <3>1. CASE n = 1
      BY <1>13, <3>1
    <3>2. CASE n # 1
      <4>1. pc' = [pc EXCEPT ![u] = "o_top"] /\ "o_top" # "f_unlock"
        BY <1>13, <3>2
      <4> QED  BY <4>1
    <3> QED  BY <3>1, <3>2
  <2>4. /\ l \in {"o_use", "o_pop", "o_top", "f_unlock"} /\ l # "o_pop"
        /\ l = "f_unlock" => Len(out'[s]) >= g[s]
        /\ pc[u] \in {"o_top", "o_use", "o_pop"}
    <3>1. l \in {"o_use", "o_pop", "o_top", "f_unlock"} /\ l # "o_pop"
      BY SMT
    <3>2. l = "f_unlock" => Len(out'[s]) >= g[s]
      BY <2>2, <2>3
    <3> QED  BY <1>13, <3>1, <3>2
  <2> QED  BY <1>10, <1>13, <2>1, <2>2, <2>3, <2>4
<1> QED  BY <1>7, <1>11, <1>12, <1>13

\* A side's mutex keeps the others from the message at the head of its queue,
LEMMA NotUsing ==
  ASSUME FlowInv, NEW u \in Users, pc[u] = "f_enable", NEW s \in Sides, s = at[u]
  PROVE  Len(out[s]) + Len(q[s]) = taken[s]
<1>1. one[s] = u /\ u \in Procs
  BY HoldingLocs DEF FlowInv, Mutex, Procs
<1>2. ASSUME NEW p \in Procs, at[p] = s, pc[p] = "o_pop" PROVE FALSE
  <2>1. one[s] = p
    BY <1>2, HoldingLocs DEF FlowInv, Mutex
  <2>2. pc[u] = "o_pop"
    BY <1>1, <1>2, <2>1
  <2> QED  BY SMT, <2>2
<1>3. ~Using(s)
  BY <1>2 DEF Using
<1>4. Ordered(out[s], q[s], taken[s], 0)
  BY <1>3 DEF FlowInv, InOrder
<1>5. taken[s] \in Nat /\ Len(out[s]) + Len(q[s]) = taken[s] + 0
  BY <1>4 DEF Ordered, FlowInv, FlowTypes
<1>6. \A n \in Nat : n + 0 = n
  BY SMT
<1> QED  BY <1>5, <1>6

\* so flush() counts what is missing.
LEMMA FlushOwn ==
  ASSUME FlowInv, DuringFlush, NEW u \in Users, IsFlush(u),
         FDisable(u) \/ FLock(u) \/ FBack(u) \/ FEnable(u) \/ FUnlock(u) \/ QResize(u)
  PROVE  (IsFlush(u)' => FlushPlace(u)') /\ FlushGoal(u)
<1>1. /\ pc \in [Procs -> Locations \ Halts] /\ at \in [Procs -> Sides] /\ u \in Procs
      /\ call \in [Users -> CallNames \cup {none}]
      /\ ret \in [Users -> {none, "ok", "again", "invalid"}]
      /\ left \in [Users -> Int] /\ disabled \in [Sides -> BOOLEAN]
  BY AsideFacts DEF Procs, DuringFlush, FlushTypes
<1>2. PICK s \in Sides : s = at[u]
  BY <1>1
<1>3. PICK g \in [Sides -> Nat] : g = goal[u] /\ goal'[u] = g
  BY DEF DuringFlush, FlushTypes, FDisable, FLock, FBack, FEnable, FUnlock, QResize,
         locals, client
<1>4. /\ \A x \in Sides : Len(out[x]) \in Nat /\ taken[x] \in Nat /\ g[x] \in Nat
      /\ UNCHANGED <<out, taken>>
  BY AsideFacts DEF FDisable, FLock, FBack, FEnable, FUnlock, QResize, history
<1>5. /\ pc[u] \in {"f_disable", "f_lock", "f_enable", "f_unlock", "o_top", "o_use", "o_pop"}
      /\ \A x \in Sides : g[x] <= taken[x]
      /\ s = "recv" => Len(out["send"]) >= g["send"]
      /\ pc[u] = "f_unlock" => Len(out[s]) >= g[s]
  BY <1>2, <1>3 DEF DuringFlush, FlushPlace
<1>6. call[u] # none /\ call[u] \in {"flush", "try_flush"}
  BY SMT DEF IsFlush, none
<1>7. CASE FDisable(u) \/ FLock(u)
  <2>1. PICK l \in {"f_lock", "f_enable"} : pc' = [pc EXCEPT ![u] = l]
    BY <1>7 DEF FDisable, FLock
  <2>2. UNCHANGED <<at, call>>
    BY <1>7 DEF FDisable, FLock, locals
  <2>3. pc'[u] = l /\ l \notin {"o_top", "o_use", "o_pop", "f_unlock"}
    BY SMTT(30), <1>1, <2>1
  <2>4. FlushPlace(u)'
    BY SMTT(30), <1>2, <1>3, <1>4, <1>5, <2>1, <2>2, <2>3 DEF FlushPlace
  <2> QED  BY <1>6, <2>2, <2>4 DEF FlushGoal
<1>8. CASE FBack(u)
  <2>1. call'[u] = none /\ ret'[u] = "again"
    BY <1>1, <1>8 DEF FBack, Return
  <2>2. call'[u] \notin {"flush", "try_flush"} /\ ret'[u] # "ok"
    BY SMT, <2>1 DEF none
  <2> QED  BY <2>2 DEF FlushGoal, IsFlush
<1>9. CASE FEnable(u)
  <2>1. pc[u] = "f_enable" /\ UNCHANGED <<at, call>>
    BY <1>9 DEF FEnable
  <2>2. /\ disabled' = [disabled EXCEPT ![s] = FALSE]
        /\ left' = [left EXCEPT ![u] = Len(q[s])]
        /\ pc' = [pc EXCEPT ![u] = IF q[s] = <<>> THEN "f_unlock" ELSE "o_top"]
    BY <1>2, <1>9 DEF FEnable
  <2>3. Len(out[s]) + Len(q[s]) = taken[s]
    BY <1>2, <2>1, NotUsing
  <2>4. ~disabled'[s] /\ left'[u] = Len(q[s])
    BY <1>1, <2>2
  <2>5. q[s] \in Seq(Nat)
    BY DEF FlowInv, FlowTypes
  <2>6. /\ Len(out[s]) + Len(q[s]) >= g[s]
        /\ q[s] = <<>> => Len(out[s]) >= g[s]
    <3>1. PICK a \in Nat, b \in Nat, k \in Nat, n \in Nat :
            a = Len(out[s]) /\ b = Len(q[s]) /\ k = g[s] /\ n = taken[s]
      <4>1. Len(q[s]) \in Nat
        BY SMT, <2>5
      <4> QED  BY <1>4, <4>1
    <3>2. k <= n /\ a + b = n
      BY <1>5, <2>3, <3>1
    <3>3. a + b >= k /\ (b = 0 => a >= k)
      BY SMT, <3>2
    <3>4. q[s] = <<>> => Len(q[s]) = 0
      BY SMTT(30)
    <3> QED  BY <3>1, <3>3, <3>4
  <2>7. \/ pc'[u] = "f_unlock" /\ q[s] = <<>>
        \/ pc'[u] = "o_top"
    BY SMT, <1>1, <2>2
  <2>8. FlushPlace(u)'
    <3>1. at'[u] = s /\ goal'[u] = g /\ UNCHANGED <<out, taken>>
      BY <1>2, <1>3, <1>4, <2>1
    <3>2. /\ pc'[u] \in {"f_disable", "f_lock", "f_enable", "f_unlock", "o_top", "o_use", "o_pop"}
          /\ pc'[u] # "o_pop" /\ (pc'[u] = "f_unlock" => q[s] = <<>>)
      BY SMT, <2>7
    <3> QED  BY <1>5, <2>4, <2>6, <3>1, <3>2 DEF FlushPlace
  <2> QED  BY <1>6, <2>1, <2>8 DEF FlushGoal
<1>10. CASE FUnlock(u)
  <2>1. pc[u] = "f_unlock" /\ NextSide(u, WakePaused(pc, s))
    BY <1>2, <1>10 DEF FUnlock
  <2>2. Len(out[s]) >= g[s]
    BY <1>5, <2>1
  <2>3. CASE s = "send"
    <3>1. /\ at' = [at EXCEPT ![u] = "recv"] /\ call' = call
          /\ pc' = [WakePaused(pc, s) EXCEPT ![u] = "f_disable"]
      BY <1>2, <2>1, <2>3 DEF NextSide
    <3>2. at'[u] = "recv" /\ pc'[u] = "f_disable"
      BY SMTT(30), <1>1, <3>1 DEF WakePaused
    <3>3. goal'[u] = g /\ Len(out'["send"]) >= g["send"] /\ \A x \in Sides : g[x] <= taken'[x]
      BY <1>3, <1>4, <1>5, <2>2, <2>3
    <3>4. pc'[u] \notin {"f_unlock", "o_top", "o_use", "o_pop"}
      BY SMT, <3>2
    <3>5. FlushPlace(u)'
      BY <3>2, <3>3, <3>4 DEF FlushPlace
    <3> QED  BY <1>6, <3>1, <3>5 DEF FlushGoal
  <2>4. CASE s # "send"
    <3>1. s = "recv" /\ \A x \in Sides : x = "send" \/ x = "recv"
      BY <2>4 DEF Sides
    <3>2. call'[u] = none
      BY <1>1, <1>2, <2>1, <2>4 DEF NextSide, Return
    <3>3. call'[u] \notin {"flush", "try_flush"}
      BY SMT, <3>2 DEF none
    <3>4. \A x \in Sides : Len(out[x]) >= g[x]
      BY <1>5, <2>2, <3>1
    <3> QED  BY <1>3, <3>3, <3>4 DEF FlushGoal, IsFlush
  <2> QED  BY <2>3, <2>4
<1>11. CASE QResize(u)
  <2>1. pc[u] = "q_resize"
    BY <1>11 DEF QResize
  <2>2. pc[u] \in {"f_disable", "f_lock", "f_enable", "f_unlock", "o_top", "o_use", "o_pop"}
    BY <1>5
  <2> QED  BY SMT, <2>1, <2>2
<1> QED  BY <1>7, <1>8, <1>9, <1>10, <1>11

\* flush() and set_queue_size() themselves.
LEMMA FlushCalls ==
  ASSUME FlushesAlone, FlowInv, FlushInv, HasFlush, NEW u \in Users,
         FDisable(u) \/ FLock(u) \/ FBack(u) \/ FEnable(u) \/ FUnlock(u) \/ QResize(u)
  PROVE  DuringFlush' /\ \A v \in Users : FlushGoal(v)
<1>1. /\ pc \in [Procs -> Locations \ Halts] /\ FlowTypes /\ u \in Procs /\ DuringFlush
      /\ \A v \in Users : v \in Procs
      /\ at \in [Procs -> Sides] /\ call \in [Users -> CallNames \cup {none}]
  BY AsideFacts DEF Procs, FlushInv
<1>2. FlushTypes /\ left \in [Users -> Int] /\ disabled \in [Sides -> BOOLEAN]
  BY <1>1 DEF DuringFlush, FlushTypes
<1>3. call[u] \in Disabling /\ at[u] \in Sides
  <2>1. pc[u] \in DisablingLocs
    BY SMT DEF FDisable, FLock, FBack, FEnable, FUnlock, QResize, DisablingLocs
  <2> QED  BY <1>1, <2>1 DEF DuringFlush
<1>4. ASSUME NEW v \in Users \ {u} PROVE ~IsFlush(v)
  <2> SUFFICES ASSUME IsFlush(v) PROVE FALSE
    OBVIOUS
  <2>1. call[u] \in program[u].calls /\ call[v] \in program[v].calls /\ program \in Programs
    BY SMT, <1>3 DEF FlushInv, IsFlush, Disabling, none
  <2>2. program[v].calls \cap {"flush", "try_flush"} # {}
    BY <2>1 DEF IsFlush
  <2>3. program[u].calls \cap Disabling = {}
    BY <1>4, <2>1, <2>2 DEF FlushesAlone
  <2> QED  BY <1>3, <2>1, <2>3
<1>5. /\ UNCHANGED <<program, goal, out, taken, state>>
      /\ Growing
  <2>1. UNCHANGED <<program, goal, out, taken, state>>
    BY DEF FDisable, FLock, FBack, FEnable, FUnlock, QResize, threads, locals, client, history
  <2> QED  BY <1>1, <2>1, AsideFacts
<1>6. /\ at' = at \/ at' = [at EXCEPT ![u] = "recv"]
      /\ call' = call \/ call' = [call EXCEPT ![u] = none]
      /\ left' = left \/ \E n \in Int : left' = [left EXCEPT ![u] = n]
      /\ disabled' = disabled \/ \E b \in BOOLEAN : disabled' = [disabled EXCEPT ![at[u]] = b]
  <2>1. Len(q[at[u]]) \in Int
    BY SMT, <1>1, <1>3 DEF FlowTypes
  <2>2. left' = left \/ \E n \in Int : left' = [left EXCEPT ![u] = n]
    BY <2>1 DEF FDisable, FLock, FBack, FEnable, FUnlock, QResize, locals
  <2>3. disabled' = disabled \/ \E b \in BOOLEAN : disabled' = [disabled EXCEPT ![at[u]] = b]
    BY DEF FDisable, FLock, FBack, FEnable, FUnlock, QResize, queues
  <2>4. /\ at' = at \/ at' = [at EXCEPT ![u] = "recv"]
        /\ call' = call \/ call' = [call EXCEPT ![u] = none]
    BY DEF FDisable, FLock, FBack, FEnable, FUnlock, QResize, NextSide, Return, locals
  <2> QED  BY <2>2, <2>3, <2>4
<1>7. PICK f \in {pc, WakePaused(pc, at[u])},
           l \in {"idle", "f_disable", "f_lock", "f_enable", "q_resize", "f_unlock", "o_top"} :
        pc' = [f EXCEPT ![u] = l] /\ (call' = call \/ l = "idle")
  <2>1. CASE FDisable(u) \/ FLock(u) \/ FEnable(u)
    BY <2>1 DEF FDisable, FLock, FEnable, NextSide, Return, locals
  <2>2. CASE FBack(u) \/ FUnlock(u) \/ QResize(u)
    BY <2>2 DEF FBack, FUnlock, QResize, NextSide, Return, locals
  <2> QED  BY <2>1, <2>2
<1>8. /\ f \in [Procs -> Locations \ Halts]
      /\ \A r \in Procs : f[r] = pc[r] \/ (pc[r] = "w_asleep" /\ f[r] = "w_check")
  BY SMTT(30), <1>1, <1>7 DEF WakePaused, Locations, Halts
<1>9. /\ pc' \in [Procs -> Locations \ Halts] /\ pc'[u] = l
      /\ \A v \in Users \ {u} :
           pc'[v] = pc[v] \/ (pc[v] = "w_asleep" /\ pc'[v] = "w_check")
  BY SMT, <1>1, <1>7, <1>8 DEF Locations, Halts
<1>10. left' \in [Users -> Int] /\ disabled' \in [Sides -> BOOLEAN]
  BY <1>2, <1>3, <1>6
<1>11. FlushTypes'
  <2>1. ret' = ret \/ \E c \in {"ok", "again"} : ret' = [ret EXCEPT ![u] = c]
    BY DEF FDisable, FLock, FBack, FEnable, FUnlock, QResize, NextSide, Return, locals
  <2>2. ret' \in [Users -> {none, "ok", "again", "invalid"}]
    BY <1>2, <2>1 DEF FlushTypes
  <2> QED  BY <1>2, <1>5, <1>9, <1>10, <2>2 DEF FlushTypes
<1>12. \A v \in Users \ {u} : at'[v] = at[v] /\ call'[v] = call[v] /\ left'[v] = left[v]
  BY <1>1, <1>2, <1>6
<1>13. Steady(u)
  BY <1>4, <1>5, <1>9, <1>11, <1>12 DEF Steady
<1>14. call'[u] = call[u] \/ call'[u] = none
  BY <1>1, <1>6
<1>15. pc'[u] \in DisablingLocs => call'[u] \in Disabling
  <2>1. l \in DisablingLocs => l # "idle"
    BY SMT DEF DisablingLocs
  <2> QED  BY <1>3, <1>7, <1>9, <2>1
<1>16. CASE ~IsFlush(u)
  <2>1. call'[u] \notin {"flush", "try_flush"}
    BY SMT, <1>14, <1>16 DEF IsFlush, none
  <2>2. ~IsFlush(u)' /\ FlushGoal(u)
    BY <1>16, <2>1 DEF IsFlush, FlushGoal
  <2> QED  BY <1>1, <1>13, <1>15, <2>2, SteadyStep
<1>17. CASE IsFlush(u)
  <2>1. (IsFlush(u)' => FlushPlace(u)') /\ FlushGoal(u)
    BY <1>1, <1>17, FlushOwn
  <2> QED  BY <1>1, <1>13, <1>15, <2>1, SteadyStep
<1> QED  BY <1>16, <1>17

\* A call begins.
LEMMA FlushBegin ==
  ASSUME FlushesAlone, FlowInv, FlushInv, HasFlush, NEW u \in Users, NEW c \in CallNames,
         Begin(u, c)
  PROVE  DuringFlush' /\ \A v \in Users : FlushGoal(v)
<1>1. /\ pc \in [Procs -> Locations \ Halts] /\ FlowTypes /\ u \in Procs /\ DuringFlush
      /\ \A v \in Users : v \in Procs
      /\ at \in [Procs -> Sides] /\ call \in [Users -> CallNames \cup {none}]
  BY AsideFacts DEF Procs, FlushInv
<1>2. /\ FlushTypes /\ goal \in [Users -> [Sides -> Nat]] /\ taken \in [Sides -> Nat]
      /\ ret \in [Users -> {none, "ok", "again", "invalid"}]
  BY <1>1 DEF DuringFlush, FlushTypes, FlowTypes
<1>3. c \notin {"stop", "try_stop"}
  <2>1. PICK v \in Users : program[v].calls \cap {"flush", "try_flush"} # {}
    BY DEF HasFlush
  <2>2. program[u].calls \cap {"stop", "try_stop"} = {} /\ c \in program[u].calls
    BY <2>1 DEF FlushesAlone, FlushInv, Begin
  <2> QED  BY <2>2
<1>4. /\ UNCHANGED <<program, disabled, state, left, out, taken>> /\ Growing
      /\ call' = [call EXCEPT ![u] = c] /\ ret' = [ret EXCEPT ![u] = none]
      /\ pc[u] = "idle"
  BY <1>1, AsideFacts DEF Begin, queues, threads, client, history
<1>5. PICK l : /\ pc' = [pc EXCEPT ![u] = l]
               /\ l = CASE c \in {"flush", "try_flush", "set_size", "try_set_size"} -> "f_disable"
                        [] c \in {"stop", "try_stop"} -> "stop"
                        [] c \in {"handle", "handle_nonblock"} -> "handle"
                        [] OTHER -> c
  BY DEF Begin
<1>6. /\ l \in Locations \ Halts
      /\ l \in DisablingLocs => c \in {"flush", "try_flush", "set_size", "try_set_size"}
      /\ c \in {"flush", "try_flush"} => l = "f_disable"
  BY SMTT(30), <1>3, <1>5 DEF CallNames, Locations, Halts, DisablingLocs
<1>7. /\ pc' \in [Procs -> Locations \ Halts] /\ pc'[u] = l
      /\ \A v \in Users \ {u} : pc'[v] = pc[v]
  BY <1>1, <1>5, <1>6
<1>8. /\ goal' \in [Users -> [Sides -> Nat]] /\ \A v \in Users \ {u} : goal'[v] = goal[v]
      /\ c \in {"flush", "try_flush"} => goal'[u] = taken
  <2>1. CASE c \in {"flush", "try_flush"}
    <3>1. goal' = [goal EXCEPT ![u] = taken]
      BY <2>1 DEF Begin
    <3> QED  BY <1>2, <3>1
  <2>2. CASE c \notin {"flush", "try_flush"}
    <3>1. goal' = [goal EXCEPT ![u] = goal[u]]
      BY <2>2 DEF Begin
    <3> QED  BY <1>2, <2>2, <3>1
  <2> QED  BY <2>1, <2>2
<1>9. FlushTypes'
  <2>1. ret' \in [Users -> {none, "ok", "again", "invalid"}]
    BY <1>2, <1>4
  <2> QED  BY <1>2, <1>4, <1>7, <1>8, <2>1 DEF FlushTypes
<1>10. \A v \in Users \ {u} : at'[v] = at[v] /\ call'[v] = call[v] /\ left'[v] = left[v]
  BY <1>1, <1>4 DEF Begin
<1>11. Steady(u)
  BY <1>4, <1>7, <1>8, <1>9, <1>10 DEF Steady
<1>12. pc'[u] \in DisablingLocs => call'[u] \in Disabling
  <2>1. call'[u] = c
    BY <1>1, <1>4
  <2> QED  BY <1>5, <1>6, <1>7, <2>1 DEF Disabling
<1>13. ~IsFlush(u)
  <2>1. pc[u] \notin {"f_disable", "f_lock", "f_enable", "f_unlock", "o_top", "o_use", "o_pop"}
    BY SMTT(30), <1>4
  <2> QED  BY <1>1, <2>1, AsideFacts
<1>14. IsFlush(u)' => FlushPlace(u)'
  <2> SUFFICES ASSUME IsFlush(u)' PROVE FlushPlace(u)'
    BY Zenon
  <2>1. c \in {"flush", "try_flush"}
    BY <1>1, <1>4 DEF IsFlush
  <2>2. at'[u] = "send" /\ pc'[u] = "f_disable" /\ goal'[u] = taken
    BY <1>1, <1>6, <1>7, <1>8, <2>1 DEF Begin
  <2>3. \A x \in Sides : taken[x] \in Nat
    BY <1>2
  <2> QED  BY SMT, <1>4, <2>2, <2>3 DEF FlushPlace
<1> QED  BY <1>1, <1>11, <1>12, <1>13, <1>14, SteadyStep DEF FlushGoal

\* The calls end, and no other call begins.
LEMMA CallsEnd ==
  ASSUME FlowInv,
         \/ \E u \in Users : CallStep(u)
         \/ \E p \in Procs : WorkStep(p) \/ WakeUp(p)
         \/ SHalted \/ RecvStep
  PROVE  program' = program /\ \A u \in Users : call'[u] \in {call[u], none}
<1>1. ASSUME NEW p \in Procs, call' = [call EXCEPT ![p] = none]
      PROVE  \A u \in Users : call'[u] \in {call[u], none}
  BY <1>1 DEF FlowInv, FlowTypes
<1>2. ASSUME NEW u \in Users, CallStep(u)
      PROVE  program' = program /\ (call' = call \/ call' = [call EXCEPT ![u] = none])
  <2>1. CASE \/ PubSpawn(u) \/ PushIfRoom(u) \/ Pause(u) \/ Resume(u) \/ StartOrRun(u)
             \/ RunEnd(u) \/ Handle(u) \/ HandleLock(u)
    BY <2>1 DEF PubSpawn, PushIfRoom, Pause, Resume, StartOrRun, RunEnd, Handle, HandleLock,
       Return, locals, client
  <2>2. CASE FDisable(u) \/ FLock(u) \/ FBack(u) \/ FEnable(u) \/ FUnlock(u) \/ QResize(u)
    BY <2>2 DEF FDisable, FLock, FBack, FEnable, FUnlock, QResize, NextSide, Return, locals, client
  <2>3. CASE \/ Stop(u) \/ StopJoin(u) \/ StopSend(u) \/ StopJoinSend(u)
             \/ StopTry(u) \/ StopTrySend(u) \/ StopEnd(u)
    BY <2>3 DEF Stop, StopJoin, StopSend, StopJoinSend, StopTry, StopTrySend, StopEnd, TryJoin,
       Return, locals, client
  <2> QED  BY <1>2, <2>1, <2>2, <2>3 DEF CallStep
<1>3. ASSUME NEW p \in Procs, WorkStep(p) \/ WakeUp(p)
      PROVE  program' = program /\ (call' = call \/ call' = [call EXCEPT ![p] = none])
  BY <1>3 DEF WorkStep, WCheck, WSleep, WakeUp, WLock, OTop, OCheck, OUse, OPop, OneDone, HSpawn,
     HHalt, HJoin, HHalted, Return, locals, client
<1>4. ASSUME SHalted \/ RecvStep PROVE UNCHANGED <<program, call>>
  BY <1>4 DEF SHalted, RecvStep, RCheck, RRecv, RPush, RHalted, locals, client
<1>5. \A u \in Users : u \in Procs
  BY DEF Procs
<1> QED  BY <1>1, <1>2, <1>3, <1>4, <1>5

\* One step of Next.
LEMMA FlushNext ==
  ASSUME FlushesAlone, FlowInv, FlushInv, Next
  PROVE  FlushInv' /\ \A u \in Users : FlushGoal(u)
<1>1. /\ program' = program /\ program \in Programs
      /\ \A u \in Users : call'[u] \in program[u].calls \cup {none}
  <2>1. CASE \E u \in Users, c \in CallNames : Begin(u, c)
    <3>1. PICK u \in Users, c \in CallNames : Begin(u, c)
      BY <2>1
    <3>2. /\ call \in [Users -> CallNames \cup {none}] /\ call' = [call EXCEPT ![u] = c]
          /\ c \in program[u].calls /\ program' = program
      BY <3>1 DEF Begin, FlowInv, FlowTypes
    <3>3. \A v \in Users : call'[v] \in {call[v], c} /\ (v # u => call'[v] = call[v])
      BY <3>2
    <3> QED  BY <3>2, <3>3 DEF FlushInv
  <2>2. CASE ~\E u \in Users, c \in CallNames : Begin(u, c)
    BY <2>2, CallsEnd DEF Next, FlushInv
  <2> QED  BY <2>1, <2>2
<1>2. HasFlush' <=> HasFlush
  BY <1>1 DEF HasFlush
<1>3. CASE ~HasFlush
  <2>1. ASSUME NEW u \in Users PROVE ~IsFlush(u)
    <3>1. call[u] \in {"flush", "try_flush"} => call[u] # none
      BY SMT DEF none
    <3> QED  BY <1>3, <3>1 DEF IsFlush, HasFlush, FlushInv
  <2> QED  BY <1>1, <1>2, <1>3, <2>1 DEF FlushInv, FlushGoal
<1>4. CASE HasFlush
  <2>1. DuringFlush /\ \A p \in Procs : pc[p] \notin Halts
    BY <1>4 DEF FlushInv, DuringFlush, FlushTypes
  <2>2. ASSUME NEW u \in Users, NEW c \in CallNames, Begin(u, c)
        PROVE  DuringFlush' /\ \A v \in Users : FlushGoal(v)
    BY <1>4, <2>2, FlushBegin
  <2>3. ASSUME NEW u \in Users, CallStep(u)
        PROVE  DuringFlush' /\ \A v \in Users : FlushGoal(v)
    <3>1. u \in Procs
      BY DEF Procs
    <3>2. ~(\/ RunEnd(u) \/ Stop(u) \/ StopJoin(u) \/ StopSend(u) \/ StopJoinSend(u)
            \/ StopTry(u) \/ StopTrySend(u) \/ StopEnd(u))
      <4>1. pc[u] \notin Halts
        BY <2>1, <3>1
      <4> QED  BY SMT, <4>1 DEF Halts, RunEnd, Stop, StopJoin, StopSend, StopJoinSend, StopTry,
                  StopTrySend, StopEnd
    <3>3. CASE \/ PubSpawn(u) \/ PushIfRoom(u) \/ Pause(u) \/ Resume(u) \/ StartOrRun(u)
               \/ Handle(u) \/ HandleLock(u)
      BY <2>1, <3>3, AsideCalls
    <3>4. CASE FDisable(u) \/ FLock(u) \/ FBack(u) \/ FEnable(u) \/ FUnlock(u) \/ QResize(u)
      BY <1>4, <3>4, FlushCalls
    <3> QED  BY <2>3, <3>2, <3>3, <3>4 DEF CallStep
  <2>4. ASSUME NEW p \in Procs, WorkStep(p) \/ WakeUp(p)
        PROVE  DuringFlush' /\ \A v \in Users : FlushGoal(v)
    <3>1. ~(HHalt(p) \/ HJoin(p) \/ HHalted(p))
      <4>1. pc[p] \notin Halts
        BY <2>1
      <4> QED  BY SMT, <4>1 DEF Halts, HHalt, HJoin, HHalted
    <3>2. CASE WCheck(p) \/ WSleep(p) \/ WakeUp(p) \/ WLock(p) \/ HSpawn(p)
      BY <2>1, <3>2, AsideLoop
    <3>3. CASE OTop(p) \/ OCheck(p) \/ OUse(p) \/ OPop(p)
      BY <2>1, <3>3, AsideOne, FlushOne
    <3> QED  BY <2>4, <3>1, <3>2, <3>3 DEF WorkStep
  <2>5. ~SHalted /\ ~RHalted
    <3>1. pc["S"] \notin Halts /\ pc["R"] \notin Halts
      BY <2>1, ThreadNames
    <3> QED  BY SMT, <3>1 DEF Halts, SHalted, RHalted
  <2>6. ASSUME RecvStep PROVE DuringFlush' /\ \A v \in Users : FlushGoal(v)
    BY <2>1, <2>5, <2>6, AsideRecv DEF RecvStep
  <2>7. DuringFlush' /\ \A v \in Users : FlushGoal(v)
    BY <2>2, <2>3, <2>4, <2>5, <2>6 DEF Next
  <2> QED  BY <1>1, <1>2, <2>7 DEF FlushInv
<1> QED  BY <1>3, <1>4

\* Nothing was called yet.
LEMMA FlushInit == Init => FlushInv
<1> SUFFICES ASSUME Init PROVE FlushInv
  OBVIOUS
<1>1. program \in Programs /\ \A u \in Users : call[u] = none /\ pc[u] = "idle" /\ u \in Procs
  BY SMT, UsersApart DEF Init, Procs
<1>2. FlushTypes
  <2>1. pc \in [Procs -> Locations \ Halts]
    BY SMT DEF Init, Locations, Halts
  <2>2. /\ state \in [{"send", "recv", "hndl"} -> {"stopped", "running"}]
        /\ left \in [Users -> Int] /\ goal \in [Users -> [Sides -> Nat]]
        /\ disabled \in [Sides -> BOOLEAN]
        /\ ret \in [Users -> {none, "ok", "again", "invalid"}]
    BY SMT DEF Init
  <2> QED  BY <2>1, <2>2 DEF FlushTypes
<1>3. ASSUME NEW u \in Users PROVE pc[u] \notin DisablingLocs /\ ~IsFlush(u)
  <2>1. pc[u] \notin DisablingLocs
    BY SMT, <1>1 DEF DisablingLocs
  <2>2. call[u] \notin {"flush", "try_flush"}
    BY SMT, <1>1 DEF none
  <2> QED  BY <2>1, <2>2 DEF IsFlush
<1> QED  BY <1>1, <1>2, <1>3 DEF FlushInv, DuringFlush

\* The invariant speaks of the variables only.
LEMMA FlushStutter ==
  ASSUME FlushInv, UNCHANGED vars
  PROVE  FlushInv'
<1>1. UNCHANGED <<program, call, state, pc, at, left, goal, disabled, ret, out, taken>>
  BY DEF vars, queues, threads, locals, client, history
<1>2. /\ FlushTypes' <=> FlushTypes
      /\ HasFlush' <=> HasFlush
  BY <1>1 DEF FlushTypes, HasFlush
<1>3. ASSUME NEW u \in Users
      PROVE  (IsFlush(u)' <=> IsFlush(u)) /\ (FlushPlace(u)' <=> FlushPlace(u))
  BY <1>1 DEF IsFlush, FlushPlace
<1> QED  BY <1>1, <1>2, <1>3 DEF FlushInv, DuringFlush

\* FlushSendsAll: flush() returns only after everything that was published and
\* received before the call was sent and dispatched.  In the programs that give
\* it the queues to itself: the number of messages it counts under the mutex of
\* a side makes up for what is missing, whatever is published, received, paused
\* and handled meanwhile.
THEOREM FlushIsComplete == FlushesAlone => (Spec => FlushSendsAll)
<1> SUFFICES ASSUME FlushesAlone PROVE Spec => FlushSendsAll
  BY SMT
<1>1. FlowOrDied /\ FlushInv /\ [Next]_vars => FlushInv'
  <2> SUFFICES ASSUME FlowOrDied, FlushInv, [Next]_vars PROVE FlushInv'
    OBVIOUS
  <2>1. CASE Next
    <3>1. FlowInv
      BY <2>1 DEF Next, Alive, FlowOrDied
    <3> QED  BY <2>1, <3>1, FlushNext
  <2> QED  BY <2>1, FlushStutter
<1>2. FlowOrDied /\ FlushInv /\ [Next]_vars =>
        [\A u \in Users :
           /\ call[u] \in {"flush", "try_flush"}
           /\ call'[u] = none /\ ret'[u] = "ok"
           => \A s \in Sides : Len(out[s]) >= goal[u][s]]_vars
  <2> SUFFICES ASSUME FlowOrDied, FlushInv, Next, NEW u \in Users,
                      call[u] \in {"flush", "try_flush"}, call'[u] = none, ret'[u] = "ok"
               PROVE  \A s \in Sides : Len(out[s]) >= goal[u][s]
    BY Zenon
  <2>1. FlowInv
    BY DEF Next, Alive, FlowOrDied
  <2>2. FlushGoal(u)
    BY <2>1, FlushNext
  <2> QED  BY <2>2 DEF FlushGoal, IsFlush
<1> QED  BY <1>1, <1>2, FlushInit, QueuesInvariant, PTL DEF Spec, FlushSendsAll
=============================================================================
