------------------------------ MODULE ShmOpen ------------------------------
(***************************************************************************)
(* Creating and joining the shared memory region of the ipcshm transport:  *)
(* the constructor in transport_ipcshm.cpp with lf_shm.c, the mem_init and *)
(* mem_join of lf_bcast.c and lf_pool.c, and the first use of the region.  *)
(* Any number of processes run it at the same time and may die anywhere.   *)
(*                                                                         *)
(* A file is created empty, grows by ftruncate and is all zeros until      *)
(* mem_init writes it.  The stores of one function may become visible in   *)
(* any order; those of lf_bcast_mem_init come before those of              *)
(* lf_pool_mem_init, which it calls in another translation unit, and these *)
(* before the compare-and-swaps that fill the free list.                   *)
(***************************************************************************)
EXTENDS Integers, FiniteSets

CONSTANTS
  Procs,
  Geometries,  \* what urls ask for: records of depth, elt_sz and the region's size
  MaxFiles,    \* files that have the name, one after the other
  MaxCrashes,
  MaxFailures  \* calls of the system that fail for lack of resources

ASSUME ShmAssumption ==
  /\ \A g \in Geometries :
       g.depth \in Nat \ {0} /\ g.elt_sz \in Nat \ {0} /\ g.size \in Nat \ {0}
  /\ MaxFiles \in Nat /\ MaxCrashes \in Nat /\ MaxFailures \in Nat

\* The fields mem_init writes: of the queue, then of the pool.
BcastFields == {"depth_mask", "elt_sz", "indices", "pool_off"}
PoolFields  == {"num_elts", "pool_elt_sz", "elt_align"}

None == 0
Files == 1..MaxFiles

VARIABLES
  path,        \* the file that has the name now, or None
  files,       \* of each file its size, the fields written, the geometry
               \* they were written from, and the elements put in the pool
  made,        \* files created so far
  pc, geom, created,
  mem,         \* the file a process has mapped
  inits,       \* how often mem_init was called on each file
  crashes, failures

vars == <<path, files, made, pc, geom, created, mem, inits, crashes, failures>>

NoGeometry == [depth |-> 0, elt_sz |-> 0, size |-> 0]
Zeros == [size |-> 0, set |-> {}, geometry |-> NoGeometry, free |-> 0]

Init ==
  /\ path = None /\ made = 0
  /\ files = [f \in Files |-> Zeros]
  /\ pc = [p \in Procs |-> "off"] /\ geom \in [Procs -> Geometries]
  /\ created = [p \in Procs |-> FALSE] /\ mem = [p \in Procs |-> None]
  /\ inits = [f \in Files |-> 0] /\ crashes = 0 /\ failures = 0

Goto(p, l) == pc' = [pc EXCEPT ![p] = l]

\* The system may refuse what it is asked for.
Refuse == failures < MaxFailures /\ failures' = failures + 1

----------------------------------------------------------------------------
(* lf_shm_create *)

\* open with O_CREAT and O_EXCL.
CreateFile(p) ==
  /\ pc[p] = "off"
  /\ IF path = None
       THEN /\ made < MaxFiles /\ made' = made + 1 /\ path' = made + 1
            /\ Goto(p, "truncate")
       ELSE Goto(p, "open") /\ UNCHANGED <<made, path>>
  /\ created' = [created EXCEPT ![p] = FALSE]
  /\ UNCHANGED <<files, geom, mem, inits, crashes, failures>>

\* The file p has just created, which has the name while p goes on.
ftruncate(p) ==
  /\ pc[p] = "truncate" /\ Goto(p, "open")
  /\ \/ /\ files' = [files EXCEPT ![path].size = geom[p].size]
        /\ created' = [created EXCEPT ![p] = TRUE]
        /\ UNCHANGED failures
     \/ Refuse /\ UNCHANGED <<files, created>>
  /\ UNCHANGED <<path, made, geom, mem, inits, crashes>>

----------------------------------------------------------------------------
(* lf_shm_open *)

\* open, fstat, mmap and mlock; nothing can be mapped of an empty file.
lf_shm_open(p) ==
  /\ pc[p] = "open"
  /\ \/ /\ path # None /\ files[path].size > 0
        /\ mem' = [mem EXCEPT ![p] = path] /\ Goto(p, "mapped")
        /\ UNCHANGED failures
     \/ /\ path = None \/ files[path].size = 0
        /\ Goto(p, "failed") /\ UNCHANGED <<mem, failures>>
     \/ Refuse /\ Goto(p, "failed") /\ UNCHANGED mem
  /\ UNCHANGED <<path, files, made, geom, created, inits, crashes>>

----------------------------------------------------------------------------
(* The rest of the constructor. *)

\* A region of another size is left alone.
CheckSize(p) ==
  /\ pc[p] = "mapped"
  /\ IF files[mem[p]].size # geom[p].size
       THEN Goto(p, "failed") /\ mem' = [mem EXCEPT ![p] = None] /\ UNCHANGED inits
       ELSE /\ Goto(p, IF created[p] THEN "init" ELSE "join") /\ UNCHANGED mem
            /\ inits' = IF created[p] THEN [inits EXCEPT ![mem[p]] = @ + 1] ELSE inits
  /\ UNCHANGED <<path, files, made, geom, created, crashes, failures>>

\* The pool may be set up before the queue.
NextFields_Mixed(set) == (BcastFields \cup PoolFields) \ set

\* The fields whose stores may come next.
NextFields(set) == IF BcastFields \subseteq set THEN PoolFields \ set
                                                ELSE BcastFields \ set

\* lf_bcast_mem_init and lf_pool_mem_init store one field.
mem_init(p) ==
  /\ pc[p] = "init"
  /\ \E x \in NextFields(files[mem[p]].set) :
       files' = [files EXCEPT ![mem[p]].set = @ \cup {x}, ![mem[p]].geometry = geom[p]]
  /\ UNCHANGED <<path, made, pc, geom, created, mem, inits, crashes, failures>>

\* The loop of lf_pool_release over all elements.
FillPool(p) ==
  /\ pc[p] = "init" /\ NextFields(files[mem[p]].set) = {}
  /\ IF files[mem[p]].free < geom[p].depth
       THEN files' = [files EXCEPT ![mem[p]].free = @ + 1] /\ UNCHANGED pc
       ELSE Goto(p, "subscribe") /\ UNCHANGED files
  /\ UNCHANGED <<path, made, geom, created, mem, inits, crashes, failures>>

\* What a process of geometry g stores in a field, and compares it with.
Expected(x, g) == CASE x = "depth_mask"                 -> g.depth - 1
                    [] x = "num_elts"                   -> g.depth
                    [] x \in {"elt_sz", "pool_elt_sz"} -> g.elt_sz
                    [] OTHER                            -> 1

Stored(f, x) == IF x \in files[f].set THEN Expected(x, files[f].geometry) ELSE 0

Agrees(f, fields, g) == \A x \in fields : Stored(f, x) = Expected(x, g)

\* The mask is compared with the depth it was made from.
lf_bcast_mem_join_Depth(p) ==
  /\ pc[p] = "join"
  /\ IF Stored(mem[p], "depth_mask") = geom[p].depth /\ Agrees(mem[p], {"elt_sz"}, geom[p])
       THEN Goto(p, "join_pool") /\ UNCHANGED mem
       ELSE Goto(p, "failed") /\ mem' = [mem EXCEPT ![p] = None]
  /\ UNCHANGED <<path, files, made, geom, created, inits, crashes, failures>>

\* Fails if some field is not as expected; without pool_off the pool would be
\* looked for at the start of the region, where depth - 1 is stored at most.
lf_bcast_mem_join(p) ==
  /\ pc[p] = "join"
  /\ IF Agrees(mem[p], {"depth_mask", "elt_sz"}, geom[p])
       THEN Goto(p, "join_pool") /\ UNCHANGED mem
       ELSE Goto(p, "failed") /\ mem' = [mem EXCEPT ![p] = None]
  /\ UNCHANGED <<path, files, made, geom, created, inits, crashes, failures>>

lf_pool_mem_join(p) ==
  /\ pc[p] = "join_pool"
  /\ IF "pool_off" \in files[mem[p]].set /\ Agrees(mem[p], PoolFields, geom[p])
       THEN Goto(p, "subscribe") /\ UNCHANGED mem
       ELSE Goto(p, "failed") /\ mem' = [mem EXCEPT ![p] = None]
  /\ UNCHANGED <<path, files, made, geom, created, inits, crashes, failures>>

\* lf_bcast_sub_init and the allocation of the receive buffer.
SubInit(p) ==
  /\ pc[p] = "subscribe"
  /\ \/ Goto(p, "ready") /\ UNCHANGED <<mem, failures>>
     \/ Refuse /\ Goto(p, "failed") /\ mem' = [mem EXCEPT ![p] = None]
  /\ UNCHANGED <<path, files, made, geom, created, inits, crashes>>

----------------------------------------------------------------------------
(* Use and end. *)

\* sendmsg of a process that joined: with no element in the pool, and none in
\* the queue of a region nobody has published to, it calls abort.
sendmsg(p) ==
  /\ pc[p] = "ready" /\ files[mem[p]].free = 0
  /\ Goto(p, "aborted") /\ mem' = [mem EXCEPT ![p] = None]
  /\ UNCHANGED <<path, files, made, geom, created, inits, crashes, failures>>

\* A process leaves the region, or gives up, and may be started again.
Leave(p) ==
  /\ pc[p] \in {"ready", "failed"}
  /\ Goto(p, "off") /\ mem' = [mem EXCEPT ![p] = None]
  /\ UNCHANGED <<path, files, made, geom, created, inits, crashes, failures>>

Crash(p) ==
  /\ crashes < MaxCrashes /\ crashes' = crashes + 1
  /\ pc[p] \notin {"off", "failed", "aborted"}
  /\ Goto(p, "off") /\ mem' = [mem EXCEPT ![p] = None]
  /\ UNCHANGED <<path, files, made, geom, created, inits, failures>>

\* The advice of the error message: rm, once the segment is unused.
Remove ==
  /\ path # None /\ \A p \in Procs : pc[p] \in {"off", "failed", "aborted"}
  /\ path' = None
  /\ UNCHANGED <<files, made, pc, geom, created, mem, inits, crashes, failures>>

Step(p) ==
  \/ CreateFile(p) \/ ftruncate(p) \/ lf_shm_open(p) \/ CheckSize(p)
  \/ mem_init(p) \/ FillPool(p) \/ lf_bcast_mem_join(p) \/ lf_pool_mem_join(p)
  \/ SubInit(p)

Next == Remove \/ \E p \in Procs : Step(p) \/ sendmsg(p) \/ Leave(p) \/ Crash(p)

Spec == Init /\ [][Next]_vars
----------------------------------------------------------------------------
(* Properties. *)

PCs == {"off", "truncate", "open", "mapped", "init", "join", "join_pool",
        "subscribe", "ready", "failed", "aborted"}

AllFields == BcastFields \cup PoolFields
Region == [size : Nat, set : SUBSET AllFields, geometry : Geometries \cup {NoGeometry},
           free : Nat]

\* Every variable has the values the code can give it.
TypeOK ==
  /\ path \in Files \cup {None} /\ made \in 0..MaxFiles
  /\ files \in [Files -> Region] /\ inits \in [Files -> Nat]
  /\ pc \in [Procs -> PCs] /\ geom \in [Procs -> Geometries]
  /\ created \in [Procs -> BOOLEAN] /\ mem \in [Procs -> Files \cup {None}]

\* No process gets through the constructor with a queue whose indices and
\* offsets are not written yet, or that has the layout of another url: the
\* comparisons in mem_join are enough although nothing else tells a joiner how
\* far the creator is, or whether it died.
JoinedInitialised ==
  \A p \in Procs : pc[p] \in {"subscribe", "ready"} =>
    /\ BcastFields \subseteq files[mem[p]].set
    /\ files[mem[p]].geometry.depth = geom[p].depth
    /\ files[mem[p]].geometry.elt_sz = geom[p].elt_sz

\* mem_init runs at most once on a region, whoever restarts or joins: the
\* indices of a queue in use are never reset.
InitOnce == \A f \in Files : inits[f] <= 1

-----------------------------------------------------------------------------
(* The inductive invariant. *)

Attached == {"mapped", "init", "join", "join_pool", "subscribe", "ready"}
Away == {"off", "failed", "aborted"}

\* A process has a region mapped exactly while it may touch it; the file it
\* works on keeps the name, which is that of the newest file.
Attachment ==
  /\ path # None => path = made
  /\ \A f \in Files : f > made => files[f] = Zeros /\ inits[f] = 0
  /\ \A p \in Procs :
       /\ mem[p] = IF pc[p] \in Attached THEN path ELSE None
       /\ pc[p] \notin Away => path # None

\* What is stored in a region is in the order of the stores, of one geometry
\* that has the region's size, and the pool is filled last and not over-full.
RegionSound(f) ==
  LET r == files[f] IN
  /\ r.set # {} => r.geometry \in Geometries /\ r.size = r.geometry.size
  /\ r.set \cap PoolFields # {} => BcastFields \subseteq r.set
  /\ r.free > 0 => AllFields \subseteq r.set /\ r.free <= r.geometry.depth
  /\ inits[f] <= 1

\* p has created the file that has the name and is still setting it up.
Creating(p) ==
  \/ pc[p] = "truncate"
  \/ created[p] /\ pc[p] \in {"open", "mapped", "init"}

\* What a creator relies on: nobody else has written to its file.
CreatorLocal(p) ==
  /\ pc[p] = "truncate" => ~created[p] /\ files[path] = Zeros /\ inits[path] = 0
  /\ pc[p] \in {"open", "mapped"} /\ created[p] =>
       /\ files[path] = [Zeros EXCEPT !.size = geom[p].size]
       /\ inits[path] = 0
  /\ pc[p] = "init" =>
       /\ created[p]
       /\ files[path].size = geom[p].size
       /\ files[path].set # {} => files[path].geometry = geom[p]

\* What lf_bcast_mem_join has established before lf_pool_mem_join.
JoinerLocal(p) ==
  pc[p] = "join_pool" =>
    /\ "elt_sz" \in files[path].set
    /\ files[path].geometry.elt_sz = geom[p].elt_sz

ShmInv ==
  /\ TypeOK
  /\ Attachment
  /\ \A f \in Files : RegionSound(f)
  /\ \A p, q \in Procs : Creating(p) /\ Creating(q) => p = q
  /\ \A p \in Procs : CreatorLocal(p) /\ JoinerLocal(p)
  /\ JoinedInitialised

-----------------------------------------------------------------------------
Finished(f) == files[f].free > 0 /\ files[f].free = files[f].geometry.depth

NotRefused(p) ==
  /\ pc[p] \in {"mapped", "join", "join_pool"}
  /\ Finished(mem[p]) /\ geom[p] = files[mem[p]].geometry
  => pc'[p] # "failed"

\* A url that fits a region whose creator got through is never refused, except
\* for lack of resources.
FinishedIsJoinable == [][\A p \in Procs : NotRefused(p)]_vars
=============================================================================
