--------------------------- MODULE ShmOpenProofs ----------------------------
(***************************************************************************)
(* Creating and joining a shared memory region, for any number of          *)
(* processes, urls, files, crashes and refused calls.                      *)
(***************************************************************************)
EXTENDS ShmOpen, TLAPS

\* Nothing exists before the first process starts.
LEMMA ShmInit ==
  ASSUME Init
  PROVE  ShmInv
<1>1. Zeros \in Region
  BY DEF Zeros, Region, NoGeometry
<1>2. TypeOK
  BY <1>1, ShmAssumption DEF Init, TypeOK, Files, None, PCs, ShmAssumption
<1>3. Attachment
  BY DEF Init, Attachment, Attached, Away, Files, None
<1>4. \A f \in Files : RegionSound(f)
  BY DEF Init, RegionSound, Zeros
<1>5. \A p \in Procs :
        ~Creating(p) /\ CreatorLocal(p) /\ JoinerLocal(p)
        /\ pc[p] \notin {"subscribe", "ready"}
  BY DEF Init, Creating, CreatorLocal, JoinerLocal
<1> QED  BY <1>2, <1>3, <1>4, <1>5, Zenon DEF ShmInv, JoinedInitialised

\* What a step of p leaves of the other processes.
Others(p) ==
  \A q \in Procs \ {p} :
    pc'[q] = pc[q] /\ created'[q] = created[q] /\ mem'[q] = mem[q]

\* Every step of a process changes the location of that process only.
LEMMA StepOthers ==
  ASSUME ShmInv, NEW p \in Procs,
         Step(p) \/ sendmsg(p) \/ Leave(p) \/ Crash(p)
  PROVE  Others(p) /\ geom' = geom
<1>1. pc \in [Procs -> PCs] /\ created \in [Procs -> BOOLEAN]
      /\ mem \in [Procs -> Files \cup {None}]
  BY Zenon DEF ShmInv, TypeOK
<1> USE DEF Others, Goto
<1>2. CASE Step(p)
  BY <1>1, <1>2 DEF Step, CreateFile, ftruncate, lf_shm_open, CheckSize, mem_init,
       FillPool, lf_bcast_mem_join, lf_pool_mem_join, SubInit
<1>3. CASE sendmsg(p) \/ Leave(p) \/ Crash(p)
  BY <1>1, <1>3 DEF sendmsg, Leave, Crash
<1> QED  BY <1>2, <1>3, Zenon

-----------------------------------------------------------------------------
(* What others rely on survives a step. *)

\* What process p gets through the constructor with.
Joined(p) ==
  pc[p] \in {"subscribe", "ready"} =>
    /\ BcastFields \subseteq files[path].set
    /\ files[path].geometry.depth = geom[p].depth
    /\ files[path].geometry.elt_sz = geom[p].elt_sz

\* The invariant as a statement about each file and each process.
Local(p) ==
  /\ mem[p] = IF pc[p] \in Attached THEN path ELSE None
  /\ pc[p] \notin Away => path # None
  /\ CreatorLocal(p) /\ JoinerLocal(p) /\ Joined(p)

Names ==
  /\ path # None => path = made
  /\ \A f \in Files : f > made => files[f] = Zeros /\ inits[f] = 0

OneCreator == \A p, q \in Procs : Creating(p) /\ Creating(q) => p = q

LEMMA ShmInvLocal ==
  ShmInv <=> /\ TypeOK /\ Names /\ OneCreator
             /\ \A f \in Files : RegionSound(f)
             /\ \A p \in Procs : Local(p)
<1>1. ASSUME \A p \in Procs : mem[p] = IF pc[p] \in Attached THEN path ELSE None
      PROVE  JoinedInitialised <=> \A p \in Procs : Joined(p)
  <2>1. \A p \in Procs : pc[p] \in {"subscribe", "ready"} => mem[p] = path
    BY <1>1 DEF Attached
  <2> QED  BY <2>1, Zenon DEF JoinedInitialised, Joined
<1> QED  BY <1>1, Zenon DEF ShmInv, Attachment, Names, OneCreator, Local

LEMMA ShmInvLocalNext ==
  ShmInv' <=> /\ TypeOK' /\ Names' /\ OneCreator'
              /\ \A f \in Files : RegionSound(f)'
              /\ \A p \in Procs : Local(p)'
<1>1. ASSUME \A p \in Procs : mem'[p] = IF pc'[p] \in Attached THEN path' ELSE None
      PROVE  JoinedInitialised' <=> \A p \in Procs : Joined(p)'
  <2>1. \A p \in Procs : pc'[p] \in {"subscribe", "ready"} => mem'[p] = path'
    BY <1>1 DEF Attached
  <2> QED  BY <2>1, Zenon DEF JoinedInitialised, Joined
<1> QED  BY <1>1, Zenon DEF ShmInv, Attachment, Names, OneCreator, Local

\* A step that touches no file.
LEMMA LocalStep ==
  ASSUME ShmInv, NEW p \in Procs, Others(p), geom' = geom, TypeOK',
         UNCHANGED <<path, made, files, inits>>,
         Creating(p)' => Creating(p), Local(p)'
  PROVE  ShmInv'
<1>1. Names' /\ \A f \in Files : RegionSound(f)'
  BY ShmInvLocal, Zenon DEF Names, RegionSound
<1>2. \A q \in Procs \ {p} : Creating(q)' = Creating(q)
  BY Zenon DEF Others, Creating
<1>3. OneCreator'
  BY <1>2, ShmInvLocal, Zenon DEF OneCreator
<1>4. ASSUME NEW q \in Procs \ {p} PROVE Local(q)'
  <2>1. Local(q)
    BY ShmInvLocal, Zenon
  <2> QED
    BY <2>1, Zenon DEF Local, Others, CreatorLocal, JoinerLocal, Joined
<1> QED  BY <1>1, <1>3, <1>4, ShmInvLocalNext, Zenon

\* A process that fails, leaves or dies.
LEMMA GoneStep ==
  ASSUME ShmInv, NEW p \in Procs, Others(p), geom' = geom, TypeOK',
         UNCHANGED <<path, made, files, inits>>,
         pc'[p] \in Away, mem'[p] = None
  PROVE  ShmInv'
<1>1. ~Creating(p)' /\ Local(p)'
  BY DEF Creating, Local, Attached, Away, CreatorLocal, JoinerLocal, Joined
<1> QED  BY <1>1, LocalStep, Zenon

\* A step of the creator on its file: what others have seen there stays.
LEMMA CreatorStep ==
  ASSUME ShmInv, NEW p \in Procs, Others(p), geom' = geom, TypeOK',
         UNCHANGED <<path, made>>, Creating(p), path \in Files,
         \A f \in Files \ {path} : files'[f] = files[f] /\ inits'[f] = inits[f],
         files[path].set \subseteq files'[path].set,
         files[path].set # {} => files'[path].geometry = files[path].geometry,
         RegionSound(path)', Local(p)'
  PROVE  ShmInv'
<1>1. path = made
  BY ShmInvLocal, ShmAssumption DEF Names, Files, None, ShmAssumption
<1>2. Names'
  <2>1. \A f \in Files : f > made => f # path
    BY <1>1, ShmAssumption DEF Files, ShmAssumption
  <2> QED  BY <1>1, <2>1, ShmInvLocal, Zenon DEF Names
<1>3. \A f \in Files : RegionSound(f)'
  BY ShmInvLocal, Zenon DEF RegionSound
<1>4. \A q \in Procs \ {p} : ~Creating(q) /\ ~Creating(q)'
  BY ShmInvLocal, Zenon DEF OneCreator, Others, Creating
<1>5. OneCreator'
  BY <1>4, Zenon DEF OneCreator
<1>6. ASSUME NEW q \in Procs \ {p} PROVE Local(q)'
  <2>1. Local(q)
    BY ShmInvLocal, Zenon
  <2>2. CreatorLocal(q)'
    BY <1>4, <2>1, Zenon DEF Creating, CreatorLocal, Local, Others
  <2>3. JoinerLocal(q)'
    BY <2>1 DEF JoinerLocal, Local, Others
  <2>4. Joined(q)'
    BY <2>1 DEF Joined, Local, Others, BcastFields
  <2> QED  BY <2>1, <2>2, <2>3, <2>4, Zenon DEF Local, Others
<1> QED  BY <1>2, <1>3, <1>5, <1>6, ShmInvLocalNext, Zenon

-----------------------------------------------------------------------------
(* The steps. *)

\* The types of the variables that a step works on.
LEMMA Types ==
  ASSUME TypeOK
  PROVE  /\ pc \in [Procs -> PCs] /\ created \in [Procs -> BOOLEAN]
         /\ mem \in [Procs -> Files \cup {None}] /\ geom \in [Procs -> Geometries]
         /\ files \in [Files -> Region] /\ inits \in [Files -> Nat]
         /\ path \in Files \cup {None} /\ made \in 0..MaxFiles
BY Zenon DEF TypeOK

\* open with O_CREAT and O_EXCL.
LEMMA CreateFileStep ==
  ASSUME ShmInv, NEW p \in Procs, CreateFile(p)
  PROVE  ShmInv'
<1> USE DEF Goto
<1>t. /\ TypeOK /\ Local(p) /\ Names /\ Others(p) /\ geom' = geom
      /\ pc \in [Procs -> PCs] /\ created \in [Procs -> BOOLEAN]
      /\ mem \in [Procs -> Files \cup {None}]
      /\ files \in [Files -> Region] /\ inits \in [Files -> Nat]
  BY ShmInvLocal, Types, StepOthers, Zenon DEF Step
<1>1. CASE path # None
  <2>1. /\ UNCHANGED <<path, made, files, geom, mem, inits>>
        /\ pc' = [pc EXCEPT ![p] = "open"] /\ pc[p] = "off"
        /\ created' = [created EXCEPT ![p] = FALSE]
    BY <1>1, Zenon DEF CreateFile
  <2>2. TypeOK'
    BY <1>t, <2>1 DEF TypeOK, PCs
  <2>3. pc'[p] = "open" /\ ~created'[p]
    BY <1>t, <2>1, Zenon
  <2>4. ~Creating(p)'
    BY <2>3 DEF Creating
  <2>5. Local(p)'
    BY <1>t, <1>1, <2>1, <2>3
       DEF Local, Attached, Away, CreatorLocal, JoinerLocal, Joined
  <2> QED  BY <1>t, <2>1, <2>2, <2>4, <2>5, LocalStep, Zenon
<1>2. CASE path = None
  <2>1. /\ UNCHANGED <<files, geom, mem, inits>>
        /\ made < MaxFiles /\ made' = made + 1 /\ path' = made + 1
        /\ pc' = [pc EXCEPT ![p] = "truncate"] /\ pc[p] = "off"
        /\ created' = [created EXCEPT ![p] = FALSE]
    BY <1>2, Zenon DEF CreateFile
  <2>2. /\ made' \in 1..MaxFiles /\ made' \in 0..MaxFiles /\ path' = made'
        /\ path' \in Files /\ path' > made
        /\ \A f \in Files : f > made' => f > made
    BY <1>t, <2>1, ShmAssumption DEF TypeOK, Files, ShmAssumption
  <2>3. TypeOK'
    BY <1>t, <2>1, <2>2 DEF TypeOK, PCs
  <2>4. files'[path'] = Zeros /\ inits'[path'] = 0
    BY <1>t, <2>1, <2>2, Zenon DEF Names
  <2>5. pc'[p] = "truncate" /\ ~created'[p]
    BY <1>t, <2>1, Zenon
  <2>6. Names'
    BY <1>t, <2>1, <2>2, Zenon DEF Names
  <2>7. \A f \in Files : RegionSound(f)'
    BY <2>1, ShmInvLocal, Zenon DEF RegionSound
  <2>8. \A q \in Procs \ {p} : pc'[q] \in Away /\ mem'[q] = None
    BY <1>t, <1>2, ShmInvLocal DEF Local, Others, Attached, Away, PCs
  <2>9. \A q \in Procs \ {p} : ~Creating(q)' /\ Local(q)'
    BY <2>8 DEF Creating, Local, Away, Attached, CreatorLocal, JoinerLocal, Joined
  <2>10. OneCreator'
    BY <2>9, Zenon DEF OneCreator
  <2>11. Local(p)'
    <3>1. mem'[p] = None /\ path' # None
      BY <1>t, <2>1, <2>2 DEF Local, Attached, None, Files
    <3> QED  BY <2>4, <2>5, <3>1
               DEF Local, Attached, CreatorLocal, JoinerLocal, Joined
  <2> QED  BY <2>3, <2>6, <2>7, <2>9, <2>10, <2>11, ShmInvLocalNext, Zenon
<1> QED  BY <1>1, <1>2, Zenon

\* ftruncate, which gives the file its size or fails.
LEMMA TruncateStep ==
  ASSUME ShmInv, NEW p \in Procs, ftruncate(p)
  PROVE  ShmInv'
<1> USE DEF Goto
<1>t. /\ TypeOK /\ Local(p) /\ Names /\ Others(p) /\ geom' = geom
      /\ pc \in [Procs -> PCs] /\ created \in [Procs -> BOOLEAN]
      /\ mem \in [Procs -> Files \cup {None}] /\ geom \in [Procs -> Geometries]
      /\ files \in [Files -> Region] /\ inits \in [Files -> Nat]
  BY ShmInvLocal, Types, StepOthers, Zenon DEF Step
<1>1. /\ UNCHANGED <<path, made, geom, mem, inits>>
      /\ pc' = [pc EXCEPT ![p] = "open"] /\ pc[p] = "truncate"
      /\ pc'[p] = "open"
  BY <1>t, Zenon DEF ftruncate
<1>2. path # None /\ path \in Files /\ files[path] = Zeros /\ inits[path] = 0
  BY <1>t, <1>1, Zenon DEF Local, Away, CreatorLocal, TypeOK
<1>3. CASE /\ files' = [files EXCEPT ![path].size = geom[p].size]
           /\ created' = [created EXCEPT ![p] = TRUE]
  <2>1. geom[p].size \in Nat
    BY <1>t, ShmAssumption DEF ShmAssumption
  <2>2. /\ files'[path] = [Zeros EXCEPT !.size = geom[p].size]
        /\ \A f \in Files \ {path} : files'[f] = files[f]
    BY <1>t, <1>2, <1>3, Zenon
  <2>3. files'[path] = [size |-> geom[p].size, set |-> {},
                        geometry |-> NoGeometry, free |-> 0]
    BY <2>2 DEF Zeros
  <2>4. files' \in [Files -> Region]
    <3>1. files'[path] \in Region
      BY <2>1, <2>3 DEF Region
    <3>2. DOMAIN files' = Files /\ files' = [f \in Files |-> files'[f]]
      BY <1>t, <1>3, Zenon
    <3> QED  BY <1>t, <2>2, <3>1, <3>2, Zenon
  <2>5. created' \in [Procs -> BOOLEAN] /\ created'[p]
    BY <1>t, <1>3, Zenon
  <2>6. TypeOK'
    BY <1>t, <1>1, <2>4, <2>5 DEF TypeOK, PCs
  <2>7. RegionSound(path)'
    BY <1>1, <1>2, <2>3 DEF RegionSound
  <2>8. Local(p)'
    BY <1>t, <1>1, <1>2, <2>2, <2>5
       DEF Local, Attached, Away, CreatorLocal, JoinerLocal, Joined
  <2>9. Creating(p) /\ files[path].set = {}
    BY <1>1, <1>2 DEF Creating, Zeros
  <2> QED  BY <1>t, <1>1, <1>2, <2>2, <2>3, <2>6, <2>7, <2>8, <2>9, CreatorStep, Zenon
<1>4. CASE UNCHANGED <<files, created>>
  <2>1. TypeOK'
    BY <1>t, <1>1, <1>4 DEF TypeOK, PCs
  <2>2. ~created'[p] /\ ~Creating(p)'
    BY <1>t, <1>1, <1>4 DEF Local, CreatorLocal, Creating
  <2>3. Local(p)'
    BY <1>t, <1>1, <1>2, <2>2
       DEF Local, Attached, Away, CreatorLocal, JoinerLocal, Joined
  <2> QED  BY <1>t, <1>1, <1>4, <2>1, <2>2, <2>3, LocalStep, Zenon
<1> QED  BY <1>3, <1>4, Zenon DEF ftruncate

\* lf_shm_open maps the file that has the name, or fails.
LEMMA OpenStep ==
  ASSUME ShmInv, NEW p \in Procs, lf_shm_open(p)
  PROVE  ShmInv'
<1> USE DEF Goto
<1>t. /\ TypeOK /\ Local(p) /\ Others(p) /\ geom' = geom
      /\ pc \in [Procs -> PCs] /\ created \in [Procs -> BOOLEAN]
      /\ mem \in [Procs -> Files \cup {None}] /\ path \in Files \cup {None}
  BY ShmInvLocal, Types, StepOthers, Zenon DEF Step
<1>1. /\ UNCHANGED <<path, made, files, geom, created, inits>> /\ pc[p] = "open"
      /\ \/ pc' = [pc EXCEPT ![p] = "mapped"] /\ mem' = [mem EXCEPT ![p] = path]
         \/ pc' = [pc EXCEPT ![p] = "failed"] /\ mem' = mem
  BY Zenon DEF lf_shm_open
<1>2. TypeOK'
  BY <1>t, <1>1 DEF TypeOK, PCs
<1>3. CASE pc' = [pc EXCEPT ![p] = "mapped"] /\ mem' = [mem EXCEPT ![p] = path]
  <2>1. pc'[p] = "mapped" /\ mem'[p] = path /\ created'[p] = created[p]
    BY <1>t, <1>1, <1>3, Zenon
  <2>2. Creating(p)' => Creating(p)
    BY <1>1, <2>1 DEF Creating
  <2>3. Local(p)'
    BY <1>t, <1>1, <2>1
       DEF Local, Attached, Away, CreatorLocal, JoinerLocal, Joined
  <2> QED  BY <1>t, <1>1, <1>2, <2>2, <2>3, LocalStep, Zenon
<1>4. CASE pc' = [pc EXCEPT ![p] = "failed"] /\ mem' = mem
  <2>1. pc'[p] = "failed" /\ mem'[p] = None
    BY <1>t, <1>1, <1>4 DEF Local, Attached
  <2> QED  BY <1>t, <1>1, <1>2, <2>1, GoneStep, Zenon DEF Away
<1> QED  BY <1>1, <1>3, <1>4, Zenon

\* The region's size is compared, and the creator goes on to mem_init.
LEMMA CheckSizeStep ==
  ASSUME ShmInv, NEW p \in Procs, CheckSize(p)
  PROVE  ShmInv'
<1> USE DEF Goto
<1>t. /\ TypeOK /\ Local(p) /\ Others(p) /\ geom' = geom
      /\ pc \in [Procs -> PCs] /\ created \in [Procs -> BOOLEAN]
      /\ mem \in [Procs -> Files \cup {None}] /\ geom \in [Procs -> Geometries]
      /\ files \in [Files -> Region] /\ inits \in [Files -> Nat]
  BY ShmInvLocal, Types, StepOthers, Zenon DEF Step
<1>1. /\ UNCHANGED <<path, made, files, geom, created>> /\ pc[p] = "mapped"
      /\ mem[p] = path /\ path # None /\ path \in Files
  BY <1>t, Zenon DEF CheckSize, Local, Attached, Away, TypeOK
<1>2. CASE files[path].size # geom[p].size
  <2>1. /\ pc' = [pc EXCEPT ![p] = "failed"] /\ mem' = [mem EXCEPT ![p] = None]
        /\ inits' = inits
    BY <1>1, <1>2, Zenon DEF CheckSize
  <2>2. pc'[p] = "failed" /\ mem'[p] = None
    BY <1>t, <2>1, Zenon
  <2>3. TypeOK'
    BY <1>t, <1>1, <2>1 DEF TypeOK, PCs
  <2> QED  BY <1>t, <1>1, <2>1, <2>2, <2>3, GoneStep, Zenon DEF Away
<1>3. CASE files[path].size = geom[p].size /\ ~created[p]
  <2>1. pc' = [pc EXCEPT ![p] = "join"] /\ mem' = mem /\ inits' = inits
    BY <1>1, <1>3, Zenon DEF CheckSize
  <2>2. pc'[p] = "join" /\ mem'[p] = path
    BY <1>t, <1>1, <2>1, Zenon
  <2>3. TypeOK'
    BY <1>t, <1>1, <2>1 DEF TypeOK, PCs
  <2>4. ~Creating(p)' /\ Local(p)'
    BY <1>t, <1>1, <2>2
       DEF Creating, Local, Attached, Away, CreatorLocal, JoinerLocal, Joined
  <2> QED  BY <1>t, <1>1, <2>1, <2>3, <2>4, LocalStep, Zenon
<1>4. CASE files[path].size = geom[p].size /\ created[p]
  <2>1. /\ pc' = [pc EXCEPT ![p] = "init"] /\ mem' = mem
        /\ inits' = [inits EXCEPT ![path] = @ + 1]
    BY <1>1, <1>4, Zenon DEF CheckSize
  <2>2. pc'[p] = "init" /\ mem'[p] = path
    BY <1>t, <1>1, <2>1, Zenon
  <2>3. /\ inits'[path] = 1 /\ \A f \in Files \ {path} : inits'[f] = inits[f]
        /\ inits' \in [Files -> Nat]
    BY <1>t, <1>1, <1>4, <2>1 DEF Local, CreatorLocal
  <2>4. TypeOK'
    BY <1>t, <1>1, <2>1, <2>3 DEF TypeOK, PCs
  <2>5. Creating(p) /\ Creating(p)' /\ files[path].set = {}
    BY <1>t, <1>1, <1>4, <2>2 DEF Creating, Local, CreatorLocal, Zeros
  <2>6. Local(p)'
    BY <1>t, <1>1, <1>4, <2>2, <2>5
       DEF Local, Attached, Away, CreatorLocal, JoinerLocal, Joined
  <2>7. RegionSound(path)'
    <3>1. RegionSound(path)
      BY <1>1, ShmInvLocal, Zenon
    <3> QED  BY <1>1, <2>3, <3>1 DEF RegionSound
  <2> QED  BY <1>t, <1>1, <2>3, <2>4, <2>5, <2>6, <2>7, CreatorStep, Zenon
<1> QED  BY <1>2, <1>3, <1>4, Zenon

\* The stores of mem_init.
LEMMA MemInitStep ==
  ASSUME ShmInv, NEW p \in Procs, mem_init(p)
  PROVE  ShmInv'
<1>t. /\ TypeOK /\ Local(p) /\ Others(p) /\ geom' = geom
      /\ geom \in [Procs -> Geometries] /\ files \in [Files -> Region]
  BY ShmInvLocal, Types, StepOthers, Zenon DEF Step
<1>1. /\ UNCHANGED <<path, made, pc, geom, created, mem, inits>> /\ pc[p] = "init"
      /\ mem[p] = path /\ path # None /\ path \in Files
  BY <1>t, Zenon DEF mem_init, Local, Attached, Away, TypeOK
<1> DEFINE r == files[path]
<1>2. PICK x \in NextFields(r.set) :
        files' = [files EXCEPT ![path].set = @ \cup {x}, ![path].geometry = geom[p]]
  BY <1>1, Zenon DEF mem_init
<1>3. /\ r \in Region /\ RegionSound(path)
      /\ r.size = geom[p].size /\ (r.set # {} => r.geometry = geom[p])
      /\ geom[p] \in Geometries /\ Creating(p)
  BY <1>t, <1>1, ShmInvLocal, Zenon DEF Local, CreatorLocal, Creating
<1>4. x \in AllFields
      /\ (x \in PoolFields => BcastFields \subseteq r.set)
  BY DEF NextFields, AllFields, BcastFields, PoolFields
<1>5. /\ files'[path] = [[r EXCEPT !.set = @ \cup {x}] EXCEPT !.geometry = geom[p]]
      /\ \A f \in Files \ {path} : files'[f] = files[f]
      /\ DOMAIN files' = Files
  BY <1>t, <1>1, <1>2
<1>6. files'[path] = [size |-> r.size, set |-> r.set \cup {x},
                      geometry |-> geom[p], free |-> r.free]
  BY <1>3, <1>5 DEF Region
<1> HIDE DEF r
<1>7. files' \in [Files -> Region]
  <2>1. files'[path] \in Region
    BY <1>3, <1>4, <1>6 DEF Region
  <2>2. files' = [f \in Files |-> files'[f]]
    BY <1>t, <1>2, Zenon
  <2> QED  BY <1>t, <1>5, <2>1, <2>2, Zenon
<1>8. TypeOK'
  BY <1>t, <1>1, <1>7, Zenon DEF TypeOK
<1>9. RegionSound(path)'
  BY <1>1, <1>3, <1>4, <1>6 DEF RegionSound, r, PoolFields, BcastFields
<1>10. Local(p)'
  BY <1>t, <1>1, <1>3, <1>6
     DEF Local, Attached, Away, CreatorLocal, JoinerLocal, Joined, r
<1> QED
  BY <1>t, <1>1, <1>3, <1>5, <1>6, <1>8, <1>9, <1>10, CreatorStep DEF r

\* The loop over the elements, and the end of mem_init.
LEMMA FillPoolStep ==
  ASSUME ShmInv, NEW p \in Procs, FillPool(p)
  PROVE  ShmInv'
<1> USE DEF Goto
<1>t. /\ TypeOK /\ Local(p) /\ Others(p) /\ geom' = geom
      /\ pc \in [Procs -> PCs] /\ geom \in [Procs -> Geometries]
      /\ files \in [Files -> Region]
  BY ShmInvLocal, Types, StepOthers, Zenon DEF Step
<1> DEFINE r == files[path]
<1>1. /\ UNCHANGED <<path, made, geom, created, mem, inits>> /\ pc[p] = "init"
      /\ mem[p] = path /\ path # None /\ path \in Files
      /\ NextFields(r.set) = {}
  BY <1>t, Zenon DEF FillPool, Local, Attached, Away, TypeOK
<1>2. /\ r \in Region /\ RegionSound(path)
      /\ r.size = geom[p].size /\ (r.set # {} => r.geometry = geom[p])
      /\ Creating(p)
  BY <1>t, <1>1, ShmInvLocal, Zenon DEF Local, CreatorLocal, Creating
<1>3. AllFields \subseteq r.set /\ r.set # {}
  BY <1>1 DEF NextFields, AllFields, BcastFields, PoolFields
<1>4. CASE r.free < geom[p].depth
  <2>1. files' = [files EXCEPT ![path].free = @ + 1] /\ pc' = pc
    BY <1>1, <1>4, Zenon DEF FillPool
  <2>2. /\ files'[path] = [r EXCEPT !.free = @ + 1]
        /\ \A f \in Files \ {path} : files'[f] = files[f]
    BY <1>t, <1>1, <2>1
  <2>3. files'[path] = [size |-> r.size, set |-> r.set, geometry |-> r.geometry,
                        free |-> r.free + 1]
    BY <1>2, <2>2 DEF Region
  <2> HIDE DEF r
  <2>4. files' \in [Files -> Region]
    <3>1. files'[path] \in Region
      BY <1>2, <2>3 DEF Region
    <3>2. files' = [f \in Files |-> files'[f]]
      BY <1>t, <2>1, Zenon
    <3> QED  BY <1>t, <2>2, <3>1, <3>2, Zenon
  <2>5. TypeOK'
    BY <1>t, <1>1, <2>1, <2>4, Zenon DEF TypeOK
  <2>6. RegionSound(path)'
    <3>1. geom[p].depth \in Nat /\ r.free \in Nat
      BY <1>t, <1>2, ShmAssumption DEF ShmAssumption, Region
    <3> QED  BY <1>1, <1>2, <1>3, <1>4, <2>3, <3>1 DEF RegionSound, r
  <2>7. Local(p)'
    BY <1>t, <1>1, <1>2, <2>1, <2>3
       DEF Local, Attached, Away, CreatorLocal, JoinerLocal, Joined, r
  <2> QED
    BY <1>t, <1>1, <1>2, <2>2, <2>3, <2>5, <2>6, <2>7, CreatorStep DEF r
<1>5. CASE ~(r.free < geom[p].depth)
  <2>1. pc' = [pc EXCEPT ![p] = "subscribe"] /\ files' = files
    BY <1>1, <1>5, Zenon DEF FillPool
  <2>2. pc'[p] = "subscribe"
    BY <1>t, <2>1, Zenon
  <2>3. TypeOK'
    BY <1>t, <1>1, <2>1 DEF TypeOK, PCs
  <2>4. ~Creating(p)'
    BY <2>2 DEF Creating
  <2>5. Local(p)'
    BY <1>t, <1>1, <1>2, <1>3, <2>1, <2>2
       DEF Local, Attached, Away, CreatorLocal, JoinerLocal, Joined, AllFields
  <2> QED  BY <1>t, <1>1, <2>1, <2>3, <2>4, <2>5, LocalStep, Zenon
<1> QED  BY <1>4, <1>5, Zenon

\* A field of the region that compares equal to a value that is not zero has
\* been written, from a geometry with that value.
LEMMA AgreesFacts ==
  ASSUME NEW f \in Files, NEW g \in Geometries, NEW fields \in SUBSET AllFields,
         Agrees(f, fields, g)
  PROVE  /\ "elt_sz" \in fields =>
              "elt_sz" \in files[f].set /\ files[f].geometry.elt_sz = g.elt_sz
         /\ "num_elts" \in fields =>
              "num_elts" \in files[f].set /\ files[f].geometry.depth = g.depth
<1>1. g.elt_sz \in Nat \ {0} /\ g.depth \in Nat \ {0}
  BY ShmAssumption DEF ShmAssumption
<1>2. \A h : Expected("elt_sz", h) = h.elt_sz /\ Expected("num_elts", h) = h.depth
  BY DEF Expected
<1> QED  BY <1>1, <1>2 DEF Agrees, Stored

\* lf_bcast_mem_join and lf_pool_mem_join.
LEMMA JoinStep ==
  ASSUME ShmInv, NEW p \in Procs, lf_bcast_mem_join(p) \/ lf_pool_mem_join(p)
  PROVE  ShmInv'
<1> USE DEF Goto
<1>t. /\ TypeOK /\ Local(p) /\ Others(p) /\ geom' = geom
      /\ pc \in [Procs -> PCs] /\ geom \in [Procs -> Geometries]
      /\ mem \in [Procs -> Files \cup {None}]
  BY ShmInvLocal, Types, StepOthers, Zenon DEF Step
<1>1. /\ UNCHANGED <<path, made, files, geom, created, inits>>
      /\ pc[p] \in {"join", "join_pool"}
  BY Zenon DEF lf_bcast_mem_join, lf_pool_mem_join
<1>2. mem[p] = path /\ path # None /\ path \in Files /\ geom[p] \in Geometries
  BY <1>t, <1>1 DEF Local, Attached, Away, TypeOK
<1>3. CASE pc' = [pc EXCEPT ![p] = "failed"] /\ mem' = [mem EXCEPT ![p] = None]
  <2>1. pc'[p] = "failed" /\ mem'[p] = None
    BY <1>t, <1>3, Zenon
  <2>2. TypeOK'
    BY <1>t, <1>1, <1>3 DEF TypeOK, PCs
  <2> QED  BY <1>t, <1>1, <2>1, <2>2, GoneStep, Zenon DEF Away
<1>4. CASE /\ pc[p] = "join" /\ pc' = [pc EXCEPT ![p] = "join_pool"] /\ mem' = mem
           /\ Agrees(path, {"depth_mask", "elt_sz"}, geom[p])
  <2>1. pc'[p] = "join_pool" /\ mem'[p] = path
    BY <1>t, <1>2, <1>4, Zenon
  <2>2. TypeOK'
    BY <1>t, <1>1, <1>4 DEF TypeOK, PCs
  <2>3. "elt_sz" \in files[path].set /\ files[path].geometry.elt_sz = geom[p].elt_sz
    <3>1. {"depth_mask", "elt_sz"} \in SUBSET AllFields
      BY DEF AllFields, BcastFields
    <3> QED  BY <1>2, <1>4, <3>1, AgreesFacts, Zenon
  <2>4. ~Creating(p)'
    BY <2>1 DEF Creating
  <2>5. Local(p)'
    BY <1>1, <1>2, <2>1, <2>3
       DEF Local, Attached, Away, CreatorLocal, JoinerLocal, Joined
  <2> QED  BY <1>t, <1>1, <2>2, <2>4, <2>5, LocalStep, Zenon
<1>5. CASE /\ pc[p] = "join_pool" /\ pc' = [pc EXCEPT ![p] = "subscribe"] /\ mem' = mem
           /\ Agrees(path, PoolFields, geom[p])
  <2>1. pc'[p] = "subscribe" /\ mem'[p] = path
    BY <1>t, <1>2, <1>5, Zenon
  <2>2. TypeOK'
    BY <1>t, <1>1, <1>5 DEF TypeOK, PCs
  <2>3. "num_elts" \in files[path].set /\ files[path].geometry.depth = geom[p].depth
    <3>1. PoolFields \in SUBSET AllFields /\ "num_elts" \in PoolFields
      BY DEF AllFields, PoolFields
    <3> QED  BY <1>2, <1>5, <3>1, AgreesFacts, Zenon
  <2>4. BcastFields \subseteq files[path].set
    <3>1. RegionSound(path)
      BY <1>2, ShmInvLocal, Zenon
    <3> QED  BY <2>3, <3>1 DEF RegionSound, PoolFields
  <2>5. files[path].geometry.elt_sz = geom[p].elt_sz
    BY <1>t, <1>5, Zenon DEF Local, JoinerLocal
  <2>6. ~Creating(p)'
    BY <2>1 DEF Creating
  <2>7. Local(p)'
    BY <1>1, <1>2, <2>1, <2>3, <2>4, <2>5
       DEF Local, Attached, Away, CreatorLocal, JoinerLocal, Joined
  <2> QED  BY <1>t, <1>1, <2>2, <2>6, <2>7, LocalStep, Zenon
<1> QED  BY <1>2, <1>3, <1>4, <1>5, Zenon DEF lf_bcast_mem_join, lf_pool_mem_join

\* The rest of a process's life: it subscribes, aborts, leaves or dies.
LEMMA EndStep ==
  ASSUME ShmInv, NEW p \in Procs, SubInit(p) \/ sendmsg(p) \/ Leave(p) \/ Crash(p)
  PROVE  ShmInv'
<1> USE DEF Goto
<1>t. /\ TypeOK /\ Local(p) /\ Others(p) /\ geom' = geom
      /\ pc \in [Procs -> PCs] /\ mem \in [Procs -> Files \cup {None}]
  BY ShmInvLocal, Types, StepOthers, Zenon DEF Step
<1>1. UNCHANGED <<path, made, files, geom, created, inits>>
  BY Zenon DEF SubInit, sendmsg, Leave, Crash
<1>2. CASE \E l \in Away : pc' = [pc EXCEPT ![p] = l] /\ mem' = [mem EXCEPT ![p] = None]
  <2>1. pc'[p] \in Away /\ mem'[p] = None
    BY <1>t, <1>2, Zenon
  <2>2. TypeOK'
    BY <1>t, <1>1, <1>2 DEF TypeOK, PCs, Away
  <2> QED  BY <1>t, <1>1, <2>1, <2>2, GoneStep, Zenon
<1>3. CASE pc[p] = "subscribe" /\ pc' = [pc EXCEPT ![p] = "ready"] /\ mem' = mem
  <2>1. pc'[p] = "ready"
    BY <1>t, <1>3, Zenon
  <2>2. TypeOK'
    BY <1>t, <1>1, <1>3 DEF TypeOK, PCs
  <2>3. ~Creating(p)'
    BY <2>1 DEF Creating
  <2>4. Local(p)'
    BY <1>t, <1>1, <1>3, <2>1
       DEF Local, Attached, Away, CreatorLocal, JoinerLocal, Joined
  <2> QED  BY <1>t, <1>1, <2>2, <2>3, <2>4, LocalStep, Zenon
<1> QED  BY <1>2, <1>3, Zenon DEF SubInit, sendmsg, Leave, Crash, Away

\* The name is removed while nobody uses it.
LEMMA RemoveStep ==
  ASSUME ShmInv, Remove
  PROVE  ShmInv'
<1>1. /\ path' = None /\ UNCHANGED <<files, made, pc, geom, created, mem, inits>>
      /\ \A p \in Procs : pc[p] \in Away
  BY Zenon DEF Remove, Away
<1>2. TypeOK' /\ Names'
  BY <1>1, ShmInvLocal, Zenon DEF TypeOK, Names
<1>3. \A f \in Files : RegionSound(f)'
  BY <1>1, ShmInvLocal, Zenon DEF RegionSound
<1>4. \A p \in Procs : ~Creating(p)' /\ Local(p)'
  BY <1>1, ShmInvLocal
     DEF Creating, Local, Attached, Away, CreatorLocal, JoinerLocal, Joined
<1> QED  BY <1>2, <1>3, <1>4, ShmInvLocalNext, Zenon DEF OneCreator

-----------------------------------------------------------------------------
(* Theorems *)

\* Every step of the constructor, of its callers and of an administrator
\* keeps the invariant.
LEMMA ShmNext ==
  ASSUME ShmInv, [Next]_vars
  PROVE  ShmInv'
<1>1. CASE UNCHANGED vars
  <2>1. TypeOK' /\ Names' /\ OneCreator'
    BY <1>1, ShmInvLocal, Zenon DEF vars, TypeOK, Names, OneCreator, Creating
  <2>2. \A f \in Files : RegionSound(f)'
    BY <1>1, ShmInvLocal, Zenon DEF vars, RegionSound
  <2>3. \A p \in Procs : Local(p)'
    BY <1>1, ShmInvLocal, Zenon DEF vars, Local, CreatorLocal, JoinerLocal, Joined
  <2> QED  BY <2>1, <2>2, <2>3, ShmInvLocalNext, Zenon
<1>2. CASE Next
  <2>1. ASSUME NEW p \in Procs, Step(p) PROVE ShmInv'
    BY <2>1, CreateFileStep, TruncateStep, OpenStep, CheckSizeStep, MemInitStep,
       FillPoolStep, JoinStep, EndStep, Zenon DEF Step
  <2>2. ASSUME NEW p \in Procs, sendmsg(p) \/ Leave(p) \/ Crash(p) PROVE ShmInv'
    BY <2>2, EndStep, Zenon
  <2> QED  BY <1>2, <2>1, <2>2, RemoveStep, Zenon DEF Next
<1> QED  BY <1>1, <1>2, Zenon

\* ShmInv holds in every reachable state.
THEOREM ShmInvariant == Spec => []ShmInv
<1>1. Init => ShmInv
  BY ShmInit
<1>2. ShmInv /\ [Next]_vars => ShmInv'
  BY ShmNext
<1> QED  BY <1>1, <1>2, PTL DEF Spec

\* No process gets through the constructor with a queue that is not set up,
\* or that has the layout of another url: the comparisons in mem_join suffice,
\* however the stores of mem_init are interleaved with them and whoever dies.
THEOREM JoinersAreSafe == Spec => []JoinedInitialised
<1>1. ShmInv => JoinedInitialised
  BY Zenon DEF ShmInv
<1> QED  BY <1>1, ShmInvariant, PTL

\* lf_bcast_mem_init runs at most once on a region, so the indices of a queue
\* in use are never reset.
THEOREM InitialisedOnce == Spec => []InitOnce
<1>1. ShmInv => InitOnce
  BY Zenon DEF ShmInv, RegionSound, InitOnce
<1> QED  BY <1>1, ShmInvariant, PTL

\* A comparison with a finished region of the same geometry succeeds.
LEMMA FinishedAgrees ==
  ASSUME ShmInv, NEW p \in Procs, mem[p] # None,
         Finished(mem[p]), geom[p] = files[mem[p]].geometry
  PROVE  /\ files[mem[p]].size = geom[p].size
         /\ AllFields \subseteq files[mem[p]].set
         /\ \A x \in AllFields : Stored(mem[p], x) = Expected(x, geom[p])
<1>1. mem[p] \in Files /\ RegionSound(mem[p])
  BY ShmInvLocal, Zenon DEF TypeOK
<1>2. AllFields \subseteq files[mem[p]].set
  BY <1>1, Zenon DEF Finished, RegionSound
<1>3. files[mem[p]].size = geom[p].size
  BY <1>1, <1>2 DEF RegionSound, AllFields, BcastFields
<1> QED  BY <1>2, <1>3, Zenon DEF Stored

\* A url that fits a region whose creator got through mem_init is never
\* refused by the comparisons of the constructor and of mem_join.
THEOREM FinishedAdmits == Spec => FinishedIsJoinable
<1>1. ASSUME ShmInv, Next, NEW p \in Procs PROVE NotRefused(p)
  <2>1. SUFFICES ASSUME pc[p] \in {"mapped", "join", "join_pool"}, Finished(mem[p]),
                        geom[p] = files[mem[p]].geometry, pc'[p] = "failed"
                 PROVE  FALSE
    BY Zenon DEF NotRefused
  <2>2. mem[p] # None /\ pc \in [Procs -> PCs]
    BY <1>1, <2>1, ShmInvLocal DEF Local, Attached, Away, TypeOK
  <2>3. /\ files[mem[p]].size = geom[p].size
        /\ AllFields \subseteq files[mem[p]].set
        /\ \A x \in AllFields : Stored(mem[p], x) = Expected(x, geom[p])
    BY <1>1, <2>1, <2>2, FinishedAgrees, Zenon
  <2>4. PICK q \in Procs : Step(q) \/ sendmsg(q) \/ Leave(q) \/ Crash(q)
    <3>1. ~Remove
      BY <2>1 DEF Remove
    <3> QED  BY <1>1, <3>1, Zenon DEF Next
  <2>5. q = p
    BY <1>1, <2>1, <2>4, StepOthers DEF Others
  <2>6. CheckSize(p) \/ lf_bcast_mem_join(p) \/ lf_pool_mem_join(p)
    BY <2>1, <2>2, <2>4, <2>5 DEF Step, CreateFile, ftruncate, lf_shm_open, mem_init,
         FillPool, SubInit, sendmsg, Leave, Crash, Goto
  <2>7. ~CheckSize(p)
    BY <2>1, <2>2, <2>3 DEF CheckSize, Goto
  <2>8. ~lf_bcast_mem_join(p)
    BY <2>1, <2>2, <2>3
       DEF lf_bcast_mem_join, Goto, Agrees, AllFields, BcastFields
  <2>9. ~lf_pool_mem_join(p)
    BY <2>1, <2>2, <2>3
       DEF lf_pool_mem_join, Goto, Agrees, AllFields, BcastFields
  <2> QED  BY <2>6, <2>7, <2>8, <2>9
<1>2. ShmInv /\ [Next]_vars => [\A p \in Procs : NotRefused(p)]_vars
  BY <1>1, Zenon
<1> QED  BY <1>2, ShmInvariant, PTL DEF Spec, FinishedIsJoinable
=============================================================================
