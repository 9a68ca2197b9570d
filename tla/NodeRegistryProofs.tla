------------------------- MODULE NodeRegistryProofs -------------------------
(***************************************************************************)
(* Theorems about NodeRegistry, for every set of paths and threads, every  *)
(* number of mounts and every number of failed writes and restarts.        *)
(***************************************************************************)
EXTENDS NodeRegistry, TLAPS, FiniteSetTheorems, WellFoundedInduction

(* A request in hand carries the thread and the binding it will store.     *)
JobShape ==
  /\ job.at = "idle" => job = Idle
  /\ job.at = "put" => job.op = "thread"
  /\ job.op = "thread" => job.thread \in Thread /\ job.binding \in Binding

(* Before its thread is put, a request has saved what it changed.          *)
FileCurrent == job.at \in {"idle", "put"} /\ faults = 0 => Loaded.mounts = mounts

(* The path of a request in hand is mounted until the snapshot is written, *)
(* and on record from then on.                                             *)
JobFiled ==
  job.op = "thread" /\ job.binding.how = "path" =>
    /\ job.at \in {"truncate", "write"} =>
         mounts[job.binding.mount] = job.binding.path
    /\ job.at = "put" => <<job.binding.mount, job.binding.path>> \in filed

RegistryIInv == TypeOK /\ JobShape /\ FileCurrent /\ JobFiled /\ BoundAfterFiled

-----------------------------------------------------------------------------
(* The identifier of a new mount *)

LEMMA LeastNatural ==
  ASSUME NEW S, S \subseteq Nat, S # {}
  PROVE  \E n \in S : \A m \in S : n <= m
<1>1. \E n \in S : \A m \in S : ~ (<<m, n>> \in OpToRel(<, Nat))
  BY NatLessThanWellFounded, WFMin
<1>2. PICK n \in S : \A m \in S : ~ (<<m, n>> \in OpToRel(<, Nat))
  BY <1>1
<1>3. ASSUME NEW m \in S
      PROVE  n <= m
  <2>1. n \in Nat /\ m \in Nat /\ ~ (<<m, n>> \in OpToRel(<, Nat))
    BY <1>2
  <2>2. ~ (m < n)
    BY <2>1 DEF OpToRel
  <2>3. n \in Nat /\ m \in Nat
    OBVIOUS
  <2>4. QED
    BY <2>2, <2>3
<1>4. QED
  BY <1>3

LEMMA UsedCount == Cardinality(Used) \in Nat /\ Cardinality(Used) <= MaxMount
<1>1. IsFiniteSet(1..MaxMount) /\ Cardinality(1..MaxMount) = MaxMount
  BY FS_Interval, NodeRegistryAssumption
<1>2. Used \in SUBSET (1..MaxMount)
  BY DEF Used, MountId
<1>3. IsFiniteSet(Used) /\ Cardinality(Used) <= MaxMount
  BY <1>1, <1>2, FS_Subset
<1>4. QED
  BY <1>3, FS_CardinalityType

(* next_workspace_mount_id finds an identifier no mount has: counting up   *)
(* from the number of mounts, it skips those in use.                       *)
LEMMA NextFreeUnused == NextFree \in 1..(MaxMount + 1) /\ NextFree \notin Used
<1> DEFINE n == Cardinality(Used)
           Free == {id \in 1..(MaxMount + 1) : id > n /\ id \notin Used}
<1>1. n \in Nat /\ n <= MaxMount /\ MaxMount \in Nat
  BY UsedCount, NodeRegistryAssumption
<1>2. MaxMount + 1 \in Free
  BY <1>1 DEF Used, MountId
<1>3. PICK id \in Free : \A m \in Free : id <= m
  <2>1. Free \subseteq Nat
    BY <1>1
  <2> HIDE DEF Free
  <2>2. QED
    BY <1>2, <2>1, LeastNatural
<1>4. id \in 1..(MaxMount + 1) /\ id > n /\ id \notin Used
  BY <1>3
<1>5. \A lower \in (n + 1)..(id - 1) : lower \in Used
  BY <1>1, <1>3, <1>4
<1>6. \E i \in 1..(MaxMount + 1) :
        /\ i > Cardinality(Used) /\ i \notin Used
        /\ \A lower \in (Cardinality(Used) + 1)..(i - 1) : lower \in Used
  BY <1>4, <1>5
<1>7. QED
  BY <1>6 DEF NextFree

LEMMA InsertKeeps ==
  ASSUME TypeOK, NEW p \in Path, Insert(p)
  PROVE  /\ NextFree \in MountId /\ NextFree \notin Used
         /\ mounts' \in [MountId -> Path \cup {None}]
         /\ mounts'[NextFree] = p
         /\ \A id \in Used : mounts'[id] = mounts[id]
<1>1. NextFree \in MountId /\ NextFree \notin Used
  BY NextFreeUnused DEF Insert
<1>2. QED
  BY <1>1 DEF Insert, TypeOK, Used

LEMMA LoadedType ==
  ASSUME TypeOK
  PROVE  Loaded.mounts \in [MountId -> Path \cup {None}] /\ Loaded.local \in LocalNode
<1>1. CASE file.body = "whole"
  BY <1>1 DEF Loaded, TypeOK, LocalNode, FreshNode
<1>2. CASE file.body # "whole"
  BY <1>2 DEF Loaded, LocalNode, FreshNode, NoMounts
<1>3. QED
  BY <1>1, <1>2

-----------------------------------------------------------------------------
LEMMA InitRegistry == Init => RegistryIInv
<1> SUFFICES ASSUME Init PROVE RegistryIInv
  OBVIOUS
<1>1. TypeOK
  BY NodeRegistryAssumption DEF Init, TypeOK, NoMounts, FreshNode, LocalNode, Idle
<1>2. JobShape /\ JobFiled /\ BoundAfterFiled
  BY DEF Init, JobShape, JobFiled, BoundAfterFiled, Idle
<1>3. FileCurrent
  BY DEF Init, FileCurrent, Loaded
<1>4. QED
  BY <1>1, <1>2, <1>3 DEF RegistryIInv

(* What every step that is neither a restart nor a write keeps.            *)
LEMMA LoadedKept ==
  ASSUME UNCHANGED file
  PROVE  Loaded' = Loaded
BY DEF Loaded

(* Every request either starts at idle with a change of the registry to    *)
(* save, or at idle with a thread to put and the registry as it was.       *)
LEMMA RegistryChange ==
  ASSUME RegistryIInv, job = Idle,
         mounts' \in [MountId -> Path \cup {None}], local' \in LocalNode,
         NEW op \in {"attach", "detach", "node", "thread"},
         NEW id \in MountId \cup {None},
         NEW th \in Thread \cup {None}, NEW binding \in Binding \cup {None},
         op = "thread" =>
           /\ th \in Thread /\ binding \in Binding
           /\ binding.how = "path" => mounts'[binding.mount] = binding.path,
         Save(op, id, th, binding),
         UNCHANGED <<file, bound, filed, faults, crashes>>
  PROVE  RegistryIInv'
<1>1. TypeOK'
  BY DEF RegistryIInv, TypeOK, Save
<1>2. JobShape' /\ FileCurrent' /\ JobFiled'
  BY DEF JobShape, FileCurrent, JobFiled, Save
<1>3. BoundAfterFiled'
  BY DEF RegistryIInv, BoundAfterFiled
<1>4. QED
  BY <1>1, <1>2, <1>3 DEF RegistryIInv

LEMMA ThreadChange ==
  ASSUME RegistryIInv, job = Idle,
         NEW th \in Thread, NEW binding \in Binding,
         binding.how = "path" => <<binding.mount, binding.path>> \in filed,
         Put(th, binding),
         UNCHANGED <<registry, file, bound, filed, faults, crashes>>
  PROVE  RegistryIInv'
<1>1. TypeOK'
  BY DEF RegistryIInv, TypeOK, Put, registry
<1>2. JobShape' /\ JobFiled'
  BY DEF JobShape, JobFiled, Put
<1>3. FileCurrent'
  <2>1. Loaded' = Loaded
    BY LoadedKept
  <2>2. QED
    BY <2>1 DEF RegistryIInv, FileCurrent, Idle, registry
<1>4. BoundAfterFiled'
  BY DEF RegistryIInv, BoundAfterFiled
<1>5. QED
  BY <1>1, <1>2, <1>3, <1>4 DEF RegistryIInv

LEMMA RequestsKeep ==
  ASSUME RegistryIInv,
         \/ \E p \in Path : AttachWorkspaceMount(p)
         \/ \E id \in MountId : DetachWorkspaceMount(id)
         \/ \E p \in {"default", "changed"} : UpdateNodePolicy(p)
         \/ HeartbeatNode
  PROVE  RegistryIInv'
<1>1. TypeOK
  BY DEF RegistryIInv
<1>2. ASSUME NEW p \in Path, AttachWorkspaceMount(p)
      PROVE  RegistryIInv'
  <2>1. NextFree \in MountId /\ mounts' \in [MountId -> Path \cup {None}]
    BY <1>1, <1>2, InsertKeeps DEF AttachWorkspaceMount
  <2>2. QED
    BY <1>1, <1>2, <2>1, RegistryChange DEF AttachWorkspaceMount, TypeOK
<1>3. ASSUME NEW id \in MountId, DetachWorkspaceMount(id)
      PROVE  RegistryIInv'
  <2>1. mounts' \in [MountId -> Path \cup {None}]
    BY <1>1, <1>3 DEF DetachWorkspaceMount, TypeOK
  <2>2. QED
    BY <1>1, <1>3, <2>1, RegistryChange DEF DetachWorkspaceMount, TypeOK
<1>4. ASSUME NEW node \in LocalNode, UpdateNode(node)
      PROVE  RegistryIInv'
  BY <1>1, <1>4, RegistryChange DEF UpdateNode, TypeOK
<1>5. ASSUME NEW p \in {"default", "changed"}, UpdateNodePolicy(p)
      PROVE  RegistryIInv'
  <2>1. [local EXCEPT !.policy = p] \in LocalNode
    BY <1>1 DEF TypeOK, LocalNode
  <2>2. QED
    BY <1>4, <1>5, <2>1 DEF UpdateNodePolicy
<1>6. ASSUME HeartbeatNode
      PROVE  RegistryIInv'
  <2>1. [local EXCEPT !.seen = TRUE] \in LocalNode
    BY <1>1 DEF TypeOK, LocalNode
  <2>2. QED
    BY <1>4, <1>6, <2>1 DEF HeartbeatNode
<1>7. QED
  BY <1>2, <1>3, <1>5, <1>6

LEMMA StartsKeep ==
  ASSUME RegistryIInv,
         \/ \E th \in Thread, p \in Path : StartThreadOnPath(th, p)
         \/ \E th \in Thread, id \in MountId : StartThreadOnMount(th, id)
         \/ \E th \in Thread, p \in Path \cup {None}, id \in MountId \cup {None} :
              StartThreadAsGiven(th, p, id)
         \/ \E parent, child \in Thread : ForkThread(parent, child)
  PROVE  RegistryIInv'
<1>1. TypeOK
  BY DEF RegistryIInv
<1>2. ASSUME NEW th \in Thread, NEW p \in Path, StartThreadOnPath(th, p)
      PROVE  RegistryIInv'
  <2>1. \A id \in MountId : ByPath(p, id) \in Binding /\ ByPath(p, id).how = "path"
          /\ ByPath(p, id).mount = id /\ ByPath(p, id).path = p
    BY DEF ByPath, Binding
  <2>2. ASSUME NEW id \in Used, mounts[id] = p,
               Save("thread", id, th, ByPath(p, id)), UNCHANGED mounts
        PROVE  RegistryIInv'
    <3>1. id \in MountId
      BY DEF Used
    <3>2. mounts' \in [MountId -> Path \cup {None}] /\ local' \in LocalNode
      BY <1>1, <1>2, <2>2 DEF TypeOK, StartThreadOnPath
    <3>3. QED
      BY <1>2, <2>1, <2>2, <3>1, <3>2, RegistryChange DEF StartThreadOnPath
  <2>3. ASSUME Insert(p), Save("thread", NextFree, th, ByPath(p, NextFree))
        PROVE  RegistryIInv'
    <3>1. /\ NextFree \in MountId
          /\ mounts' \in [MountId -> Path \cup {None}] /\ mounts'[NextFree] = p
      BY <1>1, <2>3, InsertKeeps
    <3>2. local' \in LocalNode
      BY <1>1, <1>2 DEF TypeOK, StartThreadOnPath
    <3>3. QED
      BY <1>2, <2>1, <2>3, <3>1, <3>2, RegistryChange DEF StartThreadOnPath
  <2>4. QED
    BY <1>2, <2>2, <2>3 DEF StartThreadOnPath
<1>3. ASSUME NEW th \in Thread, NEW id \in MountId, StartThreadOnMount(th, id)
      PROVE  RegistryIInv'
  <2> DEFINE b == [how |-> "mount", path |-> mounts[id], mount |-> id]
  <2>1. b \in Binding /\ b.how # "path"
    BY <1>1, <1>3 DEF StartThreadOnMount, Used, Binding, TypeOK
  <2>2. job = Idle /\ Put(th, b) /\ UNCHANGED <<registry, file, bound, filed, faults, crashes>>
    BY <1>3 DEF StartThreadOnMount
  <2> HIDE DEF b
  <2>3. QED
    BY <2>1, <2>2, ThreadChange
<1>4. ASSUME NEW th \in Thread, NEW p \in Path \cup {None}, NEW id \in MountId \cup {None},
             StartThreadAsGiven(th, p, id)
      PROVE  RegistryIInv'
  <2> DEFINE b == [how |-> "given", path |-> p, mount |-> id]
  <2>1. b \in Binding /\ b.how # "path"
    BY DEF Binding
  <2>2. job = Idle /\ Put(th, b) /\ UNCHANGED <<registry, file, bound, filed, faults, crashes>>
    BY <1>4 DEF StartThreadAsGiven
  <2> HIDE DEF b
  <2>3. QED
    BY <2>1, <2>2, ThreadChange
<1>5. ASSUME NEW parent \in Thread, NEW child \in Thread, ForkThread(parent, child)
      PROVE  RegistryIInv'
  <2>1. bound[parent] \in Binding
    BY <1>1, <1>5 DEF ForkThread, TypeOK
  <2>2. bound[parent].how = "path" => <<bound[parent].mount, bound[parent].path>> \in filed
    BY <1>5 DEF RegistryIInv, BoundAfterFiled, ForkThread
  <2>3. QED
    BY <1>5, <2>1, <2>2, ThreadChange DEF ForkThread
<1>6. QED
  BY <1>2, <1>3, <1>4, <1>5

(* The two halves of fs::write.  The snapshot written is the registry in   *)
(* memory, so the mount of the path in hand is on record from then on.     *)
LEMMA SavingKeeps ==
  ASSUME RegistryIInv, TruncateFile \/ WriteFile
  PROVE  RegistryIInv'
<1>1. TypeOK /\ JobShape /\ JobFiled /\ BoundAfterFiled
  BY DEF RegistryIInv
<1>2. CASE TruncateFile
  <2>1. TypeOK'
    BY <1>1, <1>2 DEF TruncateFile, TypeOK, registry
  <2>2. JobShape' /\ JobFiled' /\ FileCurrent'
    BY <1>1, <1>2 DEF TruncateFile, TypeOK, JobShape, JobFiled, FileCurrent, registry
  <2>3. BoundAfterFiled'
    BY <1>1, <1>2 DEF TruncateFile, BoundAfterFiled
  <2>4. QED
    BY <2>1, <2>2, <2>3 DEF RegistryIInv
<1>3. CASE WriteFile
  <2>1. Pairs(mounts) \subseteq MountId \X Path
    BY <1>1 DEF Pairs, TypeOK
  <2>2. job' = Idle \/ (job.op = "thread" /\ job' = [job EXCEPT !.at = "put"])
    BY <1>3 DEF WriteFile
  <2>3. TypeOK'
    BY <1>1, <1>3, <2>1, <2>2 DEF WriteFile, TypeOK, registry, Idle
  <2>4. JobShape'
    BY <1>1, <2>2 DEF TypeOK, JobShape, Idle
  <2>5. FileCurrent'
    BY <1>3 DEF WriteFile, FileCurrent, Loaded, registry
  <2>6. JobFiled'
    <3>1. CASE job' = Idle
      BY <3>1 DEF JobFiled, Idle
    <3>2. CASE job.op = "thread" /\ job' = [job EXCEPT !.at = "put"]
      <4>1. /\ job'.at = "put" /\ job'.op = "thread" /\ job'.binding = job.binding
        BY <1>1, <3>2 DEF TypeOK
      <4>2. ASSUME job.binding.how = "path"
            PROVE  <<job.binding.mount, job.binding.path>> \in Pairs(mounts)
        <5>1. mounts[job.binding.mount] = job.binding.path
          BY <1>1, <1>3, <3>2, <4>2 DEF JobFiled, WriteFile
        <5>2. job.binding.mount \in MountId /\ job.binding.path \in Path
          BY <1>1, <3>2, <4>2 DEF JobShape, Binding
        <5>3. QED
          BY <5>1, <5>2, NodeRegistryAssumption DEF Pairs
      <4>3. QED
        BY <1>3, <4>1, <4>2 DEF JobFiled, WriteFile
    <3>3. QED
      BY <2>2, <3>1, <3>2
  <2>7. BoundAfterFiled'
    BY <1>1, <1>3 DEF WriteFile, BoundAfterFiled
  <2>8. QED
    BY <2>3, <2>4, <2>5, <2>6, <2>7 DEF RegistryIInv
<1>4. QED
  BY <1>2, <1>3

LEMMA IdleType ==
  ASSUME job' = Idle
  PROVE  JobShape' /\ JobFiled'
BY DEF JobShape, JobFiled, Idle

LEMMA EndsKeep ==
  ASSUME RegistryIInv, PutThread \/ WriteFails \/ Restart
  PROVE  RegistryIInv'
<1>1. TypeOK /\ JobShape /\ FileCurrent /\ JobFiled /\ BoundAfterFiled
  BY DEF RegistryIInv
<1>2. CASE PutThread
  <2>1. job.thread \in Thread /\ job.binding \in Binding
    BY <1>1, <1>2 DEF PutThread, JobShape
  <2>2. TypeOK'
    BY <1>1, <1>2, <2>1 DEF PutThread, TypeOK, Idle, registry
  <2>3. FileCurrent'
    BY <1>1, <1>2, LoadedKept DEF PutThread, FileCurrent, registry
  <2>4. BoundAfterFiled'
    BY <1>1, <1>2, <2>1 DEF PutThread, JobShape, JobFiled, BoundAfterFiled, TypeOK
  <2>5. QED
    BY <1>2, <2>2, <2>3, <2>4, IdleType DEF PutThread, RegistryIInv
<1>3. CASE WriteFails
  <2>1. TypeOK'
    BY <1>1, <1>3, NodeRegistryAssumption DEF WriteFails, TypeOK, Idle, registry
  <2>2. FileCurrent'
    BY <1>1, <1>3, NodeRegistryAssumption DEF WriteFails, FileCurrent, TypeOK
  <2>3. BoundAfterFiled'
    BY <1>1, <1>3 DEF WriteFails, BoundAfterFiled
  <2>4. QED
    BY <1>3, <2>1, <2>2, <2>3, IdleType DEF WriteFails, RegistryIInv
<1>4. CASE Restart
  <2>1. TypeOK'
    BY <1>1, <1>4, LoadedType, NodeRegistryAssumption DEF Restart, TypeOK, Idle
  <2>2. FileCurrent'
    BY <1>4, LoadedKept DEF Restart, FileCurrent
  <2>3. BoundAfterFiled'
    BY <1>1, <1>4 DEF Restart, BoundAfterFiled
  <2>4. QED
    BY <1>4, <2>1, <2>2, <2>3, IdleType DEF Restart, RegistryIInv
<1>5. QED
  BY <1>2, <1>3, <1>4

LEMMA NextRegistry ==
  ASSUME RegistryIInv, [Next]_vars
  PROVE  RegistryIInv'
<1>1. CASE UNCHANGED vars
  BY <1>1, LoadedKept DEF vars, registry, RegistryIInv, TypeOK, JobShape, FileCurrent,
     JobFiled, BoundAfterFiled
<1>2. CASE Next
  BY <1>2, RequestsKeep, StartsKeep, SavingKeeps, EndsKeep DEF Next
<1>3. QED
  BY <1>1, <1>2

-----------------------------------------------------------------------------
(* Whatever writes fail and whenever the process ends: a thread started on *)
(* a path is bound to a mount of that path which the registry file held    *)
(* before the thread was stored, and between requests, as long as no write *)
(* failed, a restart loads the mounts that are in memory.                  *)
THEOREM RegistryCorrect == Spec => []RegistryInv
<1>1. Init => RegistryIInv
  BY InitRegistry
<1>2. RegistryIInv /\ [Next]_vars => RegistryIInv'
  BY NextRegistry
<1>3. RegistryIInv => RegistryInv
  BY DEF RegistryIInv, RegistryInv, FileCurrent, RestartFindsMounts, Idle
<1>4. QED
  BY <1>1, <1>2, <1>3, PTL DEF Spec

(* While the process runs, next_workspace_mount_id never hands out the     *)
(* identifier of a mount: no request changes the path of a mount in use.   *)
THEOREM MountsKeepTheirPath == Spec => MountNotRetargeted
<1>1. Init => RegistryIInv
  BY InitRegistry
<1>2. RegistryIInv /\ [Next]_vars => RegistryIInv'
  BY NextRegistry
<1>3. ASSUME RegistryIInv, [Next]_vars, crashes' = crashes, NEW id \in Used
      PROVE  mounts'[id] \in {mounts[id], None}
  <2>1. TypeOK /\ id \in MountId
    BY <1>3 DEF RegistryIInv, Used
  <2>2. ASSUME NEW p \in Path, Insert(p)
        PROVE  mounts'[id] = mounts[id]
    BY <1>3, <2>1, <2>2, InsertKeeps
  <2>3. ASSUME NEW i \in MountId, DetachWorkspaceMount(i)
        PROVE  mounts'[id] \in {mounts[id], None}
    BY <2>1, <2>3 DEF DetachWorkspaceMount, TypeOK
  <2>4. ASSUME Restart
        PROVE  FALSE
    BY <1>3, <2>1, <2>4 DEF Restart, TypeOK
  <2>5. CASE UNCHANGED mounts
    BY <2>5
  <2>6. QED
    BY <1>3, <2>2, <2>3, <2>4, <2>5
    DEF Next, vars, registry, AttachWorkspaceMount, UpdateNodePolicy, HeartbeatNode, UpdateNode,
        StartThreadOnPath, StartThreadOnMount, StartThreadAsGiven, ForkThread,
        TruncateFile, WriteFile, PutThread, WriteFails
<1>4. RegistryIInv /\ [Next]_vars =>
        [crashes' = crashes => \A id \in Used : mounts'[id] \in {mounts[id], None}]_vars
  BY <1>3
<1>5. QED
  BY <1>1, <1>2, <1>4, PTL DEF Spec, MountNotRetargeted

=============================================================================
