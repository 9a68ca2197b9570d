---------------------------- MODULE NodeRegistry ----------------------------
(***************************************************************************)
(* The node registry (runtime/node_registry.rs), the registry file it is   *)
(* saved to (storage/node_registry_store.rs, storage/fs.rs) and the        *)
(* threads bound to its workspace mounts (runtime/coordinator.rs).         *)
(*                                                                         *)
(* A request changes the registry in memory first and then saves all of    *)
(* it: fs::write truncates the file and fills it again.  The process can   *)
(* end, or the write fail, before, between and after.                      *)
(***************************************************************************)
EXTENDS Naturals, FiniteSets

CONSTANTS
  Path,        \* root paths
  Thread,      \* thread identifiers
  None,        \* no mount, no path, no thread
  MaxMount,    \* bound: index of the last workspace_<index>
  MaxFaults,   \* bound: failed writes
  MaxCrashes   \* bound: ends of the process

ASSUME NodeRegistryAssumption ==
  /\ MaxMount \in Nat /\ MaxFaults \in Nat /\ MaxCrashes \in Nat
  /\ None \notin Path

VARIABLES
  mounts,   \* MountId -> root path or None: NodeRegistry.workspace_mounts
  local,    \* the record of the local node, the one node there is
  file,     \* the registry file
  bound,    \* Thread -> workspace of the stored thread, or None
  job,      \* the request being served
  filed,    \* history: <<mount, path>> pairs the file ever held
  faults,
  crashes

registry == <<mounts, local>>
vars     == <<registry, file, bound, job, filed, faults, crashes>>

-----------------------------------------------------------------------------
MountId == 1..MaxMount

LocalNode == [policy : {"default", "changed"}, seen : BOOLEAN]
FreshNode == [policy |-> "default", seen |-> FALSE]

Snapshot == [mounts : [MountId -> Path \cup {None}], local : LocalNode]

(* How a thread came to its workspace: by path, by mount, or as given, when*)
(* the request names both or neither and nothing is looked up.             *)
Binding == [how : {"path", "mount"}, path : Path, mount : MountId]
           \cup [how : {"given"}, path : Path \cup {None}, mount : MountId \cup {None}]

NoMounts == [id \in MountId |-> None]
Idle == [at |-> "idle", op |-> "none", mount |-> None, thread |-> None, binding |-> None]

Pairs(m) == {<<id, m[id]>> : id \in {i \in MountId : m[i] # None}}

Used == {id \in MountId : mounts[id] # None}

NextFree_Length == Cardinality(Used) + 1

(* next_workspace_mount_id: the first free index past the number of mounts.*)
NextFree ==
  CHOOSE id \in 1..(MaxMount + 1) :
    /\ id > Cardinality(Used) /\ id \notin Used
    /\ \A lower \in (Cardinality(Used) + 1)..(id - 1) : lower \in Used

(* from_snapshot: of the saved local node, only last_seen_at is kept.      *)
Loaded ==
  CASE file.body = "whole" -> [mounts |-> file.mounts,
                               local  |-> [FreshNode EXCEPT !.seen = file.local.seen]]
    [] file.body # "whole" -> [mounts |-> NoMounts, local |-> FreshNode]

Init ==
  /\ mounts   = NoMounts
  /\ local    = FreshNode
  /\ file     = [body |-> "absent", mounts |-> NoMounts, local |-> FreshNode]
  /\ bound    = [th \in Thread |-> None]
  /\ job      = Idle
  /\ filed    = {}
  /\ faults   = 0
  /\ crashes  = 0

-----------------------------------------------------------------------------
(* Requests that change the registry *)

Save(op, id, th, binding) ==
  job' = [at |-> "truncate", op |-> op, mount |-> id, thread |-> th, binding |-> binding]

Insert(p) ==
  /\ NextFree \in MountId
  /\ mounts' = [mounts EXCEPT ![NextFree] = p]

AttachWorkspaceMount(p) ==
  /\ job = Idle
  /\ Insert(p)
  /\ Save("attach", NextFree, None, None)
  /\ UNCHANGED <<local, file, bound, filed, faults, crashes>>

DetachWorkspaceMount(id) ==
  /\ job = Idle
  /\ id \in Used                                  \* workspace_mount_not_found
  /\ mounts' = [mounts EXCEPT ![id] = None]
  /\ Save("detach", id, None, None)
  /\ UNCHANGED <<local, file, bound, filed, faults, crashes>>

UpdateNode(node) ==
  /\ job = Idle
  /\ local' = node
  /\ Save("node", None, None, None)
  /\ UNCHANGED <<mounts, file, bound, filed, faults, crashes>>

UpdateNodePolicy(p) == UpdateNode([local EXCEPT !.policy = p])
HeartbeatNode       == UpdateNode([local EXCEPT !.seen = TRUE])

-----------------------------------------------------------------------------
(* Threads *)

Put(th, binding) ==
  job' = [at |-> "put", op |-> "thread", mount |-> None, thread |-> th, binding |-> binding]

ByPath(p, id) == [how |-> "path", path |-> p, mount |-> id]

StartThreadOnPath_SavesNewOnly(th, p) ==
  /\ job = Idle
  /\ bound[th] = None
  /\ \/ \E id \in Used :
          /\ mounts[id] = p
          /\ Put(th, ByPath(p, id))
          /\ UNCHANGED mounts
     \/ /\ \A id \in Used : mounts[id] # p
        /\ Insert(p)
        /\ Save("thread", NextFree, th, ByPath(p, NextFree))
  /\ UNCHANGED <<local, file, bound, filed, faults, crashes>>

(* resolve_or_attach_local_workspace takes any mount of that path, or a    *)
(* new one; the registry is saved either way.                              *)
StartThreadOnPath(th, p) ==
  /\ job = Idle
  /\ bound[th] = None
  /\ \/ \E id \in Used :
          /\ mounts[id] = p
          /\ Save("thread", id, th, ByPath(p, id))
          /\ UNCHANGED mounts
     \/ /\ \A id \in Used : mounts[id] # p
        /\ Insert(p)
        /\ Save("thread", NextFree, th, ByPath(p, NextFree))
  /\ UNCHANGED <<local, file, bound, filed, faults, crashes>>

StartThreadOnMount(th, id) ==
  /\ job = Idle
  /\ bound[th] = None
  /\ id \in Used                                  \* workspace_mount_not_found
  /\ Put(th, [how |-> "mount", path |-> mounts[id], mount |-> id])
  /\ UNCHANGED <<registry, file, bound, filed, faults, crashes>>

StartThreadAsGiven(th, p, id) ==
  /\ job = Idle
  /\ bound[th] = None
  /\ (p = None) <=> (id = None)
  /\ Put(th, [how |-> "given", path |-> p, mount |-> id])
  /\ UNCHANGED <<registry, file, bound, filed, faults, crashes>>

ForkThread(parent, child) ==
  /\ job = Idle
  /\ bound[parent] # None /\ bound[child] = None
  /\ Put(child, bound[parent])
  /\ UNCHANGED <<registry, file, bound, filed, faults, crashes>>

-----------------------------------------------------------------------------
(* Saving *)

TruncateFile ==
  /\ job.at = "truncate"
  /\ file' = [file EXCEPT !.body = "torn"]
  /\ job' = [job EXCEPT !.at = "write"]
  /\ UNCHANGED <<registry, bound, filed, faults, crashes>>

(* The snapshot is on disk: the request is answered, or a thread put.      *)
WriteFile ==
  /\ job.at = "write"
  /\ file' = [body |-> "whole", mounts |-> mounts, local |-> local]
  /\ filed' = filed \cup Pairs(mounts)
  /\ job' = IF job.op = "thread" THEN [job EXCEPT !.at = "put"] ELSE Idle
  /\ UNCHANGED <<registry, bound, faults, crashes>>

PutThread ==
  /\ job.at = "put"
  /\ bound' = [bound EXCEPT ![job.thread] = job.binding]
  /\ job' = Idle
  /\ UNCHANGED <<registry, file, filed, faults, crashes>>

(* The file stays as the failed call left it, the memory as it was changed.*)
WriteFails ==
  /\ job # Idle
  /\ faults < MaxFaults
  /\ faults' = faults + 1
  /\ job' = Idle
  /\ UNCHANGED <<registry, file, bound, filed, crashes>>

(* A registry file that cannot be read counts as none.                     *)
Restart ==
  /\ crashes < MaxCrashes
  /\ crashes' = crashes + 1
  /\ mounts' = Loaded.mounts
  /\ local'  = Loaded.local
  /\ job'    = Idle
  /\ UNCHANGED <<file, bound, filed, faults>>

-----------------------------------------------------------------------------
Next ==
  \/ \E p \in Path : AttachWorkspaceMount(p)
  \/ \E id \in MountId : DetachWorkspaceMount(id)
  \/ \E p \in {"default", "changed"} : UpdateNodePolicy(p)
  \/ HeartbeatNode
  \/ \E th \in Thread, p \in Path : StartThreadOnPath(th, p)
  \/ \E th \in Thread, id \in MountId : StartThreadOnMount(th, id)
  \/ \E th \in Thread, p \in Path \cup {None}, id \in MountId \cup {None} :
       StartThreadAsGiven(th, p, id)
  \/ \E parent, child \in Thread : ForkThread(parent, child)
  \/ TruncateFile \/ WriteFile \/ PutThread
  \/ WriteFails \/ Restart

Spec == Init /\ [][Next]_vars

-----------------------------------------------------------------------------
(* Properties *)

TypeOK ==
  /\ mounts \in [MountId -> Path \cup {None}]
  /\ local \in LocalNode
  /\ file \in [body : {"absent", "torn", "whole"},
               mounts : [MountId -> Path \cup {None}], local : LocalNode]
  /\ bound \in [Thread -> Binding \cup {None}]
  /\ job \in [at : {"idle", "truncate", "write", "put"},
              op : {"none", "attach", "detach", "node", "thread"},
              mount : MountId \cup {None}, thread : Thread \cup {None},
              binding : Binding \cup {None}]
  /\ filed \subseteq MountId \X Path
  /\ faults \in 0..MaxFaults
  /\ crashes \in 0..MaxCrashes

(* Between requests, and as long as no write failed, a restart finds the   *)
(* mounts that are in memory: every request that changes them saves them.  *)
RestartFindsMounts == job = Idle /\ faults = 0 => Loaded.mounts = mounts

(* While the process runs, an identifier in use is never given to another  *)
(* path, although identifiers are numbered from the count of the mounts.   *)
MountNotRetargeted ==
  [][crashes' = crashes =>
       \A id \in Used : mounts'[id] \in {mounts[id], None}]_vars

(* A thread started on a path is bound to a mount of that path the file    *)
(* has held before the thread was stored, whichever writes failed earlier. *)
BoundAfterFiled ==
  \A th \in Thread : bound[th] # None /\ bound[th].how = "path" =>
    <<bound[th].mount, bound[th].path>> \in filed

(* Memory, the file and the threads agree on the mounts, and the types.    *)
RegistryInv ==
  /\ TypeOK
  /\ RestartFindsMounts
  /\ BoundAfterFiled

-----------------------------------------------------------------------------
(* What comments and tests say and the code does not do *)

(* liz-protocol/ids.rs: WorkspaceMountId is "a unique identifier for a     *)
(* workspace".  A detached identifier is handed out again for another path,*)
(* while threads that were started on the first path still carry it.       *)
MountIdsUnique ==
  \A th \in Thread : bound[th] # None /\ bound[th].how = "path" =>
    mounts[bound[th].mount] \in {bound[th].path, None}

=============================================================================
