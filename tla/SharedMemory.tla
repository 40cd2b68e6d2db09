---------------------------- MODULE SharedMemory -----------------------------
(***************************************************************************)
(* ipc::SharedMemoryRegion of src/ipc/shared_memory.cpp, used by several   *)
(* processes on one name.  Each system call is a step of its own, and may  *)
(* fail; a process may die between any two.  The checks of the name and of *)
(* a size of zero, which precede every call, are left out.                 *)
(***************************************************************************)
EXTENDS Integers

CONSTANTS
  Processes,
  Handles,      \* the SharedMemoryRegion objects of each process
  Bytes,        \* the sizes asked for
  MaxObjects,   \* bound on the shared memory objects ever created
  MaxMappings   \* bound on the mappings ever made

ASSUME SharedMemoryAssumption ==
  /\ Handles # {}
  /\ Bytes \subseteq Nat \ {0}
  /\ MaxObjects \in Nat /\ MaxMappings \in Nat

VARIABLES
  bound,     \* the object the name is bound to, 0 if none
  size,      \* the sizes of the objects created so far
  regions,   \* the SharedMemoryRegion objects
  call,      \* the create() or openExisting() each process is in
  live,      \* the mappings of each process the kernel holds
  made,      \* how many mappings have been made
  created,   \* how many objects have been created
  orphaned   \* history: objects whose creator died inside create()

memory == <<bound, size, regions, call, live, made, created, orphaned>>

Objects == 1 .. MaxObjects

Region == [mapping: 0 .. MaxMappings, object: 0 .. MaxObjects, size: {0} \cup Bytes,
           ok: BOOLEAN]
NoRegion == [mapping |-> 0, object |-> 0, size |-> 0, ok |-> TRUE]

Call == [step: {"idle", "truncate", "map", "remove", "stat", "attach"}, handle: Handles,
         bytes: {0} \cup Bytes, object: 0 .. MaxObjects]
Idle == [step |-> "idle", handle |-> CHOOSE h \in Handles : TRUE, bytes |-> 0, object |-> 0]

MemoryType ==
  /\ bound \in 0 .. MaxObjects
  /\ size \in [Objects -> {0} \cup Bytes]
  /\ regions \in [Processes -> [Handles -> Region]]
  /\ call \in [Processes -> Call]
  /\ live \in [Processes -> SUBSET (1 .. MaxMappings)]
  /\ made \in Nat
  /\ created \in 0 .. MaxObjects
  /\ orphaned \subseteq Objects

MemoryInit ==
  /\ bound = 0
  /\ size = [o \in Objects |-> 0]
  /\ regions = [p \in Processes |-> [h \in Handles |-> NoRegion]]
  /\ call = [p \in Processes |-> Idle]
  /\ live = [p \in Processes |-> {}]
  /\ made = 0
  /\ created = 0
  /\ orphaned = {}
-----------------------------------------------------------------------------
Valid(r) == r.mapping # 0

Failed == [NoRegion EXCEPT !.ok = FALSE]

(* create() and openExisting() fill a new region, here an unused handle.   *)
Enter(p, h, step, bytes, object) ==
  /\ call[p].step = "idle" /\ ~Valid(regions[p][h])
  /\ call' = [call EXCEPT ![p] =
       [step |-> step, handle |-> h, bytes |-> bytes, object |-> object]]

Leave(p) == call' = [call EXCEPT ![p] = Idle]

Fails(p) ==
  /\ regions' = [regions EXCEPT ![p][call[p].handle] = Failed]
  /\ UNCHANGED <<live, made>>

(* mapDescriptor(), when mmap() succeeds.                                  *)
Maps(p) ==
  /\ made < MaxMappings
  /\ made' = made + 1
  /\ live' = [live EXCEPT ![p] = @ \cup {made'}]
  /\ regions' = [regions EXCEPT ![p][call[p].handle] =
       [mapping |-> made', object |-> call[p].object, size |-> call[p].bytes, ok |-> TRUE]]

(* create(): shm_open with O_EXCL, on a free name.                         *)
CreateOpen(p, h, bytes) ==
  /\ bound = 0 /\ created < MaxObjects
  /\ created' = created + 1
  /\ bound' = created'
  /\ Enter(p, h, "truncate", bytes, created')
  /\ UNCHANGED <<size, regions, live, made, orphaned>>

(* create() on a taken name, openExisting() on a free one, and shm_open    *)
(* failing for a reason of its own.                                        *)
OpenFails(p, h) ==
  /\ call[p].step = "idle" /\ ~Valid(regions[p][h])
  /\ regions' = [regions EXCEPT ![p][h] = Failed]
  /\ UNCHANGED <<bound, size, call, live, made, created, orphaned>>

M_TruncateLeavesName(p) ==
  /\ call[p].step = "truncate"
  /\ \/ /\ size' = [size EXCEPT ![call[p].object] = call[p].bytes]
        /\ call' = [call EXCEPT ![p].step = "map"]
        /\ UNCHANGED <<regions, live, made>>
     \/ /\ Fails(p)
        /\ Leave(p)
        /\ UNCHANGED size
  /\ UNCHANGED <<bound, created, orphaned>>

Truncate(p) ==
  /\ call[p].step = "truncate"
  /\ \/ /\ size' = [size EXCEPT ![call[p].object] = call[p].bytes]
        /\ call' = [call EXCEPT ![p].step = "map"]
        /\ UNCHANGED <<regions, live, made>>
     \/ /\ Fails(p)
        /\ call' = [call EXCEPT ![p].step = "remove"]
        /\ UNCHANGED size
  /\ UNCHANGED <<bound, created, orphaned>>

CreateMap(p) ==
  /\ call[p].step = "map"
  /\ \/ Maps(p) /\ Leave(p)
     \/ Fails(p) /\ call' = [call EXCEPT ![p].step = "remove"]
  /\ UNCHANGED <<bound, size, created, orphaned>>

(* shm_unlink after a failure: of whatever has the name by now.            *)
Remove(p) ==
  /\ call[p].step = "remove"
  /\ bound' = 0
  /\ Leave(p)
  /\ UNCHANGED <<size, regions, live, made, created, orphaned>>

OpenExisting(p, h, bytes) ==
  /\ bound # 0
  /\ Enter(p, h, "stat", bytes, bound)
  /\ UNCHANGED <<bound, size, regions, live, made, created, orphaned>>

M_sizeUnchecked(p) == TRUE

LargeEnough(p) == size[call[p].object] >= call[p].bytes

(* fstat and the check of the size; either may end the call.               *)
Stat(p) ==
  /\ call[p].step = "stat"
  /\ \/ /\ LargeEnough(p)
        /\ call' = [call EXCEPT ![p].step = "attach"]
        /\ UNCHANGED <<regions, live, made>>
     \/ /\ Fails(p)
        /\ Leave(p)
  /\ UNCHANGED <<bound, size, created, orphaned>>

Attach(p) ==
  /\ call[p].step = "attach"
  /\ Maps(p) \/ Fails(p)
  /\ Leave(p)
  /\ UNCHANGED <<bound, size, created, orphaned>>

UnlinkName(p) ==
  /\ call[p].step = "idle"
  /\ bound' = 0
  /\ UNCHANGED <<size, regions, call, live, made, created, orphaned>>

(* close(), and the destructor.                                            *)
Close(p, h) ==
  /\ call[p].step = "idle"
  /\ live' = [live EXCEPT ![p] = @ \ {regions[p][h].mapping}]
  /\ regions' = [regions EXCEPT ![p][h] =
       [@ EXCEPT !.mapping = 0, !.object = 0, !.size = 0]]
  /\ UNCHANGED <<bound, size, call, made, created, orphaned>>

M_MoveCopies(p, h, from) ==
  /\ call[p].step = "idle" /\ h # from
  /\ live' = [live EXCEPT ![p] = @ \ {regions[p][h].mapping}]
  /\ regions' = [regions EXCEPT ![p][h] = regions[p][from]]
  /\ UNCHANGED <<bound, size, call, made, created, orphaned>>

(* Move assignment; onto an empty region it is the move constructor, and   *)
(* onto itself it does nothing.                                            *)
Move(p, h, from) ==
  /\ call[p].step = "idle" /\ h # from
  /\ live' = [live EXCEPT ![p] = @ \ {regions[p][h].mapping}]
  /\ regions' = [regions EXCEPT
       ![p][h] = regions[p][from],
       ![p][from] = [NoRegion EXCEPT !.ok = regions[p][from].ok]]
  /\ UNCHANGED <<bound, size, call, made, created, orphaned>>

(* The process dies: the kernel drops its mappings, the name stays.        *)
Die(p) ==
  /\ orphaned' = orphaned \cup
       (IF call[p].step \in {"truncate", "map", "remove"} THEN {call[p].object} ELSE {})
  /\ regions' = [regions EXCEPT ![p] = [h \in Handles |-> NoRegion]]
  /\ live' = [live EXCEPT ![p] = {}]
  /\ Leave(p)
  /\ UNCHANGED <<bound, size, made, created>>

MemoryNext ==
  \E p \in Processes :
    \/ \E h \in Handles, bytes \in Bytes :
         CreateOpen(p, h, bytes) \/ OpenExisting(p, h, bytes)
    \/ \E h \in Handles : OpenFails(p, h) \/ Close(p, h)
    \/ \E h \in Handles, from \in Handles : Move(p, h, from)
    \/ Truncate(p) \/ CreateMap(p) \/ Remove(p)
    \/ Stat(p) \/ Attach(p)
    \/ UnlinkName(p)
    \/ Die(p)

MemorySpec == MemoryInit /\ [][MemoryNext]_memory
-----------------------------------------------------------------------------
(* REQ-IPC-002, the size check of openExisting(): no region reaches beyond *)
(* the end of its object, even when it was opened while the object was     *)
(* still being created.                                                    *)
MappedInside ==
  \A p \in Processes, h \in Handles :
    Valid(regions[p][h]) => regions[p][h].size <= size[regions[p][h].object]

(* REQ-IPC-005, move and close: each mapping the kernel holds for a        *)
(* process belongs to exactly one of its regions, and no region refers to  *)
(* a mapping already released.                                             *)
OwnedOnce ==
  \A p \in Processes :
    /\ \A m \in live[p] :
         \E h \in Handles : {k \in Handles : regions[p][k].mapping = m} = {h}
    /\ \A h \in Handles : Valid(regions[p][h]) => regions[p][h].mapping \in live[p]

(* The comment in create(): a failed create() leaves no zero-length object *)
(* under the name; one is there only while its creator is at work, or if   *)
(* it died.                                                                *)
NoZeroLengthTrap ==
  (bound # 0 /\ size[bound] = 0) =>
    \/ bound \in orphaned
    \/ \E p \in Processes : call[p].step \in {"truncate", "remove"} /\ call[p].object = bound
=============================================================================
