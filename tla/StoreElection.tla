---------------------------- MODULE StoreElection ----------------------------
(***************************************************************************)
(* Which tab owns the store (opfs.ts, opfs-store.ts, opfs-platform.ts):    *)
(* mountOpfsStorage asks for the leader lock without waiting, OpfsStore    *)
(* then takes the three exclusive file handles one after the other, and    *)
(* every failure gives back what was taken.  A tab may run without the     *)
(* lock manager: the handles alone have to keep the store single-writer.   *)
(***************************************************************************)
EXTENDS Naturals, Sequences, FiniteSets

CONSTANTS
  Tabs,
  WithLocks,  \* the tabs that have navigator.locks
  MayFollow,  \* the tabs that mount with allowFollower
  MaxFaults,  \* bound: opens and recoveries the device fails
  MaxLeaves   \* bound: tabs that close or die

\* slotA, slotB, wal: opened, and closed, in this order.
Files == <<"a", "b", "wal">>
Nobody == "nobody"

VARIABLES
  at,        \* per tab: where its mount stands
  leader,    \* the holder of the leader lock
  handle,    \* per file: the holder of its exclusive handle
  opens,     \* per tab: files opened (or, while closing, still to close)
  faults, leaves,
  alone      \* ghost, per tab: no other tab has had anything to do with the
             \* store since this tab began to mount

electionVars == <<at, leader, handle, opens, faults, leaves, alone>>

FileSet == {Files[i] : i \in DOMAIN Files}
Places  == {"closed", "elect", "open", "recover", "leader", "closing", "release",
            "follow", "follower", "refused"}
Held(t) == {f \in FileSet : handle[f] = t}

TypeOK ==
  /\ at \in [Tabs -> Places]
  /\ leader \in Tabs \cup {Nobody}
  /\ handle \in [FileSet -> Tabs \cup {Nobody}]
  /\ opens \in [Tabs -> 0..Len(Files)]
  /\ alone \in [Tabs -> BOOLEAN]

\* A tab that has nothing to do with the store, and may mount it (again).
Away(t) == at[t] \in {"closed", "refused"}

Init ==
  /\ at = [t \in Tabs |-> "closed"] /\ leader = Nobody
  /\ handle = [f \in FileSet |-> Nobody] /\ opens = [t \in Tabs |-> 0]
  /\ faults = 0 /\ leaves = 0 /\ alone = [t \in Tabs |-> FALSE]

Move(t, p) == at' = [at EXCEPT ![t] = p]
Fault == faults < MaxFaults /\ faults' = faults + 1

\* A tab is loaded, or reloaded after it was refused.
Mount(t) ==
  /\ Away(t)
  /\ IF at[t] = "refused" THEN leaves < MaxLeaves /\ leaves' = leaves + 1
                          ELSE UNCHANGED leaves
  /\ Move(t, IF t \in WithLocks THEN "elect" ELSE "open")
  /\ alone' = [u \in Tabs |-> IF u = t THEN \A o \in Tabs \ {t} : Away(o) ELSE FALSE]
  /\ UNCHANGED <<leader, handle, opens, faults>>

\* slip: without ifAvailable the request waits for the other tab.
ElectWaits(t) ==
  /\ at[t] = "elect" /\ leader = Nobody
  /\ leader' = t /\ Move(t, "open")
  /\ UNCHANGED <<handle, opens, faults, leaves, alone>>

\* requestLeadership with ifAvailable: granted, or not, at once.
Elect(t) ==
  /\ at[t] = "elect"
  /\ IF leader = Nobody
     THEN leader' = t /\ Move(t, "open")
     ELSE /\ UNCHANGED leader
          /\ Move(t, IF t \in MayFollow THEN "follow" ELSE "refused")
  /\ UNCHANGED <<handle, opens, faults, leaves, alone>>

\* slip: the handles are not exclusive.
OpenFileShared(t) ==
  /\ at[t] = "open"
  /\ handle' = [handle EXCEPT ![Files[opens[t] + 1]] = t]
  /\ opens' = [opens EXCEPT ![t] = @ + 1]
  /\ IF opens[t] + 1 = Len(Files) THEN Move(t, "recover") ELSE UNCHANGED at
  /\ UNCHANGED <<leader, faults, leaves, alone>>

\* slip: the three files are opened side by side.
OpenFileAnyOrder(t) ==
  /\ at[t] = "open"
  /\ \E f \in FileSet : handle[f] = Nobody /\ handle' = [handle EXCEPT ![f] = t]
  /\ opens' = [opens EXCEPT ![t] = @ + 1]
  /\ IF opens[t] + 1 = Len(Files) THEN Move(t, "recover") ELSE UNCHANGED at
  /\ UNCHANGED <<leader, faults, leaves, alone>>

\* The next file's handle is free.
OpenFile(t) ==
  /\ at[t] = "open"
  /\ handle[Files[opens[t] + 1]] = Nobody
  /\ handle' = [handle EXCEPT ![Files[opens[t] + 1]] = t]
  /\ opens' = [opens EXCEPT ![t] = @ + 1]
  /\ IF opens[t] + 1 = Len(Files) THEN Move(t, "recover") ELSE UNCHANGED at
  /\ UNCHANGED <<leader, faults, leaves, alone>>

\* slip: the early return forgets what it had opened.
OpenFailsKeeping(t) ==
  /\ at[t] = "open"
  /\ \/ handle[Files[opens[t] + 1]] # Nobody /\ UNCHANGED faults
     \/ Fault
  /\ Move(t, "release")
  /\ opens' = [opens EXCEPT ![t] = 0]
  /\ alone' = [alone EXCEPT ![t] = @ /\ faults' = faults]
  /\ UNCHANGED <<leader, handle, leaves>>

\* Another context has it, or the device fails: give back what was opened.
OpenFails(t) ==
  /\ at[t] = "open"
  /\ \/ handle[Files[opens[t] + 1]] # Nobody /\ UNCHANGED faults
     \/ Fault
  /\ Move(t, "closing")
  /\ alone' = [alone EXCEPT ![t] = @ /\ faults' = faults]
  /\ UNCHANGED <<leader, handle, opens, leaves>>

\* recover, the graft, the replay and the first checkpoint.
Recover(t) ==
  /\ at[t] = "recover"
  /\ \/ Move(t, "leader") /\ UNCHANGED <<faults, alone>>
     \/ Fault /\ Move(t, "closing") /\ alone' = [alone EXCEPT ![t] = FALSE]
  /\ UNCHANGED <<leader, handle, opens, leaves>>

\* store.close(): the handles go one by one, slot A first; another context may
\* ask for one in between.
CloseFile(t) ==
  /\ at[t] = "closing"
  /\ LET mine == {i \in DOMAIN Files : handle[Files[i]] = t} IN
     IF mine = {}
     THEN /\ Move(t, "release") /\ opens' = [opens EXCEPT ![t] = 0]
          /\ UNCHANGED handle
     ELSE /\ handle' = [handle EXCEPT ![Files[CHOOSE i \in mine : \A j \in mine : i <= j]] = Nobody]
          /\ UNCHANGED <<at, opens>>
  /\ UNCHANGED <<leader, faults, leaves, alone>>

\* slip: nobody releases the leader lock of a mount that failed.
ReleaseForgotten(t) ==
  /\ at[t] = "release" /\ Move(t, "refused")
  /\ UNCHANGED <<leader, handle, opens, faults, leaves, alone>>

\* leadership?.release(): the held promise resolves and the lock goes with it.
Release(t) ==
  /\ at[t] = "release"
  /\ leader' = IF leader = t THEN Nobody ELSE leader
  /\ Move(t, "refused")
  /\ UNCHANGED <<handle, opens, faults, leaves, alone>>

\* mountFollower reads without a lock and keeps nothing open.
Follow(t) ==
  /\ at[t] = "follow" /\ Move(t, "follower")
  /\ UNCHANGED <<leader, handle, opens, faults, leaves, alone>>

\* The owner of a mounted store closes it, or the tab dies wherever it is: the
\* platform then releases its handles and its lock.
Leave(t) ==
  /\ ~Away(t) /\ leaves < MaxLeaves /\ leaves' = leaves + 1
  /\ \/ at[t] = "leader" /\ Move(t, "closing") /\ UNCHANGED <<leader, handle, opens>>
     \/ /\ Move(t, "closed")
        /\ handle' = [f \in FileSet |-> IF handle[f] = t THEN Nobody ELSE handle[f]]
        /\ leader' = IF leader = t THEN Nobody ELSE leader
        /\ opens' = [opens EXCEPT ![t] = 0]
  /\ alone' = [alone EXCEPT ![t] = FALSE]
  /\ UNCHANGED faults

MountStep(t) == Elect(t) \/ OpenFile(t) \/ OpenFails(t) \/ Recover(t)
                \/ CloseFile(t) \/ Release(t) \/ Follow(t)
Next == \E t \in Tabs : Mount(t) \/ MountStep(t) \/ Leave(t)

\* Each await of a mount is answered; nobody has to open or close a tab.
Fairness == \A t \in Tabs : WF_electionVars(MountStep(t))
Spec == Init /\ [][Next]_electionVars /\ Fairness

-----------------------------------------------------------------------------
(* At most one tab reads, writes or has open the files of the store as its
   owner, with the lock manager or without it, and a leader holds all three. *)
OneOwner ==
  /\ Cardinality({t \in Tabs : at[t] \in {"recover", "leader"}}) <= 1
  /\ \A t \in Tabs : at[t] \in {"recover", "leader"} => Held(t) = FileSet

(* A tab that was refused, follows or was closed has given everything back:
   it is not in the way of the tab that can use the store. *)
NothingStranded ==
  \A t \in Tabs : at[t] \in {"refused", "closed", "follow", "follower"}
                  => Held(t) = {} /\ leader # t

(* Tabs that open together do not refuse each other all round: when no tab
   left and no device failed, somebody ends up with the store. *)
SomebodyLeads ==
  (/\ \E t \in Tabs : at[t] # "closed"
   /\ \A t \in Tabs : at[t] \in {"closed", "leader", "follower", "refused"}
   /\ faults = 0 /\ leaves = 0)
  => \E t \in Tabs : at[t] = "leader"

(* "Close the other tab and reload to take over": a tab that has the store to
   itself from the moment it mounts, on a device that works, is not refused
   and does not come up as a follower. *)
ReloadTakesOver ==
  \A t \in Tabs : alone[t] => at[t] \notin {"refused", "follow", "follower"}

ElectionSafe == OneOwner /\ NothingStranded /\ SomebodyLeads /\ ReloadTakesOver

(* Where every behaviour ends up: each mount is decided, no tab waits for
   another one. *)
Decided == \A t \in Tabs : at[t] \in {"leader", "follower", "refused", "closed"}
=============================================================================
