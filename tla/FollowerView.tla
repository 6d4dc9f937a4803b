---------------------------- MODULE FollowerView ----------------------------
(***************************************************************************)
(* A second tab that could not have the leader lock mounts read-only       *)
(* (mountFollower): it reads slot A, slot B and the log through getFile(), *)
(* one await after the other, while the leader goes on writing.  getFile() *)
(* returns unflushed bytes, so it reads slot and wal, not slotD and walD.  *)
(***************************************************************************)
EXTENDS DurableStore

VARIABLES
  fpc,    \* "idle", "b", "log", "done": the next file the follower reads
  fslot,  \* the slots it has read
  view,   \* the tree it shows
  asOf,   \* ghost: what the leader had reported when the read began
  quiet,  \* ghost: no checkpoint, boot or wipe of the leader overlapped the read
  seen    \* ghost: every tree the leader ever had

fvars == <<fpc, fslot, view, asOf, quiet, seen>>

FInit ==
  /\ Init
  /\ fpc = "idle" /\ fslot = [s \in Slots |-> NoSlot] /\ view = {}
  /\ asOf = {} /\ quiet = TRUE /\ seen = {{}}

\* No file but the tail of the log moves in these states.
LeaderQuiet == pc \in {"serving", "plan.append", "plan.flush", "apply", "commit"}

ReadA ==
  /\ fpc = "idle" /\ pc # "down"
  /\ fslot' = [fslot EXCEPT !["a"] = slot["a"]]
  /\ fpc' = "b"
  /\ asOf' = acked /\ quiet' = (LeaderQuiet /\ generation > 0)
  /\ UNCHANGED <<view, seen>>

\* With no readable slot the view is that of a store that does not exist yet.
ReadB ==
  /\ fpc = "b"
  /\ fslot' = [fslot EXCEPT !["b"] = slot["b"]]
  /\ fpc' = IF fslot'[Winner(fslot')].gen = 0 THEN "done" ELSE "log"
  /\ UNCHANGED <<view, asOf, quiet, seen>>

\* slip: the log is replayed whatever checkpoint it belongs to.
ReadAnyLog ==
  /\ fpc = "log"
  /\ view' = fslot[Winner(fslot)].tree
               \cup Replayed(fslot[Winner(fslot)].tree, Committed(wal.recs))
  /\ fpc' = "done"
  /\ UNCHANGED <<fslot, asOf, quiet, seen>>

\* slip: an uncommitted plan is shown, a committed one is not.
ReadPendingLog ==
  /\ fpc = "log"
  /\ view' = Recovered(fslot, wal) \ {p.id : p \in Committed(wal.recs)}
  /\ fpc' = "done"
  /\ UNCHANGED <<fslot, asOf, quiet, seen>>

ReadLog ==
  /\ fpc = "log"
  /\ view' = Recovered(fslot, wal)
  /\ fpc' = "done"
  /\ UNCHANGED <<fslot, asOf, quiet, seen>>

Follower == (ReadA \/ ReadB \/ ReadLog) /\ UNCHANGED vars

\* The leader's tab dies on its own: the files stay as written.
LeaderTabDies ==
  /\ pc # "down"
  /\ acked' = acked \cap Recovered(slot, wal)
  /\ Forget
  /\ UNCHANGED <<disk, counts, applied, gone>>

Leads ==
  \/ Recover \/ Worker
  \/ \E needs \in {0} \cup tree : Begin(needs)
  \/ BeginCheckpoint \/ Sync \/ BeginWipe \/ Close
  \/ Fail \/ LeaderTabDies

Leader ==
  /\ Leads
  /\ quiet' = (quiet /\ LeaderQuiet' /\ generation' = generation)
  /\ seen' = seen \cup {tree'}
  /\ UNCHANGED <<fpc, fslot, view, asOf>>

\* The browser or the machine dies, and takes the follower with it.
BothDie ==
  /\ Crash
  /\ fpc' = "idle" /\ fslot' = [s \in Slots |-> NoSlot] /\ view' = {}
  /\ asOf' = {} /\ quiet' = TRUE
  /\ UNCHANGED seen

FNext == Follower \/ Leader \/ BothDie
FSpec == FInit /\ [][FNext]_<<vars, fvars>>

-----------------------------------------------------------------------------
\* Whatever the leader does between the three reads, its death and its next
\* boot included, the follower shows a tree the leader really had: never the
\* slot of one checkpoint with the log of another.
ShowsARealTree == faults = 0 /\ fpc = "done" => view \in seen

\* While the leader only logs mutations, the view holds everything reported
\* when the read began, and nothing that was never applied.
QuietReadIsCurrent ==
  faults = 0 /\ fpc = "done" /\ quiet => asOf \subseteq view /\ view \subseteq applied

\* mountFollower's comment: "WHAT A FOLLOWER'S VIEW IS AS OF: the leader's last
\* COMMITTED operation".
FollowerIsCurrent ==
  faults = 0 /\ fpc = "done" => asOf \subseteq view
=============================================================================
