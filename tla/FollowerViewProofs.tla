-------------------------- MODULE FollowerViewProofs --------------------------
(***************************************************************************)
(* Proofs about FollowerView: what a second tab that mounts read-only can  *)
(* see while the leader writes, dies and boots again, for every number of  *)
(* mutations, checkpoints, crashes and boots.                              *)
(***************************************************************************)
EXTENDS FollowerView, DurableStoreProofs

-----------------------------------------------------------------------------
(* The leader's files, as read.  A tab that dies without the machine       *)
(* leaves bytes in them that were never flushed, so nothing here is about  *)
(* what is flushed.                                                        *)

\* The active slot is the store's own checkpoint, and the other is older until
\* the next one has been written.
OpenSlots ==
  pc # "down" /\ ~Wiping =>
    /\ slot[active].gen = generation
    /\ slot[Other(active)].gen <= generation \/ Sealing \/ pc = "slot.flush"

\* The running log replays on the active slot.
LiveReplays == Live => Replayable(wal.recs, slot[active].tree)

\* Nothing is logged before the checkpoint of mount is done.
MountLogsNothing == ret = "mount" /\ pc \in SlotSteps => wal.recs = <<>>

LeaderRuns ==
  LogRuns /\ Numbered /\ TreeRunning /\ NewCheckpoint /\ OpenSlots /\ LiveReplays

LeaderInv ==
  /\ WipeInv /\ SlotProgress /\ InTurn /\ LogReplaced /\ MountLogsNothing
  /\ faults = 0 => LeaderRuns

-----------------------------------------------------------------------------
(* What the follower has read.                                             *)

\* The slots as the follower takes them: those it has read as they were then,
\* the others as they are.
AsRead == [s \in Slots |-> IF fpc = "log" \/ (fpc = "b" /\ s = "a") THEN fslot[s] ELSE slot[s]]

FollowerType ==
  /\ fpc \in {"idle", "b", "log", "done"}
  /\ fslot \in [Slots -> SlotFiles]
  /\ fpc # "done" => view = {}

\* Every tree in a slot was once the leader's.
TreesSeen ==
  /\ {} \in seen /\ tree \in seen
  /\ \A s \in Slots : slot[s].tree \in seen /\ slotD[s].tree \in seen /\ fslot[s].tree \in seen

\* A slot that was read is not newer than those there are, and a slot of its
\* generation is still the one that was read.
ReadIsOld ==
  /\ \A s \in Slots : fslot[s].gen = 0 \/ s = Turn(fslot[s].gen)
  /\ faults = 0 /\ wipes = 0 => \A s \in Slots :
       /\ \E t \in Slots : fslot[s].gen <= slot[t].gen
       /\ fslot[s].gen = slot[s].gen /\ slot[s].gen > 0 => fslot[s] = slot[s]

ReadInv == LeaderInv /\ FollowerType /\ TreesSeen /\ ReadIsOld

\* What the follower would show if it went on to read the files as they are.
ReadsOn == fpc \in {"b", "log"} \/ (fpc = "idle" /\ pc # "down")
WouldShow == faults = 0 /\ wipes = 0 /\ ReadsOn => Recovered(AsRead, wal) \in seen

\* A read that no checkpoint, boot or wipe overlaps finds the slots in place.
QuietRead ==
  faults = 0 /\ quiet /\ fpc \in {"b", "log"} =>
    /\ LeaderQuiet /\ generation > 0
    /\ fslot["a"] = slot["a"] /\ (fpc = "log" => fslot["b"] = slot["b"])
    /\ asOf \subseteq acked

-----------------------------------------------------------------------------
(* The leader's files: proofs.                                             *)

\* What is needed of the types, in one place.
LEMMA LeaderTypes ==
  ASSUME LeaderInv
  PROVE  /\ TypeInv /\ TypeOK /\ WipeProgress /\ AppliedInv /\ GoneInv
         /\ slot \in [Slots -> SlotFiles] /\ slotD \in [Slots -> SlotFiles]
         /\ \A s \in Slots : slot[s].gen \in Nat /\ slotD[s].gen \in Nat
         /\ generation \in Nat /\ active \in Slots /\ wal \in LogFiles
         /\ wipes \in Nat /\ faults \in Nat
         /\ \A s \in Slots : Other(s) \in Slots /\ Other(s) # s /\ Other(Other(s)) = s
         /\ \A s \in Slots : s = active \/ s = Other(active)
<1>1. TypeInv /\ TypeOK /\ WipeProgress /\ AppliedInv /\ GoneInv
  BY DEF LeaderInv, WipeInv, AppliedInv, TypeInv
<1>2. \A s \in Slots : s = active \/ s = Other(active)
  BY <1>1 DEF TypeOK, Slots, Other
<1>3. QED
  BY <1>1, <1>2, SlotTypes, OtherIsOther DEF TypeOK

\* A tab that dies on its own leaves every file as it was written.
LEMMA TabDeathKeeps ==
  ASSUME LeaderInv, LeaderTabDies
  PROVE  LeaderInv'
<1>1. /\ UNCHANGED <<slot, slotD, wal, walD, nextId, crashes, faults, wipes, applied, gone>>
      /\ pc' = "down" /\ ret' = "boot" /\ cur' = NoOp /\ tree' = {} /\ generation' = 0
      /\ active' = "b" /\ logLen' = 0 /\ dirty' = FALSE /\ acked' \subseteq acked
  BY DEF LeaderTabDies, Forget, disk, counts
<1>2. TypeInv'
  BY <1>1, LeaderTypes, NoOpType DEF TypeInv, TypeOK, PCs, MutationSteps, Slots
<1>3. AppliedInv'
  BY <1>1, <1>2, LeaderTypes DEF AppliedInv, FilesWithin, CommitsIn, MutationSteps
<1>4. WipeProgress' /\ GoneInv'
  BY <1>1, LeaderTypes
     DEF WipeProgress, GoneInv, FilesWithin, CommitsIn, WipeSteps, SlotSteps, LogSteps, MutationSteps
<1>5. SlotProgress' /\ LogReplaced' /\ MountLogsNothing'
  BY <1>1 DEF SlotProgress, LogReplaced, MountLogsNothing, LogSteps
<1>6. InTurn'
  BY <1>1, TurnsChange DEF LeaderInv, InTurn
<1>7. ASSUME faults' = 0 PROVE LeaderRuns'
  <2>1. LeaderRuns
    BY <1>1, <1>7 DEF LeaderInv
  <2>2. Numbered'
    BY <1>1, <2>1 DEF LeaderRuns, Numbered
  <2>3. QED
    BY <1>1, <2>2 DEF LeaderRuns, LogRuns, TreeRunning, NewCheckpoint, OpenSlots, LiveReplays,
       Live, Running, Sealing, MutationSteps, SlotSteps, LogSteps
<1>8. QED
  BY <1>3, <1>4, <1>5, <1>6, <1>7 DEF LeaderInv, WipeInv

\* The new checkpoint is of the tree, and the tree waits for it.
LEMMA NewCheckpointNext ==
  ASSUME LeaderInv, NewCheckpoint, [Next]_vars, faults' = 0
  PROVE  NewCheckpoint'
<1> USE DEF NewCheckpoint, Sealing, LogSteps
<1>1. /\ slot \in [Slots -> SlotFiles] /\ active \in Slots /\ Other(active) \in Slots
      /\ faults \in Nat
  BY LeaderTypes
<1>2. CASE Recover
  BY <1>2 DEF Recover
<1>3. CASE LogTruncate \/ LogHeader
  BY <1>3 DEF LogTruncate, LogHeader, memory
<1>4. CASE LogFlushBoot \/ LogFlushCheckpoint \/ LogFlushWipe
  BY <1>4 DEF LogFlushBoot, LogFlushCheckpoint, LogFlushWipe, Idle
<1>5. CASE CheckpointSync \/ SlotTruncate
  BY <1>5 DEF CheckpointSync, SlotTruncate
<1>6. CASE SlotWrite
  BY <1>1, <1>6 DEF SlotWrite, memory
<1>7. CASE SlotFlush
  BY <1>7 DEF SlotFlush, memory
<1>8. CASE Mutation
  BY <1>8 DEF Mutation, PlanAppend, PlanFlush, Apply, Commit, Idle
<1>9. CASE Wipe
  BY <1>9, LeaderTypes DEF Wipe, WipeTruncate, WipeFlush, WipeProgress, WipeSteps
<1>10. CASE \E needs \in {0} \cup tree : Begin(needs)
  BY <1>10 DEF Begin
<1>11. CASE BeginCheckpoint \/ Sync \/ BeginWipe \/ Close \/ Crash
  BY <1>11 DEF BeginCheckpoint, Sync, BeginWipe, Close, Crash, Forget
<1>12. CASE Fail
  BY <1>1, <1>12 DEF Fail
<1>13. CASE UNCHANGED vars
  BY <1>13 DEF vars, disk, memory
<1>14. QED
  BY <1>2, <1>3, <1>4, <1>5, <1>6, <1>7, <1>8, <1>9, <1>10, <1>11, <1>12, <1>13
     DEF Next, Worker, LogReset, Checkpoint

\* A boot takes the newer slot, and a checkpoint makes its slot the newer one.
LEMMA OpenSlotsNext ==
  ASSUME LeaderInv, OpenSlots, [Next]_vars, faults' = 0
  PROVE  OpenSlots'
<1> USE DEF OpenSlots, Sealing, LogSteps
<1>1. /\ slot \in [Slots -> SlotFiles] /\ slotD \in [Slots -> SlotFiles]
      /\ \A s \in Slots : slot[s].gen \in Nat
      /\ Slots = {"a", "b"} /\ generation \in Nat /\ faults \in Nat /\ active \in Slots
      /\ \A s \in Slots : Other(s) \in Slots /\ Other(s) # s /\ Other(Other(s)) = s
      /\ NoSlot.gen = 0
  BY LeaderTypes DEF Slots, NoSlot
<1>2. CASE Recover
  <2>1. \A s \in Slots : slot[s].gen <= slot[Winner(slot)].gen
    BY <1>1 DEF Winner
  <2>2. QED
    BY <1>1, <1>2, <2>1, WinnerIsASlot DEF Recover, disk
<1>3. CASE LogTruncate \/ LogHeader
  BY <1>3 DEF LogTruncate, LogHeader, memory, Wiping
<1>4. CASE LogFlushBoot
  BY <1>4 DEF LogFlushBoot, LogFlushed, Wiping
<1>5. CASE LogFlushCheckpoint
  BY <1>1, <1>5 DEF LogFlushCheckpoint, LogFlushed, Idle, Wiping, LeaderInv, SlotProgress
<1>6. CASE LogFlushWipe
  BY <1>1, <1>6 DEF LogFlushWipe, LogFlushed, Idle, LeaderInv, SlotProgress, Unwritten
<1>7. CASE CheckpointSync
  BY <1>7 DEF CheckpointSync, Wiping
<1>8. CASE SlotTruncate
  BY <1>1, <1>8 DEF SlotTruncate, memory, Wiping
<1>9. CASE SlotWrite
  BY <1>1, <1>9 DEF SlotWrite, memory, Wiping
<1>10. CASE SlotFlush
  <2>1. ret \in {"mount", "op", "ctl"}
    BY <1>10, LeaderTypes DEF SlotFlush, WipeProgress, SlotSteps
  <2>2. QED
    BY <1>1, <1>10, <2>1 DEF SlotFlush, memory, Wiping
<1>11. CASE Mutation
  <2>1. ret = "op"
    BY <1>11, LeaderTypes
       DEF Mutation, PlanAppend, PlanFlush, Apply, Commit, TypeInv, MutationSteps
  <2>2. QED
    BY <1>11, <2>1 DEF Mutation, PlanAppend, PlanFlush, Apply, Commit, Idle, disk, memory, Wiping
<1>12. CASE Wipe
  <2>1. ret = "wipe"
    BY <1>12, LeaderTypes DEF Wipe, WipeTruncate, WipeFlush, WipeProgress, WipeSteps
  <2>2. QED
    BY <1>12, <2>1 DEF Wipe, WipeTruncate, WipeFlush, Wiping
<1>13. CASE \E needs \in {0} \cup tree : Begin(needs)
  BY <1>13 DEF Begin, disk, memory, Wiping
<1>14. CASE BeginCheckpoint \/ Sync \/ BeginWipe
  BY <1>14 DEF BeginCheckpoint, Sync, BeginWipe, disk, memory, Wiping
<1>15. CASE Close \/ Crash
  BY <1>15 DEF Close, Crash, Forget
<1>16. CASE Fail
  BY <1>1, <1>16 DEF Fail
<1>17. CASE UNCHANGED vars
  BY <1>17 DEF vars, disk, memory, Wiping
<1>18. QED
  BY <1>2, <1>3, <1>4, <1>5, <1>6, <1>7, <1>8, <1>9, <1>10, <1>11, <1>12, <1>13, <1>14,
     <1>15, <1>16, <1>17 DEF Next, Worker, LogReset, Checkpoint

\* A plan is appended only where it can be replayed, on top of the active slot.
LEMMA LiveReplaysNext ==
  ASSUME LeaderInv, LeaderRuns, [Next]_vars, faults' = 0
  PROVE  LiveReplays'
<1> USE DEF LiveReplays, Live, MutationSteps, SlotSteps
<1>1. /\ slot \in [Slots -> SlotFiles] /\ active \in Slots /\ Other(active) \in Slots
      /\ Other(active) # active /\ faults \in Nat /\ TypeInv /\ LiveReplays
  BY LeaderTypes DEF LeaderRuns
<1>2. CASE Recover
  BY <1>2 DEF Recover
<1>3. CASE LogTruncate \/ LogHeader
  BY <1>3 DEF LogTruncate, LogHeader
<1>4. CASE LogFlushBoot \/ LogFlushCheckpoint \/ LogFlushWipe
  BY <1>4, EmptyReplays
     DEF LogFlushBoot, LogFlushCheckpoint, LogFlushWipe, LogFlushed, LeaderInv, LogReplaced
<1>5. CASE CheckpointSync \/ PlanFlush \/ Apply
  BY <1>1, <1>5 DEF CheckpointSync, PlanFlush, Apply, disk
<1>6. CASE SlotTruncate \/ SlotWrite \/ SlotFlush
  BY <1>1, <1>6 DEF SlotTruncate, SlotWrite, SlotFlush, memory
<1>7. CASE PlanAppend \/ Commit
  <2>1. PICK kind \in {"plan", "commit"} :
          /\ wal' = AppendRecord(wal, kind) /\ (kind = "plan" <=> pc = "plan.append")
          /\ pc \in {"plan.append", "commit"}
    BY <1>7 DEF PlanAppend, Commit
  <2>2. /\ Running /\ UNCHANGED <<slot, active>>
        /\ Replayable(wal.recs, slot[active].tree)
    BY <1>1, <1>7 DEF PlanAppend, Commit, TypeInv, Running, Booting, Wiping
  <2>3. Replayable(wal'.recs, slot[active].tree)
    BY <1>1, <2>1, <2>2, AppendReplays DEF LeaderRuns
  <2>4. QED
    BY <2>2, <2>3
<1>8. CASE Wipe
  BY <1>8 DEF Wipe, WipeTruncate, WipeFlush
<1>9. CASE \E needs \in {0} \cup tree : Begin(needs)
  BY <1>1, <1>9 DEF Begin, disk, memory
<1>10. CASE BeginCheckpoint \/ Sync \/ BeginWipe
  BY <1>1, <1>10 DEF BeginCheckpoint, Sync, BeginWipe, disk, memory
<1>11. CASE Close \/ Crash
  BY <1>11 DEF Close, Crash, Forget
<1>12. CASE Fail
  BY <1>1, <1>12 DEF Fail
<1>13. CASE UNCHANGED vars
  BY <1>1, <1>13 DEF vars, disk, memory
<1>14. QED
  BY <1>2, <1>3, <1>4, <1>5, <1>6, <1>7, <1>8, <1>9, <1>10, <1>11, <1>12, <1>13
     DEF Next, Worker, LogReset, Checkpoint, Mutation

\* The boot resets the log before it checkpoints.
LEMMA MountLogsNothingNext ==
  ASSUME TypeInv, WipeProgress, MountLogsNothing, [Next]_vars
  PROVE  MountLogsNothing'
<1> USE DEF MountLogsNothing, SlotSteps
<1>1. CASE LogFlushBoot
  BY <1>1 DEF LogFlushBoot, LogFlushed, WipeProgress
<1>2. CASE Recover \/ LogTruncate \/ LogHeader \/ LogFlushCheckpoint \/ LogFlushWipe
  BY <1>2 DEF Recover, LogTruncate, LogHeader, LogFlushCheckpoint, LogFlushWipe, Idle
<1>3. CASE Checkpoint
  BY <1>3 DEF Checkpoint, CheckpointSync, SlotTruncate, SlotWrite, SlotFlush
<1>4. CASE Mutation
  BY <1>4 DEF Mutation, PlanAppend, PlanFlush, Apply, Commit, Idle
<1>5. CASE Wipe
  BY <1>5 DEF Wipe, WipeTruncate, WipeFlush
<1>6. CASE \E needs \in {0} \cup tree : Begin(needs)
  BY <1>6 DEF Begin
<1>7. CASE BeginCheckpoint \/ Sync \/ BeginWipe \/ Close \/ Fail \/ Crash
  BY <1>7 DEF BeginCheckpoint, Sync, BeginWipe, Close, Fail, Crash, Forget, Idle
<1>8. CASE UNCHANGED vars
  BY <1>8 DEF vars, disk
<1>9. QED
  BY <1>1, <1>2, <1>3, <1>4, <1>5, <1>6, <1>7, <1>8 DEF Next, Worker, LogReset

\* No step of the store counts a fault back.
LEMMA FaultsOnlyGrow ==
  ASSUME TypeOK, [Next]_vars, faults' = 0
  PROVE  faults = 0
<1>1. faults' = faults \/ faults' = faults + 1
  BY DEF Next, Recover, Worker, LogReset, LogTruncate, LogHeader, LogFlushBoot,
     LogFlushCheckpoint, LogFlushWipe, LogFlushed, Checkpoint, CheckpointSync, SlotTruncate,
     SlotWrite, SlotFlush, Mutation, PlanAppend, PlanFlush, Apply, Commit, Wipe, WipeTruncate,
     WipeFlush, Begin, BeginCheckpoint, Sync, BeginWipe, Close, Fail, Crash, counts, vars
<1>2. QED
  BY <1>1 DEF TypeOK

\* Nor a reset.
LEMMA WipesOnlyGrow ==
  ASSUME TypeOK, [Next]_vars, wipes' = 0
  PROVE  wipes = 0
<1>1. wipes' = wipes \/ wipes' = wipes + 1
  BY DEF Next, Recover, Worker, LogReset, LogTruncate, LogHeader, LogFlushBoot,
     LogFlushCheckpoint, LogFlushWipe, LogFlushed, Checkpoint, CheckpointSync, SlotTruncate,
     SlotWrite, SlotFlush, Mutation, PlanAppend, PlanFlush, Apply, Commit, Wipe, WipeTruncate,
     WipeFlush, Begin, BeginCheckpoint, Sync, BeginWipe, Close, Fail, Crash, counts, vars
<1>2. QED
  BY <1>1 DEF TypeOK

\* Nothing the leader or the machine does breaks it.
LEMMA LeaderInvNext ==
  ASSUME LeaderInv, [Next]_vars \/ LeaderTabDies
  PROVE  LeaderInv'
<1>1. CASE LeaderTabDies
  BY <1>1, TabDeathKeeps
<1>2. CASE [Next]_vars
  <2>1. /\ TypeInv /\ TypeOK /\ WipeProgress /\ AppliedInv /\ GoneInv /\ WipeInv
        /\ SlotProgress /\ InTurn /\ LogReplaced /\ MountLogsNothing
    BY LeaderTypes DEF LeaderInv
  <2>2. WipeInv'
    BY <1>2, <2>1, AppliedNext, WipeProgressNext, GoneNext DEF WipeInv
  <2>3. SlotProgress' /\ InTurn' /\ LogReplaced' /\ MountLogsNothing'
    BY <1>2, <2>1, SlotProgressNext, InTurnNext, LogReplacedNext, MountLogsNothingNext
  <2>4. ASSUME faults' = 0 PROVE LeaderRuns'
    <3>1. LeaderRuns
      BY <1>2, <2>1, <2>4, FaultsOnlyGrow DEF LeaderInv
    <3>2. LogRuns' /\ Numbered'
      BY <1>2, <2>1, <2>4, <3>1, LogRunsNext, NumberedNext DEF LeaderRuns
    <3>3. TreeRunning'
      BY <1>2, <2>1, <2>4, <3>1, TreeRunningNext DEF LeaderRuns
    <3>4. NewCheckpoint' /\ OpenSlots' /\ LiveReplays'
      BY <1>2, <2>4, <3>1, NewCheckpointNext, OpenSlotsNext, LiveReplaysNext DEF LeaderRuns
    <3>5. QED
      BY <3>2, <3>3, <3>4 DEF LeaderRuns
  <2>5. QED
    BY <2>2, <2>3, <2>4 DEF LeaderInv
<1>3. QED
  BY <1>1, <1>2

\* The store that does not exist yet.
LEMMA LeaderInvInit == Init => LeaderInv
<1> SUFFICES ASSUME Init PROVE LeaderInv
  OBVIOUS
<1>1. /\ \A s \in Slots : slot[s] = NoSlot /\ slotD[s] = NoSlot
      /\ wal = NoLog /\ walD = NoLog /\ pc = "down" /\ ret = "boot" /\ cur = NoOp
      /\ acked = {} /\ active = "b" /\ generation = 0
  BY DEF Init, Slots
<1>2. WipeInv /\ LogInv
  BY WipeInit, LogInvInit
<1>3. faults = 0 /\ LogRuns /\ Numbered /\ TreeRunning /\ LogReplaced /\ SlotProgress /\ NewCheckpoint
  BY <1>2 DEF LogInv, Healthy, OtherSlot, SlotInv, Init
<1>4. OpenSlots /\ LiveReplays /\ MountLogsNothing
  BY <1>1 DEF OpenSlots, LiveReplays, MountLogsNothing, Live, MutationSteps, SlotSteps
<1>5. InTurn
  BY <1>1, TurnsChange DEF InTurn, NoSlot
<1>6. QED
  BY <1>2, <1>3, <1>4, <1>5 DEF LeaderInv, LeaderRuns

-----------------------------------------------------------------------------
(* The follower's reads: proofs.                                           *)

\* A step is one of the leader's that the follower does not move in, one of the
\* follower's, or the death of both.
LEMMA StepIs ==
  ASSUME [FNext]_<<vars, fvars>>
  PROVE  /\ [Next]_vars \/ LeaderTabDies
         /\ \/ Leader
            \/ Follower \/ BothDie
            \/ UNCHANGED <<vars, fvars>>
<1>1. Leads => Next \/ LeaderTabDies
  BY DEF Leads, Next
<1>2. QED
  BY <1>1 DEF FNext, Leader, Follower, BothDie, Next

\* Recovery from a log without records shows a slot, or nothing.
LEMMA NoRecordsShow ==
  ASSUME NEW sl \in [Slots -> SlotFiles], NEW w \in LogFiles, w.recs = <<>>
  PROVE  Recovered(sl, w) \in {{}, sl["a"].tree, sl["b"].tree}
<1>1. CommitIds(w.recs) = {} /\ \A base : Replayable(w.recs, base)
  BY EmptyReplays
<1> DEFINE x == sl[Winner(sl)]
<1>2. CASE x.gen # 0 /\ w.gen = x.gen
  <2>1. Recovered(sl, w) = x.tree \cup CommitIds(w.recs)
    BY <1>1, <1>2, RecoveredIs
  <2>2. QED
    BY <1>1, <2>1 DEF Winner
<1>3. CASE x.gen = 0 \/ w.gen # x.gen
  BY <1>3, RecoveredIs DEF Winner
<1>4. QED
  BY <1>2, <1>3

\* Recovery from a log that belongs to another checkpoint does, too.
LEMMA AnotherLogShows ==
  ASSUME NEW sl \in [Slots -> SlotFiles], NEW w \in LogFiles, w.gen # sl[Winner(sl)].gen
  PROVE  Recovered(sl, w) \in {{}, sl["a"].tree, sl["b"].tree}
BY RecoveredIs DEF Winner

\* The follower's own state.
LEMMA FollowerTypeNext ==
  ASSUME LeaderInv, FollowerType, [FNext]_<<vars, fvars>>
  PROVE  FollowerType'
<1> USE DEF FollowerType
<1>1. slot \in [Slots -> SlotFiles] /\ "a" \in Slots /\ "b" \in Slots
  BY LeaderTypes, SlotNames
<1>2. CASE Leader
  BY <1>2 DEF Leader
<1>3. CASE Follower
  BY <1>1, <1>3 DEF Follower, ReadA, ReadB, ReadLog
<1>4. CASE BothDie
  BY <1>4, NoSlotType DEF BothDie
<1>5. CASE UNCHANGED <<vars, fvars>>
  BY <1>5 DEF fvars
<1>6. QED
  BY <1>2, <1>3, <1>4, <1>5, StepIs

\* The leader writes no tree into a slot but its own, and a death adds none.
LEMMA TreesSeenNext ==
  ASSUME LeaderInv, FollowerType, TreesSeen, [FNext]_<<vars, fvars>>
  PROVE  TreesSeen'
<1> USE DEF TreesSeen
<1>1. /\ slot \in [Slots -> SlotFiles] /\ slotD \in [Slots -> SlotFiles]
      /\ fslot \in [Slots -> SlotFiles]
      /\ "a" \in Slots /\ "b" \in Slots /\ Other(active) \in Slots /\ NoSlot.tree = {}
  BY LeaderTypes, SlotNames DEF FollowerType, NoSlot
<1>2. CASE Leader
  <2>1. /\ seen' = seen \cup {tree'} /\ fslot' = fslot
        /\ Recover \/ Worker \/ (\E needs \in {0} \cup tree : Begin(needs)) \/ BeginCheckpoint
           \/ Sync \/ BeginWipe \/ Close \/ Fail \/ LeaderTabDies
    BY <1>2 DEF Leader, Leads
  <2>2. CASE SlotTruncate
    BY <1>1, <2>1, <2>2 DEF SlotTruncate
  <2>3. CASE SlotWrite
    BY <1>1, <2>1, <2>3 DEF SlotWrite
  <2>4. CASE SlotFlush
    BY <1>1, <2>1, <2>4 DEF SlotFlush
  <2>5. ASSUME NEW s \in Slots, NEW at, NEW next, WipeTruncate(s, at, next) \/ WipeFlush(s, at, next)
        PROVE  TreesSeen'
    BY <1>1, <2>1, <2>5 DEF WipeTruncate, WipeFlush
  <2>6. CASE UNCHANGED <<slot, slotD>>
    BY <2>1, <2>6
  <2>7. CASE Recover \/ LogReset \/ CheckpointSync \/ Mutation
    BY <2>6, <2>7
       DEF Recover, LogReset, LogTruncate, LogHeader, LogFlushBoot, LogFlushCheckpoint,
       LogFlushWipe, LogFlushed, CheckpointSync, Mutation, PlanAppend, PlanFlush, Apply, Commit, disk
  <2>8. CASE \E needs \in {0} \cup tree : Begin(needs)
    BY <2>6, <2>8 DEF Begin, disk
  <2>9. CASE BeginCheckpoint \/ Sync \/ BeginWipe \/ Close \/ Fail \/ LeaderTabDies
    BY <2>6, <2>9 DEF BeginCheckpoint, Sync, BeginWipe, Close, Fail, LeaderTabDies, disk
  <2>10. QED
    BY <1>1, <2>1, <2>2, <2>3, <2>4, <2>5, <2>7, <2>8, <2>9 DEF Worker, Checkpoint, Wipe
<1>3. CASE Follower
  BY <1>1, <1>3 DEF Follower, ReadA, ReadB, ReadLog, vars, disk, memory
<1>4. CASE BothDie
  <2>1. PICK sl \in SlotOutcomes : slot' = sl /\ slotD' = sl
    BY <1>4 DEF BothDie, Crash
  <2>2. \A s \in Slots : sl[s] \in {slot[s], slotD[s], NoSlot}
    BY SlotOutcomeIsOneOfThree
  <2>3. tree' = {} /\ seen' = seen /\ \A s \in Slots : fslot'[s] = NoSlot
    BY <1>4 DEF BothDie, Crash, Forget
  <2>4. QED
    BY <1>1, <2>1, <2>2, <2>3
<1>5. CASE UNCHANGED <<vars, fvars>>
  BY <1>5 DEF vars, fvars, disk, memory
<1>6. QED
  BY <1>2, <1>3, <1>4, <1>5, StepIs

\* A checkpoint has a generation no slot that was read has: it is newer than all
\* there were, and only then is an older one overwritten.
LEMMA ReadIsOldNext ==
  ASSUME LeaderInv, FollowerType, ReadIsOld, [FNext]_<<vars, fvars>>
  PROVE  ReadIsOld'
<1> USE DEF ReadIsOld
<1>1. /\ slot \in [Slots -> SlotFiles] /\ slotD \in [Slots -> SlotFiles]
      /\ \A s \in Slots : slot[s].gen \in Nat /\ fslot[s].gen \in Nat
      /\ fslot \in [Slots -> SlotFiles]
      /\ "a" \in Slots /\ "b" \in Slots /\ active \in Slots /\ Other(active) \in Slots
      /\ Other(active) # active /\ NoSlot.gen = 0 /\ generation \in Nat
      /\ \A s \in Slots : s = active \/ s = Other(active)
      /\ faults \in Nat /\ wipes \in Nat
  BY LeaderTypes, SlotNames DEF FollowerType, NoSlot, SlotFiles
<1>2. CASE Leader
  <2>1. /\ fslot' = fslot
        /\ Recover \/ Worker \/ (\E needs \in {0} \cup tree : Begin(needs)) \/ BeginCheckpoint
           \/ Sync \/ BeginWipe \/ Close \/ Fail \/ LeaderTabDies
    BY <1>2 DEF Leader, Leads
  <2>2. CASE UNCHANGED slot /\ (faults' = 0 => faults = 0) /\ (wipes' = 0 => wipes = 0)
    BY <2>1, <2>2
  <2>3. CASE SlotTruncate
    <3>1. faults = 0 => slot[active].gen = generation /\ slot[Other(active)].gen <= generation
      BY <1>1, <2>3, LeaderTypes
         DEF SlotTruncate, LeaderInv, LeaderRuns, OpenSlots, Wiping, Sealing, LogSteps, WipeProgress,
         SlotSteps
    <3>2. /\ slot'[Other(active)] = NoSlot /\ slot'[active] = slot[active]
          /\ faults' = faults /\ wipes' = wipes
      BY <1>1, <2>3 DEF SlotTruncate, counts
    <3>3. ASSUME faults = 0, wipes = 0, NEW s \in Slots
          PROVE  \E t \in Slots : fslot[s].gen <= slot'[t].gen
      <4>1. PICK t \in Slots : fslot[s].gen <= slot[t].gen
        BY <3>3
      <4>2. slot[t].gen <= generation
        <5>1. t = active \/ t = Other(active)
          BY <1>1
        <5>2. generation <= generation
          BY <1>1
        <5>3. QED
          BY <3>1, <3>3, <5>1, <5>2
      <4>3. fslot[s].gen <= slot'[active].gen
        BY <1>1, <3>1, <3>2, <3>3, <4>1, <4>2
      <4>4. QED
        BY <1>1, <4>3
    <3>4. \A s \in Slots : slot'[s] = slot[s] \/ slot'[s].gen = 0
      BY <1>1, <3>2
    <3>5. ASSUME faults = 0, wipes = 0, NEW s \in Slots
          PROVE  fslot[s].gen = slot'[s].gen /\ slot'[s].gen > 0 => fslot[s] = slot'[s]
      BY <3>4, <3>5
    <3>6. QED
      BY <2>1, <3>2, <3>3, <3>5
  <2>4. CASE SlotWrite
    <3>1. faults = 0 => slot[active].gen = generation /\ slot[Other(active)].gen <= generation
      BY <1>1, <2>4, LeaderTypes
         DEF SlotWrite, LeaderInv, LeaderRuns, OpenSlots, Wiping, Sealing, LogSteps, WipeProgress,
         SlotSteps
    <3>2. /\ slot'[Other(active)].gen = generation + 1 /\ slot'[active] = slot[active]
          /\ faults' = faults /\ wipes' = wipes
      BY <1>1, <2>4 DEF SlotWrite, counts
    <3>3. ASSUME faults = 0, wipes = 0, NEW s \in Slots
          PROVE  fslot[s].gen <= generation
      <4>1. PICK t \in Slots : fslot[s].gen <= slot[t].gen
        BY <3>3
      <4>2. slot[t].gen <= generation
        <5>1. t = active \/ t = Other(active)
          BY <1>1
        <5>2. generation <= generation
          BY <1>1
        <5>3. QED
          BY <3>1, <3>3, <5>1, <5>2
      <4>3. QED
        BY <1>1, <4>1, <4>2
    <3>4. ASSUME faults = 0, wipes = 0, NEW s \in Slots
          PROVE  /\ \E t \in Slots : fslot[s].gen <= slot'[t].gen
                 /\ fslot[s].gen = slot'[s].gen /\ slot'[s].gen > 0 => fslot[s] = slot'[s]
      <4>1. fslot[s].gen <= slot'[Other(active)].gen /\ fslot[s].gen # slot'[Other(active)].gen
        BY <1>1, <3>2, <3>3, <3>4
      <4>2. s = active => slot'[s] = slot[s]
        BY <3>2
      <4>3. QED
        BY <1>1, <3>4, <4>1, <4>2
    <3>5. QED
      BY <2>1, <3>2, <3>4
  <2>5. CASE Wipe
    <3>1. wipes > 0 /\ wipes' = wipes
      BY <2>5, LeaderTypes
         DEF Wipe, WipeTruncate, WipeFlush, WipeProgress, WipeSteps, LeaderInv, SlotProgress, counts
    <3>2. QED
      BY <1>1, <2>1, <3>1
  <2>6. CASE Recover \/ LogReset \/ CheckpointSync \/ SlotFlush \/ Mutation
    BY <2>2, <2>6
       DEF Recover, LogReset, LogTruncate, LogHeader, LogFlushBoot, LogFlushCheckpoint,
       LogFlushWipe, LogFlushed, CheckpointSync, SlotFlush, Mutation, PlanAppend, PlanFlush, Apply,
       Commit, disk, counts
  <2>7. CASE \E needs \in {0} \cup tree : Begin(needs)
    BY <2>2, <2>7 DEF Begin, disk
  <2>8. CASE BeginCheckpoint \/ Sync \/ Close \/ LeaderTabDies
    BY <2>2, <2>8 DEF BeginCheckpoint, Sync, Close, LeaderTabDies, disk, counts
  <2>9. CASE BeginWipe \/ Fail
    BY <1>1, <2>1, <2>9 DEF BeginWipe, Fail
  <2>10. QED
    BY <2>1, <2>3, <2>4, <2>5, <2>6, <2>7, <2>8, <2>9 DEF Worker, Checkpoint
<1>3. CASE Follower
  <2>1. \A s \in Slots : slot[s].gen = 0 \/ s = Turn(slot[s].gen)
    BY DEF LeaderInv, InTurn
  <2>2. UNCHANGED <<slot, faults, wipes>> /\ \A s \in Slots : fslot'[s] \in {fslot[s], slot[s]}
    BY <1>1, <1>3 DEF Follower, ReadA, ReadB, ReadLog, vars, disk, counts
  <2>3. QED
    BY <1>1, <2>1, <2>2
<1>4. CASE BothDie
  <2>1. \A s \in Slots : fslot'[s] = NoSlot
    BY <1>4 DEF BothDie
  <2>2. slot' \in [Slots -> SlotFiles]
    BY <1>4, SlotOutcomesType, LeaderTypes DEF BothDie, Crash
  <2>3. \A s \in Slots : slot'[s].gen \in Nat
    BY <2>2 DEF SlotFiles
  <2>4. QED
    BY <1>1, <2>1, <2>3
<1>5. CASE UNCHANGED <<vars, fvars>>
  BY <1>5 DEF vars, fvars, disk, counts
<1>6. QED
  BY <1>2, <1>3, <1>4, <1>5, StepIs

\* The follower's reads and the leader's files, at every step.
LEMMA ReadInvHolds == FSpec => []ReadInv
<1>1. FInit => ReadInv
  <2> SUFFICES ASSUME FInit PROVE ReadInv
    OBVIOUS
  <2>1. LeaderInv
    BY LeaderInvInit DEF FInit
  <2>2. /\ \A s \in Slots : slot[s] = NoSlot /\ slotD[s] = NoSlot /\ fslot[s] = NoSlot
        /\ tree = {} /\ seen = {{}} /\ NoSlot.gen = 0 /\ NoSlot.tree = {}
    BY DEF FInit, Init, NoSlot
  <2>3. FollowerType
    BY NoSlotType DEF FInit, FollowerType
  <2>4. QED
    BY <2>1, <2>2, <2>3 DEF ReadInv, TreesSeen, ReadIsOld
<1>2. ReadInv /\ [FNext]_<<vars, fvars>> => ReadInv'
  <2> SUFFICES ASSUME ReadInv, [FNext]_<<vars, fvars>> PROVE ReadInv'
    OBVIOUS
  <2>1. LeaderInv'
    BY StepIs, LeaderInvNext DEF ReadInv
  <2>2. FollowerType' /\ TreesSeen' /\ ReadIsOld'
    BY FollowerTypeNext, TreesSeenNext, ReadIsOldNext DEF ReadInv
  <2>3. QED
    BY <2>1, <2>2 DEF ReadInv
<1>3. QED
  BY <1>1, <1>2, PTL DEF FSpec

-----------------------------------------------------------------------------
(* What the follower shows.                                                *)

\* What the leader's own recovery would read while it serves: its tree, but for a
\* mutation whose commit record is still to come.
LEMMA LiveSlotShows ==
  ASSUME LeaderInv, faults = 0, Live, Running,
         NEW sl \in [Slots -> SlotFiles], generation > 0, sl[Winner(sl)] = slot[active]
  PROVE  tree = Recovered(sl, wal) \cup (IF pc = "commit" THEN {cur.id} ELSE {})
<1>1. /\ wal \in LogFiles /\ wal.gen = generation /\ slot[active].gen = generation
      /\ Replayable(wal.recs, slot[active].tree) /\ generation \in Nat /\ pc \notin LogSteps
  BY LeaderTypes DEF LeaderInv, LeaderRuns, LogRuns, LiveReplays, OpenSlots, Running, Live,
     LogSteps, MutationSteps, SlotSteps
<1>2. Recovered(sl, wal) = slot[active].tree \cup CommitIds(wal.recs)
  BY <1>1, RecoveredIs
<1>3. tree = slot[active].tree \cup CommitIds(wal.recs) \cup (IF pc = "commit" THEN {cur.id} ELSE {})
  BY <1>1 DEF LeaderInv, LeaderRuns, TreeRunning
<1>4. QED
  BY <1>2, <1>3

\* While the leader serves, a slot that goes with its log is the active one, read
\* earlier or not.
LEMMA SlotOfTheLog ==
  ASSUME ReadInv, faults = 0, wipes = 0, Live, pc # "down", ~Wiping, wal.gen > 0,
         AsRead[Winner(AsRead)].gen = wal.gen
  PROVE  AsRead[Winner(AsRead)] = slot[active] /\ generation > 0
<1> DEFINE s == Winner(AsRead)
           x == AsRead[s]
<1>1. /\ wal.gen = generation /\ slot[active].gen = generation /\ active = Turn(generation)
  BY DEF ReadInv, LeaderInv, LeaderRuns, LogRuns, OpenSlots, InTurn
<1>2. s \in Slots /\ (x = slot[s] \/ x = fslot[s])
  BY WinnerIsASlot DEF AsRead
<1>3. s = Turn(x.gen)
  BY <1>1, <1>2 DEF ReadInv, ReadIsOld, LeaderInv, InTurn
<1>4. s = active
  BY <1>1, <1>3
<1>5. x = slot[active]
  BY <1>1, <1>2, <1>4 DEF ReadInv, ReadIsOld
<1>6. QED
  BY <1>1, <1>5

\* While the leader serves, the follower would show the leader's tree, or one of
\* a checkpoint that it has replaced since.
LiveShows ==
  faults = 0 /\ wipes = 0 /\ Live /\ pc # "commit" => Recovered(AsRead, wal) \in seen

LEMMA LiveShowsAlways == ReadInv => LiveShows
<1> SUFFICES ASSUME ReadInv, faults = 0, wipes = 0, Live, pc # "commit"
             PROVE  Recovered(AsRead, wal) \in seen
  BY DEF LiveShows
<1>1. LeaderInv /\ FollowerType /\ TreesSeen
  BY DEF ReadInv
<1>2. /\ AsRead \in [Slots -> SlotFiles] /\ wal \in LogFiles /\ TypeOK /\ TypeInv
      /\ slot \in [Slots -> SlotFiles] /\ fslot \in [Slots -> SlotFiles] /\ wipes \in Nat
  BY <1>1, LeaderTypes DEF FollowerType, AsRead
<1>3. {} \in seen /\ AsRead["a"].tree \in seen /\ AsRead["b"].tree \in seen
  BY <1>1, SlotNames DEF TreesSeen, AsRead
<1>4. CASE wal.gen # AsRead[Winner(AsRead)].gen \/ wal.gen = 0
  <2>1. AsRead[Winner(AsRead)].gen = 0 => Recovered(AsRead, wal) = {}
    BY DEF Recovered
  <2>2. QED
    BY <1>2, <1>3, <1>4, <2>1, AnotherLogShows
<1>5. CASE wal.gen = AsRead[Winner(AsRead)].gen /\ wal.gen # 0
  <2>1. wal.gen \in Nat
    <3>1. AsRead[Winner(AsRead)] \in SlotFiles
      BY <1>2, WinnerIsASlot
    <3>2. QED
      BY <1>5, <3>1 DEF SlotFiles
  <2>2. pc # "down" /\ ~Wiping /\ pc \notin LogSteps
    <3>1. ret = "wipe" => wipes > 0
      BY <1>1 DEF LeaderInv, SlotProgress
    <3>2. QED
      BY <1>2, <3>1 DEF Live, MutationSteps, SlotSteps, Wiping, LogSteps
  <2>3. AsRead[Winner(AsRead)] = slot[active] /\ generation > 0
    BY <1>5, <2>1, <2>2, SlotOfTheLog
  <2>4. CASE Running
    BY <1>1, <1>2, <2>3, <2>4, LiveSlotShows DEF TreesSeen
  <2>5. CASE ~Running
    <3>1. wal.recs = <<>>
      BY <1>1, <1>2, <2>2, <2>5, LeaderTypes
         DEF Running, Booting, LeaderInv, MountLogsNothing, Live, MutationSteps, SlotSteps, LogSteps,
         TypeInv, WipeProgress
    <3>2. QED
      BY <1>2, <1>3, <3>1, NoRecordsShow
  <2>6. QED
    BY <2>4, <2>5
<1>6. QED
  BY <1>4, <1>5

\* The steps of the leader that move neither the tree's record in the files nor
\* the slots leave what the follower would show; a log that is replaced leaves it a slot.
LEMMA WouldShowLeads ==
  ASSUME ReadInv, WouldShow, LiveShows, LiveShows', Leader
  PROVE  WouldShow'
<1> SUFFICES ASSUME faults' = 0, wipes' = 0, ReadsOn' PROVE Recovered(AsRead, wal)' \in seen'
  BY DEF WouldShow
<1>1. LeaderInv /\ FollowerType /\ TreesSeen
  BY DEF ReadInv
<1>2. /\ AsRead \in [Slots -> SlotFiles] /\ wal \in LogFiles /\ TypeOK /\ TypeInv /\ WipeProgress
      /\ faults \in Nat /\ wipes \in Nat
  BY <1>1, LeaderTypes DEF FollowerType, AsRead
<1>3. /\ seen' = seen \cup {tree'} /\ UNCHANGED <<fpc, fslot, view>>
      /\ Recover \/ Worker \/ (\E needs \in {0} \cup tree : Begin(needs)) \/ BeginCheckpoint
         \/ Sync \/ BeginWipe \/ Close \/ Fail \/ LeaderTabDies
  BY DEF Leader, Leads
<1>4. UNCHANGED slot => AsRead' = AsRead
  BY <1>3 DEF AsRead
<1>5. UNCHANGED <<slot, wal>> => Recovered(AsRead, wal)' = Recovered(AsRead, wal)
  BY <1>4 DEF Recovered
<1>6. ASSUME UNCHANGED <<slot, wal>>, faults' = faults, wipes' = wipes, ReadsOn
      PROVE  Recovered(AsRead, wal)' \in seen'
  BY <1>3, <1>5, <1>6 DEF WouldShow
<1>7. ASSUME Live', pc' # "commit" PROVE Recovered(AsRead, wal)' \in seen'
  BY <1>7 DEF LiveShows
<1>8. {} \in seen' /\ AsRead["a"].tree \in seen' /\ AsRead["b"].tree \in seen'
  BY <1>1, <1>3, SlotNames DEF TreesSeen, AsRead
<1> USE DEF Live, MutationSteps, SlotSteps
<1>9. CASE Recover
  <2>1. UNCHANGED <<slot, wal>> /\ faults' = faults /\ wipes' = wipes /\ tree' = Recovered(slot, wal)
    BY <1>9 DEF Recover, disk, counts
  <2>2. CASE fpc \in {"b", "log"}
    BY <1>6, <2>1, <2>2 DEF ReadsOn
  <2>3. CASE fpc = "idle"
    <3>1. AsRead = slot
      BY <1>1, <2>3, LeaderTypes DEF AsRead
    <3>2. QED
      BY <1>3, <1>5, <2>1, <3>1
  <2>4. QED
    BY <1>3, <2>2, <2>3 DEF ReadsOn
<1>10. CASE LogTruncate \/ LogHeader
  <2>1. wal'.recs = <<>> /\ wal' \in LogFiles /\ UNCHANGED slot
    <3>1. wal'.recs = <<>> /\ UNCHANGED slot
      BY <1>10 DEF LogTruncate, LogHeader, NoLog
    <3>2. TypeInv'
      BY <1>2, <1>10, LogResetType DEF LogReset
    <3>3. QED
      BY <3>1, <3>2 DEF TypeInv, TypeOK
  <2>2. Recovered(AsRead, wal') \in {{}, AsRead["a"].tree, AsRead["b"].tree}
    BY <1>2, <2>1, NoRecordsShow
  <2>3. Recovered(AsRead, wal)' = Recovered(AsRead, wal')
    BY <1>4, <2>1 DEF Recovered
  <2>4. QED
    BY <1>8, <2>2, <2>3
<1>11. CASE LogFlushBoot \/ LogFlushCheckpoint \/ LogFlushWipe
  BY <1>7, <1>11 DEF LogFlushBoot, LogFlushCheckpoint, LogFlushWipe, Idle
<1>12. CASE CheckpointSync \/ SlotTruncate \/ SlotWrite
  BY <1>7, <1>12 DEF CheckpointSync, SlotTruncate, SlotWrite
<1>13. CASE SlotFlush
  <2>1. UNCHANGED <<slot, wal>> /\ faults' = faults /\ wipes' = wipes /\ pc # "down" /\ pc' # "down"
    BY <1>13 DEF SlotFlush, counts
  <2>2. QED
    BY <1>3, <1>6, <2>1 DEF ReadsOn
<1>14. CASE PlanAppend \/ PlanFlush \/ Commit
  BY <1>7, <1>14 DEF PlanAppend, PlanFlush, Commit, Idle
<1>15. CASE Apply
  <2>1. UNCHANGED <<slot, wal>> /\ faults' = faults /\ wipes' = wipes /\ pc # "down" /\ pc' # "down"
    BY <1>15 DEF Apply, disk, counts
  <2>2. QED
    BY <1>3, <1>6, <2>1 DEF ReadsOn
<1>16. CASE Wipe
  <2>1. wipes > 0 /\ wipes' = wipes
    BY <1>1, <1>2, <1>16
       DEF Wipe, WipeTruncate, WipeFlush, WipeProgress, WipeSteps, LeaderInv, SlotProgress, counts
  <2>2. QED
    BY <2>1
<1>17. CASE (\E needs \in {0} \cup tree : Begin(needs)) \/ BeginCheckpoint
  BY <1>7, <1>17 DEF Begin, BeginCheckpoint
<1>18. CASE Sync
  BY <1>7, <1>18 DEF Sync
<1>19. CASE BeginWipe \/ Fail
  BY <1>2, <1>19 DEF BeginWipe, Fail
<1>20. CASE Close \/ LeaderTabDies
  <2>1. UNCHANGED <<slot, wal>> /\ faults' = faults /\ wipes' = wipes /\ pc' = "down"
    BY <1>20 DEF Close, LeaderTabDies, Forget, disk, counts
  <2>2. QED
    BY <1>3, <1>6, <2>1 DEF ReadsOn
<1>21. QED
  BY <1>3, <1>9, <1>10, <1>11, <1>12, <1>13, <1>14, <1>15, <1>16, <1>17, <1>18, <1>19, <1>20
     DEF Worker, LogReset, Checkpoint, Mutation

\* The same for every step.
LEMMA WouldShowNext ==
  ASSUME ReadInv, WouldShow, LiveShows, LiveShows', [FNext]_<<vars, fvars>>
  PROVE  WouldShow'
<1>1. CASE Leader
  BY <1>1, WouldShowLeads
<1>2. CASE Follower
  <2>1. SUFFICES ASSUME faults' = 0, wipes' = 0, ReadsOn' PROVE Recovered(AsRead, wal)' \in seen'
    BY DEF WouldShow
  <2>2. /\ UNCHANGED <<slot, wal, pc, faults, wipes, seen>>
        /\ fslot \in [Slots -> SlotFiles] /\ slot \in [Slots -> SlotFiles] /\ Slots = {"a", "b"}
    BY <1>2, LeaderTypes
       DEF Follower, ReadA, ReadB, ReadLog, vars, disk, counts, ReadInv, FollowerType, Slots
  <2>3. AsRead' = AsRead /\ ReadsOn
    <3>1. CASE ReadA
      BY <2>2, <3>1 DEF ReadA, AsRead, ReadsOn
    <3>2. CASE ReadB
      BY <2>1, <2>2, <3>2 DEF ReadB, AsRead, ReadsOn
    <3>3. CASE ReadLog
      BY <2>1, <3>3 DEF ReadLog, ReadsOn
    <3>4. QED
      BY <1>2, <3>1, <3>2, <3>3 DEF Follower
  <2>4. Recovered(AsRead, wal)' = Recovered(AsRead, wal)
    BY <2>2, <2>3 DEF Recovered
  <2>5. QED
    BY <2>1, <2>2, <2>3, <2>4 DEF WouldShow
<1>3. CASE BothDie
  BY <1>3 DEF BothDie, Crash, Forget, WouldShow, ReadsOn
<1>4. CASE UNCHANGED <<vars, fvars>>
  <2>1. UNCHANGED <<slot, wal, pc, faults, wipes, seen, fpc, fslot>>
    BY <1>4 DEF vars, fvars, disk, counts
  <2>2. AsRead' = AsRead
    BY <2>1 DEF AsRead
  <2>3. Recovered(AsRead, wal)' = Recovered(AsRead, wal)
    BY <2>1, <2>2 DEF Recovered
  <2>4. QED
    BY <2>1, <2>3 DEF WouldShow, ReadsOn
<1>5. QED
  BY <1>1, <1>2, <1>3, <1>4, StepIs

\* What is shown, once it is.
Shown == faults = 0 /\ wipes = 0 /\ fpc = "done" => view \in seen

LEMMA ShownNext ==
  ASSUME ReadInv, WouldShow, Shown, [FNext]_<<vars, fvars>>
  PROVE  Shown'
<1>1. /\ TypeOK /\ FollowerType /\ {} \in seen /\ wipes \in Nat /\ faults \in Nat
      /\ fslot \in [Slots -> SlotFiles]
  BY LeaderTypes DEF ReadInv, TreesSeen, FollowerType
<1>2. CASE Leader
  <2>1. seen \subseteq seen' /\ UNCHANGED <<fpc, view>> /\ (Next \/ LeaderTabDies)
    BY <1>2, StepIs DEF Leader, Leads, Next
  <2>2. faults' = 0 => faults = 0
    BY <1>1, <2>1, FaultsOnlyGrow DEF LeaderTabDies, counts
  <2>3. wipes' = 0 => wipes = 0
    BY <1>1, <2>1, WipesOnlyGrow DEF LeaderTabDies, counts
  <2>4. QED
    BY <2>1, <2>2, <2>3 DEF Shown
<1>3. CASE Follower
  <2>1. UNCHANGED <<faults, wipes, seen>>
    BY <1>3 DEF Follower, ReadA, ReadB, ReadLog, vars, counts
  <2>2. CASE ReadA
    BY <2>2 DEF ReadA, Shown
  <2>3. CASE ReadB
    BY <1>1, <2>1, <2>3 DEF ReadB, Shown, FollowerType
  <2>4. CASE ReadLog
    <3>1. AsRead = fslot
      BY <1>1, <2>4 DEF ReadLog, AsRead
    <3>2. QED
      BY <2>1, <2>4, <3>1 DEF ReadLog, Shown, WouldShow, ReadsOn
  <2>5. QED
    BY <1>3, <2>2, <2>3, <2>4 DEF Follower
<1>4. CASE BothDie
  BY <1>4 DEF BothDie, Shown
<1>5. CASE UNCHANGED <<vars, fvars>>
  BY <1>5 DEF vars, fvars, counts, Shown
<1>6. QED
  BY <1>2, <1>3, <1>4, <1>5, StepIs

\* Whatever the leader writes, checkpoints, boots or dies between the three reads,
\* the follower shows a tree the leader really had, as long as no disk call fails
\* and nobody resets the filesystem.
THEOREM ShowsARealTreeHolds == FSpec => [](wipes = 0 => ShowsARealTree)
<1>1. FInit => WouldShow /\ Shown
  BY DEF FInit, Init, WouldShow, ReadsOn, Shown
<1>2. ReadInv => LiveShows
  BY LiveShowsAlways
<1>3. /\ ReadInv /\ WouldShow /\ Shown /\ LiveShows /\ LiveShows' /\ [FNext]_<<vars, fvars>>
      => WouldShow' /\ Shown'
  BY WouldShowNext, ShownNext
<1>4. Shown => (wipes = 0 => ShowsARealTree)
  BY DEF Shown, ShowsARealTree
<1>5. QED
  BY <1>1, <1>2, <1>3, <1>4, ReadInvHolds, PTL DEF FSpec

\* While the leader serves, the follower's read of an unmoved store is the
\* leader's own recovery: everything reported, and nothing never applied.
LEMMA QuietReadShows ==
  ASSUME LeaderInv, FollowerType, faults = 0, LeaderQuiet, generation > 0,
         fslot["a"] = slot["a"], fslot["b"] = slot["b"]
  PROVE  /\ acked \subseteq Recovered(fslot, wal) /\ Recovered(fslot, wal) \subseteq applied
         /\ fslot[Winner(fslot)].gen > 0
<1>1. /\ Live /\ Running /\ pc # "down" /\ ~Wiping /\ ~Sealing /\ pc # "slot.flush"
  BY LeaderTypes DEF LeaderQuiet, Live, Running, Booting, Wiping, Sealing, LogSteps, TypeInv,
     MutationSteps
<1>2. fslot = slot /\ fslot \in [Slots -> SlotFiles] /\ active \in Slots /\ Other(active) \in Slots
  BY LeaderTypes DEF FollowerType, Slots
<1>3. /\ slot[active].gen = generation /\ slot[Other(active)].gen <= generation
      /\ generation \in Nat /\ slot[Other(active)].gen \in Nat
  BY <1>1, LeaderTypes DEF LeaderInv, LeaderRuns, OpenSlots
<1>4. slot[Other(active)].gen # generation
  BY <1>2, <1>3, LeaderTypes DEF LeaderInv, InTurn
<1>5. Winner(fslot) = active
  BY <1>2, <1>3, <1>4 DEF Winner, Slots, Other
<1>6. tree = Recovered(fslot, wal) \cup (IF pc = "commit" THEN {cur.id} ELSE {})
  BY <1>1, <1>2, <1>5, LiveSlotShows
<1>7. acked \subseteq tree /\ tree \subseteq applied
  BY <1>1, LeaderTypes DEF LeaderInv, LeaderRuns, TreeRunning, AppliedInv
<1>8. pc = "commit" => cur.id \notin acked
  BY LeaderTypes DEF LeaderInv, LeaderRuns, Numbered, TypeInv, TypeOK, MutationSteps
<1>9. QED
  BY <1>2, <1>3, <1>5, <1>6, <1>7, <1>8

\* A step of the leader from one quiet state to another appends to the log, and
\* reports; the slots stay.
LEMMA QuietStep ==
  ASSUME LeaderInv, Leads, LeaderQuiet, LeaderQuiet'
  PROVE  UNCHANGED slot /\ acked \subseteq acked'
<1> USE DEF LeaderQuiet
<1>1. CASE Recover \/ LogReset \/ Checkpoint
  BY <1>1 DEF Recover, LogReset, LogTruncate, LogHeader, LogFlushBoot, LogFlushCheckpoint,
     LogFlushWipe, LogFlushed, Checkpoint, CheckpointSync, SlotTruncate, SlotWrite, SlotFlush
<1>2. CASE Mutation
  BY <1>2 DEF Mutation, PlanAppend, PlanFlush, Apply, Commit, Idle, disk, ghosts
<1>3. CASE Wipe
  BY <1>3 DEF Wipe, WipeTruncate, WipeFlush
<1>4. CASE (\E needs \in {0} \cup tree : Begin(needs)) \/ BeginCheckpoint \/ Sync
  BY <1>4 DEF Begin, BeginCheckpoint, Sync, disk, ghosts
<1>5. CASE BeginWipe \/ Close \/ LeaderTabDies
  BY <1>5 DEF BeginWipe, Close, LeaderTabDies, Forget
<1>6. CASE Fail
  BY <1>6 DEF Fail, Forget, disk, ghosts
<1>7. QED
  BY <1>1, <1>2, <1>3, <1>4, <1>5, <1>6 DEF Leads, Worker

\* What a quiet read has, and what it then shows.
QuietDone == faults = 0 /\ quiet /\ fpc = "done" => asOf \subseteq view /\ view \subseteq applied

LEMMA QuietNext ==
  ASSUME ReadInv, QuietRead, QuietDone, [FNext]_<<vars, fvars>>
  PROVE  QuietRead' /\ QuietDone'
<1>1. /\ LeaderInv /\ FollowerType /\ TypeOK /\ "a" \in Slots /\ "b" \in Slots
      /\ slot \in [Slots -> SlotFiles] /\ fslot \in [Slots -> SlotFiles] /\ Slots = {"a", "b"}
  BY LeaderTypes, SlotNames DEF ReadInv, FollowerType, Slots
<1>2. CASE Leader
  <2>1. /\ Leads /\ quiet' = (quiet /\ LeaderQuiet' /\ generation' = generation)
        /\ UNCHANGED <<fpc, fslot, view, asOf>> /\ (Next \/ LeaderTabDies)
    BY <1>2, StepIs DEF Leader, Leads, Next
  <2>2. faults' = 0 => faults = 0
    BY <1>1, <2>1, FaultsOnlyGrow DEF LeaderTabDies, counts
  <2>3. QuietRead'
    <3>1. SUFFICES ASSUME faults' = 0, quiet', fpc \in {"b", "log"} PROVE QuietRead'
      BY <2>1 DEF QuietRead
    <3>2. LeaderQuiet /\ LeaderQuiet' /\ generation' = generation
      BY <2>1, <2>2, <3>1 DEF QuietRead
    <3>3. slot' = slot /\ acked \subseteq acked'
      BY <1>1, <2>1, <3>2, QuietStep
    <3>4. QED
      BY <2>1, <2>2, <3>1, <3>2, <3>3 DEF QuietRead
  <2>4. applied \subseteq applied'
    BY <2>1 DEF Leads, Recover, Worker, LogReset, LogTruncate, LogHeader, LogFlushBoot,
       LogFlushCheckpoint, LogFlushWipe, LogFlushed, Checkpoint, CheckpointSync, SlotTruncate,
       SlotWrite, SlotFlush, Mutation, PlanAppend, PlanFlush, Apply, Commit, Wipe, WipeTruncate,
       WipeFlush, Begin, BeginCheckpoint, Sync, BeginWipe, Close, Fail, LeaderTabDies, ghosts
  <2>5. QuietDone'
    BY <2>1, <2>2, <2>4 DEF QuietDone
  <2>6. QED
    BY <2>3, <2>5
<1>3. CASE Follower
  <2>1. UNCHANGED <<slot, wal, pc, faults, generation, acked, applied>> /\ (LeaderQuiet' <=> LeaderQuiet)
    BY <1>3 DEF Follower, ReadA, ReadB, ReadLog, vars, disk, memory, counts, ghosts, LeaderQuiet
  <2>2. CASE ReadA
    BY <1>1, <2>1, <2>2 DEF ReadA, QuietRead, QuietDone
  <2>3. CASE ReadB
    <3>1. /\ fpc = "b" /\ fslot'["b"] = slot["b"] /\ fslot'["a"] = fslot["a"]
          /\ fslot' \in [Slots -> SlotFiles]
          /\ UNCHANGED <<view, asOf, quiet>> /\ fpc' \in {"log", "done"}
          /\ fpc' = "done" => fslot'[Winner(fslot')].gen = 0
      BY <1>1, <2>3 DEF ReadB
    <3>2. QuietRead'
      BY <2>1, <3>1 DEF QuietRead
    <3>3. ASSUME faults = 0, quiet PROVE fpc' # "done"
      <4>1. LeaderQuiet /\ generation > 0 /\ fslot'["a"] = slot["a"]
        BY <3>1, <3>3 DEF QuietRead
      <4>2. fslot' = slot
        BY <1>1, <3>1, <4>1
      <4>3. slot[active].gen = generation /\ generation \in Nat
        BY <1>1, <3>3, <4>1, LeaderTypes
           DEF LeaderInv, LeaderRuns, OpenSlots, LeaderQuiet, Wiping, TypeInv, MutationSteps
      <4>4. slot[active].gen <= slot[Winner(slot)].gen
        BY <1>1, LeaderTypes DEF Winner
      <4>5. slot[Winner(slot)].gen # 0
        BY <4>1, <4>3, <4>4
      <4>6. QED
        BY <3>1, <4>2, <4>5
    <3>4. QuietDone'
      BY <2>1, <3>1, <3>3 DEF QuietDone
    <3>5. QED
      BY <3>2, <3>4
  <2>4. CASE ReadLog
    <3>1. fpc = "log" /\ view' = Recovered(fslot, wal) /\ fpc' = "done" /\ UNCHANGED <<asOf, quiet>>
      BY <2>4 DEF ReadLog
    <3>2. ASSUME faults = 0, quiet
          PROVE  asOf \subseteq view' /\ view' \subseteq applied
      <4>1. /\ LeaderQuiet /\ generation > 0 /\ asOf \subseteq acked
            /\ fslot["a"] = slot["a"] /\ fslot["b"] = slot["b"]
        BY <3>1, <3>2 DEF QuietRead
      <4>2. QED
        BY <1>1, <3>1, <3>2, <4>1, QuietReadShows
    <3>3. QED
      BY <2>1, <3>1, <3>2 DEF QuietRead, QuietDone
  <2>5. QED
    BY <1>3, <2>2, <2>3, <2>4 DEF Follower
<1>4. CASE BothDie
  BY <1>4 DEF BothDie, QuietRead, QuietDone
<1>5. CASE UNCHANGED <<vars, fvars>>
  BY <1>5 DEF vars, fvars, disk, memory, counts, ghosts, QuietRead, QuietDone, LeaderQuiet
<1>6. QED
  BY <1>2, <1>3, <1>4, <1>5, StepIs

\* A read that no checkpoint, boot or reset of the leader overlaps shows what the
\* leader had reported when the read began, and nothing that was never applied.
THEOREM QuietReadIsCurrentHolds == FSpec => []QuietReadIsCurrent
<1>1. FInit => QuietRead /\ QuietDone
  BY DEF FInit, QuietRead, QuietDone
<1>2. ReadInv /\ QuietRead /\ QuietDone /\ [FNext]_<<vars, fvars>> => QuietRead' /\ QuietDone'
  BY QuietNext
<1>3. QuietDone => QuietReadIsCurrent
  BY DEF QuietDone, QuietReadIsCurrent
<1>4. QED
  BY <1>1, <1>2, <1>3, ReadInvHolds, PTL DEF FSpec
=============================================================================
