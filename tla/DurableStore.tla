---------------------------- MODULE DurableStore ----------------------------
(***************************************************************************)
(* The durable half of the browser filesystem: OpfsStore (two checkpoint   *)
(* slots), OpfsJournal (the write-ahead log) and OpfsStorage (the backend  *)
(* that logs every mutation and checkpoints when the log has grown), from  *)
(* the moment a tab opens the store to the moment it dies or closes it.    *)
(*                                                                         *)
(* A mutation is a number: mutations are planned, applied and logged one   *)
(* at a time, so the tree in memory and the payload of a checkpoint are    *)
(* the SET of mutations they contain.  Each file is what a reader sees     *)
(* (slot, wal) and what the last flush put down (slotD, walD); a crash     *)
(* keeps anything between the two.                                         *)
(***************************************************************************)
EXTENDS Naturals, Integers, Sequences

CONSTANTS
  MaxOps,      \* bound: mutations planned in a behaviour
  MaxGen,      \* bound: no checkpoint is started at this generation
  MaxCrashes,  \* bound: crashes
  MaxFaults,   \* bound: disk calls that fail (quota, device)
  MaxWipes,    \* bound: Reset-FileSystem calls
  LogLimit     \* checkpointBytes, counted in log records

ASSUME BoundsAreNat ==
  /\ MaxOps \in Nat /\ MaxGen \in Nat /\ MaxCrashes \in Nat
  /\ MaxFaults \in Nat /\ MaxWipes \in Nat /\ LogLimit \in Nat

Ops   == Nat \ {0}
Slots == {"a", "b"}
Other(s) == IF s = "a" THEN "b" ELSE "a"

\* A slot that does not decode (empty, half written) has generation 0: every
\* checkpoint that is written has a generation of at least 1.
NoSlot == [gen |-> 0, tree |-> {}]
SlotFiles == [gen : Nat, tree : SUBSET Ops]

\* A log without a readable header has generation -1.
NoLog == [gen |-> -1, recs |-> <<>>]
Records == [kind : {"plan", "commit"}, id : Ops, needs : Nat]
LogFiles == [gen : Nat \cup {-1}, recs : Seq(Records)]

\* The mutation in flight; `needs` is the earlier mutation its plan was
\* validated on top of (a write into a directory just made), or 0.
NoOp == [id |-> 0, needs |-> 0]

VARIABLES
  slot, slotD,  \* the two checkpoint slots, as read and as flushed
  wal, walD,    \* the log, as read and as flushed
  pc,           \* the next disk call or step of the storage worker
  ret,          \* on whose behalf the checkpoint or log reset runs
  cur,          \* the mutation in flight
  tree,         \* MemoryStorage's tree
  generation, active, logLen, dirty,  \* fields of OpfsStore and OpfsJournal
  nextId, crashes, faults, wipes,     \* counters
  acked,        \* ghost: what the user has been told is in the store
  applied,      \* ghost: mutations that ever reached the tree
  gone          \* ghost: mutations a completed Reset-FileSystem destroyed

disk    == <<slot, slotD, wal, walD>>
memory  == <<tree, generation, active, logLen, dirty>>
counts  == <<nextId, crashes, faults, wipes>>
ghosts  == <<acked, applied, gone>>
vars    == <<disk, pc, ret, cur, memory, counts, ghosts>>

PCs == {"down", "serving", "plan.append", "plan.flush", "apply", "commit",
        "ckpt.sync", "slot.truncate", "slot.write", "slot.flush",
        "log.truncate", "log.header", "log.flush",
        "wipeA.truncate", "wipeA.flush", "wipeB.truncate", "wipeB.flush"}

TypeOK ==
  /\ slot \in [Slots -> SlotFiles] /\ slotD \in [Slots -> SlotFiles]
  /\ wal \in LogFiles /\ walD \in LogFiles
  /\ pc \in PCs
  /\ ret \in {"boot", "mount", "op", "ctl", "wipe"}
  /\ cur \in [id : Nat, needs : Nat]
  /\ tree \subseteq Ops
  /\ generation \in Nat /\ active \in Slots /\ logLen \in Nat
  /\ dirty \in BOOLEAN
  /\ nextId \in Ops /\ crashes \in Nat /\ faults \in Nat /\ wipes \in Nat
  /\ acked \subseteq Ops /\ applied \subseteq Ops /\ gone \subseteq Ops

-----------------------------------------------------------------------------
(* What recovery reads out of a pair of slots and a log.                   *)

\* slip: every plan counts, committed or not.
CommittedAnyPlan(recs) ==
  {recs[i] : i \in {k \in DOMAIN recs : recs[k].kind = "plan"}}

\* committedPlans: the plans that have a commit record in the log.
Committed(recs) ==
  {recs[i] : i \in {k \in DOMAIN recs :
     /\ recs[k].kind = "plan"
     /\ \E j \in DOMAIN recs : recs[j].kind = "commit" /\ recs[j].id = recs[k].id}}

\* MemoryStorage.replay in log order, stopping at the first plan the tree
\* cannot take: the mutation it was built on is not there.
Takes(base, plans, p) ==
  \/ p.needs = 0
  \/ p.needs \in base
  \/ \E q \in plans : q.id = p.needs /\ q.id < p.id
Replayed(base, plans) ==
  {p.id : p \in {x \in plans :
     \A q \in plans : q.id <= x.id => Takes(base, plans, q)}}

\* The readable slot with the higher generation; a tie goes to A.
Winner(sl) == IF sl["b"].gen > sl["a"].gen THEN "b" ELSE "a"

Recovered(sl, w) ==
  LET base == sl[Winner(sl)].tree
  IN IF sl[Winner(sl)].gen = 0 THEN {}
     ELSE IF w.gen = sl[Winner(sl)].gen
          THEN base \cup Replayed(base, Committed(w.recs))
          ELSE base

-----------------------------------------------------------------------------
(* The files a crash may leave behind.                                     *)

\* A slot with unflushed bytes is old, new or torn.
SlotOutcomes ==
  {sl \in [Slots -> {slot["a"], slot["b"], slotD["a"], slotD["b"], NoSlot}] :
     \A s \in Slots : sl[s] \in IF slot[s] = slotD[s] THEN {slot[s]}
                                ELSE {slot[s], slotD[s], NoSlot}}

\* The log is append-only between resets, so it survives as a prefix at least
\* as long as what was flushed (a torn record ends the parse); an unflushed
\* reset may also have left the old log or no readable log at all.
Extends(long, short) ==
  /\ long.gen = short.gen
  /\ Len(short.recs) <= Len(long.recs)
  /\ \A i \in DOMAIN short.recs : short.recs[i] = long.recs[i]
Prefixes(w, from) ==
  {[gen |-> w.gen, recs |-> SubSeq(w.recs, 1, n)] : n \in from .. Len(w.recs)}
LogOutcomes ==
  IF Extends(wal, walD) THEN Prefixes(wal, Len(walD.recs))
                        ELSE Prefixes(wal, 0) \cup {walD, NoLog}

-----------------------------------------------------------------------------
Init ==
  /\ slot = [s \in Slots |-> NoSlot] /\ slotD = slot
  /\ wal = NoLog /\ walD = NoLog
  /\ pc = "down" /\ ret = "boot" /\ cur = NoOp
  /\ tree = {} /\ generation = 0 /\ active = "b" /\ logLen = 0 /\ dirty = FALSE
  /\ nextId = 1 /\ crashes = 0 /\ faults = 0 /\ wipes = 0
  /\ acked = {} /\ applied = {} /\ gone = {}

\* The worker's memory is gone: the tab died, or closed the store.
Forget ==
  /\ pc' = "down" /\ ret' = "boot" /\ cur' = NoOp
  /\ tree' = {} /\ generation' = 0 /\ active' = "b" /\ logLen' = 0 /\ dirty' = FALSE

\* The worker goes back to waiting for the next request.
Idle == pc' = "serving" /\ cur' = NoOp

------------------------------- (* boot *) ---------------------------------
\* slip: the fields of a store that does not exist yet are left unset.
RecoverUnset ==
  /\ pc = "down"
  /\ slot[Winner(slot)].gen < MaxGen
  /\ generation' = slot[Winner(slot)].gen
  /\ active' = IF slot[Winner(slot)].gen = 0 THEN "none" ELSE Winner(slot)
  /\ tree' = Recovered(slot, wal)
  /\ pc' = "log.truncate" /\ ret' = "boot"
  /\ UNCHANGED <<disk, cur, logLen, dirty, counts, ghosts>>

\* slip: the slot the overlay came from is not remembered.
RecoverAnySlot ==
  /\ pc = "down"
  /\ slot[Winner(slot)].gen < MaxGen
  /\ generation' = slot[Winner(slot)].gen
  /\ active' = "b"
  /\ tree' = Recovered(slot, wal)
  /\ pc' = "log.truncate" /\ ret' = "boot"
  /\ UNCHANGED <<disk, cur, logLen, dirty, counts, ghosts>>

\* recover: pick the newer slot, read the committed plans of a log of the same
\* generation, and go on to reset the log.  The tree is what mount builds from
\* them: seed, overlay, replay.
Recover ==
  /\ pc = "down"
  /\ slot[Winner(slot)].gen < MaxGen
  /\ generation' = slot[Winner(slot)].gen
  /\ active' = IF slot[Winner(slot)].gen = 0 THEN "b" ELSE Winner(slot)
  /\ tree' = Recovered(slot, wal)
  /\ pc' = "log.truncate" /\ ret' = "boot"
  /\ UNCHANGED <<disk, cur, logLen, dirty, counts, ghosts>>

-------------------------- (* OpfsJournal.reset *) --------------------------
\* slip: the log is emptied and keeps the generation it had.
LogGenKept == IF ret = "wipe" THEN 0 ELSE generation

\* The generation the log is stamped with.
LogGen == IF ret = "boot" THEN generation ELSE IF ret = "wipe" THEN 0 ELSE generation + 1

LogTruncate ==
  /\ pc = "log.truncate"
  /\ wal' = NoLog
  /\ pc' = "log.header"
  /\ UNCHANGED <<slot, slotD, walD, ret, cur, memory, counts, ghosts>>

LogHeader ==
  /\ pc = "log.header"
  /\ wal' = [gen |-> LogGen, recs |-> <<>>]
  /\ pc' = "log.flush"
  /\ UNCHANGED <<slot, slotD, walD, ret, cur, memory, counts, ghosts>>

LogFlushed ==
  /\ pc = "log.flush"
  /\ walD' = wal /\ logLen' = 0 /\ dirty' = FALSE
  /\ UNCHANGED <<slot, slotD, wal, tree, counts, applied>>

\* The last step of a log reset, by what it was part of.  Boot: the log is
\* empty and the checkpoint of mount comes next.
LogFlushBoot ==
  /\ LogFlushed /\ ret = "boot"
  /\ pc' = "ckpt.sync" /\ ret' = "mount"
  /\ UNCHANGED <<cur, generation, active, acked, gone>>

\* slip: a checkpoint asked for by the page never answers.
LogFlushMutationsOnly ==
  /\ LogFlushed /\ ret \in {"mount", "op"}
  /\ generation' = generation + 1 /\ active' = Other(active)
  /\ acked' = IF ret = "mount" THEN tree ELSE acked \cup {cur.id}
  /\ Idle
  /\ UNCHANGED <<ret, gone>>

\* A checkpoint: the new slot is the active one.  The mutation it followed, if
\* any, is now reported; at the end of mount everything in the tree is what the
\* user is shown.
LogFlushCheckpoint ==
  /\ LogFlushed /\ ret \in {"mount", "op", "ctl"}
  /\ generation' = generation + 1 /\ active' = Other(active)
  /\ acked' = IF ret = "mount" THEN tree
              ELSE IF ret = "op" THEN acked \cup {cur.id} ELSE acked
  /\ Idle
  /\ UNCHANGED <<ret, gone>>

\* Reset-FileSystem is complete.
LogFlushWipe ==
  /\ LogFlushed /\ ret = "wipe"
  /\ generation' = 0 /\ active' = "b"
  /\ gone' = applied /\ acked' = {}
  /\ Idle
  /\ UNCHANGED ret

------------------------ (* OpfsStore.checkpoint *) -------------------------
CheckpointSync ==
  /\ pc = "ckpt.sync"
  /\ walD' = IF dirty THEN wal ELSE walD
  /\ dirty' = FALSE
  /\ pc' = "slot.truncate"
  /\ UNCHANGED <<slot, slotD, wal, ret, cur, tree, generation, active, logLen, counts, ghosts>>

\* slip: the slot that is overwritten is the active one.
SlotTruncateActive ==
  /\ pc = "slot.truncate"
  /\ slot' = [slot EXCEPT ![active] = NoSlot]
  /\ pc' = "slot.write"
  /\ UNCHANGED <<slotD, wal, walD, ret, cur, memory, counts, ghosts>>

SlotTruncate ==
  /\ pc = "slot.truncate"
  /\ slot' = [slot EXCEPT ![Other(active)] = NoSlot]
  /\ pc' = "slot.write"
  /\ UNCHANGED <<slotD, wal, walD, ret, cur, memory, counts, ghosts>>

\* slip: the new slot has the generation of the old one.
SlotWriteSameGen ==
  /\ pc = "slot.write"
  /\ slot' = [slot EXCEPT ![Other(active)] = [gen |-> generation, tree |-> tree]]
  /\ pc' = "slot.flush"
  /\ UNCHANGED <<slotD, wal, walD, ret, cur, memory, counts, ghosts>>

\* slip: the export starts outside the mutation's critical section and misses it.
SlotWriteEarlier ==
  /\ pc = "slot.write"
  /\ slot' = [slot EXCEPT ![Other(active)] =
                 [gen |-> generation + 1, tree |-> tree \ {cur.id}]]
  /\ pc' = "slot.flush"
  /\ UNCHANGED <<slotD, wal, walD, ret, cur, memory, counts, ghosts>>

SlotWrite ==
  /\ pc = "slot.write"
  /\ slot' = [slot EXCEPT ![Other(active)] = [gen |-> generation + 1, tree |-> tree]]
  /\ pc' = "slot.flush"
  /\ UNCHANGED <<slotD, wal, walD, ret, cur, memory, counts, ghosts>>

SlotFlush ==
  /\ pc = "slot.flush"
  /\ slotD' = [slotD EXCEPT ![Other(active)] = slot[Other(active)]]
  /\ pc' = "log.truncate"
  /\ UNCHANGED <<slot, wal, walD, ret, cur, memory, counts, ghosts>>

--------------------------- (* one mutation *) -----------------------------
\* A mutation is planned against the tree; its plan is valid only where the
\* mutation it builds on is present.
Begin(needs) ==
  /\ pc = "serving" /\ nextId <= MaxOps /\ generation < MaxGen
  /\ cur' = [id |-> nextId, needs |-> needs]
  /\ nextId' = nextId + 1
  /\ pc' = "plan.append" /\ ret' = "op"
  /\ UNCHANGED <<disk, memory, crashes, faults, wipes, ghosts>>

\* A record written past the end of the log, after a reset that truncated the
\* file and failed, is behind a hole: no reader gets that far.
AppendRecord(w, kind) ==
  IF w.gen = -1 \/ logLen # Len(w.recs) THEN w
  ELSE [w EXCEPT !.recs = Append(@, [kind |-> kind, id |-> cur.id, needs |-> cur.needs])]

PlanAppend ==
  /\ pc = "plan.append"
  /\ wal' = AppendRecord(wal, "plan")
  /\ logLen' = logLen + 1 /\ dirty' = TRUE
  /\ pc' = "plan.flush"
  /\ UNCHANGED <<slot, slotD, walD, ret, cur, tree, generation, active, counts, ghosts>>

PlanFlush ==
  /\ pc = "plan.flush"
  /\ walD' = wal /\ dirty' = FALSE
  /\ pc' = "apply"
  /\ UNCHANGED <<slot, slotD, wal, ret, cur, tree, generation, active, logLen, counts, ghosts>>

Apply ==
  /\ pc = "apply"
  /\ tree' = tree \cup {cur.id}
  /\ applied' = applied \cup {cur.id}
  /\ pc' = "commit"
  /\ UNCHANGED <<disk, ret, cur, generation, active, logLen, dirty, counts, acked, gone>>

\* slip: one record more than checkpointBytes allows.
CommitLate ==
  /\ pc = "commit"
  /\ wal' = AppendRecord(wal, "commit")
  /\ logLen' = logLen + 1 /\ dirty' = TRUE
  /\ IF logLen' > LogLimit
     THEN pc' = "ckpt.sync" /\ ret' = "op" /\ UNCHANGED <<cur, acked>>
     ELSE Idle /\ acked' = acked \cup {cur.id} /\ UNCHANGED ret
  /\ UNCHANGED <<slot, slotD, walD, tree, generation, active, counts, applied, gone>>

\* The commit marker is appended and not flushed; when the log has reached
\* checkpointBytes the caller waits for the checkpoint too.
Commit ==
  /\ pc = "commit"
  /\ wal' = AppendRecord(wal, "commit")
  /\ logLen' = logLen + 1 /\ dirty' = TRUE
  /\ IF logLen' >= LogLimit
     THEN pc' = "ckpt.sync" /\ ret' = "op" /\ UNCHANGED <<cur, acked>>
     ELSE Idle /\ acked' = acked \cup {cur.id} /\ UNCHANGED ret
  /\ UNCHANGED <<slot, slotD, walD, tree, generation, active, counts, applied, gone>>

------------------------ (* the other entry points *) -----------------------
\* checkpoint(), asked for by the page.
BeginCheckpoint ==
  /\ pc = "serving" /\ generation < MaxGen
  /\ pc' = "ckpt.sync" /\ ret' = "ctl"
  /\ UNCHANGED <<disk, cur, memory, counts, ghosts>>

\* sync(), from pagehide: it does not take the mutex, and the only await at
\* which the log is dirty is the one between two requests.
Sync ==
  /\ pc = "serving" /\ dirty
  /\ walD' = wal /\ dirty' = FALSE
  /\ UNCHANGED <<slot, slotD, wal, pc, ret, cur, tree, generation, active, logLen, counts, ghosts>>

\* reset(): the tree first, then both slots, then the log.
BeginWipe ==
  /\ pc = "serving" /\ wipes < MaxWipes
  /\ wipes' = wipes + 1
  /\ tree' = {}
  /\ pc' = "wipeA.truncate" /\ ret' = "wipe"
  /\ UNCHANGED <<disk, cur, generation, active, logLen, dirty, nextId, crashes, faults, ghosts>>

WipeTruncate(s, at, next) ==
  /\ pc = at
  /\ slot' = [slot EXCEPT ![s] = NoSlot]
  /\ pc' = next
  /\ UNCHANGED <<slotD, wal, walD, ret, cur, memory, counts, ghosts>>

WipeFlush(s, at, next) ==
  /\ pc = at
  /\ slotD' = [slotD EXCEPT ![s] = slot[s]]
  /\ pc' = next
  /\ UNCHANGED <<slot, wal, walD, ret, cur, memory, counts, ghosts>>

\* slip: only the active slot is zeroed.
WipeActiveOnly ==
  \/ WipeTruncate(active, "wipeA.truncate", "wipeA.flush")
  \/ WipeFlush(active, "wipeA.flush", "log.truncate")

Wipe ==
  \/ WipeTruncate("a", "wipeA.truncate", "wipeA.flush")
  \/ WipeFlush("a", "wipeA.flush", "wipeB.truncate")
  \/ WipeTruncate("b", "wipeB.truncate", "wipeB.flush")
  \/ WipeFlush("b", "wipeB.flush", "log.truncate")

\* close(): the handles are released; nothing is flushed, and what the files do
\* not hold by then goes with the memory.
Close ==
  /\ pc = "serving"
  /\ acked' = acked \cap Recovered(slot, wal)
  /\ Forget
  /\ UNCHANGED <<disk, counts, applied, gone>>

----------------------- (* what can go wrong *) -----------------------------
\* A disk call fails and changes nothing a reader can tell from a torn write.
\* During boot the store is closed again; otherwise the caller gets an error,
\* and whatever was already applied stays in the tree.
DiskSteps == PCs \ {"down", "serving", "apply"}
Fail ==
  /\ pc \in DiskSteps /\ faults < MaxFaults
  /\ faults' = faults + 1
  /\ IF ret \in {"boot", "mount"}
     THEN Forget
     ELSE Idle /\ UNCHANGED <<ret, memory>>
  /\ UNCHANGED <<disk, nextId, crashes, wipes, ghosts>>

\* The tab, the browser or the machine dies.  What the user was told and the
\* files no longer hold is lost.
Crash ==
  /\ crashes < MaxCrashes
  /\ pc # "down" \/ slot # slotD \/ wal # walD
  /\ crashes' = crashes + 1
  /\ \E sl \in SlotOutcomes, w \in LogOutcomes :
       /\ slot' = sl /\ slotD' = sl /\ wal' = w /\ walD' = w
       /\ acked' = acked \cap Recovered(sl, w)
  /\ Forget
  /\ UNCHANGED <<nextId, faults, wipes, applied, gone>>

-----------------------------------------------------------------------------
LogReset   == LogTruncate \/ LogHeader \/ LogFlushBoot \/ LogFlushCheckpoint \/ LogFlushWipe
Checkpoint == CheckpointSync \/ SlotTruncate \/ SlotWrite \/ SlotFlush
Mutation   == PlanAppend \/ PlanFlush \/ Apply \/ Commit
Worker     == LogReset \/ Checkpoint \/ Mutation \/ Wipe

Next ==
  \/ Recover \/ Worker
  \/ \E needs \in {0} \cup tree : Begin(needs)
  \/ BeginCheckpoint \/ Sync \/ BeginWipe \/ Close
  \/ Fail \/ Crash

\* A worker that has started on something keeps going: its event loop runs.
Spec == Init /\ [][Next]_vars /\ WF_vars(Worker)

-----------------------------------------------------------------------------
(* Properties.                                                             *)

Booting == ret \in {"boot", "mount"} /\ pc \notin {"serving", "down"}
Wiping  == ret = "wipe" /\ pc # "serving"

\* The store has a checkpoint since it was created or wiped, and no wipe is under
\* way; Steady: nor is a boot.
Checkpointed == pc # "down" /\ ~Wiping /\ generation > 0
Steady == Checkpointed /\ ~Booting

\* Whatever a crash leaves, recovery never brings up a mutation that had not
\* been applied: a plan that was refused, or whose log write failed, or that
\* was still being logged (the header of opfs-wal.ts: "and no others").
NothingUnapplied ==
  \A sl \in SlotOutcomes, w \in LogOutcomes : Recovered(sl, w) \subseteq applied

\* A completed Reset-FileSystem is final: no later crash, fault or boot brings
\* back a mutation made before it (OpfsStore.reset zeroes both slots).
WipeIsFinal ==
  \A sl \in SlotOutcomes, w \in LogOutcomes : Recovered(sl, w) \cap gone = {}

Newest(ids) == {x \in ids : \A y \in ids : y <= x}

\* With no disk error, a crash costs at most the last mutation, and only while
\* its commit marker is unflushed (OpfsJournal.commit's trade).
LosesAtMostTail ==
  faults = 0 /\ Steady =>
    \A sl \in SlotOutcomes, w \in LogOutcomes :
      acked \ Recovered(sl, w) \subseteq IF dirty THEN Newest(acked) ELSE {}

\* With no disk error, replay never meets a plan its tree cannot take: the
\* `failures` of MountReport, which mean data was lost, stay empty.
ReplayNeverStops ==
  faults = 0 =>
    \A sl \in SlotOutcomes, w \in LogOutcomes :
      w.gen = sl[Winner(sl)].gen /\ w.gen > 0 =>
        Replayed(sl[Winner(sl)].tree, Committed(w.recs)) = {p.id : p \in Committed(w.recs)}

\* A checkpoint no older than the one the store is running on survives a crash:
\* the new one is always built in the other slot.  With no disk error this holds
\* during a boot too; with no reset, whatever disk call fails.
Kept == (faults = 0 /\ Checkpointed) \/ (wipes = 0 /\ Steady)
CheckpointSurvives == Kept => \A sl \in SlotOutcomes : sl[Winner(sl)].gen >= generation

\* "A tie cannot happen" (recover): two readable slots never carry the same
\* generation, in any file a crash leaves, whatever disk call failed before.
NoTie ==
  \A sl \in SlotOutcomes : sl["a"].gen = sl["b"].gen => sl["a"].gen = 0

\* Between two requests the log is empty or shorter than checkpointBytes.
LogBounded == pc = "serving" /\ faults = 0 => logLen = 0 \/ logLen < LogLimit

\* No step of a checkpoint changes what a recovery from the files as they are
\* would show: slot before log is "the crash-safety argument" of checkpoint.
CheckpointInvisible ==
  [][faults = 0 /\ Steady /\ ret \in {"op", "ctl"} /\ (Checkpoint \/ LogReset) =>
       Recovered(slot', wal') = Recovered(slot, wal)]_vars

\* Every request and every boot comes to an end: success, an error, or the
\* death of the tab.
WorkerReturns == (pc \notin {"serving", "down"}) ~> (pc \in {"serving", "down"})

\* mount's comment: "A tab that dies at any point before 6 leaves the store
\* byte-identical to what it found".  The part that matters: until its
\* checkpoint is done, a crash leaves a store that recovers the same tree.
BootRepeatable ==
  faults = 0 /\ Booting =>
    \A sl \in SlotOutcomes, w \in LogOutcomes : tree \subseteq Recovered(sl, w)

\* The header of opfs-wal.ts: the durable store "contains exactly the mutations
\* that were REPORTED SUCCESSFUL".
ReportedIsStored ==
  faults = 0 /\ pc = "serving" => acked \subseteq Recovered(slot, wal)

=============================================================================
