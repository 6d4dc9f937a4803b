-------------------------- MODULE DurableStoreProofs --------------------------
(***************************************************************************)
(* Proofs about DurableStore, for every number of mutations, checkpoints,  *)
(* crashes, faults and resets.  The first part holds whatever fails; the   *)
(* second is about what is in the log, what a recovery makes of it and     *)
(* what a crash costs, as long as no disk call fails.                      *)
(***************************************************************************)
EXTENDS MCDurableStore, SequenceTheorems, FiniteSetTheorems, TLAPS

MutationSteps == {"plan.append", "plan.flush", "apply", "commit"}

\* TypeOK and where the mutation in flight is a real one.
TypeInv ==
  /\ TypeOK
  /\ pc \in MutationSteps => ret = "op"
  /\ ret = "op" /\ pc \notin {"serving", "down"} => cur.id \in Ops

-----------------------------------------------------------------------------
(* What the files a crash may leave, and a recovery from them, are.        *)

\* An unreadable slot is a slot file.
LEMMA NoSlotType == NoSlot \in SlotFiles
BY DEF NoSlot, SlotFiles

\* "No mutation in flight" has the type of the mutation in flight.
LEMMA NoOpType == NoOp \in [id : Nat, needs : Nat]
BY DEF NoOp

\* The two slots, and that the other one of a slot is a slot (checkpoint).
LEMMA SlotNames == "a" \in Slots /\ "b" \in Slots /\ \A s \in Slots : Other(s) \in Slots
BY DEF Slots, Other

\* A log without a header is a log file.
LEMMA NoLogType == NoLog \in LogFiles
<1>1. <<>> \in Seq(Records)
  BY EmptySeq
<1>2. QED
  BY <1>1 DEF NoLog, LogFiles

\* Each slot a crash leaves is the one read, the one flushed or unreadable.
LEMMA SlotOutcomeIsOneOfThree ==
  ASSUME NEW sl \in SlotOutcomes, NEW s \in Slots
  PROVE  sl[s] \in {slot[s], slotD[s], NoSlot}
BY DEF SlotOutcomes

\* What a crash makes of the slots are slot files.
LEMMA SlotOutcomesType ==
  ASSUME TypeOK, NEW sl \in SlotOutcomes
  PROVE  sl \in [Slots -> SlotFiles]
<1>1. \A s \in Slots : sl[s] \in SlotFiles
  BY SlotOutcomeIsOneOfThree, NoSlotType DEF TypeOK
<1>2. sl = [s \in Slots |-> sl[s]]
  BY DEF SlotOutcomes
<1>3. QED
  BY <1>1, <1>2

\* A prefix of a log is a log, and holds no record the log does not hold.
LEMMA PrefixOfLog ==
  ASSUME NEW w \in LogFiles, NEW from \in Nat, NEW p \in Prefixes(w, from)
  PROVE  /\ p \in LogFiles
         /\ p.gen = w.gen
         /\ DOMAIN p.recs \subseteq DOMAIN w.recs
         /\ \A i \in DOMAIN p.recs : p.recs[i] = w.recs[i]
<1>1. PICK n \in from .. Len(w.recs) :
        p = [gen |-> w.gen, recs |-> SubSeq(w.recs, 1, n)]
  BY DEF Prefixes
<1>2. w.recs \in Seq(Records) /\ w.gen \in Nat \cup {-1}
  BY DEF LogFiles
<1>3. Len(w.recs) \in Nat /\ DOMAIN w.recs = 1 .. Len(w.recs)
  BY <1>2, LenProperties
<1>4. n \in Nat /\ n <= Len(w.recs)
  BY <1>1, <1>3
<1>5. \A i \in 1 .. n : w.recs[i] \in Records
  BY <1>2, <1>3, <1>4, ElementOfSeq
<1>6. /\ SubSeq(w.recs, 1, n) \in Seq(Records)
      /\ Len(SubSeq(w.recs, 1, n)) = n
      /\ \A i \in 1 .. n : SubSeq(w.recs, 1, n)[i] = w.recs[i]
  <2>1. /\ SubSeq(w.recs, 1, n) \in Seq(Records)
        /\ Len(SubSeq(w.recs, 1, n)) = IF 1 <= n THEN n - 1 + 1 ELSE 0
        /\ \A i \in 1 .. n - 1 + 1 : SubSeq(w.recs, 1, n)[i] = w.recs[1 + i - 1]
    BY <1>4, <1>5, SubSeqProperties
  <2>2. QED
    BY <2>1, <1>4
<1>7. DOMAIN SubSeq(w.recs, 1, n) = 1 .. n
  BY <1>6, LenProperties
<1>8. p \in LogFiles
  BY <1>1, <1>2, <1>6 DEF LogFiles
<1>9. QED
  BY <1>1, <1>3, <1>4, <1>6, <1>7, <1>8

\* The log a crash leaves is unreadable, or a prefix of what was read, or what
\* was flushed.
LEMMA LogOutcomeIsOneOfThree ==
  ASSUME TypeOK, NEW w \in LogOutcomes
  PROVE  w = NoLog \/ w = walD \/ \E n \in Nat : w \in Prefixes(wal, n)
<1>1. Len(walD.recs) \in Nat
  BY LenProperties DEF TypeOK, LogFiles
<1>2. QED
  BY <1>1 DEF LogOutcomes

\* What a crash makes of the log is a log file.
LEMMA LogOutcomesType ==
  ASSUME TypeOK, NEW w \in LogOutcomes
  PROVE  w \in LogFiles
BY LogOutcomeIsOneOfThree, PrefixOfLog, NoLogType DEF TypeOK

\* recover always picks one of the two slots.
LEMMA WinnerIsASlot == \A sl : Winner(sl) \in Slots
BY DEF Winner, Slots

\* Recovery finds nothing but what some set S holds, if S holds the trees of the
\* two slots and every mutation with a commit record in the log.
LEMMA RecoveredWithin ==
  ASSUME NEW sl \in [Slots -> SlotFiles], NEW w \in LogFiles, NEW S,
         \A s \in Slots : sl[s].tree \subseteq S,
         \A i \in DOMAIN w.recs : w.recs[i].kind = "commit" => w.recs[i].id \in S
  PROVE  Recovered(sl, w) \subseteq S
<1>1. \A p \in Committed(w.recs) : p.id \in S
  BY DEF Committed
<1>2. \A base : Replayed(base, Committed(w.recs)) \subseteq S
  BY <1>1 DEF Replayed
<1>3. sl[Winner(sl)].tree \subseteq S
  BY WinnerIsASlot
<1>4. QED
  BY <1>2, <1>3 DEF Recovered

\* What recovery reads out of typed files is a set of mutations.
LEMMA RecoveredType ==
  ASSUME NEW sl \in [Slots -> SlotFiles], NEW w \in LogFiles
  PROVE  Recovered(sl, w) \subseteq Ops
<1>1. \A s \in Slots : sl[s].tree \subseteq Ops
  BY DEF SlotFiles
<1>2. \A i \in DOMAIN w.recs : w.recs[i].id \in Ops
  <2>1. w.recs \in Seq(Records)
    BY DEF LogFiles
  <2>2. \A i \in DOMAIN w.recs : w.recs[i] \in Records
    BY <2>1, LenProperties, ElementOfSeq
  <2>3. QED
    BY <2>2 DEF Records
<1>3. QED
  BY <1>1, <1>2, RecoveredWithin

\* Appending a record to a log gives a log.
LEMMA AppendRecordType ==
  ASSUME TypeOK, cur.id \in Ops, NEW kind \in {"plan", "commit"}
  PROVE  /\ AppendRecord(wal, kind) \in LogFiles
         /\ AppendRecord(wal, kind).gen = wal.gen
         /\ \A i \in DOMAIN AppendRecord(wal, kind).recs :
              \/ i \in DOMAIN wal.recs /\ AppendRecord(wal, kind).recs[i] = wal.recs[i]
              \/ AppendRecord(wal, kind).recs[i] =
                   [kind |-> kind, id |-> cur.id, needs |-> cur.needs]
<1> DEFINE r == [kind |-> kind, id |-> cur.id, needs |-> cur.needs]
<1>1. r \in Records
  BY DEF TypeOK, Records
<1>2. wal.recs \in Seq(Records) /\ wal.gen \in Nat \cup {-1}
  BY DEF TypeOK, LogFiles
<1>3. /\ Append(wal.recs, r) \in Seq(Records)
      /\ Len(Append(wal.recs, r)) = Len(wal.recs) + 1
      /\ \A i \in 1 .. Len(wal.recs) : Append(wal.recs, r)[i] = wal.recs[i]
      /\ Append(wal.recs, r)[Len(wal.recs) + 1] = r
  BY <1>1, <1>2, AppendProperties
<1>4. CASE AppendRecord(wal, kind) = wal
  BY <1>4 DEF TypeOK
<1>5. CASE AppendRecord(wal, kind) = [wal EXCEPT !.recs = Append(wal.recs, r)]
  <2>1. wal = [gen |-> wal.gen, recs |-> wal.recs]
    BY DEF TypeOK, LogFiles
  <2>2. AppendRecord(wal, kind) = [gen |-> wal.gen, recs |-> Append(wal.recs, r)]
    BY <1>5, <2>1
  <2>3. /\ DOMAIN Append(wal.recs, r) = 1 .. Len(wal.recs) + 1
        /\ DOMAIN wal.recs = 1 .. Len(wal.recs)
        /\ Len(wal.recs) \in Nat
    BY <1>2, <1>3, LenProperties
  <2>4. AppendRecord(wal, kind) \in LogFiles
    BY <1>2, <1>3, <2>2 DEF LogFiles
  <2>5. \A i \in 1 .. Len(wal.recs) + 1 : i \in 1 .. Len(wal.recs) \/ i = Len(wal.recs) + 1
    BY <2>3
  <2>6. QED
    BY <1>3, <2>2, <2>3, <2>4, <2>5
<1>6. QED
  BY <1>4, <1>5 DEF AppendRecord

-----------------------------------------------------------------------------
(* Type correctness.                                                       *)

\* The store that does not exist yet is well typed.
LEMMA TypeInit == Init => TypeInv
<1> SUFFICES ASSUME Init PROVE TypeInv
  OBVIOUS
<1>1. [s \in Slots |-> NoSlot] \in [Slots -> SlotFiles]
  BY NoSlotType
<1>2. slot \in [Slots -> SlotFiles] /\ slotD \in [Slots -> SlotFiles]
  BY <1>1 DEF Init
<1>3. /\ generation \in Nat /\ logLen \in Nat /\ nextId \in Ops
      /\ crashes \in Nat /\ faults \in Nat /\ wipes \in Nat
  BY DEF Init, Ops
<1>4. dirty \in BOOLEAN
  BY DEF Init
<1>5. /\ wal \in LogFiles /\ walD \in LogFiles
      /\ cur \in [id : Nat, needs : Nat] /\ active \in Slots
  BY NoLogType, NoOpType, SlotNames DEF Init
<1>6. QED
  BY <1>2, <1>3, <1>4, <1>5 DEF Init, TypeInv, TypeOK, PCs, MutationSteps

\* Forgetting leaves fields of the right type.
LEMMA ForgetType ==
  ASSUME Forget
  PROVE  /\ pc' = "down" /\ ret' = "boot" /\ cur' \in [id : Nat, needs : Nat]
         /\ tree' \subseteq Ops /\ generation' \in Nat /\ active' \in Slots
         /\ logLen' \in Nat /\ dirty' \in BOOLEAN
<1>1. dirty' \in BOOLEAN
  BY DEF Forget
<1>2. generation' \in Nat /\ logLen' \in Nat /\ tree' \subseteq Ops
  BY DEF Forget
<1>3. QED
  BY <1>1, <1>2, NoOpType, SlotNames DEF Forget

\* recover keeps the types.
LEMMA RecoverType == TypeInv /\ Recover => TypeInv'
<1> SUFFICES ASSUME TypeInv, Recover PROVE TypeInv'
  OBVIOUS
<1>1. slot \in [Slots -> SlotFiles] /\ wal \in LogFiles
  BY DEF TypeInv, TypeOK
<1>2. tree' \subseteq Ops
  BY <1>1, RecoveredType DEF Recover
<1>3. generation' \in Nat
  BY <1>1, WinnerIsASlot DEF Recover, SlotFiles
<1>4. active' \in Slots
  BY WinnerIsASlot DEF Recover, Slots
<1>5. QED
  BY <1>2, <1>3, <1>4
     DEF TypeInv, TypeOK, Recover, PCs, MutationSteps, disk, counts, ghosts

\* The log is always stamped with a natural generation.
LEMMA LogGenType == TypeInv => LogGen \in Nat
BY DEF LogGen, TypeInv, TypeOK

\* OpfsJournal.reset keeps the types.
LEMMA LogResetType == TypeInv /\ LogReset => TypeInv'
<1> SUFFICES ASSUME TypeInv, LogReset PROVE TypeInv'
  OBVIOUS
<1> USE DEF TypeInv, TypeOK, PCs, MutationSteps
<1>1. CASE LogTruncate
  BY <1>1, NoLogType DEF LogTruncate, memory, counts, ghosts
<1>2. CASE LogHeader
  <2>1. <<>> \in Seq(Records)
    BY EmptySeq
  <2>2. [gen |-> LogGen, recs |-> <<>>] \in LogFiles
    BY <2>1, LogGenType DEF LogFiles
  <2>3. QED
    BY <1>2, <2>2 DEF LogHeader, memory, counts, ghosts
<1>3. CASE LogFlushBoot
  BY <1>3 DEF LogFlushBoot, LogFlushed, counts
<1>4. CASE LogFlushCheckpoint
  <2>1. acked' \subseteq Ops
    BY <1>4 DEF LogFlushCheckpoint, LogFlushed
  <2>2. generation' \in Nat /\ logLen' \in Nat
    BY <1>4 DEF LogFlushCheckpoint, LogFlushed
  <2>3. dirty' \in BOOLEAN
    BY <1>4 DEF LogFlushCheckpoint, LogFlushed
  <2>4. cur' \in [id : Nat, needs : Nat] /\ active' \in Slots
    BY <1>4, NoOpType, SlotNames DEF LogFlushCheckpoint, Idle
  <2>5. QED
    BY <1>4, <2>1, <2>2, <2>3, <2>4 DEF LogFlushCheckpoint, LogFlushed, Idle, counts
<1>5. CASE LogFlushWipe
  BY <1>5, NoOpType, SlotNames DEF LogFlushWipe, LogFlushed, Idle, counts
<1>6. QED
  BY <1>1, <1>2, <1>3, <1>4, <1>5 DEF LogReset

\* OpfsStore.checkpoint keeps the types.
LEMMA CheckpointType == TypeInv /\ Checkpoint => TypeInv'
<1> SUFFICES ASSUME TypeInv, Checkpoint PROVE TypeInv'
  OBVIOUS
<1> USE DEF TypeInv, TypeOK, PCs, MutationSteps
<1>1. CASE CheckpointSync
  BY <1>1 DEF CheckpointSync, counts, ghosts
<1>2. CASE SlotTruncate
  BY <1>2, NoSlotType DEF SlotTruncate, memory, counts, ghosts
<1>3. CASE SlotWrite
  <2>1. [gen |-> generation + 1, tree |-> tree] \in SlotFiles
    BY DEF SlotFiles
  <2>2. QED
    BY <1>3, <2>1 DEF SlotWrite, memory, counts, ghosts
<1>4. CASE SlotFlush
  <2>1. Other(active) \in Slots
    BY DEF Other, Slots
  <2>2. QED
    BY <1>4, <2>1 DEF SlotFlush, memory, counts, ghosts
<1>5. QED
  BY <1>1, <1>2, <1>3, <1>4 DEF Checkpoint

\* Logging and applying a mutation keeps the types.
LEMMA MutationType == TypeInv /\ Mutation => TypeInv'
<1> SUFFICES ASSUME TypeInv, Mutation PROVE TypeInv'
  OBVIOUS
<1>0. cur.id \in Ops
  BY DEF TypeInv, MutationSteps, Mutation, PlanAppend, PlanFlush, Apply, Commit
<1> USE DEF TypeInv, TypeOK, PCs, MutationSteps
<1>1. CASE PlanAppend
  BY <1>0, <1>1, AppendRecordType DEF PlanAppend, counts, ghosts
<1>2. CASE PlanFlush
  BY <1>2 DEF PlanFlush, counts, ghosts
<1>3. CASE Apply
  BY <1>0, <1>3 DEF Apply, disk, counts
<1>4. CASE Commit
  BY <1>0, <1>4, AppendRecordType, NoOpType DEF Commit, Idle, counts
<1>5. QED
  BY <1>1, <1>2, <1>3, <1>4 DEF Mutation

\* OpfsStore.reset keeps the types.
LEMMA WipeType == TypeInv /\ Wipe => TypeInv'
<1> SUFFICES ASSUME TypeInv, Wipe PROVE TypeInv'
  OBVIOUS
<1> USE DEF TypeInv, TypeOK, PCs, MutationSteps
<1>1. ASSUME NEW s \in Slots, NEW at, NEW next \in PCs \ MutationSteps,
             at \in PCs \ MutationSteps, at \notin {"serving", "down"},
             WipeTruncate(s, at, next)
      PROVE  TypeInv'
  BY <1>1, NoSlotType DEF WipeTruncate, memory, counts, ghosts
<1>2. ASSUME NEW s \in Slots, NEW at, NEW next \in PCs \ MutationSteps,
             at \in PCs \ MutationSteps, at \notin {"serving", "down"},
             WipeFlush(s, at, next)
      PROVE  TypeInv'
  BY <1>2 DEF WipeFlush, memory, counts, ghosts
<1>3. "a" \in Slots /\ "b" \in Slots
  BY DEF Slots
<1>4. QED
  BY <1>1, <1>2, <1>3 DEF Wipe

\* Accepting a request, sync and close keep the types.
LEMMA RequestType ==
  TypeInv /\ (\/ \E needs \in {0} \cup tree : Begin(needs)
             \/ BeginCheckpoint \/ Sync \/ BeginWipe \/ Close) => TypeInv'
<1> SUFFICES ASSUME TypeInv,
                    \/ \E needs \in {0} \cup tree : Begin(needs)
                    \/ BeginCheckpoint \/ Sync \/ BeginWipe \/ Close
             PROVE  TypeInv'
  OBVIOUS
<1> USE DEF TypeInv, TypeOK, PCs, MutationSteps
<1>1. ASSUME NEW needs \in {0} \cup tree, Begin(needs) PROVE TypeInv'
  BY <1>1 DEF Begin, Ops, disk, memory, ghosts
<1>2. CASE BeginCheckpoint
  BY <1>2 DEF BeginCheckpoint, disk, memory, counts, ghosts
<1>3. CASE Sync
  BY <1>3 DEF Sync, counts, ghosts
<1>4. CASE BeginWipe
  BY <1>4 DEF BeginWipe, disk, ghosts
<1>5. CASE Close
  BY <1>5, ForgetType DEF Close, disk, counts, ghosts
<1>6. QED
  BY <1>1, <1>2, <1>3, <1>4, <1>5

\* A failing disk call keeps the types.
LEMMA FailType == TypeInv /\ Fail => TypeInv'
<1> SUFFICES ASSUME TypeInv, Fail PROVE TypeInv'
  OBVIOUS
<1> USE DEF TypeInv, TypeOK, PCs, MutationSteps
<1>1. CASE Forget
  <2>1. faults' \in Nat
    BY DEF Fail
  <2>2. QED
    BY <1>1, <2>1, ForgetType DEF Fail, disk, ghosts
<1>2. CASE Idle /\ UNCHANGED <<ret, memory>>
  BY <1>2, NoOpType DEF Fail, Idle, disk, memory, ghosts
<1>3. QED
  BY <1>1, <1>2 DEF Fail

\* A crash keeps the types.
LEMMA CrashType == TypeInv /\ Crash => TypeInv'
<1> SUFFICES ASSUME TypeInv, Crash PROVE TypeInv'
  OBVIOUS
<1>1. PICK sl \in SlotOutcomes, w \in LogOutcomes :
        /\ slot' = sl /\ slotD' = sl /\ wal' = w /\ walD' = w
        /\ acked' = acked \cap Recovered(sl, w)
  BY DEF Crash
<1>2. sl \in [Slots -> SlotFiles] /\ w \in LogFiles
  BY SlotOutcomesType, LogOutcomesType DEF TypeInv
<1>3. /\ slot' \in [Slots -> SlotFiles] /\ slotD' \in [Slots -> SlotFiles]
      /\ wal' \in LogFiles /\ walD' \in LogFiles
  BY <1>1, <1>2
<1>4. acked' \subseteq Ops
  BY <1>1 DEF TypeInv, TypeOK
<1>5. crashes' \in Nat
  BY DEF Crash, TypeInv, TypeOK
<1>6. QED
  BY <1>3, <1>4, <1>5, ForgetType
     DEF Crash, TypeInv, TypeOK, PCs, MutationSteps

\* Every step keeps the types.
LEMMA TypeNext == TypeInv /\ [Next]_vars => TypeInv'
<1>1. TypeInv /\ UNCHANGED vars => TypeInv'
  BY DEF TypeInv, TypeOK, vars, disk, memory, counts, ghosts
<1>2. QED
  BY <1>1, RecoverType, LogResetType, CheckpointType, MutationType, WipeType,
     RequestType, FailType, CrashType DEF Next, Worker

\* The types, and the mutation a mutation step works on, for every bound: what the
\* other inductive invariants rest on.
THEOREM TypeInvHolds == Spec => []TypeInv
BY TypeInit, TypeNext, PTL DEF Spec

\* Every variable of the durable store keeps its type, whatever the bounds.
THEOREM TypeCorrect == Spec => []TypeOK
<1>1. TypeInv => TypeOK
  BY DEF TypeInv
<1>2. QED
  BY <1>1, TypeInvHolds, PTL

-----------------------------------------------------------------------------
(* Nothing unapplied is recovered.  The strengthening: every tree, in       *)
(* memory or in a slot, and every commit record holds only mutations that  *)
(* reached the tree; a mutation about to be committed has reached it.      *)

CommitsIn(w, S) ==
  \A i \in DOMAIN w.recs : w.recs[i].kind = "commit" => w.recs[i].id \in S

\* Every copy of the tree and every commit record is within S.
FilesWithin(S) ==
  /\ \A s \in Slots : slot[s].tree \subseteq S /\ slotD[s].tree \subseteq S
  /\ CommitsIn(wal, S) /\ CommitsIn(walD, S)

AppliedInv ==
  /\ TypeInv
  /\ tree \subseteq applied
  /\ FilesWithin(applied)
  /\ pc = "commit" => cur.id \in applied

\* An empty log commits nothing.
LEMMA NoCommitsInNoLog == \A S, g : CommitsIn(NoLog, S) /\ CommitsIn([gen |-> g, recs |-> <<>>], S)
BY DEF CommitsIn, NoLog

\* An unreadable slot holds nothing.
LEMMA NoSlotIsEmpty == NoSlot.tree = {}
BY DEF NoSlot

\* What holds of the files holds of what a crash makes of them.
LEMMA OutcomesWithin ==
  ASSUME TypeOK, NEW S, FilesWithin(S), NEW sl \in SlotOutcomes, NEW w \in LogOutcomes
  PROVE  /\ sl \in [Slots -> SlotFiles] /\ w \in LogFiles
         /\ \A s \in Slots : sl[s].tree \subseteq S
         /\ CommitsIn(w, S)
         /\ Recovered(sl, w) \subseteq S
<1>1. sl \in [Slots -> SlotFiles] /\ w \in LogFiles
  BY SlotOutcomesType, LogOutcomesType
<1>2. \A s \in Slots : sl[s].tree \subseteq S
  BY SlotOutcomeIsOneOfThree, NoSlotIsEmpty DEF FilesWithin
<1>3. CommitsIn(w, S)
  <2>1. CASE w = NoLog
    BY <2>1, NoCommitsInNoLog
  <2>2. CASE w = walD
    BY <2>2 DEF FilesWithin
  <2>3. ASSUME NEW n \in Nat, w \in Prefixes(wal, n) PROVE CommitsIn(w, S)
    BY <2>3, PrefixOfLog DEF FilesWithin, CommitsIn, TypeOK
  <2>4. w = NoLog \/ w = walD \/ \E n \in Nat : w \in Prefixes(wal, n)
    BY LogOutcomeIsOneOfThree
  <2>5. QED
    BY <2>1, <2>2, <2>3, <2>4
<1>4. Recovered(sl, w) \subseteq S
  BY <1>1, <1>2, <1>3, RecoveredWithin DEF CommitsIn
<1>5. QED
  BY <1>1, <1>2, <1>3, <1>4

\* A recovery from the files as they are finds nothing outside S.
LEMMA RecoveryWithin ==
  ASSUME TypeOK, NEW S, FilesWithin(S)
  PROVE  Recovered(slot, wal) \subseteq S
<1>1. slot \in [Slots -> SlotFiles] /\ wal \in LogFiles
  BY DEF TypeOK
<1>2. QED
  BY <1>1, RecoveredWithin DEF FilesWithin, CommitsIn

\* A commit record is the only one that can bring something into the log.
LEMMA AppendWithin ==
  ASSUME TypeOK, cur.id \in Ops, NEW kind \in {"plan", "commit"}, NEW S,
         CommitsIn(wal, S), kind = "commit" => cur.id \in S
  PROVE  CommitsIn(AppendRecord(wal, kind), S)
BY AppendRecordType DEF CommitsIn

\* The steps that only move what is there between memory and the files.
LEMMA MovesWithin ==
  ASSUME TypeInv, NEW S, FilesWithin(S), tree \subseteq S,
         LogReset \/ Checkpoint \/ Wipe \/ PlanFlush \/ Sync
  PROVE  FilesWithin(S)' /\ tree' \subseteq S
<1> USE DEF FilesWithin
<1>0. slot \in [Slots -> SlotFiles] /\ slotD \in [Slots -> SlotFiles]
  BY DEF TypeInv, TypeOK
<1>1. CASE LogTruncate
  BY <1>1, NoCommitsInNoLog DEF LogTruncate, memory, CommitsIn
<1>2. CASE LogHeader
  BY <1>2, NoCommitsInNoLog DEF LogHeader, memory, CommitsIn
<1>3. CASE LogFlushed
  BY <1>3 DEF LogFlushed, CommitsIn
<1>4. CASE CheckpointSync
  BY <1>4 DEF CheckpointSync, CommitsIn
<1>5. CASE SlotTruncate
  BY <1>0, <1>5, NoSlotIsEmpty DEF SlotTruncate, memory, CommitsIn
<1>6. CASE SlotWrite
  BY <1>0, <1>6 DEF SlotWrite, memory, CommitsIn
<1>7. CASE SlotFlush
  BY <1>0, <1>7, SlotNames DEF SlotFlush, memory, CommitsIn, TypeInv, TypeOK
<1>8. CASE Wipe
  <2>1. ASSUME NEW s \in Slots, NEW at, NEW next, WipeTruncate(s, at, next)
        PROVE  FilesWithin(S)' /\ tree' \subseteq S
    BY <1>0, <2>1, NoSlotIsEmpty DEF WipeTruncate, memory, CommitsIn
  <2>2. ASSUME NEW s \in Slots, NEW at, NEW next, WipeFlush(s, at, next)
        PROVE  FilesWithin(S)' /\ tree' \subseteq S
    BY <1>0, <2>2 DEF WipeFlush, memory, CommitsIn
  <2>3. QED
    BY <1>8, <2>1, <2>2, SlotNames DEF Wipe
<1>9. CASE PlanFlush
  BY <1>9 DEF PlanFlush, CommitsIn
<1>10. CASE Sync
  BY <1>10 DEF Sync, CommitsIn
<1>11. QED
  BY <1>1, <1>2, <1>3, <1>4, <1>5, <1>6, <1>7, <1>8, <1>9, <1>10
     DEF LogReset, Checkpoint, LogFlushBoot, LogFlushCheckpoint, LogFlushWipe

\* The empty store holds nothing that was not applied.
LEMMA AppliedInit == Init => AppliedInv
<1> SUFFICES ASSUME Init PROVE AppliedInv
  OBVIOUS
<1>1. FilesWithin(applied)
  BY NoCommitsInNoLog, NoSlotIsEmpty DEF Init, FilesWithin
<1>2. QED
  BY <1>1, TypeInit DEF Init, AppliedInv

\* No step of the worker, of a fault or of a crash puts an unapplied mutation
\* within reach of a recovery: a commit record follows the apply.
LEMMA AppliedNext == AppliedInv /\ [Next]_vars => AppliedInv'
<1> SUFFICES ASSUME AppliedInv, [Next]_vars PROVE AppliedInv'
  OBVIOUS
<1>0. TypeInv' /\ TypeInv /\ TypeOK
  BY TypeNext DEF AppliedInv, TypeInv
<1>1. CASE Recover
  <2>1. tree' \subseteq applied
    BY <1>0, <1>1, RecoveryWithin DEF Recover, AppliedInv
  <2>2. QED
    BY <1>0, <1>1, <2>1 DEF Recover, AppliedInv, FilesWithin, CommitsIn, disk, ghosts
<1>2. CASE LogReset \/ Checkpoint \/ Wipe \/ PlanFlush \/ Sync
  <2>1. applied' = applied /\ pc' # "commit"
    BY <1>2 DEF LogReset, LogTruncate, LogHeader, LogFlushBoot, LogFlushCheckpoint,
       LogFlushWipe, LogFlushed, Checkpoint, CheckpointSync, SlotTruncate, SlotWrite,
       SlotFlush, Wipe, WipeTruncate, WipeFlush, PlanFlush, Sync, Idle, ghosts
  <2>2. \A S : FilesWithin(S) /\ tree \subseteq S => FilesWithin(S)' /\ tree' \subseteq S
    BY <1>0, <1>2, MovesWithin
  <2>3. FilesWithin(applied)' /\ tree' \subseteq applied'
    BY <2>1, <2>2 DEF AppliedInv, FilesWithin, CommitsIn
  <2>4. QED
    BY <1>0, <2>1, <2>3 DEF AppliedInv
<1>3. CASE PlanAppend
  <2>1. CommitsIn(wal', applied)
    <3>1. cur.id \in Ops
      BY <1>0, <1>3 DEF TypeInv, MutationSteps, PlanAppend
    <3>2. QED
      BY <1>0, <1>3, <3>1, AppendWithin DEF PlanAppend, AppliedInv, FilesWithin
  <2>2. QED
    BY <1>0, <1>3, <2>1 DEF PlanAppend, AppliedInv, FilesWithin, CommitsIn, counts, ghosts
<1>4. CASE Apply
  BY <1>0, <1>4 DEF Apply, AppliedInv, FilesWithin, CommitsIn, disk, counts
<1>5. CASE Commit
  <2>1. CommitsIn(wal', applied)
    <3>1. cur.id \in Ops
      BY <1>0, <1>5 DEF TypeInv, MutationSteps, Commit
    <3>2. QED
      BY <1>0, <1>5, <3>1, AppendWithin DEF Commit, AppliedInv, FilesWithin
  <2>2. QED
    BY <1>0, <1>5, <2>1 DEF Commit, Idle, AppliedInv, FilesWithin, CommitsIn, counts
<1>6. ASSUME NEW needs \in {0} \cup tree, Begin(needs) PROVE AppliedInv'
  BY <1>0, <1>6 DEF Begin, AppliedInv, FilesWithin, CommitsIn, disk, memory, ghosts
<1>7. CASE BeginCheckpoint
  BY <1>0, <1>7 DEF BeginCheckpoint, AppliedInv, FilesWithin, CommitsIn, disk, memory, ghosts
<1>8. CASE BeginWipe
  BY <1>0, <1>8 DEF BeginWipe, AppliedInv, FilesWithin, CommitsIn, disk, ghosts
<1>9. CASE Close
  BY <1>0, <1>9, ForgetType
     DEF Close, Forget, AppliedInv, FilesWithin, CommitsIn, disk, ghosts
<1>10. CASE Fail
  BY <1>0, <1>10 DEF Fail, Forget, Idle, AppliedInv, FilesWithin, CommitsIn, disk, memory, ghosts
<1>11. CASE Crash
  <2>1. PICK sl \in SlotOutcomes, w \in LogOutcomes :
          slot' = sl /\ slotD' = sl /\ wal' = w /\ walD' = w
    BY <1>11 DEF Crash
  <2>2. /\ \A s \in Slots : sl[s].tree \subseteq applied
        /\ CommitsIn(w, applied)
    BY <1>0, OutcomesWithin DEF AppliedInv
  <2>3. tree' = {} /\ pc' = "down" /\ applied' = applied
    BY <1>11 DEF Crash, Forget
  <2>4. QED
    BY <1>0, <2>1, <2>2, <2>3 DEF AppliedInv, FilesWithin, CommitsIn
<1>12. CASE UNCHANGED vars
  BY <1>0, <1>12
     DEF vars, disk, memory, ghosts, AppliedInv, FilesWithin, CommitsIn
<1>13. QED
  BY <1>1, <1>2, <1>3, <1>4, <1>5, <1>6, <1>7, <1>8, <1>9, <1>10, <1>11, <1>12
     DEF Next, Worker, Mutation

\* The files and the tree never hold a mutation that was not applied, nor the log
\* its commit record: the invariant behind NothingUnapplied.
THEOREM AppliedInvHolds == Spec => []AppliedInv
BY AppliedInit, AppliedNext, PTL DEF Spec

\* Whatever fails and wherever the tab or the machine dies, a boot never brings
\* up a mutation that was refused, or whose log write failed.
THEOREM NothingUnappliedHolds == Spec => []NothingUnapplied
<1>1. AppliedInv => NothingUnapplied
  BY OutcomesWithin DEF AppliedInv, TypeInv, NothingUnapplied
<1>2. QED
  BY <1>1, AppliedInvHolds, PTL

-----------------------------------------------------------------------------
(* A reset is final.  The strengthening: no file, tree or mutation in      *)
(* flight holds anything a completed reset destroyed, and a reset has      *)
(* emptied what it has passed.                                             *)

WipeSteps == {"wipeA.truncate", "wipeA.flush", "wipeB.truncate", "wipeB.flush"}
LogSteps  == {"log.truncate", "log.header", "log.flush"}
SlotSteps == {"ckpt.sync", "slot.truncate", "slot.write", "slot.flush"}

Wiped(s) == slot[s].tree = {} /\ slotD[s].tree = {}

\* How far a reset has come, by the step it is at.
WipeProgress ==
  /\ pc \in WipeSteps => ret = "wipe"
  /\ pc \in SlotSteps => ret \in {"mount", "op", "ctl"}
  /\ ret = "wipe" /\ pc \in WipeSteps \cup LogSteps => tree = {}
  /\ pc = "wipeA.flush" => slot["a"].tree = {}
  /\ pc \in {"wipeB.truncate", "wipeB.flush"} => Wiped("a")
  /\ pc = "wipeB.flush" => slot["b"].tree = {}
  /\ ret = "wipe" /\ pc \in LogSteps => Wiped("a") /\ Wiped("b")
  /\ pc = "log.flush" => wal.recs = <<>>

\* Every mutation was numbered before the next one, and the lost ones are gone
\* from everywhere.
GoneInv ==
  /\ \A x \in applied : x < nextId
  /\ gone \subseteq applied
  /\ FilesWithin(Ops \ gone)
  /\ tree \subseteq Ops \ gone
  /\ pc \in MutationSteps => cur.id \notin gone /\ cur.id < nextId

WipeInv == AppliedInv /\ WipeProgress /\ GoneInv

\* A wipe that has got to its k-th disk call has emptied what comes before it.
LEMMA WipeProgressNext ==
  ASSUME TypeInv, WipeProgress, [Next]_vars
  PROVE  WipeProgress'
<1> USE DEF WipeProgress, WipeSteps, LogSteps, SlotSteps, Wiped
<1>0. /\ slot \in [Slots -> SlotFiles] /\ slotD \in [Slots -> SlotFiles]
      /\ "a" \in Slots /\ "b" \in Slots
  BY SlotNames DEF TypeInv, TypeOK
<1>1. CASE Recover
  BY <1>1 DEF Recover
<1>2. CASE LogReset
  <2>1. CASE LogTruncate
    BY <2>1 DEF LogTruncate, memory
  <2>2. CASE LogHeader
    BY <2>2 DEF LogHeader, memory
  <2>3. CASE LogFlushBoot \/ LogFlushCheckpoint \/ LogFlushWipe
    BY <2>3 DEF LogFlushBoot, LogFlushCheckpoint, LogFlushWipe, LogFlushed, Idle
  <2>4. QED
    BY <1>2, <2>1, <2>2, <2>3 DEF LogReset
<1>3. CASE Checkpoint
  BY <1>3 DEF Checkpoint, CheckpointSync, SlotTruncate, SlotWrite, SlotFlush
<1>4. CASE Mutation
  BY <1>4 DEF Mutation, PlanAppend, PlanFlush, Apply, Commit, Idle, TypeInv, MutationSteps
<1>5. CASE Wipe
  <2>1. CASE WipeTruncate("a", "wipeA.truncate", "wipeA.flush")
    BY <1>0, <2>1, NoSlotIsEmpty DEF WipeTruncate, memory
  <2>2. CASE WipeFlush("a", "wipeA.flush", "wipeB.truncate")
    BY <1>0, <2>2 DEF WipeFlush, memory
  <2>3. CASE WipeTruncate("b", "wipeB.truncate", "wipeB.flush")
    BY <1>0, <2>3, NoSlotIsEmpty DEF WipeTruncate, memory
  <2>4. CASE WipeFlush("b", "wipeB.flush", "log.truncate")
    BY <1>0, <2>4 DEF WipeFlush, memory
  <2>5. QED
    BY <1>5, <2>1, <2>2, <2>3, <2>4 DEF Wipe
<1>6. CASE \E needs \in {0} \cup tree : Begin(needs)
  BY <1>6 DEF Begin
<1>7. CASE BeginCheckpoint \/ Sync \/ BeginWipe \/ Close
  BY <1>7 DEF BeginCheckpoint, Sync, BeginWipe, Close, Forget
<1>8. CASE Fail \/ Crash
  BY <1>8 DEF Fail, Crash, Forget, Idle
<1>9. CASE UNCHANGED vars
  BY <1>9 DEF vars, disk, memory
<1>10. QED
  BY <1>1, <1>2, <1>3, <1>4, <1>5, <1>6, <1>7, <1>8, <1>9 DEF Next, Worker

\* Nothing has been wiped from the empty store.
LEMMA WipeInit == Init => WipeInv
<1> SUFFICES ASSUME Init PROVE WipeInv
  OBVIOUS
<1>1. FilesWithin(Ops \ gone)
  BY NoCommitsInNoLog, NoSlotIsEmpty DEF Init, FilesWithin
<1>2. QED
  BY <1>1, AppliedInit
     DEF Init, WipeInv, WipeProgress, GoneInv, WipeSteps, LogSteps, SlotSteps, MutationSteps

\* No step brings a wiped mutation back into a file, a log or the tree.
LEMMA GoneNext ==
  ASSUME WipeInv, [Next]_vars
  PROVE  GoneInv'
<1> DEFINE S == Ops \ gone
<1>0. /\ TypeInv /\ TypeOK /\ applied \subseteq Ops /\ nextId \in Nat /\ gone \subseteq applied
      /\ FilesWithin(S) /\ tree \subseteq S
      /\ \A x \in applied : x < nextId
      /\ pc \in MutationSteps => cur.id \in S /\ cur.id < nextId
  <2>1. TypeInv /\ TypeOK /\ GoneInv
    BY DEF WipeInv, AppliedInv, TypeInv
  <2>2. applied \subseteq Ops /\ nextId \in Nat
    BY <2>1 DEF TypeOK, Ops
  <2>3. pc \in MutationSteps => cur.id \in Ops
    BY <2>1 DEF TypeInv, MutationSteps
  <2>4. QED
    BY <2>1, <2>2, <2>3 DEF GoneInv
<1>1. CASE Recover
  <2>1. tree' \subseteq S
    BY <1>0, <1>1, RecoveryWithin DEF Recover
  <2>2. QED
    BY <1>0, <1>1, <2>1
       DEF Recover, GoneInv, FilesWithin, CommitsIn, disk, counts, ghosts, MutationSteps
<1>2. CASE LogTruncate \/ LogHeader \/ LogFlushBoot \/ LogFlushCheckpoint
           \/ Checkpoint \/ Wipe \/ PlanFlush \/ Sync
  <2>1. /\ applied' = applied /\ gone' = gone /\ nextId' = nextId
        /\ pc' \in MutationSteps => pc \in MutationSteps /\ cur' = cur
    BY <1>2 DEF LogTruncate, LogHeader, LogFlushBoot, LogFlushCheckpoint,
       LogFlushed, Checkpoint, CheckpointSync, SlotTruncate, SlotWrite,
       SlotFlush, Wipe, WipeTruncate, WipeFlush, PlanFlush, Sync, Idle, ghosts, counts,
       MutationSteps
  <2>2. \A T : FilesWithin(T) /\ tree \subseteq T => FilesWithin(T)' /\ tree' \subseteq T
    BY <1>0, <1>2, MovesWithin DEF LogReset
  <2>3. FilesWithin(Ops \ gone)' /\ tree' \subseteq S
    BY <1>0, <2>1, <2>2 DEF FilesWithin, CommitsIn
  <2>4. QED
    BY <1>0, <2>1, <2>3 DEF GoneInv
<1>3. CASE LogFlushWipe
  <2>1. /\ gone' = applied /\ applied' = applied /\ nextId' = nextId
        /\ slot' = slot /\ slotD' = slotD /\ tree' = tree /\ wal' = wal /\ walD' = wal
        /\ pc' = "serving"
    BY <1>3 DEF LogFlushWipe, LogFlushed, Idle, counts
  <2>2. /\ \A s \in Slots : slot[s].tree = {} /\ slotD[s].tree = {}
        /\ tree = {} /\ wal.recs = <<>>
    BY <1>3 DEF WipeInv, WipeProgress, LogFlushWipe, LogFlushed, WipeSteps, LogSteps,
       Wiped, Slots
  <2>3. FilesWithin(Ops \ gone)'
    BY <2>1, <2>2 DEF FilesWithin, CommitsIn
  <2>4. QED
    BY <1>0, <2>1, <2>2, <2>3 DEF GoneInv, MutationSteps
<1>4. CASE PlanAppend
  <2>1. CommitsIn(wal', S)
    BY <1>0, <1>4, AppendWithin DEF PlanAppend, FilesWithin, MutationSteps
  <2>2. QED
    BY <1>0, <1>4, <2>1 DEF PlanAppend, GoneInv, FilesWithin, CommitsIn, counts, ghosts,
       MutationSteps
<1>5. CASE Apply
  BY <1>0, <1>5 DEF Apply, GoneInv, FilesWithin, CommitsIn, disk, counts, MutationSteps
<1>6. CASE Commit
  <2>1. CommitsIn(wal', S)
    BY <1>0, <1>6, AppendWithin DEF Commit, FilesWithin, MutationSteps
  <2>2. QED
    BY <1>0, <1>6, <2>1 DEF Commit, Idle, GoneInv, FilesWithin, CommitsIn, counts,
       MutationSteps
<1>7. ASSUME NEW needs \in {0} \cup tree, Begin(needs) PROVE GoneInv'
  <2>1. cur'.id = nextId /\ nextId' = nextId + 1 /\ UNCHANGED <<applied, gone, disk, tree>>
    BY <1>7 DEF Begin, memory, ghosts
  <2>2. nextId \notin gone /\ \A x \in applied : x < nextId'
    BY <1>0, <2>1 DEF Ops
  <2>3. QED
    BY <1>0, <2>1, <2>2 DEF GoneInv, FilesWithin, CommitsIn, disk
<1>8. CASE BeginCheckpoint \/ BeginWipe
  BY <1>0, <1>8 DEF BeginCheckpoint, BeginWipe, GoneInv, FilesWithin, CommitsIn, disk,
     memory, counts, ghosts, MutationSteps
<1>9. CASE Close \/ Fail
  BY <1>0, <1>9 DEF Close, Fail, Forget, Idle, GoneInv, FilesWithin, CommitsIn, disk,
     memory, counts, ghosts, MutationSteps
<1>10. CASE Crash
  <2>1. PICK sl \in SlotOutcomes, w \in LogOutcomes :
          slot' = sl /\ slotD' = sl /\ wal' = w /\ walD' = w
    BY <1>10 DEF Crash
  <2>2. /\ \A s \in Slots : sl[s].tree \subseteq S
        /\ CommitsIn(w, S)
    BY <1>0, OutcomesWithin
  <2>3. tree' = {} /\ pc' = "down" /\ UNCHANGED <<applied, gone, nextId>>
    BY <1>10 DEF Crash, Forget
  <2>4. QED
    BY <1>0, <2>1, <2>2, <2>3 DEF GoneInv, FilesWithin, CommitsIn, MutationSteps
<1>11. CASE UNCHANGED vars
  BY <1>0, <1>11
     DEF vars, disk, memory, counts, ghosts, GoneInv, FilesWithin, CommitsIn
<1>12. QED
  BY <1>1, <1>2, <1>3, <1>4, <1>5, <1>6, <1>7, <1>8, <1>9, <1>10, <1>11
     DEF Next, Worker, Mutation, LogReset

\* What a completed Reset-FileSystem destroyed is in no file, log or tree: the
\* invariant behind WipeIsFinal.
THEOREM WipeInvHolds == Spec => []WipeInv
<1>1. WipeInv /\ [Next]_vars => WipeInv'
  BY AppliedNext, WipeProgressNext, GoneNext DEF WipeInv, AppliedInv
<1>2. QED
  BY <1>1, WipeInit, PTL DEF Spec

\* Reset-FileSystem is final: whatever crash, disk error, boot or checkpoint
\* follows, no mutation made before it is ever recovered again.
THEOREM WipeIsFinalHolds == Spec => []WipeIsFinal
<1>1. WipeInv => WipeIsFinal
  <2> SUFFICES ASSUME WipeInv, NEW sl \in SlotOutcomes, NEW w \in LogOutcomes
               PROVE  Recovered(sl, w) \cap gone = {}
    BY DEF WipeIsFinal
  <2>1. TypeOK /\ FilesWithin(Ops \ gone)
    BY DEF WipeInv, AppliedInv, TypeInv, GoneInv
  <2>2. Recovered(sl, w) \subseteq Ops \ gone
    BY <2>1, OutcomesWithin
  <2>3. QED
    BY <2>2
<1>2. QED
  BY <1>1, WipeInvHolds, PTL

-----------------------------------------------------------------------------
(* The two slots.  The strengthening: what the slot being written and the  *)
(* active slot hold at each step of a checkpoint, and which of the two may *)
(* have unflushed bytes.                                                   *)

Unwritten(s) == slot[s].gen = 0 /\ slotD[s].gen = 0

\* How far a checkpoint or a reset has come with the slots.
SlotProgress ==
  /\ pc = "slot.flush" => slot[Other(active)].gen = generation + 1
  /\ pc \in LogSteps /\ ret \in {"mount", "op", "ctl"} =>
       /\ slot[Other(active)] = slotD[Other(active)]
       /\ slot[Other(active)].gen = generation + 1
  /\ pc = "wipeA.flush" => slot["a"].gen = 0
  /\ pc \in {"wipeB.truncate", "wipeB.flush"} => Unwritten("a")
  /\ pc = "wipeB.flush" => slot["b"].gen = 0
  /\ ret = "wipe" /\ pc \in LogSteps => Unwritten("a") /\ Unwritten("b")
  /\ ret = "wipe" => wipes > 0

\* The active slot is the flushed checkpoint the store runs on.
ActiveIsFlushed ==
  Kept => slot[active] = slotD[active] /\ slot[active].gen = generation

\* Without disk errors: only the slot that is being written has unflushed bytes,
\* and the active one is no newer than the store thinks.
HealthySlots ==
  faults = 0 =>
    /\ \A s \in Slots :
         \/ slot[s] = slotD[s]
         \/ pc \in {"slot.write", "slot.flush"} /\ s = Other(active)
         \/ pc = "wipeA.flush" /\ s = "a"
         \/ pc = "wipeB.flush" /\ s = "b"
    /\ pc # "down" => slot[active].gen <= generation /\ slotD[active].gen <= generation
    /\ \A x \in {slot["a"], slotD["a"]}, y \in {slot["b"], slotD["b"]} :
         x.gen = y.gen => x.gen = 0

SlotInv == TypeInv /\ WipeProgress /\ SlotProgress /\ ActiveIsFlushed /\ HealthySlots

\* The slot a checkpoint writes is not the active one, and the next one swaps back.
LEMMA OtherIsOther == \A s \in Slots : Other(s) \in Slots /\ Other(s) # s /\ Other(Other(s)) = s
BY DEF Slots, Other

\* The generations of the slots, read or flushed, are naturals.
LEMMA SlotTypes ==
  ASSUME TypeInv
  PROVE  /\ slot \in [Slots -> SlotFiles] /\ slotD \in [Slots -> SlotFiles]
         /\ \A s \in Slots : slot[s].gen \in Nat /\ slotD[s].gen \in Nat
         /\ generation \in Nat /\ active \in Slots /\ Other(active) \in Slots
         /\ wipes \in Nat /\ faults \in Nat /\ "a" \in Slots /\ "b" \in Slots
<1>1. \A x \in SlotFiles : x.gen \in Nat
  BY DEF SlotFiles
<1>2. slot \in [Slots -> SlotFiles] /\ slotD \in [Slots -> SlotFiles]
  BY DEF TypeInv, TypeOK
<1>3. \A s \in Slots : slot[s].gen \in Nat /\ slotD[s].gen \in Nat
  BY <1>1, <1>2
<1>4. QED
  BY <1>2, <1>3, SlotNames DEF TypeInv, TypeOK

\* How far a checkpoint has got shows in the slot it writes.
LEMMA SlotProgressNext ==
  ASSUME TypeInv, WipeProgress, SlotProgress, [Next]_vars
  PROVE  SlotProgress'
<1> USE DEF SlotProgress, Unwritten, LogSteps
<1>0. /\ slot \in [Slots -> SlotFiles] /\ slotD \in [Slots -> SlotFiles]
      /\ "a" \in Slots /\ "b" \in Slots /\ Other(active) \in Slots
      /\ generation \in Nat /\ wipes \in Nat
  BY SlotTypes
<1>1. CASE Recover
  BY <1>1 DEF Recover, counts
<1>2. CASE LogTruncate \/ LogHeader
  BY <1>2 DEF LogTruncate, LogHeader, memory, counts
<1>3. CASE LogFlushBoot \/ LogFlushCheckpoint \/ LogFlushWipe
  BY <1>3 DEF LogFlushBoot, LogFlushCheckpoint, LogFlushWipe, LogFlushed, Idle, counts
<1>4. CASE CheckpointSync
  BY <1>4 DEF CheckpointSync, counts
<1>5. CASE SlotTruncate
  BY <1>0, <1>5 DEF SlotTruncate, memory, counts
<1>6. CASE SlotWrite
  BY <1>0, <1>6 DEF SlotWrite, memory, counts
<1>7. CASE SlotFlush
  BY <1>0, <1>7 DEF SlotFlush, memory, counts, WipeProgress, SlotSteps
<1>8. CASE Mutation
  BY <1>8 DEF Mutation, PlanAppend, PlanFlush, Apply, Commit, Idle, counts, disk, memory,
     TypeInv, MutationSteps
<1>9. CASE Wipe
  <2>1. CASE WipeTruncate("a", "wipeA.truncate", "wipeA.flush")
    BY <1>0, <2>1 DEF WipeTruncate, memory, counts, WipeProgress, WipeSteps, NoSlot
  <2>2. CASE WipeFlush("a", "wipeA.flush", "wipeB.truncate")
    BY <1>0, <2>2 DEF WipeFlush, memory, counts, WipeProgress, WipeSteps
  <2>3. CASE WipeTruncate("b", "wipeB.truncate", "wipeB.flush")
    BY <1>0, <2>3 DEF WipeTruncate, memory, counts, WipeProgress, WipeSteps, NoSlot
  <2>4. CASE WipeFlush("b", "wipeB.flush", "log.truncate")
    BY <1>0, <2>4 DEF WipeFlush, memory, counts, WipeProgress, WipeSteps
  <2>5. QED
    BY <1>9, <2>1, <2>2, <2>3, <2>4 DEF Wipe
<1>10. CASE \E needs \in {0} \cup tree : Begin(needs)
  BY <1>10 DEF Begin
<1>11. CASE BeginCheckpoint \/ Sync \/ Close
  BY <1>11 DEF BeginCheckpoint, Sync, Close, Forget, counts
<1>12. CASE BeginWipe
  BY <1>0, <1>12 DEF BeginWipe
<1>13. CASE Fail \/ Crash
  BY <1>13 DEF Fail, Crash, Forget, Idle
<1>14. CASE UNCHANGED vars
  BY <1>14 DEF vars, disk, memory, counts
<1>15. QED
  BY <1>1, <1>2, <1>3, <1>4, <1>5, <1>6, <1>7, <1>8, <1>9, <1>10, <1>11, <1>12, <1>13,
     <1>14 DEF Next, Worker, LogReset, Checkpoint

\* The active slot stays flushed and stays the checkpoint the store runs on.
LEMMA ActiveIsFlushedNext ==
  ASSUME TypeInv, WipeProgress, SlotProgress, ActiveIsFlushed, HealthySlots, [Next]_vars
  PROVE  ActiveIsFlushed'
<1> USE DEF ActiveIsFlushed, Kept, Checkpointed, Steady, Booting, Wiping
<1>0. /\ slot \in [Slots -> SlotFiles] /\ slotD \in [Slots -> SlotFiles]
      /\ active \in Slots /\ Other(active) \in Slots /\ Other(active) # active
      /\ generation \in Nat /\ wipes \in Nat /\ faults \in Nat
      /\ "a" \in Slots /\ "b" \in Slots
  BY SlotTypes, OtherIsOther
<1>1. CASE Recover
  <2>1. faults = 0 => \A s \in Slots : slot[s] = slotD[s]
    BY <1>1 DEF Recover, HealthySlots
  <2>2. generation' = slot[Winner(slot)].gen /\ (generation' > 0 => active' = Winner(slot))
    BY <1>0, <1>1, WinnerIsASlot DEF Recover, SlotFiles
  <2>3. ret' = "boot" /\ pc' = "log.truncate" /\ UNCHANGED <<slot, slotD, faults, wipes>>
    BY <1>1 DEF Recover, disk, counts
  <2>4. QED
    BY <2>1, <2>2, <2>3, WinnerIsASlot
<1>2. CASE LogTruncate \/ LogHeader
  BY <1>2 DEF LogTruncate, LogHeader, memory, counts
<1>3. CASE LogFlushBoot \/ LogFlushCheckpoint \/ LogFlushWipe
  BY <1>0, <1>3 DEF LogFlushBoot, LogFlushCheckpoint, LogFlushWipe, LogFlushed, Idle, counts,
     SlotProgress, LogSteps
<1>4. CASE Checkpoint
  BY <1>0, <1>4 DEF Checkpoint, CheckpointSync, SlotTruncate, SlotWrite, SlotFlush, memory,
     counts
<1>5. CASE Mutation
  BY <1>5 DEF Mutation, PlanAppend, PlanFlush, Apply, Commit, Idle, counts, disk, memory,
     TypeInv, MutationSteps
<1>6. CASE Wipe
  BY <1>6 DEF Wipe, WipeTruncate, WipeFlush, memory, counts, WipeProgress, WipeSteps
<1>7. CASE \E needs \in {0} \cup tree : Begin(needs)
  BY <1>7 DEF Begin, disk, memory
<1>8. CASE BeginCheckpoint \/ Sync \/ Close
  BY <1>8 DEF BeginCheckpoint, Sync, Close, Forget, counts, disk, memory
<1>9. CASE BeginWipe
  BY <1>9 DEF BeginWipe
<1>10. CASE Fail
  BY <1>0, <1>10 DEF Fail, Forget, Idle, SlotProgress, memory, disk, DiskSteps
<1>11. CASE Crash
  BY <1>11 DEF Crash, Forget
<1>12. CASE UNCHANGED vars
  BY <1>12 DEF vars, disk, memory, counts
<1>13. QED
  BY <1>1, <1>2, <1>3, <1>4, <1>5, <1>6, <1>7, <1>8, <1>9, <1>10, <1>11, <1>12
     DEF Next, Worker, LogReset

\* Without disk errors the other slot is older, or the new checkpoint.
LEMMA HealthySlotsNext ==
  ASSUME TypeInv, WipeProgress, SlotProgress, HealthySlots, [Next]_vars
  PROVE  HealthySlots'
<1> USE DEF HealthySlots
<1>0. /\ slot \in [Slots -> SlotFiles] /\ slotD \in [Slots -> SlotFiles]
      /\ \A s \in Slots : slot[s].gen \in Nat /\ slotD[s].gen \in Nat
      /\ active \in Slots /\ Other(active) \in Slots /\ Other(active) # active
      /\ generation \in Nat /\ faults \in Nat
      /\ Slots = {"a", "b"} /\ "a" \in Slots /\ "b" \in Slots
      /\ NoSlot.gen = 0
  BY SlotTypes, OtherIsOther DEF Slots, NoSlot
<1>1. CASE Recover
  <2>1. CASE faults = 0
    <3>1. \A s \in Slots : slot[s] = slotD[s]
      BY <1>1, <2>1 DEF Recover
    <3>2. slot'[active'].gen <= generation'
      BY <1>0, <1>1 DEF Recover, Winner, disk
    <3>3. QED
      BY <1>0, <1>1, <2>1, <3>1, <3>2 DEF Recover, Winner, counts, disk
  <2>2. QED
    BY <1>1, <2>1 DEF Recover, counts
<1>2. CASE LogTruncate \/ LogHeader
  BY <1>2 DEF LogTruncate, LogHeader, memory, counts
<1>3. CASE LogFlushBoot \/ LogFlushCheckpoint \/ LogFlushWipe
  BY <1>0, <1>3 DEF LogFlushBoot, LogFlushCheckpoint, LogFlushWipe, LogFlushed, Idle, counts,
     SlotProgress, LogSteps, Unwritten
<1>4. CASE CheckpointSync
  BY <1>4 DEF CheckpointSync, counts
<1>5. CASE SlotTruncate
  BY <1>0, <1>5 DEF SlotTruncate, memory, counts
<1>6. CASE SlotWrite
  BY <1>0, <1>6 DEF SlotWrite, memory, counts
<1>7. CASE SlotFlush
  BY <1>0, <1>7 DEF SlotFlush, memory, counts
<1>8. CASE Mutation
  BY <1>8 DEF Mutation, PlanAppend, PlanFlush, Apply, Commit, Idle, counts, disk, memory
<1>9. CASE Wipe
  <2>1. CASE WipeTruncate("a", "wipeA.truncate", "wipeA.flush")
    BY <1>0, <2>1 DEF WipeTruncate, memory, counts
  <2>2. CASE WipeFlush("a", "wipeA.flush", "wipeB.truncate")
    BY <1>0, <2>2 DEF WipeFlush, memory, counts
  <2>3. CASE WipeTruncate("b", "wipeB.truncate", "wipeB.flush")
    BY <1>0, <2>3 DEF WipeTruncate, memory, counts
  <2>4. CASE WipeFlush("b", "wipeB.flush", "log.truncate")
    BY <1>0, <2>4 DEF WipeFlush, memory, counts
  <2>5. QED
    BY <1>9, <2>1, <2>2, <2>3, <2>4 DEF Wipe
<1>10. CASE \E needs \in {0} \cup tree : Begin(needs)
  BY <1>10 DEF Begin, disk, memory
<1>11. CASE BeginCheckpoint \/ Sync \/ BeginWipe \/ Close
  BY <1>11 DEF BeginCheckpoint, Sync, BeginWipe, Close, Forget, counts, disk, memory
<1>12. CASE Fail
  BY <1>0, <1>12 DEF Fail
<1>13. CASE Crash
  <2>1. PICK sl \in SlotOutcomes :
          slot' = sl /\ slotD' = sl /\ faults' = faults /\ pc' = "down"
    BY <1>13 DEF Crash, Forget
  <2>2. \A s \in Slots : sl[s] \in {slot[s], slotD[s], NoSlot}
    BY SlotOutcomeIsOneOfThree
  <2>3. QED
    BY <1>0, <2>1, <2>2
<1>14. CASE UNCHANGED vars
  BY <1>14 DEF vars, disk, memory, counts
<1>15. QED
  BY <1>1, <1>2, <1>3, <1>4, <1>5, <1>6, <1>7, <1>8, <1>9, <1>10, <1>11, <1>12, <1>13,
     <1>14 DEF Next, Worker, LogReset, Checkpoint

\* The empty store has no active checkpoint to keep.
LEMMA SlotInvInit == Init => SlotInv
<1> SUFFICES ASSUME Init PROVE SlotInv
  OBVIOUS
<1>1. \A s \in Slots : slot[s] = NoSlot /\ slotD[s] = NoSlot
  BY DEF Init
<1>2. HealthySlots
  BY <1>1, SlotNames DEF Init, HealthySlots, NoSlot
<1>3. QED
  BY <1>2, TypeInit, WipeInit
     DEF Init, SlotInv, WipeInv, SlotProgress, ActiveIsFlushed, Kept, Checkpointed, Steady, LogSteps

\* The active slot is flushed and never the one being written: the invariant
\* behind CheckpointSurvives.
THEOREM SlotInvHolds == Spec => []SlotInv
<1>1. SlotInv /\ [Next]_vars => SlotInv'
  BY TypeNext, WipeProgressNext, SlotProgressNext, ActiveIsFlushedNext, HealthySlotsNext
     DEF SlotInv
<1>2. QED
  BY <1>1, SlotInvInit, PTL DEF Spec

\* Whatever fails, a crash leaves a checkpoint no older than the one the store
\* runs on, so a failed or torn checkpoint never costs the previous one.
THEOREM CheckpointSurvivesHolds == Spec => []CheckpointSurvives
<1>1. SlotInv => CheckpointSurvives
  <2> SUFFICES ASSUME SlotInv, Kept, NEW sl \in SlotOutcomes
               PROVE  sl[Winner(sl)].gen >= generation
    BY DEF CheckpointSurvives
  <2>1. sl[active] = slot[active] /\ sl[active].gen = generation
    BY SlotTypes DEF SlotInv, ActiveIsFlushed, SlotOutcomes
  <2>2. sl \in [Slots -> SlotFiles] /\ active \in Slots
    BY SlotOutcomesType, SlotTypes DEF SlotInv, TypeInv
  <2>3. sl["a"].gen \in Nat /\ sl["b"].gen \in Nat
    BY <2>2 DEF Slots, SlotFiles
  <2>4. QED
    BY <2>1, <2>2, <2>3 DEF Winner, Slots
<1>2. QED
  BY <1>1, SlotInvHolds, PTL

-----------------------------------------------------------------------------
(* Whose turn it is.  The slots take turns, so the generation of a file    *)
(* says which slot it is in; this needs no word about what is flushed.     *)

Turn(g) == IF g % 2 = 0 THEN "b" ELSE "a"

InTurn ==
  /\ active = Turn(generation)
  /\ \A s \in Slots : \A x \in {slot[s], slotD[s]} : x.gen = 0 \/ s = Turn(x.gen)

\* The next generation is the other slot's.
LEMMA TurnsChange == Turn(0) = "b" /\ \A g \in Nat : Turn(g + 1) = Other(Turn(g))
<1>1. \A g \in Nat : g % 2 = 0 <=> (g + 1) % 2 # 0
  OBVIOUS
<1> QED
  BY <1>1 DEF Turn, Other

\* checkpoint writes the inactive slot at generation + 1, and recover makes the
\* slot it picked the active one, also after a checkpoint or a reset that failed.
LEMMA InTurnNext ==
  ASSUME TypeInv, InTurn, [Next]_vars
  PROVE  InTurn'
<1> USE DEF InTurn
<1>0. /\ slot \in [Slots -> SlotFiles] /\ slotD \in [Slots -> SlotFiles]
      /\ active \in Slots /\ generation \in Nat /\ Other(active) \in Slots
      /\ "a" \in Slots /\ "b" \in Slots /\ NoSlot.gen = 0
  BY SlotTypes DEF NoSlot
<1>1. CASE Recover
  BY <1>0, <1>1, WinnerIsASlot, TurnsChange DEF Recover, disk
<1>2. CASE LogReset
  <2>1. CASE LogTruncate \/ LogHeader
    BY <2>1 DEF LogTruncate, LogHeader, memory
  <2>2. CASE LogFlushBoot
    BY <2>2 DEF LogFlushBoot, LogFlushed
  <2>3. CASE LogFlushCheckpoint \/ LogFlushWipe
    BY <1>0, <2>3, TurnsChange DEF LogFlushCheckpoint, LogFlushWipe, LogFlushed
  <2> QED
    BY <1>2, <2>1, <2>2, <2>3 DEF LogReset
<1>3. CASE CheckpointSync \/ SlotTruncate \/ SlotFlush
  BY <1>0, <1>3 DEF CheckpointSync, SlotTruncate, SlotFlush, memory
<1>4. CASE SlotWrite
  BY <1>0, <1>4, TurnsChange DEF SlotWrite, memory
<1>5. CASE Mutation
  BY <1>5 DEF Mutation, PlanAppend, PlanFlush, Apply, Commit, disk
<1>6. ASSUME NEW s \in Slots, NEW at, NEW next, WipeTruncate(s, at, next) \/ WipeFlush(s, at, next)
      PROVE  InTurn'
  BY <1>0, <1>6 DEF WipeTruncate, WipeFlush, memory
<1>7. CASE \E needs \in {0} \cup tree : Begin(needs)
  BY <1>7 DEF Begin, disk, memory
<1>8. CASE BeginCheckpoint \/ Sync \/ BeginWipe
  BY <1>8 DEF BeginCheckpoint, Sync, BeginWipe, disk, memory
<1>9. CASE Close \/ Fail
  BY <1>9, TurnsChange DEF Close, Fail, Forget, disk, memory
<1>10. CASE Crash
  <2>1. PICK sl \in SlotOutcomes : slot' = sl /\ slotD' = sl
    BY <1>10 DEF Crash
  <2>2. \A s \in Slots : sl[s] \in {slot[s], slotD[s], NoSlot}
    BY SlotOutcomeIsOneOfThree
  <2> QED
    BY <1>0, <1>10, <2>1, <2>2, TurnsChange DEF Crash, Forget
<1>11. CASE UNCHANGED vars
  BY <1>11 DEF vars, disk, memory
<1> QED
  BY <1>0, <1>1, <1>2, <1>3, <1>4, <1>5, <1>6, <1>7, <1>8, <1>9, <1>10, <1>11
  DEF Next, Worker, Checkpoint, Wipe

\* Two readable slots never carry the same generation, whatever failed or crashed
\* before, so the tie-break of recover is never taken.
THEOREM NoTieHolds == Spec => []NoTie
<1>1. Init => TypeInv /\ InTurn
  BY TypeInit, SlotNames, TurnsChange DEF Init, InTurn, NoSlot
<1>2. TypeInv /\ InTurn /\ [Next]_vars => (TypeInv /\ InTurn)'
  BY TypeNext, InTurnNext
<1>3. TypeInv /\ InTurn => NoTie
  <2> SUFFICES ASSUME TypeInv, InTurn, NEW sl \in SlotOutcomes,
                      sl["a"].gen = sl["b"].gen
               PROVE  sl["a"].gen = 0
    BY DEF NoTie
  <2>1. /\ sl["a"] \in {slot["a"], slotD["a"], NoSlot}
        /\ sl["b"] \in {slot["b"], slotD["b"], NoSlot}
    BY SlotOutcomeIsOneOfThree, SlotNames
  <2> QED
    BY <2>1, SlotNames DEF InTurn, NoSlot
<1> QED
  BY <1>1, <1>2, <1>3, PTL DEF Spec

-----------------------------------------------------------------------------
(* From here on: as long as no disk call fails.                            *)

-----------------------------------------------------------------------------
(* Logs that replay.                                                       *)

\* The mutations with a commit record.
CommitIds(recs) == {recs[i].id : i \in {k \in DOMAIN recs : recs[k].kind = "commit"}}

\* Record i is right behind the plan of its mutation.
FollowsPlan(recs, i) ==
  i - 1 \in DOMAIN recs /\ recs[i - 1].kind = "plan" /\ recs[i - 1].id = recs[i].id

\* What record i was built on is in the base or committed before it.
StandsOn(recs, base, i) ==
  \/ recs[i].needs = 0
  \/ recs[i].needs \in base
  \/ \E k \in DOMAIN recs : k < i /\ recs[k].kind = "commit" /\ recs[k].id = recs[i].needs

\* A log that replays on top of base to its end: commits follow their plans,
\* plans come in the order of their numbers, and each has what it was built on.
Replayable(recs, base) ==
  \A i \in DOMAIN recs :
    /\ recs[i].kind = "commit" => FollowsPlan(recs, i)
    /\ recs[i].kind = "plan" =>
         StandsOn(recs, base, i) /\ \A j \in DOMAIN recs : j < i => recs[j].id < recs[i].id

\* The records of a log, and their places.
LEMMA RecordsOf ==
  ASSUME NEW w \in LogFiles
  PROVE  /\ Len(w.recs) \in Nat /\ DOMAIN w.recs = 1 .. Len(w.recs)
         /\ w.gen \in Nat \cup {-1} /\ w.recs \in Seq(Records)
         /\ w = [gen |-> w.gen, recs |-> w.recs]
         /\ \A i \in DOMAIN w.recs : /\ w.recs[i].kind \in {"plan", "commit"}
                                     /\ w.recs[i].id \in Ops /\ w.recs[i].needs \in Nat
<1>1. w.recs \in Seq(Records) /\ w.gen \in Nat \cup {-1} /\ w = [gen |-> w.gen, recs |-> w.recs]
  BY DEF LogFiles
<1>2. Len(w.recs) \in Nat /\ DOMAIN w.recs = 1 .. Len(w.recs)
  BY <1>1, LenProperties
<1>3. \A i \in DOMAIN w.recs : w.recs[i] \in Records
  BY <1>1, <1>2, ElementOfSeq
<1>4. QED
  BY <1>1, <1>2, <1>3 DEF Records

\* Of a log that replays, replay takes every committed plan (MemoryStorage.replay).
LEMMA ReplayTakesAll ==
  ASSUME NEW w \in LogFiles, NEW base, Replayable(w.recs, base)
  PROVE  /\ {p.id : p \in Committed(w.recs)} = CommitIds(w.recs)
         /\ Replayed(base, Committed(w.recs)) = CommitIds(w.recs)
<1> DEFINE recs == w.recs
           plans == Committed(recs)
<1>1. /\ DOMAIN recs = 1 .. Len(recs) /\ Len(recs) \in Nat
      /\ \A i \in DOMAIN recs : recs[i].id \in Nat
  BY RecordsOf DEF Ops
<1>2. \A p \in plans : \E i, j \in DOMAIN recs :
        /\ p = recs[i] /\ recs[i].kind = "plan"
        /\ recs[j].kind = "commit" /\ recs[j].id = recs[i].id
  BY DEF Committed
<1>3. \A j \in DOMAIN recs : recs[j].kind = "commit" =>
        recs[j - 1] \in plans /\ recs[j - 1].id = recs[j].id /\ j - 1 \in DOMAIN recs
  BY DEF Replayable, FollowsPlan, Committed
<1>4. {p.id : p \in plans} = CommitIds(recs)
  <2>1. ASSUME NEW p \in plans PROVE p.id \in CommitIds(recs)
    BY <1>2 DEF CommitIds
  <2>2. ASSUME NEW x \in CommitIds(recs) PROVE \E p \in plans : p.id = x
    BY <1>3 DEF CommitIds
  <2>3. QED
    BY <2>1, <2>2
<1>5. \A q \in plans : Takes(base, plans, q)
  <2>1. SUFFICES ASSUME NEW i \in DOMAIN recs, recs[i].kind = "plan"
                 PROVE  Takes(base, plans, recs[i])
    BY <1>2
  <2>2. CASE recs[i].needs = 0 \/ recs[i].needs \in base
    BY <2>2 DEF Takes
  <2>3. ASSUME NEW k \in DOMAIN recs, k < i, recs[k].kind = "commit", recs[k].id = recs[i].needs
        PROVE  Takes(base, plans, recs[i])
    <3>1. /\ recs[k - 1] \in plans /\ recs[k - 1].id = recs[i].needs
          /\ k - 1 \in DOMAIN recs /\ k - 1 < i
      BY <1>1, <1>3, <2>3
    <3>2. recs[k - 1].id < recs[i].id
      BY <2>1, <3>1 DEF Replayable
    <3>3. QED
      BY <3>1, <3>2 DEF Takes
  <2>4. QED
    BY <2>1, <2>2, <2>3 DEF Replayable, StandsOn
<1>6. Replayed(base, plans) = {p.id : p \in plans}
  BY <1>5 DEF Replayed
<1>7. QED
  BY <1>4, <1>6

\* What is at the front of a log that replays, replays, and commits no more.
LEMMA FrontReplays ==
  ASSUME NEW w \in LogFiles, NEW v \in LogFiles, Extends(w, v)
  PROVE  /\ CommitIds(v.recs) \subseteq CommitIds(w.recs)
         /\ \A base : Replayable(w.recs, base) => Replayable(v.recs, base)
<1>1. /\ DOMAIN w.recs = 1 .. Len(w.recs) /\ DOMAIN v.recs = 1 .. Len(v.recs)
      /\ Len(w.recs) \in Nat /\ Len(v.recs) \in Nat
  BY RecordsOf
<1>2. DOMAIN v.recs \subseteq DOMAIN w.recs /\ \A i \in DOMAIN v.recs : v.recs[i] = w.recs[i]
  BY <1>1 DEF Extends
<1>3. CommitIds(v.recs) \subseteq CommitIds(w.recs)
  BY <1>2 DEF CommitIds
<1>4. ASSUME NEW base, Replayable(w.recs, base), NEW i \in DOMAIN v.recs
      PROVE  /\ v.recs[i].kind = "commit" => FollowsPlan(v.recs, i)
             /\ v.recs[i].kind = "plan" =>
                  /\ StandsOn(v.recs, base, i)
                  /\ \A j \in DOMAIN v.recs : j < i => v.recs[j].id < v.recs[i].id
  <2>1. \A k \in DOMAIN w.recs : k < i => k \in DOMAIN v.recs
    BY <1>1
  <2>2. i - 1 \in DOMAIN w.recs => i - 1 \in DOMAIN v.recs
    BY <1>1
  <2>3. v.recs[i].kind = "commit" => FollowsPlan(v.recs, i)
    BY <1>2, <1>4, <2>2 DEF Replayable, FollowsPlan
  <2>4. v.recs[i].kind = "plan" => StandsOn(v.recs, base, i)
    BY <1>2, <1>4, <2>1 DEF Replayable, StandsOn
  <2>5. QED
    BY <1>2, <1>4, <2>3, <2>4 DEF Replayable
<1>5. QED
  BY <1>3, <1>4 DEF Replayable

\* An empty log replays on anything, and commits nothing.
LEMMA EmptyReplays == CommitIds(<<>>) = {} /\ \A base : Replayable(<<>>, base)
BY DEF Replayable, CommitIds

\* Every log is at its own front.
LEMMA ExtendsItself == \A w \in LogFiles : Extends(w, w)
BY RecordsOf DEF Extends

\* The log a crash leaves: between what was flushed and what was read, as long as
\* nothing but records was written since the flush.
LEMMA LogOutcomeBetween ==
  ASSUME TypeOK, NEW w \in LogOutcomes
  PROVE  /\ w \in LogFiles
         /\ Extends(wal, walD) => Extends(wal, w) /\ Extends(w, walD)
         /\ w = NoLog \/ w = walD \/ Extends(wal, w)
<1>1. wal \in LogFiles /\ walD \in LogFiles /\ w \in LogFiles
  BY LogOutcomesType DEF TypeOK
<1>2. ASSUME NEW n \in Nat, w \in Prefixes(wal, n)
      PROVE  Extends(wal, w) /\ Len(w.recs) >= n
  <2>1. /\ w.gen = wal.gen /\ DOMAIN w.recs \subseteq DOMAIN wal.recs
        /\ \A i \in DOMAIN w.recs : w.recs[i] = wal.recs[i]
    BY <1>1, <1>2, PrefixOfLog
  <2>2. PICK m \in n .. Len(wal.recs) : w = [gen |-> wal.gen, recs |-> SubSeq(wal.recs, 1, m)]
    BY <1>2 DEF Prefixes
  <2>3. Len(wal.recs) \in Nat /\ wal.recs \in Seq(Records)
    BY <1>1, RecordsOf
  <2>4. Len(w.recs) = m
    <3>1. \A i \in 1 .. m : wal.recs[i] \in Records
      BY <2>3, ElementOfSeq
    <3>2. Len(SubSeq(wal.recs, 1, m)) = IF 1 <= m THEN m - 1 + 1 ELSE 0
      BY <2>3, <3>1, SubSeqProperties
    <3>3. QED
      BY <2>2, <2>3, <3>2
  <2>5. QED
    BY <2>1, <2>3, <2>4 DEF Extends
<1>3. /\ Len(walD.recs) \in Nat /\ DOMAIN walD.recs = 1 .. Len(walD.recs)
      /\ Len(w.recs) \in Nat /\ DOMAIN w.recs = 1 .. Len(w.recs)
  BY <1>1, RecordsOf
<1>4. CASE Extends(wal, walD)
  <2>1. Extends(wal, w) /\ Len(w.recs) >= Len(walD.recs)
    BY <1>2, <1>3, <1>4 DEF LogOutcomes
  <2>2. QED
    BY <1>1, <1>3, <1>4, <2>1 DEF Extends
<1>5. CASE ~Extends(wal, walD)
  BY <1>1, <1>2, <1>5 DEF LogOutcomes
<1>6. QED
  BY <1>1, <1>4, <1>5

\* What recovery shows: the tree of the newer slot and, if the log belongs to it
\* and replays, what the log commits.
LEMMA RecoveredIs ==
  ASSUME NEW sl \in [Slots -> SlotFiles], NEW w \in LogFiles,
         NEW x, x = sl[Winner(sl)]
  PROVE  /\ x.gen = 0 => Recovered(sl, w) = {}
         /\ x.gen # 0 /\ w.gen # x.gen => Recovered(sl, w) = x.tree
         /\ x.gen # 0 /\ w.gen = x.gen /\ Replayable(w.recs, x.tree) =>
              Recovered(sl, w) = x.tree \cup CommitIds(w.recs)
BY ReplayTakesAll DEF Recovered
-----------------------------------------------------------------------------
(* A store whose disk works: the log.                                      *)

Copies(s) == {slot[s], slotD[s]}

\* The new slot is flushed and the log of the old one is being reset.
Sealing == pc \in LogSteps /\ ret \in {"mount", "op", "ctl"}

\* The log of the store as it runs.
Live == pc \in {"serving"} \cup MutationSteps \cup SlotSteps

\* What a reset of the log has written so far.
LogReplaced ==
  /\ pc = "log.header" => wal = NoLog
  /\ pc = "log.flush" => wal = [gen |-> LogGen, recs |-> <<>>]

\* The running log belongs to the active slot, and only its end may be unflushed.
LogRuns ==
  /\ Live =>
       /\ wal.gen = generation /\ walD.gen = generation
       /\ logLen = Len(wal.recs)
       /\ Extends(wal, walD)
       /\ ~dirty => walD = wal
  /\ pc \in {"apply", "commit", "slot.truncate", "slot.write", "slot.flush"} => ~dirty

\* A log on its way out is still the log of the slot it belonged to.
LogRests ==
  /\ pc = "down" \/ (ret = "boot" /\ pc = "log.truncate") => Extends(wal, walD)
  /\ Sealing => walD.gen = generation /\ (pc = "log.truncate" => wal = walD)

\* A log and the slot it belongs to replay together, in whatever state either is.
LogsReplay ==
  \A w \in {wal, walD}, s \in Slots : \A x \in Copies(s) :
    x.gen = w.gen /\ w.gen > 0 => Replayable(w.recs, x.tree)

\* No step but one leaves the log alone, writes a header, or flushes it.
LEMMA LogReplacedNext ==
  ASSUME TypeInv, LogReplaced, [Next]_vars
  PROVE  LogReplaced'
<1> USE DEF LogReplaced
<1>1. CASE LogTruncate
  BY <1>1 DEF LogTruncate
<1>2. CASE LogHeader
  BY <1>2 DEF LogHeader, LogGen, memory
<1>3. CASE LogFlushBoot \/ LogFlushCheckpoint \/ LogFlushWipe
  BY <1>3 DEF LogFlushBoot, LogFlushCheckpoint, LogFlushWipe, Idle
<1>4. CASE Recover \/ Checkpoint \/ Mutation
  BY <1>4 DEF Recover, Checkpoint, CheckpointSync, SlotTruncate, SlotWrite, SlotFlush,
     Mutation, PlanAppend, PlanFlush, Apply, Commit, Idle
<1>5. CASE Wipe
  BY <1>5 DEF Wipe, WipeTruncate, WipeFlush
<1>6. CASE \E needs \in {0} \cup tree : Begin(needs)
  BY <1>6 DEF Begin
<1>7. CASE BeginCheckpoint \/ Sync \/ BeginWipe \/ Close \/ Fail \/ Crash
  BY <1>7 DEF BeginCheckpoint, Sync, BeginWipe, Close, Fail, Crash, Forget, Idle
<1>8. CASE UNCHANGED vars
  BY <1>8 DEF vars, disk, memory, LogGen
<1>9. QED
  BY <1>1, <1>2, <1>3, <1>4, <1>5, <1>6, <1>7, <1>8 DEF Next, Worker, LogReset

\* A record appended to the running log goes to its end.
LEMMA AppendedAtEnd ==
  ASSUME TypeInv, LogRuns, Live, cur.id \in Ops, NEW kind \in {"plan", "commit"}, NEW w,
         w = AppendRecord(wal, kind)
  PROVE  /\ w \in LogFiles /\ w.gen = wal.gen
         /\ Len(w.recs) = Len(wal.recs) + 1
         /\ \A i \in DOMAIN wal.recs : w.recs[i] = wal.recs[i]
         /\ w.recs[Len(wal.recs) + 1] = [kind |-> kind, id |-> cur.id, needs |-> cur.needs]
         /\ Extends(w, wal)
<1> DEFINE r == [kind |-> kind, id |-> cur.id, needs |-> cur.needs]
<1>1. wal \in LogFiles /\ generation \in Nat /\ r \in Records
  BY DEF TypeInv, TypeOK, Records
<1>2. /\ wal.recs \in Seq(Records) /\ wal = [gen |-> wal.gen, recs |-> wal.recs]
      /\ DOMAIN wal.recs = 1 .. Len(wal.recs) /\ Len(wal.recs) \in Nat
  BY <1>1, RecordsOf
<1>3. wal.gen # -1 /\ logLen = Len(wal.recs)
  BY <1>1 DEF LogRuns
<1>4. w = [gen |-> wal.gen, recs |-> Append(wal.recs, r)]
  <2>1. w = [wal EXCEPT !.recs = Append(wal.recs, r)]
    BY <1>3 DEF AppendRecord
  <2>2. QED
    BY <1>2, <2>1
<1>5. /\ Len(Append(wal.recs, r)) = Len(wal.recs) + 1
      /\ \A i \in 1 .. Len(wal.recs) : Append(wal.recs, r)[i] = wal.recs[i]
      /\ Append(wal.recs, r)[Len(wal.recs) + 1] = r
  BY <1>1, <1>2, AppendProperties
<1>6. w \in LogFiles
  BY AppendRecordType DEF TypeInv
<1>7. QED
  BY <1>2, <1>4, <1>5, <1>6 DEF Extends

\* While the store runs its log is the log of the active slot.
LEMMA LogRunsNext ==
  ASSUME TypeInv, WipeProgress, LogReplaced, LogRuns, [Next]_vars, faults' = 0
  PROVE  LogRuns'
<1> USE DEF LogRuns, Live, MutationSteps, SlotSteps
<1>1. wal \in LogFiles /\ walD \in LogFiles /\ faults \in Nat
  BY DEF TypeInv, TypeOK
<1>2. Extends(wal, wal) /\ Extends(walD, walD)
  BY <1>1, ExtendsItself
<1>3. CASE Recover
  BY <1>3 DEF Recover
<1>4. CASE LogTruncate \/ LogHeader
  BY <1>4 DEF LogTruncate, LogHeader
<1>5. CASE LogFlushBoot \/ LogFlushCheckpoint \/ LogFlushWipe
  <2>1. wal = [gen |-> LogGen, recs |-> <<>>] /\ LogGen = generation'
    BY <1>5 DEF LogReplaced, LogGen, LogFlushed, LogFlushBoot, LogFlushCheckpoint, LogFlushWipe
  <2>2. wal' = wal /\ walD' = wal /\ logLen' = 0 /\ dirty' = FALSE
    BY <1>5 DEF LogFlushBoot, LogFlushCheckpoint, LogFlushWipe, LogFlushed
  <2>3. QED
    BY <1>2, <2>1, <2>2
<1>6. CASE CheckpointSync
  BY <1>2, <1>6 DEF CheckpointSync
<1>7. CASE SlotTruncate \/ SlotWrite \/ SlotFlush
  BY <1>7 DEF SlotTruncate, SlotWrite, SlotFlush, memory
<1>8. CASE PlanAppend
  <2>1. cur.id \in Ops
    BY <1>8 DEF PlanAppend, TypeInv
  <2>2. /\ wal'.gen = wal.gen /\ Len(wal'.recs) = Len(wal.recs) + 1
        /\ Extends(wal', wal) /\ wal' \in LogFiles
    BY <1>8, <2>1, AppendedAtEnd DEF PlanAppend
  <2>3. Extends(wal', walD)
    BY <1>1, <1>8, <2>2, RecordsOf DEF PlanAppend, Extends
  <2>4. QED
    BY <1>8, <2>2, <2>3 DEF PlanAppend
<1>9. CASE PlanFlush \/ Apply
  BY <1>2, <1>9 DEF PlanFlush, Apply, disk
<1>10. CASE Commit
  <2>1. cur.id \in Ops
    BY <1>10 DEF Commit, TypeInv
  <2>2. /\ wal'.gen = wal.gen /\ Len(wal'.recs) = Len(wal.recs) + 1
        /\ Extends(wal', wal) /\ wal' \in LogFiles
    BY <1>10, <2>1, AppendedAtEnd DEF Commit
  <2>3. Extends(wal', walD)
    BY <1>1, <1>10, <2>2, RecordsOf DEF Commit, Extends
  <2>4. QED
    BY <1>10, <2>2, <2>3 DEF Commit, Idle
<1>11. CASE Wipe
  BY <1>11 DEF Wipe, WipeTruncate, WipeFlush
<1>12. CASE \E needs \in {0} \cup tree : Begin(needs)
  BY <1>12 DEF Begin, disk, memory
<1>13. CASE BeginCheckpoint \/ Sync \/ BeginWipe
  BY <1>2, <1>13 DEF BeginCheckpoint, Sync, BeginWipe, disk, memory
<1>14. CASE Close \/ Crash
  BY <1>14 DEF Close, Crash, Forget
<1>15. CASE Fail
  BY <1>1, <1>15 DEF Fail
<1>16. CASE UNCHANGED vars
  BY <1>16 DEF vars, disk, memory
<1>17. QED
  BY <1>3, <1>4, <1>5, <1>6, <1>7, <1>8, <1>9, <1>10, <1>11, <1>12, <1>13, <1>14, <1>15,
     <1>16 DEF Next, Worker, LogReset, Checkpoint, Mutation

\* The log that a boot or a checkpoint replaces has not changed since.
LEMMA LogRestsNext ==
  ASSUME TypeInv, WipeProgress, LogReplaced, LogRuns, LogRests, [Next]_vars, faults' = 0
  PROVE  LogRests'
<1> USE DEF LogRests, Sealing, LogSteps
<1>1. wal \in LogFiles /\ walD \in LogFiles /\ faults \in Nat
  BY DEF TypeInv, TypeOK
<1>2. CASE Recover
  BY <1>2 DEF Recover, disk
<1>3. CASE LogTruncate \/ LogHeader
  BY <1>3 DEF LogTruncate, LogHeader, memory
<1>4. CASE LogFlushBoot \/ LogFlushCheckpoint \/ LogFlushWipe
  BY <1>4 DEF LogFlushBoot, LogFlushCheckpoint, LogFlushWipe, Idle
<1>5. CASE CheckpointSync \/ SlotTruncate \/ SlotWrite
  BY <1>5 DEF CheckpointSync, SlotTruncate, SlotWrite
<1>6. CASE SlotFlush
  BY <1>6 DEF SlotFlush, LogRuns, Live, MutationSteps, SlotSteps, WipeProgress, memory
<1>7. CASE Mutation
  BY <1>7 DEF Mutation, PlanAppend, PlanFlush, Apply, Commit, Idle
<1>8. CASE Wipe
  BY <1>8 DEF Wipe, WipeTruncate, WipeFlush, WipeProgress, WipeSteps
<1>9. CASE \E needs \in {0} \cup tree : Begin(needs)
  BY <1>9 DEF Begin
<1>10. CASE BeginCheckpoint \/ Sync \/ BeginWipe
  BY <1>10 DEF BeginCheckpoint, Sync, BeginWipe
<1>11. CASE Close
  BY <1>11 DEF Close, Forget, LogRuns, Live, disk
<1>12. CASE Crash
  BY <1>12, ExtendsItself, LogOutcomesType DEF Crash, Forget, TypeInv
<1>13. CASE Fail
  BY <1>1, <1>13 DEF Fail
<1>14. CASE UNCHANGED vars
  BY <1>14 DEF vars, disk, memory
<1>15. QED
  BY <1>2, <1>3, <1>4, <1>5, <1>6, <1>7, <1>8, <1>9, <1>10, <1>11, <1>12, <1>13, <1>14
     DEF Next, Worker, LogReset, Checkpoint

-----------------------------------------------------------------------------
(* A store whose disk works: the slots, and the tree beside the files.     *)

AtMostOne(S) == \A x, y \in S : x = y

\* Neither down, nor booting, nor in the middle of a reset.
Running == pc # "down" /\ ~Booting /\ ~Wiping

\* An unreadable slot is empty, and the older slot holds no more than the newer.
SlotsNest ==
  \A s \in Slots : \A x \in Copies(s) :
    /\ x.gen = 0 => x.tree = {}
    /\ \A y \in Copies(Other(s)) : x.gen < y.gen => x.tree \subseteq y.tree

\* The new checkpoint holds the whole tree.
NewCheckpoint == Sealing \/ pc = "slot.flush" => slot[Other(active)].tree = tree

\* The other slot is older, or the new checkpoint.
OtherSlot ==
  /\ pc # "down" =>
       /\ slotD[Other(active)].gen <= generation \/ Sealing
       /\ slot[Other(active)].gen <= generation \/ Sealing \/ pc = "slot.flush"
  /\ NewCheckpoint

\* Mutations are numbered in the order they are planned, logged and reported.
Numbered ==
  /\ \A w \in {wal, walD} : \A i \in DOMAIN w.recs : w.recs[i].id < nextId
  /\ \A x \in acked : x < nextId
  /\ ret = "op" /\ pc \notin {"serving", "down"} =>
       cur.id < nextId /\ \A x \in acked : x < cur.id
  /\ pc = "plan.append" =>
       /\ \A i \in DOMAIN wal.recs : wal.recs[i].id < cur.id
       /\ cur.needs = 0 \/ cur.needs \in tree
  /\ pc \in {"plan.flush", "apply", "commit"} =>
       /\ wal.recs # <<>>
       /\ wal.recs[Len(wal.recs)] = [kind |-> "plan", id |-> cur.id, needs |-> cur.needs]
  /\ ret # "op" \/ pc \in {"serving", "down"} => cur = NoOp

\* While the store runs its tree is the active slot and what the log commits, and
\* all of it but the mutation in flight has been reported.
TreeRunning ==
  Running =>
    /\ acked \subseteq tree /\ tree \subseteq acked \cup {cur.id}
    /\ pc \notin LogSteps =>
         tree = slot[active].tree \cup CommitIds(wal.recs)
                  \cup (IF pc = "commit" THEN {cur.id} ELSE {})
    /\ ret = "op" /\ pc \in SlotSteps \cup LogSteps => cur.id \in tree

\* Until its checkpoint is done, what a boot brought up is what the files hold.
TreeBooting ==
  Booting =>
    /\ acked \subseteq tree /\ AtMostOne(tree \ acked)
    /\ generation > 0 =>
         /\ slot[active].tree \subseteq tree
         /\ \A w \in {wal, walD} : w.gen = generation => CommitIds(w.recs) \subseteq tree

\* A reset under way finds nothing in the files that was not reported.
TreeWiping ==
  Wiping =>
    /\ \A s \in Slots : \A x \in Copies(s) : x.tree \subseteq acked
    /\ \A w \in {wal, walD} : CommitIds(w.recs) \subseteq acked

\* While no tab has the store open, the files hold what was reported, and at
\* most one mutation more: the one that was in flight.
TreeDown ==
  pc = "down" =>
    /\ acked \subseteq Recovered(slot, wal)
    /\ AtMostOne(Recovered(slot, wal) \ acked)

\* A commit record that is not flushed is the last mutation's.
OnlyTheLast ==
  pc = "down" \/ (Running /\ pc \notin LogSteps) =>
    \A i \in DOMAIN wal.recs : i > Len(walD.recs) /\ wal.recs[i].kind = "commit" =>
      \A y \in acked : y <= wal.recs[i].id

Healthy ==
  /\ LogRuns /\ LogRests /\ LogsReplay
  /\ SlotsNest /\ OtherSlot
  /\ Numbered
  /\ TreeRunning /\ TreeBooting /\ TreeWiping /\ TreeDown /\ OnlyTheLast

LogInv ==
  /\ WipeInv /\ SlotInv /\ LogReplaced
  /\ faults = 0 => Healthy

\* Of an open store no disk call of which has failed, the active slot is flushed
\* and has its generation.
LEMMA ActiveSlot ==
  ASSUME SlotInv, faults = 0, pc # "down", ~Wiping
  PROVE  /\ slot[active] = slotD[active] /\ slot[active].gen = generation
         /\ active \in Slots /\ Other(active) \in Slots /\ Other(active) # active
<1>1. /\ active \in Slots /\ Other(active) \in Slots /\ Other(active) # active
      /\ generation \in Nat /\ slot[active].gen \in Nat
  BY SlotTypes, OtherIsOther DEF SlotInv
<1>2. CASE generation > 0
  BY <1>1, <1>2 DEF SlotInv, ActiveIsFlushed, Kept, Checkpointed
<1>3. CASE generation = 0
  <2>1. slot[active] = slotD[active]
    BY <1>1 DEF SlotInv, HealthySlots, WipeProgress, WipeSteps, Wiping
  <2>2. slot[active].gen <= 0
    BY <1>3 DEF SlotInv, HealthySlots
  <2>3. QED
    BY <1>1, <1>3, <2>1, <2>2
<1>4. QED
  BY <1>1, <1>2, <1>3

\* A checkpoint adds to the older one, and no other step adds to a slot.
LEMMA SlotsNestNext ==
  ASSUME SlotInv, SlotsNest, OtherSlot, TreeRunning, TreeBooting, [Next]_vars, faults' = 0
  PROVE  SlotsNest'
<1> USE DEF SlotsNest, Copies
<1>1. /\ slot \in [Slots -> SlotFiles] /\ slotD \in [Slots -> SlotFiles]
      /\ \A s \in Slots : slot[s].gen \in Nat /\ slotD[s].gen \in Nat
      /\ Slots = {"a", "b"} /\ generation \in Nat /\ faults \in Nat
      /\ active \in Slots
      /\ \A s \in Slots : Other(s) \in Slots /\ Other(s) # s /\ Other(Other(s)) = s
      /\ NoSlot.gen = 0 /\ NoSlot.tree = {}
  BY SlotTypes, OtherIsOther DEF Slots, NoSlot, SlotInv
<1>2. CASE Recover \/ LogReset \/ CheckpointSync \/ Mutation
  <2>1. UNCHANGED <<slot, slotD>>
    BY <1>2 DEF Recover, LogReset, LogTruncate, LogHeader, LogFlushBoot, LogFlushCheckpoint,
       LogFlushWipe, LogFlushed, CheckpointSync, Mutation, PlanAppend, PlanFlush, Apply, Commit,
       disk
  <2>2. QED
    BY <2>1
<1>3. CASE SlotTruncate
  BY <1>1, <1>3 DEF SlotTruncate
<1>4. CASE SlotWrite
  <2>1. faults = 0 /\ ~Wiping /\ (Running \/ Booting)
    BY <1>4 DEF SlotWrite, counts, SlotInv, WipeProgress, SlotSteps, Wiping, Running
  <2>2. slot[active] = slotD[active] /\ slot[active].gen = generation
    BY <1>4, <2>1, ActiveSlot DEF SlotWrite
  <2>3. slot[active].tree \subseteq tree
    BY <1>1, <1>4, <2>1, <2>2 DEF SlotWrite, TreeRunning, TreeBooting, LogSteps
  <2>4. slotD[Other(active)].gen <= generation
    BY <1>4 DEF SlotWrite, OtherSlot, Sealing, LogSteps
  <2>5. /\ slotD' = slotD /\ slot'[active] = slot[active]
        /\ slot'[Other(active)] = [gen |-> generation + 1, tree |-> tree]
    BY <1>1, <1>4 DEF SlotWrite
  <2>6. QED
    BY <1>1, <2>2, <2>3, <2>4, <2>5
<1>5. CASE SlotFlush
  BY <1>1, <1>5 DEF SlotFlush
<1>6. CASE Wipe
  <2>1. ASSUME NEW s \in Slots, NEW at, NEW next, WipeTruncate(s, at, next) PROVE SlotsNest'
    BY <1>1, <2>1 DEF WipeTruncate
  <2>2. ASSUME NEW s \in Slots, NEW at, NEW next, WipeFlush(s, at, next) PROVE SlotsNest'
    BY <1>1, <2>2 DEF WipeFlush
  <2>3. QED
    BY <1>6, <2>1, <2>2, SlotNames DEF Wipe
<1>7. CASE \E needs \in {0} \cup tree : Begin(needs)
  BY <1>7 DEF Begin, disk
<1>8. CASE BeginCheckpoint \/ Sync \/ BeginWipe \/ Close
  BY <1>8 DEF BeginCheckpoint, Sync, BeginWipe, Close, disk
<1>9. CASE Fail
  BY <1>1, <1>9 DEF Fail
<1>10. CASE Crash
  <2>1. PICK sl \in SlotOutcomes : slot' = sl /\ slotD' = sl
    BY <1>10 DEF Crash
  <2>2. \A s \in Slots : sl[s] \in {slot[s], slotD[s], NoSlot}
    BY SlotOutcomeIsOneOfThree
  <2>3. QED
    BY <1>1, <2>1, <2>2
<1>11. CASE UNCHANGED vars
  BY <1>11 DEF vars, disk
<1>12. QED
  BY <1>2, <1>3, <1>4, <1>5, <1>6, <1>7, <1>8, <1>9, <1>10, <1>11 DEF Next, Worker, Checkpoint

\* The other slot is the older one until a checkpoint has written the new one.
LEMMA OtherSlotNext ==
  ASSUME SlotInv, SlotsNest, OtherSlot, [Next]_vars, faults' = 0
  PROVE  OtherSlot'
<1> USE DEF OtherSlot, NewCheckpoint, Sealing, LogSteps
<1>1. /\ slot \in [Slots -> SlotFiles] /\ slotD \in [Slots -> SlotFiles]
      /\ \A s \in Slots : slot[s].gen \in Nat /\ slotD[s].gen \in Nat
      /\ Slots = {"a", "b"} /\ generation \in Nat /\ faults \in Nat
      /\ active \in Slots
      /\ \A s \in Slots : Other(s) \in Slots /\ Other(s) # s /\ Other(Other(s)) = s
      /\ NoSlot.gen = 0 /\ NoSlot.tree = {}
  BY SlotTypes, OtherIsOther DEF Slots, NoSlot, SlotInv
<1>2. CASE Recover
  <2>1. \A s \in Slots : slot[s] = slotD[s]
    BY <1>1, <1>2 DEF Recover, SlotInv, HealthySlots, counts
  <2>2. \A s \in Slots : slot[s].gen <= slot[Winner(slot)].gen
    BY <1>1 DEF Winner
  <2>3. QED
    BY <1>1, <1>2, <2>1, <2>2, WinnerIsASlot DEF Recover, disk
<1>3. CASE LogTruncate \/ LogHeader
  BY <1>3 DEF LogTruncate, LogHeader, memory
<1>4. CASE LogFlushBoot
  BY <1>4 DEF LogFlushBoot, LogFlushed
<1>5. CASE LogFlushCheckpoint
  <2>1. slot[active].gen = generation /\ slotD[active].gen = generation
    BY <1>5, ActiveSlot DEF LogFlushCheckpoint, LogFlushed, counts, Wiping
  <2>2. QED
    BY <1>1, <1>5, <2>1 DEF LogFlushCheckpoint, LogFlushed, Idle
<1>6. CASE LogFlushWipe
  BY <1>1, <1>6 DEF LogFlushWipe, LogFlushed, Idle, SlotInv, SlotProgress, Unwritten
<1>7. CASE CheckpointSync
  BY <1>7 DEF CheckpointSync
<1>8. CASE SlotTruncate
  BY <1>1, <1>8 DEF SlotTruncate, memory
<1>9. CASE SlotWrite
  BY <1>1, <1>9 DEF SlotWrite, memory
<1>10. CASE SlotFlush
  BY <1>1, <1>10 DEF SlotFlush, memory, SlotInv, WipeProgress, SlotSteps
<1>11. CASE Mutation
  BY <1>11 DEF Mutation, PlanAppend, PlanFlush, Apply, Commit, Idle, disk, memory
<1>12. CASE Wipe
  <2>1. ret = "wipe"
    BY <1>12 DEF Wipe, WipeTruncate, WipeFlush, SlotInv, WipeProgress, WipeSteps
  <2>2. ASSUME NEW s \in Slots, NEW at, NEW next, next \notin {"slot.flush", "down"},
               at \notin LogSteps \cup {"slot.flush", "down"}, WipeTruncate(s, at, next)
        PROVE  OtherSlot'
    BY <1>1, <2>1, <2>2 DEF WipeTruncate, memory
  <2>3. ASSUME NEW s \in Slots, NEW at, NEW next, next \notin {"slot.flush", "down"},
               at \notin LogSteps \cup {"slot.flush", "down"}, WipeFlush(s, at, next)
        PROVE  OtherSlot'
    BY <1>1, <2>1, <2>3 DEF WipeFlush, memory
  <2>4. QED
    BY <1>12, <2>2, <2>3, SlotNames DEF Wipe
<1>13. CASE \E needs \in {0} \cup tree : Begin(needs)
  BY <1>13 DEF Begin, disk, memory
<1>14. CASE BeginCheckpoint \/ Sync \/ BeginWipe
  BY <1>14 DEF BeginCheckpoint, Sync, BeginWipe, disk, memory
<1>15. CASE Close \/ Crash
  BY <1>15 DEF Close, Crash, Forget
<1>16. CASE Fail
  BY <1>1, <1>16 DEF Fail
<1>17. CASE UNCHANGED vars
  BY <1>17 DEF vars, disk, memory
<1>18. QED
  BY <1>2, <1>3, <1>4, <1>5, <1>6, <1>7, <1>8, <1>9, <1>10, <1>11, <1>12, <1>13, <1>14,
     <1>15, <1>16, <1>17 DEF Next, Worker, LogReset, Checkpoint

\* A plan commits nothing, a commit record its mutation.
LEMMA AppendedCommits ==
  ASSUME TypeInv, LogRuns, Live, cur.id \in Ops, NEW kind \in {"plan", "commit"}, NEW w,
         w = AppendRecord(wal, kind)
  PROVE  CommitIds(w.recs) =
           CommitIds(wal.recs) \cup (IF kind = "commit" THEN {cur.id} ELSE {})
<1>1. /\ w \in LogFiles /\ Len(w.recs) = Len(wal.recs) + 1
      /\ \A i \in DOMAIN wal.recs : w.recs[i] = wal.recs[i]
      /\ w.recs[Len(wal.recs) + 1] = [kind |-> kind, id |-> cur.id, needs |-> cur.needs]
  BY AppendedAtEnd
<1>2. /\ DOMAIN wal.recs = 1 .. Len(wal.recs) /\ Len(wal.recs) \in Nat
      /\ DOMAIN w.recs = 1 .. Len(wal.recs) + 1
  BY <1>1, RecordsOf DEF TypeInv, TypeOK
<1>3. \A i \in DOMAIN w.recs : i \in DOMAIN wal.recs \/ i = Len(wal.recs) + 1
  BY <1>2
<1>4. DOMAIN wal.recs \subseteq DOMAIN w.recs /\ Len(wal.recs) + 1 \in DOMAIN w.recs
  BY <1>2
<1>5. QED
  BY <1>1, <1>3, <1>4 DEF CommitIds

\* A mutation takes the next number and keeps it until it is reported.
LEMMA NumberedNext ==
  ASSUME TypeInv, AppliedInv, GoneInv, LogReplaced, LogRuns, Numbered, TreeRunning, [Next]_vars,
         faults' = 0
  PROVE  Numbered'
<1> USE DEF Numbered
<1>1. /\ wal \in LogFiles /\ walD \in LogFiles /\ faults \in Nat /\ nextId \in Nat
      /\ acked \subseteq Nat /\ tree \subseteq Nat /\ cur.id \in Nat
      /\ Len(wal.recs) \in Nat /\ DOMAIN wal.recs = 1 .. Len(wal.recs)
      /\ \A i \in DOMAIN wal.recs : wal.recs[i].id \in Nat
      /\ \A i \in DOMAIN walD.recs : walD.recs[i].id \in Nat
  BY RecordsOf DEF TypeInv, TypeOK, Ops
<1>2. CASE Recover
  BY <1>2 DEF Recover, disk, counts, ghosts
<1>3. CASE LogTruncate \/ LogHeader
  BY <1>3 DEF LogTruncate, LogHeader, memory, counts, ghosts, NoLog
<1>4. CASE LogFlushBoot \/ LogFlushWipe
  BY <1>4 DEF LogFlushBoot, LogFlushWipe, LogFlushed, Idle, counts, ghosts
<1>5. CASE LogFlushCheckpoint
  <2>1. \A x \in tree : x < nextId
    BY DEF AppliedInv, GoneInv
  <2>2. QED
    BY <1>5, <2>1 DEF LogFlushCheckpoint, LogFlushed, Idle, counts, ghosts
<1>6. CASE Checkpoint
  BY <1>6 DEF Checkpoint, CheckpointSync, SlotTruncate, SlotWrite, SlotFlush, memory, counts, ghosts
<1>7. CASE PlanAppend
  <2>1. cur.id \in Ops /\ ret = "op" /\ Live
    BY <1>7 DEF PlanAppend, TypeInv, MutationSteps, Live
  <2>2. /\ wal' \in LogFiles /\ Len(wal'.recs) = Len(wal.recs) + 1
        /\ \A i \in DOMAIN wal.recs : wal'.recs[i] = wal.recs[i]
        /\ wal'.recs[Len(wal.recs) + 1] = [kind |-> "plan", id |-> cur.id, needs |-> cur.needs]
    BY <1>7, <2>1, AppendedAtEnd DEF PlanAppend
  <2>3. DOMAIN wal'.recs = 1 .. Len(wal.recs) + 1
    BY <2>2, RecordsOf
  <2>4. \A i \in DOMAIN wal'.recs : wal'.recs[i].id < nextId
    BY <1>1, <1>7, <2>1, <2>2, <2>3 DEF PlanAppend
  <2>5. QED
    BY <1>1, <1>7, <2>1, <2>2, <2>3, <2>4 DEF PlanAppend, counts, ghosts
<1>8. CASE PlanFlush \/ Apply
  BY <1>8 DEF PlanFlush, Apply, disk, counts, ghosts
<1>9. CASE Commit
  <2>1. cur.id \in Ops /\ ret = "op" /\ Live
    BY <1>9 DEF Commit, TypeInv, MutationSteps, Live
  <2>2. /\ wal' \in LogFiles /\ Len(wal'.recs) = Len(wal.recs) + 1
        /\ \A i \in DOMAIN wal.recs : wal'.recs[i] = wal.recs[i]
        /\ wal'.recs[Len(wal.recs) + 1] = [kind |-> "commit", id |-> cur.id, needs |-> cur.needs]
    BY <1>9, <2>1, AppendedAtEnd DEF Commit
  <2>3. DOMAIN wal'.recs = 1 .. Len(wal.recs) + 1
    BY <2>2, RecordsOf
  <2>4. \A i \in DOMAIN wal'.recs : wal'.recs[i].id < nextId
    <3>1. cur.id < nextId
      BY <1>9, <2>1 DEF Commit
    <3>2. QED
      BY <1>1, <2>2, <2>3, <3>1
  <2>5. QED
    BY <1>1, <1>9, <2>1, <2>4 DEF Commit, Idle, counts
<1>10. CASE Wipe
  BY <1>10 DEF Wipe, WipeTruncate, WipeFlush, memory, counts, ghosts
<1>11. ASSUME NEW needs \in {0} \cup tree, Begin(needs) PROVE Numbered'
  BY <1>1, <1>11 DEF Begin, disk, memory, ghosts
<1>12. CASE BeginCheckpoint \/ Sync
  BY <1>12 DEF BeginCheckpoint, Sync, disk, memory, counts, ghosts
<1>13. CASE BeginWipe
  BY <1>13 DEF BeginWipe, disk, ghosts
<1>14. CASE Close
  BY <1>14 DEF Close, Forget, disk, counts
<1>15. CASE Fail
  BY <1>1, <1>15 DEF Fail
<1>16. CASE Crash
  <2>1. PICK w \in LogOutcomes : wal' = w /\ walD' = w
    BY <1>16 DEF Crash
  <2>2. w = NoLog \/ w = walD \/ Extends(wal, w)
    BY <2>1, LogOutcomeBetween DEF TypeInv
  <2>3. w \in LogFiles
    BY LogOutcomesType DEF TypeInv
  <2>4. \A i \in DOMAIN w.recs : w.recs[i].id < nextId
    <3>1. CASE w = NoLog \/ w = walD
      BY <3>1 DEF NoLog
    <3>2. CASE Extends(wal, w)
      <4>1. \A i \in DOMAIN w.recs : i \in DOMAIN wal.recs /\ w.recs[i] = wal.recs[i]
        BY <1>1, <2>3, <3>2, RecordsOf DEF Extends
      <4>2. QED
        BY <4>1
    <3>3. QED
      BY <2>2, <3>1, <3>2
  <2>5. QED
    BY <1>16, <2>1, <2>4 DEF Crash, Forget
<1>17. CASE UNCHANGED vars
  BY <1>17 DEF vars, disk, memory, counts, ghosts
<1>18. QED
  BY <1>2, <1>3, <1>4, <1>5, <1>6, <1>7, <1>8, <1>9, <1>10, <1>11, <1>12, <1>13, <1>14,
     <1>15, <1>16, <1>17 DEF Next, Worker, LogReset, Mutation

\* A plan goes behind the log it can be replayed on, a commit record behind its plan.
LEMMA AppendReplays ==
  ASSUME TypeInv, LogRuns, Numbered, TreeRunning, Running, pc \in {"plan.append", "commit"},
         NEW kind \in {"plan", "commit"}, kind = "plan" <=> pc = "plan.append",
         NEW w, w = AppendRecord(wal, kind), Replayable(wal.recs, slot[active].tree)
  PROVE  Replayable(w.recs, slot[active].tree)
<1> DEFINE base == slot[active].tree
<1>1. ret = "op" /\ cur.id \in Ops /\ Live /\ pc \notin LogSteps /\ wal \in LogFiles
  BY DEF TypeInv, TypeOK, MutationSteps, Live, LogSteps
<1>2. /\ w \in LogFiles /\ Len(w.recs) = Len(wal.recs) + 1
      /\ \A i \in DOMAIN wal.recs : w.recs[i] = wal.recs[i]
      /\ w.recs[Len(wal.recs) + 1] = [kind |-> kind, id |-> cur.id, needs |-> cur.needs]
  BY <1>1, AppendedAtEnd
<1>3. /\ DOMAIN wal.recs = 1 .. Len(wal.recs) /\ Len(wal.recs) \in Nat
      /\ DOMAIN w.recs = 1 .. Len(wal.recs) + 1 /\ DOMAIN wal.recs \subseteq DOMAIN w.recs
  BY <1>1, <1>2, RecordsOf
<1>4. ASSUME NEW i \in DOMAIN wal.recs
      PROVE  /\ FollowsPlan(wal.recs, i) => FollowsPlan(w.recs, i)
             /\ StandsOn(wal.recs, base, i) => StandsOn(w.recs, base, i)
  <2>1. FollowsPlan(wal.recs, i) => FollowsPlan(w.recs, i)
    BY <1>2, <1>3, <1>4 DEF FollowsPlan
  <2>2. StandsOn(wal.recs, base, i) => StandsOn(w.recs, base, i)
    BY <1>2, <1>3, <1>4 DEF StandsOn
  <2>3. QED
    BY <2>1, <2>2
<1>5. CASE kind = "commit"
  <2>1. FollowsPlan(w.recs, Len(wal.recs) + 1)
    <3>1. Len(wal.recs) \in DOMAIN wal.recs
      BY <1>1, <1>3, <1>5, EmptySeq DEF Numbered, LogFiles
    <3>2. wal.recs[Len(wal.recs)] = [kind |-> "plan", id |-> cur.id, needs |-> cur.needs]
      BY <1>5 DEF Numbered
    <3>3. QED
      BY <1>2, <1>3, <3>1, <3>2 DEF FollowsPlan
  <2>2. QED
    BY <1>2, <1>3, <1>4, <1>5, <2>1 DEF Replayable
<1>6. CASE kind = "plan"
  <2>1. StandsOn(w.recs, base, Len(wal.recs) + 1)
    <3>1. cur.needs = 0 \/ cur.needs \in base \/ cur.needs \in CommitIds(wal.recs)
      BY <1>1, <1>6 DEF Numbered, TreeRunning
    <3>2. cur.needs \in CommitIds(wal.recs) =>
            \E k \in DOMAIN wal.recs : wal.recs[k].kind = "commit" /\ wal.recs[k].id = cur.needs
      BY DEF CommitIds
    <3>3. QED
      BY <1>2, <1>3, <3>1, <3>2 DEF StandsOn
  <2>2. \A j \in DOMAIN wal.recs : wal.recs[j].id < cur.id
    BY <1>1, <1>6 DEF Numbered
  <2>3. QED
    BY <1>2, <1>3, <1>4, <1>6, <2>1, <2>2 DEF Replayable
<1>7. QED
  BY <1>5, <1>6

\* A plan goes into the log only where it can be replayed, and its commit record
\* right behind it; a crash leaves the front of a log, and no slot changes under one.
LEMMA LogsReplayNext ==
  ASSUME SlotInv, LogReplaced, LogRuns, LogsReplay, OtherSlot, Numbered, TreeRunning,
         [Next]_vars, faults' = 0
  PROVE  LogsReplay'
<1> USE DEF LogsReplay, Copies
<1>1. /\ slot \in [Slots -> SlotFiles] /\ slotD \in [Slots -> SlotFiles]
      /\ \A s \in Slots : slot[s].gen \in Nat /\ slotD[s].gen \in Nat
      /\ Slots = {"a", "b"} /\ generation \in Nat /\ faults \in Nat
      /\ active \in Slots /\ wal \in LogFiles /\ walD \in LogFiles
      /\ \A s \in Slots : Other(s) \in Slots /\ Other(s) # s /\ Other(Other(s)) = s
      /\ NoSlot.gen = 0 /\ NoLog.gen = -1 /\ TypeInv /\ TypeOK
  BY SlotTypes, OtherIsOther DEF Slots, NoSlot, NoLog, SlotInv, TypeInv, TypeOK
<1>2. CASE Recover
  BY <1>2 DEF Recover, disk
<1>3. CASE LogTruncate
  BY <1>1, <1>3 DEF LogTruncate
<1>4. CASE LogHeader
  BY <1>4, EmptyReplays DEF LogHeader
<1>5. CASE LogFlushBoot \/ LogFlushCheckpoint \/ LogFlushWipe
  BY <1>5, EmptyReplays
     DEF LogFlushBoot, LogFlushCheckpoint, LogFlushWipe, LogFlushed, LogReplaced
<1>6. CASE CheckpointSync \/ PlanFlush \/ Sync
  BY <1>6 DEF CheckpointSync, PlanFlush, Sync
<1>7. CASE SlotTruncate
  BY <1>1, <1>7 DEF SlotTruncate
<1>8. CASE SlotWrite
  <2>1. wal.gen = generation /\ walD.gen = generation
    BY <1>8 DEF SlotWrite, LogRuns, Live, SlotSteps
  <2>2. QED
    BY <1>1, <1>8, <2>1 DEF SlotWrite
<1>9. CASE SlotFlush
  BY <1>1, <1>9 DEF SlotFlush
<1>10. CASE PlanAppend \/ Commit
  <2>1. PICK kind \in {"plan", "commit"} :
          /\ wal' = AppendRecord(wal, kind) /\ (kind = "plan" <=> pc = "plan.append")
          /\ pc \in {"plan.append", "commit"}
    BY <1>10 DEF PlanAppend, Commit
  <2>2. /\ cur.id \in Ops /\ ret = "op" /\ Live /\ faults = 0 /\ Running /\ ~Wiping
        /\ pc \notin LogSteps
        /\ UNCHANGED <<slot, slotD, walD>>
    BY <1>1, <1>10 DEF PlanAppend, Commit, TypeInv, MutationSteps, Live, Running, Booting, Wiping,
       counts, LogSteps
  <2>3. wal'.gen = wal.gen
    BY <1>1, <2>1, <2>2, AppendedAtEnd
  <2>4. wal.gen = generation
    BY <2>2 DEF LogRuns
  <2>5. ASSUME NEW s \in Slots, NEW x \in Copies(s), x.gen = wal.gen, wal.gen > 0
        PROVE  Replayable(wal'.recs, x.tree)
    <3>1. x = slot[active]
      <4>1. slot[active] = slotD[active] /\ slot[active].gen = generation
        BY <2>1, <2>2, ActiveSlot
      <4>2. s # active => x.gen = 0
        BY <1>1, <2>2, <2>4, <2>5, <4>1 DEF SlotInv, HealthySlots
      <4>3. QED
        BY <2>5, <4>1, <4>2
    <3>2. Replayable(wal'.recs, slot[active].tree)
      <4>1. Replayable(wal.recs, slot[active].tree)
        BY <2>5, <3>1
      <4>2. QED
        BY <1>1, <2>1, <2>2, <4>1, AppendReplays
    <3>3. QED
      BY <3>1, <3>2
  <2>6. QED
    BY <2>2, <2>3, <2>5
<1>11. CASE Apply
  BY <1>11 DEF Apply, disk
<1>12. CASE Wipe
  <2>1. ASSUME NEW s \in Slots, NEW at, NEW next, WipeTruncate(s, at, next) PROVE LogsReplay'
    BY <1>1, <2>1 DEF WipeTruncate
  <2>2. ASSUME NEW s \in Slots, NEW at, NEW next, WipeFlush(s, at, next) PROVE LogsReplay'
    BY <1>1, <2>2 DEF WipeFlush
  <2>3. QED
    BY <1>12, <2>1, <2>2, SlotNames DEF Wipe
<1>13. CASE \E needs \in {0} \cup tree : Begin(needs)
  BY <1>13 DEF Begin, disk
<1>14. CASE BeginCheckpoint \/ BeginWipe \/ Close
  BY <1>14 DEF BeginCheckpoint, BeginWipe, Close, disk
<1>15. CASE Fail
  BY <1>1, <1>15 DEF Fail
<1>16. CASE Crash
  <2>1. PICK sl \in SlotOutcomes, w \in LogOutcomes :
          slot' = sl /\ slotD' = sl /\ wal' = w /\ walD' = w
    BY <1>16 DEF Crash
  <2>2. \A s \in Slots : sl[s] \in {slot[s], slotD[s], NoSlot}
    BY SlotOutcomeIsOneOfThree
  <2>3. w \in LogFiles /\ (w = NoLog \/ w = walD \/ Extends(wal, w))
    BY <1>1, LogOutcomeBetween
  <2>4. Extends(wal, w) => w.gen = wal.gen /\ \A b : Replayable(wal.recs, b) => Replayable(w.recs, b)
    BY <1>1, <2>3, FrontReplays DEF Extends
  <2>5. QED
    BY <1>1, <2>1, <2>2, <2>3, <2>4
<1>17. CASE UNCHANGED vars
  BY <1>17 DEF vars, disk
<1>18. QED
  BY <1>2, <1>3, <1>4, <1>5, <1>6, <1>7, <1>8, <1>9, <1>10, <1>11, <1>12, <1>13, <1>14,
     <1>15, <1>16, <1>17 DEF Next, Worker, LogReset, Checkpoint, Mutation

-----------------------------------------------------------------------------
(* What a crash leaves, and what recovery makes of it.                     *)

\* The files as they are, or as a crash may leave them.
Left(sl, w) ==
  /\ sl \in [Slots -> SlotFiles] /\ w \in LogFiles
  /\ \A s \in Slots : sl[s] \in Copies(s) \cup {NoSlot} /\ (slot[s] = slotD[s] => sl[s] = slot[s])
  /\ Extends(wal, walD) => Extends(wal, w) /\ Extends(w, walD)
  /\ w = NoLog \/ w = walD \/ Extends(wal, w)

\* A crash leaves such files.
LEMMA OutcomesLeft ==
  ASSUME TypeOK, NEW sl \in SlotOutcomes, NEW w \in LogOutcomes
  PROVE  Left(sl, w)
<1>1. sl \in [Slots -> SlotFiles]
  BY SlotOutcomesType
<1>2. \A s \in Slots : sl[s] \in Copies(s) \cup {NoSlot} /\ (slot[s] = slotD[s] => sl[s] = slot[s])
  BY DEF SlotOutcomes, Copies
<1>3. QED
  BY <1>1, <1>2, LogOutcomeBetween DEF Left

\* Without a crash they are what is read.
LEMMA FilesLeft == TypeOK => Left(slot, wal)
BY ExtendsItself DEF Left, Copies, TypeOK

\* A commit record that is read and not left was not flushed.
LEMMA LostRecord ==
  ASSUME TypeOK, NEW w \in LogFiles, Extends(wal, w), Extends(w, walD),
         NEW y \in CommitIds(wal.recs) \ CommitIds(w.recs)
  PROVE  \E i \in DOMAIN wal.recs :
           i > Len(walD.recs) /\ wal.recs[i].kind = "commit" /\ wal.recs[i].id = y
<1>1. PICK i \in DOMAIN wal.recs : wal.recs[i].kind = "commit" /\ wal.recs[i].id = y
  BY DEF CommitIds
<1>2. /\ DOMAIN wal.recs = 1 .. Len(wal.recs) /\ DOMAIN w.recs = 1 .. Len(w.recs)
      /\ Len(wal.recs) \in Nat /\ Len(w.recs) \in Nat /\ Len(walD.recs) \in Nat
  BY RecordsOf DEF TypeOK
<1>3. i \notin DOMAIN w.recs
  <2>1. i \in DOMAIN w.recs => w.recs[i] = wal.recs[i]
    BY DEF Extends
  <2>2. QED
    BY <1>1, <2>1 DEF CommitIds
<1>4. Len(walD.recs) <= Len(w.recs)
  BY DEF Extends
<1>5. QED
  BY <1>1, <1>2, <1>3, <1>4

\* The slot that wins when an open store is left: the active one, or the new
\* checkpoint as soon as it may have reached the disk.
LEMMA WinnerOfOpen ==
  ASSUME SlotInv, OtherSlot, faults = 0, pc # "down", ~Wiping,
         NEW sl, NEW w, Left(sl, w), NEW x, x = sl[Winner(sl)]
  PROVE  /\ \/ x = slot[active] /\ x.gen = generation /\ ~Sealing
            \/ /\ Sealing \/ pc = "slot.flush"
               /\ x = slot[Other(active)] /\ x.gen = generation + 1 /\ x.tree = tree
            \/ generation = 0 /\ x.gen = 0 /\ ~Sealing
         /\ x.gen \in Nat
<1> DEFINE y == sl[active]
           o == sl[Other(active)]
<1>1. /\ slot[active] = slotD[active] /\ slot[active].gen = generation
      /\ active \in Slots /\ Other(active) \in Slots /\ Other(active) # active
  BY ActiveSlot
<1>2. /\ generation \in Nat /\ \A s \in Slots : slot[s].gen \in Nat /\ slotD[s].gen \in Nat
  BY SlotTypes DEF SlotInv
<1>3. y = slot[active] /\ y.gen = generation
  BY <1>1 DEF Left
<1>4. o.gen \in Nat /\ o \in {slot[Other(active)], slotD[Other(active)], NoSlot}
  BY <1>1, <1>2 DEF Left, Copies, SlotFiles
<1>5. \/ x = y /\ y.gen >= o.gen
      \/ x = o /\ o.gen >= y.gen
  <2>1. CASE active = "a"
    BY <1>2, <1>3, <1>4, <2>1 DEF Winner, Other
  <2>2. CASE active = "b"
    BY <1>2, <1>3, <1>4, <2>2 DEF Winner, Other
  <2>3. QED
    BY <1>1, <2>1, <2>2 DEF Slots
<1>6. CASE Sealing
  <2>1. o = slot[Other(active)] /\ o.gen = generation + 1
    BY <1>1, <1>6 DEF Sealing, SlotInv, SlotProgress, Left
  <2>2. QED
    BY <1>2, <1>3, <1>5, <1>6, <2>1 DEF OtherSlot, NewCheckpoint
<1>7. CASE ~Sealing
  <2>1. CASE o.gen > generation
    <3>1. o = slot[Other(active)] /\ pc = "slot.flush"
      BY <1>2, <1>4, <1>7, <2>1 DEF OtherSlot, NoSlot
    <3>2. o.gen = generation + 1 /\ o.tree = tree
      BY <3>1 DEF SlotInv, SlotProgress, OtherSlot, NewCheckpoint
    <3>3. QED
      BY <1>2, <1>3, <1>4, <1>5, <2>1, <3>1, <3>2
  <2>2. CASE o.gen <= generation
    <3>1. o.gen = generation => generation = 0
      <4>1. NoSlot.gen = 0
        BY DEF NoSlot
      <4>2. \A u \in {slot["a"], slotD["a"]}, v \in {slot["b"], slotD["b"]} :
              u.gen = v.gen => u.gen = 0
        BY DEF SlotInv, HealthySlots
      <4>3. QED
        BY <1>1, <1>3, <1>4, <4>1, <4>2 DEF Slots, Other
    <3>2. QED
      BY <1>2, <1>3, <1>4, <1>5, <1>7, <2>2, <3>1
  <2>3. QED
    BY <1>2, <1>4, <2>1, <2>2
<1>8. QED
  BY <1>6, <1>7

\* A new checkpoint is all there is to recover: no log adds to it.
LEMMA NewSlotRecovers ==
  ASSUME SlotInv, LogReplaced, LogRuns, LogRests, OtherSlot, faults = 0, pc # "down", ~Wiping,
         NEW sl, NEW w, Left(sl, w), NEW x, x = sl[Winner(sl)],
         Sealing \/ pc = "slot.flush", x.gen = generation + 1, x.tree = tree
  PROVE  Recovered(sl, w) = tree
<1>1. /\ sl \in [Slots -> SlotFiles] /\ w \in LogFiles /\ generation \in Nat /\ x.gen # 0
      /\ wal \in LogFiles
  BY DEF Left, SlotInv, TypeInv, TypeOK
<1>2. w.gen = generation + 1 => CommitIds(w.recs) = {} /\ Replayable(w.recs, x.tree)
  <2>1. CASE pc = "slot.flush" \/ pc = "log.truncate"
    <3>1. wal.gen = generation /\ walD.gen = generation
      BY <2>1 DEF LogRuns, LogRests, Live, SlotSteps, Sealing, LogSteps
    <3>2. w.gen # generation + 1
      BY <1>1, <3>1 DEF Left, Extends, NoLog
    <3>3. QED
      BY <3>2
  <2>2. CASE pc = "log.header"
    BY <1>1, <2>2 DEF Left, Extends, NoLog, LogReplaced, LogRests, Sealing
  <2>3. CASE pc = "log.flush"
    <3>1. wal.recs = <<>> /\ walD.gen = generation
      BY <2>3 DEF LogReplaced, LogRests, Sealing
    <3>2. SUFFICES ASSUME Extends(wal, w)
                   PROVE  CommitIds(w.recs) = {} /\ Replayable(w.recs, x.tree)
      BY <1>1, <3>1 DEF Left, NoLog
    <3>3. CommitIds(wal.recs) = {} /\ Replayable(wal.recs, x.tree)
      BY <3>1, EmptyReplays
    <3>4. CommitIds(w.recs) \subseteq {} /\ Replayable(w.recs, x.tree)
      BY <1>1, <3>2, <3>3, FrontReplays
    <3>5. QED
      BY <3>4
  <2>4. QED
    BY <2>1, <2>2, <2>3 DEF Sealing, LogSteps
<1>3. CASE w.gen = generation + 1
  <2>1. Recovered(sl, w) = x.tree \cup CommitIds(w.recs)
    BY <1>1, <1>2, <1>3, RecoveredIs
  <2>2. QED
    BY <1>2, <1>3, <2>1
<1>4. CASE w.gen # generation + 1
  BY <1>1, <1>4, RecoveredIs
<1>5. QED
  BY <1>3, <1>4

\* What a store that runs leaves: nothing but its tree, all that was reported but
\* the last mutation while its commit record is not flushed, and all of its tree
\* in the files as they are.
LEMMA RunningRecovers ==
  ASSUME LogInv, faults = 0, Running, NEW sl, NEW w, Left(sl, w)
  PROVE  /\ Recovered(sl, w) \subseteq tree
         /\ generation > 0 =>
              \A y \in acked \ Recovered(sl, w) : dirty /\ \A z \in acked : z <= y
         /\ generation > 0 /\ w = wal /\ pc # "commit" => Recovered(sl, w) = tree
<1> DEFINE x == sl[Winner(sl)]
<1>1. /\ sl \in [Slots -> SlotFiles] /\ w \in LogFiles /\ wal \in LogFiles /\ TypeOK
      /\ generation \in Nat /\ Healthy /\ SlotInv /\ pc # "down" /\ ~Wiping
      /\ active \in Slots
  BY DEF Left, LogInv, SlotInv, TypeInv, TypeOK, Running
<1>2. /\ \/ x = slot[active] /\ x.gen = generation /\ ~Sealing
         \/ /\ Sealing \/ pc = "slot.flush"
            /\ x.gen = generation + 1 /\ x.tree = tree
         \/ generation = 0 /\ x.gen = 0 /\ ~Sealing
      /\ x.gen \in Nat
  BY <1>1, WinnerOfOpen DEF Healthy
<1>3. CASE x.gen = 0
  <2>1. generation = 0
    BY <1>1, <1>2, <1>3
  <2>2. Recovered(sl, w) = {}
    BY <1>1, <1>3, RecoveredIs
  <2>3. QED
    BY <2>1, <2>2
<1>4. CASE x.gen = generation + 1 /\ x.tree = tree /\ (Sealing \/ pc = "slot.flush")
  <2>1. Recovered(sl, w) = tree
    BY <1>1, <1>4, NewSlotRecovers DEF Healthy, LogInv
  <2>2. acked \subseteq tree
    BY <1>1 DEF Healthy, TreeRunning
  <2>3. QED
    BY <2>1, <2>2
<1>5. CASE x = slot[active] /\ x.gen = generation /\ x.gen > 0 /\ ~Sealing
  <2>1. Live /\ pc \notin LogSteps
    <3>1. pc \notin LogSteps
      BY <1>1, <1>5 DEF TypeOK, LogSteps, Sealing, Running, Booting, Wiping
    <3>2. pc \notin WipeSteps
      BY <1>1 DEF SlotInv, WipeProgress, WipeSteps, Wiping
    <3>3. QED
      BY <1>1, <3>1, <3>2 DEF TypeOK, PCs, Live, MutationSteps, SlotSteps, LogSteps, WipeSteps
  <2>2. wal.gen = generation /\ Extends(wal, walD) /\ (~dirty => walD = wal)
    BY <1>1, <2>1 DEF Healthy, LogRuns
  <2>3. Extends(wal, w) /\ Extends(w, walD) /\ w.gen = generation
    BY <2>2 DEF Left, Extends
  <2>4. Replayable(w.recs, x.tree) /\ CommitIds(w.recs) \subseteq CommitIds(wal.recs)
    <3>1. Replayable(wal.recs, x.tree)
      BY <1>1, <1>5, <2>2 DEF Healthy, LogsReplay, Copies
    <3>2. QED
      BY <1>1, <2>3, <3>1, FrontReplays
  <2>5. Recovered(sl, w) = x.tree \cup CommitIds(w.recs)
    BY <1>1, <1>2, <1>5, <2>3, <2>4, RecoveredIs
  <2>6. /\ acked \subseteq tree
        /\ tree = x.tree \cup CommitIds(wal.recs) \cup (IF pc = "commit" THEN {cur.id} ELSE {})
    BY <1>1, <1>5, <2>1 DEF Healthy, TreeRunning
  <2>7. ASSUME NEW y \in acked \ Recovered(sl, w)
        PROVE  dirty /\ \A z \in acked : z <= y
    <3>1. pc = "commit" => y # cur.id
      <4>1. pc = "commit" => y < cur.id /\ cur.id \in Nat
        BY <1>1, <2>7 DEF Healthy, Numbered, TypeOK, SlotInv, TypeInv, MutationSteps
      <4>2. QED
        BY <1>1, <2>7, <4>1 DEF TypeOK, Ops
    <3>2. y \in CommitIds(wal.recs) \ CommitIds(w.recs)
      BY <2>5, <2>6, <2>7, <3>1
    <3>3. PICK i \in DOMAIN wal.recs :
            i > Len(walD.recs) /\ wal.recs[i].kind = "commit" /\ wal.recs[i].id = y
      BY <1>1, <2>3, <3>2, LostRecord
    <3>4. \A z \in acked : z <= y
      BY <1>1, <2>1, <3>3 DEF Healthy, OnlyTheLast
    <3>5. dirty
      BY <1>1, <2>2, <3>3, RecordsOf
    <3>6. QED
      BY <3>4, <3>5
  <2>8. QED
    BY <2>4, <2>5, <2>6, <2>7
<1>6. QED
  BY <1>1, <1>2, <1>3, <1>4, <1>5

\* What a boot under way leaves recovers nothing but what it brought up.
LEMMA BootingRecovers ==
  ASSUME LogInv, faults = 0, Booting, NEW sl, NEW w, Left(sl, w)
  PROVE  Recovered(sl, w) \subseteq tree
<1> DEFINE x == sl[Winner(sl)]
<1>1. /\ sl \in [Slots -> SlotFiles] /\ w \in LogFiles /\ wal \in LogFiles /\ walD \in LogFiles
      /\ generation \in Nat /\ Healthy /\ SlotInv /\ pc # "down" /\ ~Wiping
      /\ active \in Slots
  BY DEF Left, LogInv, SlotInv, TypeInv, TypeOK, Booting, Wiping
<1>2. /\ \/ x = slot[active] /\ x.gen = generation /\ ~Sealing
         \/ /\ Sealing \/ pc = "slot.flush"
            /\ x.gen = generation + 1 /\ x.tree = tree
         \/ generation = 0 /\ x.gen = 0 /\ ~Sealing
      /\ x.gen \in Nat
  BY <1>1, WinnerOfOpen DEF Healthy
<1>3. CASE x.gen = 0
  BY <1>1, <1>3, RecoveredIs
<1>4. CASE x.gen = generation + 1 /\ x.tree = tree /\ (Sealing \/ pc = "slot.flush")
  BY <1>1, <1>4, NewSlotRecovers DEF Healthy, LogInv
<1>5. CASE x = slot[active] /\ x.gen = generation /\ x.gen > 0
  <2>1. x.tree \subseteq tree
    BY <1>1, <1>5 DEF Healthy, TreeBooting
  <2>2. CASE w.gen # x.gen
    BY <1>1, <1>5, <2>1, <2>2, RecoveredIs
  <2>3. ASSUME w.gen = x.gen
        PROVE  CommitIds(w.recs) \subseteq tree /\ Replayable(w.recs, x.tree)
    <3>1. \A v \in {wal, walD} : v.gen = generation =>
            CommitIds(v.recs) \subseteq tree /\ Replayable(v.recs, x.tree)
      BY <1>1, <1>5 DEF Healthy, TreeBooting, LogsReplay, Copies
    <3>2. CASE w = walD
      BY <1>5, <2>3, <3>1, <3>2
    <3>3. CASE Extends(wal, w)
      <4>1. wal.gen = generation
        BY <1>5, <2>3, <3>3 DEF Extends
      <4>2. QED
        BY <1>1, <3>1, <3>3, <4>1, FrontReplays
    <3>4. w # NoLog
      BY <1>1, <1>5, <2>3 DEF NoLog
    <3>5. QED
      BY <3>2, <3>3, <3>4 DEF Left
  <2>4. CASE w.gen = x.gen
    BY <1>1, <1>5, <2>1, <2>3, <2>4, RecoveredIs
  <2>5. QED
    BY <2>2, <2>4
<1>6. QED
  BY <1>1, <1>2, <1>3, <1>4, <1>5

\* What a reset under way leaves recovers nothing that was not reported.
LEMMA WipingRecovers ==
  ASSUME LogInv, faults = 0, Wiping, NEW sl \in SlotOutcomes, NEW w \in LogOutcomes
  PROVE  Recovered(sl, w) \subseteq acked
<1>1. TypeOK /\ TreeWiping
  BY DEF LogInv, SlotInv, TypeInv, Healthy
<1>2. FilesWithin(acked)
  BY <1>1 DEF TreeWiping, Copies, CommitIds, FilesWithin, CommitsIn
<1>3. QED
  BY <1>1, <1>2, OutcomesWithin

\* What is left of a closed store: no more than before, and all that was reported
\* but the last mutation.
LEMMA DownRecovers ==
  ASSUME LogInv, faults = 0, pc = "down", NEW sl, NEW w, Left(sl, w)
  PROVE  /\ Recovered(sl, w) \subseteq Recovered(slot, wal)
         /\ \A y \in acked \ Recovered(sl, w) : \A z \in acked : z <= y
<1> DEFINE x == slot[Winner(slot)]
<1>1. /\ slot \in [Slots -> SlotFiles] /\ w \in LogFiles /\ wal \in LogFiles /\ TypeOK
      /\ Healthy /\ SlotInv /\ sl \in [Slots -> SlotFiles]
  BY DEF Left, LogInv, SlotInv, TypeInv, TypeOK
<1>2. sl = slot
  BY <1>1 DEF Left, SlotInv, HealthySlots
<1>3. Extends(wal, w) /\ Extends(w, walD) /\ w.gen = wal.gen
  BY <1>1 DEF Healthy, LogRests, Left, Extends
<1>4. x.gen \in Nat /\ Winner(slot) \in Slots
  BY <1>1, WinnerIsASlot DEF SlotFiles
<1>5. acked \subseteq Recovered(slot, wal)
  BY <1>1 DEF Healthy, TreeDown
<1>6. CASE x.gen = 0 \/ wal.gen # x.gen
  BY <1>1, <1>2, <1>3, <1>5, <1>6, RecoveredIs
<1>7. CASE x.gen # 0 /\ wal.gen = x.gen
  <2>1. Replayable(wal.recs, x.tree)
    BY <1>1, <1>4, <1>7 DEF Healthy, LogsReplay, Copies
  <2>2. Replayable(w.recs, x.tree) /\ CommitIds(w.recs) \subseteq CommitIds(wal.recs)
    BY <1>1, <1>3, <2>1, FrontReplays
  <2>3. /\ Recovered(slot, wal) = x.tree \cup CommitIds(wal.recs)
        /\ Recovered(sl, w) = x.tree \cup CommitIds(w.recs)
    BY <1>1, <1>2, <1>3, <1>7, <2>1, <2>2, RecoveredIs
  <2>4. ASSUME NEW y \in acked \ Recovered(sl, w) PROVE \A z \in acked : z <= y
    <3>1. y \in CommitIds(wal.recs) \ CommitIds(w.recs)
      BY <1>5, <2>3, <2>4
    <3>2. PICK i \in DOMAIN wal.recs :
            i > Len(walD.recs) /\ wal.recs[i].kind = "commit" /\ wal.recs[i].id = y
      BY <1>1, <1>3, <3>1, LostRecord
    <3>3. QED
      BY <1>1, <3>2 DEF Healthy, OnlyTheLast
  <2>5. QED
    BY <2>2, <2>3, <2>4
<1>8. QED
  BY <1>6, <1>7

-----------------------------------------------------------------------------
(* The tree beside the files, step by step.                                *)

\* A crash makes of an open store one that is down and loses what was not flushed;
\* of what is left no more than one mutation had not been reported.
LEMMA CrashToDown ==
  ASSUME LogInv, faults = 0, NEW sl \in SlotOutcomes, NEW w \in LogOutcomes
  PROVE  AtMostOne(Recovered(sl, w) \ acked)
<1>1. TypeOK /\ Left(sl, w) /\ Healthy
  BY OutcomesLeft DEF LogInv, SlotInv, TypeInv
<1>2. CASE Running
  BY <1>1, <1>2, RunningRecovers DEF Healthy, TreeRunning, AtMostOne
<1>3. CASE Booting
  BY <1>1, <1>3, BootingRecovers DEF Healthy, TreeBooting, AtMostOne
<1>4. CASE Wiping
  BY <1>4, WipingRecovers DEF AtMostOne
<1>5. CASE pc = "down"
  BY <1>1, <1>5, DownRecovers DEF Healthy, TreeDown, AtMostOne
<1>6. QED
  BY <1>2, <1>3, <1>4, <1>5 DEF Running

\* A closed store holds what was reported; a crash takes from both alike.
LEMMA TreeDownNext ==
  ASSUME LogInv, [Next]_vars, faults' = 0
  PROVE  TreeDown'
<1> USE DEF TreeDown
<1>1. faults \in Nat /\ TypeOK
  BY DEF LogInv, SlotInv, TypeInv, TypeOK
<1>2. CASE Close
  <2>1. faults = 0 /\ Running /\ pc = "serving" /\ Healthy
    BY <1>2 DEF Close, counts, LogInv, Running, Booting, Wiping
  <2>2. Recovered(slot, wal) \subseteq tree
    BY <1>1, <2>1, RunningRecovers, FilesLeft
  <2>3. tree \subseteq acked \cup {0}
    BY <2>1 DEF Healthy, TreeRunning, Numbered, NoOp
  <2>4. AtMostOne(Recovered(slot, wal) \ acked)
    BY <2>2, <2>3 DEF AtMostOne
  <2>5. acked' = acked \cap Recovered(slot, wal) /\ Recovered(slot, wal)' = Recovered(slot, wal)
    BY <1>2 DEF Close, disk, Recovered
  <2>6. QED
    BY <2>4, <2>5 DEF AtMostOne
<1>3. CASE Crash
  <2>1. PICK sl \in SlotOutcomes, w \in LogOutcomes :
          slot' = sl /\ wal' = w /\ acked' = acked \cap Recovered(sl, w)
    BY <1>3 DEF Crash
  <2>2. AtMostOne(Recovered(sl, w) \ acked)
    BY <1>3, CrashToDown DEF Crash
  <2>3. Recovered(slot, wal)' = Recovered(sl, w)
    BY <2>1 DEF Recovered
  <2>4. QED
    BY <2>1, <2>2, <2>3 DEF AtMostOne
<1>4. CASE Fail
  BY <1>1, <1>4 DEF Fail
<1>5. CASE UNCHANGED vars
  <2>1. faults = 0 /\ TreeDown /\ pc' = pc /\ acked' = acked
    BY <1>5 DEF vars, counts, ghosts, LogInv, Healthy
  <2>2. Recovered(slot, wal)' = Recovered(slot, wal)
    BY <1>5 DEF vars, disk, Recovered
  <2>3. QED
    BY <2>1, <2>2 DEF AtMostOne
<1>6. CASE Recover \/ Worker \/ BeginCheckpoint \/ Sync \/ BeginWipe
  BY <1>6 DEF Recover, Worker, LogReset, LogTruncate, LogHeader, LogFlushBoot,
     LogFlushCheckpoint, LogFlushWipe, Checkpoint, CheckpointSync, SlotTruncate, SlotWrite,
     SlotFlush, Mutation, PlanAppend, PlanFlush, Apply, Commit, Wipe, WipeTruncate, WipeFlush,
     BeginCheckpoint, Sync, BeginWipe, Idle
<1>7. CASE \E needs \in {0} \cup tree : Begin(needs)
  BY <1>7 DEF Begin
<1>8. QED
  BY <1>2, <1>3, <1>4, <1>5, <1>6, <1>7 DEF Next

\* A boot starts on what recovery shows and changes nothing of it.
LEMMA TreeBootingNext ==
  ASSUME LogInv, [Next]_vars, faults' = 0
  PROVE  TreeBooting'
<1> USE DEF TreeBooting
<1>1. /\ faults \in Nat /\ TypeOK /\ generation \in Nat /\ active \in Slots
      /\ slot \in [Slots -> SlotFiles] /\ wal \in LogFiles /\ walD \in LogFiles
      /\ Other(active) # active /\ Other(active) \in Slots
  BY SlotTypes, OtherIsOther DEF LogInv, SlotInv, TypeInv, TypeOK
<1>2. CASE Recover
  <2>1. faults = 0 /\ pc = "down" /\ Healthy
    BY <1>2 DEF Recover, counts, LogInv
  <2>2. tree' = Recovered(slot, wal) /\ UNCHANGED <<slot, wal, walD, acked>>
    BY <1>2 DEF Recover, disk, ghosts
  <2>3. acked' \subseteq tree' /\ AtMostOne(tree' \ acked')
    BY <2>1, <2>2 DEF Healthy, TreeDown
  <2>4. ASSUME generation' > 0
        PROVE  /\ slot[active'].tree \subseteq tree'
               /\ \A w \in {wal, walD} : w.gen = generation' => CommitIds(w.recs) \subseteq tree'
    <3>1. /\ active' = Winner(slot) /\ slot[active'].gen = generation' /\ active' \in Slots
          /\ slot[active'].gen # 0
      BY <1>1, <1>2, <2>4, WinnerIsASlot DEF Recover, SlotFiles
    <3>2. Extends(wal, walD)
      BY <2>1 DEF Healthy, LogRests
    <3>3. CASE wal.gen # generation'
      BY <1>1, <2>2, <3>1, <3>2, <3>3, RecoveredIs DEF Extends
    <3>4. CASE wal.gen = generation'
      <4>1. Replayable(wal.recs, slot[active'].tree)
        BY <1>1, <2>1, <2>4, <3>1, <3>4 DEF Healthy, LogsReplay, Copies
      <4>2. tree' = slot[active'].tree \cup CommitIds(wal.recs)
        BY <1>1, <2>2, <3>1, <3>4, <4>1, RecoveredIs
      <4>3. CommitIds(walD.recs) \subseteq CommitIds(wal.recs)
        BY <1>1, <3>2, FrontReplays
      <4>4. QED
        BY <4>2, <4>3
    <3>5. QED
      BY <3>3, <3>4
  <2>5. QED
    BY <2>2, <2>3, <2>4
<1>3. CASE LogTruncate \/ LogHeader
  BY <1>3, EmptyReplays
     DEF LogTruncate, LogHeader, memory, ghosts, counts, NoLog, LogInv, Healthy, Booting, AtMostOne
<1>4. CASE LogFlushBoot
  BY <1>4, EmptyReplays
     DEF LogFlushBoot, LogFlushed, counts, LogReplaced, LogInv, Healthy, Booting, AtMostOne
<1>5. CASE LogFlushCheckpoint \/ LogFlushWipe \/ Commit
  BY <1>5 DEF LogFlushCheckpoint, LogFlushWipe, Commit, Idle, Booting, LogInv, SlotInv, TypeInv,
     MutationSteps
<1>6. CASE CheckpointSync
  BY <1>6 DEF CheckpointSync, counts, ghosts, LogInv, Healthy, Booting, AtMostOne
<1>7. CASE SlotTruncate
  BY <1>1, <1>7 DEF SlotTruncate, memory, counts, ghosts, LogInv, Healthy, Booting, AtMostOne
<1>8. CASE SlotWrite
  BY <1>1, <1>8 DEF SlotWrite, memory, counts, ghosts, LogInv, Healthy, Booting, AtMostOne
<1>9. CASE SlotFlush
  BY <1>1, <1>9 DEF SlotFlush, memory, counts, ghosts, LogInv, Healthy, Booting, AtMostOne
<1>10. CASE PlanAppend \/ PlanFlush \/ Apply
  BY <1>10 DEF PlanAppend, PlanFlush, Apply, Booting, LogInv, SlotInv, TypeInv, MutationSteps
<1>11. CASE Wipe
  BY <1>11 DEF Wipe, WipeTruncate, WipeFlush, Booting, LogInv, SlotInv, WipeProgress, WipeSteps
<1>12. CASE \E needs \in {0} \cup tree : Begin(needs)
  BY <1>12 DEF Begin, Booting
<1>13. CASE BeginCheckpoint \/ Sync \/ BeginWipe \/ Close \/ Crash
  BY <1>13 DEF BeginCheckpoint, Sync, BeginWipe, Close, Crash, Forget, Booting
<1>14. CASE Fail
  BY <1>1, <1>14 DEF Fail
<1>15. CASE UNCHANGED vars
  BY <1>15 DEF vars, disk, memory, counts, ghosts, LogInv, Healthy, Booting, AtMostOne
<1>16. QED
  BY <1>2, <1>3, <1>4, <1>5, <1>6, <1>7, <1>8, <1>9, <1>10, <1>11, <1>12, <1>13, <1>14, <1>15
     DEF Next, Worker, LogReset, Checkpoint, Mutation

\* A reset starts where everything in the files has been reported.
LEMMA TreeWipingNext ==
  ASSUME LogInv, [Next]_vars, faults' = 0
  PROVE  TreeWiping'
<1> USE DEF TreeWiping, Copies
<1>1. /\ faults \in Nat /\ generation \in Nat /\ active \in Slots /\ Slots = {"a", "b"}
      /\ slot \in [Slots -> SlotFiles] /\ slotD \in [Slots -> SlotFiles]
      /\ \A s \in Slots : slot[s].gen \in Nat /\ slotD[s].gen \in Nat
      /\ wal \in LogFiles /\ walD \in LogFiles
      /\ Other(active) # active /\ Other(active) \in Slots
      /\ \A s \in Slots : s = active \/ s = Other(active)
      /\ NoSlot.tree = {}
  BY SlotTypes, OtherIsOther DEF LogInv, SlotInv, TypeInv, TypeOK, Slots, Other, NoSlot
<1>2. CASE Recover \/ LogFlushBoot \/ LogFlushCheckpoint \/ LogFlushWipe \/ Checkpoint
  BY <1>2 DEF Recover, LogFlushBoot, LogFlushCheckpoint, LogFlushWipe, Checkpoint,
     CheckpointSync, SlotTruncate, SlotWrite, SlotFlush, Idle, Wiping, LogInv, SlotInv,
     WipeProgress, SlotSteps
<1>3. CASE LogTruncate \/ LogHeader
  BY <1>3, EmptyReplays
     DEF LogTruncate, LogHeader, memory, counts, ghosts, NoLog, LogInv, Healthy, Wiping
<1>4. CASE Mutation
  BY <1>4 DEF Mutation, PlanAppend, PlanFlush, Apply, Commit, Idle, Wiping, LogInv, SlotInv,
     TypeInv, MutationSteps
<1>5. CASE Wipe
  <2>1. Wiping /\ faults = 0 /\ UNCHANGED <<wal, walD, acked>>
    BY <1>5 DEF Wipe, WipeTruncate, WipeFlush, counts, ghosts, LogInv, SlotInv, WipeProgress,
       WipeSteps, Wiping
  <2>2. TreeWiping
    BY <2>1 DEF LogInv, Healthy
  <2>3. ASSUME NEW s \in Slots, NEW at, NEW next, WipeTruncate(s, at, next) PROVE TreeWiping'
    BY <1>1, <2>1, <2>2, <2>3 DEF WipeTruncate
  <2>4. ASSUME NEW s \in Slots, NEW at, NEW next, WipeFlush(s, at, next) PROVE TreeWiping'
    BY <1>1, <2>1, <2>2, <2>4 DEF WipeFlush
  <2>5. QED
    BY <1>5, <2>3, <2>4, SlotNames DEF Wipe
<1>6. CASE BeginWipe
  <2>1. /\ faults = 0 /\ Healthy /\ Running /\ pc = "serving" /\ ~Wiping
        /\ UNCHANGED <<slot, slotD, wal, walD, acked>>
    BY <1>6 DEF BeginWipe, LogInv, Running, Booting, Wiping, disk, ghosts
  <2>2. tree = slot[active].tree \cup CommitIds(wal.recs) /\ tree \subseteq acked
    <3>1. /\ tree = slot[active].tree \cup CommitIds(wal.recs)
          /\ tree \subseteq acked \cup {0} /\ 0 \notin tree
      BY <2>1 DEF Healthy, TreeRunning, Numbered, NoOp, LogSteps, LogInv, SlotInv, TypeInv,
         TypeOK, Ops
    <3>2. QED
      BY <3>1
  <2>3. slot[active] = slotD[active] /\ slot[active].gen = generation
    BY <2>1, ActiveSlot DEF LogInv
  <2>4. \A x \in Copies(Other(active)) : x.tree \subseteq slot[active].tree
    <3>1. \A x \in Copies(Other(active)) : x.gen <= generation /\ x.gen \in Nat
      BY <1>1, <2>1 DEF Healthy, OtherSlot, Sealing, LogSteps
    <3>2. \A x \in Copies(Other(active)) : x.gen = generation => x.gen = 0
      BY <1>1, <2>1, <2>3 DEF LogInv, SlotInv, HealthySlots
    <3>3. Other(Other(active)) = active
      BY <1>1, OtherIsOther
    <3>4. \A x \in Copies(Other(active)) : x.gen < generation \/ x.gen = 0
      BY <1>1, <3>1, <3>2
    <3>5. QED
      BY <1>1, <2>1, <2>3, <3>3, <3>4 DEF Healthy, SlotsNest
  <2>5. CommitIds(walD.recs) \subseteq CommitIds(wal.recs)
    BY <1>1, <2>1, FrontReplays DEF Healthy, LogRuns, Live
  <2>6. QED
    BY <1>1, <2>1, <2>2, <2>3, <2>4, <2>5
<1>7. CASE \E needs \in {0} \cup tree : Begin(needs)
  BY <1>7 DEF Begin, Wiping
<1>8. CASE BeginCheckpoint \/ Sync \/ Close \/ Crash
  BY <1>8 DEF BeginCheckpoint, Sync, Close, Crash, Forget, Wiping
<1>9. CASE Fail
  BY <1>1, <1>9 DEF Fail
<1>10. CASE UNCHANGED vars
  BY <1>10 DEF vars, disk, counts, ghosts, LogInv, Healthy, Wiping
<1>11. QED
  BY <1>2, <1>3, <1>4, <1>5, <1>6, <1>7, <1>8, <1>9, <1>10 DEF Next, Worker, LogReset

\* A commit record says what Apply has done, and a finished checkpoint holds the
\* tree; no other step moves either beside the other.
LEMMA TreeRunningNext ==
  ASSUME TypeInv, WipeProgress, LogReplaced, LogRuns, Numbered, NewCheckpoint, TreeRunning,
         [Next]_vars, faults' = 0
  PROVE  TreeRunning'
<1> USE DEF TreeRunning
<1>1. /\ faults \in Nat /\ TypeInv /\ active \in Slots /\ Slots = {"a", "b"}
      /\ slot \in [Slots -> SlotFiles] /\ slotD \in [Slots -> SlotFiles]
      /\ Other(active) # active /\ Other(active) \in Slots
      /\ tree \subseteq Ops /\ 0 \notin Ops
  BY SlotTypes, OtherIsOther DEF TypeInv, TypeOK, Slots, Ops
<1>2. CASE Recover \/ LogFlushBoot
  BY <1>2 DEF Recover, LogFlushBoot, Running, Booting
<1>3. CASE LogTruncate \/ LogHeader
  BY <1>3 DEF LogTruncate, LogHeader, memory, counts, ghosts, Running, Booting,
     Wiping, LogSteps
<1>4. CASE LogFlushCheckpoint
  <2>1. /\ pc = "log.flush" /\ Sealing
        /\ pc' = "serving" /\ cur' = NoOp /\ active' = Other(active)
        /\ UNCHANGED <<slot, wal, tree>>
    BY <1>4 DEF LogFlushCheckpoint, LogFlushed, Idle, Sealing, LogSteps
  <2>2. tree = slot[Other(active)].tree /\ CommitIds(wal.recs) = {}
    BY <2>1, EmptyReplays DEF NewCheckpoint, WipeProgress
  <2>3. acked' \subseteq tree /\ tree \subseteq acked' \cup {0}
    <3>1. CASE ret = "mount"
      BY <1>4, <3>1 DEF LogFlushCheckpoint
    <3>2. CASE ret # "mount"
      <4>1. Running
        BY <2>1, <3>2 DEF Sealing, Running, Booting, Wiping
      <4>2. acked \subseteq tree /\ tree \subseteq acked \cup {cur.id}
        BY <2>1, <4>1
      <4>3. ret = "op" => cur.id \in tree
        BY <2>1, <4>1 DEF LogSteps
      <4>4. ret # "op" => cur.id = 0
        BY <2>1 DEF Numbered, NoOp
      <4>5. acked' = IF ret = "op" THEN acked \cup {cur.id} ELSE acked
        BY <1>4, <3>2 DEF LogFlushCheckpoint
      <4>6. QED
        BY <4>2, <4>3, <4>4, <4>5
    <3>3. QED
      BY <3>1, <3>2
  <2>4. QED
    BY <2>1, <2>2, <2>3 DEF NoOp, SlotSteps, LogSteps
<1>5. CASE LogFlushWipe
  <2>1. /\ pc = "log.flush" /\ ret = "wipe" /\ pc' = "serving" /\ cur' = NoOp
        /\ active' = "b" /\ acked' = {} /\ UNCHANGED <<slot, wal, tree>>
    BY <1>5 DEF LogFlushWipe, LogFlushed, Idle
  <2>2. tree = {} /\ slot["b"].tree = {} /\ CommitIds(wal.recs) = {}
    BY <2>1, EmptyReplays DEF WipeProgress, Wiped, LogSteps
  <2>3. QED
    BY <2>1, <2>2 DEF SlotSteps, LogSteps
<1>6. CASE Checkpoint
  <2>1. /\ pc \in SlotSteps /\ (Running' => Running)
        /\ UNCHANGED <<tree, acked, cur, active, wal, ret>>
        /\ pc' \in SlotSteps \/ pc' = "log.truncate"
    BY <1>6 DEF Checkpoint, CheckpointSync, SlotTruncate, SlotWrite, SlotFlush, memory, ghosts,
       SlotSteps, Running, Booting, Wiping
  <2>2. slot'[active] = slot[active]
    BY <1>1, <1>6 DEF Checkpoint, CheckpointSync, SlotTruncate, SlotWrite, SlotFlush
  <2>3. QED
    BY <2>1, <2>2 DEF SlotSteps, LogSteps
<1>7. CASE Mutation
  <2>1. /\ Running /\ Live /\ ret = "op" /\ cur.id \in Ops
        /\ pc \in MutationSteps /\ pc \notin LogSteps /\ pc \notin SlotSteps
        /\ UNCHANGED <<slot, active>>
    BY <1>1, <1>7 DEF Mutation, PlanAppend, PlanFlush, Apply, Commit, MutationSteps, LogSteps,
       SlotSteps, disk, TypeInv, Running, Booting, Wiping, Live
  <2>2. /\ acked \subseteq tree /\ tree \subseteq acked \cup {cur.id}
        /\ tree = slot[active].tree \cup CommitIds(wal.recs)
                    \cup (IF pc = "commit" THEN {cur.id} ELSE {})
    BY <2>1
  <2>3. CASE PlanAppend
    <3>1. CommitIds(wal'.recs) = CommitIds(wal.recs)
      BY <1>1, <2>1, <2>3, AppendedCommits DEF PlanAppend
    <3>2. QED
      BY <2>1, <2>2, <2>3, <3>1 DEF PlanAppend, ghosts, SlotSteps, LogSteps
  <2>4. CASE PlanFlush
    BY <2>1, <2>2, <2>4 DEF PlanFlush, ghosts, SlotSteps, LogSteps
  <2>5. CASE Apply
    BY <2>1, <2>2, <2>5 DEF Apply, disk, SlotSteps, LogSteps
  <2>6. CASE Commit
    <3>1. CommitIds(wal'.recs) = CommitIds(wal.recs) \cup {cur.id}
      BY <1>1, <2>1, <2>6, AppendedCommits DEF Commit
    <3>2. tree' = tree /\ pc = "commit"
      BY <2>6 DEF Commit
    <3>3. CASE pc' = "ckpt.sync"
      BY <2>1, <2>2, <2>6, <3>1, <3>2, <3>3 DEF Commit, Idle, SlotSteps, LogSteps
    <3>4. CASE pc' = "serving" /\ acked' = acked \cup {cur.id}
      BY <2>1, <2>2, <3>1, <3>2, <3>4 DEF SlotSteps, LogSteps
    <3>5. QED
      BY <2>6, <3>3, <3>4 DEF Commit, Idle
  <2>7. QED
    BY <1>7, <2>3, <2>4, <2>5, <2>6 DEF Mutation
<1>8. CASE Wipe
  BY <1>8 DEF Wipe, WipeTruncate, WipeFlush, Running, Wiping, WipeProgress,
     WipeSteps
<1>9. CASE (\E needs \in {0} \cup tree : Begin(needs)) \/ BeginCheckpoint \/ Sync
  <2>1. /\ Running /\ pc = "serving"
        /\ UNCHANGED <<slot, wal, active, tree, acked>>
        /\ pc' \in {"serving", "plan.append", "ckpt.sync"}
        /\ pc' = "ckpt.sync" => ret' = "ctl"
    BY <1>9 DEF Begin, BeginCheckpoint, Sync, disk, memory, ghosts, Running,
       Booting, Wiping
  <2>2. acked \subseteq tree /\ tree \subseteq acked
    BY <1>1, <2>1 DEF Numbered, NoOp
  <2>3. tree = slot[active].tree \cup CommitIds(wal.recs)
    BY <2>1 DEF LogSteps
  <2>4. QED
    BY <2>1, <2>2, <2>3 DEF SlotSteps, LogSteps
<1>10. CASE BeginWipe \/ Close \/ Crash
  BY <1>10 DEF BeginWipe, Close, Crash, Forget, Running, Wiping
<1>11. CASE Fail
  BY <1>1, <1>11 DEF Fail
<1>12. CASE UNCHANGED vars
  BY <1>12 DEF vars, disk, memory, counts, ghosts, Running, Booting, Wiping
<1>13. QED
  BY <1>2, <1>3, <1>4, <1>5, <1>6, <1>7, <1>8, <1>9, <1>10, <1>11, <1>12
     DEF Next, Worker, LogReset

\* Every commit record that is not flushed was reported after all the others were.
LEMMA OnlyTheLastNext ==
  ASSUME LogInv, [Next]_vars, faults' = 0
  PROVE  OnlyTheLast'
<1> USE DEF OnlyTheLast
<1>1. /\ faults \in Nat /\ TypeInv /\ wal \in LogFiles /\ walD \in LogFiles
      /\ acked \subseteq Nat
  BY DEF LogInv, SlotInv, TypeInv, TypeOK, Ops
<1>2. CASE Recover \/ LogFlushBoot
  BY <1>2 DEF Recover, LogFlushBoot, Running, Booting
<1>3. CASE LogTruncate \/ LogHeader
  BY <1>3 DEF LogTruncate, LogHeader, Running, LogSteps
<1>4. CASE LogFlushCheckpoint \/ LogFlushWipe
  <2>1. wal' = wal /\ walD' = wal /\ wal.recs = <<>>
    BY <1>4 DEF LogFlushCheckpoint, LogFlushWipe, LogFlushed, LogInv, WipeInv, WipeProgress
  <2>2. QED
    BY <2>1
<1>5. CASE CheckpointSync
  <2>1. /\ faults = 0 /\ Healthy /\ (Running' => Running) /\ Live /\ pc = "ckpt.sync"
        /\ UNCHANGED <<wal, acked>> /\ walD' \in {wal, walD} /\ (dirty => walD' = wal)
    BY <1>5 DEF CheckpointSync, counts, ghosts, LogInv, Running, Booting, Wiping, Live, SlotSteps
  <2>2. walD' = wal
    BY <2>1 DEF Healthy, LogRuns
  <2>3. QED
    BY <1>1, <2>1, <2>2, RecordsOf
<1>6. CASE SlotTruncate \/ SlotWrite \/ SlotFlush
  BY <1>6 DEF SlotTruncate, SlotWrite, SlotFlush, counts, ghosts, LogInv, Healthy, Running,
     Booting, Wiping, LogSteps
<1>7. CASE PlanAppend
  <2>1. /\ faults = 0 /\ Healthy /\ Running /\ Live /\ cur.id \in Ops /\ pc \notin LogSteps
        /\ wal' = AppendRecord(wal, "plan") /\ UNCHANGED <<walD, acked>>
    BY <1>1, <1>7 DEF PlanAppend, counts, ghosts, LogInv, TypeInv, MutationSteps, Running, Booting,
       Wiping, Live, LogSteps
  <2>2. /\ wal' \in LogFiles /\ Len(wal'.recs) = Len(wal.recs) + 1
        /\ \A i \in DOMAIN wal.recs : wal'.recs[i] = wal.recs[i]
        /\ wal'.recs[Len(wal.recs) + 1] = [kind |-> "plan", id |-> cur.id, needs |-> cur.needs]
    BY <1>1, <2>1, AppendedAtEnd DEF Healthy
  <2>3. /\ DOMAIN wal'.recs = 1 .. Len(wal.recs) + 1
        /\ DOMAIN wal.recs = 1 .. Len(wal.recs) /\ Len(wal.recs) \in Nat
    BY <1>1, <2>2, RecordsOf
  <2>4. \A i \in DOMAIN wal'.recs : i \in DOMAIN wal.recs \/ wal'.recs[i].kind = "plan"
    BY <2>2, <2>3
  <2>5. QED
    BY <2>1, <2>2, <2>4 DEF Healthy
<1>8. CASE PlanFlush \/ Sync
  <2>1. wal' = wal /\ walD' = wal
    BY <1>8 DEF PlanFlush, Sync
  <2>2. QED
    BY <1>1, <2>1, RecordsOf
<1>9. CASE Apply
  BY <1>9 DEF Apply, disk, counts, LogInv, Healthy, TypeInv, MutationSteps, LogSteps, Running,
     Booting, Wiping, SlotInv
<1>10. CASE Commit
  <2>1. /\ faults = 0 /\ Healthy /\ Live /\ cur.id \in Nat /\ ret = "op" /\ cur.id \in Ops
        /\ wal' = AppendRecord(wal, "commit") /\ walD' = walD
        /\ acked' \subseteq acked \cup {cur.id}
    BY <1>1, <1>10 DEF Commit, counts, LogInv, TypeInv, MutationSteps, Live, Idle, Ops
  <2>2. /\ wal' \in LogFiles /\ Len(wal'.recs) = Len(wal.recs) + 1
        /\ wal'.recs[Len(wal.recs) + 1] = [kind |-> "commit", id |-> cur.id, needs |-> cur.needs]
    BY <1>1, <2>1, AppendedAtEnd DEF Healthy
  <2>3. walD = wal
    BY <1>10, <2>1 DEF Healthy, LogRuns, Commit
  <2>4. \A i \in DOMAIN wal'.recs : i > Len(walD.recs) => wal'.recs[i].id = cur.id
    BY <1>1, <2>2, <2>3, RecordsOf
  <2>5. \A y \in acked' : y <= cur.id
    <3>1. \A y \in acked : y < cur.id
      BY <1>10, <2>1 DEF Healthy, Numbered, Commit
    <3>2. QED
      BY <1>1, <2>1, <3>1
  <2>6. QED
    BY <2>1, <2>4, <2>5
<1>11. CASE Wipe
  BY <1>11 DEF Wipe, WipeTruncate, WipeFlush, Running, Wiping, LogInv, SlotInv, WipeProgress,
     WipeSteps
<1>12. CASE (\E needs \in {0} \cup tree : Begin(needs)) \/ BeginCheckpoint
  BY <1>12 DEF Begin, BeginCheckpoint, disk, counts, ghosts, LogInv, Healthy, Running, Booting,
     Wiping, LogSteps
<1>13. CASE BeginWipe
  BY <1>13 DEF BeginWipe, Running, Wiping
<1>14. CASE Close
  <2>1. /\ faults = 0 /\ Running /\ pc \notin LogSteps /\ Healthy /\ UNCHANGED <<wal, walD>>
        /\ acked' \subseteq acked
    BY <1>14 DEF Close, Running, Booting, Wiping, LogSteps, disk, counts, LogInv
  <2>2. QED
    BY <2>1 DEF Healthy
<1>15. CASE Fail
  BY <1>1, <1>15 DEF Fail
<1>16. CASE Crash
  <2>1. PICK w \in LogOutcomes : wal' = w /\ walD' = w
    BY <1>16 DEF Crash
  <2>2. w \in LogFiles
    BY <1>1, LogOutcomesType DEF TypeInv
  <2>3. QED
    BY <2>1, <2>2, RecordsOf
<1>17. CASE UNCHANGED vars
  BY <1>17 DEF vars, disk, counts, ghosts, LogInv, Healthy, Running, Booting, Wiping
<1>18. QED
  BY <1>2, <1>3, <1>4, <1>5, <1>6, <1>7, <1>8, <1>9, <1>10, <1>11, <1>12, <1>13, <1>14, <1>15,
     <1>16, <1>17 DEF Next, Worker, LogReset, Checkpoint, Mutation

-----------------------------------------------------------------------------
(* The invariant, and what it is for.                                      *)

\* The empty store holds what was reported: nothing.
LEMMA LogInvInit == Init => LogInv
<1> SUFFICES ASSUME Init PROVE LogInv
  OBVIOUS
<1>1. /\ \A s \in Slots : slot[s] = NoSlot /\ slotD[s] = NoSlot
      /\ wal = NoLog /\ walD = NoLog /\ pc = "down" /\ ret = "boot" /\ cur = NoOp
      /\ acked = {} /\ active \in Slots
  BY DEF Init, Slots
<1>2. WipeInv /\ SlotInv /\ TypeOK
  BY WipeInit, SlotInvInit DEF SlotInv, TypeInv
<1>3. LogReplaced /\ LogRuns /\ LogRests
  BY <1>1, <1>2, ExtendsItself
     DEF TypeOK, LogReplaced, LogRuns, LogRests, Live, MutationSteps, SlotSteps, Sealing, LogSteps
<1>4. LogsReplay /\ OnlyTheLast /\ Numbered
  BY <1>1 DEF LogsReplay, Copies, OnlyTheLast, Numbered, NoLog, NoSlot
<1>5. SlotsNest /\ OtherSlot
  BY <1>1, SlotNames DEF SlotsNest, OtherSlot, NewCheckpoint, Copies, Sealing, LogSteps, NoSlot
<1>6. Recovered(slot, wal) = {}
  BY <1>1, WinnerIsASlot DEF Recovered, NoSlot
<1>7. TreeRunning /\ TreeBooting /\ TreeWiping /\ TreeDown
  BY <1>1, <1>6
     DEF TreeRunning, TreeBooting, TreeWiping, TreeDown, Running, Booting, Wiping, AtMostOne
<1>8. QED
  BY <1>2, <1>3, <1>4, <1>5, <1>7 DEF LogInv, Healthy

\* No step breaks it as long as no disk call fails.
LEMMA LogInvNext == LogInv /\ [Next]_vars => LogInv'
<1> SUFFICES ASSUME LogInv, [Next]_vars PROVE LogInv'
  OBVIOUS
<1>1. TypeInv /\ WipeProgress /\ AppliedInv /\ GoneInv /\ LogReplaced /\ WipeInv /\ SlotInv
  BY DEF LogInv, WipeInv, SlotInv
<1>2. WipeInv' /\ SlotInv'
  BY <1>1, AppliedNext, WipeProgressNext, GoneNext, TypeNext, SlotProgressNext,
     ActiveIsFlushedNext, HealthySlotsNext DEF WipeInv, SlotInv
<1>3. LogReplaced'
  BY <1>1, LogReplacedNext
<1>4. ASSUME faults' = 0 PROVE Healthy'
  <2>1. faults = 0
    <3>1. faults' = faults \/ faults' = faults + 1
      BY DEF Next, Recover, Worker, LogReset, LogTruncate, LogHeader, LogFlushBoot,
         LogFlushCheckpoint, LogFlushWipe, LogFlushed, Checkpoint, CheckpointSync, SlotTruncate,
         SlotWrite, SlotFlush, Mutation, PlanAppend, PlanFlush, Apply, Commit, Wipe, WipeTruncate,
         WipeFlush, Begin, BeginCheckpoint, Sync, BeginWipe, Close, Fail, Crash, counts, vars
    <3>2. faults \in Nat
      BY <1>1 DEF TypeInv, TypeOK
    <3>3. QED
      BY <1>4, <3>1, <3>2
  <2>2. /\ LogRuns /\ LogRests /\ LogsReplay /\ SlotsNest /\ OtherSlot /\ Numbered
        /\ TreeRunning /\ TreeBooting
    BY <2>1 DEF LogInv, Healthy
  <2>3. LogRuns' /\ LogRests'
    BY <1>1, <1>4, <2>2, LogRunsNext, LogRestsNext
  <2>4. LogsReplay' /\ Numbered'
    BY <1>1, <1>4, <2>2, LogsReplayNext, NumberedNext
  <2>5. SlotsNest' /\ OtherSlot'
    BY <1>1, <1>4, <2>2, SlotsNestNext, OtherSlotNext
  <2>6. TreeBooting' /\ TreeWiping' /\ TreeDown' /\ OnlyTheLast'
    BY <1>4, TreeBootingNext, TreeWipingNext, TreeDownNext, OnlyTheLastNext
  <2>7. TreeRunning'
    BY <1>1, <1>4, <2>2, TreeRunningNext DEF OtherSlot
  <2>8. QED
    BY <2>3, <2>4, <2>5, <2>6, <2>7 DEF Healthy
<1>5. QED
  BY <1>2, <1>3, <1>4 DEF LogInv

\* As long as no disk call has failed, the tree, the slots and the log agree, in
\* the files as they are and in what a crash may leave of them.
THEOREM LogInvHolds == Spec => []LogInv
BY LogInvInit, LogInvNext, PTL DEF Spec

\* With no disk error a crash costs at most the last mutation, and only while its
\* commit record is unflushed.
THEOREM LosesAtMostTailHolds == Spec => []LosesAtMostTail
<1>1. LogInv => LosesAtMostTail
  <2> SUFFICES ASSUME LogInv, faults = 0, Steady, NEW sl \in SlotOutcomes, NEW w \in LogOutcomes,
                      NEW y \in acked \ Recovered(sl, w)
               PROVE  y \in IF dirty THEN Newest(acked) ELSE {}
    BY DEF LosesAtMostTail
  <2>1. Running /\ generation > 0 /\ TypeOK
    BY DEF Steady, Checkpointed, Running, LogInv, SlotInv, TypeInv
  <2>2. dirty /\ \A z \in acked : z <= y
    BY <2>1, RunningRecovers, OutcomesLeft
  <2>3. QED
    BY <2>2 DEF Newest
<1>2. QED
  BY <1>1, LogInvHolds, PTL

\* With no disk error a boot replays its log to the end: MountReport.failures
\* stays empty.
THEOREM ReplayNeverStopsHolds == Spec => []ReplayNeverStops
<1>1. LogInv => ReplayNeverStops
  <2> SUFFICES ASSUME LogInv, faults = 0, NEW sl \in SlotOutcomes, NEW w \in LogOutcomes,
                      w.gen = sl[Winner(sl)].gen, w.gen > 0
               PROVE  Replayed(sl[Winner(sl)].tree, Committed(w.recs)) = {p.id : p \in Committed(w.recs)}
    BY DEF ReplayNeverStops
  <2> DEFINE x == sl[Winner(sl)]
  <2>1. /\ TypeOK /\ Left(sl, w) /\ LogsReplay /\ wal \in LogFiles /\ w \in LogFiles
        /\ Winner(sl) \in Slots
    BY OutcomesLeft, WinnerIsASlot DEF LogInv, SlotInv, TypeInv, TypeOK, Healthy, Left
  <2>2. x \in Copies(Winner(sl))
    BY <2>1 DEF Left, NoSlot
  <2>3. Replayable(w.recs, x.tree)
    <3>1. CASE w = walD
      BY <2>1, <2>2, <3>1 DEF LogsReplay
    <3>2. CASE Extends(wal, w)
      <4>1. Replayable(wal.recs, x.tree)
        BY <2>1, <2>2, <3>2 DEF LogsReplay, Extends
      <4>2. QED
        BY <2>1, <3>2, <4>1, FrontReplays
    <3>3. w # NoLog
      BY DEF NoLog
    <3>4. QED
      BY <2>1, <3>1, <3>2, <3>3 DEF Left
  <2>4. QED
    BY <2>1, <2>3, ReplayTakesAll
<1>2. QED
  BY <1>1, LogInvHolds, PTL

\* Every mutation that fills the log waits for the checkpoint that empties it.
THEOREM LogBoundedHolds == Spec => []LogBounded
<1>1. Init => LogBounded
  BY DEF Init, LogBounded
<1>2. TypeInv /\ LogBounded /\ [Next]_vars => LogBounded'
  <2> SUFFICES ASSUME TypeInv, LogBounded, [Next]_vars, pc' = "serving", faults' = 0
               PROVE  logLen' = 0 \/ logLen' < LogLimit
    BY DEF LogBounded
  <2>1. faults \in Nat /\ logLen \in Nat /\ LogLimit \in Nat
    BY BoundsAreNat DEF TypeInv, TypeOK
  <2>2. CASE LogReset
    BY <2>2 DEF LogReset, LogTruncate, LogHeader, LogFlushBoot, LogFlushCheckpoint, LogFlushWipe,
       LogFlushed
  <2>3. CASE Commit
    BY <2>1, <2>3 DEF Commit, Idle
  <2>4. CASE Sync \/ UNCHANGED vars
    BY <2>4 DEF Sync, vars, memory, counts, LogBounded
  <2>5. CASE Fail
    BY <2>1, <2>5 DEF Fail
  <2>6. CASE \E needs \in {0} \cup tree : Begin(needs)
    BY <2>6 DEF Begin
  <2>7. CASE Recover \/ Checkpoint \/ PlanAppend \/ PlanFlush \/ Apply \/ Wipe
    BY <2>7 DEF Recover, Checkpoint, CheckpointSync, SlotTruncate, SlotWrite, SlotFlush,
       PlanAppend, PlanFlush, Apply, Wipe, WipeTruncate, WipeFlush
  <2>8. CASE BeginCheckpoint \/ BeginWipe \/ Close \/ Crash
    BY <2>8 DEF BeginCheckpoint, BeginWipe, Close, Crash, Forget
  <2>9. QED
    BY <2>2, <2>3, <2>4, <2>5, <2>6, <2>7, <2>8 DEF Next, Worker, Mutation
<1>3. QED
  BY <1>1, <1>2, TypeInvHolds, PTL DEF Spec

\* What the files show of a store with a checkpoint is its tree, except between a
\* mutation and its commit record.
FilesShowTheTree ==
  faults = 0 /\ Running /\ generation > 0 /\ pc # "commit" => Recovered(slot, wal) = tree

\* No step of a checkpoint changes what a recovery from the files would show.
THEOREM CheckpointInvisibleHolds == Spec => CheckpointInvisible
<1>1. LogInv => FilesShowTheTree /\ TypeInv
  BY RunningRecovers, FilesLeft DEF FilesShowTheTree, LogInv, SlotInv, TypeInv
<1>2. ASSUME TypeInv, FilesShowTheTree, FilesShowTheTree', Next, faults = 0, Steady,
             ret \in {"op", "ctl"}, Checkpoint \/ LogReset
      PROVE  Recovered(slot', wal') = Recovered(slot, wal)
  <2>1. /\ Running /\ generation > 0 /\ generation \in Nat /\ pc # "commit"
        /\ faults' = 0 /\ tree' = tree
        /\ Running' /\ generation' > 0 /\ pc' # "commit"
    BY <1>2 DEF Steady, Checkpointed, Running, Booting, Wiping, Checkpoint, CheckpointSync,
       SlotTruncate, SlotWrite, SlotFlush, LogReset, LogTruncate, LogHeader, LogFlushBoot,
       LogFlushCheckpoint, LogFlushWipe, LogFlushed, Idle, memory, counts, TypeInv, TypeOK
  <2>2. Recovered(slot, wal) = tree
    BY <1>2, <2>1 DEF FilesShowTheTree
  <2>3. Recovered(slot, wal)' = tree'
    BY <1>2, <2>1 DEF FilesShowTheTree
  <2>4. Recovered(slot', wal') = Recovered(slot, wal)'
    BY DEF Recovered
  <2>5. QED
    BY <2>1, <2>2, <2>3, <2>4
<1>3. /\ TypeInv /\ FilesShowTheTree /\ FilesShowTheTree' /\ [Next]_vars
      => [faults = 0 /\ Steady /\ ret \in {"op", "ctl"} /\ (Checkpoint \/ LogReset) =>
            Recovered(slot', wal') = Recovered(slot, wal)]_vars
  BY <1>2
<1>4. QED
  BY <1>1, <1>3, LogInvHolds, PTL DEF Spec, CheckpointInvisible

-----------------------------------------------------------------------------
(* The promise to the shell (StoreContract), as long as no disk call fails. *)

\* The phase the shell sees, by what the store is doing.
LEMMA PhaseIs ==
  /\ pc = "down" => Phase = "down"
  /\ Booting => Phase = "booting"
  /\ Running /\ generation > 0 => Phase = "up"
  /\ Running /\ ~(generation > 0) => Phase = "reset"
  /\ Wiping /\ pc # "down" => Phase = "reset"
BY DEF Phase, Running, Booting, Wiping, Steady, Checkpointed

\* A set that loses nothing but what no other member is above loses one member.
LEMMA LosesOne ==
  ASSUME NEW S \in SUBSET Ops, NEW R, \A y \in S \ R : \A z \in S : z <= y
  PROVE  \E lost \in SUBSET S : Cardinality(lost) <= 1 /\ S \cap R = S \ lost
<1>1. Cardinality(S \ R) <= 1
  <2>1. CASE S \ R = {}
    BY <2>1, FS_EmptySet
  <2>2. ASSUME NEW y \in S \ R PROVE Cardinality(S \ R) <= 1
    <3>1. \A z \in S \ R : z <= y /\ y <= z /\ z \in Nat /\ y \in Nat
      BY <2>2 DEF Ops
    <3>2. S \ R = {y}
      BY <2>2, <3>1
    <3>3. QED
      BY <3>2, FS_Singleton
  <2>3. QED
    BY <2>1, <2>2
<1>2. S \cap R = S \ (S \ R)
  OBVIOUS
<1>3. QED
  BY <1>1, <1>2

\* A death from the files (sl, w): the shell sees the store go down and its
\* contents shrink, by one mutation at most unless a boot or a reset was under way.
LEMMA DeathIsPromised ==
  ASSUME LogInv, faults = 0, NEW sl \in [Slots -> SlotFiles], NEW w \in LogFiles, Left(sl, w),
         pc' = "down", acked' = acked \cap Recovered(sl, w)
  PROVE  Promise!CNext
<1>1. Phase' = "down" /\ acked' \subseteq acked /\ acked \in SUBSET Ops
  BY DEF Phase, LogInv, SlotInv, TypeInv, TypeOK
<1>2. CASE Booting
  BY <1>1, <1>2, PhaseIs DEF Promise!CNext, Promise!BootDies
<1>3. CASE (Wiping /\ pc # "down") \/ (Running /\ ~(generation > 0))
  BY <1>1, <1>3, PhaseIs DEF Promise!CNext, Promise!ResetDies
<1>4. CASE pc = "down" \/ (Running /\ generation > 0)
  <2>1. \A y \in acked \ Recovered(sl, w) : \A z \in acked : z <= y
    BY <1>4, RunningRecovers, DownRecovers
  <2>2. \E lost \in SUBSET acked : Cardinality(lost) <= 1 /\ acked' = acked \ lost
    BY <1>1, <2>1, LosesOne
  <2>3. Phase \in {"up", "down"}
    BY <1>4, PhaseIs
  <2>4. \A S : Promise!Cardinality(S) = Cardinality(S)
    BY DEF Cardinality, Promise!Cardinality
  <2>5. QED
    BY <1>1, <2>2, <2>3, <2>4 DEF Promise!CNext, Promise!Dies, Promise!Shrink
<1>5. QED
  BY <1>2, <1>3, <1>4 DEF Running

\* A report adds one mutation that was not there.
LEMMA ReportIsNew ==
  ASSUME LogInv, faults = 0, ret = "op", pc \notin {"serving", "down"},
         acked' = acked \cup {cur.id}
  PROVE  Promise!Grow
<1>1. cur.id \notin acked
  <2>1. \A x \in acked : x < cur.id /\ x \in Nat
    BY DEF LogInv, Healthy, Numbered, SlotInv, TypeInv, TypeOK, Ops
  <2>2. QED
    BY <2>1
<1>2. QED
  BY <1>1 DEF Promise!Grow

\* Every step of the store is one the contract allows, or none at all.
LEMMA StepIsPromised ==
  ASSUME LogInv, [Next]_vars, faults = 0, faults' = 0
  PROVE  [Promise!CNext]_Promise!cvars
<1>1. /\ TypeOK /\ TypeInv /\ WipeProgress /\ Healthy /\ generation \in Nat
  BY DEF LogInv, SlotInv, TypeInv, TypeOK
<1> DEFINE Same == Phase' = Phase /\ acked' = acked
<1>2. Same => [Promise!CNext]_Promise!cvars
  BY DEF Promise!cvars
<1> HIDE DEF Same
<1>3. CASE Recover
  BY <1>3, PhaseIs
     DEF Recover, ghosts, Phase, Booting, Promise!CNext, Promise!Boot
<1>4. CASE LogTruncate \/ LogHeader \/ LogFlushBoot \/ Checkpoint
  <2>1. Same
    BY <1>1, <1>4
       DEF LogTruncate, LogHeader, LogFlushBoot, LogFlushed, Checkpoint, CheckpointSync, SlotTruncate,
       SlotWrite, SlotFlush, memory, ghosts, Same, Phase, Booting, Steady, Checkpointed, Wiping
  <2>2. QED
    BY <1>2, <2>1
<1>5. CASE LogFlushCheckpoint
  <2>1. /\ pc = "log.flush" /\ pc' = "serving" /\ generation' = generation + 1 /\ ret' = ret
    BY <1>5 DEF LogFlushCheckpoint, LogFlushed, Idle
  <2>2. Phase' = "up"
    BY <1>1, <2>1 DEF Phase, Booting, Steady, Checkpointed, Wiping
  <2>3. CASE ret = "mount"
    <3>1. Booting /\ acked' = tree
      BY <1>5, <2>1, <2>3 DEF LogFlushCheckpoint, Booting
    <3>2. acked \subseteq tree /\ AtMostOne(tree \ acked)
      BY <1>1, <3>1 DEF Healthy, TreeBooting
    <3>3. Promise!Grow \/ acked' = acked
      BY <3>1, <3>2 DEF Promise!Grow, AtMostOne
    <3>4. QED
      BY <2>2, <3>1, <3>3, PhaseIs DEF Promise!CNext, Promise!Up
  <2>4. CASE ret \in {"op", "ctl"}
    <3>1. Running
      BY <2>1, <2>4 DEF Running, Booting, Wiping
    <3>2. IF ret = "op" THEN Promise!Grow ELSE acked' = acked
      BY <1>5, <2>1, <2>4, ReportIsNew DEF LogFlushCheckpoint
    <3>3. CASE generation > 0
      BY <1>2, <2>2, <3>1, <3>2, <3>3, PhaseIs DEF Promise!CNext, Promise!Report, Same
    <3>4. CASE ~(generation > 0)
      BY <2>2, <3>1, <3>2, <3>4, PhaseIs DEF Promise!CNext, Promise!Safe
    <3>5. QED
      BY <3>3, <3>4
  <2>5. QED
    BY <1>5, <2>3, <2>4 DEF LogFlushCheckpoint
<1>6. CASE LogFlushWipe
  <2>1. Wiping /\ pc # "down" /\ acked' = {} /\ pc' = "serving" /\ generation' = 0
    BY <1>6 DEF LogFlushWipe, LogFlushed, Idle, Wiping
  <2>2. Phase' = "reset"
    BY <2>1 DEF Phase, Booting, Steady, Checkpointed
  <2>3. QED
    BY <2>1, <2>2, PhaseIs DEF Promise!CNext, Promise!ResetDone
<1>7. CASE PlanAppend \/ PlanFlush \/ Apply
  <2>1. Same
    BY <1>1, <1>7
       DEF PlanAppend, PlanFlush, Apply, ghosts, Same, Phase, Booting, Steady, Checkpointed, Wiping,
       TypeInv, MutationSteps
  <2>2. QED
    BY <1>2, <2>1
<1>8. CASE Commit
  <2>1. Phase' = Phase /\ Running /\ ret = "op"
    BY <1>1, <1>8
       DEF Commit, Idle, Phase, Booting, Steady, Checkpointed, Wiping, Running, TypeInv, MutationSteps
  <2>2. CASE acked' = acked
    BY <1>2, <2>1, <2>2 DEF Same
  <2>3. CASE acked' = acked \cup {cur.id}
    <3>1. Promise!Grow
      BY <1>8, <2>1, <2>3, ReportIsNew DEF Commit
    <3>2. Phase \in {"up", "reset"}
      BY <2>1, PhaseIs
    <3>3. QED
      BY <2>1, <3>1, <3>2 DEF Promise!CNext, Promise!Report
  <2>4. QED
    BY <1>8, <2>2, <2>3 DEF Commit
<1>9. CASE Wipe
  <2>1. Same
    BY <1>1, <1>9
       DEF Wipe, WipeTruncate, WipeFlush, memory, ghosts, Same, Phase, Booting, Steady,
       Checkpointed, Wiping, WipeProgress, WipeSteps
  <2>2. QED
    BY <1>2, <2>1
<1>10. CASE (\E needs \in {0} \cup tree : Begin(needs)) \/ BeginCheckpoint \/ Sync
  <2>1. Same
    BY <1>10
       DEF Begin, BeginCheckpoint, Sync, memory, ghosts, Same, Phase, Booting, Steady,
       Checkpointed, Wiping
  <2>2. QED
    BY <1>2, <2>1
<1>11. CASE BeginWipe
  <2>1. Running /\ Phase' = "reset" /\ acked' = acked
    BY <1>11
       DEF BeginWipe, ghosts, Phase, Running, Booting, Steady, Checkpointed, Wiping
  <2>2. QED
    BY <1>2, <2>1, PhaseIs DEF Promise!CNext, Promise!Reset, Same
<1>12. CASE Close
  <2>1. pc' = "down" /\ acked' = acked \cap Recovered(slot, wal)
    BY <1>12 DEF Close, Forget
  <2>2. Left(slot, wal)
    BY <1>1, FilesLeft
  <2>3. QED
    BY <1>1, <2>1, <2>2, DeathIsPromised DEF TypeOK
<1>13. CASE Crash
  <2>1. PICK sl \in SlotOutcomes, w \in LogOutcomes :
          pc' = "down" /\ acked' = acked \cap Recovered(sl, w)
    BY <1>13 DEF Crash, Forget
  <2>2. Left(sl, w) /\ sl \in [Slots -> SlotFiles] /\ w \in LogFiles
    BY <1>1, OutcomesLeft DEF Left
  <2>3. QED
    BY <2>1, <2>2, DeathIsPromised
<1>14. CASE Fail
  BY <1>14 DEF Fail
<1>15. CASE UNCHANGED vars
  <2>1. Same
    BY <1>15 DEF vars, memory, ghosts, Same, Phase, Booting, Steady, Checkpointed, Wiping
  <2>2. QED
    BY <1>2, <2>1
<1>16. QED
  BY <1>3, <1>4, <1>5, <1>6, <1>7, <1>8, <1>9, <1>10, <1>11, <1>12, <1>13, <1>14, <1>15
     DEF Next, Worker, LogReset, Mutation

\* As long as no disk call fails the durable store keeps the promise it makes to
\* the shell: what is reported is there after every death, but for the last mutation.
THEOREM ContractImplemented == Spec /\ [](faults = 0) => ImplementsContract
<1>1. Init => Promise!Init
  BY DEF Init, Promise!Init, Phase
<1>2. LogInv /\ faults = 0 /\ (faults = 0)' /\ [Next]_vars => [Promise!CNext]_Promise!cvars
  BY StepIsPromised
<1>3. QED
  BY <1>1, <1>2, LogInvHolds, PTL DEF Spec, ImplementsContract, Promise!Contract
=============================================================================
