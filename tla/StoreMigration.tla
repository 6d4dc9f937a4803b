--------------------------- MODULE StoreMigration ---------------------------
(***************************************************************************)
(* Store migrations (opfs-migrate.ts) as OpfsStore runs them: recover      *)
(* first finishes an interrupted migration from rollback.bin, then walks   *)
(* the ladder over the winning slot and writes the result to the other     *)
(* one.  Builds of two versions open the same store, tabs die between any  *)
(* two disk calls, and rollbackTo takes a running store a version down.    *)
(*                                                                         *)
(* A checkpoint is the set of mutations it holds, the version it is        *)
(* labelled with and the version its bytes are really encoded in.  The log *)
(* protocol itself is DurableStore's; here a log reset is one step.        *)
(***************************************************************************)
EXTENDS Naturals, FiniteSets

CONSTANTS
  Builds,    \* the values of STORE_VERSION of the builds that open the store
  Ladder,    \* the versions a migration starts from
  MaxOps,    \* bound: mutations
  MaxGen,    \* bound: no checkpoint or rollback is started at this generation
  MaxTroubles  \* bound: crashes, closes, failing steps and boots of an old build

Slots == {"a", "b"}
Other(s) == IF s = "a" THEN "b" ELSE "a"
Latest == CHOOSE v \in Builds : \A w \in Builds : w <= v

\* A slot that does not decode has generation 0.
NoSlot == [gen |-> 0, ver |-> 0, fmt |-> 0, ops |-> {}]

\* rollback.bin: absent, present but not decodable, or a slot's letter and bytes.
NoCopy  == [kind |-> "none", of |-> "a", slot |-> NoSlot]
Torn    == [kind |-> "torn", of |-> "a", slot |-> NoSlot]
Copy(s, c) == [kind |-> "whole", of |-> s, slot |-> c]

VARIABLES
  slots, flushed,    \* the checkpoint slots as read, and as flushed
  copy, copyFlushed, \* rollback.bin, as read and as flushed
  logged,            \* the log: its generation and its committed mutations
  step,              \* the next disk call, or "down" or "up"
  build,             \* STORE_VERSION of the build that has the store open
  using,             \* OpfsStore.#active
  mem,               \* the tree in memory
  made,              \* mutations made so far
  troubles,          \* counter
  safe,              \* ghost: what the newest complete checkpoint holds
  before             \* ghost: the checkpoint an unfinished migration started from

files == <<slots, flushed, copy, copyFlushed, logged>>
migVars == <<files, step, build, using, mem, made, troubles, safe, before>>

TypeOK ==
  /\ \A s \in Slots, f \in {slots, flushed} :
       /\ f[s].gen \in Nat /\ f[s].ver \in Nat /\ f[s].fmt \in Nat
       /\ f[s].ops \subseteq 1..made
  /\ copy.kind \in {"none", "torn", "whole"}
  /\ copyFlushed.kind \in {"none", "torn", "whole"}
  /\ logged.gen \in Nat /\ logged.ops \subseteq 1..made
  /\ build \in Builds /\ using \in Slots /\ mem \subseteq 1..made

Winner(sl) == IF sl["b"].gen > sl["a"].gen THEN "b" ELSE "a"

-----------------------------------------------------------------------------
(* The ladder.                                                             *)

\* slip: a store from the future is not refused; the loop just runs no steps.
RefusesOnlyGaps(from, to) == \E v \in from..(to - 1) : v \notin Ladder

\* migrateUp refuses a store from the future and a ladder with a gap.
Refuses(from, to) == from > to \/ \E v \in from..(to - 1) : v \notin Ladder

\* slip: the migrated slot keeps the old label.
MigratedUnlabelled(c, to) ==
  [c EXCEPT !.gen = @ + 1, !.fmt = IF c.ver < to /\ @ = c.ver THEN to ELSE IF c.ver < to THEN 0 ELSE @]

\* The steps read what the label says; bytes in another format come out as
\* nobody's (0).  From a later version the loop of migrateUp runs no step.
Migrated(c, to) ==
  [gen |-> c.gen + 1, ver |-> to, ops |-> c.ops,
   fmt |-> IF to <= c.ver THEN c.fmt ELSE IF c.fmt = c.ver THEN to ELSE 0]
RolledBack(c, to) ==
  [gen |-> c.gen + 1, ver |-> to, ops |-> c.ops,
   fmt |-> IF c.fmt = c.ver THEN to ELSE 0]

Init ==
  /\ slots = [s \in Slots |-> NoSlot] /\ flushed = slots
  /\ copy = NoCopy /\ copyFlushed = NoCopy
  /\ logged = [gen |-> 0, ops |-> {}]
  /\ step = "down" /\ build = Latest /\ using = "b" /\ mem = {}
  /\ made = 0 /\ troubles = 0 /\ safe = {} /\ before = NoSlot

Goto(s) == step' = s
Trouble == troubles < MaxTroubles /\ troubles' = troubles + 1
session == <<build, using, mem, made>>

-----------------------------------------------------------------------------
(* recover: finish an interrupted migration.                               *)

\* slip: a copy that does not parse is an error, not a leftover.
TornIsFatal(c) == IF c.kind = "none" THEN "read" ELSE IF c.kind = "torn" THEN "down" ELSE "restore.write"

AfterCopy(c) == IF c.kind = "none" THEN "read"
                ELSE IF c.kind = "torn" THEN "copy.drop" ELSE "restore.write"

\* A tab of either build takes the locks and looks for rollback.bin.
Open(b) ==
  /\ step = "down"
  /\ IF b = Latest THEN UNCHANGED troubles ELSE Trouble
  /\ build' = b
  /\ Goto(AfterCopy(copy))
  /\ UNCHANGED <<files, using, mem, made, safe, before>>

\* slip: the copy goes before what it restores is down.
RestoreThenRemove ==
  /\ step = "restore.write"
  /\ slots' = [slots EXCEPT ![copy.of] = copy.slot]
  /\ copy' = NoCopy /\ copyFlushed' = NoCopy
  /\ Goto("read")
  /\ UNCHANGED <<flushed, logged, session, troubles, safe, before>>

RestoreWrite ==
  /\ step = "restore.write"
  /\ slots' = [slots EXCEPT ![copy.of] = copy.slot]
  /\ Goto("restore.flush")
  /\ UNCHANGED <<flushed, copy, copyFlushed, logged, session, troubles, safe, before>>

RestoreFlush ==
  /\ step = "restore.flush"
  /\ flushed' = [flushed EXCEPT ![copy.of] = slots[copy.of]]
  /\ Goto("other.truncate")
  /\ UNCHANGED <<slots, copy, copyFlushed, logged, session, troubles, safe, before>>

\* slip: the slot of the migration being undone is left alone.
OtherKept ==
  /\ step = "other.truncate" /\ Goto("copy.drop")
  /\ UNCHANGED <<files, session, troubles, safe, before>>

\* Truncate and flush: a file that is only cut is either state after a crash,
\* and a flush right behind it leaves nothing else to see.
OtherTruncate ==
  /\ step = "other.truncate"
  /\ slots' = [slots EXCEPT ![Other(copy.of)] = NoSlot]
  /\ flushed' = [flushed EXCEPT ![Other(copy.of)] = NoSlot]
  /\ Goto("copy.drop")
  /\ UNCHANGED <<copy, copyFlushed, logged, session, troubles, safe, before>>

CopyDrop ==
  /\ step = "copy.drop"
  /\ copy' = NoCopy /\ copyFlushed' = NoCopy
  /\ Goto("read")
  /\ UNCHANGED <<slots, flushed, logged, session, troubles, safe, before>>

-----------------------------------------------------------------------------
(* recover: read the slots, migrate, read the log.                         *)

\* No slot decodes: a first visit.  A slot of this version needs no ladder.  A
\* refusal, or a step that fails, has written nothing and ends the boot.
ReadSlots ==
  /\ step = "read"
  /\ using' = IF slots[Winner(slots)].gen = 0 THEN "b" ELSE Winner(slots)
  /\ before' = NoSlot
  /\ LET won == slots[Winner(slots)] IN
     \/ /\ won.gen = 0 \/ won.ver = build
        /\ Goto("log") /\ UNCHANGED troubles
     \/ /\ won.gen > 0 /\ won.ver # build /\ ~Refuses(won.ver, build)
        /\ Goto("copy.write") /\ UNCHANGED troubles
     \/ /\ won.gen > 0 /\ won.ver # build /\ ~Refuses(won.ver, build)
        /\ Trouble /\ Goto("down")
     \/ /\ won.gen > 0 /\ won.ver # build /\ Refuses(won.ver, build)
        /\ Goto("down") /\ UNCHANGED troubles
  /\ UNCHANGED <<files, build, mem, made, safe>>

CopyWrite ==
  /\ step = "copy.write"
  /\ copy' = Copy(using, slots[using])
  /\ Goto("copy.flush")
  /\ UNCHANGED <<slots, flushed, copyFlushed, logged, session, troubles, safe, before>>

CopyFlush ==
  /\ step = "copy.flush"
  /\ copyFlushed' = copy
  /\ before' = slots[using]
  /\ Goto("up.write")
  /\ UNCHANGED <<slots, flushed, copy, logged, session, troubles, safe>>

UpWrite ==
  /\ step = "up.write"
  /\ slots' = [slots EXCEPT ![Other(using)] = Migrated(slots[using], build)]
  /\ Goto("up.flush")
  /\ UNCHANGED <<flushed, copy, copyFlushed, logged, session, troubles, safe, before>>

UpFlush ==
  /\ step = "up.flush"
  /\ flushed' = [flushed EXCEPT ![Other(using)] = slots[Other(using)]]
  /\ Goto("copy.clear")
  /\ UNCHANGED <<slots, copy, copyFlushed, logged, session, troubles, safe, before>>

CopyClear ==
  /\ step = "copy.clear"
  /\ copy' = NoCopy /\ copyFlushed' = NoCopy
  /\ using' = Other(using) /\ before' = NoSlot
  /\ Goto("log")
  /\ UNCHANGED <<slots, flushed, logged, build, mem, made, troubles, safe>>

\* The log counts when it is of the generation recovery settled on; either way
\* it is reset, and the mount goes on to a checkpoint of its own.
ReadLog ==
  /\ step = "log"
  /\ mem' = slots[using].ops \cup
            (IF logged.gen = slots[using].gen /\ slots[using].gen > 0 THEN logged.ops ELSE {})
  /\ logged' = [gen |-> slots[using].gen, ops |-> {}]
  /\ Goto("ckpt.write")
  /\ UNCHANGED <<slots, flushed, copy, copyFlushed, build, using, made, troubles, safe, before>>

-----------------------------------------------------------------------------
(* The store in use.                                                       *)

\* slip: the mutation's number is used again.
MutateUncounted ==
  /\ step = "up" /\ made < MaxOps
  /\ made' = made
  /\ mem' = mem \cup {made + 1}
  /\ logged' = [logged EXCEPT !.ops = @ \cup {made + 1}]
  /\ UNCHANGED <<slots, flushed, copy, copyFlushed, step, build, using, troubles, safe, before>>

Mutate ==
  /\ step = "up" /\ made < MaxOps
  /\ made' = made + 1
  /\ mem' = mem \cup {made + 1}
  /\ logged' = [logged EXCEPT !.ops = @ \cup {made + 1}]
  /\ UNCHANGED <<slots, flushed, copy, copyFlushed, step, build, using, troubles, safe, before>>

Checkpoint ==
  /\ step = "up" /\ slots[using].gen < MaxGen
  /\ Goto("ckpt.write")
  /\ UNCHANGED <<files, session, troubles, safe, before>>

CheckpointWrite ==
  /\ step = "ckpt.write"
  /\ slots' = [slots EXCEPT ![Other(using)] =
       [gen |-> slots[using].gen + 1, ver |-> build, fmt |-> build, ops |-> mem]]
  /\ Goto("ckpt.flush")
  /\ UNCHANGED <<flushed, copy, copyFlushed, logged, session, troubles, safe, before>>

\* rollbackTo: one version down, by name, into the other slot.
RollBack ==
  /\ step = "up" /\ slots[using].gen \in 1..(MaxGen - 1)
  /\ slots[using].ver - 1 \in Ladder
  /\ slots' = [slots EXCEPT ![Other(using)] = RolledBack(slots[using], slots[using].ver - 1)]
  /\ Goto("back.flush")
  /\ UNCHANGED <<flushed, copy, copyFlushed, logged, session, troubles, safe, before>>

SlotFlush ==
  /\ step \in {"ckpt.flush", "back.flush"}
  /\ flushed' = [flushed EXCEPT ![Other(using)] = slots[Other(using)]]
  /\ safe' = slots[Other(using)].ops
  /\ Goto("log.reset")
  /\ UNCHANGED <<slots, copy, copyFlushed, logged, session, troubles, before>>

LogReset ==
  /\ step = "log.reset"
  /\ logged' = [gen |-> slots[Other(using)].gen, ops |-> {}]
  /\ using' = Other(using)
  /\ Goto("up")
  /\ UNCHANGED <<slots, flushed, copy, copyFlushed, build, mem, made, troubles, safe, before>>

-----------------------------------------------------------------------------
(* The tab dies or closes.                                                 *)

\* What an unflushed slot or copy may be afterwards: old, new or torn.
SlotsAfter ==
  {sl \in [Slots -> {slots["a"], slots["b"], flushed["a"], flushed["b"], NoSlot}] :
     \A s \in Slots : sl[s] \in IF slots[s] = flushed[s] THEN {slots[s]}
                                ELSE {slots[s], flushed[s], NoSlot}}
CopiesAfter == IF copy = copyFlushed THEN {copy} ELSE {copy, copyFlushed, Torn}

Crash ==
  /\ step # "down" /\ Trouble
  /\ \E sl \in SlotsAfter, c \in CopiesAfter :
       /\ slots' = sl /\ flushed' = sl
       /\ copy' = c /\ copyFlushed' = c
  /\ Goto("down") /\ mem' = {}
  /\ UNCHANGED <<logged, build, using, made, safe, before>>

BootStep == RestoreWrite \/ RestoreFlush \/ OtherTruncate \/ CopyDrop \/ ReadSlots
            \/ CopyWrite \/ CopyFlush \/ UpWrite \/ UpFlush \/ CopyClear \/ ReadLog
SaveStep == CheckpointWrite \/ SlotFlush \/ LogReset

Next == (\E b \in Builds : Open(b)) \/ BootStep \/ SaveStep
        \/ Mutate \/ Checkpoint \/ RollBack \/ Crash

\* The worker goes on from one disk call to the next, and the user opens the
\* site again; nothing obliges anyone to mutate, roll back or die.
Goes == Open(Latest) \/ BootStep \/ SaveStep
Fairness == WF_migVars(Goes)
Spec == Init /\ [][Next]_migVars /\ Fairness

-----------------------------------------------------------------------------
(* What recovery would settle on, from the files as they are.  *)
Settles(sl, c) ==
  LET put == IF c.kind = "whole"
             THEN [s \in Slots |-> IF s = c.of THEN c.slot ELSE NoSlot] ELSE sl
  IN put[Winner(put)]

(* Whatever disk call the tab dies in, of a migration, of undoing one, of a
   checkpoint or of a rollback, the next recovery settles on a checkpoint that
   holds everything the newest complete one did. *)
CheckpointOutlivesMigration ==
  \A sl \in SlotsAfter, c \in CopiesAfter : safe \subseteq Settles(sl, c).ops

(* A checkpoint's bytes are in the version it is labelled with: no migration
   step ever runs over a payload it has already converted, whichever of the
   slots and the copy an interrupted one is resumed from. *)
NeverMigratedTwice ==
  \A c \in {slots["a"], slots["b"], copy.slot} : c.fmt = c.ver

(* A recovery that finds an unfinished migration reads the slots with the
   migration undone: it settles on the checkpoint the migration started from. *)
InterruptedMigrationIsUndone ==
  step = "read" /\ before # NoSlot => slots[Winner(slots)] = before

MigrationSafe == CheckpointOutlivesMigration /\ NeverMigratedTwice /\ InterruptedMigrationIsUndone

(* The version of the checkpoint recovery would settle on goes down only by
   rollbackTo or by undoing a migration: an older build never rewrites a newer
   store. *)
DowngradeOnlyByName ==
  Settles(flushed, copyFlushed)'.ver < Settles(flushed, copyFlushed).ver
    => step \in {"back.flush", "copy.flush"} \/ step' = "down"

(* Where every behaviour ends up, once the crashes, failing steps and old builds
   stop: neither a torn rollback copy nor an interrupted migration wedges it. *)
Mounted == step \in {"up", "ckpt.write", "ckpt.flush", "back.flush", "log.reset"}
=============================================================================
