------------------------ MODULE StoreMigrationProofs ------------------------
(***************************************************************************)
(* Proofs about what goes on around the store:                             *)
(*  - StoreMigration, for any versions, ladder and builds, any number of    *)
(*    mutations and checkpoints, and a death between any two disk calls of  *)
(*    any number of boots;                                                  *)
(*  - StoreElection, for any tabs, with locks or without;                   *)
(*  - StorageWorker, for any number of calls and failures.                  *)
(***************************************************************************)
EXTENDS StoreMigration, SequenceTheorems, FiniteSetTheorems, TLAPS

\* Versions are numbers, and one of the builds is the newest.
Versions ==
  /\ Builds \subseteq Nat /\ Ladder \subseteq Nat
  /\ \E v \in Builds : \A w \in Builds : w <= v

-----------------------------------------------------------------------------
(* Checkpoints and copies.                                                 *)

\* A checkpoint is encoded in the version it is labelled with.
SlotOK(c) ==
  /\ c \in [gen : Nat, ver : Nat, fmt : Nat, ops : SUBSET (1..made)]
  /\ c.fmt = c.ver /\ (c.gen = 0 => c = NoSlot)

CopyOK(c) ==
  /\ c \in [kind : {"none", "torn", "whole"}, of : Slots,
            slot : [gen : Nat, ver : Nat, fmt : Nat, ops : SUBSET (1..made)]]
  /\ SlotOK(c.slot) /\ (c.kind = "none" => c = NoCopy)

\* Files that recovery reads as they are, or the copy it would put back, have what
\* the newest complete checkpoint holds.
Keeps(sl)   == safe \subseteq sl[Winner(sl)].ops
Restores(c) == c.kind = "whole" /\ c.slot.gen > 0 /\ safe \subseteq c.slot.ops
Recovers(sl, c) == Restores(c) \/ (c.kind # "whole" /\ Keeps(sl))

Types ==
  /\ slots \in [Slots -> [gen : Nat, ver : Nat, fmt : Nat, ops : SUBSET (1..made)]]
  /\ flushed \in [Slots -> [gen : Nat, ver : Nat, fmt : Nat, ops : SUBSET (1..made)]]
  /\ \A s \in Slots : SlotOK(slots[s]) /\ SlotOK(flushed[s])
  /\ CopyOK(copy) /\ CopyOK(copyFlushed)
  /\ logged \in [gen : Nat, ops : SUBSET (1..made)]
  /\ build \in Builds /\ using \in Slots /\ made \in Nat /\ mem \subseteq 1..made

-----------------------------------------------------------------------------
(* How far a boot or a checkpoint has got.                                 *)

Steps == {"down", "restore.write", "restore.flush", "other.truncate", "copy.drop", "read",
          "copy.write", "copy.flush", "up.write", "up.flush", "copy.clear", "log",
          "up", "ckpt.write", "ckpt.flush", "back.flush", "log.reset"}
InUse      == {"up", "ckpt.write", "ckpt.flush", "back.flush", "log.reset"}
Unflushed  == {"restore.flush", "up.flush", "ckpt.flush", "back.flush"}
Copyless   == {"read", "copy.write", "log"} \cup InUse
Migrating  == {"up.write", "up.flush", "copy.clear"}
Restoring  == {"restore.write", "restore.flush", "other.truncate"}

\* The slot in use is the one recovery would take, unless no slot decodes.
Wins(sl) == \/ Winner(sl) = using
            \/ sl[using].gen = 0 /\ sl[Other(using)].gen = 0
Newest   == Wins(slots)

\* Which files have unflushed bytes, and which slot is in use.
Files ==
  /\ step \in Steps
  /\ step \notin Unflushed => slots = flushed
  /\ step = "restore.flush" => slots[Other(copy.of)] = flushed[Other(copy.of)]
  /\ step \in {"up.flush", "ckpt.flush", "back.flush"} => slots[using] = flushed[using]
  /\ step \in Copyless => copy = NoCopy /\ copyFlushed = NoCopy

\* rollback.bin, and what it will put back.
CopyKept ==
  /\ step = "copy.flush" => copy = Copy(using, slots[using]) /\ copyFlushed = NoCopy
  /\ step # "copy.flush" => copyFlushed = copy
  /\ step = "down" => Recovers(slots, copy)
  /\ step = "copy.drop" =>
       \/ Restores(copy) /\ slots[copy.of] = copy.slot /\ slots[Other(copy.of)] = NoSlot
       \/ copy.kind # "whole" /\ Keeps(slots)
  /\ step \in Restoring => Restores(copy)
  /\ step \in {"restore.flush", "other.truncate"} => slots[copy.of] = copy.slot
  /\ step \in Migrating => Restores(copy) /\ copy = Copy(using, slots[using])

\* The newest complete checkpoint and the one being built.
SlotsKept ==
  /\ step = "read" => Keeps(slots)
  /\ step \in {"copy.write", "copy.flush"} => Newest /\ Keeps(slots)
  /\ step \in {"copy.write", "copy.flush"} \cup Migrating =>
       slots[using].gen > 0 /\ slots[using].ver < build
  /\ step \in {"up.flush", "copy.clear"} => slots[Other(using)] = Migrated(slots[using], build)
  /\ step \in {"log", "up", "ckpt.write"} => Newest
  /\ step \in {"log"} \cup InUse => slots[using].ver <= build
  /\ step \in {"log", "up", "ckpt.write", "ckpt.flush", "back.flush"} =>
       safe \subseteq slots[using].ops
  /\ step \in InUse => slots[using].ops \subseteq mem
  /\ step \in {"ckpt.flush", "back.flush"} => Wins(flushed)
  /\ step \in {"ckpt.flush", "back.flush", "log.reset"} =>
       /\ slots[Other(using)].gen = slots[using].gen + 1
       /\ slots[using].ops \subseteq slots[Other(using)].ops
       /\ slots[Other(using)].ops \subseteq mem /\ slots[Other(using)].ver <= build
  /\ step = "log.reset" => safe \subseteq slots[Other(using)].ops
  /\ step = "ckpt.flush" => slots[Other(using)].ver = build

\* The checkpoint an unfinished migration started from is in the copy until the
\* slots are as they were.
BeforeKept ==
  before # NoSlot =>
    \/ /\ step \in Migrating \cup Restoring \cup {"down", "copy.drop"}
       /\ copy.kind = "whole" /\ copy.slot = before
    \/ step \in {"down", "read"} /\ copy.kind = "none" /\ slots[Winner(slots)] = before

MigrationInv == Types /\ Files /\ CopyKept /\ SlotsKept /\ BeforeKept

-----------------------------------------------------------------------------
(* Slots and generations.                                                  *)

\* Two slots.
LEMMA TwoSlots ==
  /\ "a" \in Slots /\ "b" \in Slots
  /\ \A s \in Slots : Other(s) \in Slots /\ Other(s) # s /\ Other(Other(s)) = s
  /\ \A s, t \in Slots : t = s \/ t = Other(s)
BY DEF Slots, Other

\* A slot, and a copy, that is not there.
LEMMA NothingIsOK == SlotOK(NoSlot) /\ CopyOK(NoCopy) /\ CopyOK(Torn) /\ NoSlot.gen = 0
<1>1. SlotOK(NoSlot) /\ NoSlot.gen = 0
  BY DEF SlotOK, NoSlot
<1>2. NoSlot \in [gen : Nat, ver : Nat, fmt : Nat, ops : SUBSET (1..made)]
  BY DEF NoSlot
<1>3. QED
  BY <1>1, <1>2 DEF CopyOK, NoCopy, Torn, Slots

\* The winner is a newest slot.
LEMMA WinnerIs ==
  ASSUME NEW sl \in [Slots -> [gen : Nat, ver : Nat, fmt : Nat, ops : SUBSET (1..made)]]
  PROVE  /\ Winner(sl) \in Slots
         /\ \A s \in Slots : sl[s].gen <= sl[Winner(sl)].gen
         /\ \A s \in Slots : sl[s].gen > sl[Other(s)].gen => Winner(sl) = s
<1>1. sl["a"].gen \in Nat /\ sl["b"].gen \in Nat
  BY DEF Slots
<1>2. QED
  BY <1>1 DEF Winner, Slots, Other

\* Of two slots that do not decode either is as good.
LEMMA NoneDecodes ==
  ASSUME NEW sl \in [Slots -> [gen : Nat, ver : Nat, fmt : Nat, ops : SUBSET (1..made)]],
         \A s \in Slots : SlotOK(sl[s]), NEW s \in Slots, sl[s].gen = 0, sl[Other(s)].gen = 0
  PROVE  sl[Winner(sl)] = sl[s]
<1>1. sl[s] = NoSlot /\ sl[Other(s)] = NoSlot
  BY TwoSlots DEF SlotOK
<1>2. QED
  BY <1>1, WinnerIs, TwoSlots

\* A slot in use that wins is what recovery would take.
LEMMA InUseWins ==
  ASSUME NEW sl \in [Slots -> [gen : Nat, ver : Nat, fmt : Nat, ops : SUBSET (1..made)]],
         \A s \in Slots : SlotOK(sl[s]), using \in Slots, Wins(sl)
  PROVE  sl[Winner(sl)] = sl[using]
BY NoneDecodes DEF Wins

\* A migrated or rolled back checkpoint is one of the version it is taken to.
LEMMA ConvertedIsOK ==
  ASSUME NEW c, SlotOK(c), NEW to \in Nat
  PROVE  /\ c.ver < to => SlotOK(Migrated(c, to))
         /\ SlotOK(RolledBack(c, to))
         /\ Migrated(c, to).gen = c.gen + 1 /\ Migrated(c, to).ops = c.ops
         /\ Migrated(c, to).ver = to
         /\ RolledBack(c, to).gen = c.gen + 1 /\ RolledBack(c, to).ops = c.ops
         /\ RolledBack(c, to).ver = to
BY DEF SlotOK, Migrated, RolledBack

\* What recovery settles on has what is safe.
LEMMA SettlesWell ==
  ASSUME Types, NEW sl \in [Slots -> [gen : Nat, ver : Nat, fmt : Nat, ops : SUBSET (1..made)]],
         NEW c, CopyOK(c)
  PROVE  /\ c.kind = "whole" /\ c.slot.gen > 0 => Settles(sl, c) = c.slot
         /\ c.kind # "whole" => Settles(sl, c) = sl[Winner(sl)]
         /\ Recovers(sl, c) => safe \subseteq Settles(sl, c).ops
<1> DEFINE put == [s \in Slots |-> IF s = c.of THEN c.slot ELSE NoSlot]
<1>1. ASSUME c.kind = "whole", c.slot.gen > 0 PROVE Settles(sl, c) = c.slot
  <2>1. c.of \in Slots /\ c.slot.gen \in Nat
    BY DEF CopyOK
  <2>2. put[c.of] = c.slot /\ put[Other(c.of)] = NoSlot
    BY <2>1, TwoSlots
  <2>3. Winner(put) = c.of
    BY <1>1, <2>1, <2>2, NothingIsOK DEF Winner, Slots, Other
  <2>4. Settles(sl, c) = put[Winner(put)]
    BY <1>1 DEF Settles
  <2>5. QED
    BY <2>2, <2>3, <2>4
<1>2. ASSUME c.kind # "whole" PROVE Settles(sl, c) = sl[Winner(sl)]
  BY <1>2 DEF Settles
<1>3. QED
  BY <1>1, <1>2 DEF Recovers, Restores, Keeps

-----------------------------------------------------------------------------
(* A death.                                                                *)

\* What a death leaves are slots and a copy.
LEMMA OutcomeTypes ==
  ASSUME MigrationInv, NEW sl \in SlotsAfter, NEW c \in CopiesAfter
  PROVE  /\ sl \in [Slots -> [gen : Nat, ver : Nat, fmt : Nat, ops : SUBSET (1..made)]]
         /\ \A s \in Slots : SlotOK(sl[s])
         /\ CopyOK(c)
         /\ \A s \in Slots : /\ sl[s] \in {slots[s], flushed[s], NoSlot}
                             /\ slots[s] = flushed[s] => sl[s] = slots[s]
<1>1. /\ sl \in [Slots -> {slots["a"], slots["b"], flushed["a"], flushed["b"], NoSlot}]
      /\ \A s \in Slots : sl[s] \in IF slots[s] = flushed[s] THEN {slots[s]}
                                    ELSE {slots[s], flushed[s], NoSlot}
  BY DEF SlotsAfter
<1>2. \A s \in Slots : /\ sl[s] \in {slots[s], flushed[s], NoSlot}
                       /\ slots[s] = flushed[s] => sl[s] = slots[s]
  BY <1>1
<1>3. \A s \in Slots : SlotOK(sl[s])
  BY <1>2, NothingIsOK DEF MigrationInv, Types
<1>4. \A s \in Slots : sl[s] \in [gen : Nat, ver : Nat, fmt : Nat, ops : SUBSET (1..made)]
  BY <1>3 DEF SlotOK
<1>5. sl \in [Slots -> [gen : Nat, ver : Nat, fmt : Nat, ops : SUBSET (1..made)]]
  BY <1>1, <1>4
<1>6. CopyOK(c)
  BY NothingIsOK DEF MigrationInv, Types, CopiesAfter
<1>7. QED
  BY <1>2, <1>3, <1>5, <1>6

\* Wherever the tab dies, recovery has what the newest complete checkpoint held.
LEMMA OutcomeRecovers ==
  ASSUME MigrationInv, NEW sl \in SlotsAfter, NEW c \in CopiesAfter
  PROVE  Recovers(sl, c)
<1> USE OutcomeTypes, TwoSlots
<1>1. CASE step \notin Unflushed
  <2>1. sl = slots
    BY <1>1 DEF MigrationInv, Files, Types
  <2>2. CASE step = "copy.flush"
    <3>1. c \in {copy, NoCopy, Torn} /\ copy.kind = "whole" /\ copy.slot = slots[using]
      BY <2>2 DEF MigrationInv, CopyKept, CopiesAfter, Copy
    <3>2. Newest /\ Keeps(slots) /\ slots[using].gen > 0
      BY <2>2 DEF MigrationInv, SlotsKept
    <3>3. slots[Winner(slots)] = slots[using]
      BY <3>2, InUseWins DEF MigrationInv, Types, Newest
    <3>4. QED
      BY <2>1, <3>1, <3>2, <3>3 DEF Recovers, Restores, Keeps, NoCopy, Torn
  <2>3. CASE step # "copy.flush"
    <3>1. c = copy
      BY <2>3 DEF MigrationInv, CopyKept, CopiesAfter
    <3>2. CASE step \in {"down", "copy.drop"} \cup Restoring \cup Migrating
      BY <2>1, <3>1, <3>2 DEF MigrationInv, CopyKept, Recovers
    <3>3. CASE step \in {"read", "copy.write"}
      BY <2>1, <3>1, <3>3 DEF MigrationInv, Files, SlotsKept, Copyless, Recovers, NoCopy
    <3>4. CASE step \in {"log", "up", "ckpt.write"}
      <4>1. Newest /\ safe \subseteq slots[using].ops /\ copy = NoCopy
        BY <3>4 DEF MigrationInv, SlotsKept, Files, Copyless, InUse
      <4>2. slots[Winner(slots)] = slots[using]
        BY <4>1, InUseWins DEF MigrationInv, Types, Newest
      <4>3. QED
        BY <2>1, <3>1, <4>1, <4>2 DEF Recovers, Keeps, NoCopy
    <3>5. CASE step = "log.reset"
      <4>1. /\ slots[Other(using)].gen > slots[using].gen
            /\ safe \subseteq slots[Other(using)].ops /\ copy = NoCopy
        BY <3>5 DEF MigrationInv, SlotsKept, Files, Copyless, InUse, Types
      <4>2. Winner(slots) = Other(using)
        BY <4>1, WinnerIs DEF MigrationInv, Types
      <4>3. QED
        BY <2>1, <3>1, <4>1, <4>2 DEF Recovers, Keeps, NoCopy
    <3>6. QED
      BY <1>1, <2>3, <3>2, <3>3, <3>4, <3>5 DEF MigrationInv, Files, Steps, Unflushed,
         Restoring, Migrating
  <2>4. QED
    BY <2>2, <2>3
<1>2. CASE step \in {"restore.flush", "up.flush"}
  <2>1. c = copy /\ Restores(copy)
    BY <1>2 DEF MigrationInv, CopyKept, CopiesAfter, Restoring, Migrating
  <2>2. QED
    BY <2>1 DEF Recovers
<1>3. CASE step \in {"ckpt.flush", "back.flush"}
  <2>1. c = copy /\ copy = NoCopy
    BY <1>3 DEF MigrationInv, CopyKept, CopiesAfter, Files, Copyless, InUse
  <2>2. /\ slots[using] = flushed[using] /\ safe \subseteq slots[using].ops
        /\ slots[Other(using)].gen = slots[using].gen + 1
        /\ slots[using].ops \subseteq slots[Other(using)].ops
        /\ Wins(flushed)
    BY <1>3 DEF MigrationInv, Files, SlotsKept
  <2>3. /\ sl[using] = slots[using]
        /\ sl[Other(using)] \in {slots[Other(using)], flushed[Other(using)], NoSlot}
    BY <2>2 DEF MigrationInv, Types
  <2>4. CASE sl[Other(using)] = slots[Other(using)]
    <3>1. sl[Other(using)].gen > sl[using].gen
      BY <2>2, <2>3, <2>4 DEF MigrationInv, Types
    <3>2. Winner(sl) = Other(using)
      BY <3>1, WinnerIs DEF MigrationInv, Types
    <3>3. QED
      BY <2>1, <2>2, <2>4, <3>2 DEF Recovers, Keeps, NoCopy
  <2>5. CASE sl[Other(using)] \in {flushed[Other(using)], NoSlot}
    <3>1. Wins(sl)
      BY <2>2, <2>5, NothingIsOK DEF MigrationInv, Types, Wins, Winner
    <3>2. sl[Winner(sl)] = sl[using]
      BY <3>1, InUseWins DEF MigrationInv, Types
    <3>3. QED
      BY <2>1, <2>2, <2>3, <3>2 DEF Recovers, Keeps, NoCopy
  <2>6. QED
    BY <2>3, <2>4, <2>5
<1>4. QED
  BY <1>1, <1>2, <1>3 DEF Unflushed

-----------------------------------------------------------------------------
(* What every step keeps.                                                  *)

\* Every step keeps the types, and no payload is converted twice.
LEMMA TypesNext ==
  ASSUME Versions, MigrationInv, Next
  PROVE  Types'
<1> USE TwoSlots
<1>0. ASSUME NEW b \in Builds, Open(b) PROVE Types'
  BY <1>0 DEF MigrationInv, Types, SlotOK, CopyOK, Open, files
<1>1. ASSUME RestoreWrite PROVE Types'
  <2>1. /\ slots' = [slots EXCEPT ![copy.of] = copy.slot]
        /\ UNCHANGED <<flushed, copy, copyFlushed, logged, session>>
    BY <1>1 DEF RestoreWrite
  <2>2. SlotOK(copy.slot) /\ copy.of \in Slots
    BY DEF MigrationInv, Types, CopyOK
  <2>3. QED
    BY <2>1, <2>2 DEF MigrationInv, Types, SlotOK, CopyOK, session
<1>2. ASSUME RestoreFlush PROVE Types'
  BY <1>2 DEF Versions, MigrationInv, Types, Files, CopyKept, BeforeKept, RestoreFlush,
     session, Copyless, Migrating, SlotOK, CopyOK
<1>3. ASSUME OtherTruncate PROVE Types'
  BY <1>3 DEF MigrationInv, Types, OtherTruncate, session, SlotOK, CopyOK, NoSlot
<1>4. ASSUME CopyDrop PROVE Types'
  BY <1>4 DEF MigrationInv, Types, CopyDrop, session, SlotOK, CopyOK, NoCopy, NoSlot
<1>5. ASSUME ReadSlots PROVE Types'
  <2>1. Winner(slots) \in Slots /\ UNCHANGED <<files, made, mem, build>>
    BY <1>5, WinnerIs DEF MigrationInv, Types, ReadSlots
  <2>2. using' \in Slots
    BY <1>5, <2>1 DEF ReadSlots, Slots
  <2>3. QED
    BY <2>1, <2>2 DEF MigrationInv, Types, SlotOK, CopyOK, files
<1>6. ASSUME CopyWrite PROVE Types'
  BY <1>6 DEF MigrationInv, Types, SlotsKept, CopyWrite, session, SlotOK, CopyOK, Copy
<1>7. ASSUME CopyFlush PROVE Types'
  BY <1>7 DEF MigrationInv, Types, CopyFlush, session, SlotOK, CopyOK
<1>8. ASSUME UpWrite PROVE Types'
  <2> DEFINE new == Migrated(slots[using], build)
  <2>1. SlotOK(new)
    BY <1>8, ConvertedIsOK DEF Versions, MigrationInv, Types, SlotsKept, UpWrite, Migrating
  <2>2. /\ slots' = [slots EXCEPT ![Other(using)] = new]
        /\ UNCHANGED <<flushed, copy, copyFlushed, logged, session>>
    BY <1>8 DEF UpWrite
  <2> HIDE DEF new
  <2>3. QED
    BY <2>1, <2>2 DEF MigrationInv, Types, SlotOK, CopyOK, session
<1>9. ASSUME UpFlush PROVE Types'
  <2>1. /\ flushed' = [flushed EXCEPT ![Other(using)] = slots[Other(using)]]
        /\ UNCHANGED <<slots, copy, copyFlushed, logged, session>>
    BY <1>9 DEF UpFlush
  <2>2. SlotOK(slots[Other(using)])
    BY DEF MigrationInv, Types
  <2>3. QED
    BY <2>1, <2>2 DEF MigrationInv, Types, SlotOK, CopyOK, session
<1>10. ASSUME CopyClear PROVE Types'
  BY <1>10 DEF MigrationInv, Types, CopyClear, SlotOK, CopyOK, NoCopy, NoSlot
<1>11. ASSUME ReadLog PROVE Types'
  BY <1>11 DEF MigrationInv, Types, ReadLog, SlotOK, CopyOK
<1>12. ASSUME CheckpointWrite PROVE Types'
  <2> DEFINE new == [gen |-> slots[using].gen + 1, ver |-> build, fmt |-> build, ops |-> mem]
  <2>1. SlotOK(new)
    BY DEF Versions, MigrationInv, Types, SlotOK
  <2>2. /\ slots' = [slots EXCEPT ![Other(using)] = new]
        /\ UNCHANGED <<flushed, copy, copyFlushed, logged, session>>
    BY <1>12 DEF CheckpointWrite
  <2> HIDE DEF new
  <2>3. QED
    BY <2>1, <2>2 DEF MigrationInv, Types, SlotOK, CopyOK, session
<1>13. ASSUME SlotFlush PROVE Types'
  <2>1. /\ flushed' = [flushed EXCEPT ![Other(using)] = slots[Other(using)]]
        /\ UNCHANGED <<slots, copy, copyFlushed, logged, session>>
    BY <1>13 DEF SlotFlush
  <2>2. SlotOK(slots[Other(using)])
    BY DEF MigrationInv, Types
  <2>3. QED
    BY <2>1, <2>2 DEF MigrationInv, Types, SlotOK, CopyOK, session
<1>14. ASSUME LogReset PROVE Types'
  BY <1>14 DEF MigrationInv, Types, LogReset, SlotOK, CopyOK
<1>15. ASSUME Mutate PROVE Types'
  BY <1>15 DEF MigrationInv, Types, Mutate, SlotOK, CopyOK
<1>16. ASSUME Checkpoint PROVE Types'
  BY <1>16 DEF MigrationInv, Types, Checkpoint, files, session, SlotOK, CopyOK
<1>17. ASSUME RollBack PROVE Types'
  <2> DEFINE new == RolledBack(slots[using], slots[using].ver - 1)
  <2>1. SlotOK(new)
    BY <1>17, ConvertedIsOK DEF Versions, MigrationInv, Types, RollBack
  <2>2. /\ slots' = [slots EXCEPT ![Other(using)] = new]
        /\ UNCHANGED <<flushed, copy, copyFlushed, logged, session>>
    BY <1>17 DEF RollBack
  <2> HIDE DEF new
  <2>3. QED
    BY <2>1, <2>2 DEF MigrationInv, Types, SlotOK, CopyOK, session
<1>18. ASSUME Crash PROVE Types'
  <2>1. PICK sl \in SlotsAfter, c \in CopiesAfter :
          slots' = sl /\ flushed' = sl /\ copy' = c /\ copyFlushed' = c
    BY <1>18 DEF Crash
  <2>2. /\ slots' \in [Slots -> [gen : Nat, ver : Nat, fmt : Nat, ops : SUBSET (1..made)]]
        /\ \A s \in Slots : SlotOK(slots'[s])
        /\ CopyOK(copy')
    BY <2>1, OutcomeTypes
  <2>3. /\ UNCHANGED <<logged, build, using, made>> /\ mem' = {}
        /\ flushed' = slots' /\ copyFlushed' = copy'
    BY <1>18, <2>1 DEF Crash
  <2>4. QED
    BY <2>2, <2>3 DEF MigrationInv, Types, SlotOK, CopyOK
<1>19. QED
  BY <1>0, <1>1, <1>2, <1>3, <1>4, <1>5, <1>6, <1>7, <1>8, <1>9, <1>10, <1>11, <1>12,
     <1>13, <1>14, <1>15, <1>16, <1>17, <1>18 DEF Next, BootStep, SaveStep

\* Every step keeps which files have unflushed bytes.
LEMMA FilesNext ==
  ASSUME Versions, MigrationInv, Next
  PROVE  Files'
<1> USE TwoSlots
<1>0. ASSUME NEW b \in Builds, Open(b) PROVE Files'
  BY <1>0 DEF MigrationInv, Types, Files, CopyKept, CopyOK, Open, AfterCopy, Goto, files,
     Steps, InUse, Unflushed, Copyless
<1>1. ASSUME RestoreWrite PROVE Files'
  BY <1>1 DEF MigrationInv, Files, RestoreWrite, Goto, Steps, InUse, Unflushed, Copyless,
     Other
<1>2. ASSUME RestoreFlush PROVE Files'
  BY <1>2 DEF MigrationInv, Types, Files, RestoreFlush, Goto, Steps, InUse, Copyless, CopyOK
<1>3. ASSUME OtherTruncate PROVE Files'
  BY <1>3 DEF MigrationInv, Files, OtherTruncate, Goto, Steps, InUse, Unflushed, Copyless
<1>4. ASSUME CopyDrop PROVE Files'
  BY <1>4 DEF MigrationInv, Files, CopyDrop, Goto, Steps, Unflushed
<1>5. ASSUME ReadSlots PROVE Files'
  BY <1>5 DEF MigrationInv, Files, ReadSlots, Goto, files, Steps, Unflushed, Copyless
<1>6. ASSUME CopyWrite PROVE Files'
  BY <1>6 DEF MigrationInv, Files, CopyWrite, Goto, Steps, InUse, Unflushed, Copyless
<1>7. ASSUME CopyFlush PROVE Files'
  BY <1>7 DEF MigrationInv, Files, CopyFlush, Goto, Steps, InUse, Unflushed, Copyless
<1>8. ASSUME UpWrite PROVE Files'
  BY <1>8 DEF MigrationInv, Files, UpWrite, Goto, session, Steps, InUse, Unflushed,
     Copyless, Other
<1>9. ASSUME UpFlush PROVE Files'
  BY <1>9 DEF MigrationInv, Types, Files, UpFlush, Goto, Steps, InUse, Copyless
<1>10. ASSUME CopyClear PROVE Files'
  BY <1>10 DEF MigrationInv, Files, CopyClear, Goto, Steps, Unflushed
<1>11. ASSUME ReadLog PROVE Files'
  BY <1>11 DEF MigrationInv, Files, ReadLog, Goto, Steps, Unflushed, Copyless
<1>12. ASSUME CheckpointWrite PROVE Files'
  BY <1>12 DEF MigrationInv, Files, CheckpointWrite, Goto, session, Steps, InUse,
     Unflushed, Copyless, Other
<1>13. ASSUME SlotFlush PROVE Files'
  BY <1>13 DEF MigrationInv, Types, Files, SlotFlush, Goto, Steps, InUse, Copyless
<1>14. ASSUME LogReset PROVE Files'
  BY <1>14 DEF MigrationInv, Files, LogReset, Goto, Steps, InUse, Unflushed, Copyless
<1>15. ASSUME Mutate PROVE Files'
  BY <1>15 DEF MigrationInv, Files, Mutate
<1>16. ASSUME Checkpoint PROVE Files'
  BY <1>16 DEF MigrationInv, Files, Checkpoint, Goto, files, Steps, InUse, Unflushed,
     Copyless
<1>17. ASSUME RollBack PROVE Files'
  BY <1>17 DEF MigrationInv, Files, RollBack, Goto, session, Steps, InUse, Unflushed,
     Copyless, Other
<1>18. ASSUME Crash PROVE Files'
  BY <1>18 DEF Files, Crash, Goto, Steps, InUse, Copyless
<1>19. QED
  BY <1>0, <1>1, <1>2, <1>3, <1>4, <1>5, <1>6, <1>7, <1>8, <1>9, <1>10, <1>11, <1>12,
     <1>13, <1>14, <1>15, <1>16, <1>17, <1>18 DEF Next, BootStep, SaveStep

\* Every step keeps what the copy will put back.
LEMMA CopyKeptNext ==
  ASSUME Versions, MigrationInv, Next
  PROVE  CopyKept'
<1> USE TwoSlots
<1>0. ASSUME NEW b \in Builds, Open(b) PROVE CopyKept'
  BY <1>0 DEF Recovers, Restores, Keeps, MigrationInv, Types, CopyKept, CopyOK, Open,
     AfterCopy, Goto, files, Migrating, Restoring
<1>1. ASSUME RestoreWrite PROVE CopyKept'
  BY <1>1 DEF Restores, MigrationInv, Types, CopyKept, RestoreWrite, Goto, Migrating,
     Restoring, CopyOK
<1>2. ASSUME RestoreFlush PROVE CopyKept'
  BY <1>2 DEF Restores, MigrationInv, CopyKept, RestoreFlush, Goto, Migrating, Restoring
<1>3. ASSUME OtherTruncate PROVE CopyKept'
  BY <1>3 DEF Restores, MigrationInv, Types, CopyKept, OtherTruncate, Goto, Migrating,
     Restoring, Other
<1>4. ASSUME CopyDrop PROVE CopyKept'
  BY <1>4 DEF CopyKept, CopyDrop, Goto, Migrating, Restoring
<1>5. ASSUME ReadSlots PROVE CopyKept'
  BY <1>5 DEF Recovers, Keeps, MigrationInv, Files, CopyKept, SlotsKept, ReadSlots, Goto,
     files, Copyless, Migrating, Restoring, NoCopy
<1>6. ASSUME CopyWrite PROVE CopyKept'
  BY <1>6 DEF MigrationInv, Files, CopyKept, CopyWrite, Goto, session, Copyless,
     Migrating, Restoring
<1>7. ASSUME CopyFlush PROVE CopyKept'
  <2>1. slots[Winner(slots)] = slots[using]
    BY <1>7, InUseWins DEF MigrationInv, Types, SlotsKept, Newest, CopyFlush
  <2>2. Restores(copy) /\ copy = Copy(using, slots[using])
    BY <1>7, <2>1 DEF MigrationInv, CopyKept, SlotsKept, CopyFlush, Keeps, Restores, Copy
  <2>3. step' = "up.write" /\ copyFlushed' = copy /\ UNCHANGED <<slots, copy, using, safe>>
    BY <1>7 DEF CopyFlush, Goto, session
  <2>4. QED
    BY <2>2, <2>3 DEF CopyKept, Restoring, Migrating, Restores, Copy
<1>8. ASSUME UpWrite PROVE CopyKept'
  BY <1>8 DEF Restores, MigrationInv, CopyKept, UpWrite, Goto, session, Migrating, Other
<1>9. ASSUME UpFlush PROVE CopyKept'
  BY <1>9 DEF Restores, MigrationInv, CopyKept, UpFlush, Goto, session, Migrating
<1>10. ASSUME CopyClear PROVE CopyKept'
  BY <1>10 DEF CopyKept, CopyClear, Goto, Migrating, Restoring
<1>11. ASSUME ReadLog PROVE CopyKept'
  BY <1>11 DEF MigrationInv, CopyKept, ReadLog, Goto, Migrating, Restoring
<1>12. ASSUME CheckpointWrite PROVE CopyKept'
  BY <1>12 DEF MigrationInv, CopyKept, CheckpointWrite, Goto, Migrating, Restoring
<1>13. ASSUME SlotFlush PROVE CopyKept'
  BY <1>13 DEF MigrationInv, CopyKept, SlotFlush, Goto, Migrating, Restoring
<1>14. ASSUME LogReset PROVE CopyKept'
  BY <1>14 DEF MigrationInv, CopyKept, LogReset, Goto, Migrating, Restoring
<1>15. ASSUME Mutate PROVE CopyKept'
  BY <1>15 DEF MigrationInv, CopyKept, Mutate, Migrating, Restoring
<1>16. ASSUME Checkpoint PROVE CopyKept'
  BY <1>16 DEF MigrationInv, CopyKept, Checkpoint, Goto, files, Migrating, Restoring
<1>17. ASSUME RollBack PROVE CopyKept'
  BY <1>17 DEF MigrationInv, CopyKept, RollBack, Goto, Migrating, Restoring
<1>18. ASSUME Crash PROVE CopyKept'
  <2>1. PICK sl \in SlotsAfter, c \in CopiesAfter :
          slots' = sl /\ flushed' = sl /\ copy' = c /\ copyFlushed' = c
    BY <1>18 DEF Crash
  <2>2. Recovers(sl, c)
    BY OutcomeRecovers
  <2>3. safe' = safe /\ step' = "down"
    BY <1>18 DEF Crash, Goto
  <2>4. Recovers(slots, copy)'
    BY <2>1, <2>2, <2>3 DEF Recovers, Restores, Keeps
  <2>5. QED
    BY <2>1, <2>3, <2>4 DEF CopyKept, Restoring, Migrating
<1>19. QED
  BY <1>0, <1>1, <1>2, <1>3, <1>4, <1>5, <1>6, <1>7, <1>8, <1>9, <1>10, <1>11, <1>12,
     <1>13, <1>14, <1>15, <1>16, <1>17, <1>18 DEF Next, BootStep, SaveStep

\* Every step keeps the newest complete checkpoint.
LEMMA SlotsKeptNext ==
  ASSUME Versions, MigrationInv, Next
  PROVE  SlotsKept'
<1> USE TwoSlots
<1>0. ASSUME NEW b \in Builds, Open(b) PROVE SlotsKept'
  BY <1>0 DEF Recovers, Restores, Keeps, MigrationInv, CopyKept, SlotsKept, Open,
     AfterCopy, Goto, files, InUse, Migrating
<1>1. ASSUME RestoreWrite PROVE SlotsKept'
  BY <1>1 DEF SlotsKept, RestoreWrite, Goto, InUse, Migrating
<1>2. ASSUME RestoreFlush PROVE SlotsKept'
  BY <1>2 DEF SlotsKept, RestoreFlush, Goto, InUse, Migrating
<1>3. ASSUME OtherTruncate PROVE SlotsKept'
  BY <1>3 DEF SlotsKept, OtherTruncate, Goto, InUse, Migrating
<1>4. ASSUME CopyDrop PROVE SlotsKept'
  <2>1. step = "copy.drop" /\ step' = "read" /\ UNCHANGED <<slots, safe>>
    BY <1>4 DEF CopyDrop, Goto
  <2>2. CASE Restores(copy) /\ slots[copy.of] = copy.slot /\ slots[Other(copy.of)] = NoSlot
    <3>1. Winner(slots) = copy.of
      BY <2>2, WinnerIs, NothingIsOK DEF MigrationInv, Types, CopyOK, Restores
    <3>2. QED
      BY <2>1, <2>2, <3>1 DEF SlotsKept, Keeps, Restores, Migrating, InUse
  <2>3. CASE Keeps(slots)
    BY <2>1, <2>3 DEF SlotsKept, Keeps, Migrating, InUse
  <2>4. QED
    BY <2>1, <2>2, <2>3 DEF MigrationInv, CopyKept
<1>5. ASSUME ReadSlots PROVE SlotsKept'
  <2> DEFINE won == slots[Winner(slots)]
  <2>1. /\ step = "read" /\ UNCHANGED <<slots, safe, build>>
        /\ using' = IF won.gen = 0 THEN "b" ELSE Winner(slots)
        /\ \/ (won.gen = 0 \/ won.ver = build) /\ step' = "log"
           \/ won.gen > 0 /\ won.ver # build /\ ~Refuses(won.ver, build) /\ step' = "copy.write"
           \/ step' = "down"
    BY <1>5 DEF ReadSlots, files, Goto
  <2>2. /\ \A s \in Slots : slots[s].gen <= won.gen /\ SlotOK(slots[s])
        /\ Winner(slots) \in Slots /\ won.gen \in Nat /\ won.ver \in Nat /\ build \in Nat
    BY WinnerIs DEF Versions, MigrationInv, Types
  <2>3. CASE won.gen = 0
    <3>1. using' = "b" /\ slots["b"].gen = 0 /\ slots["a"].gen = 0
      BY <2>1, <2>2, <2>3 DEF Slots, SlotOK
    <3>2. won = slots["b"] /\ slots["b"] = NoSlot
      BY <2>2, <3>1 DEF SlotOK, Slots
    <3>3. Wins(slots)'
      BY <2>1, <3>1 DEF Wins, Other
    <3>4. safe \subseteq slots["b"].ops /\ slots["b"].ver <= build
      BY <2>1, <2>2, <3>2 DEF MigrationInv, SlotsKept, Keeps, NoSlot
    <3>5. step' \in {"log", "down"}
      BY <2>1, <2>3, <2>2
    <3>6. QED
      BY <2>1, <3>1, <3>3, <3>4 DEF SlotsKept, Newest, Migrating, InUse
  <2>4. CASE won.gen > 0
    <3>0. using' = Winner(slots) /\ slots' = slots
      BY <2>1, <2>2, <2>4
    <3>1. using' = Winner(slots) /\ Wins(slots)'
      BY <3>0 DEF Wins
    <3>2. safe \subseteq won.ops /\ Keeps(slots)'
      BY <2>1 DEF MigrationInv, SlotsKept, Keeps
    <3>3. ~Refuses(won.ver, build) => won.ver <= build
      BY <2>2 DEF Refuses
    <3>4. QED
      BY <2>1, <2>2, <2>4, <3>1, <3>2, <3>3 DEF SlotsKept, Newest, Migrating, InUse
  <2>5. QED
    BY <2>2, <2>3, <2>4
<1>6. ASSUME CopyWrite PROVE SlotsKept'
  BY <1>6 DEF Keeps, Newest, Wins, MigrationInv, SlotsKept, CopyWrite, Goto, session, InUse
<1>7. ASSUME CopyFlush PROVE SlotsKept'
  BY <1>7 DEF MigrationInv, SlotsKept, CopyFlush, Goto, session, InUse
<1>8. ASSUME UpWrite PROVE SlotsKept'
  BY <1>8 DEF MigrationInv, Types, SlotsKept, UpWrite, Goto, session, InUse, Migrating
<1>9. ASSUME UpFlush PROVE SlotsKept'
  BY <1>9 DEF MigrationInv, SlotsKept, UpFlush, Goto, session, InUse, Migrating
<1>10. ASSUME CopyClear PROVE SlotsKept'
  <2>1. /\ step' = "log" /\ using' = Other(using) /\ UNCHANGED <<slots, safe, build>>
        /\ slots[Other(using)] = Migrated(slots[using], build)
        /\ safe \subseteq slots[using].ops
    BY <1>10 DEF CopyClear, Goto, MigrationInv, SlotsKept, CopyKept, Migrating, Restores,
       Copy
  <2>2. /\ slots[Other(using)].gen = slots[using].gen + 1
        /\ slots[Other(using)].ops = slots[using].ops /\ slots[Other(using)].ver = build
    BY <2>1, ConvertedIsOK DEF Versions, MigrationInv, Types
  <2>3. Winner(slots) = Other(using)
    BY <2>2, WinnerIs DEF MigrationInv, Types
  <2>4. build \in Nat /\ slots' = slots
    BY <2>1 DEF Versions, MigrationInv, Types
  <2>5. Newest'
    BY <2>1, <2>3, <2>4 DEF Newest, Wins
  <2>6. /\ slots'[using'].ver <= build' /\ safe' \subseteq slots'[using'].ops
    BY <2>1, <2>2, <2>4
  <2>7. QED
    BY <2>1, <2>5, <2>6 DEF SlotsKept, Migrating, InUse
<1>11. ASSUME ReadLog PROVE SlotsKept'
  BY <1>11 DEF Newest, Wins, MigrationInv, SlotsKept, ReadLog, Goto, Migrating
<1>12. ASSUME CheckpointWrite PROVE SlotsKept'
  BY <1>12 DEF Newest, Wins, Versions, MigrationInv, Types, Files, SlotsKept,
     CheckpointWrite, Goto, session, InUse, Unflushed, Migrating
<1>13. ASSUME SlotFlush PROVE SlotsKept'
  BY <1>13 DEF MigrationInv, SlotsKept, SlotFlush, Goto, session, InUse, Migrating
<1>14. ASSUME LogReset PROVE SlotsKept'
  <2>1. /\ step' = "up" /\ using' = Other(using) /\ UNCHANGED <<slots, safe, build, mem>>
        /\ slots[Other(using)].gen = slots[using].gen + 1
        /\ slots[Other(using)].ops \subseteq mem /\ slots[Other(using)].ver <= build
        /\ safe \subseteq slots[Other(using)].ops
    BY <1>14 DEF LogReset, Goto, MigrationInv, SlotsKept
  <2>2. Winner(slots) = Other(using) /\ slots' = slots
    BY <2>1, WinnerIs DEF MigrationInv, Types
  <2>3. Newest'
    BY <2>1, <2>2 DEF Newest, Wins
  <2>4. QED
    BY <2>1, <2>3 DEF SlotsKept, Migrating, InUse
<1>15. ASSUME Mutate PROVE SlotsKept'
  BY <1>15 DEF Newest, Wins, MigrationInv, SlotsKept, Mutate
<1>16. ASSUME Checkpoint PROVE SlotsKept'
  BY <1>16 DEF Newest, Wins, MigrationInv, SlotsKept, Checkpoint, Goto, files, session,
     InUse, Migrating
<1>17. ASSUME RollBack PROVE SlotsKept'
  <2> DEFINE new == RolledBack(slots[using], slots[using].ver - 1)
  <2>1. /\ step = "up" /\ step' = "back.flush" /\ UNCHANGED <<flushed, using, safe, build, mem>>
        /\ slots' = [slots EXCEPT ![Other(using)] = new]
        /\ slots[using].ver - 1 \in Nat
    BY <1>17 DEF RollBack, Goto, session, Versions
  <2>2. /\ new.gen = slots[using].gen + 1 /\ new.ops = slots[using].ops
        /\ new.ver = slots[using].ver - 1
    BY <2>1, ConvertedIsOK DEF MigrationInv, Types
  <2>3. slots' [using] = slots[using] /\ slots'[Other(using)] = new
    BY <2>1 DEF MigrationInv, Types
  <2>4. /\ slots = flushed /\ Wins(slots) /\ safe \subseteq slots[using].ops
        /\ slots[using].ops \subseteq mem /\ slots[using].ver <= build
        /\ slots[using].ver \in Nat /\ build \in Nat
    BY <2>1 DEF Versions, MigrationInv, Types, Files, SlotsKept, Unflushed, InUse, Newest
  <2> HIDE DEF new
  <2>5. Wins(flushed)'
    BY <2>1, <2>4 DEF Wins
  <2>6. QED
    BY <2>1, <2>2, <2>3, <2>4, <2>5 DEF SlotsKept, Migrating
<1>18. ASSUME Crash PROVE SlotsKept'
  BY <1>18 DEF SlotsKept, Crash, Goto, InUse, Migrating
<1>19. QED
  BY <1>0, <1>1, <1>2, <1>3, <1>4, <1>5, <1>6, <1>7, <1>8, <1>9, <1>10, <1>11, <1>12,
     <1>13, <1>14, <1>15, <1>16, <1>17, <1>18 DEF Next, BootStep, SaveStep

\* Every step keeps what an unfinished migration started from.
LEMMA BeforeKeptNext ==
  ASSUME Versions, MigrationInv, Next
  PROVE  BeforeKept'
<1> USE TwoSlots
<1>0. ASSUME NEW b \in Builds, Open(b) PROVE BeforeKept'
  BY <1>0 DEF MigrationInv, BeforeKept, Open, AfterCopy, Goto, files, Restoring
<1>1. ASSUME RestoreWrite PROVE BeforeKept'
  BY <1>1 DEF MigrationInv, BeforeKept, RestoreWrite, Goto, Restoring
<1>2. ASSUME RestoreFlush PROVE BeforeKept'
  BY <1>2 DEF MigrationInv, BeforeKept, RestoreFlush, Goto, Restoring
<1>3. ASSUME OtherTruncate PROVE BeforeKept'
  BY <1>3 DEF MigrationInv, BeforeKept, OtherTruncate, Goto
<1>4. ASSUME CopyDrop PROVE BeforeKept'
  <2>1. step = "copy.drop" /\ step' = "read" /\ copy'.kind = "none" /\ UNCHANGED <<slots, before>>
    BY <1>4 DEF CopyDrop, Goto, NoCopy
  <2>2. CASE before # NoSlot
    <3>1. copy.kind = "whole" /\ copy.slot = before
      BY <2>1, <2>2 DEF MigrationInv, BeforeKept
    <3>2. Restores(copy) /\ slots[copy.of] = copy.slot /\ slots[Other(copy.of)] = NoSlot
      BY <2>1, <3>1 DEF MigrationInv, CopyKept
    <3>3. Winner(slots) = copy.of
      BY <3>2, WinnerIs, NothingIsOK DEF MigrationInv, Types, CopyOK, Restores
    <3>4. QED
      BY <2>1, <3>1, <3>2, <3>3 DEF BeforeKept
  <2>3. QED
    BY <2>1, <2>2 DEF BeforeKept
<1>5. ASSUME ReadSlots PROVE BeforeKept'
  BY <1>5 DEF BeforeKept, ReadSlots
<1>6. ASSUME CopyWrite PROVE BeforeKept'
  BY <1>6 DEF MigrationInv, BeforeKept, CopyWrite, Migrating, Restoring
<1>7. ASSUME CopyFlush PROVE BeforeKept'
  BY <1>7 DEF MigrationInv, CopyKept, BeforeKept, CopyFlush, Goto, Migrating, Copy
<1>8. ASSUME UpWrite PROVE BeforeKept'
  BY <1>8 DEF MigrationInv, BeforeKept, UpWrite, Goto, Migrating
<1>9. ASSUME UpFlush PROVE BeforeKept'
  BY <1>9 DEF MigrationInv, BeforeKept, UpFlush, Goto, Migrating
<1>10. ASSUME CopyClear PROVE BeforeKept'
  BY <1>10 DEF BeforeKept, CopyClear
<1>11. ASSUME ReadLog PROVE BeforeKept'
  BY <1>11 DEF MigrationInv, BeforeKept, ReadLog, Migrating, Restoring
<1>12. ASSUME CheckpointWrite PROVE BeforeKept'
  BY <1>12 DEF MigrationInv, BeforeKept, CheckpointWrite, Migrating, Restoring
<1>13. ASSUME SlotFlush PROVE BeforeKept'
  BY <1>13 DEF MigrationInv, BeforeKept, SlotFlush, Migrating, Restoring
<1>14. ASSUME LogReset PROVE BeforeKept'
  BY <1>14 DEF MigrationInv, BeforeKept, LogReset, Migrating, Restoring
<1>15. ASSUME Mutate PROVE BeforeKept'
  BY <1>15 DEF MigrationInv, BeforeKept, Mutate
<1>16. ASSUME Checkpoint PROVE BeforeKept'
  BY <1>16 DEF MigrationInv, BeforeKept, Checkpoint, Migrating, Restoring
<1>17. ASSUME RollBack PROVE BeforeKept'
  BY <1>17 DEF MigrationInv, BeforeKept, RollBack, Migrating, Restoring
<1>18. ASSUME Crash PROVE BeforeKept'
  <2>1. PICK sl \in SlotsAfter, c \in CopiesAfter :
          slots' = sl /\ flushed' = sl /\ copy' = c /\ copyFlushed' = c
    BY <1>18 DEF Crash
  <2>2. before' = before /\ step' = "down"
    BY <1>18 DEF Crash, Goto
  <2>3. CASE before # NoSlot
    <3>1. \/ /\ step \in Migrating \cup Restoring \cup {"copy.drop"}
             /\ copy.kind = "whole" /\ copy.slot = before
          \/ step = "read" /\ copy.kind = "none" /\ slots[Winner(slots)] = before
      BY <1>18, <2>3 DEF MigrationInv, BeforeKept, Crash
    <3>2. c = copy
      BY <3>1 DEF MigrationInv, CopyKept, CopiesAfter, Migrating, Restoring
    <3>3. ASSUME step = "read" PROVE sl = slots
      BY <3>3, OutcomeTypes DEF MigrationInv, Types, Files, Unflushed
    <3>4. QED
      BY <2>1, <2>2, <3>1, <3>2, <3>3 DEF BeforeKept
  <2>4. QED
    BY <2>2, <2>3 DEF BeforeKept
<1>19. QED
  BY <1>0, <1>1, <1>2, <1>3, <1>4, <1>5, <1>6, <1>7, <1>8, <1>9, <1>10, <1>11, <1>12,
     <1>13, <1>14, <1>15, <1>16, <1>17, <1>18 DEF Next, BootStep, SaveStep

-----------------------------------------------------------------------------
(* Every behaviour.                                                        *)

\* Two builds of one version are one.
LEMMA LatestIs ==
  ASSUME Versions
  PROVE  Latest \in Builds /\ \A w \in Builds : w <= Latest
BY DEF Versions, Latest

\* An empty store.
LEMMA MigrationInit ==
  ASSUME Versions, Init
  PROVE  MigrationInv
<1> USE TwoSlots, NothingIsOK
<1>1. Types
  BY LatestIs DEF Versions, Init, Types, SlotOK, CopyOK
<1>2. Files /\ CopyKept
  BY DEF Init, Files, CopyKept, Steps, Migrating, Restoring, Recovers, Keeps, NoCopy
<1>3. SlotsKept /\ BeforeKept
  BY DEF Init, SlotsKept, BeforeKept, InUse, Migrating
<1>4. QED
  BY <1>1, <1>2, <1>3 DEF MigrationInv

\* One step.
LEMMA MigrationNext ==
  ASSUME Versions, MigrationInv, [Next]_migVars
  PROVE  MigrationInv'
<1>1. CASE Next
  BY <1>1, TypesNext, FilesNext, CopyKeptNext, SlotsKeptNext, BeforeKeptNext
     DEF MigrationInv
<1>2. CASE UNCHANGED migVars
  <2>1. UNCHANGED <<slots, flushed, copy, copyFlushed, logged, step, build, using, mem, made,
                    safe, before>>
    BY <1>2 DEF migVars, files
  <2>2. Types'
    BY <2>1 DEF MigrationInv, Types, SlotOK, CopyOK
  <2>3. Files' /\ CopyKept'
    BY <2>1 DEF MigrationInv, Files, CopyKept, Recovers, Restores, Keeps
  <2>4. SlotsKept' /\ BeforeKept'
    BY <2>1 DEF MigrationInv, SlotsKept, BeforeKept, Newest, Wins, Keeps
  <2>5. QED
    BY <2>2, <2>3, <2>4 DEF MigrationInv
<1>3. QED
  BY <1>1, <1>2

\* The inductive invariant: at every disk call, what is flushed, what the copy
\* would put back and what the newest complete checkpoint holds.
THEOREM MigrationInvHolds == ASSUME Versions PROVE Spec => []MigrationInv
<1>1. Init => MigrationInv
  BY MigrationInit
<1>2. MigrationInv /\ [Next]_migVars => MigrationInv'
  BY MigrationNext
<1>3. QED
  BY <1>1, <1>2, PTL DEF Spec

\* The types of StoreMigration.
THEOREM TypesHold == ASSUME Versions PROVE Spec => []TypeOK
<1>1. MigrationInv => TypeOK
  BY DEF MigrationInv, Types, SlotOK, CopyOK, TypeOK
<1>2. QED
  BY <1>1, MigrationInvHolds, PTL

\* Whatever disk call of a migration, of undoing one, of a checkpoint or of a
\* rollback a tab dies in, the next recovery has all that the newest complete
\* checkpoint held; no payload is migrated twice; and an unfinished migration is
\* undone before the slots are read.
THEOREM MigrationSafeHolds == ASSUME Versions PROVE Spec => []MigrationSafe
<1>1. ASSUME MigrationInv PROVE CheckpointOutlivesMigration
  <2> SUFFICES ASSUME NEW sl \in SlotsAfter, NEW c \in CopiesAfter
               PROVE  safe \subseteq Settles(sl, c).ops
    BY DEF CheckpointOutlivesMigration
  <2>1. Recovers(sl, c)
    BY <1>1, OutcomeRecovers
  <2>2. /\ sl \in [Slots -> [gen : Nat, ver : Nat, fmt : Nat, ops : SUBSET (1..made)]]
        /\ CopyOK(c)
    BY <1>1, OutcomeTypes
  <2>3. QED
    BY <1>1, <2>1, <2>2, SettlesWell DEF MigrationInv
<1>2. ASSUME MigrationInv PROVE NeverMigratedTwice
  BY <1>2, TwoSlots DEF MigrationInv, Types, SlotOK, CopyOK, NeverMigratedTwice
<1>3. ASSUME MigrationInv PROVE InterruptedMigrationIsUndone
  BY <1>3 DEF MigrationInv, BeforeKept, InterruptedMigrationIsUndone, Migrating, Restoring
<1>4. MigrationInv => MigrationSafe
  BY <1>1, <1>2, <1>3 DEF MigrationSafe
<1>5. QED
  BY <1>4, MigrationInvHolds, PTL

-----------------------------------------------------------------------------
(* The version recovery would settle on.                                   *)

\* While the copy is whole it decides, whatever the slots are.
LEMMA CopyDecides ==
  ASSUME MigrationInv, Restores(copy), step # "copy.flush",
         NEW sl \in [Slots -> [gen : Nat, ver : Nat, fmt : Nat, ops : SUBSET (1..made)]]
  PROVE  Settles(sl, copyFlushed) = copy.slot
BY SettlesWell DEF MigrationInv, Types, CopyKept, Restores

\* Putting a migration back changes neither what recovery settles on, nor does
\* finishing one take it down.
LEMMA NoStepDowngrades ==
  ASSUME Versions, MigrationInv, Next
  PROVE  DowngradeOnlyByName
<1> USE TwoSlots
<1> DEFINE S == [Slots -> [gen : Nat, ver : Nat, fmt : Nat, ops : SUBSET (1..made)]]
<1>0. flushed \in S /\ slots \in S /\ CopyOK(NoCopy) /\ NoCopy.kind # "whole"
  BY NothingIsOK DEF MigrationInv, Types, NoCopy
<1>1. ASSUME RestoreFlush \/ OtherTruncate \/ UpFlush PROVE DowngradeOnlyByName
  <2>1. /\ made' = made /\ copyFlushed' = copyFlushed /\ step # "copy.flush"
        /\ step \in Restoring \cup Migrating
    BY <1>1 DEF RestoreFlush, OtherTruncate, UpFlush, session, Restoring, Migrating
  <2>2. Restores(copy)
    BY <2>1 DEF MigrationInv, CopyKept
  <2>3. Types'
    BY <1>1, TypesNext DEF Next, BootStep
  <2>4. flushed' \in S
    BY <2>1, <2>3 DEF Types
  <2>5. Settles(flushed, copyFlushed) = copy.slot /\ Settles(flushed', copyFlushed) = copy.slot
    BY <1>0, <2>1, <2>2, <2>4, CopyDecides
  <2>6. copy.slot.ver \in Nat
    BY DEF MigrationInv, Types, CopyOK
  <2>7. Settles(flushed, copyFlushed)' = Settles(flushed, copyFlushed)
    BY <2>1, <2>5
  <2>8. QED
    BY <2>5, <2>6, <2>7 DEF DowngradeOnlyByName
<1>2. ASSUME CopyDrop PROVE DowngradeOnlyByName
  <2>1. /\ copyFlushed = copy /\ slots = flushed /\ UNCHANGED flushed /\ copyFlushed' = NoCopy
        /\ step = "copy.drop"
    BY <1>2 DEF CopyDrop, MigrationInv, CopyKept, Files, Types, Unflushed
  <2>2. Settles(flushed, NoCopy) = flushed[Winner(flushed)]
    BY <1>0, SettlesWell DEF MigrationInv
  <2>3. CASE Restores(copy) /\ slots[copy.of] = copy.slot /\ slots[Other(copy.of)] = NoSlot
    <3>1. Winner(slots) = copy.of
      BY <2>3, WinnerIs, NothingIsOK DEF MigrationInv, Types, CopyOK, Restores
    <3>2. Settles(flushed, copyFlushed) = copy.slot
      BY <1>0, <2>1, <2>3, CopyDecides
    <3>3. Settles(flushed, NoCopy) = Settles(flushed, copyFlushed) /\ copy.slot.ver \in Nat
      BY <2>1, <2>2, <2>3, <3>1, <3>2 DEF MigrationInv, Types, CopyOK
    <3>4. QED
      BY <2>1, <3>2, <3>3 DEF DowngradeOnlyByName
  <2>4. CASE copy.kind # "whole"
    <3>1. Settles(flushed, copyFlushed) = flushed[Winner(flushed)]
      BY <1>0, <2>1, <2>4, SettlesWell DEF MigrationInv, Types
    <3>2. flushed[Winner(flushed)].ver \in Nat
      BY <1>0, WinnerIs
    <3>3. QED
      BY <2>1, <2>2, <3>1, <3>2 DEF DowngradeOnlyByName
  <2>5. QED
    BY <2>1, <2>3, <2>4 DEF MigrationInv, CopyKept
<1>3. ASSUME CopyClear PROVE DowngradeOnlyByName
  <2>1. /\ step = "copy.clear" /\ UNCHANGED flushed /\ copyFlushed' = NoCopy
        /\ Restores(copy) /\ copy.slot = slots[using] /\ slots[using].ver < build
        /\ slots = flushed /\ slots[Other(using)] = Migrated(slots[using], build)
    BY <1>3 DEF CopyClear, MigrationInv, CopyKept, SlotsKept, Files, Unflushed, Migrating,
       Copy
  <2>2. /\ slots[Other(using)].gen = slots[using].gen + 1 /\ slots[Other(using)].ver = build
        /\ build \in Nat /\ slots[using].ver \in Nat
    <3>1. SlotOK(slots[using]) /\ build \in Nat
      BY DEF Versions, MigrationInv, Types
    <3>2. slots[using].ver \in Nat
      BY <3>1 DEF SlotOK
    <3>3. QED
      BY <2>1, <3>1, <3>2, ConvertedIsOK
  <2>3. Winner(flushed) = Other(using)
    BY <2>1, <2>2, WinnerIs DEF MigrationInv, Types
  <2>4. Settles(flushed, NoCopy) = flushed[Winner(flushed)]
    BY <1>0, SettlesWell DEF MigrationInv
  <2>5. Settles(flushed, copyFlushed) = slots[using]
    BY <1>0, <2>1, CopyDecides
  <2>6. QED
    BY <2>1, <2>2, <2>3, <2>4, <2>5 DEF DowngradeOnlyByName
<1>4. ASSUME SlotFlush PROVE DowngradeOnlyByName
  <2>1. CASE step = "ckpt.flush"
    <3>1. /\ copyFlushed = NoCopy /\ copyFlushed' = NoCopy
          /\ flushed' = [flushed EXCEPT ![Other(using)] = slots[Other(using)]]
          /\ slots[using] = flushed[using] /\ Wins(flushed) /\ slots[using].ver <= build
          /\ slots[Other(using)].gen = slots[using].gen + 1 /\ slots[Other(using)].ver = build
      BY <1>4, <2>1 DEF SlotFlush, MigrationInv, Files, SlotsKept, Copyless, InUse
    <3>2. Settles(flushed, copyFlushed) = flushed[Winner(flushed)]
      BY <1>0, <3>1, SettlesWell DEF MigrationInv
    <3>3. flushed[Winner(flushed)] = slots[using]
      BY <1>0, <3>1, InUseWins DEF MigrationInv, Types
    <3>4. flushed' \in S
      BY <1>0, <3>1 DEF MigrationInv, Types
    <3>5. Settles(flushed', NoCopy) = flushed'[Winner(flushed')]
      BY <1>0, <3>4, SettlesWell DEF MigrationInv
    <3>6. flushed'[using] = slots[using] /\ flushed'[Other(using)] = slots[Other(using)]
      BY <3>1 DEF MigrationInv, Types
    <3>7. Winner(flushed') = Other(using)
      <4>1. Other(using) \in Slots /\ Other(Other(using)) = using
        BY DEF MigrationInv, Types
      <4>2. flushed'[Other(using)].gen > flushed'[Other(Other(using))].gen
        BY <3>1, <3>6, <4>1 DEF MigrationInv, Types
      <4>3. QED
        BY <3>4, <4>1, <4>2, WinnerIs
    <3>8. Settles(flushed, copyFlushed)'.ver = build /\ Settles(flushed, copyFlushed).ver <= build
      BY <3>1, <3>2, <3>3, <3>5, <3>6, <3>7
    <3>9. build \in Nat /\ slots[using].ver \in Nat
      BY DEF Versions, MigrationInv, Types
    <3>10. QED
      BY <3>2, <3>3, <3>8, <3>9 DEF DowngradeOnlyByName
  <2>2. CASE step # "ckpt.flush"
    BY <1>4, <2>2 DEF SlotFlush, DowngradeOnlyByName
  <2>3. QED
    BY <2>1, <2>2
<1>5. ASSUME UNCHANGED <<flushed, copyFlushed>> PROVE DowngradeOnlyByName
  <2> DEFINE put == IF copyFlushed.kind = "whole"
                    THEN [s \in Slots |-> IF s = copyFlushed.of THEN copyFlushed.slot ELSE NoSlot]
                    ELSE flushed
  <2>1. put \in S
    BY <1>0, NothingIsOK DEF MigrationInv, Types, CopyOK, SlotOK
  <2>2. Settles(flushed, copyFlushed) = put[Winner(put)]
    BY DEF Settles
  <2> HIDE DEF put
  <2>3. Settles(flushed, copyFlushed).ver \in Nat
    BY <2>1, <2>2, WinnerIs
  <2>4. Settles(flushed, copyFlushed)' = Settles(flushed, copyFlushed)
    BY <1>5
  <2>5. QED
    BY <2>3, <2>4 DEF DowngradeOnlyByName
<1>6. QED
  BY <1>1, <1>2, <1>3, <1>4, <1>5 DEF Next, BootStep, SaveStep, Open, RestoreWrite,
     ReadSlots, CopyWrite, CopyFlush, UpWrite, ReadLog, CheckpointWrite, LogReset, Mutate,
     Checkpoint, RollBack, Crash, DowngradeOnlyByName, files, Goto

\* The version of the checkpoint recovery would settle on goes down only by
\* rollbackTo, or by undoing a migration: an older build never rewrites a newer
\* store.
THEOREM DowngradeOnlyByNameHolds == ASSUME Versions PROVE Spec => [][DowngradeOnlyByName]_migVars
<1>1. MigrationInv /\ [Next]_migVars => [DowngradeOnlyByName]_migVars
  BY NoStepDowngrades
<1>2. QED
  BY <1>1, MigrationInvHolds, PTL DEF Spec

-----------------------------------------------------------------------------
(* StoreElection, for any set of tabs, with or without locks, and any number
   of failures and departures. *)

CONSTANTS Tabs, WithLocks, MayFollow, MaxFaults, MaxLeaves
VARIABLES at, leader, handle, opens, faults, leaves, alone
Election == INSTANCE StoreElection

Owning   == {"recover", "leader"}
Mounting == {"open"} \cup Owning
GivenUp  == {"closing", "release", "refused", "follow", "follower"}

\* A tab holds the files it has opened, in order, and all once it owns the store.
\* It has the lock only while it mounts, owns or gives back.
TabOK(t) ==
  /\ at[t] = "open" => /\ opens[t] < 3
                       /\ \A i \in 1..3 : handle[Election!Files[i]] = t <=> i <= opens[t]
  /\ at[t] \in Owning => \A i \in 1..3 : handle[Election!Files[i]] = t
  /\ at[t] \notin Mounting \cup {"closing"} =>
       opens[t] = 0 /\ \A i \in 1..3 : handle[Election!Files[i]] # t
  /\ leader = t => at[t] \in Mounting \cup {"closing", "release"}

TabsOK == \A t \in Tabs : TabOK(t)

\* A tab that has the store to itself is on its way to it, and no other is.
AloneOK ==
  \A t \in Tabs : alone[t] =>
    at[t] \in {"elect"} \cup Mounting /\ \A o \in Tabs \ {t} : Election!Away(o)

\* While nothing fails and nobody leaves, a tab gives up before it has a handle,
\* and only because another is on its way to the store.
NoFight ==
  faults = 0 /\ leaves = 0 =>
    /\ \A t \in Tabs : at[t] = "closing" => \A i \in 1..3 : handle[Election!Files[i]] # t
    /\ \A t \in Tabs : at[t] \in GivenUp => \E u \in Tabs : at[u] \in Mounting

Counters == faults \in Nat /\ leaves \in Nat

ElectionInv == Election!TypeOK /\ Counters /\ TabsOK /\ AloneOK /\ NoFight

-----------------------------------------------------------------------------
\* The three files.
LEMMA TheFiles ==
  /\ Len(Election!Files) = 3 /\ DOMAIN Election!Files = 1..3
  /\ Election!Files[1] = "a" /\ Election!Files[2] = "b" /\ Election!Files[3] = "wal"
  /\ Election!FileSet = {"a", "b", "wal"}
  /\ \A i \in 1..3 : Election!Files[i] \in Election!FileSet
  /\ \A i, j \in 1..3 : Election!Files[i] = Election!Files[j] => i = j
<1>1. Len(Election!Files) = 3 /\ Election!Files[1] = "a" /\ Election!Files[2] = "b" /\ Election!Files[3] = "wal"
  BY DEF Election!Files
<1>2. DOMAIN Election!Files = 1..3
  BY DEF Election!Files
<1>3. Election!FileSet = {Election!Files[1], Election!Files[2], Election!Files[3]}
  BY <1>2 DEF Election!FileSet
<1>4. \A i \in 1..3 : i = 1 \/ i = 2 \/ i = 3
  OBVIOUS
<1>5. QED
  BY <1>1, <1>2, <1>3, <1>4

\* What a step of one tab leaves of the types.
LEMMA ElectionTypesNext ==
  ASSUME ElectionInv, [Election!Next]_Election!electionVars
  PROVE  Election!TypeOK' /\ Counters'
<1>1. ASSUME NEW t \in Tabs, Election!Mount(t) PROVE Election!TypeOK' /\ Counters'
  BY <1>1, TheFiles DEF ElectionInv, Election!TypeOK, Counters, Election!Mount,
     Election!Move, Election!Away, Election!Places
<1>2. ASSUME NEW t \in Tabs, Election!Elect(t) PROVE Election!TypeOK' /\ Counters'
  BY <1>2, TheFiles DEF ElectionInv, Election!TypeOK, Counters, Election!Elect,
     Election!Move, Election!Places
<1>3. ASSUME NEW t \in Tabs, Election!OpenFile(t) PROVE Election!TypeOK' /\ Counters'
  <2>1. opens[t] < 3 /\ opens[t] + 1 \in 1..3
    BY <1>3, TheFiles DEF ElectionInv, TabsOK, TabOK, Election!OpenFile, Election!TypeOK
  <2>2. QED
    BY <1>3, <2>1, TheFiles DEF ElectionInv, Election!TypeOK, Counters, Election!OpenFile,
       Election!Move, Election!Places
<1>4. ASSUME NEW t \in Tabs, Election!OpenFails(t) PROVE Election!TypeOK' /\ Counters'
  BY <1>4, TheFiles DEF ElectionInv, Election!TypeOK, Counters, Election!OpenFails,
     Election!Fault, Election!Move, Election!Places
<1>5. ASSUME NEW t \in Tabs, Election!Recover(t) PROVE Election!TypeOK' /\ Counters'
  <2>1. alone' \in [Tabs -> BOOLEAN]
    BY <1>5 DEF ElectionInv, Election!TypeOK, Election!Recover
  <2>2. at' \in [Tabs -> Election!Places] /\ Counters'
    BY <1>5 DEF ElectionInv, Election!TypeOK, Counters, Election!Recover, Election!Fault,
       Election!Move, Election!Places
  <2>3. QED
    BY <1>5, <2>1, <2>2 DEF ElectionInv, Election!TypeOK, Election!Recover
<1>6. ASSUME NEW t \in Tabs, Election!CloseFile(t) PROVE Election!TypeOK' /\ Counters'
  BY <1>6, TheFiles DEF ElectionInv, Election!TypeOK, Counters, Election!CloseFile,
     Election!Move, Election!Places
<1>7. ASSUME NEW t \in Tabs, Election!Release(t) PROVE Election!TypeOK' /\ Counters'
  BY <1>7, TheFiles DEF ElectionInv, Election!TypeOK, Counters, Election!Release,
     Election!Move, Election!Places
<1>8. ASSUME NEW t \in Tabs, Election!Follow(t) PROVE Election!TypeOK' /\ Counters'
  BY <1>8, TheFiles DEF ElectionInv, Election!TypeOK, Counters, Election!Follow,
     Election!Move, Election!Places
<1>9. ASSUME NEW t \in Tabs, Election!Leave(t) PROVE Election!TypeOK' /\ Counters'
  BY <1>9, TheFiles DEF ElectionInv, Election!TypeOK, Counters, Election!Leave,
     Election!Move, Election!Places
<1>10. CASE UNCHANGED Election!electionVars
  BY <1>10 DEF ElectionInv, Election!TypeOK, Counters, Election!electionVars
<1>11. QED
  BY <1>1, <1>2, <1>3, <1>4, <1>5, <1>6, <1>7, <1>8, <1>9, <1>10 DEF Election!Next,
     Election!MountStep

\* A tab's step is its own: what another tab holds, it keeps.
LEMMA TabsNext ==
  ASSUME Election!Nobody \notin Tabs, ElectionInv, [Election!Next]_Election!electionVars
  PROVE  TabsOK'
<1>1. ASSUME NEW t \in Tabs, Election!Mount(t) PROVE TabsOK'
  BY <1>1, TheFiles DEF ElectionInv, Election!TypeOK, TabsOK, TabOK, Election!Away,
     Mounting, Owning, Election!Mount, Election!Move
<1>2. ASSUME NEW t \in Tabs, Election!Elect(t) PROVE TabsOK'
  BY <1>2, TheFiles DEF ElectionInv, Election!TypeOK, TabsOK, TabOK, Election!Away,
     Mounting, Owning, Election!Elect, Election!Move
<1>3. ASSUME NEW t \in Tabs, Election!OpenFile(t) PROVE TabsOK'
  BY <1>3, TheFiles DEF ElectionInv, Election!TypeOK, TabsOK, TabOK, Election!Away,
     Mounting, Owning, Election!OpenFile, Election!Move
<1>4. ASSUME NEW t \in Tabs, Election!OpenFails(t) PROVE TabsOK'
  BY <1>4, TheFiles DEF ElectionInv, Election!TypeOK, TabsOK, TabOK, Election!Away,
     Mounting, Owning, Election!OpenFails, Election!Move
<1>5. ASSUME NEW t \in Tabs, Election!Recover(t) PROVE TabsOK'
  BY <1>5, TheFiles DEF ElectionInv, Election!TypeOK, TabsOK, TabOK, Election!Away,
     Mounting, Owning, Election!Recover, Election!Move
<1>6. ASSUME NEW t \in Tabs, Election!CloseFile(t) PROVE TabsOK'
  BY <1>6, TheFiles DEF ElectionInv, Election!TypeOK, TabsOK, TabOK, Election!Away,
     Mounting, Owning, Election!CloseFile, Election!Move
<1>7. ASSUME NEW t \in Tabs, Election!Release(t) PROVE TabsOK'
  BY <1>7, TheFiles DEF ElectionInv, Election!TypeOK, TabsOK, TabOK, Election!Away,
     Mounting, Owning, Election!Release, Election!Move
<1>8. ASSUME NEW t \in Tabs, Election!Follow(t) PROVE TabsOK'
  BY <1>8, TheFiles DEF ElectionInv, Election!TypeOK, TabsOK, TabOK, Election!Away,
     Mounting, Owning, Election!Follow, Election!Move
<1>9. ASSUME NEW t \in Tabs, Election!Leave(t) PROVE TabsOK'
  BY <1>9, TheFiles DEF ElectionInv, Election!TypeOK, TabsOK, TabOK, Election!Away,
     Mounting, Owning, Election!Leave, Election!Move
<1>10. CASE UNCHANGED Election!electionVars
  BY <1>10 DEF ElectionInv, Election!TypeOK, TabsOK, TabOK, Election!Away, Mounting,
     Owning, Election!electionVars
<1>11. QED
  BY <1>1, <1>2, <1>3, <1>4, <1>5, <1>6, <1>7, <1>8, <1>9, <1>10 DEF Election!Next,
     Election!MountStep

\* A tab that is alone finds the lock and the handles free.
LEMMA AloneNext ==
  ASSUME Election!Nobody \notin Tabs, ElectionInv, [Election!Next]_Election!electionVars
  PROVE  AloneOK'
<1>1. ASSUME NEW t \in Tabs, Election!Mount(t) PROVE AloneOK'
  BY <1>1, TheFiles DEF ElectionInv, Election!TypeOK, TabsOK, TabOK, AloneOK,
     Election!Away, Mounting, Owning, Election!Mount, Election!Move
<1>2. ASSUME NEW t \in Tabs, Election!Elect(t) PROVE AloneOK'
  BY <1>2, TheFiles DEF ElectionInv, Election!TypeOK, TabsOK, TabOK, AloneOK,
     Election!Away, Mounting, Owning, Election!Elect, Election!Move
<1>3. ASSUME NEW t \in Tabs, Election!OpenFile(t) PROVE AloneOK'
  BY <1>3, TheFiles DEF ElectionInv, Election!TypeOK, TabsOK, TabOK, AloneOK,
     Election!Away, Mounting, Owning, Election!OpenFile, Election!Move
<1>4. ASSUME NEW t \in Tabs, Election!OpenFails(t) PROVE AloneOK'
  <2>1. ~alone'[t]
    <3>1. CASE Election!Fault
      <4>1. faults' # faults
        BY <3>1 DEF ElectionInv, Counters, Election!Fault
      <4>2. alone' = [alone EXCEPT ![t] = alone[t] /\ FALSE]
        BY <1>4, <4>1, Zenon DEF Election!OpenFails
      <4>3. QED
        BY <4>2, Zenon DEF ElectionInv, Election!TypeOK
    <3>2. CASE handle[Election!Files[opens[t] + 1]] # Election!Nobody
      <4>1. opens[t] \in 0..2 /\ handle[Election!Files[opens[t] + 1]] # t
        BY <1>4, TheFiles DEF ElectionInv, Election!TypeOK, TabsOK, TabOK,
           Election!OpenFails
      <4>2. PICK o \in Tabs \ {t} : handle[Election!Files[opens[t] + 1]] = o
        BY <3>2, <4>1, TheFiles DEF ElectionInv, Election!TypeOK
      <4>3. ~Election!Away(o)
        BY <4>1, <4>2 DEF ElectionInv, TabsOK, TabOK, Election!Away, Mounting, Owning
      <4>4. QED
        BY <1>4, <4>2, <4>3 DEF ElectionInv, Election!TypeOK, AloneOK, Election!OpenFails
    <3>3. QED
      BY <1>4, <3>1, <3>2 DEF Election!OpenFails
  <2>2. QED
    BY <1>4, <2>1 DEF ElectionInv, Election!TypeOK, AloneOK, Election!Away,
       Election!OpenFails, Election!Move
<1>5. ASSUME NEW t \in Tabs, Election!Recover(t) PROVE AloneOK'
  BY <1>5, TheFiles DEF ElectionInv, Election!TypeOK, TabsOK, TabOK, AloneOK,
     Election!Away, Mounting, Owning, Election!Recover, Election!Move
<1>6. ASSUME NEW t \in Tabs, Election!CloseFile(t) PROVE AloneOK'
  BY <1>6, TheFiles DEF ElectionInv, Election!TypeOK, TabsOK, TabOK, AloneOK,
     Election!Away, Mounting, Owning, Election!CloseFile, Election!Move
<1>7. ASSUME NEW t \in Tabs, Election!Release(t) PROVE AloneOK'
  BY <1>7, TheFiles DEF ElectionInv, Election!TypeOK, TabsOK, TabOK, AloneOK,
     Election!Away, Mounting, Owning, Election!Release, Election!Move
<1>8. ASSUME NEW t \in Tabs, Election!Follow(t) PROVE AloneOK'
  BY <1>8, TheFiles DEF ElectionInv, Election!TypeOK, TabsOK, TabOK, AloneOK,
     Election!Away, Mounting, Owning, Election!Follow, Election!Move
<1>9. ASSUME NEW t \in Tabs, Election!Leave(t) PROVE AloneOK'
  BY <1>9, TheFiles DEF ElectionInv, Election!TypeOK, TabsOK, TabOK, AloneOK,
     Election!Away, Mounting, Owning, Election!Leave, Election!Move
<1>10. CASE UNCHANGED Election!electionVars
  BY <1>10 DEF ElectionInv, Election!TypeOK, TabsOK, TabOK, AloneOK, Election!Away,
     Mounting, Owning, Election!electionVars
<1>11. QED
  BY <1>1, <1>2, <1>3, <1>4, <1>5, <1>6, <1>7, <1>8, <1>9, <1>10 DEF Election!Next,
     Election!MountStep

\* A handle that is taken is held by a tab that goes on.
LEMMA NoFightNext ==
  ASSUME Election!Nobody \notin Tabs, ElectionInv, [Election!Next]_Election!electionVars
  PROVE  NoFight'
<1>1. ASSUME NEW t \in Tabs, Election!Mount(t) PROVE NoFight'
  BY <1>1, TheFiles DEF ElectionInv, Election!TypeOK, Counters, TabsOK, TabOK, NoFight,
     Election!Fault, Election!Away, Mounting, Owning, GivenUp, Election!Mount,
     Election!Move
<1>2. ASSUME NEW t \in Tabs, Election!Elect(t) PROVE NoFight'
  BY <1>2, TheFiles DEF ElectionInv, Election!TypeOK, Counters, TabsOK, TabOK, NoFight,
     Election!Fault, Election!Away, Mounting, Owning, GivenUp, Election!Elect,
     Election!Move
<1>3. ASSUME NEW t \in Tabs, Election!OpenFile(t) PROVE NoFight'
  BY <1>3, TheFiles DEF ElectionInv, Election!TypeOK, Counters, TabsOK, TabOK, NoFight,
     Election!Fault, Election!Away, Mounting, Owning, GivenUp, Election!OpenFile,
     Election!Move
<1>4. ASSUME NEW t \in Tabs, Election!OpenFails(t) PROVE NoFight'
  BY <1>4, TheFiles DEF ElectionInv, Election!TypeOK, Counters, TabsOK, TabOK, NoFight,
     Election!Fault, Election!Away, Mounting, Owning, GivenUp, Election!OpenFails,
     Election!Move
<1>5. ASSUME NEW t \in Tabs, Election!Recover(t) PROVE NoFight'
  BY <1>5, TheFiles DEF ElectionInv, Election!TypeOK, Counters, TabsOK, TabOK, NoFight,
     Election!Fault, Election!Away, Mounting, Owning, GivenUp, Election!Recover,
     Election!Move
<1>6. ASSUME NEW t \in Tabs, Election!CloseFile(t) PROVE NoFight'
  BY <1>6, TheFiles DEF ElectionInv, Election!TypeOK, Counters, TabsOK, TabOK, NoFight,
     Election!Fault, Election!Away, Mounting, Owning, GivenUp, Election!CloseFile,
     Election!Move
<1>7. ASSUME NEW t \in Tabs, Election!Release(t) PROVE NoFight'
  BY <1>7, TheFiles DEF ElectionInv, Election!TypeOK, Counters, TabsOK, TabOK, NoFight,
     Election!Fault, Election!Away, Mounting, Owning, GivenUp, Election!Release,
     Election!Move
<1>8. ASSUME NEW t \in Tabs, Election!Follow(t) PROVE NoFight'
  BY <1>8, TheFiles DEF ElectionInv, Election!TypeOK, Counters, TabsOK, TabOK, NoFight,
     Election!Fault, Election!Away, Mounting, Owning, GivenUp, Election!Follow,
     Election!Move
<1>9. ASSUME NEW t \in Tabs, Election!Leave(t) PROVE NoFight'
  BY <1>9, TheFiles DEF ElectionInv, Election!TypeOK, Counters, TabsOK, TabOK, NoFight,
     Election!Fault, Election!Away, Mounting, Owning, GivenUp, Election!Leave,
     Election!Move
<1>10. CASE UNCHANGED Election!electionVars
  BY <1>10 DEF ElectionInv, Election!TypeOK, Counters, TabsOK, TabOK, NoFight,
     Election!Fault, Election!Away, Mounting, Owning, GivenUp, Election!electionVars
<1>11. QED
  BY <1>1, <1>2, <1>3, <1>4, <1>5, <1>6, <1>7, <1>8, <1>9, <1>10 DEF Election!Next,
     Election!MountStep

-----------------------------------------------------------------------------
\* The invariant holds in every state, for any tabs.
THEOREM ElectionInvHolds == ASSUME Election!Nobody \notin Tabs PROVE Election!Spec => []ElectionInv
<1>1. Election!Init => ElectionInv
  <2> SUFFICES ASSUME Election!Init PROVE ElectionInv
    OBVIOUS
  <2>1. Election!TypeOK /\ Counters
    BY TheFiles DEF Election!Init, Election!TypeOK, Counters, Election!Places
  <2>2. TabsOK
    BY TheFiles DEF Election!Init, TabsOK, TabOK, Mounting, Owning
  <2>3. AloneOK /\ NoFight
    BY DEF Election!Init, AloneOK, NoFight, GivenUp
  <2>4. QED
    BY <2>1, <2>2, <2>3 DEF ElectionInv
<1>2. ElectionInv /\ [Election!Next]_Election!electionVars => ElectionInv'
  BY ElectionTypesNext, TabsNext, AloneNext, NoFightNext DEF ElectionInv
<1>3. QED
  BY <1>1, <1>2, PTL DEF Election!Spec

\* StoreElection counts as this module does.
LEMMA SameCardinality == \A S : Election!Cardinality(S) = Cardinality(S)
  BY DEF Election!Cardinality, Cardinality

\* Two tabs that own the store both hold slot A.
LEMMA OneOwnerFollows == ElectionInv => Election!OneOwner
<1> SUFFICES ASSUME ElectionInv PROVE Election!OneOwner
  OBVIOUS
<1> DEFINE Owners == {t \in Tabs : at[t] \in {"recover", "leader"}}
<1>1. \A t \in Owners : \A f \in Election!FileSet : handle[f] = t
  BY TheFiles DEF ElectionInv, TabsOK, TabOK, Owning
<1>2. \A t \in Owners : Election!Held(t) = Election!FileSet
  BY <1>1 DEF Election!Held
<1>3. \A t, u \in Owners : t = u
  BY <1>1, TheFiles
<1>4. Cardinality(Owners) <= 1
  <2>1. CASE Owners = {}
    BY <2>1, FS_EmptySet
  <2>2. CASE Owners # {}
    <3>1. PICK t \in Owners : TRUE
      BY <2>2
    <3>2. Owners = {t}
      BY <1>3, <3>1
    <3>3. QED
      BY <3>2, FS_Singleton
  <2>3. QED
    BY <2>1, <2>2
<1>5. \A t \in Tabs : at[t] \in {"recover", "leader"} => Election!Held(t) = Election!FileSet
  BY <1>2
<1>6. QED
  BY <1>4, <1>5, SameCardinality DEF Election!OneOwner

\* Of tabs that all came to rest, one has the store, unless all are closed.
LEMMA SomebodyLeadsFollows == ElectionInv => Election!SomebodyLeads
<1> SUFFICES ASSUME ElectionInv, faults = 0, leaves = 0,
                    \A t \in Tabs : at[t] \in {"closed", "leader", "follower", "refused"},
                    NEW t \in Tabs, at[t] # "closed"
             PROVE  \E u \in Tabs : at[u] = "leader"
  BY DEF Election!SomebodyLeads
<1>1. CASE at[t] = "leader"
  BY <1>1
<1>2. CASE at[t] \in {"follower", "refused"}
  <2>1. PICK u \in Tabs : at[u] \in Mounting
    BY <1>2 DEF ElectionInv, NoFight, GivenUp
  <2>2. at[u] = "leader"
    BY <2>1 DEF Mounting, Owning
  <2>3. QED
    BY <2>2
<1>3. QED
  BY <1>1, <1>2

\* With the lock manager or without it: one owner, who holds all three handles; a
\* tab that does not mount holds nothing; a tab that has the store to itself gets
\* it; and tabs that open together do not all refuse one another.
THEOREM ElectionSafeHolds ==
  ASSUME Election!Nobody \notin Tabs PROVE Election!Spec => []Election!ElectionSafe
<1>1. ElectionInv => Election!NothingStranded
  BY TheFiles DEF ElectionInv, TabsOK, TabOK, Election!NothingStranded, Election!Held,
     Mounting, Owning
<1>2. ElectionInv => Election!ReloadTakesOver
  BY DEF ElectionInv, AloneOK, Election!ReloadTakesOver, Mounting, Owning
<1>3. ElectionInv => Election!ElectionSafe
  BY <1>1, <1>2, OneOwnerFollows, SomebodyLeadsFollows DEF Election!ElectionSafe
<1>4. QED
  BY <1>3, ElectionInvHolds, PTL

-----------------------------------------------------------------------------
(* The worker's RPC (StorageWorker): what the calls of a page come to, for *)
(* any number of calls, wherever the worker dies and whichever of them     *)
(* fail.                                                                   *)

CONSTANTS MaxCalls
VARIABLES calls, waiting, inbox, outbox, queue, stage, halves, draft, saved, answers, known, alive
Worker == INSTANCE StorageWorker

Ascending(s) == \A i, j \in 1..Len(s) : i < j => s[i] < s[j]
Answers == [ok : BOOLEAN, value : Seq(Nat)]
Stages  == {"idle", "logged", "applied", "left", "right", "saving"}

\* The mutation at the head of the queue is in the tree.
Applied == stage \in {"applied", "left", "right", "saving"}

WorkerTypes ==
  /\ calls \in Seq(Worker!Kinds) /\ known \in Seq(SUBSET Nat) /\ Len(known) = Len(calls)
  /\ waiting \subseteq 1..Len(calls)
  /\ inbox \in Seq(1..Len(calls)) /\ queue \in Seq(1..Len(calls))
  /\ outbox \in Seq([id : 1..Len(calls), answer : Answers])
  /\ stage \in Stages
  /\ halves \in [Worker!Halves -> Seq(Nat)] /\ draft \in [Worker!Halves -> Seq(Nat)]
  /\ saved \in [Worker!Halves -> Seq(Nat)]
  /\ DOMAIN answers \subseteq 1..Len(calls)
  /\ \A id \in DOMAIN answers : answers[id] \in Answers

\* What is queued is a mutation or a checkpoint, and the stage is that of the first.
Queued ==
  /\ \A x \in Worker!ToSet(queue) : calls[x] \in {"write", "checkpoint"}
  /\ queue = <<>> => stage = "idle"
  /\ stage \in {"logged", "applied"} => calls[Head(queue)] = "write"
  /\ Applied /\ calls[Head(queue)] = "write" => Head(queue) \in Worker!ToSet(halves["left"])

\* Calls wait in their order: what is in the tree, then the queue, then the messages.
InOrder ==
  /\ Ascending(inbox) /\ Ascending(queue) /\ Ascending(halves["left"])
  /\ Worker!ToSet(halves["left"]) \subseteq 1..Len(calls)
  /\ \A x \in Worker!ToSet(inbox) : /\ \A y \in Worker!ToSet(queue) : y < x
                                    /\ \A y \in Worker!ToSet(halves["left"]) : y < x
  /\ \A x \in Worker!ToSet(queue) : \A y \in Worker!ToSet(halves["left"]) :
       y < x \/ (Applied /\ y = x /\ x = Head(queue))

\* The export of a checkpoint reads a tree that stands still.
Exporting ==
  /\ halves["left"] = halves["right"] /\ saved["left"] = saved["right"]
  /\ stage \in {"right", "saving"} => draft["left"] = halves["left"]
  /\ stage = "saving" => draft["right"] = halves["right"]

\* An answer, told or on its way, of a mutation that is in the tree, or of a read
\* that saw all that was known when it was called.
Honest(id, a) ==
  /\ calls[id] = "write" /\ a.ok => id \in Worker!ToSet(halves["left"])
  /\ calls[id] = "read" => known[id] \subseteq Worker!ToSet(a.value)

AnswersHonest ==
  /\ \A r \in Worker!ToSet(outbox) : Honest(r.id, r.answer)
  /\ \A id \in DOMAIN answers : Honest(id, answers[id])
  /\ \A id \in 1..Len(calls) : known[id] \subseteq Worker!ToSet(halves["left"])

WorkerInv == WorkerTypes /\ Queued /\ InOrder /\ Exporting /\ AnswersHonest

-----------------------------------------------------------------------------
(* Sequences.                                                              *)

\* The head of a sequence, and what waits behind it.
LEMMA HeadAndTail ==
  ASSUME NEW S, NEW s \in Seq(S), s # <<>>
  PROVE  /\ Head(s) \in S /\ Head(s) \in Worker!ToSet(s) /\ Tail(s) \in Seq(S)
         /\ Worker!ToSet(s) = {Head(s)} \cup Worker!ToSet(Tail(s))
<1>1. Len(s) \in Nat /\ Len(s) > 0 /\ DOMAIN s = 1..Len(s) /\ Head(s) = s[1]
  OBVIOUS
<1>2. /\ Tail(s) \in Seq(S) /\ Len(Tail(s)) = Len(s) - 1
      /\ \A i \in 1..Len(s) - 1 : Tail(s)[i] = s[i + 1]
  OBVIOUS
<1>3. DOMAIN Tail(s) = 1..Len(s) - 1
  BY <1>2
<1>4. ASSUME NEW x \in Worker!ToSet(s) PROVE x \in {Head(s)} \cup Worker!ToSet(Tail(s))
  <2>1. PICK i \in 1..Len(s) : x = s[i]
    BY <1>1, <1>4 DEF Worker!ToSet
  <2>2. CASE i = 1
    BY <1>1, <2>1, <2>2
  <2>3. CASE i # 1
    <3>1. i - 1 \in 1..Len(s) - 1 /\ Tail(s)[i - 1] = s[i]
      BY <1>1, <1>2, <2>1, <2>3
    <3>2. QED
      BY <1>3, <2>1, <3>1 DEF Worker!ToSet
  <2>4. QED
    BY <2>2, <2>3
<1>5. ASSUME NEW x \in Worker!ToSet(Tail(s)) PROVE x \in Worker!ToSet(s)
  <2>1. PICK i \in 1..Len(s) - 1 : x = Tail(s)[i]
    BY <1>3, <1>5 DEF Worker!ToSet
  <2>2. i + 1 \in 1..Len(s) /\ x = s[i + 1]
    BY <1>1, <1>2, <2>1
  <2>3. QED
    BY <1>1, <2>2 DEF Worker!ToSet
<1>6. Head(s) \in Worker!ToSet(s) /\ Head(s) \in S
  <2>1. 1 \in 1..Len(s) /\ s[1] \in S
    BY <1>1
  <2>2. QED
    BY <1>1, <2>1 DEF Worker!ToSet
<1>7. QED
  BY <1>2, <1>4, <1>5, <1>6

\* In an ascending sequence the head is below what waits behind it.
LEMMA AscendingTail ==
  ASSUME NEW s \in Seq(Nat), s # <<>>, Ascending(s)
  PROVE  Ascending(Tail(s)) /\ \A x \in Worker!ToSet(Tail(s)) : Head(s) < x
<1>1. /\ Len(s) \in Nat /\ Len(s) > 0 /\ Head(s) = s[1]
      /\ Tail(s) \in Seq(Nat) /\ Len(Tail(s)) = Len(s) - 1 /\ DOMAIN Tail(s) = 1..Len(s) - 1
      /\ \A i \in 1..Len(s) - 1 : Tail(s)[i] = s[i + 1]
  OBVIOUS
<1>2. Ascending(Tail(s))
  BY <1>1 DEF Ascending
<1>3. ASSUME NEW x \in Worker!ToSet(Tail(s)) PROVE Head(s) < x
  <2>1. PICK i \in 1..Len(s) - 1 : x = Tail(s)[i]
    BY <1>1, <1>3 DEF Worker!ToSet
  <2>2. x = s[i + 1] /\ 1 < i + 1 /\ i + 1 \in 1..Len(s) /\ 1 \in 1..Len(s)
    BY <1>1, <2>1
  <2>3. QED
    BY <1>1, <2>2 DEF Ascending
<1>4. QED
  BY <1>2, <1>3

\* What is appended is the last.
LEMMA Appended ==
  ASSUME NEW S, NEW s \in Seq(S), NEW e \in S
  PROVE  Append(s, e) \in Seq(S) /\ Worker!ToSet(Append(s, e)) = Worker!ToSet(s) \cup {e}
<1>1. /\ Len(s) \in Nat /\ DOMAIN s = 1..Len(s) /\ Append(s, e) \in Seq(S)
      /\ Len(Append(s, e)) = Len(s) + 1 /\ Append(s, e)[Len(s) + 1] = e
      /\ \A i \in 1..Len(s) : Append(s, e)[i] = s[i]
  OBVIOUS
<1>2. DOMAIN Append(s, e) = 1..Len(s) + 1
  BY <1>1
<1>3. ASSUME NEW x \in Worker!ToSet(Append(s, e)) PROVE x \in Worker!ToSet(s) \cup {e}
  <2>1. PICK i \in 1..Len(s) + 1 : x = Append(s, e)[i]
    BY <1>2, <1>3 DEF Worker!ToSet
  <2>2. CASE i = Len(s) + 1
    BY <1>1, <2>1, <2>2
  <2>3. CASE i \in 1..Len(s)
    BY <1>1, <2>1, <2>3 DEF Worker!ToSet
  <2>4. QED
    BY <1>1, <2>2, <2>3
<1>4. ASSUME NEW x \in Worker!ToSet(s) PROVE x \in Worker!ToSet(Append(s, e))
  <2>1. PICK i \in 1..Len(s) : x = s[i]
    BY <1>1, <1>4 DEF Worker!ToSet
  <2>2. i \in 1..Len(s) + 1 /\ Append(s, e)[i] = x
    BY <1>1, <2>1
  <2>3. QED
    BY <1>2, <2>2 DEF Worker!ToSet
<1>5. e \in Worker!ToSet(Append(s, e))
  <2>1. Len(s) + 1 \in 1..Len(s) + 1
    BY <1>1
  <2>2. QED
    BY <1>1, <1>2, <2>1 DEF Worker!ToSet
<1>6. QED
  BY <1>1, <1>3, <1>4, <1>5

\* A larger number at the end leaves it ascending.
LEMMA AscendingAppend ==
  ASSUME NEW s \in Seq(Nat), NEW e \in Nat, Ascending(s), \A x \in Worker!ToSet(s) : x < e
  PROVE  Ascending(Append(s, e))
<1>1. /\ Len(s) \in Nat /\ DOMAIN s = 1..Len(s)
      /\ Len(Append(s, e)) = Len(s) + 1 /\ Append(s, e)[Len(s) + 1] = e
      /\ \A i \in 1..Len(s) : Append(s, e)[i] = s[i]
  OBVIOUS
<1>2. \A i \in 1..Len(s) : s[i] < e
  BY <1>1 DEF Worker!ToSet
<1>3. QED
  BY <1>1, <1>2 DEF Ascending

\* A sequence over a set is one over a larger set.
LEMMA SeqWider ==
  ASSUME NEW S, NEW T, S \subseteq T, NEW s \in Seq(S)
  PROVE  s \in Seq(T)
<1>1. Len(s) \in Nat /\ s = [i \in 1..Len(s) |-> s[i]] /\ \A i \in 1..Len(s) : s[i] \in T
  OBVIOUS
<1>2. QED
  BY <1>1

-----------------------------------------------------------------------------
(* One step.                                                               *)

\* The steps of the page and of the worker.
LEMMA WorkerStep ==
  ASSUME [Worker!Next]_(Worker!workerVars)
  PROVE  \/ \E kind \in Worker!Kinds : Worker!Call(kind)
         \/ Worker!Receive \/ Worker!Log \/ Worker!ApplyWrite \/ Worker!Answer \/ Worker!BeginExport
         \/ \E h \in Worker!Halves : Worker!Export(h)
         \/ Worker!Save \/ Worker!Fails \/ Worker!Settle \/ Worker!Dies
         \/ UNCHANGED Worker!workerVars
BY DEF Worker!Next, Worker!Works

\* The two halves, and the answers the worker gives.
LEMMA HalvesAndAnswers ==
  /\ "left" \in Worker!Halves /\ "right" \in Worker!Halves /\ \A h \in Worker!Halves : h = "left" \/ h = "right"
  /\ Worker!Failed \in Answers /\ \A v \in Seq(Nat) : Worker!Done(v) \in Answers
  /\ ~Worker!Failed.ok /\ \A v : Worker!Done(v).value = v
  /\ <<>> \in Seq(Nat)
BY DEF Worker!Halves, Worker!Failed, Worker!Done, Answers

\* The operation at the head of the queue is one of the calls.
LEMMA HeadOfQueue ==
  ASSUME WorkerTypes, queue # <<>>
  PROVE  /\ Head(queue) \in 1..Len(calls) /\ Head(queue) \in Nat /\ Head(queue) \in Worker!ToSet(queue)
         /\ Tail(queue) \in Seq(1..Len(calls))
         /\ Worker!ToSet(queue) = {Head(queue)} \cup Worker!ToSet(Tail(queue))
BY HeadAndTail DEF WorkerTypes

\* The messages and the queue are of numbers.
LEMMA CallsAreNat == ASSUME WorkerTypes PROVE inbox \in Seq(Nat) /\ queue \in Seq(Nat)
<1>1. 1..Len(calls) \subseteq Nat
  OBVIOUS
<1>2. QED
  BY <1>1, SeqWider DEF WorkerTypes

\* So is the message the worker takes next.
LEMMA HeadOfInbox ==
  ASSUME WorkerTypes, inbox # <<>>
  PROVE  /\ Head(inbox) \in 1..Len(calls) /\ Head(inbox) \in Nat /\ Head(inbox) \in Worker!ToSet(inbox)
         /\ Tail(inbox) \in Seq(1..Len(calls))
         /\ Worker!ToSet(inbox) = {Head(inbox)} \cup Worker!ToSet(Tail(inbox))
BY HeadAndTail DEF WorkerTypes

\* A reply is appended.
LEMMA Replied ==
  ASSUME WorkerTypes, NEW id \in 1..Len(calls), NEW a \in Answers, Worker!Reply(id, a)
  PROVE  /\ outbox' \in Seq([id : 1..Len(calls), answer : Answers])
         /\ Worker!ToSet(outbox') = Worker!ToSet(outbox) \cup {[id |-> id, answer |-> a]}
<1> DEFINE R == [id : 1..Len(calls), answer : Answers]
           r == [id |-> id, answer |-> a]
<1>1. r \in R
  OBVIOUS
<1>2. outbox \in Seq(R) /\ outbox' = Append(outbox, r)
  BY DEF WorkerTypes, Worker!Reply
<1> HIDE DEF R, r
<1>3. outbox' \in Seq(R) /\ Worker!ToSet(outbox') = Worker!ToSet(outbox) \cup {r}
  BY <1>1, <1>2, Appended
<1>4. QED
  BY <1>3 DEF R, r

\* Types.
LEMMA WorkerTypesNext == ASSUME WorkerTypes, [Worker!Next]_(Worker!workerVars) PROVE WorkerTypes'
<1>1. ASSUME NEW kind \in Worker!Kinds, Worker!Call(kind) PROVE WorkerTypes'
  <2> DEFINE n == Len(calls)
  <2>1. n \in Nat /\ 1..n \subseteq 1..(n + 1) /\ n + 1 \in 1..(n + 1)
    BY DEF WorkerTypes
  <2>2. calls' \in Seq(Worker!Kinds) /\ Len(calls') = n + 1
    BY <1>1 DEF WorkerTypes, Worker!Call
  <2>3. Worker!Told \in SUBSET Nat
    BY <2>1 DEF WorkerTypes, Worker!Told
  <2>4. known' \in Seq(SUBSET Nat) /\ Len(known') = n + 1
    BY <1>1, <2>3 DEF WorkerTypes, Worker!Call
  <2>5. inbox \in Seq(1..(n + 1)) /\ queue \in Seq(1..(n + 1))
    BY <2>1, SeqWider DEF WorkerTypes
  <2>6. inbox' \in Seq(1..(n + 1))
    BY <1>1, <2>1, <2>5 DEF Worker!Call
  <2>7. outbox \in Seq([id : 1..(n + 1), answer : Answers])
    <3>1. [id : 1..n, answer : Answers] \subseteq [id : 1..(n + 1), answer : Answers]
      BY <2>1
    <3>2. QED
      BY <3>1, SeqWider DEF WorkerTypes
  <2>8. waiting' \subseteq 1..(n + 1) /\ DOMAIN answers \subseteq 1..(n + 1)
    BY <1>1, <2>1 DEF WorkerTypes, Worker!Call
  <2>9. QED
    BY <1>1, <2>2, <2>4, <2>5, <2>6, <2>7, <2>8 DEF WorkerTypes, Worker!Call
<1>2. CASE Worker!Receive
  <2>1. Head(inbox) \in 1..Len(calls) /\ inbox' \in Seq(1..Len(calls))
    BY <1>2, HeadOfInbox DEF Worker!Receive
  <2>2. queue' \in Seq(1..Len(calls))
    <3>1. queue' = queue \/ queue' = Append(queue, Head(inbox))
      BY <1>2 DEF Worker!Receive
    <3>2. queue \in Seq(1..Len(calls))
      BY DEF WorkerTypes
    <3>3. Append(queue, Head(inbox)) \in Seq(1..Len(calls))
      BY <2>1, <3>2, Appended
    <3>4. QED
      BY <3>1, <3>2, <3>3
  <2>3. outbox' \in Seq([id : 1..Len(calls), answer : Answers])
    <3>1. Worker!Done(halves["left"]) \in Answers
      BY HalvesAndAnswers DEF WorkerTypes
    <3>2. outbox' = outbox \/ Worker!Reply(Head(inbox), Worker!Done(halves["left"]))
      BY <1>2 DEF Worker!Receive
    <3>3. CASE Worker!Reply(Head(inbox), Worker!Done(halves["left"]))
      BY <2>1, <3>1, <3>3, Replied
    <3>4. QED
      BY <3>2, <3>3 DEF WorkerTypes
  <2>4. QED
    BY <1>2, <2>1, <2>2, <2>3 DEF Worker!Receive, WorkerTypes
<1>3. CASE Worker!Log
  BY <1>3 DEF Worker!Log, WorkerTypes, Stages
<1>4. CASE Worker!ApplyWrite
  <2>1. halves' \in [Worker!Halves -> Seq(Nat)]
    BY <1>4, HeadOfQueue DEF Worker!ApplyWrite, WorkerTypes, Worker!Runs, Worker!Running
  <2>2. QED
    BY <1>4, <2>1 DEF Worker!ApplyWrite, WorkerTypes, Stages
<1>5. ASSUME Worker!Answer \/ Worker!Save \/ Worker!Fails PROVE WorkerTypes'
  <2>1. Head(queue) \in 1..Len(calls) /\ Tail(queue) \in Seq(1..Len(calls))
    BY <1>5, HeadOfQueue DEF Worker!Answer, Worker!Save, Worker!Fails, Worker!Runs,
       Worker!Running
  <2>2. \E a \in Answers : Worker!Leave(a)
    BY <1>5, HalvesAndAnswers DEF Worker!Answer, Worker!Save, Worker!Fails
  <2>3. /\ outbox' \in Seq([id : 1..Len(calls), answer : Answers])
        /\ queue' \in Seq(1..Len(calls)) /\ stage' \in Stages
    BY <2>1, <2>2, Replied DEF Worker!Leave, Stages
  <2>4. saved' \in [Worker!Halves -> Seq(Nat)]
    BY <1>5 DEF Worker!Answer, Worker!Save, Worker!Fails, WorkerTypes
  <2>5. QED
    BY <1>5, <2>3, <2>4 DEF Worker!Answer, Worker!Save, Worker!Fails, WorkerTypes
<1>6. CASE Worker!BeginExport
  BY <1>6 DEF Worker!BeginExport, WorkerTypes, Stages
<1>7. ASSUME NEW h \in Worker!Halves, Worker!Export(h) PROVE WorkerTypes'
  BY <1>7 DEF Worker!Export, WorkerTypes, Stages
<1>8. CASE Worker!Settle
  <2> DEFINE r == Head(outbox)
  <2>1. /\ r \in [id : 1..Len(calls), answer : Answers]
        /\ outbox' \in Seq([id : 1..Len(calls), answer : Answers])
    BY <1>8, HeadAndTail DEF Worker!Settle, WorkerTypes
  <2>2. r.id \in 1..Len(calls) /\ r.answer \in Answers
    BY <2>1
  <2>3. CASE r.id \in waiting
    <3>1. /\ waiting' = waiting \ {r.id}
          /\ answers' = [id \in DOMAIN answers \cup {r.id} |->
                           IF id = r.id THEN r.answer ELSE answers[id]]
      BY <1>8, <2>3 DEF Worker!Settle
    <3>2. /\ DOMAIN answers' \subseteq 1..Len(calls)
          /\ \A id \in DOMAIN answers' : answers'[id] \in Answers
      BY <2>2, <3>1 DEF WorkerTypes
    <3>3. QED
      BY <1>8, <2>1, <3>1, <3>2 DEF Worker!Settle, WorkerTypes
  <2>4. CASE r.id \notin waiting
    BY <1>8, <2>1, <2>4 DEF Worker!Settle, WorkerTypes
  <2>5. QED
    BY <2>3, <2>4
<1>9. CASE Worker!Dies
  BY <1>9 DEF Worker!Dies, WorkerTypes
<1>10. CASE UNCHANGED Worker!workerVars
  BY <1>10 DEF Worker!workerVars, WorkerTypes
<1>11. QED
  BY <1>1, <1>2, <1>3, <1>4, <1>5, <1>6, <1>7, <1>8, <1>9, <1>10, WorkerStep

\* An operation leaves the queue only when it is over, and the next one starts idle.
LEMMA QueuedNext == ASSUME WorkerInv, [Worker!Next]_(Worker!workerVars) PROVE Queued'
<1>1. ASSUME NEW kind \in Worker!Kinds, Worker!Call(kind) PROVE Queued'
  <2>1. \A x \in Worker!ToSet(queue) : x \in 1..Len(calls)
    BY DEF WorkerInv, WorkerTypes, Worker!ToSet
  <2>2. \A x \in 1..Len(calls) : calls'[x] = calls[x]
    BY <1>1 DEF Worker!Call, WorkerInv, WorkerTypes
  <2>3. queue # <<>> => Head(queue) \in Worker!ToSet(queue)
    BY HeadOfQueue DEF WorkerInv
  <2>4. queue' = queue /\ stage' = stage /\ halves' = halves
    BY <1>1 DEF Worker!Call
  <2>5. QED
    BY <2>1, <2>2, <2>3, <2>4 DEF WorkerInv, Queued, Applied
<1>2. CASE Worker!Receive
  <2>1. CASE calls[Head(inbox)] \in {"read", "sync"}
    BY <1>2, <2>1 DEF Worker!Receive, WorkerInv, Queued, Applied
  <2>2. CASE calls[Head(inbox)] \notin {"read", "sync"}
    <3>1. Head(inbox) \in 1..Len(calls)
      BY <1>2, HeadOfInbox DEF Worker!Receive, WorkerInv
    <3>2. /\ queue' = Append(queue, Head(inbox)) /\ stage' = stage /\ halves' = halves
          /\ calls' = calls
      BY <1>2, <2>2 DEF Worker!Receive
    <3>3. Worker!ToSet(queue') = Worker!ToSet(queue) \cup {Head(inbox)}
      BY <3>1, <3>2, Appended DEF WorkerInv, WorkerTypes
    <3>4. queue' # <<>> /\ (queue # <<>> => Head(queue') = Head(queue))
      BY <3>1, <3>2 DEF WorkerInv, WorkerTypes
    <3>5. calls[Head(inbox)] \in {"write", "checkpoint"}
      <4>1. calls[Head(inbox)] \in Worker!Kinds
        BY <3>1 DEF WorkerInv, WorkerTypes
      <4>2. QED
        BY <2>2, <4>1 DEF Worker!Kinds
    <3>6. QED
      BY <3>2, <3>3, <3>4, <3>5 DEF WorkerInv, Queued, Applied
  <2>3. QED
    BY <2>1, <2>2
<1>3. CASE Worker!Log \/ Worker!BeginExport
  BY <1>3 DEF Worker!Log, Worker!BeginExport, Worker!Runs, Worker!Running, WorkerInv,
     Queued, Applied
<1>4. CASE Worker!ApplyWrite
  <2>1. Head(queue) \in Nat
    BY <1>4, HeadOfQueue DEF Worker!ApplyWrite, Worker!Runs, Worker!Running, WorkerInv
  <2>2. halves'["left"] = Append(halves["left"], Head(queue))
    BY <1>4, HalvesAndAnswers DEF Worker!ApplyWrite, WorkerInv, WorkerTypes
  <2>3. Head(queue) \in Worker!ToSet(halves'["left"])
    <3>1. halves["left"] \in Seq(Nat)
      BY HalvesAndAnswers DEF WorkerInv, WorkerTypes
    <3>2. QED
      BY <2>1, <2>2, <3>1, Appended
  <2>4. QED
    BY <1>4, <2>3 DEF Worker!ApplyWrite, Worker!Runs, Worker!Running, WorkerInv, Queued,
       Applied
<1>5. ASSUME Worker!Answer \/ Worker!Save \/ Worker!Fails PROVE Queued'
  <2>1. Worker!ToSet(queue') \subseteq Worker!ToSet(queue) /\ stage' = "idle" /\ calls' = calls
    BY <1>5, HeadOfQueue DEF Worker!Answer, Worker!Save, Worker!Fails, Worker!Leave,
       Worker!Runs, Worker!Running, WorkerInv
  <2>2. QED
    BY <2>1 DEF WorkerInv, Queued, Applied
<1>6. ASSUME NEW h \in Worker!Halves, Worker!Export(h) PROVE Queued'
  BY <1>6, HalvesAndAnswers DEF Worker!Export, Worker!Runs, Worker!Running, WorkerInv,
     Queued, Applied
<1>7. CASE Worker!Settle \/ Worker!Dies \/ UNCHANGED Worker!workerVars
  BY <1>7 DEF Worker!Settle, Worker!Dies, Worker!workerVars, WorkerInv, Queued, Applied
<1>8. QED
  BY <1>1, <1>2, <1>3, <1>4, <1>5, <1>6, <1>7, WorkerStep

\* Calls come in order, are taken in order and take effect in order.
LEMMA InOrderNext == ASSUME WorkerInv, [Worker!Next]_(Worker!workerVars) PROVE InOrder'
<1>1. ASSUME NEW kind \in Worker!Kinds, Worker!Call(kind) PROVE InOrder'
  <2> DEFINE id == Len(calls) + 1
  <2>1. id \in Nat /\ inbox \in Seq(Nat) /\ queue \in Seq(Nat)
    BY CallsAreNat DEF WorkerInv, WorkerTypes
  <2>2. /\ \A x \in Worker!ToSet(inbox) : x < id
        /\ \A x \in Worker!ToSet(queue) : x < id
    BY DEF WorkerInv, WorkerTypes, Worker!ToSet
  <2>3. \A y \in Worker!ToSet(halves["left"]) : y < id
    BY DEF WorkerInv, WorkerTypes, InOrder
  <2>4. Ascending(inbox') /\ Worker!ToSet(inbox') = Worker!ToSet(inbox) \cup {id}
    BY <1>1, <2>1, <2>2, Appended, AscendingAppend DEF Worker!Call, WorkerInv, InOrder
  <2>5. queue' = queue /\ halves' = halves /\ stage' = stage
    BY <1>1 DEF Worker!Call
  <2>6. Len(calls) \in Nat /\ Len(calls') = Len(calls) + 1
    BY <1>1 DEF Worker!Call, WorkerInv, WorkerTypes
  <2>7. QED
    BY <2>2, <2>3, <2>4, <2>5, <2>6 DEF WorkerInv, InOrder, Applied
<1>2. CASE Worker!Receive
  <2> DEFINE m == Head(inbox)
  <2>1. /\ m \in Worker!ToSet(inbox) /\ m \in 1..Len(calls) /\ m \in Nat
        /\ Worker!ToSet(inbox) = {m} \cup Worker!ToSet(inbox')
    BY <1>2, HeadOfInbox DEF Worker!Receive, WorkerInv
  <2>2. inbox \in Seq(Nat) /\ queue \in Seq(Nat)
    BY CallsAreNat DEF WorkerInv
  <2>3. Ascending(inbox') /\ \A x \in Worker!ToSet(inbox') : m < x
    BY <1>2, <2>2, AscendingTail DEF Worker!Receive, WorkerInv, InOrder
  <2>4. halves' = halves /\ stage' = stage /\ calls' = calls
    BY <1>2 DEF Worker!Receive
  <2>5. CASE queue' = queue
    BY <2>1, <2>3, <2>4, <2>5 DEF WorkerInv, InOrder, Applied
  <2>6. CASE queue' = Append(queue, m)
    <3>1. Ascending(queue') /\ Worker!ToSet(queue') = Worker!ToSet(queue) \cup {m}
      <4>1. Ascending(queue) /\ \A x \in Worker!ToSet(queue) : x < m
        BY <2>1 DEF WorkerInv, InOrder
      <4>2. QED
        BY <2>1, <2>2, <2>6, <4>1, Appended, AscendingAppend
    <3>2. queue # <<>> => Head(queue') = Head(queue)
      BY <2>1, <2>2, <2>6
    <3>3. queue = <<>> => Worker!ToSet(queue) = {}
      BY DEF Worker!ToSet
    <3>4. ASSUME NEW x \in Worker!ToSet(inbox')
          PROVE  /\ \A y \in Worker!ToSet(queue') : y < x
                 /\ \A y \in Worker!ToSet(halves["left"]) : y < x
      BY <2>1, <2>3, <3>1 DEF WorkerInv, InOrder
    <3>5. ASSUME NEW x \in Worker!ToSet(queue'), NEW y \in Worker!ToSet(halves["left"])
          PROVE  y < x \/ (Applied /\ y = x /\ x = Head(queue'))
      <4>1. CASE x = m
        BY <2>1, <4>1 DEF WorkerInv, InOrder
      <4>2. CASE x \in Worker!ToSet(queue)
        BY <3>2, <3>3, <4>2 DEF WorkerInv, InOrder
      <4>3. QED
        BY <3>1, <4>1, <4>2
    <3>6. QED
      BY <2>3, <2>4, <3>1, <3>4, <3>5 DEF WorkerInv, InOrder, Applied
  <2>7. QED
    BY <1>2, <2>5, <2>6 DEF Worker!Receive
<1>3. CASE Worker!Log \/ Worker!BeginExport
  BY <1>3 DEF Worker!Log, Worker!BeginExport, Worker!Runs, Worker!Running, WorkerInv,
     InOrder, Applied
<1>4. CASE Worker!ApplyWrite
  <2> DEFINE q == Head(queue)
  <2>1. /\ q \in Nat /\ q \in Worker!ToSet(queue) /\ q \in 1..Len(calls)
        /\ Worker!ToSet(queue) = {q} \cup Worker!ToSet(Tail(queue))
    BY <1>4, HeadOfQueue DEF Worker!ApplyWrite, Worker!Runs, Worker!Running, WorkerInv
  <2>2. queue \in Seq(Nat)
    BY CallsAreNat DEF WorkerInv
  <2>3. \A x \in Worker!ToSet(Tail(queue)) : q < x
    BY <1>4, <2>2, AscendingTail DEF Worker!ApplyWrite, Worker!Runs, Worker!Running,
       WorkerInv, InOrder
  <2>4. halves'["left"] = Append(halves["left"], q) /\ halves["left"] \in Seq(Nat)
    BY <1>4, HalvesAndAnswers DEF Worker!ApplyWrite, WorkerInv, WorkerTypes
  <2>5. \A y \in Worker!ToSet(halves["left"]) : y < q
    BY <1>4, <2>1 DEF Worker!ApplyWrite, Worker!Runs, WorkerInv, InOrder, Applied
  <2>6. Ascending(halves'["left"]) /\ Worker!ToSet(halves'["left"]) = Worker!ToSet(halves["left"]) \cup {q}
    BY <2>1, <2>4, <2>5, Appended, AscendingAppend DEF WorkerInv, InOrder
  <2>7. inbox' = inbox /\ queue' = queue /\ calls' = calls /\ Applied'
    BY <1>4 DEF Worker!ApplyWrite, Applied
  <2>8. ASSUME NEW x \in Worker!ToSet(queue), NEW y \in Worker!ToSet(halves'["left"])
        PROVE  y < x \/ (y = x /\ x = q)
    <3>1. CASE x = q
      BY <2>5, <2>6, <3>1
    <3>2. CASE x \in Worker!ToSet(Tail(queue))
      <4>1. q < x /\ q \in Nat /\ x \in Nat
        BY <2>1, <2>2, <2>3, <3>2 DEF Worker!ToSet
      <4>2. \A z \in Worker!ToSet(halves["left"]) : z < x
        BY <1>4, <2>1, <3>2 DEF Worker!ApplyWrite, Worker!Runs, WorkerInv, InOrder, Applied
      <4>3. QED
        BY <2>6, <4>1, <4>2
    <3>3. QED
      BY <2>1, <3>1, <3>2
  <2>9. \A x \in Worker!ToSet(inbox) : \A y \in Worker!ToSet(halves'["left"]) : y < x
    BY <2>1, <2>6 DEF WorkerInv, InOrder
  <2>10. QED
    BY <2>1, <2>6, <2>7, <2>8, <2>9 DEF WorkerInv, InOrder
<1>5. ASSUME Worker!Answer \/ Worker!Save \/ Worker!Fails PROVE InOrder'
  <2>1. queue # <<>> /\ queue' = Tail(queue) /\ inbox' = inbox /\ halves' = halves /\ calls' = calls
    BY <1>5 DEF Worker!Answer, Worker!Save, Worker!Fails, Worker!Leave, Worker!Runs,
       Worker!Running
  <2>2. queue \in Seq(Nat)
    BY CallsAreNat DEF WorkerInv
  <2>3. /\ Ascending(queue') /\ \A x \in Worker!ToSet(queue') : Head(queue) < x
        /\ Worker!ToSet(queue) = {Head(queue)} \cup Worker!ToSet(queue') /\ Head(queue) \in Worker!ToSet(queue)
        /\ Head(queue) \in Nat
    BY <2>1, <2>2, AscendingTail, HeadOfQueue DEF WorkerInv, InOrder
  <2>4. ASSUME NEW x \in Worker!ToSet(queue'), NEW y \in Worker!ToSet(halves["left"]) PROVE y < x
    <3>1. x \in Worker!ToSet(queue) /\ Head(queue) < x
      BY <2>3
    <3>2. y < x \/ x = Head(queue)
      BY <3>1 DEF WorkerInv, InOrder
    <3>3. QED
      BY <2>3, <3>1, <3>2
  <2>5. QED
    BY <2>1, <2>3, <2>4 DEF WorkerInv, InOrder
<1>6. ASSUME NEW h \in Worker!Halves, Worker!Export(h) PROVE InOrder'
  BY <1>6, HalvesAndAnswers DEF Worker!Export, Worker!Runs, Worker!Running, WorkerInv,
     InOrder, Applied
<1>7. CASE Worker!Settle \/ Worker!Dies \/ UNCHANGED Worker!workerVars
  BY <1>7 DEF Worker!Settle, Worker!Dies, Worker!workerVars, WorkerInv, InOrder, Applied
<1>8. QED
  BY <1>1, <1>2, <1>3, <1>4, <1>5, <1>6, <1>7, WorkerStep

\* No mutation takes effect while a checkpoint is read.
LEMMA ExportingNext == ASSUME WorkerInv, [Worker!Next]_(Worker!workerVars) PROVE Exporting'
<1>1. CASE Worker!ApplyWrite
  BY <1>1, HalvesAndAnswers DEF Worker!ApplyWrite, Worker!Runs, WorkerInv, WorkerTypes,
     Exporting
<1>2. ASSUME NEW h \in Worker!Halves, Worker!Export(h) PROVE Exporting'
  BY <1>2, HalvesAndAnswers DEF Worker!Export, WorkerInv, WorkerTypes, Exporting
<1>3. CASE Worker!Save
  BY <1>3 DEF Worker!Save, Worker!Leave, WorkerInv, Exporting
<1>4. CASE Worker!Answer \/ Worker!Fails \/ Worker!Log \/ Worker!BeginExport
  BY <1>4 DEF Worker!Answer, Worker!Fails, Worker!Log, Worker!BeginExport, Worker!Leave,
     WorkerInv, Exporting
<1>5. ASSUME NEW kind \in Worker!Kinds, Worker!Call(kind) PROVE Exporting'
  BY <1>5 DEF Worker!Call, WorkerInv, Exporting
<1>6. CASE Worker!Receive \/ Worker!Settle \/ Worker!Dies \/ UNCHANGED Worker!workerVars
  BY <1>6 DEF Worker!Receive, Worker!Settle, Worker!Dies, Worker!workerVars, WorkerInv,
     Exporting
<1>7. QED
  BY <1>1, <1>2, <1>3, <1>4, <1>5, <1>6, WorkerStep

\* What has been called stays, and the tree only grows.
LEMMA Grows ==
  ASSUME WorkerInv, [Worker!Next]_(Worker!workerVars)
  PROVE  /\ Len(calls) \in Nat /\ Len(calls') \in Nat /\ Len(calls) <= Len(calls')
         /\ \A id \in 1..Len(calls) : calls'[id] = calls[id] /\ known'[id] = known[id]
         /\ Worker!ToSet(halves["left"]) \subseteq Worker!ToSet(halves'["left"])
<1>1. CASE Worker!ApplyWrite
  <2>1. Head(queue) \in Nat /\ halves["left"] \in Seq(Nat)
    BY <1>1, HalvesAndAnswers, HeadOfQueue DEF Worker!ApplyWrite, Worker!Runs,
       Worker!Running, WorkerInv, WorkerTypes
  <2>2. halves'["left"] = Append(halves["left"], Head(queue))
    BY <1>1, HalvesAndAnswers DEF Worker!ApplyWrite, WorkerInv, WorkerTypes
  <2>3. Worker!ToSet(halves["left"]) \subseteq Worker!ToSet(halves'["left"])
    BY <2>1, <2>2, Appended
  <2>4. QED
    BY <1>1, <2>3 DEF Worker!ApplyWrite, WorkerInv, WorkerTypes
<1>2. ASSUME NEW kind \in Worker!Kinds, Worker!Call(kind)
      PROVE  /\ Len(calls) \in Nat /\ Len(calls') \in Nat /\ Len(calls) <= Len(calls')
             /\ \A id \in 1..Len(calls) : calls'[id] = calls[id] /\ known'[id] = known[id]
             /\ halves' = halves
  BY <1>2 DEF Worker!Call, WorkerInv, WorkerTypes
<1>3. CASE calls' = calls /\ known' = known /\ halves' = halves
  BY <1>3 DEF WorkerInv, WorkerTypes
<1>4. \/ calls' = calls /\ known' = known /\ halves' = halves
      \/ Worker!ApplyWrite
      \/ \E kind \in Worker!Kinds : Worker!Call(kind)
  BY WorkerStep DEF Worker!Receive, Worker!Log, Worker!Answer, Worker!BeginExport,
     Worker!Export, Worker!Save, Worker!Fails, Worker!Settle, Worker!Dies,
     Worker!workerVars
<1>5. QED
  BY <1>1, <1>2, <1>3, <1>4

\* So an honest answer stays one.
LEMMA StaysHonest ==
  ASSUME WorkerInv, [Worker!Next]_(Worker!workerVars), NEW id \in 1..Len(calls), NEW a \in Answers, Honest(id, a)
  PROVE  Honest(id, a)'
BY Grows DEF Honest

\* The replies that were under way.
LEMMA OldReplies ==
  ASSUME WorkerInv, [Worker!Next]_(Worker!workerVars), NEW r \in Worker!ToSet(outbox)
  PROVE  Honest(r.id, r.answer)'
<1> DEFINE R == [id : 1..Len(calls), answer : Answers]
<1> HIDE DEF R
<1>1. r \in R
  <2>1. outbox \in Seq(R)
    BY DEF WorkerInv, WorkerTypes, R
  <2>2. QED
    BY <2>1 DEF Worker!ToSet
<1>2. r.id \in 1..Len(calls) /\ r.answer \in Answers
  BY <1>1 DEF R
<1>3. QED
  BY <1>2, StaysHonest DEF WorkerInv, AnswersHonest

\* The reply the worker gives.
LEMMA NewReply ==
  ASSUME WorkerInv, [Worker!Next]_(Worker!workerVars), NEW id \in 1..Len(calls), NEW a \in Answers,
         Worker!Reply(id, a), Honest(id, a)
  PROVE  \A r \in Worker!ToSet(outbox') : Honest(r.id, r.answer)'
<1> DEFINE new == [id |-> id, answer |-> a]
<1>1. Honest(new.id, new.answer)'
  BY StaysHonest
<1> HIDE DEF new
<1>2. Worker!ToSet(outbox') = Worker!ToSet(outbox) \cup {new}
  BY Replied DEF WorkerInv, new
<1>3. QED
  BY <1>1, <1>2, OldReplies

\* Every answer is honest.
LEMMA HonestNext == ASSUME WorkerInv, [Worker!Next]_(Worker!workerVars) PROVE AnswersHonest'
<1>1. \A r \in Worker!ToSet(outbox') : Honest(r.id, r.answer)'
  <2>1. CASE Worker!Receive
    <3> DEFINE m == Head(inbox)
    <3>1. m \in 1..Len(calls) /\ Worker!Done(halves["left"]) \in Answers
      BY <2>1, HeadOfInbox, HalvesAndAnswers DEF Worker!Receive, WorkerInv, WorkerTypes
    <3>2. CASE calls[m] \in {"read", "sync"}
      <4>1. Worker!Reply(m, Worker!Done(halves["left"]))
        BY <2>1, <3>2 DEF Worker!Receive
      <4>2. Worker!Done(halves["left"]).value = halves["left"] /\ known[m] \subseteq Worker!ToSet(halves["left"])
        BY <3>1, HalvesAndAnswers DEF WorkerInv, AnswersHonest
      <4>3. Honest(m, Worker!Done(halves["left"]))
        BY <3>2, <4>2 DEF Honest
      <4>4. QED
        BY <3>1, <4>1, <4>3, NewReply
    <3>3. CASE calls[m] \notin {"read", "sync"}
      BY <2>1, <3>3, OldReplies DEF Worker!Receive
    <3>4. QED
      BY <3>2, <3>3
  <2>2. ASSUME Worker!Answer \/ Worker!Save \/ Worker!Fails
        PROVE  \A r \in Worker!ToSet(outbox') : Honest(r.id, r.answer)'
    <3> DEFINE q == Head(queue)
    <3>1. q \in 1..Len(calls) /\ q \in Worker!ToSet(queue)
      BY <2>2, HeadOfQueue DEF Worker!Answer, Worker!Save, Worker!Fails, Worker!Runs,
         Worker!Running, WorkerInv
    <3>2. PICK a \in Answers : Worker!Reply(q, a) /\ (a.ok => Applied)
      BY <2>2, HalvesAndAnswers DEF Worker!Answer, Worker!Save, Worker!Fails,
         Worker!Leave, Worker!Runs, Applied
    <3>3. Honest(q, a)
      BY <3>1, <3>2 DEF Honest, WorkerInv, Queued
    <3>4. QED
      BY <3>1, <3>2, <3>3, NewReply
  <2>3. CASE Worker!Settle
    <3>1. Worker!ToSet(outbox') \subseteq Worker!ToSet(outbox)
      BY <2>3, HeadAndTail DEF Worker!Settle, WorkerInv, WorkerTypes
    <3>2. QED
      BY <3>1, OldReplies
  <2>4. ASSUME \/ \E kind \in Worker!Kinds : Worker!Call(kind)
               \/ Worker!Log \/ Worker!ApplyWrite \/ Worker!BeginExport \/ Worker!Dies \/ UNCHANGED Worker!workerVars
               \/ \E h \in Worker!Halves : Worker!Export(h)
        PROVE  outbox' = outbox
    BY <2>4 DEF Worker!Call, Worker!Log, Worker!ApplyWrite, Worker!BeginExport,
       Worker!Dies, Worker!Export, Worker!workerVars
  <2>5. QED
    BY <2>1, <2>2, <2>3, <2>4, OldReplies, WorkerStep
<1>2. ASSUME NEW id \in DOMAIN answers', NEW a, a = answers'[id] PROVE Honest(id, a)'
  <2>1. CASE id \in DOMAIN answers /\ a = answers[id]
    BY <2>1, StaysHonest DEF WorkerInv, WorkerTypes, AnswersHonest
  <2>2. CASE Worker!Settle /\ ~(id \in DOMAIN answers /\ a = answers[id])
    <3>1. PICK r \in Worker!ToSet(outbox) : r = Head(outbox)
      BY <2>2, HeadAndTail DEF Worker!Settle, WorkerInv, WorkerTypes
    <3>2. Honest(r.id, r.answer)'
      BY OldReplies
    <3>3. id = r.id /\ a = r.answer
      BY <1>2, <2>2, <3>1 DEF Worker!Settle
    <3>4. QED
      BY <3>2, <3>3
  <2>3. ~Worker!Settle => answers' = answers
    BY WorkerStep DEF Worker!Call, Worker!Receive, Worker!Log, Worker!ApplyWrite,
       Worker!Answer, Worker!BeginExport, Worker!Export, Worker!Save, Worker!Fails,
       Worker!Dies,
       Worker!workerVars
  <2>4. QED
    BY <1>2, <2>1, <2>2, <2>3
<1>3. \A id \in 1..Len(calls') : known'[id] \subseteq Worker!ToSet(halves'["left"])
  <2>1. \A id \in 1..Len(calls) : known'[id] \subseteq Worker!ToSet(halves'["left"])
    BY Grows DEF WorkerInv, AnswersHonest
  <2>2. ASSUME NEW kind \in Worker!Kinds, Worker!Call(kind) PROVE known'[Len(calls) + 1] \subseteq Worker!ToSet(halves'["left"])
    <3>1. known' = Append(known, Worker!Told) /\ halves' = halves
      BY <2>2 DEF Worker!Call
    <3>2. Worker!Told \subseteq Worker!ToSet(halves["left"])
      BY DEF Worker!Told, WorkerInv, AnswersHonest, Honest
    <3>3. known'[Len(calls) + 1] = Worker!Told
      BY <3>1 DEF WorkerInv, WorkerTypes
    <3>4. QED
      BY <3>1, <3>2, <3>3
  <2>3. ASSUME NEW kind \in Worker!Kinds, Worker!Call(kind) PROVE Len(calls') = Len(calls) + 1
    BY <2>3 DEF Worker!Call, WorkerInv, WorkerTypes
  <2>4. calls' = calls \/ \E kind \in Worker!Kinds : Worker!Call(kind)
    BY WorkerStep DEF Worker!Receive, Worker!Log, Worker!ApplyWrite, Worker!Answer,
       Worker!BeginExport, Worker!Export, Worker!Save, Worker!Fails, Worker!Settle,
       Worker!Dies,
       Worker!workerVars
  <2>5. QED
    BY <2>1, <2>2, <2>3, <2>4, Grows
<1>4. \A id \in DOMAIN answers' : Honest(id, answers[id])'
  BY <1>2
<1>5. QED
  BY <1>1, <1>3, <1>4 DEF AnswersHonest

-----------------------------------------------------------------------------
\* The invariant holds in every state.
THEOREM WorkerInvHolds == Worker!Spec => []WorkerInv
<1>1. Worker!Init => WorkerInv
  <2> SUFFICES ASSUME Worker!Init PROVE WorkerInv
    OBVIOUS
  <2>1. /\ calls = <<>> /\ known = <<>> /\ inbox = <<>> /\ outbox = <<>> /\ queue = <<>>
        /\ answers = <<>> /\ waiting = {} /\ stage = "idle"
        /\ halves = Worker!Empty /\ draft = Worker!Empty /\ saved = Worker!Empty
    BY DEF Worker!Init
  <2>2. Worker!Empty \in [Worker!Halves -> Seq(Nat)] /\ Worker!Empty["left"] = <<>> /\ Worker!Empty["right"] = <<>>
    BY HalvesAndAnswers DEF Worker!Empty
  <2>3. \A S : <<>> \in Seq(S) /\ Len(<<>>) = 0 /\ Worker!ToSet(<<>>) = {} /\ DOMAIN <<>> = {}
    BY DEF Worker!ToSet
  <2>4. WorkerTypes
    BY <2>1, <2>2, <2>3 DEF WorkerTypes, Stages
  <2>5. Queued
    BY <2>1, <2>3 DEF Queued, Applied
  <2>6. InOrder
    BY <2>1, <2>2, <2>3 DEF InOrder, Ascending
  <2>7. Exporting
    BY <2>1, <2>2 DEF Exporting
  <2>8. AnswersHonest
    BY <2>1, <2>3 DEF AnswersHonest
  <2>9. QED
    BY <2>4, <2>5, <2>6, <2>7, <2>8 DEF WorkerInv
<1>2. WorkerInv /\ [Worker!Next]_(Worker!workerVars) => WorkerInv'
  BY WorkerTypesNext, QueuedNext, InOrderNext, ExportingNext, HonestNext DEF WorkerInv
<1>3. QED
  BY <1>1, <1>2, PTL DEF Worker!Spec

\* The worker's state and the page's keep their shape.
THEOREM WorkerTypesHold == Worker!Spec => []Worker!TypeOK
<1>1. WorkerInv => Worker!TypeOK
  <2> SUFFICES ASSUME WorkerInv PROVE Worker!TypeOK
    OBVIOUS
  <2>1. /\ calls \in Seq(Worker!Kinds) /\ waiting \subseteq DOMAIN calls /\ DOMAIN known = DOMAIN calls
        /\ DOMAIN answers \subseteq DOMAIN calls /\ stage \in Stages
    BY DEF WorkerInv, WorkerTypes
  <2>2. \A i \in DOMAIN queue : calls[queue[i]] \in {"write", "checkpoint"}
    BY DEF WorkerInv, Queued, Worker!ToSet
  <2>3. QED
    BY <2>1, <2>2 DEF Worker!TypeOK, Stages
<1>2. QED
  BY <1>1, WorkerInvHolds, PTL

\* The calls of a page take effect in the order they were made; a read sees every
\* mutation whose answer the page had when it asked; and a checkpoint is a tree that
\* existed, though its export awaits in the middle.
THEOREM WorkerSoundHolds == Worker!Spec => []Worker!WorkerSound
<1>1. WorkerInv => Worker!ReadsAreNotStale
  BY DEF WorkerInv, AnswersHonest, Honest, Worker!ReadsAreNotStale
<1>2. WorkerInv => Worker!CallsTakeEffectInOrder
  <2> SUFFICES ASSUME WorkerInv PROVE Worker!CallsTakeEffectInOrder
    OBVIOUS
  <2>1. ASSUME NEW h \in Worker!Halves PROVE Ascending(halves[h]) /\ DOMAIN halves[h] = 1..Len(halves[h])
    <3>1. halves[h] = halves["left"]
      BY HalvesAndAnswers DEF WorkerInv, Exporting
    <3>2. halves["left"] \in Seq(Nat) /\ Ascending(halves["left"])
      BY HalvesAndAnswers DEF WorkerInv, WorkerTypes, InOrder
    <3>3. QED
      BY <3>1, <3>2
  <2>2. QED
    BY <2>1 DEF Worker!CallsTakeEffectInOrder, Ascending
<1>3. WorkerInv => Worker!CheckpointIsATree
  BY DEF WorkerInv, Exporting, Worker!CheckpointIsATree
<1>4. QED
  BY <1>1, <1>2, <1>3, WorkerInvHolds, PTL DEF Worker!WorkerSound
=============================================================================
