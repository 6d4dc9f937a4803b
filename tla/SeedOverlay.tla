---------------------------- MODULE SeedOverlay ----------------------------
(***************************************************************************)
(* What a reload makes of the tree (snapshot.ts, seed.ts): a checkpoint    *)
(* keeps the overlay, which is what the user changed, and the next boot    *)
(* installs its own seed image and grafts the overlay on it through the    *)
(* ordinary mkdir, writeBytes and chmod.                                   *)
(***************************************************************************)
EXTENDS TreeOps

CONSTANTS
  Images,   \* the seed image of each release of the page: a sequence of trees
  MaxSteps  \* bound: mutations and reloads

VARIABLES
  disk,     \* the tree
  image,    \* the release that is installed
  settled,  \* nothing was changed since a reload
  steps     \* counter

overlayVars == <<disk, image, settled, steps>>

TypeOK ==
  /\ \A p \in DOMAIN disk : p # <<>> /\ IsDir(disk, Parent(p))
  /\ image \in DOMAIN Images /\ settled \in BOOLEAN /\ steps \in 0..MaxSteps

-----------------------------------------------------------------------------
(* createSnapshot at scope 'overlay', with the seed.                       *)

\* A claim to come from the seed counts only where the seed has such a node.
OfSeed(tr, img, p) ==
  tr[p].origin = "seed" /\ p \in DOMAIN img /\ img[p].kind = tr[p].kind

\* The walk comes by p: every directory above can be listed and got to.
Listed(tr, p) ==
  \A i \in 0..(Len(p) - 1) :
    Can(tr, SubSeq(p, 1, i), IF i < Len(p) - 1 THEN {"r", "x"} ELSE {"r"})
Readable(tr, p) == Walk(tr, p) = "ok" /\ Can(tr, p, {"r"})

Entry(tr, img, p) ==
  [path |-> p, kind |-> tr[p].kind, data |-> tr[p].data, own |-> tr[p].own,
   seed |-> OfSeed(tr, img, p)]
Overlay(tr, img) ==
  {Entry(tr, img, p) : p \in {q \in DOMAIN tr :
     /\ Listed(tr, q)
     /\ IF OfSeed(tr, img, q) THEN tr[q].own # img[q].own
        ELSE tr[q].kind = "dir" \/ Readable(tr, q)}}

-----------------------------------------------------------------------------
(* restoreSnapshot over a freshly installed image.                         *)

\* One entry of the first pass, shallow paths first; done collects the entries
\* whose metadata the second pass is to restore.
Grafted(st, e) ==
  LET tr == st.tree
      stat == Walk(tr, e.path) = "ok"
      same == stat /\ tr[e.path].kind = e.kind
      plan == IF e.kind = "dir" THEN Mkdirp(tr, e.path, rwx, "user")
              ELSE PlanWrite(tr, [path |-> e.path, how |-> "parents", data |-> e.data,
                                  origin |-> "user"])
      Done(t) == [tree |-> t, done |-> Append(st.done, e)]
  IN IF e.seed THEN (IF same THEN Done(tr) ELSE st)
     ELSE IF stat /\ ~same THEN st
     ELSE IF stat /\ e.kind = "dir" THEN Done(tr)
     ELSE IF plan.ok THEN Done(Applied(tr, 0, plan.steps).tree) ELSE st

\* slip: parents get their modes before their children do.
StampedTopDown(st) ==
  FoldLeft(LAMBDA tr, e : Applied(tr, 0, PlanChmod(tr, [path |-> e.path, mode |-> e.own]).steps).tree,
           st.tree, st.done)

\* The second pass, in reverse: a directory's mode after everything in it.
Stamped(st) ==
  FoldRight(LAMBDA e, tr : Applied(tr, 0, PlanChmod(tr, [path |-> e.path, mode |-> e.own]).steps).tree,
            st.done, st.tree)

Restored(img, entries) ==
  Stamped(FoldLeft(Grafted, [tree |-> img, done |-> <<>>],
                   SetToSortSeq(entries, LAMBDA d, e : Len(d.path) < Len(e.path))))

-----------------------------------------------------------------------------
Init ==
  /\ image = 1 /\ disk = Images[1] /\ settled = TRUE /\ steps = 0

Do(r) ==
  LET plan == Planned(disk, r) IN
  /\ steps < MaxSteps /\ steps' = steps + 1
  /\ plan.ok /\ disk' = Applied(disk, 0, plan.steps).tree
  /\ settled' = FALSE
  /\ UNCHANGED image

\* A checkpoint, and a boot of the same release of the page or of a later one.
Reload(i) ==
  /\ steps < MaxSteps /\ steps' = steps + 1
  /\ i >= image /\ image' = i
  /\ disk' = Restored(Images[i], Overlay(disk, Images[image]))
  /\ settled' = TRUE

Next == (\E r \in Requests : Do(r)) \/ (\E i \in DOMAIN Images : Reload(i))
Spec == Init /\ [][Next]_overlayVars

-----------------------------------------------------------------------------
Reloads == settled' /\ steps' # steps

(* What the user made, moved or changed is there after a reload of the same
   release: same kind, content and mode; but for what could not be read back
   for the overlay, and what stands where the seed has a node of another kind. *)
InTheWay(img, p) ==
  \E i \in 1..Len(p) : LET q == SubSeq(p, 1, i) IN
    q \in DOMAIN img /\ img[q].kind # IF q = p THEN disk[p].kind ELSE "dir"
WhatTheUserMadeSurvives ==
  Reloads /\ image' = image =>
    \A p \in DOMAIN disk :
      /\ disk[p].origin = "user" /\ Listed(disk, p) /\ ~InTheWay(Images[image], p)
      /\ disk[p].kind = "dir" \/ Readable(disk, p)
      => /\ p \in DOMAIN disk'
         /\ disk'[p].kind = disk[p].kind /\ disk'[p].data = disk[p].data
         /\ disk'[p].own = disk[p].own

(* A new release reaches a returning visitor: whatever of its seed the user has
   not replaced is there with the release's own content. *)
SeedUpdateReaches ==
  Reloads => \A p \in DOMAIN Images[image'] :
    p \notin DOMAIN disk \/ OfSeed(disk, Images[image], p)
    => /\ p \in DOMAIN disk'
       /\ disk'[p].kind = Images[image'][p].kind /\ disk'[p].data = Images[image'][p].data

(* What a reload loses it loses at once: the tree it leaves is one that a
   second reload of the same release gives back node for node. *)
ReloadIsStable ==
  settled => LET again == Restored(Images[image], Overlay(disk, Images[image])) IN
    /\ DOMAIN again = DOMAIN disk
    /\ \A p \in DOMAIN disk :
         /\ again[p].kind = disk[p].kind /\ again[p].data = disk[p].data
         /\ again[p].own = disk[p].own

OverlaySteps == WhatTheUserMadeSurvives /\ SeedUpdateReaches

(* memory.ts: "A move is a user action whatever it moves."  So what was moved
   is where it was moved to after a reload, with the content it had. *)
MoveSticks ==
  [][Reloads /\ image' = image =>
       \A p \in DOMAIN disk \cap DOMAIN disk' :
         Listed(disk, p) /\ disk[p].kind = "file" /\ Readable(disk, p)
           /\ ~InTheWay(Images[image], p)
         => disk'[p].data = disk[p].data]_overlayVars
=============================================================================
