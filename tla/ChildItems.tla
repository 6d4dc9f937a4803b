----------------------------- MODULE ChildItems ------------------------------
(***************************************************************************)
(* What a path with wildcards names, and what is below it: globPath and    *)
(* resolveTargets of commands/fs-read/support.ts, and the walk of          *)
(* Get-ChildItem.  A directory is read, an item looked at and a row        *)
(* written with an await between, so another pipeline may change the tree, *)
(* the reader of the rows may leave, and Ctrl+C may come.                  *)
(*                                                                         *)
(* A name is a value; which names hold *, ? or [ and what those mean where *)
(* a pattern is read is given (Wildcards has the language).  -Filter,      *)
(* -Include and -Exclude are the names they leave.  One path is asked for: *)
(* several are done one after the other.                                   *)
(***************************************************************************)
EXTENDS Naturals, Sequences, SequencesExt, FiniteSetsExt, Functions

CONSTANTS
  Homes,       \* the trees there may be, from paths to "dir" or "file"
  Asks,        \* the calls: [at, say, literal, kinds, names, picks, force, hiddenOnly, recurse, depth, name]
  Order,       \* the names, as the collator orders them
  Hidden,      \* those that begin with a dot
  Meaning,     \* of the names that hold a wildcard: the names they match
  Star,        \* the name that is nothing but *
  Locked,      \* directories nobody may read
  MaxChanges

VARIABLES
  tree, ask,
  phase,               \* "ready", "glob", "stat", "list", "done" or "cancelled"
  segments,            \* of the path, still to be looked at
  frontier, matched,   \* paths so far, and what the pattern in hand has found below those read
  targets,             \* paths found and looked at: [path, kind]
  todo,                \* rows to write and directories to walk, in order
  writing, out, errors,
  open, aborted,       \* the reader of the rows is there; Ctrl+C
  stood, changes       \* nodes nobody has touched since the start

childVars == <<tree, ask, phase, segments, frontier, matched, targets, todo, writing, out, errors, open,
               aborted, stood, changes>>
globs == <<segments, frontier, matched>>
world == <<tree, stood, changes, open, aborted>>

Outcomes == {"done", "cancelled"}

TypeOK ==
  /\ tree[<<>>] = "dir" /\ Range(tree) \subseteq {"dir", "file"} /\ stood \subseteq DOMAIN tree
  /\ phase \in {"ready", "glob", "stat", "list"} \cup Outcomes /\ changes \in 0..MaxChanges

Init ==
  /\ tree \in Homes /\ ask \in Asks /\ phase = "ready"
  /\ segments = <<>> /\ frontier = <<>> /\ matched = <<>> /\ targets = <<>> /\ todo = <<>>
  /\ writing = FALSE /\ out = <<>> /\ errors = 0 /\ open = TRUE /\ aborted = FALSE
  /\ stood = DOMAIN tree /\ changes = 0

-----------------------------------------------------------------------------
HasWildcard(name) == name \in DOMAIN Meaning

\* trailingStarParent: the last name is * alone, and what is said is its parent.
ParentOfStar == ~ask.literal /\ ask.say # <<>> /\ Last(ask.say) = Star
Said == IF ParentOfStar THEN Front(ask.say) ELSE ask.say
Path == ask.at \o Said

AnyPathIsWildcard == ~ask.literal /\ \E i \in DOMAIN ask.say : HasWildcard(ask.say[i])
Globbed    == ~ask.literal /\ \E i \in DOMAIN Said : HasWildcard(Said[i])
NamesItems == Globbed /\ ~ParentOfStar

\* "-Include with a literal -Path matches nothing."
IncludeIsInert == ask.picks = "include" /\ ~AnyPathIsWildcard /\ ~ask.recurse /\ ~ask.literal

\* "-Name always takes the level at a time."
ImmediateDescent == ask.picks # "none" /\ ~ask.name

\* slip: -Hidden shows the hidden ones too.
VisibleToo(name) == ask.force \/ ask.hiddenOnly \/ name \notin Hidden

Visible(name) == IF ask.hiddenOnly THEN name \in Hidden ELSE ask.force \/ name \notin Hidden
Accepts(path, kind) == kind \in ask.kinds /\ Last(path) \in ask.names

IsDir(path)    == path \in DOMAIN tree /\ tree[path] = "dir"
Readable(path) == IsDir(path) /\ path \notin Locked

\* orderChildItems: directories first, then by name.
Rank(name) == CHOOSE i \in DOMAIN Order : Order[i] = name
Before(p, q) ==
  IF tree[p] # tree[q] THEN tree[p] = "dir" ELSE Rank(Last(p)) < Rank(Last(q))
Children(path) ==
  SetToSortSeq({p \in DOMAIN tree : p # <<>> /\ Front(p) = path}, Before)

-----------------------------------------------------------------------------
(* The items a path names. *)

Invoke ==
  /\ phase = "ready"
  /\ IF aborted
     THEN phase' = "cancelled" /\ UNCHANGED globs
     ELSE /\ phase' = IF Globbed THEN "glob" ELSE "stat"
          /\ segments' = IF Globbed THEN Path ELSE <<>>
          /\ frontier' = IF Globbed THEN << <<>> >> ELSE <<Path>>
          /\ UNCHANGED matched
  /\ UNCHANGED <<ask, targets, todo, writing, out, errors, world>>

\* slip: a pattern matches what is hidden as well.
ShownToAll(p) == Last(p) \in Meaning[segments[1]]

Shown(p) == Last(p) \in Meaning[segments[1]] /\ (ask.force \/ ask.hiddenOnly \/ Last(p) \notin Hidden)

\* A segment that is a name; a directory read for one that is a pattern, which
\* adds nothing when it cannot be read; and the pattern's end.
Glob ==
  /\ phase = "glob"
  /\ IF segments = <<>> THEN phase' = "stat" /\ UNCHANGED globs
     ELSE IF ~HasWildcard(segments[1])
     THEN /\ frontier' = [i \in DOMAIN frontier |-> Append(frontier[i], segments[1])]
          /\ segments' = Tail(segments) /\ UNCHANGED <<phase, matched>>
     ELSE IF frontier = <<>>
     THEN /\ frontier' = matched /\ matched' = <<>> /\ segments' = Tail(segments) /\ UNCHANGED phase
     ELSE /\ frontier' = Tail(frontier)
          /\ matched' = IF Readable(frontier[1]) THEN matched \o SelectSeq(Children(frontier[1]), Shown) ELSE matched
          /\ UNCHANGED <<phase, segments>>
  /\ UNCHANGED <<ask, targets, todo, writing, out, errors, world>>

Show(path)       == [do |-> "show", path |-> path, depth |-> 0, now |-> FALSE]
Skip(path)       == [do |-> "skip", path |-> path, depth |-> 0, now |-> FALSE]
Walk(path, d, n) == [do |-> "walk", path |-> path, depth |-> d, now |-> n]

\* The loop over the targets.
Begin(t) ==
  IF IncludeIsInert THEN <<>>
  ELSE IF t.kind = "file" \/ (NamesItems /\ ~ask.recurse)
  THEN IF NamesItems /\ ~Accepts(t.path, t.kind) THEN <<>> ELSE <<Show(t.path)>>
  ELSE <<Walk(t.path, 0, NamesItems \/ ImmediateDescent)>>

\* resolveTargets: nothing said of a path that a pattern led to and that has gone.
Stat ==
  /\ phase = "stat"
  /\ IF frontier = <<>>
     THEN /\ phase' = "list" /\ todo' = FlattenSeq([i \in DOMAIN targets |-> Begin(targets[i])])
          /\ UNCHANGED <<frontier, targets, errors>>
     ELSE /\ frontier' = Tail(frontier) /\ UNCHANGED <<phase, todo>>
          /\ IF frontier[1] \in DOMAIN tree
             THEN targets' = Append(targets, [path |-> frontier[1], kind |-> tree[frontier[1]]]) /\ UNCHANGED errors
             ELSE errors' = errors + (IF Globbed THEN 0 ELSE 1) /\ UNCHANGED targets
  /\ UNCHANGED <<ask, segments, matched, writing, out, world>>

-----------------------------------------------------------------------------
(* The walk. *)

\* slip: what is below a directory comes before the directory.
RowsBelowFirst(w, rows) ==
  FlattenSeq([i \in DOMAIN rows |->
    (IF tree[rows[i]] = "dir" /\ ask.recurse /\ w.depth < ask.depth THEN <<Walk(rows[i], w.depth + 1, w.now)>> ELSE <<>>)
      \o (IF Accepts(rows[i], tree[rows[i]]) THEN <<Show(rows[i])>> ELSE <<>>)])

\* walk: one level, then what is below each of its directories; or each directory
\* entered as soon as it is reached.
Rows(w, rows) ==
  LET down(p) == IF tree[p] = "dir" /\ ask.recurse /\ w.depth < ask.depth
                 THEN <<Walk(p, w.depth + 1, w.now)>> ELSE <<>>
      row(p)  == IF Accepts(p, tree[p]) THEN <<Show(p)>> ELSE IF w.now THEN <<Skip(p)>> ELSE <<>>
  IN IF w.now
     THEN FlattenSeq([i \in DOMAIN rows |-> row(rows[i]) \o down(rows[i])])
     ELSE FlattenSeq([i \in DOMAIN rows |-> row(rows[i])]) \o FlattenSeq([i \in DOMAIN rows |-> down(rows[i])])

Listed(path) == SelectSeq(Children(path), LAMBDA p : Visible(Last(p)))

WalkOne ==
  /\ phase = "list" /\ ~writing /\ todo # <<>> /\ todo[1].do = "walk"
  /\ LET w == todo[1] IN
     IF aborted
     THEN phase' = (IF w.now /\ w.depth > 0 THEN "done" ELSE "cancelled") /\ UNCHANGED <<todo, errors>>
     ELSE /\ UNCHANGED phase
          /\ IF Readable(w.path)
             THEN todo' = Rows(w, Listed(w.path)) \o Tail(todo) /\ UNCHANGED errors
             ELSE todo' = Tail(todo) /\ errors' = errors + 1
  /\ UNCHANGED <<ask, globs, targets, writing, out, world>>

\* emit asks whether anybody reads before the write, and again behind it.
Emit ==
  /\ phase = "list" /\ ~writing /\ todo # <<>> /\ todo[1].do = "show"
  /\ IF open /\ ~aborted
     THEN out' = Append(out, todo[1].path) /\ writing' = TRUE /\ todo' = Tail(todo) /\ UNCHANGED phase
     ELSE phase' = "done" /\ UNCHANGED <<out, writing, todo>>
  /\ UNCHANGED <<ask, globs, targets, errors, world>>

Emitted ==
  /\ writing /\ writing' = FALSE
  /\ phase' = IF open /\ ~aborted THEN phase ELSE "done"
  /\ UNCHANGED <<ask, globs, targets, todo, out, errors, world>>

PassOver ==
  /\ phase = "list" /\ ~writing /\ todo # <<>> /\ todo[1].do = "skip"
  /\ IF aborted THEN phase' = "done" /\ UNCHANGED todo ELSE todo' = Tail(todo) /\ UNCHANGED phase
  /\ UNCHANGED <<ask, globs, targets, writing, out, errors, world>>

Finish ==
  /\ phase = "list" /\ ~writing /\ todo = <<>> /\ phase' = "done"
  /\ UNCHANGED <<ask, globs, targets, todo, writing, out, errors, world>>

-----------------------------------------------------------------------------
(* Meanwhile. *)

At(path, kind) == [p \in DOMAIN tree \cup {path} |-> IF p = path THEN kind ELSE tree[p]]
Change ==
  /\ changes < MaxChanges /\ changes' = changes + 1
  /\ \/ \E p \in DOMAIN tree \ {<<>>} :
          LET left == {q \in DOMAIN tree : ~IsPrefix(p, q)} IN
          tree' = Restrict(tree, left) /\ stood' = stood \cap left
     \/ \E p \in {q \in DOMAIN tree : tree[q] = "dir"}, i \in DOMAIN Order, kind \in {"file", "dir"} :
          /\ Append(p, Order[i]) \notin DOMAIN tree
          /\ tree' = At(Append(p, Order[i]), kind) /\ stood' = stood
  /\ UNCHANGED <<ask, phase, globs, targets, todo, writing, out, errors, open, aborted>>

ReaderLeaves == open /\ open' = FALSE /\ UNCHANGED aborted
Abort        == ~aborted /\ aborted' = TRUE /\ UNCHANGED open

Next ==
  \/ Invoke \/ Glob \/ Stat \/ WalkOne \/ Emit \/ Emitted \/ PassOver \/ Finish
  \/ phase \notin Outcomes /\ Change
  \/ /\ phase \notin Outcomes /\ (ReaderLeaves \/ Abort)
     /\ UNCHANGED <<ask, phase, globs, targets, todo, writing, out, errors, tree, stood, changes>>

Spec == Init /\ [][Next]_childVars

-----------------------------------------------------------------------------
(* What the call means on a tree that nobody changes. *)
Least(m, n) == IF m < n THEN m ELSE n
Shows(name) == ask.force \/ ask.hiddenOnly \/ name \notin Hidden
Meant(name) == Shows(name) /\ (ask.hiddenOnly => name \in Hidden)

Named(nodes) ==
  IF ~Globbed THEN {Path} \cap nodes
  ELSE {p \in nodes : /\ Len(p) = Len(Path)
                      /\ \A i \in DOMAIN p :
                           IF i > Len(ask.at) /\ HasWildcard(Path[i])
                           THEN p[i] \in Meaning[Path[i]] /\ Shows(p[i]) /\ SubSeq(p, 1, i - 1) \notin Locked
                           ELSE p[i] = Path[i]}

Below(dir, nodes) ==
  {p \in nodes :
     /\ IsStrictPrefix(dir, p) /\ Accepts(p, tree[p])
     /\ Len(p) - Len(dir) <= (IF ask.recurse THEN ask.depth ELSE 0) + 1
     /\ \A i \in Len(dir) + 1..Len(p) : Meant(p[i]) /\ SubSeq(p, 1, i - 1) \notin Locked}

Asked(nodes) ==
  IF IncludeIsInert THEN {}
  ELSE UNION {IF tree[t] = "file" \/ (NamesItems /\ ~ask.recurse)
              THEN {p \in {t} : NamesItems => Accepts(p, tree[p])}
              ELSE Below(t, nodes) : t \in Named(nodes)}

Undisturbed == phase = "done" /\ open /\ ~aborted

\* The one thing the code does otherwise: every name of the path is read as a
\* pattern, those of the place it is said from too.
PlaceIsPlain == ~Globbed \/ \A i \in DOMAIN ask.at : ~HasWildcard(ask.at[i])

(* What stood from start to end and was asked for is shown, whatever else came and
   went meanwhile; and if nothing did, that is all, with an error for each
   directory that could not be read. *)
WhatStoodIsListed ==
  Undisturbed /\ PlaceIsPlain =>
    /\ \A asked \in {Asked(stood)} : asked \subseteq Range(out)
    /\ changes = 0 => Range(out) = Asked(stood)

(* No item is shown twice, however the tree moves under the walk. *)
NothingTwice == IsInjective(out)

(* The rows have the shape of the tree: a directory comes before what is below it,
   and what is below it comes in one piece. *)
BlocksAreWhole ==
  \A i, j \in DOMAIN out : i < j =>
    /\ ~IsStrictPrefix(out[j], out[i])
    /\ \A k \in i..j, n \in 0..Least(Len(out[i]), Len(out[j])) - 1 :
         SubSeq(out[i], 1, n) = SubSeq(out[j], 1, n) => IsPrefix(SubSeq(out[i], 1, n), out[k])

(* Directories before files and each by name; and unless a filter makes the walk
   enter each directory at once, the entries of one stand together. *)
SiblingsInOrder ==
  changes = 0 =>
    \A i, j \in DOMAIN out : i < j /\ Front(out[i]) = Front(out[j]) =>
      /\ Before(out[i], out[j])
      /\ ~NamesItems /\ ~ImmediateDescent => \A k \in i..j : Front(out[k]) = Front(out[i])

ChildItemsSound == WhatStoodIsListed /\ NothingTwice /\ BlocksAreWhole /\ SiblingsInOrder

=============================================================================
