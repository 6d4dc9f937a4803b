---------------------------- MODULE VirtualPaths ----------------------------
(***************************************************************************)
(* storage/vfs.ts: what a path means where the prompt stands.  A path may  *)
(* begin with the separator, with ~, with the name of a drive, or with     *)
(* none of them.                                                           *)
(*                                                                         *)
(* A written path is what it begins with and what stands between its       *)
(* separators, "" and the dots included; a name with a backslash in it is  *)
(* one name on the filesystem and two where a drive is named.              *)
(***************************************************************************)
EXTENDS Naturals, Sequences, SequencesExt, Functions

CONSTANTS
  Starts,     \* what a path may begin with: "", "/", "~" and spellings of drives
  Segments,   \* what may stand between separators
  Drives,     \* the canonical name of each spelling of a drive there is
  Looks,      \* names that look like a drive and the rest, each with the two
  Backslash,  \* names with a backslash in them, each with the two it parts
  Home,       \* the home directory
  PathMax,    \* names and separators in a path
  MaxDepth    \* how deep the prompt goes

VARIABLE cwd  \* a resolved path

FILESYSTEM_DRIVE == "/"

\* Head # "" but in the empty path: a leading separator is a beginning.
Bodies == SeqOf(Segments, 2) \ {<<>>}
Written ==
  {w \in [start : Starts, segs : Bodies] : w.start = "" => Head(w.segs) # "" \/ w.segs = <<"">>}
  \cup {[start |-> "~", segs |-> <<>>]}

TypeOK == cwd.drive \in Range(Drives) \cup {FILESYSTEM_DRIVE} /\ cwd.path \in Seq(STRING)

-----------------------------------------------------------------------------
Blank(s) == s \in {"", "."}

\* slip: a .. at the root is a name.
WalkedOut(segs) ==
  FoldLeft(LAMBDA w, s : IF Blank(s) THEN w
                         ELSE IF s = ".." /\ w.path # <<>> THEN [w EXCEPT !.path = Front(@)]
                         ELSE [w EXCEPT !.path = Append(@, s)],
           [path |-> <<>>, clamped |-> FALSE], segs)

\* normalizeTracked: .. at the root is dropped, and told.
Walked(segs) ==
  FoldLeft(LAMBDA w, s : IF Blank(s) THEN w
                         ELSE IF s # ".." THEN [w EXCEPT !.path = Append(@, s)]
                         ELSE IF w.path = <<>> THEN [w EXCEPT !.clamped = TRUE]
                         ELSE [w EXCEPT !.path = Front(@)],
           [path |-> <<>>, clamped |-> FALSE], segs)

\* "The absolute right-hand side wins outright", and is normalised at once.
StartsAbsolute(segs) == Len(segs) > 1 /\ Head(segs) = ""
JoinPath(left, segs) == IF StartsAbsolute(segs) THEN Walked(segs).path ELSE left \o segs

Refused == [ok |-> FALSE]

\* resolvePath's finish, with validatePath, on what has not been walked yet.
Finish(drive, raw) ==
  IF Len(raw) > PathMax \/ "nul" \in Range(raw) THEN Refused
  ELSE [ok |-> TRUE, drive |-> drive, path |-> Walked(raw).path, clamped |-> Walked(raw).clamped]

\* Where a drive is named both separators part names.
Parted(segs) == FlattenSeq([i \in DOMAIN segs |-> IF segs[i] \in DOMAIN Backslash THEN Backslash[segs[i]]
                                                  ELSE <<segs[i]>>])

\* parsePath: a first name that looks like a drive is one.
Parse(w) ==
  IF w.start = "" /\ Head(w.segs) \in DOMAIN Looks
  THEN [start |-> Looks[Head(w.segs)][1], segs |-> <<Looks[Head(w.segs)][2]>> \o Tail(w.segs)]
  ELSE w

\* slip: a path without a drive is one on the filesystem.
ResolveOnFiles(at, w) ==
  LET p == Parse(w) IN
  CASE p.start = "" /\ p.segs = <<"">>         -> Refused
    [] p.start = "" /\ p.segs # <<"">>         -> Finish(FILESYSTEM_DRIVE, JoinPath(at.path, p.segs))
    [] p.start = "/"                           -> Finish(FILESYSTEM_DRIVE, p.segs)
    [] p.start = "~"                           -> Finish(FILESYSTEM_DRIVE, JoinPath(Home, p.segs))
    [] p.start \in DOMAIN Drives               -> Finish(Drives[p.start], Parted(p.segs))
    [] OTHER                                   -> Refused

\* resolvePath.
Resolve(at, w) ==
  LET p == Parse(w) IN
  CASE p.start = "" /\ p.segs = <<"">>         -> Refused
    [] p.start = "" /\ p.segs # <<"">>         -> Finish(at.drive, JoinPath(at.path, p.segs))
    [] p.start = "/"                           -> Finish(FILESYSTEM_DRIVE, p.segs)
    [] p.start = "~"                           -> Finish(FILESYSTEM_DRIVE, JoinPath(Home, p.segs))
    [] p.start \in DOMAIN Drives               -> Finish(Drives[p.start], Parted(p.segs))
    [] OTHER                                   -> Refused

\* formatResolved.
Full(r) ==
  LET body == IF r.path = <<>> THEN <<"">> ELSE r.path IN
  IF r.drive = FILESYSTEM_DRIVE THEN [start |-> "/", segs |-> body] ELSE [start |-> r.drive, segs |-> <<"">> \o body]

\* joinPath of what is written.
EndsAbsolute(w) == w.segs # <<>> /\ Last(w.segs) = "" /\ (w.start \in DOMAIN Drives => Len(w.segs) > 1)
Join(a, b) ==
  CASE b.start = "/"                                -> [start |-> "/", segs |-> IF Walked(b.segs).path = <<>> THEN <<"">>
                                                                                ELSE Walked(b.segs).path]
    [] b.start # "/" /\ a = [start |-> "", segs |-> <<"">>] -> b
    [] OTHER -> [a EXCEPT !.segs = (IF EndsAbsolute(a) THEN Front(@) ELSE @) \o b.segs]

Init == cwd = [ok |-> TRUE, drive |-> FILESYSTEM_DRIVE, path |-> Home, clamped |-> FALSE]

\* Set-Location to a place that is there.
Go(w) ==
  /\ Resolve(cwd, w).ok /\ Len(Resolve(cwd, w).path) <= MaxDepth
  /\ cwd' = Resolve(cwd, w)

Next == \E w \in Written : Go(w)
Spec == Init /\ [][Next]_cwd

-----------------------------------------------------------------------------
Resolved == {r \in {Resolve(cwd, w) : w \in Written} : r.ok}

(* Wherever the prompt stands, what a path resolves to is under a root, with no dot
   left in it; that a .. was dropped is told if and only if there was one more of
   them than names before it. *)
UnderARoot ==
  \A w \in Written : LET r == Resolve(cwd, w) IN
    r.ok => /\ \A s \in Range(r.path) : ~Blank(s) /\ s # ".."
            /\ w.start = "/" =>
                 (r.clamped <=> \E i \in DOMAIN w.segs : LET first == SubSeq(w.segs, 1, i) IN
                    Len(SelectSeq(first, LAMBDA s : s = ".."))
                      > Len(SelectSeq(first, LAMBDA s : ~Blank(s) /\ s # "..")))

(* What is shown of a place names that place from anywhere: but for a name with a
   backslash on a drive, which parts when it is read again. *)
FullNamesThePlace ==
  \A r \in Resolved :
    (r.drive = FILESYSTEM_DRIVE \/ Range(r.path) \cap DOMAIN Backslash = {})
    => LET again == Resolve(cwd, Full(r)) IN
       again.ok => again.drive = r.drive /\ again.path = r.path

(* "A path can be assembled in pieces without the pieces changing the answer": when
   the second piece names neither a drive nor home, and no name parts.  Nor is it
   forgotten that a .. was dropped, but after ~//. *)
InPieces ==
  \A a, b \in Written :
    Len(b.segs) = 1 =>
    LET one == Resolve(cwd, a)
        two == Resolve(one, b)
        all == Resolve(cwd, Join(a, b))
    IN /\ b.start \in {"", "/"} /\ Head(b.segs) \notin DOMAIN Looks
       /\ Range(b.segs) \cap DOMAIN Backslash = {}
       /\ one.ok /\ two.ok /\ all.ok
       => /\ all.drive = two.drive /\ all.path = two.path
          /\ b.start = "" /\ a.start # "~" => all.clamped = (one.clamped \/ two.clamped)

PathsSound == UnderARoot /\ FullNamesThePlace /\ InPieces
=============================================================================
