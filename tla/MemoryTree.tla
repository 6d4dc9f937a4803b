----------------------------- MODULE MemoryTree -----------------------------
(***************************************************************************)
(* The in-memory backend (memory.ts).  Every mutation is planned against   *)
(* the tree, journalled, applied and committed under one mutex; a later    *)
(* boot replays the committed plans with the same apply.                   *)
(***************************************************************************)
EXTENDS TreeOps

CONSTANTS
  Capacity,  \* bytes
  Seeds,     \* the trees the behaviours start from
  MaxPlans   \* bound: plans

VARIABLES
  tree,      \* the nodes under the root, by path
  used,      \* #used
  flying,    \* plans begun and not finished, with how far each has come
  rebuilt,   \* what replaying the committed plans gives
  lost,      \* a plan was applied and its commit record was not written
  plans      \* counter

treeVars == <<tree, used, flying, rebuilt, lost, plans>>

TypeOK ==
  /\ \A p \in DOMAIN tree :
       /\ tree[p].kind \in {"file", "dir"} /\ Allows(tree[p]) \subseteq rwx
       /\ tree[p].origin \in {"seed", "user"} /\ tree[p].mine \in BOOLEAN
  /\ used \in Nat /\ lost \in BOOLEAN /\ plans \in 0..MaxPlans
  /\ \A f \in flying : f.at \in {"planned", "applied"}

-----------------------------------------------------------------------------
Init ==
  /\ tree \in Seeds /\ used = UsedBytes(tree) /\ rebuilt = tree
  /\ flying = {} /\ lost = FALSE /\ plans = 0

\* slip: the operation is not serialised.
BeginUnlocked(r) ==
  LET plan == Planned(tree, r) IN
  /\ plans < MaxPlans /\ Cardinality(flying) < 2
  /\ plan.ok /\ ~(plan.delta > 0 /\ used + plan.delta > Capacity)
  /\ plans' = plans + 1
  /\ flying' = flying \cup {[id |-> plans, at |-> "planned", req |-> r, plan |-> plan]}
  /\ UNCHANGED <<tree, used, rebuilt, lost>>

\* #serialise, the planner and #checkCapacity; a refusal changes nothing.
Begin(r) ==
  LET plan == Planned(tree, r) IN
  /\ plans < MaxPlans /\ flying = {}
  /\ plan.ok /\ ~(plan.delta > 0 /\ used + plan.delta > Capacity)
  /\ plans' = plans + 1
  /\ flying' = {[id |-> plans, at |-> "planned", req |-> r, plan |-> plan]}
  /\ UNCHANGED <<tree, used, rebuilt, lost>>

\* journal.write answered: apply, in the same turn.
Apply(f) ==
  LET done == Applied(tree, used, f.plan.steps) IN
  /\ f.at = "planned"
  /\ tree' = done.tree /\ used' = done.used
  /\ flying' = IF done.ok THEN (flying \ {f}) \cup {[f EXCEPT !.at = "applied"]} ELSE flying \ {f}
  /\ UNCHANGED <<rebuilt, lost, plans>>

WriteFails(f) ==
  /\ f.at = "planned" /\ flying' = flying \ {f}
  /\ UNCHANGED <<tree, used, rebuilt, lost, plans>>

\* journal.commit answered.  What a boot would make of the log by now: a plan
\* that does not apply to what its predecessors left ends the replay.
Commit(f) ==
  LET again == Applied(rebuilt, 0, f.plan.steps) IN
  /\ f.at = "applied" /\ flying' = flying \ {f}
  /\ rebuilt' = again.tree
  /\ UNCHANGED <<tree, used, lost, plans>>

CommitFails(f) ==
  /\ f.at = "applied" /\ flying' = flying \ {f} /\ lost' = TRUE
  /\ UNCHANGED <<tree, used, rebuilt, plans>>

\* reset() also takes its turn.
Reset ==
  /\ flying = {} /\ plans < MaxPlans /\ plans' = plans + 1
  /\ tree' = <<>> /\ used' = 0 /\ rebuilt' = <<>>
  /\ UNCHANGED <<flying, lost>>

Next ==
  \/ \E r \in Requests : Begin(r)
  \/ \E f \in flying : Apply(f) \/ WriteFails(f) \/ Commit(f) \/ CommitFails(f)
  \/ Reset
Spec == Init /\ [][Next]_treeVars

-----------------------------------------------------------------------------
(* Every node hangs under directories, and #used, which is only ever adjusted
   step by step, is what a walk of the tree would count. *)
TreeIsWhole ==
  /\ \A p \in DOMAIN tree : p # <<>> /\ IsDir(tree, Parent(p))
  /\ used = UsedBytes(tree)

(* #checkCapacity looks at a plan's byteDelta before the plan is applied: no
   sequence of overwriting, copying and renaming gets past the quota. *)
WithinCapacity == used <= Capacity

(* "Through this class's public API" a plan is never stale: a plan that was
   made always applies to the end, whatever it is made of. *)
PlansAlwaysApply ==
  \A f \in flying : f.at = "planned" => Applied(tree, used, f.plan.steps).ok

(* Replaying the committed plans gives the tree there is, as long as every
   plan that was applied got its commit record; a plan in flight is in it as a
   whole or not at all. *)
ReplayRebuilds ==
  ~lost => \/ rebuilt = tree
           \/ \E f \in flying : f.at = "applied" /\ Applied(rebuilt, 0, f.plan.steps).tree = tree

TreeSound == TreeIsWhole /\ WithinCapacity /\ PlansAlwaysApply /\ ReplayRebuilds

(* What a request may touch: what it names, and the directories on the way
   when it creates them. *)
Scope(r) ==
  {r.path} \cup (IF r.op \in {"rename", "copy"} THEN {r.to} ELSE {})
InScope(p, r) ==
  \E q \in Scope(r) : p = q \/ Descends(p, q) \/ (r.how = "parents" /\ Descends(q, p))
EffectIsLocal ==
  \A f \in flying :
    f.at = "planned" /\ f \notin flying' =>
      \A p \in DOMAIN tree \cup DOMAIN tree' : ~InScope(p, f.req)
        => /\ p \in DOMAIN tree /\ p \in DOMAIN tree' /\ tree[p] = tree'[p]

(* A directory this user cannot write, or cannot search, keeps its entries: no
   recursive copy or removal, and no move but that of something above it,
   reaches past the check of one level. *)
ReadOnlyDirectoryKeepsItsEntries ==
  \A f \in flying :
    f.at = "planned" /\ f \notin flying' =>
      \A d \in DOMAIN tree :
        /\ tree[d].kind = "dir" /\ ~Can(tree, d, {"w", "x"})
        /\ ~(f.req.op = "rename" /\ d \in {f.req.to} \cup Family(tree, f.req.path))
        => Children(tree, d) = Children(tree', d)

(* Bytes this user cannot read are never copied to where they can be. *)
UnreadableStaysUnread ==
  \A f \in flying :
    f.at = "planned" /\ f \notin flying' /\ f.req.op = "copy" =>
      \A q \in Family(tree, f.req.path) :
        tree[q].kind = "file" /\ "r" \notin Allows(tree[q]) => tree' = tree

(* A copy leaves, for every node of its source, a node of the same kind and
   content, with the source's mode wherever it is new. *)
CopyIsFaithful ==
  \A f \in flying :
    f.at = "planned" /\ [f EXCEPT !.at = "applied"] \in flying' /\ f.req.op = "copy" =>
      \A q \in Family(tree, f.req.path) :
        LET t == Rebased(q, f.req.path, f.req.to) IN
        /\ t \in DOMAIN tree'
        /\ tree'[t].kind = tree[q].kind /\ tree'[t].data = tree[q].data
        /\ t \notin DOMAIN tree => tree'[t].own = tree[q].own

TreeSteps ==
  /\ EffectIsLocal /\ ReadOnlyDirectoryKeepsItsEntries
  /\ UnreadableStaysUnread /\ CopyIsFaithful
=============================================================================
