------------------------------ MODULE WireCopy ------------------------------
(***************************************************************************)
(* The copy a value is sent as (kernel/wire.ts, copy): one walk over a     *)
(* graph that may share and may be cyclic, with a memo from source to      *)
(* copy, a limit on depth and one on nodes.  It runs to its end in one     *)
(* turn; a step here is one property or element.                           *)
(*                                                                         *)
(* A slot holds "text" (any primitive), "closure" (anything the boundary   *)
(* refuses) or a node: an "array", a "bag" of properties, or an "object",  *)
(* a PSObject whose slots are its type names and its bag and whose         *)
(* baseObject, if it has one, is left behind.                              *)
(***************************************************************************)
EXTENDS Naturals, Sequences, FiniteSets, SequencesExt

CONSTANTS
  Nodes,
  Graphs,    \* functions from Nodes to [kind, slots, base]
  Root,
  MaxNodes,  \* limits.maxNodes
  MaxDepth   \* limits.maxDepth

VARIABLES
  graph,
  memo,    \* state.memo: per source node, its copy as far as it has come
  stack,   \* the calls of copy that are open: [node, depth]
  charged, \* state.nodes
  outcome  \* "walking", "sent" or "refused"

wireVars == <<graph, memo, stack, charged, outcome>>

TypeOK ==
  /\ DOMAIN memo \subseteq Nodes /\ charged \in 0..(MaxNodes + 1)
  /\ \A i \in DOMAIN stack : stack[i].node \in DOMAIN memo
  /\ outcome \in {"walking", "sent", "refused"}

\* refuseIfEmptiedByTheDrop.
Emptied(g, n) == g[n].kind = "object" /\ g[n].base /\ g[g[n].slots[2]].slots = <<>>

Init ==
  /\ graph \in Graphs /\ outcome = IF Emptied(graph, Root) THEN "refused" ELSE "walking"
  /\ memo = [n \in {Root} |-> <<>>] /\ stack = <<[node |-> Root, depth |-> 0]>> /\ charged = 1

Top == Last(stack)
Open == outcome = "walking" /\ stack # <<>>
Unread == Open /\ Len(memo[Top.node]) < Len(graph[Top.node].slots)
Slot == graph[Top.node].slots[Len(memo[Top.node]) + 1]
Refuse == outcome' = "refused" /\ UNCHANGED <<graph, memo, stack, charged>>
Fills == [memo EXCEPT ![Top.node] = Append(@, Slot)]

\* charge: one more node, or an error.
Charged == IF charged >= MaxNodes THEN Refuse
           ELSE charged' = charged + 1 /\ UNCHANGED <<graph, outcome>>

Primitive ==
  /\ Unread /\ Slot = "text"
  /\ Charged
  /\ charged < MaxNodes => memo' = Fills /\ UNCHANGED stack

Closure == Unread /\ Slot = "closure" /\ Refuse

\* A node that has a copy, finished or not.
Seen ==
  /\ Unread /\ Slot \in DOMAIN memo
  /\ memo' = Fills /\ UNCHANGED <<graph, stack, charged, outcome>>

\* copyArray and copyBag, called for a PSObject's own parts, do not look at the depth.
TooDeep == Top.depth + 1 >= MaxDepth /\ graph[Top.node].kind # "object"

\* slip: only a copy that is still open is looked up, so a shared node is sent twice.
EnterAgain ==
  /\ Unread /\ Slot \in Nodes \ {stack[i].node : i \in DOMAIN stack}
  /\ IF TooDeep \/ Emptied(graph, Slot) THEN Refuse
     ELSE /\ Charged
          /\ charged < MaxNodes =>
               /\ memo' = [n \in DOMAIN memo \cup {Slot} |-> IF n = Slot THEN <<>> ELSE Fills[n]]
               /\ stack' = Append(stack, [node |-> Slot, depth |-> Top.depth + 1])

\* The copy enters the memo before anything in it is copied.
Enter ==
  /\ Unread /\ Slot \in Nodes \ DOMAIN memo
  /\ IF TooDeep \/ Emptied(graph, Slot) THEN Refuse
     ELSE /\ Charged
          /\ charged < MaxNodes =>
               /\ memo' = [n \in DOMAIN memo \cup {Slot} |-> IF n = Slot THEN <<>> ELSE Fills[n]]
               /\ stack' = Append(stack, [node |-> Slot, depth |-> Top.depth + 1])

Leave ==
  /\ Open /\ ~Unread /\ stack' = Front(stack)
  /\ outcome' = IF Len(stack) = 1 THEN "sent" ELSE "walking"
  /\ UNCHANGED <<graph, memo, charged>>

Next == Primitive \/ Closure \/ Seen \/ Enter \/ Leave
Spec == Init /\ [][Next]_wireVars /\ WF_wireVars(Next)

-----------------------------------------------------------------------------
\* What the walk can come to: all that is in every set of nodes that holds the root
\* and whatever its nodes hold.
Closed(S) == \A n \in S : ToSet(graph[n].slots) \cap Nodes \subseteq S
Reached   == {n \in Nodes : \A S \in SUBSET Nodes : Root \in S /\ Closed(S) => n \in S}

\* What is charged for: each node, and each primitive in it.
Texts(n) == {i \in DOMAIN graph[n].slots : graph[n].slots[i] = "text"}
Size     == Cardinality(UNION {{n} \X ({0} \cup Texts(n)) : n \in Reached})

(* What arrives is the graph that was sent: every node once, shared where it was
   shared and cyclic where it was cyclic, with nothing left unfilled and no
   PSObject that lost all it had with its baseObject. *)
ArrivesWhole ==
  outcome = "sent" =>
    /\ DOMAIN memo = Reached
    /\ \A n \in Reached : memo[n] = graph[n].slots /\ ~Emptied(graph, n)

(* A value is refused for a reason: something in it cannot be sent, a PSObject
   would arrive empty, or it is too large or may be nested too deep - never
   because it shares or refers to itself, and a shared node is charged once. *)
RefusedForAReason ==
  outcome = "refused" =>
    \/ \E n \in Reached : "closure" \in ToSet(graph[n].slots) \/ Emptied(graph, n)
    \/ Size > MaxNodes
    \/ Cardinality(Reached) > MaxDepth

WireSound == ArrivesWhole /\ RefusedForAReason

(* Where every behaviour ends up: the walk ends, whatever the value. *)
Ended == outcome # "walking"
=============================================================================
