---------------------------- MODULE StoreContract ----------------------------
(***************************************************************************)
(* What the browser filesystem promises the shell: a set of mutations that *)
(* grows as they are reported, that survives the tab but for the last one, *)
(* and that a later boot finds again.  From a Reset-FileSystem to the next *)
(* checkpoint nothing is promised to survive.                              *)
(***************************************************************************)
EXTENDS Naturals, FiniteSets

VARIABLES stored,  \* the mutations the user has been told are stored
          phase    \* "down", "booting", "up" or "reset"

cvars == <<stored, phase>>

Shrink(n) == \E lost \in SUBSET stored :
               Cardinality(lost) <= n /\ stored' = stored \ lost

Grow == \E x \in stored' \ stored : stored' = stored \cup {x}

Init == stored = {} /\ phase = "down"

\* A boot starts; nothing is known to be lost by it yet.
Boot == phase = "down" /\ phase' = "booting" /\ UNCHANGED stored

\* The boot ends.  The mutation that was in flight when the last tab died may
\* turn up, though nobody was told.
Up == phase = "booting" /\ phase' = "up" /\ (Grow \/ UNCHANGED stored)

\* The boot itself dies: the promise stops short of it (see BootRepeatable in
\* DurableStore).
BootDies == phase = "booting" /\ phase' = "down" /\ stored' \subseteq stored

\* A mutation is reported.
Report == phase \in {"up", "reset"} /\ Grow /\ UNCHANGED phase

\* A reset is asked for, and completes.
Reset     == phase = "up" /\ phase' = "reset" /\ UNCHANGED stored
ResetDone == phase = "reset" /\ stored' = {} /\ UNCHANGED phase

\* The first checkpoint after it; it may be on behalf of a mutation.
Safe == phase = "reset" /\ phase' = "up" /\ (Grow \/ UNCHANGED stored)

\* The tab dies or closes, or the machine does after it: the last mutation may
\* go with it.
Dies == phase \in {"up", "down"} /\ phase' = "down" /\ Shrink(1)

\* Between a reset and the next checkpoint, anything may.
ResetDies == phase = "reset" /\ phase' = "down" /\ stored' \subseteq stored

CNext == Boot \/ Up \/ BootDies \/ Report \/ Reset \/ ResetDone \/ Safe \/ Dies \/ ResetDies

Contract == Init /\ [][CNext]_cvars
=============================================================================
