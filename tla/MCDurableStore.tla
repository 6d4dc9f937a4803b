--------------------------- MODULE MCDurableStore ---------------------------
(***************************************************************************)
(* The durable store seen through the promise it makes to the shell.       *)
(***************************************************************************)
EXTENDS DurableStore

Phase == IF pc = "down" THEN "down"
         ELSE IF Booting THEN "booting"
         ELSE IF Steady THEN "up" ELSE "reset"

Promise == INSTANCE StoreContract WITH stored <- acked, phase <- Phase

\* OpfsStorage implements the contract: mutations are reported one at a time, a
\* death costs at most the last, and the next boot brings back the rest, as long
\* as neither a boot nor a reset is what died.
ImplementsContract == Promise!Contract
=============================================================================
