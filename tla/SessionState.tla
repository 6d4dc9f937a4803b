---------------------------- MODULE SessionState ----------------------------
(***************************************************************************)
(* The drives that are not files (providers/session-state.ts): Env:,       *)
(* Variable:, Function: and Alias:, each a store of named values.  A name  *)
(* is found in any case and keeps the case it was made with, so the store  *)
(* is two maps.  Operations are asynchronous, and a copy awaits between    *)
(* looking at its source and reading it.                                   *)
(***************************************************************************)
EXTENDS Naturals, FiniteSets, Functions

CONSTANTS
  Names,     \* spellings
  Fold,      \* their lower case: [Names -> a set]
  MaxCopies  \* bound: copies that await their source at once

Values == {"null", "empty", "text"}
Drives == {"Env", "Variable", "Alias"}  \* Function: differs from Env: in its items only

VARIABLES
  drive,      \* the descriptor
  canonical,  \* #canonical: lower case to key
  values,     \* #values: key to value
  copying     \* copies that have found their source: pairs <<from, to>>

sessionVars == <<drive, canonical, values, copying>>

Folds == {Fold[n] : n \in Names}
TypeOK ==
  /\ drive \in Drives /\ copying \subseteq Names \X Names
  /\ DOMAIN canonical \subseteq Folds /\ DOMAIN values \subseteq Names
  /\ \A n \in DOMAIN values : values[n] \in Values

Init == drive \in Drives /\ canonical = <<>> /\ values = <<>> /\ copying = {}

Has(n) == Fold[n] \in DOMAIN canonical
Key(n) == IF Has(n) THEN canonical[Fold[n]] ELSE n
Get(n) == IF Has(n) THEN values[Key(n)] ELSE "null"
With(f, x, v) == [y \in DOMAIN f \cup {x} |-> IF y = x THEN v ELSE f[y]]

\* slip: the value is stored under the spelling it is set with.
StoreAsSpelt(n, value) ==
  /\ canonical' = With(canonical, Fold[n], n)
  /\ values' = With(values, n, value)

\* MapSessionStateStore.set.
Store(n, value) ==
  /\ canonical' = With(canonical, Fold[n], Key(n))
  /\ values' = With(values, Key(n), value)

\* MapSessionStateStore.delete.
Delete(n) ==
  IF Has(n)
  THEN /\ canonical' = Restrict(canonical, DOMAIN canonical \ {Fold[n]})
       /\ values' = Restrict(values, DOMAIN values \ {Key(n)})
  ELSE UNCHANGED <<canonical, values>>

NullRemoves == drive # "Variable"
Accepts(value) == ~(drive = "Alias" /\ value = "empty")

\* setItem.
SetItem(n, value) ==
  /\ Accepts(value)
  /\ IF value = "null" /\ NullRemoves THEN Delete(n) ELSE Store(n, value)

Set(n, value) == SetItem(n, value) /\ UNCHANGED <<drive, copying>>
\* clearContent.
Empty(n) == SetItem(n, "empty") /\ UNCHANGED <<drive, copying>>
New(n, value) == ~Has(n) /\ SetItem(n, value) /\ UNCHANGED <<drive, copying>>
Clear(n) ==
  /\ Has(n) /\ (IF NullRemoves THEN Delete(n) ELSE Store(n, "null"))
  /\ UNCHANGED <<drive, copying>>
Remove(n) == Has(n) /\ Delete(n) /\ UNCHANGED <<drive, copying>>

\* slip: the new name is stored without the old one being taken away.
RenameKeeping(from, to) ==
  /\ Has(from)
  /\ canonical' = With(canonical, Fold[to], to)
  /\ values' = With(values, to, Get(from))
  /\ UNCHANGED <<drive, copying>>

\* renameItem: delete, then set, with no accept and no look at what to names.
Rename(from, to) ==
  /\ Has(from)
  /\ LET folds == Restrict(canonical, DOMAIN canonical \ {Fold[from]})
         left  == Restrict(values, DOMAIN values \ {Key(from)})
         key   == IF Fold[to] \in DOMAIN folds THEN folds[Fold[to]] ELSE to
     IN /\ canonical' = With(folds, Fold[to], key)
        /\ values' = With(left, key, Get(from))
  /\ UNCHANGED <<drive, copying>>

\* copyItem: getItem, and after the await what the name holds by then.
CopyFound(from, to) ==
  /\ Has(from) /\ Cardinality(copying) < MaxCopies /\ copying' = copying \cup {<<from, to>>}
  /\ UNCHANGED <<drive, canonical, values>>
CopyWrite(from, to) ==
  /\ <<from, to>> \in copying /\ copying' = copying \ {<<from, to>>}
  /\ IF Accepts(Get(from)) THEN SetItem(to, Get(from)) ELSE UNCHANGED <<canonical, values>>
  /\ UNCHANGED drive

Next == \E n \in Names :
  \/ \E v \in Values : Set(n, v) \/ New(n, v)
  \/ Empty(n) \/ Clear(n) \/ Remove(n)
  \/ \E m \in Names : Rename(n, m) \/ CopyFound(n, m) \/ CopyWrite(n, m)
Spec == Init /\ [][Next]_sessionVars

-----------------------------------------------------------------------------
(* An item has one name, however many spellings set, renamed, copied or removed
   it: the two maps name the same items and no two keys differ only in case. *)
OneNameEach ==
  /\ \A f \in DOMAIN canonical : canonical[f] \in DOMAIN values /\ Fold[canonical[f]] = f
  /\ \A n \in DOMAIN values : Fold[n] \in DOMAIN canonical /\ canonical[Fold[n]] = n

(* What the descriptor would refuse is never stored, also by the operations that
   do not ask it: no alias is empty, and only a variable is null. *)
OnlyAccepted ==
  \A n \in DOMAIN values : Accepts(values[n]) /\ (NullRemoves => values[n] # "null")

SessionSound == OneNameEach /\ OnlyAccepted
=============================================================================
