---------------------------- MODULE Capabilities ----------------------------
(***************************************************************************)
(* The capability broker and its audit log (kernel/capabilities.ts).  A    *)
(* command asks for a capability its manifest declares; the broker decides *)
(* from the grants of the embedder and from the simulated policy, which    *)
(* any command may elevate for all.  A listener of the log is called while *)
(* its record is being appended, and may make a command ask again.         *)
(***************************************************************************)
EXTENDS Naturals, Sequences, SequencesExt, FiniteSets

CONSTANTS
  Manifests, \* [capabilities, audited, simulated]: RISK_AUDITED[risk] is audited
  Grants,    \* the grants the broker was made with
  Real,      \* CAPABILITY_REALITY
  Audited,   \* CAPABILITY_AUDITED
  Elevate,   \* "virtual.policy.elevate"
  Confers,   \* ELEVATION_CONFERS: virtual capabilities, none in the source
  MaxAsked   \* bound: questions

VARIABLES
  elevated, \* VirtualPolicy.#elevated
  records,  \* AuditLog.#records
  open,     \* calls that are appending: the asks a listener has not returned to
  outcomes  \* ghost: how each call of require or elevate ended, in order

capabilityVars == <<elevated, records, open, outcomes>>

Asked == Len(outcomes) + Len(open)
Decisions == {"granted", "undeclared", "not-granted", "not-transferable"}

TypeOK ==
  /\ elevated \in BOOLEAN /\ Asked \in 0..MaxAsked
  /\ \A i \in DOMAIN records : records[i].decision \in Decisions /\ records[i].real \in BOOLEAN

Init == elevated = FALSE /\ records = <<>> /\ open = <<>> /\ outcomes = <<>>

\* slip: while the policy is elevated, everything declared is granted.
EffectiveGrantsOfRoot == IF elevated THEN Grants \cup Real ELSE Grants

\* #effectiveGrants.
EffectiveGrants == IF elevated THEN Grants \cup Confers ELSE Grants

Evaluate(m, c) ==
  IF c \notin m.capabilities THEN "undeclared"
  ELSE IF c \in EffectiveGrants THEN "granted"
  ELSE IF elevated /\ c \in Real THEN "not-transferable" ELSE "not-granted"

\* slip: a refusal is recorded only where a grant would be.
ShouldAuditUses(m, c, decision) == c \in Audited \/ m.audited

ShouldAudit(m, c, decision) == decision # "granted" \/ c \in Audited \/ m.audited

\* require and elevate, up to the listeners of the record.
Ask(m, c) ==
  LET decision == Evaluate(m, c)
      ask == [by |-> m, of |-> c, decision |-> decision]
  IN /\ Asked < MaxAsked
     /\ IF ShouldAudit(m, c, decision)
        THEN /\ records' = Append(records, [ask |-> ask, decision |-> decision,
                             real |-> decision = "granted" /\ c \in Real /\ ~m.simulated])
             /\ open' = Append(open, ask) /\ UNCHANGED <<elevated, outcomes>>
        ELSE /\ outcomes' = Append(outcomes, ask)
             /\ elevated' = (elevated \/ (c = Elevate /\ decision = "granted"))
             /\ UNCHANGED <<records, open>>

\* The listeners have returned: the newest call throws, returns or elevates.
Return ==
  /\ open # <<>> /\ open' = Front(open)
  /\ outcomes' = Append(outcomes, Last(open))
  /\ elevated' = (elevated \/ (Last(open).of = Elevate /\ Last(open).decision = "granted"))
  /\ UNCHANGED records

\* drop, by the embedder.
Drop == elevated /\ elevated' = FALSE /\ UNCHANGED <<records, open, outcomes>>

Next == (\E m \in Manifests : \E c \in Real \cup {Elevate} : Ask(m, c)) \/ Return \/ Drop
Spec == Init /\ [][Next]_capabilityVars

-----------------------------------------------------------------------------
Count(seq, ask) == Cardinality({i \in DOMAIN seq : seq[i] = ask})
Recorded == [i \in DOMAIN records |-> records[i].ask]

(* Nothing that matters happens off the record: every refusal, and every use of
   an audited capability or by an audited command, is on it exactly once, also
   when a listener of one record causes the next. *)
OnTheRecord ==
  \A ask \in ToSet(outcomes) \cup ToSet(open) \cup ToSet(Recorded) :
    (ask.decision # "granted" \/ ask.of \in Audited \/ ask.by.audited)
      => Count(Recorded, ask) = Count(outcomes, ask) + Count(open, ask)

(* Simulated elevation opens nothing real: a real capability is granted only to
   a command that declares it, by a broker that was given it. *)
ElevationOpensNothing ==
  \A i \in DOMAIN outcomes :
    outcomes[i].decision = "granted" /\ outcomes[i].of \in Real
      => outcomes[i].of \in Grants \cap outcomes[i].by.capabilities

CapabilitiesSound == OnTheRecord /\ ElevationOpensNothing
=============================================================================
