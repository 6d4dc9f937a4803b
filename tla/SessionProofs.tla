---------------------------- MODULE SessionProofs ----------------------------
(***************************************************************************)
(* Proofs about what a session keeps beside its processes, one part after  *)
(* the other: the drives that are not files (SessionState), the buffers of *)
(* its jobs (JobBuffers), the audit log (Capabilities), the stream of      *)
(* escapes its terminal reads (AnsiStream), the page it shows              *)
(* (TerminalScreen) and the prompt's line, its history and the field       *)
(* before it (LineEditor, TextareaInput).                                  *)
(***************************************************************************)
EXTENDS Integers, Sequences, FiniteSets, SequenceTheorems, FiniteSetTheorems, WellFoundedInduction,
        TLAPS

-----------------------------------------------------------------------------
(* The drives that are not files, for any spellings.                       *)

CONSTANTS Names, Fold, MaxCopies
VARIABLES drive, canonical, values, copying
Session == INSTANCE SessionState

\* An item is found under its folded name, and both maps are of it.
SessionInv ==
  /\ drive \in Session!Drives /\ copying \subseteq Names \X Names
  /\ canonical \in [DOMAIN canonical -> Names] /\ DOMAIN canonical \subseteq Session!Folds
  /\ values \in [DOMAIN values -> Session!Values] /\ DOMAIN values \subseteq Names
  /\ Session!SessionSound

\* An item that is there has one key, in both maps, and a value that is accepted.
LEMMA FoundIs ==
  ASSUME SessionInv, NEW n \in Names, Session!Has(n)
  PROVE  /\ Session!Key(n) \in DOMAIN values /\ Session!Key(n) \in Names
         /\ Fold[Session!Key(n)] = Fold[n]
         /\ Session!Get(n) = values[Session!Key(n)] /\ Session!Get(n) \in Session!Values
         /\ Session!Accepts(Session!Get(n))
         /\ Session!NullRemoves => Session!Get(n) # "null"
<1>1. Session!Key(n) = canonical[Fold[n]] /\ Fold[n] \in DOMAIN canonical
  BY DEF Session!Has, Session!Key
<1>2. Session!Key(n) \in DOMAIN values /\ Fold[Session!Key(n)] = Fold[n]
  BY <1>1 DEF SessionInv, Session!SessionSound, Session!OneNameEach
<1>3. Session!Get(n) = values[Session!Key(n)]
  BY DEF Session!Get
<1>4. QED
  BY <1>2, <1>3 DEF SessionInv, Session!SessionSound, Session!OnlyAccepted

\* A value that is accepted may be stored under any spelling.
LEMMA StoreKeeps ==
  ASSUME SessionInv, NEW n \in Names, NEW v \in Session!Values, Session!Accepts(v),
         Session!NullRemoves => v # "null", Session!Store(n, v), drive' = drive,
         copying' \subseteq Names \X Names
  PROVE  SessionInv'
<1> DEFINE k == Session!Key(n)
<1>1. k \in Names /\ Fold[k] = Fold[n] /\ Fold[n] \in Session!Folds
  BY FoundIs DEF Session!Key, Session!Folds
<1>2. Session!Has(n) => canonical[Fold[n]] = k
  BY DEF Session!Key
<1>3. ~Session!Has(n) => k \notin DOMAIN values
  BY <1>1 DEF Session!Has, SessionInv, Session!SessionSound, Session!OneNameEach
<1> HIDE DEF k
<1>4. canonical' = Session!With(canonical, Fold[n], k) /\ values' = Session!With(values, k, v)
  BY DEF Session!Store, k
<1>5. /\ DOMAIN canonical' = DOMAIN canonical \cup {Fold[n]} /\ canonical'[Fold[n]] = k
      /\ \A f \in DOMAIN canonical \ {Fold[n]} : canonical'[f] = canonical[f]
      /\ canonical' = [f \in DOMAIN canonical' |-> canonical'[f]]
  BY <1>4 DEF Session!With
<1>6. /\ DOMAIN values' = DOMAIN values \cup {k} /\ values'[k] = v
      /\ \A m \in DOMAIN values \ {k} : values'[m] = values[m]
      /\ values' = [m \in DOMAIN values' |-> values'[m]]
  BY <1>4 DEF Session!With
<1>7. canonical' \in [DOMAIN canonical' -> Names] /\ values' \in [DOMAIN values' -> Session!Values]
  BY <1>1, <1>5, <1>6 DEF SessionInv
<1>8. Session!OneNameEach'
  BY <1>1, <1>2, <1>3, <1>5, <1>6 DEF SessionInv, Session!SessionSound,
     Session!OneNameEach, Session!Has
<1>9. Session!OnlyAccepted'
  BY <1>6 DEF SessionInv, Session!SessionSound, Session!OnlyAccepted, Session!Accepts,
     Session!NullRemoves
<1>10. QED
  BY <1>1, <1>5, <1>6, <1>7, <1>8, <1>9 DEF SessionInv, Session!SessionSound

\* An item that is there may be taken away.
LEMMA DeleteKeeps ==
  ASSUME SessionInv, NEW n \in Names, Session!Delete(n), drive' = drive,
         copying' \subseteq Names \X Names
  PROVE  SessionInv'
<1>1. CASE Session!Has(n)
  <2> DEFINE k == Session!Key(n)
  <2>1. k \in Names /\ k = canonical[Fold[n]] /\ Fold[n] \in DOMAIN canonical
    BY <1>1, FoundIs DEF Session!Key, Session!Has
  <2> HIDE DEF k
  <2>2. /\ canonical' = Session!Restrict(canonical, DOMAIN canonical \ {Fold[n]})
        /\ values' = Session!Restrict(values, DOMAIN values \ {k})
    BY <1>1 DEF Session!Delete, k
  <2>3. /\ DOMAIN canonical' = DOMAIN canonical \ {Fold[n]}
        /\ \A f \in DOMAIN canonical' : canonical'[f] = canonical[f]
        /\ DOMAIN values' = DOMAIN values \ {k}
        /\ \A m \in DOMAIN values' : values'[m] = values[m]
        /\ canonical' = [f \in DOMAIN canonical' |-> canonical'[f]]
        /\ values' = [m \in DOMAIN values' |-> values'[m]]
    BY <2>2 DEF Session!Restrict
  <2>4. canonical' \in [DOMAIN canonical' -> Names] /\ values' \in [DOMAIN values' -> Session!Values]
    BY <2>3 DEF SessionInv
  <2>5. Session!OneNameEach'
    BY <2>1, <2>3 DEF SessionInv, Session!SessionSound, Session!OneNameEach
  <2>6. Session!OnlyAccepted'
    BY <2>3 DEF SessionInv, Session!SessionSound, Session!OnlyAccepted, Session!Accepts,
       Session!NullRemoves
  <2>7. QED
    BY <2>3, <2>4, <2>5, <2>6 DEF SessionInv, Session!SessionSound
<1>2. CASE ~Session!Has(n)
  BY <1>2 DEF Session!Delete, SessionInv, Session!SessionSound, Session!OneNameEach,
     Session!OnlyAccepted, Session!Accepts, Session!NullRemoves
<1>3. QED
  BY <1>1, <1>2

\* setItem, with any value.
LEMMA SetItemKeeps ==
  ASSUME SessionInv, NEW n \in Names, NEW v \in Session!Values, Session!SetItem(n, v),
         drive' = drive, copying' \subseteq Names \X Names
  PROVE  SessionInv'
BY StoreKeeps, DeleteKeeps DEF Session!SetItem

\* renameItem: the value moves to the name it is given, or to the item that has it.
LEMMA RenameKeeps ==
  ASSUME SessionInv, NEW from \in Names, NEW to \in Names, Session!Rename(from, to)
  PROVE  SessionInv'
<1> DEFINE folds == Session!Restrict(canonical, DOMAIN canonical \ {Fold[from]})
           left  == Session!Restrict(values, DOMAIN values \ {Session!Key(from)})
           old   == Session!Key(from)
           key   == IF Fold[to] \in DOMAIN folds THEN folds[Fold[to]] ELSE to
           v     == Session!Get(from)
<1>1. /\ Session!Has(from) /\ drive' = drive /\ copying' = copying
      /\ canonical' = Session!With(folds, Fold[to], key)
      /\ values' = Session!With(left, key, v)
  BY DEF Session!Rename
<1>2. /\ old \in Names /\ old = canonical[Fold[from]] /\ Fold[from] \in DOMAIN canonical
      /\ v \in Session!Values /\ Session!Accepts(v) /\ (Session!NullRemoves => v # "null")
  BY <1>1, FoundIs DEF Session!Key, Session!Has
<1>3. /\ DOMAIN folds = DOMAIN canonical \ {Fold[from]}
      /\ \A f \in DOMAIN folds : folds[f] = canonical[f]
      /\ DOMAIN left = DOMAIN values \ {old}
      /\ \A m \in DOMAIN left : left[m] = values[m]
  BY DEF Session!Restrict
<1>4. /\ key \in Names /\ Fold[key] = Fold[to] /\ Fold[to] \in Session!Folds
      /\ Fold[to] \in DOMAIN folds => key = canonical[Fold[to]]
  BY <1>3 DEF SessionInv, Session!SessionSound, Session!OneNameEach, Session!Folds
<1> HIDE DEF folds, left, old, key, v
<1>5. /\ DOMAIN canonical' = DOMAIN folds \cup {Fold[to]} /\ canonical'[Fold[to]] = key
      /\ \A f \in DOMAIN folds \ {Fold[to]} : canonical'[f] = canonical[f]
      /\ canonical' = [f \in DOMAIN canonical' |-> canonical'[f]]
  BY <1>1, <1>3 DEF Session!With
<1>6. /\ DOMAIN values' = DOMAIN left \cup {key} /\ values'[key] = v
      /\ \A m \in DOMAIN left \ {key} : values'[m] = values[m]
      /\ values' = [m \in DOMAIN values' |-> values'[m]]
  BY <1>1, <1>3 DEF Session!With
<1>7. canonical' \in [DOMAIN canonical' -> Names] /\ values' \in [DOMAIN values' -> Session!Values]
  BY <1>2, <1>3, <1>4, <1>5, <1>6 DEF SessionInv
<1>8. Session!OneNameEach'
  <2>1. ASSUME NEW f \in DOMAIN canonical'
        PROVE  canonical'[f] \in DOMAIN values' /\ Fold[canonical'[f]] = f
    BY <1>2, <1>3, <1>4, <1>5, <1>6 DEF SessionInv, Session!SessionSound,
       Session!OneNameEach
  <2>2. ASSUME NEW m \in DOMAIN values'
        PROVE  Fold[m] \in DOMAIN canonical' /\ canonical'[Fold[m]] = m
    BY <1>2, <1>3, <1>4, <1>5, <1>6 DEF SessionInv, Session!SessionSound,
       Session!OneNameEach
  <2>3. QED
    BY <2>1, <2>2 DEF Session!OneNameEach
<1>9. Session!OnlyAccepted'
  BY <1>1, <1>2, <1>3, <1>6 DEF SessionInv, Session!SessionSound, Session!OnlyAccepted,
     Session!Accepts,
     Session!NullRemoves
<1>10. QED
  BY <1>1, <1>3, <1>4, <1>5, <1>6, <1>7, <1>8, <1>9 DEF SessionInv, Session!SessionSound

\* Every operation, and both halves of a copy.
LEMMA SessionNext ==
  ASSUME SessionInv, [Session!Next]_(Session!sessionVars)
  PROVE  SessionInv'
<1>1. ASSUME NEW n \in Names, NEW v \in Session!Values,
             Session!Set(n, v) \/ Session!New(n, v) \/ Session!Empty(n) \/ Session!Clear(n)
             \/ Session!Remove(n)
      PROVE  SessionInv'
  <2>1. drive' = drive /\ copying' \subseteq Names \X Names
    BY <1>1 DEF SessionInv, Session!Set, Session!New, Session!Empty, Session!Clear,
       Session!Remove
  <2>2. CASE Session!SetItem(n, v) \/ Session!SetItem(n, "empty")
    BY <2>1, <2>2, SetItemKeeps DEF Session!Values
  <2>3. CASE Session!Delete(n)
    BY <2>1, <2>3, DeleteKeeps
  <2>4. CASE Session!Store(n, "null") /\ ~Session!NullRemoves
    BY <2>1, <2>4, StoreKeeps DEF Session!Values, Session!Accepts, Session!NullRemoves
  <2>5. QED
    BY <1>1, <2>2, <2>3, <2>4 DEF Session!Set, Session!New, Session!Empty, Session!Clear,
       Session!Remove
<1>2. ASSUME NEW n \in Names, NEW m \in Names, Session!CopyFound(n, m)
      PROVE  SessionInv'
  BY <1>2 DEF Session!CopyFound, SessionInv, Session!SessionSound, Session!OneNameEach,
     Session!OnlyAccepted, Session!Accepts, Session!NullRemoves
<1>3. ASSUME NEW n \in Names, NEW m \in Names, Session!CopyWrite(n, m)
      PROVE  SessionInv'
  <2>1. drive' = drive /\ copying' \subseteq Names \X Names
    BY <1>3 DEF Session!CopyWrite, SessionInv
  <2>2. Session!Get(n) \in Session!Values
    BY FoundIs DEF Session!Get, Session!Values
  <2>3. CASE Session!Accepts(Session!Get(n))
    BY <1>3, <2>1, <2>2, <2>3, SetItemKeeps DEF Session!CopyWrite
  <2>4. CASE ~Session!Accepts(Session!Get(n))
    BY <1>3, <2>1, <2>4 DEF Session!CopyWrite, SessionInv, Session!SessionSound,
       Session!OneNameEach, Session!OnlyAccepted, Session!Accepts, Session!NullRemoves
  <2>5. QED
    BY <2>3, <2>4
<1>4. CASE UNCHANGED Session!sessionVars
  BY <1>4 DEF Session!sessionVars, SessionInv, Session!SessionSound, Session!OneNameEach,
     Session!OnlyAccepted, Session!Accepts, Session!NullRemoves
<1>5. QED
  BY <1>1, <1>2, <1>3, <1>4, RenameKeeps DEF Session!Next, Session!Values

\* However many spellings set, renamed, copied or removed an item, and whatever
\* happened to its source while a copy waited: an item has one name, and no
\* operation stores what the drive would refuse.
THEOREM SessionSoundHolds == Session!Spec => []Session!SessionSound
<1>1. Session!Init => SessionInv
  BY DEF Session!Init, SessionInv, Session!SessionSound, Session!OneNameEach,
     Session!OnlyAccepted
<1>2. SessionInv /\ [Session!Next]_(Session!sessionVars) => SessionInv'
  BY SessionNext
<1>3. SessionInv => Session!SessionSound
  BY DEF SessionInv
<1>4. QED
  BY <1>1, <1>2, <1>3, PTL DEF Session!Spec

-----------------------------------------------------------------------------
(* The buffers of jobs, for any processes and limits.                      *)

CONSTANTS Pids, Limits, MaxEmitted
VARIABLES nextId, jobs, byPid, emitted, taken
Jobs == INSTANCE JobBuffers

JobConstants == IsFiniteSet(Pids) /\ Limits \in [Jobs!Streams -> Nat \ {0}]

Job == [pid : Pids, state : Jobs!States, hasMoreData : BOOLEAN, exitCode : Jobs!Code \cup {Jobs!NoCode},
        dropped : [Jobs!Streams -> Nat], buffers : [Jobs!Streams -> Seq(Nat)]]

JobTypes ==
  /\ nextId \in 1..(Cardinality(Pids) + 1)
  /\ jobs \in [DOMAIN jobs -> Job] /\ DOMAIN jobs \subseteq 1..(nextId - 1)
  /\ byPid \in [DOMAIN byPid -> Nat] /\ DOMAIN byPid \subseteq Pids
  /\ emitted \in [Pids -> [Jobs!Streams -> Nat]] /\ taken \in [Pids -> [Jobs!Streams -> Nat]]

\* What is handed out was emitted; a process that has emitted nothing can be started
\* again only if nothing was handed out.
TakenWithin == \A p \in Pids, s \in Jobs!Streams : taken[p][s] <= emitted[p][s]

\* A buffer within its limit: the newest of what its process emitted.
BufferOK(buffer, limit, out, got, dropped) ==
  /\ Len(buffer) <= limit /\ out = got + Len(buffer) + dropped
  /\ \A i \in 1..Len(buffer) : buffer[i] = out - Len(buffer) + i
JobOK(j, out, got) ==
  /\ \A s \in Jobs!Streams : BufferOK(j.buffers[s], Limits[s], out[s], got[s], j.dropped[s])
  /\ j.hasMoreData = (\E s \in Jobs!Streams : j.buffers[s] # <<>>)
JobsOK == \A id \in DOMAIN jobs : JobOK(jobs[id], emitted[jobs[id].pid], taken[jobs[id].pid])

\* A pid finds the job of its own process.
OwnJob == \A p \in DOMAIN byPid : byPid[p] \in DOMAIN jobs /\ jobs[byPid[p]].pid = p

JobInv == JobTypes /\ TakenWithin /\ Jobs!PidsAgree /\ OwnJob /\ JobsOK

\* The two instances of FiniteSets are one.
LEMMA JobCount == Jobs!Cardinality(Pids) = Cardinality(Pids)
BY DEF Jobs!Cardinality, Cardinality

\* appendBounded.
LEMMA BoundedIs ==
  ASSUME NEW buffer \in Seq(Nat), NEW item \in Nat, NEW limit \in Nat \ {0}, Len(buffer) <= limit
  PROVE  LET b == Jobs!Bounded(buffer, item, limit) IN
         /\ b.buffer \in Seq(Nat) /\ b.excess \in Nat
         /\ Len(b.buffer) + b.excess = Len(buffer) + 1 /\ Len(b.buffer) \in 1..limit
         /\ \A i \in 1..Len(b.buffer) :
              b.buffer[i] = IF i + b.excess = Len(buffer) + 1 THEN item ELSE buffer[i + b.excess]
<1> DEFINE all == Append(buffer, item)
           excess == IF Len(all) > limit THEN Len(all) - limit ELSE 0
           rest == SubSeq(all, excess + 1, Len(all))
<1>1. /\ all \in Seq(Nat) /\ Len(all) = Len(buffer) + 1
      /\ \A i \in 1..Len(all) : all[i] = IF i = Len(all) THEN item ELSE buffer[i]
  OBVIOUS
<1> HIDE DEF all
<1>2. excess \in Nat /\ excess <= Len(all) /\ Len(all) - excess \in 1..limit
  BY <1>1
<1> HIDE DEF excess
<1>3. /\ rest \in Seq(Nat) /\ Len(rest) = Len(all) - excess
      /\ \A i \in 1..Len(rest) : rest[i] = all[i + excess]
  BY <1>1, <1>2
<1> HIDE DEF rest
<1>4. /\ Jobs!Bounded(buffer, item, limit).buffer = rest
      /\ Jobs!Bounded(buffer, item, limit).excess = excess
  BY DEF Jobs!Bounded, rest, all, excess
<1>5. /\ Len(rest) + excess = Len(buffer) + 1 /\ Len(rest) \in 1..limit
      /\ \A i \in 1..Len(rest) :
           rest[i] = IF i + excess = Len(buffer) + 1 THEN item ELSE buffer[i + excess]
  BY <1>1, <1>2, <1>3
<1>6. QED
  BY <1>2, <1>3, <1>4, <1>5

\* The bounded buffer is again the newest of what was emitted, and not empty.
LEMMA BoundedKeeps ==
  ASSUME NEW buffer \in Seq(Nat), NEW limit \in Nat \ {0}, NEW out \in Nat, NEW got \in Nat,
         NEW dropped \in Nat, BufferOK(buffer, limit, out, got, dropped)
  PROVE  LET b == Jobs!Bounded(buffer, out + 1, limit) IN
         /\ b.buffer \in Seq(Nat) /\ b.excess \in Nat /\ b.buffer # <<>>
         /\ BufferOK(b.buffer, limit, out + 1, got, dropped + b.excess)
<1> DEFINE b == Jobs!Bounded(buffer, out + 1, limit)
           new == b.buffer
           ex == b.excess
<1>1. Len(buffer) <= limit /\ out = got + Len(buffer) + dropped /\ Len(buffer) \in Nat
  BY DEF BufferOK
<1>2. /\ new \in Seq(Nat) /\ ex \in Nat
      /\ Len(new) + ex = Len(buffer) + 1 /\ Len(new) \in 1..limit
      /\ \A i \in 1..Len(new) :
           new[i] = IF i + ex = Len(buffer) + 1 THEN out + 1 ELSE buffer[i + ex]
  BY <1>1, BoundedIs
<1> HIDE DEF new, ex
<1> DEFINE m == Len(buffer)
           n == Len(new)
<1>7. m \in Nat /\ n \in Nat /\ ex \in Nat /\ out = got + m + dropped /\ n + ex = m + 1
  BY <1>1, <1>2
<1>3. ASSUME NEW i \in 1..Len(new) PROVE new[i] = (out + 1) - Len(new) + i
  <2>1. CASE i + ex = Len(buffer) + 1
    BY <1>2, <2>1
  <2>2. CASE i + ex # Len(buffer) + 1
    <3>1. i + ex \in 1..Len(buffer) /\ new[i] = buffer[i + ex]
      BY <1>1, <1>2, <2>2
    <3>2. buffer[i + ex] = out - Len(buffer) + (i + ex)
      BY <3>1 DEF BufferOK
    <3>3. i \in Nat /\ new[i] = out - m + (i + ex)
      BY <1>7, <3>1, <3>2
    <3> HIDE DEF m, n
    <3>4. out - m + (i + ex) = (out + 1) - n + i
      BY <1>7, <3>3
    <3>5. QED
      BY <3>3, <3>4 DEF n
  <2>3. QED
    BY <2>1, <2>2
<1>4. out + 1 = got + Len(new) + (dropped + ex)
  <2> HIDE DEF m, n
  <2>1. out + 1 = got + n + (dropped + ex)
    BY <1>7
  <2>2. QED
    BY <2>1 DEF n
<1>5. BufferOK(new, limit, out + 1, got, dropped + ex)
  BY <1>2, <1>3, <1>4 DEF BufferOK
<1>6. QED
  BY <1>2, <1>5 DEF new, ex

\* A new job, and a job that goes.
LEMMA StartKeeps ==
  ASSUME JobConstants, JobInv, NEW pid \in Pids, Jobs!Start(pid)
  PROVE  JobInv'
<1> DEFINE new == [pid |-> pid, state |-> "Running", hasMoreData |-> FALSE, exitCode |-> Jobs!NoCode,
                   dropped |-> Jobs!Nothing, buffers |-> Jobs!Buffers]
<1>1. /\ pid \notin DOMAIN byPid /\ emitted[pid] = Jobs!Nothing /\ nextId <= Cardinality(Pids)
      /\ nextId' = nextId + 1 /\ UNCHANGED <<emitted, taken>>
      /\ jobs' = Jobs!Extended(jobs, nextId, new) /\ byPid' = Jobs!Extended(byPid, pid, nextId)
  BY Zenon, JobCount DEF Jobs!Start
<1>2. Cardinality(Pids) \in Nat /\ nextId \in Nat /\ nextId \notin DOMAIN jobs
  BY FS_CardinalityType DEF JobConstants, JobInv, JobTypes
<1>3. /\ DOMAIN jobs' = DOMAIN jobs \cup {nextId} /\ jobs'[nextId] = new
      /\ \A id \in DOMAIN jobs : jobs'[id] = jobs[id]
      /\ jobs' = [id \in DOMAIN jobs' |-> jobs'[id]]
      /\ DOMAIN byPid' = DOMAIN byPid \cup {pid} /\ byPid'[pid] = nextId
      /\ \A p \in DOMAIN byPid : byPid'[p] = byPid[p]
      /\ byPid' = [p \in DOMAIN byPid' |-> byPid'[p]]
  BY <1>1, <1>2 DEF Jobs!Extended
<1>4. /\ new \in Job /\ new.pid = pid
      /\ \A s \in Jobs!Streams : new.buffers[s] = <<>> /\ new.dropped[s] = 0 /\ emitted[pid][s] = 0
      /\ new.hasMoreData = FALSE
  BY <1>1 DEF Job, Jobs!Nothing, Jobs!Buffers, Jobs!States, Jobs!Live
<1>5. \A s \in Jobs!Streams : taken[pid][s] = 0 /\ Limits[s] \in Nat
  BY <1>4 DEF JobConstants, JobInv, JobTypes, TakenWithin
<1> HIDE DEF new
<1>6. JobOK(new, emitted[pid], taken[pid])
  <2>1. \A s \in Jobs!Streams :
          BufferOK(new.buffers[s], Limits[s], emitted[pid][s], taken[pid][s], new.dropped[s])
    BY <1>4, <1>5 DEF BufferOK
  <2>2. ~ \E s \in Jobs!Streams : new.buffers[s] # <<>>
    BY <1>4
  <2>3. QED
    BY <1>4, <2>1, <2>2 DEF JobOK
<1>7. JobTypes'
  BY <1>1, <1>2, <1>3, <1>4 DEF JobInv, JobTypes
<1>8. TakenWithin' /\ Jobs!PidsAgree' /\ OwnJob'
  BY <1>1, <1>2, <1>3, <1>4 DEF JobInv, JobTypes, TakenWithin, Jobs!PidsAgree, OwnJob
<1>9. JobsOK'
  BY <1>1, <1>3, <1>4, <1>6 DEF JobInv, JobsOK
<1>10. QED
  BY <1>7, <1>8, <1>9 DEF JobInv

\* A job that goes leaves the others as they are.
LEMMA RemoveKeeps ==
  ASSUME JobInv, NEW id \in DOMAIN jobs, NEW force \in BOOLEAN, Jobs!Remove(id, force)
  PROVE  JobInv'
<1>1. /\ nextId' = nextId /\ emitted' = emitted /\ taken' = taken
      /\ DOMAIN jobs' = DOMAIN jobs \ {id} /\ DOMAIN byPid' = DOMAIN byPid \ {jobs[id].pid}
      /\ \A x \in DOMAIN jobs' : jobs'[x] = jobs[x]
      /\ \A p \in DOMAIN byPid' : byPid'[p] = byPid[p]
      /\ jobs' = [x \in DOMAIN jobs' |-> jobs'[x]]
      /\ byPid' = [p \in DOMAIN byPid' |-> byPid'[p]]
  BY DEF Jobs!Remove, Jobs!Restricted
<1>2. JobTypes' /\ TakenWithin'
  BY <1>1 DEF JobInv, JobTypes, TakenWithin
<1>3. Jobs!PidsAgree' /\ OwnJob'
  BY <1>1 DEF JobInv, Jobs!PidsAgree, OwnJob
<1>4. JobsOK'
  BY <1>1 DEF JobInv, JobsOK
<1>5. QED
  BY <1>2, <1>3, <1>4 DEF JobInv

\* What a process emits, with a job or without one.
LEMMA RecordKeeps ==
  ASSUME JobConstants, JobInv, NEW pid \in Pids, NEW s \in Jobs!Streams, Jobs!Record(pid, s)
  PROVE  JobInv'
<1> DEFINE item == emitted[pid][s] + 1
           id == byPid[pid]
           b == Jobs!Bounded(jobs[id].buffers[s], item, Limits[s])
<1>1. /\ emitted' = [emitted EXCEPT ![pid][s] = item] /\ UNCHANGED <<nextId, byPid, taken>>
      /\ pid \notin DOMAIN byPid => jobs' = jobs
      /\ pid \in DOMAIN byPid => jobs' = [jobs EXCEPT ![id].buffers[s] = b.buffer,
                                                       ![id].dropped[s] = @ + b.excess,
                                                       ![id].hasMoreData = TRUE]
  BY DEF Jobs!Record
<1>2. /\ emitted' \in [Pids -> [Jobs!Streams -> Nat]] /\ emitted'[pid][s] = emitted[pid][s] + 1
      /\ \A x \in Jobs!Streams : x # s => emitted'[pid][x] = emitted[pid][x]
      /\ \A p \in Pids : p # pid => emitted'[p] = emitted[p]
  BY <1>1 DEF JobInv, JobTypes
<1>3. TakenWithin'
  BY <1>1, <1>2 DEF JobInv, JobTypes, TakenWithin
<1>4. CASE pid \notin DOMAIN byPid
  <2>1. jobs' = jobs /\ \A x \in DOMAIN jobs : jobs[x].pid # pid /\ jobs[x].pid \in Pids
    BY <1>1, <1>4 DEF JobInv, JobTypes, Job, Jobs!PidsAgree
  <2>2. JobTypes' /\ Jobs!PidsAgree' /\ OwnJob'
    BY <1>1, <1>2, <2>1 DEF JobInv, JobTypes, Jobs!PidsAgree, OwnJob
  <2>3. JobsOK'
    BY <1>1, <1>2, <2>1 DEF JobInv, JobsOK
  <2>4. QED
    BY <1>3, <2>2, <2>3 DEF JobInv
<1>5. CASE pid \in DOMAIN byPid
  <2>1. /\ id \in DOMAIN jobs /\ jobs[id].pid = pid /\ jobs[id] \in Job
        /\ JobOK(jobs[id], emitted[pid], taken[pid])
        /\ \A x \in DOMAIN jobs : x # id => jobs[x].pid # pid /\ jobs[x].pid \in Pids
    BY <1>5 DEF JobInv, JobTypes, Job, JobsOK, OwnJob, Jobs!PidsAgree
  <2> HIDE DEF id
  <2>2. /\ jobs[id].buffers[s] \in Seq(Nat) /\ Limits[s] \in Nat \ {0}
        /\ emitted[pid][s] \in Nat /\ taken[pid][s] \in Nat /\ jobs[id].dropped[s] \in Nat
        /\ BufferOK(jobs[id].buffers[s], Limits[s], emitted[pid][s], taken[pid][s], jobs[id].dropped[s])
    BY <2>1 DEF JobConstants, JobInv, JobTypes, Job, JobOK
  <2>3. /\ b.buffer \in Seq(Nat) /\ b.excess \in Nat /\ b.buffer # <<>>
        /\ BufferOK(b.buffer, Limits[s], emitted[pid][s] + 1, taken[pid][s],
                    jobs[id].dropped[s] + b.excess)
    BY <2>2, BoundedKeeps
  <2> HIDE DEF b
  <2> DEFINE new == jobs'[id]
  <2>4. /\ jobs' = [jobs EXCEPT ![id].buffers[s] = b.buffer, ![id].dropped[s] = @ + b.excess,
                                ![id].hasMoreData = TRUE]
        /\ UNCHANGED <<nextId, byPid, taken>>
    BY <1>1, <1>5
  <2> DEFINE j == jobs[id]
             f == [j.buffers EXCEPT ![s] = b.buffer]
             d == [j.dropped EXCEPT ![s] = @ + b.excess]
             mid == [j EXCEPT !.buffers = f, !.dropped = d, !.hasMoreData = TRUE]
  <2>51. /\ j.dropped \in [Jobs!Streams -> Nat] /\ j.buffers \in [Jobs!Streams -> Seq(Nat)]
         /\ j.dropped[s] + b.excess \in Nat
    BY <2>1, <2>2, <2>3 DEF Job
  <2>52. f \in [Jobs!Streams -> Seq(Nat)] /\ d \in [Jobs!Streams -> Nat]
    BY <2>3, <2>51
  <2>53. /\ f[s] = b.buffer /\ d[s] = j.dropped[s] + b.excess
         /\ \A x \in Jobs!Streams : x # s => f[x] = j.buffers[x] /\ d[x] = j.dropped[x]
    BY <2>51
  <2>50. j \in Job /\ j.pid = pid
    BY <2>1
  <2> HIDE DEF f, d, j
  <2>54. /\ mid \in Job /\ mid.pid = pid /\ mid.hasMoreData = TRUE
         /\ mid.buffers = f /\ mid.dropped = d
    BY <2>50, <2>52 DEF Job
  <2>55. jobs' = [jobs EXCEPT ![id] = mid]
    BY <2>4 DEF f, d, j
  <2> HIDE DEF mid
  <2>5. /\ DOMAIN jobs' = DOMAIN jobs /\ new \in Job /\ new.pid = pid /\ new.hasMoreData = TRUE
        /\ new.buffers[s] = b.buffer /\ new.dropped[s] = jobs[id].dropped[s] + b.excess
        /\ \A x \in Jobs!Streams : x # s => new.buffers[x] = jobs[id].buffers[x]
                                          /\ new.dropped[x] = jobs[id].dropped[x]
        /\ \A x \in DOMAIN jobs : x # id => jobs'[x] = jobs[x]
        /\ jobs' = [x \in DOMAIN jobs' |-> jobs'[x]]
    BY <2>1, <2>53, <2>54, <2>55 DEF JobInv, JobTypes, j
  <2> HIDE DEF new
  <2>6. JobTypes' /\ Jobs!PidsAgree' /\ OwnJob'
    BY <1>2, <2>1, <2>4, <2>5 DEF JobInv, JobTypes, Jobs!PidsAgree, OwnJob, new
  <2>7. JobOK(new, emitted'[pid], taken'[pid])
    <3>1. BufferOK(new.buffers[s], Limits[s], emitted'[pid][s], taken'[pid][s], new.dropped[s])
      BY <1>2, <2>3, <2>4, <2>5
    <3>2. \A x \in Jobs!Streams : x # s =>
            BufferOK(new.buffers[x], Limits[x], emitted'[pid][x], taken'[pid][x], new.dropped[x])
      BY <1>2, <2>1, <2>4, <2>5 DEF JobOK
    <3>3. new.buffers[s] # <<>>
      BY <2>3, <2>5
    <3>4. QED
      BY <2>5, <3>1, <3>2, <3>3 DEF JobOK
  <2>8. JobsOK'
    BY <1>2, <2>1, <2>4, <2>5, <2>7 DEF JobInv, JobsOK, new
  <2>9. QED
    BY <1>3, <2>6, <2>8 DEF JobInv
<1>6. QED
  BY <1>4, <1>5

\* A receive hands out what the buffers hold and empties them.
LEMMA ReceiveKeeps ==
  ASSUME JobConstants, JobInv, NEW id \in DOMAIN jobs, Jobs!Receive(id)
  PROVE  JobInv'
<1> DEFINE j == jobs[id]
           got == [s \in Jobs!Streams |-> taken[j.pid][s] + Len(j.buffers[s])]
           mid == [j EXCEPT !.buffers = Jobs!Buffers, !.hasMoreData = FALSE]
<1>1. /\ j \in Job /\ j.pid \in Pids /\ JobOK(j, emitted[j.pid], taken[j.pid])
      /\ j.dropped \in [Jobs!Streams -> Nat] /\ j.buffers \in [Jobs!Streams -> Seq(Nat)]
      /\ emitted[j.pid] \in [Jobs!Streams -> Nat] /\ taken[j.pid] \in [Jobs!Streams -> Nat]
  BY DEF JobInv, JobTypes, Job, JobsOK
<1>2. /\ taken' = [taken EXCEPT ![j.pid] = got] /\ jobs' = [jobs EXCEPT ![id] = mid]
      /\ UNCHANGED <<nextId, byPid, emitted>>
  BY DEF Jobs!Receive
<1> HIDE DEF j
<1>3. /\ mid \in Job /\ mid.pid = j.pid /\ mid.hasMoreData = FALSE /\ mid.dropped = j.dropped
      /\ mid.buffers = Jobs!Buffers
  <2>1. Jobs!Buffers \in [Jobs!Streams -> Seq(Nat)]
    BY DEF Jobs!Buffers
  <2>2. QED
    BY <1>1, <2>1 DEF Job
<1>4. \A s \in Jobs!Streams :
        /\ emitted[j.pid][s] = taken[j.pid][s] + Len(j.buffers[s]) + j.dropped[s]
        /\ emitted[j.pid][s] \in Nat /\ taken[j.pid][s] \in Nat /\ j.dropped[s] \in Nat
        /\ Len(j.buffers[s]) \in Nat /\ Limits[s] \in Nat
  BY <1>1 DEF JobConstants, JobOK, BufferOK
<1>5. /\ got \in [Jobs!Streams -> Nat]
      /\ \A s \in Jobs!Streams : emitted[j.pid][s] = got[s] + j.dropped[s] /\ got[s] <= emitted[j.pid][s]
  BY <1>4
<1> HIDE DEF mid, got
<1>6. JobOK(mid, emitted[j.pid], got)
  <2>1. \A s \in Jobs!Streams : mid.buffers[s] = <<>>
    BY <1>3 DEF Jobs!Buffers
  <2>2. \A s \in Jobs!Streams :
          BufferOK(mid.buffers[s], Limits[s], emitted[j.pid][s], got[s], mid.dropped[s])
    BY <1>3, <1>4, <1>5, <2>1 DEF BufferOK
  <2>3. QED
    BY <1>3, <2>1, <2>2 DEF JobOK
<1>7. /\ DOMAIN jobs' = DOMAIN jobs /\ jobs'[id] = mid
      /\ \A x \in DOMAIN jobs : x # id => jobs'[x] = jobs[x]
      /\ jobs' = [x \in DOMAIN jobs' |-> jobs'[x]]
      /\ taken'[j.pid] = got /\ taken' \in [Pids -> [Jobs!Streams -> Nat]]
      /\ \A p \in Pids : p # j.pid => taken'[p] = taken[p]
  BY <1>1, <1>2, <1>5 DEF JobInv, JobTypes
<1>8. JobTypes'
  BY <1>2, <1>3, <1>7 DEF JobInv, JobTypes
<1>9. TakenWithin'
  BY <1>2, <1>5, <1>7 DEF JobInv, TakenWithin
<1>10. Jobs!PidsAgree' /\ OwnJob'
  BY <1>2, <1>3, <1>7 DEF JobInv, Jobs!PidsAgree, OwnJob, j
<1>11. \A x \in DOMAIN jobs : x # id => jobs[x].pid # j.pid /\ jobs[x].pid \in Pids
  BY DEF JobInv, JobTypes, Job, Jobs!PidsAgree, j
<1>12. JobsOK'
  BY <1>2, <1>3, <1>6, <1>7, <1>11 DEF JobInv, JobsOK
<1>13. QED
  BY <1>8, <1>9, <1>10, <1>12 DEF JobInv

\* A job whose state or exit code changes keeps its buffers.
LEMMA StateKeeps ==
  ASSUME JobInv, NEW id \in DOMAIN jobs, NEW state \in Jobs!States,
         NEW code \in Jobs!Code \cup {Jobs!NoCode},
         jobs' = [jobs EXCEPT ![id] = [jobs[id] EXCEPT !.state = state, !.exitCode = code]],
         UNCHANGED <<nextId, byPid, emitted, taken>>
  PROVE  JobInv'
<1> DEFINE j == jobs[id]
           mid == [j EXCEPT !.state = state, !.exitCode = code]
<1>1. j \in Job
  BY DEF JobInv, JobTypes
<1>2. jobs' = [jobs EXCEPT ![id] = mid]
  OBVIOUS
<1>3. JobOK(j, emitted[j.pid], taken[j.pid])
  BY DEF JobInv, JobsOK
<1> HIDE DEF j
<1>4. /\ mid \in Job /\ mid.pid = j.pid /\ mid.hasMoreData = j.hasMoreData
      /\ mid.dropped = j.dropped /\ mid.buffers = j.buffers
  BY <1>1 DEF Job
<1> HIDE DEF mid
<1>5. /\ DOMAIN jobs' = DOMAIN jobs /\ jobs'[id] = mid
      /\ \A x \in DOMAIN jobs : x # id => jobs'[x] = jobs[x]
      /\ jobs' = [x \in DOMAIN jobs' |-> jobs'[x]]
  BY <1>2 DEF JobInv, JobTypes
<1>6. JobTypes' /\ TakenWithin'
  BY <1>4, <1>5 DEF JobInv, JobTypes, TakenWithin
<1>7. Jobs!PidsAgree' /\ OwnJob'
  BY <1>4, <1>5 DEF JobInv, Jobs!PidsAgree, OwnJob, j
<1>8. JobOK(mid, emitted[j.pid], taken[j.pid])
  BY <1>3, <1>4 DEF JobOK
<1>9. JobsOK'
  BY <1>4, <1>5, <1>8 DEF JobInv, JobsOK
<1>10. QED
  BY <1>6, <1>7, <1>9 DEF JobInv

\* Every operation of the job manager.
LEMMA JobsNext ==
  ASSUME JobConstants, JobInv, [Jobs!Next]_(Jobs!jobVars)
  PROVE  JobInv'
<1>1. ASSUME NEW id \in DOMAIN jobs, NEW state \in Jobs!Live, Jobs!Transition(id, state)
      PROVE  JobInv'
  <2>1. jobs[id] \in Job /\ UNCHANGED <<nextId, byPid, emitted, taken>>
    BY <1>1 DEF JobInv, JobTypes, Jobs!Transition
  <2>2. jobs[id].exitCode \in Jobs!Code \cup {Jobs!NoCode} /\ state \in Jobs!States
    BY <2>1 DEF Job, Jobs!States
  <2>3. jobs' = [jobs EXCEPT ![id] = [jobs[id] EXCEPT !.state = state]]
    BY <1>1 DEF Jobs!Transition
  <2>4. [jobs[id] EXCEPT !.state = state]
          = [jobs[id] EXCEPT !.state = state, !.exitCode = jobs[id].exitCode]
    BY <2>1 DEF Job
  <2>5. QED
    BY <2>1, <2>2, <2>3, <2>4, StateKeeps
<1>2. ASSUME NEW pid \in Pids, NEW code \in Jobs!Code, NEW signalled \in BOOLEAN,
             Jobs!Finish(pid, code, signalled)
      PROVE  JobInv'
  <2> DEFINE state == IF signalled THEN "Stopped" ELSE IF code = 0 THEN "Completed" ELSE "Failed"
             id == byPid[pid]
  <2>1. id \in DOMAIN jobs /\ state \in Jobs!States /\ UNCHANGED <<nextId, byPid, emitted, taken>>
    BY <1>2 DEF JobInv, OwnJob, Jobs!Finish, Jobs!States, Jobs!Finished
  <2>2. jobs' = [jobs EXCEPT ![id] = [jobs[id] EXCEPT !.state = state, !.exitCode = code]]
    BY <1>2, <2>1 DEF Jobs!Finish
  <2> HIDE DEF state, id
  <2>3. QED
    BY <2>1, <2>2, StateKeeps
<1>3. CASE UNCHANGED Jobs!jobVars
  BY <1>3 DEF Jobs!jobVars, JobInv, JobTypes, TakenWithin, OwnJob, JobsOK, Jobs!PidsAgree
<1>4. QED
  BY <1>1, <1>2, <1>3, StartKeeps, RecordKeeps, ReceiveKeeps, RemoveKeeps DEF Jobs!Next

\* No job, and nothing emitted.
LEMMA JobsInit ==
  ASSUME JobConstants, Jobs!Init
  PROVE  JobInv
<1>1. Cardinality(Pids) \in Nat
  BY FS_CardinalityType DEF JobConstants
<1>2. DOMAIN jobs = {} /\ DOMAIN byPid = {} /\ nextId = 1
  BY DEF Jobs!Init
<1>3. jobs \in [DOMAIN jobs -> Job] /\ byPid \in [DOMAIN byPid -> Nat]
  BY DEF Jobs!Init
<1>4. JobTypes /\ TakenWithin
  BY <1>1, <1>2, <1>3 DEF Jobs!Init, Jobs!Nothing, JobTypes, TakenWithin
<1>5. Jobs!PidsAgree /\ OwnJob /\ JobsOK
  BY <1>2 DEF Jobs!PidsAgree, OwnJob, JobsOK
<1>6. QED
  BY <1>4, <1>5 DEF JobInv

\* Of each job, what has been handed out, what the buffers hold and what was dropped
\* are together what its process has emitted since, and the buffers hold the newest;
\* hasMoreData says whether they hold anything; and the two maps agree.
THEOREM JobsSoundHolds == ASSUME JobConstants PROVE Jobs!Spec => []Jobs!JobsSound
<1>1. Jobs!Init => JobInv
  BY JobsInit
<1>2. JobInv /\ [Jobs!Next]_(Jobs!jobVars) => JobInv'
  BY JobsNext
<1>3. JobInv => Jobs!JobsSound
  BY DEF JobInv, JobsOK, JobOK, BufferOK, Jobs!JobsSound, Jobs!NothingUnaccounted,
     Jobs!MoreDataIsTrue
<1>4. QED
  BY <1>1, <1>2, <1>3, PTL DEF Jobs!Spec

\* The ids go up to the number of processes, every number, code and state is one, and
\* no buffer is longer than its limit.
THEOREM JobTypesHold == ASSUME JobConstants PROVE Jobs!Spec => []Jobs!TypeOK
<1>1. JobConstants /\ JobInv => Jobs!TypeOK
  <2> SUFFICES ASSUME JobConstants, JobInv PROVE Jobs!TypeOK
    OBVIOUS
  <2>1. /\ nextId \in 1..(Jobs!Cardinality(Pids) + 1) /\ DOMAIN jobs \subseteq 1..(nextId - 1)
        /\ DOMAIN byPid \subseteq Pids
    BY JobCount DEF JobInv, JobTypes
  <2>2. ASSUME NEW id \in DOMAIN jobs
        PROVE  /\ jobs[id].state \in Jobs!States /\ jobs[id].exitCode \in Jobs!Code \cup {Jobs!NoCode}
               /\ \A s \in Jobs!Streams : Len(jobs[id].buffers[s]) <= Limits[s]
    BY DEF JobInv, JobTypes, Job, JobsOK, JobOK, BufferOK
  <2>3. QED
    BY <2>1, <2>2 DEF Jobs!TypeOK
<1>2. Jobs!Init => JobInv
  BY JobsInit
<1>3. JobInv /\ [Jobs!Next]_(Jobs!jobVars) => JobInv'
  BY JobsNext
<1>4. QED
  BY <1>1, <1>2, <1>3, PTL DEF Jobs!Spec

\* A job that has ended keeps its end: no late transition, signal or second exit
\* rewrites it.
THEOREM EndsOnceHolds == ASSUME JobConstants PROVE Jobs!Spec => [][Jobs!EndsOnce]_(Jobs!jobVars)
<1>1. ASSUME JobInv, Jobs!Next PROVE Jobs!EndsOnce
  <2>1. SUFFICES ASSUME NEW x \in DOMAIN jobs \cap DOMAIN jobs', jobs[x].state \in Jobs!Finished
                 PROVE  jobs'[x].state = jobs[x].state /\ jobs'[x].exitCode = jobs[x].exitCode
    BY DEF Jobs!EndsOnce
  <2>2. jobs \in [DOMAIN jobs -> Job] /\ jobs[x] \in Job
    BY <1>1 DEF JobInv, JobTypes
  <2>3. ASSUME NEW pid \in Pids, Jobs!Start(pid) PROVE jobs'[x] = jobs[x]
    BY <1>1, <2>3 DEF Jobs!Start, Jobs!Extended, JobInv, JobTypes
  <2>4. ASSUME NEW pid \in Pids, NEW s \in Jobs!Streams, Jobs!Record(pid, s)
        PROVE  jobs'[x].state = jobs[x].state /\ jobs'[x].exitCode = jobs[x].exitCode
    <3>1. CASE jobs' = jobs
      BY <3>1
    <3>2. CASE jobs' # jobs
      <4>1. PICK f, d : jobs' = [jobs EXCEPT ![byPid[pid]].buffers[s] = f, ![byPid[pid]].dropped[s] = d,
                                             ![byPid[pid]].hasMoreData = TRUE]
        BY <2>4, <3>2 DEF Jobs!Record
      <4>2. jobs'[x] = jobs[x] \/ (\E bs, ds : jobs'[x] = [jobs[x] EXCEPT !.buffers = bs, !.dropped = ds,
                                                                        !.hasMoreData = TRUE])
        BY <2>2, <4>1
      <4>3. QED
        BY <2>2, <4>2 DEF Job
    <3>3. QED
      BY <3>1, <3>2
  <2>5. ASSUME NEW pid \in Pids, NEW c \in Jobs!Code, NEW signalled \in BOOLEAN,
               Jobs!Finish(pid, c, signalled)
        PROVE  jobs'[x] = jobs[x]
    BY <2>1, <2>2, <2>5 DEF Jobs!Finish
  <2>6. ASSUME NEW id \in DOMAIN jobs, Jobs!Receive(id)
        PROVE  jobs'[x].state = jobs[x].state /\ jobs'[x].exitCode = jobs[x].exitCode
    BY <2>2, <2>6 DEF Jobs!Receive, Job
  <2>7. ASSUME NEW id \in DOMAIN jobs, NEW force \in BOOLEAN, Jobs!Remove(id, force)
        PROVE  jobs'[x] = jobs[x]
    BY <2>1, <2>7 DEF Jobs!Remove, Jobs!Restricted
  <2>8. ASSUME NEW id \in DOMAIN jobs, NEW state \in Jobs!Live, Jobs!Transition(id, state)
        PROVE  jobs'[x] = jobs[x]
    BY <2>1, <2>2, <2>8 DEF Jobs!Transition
  <2>9. QED
    BY <1>1, <2>3, <2>4, <2>5, <2>6, <2>7, <2>8 DEF Jobs!Next
<1>2. Jobs!Init => JobInv
  BY JobsInit
<1>3. JobInv /\ [Jobs!Next]_(Jobs!jobVars) => JobInv'
  BY JobsNext
<1>4. JobInv /\ [Jobs!Next]_(Jobs!jobVars) => [Jobs!EndsOnce]_(Jobs!jobVars)
  BY <1>1
<1>5. QED
  BY <1>2, <1>3, <1>4, PTL DEF Jobs!Spec

-----------------------------------------------------------------------------
(* Capabilities and their audit log, for any manifests and grants.         *)

CONSTANTS Manifests, Grants, Real, Audited, Elevate, Confers, MaxAsked
VARIABLES elevated, records, open, outcomes
Broker == INSTANCE Capabilities

\* What elevation confers is virtual: assertElevationCannotConferReality throws, when
\* the module is loaded, if ELEVATION_CONFERS names a real capability.
ConfersNothingReal == Confers \cap Real = {}

Asks == [by : Manifests, of : Real \cup {Elevate}, decision : Broker!Decisions]
Entries == [ask : Asks, decision : Broker!Decisions, real : BOOLEAN]

\* An ask that has to be on the record, and one that was rightly decided.
Matters(a) == a.decision # "granted" \/ a.of \in Audited \/ a.by.audited
Honest(a) == a.decision = "granted" /\ a.of \in Real => a.of \in Grants \cap a.by.capabilities

BrokerInv ==
  /\ records \in Seq(Entries) /\ open \in Seq(Asks) /\ outcomes \in Seq(Asks)
  /\ \A a \in Asks : Matters(a) =>
       Broker!Count(Broker!Recorded, a) = Broker!Count(outcomes, a) + Broker!Count(open, a)
  /\ \A i \in DOMAIN outcomes : Honest(outcomes[i])
  /\ \A i \in DOMAIN open : Honest(open[i])

\* One more in a sequence counts one more of its kind.
LEMMA CountAppend ==
  ASSUME NEW S, NEW s \in Seq(S), NEW x \in S, NEW a
  PROVE  /\ Broker!Count(s, a) \in Nat
         /\ Broker!Count(Append(s, x), a) = Broker!Count(s, a) + (IF x = a THEN 1 ELSE 0)
<1> DEFINE at == {i \in DOMAIN s : s[i] = a}
           new == {i \in DOMAIN Append(s, x) : Append(s, x)[i] = a}
<1>1. Broker!Count(s, a) = Cardinality(at) /\ Broker!Count(Append(s, x), a) = Cardinality(new)
  BY DEF Broker!Count, Broker!Cardinality, Cardinality
<1>2. /\ Len(s) \in Nat /\ DOMAIN s = 1..Len(s) /\ DOMAIN Append(s, x) = 1..(Len(s) + 1)
      /\ Append(s, x)[Len(s) + 1] = x /\ \A i \in 1..Len(s) : Append(s, x)[i] = s[i]
  OBVIOUS
<1>3. IsFiniteSet(at) /\ Cardinality(at) \in Nat
  <2>1. IsFiniteSet(1..Len(s)) /\ at \subseteq 1..Len(s)
    BY <1>2, FS_Interval
  <2> HIDE DEF at
  <2>2. IsFiniteSet(at)
    BY <2>1, FS_Subset
  <2>3. QED
    BY <2>2, FS_CardinalityType
<1>4. CASE x = a
  <2>1. new = at \cup {Len(s) + 1} /\ Len(s) + 1 \notin at
    BY <1>2, <1>4
  <2>2. Cardinality(new) = Cardinality(at) + 1
    BY <1>3, <2>1, FS_AddElement
  <2>3. QED
    BY <1>1, <1>3, <1>4, <2>2
<1>5. CASE x # a
  <2>1. new = at
    BY <1>2, <1>5
  <2> HIDE DEF at, new
  <2>2. QED
    BY <1>1, <1>3, <1>5, <2>1
<1>6. QED
  BY <1>4, <1>5

\* A sequence that is not empty is its front and its last element.
LEMMA FrontAndLast ==
  ASSUME NEW S, NEW s \in Seq(S), s # <<>>
  PROVE  /\ Broker!Front(s) \in Seq(S) /\ Broker!Last(s) \in S
         /\ s = Append(Broker!Front(s), Broker!Last(s))
         /\ Broker!Last(s) = s[Len(s)]
         /\ \A i \in DOMAIN Broker!Front(s) : i \in DOMAIN s /\ Broker!Front(s)[i] = s[i]
BY DEF Broker!Front, Broker!Last

\* The broker grants a real capability only if it is declared and was given to it.
LEMMA DecisionIsHonest ==
  ASSUME ConfersNothingReal, NEW m \in Manifests, NEW c \in Real \cup {Elevate},
         NEW a, a = [by |-> m, of |-> c, decision |-> Broker!Evaluate(m, c)]
  PROVE  /\ a \in Asks /\ Honest(a)
         /\ Matters(a) = Broker!ShouldAudit(m, c, Broker!Evaluate(m, c))
<1> DEFINE d == Broker!Evaluate(m, c)
<1>1. d \in Broker!Decisions
  BY DEF Broker!Evaluate, Broker!Decisions
<1>2. d = "granted" /\ c \in Real => c \in Grants /\ c \in m.capabilities
  BY DEF Broker!Evaluate, Broker!EffectiveGrants, ConfersNothingReal
<1>3. Broker!ShouldAudit(m, c, d) = (d # "granted" \/ c \in Audited \/ m.audited)
  BY DEF Broker!ShouldAudit
<1>4. a = [by |-> m, of |-> c, decision |-> d] /\ a.by = m /\ a.of = c /\ a.decision = d
  OBVIOUS
<1> HIDE DEF d
<1>5. a \in Asks
  BY <1>1, <1>4 DEF Asks
<1>6. Honest(a)
  BY <1>2, <1>4 DEF Honest
<1>7. Matters(a) = (d # "granted" \/ c \in Audited \/ m.audited)
  BY <1>4 DEF Matters
<1>8. QED
  BY <1>3, <1>5, <1>6, <1>7 DEF d

\* What the log holds, read as the asks it is about.
LEMMA RecordedAsks ==
  ASSUME records \in Seq(Entries)
  PROVE  Broker!Recorded \in Seq(Asks)
<1>1. Len(records) \in Nat /\ DOMAIN records = 1..Len(records)
  OBVIOUS
<1>2. \A i \in 1..Len(records) : records[i] \in Entries
  OBVIOUS
<1>3. \A i \in 1..Len(records) : records[i].ask \in Asks
  BY <1>2 DEF Entries
<1>4. Broker!Recorded = [i \in 1..Len(records) |-> records[i].ask]
  BY <1>1 DEF Broker!Recorded
<1>5. Broker!Recorded \in [1..Len(records) -> Asks]
  BY <1>3, <1>4
<1>6. QED
  BY <1>1, <1>5, SeqDef

\* An ask, and the return of the newest.
LEMMA AskKeeps ==
  ASSUME ConfersNothingReal, BrokerInv, NEW m \in Manifests, NEW c \in Real \cup {Elevate},
         Broker!Ask(m, c)
  PROVE  BrokerInv'
<1> DEFINE d == Broker!Evaluate(m, c)
           ask == [by |-> m, of |-> c, decision |-> d]
           entry == [ask |-> ask, decision |-> d,
                     real |-> d = "granted" /\ c \in Real /\ ~m.simulated]
<1>1. /\ ask \in Asks /\ Honest(ask) /\ Matters(ask) = Broker!ShouldAudit(m, c, d)
      /\ d \in Broker!Decisions
  <2>1. ask = [by |-> m, of |-> c, decision |-> Broker!Evaluate(m, c)]
    OBVIOUS
  <2>2. d \in Broker!Decisions
    BY DEF Broker!Evaluate, Broker!Decisions
  <2> HIDE DEF ask
  <2>3. QED
    BY <2>1, <2>2, DecisionIsHonest
<1>2. \/ Matters(ask) /\ records' = Append(records, entry) /\ open' = Append(open, ask)
         /\ outcomes' = outcomes
      \/ ~Matters(ask) /\ outcomes' = Append(outcomes, ask) /\ records' = records /\ open' = open
  BY <1>1 DEF Broker!Ask
<1>3. entry \in Entries /\ entry.ask = ask
  BY <1>1 DEF Entries
<1> HIDE DEF d, ask, entry
<1>4. Broker!Recorded \in Seq(Asks)
  BY RecordedAsks DEF BrokerInv
<1>5. CASE Matters(ask) /\ records' = Append(records, entry) /\ open' = Append(open, ask)
           /\ outcomes' = outcomes
  <2>1. Broker!Recorded' = Append(Broker!Recorded, ask)
    BY <1>3, <1>4, <1>5 DEF Broker!Recorded, BrokerInv
  <2>2. records' \in Seq(Entries) /\ open' \in Seq(Asks) /\ outcomes' \in Seq(Asks)
    BY <1>1, <1>3, <1>5 DEF BrokerInv
  <2>3. ASSUME NEW a \in Asks, Matters(a)
        PROVE  Broker!Count(Broker!Recorded', a) = Broker!Count(outcomes', a) + Broker!Count(open', a)
    <3>1. /\ Broker!Count(Broker!Recorded', a) = Broker!Count(Broker!Recorded, a) + (IF ask = a THEN 1 ELSE 0)
          /\ Broker!Count(open', a) = Broker!Count(open, a) + (IF ask = a THEN 1 ELSE 0)
          /\ Broker!Count(outcomes, a) \in Nat /\ Broker!Count(open, a) \in Nat
          /\ Broker!Count(Broker!Recorded, a) \in Nat
      BY <1>1, <1>4, <1>5, <2>1, CountAppend DEF BrokerInv
    <3>2. QED
      BY <1>5, <2>3, <3>1 DEF BrokerInv
  <2>4. \A i \in DOMAIN open' : Honest(open'[i])
    BY <1>1, <1>5 DEF BrokerInv
  <2>5. QED
    BY <1>5, <2>2, <2>3, <2>4 DEF BrokerInv
<1>6. CASE ~Matters(ask) /\ outcomes' = Append(outcomes, ask) /\ records' = records /\ open' = open
  <2>1. Broker!Recorded' = Broker!Recorded
    BY <1>6 DEF Broker!Recorded
  <2>2. records' \in Seq(Entries) /\ open' \in Seq(Asks) /\ outcomes' \in Seq(Asks)
    BY <1>1, <1>6 DEF BrokerInv
  <2>3. ASSUME NEW a \in Asks, Matters(a)
        PROVE  Broker!Count(Broker!Recorded', a) = Broker!Count(outcomes', a) + Broker!Count(open', a)
    <3>1. Broker!Count(outcomes', a) = Broker!Count(outcomes, a) /\ Broker!Count(outcomes, a) \in Nat
      BY <1>1, <1>6, <2>3, CountAppend DEF BrokerInv
    <3>2. QED
      BY <1>6, <2>1, <2>3, <3>1 DEF BrokerInv
  <2>4. \A i \in DOMAIN outcomes' : Honest(outcomes'[i])
    BY <1>1, <1>6 DEF BrokerInv
  <2>5. QED
    BY <1>6, <2>2, <2>3, <2>4 DEF BrokerInv
<1>7. QED
  BY <1>2, <1>5, <1>6

\* The newest call ends.
LEMMA ReturnKeeps ==
  ASSUME BrokerInv, Broker!Return
  PROVE  BrokerInv'
<1> DEFINE ask == Broker!Last(open)
           rest == Broker!Front(open)
<1>1. open' = rest /\ outcomes' = Append(outcomes, ask) /\ records' = records
  BY DEF Broker!Return
<1>2. /\ rest \in Seq(Asks) /\ ask \in Asks /\ open = Append(rest, ask) /\ open \in Seq(Asks)
      /\ Honest(ask) /\ \A i \in DOMAIN rest : Honest(rest[i])
  BY FrontAndLast DEF BrokerInv, Broker!Return
<1> HIDE DEF ask, rest
<1>3. records' \in Seq(Entries) /\ open' \in Seq(Asks) /\ outcomes' \in Seq(Asks)
  BY <1>1, <1>2 DEF BrokerInv
<1>4. Broker!Recorded' = Broker!Recorded
  BY <1>1 DEF Broker!Recorded
<1>5. ASSUME NEW a \in Asks, Matters(a)
      PROVE  Broker!Count(Broker!Recorded', a) = Broker!Count(outcomes', a) + Broker!Count(open', a)
  <2>1. /\ Broker!Count(outcomes', a) = Broker!Count(outcomes, a) + (IF ask = a THEN 1 ELSE 0)
        /\ Broker!Count(open, a) = Broker!Count(open', a) + (IF ask = a THEN 1 ELSE 0)
        /\ Broker!Count(outcomes, a) \in Nat /\ Broker!Count(open', a) \in Nat
    BY <1>1, <1>2, CountAppend DEF BrokerInv
  <2>2. QED
    BY <1>4, <1>5, <2>1 DEF BrokerInv
<1>6. \A i \in DOMAIN outcomes' : Honest(outcomes'[i])
  BY <1>1, <1>2 DEF BrokerInv
<1>7. QED
  BY <1>1, <1>2, <1>3, <1>5, <1>6 DEF BrokerInv

\* Every refusal, and every use of an audited capability or by an audited command, is
\* on the record exactly once, also when a listener of one record causes the next; and
\* elevation opens nothing real.
THEOREM CapabilitiesSoundHolds ==
  ASSUME ConfersNothingReal PROVE Broker!Spec => []Broker!CapabilitiesSound
<1>1. ASSUME Broker!Init PROVE BrokerInv
  <2>1. records = <<>> /\ open = <<>> /\ outcomes = <<>>
    BY <1>1 DEF Broker!Init
  <2>2. \A a : Broker!Count(<<>>, a) = 0
    <3>1. ASSUME NEW a PROVE {i \in DOMAIN <<>> : <<>>[i] = a} = {}
      OBVIOUS
    <3>2. QED
      BY <3>1, FS_EmptySet DEF Broker!Count, Broker!Cardinality, Cardinality
  <2>3. Broker!Recorded = <<>>
    BY <2>1 DEF Broker!Recorded
  <2>4. QED
    BY <2>1, <2>2, <2>3 DEF BrokerInv
<1>2. ASSUME BrokerInv, [Broker!Next]_(Broker!capabilityVars) PROVE BrokerInv'
  <2>1. CASE UNCHANGED <<records, open, outcomes>>
    BY <1>2, <2>1 DEF BrokerInv, Broker!Recorded
  <2>2. QED
    BY <1>2, <2>1, AskKeeps, ReturnKeeps DEF Broker!Next, Broker!Drop, Broker!capabilityVars
<1>3. ASSUME BrokerInv PROVE Broker!CapabilitiesSound
  <2>1. Broker!Recorded \in Seq(Asks) /\ outcomes \in Seq(Asks) /\ open \in Seq(Asks)
    BY <1>3, RecordedAsks DEF BrokerInv
  <2>2. Broker!ToSet(outcomes) \cup Broker!ToSet(open) \cup Broker!ToSet(Broker!Recorded) \subseteq Asks
    BY <2>1 DEF Broker!ToSet
  <2>3. Broker!OnTheRecord
    BY <1>3, <2>2 DEF BrokerInv, Broker!OnTheRecord, Matters
  <2>4. Broker!ElevationOpensNothing
    BY <1>3 DEF BrokerInv, Broker!ElevationOpensNothing, Honest
  <2>5. QED
    BY <2>3, <2>4 DEF Broker!CapabilitiesSound
<1>4. QED
  BY <1>1, <1>2, <1>3, PTL DEF Broker!Spec

-----------------------------------------------------------------------------
(* The stream of escapes, for any characters and whatever came before.     *)

CONSTANTS Characters, Openings, MaxGiven
VARIABLES parser, given, reported
Stream == INSTANCE AnsiStream WITH events <- reported

\* What holds at first and goes on holding does so to the end.
LEMMA Climb ==
  ASSUME NEW n \in Nat, NEW S, 0 \in S, \A i \in 1..n : i - 1 \in S => i \in S
  PROVE  \A i \in 0..n : i \in S
<1> DEFINE M == {i \in 0..n : i \notin S}
<1>1. ASSUME M # {} PROVE FALSE
  <2>1. M \in SUBSET Nat
    OBVIOUS
  <2>2. PICK m \in M : \A i \in M : ~(<<i, m>> \in OpToRel(<, Nat))
    BY <1>1, <2>1, WFMin, NatLessThanWellFounded, Zenon
  <2>3. \A i \in M : ~(i < m)
    BY <2>1, <2>2 DEF OpToRel
  <2>4. m \in 1..n
    OBVIOUS
  <2>5. m - 1 \in 0..n /\ m - 1 < m
    BY <2>4
  <2>6. m - 1 \in S
    BY <2>3, <2>5
  <2>7. QED
    BY <2>4, <2>6
<1>2. QED
  BY <1>1

\* A sequence, of whatever.
Listed(s) == Len(s) \in Nat /\ s = [i \in 1..Len(s) |-> s[i]]

\* One element more.
LEMMA ListedMore ==
  ASSUME NEW s, Listed(s), NEW x
  PROVE  /\ Listed(Append(s, x)) /\ Len(Append(s, x)) = Len(s) + 1
         /\ \A i \in 1..Len(s) : Append(s, x)[i] = s[i]
         /\ Append(s, x)[Len(s) + 1] = x /\ Append(s, x) # <<>>
         /\ Stream!Last(Append(s, x)) = x /\ Stream!Front(Append(s, x)) = s
<1> DEFINE T == {s[i] : i \in 1..Len(s)} \cup {x}
<1>1. s \in Seq(T)
  <2>1. Len(s) \in Nat /\ s \in [1..Len(s) -> T]
    BY DEF Listed
  <2> HIDE DEF T
  <2>2. QED
    BY <2>1, SeqDef
<1>2. x \in T
  OBVIOUS
<1> HIDE DEF T
<1>3. PICK more : more = Append(s, x)
  OBVIOUS
<1>4. /\ more \in Seq(T) /\ Len(more) = Len(s) + 1 /\ Len(s) \in Nat
      /\ (\A i \in 1..Len(s) : more[i] = s[i]) /\ more[Len(s) + 1] = x
  BY <1>1, <1>2, <1>3, AppendProperties
<1>5. Listed(more)
  <2>1. more \in [1..Len(more) -> T] /\ Len(more) \in Nat
    BY <1>4, LenProperties
  <2>2. QED
    BY <2>1 DEF Listed
<1>6. more # <<>>
  BY <1>4
<1>7. Stream!Last(more) = x
  BY <1>4 DEF Stream!Last
<1>8. SubSeq(more, 1, Len(more) - 1) = s
  <2>1. Len(more) - 1 = Len(s)
    BY <1>4
  <2>2. \A i \in 1..Len(s) : more[i] \in T
    BY <1>4
  <2>3. SubSeq(more, 1, Len(s)) = [i \in 1..Len(s) |-> more[i]]
    BY <1>4
  <2>4. [i \in 1..Len(s) |-> more[i]] = [i \in 1..Len(s) |-> s[i]]
    BY <1>4
  <2>5. QED
    BY <2>1, <2>3, <2>4 DEF Listed
<1>9. QED
  BY <1>3, <1>4, <1>5, <1>6, <1>7, <1>8 DEF Stream!Front

\* A list of events joins one by one.
LEMMA JoinedRun ==
  ASSUME NEW es, NEW s, Len(s) \in Nat
  PROVE  \E f : /\ f[0] = es /\ \A i \in 1..Len(s) : f[i] = Stream!Joined(f[i - 1], s[i])
               /\ Stream!JoinedAll(es, s) = f[Len(s)]
<1> DEFINE n == Len(s)
           B == es
           M == {m \in 0..n : \E f : f = [i \in 0..m |-> IF i = 0 THEN B ELSE Stream!Joined(f[i - 1], s[i])]}
<1> HIDE DEF B
<1>1. 0 \in M
  <2> DEFINE f == [i \in 0..0 |-> B]
  <2>1. f = [i \in 0..0 |-> IF i = 0 THEN B ELSE Stream!Joined(f[i - 1], s[i])]
    OBVIOUS
  <2> HIDE DEF f
  <2>2. QED
    BY <2>1
<1>2. ASSUME NEW m \in 1..n, m - 1 \in M PROVE m \in M
  <2>1. PICK f : f = [i \in 0..(m - 1) |-> IF i = 0 THEN B ELSE Stream!Joined(f[i - 1], s[i])]
    BY <1>2
  <2> DEFINE g == [i \in 0..m |-> IF i = m THEN Stream!Joined(f[m - 1], s[m]) ELSE f[i]]
  <2>2. \A i \in 0..m : i # m => i \in 0..(m - 1) /\ g[i] = f[i]
    OBVIOUS
  <2>3. ASSUME NEW i \in 0..m PROVE g[i] = IF i = 0 THEN B ELSE Stream!Joined(g[i - 1], s[i])
    <3>1. CASE i = m
      <4>1. m - 1 \in 0..m /\ m - 1 # m /\ m # 0
        OBVIOUS
      <4>2. g[m - 1] = f[m - 1]
        BY <2>2, <4>1
      <4>3. QED
        BY <3>1, <4>1, <4>2
    <3>2. CASE i # m
      <4>1. i \in 0..(m - 1) /\ g[i] = f[i]
        BY <2>2, <3>2
      <4>2. f[i] = IF i = 0 THEN B ELSE Stream!Joined(f[i - 1], s[i])
        BY <2>1, <4>1
      <4>3. i # 0 => i - 1 \in 0..m /\ i - 1 # m
        BY <4>1
      <4>4. i # 0 => g[i - 1] = f[i - 1]
        BY <2>2, <4>3
      <4>5. QED
        BY <4>1, <4>2, <4>4
    <3>3. QED
      BY <3>1, <3>2
  <2>4. DOMAIN g = 0..m /\ g = [i \in 0..m |-> g[i]]
    OBVIOUS
  <2> HIDE DEF g
  <2>5. g = [i \in 0..m |-> IF i = 0 THEN B ELSE Stream!Joined(g[i - 1], s[i])]
    BY <2>3, <2>4
  <2>6. m \in 0..n
    OBVIOUS
  <2>7. QED
    BY <2>5, <2>6
<1>3. n \in M
  <2>1. n \in Nat
    OBVIOUS
  <2>2. \A i \in 0..n : i \in M
    <3> HIDE DEF M, n
    <3>1. QED
      BY <1>1, <1>2, <2>1, Climb
  <2>3. n \in 0..n
    BY <2>1
  <2>4. QED
    BY <2>2, <2>3, Zenon
<1>4. \E f : f = [i \in 0..n |-> IF i = 0 THEN B ELSE Stream!Joined(f[i - 1], s[i])]
  BY <1>3
<1>5. \E f : /\ f = [i \in 0..n |-> IF i = 0 THEN B ELSE Stream!Joined(f[i - 1], s[i])]
            /\ Stream!JoinedAll(es, s) = f[n]
  BY <1>4 DEF Stream!JoinedAll, B
<1>6. PICK f : /\ f = [i \in 0..n |-> IF i = 0 THEN B ELSE Stream!Joined(f[i - 1], s[i])]
               /\ Stream!JoinedAll(es, s) = f[n]
  BY <1>5
<1>7. \A i \in 0..n : f[i] = IF i = 0 THEN B ELSE Stream!Joined(f[i - 1], s[i])
  BY <1>6, Zenon
<1>8. 0 \in 0..n /\ \A i \in 1..n : i \in 0..n /\ i # 0
  OBVIOUS
<1>9. f[0] = B /\ \A i \in 1..n : f[i] = Stream!Joined(f[i - 1], s[i])
  BY <1>7, <1>8, Zenon
<1>10. QED
  BY <1>6, <1>9 DEF B

\* An event more.
LEMMA JoinedMore ==
  ASSUME NEW es, NEW s, Listed(s), NEW x
  PROVE  /\ Stream!JoinedAll(es, Append(s, x)) = Stream!Joined(Stream!JoinedAll(es, s), x)
         /\ Stream!JoinedAll(es, <<>>) = es
<1> DEFINE n == Len(s)
           more == Append(s, x)
<1>1. n \in Nat /\ Len(more) = n + 1 /\ (\A i \in 1..n : more[i] = s[i]) /\ more[n + 1] = x
  BY ListedMore DEF Listed
<1> HIDE DEF n, more
<1>2. PICK a : /\ a[0] = es /\ \A i \in 1..n : a[i] = Stream!Joined(a[i - 1], s[i])
               /\ Stream!JoinedAll(es, s) = a[n]
  BY <1>1, JoinedRun DEF n
<1>3. PICK b : /\ b[0] = es /\ \A i \in 1..(n + 1) : b[i] = Stream!Joined(b[i - 1], more[i])
               /\ Stream!JoinedAll(es, more) = b[n + 1]
  <2>1. Len(more) \in Nat
    BY <1>1
  <2>2. QED
    BY <1>1, <2>1, JoinedRun
<1> DEFINE M == {i \in 0..n : a[i] = b[i]}
<1>4. 0 \in M
  BY <1>1, <1>2, <1>3
<1>5. ASSUME NEW i \in 1..n, i - 1 \in M PROVE i \in M
  <2>1. a[i - 1] = b[i - 1] /\ i \in 1..(n + 1) /\ i \in 0..n
    BY <1>1, <1>5
  <2>2. more[i] = s[i]
    BY <1>1
  <2>3. a[i] = b[i]
    BY <1>2, <1>3, <2>1, <2>2
  <2>4. QED
    BY <2>1, <2>3
<1>6. n \in M
  <2>1. \A i \in 0..n : i \in M
    <3> HIDE DEF M
    <3>1. QED
      BY <1>1, <1>4, <1>5, Climb
  <2>2. n \in 0..n
    BY <1>1
  <2>3. QED
    BY <2>1, <2>2, Zenon
<1>7. a[n] = b[n] /\ n + 1 \in 1..(n + 1) /\ (n + 1) - 1 = n
  BY <1>1, <1>6
<1>8. Stream!JoinedAll(es, more) = Stream!Joined(Stream!JoinedAll(es, s), x)
  BY <1>1, <1>2, <1>3, <1>7
<1>9. Stream!JoinedAll(es, <<>>) = es
  <2>1. Len(<<>>) = 0 /\ 0 \in Nat
    OBVIOUS
  <2>2. PICK z : z = <<>>
    OBVIOUS
  <2>3. QED
    BY <2>1, <2>2, JoinedRun
<1>10. QED
  BY <1>8, <1>9 DEF more

\* A stream is read one by one.
LEMMA ReadRun ==
  ASSUME NEW s, Len(s) \in Nat
  PROVE  \E f : /\ f[0] = [now |-> Stream!Fresh, out |-> <<>>] /\ \A i \in 1..Len(s) : f[i] = Stream!ReadOn(f[i - 1], s[i])
               /\ Stream!Read(s) = f[Len(s)]
<1> DEFINE n == Len(s)
           B == [now |-> Stream!Fresh, out |-> <<>>]
           M == {m \in 0..n : \E f : f = [i \in 0..m |-> IF i = 0 THEN B ELSE Stream!ReadOn(f[i - 1], s[i])]}
<1> HIDE DEF B
<1>1. 0 \in M
  <2> DEFINE f == [i \in 0..0 |-> B]
  <2>1. f = [i \in 0..0 |-> IF i = 0 THEN B ELSE Stream!ReadOn(f[i - 1], s[i])]
    OBVIOUS
  <2> HIDE DEF f
  <2>2. QED
    BY <2>1
<1>2. ASSUME NEW m \in 1..n, m - 1 \in M PROVE m \in M
  <2>1. PICK f : f = [i \in 0..(m - 1) |-> IF i = 0 THEN B ELSE Stream!ReadOn(f[i - 1], s[i])]
    BY <1>2
  <2> DEFINE g == [i \in 0..m |-> IF i = m THEN Stream!ReadOn(f[m - 1], s[m]) ELSE f[i]]
  <2>2. \A i \in 0..m : i # m => i \in 0..(m - 1) /\ g[i] = f[i]
    OBVIOUS
  <2>3. ASSUME NEW i \in 0..m PROVE g[i] = IF i = 0 THEN B ELSE Stream!ReadOn(g[i - 1], s[i])
    <3>1. CASE i = m
      <4>1. m - 1 \in 0..m /\ m - 1 # m /\ m # 0
        OBVIOUS
      <4>2. g[m - 1] = f[m - 1]
        BY <2>2, <4>1
      <4>3. QED
        BY <3>1, <4>1, <4>2
    <3>2. CASE i # m
      <4>1. i \in 0..(m - 1) /\ g[i] = f[i]
        BY <2>2, <3>2
      <4>2. f[i] = IF i = 0 THEN B ELSE Stream!ReadOn(f[i - 1], s[i])
        BY <2>1, <4>1
      <4>3. i # 0 => i - 1 \in 0..m /\ i - 1 # m
        BY <4>1
      <4>4. i # 0 => g[i - 1] = f[i - 1]
        BY <2>2, <4>3
      <4>5. QED
        BY <4>1, <4>2, <4>4
    <3>3. QED
      BY <3>1, <3>2
  <2>4. DOMAIN g = 0..m /\ g = [i \in 0..m |-> g[i]]
    OBVIOUS
  <2> HIDE DEF g
  <2>5. g = [i \in 0..m |-> IF i = 0 THEN B ELSE Stream!ReadOn(g[i - 1], s[i])]
    BY <2>3, <2>4
  <2>6. m \in 0..n
    OBVIOUS
  <2>7. QED
    BY <2>5, <2>6
<1>3. n \in M
  <2>1. n \in Nat
    OBVIOUS
  <2>2. \A i \in 0..n : i \in M
    <3> HIDE DEF M, n
    <3>1. QED
      BY <1>1, <1>2, <2>1, Climb
  <2>3. n \in 0..n
    BY <2>1
  <2>4. QED
    BY <2>2, <2>3, Zenon
<1>4. \E f : f = [i \in 0..n |-> IF i = 0 THEN B ELSE Stream!ReadOn(f[i - 1], s[i])]
  BY <1>3
<1>5. \E f : /\ f = [i \in 0..n |-> IF i = 0 THEN B ELSE Stream!ReadOn(f[i - 1], s[i])]
            /\ Stream!Read(s) = f[n]
  BY <1>4 DEF Stream!Read, B
<1>6. PICK f : /\ f = [i \in 0..n |-> IF i = 0 THEN B ELSE Stream!ReadOn(f[i - 1], s[i])]
               /\ Stream!Read(s) = f[n]
  BY <1>5
<1>7. \A i \in 0..n : f[i] = IF i = 0 THEN B ELSE Stream!ReadOn(f[i - 1], s[i])
  BY <1>6, Zenon
<1>8. 0 \in 0..n /\ \A i \in 1..n : i \in 0..n /\ i # 0
  OBVIOUS
<1>9. f[0] = B /\ \A i \in 1..n : f[i] = Stream!ReadOn(f[i - 1], s[i])
  BY <1>7, <1>8, Zenon
<1>10. QED
  BY <1>6, <1>9 DEF B

\* A character more.
LEMMA ReadMore ==
  ASSUME NEW s, Listed(s), NEW x
  PROVE  /\ Stream!Read(Append(s, x)) = Stream!ReadOn(Stream!Read(s), x)
         /\ Stream!Read(<<>>) = [now |-> Stream!Fresh, out |-> <<>>]
<1> DEFINE n == Len(s)
           more == Append(s, x)
<1>1. n \in Nat /\ Len(more) = n + 1 /\ (\A i \in 1..n : more[i] = s[i]) /\ more[n + 1] = x
  BY ListedMore DEF Listed
<1> HIDE DEF n, more
<1>2. PICK a : /\ a[0] = [now |-> Stream!Fresh, out |-> <<>>] /\ \A i \in 1..n : a[i] = Stream!ReadOn(a[i - 1], s[i])
               /\ Stream!Read(s) = a[n]
  BY <1>1, ReadRun DEF n
<1>3. PICK b : /\ b[0] = [now |-> Stream!Fresh, out |-> <<>>] /\ \A i \in 1..(n + 1) : b[i] = Stream!ReadOn(b[i - 1], more[i])
               /\ Stream!Read(more) = b[n + 1]
  <2>1. Len(more) \in Nat
    BY <1>1
  <2>2. QED
    BY <1>1, <2>1, ReadRun
<1> DEFINE M == {i \in 0..n : a[i] = b[i]}
<1>4. 0 \in M
  BY <1>1, <1>2, <1>3
<1>5. ASSUME NEW i \in 1..n, i - 1 \in M PROVE i \in M
  <2>1. a[i - 1] = b[i - 1] /\ i \in 1..(n + 1) /\ i \in 0..n
    BY <1>1, <1>5
  <2>2. more[i] = s[i]
    BY <1>1
  <2>3. a[i] = b[i]
    BY <1>2, <1>3, <2>1, <2>2
  <2>4. QED
    BY <2>1, <2>3
<1>6. n \in M
  <2>1. \A i \in 0..n : i \in M
    <3> HIDE DEF M
    <3>1. QED
      BY <1>1, <1>4, <1>5, Climb
  <2>2. n \in 0..n
    BY <1>1
  <2>3. QED
    BY <2>1, <2>2, Zenon
<1>7. a[n] = b[n] /\ n + 1 \in 1..(n + 1) /\ (n + 1) - 1 = n
  BY <1>1, <1>6
<1>8. Stream!Read(more) = Stream!ReadOn(Stream!Read(s), x)
  BY <1>1, <1>2, <1>3, <1>7
<1>9. Stream!Read(<<>>) = [now |-> Stream!Fresh, out |-> <<>>]
  <2>1. Len(<<>>) = 0 /\ 0 \in Nat
    OBVIOUS
  <2>2. PICK z : z = <<>>
    OBVIOUS
  <2>3. QED
    BY <2>1, <2>2, ReadRun
<1>10. QED
  BY <1>8, <1>9 DEF more

\* What is left, one by one.
LEMMA WithoutRun ==
  ASSUME NEW S, NEW s, Len(s) \in Nat
  PROVE  \E f : /\ f[0] = <<>> /\ \A i \in 1..Len(s) : f[i] = Stream!Unless(f[i - 1], s[i], S)
               /\ Stream!Without(s, S) = f[Len(s)]
<1> DEFINE n == Len(s)
           B == <<>>
           M == {m \in 0..n : \E f : f = [i \in 0..m |-> IF i = 0 THEN B ELSE Stream!Unless(f[i - 1], s[i], S)]}
<1> HIDE DEF B
<1>1. 0 \in M
  <2> DEFINE f == [i \in 0..0 |-> B]
  <2>1. f = [i \in 0..0 |-> IF i = 0 THEN B ELSE Stream!Unless(f[i - 1], s[i], S)]
    OBVIOUS
  <2> HIDE DEF f
  <2>2. QED
    BY <2>1
<1>2. ASSUME NEW m \in 1..n, m - 1 \in M PROVE m \in M
  <2>1. PICK f : f = [i \in 0..(m - 1) |-> IF i = 0 THEN B ELSE Stream!Unless(f[i - 1], s[i], S)]
    BY <1>2
  <2> DEFINE g == [i \in 0..m |-> IF i = m THEN Stream!Unless(f[m - 1], s[m], S) ELSE f[i]]
  <2>2. \A i \in 0..m : i # m => i \in 0..(m - 1) /\ g[i] = f[i]
    OBVIOUS
  <2>3. ASSUME NEW i \in 0..m PROVE g[i] = IF i = 0 THEN B ELSE Stream!Unless(g[i - 1], s[i], S)
    <3>1. CASE i = m
      <4>1. m - 1 \in 0..m /\ m - 1 # m /\ m # 0
        OBVIOUS
      <4>2. g[m - 1] = f[m - 1]
        BY <2>2, <4>1
      <4>3. QED
        BY <3>1, <4>1, <4>2
    <3>2. CASE i # m
      <4>1. i \in 0..(m - 1) /\ g[i] = f[i]
        BY <2>2, <3>2
      <4>2. f[i] = IF i = 0 THEN B ELSE Stream!Unless(f[i - 1], s[i], S)
        BY <2>1, <4>1
      <4>3. i # 0 => i - 1 \in 0..m /\ i - 1 # m
        BY <4>1
      <4>4. i # 0 => g[i - 1] = f[i - 1]
        BY <2>2, <4>3
      <4>5. QED
        BY <4>1, <4>2, <4>4
    <3>3. QED
      BY <3>1, <3>2
  <2>4. DOMAIN g = 0..m /\ g = [i \in 0..m |-> g[i]]
    OBVIOUS
  <2> HIDE DEF g
  <2>5. g = [i \in 0..m |-> IF i = 0 THEN B ELSE Stream!Unless(g[i - 1], s[i], S)]
    BY <2>3, <2>4
  <2>6. m \in 0..n
    OBVIOUS
  <2>7. QED
    BY <2>5, <2>6
<1>3. n \in M
  <2>1. n \in Nat
    OBVIOUS
  <2>2. \A i \in 0..n : i \in M
    <3> HIDE DEF M, n
    <3>1. QED
      BY <1>1, <1>2, <2>1, Climb
  <2>3. n \in 0..n
    BY <2>1
  <2>4. QED
    BY <2>2, <2>3, Zenon
<1>4. \E f : f = [i \in 0..n |-> IF i = 0 THEN B ELSE Stream!Unless(f[i - 1], s[i], S)]
  BY <1>3
<1>5. \E f : /\ f = [i \in 0..n |-> IF i = 0 THEN B ELSE Stream!Unless(f[i - 1], s[i], S)]
            /\ Stream!Without(s, S) = f[n]
  BY <1>4 DEF Stream!Without, B
<1>6. PICK f : /\ f = [i \in 0..n |-> IF i = 0 THEN B ELSE Stream!Unless(f[i - 1], s[i], S)]
               /\ Stream!Without(s, S) = f[n]
  BY <1>5
<1>7. \A i \in 0..n : f[i] = IF i = 0 THEN B ELSE Stream!Unless(f[i - 1], s[i], S)
  BY <1>6, Zenon
<1>8. 0 \in 0..n /\ \A i \in 1..n : i \in 0..n /\ i # 0
  OBVIOUS
<1>9. f[0] = B /\ \A i \in 1..n : f[i] = Stream!Unless(f[i - 1], s[i], S)
  BY <1>7, <1>8, Zenon
<1>10. QED
  BY <1>6, <1>9 DEF B

\* An element more.
LEMMA WithoutMore ==
  ASSUME NEW S, NEW s, Listed(s), NEW x
  PROVE  /\ Stream!Without(Append(s, x), S) = Stream!Unless(Stream!Without(s, S), x, S)
         /\ Stream!Without(<<>>, S) = <<>>
<1> DEFINE n == Len(s)
           more == Append(s, x)
<1>1. n \in Nat /\ Len(more) = n + 1 /\ (\A i \in 1..n : more[i] = s[i]) /\ more[n + 1] = x
  BY ListedMore DEF Listed
<1> HIDE DEF n, more
<1>2. PICK a : /\ a[0] = <<>> /\ \A i \in 1..n : a[i] = Stream!Unless(a[i - 1], s[i], S)
               /\ Stream!Without(s, S) = a[n]
  BY <1>1, WithoutRun DEF n
<1>3. PICK b : /\ b[0] = <<>> /\ \A i \in 1..(n + 1) : b[i] = Stream!Unless(b[i - 1], more[i], S)
               /\ Stream!Without(more, S) = b[n + 1]
  <2>1. Len(more) \in Nat
    BY <1>1
  <2>2. QED
    BY <1>1, <2>1, WithoutRun
<1> DEFINE M == {i \in 0..n : a[i] = b[i]}
<1>4. 0 \in M
  BY <1>1, <1>2, <1>3
<1>5. ASSUME NEW i \in 1..n, i - 1 \in M PROVE i \in M
  <2>1. a[i - 1] = b[i - 1] /\ i \in 1..(n + 1) /\ i \in 0..n
    BY <1>1, <1>5
  <2>2. more[i] = s[i]
    BY <1>1
  <2>3. a[i] = b[i]
    BY <1>2, <1>3, <2>1, <2>2
  <2>4. QED
    BY <2>1, <2>3
<1>6. n \in M
  <2>1. \A i \in 0..n : i \in M
    <3> HIDE DEF M
    <3>1. QED
      BY <1>1, <1>4, <1>5, Climb
  <2>2. n \in 0..n
    BY <1>1
  <2>3. QED
    BY <2>1, <2>2, Zenon
<1>7. a[n] = b[n] /\ n + 1 \in 1..(n + 1) /\ (n + 1) - 1 = n
  BY <1>1, <1>6
<1>8. Stream!Without(more, S) = Stream!Unless(Stream!Without(s, S), x, S)
  BY <1>1, <1>2, <1>3, <1>7
<1>9. Stream!Without(<<>>, S) = <<>>
  <2>1. Len(<<>>) = 0 /\ 0 \in Nat
    OBVIOUS
  <2>2. PICK z : z = <<>>
    OBVIOUS
  <2>3. QED
    BY <2>1, <2>2, WithoutRun
<1>10. QED
  BY <1>8, <1>9 DEF more

-----------------------------------------------------------------------------
(* Events.                                                                 *)

Strings  == Seq(Characters)
Executed == [kind |-> "execute"]

\* The text in an event is a text.
Event(e)  == e.kind = "text" => e.data \in Strings /\ e = Stream!Text(e.data)
Events(s) == Listed(s) /\ \A i \in 1..Len(s) : Event(s[i])

\* None, and one more.
LEMMA EventsMore ==
  /\ Listed(<<>>) /\ Events(<<>>) /\ Len(<<>>) = 0
  /\ \A s, e : Events(s) /\ Event(e) => Listed(s) /\ Events(Append(s, e))
<1>1. Listed(<<>>) /\ Events(<<>>) /\ Len(<<>>) = 0
  BY DEF Listed, Events
<1>2. ASSUME NEW s, NEW e, Events(s), Event(e) PROVE Listed(s) /\ Events(Append(s, e))
  <2>1. PICK more : more = Append(s, e)
    OBVIOUS
  <2>2. /\ Listed(s) /\ Listed(more) /\ Len(more) = Len(s) + 1 /\ Len(s) \in Nat
        /\ (\A i \in 1..Len(s) : more[i] = s[i]) /\ more[Len(s) + 1] = e
    BY <1>2, <2>1, ListedMore DEF Events, Listed
  <2>3. ASSUME NEW i \in 1..Len(more) PROVE Event(more[i])
    <3>1. i \in 1..Len(s) \/ i = Len(s) + 1
      BY <2>2
    <3>2. QED
      BY <1>2, <2>2, <3>1 DEF Events
  <2>4. QED
    BY <2>1, <2>2, <2>3 DEF Events
<1>3. QED
  BY <1>1, <1>2

\* A list that is not empty has a last event.
LEMMA EventsEnd ==
  ASSUME NEW s, Events(s), s # <<>>
  PROVE  \E g, e : Events(g) /\ Event(e) /\ s = Append(g, e)
<1>1. Len(s) \in Nat /\ s = [i \in 1..Len(s) |-> s[i]] /\ \A i \in 1..Len(s) : Event(s[i])
  BY DEF Events, Listed
<1>2. Len(s) # 0
  <2>1. CASE Len(s) = 0
    <3>1. s \in [1..0 -> {}]
      BY <1>1, <2>1
    <3>2. s \in Seq({}) /\ Len(s) = 0
      BY <2>1, <3>1, SeqDef
    <3>3. QED
      BY <3>2, EmptySeq
  <2>2. QED
    BY <2>1
<1>3. PICK m \in Nat : Len(s) = m + 1
  <2>1. Len(s) - 1 \in Nat /\ Len(s) = (Len(s) - 1) + 1
    BY <1>1, <1>2
  <2>2. QED
    BY <2>1
<1> DEFINE g == [i \in 1..m |-> s[i]]
<1>4. Len(g) = m /\ DOMAIN g = 1..m /\ \A i \in 1..m : g[i] = s[i]
  <2>1. g \in Seq({s[i] : i \in 1..m})
    <3> DEFINE T == {s[i] : i \in 1..m}
    <3>1. g \in [1..m -> T]
      OBVIOUS
    <3> HIDE DEF T, g
    <3>2. g \in Seq(T)
      BY <3>1, SeqDef
    <3>3. QED
      BY <3>2 DEF T
  <2>2. DOMAIN g = 1..m
    OBVIOUS
  <2> HIDE DEF g
  <2>3. Len(g) \in Nat /\ DOMAIN g = 1..Len(g)
    BY <2>1, LenProperties
  <2>4. Len(g) = m
    BY <2>2, <2>3
  <2>5. QED
    BY <2>2, <2>4 DEF g
<1>5. g = [i \in 1..m |-> g[i]]
  OBVIOUS
<1> HIDE DEF g
<1>6. Events(g)
  <2>1. Listed(g)
    BY <1>4, <1>5 DEF Listed
  <2>2. \A i \in 1..m : i \in 1..Len(s)
    BY <1>3
  <2>3. QED
    BY <1>1, <1>4, <2>1, <2>2 DEF Events
<1>7. PICK e : e = s[m + 1]
  OBVIOUS
<1>8. Event(e)
  BY <1>1, <1>3, <1>7
<1>9. PICK more : more = Append(g, e)
  OBVIOUS
<1>10. /\ Listed(more) /\ Len(more) = m + 1 /\ (\A i \in 1..m : more[i] = g[i]) /\ more[m + 1] = e
  BY <1>4, <1>6, <1>9, ListedMore DEF Events
<1>11. \A i \in 1..(m + 1) : more[i] = s[i]
  <2>1. \A i \in 1..(m + 1) : i \in 1..m \/ i = m + 1
    OBVIOUS
  <2>2. QED
    BY <1>4, <1>7, <1>10, <2>1
<1>12. more = s
  <2>1. more = [i \in 1..(m + 1) |-> more[i]] /\ s = [i \in 1..(m + 1) |-> s[i]]
    BY <1>1, <1>3, <1>10 DEF Listed
  <2>2. QED
    BY <1>11, <2>1
<1>13. QED
  BY <1>6, <1>8, <1>9, <1>12

\* What ends with a text is joined by a text, anything else is followed by it.
LEMMA JoinedIs ==
  /\ \A e : Stream!Joined(<<>>, e) = Append(<<>>, e)
  /\ \A g, a, e : Events(g) /\ Event(a) /\ Event(e) =>
       Stream!Joined(Append(g, a), e) =
         IF e.kind = "text" /\ a.kind = "text" THEN Append(g, Stream!Text(a.data \o e.data))
         ELSE Append(Append(g, a), e)
<1>1. ASSUME NEW e PROVE Stream!Joined(<<>>, e) = Append(<<>>, e)
  BY Zenon DEF Stream!Joined
<1>2. ASSUME NEW g, NEW a, NEW e, Events(g), Event(a), Event(e)
      PROVE  Stream!Joined(Append(g, a), e) =
               IF e.kind = "text" /\ a.kind = "text" THEN Append(g, Stream!Text(a.data \o e.data))
               ELSE Append(Append(g, a), e)
  <2>1. /\ Append(g, a) # <<>> /\ Stream!Last(Append(g, a)) = a
        /\ Stream!Front(Append(g, a)) = g
    BY <1>2, ListedMore DEF Events
  <2>2. QED
    BY <2>1, Zenon DEF Stream!Joined
<1>3. QED
  BY <1>1, <1>2

\* A text joins a text.
LEMMA TextsJoin ==
  ASSUME NEW g, Events(g), NEW a, Event(a), a.kind = "text", NEW e, Event(e), e.kind = "text",
         NEW t, t = a.data \o e.data
  PROVE  Stream!Joined(Append(g, a), e) = Append(g, Stream!Text(t))
<1>1. /\ Append(g, a) # <<>> /\ Stream!Last(Append(g, a)) = a
      /\ Stream!Front(Append(g, a)) = g
  BY ListedMore DEF Events
<1>2. QED
  BY <1>1, Zenon DEF Stream!Joined

\* Texts are events of their kind.
LEMMA TextIs ==
  ASSUME NEW t \in Strings
  PROVE  /\ Stream!Text(t).kind = "text" /\ Stream!Text(t).data = t /\ Event(Stream!Text(t))
         /\ \A u \in Strings : t \o u \in Strings
<1>1. \A u \in Strings : t \o u \in Strings
  BY ConcatProperties DEF Strings
<1>2. QED
  BY <1>1 DEF Stream!Text, Event

\* Joined, events are events.
LEMMA JoinedKeeps ==
  ASSUME NEW s, Events(s), NEW e, Event(e)
  PROVE  Events(Stream!Joined(s, e))
<1>1. CASE s = <<>>
  BY <1>1, JoinedIs, EventsMore
<1>2. CASE s # <<>>
  <2>1. PICK g, a : Events(g) /\ Event(a) /\ s = Append(g, a)
    BY <1>2, EventsEnd
  <2>2. CASE e.kind = "text" /\ a.kind = "text"
    <3>1. a.data \in Strings /\ e.data \in Strings
      BY <2>1, <2>2 DEF Event
    <3>2. PICK x : x = Stream!Text(a.data \o e.data)
      OBVIOUS
    <3>3. Event(x)
      BY <3>1, <3>2, TextIs
    <3>4. Stream!Joined(s, e) = Append(g, x)
      BY <2>1, <2>2, <3>2, JoinedIs
    <3>5. QED
      BY <2>1, <3>3, <3>4, EventsMore
  <2>3. CASE ~(e.kind = "text" /\ a.kind = "text")
    <3>1. Stream!Joined(s, e) = Append(Append(g, a), e)
      BY <2>1, <2>3, JoinedIs
    <3>2. QED
      BY <2>1, <3>1, EventsMore
  <2>4. QED
    BY <2>2, <2>3
<1>3. QED
  BY <1>1, <1>2

\* Two texts join as one does that holds both.
LEMMA JoinTwice ==
  ASSUME NEW s, Events(s), NEW a \in Strings, NEW b \in Strings
  PROVE  Stream!Joined(Stream!Joined(s, Stream!Text(a)), Stream!Text(b)) =
           Stream!Joined(s, Stream!Text(a \o b))
<1>1. /\ Stream!Text(a).kind = "text" /\ Stream!Text(a).data = a /\ Event(Stream!Text(a))
      /\ Stream!Text(b).kind = "text" /\ Stream!Text(b).data = b /\ Event(Stream!Text(b))
      /\ a \o b \in Strings
  BY TextIs
<1>2. PICK ta, tb, tab : ta = Stream!Text(a) /\ tb = Stream!Text(b) /\ tab = Stream!Text(a \o b)
  OBVIOUS
<1>3. /\ ta.kind = "text" /\ ta.data = a /\ Event(ta) /\ tb.kind = "text" /\ tb.data = b /\ Event(tb)
      /\ tab.kind = "text" /\ tab.data = a \o b /\ Event(tab)
  BY <1>1, <1>2, TextIs
<1>4. \A g : Events(g) => Stream!Joined(Append(g, ta), tb) = Append(g, tab)
  BY <1>2, <1>3, JoinedIs
<1>5. Stream!Joined(Stream!Joined(s, ta), tb) = Stream!Joined(s, tab)
  <2>1. CASE s = <<>>
    BY <1>4, <2>1, JoinedIs, EventsMore
  <2>2. CASE s # <<>>
    <3>1. PICK g, x : Events(g) /\ Event(x) /\ s = Append(g, x)
      BY <2>2, EventsEnd
    <3>2. CASE x.kind = "text"
      <4>1. PICK c \in Strings : c = x.data
        BY <3>1, <3>2 DEF Event
      <4>2. c \o a \in Strings /\ (c \o a) \o b = c \o (a \o b)
        BY TextIs, ConcatAssociative DEF Strings
      <4>3. PICK tca : tca = Stream!Text(c \o a) /\ tca.kind = "text" /\ tca.data = c \o a /\ Event(tca)
        BY <4>2, TextIs
      <4>4. Stream!Joined(s, ta) = Append(g, tca)
        BY <1>3, <3>1, <3>2, <4>1, <4>3, JoinedIs
      <4>5. Stream!Joined(s, tab) = Append(g, Stream!Text(c \o (a \o b)))
        <5>1. c \o (a \o b) = x.data \o tab.data
          BY <1>3, <4>1
        <5>2. QED
          BY <1>3, <3>1, <3>2, <5>1, TextsJoin
      <4>6. Stream!Joined(Append(g, tca), tb) = Append(g, Stream!Text((c \o a) \o b))
        <5>1. (c \o a) \o b = tca.data \o tb.data
          BY <1>3, <4>3
        <5>2. QED
          BY <1>3, <3>1, <4>3, <5>1, TextsJoin
      <4>7. QED
        BY <4>2, <4>4, <4>5, <4>6
    <3>3. CASE x.kind # "text"
      <4>1. Stream!Joined(s, ta) = Append(s, ta) /\ Stream!Joined(s, tab) = Append(s, tab)
        BY <1>3, <3>1, <3>3, JoinedIs
      <4>2. QED
        BY <1>4, <4>1
    <3>4. QED
      BY <3>2, <3>3
  <2>3. QED
    BY <2>1, <2>2
<1>6. QED
  BY <1>2, <1>5

\* One event after the other.
LEMMA AllIs ==
  /\ \A s : Stream!JoinedAll(s, <<>>) = s
  /\ \A s, e : Stream!JoinedAll(s, Append(<<>>, e)) = Stream!Joined(s, e)
  /\ \A s, g, e : Events(g) =>
       Stream!JoinedAll(s, Append(g, e)) = Stream!Joined(Stream!JoinedAll(s, g), e)
<1>1. \A s, g, e : Listed(g) =>
        Stream!JoinedAll(s, Append(g, e)) = Stream!Joined(Stream!JoinedAll(s, g), e)
  BY JoinedMore
<1>2. \A s : Stream!JoinedAll(s, <<>>) = s
  BY JoinedMore, EventsMore
<1>3. ASSUME NEW s, NEW e PROVE Stream!JoinedAll(s, Append(<<>>, e)) = Stream!Joined(s, e)
  <2>1. PICK z : z = <<>> /\ Listed(z)
    BY EventsMore
  <2>2. Stream!JoinedAll(s, Append(z, e)) = Stream!Joined(Stream!JoinedAll(s, z), e)
    BY <1>1, <2>1
  <2>3. QED
    BY <1>2, <2>1, <2>2
<1>4. ASSUME NEW s, NEW g, NEW e, Events(g)
      PROVE  Stream!JoinedAll(s, Append(g, e)) = Stream!Joined(Stream!JoinedAll(s, g), e)
  BY <1>1, <1>4, Zenon DEF Events
<1>5. QED
  BY <1>2, <1>3, <1>4

\* Lists join as their events do.
LEMMA AllKeeps ==
  ASSUME NEW s, Events(s), NEW more, Events(more)
  PROVE  Events(Stream!JoinedAll(s, more))
<1>1. Len(more) \in Nat /\ \A i \in 1..Len(more) : Event(more[i])
  BY DEF Events, Listed
<1>2. PICK f : /\ f[0] = s /\ \A i \in 1..Len(more) : f[i] = Stream!Joined(f[i - 1], more[i])
               /\ Stream!JoinedAll(s, more) = f[Len(more)]
  BY <1>1, JoinedRun
<1> DEFINE M == {i \in 0..Len(more) : Events(f[i])}
<1>3. 0 \in M
  BY <1>1, <1>2
<1>4. ASSUME NEW i \in 1..Len(more), i - 1 \in M PROVE i \in M
  <2>1. Events(f[i - 1]) /\ Event(more[i]) /\ f[i] = Stream!Joined(f[i - 1], more[i])
    BY <1>1, <1>2, <1>4
  <2>2. Events(f[i])
    BY <2>1, JoinedKeeps
  <2>3. i \in 0..Len(more)
    BY <1>1
  <2>4. QED
    BY <2>2, <2>3
<1>5. \A i \in 0..Len(more) : i \in M
  <2> HIDE DEF M
  <2>1. QED
    BY <1>1, <1>3, <1>4, Climb
<1>6. Len(more) \in 0..Len(more)
  BY <1>1
<1>7. QED
  BY <1>2, <1>5, <1>6

\* An event joins a list that is then joined, or what the list was joined to.
LEMMA JoinEither ==
  ASSUME NEW s, Events(s), NEW more, Events(more), NEW e, Event(e)
  PROVE  Stream!JoinedAll(s, Stream!Joined(more, e)) = Stream!Joined(Stream!JoinedAll(s, more), e)
<1>1. CASE more = <<>>
  BY <1>1, JoinedIs, AllIs
<1>2. CASE more # <<>>
  <2>1. PICK g, a : Events(g) /\ Event(a) /\ more = Append(g, a)
    BY <1>2, EventsEnd
  <2>2. PICK x : x = Stream!JoinedAll(s, g) /\ Events(x)
    BY <2>1, AllKeeps
  <2>3. Stream!JoinedAll(s, more) = Stream!Joined(x, a)
    BY <2>1, <2>2, AllIs
  <2>4. CASE e.kind = "text" /\ a.kind = "text"
    <3>1. PICK c, d : c \in Strings /\ d \in Strings /\ a = Stream!Text(c) /\ e = Stream!Text(d)
                      /\ c = a.data /\ d = e.data
      BY <2>1, <2>4 DEF Event
    <3>2. Stream!Joined(more, e) = Append(g, Stream!Text(c \o d))
      BY <2>1, <2>4, <3>1, JoinedIs
    <3>3. Stream!JoinedAll(s, Stream!Joined(more, e)) = Stream!Joined(x, Stream!Text(c \o d))
      BY <2>1, <2>2, <3>2, AllIs
    <3>4. QED
      BY <2>2, <2>3, <3>1, <3>3, JoinTwice
  <2>5. CASE ~(e.kind = "text" /\ a.kind = "text")
    <3>1. Stream!Joined(more, e) = Append(more, e)
      BY <2>1, <2>5, JoinedIs
    <3>2. QED
      BY <3>1, AllIs
  <2>6. QED
    BY <2>4, <2>5
<1>3. QED
  BY <1>1, <1>2

-----------------------------------------------------------------------------
(* The parser.                                                             *)

States == {"ground", "escape", "escape-intermediate", "csi-entry", "csi-param",
           "csi-intermediate", "csi-ignore", "osc", "string"}

\* Nothing is left of a sequence.
Clear(p) ==
  /\ p.params = <<>> /\ p.current = <<>> /\ p.hasCurrent = FALSE /\ p.hasDigits = FALSE
  /\ p.prefix = <<>> /\ p.between = <<>>

\* What the parser keeps between two characters: text only outside sequences, a body
\* only in strings, and parameters only in sequences that have some.
Fields(p) ==
  p = [state |-> p.state, text |-> p.text, collected |-> p.collected, params |-> p.params,
       current |-> p.current, hasCurrent |-> p.hasCurrent, hasDigits |-> p.hasDigits,
       prefix |-> p.prefix, between |-> p.between]
Shaped(p) ==
  /\ Fields(p) /\ p.state \in States /\ p.text \in Strings
  /\ p.state # "ground" => p.text = <<>>
  /\ p.state \in {"ground", "escape", "osc", "string"} => Clear(p)
  /\ p.state \notin {"osc", "string"} => p.collected = <<>>

\* What a character does inside a sequence.
Turns(p, c, st) ==
  /\ Shaped(st.now) /\ st.now.text = <<>>
  /\ \/ st.out = <<>>
     \/ \E e : /\ st.out = <<e>> /\ e.kind # "text"
               /\ e = Executed => c \in Stream!Controls
  /\ c = "can" => st.now = Stream!Fresh /\ st.out = <<>>
  /\ c \in Stream!Controls => st.now = p /\ (st.out = <<>> \/ st.out = <<Executed>>)

LEMMA FreshIs == Shaped(Stream!Fresh) /\ Stream!Fresh.text = <<>> /\ Stream!Fresh.state = "ground"
<1>1. <<>> \in Strings
  BY DEF Strings
<1>2. QED
  BY <1>1 DEF Stream!Fresh, Shaped, Fields, Clear, States

\* Another state.
LEMMA ToIs ==
  ASSUME NEW p, Fields(p), NEW s
  PROVE  /\ Stream!To(p, s).out = <<>> /\ Fields(Stream!To(p, s).now)
         /\ Stream!To(p, s).now.state = s
         /\ Stream!To(p, s).now.text = p.text /\ Stream!To(p, s).now.collected = p.collected
         /\ Clear(p) => Clear(Stream!To(p, s).now)
         /\ s = p.state => Stream!To(p, s).now = p
  BY DEF Stream!To, Fields, Clear

\* Another state, and nothing left of the sequence.
LEMMA ClearedIs ==
  ASSUME NEW p, Fields(p), NEW s
  PROVE  /\ Stream!Cleared(p, s).out = <<>> /\ Fields(Stream!Cleared(p, s).now)
         /\ Stream!Cleared(p, s).now.state = s
         /\ Stream!Cleared(p, s).now.text = p.text
         /\ Stream!Cleared(p, s).now.collected = p.collected
         /\ Clear(Stream!Cleared(p, s).now)
  BY DEF Stream!Cleared, Stream!To, Fields, Clear

\* The end of a sequence.
LEMMA EmitIs ==
  ASSUME NEW p, Fields(p), NEW s, NEW e
  PROVE  /\ Stream!Emit(p, s, e).out = <<e>>
         /\ Stream!Emit(p, s, e).now = Stream!Cleared(p, s).now
  BY DEF Stream!Emit, Stream!Cleared, Stream!To

\* The body of a string goes when it ends.
LEMMA BodyGoes ==
  ASSUME NEW p, Fields(p), NEW q, q = [p EXCEPT !.collected = <<>>]
  PROVE  /\ Fields(q) /\ q.collected = <<>> /\ q.state = p.state /\ q.text = p.text
         /\ Clear(p) => Clear(q)
  BY DEF Fields, Clear

LEMMA FreshIf ==
  ASSUME NEW p, Fields(p), p.state = "ground", p.text = <<>>, p.collected = <<>>, Clear(p)
  PROVE  p = Stream!Fresh
  BY DEF Fields, Clear, Stream!Fresh

\* Within ESC.
LEMMA EscapeTurns ==
  ASSUME NEW p, Shaped(p), p.state \in {"escape", "escape-intermediate"}, NEW c,
         c # "can", c \notin Stream!Controls
  PROVE  Turns(p, c, Stream!Escape(p, c))
<1>1. Fields(p) /\ p.text = <<>> /\ p.collected = <<>> /\ (p.state = "escape" => Clear(p)) /\ <<>> \in Strings
  BY DEF Shaped
<1>2. CASE p.state = "escape" /\ c = "["
  <2>1. Stream!Escape(p, c) = Stream!To(p, "csi-entry")
    BY <1>2 DEF Stream!Escape
  <2>2. QED
    BY <1>1, <1>2, <2>1, ToIs DEF Turns, Shaped, States
<1>3. CASE p.state = "escape" /\ c \in {"]", "P"}
  <2>1. PICK s, q : s \in {"osc", "string"} /\ q = [p EXCEPT !.collected = <<>>]
                    /\ Stream!Escape(p, c) = Stream!To(q, s)
    BY <1>3 DEF Stream!Escape
  <2>2. Fields(q) /\ q.text = <<>> /\ q.collected = <<>> /\ Clear(q)
    BY <1>1, <1>3, <2>1, BodyGoes
  <2>3. PICK st : st = Stream!Escape(p, c)
    OBVIOUS
  <2>4. st.out = <<>> /\ Fields(st.now) /\ st.now.state = s /\ st.now.text = <<>>
        /\ st.now.collected = <<>> /\ Clear(st.now)
    <3>1. /\ Stream!To(q, s).out = <<>> /\ Fields(Stream!To(q, s).now)
          /\ Stream!To(q, s).now.state = s
          /\ Stream!To(q, s).now.text = q.text /\ Stream!To(q, s).now.collected = q.collected
          /\ Clear(Stream!To(q, s).now)
      BY <2>2, ToIs
    <3>2. QED
      BY <2>1, <2>2, <2>3, <3>1
  <2>5. Turns(p, c, st)
    BY <1>1, <2>1, <2>4 DEF Turns, Shaped, States
  <2>6. QED
    BY <2>3, <2>5
<1>4. CASE ~(p.state = "escape" /\ c \in {"[", "]", "P"})
  <2>1. CASE c \in Stream!Between
    <3>1. PICK q : q = [p EXCEPT !.between = Append(@, c)]
      OBVIOUS
    <3>2. Stream!Escape(p, c) = Stream!To(q, "escape-intermediate")
      BY <1>4, <2>1, <3>1 DEF Stream!Escape, Stream!Between, Stream!Finals, Stream!Digits, Stream!Privates
    <3>3. Fields(q) /\ q.text = <<>> /\ q.collected = <<>>
      BY <1>1, <3>1 DEF Fields
    <3>4. QED
      BY <1>1, <2>1, <3>2, <3>3, ToIs DEF Turns, Shaped, States
  <2>2. CASE c \in Stream!Finals \cup Stream!Digits \cup Stream!Privates \cup {":", ";"}
    <3>1. PICK e : e = [kind |-> "esc", final |-> c, between |-> p.between]
      OBVIOUS
    <3>2. Stream!Escape(p, c) = Stream!Emit(p, "ground", e)
      BY <1>4, <2>2, <3>1 DEF Stream!Escape, Stream!Between, Stream!Finals, Stream!Digits, Stream!Privates
    <3>3. e.kind = "esc" /\ Executed.kind = "execute"
      BY <3>1 DEF Executed
    <3>4. QED
      BY <1>1, <3>2, <3>3, EmitIs, ClearedIs DEF Turns, Shaped, States
  <2>3. CASE c \notin Stream!Between \cup Stream!Finals \cup Stream!Digits \cup Stream!Privates \cup {":", ";"}
    <3>1. Stream!Escape(p, c) = Stream!Cleared(p, "ground")
      BY <1>4, <2>3 DEF Stream!Escape
    <3>2. QED
      BY <1>1, <3>1, ClearedIs DEF Turns, Shaped, States
  <2>4. QED
    BY <2>1, <2>2, <2>3
<1>5. QED
  BY <1>2, <1>3, <1>4

\* Within a malformed sequence.
LEMMA IgnoredTurns ==
  ASSUME NEW p, Shaped(p), p.state = "csi-ignore", NEW c, c # "can", c \notin Stream!Controls
  PROVE  Turns(p, c, Stream!Ignored(p, c))
<1>1. Fields(p) /\ p.text = <<>> /\ p.collected = <<>> /\ <<>> \in Strings
  BY DEF Shaped
<1>2. CASE c \in Stream!Finals
  <2>1. Stream!Ignored(p, c) = Stream!Cleared(p, "ground")
    BY <1>2 DEF Stream!Ignored
  <2>2. QED
    BY <1>1, <2>1, ClearedIs DEF Turns, Shaped, States
<1>3. CASE c \notin Stream!Finals
  <2>1. Stream!Ignored(p, c) = Stream!To(p, "csi-ignore")
    BY <1>3 DEF Stream!Ignored
  <2>2. QED
    BY <1>1, <2>1, ToIs DEF Turns, Shaped, States
<1>4. QED
  BY <1>2, <1>3

\* Within a string.
LEMMA BodyTurns ==
  ASSUME NEW p, Shaped(p), p.state \in {"osc", "string"}, NEW c, c # "can", c \notin Stream!Controls
  PROVE  Turns(p, c, Stream!Body(p, c))
<1>1. Fields(p) /\ p.text = <<>> /\ Clear(p) /\ <<>> \in Strings
  BY DEF Shaped
<1>2. PICK q, e : q = [p EXCEPT !.collected = <<>>] /\ e = [kind |-> p.state, data |-> p.collected]
  OBVIOUS
<1>3. Fields(q) /\ q.text = <<>> /\ q.collected = <<>> /\ e.kind \in {"osc", "string"}
      /\ Executed.kind = "execute"
  BY <1>1, <1>2, BodyGoes DEF Executed
<1>4. CASE c = "bel"
  <2>1. Stream!Body(p, c) = Stream!Emit(q, "ground", e)
    BY <1>2, <1>4 DEF Stream!Body
  <2>2. QED
    BY <1>1, <1>3, <2>1, EmitIs, ClearedIs DEF Turns, Shaped, States
<1>5. CASE c = "esc"
  <2>1. Stream!Body(p, c) = Stream!Emit(q, "escape", e)
    BY <1>2, <1>5 DEF Stream!Body
  <2>2. QED
    BY <1>1, <1>3, <2>1, EmitIs, ClearedIs DEF Turns, Shaped, States
<1>6. CASE c \notin {"bel", "esc"}
  <2>1. PICK r : r = [p EXCEPT !.collected = Append(@, c)]
    OBVIOUS
  <2>2. Stream!Body(p, c) = Stream!To(r, p.state)
    BY <1>6, <2>1 DEF Stream!Body
  <2>3. Fields(r) /\ r.text = <<>> /\ Clear(r)
    BY <1>1, <2>1 DEF Fields, Clear
  <2>4. QED
    BY <1>1, <2>2, <2>3, ToIs DEF Turns, Shaped, States
<1>7. QED
  BY <1>4, <1>5, <1>6

\* What a character of a sequence may do to its parameters.
Notes(p, q) ==
  \/ \E d : q = [p EXCEPT !.current = Stream!Slot(p, d), !.hasCurrent = TRUE, !.hasDigits = TRUE]
  \/ \E d : q = [p EXCEPT !.current = d, !.hasCurrent = TRUE, !.hasDigits = FALSE]
  \/ q = Stream!ClosedParam(p)
  \/ \E d : q = [p EXCEPT !.prefix = Append(@, d)]
  \/ \E d : q = [p EXCEPT !.between = Append(@, d)]
  \/ q = p

\* The parameters of a sequence, with one more digit or one more of them.
LEMMA CsiKeeps ==
  ASSUME NEW p, Fields(p), NEW q,
         Notes(p, q)
  PROVE  Fields(q) /\ q.text = p.text /\ q.collected = p.collected
<1>1. CASE \E d : q = [p EXCEPT !.current = Stream!Slot(p, d), !.hasCurrent = TRUE, !.hasDigits = TRUE]
  <2>1. PICK x : q = [p EXCEPT !.current = x, !.hasCurrent = TRUE, !.hasDigits = TRUE]
    BY <1>1
  <2>2. QED
    BY <2>1 DEF Fields
<1>2. CASE \E d : q = [p EXCEPT !.current = d, !.hasCurrent = TRUE, !.hasDigits = FALSE]
  BY <1>2 DEF Fields
<1>3. CASE q = Stream!ClosedParam(p)
  <2>1. PICK x : q = [p EXCEPT !.params = x, !.current = <<>>, !.hasCurrent = FALSE, !.hasDigits = FALSE]
    BY <1>3 DEF Stream!ClosedParam
  <2>2. QED
    BY <2>1 DEF Fields
<1>4. CASE \E d : q = [p EXCEPT !.prefix = Append(@, d)]
  BY <1>4 DEF Fields
<1>5. CASE \E d : q = [p EXCEPT !.between = Append(@, d)]
  BY <1>5 DEF Fields
<1>6. QED
  BY <1>1, <1>2, <1>3, <1>4, <1>5 DEF Notes

\* A character of a sequence that has parameters.
LEMMA CsiIs ==
  ASSUME NEW p, NEW c, p.state \in {"csi-entry", "csi-param", "csi-intermediate"}
  PROVE  \/ \E q, s : /\ Stream!Csi(p, c) = Stream!To(q, s)
                      /\ s \in {"csi-entry", "csi-param", "csi-intermediate", "csi-ignore"}
                      /\ Notes(p, q)
         \/ Stream!Csi(p, c) = Stream!Emit(p, "ground", Stream!Finished(p))
<1>1. PICK early \in BOOLEAN : early = (p.state # "csi-intermediate")
  OBVIOUS
<1>2. CASE early /\ c \in Stream!Digits
  <2>1. PICK q : q = [p EXCEPT !.current = Stream!Slot(p, 1), !.hasCurrent = TRUE, !.hasDigits = TRUE]
    OBVIOUS
  <2>2. Stream!Csi(p, c) = Stream!To(q, "csi-param")
    BY <1>1, <1>2, <2>1 DEF Stream!Csi, Stream!Digits, Stream!Between, Stream!Finals, Stream!Privates
  <2>3. QED
    BY <2>1, <2>2 DEF Notes
<1>3. CASE early /\ c = ":"
  <2>1. PICK d : d = (IF p.hasCurrent THEN p.current ELSE Append(p.current, Stream!Omitted)) \o <<Stream!Omitted>>
    OBVIOUS
  <2>2. PICK q : q = [p EXCEPT !.current = (IF p.hasCurrent THEN @ ELSE Append(@, Stream!Omitted)) \o <<Stream!Omitted>>,
                      !.hasCurrent = TRUE, !.hasDigits = FALSE]
    OBVIOUS
  <2>3. Stream!Csi(p, c) = Stream!To(q, "csi-param")
    BY <1>1, <1>3, <2>2 DEF Stream!Csi, Stream!Digits, Stream!Between, Stream!Finals, Stream!Privates
  <2>4. q = [p EXCEPT !.current = d, !.hasCurrent = TRUE, !.hasDigits = FALSE]
    BY <2>1, <2>2 DEF Notes
  <2>5. QED
    BY <2>3, <2>4 DEF Notes
<1>4. CASE early /\ c = ";"
  <2>1. Stream!Csi(p, c) = Stream!To(Stream!ClosedParam(p), "csi-param")
    BY <1>1, <1>4 DEF Stream!Csi, Stream!Digits, Stream!Between, Stream!Finals, Stream!Privates
  <2>2. QED
    BY <2>1 DEF Notes
<1>5. CASE p.state = "csi-entry" /\ c \in Stream!Privates
  <2>1. PICK q : q = [p EXCEPT !.prefix = Append(@, c)]
    OBVIOUS
  <2>2. Stream!Csi(p, c) = Stream!To(q, "csi-entry")
    BY <1>5, <2>1 DEF Stream!Csi, Stream!Digits, Stream!Between, Stream!Finals, Stream!Privates
  <2>3. QED
    BY <2>1, <2>2 DEF Notes
<1>6. CASE c \in Stream!Between
  <2>1. PICK q : q = [p EXCEPT !.between = Append(@, c)]
    OBVIOUS
  <2>2. Stream!Csi(p, c) = Stream!To(q, "csi-intermediate")
    BY <1>6, <2>1 DEF Stream!Csi, Stream!Digits, Stream!Between, Stream!Finals, Stream!Privates
  <2>3. QED
    BY <2>1, <2>2 DEF Notes
<1>7. CASE c \in Stream!Finals
  BY <1>7 DEF Stream!Csi, Stream!Digits, Stream!Between, Stream!Finals, Stream!Privates
<1>8. CASE /\ ~(early /\ c \in Stream!Digits) /\ ~(early /\ c = ":") /\ ~(early /\ c = ";")
           /\ ~(p.state = "csi-entry" /\ c \in Stream!Privates)
           /\ c \notin Stream!Between /\ c \notin Stream!Finals
  <2>1. Stream!Csi(p, c) = Stream!To(p, "csi-ignore")
    BY <1>1, <1>8 DEF Stream!Csi
  <2>2. QED
    BY <2>1 DEF Notes
<1>9. QED
  BY <1>2, <1>3, <1>4, <1>5, <1>6, <1>7, <1>8

\* Within a sequence that has parameters.
LEMMA CsiTurns ==
  ASSUME NEW p, Shaped(p), p.state \in {"csi-entry", "csi-param", "csi-intermediate"}, NEW c,
         c # "can", c \notin Stream!Controls
  PROVE  Turns(p, c, Stream!Csi(p, c))
<1>1. Fields(p) /\ p.text = <<>> /\ p.collected = <<>> /\ <<>> \in Strings
  BY DEF Shaped
<1>2. PICK st : st = Stream!Csi(p, c)
  OBVIOUS
<1>3. CASE \E q, s : /\ st = Stream!To(q, s)
                     /\ s \in {"csi-entry", "csi-param", "csi-intermediate", "csi-ignore"}
                     /\ Fields(q) /\ q.text = <<>> /\ q.collected = <<>>
  <2>1. PICK q, s : /\ st = Stream!To(q, s)
                    /\ s \in {"csi-entry", "csi-param", "csi-intermediate", "csi-ignore"}
                    /\ Fields(q) /\ q.text = <<>> /\ q.collected = <<>>
    BY <1>3
  <2>2. st.out = <<>> /\ Fields(st.now) /\ st.now.state = s /\ st.now.text = <<>> /\ st.now.collected = <<>>
    <3>1. /\ Stream!To(q, s).out = <<>> /\ Fields(Stream!To(q, s).now)
          /\ Stream!To(q, s).now.state = s
          /\ Stream!To(q, s).now.text = q.text /\ Stream!To(q, s).now.collected = q.collected
      BY <2>1, ToIs
    <3>2. QED
      BY <2>1, <3>1
  <2>3. Turns(p, c, st)
    BY <1>1, <2>1, <2>2 DEF Turns, Shaped, States
  <2>4. QED
    BY <1>2, <2>3
<1>4. CASE st = Stream!Emit(p, "ground", Stream!Finished(p))
  <2>1. PICK e : e = Stream!Finished(p) /\ e.kind = "csi" /\ Executed.kind = "execute"
    <3>1. PICK e : e = Stream!Finished(p)
      OBVIOUS
    <3>2. e.kind = "csi"
      <4>1. PICK x, y, z : e = [kind |-> "csi", params |-> x, prefix |-> y, between |-> z]
        BY <3>1, Zenon DEF Stream!Finished
      <4>2. QED
        BY <4>1
    <3>3. QED
      BY <3>1, <3>2 DEF Executed
  <2>2. st.out = <<e>> /\ st.now = Stream!Cleared(p, "ground").now
    BY <1>1, <1>4, <2>1, EmitIs, Zenon
  <2>3. Turns(p, c, st)
    BY <1>1, <2>1, <2>2, ClearedIs DEF Turns, Shaped, States
  <2>4. QED
    BY <1>2, <2>3
<1>5. CASE st # Stream!Emit(p, "ground", Stream!Finished(p))
  <2>1. PICK q, s : /\ st = Stream!To(q, s)
                    /\ s \in {"csi-entry", "csi-param", "csi-intermediate", "csi-ignore"}
                    /\ Notes(p, q)
    BY <1>2, <1>5, CsiIs
  <2>2. Fields(q) /\ q.text = p.text /\ q.collected = p.collected
    BY <1>1, <2>1, CsiKeeps
  <2>3. QED
    BY <1>1, <1>3, <2>1, <2>2
<1>6. QED
  BY <1>4, <1>5

\* Inside a sequence, whichever it is.
LEMMA ParsedTurns ==
  ASSUME NEW p, Shaped(p), p.state # "ground", NEW c
  PROVE  Turns(p, c, Stream!Parsed(p, c))
<1>1. Fields(p) /\ p.text = <<>> /\ <<>> \in Strings /\ p.state \in States
  BY DEF Shaped
<1>2. Stream!InString = {"osc", "string"} /\ Stream!Controls = {"cr", "nul", "del"}
  BY DEF Stream!InString, Stream!Controls
<1>3. PICK st : st = Stream!Parsed(p, c)
  OBVIOUS
<1>4. CASE c = "can"
  <2>1. PICK q : q = [p EXCEPT !.collected = <<>>]
    OBVIOUS
  <2>2. Fields(q) /\ q.collected = <<>> /\ q.text = <<>>
    BY <1>1, <2>1, BodyGoes
  <2>3. st = Stream!Cleared(q, "ground")
    BY <1>3, <1>4, <2>1 DEF Stream!Parsed, Stream!Aborts
  <2>4. /\ Stream!Cleared(q, "ground").out = <<>> /\ Fields(Stream!Cleared(q, "ground").now)
        /\ Stream!Cleared(q, "ground").now.state = "ground"
        /\ Stream!Cleared(q, "ground").now.text = q.text
        /\ Stream!Cleared(q, "ground").now.collected = q.collected
        /\ Clear(Stream!Cleared(q, "ground").now)
    BY <2>2, ClearedIs
  <2>5. st.now = Stream!Fresh /\ st.out = <<>>
    BY <2>2, <2>3, <2>4, FreshIf
  <2>6. Turns(p, c, st)
    BY <1>2, <1>4, <2>5, FreshIs DEF Turns
  <2>7. QED
    BY <1>3, <2>6
<1>5. CASE c # "can" /\ c \in Stream!Controls \cup {"bel"} /\ ~(p.state \in {"osc", "string"} /\ c = "bel")
  <2>1. st = Stream!Control(p, c)
    BY <1>2, <1>3, <1>5 DEF Stream!Parsed, Stream!Aborts
  <2>2. Stream!To(p, p.state).now = p
    BY <1>1, ToIs
  <2>3. /\ st.now = p
        /\ st.out = IF p.state \notin {"osc", "string"} /\ c = "cr" THEN <<Executed>> ELSE <<>>
    BY <1>2, <2>1, <2>2 DEF Stream!Control, Stream!To, Executed
  <2>4. Turns(p, c, st)
    <3>1. Executed.kind # "text"
      BY DEF Executed
    <3>2. QED
      BY <1>1, <1>2, <1>5, <2>3, <3>1 DEF Turns
  <2>5. QED
    BY <1>3, <2>4
<1>6. CASE c = "esc" /\ p.state \notin {"osc", "string"}
  <2>1. st = Stream!Cleared(p, "escape")
    BY <1>2, <1>3, <1>6 DEF Stream!Parsed, Stream!Aborts
  <2>2. /\ Stream!Cleared(p, "escape").out = <<>> /\ Fields(Stream!Cleared(p, "escape").now)
        /\ Stream!Cleared(p, "escape").now.state = "escape"
        /\ Stream!Cleared(p, "escape").now.text = p.text
        /\ Stream!Cleared(p, "escape").now.collected = p.collected
        /\ Clear(Stream!Cleared(p, "escape").now)
    BY <1>1, ClearedIs
  <2>3. p.collected = <<>>
    BY <1>6 DEF Shaped
  <2>4. Turns(p, c, st)
    BY <1>1, <1>2, <1>6, <2>1, <2>2, <2>3 DEF Turns, Shaped, States
  <2>5. QED
    BY <1>3, <2>4
<1>7. CASE /\ c # "can" /\ c \notin Stream!Controls
           /\ ~(c = "bel" /\ p.state \notin {"osc", "string"})
           /\ ~(c = "esc" /\ p.state \notin {"osc", "string"})
  <2>1. CASE p.state \in {"escape", "escape-intermediate"}
    <3>1. Stream!Parsed(p, c) = Stream!Escape(p, c)
      BY <1>2, <1>7, <2>1 DEF Stream!Parsed
    <3>2. QED
      BY <1>7, <2>1, <3>1, EscapeTurns
  <2>2. CASE p.state = "csi-ignore"
    <3>1. Stream!Parsed(p, c) = Stream!Ignored(p, c)
      BY <1>2, <1>7, <2>2 DEF Stream!Parsed
    <3>2. QED
      BY <1>7, <2>2, <3>1, IgnoredTurns
  <2>3. CASE p.state \in {"osc", "string"}
    <3>1. Stream!Parsed(p, c) = Stream!Body(p, c)
      BY <1>2, <1>7, <2>3 DEF Stream!Parsed
    <3>2. QED
      BY <1>7, <2>3, <3>1, BodyTurns
  <2>4. CASE p.state \in {"csi-entry", "csi-param", "csi-intermediate"}
    <3>1. Stream!Parsed(p, c) = Stream!Csi(p, c)
      BY <1>2, <1>7, <2>4 DEF Stream!Parsed
    <3>2. QED
      BY <1>7, <2>4, <3>1, CsiTurns
  <2>5. QED
    BY <1>1, <2>1, <2>2, <2>3, <2>4 DEF States
<1>8. QED
  BY <1>2, <1>4, <1>5, <1>6, <1>7

\* A text that is waiting, and the parser without it.
Txt(t)  == IF t = <<>> THEN <<>> ELSE <<Stream!Text(t)>>
Bare(p) == [p EXCEPT !.text = <<>>]
Rest(state, text) ==
  [state |-> state, text |-> text, collected |-> <<>>, params |-> <<>>, current |-> <<>>,
   hasCurrent |-> FALSE, hasDigits |-> FALSE, prefix |-> <<>>, between |-> <<>>]
Started == Rest("escape", <<>>)
Silent  == {"esc", "nul", "del", "bel", "can", "c1"}

LEMMA BlankIf ==
  ASSUME NEW p, Fields(p), p.collected = <<>>, Clear(p)
  PROVE  p = Rest(p.state, p.text)
  BY DEF Fields, Clear, Rest

LEMMA BlankIs ==
  /\ \A s, t : /\ Fields(Rest(s, t)) /\ Clear(Rest(s, t)) /\ Rest(s, t).collected = <<>>
              /\ Rest(s, t).state = s /\ Rest(s, t).text = t
  /\ Stream!Fresh = Rest("ground", <<>>)
  BY DEF Fields, Clear, Rest, Stream!Fresh

\* Outside a sequence.
LEMMA GroundIs ==
  ASSUME NEW p, Shaped(p), p.state = "ground", NEW c
  PROVE  /\ c = "esc" => Stream!Parsed(p, c).now = Started /\ Stream!Parsed(p, c).out = Txt(p.text)
         /\ c = "cr" => /\ Stream!Parsed(p, c).now = Stream!Fresh
                        /\ Stream!Parsed(p, c).out = Append(Txt(p.text), Executed)
         /\ c \in Silent \ {"esc"} => /\ Stream!Parsed(p, c).now = Stream!Fresh
                                      /\ Stream!Parsed(p, c).out = Txt(p.text)
         /\ c \notin Silent \cup {"cr"} =>
              /\ Stream!Parsed(p, c).now = Rest("ground", Append(p.text, c))
              /\ Stream!Parsed(p, c).out = <<>>
<1>1. Fields(p) /\ Clear(p) /\ p.collected = <<>>
  BY DEF Shaped
<1>3. Stream!Parsed(p, c) = Stream!Ground(p, c)
  BY DEF Stream!Parsed, Stream!Aborts, Stream!InString
<1>4. Stream!Flushed(p).now = Stream!Fresh /\ Stream!Flushed(p).out = Txt(p.text)
  BY <1>1 DEF Stream!Flushed, Txt, Stream!Fresh, Fields, Clear
<1>5. Stream!Flushed(p) = [now |-> Stream!Fresh, out |-> Txt(p.text)]
  BY <1>4 DEF Stream!Flushed
<1>6. CASE c = "esc"
  <2>1. Stream!Cleared(Stream!Fresh, "escape") = [now |-> Started, out |-> <<>>]
    <3>1. PICK st : st = Stream!Cleared(Stream!Fresh, "escape")
      OBVIOUS
    <3>2. Fields(st.now) /\ Clear(st.now) /\ st.now.collected = <<>> /\ st.now.state = "escape"
          /\ st.now.text = <<>> /\ st.out = <<>>
      <4>1. Fields(Stream!Fresh) /\ Stream!Fresh.collected = <<>> /\ Stream!Fresh.text = <<>>
        BY BlankIs
      <4>2. QED
        BY <3>1, <4>1, ClearedIs
    <3>3. st = [now |-> st.now, out |-> st.out]
      BY <3>1 DEF Stream!Cleared, Stream!To
    <3>4. QED
      BY <3>1, <3>2, <3>3, BlankIf DEF Started
  <2>2. Stream!Ground(p, c) = [Stream!Cleared(Stream!Fresh, "escape") EXCEPT !.out = Txt(p.text)]
    BY <1>4, <1>6 DEF Stream!Ground
  <2>3. Stream!Ground(p, c) = [now |-> Started, out |-> Txt(p.text)]
    BY <2>1, <2>2
  <2>4. QED
    BY <1>3, <1>6, <2>3 DEF Silent
<1>7. CASE c = "cr"
  <2>1. Stream!Ground(p, c) = [Stream!Flushed(p) EXCEPT !.out = Append(@, Executed)]
    BY <1>7 DEF Stream!Ground, Executed
  <2>2. Stream!Ground(p, c) = [now |-> Stream!Fresh, out |-> Append(Txt(p.text), Executed)]
    <3>1. PICK x, f : x = Txt(p.text) /\ f = Stream!Flushed(p)
      OBVIOUS
    <3>2. f = [now |-> Stream!Fresh, out |-> x]
      BY <1>5, <3>1
    <3>3. [f EXCEPT !.out = Append(@, Executed)] = [now |-> Stream!Fresh, out |-> Append(x, Executed)]
      BY <3>2
    <3>4. QED
      BY <2>1, <3>1, <3>3
  <2>3. QED
    BY <1>3, <1>7, <2>2 DEF Silent
<1>8. CASE c \in Silent \ {"esc"}
  <2>1. Stream!Ground(p, c) = Stream!Flushed(p)
    BY <1>8 DEF Stream!Ground, Silent
  <2>2. QED
    BY <1>3, <1>4, <1>8, <2>1 DEF Silent
<1>9. CASE c \notin Silent \cup {"cr"}
  <2>1. Stream!Ground(p, c) = [now |-> [p EXCEPT !.text = Append(@, c)], out |-> <<>>]
    BY <1>9 DEF Stream!Ground, Silent
  <2>2. [p EXCEPT !.text = Append(@, c)] = Rest("ground", Append(p.text, c))
    <3>1. PICK q, x : q = [p EXCEPT !.text = Append(@, c)] /\ x = Append(p.text, c)
      OBVIOUS
    <3>2. q = [p EXCEPT !.text = x]
      BY <3>1
    <3>3. Fields(q) /\ Clear(q) /\ q.collected = <<>> /\ q.state = "ground" /\ q.text = x
      BY <1>1, <3>2 DEF Fields, Clear
    <3>4. QED
      BY <3>1, <3>3, BlankIf
  <2>3. QED
    BY <1>3, <1>9, <2>1, <2>2 DEF Silent
<1>10. QED
  BY <1>6, <1>7, <1>8, <1>9 DEF Silent

\* The waiting text comes and goes; the rest stays.
LEMMA BareIs ==
  /\ \A p : Fields(p) => /\ Bare(p).state = p.state /\ Bare(p).text = <<>>
                         /\ p.text = <<>> => Bare(p) = p
                         /\ Fields(Bare(p))
  /\ \A p : Shaped(p) => Shaped(Bare(p)) /\ (p.state = "ground" => Bare(p) = Stream!Fresh)
  /\ \A t \in Strings : /\ Shaped(Rest("ground", t)) /\ Rest("ground", t).text = t
                        /\ Bare(Rest("ground", t)) = Stream!Fresh
  /\ Shaped(Started) /\ Started.text = <<>> /\ Bare(Started) = Started
  /\ Bare(Stream!Fresh) = Stream!Fresh
<1>1. <<>> \in Strings
  BY DEF Strings
<1>2. ASSUME NEW p, Fields(p)
      PROVE  /\ Bare(p).state = p.state /\ Bare(p).text = <<>> /\ (p.text = <<>> => Bare(p) = p)
             /\ Fields(Bare(p)) /\ Bare(p).collected = p.collected
             /\ (Clear(p) => Clear(Bare(p)))
  BY <1>2 DEF Bare, Fields, Clear
<1>3. ASSUME NEW p, Shaped(p)
      PROVE  Shaped(Bare(p)) /\ (p.state = "ground" => Bare(p) = Stream!Fresh)
  <2>1. Fields(p)
    BY <1>3 DEF Shaped
  <2>2. Shaped(Bare(p))
    BY <1>1, <1>2, <1>3, <2>1 DEF Shaped
  <2>3. QED
    BY <1>2, <1>3, <2>1, <2>2, FreshIf DEF Shaped
<1>4. ASSUME NEW t \in Strings
      PROVE  /\ Shaped(Rest("ground", t)) /\ Rest("ground", t).text = t
             /\ Bare(Rest("ground", t)) = Stream!Fresh
  <2>1. PICK p : p = Rest("ground", t)
    OBVIOUS
  <2>2. Fields(p) /\ Clear(p) /\ p.collected = <<>> /\ p.state = "ground" /\ p.text = t
    BY <2>1, BlankIs
  <2>3. Shaped(p)
    BY <2>2 DEF Shaped, States
  <2>4. QED
    BY <1>3, <2>1, <2>2, <2>3
<1>5. Shaped(Started) /\ Started.text = <<>> /\ Bare(Started) = Started
  <2>1. Fields(Started) /\ Clear(Started) /\ Started.collected = <<>> /\ Started.state = "escape"
        /\ Started.text = <<>>
    BY BlankIs DEF Started
  <2>2. Shaped(Started)
    BY <1>1, <2>1 DEF Shaped, States
  <2>3. QED
    BY <1>2, <2>1, <2>2
<1>6. Bare(Stream!Fresh) = Stream!Fresh
  BY <1>3, FreshIs
<1>7. QED
  BY <1>2, <1>3, <1>4, <1>5, <1>6

-----------------------------------------------------------------------------
(* What is shown: the events, and the text that is waiting after them.     *)

\* What a character adds to what is shown, and what the parser is after it,
\* whatever text was waiting.
Adds(p, c) ==
  IF p.state # "ground" THEN Stream!Parsed(p, c).out
  ELSE IF c = "cr" THEN Append(<<>>, Executed)
  ELSE IF c \in Silent THEN <<>> ELSE Append(<<>>, Stream!Text(<<c>>))
Onward(p, c) ==
  IF p.state # "ground" THEN Stream!Parsed(p, c).now ELSE IF c = "esc" THEN Started ELSE Stream!Fresh

\* One event, or none.
Few(s) == s = <<>> \/ \E e : Event(e) /\ s = Append(<<>>, e)

LEMMA FewIs ==
  /\ \A e : <<e>> = Append(<<>>, e)
  /\ \A s : Few(s) => Events(s)
  /\ Event(Executed) /\ Executed.kind = "execute"
  /\ \A t \in Strings : Few(Txt(t))
<1>1. \A e : <<e>> = Append(<<>>, e)
  OBVIOUS
<1>2. ASSUME NEW s, Few(s) PROVE Events(s)
  <2>1. PICK z : z = <<>> /\ Events(z)
    BY EventsMore
  <2>2. CASE s = <<>>
    BY <2>1, <2>2
  <2>3. CASE s # <<>>
    <3>1. PICK e : Event(e) /\ s = Append(z, e)
      BY <1>2, <2>1, <2>3, Zenon DEF Few
    <3>2. QED
      BY <2>1, <3>1, EventsMore
  <2>4. QED
    BY <2>2, <2>3
<1>3. Event(Executed) /\ Executed.kind = "execute"
  BY DEF Event, Executed
<1>4. ASSUME NEW t \in Strings PROVE Few(Txt(t))
  <2>1. PICK e : e = Stream!Text(t) /\ Event(e)
    BY TextIs
  <2>2. Txt(t) = <<>> \/ Txt(t) = Append(<<>>, e)
    BY <1>1, <2>1 DEF Txt
  <2>3. QED
    BY <2>1, <2>2, Zenon DEF Few
<1>5. QED
  BY <1>1, <1>2, <1>3, <1>4

\* The waiting text is of no account for what a character adds.
LEMMA AddsBare ==
  ASSUME NEW p, Shaped(p), NEW c
  PROVE  /\ Adds(Bare(p), c) = Adds(p, c) /\ Onward(Bare(p), c) = Onward(p, c)
<1>1. Fields(p) /\ (p.state # "ground" => p.text = <<>>)
  BY DEF Shaped
<1>2. Bare(p).state = p.state /\ (p.text = <<>> => Bare(p) = p)
  BY <1>1, BareIs
<1>3. QED
  BY <1>1, <1>2, Zenon DEF Adds, Onward

\* A text that a character ends or continues.
LEMMA TextGrows ==
  ASSUME NEW t \in Strings, NEW c \in Characters, NEW s, Events(s)
  PROVE  /\ Append(t, c) \in Strings /\ <<c>> \in Strings
         /\ Stream!JoinedAll(s, Txt(Append(t, c))) =
              Stream!Joined(Stream!JoinedAll(s, Txt(t)), Stream!Text(<<c>>))
<1>1. Append(t, c) \in Strings /\ <<c>> \in Strings /\ Append(t, c) # <<>> /\ Append(t, c) = t \o <<c>>
  BY AppendProperties DEF Strings
<1>2. Txt(Append(t, c)) = Append(<<>>, Stream!Text(Append(t, c)))
  BY <1>1, FewIs DEF Txt
<1>3. Stream!JoinedAll(s, Txt(Append(t, c))) = Stream!Joined(s, Stream!Text(Append(t, c)))
  BY <1>2, AllIs
<1>4. CASE t = <<>>
  <2>1. Append(t, c) = <<c>> /\ Txt(t) = <<>>
    BY <1>4 DEF Txt
  <2>2. QED
    BY <1>1, <1>3, <2>1, AllIs
<1>5. CASE t # <<>>
  <2>1. Txt(t) = Append(<<>>, Stream!Text(t))
    BY <1>5, FewIs DEF Txt
  <2>2. Stream!JoinedAll(s, Txt(t)) = Stream!Joined(s, Stream!Text(t))
    BY <2>1, AllIs
  <2>3. PICK u : u = <<c>> /\ u \in Strings /\ Append(t, c) = t \o u
    BY <1>1
  <2>4. Stream!Joined(Stream!Joined(s, Stream!Text(t)), Stream!Text(u)) = Stream!Joined(s, Stream!Text(t \o u))
    BY <2>3, JoinTwice
  <2>5. QED
    BY <1>1, <1>3, <2>2, <2>3, <2>4
<1>6. QED
  BY <1>4, <1>5

\* A character shows what it adds.
LEMMA StepShows ==
  ASSUME NEW p, Shaped(p), NEW c \in Characters, NEW s, Events(s), NEW st, st = Stream!Parsed(p, c)
  PROVE  /\ Shaped(st.now) /\ Few(Adds(p, c)) /\ Bare(st.now) = Onward(p, c)
         /\ Events(Stream!JoinedAll(s, st.out))
         /\ Stream!JoinedAll(Stream!JoinedAll(s, st.out), Txt(st.now.text)) =
              Stream!JoinedAll(Stream!JoinedAll(s, Txt(p.text)), Adds(p, c))
<1>1. Fields(p) /\ p.text \in Strings /\ (p.state # "ground" => p.text = <<>>)
  BY DEF Shaped
<1>2. Txt(<<>>) = <<>> /\ \A x : Stream!JoinedAll(x, <<>>) = x
  BY AllIs DEF Txt
<1>3. CASE p.state # "ground"
  <2>1. Turns(p, c, st)
    BY <1>3, ParsedTurns
  <2>2. Shaped(st.now) /\ st.now.text = <<>> /\ Fields(st.now)
    BY <2>1 DEF Turns, Shaped
  <2>3. Adds(p, c) = st.out /\ Onward(p, c) = st.now
    BY <1>3 DEF Adds, Onward
  <2>4. Few(st.out)
    <3>1. CASE st.out = <<>>
      BY <3>1 DEF Few
    <3>2. CASE st.out # <<>>
      <4>1. PICK e : st.out = <<e>> /\ e.kind # "text"
        BY <2>1, <3>2 DEF Turns
      <4>2. Event(e) /\ st.out = Append(<<>>, e)
        BY <4>1, FewIs DEF Event
      <4>3. QED
        BY <4>2, Zenon DEF Few
    <3>3. QED
      BY <3>1, <3>2
  <2>5. Bare(st.now) = st.now
    BY <2>2, BareIs
  <2>6. Events(Stream!JoinedAll(s, st.out))
    BY <2>4, FewIs, AllKeeps
  <2>7. QED
    BY <1>1, <1>2, <1>3, <2>2, <2>3, <2>4, <2>5, <2>6
<1>4. CASE p.state = "ground"
  <2>1. PICK t, x : t = p.text /\ x = Txt(t) /\ Few(x) /\ Events(x) /\ t \in Strings
    BY <1>1, FewIs
  <2>2. PICK sx : sx = Stream!JoinedAll(s, x) /\ Events(sx)
    BY <2>1, AllKeeps
  <2>3. Stream!Fresh.text = <<>> /\ Shaped(Stream!Fresh)
    BY FreshIs
  <2>4. CASE c = "esc"
    <3>1. st.now = Started /\ st.out = x /\ Adds(p, c) = <<>> /\ Onward(p, c) = Started
      BY <1>4, <2>1, <2>4, GroundIs DEF Adds, Onward, Silent
    <3>2. Few(<<>>)
      BY DEF Few
    <3>3. QED
      BY <1>2, <2>1, <2>2, <3>1, <3>2, BareIs
  <2>5. CASE c = "cr"
    <3>1. /\ st.now = Stream!Fresh /\ st.out = Append(x, Executed)
          /\ Adds(p, c) = Append(<<>>, Executed) /\ Onward(p, c) = Stream!Fresh
      BY <1>4, <2>1, <2>5, GroundIs DEF Adds, Onward, Silent
    <3>2. Few(Adds(p, c))
      BY <3>1, FewIs, Zenon DEF Few
    <3>3. Stream!JoinedAll(s, st.out) = Stream!Joined(sx, Executed)
      BY <2>1, <2>2, <3>1, AllIs
    <3>4. Stream!JoinedAll(sx, Adds(p, c)) = Stream!Joined(sx, Executed)
      BY <3>1, AllIs
    <3>5. Events(Stream!Joined(sx, Executed))
      BY <2>2, FewIs, JoinedKeeps
    <3>6. QED
      BY <1>2, <2>1, <2>2, <2>3, <3>1, <3>2, <3>3, <3>4, <3>5, BareIs
  <2>6. CASE c \in Silent \ {"esc"}
    <3>1. st.now = Stream!Fresh /\ st.out = x /\ Adds(p, c) = <<>> /\ Onward(p, c) = Stream!Fresh
      BY <1>4, <2>1, <2>6, GroundIs DEF Adds, Onward, Silent
    <3>2. Few(<<>>)
      BY DEF Few
    <3>3. QED
      BY <1>2, <2>1, <2>2, <2>3, <3>1, <3>2, BareIs
  <2>7. CASE c \notin Silent \cup {"cr"}
    <3>1. PICK u : u = Append(t, c) /\ u \in Strings /\ <<c>> \in Strings
      BY <2>1, <2>2, TextGrows
    <3>2. /\ st.now = Rest("ground", u) /\ st.out = <<>>
          /\ Adds(p, c) = Append(<<>>, Stream!Text(<<c>>)) /\ Onward(p, c) = Stream!Fresh
      BY <1>4, <2>1, <2>7, <3>1, GroundIs DEF Adds, Onward, Silent
    <3>3. Shaped(st.now) /\ st.now.text = u /\ Bare(st.now) = Stream!Fresh
      BY <3>1, <3>2, BareIs
    <3>4. Event(Stream!Text(<<c>>))
      BY <3>1, TextIs
    <3>5. Few(Adds(p, c))
      BY <3>2, <3>4, Zenon DEF Few
    <3>6. Stream!JoinedAll(s, Txt(u)) = Stream!Joined(sx, Stream!Text(<<c>>))
      BY <2>1, <2>2, <3>1, TextGrows
    <3>7. Stream!JoinedAll(sx, Adds(p, c)) = Stream!Joined(sx, Stream!Text(<<c>>))
      BY <3>2, AllIs
    <3>8. QED
      BY <1>2, <2>1, <2>2, <3>2, <3>3, <3>5, <3>6, <3>7
  <2>8. QED
    BY <2>4, <2>5, <2>6, <2>7
<1>5. QED
  BY <1>3, <1>4

\* What is waiting is shown when a chunk ends.
LEMMA FlushedIs ==
  ASSUME NEW p, Shaped(p)
  PROVE  Stream!Flushed(p).now = Bare(p) /\ Stream!Flushed(p).out = Txt(p.text)
  BY DEF Stream!Flushed, Bare, Txt

-----------------------------------------------------------------------------
(* The whole of a stream.                                                  *)

\* What holds of nothing, and of one character more, holds of every stream.
LEMMA StringsClimb ==
  ASSUME NEW S, <<>> \in S, \A s \in Strings, c \in Characters : s \in S => Append(s, c) \in S
  PROVE  \A s \in Strings : s \in S
<1>1. SUFFICES ASSUME NEW s \in Strings PROVE s \in S
  OBVIOUS
<1>2. PICK n \in Nat : n = Len(s)
  BY DEF Strings
<1> DEFINE Start(i) == [j \in 1..i |-> s[j]]
           M == {i \in 0..n : Start(i) \in S}
<1>3. \A i \in 0..n : Start(i) \in Strings /\ Len(Start(i)) = i
  <2>1. SUFFICES ASSUME NEW i \in 0..n PROVE Start(i) \in Strings /\ Len(Start(i)) = i
    OBVIOUS
  <2>2. \A j \in 1..i : s[j] \in Characters
    BY <1>2 DEF Strings
  <2>3. Start(i) \in [1..i -> Characters] /\ i \in Nat
    BY <2>2
  <2>4. QED
    BY <2>3, SeqDef DEF Strings
<1>4. 0 \in M
  <2>1. Start(0) \in Seq(Characters) /\ Len(Start(0)) = 0
    BY <1>2, <1>3 DEF Strings
  <2> HIDE DEF Start
  <2>2. Start(0) = <<>>
    BY <2>1, EmptySeq
  <2>3. QED
    BY <1>2, <2>2
<1>5. ASSUME NEW i \in 1..n, i - 1 \in M PROVE i \in M
  <2>1. i - 1 \in 0..n /\ i \in 0..n /\ (i - 1) + 1 = i /\ i \in 1..Len(s)
    BY <1>2
  <2>2. s[i] \in Characters
    BY <2>1 DEF Strings
  <2>3. PICK u, v : u = Start(i - 1) /\ v = Start(i)
    OBVIOUS
  <2>4. u \in Strings /\ Len(u) = i - 1 /\ v \in Strings /\ Len(v) = i /\ u \in S
        /\ (\A j \in 1..(i - 1) : u[j] = s[j]) /\ (\A j \in 1..i : v[j] = s[j])
    BY <1>3, <1>5, <2>1, <2>3
  <2>5. v = Append(u, s[i])
    <3>1. PICK w : w = Append(u, s[i])
      OBVIOUS
    <3>2. /\ w \in Seq(Characters) /\ Len(w) = i /\ (\A j \in 1..(i - 1) : w[j] = u[j]) /\ w[i] = s[i]
      BY <2>1, <2>2, <2>4, <3>1, AppendProperties DEF Strings
    <3>3. \A j \in 1..i : w[j] = v[j]
      <4>1. ASSUME NEW j \in 1..i PROVE w[j] = v[j]
        <5>1. j \in 1..(i - 1) \/ j = i
          BY <2>1
        <5>2. QED
          BY <2>4, <3>2, <4>1, <5>1
      <4>2. QED
        BY <4>1
    <3>4. QED
      BY <2>4, <3>1, <3>2, <3>3, SeqEqual DEF Strings
  <2> HIDE DEF Start
  <2>6. QED
    BY <2>1, <2>2, <2>3, <2>4, <2>5
<1>6. \A i \in 0..n : i \in M
  <2> HIDE DEF M
  <2>1. QED
    BY <1>2, <1>4, <1>5, Climb
<1>7. Start(n) = s
  BY <1>2 DEF Strings
<1>8. QED
  BY <1>2, <1>6, <1>7

\* Streams are lists.
LEMMA StringListed ==
  ASSUME NEW s \in Strings
  PROVE  Listed(s)
  BY DEF Strings, Listed

\* One character more, read.
LEMMA ReadNext ==
  ASSUME NEW s \in Strings, NEW c
  PROVE  /\ Stream!Read(Append(s, c)).now = Stream!Parsed(Stream!Read(s).now, c).now
         /\ Stream!Read(Append(s, c)).out =
              Stream!JoinedAll(Stream!Read(s).out, Stream!Parsed(Stream!Read(s).now, c).out)
<1>1. Stream!Read(Append(s, c)) = Stream!ReadOn(Stream!Read(s), c)
  BY StringListed, ReadMore
<1>2. QED
  BY <1>1 DEF Stream!ReadOn

LEMMA ReadNone ==
  /\ <<>> \in Strings /\ Stream!Read(<<>>).now = Stream!Fresh /\ Stream!Read(<<>>).out = <<>>
<1>1. <<>> \in Strings
  BY DEF Strings
<1>2. Stream!Read(<<>>) = [now |-> Stream!Fresh, out |-> <<>>]
  BY EventsMore, ReadMore
<1>3. QED
  BY <1>1, <1>2

\* Whatever was read, the parser and the events have their shape.
LEMMA ReadKeeps ==
  ASSUME NEW s \in Strings
  PROVE  Shaped(Stream!Read(s).now) /\ Events(Stream!Read(s).out)
<1> DEFINE S == {t \in Strings : Shaped(Stream!Read(t).now) /\ Events(Stream!Read(t).out)}
<1>1. <<>> \in S
  BY ReadNone, FreshIs, EventsMore
<1>2. ASSUME NEW t \in Strings, NEW c \in Characters, t \in S PROVE Append(t, c) \in S
  <2>1. Append(t, c) \in Strings
    BY AppendProperties DEF Strings
  <2>2. PICK st, p, x : st = Stream!Parsed(p, c) /\ p = Stream!Read(t).now /\ x = Stream!Read(t).out
    OBVIOUS
  <2>3. Shaped(p) /\ Events(x)
    BY <1>2, <2>2
  <2>4. Shaped(st.now) /\ Events(Stream!JoinedAll(x, st.out))
    BY <2>2, <2>3, StepShows
  <2>5. QED
    BY <2>1, <2>2, <2>4, ReadNext
<1>3. QED
  <2> HIDE DEF S
  <2>1. \A t \in Strings : t \in S
    BY <1>1, <1>2, StringsClimb
  <2>2. QED
    BY <2>1 DEF S

\* The parser at the end of a stream that is shown to its end.
At(s) == Bare(Stream!Read(s).now)

\* One character more, shown.
LEMMA WholeMore ==
  /\ \A s \in Strings, c \in Characters :
       /\ Append(s, c) \in Strings
       /\ Stream!Whole(Append(s, c)) = Stream!JoinedAll(Stream!Whole(s), Adds(At(s), c))
       /\ At(Append(s, c)) = Onward(At(s), c)
       /\ Few(Adds(At(s), c))
  /\ \A s \in Strings : /\ Events(Stream!Whole(s)) /\ Shaped(At(s)) /\ At(s).text = <<>>
                        /\ At(s).state = "ground" => At(s) = Stream!Fresh
                        /\ Stream!Whole(s) = Stream!JoinedAll(Stream!Read(s).out, Txt(Stream!Read(s).now.text))
  /\ <<>> \in Strings /\ Stream!Whole(<<>>) = <<>> /\ At(<<>>) = Stream!Fresh
<1>1. ASSUME NEW s \in Strings
      PROVE  /\ Events(Stream!Whole(s)) /\ Shaped(At(s)) /\ At(s).text = <<>>
             /\ (At(s).state = "ground" => At(s) = Stream!Fresh)
             /\ Stream!Whole(s) = Stream!JoinedAll(Stream!Read(s).out, Txt(Stream!Read(s).now.text))
             /\ Shaped(Stream!Read(s).now) /\ Events(Stream!Read(s).out)
  <2>1. PICK p, x : p = Stream!Read(s).now /\ x = Stream!Read(s).out /\ Shaped(p) /\ Events(x)
    BY ReadKeeps
  <2>2. Stream!Flushed(p).out = Txt(p.text) /\ Few(Txt(p.text))
    BY <2>1, FlushedIs, FewIs DEF Shaped
  <2>3. Stream!Whole(s) = Stream!JoinedAll(x, Txt(p.text))
    BY <2>1, <2>2 DEF Stream!Whole
  <2>4. Events(Stream!Whole(s))
    BY <2>1, <2>2, <2>3, FewIs, AllKeeps
  <2>5. Fields(p) /\ Shaped(Bare(p)) /\ Bare(p).text = <<>> /\ Bare(p).state = p.state
        /\ (p.state = "ground" => Bare(p) = Stream!Fresh)
    BY <2>1, BareIs DEF Shaped
  <2>6. QED
    BY <2>1, <2>3, <2>4, <2>5 DEF At
<1>2. ASSUME NEW s \in Strings, NEW c \in Characters
      PROVE  /\ Append(s, c) \in Strings
             /\ Stream!Whole(Append(s, c)) = Stream!JoinedAll(Stream!Whole(s), Adds(At(s), c))
             /\ At(Append(s, c)) = Onward(At(s), c)
             /\ Few(Adds(At(s), c))
  <2>1. Append(s, c) \in Strings
    BY AppendProperties DEF Strings
  <2>2. PICK p, x, st : p = Stream!Read(s).now /\ x = Stream!Read(s).out /\ st = Stream!Parsed(p, c)
    OBVIOUS
  <2>3. Shaped(p) /\ Events(x) /\ At(s) = Bare(p) /\ Stream!Whole(s) = Stream!JoinedAll(x, Txt(p.text))
    BY <1>1, <2>2 DEF At
  <2>4. Adds(At(s), c) = Adds(p, c) /\ Onward(At(s), c) = Onward(p, c)
    BY <2>3, AddsBare
  <2>5. /\ Few(Adds(p, c)) /\ Bare(st.now) = Onward(p, c)
        /\ Stream!JoinedAll(Stream!JoinedAll(x, st.out), Txt(st.now.text)) =
             Stream!JoinedAll(Stream!JoinedAll(x, Txt(p.text)), Adds(p, c))
    BY <2>2, <2>3, StepShows
  <2>6. Stream!Read(Append(s, c)).now = st.now /\ Stream!Read(Append(s, c)).out = Stream!JoinedAll(x, st.out)
    BY <2>2, ReadNext
  <2>7. Stream!Whole(Append(s, c)) = Stream!JoinedAll(Stream!JoinedAll(x, st.out), Txt(st.now.text))
    BY <1>1, <2>1, <2>6
  <2>8. At(Append(s, c)) = Bare(st.now)
    BY <2>6 DEF At
  <2>9. QED
    BY <2>1, <2>3, <2>4, <2>5, <2>7, <2>8
<1>3. /\ <<>> \in Strings /\ Stream!Whole(<<>>) = <<>> /\ At(<<>>) = Stream!Fresh
  <2>1. Stream!Fresh.text = <<>> /\ Txt(<<>>) = <<>>
    BY FreshIs DEF Txt
  <2>2. QED
    BY <1>1, <2>1, ReadNone, AllIs, BareIs DEF At
<1>4. QED
  BY <1>1, <1>2, <1>3

-----------------------------------------------------------------------------
(* Controls, and cancels.                                                  *)

\* Without some of them, events are events and characters are characters.
LEMMA WithoutKeeps ==
  /\ \A s, S : Events(s) => Events(Stream!Without(s, S))
  /\ \A S : \A s \in Strings : Stream!Without(s, S) \in Strings
<1>1. ASSUME NEW s, NEW S, Events(s) PROVE Events(Stream!Without(s, S))
  <2>1. Len(s) \in Nat /\ \A i \in 1..Len(s) : Event(s[i])
    BY <1>1 DEF Events, Listed
  <2>2. PICK f : /\ f[0] = <<>> /\ \A i \in 1..Len(s) : f[i] = Stream!Unless(f[i - 1], s[i], S)
                 /\ Stream!Without(s, S) = f[Len(s)]
    BY <2>1, WithoutRun
  <2> DEFINE M == {i \in 0..Len(s) : Events(f[i])}
  <2>3. 0 \in M
    BY <2>1, <2>2, EventsMore
  <2>4. ASSUME NEW i \in 1..Len(s), i - 1 \in M PROVE i \in M
    <3>1. Events(f[i - 1]) /\ Event(s[i]) /\ i \in 0..Len(s)
      BY <2>1, <2>4
    <3>2. f[i] = f[i - 1] \/ f[i] = Append(f[i - 1], s[i])
      BY <2>2, <2>4 DEF Stream!Unless
    <3>3. Events(f[i])
      BY <3>1, <3>2, EventsMore
    <3>4. QED
      BY <3>1, <3>3
  <2>5. \A i \in 0..Len(s) : i \in M
    <3> HIDE DEF M
    <3>1. QED
      BY <2>1, <2>3, <2>4, Climb
  <2>6. QED
    BY <2>1, <2>2, <2>5
<1>2. ASSUME NEW S PROVE \A s \in Strings : Stream!Without(s, S) \in Strings
  <2> DEFINE T == {s \in Strings : Stream!Without(s, S) \in Strings}
  <2>1. <<>> \in T
    <3>1. Stream!Without(<<>>, S) = <<>>
      BY EventsMore, WithoutMore
    <3>2. QED
      BY <3>1, ReadNone
  <2>2. ASSUME NEW s \in Strings, NEW c \in Characters, s \in T PROVE Append(s, c) \in T
    <3>1. Stream!Without(Append(s, c), S) = Stream!Unless(Stream!Without(s, S), c, S)
      BY StringListed, WithoutMore
    <3>2. Stream!Without(s, S) \in Strings
      BY <2>2
    <3>3. Stream!Without(Append(s, c), S) \in Strings /\ Append(s, c) \in Strings
      BY <3>1, <3>2, AppendProperties DEF Stream!Unless, Strings
    <3>4. QED
      BY <3>3
  <2> HIDE DEF T
  <2>3. \A s \in Strings : s \in T
    BY <2>1, <2>2, StringsClimb
  <2>4. QED
    BY <2>3 DEF T
<1>3. QED
  BY <1>1, <1>2

\* What is shown, without what was executed.
Plain(s) == Stream!JoinedAll(<<>>, Stream!Without(s, {Executed}))

\* One event more.
LEMMA PlainIs ==
  /\ Plain(<<>>) = <<>>
  /\ \A s : Events(s) => Events(Plain(s))
  /\ \A s, e : Events(s) => /\ e = Executed => Plain(Append(s, e)) = Plain(s)
                            /\ e # Executed => Plain(Append(s, e)) = Stream!Joined(Plain(s), e)
<1>1. Plain(<<>>) = <<>>
  <2>1. Stream!Without(<<>>, {Executed}) = <<>>
    BY EventsMore, WithoutMore
  <2>2. QED
    BY <2>1, AllIs DEF Plain
<1>2. ASSUME NEW s, Events(s) PROVE Events(Plain(s))
  <2>1. PICK w : w = Stream!Without(s, {Executed}) /\ Events(w)
    BY <1>2, WithoutKeeps
  <2>2. Events(Stream!JoinedAll(<<>>, w))
    BY <2>1, EventsMore, AllKeeps
  <2>3. QED
    BY <2>1, <2>2 DEF Plain
<1>3. ASSUME NEW s, NEW e, Events(s)
      PROVE  /\ e = Executed => Plain(Append(s, e)) = Plain(s)
             /\ e # Executed => Plain(Append(s, e)) = Stream!Joined(Plain(s), e)
  <2>1. PICK w : w = Stream!Without(s, {Executed}) /\ Events(w)
    BY <1>3, WithoutKeeps
  <2>2. Stream!Without(Append(s, e), {Executed}) = Stream!Unless(w, e, {Executed})
    BY <1>3, <2>1, WithoutMore DEF Events
  <2>3. CASE e = Executed
    <3>1. Stream!Unless(w, e, {Executed}) = w
      BY <2>3 DEF Stream!Unless
    <3>2. QED
      BY <2>1, <2>2, <2>3, <3>1 DEF Plain
  <2>4. CASE e # Executed
    <3>1. Stream!Unless(w, e, {Executed}) = Append(w, e)
      BY <2>4 DEF Stream!Unless
    <3>2. Stream!JoinedAll(<<>>, Append(w, e)) = Stream!Joined(Stream!JoinedAll(<<>>, w), e)
      BY <2>1, AllIs
    <3>3. QED
      BY <2>1, <2>2, <2>4, <3>1, <3>2 DEF Plain
  <2>5. QED
    BY <2>3, <2>4
<1>4. QED
  BY <1>1, <1>2, <1>3

\* One event more, joined.
LEMMA PlainJoined ==
  ASSUME NEW s, Events(s), NEW e, Event(e)
  PROVE  /\ e = Executed => Plain(Stream!Joined(s, e)) = Plain(s)
         /\ e # Executed => Plain(Stream!Joined(s, e)) = Stream!Joined(Plain(s), e)
<1>1. CASE s = <<>>
  <2>1. Stream!Joined(s, e) = Append(s, e)
    BY <1>1, JoinedIs
  <2>2. QED
    BY <2>1, PlainIs
<1>2. CASE s # <<>>
  <2>1. PICK g, a : Events(g) /\ Event(a) /\ s = Append(g, a)
    BY <1>2, EventsEnd
  <2>2. CASE e.kind = "text" /\ a.kind = "text"
    <3>1. PICK t, u : t \in Strings /\ u \in Strings /\ a = Stream!Text(t) /\ e = Stream!Text(u)
                      /\ t = a.data /\ u = e.data
      BY <2>1, <2>2 DEF Event
    <3>2. PICK x : x = Stream!Text(t \o u) /\ x.kind = "text"
      BY <3>1, TextIs
    <3>3. Stream!Joined(s, e) = Append(g, x)
      BY <2>1, <2>2, <3>1, <3>2, JoinedIs
    <3>4. x # Executed /\ a # Executed /\ e # Executed
      BY <2>2, <3>2 DEF Executed
    <3>5. PICK h : h = Plain(g) /\ Events(h)
      BY <2>1, PlainIs
    <3>6. Plain(Append(g, x)) = Stream!Joined(h, x) /\ Plain(s) = Stream!Joined(h, a)
      BY <2>1, <3>4, <3>5, PlainIs
    <3>7. Stream!Joined(Stream!Joined(h, a), e) = Stream!Joined(h, x)
      BY <3>1, <3>2, <3>5, JoinTwice
    <3>8. QED
      BY <3>3, <3>4, <3>6, <3>7
  <2>3. CASE ~(e.kind = "text" /\ a.kind = "text")
    <3>1. Stream!Joined(s, e) = Append(s, e)
      BY <2>1, <2>3, JoinedIs
    <3>2. QED
      BY <3>1, PlainIs
  <2>4. QED
    BY <2>2, <2>3
<1>3. QED
  BY <1>1, <1>2

\* A control adds nothing but that it is executed, and leaves the parser where it was;
\* nothing else is executed.
LEMMA ControlIs ==
  ASSUME NEW p, Shaped(p), p.state = "ground" => p = Stream!Fresh, NEW c
  PROVE  /\ c \in Stream!Controls => /\ Onward(p, c) = p
                                     /\ Adds(p, c) = <<>> \/ Adds(p, c) = Append(<<>>, Executed)
         /\ \A e : c \notin Stream!Controls /\ Adds(p, c) = Append(<<>>, e) => e # Executed
<1>1. Stream!Controls = {"cr", "nul", "del"}
  BY DEF Stream!Controls
<1>2. \A e : Append(<<>>, e) # <<>> /\ <<e>>[1] = e /\ <<e>> = Append(<<>>, e)
  OBVIOUS
<1>3. CASE p.state # "ground"
  <2>1. PICK st : st = Stream!Parsed(p, c) /\ Turns(p, c, st)
    BY <1>3, ParsedTurns
  <2>2. Adds(p, c) = st.out /\ Onward(p, c) = st.now
    BY <1>3, <2>1 DEF Adds, Onward
  <2>3. ASSUME NEW e, c \notin Stream!Controls, Adds(p, c) = Append(<<>>, e) PROVE e # Executed
    <3>1. PICK a : st.out = <<a>> /\ (a = Executed => c \in Stream!Controls)
      BY <1>2, <2>1, <2>2, <2>3 DEF Turns
    <3>2. a = e
      <4>1. <<a>> = <<e>> /\ <<a>>[1] = a /\ <<e>>[1] = e
        BY <1>2, <2>2, <2>3, <3>1
      <4>2. QED
        BY <4>1
    <3>3. QED
      BY <2>3, <3>1, <3>2
  <2>4. ASSUME c \in Stream!Controls
        PROVE  Onward(p, c) = p /\ (Adds(p, c) = <<>> \/ Adds(p, c) = Append(<<>>, Executed))
    BY <1>2, <2>1, <2>2, <2>4 DEF Turns
  <2>5. QED
    BY <2>3, <2>4
<1>4. CASE p.state = "ground"
  <2>1. CASE c = "cr"
    BY <1>1, <1>4, <2>1 DEF Adds, Onward
  <2>2. CASE c \in Silent
    <3>1. Adds(p, c) = <<>>
      BY <1>4, <2>2 DEF Adds, Silent
    <3>2. c \in Stream!Controls => Onward(p, c) = p
      BY <1>1, <1>4 DEF Onward
    <3>3. QED
      BY <1>2, <3>1, <3>2
  <2>3. CASE c \notin Silent \cup {"cr"}
    <3>1. PICK t : t = Stream!Text(<<c>>) /\ t # Executed
      <4>1. Stream!Text(<<c>>).kind = "text" /\ Executed.kind = "execute"
        BY DEF Stream!Text, Executed
      <4>2. QED
        BY <4>1
    <3>2. Adds(p, c) = Append(<<>>, t) /\ c \notin Stream!Controls
      BY <1>1, <1>4, <2>3, <3>1 DEF Adds, Silent
    <3>3. QED
      BY <1>2, <3>1, <3>2
  <2>4. QED
    BY <2>1, <2>2, <2>3
<1>5. QED
  BY <1>3, <1>4

\* Without its controls a stream shows the same, but for what is executed.
LEMMA PassThrough ==
  ASSUME NEW s \in Strings
  PROVE  Plain(Stream!Whole(s)) = Stream!Whole(Stream!Without(s, Stream!Controls))
<1> DEFINE C == Stream!Controls
           S == {t \in Strings : /\ Plain(Stream!Whole(t)) = Stream!Whole(Stream!Without(t, C))
                                 /\ At(Stream!Without(t, C)) = At(t)}
<1>1. <<>> \in S
  <2>1. Stream!Without(<<>>, C) = <<>>
    BY EventsMore, WithoutMore
  <2>2. QED
    BY <2>1, WholeMore, PlainIs
<1>2. ASSUME NEW t \in Strings, NEW c \in Characters, t \in S PROVE Append(t, c) \in S
  <2>1. PICK w, p, x, a : w = Stream!Without(t, C) /\ p = At(t) /\ x = Stream!Whole(t) /\ a = Adds(p, c)
    OBVIOUS
  <2>2. /\ w \in Strings /\ Events(x) /\ Few(a) /\ Shaped(p) /\ (p.state = "ground" => p = Stream!Fresh)
        /\ Append(t, c) \in Strings /\ Stream!Whole(Append(t, c)) = Stream!JoinedAll(x, a)
        /\ At(Append(t, c)) = Onward(p, c)
    BY <2>1, WholeMore, WithoutKeeps
  <2>3. Plain(x) = Stream!Whole(w) /\ At(w) = p
    BY <1>2, <2>1
  <2>4. Stream!Without(Append(t, c), C) = Stream!Unless(w, c, C)
    BY <2>1, StringListed, WithoutMore
  <2>5. CASE c \in C
    <3>1. Stream!Unless(w, c, C) = w
      BY <2>5 DEF Stream!Unless
    <3>2. Onward(p, c) = p /\ (a = <<>> \/ a = Append(<<>>, Executed))
      BY <2>1, <2>2, <2>5, ControlIs
    <3>3. Stream!JoinedAll(x, a) = x \/ Stream!JoinedAll(x, a) = Stream!Joined(x, Executed)
      BY <3>2, AllIs
    <3>4. Plain(Stream!Joined(x, Executed)) = Plain(x)
      BY <2>2, FewIs, PlainJoined
    <3>5. Plain(Stream!JoinedAll(x, a)) = Plain(x)
      BY <3>3, <3>4
    <3>6. QED
      BY <2>2, <2>3, <2>4, <3>1, <3>2, <3>5
  <2>6. CASE c \notin C
    <3>1. Stream!Unless(w, c, C) = Append(w, c)
      BY <2>6 DEF Stream!Unless
    <3>2. Stream!Whole(Append(w, c)) = Stream!JoinedAll(Stream!Whole(w), a) /\ At(Append(w, c)) = Onward(p, c)
      BY <2>1, <2>2, <2>3, WholeMore
    <3>3. Plain(Stream!JoinedAll(x, a)) = Stream!JoinedAll(Plain(x), a)
      <4>1. CASE a = <<>>
        BY <4>1, AllIs
      <4>2. CASE a # <<>>
        <5>1. PICK e : Event(e) /\ a = Append(<<>>, e)
          BY <2>2, <4>2, Zenon DEF Few
        <5>2. e # Executed
          BY <2>1, <2>2, <2>6, <5>1, ControlIs
        <5>3. Stream!JoinedAll(x, a) = Stream!Joined(x, e) /\ Stream!JoinedAll(Plain(x), a) = Stream!Joined(Plain(x), e)
          BY <5>1, AllIs
        <5>4. Plain(Stream!Joined(x, e)) = Stream!Joined(Plain(x), e)
          BY <2>2, <5>1, <5>2, PlainJoined
        <5>5. QED
          BY <5>3, <5>4
      <4>3. QED
        BY <4>1, <4>2
    <3>4. QED
      BY <2>2, <2>3, <2>4, <3>1, <3>2, <3>3
  <2>7. QED
    BY <2>5, <2>6
<1>3. QED
  <2> HIDE DEF S
  <2>1. \A t \in Strings : t \in S
    BY <1>1, <1>2, StringsClimb
  <2>2. QED
    BY <2>1 DEF S

\* After a cancel the parser is as at first, and what was waiting has been shown.
LEMMA CancelIs ==
  ASSUME NEW p, Shaped(p)
  PROVE  Onward(p, "can") = Stream!Fresh /\ Adds(p, "can") = <<>>
<1>1. CASE p.state # "ground"
  BY <1>1, ParsedTurns DEF Turns, Adds, Onward
<1>2. CASE p.state = "ground"
  BY <1>2 DEF Adds, Onward, Silent
<1>3. QED
  BY <1>1, <1>2

\* What is before a cancel and what is after it are shown one after the other.
LEMMA AfterCancel ==
  ASSUME NEW u \in Strings, "can" \in Characters, NEW v \in Strings
  PROVE  Stream!Whole(Append(u, "can") \o v) = Stream!JoinedAll(Stream!Whole(u), Stream!Whole(v))
<1>1. PICK x : x = Append(u, "can") /\ x \in Strings
  BY WholeMore
<1> DEFINE S == {t \in Strings : /\ x \o t \in Strings /\ At(x \o t) = At(t)
                                 /\ Stream!Whole(x \o t) = Stream!JoinedAll(Stream!Whole(u), Stream!Whole(t))}
<1>2. <<>> \in S
  <2>1. x \o <<>> = x
    BY <1>1 DEF Strings
  <2>2. Shaped(At(u)) /\ At(x) = Onward(At(u), "can")
        /\ Stream!Whole(x) = Stream!JoinedAll(Stream!Whole(u), Adds(At(u), "can"))
    BY <1>1, WholeMore
  <2>3. At(x) = Stream!Fresh /\ Stream!Whole(x) = Stream!JoinedAll(Stream!Whole(u), <<>>)
    BY <2>2, CancelIs
  <2>4. QED
    BY <1>1, <2>1, <2>3, WholeMore
<1>3. ASSUME NEW t \in Strings, NEW c \in Characters, t \in S PROVE Append(t, c) \in S
  <2>1. x \o t \in Strings /\ At(x \o t) = At(t)
        /\ Stream!Whole(x \o t) = Stream!JoinedAll(Stream!Whole(u), Stream!Whole(t))
    BY <1>3
  <2>2. x \o Append(t, c) = Append(x \o t, c)
    BY <1>1 DEF Strings
  <2>3. PICK y, a, wu, wt : y = x \o t /\ a = Adds(At(t), c) /\ wu = Stream!Whole(u) /\ wt = Stream!Whole(t)
    OBVIOUS
  <2>4. /\ Append(t, c) \in Strings /\ Append(y, c) \in Strings /\ Few(a) /\ Events(wu) /\ Events(wt)
        /\ At(Append(y, c)) = Onward(At(t), c) /\ At(Append(t, c)) = Onward(At(t), c)
        /\ Stream!Whole(Append(t, c)) = Stream!JoinedAll(wt, a)
        /\ Stream!Whole(Append(y, c)) = Stream!JoinedAll(Stream!JoinedAll(wu, wt), a)
    BY <2>1, <2>3, WholeMore
  <2>5. Stream!JoinedAll(wu, Stream!JoinedAll(wt, a)) = Stream!JoinedAll(Stream!JoinedAll(wu, wt), a)
    <3>1. CASE a = <<>>
      BY <3>1, AllIs
    <3>2. CASE a # <<>>
      <4>1. PICK e : Event(e) /\ a = Append(<<>>, e)
        BY <2>4, <3>2, Zenon DEF Few
      <4>2. /\ Stream!JoinedAll(wt, a) = Stream!Joined(wt, e)
            /\ Stream!JoinedAll(Stream!JoinedAll(wu, wt), a) = Stream!Joined(Stream!JoinedAll(wu, wt), e)
        BY <4>1, AllIs
      <4>3. QED
        BY <2>4, <4>1, <4>2, JoinEither
    <3>3. QED
      BY <3>1, <3>2
  <2>6. QED
    BY <2>2, <2>3, <2>4, <2>5
<1>4. QED
  <2> HIDE DEF S
  <2>1. \A t \in Strings : t \in S
    BY <1>2, <1>3, StringsClimb
  <2>2. QED
    BY <1>1, <2>1 DEF S

\* A stream around one of its characters.
LEMMA CutAt ==
  ASSUME NEW s \in Strings, NEW i \in 1..Len(s)
  PROVE  /\ SubSeq(s, 1, i - 1) \in Strings /\ SubSeq(s, i + 1, Len(s)) \in Strings
         /\ s = Append(SubSeq(s, 1, i - 1), s[i]) \o SubSeq(s, i + 1, Len(s))
<1>1. PICK u, v : u = SubSeq(s, 1, i - 1) /\ v = SubSeq(s, i + 1, Len(s))
  OBVIOUS
<1>2. Len(s) \in Nat /\ s \in Seq(Characters) /\ s[i] \in Characters /\ i \in Int /\ 1 <= i /\ i <= Len(s)
  BY DEF Strings
<1>3. /\ u \in Seq(Characters) /\ Len(u) = i - 1 /\ \A j \in 1..(i - 1) : u[j] = s[j]
  <2>1. \A j \in 1..(i - 1) : s[j] \in Characters
    BY <1>2
  <2>2. QED
    BY <1>1, <1>2, <2>1
<1>4. /\ v \in Seq(Characters) /\ Len(v) = Len(s) - i /\ \A j \in 1..(Len(s) - i) : v[j] = s[i + j]
  <2>1. \A j \in (i + 1)..Len(s) : s[j] \in Characters
    BY <1>2
  <2>2. QED
    BY <1>1, <1>2, <2>1
<1>5. PICK w : w = Append(u, s[i])
  OBVIOUS
<1>6. /\ w \in Seq(Characters) /\ Len(w) = i /\ (\A j \in 1..(i - 1) : w[j] = u[j]) /\ w[i] = s[i]
  BY <1>2, <1>3, <1>5, AppendProperties
<1>7. PICK x : x = w \o v
  OBVIOUS
<1>8. /\ x \in Seq(Characters) /\ Len(x) = Len(s)
      /\ \A j \in 1..Len(s) : x[j] = IF j <= i THEN w[j] ELSE v[j - i]
  <2>1. /\ x \in Seq(Characters) /\ Len(x) = Len(w) + Len(v)
        /\ \A j \in 1..(Len(w) + Len(v)) : x[j] = IF j <= Len(w) THEN w[j] ELSE v[j - Len(w)]
    BY <1>4, <1>6, <1>7, ConcatProperties
  <2>2. Len(w) = i /\ Len(w) + Len(v) = Len(s)
    BY <1>2, <1>4, <1>6
  <2>3. QED
    BY <2>1, <2>2
<1>9. ASSUME NEW j \in 1..Len(s) PROVE x[j] = s[j]
  <2>1. CASE j \in 1..(i - 1)
    BY <1>2, <1>3, <1>6, <1>8, <2>1
  <2>2. CASE j = i
    BY <1>6, <1>8, <2>2
  <2>3. CASE j > i
    <3>1. j - i \in 1..(Len(s) - i) /\ i + (j - i) = j
      BY <1>2, <2>3
    <3>2. v[j - i] = s[i + (j - i)]
      BY <1>4, <3>1
    <3>3. QED
      BY <1>2, <1>8, <2>3, <3>1, <3>2
  <2>4. QED
    BY <1>2, <2>1, <2>2, <2>3
<1>10. x = s
  BY <1>2, <1>8, <1>9, SeqEqual
<1>11. QED
  BY <1>1, <1>3, <1>4, <1>5, <1>7, <1>10 DEF Strings

-----------------------------------------------------------------------------
(* The stream, chunk by chunk.                                             *)

StreamConstants == Openings \subseteq Seq(Characters)

\* The parser is the one of the whole stream but for the text that is waiting, and
\* that text is what has not been shown of it.
StreamInv ==
  /\ given \in Strings /\ Shaped(parser) /\ Events(reported)
  /\ Bare(parser) = At(given)
  /\ Stream!JoinedAll(reported, Txt(parser.text)) = Stream!Whole(given)

LEMMA StreamInit == ASSUME StreamConstants, Stream!Init PROVE StreamInv
<1>1. given \in Strings /\ parser = Stream!Read(given).now /\ reported = Stream!Read(given).out
  BY DEF StreamConstants, Stream!Init, Strings
<1>2. QED
  BY <1>1, ReadKeeps, WholeMore DEF StreamInv, At

LEMMA FeedKeeps ==
  ASSUME StreamInv, NEW c \in Characters, Stream!Feed(c)
  PROVE  StreamInv'
<1>1. PICK st : st = Stream!Parsed(parser, c)
  OBVIOUS
<1>2. parser' = st.now /\ reported' = Stream!JoinedAll(reported, st.out) /\ given' = Append(given, c)
  BY <1>1 DEF Stream!Feed
<1>3. /\ Shaped(st.now) /\ Bare(st.now) = Onward(parser, c) /\ Events(Stream!JoinedAll(reported, st.out))
      /\ Stream!JoinedAll(Stream!JoinedAll(reported, st.out), Txt(st.now.text)) =
           Stream!JoinedAll(Stream!Whole(given), Adds(parser, c))
  BY <1>1, StepShows DEF StreamInv
<1>4. Adds(parser, c) = Adds(At(given), c) /\ Onward(parser, c) = Onward(At(given), c)
  BY AddsBare DEF StreamInv
<1>5. /\ given' \in Strings /\ At(given') = Onward(At(given), c)
      /\ Stream!Whole(given') = Stream!JoinedAll(Stream!Whole(given), Adds(At(given), c))
  BY <1>2, WholeMore DEF StreamInv
<1>6. QED
  BY <1>2, <1>3, <1>4, <1>5 DEF StreamInv

LEMMA EndChunkKeeps == ASSUME StreamInv, Stream!EndChunk PROVE StreamInv'
<1>1. PICK b : b = Bare(parser) /\ Stream!Flushed(parser).now = b
               /\ Stream!Flushed(parser).out = Txt(parser.text)
  BY FlushedIs DEF StreamInv
<1>2. /\ parser' = b /\ reported' = Stream!JoinedAll(reported, Txt(parser.text)) /\ given' = given
  BY <1>1 DEF Stream!EndChunk, Stream!EndsChunk
<1>3. /\ Fields(parser) /\ parser.text \in Strings
  BY DEF StreamInv, Shaped
<1>4. /\ Shaped(b) /\ b.text = <<>> /\ Bare(b) = b
  <2>1. Shaped(b) /\ b.text = <<>> /\ Fields(b)
    BY <1>1, <1>3, BareIs DEF StreamInv
  <2>2. QED
    BY <2>1, BareIs
<1>5. reported' = Stream!Whole(given) /\ Txt(<<>>) = <<>>
  BY <1>2 DEF StreamInv, Txt
<1>6. Stream!JoinedAll(reported', Txt(b.text)) = Stream!Whole(given)
  BY <1>4, <1>5, AllIs
<1>7. Events(reported')
  BY <1>5, WholeMore DEF StreamInv
<1>8. QED
  BY <1>1, <1>2, <1>4, <1>6, <1>7 DEF StreamInv

LEMMA StreamNext == StreamInv /\ [Stream!Next]_(Stream!streamVars) => StreamInv'
<1> SUFFICES ASSUME StreamInv, [Stream!Next]_(Stream!streamVars) PROVE StreamInv'
  OBVIOUS
<1>1. CASE Stream!EndChunk
  BY <1>1, EndChunkKeeps
<1>2. ASSUME NEW c \in Characters, Stream!Feed(c) PROVE StreamInv'
  BY <1>2, FeedKeeps
<1>3. CASE UNCHANGED Stream!streamVars
  BY <1>3 DEF Stream!streamVars, StreamInv, At
<1>4. QED
  BY <1>1, <1>2, <1>3 DEF Stream!Next

\* What is shown of the whole stream is what each of the three parts asks for.
LEMMA StreamIsSound == ASSUME StreamInv PROVE Stream!StreamSound
<1>1. Stream!SplitIsInvisible
  BY FlushedIs DEF StreamInv, Stream!SplitIsInvisible
<1>2. Stream!ControlsPassThrough
  <2>1. Plain(Stream!Whole(given)) = Stream!Whole(Stream!Without(given, Stream!Controls))
    BY PassThrough DEF StreamInv
  <2>2. QED
    BY <2>1 DEF Plain, Executed, Stream!ControlsPassThrough
<1>3. Stream!CancelStartsAfresh
  <2>1. SUFFICES ASSUME NEW i \in 1..Len(given), given[i] = "can"
                 PROVE  Stream!Whole(given) =
                          Stream!JoinedAll(Stream!Whole(SubSeq(given, 1, i - 1)),
                                           Stream!Whole(SubSeq(given, i + 1, Len(given))))
    BY DEF Stream!CancelStartsAfresh
  <2>2. given \in Strings /\ "can" \in Characters
    BY <2>1 DEF StreamInv, Strings
  <2>3. PICK u, v : /\ u = SubSeq(given, 1, i - 1) /\ v = SubSeq(given, i + 1, Len(given))
                    /\ u \in Strings /\ v \in Strings /\ given = Append(u, "can") \o v
    <3>1. PICK g : g = given
      OBVIOUS
    <3>2. g \in Strings /\ i \in 1..Len(g) /\ g[i] = "can"
      BY <2>1, <2>2, <3>1
    <3>3. /\ SubSeq(g, 1, i - 1) \in Strings /\ SubSeq(g, i + 1, Len(g)) \in Strings
          /\ g = Append(SubSeq(g, 1, i - 1), g[i]) \o SubSeq(g, i + 1, Len(g))
      BY <3>2, CutAt
    <3>4. g = Append(SubSeq(g, 1, i - 1), "can") \o SubSeq(g, i + 1, Len(g))
      BY <3>2, <3>3
    <3>5. QED
      BY <3>1, <3>3, <3>4, Zenon
  <2>4. Stream!Whole(Append(u, "can") \o v) = Stream!JoinedAll(Stream!Whole(u), Stream!Whole(v))
    BY <2>2, <2>3, AfterCancel
  <2>5. QED
    BY <2>3, <2>4
<1>4. QED
  BY <1>1, <1>2, <1>3 DEF Stream!StreamSound

\* Wherever the stream is cut, the same events are reported as for the whole of it; a
\* control within a sequence neither ends it nor is part of it; and nothing before a
\* cancel changes what comes of what is after it.
THEOREM StreamSoundHolds == ASSUME StreamConstants PROVE Stream!Spec => []Stream!StreamSound
<1>1. Stream!Init => StreamInv
  BY StreamInit
<1>2. StreamInv /\ [Stream!Next]_(Stream!streamVars) => StreamInv'
  BY StreamNext
<1>3. StreamInv => Stream!StreamSound
  BY StreamIsSound
<1>4. QED
  BY <1>1, <1>2, <1>3, PTL DEF Stream!Spec

\* The stream is of its characters, the parser is in one of its states, and text waits
\* only where no sequence is open.
THEOREM StreamTypesHold == ASSUME StreamConstants PROVE Stream!Spec => []Stream!TypeOK
<1>1. StreamInv => Stream!TypeOK
  <2> SUFFICES ASSUME StreamInv PROVE Stream!TypeOK
    OBVIOUS
  <2>1. DOMAIN parser = DOMAIN Stream!Fresh
    <3>1. Fields(parser) /\ Fields(Stream!Fresh)
      BY FreshIs DEF StreamInv, Shaped
    <3>2. QED
      BY <3>1 DEF Fields
  <2>2. QED
    BY <2>1 DEF StreamInv, Shaped, States, Strings, Stream!TypeOK, Stream!InString
<1>2. Stream!Init => StreamInv
  BY StreamInit
<1>3. StreamInv /\ [Stream!Next]_(Stream!streamVars) => StreamInv'
  BY StreamNext
<1>4. QED
  BY <1>1, <1>2, <1>3, PTL DEF Stream!Spec

-----------------------------------------------------------------------------
(* The rows of a terminal and the page that shows them.                    *)

CONSTANTS Pages, Styles, Default, TabWidth, Cap, MaxColumn, MaxShown
VARIABLES rows, column, style, trimmed, elements, mirrored, dirty, live, wiped, done
Screen == INSTANCE TerminalScreen WITH MaxEvents <- MaxShown

Glyphs == {" ", "narrow", "wide", "mark"}
Cells  == [text : Seq(Glyphs), style : Styles]
Rows   == Seq(Cells)

\* What the rules about halves tell apart.
Kind(cell) ==
  IF cell.text = <<>> THEN "rest" ELSE IF Head(cell.text) = "wide" THEN "wide" ELSE "plain"
Whole(row) ==
  \A i \in 1..Len(row) :
    /\ Kind(row[i]) = "rest" => i > 1 /\ Kind(row[i - 1]) = "wide"
    /\ Kind(row[i]) = "wide" => i + 1 <= Len(row) /\ Kind(row[i + 1]) = "rest"

\* A function on the first numbers is a sequence.
LEMMA AsRow ==
  ASSUME NEW T, NEW m \in Nat, NEW f, f \in [1..m -> T]
  PROVE  f \in Seq(T) /\ Len(f) = m
  BY SeqDef

\* Of one glyph, or of none.
LEMMA CellIs ==
  ASSUME NEW st \in Styles
  PROVE  /\ \A c \in Glyphs : Screen!Cell(<<c>>, st) \in Cells
         /\ \A c \in Glyphs \ {"wide"} : Kind(Screen!Cell(<<c>>, st)) = "plain"
         /\ Kind(Screen!Cell(<<"wide">>, st)) = "wide"
         /\ Screen!Rest(st) \in Cells /\ Kind(Screen!Rest(st)) = "rest"
         /\ Screen!Blank(st) \in Cells /\ Kind(Screen!Blank(st)) = "plain"
<1>1. \A c \in Glyphs : <<c>> \in Seq(Glyphs) /\ <<c>> # <<>> /\ Head(<<c>>) = c
  OBVIOUS
<1>2. <<>> \in Seq(Glyphs) /\ " " \in Glyphs \ {"wide"} /\ "wide" \in Glyphs
  BY DEF Glyphs
<1>3. \A t \in Seq(Glyphs) : Screen!Cell(t, st) \in Cells /\ Screen!Cell(t, st).text = t
  BY DEF Screen!Cell, Cells
<1>4. \A c \in Glyphs : Screen!Cell(<<c>>, st) \in Cells /\ Kind(Screen!Cell(<<c>>, st)) = IF c = "wide" THEN "wide" ELSE "plain"
  BY <1>1, <1>3 DEF Kind
<1>5. Screen!Rest(st) \in Cells /\ Kind(Screen!Rest(st)) = "rest"
  BY <1>2, <1>3 DEF Screen!Rest, Kind
<1>6. Screen!Blank(st) = Screen!Cell(<<" ">>, st)
  BY DEF Screen!Blank
<1>7. QED
  BY <1>2, <1>4, <1>5, <1>6

\* A cell of a row, and the kinds there are.
LEMMA RowIs ==
  ASSUME NEW row \in Rows
  PROVE  /\ Len(row) \in Nat
         /\ \A i \in 1..Len(row) : /\ row[i] \in Cells /\ row[i].style \in Styles
                                   /\ Kind(row[i]) \in {"rest", "wide", "plain"}
         /\ \A i : Screen!IsRest(row, i) <=> i \in 1..Len(row) /\ Kind(row[i]) = "rest"
<1>1. Len(row) \in Nat /\ DOMAIN row = 1..Len(row) /\ \A i \in 1..Len(row) : row[i] \in Cells
  BY DEF Rows
<1>2. ASSUME NEW cell \in Cells
      PROVE  /\ cell.style \in Styles /\ Kind(cell) \in {"rest", "wide", "plain"}
             /\ Kind(cell) = "rest" <=> cell.text = <<>>
  BY DEF Cells, Kind
<1>3. QED
  BY <1>1, <1>2 DEF Screen!IsRest

\* A repair blanks the half on either side that belongs to the cell, if there is one.
LEMMA RepairedIs ==
  ASSUME NEW row \in Rows, NEW i \in Nat \ {0}, NEW r, r = Screen!Repaired(row, i)
  PROVE  /\ r \in Rows /\ Len(r) = Len(row)
         /\ \A j \in 1..Len(row) :
              IF \/ Screen!IsRest(row, i) /\ i > 1 /\ j = i - 1
                 \/ i \in 1..Len(row) /\ ~Screen!IsRest(row, i) /\ Screen!IsRest(row, i + 1) /\ j = i + 1
              THEN Kind(r[j]) = "plain" ELSE r[j] = row[j]
<1>1. Len(row) \in Nat /\ DOMAIN row = 1..Len(row) /\ row \in [1..Len(row) -> Cells]
  BY DEF Rows
<1>2. ASSUME NEW k \in 1..Len(row), NEW q, q = [row EXCEPT ![k] = Screen!Blank(@.style)]
      PROVE  /\ q \in Rows /\ Len(q) = Len(row) /\ Kind(q[k]) = "plain"
             /\ \A j \in 1..Len(row) : j # k => q[j] = row[j]
  <2>1. PICK b : b = Screen!Blank(row[k].style) /\ b \in Cells /\ Kind(b) = "plain"
    BY RowIs, CellIs
  <2>2. q = [row EXCEPT ![k] = b]
    BY <1>2, <2>1
  <2>3. q \in [1..Len(row) -> Cells] /\ q[k] = b /\ \A j \in 1..Len(row) : j # k => q[j] = row[j]
    BY <1>1, <2>1, <2>2
  <2>4. q \in Rows /\ Len(q) = Len(row)
    BY <1>1, <2>3, AsRow DEF Rows
  <2>5. QED
    BY <2>1, <2>3, <2>4
<1>3. CASE Screen!IsRest(row, i) /\ i > 1
  <2>1. r = [row EXCEPT ![i - 1] = Screen!Blank(@.style)]
    BY <1>3 DEF Screen!Repaired
  <2>2. i - 1 \in 1..Len(row)
    BY <1>1, <1>3, RowIs
  <2>3. QED
    BY <1>2, <1>3, <2>1, <2>2
<1>4. CASE i \in 1..Len(row) /\ ~Screen!IsRest(row, i) /\ Screen!IsRest(row, i + 1)
  <2>1. r = [row EXCEPT ![i + 1] = Screen!Blank(@.style)]
    BY <1>1, <1>4 DEF Screen!Repaired
  <2>2. i + 1 \in 1..Len(row)
    BY <1>1, <1>4, RowIs
  <2>3. QED
    BY <1>2, <1>4, <2>1, <2>2
<1>5. CASE /\ ~(Screen!IsRest(row, i) /\ i > 1)
           /\ ~(i \in 1..Len(row) /\ ~Screen!IsRest(row, i) /\ Screen!IsRest(row, i + 1))
  <2>1. r = row
    BY <1>1, <1>5 DEF Screen!Repaired
  <2>2. QED
    BY <1>5, <2>1
<1>6. QED
  BY <1>3, <1>4, <1>5

\* A cell in its place, or at the end of the row.
LEMMA WithIs ==
  ASSUME NEW row \in Rows, NEW i \in Nat \ {0}, i <= Len(row) + 1, NEW cell \in Cells,
         NEW r, r = Screen!With(row, i, cell)
  PROVE  /\ r \in Rows /\ Len(r) = IF i > Len(row) THEN i ELSE Len(row)
         /\ r[i] = cell /\ \A j \in 1..Len(row) : j # i => r[j] = row[j]
<1>1. PICK m \in Nat : m = IF i > Len(row) THEN i ELSE Len(row)
  BY RowIs
<1>2. r = [j \in 1..m |-> IF j = i THEN cell ELSE row[j]]
  BY <1>1 DEF Screen!With
<1>3. \A j \in 1..m : j # i => row[j] \in Cells
  BY <1>1, RowIs
<1>4. r \in [1..m -> Cells] /\ i \in 1..m
  BY <1>1, <1>2, <1>3, RowIs
<1>5. r \in Rows /\ Len(r) = m
  BY <1>4, AsRow DEF Rows
<1>6. \A j \in 1..Len(row) : j \in 1..m
  BY <1>1, RowIs
<1>7. QED
  BY <1>1, <1>2, <1>4, <1>5, <1>6

\* What is written over a repaired place halves no character.
LEMMA PlainWrites ==
  ASSUME NEW row \in Rows, Whole(row), NEW i \in Nat \ {0}, i <= Len(row) + 1,
         NEW cell \in Cells, Kind(cell) = "plain",
         NEW r, r = Screen!With(Screen!Repaired(row, i), i, cell)
  PROVE  r \in Rows /\ Whole(r) /\ Len(r) >= Len(row) /\ Len(r) >= i
<1>1. PICK q : q = Screen!Repaired(row, i)
  OBVIOUS
<1>2. /\ q \in Rows /\ Len(q) = Len(row) /\ Len(row) \in Nat
      /\ \A j \in 1..Len(row) :
           IF \/ Screen!IsRest(row, i) /\ i > 1 /\ j = i - 1
              \/ i \in 1..Len(row) /\ ~Screen!IsRest(row, i) /\ Screen!IsRest(row, i + 1) /\ j = i + 1
           THEN Kind(q[j]) = "plain" ELSE q[j] = row[j]
  BY <1>1, RepairedIs, RowIs
<1>3. /\ r \in Rows /\ Len(r) = (IF i > Len(row) THEN i ELSE Len(row)) /\ r[i] = cell
      /\ \A j \in 1..Len(row) : j # i => r[j] = q[j]
  BY <1>1, <1>2, WithIs
<1>4. \A j : Screen!IsRest(row, j) <=> j \in 1..Len(row) /\ Kind(row[j]) = "rest"
  BY RowIs
<1>5. ASSUME NEW j \in 1..Len(r)
      PROVE  /\ Kind(r[j]) = "rest" => j > 1 /\ Kind(r[j - 1]) = "wide"
             /\ Kind(r[j]) = "wide" => j + 1 <= Len(r) /\ Kind(r[j + 1]) = "rest"
  <2>1. CASE j = i
    BY <1>3, <2>1
  <2>2. CASE j # i
    <3>1. j \in 1..Len(row) /\ r[j] = q[j]
      BY <1>2, <1>3, <1>5, <2>2
    <3>2. ASSUME Kind(r[j]) = "rest" PROVE j > 1 /\ Kind(r[j - 1]) = "wide"
      <4>1. q[j] = row[j] /\ Kind(row[j]) = "rest"
        BY <1>2, <3>1, <3>2
      <4>2. j > 1 /\ Kind(row[j - 1]) = "wide" /\ j - 1 \in 1..Len(row)
        BY <1>2, <3>1, <4>1 DEF Whole
      <4>3. j - 1 # i
        BY <1>2, <1>4, <3>1, <3>2, <4>1, <4>2
      <4>4. ~(Screen!IsRest(row, i) /\ i > 1 /\ j - 1 = i - 1)
        BY <2>2
      <4>5. ~(Screen!IsRest(row, i + 1) /\ j - 1 = i + 1)
        BY <1>4, <4>2
      <4>6. q[j - 1] = row[j - 1]
        BY <1>2, <4>2, <4>4, <4>5
      <4>7. QED
        BY <1>3, <4>2, <4>3, <4>6
    <3>3. ASSUME Kind(r[j]) = "wide" PROVE j + 1 <= Len(r) /\ Kind(r[j + 1]) = "rest"
      <4>1. q[j] = row[j] /\ Kind(row[j]) = "wide"
        BY <1>2, <3>1, <3>3
      <4>2. j + 1 <= Len(row) /\ Kind(row[j + 1]) = "rest" /\ j + 1 \in 1..Len(row)
        BY <1>2, <3>1, <4>1 DEF Whole
      <4>3. j + 1 # i
        BY <1>2, <1>4, <3>1, <3>3, <4>1, <4>2
      <4>4. ~(Screen!IsRest(row, i) /\ i > 1 /\ j + 1 = i - 1)
        <5>1. CASE j + 1 = i - 1 /\ Screen!IsRest(row, i)
          <6>1. i \in 1..Len(row) /\ Kind(row[i]) = "rest"
            BY <1>4, <5>1
          <6>2. Kind(row[i - 1]) = "wide"
            BY <6>1 DEF Whole
          <6>3. QED
            BY <4>2, <5>1, <6>2
        <5>2. QED
          BY <5>1
      <4>5. ~(i \in 1..Len(row) /\ ~Screen!IsRest(row, i) /\ Screen!IsRest(row, i + 1) /\ j + 1 = i + 1)
        BY <2>2
      <4>6. q[j + 1] = row[j + 1]
        BY <1>2, <4>2, <4>4, <4>5
      <4>7. QED
        BY <1>2, <1>3, <4>2, <4>3, <4>6
    <3>4. QED
      BY <3>2, <3>3
  <2>3. QED
    BY <2>1, <2>2
<1>6. QED
  BY <1>2, <1>3, <1>5 DEF Whole

\* A wide character over two repaired places is the only half of itself.
LEMMA WideWrites ==
  ASSUME NEW row \in Rows, Whole(row), NEW i \in Nat \ {0}, i <= Len(row) + 1,
         NEW cell \in Cells, Kind(cell) = "wide", NEW rest \in Cells, Kind(rest) = "rest",
         NEW r, r = Screen!With(Screen!With(Screen!Repaired(Screen!Repaired(row, i), i + 1), i, cell), i + 1, rest)
  PROVE  r \in Rows /\ Whole(r)
<1>1. PICK p, q, w : /\ p = Screen!Repaired(row, i) /\ q = Screen!Repaired(p, i + 1)
                     /\ w = Screen!With(q, i, cell)
  OBVIOUS
<1>2. /\ p \in Rows /\ Len(p) = Len(row) /\ Len(row) \in Nat
      /\ \A j \in 1..Len(row) :
           IF \/ Screen!IsRest(row, i) /\ i > 1 /\ j = i - 1
              \/ i \in 1..Len(row) /\ ~Screen!IsRest(row, i) /\ Screen!IsRest(row, i + 1) /\ j = i + 1
           THEN Kind(p[j]) = "plain" ELSE p[j] = row[j]
  BY <1>1, RepairedIs, RowIs
<1>3. /\ q \in Rows /\ Len(q) = Len(row)
      /\ \A j \in 1..Len(row) :
           IF \/ Screen!IsRest(p, i + 1) /\ i + 1 > 1 /\ j = (i + 1) - 1
              \/ i + 1 \in 1..Len(row) /\ ~Screen!IsRest(p, i + 1) /\ Screen!IsRest(p, (i + 1) + 1) /\ j = (i + 1) + 1
           THEN Kind(q[j]) = "plain" ELSE q[j] = p[j]
  <2>1. i + 1 \in Nat \ {0} /\ Len(p) = Len(row)
    BY <1>2
  <2>2. PICK k : k = i + 1 /\ k \in Nat \ {0} /\ q = Screen!Repaired(p, k)
    BY <1>1, <2>1
  <2>3. /\ q \in Rows /\ Len(q) = Len(p)
        /\ \A j \in 1..Len(p) :
             IF \/ Screen!IsRest(p, k) /\ k > 1 /\ j = k - 1
                \/ k \in 1..Len(p) /\ ~Screen!IsRest(p, k) /\ Screen!IsRest(p, k + 1) /\ j = k + 1
             THEN Kind(q[j]) = "plain" ELSE q[j] = p[j]
    BY <1>2, <2>2, RepairedIs
  <2>4. QED
    BY <2>1, <2>2, <2>3
<1>4. /\ w \in Rows /\ Len(w) = (IF i > Len(row) THEN i ELSE Len(row)) /\ w[i] = cell
      /\ \A j \in 1..Len(row) : j # i => w[j] = q[j]
  BY <1>1, <1>3, WithIs
<1>5. /\ r \in Rows /\ Len(r) = (IF i + 1 > Len(w) THEN i + 1 ELSE Len(w)) /\ r[i + 1] = rest
      /\ \A j \in 1..Len(w) : j # i + 1 => r[j] = w[j]
  <2>1. PICK k : k = i + 1 /\ k \in Nat \ {0} /\ k <= Len(w) + 1
    BY <1>2, <1>4
  <2>2. r = Screen!With(w, k, rest)
    BY <1>1, <2>1
  <2>3. /\ r \in Rows /\ Len(r) = (IF k > Len(w) THEN k ELSE Len(w)) /\ r[k] = rest
        /\ \A j \in 1..Len(w) : j # k => r[j] = w[j]
    <3>1. ASSUME NEW x, x = Screen!With(w, k, rest)
          PROVE  /\ x \in Rows /\ Len(x) = (IF k > Len(w) THEN k ELSE Len(w)) /\ x[k] = rest
                 /\ \A j \in 1..Len(w) : j # k => x[j] = w[j]
      <4>1. w \in Rows /\ k \in Nat \ {0} /\ k <= Len(w) + 1 /\ rest \in Cells
        BY <1>4, <2>1
      <4>2. QED
        BY <3>1, <4>1, WithIs
    <3>2. QED
      BY <2>2, <3>1, Zenon
  <2>4. QED
    BY <2>1, <2>3
<1>6. /\ r \in Rows /\ Len(r) \in Nat /\ Len(r) >= i + 1 /\ Len(r) >= Len(row) /\ r[i] = cell /\ r[i + 1] = rest
      /\ Len(r) = (IF i + 1 > Len(row) THEN i + 1 ELSE Len(row))
      /\ \A j \in 1..Len(row) : j # i /\ j # i + 1 => r[j] = q[j]
  BY <1>2, <1>4, <1>5, RowIs
<1>7. /\ \A j : Screen!IsRest(row, j) <=> j \in 1..Len(row) /\ Kind(row[j]) = "rest"
      /\ \A j : Screen!IsRest(p, j) <=> j \in 1..Len(row) /\ Kind(p[j]) = "rest"
  BY <1>2, RowIs
<1>8. ASSUME NEW j \in 1..Len(row), j # i, j # i + 1
      PROVE  /\ Kind(q[j]) # "plain" => q[j] = row[j]
             /\ Kind(row[j]) = "wide" /\ j + 1 # i => q[j] = row[j]
             /\ Kind(row[j]) = "rest" /\ j - 1 # i + 1 => q[j] = row[j]
             /\ Kind(row[j]) = "wide" /\ j + 1 = i => Kind(q[j]) = "plain"
             /\ Kind(row[j]) = "rest" /\ j - 1 = i + 1 => Kind(q[j]) = "plain"
  <2>1. Kind(q[j]) # "plain" => q[j] = row[j]
    BY <1>2, <1>3, <1>8
  <2>2. ASSUME Kind(row[j]) = "wide" PROVE /\ j + 1 # i => q[j] = row[j]
                                           /\ j + 1 = i => Kind(q[j]) = "plain"
    <3>1. j + 1 <= Len(row) /\ Kind(row[j + 1]) = "rest"
      BY <2>2 DEF Whole
    <3>2. CASE j + 1 = i
      <4>1. Screen!IsRest(row, i) /\ i > 1 /\ j = i - 1
        BY <1>2, <1>7, <3>1, <3>2
      <4>2. Kind(p[j]) = "plain"
        BY <1>2, <4>1
      <4>3. QED
        BY <1>2, <1>3, <3>2, <4>2
    <3>3. CASE j + 1 # i
      <4>1. p[j] = row[j]
        <5>1. ~(Screen!IsRest(row, i) /\ i > 1 /\ j = i - 1)
          BY <3>3
        <5>2. ~(i \in 1..Len(row) /\ ~Screen!IsRest(row, i) /\ Screen!IsRest(row, i + 1) /\ j = i + 1)
          BY <1>8
        <5>3. QED
          BY <1>2, <5>1, <5>2
      <4>2. Kind(p[j]) = "wide"
        BY <2>2, <4>1
      <4>3. ~(Screen!IsRest(p, (i + 1) + 1) /\ j = (i + 1) + 1)
        BY <1>7, <4>2
      <4>4. q[j] = p[j]
        BY <1>3, <1>8, <4>3
      <4>5. QED
        BY <3>3, <4>1, <4>4
    <3>4. QED
      BY <3>2, <3>3
  <2>3. ASSUME Kind(row[j]) = "rest" PROVE /\ j - 1 # i + 1 => q[j] = row[j]
                                           /\ j - 1 = i + 1 => Kind(q[j]) = "plain"
    <3>1. j > 1 /\ j - 1 \in 1..Len(row) /\ Kind(row[j - 1]) = "wide"
      BY <1>2, <2>3 DEF Whole
    <3>2. p[j] = row[j]
      <4>1. ~(Screen!IsRest(row, i) /\ i > 1 /\ j = i - 1)
        <5>1. CASE Screen!IsRest(row, i) /\ i > 1 /\ j = i - 1
          <6>1. i \in 1..Len(row) /\ Kind(row[i]) = "rest"
            BY <1>7, <5>1
          <6>2. Kind(row[i - 1]) = "wide"
            BY <6>1 DEF Whole
          <6>3. QED
            BY <2>3, <5>1, <6>2
        <5>2. QED
          BY <5>1
      <4>2. j # i + 1
        BY <1>8
      <4>3. QED
        BY <1>2, <4>1, <4>2
    <3>3. CASE j - 1 = i + 1
      <4>1. i + 1 \in 1..Len(row) /\ Kind(row[i + 1]) = "wide" /\ j = (i + 1) + 1
        BY <1>2, <3>1, <3>3
      <4>2. p[i + 1] = row[i + 1]
        <5>1. ~(Screen!IsRest(row, i) /\ i > 1 /\ i + 1 = i - 1)
          BY <1>2
        <5>2. ~(Screen!IsRest(row, i + 1))
          BY <1>7, <4>1
        <5>3. QED
          BY <1>2, <4>1, <5>1, <5>2
      <4>3. ~Screen!IsRest(p, i + 1) /\ Screen!IsRest(p, (i + 1) + 1)
        <5>1. Kind(p[i + 1]) = "wide" /\ Kind(p[j]) = "rest"
          BY <2>3, <3>2, <4>1, <4>2
        <5>2. QED
          BY <1>7, <4>1, <5>1
      <4>4. Kind(q[j]) = "plain"
        BY <1>3, <4>1, <4>3
      <4>5. QED
        BY <3>3, <4>4
    <3>4. CASE j - 1 # i + 1
      <4>1. j # (i + 1) + 1 /\ j # (i + 1) - 1
        BY <1>8, <3>4
      <4>2. q[j] = p[j]
        BY <1>3, <4>1
      <4>3. QED
        BY <3>2, <3>4, <4>2
    <3>5. QED
      BY <3>3, <3>4
  <2>4. QED
    BY <2>1, <2>2, <2>3
<1>9. ASSUME NEW j \in 1..Len(r)
      PROVE  /\ Kind(r[j]) = "rest" => j > 1 /\ Kind(r[j - 1]) = "wide"
             /\ Kind(r[j]) = "wide" => j + 1 <= Len(r) /\ Kind(r[j + 1]) = "rest"
  <2>1. CASE j = i
    BY <1>6, <2>1
  <2>2. CASE j = i + 1
    <3>1. j > 1 /\ j - 1 = i
      BY <2>2
    <3>2. QED
      BY <1>6, <2>2, <3>1
  <2>3. CASE j # i /\ j # i + 1
    <3>1. j \in 1..Len(row) /\ r[j] = q[j]
      BY <1>2, <1>6, <1>9, <2>3
    <3>2. ASSUME Kind(r[j]) = "rest" PROVE j > 1 /\ Kind(r[j - 1]) = "wide"
      <4>1. Kind(row[j]) = "rest"
        BY <1>8, <2>3, <3>1, <3>2
      <4>2. j > 1 /\ Kind(row[j - 1]) = "wide" /\ j - 1 \in 1..Len(row)
        BY <1>2, <3>1, <4>1 DEF Whole
      <4>3. j - 1 # i + 1
        BY <1>8, <2>3, <3>1, <3>2, <4>1
      <4>4. j - 1 # i
        BY <2>3
      <4>5. q[j - 1] = row[j - 1]
        <5>1. (j - 1) + 1 # i
          BY <2>3
        <5>2. QED
          BY <1>8, <4>2, <4>3, <4>4, <5>1
      <4>6. r[j - 1] = q[j - 1]
        BY <1>6, <4>2, <4>3, <4>4
      <4>7. QED
        BY <4>2, <4>5, <4>6
    <3>3. ASSUME Kind(r[j]) = "wide" PROVE j + 1 <= Len(r) /\ Kind(r[j + 1]) = "rest"
      <4>1. Kind(row[j]) = "wide"
        BY <1>8, <2>3, <3>1, <3>3
      <4>2. j + 1 <= Len(row) /\ Kind(row[j + 1]) = "rest" /\ j + 1 \in 1..Len(row)
        BY <1>2, <3>1, <4>1 DEF Whole
      <4>3. j + 1 # i
        BY <1>8, <2>3, <3>1, <3>3, <4>1
      <4>4. j + 1 # i + 1
        BY <2>3
      <4>5. q[j + 1] = row[j + 1]
        <5>1. (j + 1) - 1 # i + 1
          BY <2>3
        <5>2. QED
          BY <1>8, <4>2, <4>3, <4>4, <5>1
      <4>6. r[j + 1] = q[j + 1]
        BY <1>6, <4>2, <4>3, <4>4
      <4>7. QED
        BY <1>2, <1>6, <4>2, <4>5, <4>6
    <3>4. QED
      BY <3>2, <3>3
  <2>4. QED
    BY <2>1, <2>2, <2>3
<1>10. QED
  BY <1>6, <1>9 DEF Whole

\* Filled up with blanks, a row has room for the cursor.
LEMMA PaddedIs ==
  ASSUME NEW row \in Rows, Whole(row), style \in Styles, NEW k \in Nat
  PROVE  /\ Screen!Padded(row, k) \in Rows /\ Whole(Screen!Padded(row, k))
         /\ Len(Screen!Padded(row, k)) >= k /\ Len(Screen!Padded(row, k)) >= Len(row)
<1>1. PICK m, b : /\ m \in Nat /\ m = (IF k > Len(row) THEN k - Len(row) ELSE 0)
                  /\ b = Screen!Blank(style) /\ b \in Cells /\ Kind(b) = "plain"
  BY RowIs, CellIs
<1>2. PICK f : f = [j \in 1..m |-> b] /\ f \in Seq(Cells) /\ Len(f) = m
  <2>1. [j \in 1..m |-> b] \in [1..m -> Cells]
    BY <1>1
  <2>2. PICK f : f = [j \in 1..m |-> b] /\ f \in [1..m -> Cells]
    BY <2>1
  <2>3. f \in Seq(Cells) /\ Len(f) = m
    BY <1>1, <2>2, AsRow
  <2>4. QED
    BY <2>2, <2>3
<1>3. PICK r : r = row \o f /\ r = Screen!Padded(row, k)
  BY <1>1, <1>2 DEF Screen!Padded
<1>4. /\ r \in Rows /\ Len(r) = Len(row) + m /\ Len(row) \in Nat
      /\ \A j \in 1..(Len(row) + m) : r[j] = IF j <= Len(row) THEN row[j] ELSE f[j - Len(row)]
  <2>1. row \in Seq(Cells) /\ Len(row) \in Nat
    BY RowIs DEF Rows
  <2>2. /\ r \in Seq(Cells) /\ Len(r) = Len(row) + Len(f)
        /\ \A j \in 1..(Len(row) + Len(f)) : r[j] = IF j <= Len(row) THEN row[j] ELSE f[j - Len(row)]
    <3>1. /\ row \o f \in Seq(Cells) /\ Len(row \o f) = Len(row) + Len(f)
          /\ \A j \in 1..(Len(row) + Len(f)) : (row \o f)[j] = IF j <= Len(row) THEN row[j] ELSE f[j - Len(row)]
      BY <1>2, <2>1, ConcatProperties, Zenon
    <3>2. QED
      BY <1>3, <3>1, Zenon
  <2>3. QED
    BY <1>2, <2>1, <2>2 DEF Rows
<1>5. ASSUME NEW j \in 1..Len(r) PROVE IF j <= Len(row) THEN r[j] = row[j] ELSE Kind(r[j]) = "plain"
  <2>1. CASE j <= Len(row)
    BY <1>4, <2>1
  <2>2. CASE j > Len(row)
    <3>1. j - Len(row) \in 1..m
      BY <1>1, <1>4, <2>2
    <3>2. f[j - Len(row)] = b
      BY <1>2, <3>1
    <3>3. QED
      BY <1>1, <1>4, <2>2, <3>2
  <2>3. QED
    BY <1>4, <2>1, <2>2
<1>6. ASSUME NEW j \in 1..Len(r)
      PROVE  /\ Kind(r[j]) = "rest" => j > 1 /\ Kind(r[j - 1]) = "wide"
             /\ Kind(r[j]) = "wide" => j + 1 <= Len(r) /\ Kind(r[j + 1]) = "rest"
  <2>1. CASE j <= Len(row)
    <3>1. j \in 1..Len(row) /\ r[j] = row[j]
      BY <1>4, <1>5, <2>1
    <3>2. Kind(row[j]) = "rest" => j > 1 /\ Kind(row[j - 1]) = "wide"
      BY <3>1 DEF Whole
    <3>3. Kind(row[j]) = "wide" => j + 1 <= Len(row) /\ Kind(row[j + 1]) = "rest"
      BY <3>1 DEF Whole
    <3>4. j > 1 => r[j - 1] = row[j - 1]
      BY <1>4, <1>5, <3>1
    <3>5. j + 1 <= Len(row) => j + 1 <= Len(r) /\ r[j + 1] = row[j + 1]
      BY <1>1, <1>4, <1>5, <3>1
    <3>6. QED
      BY <3>1, <3>2, <3>3, <3>4, <3>5
  <2>2. CASE ~(j <= Len(row))
    BY <1>5, <2>2
  <2>3. QED
    BY <2>1, <2>2
<1>7. QED
  BY <1>1, <1>3, <1>4, <1>6 DEF Whole

\* Blanks over a stretch of the row, one by one.
Stretch(a, to) == IF to >= a THEN to - a + 1 ELSE 0
Steps(f, row, a, to, n) ==
  /\ f[0] = row /\ \A k \in 1..n : f[k] = Screen!BlankAt(f[k - 1], a + k - 1)
  /\ Screen!Blanked(row, a, to) = f[n]

LEMMA BlankedRun ==
  ASSUME NEW row, NEW a, NEW to, NEW n \in Nat, n = Stretch(a, to)
  PROVE  \E f : Steps(f, row, a, to, n)
<1> DEFINE B == row
           M == {m \in 0..n : \E f : f = [k \in 0..m |-> IF k = 0 THEN B ELSE Screen!BlankAt(f[k - 1], a + k - 1)]}
<1> HIDE DEF B
<1>1. 0 \in M
  <2> DEFINE f == [i \in 0..0 |-> B]
  <2>1. f = [k \in 0..0 |-> IF k = 0 THEN B ELSE Screen!BlankAt(f[k - 1], a + k - 1)]
    OBVIOUS
  <2> HIDE DEF f
  <2>2. QED
    BY <2>1
<1>2. ASSUME NEW m \in 1..n, m - 1 \in M PROVE m \in M
  <2>1. PICK f : f = [k \in 0..(m - 1) |-> IF k = 0 THEN B ELSE Screen!BlankAt(f[k - 1], a + k - 1)]
    BY <1>2
  <2> DEFINE g == [i \in 0..m |-> IF i = m THEN Screen!BlankAt(f[m - 1], a + m - 1) ELSE f[i]]
  <2>2. \A i \in 0..m : i # m => i \in 0..(m - 1) /\ g[i] = f[i]
    OBVIOUS
  <2>3. ASSUME NEW i \in 0..m PROVE g[i] = IF i = 0 THEN B ELSE Screen!BlankAt(g[i - 1], a + i - 1)
    <3>1. CASE i = m
      <4>1. m - 1 \in 0..m /\ m - 1 # m /\ m # 0
        OBVIOUS
      <4>2. g[m - 1] = f[m - 1]
        BY <2>2, <4>1
      <4>3. QED
        BY <3>1, <4>1, <4>2
    <3>2. CASE i # m
      <4>1. i \in 0..(m - 1) /\ g[i] = f[i]
        BY <2>2, <3>2
      <4>2. f[i] = IF i = 0 THEN B ELSE Screen!BlankAt(f[i - 1], a + i - 1)
        BY <2>1, <4>1
      <4>3. i # 0 => i - 1 \in 0..m /\ i - 1 # m
        BY <4>1
      <4>4. i # 0 => g[i - 1] = f[i - 1]
        BY <2>2, <4>3
      <4>5. QED
        BY <4>1, <4>2, <4>4
    <3>3. QED
      BY <3>1, <3>2
  <2>4. DOMAIN g = 0..m /\ g = [i \in 0..m |-> g[i]]
    OBVIOUS
  <2> HIDE DEF g
  <2>5. g = [i \in 0..m |-> IF i = 0 THEN B ELSE Screen!BlankAt(g[i - 1], a + i - 1)]
    BY <2>3, <2>4
  <2>6. m \in 0..n
    OBVIOUS
  <2>7. QED
    BY <2>5, <2>6
<1>3. n \in M
  <2>2. \A i \in 0..n : i \in M
    <3> HIDE DEF M
    <3>1. QED
      BY <1>1, <1>2, Climb
  <2>3. n \in 0..n
    OBVIOUS
  <2>4. QED
    BY <2>2, <2>3, Zenon
<1>4. \E f : f = [k \in 0..n |-> IF k = 0 THEN B ELSE Screen!BlankAt(f[k - 1], a + k - 1)]
  BY <1>3
<1>5. PICK f : /\ f = [k \in 0..n |-> IF k = 0 THEN B ELSE Screen!BlankAt(f[k - 1], a + k - 1)]
               /\ Screen!Blanked(row, a, to) = f[n]
  BY <1>4 DEF Screen!Blanked, Stretch, B
<1>6. \A k \in 0..n : f[k] = IF k = 0 THEN B ELSE Screen!BlankAt(f[k - 1], a + k - 1)
  BY <1>5, Zenon
<1>7. 0 \in 0..n /\ \A k \in 1..n : k \in 0..n /\ k # 0
  OBVIOUS
<1>8. f[0] = B /\ \A k \in 1..n : f[k] = Screen!BlankAt(f[k - 1], a + k - 1)
  BY <1>6, <1>7, Zenon
<1>9. QED
  BY <1>5, <1>8 DEF B, Steps

LEMMA BlankedIs ==
  ASSUME NEW row \in Rows, Whole(row), style \in Styles, NEW a \in Nat \ {0}, a <= Len(row) + 1,
         NEW to \in Int
  PROVE  Screen!Blanked(row, a, to) \in Rows /\ Whole(Screen!Blanked(row, a, to))
<1>1. PICK n : n \in Nat /\ n = Stretch(a, to)
  <2>1. Stretch(a, to) \in Nat
    BY DEF Stretch
  <2>2. QED
    BY <2>1
<1>2. PICK f : /\ f[0] = row /\ \A k \in 1..n : f[k] = Screen!BlankAt(f[k - 1], a + k - 1)
               /\ Screen!Blanked(row, a, to) = f[n]
  <2>1. n \in Nat /\ n = Stretch(a, to)
    BY <1>1
  <2>2. \E f : Steps(f, row, a, to, n)
    BY <2>1, BlankedRun, Zenon
  <2>3. QED
    BY <2>2 DEF Steps
<1> DEFINE M == {k \in 0..n : f[k] \in Rows /\ Whole(f[k]) /\ a + k <= Len(f[k]) + 1}
<1>3. 0 \in M
  BY <1>1, <1>2, RowIs
<1>4. ASSUME NEW k \in 1..n, k - 1 \in M PROVE k \in M
  <2>1. PICK p, r, i : p = f[k - 1] /\ r = f[k] /\ i = a + k - 1
    OBVIOUS
  <2>2. p \in Rows /\ Whole(p) /\ i \in Nat \ {0} /\ i <= Len(p) + 1 /\ Len(p) \in Nat
    BY <1>4, <2>1, RowIs
  <2>3. PICK b : b = Screen!Blank(style) /\ b \in Cells /\ Kind(b) = "plain"
    BY CellIs
  <2>4. r = Screen!With(Screen!Repaired(p, i), i, b)
    BY <1>2, <2>1, <2>3 DEF Screen!BlankAt
  <2>5. r \in Rows /\ Whole(r) /\ Len(r) >= i
    BY <2>2, <2>3, <2>4, PlainWrites
  <2>6. a + k <= Len(r) + 1 /\ k \in 0..n
    BY <2>1, <2>5, RowIs
  <2>7. QED
    BY <2>1, <2>5, <2>6
<1>5. \A k \in 0..n : k \in M
  <2> HIDE DEF M
  <2>1. QED
    BY <1>1, <1>3, <1>4, Climb
<1>6. n \in 0..n
  BY <1>1
<1>7. QED
  BY <1>2, <1>5, <1>6

\* A cut behind a repaired place leaves whole characters.
LEMMA CutIsWhole ==
  ASSUME NEW row \in Rows, Whole(row), NEW k \in 0..Len(row)
  PROVE  Screen!Cut(row, k) \in Rows /\ Whole(Screen!Cut(row, k))
<1>1. PICK i : i = k + 1 /\ i \in Nat \ {0} /\ Len(row) \in Nat /\ k \in Nat /\ k <= Len(row)
  BY RowIs
<1>2. PICK q : q = Screen!Repaired(row, i)
  OBVIOUS
<1>3. /\ q \in Rows /\ Len(q) = Len(row)
      /\ \A j \in 1..Len(row) :
           IF \/ Screen!IsRest(row, i) /\ i > 1 /\ j = i - 1
              \/ i \in 1..Len(row) /\ ~Screen!IsRest(row, i) /\ Screen!IsRest(row, i + 1) /\ j = i + 1
           THEN Kind(q[j]) = "plain" ELSE q[j] = row[j]
  BY <1>1, <1>2, RepairedIs
<1>4. PICK r : r = SubSeq(q, 1, k) /\ r = Screen!Cut(row, k)
  BY <1>1, <1>2 DEF Screen!Cut
<1>5. /\ r \in Rows /\ Len(r) = k /\ \A j \in 1..k : r[j] = q[j]
  <2>1. \A j \in 1..k : q[j] \in Cells
    BY <1>1, <1>3, RowIs
  <2>2. /\ r \in Seq(Cells) /\ Len(r) = (IF 1 <= k THEN k - 1 + 1 ELSE 0)
        /\ \A j \in 1..(k - 1 + 1) : r[j] = q[1 + j - 1]
    BY <1>1, <1>4, <2>1, SubSeqProperties
  <2>3. \A j \in 1..k : 1 + j - 1 = j
    OBVIOUS
  <2>4. QED
    BY <1>1, <2>2, <2>3 DEF Rows
<1>6. \A j : Screen!IsRest(row, j) <=> j \in 1..Len(row) /\ Kind(row[j]) = "rest"
  BY RowIs
<1>7. ASSUME NEW j \in 1..k
      PROVE  /\ Kind(r[j]) = "rest" => j > 1 /\ Kind(r[j - 1]) = "wide"
             /\ Kind(r[j]) = "wide" => j + 1 <= k /\ Kind(r[j + 1]) = "rest"
  <2>1. j \in 1..Len(row) /\ r[j] = q[j] /\ j # i + 1 /\ j < i
    BY <1>1, <1>5
  <2>2. Kind(q[j]) # "plain" => q[j] = row[j]
    BY <1>3, <2>1
  <2>3. ASSUME Kind(r[j]) = "rest" PROVE j > 1 /\ Kind(r[j - 1]) = "wide"
    <3>1. Kind(row[j]) = "rest"
      BY <2>1, <2>2, <2>3
    <3>2. j > 1 /\ Kind(row[j - 1]) = "wide" /\ j - 1 \in 1..Len(row) /\ j - 1 \in 1..k
      BY <1>1, <2>1, <3>1 DEF Whole
    <3>3. j - 1 # i - 1 /\ j - 1 # i + 1
      BY <1>1, <2>1
    <3>4. q[j - 1] = row[j - 1]
      BY <1>3, <3>2, <3>3
    <3>5. QED
      BY <1>5, <3>2, <3>4
  <2>4. ASSUME Kind(r[j]) = "wide" PROVE j + 1 <= k /\ Kind(r[j + 1]) = "rest"
    <3>1. Kind(row[j]) = "wide" /\ q[j] = row[j]
      BY <2>1, <2>2, <2>4
    <3>2. j + 1 <= Len(row) /\ Kind(row[j + 1]) = "rest" /\ j + 1 \in 1..Len(row)
      <4>1. Kind(row[j]) = "wide" => j + 1 <= Len(row) /\ Kind(row[j + 1]) = "rest"
        BY <2>1 DEF Whole
      <4>2. QED
        BY <1>1, <2>1, <3>1, <4>1
    <3>3. j + 1 # i
      <4>1. CASE j + 1 = i
        <5>1. Screen!IsRest(row, i) /\ i > 1 /\ j = i - 1
          BY <1>1, <1>6, <2>1, <3>2, <4>1
        <5>2. Kind(q[j]) = "plain"
          BY <1>3, <2>1, <5>1
        <5>3. QED
          BY <2>1, <2>4, <5>2
      <4>2. QED
        BY <4>1
    <3>4. j + 1 \in 1..k /\ j + 1 # i - 1 + 1 /\ j + 1 # i + 1
      BY <1>1, <2>1, <3>3
    <3>5. q[j + 1] = row[j + 1]
      <4>1. CASE j + 1 = i - 1 /\ Screen!IsRest(row, i)
        <5>1. i \in 1..Len(row) /\ Kind(row[i]) = "rest"
          BY <1>6, <4>1
        <5>2. Kind(row[i - 1]) = "wide"
          BY <5>1 DEF Whole
        <5>3. QED
          BY <3>2, <4>1, <5>2
      <4>2. CASE ~(j + 1 = i - 1 /\ Screen!IsRest(row, i))
        BY <1>3, <3>2, <3>4, <4>2
      <4>3. QED
        BY <4>1, <4>2
    <3>6. QED
      BY <1>5, <3>2, <3>4, <3>5
  <2>5. QED
    BY <2>3, <2>4
<1>8. QED
  BY <1>4, <1>5, <1>7 DEF Whole

Fits(row) == row \in Rows /\ Whole(row)

\* Of finitely many numbers one is the highest.
LEMMA Highest ==
  ASSUME NEW n \in Nat, NEW S, S \subseteq 1..n, S # {}
  PROVE  Screen!Max(S) \in S
<1> DEFINE P == {k \in 0..n : \E i \in S : i >= k}
<1>1. ASSUME \A i \in S : \E j \in S : ~(i >= j) PROVE FALSE
  <2>1. 0 \in P
    <3>1. PICK i \in S : i \in 1..n
      OBVIOUS
    <3>2. QED
      BY <3>1
  <2>2. ASSUME NEW k \in 1..n, k - 1 \in P PROVE k \in P
    <3>1. PICK i \in S : i >= k - 1
      BY <2>2
    <3>2. PICK j \in S : ~(i >= j)
      BY <1>1
    <3>3. j >= k
      BY <3>1, <3>2
    <3>4. QED
      BY <3>3
  <2>3. \A k \in 0..n : k \in P
    <3> HIDE DEF P
    <3>1. QED
      BY <2>1, <2>2, Climb
  <2>4. n \in P
    BY <2>3
  <2>5. PICK i \in S : i >= n
    BY <2>4
  <2>6. PICK j \in S : ~(i >= j)
    BY <1>1
  <2>7. QED
    BY <2>5, <2>6
<1>2. PICK m \in S : \A j \in S : m >= j
  BY <1>1
<1>3. QED
  BY <1>2 DEF Screen!Max

\* A mark joins a cell that holds something, and leaves its kind.
LEMMA MarkedIs ==
  ASSUME NEW row, Fits(row), NEW m \in 1..Len(row), ~Screen!IsRest(row, m),
         NEW r, r = [row EXCEPT ![m].text = Append(@, Screen!Mark)]
  PROVE  Fits(r)
<1>1. /\ row \in Rows /\ Len(row) \in Nat /\ row \in [1..Len(row) -> Cells] /\ DOMAIN row = 1..Len(row)
  BY DEF Rows, Fits
<1>2. PICK cell : cell = row[m] /\ cell \in Cells /\ Kind(cell) # "rest"
  BY <1>1, RowIs
<1>3. cell.text \in Seq(Glyphs) /\ cell.text # <<>> /\ cell.style \in Styles
  BY <1>2 DEF Cells, Kind
<1>4. PICK t : t = Append(cell.text, Screen!Mark)
  OBVIOUS
<1>5. t \in Seq(Glyphs) /\ t # <<>> /\ Head(t) = Head(cell.text)
  <2>1. Screen!Mark \in Glyphs
    BY DEF Glyphs, Screen!Mark
  <2>2. /\ t \in Seq(Glyphs) /\ Len(t) = Len(cell.text) + 1 /\ Len(cell.text) \in Nat
        /\ \A i \in 1..Len(cell.text) : t[i] = cell.text[i]
    BY <1>3, <1>4, <2>1
  <2>3. Len(cell.text) >= 1
    BY <1>3
  <2>4. t # <<>> /\ t[1] = cell.text[1]
    BY <2>2, <2>3
  <2>5. Head(t) = t[1] /\ Head(cell.text) = cell.text[1]
    BY <1>3, <2>2, <2>4
  <2>6. QED
    BY <2>2, <2>4, <2>5
<1>6. PICK new : new = [cell EXCEPT !.text = t]
  OBVIOUS
<1>7. new \in Cells /\ new.text = t
  BY <1>2, <1>5, <1>6 DEF Cells
<1>8. Kind(new) = Kind(cell)
  BY <1>3, <1>5, <1>7 DEF Kind
<1>9. r = [row EXCEPT ![m] = new]
  BY <1>1, <1>2, <1>4, <1>6
<1>10. r \in [1..Len(row) -> Cells] /\ \A j \in 1..Len(row) : r[j] = IF j = m THEN new ELSE row[j]
  BY <1>1, <1>7, <1>9
<1>11. r \in Rows /\ Len(r) = Len(row)
  BY <1>1, <1>10, AsRow DEF Rows
<1>12. \A j \in 1..Len(row) : Kind(r[j]) = Kind(row[j])
  BY <1>2, <1>8, <1>10
<1>13. ASSUME NEW i \in 1..Len(row)
       PROVE  /\ Kind(r[i]) = "rest" => i > 1 /\ Kind(r[i - 1]) = "wide"
              /\ Kind(r[i]) = "wide" => i + 1 <= Len(row) /\ Kind(r[i + 1]) = "rest"
  <2>1. /\ Kind(row[i]) = "rest" => i > 1 /\ Kind(row[i - 1]) = "wide"
        /\ Kind(row[i]) = "wide" => i + 1 <= Len(row) /\ Kind(row[i + 1]) = "rest"
    BY DEF Whole, Fits
  <2>2. i > 1 => i - 1 \in 1..Len(row)
    BY <1>1
  <2>3. i + 1 <= Len(row) => i + 1 \in 1..Len(row)
    BY <1>1
  <2>4. QED
    BY <1>12, <2>1, <2>2, <2>3
<1>14. QED
  BY <1>11, <1>13 DEF Fits, Whole

\* Each way to write into a row leaves whole characters.
LEMMA NarrowFits ==
  ASSUME NEW line, Fits(line), style \in Styles, NEW at \in Nat, NEW c \in Glyphs \ {"wide"}
  PROVE  Fits(Screen!With(Screen!Repaired(Screen!Padded(line, at), at + 1), at + 1, Screen!Cell(<<c>>, style)))
<1>1. PICK row, i, cell, r : /\ row = Screen!Padded(line, at) /\ i = at + 1 /\ cell = Screen!Cell(<<c>>, style)
                             /\ r = Screen!With(Screen!Repaired(row, i), i, cell)
  OBVIOUS
<1>2. row \in Rows /\ Whole(row) /\ Len(row) >= at
  BY <1>1, PaddedIs DEF Fits
<1>3. i \in Nat \ {0} /\ i <= Len(row) + 1
  BY <1>1, <1>2, RowIs
<1>4. cell \in Cells /\ Kind(cell) = "plain"
  BY <1>1, CellIs
<1>5. r \in Rows /\ Whole(r)
  BY <1>1, <1>2, <1>3, <1>4, PlainWrites
<1>6. QED
  BY <1>1, <1>5 DEF Fits

LEMMA WideFits ==
  ASSUME NEW line, Fits(line), style \in Styles, NEW at \in Nat
  PROVE  Fits(Screen!With(Screen!With(Screen!Repaired(Screen!Repaired(Screen!Padded(line, at), at + 1), at + 1 + 1),
                                      at + 1, Screen!Cell(<<"wide">>, style)),
                          at + 1 + 1, Screen!Rest(style)))
<1>1. PICK row, i, cell, rest, r :
        /\ row = Screen!Padded(line, at) /\ i = at + 1 /\ cell = Screen!Cell(<<"wide">>, style)
        /\ rest = Screen!Rest(style)
        /\ r = Screen!With(Screen!With(Screen!Repaired(Screen!Repaired(row, i), i + 1), i, cell), i + 1, rest)
  OBVIOUS
<1>2. row \in Rows /\ Whole(row) /\ Len(row) >= at
  BY <1>1, PaddedIs DEF Fits
<1>3. i \in Nat \ {0} /\ i <= Len(row) + 1
  BY <1>1, <1>2, RowIs
<1>4. cell \in Cells /\ Kind(cell) = "wide" /\ rest \in Cells /\ Kind(rest) = "rest"
  BY <1>1, CellIs DEF Glyphs
<1>5. r \in Rows /\ Whole(r)
  BY <1>1, <1>2, <1>3, <1>4, WideWrites
<1>6. QED
  BY <1>1, <1>5 DEF Fits

LEMMA BlankedFits ==
  ASSUME NEW line, Fits(line), style \in Styles, NEW k \in Nat, NEW at \in Nat, at <= k, NEW to \in Int
  PROVE  Fits(Screen!Blanked(Screen!Padded(line, k), at + 1, to))
<1>1. PICK row, a : row = Screen!Padded(line, k) /\ a = at + 1
  OBVIOUS
<1>2. row \in Rows /\ Whole(row) /\ Len(row) >= k
  BY <1>1, PaddedIs DEF Fits
<1>3. a \in Nat \ {0} /\ a <= Len(row) + 1
  BY <1>1, <1>2, RowIs
<1>4. Screen!Blanked(row, a, to) \in Rows /\ Whole(Screen!Blanked(row, a, to))
  BY <1>2, <1>3, BlankedIs
<1>5. QED
  BY <1>1, <1>4 DEF Fits

\* The text of some cells or runs is put together one by one, and so are the runs of a row.
Joins(f, parts, n) ==
  /\ f[0] = <<>> /\ \A i \in 1..n : f[i] = f[i - 1] \o parts[i].text
  /\ Screen!TextOf(parts) = f[n]
Gathers(f, row, n) ==
  /\ f[0] = <<>> /\ \A i \in 1..n : f[i] = Screen!RunsWith(f[i - 1], row, i)
  /\ Screen!RunsOf(row) = f[n]

LEMMA TextRun ==
  ASSUME NEW parts, NEW n \in Nat, n = Len(parts)
  PROVE  \E f : Joins(f, parts, n)
<1> DEFINE B == <<>>
           M == {m \in 0..n : \E f : f = [i \in 0..m |-> IF i = 0 THEN B ELSE f[i - 1] \o parts[i].text]}
<1> HIDE DEF B
<1>1. 0 \in M
  <2> DEFINE f == [i \in 0..0 |-> B]
  <2>1. f = [i \in 0..0 |-> IF i = 0 THEN B ELSE f[i - 1] \o parts[i].text]
    OBVIOUS
  <2> HIDE DEF f
  <2>2. \E h : h = [i \in 0..0 |-> IF i = 0 THEN B ELSE h[i - 1] \o parts[i].text]
    BY <2>1, Zenon
  <2>3. 0 \in 0..n
    OBVIOUS
  <2>4. QED
    BY <2>2, <2>3, Zenon
<1>2. ASSUME NEW m \in 1..n, m - 1 \in M PROVE m \in M
  <2>1. PICK f : f = [i \in 0..(m - 1) |-> IF i = 0 THEN B ELSE f[i - 1] \o parts[i].text]
    BY <1>2
  <2> DEFINE g == [i \in 0..m |-> IF i = m THEN f[m - 1] \o parts[m].text ELSE f[i]]
  <2>2. \A i \in 0..m : i # m => i \in 0..(m - 1) /\ g[i] = f[i]
    OBVIOUS
  <2>3. ASSUME NEW i \in 0..m PROVE g[i] = IF i = 0 THEN B ELSE g[i - 1] \o parts[i].text
    <3>1. CASE i = m
      <4>1. m - 1 \in 0..m /\ m - 1 # m /\ m # 0
        OBVIOUS
      <4>2. g[m - 1] = f[m - 1]
        BY <2>2, <4>1
      <4>3. QED
        BY <3>1, <4>1, <4>2
    <3>2. CASE i # m
      <4>1. i \in 0..(m - 1) /\ g[i] = f[i]
        BY <2>2, <3>2
      <4>2. f[i] = IF i = 0 THEN B ELSE f[i - 1] \o parts[i].text
        BY <2>1, <4>1
      <4>3. i # 0 => i - 1 \in 0..m /\ i - 1 # m
        BY <4>1
      <4>4. i # 0 => g[i - 1] = f[i - 1]
        BY <2>2, <4>3
      <4>5. QED
        BY <4>1, <4>2, <4>4
    <3>3. QED
      BY <3>1, <3>2
  <2>4. DOMAIN g = 0..m /\ g = [i \in 0..m |-> g[i]]
    OBVIOUS
  <2> HIDE DEF g
  <2>5. g = [i \in 0..m |-> IF i = 0 THEN B ELSE g[i - 1] \o parts[i].text]
    BY <2>3, <2>4
  <2>6. m \in 0..n
    OBVIOUS
  <2>7. QED
    BY <2>5, <2>6
<1>3. n \in M
  <2>1. \A i \in 0..n : i \in M
    <3> HIDE DEF M
    <3>1. QED
      BY <1>1, <1>2, Climb
  <2>2. n \in 0..n
    OBVIOUS
  <2>3. QED
    BY <2>1, <2>2, Zenon
<1>4. \E f : f = [i \in 0..n |-> IF i = 0 THEN B ELSE f[i - 1] \o parts[i].text]
  BY <1>3
<1>5. PICK f : /\ f = [i \in 0..n |-> IF i = 0 THEN B ELSE f[i - 1] \o parts[i].text]
               /\ Screen!TextOf(parts) = f[n]
  BY <1>4 DEF Screen!TextOf, B
<1>6. \A i \in 0..n : f[i] = IF i = 0 THEN B ELSE f[i - 1] \o parts[i].text
  BY <1>5, Zenon
<1>7. 0 \in 0..n /\ \A i \in 1..n : i \in 0..n /\ i # 0
  OBVIOUS
<1>8. f[0] = B /\ \A i \in 1..n : f[i] = f[i - 1] \o parts[i].text
  BY <1>6, <1>7, Zenon
<1>9. QED
  BY <1>5, <1>8 DEF B, Joins

LEMMA RunsRun ==
  ASSUME NEW row, NEW n \in Nat, n = Len(row)
  PROVE  \E f : Gathers(f, row, n)
<1> DEFINE B == <<>>
           M == {m \in 0..n : \E f : f = [i \in 0..m |-> IF i = 0 THEN B ELSE Screen!RunsWith(f[i - 1], row, i)]}
<1> HIDE DEF B
<1>1. 0 \in M
  <2> DEFINE f == [i \in 0..0 |-> B]
  <2>1. f = [i \in 0..0 |-> IF i = 0 THEN B ELSE Screen!RunsWith(f[i - 1], row, i)]
    OBVIOUS
  <2> HIDE DEF f
  <2>2. \E h : h = [i \in 0..0 |-> IF i = 0 THEN B ELSE Screen!RunsWith(h[i - 1], row, i)]
    BY <2>1, Zenon
  <2>3. 0 \in 0..n
    OBVIOUS
  <2>4. QED
    BY <2>2, <2>3, Zenon
<1>2. ASSUME NEW m \in 1..n, m - 1 \in M PROVE m \in M
  <2>1. PICK f : f = [i \in 0..(m - 1) |-> IF i = 0 THEN B ELSE Screen!RunsWith(f[i - 1], row, i)]
    BY <1>2
  <2> DEFINE g == [i \in 0..m |-> IF i = m THEN Screen!RunsWith(f[m - 1], row, m) ELSE f[i]]
  <2>2. \A i \in 0..m : i # m => i \in 0..(m - 1) /\ g[i] = f[i]
    OBVIOUS
  <2>3. ASSUME NEW i \in 0..m PROVE g[i] = IF i = 0 THEN B ELSE Screen!RunsWith(g[i - 1], row, i)
    <3>1. CASE i = m
      <4>1. m - 1 \in 0..m /\ m - 1 # m /\ m # 0
        OBVIOUS
      <4>2. g[m - 1] = f[m - 1]
        BY <2>2, <4>1
      <4>3. QED
        BY <3>1, <4>1, <4>2
    <3>2. CASE i # m
      <4>1. i \in 0..(m - 1) /\ g[i] = f[i]
        BY <2>2, <3>2
      <4>2. f[i] = IF i = 0 THEN B ELSE Screen!RunsWith(f[i - 1], row, i)
        BY <2>1, <4>1
      <4>3. i # 0 => i - 1 \in 0..m /\ i - 1 # m
        BY <4>1
      <4>4. i # 0 => g[i - 1] = f[i - 1]
        BY <2>2, <4>3
      <4>5. QED
        BY <4>1, <4>2, <4>4
    <3>3. QED
      BY <3>1, <3>2
  <2>4. DOMAIN g = 0..m /\ g = [i \in 0..m |-> g[i]]
    OBVIOUS
  <2> HIDE DEF g
  <2>5. g = [i \in 0..m |-> IF i = 0 THEN B ELSE Screen!RunsWith(g[i - 1], row, i)]
    BY <2>3, <2>4
  <2>6. m \in 0..n
    OBVIOUS
  <2>7. QED
    BY <2>5, <2>6
<1>3. n \in M
  <2>1. \A i \in 0..n : i \in M
    <3> HIDE DEF M
    <3>1. QED
      BY <1>1, <1>2, Climb
  <2>2. n \in 0..n
    OBVIOUS
  <2>3. QED
    BY <2>1, <2>2, Zenon
<1>4. \E f : f = [i \in 0..n |-> IF i = 0 THEN B ELSE Screen!RunsWith(f[i - 1], row, i)]
  BY <1>3
<1>5. PICK f : /\ f = [i \in 0..n |-> IF i = 0 THEN B ELSE Screen!RunsWith(f[i - 1], row, i)]
               /\ Screen!RunsOf(row) = f[n]
  BY <1>4 DEF Screen!RunsOf, B
<1>6. \A i \in 0..n : f[i] = IF i = 0 THEN B ELSE Screen!RunsWith(f[i - 1], row, i)
  BY <1>5, Zenon
<1>7. 0 \in 0..n /\ \A i \in 1..n : i \in 0..n /\ i # 0
  OBVIOUS
<1>8. f[0] = B /\ \A i \in 1..n : f[i] = Screen!RunsWith(f[i - 1], row, i)
  BY <1>6, <1>7, Zenon
<1>9. QED
  BY <1>5, <1>8 DEF B, Gathers

\* What is joined is text, and one part more adds its own.
LEMMA TextIsText ==
  ASSUME NEW T, \A x \in T : x.text \in Seq(Glyphs), NEW parts \in Seq(T)
  PROVE  Screen!TextOf(parts) \in Seq(Glyphs)
<1>1. PICK n \in Nat : n = Len(parts)
  OBVIOUS
<1>2. PICK f : Joins(f, parts, n)
  BY <1>1, TextRun, Zenon
<1> DEFINE M == {i \in 0..n : f[i] \in Seq(Glyphs)}
<1>3. 0 \in M
  <2>1. f[0] = <<>> /\ <<>> \in Seq(Glyphs) /\ 0 \in 0..n
    BY <1>2 DEF Joins
  <2>2. QED
    BY <2>1, Zenon
<1>4. ASSUME NEW i \in 1..n, i - 1 \in M PROVE i \in M
  <2>1. f[i] = f[i - 1] \o parts[i].text
    BY <1>2 DEF Joins
  <2>2. f[i - 1] \in Seq(Glyphs) /\ i \in 0..n
    BY <1>4
  <2>3. parts[i] \in T
    BY <1>1
  <2>4. parts[i].text \in Seq(Glyphs)
    BY <2>3
  <2>5. f[i - 1] \o parts[i].text \in Seq(Glyphs)
    BY <2>2, <2>4, ConcatProperties, Zenon
  <2>6. QED
    BY <2>1, <2>2, <2>5, Zenon
<1>5. \A i \in 0..n : i \in M
  <2> HIDE DEF M
  <2>1. QED
    BY <1>3, <1>4, Climb
<1>6. f[n] \in Seq(Glyphs)
  BY <1>5
<1>7. QED
  BY <1>2, <1>6 DEF Joins

LEMMA TextLonger ==
  ASSUME NEW T, \A x \in T : x.text \in Seq(Glyphs), NEW parts \in Seq(T), NEW x \in T,
         NEW more, more = Append(parts, x)
  PROVE  Screen!TextOf(more) = Screen!TextOf(parts) \o x.text
<1>1. PICK n, m : n \in Nat /\ n = Len(parts) /\ m = n + 1 /\ m \in Nat /\ m = Len(more)
  <2>1. Len(parts) \in Nat /\ Len(more) = Len(parts) + 1
    OBVIOUS
  <2>2. QED
    BY <2>1
<1>2. PICK f : Joins(f, parts, n)
  <2>1. n \in Nat /\ n = Len(parts)
    BY <1>1
  <2>2. QED
    BY <2>1, TextRun, Zenon
<1>3. PICK g : Joins(g, more, m)
  <2>1. m \in Nat /\ m = Len(more)
    BY <1>1
  <2>2. QED
    BY <2>1, TextRun, Zenon
<1>4. more[m] = x /\ \A i \in 1..n : more[i] = parts[i]
  BY <1>1
<1> DEFINE M == {i \in 0..n : g[i] = f[i]}
<1>5. 0 \in M
  BY <1>1, <1>2, <1>3 DEF Joins
<1>6. ASSUME NEW i \in 1..n, i - 1 \in M PROVE i \in M
  <2>1. i \in 1..m /\ i \in 0..n
    BY <1>1
  <2>2. f[i] = f[i - 1] \o parts[i].text
    BY <1>2 DEF Joins
  <2>3. g[i] = g[i - 1] \o more[i].text
    BY <1>3, <2>1 DEF Joins
  <2>4. g[i - 1] = f[i - 1] /\ more[i] = parts[i]
    BY <1>4, <1>6
  <2>5. g[i] = f[i]
    BY <2>2, <2>3, <2>4, Zenon
  <2>6. QED
    BY <2>1, <2>5
<1>7. \A i \in 0..n : i \in M
  <2> HIDE DEF M
  <2>1. QED
    BY <1>1, <1>5, <1>6, Climb
<1>8. g[n] = f[n]
  BY <1>1, <1>7
<1>9. m \in 1..m /\ m - 1 = n
  BY <1>1
<1>10. g[m] = g[m - 1] \o more[m].text
  BY <1>3, <1>9 DEF Joins
<1>11. g[m] = f[n] \o x.text
  BY <1>4, <1>8, <1>9, <1>10
<1>12. QED
  BY <1>2, <1>3, <1>11 DEF Joins

\* All but the last, and the last.
LEMMA FrontLast ==
  ASSUME NEW T, NEW s \in Seq(T), s # <<>>
  PROVE  /\ Screen!Front(s) \in Seq(T) /\ Len(Screen!Front(s)) = Len(s) - 1 /\ Len(s) \in Nat \ {0}
         /\ \A i \in 1..(Len(s) - 1) : Screen!Front(s)[i] = s[i]
         /\ Screen!Last(s) = s[Len(s)] /\ s[Len(s)] \in T
         /\ s = Append(Screen!Front(s), Screen!Last(s))
<1>1. PICK n : n = Len(s) /\ n \in Nat \ {0}
  BY EmptySeq
<1>2. Screen!Last(s) = s[n] /\ s[n] \in T
  BY <1>1 DEF Screen!Last
<1>3. PICK f : f = SubSeq(s, 1, n - 1) /\ f = Screen!Front(s)
  BY <1>1 DEF Screen!Front
<1>4. f \in Seq(T) /\ Len(f) = n - 1 /\ \A i \in 1..(n - 1) : f[i] = s[i]
  BY <1>1, <1>3
<1>5. PICK a : a = Append(f, s[n])
  OBVIOUS
<1>6. a \in Seq(T) /\ Len(a) = n /\ \A i \in 1..n : a[i] = s[i]
  BY <1>1, <1>2, <1>4, <1>5
<1>7. a = s
  BY <1>1, <1>6
<1>8. QED
  BY <1>1, <1>2, <1>3, <1>4, <1>5, <1>7

\* Runs side by side from the left edge to a column.
Strips == [text : Seq(Glyphs), style : Styles, column : Nat, columns : Nat]
Side(runs, i) ==
  /\ \A k \in 1..Len(runs) : runs[k].column = IF k = 1 THEN 0 ELSE runs[k - 1].column + runs[k - 1].columns
  /\ i > 0 => runs # <<>>
  /\ runs # <<>> => runs[Len(runs)].column + runs[Len(runs)].columns = i

\* One column more for the last of them, or for a new one.
Longer(z, last, word) ==
  z \in Strips /\ z.column = last.column /\ z.columns = last.columns + 1 /\ z.text = last.text \o word
Wider(new, runs, i, word) ==
  /\ new \in Seq(Strips) /\ Side(new, i + 1)
  /\ Screen!TextOf(new) = Screen!TextOf(runs) \o word

LEMMA LastGrows ==
  ASSUME NEW runs \in Seq(Strips), runs # <<>>, NEW i \in Nat, Side(runs, i),
         NEW word \in Seq(Glyphs), NEW z, Longer(z, Screen!Last(runs), word),
         NEW new, new = Append(Screen!Front(runs), z)
  PROVE  Wider(new, runs, i, word)
<1>0. /\ z \in Strips /\ z.column = Screen!Last(runs).column /\ z.columns = Screen!Last(runs).columns + 1
      /\ z.text = Screen!Last(runs).text \o word
  BY DEF Longer
<1>1. PICK n, front, last :
        /\ n = Len(runs) /\ n \in Nat \ {0} /\ front = Screen!Front(runs) /\ last = Screen!Last(runs)
        /\ front \in Seq(Strips) /\ Len(front) = n - 1 /\ \A k \in 1..(n - 1) : front[k] = runs[k]
        /\ last = runs[n] /\ last \in Strips /\ runs = Append(front, last)
  <2>1. /\ Screen!Front(runs) \in Seq(Strips) /\ Len(Screen!Front(runs)) = Len(runs) - 1
        /\ Len(runs) \in Nat \ {0} /\ \A k \in 1..(Len(runs) - 1) : Screen!Front(runs)[k] = runs[k]
        /\ Screen!Last(runs) = runs[Len(runs)] /\ runs[Len(runs)] \in Strips
        /\ runs = Append(Screen!Front(runs), Screen!Last(runs))
    BY FrontLast, Zenon
  <2>2. QED
    BY <2>1
<1>2. \A x \in Strips : x.text \in Seq(Glyphs) /\ x.column \in Nat /\ x.columns \in Nat
  BY DEF Strips
<1>3. new \in Seq(Strips) /\ Len(new) = n /\ new[n] = z /\ \A k \in 1..(n - 1) : new[k] = runs[k]
  BY <1>0, <1>1
<1>4. Side(new, i + 1)
  <2>1. ASSUME NEW k \in 1..n
        PROVE  new[k].column = IF k = 1 THEN 0 ELSE new[k - 1].column + new[k - 1].columns
    <3>1. runs[k].column = IF k = 1 THEN 0 ELSE runs[k - 1].column + runs[k - 1].columns
      BY <1>1 DEF Side
    <3>2. new[k].column = runs[k].column
      BY <1>0, <1>1, <1>3
    <3>3. k # 1 => k - 1 \in 1..(n - 1)
      BY <1>1
    <3>4. QED
      BY <1>3, <3>1, <3>2, <3>3
  <2>2. last.column + last.columns = i
    BY <1>1 DEF Side
  <2>3. z.column + z.columns = i + 1
    <3>1. z.column = last.column /\ z.columns = last.columns + 1
      BY <1>0, <1>1
    <3>2. last.column \in Nat /\ last.columns \in Nat
      BY <1>1, <1>2
    <3>3. QED
      BY <2>2, <3>1, <3>2
  <2>4. new # <<>>
    BY <1>1, <1>3
  <2>5. QED
    BY <1>3, <2>1, <2>3, <2>4 DEF Side
<1>5. Screen!TextOf(new) = Screen!TextOf(front) \o z.text
  BY <1>0, <1>1, <1>2, TextLonger
<1>6. Screen!TextOf(runs) = Screen!TextOf(front) \o last.text
  BY <1>1, <1>2, TextLonger
<1>7. Screen!TextOf(front) \in Seq(Glyphs) /\ last.text \in Seq(Glyphs)
  BY <1>1, <1>2, TextIsText
<1>8. (Screen!TextOf(front) \o last.text) \o word = Screen!TextOf(front) \o (last.text \o word)
  <2>1. ASSUME NEW a \in Seq(Glyphs), NEW b \in Seq(Glyphs), NEW c \in Seq(Glyphs)
        PROVE  (a \o b) \o c = a \o (b \o c)
    BY ConcatAssociative
  <2>2. QED
    BY <1>7, <2>1, Zenon
<1>9. z.text = last.text \o word
  BY <1>0, <1>1
<1>10. Screen!TextOf(new) = Screen!TextOf(runs) \o word
  BY <1>5, <1>6, <1>8, <1>9, Zenon
<1>11. QED
  BY <1>3, <1>4, <1>10 DEF Wider

LEMMA OneIsAdded ==
  ASSUME NEW runs \in Seq(Strips), NEW i \in Nat, Side(runs, i), NEW z \in Strips, z.column = i, z.columns = 1,
         NEW new, new = Append(runs, z)
  PROVE  new \in Seq(Strips) /\ Side(new, i + 1) /\ Screen!TextOf(new) = Screen!TextOf(runs) \o z.text
<1>1. PICK n : n = Len(runs) /\ n \in Nat
  OBVIOUS
<1>2. new \in Seq(Strips) /\ Len(new) = n + 1 /\ new[n + 1] = z /\ \A k \in 1..n : new[k] = runs[k]
  BY <1>1
<1>3. ASSUME NEW k \in 1..(n + 1)
      PROVE  new[k].column = IF k = 1 THEN 0 ELSE new[k - 1].column + new[k - 1].columns
  <2>1. CASE k \in 1..n
    <3>1. runs[k].column = IF k = 1 THEN 0 ELSE runs[k - 1].column + runs[k - 1].columns
      BY <1>1, <2>1 DEF Side
    <3>2. k # 1 => k - 1 \in 1..n
      BY <1>1, <2>1
    <3>3. QED
      BY <1>2, <2>1, <3>1, <3>2
  <2>2. CASE k = n + 1 /\ n = 0
    <3>1. runs = <<>>
      <4>1. Len(runs) = 0
        BY <1>1, <2>2
      <4>2. QED
        BY <4>1, EmptySeq
    <3>2. i = 0
      BY <3>1 DEF Side
    <3>3. QED
      BY <1>2, <2>2, <3>2
  <2>3. CASE k = n + 1 /\ n # 0
    <3>1. runs # <<>>
      BY <1>1, <2>3
    <3>2. runs[n].column + runs[n].columns = i
      BY <1>1, <3>1 DEF Side
    <3>3. k - 1 = n /\ n \in 1..n /\ k # 1
      BY <1>1, <2>3
    <3>4. QED
      BY <1>2, <2>3, <3>2, <3>3
  <2>4. QED
    BY <1>1, <2>1, <2>2, <2>3
<1>4. new # <<>>
  BY <1>1, <1>2
<1>5. Side(new, i + 1)
  BY <1>1, <1>2, <1>3, <1>4 DEF Side
<1>6. \A x \in Strips : x.text \in Seq(Glyphs)
  BY DEF Strips
<1>7. QED
  BY <1>2, <1>5, <1>6, TextLonger

\* One cell more is in the last run, or in one of its own.
LEMMA GatherStep ==
  ASSUME NEW row, Fits(row), NEW i \in Nat, i + 1 \in 1..Len(row), NEW runs \in Seq(Strips), Side(runs, i),
         NEW new, new = Screen!RunsWith(runs, row, i + 1)
  PROVE  new \in Seq(Strips) /\ Side(new, i + 1) /\ Screen!TextOf(new) = Screen!TextOf(runs) \o row[i + 1].text
<1>1. PICK j, cell : /\ j = i + 1 /\ j \in 1..Len(row) /\ j - 1 = i /\ cell = row[j] /\ cell \in Cells
                     /\ cell.text \in Seq(Glyphs) /\ cell.style \in Styles
  <2>1. row \in Rows
    BY DEF Fits
  <2>2. row[i + 1] \in Cells
    BY <2>1, RowIs
  <2>3. row[i + 1].text \in Seq(Glyphs) /\ row[i + 1].style \in Styles
    BY <2>2 DEF Cells
  <2>4. i + 1 - 1 = i
    OBVIOUS
  <2>5. QED
    BY <2>2, <2>3, <2>4
<1>2. Screen!IsRest(row, j) <=> cell.text = <<>>
  BY <1>1 DEF Fits, Rows, Screen!IsRest
<1>3. ASSUME Screen!IsRest(row, j) PROVE runs # <<>>
  <2>1. Kind(row[j]) = "rest"
    BY <1>1, <1>2, <1>3 DEF Kind
  <2>2. j > 1
    BY <1>1, <2>1 DEF Fits, Whole
  <2>3. i > 0
    BY <1>1, <2>2
  <2>4. QED
    BY <2>3 DEF Side
<1>4. CASE Screen!IsRest(row, j)
  <2>1. runs # <<>>
    BY <1>3, <1>4
  <2>2. PICK last : last = Screen!Last(runs) /\ last \in Strips
    BY <2>1, FrontLast
  <2>3. PICK z : z = [last EXCEPT !.columns = @ + 1]
    OBVIOUS
  <2>4. new = Append(Screen!Front(runs), z)
    <3>1. new = Append(Screen!Front(runs), [Screen!Last(runs) EXCEPT !.columns = @ + 1])
      <4>1. new = Screen!RunsWith(runs, row, j) /\ Screen!IsRest(row, j) /\ runs # <<>> /\ row[j].text = <<>>
        BY <1>1, <1>2, <1>4, <2>1
      <4>2. new = IF runs = <<>> THEN runs
                  ELSE Append(Screen!Front(runs), [Screen!Last(runs) EXCEPT !.columns = @ + 1])
        BY <4>1 DEF Screen!RunsWith
      <4>3. QED
        BY <4>1, <4>2
    <3>2. QED
      BY <2>2, <2>3, <3>1
  <2>5. last.text \in Seq(Glyphs) /\ last.column \in Nat /\ last.columns \in Nat
    BY <2>2 DEF Strips
  <2>6. z \in Strips /\ z.column = last.column /\ z.columns = last.columns + 1 /\ z.text = last.text
    BY <2>2, <2>3, <2>5 DEF Strips
  <2>7. z.text = last.text \o cell.text
    BY <1>2, <1>4, <2>5, <2>6, ConcatEmptySeq
  <2>8. /\ z.column = Screen!Last(runs).column /\ z.columns = Screen!Last(runs).columns + 1
        /\ z.text = Screen!Last(runs).text \o cell.text
    BY <2>2, <2>6, <2>7
  <2>9. new \in Seq(Strips) /\ Side(new, i + 1) /\ Screen!TextOf(new) = Screen!TextOf(runs) \o cell.text
    <3>1. /\ runs # <<>> /\ cell.text \in Seq(Glyphs) /\ Longer(z, Screen!Last(runs), cell.text)
          /\ new = Append(Screen!Front(runs), z)
      BY <1>1, <2>1, <2>4, <2>6, <2>8 DEF Longer
    <3>2. Wider(new, runs, i, cell.text)
      BY <3>1, LastGrows, Zenon
    <3>3. QED
      BY <3>2 DEF Wider
  <2>10. QED
    BY <1>1, <2>9
<1>5. CASE ~Screen!IsRest(row, j) /\ runs # <<>> /\ cell.text # <<>> /\ Screen!Last(runs).style = cell.style
  <2>2. PICK last : last = Screen!Last(runs) /\ last \in Strips
    BY <1>5, FrontLast
  <2>3. PICK z : z = [last EXCEPT !.columns = @ + 1, !.text = @ \o cell.text]
    OBVIOUS
  <2>4. new = Append(Screen!Front(runs), z)
    BY <1>1, <1>5, <2>2, <2>3 DEF Screen!RunsWith
  <2>5. last.text \in Seq(Glyphs) /\ last.column \in Nat /\ last.columns \in Nat
    BY <2>2 DEF Strips
  <2>6. PICK text : text = last.text \o cell.text /\ text \in Seq(Glyphs)
    BY <1>1, <2>5, ConcatProperties
  <2>7. z = [last EXCEPT !.columns = @ + 1, !.text = text]
    BY <2>3, <2>6, Zenon
  <2>8. z \in Strips /\ z.column = last.column /\ z.columns = last.columns + 1 /\ z.text = text
    <3>1. PICK w : w = last.columns + 1 /\ w \in Nat
      BY <2>5
    <3>2. z = [last EXCEPT !.columns = w, !.text = text]
      BY <2>7, <3>1, Zenon
    <3>3. z \in Strips /\ z.column = last.column /\ z.columns = w /\ z.text = text
      BY <2>2, <2>6, <3>1, <3>2 DEF Strips
    <3>4. QED
      BY <3>1, <3>3
  <2>9. /\ z.column = Screen!Last(runs).column /\ z.columns = Screen!Last(runs).columns + 1
        /\ z.text = Screen!Last(runs).text \o cell.text
    BY <2>2, <2>6, <2>8
  <2>10. new \in Seq(Strips) /\ Side(new, i + 1) /\ Screen!TextOf(new) = Screen!TextOf(runs) \o cell.text
    <3>1. /\ runs # <<>> /\ cell.text \in Seq(Glyphs) /\ Longer(z, Screen!Last(runs), cell.text)
          /\ new = Append(Screen!Front(runs), z)
      BY <1>1, <1>5, <2>4, <2>8, <2>9 DEF Longer
    <3>2. Wider(new, runs, i, cell.text)
      BY <3>1, LastGrows, Zenon
    <3>3. QED
      BY <3>2 DEF Wider
  <2>11. QED
    BY <1>1, <2>10
<1>6. CASE ~Screen!IsRest(row, j) /\ ~(runs # <<>> /\ cell.text # <<>> /\ Screen!Last(runs).style = cell.style)
  <2>1. PICK z : z = Screen!Run(cell.text, cell.style, i, 1)
    OBVIOUS
  <2>2. new = Append(runs, z)
    BY <1>1, <1>6, <2>1 DEF Screen!RunsWith
  <2>3. z \in Strips /\ z.column = i /\ z.columns = 1 /\ z.text = cell.text
    BY <1>1, <2>1 DEF Strips, Screen!Run
  <2>4. QED
    BY <1>1, <2>2, <2>3, OneIsAdded
<1>7. QED
  BY <1>4, <1>5, <1>6

\* The runs of a row: side by side, as wide as the row, with its text.
LEMMA RunsAre ==
  ASSUME NEW row, Fits(row)
  PROVE  /\ Screen!RunsOf(row) \in Seq(Strips) /\ Side(Screen!RunsOf(row), Len(row))
         /\ Screen!TextOf(Screen!RunsOf(row)) = Screen!TextOf(row)
<1>1. PICK n : n \in Nat /\ n = Len(row) /\ row \in Seq(Cells)
  BY DEF Fits, Rows
<1>2. PICK f : Gathers(f, row, n)
  <2>1. n \in Nat /\ n = Len(row)
    BY <1>1
  <2>2. QED
    BY <2>1, RunsRun, Zenon
<1>3. PICK t : Joins(t, row, n)
  <2>1. n \in Nat /\ n = Len(row)
    BY <1>1
  <2>2. QED
    BY <2>1, TextRun, Zenon
<1> DEFINE M == {i \in 0..n : f[i] \in Seq(Strips) /\ Side(f[i], i) /\ Screen!TextOf(f[i]) = t[i]}
<1>4. 0 \in M
  <2>1. f[0] = <<>> /\ t[0] = <<>>
    BY <1>2, <1>3 DEF Gathers, Joins
  <2>2. Side(<<>>, 0) /\ <<>> \in Seq(Strips)
    BY DEF Side
  <2>3. Screen!TextOf(<<>>) = <<>>
    <3>1. 0 \in Nat /\ 0 = Len(<<>>)
      OBVIOUS
    <3>2. PICK g : Joins(g, <<>>, 0)
      BY <3>1, TextRun, Zenon
    <3>3. QED
      BY <3>2 DEF Joins
  <2>4. 0 \in 0..n
    BY <1>1
  <2>5. QED
    BY <2>1, <2>2, <2>3, <2>4, Zenon
<1>5. ASSUME NEW i \in 1..n, i - 1 \in M PROVE i \in M
  <2>1. PICK k, runs, new : k = i - 1 /\ k \in Nat /\ k + 1 = i /\ runs = f[k] /\ new = f[i]
    OBVIOUS
  <2>2. runs \in Seq(Strips) /\ Side(runs, k) /\ Screen!TextOf(runs) = t[k]
    BY <1>5, <2>1
  <2>3. new = Screen!RunsWith(runs, row, k + 1)
    BY <1>2, <2>1 DEF Gathers
  <2>4. k + 1 \in 1..Len(row)
    BY <1>1, <2>1
  <2>5. /\ new \in Seq(Strips) /\ Side(new, k + 1)
        /\ Screen!TextOf(new) = Screen!TextOf(runs) \o row[k + 1].text
    BY <2>1, <2>2, <2>3, <2>4, GatherStep
  <2>6. t[i] = t[k] \o row[i].text
    BY <1>3, <2>1 DEF Joins
  <2>7. i \in 0..n
    OBVIOUS
  <2>8. QED
    BY <2>1, <2>2, <2>5, <2>6, <2>7
<1>6. \A i \in 0..n : i \in M
  <2> HIDE DEF M
  <2>1. QED
    BY <1>1, <1>4, <1>5, Climb
<1>7. n \in M
  BY <1>1, <1>6
<1>8. QED
  BY <1>1, <1>2, <1>3, <1>7 DEF Gathers, Joins

-----------------------------------------------------------------------------
(* The page that shows the rows.                                           *)

\* What the configuration promises: room for a row, a width between tab stops, and
\* first pages of whole characters.
ScreenConstants ==
  /\ Cap \in Nat \ {0} /\ TabWidth \in Nat \ {0} /\ Default \in Styles
  /\ \A page \in Pages : /\ page \in Seq(Rows) /\ page # <<>> /\ Len(page) <= Cap
                         /\ \A r \in 1..Len(page) : Whole(page[r])

RowsInv ==
  /\ rows \in Seq(Rows) /\ rows # <<>> /\ Len(rows) <= Cap /\ \A r \in 1..Len(rows) : Whole(rows[r])
  /\ column \in Nat /\ style \in Styles /\ trimmed \in Nat
PageTypes ==
  /\ elements \in Seq(Seq(Strips)) /\ mirrored \in Nat /\ dirty \in Nat \cup {Screen!Quiet}
  /\ live \in BOOLEAN /\ wiped \in BOOLEAN /\ (live \/ elements = <<>>)

\* Between two chunks the page shows every row.
Follows ==
  live /\ ~wiped /\ dirty = Screen!Quiet =>
    /\ mirrored = trimmed /\ Len(elements) = Len(rows)
    /\ \A r \in 1..Len(rows) : elements[r] = Screen!RunsOf(rows[r])

\* Within one it shows the rows above the first that the chunk may have changed, each
\* as many elements lower as rows have been dropped since.
Lags ==
  live /\ ~wiped /\ dirty # Screen!Quiet =>
    /\ mirrored <= trimmed /\ Len(elements) = dirty - mirrored + 1 /\ dirty < trimmed + Len(rows)
    /\ \A r \in 1..Len(rows) :
         trimmed + r - 1 < dirty => elements[r + trimmed - mirrored] = Screen!RunsOf(rows[r])
ScreenInv == RowsInv /\ PageTypes /\ Follows /\ Lags

LEMMA LineFits ==
  ASSUME RowsInv
  PROVE  /\ Fits(Screen!Line) /\ Screen!Line = rows[Len(rows)] /\ Len(rows) \in Nat \ {0}
         /\ Len(Screen!Line) \in Nat
<1>1. PICK n : n = Len(rows) /\ n \in Nat \ {0}
  BY EmptySeq DEF RowsInv
<1>2. Screen!Line = rows[n]
  BY <1>1 DEF Screen!Line, Screen!Last
<1>3. rows[n] \in Rows /\ Whole(rows[n])
  BY <1>1 DEF RowsInv
<1>4. Len(rows[n]) \in Nat
  BY <1>3, RowIs
<1>5. QED
  BY <1>1, <1>2, <1>3, <1>4 DEF Fits

\* What is put into the last row of a page is not shown before the chunk's end.
LEMMA PutKeeps ==
  ASSUME ScreenInv, NEW row, Fits(row), NEW at \in Nat, NEW st \in Styles, Screen!Put(row, at, st)
  PROVE  ScreenInv'
<1>1. PICK n : n = Len(rows) /\ n \in Nat \ {0}
  BY LineFits DEF ScreenInv
<1>2. /\ rows' = [rows EXCEPT ![n] = row] /\ column' = at /\ style' = st /\ trimmed' = trimmed
      /\ wiped' = wiped /\ elements' = elements /\ mirrored' = mirrored /\ dirty' = dirty /\ live' = live
      /\ dirty # Screen!Quiet
  BY <1>1 DEF Screen!Put, Screen!Event, Screen!pageVars
<1>3. /\ rows' \in Seq(Rows) /\ Len(rows') = n /\ \A r \in 1..n : rows'[r] = IF r = n THEN row ELSE rows[r]
  <2>1. rows \in Seq(Rows) /\ row \in Rows
    BY DEF ScreenInv, RowsInv, Fits
  <2>2. QED
    BY <1>1, <1>2, <2>1
<1>4. RowsInv'
  <2>1. \A r \in 1..n : Whole(rows'[r])
    BY <1>1, <1>3 DEF ScreenInv, RowsInv, Fits
  <2>2. rows' # <<>>
    BY <1>1, <1>3
  <2>3. QED
    BY <1>1, <1>2, <1>3, <2>1, <2>2 DEF ScreenInv, RowsInv
<1>5. PageTypes' /\ Follows'
  BY <1>2 DEF ScreenInv, PageTypes, Follows
<1>6. ASSUME live, ~wiped
      PROVE  /\ mirrored <= trimmed /\ Len(elements) = dirty - mirrored + 1 /\ dirty < trimmed + n
             /\ \A r \in 1..n :
                  trimmed + r - 1 < dirty => elements[r + trimmed - mirrored] = Screen!RunsOf(rows'[r])
  <2>1. /\ mirrored <= trimmed /\ Len(elements) = dirty - mirrored + 1 /\ dirty < trimmed + n
        /\ \A r \in 1..n :
             trimmed + r - 1 < dirty => elements[r + trimmed - mirrored] = Screen!RunsOf(rows[r])
    BY <1>1, <1>2, <1>6 DEF ScreenInv, Lags
  <2>2. ASSUME NEW r \in 1..n, trimmed + r - 1 < dirty PROVE rows'[r] = rows[r]
    <3>1. trimmed \in Nat /\ dirty \in Int
      BY DEF ScreenInv, RowsInv, PageTypes, Screen!Quiet
    <3>2. r # n
      BY <1>1, <2>1, <2>2, <3>1
    <3>3. QED
      BY <1>3, <3>2
  <2>3. QED
    BY <2>1, <2>2
<1>7. Lags'
  BY <1>2, <1>3, <1>6 DEF Lags
<1>8. QED
  BY <1>4, <1>5, <1>7 DEF ScreenInv

\* A new row, and the first dropped for it where there is no room.
LEMMA NewLineKeeps ==
  ASSUME ScreenConstants, ScreenInv, Screen!NewLine
  PROVE  ScreenInv'
<1>1. PICK n : n = Len(rows) /\ n \in Nat \ {0} /\ rows \in Seq(Rows)
  BY LineFits DEF ScreenInv, RowsInv
<1>2. /\ column' = 0 /\ style' = style /\ wiped' = wiped /\ elements' = elements /\ mirrored' = mirrored
      /\ dirty' = dirty /\ live' = live /\ dirty # Screen!Quiet
      /\ rows' = Append(IF n = Cap THEN Tail(rows) ELSE rows, <<>>)
      /\ trimmed' = IF n = Cap THEN trimmed + 1 ELSE trimmed
  BY <1>1 DEF Screen!NewLine, Screen!Event, Screen!pageVars
<1>3. /\ trimmed \in Nat /\ dirty \in Int /\ mirrored \in Nat /\ Cap \in Nat \ {0} /\ n <= Cap
      /\ \A r \in 1..n : Whole(rows[r])
  BY <1>1 DEF ScreenInv, RowsInv, PageTypes, Screen!Quiet, ScreenConstants
<1>4. <<>> \in Rows /\ Whole(<<>>)
  BY DEF Rows, Whole
<1>5. PICK d : d = (IF n = Cap THEN 1 ELSE 0) /\ d \in 0..1 /\ trimmed' = trimmed + d
  BY <1>2, <1>3
<1>6. /\ rows' \in Seq(Rows) /\ Len(rows') = n + 1 - d /\ rows'[n + 1 - d] = <<>>
      /\ \A r \in 1..(n - d) : rows'[r] = rows[r + d]
  <2>1. CASE n = Cap
    <3>1. d = 1 /\ rows' = Append(Tail(rows), <<>>)
      BY <1>2, <1>5, <2>1
    <3>2. PICK t : t = Tail(rows) /\ t \in Seq(Rows) /\ Len(t) = n - 1 /\ \A r \in 1..(n - 1) : t[r] = rows[r + 1]
      <4>1. rows # <<>>
        BY <1>1
      <4>2. /\ Tail(rows) \in Seq(Rows) /\ Len(Tail(rows)) = Len(rows) - 1
            /\ \A r \in 1..Len(Tail(rows)) : Tail(rows)[r] = rows[r + 1]
        BY <1>1, <4>1, HeadTailProperties
      <4>3. QED
        BY <1>1, <4>2
    <3>3. QED
      BY <1>1, <1>4, <3>1, <3>2
  <2>2. CASE n # Cap
    <3>1. d = 0 /\ rows' = Append(rows, <<>>)
      BY <1>2, <1>5, <2>2
    <3>2. QED
      BY <1>1, <1>4, <3>1
  <2>3. QED
    BY <2>1, <2>2
<1>7. RowsInv'
  <2>1. ASSUME NEW r \in 1..(n + 1 - d) PROVE Whole(rows'[r])
    <3>1. CASE r = n + 1 - d
      BY <1>4, <1>6, <3>1
    <3>2. CASE r # n + 1 - d
      <4>1. r \in 1..(n - d) /\ r + d \in 1..n
        BY <1>1, <1>5, <3>2
      <4>2. QED
        BY <1>3, <1>6, <4>1
    <3>3. QED
      BY <3>1, <3>2
  <2>2. Len(rows') <= Cap /\ Len(rows') \in Nat \ {0}
    BY <1>1, <1>3, <1>5, <1>6
  <2>3. rows' # <<>>
    BY <2>2
  <2>4. column' \in Nat /\ style' \in Styles /\ trimmed' \in Nat
    BY <1>2, <1>3, <1>5 DEF ScreenInv, RowsInv
  <2>5. QED
    BY <1>6, <2>1, <2>2, <2>3, <2>4 DEF RowsInv
<1>8. PageTypes' /\ Follows'
  BY <1>2 DEF ScreenInv, PageTypes, Follows
<1>9. ASSUME live, ~wiped
      PROVE  /\ mirrored <= trimmed' /\ Len(elements) = dirty - mirrored + 1 /\ dirty < trimmed' + Len(rows')
             /\ \A r \in 1..Len(rows') :
                  trimmed' + r - 1 < dirty => elements[r + trimmed' - mirrored] = Screen!RunsOf(rows'[r])
  <2>1. /\ mirrored <= trimmed /\ Len(elements) = dirty - mirrored + 1 /\ dirty < trimmed + n
        /\ \A r \in 1..n :
             trimmed + r - 1 < dirty => elements[r + trimmed - mirrored] = Screen!RunsOf(rows[r])
    BY <1>1, <1>2, <1>9 DEF ScreenInv, Lags
  <2>2. mirrored <= trimmed' /\ dirty < trimmed' + Len(rows')
    BY <1>1, <1>3, <1>5, <1>6, <2>1
  <2>3. ASSUME NEW r \in 1..Len(rows'), trimmed' + r - 1 < dirty
        PROVE  elements[r + trimmed' - mirrored] = Screen!RunsOf(rows'[r])
    <3>1. PICK s : s = r + d /\ s \in 1..n /\ r \in 1..(n - d) /\ trimmed + s - 1 < dirty
                   /\ s + trimmed - mirrored = r + trimmed' - mirrored
      <4>1. trimmed + d + r - 1 < dirty /\ r \in 1..(n + 1 - d)
        BY <1>3, <1>5, <1>6, <2>3
      <4>2. r # n + 1 - d
        BY <1>1, <1>3, <1>5, <2>1, <4>1
      <4>3. r + d \in 1..n /\ r \in 1..(n - d) /\ trimmed + (r + d) - 1 < dirty
        BY <1>1, <1>3, <1>5, <4>1, <4>2
      <4>4. (r + d) + trimmed - mirrored = r + trimmed' - mirrored
        BY <1>3, <1>5, <4>1
      <4>5. QED
        BY <4>3, <4>4
    <3>2. rows'[r] = rows[s]
      BY <1>6, <3>1
    <3>3. elements[s + trimmed - mirrored] = Screen!RunsOf(rows[s])
      BY <2>1, <3>1
    <3>4. QED
      BY <3>1, <3>2, <3>3
  <2>4. QED
    BY <2>1, <2>2, <2>3
<1>10. Lags'
  BY <1>2, <1>9 DEF Lags
<1>11. QED
  BY <1>7, <1>8, <1>10 DEF ScreenInv

\* The page drops the elements of the rows dropped, adds what is missing and fills
\* again the rows from the first that may have changed.
LEMMA MendedIs ==
  ASSUME ScreenInv, Screen!EndWrite
  PROVE  \E d, kept, all \in Nat :
           /\ d = (IF trimmed > mirrored THEN trimmed - mirrored ELSE 0)
           /\ kept = (IF d <= Len(elements) THEN Len(elements) - d ELSE 0)
           /\ all = (IF Len(rows) > kept THEN Len(rows) ELSE kept)
           /\ elements' \in Seq(Seq(Strips)) /\ Len(elements') = all
           /\ \A i \in 1..Len(rows) : i > Screen!FilledFrom(dirty) => elements'[i] = Screen!RunsOf(rows[i])
           /\ \A i \in 1..kept : i <= Screen!FilledFrom(dirty) => elements'[i] = elements[i + d]
<1>1. PICK n, m : n = Len(rows) /\ n \in Nat /\ m = Len(elements) /\ m \in Nat /\ DOMAIN rows = 1..n
  <2>1. rows \in Seq(Rows) /\ elements \in Seq(Seq(Strips))
    BY DEF ScreenInv, RowsInv, PageTypes
  <2>2. Len(rows) \in Nat /\ Len(elements) \in Nat /\ DOMAIN rows = 1..Len(rows)
    BY <2>1
  <2>3. QED
    BY <2>2
<1>2. PICK d : d = (IF trimmed > mirrored THEN trimmed - mirrored ELSE 0) /\ d \in Nat
  <2>1. trimmed \in Nat /\ mirrored \in Nat
    BY DEF ScreenInv, RowsInv, PageTypes
  <2>2. (IF trimmed > mirrored THEN trimmed - mirrored ELSE 0) \in Nat
    BY <2>1
  <2>3. QED
    BY <2>2
<1>3. PICK kept : kept = SubSeq(elements, d + 1, m)
  OBVIOUS
<1>4. PICK k : k = (IF n > Len(kept) THEN n - Len(kept) ELSE 0)
  OBVIOUS
<1>5. PICK pad : pad = [i \in 1..k |-> <<>>]
  OBVIOUS
<1>6. PICK all : all = kept \o pad
  OBVIOUS
<1>7. elements' = [i \in DOMAIN all |-> IF i \in 1..n /\ i > Screen!FilledFrom(dirty) THEN Screen!RunsOf(rows[i])
                                        ELSE all[i]]
  BY <1>1, <1>2, <1>3, <1>4, <1>5, <1>6 DEF Screen!EndWrite
<1>8. PICK p : /\ p \in Nat /\ p = (IF d <= m THEN m - d ELSE 0)
               /\ kept \in Seq(Seq(Strips)) /\ Len(kept) = p /\ \A i \in 1..p : kept[i] = elements[i + d]
  <2>1. elements \in Seq(Seq(Strips))
    BY DEF ScreenInv, PageTypes
  <2>2. \A i \in (d + 1)..m : elements[i] \in Seq(Strips)
    BY <1>1, <1>2, <2>1
  <2>3. /\ kept \in Seq(Seq(Strips)) /\ Len(kept) = (IF d + 1 <= m THEN m - (d + 1) + 1 ELSE 0)
        /\ \A i \in 1..(m - (d + 1) + 1) : kept[i] = elements[d + 1 + i - 1]
    BY <1>1, <1>2, <1>3, <2>2, SubSeqProperties
  <2>4. PICK p : p = (IF d <= m THEN m - d ELSE 0) /\ p \in Nat
    <3>1. (IF d <= m THEN m - d ELSE 0) \in Nat
      BY <1>1, <1>2
    <3>2. QED
      BY <3>1
  <2>5. Len(kept) = p
    BY <1>1, <1>2, <2>3, <2>4
  <2>6. ASSUME NEW i \in 1..p PROVE kept[i] = elements[i + d]
    <3>1. i \in 1..(m - (d + 1) + 1) /\ d + 1 + i - 1 = i + d
      BY <1>1, <1>2, <2>4
    <3>2. QED
      BY <2>3, <3>1
  <2>7. QED
    BY <2>3, <2>4, <2>5, <2>6
<1>9. PICK q : q \in Nat /\ q = (IF n > p THEN n ELSE p) /\ k \in Nat /\ p + k = q
  <2>1. (IF n > p THEN n ELSE p) \in Nat /\ k \in Nat /\ p + k = (IF n > p THEN n ELSE p)
    BY <1>1, <1>4, <1>8
  <2>2. QED
    BY <2>1
<1>10. pad \in Seq(Seq(Strips)) /\ Len(pad) = k
  <2>1. <<>> \in Seq(Strips)
    OBVIOUS
  <2>2. pad \in [1..k -> Seq(Strips)]
    BY <1>5, <2>1
  <2>3. QED
    BY <1>9, <2>2, AsRow
<1>11. /\ all \in Seq(Seq(Strips)) /\ Len(all) = q /\ DOMAIN all = 1..q
       /\ \A i \in 1..p : all[i] = kept[i]
  <2>1. /\ kept \o pad \in Seq(Seq(Strips)) /\ Len(kept \o pad) = Len(kept) + Len(pad)
        /\ \A i \in 1..(Len(kept) + Len(pad)) : (kept \o pad)[i] = IF i <= Len(kept) THEN kept[i] ELSE pad[i - Len(kept)]
    BY <1>8, <1>10, ConcatProperties, Zenon
  <2>2. /\ all \in Seq(Seq(Strips)) /\ Len(all) = q
        /\ \A i \in 1..q : all[i] = IF i <= p THEN kept[i] ELSE pad[i - p]
    BY <1>6, <1>8, <1>9, <1>10, <2>1
  <2>3. QED
    BY <1>8, <1>9, <2>2
<1>12. \A i \in 1..n : Screen!RunsOf(rows[i]) \in Seq(Strips)
  <2>1. \A i \in 1..n : Fits(rows[i])
    BY <1>1 DEF ScreenInv, RowsInv, Fits
  <2>2. QED
    BY <2>1, RunsAre
<1>13. elements' \in [1..q -> Seq(Strips)]
  BY <1>7, <1>11, <1>12
<1>14. elements' \in Seq(Seq(Strips)) /\ Len(elements') = q
  BY <1>9, <1>13, AsRow
<1>15. \A i \in 1..n : i > Screen!FilledFrom(dirty) => elements'[i] = Screen!RunsOf(rows[i])
  BY <1>1, <1>7, <1>8, <1>9, <1>11
<1>16. ASSUME NEW i \in 1..p, i <= Screen!FilledFrom(dirty) PROVE elements'[i] = elements[i + d]
  <2>1. i \in 1..q
    BY <1>1, <1>8, <1>9
  <2>2. Screen!FilledFrom(dirty) \in Int
    BY DEF ScreenInv, RowsInv, PageTypes, Screen!Quiet, Screen!FilledFrom
  <2>3. ~(i > Screen!FilledFrom(dirty))
    BY <1>8, <1>16, <2>2
  <2>4. elements'[i] = all[i]
    BY <1>7, <1>11, <2>1, <2>3
  <2>5. QED
    BY <1>8, <1>11, <2>4
<1>17. QED
  BY <1>1, <1>2, <1>8, <1>9, <1>14, <1>15, <1>16

\* So it shows every row again.
LEMMA EndWriteKeeps ==
  ASSUME ScreenInv, Screen!EndWrite
  PROVE  ScreenInv'
<1>1. PICK d, kept, all \in Nat :
        /\ d = (IF trimmed > mirrored THEN trimmed - mirrored ELSE 0)
        /\ kept = (IF d <= Len(elements) THEN Len(elements) - d ELSE 0)
        /\ all = (IF Len(rows) > kept THEN Len(rows) ELSE kept)
        /\ elements' \in Seq(Seq(Strips)) /\ Len(elements') = all
        /\ \A i \in 1..Len(rows) : i > Screen!FilledFrom(dirty) => elements'[i] = Screen!RunsOf(rows[i])
        /\ \A i \in 1..kept : i <= Screen!FilledFrom(dirty) => elements'[i] = elements[i + d]
  BY MendedIs
<1>2. /\ rows' = rows /\ column' = column /\ style' = style /\ trimmed' = trimmed /\ live' = live /\ wiped' = wiped
      /\ mirrored' = trimmed /\ dirty' = Screen!Quiet /\ live /\ dirty # Screen!Quiet
  BY DEF Screen!EndWrite, Screen!bufferVars
<1>3. RowsInv'
  BY <1>2 DEF ScreenInv, RowsInv
<1>4. PageTypes'
  BY <1>1, <1>2 DEF ScreenInv, RowsInv, PageTypes
<1>5. Lags'
  BY <1>2 DEF Lags
<1>6. ASSUME ~wiped
      PROVE  Len(elements') = Len(rows) /\ \A r \in 1..Len(rows) : elements'[r] = Screen!RunsOf(rows[r])
  <2>1. PICK n, m : n = Len(rows) /\ n \in Nat /\ m = Len(elements) /\ m \in Nat /\ trimmed \in Nat /\ mirrored \in Nat
                    /\ dirty \in Int
    <3>1. /\ rows \in Seq(Rows) /\ elements \in Seq(Seq(Strips)) /\ trimmed \in Nat /\ mirrored \in Nat
          /\ dirty \in Int
      BY DEF ScreenInv, RowsInv, PageTypes, Screen!Quiet
    <3>2. Len(rows) \in Nat /\ Len(elements) \in Nat
      BY <3>1
    <3>3. QED
      BY <3>1, <3>2
  <2>2. /\ mirrored <= trimmed /\ m = dirty - mirrored + 1 /\ dirty < trimmed + n
        /\ \A r \in 1..n :
             trimmed + r - 1 < dirty => elements[r + trimmed - mirrored] = Screen!RunsOf(rows[r])
    BY <1>2, <1>6, <2>1 DEF ScreenInv, Lags
  <2>3. d = trimmed - mirrored
    BY <1>1, <2>1, <2>2
  <2>4. kept <= n /\ all = n
    BY <1>1, <2>1, <2>2, <2>3
  <2>5. ASSUME NEW r \in 1..n PROVE elements'[r] = Screen!RunsOf(rows[r])
    <3>1. PICK first : first = Screen!FilledFrom(dirty) /\ first = IF dirty > trimmed THEN dirty - trimmed ELSE 0
      BY DEF Screen!FilledFrom
    <3>2. CASE r > first
      BY <1>1, <2>1, <3>1, <3>2
    <3>3. CASE ~(r > first)
      <4>1. r <= first /\ trimmed + r - 1 < dirty /\ r \in 1..kept
        BY <1>1, <2>1, <2>2, <2>3, <3>1, <3>3
      <4>2. elements'[r] = elements[r + d]
        BY <1>1, <3>1, <4>1
      <4>3. r + d = r + trimmed - mirrored
        BY <2>1, <2>3
      <4>4. elements[r + trimmed - mirrored] = Screen!RunsOf(rows[r])
        BY <2>2, <4>1
      <4>5. QED
        BY <4>2, <4>3, <4>4
    <3>4. QED
      BY <3>2, <3>3
  <2>6. QED
    BY <1>1, <2>1, <2>4, <2>5
<1>7. Follows'
  BY <1>2, <1>6 DEF Follows
<1>8. QED
  BY <1>3, <1>4, <1>5, <1>7 DEF ScreenInv

LEMMA BeginWriteKeeps ==
  ASSUME ScreenInv, Screen!BeginWrite
  PROVE  ScreenInv'
<1>1. PICK n : n = Len(rows) /\ n \in Nat \ {0} /\ trimmed \in Nat /\ mirrored \in Nat
  BY LineFits DEF ScreenInv, RowsInv, PageTypes
<1>2. /\ rows' = rows /\ column' = column /\ style' = style /\ trimmed' = trimmed /\ elements' = elements
      /\ mirrored' = mirrored /\ live' = live /\ wiped' = wiped
      /\ live /\ dirty = Screen!Quiet /\ dirty' = trimmed + n - 1
  BY <1>1 DEF Screen!BeginWrite, Screen!bufferVars
<1>3. dirty' \in Nat /\ dirty' # Screen!Quiet
  BY <1>1, <1>2 DEF Screen!Quiet
<1>4. RowsInv' /\ PageTypes' /\ Follows'
  BY <1>2, <1>3 DEF ScreenInv, RowsInv, PageTypes, Follows
<1>5. ASSUME ~wiped
      PROVE  /\ mirrored <= trimmed /\ Len(elements) = dirty' - mirrored + 1 /\ dirty' < trimmed + n
             /\ \A r \in 1..n : trimmed + r - 1 < dirty' => elements[r + trimmed - mirrored] = Screen!RunsOf(rows[r])
  <2>1. mirrored = trimmed /\ Len(elements) = n /\ \A r \in 1..n : elements[r] = Screen!RunsOf(rows[r])
    BY <1>1, <1>2, <1>5 DEF ScreenInv, Follows
  <2>2. \A r \in 1..n : r + trimmed - mirrored = r
    BY <1>1, <2>1
  <2>3. QED
    BY <1>1, <1>2, <2>1, <2>2
<1>6. Lags'
  BY <1>1, <1>2, <1>5 DEF Lags
<1>7. QED
  BY <1>4, <1>6 DEF ScreenInv

\* All rows at once are gone: only the terminal's own clear is followed.
LEMMA EmptiedIs ==
  ASSUME ScreenConstants, Screen!Emptied, style' \in Styles
  PROVE  RowsInv' /\ trimmed' = 0 /\ Len(rows') = 1 /\ rows'[1] = <<>>
<1>1. rows' = <<<<>>>> /\ column' = 0 /\ trimmed' = 0
  BY DEF Screen!Emptied
<1>2. <<>> \in Rows /\ Whole(<<>>)
  BY DEF Rows, Whole
<1>3. rows' \in Seq(Rows) /\ Len(rows') = 1 /\ rows'[1] = <<>> /\ rows' # <<>>
  BY <1>1, <1>2
<1>4. \A r \in 1..1 : Whole(rows'[r])
  BY <1>2, <1>3
<1>5. QED
  BY <1>1, <1>3, <1>4 DEF RowsInv, ScreenConstants

LEMMA ClearKeeps ==
  ASSUME ScreenConstants, ScreenInv, Screen!Clear
  PROVE  ScreenInv'
<1>1. /\ style' = style /\ elements' = <<<<>>>> /\ mirrored' = 0 /\ wiped' = FALSE /\ dirty' = dirty /\ live' = live
      /\ Screen!Emptied /\ live /\ dirty = Screen!Quiet
  BY DEF Screen!Clear
<1>2. RowsInv' /\ trimmed' = 0 /\ Len(rows') = 1 /\ rows'[1] = <<>>
  BY <1>1, EmptiedIs DEF ScreenInv, RowsInv
<1>3. Screen!RunsOf(<<>>) = <<>>
  <2>1. 0 \in Nat /\ 0 = Len(<<>>)
    OBVIOUS
  <2>2. PICK f : Gathers(f, <<>>, 0)
    BY <2>1, RunsRun, Zenon
  <2>3. QED
    BY <2>2 DEF Gathers
<1>4. /\ elements' \in Seq(Seq(Strips)) /\ Len(elements') = 1 /\ elements'[1] = <<>>
  <2>1. <<>> \in Seq(Strips)
    OBVIOUS
  <2>2. QED
    BY <1>1, <2>1
<1>5. PageTypes'
  BY <1>1, <1>4 DEF ScreenInv, PageTypes
<1>6. \A r \in 1..Len(rows') : elements'[r] = Screen!RunsOf(rows'[r])
  <2>1. \A r \in 1..Len(rows') : r = 1
    BY <1>2
  <2>2. QED
    BY <1>2, <1>3, <1>4, <2>1
<1>7. Follows' /\ Lags'
  BY <1>1, <1>2, <1>4, <1>6 DEF Follows, Lags
<1>8. QED
  BY <1>2, <1>5, <1>7 DEF ScreenInv

LEMMA EraseAllKeeps ==
  ASSUME ScreenConstants, ScreenInv, NEW st \in Styles, Screen!EraseAll(st)
  PROVE  ScreenInv'
<1>1. /\ style' = st /\ wiped' = TRUE /\ Screen!Emptied /\ elements' = elements /\ mirrored' = mirrored
      /\ dirty' = dirty /\ live' = live
  BY DEF Screen!EraseAll, Screen!Event, Screen!pageVars
<1>2. RowsInv'
  BY <1>1, EmptiedIs
<1>3. PageTypes' /\ Follows' /\ Lags'
  BY <1>1 DEF ScreenInv, PageTypes, Follows, Lags
<1>4. QED
  BY <1>2, <1>3 DEF ScreenInv

LEMMA DisposeKeeps ==
  ASSUME ScreenInv, Screen!Dispose
  PROVE  ScreenInv'
<1>1. /\ rows' = rows /\ column' = column /\ style' = style /\ trimmed' = trimmed /\ mirrored' = mirrored
      /\ dirty' = dirty /\ wiped' = wiped /\ live' = FALSE /\ elements' = <<>>
  BY DEF Screen!Dispose, Screen!bufferVars
<1>2. <<>> \in Seq(Seq(Strips))
  OBVIOUS
<1>3. QED
  BY <1>1, <1>2 DEF ScreenInv, RowsInv, PageTypes, Follows, Lags

\* The cursor goes somewhere, and tabs and spaces are written on its way.
LEMMA MovesKeep ==
  ASSUME ScreenConstants, ScreenInv, Screen!Moves
  PROVE  ScreenInv'
<1>1. Fits(Screen!Line) /\ column \in Nat /\ style \in Styles
  BY LineFits DEF ScreenInv, RowsInv
<1>2. ASSUME NEW at \in Nat, Screen!Goes(at) PROVE ScreenInv'
  BY <1>1, <1>2, PutKeeps DEF Screen!Goes
<1>3. CASE Screen!Back
  <2>1. PICK at \in Nat : at = IF column > 0 THEN column - 1 ELSE 0
    BY <1>1
  <2>2. QED
    BY <1>2, <1>3, <2>1 DEF Screen!Back
<1>4. CASE Screen!Return
  BY <1>2, <1>4 DEF Screen!Return
<1>5. CASE Screen!Tab
  <2>1. PICK stop : stop = ((column \div TabWidth) + 1) * TabWidth /\ stop \in Nat
    <3>1. TabWidth \in Nat \ {0}
      BY DEF ScreenConstants
    <3>2. PICK k : k = (column \div TabWidth) + 1 /\ k \in Nat
      BY <1>1, <3>1
    <3>3. k * TabWidth \in Nat
      BY <3>1, <3>2
    <3>4. QED
      BY <3>2, <3>3
  <2>2. Screen!Put(Screen!Blanked(Screen!Padded(Screen!Line, column), column + 1, stop), stop, style)
    BY <1>5, <2>1 DEF Screen!Tab
  <2>3. Fits(Screen!Blanked(Screen!Padded(Screen!Line, column), column + 1, stop))
    BY <1>1, <2>1, BlankedFits
  <2>4. QED
    BY <1>1, <2>1, <2>2, <2>3, PutKeeps
<1>6. CASE Screen!NewLine
  BY <1>6, NewLineKeeps
<1>7. ASSUME NEW n \in 1..2, Screen!Forward(n) PROVE ScreenInv'
  <2>1. PICK to : to = column + n /\ to \in Nat
    BY <1>1
  <2>2. Screen!Put(Screen!Blanked(Screen!Padded(Screen!Line, column), column + 1, to), to, style)
    BY <1>7, <2>1 DEF Screen!Forward
  <2>3. Fits(Screen!Blanked(Screen!Padded(Screen!Line, column), column + 1, to))
    BY <1>1, <2>1, BlankedFits
  <2>4. QED
    BY <1>1, <2>1, <2>2, <2>3, PutKeeps
<1>8. ASSUME NEW n \in 1..2, Screen!Backward(n) PROVE ScreenInv'
  <2>1. PICK at \in Nat : at = IF column > n THEN column - n ELSE 0
    <3>1. n \in Nat
      OBVIOUS
    <3>2. (IF column > n THEN column - n ELSE 0) \in Nat
      BY <1>1, <3>1
    <3>3. QED
      BY <3>2
  <2>2. QED
    BY <1>2, <1>8, <2>1 DEF Screen!Backward
<1>9. ASSUME NEW n \in 1..2, Screen!To(n) PROVE ScreenInv'
  BY <1>2, <1>9 DEF Screen!To
<1>10. QED
  BY <1>3, <1>4, <1>5, <1>6, <1>7, <1>8, <1>9 DEF Screen!Moves

\* A character of any width, or another style.
LEMMA DrawKeeps ==
  ASSUME ScreenInv, Screen!Draw
  PROVE  ScreenInv'
<1>1. Fits(Screen!Line) /\ column \in Nat /\ style \in Styles /\ Len(Screen!Line) \in Nat
  BY LineFits DEF ScreenInv, RowsInv
<1>2. PICK next : next = column + 1 /\ next \in Nat
  BY <1>1
<1>3. CASE Screen!Combine
  <2>1. PICK before : before = {i \in DOMAIN Screen!Line : i <= column /\ ~Screen!IsRest(Screen!Line, i)}
    OBVIOUS
  <2>2. before \subseteq 1..Len(Screen!Line) /\ \A i \in before : ~Screen!IsRest(Screen!Line, i)
    BY <1>1, <2>1 DEF Fits, Rows
  <2>3. CASE before # {}
    <3>1. PICK m : m = Screen!Max(before) /\ m \in before
      BY <1>1, <2>2, <2>3, Highest
    <3>2. PICK row : row = [Screen!Line EXCEPT ![m].text = Append(@, Screen!Mark)]
      OBVIOUS
    <3>3. Screen!Put(row, column, style)
      BY <1>3, <2>1, <2>3, <3>1, <3>2 DEF Screen!Combine, Screen!Draws
    <3>4. Fits(row)
      BY <1>1, <2>2, <3>1, <3>2, MarkedIs
    <3>5. QED
      BY <1>1, <3>3, <3>4, PutKeeps
  <2>4. CASE before = {}
    <3>1. PICK row : row = Screen!With(Screen!Repaired(Screen!Padded(Screen!Line, column), column + 1), column + 1,
                                       Screen!Cell(<<Screen!Mark>>, style))
      OBVIOUS
    <3>2. Screen!Put(row, next, style)
      BY <1>2, <1>3, <2>1, <2>4, <3>1 DEF Screen!Combine
    <3>3. Screen!Mark \in Glyphs \ {"wide"}
      BY DEF Glyphs, Screen!Mark
    <3>4. Fits(row)
      BY <1>1, <3>1, <3>3, NarrowFits
    <3>5. QED
      BY <1>1, <1>2, <3>2, <3>4, PutKeeps
  <2>5. QED
    BY <2>3, <2>4
<1>4. ASSUME NEW c \in {"narrow", "wide"}, Screen!Character(c) PROVE ScreenInv'
  <2>1. CASE c = "narrow"
    <3>1. PICK row : row = Screen!With(Screen!Repaired(Screen!Padded(Screen!Line, column), column + 1), column + 1,
                                       Screen!Cell(<<c>>, style))
      OBVIOUS
    <3>2. Screen!Put(row, next, style)
      BY <1>2, <1>4, <2>1, <3>1 DEF Screen!Character
    <3>3. c \in Glyphs \ {"wide"}
      BY <2>1 DEF Glyphs
    <3>4. Fits(row)
      BY <1>1, <3>1, <3>3, NarrowFits
    <3>5. QED
      BY <1>1, <1>2, <3>2, <3>4, PutKeeps
  <2>2. CASE c = "wide"
    <3>1. PICK row : row = Screen!With(Screen!With(Screen!Repaired(Screen!Repaired(Screen!Padded(Screen!Line, column),
                                                                                  column + 1), column + 1 + 1),
                                                   column + 1, Screen!Cell(<<"wide">>, style)),
                                       column + 1 + 1, Screen!Rest(style))
      OBVIOUS
    <3>2. PICK two : two = column + 2 /\ two \in Nat
      BY <1>1
    <3>3. Screen!Put(row, two, style)
      BY <1>4, <2>2, <3>1, <3>2 DEF Screen!Character
    <3>4. Fits(row)
      BY <1>1, <3>1, WideFits
    <3>5. QED
      BY <1>1, <3>2, <3>3, <3>4, PutKeeps
  <2>3. QED
    BY <2>1, <2>2
<1>5. ASSUME NEW st \in Styles, Screen!Sgr(st) PROVE ScreenInv'
  BY <1>1, <1>5, PutKeeps DEF Screen!Sgr
<1>6. QED
  BY <1>3, <1>4, <1>5 DEF Screen!Draw

\* Part of the line, or everything.
LEMMA EraseKeeps ==
  ASSUME ScreenConstants, ScreenInv, Screen!Erase
  PROVE  ScreenInv'
<1>1. /\ Fits(Screen!Line) /\ column \in Nat /\ style \in Styles /\ Len(Screen!Line) \in Nat
      /\ Default \in Styles
  BY LineFits DEF ScreenInv, RowsInv, ScreenConstants
<1>2. ASSUME NEW row, Fits(row), Screen!Draws(row) PROVE ScreenInv'
  BY <1>1, <1>2, PutKeeps DEF Screen!Draws
<1>3. ASSUME NEW mode \in {"right", "left", "all"}, Screen!EraseInLine(mode) PROVE ScreenInv'
  <2>1. CASE mode = "right"
    <3>1. PICK k : k = (IF column < Len(Screen!Line) THEN column ELSE Len(Screen!Line)) /\ k \in 0..Len(Screen!Line)
      <4>1. (IF column < Len(Screen!Line) THEN column ELSE Len(Screen!Line)) \in 0..Len(Screen!Line)
        BY <1>1
      <4>2. QED
        BY <4>1
    <3>2. Screen!Draws(Screen!Cut(Screen!Line, k))
      BY <1>3, <2>1, <3>1 DEF Screen!EraseInLine
    <3>3. Fits(Screen!Cut(Screen!Line, k))
      BY <1>1, <3>1, CutIsWhole DEF Fits
    <3>4. QED
      BY <1>2, <3>2, <3>3
  <2>2. CASE mode = "left"
    <3>1. PICK k, z : k = column + 1 /\ k \in Nat /\ z = 0 /\ z + 1 = 1
      BY <1>1
    <3>2. Screen!Draws(Screen!Blanked(Screen!Padded(Screen!Line, k), z + 1, k))
      BY <1>3, <2>2, <3>1 DEF Screen!EraseInLine
    <3>3. Fits(Screen!Blanked(Screen!Padded(Screen!Line, k), z + 1, k))
      <4>1. z \in Nat /\ z <= k /\ k \in Nat /\ k \in Int
        BY <1>1, <3>1
      <4>2. QED
        BY <1>1, <4>1, BlankedFits
    <3>4. QED
      BY <1>2, <3>2, <3>3
  <2>3. CASE mode = "all"
    <3>1. Screen!Draws(<<>>)
      BY <1>3, <2>3 DEF Screen!EraseInLine
    <3>2. Fits(<<>>)
      BY DEF Fits, Rows, Whole
    <3>3. QED
      BY <1>2, <3>1, <3>2
  <2>4. QED
    BY <2>1, <2>2, <2>3
<1>4. ASSUME NEW n \in 1..2, Screen!EraseNext(n) PROVE ScreenInv'
  <2>1. PICK pad, k : pad = Screen!Padded(Screen!Line, column) /\ k = Len(pad) /\ k \in Nat
    BY <1>1, PaddedIs, RowIs DEF Fits
  <2>2. PICK to : to = Screen!Min({column + n, k})
    OBVIOUS
  <2>3. to \in Int
    <3>1. \E x \in {column + n, k} : \A y \in {column + n, k} : x <= y
      BY <1>1, <2>1
    <3>2. to \in {column + n, k}
      BY <2>2, <3>1 DEF Screen!Min
    <3>3. QED
      BY <1>1, <2>1, <3>2
  <2>4. Screen!Draws(Screen!Blanked(pad, column + 1, to))
    BY <1>4, <2>1, <2>2 DEF Screen!EraseNext
  <2>5. Fits(Screen!Blanked(pad, column + 1, to))
    BY <1>1, <2>1, <2>3, BlankedFits
  <2>6. QED
    BY <1>2, <2>4, <2>5
<1>5. ASSUME NEW st \in {style, Default}, Screen!EraseAll(st) PROVE ScreenInv'
  BY <1>1, <1>5, EraseAllKeeps
<1>6. QED
  BY <1>3, <1>4, <1>5 DEF Screen!Erase

LEMMA ScreenInit ==
  ASSUME ScreenConstants, Screen!Init
  PROVE  ScreenInv
<1>1. /\ rows \in Pages /\ elements = [r \in DOMAIN rows |-> Screen!RunsOf(rows[r])] /\ column = 0
      /\ style = Default /\ trimmed = 0 /\ mirrored = 0 /\ dirty = Screen!Quiet /\ live = TRUE /\ wiped = FALSE
  BY DEF Screen!Init
<1>2. rows \in Seq(Rows) /\ rows # <<>> /\ Len(rows) <= Cap /\ \A r \in 1..Len(rows) : Whole(rows[r])
  BY <1>1 DEF ScreenConstants
<1>3. PICK n : n = Len(rows) /\ n \in Nat /\ DOMAIN rows = 1..n
  BY <1>2
<1>4. RowsInv
  BY <1>1, <1>2 DEF RowsInv, ScreenConstants
<1>5. \A r \in 1..n : Screen!RunsOf(rows[r]) \in Seq(Strips)
  <2>1. \A r \in 1..n : Fits(rows[r])
    BY <1>2, <1>3 DEF Fits
  <2>2. QED
    BY <2>1, RunsAre
<1>6. elements \in [1..n -> Seq(Strips)] /\ \A r \in 1..n : elements[r] = Screen!RunsOf(rows[r])
  BY <1>1, <1>3, <1>5
<1>7. elements \in Seq(Seq(Strips)) /\ Len(elements) = n
  BY <1>3, <1>6, AsRow
<1>8. PageTypes /\ Follows /\ Lags
  BY <1>1, <1>3, <1>6, <1>7 DEF PageTypes, Follows, Lags
<1>9. QED
  BY <1>4, <1>8 DEF ScreenInv

LEMMA ScreenNext ==
  ASSUME ScreenConstants, ScreenInv, [Screen!Next]_(Screen!screenVars)
  PROVE  ScreenInv'
<1>1. CASE Screen!BeginWrite
  BY <1>1, BeginWriteKeeps
<1>2. CASE Screen!Moves
  BY <1>2, MovesKeep
<1>3. CASE Screen!Draw
  BY <1>3, DrawKeeps
<1>4. CASE Screen!Erase
  BY <1>4, EraseKeeps
<1>5. CASE Screen!EndWrite
  BY <1>5, EndWriteKeeps
<1>6. CASE Screen!Clear
  BY <1>6, ClearKeeps
<1>7. CASE Screen!Dispose
  BY <1>7, DisposeKeeps
<1>8. CASE UNCHANGED Screen!screenVars
  <2>1. /\ rows' = rows /\ column' = column /\ style' = style /\ trimmed' = trimmed /\ elements' = elements
        /\ mirrored' = mirrored /\ dirty' = dirty /\ live' = live /\ wiped' = wiped
    BY <1>8 DEF Screen!screenVars, Screen!bufferVars, Screen!pageVars
  <2>2. QED
    BY <2>1 DEF ScreenInv, RowsInv, PageTypes, Follows, Lags
<1>9. QED
  BY <1>1, <1>2, <1>3, <1>4, <1>5, <1>6, <1>7, <1>8 DEF Screen!Next

\* No character of two columns is ever halved.
LEMMA NoneIsHalved ==
  ASSUME ScreenInv
  PROVE  Screen!NoHalfCharacters
<1>1. ASSUME NEW r \in DOMAIN rows, NEW i \in DOMAIN rows[r]
      PROVE  /\ Screen!IsRest(rows[r], i) => i > 1 /\ Head(rows[r][i - 1].text) = "wide"
             /\ ~Screen!IsRest(rows[r], i) /\ Head(rows[r][i].text) = "wide" => Screen!IsRest(rows[r], i + 1)
  <2>1. PICK row : row = rows[r] /\ row \in Rows /\ Whole(row)
    BY <1>1 DEF ScreenInv, RowsInv
  <2>2. Len(row) \in Nat /\ i \in 1..Len(row)
    BY <1>1, <2>1 DEF Rows
  <2>3. \A j : Screen!IsRest(row, j) <=> j \in 1..Len(row) /\ Kind(row[j]) = "rest"
    BY <2>1, RowIs
  <2>4. /\ Kind(row[i]) = "rest" => i > 1 /\ Kind(row[i - 1]) = "wide"
        /\ Kind(row[i]) = "wide" => i + 1 <= Len(row) /\ Kind(row[i + 1]) = "rest"
    BY <2>1, <2>2 DEF Whole
  <2>5. \A j : Kind(row[j]) = "wide" => Head(row[j].text) = "wide"
    BY DEF Kind
  <2>6. Kind(row[i]) # "rest" /\ Head(row[i].text) = "wide" => Kind(row[i]) = "wide"
    BY DEF Kind
  <2>7. i + 1 <= Len(row) => i + 1 \in 1..Len(row)
    BY <2>2
  <2>8. QED
    BY <2>1, <2>2, <2>3, <2>4, <2>5, <2>6, <2>7
<1>2. QED
  BY <1>1 DEF Screen!NoHalfCharacters

LEMMA RunsCover ==
  ASSUME ScreenInv
  PROVE  Screen!RunsCoverTheRow
<1>1. ASSUME NEW r \in DOMAIN rows
      PROVE  LET runs == Screen!RunsOf(rows[r])
                 end(k) == runs[k].column + runs[k].columns
             IN /\ \A k \in DOMAIN runs : runs[k].column = IF k = 1 THEN 0 ELSE end(k - 1)
                /\ rows[r] # <<>> => runs # <<>> /\ end(Len(runs)) = Len(rows[r])
                /\ Screen!TextOf(runs) = Screen!TextOf(rows[r])
  <2>1. PICK row, runs : row = rows[r] /\ runs = Screen!RunsOf(row) /\ row \in Seq(Cells) /\ Fits(row)
    BY <1>1 DEF ScreenInv, RowsInv, Fits, Rows
  <2>2. runs \in Seq(Strips) /\ Side(runs, Len(row)) /\ Screen!TextOf(runs) = Screen!TextOf(row)
    BY <2>1, RunsAre
  <2>3. \A k \in DOMAIN runs : runs[k].column = IF k = 1 THEN 0 ELSE runs[k - 1].column + runs[k - 1].columns
    BY <2>2 DEF Side
  <2>4. ASSUME row # <<>> PROVE runs # <<>> /\ runs[Len(runs)].column + runs[Len(runs)].columns = Len(row)
    <3>1. Len(row) > 0
      BY <2>1, <2>4
    <3>2. QED
      BY <2>2, <3>1 DEF Side
  <2>5. QED
    BY <2>1, <2>2, <2>3, <2>4
<1>2. QED
  BY <1>1 DEF Screen!RunsCoverTheRow

LEMMA PageShows ==
  ASSUME ScreenInv
  PROVE  Screen!PageShowsTheRows
<1>1. ASSUME live, dirty = Screen!Quiet, ~wiped PROVE elements = [r \in DOMAIN rows |-> Screen!RunsOf(rows[r])]
  <2>1. Len(elements) = Len(rows) /\ \A r \in 1..Len(rows) : elements[r] = Screen!RunsOf(rows[r])
    BY <1>1 DEF ScreenInv, Follows
  <2>2. elements \in Seq(Seq(Strips)) /\ rows \in Seq(Rows)
    BY DEF ScreenInv, PageTypes, RowsInv
  <2>3. DOMAIN rows = 1..Len(rows) /\ DOMAIN elements = 1..Len(rows) /\ elements = [r \in DOMAIN elements |-> elements[r]]
    BY <2>1, <2>2
  <2>4. QED
    BY <2>1, <2>3
<1>2. QED
  BY <1>1 DEF Screen!PageShowsTheRows

\* Whatever is written, erased or cut off, no character of two columns is halved; the
\* runs of a row are side by side, as wide as the row, with its text; and between two
\* chunks the page shows every row there is, also when rows have been dropped.
THEOREM ScreenSoundHolds == ASSUME ScreenConstants PROVE Screen!Spec => []Screen!ScreenSound
<1>1. Screen!Init => ScreenInv
  BY ScreenInit
<1>2. ScreenInv /\ [Screen!Next]_(Screen!screenVars) => ScreenInv'
  BY ScreenNext
<1>3. ScreenInv => Screen!ScreenSound
  BY NoneIsHalved, RunsCover, PageShows DEF Screen!ScreenSound
<1>4. QED
  BY <1>1, <1>2, <1>3, PTL DEF Screen!Spec

\* There is always a row and never more than there is room for, each cell has one of
\* the styles, the cursor is at a column, and what is disposed shows nothing.
THEOREM ScreenTypesHold == ASSUME ScreenConstants PROVE Screen!Spec => []Screen!TypeOK
<1>1. ScreenInv => Screen!TypeOK
  <2> SUFFICES ASSUME ScreenInv PROVE Screen!TypeOK
    OBVIOUS
  <2>1. ASSUME NEW i \in DOMAIN rows, NEW j \in DOMAIN rows[i] PROVE rows[i][j].style \in Styles
    <3>1. PICK row : row = rows[i] /\ row \in Rows
      BY <2>1 DEF ScreenInv, RowsInv
    <3>2. j \in 1..Len(row)
      BY <2>1, <3>1 DEF Rows
    <3>3. QED
      BY <3>1, <3>2, RowIs
  <2>2. QED
    BY <2>1 DEF Screen!TypeOK, ScreenInv, RowsInv, PageTypes
<1>2. Screen!Init => ScreenInv
  BY ScreenInit
<1>3. ScreenInv /\ [Screen!Next]_(Screen!screenVars) => ScreenInv'
  BY ScreenNext
<1>4. QED
  BY <1>1, <1>2, <1>3, PTL DEF Screen!Spec

-----------------------------------------------------------------------------
(* The prompt's line, its history and the field in front of it.            *)

CONSTANTS Letters, Blank, Commands, Recalled, Capacity, MaxText, MaxEvents
VARIABLES line, composing, menu, search, index, draft, kill, log, field, ime, owing, events
Input == INSTANCE TextareaInput

Graphemes == Letters \cup {Blank}
Texts     == Seq(Graphemes)
Lines     == {l \in [text : Texts, caret : Nat] : l.caret <= Len(l.text)}
Recorded  == [source : Texts, mine : BOOLEAN]
Searches  == [needle : Texts, saved : Lines]
Menus     == {m \in [words : Seq(Texts), start : Nat, saved : Lines, at : Nat] :
                m.start <= Len(m.saved.text) /\ m.at \in 1..Len(m.words)}

\* The inventory and a history that fits, both of what can be typed.
InputConstants ==
  /\ Commands \in Seq(Texts) /\ Recalled \in Seq(Recorded) /\ Len(Recalled) <= Capacity
  /\ Capacity \in Nat \ {0} /\ MaxText \in Nat /\ MaxEvents \in Nat

\* What the editor's fields hold, and what an open menu and a walk go with.
EditorTypes ==
  /\ line \in Lines /\ composing \in BOOLEAN /\ kill \in Texts
  /\ log \in Seq(Recorded) /\ Len(log) <= Capacity /\ index \in 0..(Len(log) + 1)
  /\ draft \in {Input!None} \cup Lines
  /\ search \in {Input!None} \cup Searches
  /\ menu \in {Input!None} \cup Menus
EditorInv == EditorTypes /\ Input!MenuShowsTheLine /\ Input!DraftWaits

\* No grapheme is beyond the bound.
Bounded ==
  /\ Len(line.text) <= MaxText /\ Len(field.text) <= MaxText /\ Len(kill) <= MaxText
  /\ search # Input!None => Len(search.needle) <= MaxText /\ Len(search.saved.text) <= MaxText
  /\ menu # Input!None => Len(menu.saved.text) <= MaxText
  /\ draft # Input!None => Len(draft.text) <= MaxText

\* The input method and the two flags: outside a composition the editor composes
\* only if a compositionend was lost; inside, it does unless the method's keys say
\* whose they are.
Methods ==
  /\ field \in Lines /\ owing \in BOOLEAN /\ events \in 0..MaxEvents
  /\ ime \in [kind : Input!Kinds, phase : Input!Phases, base : Lines]
  /\ ime.phase \in {"idle", "trailing"} /\ ~owing => ~composing /\ field = line
  /\ ime.phase = "trailing" => ~owing
  /\ ime.phase = "open" => composing
  /\ ime.phase = "begun" /\ ime.kind = "silent" => composing

InputInv == EditorInv /\ Methods /\ Bounded

-----------------------------------------------------------------------------
(* The least and the greatest of some numbers, and what is cut from a text. *)

\* Some numbers have a least one.
LEMMA LeastIs ==
  ASSUME NEW S \in SUBSET Nat, S # {} PROVE Input!Min(S) \in S
<1>1. PICK d \in S : \A e \in S : ~(<<e, d>> \in OpToRel(<, Nat))
  BY WFMin, NatLessThanWellFounded, Zenon
<1>2. \A e \in S : ~(e < d)
  BY <1>1 DEF OpToRel
<1>3. \E x \in S : \A y \in S : x <= y
  <2>1. \A e \in S : d <= e
    BY <1>2
  <2>2. QED
    BY <2>1
<1>4. QED
  BY <1>3 DEF Input!Min

\* Some numbers with a bound have a greatest one.
LEMMA GreatestIs ==
  ASSUME NEW n \in Nat, NEW S \in SUBSET (0..n), S # {}
  PROVE  Input!Max(S) \in S
<1> DEFINE T == {d \in Nat : n - d \in S}
<1>1. T # {}
  <2>1. PICK x \in S : TRUE
    OBVIOUS
  <2>2. n - x \in Nat /\ n - (n - x) = x
    BY <2>1
  <2>3. QED
    BY <2>1, <2>2
<1>2. PICK d \in T : \A e \in T : ~(<<e, d>> \in OpToRel(<, Nat))
  BY <1>1, WFMin, NatLessThanWellFounded, Zenon
<1>3. \A e \in T : ~(e < d)
  BY <1>2 DEF OpToRel
<1>4. \A x \in S : n - d >= x
  <2> SUFFICES ASSUME NEW x \in S PROVE n - d >= x
    OBVIOUS
  <2>1. n - x \in T
    <3>1. n - x \in Nat /\ n - (n - x) = x
      OBVIOUS
    <3>2. QED
      BY <3>1
  <2>2. ~(n - x < d)
    BY <1>3, <2>1
  <2>3. x \in 0..n /\ d \in Nat
    BY <1>2
  <2>4. QED
    BY <2>2, <2>3
<1>5. n - d \in S
  BY <1>2
<1>6. \E x \in S : \A y \in S : x >= y
  BY <1>4, <1>5
<1>7. QED
  BY <1>6 DEF Input!Max

\* Any piece of a text is a text.
LEMMA PieceIs ==
  ASSUME NEW s \in Texts, NEW m \in Nat \ {0}, NEW n \in Nat, n <= Len(s)
  PROVE  /\ SubSeq(s, m, n) \in Texts
         /\ Len(SubSeq(s, m, n)) = IF m <= n THEN n - m + 1 ELSE 0
<1>1. Len(s) \in Nat
  BY DEF Texts
<1>2. \A i \in m..n : s[i] \in Graphemes
  BY <1>1, ElementOfSeq DEF Texts
<1>3. QED
  BY <1>2, SubSeqProperties DEF Texts

\* Two texts in a row.
LEMMA JoinIs ==
  ASSUME NEW s \in Texts, NEW t \in Texts
  PROVE  s \o t \in Texts /\ Len(s \o t) = Len(s) + Len(t)
  BY ConcatProperties DEF Texts

\* A line's own text and caret.
LEMMA LineIs ==
  ASSUME NEW l \in Lines
  PROVE  /\ l.text \in Texts /\ l.caret \in Nat /\ Len(l.text) \in Nat /\ l.caret <= Len(l.text)
         /\ l = Input!Line(l.text, l.caret)
         /\ l # Input!None
<1>1. l \in [text : Texts, caret : Nat] /\ l.caret <= Len(l.text)
  BY DEF Lines
<1>2. l.text \in Texts /\ l.caret \in Nat /\ l = Input!Line(l.text, l.caret)
  BY <1>1 DEF Input!Line
<1>3. l # Input!None
  BY <1>2 DEF Input!Line, Input!None
<1>4. QED
  BY <1>1, <1>2, <1>3 DEF Texts

\* A text with a caret in it is a line.
LEMMA MakesLine ==
  ASSUME NEW s \in Texts, NEW c \in Nat, c <= Len(s)
  PROVE  Input!Line(s, c) \in Lines /\ Input!Line(s, c).text = s /\ Input!Line(s, c).caret = c
  BY DEF Lines, Input!Line

\* Before and after the caret.
LEMMA AroundIs ==
  ASSUME NEW l \in Lines
  PROVE  /\ Input!Before(l) \in Texts /\ Len(Input!Before(l)) = l.caret
         /\ Input!After(l) \in Texts /\ Len(Input!After(l)) = Len(l.text) - l.caret
         /\ Input!Before(l) \o Input!After(l) = l.text
<1>1. l.text \in Texts /\ l.caret \in Nat /\ Len(l.text) \in Nat /\ l.caret <= Len(l.text)
  BY LineIs
<1>2. Input!Before(l) \in Texts /\ Len(Input!Before(l)) = l.caret
  BY <1>1, PieceIs DEF Input!Before
<1>3. Input!After(l) \in Texts /\ Len(Input!After(l)) = Len(l.text) - l.caret
  BY <1>1, PieceIs DEF Input!After
<1>4. \A i \in 1..Len(l.text) : l.text[i] \in Graphemes
  BY <1>1, ElementOfSeq DEF Texts
<1>5. \A i \in 1..l.caret : Input!Before(l)[i] = l.text[i]
  <2>1. \A i \in 1..l.caret : l.text[i] \in Graphemes
    BY <1>1, <1>4
  <2>2. \A i \in 1..(l.caret - 1 + 1) : SubSeq(l.text, 1, l.caret)[i] = l.text[1 + i - 1]
    BY <1>1, <2>1, SubSeqProperties
  <2>3. QED
    BY <1>1, <2>2 DEF Input!Before
<1>6. \A i \in 1..(Len(l.text) - l.caret) : Input!After(l)[i] = l.text[l.caret + i]
  <2>1. \A i \in (l.caret + 1)..Len(l.text) : l.text[i] \in Graphemes
    BY <1>1, <1>4
  <2>2. \A i \in 1..(Len(l.text) - (l.caret + 1) + 1) :
          SubSeq(l.text, l.caret + 1, Len(l.text))[i] = l.text[(l.caret + 1) + i - 1]
    BY <1>1, <2>1, SubSeqProperties
  <2>3. QED
    BY <1>1, <2>2 DEF Input!After
<1>7. Input!Before(l) \o Input!After(l) = l.text
  <2> DEFINE b == Input!Before(l)
             a == Input!After(l)
  <2> HIDE DEF a, b
  <2>0. b \in Texts /\ a \in Texts /\ Len(b) = l.caret /\ Len(a) = Len(l.text) - l.caret
    BY <1>2, <1>3 DEF a, b
  <2>1a. b \o a \in Texts /\ Len(b \o a) = Len(b) + Len(a)
    BY <2>0, JoinIs
  <2>1. b \o a \in Seq(Graphemes) /\ Len(b \o a) = Len(l.text)
    BY <1>1, <2>0, <2>1a DEF Texts
  <2>2. \A i \in 1..Len(l.text) : (b \o a)[i] = IF i <= Len(b) THEN b[i] ELSE a[i - Len(b)]
    <3>1. \A i \in 1..(Len(b) + Len(a)) : (b \o a)[i] = IF i <= Len(b) THEN b[i] ELSE a[i - Len(b)]
      BY <2>0, ConcatProperties DEF Texts
    <3>2. QED
      BY <1>1, <2>0, <3>1
  <2>3. ASSUME NEW i \in 1..Len(l.text) PROVE (b \o a)[i] = l.text[i]
    <3>1. CASE i <= l.caret
      <4>1. b[i] = l.text[i]
        BY <1>1, <1>5, <3>1 DEF b
      <4>2. QED
        BY <2>0, <2>2, <3>1, <4>1
    <3>2. CASE ~(i <= l.caret)
      <4>1. i - l.caret \in 1..(Len(l.text) - l.caret) /\ l.caret + (i - l.caret) = i
        BY <1>1, <3>2
      <4>2. a[i - l.caret] = l.text[i]
        BY <1>6, <4>1 DEF a
      <4>3. QED
        BY <2>0, <2>2, <3>2, <4>2
    <3>3. QED
      BY <3>1, <3>2
  <2>4. QED
    BY <1>1, <2>1, <2>3, SeqEqual DEF Texts, a, b
<1>8. QED
  BY <1>2, <1>3, <1>7

\* Insert, and a cut.
LEMMA InsertIs ==
  ASSUME NEW l \in Lines, NEW s \in Texts
  PROVE  Input!Insert(l, s) \in Lines /\ (s = <<>> => Input!Insert(l, s) = l)
<1>1. /\ l.caret \in Nat /\ Len(l.text) \in Nat /\ l.caret <= Len(l.text)
      /\ l = Input!Line(l.text, l.caret)
  BY LineIs
<1> DEFINE b == Input!Before(l)
           a == Input!After(l)
<1>2. b \in Texts /\ Len(b) = l.caret /\ a \in Texts
  BY AroundIs
<1>2a. b \o a = l.text
  BY AroundIs
<1>3. Len(a) \in Nat /\ Len(s) \in Nat
  BY <1>2 DEF Texts
<1> HIDE DEF a, b
<1>4. b \o s \in Texts /\ Len(b \o s) = l.caret + Len(s)
  BY <1>2, JoinIs
<1>5. (b \o s) \o a \in Texts /\ Len((b \o s) \o a) = l.caret + Len(s) + Len(a)
  BY <1>2, <1>4, JoinIs
<1>6. Input!Line(b \o s \o a, l.caret + Len(s)) \in Lines
  <2>1. l.caret + Len(s) \in Nat /\ l.caret + Len(s) <= Len((b \o s) \o a)
    BY <1>1, <1>3, <1>5
  <2>2. QED
    BY <1>5, <2>1, MakesLine
<1>7. ASSUME s = <<>> PROVE Input!Line(b \o s \o a, l.caret + Len(s)) = l
  <2>1. b \o s = b
    BY <1>2, <1>7, ConcatEmptySeq DEF Texts
  <2>2. Len(s) = 0
    BY <1>7
  <2>3. l.caret + Len(s) = l.caret
    BY <1>1, <2>2
  <2>4. (b \o s) \o a = l.text
    BY <1>2a, <2>1, Zenon
  <2>5. QED
    BY <1>1, <2>3, <2>4, Zenon
<1>8. QED
  BY <1>6, <1>7 DEF Input!Insert, a, b

\* What is left when a piece is cut out, with the caret where it was.
LEMMA CutIs ==
  ASSUME NEW l \in Lines, NEW from \in Nat, NEW to \in Nat, from <= Len(l.text)
  PROVE  Input!Cut(l, from, to) \in Lines
<1>1. l.text \in Texts /\ Len(l.text) \in Nat
  BY LineIs
<1>2. SubSeq(l.text, 1, from) \in Texts /\ Len(SubSeq(l.text, 1, from)) = from
  BY <1>1, PieceIs
<1>3. SubSeq(l.text, to + 1, Len(l.text)) \in Texts /\ Len(SubSeq(l.text, to + 1, Len(l.text))) \in Nat
  BY <1>1, PieceIs DEF Texts
<1> DEFINE b == SubSeq(l.text, 1, from)
           a == SubSeq(l.text, to + 1, Len(l.text))
<1> HIDE DEF a, b
<1>4. b \o a \in Texts /\ Len(b \o a) = Len(b) + Len(a)
  BY <1>2, <1>3, JoinIs DEF a, b
<1>5. from <= Len(b \o a)
  <2>1. Len(b) = from /\ Len(a) \in Nat
    BY <1>2, <1>3 DEF a, b
  <2>2. QED
    BY <1>4, <2>1
<1>6. QED
  BY <1>4, <1>5, MakesLine DEF Input!Cut, a, b

\* Where the caret goes: never past either end.
LEMMA CaretsAre ==
  ASSUME NEW l \in Lines
  PROVE  /\ Input!LeftOf(l) \in 0..l.caret
         /\ Input!RightOf(l) \in l.caret..Len(l.text)
         /\ Input!WordLeft(l) \in 0..l.caret
         /\ Input!WordRight(l) \in l.caret..Len(l.text)
         /\ Input!WordStart(l) \in 0..l.caret
<1>1. l.caret \in Nat /\ Len(l.text) \in Nat /\ l.caret <= Len(l.text)
  BY LineIs
<1>2. PICK c \in Nat, n \in Nat : c = l.caret /\ n = Len(l.text) /\ c <= n
  BY <1>1
<1>3. Input!LeftOf(l) \in 0..c
  <2>1. CASE c = 0
    <3>1. {0, l.caret - 1} = {0, -1}
      BY <1>2, <2>1
    <3>2. \A x \in {0, -1} : (\A y \in {0, -1} : x >= y) => x = 0
      OBVIOUS
    <3>3. \A y \in {0, -1} : 0 >= y
      OBVIOUS
    <3>4. Input!Max({0, -1}) = 0
      BY <3>2, <3>3 DEF Input!Max
    <3>5. Input!LeftOf(l) = 0
      BY <3>1, <3>4, Zenon DEF Input!LeftOf
    <3>6. QED
      BY <1>2, <3>5
  <2>2. CASE c # 0
    <3>1. {0, c - 1} \in SUBSET (0..c) /\ {0, c - 1} # {}
      BY <2>2
    <3>2. Input!Max({0, c - 1}) \in {0, c - 1}
      BY <3>1, GreatestIs
    <3>3. QED
      BY <1>2, <3>1, <3>2 DEF Input!LeftOf
  <2>3. QED
    BY <2>1, <2>2
<1>4. Input!RightOf(l) \in c..n
  <2>1. CASE c = n
    <3>1. {n, c + 1} \in SUBSET Nat /\ {n, c + 1} # {}
      OBVIOUS
    <3>2. \A x \in {n, c + 1} : (\A y \in {n, c + 1} : x <= y) => x = n
      BY <2>1
    <3>3. \A y \in {n, c + 1} : n <= y
      BY <2>1
    <3>4. Input!Min({n, c + 1}) = n
      BY <3>2, <3>3 DEF Input!Min
    <3>5. QED
      BY <1>2, <2>1, <3>4 DEF Input!RightOf
  <2>2. CASE c # n
    <3>1. {n, c + 1} \in SUBSET Nat /\ {n, c + 1} # {}
      OBVIOUS
    <3>2. Input!Min({n, c + 1}) \in {n, c + 1}
      BY <3>1, LeastIs
    <3>3. n \in c..n /\ c + 1 \in c..n
      BY <1>2, <2>2
    <3>4. QED
      BY <1>2, <3>2, <3>3 DEF Input!RightOf
  <2>3. QED
    BY <2>1, <2>2
<1>5. Input!WordLeft(l) \in 0..c
  <2> DEFINE S == {0} \cup {p \in 0..(l.caret - 1) : Input!IsWord(l, p + 1) /\ ~Input!IsWord(l, p)}
  <2>1. S \in SUBSET (0..c) /\ S # {}
    BY <1>2
  <2>2. Input!Max(S) \in S
    BY <1>2, <2>1, GreatestIs
  <2>3. QED
    BY <2>1, <2>2 DEF Input!WordLeft
<1>6. Input!WordRight(l) \in c..n
  <2> DEFINE S == {Len(l.text)} \cup {p \in (l.caret + 1)..Len(l.text) : Input!IsWord(l, p) /\ ~Input!IsWord(l, p + 1)}
  <2>1. S \in SUBSET (c..n) /\ S # {} /\ S \in SUBSET Nat
    BY <1>2
  <2>2. Input!Min(S) \in S
    BY <2>1, LeastIs
  <2>3. QED
    BY <2>1, <2>2 DEF Input!WordRight
<1>7. Input!WordStart(l) \in 0..c
  <2> DEFINE S == {p \in 0..(l.caret - 1) : Input!IsWord(l, p + 1) /\ ~Input!IsWord(l, p)}
  <2>1. CASE ~Input!IsWord(l, l.caret)
    BY <1>2, <2>1 DEF Input!WordStart
  <2>2. CASE Input!IsWord(l, l.caret)
    <3>1. c >= 1
      BY <1>2, <2>2 DEF Input!IsWord
    <3> DEFINE T == {d \in Nat : c - d \in 0..(c - 1) /\ ~Input!IsWord(l, c - d)}
    <3>2. c \in T
      BY <1>2, <3>1 DEF Input!IsWord
    <3>3. PICK d \in T : \A e \in T : ~(<<e, d>> \in OpToRel(<, Nat))
      BY <3>2, WFMin, NatLessThanWellFounded, Zenon
    <3>4. \A e \in T : ~(e < d)
      BY <3>3 DEF OpToRel
    <3>5. d \in Nat /\ c - d \in 0..(c - 1) /\ ~Input!IsWord(l, c - d)
      BY <3>3
    <3>6. Input!IsWord(l, (c - d) + 1)
      <4>1. CASE d = 1
        BY <1>2, <2>2, <4>1
      <4>2. CASE d # 1
        <5>1. d - 1 \in Nat /\ d - 1 < d /\ c - (d - 1) \in 0..(c - 1) /\ c - (d - 1) = (c - d) + 1
          BY <1>2, <3>5, <4>2
        <5>2. d - 1 \notin T
          BY <3>4, <5>1
        <5>3. QED
          BY <5>1, <5>2
      <4>3. QED
        BY <4>1, <4>2
    <3>7. c - d \in S
      BY <1>2, <3>5, <3>6
    <3>8. S \in SUBSET (0..c)
      BY <1>2
    <3>9. Input!Max(S) \in S
      BY <1>2, <3>7, <3>8, GreatestIs
    <3>10. QED
      BY <2>2, <3>8, <3>9 DEF Input!WordStart
  <2>3. QED
    BY <2>1, <2>2
<1>8. QED
  BY <1>2, <1>3, <1>4, <1>5, <1>6, <1>7

\* The editor counts as this module does.
LEMMA EditorCounts == \A S : Input!Cardinality(S) = Cardinality(S)
  BY DEF Input!Cardinality, Cardinality

\* The list of what completes a word is of texts, and so is the completed line.
LEMMA CompletionsAre ==
  ASSUME InputConstants, NEW l, NEW words \in Input!Completions(l)
  PROVE  words \in Seq(Texts)
<1>1. Len(Commands) \in Nat /\ DOMAIN Commands = 1..Len(Commands) /\ \A i \in DOMAIN Commands : Commands[i] \in Texts
  BY ElementOfSeq DEF InputConstants
<1>2. Input!Completing(l) \subseteq 1..Len(Commands)
  BY <1>1 DEF Input!Completing
<1>3. IsFiniteSet(Input!Completing(l))
  <2>1. IsFiniteSet(1..Len(Commands))
    BY <1>1, FS_Interval
  <2>2. QED
    BY <1>2, <2>1, FS_Subset
<1>4. Cardinality(Input!Completing(l)) \in Nat
  BY <1>3, FS_CardinalityType
<1>5. PICK n \in Nat : n = Input!Cardinality(Input!Completing(l))
  BY <1>4, EditorCounts
<1>6. PICK places \in Input!InOrder(Input!Completing(l)) : words = [k \in DOMAIN places |-> Commands[places[k]]]
  BY DEF Input!Completions
<1>7. places \in [1..n -> 1..Len(Commands)]
  BY <1>2, <1>5, <1>6 DEF Input!InOrder
<1>8. words \in [1..n -> Texts]
  BY <1>1, <1>6, <1>7
<1>9. QED
  BY <1>8, SeqDef

\* A line with a word completed in it.
LEMMA CompletedIs ==
  ASSUME NEW l \in Lines, NEW start \in Nat, NEW word \in Texts, start <= Len(l.text)
  PROVE  Input!Completed(l, start, word) \in Lines
<1>1. l.text \in Texts /\ Len(l.text) \in Nat
  BY LineIs
<1> DEFINE b == SubSeq(l.text, 1, start)
           a == Input!After(l)
<1>2. b \in Texts /\ Len(b) = start /\ a \in Texts
  BY <1>1, PieceIs, AroundIs
<1> HIDE DEF a, b
<1>3. Len(a) \in Nat /\ Len(word) \in Nat
  BY <1>2 DEF Texts
<1>4. b \o word \in Texts /\ Len(b \o word) = start + Len(word)
  BY <1>2, JoinIs
<1>5. (b \o word) \o a \in Texts /\ Len((b \o word) \o a) = start + Len(word) + Len(a)
  BY <1>2, <1>4, JoinIs
<1>6. start + Len(word) \in Nat /\ start + Len(word) <= Len((b \o word) \o a)
  BY <1>3, <1>5
<1>7. Input!Line((b \o word) \o a, start + Len(word)) \in Lines
  BY <1>5, <1>6, MakesLine
<1>8. QED
  BY <1>7 DEF Input!Completed, a, b

\* A text with the caret behind it.
LEMMA WholeIs == ASSUME NEW s \in Texts PROVE Input!Whole(s) \in Lines /\ Input!Whole(s).text = s
<1>1. Len(s) \in Nat
  BY DEF Texts
<1>2. QED
  BY <1>1, MakesLine DEF Input!Whole

\* What a prediction adds to the line, and the first word of it.
LEMMA PredictedIs ==
  ASSUME InputConstants, line \in Lines, log \in Seq(Recorded), NEW p \in Input!Predicted(line)
  PROVE  p \in Texts /\ Input!FirstWord(p) \in Texts
<1>1. \A s \in Input!Sources : s \in Texts
  <2> SUFFICES ASSUME NEW i \in DOMAIN log PROVE log[i].source \in Texts
    BY DEF Input!Sources
  <2>1. log[i] \in Recorded
    BY ElementOfSeq
  <2>2. QED
    BY <2>1 DEF Recorded
<1>2. \A s \in Input!ToSet(Commands) : s \in Texts
  BY ElementOfSeq DEF Input!ToSet, InputConstants
<1>3. line.text \in Texts /\ Len(line.text) \in Nat
  BY LineIs
<1>4. \A s \in Texts : Input!Rest(line, s) \in Texts
  <2> SUFFICES ASSUME NEW s \in Texts PROVE Input!Rest(line, s) \in Texts
    OBVIOUS
  <2>1. Len(s) \in Nat
    BY DEF Texts
  <2>2. QED
    BY <1>3, <2>1, PieceIs DEF Input!Rest
<1>5. <<>> \in Texts
  BY DEF Texts
<1>6. p \in Texts
  <2>1. p = <<>> \/ \E s \in Input!Sources \cup Input!ToSet(Commands) : p = Input!Rest(line, s)
    BY DEF Input!Predicted
  <2>2. QED
    BY <1>1, <1>2, <1>4, <1>5, <2>1
<1>7. Input!Line(p, 0) \in Lines /\ Input!Line(p, 0).text = p /\ Input!Line(p, 0).caret = 0
  <2>1. Len(p) \in Nat
    BY <1>6 DEF Texts
  <2>2. QED
    BY <1>6, <2>1, MakesLine
<1>8. Input!WordRight(Input!Line(p, 0)) \in 0..Len(p)
  BY <1>7, CaretsAre
<1>9. Input!FirstWord(p) \in Texts
  <2>1. Len(p) \in Nat
    BY <1>6 DEF Texts
  <2>2. QED
    BY <1>6, <1>8, <2>1, PieceIs DEF Input!FirstWord
<1>10. QED
  BY <1>6, <1>9

\* What is remembered of a line.
LEMMA TrimmedIs == ASSUME NEW s \in Texts PROVE Input!Trimmed(s) \in Texts
<1> DEFINE words == {i \in DOMAIN s : s[i] # Blank}
<1>1. Len(s) \in Nat /\ DOMAIN s = 1..Len(s)
  BY DEF Texts
<1>2. CASE words = {}
  BY <1>2 DEF Input!Trimmed, Texts
<1>3. CASE words # {}
  <2>1. words \in SUBSET Nat /\ words \in SUBSET (0..Len(s))
    BY <1>1
  <2>2. Input!Min(words) \in words
    BY <1>3, <2>1, LeastIs
  <2>3. Input!Max(words) \in words
    BY <1>1, <1>3, <2>1, GreatestIs
  <2>4. Input!Min(words) \in Nat \ {0} /\ Input!Max(words) \in Nat /\ Input!Max(words) <= Len(s)
    BY <1>1, <2>2, <2>3
  <2>5. SubSeq(s, Input!Min(words), Input!Max(words)) \in Texts
    BY <2>4, PieceIs
  <2>6. QED
    BY <1>3, <2>5 DEF Input!Trimmed
<1>4. QED
  BY <1>2, <1>3

\* The history stays within its capacity.
LEMMA RememberIs ==
  ASSUME InputConstants, log \in Seq(Recorded), Len(log) <= Capacity, NEW s \in Texts, Input!Remember(s)
  PROVE  log' \in Seq(Recorded) /\ Len(log') <= Capacity
<1>1. CASE Input!Trimmed(s) = <<>>
  BY <1>1 DEF Input!Remember
<1>2. CASE Input!Trimmed(s) # <<>>
  <2> DEFINE e   == [source |-> Input!Trimmed(s), mine |-> TRUE]
             all == Append(log, e)
             top == Input!Max({1, Len(all) - Capacity + 1})
  <2>1. e \in Recorded
    BY TrimmedIs DEF Recorded
  <2>2. Len(log) \in Nat /\ Capacity \in Nat \ {0}
    BY DEF InputConstants
  <2>3. all \in Seq(Recorded) /\ Len(all) = Len(log) + 1
    BY <2>1, AppendProperties
  <2>4. log' = SubSeq(all, top, Len(all))
    BY <1>2 DEF Input!Remember
  <2> HIDE DEF e, all
  <2>5. Len(all) \in Nat /\ Len(all) <= Capacity + 1
    BY <2>2, <2>3
  <2>6. top = IF Len(all) - Capacity + 1 > 1 THEN Len(all) - Capacity + 1 ELSE 1
    <3>0. Len(all) - Capacity + 1 \in Int
      BY <2>2, <2>5
    <3>1. PICK k \in Int : k = Len(all) - Capacity + 1
      BY <3>0
    <3>2. \A x \in {1, k} : (\A y \in {1, k} : x >= y) => x = IF k > 1 THEN k ELSE 1
      OBVIOUS
    <3>3. \E x \in {1, k} : \A y \in {1, k} : x >= y
      OBVIOUS
    <3>4. Input!Max({1, k}) = IF k > 1 THEN k ELSE 1
      BY <3>2, <3>3 DEF Input!Max
    <3>5. QED
      BY <3>1, <3>4
  <2> HIDE DEF top
  <2>7. top \in Nat \ {0} /\ Len(all) - top + 1 <= Capacity
    BY <2>2, <2>5, <2>6
  <2>8. \A i \in top..Len(all) : all[i] \in Recorded
    BY <2>3, <2>5, <2>7, ElementOfSeq
  <2>9. /\ SubSeq(all, top, Len(all)) \in Seq(Recorded)
        /\ Len(SubSeq(all, top, Len(all))) = IF top <= Len(all) THEN Len(all) - top + 1 ELSE 0
    BY <2>5, <2>7, <2>8, SubSeqProperties
  <2>10. QED
    BY <2>2, <2>4, <2>5, <2>7, <2>9
<1>3. QED
  BY <1>1, <1>2

-----------------------------------------------------------------------------
(* The editor's steps.                                                     *)

\* What most of them come to: a line, no menu, and either no walk or the walk as it was.
Settles ==
  /\ line' \in Lines /\ menu' = Input!None /\ composing' \in BOOLEAN /\ kill' \in Texts
  /\ search' \in {Input!None} \cup Searches
  /\ log' \in Seq(Recorded) /\ Len(log') <= Capacity
  /\ \/ index' = 0 /\ draft' = Input!None
     \/ index' = index /\ draft' = draft /\ log' = log

\* A settled editor is sound.
LEMMA SettledKeeps == ASSUME InputConstants, EditorInv, Settles PROVE EditorInv'
<1>1. Len(log') \in Nat /\ Len(log) \in Nat
  BY DEF EditorInv, EditorTypes, Settles
<1>2. index' \in 0..(Len(log') + 1) /\ draft' \in {Input!None} \cup Lines
  BY <1>1 DEF EditorInv, EditorTypes, Settles
<1>3. EditorTypes'
  BY <1>2 DEF EditorTypes, Settles
<1>4. Input!MenuShowsTheLine'
  BY DEF Settles, Input!MenuShowsTheLine
<1>5. Input!DraftWaits'
  BY DEF EditorInv, Settles, Input!DraftWaits
<1>6. QED
  BY <1>3, <1>4, <1>5 DEF EditorInv

\* An edit and a move of the caret.
LEMMA EditKeeps ==
  ASSUME InputConstants, EditorInv, NEW l \in Lines, Input!Edited(l) \/ Input!Kept(l),
         composing' \in BOOLEAN, kill' \in Texts, search' \in {Input!None} \cup Searches, UNCHANGED log
  PROVE  EditorInv'
<1>1. Settles
  BY DEF Settles, EditorInv, EditorTypes, Input!Edited, Input!Kept
<1>2. QED
  BY <1>1, SettledKeeps

\* The line and all that the editor may leave of it.
LEMMA NewLines ==
  ASSUME InputConstants, EditorInv
  PROVE  /\ line \in Lines /\ kill \in Texts /\ composing \in BOOLEAN
         /\ line.text \in Texts /\ line.caret \in 0..Len(line.text) /\ Len(line.text) \in Nat
         /\ \A c \in 0..Len(line.text) : Input!Line(line.text, c) \in Lines
         /\ Input!Whole(<<>>) \in Lines
<1>1. line \in Lines /\ kill \in Texts /\ composing \in BOOLEAN
  BY DEF EditorInv, EditorTypes
<1>2. line.text \in Texts /\ line.caret \in 0..Len(line.text) /\ Len(line.text) \in Nat
  BY <1>1, LineIs
<1>3. \A c \in 0..Len(line.text) : Input!Line(line.text, c) \in Lines
  BY <1>2, MakesLine
<1>4. <<>> \in Texts
  BY DEF Texts
<1>5. QED
  BY <1>1, <1>2, <1>3, <1>4, WholeIs

\* Every place the caret may go to is one of the line's.
LEMMA LineCarets ==
  ASSUME InputConstants, EditorInv
  PROVE  /\ Input!LeftOf(line) \in 0..Len(line.text) /\ Input!RightOf(line) \in 0..Len(line.text)
         /\ Input!WordLeft(line) \in 0..Len(line.text) /\ Input!WordRight(line) \in 0..Len(line.text)
         /\ Input!WordStart(line) \in 0..Len(line.text)
<1>1. /\ Input!LeftOf(line) \in 0..line.caret
      /\ Input!RightOf(line) \in line.caret..Len(line.text)
      /\ Input!WordLeft(line) \in 0..line.caret
      /\ Input!WordRight(line) \in line.caret..Len(line.text)
      /\ Input!WordStart(line) \in 0..line.caret
  BY NewLines, CaretsAre
<1>2. PICK c \in Nat, n \in Nat : c = line.caret /\ n = Len(line.text) /\ c <= n
  BY NewLines
<1>3. 0..c \subseteq 0..n /\ c..n \subseteq 0..n
  BY <1>2
<1>4. QED
  BY <1>1, <1>2, <1>3

\* Accepting a prediction, or moving where there is none.
LEMMA AcceptKeeps ==
  ASSUME InputConstants, EditorInv, NEW amount, NEW l \in Lines, Input!Accept(amount, l),
         composing' \in BOOLEAN, kill' \in Texts, search' \in {Input!None} \cup Searches, UNCHANGED log
  PROVE  EditorInv'
<1>1. PICK p \in Input!Predicted(line) :
        IF p = <<>> THEN Input!Kept(l)
        ELSE Input!Edited(Input!Insert(line, IF amount = "word" THEN Input!FirstWord(p) ELSE p))
  BY DEF Input!Accept
<1>2. line \in Lines /\ log \in Seq(Recorded)
  BY DEF EditorInv, EditorTypes
<1>3. p \in Texts /\ Input!FirstWord(p) \in Texts
  BY <1>2, PredictedIs
<1>4. Input!Insert(line, IF amount = "word" THEN Input!FirstWord(p) ELSE p) \in Lines
  BY <1>2, <1>3, InsertIs
<1>5. QED
  BY <1>1, <1>4, EditKeeps

\* The keys that move the caret.
LEMMA MoveKeeps ==
  ASSUME InputConstants, EditorInv, NEW a \in Input!Moves, Input!Move(a) PROVE EditorInv'
<1>1. search' = Input!None /\ composing' = composing /\ kill' = kill /\ log' = log
  BY DEF Input!Move
<1>2. /\ line \in Lines /\ composing' \in BOOLEAN /\ kill' \in Texts
      /\ search' \in {Input!None} \cup Searches /\ UNCHANGED log
  BY <1>1, NewLines
<1>3. /\ Input!LeftOf(line) \in 0..Len(line.text) /\ Input!RightOf(line) \in 0..Len(line.text)
      /\ Input!WordLeft(line) \in 0..Len(line.text) /\ Input!WordRight(line) \in 0..Len(line.text)
      /\ 0 \in 0..Len(line.text)
  BY <1>2, LineCarets, NewLines
<1>4. /\ Input!Line(line.text, Input!LeftOf(line)) \in Lines
      /\ Input!Line(line.text, Input!RightOf(line)) \in Lines
      /\ Input!Line(line.text, Input!WordLeft(line)) \in Lines
      /\ Input!Line(line.text, Input!WordRight(line)) \in Lines
      /\ Input!Line(line.text, 0) \in Lines
  BY <1>3, NewLines
<1>5. Input!Whole(line.text) \in Lines
  BY NewLines, WholeIs
<1>6. CASE a = "move-left"
  BY <1>2, <1>4, <1>6, EditKeeps DEF Input!Move
<1>7. CASE a = "move-right"
  BY <1>2, <1>4, <1>7, AcceptKeeps DEF Input!Move
<1>8. CASE a = "move-word-left"
  BY <1>2, <1>4, <1>8, EditKeeps DEF Input!Move
<1>9. CASE a = "move-word-right"
  BY <1>2, <1>4, <1>9, AcceptKeeps DEF Input!Move
<1>10. CASE a = "move-line-start"
  BY <1>2, <1>4, <1>10, EditKeeps DEF Input!Move
<1>11. CASE a = "move-line-end"
  BY <1>2, <1>5, <1>11, AcceptKeeps DEF Input!Move
<1>12. QED
  BY <1>6, <1>7, <1>8, <1>9, <1>10, <1>11 DEF Input!Moves

\* What is cut and what is killed.
LEMMA KillKeeps ==
  ASSUME InputConstants, EditorInv, NEW from \in Nat, NEW to \in Nat, to <= Len(line.text), from <= Len(line.text),
         Input!Kill(from, to) \/ Input!Delete(from, to), search' = Input!None, UNCHANGED <<composing, log>>
  PROVE  EditorInv'
<1>1. Input!Cut(line, from, to) \in Lines
  BY NewLines, CutIs
<1>2. Input!Span(line, from, to) \in Texts
  BY NewLines, PieceIs DEF Input!Span
<1>3. Input!Edited(Input!Cut(line, from, to)) /\ kill' \in Texts
  BY <1>2, NewLines DEF Input!Kill, Input!Delete
<1>4. composing' \in BOOLEAN
  BY NewLines
<1>5. QED
  BY <1>1, <1>3, <1>4, EditKeeps

\* The keys that change the line.
LEMMA EditActionKeeps ==
  ASSUME InputConstants, EditorInv, NEW a \in Input!Edits, Input!EditAction(a) PROVE EditorInv'
<1>1. search' = Input!None /\ UNCHANGED <<composing, log>>
  BY DEF Input!EditAction
<1>2. /\ line \in Lines /\ kill \in Texts /\ composing' \in BOOLEAN
      /\ search' \in {Input!None} \cup Searches /\ Input!Whole(<<>>) \in Lines
  BY <1>1, NewLines
<1> DEFINE N == Len(line.text)
<1>3. /\ N \in Nat /\ line.caret \in Nat /\ line.caret <= N
      /\ Input!LeftOf(line) \in Nat /\ Input!LeftOf(line) <= N
      /\ Input!RightOf(line) \in Nat /\ Input!RightOf(line) <= N
      /\ Input!WordLeft(line) \in Nat /\ Input!WordLeft(line) <= N
      /\ Input!WordRight(line) \in Nat /\ Input!WordRight(line) <= N
  BY <1>2, LineCarets, NewLines
<1> HIDE DEF N
<1>4. CASE a = "delete-backward"
  BY <1>1, <1>3, <1>4, KillKeeps DEF Input!EditAction, N
<1>5. CASE a = "delete-forward"
  BY <1>1, <1>3, <1>5, KillKeeps DEF Input!EditAction, N
<1>6. CASE a = "kill-to-line-end"
  BY <1>1, <1>3, <1>6, KillKeeps DEF Input!EditAction, N
<1>7. CASE a = "kill-to-line-start"
  BY <1>1, <1>3, <1>7, KillKeeps DEF Input!EditAction, N
<1>8. CASE a = "kill-word-left"
  BY <1>1, <1>3, <1>8, KillKeeps DEF Input!EditAction, N
<1>9. CASE a = "kill-word-right"
  BY <1>1, <1>3, <1>9, KillKeeps DEF Input!EditAction, N
<1>10. CASE a = "yank"
  <2>1. Input!Insert(line, kill) \in Lines
    BY <1>2, InsertIs
  <2>2. kill' = kill /\ (Input!Kept(line) \/ Input!Edited(Input!Insert(line, kill)))
    BY <1>10 DEF Input!EditAction
  <2>3. QED
    BY <1>1, <1>2, <2>1, <2>2, EditKeeps
<1>11. CASE a \in {"cancel-line", "revert-line"}
  <2>1. kill' = kill /\ (Input!Kept(line) \/ Input!Edited(Input!Whole(<<>>)))
    BY <1>11 DEF Input!EditAction
  <2>2. QED
    BY <1>1, <1>2, <2>1, EditKeeps
<1>12. QED
  BY <1>4, <1>5, <1>6, <1>7, <1>8, <1>9, <1>10, <1>11 DEF Input!Edits

\* A step back and a step forward through the history.
LEMMA HistoryKeeps ==
  ASSUME InputConstants, EditorInv, Input!HistoryBack \/ Input!HistoryForward,
         search' = Input!None, UNCHANGED <<composing, kill, log>>
  PROVE  EditorInv'
<1>1. /\ line \in Lines /\ index \in 0..(Len(log) + 1) /\ draft \in {Input!None} \cup Lines
      /\ log \in Seq(Recorded) /\ Len(log) \in Nat /\ menu' = Input!None
      /\ (index = 0 <=> draft = Input!None) /\ line # Input!None
  BY LineIs DEF EditorInv, EditorTypes, Input!DraftWaits, Input!HistoryBack,
     Input!HistoryForward
<1>2. PICK n \in Nat : n = Len(log)
  BY <1>1
<1>3. \A i \in 1..n : Input!Whole(log[i].source) \in Lines
  <2> SUFFICES ASSUME NEW i \in 1..n PROVE Input!Whole(log[i].source) \in Lines
    OBVIOUS
  <2>1. log[i] \in Recorded
    BY <1>1, <1>2, ElementOfSeq
  <2>2. QED
    BY <2>1, WholeIs DEF Recorded
<1>4. /\ line' \in Lines /\ index' \in 0..(n + 1) /\ draft' \in {Input!None} \cup Lines
      /\ (index' = 0 <=> draft' = Input!None)
  <2>1. CASE Input!HistoryBack
    <3> DEFINE from == IF index = 0 THEN Len(log) + 1 ELSE index
               S    == {i \in 1..(from - 1) : log[i].mine}
    <3>1. from \in 1..(n + 1) /\ draft' = IF index = 0 THEN line ELSE draft
      BY <1>1, <1>2, <2>1 DEF Input!HistoryBack
    <3>2. draft' \in Lines /\ draft' # Input!None
      BY <1>1, <3>1
    <3>3. CASE S = {}
      <4>1. index' = from /\ line' = line
        BY <2>1, <3>3 DEF Input!HistoryBack, Input!Older
      <4>2. QED
        BY <1>1, <1>2, <3>1, <3>2, <4>1
    <3>4. CASE S # {}
      <4>1. index' = Input!Max(S) /\ line' = Input!Whole(log[index'].source)
        BY <2>1, <3>4 DEF Input!HistoryBack, Input!Older
      <4>2. S \in SUBSET (0..n) /\ S \subseteq 1..n
        BY <1>2, <3>1
      <4>3. Input!Max(S) \in S
        BY <1>2, <3>4, <4>2, GreatestIs
      <4>4. index' \in 1..n
        BY <4>1, <4>2, <4>3
      <4>5. line' \in Lines
        BY <1>3, <4>1, <4>4
      <4>6. QED
        BY <1>2, <3>2, <4>4, <4>5
    <3>5. QED
      BY <3>3, <3>4
  <2>2. CASE Input!HistoryForward
    <3> DEFINE S == {i \in (index + 1)..Len(log) : log[i].mine}
    <3>1. CASE index = 0
      BY <1>1, <1>2, <2>2, <3>1 DEF Input!HistoryForward
    <3>2. CASE index # 0 /\ S = {}
      <4>1. line' = draft /\ index' = 0 /\ draft' = Input!None
        BY <2>2, <3>2 DEF Input!HistoryForward, Input!Newer
      <4>2. QED
        BY <1>1, <1>2, <3>2, <4>1
    <3>3. CASE index # 0 /\ S # {}
      <4>1. index' = Input!Min(S) /\ line' = Input!Whole(log[index'].source) /\ draft' = draft
        BY <2>2, <3>3 DEF Input!HistoryForward, Input!Newer
      <4>2. S \in SUBSET Nat /\ S \subseteq 1..n
        BY <1>1, <1>2
      <4>3. Input!Min(S) \in S
        BY <3>3, <4>2, LeastIs
      <4>4. index' \in 1..n
        BY <4>1, <4>2, <4>3
      <4>5. line' \in Lines
        BY <1>3, <4>1, <4>4
      <4>6. QED
        BY <1>1, <1>2, <3>3, <4>1, <4>4, <4>5
    <3>4. QED
      BY <3>1, <3>2, <3>3
  <2>3. QED
    BY <2>1, <2>2
<1>5. EditorTypes'
  BY <1>1, <1>2, <1>4 DEF EditorInv, EditorTypes
<1>6. QED
  BY <1>1, <1>4, <1>5 DEF EditorInv, Input!MenuShowsTheLine, Input!DraftWaits

\* Tab with no menu open.
LEMMA CompleteKeeps ==
  ASSUME InputConstants, EditorInv, ~composing, NEW last \in BOOLEAN, Input!Complete(last),
         search' = Input!None, UNCHANGED <<composing, kill, log>>
  PROVE  EditorInv'
<1> DEFINE start == Input!WordStart(line)
<1>1. PICK words \in Input!Completions(line) :
        IF words = <<>> THEN Input!Kept(line)
        ELSE /\ menu' = IF Len(words) = 1 THEN Input!None
                        ELSE [words |-> words, start |-> start, saved |-> line,
                              at |-> IF last THEN Len(words) ELSE 1]
             /\ line' = Input!Completed(line, start, words[IF last THEN Len(words) ELSE 1])
             /\ index' = 0 /\ draft' = Input!None
  BY DEF Input!Complete
<1>2. words \in Seq(Texts)
  BY CompletionsAre
<1>3. start \in Nat /\ start <= Len(line.text) /\ line \in Lines /\ kill \in Texts /\ composing \in BOOLEAN
  <2>1. start \in 0..Len(line.text)
    BY LineCarets
  <2>2. QED
    BY <2>1, NewLines
<1> HIDE DEF start
<1>4. CASE words = <<>>
  <2>1. Input!Kept(line)
    BY <1>1, <1>4
  <2>2. QED
    BY <1>3, <2>1, EditKeeps
<1>5. CASE words # <<>>
  <2> DEFINE k == IF last THEN Len(words) ELSE 1
  <2>1. k \in 1..Len(words) /\ k \in Nat
    BY <1>2, <1>5, EmptySeq
  <2>2. words[k] \in Texts
    BY <1>2, <2>1, ElementOfSeq
  <2>3. line' = Input!Completed(line, start, words[k]) /\ index' = 0 /\ draft' = Input!None
    BY <1>1, <1>5
  <2>4. line' \in Lines
    BY <1>3, <2>2, <2>3, CompletedIs
  <2> HIDE DEF k
  <2>5. CASE Len(words) = 1
    <3>1. menu' = Input!None
      BY <1>1, <1>5, <2>5
    <3>2. Settles
      BY <1>3, <2>3, <2>4, <3>1 DEF Settles, EditorInv, EditorTypes
    <3>3. QED
      BY <3>2, SettledKeeps
  <2>6. CASE Len(words) # 1
    <3>1. menu' = [words |-> words, start |-> start, saved |-> line, at |-> k]
      BY <1>1, <1>5, <2>6 DEF k
    <3>2. menu' \in Menus
      BY <1>2, <1>3, <2>1, <3>1 DEF Menus
    <3>3. line' = Input!Completed(menu'.saved, menu'.start, menu'.words[menu'.at])
      BY <2>3, <3>1
    <3>4. Len(log) \in Nat
      BY DEF EditorInv, EditorTypes
    <3>5. EditorTypes'
      BY <1>3, <2>3, <2>4, <3>2, <3>4 DEF EditorInv, EditorTypes
    <3>6. Input!MenuShowsTheLine'
      BY <3>3 DEF Input!MenuShowsTheLine, Input!Completed, Input!Line, Input!After
    <3>7. Input!DraftWaits'
      BY <2>3 DEF Input!DraftWaits
    <3>8. QED
      BY <3>5, <3>6, <3>7 DEF EditorInv
  <2>7. QED
    BY <2>5, <2>6
<1>6. QED
  BY <1>4, <1>5

\* The keys that run the line, walk, search or complete.
LEMMA ModalKeeps ==
  ASSUME InputConstants, EditorInv, ~composing, NEW a \in Input!Modal, Input!ModalAction(a)
  PROVE  EditorInv'
<1>1. UNCHANGED <<composing, kill>> /\ line \in Lines /\ kill \in Texts /\ composing \in BOOLEAN
  BY NewLines DEF Input!ModalAction
<1>2. search' \in {Input!None} \cup Searches
  <2>1. [needle |-> <<>>, saved |-> line] \in Searches
    BY <1>1 DEF Searches, Texts
  <2>2. QED
    BY <2>1 DEF Input!ModalAction
<1>3. CASE a = "accept-line"
  <2>1. Input!Remember(line.text) /\ Input!Edited(Input!Whole(<<>>))
    BY <1>3 DEF Input!ModalAction
  <2>2. log' \in Seq(Recorded) /\ Len(log') <= Capacity
    BY <2>1, RememberIs, NewLines DEF EditorInv, EditorTypes
  <2>3. Settles
    BY <1>1, <1>2, <2>1, <2>2, NewLines DEF Settles, Input!Edited
  <2>4. QED
    BY <2>3, SettledKeeps
<1>4. CASE a \in {"history-previous", "history-next"}
  <2>1. Input!HistoryBack \/ Input!HistoryForward
    BY <1>4 DEF Input!ModalAction
  <2>2. log' = log /\ search' = Input!None
    BY <1>4 DEF Input!ModalAction
  <2>3. QED
    BY <1>1, <2>1, <2>2, HistoryKeeps
<1>5. CASE a = "complete"
  <2>1. Input!Complete(FALSE) /\ log' = log /\ search' = Input!None
    BY <1>5 DEF Input!ModalAction
  <2>2. QED
    BY <1>1, <2>1, CompleteKeeps
<1>6. CASE a = "complete-previous"
  <2>1. Input!Complete(TRUE) /\ log' = log /\ search' = Input!None
    BY <1>6 DEF Input!ModalAction
  <2>2. QED
    BY <1>1, <2>1, CompleteKeeps
<1>7. CASE a \in {"history-search-backward", "complete-cancel"}
  <2>1. Input!Kept(line) /\ log' = log
    BY <1>7 DEF Input!ModalAction
  <2>2. QED
    BY <1>1, <1>2, <2>1, EditKeeps
<1>8. QED
  BY <1>3, <1>4, <1>5, <1>6, <1>7 DEF Input!Modal

\* A reverse search shows a line and leaves menu, walk and history alone.
LEMMA ShowsIs ==
  ASSUME EditorInv, search # Input!None, NEW needle \in Texts, Input!Shows(needle)
  PROVE  line' \in Lines
<1>1. search \in Searches /\ search.saved \in Lines
  BY DEF EditorInv, EditorTypes, Searches
<1>2. \A s \in Input!Sources : Input!Whole(s) \in Lines
  <2> SUFFICES ASSUME NEW i \in DOMAIN log PROVE Input!Whole(log[i].source) \in Lines
    BY DEF Input!Sources
  <2>1. log[i] \in Recorded
    BY ElementOfSeq DEF EditorInv, EditorTypes
  <2>2. QED
    BY <2>1, WholeIs DEF Recorded
<1>3. Input!Matches(needle) \subseteq Input!Sources
  BY DEF Input!Matches
<1>4. QED
  BY <1>1, <1>2, <1>3 DEF Input!Shows

\* With a search there is no menu, so a step that touches neither keeps the rest.
LEMMA SearchedKeeps ==
  ASSUME EditorInv, search # Input!None, line' \in Lines, search' \in {Input!None} \cup Searches,
         UNCHANGED <<composing, menu, index, draft, kill, log>>
  PROVE  EditorInv'
<1>1. menu = Input!None
  BY DEF EditorInv, Input!MenuShowsTheLine
<1>2. EditorTypes'
  BY DEF EditorInv, EditorTypes
<1>3. QED
  BY <1>1, <1>2 DEF EditorInv, Input!MenuShowsTheLine, Input!DraftWaits

\* What a search keeps to itself.
LEMMA SearchActionKeeps ==
  ASSUME EditorInv, search # Input!None, NEW a \in Input!SearchTakes, Input!SearchAction(a)
  PROVE  EditorInv'
<1>1. search \in Searches /\ search.needle \in Texts /\ search.saved \in Lines /\ line \in Lines
      /\ search = [needle |-> search.needle, saved |-> search.saved]
  BY DEF EditorInv, EditorTypes, Searches
<1>2. UNCHANGED <<composing, menu, index, draft, kill, log>>
  BY DEF Input!SearchAction
<1>3. CASE a = "history-search-backward"
  <2>1. line' = line \/ Input!Shows(search.needle)
    BY <1>3 DEF Input!SearchAction
  <2>2. search' = search
    BY <1>3 DEF Input!SearchAction
  <2>3. line' \in Lines
    BY <1>1, <2>1, ShowsIs
  <2>4. QED
    BY <1>1, <1>2, <2>2, <2>3, SearchedKeeps
<1>4. CASE a = "delete-backward"
  <2>1. CASE search.needle = <<>>
    <3>1. line' = line /\ search' = search
      BY <1>4, <2>1 DEF Input!SearchAction
    <3>2. QED
      BY <1>1, <1>2, <3>1, SearchedKeeps
  <2>2. CASE search.needle # <<>>
    <3> DEFINE shorter == Input!Front(search.needle)
    <3>1. search' = [search EXCEPT !.needle = shorter] /\ Input!Shows(shorter)
      BY <1>4, <2>2 DEF Input!SearchAction
    <3>2. shorter \in Texts
      <4>1. Len(search.needle) \in Nat \ {0}
        BY <1>1, <2>2, EmptySeq DEF Texts
      <4>2. Len(search.needle) - 1 \in Nat /\ Len(search.needle) - 1 <= Len(search.needle)
        BY <4>1
      <4>3. PICK t \in Texts : t = search.needle
        BY <1>1
      <4>4. SubSeq(t, 1, Len(t) - 1) \in Texts
        BY <4>2, <4>3, PieceIs
      <4>5. QED
        BY <4>3, <4>4 DEF Input!Front
    <3>3. search' \in Searches
      BY <1>1, <3>1, <3>2 DEF Searches
    <3>4. line' \in Lines
      BY <3>1, <3>2, ShowsIs
    <3>5. QED
      BY <1>2, <3>3, <3>4, SearchedKeeps
  <2>3. QED
    BY <2>1, <2>2
<1>5. CASE a \in Input!SearchTakes \ {"history-search-backward", "delete-backward"}
  <2>1. search' = Input!None /\ line' \in {line, search.saved}
    BY <1>5 DEF Input!SearchAction, Input!SearchTakes
  <2>2. QED
    BY <1>1, <1>2, <2>1, SearchedKeeps
<1>6. QED
  BY <1>3, <1>4, <1>5

\* Round and round, a menu's place is one of its own.
LEMMA AroundTheMenu == \A k \in Int, n \in Nat : n > 0 => (k % n) + 1 \in 1..n
  OBVIOUS

\* What an open menu keeps to itself.
LEMMA MenuActionKeeps ==
  ASSUME InputConstants, EditorInv, menu # Input!None, NEW a \in Input!MenuTakes, Input!MenuAction(a)
  PROVE  EditorInv'
<1>1. /\ menu \in Menus /\ menu.words \in Seq(Texts) /\ menu.start \in Nat /\ menu.saved \in Lines
      /\ menu.start <= Len(menu.saved.text) /\ menu.at \in 1..Len(menu.words)
      /\ menu = [words |-> menu.words, start |-> menu.start, saved |-> menu.saved, at |-> menu.at]
  BY DEF EditorInv, EditorTypes, Menus
<1>2. UNCHANGED <<composing, search, kill, log>> /\ search = Input!None /\ composing = FALSE
  BY DEF Input!MenuAction, EditorInv, EditorTypes, Input!MenuShowsTheLine
<1>3. PICK size \in Nat : size = Len(menu.words) /\ size > 0
  BY <1>1
<1>4. line \in Lines /\ kill \in Texts
  BY NewLines
<1>5. ASSUME NEW k \in 1..size, Input!Select(k) PROVE EditorInv'
  <2>1. menu' = [menu EXCEPT !.at = k] /\ index' = 0 /\ draft' = Input!None
        /\ line' = Input!Completed(menu.saved, menu.start, menu.words[k])
    BY <1>5 DEF Input!Select
  <2>2. menu' = [words |-> menu.words, start |-> menu.start, saved |-> menu.saved, at |-> k]
    BY <1>1, <2>1
  <2>3. menu' \in Menus
    BY <1>1, <1>3, <2>2 DEF Menus
  <2>4. line' = Input!Completed(menu'.saved, menu'.start, menu'.words[menu'.at])
    BY <2>1, <2>2
  <2>5. menu.words[k] \in Texts
    BY <1>1, <1>3, ElementOfSeq
  <2>6. line' \in Lines
    BY <1>1, <2>1, <2>5, CompletedIs
  <2>7. Len(log) \in Nat
    BY DEF EditorInv, EditorTypes
  <2>8. EditorTypes'
    BY <1>2, <2>1, <2>3, <2>6, <2>7 DEF EditorInv, EditorTypes
  <2>9. Input!MenuShowsTheLine'
    BY <1>2, <2>4 DEF Input!MenuShowsTheLine, Input!Completed, Input!Line, Input!After
  <2>10. Input!DraftWaits'
    BY <2>1 DEF Input!DraftWaits
  <2>11. QED
    BY <2>8, <2>9, <2>10 DEF EditorInv
<1>6. CASE a \in {"complete", "history-next"}
  <2>1. Input!Select((menu.at % Len(menu.words)) + 1)
    BY <1>6 DEF Input!MenuAction
  <2>2. PICK at \in 1..size : at = menu.at
    BY <1>1, <1>3
  <2>3. (at % size) + 1 \in 1..size
    <3>1. at \in Int
      OBVIOUS
    <3>2. QED
      BY <1>3, <3>1, AroundTheMenu
  <2>4. QED
    BY <1>3, <1>5, <2>1, <2>2, <2>3
<1>7. CASE a \in {"complete-previous", "history-previous"}
  <2>1. Input!Select(((menu.at - 2 + Len(menu.words)) % Len(menu.words)) + 1)
    BY <1>7 DEF Input!MenuAction
  <2>2. PICK at \in 1..size : at = menu.at
    BY <1>1, <1>3
  <2>3. ((at - 2 + size) % size) + 1 \in 1..size
    <3>1. at - 2 + size \in Int
      OBVIOUS
    <3>2. QED
      BY <1>3, <3>1, AroundTheMenu
  <2>4. QED
    BY <1>3, <1>5, <2>1, <2>2, <2>3
<1>8. CASE a \in {"accept-line", "complete-cancel", "revert-line"}
  <2>1. Input!Kept(line) \/ Input!Kept(menu.saved)
    BY <1>8 DEF Input!MenuAction
  <2>2. QED
    BY <1>1, <1>2, <1>4, <2>1, EditKeeps
<1>9. QED
  BY <1>6, <1>7, <1>8 DEF Input!MenuTakes

\* A key, and a printable one.
LEMMA PerformKeeps ==
  ASSUME InputConstants, EditorInv, ~composing, NEW a \in Input!Actions, Input!Perform(a)
  PROVE  EditorInv' /\ composing' = composing
<1>1. CASE search # Input!None /\ a \in Input!SearchTakes
  <2>1. Input!SearchAction(a)
    BY <1>1 DEF Input!Perform
  <2>2. composing' = composing
    BY <2>1 DEF Input!SearchAction
  <2>3. QED
    BY <1>1, <2>1, <2>2, SearchActionKeeps
<1>2. CASE ~(search # Input!None /\ a \in Input!SearchTakes) /\ menu # Input!None /\ a \in Input!MenuTakes
  <2>1. Input!MenuAction(a)
    BY <1>2 DEF Input!Perform
  <2>2. composing' = composing
    BY <2>1 DEF Input!MenuAction
  <2>3. QED
    BY <1>2, <2>1, <2>2, MenuActionKeeps
<1>3. CASE ~(search # Input!None /\ a \in Input!SearchTakes) /\ ~(menu # Input!None /\ a \in Input!MenuTakes)
  <2>1. CASE a \in Input!Moves
    <3>1. Input!Move(a)
      BY <1>3, <2>1 DEF Input!Perform
    <3>2. composing' = composing
      BY <3>1 DEF Input!Move
    <3>3. QED
      BY <2>1, <3>1, <3>2, MoveKeeps
  <2>2. CASE a \notin Input!Moves /\ a \in Input!Edits
    <3>1. Input!EditAction(a)
      BY <1>3, <2>2 DEF Input!Perform
    <3>2. composing' = composing
      BY <3>1 DEF Input!EditAction
    <3>3. QED
      BY <2>2, <3>1, <3>2, EditActionKeeps
  <2>3. CASE a \notin Input!Moves /\ a \notin Input!Edits
    <3>1. Input!ModalAction(a) /\ a \in Input!Modal
      BY <1>3, <2>3 DEF Input!Perform, Input!Actions
    <3>2. composing' = composing
      BY <3>1 DEF Input!ModalAction
    <3>3. QED
      BY <3>1, <3>2, ModalKeeps
  <2>4. QED
    BY <2>1, <2>2, <2>3
<1>4. QED
  BY <1>1, <1>2, <1>3

\* A printable key goes to the needle of a search, or to the line.
LEMMA TypeKeeps ==
  ASSUME InputConstants, EditorInv, NEW x \in Graphemes, Input!Type(x)
  PROVE  EditorInv' /\ composing' = composing
<1>1. composing' = composing /\ kill' = kill /\ log' = log
  BY DEF Input!Type
<1>2. <<x>> \in Texts
  BY DEF Texts
<1>3. line \in Lines /\ kill \in Texts /\ composing \in BOOLEAN
  BY NewLines
<1>4. CASE search # Input!None
  <2> DEFINE longer == Append(search.needle, x)
  <2>1. search \in Searches /\ search = [needle |-> search.needle, saved |-> search.saved] /\ search.needle \in Texts
        /\ search.saved \in Lines
    BY <1>4 DEF EditorInv, EditorTypes, Searches
  <2>2. longer \in Texts
    BY <2>1, AppendProperties DEF Texts
  <2>3. search' = [search EXCEPT !.needle = longer] /\ Input!Shows(longer) /\ UNCHANGED <<menu, index, draft>>
    BY <1>4 DEF Input!Type
  <2>4. search' \in Searches
    BY <2>1, <2>2, <2>3 DEF Searches
  <2>5. line' \in Lines
    BY <1>4, <2>2, <2>3, ShowsIs
  <2>6. QED
    BY <1>1, <1>4, <2>3, <2>4, <2>5, SearchedKeeps
<1>5. CASE search = Input!None
  <2>1. Input!Edited(Input!Insert(line, <<x>>)) /\ search' = search
    BY <1>5 DEF Input!Type
  <2>2. Input!Insert(line, <<x>>) \in Lines
    BY <1>2, <1>3, InsertIs
  <2>3. QED
    BY <1>1, <1>3, <1>5, <2>1, <2>2, EditKeeps
<1>6. QED
  BY <1>4, <1>5

\* The textarea puts its own line in place, and a composition begins.
LEMMA SetBufferKeeps ==
  ASSUME InputConstants, EditorInv, NEW l \in Lines, Input!SetBuffer(l)
  PROVE  EditorInv' /\ composing' = composing /\ line' = l
<1>1. Input!Edited(l) /\ search' = Input!None /\ UNCHANGED <<composing, kill, log>> /\ line' = l
  BY DEF Input!SetBuffer, Input!Fresh, Input!Edited
<1>2. QED
  BY <1>1, NewLines, EditKeeps

\* A composition closes the menu, and nothing else.
LEMMA SetComposingKeeps ==
  ASSUME InputConstants, EditorInv, Input!SetComposing
  PROVE  EditorInv' /\ composing' = TRUE /\ line' = line
<1>1. /\ composing' = TRUE /\ line' = line /\ line \in Lines /\ kill' = kill /\ kill \in Texts
      /\ search' = search /\ log' = log /\ index' = index /\ draft' = draft /\ menu' = Input!None
  BY NewLines DEF Input!SetComposing
<1>2. Settles
  BY <1>1 DEF Settles, EditorInv, EditorTypes
<1>3. QED
  BY <1>1, <1>2, SettledKeeps

\* Nothing the editor has is changed.
LEMMA RestKeeps ==
  ASSUME EditorInv, UNCHANGED <<line, composing, menu, search, index, draft, kill, log>> PROVE EditorInv'
  BY DEF EditorInv, EditorTypes, Input!MenuShowsTheLine, Input!DraftWaits,
     Input!Completed, Input!Line, Input!After

-----------------------------------------------------------------------------
(* What a menu, a search or a walk keeps of the line is no longer than it was. *)

\* What they keep beyond a step is the line of before it, or what they had.
Keepsakes ==
  /\ search' # Input!None => search'.saved = line \/ (search # Input!None /\ search'.saved = search.saved)
  /\ menu' # Input!None => menu'.saved = line \/ (menu # Input!None /\ menu'.saved = menu.saved)
  /\ draft' # Input!None => draft' = line \/ (draft # Input!None /\ draft' = draft)

\* A prediction accepted closes the menu and starts no walk.
LEMMA AcceptForgets == ASSUME NEW amount, NEW l, Input!Accept(amount, l)
                       PROVE  menu' = Input!None /\ draft' \in {Input!None, draft}
<1>1. PICK p \in Input!Predicted(line) :
        IF p = <<>> THEN Input!Kept(l)
        ELSE Input!Edited(Input!Insert(line, IF amount = "word" THEN Input!FirstWord(p) ELSE p))
  BY DEF Input!Accept
<1>2. QED
  BY <1>1 DEF Input!Kept, Input!Edited

\* A key keeps the line as it was, or what was kept before.
LEMMA PerformForgets ==
  ASSUME InputConstants, EditorInv, NEW a \in Input!Actions, Input!Perform(a)
  PROVE  Keepsakes
<1>1. CASE search # Input!None /\ a \in Input!SearchTakes
  <2>1. Input!SearchAction(a)
    BY <1>1 DEF Input!Perform
  <2>2. UNCHANGED <<menu, draft>>
    BY <2>1 DEF Input!SearchAction
  <2>3. search \in Searches
    BY <1>1 DEF EditorInv, EditorTypes
  <2>4. search' = Input!None \/ search' = search \/ search' = [search EXCEPT !.needle = Input!Front(search.needle)]
    BY <1>1, <2>1 DEF Input!SearchAction, Input!SearchTakes
  <2>5. [search EXCEPT !.needle = Input!Front(search.needle)].saved = search.saved
    BY <2>3 DEF Searches
  <2>6. QED
    BY <1>1, <2>2, <2>4, <2>5 DEF Keepsakes
<1>2. CASE ~(search # Input!None /\ a \in Input!SearchTakes) /\ menu # Input!None /\ a \in Input!MenuTakes
  <2>1. Input!MenuAction(a) /\ menu \in Menus
    BY <1>2 DEF Input!Perform, EditorInv, EditorTypes
  <2>2. search' = search
    BY <2>1 DEF Input!MenuAction
  <2>3. \A k : Input!Select(k) => menu'.saved = menu.saved /\ draft' = Input!None
    BY <2>1 DEF Input!Select, Menus
  <2>4. \A l : Input!Kept(l) => menu' = Input!None /\ draft' = draft
    BY DEF Input!Kept
  <2>5. (\E k : Input!Select(k)) \/ (\E l : Input!Kept(l))
    BY <2>1 DEF Input!MenuAction
  <2>6. QED
    BY <1>2, <2>2, <2>3, <2>4, <2>5 DEF Keepsakes
<1>3. CASE ~(search # Input!None /\ a \in Input!SearchTakes) /\ ~(menu # Input!None /\ a \in Input!MenuTakes)
  <2>1. CASE a \in Input!Moves
    <3>1. Input!Move(a)
      BY <1>3, <2>1 DEF Input!Perform
    <3>2. search' = Input!None
      BY <3>1 DEF Input!Move
    <3>3. (\E l : Input!Kept(l)) \/ (\E m, l : Input!Accept(m, l))
      BY <2>1, <3>1 DEF Input!Move, Input!Moves
    <3>4. menu' = Input!None /\ draft' \in {Input!None, draft}
      BY <3>3, AcceptForgets DEF Input!Kept
    <3>5. QED
      BY <3>2, <3>4 DEF Keepsakes
  <2>2. CASE a \notin Input!Moves /\ a \in Input!Edits
    <3>1. Input!EditAction(a)
      BY <1>3, <2>2 DEF Input!Perform
    <3>2. search' = Input!None
      BY <3>1 DEF Input!EditAction
    <3>3. (\E l : Input!Kept(l)) \/ (\E l : Input!Edited(l))
      BY <2>2, <3>1 DEF Input!EditAction, Input!Edits, Input!Kill, Input!Delete
    <3>4. menu' = Input!None /\ draft' \in {Input!None, draft}
      BY <3>3 DEF Input!Kept, Input!Edited
    <3>5. QED
      BY <3>2, <3>4 DEF Keepsakes
  <2>3. CASE a \notin Input!Moves /\ a \notin Input!Edits
    <3>1. Input!ModalAction(a) /\ a \in Input!Modal
      BY <1>3, <2>3 DEF Input!Perform, Input!Actions
    <3>2. search' # Input!None => search'.saved = line
      BY <3>1 DEF Input!ModalAction
    <3>3. \/ \E l : Input!Kept(l) \/ Input!Edited(l)
          \/ Input!HistoryBack \/ Input!HistoryForward
          \/ Input!Complete(FALSE) \/ Input!Complete(TRUE)
      BY <3>1 DEF Input!ModalAction, Input!Modal
    <3>4. menu' # Input!None => menu'.saved = line
      <4>1. ASSUME NEW last \in BOOLEAN, Input!Complete(last), menu' # Input!None PROVE menu'.saved = line
        <5>1. PICK words \in Input!Completions(line) :
                IF words = <<>> THEN Input!Kept(line)
                ELSE menu' = IF Len(words) = 1 THEN Input!None
                             ELSE [words |-> words, start |-> Input!WordStart(line), saved |-> line,
                                   at |-> IF last THEN Len(words) ELSE 1]
          BY <4>1 DEF Input!Complete
        <5>2. QED
          BY <4>1, <5>1 DEF Input!Kept
      <4>2. QED
        BY <3>3, <4>1 DEF Input!Kept, Input!Edited, Input!HistoryBack, Input!HistoryForward
    <3>5. draft' \in {Input!None, draft, line}
      <4>1. ASSUME NEW last \in BOOLEAN, Input!Complete(last) PROVE draft' \in {Input!None, draft}
        <5>1. PICK words \in Input!Completions(line) :
                IF words = <<>> THEN Input!Kept(line) ELSE draft' = Input!None
          BY <4>1 DEF Input!Complete
        <5>2. QED
          BY <5>1 DEF Input!Kept
      <4>2. QED
        BY <3>3, <4>1 DEF Input!Kept, Input!Edited, Input!HistoryBack, Input!HistoryForward
    <3>6. QED
      BY <3>2, <3>4, <3>5 DEF Keepsakes
  <2>4. QED
    BY <2>1, <2>2, <2>3
<1>4. QED
  BY <1>1, <1>2, <1>3

\* So does a printable one.
LEMMA TypeForgets ==
  ASSUME EditorInv, NEW x, Input!Type(x) PROVE Keepsakes
<1>1. search \in {Input!None} \cup Searches
  BY DEF EditorInv, EditorTypes
<1>2. CASE search # Input!None
  <2>1. search' = [search EXCEPT !.needle = Append(search.needle, x)] /\ UNCHANGED <<menu, draft>>
    BY <1>2 DEF Input!Type
  <2>2. search'.saved = search.saved
    BY <1>1, <1>2, <2>1 DEF Searches
  <2>3. QED
    BY <1>2, <2>1, <2>2 DEF Keepsakes
<1>3. CASE search = Input!None
  BY <1>3 DEF Input!Type, Input!Edited, Keepsakes
<1>4. QED
  BY <1>2, <1>3

\* So a step that keeps the line within the bound keeps all of it there.
LEMMA BoundKeeps ==
  ASSUME Bounded, Keepsakes, Len(line'.text) <= MaxText, Len(field'.text) <= MaxText, Len(kill') <= MaxText,
         search' # Input!None => Len(search'.needle) <= MaxText
  PROVE  Bounded'
  BY DEF Bounded, Keepsakes
-----------------------------------------------------------------------------
(* The events of the field: each leaves the invariant, and is a step allowed. *)

\* What every event is shown to do.
Sound == EditorInv' /\ Methods' /\ Keepsakes /\ Input!InputSteps

\* One more event, and what the invariant says of the rest.
LEMMA EventIs == ASSUME InputConstants, InputInv, Input!Event PROVE events' \in 0..MaxEvents
  BY DEF InputConstants, InputInv, Methods, Input!Event

\* What leaves the editor alone keeps its part.
LEMMA RestIs ==
  ASSUME InputInv, UNCHANGED <<line, composing, menu, search, index, draft, kill, log>>
  PROVE  EditorInv' /\ Keepsakes
<1>1. EditorInv'
  BY RestKeeps DEF InputInv
<1>2. QED
  BY <1>1 DEF Keepsakes

\* Out of a composition any step is one the input method has no say in.
LEMMA IdleSteps == ASSUME Input!Idle PROVE Input!InputSteps
  BY DEF Input!Idle, Input!InputSteps, Input!KeysAreTheMethods, Input!CommitsOnce

\* A key outside a composition: the line is edited, and the field follows it.
LEMMA PressKeeps ==
  ASSUME InputConstants, InputInv, NEW a \in Input!Actions, Input!Press(a)
  PROVE  Sound
<1>1. /\ Input!Idle /\ ~composing /\ Input!Perform(a) /\ ime' = ime /\ Input!Event
      /\ IF Input!PassesThrough(a) THEN UNCHANGED <<field, owing>> ELSE Input!Sync(line')
  BY DEF Input!Press, Input!Guards
<1>2. EditorInv' /\ composing' = composing
  BY <1>1, PerformKeeps DEF InputInv
<1>3. Keepsakes
  BY <1>1, PerformForgets DEF InputInv
<1>4. line' \in Lines
  BY <1>2 DEF EditorInv, EditorTypes
<1>5. field' \in Lines /\ owing' \in BOOLEAN /\ (~owing' => ~composing' /\ field' = line')
  <2>1. CASE Input!PassesThrough(a)
    <3>1. a = "revert-line" /\ search = Input!None /\ menu = Input!None /\ line.text = <<>>
      BY <2>1 DEF Input!PassesThrough
    <3>2. Input!EditAction(a)
      BY <1>1, <3>1 DEF Input!Perform, Input!Moves, Input!Edits
    <3>3. line' = line
      BY <3>1, <3>2 DEF Input!EditAction, Input!Kept
    <3>4. field' = field /\ owing' = owing
      BY <1>1, <2>1
    <3>5. QED
      BY <1>1, <1>2, <3>3, <3>4 DEF InputInv, Methods, Input!Idle
  <2>2. CASE ~Input!PassesThrough(a)
    BY <1>1, <1>2, <1>4, <2>2 DEF Input!Sync
  <2>3. QED
    BY <2>1, <2>2
<1>6. Methods'
  BY <1>1, <1>5, EventIs DEF InputInv, Methods, Input!Idle
<1>7. QED
  BY <1>1, <1>2, <1>3, <1>6, IdleSteps DEF Sound

\* A printable key.
LEMMA PressLetterKeeps ==
  ASSUME InputConstants, InputInv, NEW x \in Graphemes, Input!PressLetter(x)
  PROVE  Sound
<1>1. Input!Idle /\ ~composing /\ Input!Type(x) /\ ime' = ime /\ Input!Event /\ Input!Sync(line')
  BY DEF Input!PressLetter, Input!Guards
<1>2. EditorInv' /\ composing' = composing
  BY <1>1, TypeKeeps DEF InputInv
<1>3. Keepsakes
  BY <1>1, TypeForgets DEF InputInv
<1>4. line' \in Lines
  BY <1>2 DEF EditorInv, EditorTypes
<1>5. Methods'
  BY <1>1, <1>2, <1>4, EventIs DEF InputInv, Methods, Input!Idle, Input!Sync
<1>6. QED
  BY <1>1, <1>2, <1>3, <1>5, IdleSteps DEF Sound

\* A key of the composition is guarded: no method's key gets to the editor.
LEMMA CandidateKeyKeeps ==
  ASSUME InputConstants, InputInv, NEW a, Input!CandidateKey(a)
  PROVE  Sound
<1>1. Input!Event /\ ~Input!Idle /\ ime' = ime /\ (ime.phase = "trailing" => ime.kind = "sentinel")
  BY DEF Input!CandidateKey
<1>2. ime.kind \in Input!Kinds /\ ime.phase \in Input!Phases
  BY DEF InputInv, Methods
<1>3. Input!Guards
  BY <1>1, <1>2 DEF InputInv, Methods, Input!Guards, Input!Idle, Input!Kinds, Input!Phases
<1>4. UNCHANGED <<line, composing, menu, search, index, draft, kill, log, field, owing>>
  BY <1>3 DEF Input!CandidateKey
<1>5. EditorInv' /\ Keepsakes
  BY <1>4, RestIs
<1>6. Methods'
  BY <1>1, <1>4, EventIs DEF InputInv, Methods
<1>7. Input!InputSteps
  BY <1>1, <1>4 DEF Input!InputSteps, Input!KeysAreTheMethods, Input!CommitsOnce, Input!Idle
<1>8. QED
  BY <1>5, <1>6, <1>7 DEF Sound

\* A buffer set by the field begins afresh.
LEMMA SetBufferForgets == ASSUME NEW l, Input!SetBuffer(l) PROVE Keepsakes
  BY DEF Input!SetBuffer, Input!Fresh, Input!Edited, Keepsakes

\* Reconcile: whatever the field holds, the editor has it afterwards.
LEMMA ReconcileKeeps ==
  ASSUME InputConstants, InputInv, NEW f \in Lines, Input!Reconcile(f)
  PROVE  EditorInv' /\ Keepsakes /\ composing' = composing /\ line' = f /\ field' = f /\ owing' = FALSE
<1>1. field' = f /\ owing' = FALSE
  BY DEF Input!Reconcile
<1>2. CASE f = line
  <2>1. UNCHANGED <<line, composing, menu, search, index, draft, kill, log>>
    BY <1>2 DEF Input!Reconcile, Input!editorVars
  <2>2. QED
    BY <1>1, <1>2, <2>1, RestIs
<1>3. CASE f # line
  <2>1. Input!SetBuffer(f)
    BY <1>3 DEF Input!Reconcile
  <2>2. QED
    BY <1>1, <2>1, SetBufferKeeps, SetBufferForgets DEF InputInv
<1>4. QED
  BY <1>2, <1>3

\* The field edited by the browser.
LEMMA NativeEditKeeps ==
  ASSUME InputConstants, InputInv, NEW f \in Lines, Input!NativeEdit(f)
  PROVE  Sound
<1>1. Input!Event /\ Input!Idle /\ ime' = ime
  BY DEF Input!NativeEdit
<1>2. CASE composing
  <2>1. field' = f /\ UNCHANGED <<line, composing, menu, search, index, draft, kill, log>> /\ owing' = owing
    BY <1>2 DEF Input!NativeEdit
  <2>2. EditorInv' /\ Keepsakes
    BY <2>1, RestIs
  <2>3. Methods'
    BY <1>1, <1>2, <2>1, EventIs DEF InputInv, Methods, Input!Idle
  <2>4. QED
    BY <1>1, <2>2, <2>3, IdleSteps DEF Sound
<1>3. CASE ~composing
  <2>1. Input!Reconcile(f)
    BY <1>3 DEF Input!NativeEdit
  <2>2. EditorInv' /\ Keepsakes /\ composing' = composing /\ line' = f /\ field' = f /\ owing' = FALSE
    BY <2>1, ReconcileKeeps
  <2>3. Methods'
    BY <1>1, <1>3, <2>2, EventIs DEF InputInv, Methods, Input!Idle
  <2>4. QED
    BY <1>1, <2>2, <2>3, IdleSteps DEF Sound
<1>4. QED
  BY <1>2, <1>3

\* What the browser may leave in the field is a line.
LEMMA NativesAre == ASSUME InputInv PROVE Input!Natives \subseteq Lines
<1>1. field \in Lines
  BY DEF InputInv, Methods
<1>2. \A x \in Letters : Input!Insert(field, <<x>>) \in Lines
  <2> SUFFICES ASSUME NEW x \in Letters PROVE Input!Insert(field, <<x>>) \in Lines
    OBVIOUS
  <2>1. <<x>> \in Texts
    BY DEF Texts, Graphemes
  <2>2. QED
    BY <1>1, <2>1, InsertIs
<1>3. field.text \in Texts /\ field.caret \in Nat /\ Len(field.text) \in Nat /\ field.caret <= Len(field.text)
  BY <1>1, LineIs
<1>4. Input!LeftOf(field) \in 0..field.caret
  BY <1>1, CaretsAre
<1>5. Input!LeftOf(field) \in Nat /\ Input!LeftOf(field) <= Len(field.text)
  BY <1>3, <1>4
<1>6. Input!Cut(field, Input!LeftOf(field), field.caret) \in Lines
  BY <1>1, <1>3, <1>5, CutIs
<1>7. \A c \in 0..Len(field.text) : Input!Line(field.text, c) \in Lines
  BY <1>3, MakesLine
<1>8. QED
  BY <1>2, <1>6, <1>7 DEF Input!Natives

\* compositionstart, told or not.
LEMMA CompositionKeeps ==
  ASSUME InputConstants, InputInv, NEW told \in BOOLEAN, Input!Start(told)
  PROVE  Sound
<1>1. /\ Input!Event /\ Input!Idle /\ (told \/ ime.kind # "silent") /\ field' = field /\ owing' = owing
      /\ ime' = [ime EXCEPT !.phase = "begun", !.base = field]
      /\ IF told THEN Input!SetComposing ELSE UNCHANGED <<line, composing, menu, search, index, draft, kill, log>>
  BY DEF Input!Start, Input!editorVars
<1>2. EditorInv' /\ Keepsakes /\ line' = line /\ (told => composing')
  <2>1. CASE told
    BY <1>1, <2>1, SetComposingKeeps DEF InputInv, Input!SetComposing, Keepsakes
  <2>2. CASE ~told
    BY <1>1, <2>2, RestIs
  <2>3. QED
    BY <2>1, <2>2
<1>3. /\ ime \in [kind : Input!Kinds, phase : Input!Phases, base : Lines] /\ field \in Lines
      /\ owing \in BOOLEAN
  BY DEF InputInv, Methods
<1>4. /\ ime' \in [kind : Input!Kinds, phase : Input!Phases, base : Lines]
      /\ ime'.phase = "begun" /\ ime'.kind = ime.kind
  BY <1>1, <1>3 DEF Input!Phases
<1>5. Methods'
  BY <1>1, <1>2, <1>3, <1>4, EventIs DEF Methods
<1>6. QED
  BY <1>1, <1>2, <1>5, IdleSteps DEF Sound

\* compositionupdate: the preedit is the field's, the editor only composes.
LEMMA UpdateKeeps ==
  ASSUME InputConstants, InputInv, NEW s \in Texts, Input!Update(s)
  PROVE  Sound
<1>1. /\ Input!Event /\ ime.phase \in {"begun", "open"} /\ Input!SetComposing /\ owing' = owing
      /\ ime' = [ime EXCEPT !.phase = "open"] /\ field' = Input!Insert(ime.base, s)
  BY DEF Input!Update, Input!Goes
<1>2. EditorInv' /\ composing' = TRUE /\ line' = line
  BY <1>1, SetComposingKeeps DEF InputInv
<1>3. Keepsakes /\ log' = log
  BY <1>1 DEF Input!SetComposing, Keepsakes
<1>4. /\ ime \in [kind : Input!Kinds, phase : Input!Phases, base : Lines] /\ owing \in BOOLEAN /\ ime.base \in Lines
  BY DEF InputInv, Methods
<1>5. ime' \in [kind : Input!Kinds, phase : Input!Phases, base : Lines] /\ ime'.phase = "open"
  BY <1>1, <1>4 DEF Input!Phases
<1>6. field' \in Lines
  BY <1>1, <1>4, InsertIs
<1>7. Methods'
  BY <1>1, <1>2, <1>4, <1>5, <1>6, EventIs DEF Methods
<1>8. Input!InputSteps
  BY <1>1, <1>2, <1>3, <1>5 DEF Input!InputSteps, Input!KeysAreTheMethods, Input!CommitsOnce
<1>9. QED
  BY <1>2, <1>3, <1>7, <1>8 DEF Sound

\* The commit: once, whichever event came first, for the editor still composes when
\* the input comes before the end.
LEMMA CommitKeeps ==
  ASSUME InputConstants, InputInv, NEW s \in Input!Data, s \in Texts, NEW first \in BOOLEAN, Input!Commit(s, first)
  PROVE  Sound
<1> DEFINE told == IF first /\ ~Input!SkipsInput THEN Input!Insert(ime.base, s) ELSE line
           next == IF first /\ ime.kind # "sentinel" THEN "idle" ELSE "trailing"
<1>1. /\ Input!Event /\ (ime.phase = "open" \/ (ime.phase = "begun" /\ s = <<>>))
      /\ ime' = [ime EXCEPT !.phase = next] /\ composing' = FALSE /\ field' = line' /\ owing' = FALSE
      /\ UNCHANGED <<search, kill, log>>
      /\ IF s = <<>> THEN UNCHANGED <<line, menu, index, draft>> ELSE Input!Edited(Input!Insert(told, s))
  BY DEF Input!Commit, Input!Goes, Input!Sync
<1>2. /\ ime \in [kind : Input!Kinds, phase : Input!Phases, base : Lines] /\ ime.base \in Lines
  BY DEF InputInv, Methods
<1>3. EditorInv /\ line \in Lines /\ kill \in Texts /\ search \in {Input!None} \cup Searches
  BY DEF InputInv, EditorInv, EditorTypes
<1>4. ime.phase = "open" => told = line
  BY DEF Input!SkipsInput, InputInv, Methods
<1>5. next \in {"idle", "trailing"} /\ next \in Input!Phases
  BY DEF Input!Phases
<1> HIDE DEF told, next
<1>6. /\ ime' \in [kind : Input!Kinds, phase : Input!Phases, base : Lines]
      /\ ime'.phase = next /\ ime'.kind = ime.kind
  BY <1>1, <1>2, <1>5
<1>7. CASE s = <<>>
  <2>1. UNCHANGED <<line, menu, index, draft, search, kill, log>> /\ composing' = FALSE
    BY <1>1, <1>7
  <2>2. EditorInv' /\ Keepsakes /\ line' \in Lines
    <3>1. EditorTypes'
      BY <1>3, <2>1 DEF EditorInv, EditorTypes
    <3>2. Input!MenuShowsTheLine' /\ Input!DraftWaits'
      BY <1>3, <2>1 DEF EditorInv, Input!MenuShowsTheLine, Input!DraftWaits,
         Input!Completed, Input!Line, Input!After
    <3>3. QED
      BY <1>3, <2>1, <3>1, <3>2 DEF EditorInv, Keepsakes
  <2>3. Methods'
    BY <1>1, <1>5, <1>6, <2>2, EventIs DEF Methods
  <2>4. line = ime.base => line' = Input!Insert(ime.base, s)
    BY <1>2, <1>7, <2>1, InsertIs
  <2>5. Input!KeysAreTheMethods
    BY <1>1, <1>5, <1>6 DEF Input!KeysAreTheMethods, Input!Idle
  <2>6. Input!CommitsOnce
    BY <1>1, <2>1, <2>4 DEF Input!CommitsOnce
  <2>7. QED
    BY <2>2, <2>3, <2>5, <2>6 DEF Sound, Input!InputSteps
<1>8. CASE s # <<>>
  <2>1. ime.phase = "open" /\ Input!Edited(Input!Insert(line, s))
    BY <1>1, <1>4, <1>8
  <2>2. Input!Insert(line, s) \in Lines
    BY <1>3, InsertIs
  <2>3. EditorInv' /\ line' = Input!Insert(line, s)
    BY <1>1, <1>3, <2>1, <2>2, EditKeeps DEF Input!Edited
  <2>4. Keepsakes
    BY <1>1, <2>1 DEF Input!Edited, Keepsakes
  <2>5. Methods'
    BY <1>1, <1>5, <1>6, <2>2, <2>3, EventIs DEF Methods
  <2>6. Input!KeysAreTheMethods
    BY <1>1, <1>5, <1>6, <2>1 DEF Input!KeysAreTheMethods, Input!Idle
  <2>7. Input!CommitsOnce
    BY <2>1, <2>3 DEF Input!CommitsOnce
  <2>8. QED
    BY <2>3, <2>4, <2>5, <2>6, <2>7 DEF Sound, Input!InputSteps
<1>9. QED
  BY <1>7, <1>8

\* The input that trails a commit finds the field and the line the same.
LEMMA TrailingInputKeeps ==
  ASSUME InputConstants, InputInv, Input!TrailingInput
  PROVE  Sound
<1>1. /\ Input!Event /\ ime.phase = "trailing" /\ Input!Reconcile(field)
      /\ ime' = [ime EXCEPT !.phase = "idle"]
  BY DEF Input!TrailingInput, Input!Goes
<1>2. field = line /\ ~composing /\ field \in Lines
  BY <1>1 DEF InputInv, Methods
<1>3. /\ EditorInv' /\ Keepsakes /\ composing' = composing /\ line' = line /\ field' = field /\ owing' = FALSE
  BY <1>1, <1>2, ReconcileKeeps
<1>4. ime \in [kind : Input!Kinds, phase : Input!Phases, base : Lines]
  BY DEF InputInv, Methods
<1>5. ime' \in [kind : Input!Kinds, phase : Input!Phases, base : Lines] /\ ime'.phase = "idle"
  BY <1>1, <1>4 DEF Input!Phases
<1>6. Methods'
  BY <1>1, <1>2, <1>3, <1>5, EventIs DEF Methods
<1>7. Input!InputSteps
  BY <1>1, <1>3, <1>5 DEF Input!InputSteps, Input!KeysAreTheMethods, Input!CommitsOnce,
     Input!Idle
<1>8. QED
  BY <1>3, <1>6, <1>7 DEF Sound

\* A commit nobody was told the end of: the editor goes on composing, and the field
\* is ahead of it.
LEMMA CommitUnheardKeeps ==
  ASSUME InputConstants, InputInv, NEW s \in Texts, Input!CommitUnheard(s)
  PROVE  Sound
<1>1. /\ Input!Event /\ ime.phase = "open" /\ ime' = [ime EXCEPT !.phase = "idle"] /\ owing' = TRUE
      /\ field' = Input!Insert(ime.base, s)
      /\ UNCHANGED <<line, composing, menu, search, index, draft, kill, log>>
  BY DEF Input!CommitUnheard, Input!Goes, Input!editorVars
<1>2. ime \in [kind : Input!Kinds, phase : Input!Phases, base : Lines] /\ ime.base \in Lines /\ composing
  BY <1>1 DEF InputInv, Methods
<1>3. ime' \in [kind : Input!Kinds, phase : Input!Phases, base : Lines] /\ ime'.phase = "idle"
  BY <1>1, <1>2 DEF Input!Phases
<1>4. EditorInv' /\ Keepsakes
  BY <1>1, RestIs
<1>5. field' \in Lines
  BY <1>1, <1>2, InsertIs
<1>6. Methods'
  BY <1>1, <1>3, <1>5, EventIs DEF Methods
<1>7. Input!InputSteps
  BY <1>1, <1>2, <1>3 DEF Input!InputSteps, Input!KeysAreTheMethods, Input!CommitsOnce,
     Input!Idle
<1>8. QED
  BY <1>4, <1>6, <1>7 DEF Sound

\* A composition is called off only where its end was lost.
LEMMA CancelKeeps ==
  ASSUME InputConstants, InputInv, Input!CancelComposition
  PROVE  Sound
<1>1. /\ Input!Event /\ Input!Idle /\ composing /\ composing' = FALSE
      /\ UNCHANGED <<line, menu, search, index, draft, kill, log, field, ime, owing>>
  BY DEF Input!CancelComposition
<1>2. EditorTypes'
  BY <1>1 DEF InputInv, EditorInv, EditorTypes
<1>3. Input!MenuShowsTheLine' /\ Input!DraftWaits'
  BY <1>1 DEF InputInv, EditorInv, Input!MenuShowsTheLine, Input!DraftWaits,
     Input!Completed, Input!Line, Input!After
<1>4. Keepsakes
  BY <1>1 DEF Keepsakes
<1>5. Methods'
  BY <1>1, EventIs DEF InputInv, Methods, Input!Idle
<1>6. QED
  BY <1>1, <1>2, <1>3, <1>4, <1>5, IdleSteps DEF Sound, EditorInv

\* Every event.
LEMMA StepKeeps ==
  ASSUME InputConstants, InputInv, Input!Next PROVE InputInv' /\ Input!InputSteps
<1>1. ASSUME NEW s \in Input!Data PROVE s \in Texts
  <2>1. CASE s = <<>>
    BY <2>1 DEF Texts
  <2>2. ASSUME NEW x \in Letters PROVE <<x>> \in Texts
    BY DEF Texts, Graphemes
  <2>3. QED
    BY <2>1, <2>2 DEF Input!Data
<1>2. Sound
  <2>1. ASSUME NEW a \in Input!Actions, Input!Press(a) \/ Input!CandidateKey(a) PROVE Sound
    BY <2>1, PressKeeps, CandidateKeyKeeps
  <2>2. ASSUME NEW x \in Letters \cup {Blank}, Input!PressLetter(x) PROVE Sound
    BY <2>2, PressLetterKeeps DEF Graphemes
  <2>3. ASSUME NEW f \in Input!Natives, Input!NativeEdit(f) PROVE Sound
    BY <2>3, NativeEditKeeps, NativesAre
  <2>4. ASSUME NEW told \in BOOLEAN, Input!Start(told) PROVE Sound
    BY <2>4, CompositionKeeps
  <2>5. ASSUME NEW s \in Input!Data,
               Input!Update(s) \/ (\E first \in BOOLEAN : Input!Commit(s, first)) \/ Input!CommitUnheard(s)
        PROVE  Sound
    BY <1>1, <2>5, UpdateKeeps, CommitKeeps, CommitUnheardKeeps
  <2>6. CASE Input!TrailingInput \/ Input!CancelComposition
    BY <2>6, TrailingInputKeeps, CancelKeeps
  <2>7. QED
    BY <2>1, <2>2, <2>3, <2>4, <2>5, <2>6 DEF Input!Next
<1>3. /\ Len(line'.text) <= MaxText /\ Len(field'.text) <= MaxText /\ Len(kill') <= MaxText
      /\ search' # Input!None => Len(search'.needle) <= MaxText
  BY DEF Input!Next
<1>4. Bounded'
  BY <1>2, <1>3, BoundKeeps DEF Sound, InputInv
<1>5. QED
  BY <1>2, <1>4 DEF Sound, InputInv

\* Nothing happening.
LEMMA StillKeeps ==
  ASSUME InputInv, UNCHANGED Input!inputVars PROVE InputInv' /\ Input!InputSteps
<1>1. UNCHANGED <<line, composing, menu, search, index, draft, kill, log>> /\ UNCHANGED <<field, ime, owing, events>>
  BY DEF Input!inputVars
<1>2. EditorInv'
  BY <1>1, RestIs
<1>3. Methods' /\ Bounded'
  BY <1>1 DEF InputInv, Methods, Bounded
<1>4. Input!InputSteps
  BY <1>1 DEF Input!InputSteps, Input!KeysAreTheMethods, Input!CommitsOnce
<1>5. QED
  BY <1>2, <1>3, <1>4 DEF InputInv

\* An empty line in an empty field, over what was recalled.
LEMMA StartsSound == ASSUME InputConstants, Input!Init PROVE InputInv
<1>1. <<>> \in Texts /\ Len(<<>>) = 0
  BY DEF Texts
<1>2. /\ line = Input!Whole(<<>>) /\ composing = FALSE /\ menu = Input!None /\ search = Input!None
      /\ index = 0 /\ draft = Input!None /\ kill = <<>> /\ log = Recalled
  BY DEF Input!Init, Input!EditorInit
<1>3. PICK kind \in Input!Kinds : ime = [kind |-> kind, phase |-> "idle", base |-> field]
  BY DEF Input!Init
<1>4. field = line /\ owing = FALSE /\ events = 0
  BY DEF Input!Init
<1>5. line \in Lines /\ line.text = <<>> /\ line # Input!None
  BY <1>1, <1>2, WholeIs, LineIs
<1>6. EditorInv
  <2>1. Len(Recalled) \in Nat
    BY DEF InputConstants
  <2>2. log \in Seq(Recorded) /\ Len(log) <= Capacity /\ index \in 0..(Len(log) + 1)
    BY <1>2, <2>1 DEF InputConstants
  <2>3. kill \in Texts
    BY <1>1, <1>2, Zenon
  <2>4. EditorTypes
    BY <1>2, <1>5, <2>2, <2>3 DEF EditorTypes
  <2>5. Input!MenuShowsTheLine /\ Input!DraftWaits
    BY <1>2 DEF Input!MenuShowsTheLine, Input!DraftWaits
  <2>6. QED
    BY <2>4, <2>5 DEF EditorInv
<1>7. Methods
  <2>1. /\ ime \in [kind : Input!Kinds, phase : Input!Phases, base : Lines]
        /\ ime.phase = "idle"
    BY <1>3, <1>4, <1>5 DEF Input!Phases
  <2>2. events \in 0..MaxEvents
    BY <1>4 DEF InputConstants
  <2>3. composing = FALSE
    BY <1>2
  <2>4. QED
    BY <1>4, <1>5, <2>1, <2>2, <2>3 DEF Methods
<1>8. Bounded
  <2>1. Len(line.text) <= MaxText /\ Len(field.text) <= MaxText /\ Len(kill) <= MaxText
    BY <1>1, <1>2, <1>4, <1>5 DEF InputConstants
  <2>2. QED
    BY <1>2, <2>1 DEF Bounded
<1>9. QED
  BY <1>6, <1>7, <1>8 DEF InputInv

\* The editor, what its composition is with, and the sizes.
THEOREM InputInvHolds == ASSUME InputConstants PROVE Input!Spec => []InputInv
<1>1. Input!Init => InputInv
  BY StartsSound
<1>2. InputInv /\ [Input!Next]_(Input!inputVars) => InputInv'
  BY StepKeeps, StillKeeps
<1>3. QED
  BY <1>1, <1>2, PTL DEF Input!Spec

\* Outside a composition the field and the editor agree, an open menu highlights what
\* Enter would leave, and a walk has the typed line to come back to.
THEOREM InputSoundHolds == ASSUME InputConstants PROVE Input!Spec => []Input!InputSound
<1>1. InputInv => Input!InputSound
  BY DEF InputInv, EditorInv, Methods, Input!InputSound, Input!Mirror
<1>2. QED
  BY <1>1, InputInvHolds, PTL

\* Every field holds what it is for, and no caret is beyond its text.
THEOREM InputTypesHold == ASSUME InputConstants PROVE Input!Spec => []Input!TypeOK
<1>1. ASSUME InputInv PROVE Input!TypeOK
  <2>1. \A l \in Lines : l.caret \in 0..Len(l.text)
    BY LineIs
  <2>2. line \in Lines /\ field \in Lines
    BY <1>1 DEF InputInv, EditorInv, EditorTypes, Methods
  <2>3. search # Input!None => search.saved \in Lines
    BY <1>1 DEF InputInv, EditorInv, EditorTypes, Searches
  <2>4. menu # Input!None => menu.saved \in Lines /\ menu.at \in DOMAIN menu.words
    <3>1. menu # Input!None => menu.saved \in Lines /\ menu.words \in Seq(Texts) /\ menu.at \in 1..Len(menu.words)
      BY <1>1 DEF InputInv, EditorInv, EditorTypes, Menus
    <3>2. QED
      BY <3>1
  <2>5. draft # Input!None => draft \in Lines
    BY <1>1 DEF InputInv, EditorInv, EditorTypes
  <2>6. Bounded
    BY <1>1 DEF InputInv
  <2>7. Input!EditorTypeOK
    <3>1. composing \in BOOLEAN /\ index \in 0..(Len(log) + 1) /\ Len(log) <= Capacity
      BY <1>1 DEF InputInv, EditorInv, EditorTypes
    <3>2. QED
      BY <2>1, <2>2, <2>3, <2>4, <2>5, <2>6, <3>1 DEF Input!EditorTypeOK, Bounded
  <2>8. ime.kind \in Input!Kinds /\ ime.phase \in Input!Phases /\ owing \in BOOLEAN /\ events \in 0..MaxEvents
    BY <1>1 DEF InputInv, Methods
  <2>9. QED
    BY <2>1, <2>2, <2>7, <2>8 DEF Input!TypeOK
<1>2. QED
  BY <1>1, InputInvHolds, PTL

\* No key of a composition edits or runs the line, and what it commits is inserted once.
THEOREM InputStepsHold == ASSUME InputConstants PROVE Input!Spec => [][Input!InputSteps]_(Input!inputVars)
<1>1. InputInv /\ [Input!Next]_(Input!inputVars) => [Input!InputSteps]_(Input!inputVars)
  BY StepKeeps, StillKeeps
<1>2. QED
  BY <1>1, InputInvHolds, PTL DEF Input!Spec
=============================================================================
