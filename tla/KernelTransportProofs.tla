------------------------- MODULE KernelTransportProofs -------------------------
(***************************************************************************)
(* Proofs about KernelTransport, for any requests, stages, calls, output   *)
(* and faults of the channel, and about WireCopy, the copy a value is sent *)
(* across it as, for any graph.                                            *)
(***************************************************************************)
EXTENDS KernelTransport, SequenceTheorems, FiniteSetTheorems, TLAPS

-----------------------------------------------------------------------------
(* Types.                                                                  *)

Pid   == Ids \X Nat
Named == {"process-changed", "exit", "stream"}
Kinds == Named \cup {"objects", "rejected"}

Events      == [kind : Kinds, id : Ids, pid : Pid \cup {<<>>}, seq : Nat]
Messages    == [kind : {"exec", "cancel"}, id : Ids, call : Nat]
Transcripts == [call : Nat, n : Nat, live : SUBSET Nat, exits : Seq(Nat), values : Nat, errors : Seq(Nat)]
Waiting     == [call : Nat, procs : SUBSET Pid, exits : Seq(Pid), values : Nat, errors : Seq(Pid)]
Results     == [rejected : {"yes", "no", "closed"}, exits : Seq(Pid), values : Nat, errors : Seq(Pid)]

Typed ==
  /\ toKernel \in Seq(Messages) /\ toClient \in Seq(Events)
  /\ jobs \in [DOMAIN jobs -> Transcripts] /\ DOMAIN jobs \subseteq Ids
  /\ pending \in [DOMAIN pending -> Waiting] /\ DOMAIN pending \subseteq Ids
  /\ owner \in [DOMAIN owner -> Ids] /\ DOMAIN owner \subseteq Pid
  /\ outcomes \in [DOMAIN outcomes -> Seq(Results)]
  /\ forgone \subseteq Ids /\ closed \in BOOLEAN
  /\ seq \in Nat /\ lastSeq \in Nat /\ gaps \in Nat /\ calls \in Nat

-----------------------------------------------------------------------------
(* What holds whatever is lost or repeated.                                *)

\* What is under way to the client, and what of it is not a repeat.
Coming == {toClient[i] : i \in DOMAIN toClient}
Left   == {e \in Coming : e.seq > lastSeq}

\* The channel keeps the order, and one number is one event.
Ordered ==
  /\ lastSeq <= seq /\ (closed => toClient = <<>> /\ pending = <<>>)
  /\ \A e \in Coming : e.seq \in 1..seq
  /\ \A e, f \in Coming : e.seq = f.seq => e = f
  /\ \A i, j \in DOMAIN toClient : i <= j => toClient[i].seq <= toClient[j].seq

\* The two maps of the client agree.
Owners ==
  /\ \A pid \in DOMAIN owner :
       pid[1] = owner[pid] /\ owner[pid] \in DOMAIN pending /\ pid \in pending[owner[pid]].procs
  /\ \A id \in DOMAIN pending : \A pid \in pending[id].procs : pid[1] = id /\ pid \in DOMAIN owner

\* A call is in one place: its number tells it from the others.
CallsApart ==
  /\ DOMAIN outcomes \subseteq 1..calls
  /\ \A id \in DOMAIN pending : pending[id].call \in 1..calls \ DOMAIN outcomes
  /\ \A id \in DOMAIN jobs : jobs[id].call \in 1..calls
  /\ \A x, y \in DOMAIN pending : pending[x].call = pending[y].call => x = y
  /\ \A x, y \in DOMAIN jobs : jobs[x].call = jobs[y].call => x = y
  /\ \A x \in DOMAIN pending, y \in DOMAIN jobs : pending[x].call = jobs[y].call => x = y

Execs == {i \in DOMAIN toKernel : toKernel[i].kind = "exec"}

\* A submission on its way: whoever waits for its id waits for it, and no other
\* submission of that id is on its way.
Asked ==
  \A i \in Execs :
    /\ toKernel[i].call \in 1..calls
    /\ \A j \in Execs : toKernel[i].id = toKernel[j].id \/ toKernel[i].call = toKernel[j].call => i = j
    /\ \A id \in DOMAIN jobs : jobs[id].call # toKernel[i].call
    /\ \A id \in DOMAIN pending : pending[id].call = toKernel[i].call <=> id = toKernel[i].id
    /\ ~closed /\ toKernel[i].id \notin DOMAIN jobs => toKernel[i].call \notin DOMAIN outcomes

\* Each stage of a pipeline is live or has exited, once.
JobOK(j) ==
  /\ j.live \subseteq 1..j.n /\ IsInjective(j.exits)
  /\ \A k \in DOMAIN j.exits : j.exits[k] \in (1..j.n) \ j.live
  /\ IsFiniteSet(j.live) /\ Len(j.exits) + Cardinality(j.live) = j.n
JobsRun == \A id \in DOMAIN jobs : JobOK(jobs[id])

\* A request the kernel has not taken has nothing yet; one that reuses the id of
\* an earlier call does so after that was answered.
Fresh ==
  \A id \in DOMAIN pending \ DOMAIN jobs :
    pending[id].procs = {} /\ pending[id].exits = <<>> /\ pending[id].values = 0 /\ pending[id].errors = <<>>
Reuse ==
  \A id \in DOMAIN pending \cap DOMAIN jobs :
    jobs[id].call # pending[id].call => jobs[id].call \in DOMAIN outcomes

\* An event is of a request the kernel has taken; what is published alone is the last.
OfJobs ==
  \A e \in Coming :
    /\ e.id \in DOMAIN jobs
    /\ e.kind \in Named => e.pid \in {e.id} \X (1..jobs[e.id].n)
    /\ e.kind = "exit" => \E k \in DOMAIN jobs[e.id].exits : e.pid[2] = jobs[e.id].exits[k]
    /\ e.kind \in {"rejected", "objects", "stream"} => e.seq = seq

\* No exit comes twice, nor one that has been counted.
ExitsApart ==
  /\ \A e, f \in Coming : e.kind = "exit" /\ f.kind = "exit" /\ e.pid = f.pid => e = f
  /\ \A id \in DOMAIN pending :
       /\ IsInjective(pending[id].exits)
       /\ \A k \in DOMAIN pending[id].exits :
            /\ id \in DOMAIN jobs /\ pending[id].exits[k][1] = id
            /\ \E m \in DOMAIN jobs[id].exits : pending[id].exits[k][2] = jobs[id].exits[m]
            /\ \A e \in Left : e.kind = "exit" => e.pid # pending[id].exits[k]

Basics == /\ Typed /\ Ordered /\ Owners /\ CallsApart /\ Asked /\ JobsRun /\ Fresh /\ Reuse
          /\ OfJobs /\ ExitsApart

-----------------------------------------------------------------------------
(* What holds as long as nothing has been lost, or what was lost was sent twice. *)

Intact ==
  /\ gaps = 0 /\ ~closed
  /\ IF toClient = <<>> THEN lastSeq = seq ELSE toClient[1].seq <= lastSeq + 1

\* A request whose job this is.
Own(id) == id \in DOMAIN jobs /\ jobs[id].call = pending[id].call

\* A request that was answered is over.
Over ==
  \A id \in DOMAIN jobs : jobs[id].call \in DOMAIN outcomes =>
    jobs[id].live = {} /\ \A e \in Left : e.id = id => e.kind = "rejected"

\* What is refused has not run.
Refused ==
  \A e \in Left : e.kind = "rejected" /\ e.id \in DOMAIN pending /\ Own(e.id) => jobs[e.id].n = 0

\* How far behind the end an event is; how many exits the client has not heard of.
Ahead(e) == seq - e.seq
Missing(id) == Len(jobs[id].exits) - Len(pending[id].exits)

\* The exits that are missing are what comes last, each behind the news of its process.
ExitsCome(id) ==
  /\ Missing(id) >= 0 /\ (Missing(id) > 0 => seq - lastSeq >= 2 * Missing(id) - 1)
  /\ \A k \in DOMAIN pending[id].exits : pending[id].exits[k] = <<id, jobs[id].exits[k]>>
  /\ \A e \in Left : Ahead(e) < 2 * Missing(id) =>
       /\ e.id = id /\ e.kind = IF Ahead(e) % 2 = 0 THEN "exit" ELSE "process-changed"
       /\ e.pid = <<id, jobs[id].exits[Len(jobs[id].exits) - Ahead(e) \div 2]>>
  /\ \A e \in Left : e.id = id /\ Ahead(e) >= 2 * Missing(id) => e.kind # "exit"

\* A process is known, or will be before any exit comes.
ProcsCome(id) ==
  /\ pending[id].procs \subseteq {id} \X (1..jobs[id].n)
  /\ \A s \in 1..jobs[id].n :
       \/ <<id, s>> \in pending[id].procs
       \/ \E e \in Left : /\ Ahead(e) >= 2 * Missing(id)
                          /\ e.kind = "process-changed" /\ e.id = id /\ e.pid = <<id, s>>

\* Of the output nothing is missing but what comes last.
Lag(id, kind) == IF \E e \in Left : e.id = id /\ e.kind = kind THEN 1 ELSE 0
OutputComes(id) ==
  /\ jobs[id].values = pending[id].values + Lag(id, "objects")
  /\ Len(jobs[id].errors) = Len(pending[id].errors) + Lag(id, "stream")
  /\ \A k \in DOMAIN pending[id].errors : pending[id].errors[k] = <<id, jobs[id].errors[k]>>
  /\ \A e \in Left : e.id = id /\ e.kind = "stream" =>
       \E s \in 1..jobs[id].n : e.pid = <<id, s>> /\ jobs[id].errors[Len(jobs[id].errors)] = s

Awaited ==
  \A id \in DOMAIN pending : Own(id) /\ jobs[id].n > 0 =>
    ExitsCome(id) /\ ProcsCome(id) /\ OutputComes(id)

Faithful == Over /\ Refused /\ Awaited

\* A promise is settled once.
Once == \A c \in DOMAIN outcomes : Len(outcomes[c]) = 1 /\ IsInjective(outcomes[c][1].exits)

TransportInv == Basics /\ (Intact => Faithful) /\ Once /\ OutcomeIsWhole

TransportConstants == MaxStages \in Nat /\ MaxCalls \in Nat

-----------------------------------------------------------------------------
(* The channel.                                                            *)

\* The first event and the others.
LEMMA HeadOfClient ==
  ASSUME Typed, toClient # <<>>
  PROVE  /\ Len(toClient) \in Nat \ {0} /\ DOMAIN toClient = 1..Len(toClient) /\ 1 \in DOMAIN toClient
         /\ Head(toClient) = toClient[1] /\ Head(toClient) \in Coming /\ Head(toClient) \in Events
         /\ Tail(toClient) \in Seq(Events) /\ DOMAIN Tail(toClient) = 1..(Len(toClient) - 1)
         /\ \A i \in 1..(Len(toClient) - 1) : Tail(toClient)[i] = toClient[i + 1]
<1>1. toClient \in Seq(Events) /\ Len(toClient) \in Nat /\ DOMAIN toClient = 1..Len(toClient)
  BY DEF Typed
<1>2. Len(toClient) # 0 /\ Head(toClient) = toClient[1]
  BY <1>1
<1>3. 1 \in DOMAIN toClient /\ toClient[1] \in Events
  BY <1>1, <1>2
<1>4. Tail(toClient) \in Seq(Events) /\ Len(Tail(toClient)) = Len(toClient) - 1
      /\ \A i \in 1..(Len(toClient) - 1) : Tail(toClient)[i] = toClient[i + 1]
  BY <1>1, <1>2
<1>5. DOMAIN Tail(toClient) = 1..(Len(toClient) - 1)
  BY <1>4
<1>6. QED
  BY <1>1, <1>2, <1>3, <1>4, <1>5 DEF Coming

\* What is under way is events.
LEMMA ComingIs == ASSUME Typed PROVE Coming \subseteq Events /\ (toClient = <<>> => Coming = {})
BY DEF Typed, Coming

\* The first event leaves the channel, read or lost.
LEMMA Dropped ==
  ASSUME Typed, Ordered, toClient # <<>>, toClient' = Tail(toClient), seq' = seq
  PROVE  /\ toClient' \in Seq(Events) /\ Coming' \subseteq Coming
         /\ \A e \in Coming : e = Head(toClient) \/ e \in Coming'
         /\ \A e \in Coming : Head(toClient).seq <= e.seq
         /\ \A e \in Coming' : e.seq \in 1..seq'
         /\ \A e, f \in Coming' : e.seq = f.seq => e = f
         /\ \A i, j \in DOMAIN toClient' : i <= j => toClient'[i].seq <= toClient'[j].seq
         /\ toClient' # <<>> => toClient'[1] \in Coming
<1> DEFINE n == Len(toClient)
<1>1. /\ n \in Nat \ {0} /\ DOMAIN toClient = 1..n /\ Head(toClient) = toClient[1]
      /\ toClient' \in Seq(Events) /\ DOMAIN toClient' = 1..(n - 1)
      /\ \A i \in 1..(n - 1) : toClient'[i] = toClient[i + 1]
  BY HeadOfClient
<1> HIDE DEF n
<1>2. \A i \in 1..(n - 1) : i + 1 \in 1..n
  BY <1>1
<1>3. Coming' \subseteq Coming
  BY <1>1, <1>2 DEF Coming
<1>4. ASSUME NEW e \in Coming PROVE e = Head(toClient) \/ e \in Coming'
  <2>1. PICK i \in 1..n : e = toClient[i]
    BY <1>1 DEF Coming
  <2>2. CASE i = 1
    BY <1>1, <2>1, <2>2
  <2>3. CASE i # 1
    <3>1. i - 1 \in 1..(n - 1) /\ (i - 1) + 1 = i
      BY <1>1, <2>3
    <3>2. toClient'[i - 1] = e
      BY <1>1, <2>1, <3>1
    <3>3. QED
      BY <1>1, <3>1, <3>2 DEF Coming
  <2>4. QED
    BY <2>2, <2>3
<1>5. \A e \in Coming : Head(toClient).seq <= e.seq
  BY <1>1 DEF Coming, Ordered
<1>6. \A e \in Coming' : e.seq \in 1..seq'
  BY <1>3 DEF Ordered
<1>7. \A e, f \in Coming' : e.seq = f.seq => e = f
  BY <1>3 DEF Ordered
<1>8. ASSUME NEW i \in 1..(n - 1), NEW j \in 1..(n - 1), i <= j
      PROVE  toClient'[i].seq <= toClient'[j].seq
  <2>1. i + 1 \in 1..n /\ j + 1 \in 1..n /\ i + 1 <= j + 1
    BY <1>1, <1>2, <1>8
  <2>2. toClient[i + 1].seq <= toClient[j + 1].seq
    BY <1>1, <2>1 DEF Ordered
  <2>3. QED
    BY <1>1, <2>2
<1>9. toClient' # <<>> => toClient'[1] \in Coming'
  <2>1. SUFFICES ASSUME toClient' # <<>> PROVE toClient'[1] \in Coming'
    OBVIOUS
  <2>2. n - 1 # 0
    BY <1>1, <2>1
  <2>3. 1 \in 1..(n - 1)
    BY <1>1, <2>2
  <2>4. QED
    BY <1>1, <2>3 DEF Coming
<1>10. QED
  BY <1>1, <1>3, <1>4, <1>5, <1>6, <1>7, <1>8, <1>9

\* The far side hands the first event over again.
LEMMA Repeated ==
  ASSUME Typed, Ordered, toClient # <<>>, toClient' = <<Head(toClient)>> \o toClient, seq' = seq
  PROVE  /\ toClient' \in Seq(Events) /\ Coming' = Coming
         /\ toClient' # <<>> /\ toClient'[1] = toClient[1]
         /\ \A i, j \in DOMAIN toClient' : i <= j => toClient'[i].seq <= toClient'[j].seq
<1> DEFINE n == Len(toClient)
<1>1. /\ n \in Nat \ {0} /\ DOMAIN toClient = 1..n /\ Head(toClient) = toClient[1]
      /\ toClient[1] \in Events /\ toClient \in Seq(Events)
  BY HeadOfClient DEF Typed
<1>2. /\ toClient' \in Seq(Events) /\ Len(toClient') = n + 1 /\ toClient'[1] = toClient[1]
      /\ \A i \in 2..(n + 1) : toClient'[i] = toClient[i - 1]
  BY <1>1
<1> HIDE DEF n
<1>3. DOMAIN toClient' = 1..(n + 1) /\ toClient' # <<>>
  BY <1>1, <1>2
<1>4. \A i \in 1..(n + 1) : i = 1 \/ (i \in 2..(n + 1) /\ i - 1 \in 1..n)
  BY <1>1
<1>5. Coming' = Coming
  <2>1. ASSUME NEW i \in 1..(n + 1) PROVE toClient'[i] \in Coming
    <3>1. \E k \in 1..n : toClient'[i] = toClient[k]
      BY <1>1, <1>2, <1>4
    <3>2. QED
      BY <1>1, <3>1 DEF Coming
  <2>2. ASSUME NEW i \in 1..n PROVE toClient[i] \in Coming'
    <3>1. i + 1 \in 2..(n + 1) /\ i + 1 \in 1..(n + 1) /\ (i + 1) - 1 = i
      BY <1>1
    <3>2. toClient'[i + 1] = toClient[i]
      BY <1>2, <3>1
    <3>3. QED
      BY <1>3, <3>1, <3>2 DEF Coming
  <2>3. QED
    BY <1>1, <1>3, <2>1, <2>2 DEF Coming
<1>6. ASSUME NEW i \in 1..(n + 1), NEW j \in 1..(n + 1), i <= j
      PROVE  toClient'[i].seq <= toClient'[j].seq
  <2>1. CASE i = 1
    <3>1. PICK k \in 1..n : toClient'[j] = toClient[k]
      BY <1>1, <1>2, <1>4
    <3>2. 1 \in 1..n /\ 1 <= k
      BY <1>1
    <3>3. toClient[1].seq <= toClient[k].seq
      BY <1>1, <3>2 DEF Ordered
    <3>4. QED
      BY <1>2, <2>1, <3>1, <3>3
  <2>2. CASE i # 1
    <3>1. i \in 2..(n + 1) /\ j \in 2..(n + 1) /\ i - 1 \in 1..n /\ j - 1 \in 1..n /\ i - 1 <= j - 1
      BY <1>1, <1>6, <2>2
    <3>2. toClient[i - 1].seq <= toClient[j - 1].seq
      BY <1>1, <3>1 DEF Ordered
    <3>3. QED
      BY <1>2, <3>1, <3>2
  <2>3. QED
    BY <2>1, <2>2
<1>7. QED
  BY <1>2, <1>3, <1>5, <1>6

-----------------------------------------------------------------------------
(* What a client does with an event.                                       *)

\* #settle: the request leaves both maps, and its promise is settled for good.
LEMMA Settles ==
  ASSUME Basics, Once, NEW id \in DOMAIN pending \cap DOMAIN jobs, NEW o \in Results, IsInjective(o.exits),
         pending' = Without(pending, {id}), owner' = Without(owner, pending[id].procs),
         outcomes' = Settled(pending[id].call, o), UNCHANGED <<toKernel, jobs, calls, closed>>
  PROVE  /\ DOMAIN pending' = DOMAIN pending \ {id} /\ \A x \in DOMAIN pending' : pending'[x] = pending[x]
         /\ DOMAIN outcomes' = DOMAIN outcomes \cup {pending[id].call}
         /\ outcomes'[pending[id].call] = <<o>> /\ pending[id].call \notin DOMAIN outcomes
         /\ \A c \in DOMAIN outcomes : outcomes'[c] = outcomes[c]
         /\ pending' \in [DOMAIN pending' -> Waiting] /\ DOMAIN pending' \subseteq Ids
         /\ owner' \in [DOMAIN owner' -> Ids] /\ DOMAIN owner' \subseteq Pid
         /\ outcomes' \in [DOMAIN outcomes' -> Seq(Results)]
         /\ Owners' /\ CallsApart' /\ Asked' /\ JobsRun' /\ Fresh' /\ Reuse' /\ Once'
<1> DEFINE c == pending[id].call
<1>1. /\ DOMAIN pending' = DOMAIN pending \ {id} /\ \A x \in DOMAIN pending' : pending'[x] = pending[x]
      /\ DOMAIN owner' = DOMAIN owner \ pending[id].procs /\ \A x \in DOMAIN owner' : owner'[x] = owner[x]
      /\ pending' = [x \in DOMAIN pending' |-> pending'[x]] /\ owner' = [x \in DOMAIN owner' |-> owner'[x]]
  BY DEF Without
<1>2. c \in 1..calls /\ c \notin DOMAIN outcomes /\ pending[id] \in Waiting
  BY DEF Basics, CallsApart, Typed
<1> HIDE DEF c
<1>3. /\ DOMAIN outcomes' = DOMAIN outcomes \cup {c} /\ outcomes'[c] = <<o>>
      /\ \A d \in DOMAIN outcomes : outcomes'[d] = outcomes[d]
      /\ outcomes' = [d \in DOMAIN outcomes' |-> outcomes'[d]]
  <2>1. Append(<<>>, o) = <<o>>
    OBVIOUS
  <2>2. outcomes' = [x \in DOMAIN outcomes \cup {c} |-> IF x = c THEN <<o>> ELSE outcomes[x]]
    BY <1>2, <2>1 DEF Settled, With, c
  <2>3. QED
    BY <1>2, <2>2
<1>4. <<o>> \in Seq(Results) /\ Len(<<o>>) = 1 /\ <<o>>[1] = o
  OBVIOUS
<1>5. outcomes' \in [DOMAIN outcomes' -> Seq(Results)]
  BY <1>3, <1>4 DEF Basics, Typed
<1>6. /\ pending' \in [DOMAIN pending' -> Waiting] /\ DOMAIN pending' \subseteq Ids
      /\ owner' \in [DOMAIN owner' -> Ids] /\ DOMAIN owner' \subseteq Pid
  BY <1>1 DEF Basics, Typed
<1>7. Owners'
  <2>1. ASSUME NEW pid \in DOMAIN owner'
        PROVE  /\ pid[1] = owner'[pid] /\ owner'[pid] \in DOMAIN pending'
               /\ pid \in pending'[owner'[pid]].procs
    <3>1. pid \in DOMAIN owner /\ pid \notin pending[id].procs /\ owner'[pid] = owner[pid]
      BY <1>1
    <3>2. pid[1] = owner[pid] /\ owner[pid] \in DOMAIN pending /\ pid \in pending[owner[pid]].procs
      BY <3>1 DEF Basics, Owners
    <3>3. owner[pid] # id
      BY <3>1, <3>2
    <3>4. QED
      BY <1>1, <3>1, <3>2, <3>3
  <2>2. ASSUME NEW x \in DOMAIN pending', NEW pid \in pending'[x].procs
        PROVE  pid[1] = x /\ pid \in DOMAIN owner'
    <3>1. x \in DOMAIN pending /\ x # id /\ pid \in pending[x].procs
      BY <1>1
    <3>2. pid[1] = x /\ pid \in DOMAIN owner
      BY <3>1 DEF Basics, Owners
    <3>3. pid \notin pending[id].procs
      BY <3>1, <3>2 DEF Basics, Owners
    <3>4. QED
      BY <1>1, <3>2, <3>3
  <2>3. QED
    BY <2>1, <2>2 DEF Owners
<1>8. CallsApart'
  <2>1. \A x \in DOMAIN pending' : x \in DOMAIN pending /\ x # id /\ pending'[x].call = pending[x].call
    BY <1>1
  <2>2. \A x \in DOMAIN pending' : pending'[x].call \in 1..calls' \ DOMAIN outcomes'
    BY <1>3, <2>1 DEF Basics, CallsApart, c
  <2>3. DOMAIN outcomes' \subseteq 1..calls'
    BY <1>2, <1>3 DEF Basics, CallsApart
  <2>4. \A x, y \in DOMAIN pending' : pending'[x].call = pending'[y].call => x = y
    BY <2>1 DEF Basics, CallsApart
  <2>5. ASSUME NEW x \in DOMAIN pending', NEW y \in DOMAIN jobs, pending'[x].call = jobs[y].call
        PROVE  x = y
    <3>1. x \in DOMAIN pending /\ pending[x].call = jobs[y].call
      BY <2>1, <2>5
    <3>2. QED
      BY <3>1 DEF Basics, CallsApart
  <2>6. /\ \A x \in DOMAIN jobs : jobs[x].call \in 1..calls
        /\ \A x, y \in DOMAIN jobs : jobs[x].call = jobs[y].call => x = y
    BY DEF Basics, CallsApart
  <2>7. QED
    BY <2>2, <2>3, <2>4, <2>5, <2>6 DEF CallsApart
<1>9. Asked'
  <2>1. ASSUME NEW i \in Execs, toKernel[i].id \notin DOMAIN jobs PROVE toKernel[i].call # c
    BY <2>1 DEF Basics, Asked, c
  <2>2. Execs' = Execs
    BY DEF Execs
  <2>3. ASSUME NEW i \in Execs, ~closed', toKernel[i].id \notin DOMAIN jobs
        PROVE  toKernel[i].call \notin DOMAIN outcomes'
    BY <1>3, <2>1, <2>3 DEF Basics, Asked
  <2>4. \A x \in DOMAIN pending' : x \in DOMAIN pending /\ pending'[x].call = pending[x].call
    BY <1>1
  <2>5. ASSUME NEW i \in Execs, NEW x \in DOMAIN pending'
        PROVE  pending'[x].call = toKernel[i].call <=> x = toKernel[i].id
    BY <2>4 DEF Basics, Asked
  <2>6. ASSUME NEW i \in Execs
        PROVE  /\ toKernel[i].call \in 1..calls /\ \A x \in DOMAIN jobs : jobs[x].call # toKernel[i].call
               /\ \A j \in Execs : toKernel[i].id = toKernel[j].id \/ toKernel[i].call = toKernel[j].call => i = j
    BY DEF Basics, Asked
  <2>7. QED
    BY <2>2, <2>3, <2>5, <2>6 DEF Asked
<1>10. JobsRun' /\ Fresh' /\ Reuse'
  BY <1>1, <1>3 DEF Basics, JobsRun, Fresh, Reuse
<1>11. Once'
  BY <1>3, <1>4 DEF Once
<1>12. QED
  BY <1>1, <1>2, <1>3, <1>5, <1>6, <1>7, <1>8, <1>9, <1>10, <1>11 DEF c

\* An event adds to what has arrived for a request that is waited for.
LEMMA Learns ==
  ASSUME Basics, Once, NEW id \in DOMAIN pending \cap DOMAIN jobs, NEW q \in Waiting,
         q.call = pending[id].call, pending' = [pending EXCEPT ![id] = q],
         \/ owner' = owner /\ q.procs = pending[id].procs
         \/ \E pid \in Pid : /\ pid[1] = id /\ owner' = With(owner, pid, id)
                             /\ q.procs = pending[id].procs \cup {pid},
         UNCHANGED <<outcomes, toKernel, jobs, calls, closed>>
  PROVE  /\ DOMAIN pending' = DOMAIN pending /\ pending'[id] = q
         /\ \A x \in DOMAIN pending : x # id => pending'[x] = pending[x]
         /\ pending' \in [DOMAIN pending' -> Waiting] /\ DOMAIN pending' \subseteq Ids
         /\ owner' \in [DOMAIN owner' -> Ids] /\ DOMAIN owner' \subseteq Pid
         /\ Owners' /\ CallsApart' /\ Asked' /\ JobsRun' /\ Fresh' /\ Reuse' /\ Once'
<1>1. /\ DOMAIN pending' = DOMAIN pending /\ pending'[id] = q
      /\ \A x \in DOMAIN pending : x # id => pending'[x] = pending[x]
      /\ pending' = [x \in DOMAIN pending' |-> pending'[x]]
  BY DEF Basics, Typed
<1>2. pending' \in [DOMAIN pending' -> Waiting] /\ DOMAIN pending' \subseteq Ids
  BY <1>1 DEF Basics, Typed
<1>3. \A x \in DOMAIN pending : pending'[x].call = pending[x].call
  BY <1>1
<1>4. /\ owner' \in [DOMAIN owner' -> Ids] /\ DOMAIN owner' \subseteq Pid /\ Owners'
  <2>1. CASE owner' = owner /\ q.procs = pending[id].procs
    <3>1. \A x \in DOMAIN pending : pending'[x].procs = pending[x].procs
      BY <1>1, <2>1
    <3>2. QED
      BY <1>1, <2>1, <3>1 DEF Basics, Typed, Owners
  <2>2. CASE \E pid \in Pid : /\ pid[1] = id /\ owner' = With(owner, pid, id)
                              /\ q.procs = pending[id].procs \cup {pid}
    <3>1. PICK pid \in Pid : /\ pid[1] = id /\ owner' = With(owner, pid, id)
                             /\ q.procs = pending[id].procs \cup {pid}
      BY <2>2
    <3>2. /\ DOMAIN owner' = DOMAIN owner \cup {pid} /\ owner'[pid] = id
          /\ \A x \in DOMAIN owner : x # pid => owner'[x] = owner[x]
          /\ owner' = [x \in DOMAIN owner' |-> owner'[x]]
      BY <3>1 DEF With
    <3>3. owner' \in [DOMAIN owner' -> Ids] /\ DOMAIN owner' \subseteq Pid
      BY <3>2 DEF Basics, Typed
    <3>4. ASSUME NEW x \in DOMAIN owner'
          PROVE  x[1] = owner'[x] /\ owner'[x] \in DOMAIN pending' /\ x \in pending'[owner'[x]].procs
      BY <1>1, <3>1, <3>2 DEF Basics, Owners
    <3>5. ASSUME NEW x \in DOMAIN pending', NEW y \in pending'[x].procs
          PROVE  y[1] = x /\ y \in DOMAIN owner'
      BY <1>1, <3>1, <3>2 DEF Basics, Owners
    <3>6. QED
      BY <3>3, <3>4, <3>5 DEF Owners
  <2>3. QED
    BY <2>1, <2>2
<1>5. CallsApart'
  BY <1>1, <1>3 DEF Basics, CallsApart
<1>6. Asked'
  <2>1. Execs' = Execs
    BY DEF Execs
  <2>2. QED
    BY <1>1, <1>3, <2>1 DEF Basics, Asked
<1>7. JobsRun' /\ Fresh' /\ Reuse' /\ Once'
  BY <1>1, <1>3 DEF Basics, JobsRun, Fresh, Reuse, Once
<1>8. QED
  BY <1>1, <1>2, <1>4, <1>5, <1>6, <1>7

\* What #receive does to the channel and to the kernel's side, whatever the event.
LEMMA Received ==
  ASSUME Basics, Receive, NEW e, e = Head(toClient)
  PROVE  /\ e \in Coming /\ e \in Events /\ toClient' \in Seq(Events) /\ ~closed
         /\ lastSeq' \in Nat /\ gaps' \in Nat /\ Ordered' /\ OfJobs' /\ (gaps' = 0 => gaps = 0)
         /\ Coming' \subseteq Coming /\ Left' \subseteq Left
         /\ e.seq > lastSeq => e \in Left /\ e \notin Left'
         /\ gaps' = 0 => /\ Intact /\ e.seq = lastSeq + 1 /\ lastSeq' = lastSeq + 1 /\ e \in Left
                         /\ Left' = Left \ {e}
<1>1. /\ toClient # <<>> /\ toClient' = Tail(toClient) /\ UNCHANGED <<toKernel, jobs, seq, forgone, closed>>
      /\ \/ e.seq <= lastSeq /\ gaps' = gaps + 1 /\ lastSeq' = lastSeq
         \/ /\ ~(e.seq <= lastSeq) /\ lastSeq' = e.seq
            /\ gaps' = IF e.seq > lastSeq + 1 THEN gaps + 1 ELSE gaps
  BY DEF Receive, kernelVars
<1>2. /\ Typed /\ Ordered /\ OfJobs /\ lastSeq \in Nat /\ seq \in Nat /\ gaps \in Nat /\ ~closed
  BY <1>1 DEF Basics, Typed, Ordered
<1>3. e \in Coming /\ e \in Events
  BY <1>1, <1>2, HeadOfClient
<1>4. e.seq \in 1..seq
  BY <1>2, <1>3 DEF Ordered
<1>5. /\ toClient' \in Seq(Events) /\ Coming' \subseteq Coming
      /\ \A f \in Coming : f = e \/ f \in Coming'
      /\ \A f \in Coming : e.seq <= f.seq
      /\ \A f \in Coming' : f.seq \in 1..seq'
      /\ \A f, g \in Coming' : f.seq = g.seq => f = g
      /\ \A i, j \in DOMAIN toClient' : i <= j => toClient'[i].seq <= toClient'[j].seq
  BY <1>1, <1>2, Dropped
<1>6. lastSeq' \in Nat /\ gaps' \in Nat /\ lastSeq <= lastSeq' /\ lastSeq' <= seq
  BY <1>1, <1>2, <1>4 DEF Ordered
<1>7. Ordered'
  BY <1>1, <1>2, <1>5, <1>6 DEF Ordered
<1>8. OfJobs'
  BY <1>1, <1>2, <1>5 DEF OfJobs
<1>9. Left' \subseteq Left
  <2>1. \A f \in Coming' : f \in Coming /\ f.seq \in Nat
    BY <1>2, <1>5 DEF Ordered
  <2>2. QED
    BY <1>2, <1>6, <2>1 DEF Left
<1>10. e.seq > lastSeq => e \in Left /\ e \notin Left'
  BY <1>1, <1>2, <1>3, <1>4 DEF Left
<1>11. ASSUME gaps' = 0
       PROVE  /\ Intact /\ e.seq = lastSeq + 1 /\ lastSeq' = lastSeq + 1 /\ e \in Left /\ Left' = Left \ {e}
  <2>1. gaps' = 0
    BY <1>11
  <2>2. e.seq = lastSeq + 1 /\ lastSeq' = lastSeq + 1 /\ gaps = 0
    BY <1>1, <1>2, <1>4, <2>1
  <2>3. toClient[1] = e
    BY <1>1, <1>2, HeadOfClient
  <2>4. Intact
    BY <1>1, <1>2, <2>2, <2>3 DEF Intact
  <2>5. e \in Left /\ e \notin Left'
    BY <1>2, <1>10, <2>2
  <2>6. ASSUME NEW f \in Left, f # e PROVE f \in Left'
    <3>1. f \in Coming /\ f \in Coming' /\ f.seq \in Nat /\ f.seq > lastSeq
      BY <1>2, <1>5, <2>6 DEF Left, Ordered
    <3>2. f.seq # e.seq
      BY <1>2, <1>3, <2>6, <3>1 DEF Ordered
    <3>3. f.seq > lastSeq'
      BY <1>2, <2>2, <3>1, <3>2
    <3>4. QED
      BY <3>1, <3>3 DEF Left
  <2>7. QED
    BY <1>9, <2>2, <2>4, <2>5, <2>6
<1>12. QED
  BY <1>1, <1>2, <1>3, <1>5, <1>6, <1>7, <1>8, <1>9, <1>10, <1>11

\* An event that is not about a request leaves what that request still waits for.
LEMMA OthersWait ==
  ASSUME Basics, NEW id \in DOMAIN pending, id \in DOMAIN jobs, ExitsCome(id), ProcsCome(id), OutputComes(id),
         NEW e \in Left, e.seq = lastSeq + 1, e.id # id, lastSeq' = lastSeq + 1, Left' = Left \ {e},
         seq' = seq, jobs' = jobs, pending'[id] = pending[id]
  PROVE  ExitsCome(id)' /\ ProcsCome(id)' /\ OutputComes(id)'
<1>1. /\ seq \in Nat /\ lastSeq \in Nat /\ e.seq \in Nat
      /\ jobs[id].exits \in Seq(Nat) /\ pending[id].exits \in Seq(Pid)
  BY DEF Basics, Typed, Transcripts, Waiting, Left, Coming, Ordered
<1>2. Len(jobs[id].exits) \in Nat /\ Len(pending[id].exits) \in Nat
  BY <1>1
<1>3. Missing(id)' = Missing(id) /\ Missing(id) \in Int
  BY <1>2 DEF Missing
<1>4. \A f : Ahead(f)' = Ahead(f)
  BY DEF Ahead
<1>5. Missing(id) > 0 => seq' - lastSeq' >= 2 * Missing(id) - 1
  <2> DEFINE m == Missing(id)
  <2>1. SUFFICES ASSUME m > 0 PROVE seq - (lastSeq + 1) >= 2 * m - 1
    OBVIOUS
  <2>2. seq - lastSeq >= 2 * m - 1 /\ m \in Int
    BY <1>3, <2>1 DEF ExitsCome
  <2>3. ~(Ahead(e) < 2 * m)
    BY DEF ExitsCome
  <2>4. Ahead(e) = seq - (lastSeq + 1)
    BY DEF Ahead
  <2> HIDE DEF m
  <2>5. QED
    BY <1>1, <2>2, <2>3, <2>4
<1>6. ExitsCome(id)'
  <2>1. \A f \in Left' : Ahead(f) < 2 * Missing(id) =>
          /\ f.id = id /\ f.kind = IF Ahead(f) % 2 = 0 THEN "exit" ELSE "process-changed"
          /\ f.pid = <<id, jobs[id].exits[Len(jobs[id].exits) - Ahead(f) \div 2]>>
    BY DEF ExitsCome
  <2>2. QED
    BY <1>3, <1>4, <1>5, <2>1 DEF ExitsCome
<1>7. ProcsCome(id)'
  BY <1>3, <1>4 DEF ProcsCome
<1>8. \A kind : Lag(id, kind)' = Lag(id, kind)
  BY DEF Lag
<1>9. OutputComes(id)'
  BY <1>8 DEF OutputComes
<1>10. QED
  BY <1>6, <1>7, <1>9

\* The next event of a request that is waited for, and what it says of the rest.
LEMMA NextOfRequest ==
  ASSUME Basics, Intact, Faithful, NEW e \in Left, e.seq = lastSeq + 1, e.id \in DOMAIN pending,
         e.kind # "rejected"
  PROVE  /\ e.id \in DOMAIN jobs /\ Own(e.id)
         /\ jobs[e.id].n > 0 => ExitsCome(e.id) /\ ProcsCome(e.id) /\ OutputComes(e.id)
         /\ e.kind = "exit" => jobs[e.id].n > 0
<1>1. e \in Coming /\ e.id \in DOMAIN jobs
  BY DEF Left, Basics, OfJobs
<1>2. Own(e.id)
  BY <1>1 DEF Basics, Reuse, Faithful, Over, Own
<1>3. e.kind = "exit" => jobs[e.id].n > 0
  <2>1. SUFFICES ASSUME e.kind = "exit" PROVE jobs[e.id].n > 0
    OBVIOUS
  <2>2. PICK k \in DOMAIN jobs[e.id].exits : e.pid[2] = jobs[e.id].exits[k]
    BY <1>1, <2>1 DEF Basics, OfJobs
  <2>3. jobs[e.id].exits[k] \in 1..jobs[e.id].n /\ jobs[e.id].n \in Nat
    BY <1>1, <2>2 DEF Basics, JobsRun, JobOK, Typed, Transcripts
  <2>4. QED
    BY <2>3
<1>4. QED
  BY <1>1, <1>2, <1>3 DEF Faithful, Awaited

\* What is published alone is all that is left, and finds the request caught up.
LEMMA LastAlone ==
  ASSUME Basics, NEW e \in Left, e.seq = lastSeq + 1, e.kind \in {"rejected", "objects", "stream"}
  PROVE  /\ e.seq = seq /\ Left = {e}
         /\ \A id \in DOMAIN pending : id \in DOMAIN jobs /\ ExitsCome(id) /\ ProcsCome(id) =>
              Missing(id) = 0 /\ pending[id].procs = {id} \X (1..jobs[id].n)
<1>1. e \in Coming /\ seq \in Nat /\ lastSeq \in Nat
  BY DEF Left, Basics, Typed
<1>2. e.seq = seq
  BY <1>1 DEF Basics, OfJobs
<1>3. ASSUME NEW f \in Left PROVE f = e
  <2>1. f \in Coming /\ f.seq \in 1..seq /\ f.seq > lastSeq
    BY DEF Left, Basics, Ordered
  <2>2. f.seq = e.seq
    BY <1>1, <1>2, <2>1
  <2>3. QED
    BY <1>1, <2>1, <2>2 DEF Basics, Ordered
<1>4. ASSUME NEW id \in DOMAIN pending, id \in DOMAIN jobs, ExitsCome(id), ProcsCome(id)
      PROVE  Missing(id) = 0 /\ pending[id].procs = {id} \X (1..jobs[id].n)
  <2> DEFINE m == Missing(id)
  <2>1. m \in Int
    <3>1. jobs[id].exits \in Seq(Nat) /\ pending[id].exits \in Seq(Pid)
      BY <1>4 DEF Basics, Typed, Transcripts, Waiting
    <3>2. QED
      BY <3>1 DEF Missing
  <2>2. m >= 0 /\ (m > 0 => seq - lastSeq >= 2 * m - 1)
    BY <1>4 DEF ExitsCome
  <2>3. Ahead(e) = 0
    BY <1>1, <1>2 DEF Ahead
  <2>4. ~(0 < 2 * m)
    <3>1. SUFFICES ASSUME 0 < 2 * m PROVE FALSE
      OBVIOUS
    <3>2. e.kind = IF Ahead(e) % 2 = 0 THEN "exit" ELSE "process-changed"
      BY <1>4, <2>3, <3>1 DEF ExitsCome
    <3>3. QED
      BY <3>2
  <2>5. m = 0
    <3> HIDE DEF m
    <3>1. QED
      BY <2>1, <2>2, <2>4
  <2>6. ASSUME NEW s \in 1..jobs[id].n PROVE <<id, s>> \in pending[id].procs
    BY <1>3, <1>4 DEF ProcsCome
  <2>7. QED
    BY <1>4, <2>5, <2>6 DEF ProcsCome
<1>5. QED
  BY <1>2, <1>3, <1>4

\* The exits a request has counted stay apart from those to come.
LEMMA ExitsStay ==
  ASSUME Basics, Coming' \subseteq Coming, Left' \subseteq Left, jobs' = jobs,
         DOMAIN pending' \subseteq DOMAIN pending,
         \A x \in DOMAIN pending' : pending'[x].exits = pending[x].exits
  PROVE  ExitsApart'
<1>1. \A e, f \in Coming' : e.kind = "exit" /\ f.kind = "exit" /\ e.pid = f.pid => e = f
  BY DEF Basics, ExitsApart
<1>2. ASSUME NEW id \in DOMAIN pending'
      PROVE  /\ IsInjective(pending'[id].exits)
             /\ \A k \in DOMAIN pending'[id].exits :
                  /\ id \in DOMAIN jobs' /\ pending'[id].exits[k][1] = id
                  /\ \E m \in DOMAIN jobs'[id].exits : pending'[id].exits[k][2] = jobs'[id].exits[m]
                  /\ \A e \in Left' : e.kind = "exit" => e.pid # pending'[id].exits[k]
  BY DEF Basics, ExitsApart
<1>3. QED
  BY <1>1, <1>2 DEF ExitsApart

\* What an answered call says of its request stays true while the jobs stay.
LEMMA WholeStays ==
  ASSUME OutcomeIsWhole, jobs' = jobs, outcomes' = outcomes, gaps' = 0 => gaps = 0
  PROVE  OutcomeIsWhole'
BY DEF OutcomeIsWhole

\* A repeat, and an event that nobody waits for.
LEMMA NotDelivered ==
  ASSUME TransportInv, Receive, NEW e, e = Head(toClient), UNCHANGED <<pending, owner, outcomes>>,
         \/ e.seq <= lastSeq
         \/ e.id \notin DOMAIN pending
         \/ e.kind = "stream" /\ ~(e.pid \in DOMAIN owner /\ owner[e.pid] \in DOMAIN pending)
  PROVE  TransportInv'
<1>1. Basics /\ UNCHANGED <<toKernel, jobs, seq, forgone, closed, calls>>
  BY DEF TransportInv, Receive, kernelVars
<1>2. /\ toClient' \in Seq(Events) /\ lastSeq' \in Nat /\ gaps' \in Nat /\ Ordered' /\ OfJobs'
      /\ Coming' \subseteq Coming /\ Left' \subseteq Left /\ (gaps' = 0 => gaps = 0)
      /\ gaps' = 0 => /\ Intact /\ e.seq = lastSeq + 1 /\ lastSeq' = lastSeq + 1 /\ e \in Left
                      /\ Left' = Left \ {e}
  BY <1>1, Received
<1>3. Typed'
  BY <1>1, <1>2 DEF Basics, Typed
<1>4. Owners' /\ CallsApart' /\ Asked' /\ JobsRun' /\ Fresh' /\ Reuse'
  BY <1>1 DEF Basics, Owners, CallsApart, Asked, Execs, JobsRun, Fresh, Reuse
<1>5. ExitsApart'
  BY <1>1, <1>2, ExitsStay
<1>6. Basics'
  BY <1>2, <1>3, <1>4, <1>5 DEF Basics
<1>7. Once' /\ OutcomeIsWhole'
  BY <1>1, <1>2, WholeStays DEF TransportInv, Once
<1>8. ASSUME Intact' PROVE Faithful'
  <2>1. /\ Faithful /\ Intact /\ e.seq = lastSeq + 1 /\ lastSeq' = lastSeq + 1 /\ e \in Left
        /\ Left' = Left \ {e} /\ seq \in Nat /\ lastSeq \in Nat
    BY <1>1, <1>2, <1>8 DEF TransportInv, Basics, Typed, Intact
  <2>2. Over' /\ Refused'
    BY <1>1, <2>1 DEF Faithful, Over, Refused, Own
  <2>3. ASSUME NEW id \in DOMAIN pending, Own(id), jobs[id].n > 0
        PROVE  ExitsCome(id)' /\ ProcsCome(id)' /\ OutputComes(id)'
    <3>1. id \in DOMAIN jobs /\ ExitsCome(id) /\ ProcsCome(id) /\ OutputComes(id)
      BY <2>1, <2>3 DEF Faithful, Awaited, Own
    <3>2. CASE e.id # id
      BY <1>1, <2>1, <3>1, <3>2, OthersWait
    <3>3. CASE e.id = id
      <4>1. e.kind = "stream" /\ ~(e.pid \in DOMAIN owner /\ owner[e.pid] \in DOMAIN pending)
        BY <2>1, <3>3
      <4>2. pending[id].procs = {id} \X (1..jobs[id].n)
        BY <1>1, <2>1, <3>1, <4>1, LastAlone
      <4>3. PICK s \in 1..jobs[id].n : e.pid = <<id, s>>
        BY <2>1, <3>1, <3>3, <4>1 DEF OutputComes
      <4>4. e.pid \in pending[id].procs
        BY <4>2, <4>3
      <4>5. QED
        BY <1>1, <4>1, <4>4 DEF Basics, Owners
    <3>4. QED
      BY <3>2, <3>3
  <2>4. Awaited'
    BY <1>1, <2>3 DEF Awaited, Own
  <2>5. QED
    BY <2>2, <2>4 DEF Faithful
<1>9. QED
  BY <1>6, <1>7, <1>8 DEF TransportInv

\* The next exit: its process's place in the order, and what is known by then.
LEMMA ExitNext ==
  ASSUME Basics, NEW id \in DOMAIN pending, id \in DOMAIN jobs, ExitsCome(id), ProcsCome(id),
         NEW e \in Left, e.seq = lastSeq + 1, e.id = id, e.kind = "exit"
  PROVE  /\ Missing(id) \in Nat \ {0} /\ seq - lastSeq = 2 * Missing(id) - 1
         /\ Ahead(e) = 2 * Missing(id) - 2
         /\ e.pid = <<id, jobs[id].exits[Len(pending[id].exits) + 1]>>
         /\ pending[id].procs = {id} \X (1..jobs[id].n)
         /\ \A f \in Left : Ahead(f) <= 2 * Missing(id) - 2
<1> DEFINE m == Missing(id)
           a == Ahead(e)
           k == Len(jobs[id].exits)
           l == Len(pending[id].exits)
<1>1. /\ k \in Nat /\ l \in Nat /\ m = k - l /\ m \in Int
  <2>1. jobs[id].exits \in Seq(Nat) /\ pending[id].exits \in Seq(Pid)
    BY DEF Basics, Typed, Transcripts, Waiting
  <2>2. QED
    BY <2>1 DEF Missing
<1>2. seq \in Nat /\ lastSeq \in Nat /\ a = seq - (lastSeq + 1)
  BY DEF Basics, Typed, Ahead
<1>3. /\ m >= 0 /\ (m > 0 => seq - lastSeq >= 2 * m - 1)
      /\ ~(a >= 2 * m)
  BY DEF ExitsCome
<1>4. a \in Int /\ a < 2 * m
  <2> HIDE DEF a, m, k, l
  <2>1. QED
    BY <1>1, <1>2, <1>3
<1>5. a % 2 = 0 /\ e.pid = <<id, jobs[id].exits[k - a \div 2]>>
  BY <1>4 DEF ExitsCome
<1>6. /\ m \in Nat \ {0} /\ seq - lastSeq = 2 * m - 1 /\ a = 2 * m - 2 /\ k - a \div 2 = l + 1
  <2> HIDE DEF a, m, k, l
  <2>1. m > 0 /\ seq - lastSeq >= 2 * m - 1
    <3>1. m # 0
      <4>1. SUFFICES ASSUME m = 0 PROVE FALSE
        OBVIOUS
      <4>2. seq >= lastSeq + 1
        BY DEF Left, Basics, Ordered
      <4>3. QED
        BY <1>2, <1>4, <4>1, <4>2
    <3>2. QED
      BY <1>1, <1>3, <3>1
  <2>2. a >= 2 * m - 2
    BY <1>1, <1>2, <2>1
  <2>3. a = 2 * m - 2
    BY <1>1, <1>4, <1>5, <2>2
  <2>4. a \div 2 = m - 1
    BY <1>1, <2>3
  <2>5. QED
    BY <1>1, <1>2, <2>1, <2>3, <2>4
<1>7. ASSUME NEW f \in Left PROVE Ahead(f) <= 2 * m - 2
  <2>1. f.seq \in Nat /\ f.seq > lastSeq /\ Ahead(f) = seq - f.seq
    BY DEF Left, Basics, Ordered, Ahead
  <2>2. seq - lastSeq = 2 * m - 1
    BY <1>6
  <2> HIDE DEF m, k, l
  <2>3. QED
    BY <1>1, <1>2, <2>1, <2>2
<1>8. ASSUME NEW s \in 1..jobs[id].n PROVE <<id, s>> \in pending[id].procs
  <2>1. SUFFICES ASSUME NEW f \in Left, Ahead(f) >= 2 * m PROVE FALSE
    BY DEF ProcsCome
  <2>2. Ahead(f) <= 2 * m - 2 /\ Ahead(f) \in Int
    BY <1>2, <1>7 DEF Ahead, Left, Basics, Ordered
  <2> HIDE DEF m, k, l
  <2>3. QED
    BY <1>1, <2>1, <2>2
<1>9. pending[id].procs = {id} \X (1..jobs[id].n)
  BY <1>8 DEF ProcsCome
<1>10. QED
  BY <1>5, <1>6, <1>7, <1>9

\* An event that adds to a request keeps everything, if what it says is true.
LEMMA Told ==
  ASSUME TransportInv, Receive, NEW e, e = Head(toClient), e.seq > lastSeq,
         NEW q \in Waiting, e.id \in DOMAIN pending,
         q.call = pending[e.id].call, pending' = [pending EXCEPT ![e.id] = q], outcomes' = outcomes,
         \/ owner' = owner /\ q.procs = pending[e.id].procs
         \/ \E pid \in Pid : /\ pid[1] = e.id /\ owner' = With(owner, pid, e.id)
                             /\ q.procs = pending[e.id].procs \cup {pid},
         \/ q.exits = pending[e.id].exits
         \/ e.kind = "exit" /\ q.exits = Append(pending[e.id].exits, e.pid),
         ASSUME gaps' = 0, e \in Left, e.seq = lastSeq + 1, lastSeq' = lastSeq + 1, Left' = Left \ {e},
                Intact, e.id \in DOMAIN jobs, Own(e.id), jobs[e.id].n > 0,
                pending'[e.id] = q, jobs' = jobs, seq' = seq
         PROVE  ExitsCome(e.id)' /\ ProcsCome(e.id)' /\ OutputComes(e.id)'
  PROVE  TransportInv'
<1> DEFINE id == e.id
           p == pending[id]
<1>1. Basics /\ Once /\ UNCHANGED <<toKernel, jobs, seq, forgone, closed, calls>>
  BY DEF TransportInv, Receive, kernelVars
<1>2. /\ toClient' \in Seq(Events) /\ lastSeq' \in Nat /\ gaps' \in Nat /\ Ordered' /\ OfJobs'
      /\ Coming' \subseteq Coming /\ Left' \subseteq Left /\ (gaps' = 0 => gaps = 0)
      /\ e \in Coming /\ e \in Left /\ e \notin Left'
      /\ gaps' = 0 => /\ Intact /\ e.seq = lastSeq + 1 /\ lastSeq' = lastSeq + 1 /\ Left' = Left \ {e}
  BY <1>1, Received
<1>3. id \in DOMAIN pending \cap DOMAIN jobs
  BY <1>1, <1>2 DEF Basics, OfJobs
<1>4. /\ DOMAIN pending' = DOMAIN pending /\ pending'[id] = q
      /\ \A x \in DOMAIN pending : x # id => pending'[x] = pending[x]
      /\ pending' \in [DOMAIN pending' -> Waiting] /\ DOMAIN pending' \subseteq Ids
      /\ owner' \in [DOMAIN owner' -> Ids] /\ DOMAIN owner' \subseteq Pid
      /\ Owners' /\ CallsApart' /\ Asked' /\ JobsRun' /\ Fresh' /\ Reuse' /\ Once'
  BY <1>1, <1>3, Learns
<1>5. Typed'
  BY <1>1, <1>2, <1>4 DEF Basics, Typed
<1>6. ExitsApart'
  <2>1. CASE q.exits = p.exits
    <3>1. \A x \in DOMAIN pending' : pending'[x].exits = pending[x].exits
      BY <1>4, <2>1
    <3>2. QED
      BY <1>1, <1>2, <1>4, <3>1, ExitsStay
  <2>2. CASE e.kind = "exit" /\ q.exits = Append(p.exits, e.pid)
    <3>1. \A f, g \in Coming' : f.kind = "exit" /\ g.kind = "exit" /\ f.pid = g.pid => f = g
      BY <1>1, <1>2 DEF Basics, ExitsApart
    <3>2. ASSUME NEW x \in DOMAIN pending, x # id
          PROVE  /\ IsInjective(pending'[x].exits)
                 /\ \A k \in DOMAIN pending'[x].exits :
                      /\ x \in DOMAIN jobs /\ pending'[x].exits[k][1] = x
                      /\ \E m \in DOMAIN jobs[x].exits : pending'[x].exits[k][2] = jobs[x].exits[m]
                      /\ \A f \in Left' : f.kind = "exit" => f.pid # pending'[x].exits[k]
      BY <1>1, <1>2, <1>4, <3>2 DEF Basics, ExitsApart
    <3>3. /\ p.exits \in Seq(Pid) /\ Len(q.exits) = Len(p.exits) + 1 /\ q.exits[Len(p.exits) + 1] = e.pid
          /\ \A k \in 1..Len(p.exits) : q.exits[k] = p.exits[k] /\ k \in DOMAIN p.exits
          /\ q.exits \in Seq(Pid)
      <4>1. p.exits \in Seq(Pid) /\ e.pid \in Pid
        <5>1. e.pid \in {id} \X (1..jobs[id].n) /\ id \in Ids
          BY <1>1, <1>2, <1>3, <2>2 DEF Basics, OfJobs, Named, Typed
        <5>2. jobs[id].n \in Nat /\ p \in Waiting
          BY <1>1, <1>3 DEF Basics, Typed, Transcripts
        <5>3. e.pid \in Pid
          BY <5>1, <5>2 DEF Pid
        <5>4. QED
          BY <5>2, <5>3 DEF Waiting
      <4>2. QED
        BY <2>2, <4>1
    <3>4. \A k \in DOMAIN q.exits : k \in 1..Len(p.exits) \/ k = Len(p.exits) + 1
      BY <3>3
    <3>5. /\ e.pid[1] = id /\ \E m \in DOMAIN jobs[id].exits : e.pid[2] = jobs[id].exits[m]
          /\ \A f \in Left' : f.kind = "exit" => f.pid # e.pid
      <4>1. e.pid \in {id} \X (1..jobs[id].n) /\ \E m \in DOMAIN jobs[id].exits : e.pid[2] = jobs[id].exits[m]
        BY <1>1, <1>2, <2>2 DEF Basics, OfJobs, Named
      <4>2. \A f \in Left' : f \in Coming /\ f # e
        BY <1>2 DEF Left
      <4>3. \A f \in Left' : f.kind = "exit" => f.pid # e.pid
        BY <1>1, <1>2, <2>2, <4>2 DEF Basics, ExitsApart
      <4>4. QED
        BY <4>1, <4>3
    <3>6. /\ IsInjective(p.exits)
          /\ \A k \in DOMAIN p.exits :
               /\ p.exits[k][1] = id /\ p.exits[k] # e.pid
               /\ \E m \in DOMAIN jobs[id].exits : p.exits[k][2] = jobs[id].exits[m]
               /\ \A f \in Left' : f.kind = "exit" => f.pid # p.exits[k]
      BY <1>1, <1>2, <1>3, <2>2 DEF Basics, ExitsApart
    <3>7. IsInjective(q.exits)
      <4>1. SUFFICES ASSUME NEW i \in DOMAIN q.exits, NEW j \in DOMAIN q.exits, q.exits[i] = q.exits[j] PROVE i = j
        BY DEF IsInjective
      <4>2. QED
        BY <3>3, <3>4, <3>6, <4>1 DEF IsInjective
    <3>8. ASSUME NEW k \in DOMAIN q.exits
          PROVE  /\ q.exits[k][1] = id
                 /\ \E m \in DOMAIN jobs[id].exits : q.exits[k][2] = jobs[id].exits[m]
                 /\ \A f \in Left' : f.kind = "exit" => f.pid # q.exits[k]
      <4>1. CASE k \in 1..Len(p.exits)
        <5>1. q.exits[k] = p.exits[k] /\ k \in DOMAIN p.exits
          BY <3>3, <4>1
        <5>2. QED
          BY <3>6, <5>1
      <4>2. CASE k = Len(p.exits) + 1
        <5>1. q.exits[k] = e.pid
          BY <3>3, <4>2
        <5>2. QED
          BY <3>5, <5>1
      <4>3. QED
        BY <3>4, <4>1, <4>2
    <3>9. QED
      BY <1>1, <1>3, <1>4, <3>1, <3>2, <3>7, <3>8 DEF ExitsApart
  <2>3. QED
    BY <2>1, <2>2
<1>7. Basics'
  BY <1>2, <1>4, <1>5, <1>6 DEF Basics
<1>8. OutcomeIsWhole'
  BY <1>1, <1>2, WholeStays DEF TransportInv
<1>9. ASSUME Intact' PROVE Faithful'
  <2>1. /\ Faithful /\ Intact /\ e.seq = lastSeq + 1 /\ lastSeq' = lastSeq + 1 /\ gaps' = 0 /\ Left' = Left \ {e}
    BY <1>1, <1>2, <1>9 DEF TransportInv, Intact
  <2>2. Over'
    BY <1>1, <2>1 DEF Faithful, Over
  <2>3. \A x \in DOMAIN pending : pending'[x].call = pending[x].call
    BY <1>4
  <2>4. Refused'
    BY <1>1, <1>4, <2>1, <2>3 DEF Faithful, Refused, Own
  <2>5. ASSUME NEW x \in DOMAIN pending, x \in DOMAIN jobs, jobs[x].call = pending[x].call, jobs[x].n > 0
        PROVE  ExitsCome(x)' /\ ProcsCome(x)' /\ OutputComes(x)'
    <3>1. CASE x = id
      BY <1>1, <1>2, <1>4, <2>1, <2>5, <3>1 DEF Own
    <3>2. CASE x # id
      <4>1. ExitsCome(x) /\ ProcsCome(x) /\ OutputComes(x)
        BY <2>1, <2>5 DEF Faithful, Awaited, Own
      <4>2. pending'[x] = pending[x]
        BY <1>4, <3>2
      <4>3. QED
        BY <1>1, <1>2, <2>1, <2>5, <3>2, <4>1, <4>2, OthersWait
    <3>3. QED
      BY <3>1, <3>2
  <2>6. Awaited'
    BY <1>1, <1>4, <2>3, <2>5 DEF Awaited, Own
  <2>7. QED
    BY <2>2, <2>4, <2>6 DEF Faithful
<1>10. QED
  BY <1>4, <1>7, <1>8, <1>9 DEF TransportInv

\* #route: the news of a process.
LEMMA TellsProcess ==
  ASSUME TransportInv, Receive, NEW e, e = Head(toClient), e.seq > lastSeq, e.id \in DOMAIN pending,
         e.kind = "process-changed",
         NEW q, q = [pending[e.id] EXCEPT !.procs = @ \cup {e.pid}], pending' = [pending EXCEPT ![e.id] = q],
         owner' = With(owner, e.pid, e.id), outcomes' = outcomes
  PROVE  TransportInv'
<1> DEFINE id == e.id
           p == pending[id]
<1>1. Basics /\ e \in Coming /\ e \in Left /\ id \in DOMAIN jobs /\ p \in Waiting
  <2>1. Basics
    BY DEF TransportInv
  <2>2. e \in Coming /\ e \in Left
    BY <2>1, Received
  <2>3. QED
    BY <2>1, <2>2 DEF Basics, OfJobs, Typed
<1>2. e.pid \in {id} \X (1..jobs[id].n) /\ jobs[id].n \in Nat /\ id \in Ids
  BY <1>1 DEF Basics, OfJobs, Named, Typed, Transcripts
<1>3. e.pid \in Pid /\ e.pid[1] = id
  BY <1>2 DEF Pid
<1>4. /\ q \in Waiting /\ q.call = p.call /\ q.exits = p.exits /\ q.procs = p.procs \cup {e.pid}
      /\ q.values = p.values /\ q.errors = p.errors
  BY <1>1, <1>3 DEF Waiting
<1>6. ASSUME e.seq = lastSeq + 1, lastSeq' = lastSeq + 1, Left' = Left \ {e}, Own(id), jobs[id].n > 0, Intact,
             pending'[id] = q, jobs' = jobs, seq' = seq
      PROVE  ExitsCome(id)' /\ ProcsCome(id)' /\ OutputComes(id)'
  <2> DEFINE m == Missing(id)
  <2>1. Faithful /\ seq \in Nat /\ lastSeq \in Nat
    BY <1>1, <1>6 DEF TransportInv, Basics, Typed
  <2>2. ExitsCome(id) /\ ProcsCome(id) /\ OutputComes(id)
    BY <1>6, <2>1 DEF Faithful, Awaited
  <2>3. Missing(id)' = m /\ m \in Int
    <3>1. jobs[id].exits \in Seq(Nat) /\ p.exits \in Seq(Pid)
      BY <1>1 DEF Basics, Typed, Transcripts, Waiting
    <3>2. Len(jobs[id].exits) \in Nat /\ Len(p.exits) \in Nat
      BY <3>1
    <3>3. m = Len(jobs[id].exits) - Len(p.exits)
      BY DEF Missing
    <3>4. pending'[id].exits = p.exits /\ jobs'[id].exits = jobs[id].exits
      BY <1>4, <1>6
    <3>5. Missing(id)' = Len(jobs[id].exits) - Len(p.exits)
      BY <3>4 DEF Missing
    <3>6. m \in Int
      <4>1. \A k, l \in Nat : k - l \in Int
        OBVIOUS
      <4>2. QED
        BY <3>2, <3>3, <4>1
    <3>7. Missing(id)' = m
      BY <3>3, <3>5
    <3>8. QED
      BY <3>6, <3>7
  <2>4. \A f : Ahead(f)' = Ahead(f)
    BY <1>6 DEF Ahead
  <2>5. Ahead(e) = seq - (lastSeq + 1)
    BY <1>6 DEF Ahead
  <2>6. m > 0 => seq - (lastSeq + 1) >= 2 * m - 1
    <3>1. SUFFICES ASSUME m > 0 PROVE seq - (lastSeq + 1) >= 2 * m - 1
      OBVIOUS
    <3>2. seq - lastSeq >= 2 * m - 1
      BY <2>2, <3>1 DEF ExitsCome
    <3>3. Ahead(e) < 2 * m => Ahead(e) % 2 # 0
      <4>1. Ahead(e) < 2 * m => "process-changed" = IF Ahead(e) % 2 = 0 THEN "exit" ELSE "process-changed"
        BY <1>1, <2>2 DEF ExitsCome
      <4>2. QED
        BY <4>1
    <3> HIDE DEF m
    <3>4. CASE Ahead(e) < 2 * m
      <4>1. seq - (lastSeq + 1) # 2 * m - 2
        BY <2>3, <2>5, <3>3, <3>4
      <4>2. QED
        BY <2>1, <2>3, <3>2, <4>1
    <3>5. CASE ~(Ahead(e) < 2 * m)
      BY <2>1, <2>3, <2>5, <3>5
    <3>6. QED
      BY <3>4, <3>5
  <2>7. ExitsCome(id)'
    <3>1. \A f \in Left' : Ahead(f) < 2 * m =>
            /\ f.id = id /\ f.kind = IF Ahead(f) % 2 = 0 THEN "exit" ELSE "process-changed"
            /\ f.pid = <<id, jobs[id].exits[Len(jobs[id].exits) - Ahead(f) \div 2]>>
      BY <1>6, <2>2 DEF ExitsCome
    <3>2. /\ m >= 0 /\ \A k \in DOMAIN p.exits : p.exits[k] = <<id, jobs[id].exits[k]>>
          /\ \A f \in Left' : f.id = id /\ Ahead(f) >= 2 * m => f.kind # "exit"
      BY <1>6, <2>2 DEF ExitsCome
    <3> HIDE DEF m
    <3>3. QED
      BY <1>4, <1>6, <2>3, <2>4, <2>6, <3>1, <3>2 DEF ExitsCome
  <2>8. ProcsCome(id)'
    <3>1. p.procs \subseteq {id} \X (1..jobs[id].n)
      BY <2>2 DEF ProcsCome
    <3>2. ASSUME NEW s \in 1..jobs[id].n
          PROVE  \/ <<id, s>> \in q.procs
                 \/ \E f \in Left' : /\ Ahead(f)' >= 2 * Missing(id)'
                                     /\ f.kind = "process-changed" /\ f.id = id /\ f.pid = <<id, s>>
      <4>1. \/ <<id, s>> \in p.procs
            \/ \E f \in Left : /\ Ahead(f) >= 2 * m
                               /\ f.kind = "process-changed" /\ f.id = id /\ f.pid = <<id, s>>
        BY <2>2 DEF ProcsCome
      <4> HIDE DEF m
      <4>2. QED
        BY <1>4, <1>6, <2>3, <2>4, <4>1
    <3>3. QED
      BY <1>2, <1>4, <1>6, <3>1, <3>2 DEF ProcsCome
  <2>9. Lag(id, "objects")' = Lag(id, "objects") /\ Lag(id, "stream")' = Lag(id, "stream")
    BY <1>6 DEF Lag
  <2>10. OutputComes(id)'
    BY <1>4, <1>6, <2>2, <2>9 DEF OutputComes
  <2>11. QED
    BY <2>7, <2>8, <2>10
<1>7. /\ \/ owner' = owner /\ q.procs = pending[e.id].procs
         \/ \E pid \in Pid : /\ pid[1] = e.id /\ owner' = With(owner, pid, e.id)
                             /\ q.procs = pending[e.id].procs \cup {pid}
      /\ \/ q.exits = pending[e.id].exits
         \/ e.kind = "exit" /\ q.exits = Append(pending[e.id].exits, e.pid)
      /\ q.call = pending[e.id].call
  BY <1>3, <1>4
<1>8. QED
  BY <1>1, <1>4, <1>6, <1>7, Told

\* #route: a value, and an error record of one of the processes.
LEMMA TellsOutput ==
  ASSUME TransportInv, Receive, NEW e, e = Head(toClient), e.seq > lastSeq, e.id \in DOMAIN pending,
         UNCHANGED <<owner, outcomes>>,
         \/ e.kind = "objects" /\ pending' = [pending EXCEPT ![e.id].values = @ + 1]
         \/ e.kind = "stream" /\ pending' = [pending EXCEPT ![e.id].errors = Append(@, e.pid)]
  PROVE  TransportInv'
<1> DEFINE id == e.id
           p == pending[id]
           q == IF e.kind = "objects" THEN [p EXCEPT !.values = @ + 1]
                                      ELSE [p EXCEPT !.errors = Append(@, e.pid)]
<1>1. Basics /\ e \in Coming /\ e \in Left /\ id \in DOMAIN jobs /\ p \in Waiting
  <2>1. Basics
    BY DEF TransportInv
  <2>2. e \in Coming /\ e \in Left
    BY <2>1, Received
  <2>3. QED
    BY <2>1, <2>2 DEF Basics, OfJobs, Typed
<1>2. jobs[id] \in Transcripts /\ jobs[id].n \in Nat /\ id \in Ids /\ jobs[id].errors \in Seq(Nat)
  BY <1>1 DEF Basics, Typed, Transcripts
<1>3. e.kind = "stream" => e.pid \in Pid
  <2>1. SUFFICES ASSUME e.kind = "stream" PROVE e.pid \in Pid
    OBVIOUS
  <2>2. e.pid \in {id} \X (1..jobs[id].n)
    BY <1>1, <2>1 DEF Basics, OfJobs, Named
  <2>3. QED
    BY <1>2, <2>2 DEF Pid
<1>4. p.errors \in Seq(Pid) /\ p.values \in Nat
  BY <1>1 DEF Waiting
<1>5. /\ q \in Waiting /\ q.call = p.call /\ q.exits = p.exits /\ q.procs = p.procs
      /\ q.values = IF e.kind = "objects" THEN p.values + 1 ELSE p.values
      /\ q.errors = IF e.kind = "objects" THEN p.errors ELSE Append(p.errors, e.pid)
  <2>1. CASE e.kind = "objects"
    <3>1. q = [p EXCEPT !.values = @ + 1] /\ p.values + 1 \in Nat
      BY <1>4, <2>1
    <3> HIDE DEF q
    <3>2. QED
      BY <1>1, <2>1, <3>1 DEF Waiting
  <2>2. CASE e.kind = "stream"
    <3>1. Append(p.errors, e.pid) \in Seq(Pid)
      BY <1>3, <1>4, <2>2
    <3>2. QED
      BY <1>1, <1>4, <2>2, <3>1 DEF Waiting
  <2>3. QED
    BY <2>1, <2>2
<1>6. pending' = [pending EXCEPT ![id] = q]
  OBVIOUS
<1> HIDE DEF q
<1>7. ASSUME e.seq = lastSeq + 1, lastSeq' = lastSeq + 1, Left' = Left \ {e}, Own(id), jobs[id].n > 0, Intact,
             pending'[id] = q, jobs' = jobs, seq' = seq
      PROVE  ExitsCome(id)' /\ ProcsCome(id)' /\ OutputComes(id)'
  <2>1. Faithful
    BY <1>7 DEF TransportInv
  <2>2. ExitsCome(id) /\ ProcsCome(id) /\ OutputComes(id)
    BY <1>7, <2>1 DEF Faithful, Awaited
  <2>3. Left = {e} /\ Left' = {} /\ Missing(id) = 0 /\ p.procs = {id} \X (1..jobs[id].n)
    BY <1>1, <1>7, <2>2, LastAlone
  <2>4. Missing(id)' = 0
    BY <1>5, <1>7, <2>3 DEF Missing
  <2>5. ExitsCome(id)'
    BY <1>5, <1>7, <2>2, <2>3, <2>4 DEF ExitsCome
  <2>6. ProcsCome(id)'
    BY <1>5, <1>7, <2>3 DEF ProcsCome
  <2>7. Lag(id, "objects")' = 0 /\ Lag(id, "stream")' = 0
    BY <2>3 DEF Lag
  <2>8. /\ jobs[id].values = q.values
        /\ Len(jobs[id].errors) = Len(q.errors)
        /\ \A k \in DOMAIN q.errors : q.errors[k] = <<id, jobs[id].errors[k]>>
    <3>1. /\ jobs[id].values = p.values + Lag(id, "objects")
          /\ Len(jobs[id].errors) = Len(p.errors) + Lag(id, "stream")
          /\ \A k \in DOMAIN p.errors : p.errors[k] = <<id, jobs[id].errors[k]>>
      BY <2>2 DEF OutputComes
    <3>2. CASE e.kind = "objects"
      <4>1. Lag(id, "objects") = 1 /\ Lag(id, "stream") = 0
        BY <2>3, <3>2 DEF Lag
      <4>2. QED
        BY <1>2, <1>4, <1>5, <3>1, <3>2, <4>1
    <3>3. CASE e.kind = "stream"
      <4>1. Lag(id, "objects") = 0 /\ Lag(id, "stream") = 1
        BY <2>3, <3>3 DEF Lag
      <4>2. PICK s \in 1..jobs[id].n : e.pid = <<id, s>> /\ jobs[id].errors[Len(jobs[id].errors)] = s
        BY <1>1, <2>2, <3>3 DEF OutputComes
      <4>3. /\ Len(q.errors) = Len(p.errors) + 1 /\ q.errors[Len(p.errors) + 1] = e.pid
            /\ \A k \in 1..Len(p.errors) : q.errors[k] = p.errors[k] /\ k \in DOMAIN p.errors
            /\ DOMAIN q.errors = 1..(Len(p.errors) + 1) /\ Len(p.errors) \in Nat
        BY <1>3, <1>4, <1>5, <3>3
      <4>4. Len(jobs[id].errors) = Len(p.errors) + 1 /\ jobs[id].values = p.values
        BY <1>4, <3>1, <4>1
      <4>5. ASSUME NEW k \in DOMAIN q.errors PROVE q.errors[k] = <<id, jobs[id].errors[k]>>
        <5>1. k \in 1..Len(p.errors) \/ k = Len(p.errors) + 1
          BY <4>3
        <5>2. QED
          BY <3>1, <4>2, <4>3, <4>4, <5>1
      <4>6. QED
        BY <1>5, <3>3, <4>3, <4>4, <4>5
    <3>4. QED
      BY <3>2, <3>3
  <2>9. jobs[id].values \in Nat /\ Len(jobs[id].errors) \in Nat
    BY <1>2 DEF Transcripts
  <2>10. OutputComes(id)'
    BY <1>7, <2>3, <2>7, <2>8, <2>9 DEF OutputComes
  <2>11. QED
    BY <2>5, <2>6, <2>10
<1>8. QED
  BY <1>1, <1>5, <1>6, <1>7, Told

\* #route: an exit that is not the last one.
LEMMA TellsExit ==
  ASSUME TransportInv, Receive, NEW e, e = Head(toClient), e.seq > lastSeq, e.id \in DOMAIN pending,
         e.kind = "exit",
         NEW q, q = [pending[e.id] EXCEPT !.exits = Append(@, e.pid)], pending' = [pending EXCEPT ![e.id] = q],
         UNCHANGED <<owner, outcomes>>
  PROVE  TransportInv'
<1> DEFINE id == e.id
           p == pending[id]
           l == Len(p.exits)
<1>1. Basics /\ e \in Coming /\ e \in Left /\ id \in DOMAIN jobs /\ p \in Waiting /\ id \in Ids
  <2>1. Basics
    BY DEF TransportInv
  <2>2. e \in Coming /\ e \in Left
    BY <2>1, Received
  <2>3. QED
    BY <2>1, <2>2 DEF Basics, OfJobs, Typed
<1>2. jobs[id] \in Transcripts /\ jobs[id].n \in Nat /\ Len(jobs[id].exits) \in Nat
  BY <1>1 DEF Basics, Typed, Transcripts
<1>3. e.pid \in Pid
  <2>1. e.pid \in {id} \X (1..jobs[id].n)
    BY <1>1 DEF Basics, OfJobs, Named
  <2>2. QED
    BY <1>1, <1>2, <2>1 DEF Pid
<1>4. p.exits \in Seq(Pid) /\ l \in Nat /\ DOMAIN p.exits = 1..l
  BY <1>1 DEF Waiting
<1>5. /\ Append(p.exits, e.pid) \in Seq(Pid) /\ Len(Append(p.exits, e.pid)) = l + 1
      /\ Append(p.exits, e.pid)[l + 1] = e.pid
      /\ \A k \in 1..l : Append(p.exits, e.pid)[k] = p.exits[k]
      /\ DOMAIN Append(p.exits, e.pid) = 1..(l + 1)
  BY <1>3, <1>4
<1>6. /\ q \in Waiting /\ q.call = p.call /\ q.exits = Append(p.exits, e.pid) /\ q.procs = p.procs
      /\ q.values = p.values /\ q.errors = p.errors
  BY <1>1, <1>5 DEF Waiting
<1>7. ASSUME e.seq = lastSeq + 1, lastSeq' = lastSeq + 1, Left' = Left \ {e}, Own(id), jobs[id].n > 0, Intact,
             pending'[id] = q, jobs' = jobs, seq' = seq
      PROVE  ExitsCome(id)' /\ ProcsCome(id)' /\ OutputComes(id)'
  <2> DEFINE m == Missing(id)
             k == Len(jobs[id].exits)
  <2>1. Faithful /\ seq \in Nat /\ lastSeq \in Nat
    BY <1>1, <1>7 DEF TransportInv, Basics, Typed
  <2>2. ExitsCome(id) /\ ProcsCome(id) /\ OutputComes(id)
    BY <1>7, <2>1 DEF Faithful, Awaited
  <2>3. /\ m \in Nat \ {0} /\ seq - lastSeq = 2 * m - 1
        /\ e.pid = <<id, jobs[id].exits[l + 1]>> /\ p.procs = {id} \X (1..jobs[id].n)
        /\ \A f \in Left : Ahead(f) <= 2 * m - 2
    BY <1>1, <1>7, <2>2, ExitNext
  <2>4. Missing(id)' = m - 1
    <3>1. m = k - l
      BY DEF Missing
    <3>2. Len(pending'[id].exits) = l + 1 /\ jobs'[id].exits = jobs[id].exits
      BY <1>5, <1>6, <1>7
    <3>3. Missing(id)' = k - (l + 1)
      BY <3>2 DEF Missing
    <3>4. \A i, j \in Nat : i - (j + 1) = (i - j) - 1
      OBVIOUS
    <3>5. k - (l + 1) = (k - l) - 1
      BY <1>2, <1>4, <3>4
    <3>6. QED
      BY <3>1, <3>3, <3>5
  <2>5. \A f : Ahead(f)' = Ahead(f)
    BY <1>7 DEF Ahead
  <2>6. ASSUME NEW f \in Left' PROVE Ahead(f) < 2 * (m - 1) /\ f \in Left
    <3>1. f \in Left /\ f # e /\ Ahead(f) <= 2 * m - 2
      BY <1>7, <2>3
    <3>2. f.seq \in Nat /\ f.seq > lastSeq /\ f.seq # e.seq
      BY <1>1, <1>7, <3>1 DEF Left, Basics, Ordered
    <3>3. Ahead(f) = seq - f.seq
      BY DEF Ahead
    <3> HIDE DEF m
    <3>4. QED
      BY <1>7, <2>1, <2>3, <3>1, <3>2, <3>3
  <2>7. ExitsCome(id)'
    <3>1. \A f \in Left' :
            /\ f.id = id /\ f.kind = IF Ahead(f) % 2 = 0 THEN "exit" ELSE "process-changed"
            /\ f.pid = <<id, jobs[id].exits[Len(jobs[id].exits) - Ahead(f) \div 2]>>
      <4>1. ASSUME NEW f \in Left' PROVE Ahead(f) < 2 * m /\ f \in Left
        <5>1. Ahead(f) < 2 * (m - 1) /\ f \in Left /\ Ahead(f) \in Int
          BY <1>1, <2>1, <2>6 DEF Ahead, Left, Basics, Ordered
        <5> HIDE DEF m
        <5>2. QED
          BY <2>3, <5>1
      <4>2. QED
        BY <2>2, <4>1 DEF ExitsCome
    <3>2. \A i \in DOMAIN p.exits : p.exits[i] = <<id, jobs[id].exits[i]>>
      BY <2>2 DEF ExitsCome
    <3>3. \A i \in DOMAIN q.exits : q.exits[i] = <<id, jobs[id].exits[i]>>
      <4>1. ASSUME NEW i \in 1..(l + 1) PROVE Append(p.exits, e.pid)[i] = <<id, jobs[id].exits[i]>>
        <5>1. i \in 1..l \/ i = l + 1
          BY <1>4
        <5>2. QED
          BY <1>4, <1>5, <2>3, <3>2, <5>1
      <4>2. QED
        BY <1>5, <1>6, <4>1
    <3>4. m - 1 >= 0 /\ seq - (lastSeq + 1) >= 2 * (m - 1) - 1
      <4> HIDE DEF m
      <4>1. QED
        BY <2>1, <2>3
    <3>5. \A f \in Left' : ~(Ahead(f) >= 2 * (m - 1))
      <4>1. ASSUME NEW f \in Left' PROVE ~(Ahead(f) >= 2 * (m - 1))
        <5>1. Ahead(f) < 2 * (m - 1) /\ Ahead(f) \in Int
          BY <1>1, <2>1, <2>6 DEF Ahead, Left, Basics, Ordered
        <5> HIDE DEF m
        <5>2. QED
          BY <2>3, <5>1
      <4>2. QED
        BY <4>1
    <3> HIDE DEF m
    <3>6. QED
      BY <1>7, <2>4, <2>5, <3>1, <3>3, <3>4, <3>5 DEF ExitsCome
  <2>8. ProcsCome(id)'
    BY <1>6, <1>7, <2>3 DEF ProcsCome
  <2>9. Lag(id, "objects")' = Lag(id, "objects") /\ Lag(id, "stream")' = Lag(id, "stream")
    BY <1>7 DEF Lag
  <2>10. OutputComes(id)'
    BY <1>6, <1>7, <2>2, <2>9 DEF OutputComes
  <2>11. QED
    BY <2>7, <2>8, <2>10
<1>8. QED
  BY <1>1, <1>6, <1>7, Told

\* An event that answers a call keeps everything, if the answer is true.
LEMMA Answered ==
  ASSUME TransportInv, Receive, NEW e, e = Head(toClient), e.seq > lastSeq, e.id \in DOMAIN pending,
         NEW o \in Results, IsInjective(o.exits),
         pending' = Without(pending, {e.id}), owner' = Without(owner, pending[e.id].procs),
         outcomes' = Settled(pending[e.id].call, o),
         ASSUME gaps' = 0, e \in Left, e.seq = lastSeq + 1, Intact, e.id \in DOMAIN jobs
         PROVE  /\ Left = {e} /\ (Own(e.id) => jobs[e.id].live = {}) /\ o.rejected # "closed"
                /\ IF o.rejected = "yes" THEN Own(e.id) => jobs[e.id].n = 0
                   ELSE /\ Own(e.id) /\ jobs[e.id].n > 0
                        /\ o.exits = Pids(e.id, jobs[e.id].exits)
                        /\ o.values = jobs[e.id].values /\ o.errors = Pids(e.id, jobs[e.id].errors)
  PROVE  TransportInv'
<1> DEFINE id == e.id
           c == pending[id].call
<1>1. Basics /\ Once /\ UNCHANGED <<toKernel, jobs, seq, forgone, closed, calls>>
  BY DEF TransportInv, Receive, kernelVars
<1>2. /\ toClient' \in Seq(Events) /\ lastSeq' \in Nat /\ gaps' \in Nat /\ Ordered' /\ OfJobs'
      /\ Coming' \subseteq Coming /\ Left' \subseteq Left /\ (gaps' = 0 => gaps = 0)
      /\ e \in Coming /\ e \in Left /\ e \notin Left'
      /\ gaps' = 0 => /\ Intact /\ e.seq = lastSeq + 1 /\ lastSeq' = lastSeq + 1 /\ Left' = Left \ {e}
  BY <1>1, Received
<1>3. id \in DOMAIN pending \cap DOMAIN jobs
  BY <1>1, <1>2 DEF Basics, OfJobs
<1>4. /\ DOMAIN pending' = DOMAIN pending \ {id} /\ \A x \in DOMAIN pending' : pending'[x] = pending[x]
      /\ DOMAIN outcomes' = DOMAIN outcomes \cup {c}
      /\ outcomes'[c] = <<o>> /\ c \notin DOMAIN outcomes
      /\ \A d \in DOMAIN outcomes : outcomes'[d] = outcomes[d]
      /\ pending' \in [DOMAIN pending' -> Waiting] /\ DOMAIN pending' \subseteq Ids
      /\ owner' \in [DOMAIN owner' -> Ids] /\ DOMAIN owner' \subseteq Pid
      /\ outcomes' \in [DOMAIN outcomes' -> Seq(Results)]
      /\ Owners' /\ CallsApart' /\ Asked' /\ JobsRun' /\ Fresh' /\ Reuse' /\ Once'
  BY <1>1, <1>3, Settles
<1>5. Typed'
  BY <1>1, <1>2, <1>4 DEF Basics, Typed
<1>6. ExitsApart'
  BY <1>1, <1>2, <1>4, ExitsStay
<1>7. Basics'
  BY <1>2, <1>4, <1>5, <1>6 DEF Basics
<1>8. ASSUME gaps' = 0
      PROVE  /\ Left' = {} /\ (Own(id) => jobs[id].live = {}) /\ o.rejected # "closed" /\ Intact
             /\ IF o.rejected = "yes" THEN Own(id) => jobs[id].n = 0
                ELSE /\ Own(id) /\ jobs[id].n > 0
                     /\ o.exits = Pids(id, jobs[id].exits)
                     /\ o.values = jobs[id].values /\ o.errors = Pids(id, jobs[id].errors)
  BY <1>2, <1>3, <1>8
<1>9. \A x \in DOMAIN jobs : jobs[x].call = c => x = id /\ Own(id)
  BY <1>1, <1>3 DEF Basics, CallsApart, Own
<1>10. OutcomeIsWhole'
  <2>1. SUFFICES ASSUME NEW d \in DOMAIN outcomes', gaps' = 0, outcomes'[d][1].rejected # "closed"
                 PROVE  IF outcomes'[d][1].rejected = "yes"
                        THEN ~\E x \in DOMAIN jobs : jobs[x].call = d /\ jobs[x].n > 0
                        ELSE \E x \in DOMAIN jobs :
                               /\ jobs[x].call = d /\ jobs[x].n > 0 /\ jobs[x].live = {}
                               /\ outcomes'[d][1].exits = Pids(x, jobs[x].exits)
                               /\ outcomes'[d][1].values = jobs[x].values
                               /\ outcomes'[d][1].errors = Pids(x, jobs[x].errors)
    BY <1>1 DEF OutcomeIsWhole
  <2>2. CASE d = c
    <3>1. outcomes'[d][1] = o
      <4>1. outcomes'[d] = <<o>> /\ <<o>>[1] = o
        BY <1>4, <2>2
      <4>2. QED
        BY <4>1
    <3>2. CASE o.rejected = "yes"
      <4>1. Own(id) => jobs[id].n = 0
        BY <1>8, <2>1, <3>2
      <4>2. ~\E x \in DOMAIN jobs : jobs[x].call = d /\ jobs[x].n > 0
        BY <1>9, <2>2, <4>1
      <4>3. QED
        BY <3>1, <3>2, <4>2
    <3>3. CASE o.rejected # "yes"
      <4>1. /\ Own(id) /\ jobs[id].n > 0 /\ jobs[id].live = {}
            /\ o.exits = Pids(id, jobs[id].exits)
            /\ o.values = jobs[id].values /\ o.errors = Pids(id, jobs[id].errors)
        BY <1>8, <2>1, <3>3
      <4>2. id \in DOMAIN jobs /\ jobs[id].call = d
        BY <2>2, <4>1 DEF Own
      <4>3. QED
        BY <3>1, <3>3, <4>1, <4>2
    <3>4. QED
      BY <3>2, <3>3
  <2>3. CASE d # c
    <3>1. d \in DOMAIN outcomes /\ outcomes'[d] = outcomes[d] /\ gaps = 0
      BY <1>2, <1>4, <2>1, <2>3
    <3>2. QED
      BY <2>1, <3>1 DEF TransportInv, OutcomeIsWhole
  <2>4. QED
    BY <2>2, <2>3
<1>11. ASSUME Intact' PROVE Faithful'
  <2>1. Left' = {} /\ (Own(id) => jobs[id].live = {}) /\ Faithful /\ gaps' = 0
    BY <1>8, <1>11 DEF Intact, TransportInv
  <2>2. Over'
    <3>1. ASSUME NEW x \in DOMAIN jobs, jobs[x].call \in DOMAIN outcomes' PROVE jobs[x].live = {}
      <4>1. CASE jobs[x].call = c
        BY <1>9, <2>1, <4>1
      <4>2. CASE jobs[x].call # c
        BY <1>4, <2>1, <3>1, <4>2 DEF Faithful, Over
      <4>3. QED
        BY <4>1, <4>2
    <3>2. QED
      BY <1>1, <2>1, <3>1 DEF Over
  <2>3. Refused'
    BY <2>1 DEF Refused
  <2>4. ASSUME NEW x \in DOMAIN pending', Own(x), jobs[x].n > 0
        PROVE  ExitsCome(x)' /\ ProcsCome(x)' /\ OutputComes(x)'
    <3>1. x \in DOMAIN pending /\ x # id /\ x \in DOMAIN jobs /\ pending'[x] = pending[x]
      BY <1>4, <2>4 DEF Own
    <3>2. ExitsCome(x) /\ ProcsCome(x) /\ OutputComes(x)
      BY <2>1, <2>4, <3>1 DEF Faithful, Awaited
    <3>3. QED
      BY <1>1, <1>2, <2>1, <2>4, <3>1, <3>2, OthersWait
  <2>5. Awaited'
    <3>1. \A x \in DOMAIN pending' : pending'[x].call = pending[x].call
      BY <1>4
    <3>2. QED
      BY <1>1, <2>4, <3>1 DEF Awaited, Own
  <2>6. QED
    BY <2>2, <2>3, <2>5 DEF Faithful
<1>12. QED
  BY <1>4, <1>7, <1>10, <1>11 DEF TransportInv

\* #route: the exit that settles a promise is the last of its pipeline.
LEMMA LastExit ==
  ASSUME TransportInv, Receive, NEW e, e = Head(toClient), e.seq > lastSeq, e.id \in DOMAIN pending,
         e.kind = "exit",
         NEW q, q = [pending[e.id] EXCEPT !.exits = Append(@, e.pid)],
         q.procs # {}, Len(q.exits) >= Cardinality(q.procs), Settle(e.id, q, "no")
  PROVE  TransportInv'
<1> DEFINE id == e.id
           p == pending[id]
           l == Len(p.exits)
           o == Outcome(q, "no")
<1>1. Basics /\ e \in Coming /\ e \in Left /\ id \in DOMAIN jobs /\ p \in Waiting /\ id \in Ids
  <2>1. Basics
    BY DEF TransportInv
  <2>2. e \in Coming /\ e \in Left
    BY <2>1, Received
  <2>3. QED
    BY <2>1, <2>2 DEF Basics, OfJobs, Typed
<1>2. jobs[id] \in Transcripts /\ jobs[id].n \in Nat /\ Len(jobs[id].exits) \in Nat
  BY <1>1 DEF Basics, Typed, Transcripts
<1>3. e.pid \in Pid
  <2>1. e.pid \in {id} \X (1..jobs[id].n)
    BY <1>1 DEF Basics, OfJobs, Named
  <2>2. QED
    BY <1>1, <1>2, <2>1 DEF Pid
<1>4. p.exits \in Seq(Pid) /\ l \in Nat /\ DOMAIN p.exits = 1..l
  BY <1>1 DEF Waiting
<1>5. /\ Append(p.exits, e.pid) \in Seq(Pid) /\ Len(Append(p.exits, e.pid)) = l + 1
      /\ Append(p.exits, e.pid)[l + 1] = e.pid
      /\ \A k \in 1..l : Append(p.exits, e.pid)[k] = p.exits[k]
      /\ DOMAIN Append(p.exits, e.pid) = 1..(l + 1)
  BY <1>3, <1>4
<1>6. /\ q \in Waiting /\ q.call = p.call /\ q.exits = Append(p.exits, e.pid) /\ q.procs = p.procs
      /\ q.values = p.values /\ q.errors = p.errors
  BY <1>1, <1>5 DEF Waiting
<1>7. /\ pending' = Without(pending, {id}) /\ owner' = Without(owner, p.procs)
      /\ outcomes' = Settled(p.call, o)
  BY <1>6 DEF Settle
<1>8. /\ o \in Results /\ o.rejected = "no" /\ o.exits = q.exits /\ o.values = p.values /\ o.errors = p.errors
  BY <1>6 DEF Outcome, Results, Waiting
<1>9. IsInjective(o.exits)
  <2>1. IsInjective(p.exits) /\ \A k \in DOMAIN p.exits : p.exits[k] # e.pid
    BY <1>1 DEF Basics, ExitsApart
  <2>2. ASSUME NEW i \in 1..(l + 1), NEW j \in 1..(l + 1),
               Append(p.exits, e.pid)[i] = Append(p.exits, e.pid)[j]
        PROVE  i = j
    <3>1. (i \in 1..l \/ i = l + 1) /\ (j \in 1..l \/ j = l + 1)
      BY <1>4
    <3>2. QED
      BY <1>4, <1>5, <2>1, <2>2, <3>1 DEF IsInjective
  <2>3. IsInjective(Append(p.exits, e.pid))
    BY <1>5, <2>2 DEF IsInjective
  <2>4. o.exits = Append(p.exits, e.pid)
    BY <1>6, <1>8
  <2>5. QED
    BY <2>3, <2>4
<1>10. ASSUME e.seq = lastSeq + 1, Intact
       PROVE  /\ Left = {e} /\ jobs[id].live = {} /\ Own(id) /\ jobs[id].n > 0
              /\ o.exits = Pids(id, jobs[id].exits)
              /\ o.values = jobs[id].values /\ o.errors = Pids(id, jobs[id].errors)
  <2> DEFINE m == Missing(id)
             k == Len(jobs[id].exits)
             n == jobs[id].n
  <2>1. Faithful /\ seq \in Nat /\ lastSeq \in Nat
    BY <1>1, <1>10 DEF TransportInv, Basics, Typed
  <2>2. Own(id) /\ n > 0 /\ ExitsCome(id) /\ ProcsCome(id) /\ OutputComes(id)
    BY <1>1, <1>10, <2>1, NextOfRequest
  <2>3. /\ m \in Nat \ {0} /\ seq - lastSeq = 2 * m - 1 /\ Ahead(e) = 2 * m - 2
        /\ e.pid = <<id, jobs[id].exits[l + 1]>> /\ p.procs = {id} \X (1..n)
    BY <1>1, <1>10, <2>2, ExitNext
  <2>4. Cardinality(p.procs) = n
    <3>1. IsFiniteSet({id}) /\ Cardinality({id}) = 1
      BY FS_Singleton
    <3>2. IsFiniteSet(1..n) /\ Cardinality(1..n) = n
      BY <1>2, FS_Interval
    <3>3. Cardinality({id} \X (1..n)) = Cardinality({id}) * Cardinality(1..n)
      BY <3>1, <3>2, FS_Product
    <3>4. n \in Nat /\ 1 * n = n
      BY <1>2
    <3>5. QED
      BY <2>3, <3>1, <3>2, <3>3, <3>4
  <2>5. l + 1 >= n
    BY <1>5, <1>6, <2>4
  <2>6. /\ IsFiniteSet(jobs[id].live) /\ k + Cardinality(jobs[id].live) = n /\ Cardinality(jobs[id].live) \in Nat
    BY <1>1, FS_CardinalityType DEF Basics, JobsRun, JobOK
  <2>7. m = k - l
    BY DEF Missing
  <2>8. m = 1 /\ k = l + 1 /\ Cardinality(jobs[id].live) = 0
    <3>1. \A a, b, c, d, x \in Nat :
            a # 0 /\ a = b - c /\ c + 1 >= d /\ b + x = d => a = 1 /\ b = c + 1 /\ x = 0
      OBVIOUS
    <3>2. k \in Nat /\ l \in Nat /\ n \in Nat /\ m \in Nat /\ m # 0 /\ Cardinality(jobs[id].live) \in Nat
      BY <1>2, <1>4, <2>3, <2>6
    <3> HIDE DEF m, k, l, n
    <3>3. QED
      BY <2>5, <2>6, <2>7, <3>1, <3>2
  <2>9. jobs[id].live = {}
    BY <2>6, <2>8, FS_EmptySet
  <2>10. e.seq = seq
    <3>1. seq - lastSeq = 1
      BY <2>3, <2>8
    <3>2. QED
      BY <1>10, <2>1, <3>1
  <2>11. Left = {e}
    <3>1. ASSUME NEW f \in Left PROVE f = e
      <4>1. f \in Coming /\ f.seq \in 1..seq /\ f.seq > lastSeq
        BY <1>1 DEF Left, Basics, Ordered
      <4>2. f.seq = e.seq
        BY <1>10, <2>1, <2>10, <4>1
      <4>3. QED
        BY <1>1, <4>1, <4>2 DEF Basics, Ordered
    <3>2. QED
      BY <1>1, <3>1
  <2>12. o.exits = Pids(id, jobs[id].exits)
    <3>1. jobs[id].exits \in Seq(Nat) /\ DOMAIN jobs[id].exits = 1..(l + 1)
      BY <1>2, <2>8 DEF Transcripts
    <3>2. \A i \in 1..l : p.exits[i] = <<id, jobs[id].exits[i]>>
      BY <1>4, <2>2 DEF ExitsCome
    <3>3. \A i \in 1..(l + 1) : i \in 1..l \/ i = l + 1
      BY <1>4
    <3>4. \A i \in 1..(l + 1) : Append(p.exits, e.pid)[i] = <<id, jobs[id].exits[i]>>
      BY <1>5, <2>3, <3>2, <3>3
    <3>5. Append(p.exits, e.pid) = [i \in 1..(l + 1) |-> Append(p.exits, e.pid)[i]]
      BY <1>5
    <3>6. QED
      BY <1>6, <1>8, <3>1, <3>4, <3>5 DEF Pids
  <2>13. Lag(id, "objects") = 0 /\ Lag(id, "stream") = 0
    BY <2>11 DEF Lag
  <2>14. o.values = jobs[id].values
    <3>1. jobs[id].values = p.values + 0 /\ p.values \in Nat
      BY <1>1, <2>2, <2>13 DEF OutputComes, Waiting
    <3>2. QED
      BY <1>8, <3>1
  <2>15. o.errors = Pids(id, jobs[id].errors)
    <3>1. jobs[id].errors \in Seq(Nat) /\ p.errors \in Seq(Pid)
      BY <1>1, <1>2 DEF Transcripts, Waiting
    <3>2. Len(jobs[id].errors) = Len(p.errors) /\ \A i \in DOMAIN p.errors : p.errors[i] = <<id, jobs[id].errors[i]>>
      BY <2>2, <2>13, <3>1 DEF OutputComes
    <3>3. DOMAIN p.errors = DOMAIN jobs[id].errors /\ p.errors = [i \in DOMAIN p.errors |-> p.errors[i]]
      BY <3>1, <3>2
    <3>4. QED
      BY <1>8, <3>2, <3>3 DEF Pids
  <2>16. QED
    BY <2>2, <2>9, <2>11, <2>12, <2>14, <2>15
<1> HIDE DEF o
<1>11. QED
  BY <1>1, <1>7, <1>8, <1>9, <1>10, Answered

\* #route: a promise is rejected when its submission was refused.
LEMMA Refuses ==
  ASSUME TransportInv, Receive, NEW e, e = Head(toClient), e.seq > lastSeq, e.id \in DOMAIN pending,
         e.kind = "rejected", Settle(e.id, pending[e.id], "yes")
  PROVE  TransportInv'
<1> DEFINE id == e.id
           p == pending[id]
           o == Outcome(p, "yes")
<1>1. Basics /\ e \in Coming /\ e \in Left /\ id \in DOMAIN jobs /\ p \in Waiting
  <2>1. Basics
    BY DEF TransportInv
  <2>2. e \in Coming /\ e \in Left
    BY <2>1, Received
  <2>3. QED
    BY <2>1, <2>2 DEF Basics, OfJobs, Typed
<1>2. /\ pending' = Without(pending, {id}) /\ owner' = Without(owner, p.procs)
      /\ outcomes' = Settled(p.call, o)
  BY DEF Settle
<1>3. /\ o \in Results /\ o.rejected = "yes" /\ o.exits = p.exits
  BY <1>1 DEF Outcome, Results, Waiting
<1>4. IsInjective(o.exits)
  BY <1>1, <1>3 DEF Basics, ExitsApart
<1>5. ASSUME e.seq = lastSeq + 1, Intact
      PROVE  Left = {e} /\ (Own(id) => jobs[id].live = {}) /\ (Own(id) => jobs[id].n = 0)
  <2>1. Faithful
    BY <1>5 DEF TransportInv
  <2>2. Left = {e}
    BY <1>1, <1>5, LastAlone
  <2>3. Own(id) => jobs[id].n = 0
    BY <1>1, <2>1 DEF Faithful, Refused
  <2>4. Own(id) => jobs[id].live = {}
    <3>1. jobs[id].live \subseteq 1..jobs[id].n
      BY <1>1 DEF Basics, JobsRun, JobOK
    <3>2. 1..0 = {}
      OBVIOUS
    <3>3. QED
      BY <2>3, <3>1, <3>2
  <2>5. QED
    BY <2>2, <2>3, <2>4
<1> HIDE DEF o
<1>6. QED
  BY <1>1, <1>2, <1>3, <1>4, <1>5, Answered

\* #receive.
LEMMA ReceiveKeeps == ASSUME TransportInv, Receive PROVE TransportInv'
<1> DEFINE e == Head(toClient)
<1>1. e \in Coming /\ e \in Events /\ lastSeq \in Nat
  <2>1. Basics
    BY DEF TransportInv
  <2>2. e \in Coming /\ e \in Events
    BY <2>1, Received
  <2>3. QED
    BY <2>1, <2>2 DEF Basics, Typed
<1>2. e.kind \in Kinds /\ e.seq \in Nat
  BY <1>1 DEF Events
<1>3. \/ e.seq <= lastSeq /\ UNCHANGED <<pending, owner, outcomes>>
      \/ e.seq > lastSeq /\ Route(e)
  BY <1>1, <1>2 DEF Receive
<1> HIDE DEF e
<1>4. CASE e.seq <= lastSeq /\ UNCHANGED <<pending, owner, outcomes>>
  BY <1>4, NotDelivered DEF e
<1>5. CASE e.seq > lastSeq /\ Route(e)
  <2>1. CASE e.kind = "stream"
    <3>1. CASE e.pid \in DOMAIN owner /\ owner[e.pid] \in DOMAIN pending
      <4>1. Owners /\ OfJobs
        BY DEF TransportInv, Basics
      <4>2. e.pid[1] = owner[e.pid] /\ e.pid[1] = e.id
        BY <1>1, <2>1, <3>1, <4>1 DEF Owners, OfJobs, Named
      <4>3. e.id \in DOMAIN pending /\ pending' = [pending EXCEPT ![e.id].errors = Append(@, e.pid)]
            /\ UNCHANGED <<owner, outcomes>>
        BY <1>5, <2>1, <3>1, <4>2 DEF Route
      <4>4. QED
        BY <1>5, <2>1, <4>3, TellsOutput DEF e
    <3>2. CASE ~(e.pid \in DOMAIN owner /\ owner[e.pid] \in DOMAIN pending)
      <4>1. UNCHANGED <<pending, owner, outcomes>>
        BY <1>5, <2>1, <3>2 DEF Route
      <4>2. QED
        BY <2>1, <3>2, <4>1, NotDelivered DEF e
    <3>3. QED
      BY <3>1, <3>2
  <2>2. CASE e.kind # "stream" /\ e.id \notin DOMAIN pending
    <3>1. UNCHANGED <<pending, owner, outcomes>>
      BY <1>5, <2>2 DEF Route
    <3>2. QED
      BY <2>2, <3>1, NotDelivered DEF e
  <2>3. CASE e.kind = "process-changed" /\ e.id \in DOMAIN pending
    <3>1. /\ pending' = [pending EXCEPT ![e.id].procs = @ \cup {e.pid}]
          /\ owner' = With(owner, e.pid, e.id) /\ UNCHANGED outcomes
      BY <1>5, <2>3 DEF Route
    <3>2. QED
      BY <1>5, <2>3, <3>1, TellsProcess DEF e
  <2>4. CASE e.kind = "objects" /\ e.id \in DOMAIN pending
    <3>1. /\ pending' = [pending EXCEPT ![e.id].values = @ + 1]
          /\ UNCHANGED <<owner, outcomes>>
      BY <1>5, <2>4 DEF Route
    <3>2. QED
      BY <1>5, <2>4, <3>1, TellsOutput DEF e
  <2>5. CASE e.kind = "exit" /\ e.id \in DOMAIN pending
    <3> DEFINE q == [pending[e.id] EXCEPT !.exits = Append(@, e.pid)]
    <3>1. IF q.procs # {} /\ Len(q.exits) >= Cardinality(q.procs)
          THEN Settle(e.id, q, "no")
          ELSE pending' = [pending EXCEPT ![e.id] = q] /\ UNCHANGED <<owner, outcomes>>
      BY <1>5, <2>5 DEF Route, RouteExit
    <3>2. CASE q.procs # {} /\ Len(q.exits) >= Cardinality(q.procs)
      BY <1>5, <2>5, <3>1, <3>2, LastExit DEF e
    <3>3. CASE ~(q.procs # {} /\ Len(q.exits) >= Cardinality(q.procs))
      BY <1>5, <2>5, <3>1, <3>3, TellsExit DEF e
    <3>4. QED
      BY <3>2, <3>3
  <2>6. CASE e.kind = "rejected" /\ e.id \in DOMAIN pending
    <3>1. Settle(e.id, pending[e.id], "yes")
      BY <1>5, <2>6 DEF Route, RouteRejected
    <3>2. QED
      BY <1>5, <2>6, <3>1, Refuses DEF e
  <2>7. QED
    BY <1>2, <2>1, <2>2, <2>3, <2>4, <2>5, <2>6 DEF Kinds, Named
<1>6. QED
  BY <1>3, <1>4, <1>5

-----------------------------------------------------------------------------
(* The channel and the caller.                                             *)

\* A fault of the channel that leaves what is still to be read keeps everything.
LEMMA LeftStays ==
  ASSUME TransportInv, toClient' \in Seq(Events), Ordered', Coming' \subseteq Coming, Left' \subseteq Left,
         Intact' => Intact /\ Left' = Left,
         UNCHANGED <<toKernel, seq, jobs, forgone, pending, owner, lastSeq, gaps, closed, outcomes, calls>>
  PROVE  TransportInv'
<1>1. Basics /\ Once /\ OutcomeIsWhole
  BY DEF TransportInv
<1>2. Typed' /\ OfJobs'
  BY <1>1 DEF Basics, Typed, OfJobs
<1>3. Owners' /\ CallsApart' /\ Asked' /\ JobsRun' /\ Fresh' /\ Reuse' /\ Once' /\ OutcomeIsWhole'
  <2>1. Owners' /\ CallsApart' /\ JobsRun' /\ Fresh' /\ Reuse'
    BY <1>1 DEF Basics, Owners, CallsApart, JobsRun, Fresh, Reuse
  <2>2. Asked' /\ Once'
    BY <1>1 DEF Basics, Asked, Execs, Once
  <2>3. OutcomeIsWhole'
    BY <1>1, WholeStays
  <2>4. QED
    BY <2>1, <2>2, <2>3
<1>4. ExitsApart'
  BY <1>1, ExitsStay
<1>5. ASSUME Intact' PROVE Faithful'
  <2>1. Faithful /\ Left' = Left
    BY <1>5 DEF TransportInv
  <2>2. Over' /\ Refused'
    BY <2>1 DEF Faithful, Over, Refused, Own
  <2>3. ASSUME NEW id PROVE /\ ExitsCome(id)' = ExitsCome(id) /\ ProcsCome(id)' = ProcsCome(id)
                            /\ OutputComes(id)' = OutputComes(id)
    BY <2>1 DEF ExitsCome, ProcsCome, OutputComes, Lag, Missing, Ahead
  <2>4. Awaited'
    BY <2>1, <2>3 DEF Faithful, Awaited, Own
  <2>5. QED
    BY <2>2, <2>4 DEF Faithful
<1>6. QED
  BY <1>2, <1>3, <1>4, <1>5 DEF TransportInv, Basics

\* A lost event is missed, unless the far side had sent it twice.
LEMMA LoseKeeps == ASSUME TransportInv, Lose PROVE TransportInv'
<1> DEFINE e == Head(toClient)
<1>1. Basics /\ Typed /\ Ordered
  BY DEF TransportInv, Basics
<1>2. /\ toClient # <<>> /\ toClient' = Tail(toClient)
      /\ UNCHANGED <<toKernel, seq, jobs, forgone, pending, owner, lastSeq, gaps, closed, outcomes, calls>>
  BY DEF Lose, kernelVars, clientVars
<1>3. /\ toClient' \in Seq(Events) /\ Coming' \subseteq Coming
      /\ \A f \in Coming : f = e \/ f \in Coming'
      /\ \A f \in Coming : e.seq <= f.seq
      /\ \A f \in Coming' : f.seq \in 1..seq'
      /\ \A f, g \in Coming' : f.seq = g.seq => f = g
      /\ \A i, j \in DOMAIN toClient' : i <= j => toClient'[i].seq <= toClient'[j].seq
      /\ toClient' # <<>> => toClient'[1] \in Coming'
  <2>1. toClient' # <<>> => toClient'[1] \in Coming'
    <3>1. SUFFICES ASSUME toClient' # <<>> PROVE toClient'[1] \in Coming'
      OBVIOUS
    <3>2. toClient' \in Seq(Events)
      BY <1>1, <1>2, Dropped
    <3>3. 1 \in DOMAIN toClient'
      BY <3>1, <3>2
    <3>4. QED
      BY <3>3 DEF Coming
  <2>2. QED
    BY <1>1, <1>2, <2>1, Dropped
<1>4. e \in Coming /\ toClient[1] = e /\ seq \in Nat /\ lastSeq \in Nat
  BY <1>1, <1>2, HeadOfClient DEF Typed
<1>5. ~closed /\ ~closed'
  BY <1>1, <1>2 DEF Ordered
<1>6. Ordered'
  BY <1>1, <1>2, <1>3, <1>5 DEF Ordered
<1>7. Left' \subseteq Left
  BY <1>2, <1>3 DEF Left
<1>8. ASSUME Intact' PROVE Intact /\ Left' = Left
  <2>1. gaps = 0 /\ IF toClient' = <<>> THEN lastSeq = seq ELSE toClient'[1].seq <= lastSeq + 1
    BY <1>2, <1>8 DEF Intact
  <2>2. e.seq \in 1..seq
    BY <1>1, <1>4 DEF Ordered
  <2>3. e.seq <= lastSeq \/ (e.seq = lastSeq + 1 /\ e \in Coming')
    <3>1. CASE toClient' = <<>>
      BY <1>4, <2>1, <2>2, <3>1
    <3>2. CASE toClient' # <<>>
      <4> DEFINE f == toClient'[1]
      <4>1. f \in Coming' /\ f \in Coming /\ f.seq \in 1..seq /\ e.seq <= f.seq /\ f.seq <= lastSeq + 1
        BY <1>1, <1>3, <2>1, <3>2 DEF Ordered
      <4> HIDE DEF f
      <4>2. CASE e.seq <= lastSeq
        BY <4>2
      <4>3. CASE ~(e.seq <= lastSeq)
        <5>1. e.seq = lastSeq + 1 /\ f.seq = e.seq
          BY <1>4, <2>2, <4>1, <4>3
        <5>2. f = e
          BY <1>1, <1>4, <4>1, <5>1 DEF Ordered
        <5>3. QED
          BY <4>1, <5>1, <5>2
      <4>4. QED
        BY <4>2, <4>3
    <3>3. QED
      BY <3>1, <3>2
  <2>4. e.seq <= lastSeq + 1
    BY <1>4, <2>2, <2>3
  <2>5. Intact
    BY <1>2, <1>4, <1>5, <2>1, <2>4 DEF Intact
  <2>6. ASSUME NEW f \in Left PROVE f \in Left'
    <3>1. f \in Coming /\ f.seq > lastSeq
      BY DEF Left
    <3>2. f \in Coming'
      <4>1. CASE f = e
        <5>1. ~(e.seq <= lastSeq)
          BY <1>4, <2>2, <3>1, <4>1
        <5>2. QED
          BY <2>3, <4>1, <5>1
      <4>2. CASE f # e
        BY <1>3, <3>1, <4>2
      <4>3. QED
        BY <4>1, <4>2
    <3>3. QED
      BY <1>2, <3>1, <3>2 DEF Left
  <2>7. QED
    BY <1>7, <2>5, <2>6
<1>9. QED
  BY <1>2, <1>3, <1>6, <1>7, <1>8, LeftStays

\* A repeated event is the same event, and as far along.
LEMMA RepeatKeeps == ASSUME TransportInv, Repeat PROVE TransportInv'
<1>1. Basics /\ Typed /\ Ordered
  BY DEF TransportInv, Basics
<1>2. /\ toClient # <<>> /\ toClient' = <<Head(toClient)>> \o toClient
      /\ UNCHANGED <<toKernel, seq, jobs, forgone, pending, owner, lastSeq, gaps, closed, outcomes, calls>>
  BY DEF Repeat, kernelVars, clientVars
<1>3. /\ toClient' \in Seq(Events) /\ Coming' = Coming /\ toClient' # <<>> /\ toClient'[1] = toClient[1]
      /\ \A i, j \in DOMAIN toClient' : i <= j => toClient'[i].seq <= toClient'[j].seq
  BY <1>1, <1>2, Repeated
<1>4. Ordered'
  BY <1>1, <1>2, <1>3 DEF Ordered
<1>5. Left' = Left
  BY <1>2, <1>3 DEF Left
<1>6. Intact' => Intact
  BY <1>2, <1>3 DEF Intact
<1>7. QED
  BY <1>2, <1>3, <1>4, <1>5, <1>6, LeftStays

\* What a call sends is the last message on its way.
LEMMA Sent ==
  ASSUME Typed, NEW m \in Messages, toKernel' = Append(toKernel, m)
  PROVE  /\ toKernel' \in Seq(Messages) /\ Len(toKernel) \in Nat
         /\ toKernel'[Len(toKernel) + 1] = m /\ \A i \in DOMAIN toKernel : toKernel'[i] = toKernel[i]
         /\ Len(toKernel) + 1 \notin DOMAIN toKernel
         /\ DOMAIN toKernel' = DOMAIN toKernel \cup {Len(toKernel) + 1}
         /\ Execs' = IF m.kind = "exec" THEN Execs \cup {Len(toKernel) + 1} ELSE Execs
<1> DEFINE n == Len(toKernel)
<1>1. toKernel \in Seq(Messages) /\ n \in Nat /\ DOMAIN toKernel = 1..n
  BY DEF Typed
<1>2. /\ toKernel' \in Seq(Messages) /\ toKernel'[n + 1] = m /\ DOMAIN toKernel' = 1..(n + 1)
      /\ \A i \in 1..n : toKernel'[i] = toKernel[i]
  BY <1>1
<1> HIDE DEF n
<1>3. 1..(n + 1) = (1..n) \cup {n + 1} /\ n + 1 \notin 1..n
  BY <1>1
<1>4. Execs' = IF m.kind = "exec" THEN Execs \cup {n + 1} ELSE Execs
  BY <1>1, <1>2, <1>3 DEF Execs
<1>5. QED
  BY <1>1, <1>2, <1>3, <1>4 DEF n

\* A cancellation changes nothing that is waited for.
LEMMA CancelKeeps == ASSUME TransportInv, NEW id \in Ids, Cancel(id) PROVE TransportInv'
<1> DEFINE m == [kind |-> "cancel", id |-> id, call |-> 0]
<1>1. /\ calls' = calls + 1 /\ toKernel' = Append(toKernel, m) /\ ~closed
      /\ UNCHANGED <<toClient, seq, jobs, forgone, pending, owner, lastSeq, gaps, closed, outcomes>>
  BY DEF Cancel, kernelVars, clientVars
<1>2. Basics /\ Once /\ OutcomeIsWhole /\ Typed /\ calls \in Nat
  BY DEF TransportInv, Basics, Typed
<1>3. m \in Messages /\ m.kind # "exec"
  BY DEF Messages
<1> HIDE DEF m
<1>4. /\ toKernel' \in Seq(Messages) /\ Execs' = Execs /\ \A i \in Execs : toKernel'[i] = toKernel[i]
  BY <1>1, <1>2, <1>3, Sent DEF Execs
<1>5. Typed'
  BY <1>1, <1>2, <1>4 DEF Typed
<1>6. Left' = Left /\ Coming' = Coming
  BY <1>1 DEF Left, Coming
<1>7. Ordered' /\ Owners' /\ JobsRun' /\ Fresh' /\ Reuse'
  BY <1>1, <1>2, <1>6 DEF Basics, Ordered, Owners, JobsRun, Fresh, Reuse
<1>8. OfJobs' /\ ExitsApart'
  BY <1>1, <1>2, <1>6 DEF Basics, OfJobs, ExitsApart
<1>9. 1..calls \subseteq 1..calls'
  BY <1>1, <1>2
<1>10. CallsApart'
  BY <1>1, <1>2, <1>9 DEF Basics, CallsApart
<1>11. Asked'
  <2>1. Asked
    BY <1>2 DEF Basics
  <2>2. ASSUME NEW i \in Execs
        PROVE  /\ toKernel'[i].call \in 1..calls'
               /\ \A x \in DOMAIN jobs : jobs[x].call # toKernel'[i].call
               /\ \A x \in DOMAIN pending : pending[x].call = toKernel'[i].call <=> x = toKernel'[i].id
               /\ ~closed /\ toKernel'[i].id \notin DOMAIN jobs => toKernel'[i].call \notin DOMAIN outcomes
    BY <1>4, <1>9, <2>1 DEF Asked
  <2>3. \A i, j \in Execs : toKernel'[i].id = toKernel'[j].id \/ toKernel'[i].call = toKernel'[j].call => i = j
    BY <1>4, <2>1 DEF Asked
  <2>4. QED
    BY <1>1, <1>4, <2>2, <2>3 DEF Asked
<1>12. Once' /\ OutcomeIsWhole'
  BY <1>1, <1>2, WholeStays DEF Once
<1>13. ASSUME Intact' PROVE Faithful'
  <2>1. Faithful
    BY <1>1, <1>13 DEF TransportInv, Intact
  <2>2. Over' /\ Refused'
    BY <1>1, <1>6, <2>1 DEF Faithful, Over, Refused, Own
  <2>3. ASSUME NEW x PROVE /\ ExitsCome(x)' = ExitsCome(x) /\ ProcsCome(x)' = ProcsCome(x)
                           /\ OutputComes(x)' = OutputComes(x)
    BY <1>1, <1>6 DEF ExitsCome, ProcsCome, OutputComes, Lag, Missing, Ahead
  <2>4. Awaited'
    BY <1>1, <2>1, <2>3 DEF Faithful, Awaited, Own
  <2>5. QED
    BY <2>2, <2>4 DEF Faithful
<1>14. QED
  BY <1>5, <1>7, <1>8, <1>10, <1>11, <1>12, <1>13 DEF TransportInv, Basics

\* A submission: its call is new, and its id nobody waits for.
LEMMA SubmitKeeps == ASSUME TransportInv, NEW id \in Ids, NEW waits \in BOOLEAN, Submit(id, waits) PROVE TransportInv'
<1> DEFINE m == [kind |-> "exec", id |-> id, call |-> calls + 1]
           p == [call |-> calls + 1, procs |-> {}, exits |-> <<>>, values |-> 0, errors |-> <<>>]
           c == calls + 1
           n == Len(toKernel) + 1
<1>1. /\ calls' = c /\ toKernel' = Append(toKernel, m) /\ Reusable(id) /\ ~closed
      /\ pending' = IF waits THEN With(pending, id, p) ELSE pending
      /\ UNCHANGED <<toClient, seq, jobs, forgone, owner, lastSeq, gaps, closed, outcomes>>
  BY DEF Submit, kernelVars
<1>2. Basics /\ Once /\ OutcomeIsWhole /\ Typed /\ calls \in Nat
  BY DEF TransportInv, Basics, Typed
<1>3. m \in Messages /\ m.kind = "exec" /\ m.id = id /\ m.call = c
  BY <1>2 DEF Messages
<1>4. p \in Waiting /\ p.call = c /\ p.procs = {} /\ p.exits = <<>> /\ p.values = 0 /\ p.errors = <<>>
  <2>1. <<>> \in Seq(Pid)
    OBVIOUS
  <2>2. QED
    BY <1>2, <2>1 DEF Waiting
<1>5. c \in 1..c /\ c \notin 1..calls /\ 1..calls \subseteq 1..c /\ c \in Nat
  BY <1>2
<1> HIDE DEF m, p, c
<1>6. /\ toKernel' \in Seq(Messages) /\ toKernel'[n] = m /\ \A i \in DOMAIN toKernel : toKernel'[i] = toKernel[i]
      /\ n \notin DOMAIN toKernel /\ Execs' = Execs \cup {n} /\ Execs \subseteq DOMAIN toKernel
  BY <1>1, <1>2, <1>3, Sent DEF Execs
<1> HIDE DEF n
<1>7. /\ id \notin DOMAIN pending /\ \A i \in DOMAIN toKernel : toKernel[i].id # id
      /\ id \in DOMAIN jobs => jobs[id].call \in DOMAIN outcomes
  BY <1>1 DEF Reusable
<1>8. /\ DOMAIN pending' \subseteq DOMAIN pending \cup {id} /\ DOMAIN pending \subseteq DOMAIN pending'
      /\ \A x \in DOMAIN pending : pending'[x] = pending[x] /\ x # id
      /\ id \in DOMAIN pending' => pending'[id] = p
      /\ pending' = [x \in DOMAIN pending' |-> pending'[x]]
  BY <1>1, <1>2, <1>7 DEF With, Typed
<1>9. Typed'
  <2>1. pending' \in [DOMAIN pending' -> Waiting] /\ DOMAIN pending' \subseteq Ids
    BY <1>2, <1>4, <1>8 DEF Typed
  <2>2. QED
    BY <1>1, <1>2, <1>5, <1>6, <2>1 DEF Typed
<1>10. Left' = Left /\ Coming' = Coming
  BY <1>1 DEF Left, Coming
<1>11. Ordered' /\ JobsRun'
  BY <1>1, <1>2, <1>10 DEF Basics, Ordered, JobsRun
<1>12. OfJobs'
  BY <1>1, <1>2, <1>10 DEF Basics, OfJobs
<1>13. Owners'
  <2>1. ASSUME NEW pid \in DOMAIN owner
        PROVE  pid[1] = owner[pid] /\ owner[pid] \in DOMAIN pending' /\ pid \in pending'[owner[pid]].procs
    BY <1>2, <1>8 DEF Basics, Owners
  <2>2. ASSUME NEW x \in DOMAIN pending', NEW pid \in pending'[x].procs PROVE pid[1] = x /\ pid \in DOMAIN owner
    <3>1. x # id
      BY <1>4, <1>8, <2>2
    <3>2. QED
      BY <1>2, <1>8, <3>1 DEF Basics, Owners
  <2>3. QED
    BY <1>1, <2>1, <2>2 DEF Owners
<1>14. CallsApart'
  <2>1. /\ \A x \in DOMAIN pending : pending[x].call \in 1..calls \ DOMAIN outcomes
        /\ \A x \in DOMAIN jobs : jobs[x].call \in 1..calls /\ DOMAIN outcomes \subseteq 1..calls
        /\ DOMAIN outcomes \subseteq 1..calls
    BY <1>2 DEF Basics, CallsApart
  <2>2. ASSUME NEW x \in DOMAIN pending' PROVE (x = id /\ pending'[x].call = c) \/ (x \in DOMAIN pending /\ x # id)
    <3>1. CASE x = id
      BY <1>4, <1>8, <3>1
    <3>2. CASE x # id
      BY <1>8, <3>2
    <3>3. QED
      BY <3>1, <3>2
  <2>3. \A x \in DOMAIN pending' : pending'[x].call \in 1..c \ DOMAIN outcomes
    BY <1>5, <1>8, <2>1, <2>2
  <2>4. ASSUME NEW x \in DOMAIN pending', NEW y \in DOMAIN pending', pending'[x].call = pending'[y].call PROVE x = y
    BY <1>2, <1>5, <1>8, <2>1, <2>2, <2>4 DEF Basics, CallsApart
  <2>5. ASSUME NEW x \in DOMAIN pending', NEW y \in DOMAIN jobs, pending'[x].call = jobs[y].call PROVE x = y
    BY <1>2, <1>5, <1>8, <2>1, <2>2, <2>5 DEF Basics, CallsApart
  <2>6. \A x, y \in DOMAIN jobs : jobs[x].call = jobs[y].call => x = y
    BY <1>2 DEF Basics, CallsApart
  <2>7. QED
    BY <1>1, <1>5, <2>1, <2>3, <2>4, <2>5, <2>6 DEF CallsApart
<1>15. Asked'
  <2>1. ASSUME NEW i \in Execs
        PROVE  /\ toKernel'[i] = toKernel[i] /\ toKernel[i].call \in 1..calls
               /\ toKernel[i].call # c /\ toKernel[i].id # id /\ i # n
    BY <1>2, <1>5, <1>6, <1>7 DEF Basics, Asked
  <2>2. toKernel'[n].call = c /\ toKernel'[n].id = id
    BY <1>3, <1>6
  <2>3. \A i \in Execs' : i = n \/ i \in Execs
    BY <1>6
  <2>4. \A i \in Execs' : toKernel'[i].call \in 1..calls'
    BY <1>1, <1>5, <2>1, <2>2, <2>3
  <2>5. ASSUME NEW i \in Execs', NEW j \in Execs',
               toKernel'[i].id = toKernel'[j].id \/ toKernel'[i].call = toKernel'[j].call
        PROVE  i = j
    <3>1. CASE i \in Execs /\ j \in Execs
      BY <1>2, <2>1, <2>5, <3>1 DEF Basics, Asked
    <3>2. CASE ~(i \in Execs /\ j \in Execs)
      BY <2>1, <2>2, <2>3, <2>5, <3>2
    <3>3. QED
      BY <3>1, <3>2
  <2>6. ASSUME NEW i \in Execs', NEW x \in DOMAIN jobs PROVE jobs[x].call # toKernel'[i].call
    <3>1. jobs[x].call # c
      BY <1>2, <1>5 DEF Basics, CallsApart
    <3>2. QED
      BY <1>2, <2>1, <2>2, <2>3, <3>1 DEF Basics, Asked
  <2>7. ASSUME NEW i \in Execs', NEW x \in DOMAIN pending'
        PROVE  pending'[x].call = toKernel'[i].call <=> x = toKernel'[i].id
    <3>1. CASE x = id
      BY <1>4, <1>8, <2>1, <2>2, <2>3, <3>1
    <3>2. CASE x # id
      <4>1. x \in DOMAIN pending /\ pending'[x] = pending[x] /\ pending[x].call # c
        BY <1>2, <1>5, <1>8, <3>2 DEF Basics, CallsApart
      <4>2. CASE i = n
        BY <2>2, <3>2, <4>1, <4>2
      <4>3. CASE i \in Execs
        BY <1>2, <2>1, <4>1, <4>3 DEF Basics, Asked
      <4>4. QED
        BY <2>3, <4>2, <4>3
    <3>3. QED
      BY <3>1, <3>2
  <2>8. ASSUME NEW i \in Execs', ~closed, toKernel'[i].id \notin DOMAIN jobs
        PROVE  toKernel'[i].call \notin DOMAIN outcomes
    <3>1. c \notin DOMAIN outcomes
      BY <1>2, <1>5 DEF Basics, CallsApart
    <3>2. QED
      BY <1>2, <2>1, <2>2, <2>3, <2>8, <3>1 DEF Basics, Asked
  <2>9. QED
    BY <1>1, <2>4, <2>5, <2>6, <2>7, <2>8 DEF Asked
<1>16. Fresh' /\ Reuse'
  BY <1>1, <1>2, <1>4, <1>7, <1>8 DEF Basics, Fresh, Reuse
<1>17. ExitsApart'
  <2>1. IsInjective(<<>>) /\ DOMAIN <<>> = {}
    BY DEF IsInjective
  <2>2. ASSUME NEW x \in DOMAIN pending'
        PROVE  /\ IsInjective(pending'[x].exits)
               /\ \A k \in DOMAIN pending'[x].exits :
                    /\ x \in DOMAIN jobs /\ pending'[x].exits[k][1] = x
                    /\ \E i \in DOMAIN jobs[x].exits : pending'[x].exits[k][2] = jobs[x].exits[i]
                    /\ \A e \in Left : e.kind = "exit" => e.pid # pending'[x].exits[k]
    <3>1. CASE x = id
      BY <1>4, <1>8, <2>1, <3>1
    <3>2. CASE x # id
      BY <1>2, <1>8, <3>2 DEF Basics, ExitsApart
    <3>3. QED
      BY <3>1, <3>2
  <2>3. \A e, f \in Coming : e.kind = "exit" /\ f.kind = "exit" /\ e.pid = f.pid => e = f
    BY <1>2 DEF Basics, ExitsApart
  <2>4. QED
    BY <1>1, <1>10, <2>2, <2>3 DEF ExitsApart
<1>18. Once' /\ OutcomeIsWhole'
  BY <1>1, <1>2, WholeStays DEF Once
<1>19. ASSUME Intact' PROVE Faithful'
  <2>1. Faithful
    BY <1>1, <1>19 DEF TransportInv, Intact
  <2>2. ASSUME NEW x \in DOMAIN pending', x \in DOMAIN jobs, jobs[x].call = pending'[x].call
        PROVE  x \in DOMAIN pending /\ pending'[x] = pending[x] /\ Own(x)
    <3>1. jobs[x].call # c
      BY <1>2, <1>5, <2>2 DEF Basics, CallsApart
    <3>2. x # id
      BY <1>4, <1>8, <2>2, <3>1
    <3>3. QED
      BY <1>8, <2>2, <3>2 DEF Own
  <2>3. Over'
    BY <1>1, <1>10, <2>1 DEF Faithful, Over
  <2>4. Refused'
    BY <1>1, <1>10, <2>1, <2>2 DEF Faithful, Refused, Own
  <2>5. ASSUME NEW x \in DOMAIN pending', x \in DOMAIN jobs, jobs[x].call = pending'[x].call, jobs[x].n > 0
        PROVE  ExitsCome(x)' /\ ProcsCome(x)' /\ OutputComes(x)'
    <3>1. pending'[x] = pending[x] /\ ExitsCome(x) /\ ProcsCome(x) /\ OutputComes(x)
      BY <2>1, <2>2, <2>5 DEF Faithful, Awaited
    <3>2. QED
      BY <1>1, <1>10, <3>1 DEF ExitsCome, ProcsCome, OutputComes, Lag, Missing, Ahead
  <2>6. Awaited'
    BY <1>1, <2>5 DEF Awaited, Own
  <2>7. QED
    BY <2>3, <2>4, <2>6 DEF Faithful
<1>20. QED
  BY <1>9, <1>11, <1>12, <1>13, <1>14, <1>15, <1>16, <1>17, <1>18, <1>19 DEF TransportInv,
     Basics

\* close() settles every promise that waits, once, with what has arrived.
LEMMA CloseKeeps == ASSUME TransportInv, Close PROVE TransportInv'
<1> DEFINE Cs == {pending[id].call : id \in DOMAIN pending}
           W(c) == CHOOSE i \in DOMAIN pending : pending[i].call = c
           o(c) == Outcome(pending[W(c)], "closed")
<1>1. /\ closed' /\ closed' \in BOOLEAN /\ pending' = <<>> /\ owner' = <<>> /\ toClient' = <<>>
      /\ UNCHANGED <<toKernel, seq, jobs, forgone, lastSeq, gaps, calls>>
      /\ outcomes' = [c \in DOMAIN outcomes \cup Cs |->
            IF \E id \in DOMAIN pending : pending[id].call = c THEN <<o(c)>> ELSE outcomes[c]]
  BY DEF Close, kernelVars
<1>2. Basics /\ Once /\ OutcomeIsWhole /\ Typed
  BY DEF TransportInv, Basics
<1>3. ASSUME NEW c \in Cs
      PROVE  W(c) \in DOMAIN pending /\ \E id \in DOMAIN pending : pending[id].call = c
  OBVIOUS
<1>4. ASSUME NEW c \in Cs
      PROVE  /\ o(c) \in Results /\ o(c).rejected = "closed" /\ IsInjective(o(c).exits)
             /\ outcomes'[c] = <<o(c)>> /\ c \in 1..calls
  <2>1. W(c) \in DOMAIN pending /\ \E id \in DOMAIN pending : pending[id].call = c
    BY <1>3
  <2>2. outcomes'[c] = <<o(c)>>
    BY <1>1, <2>1
  <2> HIDE DEF W
  <2>3. pending[W(c)] \in Waiting /\ IsInjective(pending[W(c)].exits)
    BY <1>2, <2>1 DEF Basics, Typed, ExitsApart
  <2>4. o(c) \in Results /\ o(c).rejected = "closed" /\ o(c).exits = pending[W(c)].exits
    BY <2>3 DEF Outcome, Results, Waiting
  <2>5. c \in 1..calls
    BY <1>2, <2>1 DEF Basics, CallsApart
  <2>6. QED
    BY <2>2, <2>3, <2>4, <2>5
<1>5. ASSUME NEW c \in DOMAIN outcomes PROVE c \notin Cs /\ outcomes'[c] = outcomes[c]
  <2>1. ~\E id \in DOMAIN pending : pending[id].call = c
    BY <1>2 DEF Basics, CallsApart
  <2>2. QED
    BY <1>1, <2>1
<1>6. DOMAIN outcomes' = DOMAIN outcomes \cup Cs /\ outcomes' = [c \in DOMAIN outcomes' |-> outcomes'[c]]
  BY <1>1
<1> HIDE DEF o, W, Cs
<1>7. ASSUME NEW c \in Cs PROVE <<o(c)>> \in Seq(Results) /\ Len(<<o(c)>>) = 1 /\ <<o(c)>>[1] = o(c)
  BY <1>4
<1>8. ASSUME NEW c \in DOMAIN outcomes'
      PROVE  /\ outcomes'[c] \in Seq(Results) /\ Len(outcomes'[c]) = 1 /\ IsInjective(outcomes'[c][1].exits)
             /\ c \in 1..calls
  <2>1. CASE c \in Cs
    BY <1>4, <1>7, <2>1
  <2>2. CASE c \in DOMAIN outcomes
    <3>1. outcomes[c] \in Seq(Results) /\ c \in 1..calls
      BY <1>2, <2>2 DEF Basics, Typed, CallsApart
    <3>2. QED
      BY <1>2, <1>5, <2>2, <3>1 DEF Once
  <2>3. QED
    BY <1>6, <2>1, <2>2
<1>9. outcomes' \in [DOMAIN outcomes' -> Seq(Results)]
  BY <1>6, <1>8
<1>10. DOMAIN pending' = {} /\ DOMAIN owner' = {} /\ DOMAIN toClient' = {} /\ toClient' \in Seq(Events)
  BY <1>1
<1>11. pending' \in [DOMAIN pending' -> Waiting] /\ owner' \in [DOMAIN owner' -> Ids]
  BY <1>10, <1>1
<1>12. Typed'
  BY <1>1, <1>2, <1>9, <1>10, <1>11 DEF Typed
<1>13. Coming' = {} /\ Left' = {}
  BY <1>10 DEF Coming, Left
<1>14. Ordered' /\ OfJobs' /\ ExitsApart'
  BY <1>1, <1>2, <1>10, <1>13 DEF Basics, Ordered, OfJobs, ExitsApart
<1>15. Owners' /\ Fresh' /\ Reuse' /\ JobsRun'
  BY <1>1, <1>2, <1>10 DEF Basics, Owners, Fresh, Reuse, JobsRun
<1>16. CallsApart'
  <2>1. DOMAIN outcomes' \subseteq 1..calls'
    BY <1>1, <1>8
  <2>2. QED
    BY <1>1, <1>2, <1>10, <2>1 DEF Basics, CallsApart
<1>17. Asked'
  <2>1. Execs' = Execs
    BY <1>1 DEF Execs
  <2>2. QED
    BY <1>1, <1>2, <1>10, <2>1 DEF Basics, Asked
<1>18. Once'
  BY <1>8 DEF Once
<1>19. OutcomeIsWhole'
  <2>1. SUFFICES ASSUME NEW d \in DOMAIN outcomes', gaps' = 0, outcomes'[d][1].rejected # "closed"
                 PROVE  IF outcomes'[d][1].rejected = "yes"
                        THEN ~\E x \in DOMAIN jobs : jobs[x].call = d /\ jobs[x].n > 0
                        ELSE \E x \in DOMAIN jobs :
                               /\ jobs[x].call = d /\ jobs[x].n > 0 /\ jobs[x].live = {}
                               /\ outcomes'[d][1].exits = Pids(x, jobs[x].exits)
                               /\ outcomes'[d][1].values = jobs[x].values
                               /\ outcomes'[d][1].errors = Pids(x, jobs[x].errors)
    <3>1. jobs' = jobs
      BY <1>1
    <3>2. QED
      BY <3>1 DEF OutcomeIsWhole
  <2>2. d \notin Cs
    BY <1>4, <1>7, <2>1
  <2>3. d \in DOMAIN outcomes /\ outcomes'[d] = outcomes[d] /\ gaps = 0
    BY <1>1, <1>5, <1>6, <2>1, <2>2
  <2>4. QED
    BY <1>2, <2>1, <2>3 DEF OutcomeIsWhole
<1>20. ~Intact'
  BY <1>1 DEF Intact
<1>21. QED
  BY <1>12, <1>14, <1>15, <1>16, <1>17, <1>18, <1>19, <1>20 DEF TransportInv, Basics

-----------------------------------------------------------------------------
(* What the kernel publishes.                                              *)

News == [kind : Kinds, id : Ids, pid : Pid \cup {<<>>}]
Stamped(evs, i) == [kind |-> evs[i].kind, id |-> evs[i].id, pid |-> evs[i].pid, seq |-> seq + i]

\* What is published is what comes next.
LEMMA Published ==
  ASSUME Typed, Ordered, NEW evs \in Seq(News), evs # <<>>, Publish(evs),
         UNCHANGED <<lastSeq, gaps, closed, pending>>
  PROVE  /\ toClient = <<>> /\ ~closed /\ Len(evs) \in Nat \ {0} /\ seq' = seq + Len(evs) /\ seq' \in Nat
         /\ toClient' \in Seq(Events) /\ Ordered' /\ Left' = Coming' /\ Coming = {}
         /\ \A i \in 1..Len(evs) : Stamped(evs, i) \in Coming'
         /\ \A e \in Coming' : \E i \in 1..Len(evs) : e = Stamped(evs, i)
         /\ Intact' => Intact /\ lastSeq = seq
<1> DEFINE n == Len(evs)
<1>1. /\ ~closed /\ toClient = <<>> /\ seq' = seq + n
      /\ toClient' = [i \in DOMAIN evs |-> Stamped(evs, i)]
  BY DEF Publish, Stamped
<1>2. n \in Nat \ {0} /\ DOMAIN evs = 1..n /\ evs \in [1..n -> News] /\ seq \in Nat /\ lastSeq \in Nat
  BY DEF Typed
<1>3. ASSUME NEW i \in 1..n PROVE Stamped(evs, i) \in Events /\ Stamped(evs, i).seq = seq + i
  <2>1. evs[i] \in News /\ seq + i \in Nat
    BY <1>2
  <2>2. QED
    BY <2>1 DEF Stamped, News, Events
<1> HIDE DEF n
<1>4. toClient' = [i \in 1..n |-> Stamped(evs, i)] /\ DOMAIN toClient' = 1..n
  BY <1>1, <1>2
<1>5. toClient' \in Seq(Events)
  <2>1. toClient' \in [1..n -> Events]
    BY <1>3, <1>4
  <2>2. QED
    BY <1>2, <2>1
<1>6. /\ \A i \in 1..n : Stamped(evs, i) \in Coming'
      /\ \A e \in Coming' : \E i \in 1..n : e = Stamped(evs, i)
  BY <1>4 DEF Coming
<1>7. \A i \in 1..n : seq + i \in 1..seq' /\ seq + i > lastSeq
  BY <1>1, <1>2 DEF Ordered
<1>8. Left' = Coming'
  BY <1>3, <1>6, <1>7 DEF Left
<1>9. Ordered'
  <2>1. \A e \in Coming' : e.seq \in 1..seq'
    BY <1>3, <1>6, <1>7
  <2>2. ASSUME NEW e \in Coming', NEW f \in Coming', e.seq = f.seq PROVE e = f
    <3>1. PICK i \in 1..n : e = Stamped(evs, i)
      BY <1>6
    <3>2. PICK k \in 1..n : f = Stamped(evs, k)
      BY <1>6
    <3>3. seq + i = seq + k
      BY <1>3, <2>2, <3>1, <3>2
    <3>4. i = k
      BY <1>2, <3>3
    <3>5. QED
      BY <3>1, <3>2, <3>4
  <2>3. ASSUME NEW i \in 1..n, NEW k \in 1..n, i <= k PROVE toClient'[i].seq <= toClient'[k].seq
    <3>1. toClient'[i].seq = seq + i /\ toClient'[k].seq = seq + k
      BY <1>3, <1>4
    <3>2. QED
      BY <1>2, <2>3, <3>1
  <2>4. lastSeq' <= seq'
    BY <1>1, <1>2 DEF Ordered
  <2>5. QED
    BY <1>1, <1>4, <2>1, <2>2, <2>3, <2>4 DEF Ordered
<1>10. ASSUME Intact' PROVE Intact /\ lastSeq = seq
  <2>1. 1 \in 1..n
    BY <1>2
  <2>2. toClient'[1].seq = seq + 1 /\ toClient' # <<>>
    BY <1>3, <1>4, <2>1
  <2>3. gaps = 0 /\ seq + 1 <= lastSeq + 1
    BY <1>10, <2>2 DEF Intact
  <2>4. lastSeq = seq
    BY <1>2, <2>3 DEF Ordered
  <2>5. QED
    BY <1>1, <2>3, <2>4 DEF Intact
<1>11. Coming = {} /\ seq' \in Nat
  BY <1>1, <1>2 DEF Coming
<1>12. QED
  BY <1>1, <1>2, <1>5, <1>6, <1>8, <1>9, <1>10, <1>11 DEF n

\* A request that the client has heard all of.
CaughtUp(id) ==
  /\ Missing(id) = 0 /\ pending[id].procs = {id} \X (1..jobs[id].n)
  /\ \A k \in DOMAIN pending[id].exits : pending[id].exits[k] = <<id, jobs[id].exits[k]>>
  /\ jobs[id].values = pending[id].values /\ Len(jobs[id].errors) = Len(pending[id].errors)
  /\ \A k \in DOMAIN pending[id].errors : pending[id].errors[k] = <<id, jobs[id].errors[k]>>

\* With nothing under way, every request that runs is caught up.
LEMMA Quiet ==
  ASSUME Basics, Faithful, Coming = {}, lastSeq = seq, NEW id \in DOMAIN pending, Own(id), jobs[id].n > 0
  PROVE  CaughtUp(id) /\ id \in DOMAIN jobs
<1>1. id \in DOMAIN jobs /\ ExitsCome(id) /\ ProcsCome(id) /\ OutputComes(id) /\ Left = {} /\ seq \in Nat
  BY DEF Faithful, Awaited, Own, Left, Basics, Typed
<1>2. pending[id] \in Waiting /\ jobs[id] \in Transcripts
  BY <1>1 DEF Basics, Typed
<1>3. Missing(id) = 0
  <2> DEFINE m == Missing(id)
  <2>1. m \in Int
    BY <1>2 DEF Missing, Waiting, Transcripts
  <2>2. m >= 0 /\ (m > 0 => seq - lastSeq >= 2 * m - 1)
    BY <1>1 DEF ExitsCome
  <2> HIDE DEF m
  <2>3. m = 0
    BY <1>1, <2>1, <2>2
  <2>4. QED
    BY <2>3 DEF m
<1>4. pending[id].procs = {id} \X (1..jobs[id].n)
  BY <1>1 DEF ProcsCome
<1>5. Lag(id, "objects") = 0 /\ Lag(id, "stream") = 0
  BY <1>1 DEF Lag
<1>6. jobs[id].values = pending[id].values /\ Len(jobs[id].errors) = Len(pending[id].errors)
  BY <1>1, <1>2, <1>5 DEF OutputComes, Waiting
<1>7. QED
  BY <1>1, <1>3, <1>4, <1>6 DEF CaughtUp, ExitsCome, OutputComes

\* It stays so while what is published is not about it.
LEMMA StillWaits ==
  ASSUME Typed, NEW id \in DOMAIN pending, id \in DOMAIN jobs, CaughtUp(id), Ordered', seq' \in Nat,
         pending'[id] = pending[id], jobs'[id] = jobs[id], \A e \in Left' : e.id # id
  PROVE  ExitsCome(id)' /\ ProcsCome(id)' /\ OutputComes(id)'
<1>1. Missing(id)' = 0
  BY DEF CaughtUp, Missing
<1>2. ASSUME NEW e \in Left' PROVE ~(Ahead(e)' < 2 * 0)
  <2>1. e.seq \in 1..seq'
    BY DEF Left, Ordered
  <2>2. QED
    BY <2>1 DEF Ahead
<1>3. ExitsCome(id)'
  BY <1>1, <1>2 DEF CaughtUp, ExitsCome
<1>4. ProcsCome(id)'
  BY DEF CaughtUp, ProcsCome
<1>5. Lag(id, "objects")' = 0 /\ Lag(id, "stream")' = 0
  BY DEF Lag
<1>6. jobs[id].values \in Nat /\ Len(pending[id].errors) \in Nat /\ Len(jobs[id].errors) = Len(pending[id].errors)
  BY DEF CaughtUp, Typed, Transcripts, Waiting
<1>7. OutputComes(id)'
  BY <1>5, <1>6 DEF CaughtUp, OutputComes
<1>8. QED
  BY <1>3, <1>4, <1>7

\* A request's work goes on, or begins: what is published of it, in one go, keeps everything.
LEMMA Publishes ==
  ASSUME TransportInv, NEW evs \in Seq(News), evs # <<>>, Publish(evs),
         NEW id \in Ids, NEW j \in Transcripts, JobOK(j), jobs' = With(jobs, id, j),
         UNCHANGED <<pending, owner, lastSeq, gaps, closed, outcomes, calls>>,
         toKernel' \in Seq(Messages), forgone' \subseteq Ids,
         CallsApart', Asked', Fresh', Reuse', OutcomeIsWhole',
         \A i \in 1..Len(evs) :
           /\ evs[i].id = id
           /\ evs[i].kind \in Named => evs[i].pid \in {id} \X (1..j.n)
           /\ evs[i].kind \in {"rejected", "objects", "stream"} => i = Len(evs)
           /\ evs[i].kind = "exit" => /\ \E k \in DOMAIN j.exits : evs[i].pid[2] = j.exits[k]
                                      /\ id \in DOMAIN jobs =>
                                           \A k \in DOMAIN jobs[id].exits : evs[i].pid[2] # jobs[id].exits[k],
         \A i, k \in 1..Len(evs) :
           evs[i].kind = "exit" /\ evs[k].kind = "exit" /\ evs[i].pid = evs[k].pid => i = k,
         id \in DOMAIN jobs =>
           \A k \in DOMAIN jobs[id].exits : \E m \in DOMAIN j.exits : j.exits[m] = jobs[id].exits[k],
         Intact /\ j.call \in DOMAIN outcomes =>
           j.live = {} /\ \A i \in 1..Len(evs) : evs[i].kind = "rejected",
         id \in DOMAIN pending /\ pending[id].call = j.call =>
           \A i \in 1..Len(evs) : evs[i].kind = "rejected" => j.n = 0,
         ASSUME Intact, Faithful, lastSeq = seq, id \in DOMAIN pending, pending[id].call = j.call, j.n > 0
         PROVE  ExitsCome(id)' /\ ProcsCome(id)' /\ OutputComes(id)'
  PROVE  TransportInv'
<1> DEFINE n == Len(evs)
<1>1. Basics /\ Once /\ Typed /\ Ordered
  BY DEF TransportInv, Basics
<1>2. /\ toClient = <<>> /\ ~closed /\ n \in Nat \ {0} /\ seq' = seq + n /\ seq' \in Nat
      /\ toClient' \in Seq(Events) /\ Ordered' /\ Left' = Coming' /\ Coming = {}
      /\ \A i \in 1..n : Stamped(evs, i) \in Coming'
      /\ \A e \in Coming' : \E i \in 1..n : e = Stamped(evs, i)
      /\ Intact' => Intact /\ lastSeq = seq
  BY <1>1, Published
<1>3. /\ DOMAIN jobs' = DOMAIN jobs \cup {id} /\ jobs'[id] = j
      /\ \A x \in DOMAIN jobs : x # id => jobs'[x] = jobs[x]
      /\ jobs' = [x \in DOMAIN jobs' |-> jobs'[x]]
  BY DEF With
<1>4. Typed'
  <2>1. jobs' \in [DOMAIN jobs' -> Transcripts] /\ DOMAIN jobs' \subseteq Ids
    BY <1>1, <1>3 DEF Typed
  <2>2. QED
    BY <1>1, <1>2, <2>1 DEF Typed
<1>5. Owners' /\ Once'
  BY <1>1 DEF Basics, Owners, Once
<1>6. JobsRun'
  BY <1>1, <1>3 DEF Basics, JobsRun
<1>7. ASSUME NEW i \in 1..n
      PROVE  /\ Stamped(evs, i).id = id /\ Stamped(evs, i).kind = evs[i].kind
             /\ Stamped(evs, i).pid = evs[i].pid /\ Stamped(evs, i).seq = seq + i
  BY DEF Stamped
<1>8. OfJobs'
  <2>1. ASSUME NEW e \in Coming'
        PROVE  /\ e.id \in DOMAIN jobs'
               /\ e.kind \in Named => e.pid \in {e.id} \X (1..jobs'[e.id].n)
               /\ e.kind = "exit" => \E k \in DOMAIN jobs'[e.id].exits : e.pid[2] = jobs'[e.id].exits[k]
               /\ e.kind \in {"rejected", "objects", "stream"} => e.seq = seq'
    <3>1. PICK i \in 1..n : e = Stamped(evs, i)
      BY <1>2
    <3>2. e.id = id /\ e.kind = evs[i].kind /\ e.pid = evs[i].pid /\ e.seq = seq + i
      BY <1>7, <3>1
    <3>3. QED
      BY <1>2, <1>3, <3>2
  <2>2. QED
    BY <2>1 DEF OfJobs
<1>9. ExitsApart'
  <2>1. ASSUME NEW e \in Coming', NEW f \in Coming', e.kind = "exit", f.kind = "exit", e.pid = f.pid PROVE e = f
    <3>1. PICK i \in 1..n : e = Stamped(evs, i)
      BY <1>2
    <3>2. PICK k \in 1..n : f = Stamped(evs, k)
      BY <1>2
    <3>3. i = k
      BY <1>7, <2>1, <3>1, <3>2
    <3>4. QED
      BY <3>1, <3>2, <3>3
  <2>2. ASSUME NEW x \in DOMAIN pending, NEW k \in DOMAIN pending[x].exits
        PROVE  /\ x \in DOMAIN jobs' /\ pending[x].exits[k][1] = x
               /\ \E m \in DOMAIN jobs'[x].exits : pending[x].exits[k][2] = jobs'[x].exits[m]
               /\ \A e \in Left' : e.kind = "exit" => e.pid # pending[x].exits[k]
    <3>1. PICK m \in DOMAIN jobs[x].exits : pending[x].exits[k][2] = jobs[x].exits[m]
      BY <1>1 DEF Basics, ExitsApart
    <3>2. x \in DOMAIN jobs /\ pending[x].exits[k][1] = x
      BY <1>1 DEF Basics, ExitsApart
    <3>3. \E i \in DOMAIN jobs'[x].exits : pending[x].exits[k][2] = jobs'[x].exits[i]
      BY <1>3, <3>1, <3>2
    <3>4. ASSUME NEW e \in Left', e.kind = "exit", e.pid = pending[x].exits[k] PROVE FALSE
      <4>1. PICK i \in 1..n : e = Stamped(evs, i)
        BY <1>2
      <4>2. evs[i].kind = "exit" /\ e.pid = evs[i].pid
        BY <1>7, <3>4, <4>1
      <4>3. evs[i].pid \in {id} \X (1..j.n)
        BY <4>2 DEF Named
      <4>4. x = id
        BY <3>2, <3>4, <4>2, <4>3
      <4>5. QED
        BY <3>1, <3>2, <3>4, <4>2, <4>4
    <3>5. QED
      BY <1>3, <3>2, <3>3, <3>4
  <2>3. \A x \in DOMAIN pending : IsInjective(pending[x].exits)
    BY <1>1 DEF Basics, ExitsApart
  <2>4. QED
    BY <2>1, <2>2, <2>3 DEF ExitsApart
<1>10. Basics'
  BY <1>2, <1>4, <1>5, <1>6, <1>8, <1>9 DEF Basics
<1>11. ASSUME Intact' PROVE Faithful'
  <2>1. Intact /\ lastSeq = seq /\ Faithful
    BY <1>2, <1>11 DEF TransportInv
  <2>2. \A e \in Left' : e.id = id /\ \E i \in 1..n : e.kind = evs[i].kind
    BY <1>2, <1>7
  <2>3. Over'
    <3>1. ASSUME NEW x \in DOMAIN jobs', jobs'[x].call \in DOMAIN outcomes
          PROVE  jobs'[x].live = {} /\ \A e \in Left' : e.id = x => e.kind = "rejected"
      <4>1. CASE x = id
        BY <1>3, <2>1, <2>2, <3>1, <4>1
      <4>2. CASE x # id
        BY <1>3, <2>1, <2>2, <3>1, <4>2 DEF Faithful, Over
      <4>3. QED
        BY <4>1, <4>2
    <3>2. QED
      BY <3>1 DEF Over
  <2>4. Refused'
    <3>1. ASSUME NEW e \in Left', e.kind = "rejected", e.id \in DOMAIN pending, Own(e.id)'
          PROVE  jobs'[e.id].n = 0
      <4>1. e.id = id /\ pending[id].call = j.call
        BY <1>3, <2>2, <3>1 DEF Own
      <4>2. QED
        BY <1>3, <2>2, <3>1, <4>1
    <3>2. QED
      BY <3>1 DEF Refused
  <2>5. ASSUME NEW x \in DOMAIN pending, Own(x)', jobs'[x].n > 0
        PROVE  ExitsCome(x)' /\ ProcsCome(x)' /\ OutputComes(x)'
    <3>1. CASE x = id
      BY <1>3, <2>1, <2>5, <3>1 DEF Own
    <3>2. CASE x # id
      <4>1. x \in DOMAIN jobs /\ jobs'[x] = jobs[x] /\ Own(x) /\ jobs[x].n > 0
        BY <1>3, <2>5, <3>2 DEF Own
      <4>2. CaughtUp(x)
        BY <1>1, <1>2, <2>1, <4>1, Quiet
      <4>3. QED
        BY <1>1, <1>2, <2>2, <3>2, <4>1, <4>2, StillWaits
    <3>3. QED
      BY <3>1, <3>2
  <2>6. Awaited'
    BY <2>5 DEF Awaited
  <2>7. QED
    BY <2>3, <2>4, <2>6 DEF Faithful
<1>12. QED
  BY <1>5, <1>10, <1>11 DEF TransportInv

\* The same of the jobs there are now.
LEMMA WholeFrom ==
  ASSUME UNCHANGED <<outcomes, gaps>>,
         ASSUME NEW d \in DOMAIN outcomes, gaps = 0, outcomes[d][1].rejected # "closed"
         PROVE  IF outcomes[d][1].rejected = "yes"
                THEN ~\E x \in DOMAIN jobs' : jobs'[x].call = d /\ jobs'[x].n > 0
                ELSE \E x \in DOMAIN jobs' :
                       /\ jobs'[x].call = d /\ jobs'[x].n > 0 /\ jobs'[x].live = {}
                       /\ outcomes[d][1].exits = Pids(x, jobs'[x].exits)
                       /\ outcomes[d][1].values = jobs'[x].values
                       /\ outcomes[d][1].errors = Pids(x, jobs'[x].errors)
  PROVE  OutcomeIsWhole'
BY DEF OutcomeIsWhole

\* Work on a request that has not ended answers no call that was not answered yet.
LEMMA WorkStays ==
  ASSUME TransportInv, NEW id \in DOMAIN jobs, NEW j, j.call = jobs[id].call, j.n = jobs[id].n,
         jobs[id].live # {}, jobs' = With(jobs, id, j), UNCHANGED <<toKernel, pending, outcomes, gaps, closed, calls>>
  PROVE  /\ CallsApart' /\ Asked' /\ Fresh' /\ Reuse' /\ OutcomeIsWhole' /\ jobs[id].n > 0
         /\ Intact => j.call \notin DOMAIN outcomes
<1>1. /\ DOMAIN jobs' = DOMAIN jobs /\ jobs'[id] = j
      /\ \A x \in DOMAIN jobs : x # id => jobs'[x] = jobs[x]
      /\ \A x \in DOMAIN jobs : jobs'[x].call = jobs[x].call /\ jobs'[x].n = jobs[x].n
  BY DEF With
<1>2. Basics
  BY DEF TransportInv
<1>3. CallsApart' /\ Fresh' /\ Reuse'
  BY <1>1, <1>2 DEF Basics, CallsApart, Fresh, Reuse
<1>4. Asked'
  <2>1. Execs' = Execs
    BY DEF Execs
  <2>2. QED
    BY <1>1, <1>2, <2>1 DEF Basics, Asked
<1>5. jobs[id].n > 0
  <2>1. jobs[id].live \subseteq 1..jobs[id].n /\ jobs[id].n \in Nat
    BY <1>2 DEF Basics, JobsRun, JobOK, Typed, Transcripts
  <2>2. QED
    BY <2>1
<1>6. OutcomeIsWhole'
  <2>1. SUFFICES ASSUME NEW d \in DOMAIN outcomes, gaps = 0, outcomes[d][1].rejected # "closed"
                 PROVE  IF outcomes[d][1].rejected = "yes"
                        THEN ~\E x \in DOMAIN jobs' : jobs'[x].call = d /\ jobs'[x].n > 0
                        ELSE \E x \in DOMAIN jobs' :
                               /\ jobs'[x].call = d /\ jobs'[x].n > 0 /\ jobs'[x].live = {}
                               /\ outcomes[d][1].exits = Pids(x, jobs'[x].exits)
                               /\ outcomes[d][1].values = jobs'[x].values
                               /\ outcomes[d][1].errors = Pids(x, jobs'[x].errors)
    BY WholeFrom
  <2>2. CASE outcomes[d][1].rejected = "yes"
    BY <1>1, <2>1, <2>2 DEF TransportInv, OutcomeIsWhole
  <2>3. CASE outcomes[d][1].rejected # "yes"
    <3>1. PICK x \in DOMAIN jobs :
            /\ jobs[x].call = d /\ jobs[x].n > 0 /\ jobs[x].live = {}
            /\ outcomes[d][1].exits = Pids(x, jobs[x].exits)
            /\ outcomes[d][1].values = jobs[x].values
            /\ outcomes[d][1].errors = Pids(x, jobs[x].errors)
      BY <2>1, <2>3 DEF TransportInv, OutcomeIsWhole
    <3>2. x # id
      BY <3>1
    <3>3. QED
      BY <1>1, <2>3, <3>1, <3>2
  <2>4. QED
    BY <2>2, <2>3
<1>7. Intact => j.call \notin DOMAIN outcomes
  BY DEF TransportInv, Faithful, Over
<1>8. QED
  BY <1>3, <1>4, <1>5, <1>6, <1>7

\* One piece of output: nothing else of the request is missing when it is published.
LEMMA Outputs1 ==
  ASSUME TransportInv, NEW id \in DOMAIN jobs, jobs[id].live # {}, NEW j \in Transcripts, NEW ev \in News,
         j.call = jobs[id].call, j.n = jobs[id].n, j.live = jobs[id].live, j.exits = jobs[id].exits,
         ev.id = id,
         \/ ev.kind = "objects" /\ j.values = jobs[id].values + 1 /\ j.errors = jobs[id].errors
         \/ /\ ev.kind = "stream" /\ j.values = jobs[id].values
            /\ \E s \in 1..jobs[id].n : ev.pid = <<id, s>> /\ j.errors = Append(jobs[id].errors, s),
         jobs' = With(jobs, id, j), Publish(<<ev>>),
         UNCHANGED <<toKernel, forgone, pending, owner, lastSeq, gaps, closed, outcomes, calls>>
  PROVE  TransportInv'
<1> DEFINE evs == <<ev>>
           p == pending[id]
<1>1. Basics /\ Typed /\ Ordered /\ id \in Ids /\ jobs[id] \in Transcripts
  BY DEF TransportInv, Basics, Typed
<1>2. evs \in Seq(News) /\ evs # <<>> /\ Len(evs) = 1 /\ evs[1] = ev
  OBVIOUS
<1> HIDE DEF evs
<1>3. \A i \in 1..Len(evs) : i = 1 /\ evs[i] = ev
  BY <1>2
<1>4. /\ CallsApart' /\ Asked' /\ Fresh' /\ Reuse' /\ OutcomeIsWhole' /\ jobs[id].n > 0
      /\ Intact => j.call \notin DOMAIN outcomes
  BY WorkStays
<1>5. JobOK(j)
  BY <1>1 DEF Basics, JobsRun, JobOK
<1>6. /\ Ordered' /\ Left' = Coming' /\ Coming = {} /\ seq' = seq + 1 /\ seq' \in Nat
      /\ \A e \in Coming' : e = Stamped(evs, 1)
      /\ Stamped(evs, 1) \in Coming'
  <2>1. Publish(evs)
    BY DEF evs
  <2>2. /\ Ordered' /\ Left' = Coming' /\ Coming = {} /\ seq' = seq + Len(evs) /\ seq' \in Nat
        /\ \A i \in 1..Len(evs) : Stamped(evs, i) \in Coming'
        /\ \A e \in Coming' : \E i \in 1..Len(evs) : e = Stamped(evs, i)
    BY <1>1, <1>2, <2>1, Published
  <2>3. 1 \in 1..Len(evs)
    BY <1>2
  <2>4. QED
    BY <1>2, <1>3, <2>2, <2>3
<1>7. /\ Stamped(evs, 1).id = id /\ Stamped(evs, 1).kind = ev.kind /\ Stamped(evs, 1).pid = ev.pid
      /\ Stamped(evs, 1).seq = seq + 1
  BY <1>2 DEF Stamped
<1>8. jobs'[id] = j
  BY DEF With
<1>9. ASSUME Intact, Faithful, lastSeq = seq, id \in DOMAIN pending, pending[id].call = j.call, j.n > 0
      PROVE  ExitsCome(id)' /\ ProcsCome(id)' /\ OutputComes(id)'
  <2>1. CaughtUp(id)
    BY <1>1, <1>6, <1>9, Quiet DEF Own
  <2>2. p \in Waiting /\ seq \in Nat
    BY <1>1, <1>9 DEF Typed
  <2>3. Missing(id)' = 0
    BY <1>8, <2>1 DEF Missing, CaughtUp
  <2>4. \A e \in Left' : e.id = id /\ e.kind = ev.kind /\ e.pid = ev.pid /\ Ahead(e)' = 0
    <3>1. \A e \in Left' : e.id = id /\ e.kind = ev.kind /\ e.pid = ev.pid /\ e.seq = seq + 1
      BY <1>6, <1>7
    <3>2. QED
      BY <1>6, <2>2, <3>1 DEF Ahead
  <2>5. ev.kind \in {"objects", "stream"}
    OBVIOUS
  <2>6. ExitsCome(id)'
    BY <1>8, <2>1, <2>3, <2>4, <2>5 DEF ExitsCome, CaughtUp
  <2>7. ProcsCome(id)'
    BY <1>8, <2>1 DEF ProcsCome, CaughtUp
  <2>8. /\ Lag(id, "objects")' = IF ev.kind = "objects" THEN 1 ELSE 0
        /\ Lag(id, "stream")' = IF ev.kind = "stream" THEN 1 ELSE 0
    BY <1>6, <1>7 DEF Lag
  <2>9. /\ jobs[id].values = p.values /\ Len(jobs[id].errors) = Len(p.errors) /\ p.values \in Nat
        /\ \A k \in DOMAIN p.errors : p.errors[k] = <<id, jobs[id].errors[k]>>
        /\ jobs[id].errors \in Seq(Nat) /\ p.errors \in Seq(Pid) /\ Len(p.errors) \in Nat
    BY <1>1, <2>1, <2>2 DEF CaughtUp, Waiting, Transcripts
  <2>10. CASE ev.kind = "objects"
    <3>1. j.values = p.values + 1 /\ Len(j.errors) = Len(p.errors) + 0 /\ j.errors = jobs[id].errors
      BY <2>9, <2>10
    <3>2. \A e \in Left' : e.kind # "stream"
      BY <2>4, <2>10
    <3>3. OutputComes(id)'
      BY <1>8, <2>8, <2>9, <2>10, <3>1, <3>2 DEF OutputComes
    <3>4. QED
      BY <2>6, <2>7, <3>3
  <2>11. CASE ev.kind = "stream"
    <3>1. PICK s \in 1..jobs[id].n : ev.pid = <<id, s>> /\ j.errors = Append(jobs[id].errors, s)
      BY <2>11
    <3>2. s \in Nat
      BY <1>1 DEF Transcripts
    <3>3. /\ Len(j.errors) = Len(p.errors) + 1 /\ j.errors[Len(j.errors)] = s
          /\ \A k \in 1..Len(p.errors) : j.errors[k] = jobs[id].errors[k]
          /\ DOMAIN p.errors = 1..Len(p.errors)
      BY <2>9, <3>1, <3>2
    <3>4. j.values = p.values + 0 /\ \A k \in DOMAIN p.errors : p.errors[k] = <<id, j.errors[k]>>
      BY <2>9, <2>11, <3>3
    <3>5. OutputComes(id)'
      BY <1>8, <2>4, <2>8, <2>11, <3>1, <3>3, <3>4 DEF OutputComes
    <3>6. QED
      BY <2>6, <2>7, <3>5
  <2>12. QED
    BY <2>5, <2>10, <2>11
<1>10. /\ ev.kind \in Named => ev.pid \in {id} \X (1..j.n)
       /\ ev.kind # "exit" /\ ev.kind # "rejected"
  <2>1. CASE ev.kind = "objects"
    BY <2>1 DEF Named
  <2>2. CASE ev.kind = "stream"
    <3>1. PICK s \in 1..jobs[id].n : ev.pid = <<id, s>>
      BY <2>2
    <3>2. QED
      BY <2>2, <3>1
  <2>3. QED
    BY <2>1, <2>2
<1>11. toKernel' \in Seq(Messages) /\ forgone' \subseteq Ids /\ Publish(evs)
  BY <1>1 DEF Typed, evs
<1>12. \A i \in 1..Len(evs) :
         /\ evs[i].id = id
         /\ evs[i].kind \in Named => evs[i].pid \in {id} \X (1..j.n)
         /\ i = Len(evs) /\ evs[i].kind # "exit" /\ evs[i].kind # "rejected"
  BY <1>2, <1>3, <1>10
<1>13. QED
  BY <1>1, <1>2, <1>4, <1>5, <1>9, <1>11, <1>12, Publishes

\* A changed transcript is another one in its place.
LEMMA InPlace ==
  ASSUME NEW f, f = [x \in DOMAIN f |-> f[x]], NEW id \in DOMAIN f, NEW j
  PROVE  [f EXCEPT ![id] = j] = With(f, id, j)
<1>1. DOMAIN f \cup {id} = DOMAIN f
  OBVIOUS
<1>2. QED
  BY <1>1 DEF With

\* A value.
LEMMA EmitKeeps == ASSUME TransportInv, NEW id \in DOMAIN jobs, Emit(id) PROVE TransportInv'
<1> DEFINE j == [jobs[id] EXCEPT !.values = @ + 1]
           ev == [kind |-> "objects", id |-> id, pid |-> <<>>]
<1>1. /\ jobs[id].live # {} /\ Publish(<<ev>>) /\ jobs' = [jobs EXCEPT ![id] = j]
      /\ UNCHANGED <<toKernel, forgone, pending, owner, lastSeq, gaps, closed, outcomes, calls>>
  BY DEF Emit, clientVars
<1>2. jobs[id] \in Transcripts /\ jobs = [x \in DOMAIN jobs |-> jobs[x]] /\ id \in Ids
  BY DEF TransportInv, Basics, Typed
<1>3. /\ j \in Transcripts /\ j.call = jobs[id].call /\ j.n = jobs[id].n /\ j.live = jobs[id].live
      /\ j.exits = jobs[id].exits /\ j.values = jobs[id].values + 1 /\ j.errors = jobs[id].errors
  <2>1. jobs[id].values + 1 \in Nat
    BY <1>2 DEF Transcripts
  <2>2. QED
    BY <1>2, <2>1 DEF Transcripts
<1>4. ev \in News /\ ev.id = id /\ ev.kind = "objects"
  BY <1>2 DEF News, Kinds
<1> HIDE DEF j, ev
<1>5. jobs' = With(jobs, id, j)
  BY <1>1, <1>2, InPlace
<1>6. QED
  BY <1>1, <1>3, <1>4, <1>5, Outputs1

\* An error record.
LEMMA EmitErrorKeeps ==
  ASSUME TransportInv, NEW id \in DOMAIN jobs, NEW s, EmitError(id, s)
  PROVE  TransportInv'
<1> DEFINE j == [jobs[id] EXCEPT !.errors = Append(@, s)]
           ev == [kind |-> "stream", id |-> id, pid |-> <<id, s>>]
<1>1. /\ s \in jobs[id].live /\ Publish(<<ev>>) /\ jobs' = [jobs EXCEPT ![id] = j]
      /\ UNCHANGED <<toKernel, forgone, pending, owner, lastSeq, gaps, closed, outcomes, calls>>
  BY DEF EmitError, clientVars
<1>2. jobs[id] \in Transcripts /\ jobs = [x \in DOMAIN jobs |-> jobs[x]] /\ id \in Ids
  BY DEF TransportInv, Basics, Typed
<1>3. s \in 1..jobs[id].n /\ s \in Nat
  <2>1. jobs[id].live \subseteq 1..jobs[id].n
    BY DEF TransportInv, Basics, JobsRun, JobOK
  <2>2. jobs[id].live \subseteq Nat
    BY <1>2 DEF Transcripts
  <2>3. QED
    BY <1>1, <2>1, <2>2
<1>4. /\ j \in Transcripts /\ j.call = jobs[id].call /\ j.n = jobs[id].n /\ j.live = jobs[id].live
      /\ j.exits = jobs[id].exits /\ j.values = jobs[id].values /\ j.errors = Append(jobs[id].errors, s)
  <2>1. Append(jobs[id].errors, s) \in Seq(Nat)
    BY <1>2, <1>3 DEF Transcripts
  <2>2. QED
    BY <1>2, <2>1 DEF Transcripts
<1>5. ev \in News /\ ev.id = id /\ ev.kind = "stream" /\ ev.pid = <<id, s>>
  BY <1>2, <1>3 DEF News, Kinds, Named, Pid
<1> HIDE DEF j, ev
<1>6. jobs' = With(jobs, id, j)
  BY <1>1, <1>2, InPlace
<1>7. QED
  BY <1>1, <1>3, <1>4, <1>5, <1>6, Outputs1

\* Halves of a position and of its distance to the end.
LEMMA Halves ==
  ASSUME NEW k \in Nat, NEW h \in 1..(2 * k)
  PROVE  /\ h % 2 = 0 => /\ (2 * k - h) % 2 = 0 /\ (2 * k - h) \div 2 = k - h \div 2 /\ h \div 2 \in 1..k
                         /\ h = 2 * (h \div 2)
         /\ h % 2 # 0 => /\ (2 * k - h) % 2 = 1 /\ (2 * k - h) \div 2 = k - (h + 1) \div 2
                         /\ (h + 1) \div 2 \in 1..k /\ h % 2 = 1
OBVIOUS

\* What is published of processes that end: of each its news, then its exit.
LEMMA EndedIs ==
  ASSUME NEW id \in Ids, NEW ss \in Seq(Nat)
  PROVE  /\ Ended(id, ss) \in Seq(News) /\ Len(Ended(id, ss)) = 2 * Len(ss) /\ Len(ss) \in Nat
         /\ \A h \in 1..(2 * Len(ss)) :
              /\ h % 2 = 0 => h \div 2 \in 1..Len(ss) /\ Ended(id, ss)[h] = Exit(id, ss[h \div 2])
              /\ h % 2 # 0 => (h + 1) \div 2 \in 1..Len(ss) /\ Ended(id, ss)[h] = Proc(id, ss[(h + 1) \div 2])
         /\ \A s \in Nat : Proc(id, s) \in News /\ Exit(id, s) \in News
<1> DEFINE k == Len(ss)
           E == Ended(id, ss)
<1>1. k \in Nat /\ ss \in [1..k -> Nat]
  OBVIOUS
<1>2. \A s \in Nat : Proc(id, s) \in News /\ Exit(id, s) \in News
  BY DEF Proc, Exit, News, Kinds, Named, Pid
<1>3. E = [h \in 1..(2 * k) |-> IF h % 2 = 1 THEN Proc(id, ss[(h + 1) \div 2]) ELSE Exit(id, ss[h \div 2])]
  BY DEF Ended
<1> HIDE DEF k, E
<1>4. ASSUME NEW h \in 1..(2 * k)
      PROVE  /\ h % 2 = 0 => h \div 2 \in 1..k /\ E[h] = Exit(id, ss[h \div 2])
             /\ h % 2 # 0 => (h + 1) \div 2 \in 1..k /\ E[h] = Proc(id, ss[(h + 1) \div 2])
             /\ E[h] \in News
  <2>1. CASE h % 2 = 0
    <3>1. h \div 2 \in 1..k
      BY <1>1, <2>1, Halves
    <3>2. E[h] = Exit(id, ss[h \div 2])
      BY <1>3, <2>1
    <3>3. QED
      BY <1>1, <1>2, <2>1, <3>1, <3>2
  <2>2. CASE h % 2 # 0
    <3>1. (h + 1) \div 2 \in 1..k /\ h % 2 = 1
      BY <1>1, <2>2, Halves
    <3>2. E[h] = Proc(id, ss[(h + 1) \div 2])
      BY <1>3, <3>1
    <3>3. QED
      BY <1>1, <1>2, <2>2, <3>1, <3>2
  <2>3. QED
    BY <2>1, <2>2
<1>5. E \in [1..(2 * k) -> News]
  BY <1>3, <1>4
<1>6. 2 * k \in Nat
  BY <1>1
<1>7. E \in Seq(News) /\ Len(E) = 2 * k
  BY <1>5, <1>6
<1>8. QED
  BY <1>1, <1>2, <1>4, <1>7 DEF k, E

\* The stages ss end last: after a that are announced, and after those x whose
\* exits the client has.
EndsLast(id, ss, evs, a, x) ==
  /\ Len(ss) > 0 /\ seq \in Nat /\ seq' = seq + a + 2 * Len(ss) /\ lastSeq' = seq
  /\ \A e \in Left' : \E i \in 1..(a + 2 * Len(ss)) : e = Stamped(evs, i)
  /\ \A i \in 1..a : evs[i].kind = "process-changed"
  /\ \A h \in 1..(2 * Len(ss)) : evs[a + h] = Ended(id, ss)[h]
  /\ jobs'[id].exits = x \o ss
  /\ Len(pending'[id].exits) = Len(x)
  /\ \A k \in DOMAIN pending'[id].exits : pending'[id].exits[k] = <<id, x[k]>>
  /\ DOMAIN pending'[id].exits = 1..Len(x)

\* The exits that are published last are what a request that was caught up misses.
LEMMA EndsCome ==
  ASSUME NEW id \in Ids, NEW ss \in Seq(Nat), NEW evs, NEW a \in Nat, NEW x \in Seq(Nat),
         EndsLast(id, ss, evs, a, x)
  PROVE  ExitsCome(id)' /\ Missing(id)' = Len(ss)
<1> USE DEF EndsLast
<1> DEFINE k == Len(ss)
           l == Len(x)
           E == Ended(id, ss)
<1>1. /\ k \in Nat \ {0} /\ l \in Nat /\ Len(x \o ss) = l + k
      /\ \A i \in 1..l : (x \o ss)[i] = x[i]
      /\ \A i \in 1..k : (x \o ss)[l + i] = ss[i]
  OBVIOUS
<1>2. Missing(id)' = k
  <2>1. Len(jobs'[id].exits) - Len(pending'[id].exits) = (l + k) - l
    BY <1>1
  <2>2. (l + k) - l = k
    BY <1>1
  <2>3. QED
    BY <2>1, <2>2 DEF Missing
<1>3. \A h \in 1..(2 * k) :
              /\ h % 2 = 0 => h \div 2 \in 1..k /\ E[h] = Exit(id, ss[h \div 2])
              /\ h % 2 # 0 => (h + 1) \div 2 \in 1..k /\ E[h] = Proc(id, ss[(h + 1) \div 2])
  BY EndedIs
<1>4. seq' - lastSeq' >= 2 * k - 1
  <2> HIDE DEF k
  <2>1. QED
    BY <1>1
<1>5. ASSUME NEW e \in Left'
      PROVE  /\ Ahead(e)' < 2 * k =>
                  /\ e.id = id /\ e.kind = IF Ahead(e)' % 2 = 0 THEN "exit" ELSE "process-changed"
                  /\ e.pid = <<id, (x \o ss)[(l + k) - Ahead(e)' \div 2]>>
             /\ Ahead(e)' >= 2 * k => e.kind # "exit"
  <2>1. PICK i \in 1..(a + 2 * k) : e = Stamped(evs, i)
    OBVIOUS
  <2>2. e.kind = evs[i].kind /\ e.id = evs[i].id /\ e.pid = evs[i].pid /\ e.seq = seq + i
    BY <2>1 DEF Stamped
  <2> HIDE DEF k, l, E
  <2>3. Ahead(e)' = (seq + a + 2 * k) - (seq + i)
    BY <2>2 DEF Ahead, k
  <2>4. Ahead(e)' = (a + 2 * k) - i
    BY <1>1, <2>3
  <2>5. CASE Ahead(e)' >= 2 * k
    <3>1. i \in 1..a
      BY <1>1, <2>4, <2>5
    <3>2. e.kind = "process-changed"
      BY <2>2, <3>1
    <3>3. ~(Ahead(e)' < 2 * k)
      BY <1>1, <2>4, <2>5
    <3>4. QED
      BY <3>2, <3>3
  <2>6. CASE ~(Ahead(e)' >= 2 * k)
    <3> DEFINE h == i - a
    <3>1. h \in 1..(2 * k) /\ i = a + h /\ Ahead(e)' = 2 * k - h
      <4>1. \A b, y \in Nat : \A z \in 1..(a + y) : b = (a + y) - z /\ ~(b >= y) =>
              z - a \in 1..y /\ z = a + (z - a) /\ b = y - (z - a)
        OBVIOUS
      <4>2. 2 * k \in Nat /\ Ahead(e)' \in Nat
        BY <1>1, <2>4
      <4>3. QED
        BY <2>4, <2>6, <4>1, <4>2
    <3>2. evs[i] = E[h]
      BY <3>1 DEF k, E
    <3> HIDE DEF h
    <3>3. CASE h % 2 = 0
      <4>1. Ahead(e)' % 2 = 0 /\ Ahead(e)' \div 2 = k - h \div 2 /\ h \div 2 \in 1..k
        BY <1>1, <3>1, <3>3, Halves
      <4>2. E[h] = Exit(id, ss[h \div 2])
        BY <1>3, <3>1, <3>3
      <4>3. (l + k) - Ahead(e)' \div 2 = l + h \div 2
        BY <1>1, <4>1
      <4>4. (x \o ss)[(l + k) - Ahead(e)' \div 2] = ss[h \div 2]
        BY <1>1, <4>1, <4>3
      <4>5. e.kind = "exit" /\ e.id = id /\ e.pid = <<id, ss[h \div 2]>>
        BY <2>2, <3>2, <4>2 DEF Exit
      <4>6. QED
        BY <2>6, <4>1, <4>4, <4>5
    <3>4. CASE h % 2 # 0
      <4>1. Ahead(e)' % 2 = 1 /\ Ahead(e)' \div 2 = k - (h + 1) \div 2 /\ (h + 1) \div 2 \in 1..k
        BY <1>1, <3>1, <3>4, Halves
      <4>2. E[h] = Proc(id, ss[(h + 1) \div 2])
        BY <1>3, <3>1, <3>4
      <4>3. (l + k) - Ahead(e)' \div 2 = l + (h + 1) \div 2
        BY <1>1, <4>1
      <4>4. (x \o ss)[(l + k) - Ahead(e)' \div 2] = ss[(h + 1) \div 2]
        BY <1>1, <4>1, <4>3
      <4>5. e.kind = "process-changed" /\ e.id = id /\ e.pid = <<id, ss[(h + 1) \div 2]>>
        BY <2>2, <3>2, <4>2 DEF Proc
      <4>6. QED
        BY <2>6, <4>1, <4>4, <4>5
    <3>5. QED
      BY <3>3, <3>4
  <2>7. QED
    BY <2>5, <2>6
<1>6. \A i \in DOMAIN pending'[id].exits : pending'[id].exits[i] = <<id, jobs'[id].exits[i]>>
  BY <1>1
<1>7. Len(jobs'[id].exits) = l + k /\ jobs'[id].exits = x \o ss /\ k >= 0
  BY <1>1
<1> HIDE DEF k, l
<1>8. ExitsCome(id)'
  BY <1>2, <1>4, <1>5, <1>6, <1>7 DEF ExitsCome
<1>9. QED
  BY <1>2, <1>8 DEF k

\* Stages that end: one that is killed, or all that are left.
LEMMA EndsKeeps ==
  ASSUME TransportInv, NEW id \in DOMAIN jobs, NEW S, Ends(id, S)
  PROVE  TransportInv'
<1>1. Basics /\ Typed /\ Ordered /\ id \in Ids /\ jobs[id] \in Transcripts /\ JobOK(jobs[id])
      /\ jobs = [x \in DOMAIN jobs |-> jobs[x]]
  BY DEF TransportInv, Basics, Typed, JobsRun
<1>2. PICK ss \in InOrder(S) :
        /\ jobs' = [jobs EXCEPT ![id].live = @ \ S, ![id].exits = @ \o ss]
        /\ Publish(Ended(id, ss))
  BY DEF Ends
<1> DEFINE J == jobs[id]
           k == Cardinality(S)
           l == Len(J.exits)
           j == [J EXCEPT !.live = @ \ S, !.exits = @ \o ss]
           evs == Ended(id, ss)
           p == pending[id]
<1>3. /\ S # {} /\ S \subseteq J.live /\ J.live # {}
      /\ UNCHANGED <<toKernel, forgone, pending, owner, lastSeq, gaps, closed, outcomes, calls>>
  BY DEF Ends, clientVars
<1>4. /\ IsFiniteSet(J.live) /\ J.live \subseteq 1..J.n /\ IsInjective(J.exits)
      /\ \A i \in DOMAIN J.exits : J.exits[i] \in (1..J.n) \ J.live
      /\ l + Cardinality(J.live) = J.n /\ J.n \in Nat /\ J.exits \in Seq(Nat) /\ l \in Nat
      /\ J.live \subseteq Nat /\ DOMAIN J.exits = 1..l
  BY <1>1 DEF JobOK, Transcripts
<1>5. IsFiniteSet(S) /\ k \in Nat /\ k > 0
  <2>1. IsFiniteSet(S)
    BY <1>3, <1>4, FS_Subset
  <2>2. k \in Nat /\ k # 0
    BY <1>3, <2>1, FS_CardinalityType, FS_EmptySet
  <2>3. QED
    BY <2>1, <2>2
<1>6. /\ ss \in [1..k -> S] /\ ss \in Seq(Nat) /\ Len(ss) = k /\ DOMAIN ss = 1..k
      /\ \A h, i \in 1..k : h < i => ss[h] < ss[i]
  <2>1. ss \in [1..k -> S] /\ \A h, i \in DOMAIN ss : h < i => ss[h] < ss[i]
    BY DEF InOrder
  <2>2. ss \in [1..k -> Nat]
    BY <1>3, <1>4, <2>1
  <2> HIDE DEF k
  <2>3. ss \in Seq(Nat) /\ Len(ss) = k
    BY <1>5, <2>2
  <2>4. QED
    BY <2>1, <2>3
<1> HIDE DEF k
<1>7. \A h, i \in 1..k : ss[h] = ss[i] => h = i
  <2>1. SUFFICES ASSUME NEW h \in 1..k, NEW i \in 1..k, ss[h] = ss[i] PROVE h = i
    OBVIOUS
  <2>2. ss[h] \in Nat
    BY <1>6
  <2>3. ~(h < i) /\ ~(i < h)
    BY <1>6, <2>1, <2>2
  <2>4. QED
    BY <1>5, <2>3
<1>8. /\ j.call = J.call /\ j.n = J.n /\ j.values = J.values /\ j.errors = J.errors
      /\ j.live = J.live \ S /\ j.exits = J.exits \o ss /\ j \in Transcripts
  <2>1. J.exits \o ss \in Seq(Nat) /\ J.live \ S \subseteq Nat
    BY <1>4, <1>6
  <2>2. QED
    BY <1>1, <2>1 DEF Transcripts
<1>9. jobs' = [jobs EXCEPT ![id] = j]
  BY <1>2
<1> HIDE DEF j
<1>10. jobs' = With(jobs, id, j) /\ jobs'[id] = j
  BY <1>1, <1>9, InPlace
<1>11. /\ Len(j.exits) = l + k /\ DOMAIN j.exits = 1..(l + k)
       /\ \A i \in 1..l : j.exits[i] = J.exits[i] /\ i \in 1..(l + k)
       /\ \A i \in 1..k : j.exits[l + i] = ss[i] /\ l + i \in 1..(l + k)
  <2>1. ASSUME NEW x \in Seq(Nat), NEW y \in Seq(Nat)
        PROVE  /\ Len(x \o y) = Len(x) + Len(y) /\ DOMAIN (x \o y) = 1..(Len(x) + Len(y))
               /\ \A i \in 1..Len(x) : (x \o y)[i] = x[i] /\ i \in 1..(Len(x) + Len(y))
               /\ \A i \in 1..Len(y) : (x \o y)[Len(x) + i] = y[i] /\ Len(x) + i \in 1..(Len(x) + Len(y))
    OBVIOUS
  <2>2. /\ Len(J.exits \o ss) = l + Len(ss) /\ DOMAIN (J.exits \o ss) = 1..(l + Len(ss))
        /\ \A i \in 1..l : (J.exits \o ss)[i] = J.exits[i] /\ i \in 1..(l + Len(ss))
        /\ \A i \in 1..Len(ss) : (J.exits \o ss)[l + i] = ss[i] /\ l + i \in 1..(l + Len(ss))
    BY <1>4, <1>6, <2>1
  <2>3. j.exits = J.exits \o ss /\ Len(ss) = k
    BY <1>6, <1>8
  <2>4. QED
    BY <2>2, <2>3
<1>12. \A i \in 1..(l + k) : i \in 1..l \/ (i - l \in 1..k /\ i = l + (i - l))
  BY <1>4, <1>5
<1>13. JobOK(j)
  <2>1. j.live \subseteq 1..j.n
    BY <1>4, <1>8
  <2>2. ASSUME NEW i \in 1..(l + k) PROVE j.exits[i] \in (1..j.n) \ j.live
    <3>1. CASE i \in 1..l
      BY <1>4, <1>8, <1>11, <3>1
    <3>2. CASE i - l \in 1..k /\ i = l + (i - l)
      <4>1. j.exits[i] = ss[i - l] /\ ss[i - l] \in S
        BY <1>6, <1>11, <3>2
      <4>2. QED
        BY <1>3, <1>4, <1>8, <4>1
    <3>3. QED
      BY <1>12, <3>1, <3>2
  <2>3. ASSUME NEW h \in 1..(l + k), NEW i \in 1..(l + k), j.exits[h] = j.exits[i] PROVE h = i
    <3>1. CASE h \in 1..l /\ i \in 1..l
      BY <1>4, <1>11, <2>3, <3>1 DEF IsInjective
    <3>2. CASE ~(h \in 1..l) /\ ~(i \in 1..l)
      <4>1. /\ h - l \in 1..k /\ i - l \in 1..k /\ h = l + (h - l) /\ i = l + (i - l)
        BY <1>12, <3>2
      <4>2. ss[h - l] = ss[i - l]
        BY <1>11, <2>3, <4>1
      <4>3. h - l = i - l
        BY <1>7, <4>1, <4>2
      <4>4. QED
        BY <4>1, <4>3
    <3>3. ASSUME NEW x \in 1..l, NEW y \in 1..k PROVE j.exits[x] # j.exits[l + y]
      BY <1>3, <1>4, <1>6, <1>11
    <3>4. CASE h \in 1..l /\ ~(i \in 1..l)
      BY <1>12, <2>3, <3>3, <3>4
    <3>5. CASE ~(h \in 1..l) /\ i \in 1..l
      BY <1>12, <2>3, <3>3, <3>5
    <3>6. QED
      BY <3>1, <3>2, <3>4, <3>5
  <2>4. IsFiniteSet(j.live) /\ Cardinality(j.live) = Cardinality(J.live) - k /\ Cardinality(J.live) \in Nat
    <3>1. J.live \cap S = S
      BY <1>3
    <3>2. IsFiniteSet(J.live \ S) /\ Cardinality(J.live \ S) = Cardinality(J.live) - Cardinality(J.live \cap S)
      BY <1>4, FS_Difference
    <3>3. QED
      BY <1>4, <1>8, <3>1, <3>2, FS_CardinalityType DEF k
  <2>5. Len(j.exits) + Cardinality(j.live) = j.n
    <3>1. \A a, b, c, d \in Nat : a + b = c => (a + d) + (b - d) = c
      OBVIOUS
    <3>2. QED
      BY <1>4, <1>5, <1>8, <1>11, <2>4, <3>1
  <2>6. QED
    BY <1>11, <2>1, <2>2, <2>3, <2>4, <2>5 DEF JobOK, IsInjective
<1>14. /\ evs \in Seq(News) /\ Len(evs) = 2 * k /\ evs # <<>>
       /\ \A h \in 1..(2 * k) :
            /\ h % 2 = 0 => h \div 2 \in 1..k /\ evs[h] = Exit(id, ss[h \div 2])
            /\ h % 2 # 0 => (h + 1) \div 2 \in 1..k /\ evs[h] = Proc(id, ss[(h + 1) \div 2])
  <2>1. /\ evs \in Seq(News) /\ Len(evs) = 2 * k
        /\ \A h \in 1..(2 * k) :
            /\ h % 2 = 0 => h \div 2 \in 1..k /\ evs[h] = Exit(id, ss[h \div 2])
            /\ h % 2 # 0 => (h + 1) \div 2 \in 1..k /\ evs[h] = Proc(id, ss[(h + 1) \div 2])
    BY <1>1, <1>6, EndedIs
  <2>2. 2 * k # 0
    BY <1>5
  <2> HIDE DEF evs
  <2>3. evs # <<>>
    BY <2>1, <2>2
  <2>4. QED
    BY <2>1, <2>3
<1>15. Publish(evs)
  BY <1>2
<1> HIDE DEF evs
<1>16. ASSUME NEW h \in 1..(2 * k)
       PROVE  /\ evs[h].id = id /\ evs[h].kind \in {"exit", "process-changed"}
              /\ \E i \in 1..k : evs[h].pid = <<id, ss[i]>>
              /\ evs[h].kind = "exit" => h % 2 = 0 /\ h \div 2 \in 1..k /\ evs[h].pid = <<id, ss[h \div 2]>>
  BY <1>14 DEF Exit, Proc
<1>17. \A i \in 1..k : ss[i] \in J.live /\ ss[i] \in 1..J.n
  BY <1>3, <1>4, <1>6
<1>18. ASSUME NEW h \in 1..Len(evs)
       PROVE  /\ evs[h].id = id
              /\ evs[h].kind \in Named => evs[h].pid \in {id} \X (1..j.n)
              /\ ~(evs[h].kind \in {"rejected", "objects", "stream"})
              /\ evs[h].kind = "exit" => /\ \E i \in DOMAIN j.exits : evs[h].pid[2] = j.exits[i]
                                         /\ \A i \in DOMAIN J.exits : evs[h].pid[2] # J.exits[i]
  <2>1. PICK i \in 1..k : evs[h].pid = <<id, ss[i]>>
    BY <1>14, <1>16
  <2>2. evs[h].pid[2] = ss[i] /\ ss[i] = j.exits[l + i] /\ l + i \in DOMAIN j.exits
    BY <1>11, <2>1
  <2>3. \A x \in DOMAIN J.exits : ss[i] # J.exits[x]
    BY <1>4, <1>17
  <2>4. evs[h].pid \in {id} \X (1..j.n)
    BY <1>8, <1>17, <2>1
  <2>5. QED
    BY <1>14, <1>16, <2>2, <2>3, <2>4
<1>19. ASSUME NEW h \in 1..Len(evs), NEW i \in 1..Len(evs),
              evs[h].kind = "exit", evs[i].kind = "exit", evs[h].pid = evs[i].pid
       PROVE  h = i
  <2>1. /\ h % 2 = 0 /\ h \div 2 \in 1..k /\ evs[h].pid = <<id, ss[h \div 2]>>
        /\ i % 2 = 0 /\ i \div 2 \in 1..k /\ evs[i].pid = <<id, ss[i \div 2]>>
    BY <1>14, <1>16, <1>19
  <2>2. h \div 2 = i \div 2
    <3>1. <<id, ss[h \div 2]>> = <<id, ss[i \div 2]>>
      BY <1>19, <2>1
    <3>2. ss[h \div 2] = ss[i \div 2]
      BY <3>1
    <3>3. QED
      BY <1>7, <2>1, <3>2
  <2>3. h = 2 * (h \div 2) /\ i = 2 * (i \div 2)
    BY <1>5, <1>14, <2>1, Halves
  <2>4. QED
    BY <2>2, <2>3
<1>20. \A i \in DOMAIN J.exits : \E m \in DOMAIN j.exits : j.exits[m] = J.exits[i]
  BY <1>4, <1>11
<1>21. /\ CallsApart' /\ Asked' /\ Fresh' /\ Reuse' /\ OutcomeIsWhole' /\ jobs[id].n > 0
       /\ Intact => j.call \notin DOMAIN outcomes
  BY <1>3, <1>8, <1>10, WorkStays
<1>22. /\ Left' = Coming' /\ Coming = {} /\ seq' = seq + 2 * k /\ seq' \in Nat
       /\ \A e \in Coming' : \E i \in 1..(2 * k) : e = Stamped(evs, i)
  BY <1>1, <1>3, <1>14, <1>15, Published
<1>23. ASSUME Intact, Faithful, lastSeq = seq, id \in DOMAIN pending, pending[id].call = j.call, j.n > 0
       PROVE  ExitsCome(id)' /\ ProcsCome(id)' /\ OutputComes(id)'
  <2>1. CaughtUp(id)
    BY <1>1, <1>8, <1>22, <1>23, Quiet DEF Own
  <2>2. p \in Waiting /\ seq \in Nat /\ pending' = pending
    BY <1>1, <1>3, <1>23 DEF Typed
  <2>3. Len(p.exits) = l /\ DOMAIN p.exits = 1..l
    <3>1. l - Len(p.exits) = 0 /\ Len(p.exits) \in Nat /\ DOMAIN p.exits = 1..Len(p.exits)
      BY <2>1, <2>2 DEF CaughtUp, Missing, Waiting
    <3>2. QED
      BY <1>4, <3>1
  <2>4. ExitsCome(id)'
    <3>1. 0 + 2 * k = 2 * k /\ seq + 0 + 2 * k = seq + 2 * k /\ \A h \in 1..(2 * k) : 0 + h = h
      BY <1>5, <2>2
    <3>2. \A h \in 1..(2 * k) : evs[0 + h] = Ended(id, ss)[h]
      BY <3>1 DEF evs
    <3>3. \A i \in DOMAIN p.exits : p.exits[i] = <<id, J.exits[i]>>
      BY <2>1 DEF CaughtUp
    <3>4. \A i \in 1..0 : evs[i].kind = "process-changed"
      OBVIOUS
    <3>5. jobs'[id].exits = J.exits \o ss
      BY <1>8, <1>10
    <3>6. \A e \in Left' : \E i \in 1..(0 + 2 * k) : e = Stamped(evs, i)
      BY <1>22, <3>1
    <3>7. seq' = seq + 0 + 2 * k /\ lastSeq' = seq /\ Len(ss) > 0 /\ Len(ss) = k
      BY <1>3, <1>5, <1>6, <1>22, <1>23, <3>1
    <3>8. Len(pending'[id].exits) = l /\ DOMAIN pending'[id].exits = 1..l
          /\ \A i \in DOMAIN pending'[id].exits : pending'[id].exits[i] = <<id, J.exits[i]>>
      BY <2>2, <2>3, <3>3
    <3>9. /\ Len(ss) > 0 /\ 0 \in Nat /\ seq \in Nat /\ seq' = seq + 0 + 2 * Len(ss) /\ lastSeq' = seq
          /\ \A e \in Left' : \E i \in 1..(0 + 2 * Len(ss)) : e = Stamped(evs, i)
          /\ \A h \in 1..(2 * Len(ss)) : evs[0 + h] = Ended(id, ss)[h]
          /\ ss \in Seq(Nat) /\ id \in Ids
      BY <1>1, <1>6, <2>2, <3>2, <3>6, <3>7
    <3>10. ASSUME NEW x \in Seq(Nat), x = J.exits PROVE ExitsCome(id)'
      <4>1. /\ jobs'[id].exits = x \o ss /\ Len(pending'[id].exits) = Len(x)
            /\ DOMAIN pending'[id].exits = 1..Len(x)
            /\ \A i \in DOMAIN pending'[id].exits : pending'[id].exits[i] = <<id, x[i]>>
        BY <3>5, <3>8, <3>10
      <4>2. QED
        BY <3>4, <3>9, <4>1, EndsCome DEF EndsLast
    <3>11. QED
      BY <1>4, <3>10
  <2>5. ProcsCome(id)'
    BY <1>8, <1>10, <2>1, <2>2 DEF CaughtUp, ProcsCome
  <2>6. \A e \in Left' : e.kind # "objects" /\ e.kind # "stream"
    <3>1. \A i \in 1..(2 * k) : Stamped(evs, i).kind = evs[i].kind
      BY DEF Stamped
    <3>2. QED
      BY <1>16, <1>22, <3>1
  <2>7. Lag(id, "objects")' = 0 /\ Lag(id, "stream")' = 0
    BY <2>6 DEF Lag
  <2>8. /\ J.values = p.values + 0 /\ Len(J.errors) = Len(p.errors) + 0
        /\ \A i \in DOMAIN p.errors : p.errors[i] = <<id, J.errors[i]>>
    BY <2>1, <2>2 DEF CaughtUp, Waiting
  <2>9. OutputComes(id)'
    BY <1>8, <1>10, <2>2, <2>6, <2>7, <2>8 DEF OutputComes
  <2>10. QED
    BY <2>4, <2>5, <2>9
<1>24. toKernel' \in Seq(Messages) /\ forgone' \subseteq Ids
  BY <1>1, <1>3 DEF Typed
<1>25. \A h \in 1..Len(evs) : evs[h].kind # "rejected"
  BY <1>18
<1>26. QED
  BY <1>1, <1>3, <1>8, <1>10, <1>13, <1>14, <1>15, <1>18, <1>19, <1>20, <1>21, <1>23,
     <1>24, <1>25, Publishes

\* A message that is taken leaves the others as they were asked.
LEMMA Taken ==
  ASSUME Basics, toKernel # <<>>, toKernel' = Tail(toKernel), NEW m, m = Head(toKernel),
         \/ jobs' = jobs
         \/ m.kind = "exec" /\ \E j \in Transcripts : j.call = m.call /\ jobs' = With(jobs, m.id, j),
         UNCHANGED <<pending, outcomes, calls, closed>>
  PROVE  /\ toKernel' \in Seq(Messages) /\ m \in Messages /\ Asked'
         /\ m.kind = "exec" => 1 \in Execs /\ toKernel[1] = m
<1> DEFINE n == Len(toKernel)
<1>1. /\ toKernel \in Seq(Messages) /\ n \in Nat \ {0} /\ DOMAIN toKernel = 1..n /\ 1 \in 1..n
      /\ toKernel[1] = m /\ toKernel' \in Seq(Messages) /\ DOMAIN toKernel' = 1..(n - 1)
      /\ \A i \in 1..(n - 1) : toKernel'[i] = toKernel[i + 1]
  <2>1. toKernel \in Seq(Messages)
    BY DEF Basics, Typed
  <2>2. Len(Tail(toKernel)) = n - 1 /\ n # 0
    BY <2>1
  <2>3. QED
    BY <2>1, <2>2
<1> HIDE DEF n
<1>2. m \in Messages /\ (m.kind = "exec" => 1 \in Execs)
  BY <1>1 DEF Execs
<1>3. ASSUME NEW i \in Execs'
      PROVE  i + 1 \in Execs /\ i + 1 # 1 /\ toKernel'[i] = toKernel[i + 1] /\ i \in 1..(n - 1)
  <2>1. i \in 1..(n - 1) /\ toKernel'[i].kind = "exec"
    BY <1>1 DEF Execs
  <2>2. i + 1 \in 1..n /\ i + 1 # 1
    BY <1>1, <2>1
  <2>3. QED
    BY <1>1, <2>1, <2>2 DEF Execs
<1>4. Asked
  BY DEF Basics
<1>5. ASSUME NEW i \in Execs'
      PROVE  /\ toKernel'[i].call \in 1..calls
             /\ \A id \in DOMAIN pending : pending[id].call = toKernel'[i].call <=> id = toKernel'[i].id
             /\ \A id \in DOMAIN jobs : jobs[id].call # toKernel'[i].call
             /\ ~closed /\ toKernel'[i].id \notin DOMAIN jobs => toKernel'[i].call \notin DOMAIN outcomes
             /\ m.kind = "exec" => toKernel'[i].call # m.call /\ toKernel'[i].id # m.id
  <2>1. i + 1 \in Execs /\ i + 1 # 1 /\ toKernel'[i] = toKernel[i + 1]
    BY <1>3
  <2>2. PICK k \in Execs : k = i + 1 /\ k # 1 /\ toKernel'[i] = toKernel[k]
    BY <2>1
  <2>3. ASSUME m.kind = "exec" PROVE toKernel[k].call # m.call /\ toKernel[k].id # m.id
    <3>1. 1 \in Execs
      BY <1>2, <2>3
    <3>2. toKernel[k].id = toKernel[1].id \/ toKernel[k].call = toKernel[1].call => k = 1
      BY <1>4, <3>1 DEF Asked
    <3>3. QED
      BY <1>1, <2>2, <3>2
  <2>4. /\ toKernel[k].call \in 1..calls
        /\ \A id \in DOMAIN pending : pending[id].call = toKernel[k].call <=> id = toKernel[k].id
    BY <1>4 DEF Asked
  <2>5. \A id \in DOMAIN jobs : jobs[id].call # toKernel[k].call
    BY <1>4 DEF Asked
  <2>6. ~closed /\ toKernel[k].id \notin DOMAIN jobs => toKernel[k].call \notin DOMAIN outcomes
    BY <1>4 DEF Asked
  <2>7. QED
    BY <2>2, <2>3, <2>4, <2>5, <2>6
<1>6. ASSUME NEW i \in Execs', NEW k \in Execs',
             toKernel'[i].id = toKernel'[k].id \/ toKernel'[i].call = toKernel'[k].call
      PROVE  i = k
  <2>1. /\ i + 1 \in Execs /\ toKernel'[i] = toKernel[i + 1] /\ i \in 1..(n - 1)
        /\ k + 1 \in Execs /\ toKernel'[k] = toKernel[k + 1] /\ k \in 1..(n - 1)
    BY <1>3
  <2>2. \A x, y \in Execs :
          toKernel[x].id = toKernel[y].id \/ toKernel[x].call = toKernel[y].call => x = y
    BY <1>4 DEF Asked
  <2>3. i + 1 = k + 1
    BY <1>6, <2>1, <2>2
  <2>4. QED
    BY <1>1, <2>1, <2>3
<1>7. ASSUME NEW i \in Execs'
      PROVE  /\ \A id \in DOMAIN jobs' : jobs'[id].call # toKernel'[i].call
             /\ ~closed /\ toKernel'[i].id \notin DOMAIN jobs' => toKernel'[i].call \notin DOMAIN outcomes
  <2>1. CASE jobs' = jobs
    BY <1>5, <2>1
  <2>2. CASE m.kind = "exec" /\ \E j \in Transcripts : j.call = m.call /\ jobs' = With(jobs, m.id, j)
    <3>1. PICK j \in Transcripts : j.call = m.call /\ jobs' = With(jobs, m.id, j)
      BY <2>2
    <3>2. /\ DOMAIN jobs' = DOMAIN jobs \cup {m.id} /\ jobs'[m.id] = j
          /\ \A id \in DOMAIN jobs : id # m.id => jobs'[id] = jobs[id]
      BY <3>1 DEF With
    <3>3. ASSUME NEW id \in DOMAIN jobs' PROVE jobs'[id].call # toKernel'[i].call
      <4>1. toKernel'[i].call # m.call
        BY <1>5, <2>2
      <4>2. \A x \in DOMAIN jobs : jobs[x].call # toKernel'[i].call
        BY <1>5
      <4>3. CASE id = m.id
        BY <3>1, <3>2, <4>1, <4>3
      <4>4. CASE id # m.id
        BY <3>2, <4>2, <4>4
      <4>5. QED
        BY <4>3, <4>4
    <3>4. ~closed /\ toKernel'[i].id \notin DOMAIN jobs' => toKernel'[i].call \notin DOMAIN outcomes
      BY <1>5, <3>2
    <3>5. QED
      BY <3>3, <3>4
  <2>3. QED
    BY <2>1, <2>2
<1>8. Asked'
  BY <1>5, <1>6, <1>7 DEF Asked
<1>9. QED
  BY <1>1, <1>2, <1>8

\* A cancellation that is taken.
LEMMA TakeCancels ==
  ASSUME TransportInv, toKernel # <<>>, toKernel' = Tail(toKernel), forgone' \subseteq Ids,
         UNCHANGED <<toClient, seq, jobs, pending, owner, lastSeq, gaps, closed, outcomes, calls>>
  PROVE  TransportInv'
<1>1. Basics /\ Once /\ OutcomeIsWhole
  BY DEF TransportInv
<1>2. toKernel' \in Seq(Messages) /\ Asked'
  BY <1>1, Taken
<1>3. Coming' = Coming /\ Left' = Left
  BY DEF Coming, Left
<1>4. Typed'
  BY <1>1, <1>2 DEF Basics, Typed
<1>5. Ordered' /\ Owners' /\ CallsApart' /\ JobsRun' /\ Fresh' /\ Reuse'
  BY <1>1, <1>3 DEF Basics, Ordered, Owners, CallsApart, JobsRun, Fresh, Reuse
<1>6. OfJobs' /\ ExitsApart'
  BY <1>1, <1>3 DEF Basics, OfJobs, ExitsApart
<1>7. Once' /\ OutcomeIsWhole'
  BY <1>1, WholeStays DEF Once
<1>8. ASSUME Intact' PROVE Faithful'
  <2>1. Faithful
    BY <1>8 DEF TransportInv, Intact
  <2>2. Over' /\ Refused'
    BY <1>3, <2>1 DEF Faithful, Over, Refused, Own
  <2>3. ASSUME NEW x PROVE /\ ExitsCome(x)' = ExitsCome(x) /\ ProcsCome(x)' = ProcsCome(x)
                           /\ OutputComes(x)' = OutputComes(x)
    BY <1>3 DEF ExitsCome, ProcsCome, OutputComes, Lag, Missing, Ahead
  <2>4. Awaited'
    BY <2>1, <2>3 DEF Faithful, Awaited, Own
  <2>5. QED
    BY <2>2, <2>4 DEF Faithful
<1>9. QED
  BY <1>2, <1>4, <1>5, <1>6, <1>7, <1>8 DEF TransportInv, Basics

\* A submission that is taken is a new request, of a call that is not answered.
LEMMA Begins ==
  ASSUME TransportInv, toKernel # <<>>, toKernel' = Tail(toKernel), ~closed, NEW m, m = Head(toKernel),
         m.kind = "exec", m.id \notin DOMAIN jobs,
         NEW j \in Transcripts, j.call = m.call, jobs' = With(jobs, m.id, j),
         UNCHANGED <<pending, outcomes, gaps, closed, calls>>
  PROVE  /\ toKernel' \in Seq(Messages) /\ m \in Messages
         /\ CallsApart' /\ Asked' /\ Fresh' /\ Reuse' /\ OutcomeIsWhole'
         /\ m.call \notin DOMAIN outcomes /\ jobs'[m.id] = j
<1>1. Basics
  BY DEF TransportInv
<1>2. toKernel' \in Seq(Messages) /\ m \in Messages /\ Asked' /\ 1 \in Execs /\ toKernel[1] = m
  BY <1>1, Taken
<1>3. /\ DOMAIN jobs' = DOMAIN jobs \cup {m.id} /\ jobs'[m.id] = j
      /\ \A x \in DOMAIN jobs : jobs'[x] = jobs[x] /\ x # m.id
  BY DEF With
<1>4. /\ m.call \in 1..calls /\ m.call \notin DOMAIN outcomes
      /\ \A x \in DOMAIN jobs : jobs[x].call # m.call
      /\ \A x \in DOMAIN pending : pending[x].call = m.call <=> x = m.id
  BY <1>1, <1>2 DEF Basics, Asked
<1>5. CallsApart'
  <2>1. CallsApart
    BY <1>1 DEF Basics
  <2>2. \A x \in DOMAIN jobs' : jobs'[x].call \in 1..calls
    BY <1>3, <1>4, <2>1 DEF CallsApart
  <2>3. ASSUME NEW x \in DOMAIN jobs', NEW y \in DOMAIN jobs', jobs'[x].call = jobs'[y].call PROVE x = y
    BY <1>3, <1>4, <2>1, <2>3 DEF CallsApart
  <2>4. ASSUME NEW x \in DOMAIN pending, NEW y \in DOMAIN jobs', pending[x].call = jobs'[y].call PROVE x = y
    BY <1>3, <1>4, <2>1, <2>4 DEF CallsApart
  <2>5. QED
    BY <2>1, <2>2, <2>3, <2>4 DEF CallsApart
<1>6. Fresh' /\ Reuse'
  BY <1>1, <1>3, <1>4 DEF Basics, Fresh, Reuse
<1>7. OutcomeIsWhole'
  <2>1. SUFFICES ASSUME NEW d \in DOMAIN outcomes, gaps = 0, outcomes[d][1].rejected # "closed"
                 PROVE  IF outcomes[d][1].rejected = "yes"
                        THEN ~\E x \in DOMAIN jobs' : jobs'[x].call = d /\ jobs'[x].n > 0
                        ELSE \E x \in DOMAIN jobs' :
                               /\ jobs'[x].call = d /\ jobs'[x].n > 0 /\ jobs'[x].live = {}
                               /\ outcomes[d][1].exits = Pids(x, jobs'[x].exits)
                               /\ outcomes[d][1].values = jobs'[x].values
                               /\ outcomes[d][1].errors = Pids(x, jobs'[x].errors)
    BY WholeFrom
  <2>2. d # m.call
    BY <1>4
  <2>3. CASE outcomes[d][1].rejected = "yes"
    BY <1>3, <2>1, <2>2, <2>3 DEF TransportInv, OutcomeIsWhole
  <2>4. CASE outcomes[d][1].rejected # "yes"
    <3>1. PICK x \in DOMAIN jobs :
            /\ jobs[x].call = d /\ jobs[x].n > 0 /\ jobs[x].live = {}
            /\ outcomes[d][1].exits = Pids(x, jobs[x].exits)
            /\ outcomes[d][1].values = jobs[x].values
            /\ outcomes[d][1].errors = Pids(x, jobs[x].errors)
      BY <2>1, <2>4 DEF TransportInv, OutcomeIsWhole
    <3>2. QED
      BY <1>3, <2>4, <3>1
  <2>5. QED
    BY <2>3, <2>4
<1>8. QED
  BY <1>2, <1>3, <1>4, <1>5, <1>6, <1>7

\* A submission that is refused, of a new id or of one that is in use.
LEMMA TakeRefuses ==
  ASSUME TransportInv, toKernel # <<>>, toKernel' = Tail(toKernel), NEW m, m = Head(toKernel),
         m.kind = "exec", Publish(Rejected(m.id)), forgone' = forgone,
         \/ m.id \in DOMAIN jobs /\ jobs' = jobs
         \/ m.id \notin DOMAIN jobs /\ jobs' = With(jobs, m.id, Job(m.call, 0, {}, <<>>)),
         UNCHANGED <<pending, owner, lastSeq, gaps, closed, outcomes, calls>>
  PROVE  TransportInv'
<1> DEFINE id == m.id
           evs == Rejected(id)
<1>1. Basics /\ Typed /\ ~closed
  BY DEF TransportInv, Basics, Publish
<1>2. m \in Messages /\ id \in Ids /\ m.call \in Nat
  <2>1. toKernel \in Seq(Messages)
    BY <1>1 DEF Typed
  <2>2. m \in Messages
    BY <2>1
  <2>3. QED
    BY <2>2 DEF Messages
<1>3. /\ evs \in Seq(News) /\ evs # <<>> /\ Len(evs) = 1 /\ evs[1].kind = "rejected" /\ evs[1].id = id
  <2>1. [kind |-> "rejected", id |-> id, pid |-> <<>>] \in News
    BY <1>2 DEF News, Kinds
  <2>2. QED
    BY <2>1 DEF Rejected
<1>4. Publish(evs)
  OBVIOUS
<1> HIDE DEF evs
<1>5. \A i \in 1..Len(evs) :
         /\ evs[i].id = id /\ evs[i].kind = "rejected" /\ i = Len(evs)
         /\ evs[i].kind \notin Named /\ evs[i].kind # "exit"
  <2>1. \A i \in 1..Len(evs) : i = 1
    BY <1>3
  <2>2. QED
    BY <1>3, <2>1 DEF Named
<1>6. forgone' \subseteq Ids
  BY <1>1 DEF Typed
<1>7. CASE id \in DOMAIN jobs /\ jobs' = jobs
  <2> DEFINE j == jobs[id]
  <2>1. j \in Transcripts /\ JobOK(j) /\ jobs = [x \in DOMAIN jobs |-> jobs[x]]
    BY <1>1, <1>7 DEF Typed, Basics, JobsRun
  <2>2. jobs' = With(jobs, id, j)
    BY <1>7, <2>1 DEF With
  <2>3. toKernel' \in Seq(Messages) /\ Asked' /\ 1 \in Execs /\ toKernel[1] = m
    BY <1>1, <1>7, Taken
  <2>4. CallsApart' /\ Fresh' /\ Reuse' /\ OutcomeIsWhole'
    <3>1. CallsApart' /\ Fresh' /\ Reuse'
      BY <1>1, <1>7 DEF Basics, CallsApart, Fresh, Reuse
    <3>2. QED
      BY <1>7, <3>1, WholeStays DEF TransportInv
  <2>5. id \in DOMAIN pending => pending[id].call # j.call
    <3>1. j.call # m.call /\ (id \in DOMAIN pending => pending[id].call = m.call)
      BY <1>1, <1>7, <2>3 DEF Basics, Asked
    <3>2. QED
      BY <3>1
  <2>6. Intact /\ j.call \in DOMAIN outcomes => j.live = {}
    BY <1>7 DEF TransportInv, Faithful, Over
  <2> HIDE DEF j
  <2>7. id \in DOMAIN jobs => \A k \in DOMAIN jobs[id].exits : \E i \in DOMAIN j.exits : j.exits[i] = jobs[id].exits[k]
    BY DEF j
  <2>8. QED
    BY <1>1, <1>2, <1>3, <1>4, <1>5, <1>6, <2>1, <2>2, <2>3, <2>4, <2>5, <2>6, <2>7,
       Publishes
<1>8. CASE id \notin DOMAIN jobs /\ jobs' = With(jobs, id, Job(m.call, 0, {}, <<>>))
  <2> DEFINE j == Job(m.call, 0, {}, <<>>)
  <2>1. /\ j \in Transcripts /\ j.call = m.call /\ j.n = 0 /\ j.live = {} /\ j.exits = <<>>
    <3>1. <<>> \in Seq(Nat)
      OBVIOUS
    <3>2. QED
      BY <1>2, <3>1 DEF Job, Transcripts
  <2>2. jobs' = With(jobs, id, j)
    BY <1>8
  <2> HIDE DEF j
  <2>3. JobOK(j)
    BY <2>1, FS_EmptySet DEF JobOK, IsInjective
  <2>4. /\ toKernel' \in Seq(Messages) /\ CallsApart' /\ Asked' /\ Fresh' /\ Reuse' /\ OutcomeIsWhole'
        /\ m.call \notin DOMAIN outcomes
    BY <1>1, <1>8, <2>1, <2>2, Begins
  <2>5. ~(j.n > 0)
    BY <2>1
  <2>6. QED
    BY <1>1, <1>2, <1>3, <1>4, <1>5, <1>6, <1>8, <2>1, <2>2, <2>3, <2>4, <2>5, Publishes
<1>9. QED
  BY <1>7, <1>8

\* What is published of processes that are new.
LEMMA AnnouncedIs ==
  ASSUME NEW id \in Ids, NEW n \in Nat
  PROVE  /\ Announced(id, n) \in Seq(News) /\ Len(Announced(id, n)) = n
         /\ \A i \in 1..n : Announced(id, n)[i] = Proc(id, i)
<1>1. \A s \in 1..n : Proc(id, s) \in News
  BY DEF Proc, News, Kinds, Named, Pid
<1>2. Announced(id, n) \in [1..n -> News] /\ \A i \in 1..n : Announced(id, n)[i] = Proc(id, i)
  BY <1>1 DEF Announced
<1> HIDE DEF Announced
<1>3. QED
  BY <1>2

\* Two parts of what is published.
Joins(z, x, y) == z = x \o y

\* Each part is found in the whole.
LEMMA Parts ==
  ASSUME NEW T, NEW x \in Seq(T), NEW y \in Seq(T), NEW z, Joins(z, x, y),
         NEW a \in Nat, NEW b \in Nat, Len(x) = a, Len(y) = b
  PROVE  /\ z \in Seq(T) /\ Len(z) = a + b
         /\ \A i \in 1..a : z[i] = x[i] /\ i \in 1..(a + b)
         /\ \A i \in 1..b : z[a + i] = y[i]
         /\ \A i \in 1..(a + b) : i \in 1..a \/ (i - a \in 1..b /\ i = a + (i - a))
<1>1. x \o y \in Seq(T) /\ Len(x \o y) = Len(x) + Len(y)
  OBVIOUS
<1>5. \A i \in 1..Len(x) : (x \o y)[i] = x[i]
  OBVIOUS
<1>6. \A i \in 1..Len(y) : (x \o y)[Len(x) + i] = y[i]
  OBVIOUS
<1>2. /\ z \in Seq(T) /\ Len(z) = a + b
      /\ \A i \in 1..a : z[i] = x[i]
      /\ \A i \in 1..b : z[a + i] = y[i]
  BY <1>1, <1>5, <1>6, Zenon DEF Joins
<1>3. /\ \A i \in 1..a : i \in 1..(a + b)
      /\ \A i \in 1..(a + b) : i \in 1..a \/ (i - a \in 1..b /\ i = a + (i - a))
  OBVIOUS
<1>4. QED
  BY <1>2, <1>3

\* A submission that runs: every process is announced, and started, before any works.
LEMMA TakeRuns ==
  ASSUME TransportInv, toKernel # <<>>, toKernel' = Tail(toKernel), NEW m, m = Head(toKernel),
         m.kind = "exec", NEW id, id = m.id, id \notin DOMAIN jobs, NEW n \in Nat \ {0},
         jobs' = With(jobs, id, Job(m.call, n, 1..n, <<>>)),
         NEW evs, Joins(evs, Announced(id, n), Announced(id, n)), Publish(evs), forgone' = forgone,
         UNCHANGED <<pending, owner, lastSeq, gaps, closed, outcomes, calls>>
  PROVE  TransportInv'
<1> DEFINE A == Announced(id, n)
           j == Job(m.call, n, 1..n, <<>>)
           p == pending[id]
<1>1. Basics /\ Typed /\ Ordered /\ ~closed /\ forgone' \subseteq Ids
  BY DEF TransportInv, Basics, Typed, Publish
<1>2. m \in Messages /\ id \in Ids /\ m.call \in Nat
  <2>1. toKernel \in Seq(Messages)
    BY <1>1 DEF Typed
  <2>2. m \in Messages
    BY <2>1
  <2>3. QED
    BY <2>2 DEF Messages
<1>3. /\ j \in Transcripts /\ j.call = m.call /\ j.n = n /\ j.live = 1..n /\ j.exits = <<>>
      /\ j.values = 0 /\ j.errors = <<>>
  <2>1. <<>> \in Seq(Nat) /\ 1..n \subseteq Nat
    OBVIOUS
  <2>2. QED
    BY <1>2, <2>1 DEF Job, Transcripts
<1>4. jobs' = With(jobs, id, j)
  OBVIOUS
<1>5. A \in Seq(News) /\ Len(A) = n /\ \A i \in 1..n : A[i] = Proc(id, i)
  BY <1>2, AnnouncedIs
<1>7. Joins(evs, A, A)
  OBVIOUS
<1> HIDE DEF A, j
<1>6. /\ evs \in Seq(News) /\ Len(evs) = n + n
      /\ \A i \in 1..n : evs[i] = Proc(id, i) /\ i \in 1..(n + n)
      /\ \A i \in 1..(n + n) : \E s \in 1..n : evs[i] = Proc(id, s)
  <2>1. /\ evs \in Seq(News) /\ Len(evs) = n + n
        /\ \A i \in 1..n : evs[i] = A[i] /\ i \in 1..(n + n)
        /\ \A i \in 1..n : evs[n + i] = A[i]
        /\ \A i \in 1..(n + n) : i \in 1..n \/ (i - n \in 1..n /\ i = n + (i - n))
    BY <1>5, <1>7, Parts
  <2>2. ASSUME NEW i \in 1..(n + n) PROVE \E s \in 1..n : evs[i] = Proc(id, s)
    <3>1. CASE i \in 1..n
      BY <1>5, <2>1, <3>1
    <3>2. CASE i - n \in 1..n /\ i = n + (i - n)
      BY <1>5, <2>1, <3>2
    <3>3. QED
      BY <2>1, <3>1, <3>2
  <2>3. QED
    BY <1>5, <2>1, <2>2
<1>8. evs # <<>>
  <2>1. n + n # 0
    OBVIOUS
  <2>2. QED
    BY <1>6, <2>1
<1>9. JobOK(j)
  <2>1. IsFiniteSet(1..n) /\ Cardinality(1..n) = n
    BY FS_Interval
  <2>2. Len(<<>>) + n = n
    OBVIOUS
  <2>3. QED
    BY <1>3, <2>1, <2>2 DEF JobOK, IsInjective
<1>10. /\ toKernel' \in Seq(Messages) /\ CallsApart' /\ Asked' /\ Fresh' /\ Reuse' /\ OutcomeIsWhole'
       /\ m.call \notin DOMAIN outcomes /\ jobs'[id] = j
  BY <1>1, <1>3, <1>4, Begins
<1>11. ASSUME NEW i \in 1..Len(evs)
       PROVE  /\ evs[i].id = id /\ evs[i].kind = "process-changed"
              /\ evs[i].pid \in {id} \X (1..j.n)
  <2>1. PICK s \in 1..n : evs[i] = Proc(id, s)
    BY <1>6
  <2>2. evs[i].id = id /\ evs[i].kind = "process-changed" /\ evs[i].pid = <<id, s>>
    BY <2>1 DEF Proc
  <2>3. QED
    BY <1>3, <2>2
<1>12. /\ Ordered' /\ Left' = Coming' /\ seq' \in Nat /\ seq' = seq + (n + n) /\ seq \in Nat
       /\ \A i \in 1..(n + n) : Stamped(evs, i) \in Left'
       /\ \A e \in Coming' : \E i \in 1..Len(evs) : e = Stamped(evs, i)
  <2>1. /\ Ordered' /\ Left' = Coming' /\ seq' \in Nat /\ seq' = seq + Len(evs)
        /\ \A i \in 1..Len(evs) : Stamped(evs, i) \in Coming'
        /\ \A e \in Coming' : \E i \in 1..Len(evs) : e = Stamped(evs, i)
    BY <1>1, <1>6, <1>8, Published
  <2>2. QED
    BY <1>1, <1>6, <2>1 DEF Typed
<1>13. ASSUME Intact, Faithful, lastSeq = seq, id \in DOMAIN pending, pending[id].call = j.call, j.n > 0
       PROVE  ExitsCome(id)' /\ ProcsCome(id)' /\ OutputComes(id)'
  <2>1. p.procs = {} /\ p.exits = <<>> /\ p.values = 0 /\ p.errors = <<>> /\ pending'[id] = p
    BY <1>1, <1>13 DEF Basics, Fresh
  <2>2. \A e \in Left' : e.kind = "process-changed"
    BY <1>11, <1>12 DEF Stamped
  <2>3. Missing(id)' = 0
    BY <1>3, <1>10, <2>1 DEF Missing
  <2>5. ASSUME NEW e \in Left' PROVE ~(Ahead(e)' < 2 * 0)
    <3>1. e.seq \in 1..seq'
      BY <1>12, <2>5 DEF Ordered
    <3>2. QED
      BY <1>12, <3>1 DEF Ahead
  <2>6. DOMAIN p.exits = {} /\ DOMAIN p.errors = {}
    BY <2>1
  <2>7. ExitsCome(id)'
    BY <2>1, <2>2, <2>3, <2>5, <2>6 DEF ExitsCome
  <2>8. ASSUME NEW s \in 1..n
        PROVE  \E e \in Left' : /\ Ahead(e)' >= 2 * 0
                                /\ e.kind = "process-changed" /\ e.id = id /\ e.pid = <<id, s>>
    <3>4. s \in 1..(n + n) /\ evs[s] = Proc(id, s)
      BY <1>6
    <3>5. PICK e : e = Stamped(evs, s)
      OBVIOUS
    <3>6. evs[s].kind = "process-changed" /\ evs[s].id = id /\ evs[s].pid = <<id, s>>
      BY <3>4 DEF Proc
    <3>1. e \in Left' /\ e.kind = "process-changed" /\ e.id = id /\ e.pid = <<id, s>>
      <4>1. e \in Left'
        BY <1>12, <3>4, <3>5
      <4>2. QED
        BY <3>5, <3>6, <4>1 DEF Stamped
    <3>2. Ahead(e)' >= 2 * 0
      <4>1. e.seq \in 1..seq'
        BY <1>12, <3>1 DEF Ordered
      <4>2. QED
        BY <1>12, <4>1 DEF Ahead
    <3>3. QED
      BY <3>1, <3>2
  <2>9. ProcsCome(id)'
    BY <1>3, <1>10, <2>1, <2>3, <2>8 DEF ProcsCome
  <2>10. Lag(id, "objects")' = 0 /\ Lag(id, "stream")' = 0
    BY <2>2 DEF Lag
  <2>11. Len(<<>>) = 0 /\ 0 + 0 = 0
    OBVIOUS
  <2>12. OutputComes(id)'
    BY <1>3, <1>10, <2>1, <2>2, <2>6, <2>10, <2>11 DEF OutputComes
  <2>13. QED
    BY <2>7, <2>9, <2>12
<1>14. \A i \in 1..Len(evs) :
         /\ evs[i].id = id /\ (evs[i].kind \in Named => evs[i].pid \in {id} \X (1..j.n))
         /\ ~(evs[i].kind \in {"rejected", "objects", "stream"})
         /\ evs[i].kind # "exit" /\ evs[i].kind # "rejected"
  BY <1>11
<1>15. j.call \notin DOMAIN outcomes
  BY <1>3, <1>10
<1>16. id \notin DOMAIN jobs
  OBVIOUS
<1>17. /\ \A i \in 1..Len(evs) :
            /\ evs[i].id = id
            /\ evs[i].kind \in Named => evs[i].pid \in {id} \X (1..j.n)
            /\ evs[i].kind \in {"rejected", "objects", "stream"} => i = Len(evs)
            /\ evs[i].kind = "exit" => /\ \E k \in DOMAIN j.exits : evs[i].pid[2] = j.exits[k]
                                       /\ id \in DOMAIN jobs =>
                                            \A k \in DOMAIN jobs[id].exits : evs[i].pid[2] # jobs[id].exits[k]
       /\ \A i, k \in 1..Len(evs) :
            evs[i].kind = "exit" /\ evs[k].kind = "exit" /\ evs[i].pid = evs[k].pid => i = k
  BY <1>14, Zenon
<1>18. Intact /\ j.call \in DOMAIN outcomes =>
            j.live = {} /\ \A i \in 1..Len(evs) : evs[i].kind = "rejected"
  BY <1>15
<1>19. id \in DOMAIN pending /\ pending[id].call = j.call =>
            \A i \in 1..Len(evs) : evs[i].kind = "rejected" => j.n = 0
  BY <1>14
<1>20. QED
  <2>1. /\ evs \in Seq(News) /\ id \in Ids /\ j \in Transcripts /\ forgone' \subseteq Ids
        /\ toKernel' \in Seq(Messages) /\ CallsApart' /\ Asked' /\ Fresh' /\ Reuse' /\ OutcomeIsWhole'
    BY <1>1, <1>2, <1>3, <1>6, <1>10
  <2>2. id \in DOMAIN jobs =>
          \A k \in DOMAIN jobs[id].exits : \E q \in DOMAIN j.exits : j.exits[q] = jobs[id].exits[k]
    BY <1>16
  <2>3. QED
    BY <1>4, <1>8, <1>9, <1>13, <1>17, <1>18, <1>19, <2>1, <2>2, Publishes

\* A submission that was cancelled before it came: announced, and ended, at once.
LEMMA TakeEnds ==
  ASSUME TransportInv, toKernel # <<>>, toKernel' = Tail(toKernel), NEW m, m = Head(toKernel),
         m.kind = "exec", NEW id, id = m.id, id \notin DOMAIN jobs, NEW n \in Nat \ {0},
         NEW all \in Seq(Nat), Len(all) = n, \A s \in 1..n : all[s] = s,
         jobs' = With(jobs, id, Job(m.call, n, {}, all)),
         NEW evs, Joins(evs, Announced(id, n), Ended(id, all)), Publish(evs),
         forgone' = forgone \ {id},
         UNCHANGED <<pending, owner, lastSeq, gaps, closed, outcomes, calls>>
  PROVE  TransportInv'
<1> DEFINE A == Announced(id, n)
           E == Ended(id, all)
           j == Job(m.call, n, {}, all)
           p == pending[id]
<1>1. Basics /\ Typed /\ Ordered /\ ~closed /\ forgone' \subseteq Ids /\ seq \in Nat
  BY DEF TransportInv, Basics, Typed, Publish
<1>2. m \in Messages /\ id \in Ids /\ m.call \in Nat
  <2>1. toKernel \in Seq(Messages)
    BY <1>1 DEF Typed
  <2>2. m \in Messages
    BY <2>1
  <2>3. QED
    BY <2>2 DEF Messages
<1>3. all \in Seq(Nat) /\ Len(all) = n /\ DOMAIN all = 1..n /\ \A s \in 1..n : all[s] = s
  OBVIOUS
<1>4. /\ j \in Transcripts /\ j.call = m.call /\ j.n = n /\ j.live = {} /\ j.exits = all
      /\ j.values = 0 /\ j.errors = <<>>
  <2>1. <<>> \in Seq(Nat)
    OBVIOUS
  <2>2. QED
    BY <1>2, <1>3, <2>1 DEF Job, Transcripts
<1>5. jobs' = With(jobs, id, j)
  OBVIOUS
<1>6. /\ A \in Seq(News) /\ Len(A) = n /\ \A i \in 1..n : A[i] = Proc(id, i)
  BY <1>2, AnnouncedIs
<1>7. /\ E \in Seq(News) /\ Len(E) = 2 * n
      /\ \A h \in 1..(2 * n) :
            /\ h % 2 = 0 => h \div 2 \in 1..n /\ E[h] = Exit(id, all[h \div 2])
            /\ h % 2 # 0 => (h + 1) \div 2 \in 1..n /\ E[h] = Proc(id, all[(h + 1) \div 2])
  <2> HIDE DEF E
  <2>1. /\ E \in Seq(News) /\ Len(E) = 2 * Len(all)
        /\ \A h \in 1..(2 * Len(all)) :
              /\ h % 2 = 0 => h \div 2 \in 1..Len(all) /\ E[h] = Exit(id, all[h \div 2])
              /\ h % 2 # 0 => (h + 1) \div 2 \in 1..Len(all) /\ E[h] = Proc(id, all[(h + 1) \div 2])
    BY <1>2, <1>3, EndedIs DEF E
  <2>2. Len(all) = n
    BY <1>3
  <2>3. QED
    BY <2>1, <2>2
<1>9. Joins(evs, A, E)
  OBVIOUS
<1> HIDE DEF A, E, j
<1>8. /\ evs \in Seq(News) /\ Len(evs) = n + 2 * n
      /\ \A i \in 1..n : evs[i] = Proc(id, i) /\ i \in 1..(n + 2 * n)
      /\ \A h \in 1..(2 * n) : evs[n + h] = E[h]
      /\ \A i \in 1..(n + 2 * n) : i \in 1..n \/ (i - n \in 1..(2 * n) /\ i = n + (i - n))
  <2>1. PICK k \in Nat : k = 2 * n
    OBVIOUS
  <2>2. A \in Seq(News) /\ E \in Seq(News) /\ Len(A) = n /\ Len(E) = k
    BY <1>6, <1>7, <2>1
  <2>3. /\ evs \in Seq(News) /\ Len(evs) = n + k
        /\ \A i \in 1..n : evs[i] = A[i] /\ i \in 1..(n + k)
        /\ \A i \in 1..k : evs[n + i] = E[i]
        /\ \A i \in 1..(n + k) : i \in 1..n \/ (i - n \in 1..k /\ i = n + (i - n))
    BY <1>9, <2>2, Parts
  <2>4. QED
    BY <1>6, <2>1, <2>3
<1>10. evs # <<>>
  <2>1. n + 2 * n # 0
    OBVIOUS
  <2>2. QED
    BY <1>8, <2>1
<1>11. JobOK(j)
  <2>1. Len(all) + 0 = n /\ Cardinality({}) = 0 /\ IsFiniteSet({})
    BY <1>3, FS_EmptySet
  <2>2. QED
    BY <1>3, <1>4, <2>1 DEF JobOK, IsInjective
<1>12. /\ toKernel' \in Seq(Messages) /\ CallsApart' /\ Asked' /\ Fresh' /\ Reuse' /\ OutcomeIsWhole'
       /\ m.call \notin DOMAIN outcomes /\ jobs'[id] = j
  BY <1>1, <1>4, <1>5, Begins
<1>13. ASSUME NEW i \in 1..(n + 2 * n)
       PROVE  /\ evs[i].id = id /\ evs[i].kind \in {"exit", "process-changed"}
              /\ \E s \in 1..n : evs[i].pid = <<id, s>>
              /\ evs[i].kind = "exit" =>
                   \E h \in 1..(2 * n) : /\ i = n + h /\ h % 2 = 0 /\ h \div 2 \in 1..n
                                         /\ evs[i].pid = <<id, h \div 2>>
  <2>1. CASE i \in 1..n
    <3>1. evs[i] = Proc(id, i)
      BY <1>8, <2>1
    <3>2. QED
      BY <2>1, <3>1 DEF Proc
  <2>2. CASE i - n \in 1..(2 * n) /\ i = n + (i - n)
    <3>1. PICK h \in 1..(2 * n) : i = n + h /\ evs[i] = E[h]
      BY <1>8, <2>2
    <3>2. CASE h % 2 = 0
      <4>1. h \div 2 \in 1..n /\ evs[i] = Exit(id, h \div 2)
        BY <1>3, <1>7, <3>1, <3>2
      <4>2. evs[i].id = id /\ evs[i].kind = "exit" /\ evs[i].pid = <<id, h \div 2>>
        BY <4>1 DEF Exit
      <4>3. QED
        BY <3>1, <3>2, <4>1, <4>2
    <3>3. CASE h % 2 # 0
      <4>1. (h + 1) \div 2 \in 1..n /\ evs[i] = Proc(id, (h + 1) \div 2)
        BY <1>3, <1>7, <3>1, <3>3
      <4>2. evs[i].id = id /\ evs[i].kind = "process-changed" /\ evs[i].pid = <<id, (h + 1) \div 2>>
        BY <4>1 DEF Proc
      <4>3. QED
        BY <4>1, <4>2
    <3>4. QED
      BY <3>2, <3>3
  <2>3. QED
    BY <1>8, <2>1, <2>2
<1>14. ASSUME NEW i \in 1..Len(evs)
       PROVE  /\ evs[i].id = id /\ evs[i].pid \in {id} \X (1..j.n)
              /\ ~(evs[i].kind \in {"rejected", "objects", "stream"}) /\ evs[i].kind # "rejected"
              /\ evs[i].kind = "exit" => \E k \in DOMAIN j.exits : evs[i].pid[2] = j.exits[k]
  <2>1. PICK s \in 1..n : evs[i].pid = <<id, s>>
    BY <1>8, <1>13
  <2>2. evs[i].pid[2] = j.exits[s] /\ s \in DOMAIN j.exits
    BY <1>3, <1>4, <2>1
  <2>3. i \in 1..(n + 2 * n)
    BY <1>8
  <2>4. evs[i].id = id /\ evs[i].kind \in {"exit", "process-changed"}
    BY <1>13, <2>3
  <2>5. evs[i].pid \in {id} \X (1..j.n)
    BY <1>4, <2>1
  <2>6. QED
    BY <2>2, <2>4, <2>5
<1>15. ASSUME NEW i \in 1..Len(evs), NEW k \in 1..Len(evs),
              evs[i].kind = "exit", evs[k].kind = "exit", evs[i].pid = evs[k].pid
       PROVE  i = k
  <2>1. PICK h \in 1..(2 * n) : i = n + h /\ h % 2 = 0 /\ h \div 2 \in 1..n /\ evs[i].pid = <<id, h \div 2>>
    BY <1>8, <1>13, <1>15
  <2>2. PICK g \in 1..(2 * n) : k = n + g /\ g % 2 = 0 /\ g \div 2 \in 1..n /\ evs[k].pid = <<id, g \div 2>>
    BY <1>8, <1>13, <1>15
  <2>3. <<id, h \div 2>> = <<id, g \div 2>>
    BY <1>15, <2>1, <2>2
  <2>4. h \div 2 = g \div 2
    BY <2>3
  <2>5. h = 2 * (h \div 2) /\ g = 2 * (g \div 2)
    BY <2>1, <2>2, Halves
  <2>6. QED
    BY <2>1, <2>2, <2>4, <2>5
<1>16. /\ Ordered' /\ Left' = Coming' /\ seq' = seq + (n + 2 * n)
       /\ \A i \in 1..(n + 2 * n) : Stamped(evs, i) \in Coming'
       /\ \A e \in Coming' : \E i \in 1..(n + 2 * n) : e = Stamped(evs, i)
  BY <1>1, <1>8, <1>10, Published
<1>17. ASSUME Intact, Faithful, lastSeq = seq, id \in DOMAIN pending, pending[id].call = j.call, j.n > 0
       PROVE  ExitsCome(id)' /\ ProcsCome(id)' /\ OutputComes(id)'
  <2>1. p.procs = {} /\ p.exits = <<>> /\ p.values = 0 /\ p.errors = <<>> /\ pending'[id] = p
    BY <1>1, <1>17 DEF Basics, Fresh
  <2>2. ExitsCome(id)' /\ Missing(id)' = n
    <3>1. /\ Len(all) > 0 /\ n \in Nat /\ seq' = seq + n + 2 * Len(all) /\ lastSeq' = seq
          /\ \A e \in Left' : \E i \in 1..(n + 2 * Len(all)) : e = Stamped(evs, i)
      BY <1>1, <1>3, <1>16, <1>17
    <3>2. ASSUME NEW i \in 1..n PROVE evs[i].kind = "process-changed"
      <4>1. evs[i] = Proc(id, i)
        BY <1>8
      <4>2. QED
        BY <4>1 DEF Proc
    <3>3. \A h \in 1..(2 * Len(all)) : evs[n + h] = Ended(id, all)[h]
      BY <1>3, <1>8 DEF E
    <3>4. <<>> \in Seq(Nat) /\ Len(<<>>) = 0 /\ <<>> \o all = all /\ DOMAIN <<>> = 1..0 /\ DOMAIN <<>> = {}
      BY <1>3
    <3>5. /\ jobs'[id].exits = all /\ Len(pending'[id].exits) = 0
          /\ DOMAIN pending'[id].exits = 1..0 /\ DOMAIN pending'[id].exits = {}
      BY <1>4, <1>12, <2>1, <3>4
    <3>6. ASSUME NEW x \in Seq(Nat), Len(x) = 0, all = x \o all
          PROVE  ExitsCome(id)' /\ Missing(id)' = Len(all)
      <4>1. /\ jobs'[id].exits = x \o all /\ Len(pending'[id].exits) = Len(x)
            /\ DOMAIN pending'[id].exits = 1..Len(x)
            /\ \A k \in DOMAIN pending'[id].exits : pending'[id].exits[k] = <<id, x[k]>>
        BY <3>5, <3>6
      <4>2. all \in Seq(Nat) /\ seq \in Nat /\ id \in Ids
        BY <1>1, <1>2
      <4>3. EndsLast(id, all, evs, n, x)
        BY <3>1, <3>2, <3>3, <4>1, <4>2 DEF EndsLast
      <4>4. QED
        BY <3>1, <4>2, <4>3, EndsCome
    <3>7. QED
      BY <1>3, <3>4, <3>6
  <2>3. ASSUME NEW s \in 1..n
        PROVE  \E e \in Left' : /\ Ahead(e)' >= 2 * n
                                /\ e.kind = "process-changed" /\ e.id = id /\ e.pid = <<id, s>>
    <3>1. s \in 1..(n + 2 * n) /\ evs[s] = Proc(id, s)
      BY <1>8
    <3>2. PICK e : e = Stamped(evs, s)
      OBVIOUS
    <3>3. evs[s].kind = "process-changed" /\ evs[s].id = id /\ evs[s].pid = <<id, s>>
      BY <3>1 DEF Proc
    <3>4. e \in Left'
      BY <1>16, <3>1, <3>2
    <3>5. e.kind = "process-changed" /\ e.id = id /\ e.pid = <<id, s>> /\ e.seq = seq + s
      BY <3>2, <3>3 DEF Stamped
    <3>6. Ahead(e)' = (seq + (n + 2 * n)) - (seq + s)
      BY <1>16, <3>5 DEF Ahead
    <3>7. (seq + (n + 2 * n)) - (seq + s) >= 2 * n
      BY <1>1
    <3>8. QED
      BY <3>4, <3>5, <3>6, <3>7
  <2>4. ProcsCome(id)'
    BY <1>4, <1>12, <2>1, <2>2, <2>3 DEF ProcsCome
  <2>5. \A e \in Left' : e.kind # "objects" /\ e.kind # "stream"
    <3>1. ASSUME NEW e \in Left' PROVE e.kind # "objects" /\ e.kind # "stream"
      <4>1. PICK i \in 1..(n + 2 * n) : e = Stamped(evs, i)
        BY <1>16
      <4>2. e.kind = evs[i].kind
        BY <4>1 DEF Stamped
      <4>3. QED
        BY <1>13, <4>2
    <3>2. QED
      BY <3>1
  <2>6. Lag(id, "objects")' = 0 /\ Lag(id, "stream")' = 0
    BY <2>5 DEF Lag
  <2>7. Len(<<>>) = 0 /\ 0 + 0 = 0 /\ DOMAIN p.errors = {}
    BY <2>1
  <2>8. OutputComes(id)'
    BY <1>4, <1>12, <2>1, <2>5, <2>6, <2>7 DEF OutputComes
  <2>9. QED
    BY <2>2, <2>4, <2>8
<1>18. /\ \A i \in 1..Len(evs) :
            /\ evs[i].id = id /\ (evs[i].kind \in Named => evs[i].pid \in {id} \X (1..j.n))
            /\ ~(evs[i].kind \in {"rejected", "objects", "stream"}) /\ evs[i].kind # "rejected"
            /\ evs[i].kind = "exit" => \E k \in DOMAIN j.exits : evs[i].pid[2] = j.exits[k]
       /\ \A i, k \in 1..Len(evs) :
            evs[i].kind = "exit" /\ evs[k].kind = "exit" /\ evs[i].pid = evs[k].pid => i = k
       /\ j.call \notin DOMAIN outcomes
  BY <1>4, <1>12, <1>14, <1>15
<1> HIDE DEF p
<1>20. \A i \in 1..Len(evs) :
            /\ evs[i].id = id
            /\ evs[i].kind \in Named => evs[i].pid \in {id} \X (1..j.n)
            /\ evs[i].kind \in {"rejected", "objects", "stream"} => i = Len(evs)
            /\ evs[i].kind = "exit" => /\ \E k \in DOMAIN j.exits : evs[i].pid[2] = j.exits[k]
                                       /\ id \in DOMAIN jobs =>
                                            \A k \in DOMAIN jobs[id].exits : evs[i].pid[2] # jobs[id].exits[k]
  BY <1>18, Zenon
<1>21. /\ id \notin DOMAIN jobs
       /\ Intact /\ j.call \in DOMAIN outcomes =>
            j.live = {} /\ \A i \in 1..Len(evs) : evs[i].kind = "rejected"
  BY <1>18
<1>22. id \in DOMAIN pending /\ pending[id].call = j.call =>
            \A i \in 1..Len(evs) : evs[i].kind = "rejected" => j.n = 0
  BY <1>18
<1>23. QED
  <2>1. /\ evs \in Seq(News) /\ id \in Ids /\ j \in Transcripts /\ forgone' \subseteq Ids
        /\ toKernel' \in Seq(Messages) /\ CallsApart' /\ Asked' /\ Fresh' /\ Reuse' /\ OutcomeIsWhole'
    BY <1>1, <1>2, <1>4, <1>8, <1>12
  <2>2. id \in DOMAIN jobs =>
          \A k \in DOMAIN jobs[id].exits : \E q \in DOMAIN j.exits : j.exits[q] = jobs[id].exits[k]
    BY <1>21
  <2>4. \A i, k \in 1..Len(evs) :
            evs[i].kind = "exit" /\ evs[k].kind = "exit" /\ evs[i].pid = evs[k].pid => i = k
    BY <1>18
  <2>3. QED
    BY <1>5, <1>10, <1>11, <1>17, <1>20, <1>21, <1>22, <2>1, <2>2, <2>4, Publishes

\* One message from the client.
LEMMA TakeKeeps ==
  ASSUME TransportInv, NEW n \in Nat, Take(n)
  PROVE  TransportInv'
<1>1. /\ ~closed /\ toKernel # <<>> /\ toKernel' = Tail(toKernel)
      /\ UNCHANGED <<pending, owner, lastSeq, gaps, closed, outcomes, calls, faults>>
  BY DEF Take, clientVars
<1>2. PICK m : m = Head(toKernel)
  OBVIOUS
<1>3. m \in Messages /\ m.id \in Ids /\ m.call \in Nat /\ m.kind \in {"exec", "cancel"} /\ forgone \subseteq Ids
  <2>1. toKernel \in Seq(Messages) /\ forgone \subseteq Ids
    BY DEF TransportInv, Basics, Typed
  <2>2. m \in Messages
    BY <1>1, <1>2, <2>1
  <2>3. QED
    BY <2>1, <2>2 DEF Messages
<1>4. CASE m.kind = "cancel"
  <2>1. /\ UNCHANGED <<toClient, seq, jobs>>
        /\ forgone' = forgone \/ forgone' = forgone \cup {m.id}
    BY <1>2, <1>4 DEF Take
  <2>2. forgone' \subseteq Ids
    BY <1>3, <2>1
  <2>3. QED
    BY <1>1, <2>1, <2>2, TakeCancels
<1>5. CASE m.kind = "exec" /\ m.id \in DOMAIN jobs
  <2>1. Publish(Rejected(m.id)) /\ jobs' = jobs /\ forgone' = forgone
    BY <1>2, <1>5 DEF Take
  <2>2. QED
    BY <1>1, <1>2, <1>5, <2>1, TakeRefuses
<1>6. CASE m.kind = "exec" /\ m.id \notin DOMAIN jobs /\ n = 0
  <2>1. Publish(Rejected(m.id)) /\ jobs' = With(jobs, m.id, Job(m.call, 0, {}, <<>>)) /\ forgone' = forgone
    BY <1>2, <1>6 DEF Take
  <2>2. QED
    BY <1>1, <1>2, <1>6, <2>1, TakeRefuses
<1>7. CASE m.kind = "exec" /\ m.id \notin DOMAIN jobs /\ n # 0 /\ m.id \in forgone
  <2> DEFINE all == [s \in 1..n |-> s]
  <2>1. /\ jobs' = With(jobs, m.id, Job(m.call, n, {}, all)) /\ forgone' = forgone \ {m.id}
        /\ Publish(Announced(m.id, n) \o Ended(m.id, all))
    BY <1>2, <1>7 DEF Take
  <2>2. all \in Seq(Nat) /\ Len(all) = n /\ \A s \in 1..n : all[s] = s
    <3>1. all \in [1..n -> Nat]
      OBVIOUS
    <3>2. QED
      BY <3>1
  <2> HIDE DEF all
  <2>3. PICK id : id = m.id
    OBVIOUS
  <2>4. PICK evs : evs = Announced(id, n) \o Ended(id, all)
    OBVIOUS
  <2>5. Joins(evs, Announced(id, n), Ended(id, all)) /\ Publish(evs)
    BY <2>1, <2>3, <2>4 DEF Joins
  <2>6. /\ jobs' = With(jobs, id, Job(m.call, n, {}, all)) /\ forgone' = forgone \ {id}
        /\ id \notin DOMAIN jobs /\ n \in Nat \ {0} /\ m.kind = "exec"
    BY <1>7, <2>1, <2>3
  <2>7. QED
    BY <1>1, <1>2, <2>2, <2>3, <2>5, <2>6, TakeEnds
<1>8. CASE m.kind = "exec" /\ m.id \notin DOMAIN jobs /\ n # 0 /\ m.id \notin forgone
  <2>1. /\ jobs' = With(jobs, m.id, Job(m.call, n, 1..n, <<>>)) /\ forgone' = forgone
        /\ Publish(Announced(m.id, n) \o Announced(m.id, n))
    BY <1>2, <1>8 DEF Take
  <2>3. PICK id : id = m.id
    OBVIOUS
  <2>4. PICK evs : evs = Announced(id, n) \o Announced(id, n)
    OBVIOUS
  <2>5. Joins(evs, Announced(id, n), Announced(id, n)) /\ Publish(evs)
    BY <2>1, <2>3, <2>4 DEF Joins
  <2>6. /\ jobs' = With(jobs, id, Job(m.call, n, 1..n, <<>>))
        /\ id \notin DOMAIN jobs /\ n \in Nat \ {0} /\ m.kind = "exec"
    BY <1>8, <2>1, <2>3
  <2>7. QED
    BY <1>1, <1>2, <2>1, <2>3, <2>5, <2>6, TakeRuns
<1>9. QED
  BY <1>3, <1>4, <1>5, <1>6, <1>7, <1>8

-----------------------------------------------------------------------------
(* The theorems.                                                           *)

\* Nothing is submitted, published or awaited at first.
LEMMA InitSound == Init => TransportInv
<1> SUFFICES ASSUME Init PROVE TransportInv
  OBVIOUS
<1>1. /\ toKernel = <<>> /\ toClient = <<>> /\ seq = 0 /\ jobs = <<>> /\ forgone = {}
      /\ pending = <<>> /\ owner = <<>> /\ lastSeq = 0 /\ gaps = 0
      /\ closed = FALSE /\ outcomes = <<>> /\ calls = 0
  BY DEF Init
<1>2. /\ DOMAIN jobs = {} /\ DOMAIN pending = {} /\ DOMAIN owner = {} /\ DOMAIN outcomes = {}
      /\ DOMAIN toKernel = {} /\ DOMAIN toClient = {}
  BY <1>1
<1>3. Coming = {} /\ Left = {} /\ Execs = {}
  BY <1>2 DEF Coming, Left, Execs
<1>4. Typed
  <2>1. toKernel \in Seq(Messages) /\ toClient \in Seq(Events)
    BY <1>1
  <2>2. /\ jobs \in [DOMAIN jobs -> Transcripts] /\ pending \in [DOMAIN pending -> Waiting]
        /\ owner \in [DOMAIN owner -> Ids] /\ outcomes \in [DOMAIN outcomes -> Seq(Results)]
    BY <1>1, <1>2
  <2>3. QED
    BY <1>1, <1>2, <2>1, <2>2 DEF Typed
<1>5. Ordered /\ Owners /\ CallsApart /\ Asked
  BY <1>1, <1>2, <1>3 DEF Ordered, Owners, CallsApart, Asked
<1>6. JobsRun /\ Fresh /\ Reuse /\ OfJobs /\ ExitsApart
  BY <1>2, <1>3 DEF JobsRun, Fresh, Reuse, OfJobs, ExitsApart
<1>7. Faithful
  BY <1>2, <1>3 DEF Faithful, Over, Refused, Awaited
<1>8. Once /\ OutcomeIsWhole
  BY <1>2 DEF Once, OutcomeIsWhole
<1>9. QED
  BY <1>4, <1>5, <1>6, <1>7, <1>8 DEF TransportInv, Basics

\* A step that changes nothing.
LEMMA StutterKeeps == ASSUME TransportInv, UNCHANGED transportVars PROVE TransportInv'
<1>1. UNCHANGED <<toKernel, toClient, seq, jobs, forgone, pending, owner, lastSeq,
                  gaps, closed, outcomes, calls>>
  BY DEF transportVars
<1>2. forgone' \subseteq Ids
  BY <1>1 DEF TransportInv, Basics, Typed
<1>3. Coming' = Coming /\ Left' = Left /\ Execs' = Execs
  BY <1>1 DEF Coming, Left, Execs
<1>4. Typed'
  BY <1>1 DEF TransportInv, Basics, Typed
<1>5. Ordered' /\ Owners' /\ CallsApart' /\ JobsRun' /\ Fresh' /\ Reuse'
  BY <1>1, <1>3 DEF TransportInv, Basics, Ordered, Owners, CallsApart, JobsRun, Fresh, Reuse
<1>6. OfJobs' /\ ExitsApart' /\ Asked'
  BY <1>1, <1>3 DEF TransportInv, Basics, OfJobs, ExitsApart, Asked
<1>7. Once' /\ OutcomeIsWhole'
  BY <1>1, WholeStays DEF TransportInv, Once
<1>8. ASSUME Intact' PROVE Faithful'
  <2>1. Faithful
    BY <1>1, <1>8 DEF TransportInv, Intact
  <2>2. Over' /\ Refused'
    BY <1>1, <1>3, <2>1 DEF Faithful, Over, Refused, Own
  <2>3. ASSUME NEW x PROVE /\ ExitsCome(x)' = ExitsCome(x) /\ ProcsCome(x)' = ProcsCome(x)
                           /\ OutputComes(x)' = OutputComes(x)
    BY <1>1, <1>3 DEF ExitsCome, ProcsCome, OutputComes, Lag, Missing, Ahead
  <2>4. Awaited'
    BY <1>1, <2>1, <2>3 DEF Faithful, Awaited, Own
  <2>5. QED
    BY <2>2, <2>4 DEF Faithful
<1>9. QED
  BY <1>4, <1>5, <1>6, <1>7, <1>8 DEF TransportInv, Basics

\* Every step keeps the invariant.
LEMMA StepKeeps ==
  ASSUME TransportConstants, TransportInv, [Next]_transportVars
  PROVE  TransportInv'
<1>1. CASE \E id \in Ids, waits \in BOOLEAN : Submit(id, waits)
  BY <1>1, SubmitKeeps
<1>2. CASE \E id \in Ids : Cancel(id)
  BY <1>2, CancelKeeps
<1>3. CASE Close
  BY <1>3, CloseKeeps
<1>4. CASE \E n \in 0..MaxStages : Take(n)
  <2>1. PICK n \in 0..MaxStages : Take(n)
    BY <1>4
  <2>2. n \in Nat
    BY DEF TransportConstants
  <2>3. QED
    BY <2>1, <2>2, TakeKeeps
<1>5. CASE Receive
  BY <1>5, ReceiveKeeps
<1>6. CASE Lose
  BY <1>6, LoseKeeps
<1>7. CASE Repeat
  BY <1>7, RepeatKeeps
<1>8. CASE \E id \in DOMAIN jobs : Emit(id)
  BY <1>8, EmitKeeps
<1>9. CASE \E id \in DOMAIN jobs, s \in 1..MaxStages : EmitError(id, s)
  BY <1>9, EmitErrorKeeps
<1>10. CASE \E id \in DOMAIN jobs : \E S \in SUBSET (1..MaxStages) : Ends(id, S)
  BY <1>10, EndsKeeps
<1>11. CASE UNCHANGED transportVars
  BY <1>11, StutterKeeps
<1>12. QED
  BY <1>1, <1>2, <1>3, <1>4, <1>5, <1>6, <1>7, <1>8, <1>9, <1>10, <1>11 DEF Next, Moves

\* The invariant of the transport holds in every state, for any number of
\* requests, stages, calls, lost and repeated events.
THEOREM TransportInvHolds == ASSUME TransportConstants PROVE Spec => []TransportInv
<1>1. TransportInv /\ [Next]_transportVars => TransportInv'
  BY StepKeeps
<1>2. QED
  BY <1>1, InitSound, PTL DEF Spec

\* What a promise of run() is settled with is the kernel's answer, nothing counts
\* twice, and the client's map of processes holds no dead ones.
THEOREM TransportSoundHolds == ASSUME TransportConstants PROVE Spec => []TransportSound
<1>1. TransportInv => TransportSound
  <2> SUFFICES ASSUME TransportInv PROVE TransportSound
    OBVIOUS
  <2>1. OutcomeIsWhole
    BY DEF TransportInv
  <2>2. NothingTwice
    BY DEF TransportInv, Once, Basics, ExitsApart, NothingTwice
  <2>3. NoDeadPids
    BY DEF TransportInv, Basics, Owners, NoDeadPids
  <2>4. QED
    BY <2>1, <2>2, <2>3 DEF TransportSound
<1>2. QED
  BY <1>1, TransportInvHolds, PTL

\* The counters and tables keep to their bounds.
THEOREM TransportTypesHold == ASSUME TransportConstants PROVE Spec => []TypeOK
<1> DEFINE Counted == calls \in 0..MaxCalls
<1>1. Init => Counted
  BY DEF Init, TransportConstants
<1>2. Counted /\ [Next]_transportVars => Counted'
  <2> SUFFICES ASSUME Counted, [Next]_transportVars PROVE Counted'
    OBVIOUS
  <2>1. calls' = calls \/ (calls < MaxCalls /\ calls' = calls + 1)
    BY DEF Next, Moves, Submit, Cancel, Close, Take, Receive, Lose, Repeat, Emit, EmitError, Ends,
           transportVars
  <2>2. QED
    BY <2>1 DEF TransportConstants
<1>3. TransportInv /\ Counted => TypeOK
  <2> SUFFICES ASSUME TransportInv, Counted PROVE TypeOK
    OBVIOUS
  <2>1. /\ DOMAIN jobs \subseteq Ids /\ forgone \subseteq Ids /\ DOMAIN pending \subseteq Ids
        /\ gaps \in Nat /\ seq \in Nat /\ lastSeq \in Nat
    BY DEF TransportInv, Basics, Typed
  <2>2. \A id \in DOMAIN jobs : jobs[id].live \subseteq 1..jobs[id].n
    BY DEF TransportInv, Basics, JobsRun, JobOK
  <2>3. \A i \in DOMAIN toClient : toClient[i].seq \in 1..seq
    BY DEF TransportInv, Basics, Ordered, Coming
  <2>4. lastSeq \in 0..seq
    BY <2>1 DEF TransportInv, Basics, Ordered
  <2>5. DOMAIN outcomes \subseteq 1..MaxCalls
    BY DEF TransportInv, Basics, CallsApart, TransportConstants
  <2>6. QED
    BY <2>1, <2>2, <2>3, <2>4, <2>5 DEF TypeOK
<1>4. QED
  BY <1>1, <1>2, <1>3, TransportInvHolds, PTL DEF Spec

-----------------------------------------------------------------------------
(* The copy a value is sent as (WireCopy), for any graphs of finitely many *)
(* nodes and any limits on depth and nodes.                                *)

CONSTANTS Nodes, Graphs, Root, MaxNodes, MaxDepth
VARIABLES graph, memo, stack, charged, outcome
Wire == INSTANCE WireCopy

\* What a slot may hold, and what a node is.
Slots == {"text", "closure"} \cup Nodes
Boxes == [kind : {"array", "bag", "object"}, slots : Seq(Slots), base : BOOLEAN]

\* Finitely many nodes, none of them the name of another kind of slot.
WireConstants ==
  /\ IsFiniteSet(Nodes) /\ Root \in Nodes /\ {"text", "closure"} \cap Nodes = {}
  /\ Graphs \subseteq [Nodes -> Boxes]
  /\ MaxNodes \in Nat \ {0} /\ MaxDepth \in Nat

WireTypes ==
  /\ graph \in [Nodes -> Boxes]
  /\ memo \in [DOMAIN memo -> Seq(Slots)] /\ DOMAIN memo \subseteq Nodes
  /\ stack \in Seq([node : Nodes, depth : Nat])
  /\ charged \in 1..MaxNodes
  /\ outcome \in {"walking", "sent", "refused"}

\* A copy is so much of its source, and what it refers to has a copy.
Copied ==
  \A n \in DOMAIN memo :
    /\ n \in Wire!Reached
    /\ Len(memo[n]) <= Len(graph[n].slots)
    /\ \A i \in 1..Len(memo[n]) :
         /\ memo[n][i] = graph[n].slots[i] /\ memo[n][i] # "closure"
         /\ memo[n][i] \in Nodes => memo[n][i] \in DOMAIN memo

\* The open calls are of nodes that have a copy, each one deeper than the last.
Nested ==
  /\ \A i \in 1..Len(stack) : stack[i].node \in DOMAIN memo /\ stack[i].depth = i - 1
  /\ \A i, j \in 1..Len(stack) : stack[i].node = stack[j].node => i = j

\* A copy that is not whole is open.
Finished ==
  \A n \in DOMAIN memo :
    \/ Len(memo[n]) = Len(graph[n].slots)
    \/ \E i \in 1..Len(stack) : stack[i].node = n

\* What has been charged for, and all there is to charge for.
SpentOn(n) == {n} \X ({0} \cup {i \in 1..Len(memo[n]) : memo[n][i] = "text"})
Spent      == UNION {SpentOn(n) : n \in DOMAIN memo}
Charges    == UNION {{n} \X ({0} \cup Wire!Texts(n)) : n \in Wire!Reached}
Paid    == IsFiniteSet(Spent) /\ charged = Cardinality(Spent)

Outcomes ==
  /\ Root \in DOMAIN memo
  /\ outcome # "refused" => \A n \in DOMAIN memo : ~Wire!Emptied(graph, n)
  /\ outcome = "sent" => stack = <<>>
  /\ outcome = "walking" => stack # <<>>

WireInv ==
  /\ WireTypes /\ Copied /\ Nested /\ Finished /\ Paid /\ Outcomes
  /\ Wire!RefusedForAReason

-----------------------------------------------------------------------------
\* A node's slots are numbered from one.
LEMMA SlotsAre ==
  ASSUME WireTypes, NEW n \in Nodes
  PROVE  /\ graph[n] \in Boxes /\ graph[n].slots \in Seq(Slots) /\ Len(graph[n].slots) \in Nat
         /\ DOMAIN graph[n].slots = 1..Len(graph[n].slots)
         /\ \A i \in 1..Len(graph[n].slots) : graph[n].slots[i] \in Slots
<1>1. graph[n] \in Boxes
  BY DEF WireTypes
<1>2. graph[n].slots \in Seq(Slots)
  BY <1>1 DEF Boxes
<1>3. QED
  BY <1>1, <1>2, ElementOfSeq

\* So are a copy's.
LEMMA CopiesAre ==
  ASSUME WireTypes, NEW n \in DOMAIN memo
  PROVE  memo[n] \in Seq(Slots) /\ Len(memo[n]) \in Nat /\ n \in Nodes
         /\ \A i \in 1..Len(memo[n]) : memo[n][i] \in Slots
<1>1. memo[n] \in Seq(Slots) /\ n \in Nodes
  BY DEF WireTypes
<1>2. QED
  BY <1>1, ElementOfSeq

\* The open calls are numbered from one.
LEMMA CallsAre ==
  ASSUME WireTypes
  PROVE  /\ Len(stack) \in Nat /\ DOMAIN stack = 1..Len(stack)
         /\ \A i \in 1..Len(stack) : stack[i] \in [node : Nodes, depth : Nat]
                                     /\ stack[i].node \in Nodes /\ stack[i].depth \in Nat
<1>1. stack \in Seq([node : Nodes, depth : Nat])
  BY DEF WireTypes
<1>2. Len(stack) \in Nat /\ DOMAIN stack = 1..Len(stack)
  BY <1>1
<1>3. \A i \in 1..Len(stack) : stack[i] \in [node : Nodes, depth : Nat]
  BY <1>1, ElementOfSeq
<1>4. QED
  BY <1>2, <1>3

\* The root is reached.
LEMMA RootReached == ASSUME WireConstants PROVE Root \in Wire!Reached
  BY DEF WireConstants, Wire!Reached

\* Whatever a reached node holds is reached.
LEMMA ReachedOn ==
  ASSUME WireTypes, NEW n \in Wire!Reached, NEW i \in 1..Len(graph[n].slots), graph[n].slots[i] \in Nodes
  PROVE  graph[n].slots[i] \in Wire!Reached
<1>1. n \in Nodes
  BY DEF Wire!Reached
<1>2. graph[n].slots[i] \in Wire!ToSet(graph[n].slots)
  BY <1>1, SlotsAre DEF Wire!ToSet
<1>3. ASSUME NEW S \in SUBSET Nodes, Root \in S, Wire!Closed(S) PROVE graph[n].slots[i] \in S
  <2>1. n \in S
    BY <1>3 DEF Wire!Reached
  <2>2. QED
    BY <1>2, <1>3, <2>1 DEF Wire!Closed
<1>4. QED
  BY <1>3 DEF Wire!Reached

\* The operators of FiniteSets are the same ones through the instance.
LEMMA WireCounts == \A S : Wire!Cardinality(S) = Cardinality(S)
  BY DEF Wire!Cardinality, Cardinality

\* A value has finitely many nodes.
LEMMA ReachedFinite ==
  ASSUME WireConstants PROVE IsFiniteSet(Wire!Reached)
<1>1. Wire!Reached \in SUBSET Nodes
  BY DEF Wire!Reached
<1>2. QED
  BY <1>1, FS_Subset DEF WireConstants

\* There are finitely many charges, and Size is their number.
LEMMA ChargesFinite ==
  ASSUME WireConstants, WireTypes
  PROVE  IsFiniteSet(Charges) /\ Wire!Size = Cardinality(Charges)
<1> DEFINE Of(n) == {n} \X ({0} \cup Wire!Texts(n))
           All   == {Of(n) : n \in Wire!Reached}
           of    == [n \in Wire!Reached |-> Of(n)]
<1>1. of \in Surjection(Wire!Reached, All)
  BY DEF Surjection
<1>2. IsFiniteSet(All)
  BY <1>1, ReachedFinite, FS_Surjection
<1>3. ASSUME NEW n \in Wire!Reached PROVE IsFiniteSet(Of(n))
  <2>1. n \in Nodes
    BY DEF Wire!Reached
  <2>2. IsFiniteSet(1..Len(graph[n].slots)) /\ Wire!Texts(n) \in SUBSET (1..Len(graph[n].slots))
    <3>1. Len(graph[n].slots) \in Int /\ DOMAIN graph[n].slots = 1..Len(graph[n].slots)
      BY <2>1, SlotsAre
    <3>2. IsFiniteSet(1..Len(graph[n].slots))
      BY <3>1, FS_Interval
    <3>3. QED
      BY <3>1, <3>2 DEF Wire!Texts
  <2>3. IsFiniteSet(Wire!Texts(n))
    BY <2>2, FS_Subset
  <2>4. IsFiniteSet({0}) /\ IsFiniteSet({n})
    BY FS_Singleton
  <2>5. IsFiniteSet({0} \cup Wire!Texts(n))
    BY <2>3, <2>4, FS_Union
  <2>6. QED
    BY <2>4, <2>5, FS_Product
<1>4. IsFiniteSet(UNION All)
  <2>1. \A T \in All : IsFiniteSet(T)
    BY <1>3
  <2>2. QED
    BY <1>2, <2>1, FS_UNION
<1>5. QED
  BY <1>4, WireCounts DEF Charges, Wire!Size

\* A pair is charged for when it is a node's number zero or a primitive's.
LEMMA ChargeIs ==
  ASSUME WireTypes, NEW n \in Wire!Reached, NEW i,
         i = 0 \/ (i \in 1..Len(graph[n].slots) /\ graph[n].slots[i] = "text")
  PROVE  <<n, i>> \in Charges
<1>1. n \in Nodes
  BY DEF Wire!Reached
<1>2. i \in {0} \cup Wire!Texts(n)
  BY <1>1, SlotsAre DEF Wire!Texts
<1>3. QED
  BY <1>2 DEF Charges

\* What has been charged for, pair by pair.
LEMMA SpentIs ==
  ASSUME NEW n, NEW i
  PROVE  <<n, i>> \in Spent <=> /\ n \in DOMAIN memo
                                /\ i = 0 \/ (i \in 1..Len(memo[n]) /\ memo[n][i] = "text")
  BY DEF Spent, SpentOn

\* What is spent are pairs, all of them charges.
LEMMA SpentPairs ==
  ASSUME WireTypes, Copied
  PROVE  /\ \A c \in Spent : c = <<c[1], c[2]>>
         /\ Spent \subseteq Charges
<1>1. \A c \in Spent : c = <<c[1], c[2]>>
  BY DEF Spent, SpentOn
<1>2. ASSUME NEW c \in Spent PROVE c \in Charges
  <2> DEFINE n == c[1]
             i == c[2]
  <2>1. c = <<n, i>> /\ n \in DOMAIN memo
        /\ (i = 0 \/ (i \in 1..Len(memo[n]) /\ memo[n][i] = "text"))
    BY <1>1, SpentIs
  <2> HIDE DEF n, i
  <2>2. n \in Wire!Reached /\ Len(memo[n]) <= Len(graph[n].slots) /\ n \in Nodes
        /\ Len(memo[n]) \in Nat /\ Len(graph[n].slots) \in Nat
        /\ (i \in 1..Len(memo[n]) => memo[n][i] = graph[n].slots[i])
    BY <2>1, CopiesAre, SlotsAre DEF Copied
  <2>3. i = 0 \/ (i \in 1..Len(graph[n].slots) /\ graph[n].slots[i] = "text")
    BY <2>1, <2>2
  <2>4. QED
    BY <2>1, <2>2, <2>3, ChargeIs
<1>3. QED
  BY <1>1, <1>2

\* One more than what the limit allows is more than the limit.
LEMMA OneTooMany ==
  ASSUME WireConstants, WireInv, charged >= MaxNodes,
         NEW c \in Charges, c \notin Spent
  PROVE  Wire!Size > MaxNodes
<1>1. IsFiniteSet(Spent) /\ charged = Cardinality(Spent) /\ charged \in Nat /\ MaxNodes \in Nat
  BY DEF WireInv, Paid, WireTypes, WireConstants
<1>2. Cardinality(Spent \cup {c}) = charged + 1
  BY <1>1, FS_AddElement
<1>3. Spent \cup {c} \in SUBSET Charges
  BY SpentPairs DEF WireInv
<1>4. IsFiniteSet(Charges) /\ Wire!Size = Cardinality(Charges)
  BY ChargesFinite DEF WireInv
<1>5. Cardinality(Spent \cup {c}) <= Cardinality(Charges)
  BY <1>3, <1>4, FS_Subset
<1>6. Cardinality(Charges) \in Nat
  BY <1>4, FS_CardinalityType
<1>7. QED
  BY <1>1, <1>2, <1>4, <1>5, <1>6

\* The open calls and one node more are as many as they look.
LEMMA DepthIsNodes ==
  ASSUME WireConstants, WireInv, NEW x \in Wire!Reached, x \notin DOMAIN memo
  PROVE  Wire!Cardinality(Wire!Reached) > Len(stack)
<1> DEFINE k == Len(stack)
           f == [i \in 1..(k + 1) |-> IF i <= k THEN stack[i].node ELSE x]
<1>1. k \in Nat /\ \A i \in 1..k : stack[i].node \in DOMAIN memo
  BY CallsAre DEF WireInv, Nested
<1>2. \A i, j \in 1..k : stack[i].node = stack[j].node => i = j
  BY DEF WireInv, Nested
<1>3. \A i \in 1..k : stack[i].node \in Wire!Reached
  BY <1>1 DEF WireInv, Copied
<1> HIDE DEF k
<1>4. f \in [1..(k + 1) -> Wire!Reached]
  BY <1>1, <1>3
<1>5. ASSUME NEW i \in 1..(k + 1), NEW j \in 1..(k + 1), f[i] = f[j] PROVE i = j
  BY <1>1, <1>2, <1>5
<1>6. f \in Injection(1..(k + 1), Wire!Reached)
  <2>1. \A i, j \in 1..(k + 1) : f[i] = f[j] => i = j
    BY <1>5
  <2>2. QED
    BY <1>4, <2>1, Zenon DEF Injection, IsInjective
<1>7. Cardinality(1..(k + 1)) = k + 1
  <2>1. 1 \in Int /\ k + 1 \in Int /\ ~(1 > k + 1) /\ (k + 1) - 1 + 1 = k + 1
    BY <1>1
  <2>2. Cardinality(1..(k + 1)) = IF 1 > k + 1 THEN 0 ELSE (k + 1) - 1 + 1
    BY <2>1, FS_Interval, Zenon
  <2>3. QED
    BY <2>1, <2>2
<1>8. Cardinality(1..(k + 1)) <= Cardinality(Wire!Reached)
  BY <1>6, ReachedFinite, FS_Injection
<1>9. Cardinality(Wire!Reached) \in Nat
  BY ReachedFinite, FS_CardinalityType
<1>10. Cardinality(Wire!Reached) > k
  BY <1>1, <1>7, <1>8, <1>9
<1>11. QED
  BY <1>10, WireCounts DEF k

-----------------------------------------------------------------------------
(* Where the walk stands.                                                  *)

\* An open walk's top call, and the slot it comes to.
LEMMA TopIs ==
  ASSUME WireTypes, Nested, Wire!Open
  PROVE  /\ Len(stack) \in Nat \ {0} /\ Wire!Top = stack[Len(stack)]
         /\ Wire!Top.node \in DOMAIN memo /\ Wire!Top.node \in Nodes
         /\ Wire!Top.depth = Len(stack) - 1
<1>1. Len(stack) \in Nat /\ stack \in Seq([node : Nodes, depth : Nat])
  BY CallsAre DEF WireTypes
<1>2. stack # <<>>
  BY DEF Wire!Open
<1>3. Len(stack) # 0
  BY <1>1, <1>2, EmptySeq
<1>4. Wire!Top = stack[Len(stack)]
  BY DEF Wire!Top, Wire!Last
<1>5. Len(stack) \in 1..Len(stack)
  BY <1>1, <1>3
<1>6. QED
  BY <1>1, <1>3, <1>4, <1>5 DEF Nested, WireTypes

\* The slot it comes to is a slot of the source; a node in it is reached.
LEMMA SlotIs ==
  ASSUME WireTypes, Nested, Copied, Wire!Unread, NEW t, t = Wire!Top.node, NEW k, k = Len(memo[t])
  PROVE  /\ t \in DOMAIN memo /\ t \in Nodes /\ t \in Wire!Reached
         /\ k \in Nat /\ k + 1 \in 1..Len(graph[t].slots)
         /\ Wire!Slot = graph[t].slots[k + 1] /\ Wire!Slot \in Slots
         /\ Wire!Slot \in Nodes => Wire!Slot \in Wire!Reached
<1>1. Wire!Open /\ k < Len(graph[t].slots) /\ Wire!Slot = graph[t].slots[k + 1]
  BY DEF Wire!Unread, Wire!Slot
<1>2. t \in DOMAIN memo /\ t \in Nodes
  BY <1>1, TopIs
<1>3. k \in Nat /\ Len(graph[t].slots) \in Nat /\ t \in Wire!Reached
  BY <1>2, CopiesAre, SlotsAre DEF Copied
<1>4. k + 1 \in 1..Len(graph[t].slots)
  BY <1>1, <1>3
<1>5. graph[t].slots[k + 1] \in Slots
  BY <1>2, <1>4, SlotsAre
<1>6. graph[t].slots[k + 1] \in Nodes => graph[t].slots[k + 1] \in Wire!Reached
  BY <1>3, <1>4, ReachedOn
<1>7. QED
  BY <1>1, <1>2, <1>3, <1>4, <1>5, <1>6

\* What a copy is with one slot more.
LEMMA FillsIs ==
  ASSUME WireTypes, Nested, Copied, Wire!Unread, NEW t, t = Wire!Top.node, NEW k, k = Len(memo[t])
  PROVE  /\ DOMAIN Wire!Fills = DOMAIN memo
         /\ Wire!Fills[t] \in Seq(Slots) /\ Len(Wire!Fills[t]) = k + 1
         /\ \A i \in 1..k : Wire!Fills[t][i] = memo[t][i]
         /\ Wire!Fills[t][k + 1] = Wire!Slot
         /\ \A n \in DOMAIN memo : n # t => Wire!Fills[n] = memo[n]
         /\ Wire!Fills \in [DOMAIN memo -> Seq(Slots)]
<1>1. t \in DOMAIN memo /\ memo[t] \in Seq(Slots) /\ Wire!Slot \in Slots
  BY SlotIs, CopiesAre
<1>2. /\ DOMAIN Wire!Fills = DOMAIN memo /\ Wire!Fills[t] = Append(memo[t], Wire!Slot)
      /\ \A n \in DOMAIN memo : n # t => Wire!Fills[n] = memo[n]
  BY <1>1 DEF Wire!Fills, WireTypes
<1>3. /\ Append(memo[t], Wire!Slot) \in Seq(Slots) /\ Len(Append(memo[t], Wire!Slot)) = k + 1
      /\ \A i \in 1..k : Append(memo[t], Wire!Slot)[i] = memo[t][i]
      /\ Append(memo[t], Wire!Slot)[k + 1] = Wire!Slot
  BY <1>1, AppendProperties
<1>4. Wire!Fills \in [DOMAIN memo -> Seq(Slots)]
  BY <1>1, <1>3 DEF Wire!Fills, WireTypes
<1>5. QED
  BY <1>2, <1>3, <1>4, Zenon

-----------------------------------------------------------------------------
(* Every step keeps the invariant.                                         *)

\* The walk starts with the root alone, charged for and open.
LEMMA WireStart ==
  ASSUME WireConstants, Wire!Init PROVE WireInv
<1>1. /\ graph \in Graphs /\ outcome = (IF Wire!Emptied(graph, Root) THEN "refused" ELSE "walking")
      /\ memo = [n \in {Root} |-> <<>>] /\ stack = <<[node |-> Root, depth |-> 0]>> /\ charged = 1
  BY DEF Wire!Init
<1>2. Root \in Nodes /\ graph \in [Nodes -> Boxes] /\ Root \in Wire!Reached
  BY <1>1, RootReached DEF WireConstants
<1>3. /\ DOMAIN memo = {Root} /\ memo[Root] = <<>> /\ <<>> \in Seq(Slots) /\ Len(memo[Root]) = 0
      /\ memo \in [DOMAIN memo -> Seq(Slots)]
  BY <1>1
<1>4. /\ stack \in Seq([node : Nodes, depth : Nat]) /\ Len(stack) = 1
      /\ stack[1] = [node |-> Root, depth |-> 0]
  BY <1>1, <1>2
<1>5. WireTypes
  BY <1>1, <1>2, <1>3, <1>4 DEF WireTypes, WireConstants
<1>6. Len(graph[Root].slots) \in Nat
  BY <1>2, <1>5, SlotsAre
<1>7. Copied
  BY <1>2, <1>3, <1>6 DEF Copied
<1>8. Nested
  BY <1>3, <1>4 DEF Nested
<1>9. Finished
  BY <1>3, <1>4 DEF Finished
<1>10. Paid
  <2>1. {i \in 1..Len(memo[Root]) : memo[Root][i] = "text"} = {}
    BY <1>3
  <2>2. Spent = {<<Root, 0>>}
    BY <1>3, <2>1 DEF Spent, SpentOn
  <2>3. QED
    BY <1>1, <2>2, FS_Singleton DEF Paid
<1>11. Outcomes
  BY <1>1, <1>3, <1>4 DEF Outcomes
<1>12. Wire!RefusedForAReason
  BY <1>1, <1>2 DEF Wire!RefusedForAReason
<1>13. QED
  BY <1>5, <1>7, <1>8, <1>9, <1>10, <1>11, <1>12 DEF WireInv

\* Why a value may be refused.
Reason ==
  \/ \E n \in Wire!Reached : "closure" \in Wire!ToSet(graph[n].slots) \/ Wire!Emptied(graph, n)
  \/ Wire!Size > MaxNodes
  \/ Wire!Cardinality(Wire!Reached) > MaxDepth

\* What the graph decides does not change while it is walked.
LEMMA GraphStays ==
  ASSUME graph' = graph
  PROVE  /\ Wire!Reached' = Wire!Reached /\ Reason' = Reason
         /\ \A n : Wire!Emptied(graph, n)' = Wire!Emptied(graph, n)
<1>1. Wire!Reached' = Wire!Reached
  BY DEF Wire!Reached, Wire!Closed
<1>2. Wire!Size' = Wire!Size
  BY <1>1 DEF Wire!Size, Wire!Texts
<1>3. QED
  BY <1>1, <1>2 DEF Reason, Wire!Emptied

\* A walk that is refused for a reason is left as it was.
LEMMA WireRefuses ==
  ASSUME WireConstants, WireInv, Wire!Refuse, Reason PROVE WireInv'
<1>1. outcome' = "refused" /\ UNCHANGED <<graph, memo, stack, charged>>
  BY DEF Wire!Refuse
<1>2. Wire!Reached' = Wire!Reached /\ Reason'
  BY <1>1, GraphStays
<1>3. WireTypes'
  BY <1>1 DEF WireInv, WireTypes
<1>4. Copied' /\ Nested' /\ Finished'
  BY <1>1, <1>2 DEF WireInv, Copied, Nested, Finished
<1>5. Paid'
  BY <1>1 DEF WireInv, Paid, Spent, SpentOn
<1>6. Outcomes'
  BY <1>1 DEF WireInv, Outcomes
<1>7. Wire!RefusedForAReason'
  BY <1>2 DEF Wire!RefusedForAReason, Reason
<1>8. QED
  BY <1>3, <1>4, <1>5, <1>6, <1>7 DEF WireInv

\* The memo with a slot filled, and with new nodes in it.
Grows(X) == memo' = [n \in DOMAIN memo \cup X |-> IF n \in X THEN <<>> ELSE Wire!Fills[n]]

\* Each copy, then: filled, new or as it was.
LEMMA GrowsIs ==
  ASSUME NEW X, X \cap DOMAIN memo = {}, Grows(X)
  PROVE  /\ DOMAIN memo' = DOMAIN memo \cup X
         /\ \A n \in DOMAIN memo : n \notin X /\ memo'[n] = Wire!Fills[n]
         /\ \A n \in X : memo'[n] = <<>> /\ Len(memo'[n]) = 0
         /\ memo' = [n \in DOMAIN memo' |-> memo'[n]]
<1>1. DOMAIN memo' = DOMAIN memo \cup X
  BY DEF Grows
<1>2. \A n \in DOMAIN memo : n \notin X /\ memo'[n] = Wire!Fills[n]
  BY DEF Grows
<1>3. \A n \in X : memo'[n] = <<>> /\ Len(memo'[n]) = 0
  BY DEF Grows
<1>4. memo' = [n \in DOMAIN memo' |-> memo'[n]]
  BY DEF Grows
<1>5. QED
  BY <1>1, <1>2, <1>3, <1>4

\* The memo then is as it was, with a slot filled, and with a new node in it if that slot is one.
LEMMA MemoGrows ==
  ASSUME WireConstants, WireInv, Wire!Unread, graph' = graph, Wire!Slot # "closure",
         NEW X \in SUBSET Nodes, X \subseteq {Wire!Slot}, X \cap DOMAIN memo = {},
         Wire!Slot \in Nodes => Wire!Slot \in DOMAIN memo \cup X, Grows(X)
  PROVE  /\ Copied' /\ memo' \in [DOMAIN memo' -> Seq(Slots)] /\ DOMAIN memo' = DOMAIN memo \cup X
         /\ DOMAIN memo' \subseteq Nodes
<1> DEFINE t == Wire!Top.node
           k == Len(memo[t])
<1> WireTypes /\ Nested /\ Copied
  BY DEF WireInv
<1>1. /\ t \in DOMAIN memo /\ t \in Nodes /\ t \in Wire!Reached
      /\ k \in Nat /\ k + 1 \in 1..Len(graph[t].slots)
      /\ Wire!Slot = graph[t].slots[k + 1] /\ Wire!Slot \in Slots
      /\ Wire!Slot \in Nodes => Wire!Slot \in Wire!Reached
  BY SlotIs
<1>2. /\ DOMAIN Wire!Fills = DOMAIN memo
      /\ Wire!Fills[t] \in Seq(Slots) /\ Len(Wire!Fills[t]) = k + 1
      /\ \A i \in 1..k : Wire!Fills[t][i] = memo[t][i]
      /\ Wire!Fills[t][k + 1] = Wire!Slot
      /\ \A n \in DOMAIN memo : n # t => Wire!Fills[n] = memo[n]
      /\ Wire!Fills \in [DOMAIN memo -> Seq(Slots)]
  BY FillsIs
<1>3. \A n \in DOMAIN memo : n \in Nodes
  BY DEF WireTypes
<1> HIDE DEF t, k
<1>4. DOMAIN memo' = DOMAIN memo \cup X /\ DOMAIN memo' \subseteq Nodes
  BY <1>3, GrowsIs
<1>5. \A n \in DOMAIN memo : n \notin X /\ memo'[n] = Wire!Fills[n]
  BY GrowsIs
<1>6. \A n \in X : memo'[n] = <<>>
  BY GrowsIs
<1>7. memo' \in [DOMAIN memo' -> Seq(Slots)]
  <2>1. \A n \in DOMAIN memo \cup X : memo'[n] \in Seq(Slots)
    <3>1. \A n \in DOMAIN memo : memo'[n] \in Seq(Slots)
      BY <1>2, <1>5
    <3>2. \A n \in X : memo'[n] \in Seq(Slots)
      <4>1. <<>> \in Seq(Slots)
        OBVIOUS
      <4>2. QED
        BY <1>6, <4>1, Zenon
    <3>3. QED
      BY <3>1, <3>2, Zenon
  <2>2. memo' = [n \in DOMAIN memo' |-> memo'[n]]
    BY GrowsIs
  <2>3. QED
    BY <1>4, <2>1, <2>2
<1>8. Wire!Reached' = Wire!Reached
  BY GraphStays
<1>9. ASSUME NEW n \in DOMAIN memo'
      PROVE  /\ n \in Wire!Reached
             /\ Len(memo'[n]) <= Len(graph[n].slots)
             /\ \A i \in 1..Len(memo'[n]) :
                  /\ memo'[n][i] = graph[n].slots[i] /\ memo'[n][i] # "closure"
                  /\ memo'[n][i] \in Nodes => memo'[n][i] \in DOMAIN memo'
  <2>1. CASE n \in X
    <3>1. n = Wire!Slot /\ n \in Nodes /\ n \in Wire!Reached /\ memo'[n] = <<>> /\ Len(memo'[n]) = 0
      BY <1>1, <1>6, <2>1
    <3>2. Len(graph[n].slots) \in Nat
      BY <3>1, SlotsAre
    <3>3. QED
      BY <3>1, <3>2
  <2>2. CASE n \in DOMAIN memo /\ n # t
    BY <2>2, <1>2, <1>4, <1>5 DEF Copied
  <2>3. CASE n = t
    <3>1. memo'[n] = Wire!Fills[t] /\ Len(memo'[n]) = k + 1 /\ memo'[n][k + 1] = Wire!Slot
          /\ \A i \in 1..k : memo'[n][i] = memo[t][i]
      BY <1>1, <1>2, <1>5, <2>3
    <3>2. \A i \in 1..k : /\ memo[t][i] = graph[t].slots[i] /\ memo[t][i] # "closure"
                          /\ memo[t][i] \in Nodes => memo[t][i] \in DOMAIN memo
      BY <1>1 DEF Copied, k
    <3>3. Len(graph[t].slots) \in Nat
      BY <1>1, SlotsAre
    <3>4. k + 1 <= Len(graph[t].slots)
      BY <1>1, <3>3
    <3>5. ASSUME NEW i \in 1..(k + 1)
          PROVE  /\ memo'[n][i] = graph[n].slots[i] /\ memo'[n][i] # "closure"
                 /\ memo'[n][i] \in Nodes => memo'[n][i] \in DOMAIN memo'
      <4>1. CASE i = k + 1
        BY <1>1, <1>4, <2>3, <3>1, <4>1
      <4>2. CASE i # k + 1
        <5>1. i \in 1..k
          BY <1>1, <4>2
        <5>2. QED
          BY <5>1, <1>4, <2>3, <3>1, <3>2
      <4>3. QED
        BY <4>1, <4>2
    <3>6. QED
      BY <1>1, <2>3, <3>1, <3>4, <3>5
  <2>4. QED
    BY <1>4, <2>1, <2>2, <2>3
<1>10. Copied'
  BY <1>8, <1>9 DEF Copied
<1>11. QED
  BY <1>4, <1>7, <1>10

\* What is spent then: the slot, if it is a primitive, and the new nodes.
Pays(X) ==
  \A n, i : <<n, i>> \in Spent' <=>
    \/ <<n, i>> \in Spent
    \/ n \in X /\ i = 0
    \/ n = Wire!Top.node /\ i = Len(memo[Wire!Top.node]) + 1 /\ Wire!Slot = "text"

\* That is what is spent.
LEMMA SpentGrows ==
  ASSUME WireConstants, WireInv, Wire!Unread, graph' = graph, Wire!Slot # "closure",
         NEW X \in SUBSET Nodes, X \subseteq {Wire!Slot}, X \cap DOMAIN memo = {},
         Wire!Slot \in Nodes => Wire!Slot \in DOMAIN memo \cup X, Grows(X)
  PROVE  Pays(X)
<1>0. PICK t, k : t = Wire!Top.node /\ k = Len(memo[t])
  OBVIOUS
<1> WireTypes /\ Nested /\ Copied
  BY DEF WireInv
<1>1. t \in DOMAIN memo /\ k \in Nat
  BY <1>0, SlotIs
<1>2. /\ DOMAIN Wire!Fills = DOMAIN memo /\ Len(Wire!Fills[t]) = k + 1
      /\ \A i \in 1..k : Wire!Fills[t][i] = memo[t][i]
      /\ Wire!Fills[t][k + 1] = Wire!Slot
      /\ \A n \in DOMAIN memo : n # t => Wire!Fills[n] = memo[n]
  BY <1>0, FillsIs
<1>3. DOMAIN memo' = DOMAIN memo \cup X /\ \A n \in DOMAIN memo : n \notin X /\ memo'[n] = Wire!Fills[n]
  BY GrowsIs
<1>4. \A n \in X : memo'[n] = <<>> /\ Len(memo'[n]) = 0
  BY GrowsIs
<1>5. \A n, i : <<n, i>> \in Spent' <=> /\ n \in DOMAIN memo'
                                        /\ i = 0 \/ (i \in 1..Len(memo'[n]) /\ memo'[n][i] = "text")
  BY DEF Spent, SpentOn
<1>6. \A n, i : <<n, i>> \in Spent <=> /\ n \in DOMAIN memo
                                       /\ i = 0 \/ (i \in 1..Len(memo[n]) /\ memo[n][i] = "text")
  BY SpentIs
<1>7. ASSUME NEW n, NEW i, n \notin DOMAIN memo
      PROVE  <<n, i>> \in Spent' <=> n \in X /\ i = 0
  <2>1. n \in X => ~(i \in 1..Len(memo'[n]))
    BY <1>4
  <2>2. <<n, i>> \in Spent' <=> n \in X /\ (i = 0 \/ (i \in 1..Len(memo'[n]) /\ memo'[n][i] = "text"))
    BY <1>3, <1>5, <1>7
  <2>3. QED
    BY <2>1, <2>2
<1>8. ASSUME NEW n \in DOMAIN memo, NEW i, n # t
      PROVE  <<n, i>> \in Spent' <=> <<n, i>> \in Spent
  BY <1>2, <1>3, <1>5, <1>6, <1>8
<1>9. ASSUME NEW i
      PROVE  <<t, i>> \in Spent' <=> <<t, i>> \in Spent \/ (i = k + 1 /\ Wire!Slot = "text")
  <2>1. memo'[t] = Wire!Fills[t] /\ t \in DOMAIN memo'
    BY <1>1, <1>3
  <2>2. i \in 1..(k + 1) <=> i \in 1..k \/ i = k + 1
    BY <1>1
  <2>3. <<t, i>> \in Spent' <=> i = 0 \/ (i \in 1..(k + 1) /\ Wire!Fills[t][i] = "text")
    BY <1>2, <1>5, <2>1
  <2>4. <<t, i>> \in Spent <=> i = 0 \/ (i \in 1..k /\ memo[t][i] = "text")
    BY <1>0, <1>1, <1>6
  <2>5. i \in 1..k => Wire!Fills[t][i] = memo[t][i]
    BY <1>2
  <2>6. QED
    BY <1>2, <2>2, <2>3, <2>4, <2>5
<1>10. \A n, i : <<n, i>> \in Spent => n \in DOMAIN memo
  BY <1>6
<1>11. t \notin X
  BY <1>1, <1>3
<1>12. \A n, i : <<n, i>> \in Spent' <=>
         \/ <<n, i>> \in Spent
         \/ n \in X /\ i = 0
         \/ n = t /\ i = k + 1 /\ Wire!Slot = "text"
  BY <1>1, <1>3, <1>7, <1>8, <1>9, <1>10, <1>11
<1>13. QED
  BY <1>0, <1>12 DEF Pays

\* Sets of the same pairs are the same.
LEMMA SamePairs ==
  ASSUME NEW A, NEW B, \A x \in A : \E n, i : x = <<n, i>>, \A x \in B : \E n, i : x = <<n, i>>,
         \A n, i : <<n, i>> \in A <=> <<n, i>> \in B
  PROVE  A = B
<1>1. ASSUME NEW x \in A PROVE x \in B
  <2>1. PICK n, i : x = <<n, i>>
    OBVIOUS
  <2>2. QED
    BY <2>1
<1>2. ASSUME NEW x \in B PROVE x \in A
  <2>1. PICK n, i : x = <<n, i>>
    OBVIOUS
  <2>2. QED
    BY <2>1
<1>3. QED
  BY <1>1, <1>2

\* A slot that is no new node costs one if it is a primitive.
LEMMA SpentFills ==
  ASSUME WireConstants, WireInv, Wire!Unread, graph' = graph, Wire!Slot # "closure",
         Wire!Slot \in Nodes => Wire!Slot \in DOMAIN memo, Grows({}),
         NEW t, t = Wire!Top.node, NEW k, k = Len(memo[t])
  PROVE  /\ Wire!Slot = "text" => Spent' = Spent \cup {<<t, k + 1>>}
         /\ Wire!Slot # "text" => Spent' = Spent
<1>1. {} \in SUBSET Nodes /\ {} \subseteq {Wire!Slot} /\ {} \cap DOMAIN memo = {}
      /\ (Wire!Slot \in Nodes => Wire!Slot \in DOMAIN memo \cup {})
  OBVIOUS
<1>2. \A n, i : <<n, i>> \in Spent' <=>
        \/ <<n, i>> \in Spent
        \/ n \in {} /\ i = 0
        \/ n = t /\ i = k + 1 /\ Wire!Slot = "text"
  <2>1. PICK X \in SUBSET Nodes : X = {}
    OBVIOUS
  <2>2. X \subseteq {Wire!Slot} /\ X \cap DOMAIN memo = {} /\ Grows(X)
    BY <2>1
  <2>3. Wire!Slot \in Nodes => Wire!Slot \in DOMAIN memo \cup X
    BY <2>1
  <2>4. Pays(X)
    BY <2>2, <2>3, SpentGrows
  <2>5. QED
    BY <2>1, <2>4 DEF Pays
<1>3. \A x \in Spent : \E n, i : x = <<n, i>>
  BY SpentPairs DEF WireInv
<1>4. \A x \in Spent' : \E n, i : x = <<n, i>>
  BY DEF Spent, SpentOn
<1>5. ASSUME Wire!Slot = "text" PROVE Spent' = Spent \cup {<<t, k + 1>>}
  <2> DEFINE more == Spent \cup {<<t, k + 1>>}
  <2>1. \A n, i : <<n, i>> \in Spent' <=> <<n, i>> \in Spent \/ (n = t /\ i = k + 1)
    BY <1>2, <1>5
  <2>2. \A x \in more : \E n, i : x = <<n, i>>
    BY <1>3
  <2>3. \A n, i : <<n, i>> \in Spent' <=> <<n, i>> \in more
    BY <2>1
  <2>4. QED
    BY <1>4, <2>2, <2>3, SamePairs
<1>6. ASSUME Wire!Slot # "text" PROVE Spent' = Spent
  <2>1. \A n, i : <<n, i>> \in Spent' <=> <<n, i>> \in Spent
    BY <1>2, <1>6
  <2>2. QED
    BY <1>3, <1>4, <2>1, SamePairs
<1>7. QED
  BY <1>5, <1>6

\* A step that fills a slot and does not open a call.
LEMMA SlotFilled ==
  ASSUME WireConstants, WireInv, Wire!Unread, graph' = graph, stack' = stack, outcome' = outcome,
         Wire!Slot # "closure", Wire!Slot \in Nodes => Wire!Slot \in DOMAIN memo,
         Grows({}), charged' \in 1..MaxNodes, Paid'
  PROVE  WireInv'
<1> DEFINE t == Wire!Top.node
           k == Len(memo[t])
<1> WireTypes /\ Nested /\ Copied /\ Finished /\ Outcomes
  BY DEF WireInv
<1>1. /\ Wire!Fills \in [DOMAIN memo -> Seq(Slots)] /\ Len(Wire!Fills[t]) = k + 1
      /\ \A n \in DOMAIN memo : n # t => Wire!Fills[n] = memo[n]
  BY FillsIs
<1>2. {} \in SUBSET Nodes /\ {} \subseteq {Wire!Slot} /\ {} \cap DOMAIN memo = {}
      /\ (Wire!Slot \in Nodes => Wire!Slot \in DOMAIN memo \cup {})
      /\ DOMAIN memo \cup {} = DOMAIN memo
  OBVIOUS
<1>14. /\ Copied' /\ memo' \in [DOMAIN memo' -> Seq(Slots)] /\ DOMAIN memo' \subseteq Nodes
      /\ DOMAIN memo' = DOMAIN memo \cup {}
  BY <1>2, MemoGrows
<1>15. \A n \in DOMAIN memo : memo'[n] = Wire!Fills[n]
  BY <1>2, GrowsIs
<1>3. /\ Copied' /\ memo' \in [DOMAIN memo' -> Seq(Slots)] /\ DOMAIN memo' \subseteq Nodes
      /\ DOMAIN memo' = DOMAIN memo
  BY <1>2, <1>14
<1>4. WireTypes'
  BY <1>3 DEF WireTypes
<1>5. Nested'
  BY <1>3 DEF Nested
<1>6. Wire!Open /\ t \in DOMAIN memo
  BY TopIs DEF Wire!Unread
<1>7. Len(stack) \in 1..Len(stack) /\ stack[Len(stack)].node = t
  BY <1>6, TopIs
<1>8. Finished'
  <2>1. ASSUME NEW n \in DOMAIN memo
        PROVE  \/ Len(memo'[n]) = Len(graph[n].slots)
               \/ \E i \in 1..Len(stack) : stack[i].node = n
    <3>1. CASE n = t
      BY <1>7, <3>1
    <3>2. CASE n # t
      BY <1>1, <1>15, <3>2 DEF Finished
    <3>3. QED
      BY <3>1, <3>2
  <2>2. QED
    BY <1>3, <2>1 DEF Finished
<1>9. Outcomes'
  BY <1>3, GraphStays DEF Outcomes
<1>10. Wire!RefusedForAReason'
  BY GraphStays DEF WireInv, Wire!RefusedForAReason, Reason
<1>11. QED
  BY <1>3, <1>4, <1>5, <1>8, <1>9, <1>10 DEF WireInv

\* A primitive is charged for and copied, or it is one too many.
LEMMA PrimitiveKeeps ==
  ASSUME WireConstants, WireInv, Wire!Primitive PROVE WireInv'
<1> DEFINE t == Wire!Top.node
           k == Len(memo[t])
           c == <<t, k + 1>>
<1> WireTypes /\ Nested /\ Copied /\ Finished /\ Outcomes /\ Paid
  BY DEF WireInv
<1>1. Wire!Unread /\ Wire!Slot = "text" /\ Wire!Charged
  BY DEF Wire!Primitive
<1>2. /\ t \in DOMAIN memo /\ t \in Nodes /\ t \in Wire!Reached /\ k \in Nat
      /\ k + 1 \in 1..Len(graph[t].slots) /\ Wire!Slot = graph[t].slots[k + 1]
  BY <1>1, SlotIs
<1>3. c \in Charges
  BY <1>1, <1>2, ChargeIs
<1>4. c \notin Spent
  <2>1. k + 1 # 0 /\ ~(k + 1 \in 1..Len(memo[t]))
    BY <1>2
  <2>2. QED
    BY <2>1, SpentIs
<1>5. charged \in 1..MaxNodes /\ MaxNodes \in Nat
  BY DEF WireTypes, WireConstants
<1>6. CASE charged >= MaxNodes
  <2>1. Wire!Refuse
    BY <1>1, <1>6 DEF Wire!Charged
  <2>2. Wire!Size > MaxNodes
    BY <1>3, <1>4, <1>6, OneTooMany
  <2>3. QED
    BY <2>1, <2>2, WireRefuses DEF Reason
<1>7. CASE ~(charged >= MaxNodes)
  <2>1. charged < MaxNodes
    BY <1>5, <1>7
  <2>2. charged' = charged + 1 /\ graph' = graph /\ outcome' = outcome
    BY <1>1, <1>7 DEF Wire!Charged
  <2>3. memo' = Wire!Fills /\ stack' = stack
    BY <2>1 DEF Wire!Primitive
  <2>4. charged' \in 1..MaxNodes
    BY <1>5, <2>1, <2>2
  <2>5. "text" \notin Nodes
    BY DEF WireConstants
  <2>6. Grows({})
    <3>1. Wire!Fills \in [DOMAIN memo -> Seq(Slots)]
      BY <1>1, FillsIs
    <3>2. QED
      BY <2>3, <3>1 DEF Grows
  <2>8. Spent' = Spent \cup {c}
    BY <1>1, <2>2, <2>5, <2>6, SpentFills
  <2>9. Paid'
    <3>1. IsFiniteSet(Spent) /\ charged = Cardinality(Spent)
      BY DEF Paid
    <3>2. IsFiniteSet(Spent \cup {c}) /\ Cardinality(Spent \cup {c}) = Cardinality(Spent) + 1
      BY <1>4, <3>1, FS_AddElement
    <3>3. QED
      BY <2>2, <2>8, <3>1, <3>2 DEF Paid
  <2>10. QED
    BY <1>1, <2>2, <2>3, <2>4, <2>5, <2>6, <2>9, SlotFilled
<1>8. QED
  BY <1>6, <1>7

\* What the boundary refuses is in the value.
LEMMA ClosureKeeps ==
  ASSUME WireConstants, WireInv, Wire!Closure PROVE WireInv'
<1> WireTypes /\ Nested /\ Copied
  BY DEF WireInv
<1>1. Wire!Unread /\ Wire!Slot = "closure" /\ Wire!Refuse
  BY DEF Wire!Closure
<1>2. PICK t \in Wire!Reached : \E i : i \in 1..Len(graph[t].slots) /\ graph[t].slots[i] = "closure"
  BY <1>1, SlotIs
<1>3. "closure" \in Wire!ToSet(graph[t].slots)
  <2>1. t \in Nodes
    BY DEF Wire!Reached
  <2>2. DOMAIN graph[t].slots = 1..Len(graph[t].slots)
    BY <2>1, SlotsAre
  <2>3. QED
    BY <1>2, <2>2 DEF Wire!ToSet
<1>4. QED
  BY <1>1, <1>3, WireRefuses DEF Reason

\* A node that has a copy costs nothing and is shared.
LEMMA SeenKeeps ==
  ASSUME WireConstants, WireInv, Wire!Seen PROVE WireInv'
<1> WireTypes /\ Nested /\ Copied /\ Paid
  BY DEF WireInv
<1>1. Wire!Unread /\ Wire!Slot \in DOMAIN memo /\ memo' = Wire!Fills
      /\ UNCHANGED <<graph, stack, charged, outcome>>
  BY DEF Wire!Seen
<1>2. Wire!Slot \in Nodes /\ Wire!Slot # "text" /\ Wire!Slot # "closure"
  BY <1>1 DEF WireTypes, WireConstants
<1>3. Grows({})
  <2>1. Wire!Fills \in [DOMAIN memo -> Seq(Slots)]
    BY <1>1, FillsIs
  <2>2. QED
    BY <1>1, <2>1 DEF Grows
<1>4. Spent' = Spent
  BY <1>1, <1>2, <1>3, SpentFills
<1>5. Paid'
  BY <1>1, <1>4 DEF Paid
<1>6. charged' \in 1..MaxNodes
  BY <1>1 DEF WireTypes
<1>7. QED
  BY <1>1, <1>2, <1>3, <1>5, <1>6, SlotFilled

\* A new node costs one, and it is not open yet.
LEMMA EnterCosts ==
  ASSUME WireConstants, WireInv, Wire!Unread, graph' = graph, NEW x, x = Wire!Slot,
         x \in Nodes \ DOMAIN memo, Grows({x})
  PROVE  Spent' = Spent \cup {<<x, 0>>} /\ <<x, 0>> \notin Spent
<1>1. x # "text" /\ x # "closure"
  BY DEF WireConstants
<1>2. PICK X \in SUBSET Nodes : X = {x}
  OBVIOUS
<1>3. X \subseteq {Wire!Slot} /\ X \cap DOMAIN memo = {} /\ Grows(X)
  BY <1>2
<1>4. (Wire!Slot \in Nodes => Wire!Slot \in DOMAIN memo \cup X) /\ Wire!Slot # "closure"
  BY <1>1, <1>2
<1>5. Pays(X)
  BY <1>3, <1>4, SpentGrows
<1>6. \A n, i : <<n, i>> \in Spent' <=> <<n, i>> \in Spent \/ (n = x /\ i = 0)
  BY <1>1, <1>2, <1>5 DEF Pays
<1>7. \A y \in Spent : \E n, i : y = <<n, i>>
  BY SpentPairs DEF WireInv
<1>8. \A y \in Spent' : \E n, i : y = <<n, i>>
  BY DEF Spent, SpentOn
<1> DEFINE more == Spent \cup {<<x, 0>>}
<1>9. \A y \in more : \E n, i : y = <<n, i>>
  BY <1>7
<1>10. \A n, i : <<n, i>> \in Spent' <=> <<n, i>> \in more
  BY <1>6
<1>11. Spent' = more
  BY <1>8, <1>9, <1>10, SamePairs
<1>12. <<x, 0>> \notin Spent
  BY SpentIs
<1>13. QED
  BY <1>11, <1>12

\* A call that is opened.
LEMMA NodeOpened ==
  ASSUME WireConstants, WireInv, Wire!Unread, graph' = graph, outcome' = outcome,
         NEW x, x = Wire!Slot, x \in Nodes \ DOMAIN memo, ~Wire!Emptied(graph, x), Grows({x}),
         NEW call \in [node : Nodes, depth : Nat], call.node = x, call.depth = Wire!Top.depth + 1,
         stack' = Append(stack, call), charged' \in 1..MaxNodes, Paid'
  PROVE  WireInv'
<1> DEFINE t == Wire!Top.node
           k == Len(stack)
<1> WireTypes /\ Nested /\ Copied /\ Finished /\ Outcomes
  BY DEF WireInv
<1>1. x # "text" /\ x # "closure"
  BY DEF WireConstants
<1>2. {x} \in SUBSET Nodes /\ {x} \subseteq {Wire!Slot} /\ {x} \cap DOMAIN memo = {}
      /\ (Wire!Slot \in Nodes => Wire!Slot \in DOMAIN memo \cup {x}) /\ Wire!Slot # "closure"
  BY <1>1
<1>3. /\ Copied' /\ memo' \in [DOMAIN memo' -> Seq(Slots)]
      /\ DOMAIN memo' = DOMAIN memo \cup {x} /\ DOMAIN memo' \subseteq Nodes
  BY <1>2, MemoGrows
<1>4. \A n \in DOMAIN memo : memo'[n] = Wire!Fills[n]
  BY <1>2, GrowsIs
<1>5. \A n \in DOMAIN memo : n # t => Wire!Fills[n] = memo[n]
  BY FillsIs
<1>6. Wire!Open
  BY DEF Wire!Unread
<1>7. k \in Nat \ {0} /\ stack[k].node = t /\ Wire!Top.depth = k - 1
  BY <1>6, TopIs
<1>8. /\ stack' \in Seq([node : Nodes, depth : Nat]) /\ Len(stack') = k + 1
      /\ \A i \in 1..k : stack'[i] = stack[i]
      /\ stack'[k + 1] = call
  BY AppendProperties DEF WireTypes
<1>9. WireTypes'
  BY <1>3, <1>8 DEF WireTypes
<1>10. \A i \in 1..k : stack[i].node \in DOMAIN memo /\ stack[i].depth = i - 1
  BY DEF Nested
<1>11. \A i, j \in 1..k : stack[i].node = stack[j].node => i = j
  BY DEF Nested
<1>12. call.depth = k
  BY <1>7
<1> HIDE DEF k, t
<1>13. \A i \in 1..(k + 1) : i \in 1..k \/ i = k + 1
  BY <1>7
<1>14. \A i \in 1..(k + 1) : stack'[i].node \in DOMAIN memo' /\ stack'[i].depth = i - 1
  <2>1. \A i \in 1..k : stack'[i].node \in DOMAIN memo' /\ stack'[i].depth = i - 1
    BY <1>3, <1>8, <1>10
  <2>2. stack'[k + 1].node \in DOMAIN memo' /\ stack'[k + 1].depth = (k + 1) - 1
    BY <1>3, <1>7, <1>8, <1>12
  <2>3. QED
    BY <1>13, <2>1, <2>2
<1>15. \A i, j \in 1..(k + 1) : stack'[i].node = stack'[j].node => i = j
  <2>1. \A i \in 1..k : stack'[i].node # x
    BY <1>8, <1>10
  <2>2. \A i, j \in 1..k : stack'[i].node = stack'[j].node => i = j
    BY <1>8, <1>11
  <2>3. stack'[k + 1].node = x
    BY <1>8
  <2>4. QED
    BY <1>13, <2>1, <2>2, <2>3
<1>16. Nested'
  BY <1>8, <1>14, <1>15 DEF Nested
<1>17. Finished'
  <2>1. ASSUME NEW n \in DOMAIN memo'
        PROVE  \/ Len(memo'[n]) = Len(graph[n].slots)
               \/ \E i \in 1..(k + 1) : stack'[i].node = n
    <3>1. CASE n = x
      <4>1. k + 1 \in 1..(k + 1)
        BY <1>7
      <4>2. QED
        BY <1>8, <3>1, <4>1
    <3>2. CASE n = t
      <4>1. k \in 1..k /\ k \in 1..(k + 1)
        BY <1>7
      <4>2. stack'[k].node = n
        BY <1>7, <1>8, <3>2, <4>1
      <4>3. QED
        BY <4>1, <4>2
    <3>3. CASE n # x /\ n # t
      <4>1. n \in DOMAIN memo /\ memo'[n] = memo[n]
        BY <1>3, <1>4, <1>5, <3>3
      <4>2. CASE Len(memo[n]) = Len(graph[n].slots)
        BY <4>1, <4>2
      <4>3. CASE \E i \in 1..k : stack[i].node = n
        <5>1. PICK i \in 1..k : stack[i].node = n
          BY <4>3
        <5>2. i \in 1..(k + 1) /\ stack'[i].node = n
          BY <1>7, <1>8, <5>1
        <5>3. QED
          BY <5>2
      <4>4. QED
        BY <4>1, <4>2, <4>3 DEF Finished, k
    <3>4. QED
      BY <3>1, <3>2, <3>3
  <2>2. QED
    BY <1>8, <2>1 DEF Finished
<1>18. Outcomes'
  <2>1. Root \in DOMAIN memo'
    BY <1>3 DEF Outcomes
  <2>2. outcome' = "walking" /\ outcome = "walking"
    BY <1>6 DEF Wire!Open
  <2>3. \A n \in DOMAIN memo' : ~Wire!Emptied(graph, n)'
    BY <1>3, <2>2, GraphStays DEF Outcomes
  <2>4. stack' # <<>>
    BY AppendProperties DEF WireTypes
  <2>5. QED
    BY <2>1, <2>2, <2>3, <2>4 DEF Outcomes
<1>19. Wire!RefusedForAReason'
  BY GraphStays DEF WireInv, Wire!RefusedForAReason, Reason
<1>20. QED
  BY <1>3, <1>9, <1>16, <1>17, <1>18, <1>19 DEF WireInv

\* A new node is charged for and opened, or it is too deep, empty or one too many.
LEMMA EnterKeeps ==
  ASSUME WireConstants, WireInv, Wire!Enter PROVE WireInv'
<1> DEFINE x == Wire!Slot
           call == [node |-> x, depth |-> Wire!Top.depth + 1]
<1> WireTypes /\ Nested /\ Copied /\ Finished /\ Outcomes /\ Paid
  BY DEF WireInv
<1>1. Wire!Unread /\ x \in Nodes \ DOMAIN memo
  BY DEF Wire!Enter
<1>2. x \in Wire!Reached /\ <<x, 0>> \in Charges
  <2>1. x \in Wire!Reached
    BY <1>1, SlotIs
  <2>2. QED
    BY <2>1, ChargeIs
<1>3. <<x, 0>> \notin Spent
  BY <1>1, SpentIs
<1>4. charged \in 1..MaxNodes /\ MaxNodes \in Nat
  BY DEF WireTypes, WireConstants
<1>5. Len(stack) \in Nat \ {0} /\ Wire!Top.depth = Len(stack) - 1
  BY <1>1, TopIs DEF Wire!Unread
<1>6. CASE Wire!TooDeep
  <2>1. Wire!Refuse
    BY <1>6 DEF Wire!Enter
  <2>2. Wire!Cardinality(Wire!Reached) > Len(stack)
    BY <1>1, <1>2, DepthIsNodes
  <2>3. Len(stack) >= MaxDepth /\ MaxDepth \in Nat
    BY <1>5, <1>6 DEF Wire!TooDeep, WireConstants
  <2>4. Wire!Cardinality(Wire!Reached) \in Nat
    BY ReachedFinite, FS_CardinalityType, WireCounts
  <2>5. Wire!Cardinality(Wire!Reached) > MaxDepth
    BY <1>5, <2>2, <2>3, <2>4
  <2>6. QED
    BY <2>1, <2>5, WireRefuses DEF Reason
<1>7. CASE Wire!Emptied(graph, x)
  <2>1. Wire!Refuse
    BY <1>7 DEF Wire!Enter
  <2>2. QED
    BY <1>2, <1>7, <2>1, WireRefuses DEF Reason
<1>8. CASE ~Wire!TooDeep /\ ~Wire!Emptied(graph, x)
  <2>1. Wire!Charged
    BY <1>8 DEF Wire!Enter
  <2>2. CASE charged >= MaxNodes
    <3>1. Wire!Refuse
      BY <2>1, <2>2 DEF Wire!Charged
    <3>2. Wire!Size > MaxNodes
      BY <1>2, <1>3, <2>2, OneTooMany
    <3>3. QED
      BY <3>1, <3>2, WireRefuses DEF Reason
  <2>3. CASE ~(charged >= MaxNodes)
    <3>1. charged < MaxNodes
      BY <1>4, <2>3
    <3>2. charged' = charged + 1 /\ graph' = graph /\ outcome' = outcome
      BY <2>1, <2>3 DEF Wire!Charged
    <3>3. memo' = [n \in DOMAIN memo \cup {x} |-> IF n = x THEN <<>> ELSE Wire!Fills[n]]
          /\ stack' = Append(stack, call)
      BY <1>8, <3>1 DEF Wire!Enter
    <3>4. Grows({x})
      BY <3>3 DEF Grows
    <3>5. charged' \in 1..MaxNodes
      BY <1>4, <3>1, <3>2
    <3>6. Spent' = Spent \cup {<<x, 0>>}
      BY <1>1, <3>2, <3>4, EnterCosts
    <3>7. Paid'
      <4>1. IsFiniteSet(Spent) /\ charged = Cardinality(Spent)
        BY DEF Paid
      <4>2. IsFiniteSet(Spent \cup {<<x, 0>>})
            /\ Cardinality(Spent \cup {<<x, 0>>}) = Cardinality(Spent) + 1
        BY <1>3, <4>1, FS_AddElement
      <4>3. QED
        BY <3>2, <3>6, <4>1, <4>2 DEF Paid
    <3>8. call \in [node : Nodes, depth : Nat] /\ call.node = x /\ call.depth = Wire!Top.depth + 1
      BY <1>1, <1>5
    <3>9. QED
      BY <1>1, <1>8, <3>2, <3>3, <3>4, <3>5, <3>7, <3>8, NodeOpened
  <2>4. QED
    BY <2>2, <2>3
<1>9. QED
  BY <1>6, <1>7, <1>8

\* All but the last of some things.
LEMMA FrontIs ==
  ASSUME NEW S, NEW s \in Seq(S), Len(s) # 0
  PROVE  /\ Wire!Front(s) \in Seq(S) /\ Len(Wire!Front(s)) = Len(s) - 1
         /\ \A i \in 1..(Len(s) - 1) : Wire!Front(s)[i] = s[i]
<1>1. PICK k : k = Len(s)
  OBVIOUS
<1>2. k \in Nat \ {0}
  BY <1>1
<1>3. \A i \in 1..(k - 1) : s[i] \in S
  <2>1. \A i \in 1..(k - 1) : i \in 1..k
    BY <1>2
  <2>2. QED
    BY <1>1, <2>1, ElementOfSeq
<1>4. PICK m : m = k - 1
  OBVIOUS
<1>5. m \in Nat
  BY <1>2, <1>4
<1>6. /\ SubSeq(s, 1, m) \in Seq(S)
      /\ Len(SubSeq(s, 1, m)) = IF 1 <= m THEN m - 1 + 1 ELSE 0
      /\ \A i \in 1..m - 1 + 1 : SubSeq(s, 1, m)[i] = s[1 + i - 1]
  <2>1. \A i \in 1..m : s[i] \in S
    BY <1>3, <1>4
  <2>2. 1 \in Int /\ m \in Int
    BY <1>5
  <2>3. QED
    BY <2>1, <2>2, SubSeqProperties
<1>7. Len(SubSeq(s, 1, m)) = m
  BY <1>5, <1>6
<1>8. \A i \in 1..m : SubSeq(s, 1, m)[i] = s[i]
  <2>1. ASSUME NEW i \in 1..m PROVE SubSeq(s, 1, m)[i] = s[i]
    <3>1. i \in 1..m - 1 + 1 /\ 1 + i - 1 = i
      BY <1>5
    <3>2. QED
      BY <1>6, <3>1
  <2>2. QED
    BY <2>1
<1>9. Wire!Front(s) = SubSeq(s, 1, m)
  BY <1>1, <1>4 DEF Wire!Front
<1>10. QED
  BY <1>1, <1>4, <1>6, <1>7, <1>8, <1>9

\* The call on top closes when its copy is whole.
LEMMA LeaveKeeps ==
  ASSUME WireConstants, WireInv, Wire!Leave PROVE WireInv'
<1> DEFINE t == Wire!Top.node
           k == Len(stack)
<1> WireTypes /\ Nested /\ Copied /\ Finished /\ Outcomes /\ Paid
  BY DEF WireInv
<1>1. /\ Wire!Open /\ ~Wire!Unread /\ UNCHANGED <<graph, memo, charged>>
      /\ stack' = Wire!Front(stack)
      /\ outcome' = IF Len(stack) = 1 THEN "sent" ELSE "walking"
  BY DEF Wire!Leave
<1>2. /\ k \in Nat \ {0} /\ Wire!Top = stack[k] /\ t \in DOMAIN memo /\ t \in Nodes /\ outcome = "walking"
  BY <1>1, TopIs DEF Wire!Open
<1>3. Len(memo[t]) = Len(graph[t].slots)
  <2>1. Len(memo[t]) \in Nat /\ Len(graph[t].slots) \in Nat /\ Len(memo[t]) <= Len(graph[t].slots)
    BY <1>2, CopiesAre, SlotsAre DEF Copied
  <2>2. ~(Len(memo[t]) < Len(graph[t].slots))
    BY <1>1 DEF Wire!Unread
  <2>3. QED
    BY <2>1, <2>2
<1>4. /\ stack' \in Seq([node : Nodes, depth : Nat]) /\ Len(stack') = k - 1
      /\ \A i \in 1..(k - 1) : stack'[i] = stack[i]
  <2>1. stack \in Seq([node : Nodes, depth : Nat])
    BY DEF WireTypes
  <2>2. QED
    BY <1>1, <1>2, <2>1, FrontIs
<1>5. outcome' \in {"walking", "sent", "refused"}
  BY <1>1
<1>6. WireTypes'
  BY <1>1, <1>4, <1>5 DEF WireTypes
<1>7. Copied'
  BY <1>1, GraphStays DEF Copied
<1>8. Nested'
  <2>1. \A i \in 1..(k - 1) : i \in 1..k
    BY <1>2
  <2>2. QED
    BY <1>1, <1>4, <2>1 DEF Nested
<1>9. Finished'
  <2>1. ASSUME NEW n \in DOMAIN memo
        PROVE  \/ Len(memo[n]) = Len(graph[n].slots)
               \/ \E i \in 1..(k - 1) : stack'[i].node = n
    <3>1. CASE Len(memo[n]) = Len(graph[n].slots)
      BY <3>1
    <3>2. CASE Len(memo[n]) # Len(graph[n].slots)
      <4>1. PICK i \in 1..k : stack[i].node = n
        BY <3>2 DEF Finished
      <4>2. i # k
        BY <1>2, <1>3, <3>2, <4>1
      <4>3. i \in 1..(k - 1)
        BY <1>2, <4>1, <4>2
      <4>4. QED
        BY <1>4, <4>1, <4>3
    <3>3. QED
      BY <3>1, <3>2
  <2>2. QED
    BY <1>1, <1>4, <2>1 DEF Finished
<1>10. Paid'
  BY <1>1 DEF Paid, Spent, SpentOn
<1>11. Outcomes'
  <2>1. Root \in DOMAIN memo' /\ \A n \in DOMAIN memo' : ~Wire!Emptied(graph, n)'
    BY <1>1, <1>2, GraphStays DEF Outcomes
  <2>2. k = 1 => stack' = <<>>
    BY <1>4, EmptySeq
  <2>3. k # 1 => stack' # <<>>
    BY <1>2, <1>4, EmptySeq
  <2>4. QED
    BY <1>1, <2>1, <2>2, <2>3 DEF Outcomes
<1>12. Wire!RefusedForAReason'
  BY <1>1, GraphStays DEF Wire!RefusedForAReason
<1>13. QED
  BY <1>6, <1>7, <1>8, <1>9, <1>10, <1>11, <1>12 DEF WireInv

\* Nothing moves, nothing changes.
LEMMA WireStutters ==
  ASSUME WireInv, UNCHANGED Wire!wireVars PROVE WireInv'
<1>1. UNCHANGED <<graph, memo, stack, charged, outcome>>
  BY DEF Wire!wireVars
<1>2. Wire!Reached' = Wire!Reached /\ Reason' = Reason
      /\ \A n : Wire!Emptied(graph, n)' = Wire!Emptied(graph, n)
  BY <1>1, GraphStays
<1>3. WireTypes'
  BY <1>1 DEF WireInv, WireTypes
<1>4. Copied' /\ Nested' /\ Finished'
  BY <1>1, <1>2 DEF WireInv, Copied, Nested, Finished
<1>5. Paid'
  BY <1>1 DEF WireInv, Paid, Spent, SpentOn
<1>6. Outcomes'
  BY <1>1, <1>2 DEF WireInv, Outcomes
<1>7. Wire!RefusedForAReason'
  BY <1>1, <1>2 DEF WireInv, Wire!RefusedForAReason, Reason
<1>8. QED
  BY <1>3, <1>4, <1>5, <1>6, <1>7 DEF WireInv

\* How the memo, the open calls and the charges go together at each step of copy
\* (kernel/wire.ts): the inductive invariant behind the next two.
THEOREM WireInvHolds ==
  ASSUME WireConstants PROVE Wire!Spec => []WireInv
<1>1. Wire!Init => WireInv
  BY WireStart
<1>2. WireInv /\ [Wire!Next]_(Wire!wireVars) => WireInv'
  BY PrimitiveKeeps, ClosureKeeps, SeenKeeps, EnterKeeps, LeaveKeeps, WireStutters DEF Wire!Next
<1>3. QED
  BY <1>1, <1>2, PTL DEF Wire!Spec

\* A walk that has ended has been everywhere.
LEMMA WholeWhenSent ==
  ASSUME WireConstants, WireInv PROVE Wire!ArrivesWhole
<1> SUFFICES ASSUME outcome = "sent"
             PROVE  /\ DOMAIN memo = Wire!Reached
                    /\ \A n \in Wire!Reached : memo[n] = graph[n].slots /\ ~Wire!Emptied(graph, n)
  BY DEF Wire!ArrivesWhole
<1> WireTypes /\ Copied /\ Finished /\ Outcomes
  BY DEF WireInv
<1>1. Len(stack) = 0
  BY DEF Outcomes
<1>2. \A n \in DOMAIN memo : Len(memo[n]) = Len(graph[n].slots)
  BY <1>1 DEF Finished
<1>3. Wire!Closed(DOMAIN memo)
  <2>1. ASSUME NEW n \in DOMAIN memo, NEW x \in Wire!ToSet(graph[n].slots) \cap Nodes
        PROVE  x \in DOMAIN memo
    <3>1. n \in Nodes /\ DOMAIN graph[n].slots = 1..Len(graph[n].slots)
      BY SlotsAre DEF WireTypes
    <3>2. PICK i \in 1..Len(graph[n].slots) : graph[n].slots[i] = x
      BY <3>1 DEF Wire!ToSet
    <3>3. i \in 1..Len(memo[n])
      BY <1>2, <3>2
    <3>4. QED
      BY <3>2, <3>3 DEF Copied
  <2>2. QED
    BY <2>1 DEF Wire!Closed
<1>4. DOMAIN memo = Wire!Reached
  <2>1. DOMAIN memo \in SUBSET Nodes /\ Root \in DOMAIN memo
    BY DEF WireTypes, Outcomes
  <2>2. Wire!Reached \subseteq DOMAIN memo
    BY <1>3, <2>1 DEF Wire!Reached
  <2>3. QED
    BY <2>2 DEF Copied
<1>5. ASSUME NEW n \in DOMAIN memo PROVE memo[n] = graph[n].slots
  <2>1. memo[n] \in Seq(Slots) /\ graph[n].slots \in Seq(Slots)
    BY CopiesAre, SlotsAre
  <2>2. \A i \in 1..Len(memo[n]) : memo[n][i] = graph[n].slots[i]
    BY DEF Copied
  <2>3. QED
    BY <1>2, <2>1, <2>2, SeqEqual
<1>6. \A n \in DOMAIN memo : ~Wire!Emptied(graph, n)
  BY DEF Outcomes
<1>7. QED
  BY <1>4, <1>5, <1>6

\* What arrives is the whole graph, shared and cyclic as it was; what is refused
\* holds a closure or an emptied PSObject, or is too large or may be too deep. For
\* any graphs of finitely many nodes and any limits.
THEOREM WireSoundHolds ==
  ASSUME WireConstants PROVE Wire!Spec => []Wire!WireSound
<1>1. WireInv => Wire!WireSound
  BY WholeWhenSent DEF Wire!WireSound, WireInv
<1>2. QED
  BY <1>1, WireInvHolds, PTL

\* The types of the walk follow.
LEMMA WireTyped ==
  ASSUME WireConstants, WireInv PROVE Wire!TypeOK
<1>1. \A i \in DOMAIN stack : stack[i].node \in DOMAIN memo
  BY CallsAre DEF WireInv, Nested
<1>2. DOMAIN memo \subseteq Nodes /\ charged \in 0..(MaxNodes + 1)
      /\ outcome \in {"walking", "sent", "refused"}
  BY DEF WireInv, WireTypes, WireConstants
<1>3. QED
  BY <1>1, <1>2 DEF Wire!TypeOK

\* The memo is of nodes, the open calls are in it and no more is charged than allowed.
THEOREM WireTypesHold ==
  ASSUME WireConstants PROVE Wire!Spec => []Wire!TypeOK
<1>1. WireInv => Wire!TypeOK
  BY WireTyped
<1>2. QED
  BY <1>1, WireInvHolds, PTL
=============================================================================
