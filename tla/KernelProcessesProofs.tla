------------------------ MODULE KernelProcessesProofs ------------------------
(***************************************************************************)
(* Proofs about KernelProcesses, for every set of requests and terminals,  *)
(* every length of a pipeline and every number of signals.                 *)
(*                                                                         *)
(* The state says little about what the kernel will still do: that is in   *)
(* `todo`.  The invariant therefore reads `todo` in three ways.  StepsOK   *)
(* says, of every step that waits, what the state looks like while it      *)
(* does.  Order says, of two steps of one request, which may wait behind   *)
(* which.  The others say what the kernel still owes: that a step waits    *)
(* wherever the state is not yet what it will be.                          *)
(***************************************************************************)
EXTENDS KernelProcesses, SequenceTheorems, TLAPS

Dos == {"create", "job", "prepare", "run", "start", "raise", "finish", "report",
        "status", "jobend", "end"}
StepSet == [do : Dos, p : Procs, with : Results \cup {"none"}]

Elems(s) == {s[i] : i \in DOMAIN s}

Lead(r)    == Stage(r, 1)
Known(r)   == req[r].kind \in {"ok", "unknown"}
Member(p)  == p[2] <= req[p[1]].n
Owed(d, p) == \E s \in Elems(todo) : s.do = d /\ s.p = p

\* Nothing has happened to the processes of r but their creation.
Untouched(r) ==
  /\ drive[r] = "none"
  /\ \A p \in Procs : p[1] = r =>
       /\ p \notin registered /\ p \notin finished /\ p \notin invoked
       /\ delivered[p] = "none" /\ code[p] = "none"

\* Every stage of r can be signalled, or has exited.
Ready(r) ==
  /\ req[r].kind = "ok"
  /\ \A p \in Procs : p[1] = r /\ Member(p) => p \in registered \/ p \in finished

\* What is true while a step waits.
StepOK(s) ==
  LET r == s.p[1] IN
  /\ s.do \in {"job", "prepare", "start", "status", "jobend", "end"} => s.p = Lead(r)
  /\ s.do = "create"  => Known(r) /\ Member(s.p) /\ Untouched(r) /\ state[s.p] = "none"
  /\ s.do = "job"     => Known(r) /\ req[r].bg /\ Untouched(r) /\ job[r] = "none"
  /\ s.do = "prepare" => req[r].kind = "ok" /\ Untouched(r)
  /\ s.do = "run"     => Known(r) /\ Member(s.p)
  /\ s.do = "start"   => Ready(r) /\ drive[r] = "none"
  /\ s.do = "raise"   => s.with \in Signals
  /\ s.do = "finish"  => /\ Member(s.p) /\ s.with \in Results
                         /\ \/ req[r].kind = "unknown"
                            \/ Ready(r) /\ (s.with = "SIGKILL" \/ drive[r] = "ended")
  /\ s.do = "report"  => s.p \in finished /\ exits[s.p] = 0 /\ code[s.p] = s.with
  /\ s.do = "status"  => Known(r) /\ ~req[r].bg /\ (req[r].kind = "ok" => drive[r] = "ended")
  /\ s.do = "jobend"  => req[r].kind = "unknown" /\ req[r].bg
  /\ s.do = "end"     => req[r].kind = "ok" /\ drive[r] = "ended"

\* Step b of a request may wait behind its step a; q is `req`.
MayPrecede(a, b, q) ==
  a.p[1] = b.p[1] =>
    /\ b.do = "create"  => a.do = "raise" \/ (a.do = "create" /\ a.p # b.p)
    /\ b.do = "job"     => a.do \in {"raise", "create"}
    /\ b.do = "prepare" => a.do \in {"raise", "create", "job"}
    /\ b.do = "start"   => a.do # "start"
    /\ b.do = "report"  => a.do # "end" /\ (a.do = "report" => a.p # b.p)
    /\ b.do = "finish"  => a.do # "end"
    /\ b.do = "status" /\ q[a.p[1]].kind = "ok" /\ a.do = "finish" => a.with = "SIGKILL"

InOrder(s, q) == \A i, j \in DOMAIN s : i < j => MayPrecede(s[i], s[j], q)

\* One process.
ProcOK(p) ==
  LET r == p[1] IN
  /\ state[p] = "exited" <=> p \in finished
  /\ exits[p] <= 1
  /\ p \notin finished => exits[p] = 0 /\ code[p] = "none"
  /\ p \in finished => Known(r) /\ Member(p) /\ (exits[p] = 1 \/ Owed("report", p))
  /\ p \in registered => Ready(r) /\ Member(p)
  /\ p \in registered /\ p \in finished => Owed("report", p)
  /\ p \in invoked => req[r].kind = "ok" /\ drive[r] # "none"
  /\ delivered[p] = "SIGKILL" => p \in finished \/ Owed("finish", p)

\* One process, when its request has ended, and its terminal's status.
ExitOK(p) ==
  LET r == p[1] IN
  Member(p) =>
    /\ req[r].kind = "unknown" \/ drive[r] = "ended" => p \in finished \/ Owed("finish", p)
    /\ (req[r].kind = "ok" /\ ~req[r].bg /\ p \in finished /\ code[p] # "SIGKILL") =>
         r \in committed

\* One request, from its exec to the end of its pipeline.
EntryOK(r) ==
  /\ req[r].kind # "ok" => req[r].n = 1 /\ drive[r] = "none"
  /\ req[r].kind \in {"none", "refused"} =>
       Untouched(r) /\ job[r] = "none" /\ \A p \in Procs : p[1] = r => state[p] = "none"
  /\ req[r].kind = "ok" => Owed("prepare", Lead(r)) \/ Ready(r)
  /\ (req[r].kind = "ok" /\ ~req[r].bg /\ drive[r] = "ended") =>
       r \in committed \/ Owed("status", Lead(r))

\* The job of a background request.
JobOK(r) ==
  Known(r) /\ req[r].bg =>
    /\ job[r] = "none" => Owed("job", Lead(r))
    /\ job[r] \in {"none", "Running"} /\ req[r].kind = "unknown" => Owed("jobend", Lead(r))
    /\ job[r] = "Running" /\ drive[r] = "ended" => Owed("end", Lead(r))
    /\ job[r] = "Running" =>
         \A p \in Procs : p[1] = r /\ code[p] \in Signals => Owed("report", p)
    /\ job[r] \notin {"none", "Running"} =>
         \/ req[r].kind = "unknown" \/ drive[r] = "ended"
         \/ \E p \in Procs : p[1] = r /\ code[p] \in Signals

\* A request cancelled early.
EarlyOK(r) ==
  r \in early =>
    /\ \A p \in Procs : p[1] = r => p \notin invoked
    /\ \/ req[r].kind = "unknown" \/ drive[r] = "ended"
       \/ Untouched(r) /\ r \in cancelled

\* The foreground of a terminal.
TermOK(t) ==
  latest[t] # None =>
    /\ Ready(latest[t])
    /\ fg[t] = latest[t] \/ \A p \in Procs : p[1] = latest[t] => p \notin registered

Todo    == todo \in Seq(StepSet)
StepsOK == \A s \in Elems(todo) : StepOK(s)
Order   == InOrder(todo, req)
ProcsOK == \A p \in Procs : ProcOK(p)
ExitsOK == \A p \in Procs : ExitOK(p)
EntriesOK == \A r \in Requests : EntryOK(r)
JobsOK  == \A r \in Requests : JobOK(r)
EarlyRequestsOK == \A r \in Requests : EarlyOK(r)
TermsOK == \A t \in Terminals : TermOK(t)

IInv ==
  /\ TypeOK /\ Todo /\ StepsOK /\ Order /\ ProcsOK /\ ExitsOK /\ EntriesOK /\ JobsOK
  /\ EarlyRequestsOK /\ TermsOK

-----------------------------------------------------------------------------
(* Sequences of steps.                                                     *)

(* Joining two sequences joins their elements. *)
LEMMA ElemsJoin ==
  ASSUME NEW S, NEW s \in Seq(S), NEW t \in Seq(S)
  PROVE  s \o t \in Seq(S) /\ Elems(s \o t) = Elems(s) \cup Elems(t)
<1>1. /\ s \o t \in Seq(S) /\ Len(s \o t) = Len(s) + Len(t)
      /\ Len(s) \in Nat /\ Len(t) \in Nat
      /\ \A i \in 1 .. Len(s) + Len(t) :
           (s \o t)[i] = IF i <= Len(s) THEN s[i] ELSE t[i - Len(s)]
  OBVIOUS
<1>2. ASSUME NEW x \in Elems(s \o t) PROVE x \in Elems(s) \cup Elems(t)
  <2>1. PICK i \in 1 .. Len(s) + Len(t) : x = (s \o t)[i]
    BY <1>1, <1>2 DEF Elems
  <2>2. CASE i <= Len(s)
    BY <1>1, <2>1, <2>2 DEF Elems
  <2>3. CASE ~(i <= Len(s))
    <3>1. i - Len(s) \in 1 .. Len(t) /\ x = t[i - Len(s)]
      BY <1>1, <2>1, <2>3
    <3> QED
      BY <3>1 DEF Elems
  <2> QED
    BY <2>2, <2>3
<1>3. ASSUME NEW x \in Elems(s) PROVE x \in Elems(s \o t)
  <2>1. PICK i \in 1 .. Len(s) : x = s[i]
    BY <1>3 DEF Elems
  <2>2. i \in 1 .. Len(s) + Len(t) /\ x = (s \o t)[i]
    BY <1>1, <2>1
  <2> QED
    BY <1>1, <2>2 DEF Elems
<1>4. ASSUME NEW x \in Elems(t) PROVE x \in Elems(s \o t)
  <2>1. PICK i \in 1 .. Len(t) : x = t[i]
    BY <1>4 DEF Elems
  <2>2. i + Len(s) \in 1 .. Len(s) + Len(t) /\ x = (s \o t)[i + Len(s)]
    BY <1>1, <2>1
  <2> QED
    BY <1>1, <2>2 DEF Elems
<1> QED
  BY <1>1, <1>2, <1>3, <1>4

(* Joining keeps the order when every step of the first may precede every *)
(* step of the second.                                                    *)
LEMMA InOrderJoin ==
  ASSUME NEW S, NEW s \in Seq(S), NEW t \in Seq(S), NEW q,
         InOrder(s, q), InOrder(t, q),
         \A a \in Elems(s), b \in Elems(t) : MayPrecede(a, b, q)
  PROVE  InOrder(s \o t, q)
<1>1. /\ Len(s \o t) = Len(s) + Len(t)
      /\ Len(s) \in Nat /\ Len(t) \in Nat /\ DOMAIN (s \o t) = 1 .. Len(s) + Len(t)
      /\ DOMAIN s = 1 .. Len(s) /\ DOMAIN t = 1 .. Len(t)
      /\ \A i \in 1 .. Len(s) + Len(t) :
           (s \o t)[i] = IF i <= Len(s) THEN s[i] ELSE t[i - Len(s)]
  OBVIOUS
<1>2. SUFFICES ASSUME NEW i \in 1 .. Len(s) + Len(t), NEW j \in 1 .. Len(s) + Len(t), i < j
               PROVE  MayPrecede((s \o t)[i], (s \o t)[j], q)
  BY <1>1 DEF InOrder
<1>3. CASE j <= Len(s)
  <2>1. i \in DOMAIN s /\ j \in DOMAIN s /\ (s \o t)[i] = s[i] /\ (s \o t)[j] = s[j]
    BY <1>1, <1>2, <1>3
  <2> QED
    BY <1>2, <2>1 DEF InOrder
<1>4. CASE i <= Len(s) /\ ~(j <= Len(s))
  <2>1. i \in DOMAIN s /\ j - Len(s) \in DOMAIN t
        /\ (s \o t)[i] = s[i] /\ (s \o t)[j] = t[j - Len(s)]
    BY <1>1, <1>2, <1>4
  <2>2. s[i] \in Elems(s) /\ t[j - Len(s)] \in Elems(t)
    BY <2>1 DEF Elems
  <2> QED
    BY <2>1, <2>2
<1>5. CASE ~(i <= Len(s))
  <2>1. /\ i - Len(s) \in DOMAIN t /\ j - Len(s) \in DOMAIN t /\ i - Len(s) < j - Len(s)
        /\ (s \o t)[i] = t[i - Len(s)] /\ (s \o t)[j] = t[j - Len(s)]
    BY <1>1, <1>2, <1>5
  <2> QED
    BY <2>1 DEF InOrder
<1> QED
  BY <1>2, <1>3, <1>4, <1>5

(* Taking the first step off. *)
LEMMA TakeHead ==
  ASSUME NEW S, NEW s \in Seq(S), s # <<>>, NEW q, InOrder(s, q)
  PROVE  /\ Head(s) \in S /\ Head(s) \in Elems(s) /\ Tail(s) \in Seq(S)
         /\ Elems(s) = {Head(s)} \cup Elems(Tail(s))
         /\ InOrder(Tail(s), q)
         /\ \A b \in Elems(Tail(s)) : MayPrecede(Head(s), b, q)
<1>1. /\ Head(s) \in S /\ Tail(s) \in Seq(S) /\ Len(s) \in Nat /\ Len(s) >= 1
      /\ Head(s) = s[1] /\ Len(Tail(s)) = Len(s) - 1 /\ DOMAIN s = 1 .. Len(s)
      /\ DOMAIN Tail(s) = 1 .. Len(s) - 1
      /\ \A i \in 1 .. Len(s) - 1 : Tail(s)[i] = s[i + 1]
  BY HeadTailProperties
<1>2. Head(s) \in Elems(s)
  BY <1>1 DEF Elems
<1>3. ASSUME NEW x \in Elems(s) PROVE x \in {Head(s)} \cup Elems(Tail(s))
  <2>1. PICK i \in 1 .. Len(s) : x = s[i]
    BY <1>1, <1>3 DEF Elems
  <2>2. CASE i = 1
    BY <1>1, <2>1, <2>2
  <2>3. CASE i # 1
    <3>1. i - 1 \in 1 .. Len(s) - 1 /\ Tail(s)[i - 1] = x
      BY <1>1, <2>1, <2>3
    <3> QED
      BY <1>1, <3>1 DEF Elems
  <2> QED
    BY <2>2, <2>3
<1>4. ASSUME NEW i \in 1 .. Len(s) - 1
      PROVE  i + 1 \in 1 .. Len(s) /\ Tail(s)[i] = s[i + 1] /\ 1 < i + 1
  BY <1>1, <1>4
<1>5. ASSUME NEW x \in Elems(Tail(s)) PROVE x \in Elems(s) /\ MayPrecede(Head(s), x, q)
  <2>1. PICK i \in 1 .. Len(s) - 1 : x = Tail(s)[i]
    BY <1>1, <1>5 DEF Elems
  <2>2. i + 1 \in DOMAIN s /\ x = s[i + 1] /\ 1 < i + 1 /\ 1 \in DOMAIN s
    BY <1>1, <1>4, <2>1
  <2> QED
    BY <1>1, <2>2 DEF Elems, InOrder
<1>6. InOrder(Tail(s), q)
  <2>1. SUFFICES ASSUME NEW i \in 1 .. Len(s) - 1, NEW j \in 1 .. Len(s) - 1, i < j
                 PROVE  MayPrecede(Tail(s)[i], Tail(s)[j], q)
    BY <1>1 DEF InOrder
  <2>2. i + 1 \in DOMAIN s /\ j + 1 \in DOMAIN s /\ i + 1 < j + 1
    BY <1>1, <2>1
  <2> QED
    BY <1>4, <2>2 DEF InOrder
<1> QED
  BY <1>1, <1>2, <1>3, <1>5, <1>6

-----------------------------------------------------------------------------
(* The steps that wait.                                                    *)

Rest == Elems(Tail(todo))

(* A process belongs to one request; the stages of a request are its *)
(* processes up to their number.                                     *)
LEMMA StageFacts ==
  ASSUME TypeOK, NEW r \in Requests
  PROVE  /\ Lead(r) \in Procs /\ Lead(r)[1] = r /\ Lead(r)[2] = 1 /\ Member(Lead(r))
         /\ \A p : p \in Stages(r) <=> p \in Procs /\ p[1] = r /\ Member(p)
         /\ Last(r) \in Procs /\ Last(r)[1] = r /\ Member(Last(r))
<1>1. req[r].n \in 1 .. MaxStages /\ MaxStages \in Nat
  BY KernelConstants DEF TypeOK
<1>2. \A i \in 1 .. MaxStages : Stage(r, i) \in Procs /\ Stage(r, i)[1] = r /\ Stage(r, i)[2] = i
  BY DEF Stage, Procs
<1>3. ASSUME NEW p \in Stages(r) PROVE p \in Procs /\ p[1] = r /\ Member(p)
  <2>1. PICK i \in 1 .. req[r].n : p = Stage(r, i)
    BY <1>3 DEF Stages
  <2> QED
    BY <1>1, <1>2, <2>1 DEF Member
<1>4. ASSUME NEW p \in Procs, p[1] = r, Member(p) PROVE p \in Stages(r)
  <2>1. p = Stage(r, p[2]) /\ p[2] \in 1 .. req[r].n
    BY <1>1, <1>4 DEF Procs, Stage, Member
  <2> QED
    BY <2>1 DEF Stages
<1> QED
  BY <1>1, <1>2, <1>3, <1>4 DEF Lead, Last, Member

(* A process is given by its request and its place. *)
LEMMA ProcFacts ==
  /\ \A p \in Procs : p[1] \in Requests /\ p[2] \in 1 .. MaxStages /\ p = Stage(p[1], p[2])
  /\ \A p, w \in Procs : p[1] = w[1] /\ p[2] = w[2] => p = w
  BY DEF Procs, Stage

(* A waiting step is about a process. *)
LEMMA TodoTypes ==
  ASSUME NEW s \in Seq(StepSet) PROVE \A i \in DOMAIN s : s[i].p \in Procs
<1>1. \A i \in DOMAIN s : s[i] \in StepSet
  OBVIOUS
<1> QED
  BY <1>1 DEF StepSet

(* The head of `todo`, and what waits behind it. *)
AtHead ==
  /\ Next1 \in StepSet /\ StepOK(Next1)
  /\ Tail(todo) \in Seq(StepSet) /\ InOrder(Tail(todo), req)
  /\ Elems(todo) = {Next1} \cup Rest
  /\ \A b \in Rest : b \in StepSet /\ MayPrecede(Next1, b, req) /\ StepOK(b)
  /\ P \in Procs /\ P = Next1.p /\ R = Next1.p[1] /\ P[1] = R /\ R \in Requests

(* The step the kernel takes next is at the head of a queue that is in order. *)
LEMMA HeadStep == ASSUME IInv, todo # <<>> PROVE AtHead
<1>1. /\ Next1 \in StepSet /\ Next1 \in Elems(todo) /\ Tail(todo) \in Seq(StepSet)
      /\ Elems(todo) = {Next1} \cup Rest /\ InOrder(Tail(todo), req)
      /\ \A b \in Rest : MayPrecede(Next1, b, req)
  BY TakeHead DEF IInv, Todo, Order, Next1, Rest
<1>2. \A s \in Elems(todo) : StepOK(s)
  BY DEF IInv, StepsOK
<1>3. \A b \in Rest : b \in StepSet
  BY <1>1 DEF Rest, Elems
<1>4. P \in Procs /\ P[1] = R /\ R \in Requests
  BY <1>1 DEF P, R, StepSet, Procs
<1> QED
  BY <1>1, <1>2, <1>3, <1>4 DEF AtHead, P, R

\* What `todo` is after a step: the steps S wait, in their order.
NowWaiting(S) ==
  /\ Todo' /\ Order' /\ Elems(todo') = S
  /\ \A i \in DOMAIN todo' : todo'[i].p \in Procs

(* A step that is done and leaves nothing to do. *)
LEMMA Popped ==
  ASSUME IInv, todo # <<>>, Then(<<>>), req' = req
  PROVE  /\ AtHead /\ NowWaiting(Rest)
         /\ \A d, p : Owed(d, p) => Owed(d, p)' \/ (d = Next1.do /\ p = P)
<1>1. AtHead
  BY HeadStep
<1>2. todo' = Tail(todo)
  BY <1>1 DEF Then, AtHead
<1>3. NowWaiting(Rest)
  BY <1>1, <1>2, TodoTypes DEF AtHead, NowWaiting, Todo, Order, Rest
<1> QED
  BY <1>1, <1>3 DEF Owed, AtHead, NowWaiting

(* A step that is done and leaves steps to do, which come first. *)
LEMMA Replaced ==
  ASSUME IInv, todo # <<>>, NEW pre \in Seq(StepSet), Then(pre), req' = req,
         InOrder(pre, req), \A a \in Elems(pre), b \in Rest : MayPrecede(a, b, req)
  PROVE  /\ AtHead /\ NowWaiting(Elems(pre) \cup Rest)
         /\ \A d, p : Owed(d, p) => Owed(d, p)' \/ (d = Next1.do /\ p = P)
         /\ \A a \in Elems(pre) : Owed(a.do, a.p)'
<1>1. AtHead
  BY HeadStep
<1>2. todo' = pre \o Tail(todo)
  BY DEF Then
<1>3. todo' \in Seq(StepSet) /\ Elems(todo') = Elems(pre) \cup Rest
  BY <1>1, <1>2, ElemsJoin DEF Rest, AtHead
<1>4. InOrder(todo', req)
  BY <1>1, <1>2, InOrderJoin DEF Rest, AtHead
<1>5. NowWaiting(Elems(pre) \cup Rest)
  BY <1>3, <1>4, TodoTypes DEF NowWaiting, Todo, Order
<1> QED
  BY <1>1, <1>5 DEF Owed, AtHead, NowWaiting

(* What a request asks for comes before what the kernel was doing. *)
LEMMA Asked ==
  ASSUME IInv, NEW pre \in Seq(StepSet), todo' = pre \o todo,
         InOrder(pre, req'), InOrder(todo, req'),
         \A a \in Elems(pre), b \in Elems(todo) : MayPrecede(a, b, req')
  PROVE  /\ NowWaiting(Elems(pre) \cup Elems(todo))
         /\ \A d, p : Owed(d, p) => Owed(d, p)'
         /\ \A a \in Elems(pre) : Owed(a.do, a.p)'
<1>1. todo \in Seq(StepSet)
  BY DEF IInv, Todo
<1>2. todo' \in Seq(StepSet) /\ Elems(todo') = Elems(pre) \cup Elems(todo)
  BY <1>1, ElemsJoin
<1>3. InOrder(todo', req')
  BY <1>1, InOrderJoin
<1>4. NowWaiting(Elems(pre) \cup Elems(todo))
  BY <1>2, <1>3, TodoTypes DEF NowWaiting, Todo, Order
<1> QED
  BY <1>4 DEF Owed, NowWaiting

(* One step, and one step for each stage. *)
LEMMA OneStep ==
  ASSUME NEW S, NEW x \in S, NEW q
  PROVE  <<x>> \in Seq(S) /\ Elems(<<x>>) = {x} /\ InOrder(<<x>>, q)
BY DEF Elems, InOrder

(* A stage for which nothing is to be done. *)
LEMMA NoStep ==
  ASSUME NEW S, NEW q
  PROVE  <<>> \in Seq(S) /\ Elems(<<>>) = {} /\ InOrder(<<>>, q)
BY DEF Elems, InOrder

-----------------------------------------------------------------------------
(* One step of the kernel at a time.                                       *)

(* A process is created: nothing has touched its request yet. *)
LEMMA CreateStep == ASSUME IInv, Create PROVE IInv'
<1>1. todo # <<>> /\ Next1.do = "create" /\ Then(<<>>) /\ req' = req
  BY DEF Create, Doing
<1>2. /\ AtHead /\ NowWaiting(Rest)
      /\ \A d, p : Owed(d, p) => Owed(d, p)' \/ (d = Next1.do /\ p = P)
  BY <1>1, Popped
<1>3. \A r \in Requests : /\ Lead(r) \in Procs /\ Lead(r)[1] = r /\ Member(Lead(r))
                          /\ Last(r) \in Procs /\ Last(r)[1] = r
  BY StageFacts DEF IInv
<1>4. TypeOK'
  BY <1>2 DEF Create, IInv, TypeOK, AtHead, NowWaiting, shell, runs, ghosts
<1>5. StepsOK'
  BY <1>1, <1>2, <1>3 DEF Create, StepsOK, StepOK, AtHead, NowWaiting, Known, Member,
     Untouched, Ready, MayPrecede, shell, runs, ghosts
<1>6. ProcsOK'
  BY <1>1, <1>2 DEF Create, IInv, ProcsOK, ProcOK, StepOK, Known, Member, Ready, AtHead,
     runs, ghosts
<1>7. ExitsOK'
  BY <1>1, <1>2 DEF Create, IInv, ExitsOK, ExitOK, Member, shell, runs
<1>8. EntriesOK'
  BY <1>1, <1>2 DEF Create, IInv, EntriesOK, EntryOK, StepOK, Known, Untouched, Member,
     Ready, AtHead, shell, runs
<1>9. JobsOK'
  BY <1>1, <1>2 DEF Create, IInv, JobsOK, JobOK, Known, shell, runs
<1>10. EarlyRequestsOK'
  BY DEF Create, IInv, EarlyRequestsOK, EarlyOK, Untouched, shell, runs, ghosts
<1>11. TermsOK'
  BY DEF Create, IInv, TermsOK, TermOK, Ready, Member, shell
<1> QED
  BY <1>2, <1>4, <1>5, <1>6, <1>7, <1>8, <1>9, <1>10, <1>11 DEF IInv, NowWaiting

(* A job starts Running, before anything can stop its stages. *)
LEMMA StartJobStep == ASSUME IInv, StartJob PROVE IInv'
<1>1. todo # <<>> /\ Next1.do = "job" /\ Then(<<>>) /\ req' = req
  BY DEF StartJob, Doing
<1>2. /\ AtHead /\ NowWaiting(Rest)
      /\ \A d, p : Owed(d, p) => Owed(d, p)' \/ (d = Next1.do /\ p = P)
  BY <1>1, Popped
<1>3. \A r \in Requests : /\ Lead(r) \in Procs /\ Lead(r)[1] = r /\ Member(Lead(r))
                          /\ Last(r) \in Procs /\ Last(r)[1] = r
  BY StageFacts DEF IInv
<1>4. TypeOK'
  BY <1>2 DEF StartJob, IInv, TypeOK, AtHead, NowWaiting, tables, runs, ghosts
<1>5. StepsOK'
  BY <1>1, <1>2, <1>3 DEF StartJob, StepsOK, StepOK, AtHead, NowWaiting, Known, Member,
     Untouched, Ready, MayPrecede, tables, runs, ghosts
<1>6. ProcsOK'
  BY <1>1, <1>2 DEF StartJob, IInv, ProcsOK, ProcOK, Known, Member, Ready, tables, runs,
     ghosts
<1>7. ExitsOK'
  BY <1>1, <1>2 DEF StartJob, IInv, ExitsOK, ExitOK, Member, tables, runs
<1>8. EntriesOK'
  BY <1>1, <1>2, <1>3 DEF StartJob, IInv, EntriesOK, EntryOK, StepOK, Known, Untouched,
     Member, Ready, AtHead, tables, runs
<1>9. JobsOK'
  BY <1>1, <1>2, <1>3 DEF StartJob, IInv, JobsOK, JobOK, StepOK, Known, Untouched,
     Signals, AtHead, TypeOK, tables, runs
<1>10. EarlyRequestsOK'
  BY DEF StartJob, IInv, EarlyRequestsOK, EarlyOK, Untouched, tables, runs, ghosts
<1>11. TermsOK'
  BY DEF StartJob, IInv, TermsOK, TermOK, Ready, Member, tables
<1> QED
  BY <1>2, <1>4, <1>5, <1>6, <1>7, <1>8, <1>9, <1>10, <1>11 DEF IInv, NowWaiting

(* A process runs, unless it has exited. *)
LEMMA RunStep == ASSUME IInv, Run PROVE IInv'
<1>1. todo # <<>> /\ Next1.do = "run" /\ Then(<<>>) /\ req' = req
  BY DEF Run, Doing
<1>2. /\ AtHead /\ NowWaiting(Rest)
      /\ \A d, p : Owed(d, p) => Owed(d, p)' \/ (d = Next1.do /\ p = P)
  BY <1>1, Popped
<1>3. \A r \in Requests : /\ Lead(r) \in Procs /\ Lead(r)[1] = r /\ Member(Lead(r))
                          /\ Last(r) \in Procs /\ Last(r)[1] = r
  BY StageFacts DEF IInv
<1>4. TypeOK'
  BY <1>2 DEF Run, IInv, TypeOK, AtHead, NowWaiting, shell, runs, ghosts
<1>5. StepsOK'
  BY <1>1, <1>2, <1>3 DEF Run, StepsOK, StepOK, AtHead, NowWaiting, Known, Member,
     Untouched, Ready, MayPrecede, shell, runs, ghosts
<1>6. ProcsOK'
  BY <1>1, <1>2 DEF Run, IInv, ProcsOK, ProcOK, Known, Member, Ready, runs, ghosts
<1>7. ExitsOK'
  BY <1>1, <1>2 DEF Run, IInv, ExitsOK, ExitOK, Member, shell, runs
<1>8. EntriesOK'
  BY <1>1, <1>2 DEF Run, IInv, EntriesOK, EntryOK, StepOK, Known, Untouched, Member,
     Ready, AtHead, shell, runs
<1>9. JobsOK'
  BY <1>1, <1>2 DEF Run, IInv, JobsOK, JobOK, Known, shell, runs
<1>10. EarlyRequestsOK'
  BY DEF Run, IInv, EarlyRequestsOK, EarlyOK, Untouched, shell, runs, ghosts
<1>11. TermsOK'
  BY DEF Run, IInv, TermsOK, TermOK, Ready, Member, shell
<1> QED
  BY <1>2, <1>4, <1>5, <1>6, <1>7, <1>8, <1>9, <1>10, <1>11 DEF IInv, NowWaiting

(* A pipeline is driven once. *)
LEMMA StartStep == ASSUME IInv, Start PROVE IInv'
<1>1. todo # <<>> /\ Next1.do = "start" /\ Then(<<>>) /\ req' = req
  BY DEF Start, Doing
<1>2. /\ AtHead /\ NowWaiting(Rest)
      /\ \A d, p : Owed(d, p) => Owed(d, p)' \/ (d = Next1.do /\ p = P)
  BY <1>1, Popped
<1>3. \A r \in Requests : /\ Lead(r) \in Procs /\ Lead(r)[1] = r /\ Member(Lead(r))
                          /\ Last(r) \in Procs /\ Last(r)[1] = r
  BY StageFacts DEF IInv
<1>4. TypeOK'
  BY <1>2, <1>3 DEF Start, IInv, TypeOK, AtHead, NowWaiting, tables, shell, ghosts
<1>5. StepsOK'
  BY <1>1, <1>2, <1>3 DEF Start, StepsOK, StepOK, AtHead, NowWaiting, Known, Member,
     Untouched, Ready, MayPrecede, tables, shell, ghosts
<1>6. ProcsOK'
  BY <1>1, <1>2, <1>3 DEF Start, IInv, ProcsOK, ProcOK, StepOK, Known, Member, Ready,
     AtHead, TypeOK, tables, ghosts
<1>7. ExitsOK'
  BY <1>1, <1>2 DEF Start, IInv, ExitsOK, ExitOK, Member, tables, shell
<1>8. EntriesOK'
  BY <1>1, <1>2, <1>3 DEF Start, IInv, EntriesOK, EntryOK, StepOK, Untouched, Member,
     Ready, AtHead, tables, shell
<1>9. JobsOK'
  BY <1>1, <1>2 DEF Start, IInv, JobsOK, JobOK, StepOK, Known, AtHead, tables, shell
<1>10. EarlyRequestsOK'
  BY <1>1, <1>2, <1>3 DEF Start, IInv, EarlyRequestsOK, EarlyOK, StepOK, Untouched, Ready,
     AtHead, tables, shell, ghosts
<1>11. TermsOK'
  BY DEF Start, IInv, TermsOK, TermOK, Ready, Member, tables, shell
<1> QED
  BY <1>2, <1>4, <1>5, <1>6, <1>7, <1>8, <1>9, <1>10, <1>11 DEF IInv, NowWaiting

(* An exit is published once. *)
LEMMA ReportStep == ASSUME IInv, Report PROVE IInv'
<1>1. todo # <<>> /\ Next1.do = "report" /\ Then(<<>>) /\ req' = req
  BY DEF Report, Doing
<1>2. /\ AtHead /\ NowWaiting(Rest)
      /\ \A d, p : Owed(d, p) => Owed(d, p)' \/ (d = Next1.do /\ p = P)
  BY <1>1, Popped
<1>3. \A r \in Requests : /\ Lead(r) \in Procs /\ Lead(r)[1] = r /\ Member(Lead(r))
                          /\ Last(r) \in Procs /\ Last(r)[1] = r
  BY StageFacts DEF IInv
<1>4. TypeOK'
  BY <1>2 DEF Report, IInv, TypeOK, AtHead, NowWaiting, JobEnd, runs
<1>5. StepsOK'
  BY <1>1, <1>2, <1>3 DEF Report, StepsOK, StepOK, AtHead, NowWaiting, Known, Member,
     Untouched, Ready, MayPrecede, JobEnd, runs
<1>6. ProcsOK'
  BY <1>1, <1>2 DEF Report, IInv, ProcsOK, ProcOK, StepOK, Known, Member, Ready, AtHead,
     TypeOK, runs
<1>7. ExitsOK'
  BY <1>1, <1>2 DEF Report, IInv, ExitsOK, ExitOK, Member, runs
<1>8. EntriesOK'
  BY <1>1, <1>2 DEF Report, IInv, EntriesOK, EntryOK, JobEnd, StepOK, Untouched, Member,
     Ready, AtHead, runs
<1>9. JobsOK'
  BY <1>1, <1>2 DEF Report, IInv, JobsOK, JobOK, StepOK, Known, AtHead, TypeOK, JobEnd, runs
<1>10. EarlyRequestsOK'
  BY DEF Report, IInv, EarlyRequestsOK, EarlyOK, Untouched, runs
<1>11. TermsOK'
  BY <1>1, <1>2 DEF Report, IInv, TermsOK, TermOK, StepOK, Ready, Member, AtHead
<1> QED
  BY <1>2, <1>4, <1>5, <1>6, <1>7, <1>8, <1>9, <1>10, <1>11 DEF IInv, NowWaiting

(* The status of the terminal is written. *)
LEMMA StatusStep == ASSUME IInv, Status PROVE IInv'
<1>1. todo # <<>> /\ Next1.do = "status" /\ Then(<<>>) /\ req' = req
  BY DEF Status, Doing
<1>2. /\ AtHead /\ NowWaiting(Rest)
      /\ \A d, p : Owed(d, p) => Owed(d, p)' \/ (d = Next1.do /\ p = P)
  BY <1>1, Popped
<1>3. \A r \in Requests : /\ Lead(r) \in Procs /\ Lead(r)[1] = r /\ Member(Lead(r))
                          /\ Last(r) \in Procs /\ Last(r)[1] = r
  BY StageFacts DEF IInv
<1>4. TypeOK'
  BY <1>2 DEF Status, IInv, TypeOK, AtHead, NowWaiting, tables, runs, ghosts
<1>5. StepsOK'
  BY <1>1, <1>2, <1>3 DEF Status, StepsOK, StepOK, AtHead, NowWaiting, Known, Member,
     Untouched, Ready, tables, runs, ghosts
<1>6. ProcsOK'
  BY <1>1, <1>2 DEF Status, IInv, ProcsOK, ProcOK, Known, Member, Ready, tables, runs,
     ghosts
<1>7. ExitsOK'
  BY <1>1, <1>2 DEF Status, IInv, ExitsOK, ExitOK, Member, tables, runs
<1>8. EntriesOK'
  BY <1>1, <1>2, <1>3 DEF Status, IInv, EntriesOK, EntryOK, Untouched, Member, Ready,
     AtHead, tables, runs
<1>9. JobsOK'
  BY <1>1, <1>2 DEF Status, IInv, JobsOK, JobOK, Known, tables, runs
<1>10. EarlyRequestsOK'
  BY DEF Status, IInv, EarlyRequestsOK, EarlyOK, Untouched, tables, runs, ghosts
<1>11. TermsOK'
  BY DEF Status, IInv, TermsOK, TermOK, Ready, Member, tables
<1> QED
  BY <1>2, <1>4, <1>5, <1>6, <1>7, <1>8, <1>9, <1>10, <1>11 DEF IInv, NowWaiting

(* The job of a line that did not resolve fails. *)
LEMMA EndJobStep == ASSUME IInv, EndJob PROVE IInv'
<1>1. todo # <<>> /\ Next1.do = "jobend" /\ Then(<<>>) /\ req' = req
  BY DEF EndJob, Doing
<1>2. /\ AtHead /\ NowWaiting(Rest)
      /\ \A d, p : Owed(d, p) => Owed(d, p)' \/ (d = Next1.do /\ p = P)
  BY <1>1, Popped
<1>3. \A r \in Requests : /\ Lead(r) \in Procs /\ Lead(r)[1] = r /\ Member(Lead(r))
                          /\ Last(r) \in Procs /\ Last(r)[1] = r
  BY StageFacts DEF IInv
<1>4. job[R] # "none"
  <2>1. SUFFICES ASSUME job[R] = "none" PROVE FALSE
    OBVIOUS
  <2>2. Owed("job", Lead(R))
    BY <1>1, <1>2, <2>1 DEF IInv, JobsOK, JobOK, AtHead, StepOK, Known
  <2> QED
    BY <1>1, <1>2, <1>3, <2>2 DEF Owed, AtHead, MayPrecede
<1>5. TypeOK'
  BY <1>2 DEF EndJob, IInv, TypeOK, AtHead, NowWaiting, JobEnd, tables, runs, ghosts
<1>6. StepsOK'
  BY <1>1, <1>2, <1>3 DEF EndJob, StepsOK, StepOK, AtHead, NowWaiting, Known, Member,
     Untouched, Ready, JobEnd, tables, runs, ghosts
<1>7. ProcsOK'
  BY <1>1, <1>2 DEF EndJob, IInv, ProcsOK, ProcOK, Known, Member, Ready, tables, runs,
     ghosts
<1>8. ExitsOK'
  BY <1>1, <1>2 DEF EndJob, IInv, ExitsOK, ExitOK, Member, tables, runs
<1>9. EntriesOK'
  BY <1>1, <1>2 DEF EndJob, IInv, EntriesOK, EntryOK, JobEnd, Untouched, Member, Ready,
     tables, runs
<1>10. JobsOK'
  BY <1>1, <1>2, <1>3, <1>4 DEF EndJob, IInv, JobsOK, JobOK, StepOK, Known, AtHead,
     TypeOK, JobEnd, tables, runs
<1>11. EarlyRequestsOK'
  BY DEF EndJob, IInv, EarlyRequestsOK, EarlyOK, Untouched, tables, runs, ghosts
<1>12. TermsOK'
  BY DEF EndJob, IInv, TermsOK, TermOK, Ready, Member, tables
<1> QED
  BY <1>2, <1>5, <1>6, <1>7, <1>8, <1>9, <1>10, <1>11, <1>12 DEF IInv, NowWaiting

(* The end of a request. *)
LEMMA EndStep == ASSUME IInv, End PROVE IInv'
<1>1. todo # <<>> /\ Next1.do = "end" /\ Then(<<>>) /\ req' = req
  BY DEF End, Doing
<1>2. /\ AtHead /\ NowWaiting(Rest)
      /\ \A d, p : Owed(d, p) => Owed(d, p)' \/ (d = Next1.do /\ p = P)
  BY <1>1, Popped
<1>3. \A r \in Requests : /\ Lead(r) \in Procs /\ Lead(r)[1] = r /\ Member(Lead(r))
                          /\ Last(r) \in Procs /\ Last(r)[1] = r
  BY StageFacts DEF IInv
<1>4. /\ fg' \in [Terminals -> Requests \cup {None}]
      /\ \A t \in Terminals : fg'[t] = fg[t] \/ (fg[t] = R /\ fg'[t] = None)
  BY <1>1, <1>2 DEF End, IInv, TypeOK, AtHead
<1>5. /\ job' \in [Requests -> {"none", "Running", "Completed", "Failed", "Stopped"}]
      /\ \A r \in Requests : job[r] = "none" => job'[r] = "none"
  BY <1>1, <1>2 DEF End, IInv, TypeOK, AtHead, JobEnd
<1>6. UNCHANGED <<req, tables, drive, invoked, exits>>
  BY DEF End, runs, ghosts
<1>7. \A p \in Procs : p[1] = R => p \notin registered
  <2>1. SUFFICES ASSUME NEW p \in Procs, p[1] = R, p \in registered PROVE FALSE
    OBVIOUS
  <2>2. Member(p) /\ drive[R] = "ended"
    BY <1>1, <1>2, <2>1 DEF IInv, ProcsOK, ProcOK, AtHead, StepOK
  <2>3. Owed("finish", p) \/ Owed("report", p)
    BY <2>1, <2>2 DEF IInv, ExitsOK, ExitOK, ProcsOK, ProcOK
  <2> QED
    BY <1>1, <1>2, <2>1, <2>3 DEF Owed, AtHead, MayPrecede
<1>8. TypeOK'
  BY <1>2, <1>5 DEF End, IInv, TypeOK, NowWaiting, tables, runs, ghosts
<1>9. StepsOK'
  BY <1>1, <1>2, <1>5, <1>6 DEF StepsOK, StepOK, AtHead, NowWaiting, Known, Member,
     Untouched, Ready, tables, StepSet, Procs
<1>10. ProcsOK'
  BY <1>1, <1>2 DEF End, IInv, ProcsOK, ProcOK, Known, Member, Ready, tables, runs, ghosts
<1>11. ExitsOK'
  BY <1>1, <1>2 DEF End, IInv, ExitsOK, ExitOK, Member, tables, runs
<1>12. EntriesOK'
  BY <1>1, <1>2, <1>5, <1>6 DEF End, IInv, EntriesOK, EntryOK, Untouched, Member, Ready,
     tables
<1>13. JobsOK'
  BY <1>1, <1>2, <1>3 DEF End, IInv, JobsOK, JobOK, StepOK, Known, Untouched, AtHead,
     TypeOK, JobEnd, StepSet, tables, runs
<1>14. EarlyRequestsOK'
  BY <1>1, <1>2 DEF End, IInv, EarlyRequestsOK, EarlyOK, StepOK, Untouched, AtHead,
     tables, runs, ghosts
<1>15. TermsOK'
  BY <1>4, <1>7 DEF End, IInv, TermsOK, TermOK, Ready, Member, tables
<1> QED
  BY <1>2, <1>8, <1>9, <1>10, <1>11, <1>12, <1>13, <1>14, <1>15 DEF IInv, NowWaiting

(* A signal to a process that is not registered is lost, and a finish that *)
(* comes second changes nothing.                                           *)
LEMMA NothingDone ==
  ASSUME IInv, todo # <<>>, Then(<<>>), UNCHANGED <<req, tables, shell, runs, signals, ghosts>>,
         Next1.do = "raise" \/ (Next1.do = "finish" /\ P \in finished)
  PROVE  IInv'
<1>1. Next1.do = "raise" \/ (Next1.do = "finish" /\ P \in finished)
  OBVIOUS
<1>2. /\ AtHead /\ NowWaiting(Rest)
      /\ \A d, p : Owed(d, p) => Owed(d, p)' \/ (d = Next1.do /\ p = P)
  BY Popped
<1>3. TypeOK'
  BY <1>2 DEF IInv, TypeOK, NowWaiting, tables, shell, runs, ghosts
<1>4. StepsOK'
  BY <1>2 DEF StepsOK, StepOK, AtHead, NowWaiting, Known, Member, Untouched, Ready,
     tables, shell, runs, ghosts
<1>5. ProcsOK'
  BY <1>2 DEF IInv, ProcsOK, ProcOK, Known, Member, Ready, tables, runs, ghosts
<1>6. ExitsOK'
  BY <1>2 DEF IInv, ExitsOK, ExitOK, Member, tables, shell, runs
<1>7. EntriesOK'
  BY <1>2 DEF IInv, EntriesOK, EntryOK, Untouched, Member, Ready, tables, shell, runs
<1>8. JobsOK'
  BY <1>2 DEF IInv, JobsOK, JobOK, Known, tables, shell, runs
<1>9. EarlyRequestsOK'
  BY DEF IInv, EarlyRequestsOK, EarlyOK, Untouched, tables, shell, runs, ghosts
<1>10. TermsOK'
  BY DEF IInv, TermsOK, TermOK, Ready, Member, tables, shell
<1> QED
  BY <1>2, <1>3, <1>4, <1>5, <1>6, <1>7, <1>8, <1>9, <1>10 DEF IInv, NowWaiting

(* The first finish is the exit, and owes its report. *)
LEMMA FinishFirst == ASSUME IInv, Finish, P \notin finished PROVE  IInv'
<1>1. PICK x : x = StepWith("report", P, Next1.with)
  OBVIOUS
<1>2. todo # <<>> /\ Next1.do = "finish" /\ Then(<<x>>) /\ req' = req
  BY <1>1 DEF Finish, Doing
<1>3. AtHead
  BY <1>2, HeadStep
<1>4. x \in StepSet /\ x.do = "report" /\ x.p = P /\ x.with = Next1.with
  BY <1>1, <1>3 DEF AtHead, StepSet, StepWith, Dos
<1>5. <<x>> \in Seq(StepSet) /\ Elems(<<x>>) = {x} /\ InOrder(<<x>>, req)
  BY <1>4, OneStep
<1>6. \A b \in Rest : MayPrecede(x, b, req)
  BY <1>2, <1>3, <1>4 DEF AtHead, MayPrecede, StepOK
<1>7. /\ NowWaiting({x} \cup Rest)
      /\ \A d, p : Owed(d, p) => Owed(d, p)' \/ (d = Next1.do /\ p = P)
  BY <1>2, <1>5, <1>6, Replaced
<1>8. \A p : p = P => Owed("report", p)'
  BY <1>4, <1>7 DEF NowWaiting, Owed
<1>9. /\ state' = [state EXCEPT ![P] = "exited"] /\ code' = [code EXCEPT ![P] = Next1.with]
      /\ finished' = finished \cup {P}
      /\ UNCHANGED <<req, registered, delivered, aborted, shell, runs, signals, ghosts>>
  BY DEF Finish
<1>10. Next1.with \in Results /\ Known(R) /\ Member(P)
  BY <1>2, <1>3 DEF AtHead, StepOK, Known, Ready
<1>11. TypeOK'
  BY <1>3, <1>7, <1>9, <1>10 DEF IInv, TypeOK, AtHead, NowWaiting, shell, runs, ghosts
<1>12. StepsOK'
  <2>1. StepOK(x)'
    BY <1>3, <1>4, <1>9 DEF IInv, TypeOK, StepOK, ProcsOK, ProcOK, AtHead, ghosts
  <2>2. ASSUME NEW b \in Rest PROVE StepOK(b)'
    BY <1>2, <1>3, <1>9, <2>2 DEF IInv, TypeOK, StepOK, AtHead, Known, Member, Untouched,
       Ready, MayPrecede, StepSet, shell, runs, ghosts
  <2> QED
    BY <1>7, <2>1, <2>2 DEF NowWaiting, StepsOK
<1>13. ProcsOK'
  BY <1>3, <1>7, <1>8, <1>9, <1>10 DEF IInv, TypeOK, ProcsOK, ProcOK, AtHead, Known,
     Member, Ready, runs, ghosts
<1>14. ExitsOK'
  <2>1. req[R].kind = "ok" /\ ~req[R].bg /\ Next1.with # "SIGKILL" => R \in committed
    <3>1. req[R].kind = "ok" /\ Next1.with # "SIGKILL" => drive[R] = "ended" /\ ~Owed("status", Lead(R))
      BY <1>2, <1>3, StageFacts DEF IInv, AtHead, StepOK, Owed, MayPrecede
    <3> QED
      BY <1>3, <3>1 DEF IInv, EntriesOK, EntryOK, AtHead
  <2> QED
    BY <1>3, <1>7, <1>9, <2>1 DEF IInv, TypeOK, ExitsOK, ExitOK, AtHead, Member, shell, runs
<1>15. EntriesOK'
  BY <1>2, <1>3, <1>7, <1>9, <1>10 DEF IInv, EntriesOK, EntryOK, AtHead, Known, Untouched,
     Member, Ready, shell, runs
<1>16. JobsOK'
  <2>1. SUFFICES ASSUME NEW r \in Requests PROVE JobOK(r)'
    BY DEF JobsOK
  <2>2. JobOK(r) /\ code[P] \notin Signals
    BY <1>3 DEF IInv, JobsOK, ProcsOK, ProcOK, AtHead, Signals
  <2>3. \A p \in Procs : code[p] \in Signals => code'[p] \in Signals
    BY <1>3, <1>9, <2>2 DEF IInv, TypeOK
  <2>4. \A p \in Procs : code'[p] \in Signals => p = P \/ code[p] \in Signals
    BY <1>3, <1>9 DEF IInv, TypeOK
  <2> QED
    BY <1>2, <1>7, <1>8, <1>9, <2>2 DEF JobOK, Known, shell, runs
<1>17. EarlyRequestsOK'
  BY <1>2, <1>3, <1>9 DEF IInv, EarlyRequestsOK, EarlyOK, AtHead, StepOK, Ready,
     Untouched, ghosts, runs, shell
<1>18. TermsOK'
  BY <1>9 DEF IInv, TermsOK, TermOK, Ready, Member, shell
<1> QED
  BY <1>7, <1>11, <1>12, <1>13, <1>14, <1>15, <1>16, <1>17, <1>18 DEF IInv, NowWaiting

(* The exit of a process. *)
LEMMA FinishStep == ASSUME IInv, Finish PROVE IInv'
<1>1. CASE P \in finished
  <2>1. /\ todo # <<>> /\ Next1.do = "finish" /\ Then(<<>>)
        /\ UNCHANGED <<req, tables, shell, runs, signals, ghosts>>
    BY <1>1 DEF Finish, Doing, tables
  <2> QED
    BY <1>1, <2>1, NothingDone
<1>2. CASE P \notin finished
  BY <1>2, FinishFirst
<1> QED
  BY <1>1, <1>2

(* A signal that can be noticed: the process is stopping, unless it has exited. *)
LEMMA RaiseNoticed ==
  ASSUME IInv, Raise, P \in registered, Next1.with # "SIGKILL"
  PROVE  IInv'
<1>1. todo # <<>> /\ Next1.do = "raise" /\ Then(<<>>) /\ req' = req
  BY DEF Raise, Doing
<1>2. /\ AtHead /\ NowWaiting(Rest)
      /\ \A d, p : Owed(d, p) => Owed(d, p)' \/ (d = Next1.do /\ p = P)
  BY <1>1, Popped
<1>3. /\ delivered' = [delivered EXCEPT ![P] = Next1.with] /\ aborted' = aborted \cup {P}
      /\ state' = IF state[P] = "exited" THEN state ELSE [state EXCEPT ![P] = "stopping"]
      /\ UNCHANGED <<req, code, finished, registered, shell, runs, signals, ghosts>>
  BY DEF Raise
<1>4. Next1.with \in Signals /\ Ready(R)
  BY <1>1, <1>2 DEF IInv, ProcsOK, ProcOK, AtHead, StepOK
<1>5. TypeOK'
  BY <1>2, <1>3, <1>4 DEF IInv, TypeOK, NowWaiting, shell, runs, ghosts
<1>6. ~Untouched(R)
  BY <1>2 DEF AtHead, Untouched
<1>7. StepsOK'
  <2>1. SUFFICES ASSUME NEW b \in Rest PROVE StepOK(b)'
    BY <1>2 DEF NowWaiting, StepsOK
  <2> QED
    BY <1>2, <1>3 DEF StepOK, AtHead, Known, Member, Untouched, Ready, shell, runs, ghosts
<1>8. ProcsOK'
  BY <1>1, <1>2, <1>3 DEF IInv, ProcsOK, ProcOK, Known, Member, Ready, runs, ghosts
<1>9. ExitsOK'
  BY <1>1, <1>2, <1>3 DEF IInv, ExitsOK, ExitOK, Member, shell, runs
<1>10. EntriesOK'
  BY <1>1, <1>2, <1>3 DEF IInv, EntriesOK, EntryOK, Untouched, Member, Ready, shell, runs
<1>11. JobsOK'
  BY <1>1, <1>2, <1>3 DEF IInv, JobsOK, JobOK, Known, shell, runs
<1>12. EarlyRequestsOK'
  BY <1>3 DEF IInv, EarlyRequestsOK, EarlyOK, Untouched, shell, runs, ghosts
<1>13. TermsOK'
  BY <1>3 DEF IInv, TermsOK, TermOK, Ready, Member, shell
<1> QED
  BY <1>2, <1>5, <1>7, <1>8, <1>9, <1>10, <1>11, <1>12, <1>13 DEF IInv, NowWaiting

(* A kill owes the exit. *)
LEMMA RaiseKill ==
  ASSUME IInv, Raise, P \in registered, Next1.with = "SIGKILL"
  PROVE  IInv'
<1>1. PICK x : x = StepWith("finish", P, "SIGKILL")
  OBVIOUS
<1>2. todo # <<>> /\ Next1.do = "raise" /\ Then(<<x>>) /\ req' = req
  BY <1>1 DEF Raise, Doing
<1>3. AtHead
  BY <1>2, HeadStep
<1>4. x \in StepSet /\ x.do = "finish" /\ x.p = P /\ x.with = "SIGKILL"
  BY <1>1, <1>3 DEF AtHead, StepSet, StepWith, Dos
<1>5. <<x>> \in Seq(StepSet) /\ Elems(<<x>>) = {x} /\ InOrder(<<x>>, req)
  BY <1>4, OneStep
<1>6. Ready(R) /\ Member(P) /\ ~Untouched(R)
  BY <1>3 DEF IInv, ProcsOK, ProcOK, AtHead, Untouched
<1>7. \A b \in Rest : MayPrecede(x, b, req)
  BY <1>2, <1>3, <1>4, <1>6 DEF AtHead, MayPrecede, StepOK
<1>8. /\ NowWaiting({x} \cup Rest)
      /\ \A d, p : Owed(d, p) => Owed(d, p)' \/ (d = Next1.do /\ p = P)
  BY <1>2, <1>5, <1>7, Replaced
<1>9. \A p : p = P => Owed("finish", p)'
  BY <1>4, <1>8 DEF NowWaiting, Owed
<1>10. /\ delivered' = [delivered EXCEPT ![P] = "SIGKILL"] /\ aborted' = aborted \cup {P}
       /\ UNCHANGED <<req, state, code, finished, registered, shell, runs, signals, ghosts>>
  BY DEF Raise
<1>11. TypeOK'
  BY <1>8, <1>10 DEF IInv, TypeOK, NowWaiting, Signals, shell, runs, ghosts
<1>12. StepsOK'
  <2>1. StepOK(x)'
    BY <1>3, <1>4, <1>6, <1>10 DEF StepOK, AtHead, Ready, Member, Results, Signals
  <2>2. ASSUME NEW b \in Rest PROVE StepOK(b)'
    BY <1>3, <1>10 DEF StepOK, AtHead, Known, Member, Untouched, Ready, shell, runs, ghosts
  <2> QED
    BY <1>8, <2>1, <2>2 DEF NowWaiting, StepsOK
<1>13. ProcsOK'
  BY <1>2, <1>8, <1>9, <1>10 DEF IInv, ProcsOK, ProcOK, Known, Member, Ready, runs, ghosts
<1>14. ExitsOK'
  BY <1>2, <1>8, <1>10 DEF IInv, ExitsOK, ExitOK, Member, shell, runs
<1>15. EntriesOK'
  BY <1>2, <1>8, <1>10 DEF IInv, EntriesOK, EntryOK, Untouched, Member, Ready, shell, runs
<1>16. JobsOK'
  BY <1>2, <1>8, <1>10 DEF IInv, JobsOK, JobOK, Known, shell, runs
<1>17. EarlyRequestsOK'
  BY <1>10 DEF IInv, EarlyRequestsOK, EarlyOK, Untouched, shell, runs, ghosts
<1>18. TermsOK'
  BY <1>10 DEF IInv, TermsOK, TermOK, Ready, Member, shell
<1> QED
  BY <1>8, <1>11, <1>12, <1>13, <1>14, <1>15, <1>16, <1>17, <1>18 DEF IInv, NowWaiting

(* A signal. *)
LEMMA RaiseStep == ASSUME IInv, Raise PROVE IInv'
<1>1. CASE P \notin registered
  <2>1. /\ todo # <<>> /\ Next1.do = "raise" /\ Then(<<>>)
        /\ UNCHANGED <<req, tables, shell, runs, signals, ghosts>>
    BY <1>1 DEF Raise, Doing, tables
  <2> QED
    BY <2>1, NothingDone
<1>2. CASE P \in registered
  BY <1>2, RaiseNoticed, RaiseKill
<1> QED
  BY <1>1, <1>2

(* A step for each stage. *)
LEMMA StageSteps ==
  ASSUME NEW S, NEW n \in Nat, NEW f \in [1 .. n -> S], NEW q,
         \A i, j \in 1 .. n : i < j => MayPrecede(f[i], f[j], q)
  PROVE  f \in Seq(S) /\ Elems(f) = {f[i] : i \in 1 .. n} /\ InOrder(f, q)
  BY DEF Elems, InOrder

\* The steps of a teardown of r.
TearsDown(s, r) ==
  /\ s \in Seq(StepSet) /\ InOrder(s, req)
  /\ \A x \in Elems(s) :
       /\ x \in StepSet /\ x.p[1] = r
       /\ \/ x.do = "status" /\ x.p = Lead(r) /\ ~req[r].bg
          \/ x.do = "finish" /\ Member(x.p) /\ x.with \in Results
          \/ x.do = "end" /\ x.p = Lead(r)
  /\ \E x \in Elems(s) : x.do = "end" /\ x.p = Lead(r)
  /\ ~req[r].bg => \E x \in Elems(s) : x.do = "status" /\ x.p = Lead(r)
  /\ \A p \in Procs : p[1] = r /\ Member(p) => \E x \in Elems(s) : x.do = "finish" /\ x.p = p

(* They are the status of a foreground request, a finish for each stage, and *)
(* the end, in this order.                                                   *)
LEMMA TeardownSteps ==
  ASSUME TypeOK, NEW r \in Requests, NEW res, \A i \in 1 .. req[r].n : res[i] \in Results
  PROVE  TearsDown(Teardown(r, req[r].n, req[r].bg, res), r)
<1> DEFINE n == req[r].n
           a == Step("status", Stage(r, 1))
           f == [i \in 1 .. n |-> StepWith("finish", Stage(r, i), res[i])]
           e == StepWith("end", Stage(r, 1), res[n])
           st == IF req[r].bg THEN <<>> ELSE <<a>>
<1>1. n \in 1 .. MaxStages /\ n \in Nat /\ MaxStages \in Nat /\ 1 \in 1 .. n
  BY KernelConstants DEF TypeOK
<1>2. \A i \in 1 .. n : /\ Stage(r, i) \in Procs /\ Stage(r, i)[1] = r /\ Stage(r, i)[2] = i
                        /\ Member(Stage(r, i))
  BY <1>1 DEF Stage, Procs, Member
<1>3. a \in StepSet /\ a.do = "status" /\ a.p = Lead(r)
  BY <1>1, <1>2 DEF Step, StepSet, Dos, Lead
<1>4. e \in StepSet /\ e.do = "end" /\ e.p = Lead(r)
  BY <1>1, <1>2 DEF StepWith, StepSet, Dos, Lead
<1>5. \A i \in 1 .. n : /\ f[i] \in StepSet /\ f[i].do = "finish" /\ f[i].p = Stage(r, i)
                        /\ f[i].with \in Results
  BY <1>1, <1>2 DEF StepWith, StepSet, Dos
<1> HIDE DEF n, a, f, e
<1>6. f \in [1 .. n -> StepSet]
  BY <1>5 DEF f
<1>7. f \in Seq(StepSet) /\ Elems(f) = {f[i] : i \in 1 .. n} /\ InOrder(f, req)
  BY <1>1, <1>5, <1>6, StageSteps DEF MayPrecede
<1>8. <<e>> \in Seq(StepSet) /\ Elems(<<e>>) = {e} /\ InOrder(<<e>>, req)
  BY <1>4, OneStep
<1>9. /\ st \in Seq(StepSet) /\ InOrder(st, req)
      /\ Elems(st) = IF req[r].bg THEN {} ELSE {a}
  BY <1>3, OneStep, NoStep
<1> HIDE DEF st
<1>10. /\ st \o f \in Seq(StepSet) /\ Elems(st \o f) = Elems(st) \cup Elems(f)
       /\ InOrder(st \o f, req)
  <2>1. \A x \in Elems(st), y \in Elems(f) : MayPrecede(x, y, req)
    BY <1>3, <1>5, <1>7, <1>9 DEF MayPrecede
  <2> QED
    BY <1>7, <1>9, <2>1, ElemsJoin, InOrderJoin
<1> DEFINE u == st \o f
           v == <<e>>
<1> HIDE DEF u, v
<1>11. /\ u \o v \in Seq(StepSet) /\ Elems(u \o v) = Elems(st) \cup Elems(f) \cup {e}
       /\ InOrder(u \o v, req)
  <2>1. /\ u \in Seq(StepSet) /\ Elems(u) = Elems(st) \cup Elems(f) /\ InOrder(u, req)
        /\ v \in Seq(StepSet) /\ Elems(v) = {e} /\ InOrder(v, req)
    BY <1>8, <1>10 DEF u, v
  <2>2. \A x \in Elems(u), y \in Elems(v) : MayPrecede(x, y, req)
    BY <1>4, <2>1 DEF MayPrecede
  <2> QED
    BY <2>1, <2>2, ElemsJoin, InOrderJoin
<1>12. Teardown(r, req[r].n, req[r].bg, res) = u \o v
  BY DEF Teardown, u, v, st, f, e, a, n
<1>13. ASSUME NEW p \in Procs, p[1] = r, Member(p)
       PROVE  p[2] \in 1 .. n /\ f[p[2]].p = p
  <2>1. p[2] \in 1 .. n /\ p = Stage(r, p[2])
    BY <1>1, <1>13, ProcFacts DEF Member, n
  <2> QED
    BY <1>5, <2>1
<1>14. \A x \in Elems(u \o v) :
         x = e \/ (x = a /\ ~req[r].bg) \/ \E k \in 1 .. n : x = f[k]
  BY <1>7, <1>9, <1>11
<1>15. /\ e \in Elems(u \o v)
       /\ ~req[r].bg => a \in Elems(u \o v)
       /\ \A k \in 1 .. n : f[k] \in Elems(u \o v)
  BY <1>7, <1>9, <1>11
<1>16. Lead(r)[1] = r
  BY StageFacts
<1>17. ASSUME NEW x \in Elems(u \o v)
       PROVE  /\ x \in StepSet /\ x.p[1] = r
              /\ \/ x.do = "status" /\ x.p = Lead(r) /\ ~req[r].bg
                 \/ x.do = "finish" /\ Member(x.p) /\ x.with \in Results
                 \/ x.do = "end" /\ x.p = Lead(r)
  BY <1>2, <1>3, <1>4, <1>5, <1>14, <1>16
<1>18. ASSUME NEW p \in Procs, p[1] = r, Member(p)
       PROVE  \E x \in Elems(u \o v) : x.do = "finish" /\ x.p = p
  BY <1>5, <1>13, <1>15, <1>18
<1> QED
  BY <1>3, <1>4, <1>11, <1>12, <1>15, <1>17, <1>18 DEF TearsDown

(* The steps behind a prepare are other requests' steps, or signals and runs. *)
LEMMA BehindPrepare ==
  ASSUME IInv, todo # <<>>, Next1.do = "prepare"
  PROVE  /\ P = Lead(R) /\ req[R].kind = "ok" /\ Untouched(R) /\ ~Ready(R)
         /\ \A b \in Rest : b.p[1] = R => b.do \in {"raise", "run"}
<1>1. AtHead
  BY HeadStep
<1>2. P = Lead(R) /\ req[R].kind = "ok" /\ Untouched(R)
  BY <1>1 DEF AtHead, StepOK
<1>3. ~Ready(R)
  BY <1>1, <1>2, StageFacts DEF IInv, AtHead, Untouched, Ready
<1>4. ASSUME NEW b \in Rest, b.p[1] = R PROVE b.do \in {"raise", "run"}
  BY <1>1, <1>3, <1>4 DEF AtHead, MayPrecede, StepOK, Untouched, StepSet, Dos
<1> QED
  BY <1>2, <1>3, <1>4

(* A request that was cancelled before it was prepared is torn down. *)
LEMMA PrepareCancelled == ASSUME IInv, Prepare, R \in cancelled PROVE IInv'
<1>1. PICK r, res, pre : /\ r = R /\ res = [i \in 1 .. req[r].n |-> "SIGINT"]
                         /\ pre = Teardown(r, req[r].n, req[r].bg, res)
  OBVIOUS
<1>2. todo # <<>> /\ Next1.do = "prepare" /\ Then(pre)
  BY <1>1 DEF Prepare, Doing
<1>3. AtHead
  BY <1>2, HeadStep
<1>4. /\ r \in Requests /\ P = Lead(r) /\ req[r].kind = "ok" /\ Untouched(r) /\ ~Ready(r)
      /\ \A b \in Rest : b.p[1] = r => b.do \in {"raise", "run"}
      /\ r = P[1] /\ r = Next1.p[1]
  BY <1>1, <1>2, <1>3, BehindPrepare DEF AtHead
<1>5. /\ registered' = registered \cup Stages(r)
      /\ IF req[r].bg THEN UNCHANGED <<fg, latest>>
         ELSE /\ fg' = [fg EXCEPT ![req[r].term] = r]
              /\ latest' = [latest EXCEPT ![req[r].term] = r]
      /\ cancelled' = cancelled \ {r} /\ drive' = [drive EXCEPT ![r] = "ended"]
      /\ outcome' = [p \in Procs |-> IF p \in Stages(r) THEN "SIGINT" ELSE outcome[p]]
      /\ UNCHANGED <<req, state, code, finished, delivered, aborted, job, status, committed,
                     invoked, signals, ghosts>>
  BY <1>1 DEF Prepare
<1>6. /\ \A p : p \in Stages(r) <=> p \in Procs /\ p[1] = r /\ Member(p)
      /\ Lead(r) \in Procs /\ Lead(r)[1] = r /\ Member(Lead(r))
      /\ \A q \in Requests : Lead(q)[1] = q
  BY <1>4, StageFacts DEF IInv
<1>7. TearsDown(pre, r)
  <2>1. \A i \in 1 .. req[r].n : res[i] \in Results
    BY <1>1 DEF Results, Signals
  <2> QED
    BY <1>1, <1>4, <2>1, TeardownSteps DEF IInv
<1>8. \A a \in Elems(pre), b \in Rest : MayPrecede(a, b, req)
  BY <1>4, <1>7 DEF MayPrecede, TearsDown
<1>9. /\ NowWaiting(Elems(pre) \cup Rest)
      /\ \A d, p : Owed(d, p) => Owed(d, p)' \/ (d = "prepare" /\ p = Lead(r))
      /\ \A a \in Elems(pre) : Owed(a.do, a.p)'
  BY <1>2, <1>4, <1>5, <1>7, <1>8, Replaced DEF TearsDown
<1>10. /\ Owed("end", Lead(r))' /\ (~req[r].bg => Owed("status", Lead(r))')
       /\ \A p \in Procs : p[1] = r /\ Member(p) => Owed("finish", p)'
  BY <1>7, <1>9 DEF TearsDown
<1>11. Ready(r)'
  BY <1>4, <1>5, <1>6 DEF Ready, Member
<1>12. TypeOK'
  BY <1>4, <1>5, <1>6, <1>9 DEF IInv, TypeOK, NowWaiting, Results, Signals, ghosts
<1>13. StepsOK'
  <2>1. ASSUME NEW b \in Elems(pre) PROVE StepOK(b)'
    BY <1>4, <1>5, <1>7, <1>11 DEF TearsDown, IInv, TypeOK, StepOK, Known, Member
  <2>2. ASSUME NEW b \in Rest PROVE StepOK(b)'
    BY <1>3, <1>4, <1>5, <1>6, <2>2 DEF IInv, TypeOK, StepOK, AtHead, Known, Member,
       Untouched, Ready, StepSet, ghosts
  <2> QED
    BY <1>9, <2>1, <2>2 DEF NowWaiting, StepsOK
<1>14. ProcsOK'
  BY <1>4, <1>5, <1>6, <1>9 DEF IInv, ProcsOK, ProcOK, Known, Member, Untouched, Ready,
     ghosts
<1>15. ExitsOK'
  BY <1>5, <1>9, <1>10 DEF IInv, ExitsOK, ExitOK, Member
<1>16. EntriesOK'
  BY <1>5, <1>6, <1>9, <1>10, <1>11 DEF IInv, EntriesOK, EntryOK, Untouched, Member, Ready
<1>17. JobsOK'
  BY <1>5, <1>9, <1>10 DEF IInv, JobsOK, JobOK, Known
<1>18. EarlyRequestsOK'
  BY <1>5, <1>6 DEF IInv, TypeOK, EarlyRequestsOK, EarlyOK, Untouched, ghosts
<1>19. TermsOK'
  BY <1>4, <1>5, <1>6 DEF IInv, TypeOK, TermsOK, TermOK, Ready, Member
<1> QED
  BY <1>9, <1>12, <1>13, <1>14, <1>15, <1>16, <1>17, <1>18, <1>19 DEF IInv, NowWaiting

\* The steps that set the prepared pipeline of r going.
SetsGoing(s, r) ==
  /\ s \in Seq(StepSet) /\ InOrder(s, req)
  /\ \A x \in Elems(s) :
       /\ x \in StepSet /\ x.p[1] = r
       /\ \/ x.do = "run" /\ Member(x.p)
          \/ x.do = "start" /\ x.p = Lead(r)

(* They are a run for each stage but the first, and the start. *)
LEMMA StartSteps ==
  ASSUME TypeOK, NEW r \in Requests
  PROVE  SetsGoing(Tail(ForStages("run", r, req[r].n)) \o <<Step("start", Stage(r, 1))>>, r)
<1> DEFINE n == req[r].n
           f == ForStages("run", r, n)
           e == Step("start", Stage(r, 1))
<1>1. n \in 1 .. MaxStages /\ n \in Nat /\ n - 1 \in Nat /\ MaxStages \in Nat /\ 1 \in 1 .. n
  BY KernelConstants DEF TypeOK
<1>2. \A i \in 1 .. n : /\ Stage(r, i) \in Procs /\ Stage(r, i)[1] = r /\ Member(Stage(r, i))
  BY <1>1 DEF Stage, Procs, Member
<1>3. e \in StepSet /\ e.do = "start" /\ e.p = Lead(r)
  BY <1>1, <1>2 DEF Step, StepSet, Dos, Lead
<1>4. \A i \in 1 .. n : /\ f[i] \in StepSet /\ f[i].do = "run" /\ f[i].p = Stage(r, i)
  BY <1>1, <1>2 DEF ForStages, Step, StepSet, Dos
<1>5. f \in [1 .. n -> StepSet]
  BY <1>4 DEF ForStages
<1> HIDE DEF n, f, e
<1>6. f \in Seq(StepSet) /\ Elems(f) = {f[i] : i \in 1 .. n} /\ InOrder(f, req)
  BY <1>1, <1>4, <1>5, StageSteps DEF MayPrecede
<1>7. f # <<>>
  BY <1>1, <1>5
<1>8. Tail(f) \in Seq(StepSet) /\ Elems(Tail(f)) \subseteq Elems(f) /\ InOrder(Tail(f), req)
  BY <1>6, <1>7, TakeHead
<1>9. <<e>> \in Seq(StepSet) /\ Elems(<<e>>) = {e} /\ InOrder(<<e>>, req)
  BY <1>3, OneStep
<1> DEFINE u == Tail(f)
           v == <<e>>
<1> HIDE DEF u, v
<1>10. /\ u \in Seq(StepSet) /\ Elems(u) \subseteq Elems(f) /\ InOrder(u, req)
       /\ v \in Seq(StepSet) /\ Elems(v) = {e} /\ InOrder(v, req)
  BY <1>8, <1>9 DEF u, v
<1>11. u \o v \in Seq(StepSet) /\ Elems(u \o v) \subseteq Elems(f) \cup {e} /\ InOrder(u \o v, req)
  <2>1. \A x \in Elems(u), y \in Elems(v) : MayPrecede(x, y, req)
    BY <1>3, <1>4, <1>6, <1>10 DEF MayPrecede
  <2> QED
    BY <1>10, <2>1, ElemsJoin, InOrderJoin
<1>12. ASSUME NEW x \in Elems(u \o v)
       PROVE  /\ x \in StepSet /\ x.p[1] = r
              /\ \/ x.do = "run" /\ Member(x.p)
                 \/ x.do = "start" /\ x.p = Lead(r)
  <2>1. x = e \/ \E i \in 1 .. n : x = f[i]
    BY <1>6, <1>11, <1>12
  <2> QED
    BY <1>2, <1>3, <1>4, <2>1, StageFacts
<1> QED
  BY <1>11, <1>12 DEF SetsGoing, u, v, f, e, n

(* Any other is set going. *)
LEMMA PrepareGoes == ASSUME IInv, Prepare, R \notin cancelled PROVE IInv'
<1>1. PICK r, pre : /\ r = R
                    /\ pre = Tail(ForStages("run", r, req[r].n)) \o <<Step("start", Stage(r, 1))>>
  OBVIOUS
<1>2. todo # <<>> /\ Next1.do = "prepare" /\ Then(pre)
  BY <1>1 DEF Prepare, Doing
<1>3. AtHead
  BY <1>2, HeadStep
<1>4. /\ r \in Requests /\ P = Lead(r) /\ req[r].kind = "ok" /\ Untouched(r) /\ ~Ready(r)
      /\ \A b \in Rest : b.p[1] = r => b.do \in {"raise", "run"}
      /\ r = P[1] /\ r = Next1.p[1]
  BY <1>1, <1>2, <1>3, BehindPrepare DEF AtHead
<1>5. /\ registered' = registered \cup Stages(r)
      /\ IF req[r].bg THEN UNCHANGED <<fg, latest>>
         ELSE /\ fg' = [fg EXCEPT ![req[r].term] = r]
              /\ latest' = [latest EXCEPT ![req[r].term] = r]
      /\ state' = [state EXCEPT ![Lead(r)] = "running"]
      /\ UNCHANGED <<req, cancelled, drive, outcome, code, finished, delivered, aborted, job,
                     status, committed, invoked, signals, ghosts>>
  BY <1>1 DEF Prepare, Lead
<1>6. /\ \A p : p \in Stages(r) <=> p \in Procs /\ p[1] = r /\ Member(p)
      /\ Lead(r) \in Procs /\ Lead(r)[1] = r /\ Member(Lead(r))
      /\ \A q \in Requests : Lead(q)[1] = q
  BY <1>4, StageFacts DEF IInv
<1>7. SetsGoing(pre, r)
  BY <1>1, <1>4, StartSteps DEF IInv
<1>8. \A a \in Elems(pre), b \in Rest : MayPrecede(a, b, req)
  BY <1>4, <1>7 DEF MayPrecede, SetsGoing
<1>9. /\ NowWaiting(Elems(pre) \cup Rest)
      /\ \A d, p : Owed(d, p) => Owed(d, p)' \/ (d = "prepare" /\ p = Lead(r))
  BY <1>2, <1>4, <1>5, <1>7, <1>8, Replaced DEF SetsGoing
<1>10. Ready(r)'
  BY <1>4, <1>5, <1>6 DEF Ready, Member
<1>11. TypeOK'
  BY <1>4, <1>5, <1>6, <1>9 DEF IInv, TypeOK, NowWaiting, ghosts
<1>12. StepsOK'
  <2>1. ASSUME NEW b \in Elems(pre) PROVE StepOK(b)'
    BY <1>4, <1>5, <1>7, <1>10 DEF SetsGoing, StepOK, Known, Member, Untouched
  <2>2. ASSUME NEW b \in Rest PROVE StepOK(b)'
    BY <1>3, <1>4, <1>5, <1>6, <2>2 DEF StepOK, AtHead, Known, Member, Untouched, Ready,
       ghosts
  <2> QED
    BY <1>9, <2>1, <2>2 DEF NowWaiting, StepsOK
<1>13. ProcsOK'
  BY <1>4, <1>5, <1>6, <1>9 DEF IInv, ProcsOK, ProcOK, Known, Member, Untouched, Ready,
     ghosts
<1>14. ExitsOK'
  BY <1>5, <1>9 DEF IInv, ExitsOK, ExitOK, Member
<1>15. EntriesOK'
  BY <1>5, <1>6, <1>9, <1>10 DEF IInv, EntriesOK, EntryOK, Untouched, Member, Ready
<1>16. JobsOK'
  BY <1>5, <1>9 DEF IInv, JobsOK, JobOK, Known
<1>17. EarlyRequestsOK'
  BY <1>1, <1>5, <1>6 DEF IInv, EarlyRequestsOK, EarlyOK, Untouched, ghosts
<1>18. TermsOK'
  BY <1>4, <1>5, <1>6 DEF IInv, TypeOK, TermsOK, TermOK, Ready, Member
<1> QED
  BY <1>9, <1>11, <1>12, <1>13, <1>14, <1>15, <1>16, <1>17, <1>18 DEF IInv, NowWaiting

(* The preparation of a pipeline. *)
LEMMA PrepareStep == ASSUME IInv, Prepare PROVE IInv'
  BY PrepareCancelled, PrepareGoes

-----------------------------------------------------------------------------
(* The event loop, and the requests.                                      *)

(* A command is entered only in a pipeline that runs. *)
LEMMA EnterStep ==
  ASSUME IInv, NEW r \in Requests, NEW i \in 1 .. MaxStages, Enter(r, i)
  PROVE  IInv'
<1>1. /\ invoked' = invoked \cup {Stage(r, i)} /\ drive[r] = "running"
      /\ UNCHANGED <<req, todo, tables, shell, drive, outcome, signals, ghosts>>
  BY DEF Enter
<1>2. Stage(r, i) \in Procs /\ Stage(r, i)[1] = r
  BY DEF Stage, Procs
<1>3. req[r].kind = "ok" /\ ~Untouched(r) /\ r \notin early
  BY <1>1 DEF IInv, EntriesOK, EntryOK, EarlyRequestsOK, EarlyOK, Untouched
<1>4. \A d, p : Owed(d, p) => Owed(d, p)'
  BY <1>1 DEF Owed
<1>5. TypeOK' /\ Todo' /\ Order'
  BY <1>1, <1>2 DEF IInv, TypeOK, Todo, Order, tables, shell, ghosts
<1>6. StepsOK'
  BY <1>1, <1>2 DEF IInv, StepsOK, StepOK, Known, Member, Untouched, Ready, tables, shell,
     ghosts
<1>7. ProcsOK' /\ ExitsOK'
  BY <1>1, <1>2, <1>3, <1>4 DEF IInv, ProcsOK, ProcOK, ExitsOK, ExitOK, Known, Member,
     Ready, tables, shell, ghosts
<1>8. EntriesOK'
  BY <1>1, <1>2, <1>4 DEF IInv, EntriesOK, EntryOK, Untouched, Member, Ready, tables, shell
<1>9. JobsOK'
  BY <1>1, <1>4 DEF IInv, JobsOK, JobOK, Known, tables, shell
<1>10. EarlyRequestsOK'
  BY <1>1, <1>2, <1>3 DEF IInv, EarlyRequestsOK, EarlyOK, Untouched, tables, shell, ghosts
<1>11. TermsOK'
  BY <1>1 DEF IInv, TermsOK, TermOK, Ready, Member, tables, shell
<1> QED
  BY <1>5, <1>6, <1>7, <1>8, <1>9, <1>10, <1>11 DEF IInv

(* What a command returned with is no part of the invariant but its type. *)
LEMMA SettleStep == ASSUME IInv, NEW p \in Procs, Settle(p) PROVE IInv'
<1>1. UNCHANGED <<req, todo, tables, shell, drive, invoked, signals, ghosts>>
  BY DEF Settle
<1>2. outcome' \in [Procs -> Results \cup {"none"}]
  BY DEF Settle, IInv, TypeOK
<1>3. \A d, w : Owed(d, w) => Owed(d, w)'
  BY <1>1 DEF Owed
<1>4. TypeOK' /\ Todo' /\ Order'
  BY <1>1, <1>2 DEF IInv, TypeOK, Todo, Order, tables, shell, ghosts
<1>5. StepsOK'
  BY <1>1 DEF IInv, StepsOK, StepOK, Known, Member, Untouched, Ready, tables, shell, ghosts
<1>6. ProcsOK' /\ ExitsOK'
  BY <1>1, <1>3 DEF IInv, ProcsOK, ProcOK, ExitsOK, ExitOK, Known, Member, Ready, tables,
     shell, ghosts
<1>7. EntriesOK'
  BY <1>1, <1>3 DEF IInv, EntriesOK, EntryOK, Untouched, Member, Ready, tables, shell
<1>8. JobsOK'
  BY <1>1, <1>3 DEF IInv, JobsOK, JobOK, Known, tables, shell
<1>9. EarlyRequestsOK' /\ TermsOK'
  BY <1>1 DEF IInv, EarlyRequestsOK, EarlyOK, TermsOK, TermOK, Untouched, Member, Ready,
     tables, shell, ghosts
<1> QED
  BY <1>4, <1>5, <1>6, <1>7, <1>8, <1>9 DEF IInv

(* A pipeline that ends is torn down. *)
LEMMA DriveEndsStep == ASSUME IInv, NEW r \in Requests, DriveEnds(r) PROVE IInv'
<1>1. PICK res, pre : /\ res = [i \in 1 .. req[r].n |-> Outcome(Stage(r, i))]
                      /\ pre = Teardown(r, req[r].n, req[r].bg, res)
  OBVIOUS
<1>2. /\ todo = <<>> /\ drive[r] = "running" /\ todo' = pre
      /\ drive' = [drive EXCEPT ![r] = "ended"]
      /\ UNCHANGED <<req, tables, shell, invoked, outcome, signals, ghosts>>
  BY <1>1 DEF DriveEnds
<1>3. TearsDown(pre, r)
  <2>1. \A i \in 1 .. req[r].n : Stage(r, i) \in Procs
    BY KernelConstants DEF IInv, TypeOK, Stage, Procs
  <2>2. \A p \in Procs : Outcome(p) \in Results
    BY DEF IInv, TypeOK, Outcome, Results
  <2>3. \A i \in 1 .. req[r].n : res[i] \in Results
    BY <1>1, <2>1, <2>2
  <2> QED
    BY <1>1, <2>3, TeardownSteps DEF IInv
<1>4. \A d, p : ~Owed(d, p)
  BY <1>2, NoStep DEF Owed
<1>5. /\ Lead(r) \in Procs /\ Lead(r)[1] = r
      /\ \A q \in Requests : Lead(q)[1] = q
  BY StageFacts DEF IInv
<1>6. /\ Owed("end", Lead(r))' /\ (~req[r].bg => Owed("status", Lead(r))')
      /\ \A p \in Procs : p[1] = r /\ Member(p) => Owed("finish", p)'
  BY <1>2, <1>3 DEF TearsDown, Owed
<1>7. Ready(r) /\ req[r].kind = "ok"
  BY <1>2, <1>4 DEF IInv, EntriesOK, EntryOK
<1>8. TypeOK' /\ Todo' /\ Order'
  BY <1>2, <1>3, TodoTypes DEF IInv, TypeOK, Todo, Order, TearsDown, tables, shell, ghosts
<1>9. StepsOK'
  BY <1>2, <1>3, <1>7 DEF IInv, TypeOK, StepsOK, StepOK, TearsDown, Known, Member, Ready,
     tables
<1>10. ProcsOK'
  BY <1>2, <1>4 DEF IInv, ProcsOK, ProcOK, Known, Member, Ready, tables, ghosts
<1>11. ExitsOK'
  <2>1. SUFFICES ASSUME NEW p \in Procs PROVE ExitOK(p)'
    BY DEF ExitsOK
  <2>2. ExitOK(p) /\ ~Owed("finish", p) /\ p[1] \in Requests
    BY <1>4, ProcFacts DEF IInv, ExitsOK
  <2> QED
    BY <1>2, <1>6, <2>2 DEF ExitOK, Member, tables, shell
<1>12. EntriesOK'
  BY <1>2, <1>4, <1>6, <1>7 DEF IInv, EntriesOK, EntryOK, Untouched, Ready, Member,
     tables, shell
<1>13. JobsOK'
  BY <1>2, <1>4, <1>6 DEF IInv, JobsOK, JobOK, Known, tables, shell
<1>14. EarlyRequestsOK'
  BY <1>2 DEF IInv, EarlyRequestsOK, EarlyOK, Untouched, tables, shell, ghosts
<1>15. TermsOK'
  BY <1>2 DEF IInv, TermsOK, TermOK, Ready, Member, tables, shell
<1> QED
  BY <1>8, <1>9, <1>10, <1>11, <1>12, <1>13, <1>14, <1>15 DEF IInv

(* Signals of a group, or of one process. *)
LEMMA RaiseSteps ==
  ASSUME NEW n \in Nat, NEW group \in [1 .. n -> Procs], NEW sig \in Signals, NEW q
  PROVE  /\ RaiseAll(group, sig) \in Seq(StepSet) /\ InOrder(RaiseAll(group, sig), q)
         /\ \A x \in Elems(RaiseAll(group, sig)) : x \in StepSet /\ x.do = "raise" /\ x.with \in Signals
<1> DEFINE f == RaiseAll(group, sig)
<1>1. Len(group) = n
  OBVIOUS
<1>2. \A i \in 1 .. n : f[i] \in StepSet /\ f[i].do = "raise" /\ f[i].with \in Signals
  BY <1>1 DEF RaiseAll, StepWith, StepSet, Dos, Results
<1>3. f \in [1 .. n -> StepSet]
  BY <1>1, <1>2 DEF RaiseAll
<1> HIDE DEF f
<1>4. f \in Seq(StepSet) /\ Elems(f) = {f[i] : i \in 1 .. n} /\ InOrder(f, q)
  BY <1>2, <1>3, StageSteps DEF MayPrecede
<1> QED
  BY <1>2, <1>4 DEF f

(* Signals change nothing until they are raised. *)
LEMMA OnlySignals ==
  ASSUME IInv, NEW pre \in Seq(StepSet), todo' = pre \o todo, InOrder(pre, req),
         \A x \in Elems(pre) : x \in StepSet /\ x.do = "raise" /\ x.with \in Signals,
         UNCHANGED <<req, tables, fg, job, status, committed, latest, runs, exits>>
  PROVE  /\ Todo' /\ Order' /\ \A i \in DOMAIN todo' : todo'[i].p \in Procs
         /\ StepsOK' /\ ProcsOK' /\ ExitsOK' /\ EntriesOK' /\ JobsOK' /\ TermsOK'
<1>1. \A a \in Elems(pre), b \in Elems(todo) : MayPrecede(a, b, req)
  BY DEF MayPrecede
<1>2. /\ NowWaiting(Elems(pre) \cup Elems(todo))
      /\ \A d, p : Owed(d, p) => Owed(d, p)'
  BY <1>1, Asked DEF IInv, Order
<1>3. StepsOK'
  BY <1>2 DEF IInv, StepsOK, StepOK, NowWaiting, Known, Member, Untouched, Ready, tables,
     runs
<1>4. ProcsOK' /\ ExitsOK'
  BY <1>2 DEF IInv, ProcsOK, ProcOK, ExitsOK, ExitOK, Known, Member, Ready, tables, runs
<1>5. EntriesOK'
  BY <1>2 DEF IInv, EntriesOK, EntryOK, Untouched, Member, Ready, tables, runs
<1>6. JobsOK'
  BY <1>2 DEF IInv, JobsOK, JobOK, Known, tables, runs
<1>7. TermsOK'
  BY DEF IInv, TermsOK, TermOK, Ready, Member, tables
<1> QED
  BY <1>2, <1>3, <1>4, <1>5, <1>6, <1>7 DEF NowWaiting

(* A signal request. *)
LEMMA SignalStep ==
  ASSUME IInv, NEW n \in Nat, NEW group \in [1 .. n -> Procs], NEW sig \in Signals,
         Signal(group, sig)
  PROVE  IInv'
<1>1. /\ todo' = RaiseAll(group, sig) \o todo /\ signals' = signals + 1
      /\ UNCHANGED <<req, tables, shell, runs, ghosts>>
  BY DEF Signal
<1>2. /\ Todo' /\ Order' /\ \A i \in DOMAIN todo' : todo'[i].p \in Procs
      /\ StepsOK' /\ ProcsOK' /\ ExitsOK' /\ EntriesOK' /\ JobsOK' /\ TermsOK'
  BY <1>1, RaiseSteps, OnlySignals DEF shell, ghosts
<1>3. TypeOK'
  BY <1>1, <1>2 DEF IInv, TypeOK, tables, shell, runs, ghosts
<1>4. EarlyRequestsOK'
  BY <1>1 DEF IInv, EarlyRequestsOK, EarlyOK, Untouched, tables, shell, runs, ghosts
<1> QED
  BY <1>2, <1>3, <1>4 DEF IInv

(* The members of a group. *)
LEMMA MembersType ==
  ASSUME TypeOK, NEW r \in Requests
  PROVE  req[r].n \in Nat /\ Members(r) \in [1 .. req[r].n -> Procs]
  BY KernelConstants DEF TypeOK, Members, Stage, Procs

(* A cancel that comes before its request is prepared is remembered. *)
LEMMA CancelStep == ASSUME IInv, NEW r \in Requests, Cancel(r) PROVE IInv'
<1>1. PICK pre : pre = IF Live(r) = {} THEN <<>> ELSE RaiseAll(Members(r), "SIGINT")
  OBVIOUS
<1>2. /\ todo' = pre \o todo /\ signals' = signals + 1
      /\ cancelled' = IF (\A p \in Stages(r) : state[p] = "none") \/ Live(r) # {}
                      THEN cancelled \cup {r} ELSE cancelled
      /\ early' = IF /\ drive[r] = "none" /\ registered \cap Stages(r) = {}
                     /\ finished \cap Stages(r) = {}
                  THEN early \cup {r} ELSE early
      /\ UNCHANGED <<req, tables, fg, job, status, committed, latest, runs, exits>>
  BY <1>1 DEF Cancel
<1>3. /\ pre \in Seq(StepSet) /\ InOrder(pre, req)
      /\ \A x \in Elems(pre) : x \in StepSet /\ x.do = "raise" /\ x.with \in Signals
  BY <1>1, MembersType, RaiseSteps, NoStep DEF IInv, Signals
<1>4. /\ Todo' /\ Order' /\ \A i \in DOMAIN todo' : todo'[i].p \in Procs
      /\ StepsOK' /\ ProcsOK' /\ ExitsOK' /\ EntriesOK' /\ JobsOK' /\ TermsOK'
  BY <1>2, <1>3, OnlySignals
<1>5. TypeOK'
  BY <1>2, <1>4 DEF IInv, TypeOK, tables, runs
<1>6. cancelled \subseteq cancelled'
  BY <1>2
<1>7. ASSUME r \notin early, r \in early'
      PROVE  /\ \A p \in Procs : p[1] = r => p \notin invoked
             /\ req[r].kind = "unknown" \/ (Untouched(r) /\ r \in cancelled')
  <2>1. /\ drive[r] = "none" /\ registered \cap Stages(r) = {} /\ finished \cap Stages(r) = {}
    BY <1>2, <1>7
  <2>2. \A p : p \in Stages(r) <=> p \in Procs /\ p[1] = r /\ Member(p)
    BY StageFacts DEF IInv
  <2>3. Lead(r) \in Stages(r)
    BY <2>2, StageFacts DEF IInv
  <2>4. \A p \in Procs : p[1] = r => p \notin invoked
    BY <2>1 DEF IInv, ProcsOK, ProcOK
  <2>5. ASSUME req[r].kind # "unknown" PROVE Untouched(r)
    <3>1. CASE req[r].kind = "ok"
      <4>1. ~Ready(r)
        BY <2>1, <2>2, <2>3 DEF Ready
      <4>2. Owed("prepare", Lead(r))
        BY <3>1, <4>1 DEF IInv, EntriesOK, EntryOK
      <4> QED
        BY <4>2, StageFacts DEF IInv, Owed, StepsOK, StepOK
    <3>2. CASE req[r].kind # "ok"
      BY <2>5, <3>2 DEF IInv, TypeOK, Kinds, EntriesOK, EntryOK
    <3> QED
      BY <3>1, <3>2
  <2>6. r \in cancelled'
    BY <1>2, <2>1, <2>2 DEF IInv, ProcsOK, ProcOK, Live
  <2> QED
    BY <2>4, <2>5, <2>6
<1>8. EarlyRequestsOK'
  <2>1. SUFFICES ASSUME NEW q \in Requests PROVE EarlyOK(q)'
    BY DEF EarlyRequestsOK
  <2>2. q \in early' => q \in early \/ q = r
    BY <1>2
  <2> QED
    BY <1>2, <1>7 DEF IInv, EarlyRequestsOK, EarlyOK, Untouched, tables, runs
<1> QED
  BY <1>4, <1>5, <1>8 DEF IInv

(* Steps in front of others. *)
LEMMA Before ==
  ASSUME NEW S, NEW s \in Seq(S), NEW t \in Seq(S), NEW q, InOrder(s, q), InOrder(t, q),
         \A a \in Elems(s), b \in Elems(t) : MayPrecede(a, b, q)
  PROVE  s \o t \in Seq(S) /\ Elems(s \o t) = Elems(s) \cup Elems(t) /\ InOrder(s \o t, q)
  BY ElemsJoin, InOrderJoin

\* The steps s of an exec of r as n stages, where q is `req` afterwards.
Executes(s, r, n, bg, kind, q) ==
  /\ s \in Seq(StepSet) /\ InOrder(s, q)
  /\ \A x \in Elems(s) :
       /\ x \in StepSet /\ x.p[1] = r /\ kind # "refused"
       /\ \/ x.do = "create" /\ x.p[2] <= n
          \/ x.do = "job" /\ x.p = Lead(r) /\ bg
          \/ x.do = "prepare" /\ x.p = Lead(r) /\ kind = "ok"
          \/ x.do = "run" /\ x.p = Lead(r) /\ kind = "unknown"
          \/ x.do = "finish" /\ x.p = Lead(r) /\ x.with = "fail" /\ kind = "unknown"
          \/ x.do = "jobend" /\ x.p = Lead(r) /\ kind = "unknown" /\ bg
          \/ x.do = "status" /\ x.p = Lead(r) /\ kind = "unknown" /\ ~bg
  /\ bg /\ kind # "refused" => \E x \in Elems(s) : x.do = "job" /\ x.p = Lead(r)
  /\ kind = "ok" => \E x \in Elems(s) : x.do = "prepare" /\ x.p = Lead(r)
  /\ kind = "unknown" =>
       /\ \E x \in Elems(s) : x.do = "finish" /\ x.p = Lead(r)
       /\ bg => \E x \in Elems(s) : x.do = "jobend" /\ x.p = Lead(r)

(* A line whose command is not found. *)
LEMMA UnknownSteps ==
  ASSUME NEW r \in Requests, NEW bg \in BOOLEAN, NEW q, q[r].kind = "unknown"
  PROVE  Executes(ExecSteps(r, 1, bg, "unknown"), r, 1, bg, "unknown", q)
<1> DEFINE c == Step("create", Stage(r, 1))
           j == Step("job", Stage(r, 1))
           u == Step("run", Stage(r, 1))
           f == StepWith("finish", Stage(r, 1), "fail")
           e == IF bg THEN StepWith("jobend", Stage(r, 1), "fail") ELSE Step("status", Stage(r, 1))
<1>1. Lead(r) \in Procs /\ Lead(r)[1] = r /\ Lead(r)[2] = 1 /\ Stage(r, 1) = Lead(r)
  BY KernelConstants DEF Lead, Stage, Procs
<1>2. /\ c \in StepSet /\ c.do = "create" /\ c.p = Lead(r)
      /\ j \in StepSet /\ j.do = "job" /\ j.p = Lead(r)
      /\ u \in StepSet /\ u.do = "run" /\ u.p = Lead(r)
      /\ f \in StepSet /\ f.do = "finish" /\ f.p = Lead(r) /\ f.with = "fail"
      /\ e \in StepSet /\ e.do = (IF bg THEN "jobend" ELSE "status") /\ e.p = Lead(r)
  BY <1>1 DEF Step, StepWith, StepSet, Dos, Results
<1> HIDE DEF c, j, u, f, e
<1> DEFINE s1 == <<c>>
           s2 == IF bg THEN <<j>> ELSE <<>>
           s3 == <<u, f>>
           s4 == <<e>>
<1>3. s1 \in Seq(StepSet) /\ Elems(s1) = {c} /\ InOrder(s1, q)
  BY <1>2, OneStep
<1>4. s2 \in Seq(StepSet) /\ Elems(s2) = (IF bg THEN {j} ELSE {}) /\ InOrder(s2, q)
  BY <1>2, OneStep, NoStep
<1>5. s3 \in Seq(StepSet) /\ Elems(s3) = {u, f} /\ InOrder(s3, q)
  <2>1. s3 \in [1 .. 2 -> StepSet] /\ s3[1] = u /\ s3[2] = f
    BY <1>2
  <2>2. \A a, b \in 1 .. 2 : a < b => a = 1 /\ b = 2
    OBVIOUS
  <2>3. MayPrecede(u, f, q)
    BY <1>2 DEF MayPrecede
  <2> HIDE DEF s3
  <2>4. s3 \in Seq(StepSet) /\ Elems(s3) = {s3[i] : i \in 1 .. 2} /\ InOrder(s3, q)
    BY <2>1, <2>2, <2>3, StageSteps
  <2> QED
    BY <2>1, <2>4
<1>6. s4 \in Seq(StepSet) /\ Elems(s4) = {e} /\ InOrder(s4, q)
  BY <1>2, OneStep
<1> HIDE DEF s1, s2, s3, s4
<1> DEFINE s12 == s1 \o s2
           s123 == s12 \o s3
<1>7. s12 \in Seq(StepSet) /\ Elems(s12) = Elems(s1) \cup Elems(s2) /\ InOrder(s12, q)
  <2>1. \A a \in Elems(s1), b \in Elems(s2) : MayPrecede(a, b, q)
    BY <1>2, <1>3, <1>4 DEF MayPrecede
  <2> QED
    BY <1>3, <1>4, <2>1, Before
<1> HIDE DEF s12
<1>8. s123 \in Seq(StepSet) /\ Elems(s123) = Elems(s12) \cup Elems(s3) /\ InOrder(s123, q)
  <2>1. \A a \in Elems(s12), b \in Elems(s3) : MayPrecede(a, b, q)
    BY <1>2, <1>3, <1>4, <1>5, <1>7 DEF MayPrecede
  <2> QED
    BY <1>5, <1>7, <2>1, Before
<1> HIDE DEF s123
<1>9. /\ s123 \o s4 \in Seq(StepSet) /\ InOrder(s123 \o s4, q)
      /\ Elems(s123 \o s4) = Elems(s123) \cup Elems(s4)
  <2>1. \A a \in Elems(s123), b \in Elems(s4) : MayPrecede(a, b, q)
    BY <1>1, <1>2, <1>6 DEF MayPrecede
  <2> QED
    BY <1>6, <1>8, <2>1, Before
<1>10. ExecSteps(r, 1, bg, "unknown") = s123 \o s4
  BY DEF ExecSteps, s123, s12, s1, s2, s3, s4, c, j, u, f, e
<1> DEFINE s == s123 \o s4
<1>11. Elems(s) = {c, u, f, e} \cup (IF bg THEN {j} ELSE {})
  BY <1>3, <1>4, <1>5, <1>6, <1>7, <1>8, <1>9
<1>12. s \in Seq(StepSet) /\ InOrder(s, q)
  BY <1>9
<1> HIDE DEF s
<1>13. Executes(s, r, 1, bg, "unknown", q)
  BY <1>1, <1>2, <1>11, <1>12 DEF Executes
<1> QED
  BY <1>10, <1>13 DEF s

(* A line that can be run. *)
LEMMA OkSteps ==
  ASSUME NEW r \in Requests, NEW n \in 1 .. MaxStages, NEW bg \in BOOLEAN, NEW q
  PROVE  Executes(ExecSteps(r, n, bg, "ok"), r, n, bg, "ok", q)
<1> DEFINE s1 == ForStages("create", r, n)
           j == Step("job", Stage(r, 1))
           e == Step("prepare", Stage(r, 1))
           s2 == IF bg THEN <<j>> ELSE <<>>
           s3 == <<e>>
<1>1. n \in Nat /\ n \in 1 .. n
  BY KernelConstants
<1>2. \A i \in 1 .. n : /\ Stage(r, i) \in Procs /\ Stage(r, i)[1] = r /\ Stage(r, i)[2] = i
  BY KernelConstants DEF Stage, Procs
<1>3. Lead(r) \in Procs /\ Lead(r)[1] = r /\ Stage(r, 1) = Lead(r)
  BY KernelConstants DEF Lead, Stage, Procs
<1>4. /\ j \in StepSet /\ j.do = "job" /\ j.p = Lead(r)
      /\ e \in StepSet /\ e.do = "prepare" /\ e.p = Lead(r)
  BY <1>3 DEF Step, StepSet, Dos
<1>5. \A i \in 1 .. n : /\ s1[i] \in StepSet /\ s1[i].do = "create" /\ s1[i].p = Stage(r, i)
  BY <1>2 DEF ForStages, Step, StepSet, Dos
<1>6. s1 \in [1 .. n -> StepSet]
  BY <1>5 DEF ForStages
<1> HIDE DEF s1, j, e
<1>7. s1 \in Seq(StepSet) /\ Elems(s1) = {s1[i] : i \in 1 .. n} /\ InOrder(s1, q)
  <2>1. \A a, b \in 1 .. n : a < b => MayPrecede(s1[a], s1[b], q)
    BY <1>2, <1>5 DEF MayPrecede
  <2> QED
    BY <1>1, <1>6, <2>1, StageSteps
<1>8. s2 \in Seq(StepSet) /\ Elems(s2) = (IF bg THEN {j} ELSE {}) /\ InOrder(s2, q)
  BY <1>4, OneStep, NoStep
<1>9. s3 \in Seq(StepSet) /\ Elems(s3) = {e} /\ InOrder(s3, q)
  BY <1>4, OneStep
<1> HIDE DEF s2, s3
<1> DEFINE s12 == s1 \o s2
<1>10. s12 \in Seq(StepSet) /\ Elems(s12) = Elems(s1) \cup Elems(s2) /\ InOrder(s12, q)
  <2>1. \A a \in Elems(s1), b \in Elems(s2) : MayPrecede(a, b, q)
    BY <1>4, <1>5, <1>7, <1>8 DEF MayPrecede
  <2> QED
    BY <1>7, <1>8, <2>1, Before
<1> HIDE DEF s12
<1>11. /\ s12 \o s3 \in Seq(StepSet) /\ InOrder(s12 \o s3, q)
       /\ Elems(s12 \o s3) = Elems(s12) \cup Elems(s3)
  <2>1. \A a \in Elems(s12), b \in Elems(s3) : MayPrecede(a, b, q)
    BY <1>4, <1>5, <1>7, <1>8, <1>9, <1>10 DEF MayPrecede
  <2> QED
    BY <1>9, <1>10, <2>1, Before
<1>12. ExecSteps(r, n, bg, "ok") = s12 \o s3
  BY DEF ExecSteps, s12, s1, s2, s3, j, e
<1> DEFINE s == s12 \o s3
<1>13. Elems(s) = {s1[i] : i \in 1 .. n} \cup {e} \cup (IF bg THEN {j} ELSE {})
  BY <1>7, <1>8, <1>9, <1>10, <1>11
<1>14. s \in Seq(StepSet) /\ InOrder(s, q)
  BY <1>11
<1> HIDE DEF s
<1>15. Executes(s, r, n, bg, "ok", q)
  BY <1>2, <1>3, <1>4, <1>5, <1>13, <1>14 DEF Executes
<1> QED
  BY <1>12, <1>15 DEF s

(* An exec finds nothing of its request but signals that will reach no one. *)
LEMMA ExecStep ==
  ASSUME IInv, NEW r \in Requests, NEW t \in Terminals, NEW n \in 1 .. MaxStages,
         NEW bg \in BOOLEAN, NEW kind \in Kinds, Exec(r, t, n, bg, kind)
  PROVE  IInv'
<1>1. PICK pre : pre = ExecSteps(r, n, bg, kind)
  OBVIOUS
<1>2. /\ req[r].kind = "none" /\ (kind # "ok" => n = 1)
      /\ req' = [req EXCEPT ![r] = [n |-> n, bg |-> bg, kind |-> kind, term |-> t]]
      /\ todo' = pre \o todo
      /\ UNCHANGED <<tables, shell, runs, signals, ghosts>>
  BY <1>1 DEF Exec
<1>3. /\ req' \in [Requests -> [n : 1 .. MaxStages, bg : BOOLEAN, kind : Kinds \cup {"none"},
                                term : Terminals]]
      /\ req'[r].kind = kind /\ req'[r].n = n /\ req'[r].bg = bg
      /\ \A q \in Requests : q # r => req'[q] = req[q]
  BY <1>2 DEF IInv, TypeOK
<1>4. /\ Untouched(r) /\ job[r] = "none" /\ drive[r] = "none"
      /\ \A p \in Procs : p[1] = r => state[p] = "none" /\ exits[p] = 0
  BY <1>2 DEF IInv, EntriesOK, EntryOK, ProcsOK, ProcOK, Untouched
<1>5. \A b \in Elems(todo) : b \in StepSet /\ b.p \in Procs /\ (b.p[1] = r => b.do = "raise")
  <2>1. \A b \in Elems(todo) : b \in StepSet /\ StepOK(b)
    BY DEF IInv, Todo, StepsOK, Elems
  <2> QED
    BY <1>2, <1>4, <2>1 DEF StepOK, StepSet, Dos, Known, Ready, Untouched
<1>6. Executes(pre, r, n, bg, kind, req')
  <2>1. CASE kind = "refused"
    BY <1>1, <2>1, NoStep DEF ExecSteps, Executes
  <2>2. CASE kind = "unknown"
    <3>1. n = 1 /\ req'[r].kind = "unknown"
      BY <1>2, <1>3, <2>2
    <3>2. Executes(ExecSteps(r, 1, bg, "unknown"), r, 1, bg, "unknown", req')
      BY <3>1, UnknownSteps
    <3> QED
      BY <1>1, <2>2, <3>1, <3>2
  <2>3. CASE kind = "ok"
    BY <1>1, <2>3, OkSteps
  <2> QED
    BY <2>1, <2>2, <2>3 DEF Kinds
<1>7. InOrder(todo, req')
  <2>1. todo \in Seq(StepSet) /\ InOrder(todo, req)
    BY DEF IInv, Todo, Order
  <2>2. SUFFICES ASSUME NEW i \in DOMAIN todo, NEW j \in DOMAIN todo, i < j
                 PROVE  MayPrecede(todo[i], todo[j], req')
    BY DEF InOrder
  <2>3. todo[i] \in Elems(todo) /\ todo[j] \in Elems(todo) /\ MayPrecede(todo[i], todo[j], req)
    BY <2>1, <2>2 DEF Elems, InOrder
  <2>4. CASE todo[j].p[1] = r
    BY <1>5, <2>3, <2>4 DEF MayPrecede
  <2>5. CASE todo[j].p[1] # r
    BY <1>3, <1>5, <2>3, <2>5, ProcFacts DEF MayPrecede
  <2> QED
    BY <2>4, <2>5
<1>8. /\ NowWaiting(Elems(pre) \cup Elems(todo))
      /\ \A d, p : Owed(d, p) => Owed(d, p)'
      /\ \A a \in Elems(pre) : Owed(a.do, a.p)'
  <2>1. \A a \in Elems(pre), b \in Elems(todo) : MayPrecede(a, b, req')
    BY <1>5, <1>6 DEF Executes, MayPrecede
  <2>2. pre \in Seq(StepSet) /\ InOrder(pre, req')
    BY <1>6 DEF Executes
  <2> QED
    BY <1>2, <1>7, <2>1, <2>2, Asked
<1>9. /\ \A q \in Requests : Lead(q) \in Procs /\ Lead(q)[1] = q /\ Lead(q)[2] = 1
      /\ \A p \in Procs : p[1] = r /\ p[2] = 1 => p = Lead(r)
  BY StageFacts, ProcFacts DEF IInv
<1>10. /\ bg /\ kind # "refused" => Owed("job", Lead(r))'
       /\ kind = "ok" => Owed("prepare", Lead(r))'
       /\ kind = "unknown" => Owed("finish", Lead(r))' /\ (bg => Owed("jobend", Lead(r))')
  BY <1>6, <1>8 DEF Executes
<1>11. TypeOK'
  BY <1>2, <1>8 DEF IInv, TypeOK, NowWaiting, tables, shell, runs, ghosts
<1>12. StepsOK'
  <2>1. ASSUME NEW s \in Elems(todo) PROVE StepOK(s)'
    <3>1. StepOK(s) /\ s.p[1] \in Requests
      BY <1>5, ProcFacts DEF IInv, StepsOK
    <3>2. CASE s.p[1] = r
      BY <1>5, <3>1, <3>2 DEF StepOK
    <3>3. CASE s.p[1] # r
      BY <1>2, <3>1 DEF StepOK, Known, Member, Untouched, Ready, tables, shell, runs, ghosts
    <3> QED
      BY <3>2, <3>3
  <2>2. ASSUME NEW s \in Elems(pre) PROVE StepOK(s)'
    <3>1. /\ s \in StepSet /\ s.p \in Procs /\ s.p[1] = r /\ s.p[2] >= 1
      BY <1>6, ProcFacts DEF Executes, StepSet
    <3>2. Untouched(r)' /\ job'[r] = "none" /\ state'[s.p] = "none"
      BY <1>2, <1>4, <3>1 DEF Untouched, tables, shell, runs
    <3>3. /\ s.p[1] = r /\ kind # "refused"
          /\ \/ s.do = "create" /\ s.p[2] <= n
             \/ s.do = "job" /\ s.p = Lead(r) /\ bg
             \/ s.do = "prepare" /\ s.p = Lead(r) /\ kind = "ok"
             \/ s.do = "run" /\ s.p = Lead(r) /\ kind = "unknown"
             \/ s.do = "finish" /\ s.p = Lead(r) /\ s.with = "fail" /\ kind = "unknown"
             \/ s.do = "jobend" /\ s.p = Lead(r) /\ kind = "unknown" /\ bg
             \/ s.do = "status" /\ s.p = Lead(r) /\ kind = "unknown" /\ ~bg
      BY <1>6 DEF Executes
    <3>4. /\ Known(r)' /\ req'[r].kind = kind /\ req'[r].bg = bg
          /\ (s.p[2] <= n => Member(s.p)') /\ 1 <= n /\ Lead(r)[2] = 1
      BY <1>3, <1>9, <3>3, KernelConstants DEF Known, Member, Kinds
    <3> QED
      BY <1>2, <3>2, <3>3, <3>4 DEF StepOK, Results
  <2> QED
    BY <1>8, <2>1, <2>2 DEF StepsOK, NowWaiting
<1>13. ProcsOK'
  <2>1. SUFFICES ASSUME NEW p \in Procs PROVE ProcOK(p)'
    BY DEF ProcsOK
  <2>2. ProcOK(p) /\ p[1] \in Requests
    BY ProcFacts DEF IInv, ProcsOK
  <2>3. CASE p[1] = r
    BY <1>2, <1>4, <2>3 DEF ProcOK, Untouched, tables, runs, ghosts
  <2>4. CASE p[1] # r
    BY <1>2, <1>8, <2>2 DEF ProcOK, Known, Member, Ready, tables, runs, ghosts
  <2> QED
    BY <2>3, <2>4
<1>14. ExitsOK'
  <2>1. SUFFICES ASSUME NEW p \in Procs PROVE ExitOK(p)'
    BY DEF ExitsOK
  <2>2. ExitOK(p) /\ p[1] \in Requests /\ p[2] \in 1 .. MaxStages
    BY ProcFacts DEF IInv, ExitsOK
  <2>3. CASE p[1] = r
    BY <1>2, <1>4, <1>9, <1>10, <2>2, <2>3 DEF ExitOK, Member, Untouched, tables, runs
  <2>4. CASE p[1] # r
    BY <1>2, <1>8, <2>2, <2>4 DEF ExitOK, Member, tables, shell, runs
  <2> QED
    BY <2>3, <2>4
<1>15. EntriesOK'
  <2>1. SUFFICES ASSUME NEW q \in Requests PROVE EntryOK(q)'
    BY DEF EntriesOK
  <2>2. EntryOK(q)
    BY DEF IInv, EntriesOK
  <2>3. CASE q = r
    BY <1>2, <1>3, <1>4, <1>10, <2>3 DEF EntryOK, Untouched, tables, shell, runs
  <2>4. CASE q # r
    BY <1>2, <1>8, <2>2, <2>4 DEF EntryOK, Untouched, Ready, Member, tables, shell, runs
  <2> QED
    BY <2>3, <2>4
<1>16. JobsOK'
  <2>1. SUFFICES ASSUME NEW q \in Requests PROVE JobOK(q)'
    BY DEF JobsOK
  <2>2. JobOK(q)
    BY DEF IInv, JobsOK
  <2>3. CASE q = r
    BY <1>2, <1>4, <1>10, <2>3 DEF JobOK, Known, shell
  <2>4. CASE q # r
    BY <1>2, <1>8, <2>2, <2>4 DEF JobOK, Known, tables, shell, runs
  <2> QED
    BY <2>3, <2>4
<1>17. EarlyRequestsOK'
  BY <1>2 DEF IInv, EarlyRequestsOK, EarlyOK, Untouched, tables, shell, runs, ghosts
<1>18. TermsOK'
  <2>1. SUFFICES ASSUME NEW x \in Terminals PROVE TermOK(x)'
    BY DEF TermsOK
  <2>2. TermOK(x) /\ latest[x] \in Requests \cup {None}
    BY DEF IInv, TypeOK, TermsOK
  <2>3. latest[x] # r
    BY <1>2, <2>2, KernelConstants DEF TermOK, Ready
  <2> QED
    BY <1>2, <2>2 DEF TermOK, Ready, Member, tables, shell
<1> QED
  BY <1>8, <1>11, <1>12, <1>13, <1>14, <1>15, <1>16, <1>17, <1>18 DEF IInv, NowWaiting

(* A request of the page, or of a listener. *)
LEMMA RequestStep == ASSUME IInv, Request PROVE IInv'
<1>1. ASSUME NEW r \in Requests, NEW t \in Terminals, NEW n \in 1 .. MaxStages,
             NEW bg \in BOOLEAN, NEW kind \in Kinds, Exec(r, t, n, bg, kind)
      PROVE  IInv'
  BY <1>1, ExecStep
<1>2. ASSUME NEW r \in Requests, Cancel(r) PROVE IInv'
  BY <1>2, CancelStep
<1>3. ASSUME NEW p \in Procs, NEW sig \in Signals, Signal(<<p>>, sig) PROVE IInv'
  <2>1. <<p>> \in [1 .. 1 -> Procs]
    OBVIOUS
  <2> QED
    BY <1>3, <2>1, SignalStep
<1>4. ASSUME NEW r \in Requests, NEW sig \in Signals, Signal(Members(r), sig) PROVE IInv'
  BY <1>4, MembersType, SignalStep DEF IInv
<1>5. ASSUME NEW t \in Terminals, Interrupt(t) PROVE IInv'
  <2>1. fg[t] \in Requests /\ Signal(Members(fg[t]), "SIGINT") /\ "SIGINT" \in Signals
    BY <1>5 DEF Interrupt, IInv, TypeOK, Signals
  <2> QED
    BY <1>4, <2>1
<1> QED
  BY <1>1, <1>2, <1>3, <1>4, <1>5 DEF Request

(* No step of the kernel, of the event loop or of a client breaks it. *)
LEMMA NextKeepsInvariant == ASSUME IInv, [Next]_vars PROVE IInv'
<1>1. CASE Request
  BY <1>1, RequestStep
<1>2. CASE KernelStep
  BY <1>2, CreateStep, StartJobStep, PrepareStep, RunStep, StartStep, RaiseStep,
     FinishStep, ReportStep, StatusStep, EndJobStep, EndStep DEF KernelStep
<1>3. CASE EventLoop
  BY <1>3, EnterStep, SettleStep, DriveEndsStep DEF EventLoop
<1>4. CASE UNCHANGED vars
  <2>1. \A d, p : Owed(d, p)' <=> Owed(d, p)
    BY <1>4 DEF vars, Owed
  <2>2. TypeOK' /\ Todo' /\ Order'
    BY <1>4 DEF IInv, TypeOK, Todo, Order, vars, tables, shell, runs, ghosts
  <2>3. StepsOK'
    BY <1>4 DEF IInv, StepsOK, StepOK, Known, Member, Untouched, Ready, vars, tables,
       shell, runs, ghosts
  <2>4. ProcsOK' /\ ExitsOK'
    BY <1>4, <2>1 DEF IInv, ProcsOK, ProcOK, ExitsOK, ExitOK, Known, Member, Ready, vars,
       tables, shell, runs, ghosts
  <2>5. EntriesOK' /\ JobsOK'
    BY <1>4, <2>1 DEF IInv, EntriesOK, EntryOK, JobsOK, JobOK, Known, Member, Untouched,
       Ready, vars, tables, shell, runs
  <2>6. EarlyRequestsOK' /\ TermsOK'
    BY <1>4 DEF IInv, EarlyRequestsOK, EarlyOK, TermsOK, TermOK, Member, Untouched, Ready,
       vars, tables, shell, runs, ghosts
  <2> QED
    BY <2>2, <2>3, <2>4, <2>5, <2>6 DEF IInv
<1> QED
  BY <1>1, <1>2, <1>3, <1>4 DEF Next

(* Before the first request nothing waits and nothing has happened. *)
LEMMA InitInvariant == ASSUME Init PROVE IInv
<1>1. NoReq \in [n : 1 .. MaxStages, bg : BOOLEAN, kind : Kinds \cup {"none"}, term : Terminals]
  BY KernelConstants DEF NoReq
<1>2. todo = <<>> /\ Elems(todo) = {} /\ Todo /\ Order
  BY NoStep DEF Init, Todo, Order
<1>3. TypeOK
  BY <1>1, <1>2 DEF Init, TypeOK
<1>4. \A r \in Requests : req[r].kind = "none" /\ req[r].n = 1 /\ drive[r] = "none"
  BY DEF Init, NoReq
<1>5. StepsOK /\ ProcsOK /\ ExitsOK
  <2>1. StepsOK
    BY <1>2 DEF StepsOK
  <2>2. ASSUME NEW p \in Procs PROVE ProcOK(p) /\ ExitOK(p)
    <3>1. /\ p[1] \in Requests /\ state[p] = "none" /\ exits[p] = 0 /\ code[p] = "none"
          /\ p \notin finished /\ p \notin registered /\ p \notin invoked /\ delivered[p] = "none"
      BY ProcFacts DEF Init
    <3> QED
      BY <1>4, <3>1 DEF ProcOK, ExitOK
  <2> QED
    BY <2>1, <2>2 DEF ProcsOK, ExitsOK
<1>6. EntriesOK /\ JobsOK /\ EarlyRequestsOK /\ TermsOK
  BY DEF Init, EntriesOK, EntryOK, JobsOK, JobOK, EarlyRequestsOK, EarlyOK, TermsOK,
     TermOK, NoReq, Untouched
<1> QED
  BY <1>2, <1>3, <1>5, <1>6 DEF IInv

-----------------------------------------------------------------------------
(* What follows.                                                           *)

(* Between two calls the kernel owes nothing. *)
LEMMA NothingOwed == ASSUME Quiet PROVE \A d, p : ~Owed(d, p)
  BY NoStep DEF Quiet, Owed

(* The invariant of the process core: what each waiting step of a call     *)
(* expects of the process, job and terminal tables, and what the kernel    *)
(* still owes where a table is not yet what it will be.                    *)
THEOREM Invariant == Spec => []IInv
<1>1. Init => IInv
  BY InitInvariant
<1>2. IInv /\ [Next]_vars => IInv'
  BY NextKeepsInvariant
<1> QED
  BY <1>1, <1>2, PTL DEF Spec

(* Every table of the kernel holds what its declaration says, whatever     *)
(* requests come in whatever order, from the page or from a listener.      *)
THEOREM TypesHold == Spec => []TypeOK
<1>1. IInv => TypeOK
  BY DEF IInv
<1> QED
  BY <1>1, Invariant, PTL

(* Of no process are two exits published, whatever kill, cancel and late   *)
(* return meet, and none is missing once its request has ended (finish).   *)
THEOREM ExactlyOneExit == Spec => []OneExit
<1>1. ASSUME IInv PROVE OneExit
  <2>1. \A p \in Procs : exits[p] <= 1
    BY <1>1 DEF IInv, ProcsOK, ProcOK
  <2>2. ASSUME NEW r \in Submitted, Ended(r), NEW p \in Stages(r) PROVE exits[p] = 1
    <3>1. p \in Procs /\ p[1] = r /\ Member(p) /\ r \in Requests
      BY <1>1, <2>2, StageFacts DEF IInv, Submitted
    <3>2. p \in finished
      BY <1>1, <2>2, <3>1, NothingOwed DEF IInv, ExitsOK, ExitOK, Ended
    <3> QED
      BY <1>1, <2>2, <3>1, <3>2, NothingOwed DEF IInv, ProcsOK, ProcOK, Ended
  <2> QED
    BY <2>1, <2>2 DEF OneExit
<1> QED
  BY <1>1, Invariant, PTL

(* A request whose cancellation came before its stages could be signalled  *)
(* enters no command, though the cancel finds nothing to deliver it to.    *)
THEOREM EarlyCancelsHold == Spec => []EarlyCancelNeverRuns
<1>1. ASSUME IInv PROVE EarlyCancelNeverRuns
  <2>1. \A r \in early : r \in Requests /\ \A p \in Stages(r) : p \in Procs /\ p[1] = r
    BY <1>1, StageFacts DEF IInv, TypeOK
  <2> QED
    BY <1>1, <2>1 DEF IInv, EarlyRequestsOK, EarlyOK, EarlyCancelNeverRuns
<1> QED
  BY <1>1, Invariant, PTL

(* $? is written before any exit it describes is published (teardown),     *)
(* but for the exit of a kill.                                             *)
THEOREM StatusComesFirst == Spec => []StatusBeforeExit
<1>1. ASSUME IInv PROVE StatusBeforeExit
  <2>1. SUFFICES ASSUME NEW r \in Submitted, req[r].kind = "ok", ~req[r].bg,
                        NEW p \in Stages(r), exits[p] > 0, code[p] # "SIGKILL"
                 PROVE  r \in committed
    BY DEF StatusBeforeExit
  <2>2. p \in Procs /\ p[1] = r /\ Member(p)
    BY <1>1, StageFacts DEF IInv, Submitted
  <2>3. p \in finished
    BY <1>1, <2>1, <2>2 DEF IInv, ProcsOK, ProcOK
  <2> QED
    BY <1>1, <2>1, <2>2, <2>3 DEF IInv, ExitsOK, ExitOK
<1> QED
  BY <1>1, Invariant, PTL

(* Ctrl+C reaches the last foreground pipeline of the terminal while any   *)
(* stage of it can be signalled: a pipeline that ends takes the foreground *)
(* from no other.                                                          *)
THEOREM CtrlCFindsLatest == Spec => []CtrlCReachesLatest
<1>1. ASSUME IInv PROVE CtrlCReachesLatest
  <2>1. SUFFICES ASSUME NEW t \in Terminals, latest[t] # None,
                        Stages(latest[t]) \cap registered # {}
                 PROVE  fg[t] = latest[t]
    BY DEF CtrlCReachesLatest
  <2>2. latest[t] \in Requests
    BY <1>1, <2>1 DEF IInv, TypeOK
  <2>3. PICK p \in registered : p \in Procs /\ p[1] = latest[t]
    BY <1>1, <2>1, <2>2, StageFacts DEF IInv
  <2> QED
    BY <1>1, <2>1, <2>3 DEF IInv, TermsOK, TermOK
<1> QED
  BY <1>1, Invariant, PTL

(* A job is Running exactly while its pipeline has not ended and no stage  *)
(* of it was stopped (JobManager.finish, called from three places).        *)
THEOREM JobsTellTheTruth == Spec => []JobTellsTheTruth
<1>1. ASSUME IInv PROVE JobTellsTheTruth
  <2>1. SUFFICES ASSUME Quiet, NEW r \in Submitted, req[r].bg, req[r].kind # "refused"
                 PROVE  job[r] = "Running" <=>
                          ~Ended(r) /\ \A p \in Stages(r) : code[p] \notin Signals
    BY DEF JobTellsTheTruth
  <2>2. /\ r \in Requests /\ Known(r) /\ JobOK(r)
        /\ \A p : p \in Stages(r) <=> p \in Procs /\ p[1] = r /\ Member(p)
    BY <1>1, <2>1, StageFacts DEF IInv, TypeOK, Kinds, Submitted, Known, JobsOK
  <2>3. ASSUME job[r] = "Running"
        PROVE  ~Ended(r) /\ \A p \in Stages(r) : code[p] \notin Signals
    BY <2>1, <2>2, <2>3, NothingOwed DEF JobOK, Ended
  <2>4. ASSUME job[r] # "Running", ~Ended(r)
        PROVE  \E p \in Stages(r) : code[p] \in Signals
    <3>1. PICK p \in Procs : p[1] = r /\ code[p] \in Signals
      BY <2>1, <2>2, <2>4, NothingOwed DEF JobOK, Ended
    <3>2. Member(p)
      BY <1>1, <3>1 DEF IInv, ProcsOK, ProcOK, Signals
    <3> QED
      BY <2>2, <3>1, <3>2
  <2> QED
    BY <2>3, <2>4
<1> QED
  BY <1>1, Invariant, PTL

(* By the end of the call that delivers a kill the process has exited.     *)
THEOREM KillsAreFinal == Spec => []KillIsNotIgnored
<1>1. ASSUME IInv PROVE KillIsNotIgnored
  BY <1>1, NothingOwed DEF IInv, ProcsOK, ProcOK, KillIsNotIgnored
<1> QED
  BY <1>1, Invariant, PTL

(* The state of an exited process and what it exited with never change: a  *)
(* command that returns after it was killed is not reported again.         *)
THEOREM ExitsAreFinal == Spec => FirstExitWins
<1>1. ASSUME IInv, Next, NEW p \in Procs, state[p] = "exited"
      PROVE  state'[p] = "exited" /\ code'[p] = code[p]
  <2>1. p \in finished /\ ~Untouched(p[1])
    BY <1>1 DEF IInv, ProcsOK, ProcOK, Untouched
  <2>2. CASE Request
    BY <1>1, <2>2 DEF Request, Exec, Cancel, Interrupt, Signal, tables
  <2>3. CASE EventLoop
    BY <1>1, <2>3 DEF EventLoop, Enter, Settle, DriveEnds, tables
  <2>4. CASE KernelStep
    <3>1. todo # <<>>
      BY <2>4 DEF KernelStep, Create, StartJob, Prepare, Run, Start, Raise, Finish,
         Report, Status, EndJob, End, Doing
    <3>2. AtHead
      BY <1>1, <3>1, HeadStep
    <3>3. CASE Create
      BY <1>1, <3>2, <3>3 DEF Create, Doing, AtHead, StepOK
    <3>4. CASE Prepare
      <4>1. R # p[1]
        BY <2>1, <3>2, <3>4 DEF Prepare, Doing, AtHead, StepOK
      <4>2. Stage(R, 1) # p
        BY <4>1 DEF Stage
      <4> QED
        BY <1>1, <3>4, <4>2 DEF Prepare, IInv, TypeOK
    <3>5. CASE Run \/ Raise \/ Finish
      BY <1>1, <2>1, <3>5 DEF Run, Raise, Finish, IInv, TypeOK
    <3>6. CASE StartJob \/ Start \/ Report \/ Status \/ EndJob \/ End
      BY <1>1, <3>6 DEF StartJob, Start, Report, Status, EndJob, End, tables
    <3> QED
      BY <2>4, <3>3, <3>4, <3>5, <3>6 DEF KernelStep
  <2> QED
    BY <1>1, <2>2, <2>3, <2>4 DEF Next
<1>2. IInv /\ [Next]_vars =>
        [\A p \in Procs : state[p] = "exited" => state'[p] = "exited" /\ code'[p] = code[p]]_vars
  BY <1>1
<1> QED
  BY <1>2, Invariant, PTL DEF Spec, FirstExitWins
=============================================================================
