---------------------------- MODULE ReadCommands -----------------------------
(***************************************************************************)
(* Get-Content and Select-String: the lines of a file, the window on them, *)
(* the batches, the lines a pattern is found in with what stands around    *)
(* them.  A path is resolved, a file read and a row written with an await  *)
(* between, so another pipeline may change a file, the reader of the rows  *)
(* may leave, and Ctrl+C may come.                                         *)
(*                                                                         *)
(* A file is a sequence of characters (Encodings has the bytes) and a      *)
(* pattern is one of them.  How a path is resolved is ChildItems'; here it *)
(* is one step.  The drives that are not files are left out.               *)
(***************************************************************************)
EXTENDS Integers, Sequences, SequencesExt, FiniteSetsExt, Functions

CONSTANTS
  Disks,       \* the files there may be: from names to [kind, text]
  Asks,        \* the calls: [do, paths, names, raw, bytes, head, last, batch, delimiter,
               \*   patterns, notMatch, list, quiet, pre, post, stream]; -1 is not given
  Meaning,     \* of a pattern of names: the names, in order
  Locked,      \* files nobody may read
  Return, Newline,
  MaxChanges

VARIABLES
  disk, ask,
  phase,             \* "ready", "input", "paths", "emit", "done", "refused" or "cancelled"
  ahead, targets,    \* paths and files still to do
  fed,               \* how much of the pipeline has been read
  todo, writing, out, errors,
  matched,           \* a line has been found
  open, aborted,     \* the reader of the rows is there; Ctrl+C
  texts,             \* what has been read, in order
  stood, changes     \* files nobody has touched since the start

readVars == <<disk, ask, phase, ahead, targets, fed, todo, writing, out, errors, matched, open, aborted,
              texts, stood, changes>>
world == <<disk, stood, changes, open, aborted>>

Outcomes == {"done", "refused", "cancelled"}

TypeOK ==
  /\ phase \in {"ready", "input", "paths", "emit"} \cup Outcomes
  /\ errors \in Nat /\ matched \in BOOLEAN /\ changes \in 0..MaxChanges /\ fed \in 0..Len(ask.stream)

Init ==
  /\ disk \in Disks /\ ask \in Asks /\ phase = "ready" /\ ahead = ask.paths /\ targets = <<>> /\ fed = 0
  /\ todo = <<>> /\ writing = FALSE /\ out = <<>> /\ errors = 0 /\ matched = FALSE
  /\ open = TRUE /\ aborted = FALSE /\ texts = <<>> /\ stood = DOMAIN disk /\ changes = 0

-----------------------------------------------------------------------------
(* Lines, windows and batches. *)

Ended(s) == IF s.line = <<>> THEN s.lines ELSE Append(s.lines, s.line)
Unread == [lines |-> <<>>, line |-> <<>>]
Break(s) == [lines |-> Append(s.lines, s.line), line |-> <<>>]
Join(s, c) == [s EXCEPT !.line = Append(@, c)]

\* slip: a carriage return and the newline after it are two ends.
TwoEnds(text) ==
  Ended(FoldLeft(LAMBDA s, c : IF c \in {Return, Newline} THEN Break(s) ELSE Join(s, c), Unread, text))

\* splitLines: the end of the text ends no line of its own.
SplitLines(text) ==
  Ended(FoldLeft(LAMBDA s, i :
          IF text[i] = Newline /\ i > 1 /\ text[i - 1] = Return THEN s
          ELSE IF text[i] \in {Return, Newline} THEN Break(s) ELSE Join(s, text[i]),
        Unread, [i \in DOMAIN text |-> i]))

SplitOnDelimiter(text, d) ==
  Ended(FoldLeft(LAMBDA s, c : IF c = d THEN Break(s) ELSE Join(s, c), Unread, text))

Least(m, n) == IF m < n THEN m ELSE n

\* slip: -Tail counts from one too early.
TailTooLong(s) ==
  IF ask.last >= 0 THEN SubSeq(s, Len(s) - Least(ask.last, Len(s) - 1), Len(s)) ELSE s

Window(s) ==
  IF ask.head >= 0 THEN SubSeq(s, 1, Least(ask.head, Len(s)))
  ELSE IF ask.last >= 0 THEN SubSeq(s, Len(s) - Least(ask.last, Len(s)) + 1, Len(s))
  ELSE s

\* -ReadCount: one by one, all at once, or so many at a time.
Batched(s) ==
  IF ask.batch \in {-1, 1} THEN s
  ELSE IF ask.batch = 0 THEN (IF s = <<>> THEN <<>> ELSE <<s>>)
  ELSE [k \in 1..(Len(s) + ask.batch - 1) \div ask.batch |->
          SubSeq(s, (k - 1) * ask.batch + 1, Least(k * ask.batch, Len(s)))]

\* What readOne makes of a text.
Contents(text) ==
  IF ask.bytes
  THEN (IF ~ask.raw THEN Window(text) ELSE IF text = <<>> THEN <<>> ELSE <<text>>)
  ELSE IF ask.raw THEN (IF text = <<>> THEN <<>> ELSE <<text>>)
  ELSE Batched(Window(IF ask.delimiter = "" THEN SplitLines(text) ELSE SplitOnDelimiter(text, ask.delimiter)))

-----------------------------------------------------------------------------
(* Finding. *)

Hits(line) == SelectSeq(ask.patterns, LAMBDA c : c \in Range(line))
Keeps(line) == (Hits(line) = <<>>) = ask.notMatch
Answers == ask.quiet /\ ~ask.list

\* contextObject pads nothing.
MatchInfo(name, lines, i) ==
  [from |-> name, number |-> i, line |-> lines[i],
   pattern |-> IF ask.notMatch THEN Head(ask.patterns) ELSE Head(Hits(lines[i])),
   before |-> SubSeq(lines, IF i > ask.pre THEN i - ask.pre ELSE 1, i - 1),
   after |-> SubSeq(lines, i + 1, Least(i + ask.post, Len(lines)))]

Found(lines) == SelectSeq([i \in DOMAIN lines |-> i], LAMBDA i : Keeps(lines[i]))

\* slip: -Quiet is told by the last file alone.
RowsOfEach(name, lines) ==
  IF Answers THEN IF Found(lines) = <<>> THEN <<"no">> ELSE <<"yes">>
  ELSE LET rows == [k \in DOMAIN Found(lines) |-> MatchInfo(name, lines, Found(lines)[k])]
       IN IF ask.list /\ rows # <<>> THEN <<rows[1]>> ELSE rows

\* scanLines: nothing that it looks at can change while it does.
RowsOf(name, lines) ==
  IF Answers THEN IF Found(lines) = <<>> THEN <<>> ELSE <<"yes">>
  ELSE LET rows == [k \in DOMAIN Found(lines) |-> MatchInfo(name, lines, Found(lines)[k])]
       IN IF ask.list /\ rows # <<>> THEN <<rows[1]>> ELSE rows

-----------------------------------------------------------------------------
(* The commands. *)

\* -TotalCount, -Tail and -Raw do not go together.
Conflict ==
  /\ ask.do = "content"
  /\ (ask.head >= 0 /\ ask.last >= 0) \/ (ask.raw /\ (ask.head >= 0 \/ ask.last >= 0))

Invoke ==
  /\ phase = "ready"
  /\ IF Conflict THEN phase' = "refused" /\ errors' = errors + 1
     ELSE phase' = (IF ask.paths = <<>> THEN "input" ELSE "paths") /\ UNCHANGED errors
  /\ UNCHANGED <<ask, ahead, targets, fed, todo, writing, out, matched, texts, world>>

\* Ctrl+C is looked at before each line.
Scan(name, lines) ==
  /\ texts' = Append(texts, [from |-> name, lines |-> lines])
  /\ IF aborted /\ lines # <<>> THEN phase' = "cancelled" /\ UNCHANGED <<todo, matched>>
     ELSE /\ todo' = RowsOf(name, lines) /\ phase' = "emit"
          /\ matched' = (matched \/ Found(lines) # <<>>)

Use(name, text) ==
  IF ask.do = "string" THEN Scan(name, SplitLines(text))
  ELSE /\ texts' = Append(texts, [from |-> name, text |-> text])
       /\ todo' = Contents(text) /\ phase' = "emit" /\ UNCHANGED matched

\* scanPipeline holds all of its input.
Feed ==
  /\ phase = "input" /\ fed < Len(ask.stream) /\ fed' = fed + 1
  /\ phase' = IF aborted THEN "cancelled" ELSE phase
  /\ UNCHANGED <<ask, ahead, targets, todo, writing, out, errors, matched, texts, world>>

EndOfInput ==
  /\ phase = "input" /\ fed = Len(ask.stream)
  /\ Scan("InputStream", ask.stream)
  /\ UNCHANGED <<ask, ahead, targets, fed, writing, out, errors, world>>

Named(path) == IF path \in DOMAIN Meaning THEN Meaning[path] ELSE <<path>>

\* resolveTargets, and what -Filter, -Include and -Exclude leave.
Resolve ==
  /\ phase = "paths" /\ targets = <<>> /\ ahead # <<>>
  /\ IF aborted THEN phase' = "cancelled" /\ UNCHANGED <<ahead, targets, errors>>
     ELSE LET there == SelectSeq(Named(ahead[1]), LAMBDA n : n \in DOMAIN disk)
              kept  == SelectSeq(there, LAMBDA n : n \in ask.names)
              lost  == there = <<>> /\ (ask.do = "content" \/ ahead[1] \notin DOMAIN Meaning)
          IN /\ targets' = [i \in DOMAIN kept |-> [name |-> kept[i], kind |-> disk[kept[i]].kind]]
             /\ errors' = IF lost \/ (ask.do = "content" /\ there # <<>> /\ kept = <<>>) THEN errors + 1 ELSE errors
             /\ ahead' = Tail(ahead) /\ UNCHANGED phase
  /\ UNCHANGED <<ask, fed, todo, writing, out, matched, texts, world>>

Readable(name) == name \in DOMAIN disk /\ name \notin Locked /\ disk[name].kind = "file"

\* slip: a file that cannot be read ends the command.
EndsThere == phase' = "done" /\ errors' = errors + 1
Complain  == errors' = errors + 1 /\ UNCHANGED phase

\* readOne and scanFile: one error and the next file, but no error for a
\* directory from Select-String.
Read ==
  /\ phase = "paths" /\ targets # <<>> /\ targets' = Tail(targets)
  /\ \/ /\ targets[1].kind = "dir" /\ UNCHANGED <<todo, texts, matched>>
        /\ IF ask.do = "content" THEN Complain ELSE UNCHANGED <<phase, errors>>
     \/ /\ targets[1].kind = "file" /\ ~Readable(targets[1].name)
        /\ Complain /\ UNCHANGED <<todo, texts, matched>>
     \/ /\ targets[1].kind = "file" /\ Readable(targets[1].name)
        /\ Use(targets[1].name, disk[targets[1].name].text) /\ UNCHANGED errors
  /\ UNCHANGED <<ask, ahead, fed, writing, out, world>>

\* emit, which asks before and after; -Quiet needs no more after its answer.
Emit ==
  /\ phase = "emit" /\ ~writing
  /\ IF todo = <<>> THEN phase' = "paths" /\ UNCHANGED <<todo, writing, out>>
     ELSE IF ~open \/ aborted THEN phase' = "done" /\ UNCHANGED <<todo, writing, out>>
     ELSE out' = Append(out, todo[1]) /\ todo' = Tail(todo) /\ writing' = TRUE /\ UNCHANGED phase
  /\ UNCHANGED <<ask, ahead, targets, fed, errors, matched, texts, world>>

Emitted ==
  /\ writing /\ writing' = FALSE
  /\ phase' = IF ~open \/ aborted \/ Answers THEN "done" ELSE "emit"
  /\ UNCHANGED <<ask, ahead, targets, fed, todo, out, errors, matched, texts, world>>

\* After the last path -Quiet says no, unless it said yes.
EndOfPaths ==
  /\ phase = "paths" /\ targets = <<>> /\ ahead = <<>>
  /\ IF ask.do = "string" /\ Answers /\ ~matched
     THEN todo' = <<"no">> /\ phase' = "emit" ELSE phase' = "done" /\ UNCHANGED todo
  /\ UNCHANGED <<ask, ahead, targets, fed, writing, out, errors, matched, texts, world>>

\* Another pipeline writes a file, or removes one.
Change ==
  /\ changes < MaxChanges /\ changes' = changes + 1
  /\ \E name \in DOMAIN disk :
       /\ disk[name].kind = "file" /\ stood' = stood \ {name}
       /\ \/ disk' = [disk EXCEPT ![name].text = Append(@, Newline)]
          \/ disk' = Restrict(disk, DOMAIN disk \ {name})
  /\ UNCHANGED <<open, aborted>>

ReaderLeaves == open /\ open' = FALSE /\ UNCHANGED <<disk, stood, changes, aborted>>
Abort        == ~aborted /\ aborted' = TRUE /\ UNCHANGED <<disk, stood, changes, open>>

Next ==
  \/ Invoke \/ Feed \/ EndOfInput \/ Resolve \/ Read \/ Emit \/ Emitted \/ EndOfPaths
  \/ /\ phase \notin Outcomes /\ (Change \/ ReaderLeaves \/ Abort)
     /\ UNCHANGED <<ask, phase, ahead, targets, fed, todo, writing, out, errors, matched, texts>>

Spec == Init /\ [][Next]_readVars

-----------------------------------------------------------------------------
(* What has been promised. *)

Uncut == phase = "done" /\ open /\ ~aborted

\* The lines of a text, by counting the ends before each of its characters.
LinesBetween(text, ends, marks) ==
  LET line(k) == SelectSeq([p \in DOMAIN text |-> p],
                   LAMBDA p : text[p] \notin marks /\ Cardinality({e \in ends : e < p}) = k - 1)
      count == Cardinality(ends) + IF text # <<>> /\ Len(text) \notin ends THEN 1 ELSE 0
  IN [k \in 1..count |-> [i \in DOMAIN line(k) |-> text[line(k)[i]]]]

TrueLines(text) ==
  IF ask.do = "content" /\ ask.delimiter # ""
  THEN LinesBetween(text, {p \in DOMAIN text : text[p] = ask.delimiter}, {ask.delimiter})
  ELSE LinesBetween(text, {p \in DOMAIN text :
                             \/ text[p] = Newline
                             \/ text[p] = Return /\ ~(p < Len(text) /\ text[p + 1] = Newline)}, {Return, Newline})

Pick(s, P) == LET at == SelectSeq([i \in DOMAIN s |-> i], LAMBDA i : i \in P) IN [k \in DOMAIN at |-> s[at[k]]]
Seen(s) == Pick(s, {i \in DOMAIN s : /\ ask.head < 0 \/ i <= ask.head
                                     /\ ask.last < 0 \/ i > Len(s) - ask.last})
Shown(text) ==
  IF ask.raw THEN (IF text = <<>> THEN <<>> ELSE <<text>>)
  ELSE IF ask.bytes THEN Seen(text)
  ELSE LET lines == Seen(TrueLines(text))
           size  == IF ask.batch = 0 THEN Len(lines) + 1 ELSE ask.batch
           batch(i) == (i - 1) \div size + 1
       IN IF ask.batch \in {-1, 1} THEN lines
          ELSE [k \in {batch(i) : i \in DOMAIN lines} |-> Pick(lines, {i \in DOMAIN lines : batch(i) = k})]

\* Get-Content gives every file it reads its own lines, window and batches, and
\* each of them once.
ContentIsTheFiles ==
  ask.do = "content" =>
    LET all == FlattenSeq([i \in DOMAIN texts |-> Shown(texts[i].text)])
    IN IsPrefix(out, all) /\ (Uncut => out = all)

Holds(line) == \E c \in Range(ask.patterns) : c \in Range(line)
Wanted(lines) == {i \in DOMAIN lines : Holds(lines[i]) # ask.notMatch}

\* Select-String reports every line that its patterns are found in, or every
\* other, with its number and what really stands around it; -List the first
\* of each file.
MatchesAreTheLines ==
  ask.do = "string" /\ ~Answers =>
    LET rows(t) == Pick([i \in DOMAIN t.lines |-> <<t.from, i>>],
                        IF ask.list THEN {i \in Wanted(t.lines) : \A k \in Wanted(t.lines) : i <= k} ELSE Wanted(t.lines))
        all == FlattenSeq([i \in DOMAIN texts |-> rows(texts[i])])
        told == [i \in DOMAIN out |-> <<out[i].from, out[i].number>>]
    IN /\ IsPrefix(told, all) /\ (Uncut => told = all)
       /\ \A row \in Range(out) : \E t \in Range(texts) :
            /\ t.from = row.from /\ row.number \in DOMAIN t.lines /\ IsPrefix(row.before \o <<row.line>> \o row.after,
                 SubSeq(t.lines, row.number - Len(row.before), Len(t.lines)))
            /\ Len(row.before) = ask.pre \/ (Len(row.before) < ask.pre /\ row.number = Len(row.before) + 1)
            /\ Len(row.after) = ask.post \/ (Len(row.after) < ask.post /\ row.number + Len(row.after) = Len(t.lines))

\* -Quiet says one thing, and it is true of everything that has been read.
QuietIsTrue ==
  ask.do = "string" /\ Answers =>
    LET told == IF \E t \in Range(texts) : Wanted(t.lines) # {} THEN <<"yes">> ELSE <<"no">>
    IN out \in {<<>>, told} /\ (Uncut => out = told)

\* A file that is missing, locked or a directory costs one complaint at most and
\* keeps no other from being read; -Quiet alone stops early, at a yes.
NoFileHidesAnother ==
  LET files(path) == {n \in Range(Named(path)) : n \in ask.names /\ n \in DOMAIN disk}
      asked(n) == Cardinality({i \in DOMAIN ask.paths : n \in Range(Named(ask.paths[i]))})
      refuses(n) == ~Readable(n) /\ (disk[n].kind = "file" \/ ask.do = "content")
      complaints(path) ==
        Cardinality({n \in files(path) : refuses(n)})
        + IF /\ files(path) = {} /\ (ask.do = "content" \/ (path \notin DOMAIN Meaning /\ path \notin DOMAIN disk))
          THEN 1 ELSE 0
  IN Uncut /\ ~(Answers /\ matched) /\ ask.paths # <<>> =>
       /\ \A n \in stood : Readable(n) /\ n \in ask.names =>
            Len(SelectSeq(texts, LAMBDA t : t.from = n)) = asked(n)
       /\ changes = 0 => errors = FoldLeft(LAMBDA sum, path : sum + complaints(path), 0, ask.paths)

\* The two commands of this module do what is written above.
ReadSound == ContentIsTheFiles /\ MatchesAreTheLines /\ QuietIsTrue /\ NoFileHidesAnother

=============================================================================
