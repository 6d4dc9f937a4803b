------------------------------ MODULE MCParts -------------------------------
(***************************************************************************)
(* The parts of the shell that keep state of their own, each on its own     *)
(* small instance: one of them behaves, the others stand still.             *)
(***************************************************************************)
EXTENDS Naturals, Sequences, SequencesExt, FiniteSets, TLC

VARIABLE which  \* the part whose behaviour it is

-----------------------------------------------------------------------------
\* StoreMigration: a store opened by an older and a newer build.
VARIABLES slots, flushed, copy, copyFlushed, logged, step, build, using, mem, made, troubles,
          safe, before
migrationVars == <<slots, flushed, copy, copyFlushed, logged, step, build, using, mem, made, troubles,
             safe, before>>
Migration == INSTANCE StoreMigration WITH
    Builds <- {1, 2}, Ladder <- {1}, MaxOps <- 2, MaxGen <- 4, MaxTroubles <- 3

-----------------------------------------------------------------------------
\* StoreElection: three tabs, one of them without locks.
VARIABLES at, leader, handle, opens, faults, leaves, alone
electionVars == <<at, leader, handle, opens, faults, leaves, alone>>
Tabs == {"t1", "t2", "t3"}
Election == INSTANCE StoreElection WITH
    Tabs <- Tabs, WithLocks <- {"t1", "t2"}, MayFollow <- {"t1"}, MaxFaults <- 1, MaxLeaves <- 2

-----------------------------------------------------------------------------
\* MemoryTree: two callers of the tree, on two trees with nodes of somebody else's.
VARIABLES tree, used, flying, rebuilt, lost, plans
treeVars == <<tree, used, flying, rebuilt, lost, plans>>
rwx == {"r", "w", "x"}
rx  == {"r", "x"}
TreeInputs == {<<"a">>, <<"b">>, <<"a", "a">>, <<"a", "b">>, <<"b", "a">>, <<"a", "b", "a">>}
File(data, may, mine, origin) ==
  [kind |-> "file", data |-> data, own |-> IF mine THEN may ELSE rwx, oth |-> IF mine THEN {} ELSE may,
   mine |-> mine, origin |-> origin]
Dir(may, mine, origin) == [File(<<>>, may, mine, origin) EXCEPT !.kind = "dir"]
Trees ==
  { <<"a">> :> Dir(rwx, TRUE, "user") @@ <<"a", "a">> :> File(<<1>>, {"w"}, TRUE, "user")
      @@ <<"a", "b">> :> Dir(rx, TRUE, "user")
      @@ <<"a", "b", "a">> :> File(<<2, 2>>, {"r", "w"}, FALSE, "user"),
    <<"b">> :> Dir(rwx, TRUE, "seed") @@ <<"b", "a">> :> File(<<2, 2>>, rwx, TRUE, "seed")
      @@ <<"a">> :> Dir(rx, FALSE, "seed") }
Tree == INSTANCE MemoryTree WITH
    Inputs <- TreeInputs, PathMax <- 3, Contents <- {<<1>>, <<2, 2>>}, Modes <- {rwx, rx},
    Capacity <- 5, Seeds <- Trees, MaxPlans <- 2

-----------------------------------------------------------------------------
\* SeedOverlay: two releases of the seed, with a file that changes between them.
VARIABLES disk, image, settled, steps
overlayVars == <<disk, image, settled, steps>>
OverlayInputs == {<<"a">>, <<"b">>, <<"a", "a">>, <<"a", "b">>, <<"b", "a">>}
Seeded(data) == File(data, rwx, TRUE, "seed")
Releases ==
  << <<"a">> :> Dir(rwx, TRUE, "seed") @@ <<"a", "a">> :> Seeded(<<1>>)
       @@ <<"b">> :> Dir(rwx, TRUE, "seed") @@ <<"b", "a">> :> Seeded(<<2>>),
     <<"a">> :> Dir(rwx, TRUE, "seed") @@ <<"a", "a">> :> Seeded(<<2, 2>>) >>
Overlay == INSTANCE SeedOverlay WITH
    Inputs <- OverlayInputs, PathMax <- 3, Contents <- {<<3>>}, Modes <- {rwx, {"r"}},
    Images <- Releases, MaxSteps <- 3

-----------------------------------------------------------------------------
\* StorageWorker: three calls of the page in flight.
VARIABLES calls, waiting, inbox, outbox, queue, stage, halves, reading, saved, answers, known,
          alive
workerVars == <<calls, waiting, inbox, outbox, queue, stage, halves, reading, saved, answers, known,
          alive>>
Worker == INSTANCE StorageWorker WITH
    MaxCalls <- 3,
    draft <- reading

-----------------------------------------------------------------------------
\* KernelTransport: two requests over a channel that may lose or repeat an event.
VARIABLES toKernel, toClient, seq, jobs, forgone, pending, owner, lastSeq, gaps, closed, outcomes,
          runs, mishaps
transportVars == <<toKernel, toClient, seq, jobs, forgone, pending, owner, lastSeq, gaps, closed, outcomes,
             runs, mishaps>>
Transport == INSTANCE KernelTransport WITH
    Ids <- {"r1", "r2"}, MaxStages <- 2, MaxCalls <- 2, MaxOutput <- 1, MaxFaults <- 1,
    calls <- runs, faults <- mishaps

-----------------------------------------------------------------------------
\* TextareaInput: an input method of each kind over a history of two lines.
VARIABLES line, composing, menu, search, index, draft, kill, log, field, ime, owing, events
inputVars == <<line, composing, menu, search, index, draft, kill, log, field, ime, owing, events>>
History == << [source |-> <<"b">>, mine |-> TRUE], [source |-> <<"a", "b">>, mine |-> FALSE] >>
Input == INSTANCE TextareaInput WITH
    Letters <- {"a", "b"}, Blank <- "_", Commands <- << <<"a">>, <<"a", "b">> >>, Recalled <- History,
    Capacity <- 2, MaxText <- 2, MaxEvents <- 5

-----------------------------------------------------------------------------
\* JobBuffers: two jobs with buffers of one.
VARIABLES nextId, jobTable, byPid, emitted, taken
jobsVars == <<nextId, jobTable, byPid, emitted, taken>>
Buffers == INSTANCE JobBuffers WITH
    Pids <- {"p1", "p2"}, Limits <- [values |-> 1, errors |-> 1], MaxEmitted <- 3,
    jobs <- jobTable

-----------------------------------------------------------------------------
\* SessionState: three spellings of two names.
VARIABLES drive, canonical, values, copying
sessionVars == <<drive, canonical, values, copying>>
Session == INSTANCE SessionState WITH
    Names <- {"a", "A", "b"}, Fold <- [n \in {"a", "A", "b"} |-> IF n = "A" THEN "a" ELSE n], MaxCopies <- 2

-----------------------------------------------------------------------------
\* WireCopy: every graph of an object, a bag and an array.
VARIABLES graph, memo, stack, charged, outcome
wireVars == <<graph, memo, stack, charged, outcome>>
Nodes == {"n1", "n2", "n3"}
Text  == [kind |-> "array", slots |-> <<"text">>, base |-> FALSE]
Slot  == {"text", "closure"} \cup Nodes
Boxes == {[kind |-> k, slots |-> s, base |-> FALSE] : k \in {"array", "bag"}, s \in SeqOf(Slot, 2)}
Objects == {[kind |-> "object", slots |-> <<"n3", "n2">>, base |-> b] : b \in BOOLEAN}
Bags == {box \in Boxes : box.kind = "bag"}
Graphs == {[n \in Nodes |-> IF n = "n1" THEN one ELSE IF n = "n2" THEN two ELSE Text] :
             one \in Boxes \cup Objects, two \in Bags}
Wire == INSTANCE WireCopy WITH
    Nodes <- Nodes, Graphs <- Graphs, Root <- "n1", MaxNodes <- 6, MaxDepth <- 2

-----------------------------------------------------------------------------
\* Capabilities: a command with one real capability and one that elevates.
VARIABLES elevated, records, asking, verdicts
capabilitiesVars == <<elevated, records, asking, verdicts>>
Manifests ==
  { [capabilities |-> {"write"}, audited |-> FALSE, simulated |-> FALSE],
    [capabilities |-> {"elevate", "read"}, audited |-> TRUE, simulated |-> TRUE] }
Broker == INSTANCE Capabilities WITH
    Manifests <- Manifests, Grants <- {"read", "elevate"}, Real <- {"read", "write"},
    Audited <- {"write", "elevate"}, Elevate <- "elevate", Confers <- {}, MaxAsked <- 3,
    open <- asking, outcomes <- verdicts

-----------------------------------------------------------------------------
\* Encodings: every text of two units that may look like a mark.
VARIABLES text, id, file, asked, shown
encodingsVars == <<text, id, file, asked, shown>>
Units == {0, 65, 233, 254, 255, 8364, 55357, 56832, 65279}
Halves == {65, 55357, 56832}
Written == SeqOf(Units, 2) \cup [1..3 -> Halves]
Codecs == INSTANCE Encodings WITH Texts <- Written

-----------------------------------------------------------------------------
\* FileCommands: two pipelines of the session at work on one tree.
VARIABLES files, here, tasks, stops
commandsVars == <<files, here, tasks, stops>>
A  == <<"a">>
B  == <<"b">>
AA == <<"a", "a">>
AB == <<"a", "b">>
BB == <<"b", "b">>
Own(data) == File(data, {"r", "w"}, TRUE, "user")
Sub == Dir(rwx, TRUE, "user")
Shipped == Dir(rwx, TRUE, "seed")
Homes ==
  { A :> Shipped @@ AA :> Own(<<1>>) @@ AB :> Shipped @@ B :> Sub @@ <<"b", "a">> :> Shipped,
    A :> Shipped @@ AB :> Shipped @@ <<"a", "b", "a">> :> Own(<<1>>)
      @@ B :> File(<<2>>, {"r", "w"}, TRUE, "seed") }
Tasks ==
  "fg" :> [cmd : {"copy", "cp"}, path : {A, B}, to : {A, B, <<>>}, how : {"plain", "recursive"}]
          \cup [cmd : {"move"}, path : {A, AB}, to : {B, BB}, how : {"plain", "overwrite"}]
          \cup [cmd : {"rename"}, path : {B}, to : {A, <<"c">>, AB}, how : {"plain"}]
          \cup [cmd : {"remove", "rm"}, path : {A}, how : {"plain", "recursive"}]
          \cup [cmd : {"set", "add"}, path : {B, AA}, data : {<<3>>}]
          \cup [cmd : {"sweep"}, path : {<<>>}]
  @@
  "bg" :> [cmd : {"new-dir", "new-file", "mkdir"}, path : {AB, BB}, how : {"parents"}]
          \cup [cmd : {"add"}, path : {B, AA}, data : {<<3>>}]
          \cup [cmd : {"move"}, path : {AB}, to : {B}, how : {"plain"}]
          \cup [cmd : {"rm"}, path : {AB, B}, how : {"recursive"}]
          \cup [cmd : {"cd"}, path : {AB}]
Commands == INSTANCE FileCommands WITH
    Jobs <- {"fg", "bg"}, Seeds <- Homes, Places <- {<<>>, <<"a", "b">>}, Asked <- Tasks, Mark <- 0,
    Inputs <- {}, PathMax <- 4, Contents <- {}, Modes <- {},
    tree <- files, jobs <- tasks

-----------------------------------------------------------------------------
\* AnsiStream: every stream of a few characters, cut anywhere.
VARIABLES parser, given, reported
streamVars == <<parser, given, reported>>
Openings == {<<"m", "esc">>, <<"esc", "[">>, <<"esc", "]">>, <<"esc", " ">>, <<"esc", "[", "1", ";">>}
Stream == INSTANCE AnsiStream WITH
    Characters <- {"esc", "bel", "can", "cr", "nul", "c1", "[", "]", "P", " ", "1", ":", ";", "?", "m"},
    Openings <- Openings, MaxGiven <- 5,
    events <- reported

-----------------------------------------------------------------------------
\* TerminalScreen: rows of narrow and wide characters, and a page of two rows.
VARIABLES rows, column, style, trimmed, elements, mirrored, dirty, live, wiped, done
screenVars == <<rows, column, style, trimmed, elements, mirrored, dirty, live, wiped, done>>
Drawn(glyphs) == [text |-> glyphs, style |-> 0]
Wide == <<Drawn(<<"wide">>), Drawn(<<>>)>>
Row == <<Drawn(<<"narrow">>)>> \o Wide \o Wide
FirstPages == {<<Row>>, <<Row, <<>>>>}
Screen == INSTANCE TerminalScreen WITH
    Pages <- FirstPages, Styles <- {0, 1}, Default <- 0, TabWidth <- 4, Cap <- 2, MaxColumn <- 6,
    MaxEvents <- 4

-----------------------------------------------------------------------------
\* ParameterBinding: two commands, and all that may be written after them.
VARIABLES cmdlet, typed
bindingVars == <<cmdlet, typed>>
In(pos, must) == [position |-> pos, mandatory |-> must]
Par(name, aliases, sets) ==
  [name |-> name, aliases |-> aliases, sets |-> sets, switch |-> FALSE, number |-> FALSE, gathers |-> FALSE,
   honours |-> TRUE]
Arg(name, attached, raw) == [kind |-> "parameter", name |-> name, attached |-> attached, text |-> raw]
Val(raw) == [kind |-> "value", text |-> raw]
\* pt (with its short form p), and lt with the alias lp, of which one must be named.
Copier ==
  [parameters |->
     <<Par(<<"p", "t">>, {}, "path" :> In(0, TRUE)), Par(<<"l", "t">>, {<<"l", "p">>}, "literal" :> In(99, TRUE)),
       Par(<<"d">>, {}, "__AllParameterSets" :> In(1, FALSE)),
       [Par(<<"p", "s">>, {}, "__AllParameterSets" :> In(99, FALSE))
          EXCEPT !.switch = TRUE, !.honours = FALSE]>>,
   sets |-> <<"path", "literal">>, default |-> "path", passes |-> FALSE,
   tokens |-> {Val("x"), Val("y"), Arg(<<"p">>, "none", "-p"), Arg(<<"p", "t">>, "none", "-pt"),
               Arg(<<"l">>, "none", "-l"), Arg(<<"d">>, "z", "-d:z"), Arg(<<"p", "s">>, "false", "-ps:$false")}]
\* m is the whole of one name and the start of another; i gathers what is left.
Picker ==
  [parameters |->
     <<[Par(<<"c">>, {}, "list" :> In(99, FALSE) @@ "number" :> In(99, FALSE)) EXCEPT !.number = TRUE],
       [Par(<<"i">>, {}, "list" :> In(0, TRUE) @@ "shuffle" :> In(0, TRUE)) EXCEPT !.gathers = TRUE],
       [Par(<<"m">>, {}, "number" :> In(0, FALSE)) EXCEPT !.number = TRUE],
       Par(<<"m", "i">>, {}, "number" :> In(99, FALSE)),
       [Par(<<"s">>, {}, "shuffle" :> In(99, TRUE)) EXCEPT !.switch = TRUE]>>,
   sets |-> <<"list", "number", "shuffle">>, default |-> "number", passes |-> TRUE,
   tokens |-> {Val("x"), Val("5"), Arg(<<"c">>, "none", "-c"), Arg(<<"m">>, "5", "-m:5"),
               Arg(<<"m", "i">>, "none", "-mi"), Arg(<<"s">>, "none", "-s"), Arg(<<"i">>, "", "-i:")}]
Cmdlets == {Copier, Picker}
Binding == INSTANCE ParameterBinding WITH
    Manifests <- Cmdlets, MaxArgs <- 4,
    manifest <- cmdlet, args <- typed

-----------------------------------------------------------------------------
\* SelectObject: windows on a stream of three objects, a null among them.
VARIABLES window, read, seen, chosen, tail, delay, stopped, seenKeys, unwritten, passed, rejected,
          doing, heard, broken
selectVars == <<window, read, seen, chosen, tail, delay, stopped, seenKeys, unwritten, passed, rejected,
          doing, heard, broken>>
Given(ps) == [p \in ps |-> 1]
Windows ==
  {number @@ more :
     number \in [{"first"} -> 0..2] \cup {Given({}), Given({"last"}), Given({"skipLast"}), Given({"first", "last"})},
     more \in {Given(ps) : ps \in {{"skip"}, {"unique"}, {"unique", "property"}, {"expand"},
                                   {"expand", "unique", "skip"}}}}
  \cup {Given({"last", "skipLast"})}
Stock ==
  {[name |-> "null", inside |-> <<>>], [name |-> "a", inside |-> <<"a", "b">>], [name |-> "b", inside |-> <<"c">>],
   [name |-> "o", inside |-> <<>>], [name |-> "p", inside |-> <<"b">>]}
Select == INSTANCE SelectObject WITH
    Asks <- Windows, Items <- Stock, Plain <- {"a", "b", "c"}, MaxItems <- 3,
    ask <- window, given <- read, taken <- chosen, writing <- unwritten, out <- passed, refused <- rejected, phase <- doing, open <- heard, aborted <- broken

-----------------------------------------------------------------------------
\* VirtualPaths: every path of one or two names, said from every place two names deep.
VARIABLES cwd
pathsVars == <<cwd>>
Paths == INSTANCE VirtualPaths WITH
    Starts <- {"", "/", "~", "Env", "ENV", "Nope"}, Segments <- {"", "..", "h", "x|y", "n:d", "nul"},
    Drives <- [n \in {"Env", "ENV"} |-> "Env"],
    Looks <- "n:d" :> <<"n", "d">> @@ "Env:d" :> <<"Env", "d">>, Backslash <- "x|y" :> <<"x", "y">>,
    Home <- <<"h">>, PathMax <- 5, MaxDepth <- 2

-----------------------------------------------------------------------------
\* TextLayout: every text of narrow, wide and blank clusters, on every width.
VARIABLES paragraph
layoutVars == <<paragraph>>
Layout == INSTANCE TextLayout WITH
    Clusters <- {"n", "w", "s"}, CellWidth <- [c \in {"n", "w", "s"} |-> IF c = "w" THEN 2 ELSE 1],
    Spaces <- {"s"}, MaxText <- 5, MaxWidth <- 5, Columns <- [1..3 -> 0..3],
    text <- paragraph

-----------------------------------------------------------------------------
\* Parser: every line of four of the characters that mean something to one another.
VARIABLES alphabet, lineTyped, lexed
languageVars == <<alphabet, lineTyped, lexed>>
Keyboards ==
  {{"'", "\"", "backtick", "f", " ", "\n"}, {"-", "%", "1", "f", " ", "|", ";", "\n"}, {"2", ">", "&", "1", "<", "#", "\n"},
   {"$", "{", "}", "(", ")", "?", ".", "f", ":", "\n"}, {"@", "'", "\n", " ", "f"}, {"1", "+", ".", "[", "]", "\n", "-"},
   {"f", "q", " ", "-", ":", "|", "&", "$"}}
Language == INSTANCE Parser WITH
    Alphabets <- Keyboards, Letters <- {"f", "q", "_"}, Digits <- {"1", "2"}, Operators <- <<"f">> :> "Format",
    Escapes <- "backtick" :> "backtick" @@ "f" :> "form feed", MaxTyped <- 4,
    Takes <- {<< <<"f">>, <<"f">> >>}, Candidates <- {<<"f">>, <<"f", " ", "'">>, <<"$", "f">>, <<"f", ".", "1">>},
    Keywords <- {<<"q">>}, Literals <- {<<"q">>},
    keys <- alphabet, typed <- lineTyped

-----------------------------------------------------------------------------
\* FollowerView: a second tab reads while the leader logs two mutations, checkpoints, dies and
\* boots again; once the machine may crash.
VARIABLES slot, slotD, wal, walD, pc, ret, cur, leaderTree, generation, active, logLen, unsaved,
          nextMutation, leaderCrashes, diskFaults, wipes, acked, applied, gone, fpc,
          fslot, view, asOf, quiet, hadTrees
followerVars == <<slot, slotD, wal, walD, pc, ret, cur, leaderTree, generation, active, logLen, unsaved,
            nextMutation, leaderCrashes, diskFaults, wipes, acked, applied, gone, fpc,
            fslot, view, asOf, quiet, hadTrees>>
Follower == INSTANCE FollowerView WITH
    MaxOps <- 2, MaxGen <- 3, MaxCrashes <- 1, MaxFaults <- 0, MaxWipes <- 0, LogLimit <- 4,
    tree <- leaderTree, dirty <- unsaved, nextId <- nextMutation, crashes <- leaderCrashes, faults <- diskFaults, seen <- hadTrees

-----------------------------------------------------------------------------
\* ObjectCommands: twenty-one calls of the object commands, three objects each.
VARIABLES orders, received, heldBack, answering, unsaid, saying, saidSoFar, objections, listening,
          calledOff
objectsVars == <<orders, received, heldBack, answering, unsaid, saying, saidSoFar, objections, listening,
           calledOff>>
Datum(kind, spells, n, written) ==
  [kind |-> kind, spells |-> spells, n |-> n, text |-> written, has |-> [p \in {} |-> "none"], elements |-> <<>>]
Nil == Datum("null", "none", 0, "")
One == Datum("number", "number", 1, "1")
Ten == Datum("number", "number", 10, "10")
NaN == Datum("number", "nan", 0, "NaN")
Lower_a == Datum("text", "none", 0, "a")
Upper_a == Datum("text", "none", 0, "A")
Letter_b == Datum("text", "none", 0, "b")
Spelt == Datum("text", "number", 10, "10")
Thing(has) == [Datum("object", "none", 0, "") EXCEPT !.has = has]
Pair == [Datum("list", "none", 0, "1 a") EXCEPT !.elements = <<One, Lower_a>>]
Keyed == {Thing("k" :> One), Thing("k" :> One @@ "j" :> Ten), Thing("k" :> Ten), Thing("k" :> Nil), Thing("j" :> One)}
Texts == {Lower_a, Upper_a, Letter_b, Nil}
Asking(do, by, flags, stream) ==
  [do |-> do, by |-> by, flags |-> flags, op |-> "truthy", given |-> FALSE, value |-> Nil, stream |-> stream]
Test(op, cased, value, stream) ==
  [do |-> "where", by |-> <<"k">>, flags |-> cased, op |-> op, given |-> TRUE, value |-> value,
   stream |-> {Thing("k" :> v) : v \in stream} \cup {Nil}]
Orders ==
  { Asking("sort", <<>>, {"unique"}, Texts), Asking("sort", <<>>, {"cased", "descending"}, {Lower_a, Upper_a, Letter_b}),
    Asking("sort", <<"k">>, {"descending"}, Keyed \ {Thing("k" :> Ten)}), Asking("sort", <<"k", "j">>, {}, Keyed),
    Asking("sort", <<>>, {}, {One, Ten, NaN, Spelt}),
    Asking("group", <<>>, {}, {Lower_a, Upper_a, Spelt, Ten}), Asking("group", <<"k">>, {"cased"}, Keyed \ {Thing("k" :> Ten)}),
    Asking("measure", <<"k">>, {"sum"}, Keyed \ {Thing("k" :> Ten)}), Asking("measure", <<>>, {}, {One, Ten, NaN, Nil}),
    Asking("measure", <<>>, {"sum"}, {One, Spelt, Letter_b}), Asking("measure", <<>>, {"character"}, {Lower_a, Spelt, Nil}),
    Test("ge", {}, One, {One, Ten, NaN, Nil}), Test("lt", {}, Spelt, {One, Lower_a, Letter_b}), Test("le", {}, Letter_b, {One, Lower_a}),
    Test("match", {}, Letter_b, {Letter_b, One}), Asking("where", <<"k">>, {}, Keyed), Asking("measure", <<>>, {"character", "sum"}, {One}),
    [Test("ge", {}, One, {One}) EXCEPT !.given = FALSE], Test("in", {}, Pair, {One, Upper_a}), Test("contains", {}, Upper_a, {Pair, One}),
    Test("match", {}, Spelt, {Letter_b, One}) }
ObjectCmds == INSTANCE ObjectCommands WITH
    Asks <- Orders, Rank <- ("" :> 0 @@ "1" :> 1 @@ "1 a" :> 2 @@ "10" :> 3 @@ "a" :> 4 @@ "A" :> 4 @@ "b" :> 5 @@ "NaN" :> 6),
    Cased <- ("" :> 0 @@ "1" :> 1 @@ "1 a" :> 2 @@ "10" :> 3 @@ "a" :> 4 @@ "A" :> 5 @@ "b" :> 6 @@ "NaN" :> 7),
    Lower <- ("" :> "" @@ "1" :> "1" @@ "1 a" :> "1 a" @@ "10" :> "10" @@ "a" :> "a" @@ "A" :> "a" @@ "b" :> "b" @@ "NaN" :> "nan"),
    Matches <- ("b" :> {"b"}), Size <- ("" :> 0 @@ "1" :> 1 @@ "1 a" :> 3 @@ "10" :> 2 @@ "a" :> 1 @@ "A" :> 1 @@ "b" :> 1 @@ "NaN" :> 3),
    MaxItems <- 3,
    ask <- orders, taken <- received, held <- heldBack, phase <- answering, todo <- unsaid, writing <- saying, out <- saidSoFar, errors <- objections, open <- listening, aborted <- calledOff

-----------------------------------------------------------------------------
\* ReadCommands: eighteen ways to read five names that somebody else changes once.
VARIABLES cabinet, wish, readingAt, pathsAhead, filesAhead, fed, rowsAhead, handingOver, rowsRead,
          refusals, foundOne, present, interrupted, texts, untouched, edits
readingVars == <<cabinet, wish, readingAt, pathsAhead, filesAhead, fed, rowsAhead, handingOver, rowsRead,
           refusals, foundOne, present, interrupted, texts, untouched, edits>>
Paper(written) == [kind |-> "file", text |-> written]
Cabinet ==
  "a" :> Paper(<<"x", "\r", "\n", "y", "x", "\n", "\n", "y">>) @@ "b" :> Paper(<<"y", "\r", "x", "\n">>)
  @@ "c" :> [kind |-> "dir", text |-> <<>>] @@ "d" :> Paper(<<"x">>) @@ "e" :> Paper(<<>>)
Wish(do, where) ==
  [do |-> do, paths |-> where, names |-> {"a", "b", "c", "d", "e"}, raw |-> FALSE, bytes |-> FALSE, head |-> -1, last |-> -1,
   batch |-> -1, delimiter |-> "", patterns |-> <<"x", "y">>, notMatch |-> FALSE, list |-> FALSE, quiet |-> FALSE,
   pre |-> 0, post |-> 0, stream |-> <<>>]
Gets == Wish("content", <<"*">>)
Finds == Wish("string", <<"*">>)
OnlyX == [Finds EXCEPT !.patterns = <<"x">>]
Fed == [OnlyX EXCEPT !.paths = <<>>, !.stream = << <<"y">>, <<"x", "\n", "x">>, <<>> >>]
Wishes ==
  { Gets, Wish("content", <<"b", "z", "c", "b">>), [Wish("content", <<"a", "z*", "e">>) EXCEPT !.names = {"a"}, !.raw = TRUE],
    [Gets EXCEPT !.head = 1], [Gets EXCEPT !.last = 3, !.batch = 2], [Gets EXCEPT !.batch = 0],
    [Gets EXCEPT !.raw = TRUE, !.last = 0], [Wish("content", <<"b", "e">>) EXCEPT !.bytes = TRUE, !.last = 2],
    [Wish("content", <<"b", "e">>) EXCEPT !.bytes = TRUE, !.raw = TRUE], [Wish("content", <<"a">>) EXCEPT !.delimiter = "y"],
    Finds, [OnlyX EXCEPT !.notMatch = TRUE, !.post = 1], [OnlyX EXCEPT !.list = TRUE, !.quiet = TRUE, !.pre = 1, !.post = 2],
    [OnlyX EXCEPT !.quiet = TRUE, !.paths = <<"e", "z", "b">>], [Finds EXCEPT !.patterns = <<"q">>, !.quiet = TRUE, !.paths = <<"a", "z*", "b">>],
    [Fed EXCEPT !.pre = 1, !.post = 1], [Fed EXCEPT !.quiet = TRUE], [Fed EXCEPT !.quiet = TRUE, !.patterns = <<"q">>] }
Reading == INSTANCE ReadCommands WITH
    Disks <- {Cabinet}, Asks <- Wishes, Meaning <- ("*" :> <<"a", "b", "c", "d", "e">> @@ "z*" :> <<"z">>),
    Locked <- {"d"}, Return <- "\r", Newline <- "\n", MaxChanges <- 1,
    disk <- cabinet, ask <- wish, phase <- readingAt, ahead <- pathsAhead, targets <- filesAhead, todo <- rowsAhead, writing <- handingOver, out <- rowsRead, errors <- refusals, matched <- foundOne, open <- present, aborted <- interrupted, stood <- untouched, changes <- edits

-----------------------------------------------------------------------------
\* ChildItems: eleven ways to list one tree that somebody else changes once.
VARIABLES home, query, listing, segments, frontier, matched, targets, todo, inWrite, rowsOut,
          complaints, audience, halted, stood, changes
childrenVars == <<home, query, listing, segments, frontier, matched, targets, todo, inWrite, rowsOut,
            complaints, audience, halted, stood, changes>>
ItemNames == {"a", "b", ".h", "[ab]"}
Wild == "*" :> ItemNames @@ "?*" :> ItemNames @@ "[ab]" :> {"a", "b"}
House ==
  [p \in {<<>>, <<"a">>, <<"a", "b">>, <<"a", ".h">>, <<"[ab]">>} |-> "dir"]
  @@ [p \in {<<"b">>, <<"a", "a">>, <<"a", "b", "a">>, <<"a", ".h", "b">>, <<"[ab]", "b">>} |-> "file"]
Call(say) ==
  [at |-> <<>>, say |-> say, literal |-> FALSE, kinds |-> {"dir", "file"}, names |-> ItemNames, picks |-> "none",
   force |-> FALSE, hiddenOnly |-> FALSE, recurse |-> FALSE, depth |-> 9, name |-> FALSE]
Deep(c) == [c EXCEPT !.recurse = TRUE]
OnlyA(c) == [c EXCEPT !.names = {"a"}, !.picks = "include"]
Queries ==
  { Deep(Call(<<>>)), [Deep(Call(<<>>)) EXCEPT !.force = TRUE, !.depth = 1, !.kinds = {"file"}],
    [Deep(Call(<<"a">>)) EXCEPT !.hiddenOnly = TRUE], Call(<<"*", "?*">>), Deep(Call(<<"[ab]">>)),
    Deep(OnlyA(Call(<<"*">>))), OnlyA(Call(<<>>)), [Call(<<"[ab]">>) EXCEPT !.literal = TRUE],
    [Call(<<"?*">>) EXCEPT !.at = <<"[ab]">>], Call(<<"a", "*">>), Call(<<"b", "a">>) }
Children == INSTANCE ChildItems WITH
    Homes <- {House}, Asks <- Queries, Order <- <<".h", "[ab]", "a", "b">>, Hidden <- {".h"},
    Meaning <- Wild, Star <- "*", Locked <- {<<"a", ".h">>}, MaxChanges <- 1,
    tree <- home, ask <- query, phase <- listing, writing <- inWrite, out <- rowsOut, errors <- complaints, open <- audience, aborted <- halted

-----------------------------------------------------------------------------
Parts == {"migration", "election", "tree", "overlay", "worker", "transport", "input", "jobs",
          "session", "wire", "capabilities", "encodings", "commands", "stream",
          "screen", "binding", "select", "paths", "layout", "language", "follower",
          "objects", "reading", "children"}

\* A part that stands still starts in one of its states.
Here(part, S) == IF which = part THEN S ELSE {CHOOSE x \in S : TRUE}
Init ==
  /\ which \in Parts
  /\ Migration!Init
  /\ Election!Init
  /\ tree \in Here("tree", Trees)
  /\ Tree!Init
  /\ Overlay!Init
  /\ Worker!Init
  /\ Transport!Init
  /\ ime \in Here("input", {[kind |-> k, phase |-> "idle", base |-> Input!Whole(<<>>)] : k \in Input!Kinds})
  /\ Input!Init
  /\ Buffers!Init
  /\ drive \in Here("session", Session!Drives)
  /\ Session!Init
  /\ graph \in Here("wire", Graphs)
  /\ Wire!Init
  /\ Broker!Init
  /\ text \in Here("encodings", Written)
  /\ id \in Here("encodings", Codecs!Ids)
  /\ Codecs!Init
  /\ files \in Here("commands", Homes)
  /\ here \in Here("commands", {<<>>, <<"a", "b">>})
  /\ Commands!Init
  /\ given \in Here("stream", Openings)
  /\ Stream!Init
  /\ rows \in Here("screen", FirstPages)
  /\ Screen!Init
  /\ cmdlet \in Here("binding", Cmdlets)
  /\ Binding!Init
  /\ window \in Here("select", Windows)
  /\ Select!Init
  /\ Paths!Init
  /\ Layout!Init
  /\ alphabet \in Here("language", Keyboards)
  /\ Language!Init
  /\ Follower!FInit
  /\ orders \in Here("objects", Orders)
  /\ ObjectCmds!Init
  /\ wish \in Here("reading", Wishes)
  /\ Reading!Init
  /\ query \in Here("children", Queries)
  /\ Children!Init

Next ==
  /\ UNCHANGED which
  /\ IF which = "migration" THEN Migration!Next ELSE UNCHANGED migrationVars
  /\ IF which = "election" THEN Election!Next ELSE UNCHANGED electionVars
  /\ IF which = "tree" THEN Tree!Next ELSE UNCHANGED treeVars
  /\ IF which = "overlay" THEN Overlay!Next ELSE UNCHANGED overlayVars
  /\ IF which = "worker" THEN Worker!Next ELSE UNCHANGED workerVars
  /\ IF which = "transport" THEN Transport!Next ELSE UNCHANGED transportVars
  /\ IF which = "input" THEN Input!Next ELSE UNCHANGED inputVars
  /\ IF which = "jobs" THEN Buffers!Next ELSE UNCHANGED jobsVars
  /\ IF which = "session" THEN Session!Next ELSE UNCHANGED sessionVars
  /\ IF which = "wire" THEN Wire!Next ELSE UNCHANGED wireVars
  /\ IF which = "capabilities" THEN Broker!Next ELSE UNCHANGED capabilitiesVars
  /\ IF which = "encodings" THEN Codecs!Next ELSE UNCHANGED encodingsVars
  /\ IF which = "commands" THEN Commands!Next ELSE UNCHANGED commandsVars
  /\ IF which = "stream" THEN Stream!Next ELSE UNCHANGED streamVars
  /\ IF which = "screen" THEN Screen!Next ELSE UNCHANGED screenVars
  /\ IF which = "binding" THEN Binding!Next ELSE UNCHANGED bindingVars
  /\ IF which = "select" THEN Select!Next ELSE UNCHANGED selectVars
  /\ IF which = "paths" THEN Paths!Next ELSE UNCHANGED pathsVars
  /\ IF which = "layout" THEN Layout!Next ELSE UNCHANGED layoutVars
  /\ IF which = "language" THEN Language!Next ELSE UNCHANGED languageVars
  /\ IF which = "follower" THEN Follower!FNext ELSE UNCHANGED followerVars
  /\ IF which = "objects" THEN ObjectCmds!Next ELSE UNCHANGED objectsVars
  /\ IF which = "reading" THEN Reading!Next ELSE UNCHANGED readingVars
  /\ IF which = "children" THEN Children!Next ELSE UNCHANGED childrenVars

vars == <<which, migrationVars, electionVars, treeVars, overlayVars, workerVars, transportVars,
          inputVars, jobsVars, sessionVars, wireVars, capabilitiesVars, encodingsVars,
          commandsVars, streamVars, screenVars, bindingVars, selectVars, pathsVars,
          layoutVars, languageVars, followerVars, objectsVars, readingVars, childrenVars>>
Fairness ==
  /\ WF_migrationVars(which = "migration" /\ Migration!Goes)
  /\ \A t \in Tabs : WF_electionVars(which = "election" /\ Election!MountStep(t))
  /\ WF_workerVars(which = "worker" /\ Worker!Works)
  /\ WF_workerVars(which = "worker" /\ Worker!Settle)
  /\ WF_transportVars(which = "transport" /\ Transport!Moves)
  /\ WF_transportVars(which = "transport" /\ Transport!Finishes)
  /\ WF_wireVars(which = "wire" /\ Wire!Next)
Spec == Init /\ [][Next]_vars /\ Fairness

-----------------------------------------------------------------------------
(* The variables of every part keep their shape; a part that stands still keeps
   its first. *)
TypeOK ==
  /\ Migration!TypeOK /\ Election!TypeOK /\ Tree!TypeOK /\ Overlay!TypeOK /\ Worker!TypeOK
  /\ Transport!TypeOK /\ Input!TypeOK /\ Buffers!TypeOK /\ Session!TypeOK /\ Wire!TypeOK
  /\ Broker!TypeOK /\ Codecs!TypeOK /\ Commands!TypeOK /\ Stream!TypeOK /\ Screen!TypeOK
  /\ Binding!TypeOK /\ Select!TypeOK /\ Paths!TypeOK /\ Layout!TypeOK
  /\ Language!TypeOK /\ Follower!TypeOK /\ Children!TypeOK /\ ObjectCmds!TypeOK
  /\ Reading!TypeOK

(* The store on disk and who may touch it: recovery after a death in a migration
   settles on what the newest checkpoint held, in its own version, and one tab
   at a time owns the files and leaves nothing behind (StoreMigration,
   StoreElection). *)
StoreSound ==
  CASE which = "migration" -> Migration!MigrationSafe
    [] which = "election" -> Election!ElectionSafe
    [] OTHER -> TRUE

(* Whatever the leader does between a follower's three reads, its death and its next
   boot included, the follower shows a tree the leader really had (FollowerView). *)
ShowsARealTree == which = "follower" => Follower!ShowsARealTree

(* While the leader only logs mutations, a follower's view holds all that was
   reported when its read began, and nothing that was never applied. *)
QuietReadIsCurrent == which = "follower" => Follower!QuietReadIsCurrent

(* The tree in memory is whole, within its quota and what its log rebuilds, and
   what a reload makes of it is stable (MemoryTree, SeedOverlay). *)
TreeSound ==
  CASE which = "tree" -> Tree!TreeSound
    [] which = "overlay" -> Overlay!ReloadIsStable
    [] OTHER -> TRUE

(* A command gets what was written after its name, each argument once and wherever
   the names stand, and a path names one place however it is assembled; it has done
   to the tree what it reports, or shown the part of the stream it was asked for and
   no later than it could, or listed what was there to be listed (Lexer, Completion,
   Parser, ParameterBinding, VirtualPaths, FileCommands, SelectObject,
   ChildItems, ObjectCommands, ReadCommands). *)
CommandSound ==
  CASE which = "language" -> Language!LexerSound /\ Language!CompletionSound /\ Language!ParserSound
    [] which = "binding" -> Binding!BindingSound
    [] which = "paths" -> Paths!PathsSound
    [] which = "commands" -> Commands!CommandsSound
    [] which = "select" -> Select!SelectSound
    [] which = "children" -> Children!ChildItemsSound
    [] which = "reading" -> Reading!ReadSound
    [] which = "objects" -> ObjectCmds!ObjectsSound
    [] OTHER -> TRUE

(* A call to the storage worker takes effect in order and is answered with a tree
   that existed; a request's outcome is what the kernel published for it, each
   event once (StorageWorker, KernelTransport). *)
CallsSound ==
  CASE which = "worker" -> Worker!WorkerSound
    [] which = "transport" -> Transport!TransportSound
    [] OTHER -> TRUE

(* The hidden field and the line editor agree, and a menu or a draft belongs to
   the line it was made for; what is broken into lines and columns is all there and
   fits; the page shows the rows of the terminal's buffer, and no half of a
   character (TextareaInput, TextLayout, TerminalScreen). *)
ScreenSound ==
  CASE which = "input" -> Input!InputSound
    [] which = "screen" -> Screen!ScreenSound
    [] which = "layout" -> Layout!LayoutSound
    [] OTHER -> TRUE

(* What a session keeps can be accounted for: a job's buffers, the items of the
   drives, the audit log (JobBuffers, SessionState, Capabilities). *)
SessionSound ==
  CASE which = "jobs" -> Buffers!JobsSound
    [] which = "session" -> Session!SessionSound
    [] which = "capabilities" -> Broker!CapabilitiesSound
    [] OTHER -> TRUE

(* What is sent, stored or drawn comes out as it went in, or is refused for a
   reason, however it was cut on the way (WireCopy, Encodings, AnsiStream). *)
BytesSound ==
  CASE which = "wire" -> Wire!WireSound
    [] which = "encodings" -> Codecs!EncodingsSound
    [] which = "stream" -> Stream!StreamSound
    [] OTHER -> TRUE

(* What no step may do: an older build rewrite a newer store, a tree operation
   reach what it does not name or may not read, a reload lose what the user
   made, a command take what it has not seen, a key of an input method edit the
   line, an ended job end again, a key colour what stands before it anew. *)
PartSteps ==
  [][CASE which = "migration" -> Migration!DowngradeOnlyByName
       [] which = "tree" -> Tree!TreeSteps
       [] which = "overlay" -> Overlay!OverlaySteps
       [] which = "commands" -> Commands!CommandSteps
       [] which = "input" -> Input!InputSteps
       [] which = "jobs" -> Buffers!EndsOnce
       [] which = "language" -> Language!OnlyTheEndChanges
       [] OTHER -> TRUE]_vars

(* Nothing waits for ever: a store mounts once the crashes stop, a tab's mount is
   decided, a call to the worker is answered, a run is settled, a walk ends. *)
Progress ==
  <>[]CASE which = "migration" -> Migration!Mounted
        [] which = "election" -> Election!Decided
        [] which = "worker" -> Worker!AllAnswered
        [] which = "transport" -> Transport!AllSettled
        [] which = "wire" -> Wire!Ended
        [] OTHER -> TRUE
=============================================================================
