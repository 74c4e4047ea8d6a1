---------------------------- MODULE ClientTools ----------------------------
(***************************************************************************)
(* The tools exec, read, write, edit, glob and list: the MCP server's      *)
(* handlers with their dispatch, and the client's executor, on one machine *)
(* with one text file and a directory tree.                                *)
(*                                                                         *)
(* Tasks run side by side in goroutines of the client, and go on when the  *)
(* connection or the caller is lost.  Opening a file for writing empties   *)
(* it; what is written then goes over what is there.  A walk of the tree   *)
(* (filepath.WalkDir, external) looks at an entry, and if it is a          *)
(* directory reads it and goes on with what is in it, by name, while other *)
(* programs change the tree.  The pool and the outbox between the two      *)
(* sides (ConnectionPool, ClientOutbox) are a task that is sent, run at    *)
(* most once, and answered or lost.                                        *)
(*                                                                         *)
(* A text is a sequence of characters, NL among them; a path the sequence  *)
(* of names from the base directory, <<>> being the base itself.  What a   *)
(* glob pattern expands to and matches are constants here; MCClientTools   *)
(* gives them the operators of GlobPatterns.                               *)
(***************************************************************************)
EXTENDS Integers, Sequences, SequencesExt, FiniteSets, TLC

CONSTANTS
  Calls,             \* slots of the MCP server, a call at a time in each
  Requests,          \* what the tools are called with
  Cases,             \* what is called in turn, the file and the tree found
  Names,             \* the names that entries may have, in their order
  Paths,             \* the paths that may exist
  Expansion(_),      \* expandBraces: a kind and the alternatives
  MatchesAny(_, _),  \* matchAnyGlob: whether one of the patterns matches the path
  ReadMaxBytes,      \* cfg.ReadMaxBytes
  DefaultReadLines,  \* defaultReadLines
  MaxResults,        \* maxGlobResults and maxListEntries
  MaxListDepth,      \* maxListDepth
  MaxFaults,         \* bound: timeouts, failed writes, losses and crashes
  MaxChanges         \* bound: changes of the tree during the walks

ASSUME LimitsAssumption ==
  /\ ReadMaxBytes \in Nat /\ DefaultReadLines \in Nat \ {0}
  /\ MaxResults \in Nat \ {0} /\ MaxListDepth \in Nat \ {0}
ASSUME BoundsAssumption == MaxFaults \in Nat /\ MaxChanges \in Nat

\* A path is above those that go on from it.
Above(p, q) == Len(p) < Len(q) /\ IsPrefix(p, q)

ASSUME PathsAssumption ==
  /\ Names \in Seq(ToSet(Names)) /\ IsInjective(Names)
  /\ IsFiniteSet(Paths) /\ Paths \subseteq Seq(ToSet(Names)) /\ <<>> \in Paths
  /\ \A p \in Paths : \A n \in 0 .. Len(p) : SubSeq(p, 1, n) \in Paths

Kinds    == {"absent", "file", "dir", "closed"}
IsDir(k) == k \in {"dir", "closed"}

\* Whatever exists is in directories only.
IsTree(k) == \A p, q \in Paths : Above(p, q) /\ k[q] # "absent" => IsDir(k[p])

ASSUME CasesAssumption ==
  /\ \A case \in Cases :
       case.file \in Seq(STRING) /\ case.tree \in [Paths -> Kinds] /\ IsTree(case.tree)
  /\ {case.script : case \in Cases} \subseteq Seq(Requests)
  /\ \A q \in Requests :
       /\ q.tool \in {"exec", "read", "write", "edit", "glob", "list"}
       /\ q.tool = "list" => q.depth \in Int
       /\ q.tool = "read" => q.offset \in Int /\ q.limit \in Int
       /\ q.tool = "write" => q.text \in Seq(STRING)
       /\ q.tool = "edit" => q.old \in Seq(STRING) /\ q.new \in Seq(STRING) /\ q.all \in BOOLEAN

NL     == "n"
NoFile == <<"absent">>

VARIABLES
  \* the machine
  file,     \* what the file holds, NoFile if there is none
  tree,     \* tree[p]: absent, file, dir, or closed: a directory we may not read
  up,       \* the client is connected
  \* the server
  script,   \* the calls that are still to come
  req,      \* req[c]: the request of the call
  tool,     \* tool[c]: idle, waiting for a result, or answered
  answer,   \* answer[c]: what the tool returned
  \* the executor
  task,     \* task[c]: how far the call's task is
  data,     \* data[c]: what the task is about to write
  walk,     \* walk[c]: the walk's patterns, entries to look at, and findings
  result,   \* result[c]: the TaskResult
  faults,   \* counter for MaxFaults
  changes,  \* counter for MaxChanges
  base,     \* history: base[c]: the file when the task began
  quiet,    \* history: calls whose task no other writer has overlapped
  stayed,   \* history: paths that existed all the time
  seen      \* history: paths that existed at some time

callVars == <<req, tool, answer>>
taskVars == <<task, data, walk, result>>
treeVars == <<tree, changes, stayed, seen>>
fileHistory == <<base, quiet>>
vars == <<file, treeVars, up, script, callVars, taskVars, faults, fileHistory>>

NoReq    == [tool |-> "none"]
NoAnswer == [kind |-> "none"]
NoResult == [status |-> "none"]
NoWalk   == [patterns |-> <<>>, todo |-> {}, out |-> <<>>, total |-> 0]
Writing  == {"ready", "emptied"}
Existing == {p \in Paths : tree[p] # "absent"}

Entries == [path : Paths, dir : BOOLEAN]

TypeOK ==
  /\ tree \in [Paths -> Kinds] /\ IsTree(tree)
  /\ up \in BOOLEAN
  /\ tool \in [Calls -> {"idle", "waiting", "answered"}]
  /\ task \in [Calls -> {"none", "sent", "walking", "ended"} \cup Writing]
  /\ \A c \in Calls :
       /\ (tool[c] = "answered") = (answer[c].kind # "none")
       /\ (task[c] = "ended") = (result[c].status # "none")
       /\ walk[c].todo \subseteq Entries /\ walk[c].out \in Seq(Entries) /\ walk[c].total \in Nat
       /\ Len(walk[c].out) <= MaxResults /\ Len(walk[c].out) <= walk[c].total
  /\ faults \in 0 .. MaxFaults /\ changes \in 0 .. MaxChanges
  /\ quiet \subseteq Calls
  /\ stayed \subseteq Existing /\ Existing \subseteq seen

-----------------------------------------------------------------------------
(* Reading: a window of lines                                              *)

\* ReadString('\n') until the end: each line with its NL, the last maybe without.
Lines(text) ==
  LET Put(lines, x) ==
        IF lines # <<>> /\ Last(Last(lines)) # NL
          THEN [lines EXCEPT ![Len(lines)] = Append(@, x)]
          ELSE Append(lines, <<x>>)
  IN FoldLeft(Put, <<>>, text)

\* Mutant of ReadWindow: the line that does not fit is counted as shown.
ReadWindowCounts(text, offset, limit) ==
  LET Take(w, line) ==
        LET on   == [w EXCEPT !.total = @ + 1]
            room == ReadMaxBytes - Len(w.out)
        IN IF on.total < offset \/ (limit > 0 /\ w.lines > limit)
             THEN on
             ELSE IF ReadMaxBytes > 0 /\ Len(line) > room
               THEN [on EXCEPT !.out = @ \o SubSeq(line, 1, room), !.truncated = TRUE]
               ELSE [on EXCEPT !.out = @ \o line, !.lines = @ + 1]
  IN FoldLeft(Take, [out |-> <<>>, lines |-> 0, total |-> 0, truncated |-> FALSE], Lines(text))

\* readTask's loop: the window's bytes, how many lines the file has, and
\* whether ReadMaxBytes (0: no limit) cut the window short.
ReadWindow(text, offset, limit) ==
  LET Take(w, line) ==
        LET on   == [w EXCEPT !.total = @ + 1]
            room == ReadMaxBytes - Len(w.out)
        IN IF on.total < offset \/ (limit > 0 /\ w.lines >= limit)
             THEN on
             ELSE IF ReadMaxBytes > 0 /\ Len(line) > room
               THEN [on EXCEPT !.out = @ \o SubSeq(line, 1, room), !.truncated = TRUE]
               ELSE [on EXCEPT !.out = @ \o line, !.lines = @ + 1]
  IN FoldLeft(Take, [out |-> <<>>, lines |-> 0, total |-> 0, truncated |-> FALSE], Lines(text))

\* splitLines: the lines without their NL, and no empty one after the last NL.
SplitLines(text) ==
  [i \in DOMAIN Lines(text) |->
     IF Last(Lines(text)[i]) = NL THEN Front(Lines(text)[i]) ELSE Lines(text)[i]]

\* The rest of readTool: lines numbered from offset, and the footer.
ReadAnswer(offset, limit, res) ==
  LET lines == SplitLines(res.stdout)
      last  == offset + Len(lines) - 1
  IN IF res.total > 0 /\ offset > res.total
       THEN [kind |-> "beyond", total |-> res.total]
     ELSE IF lines = <<>>
       THEN [kind |-> "empty"]
       ELSE [kind |-> "lines", first |-> offset, lines |-> lines, last |-> last,
             footer |-> Len(lines) < limit \/ offset > 1 \/ res.truncated,
             total |-> res.total, truncated |-> res.truncated]

Limit(q) == IF q.limit <= 0 THEN DefaultReadLines ELSE q.limit

-----------------------------------------------------------------------------
(* Editing: bytes.Count, bytes.Replace                                     *)

StartsAt(text, old, i) == SubSeq(text, i, i + Len(old) - 1) = old

\* Where bytes.Count and bytes.Replace find old: from the left, not overlapping.
Found(text, old) ==
  LET Scan(at, i) ==
        IF StartsAt(text, old, i) /\ (at = <<>> \/ Last(at) + Len(old) <= i)
          THEN Append(at, i) ELSE at
  IN FoldLeft(Scan, <<>>, [i \in 1 .. Len(text) - Len(old) + 1 |-> i])

\* Mutant of Replaced: the copy goes on behind what was put in.
ReplacedShifts(text, old, new, at) ==
  LET Step(out, i) ==
        [done |-> out.done \o SubSeq(text, out.next, i - 1) \o new, next |-> i + Len(new)]
      end == FoldLeft(Step, [done |-> <<>>, next |-> 1], at)
  IN end.done \o SubSeq(text, end.next, Len(text))

\* text with new in place of the occurrences of old at the places in at.
Replaced(text, old, new, at) ==
  LET Step(out, i) ==
        [done |-> out.done \o SubSeq(text, out.next, i - 1) \o new, next |-> i + Len(old)]
      end == FoldLeft(Step, [done |-> <<>>, next |-> 1], at)
  IN end.done \o SubSeq(text, end.next, Len(text))

-----------------------------------------------------------------------------
(* The tools, up to the wait for the result                                *)

Init ==
  /\ \E case \in Cases : file = case.file /\ tree = case.tree /\ script = case.script
  /\ up = TRUE
  /\ req = [c \in Calls |-> NoReq]
  /\ tool = [c \in Calls |-> "idle"]
  /\ answer = [c \in Calls |-> NoAnswer]
  /\ task = [c \in Calls |-> "none"]
  /\ data = [c \in Calls |-> NoFile]
  /\ walk = [c \in Calls |-> NoWalk]
  /\ result = [c \in Calls |-> NoResult]
  /\ faults = 0 /\ changes = 0
  /\ base = [c \in Calls |-> NoFile]
  /\ quiet = {}
  /\ stayed = Existing /\ seen = Existing

BadHost(q) == q.host # "machine"
BadArgument(q) ==
  \/ q.tool = "read" /\ q.offset < 1
  \/ q.tool = "list" /\ q.depth < 1

\* The next call: what the handler and dispatch refuse, else SendTask.
Call(c) ==
  /\ script # <<>>
  /\ tool[c] # "waiting" /\ task[c] \in {"none", "ended"}
  /\ LET q == Head(script)
         refused == BadArgument(q) \/ BadHost(q) \/ ~up
     IN /\ req' = [req EXCEPT ![c] = q]
        /\ tool' = [tool EXCEPT ![c] = IF refused THEN "answered" ELSE "waiting"]
        /\ answer' = [answer EXCEPT ![c] = IF refused THEN [kind |-> "refused"] ELSE NoAnswer]
        /\ task' = [task EXCEPT ![c] = IF refused THEN "none" ELSE "sent"]
  /\ script' = Tail(script)
  /\ data' = [data EXCEPT ![c] = NoFile]
  /\ walk' = [walk EXCEPT ![c] = NoWalk]
  /\ result' = [result EXCEPT ![c] = NoResult]
  /\ base' = [base EXCEPT ![c] = NoFile]
  /\ quiet' = quiet \ {c}
  /\ UNCHANGED <<file, treeVars, up, faults>>

-----------------------------------------------------------------------------
(* The executor: files and commands                                        *)

TaskResult ==
  [status |-> "OK", why |-> "none", exit |-> 0, stdout |-> <<>>, stderr |-> <<>>,
   total |-> 0, truncated |-> FALSE, count |-> 0]
Error(why) == [TaskResult EXCEPT !.status = "ERROR", !.why = why]
Ok(out)    == [TaskResult EXCEPT !.stdout = out]

\* The end of Execute: a task that is out of time is a TIMEOUT whatever it did.
Ended(c, res) ==
  /\ task' = [task EXCEPT ![c] = "ended"]
  /\ \/ result' = [result EXCEPT ![c] = res] /\ UNCHANGED faults
     \/ /\ faults < MaxFaults
        /\ faults' = faults + 1
        /\ result' = [result EXCEPT ![c] = [res EXCEPT !.status = "TIMEOUT", !.why = "timeout"]]

Starts(c, name) ==
  /\ task[c] = "sent"
  /\ req[c].tool = name

\* A task that writes is quiet if no other is about to write when it begins.
Writers == {c \in Calls : task[c] \in Writing}
Overlap(c) == quiet' = IF Writers = {} THEN quiet \cup {c} ELSE quiet \ {c}

\* readTask.  A read error (a directory) ends the loop like the end of the file.
ReadTask(c) ==
  /\ Starts(c, "read")
  /\ base' = [base EXCEPT ![c] = file]
  /\ IF file = NoFile
       THEN Ended(c, Error("open"))
       ELSE LET w == ReadWindow(file, req[c].offset, Limit(req[c]))
            IN Ended(c, [Ok(w.out) EXCEPT !.total = w.total, !.truncated = w.truncated])
  /\ UNCHANGED <<file, treeVars, up, script, callVars, data, walk, quiet>>

\* writeTask up to os.WriteFile: the directories are there.
WriteTask(c) ==
  /\ Starts(c, "write")
  /\ base' = [base EXCEPT ![c] = file]
  /\ task' = [task EXCEPT ![c] = "ready"]
  /\ data' = [data EXCEPT ![c] = req[c].text]
  /\ Overlap(c)
  /\ UNCHANGED <<file, treeVars, up, script, callVars, walk, result, faults>>

\* What editTask says against an edit of text, "none" if it goes on.
EditObjection(q, text) ==
  IF q.old = <<>> THEN "empty"
  ELSE IF q.old = q.new THEN "same"
  ELSE IF text = NoFile THEN "open"
  ELSE IF Found(text, q.old) = <<>> THEN "not found"
  ELSE IF Len(Found(text, q.old)) > 1 /\ ~q.all THEN "ambiguous"
  ELSE "none"

\* editTask up to os.WriteFile.
EditTask(c) ==
  /\ Starts(c, "edit")
  /\ base' = [base EXCEPT ![c] = file]
  /\ LET q == req[c]
         why == EditObjection(q, file)
     IN IF why # "none"
          THEN Ended(c, Error(why)) /\ UNCHANGED <<data, quiet>>
          ELSE /\ data' = [data EXCEPT ![c] = Replaced(file, q.old, q.new, Found(file, q.old))]
               /\ task' = [task EXCEPT ![c] = "ready"]
               /\ Overlap(c)
               /\ UNCHANGED <<result, faults>>
  /\ UNCHANGED <<file, treeVars, up, script, callVars, walk>>

\* A write that failed: an error, whatever has happened to the file.
WriteFails(c) ==
  /\ faults < MaxFaults
  /\ faults' = faults + 1
  /\ task' = [task EXCEPT ![c] = "ended"]
  /\ result' = [result EXCEPT ![c] = Error("write")]

\* os.WriteFile opens the file and empties it, or cannot open it.
OpenFile(c) ==
  /\ task[c] = "ready"
  /\ \/ /\ file' = <<>>
        /\ task' = [task EXCEPT ![c] = "emptied"]
        /\ quiet' = quiet \ (Writers \ {c})
        /\ UNCHANGED <<result, faults>>
     \/ WriteFails(c) /\ UNCHANGED <<file, quiet>>
  /\ UNCHANGED <<treeVars, up, script, callVars, data, walk, base>>

\* Bytes written at the start of a file that others may have written meanwhile.
Over(bytes, text) == bytes \o SubSeq(text, Len(bytes) + 1, Len(text))

\* os.WriteFile writes, all of it or a part.
WriteFile(c) ==
  /\ task[c] = "emptied"
  /\ \/ /\ file' = Over(data[c], file)
        /\ Ended(c, IF req[c].tool = "write" THEN Ok(<<>>)
                    ELSE [Ok(<<>>) EXCEPT !.count = Len(Found(base[c], req[c].old))])
     \/ /\ WriteFails(c)
        /\ \E n \in 0 .. Len(data[c]) - 1 : file' = Over(SubSeq(data[c], 1, n), file)
  /\ quiet' = quiet \ (Writers \ {c})
  /\ UNCHANGED <<treeVars, up, script, callVars, data, walk, base>>

\* execTask: the command ends by itself, or is killed when its time is over.
\* What it does to the machine is left out.
ExecTask(c) ==
  /\ Starts(c, "exec")
  /\ LET q == req[c]
     IN Ended(c, [TaskResult EXCEPT !.status = IF q.exit = 0 THEN "OK" ELSE "ERROR",
                    !.why = "exit", !.exit = q.exit, !.stdout = q.out, !.stderr = q.err])
  /\ UNCHANGED <<file, treeVars, up, script, callVars, data, walk, fileHistory>>

-----------------------------------------------------------------------------
(* The executor: walks of the tree                                         *)

Entry(p) == [path |-> p, dir |-> IsDir(tree[p])]

\* The walk begins at the base, which must exist.
WalkFrom(c, patterns) ==
  IF tree[<<>>] = "absent"
    THEN Ended(c, Error("walk")) /\ walk' = [walk EXCEPT ![c].patterns = patterns]
    ELSE /\ task' = [task EXCEPT ![c] = "walking"]
         /\ walk' = [walk EXCEPT ![c].patterns = patterns, ![c].todo = {Entry(<<>>)}]
         /\ UNCHANGED <<result, faults>>

\* globTask: the pattern is expanded first.
GlobTask(c) ==
  /\ Starts(c, "glob")
  /\ \E expanded \in {Expansion(req[c].pattern)} :
        \/ expanded.kind = "alts" /\ WalkFrom(c, expanded.alts)
        \/ expanded.kind = "too many" /\ Ended(c, Error("pattern")) /\ UNCHANGED walk
  /\ UNCHANGED <<file, treeVars, up, script, callVars, data, fileHistory>>

ListTask(c) ==
  /\ Starts(c, "list")
  /\ WalkFrom(c, <<>>)
  /\ UNCHANGED <<file, treeVars, up, script, callVars, data, fileHistory>>

Depth(q) == IF q.depth < MaxListDepth THEN q.depth ELSE MaxListDepth

\* Mutant of Taken: the depth of an entry is the number of '/' in its path.
TakenDeeper(c, p) ==
  IF req[c].tool = "glob" THEN MatchesAny(walk[c].patterns, p) ELSE Len(p) <= Depth(req[c]) + 1

\* Whether the entry at p goes into the answer.
Taken(c, p) ==
  IF req[c].tool = "glob" THEN MatchesAny(walk[c].patterns, p) ELSE Len(p) <= Depth(req[c])

\* SkipDir: a directory deeper than Depth is not read.
Skipped(c, e) == req[c].tool = "list" /\ Len(e.path) > Depth(req[c])

\* The order in which a walk comes to paths: a directory before what is in it, and
\* what is in a directory by name.
Before(p, q) ==
  \/ Above(p, q)
  \/ \E i \in DOMAIN p \cap DOMAIN q :
       /\ SubSeq(p, 1, i - 1) = SubSeq(q, 1, i - 1)
       /\ \E j, k \in DOMAIN Names : j < k /\ Names[j] = p[i] /\ Names[k] = q[i]

\* What ReadDir returns.
Children(p) == {Entry(q) : q \in {q \in Existing : Above(p, q) /\ Len(q) = Len(p) + 1}}

\* Mutant of Find: all that is taken is kept.
FindAll(w, e) == [w EXCEPT !.total = @ + 1, !.out = Append(@, e)]

\* An entry to answer with: all are counted, the first MaxResults kept.
Find(w, e) ==
  [w EXCEPT !.total = @ + 1, !.out = IF Len(@) < MaxResults THEN Append(@, e) ELSE @]

\* The walk looks at its next entry and reads it if it is a directory; one that
\* has gone or may not be read ends the whole walk with its error.
Visit(c) ==
  /\ task[c] = "walking"
  /\ \E e \in walk[c].todo :
     LET rest  == walk[c].todo \ {e}
         found == IF e.path # <<>> /\ Taken(c, e.path) THEN Find(walk[c], e) ELSE walk[c]
         goOn  == ~e.dir \/ Skipped(c, e)
     IN /\ \A d \in rest : Before(e.path, d.path)
        /\ IF goOn \/ tree[e.path] = "dir"
             THEN /\ walk' = [walk EXCEPT ![c] =
                       [found EXCEPT !.todo = IF goOn THEN rest ELSE rest \cup Children(e.path)]]
                  /\ UNCHANGED <<task, result, faults>>
             ELSE Ended(c, Error("walk")) /\ UNCHANGED walk
  /\ UNCHANGED <<file, treeVars, up, script, callVars, data, fileHistory>>

EndWalk(c) ==
  /\ task[c] = "walking"
  /\ walk[c].todo = {}
  /\ Ended(c, [Ok(walk[c].out) EXCEPT !.total = walk[c].total])
  /\ UNCHANGED <<file, treeVars, up, script, callVars, data, walk, fileHistory>>

\* Another program makes, removes, closes or replaces an entry.
Change(p, k) ==
  /\ \E c \in Calls : task[c] = "walking"
  /\ changes < MaxChanges
  /\ k # tree[p]
  /\ tree' = [tree EXCEPT ![p] = k]
  /\ IsTree(tree')
  /\ changes' = changes + 1
  /\ stayed' = IF k = "absent" THEN stayed \ {p} ELSE stayed
  /\ seen' = IF k = "absent" THEN seen ELSE seen \cup {p}
  /\ UNCHANGED <<file, up, script, callVars, taskVars, faults, fileHistory>>

-----------------------------------------------------------------------------
(* The result, losses and crashes                                          *)

\* Mutant of RelayAnswer: the footer appears when the answer is full.
RelayAnswerFull(res) ==
  [kind |-> "entries", entries |-> res.stdout,
   footer |-> IF Len(res.stdout) = MaxResults THEN <<Len(res.stdout), res.total>> ELSE <<>>]

\* relayResultText: the entries, and how many of how many if some are left out.
RelayAnswer(res) ==
  [kind |-> "entries", entries |-> res.stdout,
   footer |-> IF res.total > Len(res.stdout) THEN <<Len(res.stdout), res.total>> ELSE <<>>]

\* resultErrorText: the output of a command that failed is not in it.
FailedAnswer(res) ==
  [kind |-> "failed", why |-> res.why, exit |-> res.exit, stderr |-> res.stderr]

ExecAnswer(res) ==
  [kind |-> "ran", exit |-> res.exit, stdout |-> res.stdout, stderr |-> res.stderr]
EditAnswer(res)  == [kind |-> "edited", count |-> res.count]
WriteAnswer(res) == [kind |-> "written"]

\* What the handlers make of the TaskResult they waited for.
ToolAnswer(q, res) ==
  IF res.status # "OK" THEN FailedAnswer(res)
  ELSE CASE q.tool = "exec"  -> ExecAnswer(res)
         [] q.tool = "read"  -> ReadAnswer(q.offset, Limit(q), res)
         [] q.tool = "edit"  -> EditAnswer(res)
         [] q.tool = "write" -> WriteAnswer(res)
         [] q.tool \in {"glob", "list"} -> RelayAnswer(res)

\* The result arrives while the call waits.
Answer(c) ==
  /\ tool[c] = "waiting"
  /\ task[c] = "ended"
  /\ tool' = [tool EXCEPT ![c] = "answered"]
  /\ answer' = [answer EXCEPT ![c] = ToolAnswer(req[c], result[c])]
  /\ UNCHANGED <<file, treeVars, up, script, req, taskVars, faults, fileHistory>>

\* The wait ends without a result: the connection or the caller is gone.  A
\* task that has not begun may still reach the machine, or be lost.
WaitLost(c) ==
  /\ tool[c] = "waiting"
  /\ faults < MaxFaults
  /\ faults' = faults + 1
  /\ tool' = [tool EXCEPT ![c] = "answered"]
  /\ answer' = [answer EXCEPT ![c] = [kind |-> "lost"]]
  /\ \/ UNCHANGED task
     \/ task[c] = "sent" /\ task' = [task EXCEPT ![c] = "none"]
  /\ UNCHANGED <<file, treeVars, up, script, req, data, walk, result, fileHistory>>

\* The client dies: its tasks stop where they are, the file stays as it is.
ClientDies ==
  /\ up
  /\ up' = FALSE
  /\ task' = [c \in Calls |-> "none"]
  /\ data' = [c \in Calls |-> NoFile]
  /\ walk' = [c \in Calls |-> NoWalk]
  /\ result' = [c \in Calls |-> NoResult]
  /\ tool' = [c \in Calls |-> IF tool[c] = "waiting" THEN "answered" ELSE tool[c]]
  /\ answer' = [c \in Calls |-> IF tool[c] = "waiting" THEN [kind |-> "lost"] ELSE answer[c]]
  /\ UNCHANGED <<file, treeVars, script, req, fileHistory>>

ClientCrash ==
  /\ faults < MaxFaults
  /\ faults' = faults + 1
  /\ ClientDies

\* The size of a range overflows: make panics, or the loop over the range goes on
\* until the memory is used up.  Nothing recovers the client.
GlobOverflows(c) ==
  /\ Starts(c, "glob")
  /\ Expansion(req[c].pattern).kind = "overflow"
  /\ ClientDies
  /\ UNCHANGED faults

ClientConnects ==
  /\ ~up
  /\ up' = TRUE
  /\ UNCHANGED <<file, treeVars, script, callVars, taskVars, faults, fileHistory>>

Next ==
  \/ \E c \in Calls :
       \/ Call(c)
       \/ ReadTask(c)
       \/ WriteTask(c)
       \/ EditTask(c)
       \/ OpenFile(c)
       \/ WriteFile(c)
       \/ ExecTask(c)
       \/ GlobTask(c)
       \/ GlobOverflows(c)
       \/ ListTask(c)
       \/ Visit(c)
       \/ EndWalk(c)
       \/ Answer(c)
       \/ WaitLost(c)
  \/ \E p \in Paths, k \in Kinds : Change(p, k)
  \/ ClientCrash
  \/ ClientConnects

Spec == Init /\ [][Next]_vars

-----------------------------------------------------------------------------
(* Properties                                                              *)

\* The line a character of text is on.
LineOf(text, i) == 1 + Cardinality({j \in 1 .. i - 1 : text[j] = NL})

\* The characters of line k, without its NL.
LineText(text, k) ==
  LET on == {i \in DOMAIN text : LineOf(text, i) = k /\ text[i] # NL}
  IN IF on = {} THEN <<>> ELSE SubSeq(text, Min(on), Max(on))

\* The number of lines: a last one without NL counts, nothing behind an NL does.
LineCount(text) == IF text = <<>> THEN 0 ELSE LineOf(text, Len(text))

\* Whether a is a right answer to a read of limit lines of text from offset on.
ShowsWindow(a, text, offset, limit) ==
  LET count == LineCount(text)
      wanted == {k \in offset .. count : k < offset + limit}
      shown == [k \in a.first .. a.last |-> a.lines[k - a.first + 1]]
  IN /\ a.kind = "empty" => text = <<>>
     /\ a.kind = "beyond" => wanted = {} /\ a.total = count
     /\ a.kind = "lines" =>
          /\ a.first = offset /\ a.total = count
          /\ DOMAIN shown \subseteq wanted
          /\ \A k \in DOMAIN shown : k < a.last => shown[k] = LineText(text, k)
          /\ IF a.truncated
               THEN IsPrefix(shown[a.last], LineText(text, a.last))
               ELSE DOMAIN shown = wanted /\ shown[a.last] = LineText(text, a.last)

\* A read shows the lines it was asked for under their own numbers, whole but
\* for the last, which is cut only when the byte limit is reached, and all of
\* them unless it says that it was cut; "empty" and "beyond" are said only of
\* an empty file and of a window behind the end.
ReadShowsWindow ==
  \A c \in Calls : tool[c] = "answered" /\ req[c].tool = "read" =>
    ShowsWindow(answer[c], base[c], req[c].offset, Limit(req[c]))

\* The text an edit makes: old found from the left, replaced once or each time.
EditOf(text, old, new, all) ==
  LET rest[i \in 1 .. Len(text) + 1] ==
        LET at == {j \in i .. Len(text) - Len(old) + 1 : StartsAt(text, old, j)}
            first == CHOOSE j \in at : \A k \in at : j <= k
            tail == first + Len(old)
        IN IF at = {} THEN SubSeq(text, i, Len(text))
           ELSE SubSeq(text, i, first - 1) \o new \o
                (IF all THEN rest[tail] ELSE SubSeq(text, tail, Len(text)))
  IN rest[1]

\* A write or an edit that no other write overlapped and that ends with OK
\* leaves exactly its content, or the text it read with old replaced.
QuietWriteExact ==
  [][\A c \in quiet :
       task[c] \in Writing /\ task'[c] = "ended" /\ result'[c].status = "OK" =>
         file' = IF req[c].tool = "write" THEN req[c].text
                 ELSE EditOf(base[c], req[c].old, req[c].new, req[c].all)]_vars

Wanted(q, p) ==
  /\ p # <<>>
  /\ IF q.tool = "glob"
       THEN MatchesAny(Expansion(q.pattern).alts, p)
       ELSE Len(p) <= Depth(q)

Asked(q, S) == {p \in S : Wanted(q, p)}

\* An answer a with entries is right for the request q, when the paths in always
\* existed all the time and those in ever at some time.
Complete(q, a, always, ever) ==
  LET shown == [i \in DOMAIN a.entries |-> a.entries[i].path]
  IN /\ ToSet(shown) \subseteq Asked(q, ever)
     /\ \A i, j \in DOMAIN shown : i < j => Before(shown[i], shown[j])
     /\ IF a.footer = <<>>
          THEN Asked(q, always) \subseteq ToSet(shown)
          ELSE /\ a.footer[1] = Len(shown) /\ a.footer[1] < a.footer[2]
               /\ Cardinality(Asked(q, always)) <= a.footer[2]
               /\ a.footer[2] <= Cardinality(Asked(q, ever))

\* An answer of glob or list has only entries that are asked for and existed at
\* some time, in order and so each once; all those that existed all the time,
\* unless it says that there are more, with numbers that are true.
AnswerComplete ==
  \A c \in Calls : answer[c].kind = "entries" => Complete(req[c], answer[c], stayed, seen)

=============================================================================
