------------------------------ MODULE Activity ------------------------------
(***************************************************************************)
(* The output kelso keeps of its own runs (kelso/lib/activity.py).         *)
(*                                                                         *)
(* Every process that runs something names a file by the second it began   *)
(* in, tees its output there, and at its end appends a trailer, indexes    *)
(* the run, and removes the files that come first by name once there are   *)
(* more than KEEP_RUNS of them -- those of runs still going included.      *)
(***************************************************************************)
EXTENDS Naturals, FiniteSets, FiniteSetsExt

CONSTANTS
  Recorders,    \* processes that record runs: kelsod's worker, shells
  KeepRuns,     \* KEEP_RUNS
  MaxRuns,      \* bound on runs
  MaxSeconds,   \* bound on the clock
  MaxDeaths     \* bound on crashes

VARIABLES
  second,       \* the clock, in the seconds file names tell apart
  logs,         \* var/logs/: the parts of runs in each file, by its name
  recorder,     \* what each process is at
  begun,        \* history: the runs that have a file or had one
  closed,       \* history: the runs whose record is complete
  index,        \* activity.logtab: the run and the file of each record
  clashed,      \* history: names two runs found free before either wrote
  deaths

vars == <<second, logs, recorder, begun, closed, index, clashed, deaths>>

\* A name is the second and a counter: "<second>.<verb>.log" is counter 1 and
\* "<second>.<verb>-2.log" is counter 2. All runs here are of one verb on one
\* app, as only their names can meet.
Counters == 1 .. MaxRuns
Names == (0 .. MaxSeconds) \X Counters

\* What a run is: when it began, and which of all runs it was.
RunsOf == [at : 0 .. MaxSeconds, nth : 1 .. MaxRuns]
Parts == {"header", "output", "trailer"}

Idle == [step |-> "idle"]

TypeOK ==
  /\ second \in 0 .. MaxSeconds
  /\ DOMAIN logs \subseteq Names
  /\ \A f \in DOMAIN logs : logs[f] \subseteq RunsOf \X Parts
  /\ closed \subseteq begun /\ begun \subseteq RunsOf
  /\ index \subseteq RunsOf \X Names

Init ==
  /\ second = 0
  /\ logs = [f \in {} |-> {}]
  /\ recorder = [p \in Recorders |-> Idle]
  /\ begun = {} /\ closed = {} /\ index = {} /\ clashed = {}
  /\ deaths = 0

Goto(p, s) == recorder' = [recorder EXCEPT ![p].step = s]

\* Text appended to a file, which open(..., "a") makes if it is not there.
Appended(f, part) ==
  [g \in DOMAIN logs \cup {f} |->
     IF g # f THEN logs[g]
     ELSE (IF f \in DOMAIN logs THEN logs[f] ELSE {}) \cup {part}]

RunFileAlone(s) == <<s, 1>>

\* _run_file: the first name of this second that no file has.
run_file(s) == <<s, Min({c \in Counters : <<s, c>> \notin DOMAIN logs})>>

\* __enter__ takes the time and looks for a name. No more than KeepRuns runs
\* begin in one second: fifty of one verb, in the code.
Enter(p) ==
  /\ recorder[p] = Idle
  /\ Cardinality(begun) < MaxRuns
  /\ LET run == [at |-> second, nth |-> Cardinality(begun) + 1]
         named == {q \in Recorders : recorder[q].step = "named"}
     IN /\ Cardinality({r \in begun : r.at = second}) < KeepRuns
        /\ begun' = begun \cup {run}
        /\ recorder' = [recorder EXCEPT ![p] =
             [step |-> "named", run |-> run, name |-> run_file(second), stale |-> {}]]
        /\ clashed' = clashed \cup
             {f \in {run_file(second)} : \E q \in named : recorder[q].name = f}
  /\ UNCHANGED <<second, logs, closed, index, deaths>>

\* begin_run: write_text makes the file anew with its header.
Begin(p) ==
  /\ recorder[p].step = "named"
  /\ logs' = [Appended(recorder[p].name, <<>>) EXCEPT
                ![recorder[p].name] = {<<recorder[p].run, "header">>}]
  /\ Goto(p, "running")
  /\ UNCHANGED <<second, begun, closed, index, clashed, deaths>>

\* Output goes to the file as it was opened: nowhere, once it is unlinked.
Output(p) ==
  /\ recorder[p].step = "running"
  /\ logs' = IF recorder[p].name \in DOMAIN logs
             THEN Appended(recorder[p].name, <<recorder[p].run, "output">>) ELSE logs
  /\ Goto(p, "ran")
  /\ UNCHANGED <<second, begun, closed, index, clashed, deaths>>

\* finish_run: the trailer, however the run ended,
Trailer(p) ==
  /\ recorder[p].step = "ran"
  /\ logs' = Appended(recorder[p].name, <<recorder[p].run, "trailer">>)
  /\ Goto(p, "index")
  /\ UNCHANGED <<second, begun, closed, index, clashed, deaths>>

\* the record in the activity log,
Index(p) ==
  /\ recorder[p].step = "index"
  /\ index' = index \cup {<<recorder[p].run, recorder[p].name>>}
  /\ Goto(p, "list")
  /\ UNCHANGED <<second, logs, begun, closed, clashed, deaths>>

\* File names in lexical order: "-" comes before ".", so the first of a
\* second's files is the last by name.
before(f, g) ==
  \/ f[1] < g[1]
  \/ f[1] = g[1] /\ f[2] # 1 /\ (g[2] = 1 \/ f[2] < g[2])

PruneNewest == {f \in DOMAIN logs :
  Cardinality({g \in DOMAIN logs : before(g, f)}) >= KeepRuns}

\* The files _prune drops: all but the last KEEP_RUNS by name.
prune == {f \in DOMAIN logs :
  Cardinality({g \in DOMAIN logs : before(f, g)}) >= KeepRuns}

\* and the pruning, which lists the directory and then unlinks.
List(p) ==
  /\ recorder[p].step = "list"
  /\ recorder' = [recorder EXCEPT ![p].step = "unlink", ![p].stale = prune]
  /\ UNCHANGED <<second, logs, begun, closed, index, clashed, deaths>>

Unlink(p) ==
  /\ recorder[p].step = "unlink"
  /\ logs' = [f \in DOMAIN logs \ recorder[p].stale |-> logs[f]]
  /\ closed' = closed \cup {recorder[p].run}
  /\ recorder' = [recorder EXCEPT ![p] = Idle]
  /\ UNCHANGED <<second, begun, index, clashed, deaths>>

\* The process is killed: its file stays as it is.
Die(p) ==
  /\ recorder[p] # Idle
  /\ deaths < MaxDeaths
  /\ deaths' = deaths + 1
  /\ recorder' = [recorder EXCEPT ![p] = Idle]
  /\ UNCHANGED <<second, logs, begun, closed, index, clashed>>

Second ==
  /\ second < MaxSeconds
  /\ second' = second + 1
  /\ UNCHANGED <<logs, recorder, begun, closed, index, clashed, deaths>>

Next ==
  \/ Second
  \/ \E p \in Recorders :
       \/ Enter(p) \/ Begin(p) \/ Output(p) \/ Trailer(p)
       \/ Index(p) \/ List(p) \/ Unlink(p) \/ Die(p)

Spec == Init /\ [][Next]_vars

-----------------------------------------------------------------------------

\* list_runs: every recorded run with its file, and whether that is there.
list_runs == {[run |-> i[1], log |-> i[2], available |-> i[2] \in DOMAIN logs] : i \in index}

\* The text of a file that is available.
read_run_log(f) == logs[f]

\* Everything the run wrote and nothing any other run did.
Whole(r, text) == text = {r} \X Parts

(***************************************************************************)
(* LogsKept: the log that list_runs names for a completed run is there     *)
(* with all of that run's output and no other's, or it is gone and as many *)
(* runs as are kept began in its second or later -- never a piece of a     *)
(* log, though a run's file may be pruned while it runs and made again by  *)
(* its trailer (activity.py). Two runs that look for a name before either  *)
(* has written are excepted: they get the same one.                        *)
(***************************************************************************)
LogsKept ==
  \A l \in list_runs : l.run \in closed /\ l.log \notin clashed =>
    \/ l.available /\ Whole(l.run, read_run_log(l.log))
    \/ /\ ~l.available
       /\ Cardinality({r \in begun \ {l.run} : r.at >= l.run.at}) >= KeepRuns

=============================================================================
