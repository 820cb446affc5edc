----------------------------- MODULE JobRunner -----------------------------
(***************************************************************************)
(* kelsod's jobs (kelso/jobs/runner.py): threads of the HTTP server and    *)
(* the scheduler thread submit them, one worker thread runs them in the    *)
(* order they were put on the queue, and the history keeps them, oldest    *)
(* finished first to go.                                                   *)
(*                                                                         *)
(* A submission takes the runner's lock to enter the job in the history    *)
(* and puts its id on the queue after letting go of it; the scheduler      *)
(* looks whether the verb is busy before that, under the lock but not the  *)
(* same hold of it.  Ids grow, so the order of ids is the order of the     *)
(* history.                                                                *)
(*                                                                         *)
(* A definition introduced as a mutant is a wrong variant of the one after *)
(* it, used by nothing: put in its place, it makes a property fail.        *)
(***************************************************************************)
EXTENDS Integers, Sequences, FiniteSets

CONSTANTS
    Clients,     \* threads of the HTTP server
    Sched,       \* the scheduler thread
    Timed,       \* verbs submitted every so often: the metrics
    Other,       \* verbs only clients submit
    Backup,      \* scheduled-backup
    MaxHistory,  \* jobs kept before finished ones are dropped
    MaxJobs,     \* bound: jobs ever submitted
    Reserve,     \* bound: ids kept for backups that are due
    MaxFaults    \* bound: failures

Threads == Clients \cup {Sched}
Verbs   == Timed \cup Other \cup {Backup}
Ids     == 1..MaxJobs
NoJob   == 0

ASSUME ConstantsAssumption ==
    /\ Sched \notin Clients
    /\ Backup \notin Timed \cup Other
    /\ MaxHistory \in Nat /\ MaxJobs \in Nat
    /\ Reserve \in Nat /\ MaxFaults \in Nat

VARIABLES
    tracked,  \* ids in the history, self._jobs
    job,      \* per id, its verb, the thread that submitted it and its state
    queue,    \* self._queue
    next,     \* the next id
    at,       \* per submitting thread, what it does next
    want,     \* the verb the scheduler is about to submit
    hand,     \* per submitting thread, the id it has yet to put on the queue
    wat,      \* what the worker does next
    wjob,     \* the id it took off the queue
    due,      \* the backup schedule has passed since the last recorded run
    faults    \* failures so far

vars == <<tracked, job, queue, next, at, want, hand, wat, wjob, due, faults>>

NoSuch     == [verb |-> Backup, by |-> Sched, state |-> "none"]
Unfinished == {"queued", "running"}
Finished   == {"done", "failed"}

Init ==
    /\ tracked = {}
    /\ job = [i \in Ids |-> NoSuch]
    /\ queue = <<>>
    /\ next = 1
    /\ at = [t \in Threads |-> "idle"]
    /\ want = Backup
    /\ hand = [t \in Threads |-> NoJob]
    /\ wat = "get"
    /\ wjob = NoJob
    /\ due = FALSE
    /\ faults = 0

Fault == faults < MaxFaults /\ faults' = faults + 1

-----------------------------------------------------------------------------
(* Submitting. *)

\* Mutant: unfinished jobs are dropped with the others.
TrimAny(ids, jobs) ==
    {i \in ids : Cardinality({o \in ids : o < i}) >= Cardinality(ids) - MaxHistory}
\* Finished jobs are dropped from the oldest on, as many as are over budget.
trim(ids, jobs) ==
    LET over == Cardinality(ids) - MaxHistory
        old  == {i \in ids : jobs[i].state \in Finished}
    IN  ids \ {i \in old : Cardinality({o \in old : o < i}) < over}

\* Under the lock: the job enters the history, which is trimmed.
Register(t, v) ==
    /\ next \in Ids
    /\ job' = [job EXCEPT ![next] = [verb |-> v, by |-> t, state |-> "queued"]]
    /\ tracked' = trim(tracked \cup {next}, job')
    /\ next' = next + 1
    /\ hand' = [hand EXCEPT ![t] = next]
    /\ at' = [at EXCEPT ![t] = "put"]

\* Mutant: the newest job runs first.
Pushed(q, i) == <<i>> \o q
\* The queue is first in, first out.
Enqueued(q, i) == Append(q, i)

\* After the lock: its id is put on the queue.
Put(t) ==
    /\ at[t] = "put"
    /\ queue' = Enqueued(queue, hand[t])
    /\ at' = [at EXCEPT ![t] = "idle"]
    /\ hand' = [hand EXCEPT ![t] = NoJob]
    /\ UNCHANGED <<tracked, job, next, want, wat, wjob, due, faults>>

\* POST /jobs.  A verb whose arguments do not parse changes nothing.
Submit(c, v) ==
    /\ at[c] = "idle" /\ next + Reserve <= MaxJobs
    /\ Register(c, v)
    /\ UNCHANGED <<queue, want, wat, wjob, due, faults>>

-----------------------------------------------------------------------------
(* The scheduler. *)

Wants(v) ==
    /\ at[Sched] = "idle"
    /\ at' = [at EXCEPT ![Sched] = "busyWith"]
    /\ want' = v
    /\ UNCHANGED <<tracked, job, queue, next, hand, wat, wjob, due, faults>>

\* The interval of a metric is over.
Tick(v) == next + Reserve <= MaxJobs /\ Wants(v)

\* Once a minute.
BackupIfDue == due /\ Wants(Backup)

\* Mutants: only a job that runs counts; a job that has finished counts too.
BusyRunning(v) == \E i \in tracked : job[i].verb = v /\ job[i].state = "running"
BusyEver(v) == \E i \in tracked : job[i].verb = v
\* A job of the verb is queued or runs.
busy_with(v) == \E i \in tracked : job[i].verb = v /\ job[i].state \in Unfinished
BusyWith ==
    /\ at[Sched] = "busyWith"
    /\ at' = [at EXCEPT ![Sched] = IF busy_with(want) THEN "idle" ELSE "submit"]
    /\ UNCHANGED <<tracked, job, queue, next, want, hand, wat, wjob, due, faults>>

\* A context that cannot be made is logged, and the tick is missed.
SubmitScheduled ==
    /\ at[Sched] = "submit"
    /\ UNCHANGED <<queue, want, wat, wjob, due>>
    /\ \/ Register(Sched, want) /\ UNCHANGED faults
       \/ /\ Fault /\ at' = [at EXCEPT ![Sched] = "idle"]
          /\ UNCHANGED <<tracked, job, next, hand>>

\* The schedule's time comes.
Clock ==
    /\ ~due /\ next + Reserve <= MaxJobs
    /\ due' = TRUE
    /\ UNCHANGED <<tracked, job, queue, next, at, want, hand, wat, wjob, faults>>

-----------------------------------------------------------------------------
(* The worker. *)

Take ==
    /\ wat = "get" /\ queue # <<>>
    /\ wjob' = Head(queue) /\ queue' = Tail(queue)
    /\ wat' = "look"
    /\ UNCHANGED <<tracked, job, next, at, want, hand, due, faults>>

\* A job that is no longer in the history is passed over.
Look ==
    /\ wat = "look"
    /\ wat' = IF wjob \in tracked THEN "makeCtx" ELSE "get"
    /\ UNCHANGED <<tracked, job, queue, next, at, want, hand, wjob, due, faults>>

Becomes(s) == job' = [job EXCEPT ![wjob].state = s]

\* Mutant: the worker takes the next job while this one runs.
RunningAside == wat' = "get"
WorkerRuns   == wat' = "run"

\* The job gets a context of its own.  A ValueError or RuntimeError in making it
\* is passed over, whatever else is raised fails the job.
MakeCtx ==
    /\ wat = "makeCtx"
    /\ \/ Becomes("running") /\ WorkerRuns /\ UNCHANGED faults
       \/ Fault /\ wat' = "get" /\ UNCHANGED job
       \/ Fault /\ wat' = "get" /\ Becomes("failed")
    /\ UNCHANGED <<tracked, queue, next, at, want, hand, wjob, due>>

\* A scheduled backup has been through the apps, and records itself.
Record ==
    /\ wat = "run" /\ job[wjob].verb = Backup
    /\ wat' = "recorded" /\ due' = FALSE
    /\ UNCHANGED <<tracked, job, queue, next, at, want, hand, wjob, faults>>

\* The job ends; a backup may fail before it records itself or after.
Finish ==
    /\ wat \in {"run", "recorded"}
    /\ \/ /\ wat = "run" => job[wjob].verb # Backup
          /\ Becomes("done") /\ UNCHANGED faults
       \/ Becomes("failed") /\ Fault
    /\ wat' = "get"
    /\ UNCHANGED <<tracked, queue, next, at, want, hand, wjob, due>>

Worker    == Take \/ Look \/ MakeCtx \/ Record \/ Finish
Scheduler == BackupIfDue \/ BusyWith \/ SubmitScheduled \/ Put(Sched)

Next ==
    \/ \E c \in Clients : Put(c) \/ \E v \in Verbs : Submit(c, v)
    \/ \E v \in Timed : Tick(v)
    \/ Scheduler \/ Clock \/ Worker

Spec == Init /\ [][Next]_vars

\* The threads run.  A pass of the scheduler runs all that is pending, the check
\* of the backup schedule each minute, so the metrics cannot crowd it out.
FairSpec == /\ Spec /\ WF_vars(Worker) /\ WF_vars(Scheduler)
            /\ SF_vars(BackupIfDue)
            /\ \A c \in Clients : WF_vars(Put(c))

-----------------------------------------------------------------------------
(* Properties. *)

JobSet == [verb : Verbs, by : Threads, state : {"none"} \cup Unfinished \cup Finished]

\* Every variable has its type.
TypeOK ==
    /\ tracked \subseteq Ids
    /\ job \in [Ids -> JobSet]
    /\ queue \in Seq(Ids)
    /\ next \in 1..(MaxJobs + 1)
    /\ at \in [Threads -> {"idle", "put", "busyWith", "submit"}]
    /\ want \in Verbs
    /\ hand \in [Threads -> Ids \cup {NoJob}]
    /\ wat \in {"get", "look", "makeCtx", "run", "recorded"}
    /\ wjob \in Ids \cup {NoJob}
    /\ due \in BOOLEAN /\ faults \in Nat

Waiting(i) == i \in tracked /\ job[i].state = "queued"

\* A job on its way to the worker (in a submitter's hand, on the queue, or just
\* taken off it) is still in the history, queued, and on its way once only: the
\* trimming of any submission drops none that has yet to run, and none runs twice.
NoLostJob ==
    /\ \A t \in Threads : at[t] = "put" => Waiting(hand[t])
    /\ \A k \in DOMAIN queue : Waiting(queue[k])
    /\ wat \in {"look", "makeCtx"} => Waiting(wjob)
    /\ \A k, l \in DOMAIN queue : queue[k] = queue[l] => k = l
    /\ wat # "get" => \A k \in DOMAIN queue : queue[k] # wjob

\* Jobs run one at a time: the only one that runs is the worker's.
OneAtATime ==
    \A i \in Ids : job[i].state = "running" <=> wat \in {"run", "recorded"} /\ i = wjob

\* The scheduler never has two unfinished jobs of one verb, though it looks and
\* submits under two holds of the lock and the worker runs in between.
OneScheduled ==
    \A i, j \in Ids :
        /\ job[i].by = Sched /\ job[j].by = Sched /\ job[i].verb = job[j].verb
        /\ job[i].state \in Unfinished /\ job[j].state \in Unfinished
        => i = j

\* What one thread submits runs in the order it submitted it, unless a context
\* could not be made.
ThreadOrder ==
    faults = 0 => \A i, j \in Ids :
        i < j /\ job[i].by = job[j].by /\ job[i].state = "queued"
        => job[j].state \in {"none", "queued"}

\* A job whose context could not be made: queued, and on its way no longer.
Stranded(i) ==
    /\ job[i].state = "queued"
    /\ \A t \in Threads : hand[t] # i
    /\ \A k \in DOMAIN queue : queue[k] # i
    /\ ~(wat \in {"look", "makeCtx"} /\ wjob = i)

\* Every job submitted finishes, whatever fails before it, unless its own context
\* cannot be made.
JobsFinish == \A i \in Ids :
    job[i].state = "queued" ~> job[i].state \in Finished \/ Stranded(i)

Backs(i) == job[i].verb = Backup /\ job[i].state = "running"

\* When the backup schedule's time has come, a scheduled backup runs, though
\* submissions and other jobs fail, unless one is stranded.
DueBackupRuns ==
    due ~> ~due \/ \E i \in Ids : Backs(i) \/ (job[i].verb = Backup /\ Stranded(i))

\* When the backup schedule's time has come, a scheduled backup runs: what
\* _backup_if_due says it does.
DueBackupAlwaysRuns == due ~> ~due \/ \E i \in Ids : Backs(i)
=============================================================================
