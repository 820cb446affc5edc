-------------------------- MODULE JobRunnerProofs --------------------------
(***************************************************************************)
(* What holds of JobRunner for any number of clients, verbs and jobs and   *)
(* any history size: types, that no job is lost between submission and     *)
(* run, that jobs run one at a time, that the scheduler never has two      *)
(* unfinished jobs of one verb, and that what a thread submits runs in its *)
(* order.                                                                  *)
(*                                                                         *)
(* The three properties need one another.  That trimming drops no job on   *)
(* its way rests on such a job being queued; that it still is when the     *)
(* worker takes it rests on its being on its way once only; and that the   *)
(* scheduler sees every unfinished job of its verb rests on every          *)
(* unfinished job being in the history.  IndInv says all of it.  OrderInv  *)
(* adds where the jobs of one thread are, from the worker's hand back to   *)
(* the submitter's; it is kept on top of IndInv while nothing fails.       *)
(***************************************************************************)
EXTENDS JobRunner, TLAPS

\* Ids from next on are nobody's, and the others are somebody's.
Numbered == \A i \in Ids : i >= next <=> job[i].state = "none"

\* An unfinished job is in the history, and what is in the history was submitted.
Kept == /\ \A i \in Ids : job[i].state \in Unfinished => i \in tracked
        /\ \A i \in tracked : job[i].state # "none"

\* A job is on its way in one place only.
OnePlace ==
    /\ \A t, u \in Threads : at[t] = "put" /\ at[u] = "put" /\ hand[t] = hand[u] => t = u
    /\ \A t \in Threads : at[t] = "put" => \A k \in DOMAIN queue : queue[k] # hand[t]
    /\ \A t \in Threads : at[t] = "put" /\ wat # "get" => hand[t] # wjob

\* The worker has a job in hand from when it takes it to when it finishes.
InHand == wat # "get" => wjob \in Ids

\* Between its look at the history and its submission, the scheduler has no
\* unfinished job of the verb: nobody else submits for it.
NoneOfIt ==
    at[Sched] = "submit" =>
        \A i \in Ids : job[i].by = Sched /\ job[i].verb = want
                       => job[i].state \notin Unfinished

\* The inductive invariant.
IndInv == /\ TypeOK /\ Numbered /\ Kept /\ InHand
          /\ NoLostJob /\ OnePlace /\ OneAtATime
          /\ OneScheduled /\ NoneOfIt

-----------------------------------------------------------------------------
\* The ids of the queue stay ids when one is appended or taken, and nothing else
\* moves (queue.Queue).
LEMMA AppendFacts ==
    ASSUME NEW q \in Seq(Ids), NEW i \in Ids
    PROVE  /\ Append(q, i) \in Seq(Ids)
           /\ DOMAIN Append(q, i) = DOMAIN q \cup {Len(q) + 1}
           /\ Len(q) + 1 \notin DOMAIN q
           /\ \A k \in DOMAIN q : Append(q, i)[k] = q[k]
           /\ Append(q, i)[Len(q) + 1] = i
OBVIOUS

\* Taking the head moves the others down by one.
LEMMA TailFacts ==
    ASSUME NEW q \in Seq(Ids), q # <<>>
    PROVE  /\ Head(q) \in Ids /\ Tail(q) \in Seq(Ids)
           /\ 1 \in DOMAIN q /\ Head(q) = q[1]
           /\ \A k \in DOMAIN Tail(q) : /\ k + 1 \in DOMAIN q /\ k \in Nat \ {0}
                                        /\ Tail(q)[k] = q[k + 1]
OBVIOUS

-----------------------------------------------------------------------------
\* A submission, by a client or the scheduler, keeps everything about the jobs
\* submitted before it (JobRunner.submit under the lock).
LEMMA RegisterKeeps ==
    ASSUME IndInv, NEW t \in Threads, NEW v \in Verbs, Register(t, v), at[t] # "put",
           UNCHANGED <<queue, want, wat, wjob, due, faults>>,
           t = Sched => v = want /\ at[Sched] = "submit"
    PROVE  IndInv'
<1> USE ConstantsAssumption DEF IndInv, Ids
<1> DEFINE new == [verb |-> v, by |-> t, state |-> "queued"]
<1>1. /\ next \in Ids /\ new \in JobSet
      /\ job' = [job EXCEPT ![next] = new] /\ job' \in [Ids -> JobSet]
      /\ job'[next] = new /\ \A i \in Ids : i # next => job'[i] = job[i]
  BY DEF Register, TypeOK, JobSet, Unfinished
<1>2. /\ tracked' \subseteq tracked \cup {next}
      /\ \A i \in tracked \cup {next} : job'[i].state \notin Finished => i \in tracked'
  BY DEF Register, trim
<1>3. job[next].state = "none" /\ next \notin tracked
  BY <1>1 DEF Numbered, Kept, TypeOK
<1>4. TypeOK'
  <2>1. tracked' \subseteq Ids
    BY <1>1, <1>2 DEF TypeOK
  <2>2. next' \in 1..(MaxJobs + 1)
    BY <1>1 DEF Register
  <2>3. hand' \in [Threads -> Ids \cup {NoJob}]
    BY <1>1 DEF Register, TypeOK
  <2>4. at' \in [Threads -> {"idle", "put", "busyWith", "submit"}]
    BY DEF Register, TypeOK
  <2> QED BY <1>1, <2>1, <2>2, <2>3, <2>4 DEF TypeOK
<1>5. Numbered'
  BY <1>1 DEF Numbered, Register, TypeOK
<1>6. Kept'
  BY <1>1, <1>2 DEF Kept, TypeOK, Unfinished, Finished
<1>7. InHand'
  BY DEF InHand
<1>8. \A i \in Ids : Waiting(i) => Waiting(i)' /\ i # next
  BY <1>1, <1>2, <1>3 DEF Waiting, Finished
<1>9. /\ hand'[t] = next /\ at'[t] = "put"
       /\ \A u \in Threads : u # t => hand'[u] = hand[u] /\ at'[u] = at[u]
  BY DEF Register, TypeOK
<1>10. \A k \in DOMAIN queue : queue[k] \in Ids
  BY DEF TypeOK
<1>11. \A u \in Threads : Waiting(hand[u]) => hand[u] \in Ids
  BY DEF Waiting, TypeOK
<1>12. NoLostJob'
  <2>1. \A u \in Threads : (at[u] = "put" => Waiting(hand[u]))'
    <3> SUFFICES ASSUME NEW u \in Threads, at'[u] = "put" PROVE Waiting(hand[u])'
      OBVIOUS
    <3>1. CASE u = t
      BY <3>1, <1>1, <1>2, <1>9 DEF Waiting, Finished
    <3>2. CASE u # t
      BY <3>2, <1>8, <1>9, <1>11, Zenon DEF NoLostJob, Waiting
    <3> QED BY <3>1, <3>2
  <2>2. \A k \in DOMAIN queue : Waiting(queue[k])'
    BY <1>8, <1>10 DEF NoLostJob
  <2>3. wat \in {"look", "makeCtx"} => Waiting(wjob)'
    BY <1>8 DEF NoLostJob, InHand
  <2> QED BY <2>1, <2>2, <2>3 DEF NoLostJob, Waiting
<1>13. OnePlace'
  <2>1. \A u \in Threads : u # t /\ at[u] = "put" => hand[u] # next
    BY <1>8, <1>11 DEF NoLostJob
  <2>2. \A k \in DOMAIN queue : queue[k] # next
    BY <1>8, <1>10 DEF NoLostJob
  <2>3. wat # "get" => wjob # next
    BY <1>3, <1>1 DEF InHand, OneAtATime, NoLostJob, Waiting, TypeOK
  <2> QED BY <2>1, <2>2, <2>3, <1>9 DEF OnePlace
<1>14. OneAtATime'
  BY <1>1, <1>3 DEF OneAtATime
<1>15. OneScheduled'
  BY <1>1 DEF OneScheduled, NoneOfIt, Unfinished
<1>16. NoneOfIt'
  <2>1. CASE t = Sched
    BY <2>1, <1>9 DEF NoneOfIt
  <2>2. CASE t # Sched
    BY <2>2, <1>1, <1>9 DEF NoneOfIt, Threads
  <2> QED BY <2>1, <2>2
<1> QED BY <1>4, <1>5, <1>6, <1>7, <1>12, <1>13, <1>14, <1>15, <1>16

-----------------------------------------------------------------------------
\* With no job and nobody at work, the invariant holds.
LEMMA InitInv == Init => IndInv
<1> SUFFICES ASSUME Init PROVE IndInv
  OBVIOUS
<1> USE ConstantsAssumption DEF Init, Ids
<1>1. TypeOK
  <2>1. job \in [Ids -> JobSet]
    BY DEF NoSuch, JobSet, Verbs, Threads
  <2>2. queue \in Seq(Ids) /\ next \in 1..(MaxJobs + 1) /\ want \in Verbs
    BY DEF Verbs
  <2>3. /\ at \in [Threads -> {"idle", "put", "busyWith", "submit"}]
        /\ hand \in [Threads -> Ids \cup {NoJob}]
    OBVIOUS
  <2> QED BY <2>1, <2>2, <2>3 DEF TypeOK
<1>2. Numbered /\ Kept /\ InHand /\ OneAtATime /\ OneScheduled
  BY DEF Numbered, Kept, InHand, OneAtATime, OneScheduled, NoSuch, Unfinished
<1>3. NoLostJob /\ OnePlace /\ NoneOfIt
  BY DEF NoLostJob, OnePlace, NoneOfIt, Threads
<1> QED BY <1>1, <1>2, <1>3 DEF IndInv

\* Putting a job on the queue moves it from its submitter's hand (JobRunner.submit
\* after the lock).
LEMMA PutKeeps ==
    ASSUME IndInv, NEW t \in Threads, Put(t)
    PROVE  IndInv'
<1> USE ConstantsAssumption DEF IndInv
<1> DEFINE i == hand[t]
<1>1. at[t] = "put" /\ Waiting(i) /\ i \in Ids
  BY DEF Put, NoLostJob, Waiting, TypeOK
<1>2. /\ queue' = Append(queue, i) /\ queue' \in Seq(Ids)
      /\ DOMAIN queue' = DOMAIN queue \cup {Len(queue) + 1}
      /\ Len(queue) + 1 \notin DOMAIN queue
      /\ \A k \in DOMAIN queue : queue'[k] = queue[k]
      /\ queue'[Len(queue) + 1] = i
  BY <1>1, AppendFacts DEF Put, TypeOK, Enqueued
<1>3. /\ at'[t] = "idle" /\ \A u \in Threads : u # t => hand'[u] = hand[u] /\ at'[u] = at[u]
      /\ at' \in [Threads -> {"idle", "put", "busyWith", "submit"}]
      /\ hand' \in [Threads -> Ids \cup {NoJob}]
  BY DEF Put, TypeOK
<1>4. UNCHANGED <<tracked, job, next, want, wat, wjob, due, faults>>
  BY DEF Put
<1>5. TypeOK'
  BY <1>2, <1>3, <1>4 DEF TypeOK
<1>6. Numbered' /\ Kept' /\ InHand' /\ OneAtATime' /\ OneScheduled'
  BY <1>4 DEF Numbered, Kept, InHand, OneAtATime, OneScheduled
<1>7. NoneOfIt'
  BY <1>3, <1>4 DEF NoneOfIt, Threads
<1>8. NoLostJob'
  <2>1. \A u \in Threads : at'[u] = "put" => Waiting(hand[u])'
    BY <1>3, <1>4 DEF NoLostJob, Waiting
  <2>2. \A k \in DOMAIN queue' : Waiting(queue[k])'
    BY <1>1, <1>2, <1>4 DEF NoLostJob, Waiting
  <2>3. \A k, l \in DOMAIN queue' : queue'[k] = queue'[l] => k = l
    BY <1>1, <1>2 DEF NoLostJob, OnePlace
  <2>4. wat' # "get" => \A k \in DOMAIN queue' : queue'[k] # wjob'
    BY <1>1, <1>2, <1>4 DEF NoLostJob, OnePlace
  <2> QED BY <2>1, <2>2, <2>3, <2>4, <1>4 DEF NoLostJob, Waiting
<1>9. OnePlace'
  BY <1>1, <1>2, <1>3, <1>4 DEF OnePlace
<1> QED BY <1>5, <1>6, <1>7, <1>8, <1>9

\* Taking a job off the queue moves it into the worker's hand (JobRunner._work).
LEMMA TakeKeeps ==
    ASSUME IndInv, Take
    PROVE  IndInv'
<1> USE ConstantsAssumption DEF IndInv
<1>1. /\ Head(queue) \in Ids /\ Tail(queue) \in Seq(Ids)
      /\ 1 \in DOMAIN queue /\ Head(queue) = queue[1]
      /\ \A k \in DOMAIN Tail(queue) : /\ k + 1 \in DOMAIN queue /\ k \in Nat \ {0}
                                       /\ Tail(queue)[k] = queue[k + 1]
  BY TailFacts DEF Take, TypeOK
<1>2. /\ wjob' = queue[1] /\ queue' = Tail(queue) /\ wat = "get" /\ wat' = "look"
      /\ UNCHANGED <<tracked, job, next, at, want, hand, due, faults>>
  BY <1>1 DEF Take
<1>3. TypeOK' /\ InHand'
  BY <1>1, <1>2 DEF TypeOK, InHand
<1>4. Numbered' /\ Kept' /\ OneAtATime' /\ OneScheduled' /\ NoneOfIt'
  BY <1>2 DEF Numbered, Kept, OneAtATime, OneScheduled, NoneOfIt
<1>5. NoLostJob'
  <2>1. \A t \in Threads : at'[t] = "put" => Waiting(hand[t])'
    BY <1>2 DEF NoLostJob, Waiting
  <2>2. \A k \in DOMAIN queue' : Waiting(queue[k])'
    BY <1>1, <1>2 DEF NoLostJob, Waiting
  <2>3. Waiting(wjob)'
    BY <1>1, <1>2 DEF NoLostJob, Waiting
  <2>4. \A k, l \in DOMAIN queue' : queue'[k] = queue'[l] => k = l
    BY <1>1, <1>2 DEF NoLostJob
  <2>5. \A k \in DOMAIN queue' : queue'[k] # wjob'
    BY <1>1, <1>2 DEF NoLostJob
  <2> QED BY <2>1, <2>2, <2>3, <2>4, <2>5 DEF NoLostJob
<1>6. OnePlace'
  BY <1>1, <1>2 DEF OnePlace
<1> QED BY <1>3, <1>4, <1>5, <1>6

\* The worker's job changes its state and the worker its place, and nothing else
\* does: to running when its context is made, to done or failed when it ends.
LEMMA WorkerKeeps ==
    ASSUME IndInv, NEW s \in {"running", "done", "failed"}, Becomes(s),
           wat \in {"makeCtx", "run", "recorded"},
           wat' = IF s = "running" THEN "run" ELSE "get",
           faults' \in Nat,
           UNCHANGED <<tracked, queue, next, at, want, hand, wjob, due>>,
           s = "running" => wat = "makeCtx"
    PROVE  IndInv'
<1> USE ConstantsAssumption DEF IndInv
<1>1. /\ wjob \in Ids /\ job'[wjob].state = s /\ job' \in [Ids -> JobSet]
      /\ job'[wjob].by = job[wjob].by /\ job'[wjob].verb = job[wjob].verb
      /\ \A i \in Ids : i # wjob => job'[i] = job[i]
      /\ job[wjob].state \in Unfinished /\ wjob \in tracked
  BY DEF Becomes, TypeOK, InHand, JobSet, Unfinished, Finished, NoLostJob, OneAtATime,
         Waiting, Kept
<1>2. TypeOK' /\ InHand'
  BY <1>1 DEF TypeOK, InHand
<1>3. Numbered' /\ Kept'
  BY <1>1 DEF Numbered, Kept, Unfinished, Finished, TypeOK
<1>4. OneAtATime'
  BY <1>1 DEF OneAtATime, NoLostJob, Waiting
<1>5. OneScheduled' /\ NoneOfIt'
  BY <1>1 DEF OneScheduled, NoneOfIt, Unfinished
<1>6. \A i \in Ids : Waiting(i) /\ i # wjob => Waiting(i)'
  BY <1>1 DEF Waiting
<1>7. NoLostJob'
  <2>1. \A t \in Threads : at[t] = "put" => Waiting(hand[t])'
    BY <1>6 DEF NoLostJob, OnePlace, Waiting, TypeOK
  <2>2. \A k \in DOMAIN queue : Waiting(queue[k])'
    BY <1>6 DEF NoLostJob, Waiting, TypeOK
  <2> QED BY <2>1, <2>2 DEF NoLostJob
<1>8. OnePlace'
  BY DEF OnePlace
<1> QED BY <1>2, <1>3, <1>4, <1>5, <1>7, <1>8

-----------------------------------------------------------------------------
\* Every step keeps the inductive invariant.
LEMMA StepInv == IndInv /\ [Next]_vars => IndInv'
<1> SUFFICES ASSUME IndInv, [Next]_vars PROVE IndInv'
  OBVIOUS
<1> USE ConstantsAssumption
<1>1. ASSUME NEW t \in Threads, Put(t) PROVE IndInv'
  BY <1>1, PutKeeps
<1>2. ASSUME NEW c \in Clients, NEW v \in Verbs, Submit(c, v) PROVE IndInv'
  BY <1>2, RegisterKeeps DEF Submit, Threads
<1>3. ASSUME NEW v \in Verbs, Wants(v) PROVE IndInv'
  <2>1. /\ at[Sched] = "idle" /\ at'[Sched] = "busyWith" /\ want' = v
        /\ at' \in [Threads -> {"idle", "put", "busyWith", "submit"}]
        /\ \A u \in Threads : u # Sched => at'[u] = at[u]
        /\ UNCHANGED <<tracked, job, queue, next, hand, wat, wjob, due, faults>>
    BY <1>3 DEF Wants, IndInv, TypeOK, Threads
  <2>2. TypeOK'
    BY <2>1 DEF IndInv, TypeOK
  <2>3. Numbered' /\ Kept' /\ InHand' /\ OneAtATime' /\ OneScheduled' /\ NoneOfIt'
    BY <2>1 DEF IndInv, Numbered, Kept, InHand, OneAtATime, OneScheduled, NoneOfIt
  <2>4. NoLostJob' /\ OnePlace'
    BY <2>1 DEF IndInv, NoLostJob, OnePlace, Waiting
  <2> QED BY <2>2, <2>3, <2>4 DEF IndInv
<1>4. CASE BusyWith
  <2>1. /\ at[Sched] = "busyWith" /\ at'[Sched] \in {"idle", "submit"}
        /\ at' \in [Threads -> {"idle", "put", "busyWith", "submit"}]
        /\ \A u \in Threads : u # Sched => at'[u] = at[u]
        /\ UNCHANGED <<tracked, job, queue, next, want, hand, wat, wjob, due, faults>>
    BY <1>4 DEF BusyWith, IndInv, TypeOK, Threads
  <2>2. TypeOK'
    BY <2>1 DEF IndInv, TypeOK
  <2>3. Numbered' /\ Kept' /\ InHand' /\ OneAtATime' /\ OneScheduled'
    BY <2>1 DEF IndInv, Numbered, Kept, InHand, OneAtATime, OneScheduled
  <2>4. NoLostJob' /\ OnePlace'
    BY <2>1 DEF IndInv, NoLostJob, OnePlace, Waiting
  <2>5. at'[Sched] = "submit" => ~busy_with(want)
    BY <1>4, <2>1 DEF BusyWith, IndInv, TypeOK, Threads
  <2>6. NoneOfIt'
    BY <2>1, <2>5 DEF IndInv, Kept, NoneOfIt, busy_with
  <2> QED BY <2>2, <2>3, <2>4, <2>6 DEF IndInv
<1>5. CASE SubmitScheduled
  <2>1. CASE Register(Sched, want) /\ UNCHANGED faults
    BY <1>5, <2>1, RegisterKeeps DEF SubmitScheduled, IndInv, TypeOK, Threads
  <2>2. CASE Fault /\ at' = [at EXCEPT ![Sched] = "idle"]
             /\ UNCHANGED <<tracked, job, next, hand>>
    <3>1. /\ at'[Sched] = "idle" /\ faults' \in Nat
          /\ at' \in [Threads -> {"idle", "put", "busyWith", "submit"}]
          /\ \A u \in Threads : u # Sched => at'[u] = at[u]
          /\ UNCHANGED <<tracked, job, queue, next, want, hand, wat, wjob, due>>
      BY <1>5, <2>2 DEF SubmitScheduled, Fault, IndInv, TypeOK, Threads
    <3>2. TypeOK'
      BY <3>1 DEF IndInv, TypeOK
    <3>3. Numbered' /\ Kept' /\ InHand' /\ OneAtATime' /\ OneScheduled' /\ NoneOfIt'
      BY <3>1 DEF IndInv, Numbered, Kept, InHand, OneAtATime, OneScheduled, NoneOfIt
    <3>4. NoLostJob' /\ OnePlace'
      BY <3>1 DEF IndInv, NoLostJob, OnePlace, Waiting
    <3> QED BY <3>2, <3>3, <3>4 DEF IndInv
  <2> QED BY <1>5, <2>1, <2>2 DEF SubmitScheduled
<1>6. ASSUME UNCHANGED <<tracked, job, queue, next, at, want, hand, wat, wjob>>,
             due' \in BOOLEAN, faults' \in Nat
      PROVE  IndInv'
  BY <1>6 DEF IndInv, TypeOK, Numbered, Kept, InHand, OneAtATime, OneScheduled, NoneOfIt,
              NoLostJob, OnePlace, Waiting
<1>7. CASE Clock
  BY <1>6, <1>7 DEF Clock, IndInv, TypeOK
<1>8. CASE Take
  BY <1>8, TakeKeeps
<1>9. ASSUME UNCHANGED <<tracked, job, queue, next, at, want, hand, wjob>>,
             faults' \in Nat, due' \in BOOLEAN,
             \/ wat = "look" /\ wat' \in {"makeCtx", "get"}
             \/ wat = "makeCtx" /\ wat' = "get"
             \/ wat = "run" /\ wat' = "recorded"
      PROVE  IndInv'
  <2>1. TypeOK' /\ InHand' /\ Numbered' /\ Kept' /\ OneScheduled' /\ NoneOfIt'
    BY <1>9 DEF IndInv, TypeOK, InHand, Numbered, Kept, OneScheduled, NoneOfIt
  <2>2. NoLostJob' /\ OnePlace' /\ OneAtATime'
    BY <1>9 DEF IndInv, NoLostJob, OnePlace, OneAtATime, Waiting
  <2> QED BY <2>1, <2>2 DEF IndInv
<1>10. CASE Look
  BY <1>9, <1>10 DEF Look, IndInv, TypeOK
<1>11. CASE MakeCtx
  <2>1. CASE Becomes("running") /\ WorkerRuns /\ UNCHANGED faults
    BY <1>11, <2>1, WorkerKeeps DEF MakeCtx, WorkerRuns, IndInv, TypeOK
  <2>2. CASE Fault /\ wat' = "get" /\ UNCHANGED job
    BY <1>9, <1>11, <2>2 DEF MakeCtx, Fault, IndInv, TypeOK
  <2>3. CASE Fault /\ wat' = "get" /\ Becomes("failed")
    BY <1>11, <2>3, WorkerKeeps DEF MakeCtx, Fault, IndInv, TypeOK
  <2> QED BY <1>11, <2>1, <2>2, <2>3 DEF MakeCtx
<1>12. CASE Record
  BY <1>9, <1>12 DEF Record, IndInv, TypeOK
<1>13. CASE Finish
  BY <1>13, WorkerKeeps DEF Finish, Fault, IndInv, TypeOK
<1>14. CASE UNCHANGED vars
  BY <1>6, <1>14 DEF vars, IndInv, TypeOK
<1> QED
  BY <1>1, <1>2, <1>3, <1>4, <1>5, <1>7, <1>8, <1>10, <1>11, <1>12, <1>13, <1>14
  DEF Next, Scheduler, Worker, Tick, BackupIfDue, Verbs, Threads

-----------------------------------------------------------------------------
\* The inductive invariant always holds.
THEOREM Inductive == Spec => []IndInv
BY InitInv, StepInv, PTL DEF Spec

\* Every variable keeps its type, whatever the constants.
THEOREM Types == Spec => []TypeOK
<1>1. IndInv => TypeOK
  BY DEF IndInv
<1> QED BY <1>1, Inductive, PTL

\* No job submitted is dropped from the history before it has run, and none is
\* run twice (JobRunner.submit, _trim and _run).
THEOREM NoneLost == Spec => []NoLostJob
<1>1. IndInv => NoLostJob
  BY DEF IndInv
<1> QED BY <1>1, Inductive, PTL

\* Jobs run one at a time (JobRunner._work).
THEOREM Serial == Spec => []OneAtATime
<1>1. IndInv => OneAtATime
  BY DEF IndInv
<1> QED BY <1>1, Inductive, PTL

\* The scheduler never has two unfinished jobs of one verb (_submit_scheduled).
THEOREM ScheduledOnce == Spec => []OneScheduled
<1>1. IndInv => OneScheduled
  BY DEF IndInv
<1> QED BY <1>1, Inductive, PTL
-----------------------------------------------------------------------------
(* The order of one thread's jobs: the worker's, the queue's, the thread's own. *)

Taken == wat \in {"look", "makeCtx"}

\* Every queued job is in a submitter's hand, on the queue, or just taken off it.
AllOnTheWay ==
    \A i \in Ids : job[i].state = "queued" =>
        \/ \E t \in Threads : at[t] = "put" /\ hand[t] = i
        \/ \E k \in DOMAIN queue : queue[k] = i
        \/ Taken /\ wjob = i

\* What a thread has in hand is its own, and newer than what it put on the queue.
HandNewest ==
    \A t \in Threads : at[t] = "put" =>
        /\ job[hand[t]].by = t
        /\ \A k \in DOMAIN queue : job[queue[k]].by = t => queue[k] < hand[t]
        /\ Taken /\ job[wjob].by = t => wjob < hand[t]

\* The queue has each thread's jobs from the oldest on, and the worker an older one.
QueueInOrder ==
    /\ \A k, l \in DOMAIN queue :
          k < l /\ job[queue[k]].by = job[queue[l]].by => queue[k] < queue[l]
    /\ Taken => \A k \in DOMAIN queue :
                    job[queue[k]].by = job[wjob].by => wjob < queue[k]

\* What has left the queue left it in that order.
RanInOrder ==
    \A i, j \in Ids : i < j /\ job[i].by = job[j].by /\ job[i].state = "queued"
                      => job[j].state \in {"none", "queued"}

OrderInv == faults = 0 => AllOnTheWay /\ HandNewest /\ QueueInOrder /\ RanInOrder

\* Failures are counted, so one without any comes after states without any.
LEMMA NoneBefore ==
    ASSUME IndInv, [Next]_vars, faults' = 0
    PROVE  faults = 0
<1>1. faults \in Nat
  BY DEF IndInv, TypeOK
<1> QED
  BY <1>1 DEF Next, vars, Put, Submit, Tick, Wants, Scheduler, BackupIfDue, BusyWith,
              SubmitScheduled, Clock, Worker, Take, Look, MakeCtx, Record, Finish, Fault

\* A new job is the newest of all (JobRunner.submit under the lock).
LEMMA RegisterOrdered ==
    ASSUME IndInv, IndInv', AllOnTheWay, HandNewest, QueueInOrder, RanInOrder,
           NEW t \in Threads, NEW v \in Verbs, Register(t, v), at[t] # "put",
           UNCHANGED <<queue, wat, wjob>>
    PROVE  AllOnTheWay' /\ HandNewest' /\ QueueInOrder' /\ RanInOrder'
<1> USE DEF Taken
<1>1. /\ next \in Ids /\ next \in Int
      /\ job'[next].by = t /\ job'[next].state = "queued"
      /\ \A i \in Ids : i # next => job'[i] = job[i]
  BY DEF Register, IndInv, TypeOK, Ids
<1>2. /\ hand'[t] = next /\ at'[t] = "put"
      /\ \A u \in Threads : u # t => hand'[u] = hand[u] /\ at'[u] = at[u]
  BY DEF Register, IndInv, TypeOK
<1>3. \A i \in Ids : job[i].state # "none" => i < next
  BY <1>1 DEF IndInv, Numbered, Ids
<1>4. \A k \in DOMAIN queue : queue[k] \in Ids /\ queue[k] < next
  BY <1>3 DEF IndInv, NoLostJob, Waiting, TypeOK
<1>5. \A u \in Threads : at[u] = "put" => hand[u] \in Ids /\ hand[u] < next
  BY <1>3 DEF IndInv, NoLostJob, Waiting, TypeOK
<1>6. Taken => wjob \in Ids /\ wjob < next
  BY <1>3 DEF IndInv, NoLostJob, InHand, Waiting
<1>7. AllOnTheWay'
  <2> SUFFICES ASSUME NEW i \in Ids, job'[i].state = "queued"
               PROVE  \/ \E u \in Threads : at'[u] = "put" /\ hand'[u] = i
                      \/ \E k \in DOMAIN queue : queue[k] = i
                      \/ Taken /\ wjob = i
    BY DEF AllOnTheWay
  <2>1. CASE i = next
    BY <2>1, <1>2
  <2>2. CASE i # next
    BY <2>2, <1>1, <1>2 DEF AllOnTheWay
  <2> QED BY <2>1, <2>2
<1>8. HandNewest'
  <2> SUFFICES ASSUME NEW u \in Threads, at'[u] = "put"
               PROVE  /\ job'[hand'[u]].by = u
                      /\ \A k \in DOMAIN queue : job'[queue[k]].by = u => queue[k] < hand'[u]
                      /\ Taken /\ job'[wjob].by = u => wjob < hand'[u]
    BY DEF HandNewest
  <2>1. CASE u = t
    BY <2>1, <1>1, <1>2, <1>4, <1>6
  <2>2. CASE u # t
    <3>1. at[u] = "put" /\ hand'[u] = hand[u] /\ job'[hand[u]] = job[hand[u]]
      BY <2>2, <1>1, <1>2, <1>5 DEF Ids
    <3>2. \A k \in DOMAIN queue : job'[queue[k]] = job[queue[k]]
      BY <1>1, <1>4 DEF Ids
    <3>3. Taken => job'[wjob] = job[wjob]
      BY <1>1, <1>6 DEF Ids
    <3> QED BY <3>1, <3>2, <3>3 DEF HandNewest
  <2> QED BY <2>1, <2>2
<1>9. QueueInOrder'
  <2>1. \A k \in DOMAIN queue : job'[queue[k]] = job[queue[k]]
    BY <1>1, <1>4 DEF Ids
  <2>2. Taken => job'[wjob] = job[wjob]
    BY <1>1, <1>6 DEF Ids
  <2> QED BY <2>1, <2>2 DEF QueueInOrder
<1>10. RanInOrder'
  <2> SUFFICES ASSUME NEW i \in Ids, NEW j \in Ids, i < j, job'[i].by = job'[j].by,
                      job'[i].state = "queued"
               PROVE  job'[j].state \in {"none", "queued"}
    BY DEF RanInOrder
  <2>1. CASE j = next
    BY <2>1, <1>1
  <2>2. CASE i = next
    BY <2>2, <1>1, <1>3 DEF Ids
  <2>3. CASE i # next /\ j # next
    BY <2>3, <1>1 DEF RanInOrder
  <2> QED BY <2>1, <2>2, <2>3
<1> QED BY <1>7, <1>8, <1>9, <1>10

\* A job put on the queue goes behind the thread's others (after the lock).
LEMMA PutOrdered ==
    ASSUME IndInv, AllOnTheWay, HandNewest, QueueInOrder, RanInOrder,
           NEW t \in Threads, Put(t)
    PROVE  AllOnTheWay' /\ HandNewest' /\ QueueInOrder' /\ RanInOrder'
<1> USE DEF Taken
<1> DEFINE i == hand[t]
           n == Len(queue) + 1
<1>1. at[t] = "put" /\ i \in Ids /\ job[i].by = t
  BY DEF Put, IndInv, NoLostJob, Waiting, TypeOK, HandNewest
<1>2. /\ DOMAIN queue' = DOMAIN queue \cup {n} /\ n \notin DOMAIN queue
      /\ \A k \in DOMAIN queue : queue'[k] = queue[k]
      /\ queue'[n] = i /\ \A k \in DOMAIN queue : ~(n < k)
      /\ n \in Nat
  <2>1. queue \in Seq(Ids) /\ n \in Nat /\ \A k \in DOMAIN queue : ~(n < k)
    BY DEF IndInv, TypeOK
  <2> QED BY <1>1, <2>1, AppendFacts DEF Put, Enqueued
<1>3. /\ at'[t] = "idle" /\ \A u \in Threads : u # t => hand'[u] = hand[u] /\ at'[u] = at[u]
      /\ UNCHANGED <<job, wat, wjob>>
  BY DEF Put, IndInv, TypeOK
<1> HIDE DEF i, n
<1>4. AllOnTheWay'
  <2> SUFFICES ASSUME NEW j \in Ids, job[j].state = "queued"
               PROVE  \/ \E u \in Threads : at'[u] = "put" /\ hand'[u] = j
                      \/ \E k \in DOMAIN queue' : queue'[k] = j
                      \/ Taken /\ wjob = j
    BY <1>3 DEF AllOnTheWay
  <2>1. CASE j = i
    BY <2>1, <1>2
  <2>2. CASE j # i
    BY <2>2, <1>2, <1>3 DEF AllOnTheWay, i
  <2> QED BY <2>1, <2>2
<1>5. HandNewest'
  <2> SUFFICES ASSUME NEW u \in Threads, at'[u] = "put"
               PROVE  /\ job[hand'[u]].by = u
                      /\ \A k \in DOMAIN queue' : job[queue'[k]].by = u => queue'[k] < hand'[u]
                      /\ Taken /\ job[wjob].by = u => wjob < hand'[u]
    BY <1>3 DEF HandNewest
  <2>1. u # t /\ at[u] = "put" /\ hand'[u] = hand[u]
    BY <1>3
  <2>2. \A k \in DOMAIN queue' : job[queue'[k]].by = u => k # n
    BY <1>1, <1>2, <2>1
  <2> QED BY <1>2, <2>1, <2>2 DEF HandNewest
<1>6. QueueInOrder'
  <2>1. ASSUME NEW k \in DOMAIN queue', NEW l \in DOMAIN queue', k < l,
               job[queue'[k]].by = job[queue'[l]].by
        PROVE  queue'[k] < queue'[l]
    <3>1. CASE l = n
      <4>1. k \in DOMAIN queue
        BY <2>1, <3>1, <1>2 DEF IndInv, TypeOK
      <4> QED BY <2>1, <3>1, <4>1, <1>1, <1>2 DEF HandNewest, i
    <3>2. CASE l # n
      BY <2>1, <3>2, <1>2 DEF QueueInOrder
    <3> QED BY <3>1, <3>2
  <2>2. ASSUME Taken, NEW k \in DOMAIN queue', job[queue'[k]].by = job[wjob].by
        PROVE  wjob < queue'[k]
    BY <2>2, <1>1, <1>2 DEF QueueInOrder, HandNewest, i
  <2> QED BY <2>1, <2>2, <1>3 DEF QueueInOrder
<1>7. RanInOrder'
  BY <1>3 DEF RanInOrder
<1> QED BY <1>4, <1>5, <1>6, <1>7

\* What the worker takes is the oldest of its thread (JobRunner._work).
LEMMA TakeOrdered ==
    ASSUME IndInv, AllOnTheWay, HandNewest, QueueInOrder, RanInOrder, Take
    PROVE  AllOnTheWay' /\ HandNewest' /\ QueueInOrder' /\ RanInOrder'
<1>1. /\ 1 \in DOMAIN queue /\ queue \in Seq(Ids)
      /\ wjob' = queue[1] /\ wat = "get" /\ wat' = "look"
      /\ UNCHANGED <<job, at, hand>>
      /\ \A k \in DOMAIN queue' : /\ k + 1 \in DOMAIN queue /\ k \in Nat \ {0}
                                  /\ queue'[k] = queue[k + 1]
  BY TailFacts DEF Take, IndInv, TypeOK
<1>2. \A k \in DOMAIN queue : k = 1 \/ (k - 1 \in DOMAIN queue' /\ queue'[k - 1] = queue[k])
  <2>1. DOMAIN queue' = 1..(Len(queue) - 1) /\ DOMAIN queue = 1..Len(queue) /\ Len(queue) \in Nat
    BY <1>1 DEF Take
  <2> QED BY <1>1, <2>1
<1>3. AllOnTheWay'
  <2> SUFFICES ASSUME NEW i \in Ids, job[i].state = "queued"
               PROVE  \/ \E t \in Threads : at[t] = "put" /\ hand[t] = i
                      \/ \E k \in DOMAIN queue' : queue'[k] = i
                      \/ wjob' = i
    BY <1>1 DEF AllOnTheWay, Taken
  <2>1. CASE \E k \in DOMAIN queue : queue[k] = i
    BY <2>1, <1>1, <1>2
  <2>2. CASE ~\E k \in DOMAIN queue : queue[k] = i
    BY <2>2, <1>1 DEF AllOnTheWay, Taken
  <2> QED BY <2>1, <2>2
<1>4. HandNewest'
  BY <1>1 DEF HandNewest, Taken
<1>5. QueueInOrder'
  <2>1. ASSUME NEW k \in DOMAIN queue', NEW l \in DOMAIN queue', k < l,
               job[queue'[k]].by = job[queue'[l]].by
        PROVE  queue'[k] < queue'[l]
    BY <2>1, <1>1 DEF QueueInOrder
  <2>2. ASSUME NEW k \in DOMAIN queue', job[queue'[k]].by = job[wjob'].by
        PROVE  wjob' < queue'[k]
    <3>1. 1 < k + 1
      BY <1>1
    <3> QED BY <2>2, <3>1, <1>1 DEF QueueInOrder
  <2> QED BY <2>1, <2>2, <1>1 DEF QueueInOrder
<1>6. RanInOrder'
  BY <1>1 DEF RanInOrder
<1> QED BY <1>3, <1>4, <1>5, <1>6

\* A job that runs, or ends, leaves none of its thread behind it (JobRunner._run).
LEMMA WorkerOrdered ==
    ASSUME IndInv, AllOnTheWay, HandNewest, QueueInOrder, RanInOrder,
           NEW s \in {"running", "done", "failed"}, Becomes(s),
           s = "running" => wat = "makeCtx", s # "running" => wat \in {"run", "recorded"},
           wat' \in {"run", "get"}, UNCHANGED <<queue, at, hand, wjob>>
    PROVE  AllOnTheWay' /\ HandNewest' /\ QueueInOrder' /\ RanInOrder'
<1>1. /\ wjob \in Ids /\ wjob \in Int /\ job'[wjob].state = s
      /\ \A i \in Ids : job'[i].by = job[i].by
      /\ \A i \in Ids : i # wjob => job'[i] = job[i]
  BY DEF Becomes, IndInv, InHand, TypeOK, JobSet, Ids
<1>2. \A t \in Threads : at[t] = "put" => hand[t] \in Ids
  BY DEF IndInv, NoLostJob, Waiting, TypeOK
<1>3. \A k \in DOMAIN queue : queue[k] \in Ids
  BY DEF IndInv, TypeOK
<1>4. ~(wat' \in {"look", "makeCtx"})
  OBVIOUS
<1>5. AllOnTheWay'
  BY <1>1 DEF AllOnTheWay, Taken
<1>6. HandNewest'
  BY <1>1, <1>2, <1>3, <1>4 DEF HandNewest, Taken
<1>7. QueueInOrder'
  <2>1. \A k \in DOMAIN queue : job'[queue[k]].by = job[queue[k]].by
    BY <1>1, <1>3
  <2>2. ~Taken'
    BY <1>4 DEF Taken
  <2> QED BY <2>1, <2>2 DEF QueueInOrder
<1>8. RanInOrder'
  <2> SUFFICES ASSUME NEW i \in Ids, NEW j \in Ids, i < j, job[i].by = job[j].by,
                      i # wjob, job[i].state = "queued"
               PROVE  job'[j].state \in {"none", "queued"}
    BY <1>1 DEF RanInOrder
  <2>1. CASE j # wjob
    BY <2>1, <1>1 DEF RanInOrder
  <2>2. CASE j = wjob /\ s = "running"
    <3>1. Taken
      BY <2>2 DEF Taken
    <3>2. \A t \in Threads : ~(at[t] = "put" /\ hand[t] = i)
      BY <2>2, <3>1, <1>1 DEF HandNewest, Ids
    <3>3. \A k \in DOMAIN queue : queue[k] # i
      BY <2>2, <3>1, <1>1 DEF QueueInOrder, Ids
    <3> QED BY <3>1, <3>2, <3>3 DEF AllOnTheWay
  <2>3. CASE j = wjob /\ s # "running"
    <3>1. job[j].state = "running"
      BY <2>3 DEF IndInv, OneAtATime
    <3> QED BY <3>1 DEF RanInOrder
  <2> QED BY <2>1, <2>2, <2>3
<1> QED BY <1>5, <1>6, <1>7, <1>8

\* Every step keeps the order.
LEMMA StepOrder == IndInv /\ OrderInv /\ [Next]_vars => OrderInv'
<1> SUFFICES ASSUME IndInv, OrderInv, [Next]_vars, faults' = 0
             PROVE  AllOnTheWay' /\ HandNewest' /\ QueueInOrder' /\ RanInOrder'
  BY DEF OrderInv
<1>a. AllOnTheWay /\ HandNewest /\ QueueInOrder /\ RanInOrder
  BY NoneBefore DEF OrderInv
<1>b. IndInv'
  BY StepInv
<1>c. ~Fault
  BY DEF Fault, IndInv, TypeOK
<1> USE <1>a
<1>1. ASSUME NEW t \in Threads, Put(t)
      PROVE  AllOnTheWay' /\ HandNewest' /\ QueueInOrder' /\ RanInOrder'
  BY <1>1, PutOrdered
<1>2. ASSUME NEW c \in Clients, NEW v \in Verbs, Submit(c, v)
      PROVE  AllOnTheWay' /\ HandNewest' /\ QueueInOrder' /\ RanInOrder'
  BY <1>2, <1>b, RegisterOrdered DEF Submit, Threads
<1>3. CASE SubmitScheduled
  BY <1>3, <1>b, <1>c, RegisterOrdered DEF SubmitScheduled, Threads, IndInv, TypeOK
<1>4. ASSUME UNCHANGED <<job, queue, wat, wjob, hand>>,
             \A t \in Threads : at'[t] = "put" <=> at[t] = "put"
      PROVE  AllOnTheWay' /\ HandNewest' /\ QueueInOrder' /\ RanInOrder'
  BY <1>4 DEF AllOnTheWay, HandNewest, QueueInOrder, RanInOrder, Taken
<1>5. ASSUME NEW v \in Verbs, Wants(v)
      PROVE  AllOnTheWay' /\ HandNewest' /\ QueueInOrder' /\ RanInOrder'
  BY <1>4, <1>5 DEF Wants, IndInv, TypeOK
<1>6. CASE BusyWith
  BY <1>4, <1>6 DEF BusyWith, IndInv, TypeOK
<1>7. CASE Clock \/ UNCHANGED vars
  BY <1>4, <1>7 DEF Clock, vars
<1>8. CASE Take
  BY <1>8, TakeOrdered
<1>9. CASE Look
  <2>1. wat = "look" /\ wat' = "makeCtx" /\ UNCHANGED <<job, queue, at, hand, wjob>>
    BY <1>9 DEF Look, IndInv, NoLostJob, Waiting
  <2> QED BY <2>1 DEF AllOnTheWay, HandNewest, QueueInOrder, RanInOrder, Taken
<1>10. CASE MakeCtx
  BY <1>10, <1>c, WorkerOrdered DEF MakeCtx, WorkerRuns
<1>11. CASE Record
  <2>1. wat = "run" /\ wat' = "recorded" /\ UNCHANGED <<job, queue, at, hand, wjob>>
    BY <1>11 DEF Record
  <2> QED BY <2>1 DEF AllOnTheWay, HandNewest, QueueInOrder, RanInOrder, Taken
<1>12. CASE Finish
  BY <1>12, <1>c, WorkerOrdered DEF Finish
<1> QED
  BY <1>1, <1>2, <1>3, <1>5, <1>6, <1>7, <1>8, <1>9, <1>10, <1>11, <1>12
  DEF Next, Scheduler, Worker, Tick, BackupIfDue, Verbs, Threads

\* What one thread submits runs in the order it submitted it, while no context fails
\* to be made: the runner takes jobs first in, first out, and a thread has put one on
\* the queue before it submits the next (JobRunner.submit and _work).
THEOREM InOrder == Spec => []ThreadOrder
<1>1. Init => OrderInv
  <2> SUFFICES ASSUME Init PROVE OrderInv
    OBVIOUS
  <2> QED BY DEF Init, OrderInv, AllOnTheWay, HandNewest, QueueInOrder, RanInOrder,
                 Taken, NoSuch, Ids
<1>2. OrderInv => ThreadOrder
  BY DEF OrderInv, RanInOrder, ThreadOrder
<1> QED BY <1>1, <1>2, Inductive, StepOrder, PTL DEF Spec
=============================================================================
