-------------------------- MODULE LifecycleSafety --------------------------
(***************************************************************************)
(* What the verbs of Lifecycle never do to an app, for any apps, any       *)
(* number of processes, any faults and crashes: containers without the     *)
(* copy that can stop them, volumes replaced under a running container,    *)
(* routes that stand for nothing, an update that cannot be undone.         *)
(*                                                                         *)
(* LifecycleProofs gives the locks: what one process has locked no other   *)
(* changes.  Here each label is given what is true of the app of a process *)
(* there (Safe), the steps are summed up by where they go and what they    *)
(* make of the app (RoutineMoves, BodyMoves), and Safe follows move by     *)
(* move.  `kelso rm` and a restore read the app before they have its lock, *)
(* and nothing reads it again; what is proved of the containers therefore  *)
(* needs that nobody else may start an app meanwhile (PlansApart).         *)
(***************************************************************************)
EXTENDS LifecycleProofs

StartLabels   == {"start", "blockers", "composeUp", "register", "started"}
LoadLabels    == {"load", "commitOut", "commitOver", "commitNew", "takeDown", "generate",
                  "materialize", "loaded"}
ReadLabels    == {"unlockK", "snapshot", "relock"}
RemoveLabels  == {"rmRun", "rmConfig", "rmVolumes", "rmRecord"}
RestoreLabels == {"preSnapshot", "replaceData", "replaceConfig", "replaceRun",
                  "replaceBundle", "rebuild", "restored"}

\* A process p runs a verb it may be asked for, at a label l of that verb; f is its frame
\* and s the state of its app.
Fits(p, l, f) ==
    /\ l # "idle" => f.op \in scene.does[p]
    /\ l \in {"nextGroup", "nextApp"} => f.op \in Sweeps
    /\ l \in {"stop", "stopped"} => f.op # "restore"
    /\ l \in StartLabels => f.op \in Starters
    /\ l \in LoadLabels => f.op \in {"start", "load", "update"}
    /\ l \in ReadLabels => f.op \in {"backup", "update"}
    /\ l = "updated" => f.op = "update"
    /\ l \in RemoveLabels => f.op \in Removes
    /\ l \in RestoreLabels => f.op = "restore"

\* From its stop on, a verb that takes something away works on an app that is down.
Down(l, s) ==
    l \in {"stopped"} \cup (LoadLabels \ {"load"}) \cup RemoveLabels => s.cont # "running"

\* A load that has put the new copy in place, and a start past its first check, have a
\* loaded app; `compose up` has compose.yml too.
Ready(l, s) ==
    /\ l \in {"takeDown", "generate", "materialize", "loaded", "blockers", "composeUp",
              "register"} => s.bundle # 0
    /\ l = "composeUp" => s.compose

\* A removal planned at the shell stops what runs, and what is restored is down.
PlanHolds(l, f, s) ==
    /\ f.op = "rmCli" /\ l \in {"lockA", "lockK", "enter"} =>
          (s.cont = "running" => f.plan.stop)
    /\ f.op = "restore" /\ l # "idle" => ~f.was /\ s.cont # "running"

SafeAt(p, l, f, s) == Fits(p, l, f) /\ Down(l, s) /\ Ready(l, s) /\ PlanHolds(l, f, s)
Safe(p) == SafeAt(p, pc[p], fr[p], st[fr[p].app])

\* Containers that run have what can stop them, and every source has a version.
Sound(s) == (s.cont = "running" => s.bundle # 0 /\ s.compose) /\ s.source # 0

SafeInv == IndInv /\ (\A a \in Apps : Sound(st[a])) /\ \A p \in Procs : Safe(p)

-----------------------------------------------------------------------------
(* What the operators make of an app, as far as its copy, its containers and *)
(* its routes go, and what they leave of its data and backups.               *)

\* t is s with this copy, compose.yml, containers and routes.
Made(s, t, bundle, compose, cont, published) ==
    /\ t.bundle = bundle /\ t.compose = compose /\ t.cont = cont /\ t.published = published
    /\ t.source = s.source
Same(s, t) == Made(s, t, s.bundle, s.compose, s.cont, s.published)

\* t has the backups of s, and its data, unless neither has any.
KeepsData(s, t) ==
    /\ t.backups = s.backups
    /\ t.data \notin {NoDirs, NoData} => t.data = s.data

\* Opening a store,
LEMMA OpenedMakes ==
    ASSUME NEW s \in StateSet
    PROVE  Same(s, Opened(s)) /\ KeepsData(s, Opened(s))
<1> DEFINE v == IF s.config = NoFile THEN Empty ELSE s.config
<1> HIDE DEF v
<1>1. Same(s, [s EXCEPT !.config = v]) /\ KeepsData(s, [s EXCEPT !.config = v])
  BY DEF StateSet, Same, Made, KeepsData
<1> QED BY <1>1 DEF Opened, v

\* taking routes down,
LEMMA UnregisteredMakes ==
    ASSUME NEW s \in StateSet
    PROVE  /\ Made(s, unregistered(s), s.bundle, s.compose, s.cont, FALSE)
           /\ KeepsData(s, unregistered(s))
BY DEF StateSet, Made, KeepsData, unregistered

\* generating secrets,
LEMMA KeyedMakes ==
    ASSUME NEW s \in StateSet
    PROVE  Same(s, Keyed(s)) /\ KeepsData(s, Keyed(s))
<1> DEFINE n == s.gen + 1
<1> HIDE DEF n
<1>1. /\ Same(s, [s EXCEPT !.config = n, !.gen = n, !.pending = TRUE])
      /\ KeepsData(s, [s EXCEPT !.config = n, !.gen = n, !.pending = TRUE])
  BY DEF StateSet, Same, Made, KeepsData
<1> QED BY <1>1 DEF Keyed, n

\* making compose.yml and the volumes' directories,
LEMMA DerivedMakes ==
    ASSUME NEW s \in StateSet
    PROVE  /\ Made(s, Derived(s), s.bundle, TRUE, s.cont, s.published)
           /\ KeepsData(s, Derived(s))
<1> DEFINE d == IF s.data = NoDirs THEN NoData ELSE s.data
<1>1. d \notin {NoDirs, NoData} => d = s.data
  OBVIOUS
<1> HIDE DEF d
<1>2. /\ Made(s, [s EXCEPT !.compose = TRUE, !.data = d], s.bundle, TRUE, s.cont, s.published)
      /\ KeepsData(s, [s EXCEPT !.compose = TRUE, !.data = d])
  BY <1>1 DEF StateSet, Made, KeepsData
<1> QED BY <1>2 DEF Derived, d

\* removing the run directory,
LEMMA UnloadedMakes ==
    ASSUME NEW s \in StateSet
    PROVE  Made(s, Unloaded(s), 0, FALSE, s.cont, s.published)
BY DEF StateSet, Made, Unloaded

\* bringing containers up,
LEMMA UpMakes ==
    ASSUME NEW s \in StateSet
    PROVE  Made(s, Up(s), s.bundle, s.compose, "running", s.published)
<1> DEFINE d == IF s.data \in {NoDirs, NoData} THEN s.config ELSE s.data
<1> HIDE DEF d
<1>1. Made(s, [s EXCEPT !.cont = "running", !.data = d], s.bundle, s.compose, "running", s.published)
  BY DEF StateSet, Made
<1> QED BY <1>1 DEF Up, d

\* recording an action,
LEMMA RecordedMakes ==
    ASSUME NEW s \in StateSet, NEW p, NEW verb
    PROVE  Same(s, Recorded(p, s, verb)) /\ KeepsData(s, Recorded(p, s, verb))
<1> DEFINE w == Wish(p, s, verb)
           b == s.pending /\ verb \notin {"loaded", "started"}
<1> HIDE DEF w, b
<1>1. /\ Same(s, [s EXCEPT !.last = verb, !.wish = w, !.pending = b])
      /\ KeepsData(s, [s EXCEPT !.last = verb, !.wish = w, !.pending = b])
  BY DEF StateSet, Same, Made, KeepsData
<1> QED BY <1>1 DEF Recorded, w, b

\* taking a backup, and changing config or data.
LEMMA OthersMake ==
    ASSUME NEW s \in StateSet, NEW reason, NEW sources, NEW mode, NEW snap
    PROVE  /\ Same(s, Backed(s, reason, sources))
           /\ Same(s, Unconfigured(s)) /\ Same(s, Emptied(s, mode))
           /\ Same(s, Refilled(s, snap)) /\ Same(s, Reconfigured(s, snap))
<1>1. ASSUME NEW v PROVE Same(s, [s EXCEPT !.backups = v]) /\ Same(s, [s EXCEPT !.data = v])
  BY DEF StateSet, Same, Made
<1>2. Same(s, Backed(s, reason, sources))
  BY <1>1 DEF Backed
<1>3. Same(s, Emptied(s, mode)) /\ Same(s, Refilled(s, snap))
  BY <1>1, Zenon DEF Emptied, Refilled
<1>4. Same(s, Unconfigured(s)) /\ Same(s, Reconfigured(s, snap))
  BY DEF StateSet, Same, Made, Unconfigured, Reconfigured
<1> QED BY <1>2, <1>3, <1>4

-----------------------------------------------------------------------------
(* Where each step of a routine goes, and what it makes of its app. *)

\* From its label p goes to m, and its app from s to t.
RoutineMoves(p, m, s, t) ==
    \/ /\ pc[p] = "stop"
       /\ \/ m = "fail" /\ Same(s, t)
          \/ m = "stopped" /\ Made(s, t, s.bundle, s.compose, "none", s.published)
    \/ pc[p] = "stopped" /\ m = AfterStop(p) /\ Same(s, t)
    \/ /\ pc[p] = "load" /\ Same(s, t)
       /\ m = "fail" \/ (m = "commitOut" /\ s.cont # "running")
    \/ /\ pc[p] = "commitOut" /\ Made(s, t, 0, s.compose, s.cont, s.published)
       /\ m = IF s.bundle # 0 THEN "commitOver" ELSE "commitNew"
    \/ /\ pc[p] = "commitOver" /\ m = "takeDown"
       /\ Made(s, t, s.source, s.compose, s.cont, s.published)
    \/ /\ pc[p] = "commitNew" /\ m = "generate"
       /\ Made(s, t, s.source, s.compose, s.cont, s.published)
    \/ /\ pc[p] = "takeDown" /\ m = "generate"
       /\ \/ Made(s, t, s.bundle, s.compose, s.cont, FALSE)
          \/ faults' # 0 /\ Same(s, t)
    \/ pc[p] = "generate" /\ m = "materialize" /\ Same(s, t)
    \/ /\ pc[p] = "materialize"
       /\ \/ m = "fail" /\ faults' # 0 /\ Same(s, t)
          \/ m = "loaded" /\ Made(s, t, s.bundle, TRUE, s.cont, s.published)
    \/ pc[p] = "loaded" /\ m = AfterLoad(p) /\ Same(s, t)
    \/ /\ pc[p] = "start" /\ s.bundle = 0 /\ Same(s, t)
       /\ m = IF fr[p].op = "start" THEN "load" ELSE "fail"
    \/ /\ pc[p] = "start" /\ s.bundle # 0 /\ m = "blockers"
       /\ \/ Same(s, t)
          \/ Made(s, t, s.bundle, TRUE, s.cont, FALSE)
          \/ Made(s, t, s.bundle, TRUE, s.cont, s.published)
    \/ /\ pc[p] = "start" /\ m = "fail" /\ faults' # 0
       /\ Made(s, t, s.bundle, s.compose, s.cont, FALSE)
    \/ /\ pc[p] = "blockers" /\ Same(s, t)
       /\ (m = "composeUp" /\ s.compose) \/ (m = "fail" /\ (~s.compose \/ faults' # 0))
    \/ /\ pc[p] = "composeUp"
       /\ \/ m = "register" /\ Made(s, t, s.bundle, s.compose, "running", s.published)
          \/ m = "fail" /\ faults' # 0 /\ Same(s, t)
          \/ /\ m = "fail" /\ faults' # 0
             /\ Made(s, t, s.bundle, s.compose, "running", s.published)
    \/ /\ pc[p] = "register"
       /\ \/ m = "started" /\ Made(s, t, s.bundle, s.compose, s.cont, TRUE)
          \/ m = "fail" /\ faults' # 0 /\ Same(s, t)
    \/ pc[p] = "started" /\ m = AfterStart(p) /\ Same(s, t)

\* An app that is left alone stays the same.
LEMMA Unchanged == ASSUME NEW s PROVE Same(s, s) /\ KeepsData(s, s)
BY DEF Same, Made, KeepsData

\* One app given the state t has it.
LEMMA BecomesTakes ==
    ASSUME st \in [Apps -> StateSet], NEW p \in Procs, fr[p].app \in Apps, NEW t, Becomes(p, t)
    PROVE  st'[fr[p].app] = t
BY DEF Becomes

\* A failure is counted.
LEMMA FaultCounts == ASSUME faults \in Nat, Fault PROVE faults' # 0
BY DEF Fault

\* The steps of the routines are these moves.
LEMMA RoutinesMove ==
    ASSUME IndInv, NEW p \in Procs, fr[p].app \in Apps, Routines(p)
    PROVE  RoutineMoves(p, pc'[p], st[fr[p].app], st'[fr[p].app])
<1> DEFINE s == st[fr[p].app]
           t == st'[fr[p].app]
<1>0. /\ s \in StateSet /\ st \in [Apps -> StateSet] /\ faults \in Nat
      /\ pc \in [Procs -> Labels]
  BY DEF IndInv, LockInv, LockTypes
<1>a. \A l : Goto(p, l) => pc'[p] = l
  BY <1>0 DEF Goto
<1>b. UNCHANGED st => t = s
  OBVIOUS
<1>c. \A x : Becomes(p, x) => t = x
  BY <1>0, BecomesTakes
<1>d. Fault => faults' # 0
  BY <1>0, FaultCounts
<1> SUFFICES RoutineMoves(p, pc'[p], s, t)
  OBVIOUS
<1> USE <1>a, <1>b, <1>c, <1>d
<1> HIDE DEF t
<1>1. CASE Stop(p)
  <2>1. Made(s, [s EXCEPT !.cont = "none"], s.bundle, s.compose, "none", s.published)
    BY <1>0 DEF StateSet, Made
  <2>2. Same(s, Recorded(p, s, "stop-failed")) /\ Same(s, s)
    BY <1>0, RecordedMakes, Unchanged
  <2> QED BY <1>1, <2>1, <2>2 DEF Stop, At, RoutineMoves
<1>2. CASE StopRecorded(p)
  <2>1. \A verb : Same(s, Recorded(p, s, verb))
    BY <1>0, RecordedMakes
  <2> QED BY <1>2, <2>1 DEF StopRecorded, At, RoutineMoves
<1>3. CASE Load(p)
  BY <1>3, Unchanged DEF Load, LoadRefused, running, At, RoutineMoves
<1>4. CASE CommitOut(p)
  <2>1. Made(s, [s EXCEPT !.bundle = 0], 0, s.compose, s.cont, s.published)
    BY <1>0 DEF StateSet, Made
  <2> QED BY <1>4, <2>1 DEF CommitOut, At, RoutineMoves
<1>5. CASE CommitIn(p)
  <2>1. Made(s, [s EXCEPT !.bundle = s.source], s.source, s.compose, s.cont, s.published)
    BY <1>0 DEF StateSet, Made
  <2> QED BY <1>5, <2>1 DEF CommitIn, At, RoutineMoves
<1>6. CASE TakeDown(p)
  <2> DEFINE o == Opened(s)
  <2>1. Same(s, o) /\ o \in StateSet
    BY <1>0, OpenedMakes, OpenedType
  <2>2. Made(o, unregistered(o), o.bundle, o.compose, o.cont, FALSE)
    BY <2>1, UnregisteredMakes
  <2>3. Made(s, unregistered(o), s.bundle, s.compose, s.cont, FALSE)
    BY <2>1, <2>2 DEF Same, Made
  <2>4. /\ pc[p] = "takeDown" /\ pc'[p] = "generate"
        /\ t = unregistered(o) \/ (faults' # 0 /\ t = o)
    BY <1>6 DEF TakeDown, At
  <2> HIDE DEF o
  <2> QED BY <2>1, <2>3, <2>4 DEF RoutineMoves
<1>7. CASE GenerateConfig(p)
  <2>1. t = Keyed(s) \/ t = s
    BY <1>7 DEF GenerateConfig
  <2>2. Same(s, t)
    BY <1>0, <2>1, KeyedMakes, Unchanged
  <2> QED BY <1>7, <2>2 DEF GenerateConfig, At, RoutineMoves
<1>8. CASE Materialize(p)
  <2>1. Same(s, Recorded(p, s, "load-failed"))
    BY <1>0, RecordedMakes
  <2>2. Made(s, Derived(s), s.bundle, TRUE, s.cont, s.published)
    BY <1>0, DerivedMakes
  <2> QED BY <1>8, <2>1, <2>2 DEF Materialize, At, RoutineMoves
<1>9. CASE LoadRecorded(p)
  <2>1. Same(s, Recorded(p, s, "loaded"))
    BY <1>0, RecordedMakes
  <2> QED BY <1>9, <2>1 DEF LoadRecorded, At, RoutineMoves
<1>10. CASE Start(p)
  <2> DEFINE o == Opened(s)
             d == Derived(o)
  <2>1. Same(s, o) /\ o \in StateSet
    BY <1>0, OpenedMakes, OpenedType
  <2>2. Made(o, d, o.bundle, TRUE, o.cont, o.published) /\ d \in StateSet
    BY <2>1, DerivedMakes, DerivedType
  <2>3. /\ Made(d, unregistered(d), d.bundle, d.compose, d.cont, FALSE)
        /\ Made(o, unregistered(o), o.bundle, o.compose, o.cont, FALSE)
    BY <2>1, <2>2, UnregisteredMakes
  <2>4. /\ Made(s, d, s.bundle, TRUE, s.cont, s.published)
        /\ Made(s, unregistered(d), s.bundle, TRUE, s.cont, FALSE)
        /\ Made(s, unregistered(o), s.bundle, s.compose, s.cont, FALSE)
    BY <2>1, <2>2, <2>3 DEF Same, Made
  <2>5. /\ pc[p] = "start"
        /\ \/ /\ s.bundle = 0 /\ t = s
              /\ pc'[p] = IF fr[p].op = "start" THEN "load" ELSE "fail"
           \/ s.bundle # 0 /\ pc'[p] = "blockers" /\ t \in {o, unregistered(d), d}
           \/ pc'[p] = "fail" /\ faults' # 0 /\ t = unregistered(o)
    BY <1>10 DEF Start, At
  <2> HIDE DEF o, d
  <2> QED BY <2>1, <2>4, <2>5, Unchanged DEF RoutineMoves
<1>11. CASE Blockers(p)
  <2>1. Same(s, Recorded(p, s, "start-failed")) /\ Same(s, s)
    BY <1>0, RecordedMakes, Unchanged
  <2> QED BY <1>11, <2>1 DEF Blockers, At, RoutineMoves
<1>12. CASE ComposeUp(p)
  <2> DEFINE r == Recorded(p, s, "start-failed")
  <2>1. Same(s, r) /\ r \in StateSet
    BY <1>0, RecordedMakes, RecordedType DEF Actions
  <2>2. /\ Made(s, Up(s), s.bundle, s.compose, "running", s.published)
        /\ Made(r, Up(r), r.bundle, r.compose, "running", r.published)
    BY <1>0, <2>1, UpMakes
  <2>3. Made(s, Up(r), s.bundle, s.compose, "running", s.published)
    BY <2>1, <2>2 DEF Same, Made
  <2>4. /\ pc[p] = "composeUp"
        /\ \/ pc'[p] = "register" /\ t = Up(s)
           \/ pc'[p] = "fail" /\ faults' # 0 /\ (t = r \/ t = Up(r))
    BY <1>12 DEF ComposeUp, At
  <2> HIDE DEF r
  <2> QED BY <2>1, <2>2, <2>3, <2>4 DEF RoutineMoves
<1>13. CASE Register(p)
  <2>1. Made(s, [s EXCEPT !.published = TRUE], s.bundle, s.compose, s.cont, TRUE)
    BY <1>0 DEF StateSet, Made
  <2>2. Same(s, Recorded(p, s, "start-failed"))
    BY <1>0, RecordedMakes
  <2> QED BY <1>13, <2>1, <2>2 DEF Register, At, RoutineMoves
<1>14. CASE StartRecorded(p)
  <2>1. Same(s, Recorded(p, s, "started"))
    BY <1>0, RecordedMakes
  <2> QED BY <1>14, <2>1 DEF StartRecorded, At, RoutineMoves
<1> QED
  BY <1>1, <1>2, <1>3, <1>4, <1>5, <1>6, <1>7, <1>8, <1>9, <1>10, <1>11, <1>12,
     <1>13, <1>14 DEF Routines

-----------------------------------------------------------------------------
(* Where each step of a verb's body goes, and what it makes of its app. *)

BodyMoves(p, m, s, t) ==
    \/ /\ pc[p] = "enter" /\ Same(s, t)
       /\ m \in {"start", "stop", "done", "fail", "load", "unlockK", "rmRun", "preSnapshot",
                 "replaceData"}
       /\ m = "start" => fr[p].op \in Starters
       /\ m = "load" => fr[p].op = "load"
       /\ m = "unlockK" => fr[p].op \in {"backup", "update"}
       /\ m = "rmRun" => /\ fr[p].op \in Removes
                         /\ s.cont = "running" => fr[p].op = "rmCli" /\ ~fr[p].plan.stop
       /\ m \in {"preSnapshot", "replaceData"} => fr[p].op = "restore"
       /\ m = "stop" /\ fr[p].op = "restore" => s.cont = "running"
       /\ fr[p].op = "restore" /\ s.cont # "running" => (fr'[p].was => fr[p].was)
    \/ pc[p] = "updated" /\ m \in {"start", "done"} /\ Same(s, t) /\ fr' = fr
    \/ /\ pc[p] = "rmRun" /\ m = "rmConfig" /\ fr' = fr
       /\ \/ Same(s, t)
          \/ Made(s, t, 0, FALSE, s.cont, FALSE)
          \/ faults' # 0 /\ Made(s, t, 0, FALSE, s.cont, s.published)
    \/ /\ pc[p] \in {"rmConfig", "rmVolumes", "rmRecord"} /\ Same(s, t) /\ fr' = fr
       /\ m \in {"rmVolumes", "rmRecord", "fail", "done"}
    \/ /\ pc[p] \in {"preSnapshot", "replaceData", "replaceConfig"} /\ Same(s, t)
       /\ m \in {"start", "replaceData", "replaceConfig", "replaceRun", "fail"}
       /\ m = "start" => fr[p].was
       /\ fr'[p].was => fr[p].was
    \/ /\ pc[p] = "replaceRun" /\ m \in {"restored", "replaceBundle"} /\ fr' = fr
       /\ Made(s, t, 0, FALSE, s.cont, s.published)
    \/ /\ pc[p] = "replaceBundle" /\ m = "rebuild" /\ fr' = fr
       /\ Made(s, t, fr[p].snap.bundle, s.compose, s.cont, s.published)
    \/ /\ pc[p] = "rebuild" /\ fr' = fr
       /\ \/ m = "fail" /\ Same(s, t)
          \/ m = "restored" /\ Made(s, t, s.bundle, TRUE, s.cont, s.published)
    \/ pc[p] = "restored" /\ m = "done" /\ Same(s, t) /\ fr' = fr

\* Setting a flag or a plan leaves the rest of a frame.
LEMMA FrameRest ==
    ASSUME NEW f \in FrameSet, NEW b
    PROVE  /\ [f EXCEPT !.was = b].op = f.op /\ [f EXCEPT !.was = b].was = b
           /\ [f EXCEPT !.bad = b].op = f.op /\ [f EXCEPT !.bad = b].was = f.was
           /\ [f EXCEPT !.plan = b].op = f.op /\ [f EXCEPT !.plan = b].was = f.was
           /\ [f EXCEPT !.plan = b].bad = f.bad /\ [f EXCEPT !.was = b].bad = f.bad
BY DEF FrameSet

\* The frame p goes on with is of the same verb.
LEMMA BodyFrames ==
    ASSUME IndInv, NEW p \in Procs, Body(p), ~Snapshot(p)
    PROVE  fr'[p].op = fr[p].op
<1>0. fr \in [Procs -> FrameSet]
  BY DEF IndInv, LockInv, LockTypes
<1>1. \/ fr' = fr
      \/ \E b : fr' = [fr EXCEPT ![p].was = b]
      \/ \E b : fr' = [fr EXCEPT ![p].bad = b]
      \/ \E b : fr' = [fr EXCEPT ![p].plan = b]
  <2> USE DEF KeepFrame, KeepLocks
  <2>1. CASE EnterReload(p) \/ EnterBackup(p)
    BY <2>1 DEF EnterReload, EnterBackup
  <2>2. CASE EnterRemove(p) \/ EnterRestore(p) \/ PreSnapshot(p)
    BY <2>2 DEF EnterRemove, EnterRestore, PreSnapshot
  <2>3. CASE EnterSimple(p) \/ EnterConfig(p) \/ UpdateRecorded(p) \/ RemoveRun(p)
             \/ RemoveConfig(p) \/ RemoveVolumes(p) \/ RemoveRecorded(p)
    BY <2>3 DEF EnterSimple, EnterConfig, UpdateRecorded, RemoveRun, RemoveConfig,
       RemoveVolumes, RemoveRecorded
  <2>4. CASE ReplaceData(p) \/ ReplaceConfig(p) \/ ReplaceRun(p) \/ ReplaceBundle(p)
             \/ Rebuild(p) \/ RestoreRecorded(p)
    BY <2>4 DEF ReplaceData, ReplaceConfig, ReplaceRun, ReplaceBundle, Rebuild, RestoreRecorded
  <2> QED BY <2>1, <2>2, <2>3, <2>4 DEF Body
<1>2. ASSUME NEW b, fr' = [fr EXCEPT ![p].was = b] PROVE fr'[p].op = fr[p].op
  BY <1>0, <1>2, FrameRest
<1>3. ASSUME NEW b, fr' = [fr EXCEPT ![p].bad = b] PROVE fr'[p].op = fr[p].op
  BY <1>0, <1>3, FrameRest
<1>4. ASSUME NEW b, fr' = [fr EXCEPT ![p].plan = b] PROVE fr'[p].op = fr[p].op
  BY <1>0, <1>4, FrameRest
<1> QED BY <1>1, <1>2, <1>3, <1>4

\* The steps of the bodies are these moves.
LEMMA BodyMove ==
    ASSUME IndInv, NEW p \in Procs, fr[p].app \in Apps, Body(p), ~Snapshot(p)
    PROVE  BodyMoves(p, pc'[p], st[fr[p].app], st'[fr[p].app])
<1> DEFINE a == fr[p].app
           s == st[fr[p].app]
           t == st'[fr[p].app]
<1>0. /\ s \in StateSet /\ st \in [Apps -> StateSet] /\ faults \in Nat
      /\ pc \in [Procs -> Labels] /\ fr \in [Procs -> FrameSet]
  BY DEF IndInv, LockInv, LockTypes
<1>a. \A l : Goto(p, l) => pc'[p] = l
  BY <1>0 DEF Goto
<1>b. UNCHANGED st => t = s
  OBVIOUS
<1>c. \A x : Becomes(p, x) => t = x
  BY <1>0, BecomesTakes
<1>d. Fault => faults' # 0
  BY <1>0, FaultCounts
<1>e. \A ops, l : Enter(p, ops, l) => pc[p] = "enter" /\ fr[p].op \in ops /\ pc'[p] = l
  BY <1>a DEF Enter, At
<1>f. Same(s, s)
  BY Unchanged
<1> SUFFICES BodyMoves(p, pc'[p], s, t)
  OBVIOUS
<1> USE <1>a, <1>b, <1>c, <1>d, <1>e, <1>f
<1> HIDE DEF t
<1>1. CASE EnterSimple(p)
  <2>1. /\ pc[p] = "enter" /\ t = s /\ fr' = fr
        /\ \/ fr[p].op = "start" /\ pc'[p] = "start"
           \/ fr[p].op \in {"stop"} \cup Downs /\ pc'[p] = "stop"
           \/ fr[p].op \in Ups /\ pc'[p] \in {"done", "start"}
           \/ fr[p].op = "restart" /\ pc'[p] \in {"fail", "stop", "start"}
    BY <1>1 DEF EnterSimple, KeepFrame
  <2> QED BY <2>1 DEF BodyMoves, Starters, Ups, Downs
<1>2. CASE EnterConfig(p)
  <2> DEFINE o == Opened(s)
  <2>1. Same(s, o) /\ o \in StateSet
    BY <1>0, OpenedMakes, OpenedType
  <2>2. /\ pc[p] = "enter" /\ fr[p].op = "config" /\ pc'[p] = "done"
        /\ t = o \/ t = [o EXCEPT !.pending = TRUE]
    BY <1>2 DEF EnterConfig
  <2> HIDE DEF o
  <2>3. Same(o, [o EXCEPT !.pending = TRUE])
    BY <2>1 DEF StateSet, Same, Made
  <2>4. Same(s, t)
    BY <2>1, <2>2, <2>3 DEF Same, Made
  <2> QED BY <2>2, <2>4 DEF BodyMoves
<1>3. CASE EnterReload(p)
  <2>1. /\ pc[p] = "enter" /\ fr[p].op = "load" /\ t = s
        /\ pc'[p] \in {"fail", "stop", "load"}
    BY <1>3 DEF EnterReload
  <2> QED BY <2>1 DEF BodyMoves
<1>4. CASE EnterBackup(p)
  <2>1. /\ pc[p] = "enter" /\ fr[p].op \in {"backup", "update"} /\ t = s
        /\ pc'[p] \in {"stop", "unlockK"}
    BY <1>4 DEF EnterBackup
  <2> QED BY <2>1 DEF BodyMoves
<1>5. CASE EnterRemove(p)
  <2> DEFINE plan == IF fr[p].op = "rm" THEN removal_plan(a, fr[p].arg) ELSE fr[p].plan
  <2>1. /\ pc[p] = "enter" /\ fr[p].op \in Removes /\ t = s
        /\ \/ pc'[p] = "fail"
           \/ /\ fr[p].op = "rm" => ~PlanRefused(a, fr[p].arg)
              /\ pc'[p] = IF plan.stop THEN "stop" ELSE "rmRun"
    BY <1>5 DEF EnterRemove
  <2>2. CASE pc'[p] = "rmRun"
    <3>1. CASE fr[p].op = "rm"
      <4>1. ~plan.stop /\ ~PlanRefused(a, fr[p].arg)
        BY <2>1, <2>2, <3>1
      <4>2. plan.stop = (unloads(fr[p].arg) /\ s.compose /\ containers(a))
        BY <3>1 DEF removal_plan
      <4>3. s.cont # "running"
        BY <4>1, <4>2 DEF PlanRefused, unloads, containers, running
      <4> QED BY <2>1, <2>2, <3>1, <4>3 DEF BodyMoves, Removes
    <3>2. CASE fr[p].op = "rmCli"
      BY <2>1, <2>2, <3>2 DEF BodyMoves, Removes
    <3> QED BY <2>1, <3>1, <3>2 DEF Removes
  <2>3. CASE pc'[p] # "rmRun"
    <3>1. pc'[p] \in {"fail", "stop"}
      BY <2>1, <2>3
    <3> QED BY <2>1, <3>1 DEF BodyMoves, Removes
  <2> QED BY <2>2, <2>3
<1>6. CASE EnterRestore(p)
  <2> DEFINE was == is_loaded(a) /\ running(a)
  <2>1. /\ pc[p] = "enter" /\ fr[p].op = "restore" /\ t = s
        /\ fr' = fr \/ fr' = [fr EXCEPT ![p].was = was]
        /\ pc'[p] \in {"fail", "stop", "preSnapshot", "replaceData"}
        /\ pc'[p] = "stop" => was
        /\ fr' = fr \/ (pc'[p] \in {"stop", "preSnapshot"} /\ pc'[p] = IF was THEN "stop" ELSE "preSnapshot")
    BY <1>6 DEF EnterRestore, At
  <2>2. was => s.cont = "running"
    BY DEF running
  <2> HIDE DEF was
  <2>3. ASSUME fr' = [fr EXCEPT ![p].was = was] PROVE fr'[p].was = was
    BY <1>0, <2>3, FrameRest
  <2>4. fr'[p].was => fr[p].was \/ was
    BY <2>1, <2>3
  <2> QED BY <2>1, <2>2, <2>4 DEF BodyMoves
<1>7. CASE UpdateRecorded(p)
  <2>1. Same(s, Recorded(p, s, "updated"))
    BY <1>0, RecordedMakes
  <2> QED BY <1>7, <2>1 DEF UpdateRecorded, KeepFrame, At, BodyMoves
<1>8. CASE RemoveRun(p)
  <2> DEFINE u == unregistered(s)
  <2>1. Made(s, u, s.bundle, s.compose, s.cont, FALSE) /\ u \in StateSet
    BY <1>0, UnregisteredMakes, UnregisteredType
  <2>2. Made(u, Unloaded(u), 0, FALSE, u.cont, u.published)
        /\ Made(s, Unloaded(s), 0, FALSE, s.cont, s.published)
    BY <1>0, <2>1, UnloadedMakes
  <2>3. Made(s, Unloaded(u), 0, FALSE, s.cont, FALSE)
    BY <2>1, <2>2 DEF Made
  <2>4. /\ pc[p] = "rmRun" /\ pc'[p] = "rmConfig" /\ fr' = fr
        /\ t = s \/ t = Unloaded(u) \/ (faults' # 0 /\ t = Unloaded(s))
    BY <1>8 DEF RemoveRun, KeepFrame, At
  <2> HIDE DEF u
  <2> QED BY <2>2, <2>3, <2>4 DEF BodyMoves
<1>9. CASE RemoveConfig(p)
  <2>1. t = Unconfigured(s) \/ t = s
    BY <1>9 DEF RemoveConfig
  <2>2. Same(s, t)
    BY <1>0, <2>1, OthersMake
  <2> QED BY <1>9, <2>2 DEF RemoveConfig, KeepFrame, At, BodyMoves
<1>10. CASE RemoveVolumes(p)
  <2>1. t = Emptied(s, fr[p].arg) \/ t = s
    BY <1>10 DEF RemoveVolumes
  <2>2. Same(s, t)
    BY <1>0, <2>1, OthersMake
  <2> QED BY <1>10, <2>2 DEF RemoveVolumes, KeepFrame, At, BodyMoves
<1>11. CASE RemoveRecorded(p)
  <2>1. \A verb : Same(s, Recorded(p, s, verb))
    BY <1>0, RecordedMakes
  <2> QED BY <1>11, <2>1 DEF RemoveRecorded, KeepFrame, At, BodyMoves
<1>12. CASE PreSnapshot(p)
  <2>1. t = Backed(s, "pre-restore", app_sources(a)) \/ t = s
    BY <1>12 DEF PreSnapshot
  <2>2. Same(s, t)
    BY <1>0, <2>1, OthersMake
  <2>3. ASSUME fr' = [fr EXCEPT ![p].bad = TRUE] PROVE fr'[p].was = fr[p].was
    BY <1>0, <2>3, FrameRest
  <2>4. fr'[p].was => fr[p].was
    BY <1>12, <2>3 DEF PreSnapshot
  <2>5. /\ pc[p] = "preSnapshot" /\ pc'[p] \in {"start", "replaceData", "fail"}
        /\ pc'[p] = "start" => fr[p].was
    BY <1>12 DEF PreSnapshot, At
  <2> QED BY <2>2, <2>4, <2>5 DEF BodyMoves
<1>13. CASE ReplaceData(p)
  <2>1. t = Refilled(s, fr[p].snap) \/ t = s
    BY <1>13 DEF ReplaceData
  <2>2. Same(s, t)
    BY <1>0, <2>1, OthersMake
  <2> QED BY <1>13, <2>2 DEF ReplaceData, KeepFrame, At, BodyMoves
<1>14. CASE ReplaceConfig(p)
  <2>1. Same(s, Reconfigured(s, fr[p].snap))
    BY <1>0, OthersMake
  <2> QED BY <1>14, <2>1 DEF ReplaceConfig, KeepFrame, At, BodyMoves
<1>15. CASE ReplaceRun(p)
  <2>1. Made(s, Unloaded(s), 0, FALSE, s.cont, s.published)
    BY <1>0, UnloadedMakes
  <2> QED BY <1>15, <2>1 DEF ReplaceRun, KeepFrame, At, BodyMoves
<1>16. CASE ReplaceBundle(p)
  <2>1. \A b : Made(s, [s EXCEPT !.bundle = b], b, s.compose, s.cont, s.published)
    BY <1>0 DEF StateSet, Made
  <2> QED BY <1>16, <2>1 DEF ReplaceBundle, KeepFrame, At, BodyMoves
<1>17. CASE Rebuild(p)
  <2>1. Same(s, Recorded(p, s, "restore-failed"))
    BY <1>0, RecordedMakes
  <2>2. Made(s, Derived(s), s.bundle, TRUE, s.cont, s.published)
    BY <1>0, DerivedMakes
  <2> QED BY <1>17, <2>1, <2>2 DEF Rebuild, KeepFrame, At, BodyMoves
<1>18. CASE RestoreRecorded(p)
  <2>1. Same(s, Recorded(p, s, "restored"))
    BY <1>0, RecordedMakes
  <2> QED BY <1>18, <2>1 DEF RestoreRecorded, KeepFrame, At, BodyMoves
<1> QED
  BY <1>1, <1>2, <1>3, <1>4, <1>5, <1>6, <1>7, <1>8, <1>9, <1>10, <1>11, <1>12,
     <1>13, <1>14, <1>15, <1>16, <1>17, <1>18 DEF Body

-----------------------------------------------------------------------------
(* What is true of a process and its app stays true through its own steps. *)

\* The routines leave the frame alone.
LEMMA RoutinesFrame == ASSUME NEW p \in Procs, Routines(p) PROVE fr' = fr
<1> USE DEF KeepFrame
<1>1. CASE Stop(p) \/ StopRecorded(p) \/ Load(p) \/ CommitOut(p) \/ CommitIn(p)
           \/ TakeDown(p) \/ GenerateConfig(p)
  BY <1>1 DEF Stop, StopRecorded, Load, CommitOut, CommitIn, TakeDown, GenerateConfig
<1>2. CASE Materialize(p) \/ LoadRecorded(p) \/ Start(p) \/ Blockers(p) \/ ComposeUp(p)
           \/ Register(p) \/ StartRecorded(p)
  BY <1>2 DEF Materialize, LoadRecorded, Start, Blockers, ComposeUp, Register, StartRecorded
<1> QED BY <1>1, <1>2 DEF Routines

\* A step of a routine.
LEMMA RoutinesSafe ==
    ASSUME SafeInv, NEW p \in Procs, fr[p].app \in Apps, Routines(p), UNCHANGED scene
    PROVE  Safe(p)' /\ Sound(st[fr[p].app])'
<1> DEFINE s == st[fr[p].app]
           t == st'[fr[p].app]
           m == pc'[p]
<1>0. RoutineMoves(p, m, s, t) /\ fr' = fr
  BY RoutinesMove, RoutinesFrame DEF SafeInv
<1>1. SafeAt(p, pc[p], fr[p], s) /\ Sound(s)
  BY DEF SafeInv, Safe
<1> SUFFICES SafeAt(p, m, fr[p], t) /\ Sound(t)
  BY <1>0 DEF Safe, SafeAt, Fits, Down, Ready, PlanHolds, Sound
<1> HIDE DEF t, m
<1> USE <1>0, <1>1 DEF RoutineMoves, SafeAt, Fits, Down, Ready, PlanHolds, Sound, Same,
        Made, StartLabels, LoadLabels, ReadLabels, RemoveLabels, RestoreLabels, Starters
<1>3. CASE pc[p] = "stop"
  BY <1>3
<1>4. CASE pc[p] = "stopped"
  BY <1>4 DEF AfterStop
<1>5. CASE pc[p] \in {"load", "commitOut", "commitOver", "commitNew"}
  BY <1>5
<1>6. CASE pc[p] \in {"takeDown", "generate", "materialize"}
  BY <1>6
<1>7. CASE pc[p] = "loaded"
  BY <1>7 DEF AfterLoad
<1>8. CASE pc[p] = "start"
  BY <1>8
<1>9. CASE pc[p] = "blockers"
  BY <1>9
<1>10. CASE pc[p] = "composeUp"
  BY <1>10 DEF Ups
<1>11. CASE pc[p] = "register"
  BY <1>11
<1>12. CASE pc[p] = "started"
  BY <1>12 DEF AfterStart
<1> QED BY <1>3, <1>4, <1>5, <1>6, <1>7, <1>8, <1>9, <1>10, <1>11, <1>12

\* A step of a verb's body, the reading of a backup apart.
LEMMA BodySafe ==
    ASSUME SafeInv, NEW p \in Procs, fr[p].app \in Apps, Body(p), ~Snapshot(p),
           UNCHANGED scene
    PROVE  Safe(p)' /\ Sound(st[fr[p].app])'
<1> DEFINE s == st[fr[p].app]
           t == st'[fr[p].app]
           m == pc'[p]
           g == fr'[p]
<1>0. BodyMoves(p, m, s, t) /\ g.op = fr[p].op /\ g.app = fr[p].app
  BY BodyMove, BodyFrames, BodyInside DEF SafeInv, IndInv, Inside
<1>1. SafeAt(p, pc[p], fr[p], s) /\ Sound(s)
  BY DEF SafeInv, Safe
<1>2. g = fr'[p]
  OBVIOUS
<1> SUFFICES SafeAt(p, m, g, t) /\ Sound(t)
  BY <1>0 DEF Safe, SafeAt, Fits, Down, Ready, PlanHolds, Sound
<1> HIDE DEF t, m, g
<1> USE <1>0, <1>1, <1>2 DEF BodyMoves, SafeAt, Fits, Down, Ready, PlanHolds, Sound, Same,
        Made, StartLabels, LoadLabels, ReadLabels, RemoveLabels, RestoreLabels
<1>3. CASE pc[p] = "enter"
  BY <1>3 DEF Removes
<1>4. CASE pc[p] = "updated"
  BY <1>4 DEF Starters
<1>5. CASE pc[p] \in RemoveLabels
  BY <1>5 DEF Removes
<1>6. CASE pc[p] \in {"preSnapshot", "replaceData", "replaceConfig"}
  BY <1>6
<1>7. CASE pc[p] \in {"replaceRun", "replaceBundle", "rebuild", "restored"}
  BY <1>7
<1> QED BY <1>3, <1>4, <1>5, <1>6, <1>7

\* A process that gives its verb up, or goes on to the next app of a sweep.
LEMMA LeftSafe ==
    ASSUME SafeInv, NEW p \in Procs, pc[p] # "idle", UNCHANGED scene,
           pc'[p] = Leave(p), fr'[p] = Left(p)
    PROVE  Safe(p)'
<1>1. fr[p].op \in scene.does[p] /\ fr \in [Procs -> FrameSet]
  BY DEF SafeInv, Safe, SafeAt, Fits, IndInv, LockInv, LockTypes
<1>2. CASE fr[p].op \in Sweeps
  <2>1. pc'[p] = "nextApp" /\ fr'[p] = [fr[p] EXCEPT !.app = NoApp]
    BY <1>2 DEF Leave, Left
  <2>2. fr'[p].op = fr[p].op
    BY <1>1, <2>1 DEF FrameSet
  <2> QED
    BY <1>1, <1>2, <2>1, <2>2 DEF Safe, SafeAt, Fits, Down, Ready, PlanHolds, StartLabels,
       LoadLabels, ReadLabels, RemoveLabels, RestoreLabels, Sweeps, Ups, Downs
<1>3. CASE fr[p].op \notin Sweeps
  <2>1. pc'[p] = "idle"
    BY <1>3 DEF Leave
  <2> QED
    BY <2>1 DEF Safe, SafeAt, Fits, Down, Ready, PlanHolds, StartLabels, LoadLabels,
       ReadLabels, RemoveLabels, RestoreLabels
<1> QED BY <1>2, <1>3

\* The reading of a backup.
LEMMA SnapshotSafe ==
    ASSUME SafeInv, NEW p \in Procs, fr[p].app \in Apps, Snapshot(p), UNCHANGED scene
    PROVE  Safe(p)' /\ Same(st[fr[p].app], st'[fr[p].app])
<1> DEFINE s == st[fr[p].app]
           t == st'[fr[p].app]
<1>0. /\ s \in StateSet /\ st \in [Apps -> StateSet] /\ pc \in [Procs -> Labels]
      /\ fr \in [Procs -> FrameSet] /\ pc[p] = "snapshot" /\ SafeAt(p, pc[p], fr[p], s)
  BY DEF SafeInv, IndInv, LockInv, LockTypes, Snapshot, At, Safe
<1>1. t = s \/ t = Backed(s, Reason(p), app_sources(fr[p].app))
  BY <1>0, BecomesTakes DEF Snapshot
<1>2. Same(s, t)
  BY <1>0, <1>1, OthersMake, Unchanged
<1>3. \/ pc'[p] = Leave(p) /\ fr'[p] = Left(p)
      \/ pc'[p] = "relock" /\ (fr' = fr \/ fr' = [fr EXCEPT ![p].bad = TRUE])
  BY <1>0 DEF Snapshot, GiveUp, Goto, KeepFrame
<1>4. CASE pc'[p] = Leave(p) /\ fr'[p] = Left(p)
  BY <1>0, <1>2, <1>4, LeftSafe
<1>5. CASE pc'[p] = "relock" /\ (fr' = fr \/ fr' = [fr EXCEPT ![p].bad = TRUE])
  <2>1. ASSUME fr' = [fr EXCEPT ![p].bad = TRUE] PROVE fr'[p].op = fr[p].op
    BY <1>0, <2>1, FrameRest
  <2>2. fr'[p].op = fr[p].op
    BY <1>5, <2>1
  <2>3. Safe(p)'
    BY <1>0, <1>5, <2>2 DEF Safe, SafeAt, Fits, Down, Ready, PlanHolds, StartLabels,
       LoadLabels, ReadLabels, RemoveLabels, RestoreLabels
  <2> QED BY <1>2, <2>3
<1> QED BY <1>3, <1>4, <1>5

\* Sweeping, locking and unlocking.
LEMMA LockingSafe ==
    ASSUME SafeInv, NEW p \in Procs, Locking(p), UNCHANGED scene
    PROVE  Safe(p)'
<1>0. /\ UNCHANGED st /\ SafeAt(p, pc[p], fr[p], st[fr[p].app])
      /\ pc \in [Procs -> Labels] /\ fr \in [Procs -> FrameSet]
  BY LockingUntouched DEF SafeInv, IndInv, LockInv, LockTypes, Safe
<1> USE <1>0 DEF At, Goto
<1>1. CASE SweepGroup(p)
  <2> DEFINE f == fr[p]
  <2>1. CASE f.todo = {}
    <3>1. pc'[p] = "idle"
      BY <1>1, <2>1 DEF SweepGroup
    <3> QED
      BY <3>1 DEF Safe, SafeAt, Fits, Down, Ready, PlanHolds, StartLabels, LoadLabels,
         ReadLabels, RemoveLabels, RestoreLabels
  <2>2. CASE f.todo # {}
    <3>1. PICK todo, batch : fr' = [fr EXCEPT ![p] = [f EXCEPT !.todo = todo, !.batch = batch]]
      BY <1>1, <2>2 DEF SweepGroup
    <3>2. fr'[p].op = f.op /\ fr'[p].app = f.app
      BY <3>1 DEF FrameSet
    <3>3. pc[p] = "nextGroup" /\ pc'[p] = "nextApp"
      BY <1>1, <2>2 DEF SweepGroup
    <3> QED
      BY <3>2, <3>3 DEF Safe, SafeAt, Fits, Down, Ready, PlanHolds, StartLabels, LoadLabels,
         ReadLabels, RemoveLabels, RestoreLabels, Sweeps, Ups, Downs
  <2> QED BY <2>1, <2>2
<1>2. CASE SweepApp(p)
  <2>1. /\ pc[p] = "nextApp" /\ pc'[p] \in {"nextGroup", "nextApp", "lockA"}
        /\ fr' = fr \/ \E left, b : fr' = [fr EXCEPT ![p] = [fr[p] EXCEPT !.batch = left, !.app = b]]
    BY <1>2 DEF SweepApp
  <2>2. ASSUME NEW left, NEW b,
               fr' = [fr EXCEPT ![p] = [fr[p] EXCEPT !.batch = left, !.app = b]]
        PROVE  fr'[p].op = fr[p].op
    BY <2>2 DEF FrameSet
  <2>3. fr'[p].op = fr[p].op
    BY <2>1, <2>2
  <2> QED
    BY <2>1, <2>3 DEF Safe, SafeAt, Fits, Down, Ready, PlanHolds, StartLabels, LoadLabels,
       ReadLabels, RemoveLabels, RestoreLabels, Sweeps, Ups, Downs
<1>3. CASE LockTimeout(p) \/ BackupRefused(p) \/ Unlock(p)
  <2>1. pc[p] # "idle" /\ pc'[p] = Leave(p) /\ fr'[p] = Left(p)
    BY <1>3 DEF LockTimeout, BackupRefused, Unlock, GiveUp
  <2> QED BY <2>1, LeftSafe
<1>4. CASE LockApp(p) \/ LockKelso(p) \/ LockKelsoAgain(p) \/ UnlockKelso(p)
  <2>1. /\ fr' = fr
        /\ \/ pc[p] = "lockA" /\ pc'[p] = "snapshot" /\ fr[p].op = "backup"
           \/ pc[p] = "lockA" /\ pc'[p] = "lockK"
           \/ pc[p] = "lockK" /\ pc'[p] = "enter"
           \/ pc[p] = "relock" /\ pc'[p] = "load" /\ fr[p].op = "update"
           \/ pc[p] = "relock" /\ pc'[p] = "start"
           \/ pc[p] = "unlockK" /\ pc'[p] = "snapshot"
    BY <1>4 DEF LockApp, LockKelso, LockKelsoAgain, UnlockKelso
  <2> QED
    BY <2>1 DEF Safe, SafeAt, Fits, Down, Ready, PlanHolds, StartLabels, LoadLabels,
       ReadLabels, RemoveLabels, RestoreLabels, Starters
<1> QED BY <1>1, <1>2, <1>3, <1>4 DEF Locking

-----------------------------------------------------------------------------
(* It stays true through the steps of others. *)

\* What one process has locked no other process changes.
LEMMA ElsewhereSame ==
    ASSUME IndInv, NEW p \in Procs, NEW q \in Procs, q # p, Owns(p), pc[p] \in AppHeld,
           pc[q] \in AppHeld
    PROVE  fr[q].app \in Apps /\ fr[p].app # fr[q].app /\ st'[fr[q].app] = st[fr[q].app]
<1>1. fr[q].app \in Apps /\ fr[p].app \in Apps
  BY DEF IndInv, LockInv, Placed
<1>2. appLock[fr[q].app] = q /\ appLock[fr[p].app] = p
  BY <1>1 DEF IndInv, LockInv, MutualExclusion
<1>3. fr[q].app # fr[p].app
  BY <1>2
<1> QED BY <1>1, <1>3 DEF Owns, Becomes, IndInv

\* A process that has nothing locked and no plan goes by nothing it has read.
LEMMA UnplannedSafe ==
    ASSUME NEW q \in Procs, Safe(q), pc'[q] = pc[q], fr'[q] = fr[q], UNCHANGED scene,
           pc[q] \in {"idle", "lockA", "nextGroup", "nextApp"},
           pc[q] = "lockA" => fr[q].op \notin Planned
    PROVE  Safe(q)'
BY DEF Safe, SafeAt, Fits, Down, Ready, PlanHolds, StartLabels, LoadLabels, ReadLabels,
   RemoveLabels, RestoreLabels, Sweeps, Ups, Downs, Planned

\* A plan holds while its app changes hands, as long as nothing starts it.
LEMMA PlannedSafe ==
    ASSUME NEW q \in Procs, Safe(q), pc'[q] = pc[q], fr'[q] = fr[q], UNCHANGED scene,
           pc[q] = "lockA",
           st'[fr[q].app].cont = "running" => st[fr[q].app].cont = "running"
    PROVE  Safe(q)'
BY DEF Safe, SafeAt, Fits, Down, Ready, PlanHolds, StartLabels, LoadLabels, ReadLabels,
   RemoveLabels, RestoreLabels

\* A step of p under its locks leaves what is true of q.
LEMMA OthersSafe ==
    ASSUME SafeInv, PlansApart, NEW p \in Procs, NEW q \in Procs, q # p,
           pc'[q] = pc[q], fr'[q] = fr[q], UNCHANGED scene, pc[p] \in AppHeld, Owns(p),
           \/ st'[fr[p].app].cont = "running" => st[fr[p].app].cont = "running"
           \/ pc[p] = "composeUp"
    PROVE  Safe(q)'
<1>0. IndInv /\ Safe(q) /\ Safe(p) /\ pc \in [Procs -> Labels] /\ scene \in Scenes
  BY DEF SafeInv, IndInv, LockInv, LockTypes
<1>1. CASE pc[q] \in AppHeld
  <2>1. st'[fr[q].app] = st[fr[q].app]
    BY <1>0, <1>1, ElsewhereSame
  <2> QED BY <1>0, <2>1 DEF Safe, SafeAt, Fits
<1>2. CASE pc[q] = "lockA" /\ fr[q].op \in Planned
  <2>1. fr[q].app \in Apps /\ fr[p].app \in Apps
    BY <1>0, <1>2 DEF IndInv, LockInv, Placed
  <2>2. fr[q].op \in scene.does[q] /\ fr[p].op \in scene.does[p]
    BY <1>0, <1>2 DEF Safe, SafeAt, Fits, AppHeld, BothHeld
  <2>3. scene.does[q] \cap Planned # {}
    BY <1>2, <2>2
  <2>4. scene.does[p] \cap Starters = {}
    BY <1>0, <2>3 DEF PlansApart
  <2>5. pc[p] # "composeUp"
    BY <1>0, <2>2, <2>4 DEF Safe, SafeAt, Fits, StartLabels
  <2>6. st'[fr[q].app].cont = "running" => st[fr[q].app].cont = "running"
    BY <1>0, <2>1, <2>5 DEF Owns, Becomes, IndInv
  <2> QED BY <1>0, <1>2, <2>6, PlannedSafe
<1>3. CASE pc[q] \notin AppHeld /\ ~(pc[q] = "lockA" /\ fr[q].op \in Planned)
  <2>1. pc[q] \in {"idle", "lockA", "nextGroup", "nextApp"}
    BY <1>0, <1>3 DEF Labels
  <2> QED BY <1>0, <1>3, <2>1, UnplannedSafe
<1> QED BY <1>1, <1>2, <1>3

\* A step that leaves the copy, compose.yml and containers of every app leaves what is
\* true of a process that takes no step.
LEMMA UntouchedSafe ==
    ASSUME SafeInv, NEW q \in Procs, pc'[q] = pc[q], fr'[q] = fr[q], UNCHANGED scene,
           \A a \in Apps : /\ st'[a].cont = st[a].cont /\ st'[a].bundle = st[a].bundle
                           /\ st'[a].compose = st[a].compose
    PROVE  Safe(q)'
<1>0. Safe(q) /\ pc \in [Procs -> Labels]
  BY DEF SafeInv, IndInv, LockInv, LockTypes
<1>1. CASE pc[q] \in AppHeld \cup {"lockA"}
  <2>1. fr[q].app \in Apps
    BY <1>1 DEF SafeInv, IndInv, LockInv, Placed
  <2> QED BY <1>0, <2>1 DEF Safe, SafeAt, Fits, Down, Ready, PlanHolds
<1>2. CASE pc[q] \notin AppHeld \cup {"lockA"}
  <2>1. pc[q] \in {"idle", "nextGroup", "nextApp"}
    BY <1>0, <1>2 DEF Labels
  <2> QED BY <1>0, <2>1, UnplannedSafe
<1> QED BY <1>1, <1>2

\* A step inside a verb changes no other process.
LEMMA InsideElsewhere ==
    ASSUME IndInv, NEW p \in Procs, Body(p) \/ Routines(p), NEW q \in Procs, q # p
    PROVE  pc'[q] = pc[q] /\ fr'[q] = fr[q]
<1> USE DEF At, Goto, KeepFrame, KeepLocks, Enter, IndInv, LockInv, LockTypes
<1>1. CASE Routines(p)
  <2>1. fr' = fr
    BY <1>1, RoutinesFrame
  <2>2. pc'[q] = pc[q]
    BY <1>1 DEF Routines, Stop, StopRecorded, Load, CommitOut, CommitIn, TakeDown,
       GenerateConfig, Materialize, LoadRecorded, Start, Blockers, ComposeUp, Register,
       StartRecorded
  <2> QED BY <2>1, <2>2
<1>2. CASE EnterSimple(p) \/ EnterConfig(p) \/ EnterReload(p) \/ EnterBackup(p)
           \/ UpdateRecorded(p) \/ EnterRemove(p) \/ EnterRestore(p)
  BY <1>2 DEF EnterSimple, EnterConfig, EnterReload, EnterBackup, UpdateRecorded, EnterRemove,
     EnterRestore
<1>3. CASE Snapshot(p)
  BY <1>3 DEF Snapshot, GiveUp
<1>4. CASE RemoveRun(p) \/ RemoveConfig(p) \/ RemoveVolumes(p) \/ RemoveRecorded(p)
           \/ PreSnapshot(p)
  BY <1>4 DEF RemoveRun, RemoveConfig, RemoveVolumes, RemoveRecorded, PreSnapshot
<1>5. CASE ReplaceData(p) \/ ReplaceConfig(p) \/ ReplaceRun(p) \/ ReplaceBundle(p)
           \/ Rebuild(p) \/ RestoreRecorded(p)
  BY <1>5 DEF ReplaceData, ReplaceConfig, ReplaceRun, ReplaceBundle, Rebuild, RestoreRecorded
<1> QED BY <1>1, <1>2, <1>3, <1>4, <1>5 DEF Body

\* Only `compose up` starts containers.
LEMMA OnlyUpStarts ==
    ASSUME NEW p, NEW m, NEW s, NEW t,
           RoutineMoves(p, m, s, t) \/ BodyMoves(p, m, s, t) \/ Same(s, t)
    PROVE  (t.cont = "running" => s.cont = "running") \/ pc[p] = "composeUp"
<1>1. CASE RoutineMoves(p, m, s, t)
  BY <1>1 DEF RoutineMoves, Same, Made
<1>2. CASE BodyMoves(p, m, s, t)
  BY <1>2 DEF BodyMoves, Same, Made
<1>3. CASE Same(s, t)
  BY <1>3 DEF Same, Made
<1> QED BY <1>1, <1>2, <1>3

\* Every step of a verb keeps the invariant.
LEMMA StepSafe ==
    ASSUME SafeInv, PlansApart, NEW p \in Procs, Step(p)
    PROVE  SafeInv'
<1>0. /\ IndInv /\ LockInv /\ st \in [Apps -> StateSet] /\ fr \in [Procs -> FrameSet]
      /\ UNCHANGED scene /\ \A a \in Apps : Sound(st[a])
  BY DEF SafeInv, IndInv, LockInv, LockTypes, Step
<1>1. IndInv'
  BY <1>0, StepKeeps
<1>2. CASE Body(p) \/ Routines(p)
  <2>1. pc[p] \in AppHeld /\ fr[p].app \in Apps /\ Owns(p)
    <3>1. CASE Snapshot(p)
      <4>1. pc[p] \in AppHeld /\ fr[p].app \in Apps
        BY <1>0, <3>1 DEF Snapshot, At, AppHeld, LockInv, Placed
      <4> QED BY <1>0, <3>1, <4>1, BodyOwns DEF Body
    <3>2. CASE ~Snapshot(p)
      <4>1. Inside(p)
        BY <1>0, <1>2, <3>2, BodyInside, RoutinesInside
      <4>2. pc[p] \in AppHeld /\ fr[p].app \in Apps
        BY <1>0, <4>1 DEF Inside, AppHeld, LockInv, Placed
      <4> QED BY <1>0, <1>2, <4>2, BodyOwns, RoutinesOwn
    <3> QED BY <3>1, <3>2
  <2> DEFINE s == st[fr[p].app]
             t == st'[fr[p].app]
  <2>2. /\ Safe(p)' /\ Sound(t)
        /\ (t.cont = "running" => s.cont = "running") \/ pc[p] = "composeUp"
    <3>1. CASE Routines(p)
      <4>1. fr'[p].app = fr[p].app
        BY <3>1, RoutinesFrame
      <4>2. Safe(p)' /\ Sound(t)
        BY <1>0, <2>1, <3>1, <4>1, RoutinesSafe
      <4> QED BY <1>0, <2>1, <3>1, <4>2, RoutinesMove, OnlyUpStarts
    <3>2. CASE Body(p) /\ ~Snapshot(p)
      <4>1. fr'[p].app = fr[p].app
        BY <1>0, <3>2, BodyInside DEF Inside
      <4>2. Safe(p)' /\ Sound(t)
        BY <1>0, <2>1, <3>2, <4>1, BodySafe
      <4> QED BY <1>0, <2>1, <3>2, <4>2, BodyMove, OnlyUpStarts
    <3>3. CASE Snapshot(p)
      <4>1. Safe(p)' /\ Same(s, t)
        BY <1>0, <2>1, <3>3, SnapshotSafe
      <4>2. Sound(t)
        BY <1>0, <2>1, <4>1 DEF Sound, Same, Made
      <4> QED BY <4>1, <4>2, OnlyUpStarts
    <3> QED BY <1>2, <3>1, <3>2, <3>3
  <2>3. \A q \in Procs \ {p} : pc'[q] = pc[q] /\ fr'[q] = fr[q]
    BY <1>0, <1>2, InsideElsewhere
  <2>4. \A q \in Procs \ {p} : Safe(q)'
    BY <1>0, <2>1, <2>2, <2>3, OthersSafe
  <2>5. \A a \in Apps : Sound(st[a])'
    <3>1. \A a \in Apps \ {fr[p].app} : st'[a] = st[a]
      BY <1>0, <2>1 DEF Owns, Becomes
    <3>2. \A a \in Apps : Sound(st'[a])
      BY <1>0, <2>2, <3>1
    <3> QED BY <3>2 DEF Sound
  <2>6. \A q \in Procs : Safe(q)'
    BY <2>2, <2>4
  <2> QED BY <1>1, <2>5, <2>6 DEF SafeInv
<1>3. CASE Locking(p)
  <2>1. UNCHANGED st /\ \A q \in Procs \ {p} : pc'[q] = pc[q] /\ fr'[q] = fr[q]
    BY <1>0, <1>3, LockingUntouched
  <2>2. Safe(p)'
    BY <1>0, <1>3, LockingSafe
  <2>3. \A q \in Procs \ {p} : Safe(q)'
    BY <1>0, <2>1, UntouchedSafe
  <2>4. \A q \in Procs : Safe(q)'
    BY <2>2, <2>3
  <2>5. \A a \in Apps : Sound(st[a])'
    BY <1>0, <2>1 DEF Sound
  <2> QED BY <1>1, <2>4, <2>5 DEF SafeInv
<1> QED BY <1>2, <1>3 DEF Step

-----------------------------------------------------------------------------
(* What happens outside the locks. *)

\* What is read before the locks opens stores, and changes nothing else.
LEMMA AskingSame ==
    ASSUME IndInv, NEW p \in Procs, Asking(p), NEW a \in Apps
    PROVE  Same(st[a], st'[a]) /\ KeepsData(st[a], st'[a])
<1>0. st \in [Apps -> StateSet]
  BY DEF IndInv
<1>1. st'[a] = st[a] \/ st'[a] = Opened(st[a])
  <2>1. CASE \E op \in OneApp, b \in scene.apps : AskApp(p, op, b)
    BY <1>0, <2>1 DEF AskApp
  <2>2. CASE \E op \in Removes, b \in scene.apps, mode \in Modes : AskRemove(p, op, b, mode)
    BY <2>2 DEF AskRemove
  <2>3. CASE \E b \in scene.apps, reason \in Reasons : AskRestore(p, b, reason)
    BY <2>3 DEF AskRestore
  <2>4. CASE \E op \in Sweeps : AskSweep(p, op)
    BY <2>4 DEF AskSweep
  <2> QED BY <2>1, <2>2, <2>3, <2>4 DEF Asking
<1> QED BY <1>0, <1>1, OpenedMakes, Unchanged

\* Whoever asks has a plan that holds, if any.
LEMMA AskedSafe ==
    ASSUME SafeInv, NEW p \in Procs, Asking(p), UNCHANGED scene
    PROVE  Safe(p)'
<1>0. /\ pc \in [Procs -> Labels] /\ fr \in [Procs -> FrameSet] /\ IndInv
      /\ st \in [Apps -> StateSet] /\ scene.apps \subseteq Apps
  BY ConstantsAssumption DEF SafeInv, IndInv, LockInv, LockTypes, SceneSet
<1> USE <1>0 DEF Ask, At, Goto
<1>1. ASSUME NEW op \in OneApp, NEW a \in scene.apps, AskApp(p, op, a) PROVE Safe(p)'
  <2>1. op \in scene.does[p] /\ fr'[p] = Frame(op, a, "-") /\ pc'[p] = "lockA"
    BY <1>1 DEF AskApp
  <2>2. fr'[p].op = op
    BY <2>1 DEF Frame
  <2> QED
    BY <2>1, <2>2 DEF Safe, SafeAt, Fits, Down, Ready, PlanHolds, StartLabels, LoadLabels,
       ReadLabels, RemoveLabels, RestoreLabels, OneApp
<1>2. ASSUME NEW op \in Removes, NEW a \in scene.apps, NEW mode \in Modes,
             AskRemove(p, op, a, mode)
      PROVE  Safe(p)'
  <2> DEFINE plan == IF op = "rmCli" THEN removal_plan(a, mode) ELSE NoPlan
             f == [Frame(op, a, mode) EXCEPT !.plan = plan]
  <2>1. op \in scene.does[p] /\ fr'[p] = f /\ pc'[p] = "lockA" /\ st' = st
    BY <1>2 DEF AskRemove
  <2>2. f.op = op /\ f.app = a /\ f.plan = plan
    BY DEF Frame
  <2>3. op = "rmCli" /\ st[a].cont = "running" => plan.stop
    <3>1. op = "rmCli" => ~PlanRefused(a, mode)
      BY <1>2 DEF AskRemove
    <3> QED BY <3>1 DEF PlanRefused, removal_plan, unloads, containers, running
  <2> HIDE DEF f, plan
  <2> QED
    BY <2>1, <2>2, <2>3 DEF Safe, SafeAt, Fits, Down, Ready, PlanHolds, StartLabels, LoadLabels,
       ReadLabels, RemoveLabels, RestoreLabels, Removes
<1>3. ASSUME NEW a \in scene.apps, NEW reason \in Reasons, AskRestore(p, a, reason)
      PROVE  Safe(p)'
  <2> DEFINE f == [Frame("restore", a, reason) EXCEPT !.snap = st[a].backups[reason]]
  <2>1. /\ "restore" \in scene.does[p] /\ fr'[p] = f /\ pc'[p] = "lockA" /\ st' = st
        /\ st[a].cont # "running"
    BY <1>3 DEF AskRestore, Restorable, running
  <2>2. f.op = "restore" /\ f.app = a /\ f.was = FALSE
    BY DEF Frame
  <2> HIDE DEF f
  <2> QED
    BY <2>1, <2>2 DEF Safe, SafeAt, Fits, Down, Ready, PlanHolds, StartLabels, LoadLabels,
       ReadLabels, RemoveLabels, RestoreLabels
<1>4. ASSUME NEW op \in Sweeps, AskSweep(p, op) PROVE Safe(p)'
  <2> DEFINE todo == {a \in Apps : is_loaded(a) /\ Group[a] \in Covered(op)}
             f == [Frame(op, NoApp, "-") EXCEPT !.todo = todo]
  <2>1. op \in scene.does[p] /\ fr'[p] = f /\ pc'[p] = "nextGroup"
    BY <1>4 DEF AskSweep
  <2> HIDE DEF todo
  <2>2. f.op = op
    BY DEF Frame
  <2> HIDE DEF f
  <2> QED
    BY <2>1, <2>2 DEF Safe, SafeAt, Fits, Down, Ready, PlanHolds, StartLabels, LoadLabels,
       ReadLabels, RemoveLabels, RestoreLabels, Sweeps, Ups, Downs
<1> QED BY <1>1, <1>2, <1>3, <1>4 DEF Asking

\* Asking for a verb keeps the invariant.
LEMMA AskingSafe ==
    ASSUME SafeInv, NEW p \in Procs, Asking(p), UNCHANGED scene
    PROVE  SafeInv'
<1>0. IndInv
  BY DEF SafeInv
<1>1. IndInv'
  BY <1>0, AskingKeeps
<1>2. \A a \in Apps : Same(st[a], st'[a])
  BY <1>0, AskingSame
<1>3. \A a \in Apps : Sound(st[a])'
  BY <1>2 DEF SafeInv, Sound, Same, Made
<1>4. \A q \in Procs \ {p} : pc'[q] = pc[q] /\ fr'[q] = fr[q]
  BY <1>0, AskingBegins DEF Begins, IndInv, LockInv, LockTypes
<1>5. \A q \in Procs \ {p} : Safe(q)'
  BY <1>2, <1>4, UntouchedSafe DEF Same, Made
<1>6. \A q \in Procs : Safe(q)'
  BY <1>5, AskedSafe
<1> QED BY <1>1, <1>3, <1>6 DEF SafeInv

\* An idle process is at nothing.
LEMMA IdleSafe == ASSUME NEW q \in Procs, pc'[q] = "idle" PROVE Safe(q)'
BY DEF Safe, SafeAt, Fits, Down, Ready, PlanHolds, StartLabels, LoadLabels, ReadLabels,
   RemoveLabels, RestoreLabels

\* The death of a process keeps it,
LEMMA CrashSafe ==
    ASSUME SafeInv, NEW p \in Procs, Crash(p), UNCHANGED scene
    PROVE  SafeInv'
<1>0. IndInv /\ pc \in [Procs -> Labels] /\ fr \in [Procs -> FrameSet]
  BY DEF SafeInv, IndInv, LockInv, LockTypes
<1>1. IndInv' /\ UNCHANGED st
  BY <1>0, CrashStays DEF Crash
<1>2. \A q \in Procs \ {p} : pc'[q] = pc[q] /\ fr'[q] = fr[q]
  BY <1>0 DEF Crash, Goto
<1>3. \A q \in Procs \ {p} : Safe(q)'
  BY <1>1, <1>2, UntouchedSafe
<1>4. Safe(p)'
  BY <1>0, IdleSafe DEF Crash, Goto
<1>5. \A q \in Procs : Safe(q)'
  BY <1>3, <1>4
<1> QED BY <1>1, <1>5 DEF SafeInv, Sound

\* a reboot,
LEMMA RebootSafe ==
    ASSUME SafeInv, Reboot, UNCHANGED scene
    PROVE  SafeInv'
<1>0. IndInv /\ st \in [Apps -> StateSet]
  BY DEF SafeInv, IndInv
<1>1. IndInv'
  BY <1>0, RebootStays
<1>2. \A q \in Procs : Safe(q)'
  BY IdleSafe DEF Reboot
<1>3. ASSUME NEW a \in Apps PROVE Sound(st[a])'
  <2>1. st'[a] = st[a] \/ st'[a] = [st[a] EXCEPT !.cont = "exited"]
    BY DEF Reboot
  <2>2. st'[a].source = st[a].source /\ (st'[a] = st[a] \/ st'[a].cont = "exited")
    BY <1>0, <2>1 DEF StateSet
  <2> QED BY <2>2 DEF SafeInv, Sound
<1> QED BY <1>1, <1>2, <1>3 DEF SafeInv

\* and a new version at the source.
LEMMA SourceMovesSafe ==
    ASSUME SafeInv, NEW a \in scene.apps, SourceMoves(a), UNCHANGED scene
    PROVE  SafeInv'
<1>0. IndInv /\ st \in [Apps -> StateSet] /\ a \in Apps
  BY ConstantsAssumption DEF SafeInv, IndInv, LockInv, LockTypes, SceneSet
<1>1. IndInv'
  BY <1>0, SourceMovesKeeps
<1> DEFINE s == st[a]
           n == s.source + 1
           m == [s EXCEPT !.source = n]
<1>2. st' = [st EXCEPT ![a] = m] /\ s \in StateSet /\ n # 0
  BY <1>0, Typed DEF SourceMoves
<1> HIDE DEF n
<1>3. m.source = n /\ m.cont = s.cont /\ m.bundle = s.bundle /\ m.compose = s.compose
  BY <1>2 DEF StateSet
<1> HIDE DEF m
<1>4. \A b \in Apps : /\ st'[b].cont = st[b].cont /\ st'[b].bundle = st[b].bundle
                      /\ st'[b].compose = st[b].compose /\ (b = a \/ st'[b] = st[b])
  BY <1>0, <1>2, <1>3
<1>5. \A b \in Apps : Sound(st[b])'
  BY <1>0, <1>2, <1>3, <1>4 DEF SafeInv, Sound
<1>6. \A q \in Procs : Safe(q)'
  BY <1>4, UntouchedSafe DEF SourceMoves
<1> QED BY <1>1, <1>5, <1>6 DEF SafeInv

\* It holds at first,
LEMMA SafeInit == ASSUME Init PROVE SafeInv
<1>1. IndInv
  BY InitInv
<1>2. \A a \in Apps : Sound(st[a])
  BY DEF Init, Fresh, Sound
<1>3. \A p \in Procs : pc[p] = "idle"
  BY DEF Init
<1>4. \A p \in Procs : Safe(p)
  BY <1>3 DEF Safe, SafeAt, Fits, Down, Ready, PlanHolds, StartLabels, LoadLabels,
     ReadLabels, RemoveLabels, RestoreLabels
<1> QED BY <1>1, <1>2, <1>4 DEF SafeInv

\* and after every step.
LEMMA SafeNext == ASSUME PlansApart, SafeInv, [Next]_vars PROVE SafeInv'
<1>1. CASE \E p \in Procs : Step(p)
  BY <1>1, StepSafe
<1>2. CASE \E p \in Procs : (Asking(p) \/ Crash(p)) /\ UNCHANGED scene
  BY <1>2, AskingSafe, CrashSafe
<1>3. CASE \E a \in scene.apps : SourceMoves(a) /\ UNCHANGED scene
  BY <1>3, SourceMovesSafe
<1>4. CASE Reboot /\ UNCHANGED scene
  BY <1>4, RebootSafe
<1>5. CASE UNCHANGED vars
  <2>1. IndInv'
    BY <1>5, StutterInv DEF SafeInv
  <2>2. \A q \in Procs : Safe(q)'
    BY <1>5, UntouchedSafe DEF vars
  <2> QED BY <1>5, <2>1, <2>2 DEF SafeInv, Sound, vars
<1> QED BY <1>1, <1>2, <1>3, <1>4, <1>5 DEF Next

\* The invariant holds of every behaviour in which nothing starts an app behind a plan.
THEOREM SafeAlways == ASSUME PlansApart PROVE Spec => []SafeInv
<1>1. Init => SafeInv
  BY SafeInit
<1>2. SafeInv /\ [Next]_vars => SafeInv'
  BY SafeNext
<1> QED BY <1>1, <1>2, PTL DEF Spec

\* Containers that run always have the loaded copy and the compose.yml that can stop
\* them, wherever a load, an update, a removal or a restore is cut short.
THEOREM NeverOrphaned == ASSUME PlansApart PROVE Spec => []NoOrphans
<1>1. SafeInv => NoOrphans
  BY DEF SafeInv, Sound, NoOrphans, running, is_loaded
<1> QED BY <1>1, SafeAlways, PTL

\* Volumes are replaced, emptied or deleted only while no container runs.
THEOREM NeverClobbered == ASSUME PlansApart PROVE Spec => []NoClobber
<1>1. SafeInv => NoClobber
  BY DEF SafeInv, Safe, SafeAt, Fits, Down, PlanHolds, NoClobber, Clobbers, running,
     RemoveLabels, RestoreLabels
<1> QED BY <1>1, SafeAlways, PTL

-----------------------------------------------------------------------------
(* Routes. *)

\* The label of whoever holds an app.
HolderAt(a) == IF appLock[a] = NoProc THEN "idle" ELSE pc[appLock[a]]

\* An app whose routes are down runs only while a start is about to publish them, and
\* one that is not loaded has routes only while a load is about to take them down.
RoutedAt(l, s) ==
    /\ s.cont = "running" /\ ~s.published => l \in {"blockers", "composeUp", "register"}
    /\ s.published /\ s.bundle = 0 => l = "commitOver"

\* This holds of every app until something fails or is killed.
RouteInv ==
    SafeInv /\ (faults = 0 /\ crashes = 0 => \A a \in Apps : RoutedAt(HolderAt(a), st[a]))

\* Nothing undoes a failure or a crash.
LEMMA FaultsStay ==
    ASSUME IndInv, [Next]_vars
    PROVE  /\ faults' = 0 => faults = 0
           /\ crashes' = 0 => crashes = 0
<1>0. faults \in Nat /\ crashes \in Nat
  BY DEF IndInv, LockInv, LockTypes
<1> USE <1>0 DEF Fault, NoFault, KeepFrame, KeepLocks
<1>1. ASSUME NEW p \in Procs, Routines(p)
      PROVE  (faults' = faults \/ faults' = faults + 1) /\ crashes' = crashes
  BY <1>1 DEF Routines, Stop, StopRecorded, Load, CommitOut, CommitIn, TakeDown,
     GenerateConfig, Materialize, LoadRecorded, Start, Blockers, ComposeUp, Register,
     StartRecorded
<1>2. ASSUME NEW p \in Procs, Body(p)
      PROVE  (faults' = faults \/ faults' = faults + 1) /\ crashes' = crashes
  <2>1. CASE EnterSimple(p) \/ EnterConfig(p) \/ EnterReload(p) \/ EnterBackup(p)
             \/ UpdateRecorded(p) \/ EnterRemove(p) \/ EnterRestore(p) \/ Snapshot(p)
    BY <2>1 DEF EnterSimple, EnterConfig, EnterReload, EnterBackup, UpdateRecorded,
       EnterRemove, EnterRestore, Snapshot, GiveUp, Enter
  <2>2. CASE RemoveRun(p) \/ RemoveConfig(p) \/ RemoveVolumes(p) \/ RemoveRecorded(p)
             \/ PreSnapshot(p)
    BY <2>2 DEF RemoveRun, RemoveConfig, RemoveVolumes, RemoveRecorded, PreSnapshot
  <2>3. CASE ReplaceData(p) \/ ReplaceConfig(p) \/ ReplaceRun(p) \/ ReplaceBundle(p)
             \/ Rebuild(p) \/ RestoreRecorded(p)
    BY <2>3 DEF ReplaceData, ReplaceConfig, ReplaceRun, ReplaceBundle, Rebuild,
       RestoreRecorded
  <2> QED BY <1>2, <2>1, <2>2, <2>3 DEF Body
<1>3. ASSUME NEW p \in Procs, Locking(p)
      PROVE  (faults' = faults \/ faults' = faults + 1) /\ crashes' = crashes
  BY <1>3 DEF Locking, SweepGroup, SweepApp, LockApp, LockKelso, LockKelsoAgain, LockTimeout,
     BackupRefused, UnlockKelso, Unlock, GiveUp
<1>4. ASSUME NEW p \in Procs, Asking(p) PROVE faults' = faults /\ crashes' = crashes
  BY <1>4 DEF Asking, AskApp, AskRemove, AskRestore, AskSweep, Ask
<1>5. ASSUME NEW p \in Procs, Crash(p) PROVE faults' = faults /\ crashes' = crashes + 1
  BY <1>5 DEF Crash
<1>6. ASSUME Reboot PROVE faults' = faults /\ crashes' = crashes + 1
  BY <1>6 DEF Reboot
<1>7. ASSUME NEW a \in scene.apps, SourceMoves(a) PROVE faults' = faults /\ crashes' = crashes
  BY <1>7 DEF SourceMoves
<1>8. CASE UNCHANGED vars
  BY <1>8 DEF vars
<1> QED BY <1>1, <1>2, <1>3, <1>4, <1>5, <1>6, <1>7, <1>8 DEF Next, Step

\* A step of a verb that is no restore, and in which nothing fails, leaves its app with
\* the routes it should have.
LEMMA MovesRouted ==
    ASSUME NEW p, NEW s, NEW t, NEW m, faults' = 0, SafeAt(p, pc[p], fr[p], s), Sound(s),
           RoutedAt(pc[p], s), fr[p].op # "restore",
           RoutineMoves(p, m, s, t) \/ BodyMoves(p, m, s, t)
    PROVE  RoutedAt(m, t)
<1> USE DEF RoutedAt, SafeAt, Down, Ready, Sound, Same, Made, LoadLabels, RemoveLabels
<1>1. CASE RoutineMoves(p, m, s, t)
  <2> USE <1>1 DEF RoutineMoves
  <2>1. CASE pc[p] \in {"stop", "stopped", "load"}
    BY <2>1
  <2>2. CASE pc[p] \in {"commitOut", "commitOver", "commitNew"}
    BY <2>2
  <2>3. CASE pc[p] \in {"takeDown", "generate", "materialize", "loaded"}
    BY <2>3
  <2>4. CASE pc[p] = "start"
    BY <2>4
  <2>5. CASE pc[p] \in {"blockers", "composeUp", "register", "started"}
    BY <2>5
  <2> QED BY <2>1, <2>2, <2>3, <2>4, <2>5
<1>2. CASE BodyMoves(p, m, s, t)
  <2>1. pc[p] \notin RestoreLabels
    BY DEF Fits
  <2> QED BY <1>2, <2>1 DEF BodyMoves, RestoreLabels
<1> QED BY <1>1, <1>2

\* An app at a label where nothing is about to be done to its routes has the right ones.
LEMMA Settled ==
    ASSUME NEW l, NEW s, RoutedAt(l, s), l \notin {"blockers", "composeUp", "register", "commitOver"}
    PROVE  \A m, t : Same(s, t) => RoutedAt(m, t)
BY DEF RoutedAt, Same, Made

\* An app that others leave alone keeps its routes.
LEMMA ElsewhereRouted ==
    ASSUME NEW a \in Apps, RoutedAt(HolderAt(a), st[a]), Same(st[a], st'[a]),
           appLock'[a] = appLock[a],
           appLock[a] # NoProc => pc'[appLock[a]] = pc[appLock[a]]
    PROVE  RoutedAt(HolderAt(a), st[a])'
<1>1. HolderAt(a)' = HolderAt(a)
  BY DEF HolderAt
<1>2. RoutedAt(HolderAt(a), st'[a])
  BY DEF RoutedAt, Same, Made
<1> QED BY <1>1, <1>2 DEF RoutedAt

\* A step of a verb, with nothing failing, leaves every app with the right routes.
LEMMA StepRouted ==
    ASSUME RouteInv, NoRestores, NEW p \in Procs, Step(p), faults' = 0, crashes' = 0,
           faults = 0, crashes = 0, NEW a \in Apps
    PROVE  RoutedAt(HolderAt(a), st[a])'
<1>0. /\ SafeInv /\ IndInv /\ LockInv /\ st \in [Apps -> StateSet] /\ pc \in [Procs -> Labels]
      /\ appLock \in [Apps -> Procs \cup {NoProc}] /\ fr \in [Procs -> FrameSet]
      /\ UNCHANGED scene /\ RoutedAt(HolderAt(a), st[a]) /\ NoProc \notin Procs
      /\ scene \in Scenes
  BY ConstantsAssumption DEF RouteInv, SafeInv, IndInv, LockInv, LockTypes, Step
<1>a. ASSUME pc[p] \in AppHeld
      PROVE  appLock[a] = p <=> fr[p].app = a
  BY <1>0, <1>a DEF LockInv, MutualExclusion
<1>1. CASE (Body(p) /\ ~Snapshot(p)) \/ Routines(p)
  <2>1. Inside(p)
    BY <1>0, <1>1, BodyInside, RoutinesInside
  <2>2. pc[p] \in AppHeld /\ fr[p].app \in Apps /\ appLock' = appLock
    BY <1>0, <2>1 DEF Inside, AppHeld, LockInv, Placed
  <2>3. Owns(p)
    BY <1>0, <1>1, <2>2, BodyOwns, RoutinesOwn
  <2>4. CASE fr[p].app = a
    <3>1. HolderAt(a) = pc[p] /\ HolderAt(a)' = pc'[p]
      BY <1>0, <1>a, <2>2, <2>4 DEF HolderAt
    <3>2. RoutineMoves(p, pc'[p], st[a], st'[a]) \/ BodyMoves(p, pc'[p], st[a], st'[a])
      BY <1>0, <1>1, <2>2, <2>4, RoutinesMove, BodyMove
    <3>3. SafeAt(p, pc[p], fr[p], st[a]) /\ Sound(st[a])
      BY <1>0, <2>4 DEF SafeInv, Safe
    <3>4. fr[p].op # "restore"
      <4>1. pc[p] # "idle"
        BY <2>2 DEF AppHeld, BothHeld
      <4> QED BY <1>0, <3>3, <4>1 DEF SafeAt, Fits, NoRestores
    <3>5. RoutedAt(pc'[p], st'[a])
      BY <1>0, <3>1, <3>2, <3>3, <3>4, MovesRouted
    <3> QED BY <3>1, <3>5 DEF RoutedAt
  <2>5. CASE fr[p].app # a
    <3>1. st'[a] = st[a] /\ Same(st[a], st'[a])
      BY <1>0, <2>3, <2>5, Unchanged DEF Owns, Becomes
    <3>2. appLock[a] # NoProc => pc'[appLock[a]] = pc[appLock[a]]
      BY <1>0, <1>1, <1>a, <2>2, <2>5, InsideElsewhere
    <3> QED BY <1>0, <2>2, <3>1, <3>2, ElsewhereRouted
  <2> QED BY <2>4, <2>5
<1>2. CASE Snapshot(p)
  <2>1. pc[p] = "snapshot" /\ fr[p].app \in Apps /\ pc[p] \in AppHeld
    BY <1>0, <1>2 DEF Snapshot, At, AppHeld, LockInv, Placed
  <2>2. CASE fr[p].app = a
    <3>1. HolderAt(a) = "snapshot"
      BY <1>0, <1>a, <2>1, <2>2 DEF HolderAt
    <3>2. Same(st[a], st'[a])
      BY <1>0, <1>2, <2>1, <2>2, SnapshotSafe
    <3>3. \A m : RoutedAt(m, st'[a])
      BY <1>0, <3>1, <3>2, Settled
    <3> QED BY <3>3 DEF RoutedAt
  <2>3. CASE fr[p].app # a
    <3>1. Owns(p)
      BY <1>0, <1>2, <2>1, BodyOwns DEF Body
    <3>2. st'[a] = st[a] /\ Same(st[a], st'[a])
      BY <1>0, <2>3, <3>1, Unchanged DEF Owns, Becomes
    <3>3. appLock[a] # p
      BY <1>a, <2>1, <2>3
    <3>4. appLock'[a] = appLock[a]
      BY <1>0, <1>2, <3>3 DEF Snapshot, GiveUp, KeepFrame, KeepLocks
    <3>5. appLock[a] # NoProc => pc'[appLock[a]] = pc[appLock[a]]
      BY <1>0, <1>2, <3>3, InsideElsewhere DEF Body
    <3> QED BY <1>0, <3>2, <3>4, <3>5, ElsewhereRouted
  <2> QED BY <2>2, <2>3
<1>3. CASE Locking(p)
  <2>1. UNCHANGED st /\ \A q \in Procs \ {p} : pc'[q] = pc[q]
    BY <1>0, <1>3, LockingUntouched
  <2>2. Same(st[a], st'[a])
    BY <2>1, Unchanged
  <2>3. CASE appLock[a] \in {p, NoProc}
    <3>1. HolderAt(a) \notin {"blockers", "composeUp", "register", "commitOver"}
      <4>1. pc[p] \notin {"blockers", "composeUp", "register", "commitOver"}
        BY <1>3 DEF Locking, SweepGroup, SweepApp, LockApp, LockKelso, LockKelsoAgain,
           LockTimeout, BackupRefused, UnlockKelso, Unlock, At
      <4> QED BY <2>3, <4>1 DEF HolderAt
    <3>2. \A m : RoutedAt(m, st'[a])
      BY <1>0, <2>2, <3>1, Settled
    <3> QED BY <3>2 DEF RoutedAt
  <2>4. CASE appLock[a] \notin {p, NoProc}
    <3>1. appLock'[a] = appLock[a]
      <4>1. CASE LockApp(p)
        BY <1>0, <2>4, <4>1 DEF LockApp
      <4>2. CASE LockTimeout(p) \/ BackupRefused(p)
        BY <1>0, <2>4, <4>2 DEF LockTimeout, BackupRefused, GiveUp
      <4>3. CASE Unlock(p)
        <5>1. fr[p].app # a
          BY <1>a, <2>4, <4>3 DEF Unlock, At, AppHeld, BothHeld
        <5> QED BY <1>0, <4>3, <5>1 DEF Unlock
      <4>4. CASE SweepGroup(p) \/ SweepApp(p) \/ LockKelso(p) \/ LockKelsoAgain(p)
                 \/ UnlockKelso(p)
        BY <4>4 DEF SweepGroup, SweepApp, LockKelso, LockKelsoAgain, UnlockKelso, KeepLocks
      <4> QED BY <1>3, <4>1, <4>2, <4>3, <4>4 DEF Locking
    <3> QED BY <1>0, <2>1, <2>2, <2>4, <3>1, ElsewhereRouted
  <2> QED BY <2>3, <2>4
<1> QED BY <1>1, <1>2, <1>3 DEF Step

\* Neither does asking, or a source that moves on.
LEMMA AskingRouted ==
    ASSUME RouteInv, NEW a \in Apps, RoutedAt(HolderAt(a), st[a]),
           \/ \E p \in Procs : Asking(p) /\ UNCHANGED scene
           \/ \E b \in scene.apps : SourceMoves(b)
           \/ UNCHANGED vars
    PROVE  RoutedAt(HolderAt(a), st[a])'
<1>0. /\ IndInv /\ LockInv /\ st \in [Apps -> StateSet] /\ pc \in [Procs -> Labels]
      /\ appLock \in [Apps -> Procs \cup {NoProc}]
  BY DEF RouteInv, SafeInv, IndInv, LockInv, LockTypes
<1>1. CASE \E p \in Procs : Asking(p) /\ UNCHANGED scene
  <2>1. PICK p \in Procs : Asking(p) /\ UNCHANGED scene
    BY <1>1
  <2>2. Begins(p) /\ Same(st[a], st'[a])
    BY <1>0, <2>1, AskingBegins, AskingSame
  <2>3. appLock[a] # p
    BY <1>0, <2>2 DEF Begins, LockInv, MutualExclusion, AppHeld, BothHeld
  <2>4. appLock' = appLock /\ \A q \in Procs \ {p} : pc'[q] = pc[q]
    BY <1>0, <2>2 DEF Begins
  <2> QED BY <1>0, <2>2, <2>3, <2>4, ElsewhereRouted
<1>2. CASE \E b \in scene.apps : SourceMoves(b)
  <2>1. PICK b \in scene.apps : SourceMoves(b)
    BY <1>2
  <2> DEFINE m == [st[b] EXCEPT !.source = st[b].source + 1]
  <2>2. (st'[a] = st[a] \/ (a = b /\ st'[a] = m)) /\ UNCHANGED <<appLock, pc>>
    BY <1>0, <2>1 DEF SourceMoves
  <2>3. a = b => /\ m.cont = st[a].cont /\ m.bundle = st[a].bundle
                 /\ m.published = st[a].published
    BY <1>0 DEF StateSet
  <2> HIDE DEF m
  <2>4. HolderAt(a)' = HolderAt(a)
    BY <2>2 DEF HolderAt
  <2>5. /\ st'[a].cont = st[a].cont /\ st'[a].bundle = st[a].bundle
        /\ st'[a].published = st[a].published
    BY <2>2, <2>3
  <2> QED BY <2>4, <2>5 DEF RoutedAt
<1>3. CASE UNCHANGED vars
  BY <1>3 DEF RoutedAt, HolderAt, vars
<1> QED BY <1>1, <1>2, <1>3

\* While nothing is under way and no verb was cut short, an app that runs has its routes
\* published, and no routes are published of one that is not loaded.
THEOREM RoutesAlwaysStand == ASSUME PlansApart, NoRestores PROVE Spec => []RoutesStand
<1>1. Init => RouteInv
  <2> SUFFICES ASSUME Init PROVE \A a \in Apps : RoutedAt(HolderAt(a), st[a])
    BY SafeInit DEF RouteInv
  <2>1. Fresh.cont # "running" /\ ~Fresh.published
    BY DEF Fresh
  <2>2. \A a \in Apps : st[a] = Fresh
    BY DEF Init
  <2> QED BY <2>1, <2>2 DEF RoutedAt
<1>2. RouteInv /\ [Next]_vars => RouteInv'
  <2> SUFFICES ASSUME RouteInv, [Next]_vars PROVE RouteInv'
    OBVIOUS
  <2>0. SafeInv /\ PlansApart
    BY DEF RouteInv
  <2>1. SafeInv'
    BY <2>0, SafeNext
  <2>2. ASSUME faults' = 0, crashes' = 0, NEW a \in Apps
        PROVE  RoutedAt(HolderAt(a), st[a])'
    <3>1. faults = 0 /\ crashes = 0
      BY <2>2, FaultsStay DEF RouteInv, SafeInv
    <3>2. RoutedAt(HolderAt(a), st[a])
      BY <3>1 DEF RouteInv
    <3>3. crashes \in Nat
      BY DEF RouteInv, SafeInv, IndInv, LockInv, LockTypes
    <3>4. ~Reboot /\ \A p \in Procs : ~Crash(p)
      BY <2>2, <3>1, <3>3 DEF Reboot, Crash
    <3> QED BY <2>2, <3>1, <3>2, <3>4, StepRouted, AskingRouted DEF Next
  <2>3. (faults = 0 /\ crashes = 0 => \A a \in Apps : RoutedAt(HolderAt(a), st[a]))'
    BY <2>2
  <2> QED BY <2>1, <2>3 DEF RouteInv
<1>3. RouteInv => RoutesStand
  <2> SUFFICES ASSUME RouteInv, AllIdle, faults = 0, crashes = 0, NEW a \in Apps
               PROVE  /\ running(a) => st[a].published
                      /\ st[a].published => is_loaded(a)
    BY DEF RoutesStand
  <2>1. RoutedAt(HolderAt(a), st[a]) /\ appLock[a] \in Procs \cup {NoProc}
    BY DEF RouteInv, SafeInv, IndInv, LockInv, LockTypes
  <2>2. HolderAt(a) = "idle"
    BY <2>1 DEF HolderAt, AllIdle
  <2>3. st[a].bundle = 0 => ~st[a].published
    BY <2>1, <2>2 DEF RoutedAt
  <2>4. running(a) => st[a].published
    BY <2>1, <2>2 DEF RoutedAt, running
  <2> QED BY <2>3, <2>4 DEF is_loaded
<1> QED BY <1>1, <1>2, <1>3, PTL DEF Spec

-----------------------------------------------------------------------------
(* Updates. *)

\* An app's newest update backup is there and holds its data.
Undoable(s) ==
    /\ s.backups["update"].taken
    /\ s.data \notin {NoDirs, NoData} => s.backups["update"].data = s.data

\* So it is from the backup of an update to the start of its app, though the update takes
\* the kelso lock anew in between.
Past(l, f) == \/ l = "relock" /\ ~f.bad
              \/ l \in LoadLabels \cup {"updated"}
UndoAt(l, f, s) == f.op = "update" /\ Past(l, f) => Undoable(s)

UndoInv == IndInv /\ \A p \in Procs : UndoAt(pc[p], fr[p], st[fr[p].app])

\* What keeps data and backups keeps an update undoable.
LEMMA KeptUndoable ==
    ASSUME NEW s, NEW t, KeepsData(s, t), Undoable(s)
    PROVE  Undoable(t)
BY DEF KeepsData, Undoable

\* Loading does.
LEMMA LoadKeepsData ==
    ASSUME IndInv, NEW p \in Procs, fr[p].app \in Apps, Routines(p), pc[p] \in LoadLabels
    PROVE  KeepsData(st[fr[p].app], st'[fr[p].app])
<1> DEFINE s == st[fr[p].app]
           t == st'[fr[p].app]
<1>0. s \in StateSet /\ st \in [Apps -> StateSet]
  BY DEF IndInv
<1>a. \A x : Becomes(p, x) => t = x
  BY <1>0, BecomesTakes
<1>1. CASE Load(p)
  BY <1>1, Unchanged DEF Load
<1>2. CASE CommitOut(p) \/ CommitIn(p)
  <2>1. \A b : KeepsData(s, [s EXCEPT !.bundle = b])
    BY <1>0 DEF StateSet, KeepsData
  <2> QED BY <1>2, <1>a, <2>1 DEF CommitOut, CommitIn
<1>3. CASE TakeDown(p)
  <2> DEFINE o == Opened(s)
  <2>1. KeepsData(s, o) /\ o \in StateSet
    BY <1>0, OpenedMakes, OpenedType
  <2>2. KeepsData(o, unregistered(o))
    BY <2>1, UnregisteredMakes
  <2>3. KeepsData(s, unregistered(o))
    BY <2>1, <2>2 DEF KeepsData
  <2> QED BY <1>3, <1>a, <2>1, <2>3 DEF TakeDown
<1>4. CASE GenerateConfig(p)
  <2>1. t = Keyed(s) \/ t = s
    BY <1>4, <1>a DEF GenerateConfig
  <2> QED BY <1>0, <2>1, KeyedMakes, Unchanged
<1>5. CASE Materialize(p)
  BY <1>0, <1>5, <1>a, RecordedMakes, DerivedMakes DEF Materialize
<1>6. CASE LoadRecorded(p)
  BY <1>0, <1>6, <1>a, RecordedMakes DEF LoadRecorded
<1>7. CASE Stop(p) \/ StopRecorded(p) \/ Start(p) \/ Blockers(p) \/ ComposeUp(p)
           \/ Register(p) \/ StartRecorded(p)
  BY <1>7 DEF Stop, StopRecorded, Start, Blockers, ComposeUp, Register, StartRecorded, At,
     LoadLabels
<1> QED BY <1>1, <1>2, <1>3, <1>4, <1>5, <1>6, <1>7 DEF Routines

\* An update goes from its backup to the load, and nowhere else does it come to one.
LEMMA OwnUndo ==
    ASSUME UndoInv, NEW p \in Procs, Step(p)
    PROVE  UndoAt(pc[p], fr[p], st[fr[p].app])'
<1> DEFINE s == st[fr[p].app]
           t == st'[fr[p].app]
<1>0. /\ IndInv /\ LockInv /\ st \in [Apps -> StateSet] /\ fr \in [Procs -> FrameSet]
      /\ pc \in [Procs -> Labels] /\ UndoAt(pc[p], fr[p], s) /\ UNCHANGED scene
  BY DEF UndoInv, IndInv, LockInv, LockTypes, Step
<1>1. CASE Routines(p)
  <2>1. Inside(p)
    BY <1>0, <1>1, RoutinesInside
  <2>2. fr[p].app \in Apps /\ fr' = fr
    BY <1>0, <1>1, <2>1, RoutinesFrame DEF Inside, AppHeld, LockInv, Placed
  <2>3. RoutineMoves(p, pc'[p], s, t)
    BY <1>0, <1>1, <2>2, RoutinesMove
  <2>4. pc[p] \in LoadLabels => KeepsData(s, t)
    BY <1>0, <1>1, <2>2, LoadKeepsData
  <2>5. fr[p].op = "update" /\ Past(pc'[p], fr[p]) => pc[p] \in LoadLabels
    BY <2>3 DEF RoutineMoves, Past, LoadLabels, AfterStop, AfterLoad, AfterStart, Removes
  <2>6. fr[p].op = "update" /\ Past(pc'[p], fr[p]) => Undoable(t)
    BY <1>0, <2>4, <2>5, KeptUndoable DEF UndoAt, Past
  <2> QED BY <2>2, <2>6 DEF UndoAt, Undoable, Past
<1>2. CASE Body(p) /\ ~Snapshot(p)
  <2>1. Inside(p)
    BY <1>0, <1>2, BodyInside
  <2>2. fr[p].app \in Apps /\ fr'[p].op = fr[p].op
    BY <1>0, <1>2, <2>1, BodyFrames DEF Inside, AppHeld, LockInv, Placed
  <2>3. BodyMoves(p, pc'[p], s, t)
    BY <1>0, <1>2, <2>2, BodyMove
  <2>4. ~(fr'[p].op = "update" /\ Past(pc'[p], fr'[p]))
    BY <2>2, <2>3 DEF BodyMoves, Past, LoadLabels
  <2> QED BY <2>4 DEF UndoAt, Past
<1>3. CASE Snapshot(p)
  <2>1. fr[p].app \in Apps
    BY <1>0, <1>3 DEF Snapshot, At, AppHeld, LockInv, Placed
  <2> DEFINE sources == app_sources(fr[p].app)
             backed == Backed(s, "update", sources)
  <2>2. CASE GiveUp(p)
    <3>1. pc'[p] \in {"idle", "nextApp"}
      BY <1>0, <2>2 DEF GiveUp, Goto, Leave
    <3> QED BY <3>1 DEF UndoAt, Past, LoadLabels
  <2>3. CASE fr' = [fr EXCEPT ![p].bad = TRUE] /\ Goto(p, "relock")
    <3>1. pc'[p] = "relock"
      BY <1>0, <2>3 DEF Goto
    <3>2. fr'[p].bad
      BY <1>0, <2>3 DEF FrameSet
    <3> QED BY <3>1, <3>2 DEF UndoAt, Past, LoadLabels
  <2>4. CASE fr' = fr /\ Goto(p, "relock") /\ Becomes(p, Backed(s, Reason(p), sources))
    <3>1. CASE fr[p].op = "update"
      <4>1. t = backed
        BY <1>0, <2>1, <2>4, <3>1, BecomesTakes DEF Reason
      <4>2. sources.taken /\ sources.data = s.data
        BY DEF app_sources
      <4> HIDE DEF sources
      <4>3. backed.backups["update"] = sources /\ backed.data = s.data
        BY <1>0, <2>1 DEF Backed, StateSet, Reasons
      <4>4. Undoable(t)
        BY <4>1, <4>2, <4>3 DEF Undoable
      <4> QED BY <2>4, <4>4 DEF UndoAt, Undoable
    <3>2. CASE fr[p].op # "update"
      BY <2>4, <3>2 DEF UndoAt
    <3> QED BY <3>1, <3>2
  <2> QED BY <1>3, <2>2, <2>3, <2>4 DEF Snapshot, KeepFrame
<1>4. CASE Locking(p)
  <2>1. UNCHANGED st
    BY <1>0, <1>4, LockingUntouched
  <2>2. CASE LockKelsoAgain(p)
    <3>1. /\ pc[p] = "relock" /\ fr' = fr
          /\ pc'[p] = "load" => fr[p].op = "update" /\ ~fr[p].bad
          /\ pc'[p] \in {"load", "start"}
      BY <1>0, <2>2 DEF LockKelsoAgain, At, Goto
    <3> QED BY <1>0, <2>1, <3>1 DEF UndoAt, Undoable, Past, LoadLabels
  <2>3. CASE ~LockKelsoAgain(p)
    <3>1. pc'[p] \in {"idle", "nextGroup", "nextApp", "lockA", "lockK", "snapshot", "enter"}
      BY <1>0, <1>4, <2>3 DEF Locking, SweepGroup, SweepApp, LockApp, LockKelso, LockTimeout,
         BackupRefused, UnlockKelso, Unlock, GiveUp, Leave, Goto
    <3> QED BY <3>1 DEF UndoAt, Past, LoadLabels
  <2> QED BY <2>2, <2>3
<1> QED BY <1>1, <1>2, <1>3, <1>4 DEF Step

\* What another process is past stays undoable while the step keeps its app's data.
LEMMA KeptUndo ==
    ASSUME NEW q \in Procs, UndoAt(pc[q], fr[q], st[fr[q].app]), pc'[q] = pc[q],
           fr'[q] = fr[q],
           pc[q] \in AppHeld => KeepsData(st[fr[q].app], st'[fr[q].app])
    PROVE  UndoAt(pc[q], fr[q], st[fr[q].app])'
<1> DEFINE t == st'[fr[q].app]
<1>1. fr[q].op = "update" /\ Past(pc[q], fr[q]) => pc[q] \in AppHeld
  BY DEF Past, LoadLabels, AppHeld, BothHeld
<1>2. UndoAt(pc[q], fr[q], t)
  BY <1>1, KeptUndoable DEF UndoAt
<1> QED BY <1>2 DEF UndoAt, Past, Undoable

\* Every step keeps it.
LEMMA UndoNext == ASSUME UndoInv, [Next]_vars PROVE UndoInv'
<1>0. /\ IndInv /\ LockInv /\ st \in [Apps -> StateSet] /\ fr \in [Procs -> FrameSet]
      /\ pc \in [Procs -> Labels] /\ scene.apps \subseteq Apps
      /\ \A q \in Procs : UndoAt(pc[q], fr[q], st[fr[q].app])
  BY ConstantsAssumption DEF UndoInv, IndInv, LockInv, LockTypes, SceneSet
<1>1. IndInv'
  BY <1>0, IndNext
<1>a. \A q \in Procs : pc[q] \in AppHeld => fr[q].app \in Apps
  BY <1>0 DEF LockInv, Placed
<1>2. ASSUME NEW p \in Procs, Step(p), NEW q \in Procs \ {p}
      PROVE  UndoAt(pc[q], fr[q], st[fr[q].app])'
  <2>1. pc'[q] = pc[q] /\ fr'[q] = fr[q]
    BY <1>0, <1>2, InsideElsewhere, LockingUntouched DEF Step
  <2>2. CASE Locking(p)
    <3>1. st' = st
      BY <1>0, <2>2, LockingUntouched
    <3> QED BY <1>0, <2>1, <3>1, KeptUndo, Unchanged
  <2>3. CASE Body(p) \/ Routines(p)
    <3>1. pc[p] \in AppHeld /\ fr[p].app \in Apps
      <4>1. CASE Snapshot(p)
        BY <1>0, <4>1 DEF Snapshot, At, AppHeld, LockInv, Placed
      <4>2. CASE ~Snapshot(p)
        <5>1. Inside(p)
          BY <1>0, <1>2, <2>3, <4>2, BodyInside, RoutinesInside DEF Step
        <5> QED BY <1>0, <5>1 DEF Inside, AppHeld, LockInv, Placed
      <4> QED BY <4>1, <4>2
    <3>2. Owns(p)
      BY <1>0, <2>3, <3>1, BodyOwns, RoutinesOwn
    <3>3. pc[q] \in AppHeld => st'[fr[q].app] = st[fr[q].app]
      BY <1>0, <1>2, <3>1, <3>2, ElsewhereSame
    <3> QED BY <1>0, <2>1, <3>3, KeptUndo, Unchanged
  <2> QED BY <1>2, <2>2, <2>3 DEF Step
<1>3. CASE \E p \in Procs : Step(p)
  <2>1. \A q \in Procs : UndoAt(pc[q], fr[q], st[fr[q].app])'
    BY <1>2, <1>3, OwnUndo
  <2> QED BY <1>1, <2>1 DEF UndoInv
<1>4. CASE \E p \in Procs : Asking(p) /\ UNCHANGED scene
  <2>1. PICK p \in Procs : Asking(p) /\ UNCHANGED scene
    BY <1>4
  <2>2. Begins(p)
    BY <1>0, <2>1, AskingBegins
  <2>3. pc'[p] \in {"lockA", "nextGroup"} /\ \A q \in Procs \ {p} : pc'[q] = pc[q] /\ fr'[q] = fr[q]
    BY <1>0, <2>2 DEF Begins
  <2>4. \A a \in Apps : KeepsData(st[a], st'[a])
    BY <1>0, <2>1, AskingSame
  <2>5. \A q \in Procs \ {p} : UndoAt(pc[q], fr[q], st[fr[q].app])'
    BY <1>0, <1>a, <2>3, <2>4, KeptUndo
  <2>6. UndoAt(pc[p], fr[p], st[fr[p].app])'
    BY <2>3 DEF UndoAt, Past, LoadLabels
  <2>7. \A q \in Procs : UndoAt(pc[q], fr[q], st[fr[q].app])'
    BY <2>5, <2>6
  <2> QED BY <1>1, <2>7 DEF UndoInv
<1>5. CASE \E p \in Procs : Crash(p) /\ UNCHANGED scene
  <2>1. PICK p \in Procs : Crash(p)
    BY <1>5
  <2>2. /\ pc'[p] = "idle" /\ st' = st
        /\ \A q \in Procs \ {p} : pc'[q] = pc[q] /\ fr'[q] = fr[q]
    BY <1>0, <2>1 DEF Crash, Goto
  <2>3. \A q \in Procs \ {p} : UndoAt(pc[q], fr[q], st[fr[q].app])'
    BY <1>0, <2>2, KeptUndo, Unchanged
  <2>4. UndoAt(pc[p], fr[p], st[fr[p].app])'
    BY <2>2 DEF UndoAt, Past, LoadLabels
  <2>5. \A q \in Procs : UndoAt(pc[q], fr[q], st[fr[q].app])'
    BY <2>3, <2>4
  <2> QED BY <1>1, <2>5 DEF UndoInv
<1>6. CASE Reboot
  <2>1. \A q \in Procs : pc'[q] = "idle"
    BY <1>6 DEF Reboot
  <2>2. \A q \in Procs : UndoAt(pc[q], fr[q], st[fr[q].app])'
    BY <2>1 DEF UndoAt, Past, LoadLabels
  <2> QED BY <1>1, <2>2 DEF UndoInv
<1>7. CASE \E b \in scene.apps : SourceMoves(b)
  <2>1. PICK b \in scene.apps : SourceMoves(b)
    BY <1>7
  <2> DEFINE n == st[b].source + 1
             m == [st[b] EXCEPT !.source = n]
  <2>2. UNCHANGED <<pc, fr>> /\ st' = [st EXCEPT ![b] = m]
    BY <2>1 DEF SourceMoves
  <2> HIDE DEF n
  <2>3. KeepsData(st[b], m)
    BY <1>0 DEF StateSet, KeepsData
  <2> HIDE DEF m
  <2>4. \A a \in Apps : KeepsData(st[a], st'[a])
    BY <1>0, <2>2, <2>3, Unchanged
  <2>5. \A q \in Procs : UndoAt(pc[q], fr[q], st[fr[q].app])'
    BY <1>0, <1>a, <2>2, <2>4, KeptUndo
  <2> QED BY <1>1, <2>5 DEF UndoInv
<1>8. CASE UNCHANGED vars
  <2>1. \A q \in Procs : UndoAt(pc[q], fr[q], st[fr[q].app])'
    BY <1>0, <1>8, KeptUndo, Unchanged DEF vars
  <2> QED BY <1>1, <2>1 DEF UndoInv
<1> QED BY <1>3, <1>4, <1>5, <1>6, <1>7, <1>8 DEF Next

\* From the moment an update touches the loaded copy until its app starts, the backup it
\* can be undone with is the newest update backup, and holds the data, whoever else is at
\* work and whatever fails.
THEOREM UpdatesUndoable == Spec => []UpdateUndoable
<1>1. Init => UndoInv
  <2> SUFFICES ASSUME Init PROVE \A p \in Procs : UndoAt(pc[p], fr[p], st[fr[p].app])
    BY InitInv DEF UndoInv
  <2>1. \A p \in Procs : pc[p] = "idle"
    BY DEF Init
  <2> QED BY <2>1 DEF UndoAt, Past, LoadLabels
<1>2. UndoInv /\ [Next]_vars => UndoInv'
  BY UndoNext
<1>3. UndoInv => UpdateUndoable
  BY DEF UndoInv, UndoAt, Past, Undoable, UpdateUndoable, LoadLabels, HasData
<1> QED BY <1>1, <1>2, <1>3, PTL DEF Spec
=============================================================================
