-------------------------- MODULE LifecycleProofs --------------------------
(***************************************************************************)
(* What holds of Lifecycle for any apps, any number of processes and any   *)
(* scene: types, that the two locks exclude, and that restic reads only    *)
(* apps that are down.                                                     *)
(*                                                                         *)
(* MutualExclusion is inductive once a process at a lock is known to work  *)
(* on an app (Placed); with it, a step of one process cannot touch the app *)
(* another holds (Owns, OthersStay), and that an app stays down from its   *)
(* stop to the end of the reading (Stays) follows step by step.            *)
(***************************************************************************)
EXTENDS Lifecycle, TLAPS

\* The part of the state the locks are about.
LockTypes ==
    /\ scene \in Scenes
    /\ appLock \in [Apps -> Procs \cup {NoProc}]
    /\ kelsoLock \in Procs \cup {NoProc}
    /\ pc \in [Procs -> Labels]
    /\ fr \in [Procs -> FrameSet]
    /\ faults \in Nat /\ crashes \in Nat /\ resumed \in BOOLEAN

\* Whoever waits for an app lock or holds one works on an app.
Placed == \A p \in Procs : pc[p] \in AppHeld \cup {"lockA"} => fr[p].app \in Apps

\* The invariant of the locks.
LockInv == LockTypes /\ Placed /\ MutualExclusion

\* A step under both locks.
Inside(p) ==
    /\ pc[p] \in BothHeld /\ \E l \in BothHeld : Goto(p, l)
    /\ fr' \in [Procs -> FrameSet] /\ \A q \in Procs : fr'[q].app = fr[q].app
    /\ UNCHANGED <<scene, appLock, kelsoLock, crashes, resumed>> /\ faults' \in Nat

\* A step under both locks keeps LockInv: nobody else is under the kelso lock.
LEMMA InsideKeeps ==
    ASSUME LockInv, NEW p \in Procs, Inside(p)
    PROVE  LockInv'
<1> USE DEF LockInv, LockTypes, Inside
<1>1. PICK l \in BothHeld : pc' = [pc EXCEPT ![p] = l]
  BY DEF Goto
<1>2. LockTypes'
  BY <1>1 DEF Labels, AppHeld
<1>3. Placed'
  BY <1>1 DEF Placed, AppHeld
<1>4. MutualExclusion'
  BY <1>1 DEF MutualExclusion, AppHeld
<1> QED BY <1>2, <1>3, <1>4

\* Removal plans.
Plans == [stop : BOOLEAN, config : BOOLEAN, volumes : BOOLEAN]

\* Setting was or bad leaves a frame a frame, on the same app.
LEMMA FrameFlags ==
    ASSUME NEW f \in FrameSet, NEW b \in BOOLEAN
    PROVE  /\ [f EXCEPT !.was = b] \in FrameSet /\ [f EXCEPT !.was = b].app = f.app
           /\ [f EXCEPT !.bad = b] \in FrameSet /\ [f EXCEPT !.bad = b].app = f.app
BY DEF FrameSet

\* So does setting the plan of a removal.
LEMMA FramePlan ==
    ASSUME NEW f \in FrameSet, NEW plan \in Plans
    PROVE  [f EXCEPT !.plan = plan] \in FrameSet /\ [f EXCEPT !.plan = plan].app = f.app
BY DEF FrameSet, Plans

\* So does setting the lists of a sweep.
LEMMA FrameLists ==
    ASSUME NEW f \in FrameSet, NEW apps \in SUBSET Apps
    PROVE  /\ [f EXCEPT !.todo = apps] \in FrameSet /\ [f EXCEPT !.todo = apps].app = f.app
           /\ [f EXCEPT !.batch = apps] \in FrameSet /\ [f EXCEPT !.batch = apps].app = f.app
BY DEF FrameSet

\* A sweep turns to another app.
LEMMA FrameApp ==
    ASSUME NEW f \in FrameSet, NEW a \in Apps \cup {NoApp}
    PROVE  [f EXCEPT !.app = a] \in FrameSet /\ [f EXCEPT !.app = a].app = a
BY DEF FrameSet

\* stop, load and start return to labels under both locks.
LEMMA Labelled ==
    ASSUME NEW p \in Procs
    PROVE  /\ AfterStop(p) \in BothHeld
           /\ AfterLoad(p) \in BothHeld
           /\ AfterStart(p) \in BothHeld
<1>1. AfterStop(p) \in {"start", "load", "rmRun", "unlockK", "preSnapshot", "done"}
  BY DEF AfterStop
<1>2. AfterLoad(p) \in {"blockers", "updated", "start", "done"}
  BY DEF AfterLoad
<1>3. AfterStart(p) \in {"fail", "replaceData", "done"}
  BY DEF AfterStart
<1> QED BY <1>1, <1>2, <1>3 DEF BothHeld

\* The routines stop, load and start run under both locks throughout.
LEMMA RoutinesInside ==
    ASSUME LockInv, NEW p \in Procs, Routines(p), UNCHANGED scene
    PROVE  Inside(p)
<1> USE DEF LockInv, LockTypes, Inside, At, Goto, KeepFrame, Fault, NoFault, BothHeld
<1>1. CASE Stop(p)
  BY <1>1 DEF Stop
<1>2. CASE StopRecorded(p)
  BY <1>2, Labelled DEF StopRecorded
<1>3. CASE Load(p)
  BY <1>3 DEF Load
<1>4. CASE CommitOut(p)
  BY <1>4 DEF CommitOut
<1>5. CASE CommitIn(p)
  BY <1>5 DEF CommitIn
<1>6. CASE TakeDown(p)
  BY <1>6 DEF TakeDown
<1>7. CASE GenerateConfig(p)
  BY <1>7 DEF GenerateConfig
<1>8. CASE Materialize(p)
  BY <1>8 DEF Materialize
<1>9. CASE LoadRecorded(p)
  BY <1>9, Labelled DEF LoadRecorded
<1>10. CASE Start(p)
  BY <1>10 DEF Start
<1>11. CASE Blockers(p)
  BY <1>11 DEF Blockers
<1>12. CASE ComposeUp(p)
  BY <1>12 DEF ComposeUp
<1>13. CASE Register(p)
  BY <1>13 DEF Register
<1>14. CASE StartRecorded(p)
  BY <1>14, Labelled DEF StartRecorded
<1> QED
  BY <1>1, <1>2, <1>3, <1>4, <1>5, <1>6, <1>7, <1>8, <1>9, <1>10, <1>11, <1>12,
     <1>13, <1>14 DEF Routines

\* So do the bodies of the verbs, but for the reading of a backup.
LEMMA BodyInside ==
    ASSUME LockInv, NEW p \in Procs, Body(p), ~Snapshot(p), UNCHANGED scene
    PROVE  Inside(p)
<1> USE DEF LockInv, LockTypes, Inside, At, Goto, KeepFrame, KeepLocks, Fault, NoFault,
            BothHeld, Enter
<1>1. CASE EnterSimple(p)
  BY <1>1 DEF EnterSimple
<1>2. CASE EnterConfig(p)
  BY <1>2 DEF EnterConfig
<1>3. CASE EnterReload(p)
  <2> DEFINE was == running(fr[p].app)
  <2>1. fr' = [fr EXCEPT ![p].was = was] /\ was \in BOOLEAN
    BY <1>3 DEF EnterReload, running
  <2> HIDE DEF was
  <2>2. fr' \in [Procs -> FrameSet] /\ \A q \in Procs : fr'[q].app = fr[q].app
    BY <2>1, FrameFlags
  <2> QED BY <1>3, <2>2 DEF EnterReload
<1>4. CASE EnterBackup(p)
  <2> DEFINE was == running(fr[p].app)
  <2>1. fr' = [fr EXCEPT ![p].was = was] /\ was \in BOOLEAN
    BY <1>4 DEF EnterBackup, running
  <2> HIDE DEF was
  <2>2. fr' \in [Procs -> FrameSet] /\ \A q \in Procs : fr'[q].app = fr[q].app
    BY <2>1, FrameFlags
  <2> QED BY <1>4, <2>2 DEF EnterBackup
<1>5. CASE UpdateRecorded(p)
  BY <1>5 DEF UpdateRecorded
<1>6. CASE EnterRemove(p)
  <2>1. fr[p].plan \in Plans
    BY DEF FrameSet, Plans
  <2>2. removal_plan(fr[p].app, fr[p].arg) \in Plans
    BY DEF removal_plan, Plans, unloads, containers
  <2>3. PICK plan \in Plans : fr' = [fr EXCEPT ![p].plan = plan]
    BY <1>6, <2>1, <2>2 DEF EnterRemove
  <2>4. fr' \in [Procs -> FrameSet] /\ \A q \in Procs : fr'[q].app = fr[q].app
    BY <2>3, FramePlan
  <2> QED BY <1>6, <2>4 DEF EnterRemove
<1>7. CASE RemoveRun(p)
  BY <1>7 DEF RemoveRun
<1>8. CASE RemoveConfig(p)
  BY <1>8 DEF RemoveConfig
<1>9. CASE RemoveVolumes(p)
  BY <1>9 DEF RemoveVolumes
<1>10. CASE RemoveRecorded(p)
  BY <1>10 DEF RemoveRecorded
<1>11. CASE EnterRestore(p)
  <2> DEFINE was == is_loaded(fr[p].app) /\ running(fr[p].app)
  <2>1. (fr' = fr \/ fr' = [fr EXCEPT ![p].was = was]) /\ was \in BOOLEAN
    BY <1>11 DEF EnterRestore
  <2> HIDE DEF was
  <2>2. fr' \in [Procs -> FrameSet] /\ \A q \in Procs : fr'[q].app = fr[q].app
    <3>1. CASE fr' = fr
      BY <3>1
    <3>2. CASE fr' = [fr EXCEPT ![p].was = was]
      BY <2>1, <3>2, FrameFlags
    <3> QED BY <2>1, <3>1, <3>2
  <2> QED BY <1>11, <2>2 DEF EnterRestore
<1>12. CASE PreSnapshot(p)
  <2>1. fr' = fr \/ fr' = [fr EXCEPT ![p].bad = TRUE]
    BY <1>12 DEF PreSnapshot
  <2>2. fr' \in [Procs -> FrameSet] /\ \A q \in Procs : fr'[q].app = fr[q].app
    <3>1. CASE fr' = fr
      BY <3>1
    <3>2. CASE fr' = [fr EXCEPT ![p].bad = TRUE]
      BY <3>2, FrameFlags
    <3> QED BY <2>1, <3>1, <3>2
  <2> QED BY <1>12, <2>2 DEF PreSnapshot
<1>13. CASE ReplaceData(p)
  BY <1>13 DEF ReplaceData
<1>14. CASE ReplaceConfig(p)
  BY <1>14 DEF ReplaceConfig
<1>15. CASE ReplaceRun(p)
  BY <1>15 DEF ReplaceRun
<1>16. CASE ReplaceBundle(p)
  BY <1>16 DEF ReplaceBundle
<1>17. CASE Rebuild(p)
  BY <1>17 DEF Rebuild
<1>18. CASE RestoreRecorded(p)
  BY <1>18 DEF RestoreRecorded
<1> QED
  BY <1>1, <1>2, <1>3, <1>4, <1>5, <1>6, <1>7, <1>8, <1>9, <1>10, <1>11, <1>12,
     <1>13, <1>14, <1>15, <1>16, <1>17, <1>18 DEF Body

\* A step with which p leaves its app, letting go of what it holds.
Leaves(p) ==
    /\ appLock' = [a \in Apps |-> IF appLock[a] = p THEN NoProc ELSE appLock[a]]
    /\ kelsoLock' = IF kelsoLock = p THEN NoProc ELSE kelsoLock
    /\ \E l \in {"idle", "nextApp"} : Goto(p, l)
    /\ fr' \in [Procs -> FrameSet] /\ \A q \in Procs \ {p} : fr'[q] = fr[q]
    /\ UNCHANGED scene /\ faults' \in Nat /\ crashes' \in Nat /\ resumed' \in BOOLEAN

\* Letting go of what it holds and leaving its app keeps LockInv (KelsoCtx.locked).
LEMMA LeavesKeeps ==
    ASSUME LockInv, NEW p \in Procs, Leaves(p)
    PROVE  LockInv'
<1> USE DEF LockInv, LockTypes, Leaves
<1>1. PICK l \in {"idle", "nextApp"} : pc' = [pc EXCEPT ![p] = l]
  BY DEF Goto
<1>2. LockTypes'
  BY <1>1 DEF Labels, AppHeld
<1>3. Placed'
  BY <1>1 DEF Placed, AppHeld, BothHeld
<1>4. MutualExclusion'
  BY <1>1, ConstantsAssumption DEF MutualExclusion, AppHeld, BothHeld
<1> QED BY <1>2, <1>3, <1>4

\* What a process is left with when it leaves an app.
LEMMA LeftTyped ==
    ASSUME LockInv, NEW p \in Procs
    PROVE  /\ NoFrame \in FrameSet /\ Left(p) \in FrameSet
           /\ Leave(p) \in {"idle", "nextApp"}
<1>1. NoFrame \in FrameSet
  BY DEF NoFrame, Frame, FrameSet, NoPlan, NoSnap, SnapSet, NoFile, NoDirs
<1>2. [fr[p] EXCEPT !.app = NoApp] \in FrameSet
  BY DEF LockInv, LockTypes, FrameSet
<1> QED BY <1>1, <1>2 DEF Left, Leave

\* A wait that times out leaves the app with nothing held (KelsoCtx._acquire).
LEMMA GiveUpLeaves ==
    ASSUME LockInv, NEW p \in Procs, GiveUp(p), faults' \in Nat, UNCHANGED scene,
           pc[p] \notin BothHeld
    PROVE  Leaves(p)
<1>1. kelsoLock # p
  BY DEF LockInv, MutualExclusion
<1> QED
  BY <1>1, LeftTyped DEF Leaves, GiveUp, LockInv, LockTypes

\* Taking the locks, giving the kelso lock up, waiting in vain and unlocking keep
\* LockInv, and so does a sweep between two apps.
LEMMA LockingKeeps ==
    ASSUME LockInv, NEW p \in Procs, Locking(p), UNCHANGED scene
    PROVE  LockInv'
<1> USE DEF At, Goto, KeepFrame, KeepLocks, Fault, NoFault
<1>1. CASE SweepGroup(p)
  <2>1. CASE fr[p].todo = {}
    <3>1. \A a \in Apps : appLock[a] # p
      BY <1>1 DEF SweepGroup, LockInv, MutualExclusion, AppHeld, BothHeld
    <3>2. kelsoLock # p
      BY <1>1 DEF SweepGroup, LockInv, MutualExclusion, BothHeld
    <3>3. Leaves(p)
      BY <1>1, <2>1, <3>1, <3>2, LeftTyped DEF SweepGroup, Leaves, LockInv, LockTypes
    <3> QED BY <3>3, LeavesKeeps
  <2>2. CASE fr[p].todo # {}
    <3>1. PICK todo \in SUBSET Apps, batch \in SUBSET Apps :
             fr' = [fr EXCEPT ![p] = [fr[p] EXCEPT !.todo = todo, !.batch = batch]]
      BY <1>1, <2>2 DEF SweepGroup, LockInv, LockTypes, FrameSet, Later
    <3> DEFINE f == [fr[p] EXCEPT !.todo = todo]
               g == [f EXCEPT !.batch = batch]
    <3>2. f \in FrameSet /\ f.app = fr[p].app
      BY FrameLists DEF LockInv, LockTypes
    <3> HIDE DEF f
    <3>3. g \in FrameSet /\ g.app = fr[p].app
      BY <3>2, FrameLists
    <3>4. fr' = [fr EXCEPT ![p] = g]
      BY <3>1 DEF f
    <3> HIDE DEF g
    <3>5. fr' \in [Procs -> FrameSet] /\ \A q \in Procs : fr'[q].app = fr[q].app
      BY <3>3, <3>4 DEF LockInv, LockTypes
    <3> QED
      BY <1>1, <2>2, <3>5 DEF SweepGroup, LockInv, LockTypes, Labels, Placed,
         MutualExclusion, AppHeld, BothHeld
  <2> QED BY <2>1, <2>2
<1>2. CASE SweepApp(p)
  <2>1. CASE fr[p].batch = {}
    BY <1>2, <2>1 DEF SweepApp, LockInv, LockTypes, Labels, Placed, MutualExclusion,
       AppHeld, BothHeld
  <2>2. CASE fr[p].batch # {}
    <3>1. fr[p].batch \subseteq Apps
      BY DEF LockInv, LockTypes, FrameSet
    <3>2. PICK left \in SUBSET Apps, b \in Apps \cup {NoApp} :
             /\ fr' = [fr EXCEPT ![p] = [fr[p] EXCEPT !.batch = left, !.app = b]]
             /\ pc' = [pc EXCEPT ![p] = IF b = NoApp THEN "nextApp" ELSE "lockA"]
      <4>1. PICK a \in fr[p].batch : LET skipped == Skipped(fr[p].op, a) IN
               /\ fr' = [fr EXCEPT ![p] = [fr[p] EXCEPT !.batch = fr[p].batch \ {a},
                                           !.app = IF skipped THEN NoApp ELSE a]]
               /\ pc' = [pc EXCEPT ![p] = IF skipped THEN "nextApp" ELSE "lockA"]
        BY <1>2, <2>2 DEF SweepApp
      <4>2. a \in Apps /\ a # NoApp /\ fr[p].batch \ {a} \in SUBSET Apps
        BY <3>1, ConstantsAssumption
      <4>3. CASE Skipped(fr[p].op, a)
        <5>1. /\ fr' = [fr EXCEPT ![p] = [fr[p] EXCEPT !.batch = fr[p].batch \ {a}, !.app = NoApp]]
              /\ pc' = [pc EXCEPT ![p] = IF NoApp = NoApp THEN "nextApp" ELSE "lockA"]
          BY <4>1, <4>3
        <5> QED BY <4>2, <5>1
      <4>4. CASE ~Skipped(fr[p].op, a)
        <5>1. /\ fr' = [fr EXCEPT ![p] = [fr[p] EXCEPT !.batch = fr[p].batch \ {a}, !.app = a]]
              /\ pc' = [pc EXCEPT ![p] = IF a = NoApp THEN "nextApp" ELSE "lockA"]
          BY <4>1, <4>2, <4>4
        <5> QED BY <4>2, <5>1
      <4> QED BY <4>3, <4>4
    <3> DEFINE f == [fr[p] EXCEPT !.batch = left]
               g == [f EXCEPT !.app = b]
    <3>3. f \in FrameSet
      BY FrameLists DEF LockInv, LockTypes
    <3> HIDE DEF f
    <3>4. g \in FrameSet /\ g.app = b
      BY <3>3, FrameApp
    <3>5. fr' = [fr EXCEPT ![p] = g]
      BY <3>2 DEF f
    <3> HIDE DEF g
    <3>6. fr' \in [Procs -> FrameSet] /\ fr'[p].app = b /\ \A q \in Procs \ {p} : fr'[q] = fr[q]
      BY <3>4, <3>5 DEF LockInv, LockTypes
    <3>7. pc' = [pc EXCEPT ![p] = IF b = NoApp THEN "nextApp" ELSE "lockA"]
      BY <3>2
    <3>8. pc[p] = "nextApp" /\ UNCHANGED <<appLock, kelsoLock, faults, crashes, resumed>>
      BY <1>2 DEF SweepApp
    <3> QED
      BY <3>6, <3>7, <3>8 DEF LockInv, LockTypes, Labels, Placed, MutualExclusion,
         AppHeld, BothHeld
  <2> QED BY <2>1, <2>2
<1>3. CASE LockApp(p)
  <2>1. fr[p].app \in Apps
    BY <1>3 DEF LockApp, LockInv, Placed
  <2> QED
    BY <1>3, <2>1, ConstantsAssumption DEF LockApp, LockInv, LockTypes, Labels, Placed,
       MutualExclusion, AppHeld, BothHeld
<1>4. CASE LockKelso(p)
  BY <1>4, ConstantsAssumption DEF LockKelso, LockInv, LockTypes, Labels, Placed,
     MutualExclusion, AppHeld, BothHeld
<1>5. CASE LockKelsoAgain(p)
  BY <1>5, ConstantsAssumption DEF LockKelsoAgain, LockInv, LockTypes, Labels, Placed,
     MutualExclusion, AppHeld, BothHeld
<1>6. CASE LockTimeout(p)
  <2>1. pc[p] \notin BothHeld /\ faults' \in Nat
    BY <1>6 DEF LockTimeout, BothHeld, LockInv, LockTypes
  <2> QED BY <1>6, <2>1, GiveUpLeaves, LeavesKeeps DEF LockTimeout
<1>7. CASE BackupRefused(p)
  <2>1. pc[p] \notin BothHeld /\ faults' \in Nat
    BY <1>7 DEF BackupRefused, BothHeld, LockInv, LockTypes
  <2> QED BY <1>7, <2>1, GiveUpLeaves, LeavesKeeps DEF BackupRefused
<1>8. CASE UnlockKelso(p)
  BY <1>8, ConstantsAssumption DEF UnlockKelso, LockInv, LockTypes, Labels, Placed,
     MutualExclusion, AppHeld, BothHeld
<1>9. CASE Unlock(p)
  <2>1. pc[p] \in BothHeld /\ pc[p] \in AppHeld /\ fr[p].app \in Apps
    BY <1>9 DEF Unlock, LockInv, Placed, AppHeld, BothHeld
  <2>2. kelsoLock = p /\ \A a \in Apps : appLock[a] = p <=> a = fr[p].app
    BY <2>1 DEF LockInv, MutualExclusion
  <2>3. appLock' = [a \in Apps |-> IF appLock[a] = p THEN NoProc ELSE appLock[a]]
    BY <1>9, <2>1, <2>2 DEF Unlock, LockInv, LockTypes
  <2>4. Leaves(p)
    BY <1>9, <2>2, <2>3, LeftTyped DEF Unlock, Leaves, LockInv, LockTypes
  <2> QED BY <2>4, LeavesKeeps
<1> QED
  BY <1>1, <1>2, <1>3, <1>4, <1>5, <1>6, <1>7, <1>8, <1>9 DEF Locking

\* A backup reads with the app lock alone, and then waits for the kelso lock again or
\* leaves.
LEMMA SnapshotKeeps ==
    ASSUME LockInv, NEW p \in Procs, Snapshot(p), UNCHANGED scene
    PROVE  LockInv'
<1> USE DEF At, Goto, KeepFrame, KeepLocks, Fault, NoFault
<1>1. pc[p] = "snapshot" /\ pc[p] \notin BothHeld /\ faults' \in Nat
  BY DEF Snapshot, BothHeld, LockInv, LockTypes
<1>2. CASE GiveUp(p)
  BY <1>1, <1>2, GiveUpLeaves, LeavesKeeps
<1>3. CASE ~GiveUp(p)
  <2>1. /\ pc' = [pc EXCEPT ![p] = "relock"]
        /\ UNCHANGED <<appLock, kelsoLock, crashes, resumed>>
        /\ fr' = fr \/ fr' = [fr EXCEPT ![p].bad = TRUE]
    BY <1>3 DEF Snapshot
  <2>2. fr' \in [Procs -> FrameSet] /\ \A q \in Procs : fr'[q].app = fr[q].app
    <3>1. CASE fr' = fr
      BY <3>1 DEF LockInv, LockTypes
    <3>2. CASE fr' = [fr EXCEPT ![p].bad = TRUE]
      BY <3>2, FrameFlags DEF LockInv, LockTypes
    <3> QED BY <2>1, <3>1, <3>2
  <2>3. /\ pc' = [pc EXCEPT ![p] = "relock"]
        /\ UNCHANGED <<appLock, kelsoLock, crashes, resumed>>
    BY <2>1
  <2> QED
    BY <1>1, <2>2, <2>3 DEF LockInv, LockTypes, Labels, Placed, MutualExclusion,
       AppHeld, BothHeld
<1> QED BY <1>2, <1>3

\* Asking for a verb: p, which is idle, gets a frame and goes for a lock or a sweep.
Begins(p) ==
    /\ pc[p] = "idle"
    /\ \E f \in FrameSet : /\ fr' = [fr EXCEPT ![p] = f]
                           /\ \/ pc' = [pc EXCEPT ![p] = "lockA"] /\ f.app \in Apps
                              \/ pc' = [pc EXCEPT ![p] = "nextGroup"]
    /\ UNCHANGED <<scene, appLock, kelsoLock, faults, crashes, resumed>>

\* Asking for a verb keeps LockInv: an idle process holds nothing.
LEMMA BeginsKeeps ==
    ASSUME LockInv, NEW p \in Procs, Begins(p)
    PROVE  LockInv'
<1>1. PICK f \in FrameSet : /\ fr' = [fr EXCEPT ![p] = f]
                            /\ \/ pc' = [pc EXCEPT ![p] = "lockA"] /\ f.app \in Apps
                               \/ pc' = [pc EXCEPT ![p] = "nextGroup"]
  BY DEF Begins
<1> QED
  BY <1>1 DEF Begins, LockInv, LockTypes, Labels, Placed, MutualExclusion, AppHeld, BothHeld

\* The frame a verb begins with is a frame.
LEMMA Frames ==
    ASSUME NEW op \in Verbs \cup {"none"}, NEW a \in Apps \cup {NoApp},
           NEW arg \in Modes \cup Reasons \cup {"-"}
    PROVE  Frame(op, a, arg) \in FrameSet /\ Frame(op, a, arg).app = a
BY DEF Frame, FrameSet, NoPlan, NoSnap, SnapSet, NoFile, NoDirs

\* Whatever is asked for, the process gets a frame, and an app unless it sweeps.
LEMMA AskingBegins ==
    ASSUME LockInv, st \in [Apps -> StateSet], NEW p \in Procs, Asking(p), UNCHANGED scene
    PROVE  Begins(p)
<1> USE DEF At, Goto, KeepLocks, NoFault, Ask
<1>0. scene.apps \subseteq Apps
  BY ConstantsAssumption DEF LockInv, LockTypes, SceneSet
<1>1. CASE \E op \in OneApp, a \in scene.apps : AskApp(p, op, a)
  <2>1. PICK op \in OneApp, a \in scene.apps : AskApp(p, op, a)
    BY <1>1
  <2>2. Frame(op, a, "-") \in FrameSet /\ Frame(op, a, "-").app = a
    BY <1>0, Frames DEF Verbs
  <2> QED BY <1>0, <2>1, <2>2 DEF AskApp, Begins
<1>2. CASE \E op \in Removes, a \in scene.apps, mode \in Modes : AskRemove(p, op, a, mode)
  <2>1. PICK op \in Removes, a \in scene.apps, mode \in Modes : AskRemove(p, op, a, mode)
    BY <1>2
  <2> DEFINE f == Frame(op, a, mode)
             plan == IF op = "rmCli" THEN removal_plan(a, mode) ELSE NoPlan
             g == [f EXCEPT !.plan = plan]
  <2>2. f \in FrameSet /\ f.app = a
    BY <1>0, Frames DEF Verbs
  <2>3. plan \in Plans
    BY DEF Plans, NoPlan, removal_plan, unloads, containers
  <2>4. fr' = [fr EXCEPT ![p] = g]
    BY <2>1 DEF AskRemove
  <2> HIDE DEF f, plan
  <2>5. g \in FrameSet /\ g.app = a
    BY <2>2, <2>3, FramePlan
  <2> HIDE DEF g
  <2> QED BY <1>0, <2>1, <2>4, <2>5 DEF AskRemove, Begins
<1>3. CASE \E a \in scene.apps, reason \in Reasons : AskRestore(p, a, reason)
  <2>1. PICK a \in scene.apps, reason \in Reasons : AskRestore(p, a, reason)
    BY <1>3
  <2> DEFINE f == Frame("restore", a, reason)
             snap == st[a].backups[reason]
             g == [f EXCEPT !.snap = snap]
  <2>2. f \in FrameSet /\ f.app = a
    BY <1>0, Frames DEF Verbs
  <2>3. snap \in SnapSet
    BY <1>0 DEF StateSet
  <2>4. fr' = [fr EXCEPT ![p] = g]
    BY <2>1 DEF AskRestore
  <2> HIDE DEF f, snap
  <2>5. g \in FrameSet /\ g.app = a
    BY <2>2, <2>3 DEF FrameSet
  <2> HIDE DEF g
  <2> QED BY <1>0, <2>1, <2>4, <2>5 DEF AskRestore, Begins
<1>4. CASE \E op \in Sweeps : AskSweep(p, op)
  <2>1. PICK op \in Sweeps : AskSweep(p, op)
    BY <1>4
  <2> DEFINE f == Frame(op, NoApp, "-")
             todo == {a \in Apps : is_loaded(a) /\ Group[a] \in Covered(op)}
             g == [f EXCEPT !.todo = todo]
  <2>2. f \in FrameSet
    BY Frames DEF Verbs, Sweeps
  <2>3. todo \in SUBSET Apps
    OBVIOUS
  <2>4. fr' = [fr EXCEPT ![p] = g]
    BY <2>1 DEF AskSweep
  <2> HIDE DEF f, todo
  <2>5. g \in FrameSet
    BY <2>2, <2>3, FrameLists
  <2> HIDE DEF g
  <2> QED BY <2>1, <2>4, <2>5 DEF AskSweep, Begins
<1> QED BY <1>1, <1>2, <1>3, <1>4 DEF Asking

\* A process that is killed leaves its app and its locks.
LEMMA CrashKeeps ==
    ASSUME LockInv, NEW p \in Procs, Crash(p), UNCHANGED scene
    PROVE  LockInv'
<1>1. fr' \in [Procs -> FrameSet] /\ \A q \in Procs \ {p} : fr'[q] = fr[q]
  BY LeftTyped DEF Crash, LockInv, LockTypes
<1>2. crashes' \in Nat /\ resumed' \in BOOLEAN /\ faults' \in Nat
  <2>1. crashes \in Nat /\ crashes' = crashes + 1 /\ faults \in Nat /\ faults' = faults
    BY DEF Crash, LockInv, LockTypes
  <2>2. crashes' \in Nat /\ faults' \in Nat
    BY <2>1
  <2>3. resumed' \in BOOLEAN
    BY Zenon DEF Crash
  <2> QED BY <2>2, <2>3
<1>3. /\ appLock' = [a \in Apps |-> IF appLock[a] = p THEN NoProc ELSE appLock[a]]
      /\ kelsoLock' = IF kelsoLock = p THEN NoProc ELSE kelsoLock
      /\ Goto(p, "idle")
  BY DEF Crash
<1>4. Leaves(p)
  BY <1>1, <1>2, <1>3 DEF Leaves
<1> QED BY <1>4, LeavesKeeps

\* After a reboot nobody holds anything.
LEMMA RebootKeeps ==
    ASSUME LockInv, Reboot, UNCHANGED scene
    PROVE  LockInv'
<1>1. NoFrame \in FrameSet
  BY DEF NoFrame, Frame, FrameSet, NoPlan, NoSnap, SnapSet, NoFile, NoDirs
<1>2. LockTypes'
  <2>1. appLock' \in [Apps -> Procs \cup {NoProc}] /\ kelsoLock' \in Procs \cup {NoProc}
    BY DEF Reboot
  <2>2. pc' \in [Procs -> Labels] /\ fr' \in [Procs -> FrameSet]
    BY <1>1 DEF Reboot, Labels
  <2>3. scene' \in Scenes /\ faults' \in Nat /\ crashes' \in Nat /\ resumed' \in BOOLEAN
    <3>1. crashes \in Nat /\ crashes' = crashes + 1 /\ faults \in Nat /\ faults' = faults
      BY DEF Reboot, LockInv, LockTypes
    <3>2. crashes' \in Nat /\ faults' \in Nat
      BY <3>1
    <3>3. resumed' \in BOOLEAN /\ scene' \in Scenes
      BY Zenon DEF Reboot, LockInv, LockTypes
    <3> QED BY <3>2, <3>3
  <2> QED BY <2>1, <2>2, <2>3 DEF LockTypes
<1>3. \A p \in Procs : pc'[p] = "idle"
  BY DEF Reboot
<1>4. Placed'
  BY <1>3 DEF Placed, AppHeld, BothHeld
<1>5. MutualExclusion'
  BY <1>3, ConstantsAssumption DEF Reboot, MutualExclusion, AppHeld, BothHeld
<1> QED BY <1>2, <1>4, <1>5 DEF LockInv

-----------------------------------------------------------------------------
\* The fields of the state of an app.
LEMMA Typed ==
    ASSUME NEW s \in StateSet
    PROVE  /\ s.source \in Nat /\ s.bundle \in Nat /\ s.gen \in Nat
           /\ s.config \in Int /\ s.data \in Int /\ s.pending \in BOOLEAN
           /\ s.backups \in [Reasons -> SnapSet]
           /\ s.wish \in {"none", "run", "stop"}
BY DEF StateSet

\* What each operation makes of the state of an app is a state of an app: opening its
\* store,
LEMMA OpenedType == ASSUME NEW s \in StateSet PROVE Opened(s) \in StateSet
<1> DEFINE v == IF s.config = NoFile THEN Empty ELSE s.config
<1>1. v \in Int
  BY Typed DEF Empty
<1> HIDE DEF v
<1>2. [s EXCEPT !.config = v] \in StateSet
  BY <1>1 DEF StateSet
<1> QED BY <1>2 DEF Opened, v

\* taking its routes down,
LEMMA UnregisteredType == ASSUME NEW s \in StateSet PROVE unregistered(s) \in StateSet
BY DEF unregistered, StateSet

\* generating its secrets,
LEMMA KeyedType == ASSUME NEW s \in StateSet PROVE Keyed(s) \in StateSet
<1> DEFINE v == s.gen + 1
<1>1. v \in Nat /\ v \in Int
  BY Typed
<1> HIDE DEF v
<1>2. [s EXCEPT !.config = v, !.gen = v, !.pending = TRUE] \in StateSet
  BY <1>1 DEF StateSet
<1> QED BY <1>2 DEF Keyed, v

\* making compose.yml and the volumes,
LEMMA DerivedType == ASSUME NEW s \in StateSet PROVE Derived(s) \in StateSet
<1> DEFINE v == IF s.data = NoDirs THEN NoData ELSE s.data
<1>1. v \in Int
  BY Typed DEF NoData
<1> HIDE DEF v
<1>2. [s EXCEPT !.compose = TRUE, !.data = v] \in StateSet
  BY <1>1 DEF StateSet
<1> QED BY <1>2 DEF Derived, v

\* removing the run directory,
LEMMA UnloadedType == ASSUME NEW s \in StateSet PROVE Unloaded(s) \in StateSet
BY DEF Unloaded, StateSet

\* bringing its containers up,
LEMMA UpType == ASSUME NEW s \in StateSet PROVE Up(s) \in StateSet
<1> DEFINE v == IF s.data \in {NoDirs, NoData} THEN s.config ELSE s.data
<1>1. v \in Int
  BY Typed
<1> HIDE DEF v
<1>2. [s EXCEPT !.cont = "running", !.data = v] \in StateSet
  BY <1>1 DEF StateSet
<1> QED BY <1>2 DEF Up, v

\* recording an action,
LEMMA RecordedType ==
    ASSUME NEW s \in StateSet, NEW p \in Procs, NEW verb \in Actions
    PROVE  Recorded(p, s, verb) \in StateSet
<1> DEFINE w == Wish(p, s, verb)
           b == s.pending /\ verb \notin {"loaded", "started"}
<1>1. w \in {"none", "run", "stop"}
  BY Typed DEF Wish
<1>2. b \in BOOLEAN
  OBVIOUS
<1> HIDE DEF w, b
<1>3. [s EXCEPT !.last = verb, !.wish = w, !.pending = b] \in StateSet
  BY <1>1, <1>2 DEF StateSet
<1> QED BY <1>3 DEF Recorded, w, b

\* what restic reads,
LEMMA SourcesType ==
    ASSUME st \in [Apps -> StateSet], NEW a \in Apps
    PROVE  app_sources(a) \in SnapSet
<1>1. /\ st[a].bundle \in Nat /\ st[a].config \in Int /\ st[a].data \in Int
      /\ st[a].pending \in BOOLEAN
  BY Typed
<1> QED BY <1>1 DEF app_sources, SnapSet

\* a backup,
LEMMA BackedType ==
    ASSUME NEW s \in StateSet, NEW reason \in Reasons, NEW snap \in SnapSet
    PROVE  Backed(s, reason, snap) \in StateSet
<1> DEFINE v == [s.backups EXCEPT ![reason] = snap]
<1>1. v \in [Reasons -> SnapSet]
  BY Typed
<1> HIDE DEF v
<1>2. [s EXCEPT !.backups = v] \in StateSet
  BY <1>1 DEF StateSet
<1> QED BY <1>2 DEF Backed, v

\* removing the config,
LEMMA UnconfiguredType == ASSUME NEW s \in StateSet PROVE Unconfigured(s) \in StateSet
<1>1. NoFile \in Int
  BY DEF NoFile
<1>2. [s EXCEPT !.config = NoFile, !.pending = FALSE] \in StateSet
  BY <1>1 DEF StateSet
<1> QED BY <1>2 DEF Unconfigured

\* removing the volumes,
LEMMA EmptiedType ==
    ASSUME NEW s \in StateSet, NEW mode PROVE Emptied(s, mode) \in StateSet
<1> DEFINE v == IF mode = "data" THEN NoData ELSE NoDirs
<1>1. v \in Int
  BY DEF NoData, NoDirs
<1> HIDE DEF v
<1>2. [s EXCEPT !.data = v] \in StateSet
  BY <1>1 DEF StateSet
<1> QED BY <1>2 DEF Emptied, v

\* and putting a backup back.
LEMMA RestoredType ==
    ASSUME NEW s \in StateSet, NEW snap \in SnapSet
    PROVE  /\ Refilled(s, snap) \in StateSet
           /\ Reconfigured(s, snap) \in StateSet
           /\ [s EXCEPT !.bundle = snap.bundle] \in StateSet
<1>1. snap.data \in Int /\ snap.config \in Int /\ snap.pending \in BOOLEAN /\ snap.bundle \in Nat
  BY DEF SnapSet
<1> DEFINE v == IF snap.data = NoDirs THEN s.data ELSE snap.data
<1>2. v \in Int
  BY <1>1, Typed
<1> HIDE DEF v
<1>3. [s EXCEPT !.data = v] \in StateSet
  BY <1>2 DEF StateSet
<1>4. [s EXCEPT !.config = snap.config, !.pending = snap.pending] \in StateSet
  BY <1>1 DEF StateSet
<1>5. [s EXCEPT !.bundle = snap.bundle] \in StateSet
  BY <1>1 DEF StateSet
<1> QED BY <1>3, <1>4, <1>5 DEF Refilled, Reconfigured, v

\* A step of p leaves the state of every app but its own alone.
Owns(p) == UNCHANGED st \/ \E s \in StateSet : Becomes(p, s)

\* stop, load and start change the state of their app alone.
LEMMA RoutinesOwn ==
    ASSUME st \in [Apps -> StateSet], NEW p \in Procs, fr[p].app \in Apps, Routines(p)
    PROVE  Owns(p)
<1> DEFINE s == st[fr[p].app]
<1>0. s \in StateSet
  OBVIOUS
<1>1. CASE Stop(p)
  <2>1. [s EXCEPT !.cont = "none"] \in StateSet
    BY <1>0 DEF StateSet
  <2>2. Recorded(p, s, "stop-failed") \in StateSet
    BY <1>0, RecordedType DEF Actions
  <2> QED BY <1>1, <2>1, <2>2 DEF Stop, Owns
<1>2. CASE StopRecorded(p)
  <2>1. Recorded(p, s, IF fr[p].op \in Downs THEN "down" ELSE "stopped") \in StateSet
    BY <1>0, RecordedType DEF Actions
  <2> QED BY <1>2, <2>1 DEF StopRecorded, Owns
<1>3. CASE Load(p)
  BY <1>3 DEF Load, Owns
<1>4. CASE CommitOut(p)
  <2>1. [s EXCEPT !.bundle = 0] \in StateSet
    BY <1>0 DEF StateSet
  <2> QED BY <1>4, <2>1 DEF CommitOut, Owns
<1>5. CASE CommitIn(p)
  <2>1. [s EXCEPT !.bundle = s.source] \in StateSet
    BY <1>0 DEF StateSet
  <2> QED BY <1>5, <2>1 DEF CommitIn, Owns
<1>6. CASE TakeDown(p)
  BY <1>0, <1>6, OpenedType, UnregisteredType DEF TakeDown, Owns
<1>7. CASE GenerateConfig(p)
  BY <1>0, <1>7, KeyedType DEF GenerateConfig, Owns
<1>8. CASE Materialize(p)
  <2>1. Recorded(p, s, "load-failed") \in StateSet
    BY <1>0, RecordedType DEF Actions
  <2> QED BY <1>0, <1>8, <2>1, DerivedType DEF Materialize, Owns
<1>9. CASE LoadRecorded(p)
  <2>1. Recorded(p, s, "loaded") \in StateSet
    BY <1>0, RecordedType DEF Actions
  <2> QED BY <1>9, <2>1 DEF LoadRecorded, Owns
<1>10. CASE Start(p)
  BY <1>0, <1>10, OpenedType, DerivedType, UnregisteredType DEF Start, Owns
<1>11. CASE Blockers(p)
  <2>1. Recorded(p, s, "start-failed") \in StateSet
    BY <1>0, RecordedType DEF Actions
  <2> QED BY <1>11, <2>1 DEF Blockers, Owns
<1>12. CASE ComposeUp(p)
  <2>1. Recorded(p, s, "start-failed") \in StateSet
    BY <1>0, RecordedType DEF Actions
  <2> QED BY <1>0, <1>12, <2>1, UpType DEF ComposeUp, Owns
<1>13. CASE Register(p)
  <2>1. Recorded(p, s, "start-failed") \in StateSet
    BY <1>0, RecordedType DEF Actions
  <2>2. [s EXCEPT !.published = TRUE] \in StateSet
    BY <1>0 DEF StateSet
  <2> QED BY <1>13, <2>1, <2>2 DEF Register, Owns
<1>14. CASE StartRecorded(p)
  <2>1. Recorded(p, s, "started") \in StateSet
    BY <1>0, RecordedType DEF Actions
  <2> QED BY <1>14, <2>1 DEF StartRecorded, Owns
<1> QED
  BY <1>1, <1>2, <1>3, <1>4, <1>5, <1>6, <1>7, <1>8, <1>9, <1>10, <1>11, <1>12,
     <1>13, <1>14 DEF Routines

\* So do the bodies of the verbs.
LEMMA BodyOwns ==
    ASSUME st \in [Apps -> StateSet], fr \in [Procs -> FrameSet], NEW p \in Procs,
           fr[p].app \in Apps, Body(p)
    PROVE  Owns(p)
<1> DEFINE s == st[fr[p].app]
<1>0. s \in StateSet
  OBVIOUS
<1>a. fr[p].snap \in SnapSet
  BY DEF FrameSet
<1>1. CASE EnterSimple(p) \/ EnterReload(p) \/ EnterBackup(p) \/ EnterRemove(p)
           \/ EnterRestore(p)
  BY <1>1 DEF EnterSimple, EnterReload, EnterBackup, EnterRemove, EnterRestore, Owns
<1>2. CASE EnterConfig(p)
  <2> DEFINE o == Opened(s)
  <2>1. o \in StateSet
    BY <1>0, OpenedType
  <2>2. Becomes(p, o) \/ Becomes(p, [o EXCEPT !.pending = TRUE])
    BY <1>2 DEF EnterConfig
  <2> HIDE DEF o
  <2>3. [o EXCEPT !.pending = TRUE] \in StateSet
    BY <2>1 DEF StateSet
  <2> QED BY <2>1, <2>2, <2>3 DEF Owns
<1>3. CASE Snapshot(p)
  <2>1. Backed(s, Reason(p), app_sources(fr[p].app)) \in StateSet
    BY <1>0, BackedType, SourcesType DEF Reason, Reasons
  <2> QED BY <1>3, <2>1 DEF Snapshot, Owns
<1>4. CASE UpdateRecorded(p)
  <2>1. Recorded(p, s, "updated") \in StateSet
    BY <1>0, RecordedType DEF Actions
  <2> QED BY <1>4, <2>1 DEF UpdateRecorded, Owns
<1>5. CASE RemoveRun(p)
  BY <1>0, <1>5, UnloadedType, UnregisteredType DEF RemoveRun, Owns
<1>6. CASE RemoveConfig(p)
  BY <1>0, <1>6, UnconfiguredType DEF RemoveConfig, Owns
<1>7. CASE RemoveVolumes(p)
  BY <1>0, <1>7, EmptiedType DEF RemoveVolumes, Owns
<1>8. CASE RemoveRecorded(p)
  <2>1. RemoveAction(fr[p].arg) \in Actions
    BY DEF RemoveAction, Actions
  <2>2. Recorded(p, s, RemoveAction(fr[p].arg)) \in StateSet
    BY <1>0, <2>1, RecordedType
  <2> QED BY <1>8, <2>2 DEF RemoveRecorded, Owns
<1>9. CASE PreSnapshot(p)
  <2>1. Backed(s, "pre-restore", app_sources(fr[p].app)) \in StateSet
    BY <1>0, BackedType, SourcesType DEF Reasons
  <2> QED BY <1>9, <2>1 DEF PreSnapshot, Owns
<1>10. CASE ReplaceData(p)
  BY <1>0, <1>a, <1>10, RestoredType DEF ReplaceData, Owns
<1>11. CASE ReplaceConfig(p)
  BY <1>0, <1>a, <1>11, RestoredType DEF ReplaceConfig, Owns
<1>12. CASE ReplaceRun(p)
  BY <1>0, <1>12, UnloadedType DEF ReplaceRun, Owns
<1>13. CASE ReplaceBundle(p)
  <2>1. [s EXCEPT !.bundle = fr[p].snap.bundle] \in StateSet
    BY <1>0, <1>a, RestoredType
  <2> QED BY <1>13, <2>1 DEF ReplaceBundle, Owns
<1>14. CASE Rebuild(p)
  <2>1. Recorded(p, s, "restore-failed") \in StateSet
    BY <1>0, RecordedType DEF Actions
  <2> QED BY <1>0, <1>14, <2>1, DerivedType DEF Rebuild, Owns
<1>15. CASE RestoreRecorded(p)
  <2>1. Recorded(p, s, "restored") \in StateSet
    BY <1>0, RecordedType DEF Actions
  <2> QED BY <1>15, <2>1 DEF RestoreRecorded, Owns
<1> QED
  BY <1>1, <1>2, <1>3, <1>4, <1>5, <1>6, <1>7, <1>8, <1>9, <1>10, <1>11, <1>12,
     <1>13, <1>14, <1>15 DEF Body

-----------------------------------------------------------------------------
\* Between the stop of an app and the end of the reading it is stopped for, it stays down.
Stays(p) ==
    /\ pc[p] = "stopped" => ~running(fr[p].app)
    /\ pc[p] \in {"unlockK", "snapshot", "preSnapshot"} =>
          ~(is_loaded(fr[p].app) /\ running(fr[p].app))

\* The inductive invariant.
IndInv == LockInv /\ st \in [Apps -> StateSet] /\ \A p \in Procs : Stays(p)

\* The labels Stays speaks of.
Reading == {"stopped", "unlockK", "snapshot", "preSnapshot"}

\* A step of a process inside an app of its own does not start the app another one
\* reads: the app lock keeps them on different apps.
LEMMA OthersStay ==
    ASSUME IndInv, NEW p \in Procs, NEW q \in Procs, q # p, Owns(p), pc[p] \in AppHeld,
           pc'[q] = pc[q], fr'[q].app = fr[q].app
    PROVE  Stays(q)'
<1>1. CASE pc[q] \in Reading
  <2>1. pc[q] \in AppHeld /\ fr[q].app \in Apps /\ fr[p].app \in Apps
    BY <1>1 DEF Reading, AppHeld, BothHeld, IndInv, LockInv, Placed
  <2>2. appLock[fr[q].app] = q /\ appLock[fr[p].app] = p
    BY <2>1 DEF IndInv, LockInv, MutualExclusion
  <2>3. fr[q].app # fr[p].app
    BY <2>2
  <2>4. st'[fr[q].app] = st[fr[q].app]
    BY <2>1, <2>3 DEF Owns, Becomes, IndInv
  <2>5. Stays(q)
    BY DEF IndInv
  <2> QED BY <2>4, <2>5 DEF Stays, running, is_loaded
<1>2. CASE pc[q] \notin Reading
  BY <1>2 DEF Stays, Reading
<1> QED BY <1>1, <1>2

\* At any other label there is nothing to show.
LEMMA ElsewhereStays ==
    ASSUME NEW p \in Procs, pc'[p] \notin Reading
    PROVE  Stays(p)'
BY DEF Stays, Reading

\* Recording an action starts nothing.
LEMMA RecordedStays ==
    ASSUME NEW s \in StateSet, NEW p \in Procs, NEW verb \in Actions
    PROVE  Recorded(p, s, verb).cont = s.cont
<1> DEFINE w == Wish(p, s, verb)
           b == s.pending /\ verb \notin {"loaded", "started"}
<1> HIDE DEF w, b
<1>1. [s EXCEPT !.last = verb, !.wish = w, !.pending = b].cont = s.cont
  BY DEF StateSet
<1> QED BY <1>1 DEF Recorded, w, b

\* stop leaves its app down, and no other routine leads to a reading.
LEMMA RoutinesStay ==
    ASSUME IndInv, NEW p \in Procs, fr[p].app \in Apps, Routines(p), UNCHANGED scene
    PROVE  Stays(p)'
<1> USE DEF At, Goto, KeepFrame, IndInv, LockInv, LockTypes
<1>1. CASE Stop(p)
  <2>1. CASE pc'[p] = "stopped"
    <3>1. st' = [st EXCEPT ![fr[p].app] = [st[fr[p].app] EXCEPT !.cont = "none"]] /\ fr' = fr
      BY <1>1, <2>1 DEF Stop, Becomes
    <3>2. [st[fr[p].app] EXCEPT !.cont = "none"].cont = "none"
      BY DEF StateSet
    <3>3. st'[fr[p].app].cont = "none"
      BY <3>1, <3>2
    <3> QED BY <2>1, <3>1, <3>3 DEF Stays, running
  <2>2. CASE pc'[p] # "stopped"
    <3>1. pc'[p] \notin Reading
      BY <1>1, <2>2 DEF Stop, Reading
    <3> QED BY <3>1, ElsewhereStays
  <2> QED BY <2>1, <2>2
<1>2. CASE StopRecorded(p)
  <2> DEFINE s == st[fr[p].app]
             verb == IF fr[p].op \in Downs THEN "down" ELSE "stopped"
  <2>1. s.cont # "running" /\ s \in StateSet /\ verb \in Actions
    BY <1>2 DEF StopRecorded, Stays, running, Actions
  <2>2. Recorded(p, s, verb).cont # "running"
    BY <2>1, RecordedStays
  <2>3. st'[fr[p].app].cont # "running" /\ fr' = fr
    BY <1>2, <2>2 DEF StopRecorded, Becomes
  <2> QED BY <2>3 DEF Stays, running
<1>3. CASE ~Stop(p) /\ ~StopRecorded(p)
  <2>1. pc'[p] \notin Reading
    <3>1. AfterLoad(p) \notin Reading
      BY DEF AfterLoad, Reading
    <3>2. AfterStart(p) \notin Reading
      BY DEF AfterStart, Reading
    <3>3. CASE Load(p) \/ CommitOut(p) \/ CommitIn(p) \/ TakeDown(p) \/ GenerateConfig(p)
               \/ Materialize(p) \/ LoadRecorded(p)
      BY <3>1, <3>3 DEF Load, CommitOut, CommitIn, TakeDown, GenerateConfig, Materialize,
         LoadRecorded, Reading
    <3>4. CASE Start(p) \/ Blockers(p) \/ ComposeUp(p) \/ Register(p) \/ StartRecorded(p)
      BY <3>2, <3>4 DEF Start, Blockers, ComposeUp, Register, StartRecorded, Reading
    <3> QED BY <1>3, <3>3, <3>4 DEF Routines
  <2> QED BY <2>1, ElsewhereStays
<1> QED BY <1>1, <1>2, <1>3

\* A verb goes on to read without a stop only when its app is down.
LEMMA BodyStays ==
    ASSUME IndInv, NEW p \in Procs, fr[p].app \in Apps, Body(p), UNCHANGED scene
    PROVE  Stays(p)'
<1> USE DEF At, Goto, KeepFrame, KeepLocks, IndInv, LockInv, LockTypes, Enter
<1>1. CASE EnterBackup(p)
  <2>1. fr'[p].app = fr[p].app /\ st' = st
    BY <1>1 DEF EnterBackup, FrameSet
  <2>2. pc'[p] = IF running(fr[p].app) THEN "stop" ELSE "unlockK"
    BY <1>1 DEF EnterBackup
  <2> QED BY <2>1, <2>2 DEF Stays, running, is_loaded
<1>2. CASE EnterRestore(p)
  <2>1. fr'[p].app = fr[p].app /\ st' = st
    BY <1>2 DEF EnterRestore, FrameSet
  <2>2. pc'[p] \in Reading => /\ pc'[p] = "preSnapshot"
                              /\ ~(is_loaded(fr[p].app) /\ running(fr[p].app))
    BY <1>2 DEF EnterRestore, Reading
  <2> QED BY <2>1, <2>2 DEF Stays, running, is_loaded, Reading
<1>3. CASE Snapshot(p)
  <2>1. pc'[p] \notin Reading
    BY <1>3 DEF Snapshot, GiveUp, Leave, Reading
  <2> QED BY <2>1, ElsewhereStays
<1>4. CASE EnterSimple(p) \/ EnterConfig(p) \/ EnterReload(p) \/ UpdateRecorded(p)
           \/ EnterRemove(p) \/ RemoveRun(p) \/ RemoveConfig(p) \/ RemoveVolumes(p)
           \/ RemoveRecorded(p)
  <2>1. pc'[p] \notin Reading
    BY <1>4 DEF EnterSimple, EnterConfig, EnterReload, UpdateRecorded, EnterRemove, RemoveRun,
       RemoveConfig, RemoveVolumes, RemoveRecorded, Reading
  <2> QED BY <2>1, ElsewhereStays
<1>5. CASE PreSnapshot(p) \/ ReplaceData(p) \/ ReplaceConfig(p) \/ ReplaceRun(p)
           \/ ReplaceBundle(p) \/ Rebuild(p) \/ RestoreRecorded(p)
  <2>1. pc'[p] \notin Reading
    BY <1>5 DEF PreSnapshot, ReplaceData, ReplaceConfig, ReplaceRun, ReplaceBundle, Rebuild,
       RestoreRecorded, Reading
  <2> QED BY <2>1, ElsewhereStays
<1> QED BY <1>1, <1>2, <1>3, <1>4, <1>5 DEF Body

\* A step that changes no container and no loaded copy leaves what is read down.
LEMMA UntouchedStay ==
    ASSUME IndInv, NEW q \in Procs, pc'[q] = pc[q], fr'[q].app = fr[q].app,
           \A a \in Apps : st'[a].cont = st[a].cont /\ st'[a].bundle = st[a].bundle
    PROVE  Stays(q)'
<1>1. CASE pc[q] \in Reading
  <2>1. fr[q].app \in Apps
    BY <1>1 DEF IndInv, LockInv, Placed, Reading, AppHeld, BothHeld
  <2>2. Stays(q)
    BY DEF IndInv
  <2> QED BY <2>1, <2>2 DEF Stays, running, is_loaded
<1>2. CASE pc[q] \notin Reading
  BY <1>2 DEF Stays, Reading
<1> QED BY <1>1, <1>2

\* Giving the kelso lock up to read, or reading an app that is not loaded.
LEMMA LockingStays ==
    ASSUME IndInv, NEW p \in Procs, Locking(p), UNCHANGED scene
    PROVE  Stays(p)'
<1> USE DEF At, Goto, KeepFrame, KeepLocks
<1>0. Stays(p) /\ pc \in [Procs -> Labels]
  BY DEF IndInv, LockInv, LockTypes
<1>1. CASE LockApp(p)
  BY <1>0, <1>1 DEF LockApp, Stays, is_loaded, running
<1>2. CASE UnlockKelso(p)
  BY <1>0, <1>2 DEF UnlockKelso, Stays, is_loaded, running
<1>3. CASE SweepGroup(p) \/ SweepApp(p) \/ LockKelso(p) \/ LockKelsoAgain(p)
  <2>1. pc'[p] \notin Reading
    BY <1>0, <1>3 DEF SweepGroup, SweepApp, LockKelso, LockKelsoAgain, Reading
  <2> QED BY <2>1, ElsewhereStays
<1>4. CASE LockTimeout(p) \/ BackupRefused(p) \/ Unlock(p)
  <2>1. pc'[p] \notin Reading
    BY <1>0, <1>4 DEF LockTimeout, BackupRefused, Unlock, GiveUp, Leave, Reading
  <2> QED BY <2>1, ElsewhereStays
<1> QED BY <1>1, <1>2, <1>3, <1>4 DEF Locking

\* Locking changes no app and no other process.
LEMMA LockingUntouched ==
    ASSUME IndInv, NEW p \in Procs, Locking(p)
    PROVE  /\ UNCHANGED st
           /\ \A q \in Procs \ {p} : pc'[q] = pc[q] /\ fr'[q] = fr[q]
<1> USE DEF At, Goto, KeepFrame, KeepLocks, IndInv, LockInv, LockTypes
<1>1. UNCHANGED st
  BY DEF Locking, SweepGroup, SweepApp, LockApp, LockKelso, LockKelsoAgain, LockTimeout,
     BackupRefused, UnlockKelso, Unlock
<1>2. \A q \in Procs \ {p} : pc'[q] = pc[q]
  BY DEF Locking, SweepGroup, SweepApp, LockApp, LockKelso, LockKelsoAgain, LockTimeout,
     BackupRefused, UnlockKelso, Unlock, GiveUp
<1>3. \A q \in Procs \ {p} : fr'[q] = fr[q]
  <2>1. CASE SweepGroup(p) \/ SweepApp(p)
    BY <2>1 DEF SweepGroup, SweepApp
  <2>2. CASE LockTimeout(p) \/ BackupRefused(p) \/ Unlock(p)
    BY <2>2 DEF LockTimeout, BackupRefused, Unlock, GiveUp
  <2>3. CASE LockApp(p) \/ LockKelso(p) \/ LockKelsoAgain(p) \/ UnlockKelso(p)
    BY <2>3 DEF LockApp, LockKelso, LockKelsoAgain, UnlockKelso
  <2> QED BY <2>1, <2>2, <2>3 DEF Locking
<1> QED BY <1>1, <1>2, <1>3

\* A step that changes its app alone keeps the types.
LEMMA OwnsTyped ==
    ASSUME st \in [Apps -> StateSet], NEW p \in Procs, Owns(p)
    PROVE  st' \in [Apps -> StateSet]
BY DEF Owns, Becomes

\* Every step of a process keeps the invariant.
LEMMA StepKeeps ==
    ASSUME IndInv, NEW p \in Procs, Step(p)
    PROVE  IndInv'
<1>0. LockInv /\ st \in [Apps -> StateSet] /\ fr \in [Procs -> FrameSet] /\ UNCHANGED scene
  BY DEF IndInv, LockInv, LockTypes, Step
<1>1. CASE Routines(p)
  <2>1. Inside(p)
    BY <1>0, <1>1, RoutinesInside
  <2>2. pc[p] \in AppHeld /\ fr[p].app \in Apps
    BY <1>0, <2>1 DEF Inside, AppHeld, LockInv, Placed
  <2>3. Owns(p)
    BY <1>0, <1>1, <2>2, RoutinesOwn
  <2>4. Stays(p)'
    BY <1>0, <1>1, <2>2, RoutinesStay
  <2>5. \A q \in Procs \ {p} : pc'[q] = pc[q] /\ fr'[q].app = fr[q].app
    BY <1>0, <2>1 DEF Inside, Goto, LockInv, LockTypes
  <2>6. \A q \in Procs \ {p} : Stays(q)'
    BY <2>2, <2>3, <2>5, OthersStay
  <2>7. \A q \in Procs : Stays(q)'
    BY <2>4, <2>6
  <2> QED BY <1>0, <2>1, <2>3, <2>7, InsideKeeps, OwnsTyped DEF IndInv
<1>2. CASE Body(p) /\ ~Snapshot(p)
  <2>1. Inside(p)
    BY <1>0, <1>2, BodyInside
  <2>2. pc[p] \in AppHeld /\ fr[p].app \in Apps
    BY <1>0, <2>1 DEF Inside, AppHeld, LockInv, Placed
  <2>3. Owns(p)
    BY <1>0, <1>2, <2>2, BodyOwns
  <2>4. Stays(p)'
    BY <1>0, <1>2, <2>2, BodyStays
  <2>5. \A q \in Procs \ {p} : pc'[q] = pc[q] /\ fr'[q].app = fr[q].app
    BY <1>0, <2>1 DEF Inside, Goto, LockInv, LockTypes
  <2>6. \A q \in Procs \ {p} : Stays(q)'
    BY <2>2, <2>3, <2>5, OthersStay
  <2>7. \A q \in Procs : Stays(q)'
    BY <2>4, <2>6
  <2> QED BY <1>0, <2>1, <2>3, <2>7, InsideKeeps, OwnsTyped DEF IndInv
<1>3. CASE Snapshot(p)
  <2>1. LockInv'
    BY <1>0, <1>3, SnapshotKeeps
  <2>2. pc[p] \in AppHeld /\ fr[p].app \in Apps
    BY <1>0, <1>3 DEF Snapshot, At, AppHeld, LockInv, Placed
  <2>3. Owns(p)
    BY <1>0, <1>3, <2>2, BodyOwns DEF Body
  <2>4. Stays(p)'
    BY <1>0, <1>3, <2>2, BodyStays DEF Body
  <2>5. \A q \in Procs \ {p} : pc'[q] = pc[q] /\ fr'[q].app = fr[q].app
    BY <1>0, <1>3 DEF Snapshot, Goto, GiveUp, KeepFrame, LockInv, LockTypes
  <2>6. \A q \in Procs \ {p} : Stays(q)'
    BY <2>2, <2>3, <2>5, OthersStay
  <2>7. \A q \in Procs : Stays(q)'
    BY <2>4, <2>6
  <2> QED BY <1>0, <2>1, <2>3, <2>7, OwnsTyped DEF IndInv
<1>4. CASE Locking(p)
  <2>1. LockInv'
    BY <1>0, <1>4, LockingKeeps
  <2>2. UNCHANGED st /\ \A q \in Procs \ {p} : pc'[q] = pc[q] /\ fr'[q] = fr[q]
    BY <1>4, LockingUntouched
  <2>3. Stays(p)'
    BY <1>0, <1>4, LockingStays
  <2>4. \A q \in Procs \ {p} : Stays(q)'
    BY <2>2, UntouchedStay
  <2>5. \A q \in Procs : Stays(q)'
    BY <2>3, <2>4
  <2> QED BY <1>0, <2>1, <2>2, <2>5 DEF IndInv
<1> QED BY <1>1, <1>2, <1>3, <1>4 DEF Step

\* Opening a store changes no container and no loaded copy.
LEMMA OpenedSame ==
    ASSUME NEW s \in StateSet
    PROVE  Opened(s).cont = s.cont /\ Opened(s).bundle = s.bundle
<1> DEFINE v == IF s.config = NoFile THEN Empty ELSE s.config
<1> HIDE DEF v
<1>1. [s EXCEPT !.config = v].cont = s.cont /\ [s EXCEPT !.config = v].bundle = s.bundle
  BY DEF StateSet
<1> QED BY <1>1 DEF Opened, v

\* A step that changes no container and no loaded copy, but may open stores or move sources.
Harmless ==
    /\ st' \in [Apps -> StateSet]
    /\ \A a \in Apps : st'[a].cont = st[a].cont /\ st'[a].bundle = st[a].bundle

\* Neither does anything that is read before the locks.
LEMMA AskingHarmless ==
    ASSUME IndInv, NEW p \in Procs, Asking(p)
    PROVE  Harmless
<1>0. st \in [Apps -> StateSet]
  BY DEF IndInv
<1>1. CASE \E op \in OneApp, a \in scene.apps : AskApp(p, op, a)
  <2>1. PICK op \in OneApp, a \in scene.apps : AskApp(p, op, a)
    BY <1>1
  <2>2. st' = st \/ st' = [st EXCEPT ![a] = Opened(st[a])]
    BY <2>1 DEF AskApp
  <2> QED BY <1>0, <2>2, OpenedType, OpenedSame DEF Harmless
<1>2. CASE \E op \in Removes, a \in scene.apps, mode \in Modes : AskRemove(p, op, a, mode)
  BY <1>0, <1>2 DEF AskRemove, Harmless
<1>3. CASE \E a \in scene.apps, reason \in Reasons : AskRestore(p, a, reason)
  BY <1>0, <1>3 DEF AskRestore, Harmless
<1>4. CASE \E op \in Sweeps : AskSweep(p, op)
  <2>1. st' = [a \in Apps |-> IF is_loaded(a) THEN Opened(st[a]) ELSE st[a]]
    BY <1>4 DEF AskSweep
  <2> QED BY <1>0, <2>1, OpenedType, OpenedSame DEF Harmless
<1> QED BY <1>1, <1>2, <1>3, <1>4 DEF Asking

\* Asking for a verb keeps the invariant.
LEMMA AskingKeeps ==
    ASSUME IndInv, NEW p \in Procs, Asking(p), UNCHANGED scene
    PROVE  IndInv'
<1>1. Harmless
  BY AskingHarmless
<1>2. Begins(p)
  BY AskingBegins DEF IndInv
<1>3. LockInv'
  BY <1>2, BeginsKeeps DEF IndInv
<1>4. \A q \in Procs \ {p} : pc'[q] = pc[q] /\ fr'[q].app = fr[q].app
  BY <1>2 DEF Begins, IndInv, LockInv, LockTypes
<1>5. \A q \in Procs \ {p} : Stays(q)'
  BY <1>1, <1>4, UntouchedStay DEF Harmless
<1>6. pc'[p] \notin Reading
  BY <1>2 DEF Begins, Reading, IndInv, LockInv, LockTypes
<1>7. Stays(p)'
  BY <1>6, ElsewhereStays
<1>8. \A q \in Procs : Stays(q)'
  BY <1>5, <1>7
<1> QED BY <1>1, <1>3, <1>8 DEF IndInv, Harmless

\* So does the death of a process,
LEMMA CrashStays ==
    ASSUME IndInv, NEW p \in Procs, Crash(p), UNCHANGED scene
    PROVE  IndInv'
<1>1. LockInv'
  BY CrashKeeps DEF IndInv
<1>2. UNCHANGED st
  BY DEF Crash
<1>3. \A q \in Procs \ {p} : pc'[q] = pc[q] /\ fr'[q].app = fr[q].app
  BY DEF Crash, Goto, IndInv, LockInv, LockTypes
<1>4. \A q \in Procs \ {p} : Stays(q)'
  BY <1>2, <1>3, UntouchedStay
<1>5. pc'[p] \notin Reading
  BY DEF Crash, Goto, Reading, IndInv, LockInv, LockTypes
<1>6. \A q \in Procs : Stays(q)'
  BY <1>4, <1>5, ElsewhereStays
<1> QED BY <1>1, <1>2, <1>6 DEF IndInv

\* a reboot,
LEMMA RebootStays ==
    ASSUME IndInv, Reboot, UNCHANGED scene
    PROVE  IndInv'
<1>1. LockInv'
  BY RebootKeeps DEF IndInv
<1>2. st' \in [Apps -> StateSet]
  <2>1. \A s \in StateSet : [s EXCEPT !.cont = "exited"] \in StateSet
    BY DEF StateSet
  <2> QED BY <2>1 DEF Reboot, IndInv
<1>3. \A q \in Procs : pc'[q] \notin Reading
  BY DEF Reboot, Reading
<1>4. \A q \in Procs : Stays(q)'
  BY <1>3, ElsewhereStays
<1> QED BY <1>1, <1>2, <1>4 DEF IndInv

\* and a new version at the source.
LEMMA SourceMovesKeeps ==
    ASSUME IndInv, NEW a \in scene.apps, SourceMoves(a), UNCHANGED scene
    PROVE  IndInv'
<1>1. a \in Apps
  BY ConstantsAssumption DEF IndInv, LockInv, LockTypes, SceneSet
<1> DEFINE s == st[a]
           n == s.source + 1
           m == [s EXCEPT !.source = n]
<1>2. s \in StateSet /\ n \in Nat
  BY <1>1, Typed DEF IndInv
<1>3. st' = [st EXCEPT ![a] = m]
  BY DEF SourceMoves
<1> HIDE DEF s, n
<1>4. m \in StateSet /\ m.cont = s.cont /\ m.bundle = s.bundle
  BY <1>2 DEF StateSet
<1> HIDE DEF m
<1>5. Harmless
  BY <1>3, <1>4 DEF Harmless, IndInv, s
<1>6. LockInv' /\ \A q \in Procs : pc'[q] = pc[q] /\ fr'[q].app = fr[q].app
  BY DEF SourceMoves, IndInv, LockInv, LockTypes, Placed, MutualExclusion
<1>7. \A q \in Procs : Stays(q)'
  BY <1>5, <1>6, UntouchedStay DEF Harmless
<1> QED BY <1>5, <1>6, <1>7 DEF IndInv, Harmless

\* The invariant holds at first.
LEMMA InitInv ==
    ASSUME Init
    PROVE  IndInv
<1>1. NoFrame \in FrameSet
  BY DEF NoFrame, Frame, FrameSet, NoPlan, NoSnap, SnapSet, NoFile, NoDirs
<1>2. Fresh \in StateSet
  BY DEF Fresh, StateSet, NoSnap, SnapSet, NoFile, NoDirs, Actions
<1>3. LockTypes
  BY <1>1 DEF Init, LockTypes, Labels
<1>4. Placed /\ MutualExclusion
  BY ConstantsAssumption DEF Init, Placed, MutualExclusion, AppHeld, BothHeld
<1>5. \A p \in Procs : Stays(p)
  BY DEF Init, Stays
<1>6. st \in [Apps -> StateSet]
  BY <1>2 DEF Init
<1> QED BY <1>3, <1>4, <1>5, <1>6 DEF IndInv, LockInv

\* And when nothing happens.
LEMMA StutterInv ==
    ASSUME IndInv, UNCHANGED vars
    PROVE  IndInv'
BY DEF IndInv, LockInv, LockTypes, Placed, MutualExclusion, Stays, running, is_loaded, vars

\* Every step keeps the invariant.
LEMMA IndNext == ASSUME IndInv, [Next]_vars PROVE IndInv'
<1>1. CASE \E p \in Procs : Step(p)
  BY <1>1, StepKeeps
<1>2. CASE \E p \in Procs : (Asking(p) \/ Crash(p)) /\ UNCHANGED scene
  BY <1>2, AskingKeeps, CrashStays
<1>3. CASE \E a \in scene.apps : SourceMoves(a) /\ UNCHANGED scene
  BY <1>3, SourceMovesKeeps
<1>4. CASE Reboot /\ UNCHANGED scene
  BY <1>4, RebootStays
<1>5. CASE UNCHANGED vars
  BY <1>5, StutterInv
<1> QED BY <1>1, <1>2, <1>3, <1>4, <1>5 DEF Next

\* The invariant holds of every behaviour, whatever the apps, processes and scenes.
THEOREM Inductive == Spec => []IndInv
<1>1. Init => IndInv
  BY InitInv
<1>2. IndInv /\ [Next]_vars => IndInv'
  BY IndNext
<1> QED BY <1>1, <1>2, PTL DEF Spec

\* Every variable has its type, for any apps, processes and scenes.
THEOREM Types == Spec => []TypeOK
<1>1. IndInv => TypeOK
  BY DEF IndInv, LockInv, LockTypes, TypeOK
<1> QED BY <1>1, Inductive, PTL

\* Two processes are never inside one app, nor two under the kelso lock, though
\* backups and updates let go of it half way, waits time out, and processes are killed.
THEOREM Exclusion == Spec => []MutualExclusion
<1>1. IndInv => MutualExclusion
  BY DEF IndInv, LockInv
<1> QED BY <1>1, Inductive, PTL

\* restic never reads the data of a loaded app while its containers run, whatever
\* any number of other processes do while it reads under the app lock alone.
THEOREM Quiescence == Spec => []SnapshotQuiescent
<1>1. IndInv => SnapshotQuiescent
  BY DEF IndInv, Stays, SnapshotQuiescent
<1> QED BY <1>1, Inductive, PTL
=============================================================================
