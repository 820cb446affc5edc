----------------------------- MODULE Lifecycle -----------------------------
(***************************************************************************)
(* The verbs that change an app, run by several processes at once: kelsod's*)
(* job thread, its schedule, and any number of `kelso` commands typed at a *)
(* shell.  They meet only in the file system, in docker, and in two file   *)
(* locks: one per app, taken first, and the kelso-wide one                 *)
(* (kelso/lib/kelso.py).                                                   *)
(*                                                                         *)
(* Each verb is a walk through labels.  The routines start, stop and load  *)
(* are shared: After... says where the verb goes on when one returns.  A   *)
(* step is one rename, one docker command, one record, or the deletion of  *)
(* one tree.  A label names what the step taken from it does.              *)
(*                                                                         *)
(* A definition introduced as a mutant is a wrong variant of the one after *)
(* it, used by nothing: put in its place, it makes a property fail.        *)
(***************************************************************************)
EXTENDS Integers, FiniteSets

CONSTANTS
    Apps,        \* app ids
    Procs,       \* processes that run verbs
    NoProc,      \* the holder of a free lock
    NoApp,       \* the app of a process that works on none
    Group,       \* Group[a]: a's start_order; 0 is kelsod's own group
    Scenes       \* what may be asked for and go wrong in a behaviour (see SceneSet)

NoFile == -1     \* no config logtab on disk
Empty  == 0      \* a config logtab that holds no secret
NoData == -1     \* no file in the app's data volumes
NoDirs == -2     \* no data volume at all

OneApp  == {"start", "stop", "restart", "load", "backup", "update", "config"}
Removes == {"rm", "rmCli"}
Ups     == {"up", "resume", "up0"}
Downs   == {"down", "down0"}
Verbs   == OneApp \cup Removes \cup {"restore"} \cup Ups \cup Downs
Modes   == {"unload", "rm", "temp", "data", "purge"}
Reasons == {"manual", "update", "pre-restore"}

(***************************************************************************)
(* The scene of a behaviour: apps are the ones verbs are asked for, does   *)
(* the verbs each process may be asked for; timeouts is whether a process  *)
(* gives up waiting for a lock.  The rest are bounds: no purge is asked    *)
(* for once gen secrets were made, a source goes through version versions, *)
(* docker, restic, volumes and providers fail faults times, and crashes    *)
(* processes are killed or machines rebooted.                              *)
(***************************************************************************)
SceneSet == [apps : SUBSET Apps, does : [Procs -> SUBSET Verbs], timeouts : BOOLEAN,
             gen : Nat, version : Nat, faults : Nat, crashes : Nat]

ASSUME ConstantsAssumption ==
    /\ NoProc \notin Procs
    /\ NoApp \notin Apps
    /\ Group \in [Apps -> 0..9]
    /\ Scenes \subseteq SceneSet

VARIABLES
    scene,       \* the scene
    appLock,     \* per app, the process that holds its file lock
    kelsoLock,   \* the process that holds the kelso-wide file lock
    pc,          \* per process, its label
    fr,          \* per process, the frame of the verb it runs
    st,          \* per app, what disk, docker and the providers hold (see Fresh)
    faults,      \* failures so far
    crashes,     \* crashes so far
    resumed      \* kelsod's `up --resume` has finished since the last crash

vars == <<scene, appLock, kelsoLock, pc, fr, st, faults, crashes, resumed>>

NoSnap  == [bundle |-> 0, config |-> NoFile, pending |-> FALSE, data |-> NoDirs,
            taken |-> FALSE]
NoPlan  == [stop |-> FALSE, config |-> FALSE, volumes |-> FALSE]
\* The frame a verb begins with.
Frame(op, app, arg) ==
    [op |-> op, app |-> app, arg |-> arg, was |-> FALSE, bad |-> FALSE,
     plan |-> NoPlan, snap |-> NoSnap, todo |-> {}, batch |-> {}]
NoFrame == Frame("none", NoApp, "-")

(***************************************************************************)
(* An app nobody has loaded.  source is the version its bundle is at in    *)
(* the catalog; bundle the version under var/run/<app>/app_bundle, or 0;   *)
(* compose whether compose.yml is there; config NoFile, Empty or the       *)
(* generation of its secrets; pending whether its log holds a change of    *)
(* subdomain or routes since the last load or start; data NoDirs, NoData   *)
(* or the secrets its data was made with; cont its containers; published   *)
(* whether its routes stand at the providers; last the last action         *)
(* recorded; backups the newest one taken for each reason; gen how many    *)
(* times secrets were generated; wish, which no code reads, whether the    *)
(* operator last had it run or stop.                                       *)
(***************************************************************************)
Fresh == [source |-> 1, bundle |-> 0, compose |-> FALSE, config |-> NoFile,
          pending |-> FALSE, data |-> NoDirs, cont |-> "none",
          published |-> FALSE, last |-> "none",
          backups |-> [r \in Reasons |-> NoSnap], gen |-> 0, wish |-> "none"]

Init ==
    /\ scene \in Scenes
    /\ appLock = [a \in Apps |-> NoProc]
    /\ kelsoLock = NoProc
    /\ pc = [p \in Procs |-> "idle"]
    /\ fr = [p \in Procs |-> NoFrame]
    /\ st = [a \in Apps |-> Fresh]
    /\ faults = 0
    /\ crashes = 0
    /\ resumed = TRUE

-----------------------------------------------------------------------------
(* What the verbs read. *)

is_loaded(a)  == st[a].bundle # 0
running(a)    == st[a].cont = "running"
containers(a) == st[a].cont # "none"

HasData(a) == st[a].data \notin {NoDirs, NoData}

\* What restic reads of an app: its data volumes, loaded copy and config.
app_sources(a) == [bundle |-> st[a].bundle, config |-> st[a].config,
                   pending |-> st[a].pending, data |-> st[a].data, taken |-> TRUE]

unloads(mode) == mode \in {"unload", "rm", "purge"}

\* When removal_plan refuses, and otherwise what it plans.
PlanRefused(a, mode) == \/ containers(a) /\ ~st[a].compose
                        \/ mode # "unload" /\ running(a)
\* Mutant: nothing is stopped first.
RemovalPlanNoStop(a, mode) ==
    [stop    |-> FALSE,
     config  |-> mode = "purge" /\ st[a].config # NoFile,
     volumes |-> mode \in {"data", "purge"} /\ st[a].data # NoDirs]
removal_plan(a, mode) ==
    [stop    |-> unloads(mode) /\ st[a].compose /\ containers(a),
     config  |-> mode = "purge" /\ st[a].config # NoFile,
     volumes |-> mode \in {"data", "purge"} /\ st[a].data # NoDirs]

Sweeps == Ups \cup Downs

\* Mutant: the last group is left out.
CoveredShort(op) == IF op \in {"up0", "down0"} THEN {0} ELSE 1..8
\* The groups a sweep covers, and the group it turns to next.
Covered(op) == IF op \in {"up0", "down0"} THEN {0} ELSE 1..9
TheirGroups(S) == {Group[a] : a \in S}
NextGroup(op, S) ==
    CHOOSE g \in TheirGroups(S) :
        \A h \in TheirGroups(S) : IF op \in Downs THEN g >= h ELSE g <= h

-----------------------------------------------------------------------------
(* What the verbs make of the state s of an app. *)

\* Opening an app's store creates its logtab when it is missing.
Opened(s) == [s EXCEPT !.config = IF s.config = NoFile THEN Empty ELSE s.config]

\* Mutant: the routes stay up.
StillRegistered(s) == s
\* Its routes come down at the providers.
unregistered(s) == [s EXCEPT !.published = FALSE]

\* Secrets the store does not hold yet are generated, and the default provider
\* assigned.
Keyed(s) == [s EXCEPT !.config = s.gen + 1, !.gen = s.gen + 1, !.pending = TRUE]

\* compose.yml and the volume directories are made.
Derived(s) == [s EXCEPT !.compose = TRUE,
                        !.data = IF s.data = NoDirs THEN NoData ELSE s.data]

\* The run directory goes.
Unloaded(s) == [s EXCEPT !.bundle = 0, !.compose = FALSE]

\* Containers come up with the secrets on file, and make data that has none yet
\* with them.
Up(s) == [s EXCEPT !.cont = "running",
                   !.data = IF s.data \in {NoDirs, NoData} THEN s.config ELSE s.data]

-----------------------------------------------------------------------------
(* Moving through a verb.  Every step names the process p that takes it.    *)

At(p, l)       == pc[p] = l
Goto(p, l)     == pc' = [pc EXCEPT ![p] = l]
Becomes(p, s)  == st' = [st EXCEPT ![fr[p].app] = s]
KeepFrame      == UNCHANGED <<appLock, kelsoLock, fr, crashes, resumed>>
Fault          == faults < scene.faults /\ faults' = faults + 1
NoFault        == UNCHANGED faults
KeepLocks      == UNCHANGED <<appLock, kelsoLock, crashes, resumed>>

\* Where a process goes from an app: a sweep to the next, another verb nowhere.
Leave(p) == IF fr[p].op \in Sweeps THEN "nextApp" ELSE "idle"
Left(p)  == IF fr[p].op \in Sweeps THEN [fr[p] EXCEPT !.app = NoApp] ELSE NoFrame

\* Where each verb goes on when a routine it called returns.
AfterStop(p) ==
    CASE fr[p].op = "restart"              -> "start"
      [] fr[p].op = "load"                 -> "load"
      [] fr[p].op \in Removes              -> "rmRun"
      [] fr[p].op \in {"backup", "update"} -> "unlockK"
      [] fr[p].op = "restore"              -> "preSnapshot"
      [] OTHER                             -> "done"
AfterLoad(p) ==
    CASE fr[p].op = "start"  -> "blockers"
      [] fr[p].op = "update" -> "updated"
      [] OTHER               -> IF fr[p].was THEN "start" ELSE "done"
AfterStart(p) ==
    CASE fr[p].bad            -> "fail"
      [] fr[p].op = "restore" -> "replaceData"
      [] OTHER                -> "done"

\* Record verb as the last action.  wish is what the operator asked for with the
\* verbs so recorded: the stop inside a backup is nobody's wish.
Wish(p, s, verb) ==
    CASE verb = "stopped" /\ fr[p].op = "stop"                   -> "stop"
      [] verb = "stopped" \/ fr[p].was                           -> s.wish
      [] verb = "started"                                        -> "run"
      [] verb \in {"cleared-temp", "cleared-data"} /\ s.wish = "stop" -> s.wish
      [] OTHER                                                   -> "none"
Recorded(p, s, verb) ==
    [s EXCEPT !.last = verb, !.wish = Wish(p, s, verb),
              !.pending = s.pending /\ verb \notin {"loaded", "started"}]

-----------------------------------------------------------------------------
(* The routine stop. *)

\* `stop` without compose.yml raises; `compose down` fails, or removes the
\* containers.
Stop(p) == LET s == st[fr[p].app] IN
    /\ At(p, "stop") /\ KeepFrame
    /\ \/ /\ ~s.compose
          /\ Goto(p, "fail") /\ NoFault /\ UNCHANGED st
       \/ /\ s.compose /\ Fault
          /\ Becomes(p, Recorded(p, s, "stop-failed"))
          /\ Goto(p, "fail")
       \/ /\ s.compose /\ NoFault
          /\ Becomes(p, [s EXCEPT !.cont = "none"])
          /\ Goto(p, "stopped")

StopRecorded(p) == LET s == st[fr[p].app] IN
    /\ At(p, "stopped") /\ KeepFrame /\ NoFault
    /\ Becomes(p, Recorded(p, s, IF fr[p].op \in Downs THEN "down" ELSE "stopped"))
    /\ Goto(p, AfterStop(p))

-----------------------------------------------------------------------------
(* The routine load. *)

\* Mutant: data without a config does not matter.
LoadRefusedRunning(p) == running(fr[p].app)
\* It refuses a running app, and one whose config is gone while its data is
\* still there.  A bundle that does not extract or validate is discarded.  Only
\* an update loads over another version.
LoadRefused(p) == LET a == fr[p].app IN
    \/ running(a)
    \/ st[a].config = NoFile /\ HasData(a)
    \/ fr[p].op # "update" /\ is_loaded(a) /\ st[a].bundle # st[a].source
Load(p) ==
    /\ At(p, "load") /\ KeepFrame /\ UNCHANGED st
    /\ \/ LoadRefused(p) /\ Goto(p, "fail") /\ NoFault
       \/ ~LoadRefused(p) /\ Goto(p, "fail") /\ Fault
       \/ ~LoadRefused(p) /\ Goto(p, "commitOut") /\ NoFault

\* The old copy is renamed away, then the new one into its place.  What comes
\* after knows from `was_loaded` whether there was an old one.
CommitOut(p) == LET s == st[fr[p].app] IN
    /\ At(p, "commitOut") /\ KeepFrame /\ NoFault
    /\ Becomes(p, [s EXCEPT !.bundle = 0])
    /\ Goto(p, IF s.bundle # 0 THEN "commitOver" ELSE "commitNew")

CommitIn(p) == LET s == st[fr[p].app] IN
    /\ \/ At(p, "commitOver") /\ Goto(p, "takeDown")
       \/ At(p, "commitNew") /\ Goto(p, "generate")
    /\ KeepFrame /\ NoFault
    /\ Becomes(p, [s EXCEPT !.bundle = s.source])

\* The store is opened to record where the copy came from; the routes of what
\* was loaded before come down, unless the provider does not answer.
TakeDown(p) == LET s == Opened(st[fr[p].app]) IN
    /\ At(p, "takeDown") /\ KeepFrame /\ Goto(p, "generate")
    /\ \/ NoFault /\ Becomes(p, unregistered(s))
       \/ Fault /\ Becomes(p, s)

missing(s) == s.config \in {NoFile, Empty}
GenerateConfig(p) == LET s == st[fr[p].app] IN
    /\ At(p, "generate") /\ KeepFrame /\ NoFault
    /\ Becomes(p, IF missing(s) THEN Keyed(s) ELSE s)
    /\ Goto(p, "materialize")

Materialize(p) == LET s == st[fr[p].app] IN
    /\ At(p, "materialize") /\ KeepFrame
    /\ \/ Fault /\ Goto(p, "fail") /\ Becomes(p, Recorded(p, s, "load-failed"))
       \/ NoFault /\ Goto(p, "loaded") /\ Becomes(p, Derived(s))

LoadRecorded(p) ==
    /\ At(p, "loaded") /\ KeepFrame /\ NoFault
    /\ Becomes(p, Recorded(p, st[fr[p].app], "loaded"))
    /\ Goto(p, AfterLoad(p))

-----------------------------------------------------------------------------
(* The routine start. *)

\* `kelso start` loads an app that is not loaded.  The others start the run
\* copy, and have nothing to load when it is gone.  When the subdomain or an
\* assignment changed, the routes come down, unless the provider does not answer,
\* and compose.yml is made again, or a failure to do so raises.
Start(p) == LET s == st[fr[p].app]
                opened == Opened(s) IN
    /\ At(p, "start") /\ KeepFrame
    /\ \/ /\ s.bundle = 0 /\ NoFault /\ UNCHANGED st
          /\ Goto(p, IF fr[p].op = "start" THEN "load" ELSE "fail")
       \/ /\ s.bundle # 0 /\ ~s.pending /\ NoFault
          /\ Becomes(p, opened) /\ Goto(p, "blockers")
       \/ /\ s.bundle # 0 /\ s.pending
          /\ \/ /\ NoFault /\ Goto(p, "blockers")
                /\ Becomes(p, unregistered(Derived(opened)))
             \/ Fault /\ Goto(p, "blockers") /\ Becomes(p, Derived(opened))
             \/ Fault /\ Goto(p, "fail") /\ Becomes(p, unregistered(opened))

\* Start blockers and a missing compose.yml raise; a failed preflight is
\* recorded first.
Blockers(p) == LET s == st[fr[p].app] IN
    /\ At(p, "blockers") /\ KeepFrame
    /\ \/ s.compose /\ NoFault /\ UNCHANGED st /\ Goto(p, "composeUp")
       \/ ~s.compose /\ NoFault /\ UNCHANGED st /\ Goto(p, "fail")
       \/ /\ s.compose /\ Fault /\ Goto(p, "fail")
          /\ UNCHANGED st \/ Becomes(p, Recorded(p, s, "start-failed"))

\* A failed `compose up` may have started some containers.
ComposeUp(p) == LET s == st[fr[p].app]
                    failed == Recorded(p, s, "start-failed") IN
    /\ At(p, "composeUp") /\ KeepFrame
    /\ \/ NoFault /\ Becomes(p, Up(s)) /\ Goto(p, "register")
       \/ Fault /\ Becomes(p, failed) /\ Goto(p, "fail")
       \/ Fault /\ Becomes(p, Up(failed)) /\ Goto(p, "fail")

Register(p) == LET s == st[fr[p].app] IN
    /\ At(p, "register") /\ KeepFrame
    /\ \/ NoFault /\ Goto(p, "started") /\ Becomes(p, [s EXCEPT !.published = TRUE])
       \/ Fault /\ Goto(p, "fail") /\ Becomes(p, Recorded(p, s, "start-failed"))

StartRecorded(p) ==
    /\ At(p, "started") /\ KeepFrame /\ NoFault
    /\ Becomes(p, Recorded(p, st[fr[p].app], "started"))
    /\ Goto(p, AfterStart(p))

-----------------------------------------------------------------------------
(* Asking for a verb: what is read before any lock is taken. *)

Ask(p, op, frame) ==
    /\ At(p, "idle") /\ op \in scene.does[p]
    /\ fr' = [fr EXCEPT ![p] = frame]
    /\ KeepLocks /\ NoFault

\* A verb on one app.  An update needs a loaded app, and reads from its store
\* which version that is.
AskApp(p, op, a) ==
    /\ op \in OneApp
    /\ op = "update" => is_loaded(a)
    /\ Ask(p, op, Frame(op, a, "-"))
    /\ st' = IF op = "update" THEN [st EXCEPT ![a] = Opened(@)] ELSE st
    /\ Goto(p, "lockA")

\* A job plans a removal once it holds the locks; the command line plans it,
\* asks for confirmation, and only then takes them.
AskRemove(p, op, a, mode) ==
    /\ op \in Removes
    /\ mode = "purge" => st[a].gen < scene.gen
    /\ op = "rmCli" => ~PlanRefused(a, mode)
    /\ Ask(p, op, [Frame(op, a, mode) EXCEPT
               !.plan = IF op = "rmCli" THEN removal_plan(a, mode) ELSE NoPlan])
    /\ Goto(p, "lockA") /\ UNCHANGED st

\* Mutant: a running app is restored like any other.
RestorableAny(a, reason) == st[a].backups[reason].taken
\* restore_plan finds the backup and refuses a running app.
Restorable(a, reason) == st[a].backups[reason].taken /\ ~running(a)
AskRestore(p, a, reason) ==
    /\ Restorable(a, reason)
    /\ Ask(p, "restore", [Frame("restore", a, reason) EXCEPT
               !.snap = st[a].backups[reason]])
    /\ Goto(p, "lockA") /\ UNCHANGED st

\* A sweep lists the loaded apps of its groups, and opens each one's store to
\* read its start_order.  kelsod submits one `up --resume` each time it starts.
AskSweep(p, op) ==
    /\ op \in Sweeps
    /\ op = "resume" => ~resumed
    /\ Ask(p, op, [Frame(op, NoApp, "-") EXCEPT
               !.todo = {a \in Apps : is_loaded(a) /\ Group[a] \in Covered(op)}])
    /\ st' = [a \in Apps |-> IF is_loaded(a) THEN Opened(st[a]) ELSE st[a]]
    /\ Goto(p, "nextGroup")

\* Mutant: the groups done are not taken off the list.
LaterAll(todo, group) == todo
\* The groups of a sweep after this one.
Later(todo, group) == todo \ group

\* The next group of a sweep.  `down` looks which of its apps run; a sweep with
\* no group left is over.
SweepGroup(p) == LET f == fr[p]
                     group == {a \in f.todo : Group[a] = NextGroup(f.op, f.todo)} IN
    /\ At(p, "nextGroup") /\ NoFault
    /\ UNCHANGED <<appLock, kelsoLock, crashes, st>>
    /\ \/ /\ f.todo = {}
          /\ Goto(p, "idle") /\ fr' = [fr EXCEPT ![p] = NoFrame]
          /\ resumed' = (resumed \/ f.op = "resume")
       \/ /\ f.todo # {} /\ UNCHANGED resumed
          /\ Goto(p, "nextApp")
          /\ LET batch == IF f.op \in Downs THEN {a \in group : running(a)} ELSE group
             IN  fr' = [fr EXCEPT ![p] = [f EXCEPT !.todo = Later(f.todo, group),
                                                   !.batch = batch]]

\* Mutant: `up` starts what was stopped.
SkippedResumeOnly(op, a) == op = "resume" /\ st[a].last # "started"
\* `up` reads an app's last action before it locks the app.
Skipped(op, a) == \/ op \in Ups /\ st[a].last = "stopped"
                  \/ op = "resume" /\ st[a].last # "started"
SweepApp(p) == LET f == fr[p] IN
    /\ At(p, "nextApp") /\ KeepLocks /\ NoFault /\ UNCHANGED st
    /\ \/ /\ f.batch = {}
          /\ Goto(p, "nextGroup") /\ UNCHANGED fr
       \/ \E a \in f.batch :
             LET skipped == Skipped(f.op, a) IN
             /\ fr' = [fr EXCEPT ![p] = [f EXCEPT !.batch = f.batch \ {a},
                                         !.app = IF skipped THEN NoApp ELSE a]]
             /\ Goto(p, IF skipped THEN "nextApp" ELSE "lockA")

-----------------------------------------------------------------------------
(* The locks. *)

\* A backup of an app that is not loaded has nothing to stop.
LockApp(p) == LET a == fr[p].app IN
    /\ At(p, "lockA") /\ appLock[a] = NoProc
    /\ appLock' = [appLock EXCEPT ![a] = p]
    /\ Goto(p, IF fr[p].op = "backup" /\ ~is_loaded(a) THEN "snapshot" ELSE "lockK")
    /\ UNCHANGED <<kelsoLock, fr, st, faults, crashes, resumed>>

\* Mutant: the lock is taken though another process holds it.
LockKelsoUnchecked(p) ==
    /\ At(p, "lockK")
    /\ kelsoLock' = p /\ Goto(p, "enter")
    /\ UNCHANGED <<appLock, fr, st, faults, crashes, resumed>>
LockKelso(p) ==
    /\ At(p, "lockK") /\ kelsoLock = NoProc
    /\ kelsoLock' = p /\ Goto(p, "enter")
    /\ UNCHANGED <<appLock, fr, st, faults, crashes, resumed>>

\* Having let go of the kelso lock while restic read, a backup takes it again to
\* start the app, and an update to load the new version or to start the old one.
LockKelsoAgain(p) ==
    /\ At(p, "relock") /\ kelsoLock = NoProc
    /\ kelsoLock' = p
    /\ Goto(p, IF fr[p].op = "update" /\ ~fr[p].bad THEN "load" ELSE "start")
    /\ UNCHANGED <<appLock, fr, st, faults, crashes, resumed>>

\* Drop the app lock, if held, and give the verb up.
GiveUp(p) ==
    /\ appLock' = [a \in Apps |-> IF appLock[a] = p THEN NoProc ELSE appLock[a]]
    /\ Goto(p, Leave(p))
    /\ fr' = [fr EXCEPT ![p] = Left(p)]
    /\ UNCHANGED <<kelsoLock, crashes, resumed>>

LockTimeout(p) ==
    /\ scene.timeouts
    /\ \/ At(p, "lockA") /\ appLock[fr[p].app] # NoProc
       \/ (At(p, "lockK") \/ At(p, "relock")) /\ kelsoLock # NoProc
    /\ GiveUp(p) /\ NoFault /\ UNCHANGED st

\* A backup is refused when the repository has no room for it.
BackupRefused(p) ==
    /\ At(p, "lockK") /\ fr[p].op = "backup"
    /\ GiveUp(p) /\ Fault /\ UNCHANGED st

\* Mutant: the app lock is dropped too.
UnlockBoth(p) ==
    /\ At(p, "unlockK")
    /\ kelsoLock' = NoProc /\ appLock' = [appLock EXCEPT ![fr[p].app] = NoProc]
    /\ Goto(p, "snapshot")
    /\ UNCHANGED <<fr, st, faults, crashes, resumed>>
UnlockKelso(p) ==
    /\ At(p, "unlockK")
    /\ kelsoLock' = NoProc /\ Goto(p, "snapshot")
    /\ UNCHANGED <<appLock, fr, st, faults, crashes, resumed>>

Unlock(p) == LET a == fr[p].app IN
    /\ At(p, "done") \/ At(p, "fail")
    /\ appLock' = [appLock EXCEPT ![a] = NoProc]
    /\ kelsoLock' = NoProc
    /\ Goto(p, Leave(p))
    /\ fr' = [fr EXCEPT ![p] = Left(p)]
    /\ UNCHANGED <<st, faults, crashes, resumed>>

-----------------------------------------------------------------------------
(* The body of each verb, under both locks. *)

Enter(p, op, l) == At(p, "enter") /\ fr[p].op \in op /\ Goto(p, l) /\ NoFault

EnterSimple(p) ==
    /\ \/ Enter(p, {"start"}, "start")
       \/ Enter(p, {"stop"} \cup Downs, "stop")
       \/ Enter(p, Ups, IF running(fr[p].app) THEN "done" ELSE "start")
       \/ Enter(p, {"restart"}, IF ~is_loaded(fr[p].app) THEN "fail"
                                ELSE IF running(fr[p].app) THEN "stop" ELSE "start")
    /\ KeepFrame /\ UNCHANGED st

\* `kelso config` opens the app's store, to list what it holds or to set the
\* subdomain or a route.
EnterConfig(p) == LET s == Opened(st[fr[p].app]) IN
    /\ Enter(p, {"config"}, "done")
    /\ Becomes(p, s) \/ Becomes(p, [s EXCEPT !.pending = TRUE])
    /\ KeepFrame

\* reload_app checks the version before it stops anything.
EnterReload(p) == LET a == fr[p].app IN
    /\ Enter(p, {"load"}, IF is_loaded(a) /\ st[a].bundle # st[a].source THEN "fail"
                          ELSE IF running(a) THEN "stop" ELSE "load")
    /\ fr' = [fr EXCEPT ![p].was = running(a)]
    /\ KeepLocks /\ UNCHANGED st

\* backup_app and update stop a running app for as long as restic reads it.
EnterBackup(p) == LET a == fr[p].app IN
    /\ Enter(p, {"backup", "update"}, IF running(a) THEN "stop" ELSE "unlockK")
    /\ fr' = [fr EXCEPT ![p].was = running(a)]
    /\ KeepLocks /\ UNCHANGED st

\* Mutants: an update's backup goes by as a manual one; an app is started again
\* only after a backup that worked.
ReasonManual(p) == "manual"
RestartsAfterSuccess(p) == FALSE
\* restic reads under the app lock alone.  A backup that fails still starts the
\* app again if it ran; an update that has its backup goes on to load, unless the
\* check of the repository after it fails.  The backup_app inside an update takes
\* the kelso lock once more to look at the app update has stopped, and may time
\* out there.
restarts(p) == fr[p].was
Reason(p) == IF fr[p].op = "update" THEN "update" ELSE "manual"
Backed(s, reason, sources) == [s EXCEPT !.backups = [@ EXCEPT ![reason] = sources]]
Snapshot(p) == LET a == fr[p].app
                   backed == Backed(st[a], Reason(p), app_sources(a)) IN
    /\ At(p, "snapshot")
    /\ \/ /\ NoFault /\ Becomes(p, backed)
          /\ \/ /\ fr[p].was \/ fr[p].op = "update"
                /\ Goto(p, "relock") /\ KeepFrame
             \/ /\ ~fr[p].was /\ fr[p].op = "backup"
                /\ GiveUp(p)
       \/ /\ \/ Fault /\ UNCHANGED st
             \/ Fault /\ fr[p].op = "update" /\ Becomes(p, backed)
             \/ /\ NoFault /\ scene.timeouts /\ fr[p].op = "update" /\ kelsoLock # NoProc
                /\ UNCHANGED st
          /\ \/ /\ restarts(p) /\ Goto(p, "relock") /\ KeepLocks
                /\ fr' = [fr EXCEPT ![p].bad = TRUE]
             \/ ~restarts(p) /\ GiveUp(p)

UpdateRecorded(p) ==
    /\ At(p, "updated") /\ KeepFrame /\ NoFault
    /\ Becomes(p, Recorded(p, st[fr[p].app], "updated"))
    /\ Goto(p, IF fr[p].was THEN "start" ELSE "done")

\* rm carries out the plan: the one made under the locks by a job, before them
\* by the command line.
EnterRemove(p) == LET a == fr[p].app
                      plan == IF fr[p].op = "rm" THEN removal_plan(a, fr[p].arg)
                                                 ELSE fr[p].plan IN
    /\ \/ fr[p].op = "rm" /\ PlanRefused(a, fr[p].arg) /\ Enter(p, Removes, "fail")
       \/ /\ fr[p].op = "rm" => ~PlanRefused(a, fr[p].arg)
          /\ Enter(p, Removes, IF plan.stop THEN "stop" ELSE "rmRun")
    /\ fr' = [fr EXCEPT ![p].plan = plan]
    /\ KeepLocks /\ UNCHANGED st

\* The routes come down, unless the provider does not answer, then the run
\* directory goes.
RemoveRun(p) == LET s == st[fr[p].app] IN
    /\ At(p, "rmRun") /\ KeepFrame /\ Goto(p, "rmConfig")
    /\ \/ ~unloads(fr[p].arg) /\ NoFault /\ UNCHANGED st
       \/ unloads(fr[p].arg) /\ NoFault /\ Becomes(p, Unloaded(unregistered(s)))
       \/ unloads(fr[p].arg) /\ Fault /\ Becomes(p, Unloaded(s))

Unconfigured(s) == [s EXCEPT !.config = NoFile, !.pending = FALSE]
RemoveConfig(p) == LET s == st[fr[p].app] IN
    /\ At(p, "rmConfig") /\ KeepFrame /\ NoFault
    /\ Becomes(p, IF fr[p].plan.config THEN Unconfigured(s) ELSE s)
    /\ Goto(p, "rmVolumes")

\* The container that deletes the volumes may fail.
Emptied(s, mode) == [s EXCEPT !.data = IF mode = "data" THEN NoData ELSE NoDirs]
RemoveVolumes(p) == LET s == st[fr[p].app] IN
    /\ At(p, "rmVolumes") /\ KeepFrame
    /\ \/ /\ NoFault /\ Goto(p, "rmRecord")
          /\ Becomes(p, IF fr[p].plan.volumes THEN Emptied(s, fr[p].arg) ELSE s)
       \/ Fault /\ Goto(p, "fail") /\ UNCHANGED st

\* Mutant: the mode is recorded, not what was done.
RemoveActionMode(mode) == mode
RemoveAction(mode) ==
    CASE mode = "unload" -> "unloaded"     [] mode = "rm"   -> "removed"
      [] mode = "temp"   -> "cleared-temp" [] mode = "data" -> "cleared-data"
      [] OTHER           -> "purged"
RemoveRecorded(p) ==
    /\ At(p, "rmRecord") /\ KeepFrame /\ NoFault
    /\ Becomes(p, Recorded(p, st[fr[p].app], RemoveAction(fr[p].arg)))
    /\ Goto(p, "done")

\* restore reads the backup into a scratch tree, which may fail, and backs up
\* what is there unless it undoes the last restore.  That backup_app stops and
\* starts a running app like any other.
EnterRestore(p) == LET a == fr[p].app
                       has_state == is_loaded(a) \/ st[a].config # NoFile
                       was == is_loaded(a) /\ running(a) IN
    /\ At(p, "enter") /\ fr[p].op = "restore" /\ KeepLocks /\ UNCHANGED st
    /\ \/ Fault /\ Goto(p, "fail") /\ UNCHANGED fr
       \/ /\ NoFault /\ fr[p].snap.config = NoFile
          /\ Goto(p, "fail") /\ UNCHANGED fr
       \/ /\ NoFault /\ fr[p].snap.config # NoFile
          /\ \/ /\ has_state /\ fr[p].arg # "pre-restore"
                /\ Goto(p, IF was THEN "stop" ELSE "preSnapshot")
                /\ fr' = [fr EXCEPT ![p].was = was]
             \/ /\ ~(has_state /\ fr[p].arg # "pre-restore")
                /\ Goto(p, "replaceData") /\ UNCHANGED fr

PreSnapshot(p) == LET a == fr[p].app IN
    /\ At(p, "preSnapshot") /\ KeepLocks
    /\ \/ /\ NoFault /\ UNCHANGED fr
          /\ Becomes(p, Backed(st[a], "pre-restore", app_sources(a)))
          /\ Goto(p, IF fr[p].was THEN "start" ELSE "replaceData")
       \/ /\ Fault /\ UNCHANGED st
          /\ fr' = [fr EXCEPT ![p].bad = TRUE]
          /\ Goto(p, IF fr[p].was THEN "start" ELSE "fail")

\* The data volumes are replaced in one container, the bulk volumes in another:
\* the first may fail with nothing deleted, the second once data is replaced.
Refilled(s, snap) ==
    [s EXCEPT !.data = IF snap.data = NoDirs THEN s.data ELSE snap.data]
ReplaceData(p) == LET s == st[fr[p].app] IN
    /\ At(p, "replaceData") /\ KeepFrame
    /\ \/ NoFault /\ Becomes(p, Refilled(s, fr[p].snap)) /\ Goto(p, "replaceConfig")
       \/ Fault /\ Becomes(p, Refilled(s, fr[p].snap)) /\ Goto(p, "fail")
       \/ Fault /\ UNCHANGED st /\ Goto(p, "fail")

\* Mutant: the config stays as it is.
ConfigKept(s, snap) == s
\* The config logtab is the backup's.
Reconfigured(s, snap) == [s EXCEPT !.config = snap.config, !.pending = snap.pending]
ReplaceConfig(p) ==
    /\ At(p, "replaceConfig") /\ KeepFrame /\ NoFault
    /\ Becomes(p, Reconfigured(st[fr[p].app], fr[p].snap))
    /\ Goto(p, "replaceRun")

\* rmtree of the run directory; a backup of an app that was not loaded ends here.
ReplaceRun(p) ==
    /\ At(p, "replaceRun") /\ KeepFrame /\ NoFault
    /\ Becomes(p, Unloaded(st[fr[p].app]))
    /\ Goto(p, IF fr[p].snap.bundle = 0 THEN "restored" ELSE "replaceBundle")

ReplaceBundle(p) == LET s == st[fr[p].app] IN
    /\ At(p, "replaceBundle") /\ KeepFrame /\ NoFault
    /\ Becomes(p, [s EXCEPT !.bundle = fr[p].snap.bundle])
    /\ Goto(p, "rebuild")

Rebuild(p) == LET s == st[fr[p].app] IN
    /\ At(p, "rebuild") /\ KeepFrame
    /\ \/ NoFault /\ Goto(p, "restored") /\ Becomes(p, Derived(s))
       \/ Fault /\ Goto(p, "fail") /\ Becomes(p, Recorded(p, s, "restore-failed"))

RestoreRecorded(p) ==
    /\ At(p, "restored") /\ KeepFrame /\ NoFault
    /\ Becomes(p, Recorded(p, st[fr[p].app], "restored"))
    /\ Goto(p, "done")

-----------------------------------------------------------------------------
(* What happens to the system. *)

\* A new version reaches the app's source.
SourceMoves(a) ==
    /\ st[a].source < scene.version
    /\ st' = [st EXCEPT ![a].source = @ + 1]
    /\ UNCHANGED <<appLock, kelsoLock, pc, fr, faults, crashes, resumed>>

\* A process is killed: the operating system lets go of its locks.  A kelsod
\* that comes back resumes.
Crash(p) ==
    /\ pc[p] # "idle" /\ crashes < scene.crashes
    /\ crashes' = crashes + 1
    /\ appLock' = [a \in Apps |-> IF appLock[a] = p THEN NoProc ELSE appLock[a]]
    /\ kelsoLock' = IF kelsoLock = p THEN NoProc ELSE kelsoLock
    /\ Goto(p, "idle") /\ fr' = [fr EXCEPT ![p] = NoFrame]
    /\ resumed' = FALSE
    /\ UNCHANGED <<st, faults>>

\* The machine goes down with everything on it.  Containers restart on failure
\* but not at boot.
Reboot ==
    /\ crashes < scene.crashes /\ crashes' = crashes + 1
    /\ appLock' = [a \in Apps |-> NoProc] /\ kelsoLock' = NoProc
    /\ pc' = [p \in Procs |-> "idle"] /\ fr' = [p \in Procs |-> NoFrame]
    /\ st' = [a \in Apps |-> IF running(a) THEN [st[a] EXCEPT !.cont = "exited"]
                                           ELSE st[a]]
    /\ resumed' = FALSE
    /\ UNCHANGED faults

Body(p) ==
    \/ EnterSimple(p) \/ EnterConfig(p) \/ EnterReload(p) \/ EnterBackup(p)
    \/ Snapshot(p) \/ UpdateRecorded(p)
    \/ EnterRemove(p) \/ RemoveRun(p) \/ RemoveConfig(p) \/ RemoveVolumes(p)
    \/ RemoveRecorded(p)
    \/ EnterRestore(p) \/ PreSnapshot(p) \/ ReplaceData(p) \/ ReplaceConfig(p)
    \/ ReplaceRun(p) \/ ReplaceBundle(p) \/ Rebuild(p) \/ RestoreRecorded(p)
Routines(p) ==
    \/ Stop(p) \/ StopRecorded(p)
    \/ Load(p) \/ CommitOut(p) \/ CommitIn(p) \/ TakeDown(p) \/ GenerateConfig(p)
    \/ Materialize(p) \/ LoadRecorded(p)
    \/ Start(p) \/ Blockers(p) \/ ComposeUp(p) \/ Register(p) \/ StartRecorded(p)
Locking(p) ==
    \/ SweepGroup(p) \/ SweepApp(p)
    \/ LockApp(p) \/ LockKelso(p) \/ LockKelsoAgain(p) \/ LockTimeout(p)
    \/ BackupRefused(p) \/ UnlockKelso(p) \/ Unlock(p)
Asking(p) ==
    \/ \E op \in OneApp, a \in scene.apps : AskApp(p, op, a)
    \/ \E op \in Removes, a \in scene.apps, mode \in Modes : AskRemove(p, op, a, mode)
    \/ \E a \in scene.apps, reason \in Reasons : AskRestore(p, a, reason)
    \/ \E op \in Sweeps : AskSweep(p, op)
Step(p) == (Body(p) \/ Routines(p) \/ Locking(p)) /\ UNCHANGED scene

Next ==
    \/ \E p \in Procs : Step(p)
    \/ \E p \in Procs : (Asking(p) \/ Crash(p)) /\ UNCHANGED scene
    \/ \E a \in scene.apps : SourceMoves(a) /\ UNCHANGED scene
    \/ Reboot /\ UNCHANGED scene

Spec == Init /\ [][Next]_vars

\* A process that runs takes its next step; a wait for a lock ends, one way or
\* the other.  Nobody has to ask for a verb.
FairSpec == Spec /\ \A p \in Procs : WF_vars(Step(p))

-----------------------------------------------------------------------------
(* What the proofs of some properties take of the scenes.  MCLifecycle names   *)
(* scenes in which the properties fail without it.                             *)

\* The verbs that go by what they read before the locks, and the verbs that may
\* start an app.
Planned  == {"rmCli", "restore"}
Starters == {"start", "restart", "load", "backup", "update"} \cup Ups

\* While a process may be asked for a verb that is planned before the locks, no
\* other may be asked for one that starts an app.
PlansApart ==
    \A s \in Scenes, p \in Procs, q \in Procs :
        p # q /\ s.does[p] \cap Planned # {} => s.does[q] \cap Starters = {}

\* Nobody is asked for a restore, or for `kelso config`.
NoRestores == \A s \in Scenes, p \in Procs : "restore" \notin s.does[p]
NoConfigs  == \A s \in Scenes, p \in Procs : "config" \notin s.does[p]

-----------------------------------------------------------------------------
(* Properties. *)

BothHeld == {"enter", "stop", "stopped", "load", "commitOut", "commitOver",
             "commitNew", "takeDown", "generate", "materialize", "loaded", "start",
             "blockers", "composeUp", "register", "started", "updated", "rmRun",
             "rmConfig", "rmVolumes", "rmRecord", "preSnapshot", "replaceData",
             "replaceConfig", "replaceRun", "replaceBundle", "rebuild", "restored",
             "unlockK", "done", "fail"}
AppHeld  == BothHeld \cup {"lockK", "snapshot", "relock"}
Labels   == AppHeld \cup {"idle", "lockA", "nextGroup", "nextApp"}

SnapSet  == [bundle : Nat, config : Int, pending : BOOLEAN, data : Int,
             taken : BOOLEAN]
FrameSet == [op : Verbs \cup {"none"}, app : Apps \cup {NoApp},
             arg : Modes \cup Reasons \cup {"-"}, was : BOOLEAN, bad : BOOLEAN,
             plan : [stop : BOOLEAN, config : BOOLEAN, volumes : BOOLEAN],
             snap : SnapSet, todo : SUBSET Apps, batch : SUBSET Apps]
Actions  == {"none", "started", "start-failed", "stopped", "stop-failed", "down",
             "loaded", "load-failed", "updated", "restored", "restore-failed",
             "unloaded", "removed", "cleared-temp", "cleared-data", "purged"}
StateSet == [source : Nat, bundle : Nat, compose : BOOLEAN, config : Int,
             pending : BOOLEAN, data : Int,
             cont : {"none", "exited", "running"}, published : BOOLEAN,
             last : Actions, backups : [Reasons -> SnapSet], gen : Nat,
             wish : {"none", "run", "stop"}]

\* Every variable has its type.
TypeOK ==
    /\ scene \in Scenes
    /\ appLock \in [Apps -> Procs \cup {NoProc}]
    /\ kelsoLock \in Procs \cup {NoProc}
    /\ pc \in [Procs -> Labels]
    /\ fr \in [Procs -> FrameSet]
    /\ st \in [Apps -> StateSet]
    /\ faults \in Nat /\ crashes \in Nat
    /\ resumed \in BOOLEAN

\* Two processes are never inside one app, nor two inside any app's critical
\* part: whoever is past a lock is the one that holds it, and a lock is held by
\* nobody else.
MutualExclusion ==
    /\ \A p \in Procs, a \in Apps :
          appLock[a] = p <=> pc[p] \in AppHeld /\ fr[p].app = a
    /\ \A p \in Procs : kelsoLock = p <=> pc[p] \in BothHeld

\* restic never reads the data of a loaded app while its containers run, though
\* it reads under the app lock alone.
SnapshotQuiescent ==
    \A p \in Procs : pc[p] \in {"snapshot", "preSnapshot"} =>
        ~(is_loaded(fr[p].app) /\ running(fr[p].app))

\* Containers that run always have the loaded copy and the compose.yml that can
\* stop them.
NoOrphans == \A a \in Apps : running(a) => is_loaded(a) /\ st[a].compose

\* Volumes are replaced, emptied or deleted only while no container runs.
Clobbers(p) == \/ pc[p] = "replaceData"
               \/ pc[p] = "rmVolumes" /\ fr[p].arg # "unload"
NoClobber == \A p \in Procs : Clobbers(p) => ~running(fr[p].app)

\* Containers start only with the secrets the app's data was made with.
RightSecrets ==
    [][\A a \in Apps : running(a)' /\ ~running(a) => st'[a].data = st'[a].config]_vars

\* Secrets are generated only for an app without data, whose data they could not
\* be the secrets of.
FreshSecrets == [][\A a \in Apps : st'[a].gen # st[a].gen => ~HasData(a)]_vars

\* From the moment an update touches the loaded copy until its app starts, the
\* backup it can be undone with is the newest update backup, and holds the data.
UpdateUndoable ==
    \A p \in Procs :
        fr[p].op = "update" /\ pc[p] \in {"commitOut", "commitOver", "takeDown",
                                          "generate", "materialize", "loaded", "updated"}
        => LET a == fr[p].app IN
           /\ st[a].backups["update"].taken
           /\ HasData(a) => st[a].backups["update"].data = st[a].data

AllIdle == \A p \in Procs : pc[p] = "idle"

\* While nothing is under way and no verb was cut short, an app that runs has its
\* routes published, and no routes are published of one that is not loaded: `stop`
\* leaves them standing, and whatever takes a loaded copy away takes them down.
RoutesStand ==
    AllIdle /\ faults = 0 /\ crashes = 0 => \A a \in Apps :
        /\ running(a) => st[a].published
        /\ st[a].published => is_loaded(a)

\* Once kelsod has resumed after a crash and nothing is under way, every app of
\* groups 1 to 9 the operator last had running runs again.
ResumeRestores ==
    resumed /\ AllIdle /\ faults = 0 =>
        \A a \in Apps : st[a].wish = "run" /\ Group[a] # 0 => running(a)

\* `up` starts no app that was stopped on purpose.
UpSparesStopped ==
    \A p \in Procs : pc[p] \in {"composeUp"} /\ fr[p].op \in Ups =>
        st[fr[p].app].wish # "stop"

\* A backup that stopped its app has it running again when it ends, though
\* restic failed, unless docker or a provider failed too.
BackupRestarts ==
    [][\A p \in Procs :
          /\ fr[p].op = "backup" /\ fr[p].was /\ pc[p] # "idle" /\ pc'[p] = "idle"
          /\ crashes' = crashes /\ (fr[p].bad \/ faults = 0)
          => running(fr[p].app)]_vars

\* Every verb comes to an end, whatever the others do: each wait for a lock ends
\* with the lock or a timeout, and a sweep runs out of groups.
VerbsEnd == \A p \in Procs : pc[p] # "idle" ~> pc[p] = "idle"
=============================================================================
