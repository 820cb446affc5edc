---------------------------- MODULE MCLifecycle ----------------------------
(***************************************************************************)
(* Instances of Lifecycle.  kelsod stands for the daemon's job thread,     *)
(* shell for a `kelso` command.  All verbs at once are out of reach (over  *)
(* seven million states for one app), so each scene takes the verbs whose  *)
(* interleaving its properties are about.                                  *)
(***************************************************************************)
EXTENDS Lifecycle, TLC

CONSTANTS kelsod, shell, a1, a2

\* a1 in the last group, a2 in kelsod's own.
StartOrder == [a \in Apps |-> IF a = a1 THEN 9 ELSE 0]

Scene(apps, ofKelsod, ofShell) ==
    [apps |-> apps, does |-> (kelsod :> ofKelsod) @@ (shell :> ofShell),
     timeouts |-> FALSE, gen |-> 1, version |-> 1, faults |-> 0, crashes |-> 0]

\* Two processes on one app:
Pairs == {
    \* backups and removals by jobs against a shell that starts and stops;
    [Scene({a1}, {"backup", "rm", "config"}, {"start", "stop"})
        EXCEPT !.gen = 2, !.timeouts = TRUE],
    \* whatever touches routes;
    [Scene({a1}, {"rm", "config", "restart"}, {"start", "load"})
        EXCEPT !.gen = 2, !.timeouts = TRUE],
    \* updates, with the source moving on, against starts and loads;
    [Scene({a1}, {"backup", "update"}, {"start", "load"})
        EXCEPT !.gen = 2, !.version = 2, !.faults = 1, !.timeouts = TRUE],
    \* removals cut short at any step.
    [Scene({a1}, {"rm"}, {"start", "load"})
        EXCEPT !.gen = 2, !.faults = 1, !.crashes = 1] }

\* One process after any history of the app, or two on two apps:
Fleet == {
    \* restores, with removals planned by a job or at the shell;
    [Scene({a1}, {"start", "backup", "restore", "rm"}, {}) EXCEPT !.gen = 2],
    [Scene({a1}, {"start", "backup", "restore", "rmCli"}, {}) EXCEPT !.faults = 1],
    \* kelsod comes back after a crash and resumes;
    [Scene({a1}, {"resume", "up", "down", "stop"}, {"start"}) EXCEPT !.crashes = 1],
    \* backups of one app while the other keeps the kelso lock busy;
    [Scene({a1, a2}, {"backup", "start"}, {"start", "stop"}) EXCEPT !.faults = 1],
    \* sweeps of both kinds of group.
    Scene({a1, a2}, {"up", "down", "up0", "down0", "start", "stop"}, {"backup", "start"}) }

\* Everything that waits for a lock.
Waits == {[Scene({a1, a2}, {"backup", "update"}, {"start", "up"}) EXCEPT !.timeouts = TRUE]}

\* What the proofs take of the scenes is so of these.
ASSUME ScenesAssumption ==
    /\ Scenes \in {Pairs, Fleet, Waits} => PlansApart
    /\ Scenes = Pairs => NoRestores

\* Disagreements between the code and what it says of itself.
RestoreRace == {Scene({a1}, {"start", "stop", "backup", "restore"}, {"start"})}
BackupCrash == {[Scene({a1}, {"resume", "backup"}, {"start"}) EXCEPT !.crashes = 1]}
\* The others the README names, to be given to Scenes in place of these.
ConfigPurge == {[Scene({a1}, {"start", "stop", "rm", "config", "load"}, {})
                    EXCEPT !.gen = 2, !.faults = 1]}
ConfigCrash == {[Scene({a1}, {"start", "config", "load"}, {})
                    EXCEPT !.gen = 2, !.crashes = 1]}
RemoveRace == {Scene({a1}, {"start"}, {"rmCli", "load"})}
ClearTemp  == {Scene({a1}, {"start", "stop", "rm", "up"}, {})}
UpRace     == {Scene({a1}, {"up"}, {"start", "stop"})}
Relock     == {[Scene({a1, a2}, {"backup", "start"}, {"start", "stop"})
                   EXCEPT !.timeouts = TRUE]}
=============================================================================
