# A TLA+ model of kelso

kelso runs self-hosted apps on one machine. An app is a bundle (a manifest, files,
scripts); kelso loads a copy of it under `var/run/<app>`, generates its secrets
and its `compose.yml`, starts it with docker, publishes its routes at a provider,
and backs its volumes up with restic. There is a command, `kelso`, and a daemon,
`kelsod`, which serves an HTTP API, runs jobs one after another, and backs up on
a schedule. Both do the same work through the same library, in different
processes, and meet only in the file system, in docker, at the route providers,
and in two kinds of file lock.

This directory models the parts of kelso where that matters, checks them with
TLC on small instances, and proves some of it with TLAPS for all of them.
`PROJECT.json` says which definition models which lines.

## The system

| Part | State | Operations | What makes it correct |
|---|---|---|---|
| Lifecycle verbs (`kelso/lib/lifecycle`) | per app: loaded copy, compose.yml, config logtab, volumes, containers, routes, last action, backups | start, stop, restart, load, update, unload, rm, restore, up, down, config | no two verbs in one app; secrets and data belong together; an update can be undone; what was stopped stays stopped, what ran runs again |
| Locks (`kelso/lib/kelso.py`) | one file lock per app, one kelso-wide | acquire with a timeout of 5 s, app before kelso; reentrant in a process; released by the OS when it dies | exclusion; every wait ends |
| Backups (`kelso/lib/backup.py`) | a restic repository, the record of the last runs | back up an app or everything, forget what expired | data is read while the app is down; the app comes back |
| Job runner (`kelso/jobs/runner.py`) | history of jobs, queue, worker, scheduler | submit, run, trim, schedule | no job lost or run twice; one at a time; a due backup runs |
| LogTab (`kelso/lib/logtab.py`) | a file of records | write, delete, clear, load, compact | a key table; nothing written is lost |
| Stores, ports (`store.py`) | routes and host ports, tokens, secrets | allocate, set, purge | no port given out twice |
| Routes (`lifecycle/routes.py`, `routes/`) | what stands at each provider | register, unregister, owners | only its owner's routes are touched |
| Rekey (`rekey.py`) | seeds in the master keyfile, encrypted values | rekey, re-encrypt a restored store | every secret on file can be read |
| Cron (`lifecycle/cron.py`, `cronexpr.py`) | when each job last ran | tick, next time | once per time, never two ticks at once |
| Console (`daemon/console.py`) | a PTY, three tasks | relay, idle, hang up | no shell is left behind |
| Mirror, catalog (`repo.py`, `bundle.py`, `lifecycle/edit.py`) | copies and their commits, bundles, an app's recorded source | add, update, remove, resolve, edit | the record is the copy's commit; an app keeps to its source; a commit is one edit |
| Activity (`activity.py`) | the logs of runs and their index | begin, tee, finish, prune | a kept log is whole; the newest are kept |
| Manifests, layout (`manifest.py`, `spec.py`, `run_layout.py`) | the loaded bundle, volume links, compose.yml | validate, derive, start | docker is handed what bundle, config and machine make |
| Configuration (`config_edit.py`, `configflow/`) | config.toml, an app's options | edit | no edit undoes another |
| kproxy (Go) | rules file, snapshot, pending hosts, connections | change rules, hold, proxy, count | file and engine agree; who is held is woken; connections end |
| Views, doctor, CLI output, bundled apps | none of their own | parse, render | not a matter for a model checker |

What is hard: verbs of two processes on one app, with a lock that a backup gives
up half way; plans made before a lock is taken; a process killed, or the machine
rebooted, between any two steps of a verb; docker, restic or a provider failing at
any step; one record, the last action, that stands both for what happened and for
what the operator wants; a job in the history but not yet on the queue; a log file
that is rewritten while others append to it; a process that decides by a
configuration, a catalog, a listing or a key it read before somebody changed it; a
derived file that outlives what it was derived from; a connection that waits on rules
replaced while it looks. The hazards in `PROJECT.json` list them with their lines.

## Modules

| Module | Models |
|---|---|
| `Lifecycle` | the verbs, the locks and what they do to apps |
| `LifecycleProofs` | theorems about `Lifecycle`: types, locks, quiescence |
| `LifecycleSafety`, `LifecycleSecrets` | more of them: what the verbs never do to an app; data and secrets |
| `MCLifecycle` | the scenes: who is asked for which verbs, for TLC |
| `JobRunner` | kelsod's jobs: HTTP threads, scheduler, worker |
| `JobRunnerProofs` | theorems about `JobRunner` |
| `KeyTable` | what a logtab promises: a table of keys |
| `LogTab` | the file that keeps the promise, and its compaction |
| `Routes` | subdomains, host ports, route records and the route providers |
| `MCRoutes` | the scenes of `Routes` |
| `Layout` | from a manifest to compose.yml: validation, deriving, starting |
| `Bundles` | the bundles `Layout` is given |
| `Sources` | repositories, resolving an argument to a bundle, an app's recorded source |
| `MCApp` | `Routes`, `Layout` and `Sources` for TLC |
| `Kproxy`, `MCKproxy` | kproxy, and its hosts and rules for TLC |
| `Vault` | the phrase, what is encrypted under it, rekey and recovery |
| `Cron` | schedules and ticks |
| `Retention` | the keep policy and forgetting |
| `Console` | a console session in the browser |
| `Repos` | edits of config.toml, mirrored repositories |
| `Edits` | edits of a manifest and their commits |
| `Activity` | the logs of runs |
| `MCHost` | `LogTab` and the seven parts from `Vault` on for TLC |
| `AppProofs` | theorems about `Routes`, `Sources` and `Layout` |
| `KproxyProofs` | theorems about `Kproxy` |
| `CronProofs` | theorems about `Cron` |
| `HostProofs` | theorems about `Vault`, `Console`, `Edits`, `Repos`, `Activity`, `LogTab` and `Retention` |

Each model stands alone and the parts touch where this list says:

- the worker of `JobRunner` is one of the processes of `Lifecycle`, and what it does
  between taking a job and finishing it is `Lifecycle`'s matter;
- `last` in `Lifecycle` is a key of a log `LogTab` models; `LogTab` is checked against
  `KeyTable`, so that the others take a record as one step;
- the field in which `Lifecycle` keeps whether an app's routes are published is what
  `Routes` takes apart, and its `Derived` is what `Layout` does. Both take one verb at
  a time, because `Lifecycle`'s `MutualExclusion` is proved;
- a backup of `Lifecycle` is a set of snapshots in `Retention`, and a ciphertext in
  `Vault`;
- a bundle's place in `Sources` is a repository of `Repos`; which bundle is loaded is
  an input of `Layout`.

`MCHost` and `MCApp` put several parts in one run. A constant part of the state says
which one moves, so that the number of states is the sum of theirs and each property is
that of its own module.

### Lifecycle

`st[a]` is all that outlives a process: what disk, docker and the providers hold of
app `a`. The comment on `Fresh` says what each field stands for. Contents are
abstracted to what the properties tell apart:

- a bundle is its version, `source` being where the catalog's is;
- a config logtab is the generation of the secrets in it (`NoFile` when it is not
  there, `Empty` when it holds none), and whether subdomain or routes changed since
  the last load or start (`pending`, from `changes_since_start`);
- the data in the volumes is the generation of the secrets it was made with;
- a backup is all of these as restic read them; the newest of each reason is kept.
  A scheduled backup is taken as a manual one.

`wish` is a history variable: what the operator last asked for, which no code
reads. It is what `up` and resume are judged by.

A process is a program counter `pc[p]` and a frame `fr[p]` that holds what the verb
remembers: its app, whether the app ran (`was`), whether something failed that is
raised at the end (`bad`), the removal plan, the backup to be restored. The steps
are the renames, docker commands, records and deletions of the code, in its order.
`stop`, `load` and `start` are shared by the verbs that call them; `AfterStop`,
`AfterLoad` and `AfterStart` say where each goes on. Every call that may fail has a
disjunct with `Fault`, which leaves what a failure of that call leaves. `Crash`
kills one process at any step, `Reboot` all of them and the containers.

What a verb makes of an app's state is an operator on that state (`Opened`,
`Derived`, `Unloaded`, `Up`, `Recorded` ...), and `Becomes` puts the result in the
place of the app the process works on. That a process changes no app but its own is
what the proofs rest on.

A behaviour has a `scene`: the apps, the verbs each process may be asked for,
whether waits time out, and the bounds. `Scenes` is a constant and the initial state
chooses one, so that a run checks several scenes at once and the theorems hold of
any.

Read before the locks, as in the code: the removal plan of the command line
(`AskRemove` with `rmCli`; a job plans under the locks), the restore plan
(`AskRestore`), the list of a sweep (`AskSweep`), an app's last action (`SweepApp`).

### JobRunner

A submission is two steps: under the lock the job enters the history and the
history is trimmed (`Register`), then its id is put on the queue (`Put`). The
scheduler takes three: it finds that it wants to submit, looks whether the verb is
busy, and submits. The worker takes an id, looks the job up, makes a context, runs
it. Ids grow, so that their order is the order of the history. `due` is whether
the backup schedule's time has passed since the last recorded run. A submission
whose arguments are refused changes nothing and is not modelled.

### LogTab

A write opens the file by name, appends to what it opened, looks at the size, and
may compact: read, write the second file, rename. `inode` tells the file from the
one that replaced it, so that a record appended to a file that has been renamed
away is lost. Sizes count records, not bytes. `log` is a history variable: every
record appended. A record is written in one piece, which the code logs an error
for when it does not happen. The instance has one writer: the metrics log is
kelsod's alone, and stores are written under a lock. With two, as the activity log has,
a record is lost.

### Routes

An app's routes exist four times: as the operator asked for them (`conf`, an app's
logtab: subdomain, providers of each route, and whether these changed since the last
load or start), as the last load derived them (`db`, kelsodb's records), as
`compose.yml` publishes their ports (`compose`, and `up` for the containers made from
it), and as they stand at the providers (`at`: for each name a port and an owner).

The verbs that touch them hold the kelso lock throughout, so `job` is the one verb
under way, with the routes it still has to go through. It takes one step for each
record written and each route published or taken down; `Crash` may end it at any of
them, and a call with a `Fault` leaves what a failure half way leaves, which differs
between the providers: Cloudflare has a rule and a DNS record of which only the
second names an owner, Pangolin a resource and its target. People at a dashboard,
`kelso route add` and `remove`, and the API's delete (`Hands`) come between verbs.

A subdomain is the sequence of its dashed parts, so that one app's second route can
have the name of another app. A manifest is its routes, which may pin a port; one that asks
for a port gets the lowest that is free. A route is published at a list of providers, or
at none, so that a walk through an app's routes (`TakeDown`, `Register`, `Pass`) has a
place in the routes and one in that list. `torn`
and `missed` are history variables: apps whose derivation was cut short, and what
kelso logged that it could not unpublish. A reload of a running app is a stop, a load
and a start in a row. Apps in docker's host network have no routes here.

### Layout

One app. A bundle is its manifest: units with volumes, environment, routes and
connections; options; commands, cron jobs and the files beside it. `parse_manifest` has
the cross checks of `manifest.py`, `issues` what `load_run_data` finds missing, and
`make_compose_dict` what docker is handed: per unit its mounts and its environment with
each reference resolved or left. A reference is the sequence of its dotted parts.
`materialize` is the list of what it leaves after each of its steps, so that a load or a
start may end after any of them. The machine's sockets, disks and shares come and go
(`Machine`), and the operator edits options, binds and route assignments (`Configure`,
`assign_route`). `Bundles` has one bundle with something of everything, the same bundle
edited in two ways, and ones that do not parse.

### Sources

Two repositories that come, go, and carry or drop an app; a bundle at a path. A verb
resolves its argument (`load_target`, `update_source`) with no lock, then acts in one
step, which a crash may cut short after each thing it records. `held` has of an app where
its copy, its secrets and its data came from, which the code does not know, beside
`origin` and `bound`, which it does, and where its volume links lead: `kelso dev` points
them at the bundle's folder while the app runs in the foreground.

### Kproxy

A connection is a goroutine: from the DNS answer through the listener's backlog, a slot,
its head, `Check`, and the pipe. The snapshot is `rules` with `epoch`, and a connection's
`seen` is the epoch it loaded, so that "its channel is closed" is `seen < epoch`. A change
of rules is two steps, the file and the snapshot, under the mutex that `markPending`
takes too. A name is the sequence of its labels; public suffixes are two sets. The rules
file is a sequence of lines, and is parsed and formatted. `missed` marks a connection
whose host may be off the list for a reason `HeldListed` excepts. A write blocks while its
peer does not read (`Stall`, `Resume`), in the replay of the head too, which is taken as
the first write of its direction; a copy that is blocked meets neither the end of its
source nor its read deadline. A listener whose `Accept` fails is gone (`deaf`) until the
process starts anew.

### Vault

A ciphertext is the seed it was made under. A process has the key of the moment it read
the configuration. A rekey is its steps: the repository's password and the seed, under
kelso's lock, then the configuration read again and store after store, each under its app's
lock. Its old key is that of the configuration it was started with, so `rk` has a rekey per
phrase, and several may overlap: one that began before another ended does not read what the
other has moved, and reports it (`Reported`). A restored store is read with the key of its backup's time. `run_purge` takes every app
with its store. `init_with_phrase` is another
machine with the last phrase; `restore_everything` brings kelso's state back there, then
each app from its newest backup, some of which may fail. `stale`, `died` and
`fresh` are history variables.

### Cron

Time is in minutes of a small calendar: hours of two minutes, days of two hours, months
of three days, weeks of two. `next_after` is the search of `cronexpr.py`, with its skips;
`Scheduled` is the definition it is held against. Two processes tick; a job takes its app's
lock and then kelso's, and fails when it does not get either, kelso's at any time, since any
verb of any app may have it; an app is loaded,
started, stopped and locked beside them; the local clock is set back an hour once.

### Retention

Backups of one app, by two processes, with every reason. Each run takes snapshots, lists,
and forgets what its listing has as expired; restic's lock may be left by a process that
was killed, and is unlocked when it is stale. `hist` has every snapshot ever taken, and
`Wanted` is the comment on the policy, written out.

### Console

Browser, bridge, websocket, relay tasks, docker client, shell. Each may end first. The
shell announces its pid with a marker on the terminal, which is read or not. kelsod may
cancel the session at any step; the call that kills the shell may fail.

### Repos, Edits

`Repos`: a command reads config.toml (`hand.seen`), waits for the kelso lock, and edits
the document it reads under it. A repository's copy is fetched, checked out, measured and
recorded, with a failure or a crash at each. A provider's domain and the address that
providers point at are two edits under one hold of the lock, made of what was read before
it; a document whose providers have no address is refused. `meant` is what config.toml
should say.
`Edits`: a draft with the hash of what was opened; the owner of the repository commits,
stages, merges and saves meanwhile.

### Activity

A file's name is a second and a counter, and it holds the parts of runs: header, output,
trailer. Runs of two processes begin, end, and prune; one may die. `list_runs` is the
index with whether each file is still there, `read_run_log` the text of one that is.

## What is checked

All verbs at once are over seven million states for one app, so `MCLifecycle` has
scenes, each with the verbs whose interleaving its properties are about. One app is
enough for properties of one app, because apps share only the kelso lock; the
scenes about sweeps and about waiting for the kelso lock have two. Two processes are
enough for the races, each of which is one process between two steps of another, and
`MutualExclusion` and `SnapshotQuiescent` are proved for any number. `gen` 2 lets
secrets be generated, purged and generated again; `version` 2 lets a source move on
once; one fault and one crash per behaviour reach every step, since each is possible
at every step.

| Run | What it checks |
|---|---|
| `lifecycle_pairs` | kelsod and a shell on one app, in four scenes. `SnapshotQuiescent`: no containers of a loaded app run while restic reads. `FreshSecrets`: secrets are generated only for an app without data. `RoutesStand`: between verbs, a running app has its routes, an unloaded one none. `UpdateUndoable`: from the first rename on, the update's backup holds the data. `NoOrphans`: containers that run can be stopped. |
| `lifecycle_fleet` | five scenes of one process after any history, or two on two apps. `RightSecrets`: containers start only with the secrets their data was made with, after restores too; `NoClobber`: volumes go only under an app that is down; `ResumeRestores`: once kelsod has resumed after a crash, what was wanted runs; `BackupRestarts`: a backup that stopped its app starts it again though restic fails; `UpSparesStopped`: `up` starts nothing stopped on purpose. |
| `lifecycle_live` | two processes on two apps with timeouts. `MutualExclusion`: who is past a lock holds it, alone. `VerbsEnd`: every verb ends. |
| `jobs` | an HTTP thread, the scheduler and the worker, one failure. `NoLostJob`, `OneScheduled`, `ThreadOrder`, and, with fairness, `JobsFinish` and `DueBackupRuns`. Six jobs and a history of two, so that trimming happens with jobs queued, running and finished; `Reserve` ids are kept for due backups, so that liveness does not end with the ids. |
| `app_sound` | `Routes` in six scenes: two apps that may want one name and take over each other's ports at NPM and at Cloudflare, with one failure, one crash and a change of config; a second route whose name is the other app's, with a person at the dashboard, at Pangolin; bundles that come with other routes, with pinned ports, or none, and apps that no repository carries any more; the noop provider; and restores. There are three host ports, so that they run out. `PortsApart`: no port is on record twice, unless pinned. `LiveTracked`: what stands at a provider for an app is on record, at every step of a verb. `RoutesReach`: a running app's routes lead to its own containers. `OwnersKept`: nobody else's route is changed. `Layout`: three verbs and two changes of the machine. `StartsWhole`: what a start hands docker is what the loaded manifest, the config and the machine now make, whatever was edited, came or went. `Sources`: three verbs of two processes and two changes of the repositories. `SourceKept`: no app runs with secrets or data of another source's bundle. |
| `kproxy_held` | two connections, two changes of rules, one fault. `FileAgrees`: the rules file, parsed, is what the engine decides by. `NoLostWakeup`: whoever waits though the rules decide its host has a closed channel. `HeldListed`: who is held can be seen and decided. `EveryConnEnds`: a connection ends and frees its slot, unless a peer stops reading for good. |
| `host_parts` | the parts of `MCHost`. `IsKeyTable` (refinement of `KeyTable`) and `KeepsHistory`, with a crash; `NoSecretLost`: nothing is under a key not on file; `SecretsCurrent`: after rekeys that may overlap everything they could read is under the last key; `OncePerTime` and `NoneLeftDue`: a cron job runs once for each time, and does unless a lock was not to be had; `ThinsAsIfAll`: forgetting from old listings keeps what the policy wants of all backups; `NoShellLeft`: no session leaves a shell; `ConfigKeeps`: config.toml is what the edits that succeeded make it; `RecordTrue`: the recorded commit is the copy's; `CleanCommits`: a commit is the diff its editor saw; `LogsKept`: a log is whole, or old enough to be gone. |

Five runs show the code doing something else than a comment or docstring of it
says; `findings` has the quotations:

| Run | What happens |
|---|---|
| `lifecycle_restore_race` | an app started after the restore was planned has its volumes replaced under it |
| `lifecycle_backup_crash` | kelsod dies during a backup; resume leaves the app stopped |
| `jobs_strand` | a job whose context cannot be made stays queued, and no scheduled backup runs again |
| `routes_restored` | a restore under another subdomain leaves the old route published, and on record nowhere |
| `vault_rekey` | a rekey dies with the repository's password changed and the new seed not written: no phrase on file opens the backups |

Eight more disagreements are found with other constants. The first six are sets in
`MCLifecycle` for `Scenes`, the last one is a set in `MCRoutes`:

- `Relock`, `BackupRestarts`: the backup's wait for the kelso lock to start its app
  again (`backup.py:348`) times out, and the app stays down, though its docstring
  says a running app is started again even when the backup fails.
- `RemoveRace`, `NoOrphans`: an app started between the planning of its removal at
  the shell (`cli/remove.py:68`) and the locks runs on without compose.yml.
- `ClearTemp`, `UpSparesStopped`: clearing the temp volumes of a stopped app records
  another last action over `stopped` (`rm.py:136`), and the next `up` starts it.
- `UpRace`, `UpSparesStopped`: `_up` reads the last action before it locks
  (`updown.py:86`); an app stopped meanwhile is started again.
- `ConfigPurge`, `FreshSecrets`: a purge cut short between config and volumes, then
  `kelso config`, which creates an empty logtab, then a load: fresh secrets for old
  data, which `load.py:513` means to refuse.
- `ConfigCrash`, `RightSecrets`: a load that dies between its copy and its secrets, then
  `kelso config`, which marks a change, then a start: it derives `compose.yml` again
  (`lifecycle/run.py:67`) without generating what is missing, and containers come up without the
  secrets.
- `LogTab` with two writers, `KeepsHistory`: every process writes the activity log
  and compacts it without a lock (`kelso.py:132`), so a record appended between the
  reading and the rename is lost.
- `Blocked`, `StartApplies`: a load that meets a blocker (`load.py:229`) has derived
  new ports and not written `compose.yml`; the next start finds nothing changed, brings
  the containers up on the old port and publishes the new one, though its docstring says
  that "a start applies everything".

Others were met in the parts of `MCApp`, `MCKproxy` and `MCHost`. The properties except
them, and say so:

- `Layout`: `kelso config --route main=<tag>` (`load.py:407`) rewrites compose.yml from
  `load_run_data` and passes its issues over. With a connection's socket missing, the
  mount goes and `${conn...}` stays in the environment, though the comment at
  `run_layout.py:569` says that "the only way one survives unsubstituted is a route that
  was never allocated". When the assignment is the one that stood already, nothing is
  recorded as changed, and the next start hands docker that file. The file is opened for
  writing before the dict is made, so an error in between leaves it empty. A load that
  meets a blocker after it committed its bundle leaves the old compose.yml.
- `Sources`: two verbs that resolve before either records its source both pass; a job
  resolved while no repository carried its app looks the bundle up later, unchecked; a
  load killed between `origin` and the binding, followed by an update, never records one.
  A repository added again under its old name counts as the same source.
- `Kproxy`: a connection lists its host once, so after two quick changes it may be held
  unlisted; a change between `Check`'s load and `markPending` leaves a decided host listed.
  `halfCloseTimeout` is there "so a peer that never closes can't hold the connection forever"
  (`proxy.go:218`), and its deadline is for reading only (`proxy.go:241`): a peer that closes
  its half and reads no more holds the connection, its slot and both goroutines, because the
  write to it has no deadline. `EveryConnEnds` names this as its one exception, and without
  it TLC finds it at once.
- `Vault`: a rekey tries the one key it began with (`rekey.py:54`) and goes through the apps
  without kelso's lock. Of two that overlap the later one leaves under the earlier one's seed
  what that has moved already, and reports it as unreadable; what is on file still opens it, but
  no later rekey moves it. `kelso` says then that the values could not be read with any key on
  file, though only one was tried. A machine made from the phrase has the last seed only, so older backups come
  back with secrets nobody can read.
- `Cron`: after the clock was set back, a job that ran in the hour's second passing is due
  at every tick of it. A locked app's job stays due. The records of an unloaded app stay.
- `Retention`: a backup deleted by hand between a listing and its forgetting; two runs of
  one second are one backup.
- `Console`: a session abandoned before the marker was read, or whose kill fails, leaves its
  shell.
- `Repos`: `update` and `remove` resolve the name before the lock; an `add` whose mirroring
  fails leaves the repository configured without a copy; a folder that is missing leaves
  the checkout moved on.
- `Edits`: what the owner saves between kelso's comparison and its commit is overwritten.
- `Activity`: two processes that look for a name in one second before either writes get
  the same file.

The properties pass under the conditions that exclude these: in `lifecycle_fleet`
backups have no timeouts, the scene that resumes has no backups, restores are by
one process, and nobody stops an app beside an `up`; in `lifecycle_pairs` removals
are planned by jobs, and the scene that purges with failures has no `config`. In
the part `Routes` of `app_sound` the scene with restores has no change of config, no unloading, no
failures and no crashes, the middle of a restore is excepted from `LiveTracked`, and an
app whose derivation was cut short from `RoutesReach`. Routes that kelso logged it
could not unpublish are excepted from both: taking down is best effort by design.

**Bounds.** `Layout` has three verbs and two changes of the machine: load, edit or lose
something, start, and once more. A data volume's root and a socket may vanish there; a host volume
loses its mount or its entry, and that its folder may be gone too is left to the proof. `Sources` has three verbs, since a mixture takes one
that makes data, one that resolves and one that comes between. `Kproxy`'s two changes let a
connection wake and wait again; its list holds one host and its table two keys, so that both
are full. One fault is one of a crash, an edit, a failed write or dial, a dead listener or a
peer that stops reading, for a while or for good. `Vault` has two further seeds, to which
rekeys overlap, one other process that holds a context, two instants, one backup and one
accident: a backup is before or after. The two phrases are interchangeable, which the run uses
as a symmetry. `Cron` has eight minutes, which hold two days and
the clock set back; its two jobs have steps, ranges, both day fields and a month.
`Retention` keeps one of each kind over periods of one, two and three units, with three
snapshots, enough for one to be pushed out by another while a listing is out of date. `Console` has two sessions,
`Repos` and `Edits` three commands of two people and one or two things that go wrong,
`Activity` four runs with two kept.

**Fairness.** `Lifecycle!FairSpec` has weak fairness of each process's own steps: a
process that runs gets on, and a wait for a lock ends with the lock or the timeout
of `_acquire`. Nobody has to ask for a verb, and nothing has to crash or fail.
`JobRunner!FairSpec` has weak fairness of the worker, of the scheduler, and of a
submitter between the history and the queue, and strong fairness of the check
whether a backup is due: `run_pending` runs everything that is pending, so metrics
that are due again and again cannot keep the scheduler from it. No fairness is
assumed of the HTTP clients or of the clock. `Kproxy!Fairness` has weak fairness of a
connection's own steps, of its hold running out and of the deadline of a half-closed pipe,
as long as nothing blocks its copy's write, and of installing rules that were saved; strong
fairness of `markPending`, since Go's mutex is handed to whoever waits longest. Nothing makes a
peer finish sending, or read: a write has no deadline.

**Deadlock** is checked in the runs of `Lifecycle` and in `app_sound`, where somebody can always be
asked for something; the others end when their bound is used up.

## What is proved

Eight modules hold theorems, each for every value of the constants that its assumptions
allow. An `ASSUME` is evaluated by TLC on the runs of its module. A hypothesis that only
some theorems need stands in the theorem, because the code does otherwise without it: each
names a disagreement above that TLC finds when it is dropped.

**`LifecycleProofs`**, for any apps, any number of processes, and any scenes: `TypeOK`,
`MutualExclusion` and `SnapshotQuiescent` are invariants of `Lifecycle!Spec`. The
assumptions are those of `ConstantsAssumption`: the values that stand for nobody and
for no app are none of the processes and apps, groups are 0 to 9, and scenes are
scenes.

The argument is in two layers. `LockInv` is `MutualExclusion`, the types it needs,
and `Placed`: whoever waits for a lock or holds one works on an app. Every action is
shown to be one of four kinds, a step under both locks (`Inside`), one that lets go
and leaves (`Leaves`), one that begins (`Begins`), or one of the few that move
between the locks, and each kind keeps `LockInv`. On top of it, every step of a
process changes the state of its own app alone (`Owns`), which by `MutualExclusion`
is not an app another process is inside of (`OthersStay`). So once an app is down,
or not loaded, when a verb turns to reading it, it stays so until the verb goes on
(`Stays`), though the kelso lock is anybody's meanwhile; that is
`SnapshotQuiescent`. Neither property is inductive without the rest of `IndInv`.

**`LifecycleSafety`** builds on it. Every label gets what is true of the app of a process
there (`Safe`: past its stop the app is down, past its commit it is loaded, before
`compose up` there is a compose.yml), the steps are summed up by where they go and what
they make of the app (`RoutineMoves`, `BodyMoves`), and `SafeInv` follows move by move;
`OthersStay` keeps it for everybody else.

- `NoOrphans`, `NoClobber`: under `PlansApart`. A removal at the shell and a restore read
  the app before they have its lock, and nothing reads it again; so where one process may be
  asked for either, no other may be asked for what starts an app. Without it `RemoveRace`
  and `lifecycle_restore_race` are counterexamples.
- `RoutesStand`: under `PlansApart` and `NoRestores`, since a restore brings an old bundle
  and leaves routes as they are (`routes_restored`). `RouteInv` adds what each label of the
  process that holds an app has done to its routes.
- `UpdateUndoable`: in every scene. `UndoInv` says from where on the newest update backup has
  the app's data, and what has not touched the data since.

**`LifecycleSecrets`**: `FreshSecrets` and `RightSecrets`, under `NoRestores` and
`NoConfigs`, for any processes, faults and crashes. Config and volumes change in different
steps and a purge may end between them; `Matched` is what may be left of an app then, and
`KeyAt` what a label has seen to, above all that from the check of a load
(`load.py:513`) to the secrets data is not without a config. `ConfigPurge` and
`ConfigCrash` are why `kelso config` is left out. A restore puts data and config back one
after the other; for restores `RightSecrets` is only model-checked. `ScenesAssumption` in
`MCLifecycle` has TLC find that the scenes of the passing runs meet `PlansApart`, and those
of `lifecycle_pairs` `NoRestores`; two of these have no `config` either.

**`JobRunnerProofs`**, for any set of threads, verbs and ids and any history limit:
`TypeOK`, `NoLostJob`, `OneAtATime`, `OneScheduled` and `ThreadOrder` are invariants of
`JobRunner!Spec`. The assumptions are those of `ConstantsAssumption`: the scheduler
is not an HTTP thread, the backup verb is no other verb, the bounds are naturals.

None of them is inductive. `IndInv` adds where every unfinished job is: ids at
or past `next` are of no job; a queued job is in the history; what is in a
submitter's hand, on the queue or with the worker is each other's complement, every
id in one place; and between `busyWith` and `submit` the scheduler has no
unfinished job of the verb it wants, which stays true because only the scheduler
itself submits in its name and the worker only finishes jobs. The last is why the
two holds of the lock do no harm. The proof goes action by action; `RegisterKeeps`
carries the argument that trimming drops finished jobs only. `OrderInv` has the jobs of one
thread in their order along the way from its hand over the queue to the worker, as long as no
context failed to be made, which strands a job.

**`AppProofs`**, for any apps, providers, bundles, port ranges and scenes (`Routes`), and any
repositories, paths, ids and processes (`Sources`), and any bundles, host volumes and edits
(`Layout`).

- `PortsApart`, `OwnersKept`: in every scene, restores included. The first needs only types
  and that the port looked for is none that is on record; the second `OwnersInv`: what is put
  up was looked at before (`Preflight`) and nobody else of kelso's moves.
- `LiveTracked`, `RoutesReach`: where nobody is asked for a restore. `AppInv` says per app
  that what stands is on record, that an app that is not loaded has nothing up, and that
  compose.yml, containers and records name the same ports unless the derivation was cut short;
  `JobInv` what the verb under way has still to take down (`Walked`), has taken down
  (`Cleared`) or has put up (`Raised`). The hypothesis is on the scene of the behaviour;
  `routes_restored` is what happens without it.
- `SourceKept`: every app that was not mixed is of one place, that of its recorded source
  (`GoodSet`), and every process has checked its target against the source that was recorded
  when it resolved it (`Checked`). `SourcesAssumption`: the value for no place is no place.
- `StartsWhole`: `DerivedInv` says that an app of which nothing is marked as changed or left
  behind is `Fitting`: compose.yml is what its store makes where no connection is missing, every
  route is on record, and command folders and links of its own volumes are there. Every edit
  marks what compose.yml depends on (`ComposeSame`: routes and subdomain, nothing else of the
  store), so a start derives it again; every list of steps of a load or a start ends `Fitting`
  or leaves a mark at each place it may be cut short (`Materialized`, `LoadWalks`). What the
  machine has may have changed since, and a start looks at all of that (`NothingWanting`); then
  every mount stands (`MountsStand`), and no reference is left because each that a manifest may
  have is among the keys that are substituted (`NoReferenceLeft`). `BundlesAssumption`: the
  value for no bundle is none of them.

**`KproxyProofs`**, for any connections, hosts, suffixes, rules, bodies, hand-written files
and limits. `NoLostWakeup` and `HeldListed` by `WaitInv`: what each label of a connection knows
of the epoch it loaded, relative to the current one. `FileAgrees` by `FileInv`: the file is
what the engine decides by, or what the request under way is about to install. It rests on
`format` and `parseRules` being inverse for rules the engine can have, which is proved of any
number of names in any order. `ConfigAssumption`: files and bodies are lists and the flag is a
policy. `NoneApart`: what stands for no file and no rules is not a list or rules.

**`CronProofs`**, for any jobs, calendar, tickers and deaths. `FindsNext`: the search of
`next_after`, with its jumps to the next month, day and hour, ends at the first minute that
matches (`SkipsNone`: what a jump passes over has the wrong month, day or hour). The search is
a recursive function of a time that grows. What it should return is written down without
recursion (`IsFirst`) and is such a function (`Seeks`); if one returned anything else for some
time, there would be a last such time, and from there it goes on to a later one
(`SeekFinds`). `OncePerTime` and `NoneLeftDue` by `CronInv`: one ticker at a time has the lock;
what it holds to be due was due when it began and has not run since; and a job that was due
then is on its list still, failed, or has run. `CalendarAssumption`: there are finitely many
jobs, each unit of the calendar has at least one of the next, the clock is not set back before
its beginning, and the value for no time is no time.

**`HostProofs`**.

- `NoSecretLost`, `SecretsCurrent`: for any stores, writers and phrases, without the bounds on
  time, backups and accidents. `OnFile`: whatever may come to be a store's key (in stores,
  contexts, backups, and what a rekey moves to) is on file. `Moving`: a store that is not under
  the last seed is still to be done by a rekey under way, or is in `stale`, however many
  overlap.
- `NoShellLeft`: `ConsoleInv`, over the order in which kelsod's side ends.
- `CleanCommits`: whoever is past the comparison has the lock, and the repository is as the
  draft was opened, unless the owner came between.
- `ConfigKeeps`, `RecordTrue`: between reading the document and the rename only the holder of the
  lock moves config.toml (`HandInv`), for any entries, settings and processes.
- `LogsKept`: for any recorders, deaths and numbers of runs and kept logs. `RunsInv(own)`, for
  some function `own` from runs to names: every file is some run's, a name that two runs have
  is in `clashed`, and whatever is not there any more, or is on somebody's list to be removed,
  has `KeepRuns` files after it now. The last is the heart of it (`DueSurvives`): a listing may be as
  old as one likes, what is removed by it leaves enough after everything that is due, since of
  the files that are due the last one is not followed by any that is. `ActivityAssumption`: the
  limits are naturals.
- `KeepsHistory`: for one writer and finitely many keys, whatever the sizes, the number of writes
  and of crashes. `LogInv`: the file ends as the log does, as far back as a compaction keeps
  (`EndsAs`), and so does the second file when it is about to be renamed; the writer appends to
  the file that has the name. `CompactKeeps` is the fact about `compact`, `SubSeq` and
  concatenation. The hypothesis of one writer cannot be dropped: see `LogTab` with two writers above.
- `IsKeyTable`, the refinement, under the same hypothesis: appending a record is the step of
  `KeyTable` of that name, and everything else stutters. `current`, which goes through the file
  from its start, is replaced by what it comes to: an entry is what the last record makes of it
  that is about its key or about a prefix of it (`Shows`). A compacted file lists what is current, each key
  once (`OldestFirstLists`), so an entry is what it was (`CompactSame`). `ConstantsAssumption`:
  a key that is also a prefix is under itself.
- `ThinsAsIfAll`: for any policy, lengths of days, weeks and months, processes and numbers of
  snapshots and failures. What the policy keeps, going through the backups newest first, is
  said of each backup by what is newer (`ThinIs`, `KeptIs`): those are of few enough days, and
  none of its own. So whatever is wanted of all the snapshots ever taken is what is kept of
  those left, as long as the wanted ones are among these (`ThinnedSame`: the last backup of a
  day that nothing left is of would itself be wanted), and a later snapshot makes nothing wanted
  that was not (`ChosenShrinks`). `SnapsInv`: nothing that is wanted is gone, or on anybody's
  list to be forgotten, however old; the parts of a scheduled backup are there, and are listed,
  together, so that its time stays that of its first. `KeepAssumption`: the policy has a natural
  number for each kind (`BackupKeep` is `ge=0`).

**Only model-checked**, and why:

- `ResumeRestores`, `UpSparesStopped` and `BackupRestarts` of `Lifecycle`, which are not true of
  any scenes that are easily said: they need, besides who is asked for what, that no wait times
  out, that at most one thing fails, or that what is under way at a crash is no backup
  (`UpRace`, `ClearTemp`, `Relock`, `lifecycle_backup_crash`).
- All liveness (`VerbsEnd`, `JobsFinish`, `DueBackupRuns`, `EveryConnEnds`): TLAPS does not prove
  properties under fairness.

## Left out, and why

- Certificates, policies, cached tokens and the schemes of routes; the snapshot of
  owners that a taking down reads once per provider, which only a person at the
  dashboard could make stale.
- In `Lifecycle`, `rmtree` of a tree, the taking down of all of an app's routes, and a restic
  backup are one step each.
- `config_edit.py:213`, `remove_route_provider`, which nothing calls; adding a provider under a
  tag of another kind, which is refused and changes nothing.
- A phrase entered at a rekey that kelso has had before; the model's are new.
- `Lifecycle` takes the rewriting of compose.yml by `kelso config --route` to be `Layout`'s
  matter, and an unload's taking down of routes and removal of the copy to be one step.
- In `Routes`, a person at the dashboard between an app's preflight and its registration, the
  window of which no lock can close. A `compose up` that fails has started all of the app's
  containers or none.
- In `Activity`, more runs in a second than logs are kept; making a run's file and writing its
  header are one step after its name was chosen.
- Bulk volumes, which are backed up while the app runs, host volumes, `--no-backup`,
  and `--set` and `--bind` of a load.
- A restore that fails between the volumes and the config leaves them apart; the
  code says so. `RightSecrets` is checked of restores without failures.
- The second writer of a compacted file may also find the first one's file under
  its name; `Replace` has the error that follows, not the mixture.
- In `Layout` and `Sources` there is one app; restores, `/etc/localtime`, and a provider's
  change of domain are left out of the first, stems that fit two apps out of the second.
- In `Kproxy` counts of bytes and the bytes of DNS, TLS and HTTP.
- The texts of manifests, compose.yml, config.toml and messages; forms; reports
  (`views.py`, `doctor.py`, `receipt.py`, `metric.py`), wrappers of commands (`docker.py`,
  `service.py`), the arguments and output of the CLI, and the UI: they keep no state.
- The bundled apps (`apps/`) are what kelso runs, not kelso.

## Plan

Done: the modules above, and the proofs. What is left is to prove more, in this order:

1. `UpSparesStopped`, with what its scenes have in common as a named hypothesis.
2. `RightSecrets` with restores that do not fail.
