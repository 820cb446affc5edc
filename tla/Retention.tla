----------------------------- MODULE Retention -----------------------------
(***************************************************************************)
(* Which backups are kept (kelso/lib/backup.py, kelso/lib/restic.py).      *)
(*                                                                         *)
(* A run backs up each app, then kelso's own state, and forgets what the   *)
(* keep policy no longer wants; an update backs up its app and forgets, a  *)
(* restore backs up its app only.  Each backup is a snapshot, or two when  *)
(* the app has bulk volumes, tagged with the second its run began.  Runs   *)
(* of several processes overlap: what one lists it forgets later, and      *)
(* nothing but restic's own locks keeps them apart.                        *)
(*                                                                         *)
(* The policy is applied to the backups of each owner by themselves, so    *)
(* the model has one: an app.  Time is in seconds; days, weeks and months  *)
(* are periods of so many.                                                 *)
(***************************************************************************)
EXTENDS Integers, FiniteSets

CONSTANTS
    BulkOn,     \* the app has bulk volumes that are backed up
    Kelsod,     \* kelsod's job thread
    Runners,    \* it and other processes
    Keep,       \* [daily, weekly, monthly, manual], the policy
    Period,     \* [daily, weekly, monthly], how long each is
    MaxUnits,   \* bound: time
    MaxSnaps,   \* bound: snapshots ever taken
    MaxTrouble  \* bound: restic commands that fail or are killed, deletions by hand

\* The numbers a BackupKeep may have.
RetentionAssumption ==
    /\ DOMAIN Period = {"daily", "weekly", "monthly"}
    /\ Keep \in [{"daily", "weekly", "monthly", "manual"} -> Nat]

VARIABLES
    unit,      \* now
    repoThere, \* the repository exists
    snaps,     \* snapshots in it, [id, part, run, time, reason]
    hist,      \* snapshots ever taken
    disturbed, \* a backup was deleted by hand, or two have one name
    runner,    \* per process, its run: where it is, its name and reason, what it will forget
    leftLock,  \* a lock a killed restic left: "none", "fresh", or "stale" after half an hour
    shots,     \* snapshots ever taken
    trouble

vars == <<unit, repoThere, snaps, hist, disturbed, runner, leftLock, shots, trouble>>

Scheduled  == "scheduled"
Manual     == "manual"
Update     == "update"
PreRestore == "pre-restore"
Off == [pc |-> "off", run |-> 0, reason |-> Manual, part |-> "data", doomed |-> {}]

Init ==
    /\ unit = 0 /\ repoThere = FALSE
    /\ snaps = {} /\ hist = {} /\ disturbed = FALSE
    /\ runner = [r \in Runners |-> Off]
    /\ leftLock = "none" /\ shots = 0 /\ trouble = 0

-----------------------------------------------------------------------------
(* Listing and the keep policy. *)

Oldest(ss) == CHOOSE s \in ss : \A o \in ss : s.id <= o.id
Latest(ss) == CHOOSE s \in ss : \A o \in ss : o.id <= s.id

\* Snapshots as backups: those of one run are one, with the time and the reason
\* of its first and, of each part, the last.
backups(all) ==
    LET Of(run) == {s \in all : s.run = run}
        Parts(run) == {Latest({s \in Of(run) : s.part = p}).id : p \in {s.part : s \in Of(run)}}
    IN  {[run |-> r, time |-> Oldest(Of(r)).time, reason |-> Oldest(Of(r)).reason,
          ids |-> Parts(r)] : r \in {s.run : s \in all}}

OfReason(bs, reason) == {b \in bs : b.reason = reason}
\* The last so many of a set of numbers.
Greatest(n, ns) == {v \in ns : Cardinality({w \in ns : w > v}) < n}

\* Mutant: the oldest of each period is kept.
ThinOldest(bs, count, len) ==
    LET buckets == Greatest(count, {b.time \div len : b \in bs})
    IN  {b.run : b \in {c \in bs : /\ c.time \div len \in buckets
                                   /\ \A d \in bs : d.time \div len = c.time \div len => c.run <= d.run}}
\* Newest first, the first of each bucket until there are enough buckets.
Thin(bs, count, len) ==
    LET newestFirst == [i \in 1..Cardinality(bs) |->
                          CHOOSE b \in bs : Cardinality({c \in bs : c.run > b.run}) = i - 1]
        Bucket(i)   == newestFirst[i].time \div len
        Opens(i)    == \A j \in 1..(i - 1) : Bucket(j) # Bucket(i)
        Seen(i)     == {Bucket(j) : j \in 1..(i - 1)}
    IN  {newestFirst[i].run : i \in {i \in DOMAIN newestFirst :
                                         Opens(i) /\ Cardinality(Seen(i)) < count}}

Kept(bs) ==
    LET scheduled == OfReason(bs, Scheduled)
        Newest(reason, n) == Greatest(n, {b.run : b \in OfReason(bs, reason)})
    IN  (UNION {Thin(scheduled, Keep[k], Period[k]) : k \in {"daily", "weekly", "monthly"}})
        \cup Newest(Manual, Keep.manual) \cup Newest(Update, 1) \cup Newest(PreRestore, 1)
expired(bs) == {b \in bs : b.run \notin Kept(bs)}

\* The snapshots of expired backups.
Doomed == UNION {b.ids : b \in expired(backups(snaps))}

-----------------------------------------------------------------------------
(* restic. *)

\* A command gets past the locks: one that is in the way and stale is removed
\* and the command tried again, once.  Only forget and prune mind a lock that a
\* backup left; any one lock stands for both kinds.
Unlocked == leftLock # "fresh" /\ leftLock' = "none"
Fails == \/ leftLock = "fresh" /\ UNCHANGED <<leftLock, trouble>>
         \/ trouble < MaxTrouble /\ trouble' = trouble + 1 /\ UNCHANGED leftLock
\* The machine, or the process, goes down while restic runs.
Dies(r) ==
    /\ runner[r].pc # "off" /\ trouble < MaxTrouble /\ trouble' = trouble + 1
    /\ runner' = [runner EXCEPT ![r] = Off]
    /\ leftLock' = "fresh"
    /\ UNCHANGED <<unit, repoThere, snaps, hist, disturbed, shots>>

Time ==
    /\ unit < MaxUnits /\ unit' = unit + 1
    /\ leftLock' = IF leftLock = "fresh" THEN "stale" ELSE leftLock
    /\ UNCHANGED <<repoThere, snaps, hist, disturbed, runner, shots, trouble>>

Set(r, new) == runner' = [runner EXCEPT ![r] = new]

\* The app's lock: an update and a restore have it all along, a run while it
\* takes the app's snapshots.
HasLock(r) == /\ runner[r].pc # "off"
              /\ runner[r].reason \in {Update, PreRestore} \/ runner[r].part = "bulk"
Free(r) == \A o \in Runners \ {r} : ~HasLock(o)

\* A backup named by this second is there already.
refuse_same_second(run) == repoThere /\ \E s \in snaps : s.run = run

\* run_backups, or the backup of an update or a restore: the destination is
\* there, the name is free, and the repository is made if it was not.  Scheduled
\* runs come from kelsod alone, one at a time.
Begin(r, reason) ==
    /\ runner[r].pc = "off" /\ shots < MaxSnaps /\ Unlocked
    /\ ~refuse_same_second(unit)
    /\ reason \in {Update, PreRestore} => Free(r)
    /\ reason = Scheduled => r = Kelsod
    /\ repoThere' = TRUE
    /\ Set(r, [Off EXCEPT !.pc = "backup", !.run = unit, !.reason = reason])
    /\ UNCHANGED <<unit, snaps, hist, disturbed, shots, trouble>>

\* One snapshot: of the app's data, then of its bulk volumes.  What fails is
\* skipped by a run and ends an update or a restore.
backup(r) ==
    LET k      == runner[r]
        snap   == [id |-> shots + 1, part |-> k.part, run |-> k.run, time |-> unit,
                   reason |-> k.reason]
        onward == IF k.reason = PreRestore THEN Off ELSE [k EXCEPT !.pc = "list", !.part = "data"]
    IN  /\ k.pc = "backup" /\ Free(r)
        /\ \/ /\ Unlocked /\ shots < MaxSnaps
              /\ snaps' = snaps \cup {snap} /\ hist' = hist \cup {snap} /\ shots' = shots + 1
              /\ disturbed' = (disturbed \/ \E s \in hist : s.run = k.run /\ s.part = k.part)
              /\ Set(r, IF BulkOn /\ k.part = "data" THEN [k EXCEPT !.part = "bulk"] ELSE onward)
              /\ UNCHANGED trouble
           \/ /\ Fails /\ Set(r, IF k.reason \in {Update, PreRestore} THEN Off ELSE onward)
              /\ UNCHANGED <<snaps, hist, disturbed, shots>>
        /\ UNCHANGED <<unit, repoThere>>

\* forget_expired lists every backup and sets apart what goes; a command that
\* fails ends the run.
List(r) ==
    /\ runner[r].pc = "list"
    /\ \/ Unlocked /\ UNCHANGED trouble
          /\ Set(r, IF Doomed = {} THEN Off ELSE [runner[r] EXCEPT !.pc = "forget", !.doomed = Doomed])
       \/ Fails /\ Set(r, Off)
    /\ UNCHANGED <<unit, repoThere, snaps, hist, disturbed, shots>>
\* Pruning frees space and the check reads; neither changes what is listed.
forget(r) ==
    /\ runner[r].pc = "forget"
    /\ \/ /\ Unlocked /\ UNCHANGED trouble
          /\ snaps' = {s \in snaps : s.id \notin runner[r].doomed}
       \/ Fails /\ UNCHANGED snaps
    /\ Set(r, Off)
    /\ UNCHANGED <<unit, repoThere, hist, disturbed, shots>>

\* kelso backup delete: every snapshot of the one backup, listed just before.
delete(b) ==
    /\ Unlocked /\ trouble < MaxTrouble /\ trouble' = trouble + 1
    /\ snaps' = {s \in snaps : s.id \notin b.ids}
    /\ disturbed' = TRUE
    /\ UNCHANGED <<unit, repoThere, hist, runner, shots>>

Next ==
    \/ Time
    \/ \E r \in Runners :
        \/ \E reason \in {Scheduled, Manual, Update, PreRestore} : Begin(r, reason)
        \/ backup(r) \/ List(r) \/ forget(r) \/ Dies(r)
    \/ \E b \in backups(snaps) : delete(b)

Spec == Init /\ [][Next]_vars

-----------------------------------------------------------------------------
(* Properties. *)

\* What the policy's comment wants of the backups: "the newest of each of the last
\* n days, weeks and months" of scheduled ones, the newest so many of others.
Wanted(bs) ==
    LET Newer(b) == {c \in bs : c.reason = b.reason /\ c.run > b.run}
        Periods(cs, k) == {c.time \div Period[k] : c \in cs}
        Thinned(b) == \E k \in DOMAIN Period :
            LET later == Periods(Newer(b), k)
            IN  b.time \div Period[k] \notin later /\ Cardinality(later) < Keep[k]
        Count(reason) == IF reason = Manual THEN Keep.manual ELSE 1
    IN  {b.run : b \in {c \in bs : IF c.reason = Scheduled THEN Thinned(c)
                                  ELSE Cardinality(Newer(c)) < Count(c.reason)}}

\* Forgetting as the runs come round, from listings that may be out of date by
\* then, keeps what the policy wants of every backup ever taken: none is lost
\* that a later day, week or month would still want, and what kelso takes on its
\* own pushes nothing out.  Not said once a backup was deleted by hand: what it
\* had pushed out may be on its way to be forgotten.  Nor when two runs began in
\* one second: they are taken for one backup, with the first's reason.
ThinsAsIfAll == ~disturbed => Kept(backups(snaps)) = Wanted(backups(hist))
=============================================================================
