------------------------------- MODULE MCHost -------------------------------
(***************************************************************************)
(* Eight parts of kelso that share no state, each from its own initial     *)
(* state and by itself: which one moves is chosen once, so the states are  *)
(* the sum of theirs.                                                      *)
(***************************************************************************)
EXTENDS LogTab, TLC

CONSTANTS k1, k2, p,
    VApps, VWriters, Phrases, First, NoKey, MaxTime, MaxKept, MaxAccidents,
    Tickers, CronJobs, NoTime, Minutes, Hours, Days, Months, Week, SetBack, CronEnd,
    BulkOn, Kelsod, Runners, Keep, Period, MaxUnits, MaxSnaps, MaxTrouble,
    IdleAfter, MaxSessions, MaxMishaps,
    Hands, Mirrors, Volumes, Providers, Settings, MaxTip, MaxVerbs, MaxFaults,
    Editors, Texts, MaxEdits, MaxMoves,
    Recorders, KeepRuns, MaxRuns, MaxSeconds, MaxDeaths

VARIABLES
    part,
    keyfile, secret, repo, taken, ctx, rk, seconds, stale, died, fresh, accidents,
    minute, lastRan, loaded, running, busy, tick, ran,
    unit, repoThere, snaps, hist, disturbed, runner, leftLock, shots, trouble,
    page, bridge, sock, phase, done, ending, client, shell, marker, quiet, recorded,
    sessions, mishaps,
    conf, meant, hand, klock, copy, mark, torn, tip, verbs, faults,
    work, committed, staged, midway, editor, alock, edits, moves,
    second, logs, recorder, begun, closed, index, clashed, deaths

-----------------------------------------------------------------------------
(* Values of constants. *)

\* k1 and k2 share a prefix.
Prefix == p :> {k1, k2}

\* Items of a field as Cron has them: -1 is a star, -2 what is not written.
Item(from, to, step) == {[from |-> from, to |-> to, step |-> step]}
Star == Item(-1, -2, -2)
Only(n) == Item(n, -2, -2)
\* "*/2 1 2 * 0-0", where either day is enough, and "1 * * 1 *".
TwoJobs ==
    { [app |-> "a1", name |-> 1, fields |->
        [minute |-> Item(-1, -2, 2), hour |-> Only(1), day |-> Only(2), month |-> Star,
         weekday |-> Item(0, 0, -2)]],
      [app |-> "a1", name |-> 2, fields |->
        [minute |-> Only(1), hour |-> Star, day |-> Star, month |-> Only(1),
         weekday |-> Star]] }

\* Phrases are alike.
Alike == Permutations(Phrases)

KeepOne == [daily |-> 1, weekly |-> 1, monthly |-> 1, manual |-> 1]
Periods == [daily |-> 1, weekly |-> 2, monthly |-> 3]

-----------------------------------------------------------------------------

V == INSTANCE Vault
C == INSTANCE Cron WITH Jobs <- CronJobs
Rt == INSTANCE Retention
W == INSTANCE Console
R == INSTANCE Repos
E == INSTANCE Edits
A == INSTANCE Activity

ASSUME ActivityAssumption == KeepRuns \in Nat /\ MaxRuns \in Nat
ASSUME CalendarAssumption == C!CronAssumption
ASSUME KeepAssumption == Rt!RetentionAssumption

vaultVars == <<keyfile, secret, repo, taken, ctx, rk, seconds, stale, died, fresh, accidents>>
cronVars == <<minute, lastRan, loaded, running, busy, tick, ran>>
retentionVars == <<unit, repoThere, snaps, hist, disturbed, runner, leftLock, shots, trouble>>
consoleVars == <<page, bridge, sock, phase, done, ending, client, shell, marker, quiet, recorded,
                 sessions, mishaps>>
reposVars == <<conf, meant, hand, klock, copy, mark, torn, tip, verbs, faults>>
editsVars == <<work, committed, staged, midway, editor, alock, edits, moves>>
activityVars == <<second, logs, recorder, begun, closed, index, clashed, deaths>>

HostInit ==
    /\ part \in {"logtab", "vault", "cron", "retention", "console", "repos", "edits", "activity"}
    /\ Init /\ V!Init /\ C!Init /\ Rt!Init /\ W!Init /\ R!Init /\ E!Init /\ A!Init

HostNext ==
    /\ UNCHANGED part
    /\ \/ /\ part = "logtab" /\ Next
          /\ UNCHANGED <<vaultVars, cronVars, retentionVars, consoleVars, reposVars, editsVars, activityVars>>
       \/ /\ part = "vault" /\ V!Next
          /\ UNCHANGED <<vars, cronVars, retentionVars, consoleVars, reposVars, editsVars, activityVars>>
       \/ /\ part = "cron" /\ C!Next
          /\ UNCHANGED <<vars, vaultVars, retentionVars, consoleVars, reposVars, editsVars, activityVars>>
       \/ /\ part = "retention" /\ Rt!Next
          /\ UNCHANGED <<vars, vaultVars, cronVars, consoleVars, reposVars, editsVars, activityVars>>
       \/ /\ part = "console" /\ W!Next
          /\ UNCHANGED <<vars, vaultVars, cronVars, retentionVars, reposVars, editsVars, activityVars>>
       \/ /\ part = "repos" /\ R!Next
          /\ UNCHANGED <<vars, vaultVars, cronVars, retentionVars, consoleVars, editsVars, activityVars>>
       \/ /\ part = "edits" /\ E!Next
          /\ UNCHANGED <<vars, vaultVars, cronVars, retentionVars, consoleVars, reposVars, activityVars>>
       \/ /\ part = "activity" /\ A!Next
          /\ UNCHANGED <<vars, vaultVars, cronVars, retentionVars, consoleVars, reposVars, editsVars>>

hostVars == <<part, vars, vaultVars, cronVars, retentionVars, consoleVars, reposVars, editsVars, activityVars>>

HostSpec == HostInit /\ [][HostNext]_hostVars

-----------------------------------------------------------------------------
(* The properties of the parts, beside LogTab's. *)

\* Nothing is encrypted under a key this root does not have on file, wherever a
\* rekey died and whoever wrote in between (rekey.py, recovery.py).
NoSecretLost == V!NoSecretLost

\* After a rekey that ran to its end every secret is under the new key, those a
\* restore brings back included (rekey.py, restore.py).
SecretsCurrent == V!SecretsCurrent

\* Between two runs of a cron job lies a time it is scheduled for (cron.tick).
OncePerTime == C!OncePerTime

\* A tick that came to its end has run every job that was due, but for one whose
\* turn found the app or kelso locked (cron.tick, cronexpr.next_after).
NoneLeftDue == C!NoneLeftDue

\* Forgetting from listings out of date keeps what the policy wants of every
\* backup ever taken (backup.expired, backup.forget_expired).
ThinsAsIfAll == Rt!ThinsAsIfAll

\* A console session that is over leaves no shell in the container (console.hang_up).
NoShellLeft == W!NoShellLeft

\* config.toml says what the edits that succeeded say (config_edit.edit_config).
ConfigKeeps == R!ConfigKeeps

\* kelsodb's commit of a repository is the one its copy is at (repo.mirror).
RecordTrue == R!RecordTrue

\* A commit kelso makes turns the text its editor opened into the text that
\* editor handed in (edit.edit_manifest).
CleanCommits == E!CleanCommits

\* A completed run's log is whole, or gone with enough newer ones there (activity.py).
LogsKept == A!LogsKept
=============================================================================
