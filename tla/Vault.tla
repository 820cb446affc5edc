------------------------------- MODULE Vault -------------------------------
(***************************************************************************)
(* The recovery phrase and what is encrypted under it: app secrets,        *)
(* kelsodb's own, and the backup repository.  `kelso system rekey` moves   *)
(* them to a new seed, `kelso restore <dir>` brings a whole kelso back on  *)
(* another machine (kelso/lib/rekey.py, recovery.py, crypto.py, store.py,  *)
(* lifecycle/recover.py).                                                  *)
(*                                                                         *)
(* A ciphertext is the seed it was made under: Fernet is authenticated, so *)
(* any other key refuses it.  Every process has the key of the moment it   *)
(* read the configuration; the stores are read and written a record at a   *)
(* time, under the app's lock.  Timestamps are whole seconds.              *)
(*                                                                         *)
(* A definition introduced as a mutant is a wrong variant of the one after *)
(* it, used by nothing: put in its place, it makes a property fail.        *)
(***************************************************************************)
EXTENDS Integers, Sequences, FiniteSets

CONSTANTS
    VApps,       \* apps with a secret
    VWriters,    \* processes that hold a context: CLIs, kelsod's requests
    Phrases,     \* entropies a rekey may draw
    First,       \* the one kelso was initialised with
    NoKey,       \* no seed, no secret, no repository
    MaxTime,     \* bound: seconds
    MaxKept,     \* bound: backups taken
    MaxAccidents \* bound: crashes, unmounted disks and lost machines

KelsoDb == "kelsodb"   \* its secrets and tokens are handled as an app's are

VARIABLES
    keyfile,   \* conf/master.key, its records [seed, at] in the order written
    secret,    \* per store, the seed its secrets are under, or NoKey if none are held
    repo,      \* the seed the repository's password derives from, or NoKey
    taken,     \* backups in the repository
    ctx,       \* per process, the key of its context, or NoKey
    rk,        \* per phrase, the rekey to it: what it does next, old and new key, stores left
    seconds,   \* the clock
    stale,     \* stores last written under another key than the current one, or one
               \* unknown, or that a rekey reported it could not read
    died,      \* a rekey was cut off
    fresh,     \* the machine was lost and kelso made anew with the phrase
    accidents

vars == <<keyfile, secret, repo, taken, ctx, rk, seconds, stale, died, fresh, accidents>>

Stores == VApps \cup {KelsoDb}
NoRekey == [pc |-> "idle", old |-> NoKey, new |-> NoKey, todo |-> {}]

\* The keys a root has had.
Seeds == {keyfile[i].seed : i \in DOMAIN keyfile}
\* The key file as it stood at a time: the last record not after it.
read_keyfile(at) ==
    LET then == {i \in DOMAIN keyfile : keyfile[i].at <= at}
    IN  IF then = {} THEN NoKey
        ELSE keyfile[CHOOSE i \in then : \A j \in then : j <= i].seed
master_key == IF keyfile = <<>> THEN NoKey ELSE keyfile[Len(keyfile)].seed

\* Mutant: the history is not kept.
SeedReplaced(entropy) == keyfile' = <<[seed |-> entropy, at |-> seconds]>>
write_seed(entropy) == keyfile' = Append(keyfile, [seed |-> entropy, at |-> seconds])

\* The key two uses of one phrase derive differ by label; one seed stands for both.
Opens(seed) == repo # NoKey /\ seed = repo

Init ==
    /\ keyfile = <<[seed |-> First, at |-> 0]>>
    /\ secret = [s \in Stores |-> First]
    /\ repo = NoKey /\ taken = {}
    /\ ctx = [w \in VWriters |-> NoKey]
    /\ rk = [e \in Phrases |-> NoRekey] /\ seconds = 0
    /\ stale = {} /\ died = FALSE /\ fresh = FALSE /\ accidents = 0

Accident == accidents < MaxAccidents /\ accidents' = accidents + 1
Tick ==
    /\ seconds < MaxTime /\ seconds' = seconds + 1
    /\ UNCHANGED <<keyfile, secret, repo, taken, ctx, rk, stale, died, fresh, accidents>>

-----------------------------------------------------------------------------
(* Processes that write secrets. *)

\* A process reads the configuration, and with it the key.
crypto_from_config(w) ==
    /\ ctx' = [ctx EXCEPT ![w] = master_key]
    /\ UNCHANGED <<keyfile, secret, repo, taken, rk, seconds, stale, died, fresh, accidents>>

\* A store's secrets are written, by a process that may have another key than
\* the current one or not know the key of what it writes.
Written(s, key, astray) ==
    /\ secret' = [secret EXCEPT ![s] = key]
    /\ stale' = IF astray THEN stale \cup {s} ELSE stale \ {s}

\* set_config, set_secret: a value that is on file already, readable, is left.
set_config(w, s) ==
    /\ ctx[w] # NoKey
    /\ Written(s, ctx[w], ctx[w] # master_key)
    /\ UNCHANGED <<keyfile, repo, taken, ctx, rk, seconds, died, fresh, accidents>>

\* A value the old key reads is under the new one after; another is left.
Reencrypted(key, old, new) == IF key = old THEN new ELSE key

-----------------------------------------------------------------------------
(* kelso system rekey. *)

\* Drawn at random, or entered; one that was on file before is not modelled.  The
\* old key is the one of the process's configuration, which it keeps from here on.
\* Bound: a root made anew, of which the properties say nothing, is not rekeyed.
rekey(e, w) ==
    /\ rk[e].pc = "idle" /\ e \notin Seeds /\ ctx[w] # NoKey /\ ~fresh
    /\ rk' = [rk EXCEPT ![e] = [pc |-> "backups", old |-> ctx[w], new |-> e, todo |-> {}]]
    /\ UNCHANGED <<keyfile, secret, repo, taken, ctx, seconds, stale, died, fresh, accidents>>

\* From the repository's password to the seed a rekey has kelso's lock.
KelsoLocked == \E e \in Phrases : rk[e].pc = "seed"

\* restic key passwd, with the new password in a file that is there meanwhile.
change_password(e) == repo' = e

\* First the repository's password: a lock that is not had in time, a disk that is
\* not there, or a password that does not open it, stops the rekey with nothing
\* changed.  The password now is that of the last seed on file.
move_backups(e) ==
    /\ rk[e].pc = "backups"
    /\ \/ /\ ~KelsoLocked
          /\ \/ repo = NoKey /\ UNCHANGED repo
             \/ Opens(master_key) /\ change_password(e)
          /\ rk' = [rk EXCEPT ![e].pc = "seed"] /\ UNCHANGED accidents
       \/ /\ IF KelsoLocked \/ (repo # NoKey /\ ~Opens(master_key)) THEN UNCHANGED accidents
                ELSE repo # NoKey /\ Accident
          /\ rk' = [rk EXCEPT ![e] = NoRekey] /\ UNCHANGED repo
    /\ UNCHANGED <<keyfile, secret, taken, ctx, seconds, stale, died, fresh>>

RekeySeed(e) ==
    /\ rk[e].pc = "seed"
    /\ write_seed(e)
    /\ rk' = [rk EXCEPT ![e].pc = "config"]
    /\ UNCHANGED <<secret, repo, taken, ctx, seconds, stale, died, fresh, accidents>>

\* The configuration is read again, with no lock: the key may be another rekey's
\* by now.  Apps come after it in any order, kelsodb last.
load_config_file(e) ==
    /\ rk[e].pc = "config"
    /\ LET held == {s \in Stores : secret[s] # NoKey} \cup {KelsoDb}
       IN  rk' = [rk EXCEPT ![e] = [pc |-> "apps", old |-> rk[e].old, new |-> master_key,
                                    todo |-> held]]
    /\ UNCHANGED <<keyfile, secret, repo, taken, ctx, seconds, stale, died, fresh, accidents>>

\* Secrets the old key does not read, another rekey's perhaps, are reported.
Reported(e, s) ==
    stale' = IF secret'[s] = master_key THEN stale \ {s}
             ELSE IF secret[s] \notin {rk[e].old, NoKey} THEN stale \cup {s} ELSE stale

\* Store by store, under the app's lock or kelso's: secrets the old key reads are
\* appended again under the new one, the others left as they were.
rekey_secrets(e, s) ==
    /\ rk[e].pc = "apps" /\ s \in rk[e].todo
    /\ s = KelsoDb => rk[e].todo = {KelsoDb} /\ ~KelsoLocked
    /\ secret' = [secret EXCEPT ![s] = Reencrypted(@, rk[e].old, rk[e].new)]
    /\ Reported(e, s)
    /\ rk' = [rk EXCEPT ![e] = IF rk[e].todo = {s} THEN NoRekey
                               ELSE [rk[e] EXCEPT !.todo = @ \ {s}]]
    /\ UNCHANGED <<keyfile, repo, taken, ctx, seconds, died, fresh, accidents>>

\* It is killed, or a lock is not had in time.
RekeyDies(e) ==
    /\ rk[e].pc \in {"seed", "config", "apps"} /\ Accident
    /\ rk' = [rk EXCEPT ![e] = NoRekey] /\ died' = TRUE
    /\ UNCHANGED <<keyfile, secret, repo, taken, ctx, seconds, stale, fresh>>

-----------------------------------------------------------------------------
(* Backups and restoring. *)

\* An app's backup holds its store as it is, secrets still encrypted; kelso's
\* own state is kelsodb and every app's store.  The first makes the repository,
\* with kelso's lock.
Backup(s) ==
    /\ master_key # NoKey /\ ((repo = NoKey /\ ~KelsoLocked) \/ Opens(master_key))
    /\ Cardinality(taken) < MaxKept /\ secret[s] # NoKey
    /\ repo' = master_key
    /\ taken' = taken \cup {[of |-> s, time |-> seconds,
          keys |-> [o \in Stores |-> IF o = s \/ s = KelsoDb THEN secret[o] ELSE NoKey]]}
    /\ UNCHANGED <<keyfile, secret, ctx, rk, seconds, stale, died, fresh, accidents>>

\* Mutant: secrets from before a rekey are left under the key of then.
AsBackedUp(key, time, now) == key
\* A restored store is read with the key current when the backup was taken and
\* written under the process's own.
Restored(key, time, now) ==
    LET then == read_keyfile(time)
    IN  IF then # NoKey /\ then # now THEN Reencrypted(key, then, now) ELSE key

\* Whether the backup's time tells its key: not when it was taken while a rekey
\* was on its way, or in the second in which a seed was written.
Torn(b) == read_keyfile(b.time) # b.keys[b.of]

restore(w, b) ==
    /\ ctx[w] # NoKey /\ Opens(master_key) /\ b.of \in VApps
    /\ Written(b.of, Restored(b.keys[b.of], b.time, ctx[w]),
               ctx[w] # master_key \/ Torn(b))
    /\ UNCHANGED <<keyfile, repo, taken, ctx, rk, seconds, died, fresh, accidents>>

held_apps == {a \in VApps : secret[a] # NoKey}
\* Every app goes with its store; the key file and the backups stay.
purged == [s \in Stores |-> IF s \in VApps THEN NoKey ELSE secret[s]]
\* kelso system purge, of a root that holds apps.
run_purge ==
    /\ held_apps # {}
    /\ secret' = purged
    /\ stale' = stale \ VApps
    /\ UNCHANGED <<keyfile, repo, taken, ctx, rk, seconds, died, fresh, accidents>>

\* The machine is gone but for the backups' disk; kelso init --with-phrase on
\* another one, with the phrase of the last seed.
init_with_phrase ==
    /\ Accident
    /\ keyfile' = <<[seed |-> master_key, at |-> seconds]>>
    /\ secret' = [s \in Stores |-> NoKey]
    /\ ctx' = [w \in VWriters |-> NoKey] /\ rk' = [e \in Phrases |-> NoRekey]
    /\ stale' = {} /\ fresh' = TRUE
    /\ UNCHANGED <<repo, taken, seconds, died>>

Newest(bs) == CHOOSE b \in bs : \A o \in bs : o.time <= b.time
BackupsOf(s) == {b \in taken : b.of = s}

\* The repository at a path opens with this root's phrase, or it is refused.
open_backups == master_key # NoKey /\ Opens(master_key)

\* kelso's state as its newest backup has it: kelsodb and every app's store,
\* under the keys of then.
copy_state == Newest(BackupsOf(KelsoDb)).keys

\* After that each app that has a backup, from its newest one; where that fails
\* the app is left as the state has it and the next is restored.
recovered(failed) ==
    [s \in Stores |->
        IF s \in failed \cup {KelsoDb} \/ BackupsOf(s) = {} THEN copy_state[s]
        ELSE Restored(Newest(BackupsOf(s)).keys[s], Newest(BackupsOf(s)).time, master_key)]

\* kelso restore <dir>, onto a root that holds no app.
restore_everything ==
    /\ held_apps = {} /\ open_backups /\ BackupsOf(KelsoDb) # {} /\ ~KelsoLocked
    /\ \E failed \in SUBSET {a \in VApps : BackupsOf(a) # {}} :
        /\ IF failed = {} THEN UNCHANGED accidents ELSE Accident
        /\ secret' = recovered(failed)
        /\ stale' = {s \in Stores : /\ secret'[s] # master_key
                                    /\ \/ s \in failed \cup {KelsoDb} \/ BackupsOf(s) = {}
                                       \/ Torn(Newest(BackupsOf(s)))}
    /\ UNCHANGED <<keyfile, repo, taken, ctx, rk, seconds, died, fresh>>

Next ==
    \/ Tick \/ run_purge \/ init_with_phrase \/ restore_everything
    \/ \E s \in Stores : Backup(s)
    \/ \E w \in VWriters :
         \/ crypto_from_config(w) \/ \E s \in Stores : set_config(w, s)
         \/ \E e \in Phrases : rekey(e, w)
    \/ \E e \in Phrases :
         \/ move_backups(e) \/ RekeySeed(e) \/ load_config_file(e) \/ RekeyDies(e)
         \/ \E s \in Stores : rekey_secrets(e, s)
    \/ \E w \in VWriters, b \in taken : restore(w, b)

Spec == Init /\ [][Next]_vars

-----------------------------------------------------------------------------
(* Properties. *)

\* Nothing is encrypted under a key this root does not have on file, whatever
\* step a rekey died at and whoever wrote in between: unless the root was made
\* anew with a phrase and its secrets restored from before a rekey.
NoSecretLost == ~fresh => \A s \in Stores : secret[s] \in Seeds \cup {NoKey}

\* Once the rekeys under way have run to their end every secret is under the key
\* of the last one, whatever order they overlapped in, and a restore brings an
\* older one there too: except what a process with a context from before wrote,
\* backups whose time does not tell their key, and what a rekey reported as not
\* readable with its old key.
SecretsCurrent ==
    ~fresh /\ ~died /\ (\A e \in Phrases : rk[e].pc \in {"idle", "backups", "seed"})
        => \A s \in Stores \ stale : secret[s] \in {master_key, NoKey}

\* rekey's comment: "Every write is an append, so a rekey that dies part-way is
\* undone by deleting the lines it added to each file, the `seed` record last."
\* So the backups can be opened with a seed on file.
RekeyUndoable ==
    ~fresh /\ (\A e \in Phrases : rk[e].pc = "idle") /\ repo # NoKey => repo \in Seeds
=============================================================================
