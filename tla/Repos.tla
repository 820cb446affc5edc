------------------------------- MODULE Repos -------------------------------
(***************************************************************************)
(* config.toml and the copies of the repositories it names                 *)
(* (kelso/lib/config_edit.py, kelso/lib/repo.py, kelso/lib/git.py).        *)
(*                                                                         *)
(* Commands of a shell and requests of kelsod edit config.toml: each       *)
(* process reads it once when it starts, then waits for the kelso lock,    *)
(* and decides some things by what it read first and some by the document  *)
(* it reads under the lock. A mirrored repository has a copy under repos/  *)
(* and, in kelsodb, the commit the copy was last brought to.               *)
(***************************************************************************)
EXTENDS Naturals, FiniteSets

CONSTANTS
  Hands,       \* processes: a shell's command, a thread of kelsod
  Mirrors,     \* names of github repositories
  Volumes,     \* tags of host volumes
  Providers,   \* tags of route providers
  Settings,    \* what an entry may say, numbers above Unset
  MaxTip,      \* bound on what the remote comes to hold
  MaxVerbs,    \* bound on commands
  MaxFaults    \* bound on failures and crashes

VARIABLES
  conf,        \* config.toml: what each entry says
  meant,       \* history: config.toml as the edits that succeeded make it
  hand,        \* what each process is at
  klock,       \* who holds the kelso lock: at most one
  copy,        \* repos/<name>: the commit checked out
  mark,        \* kelsodb: the commit the copy was brought to
  torn,        \* history: names whose last mirroring failed or died
  tip,         \* the remote: its commit, and how that folder looks
  verbs, faults

vars == <<conf, meant, hand, klock, copy, mark, torn, tip, verbs, faults>>

\* kelso_address, which route providers point at.
Address == "kelso_address"
Entries == Mirrors \cup Volumes \cup Providers \cup {Address}
Unset == 0

\* What load_config_file checks across the entries: providers need an address.
validate_config(c) == (\E t \in Providers : c[t] # Unset) => c[Address] # Unset

\* git.head of a checkout that is not there, and of one without a commit.
NoCopy == 0
Bare == 1

\* What a mirrored folder can be found to be: there and within the limits,
\* not in the repository, or over MAX_BUNDLES or MAX_REPO_BYTES.
Shapes == {"fits", "missing", "big"}

Idle == [step |-> "idle"]

TypeOK ==
  /\ {conf, meant} \subseteq [Entries -> Settings \cup {Unset}]
  /\ klock \subseteq Hands /\ Cardinality(klock) <= 1
  /\ {copy, mark} \subseteq [Mirrors -> 0 .. MaxTip]
  /\ torn \subseteq Mirrors
  /\ tip \in [sha : 2 .. MaxTip, shape : Shapes]

Init ==
  /\ conf = [e \in Entries |-> Unset] /\ meant = conf
  /\ hand = [p \in Hands |-> Idle]
  /\ klock = {}
  /\ copy = [n \in Mirrors |-> NoCopy] /\ mark = copy
  /\ torn = {}
  /\ tip = [sha |-> 2, shape |-> "fits"]
  /\ verbs = 0 /\ faults = 0

Goto(p, s) == hand' = [hand EXCEPT ![p].step = s]

\* The command ends, with its result or an error, and gives the lock up.
Done(p) ==
  /\ hand' = [hand EXCEPT ![p] = Idle]
  /\ klock' = klock \ {p}

-----------------------------------------------------------------------------
(* Asking: the context is made, and what is checked against it             *)

\* The names `update` brings up to date: one, or every mirrored one.
wanted(seen) == {n \in Mirrors : seen[n] # Unset}

\* What a command needs of the config it read before it waits for the lock.
known(seen, verb, e) ==
  CASE verb = "add repo" -> e \in Mirrors
    [] verb = "remove repo" -> e \in wanted(seen)
    [] verb = "update" -> e \in wanted(seen)
    [] verb = "add volume" -> e \in Volumes /\ seen[e] = Unset
    [] verb \in {"set volume", "remove volume"} -> e \in Volumes /\ seen[e] # Unset

RepoVerbs == {"add repo", "remove repo", "update"}
VolumeVerbs == {"add volume", "set volume", "remove volume"}

Ask(p) ==
  /\ hand[p] = Idle
  /\ verbs < MaxVerbs
  /\ verbs' = verbs + 1
  /\ \E verb \in RepoVerbs \cup VolumeVerbs, e \in Entries, v \in Settings :
       /\ known(conf, verb, e)
       /\ hand' = [hand EXCEPT ![p] =
            [step |-> "wait", verb |-> verb, entry |-> e, value |-> v,
             seen |-> conf, doc |-> conf, todo |-> {e}, then |-> Unset]]
  /\ UNCHANGED <<conf, meant, klock, copy, mark, torn, tip, faults>>

\* `update` without a name: every repository of the config read first.
AskAll(p) ==
  /\ hand[p] = Idle
  /\ verbs < MaxVerbs
  /\ verbs' = verbs + 1
  /\ wanted(conf) # {}
  /\ \E e \in wanted(conf) : hand' = [hand EXCEPT ![p] =
       [step |-> "wait", verb |-> "update", entry |-> e, value |-> conf[e],
        seen |-> conf, doc |-> conf, todo |-> wanted(conf), then |-> Unset]]
  /\ UNCHANGED <<conf, meant, klock, copy, mark, torn, tip, faults>>

\* A tag that is not there yet needs a kind; another kind than a tag has is
\* refused, which changes nothing, so only whether one is given is told apart.
resolve_route_provider(seen, tag, kind) == kind \/ seen[tag] # Unset

\* What is asked for a provider, filled in from the config read first.
route_provider_config_request(seen, tag) == [domain |-> seen[tag], address |-> seen[Address]]

\* What is to be written, the address only if it is another than before: a
\* field without an answer stays as it was read first. Unset where it is needed.
apply_route_provider_config(seen, tag, domain, address) ==
  LET request == route_provider_config_request(seen, tag)
  IN [domain |-> IF domain # Unset THEN domain ELSE request.domain,
      address |-> IF address = request.address THEN Unset ELSE address]

\* The address is an edit of its own, before the provider's. All this is done
\* under the lock, by the config read before it.
AskProvider(p) ==
  /\ hand[p] = Idle
  /\ verbs < MaxVerbs
  /\ verbs' = verbs + 1
  /\ \E tag \in Providers, kind \in BOOLEAN, d, a \in Settings \cup {Unset} :
       LET written == apply_route_provider_config(conf, tag, d, a)
           first == written.address # Unset
       IN /\ resolve_route_provider(conf, tag, kind) /\ written.domain # Unset
          /\ hand' = [hand EXCEPT ![p] =
               [step |-> "wait", verb |-> "set provider",
                entry |-> IF first THEN Address ELSE tag,
                value |-> IF first THEN written.address ELSE written.domain,
                seen |-> conf, doc |-> conf, todo |-> {tag}, then |-> written.domain]]
  /\ UNCHANGED <<conf, meant, klock, copy, mark, torn, tip, faults>>

Lock(p) ==
  /\ hand[p].step = "wait"
  /\ klock = {}
  /\ klock' = {p}
  /\ Goto(p, IF hand[p].verb = "update" THEN "mirror" ELSE "read")
  /\ UNCHANGED <<conf, meant, copy, mark, torn, tip, verbs, faults>>

LockTimeout(p) ==
  /\ hand[p].step = "wait"
  /\ klock # {}
  /\ Done(p)
  /\ UNCHANGED <<conf, meant, copy, mark, torn, tip, verbs, faults>>

-----------------------------------------------------------------------------
(* Editing config.toml                                                     *)

DocumentSeen(p) == hand[p].seen

\* The document an edit starts from: the file, read under the lock.
document(p) == conf

\* add_repo and remove_repo look in the document; a host volume that has gone
\* meanwhile is a key that cannot be deleted.
refused(p) ==
  \/ hand[p].verb = "add repo" /\ document(p)[hand[p].entry] # Unset
  \/ hand[p].verb \in {"remove repo", "remove volume"}
       /\ document(p)[hand[p].entry] = Unset

Read(p) ==
  /\ hand[p].step = "read"
  /\ \/ refused(p) /\ Done(p)
     \/ /\ ~refused(p)
        /\ hand' = [hand EXCEPT ![p].step = "commit", ![p].doc = document(p)]
        /\ UNCHANGED klock
  /\ UNCHANGED <<conf, meant, copy, mark, torn, tip, verbs, faults>>

\* The one entry an edit changes.
Edited(c, p) ==
  [c EXCEPT ![hand[p].entry] =
     IF hand[p].verb \in {"remove repo", "remove volume"} THEN Unset ELSE hand[p].value]

\* The provider's own edit, once the address is there.
set_route_provider(p) ==
  \E tag \in hand[p].todo : hand' =
    [hand EXCEPT ![p].step = "read", ![p].entry = tag, ![p].value = hand[p].then]

AfterCommit(p) ==
  CASE hand[p].verb = "add repo" -> Goto(p, "mirror") /\ UNCHANGED klock
    [] hand[p].verb = "remove repo" -> Goto(p, "rmtree") /\ UNCHANGED klock
    [] hand[p].entry = Address -> set_route_provider(p) /\ UNCHANGED klock
    [] OTHER -> Done(p)

\* The new text is written beside the file and renamed over it if it loads.
Commit(p) ==
  /\ hand[p].step = "commit"
  /\ validate_config(Edited(hand[p].doc, p))
  /\ conf' = Edited(hand[p].doc, p)
  /\ meant' = Edited(meant, p)
  /\ AfterCommit(p)
  /\ UNCHANGED <<copy, mark, torn, tip, verbs, faults>>

\* It does not load, or the disk is full: config.toml stays as it was.
CommitRefused(p) ==
  /\ hand[p].step = "commit"
  /\ \/ ~validate_config(Edited(hand[p].doc, p)) /\ UNCHANGED faults
     \/ faults < MaxFaults /\ faults' = faults + 1
  /\ Done(p)
  /\ UNCHANGED <<conf, meant, copy, mark, torn, tip, verbs>>

-----------------------------------------------------------------------------
(* Mirroring                                                               *)

\* checkout_folder, its first half: an empty repository where there is none.
Mirror(p) ==
  /\ hand[p].step = "mirror"
  /\ \E n \in hand[p].todo :
       /\ copy' = [copy EXCEPT ![n] = IF @ = NoCopy THEN Bare ELSE @]
       /\ hand' = [hand EXCEPT ![p].step = "fetch", ![p].entry = n, ![p].todo = @ \ {n}]
  /\ UNCHANGED <<conf, meant, klock, mark, torn, tip, verbs, faults>>

\* Its second half: the remote's commit is fetched and checked out by force.
Fetch(p) ==
  /\ hand[p].step = "fetch"
  /\ copy' = [copy EXCEPT ![hand[p].entry] = tip.sha]
  /\ hand' = [hand EXCEPT ![p].step = tip.shape]
  /\ torn' = torn \cup {hand[p].entry}
  /\ UNCHANGED <<conf, meant, klock, mark, tip, verbs, faults>>

\* Any git command fails before the checkout: the error ends the command,
\* the names still to do with it.
FetchFails(p) ==
  /\ hand[p].step = "fetch"
  /\ faults < MaxFaults
  /\ faults' = faults + 1
  /\ Done(p)
  /\ UNCHANGED <<conf, meant, copy, mark, torn, tip, verbs>>

\* There is no such folder in it: an error, and nothing is recorded.
Missing(p) ==
  /\ hand[p].step = "missing"
  /\ Done(p)
  /\ UNCHANGED <<conf, meant, copy, mark, torn, tip, verbs, faults>>

\* Over the limits: the copy is removed.
TooBig(p) ==
  /\ hand[p].step = "big"
  /\ copy' = [copy EXCEPT ![hand[p].entry] = NoCopy]
  /\ Goto(p, "forget")
  /\ UNCHANGED <<conf, meant, klock, mark, torn, tip, verbs, faults>>

ForgetCopyOnly(p) ==
  /\ hand[p].step = "forget"
  /\ torn' = torn \ {hand[p].entry}
  /\ Done(p)
  /\ UNCHANGED <<conf, meant, copy, mark, tip, verbs, faults>>

\* del_repo_state, after a copy was removed.
Forget(p) ==
  /\ hand[p].step = "forget"
  /\ mark' = [mark EXCEPT ![hand[p].entry] = NoCopy]
  /\ torn' = torn \ {hand[p].entry}
  /\ Done(p)
  /\ UNCHANGED <<conf, meant, copy, tip, verbs, faults>>

\* set_repo_state, and on to the next.
Fits(p) ==
  /\ hand[p].step = "fits"
  /\ mark' = [mark EXCEPT ![hand[p].entry] = copy[hand[p].entry]]
  /\ torn' = torn \ {hand[p].entry}
  /\ IF hand[p].todo = {} THEN Done(p) ELSE Goto(p, "mirror") /\ UNCHANGED klock
  /\ UNCHANGED <<conf, meant, copy, tip, verbs, faults>>

\* `remove` drops the copy once config.toml no longer names it.
RemoveCopy(p) ==
  /\ hand[p].step = "rmtree"
  /\ copy' = [copy EXCEPT ![hand[p].entry] = NoCopy]
  /\ torn' = torn \cup {hand[p].entry}
  /\ Goto(p, "forget")
  /\ UNCHANGED <<conf, meant, klock, mark, tip, verbs, faults>>

-----------------------------------------------------------------------------

\* The remote gets a commit.
Push ==
  /\ tip.sha < MaxTip
  /\ \E s \in Shapes : tip' = [sha |-> tip.sha + 1, shape |-> s]
  /\ UNCHANGED <<conf, meant, hand, klock, copy, mark, torn, verbs, faults>>

\* A process dies anywhere; the operating system frees its lock.
Crash(p) ==
  /\ hand[p] # Idle
  /\ faults < MaxFaults
  /\ faults' = faults + 1
  /\ Done(p)
  /\ UNCHANGED <<conf, meant, copy, mark, torn, tip, verbs>>

Next ==
  \/ Push
  \/ \E p \in Hands :
       \/ Ask(p) \/ AskAll(p) \/ AskProvider(p) \/ Lock(p) \/ LockTimeout(p)
       \/ Read(p) \/ Commit(p) \/ CommitRefused(p)
       \/ Mirror(p) \/ Fetch(p) \/ FetchFails(p)
       \/ Missing(p) \/ TooBig(p) \/ Forget(p) \/ Fits(p)
       \/ RemoveCopy(p) \/ Crash(p)

Spec == Init /\ [][Next]_vars

-----------------------------------------------------------------------------

(***************************************************************************)
(* ConfigKeeps: config.toml says what the edits that succeeded say, each   *)
(* on its own entry, in the order they were made, however many processes   *)
(* edit it and whatever they had read of it before (edit_config).          *)
(***************************************************************************)
ConfigKeeps == conf = meant

(***************************************************************************)
(* RecordTrue: the commit kelsodb has for a repository is the one its copy *)
(* is at, for every copy no mirroring or removal left half way (mirror,    *)
(* remove): updates that resolved the name before it was removed, refusals *)
(* over the limits and failed fetches included.                            *)
(***************************************************************************)
RecordTrue ==
  \A n \in Mirrors \ torn : mark[n] # NoCopy => copy[n] = mark[n]

=============================================================================
