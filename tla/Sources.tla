------------------------------- MODULE Sources ------------------------------
(***************************************************************************)
(* Where an app comes from: the repos of config.toml and the bundles they  *)
(* carry, how a verb's argument becomes one bundle, and the source that is *)
(* recorded as the one an app's config, secrets and data were made for     *)
(* (kelso/lib/kelso.py, lifecycle/load.py, update.py, dev.py).             *)
(*                                                                         *)
(* A verb resolves its argument and checks it against the recorded source  *)
(* before it takes the app's lock; what it does then is one step, which a  *)
(* crash may cut short after any of its durable parts.  A bundle is known  *)
(* by its place: the repo that carries it, or a path of its own.           *)
(***************************************************************************)
EXTENDS Integers, Sequences, FiniteSets, Functions

CONSTANTS
    Ids,        \* app ids, which all end in one stem
    Repos,      \* names a repo may have
    PathOf,     \* PathOf[p]: the app whose bundle is at path p, outside any repo
    Procs,      \* processes
    Kelsod,     \* the one of them that takes no paths
    Nowhere,
    MaxVerbs,   \* bound: verbs
    MaxChanges, \* bound: changes of the repos
    MaxCrashes  \* bound: crashes

VARIABLES
    repos,      \* per repo the ids it carries, or Nowhere if it is not configured
    held,       \* per id, what kelso holds of it
    proc,       \* per process, the verb it resolved
    count       \* verbs, changes and crashes so far

vars == <<repos, held, proc, count>>

Stem == "stem"
Places == Repos \cup DOMAIN PathOf

(***************************************************************************)
(* Of an id: the place its loaded copy came from; whether compose.yml was  *)
(* made; the place its app volumes are linked to, if not to the copy; the  *)
(* recorded origin and binding; whose load made its secrets,               *)
(* whose containers its data; whether they run; and, as history, whether   *)
(* sources were mixed on purpose or by a load that nothing checked.         *)
(***************************************************************************)
Fresh == [copy |-> Nowhere, ready |-> FALSE, links |-> Nowhere, config |-> FALSE, origin |-> Nowhere,
          bound |-> <<>>, made |-> Nowhere, data |-> Nowhere, up |-> FALSE, mixed |-> FALSE]
Idle == [verb |-> "none"]

Init ==
    /\ repos = [r \in Repos |-> Nowhere]
    /\ held = [a \in Ids |-> Fresh]
    /\ proc = [p \in Procs |-> Idle]
    /\ count = [verbs |-> 0, changes |-> 0, crashes |-> 0]

-----------------------------------------------------------------------------
(* Resolving. *)

Carried(r, a) == repos[r] # Nowhere /\ a \in repos[r]

\* The repos that carry a.
app_catalog(a) == {r \in Repos : Carried(r, a)}

is_loaded(a) == held[a].copy # Nowhere

known_apps == {a \in Ids : app_catalog(a) # {} \/ is_loaded(a)}

\* An id, or the stem of just one.
resolve_app(query) == IF query = Stem THEN known_apps ELSE known_apps \cap {query}

bound_to(a) == IF held[a].config THEN held[a].bound ELSE <<>>

\* A target is its id, its place or Nowhere, and the source to record or <<>>.
Target(a, place, bound) == [app |-> a, place |-> place, bound |-> bound]
OfRepo(a, r) == Target(a, r, <<"repo", r>>)

\* The one of the repos that carry a that it is bound to.
bound_entry(a) == {r \in app_catalog(a) : bound_to(a) = <<"repo", r>>}

\* The set of what a name may mean: one target, or none where it is refused.
catalog_target(name, repo) ==
    UNION {LET found == app_catalog(a) IN
           IF repo # Nowhere THEN {OfRepo(a, r) : r \in found \cap {repo}}
           ELSE IF found = {} THEN (IF is_loaded(a) THEN {Target(a, Nowhere, <<>>)} ELSE {})
           ELSE {OfRepo(a, r) : r \in IF Cardinality(found) > 1 THEN bound_entry(a) ELSE found}
           : a \in {b \in resolve_app(name) : Cardinality(resolve_app(name)) = 1}}

There(a, place) ==
    IF place \in Repos THEN Carried(place, a) ELSE place \in DOMAIN PathOf /\ PathOf[place] = a

path_target(place) == {Target(a, place, <<"path", place>>) : a \in {b \in Ids : There(b, place)}}

check_binding(t, force) ==
    \/ force
    \/ bound_to(t.app) = <<>> \/ t.bound = <<>>
    \/ bound_to(t.app) = t.bound

load_target(p, arg, force) ==
    {t \in IF arg[1] = "path" THEN (IF p = Kelsod THEN {} ELSE path_target(arg[2]))
           ELSE catalog_target(arg[2], arg[3]) :
       check_binding(t, force)}

Args == {<<"path", l>> : l \in Places} \cup {<<"id", n, r>> : n \in Ids \cup {Stem}, r \in Repos \cup {Nowhere}}

\* The catalog's one bundle.
bundle_path(a) == IF Cardinality(app_catalog(a)) = 1 THEN app_catalog(a) ELSE {}

Counted(c) == count' = [count EXCEPT ![c] = @ + 1]

Resolves(p, verb, t, force) ==
    /\ count.verbs < MaxVerbs /\ Counted("verbs")
    /\ proc' = [proc EXCEPT ![p] = [verb |-> verb, target |-> t, force |-> force,
                                    was |-> <<held[t.app].bound, held[t.app].origin>>]]
    /\ UNCHANGED <<repos, held>>

\* `kelso load` looks the bundle up at once, a job when it runs; so does `kelso start`
\* of an app that is not loaded.
Resolve(p, verb, force) ==
    /\ proc[p] = Idle /\ count.verbs < MaxVerbs
    /\ \E arg \in Args : \E t \in load_target(p, arg, force) :
         /\ p # Kelsod /\ t.place = Nowhere /\ (verb = "load" \/ ~is_loaded(t.app)) => FALSE
         /\ Resolves(p, verb, t, force)

\* An update takes the place the app was loaded from.
update_source(p, a) ==
    /\ proc[p] = Idle
    /\ is_loaded(a) /\ held[a].origin # Nowhere /\ There(a, held[a].origin)
    /\ Resolves(p, "update", Target(a, held[a].origin, <<>>), FALSE)

-----------------------------------------------------------------------------
(* Loading and running, under the app's lock. *)

\* Data without the config that belongs to it.
has_volume_data(h) == h.data # Nowhere

\* A mutant of Loadable: data without config is no obstacle.
LoadableAnyway(h) == TRUE

Loadable(h) == h.config \/ ~has_volume_data(h)

\* The durable parts of a load: the copy, its origin, the binding, the secrets that
\* are not there yet, the links and compose.yml.
load(h, place, bound) ==
    LET committed == [h EXCEPT !.copy = place, !.up = FALSE]
        origin == [committed EXCEPT !.origin = place, !.config = TRUE]
        recorded == IF bound = <<>> THEN origin ELSE [origin EXCEPT !.bound = bound]
        generated == IF recorded.made = Nowhere THEN [recorded EXCEPT !.made = place]
                     ELSE recorded
    IN <<committed, origin, recorded, generated, [generated EXCEPT !.ready = TRUE, !.links = Nowhere]>>

Runs(h) == [h EXCEPT !.up = TRUE, !.data = IF @ = Nowhere THEN h.copy ELSE @]

\* The last of the steps is reached, or a crash comes before it.
Comes(a, steps) ==
    \/ held' = [held EXCEPT ![a] = steps[Len(steps)]] /\ UNCHANGED count
    \/ /\ count.crashes < MaxCrashes /\ Counted("crashes")
       /\ \E i \in 1..(Len(steps) - 1) : held' = [held EXCEPT ![a] = steps[i]]

Ends(p) == proc' = [proc EXCEPT ![p] = Idle] /\ UNCHANGED repos

\* The check came too early, as what was recorded is no longer what the verb resolved
\* against or its bundle was looked up only now; or an update makes up for a load that
\* was cut short before it recorded its source, and records none either.
Unchecked(p) ==
    LET t == proc[p].target
        h == held[t.app]
    IN \/ t.place = Nowhere
       \/ proc[p].was # <<h.bound, h.origin>>
       \/ t.bound = <<>> /\ h.bound = <<>>

\* The verb's load, from where its target is or else the catalog's bundle, and what
\* it runs then.
LoadsFrom(p, places, starts) ==
    LET t == proc[p].target
        h == [held[t.app] EXCEPT !.mixed = @ \/ proc[p].force \/ Unchecked(p)]
    IN \E place \in IF t.place # Nowhere THEN {t.place} ELSE places :
         /\ There(t.app, place) /\ Loadable(h)
         /\ LET steps == load(h, place, t.bound)
                ran == IF starts THEN <<Runs(steps[Len(steps)])>> ELSE <<>>
            IN Comes(t.app, <<held[t.app]>> \o steps \o ran)

Reload(p) ==
    /\ proc[p].verb \in {"load", "update"}
    /\ LET a == proc[p].target.app IN LoadsFrom(p, bundle_path(a), held[a].up)
    /\ Ends(p)

\* Of an app that is loaded it runs the copy.
Start(p) ==
    /\ proc[p].verb = "start"
    /\ LET a == proc[p].target.app IN
       IF is_loaded(a)
       THEN held[a].ready /\ Comes(a, <<Runs(held[a])>>)
       ELSE LoadsFrom(p, IF p = Kelsod THEN bundle_path(a) ELSE {}, TRUE)
    /\ Ends(p)

\* Refused under the lock, or by a bundle that is gone or does not load.
Refused(p) == proc[p] # Idle /\ Ends(p) /\ UNCHANGED <<held, count>>

\* `kelso dev` of a path; everything else of it is under the lock.
AsksDev(p, a, place) ==
    /\ proc[p] = Idle /\ p # Kelsod /\ There(a, place)
    /\ Resolves(p, "dev", Target(a, place, <<"path", place>>), FALSE)

\* Config and data of another bundle are not for this one.
refuse_other_origin(h, place) == h.config => h.origin \in {Nowhere, place}

\* The app volumes show the source bundle while it runs.
source_volume_links(h, place) == [h EXCEPT !.links = place]

\* Best effort: containers may be left behind, while the links go back.
compose_down(h) == {[h EXCEPT !.up = FALSE, !.links = Nowhere], [h EXCEPT !.links = Nowhere]}

\* Loaded, an app runs unless something blocks its start.
dev_plan(h, place) == {h, Runs(source_volume_links(h, place))}

\* The app is loaded, keeping the source it is bound to, and run in the foreground
\* from its bundle, until that ends or is killed.
dev(p) ==
    LET t == proc[p].target
        h == held[t.app]
        bound == IF bound_to(t.app) = <<>> THEN t.bound ELSE <<>>
        steps == load(h, t.place, bound)
        linked == source_volume_links(steps[Len(steps)], t.place)
    IN  /\ proc[p].verb = "dev"
        /\ There(t.app, t.place) /\ ~h.up /\ Loadable(h) /\ refuse_other_origin(h, t.place)
        /\ \E plan \in dev_plan(steps[Len(steps)], t.place) :
             IF plan.up
             THEN \E end \in compose_down(plan) :
                    Comes(t.app, <<h>> \o steps \o <<linked, plan, end>>)
             ELSE Comes(t.app, <<h>> \o steps)
        /\ Ends(p)

\* Unloading leaves config and data; a purge takes the copy, the config and the data,
\* in that order; "data" the data alone.
Removal(h, mode) ==
    LET unloaded == [h EXCEPT !.copy = Nowhere, !.ready = FALSE, !.links = Nowhere, !.up = FALSE]
    IN CASE mode = "unload" -> <<h, unloaded>>
         [] mode = "data"   -> <<h, [h EXCEPT !.data = Nowhere]>>
         [] OTHER -> <<h, unloaded, [Fresh EXCEPT !.data = h.data, !.mixed = h.mixed], Fresh>>

rm(p, a, mode) ==
    /\ proc[p] = Idle /\ held[a] # Fresh
    /\ mode # "unload" => ~held[a].up
    /\ mode = "unload" => is_loaded(a)
    /\ Comes(a, Removal(held[a], mode))
    /\ UNCHANGED <<repos, proc>>

-----------------------------------------------------------------------------
(* The repos. *)

\* A repo is added, dropped, or carries something else.
RepoChanges(r, ids) ==
    /\ count.changes < MaxChanges /\ Counted("changes")
    /\ repos[r] # ids /\ repos' = [repos EXCEPT ![r] = ids]
    /\ UNCHANGED <<held, proc>>

\* An entry of config.toml that does not resolve: no repo counts until it is mended.
ReposIgnored ==
    /\ count.changes < MaxChanges /\ Counted("changes")
    /\ repos' = [r \in Repos |-> Nowhere]
    /\ UNCHANGED <<held, proc>>

-----------------------------------------------------------------------------

Next ==
    \/ \E p \in Procs :
         \/ \E verb \in {"load", "start"}, force \in BOOLEAN : Resolve(p, verb, force)
         \/ \E a \in Ids :
              \/ update_source(p, a)
              \/ \E place \in Places : AsksDev(p, a, place)
              \/ \E mode \in {"unload", "data", "purge"} : rm(p, a, mode)
         \/ Reload(p) \/ Start(p) \/ dev(p) \/ Refused(p)
    \/ \E r \in Repos, ids \in {Nowhere} \cup SUBSET Ids : RepoChanges(r, ids)
    \/ ReposIgnored

Spec == Init /\ [][Next]_vars

-----------------------------------------------------------------------------

\* An app never runs with secrets, over data or from files of another source's
\* bundle than its own, whatever repos come, go and carry the same id, and wherever a load, a removal or
\* a dev run was cut short -- unless it was forced, or loaded by a verb whose check came too
\* early or that recorded no source at all (load._check_binding, load.load).
SourceKept ==
    \A a \in Ids : held[a].up /\ ~held[a].mixed =>
        /\ held[a].made = held[a].copy /\ held[a].data = held[a].copy
        /\ held[a].links \in {Nowhere, held[a].copy}
=============================================================================
