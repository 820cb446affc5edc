------------------------------- MODULE Routes -------------------------------
(***************************************************************************)
(* The routes of apps, in the four places that hold them: what the         *)
(* operator asked for (an app's config), what kelsodb records (subdomain,  *)
(* host port and providers of each route, as the last load derived them),  *)
(* what compose.yml publishes, and what stands at the route providers.     *)
(*                                                                         *)
(* Every verb that touches them holds the kelso lock from end to end, so   *)
(* one is under way at a time.  What makes it hard is that a verb may be   *)
(* cut short at any step and that providers fail half way.  People change  *)
(* a provider by hand too, but not in the middle of a verb.                *)
(***************************************************************************)
EXTENDS Integers, FiniteSets, SequencesExt

CONSTANTS
    Apps,            \* app ids
    Tags,            \* tags of the route providers in config.toml
    Labels,          \* subdomains an app may be given, as sequences of dashed parts
    DefaultLabel,    \* DefaultLabel[a]: the default of a's subdomain option
    Default,         \* default_route_provider, as a sequence of at most one tag
    Assignments,     \* the provider lists a route may be given
    PortBase,        \* port_base
    PortRangeSize,   \* PORT_RANGE_SIZE
    None,            \* what is not there
    Outsider,        \* the owner of what kelso did not make
    Manual,          \* AppID("manual"), the owner of what `kelso route add` made
    Scenes           \* what may be asked for and go wrong in a behaviour

RouteNames == {"main", "api"}
Kinds      == {"npm", "pangolin", "cloudflare", "noop"}
Verbs      == {"load", "start", "stop", "unload", "rm", "purge", "restore", "config",
               "backup", "cleanup"}

NoPort    == 0       \* at a provider: a name that leads nowhere
Elsewhere == 1       \* at a provider: a port that is none of an app's
Subdomains == Labels \cup {<<r>> \o l : r \in RouteNames \ {"main"}, l \in Labels}

(***************************************************************************)
(* A manifest is its routes, in order; a port of 0 asks for an allocation. *)
(* A scene names the kind of each provider, the apps, the bundles a load   *)
(* may find, the verbs, and how often a call fails, a process is killed,   *)
(* a provider is changed by hand and the operator changes a config.        *)
(***************************************************************************)
RouteSpecs == [name : RouteNames, port : Nat, private : BOOLEAN]
SceneSet == [kind : [Tags -> Kinds], apps : SUBSET Apps,
             manifests : SUBSET Seq(RouteSpecs), verbs : SUBSET Verbs,
             faults : Nat, crashes : Nat, hands : Nat, configs : Nat]

ASSUME ConstantsAssumption ==
    /\ PortBase \in Nat /\ PortBase > Elsewhere /\ PortRangeSize \in Nat
    /\ DefaultLabel \in [Apps -> Labels]
    /\ Default \in Assignments /\ Assignments \subseteq Seq(Tags)
    /\ {None, Outsider, Manual} \cap Apps = {}
    /\ Cardinality({None, Outsider, Manual}) = 3
    /\ \A s \in Scenes :
          /\ DOMAIN s = {"kind", "apps", "manifests", "verbs", "faults", "crashes",
                         "hands", "configs"}
          /\ s.kind \in [Tags -> Kinds] /\ s.apps \subseteq Apps /\ s.verbs \subseteq Verbs
          /\ s.manifests \subseteq Seq(RouteSpecs) /\ None \notin s.manifests

VARIABLES
    scene,     \* the scene
    conf,      \* an app's logtab: subdomain, assignments, and whether they are pending
    run,       \* the routes of an app's loaded copy, or None
    compose,   \* what its compose.yml publishes: a set of <<route, port>>, or None
    up,        \* the host ports its containers hold, or None
    saved,     \* a backup of it, conf and run, or None
    carried,   \* whether a repo carries it
    db,        \* kelsodb: a sequence of route records for each app
    at,        \* at[t][s]: what stands at provider t for subdomain s
    job,       \* the verb under way
    torn,      \* history: apps whose copy or records may be newer than compose.yml
    missed,    \* history: <<t, s>> that kelso failed to unpublish, as it logged
    left       \* how many failures, crashes, ... of the scene are left

vars == <<scene, conf, run, compose, up, saved, carried, db, at, job, torn, missed, left>>
disk == <<conf, run, compose, up, saved, carried>>

NoConf == [label |-> None, assign |-> [r \in RouteNames |-> None], pending |-> FALSE]
Absent == [port |-> NoPort, owner |-> None]
Idle   == [verb |-> "none", app |-> None, pc |-> "idle", todo |-> <<>>, loads |-> FALSE]

Init ==
    /\ scene \in Scenes
    /\ conf = [a \in Apps |-> NoConf]
    /\ run = [a \in Apps |-> None]
    /\ compose = [a \in Apps |-> None]
    /\ up = [a \in Apps |-> None]
    /\ saved = [a \in Apps |-> None]
    /\ carried = [a \in Apps |-> TRUE]
    /\ db = [a \in Apps |-> <<>>]
    /\ at = [t \in Tags |-> [s \in Subdomains |-> Absent]]
    /\ job = Idle
    /\ torn = {} /\ missed = {}
    /\ left = [faults |-> scene.faults, crashes |-> scene.crashes,
               hands |-> scene.hands, configs |-> scene.configs]
-----------------------------------------------------------------------------
(***************************************************************************)
(* Operators                                                               *)
(***************************************************************************)
\* AppRoute.subdomain: the route named main has the app's own.
subdomain(r, l) == IF r = "main" THEN l ELSE <<r>> \o l

names(m) == {m[i].name : i \in DOMAIN m}

\* KelsoStore.next_free_port looks at the records of all apps.
occupied == {r.port : r \in UNION {ToSet(db[a]) : a \in Apps}}
\* A mutant of free_ports: only the other apps' records are looked at.
FreeOfOthers == {p \in PortBase..(PortBase + PortRangeSize) :
                   \A a \in Apps \ {job.app} : \A r \in ToSet(db[a]) : r.port # p}
\* The while loop tries every port from the base to max_port, which it includes.
free_ports == {p \in PortBase..(PortBase + PortRangeSize) : p \notin occupied}

\* assigned_routes and unregister_app_routes: one entry per route and provider.
Entry(r, t) == [tag |-> t, sub |-> r.sub, port |-> r.port]
published(rs) == UNION {{Entry(r, t) : t \in ToSet(r.at)} : r \in rs}

\* The two go through the records of an app in order, and through the providers of
\* each: what is next of those todo, and what is left then.
next(todo) == Entry(Head(todo), Head(Head(todo).at))
rest(todo) == [todo EXCEPT ![1].at = Tail(@)]

\* load_run_data passes over what kelsodb holds and the manifest does not.
run_routes(a) == {r \in ToSet(db[a]) : r.name \in names(run[a])}

\* make_compose_dict publishes the ports of these.
Ports(a) == {<<r.name, r.port>> : r \in run_routes(a)}

(***************************************************************************)
(* The providers.  NPM keeps port and owner in one proxy host; Pangolin    *)
(* makes a resource that names its owner and then gives it a target;       *)
(* Cloudflare has an ingress rule and a DNS record, which names the owner. *)
(***************************************************************************)
\* Whether route_owners and the finders know a name.
listed(t, s) ==
    CASE scene.kind[t] = "cloudflare" -> at[t][s].port # NoPort
      [] scene.kind[t] = "noop"       -> FALSE
      [] OTHER                        -> at[t][s] # Absent

\* register_route refuses what exists and is somebody else's.
foreign(t, s, a) == at[t][s].owner \notin {a, None}

\* What register_route leaves, and what it may leave when a call of it fails: all it
\* did, when only the answer is lost or Pangolin's policy, which comes last, refused.
Registered(t, e, a, p) == IF scene.kind[t] = "noop" THEN e ELSE [port |-> p, owner |-> a]
HalfRegistered(t, e, a, p) ==
    {e, Registered(t, e, a, p)} \cup
          CASE scene.kind[t] = "pangolin"   -> {[port |-> NoPort, owner |-> a]}
            [] scene.kind[t] = "cloudflare" -> {[e EXCEPT !.port = p]}
            [] OTHER                        -> {}

\* Cloudflare's unregister_route leaves a DNS record alone that is not kelso's.
Unregistered(t, e) ==
    IF scene.kind[t] = "cloudflare" /\ e.owner = Outsider
    THEN [e EXCEPT !.port = NoPort] ELSE Absent
HalfUnregistered(t, e) ==
    {e, Unregistered(t, e)} \cup
          IF scene.kind[t] = "cloudflare" THEN {[e EXCEPT !.port = NoPort]} ELSE {}

Put(t, s, e) == at' = [at EXCEPT ![t][s] = e]
-----------------------------------------------------------------------------
(***************************************************************************)
(* Steps of the verb under way.  Go moves it on; Done ends it, whether it  *)
(* succeeded or raised.                                                    *)
(***************************************************************************)
At(pc)    == job.pc = pc
Go(pc)    == job' = [job EXCEPT !.pc = pc, !.todo = <<>>]
GoDo(pc, todo) == job' = [job EXCEPT !.pc = pc, !.todo = todo]
Done      == job' = Idle
Fault     == left.faults > 0 /\ left' = [left EXCEPT !.faults = @ - 1]
NoFault   == UNCHANGED left

Ask(verb, a) == At("idle") /\ verb \in scene.verbs /\ a \in scene.apps
Begin(verb, a, pc, todo, loads) ==
    job' = [verb |-> verb, app |-> a, pc |-> pc, todo |-> todo, loads |-> loads]

\* load: the new copy is in place before anything is taken down.
Load(verb, a, m) ==
    /\ carried[a] /\ up[a] = None
    /\ run' = [run EXCEPT ![a] = m]
    /\ IF run[a] # None THEN Begin(verb, a, "takeDown", db[a], TRUE)
       ELSE Begin(verb, a, "default", <<>>, TRUE)
    /\ torn' = torn \cup {a}
    /\ UNCHANGED <<scene, conf, compose, up, saved, carried, db, at, missed, left>>

AskLoad == \E a \in scene.apps, m \in scene.manifests : Ask("load", a) /\ Load("load", a, m)

\* start loads what is not loaded, and derives the routes again if they are pending.
AskStart == \E a \in scene.apps :
    /\ Ask("start", a)
    /\ \/ run[a] = None /\ \E m \in scene.manifests : Load("start", a, m)
       \/ /\ run[a] # None
          /\ IF conf[a].pending THEN Begin("start", a, "takeDown", db[a], FALSE)
             ELSE Begin("start", a, "preflight", <<>>, FALSE)
          /\ UNCHANGED <<scene, disk, db, at, torn, missed, left>>

AskStop == \E a \in scene.apps :
    /\ Ask("stop", a) /\ compose[a] # None
    /\ up' = [up EXCEPT ![a] = None]
    /\ UNCHANGED <<scene, conf, run, compose, saved, carried, db, at, job, torn, missed, left>>

\* rm: unload stops a running app, the others refuse one.
AskRemove == \E a \in scene.apps, verb \in {"unload", "rm", "purge"} :
    /\ Ask(verb, a)
    /\ up[a] # None => verb = "unload" /\ compose[a] # None
    /\ up' = [up EXCEPT ![a] = None]
    /\ Begin(verb, a, "takeDown", db[a], FALSE)
    /\ UNCHANGED <<scene, conf, run, compose, saved, carried, db, at, torn, missed, left>>

AskRestore == \E a \in scene.apps :
    /\ Ask("restore", a) /\ up[a] = None /\ saved[a] # None
    /\ Begin("restore", a, "replaceConf", <<>>, FALSE)
    /\ UNCHANGED <<scene, disk, db, at, torn, missed, left>>

\* What a walk through the records is done with, or has nothing to do for: no provider
\* is left, or the manifest does not have the route that is to be published.
passed(j) == LET r == Head(j.todo) IN
    r.at = <<>> \/ (j.pc = "register" /\ r.name \notin names(run[j.app]))
Pass ==
    /\ At("takeDown") \/ At("register")
    /\ job.todo # <<>> /\ passed(job)
    /\ job' = [job EXCEPT !.todo = Tail(@)]
    /\ UNCHANGED <<scene, disk, db, at, torn, missed, left>>

(***************************************************************************)
(* unregister_app_routes, one recorded route at a time: what the provider  *)
(* does not have, or has for somebody else, is left alone.  A provider     *)
(* that cannot be made or asked ends it, one that will not delete does     *)
(* not; take_down_routes lets neither stop the verb.                       *)
(***************************************************************************)
\* A mutant of mine: whoever it belongs to.
MineOrNot(t, s) == listed(t, s)
mine(t, s) == listed(t, s) /\ at[t][s].owner = job.app

TakeDown ==
    /\ At("takeDown") /\ job.todo # <<>> /\ ~passed(job)
    /\ LET x == next(job.todo)
           on == job' = [job EXCEPT !.todo = rest(@)]
       IN  \/ /\ IF mine(x.tag, x.sub)
                 THEN /\ Put(x.tag, x.sub, Unregistered(x.tag, at[x.tag][x.sub]))
                      /\ missed' = missed \ {<<x.tag, x.sub>>}
                 ELSE UNCHANGED <<at, missed>>
              /\ on /\ NoFault
           \/ /\ mine(x.tag, x.sub) /\ Fault
              /\ \E e \in HalfUnregistered(x.tag, at[x.tag][x.sub]) : Put(x.tag, x.sub, e)
              /\ on /\ missed' = missed \cup {<<x.tag, x.sub>>}
           \/ /\ Fault /\ job' = [job EXCEPT !.todo = <<>>] /\ UNCHANGED at
              /\ missed' = missed \cup {<<y.tag, y.sub>> : y \in published(ToSet(job.todo))}
    /\ UNCHANGED <<scene, disk, db, torn>>

\* A mutant of TakenDown: a load goes on to the records while routes still stand.
TakenDownEarly ==
    /\ At("takeDown")
    /\ Go(IF job.verb \in {"unload", "rm", "purge"} THEN "removeRun"
          ELSE IF job.loads THEN "default" ELSE "clear")
    /\ UNCHANGED <<scene, disk, db, at, torn, missed, left>>
TakenDown ==
    /\ At("takeDown") /\ job.todo = <<>>
    /\ Go(IF job.verb \in {"unload", "rm", "purge"} THEN "removeRun"
          ELSE IF job.loads THEN "default" ELSE "clear")
    /\ UNCHANGED <<scene, disk, db, at, torn, missed, left>>

\* _generate_missing_config and _apply_default_route_assignments.
Defaulted(c, a, m) ==
    LET unset == {r \in ToSet(m) : c.assign[r.name] = None /\ ~r.private}
    IN  [label |-> IF c.label = None THEN DefaultLabel[a] ELSE c.label,
         assign |-> [r \in RouteNames |->
             IF r \in {x.name : x \in unset} THEN Default ELSE c.assign[r]],
         pending |-> c.pending \/ c.label = None \/ unset # {}]
ApplyDefaults ==
    /\ At("default")
    /\ conf' = [conf EXCEPT ![job.app] = Defaulted(@, job.app, run[job.app])]
    /\ Go("clear")
    /\ UNCHANGED <<scene, run, compose, up, saved, carried, db, at, torn, missed, left>>

\* _clear_and_reallocate_ports returns early for a manifest without routes, as one
\* of an app on the host's network is; a subdomain there is always, by default.
Clear == LET a == job.app IN
    /\ At("clear")
    /\ IF run[a] = <<>> THEN Go("write") /\ UNCHANGED <<db, torn>>
       ELSE /\ db' = [db EXCEPT ![a] = <<>>]
            /\ torn' = torn \cup {a}
            /\ GoDo("allocate", run[a])
    /\ UNCHANGED <<scene, disk, at, missed, left>>

Derived(r, l, c, port) ==
    [name |-> r.name, sub |-> subdomain(r.name, l), port |-> port,
     at |-> IF c.assign[r.name] = None THEN <<>> ELSE c.assign[r.name]]

\* A pinned port is claimed as it is, a free one looked for; with none left it raises.
Allocate == LET a == job.app IN
    /\ At("allocate")
    /\ IF job.todo = <<>> THEN Go("write") /\ UNCHANGED db
       ELSE LET r == Head(job.todo)
                l == IF conf[a].label = None THEN DefaultLabel[a] ELSE conf[a].label
                keep(port) == /\ db' = [db EXCEPT ![a] = Append(@, Derived(r, l, conf[a], port))]
                              /\ job' = [job EXCEPT !.todo = Tail(@)]
            IN  IF r.port # 0 THEN keep(r.port)
                ELSE IF free_ports = {} THEN Done /\ UNCHANGED db
                ELSE \E port \in free_ports :
                         (\A p \in free_ports : port <= p) /\ keep(port)
    /\ UNCHANGED <<scene, disk, at, torn, missed, left>>

\* A mutant of Write: a compose.yml that is there is not written again.
WriteOnce == LET a == job.app IN
    /\ At("write") /\ NoFault
    /\ compose' = [compose EXCEPT ![a] = IF @ = None THEN Ports(a) ELSE @]
    /\ torn' = torn \ {a}
    /\ IF job.loads THEN Go("loaded")
       ELSE IF job.verb = "start" THEN Go("preflight") ELSE Done
    /\ UNCHANGED <<scene, conf, run, up, saved, carried, db, at, missed>>
\* materialize: a load blocker raises when the routes are derived and compose.yml not.
Write == LET a == job.app IN
    /\ At("write")
    /\ \/ /\ NoFault
          /\ compose' = [compose EXCEPT ![a] = Ports(a)]
          /\ torn' = torn \ {a}
          /\ IF job.loads THEN Go("loaded")
             ELSE IF job.verb = "start" THEN Go("preflight") ELSE Done
       \/ Fault /\ Done /\ UNCHANGED <<compose, torn>>
    /\ UNCHANGED <<scene, conf, run, up, saved, carried, db, at, missed>>

\* loaded_at and started_at: what was on file is applied.
Applied(pc) ==
    /\ At(pc)
    /\ conf' = [conf EXCEPT ![job.app].pending = FALSE]
    /\ IF pc = "loaded" /\ job.verb = "start" THEN Go("preflight") ELSE Done
    /\ UNCHANGED <<scene, run, compose, up, saved, carried, db, at, torn, missed, left>>
Loaded  == Applied("loaded")
Started == Applied("started")

\* preflight_app_routes refuses names that are there and not this app's.
refused(a) == \E x \in published(run_routes(a)) :
    listed(x.tag, x.sub) /\ at[x.tag][x.sub].owner # a
Preflight == LET a == job.app IN
    /\ At("preflight")
    /\ \/ NoFault /\ IF compose[a] = None \/ refused(a) THEN Done ELSE Go("composeUp")
       \/ Fault /\ Done
    /\ UNCHANGED <<scene, disk, db, at, torn, missed>>

\* compose up -d; docker refuses a port that another app's containers hold.  One
\* that fails may have started the app's containers.
ComposeUp == LET a == job.app
                 ports == {x[2] : x \in compose[a]}
                 held == UNION {up[b] : b \in {c \in Apps \ {a} : up[c] # None}}
                 started == IF ports \cap held = {} THEN [up EXCEPT ![a] = ports] ELSE up IN
    /\ At("composeUp")
    /\ \/ /\ NoFault /\ up' = started
          /\ IF ports \cap held # {} THEN Done ELSE GoDo("register", db[a])
       \/ Fault /\ Done /\ up' \in {up, started}
    /\ UNCHANGED <<scene, conf, run, compose, saved, carried, db, at, torn, missed>>

\* register_app_routes: the first failure ends the start, containers running.
Register ==
    /\ At("register")
    /\ IF job.todo = <<>> THEN Go("started") /\ NoFault /\ UNCHANGED <<at, missed>>
       ELSE LET x == next(job.todo) e == at[x.tag][x.sub] IN
            /\ ~passed(job)
            /\ \/ /\ NoFault
                  /\ IF foreign(x.tag, x.sub, job.app) THEN Done /\ UNCHANGED <<at, missed>>
                     ELSE /\ Put(x.tag, x.sub, Registered(x.tag, e, job.app, x.port))
                          /\ job' = [job EXCEPT !.todo = rest(@)]
                          /\ missed' = missed \ {<<x.tag, x.sub>>}
               \/ /\ Fault /\ Done /\ ~foreign(x.tag, x.sub, job.app) /\ UNCHANGED missed
                  /\ \E h \in HalfRegistered(x.tag, e, job.app, x.port) : Put(x.tag, x.sub, h)
    /\ UNCHANGED <<scene, disk, db, torn>>

\* rm: the loaded copy; and for a purge the config, then kelsodb's records.
RemoveRun == LET a == job.app IN
    /\ At("removeRun")
    /\ run' = [run EXCEPT ![a] = None]
    /\ compose' = [compose EXCEPT ![a] = None]
    /\ IF job.verb = "purge" THEN Go("removeConf") ELSE Done
    /\ UNCHANGED <<scene, conf, up, saved, carried, db, at, torn, missed, left>>
RemoveConf ==
    /\ At("removeConf")
    /\ conf' = [conf EXCEPT ![job.app] = NoConf]
    /\ Go("purgeDb")
    /\ UNCHANGED <<scene, run, compose, up, saved, carried, db, at, torn, missed, left>>
PurgeDb ==
    /\ At("purgeDb")
    /\ db' = [db EXCEPT ![job.app] = <<>>]
    /\ Done
    /\ UNCHANGED <<scene, disk, at, torn, missed, left>>

\* _restore_from: config, then the loaded copy, then what is derived from both.
ReplaceConf == LET a == job.app IN
    /\ At("replaceConf")
    /\ conf' = [conf EXCEPT ![a] = saved[a].conf]
    /\ Go("replaceRun")
    /\ UNCHANGED <<scene, run, compose, up, saved, carried, db, at, torn, missed, left>>
ReplaceRun == LET a == job.app IN
    /\ At("replaceRun")
    /\ run' = [run EXCEPT ![a] = saved[a].run]
    /\ compose' = [compose EXCEPT ![a] = None]
    /\ IF saved[a].run = None THEN Done ELSE Go("clear")
    /\ UNCHANGED <<scene, conf, up, saved, carried, db, at, torn, missed, left>>
-----------------------------------------------------------------------------
(***************************************************************************)
(* Verbs of one step, and what happens between verbs                       *)
(***************************************************************************)
\* apply_config_sets and assign_route, which also writes compose.yml anew.
Configure == \E a \in scene.apps :
    /\ Ask("config", a) /\ left.configs > 0 /\ (run[a] # None \/ carried[a])
    /\ left' = [left EXCEPT !.configs = @ - 1]
    /\ \/ \E l \in Labels \ {conf[a].label} :
             /\ conf' = [conf EXCEPT ![a].label = l, ![a].pending = TRUE]
             /\ UNCHANGED compose
       \/ \E m \in IF run[a] = None THEN scene.manifests ELSE {run[a]} :
          \E r \in names(m), g \in Assignments :
             /\ g # conf[a].assign[r]
             /\ conf' = [conf EXCEPT ![a].assign[r] = g, ![a].pending = TRUE]
             /\ compose' = IF run[a] = None THEN compose
                           ELSE [compose EXCEPT ![a] = Ports(a)]
    /\ UNCHANGED <<scene, run, up, saved, carried, db, at, job, torn, missed>>

\* A backup keeps the config and the loaded copy, not kelsodb's routes of the app.
Backup == \E a \in scene.apps :
    /\ Ask("backup", a) /\ conf[a] # NoConf
    /\ saved' = [saved EXCEPT ![a] = [conf |-> conf[a], run |-> run[a]]]
    /\ UNCHANGED <<scene, conf, run, compose, up, carried, db, at, job, torn, missed, left>>

\* cleanup releases the routes of an app that nothing is left of.
orphaned_routes(a) == db[a] # <<>> /\ ~carried[a] /\ run[a] = None /\ up[a] = None
Cleanup == \E a \in scene.apps :
    /\ Ask("cleanup", a) /\ orphaned_routes(a)
    /\ db' = [db EXCEPT ![a] = <<>>]
    /\ UNCHANGED <<scene, disk, at, job, torn, missed, left>>
Dropped == \E a \in scene.apps :
    /\ Ask("cleanup", a) /\ carried[a]
    /\ carried' = [carried EXCEPT ![a] = FALSE]
    /\ UNCHANGED <<scene, conf, run, compose, up, saved, db, at, job, torn, missed, left>>

\* A provider changed in its own dashboard.
ByHand(t, s) ==
    \/ at[t][s] = Absent /\ Put(t, s, [port |-> Elsewhere, owner |-> Outsider])
    \/ at[t][s] # Absent /\ Put(t, s, Absent)
\* `kelso route add`, `kelso route remove` and DELETE on kelsod's published routes.
RouteAdd(t, s)    == ~foreign(t, s, Manual) /\ Put(t, s, Registered(t, at[t][s], Manual, Elsewhere))
RouteRemove(t, s) == Put(t, s, Unregistered(t, at[t][s]))
remove_published_route(t, s) ==
    listed(t, s) /\ at[t][s].owner \in Apps \cup {Manual} /\ RouteRemove(t, s)
Hands == \E t \in Tags, s \in Subdomains :
    /\ At("idle") /\ left.hands > 0 /\ scene.kind[t] # "noop"
    /\ left' = [left EXCEPT !.hands = @ - 1]
    /\ ByHand(t, s) \/ RouteAdd(t, s) \/ RouteRemove(t, s) \/ remove_published_route(t, s)
    /\ UNCHANGED <<scene, disk, db, job, torn, missed>>

Crash ==
    /\ ~At("idle") /\ left.crashes > 0
    /\ left' = [left EXCEPT !.crashes = @ - 1]
    /\ Done
    /\ UNCHANGED <<scene, disk, db, at, torn, missed>>

Next ==
    \/ AskLoad \/ AskStart \/ AskStop \/ AskRemove \/ AskRestore
    \/ Pass \/ TakeDown \/ TakenDown \/ ApplyDefaults \/ Clear \/ Allocate \/ Write \/ Loaded
    \/ Preflight \/ ComposeUp \/ Register \/ Started
    \/ RemoveRun \/ RemoveConf \/ PurgeDb \/ ReplaceConf \/ ReplaceRun
    \/ Configure \/ Backup \/ Cleanup \/ Dropped \/ Hands \/ Crash

Spec == Init /\ [][Next]_vars
-----------------------------------------------------------------------------
(***************************************************************************)
(* Properties                                                              *)
(***************************************************************************)
Records == [name : RouteNames, sub : Subdomains, port : Nat, at : Assignments]
Confs   == [label : Labels \cup {None}, pending : BOOLEAN,
            assign : [RouteNames -> Assignments \cup {None}]]
Owners  == Apps \cup {None, Outsider, Manual}

\* The values the variables take.
TypeOK ==
    /\ conf \in [Apps -> Confs]
    /\ \A a \in Apps : run[a] = None \/ run[a] \in scene.manifests
    /\ \A a \in Apps : compose[a] # None => compose[a] \subseteq RouteNames \X Nat
    /\ \A a \in Apps : up[a] # None => up[a] \subseteq Nat
    /\ \A a \in Apps : ToSet(db[a]) \subseteq Records
    /\ \A t \in Tags, s \in Subdomains : at[t][s] \in [port : Nat, owner : Owners]
    /\ job.verb \in Verbs \cup {"none"} /\ job.app \in Apps \cup {None}
    /\ torn \subseteq Apps /\ missed \subseteq Tags \X Subdomains

Pins == {r.port : r \in UNION {ToSet(m) : m \in scene.manifests}} \ {0}

\* No host port is on record for two routes, of one app or of two, except one that a
\* manifest pins, however loads, purges and crashes follow each other
\* (_clear_and_reallocate_ports, KelsoStore.next_free_port).
PortsApart ==
    \A a, b \in Apps : \A i \in DOMAIN db[a], j \in DOMAIN db[b] :
        (<<a, i>> # <<b, j>> /\ db[a][i].port = db[b][j].port) => db[a][i].port \in Pins

live(t, s, a) == at[t][s].owner = a /\ at[t][s].port # NoPort /\ <<t, s>> \notin missed

\* Whatever stands at a provider for an app and leads somewhere is on record in kelsodb
\* with that provider and port, so that a reload or a removal unpublishes it before its
\* port is given to another, even if a verb is cut short; what kelso logged it could not
\* unpublish excepted, and the middle of a restore, which derives the records again while
\* routes stand (load, start and rm take routes down before they touch the records).
LiveTracked ==
    job.verb # "restore" => \A t \in Tags, s \in Subdomains, a \in Apps :
        live(t, s, a) => \E r \in ToSet(db[a]) :
            r.sub = s /\ t \in ToSet(r.at) /\ r.port = at[t][s].port

\* Between verbs, whatever stands at a provider for an app is on record: AssignedRoute says
\* the record is "what start publishes to and what a reload or removal unpublishes from,
\* whatever the assignment says now".
StaysTracked == At("idle") => LiveTracked

\* Between verbs, the routes of a running app lead to ports its own containers hold, if
\* no derivation of them was cut short (start, materialize, register_app_routes).
RoutesReach ==
    At("idle") => \A t \in Tags, s \in Subdomains, a \in Apps :
        (up[a] # None /\ a \notin torn /\ live(t, s, a)) => at[t][s].port \in up[a]

\* The same though a derivation was cut short: "so a start applies everything", says start.
StartApplies ==
    At("idle") => \A t \in Tags, s \in Subdomains, a \in Apps :
        (up[a] # None /\ live(t, s, a)) => at[t][s].port \in up[a]

\* A verb changes nothing at a provider but what is its app's or nobody's: not another
\* app's, not what `kelso route add` or a person made, not a rule whose owner is unknown
\* (preflight_app_routes, register_route, unregister_app_routes).
OwnersKept ==
    [][\A t \in Tags, s \in Subdomains :
         (~At("idle") /\ at'[t][s] # at[t][s])
            => at[t][s].owner = job.app \/ at[t][s] = Absent]_vars
=============================================================================
