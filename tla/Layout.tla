------------------------------- MODULE Layout -------------------------------
(***************************************************************************)
(* From a manifest to what docker is handed: kelso/lib/manifest.py,        *)
(* spec.py, run_layout.py, connections.py, options.py and the halves of    *)
(* lifecycle/load.py and lifecycle/run.py that derive and use compose.yml. *)
(*                                                                         *)
(* One app.  A load copies the bundle into the run dir and derives from it *)
(* the app's routes, volume links, command folders and compose.yml; a      *)
(* start derives again only what changed since and hands compose.yml to    *)
(* docker.  In between the operator edits the app's config, and disks,     *)
(* shares and sockets of the host come and go.  The app lock is held by    *)
(* every verb, so verbs do not overlap; a load or a start may end, by a    *)
(* failure or with its process, after any of its durable steps.  Which     *)
(* port is free and who publishes a route is Routes's.                     *)
(*                                                                         *)
(* A reference ${...} is the sequence of its dotted parts, a guest path is *)
(* "free" or lies in "kelso"'s own folder, a schedule and its arguments    *)
(* parse or not.                                                           *)
(***************************************************************************)
EXTENDS Integers, Sequences, FiniteSets, Functions

CONSTANTS
    manifest,   \* per bundle an operator may load its manifest, with the files beside it
    HostTags,   \* host volumes config.toml may have
    RouteTags,  \* the route providers it has
    DefaultProviders, \* what its default_route_provider assigns
    Vanishing,  \* what may go away and come back: volume roots, connections, shares
    Unset,
    MaxActs,    \* bound: verbs
    MaxTurns    \* bound: changes of the machine

VARIABLES
    app,     \* what kelso holds of the app: run dir, app store, its routes in kelsodb
    host,    \* what the machine has
    up,      \* its containers run
    handed,  \* compose.yml was handed to docker by the last step
    acts, turns

vars == <<app, host, up, handed, acts, turns>>

\* That there is no bundle is not one.
LayoutAssumption == Unset \notin DOMAIN manifest

\* g but for what f has, and f but for n.
Over(f, g) == [x \in DOMAIN f \cup DOMAIN g |-> IF x \in DOMAIN f THEN f[x] ELSE g[x]]
With(f, n, value) == [x \in DOMAIN f \cup {n} |-> IF x = n THEN value ELSE f[x]]

Nothing == [x \in {} |-> Unset]
Torn == Nothing  \* compose.yml opened for writing and left there

-----------------------------------------------------------------------------
(* A manifest (manifest.py): what its sections and their cross checks accept. *)

\* CONNECTION_KINDS, and the properties of each.
properties == [c \in {"kelso.admin", "docker.admin"} |->
                 IF c = "docker.admin" THEN {"socket", "host"} ELSE {"socket"}]

\* The app options' own defaults and the values they take.
APP_OPTIONS == [o \in {"subdomain", "start_order"} |-> [default |-> "own", secret |-> FALSE]]
validate_option(name, value) == name \in DOMAIN APP_OPTIONS => value # "bad"

\* Compose keys kelso writes itself.
COMPOSE_MANAGED_KEYS == {"image", "ports", "volumes"}

Units(m) == DOMAIN m.run
Dotted(ref) == Len(ref) > 1

\* A port: "80" or "8080:80", with a proto or without.
PortSpec(p) ==
    /\ p.container \in 1..65535
    /\ p.host # -1 => p.host \in 1..65535
    /\ p.proto \in {"", "tcp", "udp"}

\* An `src` is an app volume's only.
VolumeKind == {"app", "data", "temp", "bulk", "logs", "host"}
VolumeEntry(v) == v.kind \in VolumeKind /\ (v.src # Unset => v.kind = "app")

RunEntry(r) ==
    /\ r.compose \cap COMPOSE_MANAGED_KEYS = {}
    /\ \A n \in DOMAIN r.routes : PortSpec(r.routes[n].port)

ConnectionEntry(kind) == kind \in DOMAIN properties

validate_config(m) ==
    /\ DOMAIN m.config \cap DOMAIN m.adv_config = {}
    /\ \A section \in {m.config, m.adv_config} :
         \A n \in DOMAIN section \cap DOMAIN APP_OPTIONS :
           /\ ~section[n].secret
           /\ section[n].default # Unset => validate_option(n, section[n].default)

\* `readonly = false` may not be written on an app volume.
validate_volumes(m) ==
    \A v \in DOMAIN m.volumes : m.volumes[v].kind = "app" => m.volumes[v].readonly # "false"

validate_run_volumes(m) ==
    \A u \in Units(m) :
        /\ DOMAIN m.run[u].volumes \subseteq DOMAIN m.volumes
        /\ \A v \in DOMAIN m.run[u].volumes : m.run[u].volumes[v] # "kelso"

validate_routes(m) ==
    /\ \A u, w \in Units(m) : u # w => DOMAIN m.run[u].routes \cap DOMAIN m.run[w].routes = {}
    /\ m.network_mode = "host" => \A u \in Units(m) : DOMAIN m.run[u].routes = {}

\* Every dotted reference is in the keys that unit's env is substituted from.
validate_env_refs(m) ==
    LET known == {<<"routes", n>> : n \in UNION {DOMAIN m.run[u].routes : u \in Units(m)}}
                 \cup {<<"klso", k>> : k \in {"domain", "volumes", "cmd", "routes"}}
        attached(u) == UNION {{<<"conn", n, p>> : p \in properties[m.connections[n]]} :
                              n \in m.run[u].connections \cap DOMAIN m.connections}
    IN \A u \in Units(m) : \A ref \in m.run[u].env :
         Dotted(ref) => ref \in known \cup attached(u)

validate_commands(m) == Range(m.commands) \subseteq Units(m)

validate_cron(m) ==
    \A j \in Range(m.cron) : j.command \in DOMAIN m.commands /\ j.parses

validate_connections(m) ==
    \A u \in Units(m) : m.run[u].connections \subseteq DOMAIN m.connections

validate_manifest(m) ==
    /\ m.app_id # "another"
    /\ m.main \in Units(m)
    /\ validate_config(m) /\ validate_volumes(m) /\ validate_run_volumes(m)
    /\ validate_routes(m) /\ validate_env_refs(m) /\ validate_commands(m)
    /\ validate_cron(m) /\ validate_connections(m)

parse_manifest(m) ==
    /\ \A v \in DOMAIN m.volumes : VolumeEntry(m.volumes[v])
    /\ \A u \in Units(m) : RunEntry(m.run[u])
    /\ \A c \in Range(m.connections) : ConnectionEntry(c)
    /\ validate_manifest(m)

-----------------------------------------------------------------------------
(* Its spec (spec.py). *)

\* One namespace: an entry shadows the option of its name.
Config(m) == Over(m.config, Over(m.adv_config, APP_OPTIONS))

AppVolume(m, v) ==
    [kind |-> m.volumes[v].kind,
     readonly |-> m.volumes[v].kind = "app" \/ m.volumes[v].readonly = "true",
     src |-> IF m.volumes[v].src = Unset THEN v ELSE m.volumes[v].src]

RouteNames(m) == UNION {DOMAIN m.run[u].routes : u \in Units(m)}
RouteUnit(m, n) == CHOOSE u \in Units(m) : n \in DOMAIN m.run[u].routes
AppRoute(m, n) == m.run[RouteUnit(m, n)].routes[n]

\* The commands a unit has decide whether it gets kelso's folder.
unit_commands(m, u) == {c \in DOMAIN m.commands : m.commands[c] = u}

-----------------------------------------------------------------------------
(* What the machine has for it (run_layout.py). *)

\* A value of the other secrecy is none at all; a secret has no default.
config_value(m, s, n) ==
    LET c == Config(m)[n] IN
    IF n \in DOMAIN s.config
    THEN IF s.config[n].secret = c.secret THEN s.config[n].value ELSE Unset
    ELSE IF c.secret THEN Unset ELSE c.default

load_config_values(m, s) == [n \in DOMAIN Config(m) |-> config_value(m, s, n)]

load_connections(m) == {n \in DOMAIN m.connections : m.connections[n] \in host.there}

\* What stands between a volume and its link: "none", what stops a start, or
\* what stops a load too.
volume_problem(m, s, v) ==
    LET vol == AppVolume(m, v)
        tag == IF v \in DOMAIN s.binds THEN s.binds[v] ELSE Unset
        shared == host.shares[tag]
    IN CASE vol.kind = "host" ->
              (IF tag = Unset THEN "start"
               ELSE IF shared = Unset THEN "start"
               ELSE IF shared.readonly /\ ~vol.readonly THEN "start"
               ELSE IF tag \notin host.there THEN "load"
               ELSE IF shared.require_mount /\ ~shared.mounted THEN "load"
               ELSE "none")
         [] vol.kind = "app" -> IF vol.src \in m.files THEN "none" ELSE "start"
         [] OTHER -> IF vol.kind \in host.there THEN "none" ELSE "load"

load_volume_links(m, s) == {v \in DOMAIN m.volumes : volume_problem(m, s, v) = "none"}

\* Records of routes the manifest has, whether they fit it or not.
load_routes(m, s) == Restrict(s.db, DOMAIN s.db \cap RouteNames(m))

\* A record that is missing, not the manifest's or not as the manifest has it is
\* put right by a load.
compare_route(m, n, record) ==
    /\ record.unit = RouteUnit(m, n)
    /\ record.port = AppRoute(m, n).port

Issue(on, load, heals) == [on |-> on, load_blocking |-> load, self_healing |-> heals]

issues(m, s) ==
    {Issue(n, FALSE, FALSE) : n \in {k \in DOMAIN Config(m) : config_value(m, s, k) = Unset}}
    \cup {Issue(n, TRUE, FALSE) : n \in DOMAIN m.connections \ load_connections(m)}
    \cup {Issue(v, volume_problem(m, s, v) = "load", FALSE) :
            v \in DOMAIN m.volumes \ load_volume_links(m, s)}
    \cup {Issue(n, FALSE, TRUE) :
            n \in {k \in DOMAIN s.db \cup RouteNames(m) :
                     \/ k \notin DOMAIN s.db \/ k \notin RouteNames(m)
                     \/ ~compare_route(m, k, s.db[k])}}

load_blockers(m, s) == {i \in issues(m, s) : i.load_blocking}

start_blockers(m, s) == {i \in issues(m, s) : ~i.self_healing}

resolved_subdomain(m, s) ==
    IF "subdomain" \in DOMAIN s.config THEN s.config["subdomain"].value
    ELSE Config(m)["subdomain"].default

primary_provider(record) == IF record.providers = <<>> THEN "none" ELSE Head(record.providers)

route_urls(m, s) ==
    [n \in DOMAIN load_routes(m, s) |-> <<s.db[n].subdomain, n, primary_provider(s.db[n])>>]

app_domain(m, s) ==
    <<resolved_subdomain(m, s), "under",
      IF "main" \in DOMAIN load_routes(m, s) THEN primary_provider(s.db["main"]) ELSE "none">>

\* What one unit's references become where these connections are there; the rest
\* stay as they are written.
env_substitutions(m, s, there, u) ==
    LET conn == [ref \in {<<"conn", n, p>> : n \in m.run[u].connections \cap there,
                                            p \in {"socket", "host"}} |-> <<"at", ref[2], ref[3]>>]
        config == [ref \in {<<n>> : n \in DOMAIN Config(m)} |-> <<"config", ref[1]>>]
        routes == [ref \in {<<"routes", n>> : n \in DOMAIN route_urls(m, s)} |->
                     route_urls(m, s)[ref[2]]]
        klso == [ref \in {<<"klso", k>> : k \in {"domain", "volumes", "cmd", "routes"}} |->
                   IF ref[2] = "domain" THEN app_domain(m, s) ELSE <<"the", ref[2]>>]
    IN  Over(conn, Over(config, Over(routes, klso)))

\* compose.yml: per unit its mounts, ports and environment.
make_compose_dict(m, s, there) ==
    [u \in Units(m) |->
       LET subs == env_substitutions(m, s, there, u) IN
       [version |-> m.version,
        mounts |-> {<<m.volumes[v].kind, v>> : v \in DOMAIN m.run[u].volumes}
                   \cup (IF unit_commands(m, u) = {} THEN {} ELSE {<<"kelso", u>>})
                   \cup {<<"conn", m.connections[n]>> :
                           n \in m.run[u].connections \cap there},
        ports |-> {s.db[n].port : n \in DOMAIN m.run[u].routes},
        env |-> [ref \in m.run[u].env |-> IF ref \in DOMAIN subs THEN subs[ref] ELSE ref]]]

\* It looks up every route of the manifest.
Composes(m, s) == RouteNames(m) \subseteq DOMAIN s.db

-----------------------------------------------------------------------------
(* The app store (store.py): what is on file already is not written again, and *)
(* a route's records are what a start derives again for (changes_since_start). *)

set_config(s, n, secret, value) ==
    LET entry == [secret |-> secret, value |-> value] IN
    IF n \in DOMAIN s.config /\ s.config[n] = entry THEN s
    ELSE [s EXCEPT !.config = With(@, n, entry), !.pending = @ \/ n = "subdomain"]

set_bind(s, v, tag) == [s EXCEPT !.binds = With(@, v, tag)]

set_route_assignment(s, n, tags) ==
    IF n \in DOMAIN s.assigned /\ s.assigned[n] = tags THEN s
    ELSE [s EXCEPT !.assigned = With(@, n, tags), !.pending = TRUE]

apply_config_sets(m, s, e) == set_config(s, e.name, Config(m)[e.name].secret, e.value)

bind(m, s, e) == set_bind(s, e.name, e.value)

\* Edits an operator may ask for, and those the manifest and the machine allow.
\* "bad" stands for any value that is refused, the empty one included.
Edits == {[verb |-> "set", name |-> "key", value |-> "other"],
          [verb |-> "set", name |-> "subdomain", value |-> "other"],
          [verb |-> "set", name |-> "subdomain", value |-> "bad"]}
         \cup [verb : {"bind"}, name : {"share"}, value : HostTags]
NoEdit == [verb |-> "none"]

MayBind(m, v, tag) ==
    /\ v \in DOMAIN m.volumes /\ m.volumes[v].kind = "host"
    /\ host.shares[tag] # Unset
    /\ host.shares[tag].readonly => AppVolume(m, v).readonly
    /\ tag \in host.there
    /\ host.shares[tag].require_mount => host.shares[tag].mounted

Accepts(m, e) ==
    CASE e.verb = "set"  -> e.name \in DOMAIN Config(m) /\ validate_option(e.name, e.value)
      [] e.verb = "bind" -> MayBind(m, e.name, e.value)
      [] OTHER -> TRUE

Edited(m, s, e) ==
    CASE e.verb = "set"  -> apply_config_sets(m, s, e)
      [] e.verb = "bind" -> bind(m, s, e)
      [] OTHER -> s

-----------------------------------------------------------------------------
(* Loading (load.py). *)

\* A secret's default is the pattern it is made by; a literal makes none.
generate_missing_config(m, s) ==
    LET missing == {n \in DOMAIN Config(m) \ DOMAIN s.config :
                      /\ Config(m)[n].default # Unset
                      /\ Config(m)[n].secret => Config(m)[n].default # "literal"}
        made(n) == [secret |-> Config(m)[n].secret,
                    value |-> IF Config(m)[n].secret THEN "made" ELSE Config(m)[n].default]
    IN [s EXCEPT !.config = Over(@, [n \in missing |-> made(n)]),
                 !.pending = @ \/ "subdomain" \in missing]

apply_default_route_assignments(m, s) ==
    LET new == {n \in RouteNames(m) \ DOMAIN s.assigned : ~AppRoute(m, n).private}
    IN [s EXCEPT !.assigned = Over(@, [n \in new |-> DefaultProviders]),
                 !.pending = @ \/ new # {}]

\* With no routes the records of earlier ones are left alone.
NoRoutes(m) == m.network_mode = "host" \/ RouteNames(m) = {}

clear_routes(m, s) == IF NoRoutes(m) THEN s ELSE [s EXCEPT !.db = Nothing]

clear_and_reallocate_ports(m, s) ==
    IF NoRoutes(m) THEN s
    ELSE [s EXCEPT !.db = [n \in RouteNames(m) |->
            [unit |-> RouteUnit(m, n), port |-> AppRoute(m, n).port,
             subdomain |-> resolved_subdomain(m, s),
             providers |-> IF n \in DOMAIN s.assigned THEN s.assigned[n] ELSE <<>>]]]

HasSubdomain(m, s) == NoRoutes(m) \/ resolved_subdomain(m, s) # Unset

\* The links a load left tell what kind a volume was.
KindsKept(m, s) ==
    \A l \in s.links : l[2] \in DOMAIN m.volumes => m.volumes[l[2]].kind = l[1]

rebuild_volume_links(m, s) ==
    [s EXCEPT !.links = {<<m.volumes[v].kind, v>> :
                           v \in {w \in load_volume_links(m, s) : m.volumes[w].kind # "host"}}]

rebuild_kelso_dirs(m, s) ==
    [s EXCEPT !.dirs = {u \in Units(m) : unit_commands(m, u) # {}}]

\* The durable steps of materialize, in order, and whether it comes to its end.
materialize(s) ==
    LET m == manifest[s.bundle]
        ported == clear_and_reallocate_ports(m, s)
        linked == rebuild_volume_links(m, ported)
        foldered == rebuild_kelso_dirs(m, linked)
        composed == [foldered EXCEPT !.compose = make_compose_dict(m, foldered, load_connections(m)),
                                    !.behind = FALSE]
    IN IF ~HasSubdomain(m, s) THEN [steps |-> <<s>>, done |-> FALSE]
       ELSE IF load_blockers(m, ported) # {} \/ ~KindsKept(m, ported)
       THEN [steps |-> <<s, clear_routes(m, s), ported>>, done |-> FALSE]
       ELSE [steps |-> <<s, clear_routes(m, s), ported, [ported EXCEPT !.links = {}],
                         linked, foldered, [foldered EXCEPT !.compose = Torn], composed>>,
             done |-> TRUE]

\* Those of a load of m with an edit: the copy is committed before any of the rest.
load(b, s, e) ==
    LET m == manifest[b]
        committed == [s EXCEPT !.bundle = b, !.behind = TRUE]
        edited == Edited(m, committed, e)
        generated == generate_missing_config(m, edited)
        assigned == apply_default_route_assignments(m, generated)
        made == materialize(assigned)
        loaded == [made.steps[Len(made.steps)] EXCEPT !.pending = FALSE]
    IN IF ~Accepts(m, e) THEN [steps |-> <<committed>>, done |-> FALSE]
       ELSE [steps |-> <<committed, edited, generated>> \o made.steps
                       \o (IF made.done THEN <<loaded>> ELSE <<>>),
             done |-> made.done]

Bundles == {b \in DOMAIN manifest : parse_manifest(manifest[b])}
Loaded == manifest[app.bundle]

\* Only a bundle that parses, over a stopped app, of the version that is loaded
\* unless it is an update.
MayLoad(b, version_change) ==
    /\ ~up
    /\ app.bundle # Unset /\ ~version_change => Loaded.version = manifest[b].version

Last(run) == run.steps[Len(run.steps)]

Loads(run) ==
    /\ app' \in Range(run.steps)
    /\ handed' = FALSE
    /\ UNCHANGED <<host, up>>

Load(b, run) == MayLoad(b, FALSE) /\ Loads(run)
Update(b) == app.bundle # Unset /\ MayLoad(b, TRUE) /\ Loads(load(b, app, NoEdit))

-----------------------------------------------------------------------------
(* Starting and stopping (run.py). *)

link_host_volumes(m, s) ==
    [s EXCEPT !.links = {l \in @ : l[1] # "host"}
                        \cup {<<"host", v>> : v \in {w \in load_volume_links(m, s) :
                                                       m.volumes[w].kind = "host"}}]

\* A mutant of Rederived: what a load derived is not derived again.
NotAgain(s) == [steps |-> <<s>>, done |-> TRUE]

\* What a start of a loaded app derives again first.
Rederived(s) == IF s.pending THEN materialize(s) ELSE [steps |-> <<s>>, done |-> TRUE]

\* A start that stops before docker: cut short, blocked, or a provider refuses.  One
\* that has to load first stops as a load does.
StartStops == app.bundle # Unset /\ Loads(Rederived(app))

\* Docker is handed compose.yml; it, or the routes' registration after it, may fail.
Hands(run) ==
    LET s == Last(run)
        m == manifest[s.bundle]
        linked == link_host_volumes(m, s)
    IN /\ run.done
       /\ start_blockers(m, s) = {}
       /\ s.compose # Unset
       /\ \/ up' = TRUE /\ app' \in {linked, [linked EXCEPT !.pending = FALSE]}
          \/ up' = up /\ app' = linked
       /\ handed' = TRUE
       /\ UNCHANGED host

Start == app.bundle # Unset /\ Hands(Rederived(app))

\* Of an app that is not loaded, or with edits.
StartLoading(b, e, run) ==
    /\ app.bundle = Unset \/ e # NoEdit
    /\ MayLoad(b, FALSE)
    /\ Hands(run)

Stop ==
    /\ app.compose # Unset
    /\ app' = [app EXCEPT !.links = {l \in @ : l[1] # "host"}]
    /\ up' = FALSE /\ handed' = FALSE
    /\ UNCHANGED host

\* Removing the loaded copy; a purge takes the app store and its routes too.
Fresh == [bundle |-> Unset, compose |-> Unset, links |-> {}, dirs |-> {}, config |-> Nothing,
          binds |-> Nothing, assigned |-> Nothing, db |-> Nothing, pending |-> FALSE,
          behind |-> FALSE]

Remove(purge) ==
    /\ app.bundle # Unset
    /\ purge => ~up
    /\ app' = IF purge THEN Fresh
              ELSE [app EXCEPT !.bundle = Unset, !.compose = Unset, !.links = {}, !.dirs = {},
                               !.behind = FALSE]
    /\ up' = FALSE /\ handed' = FALSE
    /\ UNCHANGED host

-----------------------------------------------------------------------------
(* Configuring, against the loaded manifest or, before a load, the bundle's. *)

config_spec(b) == IF app.bundle = Unset THEN manifest[b] ELSE Loaded

Configure(b, e) ==
    /\ Accepts(config_spec(b), e)
    /\ app' = Edited(config_spec(b), app, e)
    /\ handed' = FALSE
    /\ UNCHANGED <<host, up>>

\* Assigning a route writes compose.yml again, from what is there now and whether or
\* not anything is missing, also when the assignment is the one on file.
assign_route(b, n, tags) ==
    LET spec == config_spec(b)
        s == set_route_assignment(app, n, tags)
    IN /\ n \in RouteNames(spec)
       /\ Range(tags) \subseteq RouteTags
       /\ app' = IF app.bundle = Unset THEN s
                 ELSE [s EXCEPT !.compose = IF Composes(spec, s)
                                            THEN make_compose_dict(spec, s, load_connections(spec))
                                            ELSE Torn,
                                !.behind = @ \/ load_blockers(spec, s) # {}]
       /\ handed' = FALSE
       /\ UNCHANGED <<host, up>>

-----------------------------------------------------------------------------
(* The machine: roots, sockets and shares; config.toml's host volumes. *)

Comes(x) == x \notin host.there /\ host' = [host EXCEPT !.there = @ \cup {x}]
Goes(x) == x \in host.there /\ host' = [host EXCEPT !.there = @ \ {x}]

\* A host volume: gone from config.toml, or of these kinds.
Share(readonly, require, mounted) ==
    [readonly |-> readonly, require_mount |-> require, mounted |-> mounted]
ShareChanges(t) ==
    \E to \in {Unset, Share(TRUE, FALSE, FALSE), Share(FALSE, TRUE, FALSE), Share(FALSE, TRUE, TRUE)} :
        host' = [host EXCEPT !.shares[t] = to]

Machine ==
    /\ turns < MaxTurns /\ turns' = turns + 1
    /\ \/ \E x \in Vanishing : Comes(x) \/ Goes(x)
       \/ \E t \in HostTags : ShareChanges(t)
    /\ handed' = FALSE
    /\ UNCHANGED <<app, up, acts>>

-----------------------------------------------------------------------------

Init ==
    /\ app = Fresh
    /\ host = [there |-> {"data", "bulk", "docker.admin"} \cup HostTags,
               shares |-> [t \in HostTags |-> Share(FALSE, TRUE, TRUE)]]
    /\ up = FALSE /\ handed = FALSE
    /\ acts = 0 /\ turns = 0

Verb ==
    /\ acts < MaxActs /\ acts' = acts + 1
    /\ UNCHANGED turns
    /\ \/ \E b \in Bundles :
            \/ Update(b)
            \/ \E e \in Edits \cup {NoEdit} :
                 LET run == load(b, app, e) IN Load(b, run) \/ StartLoading(b, e, run)
            \/ \E e \in Edits : Configure(b, e)
            \/ \E n \in RouteNames(config_spec(b)),
                  tags \in {<<>>} \cup {<<t>> : t \in RouteTags} : assign_route(b, n, tags)
       \/ StartStops \/ Start \/ Stop
       \/ \E purge \in BOOLEAN : Remove(purge)

Next == Verb \/ Machine

Spec == Init /\ [][Next]_vars

-----------------------------------------------------------------------------

\* The source of a mount is there.
Stands(mount) ==
    CASE mount[1] = "kelso" -> mount[2] \in app.dirs
      [] mount[1] = "conn"  -> mount[2] \in host.there
      [] mount[1] = "app"   -> mount \in app.links /\ AppVolume(Loaded, mount[2]).src \in Loaded.files
      [] mount[1] = "host"  -> mount \in app.links /\ MayBind(Loaded, mount[2], app.binds[mount[2]])
      [] OTHER -> mount \in app.links /\ mount[1] \in host.there

\* What a start hands docker is whole: compose.yml is what the loaded manifest, the
\* app store and the machine now make, every mount of it has its source, no dotted
\* reference is left in an environment and every config value has a value of the
\* secrecy the manifest wants -- whatever was edited, came or went in between, and
\* wherever an earlier load or start was cut short.  Excepted is a compose.yml left
\* behind: by a load that committed its bundle and got no further, or by assigning a
\* route while something was missing (run.start, load.materialize).
StartsWhole ==
    handed /\ ~app.behind =>
        /\ app.compose = make_compose_dict(Loaded, app, load_connections(Loaded))
        /\ \A u \in DOMAIN app.compose :
             /\ \A mount \in app.compose[u].mounts : Stands(mount)
             /\ \A ref \in DOMAIN app.compose[u].env : Dotted(ref) => app.compose[u].env[ref] # ref
        /\ Unset \notin Range(load_config_values(Loaded, app))
=============================================================================
