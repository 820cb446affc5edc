------------------------------- MODULE MCApp --------------------------------
(***************************************************************************)
(* An app's bundle: where it comes from (Sources), what is derived from it *)
(* for docker (Layout) and at the route providers (Routes).  Each is on    *)
(* its own: which one moves is chosen once, so the states are the sum of   *)
(* theirs.                                                                 *)
(***************************************************************************)
EXTENDS MCRoutes

CONSTANTS
    manifest, HostTags, RouteTags, DefaultProviders, Vanishing, Unset, MaxActs, MaxTurns,
    Ids, Repos, Procs, Kelsod, Nowhere, MaxVerbs, MaxChanges, MaxCrashes

VARIABLES part, app, host, runs, handed, acts, turns, repos, held, proc, count

B == INSTANCE Bundles
MCManifests == B!Manifests
MCDefaultProviders == <<"proxy">>

L == INSTANCE Layout WITH up <- runs
S == INSTANCE Sources WITH PathOf <- "path" :> "a"

\* That there is no place is not one.
ASSUME SourcesAssumption == Nowhere \notin S!Places
ASSUME BundlesAssumption == L!LayoutAssumption

layoutVars == <<app, host, runs, handed, acts, turns>>
sourcesVars == <<repos, held, proc, count>>

AppInit ==
    /\ part \in {"routes", "layout", "sources"}
    /\ Init /\ L!Init /\ S!Init
    /\ part # "routes" => scene = CHOOSE s \in Scenes : TRUE

\* Only Routes's verbs never run out.
AppNext ==
    /\ UNCHANGED part
    /\ \/ part = "routes" /\ Next /\ UNCHANGED <<layoutVars, sourcesVars>>
       \/ part = "layout" /\ L!Next /\ UNCHANGED <<vars, sourcesVars>>
       \/ part = "sources" /\ S!Next /\ UNCHANGED <<vars, layoutVars>>
       \/ part # "routes" /\ UNCHANGED <<vars, layoutVars, sourcesVars>>

AppSpec == AppInit /\ [][AppNext]_<<part, vars, layoutVars, sourcesVars>>

\* What a start hands docker is what the loaded manifest, the app store and the
\* machine now make, and everything it mounts is there (run.start, load.materialize).
StartsWhole == L!StartsWhole

\* An app never runs with secrets or over data that another source's bundle made
\* (load._check_binding).
SourceKept == S!SourceKept
=============================================================================
