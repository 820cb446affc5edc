------------------------------ MODULE MCRoutes ------------------------------
(***************************************************************************)
(* The scenes of Routes for TLC.                                           *)
(***************************************************************************)
EXTENDS Routes

CONSTANTS app1, app2, tag1

MCApps   == {app1, app2}
MCTags   == {tag1}
\* The second app's own subdomain is the one the first one's second route gets.
MCLabels == {<<"x">>, <<"api", "x">>}
MCDefaultLabel == app1 :> <<"x">> @@ app2 :> <<"api", "x">>
MCDefault      == <<tag1>>
MCAssignments  == {<<>>, <<tag1>>}

main == [name |-> "main", port |-> 0, private |-> FALSE]
api  == [name |-> "api", port |-> 0, private |-> FALSE]
Base == {"load", "start", "stop", "unload", "purge", "config"}

Scene(kind, apps, manifests, verbs, faults, crashes, hands, configs) ==
    [kind |-> [x \in MCTags |-> kind], apps |-> apps, manifests |-> manifests,
     verbs |-> verbs, faults |-> faults, crashes |-> crashes, hands |-> hands,
     configs |-> configs]

Sound == {
    \* Two apps that may want one name and get each other's ports.
    Scene("npm", {app1, app2}, {<<main>>}, Base, 1, 1, 0, 1),
    Scene("cloudflare", {app1, app2}, {<<main>>}, Base \ {"load", "unload"}, 1, 1, 0, 1),
    \* A second route, whose name is the other app's; and somebody at the dashboard.
    Scene("pangolin", {app1, app2}, {<<main, api>>}, {"load", "start", "purge"}, 1, 0, 1, 0),
    \* Bundles that come with other routes, pinned ports and none; apps that go.
    Scene("npm", {app1}, {<<>>, <<main>>, <<main, [api EXCEPT !.port = 10]>>},
          {"load", "start", "rm", "cleanup", "config"}, 0, 1, 0, 1),
    Scene("noop", {app1}, {<<main, [api EXCEPT !.private = TRUE]>>}, Base, 1, 1, 0, 1),
    \* A restore of an app whose routes are what they were.
    Scene("cloudflare", {app1}, {<<main>>}, {"load", "start", "stop", "backup", "restore"},
          0, 0, 0, 0)}

\* A restore of an app that got another subdomain since.
Restored == {Scene("npm", {app1}, {<<main>>}, {"start", "stop", "backup", "restore", "config"},
                   0, 0, 0, 1)}
\* A load that stops at a blocker after another app released a lower port.
Blocked == {Scene("npm", {app1, app2}, {<<main>>}, {"load", "start", "purge"}, 1, 0, 0, 0)}
=============================================================================
