------------------------------ MODULE Bundles -------------------------------
(***************************************************************************)
(* Bundles for Layout: three an operator may load, and what parsing refuses.*)
(***************************************************************************)
EXTENDS Integers, Sequences, TLC

CONSTANT Unset

Nothing == [x \in {} |-> Unset]

Volume(kind) == [kind |-> kind, readonly |-> "unset", src |-> Unset]
Route(port) == [private |-> FALSE, port |-> [host |-> -1, container |-> port, proto |-> ""]]

\* One unit with something of everything.
Full ==
    [app_id |-> "own", main |-> "main", version |-> 1, network_mode |-> "normal",
     run |-> "main" :>
       [volumes |-> "db" :> "free" @@ "share" :> "free" @@ "files" :> "free",
        env |-> {<<"key">>, <<"undeclared">>, <<"routes", "main">>, <<"klso", "domain">>,
                 <<"conn", "sock", "host">>},
        routes |-> "main" :> Route(80),
        connections |-> {"sock"}, compose |-> {"init"}],
     config |-> "key" :> [default |-> "own", secret |-> FALSE],
     adv_config |-> Nothing,
     volumes |-> "db" :> Volume("data") @@ "share" :> Volume("host") @@ "files" :> Volume("app"),
     commands |-> "dump" :> "main",
     cron |-> "night" :> [command |-> "dump", parses |-> TRUE],
     connections |-> "sock" :> "docker.admin",
     files |-> {"files"}]

\* Edited in place: the key is a secret kelso makes, a volume is of another kind,
\* one of the bundle's files is gone, a second unit has a route and no connection.
Edited1 ==
    [Full EXCEPT
       !.run = @ @@ "web" :> [volumes |-> Nothing, env |-> {<<"routes", "api">>},
                              routes |-> "api" :> [Route(81) EXCEPT !.private = TRUE],
                              connections |-> {}, compose |-> {}],
       !.config = Nothing,
       !.adv_config = "key" :> [default |-> "auto", secret |-> TRUE]
                      @@ "subdomain" :> [default |-> Unset, secret |-> FALSE],
       !.volumes["db"].kind = "bulk",
       !.files = {}]

\* The next version: no routes, share or connection, and a secret written out.
Next2 ==
    [Full EXCEPT
       !.version = 2, !.network_mode = "host",
       !.run["main"] = [@ EXCEPT !.volumes = "db" :> "free", !.routes = Nothing,
                                 !.env = {<<"key">>, <<"klso", "volumes">>}, !.connections = {}],
       !.config = "key" :> [default |-> "literal", secret |-> TRUE],
       !.volumes = "db" :> Volume("data"),
       !.commands = Nothing, !.cron = Nothing, !.connections = Nothing]

\* Each with one thing wrong.
Wrong ==
    <<[Full EXCEPT !.app_id = "another"],
      [Full EXCEPT !.main = "web"],
      [Full EXCEPT !.adv_config = "key" :> [default |-> Unset, secret |-> FALSE]],
      [Full EXCEPT !.adv_config = "subdomain" :> [default |-> "bad", secret |-> FALSE]],
      [Full EXCEPT !.volumes["db"].src = "files"],
      [Full EXCEPT !.volumes["files"].readonly = "false"],
      [Full EXCEPT !.run["main"].volumes = @ @@ "lost" :> "free"],
      [Full EXCEPT !.run["main"].volumes["db"] = "kelso"],
      [Full EXCEPT !.run = @ @@ "web" :> Full.run["main"]],
      [Full EXCEPT !.run["main"].connections = {}],
      [Full EXCEPT !.run["main"].env = @ \cup {<<"conn", "sock", "name">>}],
      [Full EXCEPT !.run["main"].compose = {"ports"}],
      [Full EXCEPT !.run["main"].routes["main"].port.container = 65536],
      [Full EXCEPT !.connections["sock"] = "root.admin"],
      [Full EXCEPT !.commands["dump"] = "web"],
      [Full EXCEPT !.cron["night"].parses = FALSE]>>

Manifests == <<Full, Edited1, Next2>> \o Wrong
=============================================================================
