------------------------------ MODULE MCKproxy ------------------------------
(***************************************************************************)
(* Kproxy for TLC: two connections, one suffix of each kind, hosts with    *)
(* and without a root domain, and rules with and without a target.         *)
(***************************************************************************)
EXTENDS Kproxy

Raw(n)  == [labels |-> n, odd |-> FALSE]
Odd(n)  == [labels |-> n, odd |-> TRUE]
xcom    == <<"x", "com">>
axcom   == <<"a", "x", "com">>
Allow(n, t) == [kind |-> "rule", name |-> Raw(n), verdict |-> "allow", target |-> t]
Deny(n)     == [kind |-> "rule", name |-> Odd(n), verdict |-> "deny", target |-> None]

MCHeads     == {Raw(<<>>), Odd(axcom), Raw(<<"y", "com">>), Raw(<<"lan">>)}
MCICANN     == {<<"com">>}
MCPrivate   == {xcom}
MCIPs       == {<<"10.0.0.1">>}
MCPuts      == {[default |-> "ask", rules |-> <<>>],
                [default |-> "deny", rules |-> <<Deny(xcom), Allow(axcom, "rpi:80")>>],
                [default |-> "ask", rules |-> <<[Deny(xcom) EXCEPT !.target = "rpi:80"]>>]}
MCDecisions == {[name |-> Odd(xcom), verdict |-> "allow"]}
MCRemovals  == {Raw(xcom), Raw(axcom)}
MCFiles     == {<<[kind |-> "default", policy |-> "ask"], Deny(xcom), Allow(axcom, "rpi:80"),
                  Allow(<<"lan">>, "rpi:80")>>,
                <<[kind |-> "default", policy |-> "ask"]>>,
                <<[kind |-> "default", policy |-> "maybe"]>>}
=============================================================================
