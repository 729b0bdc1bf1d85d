--------------------------- MODULE BalancerConfigs ---------------------------
(* The values TLC gives to the constants of Balancer: hosts, patterns and  *)
(* the route lists a configuration file holds.                             *)
EXTENDS Integers, Sequences

Backend(u, m, d) == [url |-> u, max_connections |-> m, drain |-> d]
Route(h, s) == [host |-> h, backends |-> s]

\* Headers for an exact route, in another case and with a port, and for
\* sub-domains of one label and of two; the apex of the wildcard.
Header(name, port) == [name |-> name, port |-> port]
MCHost == {Header(<<"a", "x">>, <<>>), Header(<<"A", "x">>, <<"80">>),
           Header(<<"b", "x">>, <<>>), Header(<<"a", "b", "x">>, <<>>), Header(<<"x">>, <<"80">>)}
OneHost == {Header(<<"A", "x">>, <<"80">>)}
MCPattern == {<<"a", "x">>, <<"*", "x">>, <<"*", "B", "x">>, <<"*">>}
MCLabel == {"", "*", "a", "A", "b", "B", "x", "80"}
MCLowerCase == [l \in MCLabel |-> CASE l = "A" -> "a" [] l = "B" -> "b" [] OTHER -> l]

\* One route with two backends, and the same with the first drained
\* and its limit lowered.
Plain == <<Route(<<"a", "x">>, <<Backend("u", 2, FALSE), Backend("v", 1, FALSE)>>)>>
Drained == <<Route(<<"a", "x">>, <<Backend("u", 1, TRUE), Backend("v", 1, FALSE)>>)>>

\* A wildcard and an exact route; the wildcard behind a deeper one without
\* backends, its backend behind another and with a new limit; and a list that
\* a reload must refuse.
Both == <<Route(<<"*", "x">>, <<Backend("v", 1, FALSE)>>),
          Route(<<"a", "x">>, <<Backend("u", 1, FALSE)>>)>>
Wild == <<Route(<<"*", "B", "x">>, <<>>),
          Route(<<"*", "x">>, <<Backend("u", 1, TRUE), Backend("v", 2, FALSE)>>)>>
Refused == <<Route(<<"*", "x">>, <<Backend("v", 1, TRUE)>>), Route(<<"*">>, <<>>)>>

DrainConfig == {Plain, Drained}
RouteConfigs == {Both, Wild, Refused}
FixedConfig == {Plain}
=============================================================================
