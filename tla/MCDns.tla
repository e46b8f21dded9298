-------------------------------- MODULE MCDns --------------------------------
(* Names of one zone served by one server; the resolver knows the server   *)
(* from the zone's parent (as in the proxy showcase), from a name server   *)
(* named after the zone, or from the root.                                 *)
EXTENDS Dns

Com == <<"com">>
Us == <<"com", "us">>
www == <<"com", "us", "www">>
ftp == <<"com", "us", "ftp">>
ext == <<"com", "us", "ext">>
db == <<"com", "us", "db">>
mail == <<"com", "us", "mail">>
loop == <<"com", "us", "loop">>
srv == <<"net", "eu", "srv">>
foo == <<"org", "xx", "foo">>

MCClient == {"user", "resolver"}

A(domain, ip) == [type |-> "A", domain |-> domain, ip |-> ip, contents |-> <<>>]
NS(domain, ip) == [type |-> "NS", domain |-> domain, ip |-> ip, contents |-> <<>>]
CNAME(domain, to) == [type |-> "CNAME", domain |-> domain, ip |-> "none", contents |-> to]

Wildcard == Us :> {A(Us \o <<"*">>, "web")}
Aliases == Us :> {A(www, "web"), CNAME(ftp, www), CNAME(ext, srv)}

Chain == Us :> {A(www, "web"), CNAME(ftp, www), CNAME(mail, ftp), CNAME(loop, ext), CNAME(ext, loop)}

Setup(names, lookups, isp, atResolver, atServer, built) ==
  [names |-> names, lookups |-> lookups, ispResolver |-> isp, resolverZones |-> atResolver, serverZones |-> atServer,
   registrations |-> {}, assertions |-> built]

MCSetups ==
  {Setup({db}, 2, "resolverIp", Com :> {NS(Us, "serverIp")}, Aliases, FALSE),
   Setup({www, ftp, db}, 2, "resolverIp", Com :> {NS(Us, "serverIp")}, Aliases, TRUE),
   Setup({ftp, ext, Us}, 1, "resolverIp",
         Com :> {NS(Us \o <<"">>, "serverIp")} @@ <<"net">> :> {NS(srv, "serverIp")},
         Aliases, FALSE),
   Setup({www}, 1, "resolverIp", <<>> :> {NS(Com, "nobody"), NS(Com, "serverIp")}, Wildcard, FALSE),
   Setup({mail}, 1, "resolverIp", Com :> {NS(Us \o <<"">>, "serverIp")}, Chain, TRUE),
   Setup({loop}, 1, "resolverIp", Com :> {NS(Us \o <<"">>, "serverIp")}, Chain, FALSE),
   Setup({www}, 2, "nobody", <<>>, Wildcard, FALSE),
   [Setup({www, ftp}, 1, "serverIp", <<>>, Wildcard, TRUE) EXCEPT !.registrations =
      {[verb |-> "PUT", zone |-> Us, record |-> A(ftp, "peer")],
       [verb |-> "DELETE", zone |-> Us, record |-> A(ftp, "peer")],
       [verb |-> "DELETE", zone |-> Us, record |-> A(Us \o <<"*">>, "web")]}]}

\* Two zones, and a name in neither.
WaitSetups ==
  {Setup({www, srv, foo}, 3, "resolverIp",
         Com :> {NS(Us \o <<"">>, "serverIp")} @@ <<"net">> :> {NS(srv, "serverIp")},
         Aliases, FALSE)}
=============================================================================
