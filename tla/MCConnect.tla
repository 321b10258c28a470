----------------------------- MODULE MCConnect -----------------------------
(***************************************************************************)
(* Instances of Connect for TLC: every kind of transport, chains of two    *)
(* and three hops in the orders of their kinds that differ, an SSH hop     *)
(* inside another one, a host and a password too long for SOCKS5, and a    *)
(* profile that is refused.                                                *)
(***************************************************************************)
EXTENDS Connect

a    == <<"a">>
Long == <<"a", "a", "a">>
Key  == <<"theirs">>

Login(username) == [username |-> username, password |-> SecretRef(a)]
MCCredentialLength(auth) == Len(auth.username)

Proxy(kind, host, auth) == [ProxyTransport(kind, host, 1080) EXCEPT !.auth = auth]
Ssh(host, strict, key) ==
  [SshProxyHop(host, a) EXCEPT !.strictHostKey = strict, !.hostKey = key]

\* The hops a user has registered, by their names.
Registry ==
  (<<"socks">> :> Proxy("socks5", <<"s">>, Login(a)))
    @@ (<<"http">> :> Proxy("httpConnect", <<"h">>, Absent))
    @@ (<<"far">>  :> Proxy("httpConnect", Long, Login(a)))
    @@ (<<"ssh">>  :> Ssh(<<"x">>, TRUE, Key))
    @@ (<<"jump">> :> Ssh(<<"y">>, FALSE, Absent))

ChainNames ==
  { <<"socks", "http">>, <<"http", "socks">>, <<"socks", "ssh">>,
    <<"ssh", "http">>, <<"ssh", "jump">>, <<"socks", "far">>,
    <<"http", "ssh", "socks">>, <<"ssh", "socks", "jump">>, <<"http">>,
    <<"http", "lost">> }

Chains(tls) ==
  { ResolveChain(Registry, <<"t">>, 5432, tls,
                 [i \in DOMAIN names |-> <<names[i]>>]) :
      names \in ChainNames } \ {Absent}

Tunnels ==
  { [SshTunnelTransport(<<"x">>, a, <<"t">>, 5432) EXCEPT !.strictHostKey = strict,
       !.hostKey = key] : strict \in BOOLEAN, key \in {Absent, Key} }

SingleProxies ==
  { WithTarget(Proxy(kind, <<"p">>, auth), target, 5432) :
      kind \in {"socks5Proxy", "httpConnectProxy"},
      auth \in {Absent, Login(a), Login(Long)}, target \in {<<"t">>, Long} }

MCTransports ==
  {DirectTransport(<<"t">>, port) : port \in {Absent, 5432}}
    \cup {LocalFileTransport(a)}
    \cup {Proxy("socks5Proxy", <<"p">>, Absent)}
    \cup Tunnels \cup SingleProxies \cup Chains(FALSE) \cup Chains(TRUE)

MCProfiles ==
  { [ id |-> a, displayName |-> a, source |-> a, transport |-> t,
      auth |-> [kind |-> "none", source |-> "", text |-> << >>,
                url |-> << >>, secret |-> << >>],
      tls |-> [ mode |-> mode, rootCert |-> Absent, clientCert |-> Absent,
                clientKey |-> Absent, serverName |-> Absent ],
      database |-> Absent, user |-> Absent, options |-> {} ] :
      t \in MCTransports, mode \in {"default", "require"} }
=============================================================================
