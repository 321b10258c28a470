------------------------- MODULE MCProfileTransfer -------------------------
(***************************************************************************)
(* Instances of ProfileTransfer for TLC.  Every variant of authentication, *)
(* TLS and transport is exported on its own, with its optional secrets and *)
(* with a field that does not validate; a few lists have several profiles, *)
(* hop names that clash and ids made of the separators of handles.         *)
(***************************************************************************)
EXTENDS ProfileTransfer

a    == <<"a">>
Ref  == SecretRef(<<"keychain", "/", "a">>)
Bad  == SecretRef(<<" ">>)
Good == [scheme |-> "https", authority |-> "host"]
Urls == { Good, [scheme |-> "http", authority |-> "loopback"],
          [scheme |-> "http", authority |-> "host"],
          [scheme |-> "https", authority |-> "credentials"] }

AuthWith(kind, source, flow, port, text, url, secret) ==
  [ kind |-> kind, source |-> source, flow |-> flow, redirectPort |-> port,
    text |-> text, url |-> url, secret |-> secret ]

NoAuth == AuthWith("none", "", "", Absent, << >>, << >>, << >>)
NoTls  == [ mode |-> "default", rootCert |-> Absent, clientCert |-> Absent,
            clientKey |-> Absent, serverName |-> Absent ]

Profile(id, transport, auth, tls) ==
  [ id |-> id, displayName |-> a, source |-> a, transport |-> transport,
    auth |-> auth, tls |-> tls, database |-> Absent, user |-> a,
    options |-> {<<"application", "_", "name">>} ]

\* One variant of authentication with any of its optional secrets, and with
\* the first of its texts, URLs or secrets replaced by one that is refused.
AuthsOf(kind, source) ==
  LET shape == AuthShape([kind |-> kind, source |-> source])
      texts == shape.texts \cup shape.optTexts
      all   == shape.secrets \cup shape.optSecrets
  IN  { AuthWith(kind, source, flow, port, [f \in texts |-> t],
                 [f \in shape.urls |-> u],
                 [f \in all |-> IF f \in unset THEN Absent ELSE s]) :
          flow \in IF kind = "oauth2"
                   THEN {"authorizationCode", "clientCredentials",
                         "refreshToken"} ELSE {""},
          port \in IF kind = "externalBrowser" THEN {Absent, 0, 1} ELSE {Absent},
          t \in IF texts = {} THEN {a} ELSE {a, << >>},
          u \in IF shape.urls = {} THEN {Good} ELSE Urls,
          s \in IF all = {} THEN {Ref} ELSE {Ref, Bad},
          unset \in SUBSET shape.optSecrets }

Auths == UNION ({AuthsOf(k, "") : k \in DOMAIN AuthConfig}
          \cup {AuthsOf("aws", s) : s \in DOMAIN AwsAuthSource}
          \cup {AuthsOf("gcp", s) : s \in DOMAIN GcpAuthSource}
          \cup {AuthsOf("azure", s) : s \in DOMAIN AzureAuthSource})

TlsConfigs == [ mode : {"default", "disable", "prefer", "clientCertificate"},
                rootCert : {Absent, Ref}, clientCert : {Absent, Ref},
                clientKey : {Absent, Ref}, serverName : {Absent, a} ]

SshAuths ==
  UNION { { [kind |-> k, secret |->
              [f \in SshAuthConfig[k].secrets \cup SshAuthConfig[k].optSecrets |->
                 IF f \in unset THEN Absent ELSE s]] :
              s \in {Ref, Bad}, unset \in SUBSET SshAuthConfig[k].optSecrets } :
          k \in DOMAIN SshAuthConfig }

ProxyAuths == {Absent} \cup [username : {a, << >>}, password : {Ref, Bad}]

Proxies(kinds) ==
  { [ProxyTransport(k, h, p) EXCEPT !.auth = auth] :
      k \in kinds, h \in {a, << >>}, p \in {0, 1080}, auth \in ProxyAuths }

Ssh(auth)  == [SshProxyHop(a, a) EXCEPT !.auth = auth]
Socks      == [ProxyTransport("socks5", a, 1080)
                 EXCEPT !.auth = [username |-> a, password |-> Ref]]
SshPasswd  == [kind |-> "password", secret |-> [password |-> Ref]]
Hop(name, config) == [name |-> name, config |-> config]

HopNames == {<<"a">>, <<"a", ".", "ssh">>, <<"/">>, <<"a", " ">>}

Chains ==
  { ProxyChainTransport(a, 5432, <<Hop(n, Ssh(auth)), Hop(m, Socks)>>) :
      n \in HopNames, m \in HopNames, auth \in SshAuths }
  \cup { ProxyChainTransport(a, 5432, <<Hop(a, Socks), Hop(<<"b">>, proxy)>>) :
           proxy \in Proxies({"httpConnect"}) }
  \cup {ProxyChainTransport(a, 5432, <<Hop(a, Socks)>>)}

Transports ==
  {DirectTransport(a, p) : p \in {Absent, 0, 5432}}
    \cup {LocalFileTransport(a)}
    \cup {[SshTunnelTransport(a, a, a, p) EXCEPT !.auth = auth, !.hostKey = k] :
             p \in {0, 5432}, auth \in SshAuths, k \in {Absent, a, << >>}}
    \cup Proxies({"socks5Proxy"})
    \cup {WithTarget(p, a, 5432) : p \in Proxies({"httpConnectProxy"})}
    \cup Chains

Direct == DirectTransport(a, 5432)

\* Two profiles, the id of one of which reads like a handle of the other's.
Twins ==
  { << Profile(a, ProxyChainTransport(a, 5432,
                    <<Hop(n, Ssh(SshPasswd)), Hop(m, Socks)>>), NoAuth, NoTls),
       Profile(id, Direct,
               AuthWith("password", "", "", Absent, << >>, << >>,
                        [password |-> Ref]), NoTls) >> :
      n \in HopNames, m \in {<<"b">>, <<"a", "/", "b">>},
      id \in {a, <<"b">>, <<"a", "/", "slots">>, <<"a", "%", "2F">>} }

MCProfileLists ==
  {<<Profile(a, Direct, auth, NoTls)>> : auth \in Auths}
    \cup {<<Profile(a, t, NoAuth, tls)>> :
            t \in {Direct, LocalFileTransport(a)}, tls \in TlsConfigs}
    \cup {<<Profile(a, t, NoAuth, NoTls)>> : t \in Transports}
    \cup {<<[Profile(id, Direct, NoAuth, NoTls) EXCEPT !.options = {key}]>> :
            id \in {a, << >>, <<"a", "b", "c", "d", "e", "f", "g">>},
            key \in {<<"timeout">>, <<"api", "_", "key">>, << >>}}
    \cup Twins

\* The file arrives as it was written, or edited: another schema version, a
\* profile copied, a profile that asks for no client key, or for no password.
MCEdits(b) ==
  LET First(p) == [b EXCEPT !.profiles[1] = p] IN
  {b} \cup {[b EXCEPT !.schemaVersion = v] : v \in {0, 1, 3}}
      \cup {[b EXCEPT !.profiles = Append(@, @[1])]}
      \cup {First([b.profiles[1] EXCEPT !.tls.required = @ \ {"clientKey"}])}
      \cup (IF b.profiles[1].transport.kind = "httpConnectProxy"
            THEN {First([b.profiles[1] EXCEPT !.transport.auth =
                           IF @ = Absent THEN @
                           ELSE [@ EXCEPT !.passwordRequired = FALSE]])}
            ELSE {})

MCValues == {<<"v">>, <<"k", "nl">>, <<"large">>}

MCOwnSecrets ==
  { [profileId |-> a, purpose |-> "Password"],
    [profileId |-> <<"a", "/", "slots">>, purpose |-> "Password"],
    [profileId |-> <<" ">>, purpose |-> "Password"] }
=============================================================================
