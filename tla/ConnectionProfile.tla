------------------------- MODULE ConnectionProfile -------------------------
(***************************************************************************)
(* Connection profiles and what makes one valid                            *)
(* (irodori-connection/src/lib.rs).                                        *)
(*                                                                         *)
(* A text is a sequence of tokens, " " being white space.  An Option that  *)
(* is not set is Absent.  A URL is a scheme and the class of its           *)
(* authority.  A list of texts, each of which is validated on its own      *)
(* (scopes, delegates), is represented by one of them, or Absent.          *)
(***************************************************************************)
EXTENDS Naturals, Sequences

CONSTANTS Absent,     \* Option::None
          MaxIdLen    \* MAX_PROFILE_ID_LEN and MAX_SOURCE_ID_LEN

ASSUME MaxIdLenAssumption == MaxIdLen \in Nat \ {0}

-----------------------------------------------------------------------------
(* Texts, ports, URLs and options. *)

Required(t)      == \E i \in DOMAIN t : t[i] # " "
NonEmptyIfSet(t) == t # Absent => Required(t)
ValidId(t)       == /\ Required(t)
                    /\ Len(t) <= MaxIdLen
                    /\ \A i \in DOMAIN t : t[i] # " "
ValidIdIfSet(t)  == t # Absent => ValidId(t)
ValidPort(p)     == p # 0

SecureUrl(url) ==
  /\ url.scheme \in {"https", "http"}
  /\ url.authority \notin {"empty", "credentials"}
  /\ url.scheme = "https" \/ url.authority = "loopback"

\* What an option key may not end with once "_" and "-" are gone.
SecretSuffixes ==
  { <<"password">>, <<"passwd">>, <<"pwd">>, <<"secret">>, <<"token">>,
    <<"api", "key">>, <<"private", "key">>, <<"passphrase">>,
    <<"client", "certificate">>, <<"client", "key">>, <<"keytab">>,
    <<"access", "key">>, <<"credential">>, <<"credentials">>,
    <<"credentials", "json">>, <<"service", "account", "json">>,
    <<"external", "id">>, <<"root", "cert">> }

ValidOptions(keys) ==
  \A key \in keys :
    LET normalized == SelectSeq(key, LAMBDA c : c \notin {"_", "-"})
        EndsWith(s) ==
          /\ Len(s) <= Len(normalized)
          /\ s = SubSeq(normalized, Len(normalized) - Len(s) + 1,
                        Len(normalized))
    IN  Required(key) /\ \A s \in SecretSuffixes : ~EndsWith(s)

-----------------------------------------------------------------------------
(* Secrets and the authentication that refers to them. *)

SecretRef(handle) == [handle |-> handle, service |-> Absent]

ValidSecret(s) == Required(s.handle) /\ NonEmptyIfSet(s.service)
ValidSecretIfSet(s) == s # Absent => ValidSecret(s)

\* The fields of a variant, by the rule each of them has to obey.
Shape(texts, optTexts, urls, secrets, optSecrets) ==
  [ texts |-> texts, optTexts |-> optTexts, urls |-> urls,
    secrets |-> secrets, optSecrets |-> optSecrets ]

AwsAuthSource ==
  [ chain       |-> Shape({}, {}, {}, {}, {}),
    static      |-> Shape({"accessKeyId"}, {}, {},
                          {"secretAccessKey"}, {"sessionToken"}),
    profile     |-> Shape({"profileName"}, {}, {}, {}, {}),
    sso         |-> Shape({}, {"profileName"}, {}, {}, {}),
    webIdentity |-> Shape({"roleArn"}, {"sessionName"}, {}, {"token"}, {}),
    assumeRole  |-> Shape({"roleArn"}, {"sourceProfile", "sessionName"}, {},
                          {}, {"externalId"}) ]

GcpAuthSource ==
  [ adc                |-> Shape({}, {}, {}, {}, {}),
    serviceAccountJson |-> Shape({}, {}, {}, {"credentials"}, {}),
    impersonation      |-> Shape({"targetPrincipal"}, {"delegates"}, {},
                                 {}, {}),
    workloadIdentity   |-> Shape({"audience"}, {}, {"impersonationUrl"},
                                 {"subjectToken"}, {}) ]

AzureAuthSource ==
  [ cli              |-> Shape({}, {}, {}, {}, {}),
    managedIdentity  |-> Shape({}, {"clientId"}, {}, {}, {}),
    servicePrincipal |-> Shape({"tenantId", "clientId"}, {}, {},
                               {"clientSecret"}, {}),
    servicePrincipalCertificate |->
                         Shape({"tenantId", "clientId"}, {}, {},
                               {"certificate", "privateKey"}, {"passphrase"}) ]

AuthConfig ==
  [ none              |-> Shape({}, {}, {}, {}, {}),
    password          |-> Shape({}, {}, {}, {"password"}, {}),
    token             |-> Shape({}, {}, {}, {"token"}, {}),
    apiKey            |-> Shape({}, {}, {}, {"apiKey"}, {}),
    keyPairJwt        |-> Shape({}, {}, {}, {"privateKey"}, {"passphrase"}),
    clientCertificate |-> Shape({}, {}, {}, {"cert", "key"}, {"passphrase"}),
    kerberos          |-> Shape({"principal", "serviceName"}, {}, {},
                                {"keytab"}, {}),
    oauth2            |-> Shape({"clientId"}, {"scopes"}, {"tokenEndpoint"},
                                {}, {"clientSecret", "refreshToken"}),
    externalBrowser   |-> Shape({}, {}, {"authorizeEndpoint"}, {}, {}) ]

SshAuthConfig ==
  [ agent      |-> Shape({}, {}, {}, {}, {}),
    password   |-> Shape({}, {}, {}, {"password"}, {}),
    privateKey |-> Shape({}, {}, {}, {"privateKey"}, {"passphrase"}) ]

AuthShape(a) == CASE a.kind = "aws"   -> AwsAuthSource[a.source]
                  [] a.kind = "gcp"   -> GcpAuthSource[a.source]
                  [] a.kind = "azure" -> AzureAuthSource[a.source]
                  [] OTHER            -> AuthConfig[a.kind]

\* What a portable authentication, which has no secrets, is checked for too.
ValidPlainFields(a) ==
  LET shape == AuthShape(a) IN
  /\ \A f \in shape.texts : Required(a.text[f])
  /\ \A f \in shape.optTexts : NonEmptyIfSet(a.text[f])
  /\ \A f \in shape.urls : a.url[f] # Absent => SecureUrl(a.url[f])
  /\ a.kind = "externalBrowser" => a.redirectPort # 0

FlowSecret(flow) == CASE flow = "clientCredentials" -> {"clientSecret"}
                      [] flow = "refreshToken"      -> {"refreshToken"}
                      [] OTHER                      -> {}

ValidAuth(a) ==
  /\ ValidPlainFields(a)
  /\ \A f \in AuthShape(a).secrets : ValidSecret(a.secret[f])
  /\ \A f \in AuthShape(a).optSecrets : ValidSecretIfSet(a.secret[f])
  /\ a.kind = "oauth2" => \A f \in FlowSecret(a.flow) : a.secret[f] # Absent

ValidSshAuth(a) ==
  /\ \A f \in SshAuthConfig[a.kind].secrets : ValidSecret(a.secret[f])
  /\ \A f \in SshAuthConfig[a.kind].optSecrets : ValidSecretIfSet(a.secret[f])

-----------------------------------------------------------------------------
(* TLS. *)

ResolveEnabled(mode, legacyTransportTls) ==
  IF mode = "default" THEN legacyTransportTls ELSE mode # "disable"

ValidTls(tls) ==
  /\ \A f \in {"rootCert", "clientCert", "clientKey"} : ValidSecretIfSet(tls[f])
  /\ NonEmptyIfSet(tls.serverName)
  /\ (tls.clientCert = Absent) <=> (tls.clientKey = Absent)
  /\ tls.mode = "clientCertificate" => tls.clientCert # Absent
  /\ tls.mode \in {"default", "disable"} =>
       \A f \in {"rootCert", "clientCert", "clientKey", "serverName"} :
          tls[f] = Absent

-----------------------------------------------------------------------------
(* Transports.  "host" and "port" are the address of the server a transport *)
(* or a hop connects to, whatever the code calls it (ssh_host, host).       *)

DirectTransport(host, port) ==
  [kind |-> "direct", host |-> host, port |-> port, tls |-> FALSE]

LocalFileTransport(path) == [kind |-> "localFile", path |-> path]

ProxyTransport(kind, host, port) ==
  [ kind |-> kind, name |-> Absent, host |-> host, port |-> port,
    auth |-> Absent, targetHost |-> Absent, targetPort |-> Absent,
    tls |-> FALSE ]

WithTarget(proxy, host, port) ==
  [proxy EXCEPT !.targetHost = host, !.targetPort = port]

SshAgent == [kind |-> "agent", secret |-> << >>]

SshProxyHop(host, username) ==
  [ kind |-> "ssh", host |-> host, port |-> 22, username |-> username,
    auth |-> SshAgent, strictHostKey |-> TRUE, hostKey |-> Absent ]

SshTunnelTransport(host, username, targetHost, targetPort) ==
  [ kind |-> "sshTunnel", name |-> Absent, host |-> host, port |-> 22,
    username |-> username, auth |-> SshAgent, targetHost |-> targetHost,
    targetPort |-> targetPort, strictHostKey |-> TRUE, hostKey |-> Absent ]

ProxyChainTransport(targetHost, targetPort, hops) ==
  [ kind |-> "chain", targetHost |-> targetHost, targetPort |-> targetPort,
    tls |-> FALSE, hops |-> hops ]

ValidSshServer(c) ==
  /\ Required(c.host) /\ ValidPort(c.port)
  /\ Required(c.username)
  /\ NonEmptyIfSet(c.hostKey)

ValidProxyAuth(auth) == Required(auth.username) /\ ValidSecret(auth.password)

ValidServer(proxy) ==
  /\ ValidIdIfSet(proxy.name)
  /\ Required(proxy.host) /\ ValidPort(proxy.port)
  /\ proxy.auth # Absent => ValidProxyAuth(proxy.auth)

ValidTarget(c) == /\ c.targetHost # Absent /\ Required(c.targetHost)
                  /\ c.targetPort # Absent /\ ValidPort(c.targetPort)

DistinctNames(hops) ==
  \A i, j \in DOMAIN hops : hops[i].name = hops[j].name => i = j

ValidHop(hop) ==
  /\ ValidId(hop.name)
  /\ IF hop.config.kind = "ssh"
     THEN ValidSshServer(hop.config) /\ ValidSshAuth(hop.config.auth)
     ELSE ValidServer(hop.config)

ValidChain(chain) ==
  /\ ValidTarget(chain)
  /\ Len(chain.hops) >= 2
  /\ \A i \in DOMAIN chain.hops : ValidHop(chain.hops[i])
  /\ DistinctNames(chain.hops)

ValidTransport(t) ==
  CASE t.kind = "direct"    -> Required(t.host) /\ t.port # 0
    [] t.kind = "localFile" -> Required(t.path)
    [] t.kind = "sshTunnel" -> /\ ValidIdIfSet(t.name)
                               /\ ValidSshServer(t) /\ ValidSshAuth(t.auth)
                               /\ ValidTarget(t)
    [] t.kind \in {"socks5Proxy", "httpConnectProxy"} ->
                               ValidServer(t) /\ ValidTarget(t)
    [] t.kind = "chain"     -> ValidChain(t)

-----------------------------------------------------------------------------
(* Profiles. *)

IsList(t) == t \in Seq({t[i] : i \in DOMAIN t})

KnownAuth(a) == \/ a.kind \in DOMAIN AuthConfig
                \/ a.kind = "aws" /\ a.source \in DOMAIN AwsAuthSource
                \/ a.kind = "gcp" /\ a.source \in DOMAIN GcpAuthSource
                \/ a.kind = "azure" /\ a.source \in DOMAIN AzureAuthSource

SshFields    == {"kind", "host", "port", "username", "auth", "hostKey"}
ProxyFields  == {"kind", "name", "host", "port", "auth"}
TargetFields == {"kind", "name", "targetHost", "targetPort"}

KnownSsh(c)   == SshFields \subseteq DOMAIN c
                   /\ c.auth.kind \in DOMAIN SshAuthConfig
KnownProxy(c) == ProxyFields \subseteq DOMAIN c

KnownHop(hop) ==
  /\ {"name", "config"} \subseteq DOMAIN hop /\ IsList(hop.name)
  /\ \/ hop.config.kind = "ssh" /\ KnownSsh(hop.config)
     \/ hop.config.kind \in {"socks5", "httpConnect"} /\ KnownProxy(hop.config)

KnownChain(t) ==
  /\ (TargetFields \ {"name"}) \cup {"hops"} \subseteq DOMAIN t
  /\ IsList(t.hops) /\ \A i \in DOMAIN t.hops : KnownHop(t.hops[i])

KnownTransport(t) ==
  \/ t.kind \in {"direct", "localFile"}
  \/ t.kind = "sshTunnel" /\ KnownSsh(t) /\ TargetFields \subseteq DOMAIN t
  \/ /\ t.kind \in {"socks5Proxy", "httpConnectProxy"}
     /\ KnownProxy(t) /\ TargetFields \subseteq DOMAIN t
  \/ t.kind = "chain" /\ KnownChain(t)

\* A profile made of the variants there are, portable or not.
WellFormed(p) == IsList(p.id) /\ KnownAuth(p.auth) /\ KnownTransport(p.transport)

ValidProfile(p) ==
  /\ ValidId(p.id)
  /\ Required(p.displayName)
  /\ ValidId(p.source)
  /\ ValidTransport(p.transport)
  /\ ValidAuth(p.auth)
  /\ ValidTls(p.tls)
  /\ p.transport.kind = "localFile" => ~ResolveEnabled(p.tls.mode, FALSE)
  /\ NonEmptyIfSet(p.database) /\ NonEmptyIfSet(p.user)
  /\ ValidOptions(p.options)

TransportTlsEnabled(p) ==
  ResolveEnabled(p.tls.mode,
                 /\ p.transport.kind \notin {"localFile", "sshTunnel"}
                 /\ p.transport.tls)
=============================================================================
