-------------------------- MODULE PortableProfile --------------------------
(***************************************************************************)
(* The exported form of a profile (irodori-connection/src/portable.rs):    *)
(* every secret becomes a flag, and the slots the importing side has to    *)
(* fill again are computed from the flags.                                 *)
(***************************************************************************)
EXTENDS ConnectionProfile, SequencesExt

SupportedSchemas == 1 .. 2    \* MIN_SUPPORTED.. and CURRENT schema version

-----------------------------------------------------------------------------
(* Leaving the secrets out. *)

\* Slip: the flags of the optional secrets are forgotten.
FromAuthWithoutFlags(a) ==
  [ kind |-> a.kind, source |-> a.source, flow |-> a.flow,
    redirectPort |-> a.redirectPort, text |-> a.text, url |-> a.url,
    required |-> {} ]

\* The flags of a variant: its optional secrets that are set.  The ones it
\* must have are required by the variant itself.
FromAuth(a) ==
  [ kind |-> a.kind, source |-> a.source, flow |-> a.flow,
    redirectPort |-> a.redirectPort, text |-> a.text, url |-> a.url,
    required |-> {f \in AuthShape(a).optSecrets : a.secret[f] # Absent} ]

\* Slip: a passphrase is asked for whether there was one or not.
FromSshAuthAlways(a) ==
  [kind |-> a.kind, required |-> SshAuthConfig[a.kind].optSecrets]

FromSshAuth(a) ==
  [ kind     |-> a.kind,
    required |-> {f \in SshAuthConfig[a.kind].optSecrets :
                    a.secret[f] # Absent} ]

FromTls(tls) ==
  [ mode |-> tls.mode, serverName |-> tls.serverName,
    required |-> {f \in {"rootCert", "clientCert", "clientKey"} :
                    tls[f] # Absent} ]

FromProxyAuth(auth) ==
  IF auth = Absent THEN Absent
  ELSE [username |-> auth.username, passwordRequired |-> TRUE]

FromProxy(proxy) == [proxy EXCEPT !.auth = FromProxyAuth(@)]

FromSsh(c) == [c EXCEPT !.auth = FromSshAuth(@)]

FromHop(hop) ==
  [hop EXCEPT !.config = IF hop.config.kind = "ssh" THEN FromSsh(@)
                         ELSE FromProxy(@)]

FromTransport(t) ==
  CASE t.kind \in {"direct", "localFile"} -> t
    [] t.kind = "sshTunnel" -> FromSsh(t)
    [] t.kind \in {"socks5Proxy", "httpConnectProxy"} -> FromProxy(t)
    [] t.kind = "chain" ->
         [t EXCEPT !.hops = [i \in DOMAIN t.hops |-> FromHop(t.hops[i])]]

FromProfile(p) ==
  [ id |-> p.id, displayName |-> p.displayName, source |-> p.source,
    transport |-> FromTransport(p.transport), database |-> p.database,
    user |-> p.user, auth |-> FromAuth(p.auth), tls |-> FromTls(p.tls),
    options |-> p.options ]

-----------------------------------------------------------------------------
(* The slots to fill.  A table gives, for a variant, the slots it always    *)
(* has and the ones it has when their flag is set.                          *)

Slot(field, purpose)   == [field |-> field, purpose |-> purpose, flag |-> FALSE]
SlotIf(field, purpose) == [field |-> field, purpose |-> purpose, flag |-> TRUE]

SshSlots ==
  [ agent      |-> << >>,
    password   |-> <<Slot("password", "SshPassword")>>,
    privateKey |-> <<Slot("privateKey", "PrivateKey"),
                     SlotIf("passphrase", "Passphrase")>> ]

AwsSlots ==
  [ chain |-> << >>, profile |-> << >>, sso |-> << >>,
    static      |-> <<Slot("secretAccessKey", "AwsSecretAccessKey"),
                      SlotIf("sessionToken", "AwsSessionToken")>>,
    webIdentity |-> <<Slot("token", "AwsWebIdentityToken")>>,
    assumeRole  |-> <<SlotIf("externalId", "AwsExternalId")>> ]

GcpSlots ==
  [ adc |-> << >>, impersonation |-> << >>,
    serviceAccountJson |-> <<Slot("credentials", "GcpServiceAccountJson")>>,
    workloadIdentity   |-> <<Slot("subjectToken", "GcpSubjectToken")>> ]

AzureSlots ==
  [ cli |-> << >>, managedIdentity |-> << >>,
    servicePrincipal |-> <<Slot("clientSecret", "AzureClientSecret")>>,
    servicePrincipalCertificate |->
                       <<Slot("certificate", "AzureClientCertificate"),
                         Slot("privateKey", "AzurePrivateKey"),
                         SlotIf("passphrase", "AzureCertificatePassphrase")>> ]

AuthSlots ==
  [ none |-> << >>, externalBrowser |-> << >>,
    password          |-> <<Slot("password", "Password")>>,
    token             |-> <<Slot("token", "Token")>>,
    apiKey            |-> <<Slot("apiKey", "ApiKey")>>,
    keyPairJwt        |-> <<Slot("privateKey", "PrivateKey"),
                            SlotIf("passphrase", "Passphrase")>>,
    clientCertificate |-> <<Slot("cert", "ClientCertificate"),
                            Slot("key", "ClientKey"),
                            SlotIf("passphrase",
                                   "ClientCertificatePassphrase")>>,
    kerberos          |-> <<Slot("keytab", "KerberosKeytab")>>,
    oauth2            |-> <<SlotIf("clientSecret", "OAuthClientSecret"),
                            SlotIf("refreshToken", "OAuthRefreshToken")>> ]

TlsSlots == <<SlotIf("rootCert", "TlsRootCertificate"),
              SlotIf("clientCert", "TlsClientCertificate"),
              SlotIf("clientKey", "TlsClientKey")>>

\* The entries of a table that apply, as slots under a path.
Under(id, path, table, required) ==
  FlattenSeq([i \in DOMAIN table |->
    IF table[i].flag => table[i].field \in required
    THEN << [ profileId |-> id, path |-> path \o <<".", table[i].field>>,
              purpose |-> table[i].purpose ] >>
    ELSE << >>])

AppendAuthSlots(id, a) ==
  LET cloud == <<"auth", ".", "source">> IN
  CASE a.kind = "aws"   -> Under(id, cloud, AwsSlots[a.source], a.required)
    [] a.kind = "gcp"   -> Under(id, cloud, GcpSlots[a.source], a.required)
    [] a.kind = "azure" -> Under(id, cloud, AzureSlots[a.source], a.required)
    [] OTHER            -> Under(id, <<"auth">>, AuthSlots[a.kind], a.required)

AppendProxySlots(id, path, proxy) ==
  IF proxy.auth = Absent THEN << >>
  ELSE Under(id, path, <<Slot("password", "ProxyPassword")>>, {})

AppendSshSlots(id, path, a) ==
  Under(id, path \o <<".", "ssh">>, SshSlots[a.kind], a.required)

AppendHopSlots(id, hop) ==
  LET path == <<"transport", ".", "chain", ".">> \o hop.name
  IN  IF hop.config.kind = "ssh"
      THEN AppendSshSlots(id, path, hop.config.auth)
      ELSE AppendProxySlots(id, path, hop.config)

AppendChainSlots(id, hops) ==
  FlattenSeq([i \in DOMAIN hops |-> AppendHopSlots(id, hops[i])])

AppendTransportSlots(id, t) ==
  CASE t.kind \in {"direct", "localFile"} -> << >>
    [] t.kind = "sshTunnel" -> AppendSshSlots(id, <<"transport">>, t.auth)
    [] t.kind \in {"socks5Proxy", "httpConnectProxy"} ->
         AppendProxySlots(id, <<"transport", ".", "proxy">>, t)
    [] t.kind = "chain" -> AppendChainSlots(id, t.hops)

RequiredSecretSlots(p) ==
  AppendAuthSlots(p.id, p.auth)
    \o Under(p.id, <<"tls">>, TlsSlots, p.tls.required)
    \o AppendTransportSlots(p.id, p.transport)

-----------------------------------------------------------------------------
(* Validating what comes from a file. *)

ValidPortableAuth(a) ==
  /\ ValidPlainFields(a)
  /\ a.kind = "oauth2" => FlowSecret(a.flow) \subseteq a.required

ValidPortableTls(tls) ==
  /\ NonEmptyIfSet(tls.serverName)
  /\ ("clientCert" \in tls.required) <=> ("clientKey" \in tls.required)
  /\ tls.mode = "clientCertificate" => "clientCert" \in tls.required
  /\ tls.mode \in {"default", "disable"} =>
       tls.required = {} /\ tls.serverName = Absent

ValidPortableServer(proxy) ==
  /\ ValidIdIfSet(proxy.name)
  /\ Required(proxy.host) /\ ValidPort(proxy.port)
  /\ proxy.auth # Absent =>
       Required(proxy.auth.username) /\ proxy.auth.passwordRequired

ValidPortableChain(chain) ==
  /\ ValidTarget(chain)
  /\ Len(chain.hops) >= 2
  /\ \A i \in DOMAIN chain.hops :
       LET hop == chain.hops[i] IN
       /\ ValidId(hop.name)
       /\ IF hop.config.kind = "ssh" THEN ValidSshServer(hop.config)
          ELSE ValidPortableServer(hop.config)
  /\ DistinctNames(chain.hops)

ValidPortableTransport(t) ==
  CASE t.kind \in {"direct", "localFile"} -> ValidTransport(t)
    [] t.kind = "sshTunnel" ->
         ValidIdIfSet(t.name) /\ ValidSshServer(t) /\ ValidTarget(t)
    [] t.kind \in {"socks5Proxy", "httpConnectProxy"} ->
         ValidPortableServer(t) /\ ValidTarget(t)
    [] t.kind = "chain" -> ValidPortableChain(t)

SlotPathsDistinct(p) ==
  LET slots == RequiredSecretSlots(p) IN
  \A i, j \in DOMAIN slots : slots[i].path = slots[j].path => i = j

ValidPortable(p) ==
  /\ ValidId(p.id)
  /\ Required(p.displayName)
  /\ ValidId(p.source)
  /\ ValidPortableTransport(p.transport)
  /\ NonEmptyIfSet(p.database) /\ NonEmptyIfSet(p.user)
  /\ ValidOptions(p.options)
  /\ ValidPortableAuth(p.auth)
  /\ ValidPortableTls(p.tls)
  /\ p.transport.kind = "localFile" => p.tls.mode \in {"default", "disable"}
  /\ SlotPathsDistinct(p)

DistinctIds(profiles) ==
  \A i, j \in DOMAIN profiles : profiles[i].id = profiles[j].id => i = j

Bundle(profiles) ==
  [ schemaVersion |-> 2,
    profiles |-> [i \in DOMAIN profiles |-> FromProfile(profiles[i])] ]

\* The bundle for some profiles, or Absent when one of them is refused.
FromProfiles(profiles) ==
  IF /\ DistinctIds(profiles)
     /\ \A i \in DOMAIN profiles :
          ValidProfile(profiles[i]) /\ ValidPortable(FromProfile(profiles[i]))
  THEN Bundle(profiles)
  ELSE Absent

ValidBundle(bundle) ==
  /\ bundle.schemaVersion \in SupportedSchemas
  /\ DistinctIds(bundle.profiles)
  /\ \A i \in DOMAIN bundle.profiles : ValidPortable(bundle.profiles[i])
=============================================================================
