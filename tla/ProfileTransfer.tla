-------------------------- MODULE ProfileTransfer --------------------------
(***************************************************************************)
(* Profiles on their way from one machine to another: exported without     *)
(* their secrets, carried in a file that may be edited by hand, validated  *)
(* where they are imported, and linked to secrets entered there again,     *)
(* which share a store with the secrets of other connections.              *)
(***************************************************************************)
EXTENDS PortableProfile, SecureStore, FiniteSetsExt

CONSTANTS ProfileLists,    \* the lists of profiles that may be exported
          Edits(_),        \* what a bundle may look like once it was carried
          Values,          \* the secrets users enter
          OwnSecrets,      \* secrets of connections that were not imported
          MaxCalls         \* bound on the calls made to the store

ProxiesOf(t) == {c \in (IF t.kind = "chain"
                        THEN {t.hops[i].config : i \in DOMAIN t.hops} ELSE {t}) :
                   c.kind \notin {"direct", "localFile", "ssh", "sshTunnel"}}

\* A user has profiles of the variants there are, a file that can be read has
\* no others, and what an Option holds when it is set is not Absent.
ASSUME TransferAssumption ==
  /\ MaxCalls \in Nat
  /\ Absent \notin Values
  /\ \A s \in OwnSecrets :
       /\ s = [profileId |-> s.profileId, purpose |-> s.purpose]
       /\ IsList(s.profileId) /\ s.purpose \in DOMAIN StoreName
  /\ \A list \in ProfileLists :
       /\ IsList(list)
       /\ \A i \in DOMAIN list :
            /\ WellFormed(list[i])
            /\ \A proxy \in ProxiesOf(list[i].transport) :
                 proxy.auth # Absent => FromProxyAuth(proxy.auth) # Absent
       /\ Bundle(list) # Absent
       /\ FromProfiles(list) # Absent =>
            \A edited \in Edits(FromProfiles(list)) :
              \A i \in DOMAIN edited.profiles : WellFormed(edited.profiles[i])

VARIABLES profiles,    \* the profiles to export
          stage,       \* how far the transfer has come
          bundle,      \* the bundle, Absent before the export
          backend,     \* which store the importing side has
          store,       \* what the store holds, by account
          entered,     \* the secret that was entered last, by slot
          deleted,     \* the slots reported as deleted since
          calls        \* calls to the store so far

vars == <<profiles, stage, bundle, backend, store, entered, deleted, calls>>

\* The keychain of macOS and Linux is reached by a command, of which a
\* failure is not told from success when it deletes, and not from a secret
\* that is not there when it reads.
ByCommand == backend = "keychain"

Account(ref) == CASE backend = "memory"   -> MemoryAccount(ref)
                  [] backend = "keychain" -> KeychainAccount(ref)
                  [] backend = "windows"  -> WindowsTarget(ref)

Kept(value) == IF ByCommand THEN TrimTrailingNewline(value) ELSE value

\* What may be answered, errors aside.
Get(ref) ==
  LET found == Lookup(store, Account(ref))
  IN  {IF found = Absent THEN Absent ELSE Kept(found)}
        \cup (IF ByCommand THEN {Absent} ELSE {})

\* A slot has a path, a connection's own secret has none.
RefOf(s) == IF "path" \in DOMAIN s THEN ConnectionSecretSlotRef(s)
            ELSE ConnectionSecretRef(s.profileId, s.purpose)

SlotsOf(b) == UNION {ToSet(RequiredSecretSlots(b.profiles[i])) :
                       i \in DOMAIN b.profiles}

Secrets == {s \in OwnSecrets \cup (IF stage = "imported" THEN SlotsOf(bundle)
                                  ELSE {}) : RefOk(s)}

-----------------------------------------------------------------------------
Init == /\ profiles \in ProfileLists
        /\ stage = "local"
        /\ bundle = Absent
        /\ backend \in {"memory", "keychain", "windows"}
        /\ store = << >>
        /\ entered = << >>
        /\ deleted = {}
        /\ calls = 0

Export == /\ stage = "local"
          /\ bundle' = FromProfiles(profiles)
          /\ stage' = IF bundle' = Absent THEN "refused" ELSE "exported"
          /\ UNCHANGED <<profiles, backend, store, entered, deleted, calls>>

Carry == /\ stage = "exported"
         /\ bundle' \in Edits(bundle)
         /\ stage' = "carried"
         /\ UNCHANGED <<profiles, backend, store, entered, deleted, calls>>

Import == /\ stage = "carried"
          /\ stage' = IF ValidBundle(bundle) THEN "imported" ELSE "rejected"
          /\ UNCHANGED <<profiles, bundle, backend, store, entered, deleted, calls>>

\* put_connection_slot_secret, put_connection_secret.  One that fails is
\* reported and changes nothing.
PutSecret(s, value) ==
  /\ calls < MaxCalls
  /\ value # << >>
  /\ ValidSecretRef(RefOf(s))
  /\ backend = "windows" => FitsCredential(value)
  /\ store' = Put(store, Account(RefOf(s)), value)
  /\ entered' = Put(entered, s, value)
  /\ deleted' = deleted \ {s}
  /\ calls' = calls + 1
  /\ UNCHANGED <<profiles, stage, bundle, backend>>

\* The exit status of the command is not looked at.
DeleteSecret(s) ==
  /\ calls < MaxCalls
  /\ ValidSecretRef(RefOf(s))
  /\ \/ store' = Delete(store, Account(RefOf(s)))
     \/ ByCommand /\ UNCHANGED store
  /\ deleted' = deleted \cup {s}
  /\ calls' = calls + 1
  /\ UNCHANGED <<profiles, stage, bundle, backend, entered>>

Next == \/ Export
        \/ Carry
        \/ Import
        \/ \E s \in Secrets : \/ \E value \in Values : PutSecret(s, value)
                              \/ DeleteSecret(s)

Spec == Init /\ [][Next]_vars

-----------------------------------------------------------------------------
(* What is true of a transfer. *)

\* Where the secrets of a profile are, read off the profile itself: the part
\* of it, the hop when there is one, and the path a slot for it should have.
PathsOf(prefix, fields) == {prefix \o <<".", f>> : f \in fields}

SetSecrets(shape, a) ==
  shape.secrets \cup {f \in shape.optSecrets : a.secret[f] # Absent}

AuthPath(a) == IF a.kind \in {"aws", "gcp", "azure"}
               THEN <<"auth", ".", "source">> ELSE <<"auth">>
HopPath(hop) == <<"transport", ".", "chain", ".">> \o hop.name

TlsSecrets == {"rootCert", "clientCert", "clientKey"}

SshPaths(prefix, a) ==
  PathsOf(prefix \o <<".", "ssh">>, SetSecrets(SshAuthConfig[a.kind], a))

ProxyPaths(prefix, proxy) ==
  IF proxy.auth = Absent THEN {} ELSE PathsOf(prefix, {"password"})

HopPaths(hop) == IF hop.config.kind = "ssh"
                 THEN SshPaths(HopPath(hop), hop.config.auth)
                 ELSE ProxyPaths(HopPath(hop), hop.config)

TransportPlaces(t) ==
  CASE t.kind = "sshTunnel" -> {0} \X SshPaths(<<"transport">>, t.auth)
    [] t.kind \in {"socks5Proxy", "httpConnectProxy"} ->
         {0} \X ProxyPaths(<<"transport", ".", "proxy">>, t)
    [] t.kind = "chain" ->
         UNION {{i} \X HopPaths(t.hops[i]) : i \in DOMAIN t.hops}
    [] OTHER -> {}

SecretPlaces(p) ==
  ({0} \X PathsOf(AuthPath(p.auth), SetSecrets(AuthShape(p.auth), p.auth)))
    \cup ({0} \X PathsOf(<<"tls">>, {f \in TlsSecrets : p.tls[f] # Absent}))
    \cup TransportPlaces(p.transport)

\* An exported profile asks for each of its secrets once, under the path of
\* the field the secret was in, and for nothing else: the flags that
\* from_profile sets and the slots that append_secret_slots derives from them
\* agree for every authentication, TLS and transport variant.
SlotsAreTheSecrets ==
  stage = "exported" =>
    \A i \in DOMAIN profiles :
      LET slots  == RequiredSecretSlots(bundle.profiles[i])
          places == SecretPlaces(profiles[i])
      IN  /\ Len(slots) = Cardinality(places)
          /\ {s.path : s \in ToSet(slots)} = {x[2] : x \in places}

\* Export refuses no list of profiles without a reason: a profile that does
\* not validate, an id used twice, or two secrets of a profile whose places
\* have the same path (hops "a" over SSH and "a.ssh" over a proxy).  The two
\* validations, written twice in the code, do not disagree otherwise.
ExportRefusesForAReason ==
  stage = "refused" =>
    \/ ~DistinctIds(profiles)
    \/ \E i \in DOMAIN profiles :
         \/ ~ValidProfile(profiles[i])
         \/ \E x, y \in SecretPlaces(profiles[i]) : x # y /\ x[2] = y[2]

\* What the store answers for a slot of the imported profiles or a secret of
\* another connection is what was entered for it last, less the line breaks
\* that a command drops, and never what was entered for another one, whatever
\* ids and hop names contain; and there is none before it is entered, or once
\* it is deleted.  A command may fail unnoticed: a secret of a keychain may
\* read as none, and one that was deleted may still be there.
SecretsReadBack ==
  \A s \in Secrets : \A answer \in Get(RefOf(s)) :
    \/ /\ s \in DOMAIN entered /\ answer = Kept(entered[s])
       /\ ByCommand \/ s \notin deleted
    \/ /\ answer = Absent
       /\ ByCommand \/ s \notin DOMAIN entered \/ s \in deleted
=============================================================================
