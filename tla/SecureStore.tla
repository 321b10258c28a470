---------------------------- MODULE SecureStore ----------------------------
(***************************************************************************)
(* Handles of stored secrets and the stores that keep them                 *)
(* (irodori-secure-store/src/lib.rs).                                      *)
(*                                                                         *)
(* A store is a function from the accounts that have a secret to the       *)
(* secrets.  A secret is a sequence of tokens, "nl" being a line break.    *)
(***************************************************************************)
EXTENDS ConnectionProfile, SequencesExt

DefaultService == <<"irodori-table">>

\* SecretPurpose::from followed by as_str.
StoreName ==
  [ Password |-> "password", Token |-> "token", ApiKey |-> "api-key",
    PrivateKey |-> "private-key", Passphrase |-> "private-key-passphrase",
    ClientCertificate |-> "client-certificate", ClientKey |-> "client-key",
    ClientCertificatePassphrase |-> "client-certificate-passphrase",
    KerberosKeytab |-> "kerberos-keytab",
    OAuthClientSecret |-> "oauth-client-secret",
    OAuthRefreshToken |-> "oauth-refresh-token",
    AwsSecretAccessKey |-> "aws-secret-access-key",
    AwsSessionToken |-> "aws-session-token",
    AwsWebIdentityToken |-> "aws-web-identity-token",
    AwsExternalId |-> "aws-external-id",
    GcpServiceAccountJson |-> "gcp-service-account-json",
    GcpSubjectToken |-> "gcp-subject-token",
    AzureClientSecret |-> "azure-client-secret",
    AzureClientCertificate |-> "azure-client-certificate",
    AzurePrivateKey |-> "azure-private-key",
    AzureCertificatePassphrase |-> "azure-certificate-passphrase",
    TlsRootCertificate |-> "tls-root-certificate",
    TlsClientCertificate |-> "tls-client-certificate",
    TlsClientKey |-> "tls-client-key", SshPassword |-> "ssh-password",
    ProxyPassword |-> "proxy-password" ]

ValidHandlePart(t) == Required(t) /\ \A i \in DOMAIN t : t[i] # "control"

ValidSecretRef(ref) ==
  /\ ValidHandlePart(ref.handle)
  /\ ref.service # Absent => ValidHandlePart(ref.service)

\* A token that is not alphanumeric, "-", "_" or "." becomes "%" and its code.
Code == [x \in {"/", "%", " "} |->
           CASE x = "/" -> "2F" [] x = "%" -> "25" [] x = " " -> "20"]

EncodeHandleComponent(t) ==
  FlattenSeq([i \in DOMAIN t |->
                IF t[i] \in DOMAIN Code THEN <<"%", Code[t[i]]>> ELSE <<t[i]>>])

\* The handle of a connection's own secret; the id is used as it is.
ConnectionSecretRef(id, purpose) ==
  [ handle  |-> <<"connections", "/">> \o id \o <<"/", StoreName[purpose]>>,
    service |-> DefaultService ]

\* Slip: the path is left out, or the id is not encoded.
ConnectionSecretSlotRefNoPath(slot) ==
  [ handle  |-> <<"connections", "/">>
                  \o EncodeHandleComponent(slot.profileId)
                  \o <<"/", "slots", "/", StoreName[slot.purpose], "/">>,
    service |-> DefaultService ]

\* The handle of an import slot.
ConnectionSecretSlotRef(slot) ==
  [ handle  |-> <<"connections", "/">>
                  \o EncodeHandleComponent(slot.profileId)
                  \o <<"/", "slots", "/", StoreName[slot.purpose], "/">>
                  \o EncodeHandleComponent(slot.path),
    service |-> DefaultService ]

\* A handle is made for no id or path that is not one.
RefOk(s) == /\ ValidHandlePart(s.profileId)
            /\ "path" \in DOMAIN s => ValidHandlePart(s.path)

-----------------------------------------------------------------------------
(* The stores.  The one in memory knows a secret by its handle, the        *)
(* keychain of macOS or Linux by its service and its handle, the Windows   *)
(* Credential Manager by one name made of both.                            *)

MemoryAccount(ref)   == ref.handle
ServiceName(ref)     == IF ref.service = Absent THEN DefaultService ELSE ref.service
KeychainAccount(ref) == <<ServiceName(ref), ref.handle>>
WindowsTarget(ref)   == ServiceName(ref) \o <<"/">> \o ref.handle

Put(store, account, value) ==
  [a \in DOMAIN store \cup {account} |->
     IF a = account THEN value ELSE store[a]]

Delete(store, account) == Restrict(store, DOMAIN store \ {account})

Lookup(store, account) ==
  IF account \in DOMAIN store THEN store[account] ELSE Absent

\* What comes back from a command of macOS or Linux.
TrimTrailingNewline(value) ==
  LET last == CHOOSE n \in 0 .. Len(value) :
                /\ n > 0 => value[n] # "nl"
                /\ \A i \in n + 1 .. Len(value) : value[i] = "nl"
  IN  SubSeq(value, 1, last)

\* What Windows takes: 2560 bytes, which a text with "large" in it exceeds.
FitsCredential(value) == \A i \in DOMAIN value : value[i] # "large"
=============================================================================
