----------------------- MODULE ProfileTransferProofs -----------------------
(***************************************************************************)
(* Proofs about ProfileTransfer: a stored secret is read back into the     *)
(* place it was taken from, the slots an export lists are the places of    *)
(* its secrets, one for each, and an export is refused only for a secret   *)
(* it must not carry.  The argument goes in five steps:                    *)
(*   - the handle a slot is stored under names the slot (escape_component  *)
(*     leaves codes of which none begins another);                         *)
(*   - the tables from_profiles goes by match the variants' own fields;    *)
(*   - what the walk over a profile lists and puts into the bundle is what *)
(*     its SSH, TLS and proxy settings hold;                               *)
(*   - what the calls carry to the store and back: the inductive invariant *)
(*     of the first theorem;                                               *)
(*   - the slots of every bundle of a list, for the other two.             *)
(***************************************************************************)
EXTENDS ProfileTransfer, SequenceFacts, FiniteSetTheorems

-----------------------------------------------------------------------------
(* Codes of ids and paths.  No code begins with another one.               *)

\* What stands for a token in a code.
CodeTokens == {"%", "2F", "25", "20"}
Part(x)    == IF x \in DOMAIN Code THEN <<"%", Code[x]>> ELSE <<x>>
Parts(t)   == [i \in DOMAIN t |-> Part(t[i])]

\* A token becomes one token or two.
LEMMA PartType ==
  ASSUME NEW T, NEW x \in T
  PROVE  Part(x) \in Seq(T \cup CodeTokens) /\ Len(Part(x)) > 0
  <1>1. CASE x \in DOMAIN Code
    <2>1. Code[x] \in CodeTokens /\ "%" \in CodeTokens
      BY <1>1 DEF Code, CodeTokens
    <2>2. Part(x) = <<"%", Code[x]>>
      BY <1>1 DEF Part
    <2> QED BY <2>1, <2>2
  <1>2. CASE x \notin DOMAIN Code
    <2>1. Part(x) = <<x>>
      BY <1>2 DEF Part
    <2> QED BY <2>1
  <1> QED BY <1>1, <1>2

\* No part begins with another one.
LEMMA PartsTellApart ==
  ASSUME NEW x, NEW y,
         \A k \in Nat \ {0} :
           k <= Len(Part(x)) /\ k <= Len(Part(y)) => Part(x)[k] = Part(y)[k]
  PROVE  x = y
  <1>1. CASE x \in DOMAIN Code /\ y \in DOMAIN Code
    <2>1. Part(x) = <<"%", Code[x]>> /\ Part(y) = <<"%", Code[y]>>
      BY <1>1 DEF Part
    <2>2. Code[x] = Code[y]
      BY <2>1
    <2> QED BY <1>1, <2>2 DEF Code
  <1>2. CASE x \in DOMAIN Code /\ y \notin DOMAIN Code
    <2>1. Part(x) = <<"%", Code[x]>> /\ Part(y) = <<y>>
      BY <1>2 DEF Part
    <2>2. y = "%"
      BY <2>1
    <2> QED BY <1>2, <2>2 DEF Code
  <1>3. CASE x \notin DOMAIN Code /\ y \in DOMAIN Code
    <2>1. Part(y) = <<"%", Code[y]>> /\ Part(x) = <<x>>
      BY <1>3 DEF Part
    <2>2. x = "%"
      BY <2>1
    <2> QED BY <1>3, <2>2 DEF Code
  <1>4. CASE x \notin DOMAIN Code /\ y \notin DOMAIN Code
    <2>1. Part(x) = <<x>> /\ Part(y) = <<y>>
      BY <1>4 DEF Part
    <2> QED BY <2>1
  <1> QED BY <1>1, <1>2, <1>3, <1>4

\* A code is put together from those of the tokens.
LEMMA EncodedParts ==
  ASSUME NEW T, NEW t \in Seq(T)
  PROVE  /\ Parts(t) \in Seq(Seq(T \cup CodeTokens)) /\ Len(Parts(t)) = Len(t)
         /\ \A i \in 1 .. Len(t) : Parts(t)[i] = Part(t[i])
         /\ EncodeHandleComponent(t) = FlattenSeq(Parts(t))
         /\ EncodeHandleComponent(t) \in Seq(T \cup CodeTokens)
  <1>1. DOMAIN t = 1 .. Len(t) /\ Len(t) \in Nat /\ \A i \in 1 .. Len(t) : t[i] \in T
    OBVIOUS
  <1>2. \A i \in 1 .. Len(t) : Part(t[i]) \in Seq(T \cup CodeTokens)
    BY <1>1, PartType
  <1>3. Parts(t) \in Seq(Seq(T \cup CodeTokens)) /\ Len(Parts(t)) = Len(t)
    BY <1>1, <1>2 DEF Parts
  <1>4. \A i \in 1 .. Len(t) : Parts(t)[i] = Part(t[i])
    BY <1>1 DEF Parts
  <1>5. EncodeHandleComponent(t) = FlattenSeq(Parts(t))
    BY DEF EncodeHandleComponent, Parts, Part
  <1> QED BY <1>3, <1>4, <1>5, FlattenType

\* What was encoded can be told from its code.
LEMMA EncodeIsUnique ==
  ASSUME NEW T, NEW s \in Seq(T), NEW t \in Seq(T),
         EncodeHandleComponent(s) = EncodeHandleComponent(t)
  PROVE  s = t
  <1>1. PICK u \in Seq(Seq(T \cup CodeTokens)) : u = Parts(s)
    BY EncodedParts
  <1>2. PICK v \in Seq(Seq(T \cup CodeTokens)) : v = Parts(t)
    BY EncodedParts
  <1>3. FlattenSeq(u) = FlattenSeq(v)
    BY <1>1, <1>2, EncodedParts
  <1>4. /\ Len(u) = Len(s) /\ \A i \in 1 .. Len(s) : u[i] = Part(s[i])
        /\ Len(v) = Len(t) /\ \A i \in 1 .. Len(t) : v[i] = Part(t[i])
    BY <1>1, <1>2, EncodedParts
  <1>5. /\ \A i \in 1 .. Len(s) : s[i] \in T /\ Len(u[i]) > 0
        /\ \A i \in 1 .. Len(t) : t[i] \in T /\ Len(v[i]) > 0
    BY <1>4, PartType
  <1>6. ASSUME NEW i \in 1 .. Len(u), NEW j \in 1 .. Len(v),
               \A k \in Nat \ {0} : k <= Len(u[i]) /\ k <= Len(v[j]) => u[i][k] = v[j][k]
        PROVE  u[i] = v[j]
    <2>1. u[i] = Part(s[i]) /\ v[j] = Part(t[j])
      BY <1>4
    <2>2. PICK x : x = s[i]
      OBVIOUS
    <2>3. PICK y : y = t[j]
      OBVIOUS
    <2>4. u[i] = Part(x) /\ v[j] = Part(y)
      BY <2>1, <2>2, <2>3
    <2>5. \A k \in Nat \ {0} :
            k <= Len(Part(x)) /\ k <= Len(Part(y)) => Part(x)[k] = Part(y)[k]
      BY <1>6, <2>4
    <2>6. x = y
      BY <2>5, PartsTellApart
    <2> QED BY <2>4, <2>6
  <1>7. u = v
    BY <1>3, <1>4, <1>5, <1>6, FlattenIsUnique
  <1>8. Len(s) = Len(t)
    BY <1>4, <1>7
  <1>9. ASSUME NEW i \in 1 .. Len(s) PROVE s[i] = t[i]
    <2>1. Part(s[i]) = Part(t[i])
      BY <1>4, <1>7, <1>8
    <2> QED BY <2>1, PartsTellApart
  <1> QED BY <1>8, <1>9, SeqEqual

\* A code has no separator in it.
LEMMA EncodeHasNoSlash ==
  ASSUME NEW T, NEW t \in Seq(T), NEW k \in 1 .. Len(EncodeHandleComponent(t))
  PROVE  EncodeHandleComponent(t)[k] # "/"
  <1>1. PICK u \in Seq(Seq(T \cup CodeTokens)) : u = Parts(t)
    BY EncodedParts
  <1>2. PICK e \in Seq(T \cup CodeTokens) : e = EncodeHandleComponent(t)
    BY EncodedParts
  <1>3. e = FlattenSeq(u)
    BY <1>1, <1>2, EncodedParts
  <1>4. ToSet(e) = UNION {ToSet(u[i]) : i \in 1 .. Len(u)}
    BY <1>3, FlattenElements
  <1>5. e[k] \in ToSet(e)
    BY <1>2 DEF ToSet
  <1>6. PICK i \in 1 .. Len(u) : e[k] \in ToSet(u[i])
    BY <1>4, <1>5
  <1>7. u[i] = Part(t[i])
    BY <1>1, <1>6, EncodedParts
  <1>8. CASE t[i] \in DOMAIN Code
    <2>1. u[i] = <<"%", Code[t[i]]>>
      BY <1>7, <1>8 DEF Part
    <2>2. e[k] = "%" \/ e[k] = Code[t[i]]
      BY <1>6, <2>1 DEF ToSet
    <2> QED BY <1>2, <1>8, <2>2 DEF Code
  <1>9. CASE t[i] \notin DOMAIN Code
    <2>1. u[i] = <<t[i]>>
      BY <1>7, <1>9 DEF Part
    <2>2. e[k] = t[i]
      BY <1>6, <2>1 DEF ToSet
    <2> QED BY <1>2, <1>9, <2>2 DEF Code
  <1> QED BY <1>8, <1>9

\* A token that needs no code is encoded as it is.
LEMMA EncodeAppend ==
  ASSUME NEW T, NEW t \in Seq(T), NEW x \in T, x \notin DOMAIN Code
  PROVE  EncodeHandleComponent(Append(t, x)) = Append(EncodeHandleComponent(t), x)
  <1>1. PICK u \in Seq(Seq(T \cup CodeTokens)) : u = Parts(t)
    BY EncodedParts
  <1>2. PICK tx \in Seq(T) : tx = Append(t, x)
    BY AppendProperties
  <1>3. PICK v \in Seq(Seq(T \cup CodeTokens)) : v = Parts(tx)
    BY EncodedParts
  <1>4. PICK part \in Seq(T \cup CodeTokens) : part = <<x>>
    <2>1. <<x>> \in Seq(T \cup CodeTokens)
      OBVIOUS
    <2> QED BY <2>1
  <1>5. Part(x) = part
    BY <1>4 DEF Part
  <1>6. Len(tx) = Len(t) + 1 /\ tx[Len(t) + 1] = x /\ \A i \in 1 .. Len(t) : tx[i] = t[i]
    BY <1>2
  <1>7. /\ Len(v) = Len(tx) /\ \A i \in 1 .. Len(tx) : v[i] = Part(tx[i])
        /\ Len(u) = Len(t) /\ \A i \in 1 .. Len(t) : u[i] = Part(t[i])
    BY <1>1, <1>3, EncodedParts
  <1>8. PICK w \in Seq(Seq(T \cup CodeTokens)) : w = Append(u, part)
    BY AppendProperties
  <1>9. Len(w) = Len(v)
    BY <1>6, <1>7, <1>8
  <1>10. ASSUME NEW i \in 1 .. Len(v) PROVE v[i] = w[i]
    <2>1. CASE i \in 1 .. Len(t)
      BY <2>1, <1>6, <1>7, <1>8
    <2>2. CASE i = Len(t) + 1
      BY <2>2, <1>5, <1>6, <1>7, <1>8
    <2> QED BY <2>1, <2>2, <1>6, <1>7
  <1>11. v = w
    BY <1>9, <1>10, SeqEqual
  <1>12. FlattenSeq(Append(u, part)) = FlattenSeq(u) \o part
    BY FlattenAppend
  <1>13. PICK e \in Seq(T \cup CodeTokens) : e = EncodeHandleComponent(t)
    BY EncodedParts
  <1>14. e \o <<x>> = Append(e, x)
    OBVIOUS
  <1>15. EncodeHandleComponent(tx) = FlattenSeq(v)
    BY <1>3, EncodedParts
  <1>16. e = FlattenSeq(u)
    BY <1>1, <1>13, EncodedParts
  <1> QED BY <1>2, <1>4, <1>8, <1>11, <1>12, <1>13, <1>14, <1>15, <1>16


-----------------------------------------------------------------------------
(* The tables of slots ask for the secrets of the variants.                *)

\* The fields that hold secrets, and the entries of a table for them.
Fields ==
  { "password", "token", "apiKey", "privateKey", "passphrase", "cert", "key",
    "keytab", "clientSecret", "refreshToken", "secretAccessKey", "sessionToken",
    "externalId", "credentials", "subjectToken", "certificate", "rootCert",
    "clientCert", "clientKey" }
Entries == [field : Fields, purpose : DOMAIN StoreName, flag : BOOLEAN]

\* A table asks for the secrets of a variant, each once.
Matches(table, shape) ==
  /\ table \in Seq(Entries)
  /\ \A i, j \in DOMAIN table : table[i].field = table[j].field => i = j
  /\ {table[i].field : i \in {j \in DOMAIN table : ~table[j].flag}} = shape.secrets
  /\ {table[i].field : i \in {j \in DOMAIN table : table[j].flag}} = shape.optSecrets

\* The names of fields are encoded as they are.
LEMMA FieldsNeedNoCode == Fields \cap DOMAIN Code = {}
  BY DEF Fields, Code

\* The purposes a secret has a name in the store for.
LEMMA Purposes ==
  DOMAIN StoreName =
    { "Password", "Token", "ApiKey", "PrivateKey", "Passphrase",
      "ClientCertificate", "ClientKey", "ClientCertificatePassphrase",
      "KerberosKeytab", "OAuthClientSecret", "OAuthRefreshToken",
      "AwsSecretAccessKey", "AwsSessionToken", "AwsWebIdentityToken",
      "AwsExternalId", "GcpServiceAccountJson", "GcpSubjectToken",
      "AzureClientSecret", "AzureClientCertificate", "AzurePrivateKey",
      "AzureCertificatePassphrase", "TlsRootCertificate",
      "TlsClientCertificate", "TlsClientKey", "SshPassword", "ProxyPassword" }
  BY DEF StoreName

\* What the two kinds of entry say.
LEMMA EntryTypes ==
  ASSUME NEW f \in Fields, NEW p \in DOMAIN StoreName
  PROVE  /\ Slot(f, p) \in Entries /\ SlotIf(f, p) \in Entries
         /\ Slot(f, p).field = f /\ SlotIf(f, p).field = f
         /\ Slot(f, p).flag = FALSE /\ SlotIf(f, p).flag = TRUE
  BY DEF Slot, SlotIf, Entries

\* Tables of none, one, two and three entries.
LEMMA NoneMatches ==
  ASSUME NEW shape, shape.secrets = {}, shape.optSecrets = {}
  PROVE  Matches(<< >>, shape)
  <1>1. << >> \in Seq(Entries) /\ DOMAIN << >> = {}
    OBVIOUS
  <1> QED BY <1>1 DEF Matches

LEMMA OneMatches ==
  ASSUME NEW e \in Entries, NEW shape,
         shape.secrets = {x.field : x \in {y \in {e} : ~y.flag}},
         shape.optSecrets = {x.field : x \in {y \in {e} : y.flag}}
  PROVE  Matches(<<e>>, shape)
  <1>1. <<e>> \in Seq(Entries) /\ DOMAIN <<e>> = {1} /\ <<e>>[1] = e
    OBVIOUS
  <1> QED BY <1>1 DEF Matches

LEMMA TwoMatch ==
  ASSUME NEW e \in Entries, NEW f \in Entries, NEW shape, e.field # f.field,
         shape.secrets = {x.field : x \in {y \in {e, f} : ~y.flag}},
         shape.optSecrets = {x.field : x \in {y \in {e, f} : y.flag}}
  PROVE  Matches(<<e, f>>, shape)
  <1>1. PICK t : t = <<e, f>>
    OBVIOUS
  <1>2. t \in Seq(Entries) /\ DOMAIN t = {1, 2} /\ t[1] = e /\ t[2] = f
    BY <1>1
  <1>3. \A i, j \in DOMAIN t : t[i].field = t[j].field => i = j
    BY <1>2
  <1>4. {t[i].field : i \in {j \in DOMAIN t : ~t[j].flag}} = shape.secrets
    BY <1>2
  <1>5. {t[i].field : i \in {j \in DOMAIN t : t[j].flag}} = shape.optSecrets
    BY <1>2
  <1> QED BY <1>1, <1>2, <1>3, <1>4, <1>5 DEF Matches

LEMMA ThreeMatch ==
  ASSUME NEW e \in Entries, NEW f \in Entries, NEW g \in Entries, NEW shape,
         e.field # f.field, e.field # g.field, f.field # g.field,
         shape.secrets = {x.field : x \in {y \in {e, f, g} : ~y.flag}},
         shape.optSecrets = {x.field : x \in {y \in {e, f, g} : y.flag}}
  PROVE  Matches(<<e, f, g>>, shape)
  <1>1. PICK t : t = <<e, f, g>>
    OBVIOUS
  <1>2. /\ t \in Seq(Entries) /\ DOMAIN t = {1, 2, 3}
        /\ t[1] = e /\ t[2] = f /\ t[3] = g
    BY <1>1
  <1>3. \A i, j \in DOMAIN t : t[i].field = t[j].field => i = j
    BY <1>2
  <1>4. {t[i].field : i \in {j \in DOMAIN t : ~t[j].flag}} = shape.secrets
    BY <1>2
  <1>5. {t[i].field : i \in {j \in DOMAIN t : t[j].flag}} = shape.optSecrets
    BY <1>2
  <1> QED BY <1>1, <1>2, <1>3, <1>4, <1>5 DEF Matches

\* The tables there are: some slots a variant always has, some it may have.
LEMMA SlotMatches ==
  ASSUME NEW f \in Fields,
         NEW p \in DOMAIN StoreName,
         NEW shape,
         shape.secrets = {f}, shape.optSecrets = {}
  PROVE  Matches(<<Slot(f, p)>>, shape)
  <1>1. PICK x \in Entries : /\ x = Slot(f, p) /\ x.field = f
                            /\ x.flag = FALSE
    BY EntryTypes
  <1>2. /\ shape.secrets = {e.field : e \in {d \in {x} : ~d.flag}}
        /\ shape.optSecrets = {e.field : e \in {d \in {x} : d.flag}}
    BY <1>1
  <1>3. Matches(<<x>>, shape)
    BY <1>1, <1>2, OneMatches
  <1> QED BY <1>1, <1>3

LEMMA SlotIfMatches ==
  ASSUME NEW f \in Fields,
         NEW p \in DOMAIN StoreName,
         NEW shape,
         shape.secrets = {}, shape.optSecrets = {f}
  PROVE  Matches(<<SlotIf(f, p)>>, shape)
  <1>1. PICK x \in Entries : /\ x = SlotIf(f, p) /\ x.field = f
                            /\ x.flag = TRUE
    BY EntryTypes
  <1>2. /\ shape.secrets = {e.field : e \in {d \in {x} : ~d.flag}}
        /\ shape.optSecrets = {e.field : e \in {d \in {x} : d.flag}}
    BY <1>1
  <1>3. Matches(<<x>>, shape)
    BY <1>1, <1>2, OneMatches
  <1> QED BY <1>1, <1>3

LEMMA SlotAndIfMatch ==
  ASSUME NEW f \in Fields, NEW g \in Fields,
         NEW p \in DOMAIN StoreName, NEW q \in DOMAIN StoreName,
         NEW shape, f # g,
         shape.secrets = {f}, shape.optSecrets = {g}
  PROVE  Matches(<<Slot(f, p), SlotIf(g, q)>>, shape)
  <1>1. PICK x \in Entries : /\ x = Slot(f, p) /\ x.field = f
                            /\ x.flag = FALSE
    BY EntryTypes
  <1>2. PICK y \in Entries : /\ y = SlotIf(g, q) /\ y.field = g
                            /\ y.flag = TRUE
    BY EntryTypes
  <1>3. /\ shape.secrets = {e.field : e \in {d \in {x, y} : ~d.flag}}
        /\ shape.optSecrets = {e.field : e \in {d \in {x, y} : d.flag}}
    BY <1>1, <1>2
  <1>4. Matches(<<x, y>>, shape)
    BY <1>1, <1>2, <1>3, TwoMatch
  <1> QED BY <1>1, <1>2, <1>4

LEMMA TwoIfMatch ==
  ASSUME NEW f \in Fields, NEW g \in Fields,
         NEW p \in DOMAIN StoreName, NEW q \in DOMAIN StoreName,
         NEW shape, f # g,
         shape.secrets = {}, shape.optSecrets = {f, g}
  PROVE  Matches(<<SlotIf(f, p), SlotIf(g, q)>>, shape)
  <1>1. PICK x \in Entries : /\ x = SlotIf(f, p) /\ x.field = f
                            /\ x.flag = TRUE
    BY EntryTypes
  <1>2. PICK y \in Entries : /\ y = SlotIf(g, q) /\ y.field = g
                            /\ y.flag = TRUE
    BY EntryTypes
  <1>3. /\ shape.secrets = {e.field : e \in {d \in {x, y} : ~d.flag}}
        /\ shape.optSecrets = {e.field : e \in {d \in {x, y} : d.flag}}
    BY <1>1, <1>2
  <1>4. Matches(<<x, y>>, shape)
    BY <1>1, <1>2, <1>3, TwoMatch
  <1> QED BY <1>1, <1>2, <1>4

LEMMA TwoAndIfMatch ==
  ASSUME NEW f \in Fields, NEW g \in Fields, NEW h \in Fields,
         NEW p \in DOMAIN StoreName, NEW q \in DOMAIN StoreName, NEW r \in DOMAIN StoreName,
         NEW shape, f # g, f # h, g # h,
         shape.secrets = {f, g}, shape.optSecrets = {h}
  PROVE  Matches(<<Slot(f, p), Slot(g, q), SlotIf(h, r)>>, shape)
  <1>1. PICK x \in Entries : /\ x = Slot(f, p) /\ x.field = f
                            /\ x.flag = FALSE
    BY EntryTypes
  <1>2. PICK y \in Entries : /\ y = Slot(g, q) /\ y.field = g
                            /\ y.flag = FALSE
    BY EntryTypes
  <1>3. PICK z \in Entries : /\ z = SlotIf(h, r) /\ z.field = h
                            /\ z.flag = TRUE
    BY EntryTypes
  <1>4. /\ shape.secrets = {e.field : e \in {d \in {x, y, z} : ~d.flag}}
        /\ shape.optSecrets = {e.field : e \in {d \in {x, y, z} : d.flag}}
    BY <1>1, <1>2, <1>3
  <1>5. Matches(<<x, y, z>>, shape)
    BY <1>1, <1>2, <1>3, <1>4, ThreeMatch
  <1> QED BY <1>1, <1>2, <1>3, <1>5

LEMMA ThreeIfMatch ==
  ASSUME NEW f \in Fields, NEW g \in Fields, NEW h \in Fields,
         NEW p \in DOMAIN StoreName, NEW q \in DOMAIN StoreName, NEW r \in DOMAIN StoreName,
         NEW shape, f # g, f # h, g # h,
         shape.secrets = {}, shape.optSecrets = {f, g, h}
  PROVE  Matches(<<SlotIf(f, p), SlotIf(g, q), SlotIf(h, r)>>, shape)
  <1>1. PICK x \in Entries : /\ x = SlotIf(f, p) /\ x.field = f
                            /\ x.flag = TRUE
    BY EntryTypes
  <1>2. PICK y \in Entries : /\ y = SlotIf(g, q) /\ y.field = g
                            /\ y.flag = TRUE
    BY EntryTypes
  <1>3. PICK z \in Entries : /\ z = SlotIf(h, r) /\ z.field = h
                            /\ z.flag = TRUE
    BY EntryTypes
  <1>4. /\ shape.secrets = {e.field : e \in {d \in {x, y, z} : ~d.flag}}
        /\ shape.optSecrets = {e.field : e \in {d \in {x, y, z} : d.flag}}
    BY <1>1, <1>2, <1>3
  <1>5. Matches(<<x, y, z>>, shape)
    BY <1>1, <1>2, <1>3, <1>4, ThreeMatch
  <1> QED BY <1>1, <1>2, <1>3, <1>5


\* The table of every variant matches the secrets of that variant.
LEMMA SshMatches ==
  ASSUME NEW k \in DOMAIN SshAuthConfig
  PROVE  Matches(SshSlots[k], SshAuthConfig[k])
  <1>1. CASE k = "agent"
    <2>1. /\ SshSlots[k] = << >>
          /\ SshAuthConfig[k].secrets = {}
          /\ SshAuthConfig[k].optSecrets = {}
      BY <1>1 DEF SshSlots, SshAuthConfig, Shape
    <2> QED BY <2>1, NoneMatches
  <1>2. CASE k = "password"
    <2>1. SshSlots[k] = <<Slot("password", "SshPassword")>>
      BY <1>2 DEF SshSlots
    <2>2. /\ SshAuthConfig[k].secrets = {"password"}
          /\ SshAuthConfig[k].optSecrets = {}
      BY <1>2 DEF SshAuthConfig, Shape
    <2>3. "password" \in Fields
      BY DEF Fields
    <2>4. "SshPassword" \in DOMAIN StoreName
      BY Purposes
    <2> QED BY <2>1, <2>2, <2>3, <2>4, SlotMatches
  <1>3. CASE k = "privateKey"
    <2>1. SshSlots[k] = <<Slot("privateKey", "PrivateKey"),
                          SlotIf("passphrase", "Passphrase")>>
      BY <1>3 DEF SshSlots
    <2>2. /\ SshAuthConfig[k].secrets = {"privateKey"}
          /\ SshAuthConfig[k].optSecrets = {"passphrase"}
      BY <1>3 DEF SshAuthConfig, Shape
    <2>3. "privateKey" \in Fields /\ "passphrase" \in Fields
      BY DEF Fields
    <2>4. /\ "PrivateKey" \in DOMAIN StoreName
          /\ "Passphrase" \in DOMAIN StoreName
      BY Purposes
    <2> QED BY <2>1, <2>2, <2>3, <2>4, SlotAndIfMatch
  <1>4. DOMAIN SshAuthConfig = {"agent", "password", "privateKey"}
    BY DEF SshAuthConfig
  <1> QED BY <1>1, <1>2, <1>3, <1>4


LEMMA AwsMatches ==
  ASSUME NEW k \in DOMAIN AwsAuthSource
  PROVE  Matches(AwsSlots[k], AwsAuthSource[k])
  <1>1. CASE k = "chain"
    <2>1. /\ AwsSlots[k] = << >>
          /\ AwsAuthSource[k].secrets = {}
          /\ AwsAuthSource[k].optSecrets = {}
      BY <1>1 DEF AwsSlots, AwsAuthSource, Shape
    <2> QED BY <2>1, NoneMatches
  <1>2. CASE k = "static"
    <2>1. AwsSlots[k] = <<Slot("secretAccessKey", "AwsSecretAccessKey"),
                          SlotIf("sessionToken", "AwsSessionToken")>>
      BY <1>2 DEF AwsSlots
    <2>2. /\ AwsAuthSource[k].secrets = {"secretAccessKey"}
          /\ AwsAuthSource[k].optSecrets = {"sessionToken"}
      BY <1>2 DEF AwsAuthSource, Shape
    <2>3. "secretAccessKey" \in Fields /\ "sessionToken" \in Fields
      BY DEF Fields
    <2>4. /\ "AwsSecretAccessKey" \in DOMAIN StoreName
          /\ "AwsSessionToken" \in DOMAIN StoreName
      BY Purposes
    <2> QED BY <2>1, <2>2, <2>3, <2>4, SlotAndIfMatch
  <1>3. CASE k = "profile"
    <2>1. /\ AwsSlots[k] = << >>
          /\ AwsAuthSource[k].secrets = {}
          /\ AwsAuthSource[k].optSecrets = {}
      BY <1>3 DEF AwsSlots, AwsAuthSource, Shape
    <2> QED BY <2>1, NoneMatches
  <1>4. CASE k = "sso"
    <2>1. /\ AwsSlots[k] = << >>
          /\ AwsAuthSource[k].secrets = {}
          /\ AwsAuthSource[k].optSecrets = {}
      BY <1>4 DEF AwsSlots, AwsAuthSource, Shape
    <2> QED BY <2>1, NoneMatches
  <1>5. CASE k = "webIdentity"
    <2>1. AwsSlots[k] = <<Slot("token", "AwsWebIdentityToken")>>
      BY <1>5 DEF AwsSlots
    <2>2. /\ AwsAuthSource[k].secrets = {"token"}
          /\ AwsAuthSource[k].optSecrets = {}
      BY <1>5 DEF AwsAuthSource, Shape
    <2>3. "token" \in Fields
      BY DEF Fields
    <2>4. "AwsWebIdentityToken" \in DOMAIN StoreName
      BY Purposes
    <2> QED BY <2>1, <2>2, <2>3, <2>4, SlotMatches
  <1>6. CASE k = "assumeRole"
    <2>1. AwsSlots[k] = <<SlotIf("externalId", "AwsExternalId")>>
      BY <1>6 DEF AwsSlots
    <2>2. /\ AwsAuthSource[k].secrets = {}
          /\ AwsAuthSource[k].optSecrets = {"externalId"}
      BY <1>6 DEF AwsAuthSource, Shape
    <2>3. "externalId" \in Fields
      BY DEF Fields
    <2>4. "AwsExternalId" \in DOMAIN StoreName
      BY Purposes
    <2> QED BY <2>1, <2>2, <2>3, <2>4, SlotIfMatches
  <1>7. DOMAIN AwsAuthSource =
          {"chain", "static", "profile", "sso", "webIdentity", "assumeRole"}
    BY DEF AwsAuthSource
  <1> QED BY <1>1, <1>2, <1>3, <1>4, <1>5, <1>6, <1>7


LEMMA GcpMatches ==
  ASSUME NEW k \in DOMAIN GcpAuthSource
  PROVE  Matches(GcpSlots[k], GcpAuthSource[k])
  <1>1. CASE k = "adc"
    <2>1. /\ GcpSlots[k] = << >>
          /\ GcpAuthSource[k].secrets = {}
          /\ GcpAuthSource[k].optSecrets = {}
      BY <1>1 DEF GcpSlots, GcpAuthSource, Shape
    <2> QED BY <2>1, NoneMatches
  <1>2. CASE k = "serviceAccountJson"
    <2>1. GcpSlots[k] = <<Slot("credentials", "GcpServiceAccountJson")>>
      BY <1>2 DEF GcpSlots
    <2>2. /\ GcpAuthSource[k].secrets = {"credentials"}
          /\ GcpAuthSource[k].optSecrets = {}
      BY <1>2 DEF GcpAuthSource, Shape
    <2>3. "credentials" \in Fields
      BY DEF Fields
    <2>4. "GcpServiceAccountJson" \in DOMAIN StoreName
      BY Purposes
    <2> QED BY <2>1, <2>2, <2>3, <2>4, SlotMatches
  <1>3. CASE k = "impersonation"
    <2>1. /\ GcpSlots[k] = << >>
          /\ GcpAuthSource[k].secrets = {}
          /\ GcpAuthSource[k].optSecrets = {}
      BY <1>3 DEF GcpSlots, GcpAuthSource, Shape
    <2> QED BY <2>1, NoneMatches
  <1>4. CASE k = "workloadIdentity"
    <2>1. GcpSlots[k] = <<Slot("subjectToken", "GcpSubjectToken")>>
      BY <1>4 DEF GcpSlots
    <2>2. /\ GcpAuthSource[k].secrets = {"subjectToken"}
          /\ GcpAuthSource[k].optSecrets = {}
      BY <1>4 DEF GcpAuthSource, Shape
    <2>3. "subjectToken" \in Fields
      BY DEF Fields
    <2>4. "GcpSubjectToken" \in DOMAIN StoreName
      BY Purposes
    <2> QED BY <2>1, <2>2, <2>3, <2>4, SlotMatches
  <1>5. DOMAIN GcpAuthSource =
          {"adc", "serviceAccountJson", "impersonation", "workloadIdentity"}
    BY DEF GcpAuthSource
  <1> QED BY <1>1, <1>2, <1>3, <1>4, <1>5


LEMMA AzureMatches ==
  ASSUME NEW k \in DOMAIN AzureAuthSource
  PROVE  Matches(AzureSlots[k], AzureAuthSource[k])
  <1>1. CASE k = "cli"
    <2>1. /\ AzureSlots[k] = << >>
          /\ AzureAuthSource[k].secrets = {}
          /\ AzureAuthSource[k].optSecrets = {}
      BY <1>1 DEF AzureSlots, AzureAuthSource, Shape
    <2> QED BY <2>1, NoneMatches
  <1>2. CASE k = "managedIdentity"
    <2>1. /\ AzureSlots[k] = << >>
          /\ AzureAuthSource[k].secrets = {}
          /\ AzureAuthSource[k].optSecrets = {}
      BY <1>2 DEF AzureSlots, AzureAuthSource, Shape
    <2> QED BY <2>1, NoneMatches
  <1>3. CASE k = "servicePrincipal"
    <2>1. AzureSlots[k] = <<Slot("clientSecret", "AzureClientSecret")>>
      BY <1>3 DEF AzureSlots
    <2>2. /\ AzureAuthSource[k].secrets = {"clientSecret"}
          /\ AzureAuthSource[k].optSecrets = {}
      BY <1>3 DEF AzureAuthSource, Shape
    <2>3. "clientSecret" \in Fields
      BY DEF Fields
    <2>4. "AzureClientSecret" \in DOMAIN StoreName
      BY Purposes
    <2> QED BY <2>1, <2>2, <2>3, <2>4, SlotMatches
  <1>4. CASE k = "servicePrincipalCertificate"
    <2>1. AzureSlots[k] = <<Slot("certificate", "AzureClientCertificate"),
                            Slot("privateKey", "AzurePrivateKey"),
                            SlotIf("passphrase", "AzureCertificatePassphrase")>>
      BY <1>4 DEF AzureSlots
    <2>2. /\ AzureAuthSource[k].secrets = {"certificate", "privateKey"}
          /\ AzureAuthSource[k].optSecrets = {"passphrase"}
      BY <1>4 DEF AzureAuthSource, Shape
    <2>3. /\ "certificate" \in Fields
          /\ "privateKey" \in Fields
          /\ "passphrase" \in Fields
      BY DEF Fields
    <2>4. /\ "AzureClientCertificate" \in DOMAIN StoreName
          /\ "AzurePrivateKey" \in DOMAIN StoreName
          /\ "AzureCertificatePassphrase" \in DOMAIN StoreName
      BY Purposes
    <2> QED BY <2>1, <2>2, <2>3, <2>4, TwoAndIfMatch
  <1>5. DOMAIN AzureAuthSource =
          {"cli", "managedIdentity", "servicePrincipal",
           "servicePrincipalCertificate"}
    BY DEF AzureAuthSource
  <1> QED BY <1>1, <1>2, <1>3, <1>4, <1>5


LEMMA AuthMatches ==
  ASSUME NEW k \in DOMAIN AuthConfig
  PROVE  Matches(AuthSlots[k], AuthConfig[k])
  <1>1. CASE k = "none"
    <2>1. /\ AuthSlots[k] = << >>
          /\ AuthConfig[k].secrets = {}
          /\ AuthConfig[k].optSecrets = {}
      BY <1>1 DEF AuthSlots, AuthConfig, Shape
    <2> QED BY <2>1, NoneMatches
  <1>2. CASE k = "password"
    <2>1. AuthSlots[k] = <<Slot("password", "Password")>>
      BY <1>2 DEF AuthSlots
    <2>2. AuthConfig[k].secrets = {"password"} /\ AuthConfig[k].optSecrets = {}
      BY <1>2 DEF AuthConfig, Shape
    <2>3. "password" \in Fields
      BY DEF Fields
    <2>4. "Password" \in DOMAIN StoreName
      BY Purposes
    <2> QED BY <2>1, <2>2, <2>3, <2>4, SlotMatches
  <1>3. CASE k = "token"
    <2>1. AuthSlots[k] = <<Slot("token", "Token")>>
      BY <1>3 DEF AuthSlots
    <2>2. AuthConfig[k].secrets = {"token"} /\ AuthConfig[k].optSecrets = {}
      BY <1>3 DEF AuthConfig, Shape
    <2>3. "token" \in Fields
      BY DEF Fields
    <2>4. "Token" \in DOMAIN StoreName
      BY Purposes
    <2> QED BY <2>1, <2>2, <2>3, <2>4, SlotMatches
  <1>4. CASE k = "apiKey"
    <2>1. AuthSlots[k] = <<Slot("apiKey", "ApiKey")>>
      BY <1>4 DEF AuthSlots
    <2>2. AuthConfig[k].secrets = {"apiKey"} /\ AuthConfig[k].optSecrets = {}
      BY <1>4 DEF AuthConfig, Shape
    <2>3. "apiKey" \in Fields
      BY DEF Fields
    <2>4. "ApiKey" \in DOMAIN StoreName
      BY Purposes
    <2> QED BY <2>1, <2>2, <2>3, <2>4, SlotMatches
  <1>5. CASE k = "keyPairJwt"
    <2>1. AuthSlots[k] = <<Slot("privateKey", "PrivateKey"),
                           SlotIf("passphrase", "Passphrase")>>
      BY <1>5 DEF AuthSlots
    <2>2. /\ AuthConfig[k].secrets = {"privateKey"}
          /\ AuthConfig[k].optSecrets = {"passphrase"}
      BY <1>5 DEF AuthConfig, Shape
    <2>3. "privateKey" \in Fields /\ "passphrase" \in Fields
      BY DEF Fields
    <2>4. /\ "PrivateKey" \in DOMAIN StoreName
          /\ "Passphrase" \in DOMAIN StoreName
      BY Purposes
    <2> QED BY <2>1, <2>2, <2>3, <2>4, SlotAndIfMatch
  <1>6. CASE k = "clientCertificate"
    <2>1. AuthSlots[k] = <<Slot("cert", "ClientCertificate"),
                           Slot("key", "ClientKey"),
                           SlotIf("passphrase", "ClientCertificatePassphrase")>>
      BY <1>6 DEF AuthSlots
    <2>2. /\ AuthConfig[k].secrets = {"cert", "key"}
          /\ AuthConfig[k].optSecrets = {"passphrase"}
      BY <1>6 DEF AuthConfig, Shape
    <2>3. "cert" \in Fields /\ "key" \in Fields /\ "passphrase" \in Fields
      BY DEF Fields
    <2>4. /\ "ClientCertificate" \in DOMAIN StoreName
          /\ "ClientKey" \in DOMAIN StoreName
          /\ "ClientCertificatePassphrase" \in DOMAIN StoreName
      BY Purposes
    <2> QED BY <2>1, <2>2, <2>3, <2>4, TwoAndIfMatch
  <1>7. CASE k = "kerberos"
    <2>1. AuthSlots[k] = <<Slot("keytab", "KerberosKeytab")>>
      BY <1>7 DEF AuthSlots
    <2>2. AuthConfig[k].secrets = {"keytab"} /\ AuthConfig[k].optSecrets = {}
      BY <1>7 DEF AuthConfig, Shape
    <2>3. "keytab" \in Fields
      BY DEF Fields
    <2>4. "KerberosKeytab" \in DOMAIN StoreName
      BY Purposes
    <2> QED BY <2>1, <2>2, <2>3, <2>4, SlotMatches
  <1>8. CASE k = "oauth2"
    <2>1. AuthSlots[k] = <<SlotIf("clientSecret", "OAuthClientSecret"),
                           SlotIf("refreshToken", "OAuthRefreshToken")>>
      BY <1>8 DEF AuthSlots
    <2>2. /\ AuthConfig[k].secrets = {}
          /\ AuthConfig[k].optSecrets = {"clientSecret", "refreshToken"}
      BY <1>8 DEF AuthConfig, Shape
    <2>3. "clientSecret" \in Fields /\ "refreshToken" \in Fields
      BY DEF Fields
    <2>4. /\ "OAuthClientSecret" \in DOMAIN StoreName
          /\ "OAuthRefreshToken" \in DOMAIN StoreName
      BY Purposes
    <2> QED BY <2>1, <2>2, <2>3, <2>4, TwoIfMatch
  <1>9. CASE k = "externalBrowser"
    <2>1. /\ AuthSlots[k] = << >>
          /\ AuthConfig[k].secrets = {}
          /\ AuthConfig[k].optSecrets = {}
      BY <1>9 DEF AuthSlots, AuthConfig, Shape
    <2> QED BY <2>1, NoneMatches
  <1>10. DOMAIN AuthConfig =
           {"none", "password", "token", "apiKey", "keyPairJwt",
            "clientCertificate", "kerberos", "oauth2", "externalBrowser"}
    BY DEF AuthConfig
  <1> QED BY <1>1, <1>2, <1>3, <1>4, <1>5, <1>6, <1>7, <1>8, <1>9, <1>10


-----------------------------------------------------------------------------
(* Slots listed for places: one slot for each, with its path.              *)

\* The tokens the code itself puts into a path.
Fixed == Fields \cup {".", "auth", "source", "tls", "transport", "chain", "ssh",
                      "proxy"}

\* The path of a field, all of them, and the slots that have one.
FieldPath(path, f) == Append(Append(path, "."), f)

PathsOver(T) == {FieldPath(q, f) : q \in Seq(T), f \in Fields}
SlotsOver(T) == [ profileId : Seq(T), purpose : DOMAIN StoreName,
                  path : PathsOver(T) ]

\* The secrets of a variant that are asked for.
Asked(shape, required) == shape.secrets \cup (shape.optSecrets \cap required)

\* As many slots as places, with the paths of the places.  A place is a pair
\* of a part of the profile and a path.
Lists(slots, places, T) ==
  /\ slots \in Seq(SlotsOver(T))
  /\ IsFiniteSet(places) /\ Len(slots) = Cardinality(places)
  /\ {s.path : s \in ToSet(slots)} = {x[2] : x \in places}

\* A path of a field ends with a dot and the field, and begins as before.
LEMMA FieldPaths ==
  ASSUME NEW T, NEW path \in Seq(T), NEW f \in T, "." \in T
  PROVE  /\ FieldPath(path, f) \in Seq(T) /\ path \o <<".", f>> = FieldPath(path, f)
         /\ Len(FieldPath(path, f)) = Len(path) + 2
         /\ FieldPath(path, f)[Len(path) + 1] = "."
         /\ FieldPath(path, f)[Len(path) + 2] = f
         /\ \A i \in 1 .. Len(path) : FieldPath(path, f)[i] = path[i]
  <1>1. PICK a \in Seq(T) : a = Append(path, ".")
    BY AppendProperties
  <1>2. PICK b \in Seq(T) : b = Append(a, f)
    BY AppendProperties
  <1>3. b = FieldPath(path, f)
    BY <1>1, <1>2 DEF FieldPath
  <1>4. Len(a) = Len(path) + 1 /\ a[Len(path) + 1] = "." /\ \A i \in 1 .. Len(path) : a[i] = path[i]
    BY <1>1
  <1>5. Len(b) = Len(a) + 1 /\ b[Len(a) + 1] = f /\ \A i \in 1 .. Len(a) : b[i] = a[i]
    BY <1>2
  <1>6. /\ Len(b) = Len(path) + 2
        /\ b[Len(path) + 1] = "."
        /\ b[Len(path) + 2] = f
        /\ \A i \in 1 .. Len(path) : b[i] = path[i]
    BY <1>4, <1>5
  <1>7. PICK c \in Seq(T) : c = <<".", f>>
    <2>1. <<".", f>> \in Seq(T)
      OBVIOUS
    <2> QED BY <2>1
  <1>8. Len(c) = 2 /\ c[1] = "." /\ c[2] = f
    BY <1>7
  <1>9. \A i \in 1 .. Len(c) : b[Len(path) + i] = c[i]
    BY <1>6, <1>8
  <1>10. Len(b) = Len(path) + Len(c)
    BY <1>6, <1>8
  <1>11. b = path \o c
    BY <1>6, <1>9, <1>10, IsConcat
  <1> QED BY <1>3, <1>6, <1>7, <1>11

\* The three facts about it that are used, each on its own.
LEMMA FieldPathConcat ==
  ASSUME NEW T, NEW path \in Seq(T), NEW f \in T, "." \in T
  PROVE  path \o <<".", f>> = FieldPath(path, f)
  BY ZenonT(30), FieldPaths

LEMMA FieldPathStart ==
  ASSUME NEW T, NEW path \in Seq(T), NEW f \in T, "." \in T, Len(path) > 0
  PROVE  Len(FieldPath(path, f)) > 0 /\ FieldPath(path, f)[1] = path[1]
  <1>1. 1 \in 1 .. Len(path) /\ Len(path) \in Nat
    OBVIOUS
  <1>2. Len(FieldPath(path, f)) = Len(path) + 2
    BY FieldPaths
  <1>3. \A i \in 1 .. Len(path) : FieldPath(path, f)[i] = path[i]
    BY ZenonT(30), FieldPaths
  <1> QED BY <1>1, <1>2, <1>3

LEMMA FieldPathIsUnique ==
  ASSUME NEW T, NEW path \in Seq(T), NEW f \in T, NEW g \in T, "." \in T,
         FieldPath(path, f) = FieldPath(path, g)
  PROVE  f = g
  <1>1. /\ FieldPath(path, f)[Len(path) + 2] = f
        /\ FieldPath(path, g)[Len(path) + 2] = g
    BY ZenonT(30), FieldPaths
  <1> QED BY <1>1

\* Slots put together are slots for the places put together.
LEMMA ListsNone ==
  ASSUME NEW T
  PROVE  Lists(<< >>, {}, T)
  <1>1. << >> \in Seq(SlotsOver(T)) /\ Len(<< >>) = 0 /\ ToSet(<< >>) = {}
    BY DEF ToSet
  <1> QED BY <1>1, FS_EmptySet DEF Lists

LEMMA ListsOne ==
  ASSUME NEW T, NEW s \in SlotsOver(T), NEW m
  PROVE  Lists(<<s>>, {<<m, s.path>>}, T)
  <1>1. <<s>> \in Seq(SlotsOver(T)) /\ Len(<<s>>) = 1 /\ ToSet(<<s>>) = {s}
    BY DEF ToSet
  <1>2. IsFiniteSet({<<m, s.path>>}) /\ Cardinality({<<m, s.path>>}) = 1
    BY FS_Singleton
  <1>3. {t.path : t \in ToSet(<<s>>)} = {s.path}
    BY <1>1
  <1>4. {x[2] : x \in {<<m, s.path>>}} = {s.path}
    OBVIOUS
  <1> QED BY <1>1, <1>2, <1>3, <1>4 DEF Lists

LEMMA ListsMore ==
  ASSUME NEW T, NEW a, NEW b, NEW p, NEW q,
         Lists(a, p, T), Lists(b, q, T), p \cap q = {}
  PROVE  Lists(a \o b, p \cup q, T)
  <1>1. PICK S : S = SlotsOver(T)
    OBVIOUS
  <1>2. /\ a \in Seq(S) /\ b \in Seq(S)
        /\ {s.path : s \in ToSet(a)} = {x[2] : x \in p}
        /\ {s.path : s \in ToSet(b)} = {x[2] : x \in q}
        /\ IsFiniteSet(p) /\ Len(a) = Cardinality(p)
        /\ IsFiniteSet(q) /\ Len(b) = Cardinality(q)
    BY <1>1 DEF Lists
  <1>3. PICK c \in Seq(S) : c = a \o b
    BY <1>2, ConcatProperties
  <1>4. Len(c) = Len(a) + Len(b)
    <2>1. a \in Seq(S) /\ b \in Seq(S)
      BY <1>2
    <2>2. Len(a \o b) = Len(a) + Len(b)
      BY <2>1, ConcatProperties
    <2> QED BY <1>3, <2>2
  <1>5. IsFiniteSet(p \cup q) /\ Cardinality(p \cup q) = Len(a) + Len(b)
    <2>1. IsFiniteSet(p \cap q) /\ Cardinality(p \cap q) = 0
      BY FS_EmptySet
    <2>2. /\ IsFiniteSet(p \cup q)
          /\ Cardinality(p \cup q) = Cardinality(p) + Cardinality(q) - Cardinality(p \cap q)
      BY <1>2, FS_Union
    <2>3. Len(a) \in Nat /\ Len(b) \in Nat
      BY <1>2
    <2> QED BY <1>2, <2>1, <2>2, <2>3
  <1>6. ToSet(c) = ToSet(a) \cup ToSet(b)
    BY <1>2, <1>3, ConcatElements
  <1>7. {s.path : s \in ToSet(c)} = {x[2] : x \in p \cup q}
    <2>1. {s.path : s \in ToSet(c)} =
            {s.path : s \in ToSet(a)} \cup {s.path : s \in ToSet(b)}
      BY <1>6, Zenon
    <2>2. {x[2] : x \in p \cup q} = {x[2] : x \in p} \cup {x[2] : x \in q}
      BY Zenon
    <2> QED BY <1>2, <2>1, <2>2, Zenon
  <1> QED BY <1>1, <1>3, <1>4, <1>5, <1>7 DEF Lists

\* The same for any number of parts with no place in common.
LEMMA ListsFlatten ==
  ASSUME NEW T, NEW seqs \in Seq(Seq(SlotsOver(T))), NEW places,
         \A i \in 1 .. Len(seqs) : Lists(seqs[i], places[i], T),
         \A i, j \in 1 .. Len(seqs) : i # j => places[i] \cap places[j] = {}
  PROVE  Lists(FlattenSeq(seqs), UNION {places[i] : i \in 1 .. Len(seqs)}, T)
  <1>1. PICK flat : /\ IsRunning(flat, seqs, SlotsOver(T))
                    /\ FlattenSeq(seqs) = flat[Len(seqs)]
    BY Running
  <1>2. PICK l \in Nat : l = Len(seqs)
    OBVIOUS
  <1> DEFINE Same(n) == Lists(flat[n], UNION {places[i] : i \in 1 .. n}, T)
             R == {n \in Nat : n <= l => Same(n)}
  <1>3. 0 \in R
    <2>1. flat[0] = << >>
      BY <1>1 DEF IsRunning
    <2>2. UNION {places[i] : i \in 1 .. 0} = {}
      OBVIOUS
    <2>3. Lists(<< >>, {}, T)
      BY ListsNone
    <2> QED BY <2>1, <2>2, <2>3
  <1>4. ASSUME NEW n \in Nat, n \in R PROVE n + 1 \in R
    <2>1. SUFFICES ASSUME n + 1 <= l PROVE Same(n + 1)
      OBVIOUS
    <2>2. Same(n)
      BY <1>4, <2>1
    <2>3. n + 1 \in 1 .. Len(seqs) /\ (n + 1) - 1 = n
      <3> HIDE DEF Same, R
      <3>1. n + 1 \in 1 .. l /\ (n + 1) - 1 = n
        BY <2>1
      <3> QED BY <1>2, <3>1, Zenon
    <2>4. flat[n + 1] = flat[n] \o seqs[n + 1]
      BY <1>1, <2>3 DEF IsRunning
    <2>5. PICK p : p = UNION {places[i] : i \in 1 .. n}
      OBVIOUS
    <2>6. PICK q : q = places[n + 1]
      OBVIOUS
    <2>7. UNION {places[i] : i \in 1 .. n + 1} = p \cup q
      <3>1. \A i : i \in 1 .. n + 1 <=> i \in 1 .. n \/ i = n + 1
        OBVIOUS
      <3> QED BY <2>5, <2>6, <3>1
    <2>8. p \cap q = {}
      <3>1. \A i \in 1 .. n : i \in 1 .. Len(seqs) /\ i # n + 1
        BY <2>3
      <3> QED BY <2>3, <2>5, <2>6, <3>1
    <2>9. Lists(flat[n], p, T)
      BY <2>2, <2>5
    <2>10. Lists(seqs[n + 1], q, T)
      BY <2>3, <2>6
    <2> HIDE DEF Same
    <2>11. Lists(flat[n] \o seqs[n + 1], p \cup q, T)
      BY <2>8, <2>9, <2>10, ListsMore
    <2> QED BY <2>4, <2>7, <2>11 DEF Same
  <1> HIDE DEF R
  <1>5. \A n \in Nat : n \in R
    BY <1>3, <1>4, Induction
  <1>6. Same(l)
    <2> HIDE DEF Same
    <2>1. l \in R
      BY <1>5
    <2> QED BY <2>1 DEF R
  <1> QED BY <1>1, <1>2, <1>6

\* The slots under a path are for the secrets the flags ask for.
LEMMA UnderLists ==
  ASSUME NEW T, Fixed \subseteq T, NEW id \in Seq(T), NEW path \in Seq(T),
         NEW table, NEW shape, Matches(table, shape), NEW required, NEW m
  PROVE  Lists(Under(id, path, table, required),
               {m} \X PathsOf(path, Asked(shape, required)), T)
  <1>1. /\ table \in Seq(Entries)
        /\ \A i, j \in DOMAIN table : table[i].field = table[j].field => i = j
        /\ {table[i].field : i \in {j \in DOMAIN table : ~table[j].flag}} = shape.secrets
        /\ {table[i].field : i \in {j \in DOMAIN table : table[j].flag}} = shape.optSecrets
    BY DEF Matches
  <1>2. "." \in T /\ Fields \subseteq T
    BY DEF Fixed
  <1> DEFINE Wanted(i) == table[i].flag => table[i].field \in required
             slot(i) == [ profileId |-> id, path |-> path \o <<".", table[i].field>>,
                          purpose |-> table[i].purpose ]
             parts == [i \in DOMAIN table |-> IF Wanted(i) THEN <<slot(i)>> ELSE << >>]
             places == [i \in DOMAIN table |->
                          IF Wanted(i) THEN {<<m, FieldPath(path, table[i].field)>>} ELSE {}]
  <1>3. Under(id, path, table, required) = FlattenSeq(parts)
    BY DEF Under
  <1>4. \A i \in DOMAIN table :
          /\ table[i].field \in Fields /\ table[i].field \in T
          /\ table[i].purpose \in DOMAIN StoreName
    <2>1. \A i \in DOMAIN table : table[i] \in Entries
      BY <1>1
    <2> QED BY <2>1, <1>2 DEF Entries
  <1>5. ASSUME NEW i \in DOMAIN table
        PROVE  /\ slot(i) \in SlotsOver(T)
               /\ slot(i).path = FieldPath(path, table[i].field)
    <2>1. PICK f \in T : f = table[i].field /\ f \in Fields
      BY <1>4
    <2>2. path \o <<".", f>> = FieldPath(path, f)
      BY ZenonT(30), <1>2, FieldPaths
    <2>3. slot(i).path = FieldPath(path, f)
      BY <2>1, <2>2
    <2>4. FieldPath(path, f) \in PathsOver(T)
      BY <2>1 DEF PathsOver
    <2>5. PICK x : x = FieldPath(path, f)
      OBVIOUS
    <2>6. slot(i) = [profileId |-> id, path |-> x, purpose |-> table[i].purpose]
      BY <2>1, <2>2, <2>5
    <2>7. [profileId |-> id, path |-> x, purpose |-> table[i].purpose] \in SlotsOver(T)
      BY <1>4, <2>4, <2>5 DEF SlotsOver
    <2> HIDE DEF slot
    <2> QED BY <2>1, <2>3, <2>6, <2>7
  <1>6. ASSUME NEW i \in DOMAIN table
        PROVE  parts[i] \in Seq(SlotsOver(T)) /\ Lists(parts[i], places[i], T)
    <2>1. PICK s \in SlotsOver(T) : s = slot(i)
      BY <1>5
    <2>2. s.path = FieldPath(path, table[i].field)
      BY <1>5, <2>1
    <2> HIDE DEF slot
    <2>3. CASE Wanted(i)
      <3>1. parts[i] = <<s>> /\ places[i] = {<<m, s.path>>}
        BY <2>1, <2>2, <2>3
      <3>2. Lists(<<s>>, {<<m, s.path>>}, T)
        BY ListsOne
      <3> QED BY <3>1, <3>2 DEF Lists
    <2>4. CASE ~Wanted(i)
      <3>1. parts[i] = << >> /\ places[i] = {}
        BY <2>4
      <3>2. Lists(<< >>, {}, T)
        BY ListsNone
      <3> QED BY <3>1, <3>2 DEF Lists
    <2> QED BY <2>3, <2>4
  <1>7. DOMAIN table = 1 .. Len(table) /\ Len(table) \in Nat
    BY <1>1
  <1>8. parts \in Seq(Seq(SlotsOver(T))) /\ Len(parts) = Len(table)
    <2>1. parts = [i \in 1 .. Len(table) |-> parts[i]]
      BY <1>7
    <2> HIDE DEF parts
    <2>2. \A i \in 1 .. Len(table) : parts[i] \in Seq(SlotsOver(T))
      BY <1>6, <1>7
    <2>3. parts \in [1 .. Len(table) -> Seq(SlotsOver(T))]
      BY <2>1, <2>2
    <2> QED BY <1>7, <2>3
  <1>9. ASSUME NEW i \in DOMAIN table, NEW j \in DOMAIN table, i # j
        PROVE  places[i] \cap places[j] = {}
    <2>1. table[i].field # table[j].field
      BY <1>1, <1>9
    <2>2. FieldPath(path, table[i].field) # FieldPath(path, table[j].field)
      <3>1. PICK f \in T : f = table[i].field
        BY <1>4
      <3>2. PICK g \in T : g = table[j].field
        BY <1>4
      <3>3. f # g
        BY <2>1, <3>1, <3>2
      <3>4. FieldPath(path, f) # FieldPath(path, g)
        BY <1>2, <3>3, FieldPathIsUnique
      <3> QED BY <3>1, <3>2, <3>4
    <2> QED BY <2>2
  <1>10. UNION {places[i] : i \in DOMAIN table}
           = {m} \X PathsOf(path, Asked(shape, required))
    <2>1. ASSUME NEW f \in Asked(shape, required)
          PROVE  \E i \in DOMAIN table : Wanted(i) /\ table[i].field = f
      BY <1>1 DEF Asked
    <2>2. ASSUME NEW i \in DOMAIN table, Wanted(i)
          PROVE  table[i].field \in Asked(shape, required)
      <3>1. CASE table[i].flag
        <4>1. table[i].field \in shape.optSecrets
          BY <1>1, <3>1
        <4> QED BY <4>1, <3>1, <2>2 DEF Asked
      <3>2. CASE ~table[i].flag
        <4>1. table[i].field \in shape.secrets
          BY <1>1, <3>2
        <4> QED BY <4>1 DEF Asked
      <3> QED BY <3>1, <3>2
    <2>3. \A f \in T : path \o <<".", f>> = FieldPath(path, f)
      BY ZenonT(30), <1>2, FieldPaths
    <2>4. ASSUME NEW x \in PathsOf(path, Asked(shape, required))
          PROVE  \E i \in DOMAIN table : <<m, x>> \in places[i]
      <3>1. PICK f \in Asked(shape, required) : x = path \o <<".", f>>
        BY DEF PathsOf
      <3>2. PICK i \in DOMAIN table : Wanted(i) /\ table[i].field = f
        BY <2>1
      <3>3. x = FieldPath(path, table[i].field)
        BY <1>4, <2>3, <3>1, <3>2
      <3>4. places[i] = {<<m, x>>}
        BY <3>2, <3>3
      <3> QED BY <3>4
    <2>5. ASSUME NEW i \in DOMAIN table, NEW x \in places[i]
          PROVE  x \in {m} \X PathsOf(path, Asked(shape, required))
      <3>1. Wanted(i) /\ x = <<m, FieldPath(path, table[i].field)>>
        BY <2>5
      <3>2. table[i].field \in Asked(shape, required)
        BY <2>2, <3>1
      <3>3. FieldPath(path, table[i].field) \in PathsOf(path, Asked(shape, required))
        BY <1>4, <2>3, <3>2 DEF PathsOf
      <3> QED BY <3>1, <3>3
    <2> HIDE DEF places
    <2> QED BY <2>4, <2>5
  <1> HIDE DEF parts, places
  <1>11. \A i \in 1 .. Len(parts) : Lists(parts[i], places[i], T)
    BY <1>6, <1>7, <1>8
  <1>12. \A i, j \in 1 .. Len(parts) : i # j => places[i] \cap places[j] = {}
    BY <1>7, <1>8, <1>9
  <1>13. Lists(FlattenSeq(parts), UNION {places[i] : i \in 1 .. Len(parts)}, T)
    BY <1>8, <1>11, <1>12, ListsFlatten
  <1>14. UNION {places[i] : i \in 1 .. Len(parts)} = UNION {places[i] : i \in DOMAIN table}
    BY <1>7, <1>8
  <1> QED BY <1>3, <1>10, <1>13, <1>14


-----------------------------------------------------------------------------
(* The slots of a portable profile, part by part.                          *)

\* The places of the secrets a portable profile asks for.
TlsShape == Shape({}, {}, {}, {}, TlsSecrets)
ProxyShape == Shape({}, {}, {}, {"password"}, {})

AskedSsh(prefix, a) ==
  PathsOf(prefix \o <<".", "ssh">>, Asked(SshAuthConfig[a.kind], a.required))

AskedHop(hop) == IF hop.config.kind = "ssh"
                 THEN AskedSsh(HopPath(hop), hop.config.auth)
                 ELSE ProxyPaths(HopPath(hop), hop.config)

AskedTransport(t) ==
  CASE t.kind = "sshTunnel" -> {0} \X AskedSsh(<<"transport">>, t.auth)
    [] t.kind \in {"socks5Proxy", "httpConnectProxy"} ->
         {0} \X ProxyPaths(<<"transport", ".", "proxy">>, t)
    [] t.kind = "chain" ->
         UNION {{i} \X AskedHop(t.hops[i]) : i \in DOMAIN t.hops}
    [] OTHER -> {}

AskedAuth(a) == {0} \X PathsOf(AuthPath(a), Asked(AuthShape(a), a.required))
AskedTls(tls) == {0} \X PathsOf(<<"tls">>, Asked(TlsShape, tls.required))

AskedPlaces(p) ==
  AskedAuth(p.auth) \cup AskedTls(p.tls) \cup AskedTransport(p.transport)

\* The slots of an authentication, of TLS, of a server, of a hop.
LEMMA AuthLists ==
  ASSUME NEW T, Fixed \subseteq T, NEW id \in Seq(T), NEW a, KnownAuth(a)
  PROVE  Lists(AppendAuthSlots(id, a), AskedAuth(a), T)
  <1>1. {"auth", ".", "source"} \subseteq T
    BY DEF Fixed
  <1>2. PICK cloud \in Seq(T) : cloud = <<"auth", ".", "source">>
    <2>1. <<"auth", ".", "source">> \in Seq(T)
      BY <1>1
    <2> QED BY <2>1
  <1>3. PICK plain \in Seq(T) : plain = <<"auth">>
    <2>1. <<"auth">> \in Seq(T)
      BY <1>1
    <2> QED BY <2>1
  <1>4. PICK required : required = a.required
    OBVIOUS
  <1>5. "aws" \notin DOMAIN AuthConfig /\ "gcp" \notin DOMAIN AuthConfig
          /\ "azure" \notin DOMAIN AuthConfig
    BY DEF AuthConfig
  <1>6. CASE a.kind = "aws"
    <2>1. PICK k \in DOMAIN AwsAuthSource : k = a.source
      BY <1>5, <1>6 DEF KnownAuth
    <2>2. Matches(AwsSlots[k], AwsAuthSource[k])
      BY AwsMatches
    <2>3. Lists(Under(id, cloud, AwsSlots[k], required),
                {0} \X PathsOf(cloud, Asked(AwsAuthSource[k], required)), T)
      BY <2>2, UnderLists
    <2>4. AppendAuthSlots(id, a) = Under(id, cloud, AwsSlots[k], required)
      BY <1>2, <1>4, <1>6, <2>1 DEF AppendAuthSlots
    <2>5. AuthPath(a) = cloud /\ AuthShape(a) = AwsAuthSource[k]
      BY <1>2, <1>6, <2>1 DEF AuthPath, AuthShape
    <2> QED BY <1>4, <2>3, <2>4, <2>5 DEF AskedAuth
  <1>7. CASE a.kind = "gcp"
    <2>1. PICK k \in DOMAIN GcpAuthSource : k = a.source
      BY <1>5, <1>7 DEF KnownAuth
    <2>2. Matches(GcpSlots[k], GcpAuthSource[k])
      BY GcpMatches
    <2>3. Lists(Under(id, cloud, GcpSlots[k], required),
                {0} \X PathsOf(cloud, Asked(GcpAuthSource[k], required)), T)
      BY <2>2, UnderLists
    <2>4. AppendAuthSlots(id, a) = Under(id, cloud, GcpSlots[k], required)
      BY <1>2, <1>4, <1>7, <2>1 DEF AppendAuthSlots
    <2>5. AuthPath(a) = cloud /\ AuthShape(a) = GcpAuthSource[k]
      BY <1>2, <1>7, <2>1 DEF AuthPath, AuthShape
    <2> QED BY <1>4, <2>3, <2>4, <2>5 DEF AskedAuth
  <1>8. CASE a.kind = "azure"
    <2>1. PICK k \in DOMAIN AzureAuthSource : k = a.source
      BY <1>5, <1>8 DEF KnownAuth
    <2>2. Matches(AzureSlots[k], AzureAuthSource[k])
      BY AzureMatches
    <2>3. Lists(Under(id, cloud, AzureSlots[k], required),
                {0} \X PathsOf(cloud, Asked(AzureAuthSource[k], required)), T)
      BY <2>2, UnderLists
    <2>4. AppendAuthSlots(id, a) = Under(id, cloud, AzureSlots[k], required)
      BY <1>2, <1>4, <1>8, <2>1 DEF AppendAuthSlots
    <2>5. AuthPath(a) = cloud /\ AuthShape(a) = AzureAuthSource[k]
      BY <1>2, <1>8, <2>1 DEF AuthPath, AuthShape
    <2> QED BY <1>4, <2>3, <2>4, <2>5 DEF AskedAuth
  <1>9. CASE a.kind \notin {"aws", "gcp", "azure"}
    <2>1. PICK k \in DOMAIN AuthConfig : k = a.kind
      BY <1>9 DEF KnownAuth
    <2>2. Matches(AuthSlots[k], AuthConfig[k])
      BY AuthMatches
    <2>3. Lists(Under(id, plain, AuthSlots[k], required),
                {0} \X PathsOf(plain, Asked(AuthConfig[k], required)), T)
      BY <2>2, UnderLists
    <2>4. AppendAuthSlots(id, a) = Under(id, plain, AuthSlots[k], required)
      BY <1>3, <1>4, <1>9, <2>1 DEF AppendAuthSlots
    <2>5. AuthPath(a) = plain /\ AuthShape(a) = AuthConfig[k]
      BY <1>3, <1>9, <2>1 DEF AuthPath, AuthShape
    <2> QED BY <1>4, <2>3, <2>4, <2>5 DEF AskedAuth
  <1> QED BY <1>6, <1>7, <1>8, <1>9

LEMMA TlsLists ==
  ASSUME NEW T, Fixed \subseteq T, NEW id \in Seq(T), NEW tls
  PROVE  Lists(Under(id, <<"tls">>, TlsSlots, tls.required), AskedTls(tls), T)
  <1>1. PICK path \in Seq(T) : path = <<"tls">>
    <2>1. <<"tls">> \in Seq(T)
      BY DEF Fixed
    <2> QED BY <2>1
  <1>2. /\ TlsShape.secrets = {}
        /\ TlsShape.optSecrets = {"rootCert", "clientCert", "clientKey"}
    BY DEF TlsShape, Shape, TlsSecrets
  <1>3. /\ "rootCert" \in Fields
        /\ "clientCert" \in Fields
        /\ "clientKey" \in Fields
    BY DEF Fields
  <1>4. /\ "TlsRootCertificate" \in DOMAIN StoreName
        /\ "TlsClientCertificate" \in DOMAIN StoreName
        /\ "TlsClientKey" \in DOMAIN StoreName
    BY Purposes
  <1>5. Matches(TlsSlots, TlsShape)
    BY <1>2, <1>3, <1>4, ThreeIfMatch DEF TlsSlots
  <1>6. PICK required : required = tls.required
    OBVIOUS
  <1>7. Lists(Under(id, path, TlsSlots, required),
              {0} \X PathsOf(path, Asked(TlsShape, required)), T)
    BY <1>5, UnderLists
  <1> QED BY <1>1, <1>6, <1>7 DEF AskedTls

\* The path under which the slots of an SSH server are.
LEMMA SshPath ==
  ASSUME NEW T, Fixed \subseteq T, NEW path \in Seq(T)
  PROVE  /\ path \o <<".", "ssh">> \in Seq(T)
         /\ Len(path) > 0 => /\ Len(path \o <<".", "ssh">>) > 0
                             /\ (path \o <<".", "ssh">>)[1] = path[1]
  <1>1. "." \in T
    BY DEF Fixed
  <1>2. PICK ssh \in T : ssh = "ssh"
    BY DEF Fixed
  <1>3. path \o <<".", ssh>> = FieldPath(path, ssh)
    BY <1>1, FieldPathConcat
  <1>4. FieldPath(path, ssh) \in Seq(T)
    BY <1>1, FieldPaths
  <1>5. Len(path) > 0 => /\ Len(FieldPath(path, ssh)) > 0
                         /\ FieldPath(path, ssh)[1] = path[1]
    BY <1>1, FieldPathStart
  <1> QED BY <1>2, <1>3, <1>4, <1>5

LEMMA SshLists ==
  ASSUME NEW T, Fixed \subseteq T, NEW id \in Seq(T), NEW path \in Seq(T),
         NEW a, a.kind \in DOMAIN SshAuthConfig, NEW m
  PROVE  Lists(AppendSshSlots(id, path, a), {m} \X AskedSsh(path, a), T)
  <1>1. PICK k \in DOMAIN SshAuthConfig : k = a.kind
    OBVIOUS
  <1>2. PICK required : required = a.required
    OBVIOUS
  <1>3. "." \in T /\ "ssh" \in T
    BY DEF Fixed
  <1>4. PICK longer \in Seq(T) : longer = path \o <<".", "ssh">>
    BY SshPath
  <1>5. Matches(SshSlots[k], SshAuthConfig[k])
    BY SshMatches
  <1>6. Lists(Under(id, longer, SshSlots[k], required),
              {m} \X PathsOf(longer, Asked(SshAuthConfig[k], required)), T)
    BY <1>5, UnderLists
  <1>7. AppendSshSlots(id, path, a) = Under(id, longer, SshSlots[k], required)
    BY <1>1, <1>2, <1>4 DEF AppendSshSlots
  <1>8. AskedSsh(path, a) = PathsOf(longer, Asked(SshAuthConfig[k], required))
    BY <1>1, <1>2, <1>4 DEF AskedSsh
  <1> QED BY <1>6, <1>7, <1>8

LEMMA ProxyLists ==
  ASSUME NEW T, Fixed \subseteq T, NEW id \in Seq(T), NEW path \in Seq(T),
         NEW proxy, NEW m
  PROVE  Lists(AppendProxySlots(id, path, proxy), {m} \X ProxyPaths(path, proxy), T)
  <1>1. CASE proxy.auth = Absent
    <2>1. AppendProxySlots(id, path, proxy) = << >>
      BY <1>1 DEF AppendProxySlots
    <2>2. {m} \X ProxyPaths(path, proxy) = {}
      BY <1>1 DEF ProxyPaths
    <2> QED BY <2>1, <2>2, ListsNone
  <1>2. CASE proxy.auth # Absent
    <2>1. PICK table : table = <<Slot("password", "ProxyPassword")>>
      OBVIOUS
    <2>2. AppendProxySlots(id, path, proxy) = Under(id, path, table, {})
      BY <1>2, <2>1 DEF AppendProxySlots
    <2>3. ProxyShape.secrets = {"password"} /\ ProxyShape.optSecrets = {}
      BY DEF ProxyShape, Shape
    <2>4. "password" \in Fields
      BY DEF Fields
    <2>5. "ProxyPassword" \in DOMAIN StoreName
      BY Purposes
    <2>6. Matches(table, ProxyShape)
      BY <2>1, <2>3, <2>4, <2>5, SlotMatches
    <2>7. Lists(Under(id, path, table, {}),
                {m} \X PathsOf(path, Asked(ProxyShape, {})), T)
      BY <2>6, UnderLists
    <2>8. Asked(ProxyShape, {}) = {"password"}
      BY <2>3 DEF Asked
    <2>9. ProxyPaths(path, proxy) = PathsOf(path, {"password"})
      BY <1>2 DEF ProxyPaths
    <2> QED BY <2>2, <2>7, <2>8, <2>9
  <1> QED BY <1>1, <1>2

\* The path of a hop begins with the transport, whatever its name is.
LEMMA HopPathType ==
  ASSUME NEW T, Fixed \subseteq T, NEW hop, hop.name \in Seq(T)
  PROVE  HopPath(hop) \in Seq(T) /\ Len(HopPath(hop)) > 0 /\ HopPath(hop)[1] = "transport"
  <1>1. PICK name \in Seq(T) : name = hop.name
    OBVIOUS
  <1>2. PICK chain \in Seq(T) : chain = <<"transport", ".", "chain", ".">>
    <2>1. "transport" \in T /\ "." \in T /\ "chain" \in T
      BY DEF Fixed
    <2>2. <<"transport", ".", "chain", ".">> \in Seq(T)
      BY <2>1
    <2> QED BY <2>2
  <1>3. Len(chain) = 4 /\ chain[1] = "transport"
    BY <1>2
  <1>4. PICK path \in Seq(T) : path = chain \o name
    BY ConcatProperties
  <1>5. Len(path) > 0 /\ path[1] = "transport"
    BY SMTT(30), <1>3, <1>4
  <1> QED BY <1>1, <1>2, <1>4, <1>5 DEF HopPath

LEMMA HopLists ==
  ASSUME NEW T, Fixed \subseteq T, NEW id \in Seq(T),
         NEW hop, KnownHop(hop), hop.name \in Seq(T), NEW m
  PROVE  Lists(AppendHopSlots(id, hop), {m} \X AskedHop(hop), T)
  <1>1. PICK path \in Seq(T) : path = HopPath(hop)
    BY HopPathType
  <1>2. AppendHopSlots(id, hop) =
          IF hop.config.kind = "ssh" THEN AppendSshSlots(id, path, hop.config.auth)
          ELSE AppendProxySlots(id, path, hop.config)
    BY <1>1 DEF AppendHopSlots, HopPath
  <1>3. PICK config : config = hop.config
    OBVIOUS
  <1>4. CASE config.kind = "ssh"
    <2>1. PICK a : a = config.auth
      OBVIOUS
    <2>2. a.kind \in DOMAIN SshAuthConfig
      BY <1>3, <1>4, <2>1 DEF KnownHop, KnownSsh
    <2>3. Lists(AppendSshSlots(id, path, a), {m} \X AskedSsh(path, a), T)
      BY <2>2, SshLists
    <2> QED BY <1>1, <1>2, <1>3, <1>4, <2>1, <2>3 DEF AskedHop
  <1>5. CASE config.kind # "ssh"
    <2>1. Lists(AppendProxySlots(id, path, config), {m} \X ProxyPaths(path, config), T)
      BY ProxyLists
    <2> QED BY <1>1, <1>2, <1>3, <1>5, <2>1 DEF AskedHop
  <1> QED BY <1>4, <1>5


-----------------------------------------------------------------------------
(* The parts of a profile have paths that start differently.               *)

\* All the paths of some places start with a token.
StartsWith(places, token) == \A x \in places : x[2][1] = token

\* Paths start as what they were made from.
LEMMA PathsStart ==
  ASSUME NEW T, "." \in T, NEW path \in Seq(T), Len(path) > 0,
         NEW fields \in SUBSET T, NEW m
  PROVE  StartsWith({m} \X PathsOf(path, fields), path[1])
  <1>1. ASSUME NEW x \in {m} \X PathsOf(path, fields) PROVE x[2][1] = path[1]
    <2>1. PICK f \in fields : x[2] = path \o <<".", f>>
      BY DEF PathsOf
    <2>2. f \in T /\ 1 \in 1 .. Len(path)
      OBVIOUS
    <2>3. path \o <<".", f>> = FieldPath(path, f)
      BY <2>2, FieldPathConcat
    <2>4. FieldPath(path, f)[1] = path[1]
      BY <2>2, FieldPathStart
    <2> QED BY <2>1, <2>3, <2>4
  <1> QED BY <1>1 DEF StartsWith

\* What a variant asks for are its fields.
LEMMA AskedFields ==
  ASSUME NEW table, NEW shape, Matches(table, shape), NEW required
  PROVE  Asked(shape, required) \subseteq Fields
  <1>1. \A i \in DOMAIN table : table[i] \in Entries
    BY DEF Matches
  <1>2. \A i \in DOMAIN table : table[i].field \in Fields
    BY <1>1 DEF Entries
  <1>3. shape.secrets \subseteq Fields /\ shape.optSecrets \subseteq Fields
    BY <1>2 DEF Matches
  <1> QED BY <1>3 DEF Asked

\* The three parts of a profile start with "auth", "tls" and "transport".
LEMMA AuthStart ==
  ASSUME NEW a, KnownAuth(a)
  PROVE  StartsWith(AskedAuth(a), "auth")
  <1>1. PICK T : T = Fixed
    OBVIOUS
  <1>2. PICK path \in Seq(T) :
        /\ path = AuthPath(a)
        /\ Len(path) > 0
        /\ path[1] = "auth"
    <2>1. "auth" \in T /\ "." \in T /\ "source" \in T
      BY <1>1 DEF Fixed
    <2>2. <<"auth", ".", "source">> \in Seq(T) /\ <<"auth">> \in Seq(T)
      BY <2>1
    <2>3. CASE a.kind \in {"aws", "gcp", "azure"}
      <3>1. AuthPath(a) = <<"auth", ".", "source">>
        BY <2>3 DEF AuthPath
      <3>2. Len(AuthPath(a)) = 3 /\ AuthPath(a)[1] = "auth"
        BY <3>1
      <3>3. AuthPath(a) \in Seq(T)
        BY <2>2, <3>1
      <3> QED BY <3>2, <3>3
    <2>4. CASE a.kind \notin {"aws", "gcp", "azure"}
      <3>1. AuthPath(a) = <<"auth">>
        BY <2>4 DEF AuthPath
      <3>2. Len(AuthPath(a)) = 1 /\ AuthPath(a)[1] = "auth"
        BY <3>1
      <3>3. AuthPath(a) \in Seq(T)
        BY <2>2, <3>1
      <3> QED BY <3>2, <3>3
    <2> QED BY <2>3, <2>4
  <1>3. Asked(AuthShape(a), a.required) \subseteq Fields
    <2>0. "aws" \notin DOMAIN AuthConfig /\ "gcp" \notin DOMAIN AuthConfig
            /\ "azure" \notin DOMAIN AuthConfig
      BY DEF AuthConfig
    <2>1. CASE a.kind = "aws"
      <3>1. a.source \in DOMAIN AwsAuthSource
        BY <2>0, <2>1 DEF KnownAuth
      <3>2. AuthShape(a) = AwsAuthSource[a.source]
        BY <2>1 DEF AuthShape
      <3> QED BY <3>1, <3>2, AwsMatches, AskedFields
    <2>2. CASE a.kind = "gcp"
      <3>1. a.source \in DOMAIN GcpAuthSource
        BY <2>0, <2>2 DEF KnownAuth
      <3>2. AuthShape(a) = GcpAuthSource[a.source]
        BY <2>2 DEF AuthShape
      <3> QED BY <3>1, <3>2, GcpMatches, AskedFields
    <2>3. CASE a.kind = "azure"
      <3>1. a.source \in DOMAIN AzureAuthSource
        BY <2>0, <2>3 DEF KnownAuth
      <3>2. AuthShape(a) = AzureAuthSource[a.source]
        BY <2>3 DEF AuthShape
      <3> QED BY <3>1, <3>2, AzureMatches, AskedFields
    <2>4. CASE a.kind \notin {"aws", "gcp", "azure"}
      <3>1. a.kind \in DOMAIN AuthConfig
        BY <2>4 DEF KnownAuth
      <3>2. AuthShape(a) = AuthConfig[a.kind]
        BY <2>4 DEF AuthShape
      <3> QED BY <3>1, <3>2, AuthMatches, AskedFields
    <2> QED BY <2>1, <2>2, <2>3, <2>4
  <1>4. "." \in T /\ Fields \subseteq T
    BY <1>1 DEF Fixed
  <1>5. PICK fields \in SUBSET T : fields = Asked(AuthShape(a), a.required)
    BY <1>3, <1>4
  <1>6. StartsWith({0} \X PathsOf(path, fields), path[1])
    BY <1>2, <1>4, PathsStart
  <1> QED BY <1>2, <1>5, <1>6 DEF AskedAuth

LEMMA TlsStart ==
  ASSUME NEW tls
  PROVE  StartsWith(AskedTls(tls), "tls")
  <1>1. PICK T : T = Fixed
    OBVIOUS
  <1>2. PICK path \in Seq(T) : path = <<"tls">>
    <2>1. <<"tls">> \in Seq(T)
      BY <1>1 DEF Fixed
    <2> QED BY <2>1
  <1>3. "." \in T /\ Asked(TlsShape, tls.required) \subseteq T
    BY <1>1 DEF Fixed, Fields, Asked, TlsShape, Shape, TlsSecrets
  <1>4. Len(path) > 0 /\ path[1] = "tls"
    BY <1>2
  <1>5. PICK fields \in SUBSET T : fields = Asked(TlsShape, tls.required)
    BY <1>3
  <1>6. StartsWith({0} \X PathsOf(path, fields), path[1])
    BY <1>3, <1>4, PathsStart
  <1> QED BY <1>2, <1>4, <1>5, <1>6 DEF AskedTls

LEMMA SshStart ==
  ASSUME NEW T, Fixed \subseteq T, NEW path \in Seq(T), Len(path) > 0,
         NEW a, a.kind \in DOMAIN SshAuthConfig, NEW m
  PROVE  StartsWith({m} \X AskedSsh(path, a), path[1])
  <1>1. "." \in T /\ "ssh" \in T /\ Fields \subseteq T
    BY DEF Fixed
  <1>2. PICK longer \in Seq(T) : /\ longer = path \o <<".", "ssh">>
                                 /\ Len(longer) > 0 /\ longer[1] = path[1]
    <2>1. path \o <<".", "ssh">> \in Seq(T)
      BY SshPath
    <2>2. /\ Len(path \o <<".", "ssh">>) > 0
          /\ (path \o <<".", "ssh">>)[1] = path[1]
      BY SshPath
    <2> QED BY <2>1, <2>2
  <1>3. Asked(SshAuthConfig[a.kind], a.required) \subseteq Fields
    BY SshMatches, AskedFields
  <1>4. PICK fields \in SUBSET T : fields = Asked(SshAuthConfig[a.kind], a.required)
    BY <1>1, <1>3
  <1>5. StartsWith({m} \X PathsOf(longer, fields), longer[1])
    BY <1>1, <1>2, PathsStart
  <1> QED BY <1>2, <1>4, <1>5 DEF AskedSsh

LEMMA ProxyStart ==
  ASSUME NEW T, Fixed \subseteq T, NEW path \in Seq(T), Len(path) > 0,
         NEW proxy, NEW m
  PROVE  StartsWith({m} \X ProxyPaths(path, proxy), path[1])
  <1>1. CASE proxy.auth = Absent
    BY <1>1 DEF ProxyPaths, StartsWith
  <1>2. CASE proxy.auth # Absent
    <2>1. "." \in T /\ {"password"} \in SUBSET T
      BY DEF Fixed, Fields
    <2>2. StartsWith({m} \X PathsOf(path, {"password"}), path[1])
      BY <2>1, PathsStart
    <2> QED BY <1>2, <2>2 DEF ProxyPaths
  <1> QED BY <1>1, <1>2

LEMMA HopStart ==
  ASSUME NEW T, Fixed \subseteq T, NEW hop, KnownHop(hop), hop.name \in Seq(T), NEW m
  PROVE  StartsWith({m} \X AskedHop(hop), "transport")
  <1>1. PICK path \in Seq(T) : /\ path = HopPath(hop) /\ Len(path) > 0
                               /\ path[1] = "transport"
    BY HopPathType
  <1>2. PICK config : config = hop.config
    OBVIOUS
  <1>3. CASE config.kind = "ssh"
    <2>1. PICK a : a = config.auth
      OBVIOUS
    <2>2. a.kind \in DOMAIN SshAuthConfig
      BY <1>2, <1>3, <2>1 DEF KnownHop, KnownSsh
    <2>3. StartsWith({m} \X AskedSsh(path, a), path[1])
      BY <1>1, <2>2, SshStart
    <2> QED BY <1>1, <1>2, <1>3, <2>1, <2>3 DEF AskedHop
  <1>4. CASE config.kind # "ssh"
    <2>1. StartsWith({m} \X ProxyPaths(path, config), path[1])
      BY <1>1, ProxyStart
    <2> QED BY <1>1, <1>2, <1>4, <2>1 DEF AskedHop
  <1> QED BY <1>3, <1>4

\* Hops have the places of their number, so two of them none in common.
LEMMA ChainLists ==
  ASSUME NEW T, Fixed \subseteq T, NEW id \in Seq(T), NEW hops, IsList(hops),
         \A i \in DOMAIN hops : KnownHop(hops[i]) /\ hops[i].name \in Seq(T)
  PROVE  /\ Lists(AppendChainSlots(id, hops),
                  UNION {{i} \X AskedHop(hops[i]) : i \in DOMAIN hops}, T)
         /\ StartsWith(UNION {{i} \X AskedHop(hops[i]) : i \in DOMAIN hops}, "transport")
  <1>1. DOMAIN hops = 1 .. Len(hops) /\ Len(hops) \in Nat
    BY DEF IsList
  <1> DEFINE parts  == [i \in DOMAIN hops |-> AppendHopSlots(id, hops[i])]
             places == [i \in DOMAIN hops |-> {i} \X AskedHop(hops[i])]
  <1>2. ASSUME NEW i \in DOMAIN hops
        PROVE  /\ Lists(AppendHopSlots(id, hops[i]), {i} \X AskedHop(hops[i]), T)
               /\ StartsWith({i} \X AskedHop(hops[i]), "transport")
    <2>1. PICK hop : hop = hops[i]
      OBVIOUS
    <2>2. KnownHop(hop) /\ hop.name \in Seq(T)
      BY <2>1
    <2>3. /\ Lists(AppendHopSlots(id, hop), {i} \X AskedHop(hop), T)
          /\ StartsWith({i} \X AskedHop(hop), "transport")
      BY <2>2, HopLists, HopStart
    <2> QED BY <2>1, <2>3
  <1>3. parts \in Seq(Seq(SlotsOver(T))) /\ Len(parts) = Len(hops)
    <2>1. \A i \in DOMAIN hops : AppendHopSlots(id, hops[i]) \in Seq(SlotsOver(T))
      BY <1>2 DEF Lists
    <2>2. parts \in [1 .. Len(hops) -> Seq(SlotsOver(T))]
      BY <1>1, <2>1
    <2> HIDE DEF parts
    <2> QED BY <1>1, <2>2
  <1>4. \A i \in 1 .. Len(hops) : Lists(parts[i], places[i], T)
    BY <1>1, <1>2
  <1>5. \A i, j \in 1 .. Len(hops) : i # j => places[i] \cap places[j] = {}
    BY <1>1
  <1>6. UNION {places[i] : i \in 1 .. Len(hops)}
          = UNION {{i} \X AskedHop(hops[i]) : i \in DOMAIN hops}
    BY <1>1
  <1>7. StartsWith(UNION {{i} \X AskedHop(hops[i]) : i \in DOMAIN hops}, "transport")
    BY <1>2 DEF StartsWith
  <1>8. AppendChainSlots(id, hops) = FlattenSeq(parts)
    BY DEF AppendChainSlots
  <1> HIDE DEF parts, places
  <1>9. Lists(FlattenSeq(parts), UNION {places[i] : i \in 1 .. Len(parts)}, T)
    BY <1>3, <1>4, <1>5, ListsFlatten
  <1> QED BY <1>3, <1>6, <1>7, <1>8, <1>9

\* The names of the hops are made of these tokens.
HopNamesIn(t, T) ==
  t.kind = "chain" => \A i \in DOMAIN t.hops : t.hops[i].name \in Seq(T)

\* The slots of a transport, whichever it is.
LEMMA TransportLists ==
  ASSUME NEW T, Fixed \subseteq T, NEW id \in Seq(T),
         NEW t, KnownTransport(t), HopNamesIn(t, T)
  PROVE  /\ Lists(AppendTransportSlots(id, t), AskedTransport(t), T)
         /\ StartsWith(AskedTransport(t), "transport")
  <1>1. "transport" \in T /\ "." \in T /\ "proxy" \in T
    BY DEF Fixed
  <1>2. CASE t.kind \in {"direct", "localFile"}
    <2>1. AppendTransportSlots(id, t) = << >>
      BY <1>2 DEF AppendTransportSlots
    <2>2. AskedTransport(t) = {}
      BY <1>2 DEF AskedTransport
    <2>3. Lists(<< >>, {}, T)
      BY ListsNone
    <2> QED BY <2>1, <2>2, <2>3 DEF StartsWith
  <1>3. CASE t.kind = "sshTunnel"
    <2>1. PICK path \in Seq(T) :
          /\ path = <<"transport">>
          /\ Len(path) > 0
          /\ path[1] = "transport"
      <3>1. PICK u : u = <<"transport">>
        OBVIOUS
      <3>2. u \in Seq(T)
        BY <1>1, <3>1
      <3>3. Len(u) = 1 /\ u[1] = "transport"
        BY <3>1
      <3> QED BY <3>1, <3>2, <3>3
    <2>2. PICK a : a = t.auth
      OBVIOUS
    <2>3. a.kind \in DOMAIN SshAuthConfig
      BY <1>3, <2>2 DEF KnownTransport, KnownSsh
    <2>4. /\ Lists(AppendSshSlots(id, path, a), {0} \X AskedSsh(path, a), T)
          /\ StartsWith({0} \X AskedSsh(path, a), path[1])
      BY <2>1, <2>3, SshLists, SshStart
    <2>5. AppendTransportSlots(id, t) = AppendSshSlots(id, path, a)
      BY <1>3, <2>1, <2>2 DEF AppendTransportSlots
    <2>6. AskedTransport(t) = {0} \X AskedSsh(path, a)
      BY <1>3, <2>1, <2>2 DEF AskedTransport
    <2> QED BY <2>1, <2>4, <2>5, <2>6
  <1>4. CASE t.kind \in {"socks5Proxy", "httpConnectProxy"}
    <2>0. PICK path : path = <<"transport", ".", "proxy">>
      OBVIOUS
    <2>1. path \in Seq(T) /\ Len(path) > 0 /\ path[1] = "transport"
      BY <1>1, <2>0
    <2>2. /\ Lists(AppendProxySlots(id, path, t), {0} \X ProxyPaths(path, t), T)
          /\ StartsWith({0} \X ProxyPaths(path, t), path[1])
      BY <2>1, ProxyLists, ProxyStart
    <2>3. AppendTransportSlots(id, t) = AppendProxySlots(id, path, t)
      BY <1>4, <2>0 DEF AppendTransportSlots
    <2>4. AskedTransport(t) = {0} \X ProxyPaths(path, t)
      BY <1>4, <2>0 DEF AskedTransport
    <2> QED BY <2>1, <2>2, <2>3, <2>4
  <1>5. CASE t.kind = "chain"
    <2>1. PICK hops : hops = t.hops
      OBVIOUS
    <2>2. IsList(hops) /\ \A i \in DOMAIN hops : KnownHop(hops[i]) /\ hops[i].name \in Seq(T)
      BY <1>5, <2>1 DEF KnownTransport, KnownChain, HopNamesIn
    <2>3. /\ Lists(AppendChainSlots(id, hops),
                   UNION {{i} \X AskedHop(hops[i]) : i \in DOMAIN hops}, T)
          /\ StartsWith(UNION {{i} \X AskedHop(hops[i]) : i \in DOMAIN hops}, "transport")
      BY <2>2, ChainLists
    <2>4. AppendTransportSlots(id, t) = AppendChainSlots(id, hops)
      BY <1>5, <2>1 DEF AppendTransportSlots
    <2>5. AskedTransport(t) = UNION {{i} \X AskedHop(hops[i]) : i \in DOMAIN hops}
      BY <1>5, <2>1 DEF AskedTransport
    <2> QED BY <2>3, <2>4, <2>5
  <1>6. t.kind \in {"direct", "localFile", "sshTunnel", "socks5Proxy", "httpConnectProxy", "chain"}
    BY DEF KnownTransport
  <1> QED BY <1>2, <1>3, <1>4, <1>5, <1>6

\* Places that start differently are different.
LEMMA StartsDiffer ==
  ASSUME NEW p, NEW q, NEW a, NEW b, StartsWith(p, a), StartsWith(q, b), a # b
  PROVE  p \cap q = {}
  BY DEF StartsWith

\* A portable profile lists a slot for each secret it asks for.
LEMMA RequiredSlots ==
  ASSUME NEW T, Fixed \subseteq T, NEW p, WellFormed(p), p.id \in Seq(T),
         HopNamesIn(p.transport, T)
  PROVE  Lists(RequiredSecretSlots(p), AskedPlaces(p), T)
  <1>1. PICK id \in Seq(T) : id = p.id
    OBVIOUS
  <1>2. PICK auth : auth = p.auth
    OBVIOUS
  <1>3. PICK tls : tls = p.tls
    OBVIOUS
  <1>4. PICK t : t = p.transport
    OBVIOUS
  <1>5. KnownAuth(auth) /\ KnownTransport(t) /\ HopNamesIn(t, T)
    BY <1>2, <1>4 DEF WellFormed
  <1>6. PICK x : x = AppendAuthSlots(id, auth)
    OBVIOUS
  <1>7. PICK y : y = Under(id, <<"tls">>, TlsSlots, tls.required)
    OBVIOUS
  <1>8. PICK z : z = AppendTransportSlots(id, t)
    OBVIOUS
  <1>9. RequiredSecretSlots(p) = x \o y \o z
    BY <1>1, <1>2, <1>3, <1>4, <1>6, <1>7, <1>8 DEF RequiredSecretSlots
  <1>10. AskedPlaces(p) = AskedAuth(auth) \cup AskedTls(tls) \cup AskedTransport(t)
    BY <1>2, <1>3, <1>4 DEF AskedPlaces
  <1>11. Lists(x, AskedAuth(auth), T)
    BY <1>5, <1>6, AuthLists
  <1>12. Lists(y, AskedTls(tls), T)
    BY <1>7, TlsLists
  <1>13. /\ Lists(z, AskedTransport(t), T)
         /\ StartsWith(AskedTransport(t), "transport")
    BY <1>5, <1>8, TransportLists
  <1>14. /\ StartsWith(AskedAuth(auth), "auth")
         /\ StartsWith(AskedTls(tls), "tls")
    BY <1>5, AuthStart, TlsStart
  <1>15. AskedAuth(auth) \cap AskedTls(tls) = {}
    BY <1>14, StartsDiffer
  <1>16. PICK xy : xy = x \o y
    OBVIOUS
  <1>17. PICK first : first = AskedAuth(auth) \cup AskedTls(tls)
    OBVIOUS
  <1>18. Lists(xy, first, T)
    BY <1>11, <1>12, <1>15, <1>16, <1>17, ListsMore
  <1>19. PICK last : last = AskedTransport(t)
    OBVIOUS
  <1>20. first \cap last = {}
    <2>1. AskedAuth(auth) \cap last = {} /\ AskedTls(tls) \cap last = {}
      BY <1>13, <1>14, <1>19, StartsDiffer
    <2> QED BY <1>17, <2>1
  <1>21. Lists(xy \o z, first \cup last, T)
    BY <1>13, <1>18, <1>19, <1>20, ListsMore
  <1> QED BY <1>9, <1>10, <1>16, <1>17, <1>19, <1>21


-----------------------------------------------------------------------------
(* Handles of secrets and slots.                                           *)

\* The store has another name for every purpose.
LEMMA StoreNamesDiffer ==
  ASSUME NEW p \in DOMAIN StoreName, NEW q \in DOMAIN StoreName,
         StoreName[p] = StoreName[q]
  PROVE  p = q
  BY SMTT(60) DEF StoreName

\* Three sequences, one behind the other.
LEMMA ThreePieces ==
  ASSUME NEW S, NEW a \in Seq(S), NEW b \in Seq(S), NEW c \in Seq(S)
  PROVE  /\ a \o b \o c \in Seq(S)
         /\ Len(a \o b \o c) = Len(a) + Len(b) + Len(c)
         /\ \A k \in 1 .. Len(a) : (a \o b \o c)[k] = a[k]
         /\ \A k \in 1 .. Len(b) : (a \o b \o c)[Len(a) + k] = b[k]
         /\ \A k \in 1 .. Len(c) : (a \o b \o c)[Len(a) + Len(b) + k] = c[k]
  <1>1. PICK d \in Seq(S) : d = a \o b
    BY ConcatProperties
  <1>2. PICK e \in Seq(S) : e = d \o c
    BY ConcatProperties
  <1>3. /\ Len(d) = Len(a) + Len(b)
        /\ \A k \in 1 .. Len(a) : d[k] = a[k]
        /\ \A k \in 1 .. Len(b) : d[Len(a) + k] = b[k]
    BY <1>1
  <1>4. /\ Len(e) = Len(d) + Len(c)
        /\ \A k \in 1 .. Len(d) : e[k] = d[k]
        /\ \A k \in 1 .. Len(c) : e[Len(d) + k] = c[k]
    BY <1>2
  <1>5. Len(a) \in Nat /\ Len(b) \in Nat /\ Len(c) \in Nat
    OBVIOUS
  <1>6. \A k \in 1 .. Len(a) : e[k] = a[k]
    BY <1>3, <1>4, <1>5
  <1>7. \A k \in 1 .. Len(b) : e[Len(a) + k] = b[k]
    <2>1. \A k \in 1 .. Len(b) : Len(a) + k \in 1 .. Len(d)
      BY <1>3, <1>5
    <2> QED BY <1>3, <1>4, <2>1
  <1> QED BY <1>1, <1>2, <1>3, <1>4, <1>6, <1>7

\* The tokens of handles.
HandleTokens(T) == T \cup CodeTokens \cup {"connections", "/", "slots"}
                     \cup {StoreName[p] : p \in DOMAIN StoreName}

\* The handle of a secret or a slot.
Handle(s) == RefOf(s).handle

LEMMA OneTokenOf ==
  ASSUME NEW S, NEW x \in S
  PROVE  <<x>> \in Seq(S)
  OBVIOUS

LEMMA TwoTokens ==
  ASSUME NEW S, NEW x \in S, NEW y \in S
  PROVE  <<x, y>> \in Seq(S)
  OBVIOUS

\* What is where in the handle of a connection's own secret.
LEMMA OwnHandle ==
  ASSUME NEW T, NEW s, s = [profileId |-> s.profileId, purpose |-> s.purpose],
         s.profileId \in Seq(T), s.purpose \in DOMAIN StoreName
  PROVE  /\ Handle(s) \in Seq(HandleTokens(T))
         /\ RefOf(s).service = DefaultService
         /\ Len(Handle(s)) = Len(s.profileId) + 4
         /\ \A k \in 1 .. Len(s.profileId) : Handle(s)[2 + k] = s.profileId[k]
         /\ Handle(s)[Len(s.profileId) + 3] = "/"
         /\ Handle(s)[Len(s.profileId) + 4] = StoreName[s.purpose]
  <1>1. PICK U : U = HandleTokens(T)
    OBVIOUS
  <1>2. PICK id \in Seq(U) : id = s.profileId
    <2>1. T \subseteq U
      BY <1>1 DEF HandleTokens
    <2> QED BY <2>1, SeqMonotonic
  <1>3. PICK name \in U : name = StoreName[s.purpose]
    BY <1>1 DEF HandleTokens
  <1>4. "connections" \in U /\ "/" \in U
    BY <1>1 DEF HandleTokens
  <1>5. PICK first \in Seq(U) : first = <<"connections", "/">>
    BY <1>4, TwoTokens
  <1>6. Len(first) = 2
    BY <1>5
  <1>7. PICK last \in Seq(U) : last = <<"/", name>>
    BY <1>4, TwoTokens
  <1>8. Len(last) = 2 /\ last[1] = "/" /\ last[2] = name
    BY <1>7
  <1>9. "path" \notin DOMAIN s
    <2>1. DOMAIN [profileId |-> s.profileId, purpose |-> s.purpose] = {"profileId", "purpose"}
      OBVIOUS
    <2>2. DOMAIN s = {"profileId", "purpose"}
      BY <2>1
    <2> QED BY <2>2
  <1>10. RefOf(s) = [handle |-> first \o id \o last, service |-> DefaultService]
    BY <1>2, <1>3, <1>5, <1>7, <1>9 DEF RefOf, ConnectionSecretRef
  <1>11. PICK h : h = first \o id \o last
    OBVIOUS
  <1>12. /\ h \in Seq(U)
         /\ Len(h) = Len(first) + Len(id) + Len(last)
         /\ \A k \in 1 .. Len(id) : h[Len(first) + k] = id[k]
         /\ \A k \in 1 .. Len(last) : h[Len(first) + Len(id) + k] = last[k]
    <2>1. first \o id \o last \in Seq(U)
      BY ThreePieces
    <2>2. Len(first \o id \o last) = Len(first) + Len(id) + Len(last)
      BY ThreePieces
    <2>3. \A k \in 1 .. Len(id) : (first \o id \o last)[Len(first) + k] = id[k]
      BY ThreePieces
    <2>4. \A k \in 1 .. Len(last) :
            (first \o id \o last)[Len(first) + Len(id) + k] = last[k]
      BY ThreePieces
    <2> QED BY <1>11, <2>1, <2>2, <2>3, <2>4
  <1>13. 1 \in 1 .. Len(last) /\ 2 \in 1 .. Len(last) /\ Len(id) \in Nat
    BY <1>8
  <1>14. h[Len(id) + 3] = "/" /\ h[Len(id) + 4] = name
    <2>1. h[2 + Len(id) + 1] = last[1] /\ h[2 + Len(id) + 2] = last[2]
      BY <1>6, <1>12, <1>13
    <2>2. 2 + Len(id) + 1 = Len(id) + 3 /\ 2 + Len(id) + 2 = Len(id) + 4
      BY <1>13
    <2> QED BY <1>8, <2>1, <2>2
  <1>15. Handle(s) = h /\ RefOf(s).service = DefaultService
    BY <1>10, <1>11 DEF Handle
  <1>16. Len(h) = Len(id) + 4
    BY <1>6, <1>8, <1>12, <1>13
  <1>17. \A k \in 1 .. Len(id) : h[2 + k] = id[k]
    BY <1>6, <1>12
  <1> QED BY <1>1, <1>2, <1>3, <1>12, <1>14, <1>15, <1>16, <1>17

\* A handle with a code of an id, a name and a code of a path in it.
ReadsAs(h, id, name, path, S) ==
  /\ id \in Seq(S) /\ path \in Seq(S) /\ h \in Seq(S)
  /\ Len(h) = Len(id) + Len(path) + 7
  /\ \A k \in 1 .. Len(id) : h[2 + k] = id[k]
  /\ h[Len(id) + 3] = "/"
  /\ h[Len(id) + 6] = name
  /\ \A k \in 1 .. Len(path) : h[Len(id) + 7 + k] = path[k]

\* What is where in the handle of a slot.
LEMMA SlotHandle ==
  ASSUME NEW T, NEW s \in SlotsOver(T), Fixed \subseteq T,
         NEW id, id = EncodeHandleComponent(s.profileId),
         NEW path, path = EncodeHandleComponent(s.path)
  PROVE  /\ ReadsAs(Handle(s), id, StoreName[s.purpose], path, HandleTokens(T))
         /\ RefOf(s).service = DefaultService
  <1>1. PICK U : U = HandleTokens(T)
    OBVIOUS
  <1>2. /\ s.profileId \in Seq(T)
        /\ s.path \in Seq(T)
        /\ s.purpose \in DOMAIN StoreName
        /\ "path" \in DOMAIN s
    <2>1. /\ s.profileId \in Seq(T) /\ s.path \in PathsOver(T)
          /\ s.purpose \in DOMAIN StoreName /\ "path" \in DOMAIN s
      BY DEF SlotsOver
    <2>4. PICK q \in Seq(T), f \in Fields : s.path = FieldPath(q, f)
      BY <2>1 DEF PathsOver
    <2>5. "." \in T /\ f \in T
      BY DEF Fixed
    <2>6. FieldPath(q, f) \in Seq(T)
      BY <2>5, FieldPaths
    <2> QED BY <2>1, <2>4, <2>6
  <1>3. PICK e1 \in Seq(U), e2 \in Seq(U) : e1 = id /\ e2 = path
    <2>1. id \in Seq(T \cup CodeTokens) /\ path \in Seq(T \cup CodeTokens)
      BY <1>2, EncodedParts
    <2>2. T \cup CodeTokens \subseteq U
      BY <1>1 DEF HandleTokens
    <2> QED BY <2>1, <2>2, SeqMonotonic
  <1>4. PICK name \in U : name = StoreName[s.purpose]
    BY <1>1, <1>2 DEF HandleTokens
  <1>5. "connections" \in U /\ "/" \in U /\ "slots" \in U
    BY <1>1 DEF HandleTokens
  <1>6. PICK first \in Seq(U) : first = <<"connections", "/">>
    BY <1>5, TwoTokens
  <1>7. Len(first) = 2
    BY <1>6
  <1>8. PICK middle \in Seq(U) : middle = <<"/", "slots", "/", name, "/">>
    <2>1. <<"/", "slots", "/", name, "/">> \in Seq(U)
      BY <1>5
    <2> QED BY <2>1
  <1>9. Len(middle) = 5 /\ middle[1] = "/" /\ middle[4] = name
    BY <1>8
  <1>10. PICK begin : begin = first \o e1 \o middle
    OBVIOUS
  <1>11. /\ begin \in Seq(U)
         /\ Len(begin) = Len(first) + Len(e1) + Len(middle)
         /\ \A k \in 1 .. Len(e1) : begin[Len(first) + k] = e1[k]
         /\ \A k \in 1 .. Len(middle) : begin[Len(first) + Len(e1) + k] = middle[k]
    BY <1>10, ThreePieces
  <1>12. PICK h \in Seq(U) : h = begin \o e2
    BY <1>11, ConcatProperties
  <1>13. /\ Len(h) = Len(begin) + Len(e2)
         /\ \A k \in 1 .. Len(begin) : h[k] = begin[k]
         /\ \A k \in 1 .. Len(e2) : h[Len(begin) + k] = e2[k]
    <2>1. begin \in Seq(U)
      BY <1>11
    <2> QED BY <1>12, <2>1
  <1>14. RefOf(s) = [handle |-> h, service |-> DefaultService]
    BY <1>2, <1>3, <1>4, <1>6, <1>8, <1>10, <1>12 DEF RefOf, ConnectionSecretSlotRef
  <1>15. Handle(s) = h /\ RefOf(s).service = DefaultService
    BY <1>14 DEF Handle
  <1>16. Len(e1) \in Nat /\ Len(e2) \in Nat /\ Len(begin) = Len(e1) + 7
    <2>1. Len(e1) \in Nat /\ Len(e2) \in Nat
      BY <1>3
    <2> QED BY <1>7, <1>9, <1>11, <2>1
  <1>17. h[Len(e1) + 3] = "/" /\ h[Len(e1) + 6] = name
    <2>1. /\ begin[2 + Len(e1) + 1] = middle[1]
          /\ begin[2 + Len(e1) + 4] = middle[4]
      BY <1>7, <1>9, <1>11
    <2>2. 2 + Len(e1) + 1 = Len(e1) + 3 /\ 2 + Len(e1) + 4 = Len(e1) + 6
      BY <1>16
    <2>3. Len(e1) + 3 \in 1 .. Len(begin) /\ Len(e1) + 6 \in 1 .. Len(begin)
      BY <1>16
    <2> QED BY <1>9, <1>13, <2>1, <2>2, <2>3
  <1>18. ASSUME NEW k \in 1 .. Len(e1) PROVE h[2 + k] = e1[k]
    <2>1. 2 + k \in 1 .. Len(begin)
      BY <1>16
    <2>2. begin[2 + k] = e1[k]
      BY <1>7, <1>11
    <2> QED BY <1>13, <2>1, <2>2
  <1>19. \A k \in 1 .. Len(e2) : h[Len(e1) + 7 + k] = e2[k]
    BY <1>13, <1>16
  <1>20. Len(h) = Len(e1) + Len(e2) + 7
    BY <1>13, <1>16
  <1>21. ReadsAs(h, e1, name, e2, U)
    BY <1>17, <1>18, <1>19, <1>20 DEF ReadsAs
  <1> QED BY <1>1, <1>3, <1>4, <1>15, <1>21

\* What a secret of a connection looks like, and a slot of an imported one.
IsOwn(s) == /\ s = [profileId |-> s.profileId, purpose |-> s.purpose]
            /\ IsList(s.profileId) /\ s.purpose \in DOMAIN StoreName

IsSlot(s) == \E T : Fixed \subseteq T /\ s \in SlotsOver(T)

\* More tokens, more slots.
LEMMA SlotsOverMore ==
  ASSUME NEW T, NEW U, T \subseteq U, NEW s \in SlotsOver(T)
  PROVE  s \in SlotsOver(U)
  <1>1. Seq(T) \subseteq Seq(U)
    BY SeqMonotonic
  <1>2. PathsOver(T) \subseteq PathsOver(U)
    BY <1>1 DEF PathsOver
  <1> QED BY <1>1, <1>2 DEF SlotsOver

\* What a slot is made of.
LEMMA SlotFields ==
  ASSUME NEW T, Fixed \subseteq T, NEW s \in SlotsOver(T)
  PROVE  /\ s.profileId \in Seq(T) /\ s.path \in Seq(T)
         /\ s.purpose \in DOMAIN StoreName
         /\ s = [profileId |-> s.profileId, purpose |-> s.purpose, path |-> s.path]
         /\ \E q \in Seq(T), f \in Fields : s.path = FieldPath(q, f)
  <1>1. /\ s.profileId \in Seq(T) /\ s.path \in PathsOver(T)
        /\ s.purpose \in DOMAIN StoreName
        /\ s = [profileId |-> s.profileId, purpose |-> s.purpose, path |-> s.path]
    BY DEF SlotsOver
  <1>2. PICK q \in Seq(T), f \in Fields : s.path = FieldPath(q, f)
    BY <1>1 DEF PathsOver
  <1>3. "." \in T /\ f \in T
    BY DEF Fixed
  <1>4. FieldPath(q, f) \in Seq(T)
    BY <1>3, FieldPaths
  <1> QED BY <1>1, <1>2, <1>4

\* The id is not longer in one handle than in the other one, when they agree:
\* where it ends there is a separator.
LEMMA SameIdLength ==
  ASSUME NEW T, Fixed \subseteq T, NEW s \in SlotsOver(T), NEW t \in SlotsOver(T),
         Handle(s) = Handle(t)
  PROVE  ~(Len(EncodeHandleComponent(s.profileId))
             < Len(EncodeHandleComponent(t.profileId)))
  <1>1. PICK a : a = EncodeHandleComponent(s.profileId)
    OBVIOUS
  <1>2. PICK b : b = EncodeHandleComponent(t.profileId)
    OBVIOUS
  <1>3. PICK c : c = EncodeHandleComponent(s.path)
    OBVIOUS
  <1>4. PICK d : d = EncodeHandleComponent(t.path)
    OBVIOUS
  <1>5. /\ ReadsAs(Handle(s), a, StoreName[s.purpose], c, HandleTokens(T))
        /\ ReadsAs(Handle(t), b, StoreName[t.purpose], d, HandleTokens(T))
    BY <1>1, <1>2, <1>3, <1>4, SlotHandle
  <1>6. Len(a) \in Nat /\ Len(b) \in Nat /\ Handle(s)[Len(a) + 3] = "/"
    BY <1>5 DEF ReadsAs
  <1>7. \A k \in 1 .. Len(b) : Handle(t)[2 + k] = b[k]
    BY <1>5 DEF ReadsAs
  <1>8. SUFFICES ASSUME Len(a) < Len(b) PROVE FALSE
    BY <1>1, <1>2
  <1>9. PICK k \in 1 .. Len(b) : k = Len(a) + 1
    BY <1>6, <1>8
  <1>10. Handle(t)[2 + k] = b[k] /\ 2 + k = Len(a) + 3
    BY <1>6, <1>7, <1>9
  <1>11. b[k] = "/"
    BY <1>6, <1>10
  <1>12. t.profileId \in Seq(T)
    BY SlotFields
  <1>13. b[k] # "/"
    BY <1>2, <1>12, EncodeHasNoSlash
  <1> QED BY <1>11, <1>13

\* Two slots with the same handle are the same: the codes of the ids end at
\* the same separator, and what was encoded can be told from its code.
LEMMA SlotHandleIsUnique ==
  ASSUME NEW T, Fixed \subseteq T, NEW s \in SlotsOver(T), NEW t \in SlotsOver(T),
         Handle(s) = Handle(t)
  PROVE  s = t
  <1>1. PICK a : a = EncodeHandleComponent(s.profileId)
    OBVIOUS
  <1>2. PICK b : b = EncodeHandleComponent(t.profileId)
    OBVIOUS
  <1>3. PICK c : c = EncodeHandleComponent(s.path)
    OBVIOUS
  <1>4. PICK d : d = EncodeHandleComponent(t.path)
    OBVIOUS
  <1>5. PICK U : U = HandleTokens(T)
    OBVIOUS
  <1>6. /\ a \in Seq(U) /\ c \in Seq(U)
        /\ Len(Handle(s)) = Len(a) + Len(c) + 7
        /\ \A k \in 1 .. Len(a) : Handle(s)[2 + k] = a[k]
        /\ Handle(s)[Len(a) + 6] = StoreName[s.purpose]
        /\ \A k \in 1 .. Len(c) : Handle(s)[Len(a) + 7 + k] = c[k]
    <2>1. ReadsAs(Handle(s), a, StoreName[s.purpose], c, U)
      BY <1>1, <1>3, <1>5, SlotHandle
    <2> QED BY <2>1 DEF ReadsAs
  <1>7. /\ b \in Seq(U) /\ d \in Seq(U)
        /\ Len(Handle(t)) = Len(b) + Len(d) + 7
        /\ \A k \in 1 .. Len(b) : Handle(t)[2 + k] = b[k]
        /\ Handle(t)[Len(b) + 6] = StoreName[t.purpose]
        /\ \A k \in 1 .. Len(d) : Handle(t)[Len(b) + 7 + k] = d[k]
    <2>1. ReadsAs(Handle(t), b, StoreName[t.purpose], d, U)
      BY <1>2, <1>4, <1>5, SlotHandle
    <2> QED BY <2>1 DEF ReadsAs
  <1>8. Len(a) \in Nat /\ Len(b) \in Nat /\ Len(c) \in Nat /\ Len(d) \in Nat
    BY <1>6, <1>7
  <1>9. Len(a) = Len(b)
    <2>1. ~(Len(a) < Len(b))
      BY <1>1, <1>2, SameIdLength
    <2>2. ~(Len(b) < Len(a))
      BY <1>1, <1>2, SameIdLength
    <2> QED BY <1>8, <2>1, <2>2
  <1>10. a = b
    <2>1. \A k \in 1 .. Len(a) : a[k] = b[k]
      BY <1>6, <1>7, <1>9
    <2> QED BY <1>6, <1>7, <1>9, <2>1, SeqEqual
  <1>11. c = d
    <2>1. Len(c) = Len(d)
      BY <1>6, <1>7, <1>8, <1>9
    <2>2. \A k \in 1 .. Len(c) : c[k] = d[k]
      BY <1>6, <1>7, <1>9, <2>1
    <2> QED BY <1>6, <1>7, <2>1, <2>2, SeqEqual
  <1>12. /\ s.profileId \in Seq(T)
         /\ s.path \in Seq(T)
         /\ s.purpose \in DOMAIN StoreName
         /\ s = [profileId |-> s.profileId, purpose |-> s.purpose, path |-> s.path]
    BY SlotFields
  <1>13. /\ t.profileId \in Seq(T)
         /\ t.path \in Seq(T)
         /\ t.purpose \in DOMAIN StoreName
         /\ t = [profileId |-> t.profileId, purpose |-> t.purpose, path |-> t.path]
    BY SlotFields
  <1>14. s.profileId = t.profileId
    BY <1>1, <1>2, <1>10, <1>12, <1>13, EncodeIsUnique
  <1>15. s.path = t.path
    BY <1>3, <1>4, <1>11, <1>12, <1>13, EncodeIsUnique
  <1>16. s.purpose = t.purpose
    BY <1>6, <1>7, <1>9, <1>12, <1>13, StoreNamesDiffer
  <1> QED BY <1>12, <1>13, <1>14, <1>15, <1>16

\* Two secrets with the same handle are the same: the purpose is one token.
LEMMA OwnHandleIsUnique ==
  ASSUME NEW s, NEW t, IsOwn(s), IsOwn(t), Handle(s) = Handle(t)
  PROVE  s = t
  <1>1. PICK T : /\ s.profileId \in Seq(T) /\ t.profileId \in Seq(T)
    <2>1. PICK X : X = {s.profileId[i] : i \in DOMAIN s.profileId}
      OBVIOUS
    <2>2. PICK Y : Y = {t.profileId[i] : i \in DOMAIN t.profileId}
      OBVIOUS
    <2>3. s.profileId \in Seq(X) /\ t.profileId \in Seq(Y)
      BY <2>1, <2>2 DEF IsOwn, IsList
    <2>4. X \subseteq X \cup Y /\ Y \subseteq X \cup Y
      OBVIOUS
    <2>5. s.profileId \in Seq(X \cup Y) /\ t.profileId \in Seq(X \cup Y)
      BY <2>3, <2>4, SeqMonotonic
    <2> QED BY <2>5
  <1>2. PICK a \in Seq(T) : a = s.profileId
    BY <1>1
  <1>3. PICK b \in Seq(T) : b = t.profileId
    BY <1>1
  <1>4. /\ Len(Handle(s)) = Len(a) + 4
        /\ \A k \in 1 .. Len(a) : Handle(s)[2 + k] = a[k]
        /\ Handle(s)[Len(a) + 4] = StoreName[s.purpose]
    BY <1>2, OwnHandle DEF IsOwn
  <1>5. /\ Len(Handle(t)) = Len(b) + 4
        /\ \A k \in 1 .. Len(b) : Handle(t)[2 + k] = b[k]
        /\ Handle(t)[Len(b) + 4] = StoreName[t.purpose]
    BY <1>3, OwnHandle DEF IsOwn
  <1>6. Len(a) = Len(b)
    BY <1>4, <1>5
  <1>7. \A k \in 1 .. Len(a) : a[k] = b[k]
    BY <1>4, <1>5, <1>6
  <1>8. a = b
    BY <1>6, <1>7, SeqEqual
  <1>9. s.purpose = t.purpose
    BY <1>4, <1>5, <1>6, StoreNamesDiffer DEF IsOwn
  <1> QED BY <1>2, <1>3, <1>8, <1>9 DEF IsOwn

\* Before the last token of a slot's handle there is a dot, and a separator in
\* the handle of a connection's own secret.
LEMMA OwnIsNoSlot ==
  ASSUME NEW s, NEW t, IsOwn(s), IsSlot(t)
  PROVE  Handle(s) # Handle(t)
  <1> SUFFICES ASSUME Handle(s) = Handle(t) PROVE FALSE
    OBVIOUS
  <1>1. PICK T : Fixed \subseteq T /\ t \in SlotsOver(T)
    BY DEF IsSlot
  <1>2. PICK X : s.profileId \in Seq(X)
    BY DEF IsOwn, IsList
  <1>3. PICK a \in Seq(X) : a = s.profileId
    BY <1>2
  <1>4. Len(Handle(s)) = Len(a) + 4 /\ Handle(s)[Len(a) + 3] = "/"
    BY <1>3, OwnHandle DEF IsOwn
  <1>5. PICK b : b = EncodeHandleComponent(t.profileId)
    OBVIOUS
  <1>6. PICK d : d = EncodeHandleComponent(t.path)
    OBVIOUS
  <1>7. /\ b \in Seq(HandleTokens(T)) /\ d \in Seq(HandleTokens(T))
        /\ Len(Handle(t)) = Len(b) + Len(d) + 7
        /\ \A k \in 1 .. Len(d) : Handle(t)[Len(b) + 7 + k] = d[k]
    <2>1. ReadsAs(Handle(t), b, StoreName[t.purpose], d, HandleTokens(T))
      BY <1>1, <1>5, <1>6, SlotHandle
    <2> QED BY <2>1 DEF ReadsAs
  <1>8. PICK q \in Seq(T), f \in Fields : t.path = FieldPath(q, f)
    BY <1>1, SlotFields
  <1>9. "." \in T /\ f \in T /\ "." \notin DOMAIN Code /\ f \notin DOMAIN Code
    BY <1>1, FieldsNeedNoCode DEF Fixed, Code
  <1>10. PICK qe \in Seq(T \cup CodeTokens) : qe = EncodeHandleComponent(q)
    BY EncodedParts
  <1>11. PICK qd \in Seq(T) : qd = Append(q, ".")
    BY <1>9, AppendProperties
  <1>12. EncodeHandleComponent(qd) = Append(qe, ".")
    BY <1>9, <1>10, <1>11, EncodeAppend
  <1>13. PICK e \in Seq(T \cup CodeTokens) : e = Append(qe, ".")
    BY <1>9, AppendProperties
  <1>14. EncodeHandleComponent(Append(qd, f)) = Append(EncodeHandleComponent(qd), f)
    BY <1>9, EncodeAppend
  <1>15. d = Append(e, f)
    BY <1>6, <1>8, <1>11, <1>12, <1>13, <1>14 DEF FieldPath
  <1>16. Len(e) = Len(qe) + 1 /\ e[Len(e)] = "."
    BY <1>13
  <1>17. Len(d) = Len(e) + 1 /\ d[Len(e)] = "." /\ Len(e) \in 1 .. Len(d)
    BY <1>15, <1>16
  <1>18. Handle(t)[Len(b) + 7 + Len(e)] = "."
    BY <1>7, <1>17
  <1>19. Len(a) + 3 = Len(b) + 7 + Len(e)
    <2>1. Len(a) \in Nat /\ Len(b) \in Nat /\ Len(e) \in Nat
      BY <1>7
    <2>2. Len(a) + 4 = Len(b) + Len(d) + 7
      BY <1>4, <1>7
    <2>3. Len(d) = Len(e) + 1
      BY <1>17
    <2>4. PICK i \in Nat : i = Len(a)
      BY <2>1
    <2>5. PICK j \in Nat : j = Len(b)
      BY <2>1
    <2>6. PICK k \in Nat : k = Len(e)
      BY <2>1
    <2>7. i + 4 = j + (k + 1) + 7
      BY <2>2, <2>3, <2>4, <2>5, <2>6
    <2>8. i + 3 = j + 7 + k
      BY <2>7
    <2> QED BY <2>4, <2>5, <2>6, <2>8
  <1> QED BY <1>4, <1>18, <1>19

\* No two secrets or slots have the same handle, whatever ids and hop names
\* are made of.
LEMMA HandleIsUnique ==
  ASSUME NEW s, NEW t, IsOwn(s) \/ IsSlot(s), IsOwn(t) \/ IsSlot(t),
         Handle(s) = Handle(t)
  PROVE  s = t
  <1>1. CASE IsOwn(s) /\ IsOwn(t)
    BY <1>1, OwnHandleIsUnique
  <1>2. CASE IsSlot(s) /\ IsSlot(t)
    <2>1. PICK T : Fixed \subseteq T /\ s \in SlotsOver(T)
      BY <1>2 DEF IsSlot
    <2>2. PICK U : Fixed \subseteq U /\ t \in SlotsOver(U)
      BY <1>2 DEF IsSlot
    <2>3. PICK V : V = T \cup U
      OBVIOUS
    <2>4. T \subseteq V /\ U \subseteq V /\ Fixed \subseteq V
      BY <2>1, <2>3
    <2>5. s \in SlotsOver(V)
      BY <2>1, <2>4, SlotsOverMore
    <2>6. t \in SlotsOver(V)
      BY <2>2, <2>4, SlotsOverMore
    <2> QED BY <2>4, <2>5, <2>6, SlotHandleIsUnique
  <1>3. CASE IsOwn(s) /\ IsSlot(t)
    BY <1>3, OwnIsNoSlot
  <1>4. CASE IsSlot(s) /\ IsOwn(t)
    BY <1>4, OwnIsNoSlot
  <1> QED BY <1>1, <1>2, <1>3, <1>4


-----------------------------------------------------------------------------
(* The store of secrets.                                                   *)

\* There are tokens that the texts of a profile are made of.
LEMMA TokensOfProfile ==
  ASSUME NEW p, WellFormed(p)
  PROVE  \E T : /\ Fixed \subseteq T /\ p.id \in Seq(T)
                /\ HopNamesIn(p.transport, T)
  <1>1. PICK X : p.id \in Seq(X)
    BY DEF WellFormed, IsList
  <1>2. PICK t : t = p.transport
    OBVIOUS
  <1>3. KnownTransport(t)
    BY <1>2 DEF WellFormed
  <1> DEFINE Names(i) == {t.hops[i].name[k] : k \in DOMAIN t.hops[i].name}
             Y == IF t.kind = "chain" THEN UNION {Names(i) : i \in DOMAIN t.hops} ELSE {}
             T == Fixed \cup X \cup Y
  <1>4. X \subseteq T /\ Fixed \subseteq T
    OBVIOUS
  <1>5. p.id \in Seq(T)
    BY <1>1, <1>4, SeqMonotonic
  <1>6. ASSUME t.kind = "chain", NEW i \in DOMAIN t.hops
        PROVE  t.hops[i].name \in Seq(T)
    <2>1. KnownHop(t.hops[i])
      BY <1>3, <1>6 DEF KnownTransport, KnownChain
    <2>2. t.hops[i].name \in Seq(Names(i))
      BY <2>1 DEF KnownHop, IsList
    <2>3. Names(i) \subseteq T
      BY <1>6
    <2> HIDE DEF T, Names
    <2> QED BY <2>2, <2>3, SeqMonotonic
  <1> HIDE DEF T
  <1>7. HopNamesIn(t, T)
    BY <1>6 DEF HopNamesIn
  <1> QED BY <1>2, <1>4, <1>5, <1>7

\* What a profile lists are slots.
LEMMA SlotsAreSlots ==
  ASSUME NEW p, WellFormed(p), NEW s \in ToSet(RequiredSecretSlots(p))
  PROVE  IsSlot(s)
  <1>1. PICK T : /\ Fixed \subseteq T /\ p.id \in Seq(T)
                 /\ HopNamesIn(p.transport, T)
    BY TokensOfProfile
  <1>2. Lists(RequiredSecretSlots(p), AskedPlaces(p), T)
    BY <1>1, RequiredSlots
  <1>3. RequiredSecretSlots(p) \in Seq(SlotsOver(T))
    BY <1>2 DEF Lists
  <1>4. s \in SlotsOver(T)
    BY <1>3 DEF ToSet
  <1> QED BY <1>1, <1>4 DEF IsSlot

\* What is true of the bundle on its way.
Carried ==
  /\ profiles \in ProfileLists
  /\ stage \in {"local", "refused", "exported", "carried", "imported", "rejected"}
  /\ backend \in {"memory", "keychain", "windows"}
  /\ stage = "refused" => FromProfiles(profiles) = Absent
  /\ stage = "exported" => bundle = FromProfiles(profiles) /\ bundle # Absent
  /\ stage \in {"carried", "imported"} =>
       \A i \in DOMAIN bundle.profiles : WellFormed(bundle.profiles[i])

\* A secret that was entered is in the store, and what is not there was deleted; one
\* that was deleted and is there is so by a command that failed.
KeptAt(a, s) ==
  /\ a \in DOMAIN store => store[a] = entered[s] /\ (s \in deleted => ByCommand)
  /\ a \notin DOMAIN store => s \in deleted

\* The store holds what was entered, each under its own account.
StoreIsEntered ==
  /\ DOMAIN entered \subseteq Secrets
  /\ \A s \in DOMAIN entered : entered[s] \in Values
  /\ DOMAIN store \subseteq {Account(RefOf(s)) : s \in DOMAIN entered}
  /\ \A s \in DOMAIN entered : KeptAt(Account(RefOf(s)), s)

\* Every step of the transfer keeps it.
LEMMA CarriedHolds == Spec => []Carried
  <1>1. Init => Carried
    BY DEF Init, Carried
  <1>2. Carried /\ [Next]_vars => Carried'
    <2> SUFFICES ASSUME Carried, [Next]_vars PROVE Carried'
      OBVIOUS
    <2>1. CASE Export
      <3>1. bundle' = FromProfiles(profiles)
        BY <2>1 DEF Export
      <3>2. stage' = IF bundle' = Absent THEN "refused" ELSE "exported"
        BY <2>1 DEF Export
      <3>3. profiles' = profiles /\ backend' = backend
        BY <2>1 DEF Export
      <3> QED BY <3>1, <3>2, <3>3 DEF Carried
    <2>2. CASE Carry
      <3>1. /\ bundle = FromProfiles(profiles) /\ bundle # Absent
            /\ profiles \in ProfileLists /\ backend \in {"memory", "keychain", "windows"}
        BY <2>2 DEF Carry, Carried
      <3>2. /\ bundle' \in Edits(bundle) /\ stage' = "carried"
            /\ profiles' = profiles /\ backend' = backend
        BY <2>2 DEF Carry
      <3>3. \A edited \in Edits(FromProfiles(profiles)) :
              \A i \in DOMAIN edited.profiles : WellFormed(edited.profiles[i])
        BY <3>1, TransferAssumption
      <3>4. \A i \in DOMAIN (bundle').profiles : WellFormed((bundle').profiles[i])
        BY <3>1, <3>2, <3>3
      <3> QED BY <3>1, <3>2, <3>4 DEF Carried
    <2>3. CASE Import
      BY <2>3 DEF Import, Carried
    <2>4. ASSUME NEW s \in Secrets, NEW value \in Values, PutSecret(s, value)
          PROVE  Carried'
      BY <2>4 DEF PutSecret, Carried
    <2>5. ASSUME NEW s \in Secrets, DeleteSecret(s)
          PROVE  Carried'
      BY <2>5 DEF DeleteSecret, Carried
    <2>6. CASE UNCHANGED vars
      BY <2>6 DEF vars, Carried
    <2> QED BY <2>1, <2>2, <2>3, <2>4, <2>5, <2>6 DEF Next
  <1> QED BY <1>1, <1>2, PTL DEF Spec

\* A secret the store may hold is a connection's own or a slot.
LEMMA SecretsAreKnown ==
  ASSUME Carried, NEW s \in Secrets
  PROVE  IsOwn(s) \/ IsSlot(s)
  <1>1. CASE s \in OwnSecrets
    BY <1>1, TransferAssumption DEF IsOwn
  <1>2. CASE s \notin OwnSecrets
    <2>1. stage = "imported" /\ s \in SlotsOf(bundle)
      BY <1>2 DEF Secrets
    <2>2. PICK i \in DOMAIN bundle.profiles : s \in ToSet(RequiredSecretSlots(bundle.profiles[i]))
      BY <2>1 DEF SlotsOf
    <2>3. PICK p : p = bundle.profiles[i]
      OBVIOUS
    <2>4. WellFormed(p)
      BY <2>1, <2>3 DEF Carried
    <2>5. s \in ToSet(RequiredSecretSlots(p))
      BY <2>2, <2>3
    <2> QED BY <2>4, <2>5, SlotsAreSlots
  <1> QED BY <1>1, <1>2

\* Handles are made for one service.
LEMMA HandleService ==
  ASSUME NEW s, IsOwn(s) \/ IsSlot(s)
  PROVE  RefOf(s).service = DefaultService
  <1>1. CASE IsOwn(s)
    <2>1. PICK T : s.profileId \in Seq(T)
      BY <1>1 DEF IsOwn, IsList
    <2> QED BY <1>1, <2>1, OwnHandle DEF IsOwn
  <1>2. CASE IsSlot(s)
    <2>1. PICK T : Fixed \subseteq T /\ s \in SlotsOver(T)
      BY <1>2 DEF IsSlot
    <2> QED BY <2>1, SlotHandle
  <1> QED BY <1>1, <1>2

\* A handle is a sequence of tokens.
LEMMA HandleIsList ==
  ASSUME NEW s, IsOwn(s) \/ IsSlot(s)
  PROVE  \E S : Handle(s) \in Seq(S)
  <1>1. CASE IsOwn(s)
    <2>1. PICK T : s.profileId \in Seq(T)
      BY <1>1 DEF IsOwn, IsList
    <2>2. Handle(s) \in Seq(HandleTokens(T))
      BY <1>1, <2>1, OwnHandle DEF IsOwn
    <2> QED BY <2>2
  <1>2. CASE IsSlot(s)
    <2>1. PICK T : Fixed \subseteq T /\ s \in SlotsOver(T)
      BY <1>2 DEF IsSlot
    <2>2. PICK id, path : id = EncodeHandleComponent(s.profileId)
                          /\ path = EncodeHandleComponent(s.path)
      OBVIOUS
    <2>3. ReadsAs(Handle(s), id, StoreName[s.purpose], path, HandleTokens(T))
      BY <2>1, <2>2, SlotHandle
    <2>4. Handle(s) \in Seq(HandleTokens(T))
      BY <2>3 DEF ReadsAs
    <2> QED BY <2>4
  <1> QED BY <1>1, <1>2

\* Behind the same beginning, different sequences stay different.
LEMMA EndsAreEqual ==
  ASSUME NEW S, NEW a \in Seq(S), NEW b \in Seq(S), NEW g \in Seq(S), NEW h \in Seq(S),
         a \o b \o g = a \o b \o h
  PROVE  g = h
  <1>1. PICK p \in Seq(S) : p = a \o b
    BY ConcatProperties
  <1>2. p \o g = p \o h
    BY <1>1
  <1>3. Len(p) \in Nat /\ Len(g) \in Nat /\ Len(h) \in Nat
    OBVIOUS
  <1>4. /\ Len(p \o g) = Len(p) + Len(g)
        /\ \A i \in 1 .. Len(p) + Len(g) :
             (p \o g)[i] = IF i <= Len(p) THEN p[i] ELSE g[i - Len(p)]
    BY ConcatProperties
  <1>5. /\ Len(p \o h) = Len(p) + Len(h)
        /\ \A i \in 1 .. Len(p) + Len(h) :
             (p \o h)[i] = IF i <= Len(p) THEN p[i] ELSE h[i - Len(p)]
    BY ConcatProperties
  <1>6. PICK x : x = p \o g /\ x = p \o h
    BY <1>2
  <1>7. Len(g) = Len(h)
    BY ONLY <1>3, <1>4, <1>5, <1>6
  <1>8. ASSUME NEW k \in 1 .. Len(g) PROVE g[k] = h[k]
    <2>1. PICK i : i = Len(p) + k
      OBVIOUS
    <2>2. i \in 1 .. Len(p) + Len(g) /\ ~(i <= Len(p)) /\ i - Len(p) = k
      BY ONLY <1>3, <2>1, k \in 1 .. Len(g)
    <2>3. x[i] = g[k]
      BY ONLY <1>4, <1>6, <2>2
    <2>4. x[i] = h[k]
      BY ONLY <1>5, <1>6, <1>7, <2>2
    <2> QED BY <2>3, <2>4
  <1> QED BY <1>7, <1>8, SeqEqual

\* No two secrets share an account.
LEMMA AccountIsUnique ==
  ASSUME Carried, NEW s \in Secrets, NEW t \in Secrets,
         Account(RefOf(s)) = Account(RefOf(t))
  PROVE  s = t
  <1>1. (IsOwn(s) \/ IsSlot(s)) /\ (IsOwn(t) \/ IsSlot(t))
    BY SecretsAreKnown
  <1>2. ServiceName(RefOf(s)) = ServiceName(RefOf(t))
    BY <1>1, HandleService DEF ServiceName
  <1>3. CASE backend = "memory"
    <2>1. Handle(s) = Handle(t)
      BY <1>3 DEF Account, MemoryAccount, Handle
    <2> QED BY <1>1, <2>1, HandleIsUnique
  <1>4. CASE backend = "keychain"
    <2>1. KeychainAccount(RefOf(s)) = KeychainAccount(RefOf(t))
      BY <1>4 DEF Account
    <2>2. Handle(s) = Handle(t)
      BY <2>1 DEF KeychainAccount, Handle
    <2> QED BY <1>1, <2>2, HandleIsUnique
  <1>5. CASE backend = "windows"
    <2>1. WindowsTarget(RefOf(s)) = WindowsTarget(RefOf(t))
      BY <1>5 DEF Account
    <2>2. PICK S, T : Handle(s) \in Seq(S) /\ Handle(t) \in Seq(T)
      <3>1. PICK S : Handle(s) \in Seq(S)
        BY <1>1, HandleIsList
      <3>2. PICK T : Handle(t) \in Seq(T)
        BY <1>1, HandleIsList
      <3> QED BY <3>1, <3>2
    <2>3. PICK U : U = S \cup T \cup {"/", "irodori-table"}
      OBVIOUS
    <2>4. PICK g \in Seq(U), h \in Seq(U) : g = Handle(s) /\ h = Handle(t)
      <3>1. S \subseteq U /\ T \subseteq U
        BY <2>3
      <3>2. Seq(S) \subseteq Seq(U) /\ Seq(T) \subseteq Seq(U)
        BY <3>1, SeqMonotonic
      <3> QED BY <2>2, <3>2
    <2>5. PICK service \in Seq(U) : service = ServiceName(RefOf(s))
      <3>1. RefOf(s).service = DefaultService
        BY <1>1, HandleService
      <3>2. DefaultService \in Seq(U)
        BY <2>3, OneTokenOf DEF DefaultService
      <3>3. ServiceName(RefOf(s)) = DefaultService
        BY <3>1 DEF ServiceName
      <3> QED BY <3>2, <3>3
    <2>6. PICK slash \in Seq(U) : slash = <<"/">>
      BY <2>3, OneTokenOf
    <2>7. service \o slash \o g = service \o slash \o h
      BY <1>2, <2>1, <2>4, <2>5, <2>6 DEF WindowsTarget, Handle
    <2>8. g = h
      BY <2>7, EndsAreEqual
    <2> QED BY <1>1, <2>4, <2>8, HandleIsUnique
  <1> QED BY <1>3, <1>4, <1>5 DEF Carried

\* A secret the store may hold stays one: what is imported stays imported.
LEMMA SecretsStay ==
  ASSUME Carried, [Next]_vars
  PROVE  Secrets \subseteq Secrets'
  <1>1. ASSUME stage = "imported" PROVE stage' = "imported" /\ bundle' = bundle
    BY <1>1 DEF Next, Export, Carry, Import, PutSecret, DeleteSecret, vars
  <1>2. \A s : RefOk(s)' = RefOk(s)
    BY DEF RefOk, ValidHandlePart, Required
  <1>3. CASE stage = "imported"
    <2>1. SlotsOf(bundle)' = SlotsOf(bundle)
      BY <1>1, <1>3 DEF SlotsOf
    <2> QED BY <1>1, <1>2, <1>3, <2>1 DEF Secrets
  <1>4. CASE stage # "imported"
    BY <1>2, <1>4 DEF Secrets
  <1> QED BY <1>3, <1>4

\* A secret put or deleted leaves the other ones' accounts alone.
LEMMA StoreIsEnteredHolds == Spec => []StoreIsEntered
  <1>1. Init => StoreIsEntered
    <2> SUFFICES ASSUME Init PROVE StoreIsEntered
      OBVIOUS
    <2>1. DOMAIN entered = {} /\ DOMAIN store = {}
      BY DEF Init
    <2> QED BY <2>1 DEF StoreIsEntered
  <1>2. Carried /\ StoreIsEntered /\ [Next]_vars => StoreIsEntered'
    <2> SUFFICES ASSUME Carried, StoreIsEntered, [Next]_vars PROVE StoreIsEntered'
      OBVIOUS
    <2>1. Secrets \subseteq Secrets'
      BY SecretsStay
    <2>2. ASSUME UNCHANGED <<backend, store, entered, deleted>> PROVE StoreIsEntered'
      <3>1. \A s : Account(RefOf(s))' = Account(RefOf(s))
        BY <2>2 DEF Account
      <3>2. ByCommand' = ByCommand
        BY <2>2 DEF ByCommand
      <3>3. \A a, s : KeptAt(a, s)' = KeptAt(a, s)
        BY <2>2, <3>2 DEF KeptAt
      <3> QED BY <2>1, <2>2, <3>1, <3>3 DEF StoreIsEntered
    <2>3. ASSUME NEW s \in Secrets, NEW value \in Values, PutSecret(s, value)
          PROVE  StoreIsEntered'
      <3>1. PICK a : a = Account(RefOf(s))
        OBVIOUS
      <3>2. /\ backend' = backend
            /\ store' = Put(store, a, value)
            /\ entered' = Put(entered, s, value)
            /\ deleted' = deleted \ {s}
        BY <2>3, <3>1 DEF PutSecret
      <3>3. /\ \A t : Account(RefOf(t))' = Account(RefOf(t))
            /\ ByCommand' = ByCommand
        BY <3>2 DEF Account, ByCommand
      <3>4. /\ DOMAIN store' = DOMAIN store \cup {a}
            /\ store'[a] = value
            /\ \A b \in DOMAIN store : b # a => store'[b] = store[b]
        BY <3>2 DEF Put
      <3>5. /\ DOMAIN entered' = DOMAIN entered \cup {s}
            /\ entered'[s] = value
            /\ \A t \in DOMAIN entered : t # s => entered'[t] = entered[t]
        BY <3>2 DEF Put
      <3>6. \A t \in DOMAIN entered : t # s => Account(RefOf(t)) # a
        BY <3>1, AccountIsUnique DEF StoreIsEntered
      <3>7. DOMAIN store' \subseteq {Account(RefOf(t)) : t \in DOMAIN entered'}
        BY <3>1, <3>4, <3>5 DEF StoreIsEntered
      <3>8. \A t \in DOMAIN entered' : KeptAt(Account(RefOf(t)), t)'
        <4> SUFFICES ASSUME NEW t \in DOMAIN entered'
                     PROVE  KeptAt(Account(RefOf(t)), t)'
          OBVIOUS
        <4>1. PICK b : b = Account(RefOf(t)) /\ b = Account(RefOf(t))'
          BY <3>3
        <4>2. CASE t = s
          <5>1. b = a
            BY <3>1, <4>1, <4>2
          <5>2. b \in DOMAIN store' /\ store'[b] = entered'[t] /\ t \notin deleted'
            BY <3>2, <3>4, <3>5, <4>2, <5>1
          <5> QED BY <4>1, <5>2 DEF KeptAt
        <4>3. CASE t # s
          <5>1. t \in DOMAIN entered /\ entered'[t] = entered[t] /\ b # a
            BY <3>5, <3>6, <4>1, <4>3
          <5>2. KeptAt(b, t)
            BY <4>1, <5>1 DEF StoreIsEntered
          <5>3. /\ b \in DOMAIN store' <=> b \in DOMAIN store
                /\ b \in DOMAIN store => store'[b] = store[b]
                /\ t \in deleted' <=> t \in deleted
            BY <3>2, <3>4, <4>3, <5>1
          <5> QED BY <3>3, <4>1, <5>1, <5>2, <5>3 DEF KeptAt
        <4> QED BY <4>2, <4>3
      <3>9. DOMAIN entered' \subseteq Secrets' /\ \A t \in DOMAIN entered' : entered'[t] \in Values
        BY <2>1, <3>5 DEF StoreIsEntered
      <3> QED BY <3>3, <3>7, <3>8, <3>9 DEF StoreIsEntered
    <2>4. ASSUME NEW s \in Secrets, DeleteSecret(s)
          PROVE  StoreIsEntered'
      <3>1. PICK a : a = Account(RefOf(s))
        OBVIOUS
      <3>2. /\ backend' = backend /\ entered' = entered
            /\ deleted' = deleted \cup {s}
            /\ store' = Delete(store, a) \/ (ByCommand /\ store' = store)
        BY <2>4, <3>1 DEF DeleteSecret
      <3>3. /\ \A t : Account(RefOf(t))' = Account(RefOf(t))
            /\ ByCommand' = ByCommand
        BY <3>2 DEF Account, ByCommand
      <3>4. /\ DOMAIN store' \subseteq DOMAIN store
            /\ \A b \in DOMAIN store : b # a => b \in DOMAIN store'
            /\ \A b \in DOMAIN store' : store'[b] = store[b]
            /\ a \in DOMAIN store' => ByCommand
        BY <3>2 DEF Delete, Restrict
      <3>5. \A t \in DOMAIN entered : t # s => Account(RefOf(t)) # a
        BY <3>1, AccountIsUnique DEF StoreIsEntered
      <3>6. DOMAIN store' \subseteq {Account(RefOf(t)) : t \in DOMAIN entered'}
        BY <3>2, <3>4 DEF StoreIsEntered
      <3>7. \A t \in DOMAIN entered' : KeptAt(Account(RefOf(t)), t)'
        <4> SUFFICES ASSUME NEW t \in DOMAIN entered'
                     PROVE  KeptAt(Account(RefOf(t)), t)'
          OBVIOUS
        <4>1. PICK b : b = Account(RefOf(t)) /\ b = Account(RefOf(t))'
          BY <3>3
        <4>2. KeptAt(b, t) /\ entered'[t] = entered[t]
          BY <3>2, <4>1 DEF StoreIsEntered
        <4>3. CASE t = s
          <5>1. b = a /\ t \in deleted'
            BY <3>1, <3>2, <4>1, <4>3
          <5> QED BY <3>3, <3>4, <4>1, <4>2, <5>1 DEF KeptAt
        <4>4. CASE t # s
          <5>1. /\ b # a
                /\ t \in deleted' <=> t \in deleted
            BY <3>2, <3>5, <4>1, <4>4
          <5>2. b \in DOMAIN store' <=> b \in DOMAIN store
            BY <3>4, <5>1
          <5> QED BY <3>3, <3>4, <4>1, <4>2, <5>1, <5>2 DEF KeptAt
        <4> QED BY <4>3, <4>4
      <3>8. DOMAIN entered' \subseteq Secrets' /\ \A t \in DOMAIN entered' : entered'[t] \in Values
        BY <2>1, <3>2 DEF StoreIsEntered
      <3> QED BY <3>3, <3>6, <3>7, <3>8 DEF StoreIsEntered
    <2>5. CASE Export
      BY <2>2, <2>5 DEF Export
    <2>6. CASE Carry
      BY <2>2, <2>6 DEF Carry
    <2>7. CASE Import
      BY <2>2, <2>7 DEF Import
    <2>8. CASE UNCHANGED vars
      BY <2>2, <2>8 DEF vars
    <2> QED BY <2>3, <2>4, <2>5, <2>6, <2>7, <2>8 DEF Next
  <1> QED BY <1>1, <1>2, CarriedHolds, PTL DEF Spec

\* What is in the store is what reads back.
LEMMA EnteredReadsBack ==
  ASSUME Carried, StoreIsEntered
  PROVE  SecretsReadBack
  <1> SUFFICES ASSUME NEW s \in Secrets, NEW answer \in Get(RefOf(s))
               PROVE  \/ /\ s \in DOMAIN entered /\ answer = Kept(entered[s])
                         /\ ByCommand \/ s \notin deleted
                      \/ /\ answer = Absent
                         /\ ByCommand \/ s \notin DOMAIN entered \/ s \in deleted
    BY DEF SecretsReadBack
  <1>1. PICK a : a = Account(RefOf(s))
    OBVIOUS
  <1>2. \/ ByCommand /\ answer = Absent
        \/ answer = IF Lookup(store, a) = Absent THEN Absent ELSE Kept(Lookup(store, a))
    BY <1>1 DEF Get
  <1>3. CASE s \in DOMAIN entered /\ a \in DOMAIN store
    <2>1. /\ store[a] = entered[s] /\ entered[s] # Absent
          /\ s \in deleted => ByCommand
      BY <1>1, <1>3, TransferAssumption DEF StoreIsEntered, KeptAt
    <2>2. Lookup(store, a) = entered[s]
      BY <1>3, <2>1 DEF Lookup
    <2> QED BY <1>2, <1>3, <2>1, <2>2
  <1>4. CASE s \in DOMAIN entered /\ a \notin DOMAIN store
    <2>1. s \in deleted
      BY <1>1, <1>4 DEF StoreIsEntered, KeptAt
    <2>2. Lookup(store, a) = Absent
      BY <1>4 DEF Lookup
    <2> QED BY <1>2, <2>1, <2>2
  <1>5. CASE s \notin DOMAIN entered
    <2>1. ASSUME a \in DOMAIN store PROVE FALSE
      <3>1. PICK t \in DOMAIN entered : Account(RefOf(t)) = a
        BY <2>1 DEF StoreIsEntered
      <3>2. t \in Secrets
        BY <3>1 DEF StoreIsEntered
      <3>3. t = s
        BY <1>1, <3>1, <3>2, AccountIsUnique
      <3> QED BY <1>5, <3>1, <3>3
    <2>2. Lookup(store, a) = Absent
      BY <2>1 DEF Lookup
    <2> QED BY <1>2, <1>5, <2>2
  <1> QED BY <1>3, <1>4, <1>5

\* What the store answers for a slot of the imported profiles or a secret of
\* another connection was entered for it last, and never for another one: for
\* profiles, edits of the file, ids and hop names of any kind, no two secrets
\* share an account (connection_secret_slot_ref, connection_secret_ref).  In
\* memory and in the Windows Credential Manager it is exactly that until it is
\* deleted, and nothing before and after; a keychain reached by a command may
\* answer nothing at any time (platform_get), and what was entered although it
\* was deleted (platform_delete).
THEOREM StoredSecretsReadBack == Spec => []SecretsReadBack
  BY EnteredReadsBack, CarriedHolds, StoreIsEnteredHolds, PTL


-----------------------------------------------------------------------------
(* The portable form of a profile asks for the secrets it left out.        *)

\* A field of a record is replaced and the others are not.
Replaced(r, s, field) ==
  /\ DOMAIN s = DOMAIN r
  /\ \A x \in DOMAIN r : x # field => s[x] = r[x]

\* A proxy that needs a login still needs one when its password is left out.
AuthStays(c) == c.auth # Absent => FromProxyAuth(c.auth) # Absent

\* The portable forms of a proxy, an SSH server and a hop replace one field.
LEMMA ProxyReplaced ==
  ASSUME NEW c, KnownProxy(c)
  PROVE  Replaced(c, FromProxy(c), "auth") /\ FromProxy(c).auth = FromProxyAuth(c.auth)
  BY DEF KnownProxy, ProxyFields, FromProxy, Replaced

LEMMA SshReplaced ==
  ASSUME NEW c, KnownSsh(c)
  PROVE  Replaced(c, FromSsh(c), "auth") /\ FromSsh(c).auth = FromSshAuth(c.auth)
  BY DEF KnownSsh, SshFields, FromSsh, Replaced

LEMMA HopReplaced ==
  ASSUME NEW hop, KnownHop(hop)
  PROVE  /\ Replaced(hop, FromHop(hop), "config")
         /\ FromHop(hop).config = IF hop.config.kind = "ssh" THEN FromSsh(hop.config)
                                  ELSE FromProxy(hop.config)
  <1>1. PICK c : c = IF hop.config.kind = "ssh" THEN FromSsh(hop.config)
                     ELSE FromProxy(hop.config)
    OBVIOUS
  <1>2. FromHop(hop) = [hop EXCEPT !.config = c]
    BY <1>1 DEF FromHop
  <1>3. {"name", "config"} \subseteq DOMAIN hop
    BY DEF KnownHop
  <1>4. /\ [hop EXCEPT !.config = c].config = c
        /\ Replaced(hop, [hop EXCEPT !.config = c], "config")
    BY <1>3 DEF Replaced
  <1> QED BY <1>1, <1>2, <1>4

\* What is asked for are the secrets that were set.
LEMMA SshPlaces ==
  ASSUME NEW prefix, NEW c, KnownSsh(c)
  PROVE  /\ AskedSsh(prefix, FromSshAuth(c.auth)) = SshPaths(prefix, c.auth)
         /\ FromSshAuth(c.auth).kind = c.auth.kind
  <1>1. PICK shape : shape = SshAuthConfig[c.auth.kind]
    OBVIOUS
  <1>2. /\ FromSshAuth(c.auth).kind = c.auth.kind
        /\ FromSshAuth(c.auth).required = {f \in shape.optSecrets : c.auth.secret[f] # Absent}
    BY <1>1 DEF FromSshAuth
  <1>3. Asked(shape, FromSshAuth(c.auth).required) = SetSecrets(shape, c.auth)
    BY <1>2 DEF Asked, SetSecrets
  <1> QED BY <1>1, <1>2, <1>3 DEF AskedSsh, SshPaths

LEMMA ProxyPlaces ==
  ASSUME NEW prefix, NEW c, KnownProxy(c), AuthStays(c)
  PROVE  ProxyPaths(prefix, FromProxy(c)) = ProxyPaths(prefix, c)
  <1>1. FromProxy(c).auth = FromProxyAuth(c.auth)
    BY ProxyReplaced
  <1>2. FromProxyAuth(c.auth) = Absent <=> c.auth = Absent
    BY DEF FromProxyAuth, AuthStays
  <1> QED BY <1>1, <1>2 DEF ProxyPaths

LEMMA HopPlaces ==
  ASSUME NEW hop, KnownHop(hop), hop.config.kind # "ssh" => AuthStays(hop.config)
  PROVE  AskedHop(FromHop(hop)) = HopPaths(hop) /\ KnownHop(FromHop(hop))
  <1>1. PICK h : h = FromHop(hop)
    OBVIOUS
  <1>2. PICK c : c = hop.config
    OBVIOUS
  <1>3. Replaced(hop, h, "config")
    BY <1>1, HopReplaced
  <1>4. /\ h.name = hop.name
        /\ {"name", "config"} \subseteq DOMAIN h
        /\ IsList(h.name)
    BY <1>3 DEF Replaced, KnownHop
  <1>5. HopPath(h) = HopPath(hop)
    BY <1>4 DEF HopPath
  <1>6. CASE c.kind = "ssh"
    <2>1. KnownSsh(c)
      BY <1>2, <1>6 DEF KnownHop
    <2>2. PICK d : d = FromSsh(c)
      OBVIOUS
    <2>3. h.config = d
      BY <1>1, <1>2, <1>6, <2>2, HopReplaced
    <2>4. Replaced(c, d, "auth") /\ d.auth = FromSshAuth(c.auth)
      BY <2>1, <2>2, SshReplaced
    <2>5. d.kind = "ssh" /\ SshFields \subseteq DOMAIN d
      BY <1>6, <2>1, <2>4 DEF Replaced, KnownSsh, SshFields
    <2>6. AskedSsh(HopPath(hop), d.auth) = SshPaths(HopPath(hop), c.auth)
      BY <2>1, <2>4, SshPlaces
    <2>7. d.auth.kind \in DOMAIN SshAuthConfig
      BY <2>1, <2>4, SshPlaces DEF KnownSsh
    <2>8. AskedHop(h) = AskedSsh(HopPath(hop), d.auth)
      BY <1>5, <2>3, <2>5 DEF AskedHop
    <2>9. HopPaths(hop) = SshPaths(HopPath(hop), c.auth)
      BY <1>2, <1>6 DEF HopPaths
    <2>10. KnownHop(h)
      BY <1>4, <2>3, <2>5, <2>7 DEF KnownHop, KnownSsh
    <2> QED BY <1>1, <2>6, <2>8, <2>9, <2>10
  <1>7. CASE c.kind # "ssh"
    <2>1. KnownProxy(c) /\ AuthStays(c) /\ c.kind \in {"socks5", "httpConnect"}
      BY <1>2, <1>7 DEF KnownHop
    <2>2. PICK d : d = FromProxy(c)
      OBVIOUS
    <2>3. h.config = d
      BY <1>1, <1>2, <1>7, <2>2, HopReplaced
    <2>4. Replaced(c, d, "auth")
      BY <2>1, <2>2, ProxyReplaced
    <2>5. d.kind = c.kind /\ KnownProxy(d)
      BY <2>1, <2>4 DEF Replaced, KnownProxy, ProxyFields
    <2>6. ProxyPaths(HopPath(hop), d) = ProxyPaths(HopPath(hop), c)
      BY <2>1, <2>2, ProxyPlaces
    <2>7. AskedHop(h) = ProxyPaths(HopPath(hop), d)
      BY <1>5, <1>7, <2>3, <2>5 DEF AskedHop
    <2>8. HopPaths(hop) = ProxyPaths(HopPath(hop), c)
      BY <1>2, <1>7 DEF HopPaths
    <2>9. KnownHop(h)
      BY <1>4, <2>1, <2>3, <2>5 DEF KnownHop
    <2> QED BY <1>1, <2>6, <2>7, <2>8, <2>9
  <1> QED BY <1>6, <1>7

\* The same for every transport.
LEMMA TransportPlacesStay ==
  ASSUME NEW t, KnownTransport(t), \A c \in ProxiesOf(t) : AuthStays(c)
  PROVE  AskedTransport(FromTransport(t)) = TransportPlaces(t) /\ KnownTransport(FromTransport(t))
  <1>1. CASE t.kind \in {"direct", "localFile"}
    <2>1. FromTransport(t) = t
      BY <1>1 DEF FromTransport
    <2> QED BY <1>1, <2>1 DEF AskedTransport, TransportPlaces
  <1>2. CASE t.kind = "sshTunnel"
    <2>1. KnownSsh(t) /\ TargetFields \subseteq DOMAIN t
      BY <1>2 DEF KnownTransport
    <2>2. PICK u : u = FromSsh(t)
      OBVIOUS
    <2>3. FromTransport(t) = u
      BY <1>2, <2>2 DEF FromTransport
    <2>4. Replaced(t, u, "auth") /\ u.auth = FromSshAuth(t.auth)
      BY <2>1, <2>2, SshReplaced
    <2>5. /\ u.kind = "sshTunnel"
          /\ SshFields \subseteq DOMAIN u
          /\ TargetFields \subseteq DOMAIN u
      BY <1>2, <2>1, <2>4 DEF Replaced, KnownSsh, SshFields
    <2>6. AskedSsh(<<"transport">>, u.auth) = SshPaths(<<"transport">>, t.auth)
      BY <2>1, <2>4, SshPlaces
    <2>7. u.auth.kind \in DOMAIN SshAuthConfig
      BY <2>1, <2>4, SshPlaces DEF KnownSsh
    <2>8. AskedTransport(u) = {0} \X AskedSsh(<<"transport">>, u.auth)
      BY <2>5 DEF AskedTransport
    <2>9. TransportPlaces(t) = {0} \X SshPaths(<<"transport">>, t.auth)
      BY <1>2 DEF TransportPlaces
    <2>10. KnownTransport(u)
      BY <2>5, <2>7 DEF KnownTransport, KnownSsh
    <2> QED BY <2>3, <2>6, <2>8, <2>9, <2>10
  <1>3. CASE t.kind \in {"socks5Proxy", "httpConnectProxy"}
    <2>1. KnownProxy(t) /\ TargetFields \subseteq DOMAIN t
      BY <1>3 DEF KnownTransport
    <2>2. PICK u : u = FromProxy(t)
      OBVIOUS
    <2>3. FromTransport(t) = u
      BY <1>3, <2>2 DEF FromTransport
    <2>4. Replaced(t, u, "auth")
      BY <2>1, <2>2, ProxyReplaced
    <2>5. u.kind = t.kind /\ KnownProxy(u) /\ TargetFields \subseteq DOMAIN u
      BY <2>1, <2>4 DEF Replaced, KnownProxy, ProxyFields
    <2>6. AuthStays(t)
      BY <1>3 DEF ProxiesOf
    <2>7. ProxyPaths(<<"transport", ".", "proxy">>, u)
            = ProxyPaths(<<"transport", ".", "proxy">>, t)
      BY <2>1, <2>2, <2>6, ProxyPlaces
    <2>8. AskedTransport(u) = {0} \X ProxyPaths(<<"transport", ".", "proxy">>, u)
      BY <1>3, <2>5 DEF AskedTransport
    <2>9. TransportPlaces(t) = {0} \X ProxyPaths(<<"transport", ".", "proxy">>, t)
      BY <1>3 DEF TransportPlaces
    <2>10. KnownTransport(u)
      BY <1>3, <2>5 DEF KnownTransport
    <2> QED BY <2>3, <2>7, <2>8, <2>9, <2>10
  <1>4. CASE t.kind = "chain"
    <2>1. PICK hops : hops = t.hops
      OBVIOUS
    <2>2. /\ {"kind", "targetHost", "targetPort", "hops"} \subseteq DOMAIN t
          /\ IsList(hops) /\ \A i \in DOMAIN hops : KnownHop(hops[i])
      BY <1>4, <2>1 DEF KnownTransport, KnownChain, TargetFields
    <2>3. PICK portable : portable = [i \in DOMAIN hops |-> FromHop(hops[i])]
      OBVIOUS
    <2>4. PICK u : u = [t EXCEPT !.hops = portable]
      OBVIOUS
    <2>5. FromTransport(t) = u
      BY <1>4, <2>1, <2>3, <2>4 DEF FromTransport
    <2>6. Replaced(t, u, "hops") /\ u.hops = portable
      BY <2>2, <2>4 DEF Replaced
    <2>7. /\ u.kind = "chain"
          /\ {"kind", "targetHost", "targetPort", "hops"} \subseteq DOMAIN u
      BY <1>4, <2>2, <2>6 DEF Replaced
    <2>8. ASSUME NEW i \in DOMAIN hops
          PROVE  AskedHop(portable[i]) = HopPaths(hops[i]) /\ KnownHop(portable[i])
      <3>1. PICK hop : hop = hops[i]
        OBVIOUS
      <3>2. KnownHop(hop)
        BY <2>2, <3>1
      <3>3. hop.config.kind # "ssh" => AuthStays(hop.config)
        <4>1. CASE hop.config.kind = "ssh"
          BY <4>1
        <4>2. CASE hop.config.kind # "ssh"
          <5>1. hop.config.kind \in {"socks5", "httpConnect"}
            BY <3>2, <4>2 DEF KnownHop
          <5>2. hop.config \in ProxiesOf(t)
            BY <1>4, <2>1, <3>1, <5>1 DEF ProxiesOf
          <5> QED BY <5>2
        <4> QED BY <4>1, <4>2
      <3>4. AskedHop(FromHop(hop)) = HopPaths(hop) /\ KnownHop(FromHop(hop))
        BY <3>2, <3>3, HopPlaces
      <3> QED BY <2>3, <3>1, <3>4
    <2>9. DOMAIN portable = DOMAIN hops
      BY <2>3
    <2>10. AskedTransport(u) = UNION {{i} \X AskedHop(portable[i]) : i \in DOMAIN portable}
      BY <2>6, <2>7 DEF AskedTransport
    <2>11. TransportPlaces(t) = UNION {{i} \X HopPaths(hops[i]) : i \in DOMAIN hops}
      BY <1>4, <2>1 DEF TransportPlaces
    <2>12. AskedTransport(u) = TransportPlaces(t)
      BY <2>8, <2>9, <2>10, <2>11
    <2>13. IsList(portable)
      BY <2>2, <2>3 DEF IsList
    <2>14. KnownTransport(u)
      BY <2>6, <2>7, <2>8, <2>9, <2>13 DEF KnownTransport, KnownChain, TargetFields
    <2> QED BY <2>5, <2>12, <2>14
  <1> QED BY <1>1, <1>2, <1>3, <1>4 DEF KnownTransport

\* A portable profile asks for the secrets of the profile, each at its place.
LEMMA PlacesStay ==
  ASSUME NEW p, WellFormed(p), \A c \in ProxiesOf(p.transport) : AuthStays(c)
  PROVE  AskedPlaces(FromProfile(p)) = SecretPlaces(p) /\ WellFormed(FromProfile(p))
  <1>1. PICK q : q = FromProfile(p)
    OBVIOUS
  <1>2. /\ q.id = p.id /\ q.auth = FromAuth(p.auth) /\ q.tls = FromTls(p.tls)
        /\ q.transport = FromTransport(p.transport)
    BY <1>1 DEF FromProfile
  <1>3. KnownTransport(p.transport) /\ KnownAuth(p.auth) /\ IsList(p.id)
    BY DEF WellFormed
  <1>4. /\ AskedTransport(q.transport) = TransportPlaces(p.transport)
        /\ KnownTransport(q.transport)
    BY <1>2, <1>3, TransportPlacesStay
  <1>5. PICK a : a = p.auth
    OBVIOUS
  <1>6. PICK b : b = FromAuth(a)
    OBVIOUS
  <1>7. /\ b.kind = a.kind /\ b.source = a.source
        /\ b.required = {f \in AuthShape(a).optSecrets : a.secret[f] # Absent}
    BY <1>6 DEF FromAuth
  <1>8. AuthShape(b) = AuthShape(a) /\ AuthPath(b) = AuthPath(a)
    BY <1>7 DEF AuthShape, AuthPath
  <1>9. Asked(AuthShape(a), b.required) = SetSecrets(AuthShape(a), a)
    BY <1>7 DEF Asked, SetSecrets
  <1>10. AskedAuth(b) = {0} \X PathsOf(AuthPath(a), SetSecrets(AuthShape(a), a))
    BY <1>8, <1>9 DEF AskedAuth
  <1>11. KnownAuth(b)
    BY <1>3, <1>5, <1>7 DEF KnownAuth
  <1>12. q.tls.required = {f \in TlsSecrets : p.tls[f] # Absent}
    BY <1>2 DEF FromTls, TlsSecrets
  <1>13. Asked(TlsShape, q.tls.required) = {f \in TlsSecrets : p.tls[f] # Absent}
    BY <1>12 DEF Asked, TlsShape, Shape
  <1>14. AskedTls(q.tls) = {0} \X PathsOf(<<"tls">>, {f \in TlsSecrets : p.tls[f] # Absent})
    BY <1>13 DEF AskedTls
  <1>15. WellFormed(q)
    BY <1>2, <1>3, <1>4, <1>5, <1>6, <1>11 DEF WellFormed
  <1>16. AskedPlaces(q) = SecretPlaces(p)
    BY <1>2, <1>4, <1>5, <1>6, <1>10, <1>14 DEF AskedPlaces, SecretPlaces
  <1> QED BY <1>1, <1>15, <1>16

\* The slots of an exported profile, for any profile a user may have.
LEMMA SlotsOfProfile ==
  ASSUME NEW list \in ProfileLists, NEW i \in DOMAIN list,
         NEW slots, slots = RequiredSecretSlots(FromProfile(list[i])),
         NEW places, places = SecretPlaces(list[i])
  PROVE  /\ IsFiniteSet(places) /\ Len(slots) = Cardinality(places)
         /\ {s.path : s \in ToSet(slots)} = {x[2] : x \in places}
         /\ \E S : slots \in Seq(S)
  <1>1. PICK p : p = list[i]
    OBVIOUS
  <1>2. WellFormed(p) /\ \A c \in ProxiesOf(p.transport) : AuthStays(c)
    BY <1>1, TransferAssumption DEF AuthStays
  <1>3. PICK q : q = FromProfile(p)
    OBVIOUS
  <1>4. AskedPlaces(q) = SecretPlaces(p) /\ WellFormed(q)
    BY <1>2, <1>3, PlacesStay
  <1>5. PICK T : /\ Fixed \subseteq T /\ q.id \in Seq(T)
                 /\ HopNamesIn(q.transport, T)
    BY <1>4, TokensOfProfile
  <1>6. Lists(RequiredSecretSlots(q), AskedPlaces(q), T)
    BY <1>4, <1>5, RequiredSlots
  <1>7. Lists(slots, places, T)
    BY <1>1, <1>3, <1>4, <1>6
  <1> QED BY <1>7 DEF Lists

\* What was exported is the portable form of the profiles.
LEMMA BundleOfProfiles ==
  ASSUME Carried, stage = "exported"
  PROVE  bundle = Bundle(profiles)
  BY DEF Carried, FromProfiles

\* What is exported asks for the secrets that were left out.
LEMMA ExportedSlots ==
  ASSUME Carried
  PROVE  SlotsAreTheSecrets
  <1> SUFFICES ASSUME stage = "exported", NEW i \in DOMAIN profiles
               PROVE  LET slots  == RequiredSecretSlots(bundle.profiles[i])
                          places == SecretPlaces(profiles[i])
                      IN  /\ Len(slots) = Cardinality(places)
                          /\ {s.path : s \in ToSet(slots)} = {x[2] : x \in places}
    BY DEF SlotsAreTheSecrets
  <1>1. bundle.profiles[i] = FromProfile(profiles[i])
    BY BundleOfProfiles DEF Bundle
  <1>2. PICK list \in ProfileLists : list = profiles
    BY DEF Carried
  <1>3. PICK slots : slots = RequiredSecretSlots(FromProfile(list[i]))
    OBVIOUS
  <1>4. PICK places : places = SecretPlaces(list[i])
    OBVIOUS
  <1>5. i \in DOMAIN list
    BY <1>2
  <1>6. /\ Len(slots) = Cardinality(places)
        /\ {s.path : s \in ToSet(slots)} = {x[2] : x \in places}
    BY <1>3, <1>4, <1>5, SlotsOfProfile
  <1> QED BY <1>1, <1>2, <1>3, <1>4, <1>6

\* An exported profile asks for each of its secrets once, under the path of
\* the field the secret was in, and for nothing else: the flags from_profile
\* sets and the slots append_secret_slots derives from them agree for every
\* authentication, TLS and transport variant and for chains of any length.
THEOREM ExportedSlotsAreTheSecrets == Spec => []SlotsAreTheSecrets
  BY ExportedSlots, CarriedHolds, PTL

-----------------------------------------------------------------------------
(* What validates as a profile validates as a portable one. *)

\* As many slots as places, and as many paths as places: no path twice.
LEMMA PathsOnce ==
  ASSUME NEW S, NEW slots \in Seq(S), NEW places, IsFiniteSet(places),
         Len(slots) = Cardinality(places),
         {s.path : s \in ToSet(slots)} = {x[2] : x \in places},
         \A x, y \in places : x # y => x[2] # y[2]
  PROVE  \A i, j \in DOMAIN slots : slots[i].path = slots[j].path => i = j
  <1>1. PICK n \in Nat : n = Len(slots)
    OBVIOUS
  <1>2. DOMAIN slots = 1 .. n /\ IsFiniteSet(1 .. n) /\ Cardinality(1 .. n) = n
    BY <1>1, FS_Interval
  <1>3. PICK paths : paths = {x[2] : x \in places}
    OBVIOUS
  <1>4. PICK f : f = [x \in places |-> x[2]]
    OBVIOUS
  <1>5. f \in Injection(places, paths) /\ f \in Surjection(places, paths)
    <2>1. f \in Injection(places, paths)
      BY <1>3, <1>4 DEF Injection, IsInjective
    <2>2. f \in Surjection(places, paths)
      BY <1>3, <1>4 DEF Surjection
    <2> QED BY <2>1, <2>2
  <1>6. IsFiniteSet(paths) /\ Cardinality(paths) = n
    <2>1. IsFiniteSet(paths)
      BY <1>5, FS_Surjection
    <2>2. Cardinality(paths) = Cardinality(places)
      BY <1>5, FS_Surjection
    <2> QED BY <1>1, <2>1, <2>2
  <1>7. PICK g : g = [i \in 1 .. n |-> slots[i].path]
    OBVIOUS
  <1>8. g \in Surjection(1 .. n, paths)
    <2>1. \A i \in 1 .. n : slots[i] \in ToSet(slots)
      BY <1>2 DEF ToSet
    <2>2. \A s \in ToSet(slots) : \E i \in 1 .. n : s = slots[i]
      BY <1>2 DEF ToSet
    <2>3. \A i \in 1 .. n : slots[i].path \in paths
      BY <1>3, <2>1
    <2>4. \A x \in paths : \E i \in 1 .. n : slots[i].path = x
      BY <1>3, <2>2
    <2> QED BY <1>7, <2>3, <2>4 DEF Surjection
  <1>9. g \in Injection(1 .. n, paths)
    BY <1>2, <1>6, <1>8, FS_SurjSameCardinalityImpliesInj
  <1> QED BY <1>2, <1>7, <1>9 DEF Injection, IsInjective

\* A server that is valid stays valid without its secrets.
LEMMA SshServerStays ==
  ASSUME NEW c, KnownSsh(c), ValidSshServer(c)
  PROVE  ValidSshServer(FromSsh(c))
  <1>1. PICK d : d = FromSsh(c)
    OBVIOUS
  <1>2. Replaced(c, d, "auth")
    BY <1>1, SshReplaced
  <1>3. /\ d.host = c.host
        /\ d.port = c.port
        /\ d.username = c.username
        /\ d.hostKey = c.hostKey
    BY <1>2 DEF Replaced, KnownSsh, SshFields
  <1> QED BY <1>1, <1>3 DEF ValidSshServer

LEMMA ServerStays ==
  ASSUME NEW c, KnownProxy(c), ValidServer(c)
  PROVE  ValidPortableServer(FromProxy(c))
  <1>1. PICK d : d = FromProxy(c)
    OBVIOUS
  <1>2. Replaced(c, d, "auth") /\ d.auth = FromProxyAuth(c.auth)
    BY <1>1, ProxyReplaced
  <1>3. d.host = c.host /\ d.port = c.port /\ d.name = c.name
    BY <1>2 DEF Replaced, KnownProxy, ProxyFields
  <1>4. d.auth # Absent => Required(d.auth.username) /\ d.auth.passwordRequired
    <2>1. CASE c.auth = Absent
      BY <1>2, <2>1 DEF FromProxyAuth
    <2>2. CASE c.auth # Absent
      <3>1. d.auth = [username |-> c.auth.username, passwordRequired |-> TRUE]
        BY <1>2, <2>2 DEF FromProxyAuth
      <3>2. Required(c.auth.username)
        BY <2>2 DEF ValidServer, ValidProxyAuth
      <3>3. d.auth.username = c.auth.username /\ d.auth.passwordRequired = TRUE
        BY <3>1
      <3> QED BY <3>2, <3>3
    <2> QED BY <2>1, <2>2
  <1>5. ValidIdIfSet(c.name) /\ Required(c.host) /\ ValidPort(c.port)
    BY DEF ValidServer
  <1> QED BY <1>1, <1>3, <1>4, <1>5 DEF ValidPortableServer

\* The target of a transport depends on nothing that is replaced.
LEMMA TargetStays ==
  ASSUME NEW c, NEW d, NEW field, field \in {"auth", "hops"}, Replaced(c, d, field),
         {"targetHost", "targetPort"} \subseteq DOMAIN c, ValidTarget(c)
  PROVE  ValidTarget(d)
  <1>1. d.targetHost = c.targetHost /\ d.targetPort = c.targetPort
    BY DEF Replaced
  <1> QED BY <1>1 DEF ValidTarget

\* So does a chain of any length, and any other transport.
LEMMA ChainStays ==
  ASSUME NEW t, t.kind = "chain", KnownChain(t), ValidChain(t)
  PROVE  ValidPortableChain(FromTransport(t))
  <1>1. PICK hops : hops = t.hops
    OBVIOUS
  <1>2. PICK portable : portable = [i \in DOMAIN hops |-> FromHop(hops[i])]
    OBVIOUS
  <1>3. PICK u : u = [t EXCEPT !.hops = portable]
    OBVIOUS
  <1>4. FromTransport(t) = u
    BY <1>1, <1>2, <1>3 DEF FromTransport
  <1>5. Replaced(t, u, "hops") /\ u.hops = portable
    BY <1>3 DEF Replaced, KnownChain, TargetFields
  <1>6. ValidTarget(u)
    <2>1. ValidTarget(t) /\ {"targetHost", "targetPort"} \subseteq DOMAIN t
      BY DEF ValidChain, KnownChain, TargetFields
    <2> QED BY <1>5, <2>1, TargetStays
  <1>7. IsList(hops) /\ DOMAIN portable = DOMAIN hops
    BY <1>1, <1>2 DEF KnownChain
  <1>8. Len(portable) >= 2
    <2>1. Len(hops) >= 2
      BY <1>1 DEF ValidChain
    <2>2. DOMAIN hops = 1 .. Len(hops) /\ Len(hops) \in Nat
      BY <1>7 DEF IsList
    <2>3. portable = [i \in 1 .. Len(hops) |-> portable[i]]
      BY <1>2, <2>2
    <2>4. Len(portable) = Len(hops)
      BY <2>2, <2>3
    <2> QED BY <2>1, <2>4
  <1>9. ASSUME NEW i \in DOMAIN hops
        PROVE  /\ portable[i].name = hops[i].name /\ ValidId(hops[i].name)
               /\ IF portable[i].config.kind = "ssh" THEN ValidSshServer(portable[i].config)
                  ELSE ValidPortableServer(portable[i].config)
    <2>1. PICK hop : hop = hops[i]
      OBVIOUS
    <2>2. KnownHop(hop) /\ ValidHop(hop)
      BY <1>1, <2>1 DEF KnownChain, ValidChain
    <2>3. PICK h : h = FromHop(hop)
      OBVIOUS
    <2>4. portable[i] = h
      BY <1>2, <2>1, <2>3
    <2>5. h.name = hop.name
      BY <2>2, <2>3, HopReplaced DEF Replaced, KnownHop
    <2>6. ValidId(hop.name)
      BY <2>2 DEF ValidHop
    <2>7. PICK c : c = hop.config
      OBVIOUS
    <2>8. CASE c.kind = "ssh"
      <3>1. KnownSsh(c) /\ ValidSshServer(c)
        BY <2>2, <2>7, <2>8 DEF KnownHop, ValidHop
      <3>2. h.config = FromSsh(c)
        BY <2>2, <2>3, <2>7, <2>8, HopReplaced
      <3>3. FromSsh(c).kind = "ssh"
        BY <2>8, <3>1, SshReplaced DEF Replaced, KnownSsh, SshFields
      <3>4. ValidSshServer(FromSsh(c))
        BY <3>1, SshServerStays
      <3> QED BY <2>1, <2>4, <2>5, <2>6, <3>2, <3>3, <3>4
    <2>9. CASE c.kind # "ssh"
      <3>1. KnownProxy(c) /\ ValidServer(c)
        BY <2>2, <2>7, <2>9 DEF KnownHop, ValidHop
      <3>2. h.config = FromProxy(c)
        BY <2>2, <2>3, <2>7, <2>9, HopReplaced
      <3>3. FromProxy(c).kind = c.kind
        BY <3>1, ProxyReplaced DEF Replaced, KnownProxy, ProxyFields
      <3>4. ValidPortableServer(FromProxy(c))
        BY <3>1, ServerStays
      <3> QED BY <2>1, <2>4, <2>5, <2>6, <2>9, <3>2, <3>3, <3>4
    <2> QED BY <2>8, <2>9
  <1>10. DistinctNames(portable)
    <2>1. DistinctNames(hops)
      BY <1>1 DEF ValidChain
    <2> QED BY <1>7, <1>9, <2>1 DEF DistinctNames
  <1>11. \A i \in DOMAIN portable :
           /\ ValidId(portable[i].name)
           /\ IF portable[i].config.kind = "ssh" THEN ValidSshServer(portable[i].config)
              ELSE ValidPortableServer(portable[i].config)
    BY <1>7, <1>9
  <1> QED BY <1>4, <1>5, <1>6, <1>8, <1>10, <1>11 DEF ValidPortableChain

LEMMA TransportStays ==
  ASSUME NEW t, KnownTransport(t), ValidTransport(t)
  PROVE  /\ ValidPortableTransport(FromTransport(t))
         /\ FromTransport(t).kind = t.kind
  <1>1. CASE t.kind \in {"direct", "localFile"}
    <2>1. FromTransport(t) = t
      BY <1>1 DEF FromTransport
    <2> QED BY <1>1, <2>1 DEF ValidPortableTransport
  <1>2. CASE t.kind = "sshTunnel"
    <2>1. KnownSsh(t) /\ TargetFields \subseteq DOMAIN t
      BY <1>2 DEF KnownTransport
    <2>2. ValidIdIfSet(t.name) /\ ValidSshServer(t) /\ ValidTarget(t)
      BY <1>2 DEF ValidTransport
    <2>3. PICK u : u = FromSsh(t)
      OBVIOUS
    <2>4. FromTransport(t) = u
      BY <1>2, <2>3 DEF FromTransport
    <2>5. Replaced(t, u, "auth")
      BY <2>1, <2>3, SshReplaced
    <2>6. u.kind = "sshTunnel" /\ u.name = t.name
      BY <1>2, <2>1, <2>5 DEF Replaced, TargetFields
    <2>7. ValidSshServer(u)
      BY <2>1, <2>2, <2>3, SshServerStays
    <2>8. ValidTarget(u)
      BY <2>1, <2>2, <2>5, TargetStays DEF TargetFields
    <2> QED BY <1>2, <2>2, <2>4, <2>6, <2>7, <2>8 DEF ValidPortableTransport
  <1>3. CASE t.kind \in {"socks5Proxy", "httpConnectProxy"}
    <2>1. KnownProxy(t) /\ TargetFields \subseteq DOMAIN t
      BY <1>3 DEF KnownTransport
    <2>2. ValidServer(t) /\ ValidTarget(t)
      BY <1>3 DEF ValidTransport
    <2>3. PICK u : u = FromProxy(t)
      OBVIOUS
    <2>4. FromTransport(t) = u
      BY <1>3, <2>3 DEF FromTransport
    <2>5. Replaced(t, u, "auth")
      BY <2>1, <2>3, ProxyReplaced
    <2>6. u.kind = t.kind
      BY <2>1, <2>5 DEF Replaced, TargetFields
    <2>7. ValidPortableServer(u)
      BY <2>1, <2>2, <2>3, ServerStays
    <2>8. ValidTarget(u)
      BY <2>1, <2>2, <2>5, TargetStays DEF TargetFields
    <2> QED BY <1>3, <2>4, <2>6, <2>7, <2>8 DEF ValidPortableTransport
  <1>4. CASE t.kind = "chain"
    <2>1. KnownChain(t) /\ ValidChain(t)
      BY <1>4 DEF KnownTransport, ValidTransport
    <2>2. ValidPortableChain(FromTransport(t))
      BY <1>4, <2>1, ChainStays
    <2>3. FromTransport(t).kind = "chain"
      BY <1>4, <2>1 DEF FromTransport, KnownChain, TargetFields
    <2> QED BY <1>4, <2>2, <2>3 DEF ValidPortableTransport
  <1> QED BY <1>1, <1>2, <1>3, <1>4 DEF KnownTransport

\* So do an authentication and TLS: the flags say what the secrets said.
LEMMA AuthIsValid ==
  ASSUME NEW a, ValidAuth(a)
  PROVE  ValidPortableAuth(FromAuth(a))
  <1>1. PICK b : b = FromAuth(a)
    OBVIOUS
  <1>2. /\ b.kind = a.kind /\ b.source = a.source /\ b.flow = a.flow
        /\ b.redirectPort = a.redirectPort /\ b.text = a.text /\ b.url = a.url
        /\ b.required = {f \in AuthShape(a).optSecrets : a.secret[f] # Absent}
    BY <1>1 DEF FromAuth
  <1>3. AuthShape(b) = AuthShape(a)
    BY <1>2 DEF AuthShape
  <1>4. ValidPlainFields(b)
    <2>1. ValidPlainFields(a)
      BY DEF ValidAuth
    <2> QED BY <1>2, <1>3, <2>1 DEF ValidPlainFields
  <1>5. a.kind = "oauth2" => FlowSecret(a.flow) \subseteq b.required
    <2> SUFFICES ASSUME a.kind = "oauth2" PROVE FlowSecret(a.flow) \subseteq b.required
      OBVIOUS
    <2>1. AuthShape(a).optSecrets = {"clientSecret", "refreshToken"}
      BY DEF AuthShape, AuthConfig, Shape
    <2>2. FlowSecret(a.flow) \subseteq {"clientSecret", "refreshToken"}
      BY DEF FlowSecret
    <2>3. \A f \in FlowSecret(a.flow) : a.secret[f] # Absent
      BY DEF ValidAuth
    <2> QED BY <1>2, <2>1, <2>2, <2>3
  <1> QED BY <1>1, <1>2, <1>4, <1>5 DEF ValidPortableAuth

LEMMA TlsIsValid ==
  ASSUME NEW tls, ValidTls(tls)
  PROVE  ValidPortableTls(FromTls(tls)) /\ FromTls(tls).mode = tls.mode
  <1>1. PICK u : u = FromTls(tls)
    OBVIOUS
  <1>2. /\ u.mode = tls.mode /\ u.serverName = tls.serverName
        /\ u.required = {f \in {"rootCert", "clientCert", "clientKey"} : tls[f] # Absent}
    BY <1>1 DEF FromTls
  <1>3. /\ "clientCert" \in u.required <=> tls.clientCert # Absent
        /\ "clientKey" \in u.required <=> tls.clientKey # Absent
    BY <1>2
  <1>4. u.mode \in {"default", "disable"} => u.required = {} /\ u.serverName = Absent
    BY <1>2 DEF ValidTls
  <1> QED BY <1>1, <1>2, <1>3, <1>4 DEF ValidTls, ValidPortableTls

\* A valid profile is a valid portable one when its slots have distinct paths.
LEMMA ProfileStays ==
  ASSUME NEW p, WellFormed(p), ValidProfile(p), SlotPathsDistinct(FromProfile(p))
  PROVE  ValidPortable(FromProfile(p))
  <1>1. PICK q : q = FromProfile(p)
    OBVIOUS
  <1>2. /\ q.id = p.id /\ q.displayName = p.displayName /\ q.source = p.source
        /\ q.transport = FromTransport(p.transport) /\ q.database = p.database
        /\ q.user = p.user
        /\ q.auth = FromAuth(p.auth)
        /\ q.tls = FromTls(p.tls)
        /\ q.options = p.options
    BY <1>1 DEF FromProfile
  <1>3. PICK t : t = p.transport
    OBVIOUS
  <1>4. KnownTransport(t) /\ ValidTransport(t)
    BY <1>3 DEF WellFormed, ValidProfile
  <1>5. /\ ValidPortableTransport(q.transport)
        /\ q.transport.kind = p.transport.kind
    BY <1>2, <1>3, <1>4, TransportStays
  <1>6. ValidAuth(p.auth) /\ ValidTls(p.tls)
    BY DEF ValidProfile
  <1>7. ValidPortableAuth(q.auth)
    BY <1>2, <1>6, AuthIsValid
  <1>8. ValidPortableTls(q.tls) /\ q.tls.mode = p.tls.mode
    BY <1>2, <1>6, TlsIsValid
  <1>9. p.transport.kind = "localFile" => p.tls.mode \in {"default", "disable"}
    BY DEF ValidProfile, ResolveEnabled
  <1>10. /\ ValidId(p.id) /\ Required(p.displayName) /\ ValidId(p.source)
         /\ NonEmptyIfSet(p.database)
         /\ NonEmptyIfSet(p.user)
         /\ ValidOptions(p.options)
    BY DEF ValidProfile
  <1> QED BY <1>1, <1>2, <1>5, <1>7, <1>8, <1>9, <1>10 DEF ValidPortable

\* A refused export has one of the three reasons.
LEMMA RefusedForAReason ==
  ASSUME Carried
  PROVE  ExportRefusesForAReason
  <1> SUFFICES ASSUME stage = "refused", DistinctIds(profiles),
                      \A i \in DOMAIN profiles :
                        /\ ValidProfile(profiles[i])
                        /\ \A x, y \in SecretPlaces(profiles[i]) : x # y => x[2] # y[2]
               PROVE  FALSE
    BY DEF ExportRefusesForAReason
  <1>1. PICK list \in ProfileLists : list = profiles
    BY DEF Carried
  <1>2. ASSUME NEW i \in DOMAIN list
        PROVE  ValidPortable(FromProfile(list[i]))
    <2>1. PICK p : p = list[i]
      OBVIOUS
    <2>2. WellFormed(p) /\ ValidProfile(p)
      BY <1>1, <2>1, TransferAssumption
    <2>3. PICK slots : slots = RequiredSecretSlots(FromProfile(list[i]))
      OBVIOUS
    <2>4. PICK places : places = SecretPlaces(list[i])
      OBVIOUS
    <2>5. /\ IsFiniteSet(places) /\ Len(slots) = Cardinality(places)
          /\ {s.path : s \in ToSet(slots)} = {x[2] : x \in places}
          /\ \E S : slots \in Seq(S)
      BY <2>3, <2>4, SlotsOfProfile
    <2>6. \A x, y \in places : x # y => x[2] # y[2]
      BY <1>1, <2>4
    <2>7. \A j, k \in DOMAIN slots : slots[j].path = slots[k].path => j = k
      BY <2>5, <2>6, PathsOnce
    <2>8. SlotPathsDistinct(FromProfile(p))
      BY <2>1, <2>3, <2>7 DEF SlotPathsDistinct
    <2> QED BY <2>1, <2>2, <2>8, ProfileStays
  <1>3. FromProfiles(profiles) = Bundle(profiles)
    BY <1>1, <1>2 DEF FromProfiles
  <1>4. Bundle(profiles) # Absent
    BY <1>1, TransferAssumption
  <1> QED BY <1>3, <1>4 DEF Carried

\* Export refuses no list of profiles without a reason: a profile that does
\* not validate, an id used twice, or two secrets of a profile with the same
\* path.  The validations of profiles and of portable profiles, written twice
\* in the code, do not disagree otherwise, for any list of profiles.
THEOREM RefusedExportsHaveAReason == Spec => []ExportRefusesForAReason
  BY RefusedForAReason, CarriedHolds, PTL
============================================================================
