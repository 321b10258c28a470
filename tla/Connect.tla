------------------------------ MODULE Connect ------------------------------
(***************************************************************************)
(* A connection profile on its way to a connection: the plan that is shown *)
(* (TransportPlan), the dial that is made of the same transport (Dial) and *)
(* the probe of the plan's target (Diagnostics).                           *)
(*                                                                         *)
(* The host is not in this repository: it looks up the secrets, resolves   *)
(* the transport, and dials it or probes the target.                       *)
(***************************************************************************)
EXTENDS Dial, Diagnostics

CONSTANTS Profiles,             \* the profiles a user may have
          CredentialLength(_)   \* the longer of a user name and its password

\* ProxyHopConfig: an SSH server or one of two kinds of proxy.
ASSUME ConnectAssumption ==
  \A p \in Profiles : p.transport.kind = "chain" =>
    \A i \in DOMAIN p.transport.hops :
      p.transport.hops[i].config.kind \in {"ssh", "socks5", "httpConnect"}

VARIABLE profile

Proxied == {"sshTunnel", "socks5Proxy", "httpConnectProxy", "chain"}

Plan == PlanFromProfile(profile)

-----------------------------------------------------------------------------
(* Resolving a transport: the same servers, with their secrets looked up. *)

ResolveHop(c) ==
  [ kind    |-> CASE c.kind \in {"ssh", "sshTunnel"} -> "ssh"
                  [] c.kind \in {"socks5", "socks5Proxy"} -> "socks5"
                  [] c.kind \in {"httpConnect", "httpConnectProxy"} -> "httpConnect",
    addr    |-> Server(c),
    auth    |-> IF c.kind \in {"ssh", "sshTunnel"} \/ c.auth = Absent THEN Absent
                ELSE CredentialLength(c.auth),
    strict  |-> c.kind \in {"ssh", "sshTunnel"} /\ c.strictHostKey,
    hostKey |-> IF c.kind \in {"ssh", "sshTunnel"} THEN c.hostKey ELSE Absent ]

ResolveTransport(t) ==
  [ chain  |-> t.kind = "chain",
    hops   |-> IF t.kind = "chain"
               THEN [i \in DOMAIN t.hops |-> ResolveHop(t.hops[i].config)]
               ELSE <<ResolveHop(t)>>,
    target |-> Destination(t) ]

ProfileTransports ==
  {ResolveTransport(p.transport) : p \in {q \in Profiles : q.transport.kind \in Proxied}}

-----------------------------------------------------------------------------
Init ==
  /\ profile \in Profiles
  /\ DialInit
  /\ transport = IF profile.transport.kind \in Proxied
                 THEN ResolveTransport(profile.transport)
                 ELSE CHOOSE t \in Transports : TRUE
  /\ ProbeInit

DialProfile ==
  /\ probing = "idle"
  /\ profile.transport.kind \in Proxied
  /\ Plan # Absent
  /\ DialNext
  /\ UNCHANGED <<profile, probeVars>>

ProbeProfile ==
  /\ pc = "first"
  /\ Plan # Absent
  /\ StartProbe(Plan.target)
  /\ UNCHANGED <<profile, dialVars>>

ProbeOn == ProbeStep /\ UNCHANGED <<profile, dialVars>>

Next == DialProfile \/ ProbeProfile \/ ProbeOn

vars == <<profile, dialVars, probeVars>>
Spec == Init /\ [][Next]_vars

-----------------------------------------------------------------------------
ServerKinds == {"sshTunnel", "socks5Proxy", "httpConnectProxy", "directTcp"}

\* The servers a user is shown, in the order of the stages.
ShownRoute(shown) ==
  LET servers == OfKinds(shown.stages, ServerKinds)
  IN  [i \in DOMAIN servers |-> servers[i].message]

\* What a user was shown is what is done: a connection that is up goes
\* through the servers of the plan in the order of its stages and through no
\* other, and ends at the plan's target.
PlanNamesTheRoute ==
  outcome = "up" => /\ ShownRoute(DiagnosticsTemplate(Plan)) = reached
                    /\ Plan.target.endpoint = Last(reached)
=============================================================================
