--------------------------- MODULE TransportPlan ---------------------------
(***************************************************************************)
(* What a connection is going to do, as a list of steps                    *)
(* (irodori-proxy/src/plan.rs).  An endpoint is a pair of host and port.   *)
(***************************************************************************)
EXTENDS ConnectionProfile, SequencesExt

Step(kind, endpoint) == [kind |-> kind, endpoint |-> endpoint]
If(condition, steps) == IF condition THEN steps ELSE << >>

TransportStepKind == { "resolve", "auth", "directTcp", "tls", "localFile",
                       "sshTunnel", "socks5Proxy", "httpConnectProxy" }

\* The steps of some kinds, in their order.
OfKinds(steps, kinds) ==
  FlattenSeq([i \in DOMAIN steps |-> If(steps[i].kind \in kinds, <<steps[i]>>)])

Server(c)      == <<c.host, c.port>>
Destination(c) == <<c.targetHost, c.targetPort>>

TcpTarget(endpoint, tls) ==
  [kind |-> "tcp", endpoint |-> endpoint, tls |-> tls]
FileTarget(path) == [kind |-> "localFile", path |-> path]

TlsStep == <<Step("tls", Absent)>>

PlanDirect(t) ==
  [ target |-> TcpTarget(Server(t), t.tls),
    steps  |-> <<Step("resolve", Server(t)), Step("directTcp", Server(t))>>
                 \o If(t.tls, TlsStep) ]

PlanLocalFile(t) == [ target |-> FileTarget(t.path),
                      steps  |-> <<Step("localFile", t.path)>> ]

PlanSshTunnel(t) ==
  [ target |-> TcpTarget(Destination(t), FALSE),
    steps  |-> << Step("resolve", Server(t)), Step("auth", Absent),
                  Step("sshTunnel", Server(t)),
                  Step("directTcp", Destination(t)) >>
                 \o If(t.strictHostKey, <<Step("auth", Absent)>>) ]

ProxySteps(kind, c) ==
  <<Step("resolve", Server(c))>>
    \o If(c.auth # Absent, <<Step("auth", Absent)>>)
    \o <<Step(kind, Server(c))>>

PlanSingleProxy(t) ==
  [ target |-> TcpTarget(Destination(t), t.tls),
    steps  |-> ProxySteps(t.kind, t) \o <<Step("directTcp", Destination(t))>>
                 \o If(t.tls, TlsStep) ]

HopSteps(config) ==
  CASE config.kind = "ssh" ->
         << Step("resolve", Server(config)), Step("auth", Absent),
            Step("sshTunnel", Server(config)) >>
    [] config.kind = "socks5"      -> ProxySteps("socks5Proxy", config)
    [] config.kind = "httpConnect" -> ProxySteps("httpConnectProxy", config)

\* Slip: the hops of a chain are listed from the target's end.
PlanChainBackwards(t) ==
  [ target |-> TcpTarget(Destination(t), t.tls),
    steps  |-> FlattenSeq([i \in DOMAIN t.hops |->
                             HopSteps(t.hops[Len(t.hops) + 1 - i].config)])
                 \o <<Step("directTcp", Destination(t))>>
                 \o If(t.tls, TlsStep) ]
PlanChain(t) ==
  [ target |-> TcpTarget(Destination(t), t.tls),
    steps  |-> FlattenSeq([i \in DOMAIN t.hops |-> HopSteps(t.hops[i].config)])
                 \o <<Step("directTcp", Destination(t))>>
                 \o If(t.tls, TlsStep) ]

\* TransportPlan::from_config; Absent for an error.
PlanFromConfig(t) ==
  IF ~ValidTransport(t) \/ (t.kind = "direct" /\ t.port = Absent) THEN Absent
  ELSE CASE t.kind = "direct"    -> PlanDirect(t)
         [] t.kind = "localFile" -> PlanLocalFile(t)
         [] t.kind = "sshTunnel" -> PlanSshTunnel(t)
         [] t.kind = "chain"     -> PlanChain(t)
         [] OTHER                -> PlanSingleProxy(t)

\* TransportPlan::from_profile: the TLS mode of the profile has the last word.
PlanFromProfile(p) ==
  LET plan == PlanFromConfig(p.transport)
      tls  == TransportTlsEnabled(p)
  IN  IF ~ValidProfile(p) \/ plan = Absent THEN Absent
      ELSE IF plan.target.kind = "localFile" THEN plan
      ELSE [ target |-> [plan.target EXCEPT !.tls = tls],
             steps  |-> OfKinds(plan.steps, TransportStepKind \ {"tls"})
                          \o If(tls, TlsStep) ]

\* HopRegistry::insert has validated every hop of the registry.
ResolveChain(registry, targetHost, targetPort, tls, names) ==
  IF \E i \in DOMAIN names : names[i] \notin DOMAIN registry THEN Absent
  ELSE LET hops  == [i \in DOMAIN names |->
                       [name |-> names[i], config |-> registry[names[i]]]]
           chain == [ProxyChainTransport(targetHost, targetPort, hops)
                       EXCEPT !.tls = tls]
       IN  IF ValidChain(chain) THEN chain ELSE Absent
=============================================================================
