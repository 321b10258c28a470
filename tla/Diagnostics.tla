---------------------------- MODULE Diagnostics ----------------------------
(***************************************************************************)
(* What a user is shown of an attempt to connect                           *)
(* (irodori-proxy/src/diagnostics.rs), and the probe of a direct target.   *)
(* Durations and the messages of the probe are left out.                   *)
(***************************************************************************)
EXTENDS TransportPlan

CONSTANT MaxAddresses    \* bound on the addresses a name resolves to

VARIABLES diagnostics,   \* what the probe has noted
          probing,       \* "idle", "resolve", "connect" or "over"
          addresses,     \* the addresses it has not tried yet
          accepted       \* a connection was accepted

probeVars == <<diagnostics, probing, addresses, accepted>>

Stage(kind, status) == [kind |-> kind, status |-> status]

NewDiagnostics(target) ==
  [target |-> target, stages |-> << >>, firstFailure |-> Absent]

Push(d, kind, status) ==
  [d EXCEPT !.stages = Append(@, Stage(kind, status)),
            !.firstFailure = IF status = "failed" /\ @ = Absent
                             THEN Len(d.stages) ELSE @]

Succeeded(d) == /\ d.firstFailure = Absent
                /\ \A i \in DOMAIN d.stages : d.stages[i].status # "failed"

\* TransportPlan::diagnostics_template
DiagnosticsTemplate(plan) ==
  [ target |-> plan.target, firstFailure |-> Absent,
    stages |-> [i \in DOMAIN plan.steps |->
                  [ kind |-> plan.steps[i].kind, status |-> "pending",
                    message |-> plan.steps[i].endpoint ]] ]

-----------------------------------------------------------------------------
(* DirectTcpProbe::probe *)

ProbeInit == /\ diagnostics = Absent /\ probing = "idle"
             /\ addresses = 0 /\ accepted = FALSE

StartProbe(target) ==
  /\ probing = "idle"
  /\ LET d == NewDiagnostics(target) IN
     IF target.kind = "localFile"
     THEN diagnostics' = Push(d, "localFile", "succeeded") /\ probing' = "over"
     ELSE diagnostics' = d /\ probing' = "resolve"
  /\ UNCHANGED <<addresses, accepted>>

\* The name has n addresses; no address and an error end the probe alike.
ProbeResolve(n) ==
  /\ probing = "resolve"
  /\ addresses' = n
  /\ IF n = 0
     THEN /\ diagnostics' = Push(diagnostics, "resolve", "failed")
          /\ probing' = "over"
     ELSE /\ diagnostics' = Push(diagnostics, "resolve", "succeeded")
          /\ probing' = "connect"
  /\ UNCHANGED accepted

ProbeAccepted ==
  /\ probing = "connect" /\ addresses > 0
  /\ accepted' = TRUE
  /\ LET d == Push(diagnostics, "directTcp", "succeeded") IN
     diagnostics' = IF d.target.tls THEN Push(d, "tls", "skipped") ELSE d
  /\ probing' = "over"
  /\ UNCHANGED addresses

\* Slip: each address that refuses is a failed stage.
ProbeRefusedFails ==
  /\ probing = "connect" /\ addresses > 0
  /\ addresses' = addresses - 1
  /\ diagnostics' = Push(diagnostics, "directTcp", "failed")
  /\ UNCHANGED <<probing, accepted>>
ProbeRefused ==
  /\ probing = "connect" /\ addresses > 0
  /\ addresses' = addresses - 1
  /\ UNCHANGED <<diagnostics, probing, accepted>>

ProbeGivesUp ==
  /\ probing = "connect" /\ addresses = 0
  /\ diagnostics' = Push(diagnostics, "directTcp", "failed")
  /\ probing' = "over"
  /\ UNCHANGED <<addresses, accepted>>

ProbeStep == \/ \E n \in 0 .. MaxAddresses : ProbeResolve(n)
             \/ ProbeAccepted \/ ProbeRefused \/ ProbeGivesUp

\* A finished probe says that a target can be reached exactly when it has
\* reached it, and names the first stage that failed and no other.
ProbeTellsTheTruth ==
  probing = "over" =>
    LET failed == {i \in DOMAIN diagnostics.stages :
                     diagnostics.stages[i].status = "failed"}
    IN /\ Succeeded(diagnostics) <=>
            (accepted \/ diagnostics.target.kind = "localFile")
       /\ IF failed = {} THEN diagnostics.firstFailure = Absent
          ELSE diagnostics.firstFailure + 1 = Min(failed)
=============================================================================
