--------------------------------- MODULE Network ---------------------------------
(***************************************************************************)
(* NetworkService (network/network.service.ts): the RPC endpoints of the    *)
(* networks, the sweeps that probe them, the choice of an endpoint, and the *)
(* health report.  A sweep probes the endpoints of a network one after the  *)
(* other and awaits each answer; the interval starts the next sweep whether *)
(* or not the last one has ended, so sweeps overlap when an endpoint is     *)
(* slow.  All of it is in memory.                                           *)
(*                                                                          *)
(*   currentNetwork   the network used when a caller names none             *)
(*   endpoints        per network and priority: isHealthy and               *)
(*                    consecutiveFailures                                   *)
(*   sweeps           per sweep: the network and the endpoint probed        *)
(*   checks           per caller of getNetworkHealth: what it awaits        *)
(*   reports          per caller: the last report                           *)
(*   probed           history: per endpoint, the last answers as they came  *)
(*   destroyed        onModuleDestroy has run                               *)
(*   probes, reported   the probes answered and reports asked for, bounded  *)
(***************************************************************************)
EXTENDS Naturals, Sequences, SequencesExt

CONSTANTS RpcEndpoints,           \* per network, how many endpoints it has
          MaxConsecutiveFailures,
          Sweeps,                 \* the sweeps that may run at a time
          Watchers,               \* callers of getNetworkHealth
          MaxProbes, MaxReports

ASSUME NetworkAssumption ==
    /\ MaxConsecutiveFailures \in Nat \ {0}
    /\ \A n \in DOMAIN RpcEndpoints : RpcEndpoints[n] \in Nat \ {0}
    /\ "devnet" \in DOMAIN RpcEndpoints /\ MaxProbes \in Nat

VARIABLES currentNetwork, endpoints, sweeps, checks, reports, probed, destroyed, probes,
          reported

netVars == <<currentNetwork, endpoints, sweeps, checks, reports, probed, destroyed, probes,
             reported>>

SolanaNetwork == DOMAIN RpcEndpoints

\* The endpoints of a network, by priority; the lowest is preferred.
Priorities(n) == 1 .. RpcEndpoints[n]

RpcEndpoint == [isHealthy : BOOLEAN, consecutiveFailures : Nat]

\* No probe, no check and no report: priority 0.
NoProbe == [network |-> "devnet", priority |-> 0]

NoReport == [network |-> "devnet", asked |-> "devnet", isHealthy |-> FALSE, active |-> 0]

NetTypeOK ==
    /\ currentNetwork \in SolanaNetwork
    /\ \A n \in SolanaNetwork : endpoints[n] \in [Priorities(n) -> RpcEndpoint]
    /\ \A s \in Sweeps : /\ sweeps[s].network \in SolanaNetwork
                         /\ sweeps[s].priority \in 0 .. RpcEndpoints[sweeps[s].network]
    /\ \A w \in Watchers : checks[w].priority \in 0 .. RpcEndpoints[checks[w].network]
    /\ destroyed \in BOOLEAN /\ probes \in 0 .. MaxProbes

NetInit ==
    /\ currentNetwork = "devnet"
    /\ endpoints = [n \in SolanaNetwork |->
                      [p \in Priorities(n) |-> [isHealthy |-> TRUE, consecutiveFailures |-> 0]]]
    /\ sweeps = [s \in Sweeps |-> NoProbe]
    /\ checks = [w \in Watchers |-> NoProbe]
    /\ reports = [w \in Watchers |-> NoReport]
    /\ probed = [n \in SolanaNetwork |-> [p \in Priorities(n) |-> <<>>]]
    /\ destroyed = FALSE /\ probes = 0 /\ reported = 0

-----------------------------------------------------------------------------
(* performHealthChecks                                                      *)

StartSweep(s, n) ==
    /\ ~destroyed /\ sweeps[s].priority = 0
    /\ sweeps' = [sweeps EXCEPT ![s] = [network |-> n, priority |-> 1]]
    /\ UNCHANGED <<currentNetwork, endpoints, checks, reports, probed, destroyed, probes, reported>>

\* Mutant: a good answer does not end the row of failures.
AnsweredUncleared(e) == [e EXCEPT !.isHealthy = TRUE]

Answered(e) == [e EXCEPT !.isHealthy = TRUE, !.consecutiveFailures = 0]

Failed(e) ==
    LET failures == e.consecutiveFailures + 1
    IN  [isHealthy |-> e.isHealthy /\ failures < MaxConsecutiveFailures,
         consecutiveFailures |-> failures]

\* Mutant: the loop over the endpoints goes one too far.
NextEndpointPast(n, p) ==
    IF p <= RpcEndpoints[n] THEN [network |-> n, priority |-> p + 1] ELSE NoProbe

NextEndpoint(n, p) ==
    IF p < RpcEndpoints[n] THEN [network |-> n, priority |-> p + 1] ELSE NoProbe

\* getVersion answered or rejected: the endpoint is updated, and the sweep goes
\* on to the next one.
Probe(s, good) ==
    LET n == sweeps[s].network  p == sweeps[s].priority
        seen == Append(probed[n][p], good)
    IN  /\ p # 0 /\ probes < MaxProbes
        /\ endpoints' = [endpoints EXCEPT ![n][p] = IF good THEN Answered(@) ELSE Failed(@)]
        /\ probed' = [probed EXCEPT ![n][p] =
                         IF Len(seen) > MaxConsecutiveFailures THEN Tail(seen) ELSE seen]
        /\ sweeps' = [sweeps EXCEPT ![s] = NextEndpoint(n, p)]
        /\ probes' = probes + 1
        /\ UNCHANGED <<currentNetwork, checks, reports, destroyed, reported>>

\* clearInterval: the sweeps under way go on.
OnModuleDestroy ==
    /\ ~destroyed /\ destroyed' = TRUE
    /\ UNCHANGED <<currentNetwork, endpoints, sweeps, checks, reports, probed, probes, reported>>

-----------------------------------------------------------------------------
(* setCurrentNetwork, getConnection, getNetworkHealth                       *)

SetCurrentNetwork(n) ==
    /\ n # currentNetwork /\ currentNetwork' = n
    /\ UNCHANGED <<endpoints, sweeps, checks, reports, probed, destroyed, probes, reported>>

\* The healthy endpoints of a network, and the preferred one of them.
Healthy(n) == {p \in Priorities(n) : endpoints[n][p].isHealthy}

GetHealthyEndpoint(n) == CHOOSE p \in Healthy(n) : \A q \in Healthy(n) : p <= q

\* The network named, or the current one.  Without a healthy endpoint the report
\* is made at once; else getConnection gives the connection of the preferred
\* one, and getSlot is awaited.
GetNetworkHealth(w, named) ==
  LET n == IF named = "unnamed" THEN currentNetwork ELSE named
  IN
    /\ checks[w].priority = 0 /\ reported < MaxReports /\ reported' = reported + 1
    /\ \/ /\ Healthy(n) = {}
          /\ reports' = [reports EXCEPT ![w] = [NoReport EXCEPT !.network = n, !.asked = n]]
          /\ UNCHANGED checks
       \/ /\ Healthy(n) # {}
          /\ checks' = [checks EXCEPT ![w] = [network |-> n, priority |-> GetHealthyEndpoint(n)]]
          /\ reports' = [reports EXCEPT ![w] = [NoReport EXCEPT !.asked = n]]
    /\ UNCHANGED <<currentNetwork, endpoints, sweeps, probed, destroyed, probes>>

\* The endpoints are listed as they are now; a failed getSlot is not counted
\* against the endpoint.
SlotAnswered(w, good) ==
    LET c == checks[w]
    IN  /\ c.priority # 0
        /\ reports' = [reports EXCEPT ![w] =
             [@ EXCEPT !.network = c.network, !.isHealthy = good,
                       !.active = IF good THEN c.priority ELSE 0]]
        /\ checks' = [checks EXCEPT ![w] = NoProbe]
        /\ UNCHANGED <<currentNetwork, endpoints, sweeps, probed, destroyed, probes, reported>>

NetNext ==
    \/ \E s \in Sweeps : \/ \E n \in SolanaNetwork : StartSweep(s, n)
                         \/ \E good \in BOOLEAN : Probe(s, good)
    \/ OnModuleDestroy
    \/ \E n \in SolanaNetwork : SetCurrentNetwork(n)
    \/ \E w \in Watchers : \/ \E n \in SolanaNetwork \cup {"unnamed"} : GetNetworkHealth(w, n)
                           \/ \E good \in BOOLEAN : SlotAnswered(w, good)

-----------------------------------------------------------------------------
(* Properties                                                               *)

\* "Failure Tracking", "Automatic Recovery": whatever sweeps overlap, an
\* endpoint is passed over exactly while its last MaxConsecutiveFailures answers,
\* as they came, all failed (performHealthChecks); and a report is about the
\* network it was asked for, though the current network may change while it
\* waits, and names an endpoint of it (getNetworkHealth).
EndpointsJudged ==
    /\ \A n \in SolanaNetwork : \A p \in Priorities(n) :
         endpoints[n][p].isHealthy
           = (Len(probed[n][p]) < MaxConsecutiveFailures \/ Contains(probed[n][p], TRUE))
    /\ \A w \in Watchers : reports[w].isHealthy =>
         /\ reports[w].network = reports[w].asked
         /\ reports[w].active \in Priorities(reports[w].asked)
=============================================================================
