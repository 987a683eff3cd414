----------------------------- MODULE MCPodMutator -----------------------------
(* Small lists of policies and profiles for the runs of PodMutator. *)
EXTENDS PodMutator

NoDefaults == [r \in Resources |-> Nil]
Team(value) == [l \in Labels |-> IF l = "team" THEN value ELSE Nil]

\* A policy of priority n that defaults one label and, per resource, a request
\* and a limit.
Policy(n, team, cpu, memory, limit) ==
  [priority |-> n, labels |-> Team(team),
   requests |-> [r \in Resources |-> IF r = "cpu" THEN cpu ELSE memory],
   limits |-> [r \in Resources |-> IF r = "cpu" THEN limit ELSE Nil]]

AFewPolicies ==
  {Policy(0, "x", 1, Nil, Nil), Policy(1, "y", 2, 1, 2), Policy(1, Nil, Nil, 2, 1),
   Policy(1, "x", 1, Invalid, 2), Policy(0, "y", 1, 1, Invalid)}

BrokenRequest == {Policy(1, "x", 1, Invalid, Nil)}

Profile(n, inject, endpoint, rate) ==
  [priority |-> n, injectEnvVars |-> inject, tracingEndpoint |-> endpoint,
   samplingRate |-> rate]

AFewProfiles ==
  {Profile(0, TRUE, "x", "y"), Profile(1, TRUE, "y", Nil), Profile(1, TRUE, Nil, "x"),
   Profile(2, FALSE, "x", "x")}

OneProfile == {Profile(0, TRUE, "x", "y")}

BarePod ==
  [labels |-> Team(Nil), env |-> [c \in Containers |-> [v \in EnvVars |-> Nil]],
   requests |-> [c \in Containers |-> NoDefaults], limits |-> [c \in Containers |-> NoDefaults]]

\* A Pod that settles some things itself.
OpinionatedPod ==
  [BarePod EXCEPT !.labels = Team("z"),
                  !.env[1] = [v \in EnvVars |-> IF v = "OTEL_TRACES_SAMPLER_ARG" THEN "z" ELSE Nil],
                  !.requests[1] = [r \in Resources |-> IF r = "memory" THEN 3 ELSE Nil]]

BarePods == {BarePod}
TwoPods == {BarePod, OpinionatedPod}
================================================================================
