---------------------------- MODULE MCPodAdmission ----------------------------
(* A few specs of each kind for the runs of PodAdmission, some of which their *)
(* webhooks refuse.                                                           *)
EXTENDS PodAdmission

\* What url.ParseRequestURI and strconv.ParseFloat make of the texts in Values.
Schemes == [text \in {"http://c", "ftp://c"} |-> IF text = "http://c" THEN "http" ELSE "ftp"]
Rates == [text \in {"0.5", "1.5", "NaN"} |->
            CASE text = "0.5" -> 50 [] text = "1.5" -> 150 [] text = "NaN" -> NaN]

Team(value) == [l \in Labels |-> IF l = "team" THEN value ELSE Nil]
Cpu(quantity) == [r \in Resources |-> quantity]

Policy(team, default, limit) ==
  [priority |-> 0, labels |-> Team(team), requests |-> Cpu(default), limits |-> Cpu(limit)]

SomePolicies ==
  {Policy("x", 1, Nil), Policy(Nil, Nil, 1), Policy(Nil, 2, 1), Policy("x/y", Nil, Nil),
   Policy("x", 1, Invalid), Policy(" ", Nil, Nil)}

Profile(endpoint, rate) ==
  [priority |-> 0, injectEnvVars |-> TRUE, tracingEndpoint |-> endpoint, samplingRate |-> rate]

SomeProfiles ==
  {Profile("http://c", "0.5"), Profile("http://c", "NaN"), Profile("ftp://c", "0.5"),
   Profile("http://c", "1.5")}

Baseline(nonRoot, readOnly, excluded) ==
  [runAsNonRoot |-> nonRoot, readOnlyRootFilesystem |-> readOnly, excludedNamespaces |-> excluded]

SomeBaselines ==
  {Baseline(TRUE, TRUE, {}), Baseline(FALSE, TRUE, {}), Baseline(TRUE, TRUE, {"apps"}),
   Baseline(TRUE, TRUE, {" "})}

BarePod ==
  [labels |-> Team(Nil), env |-> [c \in Containers |-> [v \in EnvVars |-> Nil]],
   requests |-> [c \in Containers |-> Cpu(Nil)], limits |-> [c \in Containers |-> Cpu(Nil)]]

TwoPods == {BarePod, [BarePod EXCEPT !.labels = Team("x"), !.requests[1] = Cpu(2)]}

Settings(nonRoot, readOnly, initReadOnly) ==
  [runAsNonRoot |-> nonRoot, readOnly |-> [c \in Containers |-> readOnly],
   initReadOnly |-> [i \in InitContainers |-> initReadOnly]]

\* Pods that comply, break one rule, or make no settings.
SomeSecurity ==
  {Settings("true", "true", "true"), Settings("unset", "true", "true"),
   Settings("true", "false", "true"), Settings("true", "true", "unset"),
   Settings("unset", "unset", "unset")}

NoSettings == {Settings("unset", "unset", "unset")}
NoLabels == {Team(Nil)}

\* The baselines are told apart by nothing but what is stored under their names.
Interchangeable == Permutations(Baselines)
================================================================================
