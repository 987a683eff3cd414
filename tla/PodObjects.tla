------------------------------ MODULE PodObjects ------------------------------
(***************************************************************************)
(* What the Pod webhooks read and write: of a Pod, the part the mutating    *)
(* webhook may fill in and the security settings the validating webhook     *)
(* looks at; of the platform's objects, their specs.                        *)
(***************************************************************************)
EXTENDS Integers

CONSTANTS
  Nil,            \* absent
  Invalid,        \* a quantity that does not parse
  NumContainers,  \* containers of the Pod, numbered in its order
  InitContainers,
  Labels, Resources, Values, Quantities,
  Namespaces

EnvVars == {"OTEL_EXPORTER_OTLP_ENDPOINT", "OTEL_TRACES_SAMPLER_ARG"}

Containers == 1..NumContainers

\* Maps from keys to values, Nil where a key is absent.
LabelMap == [Labels -> Values \cup {Nil}]
EnvMap == [EnvVars -> Values \cup {Nil}]
ResourceMap == [Resources -> Quantities \cup {Nil}]
DefaultMap == [Resources -> Quantities \cup {Nil, Invalid}]

WorkloadPolicy ==
  [priority: Int, labels: LabelMap, requests: DefaultMap, limits: DefaultMap]

TelemetryProfile ==
  [priority: Int, injectEnvVars: BOOLEAN,
   tracingEndpoint: Values \cup {Nil}, samplingRate: Values \cup {Nil}]

SecurityBaseline ==
  [runAsNonRoot: BOOLEAN, readOnlyRootFilesystem: BOOLEAN,
   excludedNamespaces: SUBSET Namespaces]

\* The part of a Pod that may be filled in.
Pod ==
  [labels: LabelMap, env: [Containers -> EnvMap],
   requests: [Containers -> ResourceMap], limits: [Containers -> ResourceMap]]

\* A security setting as the Pod gives it: a pointer to a boolean, which is nil
\* when it or the security context around it is left out.
Setting == {"unset", "true", "false"}

Security ==
  [runAsNonRoot: Setting, readOnly: [Containers -> Setting],
   initReadOnly: [InitContainers -> Setting]]

ASSUME ObjectsAssumption ==
  /\ NumContainers \in Nat
  /\ Nil \notin Values /\ Nil \notin Quantities /\ Nil \notin Pod
  /\ Nil \notin WorkloadPolicy /\ Nil \notin TelemetryProfile /\ Nil \notin SecurityBaseline
  /\ Invalid \notin Quantities /\ Invalid # Nil
================================================================================
