----------------------------- MODULE PodValidator -----------------------------
(***************************************************************************)
(* One request to the validating webhook for Pods: the Pod is held against  *)
(* every SecurityBaseline the cache lists for its namespace.                *)
(***************************************************************************)
EXTENDS PodObjects

CONSTANTS
  Namespace,  \* of the request
  Baselines   \* names of the SecurityBaselines in it

\* What a baseline may demand, in the order the demands are checked.
Rules == {"nonRoot", "containers", "initContainers"}
Order == [nonRoot |-> 1, containers |-> 2, initContainers |-> 3]

\* "allowed", or the rule the Pod is denied for, or an error.
Verdict == {"allowed", "errored"} \cup Rules

VARIABLES
  pod,        \* the request: the security settings of the Pod
  pc,         \* where Handle is
  baselines,  \* the SecurityBaselines it listed
  todo,       \* names of those it has yet to visit
  verdict     \* its answer, "none" before

vars == <<pod, pc, baselines, todo, verdict>>

--------------------------------------------------------------------------------
(* One baseline *)

NoBaselines == [b \in Baselines |-> Nil]

Listed == {b \in Baselines : baselines[b] # Nil}

Excluded(baseline) == Namespace \in baseline.excludedNamespaces

Demands(baseline) ==
  (IF baseline.runAsNonRoot THEN {"nonRoot"} ELSE {}) \cup
  (IF baseline.readOnlyRootFilesystem THEN {"containers", "initContainers"} ELSE {})

\* A Pod with these settings breaks rule: one that is not made counts as false.
Breaks(security, rule) ==
  \/ rule = "nonRoot" /\ security.runAsNonRoot # "true"
  \/ rule = "containers" /\ \E c \in Containers : security.readOnly[c] # "true"
  \/ rule = "initContainers" /\ \E c \in InitContainers : security.initReadOnly[c] # "true"

\* Seeded fault: the demands are checked in any order.
DenialsUnordered(baseline) ==
  {rule \in Demands(baseline) : ~Excluded(baseline) /\ Breaks(pod, rule)}

\* The rule the Pod is denied for, the first it breaks, in a set that is empty
\* if baseline has nothing against the Pod.
Denials(baseline) ==
  {rule \in Demands(baseline) :
     /\ ~Excluded(baseline) /\ Breaks(pod, rule)
     /\ \A other \in Demands(baseline) : Breaks(pod, other) => Order[rule] <= Order[other]}

--------------------------------------------------------------------------------
(* Handle *)

Answer(answer) == pc' = "done" /\ verdict' = answer

\* Seeded fault: the error of the list is answered and the loop goes on.
ErroredWithoutReturn ==
  /\ pc \in {"decode", "list"}
  /\ pc' = "check" /\ verdict' = "errored"
  /\ UNCHANGED <<pod, baselines, todo>>

\* The request does not decode, or the list fails.
Errored ==
  /\ pc \in {"decode", "list"}
  /\ Answer("errored")
  /\ UNCHANGED <<pod, baselines, todo>>

Decode ==
  /\ pc = "decode" /\ pc' = "list"
  /\ UNCHANGED <<pod, baselines, todo, verdict>>

ListBaselines ==
  /\ pc = "list" /\ pc' = "check"
  /\ baselines' \in [Baselines -> SecurityBaseline \cup {Nil}]
  /\ todo' = {b \in Baselines : baselines'[b] # Nil}
  /\ UNCHANGED <<pod, verdict>>

\* Seeded fault: an exclusion ends the loop.
VisitBaselineBreaking(b) ==
  /\ pc = "check" /\ b \in todo
  /\ \/ /\ Denials(baselines[b]) # {}
        /\ \E denial \in Denials(baselines[b]) : Answer(denial)
        /\ UNCHANGED todo
     \/ /\ Denials(baselines[b]) = {}
        /\ todo' = IF Excluded(baselines[b]) THEN {} ELSE todo \ {b}
        /\ UNCHANGED <<pc, verdict>>
  /\ UNCHANGED <<pod, baselines>>

\* The cache lists in no fixed order. The first denial is the answer.
VisitBaseline(b) ==
  /\ pc = "check" /\ b \in todo
  /\ \/ /\ Denials(baselines[b]) # {}
        /\ \E denial \in Denials(baselines[b]) : Answer(denial)
        /\ UNCHANGED todo
     \/ /\ Denials(baselines[b]) = {}
        /\ todo' = todo \ {b}
        /\ UNCHANGED <<pc, verdict>>
  /\ UNCHANGED <<pod, baselines>>

Allow ==
  /\ pc = "check" /\ todo = {}
  /\ Answer("allowed")
  /\ UNCHANGED <<pod, baselines, todo>>

Init ==
  /\ pod \in Security
  /\ pc = "decode" /\ verdict = "none"
  /\ baselines = NoBaselines /\ todo = {}

\* The next request, each with a Handle of its own, also when the caller gave up
\* on the last one.
Submit ==
  /\ pod' \in Security
  /\ pc' = "decode" /\ verdict' = "none"
  /\ baselines' = NoBaselines /\ todo' = {}

\* The steps of Handle that read no cache.
Work ==
  \/ Errored \/ Decode
  \/ \E b \in Baselines : VisitBaseline(b)
  \/ Allow

Next == ListBaselines \/ Work \/ Submit

Spec == Init /\ [][Next]_vars

--------------------------------------------------------------------------------
(* Properties *)

\* Every variable has its type, and there is a verdict exactly at the end.
TypeOK ==
  /\ pod \in Security
  /\ pc \in {"decode", "list", "check", "done"}
  /\ baselines \in [Baselines -> SecurityBaseline \cup {Nil}]
  /\ todo \subseteq Listed
  /\ verdict \in Verdict \cup {"none"}
  /\ verdict # "none" <=> pc = "done"

\* A Pod with these settings is what baseline asks for.
Complies(security, baseline) ==
  /\ baseline.runAsNonRoot => security.runAsNonRoot = "true"
  /\ baseline.readOnlyRootFilesystem =>
       /\ \A c \in Containers : security.readOnly[c] = "true"
       /\ \A c \in InitContainers : security.initReadOnly[c] = "true"

\* A Pod is only allowed if it complies with every listed baseline that does not
\* exclude its namespace, in whatever order the baselines come and however many
\* of them exclude the namespace.
AllowedComplies ==
  verdict = "allowed" =>
    \A b \in Listed : \/ Namespace \in baselines[b].excludedNamespaces
                      \/ Complies(pod, baselines[b])

\* A denial has a reason: some listed baseline that does not exclude the
\* namespace asks for what the message says, and the Pod does not have it.
\* A Pod denied for its containers runs as non-root if that baseline asks for it.
DenialJustified ==
  verdict \in Rules =>
    \E b \in Listed :
      /\ Namespace \notin baselines[b].excludedNamespaces
      /\ verdict = "nonRoot" => baselines[b].runAsNonRoot /\ pod.runAsNonRoot # "true"
      /\ verdict # "nonRoot" =>
           /\ baselines[b].readOnlyRootFilesystem
           /\ baselines[b].runAsNonRoot => pod.runAsNonRoot = "true"
      /\ verdict = "containers" => \E c \in Containers : pod.readOnly[c] # "true"
      /\ verdict = "initContainers" =>
           /\ \A c \in Containers : pod.readOnly[c] = "true"
           /\ \E c \in InitContainers : pod.initReadOnly[c] # "true"
================================================================================
