--------------------------- MODULE StatusControllers ---------------------------
(***************************************************************************)
(* The SecurityBaseline and the TelemetryProfile controller in one operator *)
(* process: each has its own cache, workqueue and worker, and a restart     *)
(* takes both down between any two of their steps.                          *)
(***************************************************************************)
EXTENDS Streams, StatusObjects

CONSTANTS BaselineNames, ProfileNames, MaxEdits, MaxFaults

VARIABLES
  baselines, bqueue, bpc, breq, bcopy, bedits, bfaults,
  profiles, pqueue, ppc, preq, pcopy, pedits, pfaults

bvars == <<baselines, bqueue, bpc, breq, bcopy, bedits, bfaults>>
pvars == <<profiles, pqueue, ppc, preq, pcopy, pedits, pfaults>>
vars == <<bvars, pvars>>

Baselines == INSTANCE StatusReconciler WITH
  Objects <- BaselineNames, objects <- baselines, queue <- bqueue, pc <- bpc,
  req <- breq, copy <- bcopy, edits <- bedits, faults <- bfaults

Profiles == INSTANCE StatusReconciler WITH
  Objects <- ProfileNames, objects <- profiles, queue <- pqueue, pc <- ppc,
  req <- preq, copy <- pcopy, edits <- pedits, faults <- pfaults

Init == Baselines!Init /\ Profiles!Init

\* The process dies and comes back with both controllers.
Restart == Baselines!Restart /\ Profiles!Restart

Next ==
  \/ Baselines!Own /\ UNCHANGED pvars
  \/ Profiles!Own /\ UNCHANGED bvars
  \/ Restart

Spec == Init /\ [][Next]_vars

\* The controllers of a process run beside each other.
FairSpec == Spec /\ Baselines!Fairness /\ Profiles!Fairness

--------------------------------------------------------------------------------
(* Properties *)

\* Every variable of both controllers has its type.
TypeOK == Baselines!TypeOK /\ Profiles!TypeOK

\* At rest nothing one controller was told of is left unannounced, however often
\* the process died at the hands of the other.
AtRestAnnounced == Baselines!AtRestAnnounced /\ Profiles!AtRestAnnounced

\* Both controllers keep the promise of AvailableCondition in one process.
KeepsContracts == Baselines!KeepsContract /\ Profiles!KeepsContract

\* Once users and faults stop, every baseline and every profile is announced.
EventuallyAnnounced == Baselines!EventuallyAnnounced /\ Profiles!EventuallyAnnounced
================================================================================
