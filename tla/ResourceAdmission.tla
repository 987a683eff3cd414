--------------------------- MODULE ResourceAdmission ---------------------------
(***************************************************************************)
(* The validating webhooks of the platform's own kinds: which specs may be  *)
(* stored at all. Horizontal scaling blocks are in HorizontalScaling.       *)
(***************************************************************************)
EXTENDS PodObjects

CONSTANTS
  Blanks,   \* texts that strings.TrimSpace leaves nothing of
  SchemeOf, \* the scheme of each text url.ParseRequestURI accepts
  RateOf,   \* the hundredths, or NaN, of each text strconv.ParseFloat accepts
  NaN

ASSUME RatesAssumption == \A text \in DOMAIN RateOf : RateOf[text] = NaN \/ RateOf[text] \in Int

\* Seeded fault: the limits are not looked at.
validateWorkloadPolicySpecLimitsLeftOut(policy) ==
  /\ \A r \in Resources : policy.requests[r] # Invalid
  /\ \A k \in Labels : policy.labels[k] # Nil => k \notin Blanks /\ policy.labels[k] \notin Blanks

validateWorkloadPolicySpec(policy) ==
  /\ \A r \in Resources : policy.requests[r] # Invalid /\ policy.limits[r] # Invalid
  /\ \A k \in Labels : policy.labels[k] # Nil => k \notin Blanks /\ policy.labels[k] \notin Blanks

\* rate < 0 and rate > 1 are both false of NaN.
OutOfRange(rate) == rate # NaN /\ (rate < 0 \/ rate > 100)

\* Seeded fault: any URL will do.
validateTelemetryProfileSpecAnyScheme(profile) ==
  /\ profile.tracingEndpoint # Nil => profile.tracingEndpoint \in DOMAIN SchemeOf
  /\ profile.samplingRate # Nil =>
       profile.samplingRate \in DOMAIN RateOf /\ ~OutOfRange(RateOf[profile.samplingRate])

validateTelemetryProfileSpec(profile) ==
  /\ profile.tracingEndpoint # Nil =>
       /\ profile.tracingEndpoint \in DOMAIN SchemeOf
       /\ SchemeOf[profile.tracingEndpoint] \in {"http", "https"}
  /\ profile.samplingRate # Nil =>
       profile.samplingRate \in DOMAIN RateOf /\ ~OutOfRange(RateOf[profile.samplingRate])

validateSecurityBaselineSpec(baseline) == baseline.excludedNamespaces \cap Blanks = {}
================================================================================
