----------------------------- MODULE Streams_proofs -----------------------------
(* What reads, writes and deliveries do to a stream of snapshots. *)
EXTENDS Streams, SequenceTheorems, TLAPS

\* The first and the last snapshot of a stream are snapshots.
LEMMA StreamEnds ==
  ASSUME NEW F, NEW s \in Seq(F), s # << >>
  PROVE  /\ Len(s) \in Nat \ {0} /\ DOMAIN s = 1..Len(s)
         /\ Cached(s) = s[1] /\ Cached(s) \in F
         /\ Stored(s) = s[Len(s)] /\ Stored(s) \in F
<1>1. Len(s) \in Nat \ {0} /\ DOMAIN s = 1..Len(s)
  BY EmptySeq, LenProperties
<1>2. Cached(s) = s[1]
  BY DEF Cached
<1>3. Stored(s) = s[Len(s)]
  BY DEF Stored, Last
<1>4. s[1] \in F /\ s[Len(s)] \in F
  BY <1>1, ElementOfSeq
<1> QED BY <1>1, <1>2, <1>3, <1>4

\* A write adds one snapshot at the end.
LEMMA StreamAppend ==
  ASSUME NEW F, NEW s \in Seq(F), s # << >>, NEW x \in F
  PROVE  /\ Append(s, x) \in Seq(F) /\ Append(s, x) # << >>
         /\ Len(Append(s, x)) = Len(s) + 1
         /\ \A i \in 1..Len(s) : Append(s, x)[i] = s[i]
         /\ Cached(Append(s, x)) = Cached(s)
         /\ Stored(Append(s, x)) = x
<1> DEFINE t == Append(s, x)
<1>1. /\ t \in Seq(F) /\ t # << >>
      /\ Len(t) = Len(s) + 1
      /\ \A i \in 1..Len(s) : t[i] = s[i]
      /\ t[Len(s) + 1] = x
  BY AppendProperties
<1>2. Cached(t) = t[1] /\ Stored(t) = t[Len(t)] /\ Cached(s) = s[1] /\ Len(s) \in Nat \ {0}
  BY <1>1, StreamEnds
<1>3. Cached(t) = Cached(s) /\ Stored(t) = x
  BY <1>1, <1>2
<1> QED BY <1>1, <1>3

\* The delivery of an event drops the cached snapshot and keeps the stored one.
LEMMA StreamTail ==
  ASSUME NEW F, NEW s \in Seq(F), InFlight(s)
  PROVE  /\ Tail(s) \in Seq(F) /\ Tail(s) # << >>
         /\ Len(Tail(s)) = Len(s) - 1
         /\ \A i \in 1..Len(s) - 1 : Tail(s)[i] = s[i + 1]
         /\ Stored(Tail(s)) = Stored(s)
<1>1. Len(s) \in Nat /\ Len(s) > 1 /\ s # << >>
  BY LenProperties, EmptySeq DEF InFlight
<1>2. /\ Tail(s) \in Seq(F)
      /\ Len(Tail(s)) = Len(s) - 1
      /\ \A i \in 1..Len(s) - 1 : Tail(s)[i] = s[i + 1]
  BY <1>1, HeadTailProperties
<1>3. Tail(s) # << >>
  <2>1. Len(Tail(s)) # 0
    BY <1>1, <1>2
  <2>2. Len(<< >>) = 0
    BY EmptySeq
  <2> QED BY <2>1, <2>2
<1>4. Stored(Tail(s)) = Tail(s)[Len(s) - 1] /\ Stored(s) = s[Len(s)]
  BY <1>1, <1>2, <1>3, StreamEnds
<1> QED BY <1>1, <1>2, <1>3, <1>4

\* What is in sync is cached as it is stored.
LEMMA StreamSynced ==
  ASSUME NEW F, NEW s \in Seq(F), s # << >>, NEW k, InSync(s, k)
  PROVE  Stored(s)[k] = Cached(s)[k]
<1>1. DOMAIN s = 1..Len(s) /\ Len(s) \in Nat \ {0} /\ Stored(s) = s[Len(s)]
  BY StreamEnds
<1>2. Len(s) \in DOMAIN s
  BY <1>1
<1> QED BY <1>1, <1>2 DEF InSync

\* A fresh stream has one snapshot.
LEMMA StreamFresh ==
  ASSUME NEW F, NEW x \in F
  PROVE  /\ <<x>> \in Seq(F) /\ <<x>> # << >>
         /\ Len(<<x>>) = 1 /\ Cached(<<x>>) = x /\ Stored(<<x>>) = x
<1>1. <<x>> \in Seq(F) /\ <<x>> # << >> /\ Len(<<x>>) = 1 /\ <<x>>[1] = x
  OBVIOUS
<1> QED BY <1>1, StreamEnds
================================================================================
