---------------------------- MODULE QuotaProofs ----------------------------
(***************************************************************************)
(* The bounds of a quota for every sequence of requests, targets and       *)
(* statistics.                                                             *)
(***************************************************************************)
EXTENDS Quota, TLAPS

\* The invariant holds of a quota that has seen nothing.
LEMMA InitIInv == Init => IInv
BY DEF Init, IInv, TypeOK, NoTTL, MaxOf, BorrowOnePerSecond, ReservoirBound, StatsConserved

\* A request keeps the invariant, whichever of the three ways it goes.
LEMMA SampleStep ==
  ASSUME IInv, Sample
  PROVE  IInv'
<1> USE DEF IInv, TypeOK, Request, UsedNow, target, MaxOf,
            BorrowOnePerSecond, ReservoirBound, StatsConserved
<1>1. CASE Borrow
  BY <1>1 DEF Borrow
<1>2. CASE Consume
  BY <1>2 DEF Consume
<1>3. CASE FallBack
  <2>1. sampled' \in Nat /\ borrowed' <= sampled' /\ sampled' <= requests'
    BY <1>3 DEF FallBack
  <2> QED
    BY <1>3, <2>1 DEF FallBack
<1> QED
  BY <1>1, <1>2, <1>3 DEF Sample

\* Every step keeps the invariant.
LEMMA IInvStep == IInv /\ [Next]_vars => IInv'
<1> SUFFICES ASSUME IInv, [Next]_vars PROVE IInv'
  OBVIOUS
<1> USE DEF IInv, TypeOK, target, counts, spent, second, MaxOf,
            BorrowOnePerSecond, ReservoirBound, StatsConserved
<1>1. CASE UNCHANGED vars
  BY <1>1 DEF vars
<1>2. CASE Tick
  BY <1>2 DEF Tick
<1>3. ASSUME NEW rate \in Rates, NEW n \in Quotas, NEW t \in 0..(MaxTime + 1),
             Update(rate, n, t)
      PROVE  IInv'
  BY <1>3, QuotasAssumption, BoundsAssumption DEF Update
<1>4. ASSUME NEW rate \in Rates, NEW n \in Quotas, UpdateFails(rate, n)
      PROVE  IInv'
  BY <1>4, QuotasAssumption DEF UpdateFails
<1>5. CASE Stats
  BY <1>5 DEF Stats
<1>6. CASE Sample
  BY <1>6, SampleStep
<1> QED
  BY <1>1, <1>2, <1>3, <1>4, <1>5, <1>6 DEF Next

\* The inductive invariant holds of every quota.
THEOREM Invariant == Spec => []IInv
BY InitIInv, IInvStep, PTL DEF Spec

\* A quota is type correct.
THEOREM TypeCorrect == Spec => []TypeOK
<1>1. IInv => TypeOK
  BY DEF IInv
<1> QED
  BY <1>1, Invariant, PTL

\* An expired quota borrows at most one request per second.
THEOREM BorrowBounded == Spec => []BorrowOnePerSecond
<1>1. IInv => BorrowOnePerSecond
  BY DEF IInv
<1> QED
  BY <1>1, Invariant, PTL

\* The reservoir never exceeds the largest quota of the second.
THEOREM ReservoirBounded == Spec => []ReservoirBound
<1>1. IInv => ReservoirBound
  BY DEF IInv
<1> QED
  BY <1>1, Invariant, PTL

\* Taking the statistics at any time loses and repeats nothing.
THEOREM StatisticsExact == Spec => []StatsConserved
<1>1. IInv => StatsConserved
  BY DEF IInv
<1> QED
  BY <1>1, Invariant, PTL
=============================================================================
