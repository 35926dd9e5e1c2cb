------------------------------- MODULE Quota -------------------------------
(***************************************************************************)
(* One centralizedQuota (xray/sampling/centralized_manifest.go): requests  *)
(* are sampled by it while targets arrive, its TTL passes and refreshQuota *)
(* takes its statistics.  Each operation holds q.mu from start to end.     *)
(*                                                                         *)
(* A definition marked "Faulty" is what a slip in the code would make of   *)
(* the one after it; no specification uses it.                             *)
(***************************************************************************)
EXTENDS Integers

CONSTANTS
    Quotas,        \* values of ReservoirQuota in a target
    MaxTime,       \* bound: seconds that pass
    MaxRequests    \* bound: requests sampled

ASSUME QuotasAssumption == Quotas \subseteq Nat
ASSUME BoundsAssumption == MaxTime \in Nat /\ MaxRequests \in Nat

\* fixedRate as far as a random number in [0, 1) tells it apart.
Rates == {"zero", "fraction", "one"}

\* The zero time: a quota that no target was received for.
NoTTL == -1

VARIABLES
    now,                           \* the clock, in seconds
    fixedRate, quota, ttl,         \* set by targets
    borrowed, requests, sampled,   \* the statistics
    used, currentEpoch,            \* consumption of the reservoir
    taken, borrowedNow, top,       \* history of this second: requests let through
                                   \*   by the reservoir, those borrowed, the
                                   \*   largest quota in force
    reported, all                  \* history: statistics taken, requests made

target   == <<fixedRate, quota, ttl>>
counts   == <<borrowed, requests, sampled>>
spent    == <<used, currentEpoch>>
second   == <<taken, borrowedNow, top>>
vars == <<now, target, counts, spent, second, reported, all>>

MaxOf(a, b) == IF a > b THEN a ELSE b

Init ==
    /\ now = 1
    /\ fixedRate \in Rates /\ quota = 0 /\ ttl = NoTTL
    /\ borrowed = 0 /\ requests = 0 /\ sampled = 0
    /\ used = 0 /\ currentEpoch = 0
    /\ taken = 0 /\ borrowedNow = 0 /\ top = 0
    /\ reported = 0 /\ all = 0

\* External: the clock, which does not go back.
Tick ==
    /\ now <= MaxTime
    /\ now' = now + 1
    /\ taken' = 0 /\ borrowedNow' = 0 /\ top' = quota
    /\ UNCHANGED <<target, counts, spent, reported, all>>

\* update, for a target whose TTL is a time.
Update(rate, n, t) ==
    /\ fixedRate' = rate /\ quota' = n /\ ttl' = t
    /\ top' = MaxOf(top, n)
    /\ UNCHANGED <<now, counts, spent, taken, borrowedNow, reported, all>>

\* update, for a target whose TTL does not parse: the rate and the quota are
\* set all the same, and the TTL that was there stays.
UpdateFails(rate, n) ==
    /\ fixedRate' = rate /\ quota' = n
    /\ top' = MaxOf(top, n)
    /\ UNCHANGED <<now, ttl, counts, spent, taken, borrowedNow, reported, all>>

\* Faulty: the number of borrowed requests is not reset.
StatsKeepBorrowed ==
    /\ reported' = reported + requests
    /\ requests' = 0 /\ sampled' = 0
    /\ UNCHANGED <<now, target, spent, second, all, borrowed>>

\* Faulty: the consumption of the reservoir is reset like the statistics.
StatsResetUsed ==
    /\ reported' = reported + requests
    /\ borrowed' = 0 /\ requests' = 0 /\ sampled' = 0 /\ used' = 0
    /\ UNCHANGED <<now, target, currentEpoch, second, all>>

\* Stats returns the statistics and resets them.
Stats ==
    /\ reported' = reported + requests
    /\ borrowed' = 0 /\ requests' = 0 /\ sampled' = 0
    /\ UNCHANGED <<now, target, spent, second, all>>

IsExpired == ttl = NoTTL \/ ttl <= now

\* The consumption of the current second.
UsedNow == IF now # currentEpoch THEN 0 ELSE used

Request ==
    /\ all < MaxRequests
    /\ all' = all + 1
    /\ requests' = requests + 1
    /\ currentEpoch' = now
    /\ UNCHANGED <<now, target, top, reported>>

\* The quota is expired: one request per second is let through on credit.
Borrow ==
    /\ IsExpired /\ UsedNow < 1
    /\ Request
    /\ used' = UsedNow + 1
    /\ borrowed' = borrowed + 1 /\ sampled' = sampled + 1
    /\ taken' = taken + 1 /\ borrowedNow' = borrowedNow + 1

\* Faulty: one more than the quota is let through.
ConsumeOneMore ==
    /\ ~IsExpired /\ UsedNow <= quota
    /\ Request
    /\ used' = UsedNow + 1
    /\ sampled' = sampled + 1
    /\ taken' = taken + 1
    /\ UNCHANGED <<borrowed, borrowedNow>>

Consume ==
    /\ ~IsExpired /\ UsedNow < quota
    /\ Request
    /\ used' = UsedNow + 1
    /\ sampled' = sampled + 1
    /\ taken' = taken + 1
    /\ UNCHANGED <<borrowed, borrowedNow>>

\* The reservoir has nothing left: the rate decides.
FallBack ==
    /\ IF IsExpired THEN UsedNow >= 1 ELSE UsedNow >= quota
    /\ Request
    /\ used' = UsedNow
    /\ \/ fixedRate # "zero" /\ sampled' = sampled + 1
       \/ fixedRate # "one" /\ sampled' = sampled
    /\ UNCHANGED <<borrowed, taken, borrowedNow>>

Sample == Borrow \/ Consume \/ FallBack

Next ==
    \/ Tick
    \/ \E rate \in Rates, n \in Quotas :
          \/ \E t \in 0..(MaxTime + 1) : Update(rate, n, t)
          \/ UpdateFails(rate, n)
    \/ Stats
    \/ Sample

Spec == Init /\ [][Next]_vars

----------------------------------------------------------------------------
\* Every variable holds a value of its type.
TypeOK ==
    /\ now \in Nat /\ fixedRate \in Rates /\ quota \in Nat /\ ttl \in Nat \cup {NoTTL}
    /\ borrowed \in Nat /\ requests \in Nat /\ sampled \in Nat
    /\ used \in Nat /\ currentEpoch \in Nat
    /\ taken \in Nat /\ borrowedNow \in Nat /\ top \in Nat
    /\ reported \in Nat /\ all \in Nat

\* "borrow one trace per second from the reservoir": however targets, expiry
\* and statistics mix with the requests of a second, one is borrowed at most.
BorrowOnePerSecond == borrowedNow <= 1

\* The reservoir lets no more requests through in a second than the largest
\* quota in force in that second, or the one on credit.
ReservoirBound == taken <= MaxOf(1, top)

\* The statistics tell each request once: what was reported and what is still
\* to be reported add up to the requests made, and no document claims more
\* sampled requests than requests, or more borrowed than sampled ones.
StatsConserved ==
    /\ reported + requests = all
    /\ borrowed <= sampled /\ sampled <= requests

\* The inductive invariant: `used` is what this second has taken, as soon as
\* the first request of the second has been seen.
IInv ==
    /\ TypeOK
    /\ currentEpoch <= now
    /\ currentEpoch = now => used = taken
    /\ currentEpoch # now => taken = 0 /\ borrowedNow = 0
    /\ borrowedNow <= taken /\ quota <= top
    /\ BorrowOnePerSecond /\ ReservoirBound /\ StatsConserved
=============================================================================
