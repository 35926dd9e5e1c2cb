--------------------- MODULE CentralizedSamplingProofs ---------------------
(***************************************************************************)
(* What the pollers of CentralizedStrategy keep, for any number of rules,  *)
(* requests and changes of the rules: the manifest is replaced by newer    *)
(* ones only, and a rule that stays keeps its quota.                       *)
(***************************************************************************)
EXTENDS CentralizedSampling, FiniteSetTheorems, SequenceTheorems, TLAPS

Manifest == [quota : [Rules -> Nat], at : 0..MaxTime \cup {None}, seen : 0..MaxEvents]
Fetched  == [rules : SUBSET Rules, due : SUBSET Rules, seen : 0..MaxEvents]
Document == [rule : Rules, count : Nat]

Typed ==
    /\ now \in 0..MaxTime /\ modified \in 0..MaxTime
    /\ changes \in 0..MaxEvents /\ errors \in 0..MaxEvents
    /\ rules \subseteq Rules /\ gone \subseteq Rules
    /\ started \in BOOLEAN /\ closed \in BOOLEAN
    /\ spawned \in BOOLEAN /\ need \in BOOLEAN
    /\ manifest \in Manifest /\ base \in [Refreshers -> Manifest]
    /\ held \in [Requests -> [Rules -> Nat] \cup {None}]
    /\ unreported \in [Rules -> Seq(Nat)]
    /\ lock \in Refreshers \cup {None}
    /\ stage \in [Refreshers -> {"off", "waiting", "locked", "paging", "fetched", "sleeping"}]
    /\ fetched \in [RuleRefreshers -> Fetched]
    /\ stats \subseteq Document

\* muRefresh: one refresher at a time is between Acquire and Release, and the
\* manifest it read is still the current one.
LockHeld ==
    \A p \in Refreshers :
        /\ lock = p <=> stage[p] \in {"locked", "paging", "fetched"}
        /\ base[p] = IF lock = p THEN manifest ELSE NoManifest
        /\ p = "quotaPoller" => stage[p] \notin {"paging", "fetched"}
        /\ p \in Pollers /\ ~started => stage[p] = "off"

\* The rules in use were asked for in the past, and the service has them but
\* for those that are gone.
Fresh ==
    /\ manifest.seen <= changes
    /\ RulesOf(manifest) \subseteq rules \cup gone

\* So are the rules that a refresher got.  A rule in use that is not gone is due
\* in the listing, and among the rules that are about to be installed.
FetchedFresh ==
    \A p \in RuleRefreshers :
        /\ stage[p] \in {"paging", "fetched"} =>
              /\ manifest.seen <= fetched[p].seen /\ fetched[p].seen <= changes
              /\ fetched[p].rules \subseteq rules \cup gone
        /\ stage[p] = "paging" => RulesOf(manifest) \ gone \subseteq fetched[p].due
        /\ stage[p] = "fetched" => RulesOf(manifest) \ gone \subseteq fetched[p].rules

\* A rule gets a second quota only after it was gone.
QuotasMade ==
    \A r \in Rules :
        /\ manifest.quota[r] <= Made(r)
        /\ r \notin gone => Made(r) <= 1 /\ manifest.quota[r] = Made(r)

\* A request works with quotas that were made.
HeldQuotas ==
    \A c \in Requests, r \in Rules : held[c] # None =>
        /\ held[c][r] <= Made(r)
        /\ r \notin gone => held[c][r] \in {0, manifest.quota[r]}

\* The inductive invariant.
IInv == Typed /\ LockHeld /\ Fresh /\ FetchedFresh /\ QuotasMade /\ HeldQuotas

----------------------------------------------------------------------------
\* What an action that leaves these variables alone keeps.
LEMMA RulesFrame ==
  ASSUME IInv, UNCHANGED <<manifest, changes, rules, gone>>,
         \A r \in Rules : Made(r)' = Made(r)
  PROVE  Fresh' /\ QuotasMade'
<1>1. Fresh'
  BY DEF IInv, Fresh, RulesOf
<1>2. QuotasMade'
  BY DEF IInv, QuotasMade
<1> QED
  BY <1>1, <1>2

LEMMA LockFrame ==
  ASSUME IInv, UNCHANGED <<started, lock, stage, base, manifest>>
  PROVE  LockHeld'
BY DEF IInv, LockHeld, NoManifest

LEMMA FetchedFrame ==
  ASSUME IInv, UNCHANGED <<stage, fetched, manifest, changes, rules, gone>>
  PROVE  FetchedFresh'
BY DEF IInv, FetchedFresh, RulesOf

LEMMA HeldFrame ==
  ASSUME IInv, UNCHANGED <<held, manifest, gone>>, \A r \in Rules : Made(r)' = Made(r)
  PROVE  HeldQuotas'
BY DEF IInv, HeldQuotas

LEMMA MadeFrame ==
  ASSUME UNCHANGED unreported
  PROVE  \A r \in Rules : Made(r)' = Made(r)
BY DEF Made

LEMMA MadeNat ==
  ASSUME IInv, NEW r \in Rules
  PROVE  /\ unreported[r] \in Seq(Nat) /\ Made(r) \in Nat
         /\ unreported[r] \in [1..Made(r) -> Nat]
<1>1. unreported[r] \in Seq(Nat)
  BY DEF IInv, Typed
<1> QED
  BY <1>1, LenProperties DEF Made

\* A refresher that holds no lock goes to wait, to sleep or off.
StageChange(p) ==
    /\ stage[p] \in {"waiting", "sleeping"} \/ (p = "extra" /\ stage[p] = "off")
    /\ stage'[p] \in {"off", "waiting", "sleeping"}
    /\ stage' = [stage EXCEPT ![p] = stage'[p]]
    /\ spawned' \in BOOLEAN
    /\ UNCHANGED <<service, switches, sampling, lock, local, held>>

LEMMA StageKeeps ==
  ASSUME IInv, NEW p \in Refreshers, StageChange(p)
  PROVE  IInv'
<1> USE DEF StageChange, service, switches, sampling, local
<1>1. Typed'
  BY DEF IInv, Typed
<1>2. LockHeld'
  <2>1. "extra" \notin Pollers
    BY DEF Pollers
  <2> QED
    BY <2>1 DEF IInv, Typed, LockHeld, NoManifest
<1>3. FetchedFresh'
  BY DEF IInv, Typed, FetchedFresh, RulesOf, RuleRefreshers, Refreshers, Pollers
<1>4. Fresh' /\ QuotasMade' /\ HeldQuotas'
  BY RulesFrame, HeldFrame, MadeFrame
<1> QED
  BY <1>1, <1>2, <1>3, <1>4 DEF IInv

\* Taking muRefresh makes the manifest read the current one.
LEMMA AcquireKeeps ==
  ASSUME IInv, NEW p \in Refreshers, Acquire(p),
         UNCHANGED <<manifest, fetched, changes, rules, gone, started>>
  PROVE  LockHeld' /\ FetchedFresh'
<1>1. LockHeld'
  BY NoneAssumption DEF IInv, Typed, LockHeld, Acquire, NoManifest, Refreshers
<1>2. \A q \in RuleRefreshers : stage'[q] \in {"paging", "fetched"} => stage'[q] = stage[q]
  BY DEF IInv, Typed, Acquire, RuleRefreshers, Refreshers, Pollers
<1>3. FetchedFresh'
  BY <1>2 DEF IInv, FetchedFresh, RulesOf
<1> QED
  BY <1>1, <1>3

\* Its holder gives it up for whatever manifest.
LEMMA ReleaseKeeps ==
  ASSUME IInv, NEW p \in Refreshers, stage[p] \in {"locked", "paging", "fetched"}, Release(p),
         UNCHANGED started
  PROVE  LockHeld' /\ FetchedFresh'
<1>1. \A q \in Refreshers :
         stage'[q] \notin {"locked", "paging", "fetched"} /\ base'[q] = NoManifest
  BY DEF IInv, Typed, LockHeld, Release
<1>2. LockHeld'
  BY <1>1, NoneAssumption DEF IInv, Typed, LockHeld, Release, NoManifest
<1>3. FetchedFresh'
  BY <1>1 DEF FetchedFresh, RuleRefreshers, Refreshers, Pollers
<1> QED
  BY <1>2, <1>3

----------------------------------------------------------------------------
LEMMA InitIInv == Init => IInv
<1> SUFFICES ASSUME Init PROVE IInv
  OBVIOUS
<1> USE BoundsAssumption, NoneAssumption DEF Init
<1>1. NoManifest \in Manifest /\ NoRules \in Fetched
  BY DEF NoManifest, NoRules, Manifest, Fetched
<1>2. Typed
  <2>1. unreported \in [Rules -> Seq(Nat)]
    BY EmptySeq
  <2>2. base \in [Refreshers -> Manifest] /\ fetched \in [RuleRefreshers -> Fetched]
    BY <1>1
  <2>3. stage \in [Refreshers -> {"off", "waiting", "locked", "paging", "fetched", "sleeping"}]
    OBVIOUS
  <2>4. manifest \in Manifest /\ held \in [Requests -> Manifest \cup {None}]
    BY <1>1
  <2>5. /\ now \in 0..MaxTime /\ modified \in 0..MaxTime
        /\ changes \in 0..MaxEvents /\ errors \in 0..MaxEvents
    OBVIOUS
  <2> HIDE BoundsAssumption
  <2> QED
    BY <2>1, <2>2, <2>3, <2>4, <2>5 DEF Typed
<1>3. LockHeld
  BY DEF LockHeld
<1>4. RulesOf(manifest) = {} /\ manifest.seen = 0 /\ manifest.at = None
  BY DEF RulesOf, NoManifest
<1>5. Fresh /\ FetchedFresh
  BY <1>4 DEF Fresh, FetchedFresh, RuleRefreshers, Refreshers, Pollers
<1>6. QuotasMade /\ HeldQuotas
  <2>1. \A r \in Rules : Made(r) = 0
    BY EmptySeq DEF Made
  <2> QED
    BY <2>1 DEF QuotasMade, HeldQuotas, NoManifest
<1> QED
  BY <1>2, <1>3, <1>5, <1>6 DEF IInv

LEMMA TickKeeps == IInv /\ Tick => IInv'
<1> SUFFICES ASSUME IInv, Tick PROVE IInv'
  OBVIOUS
<1> USE DEF Tick, switches, sampling, local
<1>1. Typed'
  BY BoundsAssumption DEF IInv, Typed
<1> QED
  BY <1>1, RulesFrame, LockFrame, FetchedFrame, HeldFrame, MadeFrame DEF IInv

LEMMA CloseKeeps == IInv /\ Close => IInv'
<1> SUFFICES ASSUME IInv, Close PROVE IInv'
  OBVIOUS
<1> USE DEF Close, service, sampling, local
<1>1. Typed'
  BY DEF IInv, Typed
<1> QED
  BY <1>1, RulesFrame, LockFrame, FetchedFrame, HeldFrame, MadeFrame DEF IInv

LEMMA ChangeRulesKeeps == IInv /\ ChangeRules => IInv'
<1> SUFFICES ASSUME IInv, ChangeRules PROVE IInv'
  OBVIOUS
<1> USE DEF switches, sampling, local
<1>1. PICK s \in SUBSET Rules : rules' = s /\ gone' = gone \cup (rules \ s)
  BY DEF ChangeRules
<1>2. /\ changes + errors < MaxEvents /\ changes' = changes + 1 /\ modified' = now
      /\ UNCHANGED <<now, errors, switches, sampling, lock, stage, spawned, local, held>>
  BY DEF ChangeRules
<1>3. /\ rules \cup gone \subseteq rules' \cup gone' /\ gone \subseteq gone'
      /\ changes' > changes /\ changes \in Nat /\ changes' \in 0..MaxEvents
  BY <1>1, <1>2, BoundsAssumption DEF IInv, Typed
<1>4. Typed'
  BY <1>1, <1>2, <1>3 DEF IInv, Typed
<1>5. Fresh'
  <2>1. manifest.seen \in Nat /\ RulesOf(manifest)' = RulesOf(manifest)
    BY <1>2, BoundsAssumption DEF IInv, Typed, Manifest, RulesOf
  <2> QED
    BY <1>2, <1>3, <2>1 DEF IInv, Fresh
<1>6. FetchedFresh'
  <2>1. \A p \in RuleRefreshers : fetched[p].seen \in Nat
    BY BoundsAssumption DEF IInv, Typed, Fetched
  <2>2. RulesOf(manifest)' = RulesOf(manifest)
    BY <1>2 DEF RulesOf
  <2> QED
    BY <1>2, <1>3, <2>1, <2>2 DEF IInv, FetchedFresh
<1>7. QuotasMade' /\ HeldQuotas'
  BY <1>2, <1>3, MadeFrame DEF IInv, QuotasMade, HeldQuotas
<1> QED
  BY <1>2, <1>4, <1>5, <1>6, <1>7, LockFrame DEF IInv

\* The first call wakes pollers that were off.
LEMMA BeginShouldTraceKeeps ==
  ASSUME IInv, NEW c \in Requests, BeginShouldTrace(c)
  PROVE  IInv'
<1> USE DEF BeginShouldTrace, service, sampling, local
<1>1. Typed'
  BY DEF IInv, Typed, Manifest
<1>2. \A p \in Refreshers :
         \/ stage'[p] = stage[p]
         \/ p \in Pollers /\ stage[p] = "off" /\ stage'[p] = "waiting"
  BY DEF IInv, LockHeld
<1>3. LockHeld'
  BY <1>2 DEF IInv, LockHeld, NoManifest
<1>4. FetchedFresh'
  <2>1. \A p \in RuleRefreshers : stage'[p] \in {"paging", "fetched"} => stage'[p] = stage[p]
    BY <1>2 DEF RuleRefreshers, Refreshers, Pollers
  <2>2. RulesOf(manifest)' = RulesOf(manifest)
    BY DEF RulesOf
  <2> QED
    BY <2>1, <2>2 DEF IInv, FetchedFresh
<1>5. HeldQuotas'
  <2>1. \A r \in Rules : manifest.quota[r] <= Made(r) /\ Made(r)' = Made(r)
    BY MadeFrame DEF IInv, QuotasMade
  <2>2. \A d \in Requests : held'[d] \in {held[d], manifest.quota}
    BY DEF IInv, Typed
  <2> QED
    BY <2>1, <2>2 DEF IInv, HeldQuotas
<1> QED
  BY <1>1, <1>3, <1>4, <1>5, RulesFrame, MadeFrame DEF IInv

\* Counting one more request in a quota keeps the others.
LEMMA CountOne ==
  ASSUME IInv, NEW c \in Requests, held[c] # None, NEW r \in Rules, held[c][r] # 0,
         unreported' = [unreported EXCEPT ![r][held[c][r]] = @ + 1]
  PROVE  /\ unreported' \in [Rules -> Seq(Nat)]
         /\ \A q \in Rules : Made(q)' = Made(q)
         /\ \A q \in Rules \ {r} : unreported'[q] = unreported[q]
         /\ held[c][r] \in 1..Made(r)
         /\ unreported'[r] = [unreported[r] EXCEPT ![held[c][r]] = unreported[r][held[c][r]] + 1]
<1> DEFINE n == held[c][r]
           s == [unreported[r] EXCEPT ![n] = unreported[r][n] + 1]
<1>1. n \in 1..Made(r)
  <2>1. n \in Nat /\ n <= Made(r) /\ Made(r) \in Nat
    BY MadeNat DEF IInv, Typed, HeldQuotas
  <2> QED
    BY <2>1
<1>2. unreported' = [unreported EXCEPT ![r] = s]
  OBVIOUS
<1>3. s \in Seq(Nat) /\ Len(s) = Made(r)
  <2>1. unreported[r] \in Seq(Nat) /\ unreported[r] \in [1..Made(r) -> Nat]
    BY MadeNat
  <2>2. unreported[r][n] \in Nat
    BY <1>1, <2>1
  <2>3. unreported[r][n] + 1 \in Nat
    BY <2>2
  <2>4. n \in 1..Len(unreported[r])
    BY <1>1 DEF Made
  <2> DEFINE v == unreported[r][n] + 1
  <2> HIDE DEF v, n
  <2>5. [unreported[r] EXCEPT ![n] = v] \in Seq(Nat)
    BY <2>1, <2>3, <2>4, ExceptSeq DEF v
  <2>6. Len([unreported[r] EXCEPT ![n] = v]) = Len(unreported[r])
    BY <2>1, <2>3, <2>4, ExceptSeq DEF v
  <2> QED
    BY <2>5, <2>6 DEF v, Made
<1> HIDE DEF s
<1>4. DOMAIN unreported = Rules /\ unreported \in [Rules -> Seq(Nat)]
  BY DEF IInv, Typed
<1>5. unreported'[r] = s /\ \A q \in Rules \ {r} : unreported'[q] = unreported[q]
  BY <1>2, <1>4
<1>6. unreported' \in [Rules -> Seq(Nat)]
  BY <1>2, <1>3, <1>4
<1>7. \A q \in Rules : Made(q)' = Made(q)
  BY <1>3, <1>5 DEF Made
<1> QED
  BY <1>1, <1>5, <1>6, <1>7 DEF s

LEMMA SampleKeeps ==
  ASSUME IInv, NEW c \in Requests, Sample(c)
  PROVE  IInv'
<1> USE DEF service, switches, local
<1>1. /\ held[c] # None /\ held' = [held EXCEPT ![c] = None]
      /\ UNCHANGED <<service, switches, manifest, lock, stage, spawned, local>>
  BY DEF Sample
<1>2. /\ unreported' \in [Rules -> Seq(Nat)]
      /\ \A r \in Rules : Made(r)' = Made(r)
  <2>1. CASE UNCHANGED unreported
    BY <2>1, MadeFrame DEF IInv, Typed
  <2>2. ASSUME NEW r \in {q \in Rules : held[c][q] # 0},
               unreported' = [unreported EXCEPT ![r][held[c][r]] = @ + 1]
        PROVE  /\ unreported' \in [Rules -> Seq(Nat)]
               /\ \A q \in Rules : Made(q)' = Made(q)
    BY <1>1, <2>2, CountOne
  <2> QED
    BY <2>1, <2>2 DEF Sample
<1>3. Typed'
  BY <1>1, <1>2 DEF IInv, Typed
<1>4. HeldQuotas'
  <2>1. \A d \in Requests : held'[d] \in {held[d], None}
    BY <1>1 DEF IInv, Typed
  <2> QED
    BY <1>1, <1>2, <2>1 DEF IInv, HeldQuotas
<1> QED
  BY <1>1, <1>2, <1>3, <1>4, RulesFrame, LockFrame, FetchedFrame DEF IInv

LEMMA LoopKeeps ==
  ASSUME IInv
  PROVE  /\ \A p \in Pollers : Wake(p) \/ Stop(p) => IInv'
         /\ RunSpawned => IInv'
<1>1. /\ stage \in [Refreshers -> {"off", "waiting", "locked", "paging", "fetched", "sleeping"}]
      /\ spawned \in BOOLEAN
  BY DEF IInv, Typed
<1>2. ASSUME NEW p \in Pollers
      PROVE  p \in Refreshers /\ (Wake(p) => StageChange(p)) /\ (Stop(p) => StageChange(p))
  <2>1. p \in Refreshers
    BY DEF Refreshers
  <2>2. ASSUME Wake(p) PROVE StageChange(p)
    <3>1. /\ stage[p] = "sleeping" /\ stage'[p] = "waiting"
          /\ stage' = [stage EXCEPT ![p] = stage'[p]]
      BY <1>1, <2>1, <2>2 DEF Wake
    <3>2. /\ UNCHANGED service /\ UNCHANGED switches /\ UNCHANGED sampling
          /\ UNCHANGED local /\ UNCHANGED <<lock, spawned, held>>
      BY <2>2 DEF Wake
    <3> QED
      BY <1>1, <3>1, <3>2 DEF StageChange
  <2>3. ASSUME Stop(p) PROVE StageChange(p)
    <3>1. /\ stage[p] = "sleeping" /\ stage'[p] = "off"
          /\ stage' = [stage EXCEPT ![p] = stage'[p]]
      BY <1>1, <2>1, <2>3 DEF Stop
    <3>2. /\ UNCHANGED service /\ UNCHANGED switches /\ UNCHANGED sampling
          /\ UNCHANGED local /\ UNCHANGED <<lock, spawned, held>>
      BY <2>3 DEF Stop
    <3> QED
      BY <1>1, <3>1, <3>2 DEF StageChange
  <2> QED
    BY <2>1, <2>2, <2>3
<1>3. "extra" \in Refreshers /\ (RunSpawned => StageChange("extra"))
  BY <1>1 DEF Refreshers, RunSpawned, StageChange, service, switches, sampling, local
<1> QED
  BY <1>2, <1>3, StageKeeps

----------------------------------------------------------------------------
LEMMA BeginRefreshRuleKeeps ==
  ASSUME IInv, NEW p \in RuleRefreshers, BeginRefreshRule(p)
  PROVE  IInv'
<1> USE DEF BeginRefreshRule, service, switches, sampling
<1>1. p \in Refreshers
  BY DEF RuleRefreshers, Refreshers, Pollers
<1>2. Typed'
  BY <1>1 DEF IInv, Typed, Acquire
<1> QED
  BY <1>1, <1>2, AcquireKeeps, RulesFrame, HeldFrame, MadeFrame DEF IInv

\* What a refresher knows of the rules is no older than the manifest, and a rule
\* in use that is not gone is due in the listing.
LEMMA ListingFresh ==
  ASSUME IInv, NEW p \in RuleRefreshers, stage[p] \in {"locked", "paging"}
  PROVE  /\ Listing(p) \in Fetched
         /\ manifest.seen <= Listing(p).seen /\ Listing(p).seen <= changes
         /\ Listing(p).rules \subseteq rules \cup gone
         /\ RulesOf(manifest) \ gone \subseteq Listing(p).due \cap rules
<1>1. CASE stage[p] = "locked"
  <2>1. Listing(p) = [rules |-> {}, due |-> rules, seen |-> changes]
    BY <1>1 DEF Listing
  <2>2. changes \in 0..MaxEvents /\ rules \subseteq Rules /\ changes <= changes
    BY BoundsAssumption DEF IInv, Typed
  <2> QED
    BY <2>1, <2>2 DEF IInv, Fresh, Fetched
<1>2. CASE stage[p] = "paging"
  <2>1. Listing(p) = fetched[p] /\ fetched[p] \in Fetched
    BY <1>2 DEF Listing, IInv, Typed
  <2> QED
    BY <1>2, <2>1 DEF IInv, Fresh, FetchedFresh
<1> QED
  BY <1>1, <1>2

\* What a refresher got with one more page keeps the invariant.
LEMMA PageKeeps ==
  ASSUME IInv, NEW p \in RuleRefreshers, NEW page, GetPage(p, page),
         NEW got \in Fetched, fetched' = [fetched EXCEPT ![p] = got],
         got.rules = Listing(p).rules \cup page, got.seen = Listing(p).seen,
         NEW to \in {"paging", "fetched"}, stage' = [stage EXCEPT ![p] = to],
         UNCHANGED <<now, rules, modified, changes>>,
         errors' \in 0..MaxEvents, gone \subseteq gone', gone' \subseteq Rules,
         to = "paging" => RulesOf(manifest) \ gone' \subseteq got.due,
         to = "fetched" => RulesOf(manifest) \ gone' \subseteq got.rules
  PROVE  IInv'
<1> USE DEF switches, sampling
<1>1. /\ stage[p] \in {"locked", "paging"} /\ page \subseteq rules
      /\ UNCHANGED <<switches, sampling, lock, spawned, base, stats, need, held>>
      /\ p \in Refreshers /\ p # "quotaPoller"
  BY DEF GetPage, RuleRefreshers, Refreshers, Pollers
<1>2. fetched'[p] = got /\ fetched' \in [RuleRefreshers -> Fetched]
  BY DEF IInv, Typed
<1>3. Typed'
  BY <1>1, <1>2 DEF IInv, Typed
<1>4. LockHeld'
  BY <1>1 DEF IInv, Typed, LockHeld, NoManifest
<1>5. FetchedFresh'
  <2>1. \A q \in RuleRefreshers \ {p} : stage'[q] \notin {"paging", "fetched"}
    BY <1>1 DEF IInv, Typed, LockHeld, RuleRefreshers, Refreshers, Pollers
  <2>2. stage'[p] = to
    BY <1>1 DEF IInv, Typed
  <2>3. RulesOf(manifest)' = RulesOf(manifest)
    BY <1>1 DEF RulesOf
  <2>4. /\ manifest'.seen <= got.seen /\ got.seen <= changes'
        /\ got.rules \subseteq rules' \cup gone'
    BY <1>1, ListingFresh
  <2> QED
    BY <1>2, <2>1, <2>2, <2>3, <2>4 DEF FetchedFresh
<1>6. Fresh'
  BY <1>1 DEF IInv, Fresh, RulesOf
<1>7. QuotasMade' /\ HeldQuotas'
  BY <1>1, MadeFrame DEF IInv, QuotasMade, HeldQuotas
<1> QED
  BY <1>3, <1>4, <1>5, <1>6, <1>7 DEF IInv

\* The last page, or an error answer in its place.
LEMMA EndListingKeeps ==
  ASSUME IInv, NEW p \in RuleRefreshers, NEW page, EndListing(p, page),
         UNCHANGED <<now, rules, modified, changes>>,
         errors' \in 0..MaxEvents, gone \subseteq gone', gone' \subseteq Rules,
         Listing(p).due \cap rules \subseteq Listing(p).rules \cup page \cup gone'
  PROVE  IInv'
<1> DEFINE got == [rules |-> Listing(p).rules \cup page, due |-> {}, seen |-> Listing(p).seen]
<1>1. GetPage(p, page) /\ fetched' = [fetched EXCEPT ![p] = got]
      /\ stage' = [stage EXCEPT ![p] = "fetched"]
  BY DEF EndListing
<1>2. stage[p] \in {"locked", "paging"} /\ page \subseteq rules
  BY <1>1 DEF GetPage
<1>3. Listing(p) \in Fetched /\ rules \subseteq Rules
  BY <1>2, ListingFresh DEF IInv, Typed
<1>4. got \in Fetched
  BY <1>2, <1>3 DEF Fetched
<1>5. RulesOf(manifest) \ gone' \subseteq got.rules
  BY <1>2, ListingFresh
<1>6. got.rules = Listing(p).rules \cup page /\ got.seen = Listing(p).seen
  OBVIOUS
<1> HIDE DEF got
<1> QED
  BY <1>1, <1>4, <1>5, <1>6, PageKeeps

LEMMA FetchKeeps ==
  ASSUME IInv, NEW p \in RuleRefreshers, FetchPage(p) \/ FetchRules(p) \/ FetchError(p)
  PROVE  IInv'
<1>1. errors \in 0..MaxEvents /\ gone \subseteq Rules /\ rules \subseteq Rules
  BY DEF IInv, Typed
<1>2. CASE FetchPage(p)
  <2>1. PICK page : /\ GetPage(p, page)
                    /\ fetched' = [fetched EXCEPT ![p] = [Listing(p) EXCEPT !.rules = @ \cup page]]
    BY <1>2 DEF FetchPage
  <2> DEFINE got == [Listing(p) EXCEPT !.rules = @ \cup page]
  <2>2. /\ fetched' = [fetched EXCEPT ![p] = got] /\ stage' = [stage EXCEPT ![p] = "paging"]
        /\ UNCHANGED <<now, rules, modified, changes, errors, gone>>
    BY <1>2, <2>1 DEF FetchPage, service
  <2>3. stage[p] \in {"locked", "paging"} /\ page \subseteq rules
    BY <2>1 DEF GetPage
  <2>4. Listing(p) \in Fetched /\ RulesOf(manifest) \ gone \subseteq Listing(p).due
    BY <2>3, ListingFresh
  <2>5. /\ got \in Fetched /\ got.rules = Listing(p).rules \cup page
        /\ got.seen = Listing(p).seen /\ got.due = Listing(p).due
    BY <1>1, <2>3, <2>4 DEF Fetched
  <2> HIDE DEF got
  <2>6. RulesOf(manifest) \ gone' \subseteq got.due
    BY <2>2, <2>4, <2>5
  <2>7. errors' \in 0..MaxEvents /\ gone \subseteq gone' /\ gone' \subseteq Rules
    BY <1>1, <2>2
  <2> QED
    BY <2>1, <2>2, <2>5, <2>6, <2>7, PageKeeps
<1>3. CASE FetchRules(p)
  <2>1. PICK page : /\ Listing(p).due \cap rules \subseteq Listing(p).rules \cup page
                    /\ EndListing(p, page)
    BY <1>3 DEF FetchRules
  <2>2. UNCHANGED <<now, rules, modified, changes, errors, gone>>
    BY <1>3 DEF FetchRules, service
  <2> QED
    BY <1>1, <2>1, <2>2, EndListingKeeps
<1>4. CASE FetchError(p)
  <2>1. /\ EndListing(p, {}) /\ errors' \in 0..MaxEvents
        /\ gone' = gone \cup (rules \ Listing(p).rules)
        /\ UNCHANGED <<now, rules, modified, changes>>
    BY <1>4, BoundsAssumption DEF FetchError, IInv, Typed
  <2>2. /\ gone \subseteq gone' /\ gone' \subseteq Rules
        /\ Listing(p).due \cap rules \subseteq Listing(p).rules \cup {} \cup gone'
    BY <1>1, <2>1
  <2> QED
    BY <2>1, <2>2, EndListingKeeps
<1> QED
  BY <1>2, <1>3, <1>4

LEMMA ReleaseTyped ==
  ASSUME IInv, NEW p \in Refreshers, Release(p)
  PROVE  /\ lock' \in Refreshers \cup {None}
         /\ stage' \in [Refreshers -> {"off", "waiting", "locked", "paging", "fetched", "sleeping"}]
         /\ base' \in [Refreshers -> Manifest]
         /\ fetched' \in [RuleRefreshers -> Fetched]
<1>1. NoManifest \in Manifest /\ NoRules \in Fetched
  BY BoundsAssumption DEF NoManifest, NoRules, Manifest, Fetched
<1> QED
  BY <1>1 DEF IInv, Typed, Release

LEMMA FailRulesKeeps ==
  ASSUME IInv, NEW p \in RuleRefreshers, FailRules(p)
  PROVE  IInv'
<1> USE DEF FailRules, service, switches, sampling
<1>1. p \in Refreshers
  BY DEF RuleRefreshers, Refreshers, Pollers
<1>2. Typed'
  BY <1>1, ReleaseTyped DEF IInv, Typed
<1> QED
  BY <1>1, <1>2, ReleaseKeeps, RulesFrame, HeldFrame, MadeFrame DEF IInv

LEMMA AppendZero ==
  ASSUME NEW q \in Seq(Nat)
  PROVE  /\ Append(q, 0) \in Seq(Nat) /\ Len(Append(q, 0)) = Len(q) + 1
         /\ \A k \in 1..Len(q) : Append(q, 0)[k] = q[k]
         /\ Append(q, 0)[Len(q) + 1] = 0
BY AppendProperties

\* A new quota has the next number.
LEMMA NewQuotasKeep ==
  ASSUME IInv, NEW new \in SUBSET Rules, NewQuotas(new)
  PROVE  /\ unreported' \in [Rules -> Seq(Nat)]
         /\ \A r \in Rules : /\ r \in new => Made(r)' = Made(r) + 1
                             /\ r \notin new => Made(r)' = Made(r)
<1>1. ASSUME NEW r \in Rules
      PROVE  /\ unreported[r] \in Seq(Nat) /\ Append(unreported[r], 0) \in Seq(Nat)
             /\ Len(Append(unreported[r], 0)) = Len(unreported[r]) + 1
  BY MadeNat, AppendZero
<1>2. unreported' = [r \in Rules |-> IF r \in new THEN Append(unreported[r], 0)
                                    ELSE unreported[r]]
  BY DEF NewQuotas
<1>3. unreported' \in [Rules -> Seq(Nat)]
  BY <1>1, <1>2
<1>4. \A r \in Rules : unreported'[r] = IF r \in new THEN Append(unreported[r], 0)
                                        ELSE unreported[r]
  BY <1>2
<1> QED
  BY <1>1, <1>3, <1>4 DEF Made

\* The rules that were fetched are installed.
LEMMA SetManifestKeeps ==
  ASSUME IInv, NEW p \in RuleRefreshers, SetManifest(p)
  PROVE  IInv'
<1> USE DEF service, switches
<1> DEFINE new == {r \in fetched[p].rules : base[p].quota[r] = 0}
           quota == [r \in Rules |-> IF r \in new THEN Made(r) + 1
                                     ELSE IF r \in fetched[p].rules THEN manifest.quota[r] ELSE 0]
<1>1. p \in Refreshers /\ stage[p] = "fetched" /\ Release(p)
  BY DEF SetManifest, RuleRefreshers, Refreshers, Pollers
<1>2. base[p] = manifest
  BY <1>1 DEF IInv, LockHeld
<1>3. /\ NewQuotas(new)
      /\ manifest' = [quota |-> quota, at |-> now, seen |-> fetched[p].seen]
      /\ UNCHANGED <<service, switches, spawned, stats, need, held>>
  BY <1>2 DEF SetManifest
<1>4. /\ fetched[p].rules \subseteq Rules /\ fetched[p].seen \in 0..MaxEvents
      /\ manifest.quota \in [Rules -> Nat] /\ now \in 0..MaxTime
  BY DEF IInv, Typed, Fetched, Manifest
<1>5. new \in SUBSET Rules /\ new = {r \in fetched[p].rules : manifest.quota[r] = 0}
  BY <1>2, <1>4
<1> HIDE DEF new
<1>6. quota \in [Rules -> Nat] /\ \A r \in Rules : quota[r] # 0 <=> r \in fetched[p].rules
  <2>1. \A r \in new : Made(r) + 1 \in Nat \ {0}
    BY <1>5, MadeNat
  <2> QED
    BY <1>4, <1>5, <2>1
<1>7. manifest'.quota = quota /\ manifest'.at = now /\ manifest'.seen = fetched[p].seen
  BY <1>3
<1>8. RulesOf(manifest)' = fetched[p].rules
  BY <1>4, <1>6, <1>7 DEF RulesOf
<1>9. Typed'
  <2>1. manifest' \in Manifest
    BY <1>3, <1>4, <1>6 DEF Manifest
  <2>2. unreported' \in [Rules -> Seq(Nat)]
    BY <1>3, <1>5, NewQuotasKeep
  <2>3. held' \in [Requests -> [Rules -> Nat] \cup {None}]
    BY <1>3 DEF IInv, Typed
  <2> QED
    BY <1>1, <1>3, <2>1, <2>2, <2>3, ReleaseTyped DEF IInv, Typed
<1>10. LockHeld' /\ FetchedFresh'
  BY <1>1, <1>3, ReleaseKeeps
<1>11. Fresh'
  BY <1>1, <1>3, <1>7, <1>8 DEF IInv, FetchedFresh, Fresh
<1>12. ASSUME NEW r \in Rules
       PROVE  /\ Made(r) \in Nat /\ manifest.quota[r] \in Nat
              /\ r \in new => quota[r] = Made(r) + 1 /\ Made(r)' = Made(r) + 1
              /\ r \notin new => Made(r)' = Made(r)
              /\ r \in fetched[p].rules \ new => quota[r] = manifest.quota[r] /\ quota[r] # 0
              /\ r \notin fetched[p].rules => quota[r] = 0 /\ r \notin new
              /\ r \in new => manifest.quota[r] = 0
  BY <1>3, <1>4, <1>5, <1>6, MadeNat, NewQuotasKeep
<1>13. ASSUME NEW r \in Rules \ gone, manifest.quota[r] # 0 PROVE r \in fetched[p].rules \ new
  BY <1>1, <1>5, <1>13 DEF IInv, FetchedFresh, RulesOf
<1>14. QuotasMade'
  <2> SUFFICES ASSUME NEW r \in Rules
               PROVE  /\ quota[r] <= Made(r)'
                      /\ r \notin gone => Made(r)' <= 1 /\ quota[r] = Made(r)'
    BY <1>3, <1>7 DEF QuotasMade
  <2>1. /\ manifest.quota[r] <= Made(r)
        /\ r \notin gone => Made(r) <= 1 /\ manifest.quota[r] = Made(r)
    BY DEF IInv, QuotasMade
  <2> HIDE DEF quota
  <2>2. CASE r \in new
    BY <1>12, <2>1, <2>2
  <2>3. CASE r \in fetched[p].rules \ new
    BY <1>12, <2>1, <2>3
  <2>4. CASE r \notin fetched[p].rules
    BY <1>12, <1>13, <2>1, <2>4
  <2> QED
    BY <2>2, <2>3, <2>4
<1>15. HeldQuotas'
  <2> SUFFICES ASSUME NEW c \in Requests, NEW r \in Rules, held[c] # None
               PROVE  /\ held[c][r] <= Made(r)'
                      /\ r \notin gone => held[c][r] \in {0, quota[r]}
    BY <1>3, <1>7 DEF HeldQuotas
  <2>1. /\ held[c][r] <= Made(r)
        /\ r \notin gone => held[c][r] \in {0, manifest.quota[r]}
    BY DEF IInv, HeldQuotas
  <2>2. held[c][r] \in Nat
    BY DEF IInv, Typed
  <2> HIDE DEF quota
  <2>3. held[c][r] <= Made(r)'
    BY <1>12, <2>1, <2>2
  <2> QED
    BY <1>12, <1>13, <2>1, <2>3
<1> QED
  BY <1>9, <1>10, <1>11, <1>14, <1>15 DEF IInv

\* A quota in use has its number among those made.
LEMMA QuotaNumber ==
  ASSUME IInv, NEW r \in Rules, manifest.quota[r] # 0
  PROVE  manifest.quota[r] \in 1..Made(r)
<1>1. manifest.quota[r] \in Nat /\ Made(r) \in Nat
  BY MadeNat DEF IInv, Typed, Manifest
<1> QED
  BY <1>1 DEF IInv, QuotasMade

\* Resetting a quota keeps the others.
LEMMA ResetOne ==
  ASSUME NEW s \in Seq(Nat), NEW n
  PROVE  /\ [k \in DOMAIN s |-> IF k = n THEN 0 ELSE s[k]] \in Seq(Nat)
         /\ Len([k \in DOMAIN s |-> IF k = n THEN 0 ELSE s[k]]) = Len(s)
<1>1. Len(s) \in Nat /\ DOMAIN s = 1..Len(s) /\ \A k \in 1..Len(s) : s[k] \in Nat
  BY LenProperties, ElementOfSeq
<1> QED
  BY <1>1

LEMMA BeginRefreshQuotaKeeps == IInv /\ BeginRefreshQuota => IInv'
<1> SUFFICES ASSUME IInv, BeginRefreshQuota PROVE IInv'
  OBVIOUS
<1> USE DEF BeginRefreshQuota, service, switches
<1>1. "quotaPoller" \in Refreshers
  BY DEF Refreshers, Pollers
<1>2. /\ unreported' \in [Rules -> Seq(Nat)]
      /\ \A r \in Rules : Made(r)' = Made(r)
  <2> DEFINE reset(r) == [n \in DOMAIN unreported[r] |->
                            IF n = manifest.quota[r] THEN 0 ELSE unreported[r][n]]
  <2>1. unreported' = [r \in Rules |-> reset(r)]
    OBVIOUS
  <2>2. \A r \in Rules : reset(r) \in Seq(Nat) /\ Len(reset(r)) = Len(unreported[r])
    BY MadeNat, ResetOne
  <2> HIDE DEF reset
  <2>3. \A r \in Rules : unreported'[r] = reset(r)
    BY <2>1
  <2> QED
    BY <2>1, <2>2, <2>3 DEF Made
<1>3. stats' \subseteq Document
  <2>1. ASSUME NEW r \in RulesOf(manifest)
        PROVE  [rule |-> r, count |-> unreported[r][manifest.quota[r]]] \in Document
    <3>1. r \in Rules /\ manifest.quota[r] \in 1..Made(r)
      BY QuotaNumber DEF RulesOf
    <3>2. unreported[r] \in [1..Made(r) -> Nat]
      BY <3>1, MadeNat
    <3> QED
      BY <3>1, <3>2 DEF Document
  <2> QED
    BY <2>1
<1>4. Typed'
  BY <1>1, <1>2, <1>3 DEF IInv, Typed, Acquire
<1>5. LockHeld' /\ FetchedFresh'
  BY <1>1, AcquireKeeps
<1> QED
  BY <1>2, <1>4, <1>5, RulesFrame, HeldFrame DEF IInv

LEMMA TargetsKeep == IInv /\ (GetTargets \/ FailTargets) => IInv'
<1> SUFFICES ASSUME IInv, GetTargets \/ FailTargets PROVE IInv'
  OBVIOUS
<1> USE DEF service, switches, sampling
<1>1. /\ UNCHANGED <<service, switches, sampling, lock, stage, spawned, base, fetched, held>>
      /\ stats' \subseteq stats /\ need' \in BOOLEAN
  BY DEF GetTargets, FailTargets, IInv, Typed
<1>2. Typed'
  BY <1>1 DEF IInv, Typed
<1> QED
  BY <1>1, <1>2, RulesFrame, LockFrame, FetchedFrame, HeldFrame, MadeFrame DEF IInv

LEMMA EndRefreshQuotaKeeps == IInv /\ EndRefreshQuota => IInv'
<1> SUFFICES ASSUME IInv, EndRefreshQuota PROVE IInv'
  OBVIOUS
<1> USE DEF EndRefreshQuota, service, switches, sampling
<1>1. "quotaPoller" \in Refreshers
  BY DEF Refreshers, Pollers
<1>2. Typed'
  BY <1>1, ReleaseTyped DEF IInv, Typed
<1> QED
  BY <1>1, <1>2, ReleaseKeeps, RulesFrame, HeldFrame, MadeFrame DEF IInv

LEMMA StutterKeeps == IInv /\ UNCHANGED vars => IInv'
<1> SUFFICES ASSUME IInv, UNCHANGED vars PROVE IInv'
  OBVIOUS
<1> USE DEF vars, service, switches, sampling, local
<1>1. Typed'
  BY DEF IInv, Typed
<1> QED
  BY <1>1, RulesFrame, LockFrame, FetchedFrame, HeldFrame, MadeFrame DEF IInv

LEMMA IInvStep == IInv /\ [Next]_vars => IInv'
<1> SUFFICES ASSUME IInv, [Next]_vars PROVE IInv'
  OBVIOUS
<1>1. ASSUME NEW p \in RuleRefreshers, RefreshRule(p) PROVE IInv'
  BY <1>1, BeginRefreshRuleKeeps, FetchKeeps, FailRulesKeeps, SetManifestKeeps
  DEF RefreshRule
<1>2. CASE RefreshQuota
  BY <1>2, BeginRefreshQuotaKeeps, TargetsKeep, EndRefreshQuotaKeeps DEF RefreshQuota
<1>3. ASSUME NEW c \in Requests, BeginShouldTrace(c) \/ Sample(c) PROVE IInv'
  BY <1>3, BeginShouldTraceKeeps, SampleKeeps
<1> QED
  BY <1>1, <1>2, <1>3, TickKeeps, ChangeRulesKeeps, CloseKeeps, LoopKeeps, StutterKeeps DEF Next

----------------------------------------------------------------------------
\* The inductive invariant holds of every strategy, whatever the pollers and
\* the service do.
THEOREM Invariant == Spec => []IInv
BY InitIInv, IInvStep, PTL DEF Spec

\* The strategy is type correct.
THEOREM TypeCorrect == Spec => []TypeOK
<1>1. IInv => TypeOK
  <2> SUFFICES ASSUME IInv PROVE TypeOK
    OBVIOUS
  <2>1. \A r \in Rules : Made(r) \in Nat
    BY MadeNat
  <2>2. \A r \in Rules : manifest.quota[r] \in 0..Made(r) /\ NoManifest.quota[r] \in 0..Made(r)
    BY <2>1 DEF IInv, Typed, QuotasMade, Manifest, NoManifest
  <2>3. \A m \in {manifest, NoManifest} : m.at \in 0..MaxTime \cup {None} /\ m.seen \in 0..MaxEvents
    BY BoundsAssumption DEF IInv, Typed, Manifest, NoManifest
  <2>4. \A p \in Refreshers : base[p] \in {manifest, NoManifest}
    BY DEF IInv, LockHeld
  <2>5. \A m \in {manifest} \cup {base[p] : p \in Refreshers} :
           /\ \A r \in Rules : m.quota[r] \in 0..Made(r)
           /\ m.at \in 0..MaxTime \cup {None} /\ m.seen \in 0..MaxEvents
    BY <2>2, <2>3, <2>4
  <2>6. \A c \in Requests, r \in Rules : held[c] # None => held[c][r] \in 0..Made(r)
    BY <2>1 DEF IInv, Typed, HeldQuotas
  <2>7. \A p \in RuleRefreshers : fetched[p].rules \subseteq Rules /\ fetched[p].due \subseteq Rules
    BY DEF IInv, Typed, Fetched
  <2>8. unreported \in [Rules -> Seq(Nat)]
    BY DEF IInv, Typed
  <2> QED
    BY <2>5, <2>6, <2>7, <2>8 DEF IInv, Typed, TypeOK
<1> QED
  BY <1>1, Invariant, PTL

\* A rule that was not removed, nor left out by an error answer, has one quota,
\* and all that was counted for it is in the quota that refreshQuota reports.
THEOREM QuotaKept == Spec => []OneQuota
<1>1. IInv => OneQuota
  <2> SUFFICES ASSUME IInv, NEW r \in Rules \ gone
               PROVE  /\ Made(r) <= 1
                      /\ \A n \in 1..Made(r) : unreported[r][n] > 0 => manifest.quota[r] = n
                      /\ \A c \in Requests :
                            held[c] # None => held[c][r] \in {0, manifest.quota[r]}
    BY DEF OneQuota
  <2>1. Made(r) \in Nat /\ Made(r) <= 1 /\ manifest.quota[r] = Made(r)
    BY MadeNat DEF IInv, QuotasMade
  <2>2. \A n \in 1..Made(r) : n = Made(r)
    BY <2>1
  <2> QED
    BY <2>1, <2>2 DEF IInv, HeldQuotas
<1> QED
  BY <1>1, Invariant, PTL

\* Whoever gets muRefresh last, the manifest is never replaced by older rules.
THEOREM ManifestGrowsNewer == Spec => NeverOlder
<1>1. IInv /\ [Next]_vars => [manifest'.seen >= manifest.seen]_manifest
  <2> SUFFICES ASSUME IInv, [Next]_vars
               PROVE  manifest' = manifest \/ manifest'.seen >= manifest.seen
    OBVIOUS
  <2>1. ASSUME NEW p \in RuleRefreshers, SetManifest(p)
        PROVE  manifest'.seen >= manifest.seen
    <3>1. manifest'.seen = fetched[p].seen /\ stage[p] = "fetched"
      BY <2>1 DEF SetManifest
    <3>2. fetched[p].seen \in Nat /\ manifest.seen \in Nat
      BY BoundsAssumption DEF IInv, Typed, Fetched, Manifest
    <3> QED
      BY <3>1, <3>2 DEF IInv, FetchedFresh
  <2>2. manifest' = manifest \/ \E p \in RuleRefreshers : SetManifest(p)
    <3> USE DEF sampling
    <3>1. CASE UNCHANGED vars
      BY <3>1 DEF vars
    <3>2. ASSUME NEW p \in RuleRefreshers, RefreshRule(p)
          PROVE  manifest' = manifest \/ SetManifest(p)
      BY <3>2 DEF RefreshRule, BeginRefreshRule, FetchPage, FetchRules, FetchError, EndListing,
         GetPage, FailRules
    <3>3. CASE RefreshQuota
      BY <3>3 DEF RefreshQuota, BeginRefreshQuota, GetTargets, FailTargets, EndRefreshQuota
    <3>4. CASE Tick \/ ChangeRules \/ Close \/ RunSpawned
      BY <3>4 DEF Tick, ChangeRules, Close, RunSpawned
    <3>5. ASSUME NEW c \in Requests, BeginShouldTrace(c) \/ Sample(c)
          PROVE  manifest' = manifest
      BY <3>5 DEF BeginShouldTrace, Sample
    <3>6. ASSUME NEW p \in Pollers, Wake(p) \/ Stop(p) PROVE manifest' = manifest
      BY <3>6 DEF Wake, Stop
    <3> QED
      BY <3>1, <3>2, <3>3, <3>4, <3>5, <3>6 DEF Next
  <2> QED
    BY <2>1, <2>2
<1> QED
  BY <1>1, Invariant, PTL DEF Spec, NeverOlder

----------------------------------------------------------------------------
\* Sums.  Induction over the subsets of a finite set is the existence of a
\* minimal one among those that violate a claim.

\* What SumFunction computes: the recursion over the subsets of S.
Pick(s) == CHOOSE x \in s : TRUE
IsSum(g, f, S) ==
    g = [s \in SUBSET S |-> IF s = {} THEN 0 ELSE f[Pick(s)] + g[s \ {Pick(s)}]]
Sum(f, S) == (CHOOSE g : IsSum(g, f, S))[S]

\* SumFunction is this sum.
LEMMA SumIs == ASSUME NEW f PROVE SumFunction(f) = Sum(f, DOMAIN f)
BY DEF SumFunction, SumFunctionOnSet, FoldFunctionOnSet, MapThenFoldSet, Sum, IsSum, Pick

\* Induction over the subsets of a finite set, as the existence of a minimal one.
LEMMA MinimalSet ==
  ASSUME NEW S, IsFiniteSet(S), NEW A, A \subseteq SUBSET S, A # {}
  PROVE  \E T \in A : \A U \in A : ~(U \subseteq T /\ U # T)
<1> DEFINE R == StrictSubsetOrdering(S)
<1>1. IsWellFoundedOn(R, SUBSET S)
  BY FS_StrictSubsetOrderingWellFounded, FS_FiniteSubsetsOfFinite
<1> HIDE DEF R
<1>2. \E T \in A : \A U \in A : <<U, T>> \notin R
  BY <1>1, WFMin
<1> QED
  BY <1>2 DEF R, StrictSubsetOrdering

LEMMA PickIn == ASSUME NEW s, s # {} PROVE Pick(s) \in s
BY DEF Pick

LEMMA IsSumAt ==
  ASSUME NEW S, NEW f, NEW g, IsSum(g, f, S), NEW s \in SUBSET S
  PROVE  g[s] = IF s = {} THEN 0 ELSE f[Pick(s)] + g[s \ {Pick(s)}]
BY DEF IsSum

\* Functions that agree have the same partial sums.
LEMMA SumUnique ==
  ASSUME NEW S, NEW T, IsFiniteSet(T), T \subseteq S,
         NEW f, NEW f2, \A x \in T : f2[x] = f[x],
         NEW g, IsSum(g, f, S), NEW h, IsSum(h, f2, T)
  PROVE  \A s \in SUBSET T : g[s] = h[s]
<1> DEFINE A == {s \in SUBSET T : g[s] # h[s]}
<1> SUFFICES ASSUME A # {} PROVE FALSE
  OBVIOUS
<1>1. PICK s \in A : \A u \in A : ~(u \subseteq s /\ u # s)
  <2>1. A \subseteq SUBSET T
    OBVIOUS
  <2> HIDE DEF A
  <2> QED
    BY <2>1, MinimalSet
<1>2. s \in SUBSET T /\ s \in SUBSET S /\ g[s] # h[s]
  OBVIOUS
<1>3. /\ g[s] = IF s = {} THEN 0 ELSE f[Pick(s)] + g[s \ {Pick(s)}]
      /\ h[s] = IF s = {} THEN 0 ELSE f2[Pick(s)] + h[s \ {Pick(s)}]
  <2> HIDE DEF A
  <2>1. g = [u \in SUBSET S |-> IF u = {} THEN 0 ELSE f[Pick(u)] + g[u \ {Pick(u)}]]
    BY DEF IsSum
  <2>2. h = [u \in SUBSET T |-> IF u = {} THEN 0 ELSE f2[Pick(u)] + h[u \ {Pick(u)}]]
    BY DEF IsSum
  <2> QED
    BY ONLY <1>2, <2>1, <2>2
<1>4. s # {}
  BY <1>2, <1>3
<1>5. Pick(s) \in s
  BY <1>4, PickIn
<1>6. s \ {Pick(s)} \notin A
  BY <1>1, <1>5
<1>7. g[s \ {Pick(s)}] = h[s \ {Pick(s)}] /\ f2[Pick(s)] = f[Pick(s)]
  BY <1>2, <1>5, <1>6
<1> QED
  BY <1>2, <1>3, <1>4, <1>7

\* The recursion has a solution.
LEMMA SumExists ==
  ASSUME NEW S, IsFiniteSet(S), NEW f
  PROVE  \E g : IsSum(g, f, S)
<1> DEFINE A == {T \in SUBSET S : ~ \E g : IsSum(g, f, T)}
<1> SUFFICES ASSUME A # {} PROVE FALSE
  OBVIOUS
<1>1. PICK T \in A : \A U \in A : ~(U \subseteq T /\ U # T)
  <2>1. A \subseteq SUBSET S
    OBVIOUS
  <2> HIDE DEF A
  <2> QED
    BY <2>1, MinimalSet
<1>2. T \subseteq S /\ ~ \E g : IsSum(g, f, T)
  OBVIOUS
<1> DEFINE part(U) == CHOOSE g : IsSum(g, f, U)
           rest(U) == U \ {Pick(U)}
           g == [U \in SUBSET T |-> IF U = {} THEN 0 ELSE f[Pick(U)] + part(rest(U))[rest(U)]]
<1>3. ASSUME NEW U \in SUBSET T, U # T PROVE IsSum(part(U), f, U)
  <2>1. U \notin A
    BY <1>1, <1>3
  <2> QED
    BY <1>2, <2>1
<1>4. ASSUME NEW U \in SUBSET T, U # {}
      PROVE  rest(U) \in SUBSET T /\ rest(U) # T /\ rest(U) # U
  BY <1>4, PickIn
<1> HIDE DEF part, rest
<1>5. ASSUME NEW U \in SUBSET T, U # T PROVE part(U)[U] = g[U]
  <2>1. IsSum(part(U), f, U)
    BY <1>3, <1>5
  <2>2. part(U)[U] = IF U = {} THEN 0 ELSE f[Pick(U)] + part(U)[rest(U)]
    BY <2>1, IsSumAt DEF rest
  <2>3. CASE U = {}
    BY <2>2, <2>3
  <2>4. CASE U # {}
    <3>1. rest(U) \in SUBSET U /\ rest(U) # T /\ rest(U) \in SUBSET T
      BY <1>4, <2>4 DEF rest
    <3>2. IsSum(part(rest(U)), f, rest(U)) /\ IsFiniteSet(rest(U))
      BY <1>2, <1>3, <3>1, FS_Subset
    <3>3. part(U)[rest(U)] = part(rest(U))[rest(U)]
      BY <2>1, <3>1, <3>2, SumUnique
    <3> QED
      BY <2>2, <2>4, <3>3
  <2> QED
    BY <2>3, <2>4
<1>6. \A U \in SUBSET T : U # {} => part(rest(U))[rest(U)] = g[rest(U)]
  BY <1>4, <1>5
<1>7. g = [U \in SUBSET T |-> IF U = {} THEN 0 ELSE f[Pick(U)] + g[rest(U)]]
  BY <1>6
<1>8. IsSum(g, f, T)
  BY <1>7 DEF IsSum, rest
<1> QED
  BY <1>2, <1>8

LEMMA SumGraph ==
  ASSUME NEW S, IsFiniteSet(S), NEW f
  PROVE  \E g : IsSum(g, f, S) /\ Sum(f, S) = g[S]
<1>1. \E g : IsSum(g, f, S)
  BY SumExists
<1> QED
  BY <1>1 DEF Sum

LEMMA SumStep ==
  ASSUME NEW S, IsFiniteSet(S), NEW f
  PROVE  /\ S = {} => Sum(f, S) = 0
         /\ S # {} => Sum(f, S) = f[Pick(S)] + Sum(f, S \ {Pick(S)})
<1>1. PICK g : IsSum(g, f, S) /\ Sum(f, S) = g[S]
  BY SumGraph
<1> DEFINE T == S \ {Pick(S)}
<1>2. IsFiniteSet(T) /\ T \subseteq S
  BY FS_Subset
<1>3. g[S] = IF S = {} THEN 0 ELSE f[Pick(S)] + g[T]
  BY <1>1, IsSumAt
<1> HIDE DEF T
<1>4. PICK h : IsSum(h, f, T) /\ Sum(f, T) = h[T]
  BY <1>2, SumGraph
<1>5. \A s \in SUBSET T : g[s] = h[s]
  BY <1>1, <1>2, <1>4, SumUnique
<1>6. g[T] = Sum(f, T)
  BY <1>4, <1>5
<1> QED
  BY <1>1, <1>3, <1>6 DEF T

LEMMA SumAgrees ==
  ASSUME NEW S, IsFiniteSet(S), NEW f, NEW h, \A x \in S : h[x] = f[x]
  PROVE  Sum(h, S) = Sum(f, S)
<1>1. PICK g1 : IsSum(g1, f, S) /\ Sum(f, S) = g1[S]
  BY SumGraph
<1>2. PICK g2 : IsSum(g2, h, S) /\ Sum(h, S) = g2[S]
  BY SumGraph
<1> QED
  BY <1>1, <1>2, SumUnique

\* A sum of natural numbers is one, and any of them can be taken first.
LEMMA SumSplits ==
  ASSUME NEW S, IsFiniteSet(S), NEW f, \A x \in S : f[x] \in Nat
  PROVE  Sum(f, S) \in Nat /\ \A x \in S : Sum(f, S) = f[x] + Sum(f, S \ {x})
<1> DEFINE Splits(T) == Sum(f, T) \in Nat /\ \A x \in T : Sum(f, T) = f[x] + Sum(f, T \ {x})
           A == {T \in SUBSET S : ~Splits(T)}
<1> SUFFICES ASSUME A # {} PROVE FALSE
  OBVIOUS
<1>1. PICK T \in A : \A U \in A : ~(U \subseteq T /\ U # T)
  <2>1. A \subseteq SUBSET S
    OBVIOUS
  <2> HIDE DEF A
  <2> QED
    BY <2>1, MinimalSet
<1>2. T \in SUBSET S /\ ~Splits(T) /\ IsFiniteSet(T)
  BY FS_Subset
<1>3. ASSUME NEW x \in T PROVE Splits(T \ {x})
  <2>1. T \ {x} \notin A
    BY <1>1, <1>3
  <2> QED
    BY <1>2, <2>1
<1> DEFINE c == Pick(T)
<1>4. CASE T = {}
  BY <1>2, <1>4, SumStep
<1>5. CASE T # {}
  <2>1. c \in T /\ Sum(f, T) = f[c] + Sum(f, T \ {c})
    BY <1>2, <1>5, SumStep, PickIn
  <2> HIDE DEF c
  <2>2. Sum(f, T \ {c}) \in Nat /\ f[c] \in Nat
    BY <1>2, <1>3, <2>1
  <2>3. Sum(f, T) \in Nat
    BY <2>1, <2>2
  <2>4. ASSUME NEW x \in T, x # c PROVE Sum(f, T) = f[x] + Sum(f, T \ {x})
    <3> DEFINE W == (T \ {c}) \ {x}
    <3>1. Sum(f, T \ {c}) = f[x] + Sum(f, W)
      BY <1>3, <2>1, <2>4
    <3>2. (T \ {x}) \ {c} = W
      OBVIOUS
    <3>3. Sum(f, T \ {x}) = f[c] + Sum(f, W)
      BY <1>3, <2>1, <2>4, <3>2
    <3>4. Sum(f, W) \in Nat
      <4>1. T \ {c} # {} /\ x \in T \ {c}
        BY <2>4
      <4>2. W \in SUBSET S /\ W \subseteq T /\ W # T
        BY <1>2, <2>1
      <4>3. W \notin A
        BY <1>1, <4>2
      <4> HIDE DEF W
      <4> QED
        BY <4>2, <4>3
    <3>5. f[x] \in Nat
      BY <1>2
    <3> HIDE DEF W
    <3> QED
      BY <2>1, <2>2, <3>1, <3>3, <3>4, <3>5
  <2> QED
    BY <1>2, <2>1, <2>3, <2>4
<1> QED
  BY <1>4, <1>5

\* Changing one value changes the sum by as much.
LEMMA SumUpdate ==
  ASSUME NEW S, IsFiniteSet(S), NEW f \in [S -> Nat], NEW h \in [S -> Nat], NEW x \in S,
         \A y \in S \ {x} : h[y] = f[y]
  PROVE  SumFunction(f) \in Nat /\ SumFunction(h) = SumFunction(f) - f[x] + h[x]
<1>1. Sum(f, S) \in Nat /\ Sum(f, S) = f[x] + Sum(f, S \ {x})
  BY SumSplits
<1>2. Sum(h, S) \in Nat /\ Sum(h, S) = h[x] + Sum(h, S \ {x})
  BY SumSplits
<1>3. IsFiniteSet(S \ {x})
  BY FS_Subset
<1>4. Sum(h, S \ {x}) = Sum(f, S \ {x}) /\ Sum(f, S \ {x}) \in Nat
  BY <1>3, SumAgrees, SumSplits
<1>5. SumFunction(f) = Sum(f, S) /\ SumFunction(h) = Sum(h, S)
  BY SumIs
<1>6. f[x] \in Nat /\ h[x] \in Nat
  OBVIOUS
<1> QED
  BY <1>1, <1>2, <1>4, <1>5, <1>6

\* Nor does a zero at the end.
LEMMA SumAppendZero ==
  ASSUME NEW q \in Seq(Nat)
  PROVE  SumFunction(Append(q, 0)) = SumFunction(q)
<1> DEFINE S == 1..Len(q)
           T == 1..(Len(q) + 1)
           x == Len(q) + 1
           h == Append(q, 0)
<1>1. /\ Len(q) \in Nat /\ DOMAIN q = S /\ \A k \in S : q[k] \in Nat
      /\ h \in Seq(Nat) /\ Len(h) = x /\ \A k \in S : h[k] = q[k]
      /\ h[x] = 0
  BY AppendZero, LenProperties, ElementOfSeq
<1>2. DOMAIN h = T /\ x \in T /\ T \ {x} = S /\ IsFiniteSet(S) /\ IsFiniteSet(T)
  <2>1. DOMAIN h = T
    BY <1>1, LenProperties
  <2>2. IsFiniteSet(S) /\ IsFiniteSet(T)
    BY <1>1, FS_Interval
  <2>3. x \in T /\ T \ {x} = S
    BY <1>1
  <2> QED
    BY <2>1, <2>2, <2>3
<1> HIDE DEF S, T, x, h
<1>3. \A k \in T : h[k] \in Nat
  BY <1>1, <1>2
<1>4. Sum(h, T) = h[x] + Sum(h, T \ {x})
  BY <1>2, <1>3, SumSplits
<1>5. Sum(h, S) = Sum(q, S) /\ Sum(q, S) \in Nat
  BY <1>1, <1>2, SumAgrees, SumSplits
<1>6. SumFunction(h) = Sum(h, T) /\ SumFunction(q) = Sum(q, S)
  BY <1>1, <1>2, SumIs
<1>7. SumFunction(h) = 0 + Sum(q, S)
  BY <1>1, <1>2, <1>4, <1>5, <1>6
<1> QED
  BY <1>5, <1>6, <1>7 DEF h

----------------------------------------------------------------------------
\* Statistics.

\* The documents that refreshQuota is about to send have different rules, and
\* there are none but while it holds muRefresh.
Documents ==
    /\ \A d, e \in stats : d.rule = e.rule => d = e
    /\ stage["quotaPoller"] # "locked" => stats = {}

\* The second inductive invariant.
Counted ==
    /\ received \in [Rules -> Nat] /\ lost \in [Rules -> Nat] /\ total \in [Rules -> Nat]
    /\ Documents
    /\ Conserved

\* The requests in the documents of a rule.
InDocuments(k, r) == SumFunction([d \in {x \in k : x.rule = r} |-> d.count])

LEMMA SumOfNone == ASSUME NEW f, DOMAIN f = {} PROVE SumFunction(f) = 0
BY SumIs, SumStep, FS_EmptySet

LEMMA SumOfZeros ==
  ASSUME NEW f, IsFiniteSet(DOMAIN f), \A x \in DOMAIN f : f[x] = 0
  PROVE  SumFunction(f) = 0
<1> DEFINE A == {T \in SUBSET DOMAIN f : Sum(f, T) # 0}
<1>1. A = {}
  <2> SUFFICES ASSUME A # {} PROVE FALSE
    OBVIOUS
  <2>1. PICK T \in A : \A U \in A : ~(U \subseteq T /\ U # T)
    <3>1. A \subseteq SUBSET DOMAIN f
      OBVIOUS
    <3> HIDE DEF A
    <3> QED
      BY <3>1, MinimalSet
  <2>2. IsFiniteSet(T) /\ T \subseteq DOMAIN f /\ Sum(f, T) # 0
    BY FS_Subset
  <2>3. T # {} /\ Sum(f, T) = f[Pick(T)] + Sum(f, T \ {Pick(T)}) /\ Pick(T) \in T
    BY <2>2, SumStep, PickIn
  <2>4. T \ {Pick(T)} \notin A
    BY <2>1, <2>3
  <2>5. Sum(f, T \ {Pick(T)}) = 0
    BY <2>2, <2>4
  <2> QED
    BY <2>2, <2>3, <2>5
<1>2. Sum(f, DOMAIN f) = 0
  BY <1>1
<1> QED
  BY <1>2, SumIs

LEMMA SumOfOne ==
  ASSUME NEW f, NEW x, DOMAIN f = {x}, f[x] \in Nat
  PROVE  SumFunction(f) = f[x]
<1>1. IsFiniteSet({x})
  BY FS_Singleton
<1>2. Sum(f, {x}) = f[x] + Sum(f, {x} \ {x})
  BY <1>1, SumSplits
<1>3. {x} \ {x} = {}
  OBVIOUS
<1>4. Sum(f, {}) = 0
  BY SumStep, FS_EmptySet
<1> QED
  BY <1>2, <1>3, <1>4, SumIs

LEMMA NoDocument ==
  ASSUME NEW k, NEW r, \A d \in k : d.rule # r
  PROVE  InDocuments(k, r) = 0
<1>1. DOMAIN [d \in {x \in k : x.rule = r} |-> d.count] = {}
  OBVIOUS
<1> QED
  BY <1>1, SumOfNone DEF InDocuments

LEMMA OneDocument ==
  ASSUME NEW k, NEW r, NEW d \in k, d.rule = r, d.count \in Nat,
         \A e \in k : e.rule = r => e = d
  PROVE  InDocuments(k, r) = d.count
<1> DEFINE f == [e \in {x \in k : x.rule = r} |-> e.count]
<1>1. {x \in k : x.rule = r} = {d}
  OBVIOUS
<1>2. DOMAIN f = {d} /\ f[d] = d.count
  BY <1>1
<1>3. InDocuments(k, r) = SumFunction(f)
  BY DEF InDocuments
<1> HIDE DEF f
<1> QED
  BY <1>2, <1>3, SumOfOne

\* Sending some documents and keeping the others loses nothing.
LEMMA DocumentsSplit ==
  ASSUME IInv, Documents, NEW k \in SUBSET stats, NEW r \in Rules
  PROVE  /\ InDocuments(stats, r) = InDocuments(k, r) + InDocuments(stats \ k, r)
         /\ InDocuments(k, r) \in Nat /\ InDocuments(stats \ k, r) \in Nat
<1>1. \A d \in stats : d.count \in Nat
  BY DEF IInv, Typed, Document
<1>2. CASE \A d \in stats : d.rule # r
  <2>1. InDocuments(stats, r) = 0 /\ InDocuments(k, r) = 0 /\ InDocuments(stats \ k, r) = 0
    BY <1>2, NoDocument
  <2> QED
    BY <2>1
<1>3. CASE \E d \in stats : d.rule = r
  <2>1. PICK d \in stats : d.rule = r
    BY <1>3
  <2>2. /\ d.count \in Nat
        /\ \A e \in stats : e.rule = r => e = d
    BY <1>1, <2>1 DEF Documents
  <2>3. InDocuments(stats, r) = d.count
    BY <2>1, <2>2, OneDocument
  <2>4. CASE d \in k
    <3>1. InDocuments(k, r) = d.count
      BY <2>1, <2>2, <2>4, OneDocument
    <3>2. InDocuments(stats \ k, r) = 0
      BY <2>2, <2>4, NoDocument
    <3> QED
      BY <2>2, <2>3, <3>1, <3>2
  <2>5. CASE d \notin k
    <3>1. InDocuments(k, r) = 0
      BY <2>2, <2>5, NoDocument
    <3>2. InDocuments(stats \ k, r) = d.count
      BY <2>1, <2>2, <2>5, OneDocument
    <3> QED
      BY <2>2, <2>3, <3>1, <3>2
  <2> QED
    BY <2>4, <2>5
<1> QED
  BY <1>2, <1>3

\* What Conserved says of one rule.
Balanced(r) ==
    total[r] = received[r] + lost[r] + SumFunction(unreported[r]) + InDocuments(stats, r)

LEMMA Balance == Conserved <=> \A r \in Rules : Balanced(r)
BY DEF Conserved, Balanced, InDocuments

LEMMA CountFrame ==
  ASSUME Counted, UNCHANGED <<received, lost, total, unreported, stats>>,
         stage["quotaPoller"] = "locked" => stage'["quotaPoller"] = "locked" \/ stats = {}
  PROVE  Counted'
BY DEF Counted, Documents, Conserved

LEMMA InitCounted == Init => Counted
<1> SUFFICES ASSUME Init PROVE Counted
  OBVIOUS
<1> USE DEF Init
<1>1. Documents
  BY DEF Documents
<1>2. ASSUME NEW r \in Rules PROVE Balanced(r)
  <2>1. unreported[r] = <<>> /\ DOMAIN unreported[r] = {}
    BY EmptySeq
  <2>2. SumFunction(unreported[r]) = 0
    BY <2>1, SumOfNone
  <2>3. InDocuments(stats, r) = 0
    BY NoDocument
  <2>4. total[r] = 0 /\ received[r] = 0 /\ lost[r] = 0
    OBVIOUS
  <2> HIDE DEF Init
  <2> QED
    BY <2>2, <2>3, <2>4 DEF Balanced
<1> QED
  BY <1>1, <1>2, Balance DEF Counted

LEMMA QuotaCounts ==
  ASSUME IInv, NEW r \in Rules
  PROVE  /\ unreported[r] \in [1..Made(r) -> Nat] /\ IsFiniteSet(1..Made(r))
         /\ SumFunction(unreported[r]) \in Nat
<1>1. unreported[r] \in [1..Made(r) -> Nat] /\ IsFiniteSet(1..Made(r))
  <2>1. 1 \in Int /\ Made(r) \in Int
    BY MadeNat
  <2> QED
    BY <2>1, MadeNat, FS_Interval
<1> DEFINE S == 1..Made(r)
<1>2. S = DOMAIN unreported[r] /\ \A x \in S : unreported[r][x] \in Nat
  BY <1>1
<1> HIDE DEF S
<1> QED
  BY <1>1, <1>2, SumSplits, SumIs DEF S

\* A request is counted once, in a quota that was made.
LEMMA SampleCounts ==
  ASSUME IInv, Counted, NEW c \in Requests, Sample(c)
  PROVE  Counted'
<1>1. UNCHANGED <<received, lost, stats, stage>>
  BY DEF Sample, local
<1>2. CASE UNCHANGED <<unreported, total>>
  BY <1>1, <1>2, CountFrame
<1>3. ASSUME NEW r \in {q \in Rules : held[c][q] # 0},
             unreported' = [unreported EXCEPT ![r][held[c][r]] = @ + 1],
             total' = [total EXCEPT ![r] = @ + 1]
      PROVE  Counted'
  <2> DEFINE n == held[c][r]
             S == 1..Made(r)
  <2>1. r \in Rules /\ held[c] # None
    BY DEF Sample
  <2>2. n \in S
    BY <1>3, <2>1, CountOne
  <2>3. /\ unreported[r] \in [S -> Nat]
        /\ unreported'[r] = [unreported[r] EXCEPT ![n] = unreported[r][n] + 1]
        /\ \A q \in Rules \ {r} : unreported'[q] = unreported[q]
    BY <1>3, <2>1, CountOne, MadeNat
  <2>4. IsFiniteSet(S)
    BY <2>1, QuotaCounts
  <2> HIDE DEF n, S
  <2>5. /\ unreported'[r] \in [S -> Nat] /\ unreported'[r][n] = unreported[r][n] + 1
        /\ \A k \in S \ {n} : unreported'[r][k] = unreported[r][k]
        /\ unreported[r][n] \in Nat
    BY <2>2, <2>3
  <2>6. /\ SumFunction(unreported[r]) \in Nat
        /\ SumFunction(unreported'[r]) = SumFunction(unreported[r]) + 1
    <3>1. /\ SumFunction(unreported[r]) \in Nat
          /\ SumFunction(unreported'[r])
               = SumFunction(unreported[r]) - unreported[r][n] + unreported'[r][n]
      BY <2>2, <2>3, <2>4, <2>5, SumUpdate
    <3> QED
      BY <2>5, <3>1
  <2>7. total' \in [Rules -> Nat] /\ total'[r] = total[r] + 1
        /\ \A q \in Rules \ {r} : total'[q] = total[q]
    BY <1>3, <2>1 DEF Counted
  <2>8. InDocuments(stats, r) \in Nat
    <3>1. {} \in SUBSET stats /\ stats \ {} = stats
      OBVIOUS
    <3> QED
      BY <2>1, <3>1, DocumentsSplit DEF Counted
  <2>9. ASSUME NEW q \in Rules PROVE Balanced(q)'
    <3>1. Balanced(q) /\ received[q] \in Nat /\ lost[q] \in Nat
      BY Balance DEF Counted
    <3>2. InDocuments(stats, q)' = InDocuments(stats, q)
      BY <1>1 DEF InDocuments
    <3>3. CASE q = r
      BY <1>1, <2>6, <2>7, <2>8, <3>1, <3>2, <3>3 DEF Balanced
    <3>4. CASE q # r
      BY <1>1, <2>3, <2>7, <3>1, <3>2, <3>4 DEF Balanced
    <3> QED
      BY <3>3, <3>4
  <2>10. Conserved'
    BY <2>9 DEF Conserved, Balanced, InDocuments
  <2> QED
    BY <1>1, <2>7, <2>10 DEF Counted, Documents
<1> QED
  BY <1>2, <1>3 DEF Sample

\* A new quota has counted nothing.
LEMMA NewQuotasCount ==
  ASSUME IInv, Counted, NEW new \in SUBSET Rules, NewQuotas(new),
         UNCHANGED <<received, lost, total, stats>>
  PROVE  Conserved'
<1>1. ASSUME NEW r \in Rules PROVE Balanced(r)'
  <2>1. Balanced(r)
    BY Balance DEF Counted
  <2>2. SumFunction(unreported'[r]) = SumFunction(unreported[r])
    <3>1. unreported'[r] = IF r \in new THEN Append(unreported[r], 0) ELSE unreported[r]
      BY DEF NewQuotas
    <3>2. unreported[r] \in Seq(Nat)
      BY MadeNat
    <3>3. SumFunction(Append(unreported[r], 0)) = SumFunction(unreported[r])
      BY <3>2, SumAppendZero
    <3> QED
      BY <3>1, <3>3
  <2>3. InDocuments(stats, r)' = InDocuments(stats, r)
    BY DEF InDocuments
  <2> QED
    BY <2>1, <2>2, <2>3 DEF Balanced
<1> QED
  BY <1>1 DEF Conserved, Balanced, InDocuments

\* What refreshQuota takes from the quotas of the manifest is in its documents.
LEMMA BeginRefreshQuotaCounts ==
  ASSUME IInv, Counted, BeginRefreshQuota
  PROVE  Counted'
<1> USE DEF BeginRefreshQuota
<1> DEFINE document(r) == [rule |-> r, count |-> unreported[r][manifest.quota[r]]]
<1>1. stats' = {document(r) : r \in RulesOf(manifest)} /\ UNCHANGED <<received, lost, total>>
  OBVIOUS
<1>2. stage'["quotaPoller"] = "locked" /\ stats = {}
  <2>1. "quotaPoller" \in Refreshers
    BY DEF Refreshers, Pollers
  <2> QED
    BY <2>1 DEF Acquire, IInv, Typed, Counted, Documents
<1>3. Documents'
  <2>1. \A r \in RulesOf(manifest) : document(r).rule = r
    OBVIOUS
  <2>2. \A d, e \in stats' : d.rule = e.rule => d = e
    BY <1>1, <2>1
  <2> QED
    BY <1>2, <2>2 DEF Documents
<1>4. ASSUME NEW r \in Rules PROVE Balanced(r)'
  <2>1. Balanced(r) /\ received[r] \in Nat /\ lost[r] \in Nat /\ total[r] \in Nat
    BY Balance DEF Counted
  <2>2. InDocuments(stats, r) = 0
    BY <1>2, NoDocument
  <2> DEFINE S == 1..Made(r)
             n == manifest.quota[r]
  <2>3. unreported[r] \in [S -> Nat] /\ IsFiniteSet(S)
    BY QuotaCounts
  <2>4. unreported'[r] = [k \in S |-> IF k = n THEN 0 ELSE unreported[r][k]]
    BY <2>3
  <2>5. unreported'[r] \in [S -> Nat]
    BY <2>3, <2>4
  <2>6. CASE n # 0
    <3>1. n \in S /\ r \in RulesOf(manifest)
      BY <2>6, QuotaNumber DEF RulesOf
    <3> HIDE DEF S
    <3>2. unreported'[r][n] = 0 /\ \A k \in S \ {n} : unreported'[r][k] = unreported[r][k]
      BY <2>4, <3>1
    <3>3. unreported[r][n] \in Nat
      BY <2>3, <3>1
    <3>4. /\ SumFunction(unreported[r]) \in Nat
          /\ SumFunction(unreported'[r])
               = SumFunction(unreported[r]) - unreported[r][n] + unreported'[r][n]
      BY <2>3, <2>5, <3>1, <3>2, SumUpdate
    <3>5. InDocuments(stats', r) = unreported[r][n]
      <4> DEFINE d == document(r)
      <4>1. d \in stats' /\ d.rule = r /\ d.count = unreported[r][n]
        BY <1>1, <3>1
      <4>2. \A e \in stats' : e.rule = r => e = d
        BY <1>1
      <4> HIDE DEF d, document, n
      <4> DEFINE k == stats'
      <4>3. d \in k /\ d.count \in Nat /\ \A e \in k : e.rule = r => e = d
        BY <3>3, <4>1, <4>2
      <4> HIDE DEF k
      <4>4. InDocuments(k, r) = d.count
        BY <4>1, <4>3, OneDocument
      <4> QED
        BY <4>1, <4>4 DEF k
    <3>6. InDocuments(stats, r)' = InDocuments(stats', r)
      BY DEF InDocuments
    <3> HIDE DEF n
    <3> QED
      BY <1>1, <2>1, <2>2, <3>2, <3>3, <3>4, <3>5, <3>6 DEF Balanced
  <2>7. CASE n = 0
    <3>1. unreported'[r] = unreported[r]
      <4>1. 0 \notin S
        OBVIOUS
      <4> HIDE DEF S
      <4> QED
        BY <2>3, <2>4, <2>7, <4>1
    <3>2. \A d \in stats' : d.rule # r
      BY <1>1, <2>7 DEF RulesOf
    <3>3. InDocuments(stats', r) = 0
      BY <3>2, NoDocument
    <3>4. InDocuments(stats, r)' = InDocuments(stats', r)
      BY DEF InDocuments
    <3> QED
      BY <1>1, <2>1, <2>2, <3>1, <3>3, <3>4 DEF Balanced
  <2> QED
    BY <2>6, <2>7
<1>5. Conserved'
  BY <1>4 DEF Conserved, Balanced, InDocuments
<1> QED
  BY <1>1, <1>3, <1>5 DEF Counted

\* Documents leave the poller for the service, or are lost.
LEMMA TargetsCount ==
  ASSUME IInv, Counted, GetTargets \/ FailTargets
  PROVE  Counted'
<1>1. PICK k \in SUBSET stats :
         /\ stats' = stats \ k
         /\ \/ received' = Add(received, k) /\ lost' = lost
            \/ lost' = Add(lost, k) /\ received' = received
  BY DEF GetTargets, FailTargets, Chunks
<1>2. UNCHANGED <<unreported, total, stage>>
  BY DEF GetTargets, FailTargets, sampling
<1>3. ASSUME NEW f \in [Rules -> Nat]
      PROVE  /\ Add(f, k) \in [Rules -> Nat]
             /\ \A r \in Rules : Add(f, k)[r] = f[r] + InDocuments(k, r)
  <2>1. Add(f, k) = [r \in Rules |-> f[r] + InDocuments(k, r)]
    BY DEF Add, InDocuments
  <2>2. \A r \in Rules : InDocuments(k, r) \in Nat
    BY DocumentsSplit DEF Counted
  <2> QED
    BY <2>1, <2>2
<1>4. received' \in [Rules -> Nat] /\ lost' \in [Rules -> Nat]
  BY <1>1, <1>3 DEF Counted
<1>5. ASSUME NEW r \in Rules PROVE Balanced(r)'
  <2>1. Balanced(r) /\ received[r] \in Nat /\ lost[r] \in Nat /\ total[r] \in Nat
    BY Balance DEF Counted
  <2>2. /\ InDocuments(stats, r) = InDocuments(k, r) + InDocuments(stats \ k, r)
        /\ InDocuments(k, r) \in Nat /\ InDocuments(stats \ k, r) \in Nat
    BY DocumentsSplit DEF Counted
  <2>3. received'[r] + lost'[r] = received[r] + lost[r] + InDocuments(k, r)
    <3>1. CASE received' = Add(received, k) /\ lost' = lost
      <4>1. received'[r] = received[r] + InDocuments(k, r)
        BY <1>3, <3>1 DEF Counted
      <4> QED
        BY <2>1, <2>2, <3>1, <4>1
    <3>2. CASE lost' = Add(lost, k) /\ received' = received
      <4>1. lost'[r] = lost[r] + InDocuments(k, r)
        BY <1>3, <3>2 DEF Counted
      <4> QED
        BY <2>1, <2>2, <3>2, <4>1
    <3> QED
      BY <1>1, <3>1, <3>2
  <2>4. InDocuments(stats, r)' = InDocuments(stats \ k, r)
    BY <1>1 DEF InDocuments
  <2>5. SumFunction(unreported[r]) \in Nat
    BY QuotaCounts
  <2>6. received'[r] \in Nat /\ lost'[r] \in Nat
    BY <1>4
  <2> QED
    BY <1>2, <2>1, <2>2, <2>3, <2>4, <2>5, <2>6 DEF Balanced
<1>6. Conserved'
  BY <1>5 DEF Conserved, Balanced, InDocuments
<1>7. Documents'
  BY <1>1, <1>2 DEF Counted, Documents
<1> QED
  BY <1>2, <1>4, <1>6, <1>7 DEF Counted

LEMMA CountedStep == IInv /\ Counted /\ [Next]_vars => Counted'
<1> SUFFICES ASSUME IInv, Counted, [Next]_vars PROVE Counted'
  OBVIOUS
<1> USE DEF service, switches, sampling, local
<1>1. ASSUME NEW p \in RuleRefreshers, RefreshRule(p) PROVE Counted'
  <2>1. UNCHANGED <<received, lost, total, stats>>
    BY <1>1 DEF RefreshRule, BeginRefreshRule, FetchPage, FetchRules, FetchError, EndListing,
       GetPage, FailRules, SetManifest
  <2>2. p # "quotaPoller" /\ "quotaPoller" \in Refreshers
    BY DEF RuleRefreshers, Refreshers, Pollers
  <2>3. stage'["quotaPoller"] = stage["quotaPoller"]
    BY <1>1, <2>2 DEF RefreshRule, BeginRefreshRule, FetchPage, FetchRules, FetchError,
       EndListing, FailRules, SetManifest, Acquire, Release, IInv, Typed
  <2>4. CASE SetManifest(p)
    <3> DEFINE new == {r \in fetched[p].rules : base[p].quota[r] = 0}
    <3>1. new \in SUBSET Rules /\ NewQuotas(new)
      BY <2>4 DEF SetManifest, IInv, Typed, Fetched
    <3> HIDE DEF new
    <3>2. Conserved'
      BY <2>1, <3>1, NewQuotasCount
    <3> QED
      BY <2>1, <2>3, <3>2 DEF Counted, Documents
  <2>5. CASE ~SetManifest(p)
    <3>1. UNCHANGED unreported
      BY <1>1, <2>5 DEF RefreshRule, BeginRefreshRule, FetchPage, FetchRules, FetchError,
         EndListing, GetPage, FailRules
    <3> QED
      BY <2>1, <2>3, <3>1, CountFrame
  <2> QED
    BY <2>4, <2>5
<1>2. CASE RefreshQuota
  <2>1. CASE EndRefreshQuota
    BY <2>1, CountFrame DEF EndRefreshQuota
  <2> QED
    BY <1>2, <2>1, BeginRefreshQuotaCounts, TargetsCount DEF RefreshQuota
<1>3. ASSUME NEW c \in Requests, BeginShouldTrace(c) PROVE Counted'
  <2>1. "quotaPoller" \in Pollers /\ "quotaPoller" \in Refreshers
    BY DEF Refreshers, Pollers
  <2>2. stage["quotaPoller"] = "locked" => started
    BY <2>1 DEF IInv, LockHeld
  <2>3. stage["quotaPoller"] = "locked" => stage'["quotaPoller"] = "locked"
    BY <1>3, <2>1, <2>2 DEF BeginShouldTrace
  <2> QED
    BY <1>3, <2>3, CountFrame DEF BeginShouldTrace
<1>4. ASSUME NEW p \in Pollers, Wake(p) \/ Stop(p) PROVE Counted'
  <2>1. stage["quotaPoller"] = "locked" => stage'["quotaPoller"] = "locked"
    <3>1. stage[p] = "sleeping" /\ \E to \in {"waiting", "off"} : stage' = [stage EXCEPT ![p] = to]
      BY <1>4 DEF Wake, Stop
    <3>2. DOMAIN stage = Refreshers /\ "quotaPoller" \in Refreshers
      BY DEF IInv, Typed, Refreshers, Pollers
    <3> QED
      BY <3>1, <3>2
  <2> QED
    BY <1>4, <2>1, CountFrame DEF Wake, Stop
<1>5. CASE RunSpawned
  <2>1. stage'["quotaPoller"] = stage["quotaPoller"]
    BY <1>5 DEF RunSpawned, IInv, Typed
  <2> QED
    BY <1>5, <2>1, CountFrame DEF RunSpawned
<1>6. CASE Tick \/ ChangeRules \/ Close \/ UNCHANGED vars
  BY <1>6, CountFrame DEF Tick, ChangeRules, Close, vars
<1> QED
  BY <1>1, <1>2, <1>3, <1>4, <1>5, <1>6, SampleCounts DEF Next

\* No request is counted twice or forgotten, for any number of rules and
\* requests, whatever calls of the service fail.
THEOREM CountsConserved == Spec => []Conserved
<1>1. Counted => Conserved
  BY DEF Counted
<1> QED
  BY <1>1, Invariant, InitCounted, CountedStep, PTL DEF Spec

=============================================================================
