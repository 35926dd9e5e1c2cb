------------------------ MODULE CentralizedSampling ------------------------
(***************************************************************************)
(* CentralizedStrategy (xray/sampling/centralized_strategy.go): request    *)
(* goroutines sample against the manifest they read, while two pollers     *)
(* replace it with the rules of the X-Ray service and exchange the         *)
(* statistics of its quotas for targets.  What one quota decides is in     *)
(* Quota; here a quota is the number of requests it has not reported.      *)
(*                                                                         *)
(* The service, its clock and its HTTP answers are external.               *)
(*                                                                         *)
(* A definition marked "Faulty" is what a slip in the code would make of   *)
(* the one after it; no specification uses it.                             *)
(***************************************************************************)
EXTENDS Naturals, FiniteSets, Sequences, Functions

CONSTANTS
    Rules,        \* names of sampling rules
    Default,      \* the rule that matches any request and cannot be removed
    Requests,     \* request goroutines
    MaxTargets,   \* maxTargets of refreshQuota
    MaxEvents,    \* bound: changes of the rules at the service, and its error answers
    MaxTime,      \* bound: ticks of the clock
    MaxCount,     \* bound: requests counted
    None

ASSUME TargetsAssumption == MaxTargets \in Nat \ {0}
ASSUME BoundsAssumption ==
    MaxEvents \in Nat /\ MaxTime \in Nat /\ MaxCount \in Nat
ASSUME RulesAssumption == IsFiniteSet(Rules) /\ Default \in Rules

Pollers == {"rulePoller", "quotaPoller"}
\* Everything that takes muRefresh: "extra" is the goroutine refreshQuota starts.
Refreshers == Pollers \cup {"extra"}
RuleRefreshers == {"rulePoller", "extra"}

ASSUME NoneAssumption == None \notin Refreshers /\ None \notin 0..MaxTime

VARIABLES
    now, rules, modified, changes,   \* the service: clock, rules, LastRuleModification
    errors,                          \* how often the service answered with an error
    gone,                            \* history: rules that a user removed or an error left out
    received,                        \* requests the service was told of, by rule
    started, closed,                 \* startOnce, pollerCtx
    manifest,                        \* the current manifest
    unreported,                      \* requests that each quota made for a rule counts
    lock, stage,                     \* holder of muRefresh, where a refresher is
    spawned,                         \* is a goroutine of refreshQuota to begin?
    base, fetched,                   \* each refresher's manifest, and the rules it got
    stats, need,                     \* refreshQuota: documents to send, needRefresh
    held,                            \* the quotas of the manifest a request works with
    total, lost                      \* history: requests counted, lost in failed calls

service  == <<now, rules, modified, changes, errors, gone>>
switches == <<started, closed>>
sampling == <<manifest, unreported>>
local    == <<base, fetched, stats, need>>
vars == <<service, received, switches, sampling, lock, stage, spawned, local, held,
          total, lost>>

\* A quota object of rule r is known by its number among the quotas made for
\* r; quota[r] = 0 if r is not in the manifest.  at is RefreshedAt; seen is
\* history, the changes the service had made when the rules were asked for.
NoManifest == [quota |-> [r \in Rules |-> 0], at |-> None, seen |-> 0]
RulesOf(m) == {r \in Rules : m.quota[r] # 0}
Made(r)    == Len(unreported[r])

\* The rules on the pages that a refresher got.  While it waits for more, due is
\* what the service had when it sent the first one.
NoRules == [rules |-> {}, due |-> {}, seen |-> 0]

Init ==
    /\ now = 0 /\ rules \in {s \in SUBSET Rules : Default \in s} /\ modified = 0 /\ changes = 0
    /\ errors = 0 /\ gone = {}
    /\ received = [r \in Rules |-> 0]
    /\ started = FALSE /\ closed = FALSE
    /\ manifest = NoManifest
    /\ unreported = [r \in Rules |-> <<>>]
    /\ lock = None /\ stage = [p \in Refreshers |-> "off"] /\ spawned = FALSE
    /\ base = [p \in Refreshers |-> NoManifest] /\ fetched = [p \in RuleRefreshers |-> NoRules]
    /\ stats = {} /\ need = FALSE
    /\ held = [c \in Requests |-> None]
    /\ total = [r \in Rules |-> 0] /\ lost = [r \in Rules |-> 0]

----------------------------------------------------------------------------
\* External: time, and a user who edits the rules.

Tick ==
    /\ now < MaxTime
    /\ now' = now + 1
    /\ UNCHANGED <<rules, modified, changes, errors, gone, received, switches,
                   sampling, lock, stage, spawned, local, held, total, lost>>

ChangeRules ==
    /\ changes + errors < MaxEvents
    /\ \E s \in SUBSET Rules \ {rules} :
          Default \in s /\ rules' = s /\ gone' = gone \cup (rules \ s)
    /\ modified' = now /\ changes' = changes + 1
    /\ UNCHANGED <<now, errors, received, switches, sampling, lock, stage, spawned, local,
                   held, total, lost>>

----------------------------------------------------------------------------
\* ShouldTrace reads the manifest and then samples by one of its rules, or by
\* the local fallback if none matches.  The first call starts the pollers.

BeginShouldTrace(c) ==
    /\ held[c] = None
    /\ held' = [held EXCEPT ![c] = manifest.quota]
    /\ started' = TRUE
    /\ stage' = [p \in Refreshers |->
                    IF ~started /\ p \in Pollers THEN "waiting" ELSE stage[p]]
    /\ UNCHANGED <<service, received, closed, sampling, lock, spawned, local, total, lost>>

Sample(c) ==
    /\ held[c] # None
    /\ held' = [held EXCEPT ![c] = None]
    /\ \/ \E r \in {q \in Rules : held[c][q] # 0} :
             /\ SumFunction(total) < MaxCount
             /\ unreported' = [unreported EXCEPT ![r][held[c][r]] = @ + 1]
             /\ total' = [total EXCEPT ![r] = @ + 1]
       \/ UNCHANGED <<unreported, total>>
    /\ UNCHANGED <<service, received, switches, manifest, lock, stage, spawned, local, lost>>

Close ==
    /\ ~closed
    /\ closed' = TRUE
    /\ UNCHANGED <<service, received, started, sampling, lock, stage, spawned, local,
                   held, total, lost>>

----------------------------------------------------------------------------
\* The loops of rulePoller and quotaPoller around a refresh.

\* Faulty: the timer is served after Close as well.
WakeAnyway(p) ==
    /\ stage[p] = "sleeping"
    /\ stage' = [stage EXCEPT ![p] = "waiting"]
    /\ UNCHANGED <<service, received, switches, sampling, lock, spawned, local, held,
                   total, lost>>

Wake(p) ==
    /\ stage[p] = "sleeping" /\ ~closed
    /\ stage' = [stage EXCEPT ![p] = "waiting"]
    /\ UNCHANGED <<service, received, switches, sampling, lock, spawned, local, held,
                   total, lost>>

Stop(p) ==
    /\ stage[p] = "sleeping" /\ closed
    /\ stage' = [stage EXCEPT ![p] = "off"]
    /\ UNCHANGED <<service, received, switches, sampling, lock, spawned, local, held,
                   total, lost>>

\* The goroutine of `go s.refreshRule()` begins.
RunSpawned ==
    /\ spawned /\ stage["extra"] = "off"
    /\ spawned' = FALSE
    /\ stage' = [stage EXCEPT !["extra"] = "waiting"]
    /\ UNCHANGED <<service, received, switches, sampling, lock, local, held, total, lost>>

----------------------------------------------------------------------------
\* refreshRule and refreshQuota.  Both lock muRefresh and then read the
\* manifest; releasing it, a poller goes to wait for its timer and the extra
\* goroutine ends.

\* Faulty: muRefresh is not taken.
AcquireAnyway(p) ==
    /\ stage[p] = "waiting"
    /\ lock' = p
    /\ base' = [base EXCEPT ![p] = manifest]
    /\ stage' = [stage EXCEPT ![p] = "locked"]

Acquire(p) ==
    /\ stage[p] = "waiting" /\ lock = None
    /\ lock' = p
    /\ base' = [base EXCEPT ![p] = manifest]
    /\ stage' = [stage EXCEPT ![p] = "locked"]

Release(p) ==
    /\ lock' = None
    /\ stage' = [stage EXCEPT ![p] = IF p \in Pollers THEN "sleeping" ELSE "off"]
    /\ base' = [base EXCEPT ![p] = NoManifest]
    /\ fetched' = [q \in RuleRefreshers |-> IF q = p THEN NoRules ELSE fetched[q]]

BeginRefreshRule(p) ==
    /\ Acquire(p)
    /\ UNCHANGED <<service, received, switches, sampling, spawned, fetched, stats,
                   need, held, total, lost>>

\* getSamplingRulesPages asks for one page after the other.
Listing(p) == IF stage[p] = "locked" THEN [rules |-> {}, due |-> rules, seen |-> changes]
              ELSE fetched[p]

\* The answer to refresher p is a page of the rules that the service has now.
GetPage(p, page) ==
    /\ stage[p] \in {"locked", "paging"} /\ ~closed
    /\ page \subseteq rules \ Listing(p).rules
    /\ UNCHANGED <<received, switches, sampling, lock, spawned, base, stats, need, held,
                   total, lost>>

\* It is the last one, or has no NextToken at least.
EndListing(p, page) ==
    /\ GetPage(p, page)
    /\ fetched' = [fetched EXCEPT ![p] = [rules |-> Listing(p).rules \cup page, due |-> {},
                                          seen  |-> Listing(p).seen]]
    /\ stage' = [stage EXCEPT ![p] = "fetched"]

\* A page with a NextToken.
FetchPage(p) ==
    /\ \E page \in SUBSET rules \ {{}} :
          /\ GetPage(p, page)
          /\ fetched' = [fetched EXCEPT ![p] = [Listing(p) EXCEPT !.rules = @ \cup page]]
    /\ stage' = [stage EXCEPT ![p] = "paging"]
    /\ UNCHANGED service

\* The last page.  No rule that was there all the time is missing from a
\* listing; one that came or went meanwhile may be.
FetchRules(p) ==
    /\ \E page \in SUBSET rules :
          /\ Listing(p).due \cap rules \subseteq Listing(p).rules \cup page
          /\ EndListing(p, page)
    /\ UNCHANGED service

\* getSamplingRules does not look at the status: the body of an error answer
\* decodes to a page without rules and without NextToken, the last one.
FetchError(p) ==
    /\ changes + errors < MaxEvents
    /\ EndListing(p, {})
    /\ errors' = errors + 1
    /\ gone' = gone \cup (rules \ Listing(p).rules)
    /\ UNCHANGED <<now, rules, modified, changes>>

\* Faulty: the error ends the poller.
FailRulesForGood(p) ==
    /\ stage[p] \in {"locked", "paging"}
    /\ lock' = None
    /\ stage' = [stage EXCEPT ![p] = "off"]
    /\ UNCHANGED <<service, received, switches, sampling, spawned, local, held,
                   total, lost>>

\* A call failed, its answer did not decode, the minute was used up or the
\* poller closed, or the refresh panicked: the pages got so far are dropped.
FailRules(p) ==
    /\ stage[p] \in {"locked", "paging"}
    /\ Release(p)
    /\ UNCHANGED <<service, received, switches, sampling, spawned, stats, need, held,
                   total, lost>>

\* The quotas made for the rules in s are new, with no request counted.
NewQuotas(s) == unreported' = [r \in Rules |-> IF r \in s THEN Append(unreported[r], 0)
                                               ELSE unreported[r]]

\* Faulty: every rule gets a new quota.
SetNewQuotas(p) ==
    /\ stage[p] = "fetched"
    /\ NewQuotas(fetched[p].rules)
    /\ manifest' = [quota |-> [r \in Rules |-> IF r \in fetched[p].rules THEN Made(r) + 1 ELSE 0],
                    at |-> now, seen |-> fetched[p].seen]
    /\ Release(p)
    /\ UNCHANGED <<service, received, switches, spawned, stats, need, held, total, lost>>

\* A rule keeps the quota it has; a new rule gets a new one.  RefreshedAt is
\* the time now, not that of the fetch.
SetManifest(p) ==
    /\ stage[p] = "fetched"
    /\ LET new == {r \in fetched[p].rules : base[p].quota[r] = 0} IN
         /\ NewQuotas(new)
         /\ manifest' = [quota |-> [r \in Rules |-> IF r \in new THEN Made(r) + 1
                                    ELSE IF r \in fetched[p].rules THEN base[p].quota[r] ELSE 0],
                         at |-> now, seen |-> fetched[p].seen]
    /\ Release(p)
    /\ UNCHANGED <<service, received, switches, spawned, stats, need, held, total, lost>>

\* Faulty: taking the statistics does not reset them.
BeginWithoutReset ==
    /\ Acquire("quotaPoller")
    /\ stats' = {[rule |-> r, count |-> unreported[r][manifest.quota[r]]] : r \in RulesOf(manifest)}
    /\ need' = FALSE
    /\ UNCHANGED <<service, received, switches, manifest, unreported, spawned, fetched,
                   held, total, lost>>

\* refreshQuota takes the statistics of every quota of the manifest, which
\* sets them to zero.
BeginRefreshQuota ==
    /\ Acquire("quotaPoller")
    /\ stats' = {[rule |-> r, count |-> unreported[r][manifest.quota[r]]] : r \in RulesOf(manifest)}
    /\ unreported' = [r \in Rules |-> [n \in DOMAIN unreported[r] |->
                         IF n = manifest.quota[r] THEN 0 ELSE unreported[r][n]]]
    /\ need' = FALSE
    /\ UNCHANGED <<service, received, switches, manifest, spawned, fetched, held, total,
                   lost>>

\* One call of getSamplingTargets takes up to MaxTargets documents.
Chunks == {k \in SUBSET stats :
              Cardinality(k) = IF Cardinality(stats) < MaxTargets
                               THEN Cardinality(stats) ELSE MaxTargets}

Add(f, k) == [r \in Rules |-> f[r] + SumFunction([d \in {x \in k : x.rule = r} |-> d.count])]

\* It answers with targets for some rules, one of them unknown here perhaps,
\* and with the time of the last change.
GetTargets ==
    /\ stage["quotaPoller"] = "locked" /\ stats # {} /\ ~closed
    /\ \E k \in Chunks, known \in BOOLEAN :
          /\ ~known => ~(rules \subseteq RulesOf(base["quotaPoller"]))
          /\ stats' = stats \ k
          /\ received' = Add(received, k)
          /\ need' = (need \/ ~known \/ base["quotaPoller"].at = None \/ modified > base["quotaPoller"].at)
    /\ UNCHANGED <<service, switches, sampling, lock, stage, spawned, base, fetched,
                   held, total, lost>>

\* It fails: the documents are gone, the loop goes on with the next ones.
FailTargets ==
    /\ stage["quotaPoller"] = "locked" /\ stats # {}
    /\ \E k \in Chunks :
          /\ stats' = stats \ k
          /\ lost' = Add(lost, k)
    /\ UNCHANGED <<service, received, switches, sampling, lock, stage, spawned, base,
                   fetched, need, held, total>>

\* Two goroutines waiting to begin are like one: they would refresh twice.
EndRefreshQuota ==
    /\ stage["quotaPoller"] = "locked" /\ stats = {}
    /\ Release("quotaPoller")
    /\ spawned' = (spawned \/ need) /\ need' = FALSE
    /\ UNCHANGED <<service, received, switches, sampling, stats, held, total, lost>>

----------------------------------------------------------------------------
RefreshRule(p) ==
    \/ BeginRefreshRule(p) \/ SetManifest(p)
    \/ FetchPage(p) \/ FetchRules(p) \/ FetchError(p) \/ FailRules(p)

RefreshQuota == BeginRefreshQuota \/ GetTargets \/ FailTargets \/ EndRefreshQuota

Next ==
    \/ Tick \/ ChangeRules \/ Close
    \/ \E c \in Requests : BeginShouldTrace(c) \/ Sample(c)
    \/ \E p \in Pollers : Wake(p) \/ Stop(p)
    \/ \E p \in RuleRefreshers : RefreshRule(p)
    \/ RefreshQuota
    \/ RunSpawned

\* Goroutines run, timers fire, and sync.Mutex lets nobody wait for ever.  Not
\* every listing of the rules fails, nor finds its minute used up by others that
\* held muRefresh.  The application, the user and the clock owe nothing.
Fairness ==
    /\ \A p \in Pollers : WF_vars(Wake(p) \/ Stop(p))
    /\ \A p \in RuleRefreshers : SF_vars(RefreshRule(p)) /\ SF_vars(FetchRules(p))
    /\ SF_vars(RefreshQuota)
    /\ WF_vars(RunSpawned)

Spec     == Init /\ [][Next]_vars
FairSpec == Spec /\ Fairness

----------------------------------------------------------------------------
\* Every variable holds a value of its type.
TypeOK ==
    /\ now \in 0..MaxTime /\ rules \subseteq Rules /\ modified \in 0..MaxTime
    /\ errors \in 0..MaxEvents /\ gone \subseteq Rules
    /\ \A c \in Requests, r \in Rules : held[c] # None => held[c][r] \in 0..Made(r)
    /\ \A m \in {manifest} \cup {base[p] : p \in Refreshers} :
          /\ \A r \in Rules : m.quota[r] \in 0..Made(r)
          /\ m.at \in 0..MaxTime \cup {None} /\ m.seen \in 0..MaxEvents
    /\ unreported \in [Rules -> Seq(Nat)]
    /\ \A p \in RuleRefreshers : fetched[p].rules \subseteq Rules /\ fetched[p].due \subseteq Rules
    /\ lock \in Refreshers \cup {None}
    /\ stage \in [Refreshers -> {"off", "waiting", "locked", "paging", "fetched", "sleeping"}]
    /\ spawned \in BOOLEAN /\ need \in BOOLEAN

\* No request is counted twice or forgotten: each one is in a quota, in a
\* document about to be sent, at the service, or lost with a failed call.
Conserved ==
    \A r \in Rules : total[r] = received[r] + lost[r] + SumFunction(unreported[r])
                                  + SumFunction([d \in {x \in stats : x.rule = r} |-> d.count])

\* One quota counts for a rule for ever, in the current manifest as in those
\* that requests still hold, unless the rule was removed or an error answer was
\* taken for the list of rules: a request that samples by an old manifest is
\* reported by the next refreshQuota all the same.
OneQuota ==
    \A r \in Rules \ gone :
        /\ Made(r) <= 1
        /\ \A n \in 1..Made(r) : unreported[r][n] > 0 => manifest.quota[r] = n
        /\ \A c \in Requests : held[c] # None => held[c][r] \in {0, manifest.quota[r]}

\* The manifest never goes back to an older state of the rules, whichever of
\* the refreshes that compete for muRefresh comes last.
NeverOlder == [][manifest'.seen >= manifest.seen]_manifest

\* "If the sampling rule configuration changed since the service last retrieved
\* it, the service should call GetSamplingRules to get the latest version": an
\* answer given after a change makes refreshQuota ask for the rules.
ChangeDetected == [][(GetTargets /\ base["quotaPoller"].seen < changes) => need']_vars

\* Unless the strategy is closed, the manifest has the service's rules in the
\* end, whatever calls failed before, and whatever error answers made it empty.
EventuallyFresh == <>[](started => closed \/ RulesOf(manifest) = rules)

\* After Close no goroutine of the strategy is left.
CloseStops == <>[](closed => ~spawned /\ \A p \in Refreshers : stage[p] = "off")
=============================================================================
