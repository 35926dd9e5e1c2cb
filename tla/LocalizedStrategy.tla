-------------------------- MODULE LocalizedStrategy --------------------------
(***************************************************************************)
(* LocalizedStrategy (xray/sampling/localized_strategy.go): the manifest   *)
(* of rules that it is made from (manifest.go), the rule that a request    *)
(* matches first, and that rule's reservoir (reservoir.go), after which    *)
(* the rule's rate decides.                                                *)
(*                                                                         *)
(* A definition marked "Faulty" is what a slip in the code would make of   *)
(* the one after it; no specification uses it.                             *)
(***************************************************************************)
EXTENDS Wildcard

CONSTANTS
    Manifests,     \* the manifests that the application may give
    Requests,      \* the requests that come, with fields host, url, method
    MaxTime,       \* bound: seconds that pass
    MaxOverrun     \* bound: requests of a rule in one second beyond its target

Rates == {"negative", "never", "sometimes", "always"}

RuleType ==
    [host : Seq(STRING), url : Seq(STRING), method : Seq(STRING),
     service : Seq(STRING), target : Int, rate : Rates]

ManifestType == [version : Int, default : RuleType, rules : Seq(RuleType)]

RequestType == [host : Seq(STRING), url : Seq(STRING), method : Seq(STRING)]

ASSUME ManifestsAssumption == \A m \in Manifests : m \in ManifestType
ASSUME RequestsAssumption == \A req \in Requests : req \in RequestType
ASSUME BoundsAssumption == MaxTime \in Nat /\ MaxOverrun \in Nat

VARIABLES
    given,                \* the manifest of the application
    manifest,             \* LocalizedStrategy.manifest, version 0 before it is set
    now,                  \* the clock, in seconds
    used, currentEpoch,   \* of each rule's reservoir
    asked, sampled,       \* history of this second: requests decided by a
                          \*   rule, those of them traced
    last                  \* history: the last request and the rule it took

manifests == <<given, manifest>>
vars == <<manifests, now, used, currentEpoch, asked, sampled, last>>

\* Rule Default comes after all rules of the list.
NumRules(m) == Len(m.rules)
Default == 0
Rules(m) == 0..NumRules(m)
Rule(m, i) == IF i = Default THEN m.default ELSE m.rules[i]
Zero(m) == [i \in Rules(m) |-> 0]

NoRule == -1
Made == manifest.version # 0

Init ==
    /\ given \in Manifests
    /\ manifest = [version |-> 0, default |-> given.default, rules |-> given.rules]
    /\ now = 1
    /\ used = Zero(given) /\ currentEpoch = Zero(given)
    /\ asked = Zero(given) /\ sampled = Zero(given)
    /\ last = [request |-> [host |-> <<>>, url |-> <<>>, method |-> <<>>], rule |-> NoRule]

----------------------------------------------------------------------------
\* The manifest.

\* Validate.
Valid(m) ==
    /\ m.version \in {1, 2}
    /\ m.default.url = <<>> /\ m.default.service = <<>> /\ m.default.method = <<>>
    /\ \A i \in Rules(m) : Rule(m, i).target >= 0 /\ Rule(m, i).rate # "negative"
    /\ \A i \in 1..NumRules(m) :
          LET r == m.rules[i] IN
          /\ r.method # <<>> /\ r.url # <<>>
          /\ m.version = 1 => r.service = <<>> /\ r.host # <<>>
          /\ m.version = 2 => r.host = <<>> \/ r.service # <<>>

\* Version 1 has the host in the field of the service name.
Renamed(r) ==
    [host |-> r.service, url |-> r.url, method |-> r.method, service |-> <<>>,
     target |-> r.target, rate |-> r.rate]

Manifest(v, d, rs) == [version |-> v, default |-> d, rules |-> rs]

\* normalize, on a Copy.
Normalize(m) ==
    IF m.version = 2 THEN m
    ELSE Manifest(2, m.default, [i \in 1..NumRules(m) |-> Renamed(m.rules[i])])

NewLocalizedStrategy ==
    /\ ~Made
    /\ Valid(given)
    /\ manifest' = Normalize(given)
    /\ UNCHANGED <<given, now, used, currentEpoch, asked, sampled, last>>

----------------------------------------------------------------------------
\* The rule of a request.

\* Match.  A request of nil matches like one whose fields are all empty.
Match(r, req) ==
    /\ req.host   = <<>> \/ WildcardMatch(r.host, req.host)
    /\ req.url    = <<>> \/ WildcardMatch(r.url, req.url)
    /\ req.method = <<>> \/ WildcardMatch(r.method, req.method)

\* Faulty: the last rule that matches.
DecidesLast(i, req) ==
    LET matching == {j \in 1..NumRules(manifest) : Match(manifest.rules[j], req)}
    IN  IF matching = {} THEN i = Default
        ELSE i \in matching /\ \A j \in matching : j <= i

\* The first rule of the list that matches, or the default.
Decides(i, req) ==
    LET matching == {j \in 1..NumRules(manifest) : Match(manifest.rules[j], req)}
    IN  IF matching = {} THEN i = Default
        ELSE i \in matching /\ \A j \in matching : i <= j

----------------------------------------------------------------------------
\* Its reservoir.

\* External: the clock, which does not go back.
Tick ==
    /\ Made /\ now <= MaxTime
    /\ now' = now + 1
    /\ asked' = Zero(manifest) /\ sampled' = Zero(manifest)
    /\ UNCHANGED <<manifests, used, currentEpoch, last>>

UsedNow(i) == IF now # currentEpoch[i] THEN 0 ELSE used[i]

Capacity(i) == Rule(manifest, i).target

Sample(i, yes) ==
    sampled' = IF yes THEN [sampled EXCEPT ![i] = @ + 1] ELSE sampled

\* Faulty: one more than the capacity is let through.
TakeOneMore(i) ==
    /\ UsedNow(i) <= Capacity(i)
    /\ used' = [used EXCEPT ![i] = UsedNow(i) + 1]
    /\ Sample(i, TRUE)

\* reservoir.Take returns true.
Take(i) ==
    /\ UsedNow(i) < Capacity(i)
    /\ used' = [used EXCEPT ![i] = UsedNow(i) + 1]
    /\ Sample(i, TRUE)

\* It returns false, the second noted all the same, and a random number below
\* one is compared with the rate.
TakeFails(i) ==
    /\ UsedNow(i) >= Capacity(i)
    /\ used' = [used EXCEPT ![i] = UsedNow(i)]
    /\ \E yes \in BOOLEAN :
          /\ Rule(manifest, i).rate = "never" => ~yes
          /\ Rule(manifest, i).rate = "always" => yes
          /\ Sample(i, yes)

ShouldTrace(req, i) ==
    /\ Made /\ Decides(i, req)
    /\ asked[i] < Capacity(i) + MaxOverrun
    /\ asked' = [asked EXCEPT ![i] = @ + 1]
    /\ currentEpoch' = [currentEpoch EXCEPT ![i] = now]
    /\ last' = [request |-> req, rule |-> i]
    /\ Take(i) \/ TakeFails(i)
    /\ UNCHANGED <<manifests, now>>

Next ==
    \/ NewLocalizedStrategy \/ Tick
    \/ \E req \in Requests, i \in Rules(given) : ShouldTrace(req, i)

Spec == Init /\ [][Next]_vars

----------------------------------------------------------------------------
Least(a, b) == IF a < b THEN a ELSE b

\* In every second the reservoir of each rule that the application wrote traces
\* exactly the first FixedTarget requests, and the rate decides on the others
\* only: no request too many, none turned away while there is room, and no rule
\* spends the reservoir of another or of the second before.
TargetMet ==
    Made =>
        \A i \in Rules(given) :
            LET first == Least(asked[i], Rule(given, i).target)
                rate  == Rule(given, i).rate
            IN  /\ first <= sampled[i] /\ sampled[i] <= asked[i]
                /\ rate = "never" => sampled[i] = first
                /\ rate = "always" => sampled[i] = asked[i]

\* Does the rule apply to the request, by its wildcards' definition?
Applies(r, req) ==
    \A f \in {"host", "url", "method"} : req[f] = <<>> \/ Glob(r[f], req[f])

\* A request is decided by the first rule of the manifest that the application
\* wrote whose wildcards fit the request's host, URL and method, as long as
\* the characters have one byte each.  The manifest is of version 2: the rules
\* of version 1 lose their host.
FirstMatchDecides ==
    LET req == last.request
        applying == {i \in 1..NumRules(given) : Applies(given.rules[i], req)}
    IN  /\ given.version = 2 /\ last.rule # NoRule
        /\ \A f \in {"host", "url", "method"} : SingleBytes(req[f])
        => IF applying = {} THEN last.rule = Default
           ELSE last.rule = Smallest(applying)

\* The greedy matcher misses no match whatever the bytes: behind a star it never
\* has to go back.
NoMatchMissed ==
    Made =>
        \A i \in 1..NumRules(manifest), f \in {"host", "url", "method"} :
            Glob(manifest.rules[i][f], last.request[f]) =>
                WildcardMatch(manifest.rules[i][f], last.request[f])

----------------------------------------------------------------------------
\* Every variable holds a value of its type.
TypeOK ==
    /\ given \in Manifests /\ manifest \in ManifestType
    /\ now \in Nat
    /\ used \in [Rules(given) -> Nat] /\ currentEpoch \in [Rules(given) -> Nat]
    /\ asked \in [Rules(given) -> Nat] /\ sampled \in [Rules(given) -> Nat]

\* The inductive invariant: the manifest in use has the targets and rates that
\* the application wrote, and a reservoir that has seen a request of this second
\* has counted all of them up to its capacity.
IInv ==
    /\ TypeOK
    /\ NumRules(manifest) = NumRules(given)
    /\ \A i \in Rules(given) :
          /\ Rule(manifest, i).target = Rule(given, i).target
          /\ Rule(manifest, i).rate = Rule(given, i).rate
          /\ IF Made THEN Rule(given, i).target >= 0 ELSE currentEpoch[i] # now
          /\ currentEpoch[i] <= now
          /\ currentEpoch[i] = now => used[i] = Least(asked[i], Rule(given, i).target)
          /\ currentEpoch[i] # now => asked[i] = 0 /\ sampled[i] = 0
    /\ TargetMet
=============================================================================
