------------------------------- MODULE AwsCall -------------------------------
(***************************************************************************)
(* One call of an AWS client, and the subsegments that the handlers of     *)
(* xrayaws (xrayaws/client.go) or the middleware of xrayaws-v2             *)
(* (xrayaws-v2/client.go) begin and close at its stages.                   *)
(*                                                                         *)
(* The SDKs are external: they run the stages in this order, stop at an    *)
(* error, and try again after an error that permits it.                    *)
(*                                                                         *)
(* A definition marked "Faulty" is what a slip in the code would make of   *)
(* the one after it; no specification uses it.                             *)
(***************************************************************************)
EXTENDS Integers, FiniteSets

CONSTANTS
    SDKs,        \* the SDKs in question, among "v1" and "v2"
    MaxTries     \* bound: attempts of the call

ASSUME AwsAssumption == SDKs \subseteq {"v1", "v2"} /\ MaxTries \in Nat \ {0}

AwsKinds == {"aws", "marshal", "attempt", "unmarshal"}

VARIABLES
    sdk,         \* which SDK makes the call
    phase,       \* the stage that comes next
    fields,      \* kinds of subsegments that a field of subsegments refers to
    awsOpen,     \* awsOpen[k]: subsegments of kind k begun and not closed
    tries,       \* attempts that got as far as a subsegment
    resigned,    \* history: requests that waited so long that they were signed twice
    presigned    \* history: the call ended at its signature

awsVars == <<sdk, phase, fields, awsOpen, tries, resigned, presigned>>

AwsInit ==
    /\ sdk \in SDKs
    /\ phase = "start" /\ fields = {} /\ awsOpen = [k \in AwsKinds |-> 0]
    /\ tries = 0
    /\ resigned = 0 /\ presigned = FALSE

----------------------------------------------------------------------------
\* BeginSubsegment for the kinds of ks, each into its field, whatever that
\* refers to.
BeginEach(ks) ==
    /\ fields' = fields \cup ks
    /\ awsOpen' = [k \in AwsKinds |-> IF k \in ks THEN awsOpen[k] + 1 ELSE awsOpen[k]]

\* Close, of the kinds of ks that a field refers to.
CloseEach(ks) ==
    /\ fields' = fields \ ks
    /\ awsOpen' = [k \in AwsKinds |-> IF k \in ks \cap fields THEN awsOpen[k] - 1 ELSE awsOpen[k]]

At(s, p) == sdk = s /\ phase = p

\* The stage goes well and p comes next, or it fails and q does.
Outcome(ok, p, q) == phase' = IF ok THEN p ELSE q

----------------------------------------------------------------------------
\* xrayaws.

BeforeValidate ==
    /\ At("v1", "start")
    /\ BeginEach({"aws", "marshal"})
    /\ \E ok \in BOOLEAN : Outcome(ok, "build", "complete")
    /\ UNCHANGED <<sdk, tries, resigned, presigned>>

\* afterBuild comes last of the stage, and only if nothing failed before.
AfterBuild ==
    /\ At("v1", "build")
    /\ \E ok \in BOOLEAN :
          /\ Outcome(ok, "sign", "complete")
          /\ CloseEach(IF ok THEN {"marshal"} ELSE {})
    /\ UNCHANGED <<sdk, tries, resigned, presigned>>

BeforeSign ==
    /\ At("v1", "sign")
    /\ tries < MaxTries /\ tries' = tries + 1
    /\ BeginEach({"attempt"})
    /\ \E ok \in BOOLEAN : Outcome(ok, "send", "complete")
    /\ UNCHANGED <<sdk, resigned, presigned>>

\* Presign is done with the signature; no handler of Complete runs.
Presign ==
    /\ At("v1", "send") /\ tries = 1
    /\ phase' = "done" /\ presigned' = TRUE
    /\ UNCHANGED <<sdk, fields, awsOpen, tries, resigned>>

\* A signature that is too old to be sent is replaced.
Resign ==
    /\ At("v1", "send") /\ resigned = 0
    /\ resigned' = resigned + 1
    /\ BeginEach({"attempt"})
    /\ UNCHANGED <<sdk, phase, tries, presigned>>

AfterSend ==
    /\ At("v1", "send")
    /\ CloseEach({"attempt"})
    /\ \E ok \in BOOLEAN : Outcome(ok, "meta", "again")
    /\ UNCHANGED <<sdk, tries, resigned, presigned>>

BeforeUnmarshalMeta ==
    /\ At("v1", "meta")
    /\ BeginEach({"unmarshal"})
    /\ phase' = "unmarshal"
    /\ UNCHANGED <<sdk, tries, resigned, presigned>>

\* afterUnmarshal, or afterUnmarshalError, which notes the error.
AfterUnmarshal ==
    /\ At("v1", "unmarshal")
    /\ \E ok \in BOOLEAN : Outcome(ok, "complete", "again")
    /\ CloseEach({"unmarshal"})
    /\ UNCHANGED <<sdk, tries, resigned, presigned>>

\* External: is the call tried again?
RetryCall ==
    /\ phase = "again"
    /\ \/ phase' = "sign" /\ tries < MaxTries
       \/ phase' = IF sdk = "v1" THEN "complete" ELSE "unwind"
    /\ UNCHANGED <<sdk, fields, awsOpen, tries, resigned, presigned>>

\* Complete is deferred: it also runs when a stage panics.
V1Panics ==
    /\ sdk = "v1" /\ phase \notin {"start", "complete", "done"}
    /\ phase' = "complete"
    /\ UNCHANGED <<sdk, fields, awsOpen, tries, resigned, presigned>>

\* afterComplete.
AfterComplete ==
    /\ At("v1", "complete")
    /\ CloseEach(AwsKinds)
    /\ phase' = "done"
    /\ UNCHANGED <<sdk, tries, resigned, presigned>>

----------------------------------------------------------------------------
\* xrayaws-v2.  HandleInitialize and the marshal middleware note the time only;
\* signing is a part of every attempt.

HandleInitialize ==
    /\ At("v2", "start")
    /\ \E ok \in BOOLEAN : Outcome(ok, "sign", "unwind")
    /\ UNCHANGED <<sdk, fields, awsOpen, tries, resigned, presigned>>

\* endMarshal comes after the signature.  The subsegment of marshalling begins
\* and ends with it, at the times noted.
EndMarshal ==
    /\ At("v2", "sign")
    /\ tries < MaxTries
    /\ \E ok \in BOOLEAN :
          /\ Outcome(ok, "attempt", "again")
          /\ BeginEach(IF ok THEN {"aws"} ELSE {})
          /\ tries' = IF ok THEN tries + 1 ELSE tries
    /\ UNCHANGED <<sdk, resigned, presigned>>

BeginAttempt ==
    /\ At("v2", "attempt")
    /\ BeginEach({"attempt"})
    /\ phase' = "send"
    /\ UNCHANGED <<sdk, tries, resigned, presigned>>

\* The attempt ends; the answer is unmarshalled unless there was none.
EndAttempt ==
    /\ At("v2", "send")
    /\ \E ok \in BOOLEAN :
          /\ Outcome(ok, "unmarshal", "again")
          /\ fields' = (fields \ {"attempt"}) \cup IF ok THEN {"unmarshal"} ELSE {}
          /\ awsOpen' = [awsOpen EXCEPT !["attempt"] = @ - 1,
                                        !["unmarshal"] = IF ok THEN @ + 1 ELSE @]
    /\ UNCHANGED <<sdk, tries, resigned, presigned>>

\* beginAttempt gets the result.
EndUnmarshal ==
    /\ At("v2", "unmarshal")
    /\ \E ok \in BOOLEAN : Outcome(ok, "unwind", "again")
    /\ CloseEach({"unmarshal"})
    /\ UNCHANGED <<sdk, tries, resigned, presigned>>

V2Panics ==
    /\ sdk = "v2" /\ phase \notin {"start", "unwind", "done"}
    /\ phase' = "unwind"
    /\ UNCHANGED <<sdk, fields, awsOpen, tries, resigned, presigned>>

\* Faulty: a panic skips what is not deferred.
UnwindRootOnly ==
    /\ At("v2", "unwind")
    /\ CloseEach({"aws"})
    /\ phase' = "done"
    /\ UNCHANGED <<sdk, tries, resigned, presigned>>

\* The rest of HandleInitialize, with closeExceptRoot and closeRoot deferred.
Unwind ==
    /\ At("v2", "unwind")
    /\ CloseEach({"attempt", "unmarshal", "aws"})
    /\ phase' = "done"
    /\ UNCHANGED <<sdk, tries, resigned, presigned>>

----------------------------------------------------------------------------
\* A call is under way.
InAwsCall == phase \notin {"start", "done"}

AwsStep ==
    \/ BeforeValidate \/ AfterBuild \/ BeforeSign \/ Presign \/ Resign \/ AfterSend
    \/ BeforeUnmarshalMeta \/ AfterUnmarshal \/ RetryCall \/ V1Panics \/ AfterComplete
    \/ HandleInitialize \/ EndMarshal \/ BeginAttempt \/ EndAttempt \/ EndUnmarshal
    \/ V2Panics \/ Unwind

AwsSpec == AwsInit /\ [][AwsStep]_awsVars

----------------------------------------------------------------------------
\* When the call is over all its subsegments are closed, whichever stage failed
\* or panicked and however often it was tried, but for those that were begun
\* over another: the attempt of a request signed twice, and with xrayaws-v2 the
\* subsegment of the call at every attempt but the first.
AwsClosed ==
    phase = "done" /\ ~presigned =>
        /\ awsOpen["marshal"] = 0 /\ awsOpen["unmarshal"] = 0
        /\ awsOpen["attempt"] = resigned
        /\ awsOpen["aws"] = IF sdk = "v2" /\ tries > 1 THEN tries - 1 ELSE 0

\* "make sure root segment closed": xrayaws-v2 leaves no subsegment of the call
\* open.
RootClosed == sdk = "v2" /\ phase = "done" => awsOpen["aws"] = 0
=============================================================================
