---------------------------- MODULE TraceContext ----------------------------
(***************************************************************************)
(* One request passing through several services: the trace id, the parent  *)
(* and the sampling decision go from one to the next in the                *)
(* x-amzn-trace-id header (xray/trace_header.go), and each service decides *)
(* what to trace from it (beginSegment, BeginSubsegmentAt and              *)
(* downstreamHeader in xray/segment.go, xray/lambda.go, RoundTrip in       *)
(* xrayhttp/client.go).                                                    *)
(*                                                                         *)
(* A definition marked "Faulty" is what a slip in the code would make of   *)
(* the one after it; no specification uses it.                             *)
(***************************************************************************)
EXTENDS Naturals, FiniteSets

CONSTANTS
    TraceIDs,   \* what NewTraceID may return
    Segs,       \* what NewSegmentID may return
    Entries,    \* how requests reach a service: "http", "queue", "lambda"
    MaxHops,    \* bound: services the request passes through
    MayDisable, \* may the client of a service be disabled?
    None        \* absent: no id, nil, an empty context

ASSUME EntriesAssumption == Entries \subseteq {"http", "queue", "lambda"}
ASSUME NoneAssumption == None \notin TraceIDs \cup Segs /\ "dummy" \notin Segs
ASSUME HopsAssumption == MaxHops \in Nat
ASSUME DisableAssumption == MayDisable \in BOOLEAN

Decision == {"Sampled", "NotSampled", "Requested", "Unknown"}

\* TraceHeader; extra stands for AdditionalData, present or not.
Header == [trace : TraceIDs \cup {None}, parent : Segs \cup {None},
           decision : Decision, extra : BOOLEAN]
NoHeader == [trace |-> None, parent |-> None, decision |-> "Unknown", extra |-> FALSE]

VARIABLES
    hop,      \* services entered so far
    ctx,      \* the context of the running service
    segs,     \* the segments of all services, by id
    wire,     \* the header on its way to the next service: key-value pairs
    first,    \* history: trace id and decision of the first service
    entered   \* history: how the request reached the services so far

vars == <<hop, ctx, segs, wire, first, entered>>

\* The values a context carries; seg is "dummy" for the nil *Segment that
\* BeginDummySegment stores.
NoContext == [trace |-> None, seg |-> None, lambda |-> None]

----------------------------------------------------------------------------
\* The header as text: what TraceHeader.String writes and ParseTraceHeader
\* reads, as the set of its parameters.

Flag == [d \in {"Sampled", "NotSampled", "Requested"} |->
            CASE d = "Sampled" -> "1" [] d = "NotSampled" -> "0" [] OTHER -> "?"]

String(h) ==
    {<<"Root", t>> : t \in {h.trace} \ {None}}
        \cup {<<"Parent", p>> : p \in {h.parent} \ {None}}
        \cup {<<"Sampled", Flag[d]>> : d \in {h.decision} \ {"Unknown"}}
        \cup {<<"extra", "data">> : x \in {h.extra} \ {FALSE}}

\* No text is not an empty one.
ASSUME TextAssumption == \A h \in Header : String(h) # None

\* The value of parameter k, or the given one if there is none.
Value(w, k, default) ==
    IF \E v \in w : v[1] = k THEN (CHOOSE v \in w : v[1] = k)[2] ELSE default

\* Faulty: "Self" is an unknown key.
ParseKeepingSelf(w) ==
    [trace    |-> Value(w, "Root", None),
     parent   |-> Value(w, "Parent", None),
     decision |-> IF \E d \in DOMAIN Flag : Flag[d] = Value(w, "Sampled", "")
                  THEN CHOOSE d \in DOMAIN Flag : Flag[d] = Value(w, "Sampled", "")
                  ELSE "Unknown",
     extra    |-> \E v \in w : v[1] \notin {"Root", "Parent", "Sampled"}]

\* "Self" parameters injected by a load balancer are dropped, unknown keys are
\* kept as additional data, an unknown flag is no decision.
ParseTraceHeader(w) ==
    [trace    |-> Value(w, "Root", None),
     parent   |-> Value(w, "Parent", None),
     decision |-> IF \E d \in DOMAIN Flag : Flag[d] = Value(w, "Sampled", "")
                  THEN CHOOSE d \in DOMAIN Flag : Flag[d] = Value(w, "Sampled", "")
                  ELSE "Unknown",
     extra    |-> \E v \in w : v[1] \notin {"Root", "Parent", "Sampled", "Self"}]

----------------------------------------------------------------------------
\* The first request comes from a client outside the trace, perhaps through a
\* load balancer that adds a Self parameter.
ClientHeader == [trace : TraceIDs \cup {None}, parent : {None},
                 decision : Decision, extra : BOOLEAN]

\* A service starts with nothing in its context.
Init ==
    /\ hop = 0
    /\ ctx = NoContext
    /\ segs = [s \in {} |-> None]
    /\ \E h \in ClientHeader, self \in SUBSET {<<"Self", "lb">>} :
          wire = String(h) \cup self
    /\ first = [trace |-> None, decision |-> "Unknown"]
    /\ entered = {}

FreshTrace == TraceIDs \ ({segs[s].trace : s \in DOMAIN segs} \cup {first.trace})
FreshSeg   == Segs \ DOMAIN segs

Enter(e) ==
    /\ hop < MaxHops /\ ctx = NoContext
    /\ e \in Entries
    /\ hop' = hop + 1
    /\ wire' = {}
    /\ entered' = entered \cup {e}

\* beginSegment, after the decision d was made for the header h.
BeginSampled(h, d) ==
    \E t \in IF h.trace = None THEN FreshTrace ELSE {h.trace} :
        /\ first' = IF hop = 0 THEN [trace |-> t, decision |-> d] ELSE first
        /\ \/ /\ d = "Sampled"
              /\ \E s \in FreshSeg :
                    /\ segs' = [x \in DOMAIN segs \cup {s} |->
                                  IF x = s THEN [trace |-> t, root |-> s, hop |-> hop + 1,
                                                 header |-> [h EXCEPT !.trace = t,
                                                             !.decision = "Sampled"]]
                                  ELSE segs[x]]
                    /\ ctx' = [trace |-> t, seg |-> s, lambda |-> None]
           \/ /\ d = "NotSampled"
              /\ ctx' = [trace |-> t, seg |-> "dummy", lambda |-> None]
              /\ UNCHANGED segs

\* What a service may decide for the header h: a disabled client samples
\* nothing; the header's decision, if any, is taken over; or the strategy is
\* asked.
Decisions(h) ==
    (IF h.decision \in {"Sampled", "NotSampled"} THEN {h.decision} ELSE {"Sampled", "NotSampled"})
        \cup {d \in {"NotSampled"} : MayDisable}

\* BeginSegmentWithRequest, called by xrayhttp.Handler.
BeginSegmentWithRequest ==
    /\ Enter("http")
    /\ LET h == ParseTraceHeader(wire) IN
       \E d \in Decisions(h) : BeginSampled(h, d)

\* BeginSegmentWithHeader, for a message taken from a queue: the strategy
\* decides whatever the header says.
BeginSegmentWithHeader ==
    /\ Enter("queue")
    /\ \E d \in {"Sampled", "NotSampled"} : BeginSampled(ParseTraceHeader(wire), d)

\* External: the Lambda runtime puts the header, with a decision of its own
\* if there is none, into the context.
InvokeLambda ==
    /\ Enter("lambda")
    /\ LET h == ParseTraceHeader(wire) IN
       \E t \in IF h.trace = None THEN FreshTrace ELSE {h.trace},
          d \in {"Sampled", "NotSampled"} :
           /\ h.decision \in {"Sampled", "NotSampled"} => d = h.decision
           /\ ctx' = [NoContext EXCEPT
                        !.lambda = String([h EXCEPT !.trace = t, !.decision = d])]
           /\ first' = IF hop = 0 THEN [trace |-> t, decision |-> d] ELSE first
    /\ UNCHANGED segs

\* BeginSubsegmentAt under a segment.  The new segment has no traceHeader.
\* Under the dummy segment the context stays as it is, and without a segment
\* ContextMissing is told and the context stays as well.
BeginSubsegment ==
    /\ ctx.seg \in Segs
    /\ \E s \in FreshSeg :
          /\ segs' = [x \in DOMAIN segs \cup {s} |->
                        IF x = s THEN [trace |-> segs[ctx.seg].trace, root |-> segs[ctx.seg].root,
                                       hop |-> hop, header |-> NoHeader]
                        ELSE segs[x]]
          /\ ctx' = [ctx EXCEPT !.seg = s]
    /\ UNCHANGED <<hop, wire, first, entered>>

\* beginSubsegmentForLambda: a root of its own, always sampled.
BeginSubsegmentForLambda ==
    /\ ctx.seg = None /\ ctx.lambda # None
    /\ LET h == ParseTraceHeader(ctx.lambda) IN
       \E s \in FreshSeg, t \in IF h.trace = None THEN FreshTrace ELSE {h.trace} :
          /\ segs' = [x \in DOMAIN segs \cup {s} |->
                        IF x = s THEN [trace |-> t, root |-> s, hop |-> hop,
                                       header |-> [h EXCEPT !.trace = t,
                                                   !.decision = "Sampled"]]
                        ELSE segs[x]]
          /\ ctx' = [ctx EXCEPT !.seg = s]
    /\ UNCHANGED <<hop, wire, first, entered>>

\* ContextTraceID
ContextTraceID ==
    IF ctx.trace = None /\ ctx.lambda # None
    THEN ParseTraceHeader(ctx.lambda).trace ELSE ctx.trace

\* Faulty: the header that Lambda gave is passed on as it came.
HeaderPassedOn ==
    IF ctx.seg \in Segs
    THEN [segs[ctx.seg].header EXCEPT !.trace = segs[ctx.seg].trace, !.parent = ctx.seg]
    ELSE IF ctx.lambda # None THEN ParseTraceHeader(ctx.lambda)
    ELSE [NoHeader EXCEPT !.trace = ContextTraceID, !.decision = "NotSampled"]

\* Faulty: an unsampled service passes no trace id on.
HeaderWithoutTrace ==
    IF ctx.seg \in Segs
    THEN [segs[ctx.seg].header EXCEPT !.trace = segs[ctx.seg].trace, !.parent = ctx.seg]
    ELSE [NoHeader EXCEPT !.decision = "NotSampled"]

\* Faulty: an unsampled service passes no decision on.
HeaderWithoutDecision ==
    IF ctx.seg \in Segs
    THEN [segs[ctx.seg].header EXCEPT !.trace = segs[ctx.seg].trace, !.parent = ctx.seg]
    ELSE [NoHeader EXCEPT !.trace = ContextTraceID]

\* DownstreamHeader and Segment.downstreamHeader
DownstreamHeader ==
    IF ctx.seg \in Segs
    THEN [segs[ctx.seg].header EXCEPT !.trace = segs[ctx.seg].trace, !.parent = ctx.seg]
    ELSE [NoHeader EXCEPT !.trace = ContextTraceID, !.decision = "NotSampled"]

\* RoundTrip sets the header of the segment that makes the call, before it
\* begins the subsegment of the call itself.  The next service starts.
CallDownstream ==
    /\ ctx # NoContext
    /\ wire' = String(DownstreamHeader)
    /\ ctx' = NoContext
    /\ UNCHANGED <<hop, segs, first, entered>>

Next ==
    \/ BeginSegmentWithRequest
    \/ BeginSegmentWithHeader
    \/ InvokeLambda
    \/ BeginSubsegment
    \/ BeginSubsegmentForLambda
    \/ CallDownstream

Spec == Init /\ [][Next]_vars

----------------------------------------------------------------------------
\* Every variable holds a value of its type.
TypeOK ==
    /\ hop \in 0..MaxHops
    /\ ctx.trace \in TraceIDs \cup {None} /\ ctx.seg \in Segs \cup {None, "dummy"}
    /\ DOMAIN segs \subseteq Segs
    /\ \A s \in DOMAIN segs : /\ segs[s].trace \in TraceIDs
                              /\ segs[s].root \in DOMAIN segs
                              /\ segs[s].header \in Header
    /\ first.trace \in TraceIDs \cup {None} /\ first.decision \in Decision
    /\ entered \subseteq Entries

\* All segments of a request, in all services, carry the trace id of the
\* first, sampled or not in between.
OneTrace == \A s \in DOMAIN segs : segs[s].trace = first.trace

\* The parent a service reports for its root (serialize's ParentID) is a
\* sampled segment of the service before it, so the trace has no dangling
\* parent: an unsampled service passes no parent on.
ParentIsCaller ==
    \A s \in DOMAIN segs : LET p == segs[s].header.parent IN
        p # None => p \in DOMAIN segs /\ segs[p].hop + 1 = segs[s].hop

\* A request that the first service decided not to sample is sampled by no
\* service behind it, as long as it travels by HTTP: a consumer of a queue
\* decides anew, and a Lambda function samples every subsegment it begins.
NotSampledStays ==
    (first.decision = "NotSampled" /\ entered \subseteq {"http"}) => DOMAIN segs = {}

\* "If a sampling decision is made by the root service, it will be passed to
\* downstream services through the trace header": no service that a sampled
\* request reaches leaves it out.
SampledStays == (first.decision = "Sampled" /\ ctx.trace # None) => ctx.seg # "dummy"

\* What FuzzParseTraceHeader tests, of every header in play: it survives String
\* and ParseTraceHeader, with or without what a load balancer adds to it.
RoundTrips ==
    \A h \in ClientHeader \cup {segs[s].header : s \in DOMAIN segs} \cup {DownstreamHeader},
       self \in SUBSET {<<"Self", "lb">>} :
           ParseTraceHeader(String(h) \cup self) = h
=============================================================================
