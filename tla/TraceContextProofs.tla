------------------------ MODULE TraceContextProofs ------------------------
(***************************************************************************)
(* What a header carries from service to service, for any number of        *)
(* services, however a request enters each of them.                        *)
(***************************************************************************)
EXTENDS TraceContext, TLAPS

Segment == [trace : TraceIDs, root : Segs, hop : Nat, header : Header]

\* The types that TypeOK leaves open.
Typed ==
    /\ hop \in 0..MaxHops
    /\ ctx \in [trace : TraceIDs \cup {None}, seg : Segs \cup {None, "dummy"},
                lambda : {String(h) : h \in Header} \cup {None}]
    /\ DOMAIN segs \subseteq Segs /\ segs \in [DOMAIN segs -> Segment]
    /\ \A s \in DOMAIN segs : segs[s].root \in DOMAIN segs /\ segs[s].hop <= hop
    /\ first \in [trace : TraceIDs \cup {None}, decision : Decision]
    /\ entered \subseteq Entries

\* Before the first service there is no trace, and then there is one.
Started ==
    /\ hop = 0 => ctx = NoContext /\ DOMAIN segs = {}
    /\ hop > 0 => first.trace \in TraceIDs

\* The parent that a header names for a segment of service n.
ParentOK(h, n) == h.parent # None => h.parent \in DOMAIN segs /\ segs[h.parent].hop + 1 = n

\* Is the decision not to sample made for good?
Unsampled == first.decision = "NotSampled" /\ entered \subseteq {"http"}

\* The header on its way to the next service, or what a client outside sends.
Arriving(h) ==
    /\ hop > 0 => h.trace = first.trace
    /\ ParentOK(h, hop + 1)
    /\ hop > 0 /\ Unsampled => h.decision = "NotSampled"

WireHolds ==
    ctx = NoContext =>
        \E h \in Header, self \in SUBSET {<<"Self", "lb">>} :
            wire = String(h) \cup self /\ Arriving(h)

\* What the running service knows of the trace.
ContextHolds ==
    /\ ctx # NoContext => ctx.trace # None \/ ctx.lambda # None
    /\ ctx.trace # None => ctx.trace = first.trace
    /\ ctx.lambda # None =>
          \E h \in Header : ctx.lambda = String(h) /\ h.trace = first.trace /\ ParentOK(h, hop)
    /\ ctx.seg \in Segs => ctx.seg \in DOMAIN segs /\ segs[ctx.seg].hop = hop

\* An unsampled request leaves nothing that could sample it again.
UnsampledHolds == Unsampled => DOMAIN segs = {} /\ ctx.lambda = None

\* The inductive invariant.
IInv ==
    /\ Typed /\ Started /\ WireHolds /\ ContextHolds /\ UnsampledHolds
    /\ OneTrace /\ ParentIsCaller

----------------------------------------------------------------------------
\* The value of a key is that of a parameter with the key, or the default.
LEMMA ValueIs ==
  ASSUME NEW w, NEW k, NEW default
  PROVE  \/ \E v \in w : v[1] = k /\ Value(w, k, default) = v[2]
         \/ (\A v \in w : v[1] # k) /\ Value(w, k, default) = default
BY DEF Value

\* A header survives String and ParseTraceHeader, whatever a load balancer adds.
LEMMA RoundTrip ==
  ASSUME NEW h \in Header, NEW self \in SUBSET {<<"Self", "lb">>}
  PROVE  ParseTraceHeader(String(h) \cup self) = h
<1> DEFINE w == String(h) \cup self
<1>1. ASSUME NEW v \in w
      PROVE  \/ v[1] = "Root" /\ v[2] = h.trace /\ h.trace # None
             \/ v[1] = "Parent" /\ v[2] = h.parent /\ h.parent # None
             \/ v[1] = "Sampled" /\ v[2] = Flag[h.decision] /\ h.decision # "Unknown"
             \/ v[1] = "extra" /\ h.extra # FALSE
             \/ v[1] = "Self"
  <2>1. CASE v = <<"Root", h.trace>> /\ h.trace # None
    <3>1. v[1] = "Root" /\ v[2] = h.trace
      BY <2>1
    <3> QED
      BY <2>1, <3>1
  <2>2. CASE v = <<"Parent", h.parent>> /\ h.parent # None
    BY <2>2
  <2>3. CASE v = <<"Sampled", Flag[h.decision]>> /\ h.decision # "Unknown"
    BY <2>3
  <2>4. CASE v = <<"extra", "data">> /\ h.extra # FALSE
    BY <2>4
  <2>5. CASE v = <<"Self", "lb">>
    BY <2>5
  <2> QED
    BY <2>1, <2>2, <2>3, <2>4, <2>5 DEF String
<1>2. /\ h.trace # None => \E v \in w : v[1] = "Root"
      /\ h.parent # None => \E v \in w : v[1] = "Parent"
      /\ h.decision # "Unknown" => \E v \in w : v[1] = "Sampled"
      /\ h.extra # FALSE => \E v \in w : v[1] = "extra"
  <2>1. /\ h.trace # None => <<"Root", h.trace>> \in w
        /\ h.parent # None => <<"Parent", h.parent>> \in w
        /\ h.decision # "Unknown" => <<"Sampled", Flag[h.decision]>> \in w
        /\ h.extra # FALSE => <<"extra", "data">> \in w
    BY DEF String
  <2> HIDE DEF w
  <2>2. h.trace # None => \E v \in w : v[1] = "Root"
    BY <2>1
  <2>3. h.parent # None => \E v \in w : v[1] = "Parent"
    BY <2>1
  <2>4. h.decision # "Unknown" => \E v \in w : v[1] = "Sampled"
    BY <2>1
  <2>5. h.extra # FALSE => \E v \in w : v[1] = "extra"
    BY <2>1
  <2> QED
    BY <2>2, <2>3, <2>4, <2>5
<1> HIDE DEF w
<1>3. Value(w, "Root", None) = h.trace
  <2>1. \/ \E v \in w : v[1] = "Root" /\ Value(w, "Root", None) = v[2]
        \/ (\A v \in w : v[1] # "Root") /\ Value(w, "Root", None) = None
    BY ValueIs
  <2> QED
    BY <1>1, <1>2, <2>1
<1>4. Value(w, "Parent", None) = h.parent
  <2>1. \/ \E v \in w : v[1] = "Parent" /\ Value(w, "Parent", None) = v[2]
        \/ (\A v \in w : v[1] # "Parent") /\ Value(w, "Parent", None) = None
    BY ValueIs
  <2> QED
    BY <1>1, <1>2, <2>1
<1>5. (IF \E d \in DOMAIN Flag : Flag[d] = Value(w, "Sampled", "")
       THEN CHOOSE d \in DOMAIN Flag : Flag[d] = Value(w, "Sampled", "")
       ELSE "Unknown") = h.decision
  <2>1. DOMAIN Flag = {"Sampled", "NotSampled", "Requested"}
        /\ Flag["Sampled"] = "1" /\ Flag["NotSampled"] = "0" /\ Flag["Requested"] = "?"
    BY DEF Flag
  <2>0. \/ \E v \in w : v[1] = "Sampled" /\ Value(w, "Sampled", "") = v[2]
        \/ (\A v \in w : v[1] # "Sampled") /\ Value(w, "Sampled", "") = ""
    BY ValueIs
  <2>2. CASE h.decision = "Unknown"
    <3>1. Value(w, "Sampled", "") = ""
      BY <1>1, <2>0, <2>2
    <3> QED
      BY <2>1, <2>2, <3>1
  <2>3. CASE h.decision # "Unknown"
    <3>1. h.decision \in DOMAIN Flag
      BY <2>1, <2>3 DEF Header, Decision
    <3>2. Value(w, "Sampled", "") = Flag[h.decision]
      BY <1>1, <1>2, <2>0, <2>3
    <3> QED
      BY <2>1, <3>1, <3>2
  <2> QED
    BY <2>2, <2>3
<1>6. (\E v \in w : v[1] \notin {"Root", "Parent", "Sampled", "Self"}) = h.extra
  <2>1. CASE h.extra = TRUE
    BY <1>2, <2>1
  <2>2. CASE h.extra = FALSE
    BY <1>1, <2>2
  <2> QED
    BY <2>1, <2>2 DEF Header
<1>7. ParseTraceHeader(w) = [trace |-> h.trace, parent |-> h.parent,
                             decision |-> h.decision, extra |-> h.extra]
  BY <1>3, <1>4, <1>5, <1>6 DEF ParseTraceHeader
<1> QED
  BY <1>7 DEF Header, w

\* The same for a text that nothing was added to.
LEMMA RoundTripAlone == \A h \in Header : ParseTraceHeader(String(h)) = h
<1> SUFFICES ASSUME NEW h \in Header PROVE ParseTraceHeader(String(h)) = h
  OBVIOUS
<1>1. String(h) \cup {} = String(h) /\ {} \in SUBSET {<<"Self", "lb">>}
  OBVIOUS
<1> QED
  BY <1>1, RoundTrip

----------------------------------------------------------------------------
\* What the next service reads.
LEMMA Arrived ==
  ASSUME IInv, ctx = NoContext
  PROVE  ParseTraceHeader(wire) \in Header /\ Arriving(ParseTraceHeader(wire))
<1> PICK h \in Header, self \in SUBSET {<<"Self", "lb">>} :
           wire = String(h) \cup self /\ Arriving(h)
  BY DEF IInv, WireHolds
<1> QED
  BY RoundTrip

\* What a Lambda function reads from its context.
LEMMA InLambda ==
  ASSUME IInv, ctx.lambda # None
  PROVE  LET h == ParseTraceHeader(ctx.lambda) IN
         h \in Header /\ h.trace = first.trace /\ ParentOK(h, hop)
BY RoundTripAlone DEF IInv, ContextHolds

\* What the running service sends.
LEMMA Sent ==
  ASSUME IInv
  PROVE  /\ DownstreamHeader \in Header
         /\ ctx # NoContext => Arriving(DownstreamHeader)
<1> USE DEF IInv, Typed
<1>1. CASE ctx.seg \in Segs
  <2> DEFINE g == segs[ctx.seg]
  <2>1. ctx.seg \in DOMAIN segs /\ g \in Segment /\ g.hop = hop /\ g.trace = first.trace
    BY <1>1 DEF ContextHolds, OneTrace
  <2>2. DownstreamHeader = [g.header EXCEPT !.trace = g.trace, !.parent = ctx.seg]
    BY <1>1 DEF DownstreamHeader
  <2>3. /\ DownstreamHeader \in Header
        /\ DownstreamHeader.trace = first.trace /\ DownstreamHeader.parent = ctx.seg
    BY <1>1, <2>1, <2>2 DEF Segment, Header
  <2>4. ~Unsampled
    BY <2>1 DEF UnsampledHolds
  <2> QED
    BY <2>1, <2>3, <2>4 DEF Arriving, ParentOK
<1>2. CASE ctx.seg \notin Segs
  <2>1. DownstreamHeader = [NoHeader EXCEPT !.trace = ContextTraceID, !.decision = "NotSampled"]
    BY <1>2 DEF DownstreamHeader
  <2>2. ContextTraceID \in TraceIDs \cup {None}
    BY InLambda DEF ContextTraceID, Header
  <2>3. ctx # NoContext => ContextTraceID = first.trace
    BY InLambda DEF ContextTraceID, ContextHolds
  <2>4. /\ DownstreamHeader \in Header
        /\ DownstreamHeader.trace = ContextTraceID
        /\ DownstreamHeader.parent = None /\ DownstreamHeader.decision = "NotSampled"
    BY <2>1, <2>2 DEF NoHeader, Header, Decision
  <2> QED
    BY <2>3, <2>4 DEF Arriving, ParentOK
<1> QED
  BY <1>1, <1>2

\* A segment that is begun leaves the others as they are.
Adds(s, g) == segs' = [x \in DOMAIN segs \cup {s} |-> IF x = s THEN g ELSE segs[x]]

LEMMA SegmentAdded ==
  ASSUME IInv, NEW s \in FreshSeg, NEW g \in Segment,
         Adds(s, g)
  PROVE  /\ s \in Segs \ DOMAIN segs /\ DOMAIN segs' = DOMAIN segs \cup {s}
         /\ segs'[s] = g /\ \A x \in DOMAIN segs : segs'[x] = segs[x]
         /\ segs' \in [DOMAIN segs' -> Segment]
         /\ \A h, n : ParentOK(h, n) => ParentOK(h, n)'
<1>1. s \in Segs \ DOMAIN segs /\ DOMAIN segs' = DOMAIN segs \cup {s}
      /\ segs'[s] = g /\ \A x \in DOMAIN segs : segs'[x] = segs[x]
  BY DEF FreshSeg, Adds
<1>2. \A x \in DOMAIN segs : segs[x] \in Segment
  BY DEF IInv, Typed
<1>3. segs' \in [DOMAIN segs' -> Segment]
  BY <1>1, <1>2 DEF Adds
<1>4. \A h, n : ParentOK(h, n) => ParentOK(h, n)'
  BY <1>1 DEF ParentOK
<1> QED
  BY <1>1, <1>3, <1>4

----------------------------------------------------------------------------
\* A root is begun for the header h, after the decision d.
LEMMA BeginSampledKeeps ==
  ASSUME IInv, NEW e, Enter(e), NEW h \in Header, Arriving(h),
         NEW d \in {"Sampled", "NotSampled"}, BeginSampled(h, d),
         e = "http" /\ h.decision = "NotSampled" => d = "NotSampled"
  PROVE  IInv'
<1> USE NoneAssumption, HopsAssumption
<1>1. /\ hop' = hop + 1 /\ hop \in Nat /\ hop' \in 1..MaxHops /\ ctx = NoContext
      /\ entered' = entered \cup {e} /\ e \in Entries
  BY DEF Enter, IInv, Typed
<1>p. PICK t \in IF h.trace = None THEN FreshTrace ELSE {h.trace} :
        /\ first' = IF hop = 0 THEN [trace |-> t, decision |-> d] ELSE first
        /\ \/ /\ d = "Sampled"
              /\ \E s \in FreshSeg :
                    /\ segs' = [x \in DOMAIN segs \cup {s} |->
                                  IF x = s THEN [trace |-> t, root |-> s, hop |-> hop + 1,
                                                 header |-> [h EXCEPT !.trace = t,
                                                             !.decision = "Sampled"]]
                                  ELSE segs[x]]
                    /\ ctx' = [trace |-> t, seg |-> s, lambda |-> None]
           \/ /\ d = "NotSampled"
              /\ ctx' = [trace |-> t, seg |-> "dummy", lambda |-> None]
              /\ UNCHANGED segs
  BY DEF BeginSampled
<1>2. t \in TraceIDs /\ (hop > 0 => t = first.trace)
  BY <1>p DEF FreshTrace, Arriving, Header, IInv, Started
<1>3. first'.trace = t /\ first' \in [trace : TraceIDs \cup {None}, decision : Decision]
  BY <1>p, <1>1, <1>2 DEF IInv, Typed, Decision
<1>4. Unsampled' => d = "NotSampled" /\ DOMAIN segs = {}
  <2>1. CASE hop = 0
    BY <1>p, <2>1 DEF Unsampled, IInv, Started
  <2>2. CASE hop > 0
    <3>1. Unsampled' => Unsampled /\ e = "http"
      BY <1>p, <1>1, <2>2 DEF Unsampled
    <3> QED
      BY <2>2, <3>1 DEF Arriving, IInv, UnsampledHolds
  <2> QED
    BY <1>1, <2>1, <2>2
<1>5. \A x \in DOMAIN segs : /\ segs[x] \in Segment /\ segs[x].root \in DOMAIN segs
                             /\ segs[x].hop \in Nat /\ segs[x].hop <= hop'
  <2>1. \A x \in DOMAIN segs : segs[x] \in Segment /\ segs[x].hop <= hop
    BY DEF IInv, Typed
  <2> QED
    BY <1>1, <2>1 DEF IInv, Typed, Segment
<1>6. \A x \in DOMAIN segs : segs[x].trace = t
  BY <1>1, <1>2 DEF IInv, OneTrace, Started
<1>7. CASE d = "NotSampled"
  <2>1. /\ segs' = segs /\ ctx' = [trace |-> t, seg |-> "dummy", lambda |-> None]
    BY <1>p, <1>7
  <2>2. ctx' # NoContext /\ ctx'.trace = t /\ ctx'.seg \notin Segs /\ ctx'.lambda = None
    BY <1>2, <2>1 DEF NoContext
  <2>3. Typed'
    <3>1. ctx' \in [trace : TraceIDs \cup {None}, seg : Segs \cup {None, "dummy"},
                   lambda : {String(k) : k \in Header} \cup {None}]
      BY <1>2, <2>1
    <3> QED
      BY <1>1, <1>3, <1>5, <2>1, <3>1 DEF IInv, Typed
  <2>4. WireHolds' /\ ContextHolds' /\ Started'
    BY <1>1, <1>2, <1>3, <2>2 DEF WireHolds, ContextHolds, Started
  <2>5. UnsampledHolds' /\ OneTrace' /\ ParentIsCaller'
    BY <1>3, <1>4, <1>6, <2>1, <2>2 DEF IInv, UnsampledHolds, OneTrace, ParentIsCaller
  <2> QED
    BY <2>3, <2>4, <2>5 DEF IInv
<1>8. CASE d = "Sampled"
  <2>p. PICK s \in FreshSeg :
        /\ segs' = [x \in DOMAIN segs \cup {s} |->
                      IF x = s THEN [trace |-> t, root |-> s, hop |-> hop + 1,
                                     header |-> [h EXCEPT !.trace = t, !.decision = "Sampled"]]
                      ELSE segs[x]]
        /\ ctx' = [trace |-> t, seg |-> s, lambda |-> None]
    BY <1>p, <1>8
  <2> DEFINE k == [h EXCEPT !.trace = t, !.decision = "Sampled"]
             g == [trace |-> t, root |-> s, hop |-> hop + 1, header |-> k]
  <2>1. /\ g \in Segment /\ g.header = k /\ g.trace = t /\ g.root = s /\ g.hop = hop'
        /\ k.parent = h.parent
    <3>0. "Sampled" \in Decision
      BY DEF Decision
    <3>1. k \in Header /\ k.parent = h.parent
      BY <1>2, <3>0 DEF Header
    <3>2. s \in Segs /\ hop + 1 \in Nat
      BY <1>1 DEF FreshSeg
    <3> HIDE DEF k
    <3> QED
      BY <1>1, <1>2, <3>1, <3>2 DEF Segment
  <2> HIDE DEF g, k
  <2>2. /\ s \in Segs \ DOMAIN segs /\ DOMAIN segs' = DOMAIN segs \cup {s}
        /\ segs'[s] = g /\ \A x \in DOMAIN segs : segs'[x] = segs[x]
        /\ segs' \in [DOMAIN segs' -> Segment]
    <3>1. Adds(s, g)
      BY <2>p DEF Adds, g, k
    <3> QED
      BY <2>1, <3>1, SegmentAdded
  <2>3. ctx' # NoContext /\ ctx'.trace = t /\ ctx'.seg = s /\ ctx'.lambda = None
    BY <1>2, <2>p DEF NoContext
  <2>4. Typed'
    <3>1. ctx' \in [trace : TraceIDs \cup {None}, seg : Segs \cup {None, "dummy"},
                   lambda : {String(i) : i \in Header} \cup {None}]
      BY <1>2, <2>p, <2>2
    <3>2. \A x \in DOMAIN segs' : segs'[x].root \in DOMAIN segs' /\ segs'[x].hop <= hop'
      BY <1>1, <1>5, <2>1, <2>2
    <3>3. DOMAIN segs' \subseteq Segs /\ entered' \subseteq Entries /\ hop' \in 0..MaxHops
      BY <1>1, <2>2 DEF IInv, Typed
    <3> QED
      BY <1>3, <2>2, <3>1, <3>2, <3>3 DEF Typed
  <2>5. WireHolds' /\ ContextHolds' /\ Started'
    BY <1>1, <1>2, <1>3, <2>1, <2>2, <2>3 DEF WireHolds, ContextHolds, Started
  <2>6. UnsampledHolds' /\ OneTrace'
    BY <1>3, <1>4, <1>6, <1>8, <2>1, <2>2 DEF UnsampledHolds, OneTrace
  <2>7. ParentIsCaller'
    <3>1. ASSUME NEW x \in DOMAIN segs, segs[x].header.parent # None
          PROVE  LET p == segs[x].header.parent IN
                 p \in DOMAIN segs' /\ segs'[p].hop + 1 = segs'[x].hop
      BY <2>2, <3>1 DEF IInv, ParentIsCaller
    <3>2. h.parent # None => /\ h.parent \in DOMAIN segs'
                             /\ segs'[h.parent].hop + 1 = segs'[s].hop
      BY <1>1, <2>1, <2>2 DEF Arriving, ParentOK
    <3> QED
      BY <2>1, <2>2, <3>1, <3>2 DEF ParentIsCaller
  <2> QED
    BY <2>4, <2>5, <2>6, <2>7 DEF IInv
<1> QED
  BY <1>7, <1>8

\* The Lambda runtime is given the header h.
LEMMA InvokeLambdaKeeps ==
  ASSUME IInv, InvokeLambda
  PROVE  IInv'
<1> USE NoneAssumption, HopsAssumption
<1> DEFINE h == ParseTraceHeader(wire)
<1>1. /\ hop' = hop + 1 /\ hop \in Nat /\ hop' \in 1..MaxHops /\ ctx = NoContext
      /\ entered' = entered \cup {"lambda"} /\ "lambda" \in Entries /\ segs' = segs
  BY DEF InvokeLambda, Enter, IInv, Typed
<1>2. h \in Header /\ Arriving(h)
  BY <1>1, Arrived
<1>3. PICK t \in IF h.trace = None THEN FreshTrace ELSE {h.trace}, d \in {"Sampled", "NotSampled"} :
         /\ ctx' = [NoContext EXCEPT !.lambda = String([h EXCEPT !.trace = t, !.decision = d])]
         /\ first' = IF hop = 0 THEN [trace |-> t, decision |-> d] ELSE first
  BY DEF InvokeLambda
<1> HIDE DEF h
<1>4. t \in TraceIDs /\ (hop > 0 => t = first.trace)
  BY <1>2, <1>3 DEF FreshTrace, Arriving, Header, IInv, Started
<1>5. first'.trace = t /\ first' \in [trace : TraceIDs \cup {None}, decision : Decision]
  BY <1>1, <1>3, <1>4 DEF IInv, Typed, Decision
<1> DEFINE k == [h EXCEPT !.trace = t, !.decision = d]
<1>6. k \in Header /\ k.trace = t /\ k.parent = h.parent
  <2>1. d \in Decision
    BY DEF Decision
  <2> QED
    BY <1>2, <1>4, <2>1 DEF Header
<1>7. ctx' = [trace |-> None, seg |-> None, lambda |-> String(k)]
  BY <1>3 DEF NoContext
<1> HIDE DEF k
<1>8. ctx'.lambda # None /\ ctx' # NoContext
  BY <1>6, <1>7, TextAssumption DEF NoContext
<1>9. ~Unsampled'
  BY <1>1 DEF Unsampled
<1>10. Typed'
  <2>1. ctx' \in [trace : TraceIDs \cup {None}, seg : Segs \cup {None, "dummy"},
                 lambda : {String(i) : i \in Header} \cup {None}]
    BY <1>6, <1>7
  <2>2. \A x \in DOMAIN segs : segs[x].hop \in Nat /\ segs[x].hop <= hop
    BY DEF IInv, Typed, Segment
  <2> QED
    BY <1>1, <1>5, <2>1, <2>2 DEF IInv, Typed
<1>11. ContextHolds'
  <2>1. k.parent # None => k.parent \in DOMAIN segs' /\ segs'[k.parent].hop + 1 = hop'
    BY <1>1, <1>2, <1>6 DEF Arriving, ParentOK
  <2>2. ctx'.trace = None /\ ctx'.seg = None /\ ctx'.lambda = String(k)
    BY <1>7
  <2>3. \E i \in Header : /\ ctx'.lambda = String(i) /\ i.trace = first'.trace
                          /\ i.parent # None => /\ i.parent \in DOMAIN segs'
                                                /\ segs'[i.parent].hop + 1 = hop'
    BY <1>5, <1>6, <2>1, <2>2
  <2> QED
    BY <1>8, <2>2, <2>3 DEF ContextHolds, ParentOK
<1>12. OneTrace'
  BY <1>1, <1>4, <1>5 DEF IInv, Started, OneTrace
<1> QED
  BY <1>1, <1>4, <1>5, <1>8, <1>9, <1>10, <1>11, <1>12
  DEF IInv, WireHolds, Started, UnsampledHolds, ParentIsCaller

\* A subsegment, or a root below the context of Lambda, is begun.
LEMMA SubsegmentKeeps ==
  ASSUME IInv, ctx # NoContext, ~Unsampled, UNCHANGED <<hop, wire, first, entered>>,
         NEW s \in FreshSeg, NEW g \in Segment, Adds(s, g), ctx' = [ctx EXCEPT !.seg = s],
         g.trace = first.trace, g.hop = hop, g.root \in DOMAIN segs \cup {s},
         ParentOK(g.header, hop)
  PROVE  IInv'
<1> USE NoneAssumption
<1>1. /\ s \in Segs \ DOMAIN segs /\ DOMAIN segs' = DOMAIN segs \cup {s}
      /\ segs'[s] = g /\ \A x \in DOMAIN segs : segs'[x] = segs[x]
      /\ segs' \in [DOMAIN segs' -> Segment]
      /\ \A k, n : ParentOK(k, n) => ParentOK(k, n)'
  BY SegmentAdded
<1>2. ~Unsampled'
  BY DEF Unsampled
<1>3. ctx'.trace = ctx.trace /\ ctx'.lambda = ctx.lambda /\ ctx'.seg = s
  BY DEF IInv, Typed
<1>4. hop # 0 /\ hop \in Nat
  BY HopsAssumption DEF IInv, Started, Typed
<1>5. Typed'
  <2>1. ctx' \in [trace : TraceIDs \cup {None}, seg : Segs \cup {None, "dummy"},
                 lambda : {String(i) : i \in Header} \cup {None}]
    BY <1>1 DEF IInv, Typed
  <2>2. \A x \in DOMAIN segs' : segs'[x].root \in DOMAIN segs' /\ segs'[x].hop <= hop'
    BY <1>1, <1>4 DEF IInv, Typed
  <2>3. DOMAIN segs' \subseteq Segs /\ entered' \subseteq Entries /\ hop' \in 0..MaxHops
    BY <1>1 DEF IInv, Typed
  <2> QED
    BY <1>1, <2>1, <2>2, <2>3 DEF IInv, Typed
<1>6. ContextHolds'
  <2>1. ctx'.lambda # None =>
           \E h \in Header : /\ ctx'.lambda = String(h) /\ h.trace = first'.trace
                            /\ ParentOK(h, hop)'
    BY <1>1, <1>3 DEF IInv, ContextHolds, ParentOK
  <2> QED
    BY <1>1, <1>3, <1>4, <2>1 DEF IInv, ContextHolds, NoContext, Typed
<1>7. WireHolds' /\ Started' /\ UnsampledHolds'
  <2>1. ctx' # NoContext
    BY <1>1, <1>3 DEF NoContext
  <2> QED
    BY <1>2, <1>4, <2>1 DEF IInv, WireHolds, Started, UnsampledHolds
<1>8. OneTrace'
  BY <1>1 DEF IInv, OneTrace
<1>9. ParentIsCaller'
  <2>1. g.header.parent # None => /\ g.header.parent \in DOMAIN segs
                                  /\ segs[g.header.parent].hop + 1 = hop
    BY DEF ParentOK
  <2> QED
    BY <1>1, <2>1 DEF IInv, ParentIsCaller
<1> QED
  BY <1>5, <1>6, <1>7, <1>8, <1>9 DEF IInv

----------------------------------------------------------------------------
LEMMA BeginSubsegmentKeeps ==
  ASSUME IInv, BeginSubsegment
  PROVE  IInv'
<1>1. PICK s \in FreshSeg :
         /\ segs' = [x \in DOMAIN segs \cup {s} |->
                       IF x = s THEN [trace |-> segs[ctx.seg].trace, root |-> segs[ctx.seg].root,
                                      hop |-> hop, header |-> NoHeader]
                       ELSE segs[x]]
         /\ ctx' = [ctx EXCEPT !.seg = s]
  BY DEF BeginSubsegment
<1>2. ctx.seg \in Segs /\ UNCHANGED <<hop, wire, first, entered>>
  BY DEF BeginSubsegment
<1>3. ctx.seg \in DOMAIN segs /\ segs[ctx.seg] \in Segment
      /\ segs[ctx.seg].trace = first.trace /\ segs[ctx.seg].root \in DOMAIN segs
  BY <1>2 DEF IInv, ContextHolds, Typed, OneTrace
<1> DEFINE g == [trace |-> segs[ctx.seg].trace, root |-> segs[ctx.seg].root,
                 hop |-> hop, header |-> NoHeader]
<1>4. Adds(s, g)
  BY <1>1 DEF Adds
<1>5. /\ g \in Segment /\ g.trace = first.trace /\ g.hop = hop /\ g.root \in DOMAIN segs
      /\ g.header.parent = None
  <2>1. NoHeader \in Header /\ NoHeader.parent = None
    BY DEF NoHeader, Header, Decision
  <2>2. hop \in Nat
    BY HopsAssumption DEF IInv, Typed
  <2> QED
    BY <1>3, <2>1, <2>2 DEF Segment
<1> HIDE DEF g
<1>6. ctx # NoContext /\ ~Unsampled
  BY <1>2, <1>3, NoneAssumption DEF NoContext, IInv, UnsampledHolds
<1>7. ParentOK(g.header, hop)
  BY <1>5 DEF ParentOK
<1> QED
  BY <1>1, <1>2, <1>4, <1>5, <1>6, <1>7, SubsegmentKeeps

LEMMA BeginForLambdaKeeps ==
  ASSUME IInv, BeginSubsegmentForLambda
  PROVE  IInv'
<1> DEFINE h == ParseTraceHeader(ctx.lambda)
<1>1. PICK s \in FreshSeg, t \in IF h.trace = None THEN FreshTrace ELSE {h.trace} :
         /\ segs' = [x \in DOMAIN segs \cup {s} |->
                       IF x = s THEN [trace |-> t, root |-> s, hop |-> hop,
                                      header |-> [h EXCEPT !.trace = t, !.decision = "Sampled"]]
                       ELSE segs[x]]
         /\ ctx' = [ctx EXCEPT !.seg = s]
  BY DEF BeginSubsegmentForLambda
<1>2. ctx.lambda # None /\ UNCHANGED <<hop, wire, first, entered>>
  BY DEF BeginSubsegmentForLambda
<1>3. h \in Header /\ h.trace = first.trace /\ ParentOK(h, hop)
  BY <1>2, InLambda
<1> HIDE DEF h
<1>4. ctx # NoContext /\ ~Unsampled
  BY <1>2 DEF NoContext, IInv, UnsampledHolds
<1>5. t = first.trace /\ t \in TraceIDs
  BY <1>1, <1>3, <1>4, NoneAssumption, HopsAssumption DEF IInv, Started, Typed
<1> DEFINE k == [h EXCEPT !.trace = t, !.decision = "Sampled"]
           g == [trace |-> t, root |-> s, hop |-> hop, header |-> k]
<1>6. Adds(s, g)
  BY <1>1 DEF Adds
<1>7. k \in Header /\ k.parent = h.parent
  <2>1. "Sampled" \in Decision
    BY DEF Decision
  <2> QED
    BY <1>3, <1>5, <2>1 DEF Header
<1> HIDE DEF k
<1>8. g \in Segment /\ g.trace = first.trace /\ g.hop = hop /\ g.root = s /\ g.header = k
  <2>1. hop \in Nat /\ s \in Segs
    BY HopsAssumption DEF IInv, Typed, FreshSeg
  <2> QED
    BY <1>5, <1>7, <2>1 DEF Segment
<1> HIDE DEF g
<1>9. ParentOK(g.header, hop)
  BY <1>3, <1>7, <1>8 DEF ParentOK
<1> QED
  BY <1>1, <1>2, <1>4, <1>6, <1>8, <1>9, SubsegmentKeeps

LEMMA CallDownstreamKeeps ==
  ASSUME IInv, CallDownstream
  PROVE  IInv'
<1>1. /\ ctx # NoContext /\ wire' = String(DownstreamHeader) /\ ctx' = NoContext
      /\ UNCHANGED <<hop, segs, first, entered>>
  BY DEF CallDownstream
<1> DEFINE h == DownstreamHeader
<1>2. h \in Header /\ Arriving(h)
  BY <1>1, Sent
<1> HIDE DEF h
<1>3. WireHolds'
  <2>1. wire' = String(h) \cup {}
    BY <1>1 DEF h
  <2>2. {} \in SUBSET {<<"Self", "lb">>}
    OBVIOUS
  <2>3. /\ hop' > 0 => h.trace = first'.trace
        /\ h.parent # None => h.parent \in DOMAIN segs' /\ segs'[h.parent].hop + 1 = hop' + 1
        /\ hop' > 0 /\ Unsampled' => h.decision = "NotSampled"
    BY <1>1, <1>2 DEF Arriving, ParentOK, Unsampled
  <2> QED
    BY <1>2, <2>1, <2>2, <2>3 DEF WireHolds, Arriving, ParentOK
<1>4. Typed' /\ Started' /\ ContextHolds' /\ UnsampledHolds'
  BY <1>1, NoneAssumption
  DEF IInv, Typed, Started, ContextHolds, UnsampledHolds, Unsampled, NoContext
<1>5. OneTrace' /\ ParentIsCaller'
  BY <1>1 DEF IInv, OneTrace, ParentIsCaller
<1> QED
  BY <1>3, <1>4, <1>5 DEF IInv

LEMMA InitIInv == Init => IInv
<1> SUFFICES ASSUME Init PROVE IInv
  OBVIOUS
<1> USE NoneAssumption, HopsAssumption DEF Init
<1>1. DOMAIN segs = {} /\ segs \in [DOMAIN segs -> Segment]
  OBVIOUS
<1>2. ctx \in [trace : TraceIDs \cup {None}, seg : Segs \cup {None, "dummy"},
              lambda : {String(h) : h \in Header} \cup {None}]
  BY DEF NoContext
<1>3. Typed
  BY <1>1, <1>2 DEF Typed, Decision
<1>4. WireHolds
  <2>1. PICK h \in ClientHeader, self \in SUBSET {<<"Self", "lb">>} : wire = String(h) \cup self
    OBVIOUS
  <2>2. h \in Header /\ h.parent = None
    BY DEF ClientHeader, Header
  <2>3. Arriving(h)
    BY <2>2 DEF Arriving, ParentOK
  <2> QED
    BY <2>1, <2>2, <2>3 DEF WireHolds
<1> QED
  BY <1>1, <1>3, <1>4
  DEF IInv, Started, ContextHolds, UnsampledHolds, OneTrace, ParentIsCaller, NoContext, Unsampled

LEMMA StutterKeeps == IInv /\ UNCHANGED vars => IInv'
<1> SUFFICES ASSUME IInv, UNCHANGED vars PROVE IInv'
  OBVIOUS
<1>1. /\ hop' = hop /\ ctx' = ctx /\ segs' = segs
      /\ wire' = wire /\ first' = first /\ entered' = entered
  BY DEF vars
<1>2. Typed'
  BY <1>1 DEF IInv, Typed
<1>3. Started' /\ UnsampledHolds'
  BY <1>1 DEF IInv, Started, UnsampledHolds, Unsampled
<1>4. WireHolds'
  <2>1. \A h \in Header : Arriving(h) => Arriving(h)'
    BY <1>1 DEF Arriving, ParentOK, Unsampled
  <2> QED
    BY <1>1, <2>1 DEF IInv, WireHolds
<1>5. ContextHolds'
  <2>1. \A h \in Header : ParentOK(h, hop) => ParentOK(h, hop)'
    BY <1>1 DEF ParentOK
  <2> QED
    BY <1>1, <2>1 DEF IInv, ContextHolds
<1>6. OneTrace' /\ ParentIsCaller'
  BY <1>1 DEF IInv, OneTrace, ParentIsCaller
<1> QED
  BY <1>2, <1>3, <1>4, <1>5, <1>6 DEF IInv

LEMMA IInvStep == IInv /\ [Next]_vars => IInv'
<1> SUFFICES ASSUME IInv, [Next]_vars PROVE IInv'
  OBVIOUS
<1>1. CASE BeginSegmentWithRequest
  <2> DEFINE h == ParseTraceHeader(wire)
  <2>1. Enter("http") /\ ctx = NoContext /\ \E d \in Decisions(h) : BeginSampled(h, d)
    BY <1>1 DEF BeginSegmentWithRequest, Enter
  <2>2. h \in Header /\ Arriving(h)
    BY <2>1, Arrived
  <2> HIDE DEF h
  <2>3. \A d \in Decisions(h) :
           d \in {"Sampled", "NotSampled"} /\ (h.decision = "NotSampled" => d = "NotSampled")
    BY DEF Decisions
  <2> QED
    BY <2>1, <2>2, <2>3, BeginSampledKeeps
<1>2. CASE BeginSegmentWithHeader
  <2> DEFINE h == ParseTraceHeader(wire)
  <2>1. /\ Enter("queue") /\ ctx = NoContext
        /\ \E d \in {"Sampled", "NotSampled"} : BeginSampled(h, d)
    BY <1>2 DEF BeginSegmentWithHeader, Enter
  <2>2. h \in Header /\ Arriving(h)
    BY <2>1, Arrived
  <2> HIDE DEF h
  <2> QED
    BY <2>1, <2>2, BeginSampledKeeps
<1>3. CASE UNCHANGED vars
  BY <1>3, StutterKeeps
<1> QED
  BY <1>1, <1>2, <1>3, InvokeLambdaKeeps, BeginSubsegmentKeeps, BeginForLambdaKeeps,
     CallDownstreamKeeps DEF Next

----------------------------------------------------------------------------
\* The inductive invariant holds of every request, however many services it
\* passes through.
THEOREM Invariant == Spec => []IInv
BY InitIInv, IInvStep, PTL DEF Spec

\* A request is type correct.
THEOREM TypeCorrect == Spec => []TypeOK
<1>1. IInv => TypeOK
  <2> SUFFICES ASSUME IInv PROVE TypeOK
    OBVIOUS
  <2>1. \A s \in DOMAIN segs : segs[s] \in Segment
    BY DEF IInv, Typed
  <2> QED
    BY <2>1 DEF IInv, Typed, TypeOK, Segment
<1> QED
  BY <1>1, Invariant, PTL

\* All services report their segments below one trace id.
THEOREM TraceIsOne == Spec => []OneTrace
<1>1. IInv => OneTrace
  BY DEF IInv
<1> QED
  BY <1>1, Invariant, PTL

\* No service names a parent that was not reported, or not by its caller.
THEOREM ParentsExist == Spec => []ParentIsCaller
<1>1. IInv => ParentIsCaller
  BY DEF IInv
<1> QED
  BY <1>1, Invariant, PTL

\* A decision not to sample holds as far as a request travels by HTTP.
THEOREM UnsampledStays == Spec => []NotSampledStays
<1>1. IInv => NotSampledStays
  BY DEF IInv, UnsampledHolds, Unsampled, NotSampledStays
<1> QED
  BY <1>1, Invariant, PTL

\* Every header that a service reads, keeps or sends survives the wire.
THEOREM HeadersSurvive == Spec => []RoundTrips
<1>1. ASSUME IInv PROVE RoundTrips
  <2>1. \A h \in ClientHeader : h \in Header
    BY DEF ClientHeader, Header
  <2>2. \A s \in DOMAIN segs : segs[s].header \in Header
    BY <1>1 DEF IInv, Typed, Segment
  <2>3. DownstreamHeader \in Header
    BY <1>1, Sent
  <2> QED
    BY <2>1, <2>2, <2>3, RoundTrip DEF RoundTrips
<1> QED
  BY <1>1, Invariant, PTL
=============================================================================
