--------------------------- MODULE SegmentProofs ---------------------------
(***************************************************************************)
(* What holds of Segment for every finite set of segments, every limit and *)
(* both strategies.                                                        *)
(***************************************************************************)
EXTENDS SegmentRefinement, StructuredTrace, FiniteSetTheorems, TLAPS

\* Every variable keeps its type.
LEMMA TypeStep == TypeOK /\ [Next]_vars => TypeOK'
<1> SUFFICES ASSUME TypeOK, [Next]_vars PROVE TypeOK'
  OBVIOUS
<1>0. UNCHANGED strategy
  BY DEF Next, vars
<1> USE <1>0 DEF TypeOK, vars, strategy, counters, closing, history
<1>1. CASE UNCHANGED vars
  BY <1>1
<1>2. ASSUME NEW s \in Seg, NEW p \in Seg, BeginSubsegment(p, s) PROVE TypeOK'
  BY <1>2 DEF BeginSubsegment
<1>3. ASSUME NEW s \in Seg, AddError(s) PROVE TypeOK'
  BY <1>3 DEF AddError
<1>4. ASSUME NEW s \in Seg, WriteShared(s) PROVE TypeOK'
  BY <1>4 DEF WriteShared
<1>5. ASSUME NEW s \in Seg, Close(s) PROVE TypeOK'
  BY <1>5 DEF Close, Stage
<1>6. ASSUME NEW s \in Seg, AddPanic(s) PROVE TypeOK'
  BY <1>6 DEF AddPanic, Stage
<1>7. ASSUME NEW s \in Seg, NEW ds \in SUBSET Doc, NEW done \in SUBSET Seg,
             Report(s, ds, done)
      PROVE TypeOK'
  <2>1. IsFiniteSet(done)
    BY SegAssumption, FS_Subset
  <2>2. Cardinality(done) \in Nat
    BY <2>1, FS_CardinalityType
  <2> QED
    BY <1>7, <2>2 DEF Report, Stage
<1>8. ASSUME NEW s \in Seg, StreamSegment(s) PROVE TypeOK'
  <2>1. Reachable \subseteq Seg /\ \A x \in Seg : EntryOf(x) \in Entry
    BY DEF Reachable, EntryOf, Entry, InProgress
  <2>2. /\ Tree \in SUBSET Doc
        /\ Singles \in SUBSET Doc
        /\ Unreported \in SUBSET Seg
        /\ Reachable \cap ended \in SUBSET Seg
        /\ {} \in SUBSET Doc
    BY <2>1 DEF Tree, Singles, Unreported, Doc
  <2>3. CASE StreamTree(s)
    BY <1>7, <2>2, <2>3 DEF StreamTree
  <2>4. CASE StreamNothing(s)
    BY <1>7, <2>2, <2>4 DEF StreamNothing
  <2>5. CASE StreamCompleted(s)
    BY <1>7, <2>2, <2>5 DEF StreamCompleted
  <2> QED
    BY <1>8, <2>3, <2>4, <2>5 DEF StreamSegment
<1>9. ASSUME NEW s \in Seg, BeginEncode(s) PROVE TypeOK'
  BY <1>9 DEF BeginEncode
<1>10. ASSUME NEW s \in Seg, EndEncode(s) PROVE TypeOK'
  <2> PICK d \in encoding[s] :
        sent' = sent \cup {<<e.seg, e.fault>> : e \in {x \in d : x.done}}
    BY <1>10 DEF EndEncode
  <2>1. d \subseteq Entry
    BY DEF Doc
  <2>2. sent' \subseteq Seg \X BOOLEAN
    BY <2>1 DEF Entry
  <2> QED
    BY <1>10, <2>2 DEF EndEncode, Stage
<1> QED
  BY <1>1, <1>2, <1>3, <1>4, <1>5, <1>6, <1>8, <1>9, <1>10
  DEF Next, Call, Continue

\* The initial state is type correct.
LEMMA InitTypeOK == Init => TypeOK
<1> SUFFICES ASSUME Init PROVE TypeOK
  OBVIOUS
<1> USE SegAssumption DEF Init
<1>0. batchAll \in BOOLEAN /\ limit \in Nat
  BY LimitsAssumption
<1>1. /\ begun \subseteq Seg /\ ended \subseteq Seg /\ emitted \subseteq Seg
      /\ fault \subseteq Seg /\ shared \subseteq Seg /\ panicking \subseteq Seg
      /\ sent \subseteq Seg \X BOOLEAN
  OBVIOUS
<1>2. /\ subsegments \in [Seg -> SUBSET Seg]
      /\ docs \in [Seg -> SUBSET Doc] /\ encoding \in [Seg -> SUBSET Doc]
  OBVIOUS
<1>3. pc \in [Seg -> Stage] /\ reports \in [Seg -> Nat]
  BY DEF Stage
<1> QED
  BY <1>0, <1>1, <1>2, <1>3 DEF TypeOK

\* Segment is type correct.
THEOREM TypeCorrect == Spec => []TypeOK
BY InitTypeOK, TypeStep, PTL DEF Spec

----------------------------------------------------------------------------
\* Growing the tree by one segment keeps it a tree over the segments begun.
LEMMA TreeGrows ==
  ASSUME IInv, NEW p \in Seg, NEW s \in Seg, BeginSubsegment(p, s)
  PROVE  OneTree'
<1> USE DEF IInv, TypeOK, OneTree, BeginSubsegment
<1>1. subsegments' \in [Seg -> SUBSET Seg]
  OBVIOUS
<1>2. Reachable' \subseteq begun'
  <2>1. Closed(begun)
    BY DEF Closed
  <2>2. Root \in begun' /\ \A x \in begun' : subsegments'[x] \subseteq begun'
    OBVIOUS
  <2>3. begun' \in SUBSET Seg
    OBVIOUS
  <2> QED
    BY <2>2, <2>3 DEF Reachable, Closed
<1>3. ASSUME NEW T \in SUBSET Seg, Root \in T,
             \A x \in T : subsegments'[x] \subseteq T
      PROVE begun' \subseteq T
  <2>1. \A x \in T : subsegments[x] \subseteq T
    BY <1>1, <1>3
  <2>2. begun \subseteq T
    BY <1>3, <2>1 DEF Reachable, Closed
  <2>3. s \in T
    BY <1>3, <2>2
  <2> QED
    BY <2>2, <2>3
<1>4. begun' \subseteq Reachable'
  BY <1>3 DEF Reachable, Closed
<1>5. Root # s
  OBVIOUS
<1>6. \A x, y \in Seg : x # y => subsegments'[x] \cap subsegments'[y] = {}
  <2>1. \A x \in Seg : s \notin subsegments[x]
    OBVIOUS
  <2> QED
    BY <2>1
<1> QED
  BY <1>2, <1>4, <1>5, <1>6

\* A step that leaves the tree alone leaves what the walk visits alone.
LEMMA TreeStays ==
  ASSUME OneTree, UNCHANGED <<begun, subsegments>>
  PROVE  OneTree' /\ Reachable' = Reachable
BY DEF OneTree, Reachable, Closed

\* Cardinality of a finite set that gains one new member.
LEMMA OneMore ==
  ASSUME NEW S, NEW T \in SUBSET S, NEW x \in S, IsFiniteSet(S), x \notin T
  PROVE  Cardinality(T \cup {x}) = Cardinality(T) + 1
<1>1. IsFiniteSet(T)
  BY FS_Subset
<1> QED
  BY <1>1, FS_AddElement

\* A report marks completed segments only, and counts each of them.
LEMMA ReportCounts ==
  ASSUME IInv, NEW s \in Seg, NEW ds, NEW done \in SUBSET ended, Report(s, ds, done)
  PROVE  CountersAgree'
<1> USE DEF IInv, TypeOK, CountersAgree, Report
<1>1. IsFiniteSet(emitted) /\ IsFiniteSet(done)
  BY SegAssumption, FS_Subset
<1>2. Cardinality(emitted \cup done) <= Cardinality(emitted) + Cardinality(done)
  <2>1. Cardinality(emitted \cup done) =
            Cardinality(emitted) + Cardinality(done) - Cardinality(emitted \cap done)
    BY <1>1, FS_Union
  <2>2. Cardinality(emitted \cap done) \in Nat
    BY <1>1, FS_Intersection, FS_CardinalityType
  <2>3. Cardinality(emitted) \in Nat /\ Cardinality(done) \in Nat
    BY <1>1, FS_CardinalityType
  <2> QED
    BY <2>1, <2>2, <2>3
<1>3. emittedSegments' >= Cardinality(emitted')
  <2>1. Cardinality(emitted) \in Nat /\ Cardinality(done) \in Nat
    BY <1>1, FS_CardinalityType
  <2>2. IsFiniteSet(emitted \cup done)
    BY <1>1, FS_Union
  <2>3. Cardinality(emitted \cup done) \in Nat
    BY <2>2, FS_CardinalityType
  <2> QED
    BY <1>2, <2>1, <2>3
<1>4. \A x \in Seg : x \in emitted' <=> reports'[x] > 0
  OBVIOUS
<1> QED
  BY <1>3, <1>4

\* Steps that touch neither the tree nor what was reported keep the invariant
\* as long as no Close call loses its place.
LEMMA QuietStep ==
  ASSUME IInv, TypeOK',
         UNCHANGED <<strategy, begun, subsegments, ended, emitted, counters, reports>>,
         \A x \in Seg :
             /\ pc[x] = "idle" <=> pc'[x] = "idle"
             /\ BeforeStream(x) => BeforeStream(x)'
             /\ Streamed(x) => Streamed(x)'
  PROVE  IInv'
<1>1. OneTree'
  BY TreeStays DEF IInv
<1>2. CountersAgree'
  BY DEF IInv, CountersAgree, counters
<1>3. BatchedWithinLimit'
  BY DEF IInv, BatchedWithinLimit, InProgress, counters, strategy
<1>4. NothingStranded'
  BY SegAssumption DEF IInv, TypeOK, NothingStranded, counters, strategy
<1>5. TwiceByRootOnly'
  BY SegAssumption DEF IInv, TwiceByRootOnly, counters, strategy
<1>6. ReportsHaveReporter'
  BY SegAssumption DEF IInv, TypeOK, ReportsHaveReporter, strategy
<1> QED
  BY <1>1, <1>2, <1>3, <1>4, <1>5, <1>6 DEF IInv, counters

\* A report keeps the invariant if what it marks is complete, if it marks all
\* of that unless the root is still to come, and if only the root's repeats.
LEMMA ReportStep ==
  ASSUME IInv, TypeOK', NEW s \in Seg, NEW ds, NEW done \in SUBSET ended,
         Report(s, ds, done), UNCHANGED strategy,
         ~batchAll => \/ ended \subseteq emitted \cup done
                      \/ s # Root /\ Root \notin ended,
         done # {} => Root \in ended \/ ~WithinLimit,
         batchAll => s = Root \/ done = {},
         done \cap emitted = {} \/ (s = Root /\ ~batchAll /\ limit > 0)
  PROVE  IInv'
<1> USE DEF IInv, TypeOK, Report, strategy
<1>1. OneTree'
  BY TreeStays
<1>2. CountersAgree'
  BY ReportCounts
<1>3. BatchedWithinLimit'
  BY DEF BatchedWithinLimit, InProgress, WithinLimit, CountersAgree
<1>4. NothingStranded'
  BY SegAssumption DEF NothingStranded, BeforeStream
<1>5. TwiceByRootOnly' /\ ReportsHaveReporter'
  <2>1. Streamed(s)' /\ ~Streamed(s) /\ \A x \in Seg \ {s} : pc'[x] = pc[x]
    BY DEF Streamed
  <2>2. ReportsHaveReporter'
    BY <2>1, SegAssumption DEF ReportsHaveReporter, Streamed
  <2>3. CASE s = Root /\ ~batchAll /\ limit > 0
    <3>1. \A x \in Seg : reports[x] <= 1
      BY <2>1, <2>3 DEF TwiceByRootOnly
    <3> QED
      BY <2>1, <2>2, <2>3, <3>1 DEF TwiceByRootOnly
  <2>4. CASE done \cap emitted = {}
    <3>1. \A x \in done : reports[x] = 0
      BY <2>4 DEF CountersAgree
    <3>2. Streamed(Root) => Streamed(Root)'
      BY <2>1, SegAssumption DEF Streamed
    <3> QED
      BY <2>2, <3>1, <3>2 DEF TwiceByRootOnly
  <2> QED
    BY <2>3, <2>4
<1>6. emitted' \subseteq ended'
  OBVIOUS
<1>7. \A x \in Seg : x \in ended' <=> pc'[x] # "idle"
  OBVIOUS
<1> QED
  BY <1>1, <1>2, <1>3, <1>4, <1>5, <1>6, <1>7

\* The three outcomes of StreamSegment.
LEMMA StreamStep ==
  ASSUME IInv, TypeOK', NEW s \in Seg, StreamSegment(s), UNCHANGED strategy
  PROVE  IInv'
<1>1. Reachable = begun /\ ended \subseteq begun /\ emitted \subseteq ended /\ Root \in Seg
  BY SegAssumption DEF IInv, OneTree
<1>2. CASE StreamTree(s)
  <2>1. Reachable \cap ended = ended
    BY <1>1
  <2>2. Root \in ended
    BY <1>1, <1>2 DEF StreamTree, Report, IInv
  <2>3. emitted = {} \/ (~batchAll /\ limit > 0)
    <3>1. ~Streamed(Root)
      BY <1>2 DEF StreamTree, Report, Streamed
    <3>2. CASE batchAll
      BY <3>1, <3>2 DEF IInv, ReportsHaveReporter
    <3>3. CASE ~batchAll /\ limit = 0
      <4>1. Cardinality(begun) <= 1
        BY <1>2, <3>3 DEF StreamTree, WithinLimit, IInv, CountersAgree
      <4>2. IsFiniteSet(begun)
        BY SegAssumption, FS_Subset DEF IInv, TypeOK
      <4>3. begun = {Root}
        <5>1. IsFiniteSet({Root}) /\ Cardinality({Root}) = 1 /\ {Root} \subseteq begun
          BY FS_Singleton DEF IInv
        <5> QED
          BY <4>1, <4>2, <5>1, FS_Subset, FS_CardinalityType
      <4> QED
        BY <3>1, <4>3 DEF IInv, ReportsHaveReporter, Streamed
    <3> QED
      BY <3>2, <3>3 DEF IInv, TypeOK
  <2> QED
    BY <1>2, <2>1, <2>2, <2>3, ReportStep DEF StreamTree
<1>3. CASE StreamNothing(s)
  BY <1>3, ReportStep DEF StreamNothing, InProgress
<1>4. CASE StreamCompleted(s)
  <2>1. Unreported = ended \ emitted
    BY <1>1 DEF Unreported, InProgress, IInv, TypeOK
  <2> QED
    BY <1>4, <2>1, ReportStep DEF StreamCompleted, InProgress
<1> QED
  BY <1>2, <1>3, <1>4 DEF StreamSegment

\* Every step keeps the inductive invariant.
LEMMA IInvStep == IInv /\ [Next]_vars => IInv'
<1> SUFFICES ASSUME IInv, [Next]_vars PROVE IInv'
  OBVIOUS
<1>0. TypeOK /\ TypeOK' /\ UNCHANGED strategy
  BY TypeStep DEF IInv, Next, vars
<1>1. CASE UNCHANGED vars
  BY <1>0, <1>1, QuietStep DEF vars, closing, history, BeforeStream, Streamed
<1>2. ASSUME NEW s \in Seg, NEW p \in Seg, BeginSubsegment(p, s) PROVE IInv'
  <2> USE <1>0, <1>2 DEF BeginSubsegment, closing, history
  <2>1. OneTree'
    BY TreeGrows
  <2>2. Cardinality(begun') = totalSegments'
    BY OneMore, SegAssumption DEF IInv, TypeOK, CountersAgree
  <2>3. CountersAgree'
    BY <2>2 DEF IInv, CountersAgree
  <2>4. BatchedWithinLimit'
    <3>1. Cardinality(begun') = Cardinality(begun) + 1 /\ Cardinality(begun) \in Nat
      BY <2>2 DEF IInv, TypeOK, CountersAgree
    <3> QED
      BY <3>1 DEF IInv, TypeOK, BatchedWithinLimit, InProgress, strategy
  <2>5. NothingStranded' /\ TwiceByRootOnly' /\ ReportsHaveReporter'
    BY DEF IInv, NothingStranded, TwiceByRootOnly, ReportsHaveReporter, BeforeStream,
           Streamed, strategy
  <2>6. \A q \in Seg : subsegments'[q] \subseteq begun'
    BY DEF IInv, TypeOK
  <2>7. \A q \in Seg \ begun' : subsegments'[q] = {}
    BY DEF IInv, TypeOK
  <2> QED
    BY <2>1, <2>3, <2>4, <2>5, <2>6, <2>7 DEF IInv
<1>3. ASSUME NEW s \in Seg, AddError(s) PROVE IInv'
  BY <1>0, <1>3, QuietStep DEF AddError, closing, history, BeforeStream, Streamed
<1>4. ASSUME NEW s \in Seg, WriteShared(s) PROVE IInv'
  BY <1>0, <1>4, QuietStep DEF WriteShared, closing, history, BeforeStream, Streamed
<1>5. ASSUME NEW s \in Seg, Close(s) PROVE IInv'
  <2> USE <1>0, <1>5 DEF Close
  <2>1. OneTree'
    BY TreeStays DEF IInv
  <2>2. Cardinality(ended') = closedSegments'
    BY OneMore, SegAssumption DEF IInv, TypeOK, CountersAgree, InProgress
  <2>3. CountersAgree'
    BY <2>2 DEF IInv, CountersAgree, history
  <2>4. BatchedWithinLimit'
    BY DEF IInv, BatchedWithinLimit, InProgress, strategy
  <2>5. NothingStranded'
    <3>1. BeforeStream(s)' /\ \A x \in Seg : BeforeStream(x) => BeforeStream(x)'
      BY DEF BeforeStream, TypeOK
    <3> QED
      BY <3>1, SegAssumption DEF IInv, TypeOK, NothingStranded, strategy
  <2>6. TwiceByRootOnly' /\ ReportsHaveReporter'
    <3>1. \A x \in Seg : Streamed(x) <=> Streamed(x)'
      BY DEF IInv, TypeOK, InProgress, Streamed
    <3> QED
      BY <3>1, SegAssumption DEF IInv, TypeOK, TwiceByRootOnly, ReportsHaveReporter,
                                 history, strategy
  <2>7. \A x \in Seg : x \in ended' <=> pc'[x] # "idle"
    BY DEF IInv, TypeOK
  <2> QED
    BY <2>1, <2>3, <2>4, <2>5, <2>6, <2>7 DEF IInv
<1>6. ASSUME NEW s \in Seg, AddPanic(s) PROVE IInv'
  <2>1. \A x \in Seg :
            /\ pc[x] = "idle" <=> pc'[x] = "idle"
            /\ BeforeStream(x) => BeforeStream(x)'
            /\ Streamed(x) => Streamed(x)'
    BY <1>0, <1>6 DEF AddPanic, BeforeStream, Streamed, TypeOK
  <2> QED
    BY <1>0, <1>6, <2>1, QuietStep DEF AddPanic, history
<1>7. ASSUME NEW s \in Seg, StreamSegment(s) PROVE IInv'
  BY <1>0, <1>7, StreamStep
<1>8. ASSUME NEW s \in Seg, BeginEncode(s) PROVE IInv'
  BY <1>0, <1>8, QuietStep DEF BeginEncode, history, BeforeStream, Streamed
<1>9. ASSUME NEW s \in Seg, EndEncode(s) PROVE IInv'
  <2>1. pc[s] = "emitting"
    BY <1>9 DEF EndEncode, IInv
  <2> QED
    BY <1>0, <1>9, <2>1, QuietStep DEF EndEncode, TypeOK, BeforeStream, Streamed
<1> QED
  BY <1>1, <1>2, <1>3, <1>4, <1>5, <1>6, <1>7, <1>8, <1>9 DEF Next, Call, Continue

\* The initial state satisfies the inductive invariant.
LEMMA InitIInv == Init => IInv
<1> SUFFICES ASSUME Init PROVE IInv
  OBVIOUS
<1> USE SegAssumption DEF Init
<1>1. TypeOK
  BY InitTypeOK
<1>2. OneTree
  <2>1. Closed({Root})
    BY DEF Closed
  <2>2. \A T \in SUBSET Seg : Closed(T) => Root \in T
    BY DEF Closed
  <2>3. Reachable = {Root}
    BY <2>1, <2>2 DEF Reachable
  <2> QED
    BY <2>3 DEF OneTree
<1>3. CountersAgree
  <2>1. Cardinality({Root}) = 1 /\ Cardinality({}) = 0
    BY FS_EmptySet, FS_Singleton
  <2> QED
    BY <2>1 DEF CountersAgree
<1>4. /\ BatchedWithinLimit /\ NothingStranded
      /\ TwiceByRootOnly /\ ReportsHaveReporter
  BY DEF BatchedWithinLimit, NothingStranded, TwiceByRootOnly, ReportsHaveReporter
<1> QED
  BY <1>1, <1>2, <1>3, <1>4 DEF IInv

\* The inductive invariant holds of every trace.
THEOREM Invariant == Spec => []IInv
BY InitIInv, IInvStep, PTL DEF Spec

\* The walk of the strategies visits every segment of the trace once, whatever
\* the order in which the goroutines begin and close segments.
THEOREM TreeCorrect == Spec => []OneTree
<1>1. IInv => OneTree
  BY DEF IInv
<1> QED
  BY <1>1, Invariant, PTL

\* The counters the limit is tested against are exact.
THEOREM CountersCorrect == Spec => []CountersAgree
<1>1. IInv => CountersAgree
  BY DEF IInv
<1> QED
  BY <1>1, Invariant, PTL

\* No completed segment of a closed trace is left with nobody to report it.
THEOREM NoneStranded == Spec => []NothingStranded
<1>1. IInv => NothingStranded
  BY DEF IInv
<1> QED
  BY <1>1, Invariant, PTL

\* A trace within the limit is not reported before its root is closed.
THEOREM Batched == Spec => []BatchedWithinLimit
<1>1. IInv => BatchedWithinLimit
  BY DEF IInv
<1> QED
  BY <1>1, Invariant, PTL

\* A segment is reported as completed at most twice, the second time by the
\* root's own Close, and once with BatchAll or a limit of zero.
THEOREM AtMostTwice == Spec => []TwiceByRootOnly
<1>1. IInv => TwiceByRootOnly
  BY DEF IInv
<1> QED
  BY <1>1, Invariant, PTL

----------------------------------------------------------------------------
\* One StreamSegment call is a Flush of TraceReport, or nothing to it.
LEMMA StreamRefines ==
  ASSUME IInv, NEW s \in Seg, StreamSegment(s), UNCHANGED strategy
  PROVE  Trace!Flush \/ UNCHANGED Trace!traceVars
<1> USE DEF IInv, Report, strategy, Trace!traceVars, Trace!Flush, Trace!Outgrown
<1>1. Reachable = begun /\ totalSegments = Cardinality(begun)
  BY DEF OneTree, CountersAgree
<1>2. CASE StreamTree(s)
  <2>1. Root \in ended /\ Reachable \cap ended = ended
    BY <1>1, <1>2, SegAssumption DEF StreamTree
  <2>2. emitted' = ended
    BY <1>2, <2>1 DEF StreamTree
  <2>3. batchAll => emitted = {}
    BY <1>2 DEF StreamTree, ReportsHaveReporter, Streamed
  <2> QED
    BY <1>2, <2>1, <2>2, <2>3 DEF StreamTree
<1>3. CASE StreamNothing(s)
  BY <1>3 DEF StreamNothing
<1>4. CASE StreamCompleted(s)
  <2>1. emitted \cup Unreported = ended
    BY <1>1 DEF Unreported, InProgress, TypeOK
  <2>2. Root \in ended \/ Cardinality(begun) > limit + 1
    BY <1>1, <1>4 DEF StreamCompleted, WithinLimit, InProgress, TypeOK
  <2>3. Trace!Cardinality(begun) = Cardinality(begun)
    BY DEF Cardinality, Trace!Cardinality
  <2> QED
    BY <1>4, <2>1, <2>2, <2>3 DEF StreamCompleted
<1> QED
  BY <1>2, <1>3, <1>4 DEF StreamSegment

\* Segment implements the safety part of TraceReport.
THEOREM Refinement == Spec => ImplementsTrace
<1>1. Init => Trace!Init
  BY LimitsAssumption DEF Init, Trace!Init
<1>2. ASSUME IInv, [Next]_vars PROVE [Trace!Next]_(Trace!traceVars)
  <2>0. UNCHANGED strategy
    BY <1>2 DEF Next, vars
  <2> USE <2>0 DEF Trace!traceVars, strategy
  <2>1. CASE UNCHANGED vars
    BY <2>1 DEF vars
  <2>2. ASSUME NEW s \in Seg, NEW p \in Seg, BeginSubsegment(p, s)
        PROVE  Trace!Begin(s)
    BY <2>2 DEF BeginSubsegment, Trace!Begin
  <2>3. ASSUME NEW s \in Seg, Close(s) PROVE Trace!Complete(s)
    BY <2>3 DEF Close, Trace!Complete, InProgress
  <2>4. ASSUME NEW s \in Seg, AddError(s) \/ WriteShared(s) \/ AddPanic(s)
                              \/ BeginEncode(s) \/ EndEncode(s)
        PROVE  UNCHANGED Trace!traceVars
    BY <2>4 DEF AddError, WriteShared, AddPanic, BeginEncode, EndEncode
  <2> QED
    BY <1>2, <2>1, <2>2, <2>3, <2>4, StreamRefines
    DEF Next, Call, Continue, Trace!Next
<1> QED
  BY <1>1, <1>2, Invariant, PTL DEF Spec, ImplementsTrace, Trace!Spec

----------------------------------------------------------------------------
\* StructuredTrace: what the discipline of defer seg.Close() adds.

\* Is a document with this entry sent, or with the Close call that will send it?
Pending(s, f) ==
    \E c \in Seg : \E d \in docs[c] \cup encoding[c] : \E e \in d :
        e.seg = s /\ e.done /\ e.fault = f
Delivered(s, f) == <<s, f>> \in sent \/ Pending(s, f)

\* A Close call returns before the one of the parent is made.
Nested == \A p \in ended : \A c \in subsegments[p] : pc[c] = "returned"

\* Only a Close call on its way has documents, and they hold what is complete.
DocumentsComplete ==
    /\ \A c \in Seg : pc[c] # "emitting" => docs[c] = {} /\ encoding[c] = {}
    /\ \A c \in Seg : \A d \in docs[c] \cup encoding[c] : \A e \in d :
          e.done /\ e.seg \in ended
    /\ \A c \in Seg : \A d1, d2 \in encoding[c] : d1 = d2

\* Is it the root that reports the whole trace?
RootReports == batchAll \/ WithinLimit

\* The root reports first if it reports everything, and it reports all there is.
RootLast ==
    /\ ~Streamed(Root) /\ RootReports => emitted = {}
    /\ Streamed(Root) => begun \subseteq emitted

AllDelivered == \A s \in emitted : \E f \in BOOLEAN : Delivered(s, f)

\* The fault of a panic is set before the segment is reported.
PanicDelivered ==
    /\ \A s \in panicking : s \in ended /\ (pc[s] # "closed" => s \in fault)
    /\ Streamed(Root) /\ RootReports => \A s \in panicking : Delivered(s, TRUE)

\* The inductive invariant of a structured trace, beyond IInv.
Structured ==
    /\ NoMapRace /\ Nested /\ DocumentsComplete
    /\ RootLast /\ AllDelivered /\ PanicDelivered
    /\ ReportedOnce

\* A structured trace is a trace.
LEMMA StructuredNextIsNext == [StructuredNext]_vars => [Next]_vars
BY DEF StructuredNext, StructuredCall, Next, Call

\* When the root is closed the Close calls of all other segments have returned.
LEMMA RootEnded ==
  ASSUME IInv, Nested, Root \in ended
  PROVE  /\ \A s \in begun : s # Root => pc[s] = "returned"
         /\ begun \subseteq ended
<1> USE DEF IInv, TypeOK
<1> DEFINE T == {s \in begun : s = Root \/ pc[s] = "returned"}
<1>1. \A s \in T : s \in Seg /\ s \in ended
  OBVIOUS
<1>2. \A s \in T : \A c \in subsegments[s] : c \in begun /\ pc[c] = "returned"
  BY <1>1 DEF Nested
<1>3. T \in SUBSET Seg /\ Root \in T /\ \A s \in T : subsegments[s] \subseteq T
  BY <1>2
<1>4. Reachable \subseteq T
  BY <1>3 DEF Reachable, Closed
<1>5. begun \subseteq T
  BY <1>4 DEF OneTree
<1> QED
  BY <1>1, <1>5

\* Where documents are unchanged, so is what they deliver.
LEMMA DeliveredSame ==
  ASSUME NEW s, NEW f, UNCHANGED <<docs, encoding, sent>>
  PROVE  Delivered(s, f)' = Delivered(s, f)
BY DEF Delivered, Pending

\* What StreamSegment returns joins the documents on their way.
LEMMA DeliveredReport ==
  ASSUME TypeOK, DocumentsComplete, NEW x \in Seg, NEW ds, NEW done, Report(x, ds, done),
         NEW s, NEW f, Delivered(s, f)
  PROVE  Delivered(s, f)'
<1>1. UNCHANGED <<encoding, sent>> /\ docs[x] = {} /\ docs' = [docs EXCEPT ![x] = ds]
  BY DEF Report, DocumentsComplete
<1>2. \A c \in Seg : docs[c] \subseteq docs'[c]
  BY <1>1 DEF TypeOK
<1>3. Pending(s, f) => Pending(s, f)'
  BY <1>1, <1>2 DEF Pending
<1> QED
  BY <1>1, <1>3 DEF Delivered

\* A document is not lost between the documents to encode and the encoder.
LEMMA DeliveredBeginEncode ==
  ASSUME TypeOK, NEW x \in Seg, BeginEncode(x), NEW s, NEW f, Delivered(s, f)
  PROVE  Delivered(s, f)'
<1>1. PICK d \in docs[x] : /\ encoding' = [encoding EXCEPT ![x] = {d}]
                           /\ docs' = [docs EXCEPT ![x] = @ \ {d}]
  BY DEF BeginEncode
<1>2. encoding[x] = {} /\ UNCHANGED sent
  BY DEF BeginEncode, history
<1>3. \A c \in Seg : docs[c] \cup encoding[c] \subseteq docs'[c] \cup encoding'[c]
  BY <1>1, <1>2 DEF TypeOK
<1>4. Pending(s, f) => Pending(s, f)'
  BY <1>3 DEF Pending
<1> QED
  BY <1>2, <1>4 DEF Delivered

\* What was encoded is sent.
LEMMA DeliveredEndEncode ==
  ASSUME TypeOK, DocumentsComplete, NEW x \in Seg, EndEncode(x), NEW s, NEW f, Delivered(s, f)
  PROVE  Delivered(s, f)'
<1>1. PICK d \in encoding[x] :
         sent' = sent \cup {<<e.seg, e.fault>> : e \in {y \in d : y.done}}
  BY DEF EndEncode
<1>2. encoding[x] = {d} /\ UNCHANGED docs /\ encoding' = [encoding EXCEPT ![x] = {}]
  BY <1>1 DEF EndEncode, DocumentsComplete
<1>3. CASE <<s, f>> \in sent
  BY <1>1, <1>3 DEF Delivered
<1>4. CASE Pending(s, f)
  <2>1. PICK c \in Seg : \E b \in docs[c] \cup encoding[c] : \E e \in b :
           e.seg = s /\ e.done /\ e.fault = f
    BY <1>4 DEF Pending
  <2>2. PICK b \in docs[c] \cup encoding[c] : \E e \in b :
           e.seg = s /\ e.done /\ e.fault = f
    BY <2>1
  <2>3. CASE b \in docs'[c] \cup encoding'[c]
    BY <2>2, <2>3 DEF Delivered, Pending
  <2>4. CASE b \notin docs'[c] \cup encoding'[c]
    <3>1. b = d
      BY <1>2, <2>4 DEF TypeOK
    <3> QED
      BY <1>1, <2>2, <3>1 DEF Delivered
  <2> QED
    BY <2>3, <2>4
<1> QED
  BY <1>3, <1>4 DEF Delivered

\* A segment begins below one in progress, so the root has not ended.
LEMMA StructuredBegin ==
  ASSUME IInv, Structured, TypeOK', NEW p \in Seg, NEW s \in Seg,
         InProgress(p), BeginSubsegment(p, s), UNCHANGED strategy
  PROVE  Structured'
<1> USE DEF BeginSubsegment, closing, history, strategy
<1>1. Root \notin ended
  BY RootEnded DEF InProgress, Structured
<1>2. ~Streamed(Root)
  BY <1>1, SegAssumption DEF IInv, Streamed
<1>3. Streamed(Root)' = Streamed(Root) /\ (RootReports' => RootReports)
  BY DEF Streamed, RootReports, WithinLimit, IInv, TypeOK
<1>4. NoMapRace' /\ DocumentsComplete' /\ ReportedOnce'
  BY DEF Structured, NoMapRace, DocumentsComplete, ReportedOnce
<1>5. Nested'
  BY DEF Structured, Nested, InProgress, IInv, TypeOK
<1>6. RootLast'
  BY <1>2, <1>3 DEF Structured, RootLast
<1>7. AllDelivered'
  <2>1. \A x, f : Delivered(x, f)' = Delivered(x, f)
    BY DEF Delivered, Pending
  <2> QED
    BY <2>1 DEF Structured, AllDelivered
<1>8. PanicDelivered'
  BY <1>2, <1>3 DEF Structured, PanicDelivered
<1> QED
  BY <1>4, <1>5, <1>6, <1>7, <1>8 DEF Structured

\* No document holds the maps of a segment in progress.
LEMMA StructuredWrite ==
  ASSUME IInv, Structured, TypeOK', NEW s \in Seg,
         InProgress(s), AddError(s) \/ WriteShared(s), UNCHANGED strategy
  PROVE  Structured'
<1>1. UNCHANGED <<begun, subsegments, ended, emitted, counters, closing, history>>
  BY DEF AddError, WriteShared
<1> USE DEF counters, closing, history, strategy
<1>2. ~BeingEncoded(s)
  BY DEF Structured, DocumentsComplete, BeingEncoded, InProgress
<1>3. NoMapRace'
  BY <1>2 DEF Structured, NoMapRace, AddError, WriteShared
<1>4. Streamed(Root)' = Streamed(Root) /\ RootReports' = RootReports
  BY <1>1 DEF Streamed, RootReports, WithinLimit
<1>5. Nested' /\ DocumentsComplete' /\ ReportedOnce'
  BY <1>1 DEF Structured, Nested, DocumentsComplete, ReportedOnce
<1>6. RootLast'
  BY <1>1, <1>4 DEF Structured, RootLast
<1>7. \A x, f : Delivered(x, f)' = Delivered(x, f)
  BY <1>1 DEF Delivered, Pending
<1>8. AllDelivered'
  BY <1>1, <1>7 DEF Structured, AllDelivered
<1>9. PanicDelivered'
  <2>1. fault \subseteq fault'
    BY DEF AddError, WriteShared
  <2> QED
    BY <1>1, <1>4, <1>7, <2>1 DEF Structured, PanicDelivered
<1> QED
  BY <1>3, <1>5, <1>6, <1>8, <1>9 DEF Structured

\* A segment ends after the Close calls of its subsegments have returned.
LEMMA StructuredClose ==
  ASSUME IInv, Structured, TypeOK', NEW s \in Seg,
         \A c \in subsegments[s] : pc[c] = "returned", Close(s), UNCHANGED strategy
  PROVE  Structured'
<1> USE DEF Close, history, strategy
<1>1. pc[s] = "idle" /\ pc' = [pc EXCEPT ![s] = "closed"] /\ s \notin ended
  BY DEF IInv, InProgress
<1>2. Root \notin ended
  BY <1>1, RootEnded DEF Structured
<1>3. ~Streamed(Root) /\ ~Streamed(Root)' /\ RootReports' = RootReports
  BY <1>1, <1>2, SegAssumption DEF IInv, TypeOK, Streamed, RootReports, WithinLimit
<1>4. NoMapRace' /\ ReportedOnce'
  BY DEF Structured, NoMapRace, ReportedOnce
<1>5. Nested'
  BY <1>1 DEF Structured, Nested, IInv, TypeOK
<1>6. DocumentsComplete'
  BY <1>1 DEF Structured, DocumentsComplete, IInv, TypeOK
<1>7. RootLast'
  BY <1>3 DEF Structured, RootLast
<1>8. AllDelivered'
  <2>1. \A x, f : Delivered(x, f)' = Delivered(x, f)
    BY DEF Delivered, Pending
  <2> QED
    BY <2>1 DEF Structured, AllDelivered
<1>9. PanicDelivered'
  <2>1. \A x \in panicking' : x \in panicking \/ x = s
    OBVIOUS
  <2>2. \A x \in panicking : x \in ended' /\ (pc'[x] # "closed" => x \in fault')
    BY <1>1 DEF Structured, PanicDelivered, IInv, TypeOK
  <2>3. s \in ended' /\ pc'[s] = "closed"
    BY <1>1 DEF IInv, TypeOK
  <2> QED
    BY <1>3, <2>1, <2>2, <2>3 DEF PanicDelivered
<1> QED
  BY <1>4, <1>5, <1>6, <1>7, <1>8, <1>9 DEF Structured

\* The fault of a recovered panic is set before the Close call goes on.
LEMMA StructuredAddPanic ==
  ASSUME IInv, Structured, TypeOK', NEW s \in Seg, AddPanic(s), UNCHANGED strategy
  PROVE  Structured'
<1> USE DEF AddPanic, counters, history, strategy
<1>1. \A x \in Seg : pc'[x] = IF x = s THEN "recovered" ELSE pc[x]
  BY DEF IInv, TypeOK
<1>2. Streamed(Root)' = Streamed(Root) /\ RootReports' = RootReports
  BY <1>1, SegAssumption DEF Streamed, RootReports, WithinLimit
<1>3. NoMapRace' /\ ReportedOnce'
  BY DEF Structured, NoMapRace, ReportedOnce
<1>4. Nested'
  BY <1>1 DEF Structured, Nested, IInv, TypeOK
<1>5. DocumentsComplete'
  BY <1>1 DEF Structured, DocumentsComplete
<1>6. RootLast'
  BY <1>2 DEF Structured, RootLast
<1>7. \A x, f : Delivered(x, f)' = Delivered(x, f)
  BY DEF Delivered, Pending
<1>8. AllDelivered'
  BY <1>7 DEF Structured, AllDelivered
<1>9. PanicDelivered'
  BY <1>1, <1>2, <1>7 DEF Structured, PanicDelivered, IInv, TypeOK
<1> QED
  BY <1>3, <1>4, <1>5, <1>6, <1>8, <1>9 DEF Structured

\* Do documents hold nothing but completed segments?  Does one show each of these?
HoldCompleted(ds) == \A d \in ds : \A e \in d : e.done /\ e.seg \in ended
Show(ds, done) ==
    \A x \in done : \E d \in ds : \E e \in d : e.seg = x /\ e.done /\ e.fault = (x \in fault)

\* A report keeps the discipline if its documents hold what it marks as complete,
\* which is nothing that was reported, and if the root's report is the whole
\* trace.
LEMMA StructuredReport ==
  ASSUME IInv, Structured, TypeOK', NEW s \in Seg, NEW ds \in SUBSET Doc,
         NEW done \in SUBSET ended, Report(s, ds, done), UNCHANGED strategy,
         done \cap emitted = {},
         HoldCompleted(ds), Show(ds, done),
         s = Root => begun \subseteq emitted \cup done,
         s # Root => Root \notin ended /\ (RootReports => done = {}),
         s = Root /\ RootReports => begun \subseteq done
  PROVE  Structured'
<1> USE DEF Report, strategy
<1>1. \A x \in Seg : x # s => pc'[x] = pc[x] /\ docs'[x] = docs[x]
  BY DEF IInv, TypeOK
<1>2. /\ pc[s] = "recovered" /\ pc'[s] = IF ds = {} THEN "returned" ELSE "emitting"
      /\ docs[s] = {} /\ encoding[s] = {} /\ docs'[s] = ds
  BY DEF IInv, TypeOK, Structured, DocumentsComplete
<1>3. RootReports' = RootReports /\ Root \in Seg
  BY SegAssumption DEF RootReports, WithinLimit
<1>4. Streamed(Root)' => s = Root
  BY <1>1, <1>3 DEF Streamed, IInv, TypeOK
<1>5. NoMapRace'
  BY DEF Structured, NoMapRace
<1>6. Nested'
  BY <1>1, <1>2 DEF Structured, Nested, IInv, TypeOK
<1>7. DocumentsComplete'
  <2>1. \A c \in Seg : pc'[c] # "emitting" => docs'[c] = {} /\ encoding'[c] = {}
    BY <1>1, <1>2 DEF Structured, DocumentsComplete
  <2>2. \A c \in Seg : \A d \in docs'[c] \cup encoding'[c] : \A e \in d :
            e.done /\ e.seg \in ended'
    BY <1>1, <1>2 DEF Structured, DocumentsComplete, HoldCompleted
  <2> QED
    BY <2>1, <2>2 DEF Structured, DocumentsComplete
<1>8. RootLast'
  <2>1. ~Streamed(Root)' /\ RootReports => s # Root /\ emitted = {}
    BY <1>1, <1>2, <1>3 DEF Structured, RootLast, Streamed
  <2> QED
    BY <1>3, <1>4, <2>1 DEF RootLast
<1>9. \A x, f : Delivered(x, f) => Delivered(x, f)'
  BY DeliveredReport DEF IInv, Structured
<1>10. ASSUME NEW x \in done
       PROVE  /\ x \in fault => Delivered(x, TRUE)'
              /\ x \notin fault => Delivered(x, FALSE)'
  <2>1. PICK d \in ds : \E e \in d : e.seg = x /\ e.done /\ e.fault = (x \in fault)
    BY DEF Show
  <2>2. PICK e \in d : e.seg = x /\ e.done /\ e.fault = (x \in fault)
    BY <2>1
  <2>3. d \in docs'[s] \cup encoding'[s]
    BY <1>2
  <2>4. CASE x \in fault
    BY <2>2, <2>3, <2>4 DEF Delivered, Pending
  <2>5. CASE x \notin fault
    <3>1. (x \in fault) = FALSE
      BY <2>5
    <3>2. e.fault = FALSE
      BY <2>2, <3>1, Zenon
    <3> QED
      BY <2>2, <2>3, <2>5, <3>2 DEF Delivered, Pending
  <2> QED
    BY <2>4, <2>5
<1>11. AllDelivered'
  <2>1. \A x \in emitted : \E f \in BOOLEAN : Delivered(x, f)'
    BY <1>9 DEF Structured, AllDelivered
  <2>2. ASSUME NEW x \in done PROVE \E f \in BOOLEAN : Delivered(x, f)'
    <3>1. CASE x \in fault
      BY <1>10, <3>1
    <3>2. CASE x \notin fault
      BY <1>10, <3>2
    <3> QED
      BY <3>1, <3>2
  <2> QED
    BY <2>1, <2>2 DEF AllDelivered
<1>12. PanicDelivered'
  <2>1. \A x \in panicking : x \in ended /\ (pc'[x] # "closed" => x \in fault)
    BY <1>1, <1>2 DEF Structured, PanicDelivered, IInv, TypeOK
  <2>2. ASSUME Streamed(Root)', RootReports, NEW x \in panicking
        PROVE  Delivered(x, TRUE)'
    <3>1. s = Root /\ x \in ended /\ x \in begun /\ x \in done
      BY <1>4, <2>1, <2>2 DEF IInv
    <3>2. Root \in ended
      BY <1>2, <3>1 DEF IInv
    <3>3. pc'[x] # "closed"
      BY <1>1, <1>2, <3>1, <3>2, RootEnded DEF IInv, TypeOK, Structured
    <3>4. x \in fault
      BY <2>1, <3>3
    <3> QED
      BY <1>10, <3>1, <3>4
  <2> QED
    BY <1>3, <2>1, <2>2 DEF PanicDelivered
<1>13. ReportedOnce'
  <2>1. \A x \in done : reports[x] = 0
    BY DEF IInv, CountersAgree, TypeOK
  <2> QED
    BY <2>1 DEF Structured, ReportedOnce
<1> QED
  BY <1>5, <1>6, <1>7, <1>8, <1>11, <1>12, <1>13 DEF Structured

\* The outcomes of StreamSegment are such reports.
LEMMA StructuredStream ==
  ASSUME IInv, Structured, TypeOK', NEW s \in Seg, StreamSegment(s), UNCHANGED strategy
  PROVE  Structured'
<1>0. pc[s] = "recovered" /\ s \in ended /\ s \in begun /\ Root \in Seg
  BY SegAssumption DEF StreamSegment, StreamTree, StreamNothing, StreamCompleted, Report, IInv
<1>1. Reachable = begun /\ ended \subseteq begun /\ emitted \subseteq ended /\ begun \subseteq Seg
  BY DEF IInv, TypeOK, OneTree
<1>2. s = Root => begun \subseteq ended /\ ~Streamed(Root)
  BY <1>0, RootEnded DEF Structured, Streamed
<1>3. s # Root => Root \notin ended
  BY <1>0, RootEnded DEF Structured
<1>4. \A x \in Seg : /\ EntryOf(x) \in Entry
                     /\ EntryOf(x).seg = x
                     /\ EntryOf(x).done = (x \in ended)
                     /\ EntryOf(x).fault = (x \in fault)
  BY DEF EntryOf, Entry, InProgress
<1>5. CASE StreamTree(s)
  <2>1. s = Root /\ RootReports /\ emitted = {} /\ Reachable \cap ended = begun
    BY <1>1, <1>2, <1>5 DEF StreamTree, RootReports, Structured, RootLast
  <2>2. Tree = {{EntryOf(x) : x \in begun}} /\ Tree \in SUBSET Doc
    BY <1>1, <1>4 DEF Tree, Doc
  <2>3. HoldCompleted(Tree)
    <3>1. \A x \in begun : EntryOf(x).done /\ EntryOf(x).seg \in ended
      BY <1>1, <1>2, <1>4, <2>1
    <3> QED
      BY <2>2, <3>1 DEF HoldCompleted
  <2>4. Show(Tree, begun)
    <3>1. \A x \in begun : /\ EntryOf(x).seg = x /\ EntryOf(x).done
                           /\ EntryOf(x).fault = (x \in fault)
      BY <1>1, <1>2, <1>4, <2>1
    <3> QED
      BY <2>2, <3>1 DEF Show
  <2>5. Report(s, Tree, begun) /\ begun \in SUBSET ended
    BY <1>2, <1>5, <2>1 DEF StreamTree
  <2> QED
    BY <2>1, <2>2, <2>3, <2>4, <2>5, StructuredReport
<1>6. CASE StreamNothing(s)
  <2>1. HoldCompleted({}) /\ Show({}, {})
    BY DEF HoldCompleted, Show
  <2> QED
    BY <1>3, <1>6, <2>1, StructuredReport DEF StreamNothing
<1>7. CASE StreamCompleted(s)
  <2>1. ~RootReports
    BY <1>3, <1>7 DEF StreamCompleted, RootReports, InProgress
  <2>2. Unreported = ended \ emitted
    BY <1>1 DEF Unreported, InProgress
  <2>3. Singles = {{EntryOf(x)} : x \in ended \ emitted} /\ Singles \in SUBSET Doc
    BY <1>1, <1>4, <2>2 DEF Singles, Doc
  <2>4. HoldCompleted(Singles)
    <3>1. \A x \in ended : EntryOf(x).done /\ EntryOf(x).seg \in ended
      BY <1>1, <1>4
    <3> QED
      BY <2>3, <3>1 DEF HoldCompleted
  <2>5. Show(Singles, ended \ emitted)
    <3>1. \A x \in ended : /\ EntryOf(x).seg = x /\ EntryOf(x).done
                           /\ EntryOf(x).fault = (x \in fault)
      BY <1>1, <1>4
    <3> QED
      BY <2>3, <3>1 DEF Show
  <2>6. Report(s, Singles, ended \ emitted)
    BY <1>7, <2>2 DEF StreamCompleted
  <2> QED
    BY <1>2, <1>3, <2>1, <2>3, <2>4, <2>5, <2>6, StructuredReport
<1> QED
  BY <1>5, <1>6, <1>7 DEF StreamSegment

\* A document that is encoded was on its way, and is sent.
LEMMA StructuredEncode ==
  ASSUME IInv, Structured, TypeOK', NEW s \in Seg, BeginEncode(s) \/ EndEncode(s),
         UNCHANGED strategy
  PROVE  Structured'
<1>1. UNCHANGED <<begun, subsegments, ended, emitted, counters, fault, panicking,
                  crashed, reports>>
  BY DEF BeginEncode, EndEncode, history
<1> USE DEF counters, strategy
<1>2. \A x \in Seg : x # s => /\ pc'[x] = pc[x] /\ docs'[x] = docs[x]
                              /\ encoding'[x] = encoding[x]
  BY DEF BeginEncode, EndEncode, IInv, TypeOK
<1>3. /\ pc[s] = "emitting" /\ pc'[s] \in {"emitting", "returned"}
      /\ pc'[s] = "returned" => docs'[s] = {} /\ encoding'[s] = {}
      /\ docs'[s] \cup encoding'[s] \subseteq docs[s] \cup encoding[s]
      /\ \A d1, d2 \in encoding'[s] : d1 = d2
  BY DEF BeginEncode, EndEncode, IInv, TypeOK
<1>4. Streamed(Root)' = Streamed(Root) /\ RootReports' = RootReports
  BY <1>1, <1>2, <1>3, SegAssumption DEF Streamed, RootReports, WithinLimit
<1>5. \A x, f : Delivered(x, f) => Delivered(x, f)'
  BY DeliveredBeginEncode, DeliveredEndEncode DEF IInv, Structured
<1>6. NoMapRace' /\ ReportedOnce'
  BY <1>1 DEF Structured, NoMapRace, ReportedOnce
<1>7. Nested'
  BY <1>1, <1>2, <1>3 DEF Structured, Nested, IInv, TypeOK
<1>8. DocumentsComplete'
  <2>1. \A c \in Seg : pc'[c] # "emitting" => docs'[c] = {} /\ encoding'[c] = {}
    BY <1>2, <1>3 DEF Structured, DocumentsComplete
  <2>2. \A c \in Seg : docs'[c] \cup encoding'[c] \subseteq docs[c] \cup encoding[c]
    BY <1>2, <1>3
  <2>3. \A c \in Seg : \A d1, d2 \in encoding'[c] : d1 = d2
    BY <1>2, <1>3 DEF Structured, DocumentsComplete
  <2> QED
    BY <1>1, <2>1, <2>2, <2>3 DEF Structured, DocumentsComplete
<1>9. RootLast'
  BY <1>1, <1>4 DEF Structured, RootLast
<1>10. AllDelivered'
  BY <1>1, <1>5 DEF Structured, AllDelivered
<1>11. PanicDelivered'
  <2>1. \A x \in Seg : pc'[x] # "closed" => pc[x] # "closed"
    BY <1>2, <1>3
  <2> QED
    BY <1>1, <1>4, <1>5, <2>1 DEF Structured, PanicDelivered, IInv, TypeOK
<1> QED
  BY <1>6, <1>7, <1>8, <1>9, <1>10, <1>11 DEF Structured

\* Every step of a structured trace keeps the discipline.
LEMMA StructuredStep ==
  IInv /\ Structured /\ [StructuredNext]_vars => IInv' /\ Structured'
<1> SUFFICES ASSUME IInv, Structured, [StructuredNext]_vars PROVE IInv' /\ Structured'
  OBVIOUS
<1>1. IInv'
  BY IInvStep, StructuredNextIsNext
<1>2. TypeOK' /\ UNCHANGED strategy
  BY <1>1 DEF IInv, StructuredNext, vars
<1>3. CASE UNCHANGED vars
  <2> USE <1>3 DEF vars, strategy, counters, closing, history
  <2>1. \A x, f : Delivered(x, f)' = Delivered(x, f)
    BY DEF Delivered, Pending
  <2>2. Streamed(Root)' = Streamed(Root) /\ RootReports' = RootReports
    BY DEF Streamed, RootReports, WithinLimit
  <2>3. NoMapRace' /\ Nested' /\ DocumentsComplete' /\ ReportedOnce'
    BY DEF Structured, NoMapRace, Nested, DocumentsComplete, ReportedOnce
  <2>4. RootLast' /\ AllDelivered' /\ PanicDelivered'
    BY <2>1, <2>2 DEF Structured, RootLast, AllDelivered, PanicDelivered
  <2> QED
    BY <1>1, <2>3, <2>4 DEF Structured
<1>4. ASSUME NEW s \in Seg, StructuredCall(s) PROVE Structured'
  BY <1>2, <1>4, StructuredBegin, StructuredWrite, StructuredClose DEF StructuredCall
<1>5. ASSUME NEW s \in Seg, Continue(s) PROVE Structured'
  BY <1>2, <1>5, StructuredAddPanic, StructuredStream, StructuredEncode DEF Continue
<1> QED
  BY <1>1, <1>3, <1>4, <1>5 DEF StructuredNext

\* The discipline holds of every structured trace.
THEOREM StructuredInvariant == StructuredSpec => [](IInv /\ Structured)
<1>1. Init => IInv
  BY InitIInv
<1>2. ASSUME Init PROVE Structured
  <2> USE <1>2, SegAssumption DEF Init
  <2>1. NoMapRace /\ Nested /\ DocumentsComplete /\ AllDelivered /\ ReportedOnce
    BY DEF NoMapRace, Nested, DocumentsComplete, AllDelivered, ReportedOnce
  <2>2. RootLast /\ PanicDelivered
    BY DEF RootLast, PanicDelivered, Streamed
  <2> QED
    BY <2>1, <2>2 DEF Structured
<1> QED
  BY <1>1, <1>2, StructuredStep, PTL DEF StructuredSpec

\* No completed segment of a structured trace is reported twice: it is the Close
\* after the root's, or beside it, that makes serialize repeat a segment.
THEOREM StructuredOnce == StructuredSpec => []ReportedOnce
<1>1. Structured => ReportedOnce
  BY DEF Structured
<1> QED
  BY <1>1, StructuredInvariant, PTL

\* No map of a structured trace is written while a document with it is encoded.
THEOREM StructuredNoRace == StructuredSpec => []NoMapRace
<1>1. Structured => NoMapRace
  BY DEF Structured
<1> QED
  BY <1>1, StructuredInvariant, PTL

\* After the Close of the root every segment of a structured trace was sent.
THEOREM StructuredAllSent == StructuredSpec => []AllSent
<1>1. ASSUME IInv, Structured, pc[Root] = "returned", NEW s \in begun
      PROVE  \E f \in BOOLEAN : <<s, f>> \in sent
  <2>1. Root \in ended /\ Streamed(Root)
    BY <1>1, SegAssumption DEF IInv, Streamed
  <2>2. \A c \in Seg : pc[c] # "emitting"
    BY <1>1, <2>1, RootEnded DEF IInv, TypeOK, Structured
  <2>3. \A f : ~Pending(s, f)
    BY <1>1, <2>2 DEF Pending, Structured, DocumentsComplete
  <2>4. s \in emitted
    BY <1>1, <2>1 DEF Structured, RootLast
  <2> QED
    BY <1>1, <2>3, <2>4 DEF Structured, AllDelivered, Delivered
<1>2. IInv /\ Structured => AllSent
  BY <1>1 DEF AllSent
<1> QED
  BY <1>2, StructuredInvariant, PTL

\* The fault of a panic that a deferred Close recovered is in what was sent.
THEOREM StructuredPanic == StructuredSpec => []PanicReported
<1>1. ASSUME IInv, Structured, Root \in ended, Quiet, RootReports, NEW s \in panicking
      PROVE  <<s, TRUE>> \in sent
  <2>1. Streamed(Root)
    BY <1>1 DEF Quiet, Streamed
  <2>2. \A c \in Seg : pc[c] # "emitting"
    BY <1>1 DEF Quiet, IInv
  <2>3. ~Pending(s, TRUE)
    BY <1>1, <2>2 DEF Pending, Structured, DocumentsComplete
  <2> QED
    BY <1>1, <2>1, <2>3 DEF Structured, PanicDelivered, Delivered
<1>2. IInv /\ Structured => PanicReported
  BY <1>1 DEF PanicReported, RootReports
<1> QED
  BY <1>2, StructuredInvariant, PTL
=============================================================================
