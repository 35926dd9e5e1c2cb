------------------------------- MODULE Segment -------------------------------
(***************************************************************************)
(* One trace: a root segment, the subsegments begun under it from any      *)
(* goroutine, and what Close makes the streaming strategy report of them   *)
(* (xray/segment.go, xray/streaming_strategy.go, Client.Emit).             *)
(*                                                                         *)
(* Every region the code runs under root.mu is one action.  Close is       *)
(* several: close() and StreamSegment take root.mu separately, AddPanic    *)
(* takes seg.mu between them, and the documents are encoded with no        *)
(* segment lock held.                                                      *)
(*                                                                         *)
(* A definition marked "Faulty" is what a slip in the code would make of   *)
(* the one after it; no specification uses it.                             *)
(***************************************************************************)
EXTENDS Integers, FiniteSets

CONSTANTS
    Seg,        \* the segments the application may begin, the root included
    Root,       \* the segment BeginSegment creates
    Limits,     \* arguments of NewStreamingStrategyLimitSubsegment
    Erring,     \* bound: segments on which AddError is called or a panic occurs
    Writing     \* bound: segments whose annotations or metadata are written

ASSUME SegAssumption == Root \in Seg /\ IsFiniteSet(Seg)
ASSUME LimitsAssumption == Limits \subseteq Nat
ASSUME BoundAssumption == Erring \subseteq Seg /\ Writing \subseteq Seg

VARIABLES
    batchAll,         \* is the strategy streamingStrategyBatchAll?  Otherwise it
    limit,            \*   is LimitSubsegment with this limit; both stay as they are
    begun,            \* segments created so far
    subsegments,      \* subsegments[s]: Segment.subsegments
    ended,            \* segments whose endTime is set
    emitted,          \* segments whose status is segmentStatusEmitted
    totalSegments,    \* the three counters of the root
    closedSegments,
    emittedSegments,
    fault,            \* segments whose fault flag is set
    shared,           \* segments whose annotations or metadata map exists
    pc,               \* how far the Close call that ended a segment has got
    panicking,        \* segments whose deferred Close is unwinding a panic
    docs,             \* documents a Close call has still to encode
    encoding,         \* the document (at most one) a Close call is encoding
    crashed,          \* the runtime aborted: concurrent map access
    reports,          \* history: documents that hold a segment as completed
    sent              \* history: <<segment, fault>> of each completed entry sent

strategy == <<batchAll, limit>>
counters == <<totalSegments, closedSegments, emittedSegments>>
closing  == <<pc, panicking, docs, encoding>>
history  == <<reports, sent>>
vars == <<strategy, begun, subsegments, ended, emitted, counters, fault, shared,
          closing, crashed, history>>

Stage == {"idle", "closed", "recovered", "emitting", "returned"}

\* What a document says of one segment; the maps are shared with the segment.
Entry == [seg : Seg, done : BOOLEAN, fault : BOOLEAN, live : BOOLEAN]
Doc   == SUBSET Entry

----------------------------------------------------------------------------
\* The tree.

InProgress(s) == s \notin ended

\* The segments a walk from the root along subsegments visits: the least set
\* that holds the root and the subsegments of its members.
Closed(T) == Root \in T /\ \A s \in T : subsegments[s] \subseteq T
Reachable == {s \in Seg : \A T \in SUBSET Seg : Closed(T) => s \in T}

EntryOf(s) == [seg |-> s, done |-> ~InProgress(s), fault |-> s \in fault,
               live |-> s \in shared]

\* serialize: one document with the whole tree, emitted before or not.
Tree == {{EntryOf(s) : s \in Reachable}}

\* Faulty: segments that were reported are reported again.
AnyCompleted == {s \in Reachable : ~InProgress(s)}

\* Faulty: segments in progress are reported as well.
AnyUnemitted == {s \in Reachable : s \notin emitted}

\* streamingStrategyLimitSubsegmentContext.serialize with
\* serializeIndependentSubsegment: one document per completed segment that was
\* not emitted.
Unreported == {s \in Reachable : ~InProgress(s) /\ s \notin emitted}
Singles    == {{EntryOf(s)} : s \in Unreported}

----------------------------------------------------------------------------
Init ==
    /\ batchAll \in BOOLEAN /\ limit \in IF batchAll THEN {0} ELSE Limits
    /\ begun = {Root}
    /\ subsegments = [s \in Seg |-> {}]
    /\ ended = {} /\ emitted = {}
    /\ totalSegments = 1 /\ closedSegments = 0 /\ emittedSegments = 0
    /\ fault = {} /\ shared = {}
    /\ pc = [s \in Seg |-> "idle"] /\ panicking = {}
    /\ docs = [s \in Seg |-> {}] /\ encoding = [s \in Seg |-> {}]
    /\ crashed = FALSE
    /\ reports = [s \in Seg |-> 0] /\ sent = {}

\* Faulty: the new segment is listed under the root as well.
BeginListedTwice(p, s) ==
    /\ p \in begun /\ s \notin begun
    /\ begun' = begun \cup {s}
    /\ totalSegments' = totalSegments + 1
    /\ subsegments' = [subsegments EXCEPT ![Root] = @ \cup {s}, ![p] = @ \cup {s}]
    /\ UNCHANGED <<ended, emitted, closedSegments, emittedSegments, fault,
                   shared, closing, crashed, history>>

\* The parent may be closed already: nothing in the code forbids it.
BeginSubsegment(p, s) ==
    /\ p \in begun /\ s \notin begun
    /\ begun' = begun \cup {s}
    /\ totalSegments' = totalSegments + 1
    /\ subsegments' = [subsegments EXCEPT ![p] = @ \cup {s}]
    /\ UNCHANGED <<ended, emitted, closedSegments, emittedSegments, fault,
                   shared, closing, crashed, history>>

\* AddError, SetError, SetThrottle and SetFault set a flag under seg.mu, at any
\* time of the segment's life.
AddError(s) ==
    /\ s \in begun \cap Erring
    /\ fault' = fault \cup {s}
    /\ UNCHANGED <<begun, subsegments, ended, emitted, counters, shared,
                   closing, crashed, history>>

\* Is some Close call encoding a document that refers to the maps of s?
BeingEncoded(s) == \E c \in Seg : \E d \in encoding[c] :
                       \E e \in d : e.seg = s /\ e.live

\* AddAnnotation*, AddMetadata*, SetHTTP*, SetAWS: a write, under seg.mu, to a
\* map or struct that documents already returned refer to as well.  Writing
\* a map that the encoder iterates is a data race: the runtime may abort.
WriteShared(s) ==
    /\ s \in begun \cap Writing
    /\ shared' = shared \cup {s}
    /\ crashed' \in IF BeingEncoded(s) THEN BOOLEAN ELSE {FALSE}
    /\ UNCHANGED <<begun, subsegments, ended, emitted, counters, fault,
                   closing, history>>

\* Faulty: no early return for a segment that has ended.
CloseAgain(s) ==
    /\ s \in begun
    /\ ended' = ended \cup {s}
    /\ closedSegments' = closedSegments + 1
    /\ pc' = [pc EXCEPT ![s] = "closed"]
    /\ UNCHANGED <<begun, subsegments, emitted, totalSegments, emittedSegments,
                   fault, shared, panicking, docs, encoding, crashed, history>>

\* Faulty: the counter is taken for one of open segments.
CloseCountsDown(s) ==
    /\ s \in begun /\ InProgress(s)
    /\ ended' = ended \cup {s}
    /\ closedSegments' = closedSegments - 1
    /\ pc' = [pc EXCEPT ![s] = "closed"]
    /\ UNCHANGED <<begun, subsegments, emitted, totalSegments, emittedSegments,
                   fault, shared, panicking, docs, encoding, crashed, history>>

\* Close, up to the return of close(): the first call ends the segment, a
\* later one returns at once.
Close(s) ==
    /\ s \in begun /\ InProgress(s)
    /\ ended' = ended \cup {s}
    /\ closedSegments' = closedSegments + 1
    /\ pc' = [pc EXCEPT ![s] = "closed"]
    /\ panicking' \in {panicking, panicking \cup ({s} \cap Erring)}
    /\ UNCHANGED <<begun, subsegments, emitted, totalSegments, emittedSegments,
                   fault, shared, docs, encoding, crashed, history>>

\* Faulty: AddPanic records the exception without setting the flag.
AddPanicNoFault(s) ==
    /\ pc[s] = "closed"
    /\ pc' = [pc EXCEPT ![s] = "recovered"]
    /\ UNCHANGED <<begun, subsegments, ended, emitted, counters, fault, shared,
                   panicking, docs, encoding, crashed, history>>

\* recover() and AddPanic: no root lock is held since close().
AddPanic(s) ==
    /\ pc[s] = "closed"
    /\ pc' = [pc EXCEPT ![s] = "recovered"]
    /\ fault' = fault \cup ({s} \cap panicking)
    /\ UNCHANGED <<begun, subsegments, ended, emitted, counters, shared,
                   panicking, docs, encoding, crashed, history>>

\* What StreamSegment returned to the Close call of s, and the segments marked
\* by it.
Report(s, ds, done) ==
    /\ pc[s] = "recovered"
    /\ pc' = [pc EXCEPT ![s] = IF ds = {} THEN "returned" ELSE "emitting"]
    /\ docs' = [docs EXCEPT ![s] = ds]
    /\ emitted' = emitted \cup done
    /\ emittedSegments' = emittedSegments + Cardinality(done)
    /\ reports' = [x \in Seg |-> IF x \in done THEN reports[x] + 1 ELSE reports[x]]
    /\ UNCHANGED <<begun, subsegments, ended, totalSegments, closedSegments,
                   fault, shared, panicking, encoding, crashed, sent>>

\* Faulty: the root counts as a subsegment.
WithinTotal == totalSegments <= limit

WithinLimit == totalSegments <= limit + 1

\* The root is reported with every segment below it, in one document.
StreamTree(s) ==
    /\ s = Root
    /\ batchAll \/ WithinLimit
    /\ Report(s, Tree, Reachable \cap ended)

\* Faulty: a root that is closed will not come back for the subsegment.
StreamNothingToRoot(s) ==
    /\ s # Root
    /\ batchAll \/ WithinLimit
    /\ Report(s, {}, {})

\* The root will report the subsegment.
StreamNothing(s) ==
    /\ s # Root
    /\ batchAll \/ (WithinLimit /\ InProgress(Root))
    /\ Report(s, {}, {})

\* Faulty: a Close call reports its own segment alone.
StreamOwn(s) ==
    /\ ~batchAll
    /\ WithinLimit => s # Root /\ ~InProgress(Root)
    /\ Report(s, {{EntryOf(s)}}, {s} \ emitted)

\* Any Close reports every completed segment of the trace.
StreamCompleted(s) ==
    /\ ~batchAll
    /\ WithinLimit => s # Root /\ ~InProgress(Root)
    /\ Report(s, Singles, Unreported)

StreamSegment(s) == StreamTree(s) \/ StreamNothing(s) \/ StreamCompleted(s)

\* Client.Emit hands the documents to Client.emit one after the other; the
\* JSON encoder reads the shared maps with no segment lock held.
BeginEncode(s) ==
    /\ pc[s] = "emitting" /\ encoding[s] = {}
    /\ \E d \in docs[s] :
          /\ encoding' = [encoding EXCEPT ![s] = {d}]
          /\ docs' = [docs EXCEPT ![s] = @ \ {d}]
    /\ UNCHANGED <<begun, subsegments, ended, emitted, counters, fault, shared,
                   pc, panicking, crashed, history>>

\* Faulty: Emit returns after one document.
EndEncodeFirst(s) ==
    /\ pc[s] = "emitting"
    /\ \E d \in encoding[s] :
          sent' = sent \cup {<<e.seg, e.fault>> : e \in {x \in d : x.done}}
    /\ encoding' = [encoding EXCEPT ![s] = {}]
    /\ pc' = [pc EXCEPT ![s] = "returned"]
    /\ UNCHANGED <<begun, subsegments, ended, emitted, counters, fault, shared,
                   panicking, docs, crashed, reports>>

\* The document is encoded and written.  After the last one Close returns, or
\* panics again with the value it recovered.
EndEncode(s) ==
    /\ pc[s] = "emitting"
    /\ \E d \in encoding[s] :
          sent' = sent \cup {<<e.seg, e.fault>> : e \in {x \in d : x.done}}
    /\ encoding' = [encoding EXCEPT ![s] = {}]
    /\ pc' = [pc EXCEPT ![s] = IF docs[s] = {} THEN "returned" ELSE "emitting"]
    /\ UNCHANGED <<begun, subsegments, ended, emitted, counters, fault, shared,
                   panicking, docs, crashed, reports>>

\* The steps the goroutine of a Close call takes by itself.
Continue(s) ==
    ~crashed /\ (AddPanic(s) \/ StreamSegment(s) \/ BeginEncode(s) \/ EndEncode(s))

\* The calls of the application.
Call(s) ==
    /\ ~crashed
    /\ \/ \E p \in Seg : BeginSubsegment(p, s)
       \/ AddError(s)
       \/ WriteShared(s)
       \/ Close(s)

Next == (\E s \in Seg : Call(s) \/ Continue(s)) /\ UNCHANGED strategy

\* The application owes nothing; a Close that was called runs to its end.
Fairness == \A s \in Seg : WF_vars(Continue(s) /\ UNCHANGED strategy)

Spec     == Init /\ [][Next]_vars
FairSpec == Spec /\ Fairness

----------------------------------------------------------------------------
\* Every variable holds a value of its type.
TypeOK ==
    /\ batchAll \in BOOLEAN /\ limit \in Nat
    /\ begun \subseteq Seg /\ ended \subseteq Seg /\ emitted \subseteq Seg
    /\ fault \subseteq Seg /\ shared \subseteq Seg /\ panicking \subseteq Seg
    /\ subsegments \in [Seg -> SUBSET Seg]
    /\ totalSegments \in Nat /\ closedSegments \in Nat /\ emittedSegments \in Nat
    /\ pc \in [Seg -> Stage]
    /\ docs \in [Seg -> SUBSET Doc] /\ encoding \in [Seg -> SUBSET Doc]
    /\ crashed \in BOOLEAN
    /\ reports \in [Seg -> Nat]
    /\ sent \subseteq Seg \X BOOLEAN

\* The lists of subsegments form one tree over the segments begun, whatever
\* the order in which parents and children begin and end: the walk of the
\* strategies misses no segment and visits none twice.
OneTree ==
    /\ Reachable = begun
    /\ \A p, q \in Seg : p # q => subsegments[p] \cap subsegments[q] = {}
    /\ \A p \in Seg : Root \notin subsegments[p]

\* The counters of the root that the strategy decides by count the segments
\* begun and ended, and the documents' completed entries.
CountersAgree ==
    /\ totalSegments = Cardinality(begun)
    /\ closedSegments = Cardinality(ended)
    /\ emittedSegments >= Cardinality(emitted)
    /\ \A s \in Seg : s \in emitted <=> reports[s] > 0

\* Is a Close call of s between close() and StreamSegment?
BeforeStream(s) == pc[s] \in {"closed", "recovered"}

\* With LimitSubsegment, once the root is closed a completed segment is marked
\* as reported, or a Close call that will report it is on its way: skipping a
\* subsegment because the root "will emit with other segments" never strands
\* it.  (BatchAll gives up a subsegment closed after the root's report.)
NothingStranded ==
    (~batchAll /\ Root \in ended) =>
        \A s \in ended \ emitted : BeforeStream(s) \/ BeforeStream(Root)

\* As long as the root is open and the trace has no more subsegments than the
\* limit, nothing of it is reported, however many Close calls are on their way.
BatchedWithinLimit ==
    (InProgress(Root) /\ Cardinality(begun) <= limit + 1) => emitted = {}

\* What streamingStrategyLimitSubsegmentContext.serialize says it does,
\* "search completed segments and emit if it is not emitted": no segment is
\* reported as completed twice.
ReportedOnce == \A s \in Seg : reports[s] <= 1

\* Has StreamSegment returned to the Close call of s?
Streamed(s) == pc[s] \in {"emitting", "returned"}

\* A second report of a segment as completed comes from the tree of the root
\* alone: there are never three, until the root's own Close call has reported
\* there is no second one, and BatchAll and a limit of zero, which batches
\* nothing, exclude it altogether.
TwiceByRootOnly ==
    \A s \in Seg :
        /\ reports[s] <= 2
        /\ reports[s] = 2 => Streamed(Root) /\ ~batchAll /\ limit > 0

\* No Close call of the trace is on its way.
Quiet == \A s \in ended : pc[s] = "returned"

\* The panic that a deferred Close recovers shows as a fault in what the trace
\* reported once its Close calls have returned, as TestSegmentPanic asserts of
\* a single goroutine; past the limit the Close of another segment may come in
\* between close() and AddPanic, and report the segment without it.
PanicReported ==
    (Root \in ended /\ Quiet /\ (batchAll \/ WithinLimit)) =>
        \A s \in panicking : <<s, TRUE>> \in sent

\* No map of a segment is written while a document that shares it is encoded.
NoMapRace == ~crashed

\* A completed segment of a closed trace reaches the daemon's socket.  BatchAll
\* does so for what has ended when the root's Close takes the lock.
CompletedIsSent ==
    \A s \in Seg : (s \in ended /\ Root \in ended /\ (batchAll => BeforeStream(Root)))
                      ~> (\E f \in BOOLEAN : <<s, f>> \in sent)
=============================================================================
