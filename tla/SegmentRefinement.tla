------------------------- MODULE SegmentRefinement -------------------------
(***************************************************************************)
(* Segment implements TraceReport: a segment is complete when close() has  *)
(* set its end time and reported when a strategy has marked it as emitted. *)
(***************************************************************************)
EXTENDS Segment

Trace == INSTANCE TraceReport WITH once <- batchAll, completed <- ended, reported <- emitted

\* Every step of the code is a step of TraceReport: each StreamSegment call
\* reports everything that is complete or nothing, and not before the limit
\* is passed or the root is closed.
ImplementsTrace == Trace!Spec

\* With LimitSubsegment the last report comes as well, as long as a Close call
\* that began runs to its end.
ImplementsFairTrace == Trace!FairSpec

\* What was reported was reported by a Close call; with BatchAll by the root's.
ReportsHaveReporter ==
    emitted # {} => IF batchAll THEN Streamed(Root) ELSE \E s \in begun : Streamed(s)

\* The inductive invariant behind the safety properties: the strategies decide
\* by the tree, the stages of the Close calls and the counters together.
IInv ==
    /\ TypeOK
    /\ Root \in begun /\ ended \subseteq begun /\ emitted \subseteq ended
    /\ \A p \in Seg : subsegments[p] \subseteq begun
    /\ \A p \in Seg \ begun : subsegments[p] = {}
    /\ \A s \in Seg : s \in ended <=> pc[s] # "idle"
    /\ OneTree
    /\ CountersAgree
    /\ BatchedWithinLimit
    /\ NothingStranded
    /\ TwiceByRootOnly
    /\ ReportsHaveReporter
=============================================================================
