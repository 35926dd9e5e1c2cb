---------------------------- MODULE TraceReport ----------------------------
(***************************************************************************)
(* What a trace promises its application, without Close calls, documents   *)
(* or locks: segments are begun, completed and reported, and a report is   *)
(* never a part of what is complete.  A report before the root completes   *)
(* is allowed only to a trace that has outgrown the limit, and some traces *)
(* are reported once.                                                      *)
(***************************************************************************)
EXTENDS Integers, FiniteSets

CONSTANTS Seg, Root

VARIABLES
    once,    \* is the trace reported once only?  It and the limit are chosen at
    limit,   \*   the start
    begun, completed, reported

traceVars == <<once, limit, begun, completed, reported>>

Init == once \in BOOLEAN /\ limit \in Nat /\ begun = {Root} /\ completed = {} /\ reported = {}

Begin(s) ==
    /\ s \in Seg \ begun
    /\ begun' = begun \cup {s}
    /\ UNCHANGED <<once, limit, completed, reported>>

Complete(s) ==
    /\ s \in begun \ completed
    /\ completed' = completed \cup {s}
    /\ UNCHANGED <<once, limit, begun, reported>>

Outgrown == Cardinality(begun) > limit + 1

Flush ==
    /\ Root \in completed \/ (Outgrown /\ ~once)
    /\ once => reported = {}
    /\ reported' = completed
    /\ UNCHANGED <<once, limit, begun, completed>>

Next == Flush \/ \E s \in Seg : Begin(s) \/ Complete(s)

\* After the root completes what is complete is reported in the end, unless
\* the one report is made; before that the trace may wait for the root for ever.
Fairness == WF_traceVars(Flush /\ Root \in completed)

Spec     == Init /\ [][Next]_traceVars
FairSpec == Spec /\ Fairness

----------------------------------------------------------------------------
\* Only completed segments are reported, only begun segments complete.
Ordered == reported \subseteq completed /\ completed \subseteq begun /\ begun \subseteq Seg

\* A trace within the limit is reported in one piece, after its root.
Batched == reported # {} => Root \in completed \/ (Outgrown /\ ~once)

\* What was reported stays reported and complete.
Monotonic == [][reported \subseteq reported' /\ completed \subseteq completed']_traceVars

\* Whatever completes in a closed trace is reported.
CompletedIsReported == \A s \in Seg : (s \in completed /\ Root \in completed) ~> s \in reported
=============================================================================
