-------------------------- MODULE StructuredTrace --------------------------
(***************************************************************************)
(* Segment under the discipline of the package's examples: `defer          *)
(* seg.Close()` around a function that waits for the goroutines it starts. *)
(* A subsegment begins while its parent is open, its Close has returned    *)
(* before the parent's is called, and a segment is written only while it   *)
(* is open.  Siblings still run concurrently.                              *)
(***************************************************************************)
EXTENDS Segment

StructuredCall(s) ==
    /\ ~crashed
    /\ \/ \E p \in Seg : InProgress(p) /\ BeginSubsegment(p, s)
       \/ InProgress(s) /\ AddError(s)
       \/ InProgress(s) /\ WriteShared(s)
       \/ (\A c \in subsegments[s] : pc[c] = "returned") /\ Close(s)

StructuredNext ==
    (\E s \in Seg : StructuredCall(s) \/ Continue(s)) /\ UNCHANGED strategy

StructuredSpec == Init /\ [][StructuredNext]_vars

----------------------------------------------------------------------------
\* After the root's Close has returned every segment of the trace was sent.
AllSent ==
    pc[Root] = "returned" =>
        \A s \in begun : \E f \in BOOLEAN : <<s, f>> \in sent
=============================================================================
