----------------------------- MODULE MCSegment -----------------------------
\* Segment on a small trace, with TraceReport above it and the structured
\* discipline beside it.
EXTENDS SegmentRefinement, StructuredTrace, TLC
=============================================================================
