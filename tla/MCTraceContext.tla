--------------------------- MODULE MCTraceContext ---------------------------
\* TraceContext on requests that pass through a few services.
EXTENDS TraceContext, TLC

\* Segment ids are interchangeable.
Symmetry == Permutations(Segs)
=============================================================================
