------------------------------ MODULE MCService ------------------------------
\* Service with two requests that share two connections.
EXTENDS Service, TLC

MCStatuses == {103, 200, 404, 429, 503}
MCWriters == {{}, {"Flusher", "Hijacker", "StringWriter", "ReaderFrom"}}
MCSymmetry == Permutations(Conn)
=============================================================================
