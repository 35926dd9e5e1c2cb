----------------------------- MODULE HttpHandler -----------------------------
(***************************************************************************)
(* Requests served through xrayhttp.Handler (xrayhttp/handler.go): the     *)
(* root segment of each request, and the response writer that the          *)
(* application's handler gets instead of the server's (wrap.go).           *)
(*                                                                         *)
(* The server is external: it sends the first status it is told, or 200    *)
(* with the first byte, or when the handler returns.                       *)
(*                                                                         *)
(* A definition marked "Faulty" is what a slip in the code would make of   *)
(* the one after it; no specification uses it.                             *)
(***************************************************************************)
EXTENDS Integers

CONSTANTS
    Req,        \* the requests
    Statuses,   \* the statuses that a handler sets
    Writers     \* the optional interfaces that the server's writer may have

Optional == {"Flusher", "CloseNotifier", "Hijacker", "Pusher", "ReaderFrom", "StringWriter"}

ASSUME HandlerAssumption ==
    /\ Statuses \subseteq 100..599
    /\ \A w \in Writers : w \subseteq Optional

NoStatus == 0
SwitchingProtocols == 101
OK == 200

VARIABLES
    serverWriter,     \* external: the interfaces of the server's response writer
    serving,     \* "new", "running", "returned", "aborted"
    rootSeg,     \* serverResponseTracer.ctx and seg: "none", "open", "closed"
    respSeg,     \* respCtx and respSeg
    status,      \* serverResponseTracer.status
    hijacked,
    recorded,    \* the status in the root's document
    flags,       \* the root's flags: "error", "throttle", "fault"
    respFault,   \* the fault of the response's subsegment
    cancelled,   \* external: the client has gone
    wire,        \* external: the status that the server sent
    past,        \* history: the server sent 200 by itself
    again        \* history: the tracer was told another status after the server
                 \*   had sent one

handlerVars == <<serverWriter, serving, rootSeg, respSeg, status, hijacked, recorded, flags,
                 respFault, cancelled, wire, past, again>>

HandlerInit ==
    /\ serverWriter \in Writers
    /\ serving = [r \in Req |-> "new"]
    /\ rootSeg = [r \in Req |-> "none"] /\ respSeg = [r \in Req |-> "none"]
    /\ status = [r \in Req |-> NoStatus] /\ hijacked = [r \in Req |-> FALSE]
    /\ recorded = [r \in Req |-> NoStatus] /\ flags = [r \in Req |-> {}]
    /\ respFault = [r \in Req |-> FALSE]
    /\ cancelled = [r \in Req |-> FALSE]
    /\ wire = [r \in Req |-> NoStatus]
    /\ past = [r \in Req |-> FALSE] /\ again = [r \in Req |-> FALSE]

\* The request's context ends when the client goes or ServeHTTP is over.
Over(r) == serving[r] \in {"returned", "aborted"}
Done(r) == cancelled[r] \/ Over(r)

\* wrap: the writer has the optional interfaces of the server's, no other.
Wrap(w) == {i \in Optional : i \in w}

----------------------------------------------------------------------------
ServeHTTP(r) ==
    /\ serving[r] = "new"
    /\ serving' = [serving EXCEPT ![r] = "running"]
    /\ rootSeg' = [rootSeg EXCEPT ![r] = "open"]
    /\ UNCHANGED <<serverWriter, respSeg, status, hijacked, recorded, flags, respFault, cancelled,
                   wire, past, again>>

\* close, without a panic: the two segments end, if they are open.
CloseRoot(r) ==
    /\ respSeg' = [respSeg EXCEPT ![r] = IF @ = "open" THEN "closed" ELSE @]
    /\ rootSeg' = [rootSeg EXCEPT ![r] = "closed"]

\* Faulty: the root learns nothing of the panic.
CloseRootQuietly(r) ==
    /\ CloseRoot(r)
    /\ respFault' = [respFault EXCEPT ![r] = @ \/ respSeg[r] = "open"]
    /\ UNCHANGED flags

\* close, recovering from a panic.
CloseRootPanicking(r) ==
    /\ CloseRoot(r)
    /\ respFault' = [respFault EXCEPT ![r] = @ \/ respSeg[r] = "open"]
    /\ flags' = IF rootSeg[r] = "open" THEN [flags EXCEPT ![r] = @ \cup {"fault"}] ELSE flags

\* External: what the server makes of a status; those below 200 precede the
\* response, but for 101.
Final(s) == s >= OK \/ s = SwitchingProtocols

Told(r, s) ==
    /\ wire' = [wire EXCEPT ![r] = IF @ = NoStatus /\ Final(s) THEN s ELSE @]
    /\ again' = [again EXCEPT ![r] = @ \/ wire[r] \notin {NoStatus, s}]
    /\ UNCHANGED past

\* External: the server sends 200 by itself.
SendsOK(r) ==
    /\ wire' = [wire EXCEPT ![r] = IF @ = NoStatus THEN OK ELSE @]
    /\ past' = [past EXCEPT ![r] = @ \/ wire[r] = NoStatus]
    /\ UNCHANGED again

\* A subsegment for the response is begun in the context of the request.
SetStatus(r, s) ==
    /\ respSeg' = [respSeg EXCEPT ![r] = "open"]
    /\ status' = [status EXCEPT ![r] = s]
    /\ Told(r, s)
    /\ UNCHANGED <<serverWriter, serving, rootSeg, hijacked, recorded, flags, respFault, cancelled>>

\* The handler ends with a panic.
HandlerPanics(r) ==
    /\ serving[r] = "running"
    /\ serving' = [serving EXCEPT ![r] = "aborted"]
    /\ CloseRootPanicking(r)
    /\ UNCHANGED <<serverWriter, status, hijacked, recorded, cancelled, wire, past, again>>

\* Once the connection is hijacked there is no context left to begin the
\* subsegment in: the call panics.
WriteHeader(r, s) ==
    /\ serving[r] = "running"
    /\ \/ ~hijacked[r] /\ SetStatus(r, s)
       \/ hijacked[r] /\ HandlerPanics(r)

\* Faulty: the server is told the status that the first byte implies, the tracer
\* is not.
WriteUnnoted(r) ==
    /\ serving[r] = "running" /\ ~hijacked[r]
    /\ wire' = [wire EXCEPT ![r] = IF @ = NoStatus THEN OK ELSE @]
    /\ UNCHANGED <<serverWriter, serving, rootSeg, respSeg, status, hijacked, recorded, flags,
                   respFault, cancelled, past, again>>

\* After Hijack it returns an error and changes nothing.
Write(r) ==
    /\ serving[r] = "running" /\ ~hijacked[r]
    /\ \/ status[r] = NoStatus /\ SetStatus(r, OK)
       \/ /\ status[r] # NoStatus
          /\ SendsOK(r)
          /\ UNCHANGED <<serverWriter, serving, rootSeg, respSeg, status, hijacked, recorded, flags,
                         respFault, cancelled>>

\* WriteString, ReadFrom and Flush go past the status.
WritePastStatus(r) ==
    /\ serving[r] = "running" /\ ~hijacked[r]
    /\ Wrap(serverWriter) \cap {"StringWriter", "ReaderFrom", "Flusher"} # {}
    /\ SendsOK(r)
    /\ UNCHANGED <<serverWriter, serving, rootSeg, respSeg, status, hijacked, recorded, flags,
                   respFault, cancelled>>

\* The application takes the connection, when the server lets it.  It has the
\* segments closed although the handler goes on.
Hijack(r) ==
    /\ serving[r] = "running" /\ ~hijacked[r]
    /\ "Hijacker" \in Wrap(serverWriter)
    /\ hijacked' = [hijacked EXCEPT ![r] = TRUE]
    /\ status' = [status EXCEPT ![r] = IF @ = NoStatus THEN SwitchingProtocols ELSE @]
    /\ recorded' = [recorded EXCEPT ![r] = status'[r]]
    /\ CloseRoot(r)
    /\ UNCHANGED <<serverWriter, serving, flags, respFault, cancelled, wire, past, again>>

FlagsOf(s) ==
    (IF s \in 400..499 THEN {"error"} ELSE {})
        \cup (IF s = 429 THEN {"throttle"} ELSE {})
        \cup (IF s \in 500..599 THEN {"fault"} ELSE {})

\* The handler returns: the response is recorded, unless Hijack did it.
HandlerReturns(r) ==
    /\ serving[r] = "running"
    /\ serving' = [serving EXCEPT ![r] = "returned"]
    /\ \/ hijacked[r] /\ UNCHANGED <<recorded, flags, wire, past, again>>
       \/ /\ ~hijacked[r]
          /\ recorded' = [recorded EXCEPT ![r] = status[r]]
          /\ flags' = [flags EXCEPT ![r] =
                          @ \cup IF cancelled[r] THEN {"error"} ELSE FlagsOf(status[r])]
          /\ SendsOK(r)
    /\ CloseRoot(r)
    /\ UNCHANGED <<serverWriter, status, hijacked, respFault, cancelled>>

\* External: the client closes the connection.
CancelRequest(r) ==
    /\ serving[r] = "running" /\ ~cancelled[r]
    /\ cancelled' = [cancelled EXCEPT ![r] = TRUE]
    /\ UNCHANGED <<serverWriter, serving, rootSeg, respSeg, status, hijacked, recorded, flags,
                   respFault, wire, past, again>>

----------------------------------------------------------------------------
\* A call of the response writer.
UseWriter(r) ==
    \/ \E s \in Statuses : WriteHeader(r, s)
    \/ Write(r) \/ WritePastStatus(r)

HandlerNext ==
    \E r \in Req :
        \/ ServeHTTP(r) \/ UseWriter(r) \/ Hijack(r)
        \/ HandlerReturns(r) \/ HandlerPanics(r) \/ CancelRequest(r)

HandlerSpec == HandlerInit /\ [][HandlerNext]_handlerVars

----------------------------------------------------------------------------
\* The document of a request tells the status that the client got.  It tells none,
\* or one below 200, when the server had to send 200 by itself: the handler wrote
\* nothing, or began with WriteString, ReadFrom, Flush or a status below 200.  Only
\* another status, set when the response has begun, is told and nobody gets it.
\* How the request is to be counted always follows from the status told.
StatusTrue ==
    \A r \in Req :
        serving[r] = "returned" /\ ~hijacked[r] =>
            /\ ~again[r] => \/ recorded[r] = wire[r]
                            \/ past[r] /\ wire[r] = OK /\ ~Final(recorded[r])
            /\ ("error" \in flags[r]) = (cancelled[r] \/ recorded[r] \in 400..499)
            /\ ~cancelled[r] => /\ ("throttle" \in flags[r]) = (recorded[r] = 429)
                                /\ ("fault" \in flags[r]) = (recorded[r] \in 500..599)

\* A panic is a fault of the root, and of the response if that had begun,
\* whatever the handler did before, as long as it left the connection alone.
PanicShown ==
    \A r \in Req :
        serving[r] = "aborted" =>
            /\ rootSeg[r] = "closed" /\ respSeg[r] # "open"
            /\ ~hijacked[r] => /\ "fault" \in flags[r]
                               /\ respSeg[r] = "closed" => respFault[r]
=============================================================================
