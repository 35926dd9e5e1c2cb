----------------------------- MODULE HttpClient -----------------------------
(***************************************************************************)
(* One request through xrayhttp.Client: RoundTrip, the subsegments its     *)
(* httptrace hooks begin and close (xrayhttp/client_tracer.go) and the     *)
(* tracer of the response body (xrayhttp/client.go).  Each hook runs       *)
(* under segs.mu or r.mu, called by a goroutine of net/http.Transport.     *)
(*                                                                         *)
(* The transport is external: it may dial in the background while it       *)
(* waits for an idle connection, dial two addresses at once, retry on      *)
(* another connection, and call hooks after the request has failed.        *)
(*                                                                         *)
(* A definition marked "Faulty" is what a slip in the code would make of   *)
(* the one after it; no specification uses it.                             *)
(***************************************************************************)
EXTENDS Integers, FiniteSets

CONSTANT MaxAttempts   \* bound: connections the transport asks for

ASSUME AttemptsAssumption == MaxAttempts \in Nat \ {0}

Attempts == 1..MaxAttempts

\* The subsegments of httpSubsegments, and all subsegments of the request.
Hooked == {"connect", "dns", "dial", "tls", "request"}
Kinds  == Hooked \cup {"remote", "response"}

\* Where RoundTrip is.
Stage == {"begin", "ask", "getting", "got", "failed", "cancel", "close", "returned"}

\* Where the goroutine that dials for an attempt is.
Dialing == {"off", "start", "lookup", "resolved", "connecting", "connected",
            "handshake", "ready", "failed"}

VARIABLES
    held,       \* kinds of subsegments that a field (connSeg, seg, ...) refers to
    open,       \* open[k]: subsegments of kind k begun and not closed
    stage, attempt,
    body,       \* clientResponseTracer.body: "none", "open", "closed"
    dialer,     \* external: the dial of each attempt
    connects,   \* external: addresses an attempt is connecting to
    writer,     \* external: is the request still to be written, by attempt
    reader,     \* external: is the first byte still to come, by attempt
    raced,      \* history: two addresses were dialed at once
    late,       \* history: the first byte came after the tracer was closed
    overwritten \* history: subsegments whose field was given to another one

subsegments == <<held, open, overwritten>>
transport == <<dialer, connects, writer, reader, raced>>
vars == <<subsegments, stage, attempt, body, transport, late>>

Init ==
    /\ held = {} /\ open = [k \in Kinds |-> 0] /\ overwritten = [k \in Kinds |-> 0]
    /\ stage = "begin" /\ attempt = 0 /\ body = "none"
    /\ dialer = [a \in Attempts |-> "off"] /\ connects = [a \in Attempts |-> 0]
    /\ writer = [a \in Attempts |-> FALSE] /\ reader = [a \in Attempts |-> FALSE]
    /\ raced = FALSE /\ late = FALSE

----------------------------------------------------------------------------
\* BeginSubsegment into the field of kind k, and Close of the ones that the
\* fields of kinds ks hold.

Overwrite(k) ==
    overwritten' = [overwritten EXCEPT ![k] = IF k \in held THEN @ + 1 ELSE @]

Begin(k) ==
    /\ held' = held \cup {k}
    /\ open' = [open EXCEPT ![k] = @ + 1]
    /\ Overwrite(k)

CloseHeld(ks) ==
    /\ held' = held \ ks
    /\ open' = [k \in Kinds |-> IF k \in ks \cap held THEN open[k] - 1 ELSE open[k]]
    /\ UNCHANGED overwritten

----------------------------------------------------------------------------
\* The goroutine that called RoundTrip.

\* BeginSubsegment for the host; then the transport runs.
RoundTrip ==
    /\ stage = "begin"
    /\ stage' = "ask"
    /\ Begin("remote")
    /\ UNCHANGED <<attempt, body, transport, late>>

\* A dial starts unless an idle connection is at hand.
GetConn ==
    /\ stage = "ask"
    /\ stage' = "getting" /\ attempt' = attempt + 1
    /\ Begin("connect")
    /\ \E d \in {"off", "start"} : dialer' = [dialer EXCEPT ![attempt + 1] = d]
    /\ UNCHANGED <<body, connects, writer, reader, raced, late>>

\* External: the connection is used.
UseConn ==
    /\ stage = "getting"
    /\ stage' = "got"
    /\ writer' = [writer EXCEPT ![attempt] = TRUE]
    /\ reader' = [reader EXCEPT ![attempt] = TRUE]
    /\ Overwrite("request")
    /\ UNCHANGED <<attempt, body, dialer, connects, raced, late>>

\* Faulty: the subsegment of the connection is forgotten, not closed.
GotConnForgets ==
    /\ UseConn
    /\ held' = (held \ {"connect"}) \cup {"request"}
    /\ open' = [open EXCEPT !["request"] = @ + 1]

\* The connection dialed, or one that became idle meanwhile: then the dial goes
\* on by itself.
GotConn ==
    /\ UseConn
    /\ held' = (held \ {"connect"}) \cup {"request"}
    /\ open' = [open EXCEPT !["connect"] = IF "connect" \in held THEN @ - 1 ELSE @,
                            !["request"] = @ + 1]

\* External: the connection broke before it answered.
Retry ==
    /\ stage = "got" /\ reader[attempt] /\ attempt < MaxAttempts
    /\ stage' = "ask"
    /\ reader' = [reader EXCEPT ![attempt] = FALSE]
    /\ UNCHANGED <<subsegments, attempt, body, dialer, connects, writer, raced, late>>

\* The transport returns a response, or an error.  The tracer takes the body
\* unless the response switches protocols.
Respond ==
    /\ stage = "got" /\ ~reader[attempt]
    /\ stage' = "cancel"
    /\ \/ body' = "open" /\ UNCHANGED subsegments
       \/ body' = body /\ CloseHeld({"response"})
    /\ UNCHANGED <<attempt, transport, late>>

\* It may fail before it asks for a connection, too.
Fail ==
    /\ stage \in {"ask", "getting", "got"}
    /\ stage' = "failed"
    /\ UNCHANGED <<subsegments, attempt, body, transport, late>>

CloseTracer ==
    /\ stage = "failed"
    /\ stage' = "cancel"
    /\ CloseHeld({"response"})
    /\ UNCHANGED <<attempt, body, transport, late>>

\* The deferred calls: cancel, and Close of the host's subsegment.
Cancel ==
    /\ stage = "cancel"
    /\ stage' = "close"
    /\ CloseHeld(Hooked)
    /\ UNCHANGED <<attempt, body, transport, late>>

Return ==
    /\ stage = "close"
    /\ stage' = "returned"
    /\ CloseHeld({"remote"})
    /\ UNCHANGED <<attempt, body, transport, late>>

----------------------------------------------------------------------------
\* The application reads the body to its end, perhaps, and closes it.

ReadToEnd ==
    /\ stage = "returned" /\ body = "open"
    /\ CloseHeld({"response"})
    /\ UNCHANGED <<stage, attempt, body, transport, late>>

\* Faulty: Close leaves the subsegment to Read.
CloseBodyOnly ==
    /\ stage = "returned" /\ body = "open"
    /\ body' = "closed"
    /\ UNCHANGED <<subsegments, stage, attempt, transport, late>>

CloseBody ==
    /\ stage = "returned" /\ body = "open"
    /\ body' = "closed"
    /\ CloseHeld({"response"})
    /\ UNCHANGED <<stage, attempt, transport, late>>

----------------------------------------------------------------------------
\* The goroutine that dials for attempt a, and its hooks.  It outlives the
\* request.  A hook of a connection does nothing unless connCtx is set.

Dial(a, from, to) ==
    /\ dialer[a] \in from
    /\ dialer' = [dialer EXCEPT ![a] = to]
    /\ UNCHANGED <<stage, attempt, body, writer, reader, late>>

\* Faulty: connCtx is not tested.
BeginAnyway(k) == Begin(k)

BeginUnderConn(k) ==
    \/ "connect" \in held /\ Begin(k)
    \/ "connect" \notin held /\ UNCHANGED subsegments

\* An error ends the subsegment of the connection as well.
EndUnderConn(k, err) ==
    \/ k \in held /\ CloseHeld({k} \cup IF err THEN {"connect"} ELSE {})
    \/ k \notin held /\ UNCHANGED subsegments

DNSStart(a) ==
    /\ Dial(a, {"start"}, "lookup")
    /\ BeginUnderConn("dns")
    /\ UNCHANGED <<connects, raced>>

DNSDone(a) ==
    /\ \E err \in BOOLEAN :
          /\ Dial(a, {"lookup"}, IF err THEN "failed" ELSE "resolved")
          /\ EndUnderConn("dns", err)
    /\ UNCHANGED <<connects, raced>>

\* An address of the host, the next one after an error, or a second one while
\* the first does not answer.
ConnectStart(a) ==
    /\ Dial(a, {"start", "resolved", "connecting"}, "connecting")
    /\ connects[a] < 2
    /\ connects' = [connects EXCEPT ![a] = @ + 1]
    /\ raced' = (raced \/ connects[a] > 0)
    /\ BeginUnderConn("dial")

\* One address answers, or does not; when one has answered the other attempt is
\* cancelled.
ConnectDone(a) ==
    /\ connects[a] > 0
    /\ connects' = [connects EXCEPT ![a] = @ - 1]
    /\ \/ Dial(a, {"connecting"}, "connected") /\ EndUnderConn("dial", FALSE)
       \/ /\ \E to \in {"resolved", "failed"} :
                 Dial(a, {"connecting"}, IF connects[a] > 1 THEN "connecting" ELSE to)
          /\ EndUnderConn("dial", TRUE)
       \/ /\ dialer[a] # "connecting" /\ Dial(a, {dialer[a]}, dialer[a])
          /\ EndUnderConn("dial", TRUE)
    /\ UNCHANGED raced

TLSHandshakeStart(a) ==
    /\ Dial(a, {"connected"}, "handshake")
    /\ BeginUnderConn("tls")
    /\ UNCHANGED <<connects, raced>>

TLSHandshakeDone(a) ==
    /\ \E err \in BOOLEAN :
          /\ Dial(a, {"handshake"}, IF err THEN "failed" ELSE "ready")
          /\ EndUnderConn("tls", err)
    /\ UNCHANGED <<connects, raced>>

----------------------------------------------------------------------------
\* The goroutines that write to the connection of attempt a and read from it;
\* either may be gone before it calls its hook.

WroteRequest(a) ==
    /\ writer[a]
    /\ writer' = [writer EXCEPT ![a] = FALSE]
    /\ CloseHeld({"request"})
    /\ UNCHANGED <<stage, attempt, body, dialer, connects, reader, raced, late>>

GotFirstResponseByte(a) ==
    /\ reader[a]
    /\ reader' = [reader EXCEPT ![a] = FALSE]
    /\ late' = (late \/ stage \in {"cancel", "close", "returned"})
    /\ \/ "response" \notin held /\ Begin("response")
       \/ "response" \in held /\ UNCHANGED subsegments
    /\ UNCHANGED <<stage, attempt, body, dialer, connects, writer, raced>>

----------------------------------------------------------------------------
Next ==
    \/ RoundTrip \/ GetConn \/ GotConn \/ Retry \/ Respond \/ Fail
    \/ CloseTracer \/ Cancel \/ Return
    \/ ReadToEnd \/ CloseBody
    \/ \E a \in Attempts :
          \/ DNSStart(a) \/ DNSDone(a) \/ ConnectStart(a) \/ ConnectDone(a)
          \/ TLSHandshakeStart(a) \/ TLSHandshakeDone(a)
          \/ WroteRequest(a) \/ GotFirstResponseByte(a)

Spec == Init /\ [][Next]_vars

----------------------------------------------------------------------------
\* Every variable holds a value of its type.
TypeOK ==
    /\ held \subseteq Kinds /\ open \in [Kinds -> Nat] /\ overwritten \in [Kinds -> Nat]
    /\ stage \in Stage /\ attempt \in 0..MaxAttempts /\ body \in {"none", "open", "closed"}
    /\ dialer \in [Attempts -> Dialing] /\ connects \in [Attempts -> 0..2]
    /\ writer \in [Attempts -> BOOLEAN] /\ reader \in [Attempts -> BOOLEAN]
    /\ raced \in BOOLEAN /\ late \in BOOLEAN

\* "Cancel clean up all segments": from then on that of the connection is closed,
\* and the only others that are open lost their field before: to a second address
\* or to another attempt.  The hooks that come late, in any order, add none.
CancelCleansUp ==
    stage \in {"close", "returned"} =>
        /\ open["connect"] = 0
        /\ \A k \in Hooked : open[k] = overwritten[k]

\* The subsegment of the response is closed when the body is, or when there is
\* none, unless the first byte came after the request had failed.
ResponseClosed ==
    (body = "closed" \/ (stage = "returned" /\ body = "none")) =>
        open["response"] = 0 \/ late

\* Dialing a second address or trying again is the only way to lose sight of a
\* subsegment: without them every open one is referred to, so that a hook or
\* Cancel still can close it.
NothingOverwritten ==
    (attempt <= 1 /\ ~raced) =>
        \A k \in Kinds : open[k] = IF k \in held THEN 1 ELSE 0
=============================================================================
