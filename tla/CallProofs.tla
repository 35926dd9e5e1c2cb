----------------------------- MODULE CallProofs -----------------------------
(***************************************************************************)
(* The subsegments of the calls that the packages instrument: a request    *)
(* through xrayhttp.Client, for any number of connections that the         *)
(* transport asks for; the use of a database, for any number of requests,  *)
(* connections and calls; a call of an AWS client, however often it is     *)
(* tried.                                                                  *)
(***************************************************************************)
EXTENDS HttpClient, SqlConn, AwsCall, SequenceTheorems, TLAPS

----------------------------------------------------------------------------
\* A request through xrayhttp.Client.

\* The open subsegments of a kind are the one that the field refers to and those
\* it referred to before; of the host, the connection and the response there is
\* no other one.
SubsegmentsOK ==
    /\ held \subseteq Kinds /\ open \in [Kinds -> Nat] /\ overwritten \in [Kinds -> Nat]
    /\ \A k \in Kinds : open[k] = IF k \in held THEN overwritten[k] + 1 ELSE overwritten[k]
    /\ \A k \in {"remote", "connect", "response"} : overwritten[k] = 0

\* Which subsegments RoundTrip may hold, by where it is.
StageHolds ==
    /\ stage \in {"begin", "returned"} => "remote" \notin held
    /\ "connect" \in held => stage \in {"getting", "failed", "cancel"}
    /\ stage \in {"close", "returned"} => held \cap Hooked = {}
    /\ stage = "begin" => attempt = 0
    /\ stage = "ask" => attempt < MaxAttempts
    /\ attempt = 0 => stage \notin {"getting", "got"} /\ held \subseteq {"remote"}
    /\ attempt = 1 /\ stage = "getting" => "request" \notin held

\* The goroutines of attempts to come do not run yet.
IdleAhead ==
    \A a \in Attempts : a > attempt => dialer[a] = "off" /\ connects[a] = 0 /\ ~reader[a]

\* While one address is dialed at a time, its goroutine is in the stage that its
\* subsegment belongs to.
OneDial ==
    ~raced =>
        /\ \A a \in Attempts : connects[a] <= 1
        /\ attempt = 1 => /\ "dns" \in held => dialer[1] = "lookup"
                          /\ "dial" \in held => connects[1] > 0
                          /\ "tls" \in held => dialer[1] = "handshake"

\* The tracer of the body has nothing left once it is closed.
TracerDone ==
    /\ body # "none" => stage \in {"cancel", "close", "returned"}
    /\ body = "closed" => stage = "returned"
    /\ body = "closed" \/ (body = "none" /\ stage \in {"cancel", "close", "returned"}) =>
          "response" \notin held \/ late

\* The inductive invariant.
ClientIInv ==
    /\ TypeOK
    /\ SubsegmentsOK
    /\ StageHolds
    /\ IdleAhead
    /\ OneDial
    /\ TracerDone
    /\ NothingOverwritten

----------------------------------------------------------------------------
\* What beginning and closing subsegments does to them.
LEMMA Begins ==
    ASSUME SubsegmentsOK, NEW k \in Kinds, Begin(k),
           k \in {"remote", "connect", "response"} => k \notin held
    PROVE  SubsegmentsOK'
BY DEF SubsegmentsOK, Begin, Overwrite, Kinds, Hooked

LEMMA Closes ==
    ASSUME SubsegmentsOK, NEW ks, CloseHeld(ks)
    PROVE  SubsegmentsOK'
<1>1. \A k \in Kinds : open'[k] = IF k \in ks \cap held THEN open[k] - 1 ELSE open[k]
  BY DEF CloseHeld
<1>2. \A k \in Kinds : open[k] = IF k \in held THEN overwritten[k] + 1 ELSE overwritten[k]
  BY DEF SubsegmentsOK
<1>3. \A k \in Kinds : open[k] \in Nat /\ overwritten[k] \in Nat
  BY DEF SubsegmentsOK
<1>4. \A k \in Kinds : open'[k] = IF k \in held' THEN overwritten[k] + 1 ELSE overwritten[k]
  BY <1>1, <1>2, <1>3 DEF CloseHeld
<1>5. \A k \in Kinds : open'[k] \in Nat
  BY <1>3, <1>4
<1>6. held' \subseteq Kinds /\ open' \in [Kinds -> Nat] /\ overwritten' = overwritten
  BY <1>5 DEF SubsegmentsOK, CloseHeld
<1> QED
  BY <1>4, <1>6 DEF SubsegmentsOK

LEMMA HookBegins ==
    ASSUME SubsegmentsOK, NEW k \in Hooked \ {"connect"}, BeginUnderConn(k)
    PROVE  SubsegmentsOK'
<1>1. CASE Begin(k)
  BY <1>1, Begins DEF Kinds, Hooked
<1>2. CASE UNCHANGED subsegments
  BY <1>2 DEF SubsegmentsOK, subsegments
<1> QED
  BY <1>1, <1>2 DEF BeginUnderConn

LEMMA HookEnds ==
    ASSUME SubsegmentsOK, NEW k, NEW err \in BOOLEAN, EndUnderConn(k, err)
    PROVE  SubsegmentsOK'
<1>1. CASE CloseHeld({k} \cup IF err THEN {"connect"} ELSE {})
  BY <1>1, Closes
<1>2. CASE UNCHANGED subsegments
  BY <1>2 DEF SubsegmentsOK, subsegments
<1> QED
  BY <1>1, <1>2 DEF EndUnderConn

\* RoundTrip begins.
LEMMA RoundTripKeeps ==
    ASSUME ClientIInv, RoundTrip
    PROVE  ClientIInv'
<1>1. SubsegmentsOK'
  BY Begins DEF ClientIInv, StageHolds, RoundTrip, Kinds
<1>2. TypeOK'
  BY <1>1 DEF ClientIInv, SubsegmentsOK, TypeOK, Stage, RoundTrip, transport
<1>3. StageHolds'
  BY AttemptsAssumption DEF ClientIInv, StageHolds, RoundTrip, Begin
<1>4. IdleAhead'
  BY DEF ClientIInv, IdleAhead, RoundTrip, transport
<1>5. OneDial'
  BY DEF ClientIInv, OneDial, RoundTrip, Begin, transport
<1>6. TracerDone'
  BY DEF ClientIInv, TracerDone, RoundTrip
<1>7. NothingOverwritten'
  BY DEF ClientIInv, NothingOverwritten, SubsegmentsOK, StageHolds, RoundTrip, Begin,
      transport
<1> QED
  BY <1>1, <1>2, <1>3, <1>4, <1>5, <1>6, <1>7 DEF ClientIInv

\* A connection is asked for.
LEMMA GetConnKeeps ==
    ASSUME ClientIInv, GetConn
    PROVE  ClientIInv'
<1>1. SubsegmentsOK'
  BY Begins DEF ClientIInv, StageHolds, GetConn, Kinds, Hooked
<1>2. TypeOK'
  BY <1>1, AttemptsAssumption DEF ClientIInv, SubsegmentsOK, TypeOK, StageHolds,
      Attempts, Stage, Dialing, GetConn
<1>3. StageHolds'
  BY DEF ClientIInv, TypeOK, StageHolds, GetConn, Begin
<1>4. IdleAhead'
  BY DEF ClientIInv, TypeOK, IdleAhead, Attempts, GetConn
<1>5. OneDial'
  BY DEF ClientIInv, TypeOK, OneDial, StageHolds, GetConn, Begin
<1>6. TracerDone'
  BY DEF ClientIInv, TracerDone, GetConn
<1>7. NothingOverwritten'
  BY DEF ClientIInv, TypeOK, NothingOverwritten, StageHolds, GetConn, Begin
<1> QED
  BY <1>1, <1>2, <1>3, <1>4, <1>5, <1>6, <1>7 DEF ClientIInv

\* It is used.
LEMMA GotConnKeeps ==
    ASSUME ClientIInv, GotConn
    PROVE  ClientIInv'
<1>1. SubsegmentsOK'
  <2>1. /\ held' = (held \ {"connect"}) \cup {"request"}
        /\ open' = [open EXCEPT !["connect"] = IF "connect" \in held THEN @ - 1 ELSE @,
                               !["request"] = @ + 1]
        /\ Overwrite("request")
    BY DEF GotConn, UseConn
  <2>2. "connect" \in Kinds /\ "request" \in Kinds
    BY DEF Kinds, Hooked
  <2>3. \A k \in Kinds : open[k] \in Nat /\ overwritten[k] \in Nat
    BY DEF ClientIInv, SubsegmentsOK
  <2>4. \A k \in Kinds : overwritten'[k] = IF k = "request" /\ k \in held THEN overwritten[k] + 1
                                                                      ELSE overwritten[k]
    BY <2>1, <2>2 DEF ClientIInv, SubsegmentsOK, Overwrite
  <2>5. \A k \in Kinds : open'[k] = CASE k = "connect" /\ k \in held -> open[k] - 1
                                       [] k = "request" -> open[k] + 1
                                       [] OTHER -> open[k]
    BY <2>1, <2>2 DEF ClientIInv, SubsegmentsOK
  <2>6. \A k \in Kinds : open'[k] = IF k \in held' THEN overwritten'[k] + 1 ELSE overwritten'[k]
    BY <2>1, <2>3, <2>4, <2>5 DEF ClientIInv, SubsegmentsOK
  <2>7. \A k \in Kinds : overwritten'[k] \in Nat
    BY <2>3, <2>4
  <2>8. \A k \in Kinds : open'[k] \in Nat
    BY <2>6, <2>7
  <2>9. /\ held' \subseteq Kinds /\ open' \in [Kinds -> Nat] /\ overwritten' \in [Kinds -> Nat]
    BY <2>1, <2>2, <2>7, <2>8 DEF ClientIInv, SubsegmentsOK, Overwrite
  <2> QED
    BY <2>4, <2>6, <2>9 DEF ClientIInv, SubsegmentsOK, Kinds, Hooked
<1>2. TypeOK'
  BY <1>1 DEF ClientIInv, SubsegmentsOK, TypeOK, Stage, GotConn, UseConn
<1>3. StageHolds'
  BY DEF ClientIInv, StageHolds, GotConn, UseConn
<1>4. IdleAhead'
  BY DEF ClientIInv, IdleAhead, Attempts, GotConn, UseConn
<1>5. OneDial'
  BY DEF ClientIInv, OneDial, GotConn, UseConn
<1>6. TracerDone'
  BY DEF ClientIInv, TracerDone, GotConn, UseConn
<1>7. NothingOverwritten'
  BY DEF ClientIInv, TypeOK, NothingOverwritten, StageHolds, GotConn, UseConn
<1> QED
  BY <1>1, <1>2, <1>3, <1>4, <1>5, <1>6, <1>7 DEF ClientIInv

\* It breaks, or gives no response.
LEMMA BreakSteps ==
    ASSUME ClientIInv, Retry \/ Fail
    PROVE  ClientIInv'
<1>1. SubsegmentsOK'
  BY DEF ClientIInv, SubsegmentsOK, Retry, Fail, subsegments
<1>2. TypeOK'
  BY <1>1 DEF ClientIInv, SubsegmentsOK, TypeOK, Stage, Retry, Fail, transport
<1>3. StageHolds'
  BY DEF ClientIInv, StageHolds, Retry, Fail, subsegments
<1>4. IdleAhead'
  BY DEF ClientIInv, TypeOK, IdleAhead, Retry, Fail, transport
<1>5. OneDial'
  BY DEF ClientIInv, OneDial, Retry, Fail, transport, subsegments
<1>6. TracerDone'
  BY DEF ClientIInv, TracerDone, Retry, Fail
<1>7. NothingOverwritten'
  BY DEF ClientIInv, NothingOverwritten, Retry, Fail, transport, subsegments
<1> QED
  BY <1>1, <1>2, <1>3, <1>4, <1>5, <1>6, <1>7 DEF ClientIInv

\* A response comes.
LEMMA RespondStep ==
    ASSUME ClientIInv, Respond
    PROVE  ClientIInv'
<1>1. SubsegmentsOK'
  BY Closes DEF ClientIInv, SubsegmentsOK, Respond, subsegments
<1>2. TypeOK'
  BY <1>1 DEF ClientIInv, SubsegmentsOK, TypeOK, Stage, Respond, transport
<1>3. StageHolds'
  BY DEF ClientIInv, StageHolds, Respond
<1>4. IdleAhead'
  BY DEF ClientIInv, IdleAhead, Respond, transport
<1>5. OneDial'
  BY DEF ClientIInv, OneDial, Respond, CloseHeld, transport, subsegments
<1>6. TracerDone'
  BY DEF ClientIInv, TracerDone, Respond, CloseHeld
<1>7. NothingOverwritten'
  BY DEF ClientIInv, NothingOverwritten, Respond, CloseHeld, transport, subsegments
<1> QED
  BY <1>1, <1>2, <1>3, <1>4, <1>5, <1>6, <1>7 DEF ClientIInv

\* RoundTrip ends.
LEMMA ReturnSteps ==
    ASSUME ClientIInv, CloseTracer \/ Cancel \/ Return
    PROVE  ClientIInv'
<1>1. SubsegmentsOK'
  BY Closes DEF ClientIInv, CloseTracer, Cancel, Return
<1>2. TypeOK'
  BY <1>1 DEF ClientIInv, SubsegmentsOK, TypeOK, Stage, CloseTracer, Cancel, Return,
      transport
<1>3. StageHolds'
  BY DEF ClientIInv, StageHolds, Hooked, CloseTracer, Cancel, Return, CloseHeld
<1>4. IdleAhead'
  BY DEF ClientIInv, IdleAhead, CloseTracer, Cancel, Return, transport
<1>5. OneDial'
  BY DEF ClientIInv, OneDial, CloseTracer, Cancel, Return, CloseHeld, transport
<1>6. TracerDone'
  BY DEF ClientIInv, TracerDone, CloseTracer, Cancel, Return, CloseHeld
<1>7. NothingOverwritten'
  BY DEF ClientIInv, NothingOverwritten, CloseTracer, Cancel, Return, CloseHeld,
      transport
<1> QED
  BY <1>1, <1>2, <1>3, <1>4, <1>5, <1>6, <1>7 DEF ClientIInv

\* The body is read and closed.
LEMMA BodySteps ==
    ASSUME ClientIInv, ReadToEnd \/ CloseBody
    PROVE  ClientIInv'
<1>1. SubsegmentsOK'
  BY Closes DEF ClientIInv, ReadToEnd, CloseBody
<1>2. TypeOK'
  BY <1>1 DEF ClientIInv, SubsegmentsOK, TypeOK, ReadToEnd, CloseBody, transport
<1>3. StageHolds'
  BY DEF ClientIInv, StageHolds, ReadToEnd, CloseBody, CloseHeld
<1>4. IdleAhead'
  BY DEF ClientIInv, IdleAhead, ReadToEnd, CloseBody, transport
<1>5. OneDial'
  BY DEF ClientIInv, OneDial, ReadToEnd, CloseBody, CloseHeld, transport
<1>6. TracerDone'
  BY DEF TracerDone, ReadToEnd, CloseBody, CloseHeld
<1>7. NothingOverwritten'
  BY DEF ClientIInv, NothingOverwritten, ReadToEnd, CloseBody, CloseHeld, transport
<1> QED
  BY <1>1, <1>2, <1>3, <1>4, <1>5, <1>6, <1>7 DEF ClientIInv

\* A hook begins its subsegment.
LEMMA StartSteps ==
    ASSUME ClientIInv, NEW a \in Attempts, DNSStart(a) \/ TLSHandshakeStart(a)
    PROVE  ClientIInv'
<1>1. SubsegmentsOK'
  BY HookBegins DEF ClientIInv, DNSStart, TLSHandshakeStart, Hooked
<1>2. TypeOK'
  BY <1>1 DEF ClientIInv, SubsegmentsOK, TypeOK, Dialing, DNSStart, TLSHandshakeStart,
      Dial
<1>3. StageHolds'
  BY DEF ClientIInv, StageHolds, DNSStart, TLSHandshakeStart, Dial, BeginUnderConn,
      Begin, subsegments
<1>4. IdleAhead'
  BY DEF ClientIInv, TypeOK, IdleAhead, DNSStart, TLSHandshakeStart, Dial
<1>5. OneDial'
  <2>1. CASE DNSStart(a)
    BY <2>1 DEF ClientIInv, TypeOK, OneDial, IdleAhead, Attempts, DNSStart, Dial,
        BeginUnderConn, Begin, subsegments
  <2>2. CASE TLSHandshakeStart(a)
    BY <2>2 DEF ClientIInv, TypeOK, OneDial, IdleAhead, Attempts, TLSHandshakeStart,
        Dial, BeginUnderConn, Begin, subsegments
  <2> QED
    BY <2>1, <2>2
<1>6. TracerDone'
  BY DEF ClientIInv, TracerDone, DNSStart, TLSHandshakeStart, Dial, BeginUnderConn,
      Begin, subsegments
<1>7. NothingOverwritten'
  BY DEF ClientIInv, TypeOK, NothingOverwritten, OneDial, IdleAhead, Attempts, DNSStart,
      TLSHandshakeStart, Dial, BeginUnderConn, Begin, subsegments
<1> QED
  BY <1>1, <1>2, <1>3, <1>4, <1>5, <1>6, <1>7 DEF ClientIInv

\* A hook ends it.
LEMMA DoneSteps ==
    ASSUME ClientIInv, NEW a \in Attempts, DNSDone(a) \/ TLSHandshakeDone(a)
    PROVE  ClientIInv'
<1>1. SubsegmentsOK'
  BY HookEnds DEF ClientIInv, DNSDone, TLSHandshakeDone
<1>2. TypeOK'
  BY <1>1 DEF ClientIInv, SubsegmentsOK, TypeOK, Dialing, DNSDone, TLSHandshakeDone,
      Dial
<1>3. StageHolds'
  BY DEF ClientIInv, StageHolds, DNSDone, TLSHandshakeDone, Dial, EndUnderConn,
      CloseHeld, subsegments
<1>4. IdleAhead'
  BY DEF ClientIInv, TypeOK, IdleAhead, DNSDone, TLSHandshakeDone, Dial
<1>5. OneDial'
  <2>1. CASE DNSDone(a)
    BY <2>1 DEF ClientIInv, OneDial, DNSDone, Dial, EndUnderConn, CloseHeld,
        subsegments
  <2>2. CASE TLSHandshakeDone(a)
    BY <2>2 DEF ClientIInv, OneDial, TLSHandshakeDone, Dial, EndUnderConn, CloseHeld,
        subsegments
  <2> QED
    BY <2>1, <2>2
<1>6. TracerDone'
  BY DEF ClientIInv, TracerDone, DNSDone, TLSHandshakeDone, Dial, EndUnderConn,
      CloseHeld, subsegments
<1>7. NothingOverwritten'
  BY DEF ClientIInv, NothingOverwritten, DNSDone, TLSHandshakeDone, Dial, EndUnderConn,
      CloseHeld, subsegments
<1> QED
  BY <1>1, <1>2, <1>3, <1>4, <1>5, <1>6, <1>7 DEF ClientIInv

\* An address is dialed.
LEMMA ConnectStartKeeps ==
    ASSUME ClientIInv, NEW a \in Attempts, ConnectStart(a)
    PROVE  ClientIInv'
<1>1. SubsegmentsOK'
  BY HookBegins DEF ClientIInv, ConnectStart, Hooked
<1>2. /\ dialer' = [dialer EXCEPT ![a] = "connecting"]
      /\ connects' = [connects EXCEPT ![a] = @ + 1]
      /\ raced' = (raced \/ connects[a] > 0)
      /\ UNCHANGED <<stage, attempt, body, writer, reader, late>>
      /\ dialer[a] \in {"start", "resolved", "connecting"}
  BY DEF ConnectStart, Dial
<1>3. connects[a] \in 0..1 /\ connects \in [Attempts -> 0..2] /\ dialer \in [Attempts -> Dialing]
  BY DEF ClientIInv, TypeOK, ConnectStart
<1>4. connects' \in [Attempts -> 0..2] /\ dialer' \in [Attempts -> Dialing]
  <2>1. \A b \in Attempts : connects'[b] \in 0..2
    BY <1>2, <1>3
  <2> QED
    BY <1>2, <1>3 DEF Dialing
<1>5. raced' \in BOOLEAN
  BY <1>2 DEF TypeOK
<1>6. TypeOK'
  BY <1>1, <1>2, <1>4 DEF ClientIInv, SubsegmentsOK, TypeOK
<1>7. StageHolds'
  BY DEF ClientIInv, StageHolds, ConnectStart, Dial, BeginUnderConn, Begin, subsegments
<1>8. a <= attempt /\ attempt \in Nat /\ a \in Nat
  BY <1>2 DEF ClientIInv, TypeOK, IdleAhead, Attempts
<1>9. IdleAhead'
  BY <1>2 DEF ClientIInv, IdleAhead
<1>10. ~raced' => ~raced /\ connects[a] = 0 /\ connects'[a] = 1
  <2>1. ~raced' => ~(raced \/ connects[a] > 0)
    BY <1>2, Zenon
  <2>2. connects'[a] = connects[a] + 1
    BY <1>2, <1>3
  <2> QED
    BY <1>3, <2>1, <2>2
<1>11. (held' = held \/ held' = held \cup {"dial"}) /\ (attempt = 1 => a = 1)
  BY <1>8 DEF ConnectStart, BeginUnderConn, Begin, subsegments, Attempts
<1>12. OneDial'
  BY <1>2, <1>10, <1>11 DEF ClientIInv, OneDial
<1>13. TracerDone'
  BY <1>2, <1>11 DEF ClientIInv, TracerDone
<1>14. NothingOverwritten'
  <2>1. SUFFICES ASSUME attempt <= 1, ~raced'
                 PROVE  \A k \in Kinds : open'[k] = IF k \in held' THEN 1 ELSE 0
    BY <1>2, <1>10 DEF NothingOverwritten
  <2>2. attempt = 1 /\ a = 1
    BY <1>8, <2>1 DEF Attempts
  <2>3. "dial" \notin held
    BY <1>10, <2>1, <2>2 DEF ClientIInv, OneDial
  <2> QED
    BY <2>1, <2>3 DEF ClientIInv, TypeOK, NothingOverwritten, ConnectStart,
        BeginUnderConn, Begin, subsegments
<1> QED
  BY <1>1, <1>6, <1>7, <1>9, <1>12, <1>13, <1>14 DEF ClientIInv

\* It answers, or not.
LEMMA ConnectDoneKeeps ==
    ASSUME ClientIInv, NEW a \in Attempts, ConnectDone(a)
    PROVE  ClientIInv'
<1>1. SubsegmentsOK'
  BY HookEnds DEF ClientIInv, ConnectDone
<1>2. /\ connects' = [connects EXCEPT ![a] = @ - 1]
      /\ UNCHANGED <<raced, stage, attempt, body, writer, reader, late>>
      /\ connects[a] > 0
  BY DEF ConnectDone, Dial
<1>3. PICK to \in Dialing :
         /\ dialer' = [dialer EXCEPT ![a] = to]
         /\ to = dialer[a] \/ dialer[a] = "connecting"
  BY DEF ClientIInv, TypeOK, ConnectDone, Dial, Dialing
<1>4. connects \in [Attempts -> 0..2] /\ dialer \in [Attempts -> Dialing]
  BY DEF ClientIInv, TypeOK
<1>5. connects' \in [Attempts -> 0..2] /\ dialer' \in [Attempts -> Dialing]
  <2>1. \A b \in Attempts : connects'[b] \in 0..2
    BY <1>2, <1>4
  <2> QED
    BY <1>2, <1>3, <1>4, <2>1
<1>6. TypeOK'
  BY <1>1, <1>2, <1>5 DEF ClientIInv, SubsegmentsOK, TypeOK
<1>7. StageHolds'
  BY DEF ClientIInv, StageHolds, ConnectDone, Dial, EndUnderConn, CloseHeld, subsegments
<1>8. a <= attempt /\ attempt \in Nat /\ a \in Nat
  BY <1>2 DEF ClientIInv, TypeOK, IdleAhead, Attempts
<1>9. IdleAhead'
  BY <1>2, <1>3 DEF ClientIInv, IdleAhead
<1>10. held' \subseteq held /\ "dial" \notin held' /\ (attempt = 1 => a = 1)
  BY <1>8 DEF ConnectDone, EndUnderConn, CloseHeld, subsegments, Attempts
<1>11. \A b \in Attempts :
          /\ connects'[b] <= connects[b]
          /\ connects[b] \in 0..2 /\ connects'[b] \in 0..2
  BY <1>2, <1>4, <1>5
<1>12. OneDial'
  BY <1>2, <1>3, <1>10, <1>11 DEF ClientIInv, OneDial
<1>13. TracerDone'
  BY <1>2, <1>10 DEF ClientIInv, TracerDone
<1>14. NothingOverwritten'
  BY <1>2 DEF ClientIInv, NothingOverwritten, ConnectDone, EndUnderConn, CloseHeld,
      subsegments
<1> QED
  BY <1>1, <1>6, <1>7, <1>9, <1>12, <1>13, <1>14 DEF ClientIInv

\* The request is written.
LEMMA WriteStep ==
    ASSUME ClientIInv, NEW a \in Attempts, WroteRequest(a)
    PROVE  ClientIInv'
<1>1. SubsegmentsOK'
  BY Closes DEF ClientIInv, WroteRequest
<1>2. TypeOK'
  BY <1>1 DEF ClientIInv, SubsegmentsOK, TypeOK, WroteRequest
<1>3. StageHolds'
  BY DEF ClientIInv, StageHolds, WroteRequest, CloseHeld
<1>4. IdleAhead'
  BY DEF ClientIInv, IdleAhead, WroteRequest
<1>5. OneDial'
  BY DEF ClientIInv, OneDial, WroteRequest, CloseHeld
<1>6. TracerDone'
  BY DEF ClientIInv, TracerDone, WroteRequest, CloseHeld
<1>7. NothingOverwritten'
  BY DEF ClientIInv, NothingOverwritten, WroteRequest, CloseHeld
<1> QED
  BY <1>1, <1>2, <1>3, <1>4, <1>5, <1>6, <1>7 DEF ClientIInv

\* The first byte of the response is read.
LEMMA ReadStep ==
    ASSUME ClientIInv, NEW a \in Attempts, GotFirstResponseByte(a)
    PROVE  ClientIInv'
<1>1. SubsegmentsOK'
  BY Begins DEF ClientIInv, SubsegmentsOK, GotFirstResponseByte, subsegments, Kinds
<1>2. TypeOK'
  BY <1>1 DEF ClientIInv, SubsegmentsOK, TypeOK, GotFirstResponseByte
<1>3. StageHolds'
  BY DEF ClientIInv, StageHolds, IdleAhead, Hooked, Attempts, GotFirstResponseByte,
      Begin, subsegments
<1>4. IdleAhead'
  BY DEF ClientIInv, IdleAhead, GotFirstResponseByte
<1>5. OneDial'
  BY DEF ClientIInv, OneDial, GotFirstResponseByte, Begin, subsegments
<1>6. TracerDone'
  BY DEF ClientIInv, TracerDone, GotFirstResponseByte
<1>7. NothingOverwritten'
  BY DEF ClientIInv, NothingOverwritten, SubsegmentsOK, GotFirstResponseByte, Begin,
      subsegments
<1> QED
  BY <1>1, <1>2, <1>3, <1>4, <1>5, <1>6, <1>7 DEF ClientIInv

----------------------------------------------------------------------------
LEMMA ClientInit == Init => ClientIInv
<1> SUFFICES ASSUME Init PROVE ClientIInv
  OBVIOUS
<1>1. TypeOK
  <2>1. held \subseteq Kinds /\ open \in [Kinds -> Nat] /\ overwritten \in [Kinds -> Nat]
    BY DEF Init
  <2>2. stage \in Stage /\ attempt \in 0..MaxAttempts /\ body \in {"none", "open", "closed"}
    BY AttemptsAssumption DEF Init, Stage
  <2>3. dialer \in [Attempts -> Dialing] /\ connects \in [Attempts -> 0..2]
    BY DEF Init, Dialing
  <2>4. writer \in [Attempts -> BOOLEAN] /\ reader \in [Attempts -> BOOLEAN]
    BY DEF Init
  <2>5. raced \in BOOLEAN /\ late \in BOOLEAN
    BY DEF Init
  <2> QED
    BY <2>1, <2>2, <2>3, <2>4, <2>5 DEF TypeOK
<1>2. NothingOverwritten
  BY DEF Init, NothingOverwritten
<1>3. SubsegmentsOK
  BY DEF Init, SubsegmentsOK, Kinds, Hooked
<1>4. StageHolds /\ IdleAhead /\ OneDial /\ TracerDone
  BY DEF Init, StageHolds, IdleAhead, OneDial, TracerDone
<1> QED
  BY <1>1, <1>2, <1>3, <1>4 DEF ClientIInv

LEMMA ClientStutter ==
    ASSUME ClientIInv, UNCHANGED <<subsegments, stage, attempt, body, transport, late>>
    PROVE  ClientIInv'
<1> USE DEF subsegments, transport
<1>1. TypeOK' /\ NothingOverwritten'
  BY DEF ClientIInv, TypeOK, NothingOverwritten
<1>2. SubsegmentsOK' /\ StageHolds' /\ IdleAhead'
  BY DEF ClientIInv, SubsegmentsOK, StageHolds, IdleAhead
<1>3. OneDial' /\ TracerDone'
  BY DEF ClientIInv, OneDial, TracerDone
<1> QED
  BY <1>1, <1>2, <1>3 DEF ClientIInv

\* Every step keeps the invariant.
LEMMA ClientStep ==
    ASSUME ClientIInv, [Next]_vars
    PROVE  ClientIInv'
<1>1. CASE RoundTrip \/ GetConn \/ GotConn
  BY <1>1, RoundTripKeeps, GetConnKeeps, GotConnKeeps
<1>2. CASE Retry \/ Fail
  BY <1>2, BreakSteps
<1>3. CASE Respond \/ CloseTracer \/ Cancel \/ Return \/ ReadToEnd \/ CloseBody
  BY <1>3, RespondStep, ReturnSteps, BodySteps
<1>4. ASSUME NEW a \in Attempts,
             \/ DNSStart(a) \/ TLSHandshakeStart(a) \/ DNSDone(a) \/ TLSHandshakeDone(a)
      PROVE  ClientIInv'
  BY <1>4, StartSteps, DoneSteps
<1>5. ASSUME NEW a \in Attempts,
             \/ ConnectStart(a) \/ ConnectDone(a) \/ WroteRequest(a) \/ GotFirstResponseByte(a)
      PROVE  ClientIInv'
  BY <1>5, ConnectStartKeeps, ConnectDoneKeeps, WriteStep, ReadStep
<1>6. CASE UNCHANGED vars
  BY <1>6, ClientStutter DEF vars
<1> QED
  BY <1>1, <1>2, <1>3, <1>4, <1>5, <1>6 DEF Next

THEOREM ClientInvariant == Spec => []ClientIInv
<1> QED
  BY ClientInit, ClientStep, PTL DEF Spec

\* Every subsegment of a request that is open can still be closed by a hook or by
\* Cancel, as long as one address is dialed at a time, for one connection.
THEOREM NoneOverwritten == Spec => []NothingOverwritten
<1>1. ClientIInv => NothingOverwritten
  BY DEF ClientIInv
<1> QED
  BY <1>1, ClientInvariant, PTL

LEMMA InvariantCleansUp == ClientIInv => CancelCleansUp
<1> SUFFICES ASSUME ClientIInv, stage \in {"close", "returned"}
             PROVE  /\ open["connect"] = 0
                    /\ \A k \in Hooked : open[k] = overwritten[k]
  BY DEF CancelCleansUp
<1>1. held \cap Hooked = {} /\ Hooked \subseteq Kinds /\ "connect" \in Hooked
  BY DEF ClientIInv, StageHolds, Hooked, Kinds
<1>2. \A k \in Hooked : open[k] = overwritten[k]
  BY <1>1 DEF ClientIInv, SubsegmentsOK
<1> QED
  BY <1>1, <1>2 DEF ClientIInv, SubsegmentsOK

\* Once Cancel has run, the only subsegments of the hooks that are open are those
\* whose field a second address or another attempt had been given before; in
\* whatever order the hooks come late, they begin none.
THEOREM CleanedUp == Spec => []CancelCleansUp
<1> QED
  BY InvariantCleansUp, ClientInvariant, PTL

LEMMA InvariantResponse == ClientIInv => ResponseClosed
BY DEF ClientIInv, ResponseClosed, TracerDone, SubsegmentsOK, Kinds

\* The subsegment of the response ends with the body.
THEOREM ResponseEnds == Spec => []ResponseClosed
<1> QED
  BY InvariantResponse, ClientInvariant, PTL

----------------------------------------------------------------------------
\* The connections of a database.

Begun == 1..numSegs

\* Every variable has its type; the three sequences grow together.
SqlTypeOK ==
    /\ attr \in {"none"} \cup Attributes
    /\ connecting \in [Task -> {"no", "locking"} \cup Attributes]
    /\ attrOf \in [Conn -> {"none"} \cup Attributes]
    /\ user \in [Conn -> Task \cup {Absent, Free}]
    /\ step \in [Conn -> {"idle", "call", "skipped", "stmt", "lost"}]
    /\ numSegs \in Nat
    /\ reqOf \in [Begun -> Task] /\ parentOf \in [Begun -> {None} \cup Begun]
    /\ isTx \in [Begun -> BOOLEAN]
    /\ seg \in [Conn -> {None} \cup Begun] /\ txn \in [Conn -> {None} \cup Begun]
    /\ live \subseteq Begun /\ left \subseteq Begun

\* Whoever connects, and whatever is connected, has the attributes that are kept.
AttributesKept ==
    /\ \A r \in Task : connecting[r] \in Attributes => connecting[r] = attr
    /\ \A c \in Conn : attrOf[c] # "none" => attrOf[c] = attr

\* The subsegments of a connection, by its user and by what runs on it.
ConnOK(c) ==
    /\ seg[c] # None => seg[c] \in live /\ ~isTx[seg[c]]
    /\ txn[c] # None => txn[c] \in live /\ isTx[txn[c]] /\ user[c] \in Task
    /\ user[c] = Absent => seg[c] = None
    /\ user[c] \notin Task => step[c] = "idle"
    /\ user[c] \in Task /\ seg[c] # None => reqOf[seg[c]] = user[c]
    /\ seg[c] # None /\ step[c] \in {"idle", "lost"} => seg[c] \in left
    /\ step[c] \in {"call", "stmt"} => seg[c] # None
    /\ seg[c] # None /\ seg[c] \notin left => parentOf[seg[c]] = txn[c]

\* No two connections have a subsegment in common.
Separate ==
    \A c, d \in Conn : c # d =>
        /\ seg[c] = seg[d] => seg[c] = None
        /\ txn[c] = txn[d] => txn[c] = None

\* Transactions are below the request's own segment.
TxAtTop == \A i \in Begun : isTx[i] => parentOf[i] = None

\* The inductive invariant.
SqlIInv ==
    /\ SqlTypeOK
    /\ AttributesKept
    /\ \A c \in Conn : ConnOK(c)
    /\ Separate
    /\ HeldOrClosed
    /\ TxAtTop

----------------------------------------------------------------------------
\* A sequence grows by one element.
LEMMA Grows ==
    \A T : \A n \in Nat : \A f \in [1..n -> T] : \A e \in T :
        /\ Append(f, e) \in [1..n + 1 -> T] /\ Append(f, e)[n + 1] = e
        /\ \A i \in 1..n : Append(f, e)[i] = f[i]
<1> SUFFICES ASSUME NEW T, NEW n \in Nat, NEW f \in [1..n -> T], NEW e \in T
             PROVE  /\ Append(f, e) \in [1..n + 1 -> T] /\ Append(f, e)[n + 1] = e
                    /\ \A i \in 1..n : Append(f, e)[i] = f[i]
  OBVIOUS
<1>1. f \in Seq(T) /\ Len(f) = n
  OBVIOUS
<1>2. Append(f, e) \in Seq(T) /\ Len(Append(f, e)) = n + 1
  BY <1>1, AppendProperties
<1>3. Append(f, e)[n + 1] = e /\ \A i \in 1..n : Append(f, e)[i] = f[i]
  BY <1>1, AppendProperties
<1>4. Append(f, e) \in [1..n + 1 -> T]
  BY <1>2, LenProperties
<1> QED
  BY <1>3, <1>4

\* What New does to the tree: the new subsegment is another one, the others stay.
Added(r, p, tx) ==
    /\ numSegs' \in Nat /\ numSegs' \notin Begun /\ Begun' = Begun \cup {numSegs'}
    /\ None \notin Begun'
    /\ reqOf' \in [Begun' -> Task] /\ parentOf' \in [Begun' -> {None} \cup Begun']
    /\ isTx' \in [Begun' -> BOOLEAN]
    /\ reqOf'[numSegs'] = r /\ parentOf'[numSegs'] = p /\ isTx'[numSegs'] = tx
    /\ \A i \in Begun :
          reqOf'[i] = reqOf[i] /\ parentOf'[i] = parentOf[i] /\ isTx'[i] = isTx[i]

LEMMA NewSegment ==
    ASSUME SqlTypeOK, NEW r \in Task, NEW p \in {None} \cup Begun, NEW tx \in BOOLEAN,
           New(r, p, tx)
    PROVE  Added(r, p, tx)
<1>1. numSegs' = numSegs + 1 /\ numSegs \in Nat
  BY DEF New, SqlTypeOK
<1>2. /\ Begun' = Begun \cup {numSegs'} /\ numSegs' \notin Begun /\ None \notin Begun'
      /\ Begun = 1..numSegs /\ Begun' = 1..numSegs + 1
  BY <1>1 DEF Begun, None
<1>3. /\ reqOf' \in [Begun' -> Task] /\ reqOf'[numSegs'] = r
      /\ \A i \in Begun : reqOf'[i] = reqOf[i]
  <2> DEFINE T == Task
  <2>1. reqOf \in [1..numSegs -> Task] /\ reqOf' = Append(reqOf, r)
    BY DEF New, SqlTypeOK, Begun
  <2>2. r \in T /\ reqOf \in [1..numSegs -> T]
    BY <1>2, <2>1
  <2> HIDE DEF T
  <2>4. Append(reqOf, r) \in [1..numSegs + 1 -> T]
    BY <1>1, <2>2, Grows
  <2>5. Append(reqOf, r)[numSegs + 1] = r
    BY <1>1, <2>2, Grows
  <2>6. \A i \in 1..numSegs : Append(reqOf, r)[i] = reqOf[i]
    BY <1>1, <2>2, Grows
  <2>7. reqOf' \in [Begun' -> T]
    BY <1>2, <2>1, <2>4
  <2> QED
    BY <1>1, <1>2, <2>1, <2>5, <2>6, <2>7 DEF T
<1>4. /\ parentOf' \in [Begun' -> {None} \cup Begun'] /\ parentOf'[numSegs'] = p
      /\ \A i \in Begun : parentOf'[i] = parentOf[i]
  <2> DEFINE T == {None} \cup Begun'
  <2>1. parentOf \in [1..numSegs -> {None} \cup Begun] /\ parentOf' = Append(parentOf, p)
    BY DEF New, SqlTypeOK, Begun
  <2>2. p \in T /\ parentOf \in [1..numSegs -> T]
    BY <1>2, <2>1
  <2> HIDE DEF T
  <2>4. Append(parentOf, p) \in [1..numSegs + 1 -> T]
    BY <1>1, <2>2, Grows
  <2>5. Append(parentOf, p)[numSegs + 1] = p
    BY <1>1, <2>2, Grows
  <2>6. \A i \in 1..numSegs : Append(parentOf, p)[i] = parentOf[i]
    BY <1>1, <2>2, Grows
  <2>7. parentOf' \in [Begun' -> T]
    BY <1>2, <2>1, <2>4
  <2> QED
    BY <1>1, <1>2, <2>1, <2>5, <2>6, <2>7 DEF T
<1>5. /\ isTx' \in [Begun' -> BOOLEAN] /\ isTx'[numSegs'] = tx
      /\ \A i \in Begun : isTx'[i] = isTx[i]
  <2> DEFINE T == BOOLEAN
  <2>1. isTx \in [1..numSegs -> BOOLEAN] /\ isTx' = Append(isTx, tx)
    BY DEF New, SqlTypeOK, Begun
  <2>2. tx \in T /\ isTx \in [1..numSegs -> T]
    BY <1>2, <2>1
  <2> HIDE DEF T
  <2>4. Append(isTx, tx) \in [1..numSegs + 1 -> T]
    BY <1>1, <2>2, Grows
  <2>5. Append(isTx, tx)[numSegs + 1] = tx
    BY <1>1, <2>2, Grows
  <2>6. \A i \in 1..numSegs : Append(isTx, tx)[i] = isTx[i]
    BY <1>1, <2>2, Grows
  <2>7. isTx' \in [Begun' -> T]
    BY <1>2, <2>1, <2>4
  <2> QED
    BY <1>1, <1>2, <2>1, <2>5, <2>6, <2>7 DEF T
<1> QED
  BY <1>1, <1>2, <1>3, <1>4, <1>5 DEF Added

----------------------------------------------------------------------------
\* The invariant holds at first, and every step keeps it.

\* Attributes are read, detected, or given up with the connection.
LEMMA AttrSteps ==
    ASSUME SqlIInv, NEW r \in Task, ReadAttr(r) \/ LockAttr(r) \/ ConnectFails(r)
    PROVE  SqlIInv'
<1>1. SqlTypeOK'
  BY DEF SqlIInv, SqlTypeOK, Begun, Attributes, None, ReadAttr, LockAttr,
      Detect, ConnectFails, treeVars
<1>2. AttributesKept'
  BY DEF SqlIInv, SqlTypeOK, AttributesKept, Attributes, ReadAttr, LockAttr,
      Detect, ConnectFails, treeVars
<1>3. ASSUME NEW d \in Conn PROVE ConnOK(d)'
  BY SqlAssumption DEF SqlIInv, SqlTypeOK, ConnOK, Separate, None, ReadAttr,
      LockAttr, Detect, ConnectFails, treeVars
<1>4. Separate'
  BY DEF SqlIInv, SqlTypeOK, Separate, ReadAttr, LockAttr, Detect, ConnectFails,
      treeVars
<1>5. HeldOrClosed'
  BY DEF SqlIInv, SqlTypeOK, HeldOrClosed, ReadAttr, LockAttr, Detect,
      ConnectFails, treeVars
<1>6. TxAtTop'
  BY DEF SqlIInv, SqlTypeOK, TxAtTop, Begun, ReadAttr, LockAttr, Detect,
      ConnectFails, treeVars
<1> QED
  BY <1>1, <1>2, <1>3, <1>4, <1>5, <1>6 DEF SqlIInv

\* A new connection has the attributes it was connected with.
LEMMA ConnectStep ==
    ASSUME SqlIInv, NEW r \in Task, NEW c \in Conn, Connect(r, c)
    PROVE  SqlIInv'
<1>1. SqlTypeOK'
  BY DEF SqlIInv, SqlTypeOK, Begun, Attributes, None, Connect, treeVars
<1>2. AttributesKept'
  BY DEF SqlIInv, SqlTypeOK, AttributesKept, Attributes, Connect, treeVars
<1>3. ASSUME NEW d \in Conn PROVE ConnOK(d)'
  BY SqlAssumption DEF SqlIInv, SqlTypeOK, ConnOK, Separate, None, Connect, treeVars
<1>4. Separate'
  BY DEF SqlIInv, SqlTypeOK, Separate, Connect, treeVars
<1>5. HeldOrClosed'
  BY DEF SqlIInv, SqlTypeOK, HeldOrClosed, Connect, treeVars
<1>6. TxAtTop'
  BY DEF SqlIInv, SqlTypeOK, TxAtTop, Begun, Connect, treeVars
<1> QED
  BY <1>1, <1>2, <1>3, <1>4, <1>5, <1>6 DEF SqlIInv

\* A connection is reset for its next user.
LEMMA AcquireStep ==
    ASSUME SqlIInv, NEW r \in Task, NEW c \in Conn, Acquire(r, c)
    PROVE  SqlIInv'
<1>1. SqlTypeOK'
  BY DEF SqlIInv, SqlTypeOK, Begun, Attributes, None, Acquire, ResetSession,
      CloseSubsegment, treeVars, attributeVars
<1>2. AttributesKept'
  BY DEF SqlIInv, SqlTypeOK, AttributesKept, Attributes, Acquire, ResetSession,
      CloseSubsegment, treeVars, attributeVars
<1>3. ASSUME NEW d \in Conn PROVE ConnOK(d)'
  BY SqlAssumption DEF SqlIInv, SqlTypeOK, ConnOK, Separate, None, Acquire,
      ResetSession, CloseSubsegment, treeVars, attributeVars
<1>4. Separate'
  BY DEF SqlIInv, SqlTypeOK, Separate, Acquire, ResetSession, CloseSubsegment,
      treeVars, attributeVars
<1>5. HeldOrClosed'
  BY DEF SqlIInv, SqlTypeOK, HeldOrClosed, Acquire, ResetSession,
      CloseSubsegment, treeVars, attributeVars
<1>6. TxAtTop'
  BY DEF SqlIInv, SqlTypeOK, TxAtTop, Begun, Acquire, ResetSession,
      CloseSubsegment, treeVars, attributeVars
<1> QED
  BY <1>1, <1>2, <1>3, <1>4, <1>5, <1>6 DEF SqlIInv

\* A connection is closed with what it has.
LEMMA CloseConnStep ==
    ASSUME SqlIInv, NEW c \in Conn, CloseConn(c)
    PROVE  SqlIInv'
<1>1. SqlTypeOK'
  BY DEF SqlIInv, SqlTypeOK, Begun, Attributes, None, CloseConn,
      CloseSubsegment, treeVars
<1>2. AttributesKept'
  BY DEF SqlIInv, SqlTypeOK, AttributesKept, Attributes, CloseConn,
      CloseSubsegment, treeVars
<1>3. ASSUME NEW d \in Conn PROVE ConnOK(d)'
  BY SqlAssumption DEF SqlIInv, SqlTypeOK, ConnOK, Separate, None, CloseConn,
      CloseSubsegment, treeVars
<1>4. Separate'
  BY DEF SqlIInv, SqlTypeOK, Separate, CloseConn, CloseSubsegment, treeVars
<1>5. HeldOrClosed'
  BY DEF SqlIInv, SqlTypeOK, HeldOrClosed, CloseConn, CloseSubsegment, treeVars
<1>6. TxAtTop'
  BY DEF SqlIInv, SqlTypeOK, TxAtTop, Begun, CloseConn, CloseSubsegment, treeVars
<1> QED
  BY <1>1, <1>2, <1>3, <1>4, <1>5, <1>6 DEF SqlIInv

\* A call or statement ends.
LEMMA EndSteps ==
    ASSUME SqlIInv, NEW r \in Task, NEW c \in Conn, EndCall(r, c) \/ EndStmt(r, c)
    PROVE  SqlIInv'
<1>1. SqlTypeOK'
  BY DEF SqlIInv, SqlTypeOK, Begun, Attributes, None, EndCall, EndStmt, Uses,
      Goto, CloseSubsegment, treeVars, attributeVars
<1>2. AttributesKept'
  BY DEF SqlIInv, SqlTypeOK, AttributesKept, Attributes, EndCall, EndStmt, Uses,
      Goto, CloseSubsegment, treeVars, attributeVars
<1>3. ASSUME NEW d \in Conn PROVE ConnOK(d)'
  BY SqlAssumption DEF SqlIInv, SqlTypeOK, ConnOK, Separate, None, EndCall,
      EndStmt, Uses, Goto, CloseSubsegment, treeVars, attributeVars
<1>4. Separate'
  BY DEF SqlIInv, SqlTypeOK, Separate, EndCall, EndStmt, Uses, Goto,
      CloseSubsegment, treeVars, attributeVars
<1>5. HeldOrClosed'
  BY DEF SqlIInv, SqlTypeOK, HeldOrClosed, EndCall, EndStmt, Uses, Goto,
      CloseSubsegment, treeVars, attributeVars
<1>6. TxAtTop'
  BY DEF SqlIInv, SqlTypeOK, TxAtTop, Begun, EndCall, EndStmt, Uses, Goto,
      CloseSubsegment, treeVars, attributeVars
<1> QED
  BY <1>1, <1>2, <1>3, <1>4, <1>5, <1>6 DEF SqlIInv

\* Steps that leave the connection's subsegment as it is.
LEMMA KeepSteps ==
    ASSUME SqlIInv, NEW r \in Task, NEW c \in Conn,
           Release(r, c) \/ SkipCall(r, c) \/ PrepareFails(r, c)
    PROVE  SqlIInv'
<1>1. SqlTypeOK'
  <2>1. Begun' = Begun /\ left' \subseteq left \cup ({seg[c]} \ {None})
    BY DEF Release, SkipCall, PrepareFails, treeVars, Begun
  <2>2. left' \subseteq Begun
    BY <2>1 DEF SqlIInv, SqlTypeOK
  <2> QED
    BY <2>1, <2>2 DEF SqlIInv, SqlTypeOK, Attributes, Release, SkipCall, PrepareFails,
        Idle, Uses, Goto, treeVars, attributeVars
<1>2. AttributesKept'
  BY DEF SqlIInv, SqlTypeOK, AttributesKept, Attributes, Release, SkipCall,
      PrepareFails, Idle, Uses, Goto, treeVars, attributeVars
<1>3. ASSUME NEW d \in Conn PROVE ConnOK(d)'
  BY SqlAssumption DEF SqlIInv, SqlTypeOK, ConnOK, Separate, None, Release,
      SkipCall, PrepareFails, Idle, Uses, Goto, treeVars, attributeVars
<1>4. Separate'
  BY DEF SqlIInv, SqlTypeOK, Separate, Release, SkipCall,
      PrepareFails, Idle, Uses, Goto, treeVars, attributeVars
<1>5. HeldOrClosed'
  BY DEF SqlIInv, SqlTypeOK, HeldOrClosed, Release, SkipCall,
      PrepareFails, Idle, Uses, Goto, treeVars, attributeVars
<1>6. TxAtTop'
  BY DEF SqlIInv, SqlTypeOK, TxAtTop, Begun, Release, SkipCall,
      PrepareFails, Idle, Uses, Goto, treeVars, attributeVars
<1> QED
  BY <1>1, <1>2, <1>3, <1>4, <1>5, <1>6 DEF SqlIInv

\* The driver panics in a call, which leaves its subsegment open; or as a
\* transaction ends.
LEMMA PanicSteps ==
    ASSUME SqlIInv, NEW r \in Task, NEW c \in Conn,
           PanicExec(r, c) \/ PanicQuery(r, c) \/ EndTxPanics(r, c)
    PROVE  SqlIInv'
<1>1. /\ UNCHANGED <<attributeVars, treeVars, seg, txn, live>>
      /\ user[c] = r /\ step[c] \in {"idle", "call", "skipped"}
      /\ step' \in [Conn -> {"idle", "call", "skipped", "stmt", "lost"}]
      /\ step'[c] \in {"idle", "lost"} /\ \A d \in Conn : d # c => step'[d] = step[d]
      /\ \/ user' = user
         \/ txn[c] = None /\ step'[c] = "idle" /\ user' = [user EXCEPT ![c] = Free]
  <2>0. step \in [Conn -> {"idle", "call", "skipped", "stmt", "lost"}]
    BY DEF SqlIInv, SqlTypeOK
  <2>1. UNCHANGED <<attributeVars, treeVars, seg, txn, live>>
    BY DEF PanicExec, PanicQuery, EndTxPanics, Abandon, Goto, attributeVars, treeVars
  <2>2. user[c] = r /\ step[c] \in {"idle", "call", "skipped"}
    BY DEF PanicExec, PanicQuery, EndTxPanics, Idle, Uses
  <2>3. PICK s \in {"idle", "lost"} : step' = [step EXCEPT ![c] = s]
    BY DEF PanicExec, PanicQuery, EndTxPanics, Abandon, Goto
  <2>4. \/ user' = user
        \/ txn[c] = None /\ step'[c] = "idle" /\ user' = [user EXCEPT ![c] = Free]
    BY <2>0 DEF PanicExec, PanicQuery, EndTxPanics, Abandon, Goto
  <2> QED
    BY <2>0, <2>1, <2>2, <2>3, <2>4
<1>2. left \subseteq left' /\ left' \subseteq left \cup ({seg[c], txn[c]} \ {None})
  BY DEF PanicExec, PanicQuery, EndTxPanics
<1>3. step[c] \in {"call", "skipped"} /\ seg[c] # None => seg[c] \in left'
  BY DEF PanicExec, PanicQuery, EndTxPanics, Idle
<1>4. step'[c] = "lost" /\ txn[c] # None => txn[c] \in left'
  BY DEF SqlIInv, SqlTypeOK, PanicExec, PanicQuery, EndTxPanics, Abandon, Goto
<1>5. seg[c] # None => seg[c] \in left'
  BY <1>1, <1>2, <1>3 DEF SqlIInv, ConnOK
<1>6. SqlTypeOK'
  <2>1. Begun' = Begun /\ left' \subseteq Begun
    BY <1>1, <1>2 DEF SqlIInv, SqlTypeOK, Begun, treeVars
  <2>2. user' \in [Conn -> Task \cup {Absent, Free}]
        /\ step' \in [Conn -> {"idle", "call", "skipped", "stmt", "lost"}]
    BY <1>1 DEF SqlIInv, SqlTypeOK
  <2> QED
    BY <1>1, <2>1, <2>2 DEF SqlIInv, SqlTypeOK, attributeVars, treeVars
<1>7. AttributesKept'
  BY <1>1 DEF SqlIInv, AttributesKept, attributeVars
<1>8. ASSUME NEW d \in Conn PROVE ConnOK(d)'
  <2>1. CASE d = c
    BY <1>1, <1>5, <2>1, SqlAssumption DEF SqlIInv, SqlTypeOK, ConnOK, treeVars
  <2>2. CASE d # c
    BY <1>1, <1>2, <2>2 DEF SqlIInv, SqlTypeOK, ConnOK, treeVars
  <2> QED
    BY <2>1, <2>2
<1>9. Separate'
  BY <1>1 DEF SqlIInv, Separate
<1>10. HeldOrClosed'
  <2> SUFFICES ASSUME NEW i \in live
               PROVE  \/ \E d \in Conn :
                           step'[d] # "lost" /\ (seg[d] = i \/ (txn[d] = i /\ i \notin left'))
                      \/ /\ i \in left'
                         /\ isTx[i] \/ \E d \in Conn : step'[d] = "lost" /\ seg[d] = i
    BY <1>1 DEF HeldOrClosed, treeVars
  <2>1. i # None
    BY DEF SqlIInv, SqlTypeOK, Begun, None
  <2>2. \A d \in Conn : d # c => step'[d] = step[d]
    BY <1>1 DEF SqlIInv, SqlTypeOK
  <2>3. CASE seg[c] = i
    BY <1>5, <2>1, <2>3
  <2>4. CASE txn[c] = i
    BY <1>4, <2>1, <2>4 DEF SqlIInv, ConnOK
  <2>5. CASE seg[c] # i /\ txn[c] # i
    <3>1. i \in left' <=> i \in left
      BY <1>2, <2>5
    <3>2. \/ \E d \in Conn :
                step[d] # "lost" /\ (seg[d] = i \/ (txn[d] = i /\ i \notin left))
          \/ i \in left /\ (isTx[i] \/ \E d \in Conn : step[d] = "lost" /\ seg[d] = i)
      BY DEF SqlIInv, HeldOrClosed
    <3> QED
      BY <2>2, <2>5, <3>1, <3>2
  <2> QED
    BY <2>3, <2>4, <2>5
<1>11. TxAtTop'
  BY <1>1 DEF SqlIInv, TxAtTop, Begun, treeVars
<1> QED
  BY <1>6, <1>7, <1>8, <1>9, <1>10, <1>11 DEF SqlIInv

\* It panics in a statement, whose subsegment is closed.
LEMMA PanicStmtStep ==
    ASSUME SqlIInv, NEW r \in Task, NEW c \in Conn, PanicStmt(r, c)
    PROVE  SqlIInv'
<1>1. /\ UNCHANGED <<attributeVars, treeVars, user, txn>>
      /\ user[c] = r /\ step[c] = "stmt"
      /\ step' = [step EXCEPT ![c] = IF txn[c] = None THEN "lost" ELSE "idle"]
      /\ seg' = [seg EXCEPT ![c] = None] /\ live' = live \ {seg[c]}
      /\ left' = left \cup ({txn[c]} \ {None})
  BY DEF PanicStmt, Abandon, Uses, Goto, CloseSubsegment, attributeVars
<1>2. seg[c] # None /\ seg[c] \in live /\ ~isTx[seg[c]]
  BY <1>1 DEF SqlIInv, ConnOK
<1>3. SqlTypeOK'
  <2>1. Begun' = Begun /\ left' \subseteq Begun /\ live' \subseteq Begun
    BY <1>1 DEF SqlIInv, SqlTypeOK, Begun, treeVars
  <2>2. seg' \in [Conn -> {None} \cup Begun]
        /\ step' \in [Conn -> {"idle", "call", "skipped", "stmt", "lost"}]
    BY <1>1 DEF SqlIInv, SqlTypeOK
  <2> QED
    BY <1>1, <2>1, <2>2 DEF SqlIInv, SqlTypeOK, attributeVars, treeVars
<1>4. AttributesKept'
  BY <1>1 DEF SqlIInv, AttributesKept, attributeVars
<1>5. ASSUME NEW d \in Conn PROVE ConnOK(d)'
  <2>1. CASE d = c
    BY <1>1, <1>2, <2>1, SqlAssumption DEF SqlIInv, SqlTypeOK, ConnOK, treeVars
  <2>2. CASE d # c
    <3>1. seg[d] # None => seg[d] # seg[c]
      BY <2>2 DEF SqlIInv, Separate
    <3>2. txn[d] # None => txn[d] # seg[c]
      BY <1>2 DEF SqlIInv, ConnOK
    <3> QED
      BY <1>1, <2>2, <3>1, <3>2 DEF SqlIInv, SqlTypeOK, ConnOK, treeVars
  <2> QED
    BY <2>1, <2>2
<1>6. Separate'
  BY <1>1 DEF SqlIInv, SqlTypeOK, Separate
<1>7. HeldOrClosed'
  <2> SUFFICES ASSUME NEW i \in live, i # seg[c]
               PROVE  \/ \E d \in Conn :
                           step'[d] # "lost" /\ (seg'[d] = i \/ (txn[d] = i /\ i \notin left'))
                      \/ /\ i \in left'
                         /\ isTx[i] \/ \E d \in Conn : step'[d] = "lost" /\ seg'[d] = i
    BY <1>1 DEF HeldOrClosed, treeVars
  <2>1. i # None
    BY DEF SqlIInv, SqlTypeOK, Begun, None
  <2>2. \A d \in Conn : d # c => step'[d] = step[d] /\ seg'[d] = seg[d]
    BY <1>1 DEF SqlIInv, SqlTypeOK
  <2>3. CASE txn[c] = i
    BY <1>1, <2>1, <2>3 DEF SqlIInv, ConnOK
  <2>4. CASE txn[c] # i
    <3>1. i \in left' <=> i \in left
      BY <1>1, <2>4
    <3>2. \/ \E d \in Conn :
                step[d] # "lost" /\ (seg[d] = i \/ (txn[d] = i /\ i \notin left))
          \/ i \in left /\ (isTx[i] \/ \E d \in Conn : step[d] = "lost" /\ seg[d] = i)
      BY DEF SqlIInv, HeldOrClosed
    <3>3. \A d \in Conn : seg[d] = i \/ txn[d] = i => d # c
      BY <2>4
    <3> QED
      BY <2>2, <3>1, <3>2, <3>3
  <2> QED
    BY <2>3, <2>4
<1>8. TxAtTop'
  BY <1>1 DEF SqlIInv, TxAtTop, Begun, treeVars
<1> QED
  BY <1>3, <1>4, <1>5, <1>6, <1>7, <1>8 DEF SqlIInv

\* A call or statement reuses what was left open.
LEMMA BeginAgain ==
    ASSUME SqlIInv, NEW r \in Task, NEW c \in Conn, seg[c] # None,
           BeginCall(r, c) \/ BeginStmt(r, c)
    PROVE  SqlIInv'
<1>1. SqlTypeOK'
  BY DEF SqlIInv, SqlTypeOK, Begun, Attributes, None, BeginCall, BeginStmt,
      BeginSubsegment, Goto, Idle, Uses, treeVars, attributeVars
<1>2. AttributesKept'
  BY DEF SqlIInv, SqlTypeOK, AttributesKept, Attributes, BeginCall, BeginStmt,
      BeginSubsegment, Goto, Idle, Uses, treeVars, attributeVars
<1>3. ASSUME NEW d \in Conn PROVE ConnOK(d)'
  <2>1. /\ UNCHANGED <<user, seg, txn, reqOf, parentOf, isTx, live, left>>
        /\ step' = [step EXCEPT ![c] = step'[c]] /\ step'[c] \in {"call", "stmt"}
        /\ user[c] = r
    BY DEF SqlIInv, SqlTypeOK, BeginCall, BeginStmt, BeginSubsegment, Goto, Idle, Uses,
        treeVars, attributeVars
  <2>2. CASE d = c
    BY <2>1, <2>2 DEF SqlIInv, SqlTypeOK, ConnOK
  <2>3. CASE d # c
    BY <2>1, <2>3 DEF SqlIInv, SqlTypeOK, ConnOK
  <2> QED
    BY <2>2, <2>3
<1>4. Separate'
  BY DEF SqlIInv, SqlTypeOK, Separate, BeginCall, BeginStmt, BeginSubsegment,
      Goto, Idle, Uses, treeVars, attributeVars
<1>5. HeldOrClosed'
  <2>1. UNCHANGED <<seg, txn, isTx, live, left>>
    BY DEF SqlIInv, SqlTypeOK, BeginCall, BeginStmt, BeginSubsegment, Goto, Idle, Uses,
        treeVars, attributeVars
  <2>2. step[c] # "lost" /\ step'[c] # "lost"
        /\ \A d \in Conn : d # c => step'[d] = step[d]
    BY DEF SqlIInv, SqlTypeOK, BeginCall, BeginStmt, Goto, Idle
  <2>3. \A d \in Conn : step'[d] = "lost" <=> step[d] = "lost"
    BY <2>2
  <2>4. HeldOrClosed
    BY DEF SqlIInv
  <2> QED
    BY ONLY <2>1, <2>3, <2>4 DEF HeldOrClosed
<1>6. TxAtTop'
  BY DEF SqlIInv, SqlTypeOK, TxAtTop, Begun, BeginCall, BeginStmt,
      BeginSubsegment, Goto, Idle, Uses, treeVars, attributeVars
<1> QED
  BY <1>1, <1>2, <1>3, <1>4, <1>5, <1>6 DEF SqlIInv

\* A call or statement begins a subsegment.
LEMMA BeginNew ==
    ASSUME SqlIInv, NEW r \in Task, NEW c \in Conn, seg[c] = None,
           BeginCall(r, c) \/ BeginStmt(r, c)
    PROVE  SqlIInv'
<1>1. Added(r, txn[c], FALSE)
  <2>1. txn[c] \in {None} \cup Begun /\ New(r, txn[c], FALSE)
    BY DEF SqlIInv, SqlTypeOK, BeginCall, BeginStmt, BeginSubsegment
  <2> QED
    BY <2>1, NewSegment DEF SqlIInv
<1>2. /\ seg' = [seg EXCEPT ![c] = numSegs'] /\ live' = live \cup {numSegs'}
      /\ UNCHANGED <<attr, connecting, attrOf, user, txn, left>>
      /\ step' = [step EXCEPT ![c] = step'[c]] /\ step'[c] \in {"call", "stmt"}
  BY DEF SqlIInv, SqlTypeOK, BeginCall, BeginStmt, BeginSubsegment, Goto, Idle, Uses,
      attributeVars
<1>3. user[c] = r
  BY DEF BeginCall, BeginStmt, Idle, Uses
<1>4. SqlTypeOK'
  <2>1. /\ numSegs' \in Nat /\ reqOf' \in [Begun' -> Task]
        /\ parentOf' \in [Begun' -> {None} \cup Begun'] /\ isTx' \in [Begun' -> BOOLEAN]
    BY <1>1 DEF Added
  <2>2. seg' \in [Conn -> {None} \cup Begun'] /\ txn' \in [Conn -> {None} \cup Begun']
    BY <1>1, <1>2 DEF Added, SqlIInv, SqlTypeOK
  <2>3. live' \subseteq Begun' /\ left' \subseteq Begun'
    BY <1>1, <1>2 DEF Added, SqlIInv, SqlTypeOK
  <2>4. step' \in [Conn -> {"idle", "call", "skipped", "stmt", "lost"}]
    BY <1>2 DEF SqlIInv, SqlTypeOK
  <2> QED
    BY <1>2, <2>1, <2>2, <2>3, <2>4 DEF SqlIInv, SqlTypeOK, Attributes
<1>5. AttributesKept'
  BY <1>2 DEF SqlIInv, AttributesKept
<1>6. ASSUME NEW d \in Conn PROVE ConnOK(d)'
  <2>1. CASE d = c
    BY <1>1, <1>2, <1>3, <2>1, SqlAssumption DEF Added, SqlIInv, SqlTypeOK, ConnOK
  <2>2. CASE d # c
    BY <1>1, <1>2, <2>2 DEF Added, SqlIInv, SqlTypeOK, ConnOK
  <2> QED
    BY <2>1, <2>2
<1>7. Separate'
  BY <1>1, <1>2 DEF Added, SqlIInv, SqlTypeOK, Separate
<1>8. HeldOrClosed'
  BY <1>1, <1>2 DEF Added, SqlIInv, SqlTypeOK, HeldOrClosed
<1>9. TxAtTop'
  BY <1>1 DEF Added, SqlIInv, TxAtTop
<1> QED
  BY <1>4, <1>5, <1>6, <1>7, <1>8, <1>9 DEF SqlIInv

\* A transaction begins, or fails to; the driver may panic.
LEMMA BeginTxSteps ==
    ASSUME SqlIInv, NEW r \in Task, NEW c \in Conn,
           BeginTx(r, c) \/ BeginTxFails(r, c) \/ BeginTxPanics(r, c)
    PROVE  SqlIInv'
<1>1. Added(r, None, TRUE)
  BY NewSegment DEF SqlIInv, BeginTx, BeginTxFails, BeginTxPanics
<1>2. /\ UNCHANGED <<attr, connecting, attrOf, user, seg>>
      /\ user[c] = r /\ step[c] = "idle" /\ txn[c] = None
  BY DEF BeginTx, BeginTxFails, BeginTxPanics, Idle, Uses, attributeVars
<1>3. /\ step' \in [Conn -> {"idle", "call", "skipped", "stmt", "lost"}]
      /\ \A d \in Conn : d # c => step'[d] = step[d]
      /\ step'[c] \in {"idle", "lost"}
  BY <1>2 DEF SqlIInv, SqlTypeOK, BeginTx, BeginTxFails, BeginTxPanics
<1>4. /\ live' \subseteq live \cup {numSegs'} /\ live \subseteq live'
      /\ left' \subseteq left \cup {numSegs'} /\ left \subseteq left'
  BY DEF BeginTx, BeginTxFails, BeginTxPanics
<1>5. /\ txn' \in [Conn -> {None} \cup Begun']
      /\ \A d \in Conn : d # c => txn'[d] = txn[d]
      /\ \/ txn'[c] = None /\ (numSegs' \in live' => numSegs' \in left')
         \/ /\ txn'[c] = numSegs' /\ numSegs' \in live'
            /\ numSegs' \notin left' /\ step'[c] = "idle"
  <2>1. txn' = txn \/ txn' = [txn EXCEPT ![c] = numSegs']
    BY DEF BeginTx, BeginTxFails, BeginTxPanics
  <2>2. txn' \in [Conn -> {None} \cup Begun'] /\ \A d \in Conn : d # c => txn'[d] = txn[d]
    BY <1>1, <2>1 DEF Added, SqlIInv, SqlTypeOK
  <2>3. numSegs' \notin live /\ numSegs' \notin left
    BY <1>1 DEF Added, SqlIInv, SqlTypeOK
  <2> QED
    BY <1>2, <2>2, <2>3 DEF SqlIInv, SqlTypeOK, BeginTx, BeginTxFails, BeginTxPanics
<1>6. SqlTypeOK'
  <2>1. /\ numSegs' \in Nat /\ reqOf' \in [Begun' -> Task]
        /\ parentOf' \in [Begun' -> {None} \cup Begun'] /\ isTx' \in [Begun' -> BOOLEAN]
    BY <1>1 DEF Added
  <2>2. live' \subseteq Begun' /\ left' \subseteq Begun'
    BY <1>1, <1>4 DEF Added, SqlIInv, SqlTypeOK
  <2>3. seg' \in [Conn -> {None} \cup Begun']
    BY <1>1, <1>2 DEF Added, SqlIInv, SqlTypeOK
  <2> QED
    BY <1>2, <1>3, <1>5, <2>1, <2>2, <2>3 DEF SqlIInv, SqlTypeOK, Attributes
<1>7. AttributesKept'
  BY <1>2 DEF SqlIInv, AttributesKept
<1>8. ASSUME NEW d \in Conn PROVE ConnOK(d)'
  <2>1. CASE d = c
    BY <1>1, <1>2, <1>3, <1>4, <1>5, <2>1, SqlAssumption
        DEF Added, SqlIInv, SqlTypeOK, ConnOK
  <2>2. CASE d # c
    BY <1>1, <1>2, <1>3, <1>4, <1>5, <2>2 DEF Added, SqlIInv, SqlTypeOK, ConnOK
  <2> QED
    BY <2>1, <2>2
<1>9. Separate'
  BY <1>1, <1>2, <1>5 DEF Added, SqlIInv, SqlTypeOK, Separate
<1>10. HeldOrClosed'
  <2> SUFFICES ASSUME NEW i \in live'
               PROVE  \/ \E d \in Conn :
                           step'[d] # "lost" /\ (seg'[d] = i \/ (txn'[d] = i /\ i \notin left'))
                      \/ /\ i \in left'
                         /\ isTx'[i] \/ \E d \in Conn : step'[d] = "lost" /\ seg'[d] = i
    BY DEF HeldOrClosed
  <2>1. CASE i = numSegs'
    BY <1>1, <1>5, <2>1 DEF Added
  <2>2. CASE i # numSegs'
    <3>1. i \in live /\ i \in Begun /\ i # None
      BY <1>1, <1>4, <2>2 DEF Added, SqlIInv, SqlTypeOK
    <3>2. /\ \A d \in Conn : txn[d] = i => d # c /\ txn'[d] = i
          /\ i \in left' <=> i \in left
          /\ isTx'[i] = isTx[i]
      BY <1>1, <1>2, <1>4, <1>5, <2>2, <3>1 DEF Added
    <3>3. \/ \E d \in Conn :
                step[d] # "lost" /\ (seg[d] = i \/ (txn[d] = i /\ i \notin left))
          \/ i \in left /\ (isTx[i] \/ \E d \in Conn : step[d] = "lost" /\ seg[d] = i)
      BY <3>1 DEF SqlIInv, HeldOrClosed
    <3>4. CASE seg[c] = i
      <4>1. i \in left
        BY <1>2, <3>1, <3>4 DEF SqlIInv, ConnOK
      <4> QED
        BY <1>2, <1>3, <3>2, <3>4, <4>1
    <3>5. CASE seg[c] # i
      BY <1>2, <1>3, <3>2, <3>3, <3>5
    <3> QED
      BY <3>4, <3>5
  <2> QED
    BY <2>1, <2>2
<1>11. TxAtTop'
  BY <1>1 DEF Added, SqlIInv, TxAtTop
<1> QED
  BY <1>6, <1>7, <1>8, <1>9, <1>10, <1>11 DEF SqlIInv

\* A transaction ends.
LEMMA EndTxStep ==
    ASSUME SqlIInv, NEW c \in Conn, EndTx(c)
    PROVE  SqlIInv'
<1>1. SqlTypeOK'
  BY DEF SqlIInv, SqlTypeOK, Begun, Attributes, None, EndTx, treeVars, attributeVars
<1>2. AttributesKept'
  BY DEF SqlIInv, SqlTypeOK, AttributesKept, Attributes, EndTx, treeVars,
      attributeVars
<1>3. ASSUME NEW d \in Conn PROVE ConnOK(d)'
  BY SqlAssumption DEF SqlIInv, SqlTypeOK, ConnOK, Separate, None, EndTx,
      treeVars, attributeVars
<1>4. Separate'
  BY DEF SqlIInv, SqlTypeOK, Separate, EndTx, treeVars, attributeVars
<1>5. HeldOrClosed'
  BY DEF SqlIInv, SqlTypeOK, HeldOrClosed, EndTx, treeVars, attributeVars
<1>6. TxAtTop'
  BY DEF SqlIInv, SqlTypeOK, TxAtTop, Begun, EndTx, treeVars, attributeVars
<1> QED
  BY <1>1, <1>2, <1>3, <1>4, <1>5, <1>6 DEF SqlIInv

----------------------------------------------------------------------------
LEMMA InitIInv == SqlInit => SqlIInv
<1>1. SqlInit => SqlTypeOK
  BY DEF SqlInit, SqlTypeOK, Begun, Attributes
<1>2. SqlInit => AttributesKept /\ Separate /\ HeldOrClosed /\ TxAtTop
  BY DEF SqlInit, AttributesKept, Separate, HeldOrClosed, TxAtTop, Attributes, Begun
<1>3. SqlInit => \A c \in Conn : ConnOK(c)
  BY SqlAssumption DEF SqlInit, ConnOK
<1> QED
  BY <1>1, <1>2, <1>3 DEF SqlIInv

\* A step without a change.
LEMMA StutterKeeps == ASSUME SqlIInv, UNCHANGED sqlVars PROVE SqlIInv'
<1>1. SqlTypeOK'
  BY DEF SqlIInv, SqlTypeOK, Begun, sqlVars, attributeVars, treeVars
<1>2. AttributesKept' /\ Separate' /\ HeldOrClosed' /\ TxAtTop'
  BY DEF SqlIInv, AttributesKept, Separate, HeldOrClosed, TxAtTop, Begun, sqlVars,
      attributeVars, treeVars
<1>3. ASSUME NEW d \in Conn PROVE ConnOK(d)'
  BY DEF SqlIInv, ConnOK, sqlVars, attributeVars, treeVars
<1> QED
  BY <1>1, <1>2, <1>3 DEF SqlIInv

LEMMA CallKeeps == ASSUME SqlIInv, NEW r \in Task, Call(r) PROVE SqlIInv'
<1>1. CASE ReadAttr(r) \/ LockAttr(r) \/ ConnectFails(r)
  BY <1>1, AttrSteps
<1>2. ASSUME NEW c \in Conn,
             \/ Connect(r, c) \/ Acquire(r, c) \/ Release(r, c)
             \/ BeginCall(r, c) \/ EndCall(r, c) \/ SkipCall(r, c)
             \/ PanicExec(r, c) \/ PanicQuery(r, c) \/ PanicStmt(r, c)
             \/ PrepareFails(r, c) \/ BeginStmt(r, c) \/ EndStmt(r, c)
             \/ BeginTx(r, c) \/ BeginTxFails(r, c) \/ BeginTxPanics(r, c)
             \/ Uses(r, c) /\ EndTx(c)
             \/ EndTxPanics(r, c)
      PROVE  SqlIInv'
  <2>1. CASE Connect(r, c)
    BY <2>1, ConnectStep
  <2>2. CASE Acquire(r, c)
    BY <2>2, AcquireStep
  <2>3. CASE EndCall(r, c) \/ EndStmt(r, c)
    BY <2>3, EndSteps
  <2>4. CASE Release(r, c) \/ SkipCall(r, c) \/ PrepareFails(r, c)
    BY <2>4, KeepSteps
  <2>5. CASE PanicExec(r, c) \/ PanicQuery(r, c) \/ EndTxPanics(r, c) \/ PanicStmt(r, c)
    BY <2>5, PanicSteps, PanicStmtStep
  <2>6. CASE BeginCall(r, c) \/ BeginStmt(r, c)
    BY <2>6, BeginAgain, BeginNew
  <2>7. CASE BeginTx(r, c) \/ BeginTxFails(r, c) \/ BeginTxPanics(r, c)
    BY <2>7, BeginTxSteps
  <2>8. CASE EndTx(c)
    BY <2>8, EndTxStep
  <2> QED
    BY <1>2, <2>1, <2>2, <2>3, <2>4, <2>5, <2>6, <2>7, <2>8
<1> QED
  BY <1>1, <1>2 DEF Call

\* The invariant is inductive.
THEOREM SqlInvariant == SqlSpec => []SqlIInv
<1>1. SqlInit => SqlIInv
  BY InitIInv
<1>2. SqlIInv /\ [SqlNext]_sqlVars => SqlIInv'
  <2> SUFFICES ASSUME SqlIInv, [SqlNext]_sqlVars PROVE SqlIInv'
    OBVIOUS
  <2>1. CASE UNCHANGED sqlVars
    BY <2>1, StutterKeeps
  <2>2. ASSUME NEW r \in Task, Call(r) PROVE SqlIInv'
    BY <2>2, CallKeeps
  <2>3. ASSUME NEW c \in Conn, CloseConn(c) \/ EndTx(c) PROVE SqlIInv'
    BY <2>3, CloseConnStep, EndTxStep
  <2> QED
    BY <2>1, <2>2, <2>3 DEF SqlNext
<1> QED
  BY <1>1, <1>2, PTL DEF SqlSpec

\* However the pool hands connections on, and whatever the driver skips, fails or
\* panics at, no request records its calls below another request's subsegment.
THEOREM RequestsApart == SqlSpec => []OwnRequest
<1>1. SqlIInv => OwnRequest
  BY DEF SqlIInv, ConnOK, OwnRequest
<1> QED
  BY <1>1, SqlInvariant, PTL

\* No subsegment is lost unless the driver panics, and then only that of a
\* transaction or of a connection that is not used again.
THEOREM NoneLost == SqlSpec => []HeldOrClosed
<1>1. SqlIInv => HeldOrClosed
  BY DEF SqlIInv
<1> QED
  BY <1>1, SqlInvariant, PTL

\* All connections of a database carry the attributes that were detected first.
THEOREM AttributesAgree == SqlSpec => []OneAttribute
<1>1. SqlIInv => OneAttribute
  BY DEF SqlIInv, AttributesKept, OneAttribute
<1> QED
  BY <1>1, SqlInvariant, PTL

\* A call in a transaction is below it, and no subsegment outlives its transaction,
\* but for those that a call left open.
THEOREM CallsInTransaction == SqlSpec => []UnderTransaction
<1>1. SqlIInv => UnderTransaction
  <2> SUFFICES ASSUME SqlIInv PROVE UnderTransaction
    OBVIOUS
  <2>1. \A c \in Conn :
           seg[c] # None /\ txn[c] # None /\ seg[c] \notin left => parentOf[seg[c]] = txn[c]
    BY DEF SqlIInv, ConnOK
  <2>2. ASSUME NEW i \in live \ left PROVE parentOf[i] = None \/ parentOf[i] \in live
    <3>1. PICK c \in Conn : seg[c] = i \/ txn[c] = i
      BY DEF SqlIInv, HeldOrClosed
    <3>2. i \in Begun /\ None \notin Begun
      BY DEF SqlIInv, SqlTypeOK, Begun, None
    <3>3. CASE seg[c] = i
      BY <3>2, <3>3 DEF SqlIInv, ConnOK
    <3>4. CASE txn[c] = i
      BY <3>2, <3>4 DEF SqlIInv, ConnOK, TxAtTop
    <3> QED
      BY <3>1, <3>3, <3>4
  <2> QED
    BY <2>1, <2>2 DEF UnderTransaction
<1> QED
  BY <1>1, SqlInvariant, PTL

----------------------------------------------------------------------------
\* A call of an AWS client.

AwsTypeOK ==
    /\ sdk \in {"v1", "v2"}
    /\ fields \subseteq AwsKinds /\ awsOpen \in [AwsKinds -> Nat]
    /\ tries \in Nat /\ resigned \in Nat /\ presigned \in BOOLEAN

\* The subsegments of a kind that no field refers to any more: they were begun
\* before the one that the field was given.
Lost(k) ==
    CASE k = "attempt" -> resigned
      [] k = "aws" -> IF sdk = "v2" /\ tries > 1 THEN tries - 1 ELSE 0
      [] OTHER -> 0

\* The open subsegments of a kind are the lost ones and the field's.
Counted(k) == awsOpen[k] = IF k \in fields THEN Lost(k) + 1 ELSE Lost(k)

\* Which fields may refer to a subsegment, by the stage that comes next.
PhaseHolds ==
    /\ phase = "start" => fields = {} /\ tries = 0
    /\ phase = "done" /\ ~presigned => fields = {}
    /\ "attempt" \in fields => phase \in {"send", "complete", "unwind", "done"}
    /\ phase = "send" => "attempt" \in fields
    /\ "unmarshal" \in fields => phase \in {"unmarshal", "complete", "unwind", "done"}

\* xrayaws-v2 has the subsegment of the call from its first attempt on.
V2Holds ==
    sdk = "v2" =>
        /\ ~presigned /\ resigned = 0
        /\ "marshal" \notin fields
        /\ "aws" \in fields <=> tries > 0 /\ phase # "done"

\* The inductive invariant.
AwsIInv ==
    /\ AwsTypeOK
    /\ \A k \in AwsKinds : Counted(k)
    /\ PhaseHolds
    /\ V2Holds

----------------------------------------------------------------------------
LEMMA AwsInitially == AwsInit => AwsIInv
<1> SUFFICES ASSUME AwsInit PROVE AwsIInv
  OBVIOUS
<1>1. AwsTypeOK
  BY AwsAssumption DEF AwsInit, AwsTypeOK
<1>2. \A k \in AwsKinds : Counted(k)
  BY DEF AwsInit, Counted, Lost
<1>3. PhaseHolds /\ V2Holds
  BY DEF AwsInit, PhaseHolds, V2Holds
<1> QED
  BY <1>1, <1>2, <1>3 DEF AwsIInv

LEMMA AwsStutter == AwsIInv /\ UNCHANGED awsVars => AwsIInv'
BY DEF AwsIInv, AwsTypeOK, Counted, Lost, PhaseHolds, V2Holds, awsVars

\* Subsegments begin in fields that are free; what is lost stays lost.
LEMMA BeginCounted ==
    ASSUME AwsTypeOK, \A k \in AwsKinds : Counted(k), NEW ks \in SUBSET AwsKinds,
           ks \cap fields = {}, BeginEach(ks), \A k \in AwsKinds : Lost(k)' = Lost(k)
    PROVE  /\ fields' \subseteq AwsKinds /\ awsOpen' \in [AwsKinds -> Nat]
           /\ \A k \in AwsKinds : Counted(k)'
BY DEF AwsTypeOK, Counted, BeginEach

\* Those that fields refer to are closed.
LEMMA CloseCounted ==
    ASSUME AwsTypeOK, \A k \in AwsKinds : Counted(k), NEW ks, CloseEach(ks),
           \A k \in AwsKinds : Lost(k)' = Lost(k)
    PROVE  /\ fields' \subseteq AwsKinds /\ awsOpen' \in [AwsKinds -> Nat]
           /\ \A k \in AwsKinds : Counted(k)'
<1>1. ASSUME NEW k \in AwsKinds PROVE Lost(k) \in Nat
  BY DEF AwsTypeOK, Lost
<1> QED
  BY <1>1 DEF AwsTypeOK, Counted, CloseEach

\* The steps that begin nothing over another subsegment: a stage of xrayaws.
LEMMA V1Steps ==
    ASSUME AwsIInv,
           BeforeValidate \/ AfterBuild \/ BeforeSign \/ AfterSend \/ BeforeUnmarshalMeta
               \/ AfterUnmarshal \/ AfterComplete
    PROVE  AwsIInv'
<1>1. sdk = "v1" /\ UNCHANGED <<sdk, resigned, presigned>> /\ tries' \in Nat
  BY DEF AwsIInv, AwsTypeOK, At, BeforeValidate, AfterBuild, BeforeSign, AfterSend,
      BeforeUnmarshalMeta, AfterUnmarshal, AfterComplete
<1>2. \A k \in AwsKinds : Lost(k)' = Lost(k)
  BY <1>1 DEF Lost
<1>3. \/ \E ks \in SUBSET AwsKinds : ks \cap fields = {} /\ BeginEach(ks)
      \/ \E ks \in SUBSET AwsKinds : CloseEach(ks)
  <2>1. CASE BeforeValidate \/ BeforeSign \/ BeforeUnmarshalMeta
    <3>1. {"aws", "marshal"} \subseteq AwsKinds /\ {"attempt"} \subseteq AwsKinds
          /\ {"unmarshal"} \subseteq AwsKinds
      BY DEF AwsKinds
    <3> QED
      BY <2>1, <3>1 DEF AwsIInv, PhaseHolds, At, BeforeValidate, BeforeSign, BeforeUnmarshalMeta
  <2>2. CASE AfterBuild \/ AfterSend \/ AfterUnmarshal \/ AfterComplete
    <3>1. {"marshal"} \subseteq AwsKinds /\ {"attempt"} \subseteq AwsKinds
          /\ {"unmarshal"} \subseteq AwsKinds /\ {} \subseteq AwsKinds
      BY DEF AwsKinds
    <3> QED
      BY <2>2, <3>1 DEF AfterBuild, AfterSend, AfterUnmarshal, AfterComplete
  <2> QED
    BY <2>1, <2>2
<1>4. /\ fields' \subseteq AwsKinds /\ awsOpen' \in [AwsKinds -> Nat]
      /\ \A k \in AwsKinds : Counted(k)'
  BY <1>2, <1>3, BeginCounted, CloseCounted DEF AwsIInv
<1>5. PhaseHolds'
  BY DEF AwsIInv, AwsTypeOK, PhaseHolds, At, Outcome, BeginEach, CloseEach, BeforeValidate,
      AfterBuild, BeforeSign, AfterSend, BeforeUnmarshalMeta, AfterUnmarshal, AfterComplete,
      AwsKinds
<1> QED
  BY <1>1, <1>4, <1>5 DEF AwsIInv, AwsTypeOK, V2Holds

\* A request that is signed again loses sight of an attempt.
LEMMA ResignStep ==
    ASSUME AwsIInv, Resign
    PROVE  AwsIInv'
<1>1. /\ sdk = "v1" /\ "attempt" \in fields /\ resigned = 0 /\ resigned' = 1 /\ fields' = fields
      /\ UNCHANGED <<sdk, phase, tries, presigned>>
  BY DEF AwsIInv, PhaseHolds, Resign, At, BeginEach
<1>2. awsOpen' = [k \in AwsKinds |-> IF k = "attempt" THEN awsOpen[k] + 1 ELSE awsOpen[k]]
  BY DEF Resign, BeginEach
<1>3. ASSUME NEW k \in AwsKinds PROVE Counted(k)'
  BY <1>1, <1>2 DEF AwsIInv, AwsTypeOK, Counted, Lost
<1>4. awsOpen' \in [AwsKinds -> Nat]
  BY <1>2 DEF AwsIInv, AwsTypeOK
<1> QED
  BY <1>1, <1>3, <1>4 DEF AwsIInv, AwsTypeOK, PhaseHolds, V2Holds

\* Only the stage changes.
LEMMA PhaseSteps ==
    ASSUME AwsIInv,
           Presign \/ RetryCall \/ V1Panics \/ V2Panics \/ HandleInitialize
    PROVE  AwsIInv'
<1>1. UNCHANGED <<sdk, fields, awsOpen, tries, resigned>> /\ presigned' \in BOOLEAN
  BY DEF AwsIInv, AwsTypeOK, Presign, RetryCall, V1Panics, V2Panics, HandleInitialize
<1>2. \A k \in AwsKinds : Counted(k)'
  BY <1>1 DEF AwsIInv, Counted, Lost
<1>3. PhaseHolds' /\ V2Holds'
  BY DEF AwsIInv, AwsTypeOK, PhaseHolds, V2Holds, Presign, RetryCall, V1Panics, V2Panics,
      HandleInitialize, At, Outcome
<1> QED
  BY <1>1, <1>2, <1>3 DEF AwsIInv, AwsTypeOK

\* At every attempt but the first the call's subsegment is begun over another.
LEMMA EndMarshalStep ==
    ASSUME AwsIInv, EndMarshal
    PROVE  AwsIInv'
<1>1. /\ sdk = "v2" /\ phase = "sign" /\ UNCHANGED <<sdk, resigned, presigned>>
      /\ "attempt" \notin fields /\ "unmarshal" \notin fields
  BY DEF AwsIInv, PhaseHolds, EndMarshal, At
<1>2. CASE phase' = "again" /\ BeginEach({}) /\ tries' = tries
  <2>1. fields' = fields /\ awsOpen' = awsOpen
    BY <1>2 DEF AwsIInv, AwsTypeOK, BeginEach
  <2> QED
    BY <1>1, <1>2, <2>1 DEF AwsIInv, AwsTypeOK, Counted, Lost, PhaseHolds, V2Holds
<1>3. CASE phase' = "attempt" /\ BeginEach({"aws"}) /\ tries' = tries + 1
  <2>1. /\ fields' = fields \cup {"aws"}
        /\ awsOpen' = [k \in AwsKinds |-> IF k = "aws" THEN awsOpen[k] + 1 ELSE awsOpen[k]]
    BY <1>3 DEF BeginEach
  <2>2. fields' \subseteq AwsKinds /\ awsOpen' \in [AwsKinds -> Nat] /\ tries' \in Nat
    BY <1>3, <2>1 DEF AwsIInv, AwsTypeOK, AwsKinds
  <2>3. Counted("aws")'
    <3>1. awsOpen["aws"] = IF tries > 0 THEN tries ELSE 0
      BY <1>1 DEF AwsIInv, AwsTypeOK, V2Holds, Counted, Lost, AwsKinds
    <3> QED
      BY <1>1, <1>3, <2>1, <3>1 DEF AwsIInv, AwsTypeOK, Counted, Lost, AwsKinds
  <2>4. ASSUME NEW k \in AwsKinds, k # "aws" PROVE Counted(k)'
    BY <1>1, <2>1, <2>4 DEF AwsIInv, Counted, Lost
  <2> QED
    BY <1>1, <1>3, <2>1, <2>2, <2>3, <2>4 DEF AwsIInv, AwsTypeOK, PhaseHolds, V2Holds
<1> QED
  BY <1>2, <1>3 DEF EndMarshal, Outcome

\* An attempt begins, the answer is unmarshalled, or the call ends.
LEMMA V2Steps ==
    ASSUME AwsIInv, BeginAttempt \/ EndUnmarshal \/ Unwind
    PROVE  AwsIInv'
<1>1. sdk = "v2" /\ UNCHANGED <<sdk, tries, resigned, presigned>>
  BY DEF At, BeginAttempt, EndUnmarshal, Unwind
<1>2. \A k \in AwsKinds : Lost(k)' = Lost(k)
  BY <1>1 DEF Lost
<1>3. \/ \E ks \in SUBSET AwsKinds : ks \cap fields = {} /\ BeginEach(ks)
      \/ \E ks \in SUBSET AwsKinds : CloseEach(ks)
  <2>1. {"attempt"} \subseteq AwsKinds /\ {"unmarshal"} \subseteq AwsKinds
        /\ {"attempt", "unmarshal", "aws"} \subseteq AwsKinds
    BY DEF AwsKinds
  <2> QED
    BY <2>1 DEF AwsIInv, PhaseHolds, At, BeginAttempt, EndUnmarshal, Unwind
<1>4. /\ fields' \subseteq AwsKinds /\ awsOpen' \in [AwsKinds -> Nat]
      /\ \A k \in AwsKinds : Counted(k)'
  BY <1>2, <1>3, BeginCounted, CloseCounted DEF AwsIInv
<1>5. PhaseHolds' /\ V2Holds'
  BY <1>1 DEF AwsIInv, AwsTypeOK, PhaseHolds, V2Holds, At, Outcome, BeginEach, CloseEach,
      BeginAttempt, EndUnmarshal, Unwind, AwsKinds
<1> QED
  BY <1>1, <1>4, <1>5 DEF AwsIInv, AwsTypeOK

\* An attempt ends, and unmarshalling may begin.
LEMMA EndAttemptStep ==
    ASSUME AwsIInv, EndAttempt
    PROVE  AwsIInv'
<1>1. /\ sdk = "v2" /\ "attempt" \in fields /\ "unmarshal" \notin fields /\ resigned = 0
      /\ UNCHANGED <<sdk, tries, resigned, presigned>>
  BY DEF AwsIInv, PhaseHolds, V2Holds, EndAttempt, At
<1>2. awsOpen["attempt"] = 1 /\ awsOpen["unmarshal"] = 0
  BY <1>1 DEF AwsIInv, Counted, Lost, AwsKinds
<1>3. PICK ok \in BOOLEAN :
        /\ phase' = IF ok THEN "unmarshal" ELSE "again"
        /\ fields' = (fields \ {"attempt"}) \cup IF ok THEN {"unmarshal"} ELSE {}
        /\ awsOpen' = [awsOpen EXCEPT !["attempt"] = @ - 1,
                                      !["unmarshal"] = IF ok THEN @ + 1 ELSE @]
  BY DEF EndAttempt, Outcome
<1>4. fields' \subseteq AwsKinds /\ awsOpen' \in [AwsKinds -> Nat]
  BY <1>2, <1>3 DEF AwsIInv, AwsTypeOK, AwsKinds
<1>5. ASSUME NEW k \in AwsKinds PROVE Counted(k)'
  BY <1>1, <1>2, <1>3 DEF AwsIInv, AwsTypeOK, Counted, Lost, AwsKinds
<1> QED
  BY <1>1, <1>3, <1>4, <1>5 DEF AwsIInv, AwsTypeOK, PhaseHolds, V2Holds, EndAttempt, At

LEMMA AwsStepKeeps ==
    ASSUME AwsIInv, [AwsStep]_awsVars
    PROVE  AwsIInv'
BY AwsStutter, V1Steps, ResignStep, PhaseSteps, EndMarshalStep, V2Steps, EndAttemptStep
   DEF AwsStep

LEMMA AwsImplies == AwsIInv => AwsClosed
BY DEF AwsIInv, PhaseHolds, Counted, Lost, AwsClosed, AwsKinds

----------------------------------------------------------------------------
\* However the call goes, it is in the state that AwsIInv describes.
THEOREM AwsInvariant == AwsSpec => []AwsIInv
<1>1. AwsIInv /\ [AwsStep]_awsVars => AwsIInv'
  BY AwsStepKeeps
<1> QED
  BY <1>1, AwsInitially, PTL DEF AwsSpec

\* A call that is over has no subsegment open but those begun over another.
THEOREM AllClosed == AwsSpec => []AwsClosed
BY AwsInvariant, AwsImplies, PTL
=============================================================================
