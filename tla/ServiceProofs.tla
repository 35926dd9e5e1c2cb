--------------------------- MODULE ServiceProofs ----------------------------
(***************************************************************************)
(* The root segments and response writers of xrayhttp.Handler, for any     *)
(* requests, statuses and writers.  And the composition: it uses each of   *)
(* its components as that component's own specification allows, so that    *)
(* what is proved of them holds of the service; and no subsegment is left  *)
(* when a request is over.                                                 *)
(***************************************************************************)
EXTENDS Service, CallProofs

----------------------------------------------------------------------------
\* The handler.

HandlerTypeOK ==
    /\ serverWriter \subseteq Optional
    /\ serving \in [Req -> {"new", "running", "returned", "aborted"}]
    /\ rootSeg \in [Req -> {"none", "open", "closed"}]
    /\ respSeg \in [Req -> {"none", "open", "closed"}]
    /\ status \in [Req -> Nat] /\ recorded \in [Req -> Nat] /\ wire \in [Req -> Nat]
    /\ hijacked \in [Req -> BOOLEAN] /\ cancelled \in [Req -> BOOLEAN]
    /\ past \in [Req -> BOOLEAN] /\ again \in [Req -> BOOLEAN]
    /\ respFault \in [Req -> BOOLEAN]
    /\ flags \in [Req -> SUBSET {"error", "throttle", "fault"}]

\* Until the handler ends or takes the connection, nothing has been recorded or
\* closed, and the tracer knows the status that the server sends, unless that
\* sent 200 by itself.
Known(r) ==
    IF wire[r] = NoStatus THEN ~Final(status[r])
    ELSE \/ status[r] = wire[r]
         \/ past[r] /\ wire[r] = OK /\ ~Final(status[r])

Undecided(r) ==
    serving[r] \in {"new", "running"} /\ ~hijacked[r] =>
        /\ flags[r] = {} /\ respSeg[r] # "closed"
        /\ serving[r] = "running" => rootSeg[r] = "open"
        /\ ~again[r] => Known(r)

\* Afterwards both segments are closed.
EndedClosed(r) == Over(r) => rootSeg[r] = "closed" /\ respSeg[r] # "open"

StatusTrueOf(r) ==
    serving[r] = "returned" /\ ~hijacked[r] =>
        /\ ~again[r] => \/ recorded[r] = wire[r]
                        \/ past[r] /\ wire[r] = OK /\ ~Final(recorded[r])
        /\ ("error" \in flags[r]) = (cancelled[r] \/ recorded[r] \in 400..499)
        /\ ~cancelled[r] => /\ ("throttle" \in flags[r]) = (recorded[r] = 429)
                            /\ ("fault" \in flags[r]) = (recorded[r] \in 500..599)

PanicShownOf(r) ==
    serving[r] = "aborted" =>
        /\ rootSeg[r] = "closed" /\ respSeg[r] # "open"
        /\ ~hijacked[r] => /\ "fault" \in flags[r]
                           /\ respSeg[r] = "closed" => respFault[r]

RequestOK(r) == Undecided(r) /\ EndedClosed(r) /\ StatusTrueOf(r) /\ PanicShownOf(r)

\* The inductive invariant.
HandlerIInv == HandlerTypeOK /\ \A r \in Req : RequestOK(r)

----------------------------------------------------------------------------
\* A request that a step leaves alone stays as it is.
Untouched(q) ==
    /\ serving'[q] = serving[q] /\ rootSeg'[q] = rootSeg[q] /\ respSeg'[q] = respSeg[q]
    /\ status'[q] = status[q] /\ recorded'[q] = recorded[q] /\ wire'[q] = wire[q]
    /\ hijacked'[q] = hijacked[q] /\ cancelled'[q] = cancelled[q]
    /\ past'[q] = past[q] /\ again'[q] = again[q]
    /\ respFault'[q] = respFault[q] /\ flags'[q] = flags[q]

LEMMA UntouchedOK ==
    ASSUME NEW q \in Req, RequestOK(q), Untouched(q)
    PROVE  RequestOK(q)'
BY DEF RequestOK, Untouched, Undecided, Known, EndedClosed, Over, StatusTrueOf, PanicShownOf

LEMMA HandlerInitially == HandlerInit => HandlerIInv
BY HandlerAssumption DEF HandlerInit, HandlerIInv, HandlerTypeOK, RequestOK, Undecided, Known,
    EndedClosed, Over, StatusTrueOf, PanicShownOf, NoStatus, Final, OK, SwitchingProtocols

LEMMA HandlerStutter == HandlerIInv /\ UNCHANGED handlerVars => HandlerIInv'
BY DEF HandlerIInv, HandlerTypeOK, RequestOK, Undecided, Known, EndedClosed, Over, StatusTrueOf,
    PanicShownOf, handlerVars

\* What the server does by itself, and when it is told a status.
LEMMA SendsOKFacts ==
    ASSUME HandlerTypeOK, NEW r \in Req, SendsOK(r)
    PROVE  /\ wire' \in [Req -> Nat] /\ past' \in [Req -> BOOLEAN] /\ again' = again
           /\ wire'[r] = IF wire[r] = NoStatus THEN OK ELSE wire[r]
           /\ past'[r] = (past[r] \/ wire[r] = NoStatus)
           /\ \A q \in Req \ {r} : wire'[q] = wire[q] /\ past'[q] = past[q]
<1>1. wire' \in [Req -> Nat] /\ past' \in [Req -> BOOLEAN] /\ again' = again
  BY DEF HandlerTypeOK, SendsOK, OK
<1>2. past'[r] = (past[r] \/ wire[r] = NoStatus)
  BY DEF HandlerTypeOK, SendsOK
<1>3. wire'[r] = IF wire[r] = NoStatus THEN OK ELSE wire[r]
  BY DEF HandlerTypeOK, SendsOK
<1>4. \A q \in Req \ {r} : wire'[q] = wire[q] /\ past'[q] = past[q]
  BY DEF HandlerTypeOK, SendsOK
<1> QED
  BY <1>1, <1>2, <1>3, <1>4

LEMMA ToldFacts ==
    ASSUME HandlerTypeOK, NEW r \in Req, NEW s \in Nat, Told(r, s)
    PROVE  /\ wire' \in [Req -> Nat] /\ again' \in [Req -> BOOLEAN] /\ past' = past
           /\ wire'[r] = IF wire[r] = NoStatus /\ Final(s) THEN s ELSE wire[r]
           /\ again'[r] = (again[r] \/ wire[r] \notin {NoStatus, s})
           /\ \A q \in Req \ {r} : wire'[q] = wire[q] /\ again'[q] = again[q]
<1>1. wire' \in [Req -> Nat] /\ again' \in [Req -> BOOLEAN] /\ past' = past
  BY DEF HandlerTypeOK, Told
<1>2. again'[r] = (again[r] \/ wire[r] \notin {NoStatus, s})
  BY DEF HandlerTypeOK, Told
<1>3. wire'[r] = IF wire[r] = NoStatus /\ Final(s) THEN s ELSE wire[r]
  BY DEF HandlerTypeOK, Told
<1>4. \A q \in Req \ {r} : wire'[q] = wire[q] /\ again'[q] = again[q]
  BY DEF HandlerTypeOK, Told
<1> QED
  BY <1>1, <1>2, <1>3, <1>4

\* A handler starts, or its client goes.
LEMMA ServeOrCancel ==
    ASSUME HandlerIInv, NEW r \in Req, ServeHTTP(r) \/ CancelRequest(r)
    PROVE  HandlerIInv'
<1>1. HandlerTypeOK'
  <2>1. CASE ServeHTTP(r)
    BY <2>1 DEF HandlerIInv, HandlerTypeOK, ServeHTTP
  <2>2. CASE CancelRequest(r)
    BY <2>2 DEF HandlerIInv, HandlerTypeOK, CancelRequest
  <2> QED
    BY <2>1, <2>2
<1>2. ASSUME NEW q \in Req, q # r PROVE RequestOK(q)'
  <2>1. Untouched(q)
    BY <1>2 DEF HandlerIInv, HandlerTypeOK, ServeHTTP, CancelRequest, Untouched
  <2> QED
    BY <2>1, UntouchedOK DEF HandlerIInv
<1>3. RequestOK(r)'
  BY DEF HandlerIInv, HandlerTypeOK, RequestOK, Undecided, Known, EndedClosed, Over, StatusTrueOf,
      PanicShownOf, ServeHTTP, CancelRequest
<1> QED
  BY <1>1, <1>2, <1>3 DEF HandlerIInv

\* The tracer and the server are told a status.
LEMMA SetStatusKeeps ==
    ASSUME HandlerIInv, NEW r \in Req, NEW s \in Nat,
           serving[r] = "running", ~hijacked[r], SetStatus(r, s)
    PROVE  HandlerIInv'
<1>1. HandlerTypeOK'
  BY ToldFacts DEF HandlerIInv, HandlerTypeOK, SetStatus
<1>2. ASSUME NEW q \in Req, q # r PROVE RequestOK(q)'
  <2>1. Untouched(q)
    BY <1>2, ToldFacts DEF HandlerIInv, HandlerTypeOK, SetStatus, Untouched
  <2> QED
    BY <2>1, UntouchedOK DEF HandlerIInv
<1>3. RequestOK(r)'
  <2>1. /\ serving'[r] = "running" /\ flags'[r] = {} /\ rootSeg'[r] = "open"
        /\ respSeg'[r] = "open" /\ status'[r] = s
    BY DEF HandlerIInv, HandlerTypeOK, RequestOK, Undecided, SetStatus
  <2>2. ~again[r] => Known(r)
    BY DEF HandlerIInv, RequestOK, Undecided
  <2>3. ~again'[r] => ~again[r] /\ wire[r] \in {NoStatus, s}
    BY ToldFacts DEF HandlerIInv, SetStatus
  <2>4. wire'[r] = IF wire[r] = NoStatus /\ Final(s) THEN s ELSE wire[r]
    BY ToldFacts DEF HandlerIInv, SetStatus
  <2>5. ~again'[r] => Known(r)'
    <3>1. ASSUME ~again'[r] PROVE IF wire'[r] = NoStatus THEN ~Final(s) ELSE s = wire'[r]
      <4>1. wire[r] \in {NoStatus, s}
        BY <2>3, <3>1
      <4> QED
        BY <2>4, <4>1 DEF NoStatus, Final, OK, SwitchingProtocols
    <3>2. ASSUME IF wire'[r] = NoStatus THEN ~Final(s) ELSE s = wire'[r] PROVE Known(r)'
      <4>1. status'[r] = s /\ ~Final(s) => ~Final(status'[r])
        BY DEF Final
      <4> QED
        BY <2>1, <3>2, <4>1 DEF Known, NoStatus
    <3> QED
      BY <3>1, <3>2
  <2> QED
    BY <2>1, <2>5 DEF RequestOK, Undecided, Known, EndedClosed, Over, StatusTrueOf, PanicShownOf
<1> QED
  BY <1>1, <1>2, <1>3 DEF HandlerIInv

\* The server sends a status that the tracer is not told.
LEMMA SendsOKKeeps ==
    ASSUME HandlerIInv, NEW r \in Req, serving[r] = "running", ~hijacked[r], SendsOK(r),
           UNCHANGED <<serverWriter, serving, rootSeg, respSeg, status, hijacked, recorded,
                       flags, respFault, cancelled>>
    PROVE  HandlerIInv'
<1>1. HandlerTypeOK'
  BY SendsOKFacts DEF HandlerIInv, HandlerTypeOK
<1>2. ASSUME NEW q \in Req, q # r PROVE RequestOK(q)'
  <2>1. Untouched(q)
    BY <1>2, SendsOKFacts DEF HandlerIInv, Untouched
  <2> QED
    BY <2>1, UntouchedOK DEF HandlerIInv
<1>3. RequestOK(r)'
  <2>1. ~again'[r] => Known(r)'
    BY SendsOKFacts DEF HandlerIInv, RequestOK, Undecided, Known, NoStatus, OK
  <2> QED
    BY <2>1 DEF HandlerIInv, RequestOK, Undecided, Known, EndedClosed, Over, StatusTrueOf,
        PanicShownOf
<1> QED
  BY <1>1, <1>2, <1>3 DEF HandlerIInv

\* A panic closes the segments and is noted in what was open.
LEMMA PanicKeeps ==
    ASSUME HandlerIInv, NEW r \in Req, HandlerPanics(r)
    PROVE  HandlerIInv'
<1>1. HandlerTypeOK'
  BY DEF HandlerIInv, HandlerTypeOK, HandlerPanics, CloseRootPanicking, CloseRoot
<1>2. ASSUME NEW q \in Req, q # r PROVE RequestOK(q)'
  <2>1. Untouched(q)
    BY <1>2 DEF HandlerIInv, HandlerTypeOK, HandlerPanics, CloseRootPanicking, CloseRoot,
        Untouched
  <2> QED
    BY <2>1, UntouchedOK DEF HandlerIInv
<1>3. RequestOK(r)'
  <2>1. /\ serving'[r] = "aborted" /\ rootSeg'[r] = "closed" /\ respSeg'[r] # "open"
        /\ hijacked'[r] = hijacked[r]
    BY DEF HandlerIInv, HandlerTypeOK, HandlerPanics, CloseRootPanicking, CloseRoot
  <2>2. ASSUME ~hijacked[r]
        PROVE  "fault" \in flags'[r] /\ (respSeg'[r] = "closed" => respFault'[r])
    <3>1. rootSeg[r] = "open" /\ respSeg[r] # "closed"
      BY <2>2 DEF HandlerIInv, RequestOK, Undecided, HandlerPanics
    <3> QED
      BY <3>1 DEF HandlerIInv, HandlerTypeOK, HandlerPanics, CloseRootPanicking, CloseRoot
  <2> QED
    BY <2>1, <2>2 DEF RequestOK, Undecided, Known, EndedClosed, Over, StatusTrueOf, PanicShownOf
<1> QED
  BY <1>1, <1>2, <1>3 DEF HandlerIInv

\* Hijack closes the segments while the handler goes on.
LEMMA HijackKeeps ==
    ASSUME HandlerIInv, NEW r \in Req, Hijack(r)
    PROVE  HandlerIInv'
<1>1. HandlerTypeOK'
  BY DEF HandlerIInv, HandlerTypeOK, Hijack, CloseRoot, NoStatus, SwitchingProtocols
<1>2. ASSUME NEW q \in Req, q # r PROVE RequestOK(q)'
  <2>1. Untouched(q)
    BY <1>2 DEF HandlerIInv, HandlerTypeOK, Hijack, CloseRoot, Untouched
  <2> QED
    BY <2>1, UntouchedOK DEF HandlerIInv
<1>3. RequestOK(r)'
  BY DEF HandlerIInv, HandlerTypeOK, Hijack, CloseRoot, RequestOK, Undecided, Known, EndedClosed,
      Over, StatusTrueOf, PanicShownOf
<1> QED
  BY <1>1, <1>2, <1>3 DEF HandlerIInv

\* A handler that returns has its response recorded as it was sent.
LEMMA ReturnKeeps ==
    ASSUME HandlerIInv, NEW r \in Req, HandlerReturns(r)
    PROVE  HandlerIInv'
<1>1. HandlerTypeOK'
  <2>1. CASE hijacked[r]
    BY <2>1 DEF HandlerIInv, HandlerTypeOK, HandlerReturns, CloseRoot
  <2>2. CASE ~hijacked[r]
    <3>1. recorded' \in [Req -> Nat] /\ wire' \in [Req -> Nat]
          /\ past' \in [Req -> BOOLEAN] /\ again' = again
      BY <2>2, SendsOKFacts DEF HandlerIInv, HandlerTypeOK, HandlerReturns
    <3>2. flags' \in [Req -> SUBSET {"error", "throttle", "fault"}]
      BY <2>2 DEF HandlerIInv, HandlerTypeOK, HandlerReturns, FlagsOf
    <3> QED
      BY <3>1, <3>2 DEF HandlerIInv, HandlerTypeOK, HandlerReturns, CloseRoot
  <2> QED
    BY <2>1, <2>2
<1>2. ASSUME NEW q \in Req, q # r PROVE RequestOK(q)'
  <2>1. Untouched(q)
    BY <1>2, SendsOKFacts DEF HandlerIInv, HandlerTypeOK, HandlerReturns, CloseRoot, Untouched
  <2> QED
    BY <2>1, UntouchedOK DEF HandlerIInv
<1>3. RequestOK(r)'
  <2>1. /\ serving'[r] = "returned" /\ rootSeg'[r] = "closed" /\ respSeg'[r] # "open"
        /\ hijacked'[r] = hijacked[r] /\ cancelled'[r] = cancelled[r]
    BY DEF HandlerIInv, HandlerTypeOK, HandlerReturns, CloseRoot
  <2>2. ASSUME ~hijacked[r]
        PROVE  /\ recorded'[r] = status[r]
               /\ flags'[r] = IF cancelled[r] THEN {"error"} ELSE FlagsOf(status[r])
               /\ ~again'[r] => \/ status[r] = wire'[r]
                                \/ past'[r] /\ wire'[r] = OK /\ ~Final(status[r])
    <3>1. flags[r] = {} /\ (~again[r] => Known(r))
      BY <2>2 DEF HandlerIInv, RequestOK, Undecided, HandlerReturns
    <3>2. SendsOK(r)
      BY <2>2 DEF HandlerReturns
    <3>3. recorded'[r] = status[r]
      BY <2>2 DEF HandlerIInv, HandlerTypeOK, HandlerReturns
    <3>4. flags'[r] = flags[r] \cup IF cancelled[r] THEN {"error"} ELSE FlagsOf(status[r])
      BY <2>2 DEF HandlerIInv, HandlerTypeOK, HandlerReturns
    <3>5. ~again'[r] => \/ status[r] = wire'[r]
                        \/ past'[r] /\ wire'[r] = OK /\ ~Final(status[r])
      BY <3>1, <3>2, SendsOKFacts DEF HandlerIInv, Known
    <3> QED
      BY <3>1, <3>3, <3>4, <3>5
  <2>3. ASSUME NEW s \in Nat
        PROVE  /\ ("error" \in FlagsOf(s)) = (s \in 400..499)
               /\ ("throttle" \in FlagsOf(s)) = (s = 429)
               /\ ("fault" \in FlagsOf(s)) = (s \in 500..599)
    BY DEF FlagsOf
  <2>4. StatusTrueOf(r)'
    BY <2>1, <2>2, <2>3 DEF StatusTrueOf, HandlerIInv, HandlerTypeOK
  <2> QED
    BY <2>1, <2>4 DEF RequestOK, Undecided, Known, EndedClosed, Over, PanicShownOf
<1> QED
  BY <1>1, <1>2, <1>3 DEF HandlerIInv

LEMMA HandlerStep ==
    ASSUME HandlerIInv, [HandlerNext]_handlerVars
    PROVE  HandlerIInv'
<1>1. ASSUME NEW r \in Req, UseWriter(r) PROVE HandlerIInv'
  <2>1. ASSUME NEW s \in Statuses, WriteHeader(r, s) PROVE HandlerIInv'
    <3>1. s \in Nat
      BY HandlerAssumption
    <3> QED
      BY <2>1, <3>1, SetStatusKeeps, PanicKeeps DEF WriteHeader
  <2>2. CASE Write(r)
    BY <2>2, SetStatusKeeps, SendsOKKeeps DEF Write, OK
  <2>3. CASE WritePastStatus(r)
    BY <2>3, SendsOKKeeps DEF WritePastStatus
  <2> QED
    BY <1>1, <2>1, <2>2, <2>3 DEF UseWriter
<1> QED
  BY <1>1, HandlerStutter, ServeOrCancel, HijackKeeps, ReturnKeeps, PanicKeeps DEF HandlerNext

LEMMA HandlerImplies == HandlerIInv => StatusTrue /\ PanicShown
BY DEF HandlerIInv, RequestOK, StatusTrueOf, PanicShownOf, StatusTrue, PanicShown

----------------------------------------------------------------------------
\* Whatever its handler does with the response writer, a request is in the state
\* that HandlerIInv describes.
THEOREM HandlerInvariant == HandlerSpec => []HandlerIInv
<1>1. HandlerInit => HandlerIInv
  BY HandlerInitially
<1>2. HandlerIInv /\ [HandlerNext]_handlerVars => HandlerIInv'
  BY HandlerStep
<1> QED
  BY <1>1, <1>2, PTL DEF HandlerSpec

\* The recorded status is the one that the client got, or none if the server sent
\* 200 by itself, unless another one was set when the response had begun; the
\* flags are those of the recorded status.
THEOREM StatusRecorded == HandlerSpec => []StatusTrue
BY HandlerInvariant, HandlerImplies, PTL

\* A handler's panic closes its segments and makes them faults.
THEOREM PanicRecorded == HandlerSpec => []PanicShown
BY HandlerInvariant, HandlerImplies, PTL

----------------------------------------------------------------------------
\* The composition.

\* What a behaviour does not work with stays as it was at first.
OnlyWork ==
    /\ work # "sql" => \A r \in Req : ~InCall(r)
    /\ work # "http" => stage = "begin"
    /\ work # "aws" => phase = "start"

\* A request that is over waits for no call.
OverAlone == \A r \in Req : Over(r) => ~Waiting(r)

\* What the components keep.
ComponentsIInv == ClientIInv /\ HandlerIInv /\ SqlIInv /\ AwsIInv

----------------------------------------------------------------------------
LEMMA ServeIsHandler ==
    ASSUME NEW r \in Req, Serve(r)
    PROVE  HandlerNext /\ UNCHANGED <<vars, sqlVars, awsVars, work>>
BY DEF Serve, HandlerNext, clientVars, vars

LEMMA DatabaseIsSql ==
    /\ \A r \in Req : UseDatabase(r) =>
          SqlNext /\ UNCHANGED <<vars, handlerVars, awsVars, work>>
    /\ \A c \in Conn : Background(c) =>
          SqlNext /\ UNCHANGED <<vars, handlerVars, awsVars, work>>
BY ServiceAssumption DEF UseDatabase, Background, SqlNext, clientVars, vars

LEMMA CallIsClient == CallService => Next /\ UNCHANGED <<handlerVars, sqlVars, awsVars, work>>
BY DEF CallService

LEMMA AwsIsAws == CallAws => AwsStep /\ UNCHANGED <<vars, handlerVars, sqlVars, work>>
BY DEF CallAws, clientVars, vars

LEMMA ServiceStutter ==
    UNCHANGED serviceVars => UNCHANGED <<vars, handlerVars, sqlVars, awsVars, work>>
BY DEF serviceVars, clientVars, vars

LEMMA StepIsComponents ==
    ASSUME [ServiceNext]_serviceVars
    PROVE  [Next]_vars /\ [HandlerNext]_handlerVars /\ [SqlNext]_sqlVars /\ [AwsStep]_awsVars
BY ServeIsHandler, DatabaseIsSql, CallIsClient, AwsIsAws, ServiceStutter DEF ServiceNext

\* Every step of the service is one of a single component, and leaves the others
\* alone: seen from a component, the service behaves as its specification says.
THEOREM UsesComponents == ServiceSpec => Spec /\ HandlerSpec /\ SqlSpec /\ AwsSpec
<1>1. ServiceInit => Init /\ HandlerInit /\ SqlInit /\ AwsInit
  BY DEF ServiceInit
<1>2. [ServiceNext]_serviceVars =>
         [Next]_vars /\ [HandlerNext]_handlerVars /\ [SqlNext]_sqlVars /\ [AwsStep]_awsVars
  BY StepIsComponents
<1> QED
  BY <1>1, <1>2, PTL DEF ServiceSpec, Spec, HandlerSpec, SqlSpec, AwsSpec

\* Whatever the requests do at once, each component is in the state that its
\* inductive invariant describes.
THEOREM ComponentsKept == ServiceSpec => []ComponentsIInv
<1>1. ClientIInv /\ HandlerIInv /\ SqlIInv /\ AwsIInv => ComponentsIInv
  BY DEF ComponentsIInv
<1> QED
  BY <1>1, UsesComponents, ClientInvariant, HandlerInvariant, SqlInvariant, AwsInvariant, PTL

----------------------------------------------------------------------------
\* A call of one request does not make another one wait.
LEMMA CallOfOther ==
    ASSUME SqlIInv, NEW r \in Task, NEW q \in Task, q # r, Call(r), InCall(q)'
    PROVE  InCall(q)
<1>1. connecting'[q] = connecting[q]
  <2>1. CASE ReadAttr(r) \/ LockAttr(r) \/ ConnectFails(r)
    BY <2>1 DEF SqlIInv, SqlTypeOK, ReadAttr, LockAttr, Detect, ConnectFails
  <2>2. CASE \E c \in Conn : Connect(r, c)
    BY <2>2 DEF SqlIInv, SqlTypeOK, Connect
  <2>3. ASSUME NEW c \in Conn,
               \/ Acquire(r, c) \/ Release(r, c)
               \/ BeginCall(r, c) \/ EndCall(r, c) \/ SkipCall(r, c)
               \/ PanicExec(r, c) \/ PanicQuery(r, c) \/ PanicStmt(r, c)
               \/ PrepareFails(r, c) \/ BeginStmt(r, c) \/ EndStmt(r, c)
               \/ BeginTx(r, c) \/ BeginTxFails(r, c) \/ BeginTxPanics(r, c)
               \/ Uses(r, c) /\ EndTx(c)
               \/ EndTxPanics(r, c)
        PROVE  connecting' = connecting
    BY <2>3 DEF Acquire, Release, BeginCall, EndCall, SkipCall, PanicExec, PanicQuery, PanicStmt,
        Abandon, PrepareFails, BeginStmt, EndStmt, BeginTx, BeginTxFails, BeginTxPanics, EndTx,
        EndTxPanics, Goto, attributeVars
  <2> QED
    BY <2>1, <2>2, <2>3 DEF Call
<1>2. ASSUME NEW c \in Conn, user'[c] = q PROVE user[c] = q /\ step'[c] = step[c]
  <2>1. CASE ReadAttr(r) \/ LockAttr(r) \/ ConnectFails(r)
    BY <1>2, <2>1 DEF ReadAttr, LockAttr, ConnectFails
  <2> DEFINE Waits(d) == \/ Connect(r, d) \/ Acquire(r, d) \/ Release(r, d)
                         \/ BeginTx(r, d) \/ BeginTxFails(r, d)
                         \/ Uses(r, d) /\ EndTx(d)
             Runs(d) == \/ BeginCall(r, d) \/ EndCall(r, d) \/ SkipCall(r, d)
                        \/ PanicExec(r, d) \/ PanicQuery(r, d) \/ PanicStmt(r, d)
                        \/ PrepareFails(r, d) \/ BeginStmt(r, d) \/ EndStmt(r, d)
                        \/ BeginTxPanics(r, d) \/ EndTxPanics(r, d)
  <2>2. ASSUME NEW d \in Conn, Waits(d)
        PROVE  user[c] = q /\ step'[c] = step[c]
    BY <1>2, <2>2, SqlAssumption DEF SqlIInv, SqlTypeOK, Connect, Acquire, Release, BeginTx,
        BeginTxFails, EndTx
  <2>3. ASSUME NEW d \in Conn, Runs(d)
        PROVE  user[c] = q /\ step'[c] = step[c]
    <3>1. user[d] = r
      BY <2>3 DEF BeginCall, EndCall, SkipCall, PanicExec, PanicQuery, PanicStmt, PrepareFails,
          BeginStmt, EndStmt, BeginTxPanics, EndTxPanics, Uses, Idle
    <3>2. user' = user \/ user' = [user EXCEPT ![d] = Free]
      BY <2>3 DEF BeginCall, EndCall, SkipCall, PanicExec, PanicQuery, PanicStmt, Abandon,
          PrepareFails, BeginStmt, EndStmt, BeginTxPanics, EndTxPanics
    <3>3. c # d /\ user[c] = q
      BY <1>2, <3>1, <3>2, SqlAssumption DEF SqlIInv, SqlTypeOK
    <3>4. \E s : step' = [step EXCEPT ![d] = s]
      BY <2>3 DEF BeginCall, EndCall, SkipCall, PanicExec, PanicQuery, PanicStmt, Abandon,
          PrepareFails, BeginStmt, EndStmt, BeginTxPanics, EndTxPanics, Goto
    <3> QED
      BY <3>3, <3>4 DEF SqlIInv, SqlTypeOK
  <2>4. \/ ReadAttr(r) \/ LockAttr(r) \/ ConnectFails(r)
        \/ \E d \in Conn : Waits(d) \/ Runs(d)
    BY DEF Call
  <2> HIDE DEF Waits, Runs
  <2> QED
    BY <2>1, <2>2, <2>3, <2>4
<1> QED
  BY <1>1, <1>2 DEF InCall, Uses

\* Nor does what database/sql does in the background.
LEMMA BackgroundOfAll ==
    ASSUME SqlIInv, NEW c \in Conn, Background(c), NEW q \in Task, InCall(q)'
    PROVE  InCall(q)
<1>1. connecting' = connecting /\ step' = step
  BY DEF Background, CloseConn, EndTx, attributeVars
<1>2. ASSUME NEW d \in Conn, user'[d] = q PROVE user[d] = q
  BY <1>2, SqlAssumption DEF SqlIInv, SqlTypeOK, Background, CloseConn, EndTx
<1> QED
  BY <1>1, <1>2 DEF InCall, Uses

\* A request through the client does not begin again.
LEMMA ReturnedStays ==
    ASSUME stage = "returned", Next
    PROVE  stage' = "returned"
BY DEF Next, RoundTrip, GetConn, GotConn, UseConn, Retry, Respond, Fail, CloseTracer, Cancel,
    Return, ReadToEnd, CloseBody, DNSStart, DNSDone, ConnectStart, ConnectDone,
    TLSHandshakeStart, TLSHandshakeDone, Dial, WroteRequest, GotFirstResponseByte

\* A handler ends only when it does not wait.
LEMMA ServeEnds ==
    ASSUME HandlerIInv, OnlyWork, NEW r \in Req, Serve(r), NEW q \in Req, Over(q)'
    PROVE  Over(q) \/ ~Waiting(q)
<1>1. CASE ServeHTTP(r) \/ CancelRequest(r)
  BY <1>1 DEF HandlerIInv, HandlerTypeOK, Over, ServeHTTP, CancelRequest
<1>2. CASE ~Waiting(r) /\ (HandlerReturns(r) \/ HandlerPanics(r))
  BY <1>2 DEF HandlerIInv, HandlerTypeOK, Over, HandlerReturns, HandlerPanics
<1>3. CASE work = "write"
  BY <1>3 DEF OnlyWork, Waiting, InAwsCall
<1> QED
  BY <1>1, <1>2, <1>3 DEF Serve

LEMMA SameWaiting ==
    ASSUME UNCHANGED <<vars, sqlVars, awsVars, work>>
    PROVE  /\ \A r \in Req : Waiting(r)' = Waiting(r)
           /\ OnlyWork' = OnlyWork
BY DEF Waiting, InCall, Uses, InAwsCall, OnlyWork, vars, sqlVars, attributeVars, awsVars

LEMMA OverAloneStep ==
    ASSUME ComponentsIInv, OnlyWork, OverAlone, [ServiceNext]_serviceVars
    PROVE  OnlyWork' /\ OverAlone'
<1>1. ASSUME NEW r \in Req, Serve(r) PROVE OnlyWork' /\ OverAlone'
  <2>1. OnlyWork' /\ \A q \in Req : Waiting(q)' = Waiting(q)
    BY <1>1, ServeIsHandler, SameWaiting
  <2>2. ASSUME NEW q \in Req, Over(q)' PROVE ~Waiting(q)'
    BY <1>1, <2>1, <2>2, ServeEnds DEF ComponentsIInv, OverAlone
  <2> QED
    BY <2>1, <2>2 DEF OverAlone
<1>2. ASSUME NEW r \in Req, UseDatabase(r) PROVE OnlyWork' /\ OverAlone'
  <2>1. /\ work = "sql" /\ work' = work /\ Running(r) /\ Call(r) /\ r \in Task
        /\ stage' = stage /\ phase' = phase /\ serving' = serving
    BY <1>2, ServiceAssumption DEF UseDatabase, clientVars, handlerVars, awsVars
  <2>2. OnlyWork'
    BY <2>1 DEF OnlyWork
  <2>3. ASSUME NEW q \in Req, Over(q)' PROVE ~Waiting(q)'
    <3>1. Over(q) /\ q # r /\ q \in Task
      BY <2>1, <2>3, ServiceAssumption DEF Over, Running
    <3>2. ~InCall(q)'
      BY <2>1, <3>1, CallOfOther DEF ComponentsIInv, OverAlone, Waiting
    <3> QED
      BY <2>1, <3>1, <3>2 DEF OverAlone, Waiting, InAwsCall
  <2> QED
    BY <2>2, <2>3 DEF OverAlone
<1>3. ASSUME NEW c \in Conn, Background(c) PROVE OnlyWork' /\ OverAlone'
  <2>1. /\ work = "sql" /\ work' = work
        /\ stage' = stage /\ phase' = phase /\ serving' = serving
    BY <1>3 DEF Background, clientVars, handlerVars, awsVars
  <2>2. OnlyWork'
    BY <2>1 DEF OnlyWork
  <2>3. ASSUME NEW q \in Req, Over(q)' PROVE ~Waiting(q)'
    <3>1. Over(q) /\ q \in Task
      BY <2>1, <2>3, ServiceAssumption DEF Over
    <3>2. ~InCall(q)'
      BY <1>3, <3>1, BackgroundOfAll DEF ComponentsIInv, OverAlone, Waiting
    <3> QED
      BY <2>1, <3>1, <3>2 DEF OverAlone, Waiting, InAwsCall
  <2> QED
    BY <2>2, <2>3 DEF OverAlone
<1>4. CASE CallService
  <2>1. /\ work = "http" /\ work' = work
        /\ Running(Main) \/ stage # "begin"
        /\ phase' = phase /\ serving' = serving
        /\ connecting' = connecting /\ user' = user /\ step' = step
    BY <1>4 DEF CallService, handlerVars, awsVars, sqlVars, attributeVars
  <2>2. \A q \in Req : InCall(q)' = InCall(q)
    BY <2>1 DEF InCall, Uses
  <2>3. OnlyWork'
    BY <2>1, <2>2 DEF OnlyWork
  <2>4. ASSUME NEW q \in Req, Over(q)' PROVE ~Waiting(q)'
    <3>1. Over(q) /\ ~Waiting(q)
      BY <2>1, <2>4 DEF Over, OverAlone
    <3>2. CASE q # Main
      BY <2>2, <3>1, <3>2 DEF Waiting
    <3>3. CASE q = Main
      <4>1. stage = "returned"
        BY <2>1, <3>1, <3>3 DEF Waiting, Over, Running
      <4>2. stage' = "returned"
        BY <1>4, <4>1, ReturnedStays DEF CallService
      <4> QED
        BY <2>1, <2>2, <3>1, <3>3, <4>2 DEF Waiting, InAwsCall
    <3> QED
      BY <3>2, <3>3
  <2> QED
    BY <2>3, <2>4 DEF OverAlone
<1>5. CASE CallAws
  <2>1. /\ work = "aws" /\ work' = work /\ Running(Main) /\ stage' = stage /\ serving' = serving
        /\ connecting' = connecting /\ user' = user /\ step' = step
    BY <1>5 DEF CallAws, clientVars, handlerVars, sqlVars, attributeVars
  <2>2. \A q \in Req : InCall(q)' = InCall(q)
    BY <2>1 DEF InCall, Uses
  <2>3. OnlyWork'
    BY <2>1, <2>2 DEF OnlyWork
  <2>4. ASSUME NEW q \in Req, Over(q)' PROVE ~Waiting(q)'
    <3>1. Over(q) /\ ~Waiting(q) /\ q # Main
      BY <2>1, <2>4 DEF Over, OverAlone, Running
    <3> QED
      BY <2>2, <3>1 DEF Waiting
  <2> QED
    BY <2>3, <2>4 DEF OverAlone
<1>6. CASE UNCHANGED serviceVars
  <2>1. OnlyWork' /\ (\A q \in Req : Waiting(q)' = Waiting(q)) /\ serving' = serving
    BY <1>6, ServiceStutter, SameWaiting DEF handlerVars
  <2> QED
    BY <2>1 DEF OverAlone, Over
<1> QED
  BY <1>1, <1>2, <1>3, <1>4, <1>5, <1>6 DEF ServiceNext

LEMMA OverAloneInit == ServiceInit => OnlyWork /\ OverAlone
BY ServiceAssumption DEF ServiceInit, Init, HandlerInit, SqlInit, AwsInit, OnlyWork, OverAlone,
    Over, InCall

----------------------------------------------------------------------------
\* What is open below a request that does not wait.
LEMMA NoneBelow ==
    ASSUME ComponentsIInv, OverAlone
    PROVE  ChildrenFirst
<1> SUFFICES ASSUME NEW r \in Req, Over(r), ~hijacked[r]
             PROVE  /\ rootSeg[r] = "closed" /\ respSeg[r] # "open"
                    /\ \A i \in live : reqOf[i] = r => i \in left \/ \E c \in Conn : txn[c] = i
                    /\ r = Main =>
                         /\ open["remote"] = 0 /\ open["connect"] = 0
                         /\ \A k \in Hooked : open[k] = overwritten[k]
                         /\ attempt <= 1 /\ ~raced => \A k \in Hooked : open[k] = 0
                         /\ open["response"] > 0 => late \/ body = "open"
                         /\ \A k \in AwsKinds :
                               awsOpen[k] > 0 => presigned \/ resigned > 0 \/ tries > 1
  BY DEF ChildrenFirst
<1>1. rootSeg[r] = "closed" /\ respSeg[r] # "open"
  BY DEF ComponentsIInv, HandlerIInv, RequestOK, EndedClosed
<1>2. ASSUME NEW i \in live, reqOf[i] = r, i \notin left PROVE \E c \in Conn : txn[c] = i
  <2>1. PICK c \in Conn : seg[c] = i \/ txn[c] = i
    BY <1>2 DEF ComponentsIInv, SqlIInv, HeldOrClosed
  <2>2. CASE seg[c] = i
    <3>1. i # None /\ ConnOK(c)
      BY <1>2 DEF ComponentsIInv, SqlIInv, SqlTypeOK, Begun, None
    <3>2. step[c] \in {"call", "skipped", "stmt"} /\ user[c] = r
      BY <1>2, <2>2, <3>1 DEF ConnOK, ComponentsIInv, SqlIInv, SqlTypeOK
    <3>3. Waiting(r)
      BY <3>2 DEF Waiting, InCall, Uses
    <3> QED
      BY <3>3 DEF OverAlone
  <2> QED
    BY <2>1, <2>2
<1>3. ASSUME r = Main
      PROVE  /\ open["remote"] = 0 /\ open["connect"] = 0
             /\ \A k \in Hooked : open[k] = overwritten[k]
             /\ attempt <= 1 /\ ~raced => \A k \in Hooked : open[k] = 0
             /\ open["response"] > 0 => late \/ body = "open"
  <2>1. stage \in {"begin", "returned"}
    BY <1>3 DEF OverAlone, Waiting
  <2>2. open["remote"] = 0 /\ open["connect"] = 0
    BY <2>1 DEF ComponentsIInv, ClientIInv, StageHolds, SubsegmentsOK, Hooked, Kinds
  <2>3. stage = "begin" => attempt = 0 /\ held = {}
    BY DEF ComponentsIInv, ClientIInv, StageHolds
  <2>4. ASSUME NEW k \in Hooked
        PROVE  open[k] = overwritten[k] /\ (attempt <= 1 /\ ~raced => open[k] = 0)
    <3>1. k \notin held /\ k \in Kinds
      BY <2>1, <2>3 DEF ComponentsIInv, ClientIInv, StageHolds, Kinds
    <3> QED
      BY <3>1 DEF ComponentsIInv, ClientIInv, SubsegmentsOK, NothingOverwritten
  <2>5. ~late /\ body # "open" => open["response"] = 0
    <3>1. ASSUME ~late, body # "open" PROVE "response" \notin held
      BY <2>1, <2>3, <3>1 DEF ComponentsIInv, ClientIInv, TracerDone, TypeOK
    <3> QED
      BY <3>1 DEF ComponentsIInv, ClientIInv, SubsegmentsOK, Kinds
  <2> QED
    BY <2>2, <2>4, <2>5
<1>4. ASSUME r = Main, NEW k \in AwsKinds, awsOpen[k] > 0
      PROVE  presigned \/ resigned > 0 \/ tries > 1
  <2>1. phase \in {"start", "done"}
    BY <1>4 DEF OverAlone, Waiting, InAwsCall
  <2>2. CASE fields = {}
    BY <1>4, <2>2 DEF ComponentsIInv, AwsIInv, AwsTypeOK, Counted, Lost
  <2> QED
    BY <2>1, <2>2 DEF ComponentsIInv, AwsIInv, PhaseHolds
<1> QED
  BY <1>1, <1>2, <1>3, <1>4

\* A request that is over has left no subsegment open below it, but for those
\* that ChildrenFirst names.
THEOREM NoneLeftBehind == ServiceSpec => []ChildrenFirst
<1>1. ServiceInit => OnlyWork /\ OverAlone
  BY OverAloneInit
<1>2. ComponentsIInv /\ OnlyWork /\ OverAlone /\ [ServiceNext]_serviceVars =>
         OnlyWork' /\ OverAlone'
  BY OverAloneStep
<1>3. ComponentsIInv /\ OverAlone => ChildrenFirst
  BY NoneBelow
<1> QED
  BY <1>1, <1>2, <1>3, ComponentsKept, PTL DEF ServiceSpec
=============================================================================
