------------------------------- MODULE Service -------------------------------
(***************************************************************************)
(* A service that is instrumented with the packages of this repository:    *)
(* its handlers run under HttpHandler, and while they run they write a     *)
(* response, call another service (HttpClient), use a database (SqlConn)   *)
(* or call an AWS service (AwsCall).                                       *)
(*                                                                         *)
(* The application is free in all but this: a call is made by the handler  *)
(* itself, so that it does not return before the call does.  What the      *)
(* packages leave running in the background goes on by itself.             *)
(***************************************************************************)
EXTENDS HttpClient, HttpHandler, SqlConn, AwsCall

CONSTANTS
    Main,    \* the request whose handler does the work
    Works    \* what may be done: "write", "http", "sql", "aws"

ASSUME ServiceAssumption ==
    Main \in Req /\ Task = Req /\ Works \subseteq {"write", "http", "sql", "aws"}

VARIABLE work    \* what the handlers do in this behaviour

clientVars == <<subsegments, stage, attempt, body, transport, late>>
serviceVars == <<clientVars, handlerVars, sqlVars, awsVars, work>>

ServiceInit ==
    /\ Init /\ HandlerInit /\ SqlInit /\ AwsInit
    /\ work \in Works
    /\ work = "write" \/ serverWriter = {}    \* it matters to the response alone

Running(r) == serving[r] = "running"

\* The handler waits for a call.
Waiting(r) ==
    \/ InCall(r)
    \/ r = Main /\ (stage \notin {"begin", "returned"} \/ InAwsCall)

----------------------------------------------------------------------------
\* The other requests are there for the connections they share with Main.
Serve(r) ==
    /\ r = Main \/ work = "sql"
    /\ \/ ServeHTTP(r)
       \/ ~Waiting(r) /\ HandlerReturns(r)
       \/ work = "write" /\ (UseWriter(r) \/ Hijack(r))
       \/ ~Waiting(r) /\ r = Main /\ work # "http" /\ HandlerPanics(r)
       \/ r = Main /\ work # "http" /\ CancelRequest(r)
    /\ UNCHANGED <<clientVars, sqlVars, awsVars, work>>

\* RoundTrip is called by the handler; the rest of it, the hooks and the body,
\* follow.
CallService ==
    /\ work = "http"
    /\ Running(Main) \/ stage # "begin"
    /\ Next
    /\ UNCHANGED <<handlerVars, sqlVars, awsVars, work>>

UseDatabase(r) ==
    /\ work = "sql" /\ Running(r)
    /\ Call(r)
    /\ UNCHANGED <<clientVars, handlerVars, awsVars, work>>

\* database/sql closes a connection of the pool, or ends a transaction whose
\* context has ended.
Background(c) ==
    /\ work = "sql"
    /\ \/ CloseConn(c)
       \/ user[c] \in Req /\ Done(user[c]) /\ EndTx(c)
    /\ UNCHANGED <<clientVars, handlerVars, awsVars, work>>

CallAws ==
    /\ work = "aws" /\ Running(Main)
    /\ AwsStep
    /\ UNCHANGED <<clientVars, handlerVars, sqlVars, work>>

ServiceNext ==
    \/ \E r \in Req : Serve(r) \/ UseDatabase(r)
    \/ \E c \in Conn : Background(c)
    \/ CallService \/ CallAws

ServiceSpec == ServiceInit /\ [][ServiceNext]_serviceVars

----------------------------------------------------------------------------
\* When a request is over, its root has been given to the client, no subsegment
\* begun below it is open, but for: what is below the connections, a driver that
\* panicked or whose fallback failed, a transaction that is still to be rolled
\* back; an answer whose body is not closed, or came too late; and one whose field
\* was given to another, by a second dial, another attempt or a second signature.
ChildrenFirst ==
    \A r \in Req :
        Over(r) /\ ~hijacked[r] =>
            /\ rootSeg[r] = "closed" /\ respSeg[r] # "open"
            /\ \A i \in live : reqOf[i] = r => i \in left \/ \E c \in Conn : txn[c] = i
            /\ r = Main =>
                 /\ open["remote"] = 0 /\ open["connect"] = 0
                 /\ \A k \in Hooked : open[k] = overwritten[k]
                 /\ attempt <= 1 /\ ~raced => \A k \in Hooked : open[k] = 0
                 /\ open["response"] > 0 => late \/ body = "open"
                 /\ \A k \in AwsKinds : awsOpen[k] > 0 => presigned \/ resigned > 0 \/ tries > 1
=============================================================================
