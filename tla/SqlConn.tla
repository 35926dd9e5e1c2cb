------------------------------- MODULE SqlConn -------------------------------
(***************************************************************************)
(* The connections of one xraysql.DB: the attributes of the database       *)
(* (xraysql/connector.go), the subsegment of a call and of a transaction   *)
(* (conn.go, stmt.go, tx.go).                                              *)
(*                                                                         *)
(* database/sql and the driver are external.  database/sql gives a         *)
(* connection to one user at a time, resets it before the next one, runs a *)
(* call that was answered with ErrSkip as a prepared statement, and rolls  *)
(* a transaction back when its context ends.  When the driver panics, it   *)
(* takes the connection back by a deferred call in Exec alone: after any   *)
(* other call the connection is never used again or, in a transaction, a   *)
(* lock is kept, and the transaction never ends.                           *)
(*                                                                         *)
(* A definition marked "Faulty" is what a slip in the code would make of   *)
(* the one after it; no specification uses it.                             *)
(***************************************************************************)
EXTENDS Integers, Sequences, FiniteSets

CONSTANTS
    Task,        \* those who use the database, each with a segment of its own
    Conn,        \* the connections that may be open at once
    MaxSegs,     \* bound: subsegments begun
    Absent,      \* not connected
    Free         \* in the pool

ASSUME SqlAssumption ==
    /\ MaxSegs \in Nat
    /\ Absent \notin Task /\ Free \notin Task /\ Absent # Free

None == 0
Segs == 1..MaxSegs

\* What the detectors find, or not: then nothing is known of the database.
Attributes == {"detected", "unknown"}

VARIABLES
    attr,        \* driverConnector.attr, or "none"
    connecting,  \* of each request: "no", "locking" (getAttr saw no attributes),
                 \*   or the attributes that it connects with
    attrOf,      \* driverConn.attr of each connection
    user,        \* external: whom a connection is given to
    step,        \* external: what runs on it: "idle", "call", "skipped", "stmt",
                 \*   or "lost": database/sql will not use it again
    seg,         \* driverConn.seg: a subsegment, or None
    txn,         \* driverConn.tx: the transaction's subsegment, or None
    numSegs,     \* subsegments begun
    reqOf, parentOf, isTx,   \* of a subsegment: request, parent (None is the
                 \*   request's own segment), is it a transaction's?
    live,        \* subsegments not closed
    left         \* history: those that a call left open, as the driver panicked or
                 \*   what it skipped could not be prepared; a transaction among
                 \*   them cannot end

attributeVars == <<attr, connecting, attrOf>>
treeVars == <<numSegs, reqOf, parentOf, isTx>>
sqlVars == <<attributeVars, user, step, seg, txn, treeVars, live, left>>

SqlInit ==
    /\ attr = "none"
    /\ connecting = [r \in Task |-> "no"]
    /\ attrOf = [c \in Conn |-> "none"]
    /\ user = [c \in Conn |-> Absent] /\ step = [c \in Conn |-> "idle"]
    /\ seg = [c \in Conn |-> None] /\ txn = [c \in Conn |-> None]
    /\ numSegs = 0
    /\ reqOf = <<>> /\ parentOf = <<>> /\ isTx = <<>>
    /\ live = {} /\ left = {}

Uses(r, c) == user[c] = r
HasConn(r) == \E c \in Conn : Uses(r, c) /\ step[c] # "lost"

----------------------------------------------------------------------------
\* A new connection.  The attributes are detected once, over a connection of
\* their own; the subsegments of that, and of CONNECT, end with the calls.

\* getAttr reads the attributes.
ReadAttr(r) ==
    /\ connecting[r] = "no" /\ ~HasConn(r)
    /\ \E c \in Conn : user[c] = Absent
    /\ connecting' = [connecting EXCEPT ![r] = IF attr = "none" THEN "locking" ELSE attr]
    /\ UNCHANGED <<attr, attrOf, user, step, seg, txn, treeVars, live, left>>

\* The connection failed.  A detector that fails does not fail: the next one is
\* tried, and after the last one the database stays unknown.
Detect(r) ==
    \/ connecting' = [connecting EXCEPT ![r] = "no"] /\ UNCHANGED attr
    \/ \E a \in Attributes :
          attr' = a /\ connecting' = [connecting EXCEPT ![r] = a]

\* Faulty: the attributes are not read again under the lock.
LockAttrDetects(r) ==
    /\ connecting[r] = "locking"
    /\ Detect(r)
    /\ UNCHANGED <<attrOf, user, step, seg, txn, treeVars, live, left>>

\* With the lock held, another request may have been faster.
LockAttr(r) ==
    /\ connecting[r] = "locking"
    /\ \/ attr # "none" /\ connecting' = [connecting EXCEPT ![r] = attr] /\ UNCHANGED attr
       \/ attr = "none" /\ Detect(r)
    /\ UNCHANGED <<attrOf, user, step, seg, txn, treeVars, live, left>>

Connect(r, c) ==
    /\ connecting[r] \in Attributes
    /\ user[c] = Absent
    /\ attrOf' = [attrOf EXCEPT ![c] = connecting[r]]
    /\ user' = [user EXCEPT ![c] = r]
    /\ connecting' = [connecting EXCEPT ![r] = "no"]
    /\ UNCHANGED <<attr, step, seg, txn, treeVars, live, left>>

ConnectFails(r) ==
    /\ connecting[r] \in Attributes
    /\ connecting' = [connecting EXCEPT ![r] = "no"]
    /\ UNCHANGED <<attr, attrOf, user, step, seg, txn, treeVars, live, left>>

----------------------------------------------------------------------------
\* Subsegments.

New(r, p, tx) ==
    /\ numSegs < MaxSegs
    /\ numSegs' = numSegs + 1
    /\ reqOf' = Append(reqOf, r) /\ parentOf' = Append(parentOf, p) /\ isTx' = Append(isTx, tx)

\* Faulty: a statement of a transaction is put below the request.
BeginUnderRequest(r, c) ==
    \/ seg[c] # None /\ UNCHANGED <<seg, treeVars, live>>
    \/ /\ seg[c] = None
       /\ New(r, None, FALSE)
       /\ seg' = [seg EXCEPT ![c] = numSegs'] /\ live' = live \cup {numSegs'}

\* beginSubsegment, unless the connection has one already.
BeginSubsegment(r, c) ==
    \/ seg[c] # None /\ UNCHANGED <<seg, treeVars, live>>
    \/ /\ seg[c] = None
       /\ New(r, txn[c], FALSE)
       /\ seg' = [seg EXCEPT ![c] = numSegs'] /\ live' = live \cup {numSegs'}

\* Faulty: the reference goes, the subsegment stays open.
ForgetSubsegment(c) ==
    /\ seg' = [seg EXCEPT ![c] = None]
    /\ UNCHANGED live

\* closeSubsegment, if there is one.
CloseSubsegment(c) ==
    /\ live' = live \ {seg[c]}
    /\ seg' = [seg EXCEPT ![c] = None]

----------------------------------------------------------------------------
\* The pool.

\* Faulty: what the user before has left open is kept.
ResetNothing(c) == UNCHANGED <<live, seg>>

\* ResetSession, before a connection is used again.
ResetSession(c) == CloseSubsegment(c)

\* The driver may find that the connection is broken: then it is closed.
Acquire(r, c) ==
    /\ user[c] = Free /\ ~HasConn(r) /\ connecting[r] = "no"
    /\ ResetSession(c)
    /\ user' = [user EXCEPT ![c] = r]
    /\ UNCHANGED <<attributeVars, step, txn, treeVars, left>>

\* Close, of a connection that is broken or not needed.
CloseConn(c) ==
    /\ user[c] = Free
    /\ CloseSubsegment(c)
    /\ user' = [user EXCEPT ![c] = Absent]
    /\ attrOf' = [attrOf EXCEPT ![c] = "none"]
    /\ UNCHANGED <<attr, connecting, step, txn, treeVars, left>>

Idle(r, c) == Uses(r, c) /\ step[c] = "idle"

Release(r, c) ==
    /\ Idle(r, c) /\ txn[c] = None
    /\ user' = [user EXCEPT ![c] = Free]
    /\ UNCHANGED <<attributeVars, step, seg, txn, treeVars, live, left>>

----------------------------------------------------------------------------
\* ExecContext and QueryContext of a connection.

Goto(c, s) ==
    /\ step' = [step EXCEPT ![c] = s]
    /\ UNCHANGED <<attributeVars, txn>>

BeginCall(r, c) ==
    /\ Idle(r, c)
    /\ Goto(c, "call")
    /\ BeginSubsegment(r, c)
    /\ UNCHANGED <<user, left>>

\* The driver did it, or failed; or it cannot take such arguments, or the
\* context has ended.
EndCall(r, c) ==
    /\ Uses(r, c) /\ step[c] = "call"
    /\ Goto(c, "idle")
    /\ CloseSubsegment(c)
    /\ UNCHANGED <<user, treeVars, left>>

\* The driver has no such call, or answers ErrSkip.
SkipCall(r, c) ==
    /\ \/ Idle(r, c)
       \/ Uses(r, c) /\ step[c] = "call"
    /\ Goto(c, "skipped")
    /\ UNCHANGED <<user, seg, treeVars, live, left>>

\* The driver panics in an Exec, or as what Exec skipped is prepared: database/sql
\* takes the connection back, and a transaction goes on.
PanicExec(r, c) ==
    /\ Uses(r, c) /\ step[c] \in {"call", "skipped"}
    /\ Goto(c, "idle")
    /\ left' = left \cup ({seg[c]} \ {None})
    /\ user' = IF txn[c] = None THEN [user EXCEPT ![c] = Free] ELSE user
    /\ UNCHANGED <<seg, treeVars, live>>

\* database/sql keeps what it has locked.
Abandon(c) ==
    /\ Goto(c, IF txn[c] = None THEN "lost" ELSE "idle")
    /\ UNCHANGED <<user, treeVars>>

\* The driver panics in a Query, or as what Query skipped is prepared.
PanicQuery(r, c) ==
    /\ Uses(r, c) /\ step[c] \in {"call", "skipped"}
    /\ Abandon(c)
    /\ left' = left \cup ({seg[c], txn[c]} \ {None})
    /\ UNCHANGED <<seg, live>>

\* PrepareContext fails.
PrepareFails(r, c) ==
    /\ Uses(r, c) /\ step[c] = "skipped"
    /\ Goto(c, "idle")
    /\ left' = left \cup ({seg[c]} \ {None})
    /\ UNCHANGED <<user, seg, treeVars, live>>

\* ExecContext and QueryContext of a statement, prepared now or before.
BeginStmt(r, c) ==
    /\ Uses(r, c) /\ step[c] \in {"idle", "skipped"}
    /\ Goto(c, "stmt")
    /\ BeginSubsegment(r, c)
    /\ UNCHANGED <<user, left>>

\* Faulty: the call that closes it is not deferred, and skipped by a panic.
EndStmtUndeferred(r, c) ==
    /\ Uses(r, c) /\ step[c] = "stmt"
    /\ Goto(c, "idle")
    /\ CloseSubsegment(c) \/ UNCHANGED <<seg, live>>
    /\ UNCHANGED <<user, treeVars, left>>

\* A deferred call closes it.
EndStmt(r, c) ==
    /\ Uses(r, c) /\ step[c] = "stmt"
    /\ Goto(c, "idle")
    /\ CloseSubsegment(c)
    /\ UNCHANGED <<user, treeVars, left>>

\* As it does when the driver panics.
PanicStmt(r, c) ==
    /\ Uses(r, c) /\ step[c] = "stmt"
    /\ Abandon(c)
    /\ CloseSubsegment(c)
    /\ left' = left \cup ({txn[c]} \ {None})

----------------------------------------------------------------------------
\* Transactions.

BeginTx(r, c) ==
    /\ Idle(r, c) /\ txn[c] = None
    /\ New(r, None, TRUE)
    /\ txn' = [txn EXCEPT ![c] = numSegs'] /\ live' = live \cup {numSegs'}
    /\ UNCHANGED <<attributeVars, user, step, seg, left>>

\* The driver fails: the subsegment begins and ends.
BeginTxFails(r, c) ==
    /\ Idle(r, c) /\ txn[c] = None
    /\ New(r, None, TRUE)
    /\ UNCHANGED <<attributeVars, user, step, seg, txn, live, left>>

\* The driver panics: nobody refers to the subsegment any more, and database/sql
\* never takes the connection back.
BeginTxPanics(r, c) ==
    /\ Idle(r, c) /\ txn[c] = None
    /\ New(r, None, TRUE)
    /\ live' = live \cup {numSegs'} /\ left' = left \cup {numSegs'}
    /\ step' = [step EXCEPT ![c] = "lost"]
    /\ UNCHANGED <<attributeVars, user, seg, txn>>

\* Commit, and Rollback, which database/sql also calls by itself when the
\* context ends; then the connection goes back to the pool.  It waits for the
\* lock of a query that panicked, for ever.
EndTx(c) ==
    /\ txn[c] \notin {None} \cup left /\ step[c] = "idle"
    /\ live' = live \ {txn[c]}
    /\ txn' = [txn EXCEPT ![c] = None]
    /\ user' = [user EXCEPT ![c] = Free]
    /\ UNCHANGED <<attributeVars, step, seg, treeVars, left>>

\* The driver panics in Commit or Rollback: the subsegment is not closed, and
\* not forgotten, but the connection is never used again.
EndTxPanics(r, c) ==
    /\ Idle(r, c) /\ txn[c] \notin {None} \cup left
    /\ step' = [step EXCEPT ![c] = "lost"]
    /\ left' = left \cup {txn[c]}
    /\ UNCHANGED <<attributeVars, user, seg, txn, treeVars, live>>

----------------------------------------------------------------------------
\* Does the request use a connection, or wait for one?
InCall(r) ==
    \/ connecting[r] # "no"
    \/ \E c \in Conn : Uses(r, c) /\ step[c] \in {"call", "skipped", "stmt"}

Call(r) ==
    \/ ReadAttr(r) \/ LockAttr(r) \/ ConnectFails(r)
    \/ \E c \in Conn :
          \/ Connect(r, c) \/ Acquire(r, c) \/ Release(r, c)
          \/ BeginCall(r, c) \/ EndCall(r, c) \/ SkipCall(r, c)
          \/ PanicExec(r, c) \/ PanicQuery(r, c) \/ PanicStmt(r, c)
          \/ PrepareFails(r, c) \/ BeginStmt(r, c) \/ EndStmt(r, c)
          \/ BeginTx(r, c) \/ BeginTxFails(r, c) \/ BeginTxPanics(r, c)
          \/ Uses(r, c) /\ EndTx(c)
          \/ EndTxPanics(r, c)

SqlNext ==
    \/ \E r \in Task : Call(r)
    \/ \E c \in Conn : CloseConn(c) \/ EndTx(c)

SqlSpec == SqlInit /\ [][SqlNext]_sqlVars

----------------------------------------------------------------------------
\* Whoever has a connection finds on it a subsegment of an own request or none:
\* what another request left there was closed before.
OwnRequest ==
    \A c \in Conn : user[c] \in Task /\ seg[c] # None => reqOf[seg[c]] = user[c]

\* Every open subsegment can still be closed: it is the one of a connection that
\* is in use or in the pool, to be reset or closed, or of a transaction that can
\* end.  The driver has to panic to have one lost: that of a transaction as it
\* begins or ends, or under a query that keeps its lock; and that of a query whose
\* connection is not used again.  What an Exec or a failed Prepare leaves open
\* is never lost.
HeldOrClosed ==
    \A i \in live :
        \/ \E c \in Conn :
              step[c] # "lost" /\ (seg[c] = i \/ (txn[c] = i /\ i \notin left))
        \/ /\ i \in left
           /\ isTx[i] \/ \E c \in Conn : step[c] = "lost" /\ seg[c] = i

\* A call in a transaction is recorded below it, and ended before it, unless it
\* goes by a subsegment that was left open.
UnderTransaction ==
    /\ \A c \in Conn :
          seg[c] # None /\ txn[c] # None /\ seg[c] \notin left => parentOf[seg[c]] = txn[c]
    /\ \A i \in live \ left : parentOf[i] = None \/ parentOf[i] \in live

\* All connections tell the same of their database, although several requests
\* connect at once and detecting may give another answer each time.
OneAttribute ==
    \A c, d \in Conn : attrOf[c] # "none" /\ attrOf[d] # "none" => attrOf[c] = attrOf[d]
=============================================================================
