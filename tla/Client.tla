------------------------------- MODULE Client -------------------------------
(***************************************************************************)
(* Client.emit, Client.Close and Configure (xray/client.go): goroutines    *)
(* encode documents into pooled buffers and write them to the UDP socket   *)
(* of the client, while the application closes and replaces clients.       *)
(*                                                                         *)
(* A definition marked "Faulty" is what a slip in the code would make of   *)
(* the one after it; no specification uses it.                             *)
(***************************************************************************)
EXTENDS Naturals, Sequences, FiniteSets

CONSTANTS
    Clients,      \* the clients New may return
    Initial,      \* the first default client
    Emitters,     \* goroutines in Client.Emit
    Buffers,      \* buffers New of the pool may allocate
    MaxDocs,      \* bound: documents of one goroutine
    MaxSockets,   \* bound: sockets dialed
    None

ASSUME ClientsAssumption == Initial \in Clients
ASSUME BoundsAssumption == MaxDocs \in Nat /\ MaxSockets \in Nat
ASSUME NoneAssumption == None \notin Clients \cup Buffers

VARIABLES
    defaultClient, replaced,   \* the default client, those it has replaced
    configuring,               \* Configure: the client that New returned
    crossed,                   \* history: clients with an emit under way between
                               \*   the Close and the end of their replacement
    conn, open, dialed,        \* Client.conn, open sockets, sockets ever dialed
    pool, content,             \* buffers in a client's pool, what a buffer holds
    allocated,                 \* buffers allocated so far
    client, doc, buf,          \* an emitter's client, number of its document, buffer
    daemon                     \* history: what the daemon received

config  == <<defaultClient, replaced, configuring, crossed>>
network == <<conn, open, dialed>>
buffers == <<pool, content, allocated>>
emitter == <<client, doc, buf>>
vars == <<config, network, buffers, emitter, daemon>>

Init ==
    /\ defaultClient = Initial /\ replaced = {} /\ configuring = None /\ crossed = {}
    /\ conn = [c \in Clients |-> 0] /\ open = {} /\ dialed = 0
    /\ pool = [c \in Clients |-> {}] /\ allocated = {}
    /\ content = [b \in Buffers |-> None]
    /\ client = [g \in Emitters |-> None]
    /\ doc = [g \in Emitters |-> 0] /\ buf = [g \in Emitters |-> None]
    /\ daemon = <<>>

\* Segment.emit: ContextClient gives the default client, and Emit goes on with
\* the next document of the segment.
BeginEmit(g) ==
    /\ client[g] = None /\ doc[g] < MaxDocs
    /\ client' = [client EXCEPT ![g] = defaultClient]
    /\ doc' = [doc EXCEPT ![g] = @ + 1]
    /\ crossed' = crossed \cup {c \in {defaultClient} : configuring # None}
    /\ UNCHANGED <<defaultClient, replaced, configuring, network, buffers, buf, daemon>>

\* Faulty: the buffer stays in the pool while it is used.
EncodeShared(g) ==
    /\ client[g] # None /\ buf[g] = None
    /\ \E b \in pool[client[g]] \cup (Buffers \ allocated) :
          /\ buf' = [buf EXCEPT ![g] = b]
          /\ content' = [content EXCEPT ![b] = <<g, doc[g]>>]
          /\ pool' = [pool EXCEPT ![client[g]] = @ \cup {b}]
          /\ allocated' = allocated \cup {b}
    /\ UNCHANGED <<config, network, client, doc, daemon>>

\* A buffer of the pool, or a new one, is filled with the document.
Encode(g) ==
    /\ client[g] # None /\ buf[g] = None
    /\ \E b \in pool[client[g]] \cup (Buffers \ allocated) :
          /\ buf' = [buf EXCEPT ![g] = b]
          /\ content' = [content EXCEPT ![b] = <<g, doc[g]>>]
          /\ pool' = [pool EXCEPT ![client[g]] = @ \ {b}]
          /\ allocated' = allocated \cup {b}
    /\ UNCHANGED <<config, network, client, doc, daemon>>

\* The deferred Put, when emit returns.
Put(g) ==
    /\ pool' = [pool EXCEPT ![client[g]] = @ \cup {buf[g]}]
    /\ buf' = [buf EXCEPT ![g] = None]
    /\ client' = [client EXCEPT ![g] = None]
    /\ UNCHANGED <<content, allocated, doc>>

\* The document could not be encoded, or dialed for: it is gone.
Drop(g) ==
    /\ buf[g] # None
    /\ Put(g)
    /\ UNCHANGED <<config, network, daemon>>

\* With c.mu held: dial if there is no connection, then write.  The write may
\* fail, or the datagram be lost; the connection stays.
Write(g) ==
    /\ buf[g] # None
    /\ LET c == client[g] IN
         \/ conn[c] # 0 /\ UNCHANGED network
         \/ /\ conn[c] = 0 /\ dialed < MaxSockets
            /\ dialed' = dialed + 1
            /\ conn' = [conn EXCEPT ![c] = dialed + 1]
            /\ open' = open \cup {dialed + 1}
    /\ daemon' \in {daemon, Append(daemon, content[buf[g]])}
    /\ Put(g)
    /\ UNCHANGED config

\* Client.Close
CloseConn(c) ==
    /\ open' = open \ {conn[c]}
    /\ conn' = [conn EXCEPT ![c] = 0]
    /\ UNCHANGED dialed

Close(c) ==
    /\ c \in {defaultClient} \cup replaced
    /\ CloseConn(c)
    /\ UNCHANGED <<config, buffers, emitter, daemon>>

\* New, in Configure.
NewClient ==
    /\ configuring = None
    /\ \E c \in Clients \ ({defaultClient} \cup replaced) : configuring' = c
    /\ crossed' = crossed \cup {c \in {defaultClient} : \E g \in Emitters : client[g] = c}
    /\ UNCHANGED <<defaultClient, replaced, buffers, emitter, daemon>>

\* Faulty: Configure does not close the client that it replaces.
BeginWithoutClose ==
    /\ NewClient
    /\ UNCHANGED network

\* Configure makes a client, closes the default one, and replaces it.
BeginConfigure ==
    /\ NewClient
    /\ CloseConn(defaultClient)

EndConfigure ==
    /\ configuring # None
    /\ replaced' = replaced \cup {defaultClient}
    /\ defaultClient' = configuring
    /\ configuring' = None
    /\ UNCHANGED <<crossed, network, buffers, emitter, daemon>>

Next ==
    \/ \E g \in Emitters : BeginEmit(g) \/ Encode(g) \/ Drop(g) \/ Write(g)
    \/ \E c \in Clients : Close(c)
    \/ BeginConfigure \/ EndConfigure

Spec == Init /\ [][Next]_vars

----------------------------------------------------------------------------
\* Every variable holds a value of its type.
TypeOK ==
    /\ defaultClient \in Clients /\ replaced \subseteq Clients
    /\ configuring \in Clients \cup {None} /\ crossed \subseteq Clients
    /\ conn \in [Clients -> 0..MaxSockets] /\ open \subseteq 1..MaxSockets
    /\ dialed \in 0..MaxSockets
    /\ pool \in [Clients -> SUBSET Buffers] /\ allocated \subseteq Buffers
    /\ buf \in [Emitters -> Buffers \cup {None}]
    /\ client \in [Emitters -> Clients \cup {None}]
    /\ doc \in [Emitters -> 0..MaxDocs]
    /\ content \in [Buffers -> (Emitters \X (1..MaxDocs)) \cup {None}]
    /\ daemon \in Seq(Emitters \X (1..MaxDocs))

\* The open sockets are those of the clients, one for each at most.  A client that
\* was replaced has none, although an emit that still has it may dial again and
\* nobody closes that socket: only a client whose replacement an emit crossed
\* can have one.
OnlyCrossingEmitsLeak ==
    /\ open = {conn[c] : c \in Clients} \ {0}
    /\ \A c, d \in Clients : c # d /\ conn[c] # 0 => conn[c] # conn[d]
    /\ \A c \in replaced : conn[c] # 0 => c \in crossed

\* What reaches the daemon is what its emitter encoded, once, and in the
\* order in which the emitter had it: a pooled buffer is never filled by one
\* goroutine while another still has to write it.
DocumentsIntact ==
    \A i, j \in 1..Len(daemon) :
        (i < j /\ daemon[i][1] = daemon[j][1]) => daemon[i][2] < daemon[j][2]
=============================================================================
