---------------------------- MODULE ClientProofs ----------------------------
(***************************************************************************)
(* The sockets and the pooled buffers of any number of clients, emitted to *)
(* by any number of goroutines while they are closed and replaced.         *)
(***************************************************************************)
EXTENDS Client, SequenceTheorems, TLAPS

\* A client's socket is one that was dialed, and no other client's.
OneSocketEach ==
    /\ \A c \in Clients : conn[c] <= dialed
    /\ open = {conn[c] : c \in Clients} \ {0}
    /\ \A c, d \in Clients : c # d /\ conn[c] # 0 => conn[c] # conn[d]

\* A client that is being replaced, when Configure has closed it, or that was.
Going(c) == c \in replaced \/ (configuring # None /\ c = defaultClient)

\* An emit has the default client or one that it replaced; one that is being
\* replaced, or was, has an emit or a socket only if an emit crossed that.
CrossedOK ==
    /\ defaultClient \notin replaced /\ configuring \notin replaced \cup {defaultClient}
    /\ \A g \in Emitters : client[g] # None => client[g] \in {defaultClient} \cup replaced
    /\ \A g \in Emitters : client[g] # None /\ Going(client[g]) => client[g] \in crossed
    /\ \A c \in Clients : Going(c) /\ conn[c] # 0 => c \in crossed

\* A buffer is in one pool, or in one emitter's hands, or was never allocated.
BuffersApart ==
    /\ \A c \in Clients : pool[c] \subseteq allocated
    /\ \A c, d \in Clients : c # d => pool[c] \cap pool[d] = {}
    /\ \A g \in Emitters, c \in Clients : buf[g] \notin pool[c]
    /\ \A g \in Emitters : buf[g] # None => buf[g] \in allocated
    /\ \A g, h \in Emitters : g # h /\ buf[g] # None => buf[g] # buf[h]

\* An emitter's buffer holds the document the emitter is about.
Filled ==
    \A g \in Emitters :
        /\ client[g] # None => doc[g] > 0
        /\ buf[g] # None => client[g] # None /\ content[buf[g]] = <<g, doc[g]>>

\* What has reached the daemon is behind what its emitter is about to write.
Behind ==
    \A i \in 1..Len(daemon), g \in Emitters :
        daemon[i][1] = g => /\ daemon[i][2] <= doc[g]
                            /\ client[g] # None => daemon[i][2] < doc[g]

\* The inductive invariant.
IInv ==
    /\ TypeOK /\ OneSocketEach /\ CrossedOK
    /\ BuffersApart /\ Filled /\ Behind /\ DocumentsIntact

\* The emitters' part of the invariant, and all but what concerns replacements.
EmitOK == BuffersApart /\ Filled /\ Behind /\ DocumentsIntact
Parts == TypeOK /\ OneSocketEach /\ EmitOK

----------------------------------------------------------------------------
\* Nothing is allocated, dialed or sent at first.
LEMMA InitIInv == Init => IInv
BY ClientsAssumption, BoundsAssumption, NoneAssumption
DEF Init, IInv, TypeOK, OneSocketEach, CrossedOK, Going, BuffersApart, Filled, Behind,
    DocumentsIntact

\* Each part depends on its own variables only.
LEMMA EmitStays ==
  ASSUME EmitOK, UNCHANGED <<buffers, emitter, daemon>>
  PROVE  EmitOK'
BY DEF EmitOK, BuffersApart, Filled, Behind, DocumentsIntact, buffers, emitter

LEMMA SocketsStay ==
  ASSUME OneSocketEach, UNCHANGED network
  PROVE  OneSocketEach'
BY DEF OneSocketEach, network

\* Closing a client forgets its own socket, and no other one.
LEMMA CloseConnKeeps ==
  ASSUME TypeOK, OneSocketEach, NEW c \in Clients, CloseConn(c)
  PROVE  OneSocketEach' /\ conn' \in [Clients -> 0..MaxSockets]
                    /\ open' \subseteq 1..MaxSockets /\ dialed' = dialed
<1> USE DEF TypeOK, CloseConn
<1>1. conn' \in [Clients -> 0..MaxSockets] /\ \A d \in Clients : conn'[d] <= dialed'
  BY BoundsAssumption DEF OneSocketEach
<1>2. open' = {conn'[d] : d \in Clients} \ {0}
  <2>1. \A d \in Clients : conn'[d] = IF d = c THEN 0 ELSE conn[d]
    OBVIOUS
  <2>2. \A d \in Clients : d # c /\ conn[d] # 0 => conn[d] # conn[c]
    BY DEF OneSocketEach
  <2> QED
    BY <2>1, <2>2 DEF OneSocketEach
<1> QED
  BY <1>1, <1>2 DEF OneSocketEach

\* A socket that is dialed is new, and its client had none.
LEMMA DialKeeps ==
  ASSUME TypeOK, OneSocketEach, NEW c \in Clients, conn[c] = 0, dialed < MaxSockets,
         dialed' = dialed + 1,
         conn' = [conn EXCEPT ![c] = dialed + 1],
         open' = open \cup {dialed + 1}
  PROVE  OneSocketEach' /\ conn' \in [Clients -> 0..MaxSockets]
                    /\ open' \subseteq 1..MaxSockets /\ dialed' \in 0..MaxSockets
<1> USE BoundsAssumption DEF TypeOK
<1>1. \A d \in Clients : conn'[d] = IF d = c THEN dialed + 1 ELSE conn[d]
  OBVIOUS
<1>2. \A d \in Clients : conn[d] \in 0..MaxSockets /\ conn[d] <= dialed
  BY DEF OneSocketEach
<1>3. \A d \in Clients : conn'[d] <= dialed'
  BY <1>1, <1>2 DEF OneSocketEach
<1>4. open' = {conn'[d] : d \in Clients} \ {0}
  BY <1>1, <1>2 DEF OneSocketEach
<1>5. \A d, e \in Clients : d # e /\ conn'[d] # 0 => conn'[d] # conn'[e]
  BY <1>1, <1>2 DEF OneSocketEach
<1> QED
  BY <1>1, <1>2, <1>3, <1>4, <1>5 DEF OneSocketEach

----------------------------------------------------------------------------
\* What the daemon received, document by document.
LEMMA SentOK ==
  ASSUME TypeOK
  PROVE  \A i \in 1..Len(daemon) : daemon[i][1] \in Emitters /\ daemon[i][2] \in Nat
<1>1. \A i \in 1..Len(daemon) : daemon[i] \in Emitters \X (1..MaxDocs)
  BY ElementOfSeq DEF TypeOK
<1> QED
  BY <1>1, BoundsAssumption

\* The next document of an emitter is ahead of all that it has sent.
LEMMA BeginEmitKeeps ==
  ASSUME IInv, NEW g \in Emitters, BeginEmit(g)
  PROVE  Parts'
<1> USE DEF IInv, TypeOK, BeginEmit, buffers
<1>1. /\ client' \in [Emitters -> Clients \cup {None}]
      /\ doc' \in [Emitters -> 0..MaxDocs]
  BY BoundsAssumption
<1>2. TypeOK' /\ OneSocketEach'
  BY <1>1, SocketsStay DEF config, network
<1>3. BuffersApart' /\ DocumentsIntact'
  BY DEF BuffersApart, DocumentsIntact
<1>4. Filled'
  BY NoneAssumption, BoundsAssumption DEF Filled
<1>5. Behind'
  <2>1. \A h \in Emitters : doc'[h] = (IF h = g THEN doc[g] + 1 ELSE doc[h]) /\ doc[h] \in Nat
    BY BoundsAssumption
  <2>2. \A i \in 1..Len(daemon) : daemon[i][2] \in Nat
    BY SentOK
  <2>3. \A h \in Emitters : h # g => client'[h] = client[h]
    OBVIOUS
  <2>4. ASSUME NEW i \in 1..Len(daemon), NEW h \in Emitters, daemon[i][1] = h
        PROVE  daemon[i][2] <= doc'[h] /\ (client'[h] # None => daemon[i][2] < doc'[h])
    <3>1. daemon[i][2] <= doc[h] /\ (client[h] # None => daemon[i][2] < doc[h])
      BY <2>4 DEF Behind
    <3> QED
      BY <2>1, <2>2, <2>3, <3>1
  <2> QED
    BY <2>4 DEF Behind
<1> QED
  BY <1>2, <1>3, <1>4, <1>5 DEF Parts, EmitOK

\* A buffer that is taken was in the emitter's own pool, or in none.
LEMMA EncodeKeeps ==
  ASSUME IInv, NEW g \in Emitters, Encode(g)
  PROVE  Parts'
<1> USE NoneAssumption DEF IInv, TypeOK
<1> DEFINE c == client[g]
<1> PICK b \in pool[c] \cup (Buffers \ allocated) :
           /\ buf' = [buf EXCEPT ![g] = b]
           /\ content' = [content EXCEPT ![b] = <<g, doc[g]>>]
           /\ pool' = [pool EXCEPT ![c] = @ \ {b}]
           /\ allocated' = allocated \cup {b}
  BY DEF Encode
<1>0. c \in Clients /\ b \in Buffers /\ b # None /\ buf[g] = None
      /\ UNCHANGED <<config, network, client, doc, daemon>>
  BY DEF Encode
<1>1. doc[g] \in 1..MaxDocs
  <2>1. c # None /\ doc[g] \in 0..MaxDocs
    BY DEF Encode
  <2> QED
    BY <2>1, BoundsAssumption DEF Filled
<1>2. TypeOK' /\ OneSocketEach'
  BY <1>0, <1>1, SocketsStay DEF config, network
<1>3. \A h \in Emitters : buf[h] # b
  BY <1>0 DEF BuffersApart
<1>4. \A d \in Clients : d # c => b \notin pool[d]
  BY <1>0 DEF BuffersApart
<1>5. BuffersApart'
  <2>1. \A h \in Emitters : buf'[h] = IF h = g THEN b ELSE buf[h]
    OBVIOUS
  <2>2. \A d \in Clients : pool'[d] = IF d = c THEN pool[c] \ {b} ELSE pool[d]
    BY <1>0
  <2> QED
    BY <1>0, <1>3, <1>4, <2>1, <2>2 DEF BuffersApart
<1>6. Filled'
  BY <1>0, <1>1, <1>3 DEF Filled
<1>7. Behind' /\ DocumentsIntact'
  BY <1>0 DEF Behind, DocumentsIntact
<1> QED
  BY <1>2, <1>5, <1>6, <1>7 DEF Parts, EmitOK

\* What is written goes behind what its emitter has sent; the buffer returns to
\* the pool that it was taken from.
LEMMA PutKeeps ==
  ASSUME IInv, NEW g \in Emitters, buf[g] # None, Put(g), UNCHANGED config,
         daemon' = daemon \/ daemon' = Append(daemon, content[buf[g]])
  PROVE  /\ EmitOK'
         /\ pool' \in [Clients -> SUBSET Buffers] /\ buf' \in [Emitters -> Buffers \cup {None}]
         /\ client' \in [Emitters -> Clients \cup {None}]
         /\ daemon' \in Seq(Emitters \X (1..MaxDocs))
<1> USE NoneAssumption DEF IInv, TypeOK, Put
<1> DEFINE c == client[g]
<1>0. c \in Clients /\ content[buf[g]] = <<g, doc[g]>> /\ buf[g] \in Buffers
      /\ doc[g] \in 1..MaxDocs
  BY BoundsAssumption DEF Filled
<1>1. /\ \A h \in Emitters : buf'[h] = IF h = g THEN None ELSE buf[h]
      /\ \A h \in Emitters : client'[h] = IF h = g THEN None ELSE client[h]
      /\ \A d \in Clients : pool'[d] = IF d = c THEN pool[c] \cup {buf[g]} ELSE pool[d]
  BY <1>0
<1>2. BuffersApart'
  BY <1>0, <1>1 DEF BuffersApart
<1>3. Filled'
  BY <1>1 DEF Filled
<1>4. \A i \in 1..Len(daemon) : daemon[i][1] \in Emitters /\ daemon[i][2] \in Nat
  BY SentOK
<1>5. CASE daemon' = daemon
  <2>1. Behind' /\ DocumentsIntact'
    BY <1>1, <1>5 DEF Behind, DocumentsIntact
  <2> QED
    BY <1>0, <1>1, <1>2, <1>3, <1>5, <2>1 DEF EmitOK
<1>6. CASE daemon' = Append(daemon, <<g, doc[g]>>)
  <2>1. /\ daemon' \in Seq(Emitters \X (1..MaxDocs))
        /\ Len(daemon) \in Nat /\ Len(daemon') = Len(daemon) + 1
        /\ \A i \in 1..Len(daemon) : daemon'[i] = daemon[i]
        /\ daemon'[Len(daemon) + 1] = <<g, doc[g]>>
    BY <1>0, <1>6, AppendProperties, LenProperties
  <2>2. Behind'
    <3>1. \A i \in 1..Len(daemon) : daemon[i][1] = g => daemon[i][2] < doc[g]
      BY <1>0, NoneAssumption DEF Behind
    <3>2. ASSUME NEW i \in 1..Len(daemon), NEW h \in Emitters, daemon[i][1] = h
          PROVE  /\ daemon[i][2] <= doc[h]
                 /\ client'[h] # None => daemon[i][2] < doc[h]
      BY <1>1, <3>2 DEF Behind
    <3>3. 1..Len(daemon') = 1..Len(daemon) \cup {Len(daemon) + 1}
      BY <2>1
    <3>4. client'[g] = None /\ doc[g] <= doc[g] /\ doc' = doc
      BY <1>0, <1>1
    <3>5. <<g, doc[g]>>[1] = g /\ <<g, doc[g]>>[2] = doc[g]
      OBVIOUS
    <3> QED
      BY <2>1, <3>2, <3>3, <3>4, <3>5 DEF Behind
  <2>3. DocumentsIntact'
    <3>1. \A i \in 1..Len(daemon) : daemon[i][1] = g => daemon[i][2] < doc[g]
      BY <1>0, NoneAssumption DEF Behind
    <3>2. ASSUME NEW i \in 1..Len(daemon'), NEW j \in 1..Len(daemon'),
                 i < j, daemon'[i][1] = daemon'[j][1]
          PROVE  daemon'[i][2] < daemon'[j][2]
      <4>1. i \in 1..Len(daemon)
        BY <2>1, <3>2
      <4>2. CASE j \in 1..Len(daemon)
        BY <2>1, <3>2, <4>1, <4>2 DEF DocumentsIntact
      <4>3. CASE j = Len(daemon) + 1
        <5>1. daemon'[j] = <<g, doc[g]>> /\ daemon'[i] = daemon[i]
          BY <2>1, <4>1, <4>3
        <5>2. daemon[i][1] = g
          BY <3>2, <5>1
        <5> QED
          BY <3>1, <4>1, <5>1, <5>2
      <4> QED
        BY <2>1, <4>2, <4>3
    <3> QED
      BY <3>2 DEF DocumentsIntact
  <2> QED
    BY <1>0, <1>1, <1>2, <1>3, <2>1, <2>2, <2>3 DEF EmitOK
<1> QED
  BY <1>0, <1>5, <1>6

LEMMA PartsKept ==
  ASSUME IInv, [Next]_vars
  PROVE  Parts'
<1>0. TypeOK /\ EmitOK /\ OneSocketEach
  BY DEF IInv, EmitOK
<1>1. ASSUME TypeOK', EmitOK', OneSocketEach' PROVE Parts'
  BY <1>1 DEF Parts
<1>2. ASSUME NEW g \in Emitters, Drop(g) PROVE Parts'
  <2>1. buf[g] # None /\ Put(g) /\ UNCHANGED <<config, network, daemon>>
    BY <1>2 DEF Drop
  <2>2. OneSocketEach'
    BY <1>0, <2>1, SocketsStay
  <2>3. TypeOK' /\ EmitOK'
    BY <2>1, PutKeeps DEF IInv, TypeOK, Put, config, network
  <2> QED
    BY <1>1, <2>2, <2>3
<1>3. ASSUME NEW g \in Emitters, Write(g) PROVE Parts'
  <2>1. /\ buf[g] # None /\ Put(g) /\ UNCHANGED config
        /\ daemon' = daemon \/ daemon' = Append(daemon, content[buf[g]])
    BY <1>3 DEF Write
  <2>2. client[g] \in Clients
    BY <2>1 DEF IInv, TypeOK, Filled
  <2>3. OneSocketEach' /\ conn' \in [Clients -> 0..MaxSockets]
        /\ open' \subseteq 1..MaxSockets /\ dialed' \in 0..MaxSockets
    BY <1>0, <1>3, <2>2, SocketsStay, DialKeeps DEF Write, TypeOK, network
  <2>4. TypeOK' /\ EmitOK'
    BY <2>1, <2>3, PutKeeps DEF IInv, TypeOK, Put, config
  <2> QED
    BY <1>1, <2>3, <2>4
<1>4. ASSUME NEW c \in Clients, Close(c) PROVE Parts'
  BY <1>0, <1>1, <1>4, CloseConnKeeps, EmitStays DEF Close, TypeOK, config, buffers, emitter
<1>5. CASE BeginConfigure
  <2>1. defaultClient \in Clients /\ CloseConn(defaultClient)
        /\ UNCHANGED <<defaultClient, replaced, buffers, emitter, daemon>>
    BY <1>0, <1>5 DEF BeginConfigure, NewClient, TypeOK
  <2>2. configuring' \in Clients /\ crossed' \subseteq Clients
    BY <1>0, <1>5 DEF BeginConfigure, NewClient, TypeOK
  <2> QED
    BY <1>0, <1>1, <2>1, <2>2, CloseConnKeeps, EmitStays DEF TypeOK, buffers, emitter
<1>6. CASE EndConfigure
  BY <1>0, <1>1, <1>6, SocketsStay, EmitStays
  DEF EndConfigure, TypeOK, network, buffers, emitter
<1>7. CASE UNCHANGED vars
  BY <1>0, <1>1, <1>7, SocketsStay, EmitStays
  DEF vars, TypeOK, config, network, buffers, emitter
<1> QED
  BY <1>2, <1>3, <1>4, <1>5, <1>6, <1>7, BeginEmitKeeps, EncodeKeeps DEF Next

\* What an emit holds of a client that is being replaced: from the Close of
\* Configure on, an emit that is under way or begins has it marked.
LEMMA CrossedKept ==
  ASSUME IInv, [Next]_vars
  PROVE  CrossedOK'
<1> USE NoneAssumption DEF IInv, TypeOK, Filled
<1>1. ASSUME NEW g \in Emitters, BeginEmit(g) PROVE CrossedOK'
  <2>1. /\ UNCHANGED <<defaultClient, replaced, configuring, conn>>
        /\ \A h \in Emitters : client'[h] = IF h = g THEN defaultClient ELSE client[h]
        /\ crossed \subseteq crossed' /\ (configuring # None => defaultClient \in crossed')
    BY <1>1 DEF BeginEmit, network
  <2> QED
    BY <2>1 DEF CrossedOK, Going
<1>2. ASSUME NEW g \in Emitters, Encode(g) PROVE CrossedOK'
  BY <1>2 DEF Encode, CrossedOK, Going, config, network
<1>3. ASSUME NEW g \in Emitters, Drop(g) \/ Write(g) PROVE CrossedOK'
  <2>1. /\ UNCHANGED config /\ buf[g] # None
        /\ \A h \in Emitters : client'[h] \in {client[h], None}
    BY <1>3 DEF Drop, Write, Put
  <2>2. client[g] # None /\ client[g] \in Clients
    BY <2>1
  <2>3. \A c \in Clients : conn'[c] = conn[c] \/ c = client[g]
    BY <1>3 DEF Drop, Write, network
  <2> QED
    BY <2>1, <2>2, <2>3 DEF CrossedOK, Going, config
<1>4. ASSUME NEW c \in Clients, Close(c) PROVE CrossedOK'
  BY <1>4 DEF Close, CloseConn, CrossedOK, Going, config, emitter
<1>5. CASE BeginConfigure
  <2>1. /\ configuring = None /\ configuring' \in Clients \ ({defaultClient} \cup replaced)
        /\ UNCHANGED <<defaultClient, replaced, client>>
        /\ crossed \subseteq crossed'
        /\ \A g \in Emitters : client[g] = defaultClient => defaultClient \in crossed'
        /\ \A c \in Clients : conn'[c] = IF c = defaultClient THEN 0 ELSE conn[c]
    BY <1>5 DEF BeginConfigure, NewClient, CloseConn, emitter
  <2> QED
    BY <2>1 DEF CrossedOK, Going
<1>6. CASE EndConfigure
  <2>1. /\ configuring # None /\ configuring' = None /\ defaultClient' = configuring
        /\ replaced' = replaced \cup {defaultClient}
        /\ UNCHANGED <<crossed, conn, client>>
    BY <1>6 DEF EndConfigure, network, emitter
  <2> QED
    BY <2>1 DEF CrossedOK, Going
<1>7. CASE UNCHANGED vars
  BY <1>7 DEF CrossedOK, Going, vars, config, network, emitter
<1> QED
  BY <1>1, <1>2, <1>3, <1>4, <1>5, <1>6, <1>7 DEF Next

LEMMA IInvStep == IInv /\ [Next]_vars => IInv'
BY PartsKept, CrossedKept DEF IInv, Parts, EmitOK

----------------------------------------------------------------------------
\* The inductive invariant holds of every behaviour, however emits, Close and
\* Configure cross.
THEOREM Invariant == Spec => []IInv
BY InitIInv, IInvStep, PTL DEF Spec

\* A client is type correct.
THEOREM TypeCorrect == Spec => []TypeOK
<1>1. IInv => TypeOK
  BY DEF IInv
<1> QED
  BY <1>1, Invariant, PTL

\* No socket is open but a client's, and a client that was replaced has one only
\* if an emit crossed its replacement, with any number of clients and emits.
THEOREM SocketsKept == Spec => []OnlyCrossingEmitsLeak
<1>1. IInv => OnlyCrossingEmitsLeak
  BY DEF IInv, OneSocketEach, CrossedOK, Going, TypeOK, OnlyCrossingEmitsLeak
<1> QED
  BY <1>1, Invariant, PTL

\* No document is overwritten, repeated or overtaken by a later one of its
\* emitter, with any number of goroutines and buffers.
THEOREM NoneMixed == Spec => []DocumentsIntact
<1>1. IInv => DocumentsIntact
  BY DEF IInv
<1> QED
  BY <1>1, Invariant, PTL
=============================================================================
