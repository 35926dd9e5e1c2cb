---------------------- MODULE LocalizedStrategyProofs ----------------------
(***************************************************************************)
(* The wildcard matcher for every pattern and text; the rule that decides  *)
(* on a request and the reservoirs of the rules, for every manifest.       *)
(***************************************************************************)
EXTENDS LocalizedStrategy, SequenceTheorems, FiniteSetTheorems, TLAPS

----------------------------------------------------------------------------
\* Induction over numbers is the existence of a least one that violates a claim.

LEMMA LeastNumber ==
    ASSUME NEW A, A \subseteq Nat, A # {}
    PROVE  \E n \in A : \A m \in A : n <= m
<1>1. PICK b \in A : b \in Nat
  OBVIOUS
<1> DEFINE S == 0..b
           F == {0..n : n \in A \cap S}
           R == StrictSubsetOrdering(S)
<1>2. IsFiniteSet(S)
  BY <1>1, FS_Interval
<1>3. IsWellFoundedOn(R, SUBSET S)
  BY <1>2, FS_StrictSubsetOrderingWellFounded, FS_FiniteSubsetsOfFinite
<1>4. F \subseteq SUBSET S /\ 0..b \in F
  BY <1>1
<1>5. PICK T \in F : \A U \in F : <<U, T>> \notin R
  <2> HIDE DEF R, F
  <2> QED
    BY <1>3, <1>4, WFMin
<1>6. PICK n \in A \cap S : T = 0..n
  OBVIOUS
<1>7. ASSUME NEW m \in A, m < n PROVE FALSE
  <2>1. m \in S /\ 0..m \in F
    BY <1>1, <1>6, <1>7
  <2>2. 0..m \subseteq 0..n /\ 0..m # 0..n
    BY <1>1, <1>6, <1>7
  <2>3. 0..m \subseteq S /\ 0..n \subseteq S
    BY <1>1, <1>6, <2>1
  <2> QED
    BY <1>5, <1>6, <2>1, <2>2, <2>3 DEF StrictSubsetOrdering
<1> QED
  BY <1>6, <1>7

LEMMA SmallestIs ==
    ASSUME NEW A, A \subseteq Nat, A # {}
    PROVE  Smallest(A) \in A /\ \A m \in A : Smallest(A) <= m
BY LeastNumber DEF Smallest

----------------------------------------------------------------------------
\* The chunks of a pattern.

\* A chunk has no star, stars are before it, and the next star or the end of
\* the pattern is behind it.
LEMMA ChunkIs ==
    ASSUME NEW p, Len(p) \in Nat, NEW i \in 1..Len(p) + 1
    PROVE  /\ ChunkStart(p, i) \in i..Len(p) + 1
           /\ ChunkEnd(p, i) \in ChunkStart(p, i)..Len(p) + 1
           /\ \A k \in i..ChunkStart(p, i) - 1 : p[k] = "*"
           /\ \A k \in ChunkStart(p, i)..ChunkEnd(p, i) - 1 : p[k] # "*"
           /\ ChunkStart(p, i) <= Len(p) => p[ChunkStart(p, i)] # "*"
           /\ ChunkEnd(p, i) <= Len(p) => p[ChunkEnd(p, i)] = "*"
<1> DEFINE A == {k \in i..Len(p) : p[k] # "*"} \cup {Len(p) + 1}
           s == ChunkStart(p, i)
           B == {k \in s..Len(p) : p[k] = "*"} \cup {Len(p) + 1}
<1>1. A \subseteq Nat /\ A # {}
  OBVIOUS
<1>2. s \in A /\ \A m \in A : s <= m
  <2> HIDE DEF A
  <2>1. Smallest(A) \in A /\ \A m \in A : Smallest(A) <= m
    BY <1>1, SmallestIs
  <2> QED
    BY <2>1 DEF ChunkStart, A
<1>3. s \in i..Len(p) + 1
  BY <1>2
<1> HIDE DEF s
<1>4. B \subseteq Nat /\ B # {}
  BY <1>3
<1>5. ChunkEnd(p, i) \in B /\ \A m \in B : ChunkEnd(p, i) <= m
  <2> HIDE DEF B
  <2>1. Smallest(B) \in B /\ \A m \in B : Smallest(B) <= m
    BY <1>4, SmallestIs
  <2> QED
    BY <2>1 DEF ChunkEnd, B, s
<1>6. ChunkEnd(p, i) \in s..Len(p) + 1
  BY <1>3, <1>5
<1>7. \A k \in i..s - 1 : p[k] = "*"
  BY <1>2, <1>3
<1>8. \A k \in s..ChunkEnd(p, i) - 1 : p[k] # "*"
  BY <1>3, <1>5, <1>6
<1>9. s <= Len(p) => p[s] # "*"
  BY <1>2
<1>10. ChunkEnd(p, i) <= Len(p) => p[ChunkEnd(p, i)] = "*"
  BY <1>5
<1> QED
  BY <1>3, <1>6, <1>7, <1>8, <1>9, <1>10 DEF s

\* A chunk is empty at the end of the pattern only.
LEMMA EmptyChunk ==
    ASSUME NEW p, Len(p) \in Nat, NEW i \in 1..Len(p) + 1,
           ChunkStart(p, i) = ChunkEnd(p, i)
    PROVE  ChunkStart(p, i) = Len(p) + 1
BY ChunkIs

----------------------------------------------------------------------------
\* matchChunk as a sequence of places in the text.

\* Where sign k of the pattern leaves the text if it is at q.
Advance(p, t, k, q) ==
    IF q = NoMatch \/ q > Len(t) THEN NoMatch
    ELSE IF p[k] = "?" THEN q + Width(t, q)
    ELSE IF p[k] = t[q] THEN q + 1
    ELSE NoMatch

IsAfter(f, p, s, e, t, j) ==
    f = [k \in s..e |-> IF k = s THEN j ELSE Advance(p, t, k - 1, f[k - 1])]

After(f, p, s, e, t, j) ==
    /\ f[s] = j
    /\ \A k \in s..e - 1 : f[k + 1] = Advance(p, t, k, f[k])

LEMMA AfterAt ==
    ASSUME NEW p, NEW t, NEW s \in Nat, NEW e \in Nat, s <= e, NEW j,
           NEW f, IsAfter(f, p, s, e, t, j)
    PROVE  After(f, p, s, e, t, j)
<1>1. f[s] = j
  BY DEF IsAfter
<1>2. ASSUME NEW k \in s..e - 1 PROVE f[k + 1] = Advance(p, t, k, f[k])
  <2>1. k + 1 \in s..e /\ k + 1 # s /\ (k + 1) - 1 = k
    OBVIOUS
  <2>2. \A x \in s..e : x # s => f[x] = Advance(p, t, x - 1, f[x - 1])
    BY DEF IsAfter
  <2> QED
    BY <2>1, <2>2
<1> QED
  BY <1>1, <1>2 DEF After

LEMMA AfterExists ==
    ASSUME NEW p, NEW t, NEW s \in Nat, NEW e \in Nat, s <= e, NEW j
    PROVE  \E f : IsAfter(f, p, s, e, t, j)
<1> DEFINE A == {n \in Nat : s <= n /\ ~ \E f : IsAfter(f, p, s, n, t, j)}
<1> SUFFICES ASSUME A # {} PROVE FALSE
  OBVIOUS
<1>1. PICK n \in A : \A m \in A : n <= m
  <2>1. A \subseteq Nat
    OBVIOUS
  <2> HIDE DEF A
  <2> QED
    BY <2>1, LeastNumber
<1>2. n # s
  <2>1. IsAfter([k \in s..s |-> j], p, s, s, t, j)
    BY DEF IsAfter
  <2> QED
    BY <2>1
<1>3. n - 1 \in Nat /\ s <= n - 1 /\ n - 1 \notin A
  BY <1>1, <1>2
<1>4. PICK f : IsAfter(f, p, s, n - 1, t, j)
  BY <1>3
<1> DEFINE g == [k \in s..n |-> IF k = n THEN Advance(p, t, n - 1, f[n - 1]) ELSE f[k]]
<1>5. f[s] = j /\ \A k \in s..n - 2 : f[k + 1] = Advance(p, t, k, f[k])
  <2>1. After(f, p, s, n - 1, t, j)
    BY <1>3, <1>4, AfterAt
  <2>2. (n - 1) - 1 = n - 2
    BY <1>1
  <2> QED
    BY <2>1, <2>2 DEF After
<1>6. ASSUME NEW k \in s..n
      PROVE  g[k] = IF k = s THEN j ELSE Advance(p, t, k - 1, g[k - 1])
  <2>1. CASE k = s
    BY <1>2, <1>5, <2>1
  <2>2. CASE k = n
    <3>1. g[k - 1] = f[n - 1]
      BY <1>3, <2>2
    <3> QED
      BY <1>2, <2>2, <3>1
  <2>3. CASE k # s /\ k # n
    <3>1. k - 1 \in s..n - 2 /\ (k - 1) + 1 = k /\ k - 1 \in s..n /\ k - 1 # n
      BY <2>3
    <3>2. g[k] = f[k] /\ g[k - 1] = f[k - 1]
      BY <2>3, <3>1
    <3>3. f[k] = Advance(p, t, k - 1, f[k - 1])
      BY <1>5, <3>1
    <3> QED
      BY <2>3, <3>2, <3>3
  <2> QED
    BY <2>1, <2>2, <2>3
<1>7. g = [k \in s..n |-> IF k = s THEN j ELSE Advance(p, t, k - 1, g[k - 1])]
  BY <1>6
<1>8. IsAfter(g, p, s, n, t, j)
  BY <1>7 DEF IsAfter
<1> QED
  BY <1>1, <1>8

HasPlaces(p, s, e, t, j) ==
    \E f : IsAfter(f, p, s, e, t, j) /\ MatchChunk(p, s, e, t, j) = f[e]

LEMMA MatchChunkIs ==
    ASSUME NEW p, NEW t, NEW s \in Nat, NEW e \in Nat, s <= e, NEW j
    PROVE  HasPlaces(p, s, e, t, j)
<1>1. MatchChunk(p, s, e, t, j) = (CHOOSE f : IsAfter(f, p, s, e, t, j))[e]
  BY DEF MatchChunk, IsAfter, Advance
<1> QED
  BY <1>1, AfterExists DEF HasPlaces

----------------------------------------------------------------------------
\* A sign moves forwards in the text, and to its end at most.
LEMMA AdvanceType ==
    ASSUME NEW p, NEW t, Len(t) \in Nat, NEW k, NEW q \in 0..Len(t) + 1
    PROVE  /\ Advance(p, t, k, q) \in 0..Len(t) + 1
           /\ Advance(p, t, k, q) # NoMatch =>
                 /\ q # NoMatch /\ q <= Len(t) /\ q < Advance(p, t, k, q)
<1>1. q # NoMatch /\ q <= Len(t) => q + Width(t, q) \in q + 1..Len(t) + 1
  BY DEF Width, WideAt, NoMatch
<1> QED
  BY <1>1 DEF Advance, NoMatch

LEMMA AfterType ==
    ASSUME NEW p, NEW t, Len(t) \in Nat, NEW s \in Nat, NEW e \in Nat, s <= e,
           NEW j \in 1..Len(t) + 1, NEW f, IsAfter(f, p, s, e, t, j)
    PROVE  \A k \in s..e : f[k] \in 0..Len(t) + 1
<1> DEFINE A == {k \in s..e : f[k] \notin 0..Len(t) + 1}
<1> SUFFICES ASSUME A # {} PROVE FALSE
  OBVIOUS
<1>1. PICK n \in A : \A m \in A : n <= m
  <2>1. A \subseteq Nat
    OBVIOUS
  <2> HIDE DEF A
  <2> QED
    BY <2>1, LeastNumber
<1>2. f[s] = j /\ \A k \in s..e - 1 : f[k + 1] = Advance(p, t, k, f[k])
  <2>1. After(f, p, s, e, t, j)
    BY AfterAt
  <2> QED
    BY <2>1 DEF After
<1>3. n # s
  BY <1>2
<1>4. n - 1 \in s..e - 1 /\ (n - 1) + 1 = n /\ f[n - 1] \in 0..Len(t) + 1
  <2>1. n - 1 \in s..e - 1 /\ n - 1 \in s..e /\ (n - 1) + 1 = n
    BY <1>1, <1>3
  <2>2. n - 1 \notin A
    BY <1>1, <2>1
  <2> QED
    BY <2>1, <2>2
<1>5. f[n] = Advance(p, t, n - 1, f[n - 1])
  BY <1>2, <1>4
<1> QED
  BY <1>4, <1>5, AdvanceType

\* Each sign of a chunk that matches matches.
LEMMA AfterMatches ==
    ASSUME NEW p, NEW t, NEW s \in Nat, NEW e \in Nat, s <= e, NEW j,
           NEW f, IsAfter(f, p, s, e, t, j), f[e] # NoMatch
    PROVE  \A k \in s..e : f[k] # NoMatch
<1> DEFINE A == {x \in 0..e - s : f[e - x] = NoMatch}
<1>1. \A k \in s..e : k = e - (e - k) /\ e - k \in 0..e - s
  OBVIOUS
<1> SUFFICES ASSUME A # {} PROVE FALSE
  BY <1>1
<1>2. PICK n \in A : \A m \in A : n <= m
  <2>1. A \subseteq Nat
    OBVIOUS
  <2> HIDE DEF A
  <2> QED
    BY <2>1, LeastNumber
<1>3. n # 0
  BY <1>2
<1>4. n - 1 \in 0..e - s /\ n - 1 \notin A
  BY <1>2, <1>3
<1>5. e - n \in s..e - 1 /\ (e - n) + 1 = e - (n - 1)
  BY <1>2, <1>3
<1>6. f[(e - n) + 1] = Advance(p, t, e - n, f[e - n])
  <2>1. After(f, p, s, e, t, j)
    BY AfterAt
  <2> QED
    BY <1>5, <2>1 DEF After
<1>7. f[e - (n - 1)] = NoMatch
  BY <1>2, <1>5, <1>6 DEF Advance
<1> QED
  BY <1>4, <1>7

----------------------------------------------------------------------------
\* What the matcher finds if a text can be cut.

\* The cuts of the pieces that the signs of p from lo on match.
Cuts(cut, p, t, lo) ==
    /\ cut \in [lo..Len(p) + 1 -> 1..Len(t) + 1]
    /\ cut[Len(p) + 1] = Len(t) + 1
    /\ \A k \in lo..Len(p) : Fits(p[k], t, cut[k], cut[k + 1])

\* The character after a is where DecodeRuneInString finds it.
LEMMA OneCharIs ==
    ASSUME NEW t, Len(t) \in Nat, NEW a \in 1..Len(t) + 1, NEW b \in 1..Len(t) + 1,
           OneChar(t, a, b)
    PROVE  a <= Len(t) /\ b = a + Width(t, a) /\ a \in CutPoints(t)
<1> DEFINE c == a + Width(t, a)
<1>1. /\ b \in CutPoints(t) /\ a \in CutPoints(t) /\ a < b /\ a <= Len(t)
      /\ \A j \in CutPoints(t) : a <= j /\ j < b => j = a
  BY DEF OneChar
<1>2. c \in CutPoints(t)
  <2>1. CASE WideAt(t, a)
    <3>1. c = a + 3 /\ c \in 1..Len(t) + 1
      BY <2>1 DEF Width, WideAt
    <3>2. ASSUME NEW k \in 1..Len(t), WideAt(t, k) PROVE c \notin {k + 1, k + 2}
      <4>1. t[k] = "e3"
        <5>1. t[k + 1 - 1] = WideChar[1] /\ k + 1 - 1 = k
          BY <3>2 DEF WideAt
        <5> QED
          BY <5>1 DEF WideChar
      <4>2. t[a + 1] = "81" /\ t[a + 2] = "82"
        <5>1. t[a + 2 - 1] = WideChar[2] /\ t[a + 3 - 1] = WideChar[3]
          BY <2>1 DEF WideAt
        <5>2. a + 2 - 1 = a + 1 /\ a + 3 - 1 = a + 2
          OBVIOUS
        <5> QED
          BY <5>1, <5>2 DEF WideChar
      <4>3. k # a + 1 /\ k # a + 2
        BY <4>1, <4>2
      <4> QED
        BY <3>1, <4>3
    <3> QED
      BY <3>1, <3>2 DEF CutPoints
  <2>2. CASE ~WideAt(t, a)
    <3>1. c = a + 1 /\ c \in 1..Len(t) + 1
      BY <1>1, <2>2 DEF Width
    <3>2. ASSUME NEW k \in 1..Len(t), WideAt(t, k) PROVE c \notin {k + 1, k + 2}
      <4>1. a \notin {k + 1, k + 2}
        BY <1>1, <3>2 DEF CutPoints
      <4>2. k # a
        BY <2>2, <3>2
      <4> QED
        BY <3>1, <4>1, <4>2
    <3> QED
      BY <3>1, <3>2 DEF CutPoints
  <2> QED
    BY <2>1, <2>2
<1>3. c <= b
  <2>1. CASE WideAt(t, a)
    <3>1. b \notin {a + 1, a + 2}
      BY <1>1, <2>1 DEF CutPoints
    <3> QED
      BY <1>1, <2>1, <3>1 DEF Width
  <2>2. CASE ~WideAt(t, a)
    BY <1>1, <2>2 DEF Width
  <2> QED
    BY <2>1, <2>2
<1>4. ~(c < b)
  <2>1. a <= c /\ c # a /\ c \in 1..Len(t) + 1
    BY <1>2 DEF Width, CutPoints
  <2> HIDE DEF c
  <2> QED
    BY <1>1, <1>2, <2>1
<1>5. c \in Nat /\ b \in Nat
  BY DEF Width
<1> HIDE DEF c
<1> QED
  BY <1>1, <1>3, <1>4, <1>5 DEF c

\* A sign other than a star goes over the piece that it matches,
LEMMA FitsAdvance ==
    ASSUME NEW p, NEW t, Len(t) \in Nat, NEW k, p[k] # "*",
           NEW a \in 1..Len(t) + 1, NEW b \in 1..Len(t) + 1, Fits(p[k], t, a, b)
    PROVE  Advance(p, t, k, a) = b /\ a < b
<1>1. CASE p[k] = "?"
  <2>1. OneChar(t, a, b)
    BY <1>1 DEF Fits
  <2>2. a <= Len(t) /\ b = a + Width(t, a)
    BY <2>1, OneCharIs
  <2> QED
    BY <1>1, <2>2 DEF Advance, NoMatch, Width
<1>2. CASE p[k] # "?"
  <2>1. a <= Len(t) /\ b = a + 1 /\ t[a] = p[k]
    BY <1>2 DEF Fits
  <2> QED
    BY <1>2, <2>1 DEF Advance, NoMatch
<1> QED
  BY <1>1, <1>2

\* and from a place before it no further, if it matches there at all: where the
\* piece starts, no character is cut.
LEMMA AdvanceBehind ==
    ASSUME NEW p, NEW t, Len(t) \in Nat, NEW k, p[k] # "*",
           NEW a \in 1..Len(t) + 1, NEW b \in 1..Len(t) + 1, Fits(p[k], t, a, b),
           NEW q \in 0..Len(t) + 1, q <= a
    PROVE  Advance(p, t, k, q) <= b
<1>1. Advance(p, t, k, a) = b /\ a < b
  BY FitsAdvance
<1>2. CASE q = a
  BY <1>1, <1>2
<1>3. CASE Advance(p, t, k, q) = NoMatch
  BY <1>3 DEF NoMatch
<1>4. CASE q < a /\ Advance(p, t, k, q) # NoMatch
  <2>1. q \in 1..Len(t)
    BY <1>4 DEF Advance, NoMatch
  <2>2. CASE p[k] = "?"
    <3>1. a \in CutPoints(t)
      <4>1. OneChar(t, a, b)
        BY <2>2 DEF Fits
      <4> QED
        BY <4>1, OneCharIs
    <3>2. WideAt(t, q) => a \notin {q + 1, q + 2}
      BY <2>1, <3>1 DEF CutPoints
    <3>3. q + Width(t, q) <= a
      BY <1>4, <2>1, <3>2 DEF Width
    <3>4. Advance(p, t, k, q) = q + Width(t, q)
      BY <2>1, <2>2 DEF Advance, NoMatch
    <3> QED
      BY <1>1, <2>1, <3>3, <3>4 DEF Width
  <2>3. CASE p[k] # "?"
    <3>1. Advance(p, t, k, q) = q + 1
      BY <1>4, <2>1, <2>3 DEF Advance
    <3> QED
      BY <1>1, <1>4, <3>1
  <2> QED
    BY <2>2, <2>3
<1> QED
  BY <1>2, <1>3, <1>4

\* A chunk that starts where its pieces start goes over them, and one that starts
\* before that ends no later.
LEMMA ChunkBehind ==
    ASSUME NEW p, Len(p) \in Nat, NEW t, Len(t) \in Nat, NEW lo \in Nat,
           NEW cut, Cuts(cut, p, t, lo),
           NEW s \in lo..Len(p) + 1, NEW e \in s..Len(p) + 1, \A k \in s..e - 1 : p[k] # "*",
           NEW j \in 1..Len(t) + 1, j <= cut[s]
    PROVE  /\ MatchChunk(p, s, e, t, j) \in 0..cut[e]
           /\ j = cut[s] => MatchChunk(p, s, e, t, j) = cut[e]
<1>0. s \in Nat /\ e \in Nat /\ s <= e
  OBVIOUS
<1>1. PICK f : IsAfter(f, p, s, e, t, j) /\ MatchChunk(p, s, e, t, j) = f[e]
  BY <1>0, MatchChunkIs DEF HasPlaces
<1>2. f[s] = j /\ \A k \in s..e - 1 : f[k + 1] = Advance(p, t, k, f[k])
  <2>1. After(f, p, s, e, t, j)
    BY <1>0, <1>1, AfterAt
  <2> QED
    BY <2>1 DEF After
<1>3. \A k \in s..e : f[k] \in 0..Len(t) + 1
  BY <1>0, <1>1, AfterType
<1> DEFINE A == {k \in s..e : ~(f[k] <= cut[k] /\ (j = cut[s] => f[k] = cut[k]))}
<1>4. A = {}
  <2> SUFFICES ASSUME A # {} PROVE FALSE
    OBVIOUS
  <2>1. PICK n \in A : \A m \in A : n <= m
    <3>1. A \subseteq Nat
      OBVIOUS
    <3> HIDE DEF A
    <3> QED
      BY <3>1, LeastNumber
  <2>2. n # s /\ n \in s..e
    BY <1>2
  <2>3. PICK k \in s..e - 1 : n = k + 1
    <3>1. n - 1 \in s..e - 1 /\ n = (n - 1) + 1
      BY <2>2
    <3> QED
      BY <3>1
  <2>4. k \in s..e /\ k \notin A
    BY <2>1, <2>3
  <2>5. f[k] <= cut[k] /\ (j = cut[s] => f[k] = cut[k])
    BY <2>4
  <2>6. k \in lo..Len(p) /\ k + 1 \in lo..Len(p) + 1
    OBVIOUS
  <2>7. /\ cut[k] \in 1..Len(t) + 1 /\ cut[k + 1] \in 1..Len(t) + 1
        /\ Fits(p[k], t, cut[k], cut[k + 1]) /\ p[k] # "*"
    <3>1. p[k] # "*"
      OBVIOUS
    <3>2. Fits(p[k], t, cut[k], cut[k + 1])
      BY <2>6 DEF Cuts
    <3>3. cut[k] \in 1..Len(t) + 1 /\ cut[k + 1] \in 1..Len(t) + 1
      <4>1. cut \in [lo..Len(p) + 1 -> 1..Len(t) + 1] /\ k \in lo..Len(p) + 1
        BY <2>6 DEF Cuts
      <4> QED
        BY <2>6, <4>1
    <3> QED
      BY <3>1, <3>2, <3>3
  <2>8. Advance(p, t, k, cut[k]) = cut[k + 1]
    BY <2>7, FitsAdvance
  <2>9. f[k] \in 0..Len(t) + 1
    BY <1>3, <2>4
  <2>10. Advance(p, t, k, f[k]) <= cut[k + 1]
    BY <2>5, <2>7, <2>9, AdvanceBehind
  <2>11. f[n] = Advance(p, t, k, f[k])
    BY <1>2, <2>3
  <2> QED
    BY <2>1, <2>3, <2>5, <2>8, <2>10, <2>11
<1>5. e \in s..e /\ e \notin A
  BY <1>4
<1>6. f[e] <= cut[e] /\ (j = cut[s] => f[e] = cut[e])
  BY <1>5
<1>7. f[e] \in 0..Len(t) + 1
  BY <1>3, <1>5
<1>8. cut[e] \in 1..Len(t) + 1
  BY DEF Cuts
<1> QED
  BY <1>1, <1>6, <1>7, <1>8

\* Stars go forwards.
LEMMA StarsForward ==
    ASSUME NEW p, Len(p) \in Nat, NEW t, Len(t) \in Nat, NEW lo \in Nat,
           NEW cut, Cuts(cut, p, t, lo),
           NEW i \in lo..Len(p) + 1, NEW s \in i..Len(p) + 1, \A k \in i..s - 1 : p[k] = "*"
    PROVE  cut[i] <= cut[s]
<1>0. \A k \in lo..Len(p) + 1 : cut[k] \in 1..Len(t) + 1
  BY DEF Cuts
<1> DEFINE A == {k \in i..s : ~(cut[i] <= cut[k])}
<1> SUFFICES ASSUME A # {} PROVE FALSE
  OBVIOUS
<1>1. PICK n \in A : \A m \in A : n <= m
  <2>1. A \subseteq Nat
    OBVIOUS
  <2> HIDE DEF A
  <2> QED
    BY <2>1, LeastNumber
<1>2. n # i
  BY <1>0, <1>1
<1>3. n - 1 \in i..s - 1 /\ n - 1 \in lo..Len(p) /\ (n - 1) + 1 = n
  BY <1>1, <1>2
<1>4. cut[i] <= cut[n - 1]
  <2>1. n - 1 \notin A /\ n - 1 \in i..s
    BY <1>1, <1>3
  <2> QED
    BY <2>1
<1>5. Fits("*", t, cut[n - 1], cut[n])
  BY <1>3 DEF Cuts
<1>6. cut[n - 1] <= cut[n]
  BY <1>5 DEF Fits
<1> QED
  BY <1>0, <1>1, <1>3, <1>4, <1>6

----------------------------------------------------------------------------
\* The loop.

\* Where the chunk at i is looked for in the text from j on, and what is found.
LEMMA StartsAre ==
    ASSUME NEW p, Len(p) \in Nat, NEW t, Len(t) \in Nat,
           NEW i \in 1..Len(p) + 1, NEW j \in 1..Len(t) + 1, Starts(p, i, t, j) # {}
    PROVE  LET q == Smallest(Starts(p, i, t, j)) IN
           /\ q \in Starts(p, i, t, j) /\ q \in j..Len(t) + 1
           /\ \A x \in Starts(p, i, t, j) : q <= x
           /\ Rest(p, i, t, j) = MatchChunk(p, ChunkStart(p, i), ChunkEnd(p, i), t, q)
           /\ Rest(p, i, t, j) \in 1..Len(t) + 1
           /\ Rest(p, i, t, j) > Len(t) \/ ChunkEnd(p, i) <= Len(p)
<1> DEFINE A == Starts(p, i, t, j)
           q == Smallest(A)
           s == ChunkStart(p, i)
           e == ChunkEnd(p, i)
<1>1. A \subseteq j..Len(t) + 1
  BY DEF Starts
<1>2. q \in A /\ \A x \in A : q <= x
  <2>1. A \subseteq Nat /\ A # {}
    BY <1>1
  <2> HIDE DEF A
  <2> QED
    BY <2>1, SmallestIs
<1>3. ChunkFits(p, s, e, t, q)
  BY <1>2 DEF Starts
<1>4. s \in Nat /\ e \in Nat /\ s <= e
  <2>1. s \in i..Len(p) + 1 /\ e \in s..Len(p) + 1
    BY ChunkIs
  <2> HIDE DEF s, e
  <2> QED
    BY <2>1
<1>5. q \in j..Len(t) + 1 /\ q \in 1..Len(t) + 1
  BY <1>1, <1>2
<1>6. MatchChunk(p, s, e, t, q) \in 0..Len(t) + 1
  <2> HIDE DEF q, s, e
  <2>1. PICK f : IsAfter(f, p, s, e, t, q) /\ MatchChunk(p, s, e, t, q) = f[e]
    BY <1>4, MatchChunkIs DEF HasPlaces
  <2>2. \A k \in s..e : f[k] \in 0..Len(t) + 1
    BY <1>4, <1>5, <2>1, AfterType
  <2> QED
    BY <1>4, <2>1, <2>2
<1>7. Rest(p, i, t, j) = MatchChunk(p, s, e, t, q)
  BY DEF Rest
<1>8. /\ MatchChunk(p, s, e, t, q) # NoMatch
      /\ MatchChunk(p, s, e, t, q) > Len(t) \/ e <= Len(p)
  BY <1>3 DEF ChunkFits
<1>9. MatchChunk(p, s, e, t, q) \in 1..Len(t) + 1
  BY <1>6, <1>8 DEF NoMatch
<1> QED
  BY <1>2, <1>5, <1>7, <1>8, <1>9

\* One round of the loop, with the rounds after it given by f.
Round(f, p, t, i, j) ==
    \/ i > Len(p) /\ j > Len(t)
    \/ ChunkStart(p, i) > i /\ ChunkStart(p, i) = ChunkEnd(p, i)
    \/ /\ ChunkStart(p, i) < ChunkEnd(p, i) /\ Starts(p, i, t, j) # {}
       /\ f[ChunkEnd(p, i)][Rest(p, i, t, j)]

IsLoop(f, p, t, lo) ==
    f = [i \in lo..Len(p) + 1 |-> [j \in 1..Len(t) + 1 |-> Round(f, p, t, i, j)]]

\* A round depends on the rounds after it only.
LEMMA RoundSame ==
    ASSUME NEW p, Len(p) \in Nat, NEW t, Len(t) \in Nat,
           NEW i \in 1..Len(p) + 1, NEW j \in 1..Len(t) + 1,
           NEW f, NEW g, \A k \in i + 1..Len(p) + 1 : f[k] = g[k]
    PROVE  Round(f, p, t, i, j) = Round(g, p, t, i, j)
<1>1. ChunkStart(p, i) < ChunkEnd(p, i) => ChunkEnd(p, i) \in i + 1..Len(p) + 1
  BY ChunkIs
<1>2. CASE ChunkStart(p, i) < ChunkEnd(p, i)
  <2>1. f[ChunkEnd(p, i)] = g[ChunkEnd(p, i)]
    BY <1>1, <1>2
  <2> QED
    BY <2>1 DEF Round
<1>3. CASE ~(ChunkStart(p, i) < ChunkEnd(p, i))
  BY <1>3 DEF Round
<1> QED
  BY <1>2, <1>3

LEMMA LoopExists ==
    ASSUME NEW p, Len(p) \in Nat, NEW t, Len(t) \in Nat
    PROVE  \E f : IsLoop(f, p, t, 1)
<1> DEFINE m == Len(p) + 1
           A == {x \in 0..m : ~ \E f : IsLoop(f, p, t, m + 1 - x)}
<1> SUFFICES ASSUME A # {} PROVE FALSE
  <2>1. m \in 0..m /\ m + 1 - m = 1
    OBVIOUS
  <2> QED
    BY <2>1
<1>1. PICK x \in A : \A y \in A : x <= y
  <2>1. A \subseteq Nat
    OBVIOUS
  <2> HIDE DEF A
  <2> QED
    BY <2>1, LeastNumber
<1>2. x # 0
  <2>1. IsLoop([i \in m + 1..m |-> {}], p, t, m + 1)
    BY DEF IsLoop
  <2> QED
    BY <1>1, <2>1
<1> DEFINE lo == m + 1 - x
<1>3. x - 1 \in 0..m /\ x - 1 \notin A /\ m + 1 - (x - 1) = lo + 1 /\ lo \in 1..m
  BY <1>1, <1>2
<1>4. PICK f : IsLoop(f, p, t, lo + 1)
  BY <1>3
<1> DEFINE row == [j \in 1..Len(t) + 1 |-> Round(f, p, t, lo, j)]
           g == [i \in lo..m |-> IF i = lo THEN row ELSE f[i]]
<1> HIDE DEF lo, m
<1>5. \A k \in lo + 1..m : f[k] = g[k]
  BY <1>3 DEF m
<1>6. ASSUME NEW i \in lo..m, NEW j \in 1..Len(t) + 1
      PROVE  Round(f, p, t, i, j) = Round(g, p, t, i, j)
  <2>1. i \in 1..Len(p) + 1 /\ \A k \in i + 1..Len(p) + 1 : f[k] = g[k]
    BY <1>3, <1>5 DEF m
  <2> HIDE DEF g
  <2> QED
    BY <2>1, RoundSame
<1>7. ASSUME NEW i \in lo..m PROVE g[i] = [j \in 1..Len(t) + 1 |-> Round(f, p, t, i, j)]
  <2>1. CASE i = lo
    BY <2>1
  <2>2. CASE i # lo
    <3>1. i \in lo + 1..Len(p) + 1 /\ g[i] = f[i]
      BY <1>3, <2>2 DEF m
    <3> QED
      BY <1>4, <3>1 DEF IsLoop
  <2> QED
    BY <2>1, <2>2
<1>8. ASSUME NEW i \in lo..m PROVE g[i] = [j \in 1..Len(t) + 1 |-> Round(g, p, t, i, j)]
  BY <1>6, <1>7
<1>9. IsLoop(g, p, t, lo)
  <2>1. g = [i \in lo..m |-> g[i]]
    OBVIOUS
  <2> HIDE DEF g
  <2> QED
    BY <1>8, <2>1 DEF IsLoop, m
<1> QED
  BY <1>1, <1>9 DEF lo

\* The matcher is this loop.
LEMMA MatchIs ==
    ASSUME NEW pattern, NEW text,
           Len(Lower(pattern)) \in Nat, Len(Lower(text)) \in Nat
    PROVE  \E f : /\ IsLoop(f, Lower(pattern), Lower(text), 1)
                  /\ WildcardMatch(pattern, text) = f[1][1]
<1> DEFINE p == Lower(pattern)
           t == Lower(text)
<1>1. WildcardMatch(pattern, text) = (CHOOSE f : IsLoop(f, p, t, 1))[1][1]
  BY DEF WildcardMatch, IsLoop, Round
<1>2. \E f : IsLoop(f, p, t, 1)
  BY LoopExists
<1> QED
  BY <1>1, <1>2

LEMMA LoopAt ==
    ASSUME NEW p, NEW t, NEW f, IsLoop(f, p, t, 1),
           NEW i \in 1..Len(p) + 1, NEW j \in 1..Len(t) + 1
    PROVE  f[i][j] = Round(f, p, t, i, j)
<1>1. f[i] = [x \in 1..Len(t) + 1 |-> Round(f, p, t, i, x)]
  BY DEF IsLoop
<1> QED
  BY <1>1

\* Is the loop, at i and j, behind nothing that it may have to go back to?
Ready(cut, p, t, i, j) ==
    /\ i <= Len(p) => p[i] = "*" \/ (i = 1 /\ j = cut[1])
    /\ i = Len(p) + 1 => j = Len(t) + 1

\* The loop finds a way to the end from any place that is not behind the cuts.
LEMMA Greedy ==
    ASSUME NEW p, Len(p) \in Nat, NEW t, Len(t) \in Nat,
           NEW f, IsLoop(f, p, t, 1), NEW cut, Cuts(cut, p, t, 1)
    PROVE  \A i \in 1..Len(p) + 1 : \A j \in 1..cut[i] : Ready(cut, p, t, i, j) => f[i][j]
<1> DEFINE A == {x \in 0..Len(p) : \E j \in 1..cut[Len(p) + 1 - x] :
                    Ready(cut, p, t, Len(p) + 1 - x, j) /\ ~f[Len(p) + 1 - x][j]}
<1>1. \A i \in 1..Len(p) + 1 : Len(p) + 1 - i \in 0..Len(p) /\ Len(p) + 1 - (Len(p) + 1 - i) = i
  OBVIOUS
<1> SUFFICES ASSUME A # {} PROVE FALSE
  <2> SUFFICES ASSUME NEW i \in 1..Len(p) + 1, NEW j \in 1..cut[i],
                      Ready(cut, p, t, i, j), ~f[i][j]
               PROVE  A # {}
    OBVIOUS
  <2>1. Len(p) + 1 - i \in A
    BY <1>1
  <2> QED
    BY <2>1
<1>2. PICK x \in A : \A y \in A : x <= y
  <2>1. A \subseteq Nat
    OBVIOUS
  <2> HIDE DEF A
  <2> QED
    BY <2>1, LeastNumber
<1> DEFINE i == Len(p) + 1 - x
<1>3. i \in 1..Len(p) + 1
  BY <1>2
<1>4. PICK j \in 1..cut[i] : Ready(cut, p, t, i, j) /\ ~f[i][j]
  BY <1>2
<1>5. ASSUME NEW k \in i + 1..Len(p) + 1, NEW r \in 1..cut[k], Ready(cut, p, t, k, r)
      PROVE  f[k][r]
  <2>1. Len(p) + 1 - k \in 0..Len(p) /\ Len(p) + 1 - (Len(p) + 1 - k) = k
    BY <1>1, <1>3
  <2>2. Len(p) + 1 - k < x
    BY <1>2
  <2>3. Len(p) + 1 - k \notin A
    <3>1. x \in Nat
      BY <1>2
    <3> HIDE DEF A
    <3> QED
      BY <1>2, <2>1, <2>2, <3>1
  <2> QED
    BY <1>5, <2>1, <2>3
<1> HIDE DEF i, A
<1>6. \A k \in 1..Len(p) + 1 : cut[k] \in 1..Len(t) + 1
  BY DEF Cuts
<1>7. j \in 1..Len(t) + 1
  BY <1>3, <1>6
<1> DEFINE s == ChunkStart(p, i)
           e == ChunkEnd(p, i)
<1>8. /\ s \in i..Len(p) + 1 /\ e \in s..Len(p) + 1
      /\ \A k \in i..s - 1 : p[k] = "*"
      /\ \A k \in s..e - 1 : p[k] # "*"
      /\ s <= Len(p) => p[s] # "*"
      /\ e <= Len(p) => p[e] = "*"
  BY <1>3, ChunkIs
<1>9. ~Round(f, p, t, i, j)
  BY <1>3, <1>4, <1>7, LoopAt
<1>10. s < e /\ i <= Len(p)
  <2>1. i = Len(p) + 1 => j = Len(t) + 1
    BY <1>4 DEF Ready
  <2>2. i <= Len(p)
    BY <1>3, <1>9, <2>1 DEF Round
  <2>3. s = e => s = Len(p) + 1
    BY <1>3, EmptyChunk
  <2>4. ~(s > i /\ s = e)
    BY <1>9 DEF Round
  <2> HIDE DEF s, e
  <2> QED
    BY <1>3, <1>8, <2>2, <2>3, <2>4
<1> DEFINE c == IF s > i THEN cut[s] ELSE j
<1>11. c = cut[s] /\ j <= c
  <2>1. CASE s > i
    <3>1. cut[i] <= cut[s]
      BY <1>3, <1>8, StarsForward
    <3>2. cut[i] \in Nat /\ cut[s] \in Nat /\ j \in Nat /\ j <= cut[i]
      BY <1>3, <1>6, <1>8
    <3> QED
      BY <2>1, <3>1, <3>2
  <2>2. CASE ~(s > i)
    <3>1. s = i
      BY <1>3, <1>8, <2>2
    <3>2. p[i] # "*"
      BY <1>8, <1>10, <3>1
    <3>3. i = 1 /\ j = cut[1]
      BY <1>4, <1>10, <3>2 DEF Ready
    <3> QED
      BY <1>7, <2>2, <3>1, <3>3
  <2> QED
    BY <2>1, <2>2
<1>12. c \in Starts(p, i, t, j)
  <2>1. c \in j..Len(t) + 1 /\ (c = j \/ s > i)
    <3>1. s \in 1..Len(p) + 1 /\ cut[s] \in 1..Len(t) + 1
      BY <1>3, <1>6, <1>8
    <3>2. ~(s > i) => c = j
      OBVIOUS
    <3> HIDE DEF s, e, c
    <3> QED
      BY <1>3, <1>7, <1>11, <3>1, <3>2
  <2>2. MatchChunk(p, s, e, t, c) = cut[e]
    <3>1. cut[s] \in 1..Len(t) + 1 /\ s \in 1..Len(p) + 1
      BY <1>3, <1>6, <1>8
    <3> HIDE DEF s, e, c
    <3> QED
      BY <1>8, <1>11, <3>1, ChunkBehind
  <2>3. cut[e] \in 1..Len(t) + 1 /\ (e = Len(p) + 1 => cut[e] = Len(t) + 1)
    BY <1>3, <1>6, <1>8 DEF Cuts
  <2>4. ChunkFits(p, s, e, t, c)
    <3>1. e <= Len(p) \/ e = Len(p) + 1
      BY <1>3, <1>8
    <3> HIDE DEF s, e, c
    <3> QED
      BY <2>2, <2>3, <3>1 DEF ChunkFits, NoMatch
  <2> HIDE DEF c
  <2> QED
    BY <2>1, <2>4 DEF Starts
<1> DEFINE q == Smallest(Starts(p, i, t, j))
           r == Rest(p, i, t, j)
<1>13. /\ q \in j..Len(t) + 1 /\ q <= c
       /\ r = MatchChunk(p, s, e, t, q)
       /\ r \in 1..Len(t) + 1
       /\ r > Len(t) \/ e <= Len(p)
  <2> HIDE DEF c
  <2> QED
    BY <1>3, <1>7, <1>12, StartsAre
<1> HIDE DEF s, e, c, q, r
<1>14. r <= cut[e]
  <2>1. s \in 1..Len(p) + 1 /\ q \in 1..Len(t) + 1 /\ q <= cut[s]
    BY <1>3, <1>7, <1>8, <1>11, <1>13
  <2>2. MatchChunk(p, s, e, t, q) \in 0..cut[e]
    BY <1>8, <2>1, ChunkBehind
  <2> QED
    BY <1>13, <2>2
<1>15. e \in i + 1..Len(p) + 1 /\ r \in 1..cut[e]
  <2>1. e \in i + 1..Len(p) + 1
    BY <1>3, <1>8, <1>10
  <2> QED
    BY <1>3, <1>6, <1>13, <1>14, <2>1
<1>16. Ready(cut, p, t, e, r)
  BY <1>8, <1>13, <1>15 DEF Ready
<1>17. f[e][r]
  BY <1>5, <1>15, <1>16
<1> QED
  BY <1>9, <1>10, <1>12, <1>17 DEF Round, s, e, r

LEMMA LowerLen ==
    ASSUME NEW s, Len(s) \in Nat
    PROVE  Len(Lower(s)) = Len(s)
BY DEF Lower

\* The greedy matcher misses no match: it never has to go back behind a star.
THEOREM NoneMissed ==
    ASSUME NEW pattern, Len(pattern) \in Nat, NEW text, Len(text) \in Nat,
           Glob(pattern, text)
    PROVE  WildcardMatch(pattern, text)
<1> DEFINE p == Lower(pattern)
           t == Lower(text)
<1>1. Len(p) \in Nat /\ Len(t) \in Nat
  BY LowerLen
<1>2. PICK cut : Cuts(cut, p, t, 1) /\ cut[1] = 1
  BY DEF Glob, Cuts
<1>3. PICK f : IsLoop(f, p, t, 1) /\ WildcardMatch(pattern, text) = f[1][1]
  BY <1>1, MatchIs
<1> HIDE DEF p, t
<1>4. Ready(cut, p, t, 1, 1)
  BY <1>1, <1>2 DEF Ready, Cuts
<1>5. 1 \in 1..Len(p) + 1 /\ 1 \in 1..cut[1]
  BY <1>1, <1>2
<1>6. f[1][1]
  BY <1>1, <1>2, <1>3, <1>4, <1>5, Greedy
<1> QED
  BY <1>3, <1>6

----------------------------------------------------------------------------
\* Where characters have one byte each, what the matcher finds is a cut.

LEMMA AdvanceFits ==
    ASSUME NEW p, NEW t, Len(t) \in Nat, SingleBytes(t), NEW k, p[k] # "*",
           NEW q \in 1..Len(t) + 1, Advance(p, t, k, q) # NoMatch
    PROVE  Fits(p[k], t, q, Advance(p, t, k, q))
<1>1. q <= Len(t)
  BY DEF Advance
<1>2. ~WideAt(t, q) /\ Width(t, q) = 1
  BY <1>1 DEF SingleBytes, Width
<1>3. CASE p[k] = "?"
  <2>1. Advance(p, t, k, q) = q + 1
    BY <1>1, <1>2, <1>3 DEF Advance, NoMatch
  <2>2. CutPoints(t) = 1..Len(t) + 1
    BY DEF CutPoints, SingleBytes
  <2>3. OneChar(t, q, q + 1)
    BY <1>1, <2>2 DEF OneChar
  <2> QED
    BY <1>3, <2>1, <2>3 DEF Fits
<1>4. CASE p[k] # "?"
  <2>1. Advance(p, t, k, q) = q + 1 /\ t[q] = p[k]
    BY <1>1, <1>4 DEF Advance
  <2> QED
    BY <1>1, <1>4, <2>1 DEF Fits
<1> QED
  BY <1>3, <1>4

\* Stars, and the pieces h of a chunk.
Stars(p, i, s) == \A k \in i..s - 1 : p[k] = "*"
ChunkCuts(h, p, t, s, e) ==
    \A k \in s..e - 1 : h[k] \in 1..Len(t) + 1 /\ Fits(p[k], t, h[k], h[k + 1])

\* The cuts of one round: stars up to q, the chunk, and the rounds after it.
LEMMA RoundCuts ==
    ASSUME NEW p, Len(p) \in Nat, NEW t, Len(t) \in Nat,
           NEW i \in 1..Len(p) + 1, NEW s \in i..Len(p) + 1, NEW e \in s..Len(p) + 1,
           i < e, Stars(p, i, s),
           NEW j \in 1..Len(t) + 1, NEW q \in j..Len(t) + 1, s = i => q = j,
           NEW h, h[s] = q, ChunkCuts(h, p, t, s, e),
           NEW rest, Cuts(rest, p, t, e), rest[e] = h[e]
    PROVE  \E cut : Cuts(cut, p, t, i) /\ cut[i] = j
<1> DEFINE cut == [k \in i..Len(p) + 1 |-> IF k >= e THEN rest[k]
                                           ELSE IF k >= s THEN h[k]
                                           ELSE IF k = i THEN j ELSE q]
<1>1. /\ rest \in [e..Len(p) + 1 -> 1..Len(t) + 1]
      /\ rest[Len(p) + 1] = Len(t) + 1
      /\ \A k \in e..Len(p) : Fits(p[k], t, rest[k], rest[k + 1])
  BY DEF Cuts
<1>2. \A k \in i..Len(p) + 1 :
          /\ k >= e => cut[k] = rest[k]
          /\ k >= s /\ k <= e => cut[k] = h[k]
          /\ k < s /\ k # i => cut[k] = q
          /\ k = i => cut[k] = j
  OBVIOUS
<1>3. ASSUME NEW k \in i..Len(p) + 1 PROVE cut[k] \in 1..Len(t) + 1
  <2>1. CASE k >= e
    <3>1. k \in e..Len(p) + 1 /\ cut[k] = rest[k]
      BY <1>2, <2>1
    <3> HIDE DEF cut
    <3> QED
      BY <1>1, <3>1
  <2>2. CASE k < e /\ k >= s
    <3>1. k \in s..e - 1
      BY <2>2
    <3> QED
      BY <2>2, <3>1 DEF ChunkCuts
  <2>3. CASE k < s
    BY <2>3
  <2> QED
    BY <2>1, <2>2, <2>3
<1>4. i \in i..Len(p) + 1 /\ Len(p) + 1 \in i..Len(p) + 1 /\ Len(p) + 1 >= e
  OBVIOUS
<1>5. cut \in [i..Len(p) + 1 -> 1..Len(t) + 1]
  <2>1. cut = [k \in i..Len(p) + 1 |-> cut[k]]
    OBVIOUS
  <2> HIDE DEF cut
  <2> QED
    BY <1>3, <2>1
<1>6. cut[i] = j /\ cut[Len(p) + 1] = Len(t) + 1
  BY <1>1, <1>2, <1>4
<1> HIDE DEF cut
<1>7. ASSUME NEW k \in i..Len(p) PROVE Fits(p[k], t, cut[k], cut[k + 1])
  <2>0. k \in i..Len(p) + 1 /\ k + 1 \in i..Len(p) + 1 /\ k + 1 # i
    OBVIOUS
  <2>1. CASE k >= e
    <3>1. k \in e..Len(p) /\ k + 1 >= e
      BY <2>1
    <3>2. cut[k] = rest[k] /\ cut[k + 1] = rest[k + 1]
      BY <1>2, <2>0, <2>1, <3>1
    <3> QED
      BY <1>1, <3>1, <3>2
  <2>2. CASE k < e /\ k >= s
    <3>1. k \in s..e - 1 /\ k + 1 >= s /\ k + 1 <= e /\ k <= e
      BY <2>2
    <3>2. cut[k] = h[k] /\ cut[k + 1] = h[k + 1]
      BY <1>2, <2>0, <2>2, <3>1
    <3> QED
      BY <3>1, <3>2 DEF ChunkCuts
  <2>3. CASE k < s
    <3>1. p[k] = "*"
      BY <2>3 DEF Stars
    <3>2. cut[k] \in {j, q}
      BY <1>2, <2>0, <2>3
    <3>3. cut[k + 1] = q
      <4>1. CASE k + 1 < s
        BY <1>2, <2>0, <4>1
      <4>2. CASE k + 1 = s
        <5>1. k + 1 >= s /\ k + 1 <= e
          BY <4>2
        <5>2. cut[k + 1] = h[k + 1]
          BY <1>2, <2>0, <5>1
        <5> QED
          BY <4>2, <5>2
      <4> QED
        BY <2>3, <4>1, <4>2
    <3>4. cut[k] <= cut[k + 1]
      BY <3>2, <3>3
    <3> QED
      BY <3>1, <3>4 DEF Fits
  <2> QED
    BY <2>1, <2>2, <2>3
<1> QED
  BY <1>5, <1>6, <1>7 DEF Cuts

LEMMA LoopCuts ==
    ASSUME NEW p, Len(p) \in Nat, NEW t, Len(t) \in Nat, SingleBytes(t),
           NEW f, IsLoop(f, p, t, 1)
    PROVE  \A i \in 1..Len(p) + 1 : \A j \in 1..Len(t) + 1 :
               f[i][j] => \E cut : Cuts(cut, p, t, i) /\ cut[i] = j
<1> DEFINE Cut(i, j) == \E cut : Cuts(cut, p, t, i) /\ cut[i] = j
           A == {x \in 0..Len(p) : \E j \in 1..Len(t) + 1 :
                    f[Len(p) + 1 - x][j] /\ ~Cut(Len(p) + 1 - x, j)}
<1>1. \A i \in 1..Len(p) + 1 : Len(p) + 1 - i \in 0..Len(p) /\ Len(p) + 1 - (Len(p) + 1 - i) = i
  OBVIOUS
<1> SUFFICES ASSUME A # {} PROVE FALSE
  <2> SUFFICES ASSUME NEW i \in 1..Len(p) + 1, NEW j \in 1..Len(t) + 1, f[i][j], ~Cut(i, j)
               PROVE  A # {}
    OBVIOUS
  <2> HIDE DEF Cut
  <2>1. Len(p) + 1 - i \in A
    BY <1>1
  <2> QED
    BY <2>1
<1>2. PICK x \in A : \A y \in A : x <= y
  <2>1. A \subseteq Nat
    OBVIOUS
  <2> HIDE DEF A
  <2> QED
    BY <2>1, LeastNumber
<1> HIDE DEF Cut
<1> DEFINE i == Len(p) + 1 - x
<1>3. i \in 1..Len(p) + 1
  BY <1>2
<1>4. PICK j \in 1..Len(t) + 1 : f[i][j] /\ ~Cut(i, j)
  BY <1>2
<1>5. ASSUME NEW k \in i + 1..Len(p) + 1, NEW r \in 1..Len(t) + 1, f[k][r]
      PROVE  Cut(k, r)
  <2>1. Len(p) + 1 - k \in 0..Len(p) /\ Len(p) + 1 - (Len(p) + 1 - k) = k
    BY <1>1, <1>3
  <2>2. Len(p) + 1 - k < x
    BY <1>2
  <2>3. Len(p) + 1 - k \notin A
    <3>1. x \in Nat
      BY <1>2
    <3> HIDE DEF A
    <3> QED
      BY <1>2, <2>1, <2>2, <3>1
  <2> QED
    BY <1>5, <2>1, <2>3
<1> HIDE DEF i, A
<1> DEFINE s == ChunkStart(p, i)
           e == ChunkEnd(p, i)
<1>6. /\ s \in i..Len(p) + 1 /\ e \in s..Len(p) + 1
      /\ \A k \in i..s - 1 : p[k] = "*"
      /\ \A k \in s..e - 1 : p[k] # "*"
  BY <1>3, ChunkIs
<1>7. Round(f, p, t, i, j)
  BY <1>3, <1>4, LoopAt
<1>8. CASE i > Len(p) /\ j > Len(t)
  <2>1. i = Len(p) + 1 /\ j = Len(t) + 1
    BY <1>3, <1>8
  <2>2. Cuts([k \in i..Len(p) + 1 |-> j], p, t, i)
    BY <2>1 DEF Cuts
  <2>3. [k \in i..Len(p) + 1 |-> j][i] = j
    BY <2>1
  <2> QED
    BY <1>4, <2>2, <2>3 DEF Cut
<1>9. CASE s > i /\ s = e
  <2>1. s = Len(p) + 1
    BY <1>3, <1>9, EmptyChunk
  <2> DEFINE cut == [k \in i..Len(p) + 1 |-> IF k = i THEN j ELSE Len(t) + 1]
  <2>2. i <= Len(p) /\ \A k \in i..Len(p) : p[k] = "*"
    BY <1>3, <1>6, <1>9, <2>1
  <2>3. cut \in [i..Len(p) + 1 -> 1..Len(t) + 1] /\ cut[i] = j /\ cut[Len(p) + 1] = Len(t) + 1
    BY <1>3, <2>2
  <2>4. \A k \in i..Len(p) : cut[k] <= cut[k + 1]
    BY <1>3, <2>2
  <2> HIDE DEF cut
  <2>5. Cuts(cut, p, t, i)
    BY <2>2, <2>3, <2>4 DEF Cuts, Fits
  <2> QED
    BY <1>4, <2>3, <2>5 DEF Cut
<1>10. CASE s < e /\ Starts(p, i, t, j) # {} /\ f[e][Rest(p, i, t, j)]
  <2> DEFINE q == Smallest(Starts(p, i, t, j))
             r == Rest(p, i, t, j)
  <2>1. /\ q \in Starts(p, i, t, j) /\ q \in j..Len(t) + 1
        /\ r = MatchChunk(p, s, e, t, q) /\ r \in 1..Len(t) + 1
    BY <1>3, <1>10, StartsAre
  <2>2. s = i => q = j
    BY <1>3, <2>1 DEF Starts
  <2>3. e \in i + 1..Len(p) + 1 /\ s \in Nat /\ e \in Nat /\ s <= e /\ i < e
    <3> HIDE DEF s, e
    <3> QED
      BY <1>3, <1>6, <1>10
  <2>4. Cut(e, r)
    BY <1>5, <1>10, <2>1, <2>3
  <2> HIDE DEF s, e, q, r
  <2>5. PICK rest : Cuts(rest, p, t, e) /\ rest[e] = r
    BY <2>4 DEF Cut
  <2>6. PICK h : IsAfter(h, p, s, e, t, q) /\ r = h[e]
    <3>0. s \in Nat /\ e \in Nat /\ s <= e
      BY <2>3
    <3>1. HasPlaces(p, s, e, t, q)
      BY <3>0, MatchChunkIs
    <3> QED
      BY <2>1, <3>1 DEF HasPlaces
  <2>7. h[s] = q /\ \A k \in s..e - 1 : h[k + 1] = Advance(p, t, k, h[k])
    <3>1. After(h, p, s, e, t, q)
      BY <2>3, <2>6, AfterAt
    <3> QED
      BY <3>1 DEF After
  <2>8. \A k \in s..e : h[k] \in 1..Len(t) + 1
    <3>1. q \in 1..Len(t) + 1
      BY <2>1
    <3>2. \A k \in s..e : h[k] \in 0..Len(t) + 1
      BY <2>3, <2>6, <3>1, AfterType
    <3>3. h[e] # NoMatch
      BY <2>1, <2>6 DEF NoMatch
    <3>4. \A k \in s..e : h[k] # NoMatch
      BY <2>3, <2>6, <3>3, AfterMatches
    <3> QED
      BY <3>2, <3>4 DEF NoMatch
  <2>9. ASSUME NEW k \in s..e - 1
        PROVE  h[k] \in 1..Len(t) + 1 /\ Fits(p[k], t, h[k], h[k + 1])
    <3>1. k \in s..e /\ k + 1 \in s..e
      BY <2>3
    <3>2. h[k] \in 1..Len(t) + 1 /\ h[k + 1] \in 1..Len(t) + 1
      BY <2>8, <3>1
    <3>3. h[k + 1] = Advance(p, t, k, h[k]) /\ p[k] # "*"
      BY <1>6, <2>7
    <3>4. Advance(p, t, k, h[k]) # NoMatch
      BY <3>2, <3>3 DEF NoMatch
    <3>5. Fits(p[k], t, h[k], Advance(p, t, k, h[k]))
      BY <3>2, <3>3, <3>4, AdvanceFits
    <3> QED
      BY <3>2, <3>3, <3>5
  <2>10. Stars(p, i, s) /\ ChunkCuts(h, p, t, s, e)
    BY <1>6, <2>9 DEF Stars, ChunkCuts
  <2>11. \E cut : Cuts(cut, p, t, i) /\ cut[i] = j
    <3>1. s \in i..Len(p) + 1 /\ e \in s..Len(p) + 1 /\ i < e /\ q \in j..Len(t) + 1
      BY <1>6, <2>1, <2>3
    <3>2. h[s] = q /\ rest[e] = h[e]
      BY <2>5, <2>6, <2>7
    <3> QED
      BY <1>3, <2>2, <2>5, <2>10, <3>1, <3>2, RoundCuts
  <2> QED
    BY <1>4, <2>11 DEF Cut
<1> QED
  BY <1>7, <1>8, <1>9, <1>10 DEF Round

LEMMA LowerBytes ==
    ASSUME NEW text, Len(text) \in Nat, SingleBytes(text)
    PROVE  SingleBytes(Lower(text))
<1> DEFINE t == Lower(text)
<1>1. Len(t) = Len(text)
  BY LowerLen
<1>2. \A k \in 1..Len(text) : t[k] \in {"e3", "81", "82"} => t[k] = text[k]
  BY DEF Lower, LowerCase
<1> HIDE DEF t
<1>3. ASSUME NEW j \in 1..Len(t), WideAt(t, j) PROVE FALSE
  <2>1. j + 2 <= Len(text) /\ \A i \in 1..3 : t[j + i - 1] = WideChar[i]
    BY <1>1, <1>3 DEF WideAt
  <2>2. \A i \in 1..3 : j + i - 1 \in 1..Len(text) /\ WideChar[i] \in {"e3", "81", "82"}
    BY <2>1 DEF WideChar
  <2>3. \A i \in 1..3 : text[j + i - 1] = WideChar[i]
    BY <1>2, <2>1, <2>2
  <2>4. WideAt(text, j)
    BY <2>1, <2>3 DEF WideAt
  <2> QED
    BY <1>1, <2>4 DEF SingleBytes
<1>4. SingleBytes(t)
  BY <1>3 DEF SingleBytes
<1> QED
  BY <1>4 DEF t

\* Where the characters of the text have one byte each, the greedy matcher decides
\* as the definition of a glob does.
THEOREM GlobDecides ==
    ASSUME NEW pattern, Len(pattern) \in Nat, NEW text, Len(text) \in Nat,
           SingleBytes(text)
    PROVE  WildcardMatch(pattern, text) <=> Glob(pattern, text)
<1> DEFINE p == Lower(pattern)
           t == Lower(text)
<1>1. Len(p) \in Nat /\ Len(t) \in Nat /\ SingleBytes(t)
  BY LowerLen, LowerBytes
<1>2. ASSUME WildcardMatch(pattern, text) PROVE Glob(pattern, text)
  <2>1. PICK f : IsLoop(f, p, t, 1) /\ WildcardMatch(pattern, text) = f[1][1]
    BY <1>1, MatchIs
  <2> HIDE DEF p, t
  <2>2. f[1][1] /\ 1 \in 1..Len(p) + 1 /\ 1 \in 1..Len(t) + 1
    <3>1. f[1][1]
      BY <1>2, <2>1, Zenon
    <3> QED
      BY <1>1, <3>1
  <2>3. PICK cut : Cuts(cut, p, t, 1) /\ cut[1] = 1
    BY <1>1, <2>1, <2>2, LoopCuts
  <2> QED
    BY <2>3 DEF Glob, Cuts, p, t
<1> QED
  BY <1>2, NoneMissed

----------------------------------------------------------------------------
\* Targets and rates have their types.
LEMMA RuleTypes ==
    ASSUME NEW m \in ManifestType, NEW i \in Rules(m)
    PROVE  Rule(m, i).target \in Int /\ Rule(m, i).rate \in Rates
<1>1. Rule(m, i) \in RuleType
  <2>1. m.rules \in Seq(RuleType) /\ m.default \in RuleType
    BY DEF ManifestType
  <2>2. CASE i = Default
    BY <2>1, <2>2 DEF Rule
  <2>3. CASE i # Default
    <3>1. i \in 1..Len(m.rules)
      BY <2>1, <2>3 DEF Rules, NumRules, Default
    <3> QED
      BY <2>1, <2>3, <3>1, ElementOfSeq DEF Rule
  <2> QED
    BY <2>2, <2>3
<1> QED
  BY <1>1 DEF RuleType

\* A manifest in use has the rules of the one given, but for their hosts.
LEMMA NormalizeKeeps ==
    ASSUME NEW m \in ManifestType
    PROVE  /\ Normalize(m) \in ManifestType
           /\ NumRules(Normalize(m)) = NumRules(m)
           /\ \A i \in Rules(m) :
                 /\ Rule(Normalize(m), i).target = Rule(m, i).target
                 /\ Rule(Normalize(m), i).rate = Rule(m, i).rate
<1>1. CASE m.version = 2
  BY <1>1 DEF Normalize
<1>2. CASE m.version # 2
  <2> DEFINE rs == [i \in 1..Len(m.rules) |-> Renamed(m.rules[i])]
  <2>1. Normalize(m) = Manifest(2, m.default, rs)
    BY <1>2 DEF Normalize, NumRules
  <2>2. m.rules \in Seq(RuleType) /\ Len(m.rules) \in Nat /\ m.default \in RuleType
    BY DEF ManifestType
  <2>3. ASSUME NEW i \in 1..Len(m.rules)
        PROVE  /\ rs[i] \in RuleType
               /\ rs[i].target = m.rules[i].target /\ rs[i].rate = m.rules[i].rate
    <3>1. m.rules[i] \in RuleType
      BY <2>2, ElementOfSeq
    <3>2. Renamed(m.rules[i]) \in RuleType
      BY <3>1 DEF RuleType, Renamed
    <3>3. rs[i] = Renamed(m.rules[i])
      OBVIOUS
    <3> HIDE DEF rs
    <3> QED
      BY <3>2, <3>3 DEF Renamed
  <2>4. Len(rs) = Len(m.rules)
    BY <2>2
  <2>5. rs \in Seq(RuleType)
    <3>1. rs \in [1..Len(m.rules) -> RuleType]
      BY <2>3
    <3> HIDE DEF rs
    <3> QED
      BY <3>1, <2>2
  <2> HIDE DEF rs
  <2>6. Normalize(m) \in ManifestType /\ Normalize(m).rules = rs
        /\ Normalize(m).default = m.default
    BY <2>1, <2>2, <2>5 DEF ManifestType, Manifest
  <2> QED
    BY <2>2, <2>3, <2>4, <2>6 DEF NumRules, Rules, Rule, Default
<1> QED
  BY <1>1, <1>2

\* The invariant holds at first.
LEMMA InitIInv == Init => IInv
<1> SUFFICES ASSUME Init PROVE IInv
  OBVIOUS
<1>1. given \in Manifests /\ given \in ManifestType
  BY ManifestsAssumption DEF Init
<1>2. manifest = [version |-> 0, default |-> given.default, rules |-> given.rules]
  BY DEF Init
<1>3. manifest \in ManifestType /\ manifest.rules = given.rules
      /\ manifest.default = given.default /\ manifest.version = 0
  BY <1>1, <1>2 DEF ManifestType
<1>4. TypeOK
  BY <1>1, <1>3 DEF Init, TypeOK, Zero
<1> QED
  BY <1>3, <1>4 DEF IInv, Init, Zero, Made, NumRules, Rule, TargetMet

\* Every step keeps the invariant.
LEMMA IInvStep == IInv /\ [Next]_vars => IInv'
<1> SUFFICES ASSUME IInv, [Next]_vars PROVE IInv'
  OBVIOUS
<1>0. given \in ManifestType
  BY ManifestsAssumption DEF IInv, TypeOK
<1>1. CASE UNCHANGED vars
  BY <1>1 DEF vars, manifests, IInv, TypeOK, TargetMet, Made
<1>2. CASE NewLocalizedStrategy
  <2>1. /\ UNCHANGED <<given, now, used, currentEpoch, asked, sampled>>
        /\ manifest' = Normalize(given) /\ ~Made
    BY <1>2 DEF NewLocalizedStrategy
  <2>2. \A i \in Rules(given) : Rule(given, i).target \in Nat
    <3>1. \A i \in Rules(given) : Rule(given, i).target >= 0
      BY <1>2 DEF NewLocalizedStrategy, Valid
    <3> QED
      BY <1>0, <3>1, RuleTypes
  <2>3. /\ NumRules(manifest)' = NumRules(given)
        /\ \A i \in Rules(given) :
              /\ Rule(manifest, i).target' = Rule(given, i).target
              /\ Rule(manifest, i).rate' = Rule(given, i).rate
    BY <1>0, <2>1, NormalizeKeeps
  <2>4. TypeOK'
    BY <1>0, <2>1, NormalizeKeeps DEF IInv, TypeOK
  <2>5. \A i \in Rules(given) : currentEpoch[i] # now /\ asked[i] = 0 /\ sampled[i] = 0
    BY <2>1 DEF IInv
  <2>6. TargetMet'
    BY <2>1, <2>2, <2>5 DEF TargetMet, Least
  <2> QED
    BY <2>1, <2>2, <2>3, <2>4, <2>5, <2>6 DEF IInv
<1>3. CASE Tick
  <2>1. /\ UNCHANGED <<given, manifest, used, currentEpoch>> /\ now' = now + 1
        /\ asked' = Zero(given) /\ sampled' = Zero(given) /\ Made
    BY <1>3 DEF Tick, manifests, IInv, Zero, Rules
  <2>2. \A i \in Rules(given) : Rule(given, i).target \in Nat
    BY <1>0, <2>1, RuleTypes DEF IInv
  <2>3. TypeOK'
    BY <2>1 DEF IInv, TypeOK, Zero
  <2>4. TargetMet'
    BY <2>1, <2>2 DEF TargetMet, Least, Zero
  <2>5. \A i \in Rules(given) : currentEpoch'[i] < now'
    BY <2>1 DEF IInv, TypeOK
  <2>6. (Made /\ NumRules(manifest) = NumRules(given))'
    BY <2>1 DEF IInv, Made
  <2> QED
    BY <2>1, <2>3, <2>4, <2>5, <2>6 DEF IInv, TypeOK, Zero
<1>4. ASSUME NEW req \in Requests, NEW i \in Rules(given), ShouldTrace(req, i) PROVE IInv'
  <2>1. /\ UNCHANGED <<given, manifest, now>> /\ Made
        /\ asked' = [asked EXCEPT ![i] = @ + 1]
        /\ currentEpoch' = [currentEpoch EXCEPT ![i] = now]
        /\ Take(i) \/ TakeFails(i)
    BY <1>4 DEF ShouldTrace, manifests
  <2>2. \A j \in Rules(given) : Rule(given, j).target \in Nat
    BY <1>0, <2>1, RuleTypes DEF IInv
  <2>3. Capacity(i) = Rule(given, i).target /\ Rule(manifest, i).rate = Rule(given, i).rate
    BY DEF IInv, Capacity
  <2>4. UsedNow(i) = Least(asked[i], Capacity(i))
    BY <2>2, <2>3 DEF IInv, UsedNow, Least
  <2>5. /\ used' = [used EXCEPT ![i] = Least(asked[i] + 1, Capacity(i))]
        /\ \E yes \in BOOLEAN :
              /\ Sample(i, yes)
              /\ asked[i] < Capacity(i) => yes
              /\ asked[i] >= Capacity(i) =>
                    /\ Rule(given, i).rate = "never" => ~yes
                    /\ Rule(given, i).rate = "always" => yes
    <3>1. asked[i] \in Nat /\ Capacity(i) \in Nat
      BY <2>2, <2>3 DEF IInv, TypeOK
    <3>2. CASE Take(i)
      <4>1. asked[i] < Capacity(i) /\ UsedNow(i) = asked[i]
        BY <2>4, <3>1, <3>2 DEF Take, Least
      <4>2. used' = [used EXCEPT ![i] = UsedNow(i) + 1] /\ Sample(i, TRUE)
        BY <3>2 DEF Take
      <4>3. Least(asked[i] + 1, Capacity(i)) = UsedNow(i) + 1 /\ ~(asked[i] >= Capacity(i))
        BY <3>1, <4>1 DEF Least
      <4> QED
        BY <4>2, <4>3
    <3>3. CASE TakeFails(i)
      <4>1. asked[i] >= Capacity(i) /\ UsedNow(i) = Capacity(i)
        BY <2>4, <3>1, <3>3 DEF TakeFails, Least
      <4>2. used' = [used EXCEPT ![i] = UsedNow(i)]
        BY <3>3 DEF TakeFails
      <4>3. PICK yes \in BOOLEAN :
               /\ Rule(manifest, i).rate = "never" => ~yes
               /\ Rule(manifest, i).rate = "always" => yes
               /\ Sample(i, yes)
        BY <3>3 DEF TakeFails
      <4>4. Least(asked[i] + 1, Capacity(i)) = UsedNow(i) /\ ~(asked[i] < Capacity(i))
        BY <3>1, <4>1 DEF Least
      <4> QED
        BY <2>3, <4>2, <4>3, <4>4
    <3> QED
      BY <2>1, <3>2, <3>3
  <2>6. PICK yes \in BOOLEAN :
              /\ sampled' = IF yes THEN [sampled EXCEPT ![i] = @ + 1] ELSE sampled
              /\ asked[i] < Capacity(i) => yes
              /\ asked[i] >= Capacity(i) =>
                    /\ Rule(given, i).rate = "never" => ~yes
                    /\ Rule(given, i).rate = "always" => yes
    BY <2>5 DEF Sample
  <2>7. TypeOK'
    BY <2>1, <2>2, <2>3, <2>5, <2>6 DEF IInv, TypeOK, Least
  <2>8. TargetMet'
    <3> SUFFICES ASSUME NEW j \in Rules(given)
                 PROVE  LET first == Least(asked'[j], Rule(given, j).target)
                            rate  == Rule(given, j).rate
                        IN  /\ first <= sampled'[j] /\ sampled'[j] <= asked'[j]
                            /\ rate = "never" => sampled'[j] = first
                            /\ rate = "always" => sampled'[j] = asked'[j]
      BY <2>1 DEF TargetMet
    <3>1. LET first == Least(asked[j], Rule(given, j).target)
              rate  == Rule(given, j).rate
          IN  /\ first <= sampled[j] /\ sampled[j] <= asked[j]
              /\ rate = "never" => sampled[j] = first
              /\ rate = "always" => sampled[j] = asked[j]
      BY <2>1 DEF IInv, TargetMet
    <3>2. asked[j] \in Nat /\ sampled[j] \in Nat /\ Rule(given, j).target \in Nat
      BY <2>2 DEF IInv, TypeOK
    <3>3. asked \in [Rules(given) -> Nat] /\ sampled \in [Rules(given) -> Nat]
      BY DEF IInv, TypeOK
    <3>4. CASE j = i
      <4>1. asked'[j] = asked[j] + 1
            /\ sampled'[j] = IF yes THEN sampled[j] + 1 ELSE sampled[j]
        BY <2>1, <2>6, <3>3, <3>4
      <4> QED
        BY <2>3, <2>6, <3>1, <3>2, <3>4, <4>1 DEF Least
    <3>5. CASE j # i
      BY <2>1, <2>6, <3>1, <3>3, <3>5
    <3> QED
      BY <3>4, <3>5
  <2>9. ASSUME NEW j \in Rules(given)
        PROVE  /\ Rule(given, j).target >= 0
               /\ currentEpoch'[j] <= now
               /\ currentEpoch'[j] = now => used'[j] = Least(asked'[j], Rule(given, j).target)
               /\ currentEpoch'[j] # now => asked'[j] = 0 /\ sampled'[j] = 0
    <3>1. CASE j = i
      BY <2>1, <2>2, <2>3, <2>5, <3>1 DEF IInv, TypeOK
    <3>2. CASE j # i
      BY <2>1, <2>2, <2>5, <2>6, <3>2 DEF IInv, TypeOK
    <3> QED
      BY <3>1, <3>2
  <2>10. (Made /\ NumRules(manifest) = NumRules(given))'
    BY <2>1 DEF IInv, Made
  <2> QED
    BY <2>1, <2>7, <2>8, <2>9, <2>10 DEF IInv
<1> QED
  BY <1>1, <1>2, <1>3, <1>4 DEF Next

\* The inductive invariant holds of every manifest.
THEOREM Invariant == Spec => []IInv
<1> QED
  BY InitIInv, IInvStep, PTL DEF Spec

\* In every second the reservoir of each rule traces exactly the first
\* FixedTarget requests, and the rate decides on the rest.
THEOREM TargetIsMet == Spec => []TargetMet
<1>1. IInv => TargetMet
  BY DEF IInv
<1> QED
  BY <1>1, Invariant, PTL

----------------------------------------------------------------------------
\* The rule of a request.

\* A request that was decided was decided by the manifest in use, which is the
\* one given if that is of version 2.
Decided ==
    /\ last.request \in RequestType
    /\ last.rule # NoRule => Made /\ Decides(last.rule, last.request)
    /\ Made /\ given.version = 2 => manifest = given

LEMMA InitDecided == Init => Decided
<1> SUFFICES ASSUME Init PROVE Decided
  OBVIOUS
<1>1. last = [request |-> [host |-> <<>>, url |-> <<>>, method |-> <<>>], rule |-> NoRule]
      /\ manifest.version = 0
  BY DEF Init
<1>2. <<>> \in Seq(STRING)
  OBVIOUS
<1> QED
  BY <1>1, <1>2 DEF Decided, RequestType, Made

LEMMA DecidedStep == Decided /\ [Next]_vars => Decided'
<1> SUFFICES ASSUME Decided, [Next]_vars PROVE Decided'
  OBVIOUS
<1>1. CASE UNCHANGED vars \/ Tick
  <2>1. UNCHANGED <<given, manifest, last>>
    BY <1>1 DEF vars, manifests, Tick
  <2> QED
    BY <2>1 DEF Decided, Made, Decides
<1>2. CASE NewLocalizedStrategy
  <2>1. ~Made /\ UNCHANGED <<given, last>> /\ manifest' = Normalize(given)
    BY <1>2 DEF NewLocalizedStrategy
  <2>2. last.rule = NoRule
    BY <2>1 DEF Decided
  <2>3. given.version = 2 => manifest' = given
    BY <2>1 DEF Normalize
  <2> QED
    BY <2>1, <2>2, <2>3 DEF Decided
<1>3. ASSUME NEW req \in Requests, NEW i \in Rules(given), ShouldTrace(req, i)
      PROVE  Decided'
  <2>1. /\ UNCHANGED <<given, manifest>> /\ Made /\ Decides(i, req)
        /\ last' = [request |-> req, rule |-> i]
    BY <1>3 DEF ShouldTrace, manifests
  <2>2. req \in RequestType
    BY RequestsAssumption
  <2> QED
    BY <2>1, <2>2 DEF Decided, Made, Decides
<1> QED
  BY <1>1, <1>2, <1>3 DEF Next

\* The wildcards of a rule decide on a request as their definition does.
LEMMA MatchApplies ==
    ASSUME NEW r \in RuleType, NEW req \in RequestType,
           \A f \in {"host", "url", "method"} : SingleBytes(req[f])
    PROVE  Match(r, req) <=> Applies(r, req)
<1>1. /\ r.host \in Seq(STRING) /\ r.url \in Seq(STRING) /\ r.method \in Seq(STRING)
      /\ req.host \in Seq(STRING) /\ req.url \in Seq(STRING) /\ req.method \in Seq(STRING)
  BY DEF RuleType, RequestType
<1>2. SingleBytes(req.host) /\ SingleBytes(req.url) /\ SingleBytes(req.method)
  OBVIOUS
<1>3. \A s \in Seq(STRING) : Len(s) \in Nat
  OBVIOUS
<1>4. /\ WildcardMatch(r.host, req.host) <=> Glob(r.host, req.host)
      /\ WildcardMatch(r.url, req.url) <=> Glob(r.url, req.url)
      /\ WildcardMatch(r.method, req.method) <=> Glob(r.method, req.method)
  BY <1>1, <1>2, <1>3, GlobDecides
<1> QED
  BY <1>4 DEF Match, Applies

\* A request is decided by the first rule of the manifest whose wildcards fit it.
THEOREM FirstRuleDecides == Spec => []FirstMatchDecides
<1>1. ASSUME IInv, Decided, given.version = 2, last.rule # NoRule,
             \A f \in {"host", "url", "method"} : SingleBytes(last.request[f])
      PROVE  LET applying == {i \in 1..NumRules(given) : Applies(given.rules[i], last.request)}
             IN  IF applying = {} THEN last.rule = Default
                 ELSE last.rule = Smallest(applying)
  <2> DEFINE applying == {i \in 1..NumRules(given) : Applies(given.rules[i], last.request)}
             matching == {i \in 1..NumRules(manifest) : Match(manifest.rules[i], last.request)}
  <2>1. manifest = given /\ Decides(last.rule, last.request) /\ last.request \in RequestType
    BY <1>1 DEF Decided
  <2>2. \A i \in 1..NumRules(given) : given.rules[i] \in RuleType
    <3>1. given \in ManifestType
      BY <1>1, ManifestsAssumption DEF IInv, TypeOK
    <3>2. given.rules \in Seq(RuleType)
      BY <3>1 DEF ManifestType
    <3> QED
      BY <3>2, ElementOfSeq DEF NumRules
  <2>3. \A i \in 1..NumRules(given) :
            Match(given.rules[i], last.request) <=> Applies(given.rules[i], last.request)
    BY <1>1, <2>1, <2>2, MatchApplies
  <2>4. applying = matching
    BY <2>1, <2>3
  <2>5. IF matching = {} THEN last.rule = Default
        ELSE last.rule \in matching /\ \A i \in matching : last.rule <= i
    BY <2>1 DEF Decides
  <2>6. applying \subseteq Nat
    OBVIOUS
  <2> HIDE DEF applying, matching
  <2>7. ASSUME applying # {} PROVE last.rule = Smallest(applying)
    <3>1. Smallest(applying) \in applying /\ \A i \in applying : Smallest(applying) <= i
      BY <2>6, <2>7, SmallestIs
    <3>2. last.rule \in applying /\ \A i \in applying : last.rule <= i
      BY <2>4, <2>5, <2>7
    <3>3. Smallest(applying) <= last.rule /\ last.rule <= Smallest(applying)
      BY <3>1, <3>2
    <3>4. Smallest(applying) \in Nat /\ last.rule \in Nat
      BY <2>6, <3>1, <3>2
    <3> QED
      BY <3>3, <3>4
  <2>8. IF applying = {} THEN last.rule = Default ELSE last.rule = Smallest(applying)
    BY <2>4, <2>5, <2>7
  <2> QED
    BY <2>8 DEF applying
<1>2. IInv /\ Decided => FirstMatchDecides
  BY <1>1 DEF FirstMatchDecides
<1> QED
  BY <1>2, Invariant, InitDecided, DecidedStep, PTL DEF Spec

\* No request misses a rule whose wildcards fit it, whatever its bytes.
THEOREM NoRuleMissed == Spec => []NoMatchMissed
<1>1. ASSUME IInv, Decided, NEW i \in 1..NumRules(manifest),
             NEW f \in {"host", "url", "method"},
             Glob(manifest.rules[i][f], last.request[f])
      PROVE  WildcardMatch(manifest.rules[i][f], last.request[f])
  <2>1. manifest.rules[i] \in RuleType
    <3>1. manifest.rules \in Seq(RuleType)
      BY <1>1 DEF IInv, TypeOK, ManifestType
    <3> QED
      BY <3>1, ElementOfSeq DEF NumRules
  <2>2. manifest.rules[i][f] \in Seq(STRING)
    BY <2>1 DEF RuleType
  <2>3. last.request[f] \in Seq(STRING)
    BY <1>1 DEF Decided, RequestType
  <2>4. Len(manifest.rules[i][f]) \in Nat /\ Len(last.request[f]) \in Nat
    BY <2>2, <2>3
  <2> QED
    BY <1>1, <2>4, NoneMissed
<1>2. IInv /\ Decided => NoMatchMissed
  BY <1>1 DEF NoMatchMissed
<1> QED
  BY <1>2, Invariant, InitDecided, DecidedStep, PTL DEF Spec
=============================================================================
