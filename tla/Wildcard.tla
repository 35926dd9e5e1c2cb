------------------------------ MODULE Wildcard ------------------------------
(***************************************************************************)
(* WildcardMatchCaseInsensitive (xray/sampling/pattern.go): a greedy       *)
(* matcher that cuts the pattern at its stars into chunks and looks for    *)
(* them one after the other, never going back.  Glob is the definition     *)
(* that it is compared with.                                               *)
(*                                                                         *)
(* Patterns and texts are sequences of bytes.  Three bytes stand for one   *)
(* character outside ASCII, the other bytes for one character each.        *)
(***************************************************************************)
EXTENDS Integers, Sequences, FiniteSets

WideChar == <<"e3", "81", "82">>

LowerCase == [A |-> "a", B |-> "b"]

\* strings.ToLower, of whole characters; it would replace other bytes.
Lower(s) ==
    [i \in 1..Len(s) |-> IF s[i] \in DOMAIN LowerCase THEN LowerCase[s[i]] ELSE s[i]]

\* Is there a character of three bytes at j?
WideAt(t, j) == j + 2 <= Len(t) /\ \A i \in 1..3 : t[j + i - 1] = WideChar[i]

\* Faulty: a question mark takes one byte.
OneByte(t, j) == 1

\* utf8.DecodeRuneInString: bytes of the character at j; a byte from the middle
\* of a character decodes by itself.
Width(t, j) == IF WideAt(t, j) THEN 3 ELSE 1

Smallest(S) == CHOOSE x \in S : \A y \in S : x <= y

----------------------------------------------------------------------------
\* What is left of the pattern p from position i on: where its first chunk
\* starts, behind the stars, and where the rest begins, at the next star.

ChunkStart(p, i) == Smallest({k \in i..Len(p) : p[k] # "*"} \cup {Len(p) + 1})

ChunkEnd(p, i) ==
    Smallest({k \in ChunkStart(p, i)..Len(p) : p[k] = "*"} \cup {Len(p) + 1})

NoMatch == 0

\* matchChunk: where the chunk p[s], ..., p[e - 1] ends in t if it matches from
\* position j on, or NoMatch.
MatchChunk(p, s, e, t, j) ==
    LET after[k \in s..e] ==
            IF k = s THEN j
            ELSE LET q == after[k - 1] IN
                 IF q = NoMatch \/ q > Len(t) THEN NoMatch
                 ELSE IF p[k - 1] = "?" THEN q + Width(t, q)
                 ELSE IF p[k - 1] = t[q] THEN q + 1
                 ELSE NoMatch
    IN  after[e]

\* The chunk matches from j on, and the last chunk exhausts the text.
ChunkFits(p, s, e, t, j) ==
    LET q == MatchChunk(p, s, e, t, j)
    IN  q # NoMatch /\ (q > Len(t) \/ e <= Len(p))

\* The loop, at p from position i on and t from position j on.  Behind a star
\* the chunk is looked for from each byte on, and the first place is taken.
Starts(p, i, t, j) ==
    {q \in j..Len(t) + 1 : (q = j \/ ChunkStart(p, i) > i)
                           /\ ChunkFits(p, ChunkStart(p, i), ChunkEnd(p, i), t, q)}

Rest(p, i, t, j) ==
    MatchChunk(p, ChunkStart(p, i), ChunkEnd(p, i), t, Smallest(Starts(p, i, t, j)))

WildcardMatch(pattern, text) ==
    LET p == Lower(pattern)
        t == Lower(text)
        match[i \in 1..Len(p) + 1] ==
            [j \in 1..Len(t) + 1 |->
                \/ i > Len(p) /\ j > Len(t)
                \/ ChunkStart(p, i) > i /\ ChunkStart(p, i) = ChunkEnd(p, i)
                \/ /\ ChunkStart(p, i) < ChunkEnd(p, i) /\ Starts(p, i, t, j) # {}
                   /\ match[ChunkEnd(p, i)][Rest(p, i, t, j)]]
    IN  match[1][1]

----------------------------------------------------------------------------
\* The reference: the text can be cut into as many pieces as the pattern has
\* signs, a star taking any piece, a question mark one character, any other sign
\* the same byte.

\* Where a text can be cut between characters.
CutPoints(t) ==
    {j \in 1..Len(t) + 1 : \A k \in 1..Len(t) : WideAt(t, k) => j \notin {k + 1, k + 2}}

\* Is the character at a the one before b?
OneChar(t, a, b) == b \in CutPoints(t) /\ {j \in CutPoints(t) : a <= j /\ j < b} = {a}

\* Does the sign c of a pattern match the piece of t from a to before b?
Fits(c, t, a, b) ==
    CASE c = "*" -> a <= b
      [] c = "?" -> OneChar(t, a, b)
      [] OTHER   -> a <= Len(t) /\ b = a + 1 /\ t[a] = c

Glob(pattern, text) ==
    LET p == Lower(pattern)
        t == Lower(text)
    IN  \E cut \in [1..Len(p) + 1 -> 1..Len(t) + 1] :
            /\ cut[1] = 1 /\ cut[Len(p) + 1] = Len(t) + 1
            /\ \A i \in 1..Len(p) : Fits(p[i], t, cut[i], cut[i + 1])

SingleBytes(t) == \A j \in 1..Len(t) : ~WideAt(t, j)
=============================================================================
