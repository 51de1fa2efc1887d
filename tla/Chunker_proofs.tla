---------------------------- MODULE Chunker_proofs ----------------------------
(***************************************************************************)
(* Theorems about the chunker, for texts of any length and every size and  *)
(* overlap that its loop bears. What is proved is told by where the next   *)
(* piece begins: either the last one lies behind a gap of blank runes, or  *)
(* it shares exactly the overlap with what follows.                        *)
(***************************************************************************)
EXTENDS Chunker, TLAPS, SequenceTheorems, WellFoundedInduction

\* Between position a and position b there are blank runes only, and one at least.
Gap(a, b) == a + 1 < b /\ \A i \in DOMAIN text : a < i /\ i < b => isSpace(text[i])

LastChunk == chunks[Len(chunks)]
Contiguous ==
  /\ inside # <<>> => Gap(inside[1].to, rest)
  /\ chunks # <<>> =>
       IF inside = <<>> THEN Gap(LastChunk.to, rest)
       ELSE \/ Gap(LastChunk.to, start)
            \/ start = LastChunk.to - overlap + 1 /\ LastChunk.to < inside[1].to

ChunkerInv ==
  /\ TypeOK /\ overlap <= maxSize \div 2
  /\ Contiguous
  /\ PiecesFit /\ NothingLost /\ SharedOverlap

-----------------------------------------------------------------------------
(* The least and the greatest of a set of positions.                       *)
LEMMA Least ==
  ASSUME NEW S \in SUBSET Nat, S # {}
  PROVE  \E x \in S : \A y \in S : x <= y
<1> DEFINE R == {ss \in Nat \X Nat : ss[1] < ss[2]}
<1>1. IsWellFoundedOn(R, Nat)
  BY NatLessThanWellFounded DEF OpToRel
<1>2. \A x, y \in Nat : <<y, x>> \in R <=> y < x
  OBVIOUS
<1> HIDE DEF R
<1>3. PICK x \in S : \A y \in S : ~(<<y, x>> \in R)
  BY <1>1, WFMin
<1>4. ASSUME NEW y \in S PROVE x <= y
  <2>1. x \in Nat /\ y \in Nat /\ ~(<<y, x>> \in R)
    BY <1>3
  <2>2. ~(y < x)
    BY <1>2, <2>1, Zenon
  <2> QED BY <2>1, <2>2
<1> QED BY <1>4

LEMMA MinIs ==
  ASSUME NEW S \in SUBSET Nat, S # {}
  PROVE  Min(S) \in S /\ \A y \in S : Min(S) <= y
<1>1. \E x \in S : \A y \in S : x <= y
  BY Least
<1> QED BY <1>1 DEF Min

LEMMA MaxIs ==
  ASSUME NEW S \in SUBSET Nat, S # {}, NEW n \in Nat, \A y \in S : y <= n
  PROVE  Max(S) \in S /\ \A y \in S : y <= Max(S)
<1> DEFINE T == {k \in 0 .. n : n - k \in S}
<1>1. T \in SUBSET Nat /\ \A y \in S : n - y \in T
  OBVIOUS
<1>2. T # {}
  BY <1>1
<1>3. Min(T) \in T /\ \A k \in T : Min(T) <= k
  BY <1>1, <1>2, MinIs
<1>4. PICK x : x = n - Min(T)
  OBVIOUS
<1>5. x \in S /\ \A y \in S : x >= y
  BY <1>1, <1>3, <1>4
<1> QED BY <1>5 DEF Max

-----------------------------------------------------------------------------
(* Paragraphs.                                                             *)
LEMMA TextIs ==
  ASSUME TypeOK
  PROVE  text \in Seq(Rune) /\ Len(text) \in Nat /\ DOMAIN text = 1 .. Len(text)
<1>1. text \in Seq(Rune)
  BY ChunkerAssumption DEF TypeOK
<1> QED BY <1>1

\* A paragraph ends before the separator, of which every rune is blank.
LEMMA Separated ==
  ASSUME TypeOK, Going
  PROVE  /\ ParagraphEnd \in rest - 1 .. Len(text) /\ NextParagraph \in Nat
         /\ NextParagraph >= ParagraphEnd + 3
         /\ Gap(ParagraphEnd, NextParagraph)
<1>1. Len(text) \in Nat /\ DOMAIN text = 1 .. Len(text) /\ rest \in Nat \ {0}
      /\ rest <= Len(text) + 1
  BY TextIs DEF TypeOK, Going
<1>2. /\ HalfEnd \in rest - 1 .. Len(text)
      /\ \A i \in DOMAIN text : HalfEnd < i /\ i < HalfEnd + 3 => isSpace(text[i])
  <2>1. CASE BlankLines = {}
    BY <1>1, <2>1 DEF HalfEnd
  <2>2. CASE BlankLines # {}
    <3>1. BlankLines \in SUBSET Nat
      BY <1>1 DEF BlankLines
    <3>2. PICK e \in BlankLines : e = Min(BlankLines)
      BY <2>2, <3>1, MinIs
    <3>3. e \in rest .. Len(text) - 1 /\ text[e] = "newline" /\ text[e + 1] = "newline"
      BY <3>2 DEF BlankLines
    <3>4. HalfEnd = e - 1
      BY <2>2, <3>2 DEF HalfEnd
    <3> QED BY <1>1, <3>3, <3>4 DEF isSpace
  <2> QED BY <2>1, <2>2
<1>3. CASE PaddedLines = {}
  <2>1. ParagraphEnd = HalfEnd /\ NextParagraph = HalfEnd + 3
    BY <1>3 DEF ParagraphEnd, NextParagraph
  <2> QED BY <1>1, <1>2, <2>1 DEF Gap
<1>4. CASE PaddedLines # {}
  <2>1. PaddedLines \in SUBSET Nat
    BY <1>1, <1>2 DEF PaddedLines
  <2>2. PICK e \in PaddedLines : e = Min(PaddedLines)
    BY <1>4, <2>1, MinIs
  <2>3. /\ e \in rest .. HalfEnd - 2 /\ text[e] = "newline"
        /\ text[e + 1] = "space" /\ text[e + 2] = "newline"
    BY <2>2 DEF PaddedLines
  <2>4. ParagraphEnd = e - 1 /\ NextParagraph = e + 3
    BY <1>4, <2>2 DEF ParagraphEnd, NextParagraph
  <2> QED BY <1>1, <1>2, <2>3, <2>4 DEF Gap, isSpace
<1> QED BY <1>3, <1>4

\* Trimming takes blank runes only, and leaves nothing of a blank paragraph.
LEMMA TrimmedIs ==
  ASSUME TypeOK, Going
  PROVE  /\ Size(Paragraph) \in Nat
         /\ Size(Paragraph) = 0 => \A i \in rest .. ParagraphEnd : isSpace(text[i])
         /\ Size(Paragraph) > 0 =>
              /\ Paragraph \in Spans
              /\ rest <= Paragraph.from /\ Paragraph.to <= ParagraphEnd
              /\ \A i \in rest .. ParagraphEnd :
                   i < Paragraph.from \/ i > Paragraph.to => isSpace(text[i])
<1> DEFINE ink == {i \in rest .. ParagraphEnd : ~isSpace(text[i])}
<1>1. ParagraphEnd \in rest - 1 .. Len(text) /\ Len(text) \in Nat /\ rest \in Nat \ {0}
  BY Separated, TextIs DEF TypeOK
<1>2. Paragraph = IF ink = {} THEN Span(rest, rest - 1) ELSE Span(Min(ink), Max(ink))
  BY DEF Paragraph, Trim, Span
<1>3. CASE ink = {}
  <2>1. Size(Paragraph) = 0
    BY <1>1, <1>2, <1>3 DEF Span, Size
  <2> QED BY <1>3, <2>1
<1>4. CASE ink # {}
  <2>1. ink \in SUBSET Nat /\ \A y \in ink : y <= Len(text)
    BY <1>1
  <2>2. PICK a \in ink, b \in ink :
          a = Min(ink) /\ b = Max(ink) /\ \A y \in ink : a <= y /\ y <= b
    BY <1>1, <1>4, <2>1, MinIs, MaxIs
  <2>3. a \in Nat /\ b \in Nat /\ rest <= a /\ a <= b /\ b <= ParagraphEnd
    BY <1>1, <2>2
  <2>4. Paragraph = Span(a, b)
    BY <1>2, <1>4, <2>2
  <2>5. Paragraph.from = a /\ Paragraph.to = b /\ Paragraph = [from |-> a, to |-> b]
    BY <2>4 DEF Span
  <2>6. Paragraph \in Spans
    BY <1>1, <2>3, <2>5 DEF Spans
  <2>7. Size(Paragraph) \in Nat /\ Size(Paragraph) > 0
    BY <2>3, <2>5 DEF Size
  <2>8. \A i \in rest .. ParagraphEnd : i < a \/ i > b => isSpace(text[i])
    BY <1>1, <2>2, <2>3
  <2> QED BY <2>3, <2>5, <2>6, <2>7, <2>8
<1> QED BY <1>3, <1>4
-----------------------------------------------------------------------------
(* Settings, and what a piece added at the end must satisfy.               *)
LEMMA Normalised ==
  ASSUME NEW s \in Settings
  PROVE  LET c == NewChunker(s[1], s[2])
         IN  /\ c.size \in Nat \ {0} /\ c.over \in 0 .. c.size - 1
             /\ c.over <= c.size \div 2
<1> DEFINE m == IF s[1] <= 0 THEN 800 ELSE s[1]
           o == IF s[2] < 0 \/ s[2] >= m THEN m \div 5 ELSE s[2]
<1>1. s[1] \in Int /\ s[2] \in Int
  BY ChunkerAssumption
<1>2. m \in Nat \ {0}
  BY <1>1
<1>3. m \div 5 \in 0 .. m - 1
  BY <1>2
<1>4. o \in 0 .. m - 1
  BY <1>1, <1>2, <1>3
<1>5. NewChunker(s[1], s[2]).size = m /\ NewChunker(s[1], s[2]).over = o
  BY DEF NewChunker
<1>6. NewChunker(s[1], s[2]).over <= NewChunker(s[1], s[2]).size \div 2
  BY ChunkerAssumption
<1> QED BY <1>2, <1>4, <1>5, <1>6

\* A piece keeps the invariant's part about chunks if it fits, ends after the
\* last one, and begins behind a gap or shares the overlap.
LEMMA PieceAdded ==
  ASSUME ChunkerInv, NEW c \in Spans, chunks' = Append(chunks, c),
         UNCHANGED <<text, maxSize, overlap>>, Size(c) <= maxSize,
         chunks # <<>> =>
           /\ LastChunk.to < c.to
           /\ c.from = LastChunk.to - overlap + 1 \/ Gap(LastChunk.to, c.from)
  PROVE  /\ chunks' \in Seq(Spans) /\ chunks' # <<>> /\ LastChunk' = c
         /\ PiecesFit' /\ SharedOverlap'
         /\ \A i \in DOMAIN text :
              Within(i, chunks) \/ (c.from <= i /\ i <= c.to) => Within(i, chunks')
<1> DEFINE n == Len(chunks)
<1>1. chunks \in Seq(Spans) /\ n \in Nat /\ DOMAIN chunks = 1 .. n
  BY DEF ChunkerInv, TypeOK
<1>2. /\ chunks' \in Seq(Spans) /\ Len(chunks') = n + 1 /\ DOMAIN chunks' = 1 .. n + 1
      /\ chunks'[n + 1] = c /\ \A k \in 1 .. n : chunks'[k] = chunks[k]
  BY <1>1
<1>3. chunks' # <<>> /\ LastChunk' = c
  BY <1>1, <1>2 DEF LastChunk
<1>4. n > 0 => chunks # <<>> /\ LastChunk = chunks[n]
  BY <1>1 DEF LastChunk
<1>5. PiecesFit'
  <2> SUFFICES ASSUME NEW k \in 1 .. n + 1
               PROVE  /\ Size(chunks'[k]) <= maxSize
                      /\ k > 1 => chunks'[k].to > chunks'[k - 1].to
    BY <1>2 DEF PiecesFit, Size
  <2>1. CASE k = n + 1
    <3>1. Size(chunks'[k]) <= maxSize
      BY <1>2, <2>1
    <3>2. ASSUME k > 1 PROVE chunks'[k].to > chunks'[k - 1].to
      <4>1. n > 0 /\ k - 1 = n /\ n \in 1 .. n
        BY <1>1, <2>1, <3>2
      <4>2. chunks'[k - 1] = LastChunk /\ LastChunk.to < c.to /\ LastChunk \in Spans
        BY <1>1, <1>2, <1>4, <4>1
      <4> QED BY <1>2, <2>1, <4>2 DEF Spans
    <3> QED BY <3>1, <3>2
  <2>2. CASE k \in 1 .. n
    <3>1. PiecesFit /\ chunks'[k] = chunks[k] /\ (k > 1 => chunks'[k - 1] = chunks[k - 1])
      BY <1>1, <1>2, <2>2 DEF ChunkerInv
    <3> QED BY <1>1, <2>2, <3>1 DEF PiecesFit
  <2> QED BY <1>1, <2>1, <2>2
<1>6. SharedOverlap'
  <2> SUFFICES ASSUME NEW k \in 1 .. n + 1, k > 1
               PROVE  \/ chunks'[k].from = chunks'[k - 1].to - overlap + 1
                      \/ /\ chunks'[k].from > chunks'[k - 1].to + 1
                         /\ \A i \in chunks'[k - 1].to + 1 .. chunks'[k].from - 1 : isSpace(text[i])
    BY <1>2 DEF SharedOverlap, isSpace
  <2>1. CASE k = n + 1
    <3>1. n > 0 /\ k - 1 = n /\ n \in 1 .. n
      BY <1>1, <2>1
    <3>2. chunks'[k - 1] = LastChunk /\ chunks'[k] = c /\ LastChunk \in Spans
      BY <1>1, <1>2, <1>4, <3>1, <2>1
    <3>3. CASE c.from = LastChunk.to - overlap + 1
      BY <3>2, <3>3
    <3>4. CASE Gap(LastChunk.to, c.from)
      <4>1. LastChunk.to \in 1 .. Len(text) /\ c.from \in 1 .. Len(text)
            /\ DOMAIN text = 1 .. Len(text) /\ Len(text) \in Nat
        BY <3>2, TextIs DEF Spans, ChunkerInv
      <4>2. ASSUME NEW i \in LastChunk.to + 1 .. c.from - 1 PROVE isSpace(text[i])
        <5>1. i \in DOMAIN text /\ LastChunk.to < i /\ i < c.from
          BY <4>1
        <5> QED BY <3>4, <5>1 DEF Gap
      <4> QED BY <3>2, <3>4, <4>1, <4>2 DEF Gap
    <3> QED BY <1>4, <3>1, <3>3, <3>4
  <2>2. CASE k \in 1 .. n
    <3>1. SharedOverlap /\ chunks'[k] = chunks[k] /\ chunks'[k - 1] = chunks[k - 1]
      BY <1>1, <1>2, <2>2 DEF ChunkerInv
    <3> QED BY <1>1, <2>2, <3>1 DEF SharedOverlap
  <2> QED BY <1>1, <2>1, <2>2
<1>7. ASSUME NEW i \in DOMAIN text, Within(i, chunks) \/ (c.from <= i /\ i <= c.to)
      PROVE  Within(i, chunks')
  <2>1. CASE Within(i, chunks)
    BY <1>1, <1>2, <2>1 DEF Within
  <2>2. CASE c.from <= i /\ i <= c.to
    BY <1>1, <1>2, <2>2 DEF Within
  <2> QED BY <1>7, <2>1, <2>2
<1> QED BY <1>2, <1>3, <1>5, <1>6, <1>7

-----------------------------------------------------------------------------
(* The invariant: at first, and after each iteration.                      *)
LEMMA ChunkerStarts == Init => ChunkerInv
<1> SUFFICES ASSUME Init PROVE ChunkerInv
  OBVIOUS
<1>1. /\ maxSize \in Nat \ {0} /\ overlap \in 0 .. maxSize - 1
      /\ overlap <= maxSize \div 2
  <2>1. PICK s \in Settings : maxSize = NewChunker(s[1], s[2]).size
                              /\ overlap = NewChunker(s[1], s[2]).over
    BY DEF Init
  <2> QED BY <2>1, Normalised
<1>2. TypeOK
  BY <1>1 DEF Init, TypeOK
<1>3. Contiguous
  BY DEF Init, Contiguous
<1>4. PiecesFit /\ SharedOverlap
  BY DEF Init, PiecesFit, SharedOverlap
<1>5. NothingLost
  BY TextIs, <1>2 DEF Init, NothingLost
<1> QED BY <1>1, <1>2, <1>3, <1>4, <1>5 DEF ChunkerInv

\* What is known of a paragraph before it is skipped, kept or cut.
LEMMA ParagraphIs ==
  ASSUME ChunkerInv, Going
  PROVE  /\ rest \in Nat \ {0} /\ NextParagraph \in Nat \ {0} /\ rest < NextParagraph
         /\ Size(Paragraph) \in Nat
         /\ chunks # <<>> => LastChunk \in Spans /\ Gap(LastChunk.to, rest)
         /\ Size(Paragraph) = 0 =>
              \A i \in DOMAIN text : rest <= i /\ i < NextParagraph => isSpace(text[i])
         /\ Size(Paragraph) > 0 =>
              /\ Paragraph \in Spans /\ rest <= Paragraph.from
              /\ Gap(Paragraph.to, NextParagraph)
              /\ chunks # <<>> => Gap(LastChunk.to, Paragraph.from)
              /\ \A i \in DOMAIN text : rest <= i /\ i < NextParagraph =>
                   isSpace(text[i]) \/ (Paragraph.from <= i /\ i <= Paragraph.to)
<1>1. TypeOK /\ DOMAIN text = 1 .. Len(text) /\ Len(text) \in Nat /\ rest \in Nat \ {0}
  BY TextIs DEF ChunkerInv, TypeOK
<1>2. /\ ParagraphEnd \in rest - 1 .. Len(text) /\ NextParagraph \in Nat
      /\ NextParagraph >= ParagraphEnd + 3
      /\ \A i \in DOMAIN text : ParagraphEnd < i /\ i < NextParagraph => isSpace(text[i])
  BY <1>1, Separated DEF Gap
<1>3. Size(Paragraph) \in Nat
  BY <1>1, TrimmedIs
<1>4. ASSUME chunks # <<>>
      PROVE  LastChunk \in Spans /\ LastChunk.to \in Nat /\ Gap(LastChunk.to, rest)
  <2>1. chunks \in Seq(Spans) /\ inside = <<>>
    BY <1>1 DEF TypeOK, Going
  <2>2. LastChunk \in Spans
    BY <1>4, <2>1 DEF LastChunk
  <2>3. Gap(LastChunk.to, rest)
    BY <1>4, <2>1 DEF ChunkerInv, Contiguous
  <2> QED BY <2>2, <2>3, <1>1 DEF Spans
<1>5. ASSUME Size(Paragraph) = 0, NEW i \in DOMAIN text, rest <= i, i < NextParagraph
      PROVE  isSpace(text[i])
  <2>1. \A j \in rest .. ParagraphEnd : isSpace(text[j])
    BY <1>1, <1>5, TrimmedIs
  <2> QED BY <1>1, <1>2, <1>5, <2>1
<1>6. ASSUME Size(Paragraph) > 0
      PROVE  /\ Paragraph \in Spans /\ rest <= Paragraph.from
             /\ Gap(Paragraph.to, NextParagraph)
             /\ chunks # <<>> => Gap(LastChunk.to, Paragraph.from)
             /\ \A i \in DOMAIN text : rest <= i /\ i < NextParagraph =>
                  isSpace(text[i]) \/ (Paragraph.from <= i /\ i <= Paragraph.to)
  <2>1. /\ Paragraph \in Spans /\ rest <= Paragraph.from /\ Paragraph.to <= ParagraphEnd
        /\ \A i \in rest .. ParagraphEnd :
             i < Paragraph.from \/ i > Paragraph.to => isSpace(text[i])
    BY <1>1, <1>6, TrimmedIs
  <2>2. /\ Paragraph.from \in Nat /\ Paragraph.to \in Nat
        /\ Paragraph.from <= Paragraph.to
    BY <1>1, <2>1 DEF Spans
  <2>3. ASSUME NEW i \in DOMAIN text, rest <= i, i < NextParagraph
        PROVE  isSpace(text[i]) \/ (Paragraph.from <= i /\ i <= Paragraph.to)
    <3>1. CASE i <= ParagraphEnd
      BY <1>1, <1>2, <2>1, <2>2, <2>3, <3>1
    <3>2. CASE i > ParagraphEnd
      BY <1>1, <1>2, <2>3, <3>2
    <3> QED BY <1>1, <1>2, <3>1, <3>2
  <2>4. Gap(Paragraph.to, NextParagraph)
    BY <1>1, <1>2, <2>1, <2>2, <2>3 DEF Gap
  <2>5. ASSUME chunks # <<>> PROVE Gap(LastChunk.to, Paragraph.from)
    <3>1. LastChunk.to \in Nat /\ Gap(LastChunk.to, rest)
      BY <1>4, <2>5
    <3>2. ASSUME NEW i \in DOMAIN text, LastChunk.to < i, i < Paragraph.from
          PROVE  isSpace(text[i])
      BY <1>1, <1>2, <2>1, <2>2, <2>3, <3>1, <3>2 DEF Gap
    <3> QED BY <1>1, <2>1, <2>2, <3>1, <3>2 DEF Gap
  <2> QED BY <2>1, <2>3, <2>4, <2>5
<1> QED BY <1>1, <1>2, <1>3, <1>4, <1>5, <1>6

LEMMA SkipBlankKeeps == ASSUME ChunkerInv, SkipBlank PROVE ChunkerInv'
<1>1. Going /\ Size(Paragraph) = 0 /\ rest' = NextParagraph
      /\ UNCHANGED <<text, maxSize, overlap, inside, start, chunks>>
  BY DEF SkipBlank
<1>2. /\ rest \in Nat \ {0} /\ NextParagraph \in Nat \ {0} /\ rest < NextParagraph
      /\ chunks # <<>> => LastChunk \in Spans /\ Gap(LastChunk.to, rest)
      /\ \A i \in DOMAIN text : rest <= i /\ i < NextParagraph => isSpace(text[i])
  BY <1>1, ParagraphIs
<1>3. /\ TypeOK /\ PiecesFit /\ NothingLost /\ SharedOverlap /\ inside = <<>>
      /\ DOMAIN text = 1 .. Len(text) /\ Len(text) \in Nat
  BY <1>1, TextIs DEF ChunkerInv, Going
<1>4. TypeOK'
  BY <1>1, <1>2, <1>3 DEF TypeOK, Spans
<1>5. Contiguous'
  <2>1. ASSUME chunks # <<>> PROVE Gap(LastChunk.to, NextParagraph)
    <3>1. LastChunk.to \in Nat /\ Gap(LastChunk.to, rest)
      BY <1>2, <1>3, <2>1 DEF Spans
    <3> QED BY <1>2, <1>3, <3>1 DEF Gap
  <2> QED BY <1>1, <1>3, <2>1 DEF Contiguous, Gap, LastChunk, isSpace
<1>6. PiecesFit' /\ SharedOverlap'
  BY <1>1, <1>3 DEF PiecesFit, SharedOverlap, Size, isSpace
<1>7. NothingLost'
  <2>1. ASSUME NEW i \in DOMAIN text
        PROVE  isSpace(text[i]) \/ Within(i, chunks) \/ NextParagraph <= i
    BY <1>2, <1>3, <2>1 DEF NothingLost
  <2> QED BY <1>1, <2>1 DEF NothingLost, Within, isSpace
<1>8. (overlap <= maxSize \div 2)'
  BY <1>1 DEF ChunkerInv
<1> QED BY <1>4, <1>5, <1>6, <1>7, <1>8 DEF ChunkerInv

LEMMA KeepShortKeeps == ASSUME ChunkerInv, KeepShort PROVE ChunkerInv'
<1>1. /\ Going /\ Size(Paragraph) \in 1 .. maxSize /\ rest' = NextParagraph
      /\ chunks' = Append(chunks, Paragraph)
      /\ UNCHANGED <<text, maxSize, overlap, inside, start>>
  BY DEF KeepShort
<1>2. TypeOK /\ maxSize \in Nat /\ inside = <<>> /\ NothingLost
  BY <1>1 DEF ChunkerInv, Going, TypeOK
<1>3. Size(Paragraph) > 0 /\ Size(Paragraph) <= maxSize
  BY <1>1, <1>2
<1>4. /\ rest \in Nat \ {0} /\ NextParagraph \in Nat \ {0} /\ rest < NextParagraph
      /\ chunks # <<>> => LastChunk \in Spans /\ Gap(LastChunk.to, Paragraph.from)
      /\ Paragraph \in Spans /\ Gap(Paragraph.to, NextParagraph)
      /\ \A i \in DOMAIN text : rest <= i /\ i < NextParagraph =>
           isSpace(text[i]) \/ (Paragraph.from <= i /\ i <= Paragraph.to)
  BY <1>1, <1>3, ParagraphIs
<1>5. DOMAIN text = 1 .. Len(text) /\ Len(text) \in Nat
  BY <1>2, TextIs
<1>6. chunks # <<>> => LastChunk.to < Paragraph.to
  BY <1>4, <1>5 DEF Gap, Spans
<1>7. /\ chunks' \in Seq(Spans) /\ chunks' # <<>> /\ LastChunk' = Paragraph
      /\ PiecesFit' /\ SharedOverlap'
      /\ \A i \in DOMAIN text :
           Within(i, chunks) \/ (Paragraph.from <= i /\ i <= Paragraph.to) => Within(i, chunks')
  BY <1>1, <1>3, <1>4, <1>6, PieceAdded
<1>8. TypeOK'
  BY <1>1, <1>2, <1>4, <1>7 DEF TypeOK, Spans
<1>9. Contiguous'
  <2>1. Gap(LastChunk', NextParagraph) \in BOOLEAN /\ inside' = <<>>
        /\ LastChunk'.to = Paragraph.to
    BY <1>1, <1>2, <1>7 DEF Gap
  <2> QED BY <1>1, <1>4, <2>1 DEF Contiguous, Gap, isSpace
<1>10. NothingLost'
  <2>1. ASSUME NEW i \in DOMAIN text
        PROVE  isSpace(text[i]) \/ Within(i, chunks') \/ NextParagraph <= i
    BY <1>2, <1>4, <1>5, <1>7, <2>1 DEF NothingLost
  <2> QED BY <1>1, <2>1 DEF NothingLost, Within, isSpace
<1>11. (overlap <= maxSize \div 2)'
  BY <1>1 DEF ChunkerInv
<1> QED BY <1>7, <1>8, <1>9, <1>10, <1>11 DEF ChunkerInv

LEMMA BeginLongKeeps == ASSUME ChunkerInv, BeginLong PROVE ChunkerInv'
<1>1. /\ Going /\ Size(Paragraph) > maxSize /\ rest' = NextParagraph
      /\ inside' = <<Paragraph>> /\ start' = Paragraph.from
      /\ UNCHANGED <<text, maxSize, overlap, chunks>>
  BY DEF BeginLong
<1>2. /\ TypeOK /\ maxSize \in Nat \ {0} /\ inside = <<>>
      /\ NothingLost /\ PiecesFit /\ SharedOverlap
  BY <1>1 DEF ChunkerInv, Going, TypeOK
<1>3. Size(Paragraph) > 0
  BY <1>1, <1>2, ParagraphIs
<1>4. /\ rest \in Nat \ {0} /\ NextParagraph \in Nat \ {0} /\ rest < NextParagraph
      /\ chunks # <<>> => Gap(LastChunk.to, Paragraph.from)
      /\ Paragraph \in Spans /\ Gap(Paragraph.to, NextParagraph)
      /\ \A i \in DOMAIN text : rest <= i /\ i < NextParagraph =>
           isSpace(text[i]) \/ (Paragraph.from <= i /\ i <= Paragraph.to)
  BY <1>1, <1>3, ParagraphIs
<1>5. DOMAIN text = 1 .. Len(text) /\ Len(text) \in Nat
  BY <1>2, TextIs
<1>6. inside' # <<>> /\ inside'[1] = Paragraph /\ Len(inside') = 1
      /\ inside' \in Seq(Spans)
  BY <1>1, <1>4
<1>7. Paragraph.from \in Paragraph.from .. Paragraph.to
  BY <1>4, <1>5 DEF Spans
<1>8. TypeOK'
  BY <1>1, <1>2, <1>4, <1>6, <1>7 DEF TypeOK, Spans
<1>9. Contiguous'
  BY <1>1, <1>4, <1>6 DEF Contiguous, Gap, LastChunk, isSpace
<1>10. PiecesFit' /\ SharedOverlap'
  BY <1>1, <1>2 DEF PiecesFit, SharedOverlap, Size, isSpace
<1>11. NothingLost'
  <2>1. ASSUME NEW i \in DOMAIN text
        PROVE  \/ isSpace(text[i]) \/ Within(i, chunks) \/ NextParagraph <= i
               \/ Paragraph.from <= i /\ i <= Paragraph.to
    BY <1>2, <1>4, <1>5, <2>1 DEF NothingLost
  <2> QED BY <1>1, <1>6, <2>1 DEF NothingLost, Within, isSpace
<1>12. (overlap <= maxSize \div 2)'
  BY <1>1 DEF ChunkerInv
<1> QED BY <1>8, <1>9, <1>10, <1>11, <1>12 DEF ChunkerInv

\* What is known inside a long paragraph before a piece is cut off it.
LEMMA InsideIs ==
  ASSUME ChunkerInv, inside # <<>>
  PROVE  /\ TypeOK /\ NothingLost /\ Gap(inside[1].to, rest)
         /\ Len(text) \in Nat /\ DOMAIN text = 1 .. Len(text)
         /\ inside \in Seq(Spans) /\ inside[1] \in Spans /\ rest \in Nat \ {0}
         /\ inside[1].from \in Nat /\ inside[1].to \in 1 .. Len(text)
         /\ start \in Nat \ {0} /\ inside[1].from <= start /\ start <= inside[1].to
         /\ maxSize \in Nat \ {0} /\ overlap \in Nat /\ overlap < maxSize
         /\ overlap <= maxSize \div 2
         /\ chunks # <<>> =>
              /\ LastChunk \in Spans /\ LastChunk.to \in Nat /\ LastChunk.to < inside[1].to
              /\ start = LastChunk.to - overlap + 1 \/ Gap(LastChunk.to, start)
<1>1. TypeOK /\ NothingLost /\ overlap <= maxSize \div 2 /\ Contiguous
      /\ Len(text) \in Nat /\ DOMAIN text = 1 .. Len(text)
  BY TextIs DEF ChunkerInv
<1>2. inside \in Seq(Spans) /\ inside[1] \in Spans /\ chunks \in Seq(Spans)
  BY <1>1 DEF TypeOK
<1>3. /\ inside[1].from \in 1 .. Len(text) /\ inside[1].to \in 1 .. Len(text)
      /\ start \in inside[1].from .. inside[1].to
      /\ maxSize \in Nat \ {0} /\ overlap \in 0 .. maxSize - 1 /\ rest \in Nat \ {0}
  BY <1>1, <1>2 DEF TypeOK, Spans
<1>4. start \in Nat \ {0} /\ inside[1].from <= start /\ start <= inside[1].to
      /\ overlap \in Nat /\ overlap < maxSize
  BY <1>1, <1>3
<1>5. ASSUME chunks # <<>>
      PROVE  /\ LastChunk \in Spans /\ LastChunk.to \in Nat /\ LastChunk.to < inside[1].to
             /\ start = LastChunk.to - overlap + 1 \/ Gap(LastChunk.to, start)
  <2>1. LastChunk \in Spans
    BY <1>2, <1>5 DEF LastChunk
  <2>2. LastChunk.to \in Nat
    BY <1>1, <2>1 DEF Spans
  <2>3. \/ Gap(LastChunk.to, start)
        \/ start = LastChunk.to - overlap + 1 /\ LastChunk.to < inside[1].to
    BY <1>1, <1>5 DEF Contiguous
  <2>4. Gap(LastChunk.to, start) => LastChunk.to < inside[1].to
    BY <1>1, <1>3, <1>4, <2>2 DEF Gap
  <2> QED BY <2>1, <2>2, <2>3, <2>4
<1>6. Gap(inside[1].to, rest)
  BY <1>1 DEF Contiguous
<1> QED BY <1>1, <1>2, <1>3, <1>4, <1>5, <1>6

\* The walk back for the end of a sentence stops in the second half of the
\* window, so what the overlap takes back leaves the loop at least one rune on,
\* and the piece holds a rune the one before it does not.
LEMMA CutIs ==
  ASSUME ChunkerInv, inside # <<>>, WindowEnd < inside[1].to
  PROVE  /\ Cut \in Nat /\ start <= Cut /\ Cut <= WindowEnd
         /\ Cut - overlap + 1 > start
         /\ chunks # <<>> => LastChunk.to < Cut
<1> DEFINE half == maxSize \div 2
<1>1. /\ start \in Nat \ {0} /\ maxSize \in Nat \ {0} /\ overlap \in Nat
      /\ overlap < maxSize /\ overlap <= half /\ half \in Nat /\ half < maxSize
  BY InsideIs
<1>2. WindowEnd \in Nat /\ WindowEnd = start + maxSize - 1
  BY <1>1 DEF WindowEnd
<1>3. Cut \in Nat /\ Cut <= WindowEnd /\ (Cut >= start + half \/ Cut = WindowEnd)
  <2>1. CASE SentenceEnds = {}
    BY <1>2, <2>1 DEF Cut
  <2>2. CASE SentenceEnds # {}
    <3>1. SentenceEnds \in SUBSET Nat /\ \A i \in SentenceEnds : i >= start + half /\ i <= WindowEnd
      BY <1>1, <1>2 DEF SentenceEnds
    <3>2. Cut \in SentenceEnds
      BY <1>2, <2>2, <3>1, MaxIs DEF Cut
    <3> QED BY <3>1, <3>2
  <2> QED BY <2>1, <2>2
<1>4. start <= Cut /\ Cut - overlap + 1 > start
  BY <1>1, <1>2, <1>3
<1>5. ASSUME chunks # <<>> PROVE LastChunk.to < Cut
  <2>1. LastChunk.to \in Nat /\ (start = LastChunk.to - overlap + 1 \/ Gap(LastChunk.to, start))
    BY <1>5, InsideIs
  <2>2. CASE start = LastChunk.to - overlap + 1
    BY <1>1, <1>4, <1>3, <1>2, <2>1, <2>2
  <2>3. CASE Gap(LastChunk.to, start)
    BY <1>1, <1>3, <1>4, <2>1, <2>3 DEF Gap
  <2> QED BY <2>1, <2>2, <2>3
<1> QED BY <1>3, <1>4, <1>5

LEMMA CutPieceKeeps == ASSUME ChunkerInv, CutPiece PROVE ChunkerInv'
<1> DEFINE c == Span(start, Cut)
<1>1. /\ inside # <<>> /\ WindowEnd < inside[1].to
      /\ chunks' = Append(chunks, c)
      /\ start' = Max({Cut - overlap + 1, inside[1].from})
      /\ UNCHANGED <<text, maxSize, overlap, rest, inside>>
  BY DEF CutPiece
<1>2. /\ TypeOK /\ NothingLost /\ Gap(inside[1].to, rest)
      /\ Len(text) \in Nat /\ DOMAIN text = 1 .. Len(text)
      /\ inside[1].from \in Nat /\ inside[1].to \in 1 .. Len(text)
      /\ start \in Nat \ {0} /\ inside[1].from <= start /\ start <= inside[1].to
      /\ maxSize \in Nat \ {0} /\ overlap \in Nat
      /\ chunks # <<>> => start = LastChunk.to - overlap + 1 \/ Gap(LastChunk.to, start)
  BY <1>1, InsideIs
<1>3. /\ Cut \in Nat /\ start <= Cut /\ Cut <= WindowEnd
      /\ Cut - overlap + 1 > start
      /\ chunks # <<>> => LastChunk.to < Cut
  BY <1>1, CutIs
<1>4. WindowEnd = start + maxSize - 1
  BY DEF WindowEnd
<1>5. c.from = start /\ c.to = Cut /\ c = [from |-> start, to |-> Cut]
  BY DEF Span
<1>6. c \in Spans /\ Size(c) <= maxSize
  BY <1>1, <1>2, <1>3, <1>4, <1>5 DEF Spans, Size
<1>7. start' = Cut - overlap + 1 /\ start' \in inside[1].from .. inside[1].to
  <2> DEFINE b == Cut - overlap + 1
             S == {b, inside[1].from}
  <2>1. b \in Nat /\ inside[1].from < b /\ S \in SUBSET Nat /\ S # {}
        /\ \A y \in S : y <= b
    BY <1>2, <1>3
  <2>2. Max(S) \in S /\ b <= Max(S)
    <3> HIDE DEF b
    <3>1. b \in S
      OBVIOUS
    <3> HIDE DEF S
    <3> QED BY <2>1, <3>1, MaxIs
  <2>3. Max(S) = b
    BY <2>1, <2>2
  <2> QED BY <1>1, <1>2, <1>3, <1>4, <2>1, <2>3
<1>8. /\ chunks' \in Seq(Spans) /\ chunks' # <<>> /\ LastChunk' = c
      /\ PiecesFit' /\ SharedOverlap'
      /\ \A i \in DOMAIN text :
           Within(i, chunks) \/ (c.from <= i /\ i <= c.to) => Within(i, chunks')
  <2> HIDE DEF c
  <2> QED BY <1>1, <1>2, <1>3, <1>5, <1>6, PieceAdded
<1>9. TypeOK'
  BY <1>1, <1>2, <1>7, <1>8 DEF TypeOK, Spans
<1>10. Contiguous'
  <2>1. LastChunk'.to = Cut /\ Cut < inside[1].to
    BY <1>1, <1>2, <1>3, <1>4, <1>5, <1>8
  <2> QED BY <1>1, <1>2, <1>7, <1>8, <2>1 DEF Contiguous, Gap, isSpace
<1>11. NothingLost'
  <2>1. ASSUME NEW i \in DOMAIN text
        PROVE  \/ isSpace(text[i]) \/ Within(i, chunks') \/ rest <= i
               \/ start' <= i /\ i <= inside[1].to
    <3>1. i \in Nat /\ start' <= Cut + 1
      BY <1>2, <1>3, <1>7
    <3>2. start <= i /\ i < start' => Within(i, chunks')
      BY <1>2, <1>3, <1>5, <1>8, <3>1, <1>7
    <3>3. \/ isSpace(text[i]) \/ Within(i, chunks) \/ rest <= i
          \/ start <= i /\ i <= inside[1].to
      BY <1>2 DEF NothingLost
    <3>4. i < start' \/ start' <= i
      BY <1>2, <1>7, <3>1
    <3> QED BY <1>8, <3>2, <3>3, <3>4
  <2> QED BY <1>1, <2>1 DEF NothingLost, Within, isSpace
<1>12. (overlap <= maxSize \div 2)'
  BY <1>1 DEF ChunkerInv
<1> QED BY <1>8, <1>9, <1>10, <1>11, <1>12 DEF ChunkerInv

LEMMA LastPieceKeeps == ASSUME ChunkerInv, LastPiece PROVE ChunkerInv'
<1> DEFINE c == Span(start, inside[1].to)
<1>1. /\ inside # <<>> /\ WindowEnd >= inside[1].to
      /\ chunks' = Append(chunks, c) /\ inside' = <<>>
      /\ UNCHANGED <<text, maxSize, overlap, rest, start>>
  BY DEF LastPiece
<1>2. /\ TypeOK /\ NothingLost /\ Gap(inside[1].to, rest)
      /\ Len(text) \in Nat /\ DOMAIN text = 1 .. Len(text)
      /\ inside[1].to \in 1 .. Len(text)
      /\ start \in Nat \ {0} /\ start <= inside[1].to
      /\ maxSize \in Nat \ {0}
      /\ chunks # <<>> =>
           /\ LastChunk.to < inside[1].to
           /\ start = LastChunk.to - overlap + 1 \/ Gap(LastChunk.to, start)
  BY <1>1, InsideIs
<1>3. c.from = start /\ c.to = inside[1].to /\ c = [from |-> start, to |-> inside[1].to]
  BY DEF Span
<1>4. c \in Spans /\ Size(c) <= maxSize
  BY <1>1, <1>2, <1>3 DEF Spans, Size, WindowEnd
<1>5. /\ chunks' \in Seq(Spans) /\ chunks' # <<>> /\ LastChunk' = c
      /\ PiecesFit' /\ SharedOverlap'
      /\ \A i \in DOMAIN text :
           Within(i, chunks) \/ (c.from <= i /\ i <= c.to) => Within(i, chunks')
  <2> HIDE DEF c
  <2> QED BY <1>1, <1>2, <1>3, <1>4, PieceAdded
<1>6. TypeOK'
  BY <1>1, <1>2, <1>5 DEF TypeOK, Spans
<1>7. Contiguous'
  <2>1. LastChunk'.to = inside[1].to
    BY <1>3, <1>5
  <2> QED BY <1>1, <1>2, <2>1 DEF Contiguous, Gap, isSpace
<1>8. NothingLost'
  <2>1. ASSUME NEW i \in DOMAIN text
        PROVE  isSpace(text[i]) \/ Within(i, chunks') \/ rest <= i
    BY <1>1, <1>2, <1>3, <1>5, <2>1 DEF NothingLost
  <2> QED BY <1>1, <2>1 DEF NothingLost, Within, isSpace
<1>9. (overlap <= maxSize \div 2)'
  BY <1>1 DEF ChunkerInv
<1> QED BY <1>5, <1>6, <1>7, <1>8, <1>9 DEF ChunkerInv

-----------------------------------------------------------------------------
(* Whatever the text and the settings, the invariant holds throughout:     *)
(* Split and splitLong never break it, in any iteration of either loop.    *)
THEOREM ChunkerInvariant == Spec => []ChunkerInv
<1>1. Init => ChunkerInv
  BY ChunkerStarts
<1>2. ChunkerInv /\ [Next]_vars => ChunkerInv'
  <2> SUFFICES ASSUME ChunkerInv, [Next]_vars PROVE ChunkerInv'
    OBVIOUS
  <2>1. CASE SkipBlank
    BY <2>1, SkipBlankKeeps
  <2>2. CASE KeepShort
    BY <2>2, KeepShortKeeps
  <2>3. CASE BeginLong
    BY <2>3, BeginLongKeeps
  <2>4. CASE CutPiece
    BY <2>4, CutPieceKeeps
  <2>5. CASE LastPiece
    BY <2>5, LastPieceKeeps
  <2>6. CASE UNCHANGED vars
    BY <2>6 DEF ChunkerInv, TypeOK, Spans, Contiguous, Gap, LastChunk, PiecesFit,
                NothingLost, SharedOverlap, Within, Size, isSpace, vars
  <2> QED BY <2>1, <2>2, <2>3, <2>4, <2>5, <2>6 DEF Next
<1> QED BY <1>1, <1>2, PTL DEF Spec

\* The locals of Split and splitLong keep their types: no piece reaches out of
\* the text, none is empty, and a cut begins inside its paragraph.
THEOREM ChunkerTypeCorrect == Spec => []TypeOK
<1>1. ChunkerInv => TypeOK
  BY DEF ChunkerInv
<1> QED BY <1>1, ChunkerInvariant, PTL

\* No piece of any document is larger than the chunker's size, and each reaches
\* further than the one before, wherever splitLong's walk back stops.
THEOREM PiecesAlwaysFit == Spec => []PiecesFit
<1>1. ChunkerInv => PiecesFit
  BY DEF ChunkerInv
<1> QED BY <1>1, ChunkerInvariant, PTL

\* Split loses no rune that is not blank: when it returns, each is in a piece.
THEOREM NothingIsLost == Spec => []NothingLost
<1>1. ChunkerInv => NothingLost
  BY DEF ChunkerInv
<1> QED BY <1>1, ChunkerInvariant, PTL

\* Two pieces cut from one paragraph share exactly the configured overlap, and
\* pieces of different paragraphs share nothing.
THEOREM OverlapIsShared == Spec => []SharedOverlap
<1>1. ChunkerInv => SharedOverlap
  BY DEF ChunkerInv
<1> QED BY <1>1, ChunkerInvariant, PTL

\* Why Split returns: an iteration comes to a later paragraph, ends a long one,
\* or moves the next piece of it on. All three are bounded by the text. (That
\* they cannot go on for ever is the induction the property Terminates leaves
\* to the model checker.)
Advances ==
  \/ rest' > rest
  \/ rest' = rest /\ inside # <<>> /\ inside' = <<>>
  \/ rest' = rest /\ inside # <<>> /\ inside' = inside
     /\ start < start' /\ start' <= inside[1].to

THEOREM SplitAdvances == Spec => [][Advances]_vars
<1>1. ChunkerInv /\ ChunkerInv' /\ [Next]_vars => [Advances]_vars
  <2> SUFFICES ASSUME ChunkerInv, ChunkerInv', Next PROVE Advances
    BY DEF vars
  <2>1. CASE SkipBlank \/ KeepShort \/ BeginLong
    BY <2>1, ParagraphIs DEF SkipBlank, KeepShort, BeginLong, Advances
  <2>2. CASE CutPiece
    <3>1. /\ inside # <<>> /\ WindowEnd < inside[1].to
          /\ start' = Max({Cut - overlap + 1, inside[1].from})
          /\ rest' = rest /\ inside' = inside
      BY <2>2 DEF CutPiece
    <3>2. /\ Cut - overlap + 1 > start /\ Cut \in Nat
          /\ start \in Nat /\ inside[1].from \in Nat /\ overlap \in Nat
          /\ inside[1].from <= start
      BY <3>1, CutIs, InsideIs
    <3>3. start' \in inside[1].from .. inside[1].to
      BY <3>1 DEF ChunkerInv, TypeOK
    <3>4. PICK b : b = Cut - overlap + 1
      OBVIOUS
    <3>5. b \in Nat /\ start < b /\ inside[1].from < b
      BY <3>2, <3>4
    <3>6. {b, inside[1].from} \in SUBSET Nat /\ \A y \in {b, inside[1].from} : y <= b
      BY <3>2, <3>5
    <3>7. b <= Max({b, inside[1].from})
      BY <3>5, <3>6, MaxIs
    <3>8. start < start'
      BY <3>1, <3>2, <3>3, <3>4, <3>5, <3>7
    <3> QED BY <3>1, <3>3, <3>8, InsideIs DEF Advances
  <2>3. CASE LastPiece
    BY <2>3 DEF LastPiece, Advances
  <2> QED BY <2>1, <2>2, <2>3 DEF Next
<1> QED BY <1>1, ChunkerInvariant, PTL DEF Spec
=============================================================================
