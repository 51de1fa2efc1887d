------------------------------- MODULE Chunker -------------------------------
(***************************************************************************)
(* How the text of a document becomes pieces to embed: Split divides it    *)
(* into paragraphs, keeps the short ones whole and lets splitLong cut the  *)
(* others. An iteration of a loop, of either, is one step here.            *)
(*                                                                         *)
(* A text is a sequence of kinds of runes; pieces and paragraphs are       *)
(* ranges [from, to] of positions in it, so that what a piece contains and *)
(* what two pieces share can be told.                                      *)
(***************************************************************************)
EXTENDS Integers, Sequences, FiniteSetsExt, SequencesExt

CONSTANTS
  Texts,     \* texts the parsers may return, "\r\n" already made "\n"
  Settings   \* the arguments of NewChunker, as pairs

VARIABLES
  text, maxSize, overlap,
  rest,    \* where the paragraphs begin that Split has not come to yet
  inside,  \* the paragraph splitLong is in, as a sequence of at most one
  start,   \* where its next piece begins
  chunks   \* the result so far

vars == <<text, maxSize, overlap, rest, inside, start, chunks>>

Rune == {"letter", "stop", "space", "newline"}
isSpace(r) == r \in {"space", "newline"}
isSentenceEnd(r) == r \in {"stop", "newline"}

Span(a, b) == [from |-> a, to |-> b]
Size(r) == r.to - r.from + 1

\* A size that is not positive and an overlap that does not fit are replaced.
NewChunker(size, over) ==
  LET m == IF size <= 0 THEN 800 ELSE size
  IN  [size |-> m, over |-> IF over < 0 \/ over >= m THEN m \div 5 ELSE over]

\* The loop of splitLong advances only if the overlap is at most half of the
\* size. The server's 800 and 120 are such; NewChunker accepts others as well.
ASSUME ChunkerAssumption ==
  /\ Texts \subseteq Seq(Rune)
  /\ Settings \subseteq Int \X Int
  /\ \A s \in Settings :
       LET c == NewChunker(s[1], s[2]) IN c.over <= c.size \div 2

\* What strings.Split(t[r], sep) returns.
SplitRange(t, sep, r) ==
  LET n == Len(sep)
      from[s \in r.from .. r.to + 1] ==
        LET hits == {i \in s .. r.to - n + 1 : SubSeq(t, i, i + n - 1) = sep}
        IN  IF hits = {} THEN <<Span(s, r.to)>>
            ELSE <<Span(s, Min(hits) - 1)>> \o from[Min(hits) + n]
  IN  from[r.from]

splitParagraphs(t) ==
  LET halves == SplitRange(t, <<"newline", "newline">>, Span(1, Len(t)))
  IN  FlattenSeq([k \in DOMAIN halves |->
                    SplitRange(t, <<"newline", "space", "newline">>, halves[k])])

\* The paragraph that begins at rest, found without those after it: it ends with
\* its half, before the first blank line, or before a padded one in the half.
BlankLines == {i \in rest .. Len(text) - 1 : text[i] = "newline" /\ text[i + 1] = "newline"}
HalfEnd == IF BlankLines = {} THEN Len(text) ELSE Min(BlankLines) - 1

MutantPaddedLinesAnywhere ==
  {i \in rest .. Len(text) - 2 :
     text[i] = "newline" /\ text[i + 1] = "space" /\ text[i + 2] = "newline"}

PaddedLines ==
  {i \in rest .. HalfEnd - 2 :
     text[i] = "newline" /\ text[i + 1] = "space" /\ text[i + 2] = "newline"}
ParagraphEnd == IF PaddedLines = {} THEN HalfEnd ELSE Min(PaddedLines) - 1
NextParagraph == IF PaddedLines = {} THEN HalfEnd + 3 ELSE Min(PaddedLines) + 3

\* strings.TrimSpace; nothing of a blank range is left.
Trim(r) ==
  LET ink == {i \in r.from .. r.to : ~isSpace(text[i])}
  IN  IF ink = {} THEN Span(r.from, r.from - 1) ELSE Span(Min(ink), Max(ink))
Paragraph == Trim(Span(rest, ParagraphEnd))

Init ==
  /\ text \in Texts
  /\ \E s \in Settings :
       LET c == NewChunker(s[1], s[2])
       IN  maxSize = c.size /\ overlap = c.over
  /\ rest = 1
  /\ inside = <<>>
  /\ start = 1
  /\ chunks = <<>>

-----------------------------------------------------------------------------
Going == inside = <<>> /\ rest <= Len(text) + 1

SkipBlank ==
  /\ Going /\ Size(Paragraph) = 0
  /\ rest' = NextParagraph
  /\ UNCHANGED <<text, maxSize, overlap, inside, start, chunks>>

MutantKeepShortKeepsBlank ==
  /\ Going /\ Size(Paragraph) \in 0 .. maxSize
  /\ chunks' = Append(chunks, Paragraph)
  /\ rest' = NextParagraph
  /\ UNCHANGED <<text, maxSize, overlap, inside, start>>

KeepShort ==
  /\ Going /\ Size(Paragraph) \in 1 .. maxSize
  /\ chunks' = Append(chunks, Paragraph)
  /\ rest' = NextParagraph
  /\ UNCHANGED <<text, maxSize, overlap, inside, start>>

BeginLong ==
  /\ Going /\ Size(Paragraph) > maxSize
  /\ inside' = <<Paragraph>>
  /\ start' = Paragraph.from
  /\ rest' = NextParagraph
  /\ UNCHANGED <<text, maxSize, overlap, chunks>>

\* The last rune the window allows, and those in its second half at which a
\* sentence ends; the piece ends at the last of them, or is cut hard.
MutantWindowEndWide == start + maxSize
WindowEnd == start + maxSize - 1
SentenceEnds == {i \in start + maxSize \div 2 .. WindowEnd : isSentenceEnd(text[i])}
Cut == IF SentenceEnds = {} THEN WindowEnd ELSE Max(SentenceEnds)

MutantCutPieceSkips ==
  /\ inside # <<>>
  /\ WindowEnd < inside[1].to
  /\ chunks' = Append(chunks, Span(start, Cut))
  /\ start' = Cut + overlap
  /\ UNCHANGED <<text, maxSize, overlap, rest, inside>>

MutantCutPieceFromWindow ==
  /\ inside # <<>>
  /\ WindowEnd < inside[1].to
  /\ chunks' = Append(chunks, Span(start, Cut))
  /\ start' = Max({WindowEnd - overlap + 1, inside[1].from})
  /\ UNCHANGED <<text, maxSize, overlap, rest, inside>>

\* A piece that would advance by a single rune is left out, and so is the step.
MutantCutPieceSpins ==
  /\ inside # <<>>
  /\ WindowEnd < inside[1].to
  /\ Cut - overlap > start
  /\ chunks' = Append(chunks, Span(start, Cut))
  /\ start' = Max({Cut - overlap + 1, inside[1].from})
  /\ UNCHANGED <<text, maxSize, overlap, rest, inside>>

CutPiece ==
  /\ inside # <<>>
  /\ WindowEnd < inside[1].to
  /\ chunks' = Append(chunks, Span(start, Cut))
  /\ start' = Max({Cut - overlap + 1, inside[1].from})
  /\ UNCHANGED <<text, maxSize, overlap, rest, inside>>

LastPiece ==
  /\ inside # <<>>
  /\ WindowEnd >= inside[1].to
  /\ chunks' = Append(chunks, Span(start, inside[1].to))
  /\ inside' = <<>>
  /\ UNCHANGED <<text, maxSize, overlap, rest, start>>

Next == SkipBlank \/ KeepShort \/ BeginLong \/ CutPiece \/ LastPiece

\* The goroutine that splits keeps running.
Spec == Init /\ [][Next]_vars /\ WF_vars(Next)

Returned == inside = <<>> /\ rest > Len(text) + 1
-----------------------------------------------------------------------------
\* Everything has its type: ranges lie in the text, the chunker's settings are
\* the normalised ones, and no chunk is empty or only a stretch of a blank
\* paragraph (the fields of Chunker and the locals of Split and splitLong).
Spans == {r \in [from : 1 .. Len(text), to : 1 .. Len(text)] : r.from <= r.to}
TypeOK ==
  /\ text \in Texts
  /\ maxSize \in Nat \ {0} /\ overlap \in 0 .. maxSize - 1
  /\ rest \in Nat \ {0} /\ chunks \in Seq(Spans)
  /\ inside \in Seq(Spans) /\ Len(inside) <= 1
  /\ inside # <<>> => start \in inside[1].from .. inside[1].to

\* The paragraphs Split comes to are, one after the other, those that splitting
\* at blank lines and then at padded ones gives (splitParagraphs).
ParagraphsAsSplit ==
  Going =>
    LET all == splitParagraphs(text)
    IN  \E k \in DOMAIN all :
          /\ all[k] = Span(rest, ParagraphEnd)
          /\ IF k = Len(all) THEN NextParagraph > Len(text) + 1
             ELSE NextParagraph = all[k + 1].from

\* No piece is larger than the embedder was promised, and each ends after the
\* one before it: splitLong never stores a piece that adds nothing, whatever
\* sentence ends its walk back finds.
PiecesFit ==
  \A k \in DOMAIN chunks :
    /\ Size(chunks[k]) <= maxSize
    /\ k > 1 => chunks[k].to > chunks[k - 1].to

\* Nothing that was written is lost between paragraphs, at a cut or at the end
\* of the text: each rune that is not blank is in a piece or still ahead.
Within(i, ranges) == \E k \in DOMAIN ranges : ranges[k].from <= i /\ i <= ranges[k].to
NothingLost ==
  \A i \in DOMAIN text :
    \/ isSpace(text[i])
    \/ Within(i, chunks)
    \/ rest <= i
    \/ inside # <<>> /\ start <= i /\ i <= inside[1].to

\* Context survives a cut: a piece begins in a later paragraph than the one
\* before it, where only blank runes lie between them, or shares with it
\* exactly the configured overlap.
SharedOverlap ==
  \A k \in DOMAIN chunks : k > 1 =>
    LET before == chunks[k - 1]
    IN  \/ chunks[k].from = before.to - overlap + 1
        \/ /\ chunks[k].from > before.to + 1
           /\ \A i \in before.to + 1 .. chunks[k].from - 1 : isSpace(text[i])

\* Split returns: the loop of splitLong always comes to the paragraph's end.
Terminates == <>Returned
=============================================================================
