------------------------------ MODULE MCChunker ------------------------------
EXTENDS Chunker

\* Every text of at most MaxLen runes: blank paragraphs, padded blank lines,
\* runs of full stops and paragraphs of all sizes about those of MCSettings.
CONSTANT MaxLen
MCTexts == UNION {[1 .. n -> Rune] : n \in 0 .. MaxLen}

\* No overlap, the most an odd and an even size bear, a size of one, and
\* three that NewChunker corrects.
MCSettings == {<<3, 0>>, <<3, 1>>, <<4, 2>>, <<1, 0>>, <<4, 4>>, <<5, -1>>, <<0, 9>>}
=============================================================================
