------------------------- MODULE MCDocumentPipeline -------------------------
(***************************************************************************)
(* Small instances of the document pipeline.                               *)
(***************************************************************************)
EXTENDS DocumentClaims, TLC

CONSTANTS d1, d2, h1, h2, w1, w2

OneDoc == {d1}
TwoDocs == {d1, d2}
OneHandler == {h1}
TwoHandlers == {h1, h2}
OneWorker == {w1}
TwoWorkers == {w1, w2}

\* A document of two chunks, and a blank one (no text, so no chunk).
PiecesOfOne == d1 :> 2
PiecesOfTwo == d1 :> 2 @@ d2 :> 0

Symmetric == Permutations(TwoHandlers) \cup Permutations(TwoWorkers)

\* Everything that can go wrong in any combination; and, for the properties
\* that need the database or the clients to behave, all that they allow.
Anything == {Mishaps, {"storage", "extract", "client"}, {"db", "extract"}}
Uploads == {{"storage", "extract"}, {"storage", "client", "stop"}}

Nothing == {{}}
ClientsLeave == {{"client"}}
OperatorStops == {{"stop"}}
=============================================================================
