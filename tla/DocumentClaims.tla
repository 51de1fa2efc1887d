--------------------------- MODULE DocumentClaims ---------------------------
(***************************************************************************)
(* Sentences of the repository about documents, stated as properties of    *)
(* the pipeline.  The pipeline, as it is coded, keeps none of them: each   *)
(* has a run whose counterexample shows where the code and the sentence    *)
(* part.                                                                   *)
(***************************************************************************)
EXTENDS DocumentPipeline

\* service/document.go:111, "Enqueue failure is recorded on the document so
\* the user can see the problem and retry, rather than leaving it forever
\* pending": a pending document always has somebody who will change that.
RefusalIsRecorded == \A d \in Doc : Waiting(d) => Attended(d)

\* README.md:73, "the document's status flips pending -> indexing -> indexed
\* (or failed, retried 3x)", also for a document that is indexed again: with
\* nothing going wrong at all, it settles.
ReindexSettles == \A d \in Doc : Live(d) ~> []Settled(d)

\* queue/memory.go:13, "Stop cancels the context so in-flight workers finish
\* their current job and exit": after a graceful shutdown no document is left
\* half way.
StopFinishesCurrentJobs ==
  \A d \in Doc : http = "off" /\ Live(d) => status[d] # "indexing"

\* service/document.go:142, "Order matters: delete chunks first (FK), then the
\* file, then the record": a deleted document has no chunks left, which the
\* vector search (repository/document.go:95) would otherwise still return.
DeletedHasNoChunks == \A d \in deleted : ~Retrievable(d)
=============================================================================
