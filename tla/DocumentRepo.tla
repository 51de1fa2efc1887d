---------------------------- MODULE DocumentRepo ----------------------------
(***************************************************************************)
(* The documents and chunks tables, backend/internal/repository/           *)
(* document.go, as the operations the services call on them.  Each call is *)
(* one SQL statement (CreateChunks: one transaction), so it is one step; a *)
(* call that returns an error is taken to have changed nothing.            *)
(*                                                                         *)
(* Deleting a document is GORM's soft delete: the row stays, hidden from   *)
(* every query built from the model.  Chunks carry no deleted_at and are   *)
(* really removed; the vector search joins the tables in raw SQL and so    *)
(* does not see that a document is deleted.                                *)
(***************************************************************************)
EXTENDS Naturals

CONSTANTS
  Doc,     \* documents, by the uuid their upload draws
  Pieces   \* how many pieces the chunker cuts each document's text into

ASSUME RepoAssumption == Pieces \in [Doc -> Nat]

VARIABLES
  status,    \* documents.status, "none" while there is no row
  count,     \* documents.chunk_count
  deleted,   \* documents whose deleted_at is set
  chunks     \* how many rows of the chunks table belong to each document

repoVars == <<status, count, deleted, chunks>>

DocStatus == {"pending", "indexing", "indexed", "failed"}

RepoInit ==
  /\ status = [d \in Doc |-> "none"]
  /\ count = [d \in Doc |-> 0]
  /\ deleted = {}
  /\ chunks = [d \in Doc |-> 0]

RepoTypeOK ==
  /\ status \in [Doc -> DocStatus \cup {"none"}]
  /\ count \in [Doc -> Nat]
  /\ deleted \subseteq {d \in Doc : status[d] # "none"}
  /\ chunks \in [Doc -> Nat]

\* What FindByID, ListByKB and the WHERE clause of every update see.
Live(d) == status[d] # "none" /\ d \notin deleted

\* What RetrieveByVector can return chunks of: deleted_at is not consulted.
Retrievable(d) == status[d] # "none" /\ chunks[d] > 0

Create(d) ==
  /\ status' = [status EXCEPT ![d] = "pending"]
  /\ UNCHANGED <<count, deleted, chunks>>

\* Updating a row that is gone affects no row and is no error.
MutantUpdateDropsCount(d, s, n) ==
  /\ status' = IF Live(d) THEN [status EXCEPT ![d] = s] ELSE status
  /\ UNCHANGED <<count, deleted, chunks>>

UpdateStatus(d, s, n) ==
  /\ status' = IF Live(d) THEN [status EXCEPT ![d] = s] ELSE status
  /\ count' = IF Live(d) THEN [count EXCEPT ![d] = n] ELSE count
  /\ UNCHANGED <<deleted, chunks>>

CreateChunks(d) ==
  /\ chunks' = [chunks EXCEPT ![d] = @ + Pieces[d]]
  /\ UNCHANGED <<status, count, deleted>>

DeleteChunks(d) ==
  /\ chunks' = [chunks EXCEPT ![d] = 0]
  /\ UNCHANGED <<status, count, deleted>>

Delete(d) ==
  /\ deleted' = IF status[d] = "none" THEN deleted ELSE deleted \cup {d}
  /\ UNCHANGED <<status, count, chunks>>
=============================================================================
