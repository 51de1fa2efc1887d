------------------------------- MODULE Storage -------------------------------
(***************************************************************************)
(* The object store the documents' files live in, backend/internal/storage *)
(* (local directory or MinIO bucket behind one interface), as the set of   *)
(* keys at which something is stored.                                      *)
(***************************************************************************)
CONSTANT Key

VARIABLE objects

StorageInit == objects = {}

Save(k) == objects' = objects \cup {k}

\* A failed Save may leave a truncated object: the local store creates the
\* file before it copies, and does not remove it when the copy fails.
SaveFails(k) == objects' \in {objects, objects \cup {k}}

\* Deleting what is not there succeeds.
DeleteObject(k) == objects' = objects \ {k}

Stored(k) == k \in objects
=============================================================================
