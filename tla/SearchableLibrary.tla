-------------------------- MODULE SearchableLibrary --------------------------
(***************************************************************************)
(* What the document pipeline promises to the people who use a knowledge   *)
(* base, with no process, queue, request or failure in sight:              *)
(*                                                                         *)
(*   - a document is listed only while its file can be downloaded;         *)
(*   - the chunk count it advertises is covered by chunks a search finds,  *)
(*     and one shown as complete advertises all of its pieces;             *)
(*   - its chunks become searchable all together;                          *)
(*   - it is first withdrawn from the search, and only then may it lose    *)
(*     its file or leave the list, for good.                               *)
(*                                                                         *)
(* Every way of breaking a promise is a step this specification does not   *)
(* have, so a crash or an error in the middle of a request must leave the  *)
(* promises standing too.  Withdrawing is the only step that shrinks what  *)
(* is searchable; after it, counts promise nothing.                        *)
(***************************************************************************)
EXTENDS Naturals

CONSTANTS Document, PiecesOf

VARIABLES
  file,        \* documents whose file is stored
  unborn,      \* documents never listed so far
  listed,      \* documents a user sees
  complete,    \* documents shown as completely indexed
  advertised,  \* the chunk count shown with each document
  searchable,  \* how many chunks of each document a search can find
  withdrawn    \* documents taken out of the search, once or more

libraryVars == <<file, unborn, listed, complete, advertised, searchable, withdrawn>>

Init ==
  /\ file = {}
  /\ unborn = Document
  /\ listed = {}
  /\ complete = {}
  /\ advertised = [d \in Document |-> 0]
  /\ searchable = [d \in Document |-> 0]
  /\ withdrawn = {}

Store(d) ==
  /\ d \in unborn
  /\ file' = file \cup {d}
  /\ UNCHANGED <<unborn, listed, complete, advertised, searchable, withdrawn>>

\* A file may go before its document was ever listed, or once it is withdrawn.
Drop(d) ==
  /\ d \in unborn \cup withdrawn
  /\ file' = file \ {d}
  /\ UNCHANGED <<unborn, listed, complete, advertised, searchable, withdrawn>>

List(d) ==
  /\ d \in unborn \cap file
  /\ unborn' = unborn \ {d}
  /\ listed' = listed \cup {d}
  /\ UNCHANGED <<file, complete, advertised, searchable, withdrawn>>

Publish(d) ==
  /\ d \notin unborn
  /\ searchable' = [searchable EXCEPT ![d] = @ + PiecesOf[d]]
  /\ UNCHANGED <<file, unborn, listed, complete, advertised, withdrawn>>

Honest(d, n, whole) ==
  d \notin withdrawn => n <= searchable[d] /\ (whole => n = PiecesOf[d])

\* Show d with some count, as complete or not.
Advertise(d) ==
  /\ d \in listed
  /\ \E whole \in BOOLEAN :
       /\ complete' = IF whole THEN complete \cup {d} ELSE complete \ {d}
       /\ Honest(d, advertised'[d], whole)
  /\ advertised' = [advertised EXCEPT ![d] = advertised'[d]]
  /\ UNCHANGED <<file, unborn, listed, searchable, withdrawn>>

Withdraw(d) ==
  /\ d \notin unborn
  /\ withdrawn' = withdrawn \cup {d}
  /\ searchable' = [searchable EXCEPT ![d] = 0]
  /\ UNCHANGED <<file, unborn, listed, complete, advertised>>

Unlist(d) ==
  /\ d \in withdrawn
  /\ listed' = listed \ {d}
  /\ complete' = complete \ {d}
  /\ UNCHANGED <<file, unborn, advertised, searchable, withdrawn>>

Next ==
  \E d \in Document :
    \/ Store(d) \/ Drop(d) \/ List(d) \/ Publish(d)
    \/ Advertise(d) \/ Withdraw(d) \/ Unlist(d)

Spec == Init /\ [][Next]_libraryVars
=============================================================================
