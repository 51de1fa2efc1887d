--------------------------- MODULE KnowledgeBases ---------------------------
(***************************************************************************)
(* Knowledge bases, edited by several clients at once: each handler of the *)
(* API call by call, and the page that lists the bases and submits edits   *)
(* made to the copy it has loaded.                                         *)
(***************************************************************************)
EXTENDS Integers, Accounts

CONSTANTS
  Browser,    \* the clients that are a page; the others call the API themselves
  Base,       \* the ids rows of knowledge_bases may get
  Name, Description,  \* what may be typed; only a description may be empty
  MaxWrites   \* bound: writes to one row

ASSUME BasesAssumption == Browser \subseteq Client /\ "" \notin Name /\ MaxWrites \in Nat \ {0}

VARIABLES
  bases,    \* the table; "version" counts the writes to a row, for properties
  editing,  \* what each call of Update holds
  list      \* the rows each client's page has loaded

baseVars == <<bases, editing, list>>
vars == <<accountVars, baseVars>>

Init == AccountsInit /\ bases = <<>> /\ editing = [c \in Client |-> {}]
                     /\ list = [c \in Browser |-> <<>>]

Nothing == [name |-> "", description |-> ""]
Put(b, row) == bases' = [x \in DOMAIN bases \cup {b} |-> IF x = b THEN row ELSE bases[x]]
Alive == {b \in DOMAIN bases : bases[b].alive}

MutantKBFindByIDUnscoped(b) == IF b \in DOMAIN bases THEN {bases[b]} ELSE {}
\* Deleted rows stay in the table; gorm's queries leave them out.
KBFindByID(b) == IF b \in Alive THEN {bases[b]} ELSE {}

-----------------------------------------------------------------------------
KBCreate(c, b, name, description) ==
  /\ Authenticate(c) # {} /\ b \notin DOMAIN bases
  /\ Put(b, [name |-> name, description |-> description, alive |-> TRUE, version |-> 1])
  /\ UNCHANGED <<editing, list>>

\* Update reads the row, changes the fields that were sent and are not empty,
\* and saves all of it. "edited" and "seen" are for properties: the fields the
\* user means to change and the version he has before him.
UpdateReads(c, b, sent, edited, seen) ==
  /\ Authenticate(c) # {} /\ editing[c] = {}
  /\ \E row \in KBFindByID(b) :
       editing' = [editing EXCEPT ![c] =
         {[base |-> b, row |-> row, sent |-> sent, edited |-> edited, seen |-> seen]}]
  /\ UNCHANGED <<bases, list>>

MutantChangedUnguarded(e) ==
  [e.row EXCEPT !.name = e.sent.name, !.description = e.sent.description]

Changed(e) ==
  [e.row EXCEPT !.name = IF e.sent.name = "" THEN @ ELSE e.sent.name,
                !.description = IF e.sent.description = "" THEN @ ELSE e.sent.description]

\* gorm's Save: an UPDATE of the row that is not deleted or, if that changes
\* none, an INSERT that on conflict writes every column, deleted_at too.
UpdateSaves(c) ==
  /\ \E e \in editing[c] :
       /\ bases[e.base].version < MaxWrites
       /\ Put(e.base, [Changed(e) EXCEPT !.alive = TRUE,
                                        !.version = bases[e.base].version + 1])
  /\ editing' = [editing EXCEPT ![c] = {}]
  /\ UNCHANGED list

UpdateFails(c) ==
  /\ editing[c] # {}
  /\ editing' = [editing EXCEPT ![c] = {}]
  /\ UNCHANGED <<bases, list>>

\* A soft delete, by administrators; it finds the row or does nothing.
KBDelete(c, b) ==
  /\ RequireRole(c, {"admin"})
  /\ b \in Alive /\ bases[b].version < MaxWrites
  /\ Put(b, [bases[b] EXCEPT !.alive = FALSE, !.version = @ + 1])
  /\ UNCHANGED <<editing, list>>

MutantLoadUnscoped(c) ==
  /\ c \in Browser /\ Authenticate(c) # {}
  /\ list' = [list EXCEPT ![c] = bases]
  /\ UNCHANGED <<bases, editing>>

\* load: the page shows what the list answered, until it loads again.
Load(c) ==
  /\ c \in Browser /\ Authenticate(c) # {}
  /\ list' = [list EXCEPT ![c] = [b \in Alive |-> bases[b]]]
  /\ UNCHANGED <<bases, editing>>

\* The API takes one field and leaves the other out.
Patch(c, b, field, value) ==
  /\ c \notin Browser /\ value # ""
  /\ \E row \in KBFindByID(b) :
       UpdateReads(c, b, [Nothing EXCEPT ![field] = value], {field}, row.version)

\* submit: the form was filled from the list, one of its fields was changed and
\* both are sent.
Submit(c, b, field, value) ==
  /\ c \in Browser /\ b \in DOMAIN list[c] /\ list[c][b][field] # value
  /\ LET form == [name |-> list[c][b].name, description |-> list[c][b].description]
     IN  UpdateReads(c, b, [form EXCEPT ![field] = value], {field}, list[c][b].version)

EditBase(c, b, field, value) == Patch(c, b, field, value) \/ Submit(c, b, field, value)

BasesNext ==
  \E c \in Client :
    \/ \E b \in Base, n \in Name, d \in Description : KBCreate(c, b, n, d)
    \/ \E b \in Base, n \in Name : EditBase(c, b, "name", n)
    \/ \E b \in Base, d \in Description : EditBase(c, b, "description", d)
    \/ UpdateSaves(c)
    \/ UpdateFails(c)
    \/ \E b \in Base : KBDelete(c, b)
    \/ Load(c)

Next ==
  \/ AccountsNext /\ UNCHANGED baseVars
  \/ BasesNext /\ UNCHANGED accountVars

Spec == Init /\ [][Next]_vars

-----------------------------------------------------------------------------
\* Everything has its type: of the tables, and that what a call or a page holds
\* was read from a row that was not deleted.
Row == [name : Name, description : Description, alive : BOOLEAN, version : 1 .. MaxWrites]
TypeOK ==
  /\ AccountsTypeOK
  /\ DOMAIN bases \subseteq Base
  /\ \A b \in DOMAIN bases : bases[b] \in Row
  /\ \A c \in Client :
       \A e \in editing[c] : e.base \in DOMAIN bases /\ e.row \in Row /\ e.row.alive
  /\ \A c \in Browser :
       \A b \in DOMAIN list[c] : list[c][b] \in Row /\ list[c][b].alive

\* An edit changes what the user meant to change and nothing else, if nobody
\* wrote to the base since he saw it, though the page sends the whole form and
\* Save writes the whole row. A field that was emptied keeps its value, as the
\* code has it; edits that overlap may lose each other's fields.
Saves(c) == editing[c] # {} /\ editing'[c] = {} /\ bases' # bases
SerialUpdateIsExact ==
  [][\A c \in Client : Saves(c) =>
       \A e \in editing[c] : e.seen = bases[e.base].version =>
         \A f \in DOMAIN e.sent :
           bases'[e.base][f] = IF f \in e.edited /\ e.sent[f] # "" THEN e.sent[f]
                               ELSE bases[e.base][f]]_vars

\* A deleted base stays deleted for everybody who looks for it afterwards: only
\* an edit that had read the row before the delete brings it back (Save turns
\* into an INSERT that overwrites deleted_at).
RevivedOnlyByOverlap ==
  [][\A b \in DOMAIN bases \ Alive : bases'[b].alive =>
       \E c \in Client : Saves(c) /\ \E e \in editing[c] :
         e.base = b /\ e.row.alive /\ e.row.version < bases[b].version]_vars
=============================================================================
