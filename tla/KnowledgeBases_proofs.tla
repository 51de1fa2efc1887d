----------------------- MODULE KnowledgeBases_proofs -----------------------
(***************************************************************************)
(* Theorems about accounts and knowledge bases, for any clients, accounts, *)
(* names and number of writes. The two properties of edits follow from     *)
(* Remembered: what a call or a page has read is as old as its version     *)
(* tells, so that one with the present version is the present row.         *)
(***************************************************************************)
EXTENDS KnowledgeBases, TLAPS

Field == {"name", "description"}
Form == [name : Name \cup {""}, description : Description \cup {""}]
Edit == [base : Base, row : Row, sent : Form, edited : SUBSET Field, seen : 1 .. MaxWrites]

\* The shapes behind TypeOK, with what an edit holds besides the row it read.
Shapes ==
  /\ bases \in [DOMAIN bases -> Row] /\ DOMAIN bases \subseteq Base
  /\ editing \in [Client -> SUBSET Edit]
  /\ \A c \in Client : \A e \in editing[c] : e.base \in DOMAIN bases /\ e.row.alive
  /\ list \in [Browser -> UNION {[B -> Row] : B \in SUBSET Base}]
  /\ \A c \in Browser : \A b \in DOMAIN list[c] : b \in DOMAIN bases /\ list[c][b].alive

\* A row that was read has been written since or is still the row.
Current(row, now) == row.version <= now.version /\ (row.version = now.version => row = now)

Remembered ==
  /\ \A c \in Client : \A e, f \in editing[c] : e = f
  /\ \A c \in Client : \A e \in editing[c] :
       /\ Current(e.row, bases[e.base]) /\ e.seen <= e.row.version
       /\ e.seen = bases[e.base].version =>
            \A f \in Field \ e.edited : e.sent[f] \in {"", bases[e.base][f]}
  /\ \A c \in Browser : \A b \in DOMAIN list[c] : Current(list[c][b], bases[b])

-----------------------------------------------------------------------------
(* Accounts.                                                               *)
AccountsInv ==
  AccountsTypeOK /\ DOMAIN session = Client /\ OneAccountPerEmail /\ SessionOpensAgain

LEMMA AccountsInvInit == AccountsInit => AccountsInv
  BY DEF AccountsInit, AccountsInv, AccountsTypeOK, OneAccountPerEmail, SessionOpensAgain

\* A session that is granted opens a row of users.
LEMMA GrantOpens ==
  ASSUME AccountsInv, NEW c \in Client, NEW u \in User, u \in users', users \subseteq users',
         Grant(c, u)
  PROVE  /\ \A d \in Client : session'[d] # NoSession =>
              session'[d] \in [id : Account, email : Email, password : Password]
         /\ SessionOpensAgain'
         /\ DOMAIN session' = Client
  BY DEF AccountsInv, AccountsTypeOK, SessionOpensAgain, Grant, User

LEMMA AccountsInvStep == AccountsInv /\ (AccountsNext \/ UNCHANGED accountVars) => AccountsInv'
<1> SUFFICES ASSUME AccountsInv, AccountsNext \/ UNCHANGED accountVars PROVE AccountsInv'
  OBVIOUS
<1>1. CASE UNCHANGED accountVars
  BY <1>1 DEF AccountsInv, AccountsTypeOK, OneAccountPerEmail, SessionOpensAgain, accountVars
<1> SUFFICES ASSUME AccountsNext PROVE AccountsInv'
  BY <1>1
<1> PICK c \in Client :
      \/ \E e \in Email, p \in Password, r \in Role :
           RegisterLooks(c, [email |-> e, password |-> p, role |-> r])
      \/ \E id \in Account : RegisterInserts(c, id)
      \/ \E e \in Email, p \in Password : Login(c, e, p)
      \/ RegisterFails(c)
      \/ TokenEnds(c)
  BY DEF AccountsNext
<1>2. ASSUME NEW e \in Email, NEW p \in Password, NEW r \in Role,
             RegisterLooks(c, [email |-> e, password |-> p, role |-> r])
      PROVE  AccountsInv'
  BY <1>2 DEF AccountsInv, AccountsTypeOK, OneAccountPerEmail, SessionOpensAgain, RegisterLooks
<1>3. ASSUME NEW id \in Account, RegisterInserts(c, id) PROVE AccountsInv'
  <2>1. PICK a \in signing[c] :
          LET row == [id |-> id, email |-> a.email, password |-> a.password, role |-> a.role]
          IN  /\ UserCreate(row)
              /\ Grant(c, row) \/ UNCHANGED session
              /\ signing' = [signing EXCEPT ![c] = {}]
    BY <1>3 DEF RegisterInserts
  <2>2. PICK row \in User :
          /\ UserCreate(row)
          /\ Grant(c, row) \/ UNCHANGED session
          /\ signing' = [signing EXCEPT ![c] = {}]
    BY <2>1 DEF AccountsInv, AccountsTypeOK, User
  <2>3. users' = users \cup {row} /\ users' \subseteq User
    BY <2>2 DEF UserCreate, AccountsInv, AccountsTypeOK
  <2>4. OneAccountPerEmail'
    BY <2>2, <2>3 DEF OneAccountPerEmail, AccountsInv, UserCreate, FindByEmail
  <2>5. CASE Grant(c, row)
    BY <2>2, <2>3, <2>4, <2>5, GrantOpens DEF AccountsInv, AccountsTypeOK
  <2>6. CASE UNCHANGED session
    BY <2>2, <2>3, <2>4, <2>6 DEF AccountsInv, AccountsTypeOK, SessionOpensAgain
  <2> QED BY <2>2, <2>5, <2>6
<1>4. ASSUME NEW e \in Email, NEW p \in Password, Login(c, e, p) PROVE AccountsInv'
  <2>1. PICK u \in users : Grant(c, u)
    BY <1>4 DEF Login, FindByEmail
  <2>2. UNCHANGED <<users, signing>> /\ u \in User
    BY <1>4 DEF Login, AccountsInv, AccountsTypeOK
  <2> QED BY <2>1, <2>2, GrantOpens DEF AccountsInv, AccountsTypeOK, OneAccountPerEmail
<1>5. ASSUME RegisterFails(c) PROVE AccountsInv'
  BY <1>5 DEF AccountsInv, AccountsTypeOK, OneAccountPerEmail, SessionOpensAgain, RegisterFails
<1>6. ASSUME TokenEnds(c) PROVE AccountsInv'
  BY <1>6 DEF AccountsInv, AccountsTypeOK, OneAccountPerEmail, SessionOpensAgain, TokenEnds
<1> QED BY <1>2, <1>3, <1>4, <1>5, <1>6

-----------------------------------------------------------------------------
(* Knowledge bases.                                                        *)
LEMMA VersionsAreNumbers ==
  /\ MaxWrites \in Nat /\ MaxWrites >= 1
  /\ \A row \in Row : row.version \in Nat /\ row.version >= 1 /\ row.version <= MaxWrites
<1>1. MaxWrites \in Nat /\ MaxWrites >= 1
  <2>1. MaxWrites \in Nat \ {0}
    BY BasesAssumption, Zenon
  <2> QED BY <2>1
<1>2. ASSUME NEW row \in Row
      PROVE  row.version \in Nat /\ row.version >= 1 /\ row.version <= MaxWrites
  <2>1. row.version \in 1 .. MaxWrites
    BY DEF Row
  <2> QED BY <1>1, <2>1
<1> QED BY <1>1, <1>2

LEMMA RowIsCurrent == ASSUME NEW row \in Row PROVE Current(row, row)
<1>1. row.version \in Nat
  BY VersionsAreNumbers
<1>2. row.version <= row.version
  BY <1>1
<1> QED BY <1>2 DEF Current

LEMMA ShapesGiveType == AccountsTypeOK /\ Shapes => TypeOK
  BY DEF TypeOK, Shapes, Edit

\* Everything that reads a row, for an edit, with the fields that were sent.
LEMMA ReadKeeps ==
  ASSUME Shapes, Remembered, NEW c \in Client, NEW b \in Base, NEW sent \in Form,
         NEW edited \in SUBSET Field, NEW seen \in 1 .. MaxWrites,
         UpdateReads(c, b, sent, edited, seen),
         b \in Alive => seen <= bases[b].version,
         b \in Alive /\ seen = bases[b].version =>
           \A f \in Field \ edited : sent[f] \in {"", bases[b][f]}
  PROVE  Shapes' /\ Remembered'
<1>1. /\ b \in Alive /\ UNCHANGED <<bases, list>>
      /\ editing' = [editing EXCEPT ![c] = {[base |-> b, row |-> bases[b], sent |-> sent,
                                            edited |-> edited, seen |-> seen]}]
  BY DEF UpdateReads, KBFindByID
<1>2. b \in DOMAIN bases /\ bases[b] \in Row /\ bases[b].alive
  BY <1>1 DEF Alive, Shapes
<1>3. PICK new \in Edit :
        /\ new.base = b /\ new.row = bases[b]
        /\ new.sent = sent /\ new.edited = edited /\ new.seen = seen
        /\ editing'[c] = {new} /\ \A d \in Client \ {c} : editing'[d] = editing[d]
        /\ editing' \in [Client -> SUBSET Edit]
  <2> DEFINE read == [base |-> b, row |-> bases[b], sent |-> sent,
                      edited |-> edited, seen |-> seen]
  <2>1. read \in Edit /\ read.base = b /\ read.row = bases[b]
        /\ read.sent = sent /\ read.edited = edited /\ read.seen = seen
    BY <1>2 DEF Edit
  <2> HIDE DEF read
  <2>2. editing' = [editing EXCEPT ![c] = {read}]
    BY <1>1 DEF read
  <2> QED BY <2>1, <2>2 DEF Shapes
<1>4. Shapes'
  <2>1. \A d \in Client : \A e \in editing'[d] : e.base \in DOMAIN bases' /\ e.row.alive
    <3>1. new.base \in DOMAIN bases' /\ new.row.alive
      BY <1>1, <1>2, <1>3
    <3>2. \A d \in Client \ {c} : \A e \in editing'[d] : e.base \in DOMAIN bases' /\ e.row.alive
      BY <1>1, <1>3 DEF Shapes
    <3> QED BY <1>3, <3>1, <3>2
  <2> QED BY <1>1, <1>3, <2>1 DEF Shapes
<1>5. Current(new.row, bases[b])
  BY <1>2, <1>3, RowIsCurrent
<1>6. ASSUME NEW d \in Client, NEW e \in editing'[d], NEW f \in editing'[d] PROVE e = f
  <2>1. CASE d = c
    BY <1>3, <2>1
  <2>2. CASE d # c
    <3>1. editing'[d] = editing[d]
      BY <1>3, <2>2
    <3> QED BY <3>1 DEF Remembered
  <2> QED BY <2>1, <2>2
<1>7. ASSUME NEW d \in Client, NEW e \in editing'[d]
      PROVE  /\ Current(e.row, bases'[e.base]) /\ e.seen <= e.row.version
             /\ e.seen = bases'[e.base].version =>
                  \A f \in Field \ e.edited : e.sent[f] \in {"", bases'[e.base][f]}
  <2>1. CASE d = c
    <3>1. e = new
      BY <1>3, <2>1
    <3> QED BY <1>1, <1>3, <1>5, <3>1
  <2>2. CASE d # c
    <3>1. e \in editing[d]
      BY <1>3, <2>2
    <3> QED BY <1>1, <3>1 DEF Remembered
  <2> QED BY <2>1, <2>2
<1>8. \A d \in Browser : \A x \in DOMAIN list'[d] : Current(list'[d][x], bases'[x])
  BY <1>1 DEF Remembered
<1> QED BY <1>4, <1>6, <1>7, <1>8 DEF Remembered

\* Everything that writes a row: its version grows, so what was read of it
\* before is no longer of the present version.
LEMMA WriteKeeps ==
  ASSUME Shapes, Remembered, NEW b \in DOMAIN bases, NEW row \in Row, Put(b, row),
         row.version = bases[b].version + 1,
         NEW edits \in [Client -> SUBSET Edit], editing' = edits,
         \A c \in Client : edits[c] \subseteq editing[c], UNCHANGED list
  PROVE  Shapes' /\ Remembered'
<1>1. /\ DOMAIN bases' = DOMAIN bases
      /\ \A x \in DOMAIN bases : bases'[x] = IF x = b THEN row ELSE bases[x]
      /\ bases' \in [DOMAIN bases -> Row]
  BY DEF Put, Shapes
<1>2. \A x \in DOMAIN bases : bases[x] \in Row
  BY DEF Shapes
<1>3. Shapes'
  BY <1>1 DEF Shapes
<1>4. ASSUME NEW r \in Row, NEW x \in DOMAIN bases, Current(r, bases[x])
      PROVE  Current(r, bases'[x]) /\ (r.version = bases'[x].version => x # b)
             /\ (x # b => bases'[x] = bases[x])
  BY <1>1, <1>2, <1>4, VersionsAreNumbers DEF Current
<1>5. ASSUME NEW c \in Client, NEW e \in editing'[c]
      PROVE  /\ Current(e.row, bases'[e.base]) /\ e.seen <= e.row.version
             /\ e.seen = bases'[e.base].version =>
                  \A f \in Field \ e.edited : e.sent[f] \in {"", bases'[e.base][f]}
  <2>1. e \in editing[c] /\ e \in Edit /\ e.base \in DOMAIN bases /\ e.row \in Row
    BY <1>5 DEF Shapes, Edit
  <2>2. /\ Current(e.row, bases[e.base]) /\ e.seen <= e.row.version
        /\ e.seen = bases[e.base].version =>
             \A f \in Field \ e.edited : e.sent[f] \in {"", bases[e.base][f]}
    BY <2>1 DEF Remembered
  <2>3. /\ Current(e.row, bases'[e.base]) /\ (e.row.version = bases'[e.base].version => e.base # b)
        /\ (e.base # b => bases'[e.base] = bases[e.base])
    BY <1>4, <2>1, <2>2
  <2>4. e.seen \in Nat /\ e.row.version \in Nat /\ bases'[e.base].version \in Nat
    BY <1>1, <2>1, VersionsAreNumbers DEF Edit
  <2>5. e.seen = bases'[e.base].version => e.row.version = bases'[e.base].version
    <3>1. e.row.version <= bases'[e.base].version /\ e.seen <= e.row.version
      BY <2>2, <2>3 DEF Current
    <3> QED BY <2>4, <3>1
  <2> QED BY <2>2, <2>3, <2>5
<1>6. \A c \in Client : \A e, f \in editing'[c] : e = f
  BY DEF Remembered
<1>7. ASSUME NEW c \in Browser, NEW x \in DOMAIN list'[c]
      PROVE  Current(list'[c][x], bases'[x])
  <2>1. x \in DOMAIN list[c] /\ x \in DOMAIN bases /\ list[c][x] \in Row
    BY <1>7 DEF Shapes
  <2> QED BY <1>4, <2>1 DEF Remembered
<1> QED BY <1>3, <1>5, <1>6, <1>7 DEF Remembered

LEMMA CreateKeeps ==
  ASSUME Shapes, Remembered, NEW c \in Client, NEW b \in Base,
         NEW name \in Name, NEW description \in Description, KBCreate(c, b, name, description)
  PROVE  Shapes' /\ Remembered'
<1> PICK row \in Row : row.alive /\ Put(b, row)
  <2>1. 1 \in 1 .. MaxWrites
    BY VersionsAreNumbers
  <2> QED BY <2>1 DEF KBCreate, Row
<1>1. /\ b \notin DOMAIN bases /\ DOMAIN bases' = DOMAIN bases \cup {b}
      /\ UNCHANGED <<editing, list>>
      /\ \A x \in DOMAIN bases : bases'[x] = bases[x]
      /\ bases' \in [DOMAIN bases' -> Row]
  BY DEF KBCreate, Put, Shapes
<1>2. Shapes'
  BY <1>1 DEF Shapes
<1>3. ASSUME NEW d \in Client, NEW e \in editing'[d]
      PROVE  /\ Current(e.row, bases'[e.base]) /\ e.seen <= e.row.version
             /\ e.seen = bases'[e.base].version =>
                  \A f \in Field \ e.edited : e.sent[f] \in {"", bases'[e.base][f]}
  <2>1. e \in editing[d] /\ e.base \in DOMAIN bases
    BY <1>1, <1>3 DEF Shapes
  <2>2. bases'[e.base] = bases[e.base]
    BY <1>1, <2>1
  <2> QED BY <2>1, <2>2 DEF Remembered
<1>4. \A d \in Client : \A e, f \in editing'[d] : e = f
  BY <1>1 DEF Remembered
<1>5. ASSUME NEW d \in Browser, NEW x \in DOMAIN list'[d]
      PROVE  Current(list'[d][x], bases'[x])
  <2>1. x \in DOMAIN list[d] /\ x \in DOMAIN bases /\ list' = list
    BY <1>1, <1>5 DEF Shapes
  <2>2. bases'[x] = bases[x]
    BY <1>1, <2>1
  <2> QED BY <2>1, <2>2 DEF Remembered
<1> QED BY <1>2, <1>3, <1>4, <1>5 DEF Remembered

LEMMA FieldIsSet ==
  ASSUME NEW row, NEW field, NEW value
  PROVE  /\ field = "name" =>
              [[name |-> row.name, description |-> row.description] EXCEPT ![field] = value]
                = [name |-> value, description |-> row.description]
         /\ field = "description" =>
              [[name |-> row.name, description |-> row.description] EXCEPT ![field] = value]
                = [name |-> row.name, description |-> value]
<1>1. CASE field = "name"
  BY <1>1
<1>2. CASE field = "description"
  BY <1>2
<1> QED BY <1>1, <1>2

LEMMA PatchKeeps ==
  ASSUME Shapes, Remembered, NEW c \in Client, NEW b \in Base, NEW field \in Field,
         NEW value \in Name \cup Description, field = "name" => value \in Name,
         field = "description" => value \in Description, Patch(c, b, field, value)
  PROVE  Shapes' /\ Remembered'
<1>1. PICK row \in KBFindByID(b) :
        UpdateReads(c, b, [Nothing EXCEPT ![field] = value], {field}, row.version)
  BY DEF Patch
<1>2. b \in DOMAIN bases /\ row = bases[b] /\ row \in Row
  BY <1>1 DEF KBFindByID, Alive, Shapes
<1>3. row.version \in 1 .. MaxWrites /\ row.version <= row.version
  BY <1>2, VersionsAreNumbers
<1>4. PICK blank : blank.name = "" /\ blank.description = "" /\ blank = Nothing
  BY DEF Nothing
<1>5. Nothing = [name |-> blank.name, description |-> blank.description]
  BY <1>4, Zenon DEF Nothing
<1>6. PICK sent \in Form :
        /\ sent = [Nothing EXCEPT ![field] = value]
        /\ \A f \in Field \ {field} : sent[f] = ""
  <2>1. CASE field = "name"
    <3>1. [Nothing EXCEPT ![field] = value] = [name |-> value, description |-> blank.description]
      <4>1. [[name |-> blank.name, description |-> blank.description] EXCEPT ![field] = value]
              = [name |-> value, description |-> blank.description]
        BY <2>1, FieldIsSet
      <4> QED BY <1>5, <4>1, Zenon
    <3>2. [name |-> value, description |-> blank.description] \in Form
      BY <1>4, <2>1 DEF Form
    <3>3. \A f \in Field \ {field} : f = "description"
      BY <2>1 DEF Field
    <3> QED BY <1>4, <3>1, <3>2, <3>3
  <2>2. CASE field = "description"
    <3>1. [Nothing EXCEPT ![field] = value] = [name |-> blank.name, description |-> value]
      <4>1. [[name |-> blank.name, description |-> blank.description] EXCEPT ![field] = value]
              = [name |-> blank.name, description |-> value]
        BY <2>2, FieldIsSet
      <4> QED BY <1>5, <4>1, Zenon
    <3>2. [name |-> blank.name, description |-> value] \in Form
      BY <1>4, <2>2 DEF Form
    <3>3. \A f \in Field \ {field} : f = "name"
      BY <2>2 DEF Field
    <3> QED BY <1>4, <3>1, <3>2, <3>3
  <2> QED BY <2>1, <2>2 DEF Field
<1> QED BY <1>1, <1>2, <1>3, <1>6, ReadKeeps

LEMMA SubmitKeeps ==
  ASSUME Shapes, Remembered, NEW c \in Client, NEW b \in Base, NEW field \in Field,
         NEW value \in Name \cup Description, field = "name" => value \in Name,
         field = "description" => value \in Description, Submit(c, b, field, value)
  PROVE  Shapes' /\ Remembered'
<1>1. PICK row : row = list[c][b]
  OBVIOUS
<1>2. /\ c \in Browser /\ b \in DOMAIN list[c]
      /\ UpdateReads(c, b, [[name |-> row.name, description |-> row.description]
                              EXCEPT ![field] = value], {field}, row.version)
  BY <1>1 DEF Submit
<1>3. row \in Row /\ Current(row, bases[b]) /\ b \in DOMAIN bases /\ bases[b] \in Row
  <2>1. row \in Row
    BY <1>1, <1>2 DEF Shapes
  <2>2. b \in DOMAIN bases /\ bases[b] \in Row
    BY <1>1, <1>2 DEF Shapes
  <2>3. Current(row, bases[b])
    BY <1>1, <1>2 DEF Remembered
  <2> QED BY <2>1, <2>2, <2>3
<1>4. row.version \in 1 .. MaxWrites /\ row.version <= bases[b].version
  BY <1>3, VersionsAreNumbers DEF Current
<1>5. PICK sent \in Form :
        /\ sent = [[name |-> row.name, description |-> row.description]
                     EXCEPT ![field] = value]
        /\ \A f \in Field \ {field} : sent[f] = row[f]
  <2>1. row.name \in Name /\ row.description \in Description
    BY <1>3 DEF Row
  <2>2. CASE field = "name"
    <3>1. [[name |-> row.name, description |-> row.description] EXCEPT ![field] = value]
            = [name |-> value, description |-> row.description]
      BY <2>2, FieldIsSet
    <3>2. [name |-> value, description |-> row.description] \in Form
      BY <2>1, <2>2 DEF Form
    <3>3. \A f \in Field \ {field} : f = "description"
      BY <2>2 DEF Field
    <3> QED BY <3>1, <3>2, <3>3
  <2>3. CASE field = "description"
    <3>1. [[name |-> row.name, description |-> row.description] EXCEPT ![field] = value]
            = [name |-> row.name, description |-> value]
      BY <2>3, FieldIsSet
    <3>2. [name |-> row.name, description |-> value] \in Form
      BY <2>1, <2>3 DEF Form
    <3>3. \A f \in Field \ {field} : f = "name"
      BY <2>3 DEF Field
    <3> QED BY <3>1, <3>2, <3>3
  <2> QED BY <2>2, <2>3 DEF Field
<1>6. row.version = bases[b].version => \A f \in Field \ {field} : sent[f] \in {"", bases[b][f]}
  BY <1>3, <1>5 DEF Current
<1> QED BY <1>2, <1>4, <1>5, <1>6, ReadKeeps

LEMMA SaveKeeps ==
  ASSUME Shapes, Remembered, NEW c \in Client, UpdateSaves(c)
  PROVE  Shapes' /\ Remembered'
<1>1. PICK e \in editing[c] :
        /\ bases[e.base].version < MaxWrites
        /\ Put(e.base, [Changed(e) EXCEPT !.alive = TRUE,
                                         !.version = bases[e.base].version + 1])
  BY DEF UpdateSaves
<1>2. e \in Edit /\ e.base \in DOMAIN bases /\ bases[e.base] \in Row
  BY DEF Shapes
<1>3. bases[e.base].version + 1 \in 1 .. MaxWrites
  BY <1>1, <1>2, VersionsAreNumbers
<1>4. Changed(e) \in Row
  <2>1. e.row \in Row /\ e.sent \in Form
    BY <1>2 DEF Edit
  <2> QED BY <2>1 DEF Changed, Row, Form
<1>5. PICK row \in Row : Put(e.base, row) /\ row.version = bases[e.base].version + 1
  <2> DEFINE new == [Changed(e) EXCEPT !.alive = TRUE,
                                      !.version = bases[e.base].version + 1]
  <2>1. new \in Row /\ new.version = bases[e.base].version + 1
    BY <1>3, <1>4 DEF Row
  <2>2. Put(e.base, new)
    BY <1>1
  <2> HIDE DEF new
  <2> QED BY <2>1, <2>2
<1>6. PICK edits \in [Client -> SUBSET Edit] :
        editing' = edits /\ \A d \in Client : edits[d] \subseteq editing[d]
  BY DEF UpdateSaves, Shapes
<1> QED BY <1>2, <1>5, <1>6, WriteKeeps DEF UpdateSaves

LEMMA DeleteKeeps ==
  ASSUME Shapes, Remembered, NEW c \in Client, NEW b \in Base, KBDelete(c, b)
  PROVE  Shapes' /\ Remembered'
<1>1. b \in DOMAIN bases /\ bases[b] \in Row /\ bases[b].version < MaxWrites
  BY DEF KBDelete, Alive, Shapes
<1>2. bases[b].version + 1 \in 1 .. MaxWrites
  BY <1>1, VersionsAreNumbers
<1>3. PICK row \in Row : Put(b, row) /\ row.version = bases[b].version + 1
  <2> DEFINE new == [bases[b] EXCEPT !.alive = FALSE, !.version = bases[b].version + 1]
  <2>1. new \in Row /\ new.version = bases[b].version + 1
    BY <1>1, <1>2 DEF Row
  <2>2. Put(b, new)
    BY DEF KBDelete
  <2> HIDE DEF new
  <2> QED BY <2>1, <2>2
<1>4. editing \in [Client -> SUBSET Edit] /\ editing' = editing /\ UNCHANGED list
  BY DEF KBDelete, Shapes
<1> QED BY <1>1, <1>3, <1>4, WriteKeeps

LEMMA LoadKeeps ==
  ASSUME Shapes, Remembered, NEW c \in Client, Load(c)
  PROVE  Shapes' /\ Remembered'
<1>1. PICK shown \in UNION {[B -> Row] : B \in SUBSET Base} :
        /\ DOMAIN shown = Alive /\ \A b \in Alive : shown[b] = bases[b]
        /\ list' = [list EXCEPT ![c] = shown]
  <2> DEFINE rows == [b \in Alive |-> bases[b]]
  <2>1. Alive \subseteq DOMAIN bases /\ Alive \subseteq Base
    BY DEF Alive, Shapes
  <2>2. rows \in [Alive -> Row]
    BY <2>1 DEF Shapes
  <2>3. list' = [list EXCEPT ![c] = rows] /\ DOMAIN rows = Alive
        /\ \A b \in Alive : rows[b] = bases[b]
    BY DEF Load
  <2> HIDE DEF rows
  <2> QED BY <2>1, <2>2, <2>3
<1>2. c \in Browser /\ UNCHANGED <<bases, editing>>
  BY DEF Load
<1>3. list'[c] = shown /\ \A d \in Browser \ {c} : list'[d] = list[d]
  BY <1>1, <1>2 DEF Shapes
<1>4. \A d \in Browser : \A b \in DOMAIN list'[d] : b \in DOMAIN bases /\ list'[d][b].alive
  BY <1>1, <1>3 DEF Shapes, Alive
<1>5. \A d \in Browser : \A b \in DOMAIN list'[d] : Current(list'[d][b], bases[b])
  <2>1. \A b \in DOMAIN shown : bases[b] \in Row /\ shown[b] = bases[b]
    BY <1>1 DEF Alive, Shapes
  <2>2. \A b \in DOMAIN shown : Current(shown[b], bases[b])
    BY <2>1, RowIsCurrent
  <2> QED BY <1>3, <2>2 DEF Remembered
<1>6. Shapes'
  BY <1>1, <1>2, <1>4 DEF Shapes
<1>7. Remembered'
  BY <1>2, <1>5 DEF Remembered
<1> QED BY <1>6, <1>7

\* The inductive invariant of the composition.
WorkspaceInv == AccountsInv /\ Shapes /\ Remembered

LEMMA WorkspaceInit == Init => WorkspaceInv
<1> SUFFICES ASSUME Init PROVE WorkspaceInv
  OBVIOUS
<1>1. PICK none : none = <<>> /\ DOMAIN none = {} /\ none \in [{} -> Row]
  <2>1. <<>> \in [1 .. 0 -> Row] /\ 1 .. 0 = {}
    OBVIOUS
  <2> QED BY <2>1
<1>2. /\ bases = none /\ editing = [c \in Client |-> {}] /\ list = [c \in Browser |-> none]
      /\ AccountsInv
  BY <1>1, AccountsInvInit DEF Init
<1>3. none \in UNION {[B -> Row] : B \in SUBSET Base}
  BY <1>1
<1>4. Shapes
  BY <1>1, <1>2, <1>3 DEF Shapes
<1>5. Remembered
  BY <1>1, <1>2 DEF Remembered
<1> QED BY <1>2, <1>4, <1>5 DEF WorkspaceInv

LEMMA BasesStep == Shapes /\ Remembered /\ BasesNext => Shapes' /\ Remembered'
<1> SUFFICES ASSUME Shapes, Remembered, BasesNext PROVE Shapes' /\ Remembered'
  OBVIOUS
<1> PICK c \in Client :
      \/ \E b \in Base, n \in Name, d \in Description : KBCreate(c, b, n, d)
      \/ \E b \in Base, n \in Name : EditBase(c, b, "name", n)
      \/ \E b \in Base, d \in Description : EditBase(c, b, "description", d)
      \/ UpdateSaves(c)
      \/ UpdateFails(c)
      \/ \E b \in Base : KBDelete(c, b)
      \/ Load(c)
  BY DEF BasesNext
<1>1. ASSUME NEW b \in Base, NEW n \in Name, NEW d \in Description, KBCreate(c, b, n, d)
      PROVE  Shapes' /\ Remembered'
  BY <1>1, CreateKeeps
<1>2. ASSUME NEW b \in Base, NEW n \in Name, EditBase(c, b, "name", n)
      PROVE  Shapes' /\ Remembered'
  <2>1. "name" \in Field /\ n \in Name \cup Description /\ "name" # "description"
    BY DEF Field
  <2> QED BY <1>2, <2>1, PatchKeeps, SubmitKeeps DEF EditBase
<1>3. ASSUME NEW b \in Base, NEW d \in Description, EditBase(c, b, "description", d)
      PROVE  Shapes' /\ Remembered'
  <2>1. "description" \in Field /\ d \in Name \cup Description /\ "name" # "description"
    BY DEF Field
  <2> QED BY <1>3, <2>1, PatchKeeps, SubmitKeeps DEF EditBase
<1>4. ASSUME UpdateFails(c) PROVE Shapes' /\ Remembered'
  <2>1. /\ UNCHANGED <<bases, list>> /\ editing' \in [Client -> SUBSET Edit]
        /\ \A d \in Client : editing'[d] \subseteq editing[d]
    BY <1>4 DEF UpdateFails, Shapes
  <2>2. Shapes'
    BY <2>1 DEF Shapes
  <2>3. Remembered'
    BY <2>1 DEF Remembered
  <2> QED BY <2>2, <2>3
<1> QED BY <1>1, <1>2, <1>3, <1>4, SaveKeeps, DeleteKeeps, LoadKeeps

LEMMA WorkspaceStep == WorkspaceInv /\ [Next]_vars => WorkspaceInv'
<1> SUFFICES ASSUME WorkspaceInv, [Next]_vars PROVE WorkspaceInv'
  OBVIOUS
<1>1. AccountsNext \/ UNCHANGED accountVars
  BY DEF Next, vars
<1>2. CASE BasesNext
  BY <1>1, <1>2, AccountsInvStep, BasesStep DEF WorkspaceInv
<1>3. CASE UNCHANGED baseVars
  <2>1. Shapes' /\ Remembered'
    BY <1>3 DEF WorkspaceInv, Shapes, Remembered, baseVars
  <2> QED BY <1>1, <2>1, AccountsInvStep DEF WorkspaceInv
<1> QED BY <1>2, <1>3 DEF Next, vars

LEMMA WorkspaceInvariant == Spec => []WorkspaceInv
  BY WorkspaceInit, WorkspaceStep, PTL DEF Spec

-----------------------------------------------------------------------------
\* In every state users, calls, sessions, bases and pages hold values of their
\* types, and what a call of Update or a page has read was not deleted then.
THEOREM WorkspaceTypeCorrect == Spec => []TypeOK
<1>1. WorkspaceInv => TypeOK
  BY ShapesGiveType DEF WorkspaceInv, AccountsInv
<1> QED BY <1>1, WorkspaceInvariant, PTL

\* Register never gives an e-mail a second account, for any number of clients
\* that register at once: the constraint on insert carries it, not the look-up.
THEOREM EmailsAreUnique == Spec => []OneAccountPerEmail
<1>1. WorkspaceInv => OneAccountPerEmail
  BY DEF WorkspaceInv, AccountsInv
<1> QED BY <1>1, WorkspaceInvariant, PTL

\* What a client typed at its registration or login opens its account again.
THEOREM SessionsOpenAgain == Spec => []SessionOpensAgain
<1>1. WorkspaceInv => SessionOpensAgain
  BY DEF WorkspaceInv, AccountsInv
<1> QED BY <1>1, WorkspaceInvariant, PTL

\* Only the call's own UpdateSaves ends an edit and writes a row.
LEMMA SaverIsOwn ==
  ASSUME WorkspaceInv, [Next]_vars, NEW c \in Client, Saves(c) PROVE UpdateSaves(c)
<1>1. BasesNext
  BY DEF Next, vars, baseVars, Saves
<1>2. PICK d \in Client :
        \/ \E b \in Base, n \in Name, x \in Description : KBCreate(d, b, n, x)
        \/ \E b \in Base, n \in Name : EditBase(d, b, "name", n)
        \/ \E b \in Base, x \in Description : EditBase(d, b, "description", x)
        \/ UpdateSaves(d)
        \/ UpdateFails(d)
        \/ \E b \in Base : KBDelete(d, b)
        \/ Load(d)
  BY <1>1 DEF BasesNext
<1>3. UpdateSaves(d)
  BY <1>2 DEF Saves, KBCreate, EditBase, Patch, Submit, UpdateReads, UpdateFails, KBDelete, Load
<1>4. \A x \in Client \ {d} : editing'[x] = editing[x]
  BY <1>3 DEF UpdateSaves, WorkspaceInv, Shapes
<1> QED BY <1>3, <1>4 DEF Saves

LEMMA SaveIsExact ==
  ASSUME WorkspaceInv, [Next]_vars, NEW c \in Client, Saves(c),
         NEW e \in editing[c], e.seen = bases[e.base].version, NEW f \in DOMAIN e.sent
  PROVE  bases'[e.base][f] = IF f \in e.edited /\ e.sent[f] # "" THEN e.sent[f]
                             ELSE bases[e.base][f]
<1>1. e \in Edit /\ e.base \in DOMAIN bases /\ bases[e.base] \in Row
  BY DEF WorkspaceInv, Shapes
<1>2. e.row \in Row /\ e.sent \in Form /\ e.seen \in Nat /\ f \in Field
  BY <1>1, VersionsAreNumbers DEF Edit, Form, Field
<1>3. Current(e.row, bases[e.base]) /\ e.seen <= e.row.version
      /\ \A g \in Field \ e.edited : e.sent[g] \in {"", bases[e.base][g]}
  BY DEF WorkspaceInv, Remembered
<1>4. e.row = bases[e.base]
  <2>1. e.row.version \in Nat /\ bases[e.base].version \in Nat
    BY <1>1, <1>2, VersionsAreNumbers
  <2>2. e.row.version <= bases[e.base].version
    BY <1>3 DEF Current
  <2>3. e.row.version = bases[e.base].version
    <3>1. e.seen <= e.row.version /\ e.seen = bases[e.base].version /\ e.seen \in Nat
      BY <1>2, <1>3
    <3> QED BY <2>1, <2>2, <3>1
  <2> QED BY <1>3, <2>3 DEF Current
<1>5. PICK n : n = bases[e.base].version + 1
  OBVIOUS
<1>6. PICK x \in editing[c] :
        Put(x.base, [Changed(x) EXCEPT !.alive = TRUE, !.version = bases[x.base].version + 1])
  BY SaverIsOwn DEF UpdateSaves
<1>7. x = e
  BY DEF WorkspaceInv, Remembered
<1>8. bases'[e.base] = [Changed(e) EXCEPT !.alive = TRUE, !.version = n]
  BY <1>1, <1>5, <1>6, <1>7 DEF Put
<1>9. bases'[e.base][f] = Changed(e)[f]
  BY <1>2, <1>8 DEF Changed, Field, Row
<1>10. Changed(e)[f] = IF e.sent[f] = "" THEN bases[e.base][f] ELSE e.sent[f]
  BY <1>2, <1>4 DEF Changed, Field, Row
<1> QED BY <1>2, <1>3, <1>9, <1>10

\* An edit of a base nobody wrote to since its author saw it changes the fields
\* he meant and no other, though Update saves every column of the row it read.
THEOREM EditsAreExact == Spec => SerialUpdateIsExact
<1>1. WorkspaceInv /\ [Next]_vars =>
        \A c \in Client : Saves(c) =>
          \A e \in editing[c] : e.seen = bases[e.base].version =>
            \A f \in DOMAIN e.sent :
              bases'[e.base][f] = IF f \in e.edited /\ e.sent[f] # "" THEN e.sent[f]
                                  ELSE bases[e.base][f]
  BY SaveIsExact
<1> QED BY <1>1, WorkspaceInvariant, PTL DEF Spec, SerialUpdateIsExact

LEMMA RevivalIsOverlap ==
  ASSUME WorkspaceInv, [Next]_vars, NEW b \in DOMAIN bases \ Alive, bases'[b].alive
  PROVE  \E c \in Client : Saves(c) /\ \E e \in editing[c] :
           e.base = b /\ e.row.alive /\ e.row.version < bases[b].version
<1>1. ~bases[b].alive /\ bases[b] \in Row /\ bases' # bases
  BY DEF Alive, WorkspaceInv, Shapes
<1>2. BasesNext
  BY <1>1 DEF Next, vars, baseVars
<1>3. PICK c \in Client :
        \/ \E x \in Base, n \in Name, d \in Description : KBCreate(c, x, n, d)
        \/ \E x \in Base, n \in Name : EditBase(c, x, "name", n)
        \/ \E x \in Base, d \in Description : EditBase(c, x, "description", d)
        \/ UpdateSaves(c)
        \/ UpdateFails(c)
        \/ \E x \in Base : KBDelete(c, x)
        \/ Load(c)
  BY <1>2 DEF BasesNext
<1>4. ASSUME NEW x, NEW row, Put(x, row), x # b PROVE FALSE
  BY <1>1, <1>4 DEF Put
<1>5. UpdateSaves(c)
  <2>1. ASSUME NEW x \in Base, KBDelete(c, x) PROVE FALSE
    BY <1>4, <2>1 DEF KBDelete, Alive
  <2>2. ASSUME NEW x \in Base, NEW n \in Name, NEW d \in Description, KBCreate(c, x, n, d)
        PROVE  FALSE
    BY <1>4, <2>2 DEF KBCreate
  <2>3. ~UpdateFails(c) /\ ~Load(c)
    BY <1>1 DEF UpdateFails, Load
  <2>4. \A x, f, v : ~EditBase(c, x, f, v)
    BY <1>1 DEF EditBase, Patch, Submit, UpdateReads
  <2> QED BY <1>3, <2>1, <2>2, <2>3, <2>4
<1>6. PICK e \in editing[c] :
        Put(e.base, [Changed(e) EXCEPT !.alive = TRUE, !.version = bases[e.base].version + 1])
  BY <1>5 DEF UpdateSaves
<1>7. e.base = b
  BY <1>4, <1>6
<1>8. e \in Edit /\ e.row \in Row /\ e.row.alive /\ Current(e.row, bases[b])
  <2>1. e \in Edit /\ e.row.alive
    BY DEF WorkspaceInv, Shapes
  <2>2. Current(e.row, bases[b])
    BY <1>7 DEF WorkspaceInv, Remembered
  <2> QED BY <2>1, <2>2 DEF Edit
<1>9. e.row.version < bases[b].version
  <2>1. e.row.version \in Nat /\ bases[b].version \in Nat
    BY <1>1, <1>8, VersionsAreNumbers
  <2>2. e.row.version <= bases[b].version
    BY <1>8 DEF Current
  <2>3. e.row.version # bases[b].version
    BY <1>1, <1>8 DEF Current
  <2> QED BY <2>1, <2>2, <2>3
<1>10. Saves(c)
  BY <1>1, <1>5, <1>6 DEF UpdateSaves, Saves, WorkspaceInv, Shapes
<1> QED BY <1>7, <1>8, <1>9, <1>10

\* A deleted base comes back only through an Update that had read its row before
\* the delete, and saves it whole afterwards.
THEOREM DeletedStayDeleted == Spec => RevivedOnlyByOverlap
<1>1. WorkspaceInv /\ [Next]_vars =>
        \A b \in DOMAIN bases \ Alive : bases'[b].alive =>
          \E c \in Client : Saves(c) /\ \E e \in editing[c] :
            e.base = b /\ e.row.alive /\ e.row.version < bases[b].version
  BY RevivalIsOverlap
<1> QED BY <1>1, WorkspaceInvariant, PTL DEF Spec, RevivedOnlyByOverlap
=============================================================================
