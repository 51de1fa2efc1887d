------------------------------ MODULE Accounts ------------------------------
(***************************************************************************)
(* Who may do what: registration, login and the middleware that resolves   *)
(* a token to a row of users. Register looks for the e-mail and inserts    *)
(* the row in two statements; other requests may come between them.        *)
(***************************************************************************)
CONSTANTS
  Client,    \* clients of the API, each with at most one call under way
  Account,   \* the ids rows of users may get
  Email, Password, Role,
  NoSession  \* a client that holds no valid token

ASSUME AccountsAssumption == Role \subseteq {"admin", "manager", "member"}

VARIABLES
  users,    \* the table, a set of rows
  signing,  \* what each call of Register has found so far
  session   \* the account each client's token names, with what was typed for it

accountVars == <<users, signing, session>>

User == [id : Account, email : Email, password : Password, role : Role]
FindByEmail(e) == {u \in users : u.email = e}
FindByID(id) == {u \in users : u.id = id}

AccountsInit ==
  /\ users = {}
  /\ signing = [c \in Client |-> {}]
  /\ session = [c \in Client |-> NoSession]

-----------------------------------------------------------------------------
\* An e-mail that is taken is refused; an error of the look-up counts as not
\* found. The role asked for is stored, "member" if none is.
RegisterLooks(c, account) ==
  /\ signing[c] = {}
  /\ \E existing \in {FindByEmail(account.email), {}} : existing = {}
  /\ signing' = [signing EXCEPT ![c] = {account}]
  /\ UNCHANGED <<users, session>>

MutantUserCreateUpserts(row) ==
  users' = {u \in users : u.email # row.email} \cup {row}

MutantUserCreateUnchecked(row) ==
  /\ FindByID(row.id) = {}
  /\ users' = users \cup {row}

\* The ids are fresh, the e-mails unique by a constraint of the table.
UserCreate(row) ==
  /\ FindByID(row.id) = {} /\ FindByEmail(row.email) = {}
  /\ users' = users \cup {row}

Grant(c, u) ==
  session' = [session EXCEPT ![c] =
    [id |-> u.id, email |-> u.email, password |-> u.password]]

\* The reply with the token may be lost on its way.
RegisterInserts(c, id) ==
  \E a \in signing[c] :
    LET row == [id |-> id, email |-> a.email, password |-> a.password, role |-> a.role]
    IN  /\ UserCreate(row)
        /\ Grant(c, row) \/ UNCHANGED session
        /\ signing' = [signing EXCEPT ![c] = {}]

\* The constraint or the database refuses the row.
RegisterFails(c) ==
  /\ signing[c] # {}
  /\ signing' = [signing EXCEPT ![c] = {}]
  /\ UNCHANGED <<users, session>>

Login(c, e, p) ==
  /\ signing[c] = {}
  /\ \E u \in FindByEmail(e) : u.password = p /\ Grant(c, u)
  /\ UNCHANGED <<users, signing>>

\* The token expires or is thrown away.
TokenEnds(c) ==
  /\ session[c] # NoSession
  /\ session' = [session EXCEPT ![c] = NoSession]
  /\ UNCHANGED <<users, signing>>

\* The user a request is made by: the row, not the claims, tells the role.
Authenticate(c) == IF session[c] = NoSession THEN {} ELSE FindByID(session[c].id)
RequireRole(c, allowed) == \E u \in Authenticate(c) : u.role \in allowed

AccountsNext ==
  \E c \in Client :
    \/ \E e \in Email, p \in Password, r \in Role :
         RegisterLooks(c, [email |-> e, password |-> p, role |-> r])
    \/ \E id \in Account : RegisterInserts(c, id)
    \/ \E e \in Email, p \in Password : Login(c, e, p)
    \/ RegisterFails(c)
    \/ TokenEnds(c)

-----------------------------------------------------------------------------
AccountsTypeOK ==
  /\ users \subseteq User
  /\ signing \in [Client -> SUBSET [email : Email, password : Password, role : Role]]
  /\ \A c \in Client : session[c] # NoSession =>
       session[c] \in [id : Account, email : Email, password : Password]

\* An e-mail is one account, however registrations race and whatever their
\* look-ups missed.
OneAccountPerEmail == \A u, v \in users : u.email = v.email => u = v

\* A client that was let in can come back: what it typed at its registration
\* or login still opens the account its token names, whoever registered since.
SessionOpensAgain ==
  \A c \in Client : session[c] # NoSession =>
    \E u \in users : u.id = session[c].id /\ u.email = session[c].email
                      /\ u.password = session[c].password
=============================================================================
