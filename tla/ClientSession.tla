---------------------------- MODULE ClientSession ----------------------------
(***************************************************************************)
(* The session of one browser tab: the token and the user kept in local    *)
(* storage, the user in the store that the pages read, and the calls that  *)
(* change them when they are answered. A reload ends the calls under way,  *)
(* a change of page inside the application does not.                       *)
(***************************************************************************)
EXTENDS Integers, Sequences

CONSTANTS
  Person,     \* who may have an account
  NoUser,
  Scenarios   \* what may happen in a behaviour, who logs in, and its bounds:
              \* tokens issued and operations on documents

ASSUME SessionAssumption ==
  /\ NoUser \notin Person
  /\ \A s \in Scenarios : s.people \subseteq Person /\ s.logins \in Nat

VARIABLES
  scenario,   \* the one of this behaviour
  issued,     \* the owner of each token the server has issued
  valid,      \* the tokens it still accepts
  token,      \* kn_token, 0 if none
  kept,       \* kn_user
  user,       \* the user in the store
  path,       \* "/login", "/register", or "/app" for all pages behind RequireAuth
  restoring,  \* the call of /me made when the tab was loaded
  entering    \* the call of login or register

session == <<scenario, issued, valid, token, kept, user, path, restoring, entering>>

may == scenario.may

SessionInit ==
  /\ scenario \in Scenarios
  /\ issued = <<>> /\ valid = {}
  /\ token = 0 /\ kept = NoUser /\ user = NoUser
  /\ path = "/login"
  /\ restoring = {} /\ entering = {}

-----------------------------------------------------------------------------
ClearStorage == token' = 0 /\ kept' = NoUser

Forms == {"/login", "/register"}
Path == Forms \cup {"/app"}

\* RequireAuth sends whoever has no user in the store to the login page.
Show(u, p) == user' = u /\ path' = IF u = NoUser /\ p \notin Forms THEN "/login" ELSE p

\* A tab is loaded: the store is seeded from what is kept, and restore asks
\* the server if there is a token.
Open(p) ==
  /\ "reload" \in may
  /\ Show(IF token = 0 THEN NoUser ELSE kept, p)
  /\ restoring' = IF token = 0 THEN {} ELSE {[token |-> token, answer |-> "none"]}
  /\ entering' = {}
  /\ UNCHANGED <<scenario, issued, valid, token, kept>>

\* Authenticate, before every call but login and register: a token that is not
\* accepted is answered 401, and so is any whose user the database did not
\* return, for whatever reason.
Rejects(t) == t \notin valid \/ "lookup" \in may

MeAnswers ==
  \E call \in restoring, answer \in {"ok", "refused", "error"} :
    /\ call.answer = "none"
    /\ CASE answer = "ok" -> call.token \in valid
         [] answer = "refused" -> Rejects(call.token)
         [] answer = "error" -> "net" \in may
    /\ restoring' = {[call EXCEPT !.answer = answer]}
    /\ UNCHANGED <<scenario, issued, valid, token, kept, user, path, entering>>

\* The answer is believed whatever has happened to the session since.
Restored ==
  \E call \in restoring :
    /\ call.answer = "ok"
    /\ kept' = issued[call.token] /\ Show(issued[call.token], path)
    /\ restoring' = {}
    /\ UNCHANGED <<scenario, issued, valid, token, entering>>

\* Any failure of it clears the session.
NotRestored ==
  /\ \E call \in restoring :
       \/ call.answer = "error"
       \/ call.answer = "refused" /\ path = "/login"
  /\ ClearStorage /\ Show(NoUser, path)
  /\ restoring' = {}
  /\ UNCHANGED <<scenario, issued, valid, entering>>

\* The interceptor: a 401 clears storage, and reloads any page but the login's.
RefusedReloads ==
  /\ path # "/login"
  /\ ClearStorage /\ Show(NoUser, "/login")
  /\ restoring' = {} /\ entering' = {}
  /\ UNCHANGED <<scenario, issued, valid>>

RefusedStays ==
  /\ path = "/login"
  /\ ClearStorage
  /\ UNCHANGED <<scenario, issued, valid, user, path, restoring, entering>>

RestoreReloads == (\E call \in restoring : call.answer = "refused") /\ RefusedReloads

\* The buttons of both forms are disabled while a call is under way.
Enter(u) ==
  /\ path \in Forms /\ entering = {} /\ Len(issued) < scenario.logins
  /\ restoring = {} \/ "hasty" \in may
  /\ entering' = {u}
  /\ UNCHANGED <<scenario, issued, valid, token, kept, user, path, restoring>>

MutantEnteredKeepsUser ==
  \E u \in entering :
    /\ issued' = Append(issued, u) /\ valid' = valid \cup {Len(issued) + 1}
    /\ token' = Len(issued) + 1 /\ kept' = u
    /\ Show(IF user = NoUser THEN u ELSE user, "/app")
    /\ entering' = {}
    /\ UNCHANGED <<scenario, restoring>>

\* login and register: persist, set the user, navigate.
Entered ==
  \E u \in entering :
    /\ issued' = Append(issued, u) /\ valid' = valid \cup {Len(issued) + 1}
    /\ token' = Len(issued) + 1 /\ kept' = u /\ Show(u, "/app")
    /\ entering' = {}
    /\ UNCHANGED <<scenario, restoring>>

\* Wrong credentials are a 401, and the interceptor treats them as one; any
\* other failure, and every one of register, changes nothing.
EnterRefused ==
  /\ entering # {}
  /\ entering' = {}
  /\ (path = "/login" /\ ClearStorage) \/ UNCHANGED <<token, kept>>
  /\ UNCHANGED <<scenario, issued, valid, user, path, restoring>>

Logout ==
  /\ "logout" \in may /\ path = "/app"
  /\ ClearStorage /\ Show(NoUser, "/login")
  /\ UNCHANGED <<scenario, issued, valid, restoring, entering>>

Expire ==
  /\ "expire" \in may /\ valid # {}
  /\ \E t \in valid : valid' = valid \ {t}
  /\ UNCHANGED <<scenario, issued, token, kept, user, path, restoring, entering>>

\* From a form one goes to the other or, with a user in the store, back to the
\* application; not while an answer is awaited.
GoTo(p) ==
  /\ path \in Forms \ {p} /\ entering = {}
  /\ Show(user, p) /\ path' = p
  /\ UNCHANGED <<scenario, issued, valid, token, kept, restoring, entering>>

SessionReloads == (\E p \in Path : Open(p)) \/ RestoreReloads
SessionStays ==
  \/ MeAnswers \/ Restored \/ NotRestored
  \/ (\E u \in scenario.people : Enter(u)) \/ Entered \/ EnterRefused
  \/ Logout \/ Expire \/ \E p \in Path : GoTo(p)

-----------------------------------------------------------------------------
SessionTypeOK ==
  /\ issued \in Seq(Person) /\ Len(issued) <= scenario.logins
  /\ valid \subseteq DOMAIN issued
  /\ token \in 0 .. Len(issued)
  /\ {kept, user} \subseteq Person \cup {NoUser}
  /\ path \in Path /\ (path = "/app" => user # NoUser)
  /\ \A call \in restoring : call.token \in DOMAIN issued
  /\ entering \subseteq Person

\* The user whose name and role the pages show is the one the server knows the
\* calls by, unless somebody logs in before the tab has heard of the session it
\* was loaded with (store/auth.ts:60).
ShownUserOwnsToken ==
  "hasty" \notin may /\ token # 0 /\ user # NoUser =>
    issued[token] = user /\ kept = user
=============================================================================
