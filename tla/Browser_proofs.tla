---------------------------- MODULE Browser_proofs ----------------------------
(***************************************************************************)
(* Theorems about the session of a browser tab and the documents page in   *)
(* it, for any people, scenarios and documents and any numbers of calls    *)
(* and ticks that overlap. The session is proved about first, from all     *)
(* that any step does to it (SessionStep); the page then relies on it.     *)
(***************************************************************************)
EXTENDS DocumentsPage, TLAPS, SequenceTheorems

RestoringCall == [token : Nat, answer : {"none", "ok", "refused", "error"}]

\* Without haste a call of /me is about the session that is kept, and nobody
\* logs in until it is answered; a token refused although its user could be
\* looked up is never accepted again, as none is issued twice.
SessionInv ==
  /\ scenario \in Scenarios
  /\ SessionTypeOK
  /\ restoring \subseteq RestoringCall
  /\ entering # {} => Len(issued) < scenario.logins
  /\ "hasty" \notin may =>
       /\ entering = {} \/ restoring = {}
       /\ token # 0 =>
            /\ kept = issued[token] /\ user \in {NoUser, kept}
            /\ \A call \in restoring : call.token = token
  /\ \A call \in restoring : call.answer = "refused" => Rejects(call.token)

\* All that a step can do to the session.
SessionStep ==
  SessionReloads \/ SessionStays \/ RefusedReloads \/ RefusedStays \/ UNCHANGED session

Lists == UNION {[D -> Status] : D \in SUBSET Doc}
CallRow == [state : {"idle", "sent", "listed", "refused", "operated"},
            token : Nat, mine : BOOLEAN, list : Lists]
TickRow == [on : BOOLEAN, mine : BOOLEAN, left : SUBSET Doc, next : SUBSET Doc, token : Nat,
            answer : {"none", "unfinished", "finished", "refused", "error"}]

PageShapes ==
  /\ truth \in [Doc -> Status \cup {"absent", "gone"}]
  /\ mounted \in BOOLEAN /\ docs \in Lists /\ pendingIds \in SUBSET Doc
  /\ calls \in [Call -> CallRow] /\ ticks \in [Tick -> TickRow]

\* Only a page that is there has calls and ticks of its own, though others may
\* go on.
PageThere ==
  /\ mounted => path = "/app"
  /\ ~mounted => docs = <<>> /\ pendingIds = {}
  /\ \A t \in Tick : ticks[t].mine => ticks[t].on /\ mounted
  /\ \A k \in Call : calls[k].mine => mounted

\* A call or a tick that was refused had a token that is no longer accepted, or
\* users cannot always be looked up.
Refusals ==
  /\ \A k \in Call : /\ calls[k].token \in 0 .. Len(issued)
                     /\ calls[k].state = "refused" => Rejects(calls[k].token)
  /\ \A t \in Tick : /\ ticks[t].token \in 0 .. Len(issued)
                     /\ ticks[t].answer = "refused" => Rejects(ticks[t].token)

\* What is on its way to a document shown as unfinished is a load: an operation
\* whose reply is lost brings none.
Watched ==
  "net" \notin may /\ (\E d \in DOMAIN docs : docs[d] \in Unfinished)
    => \/ pendingIds # {}
       \/ \E k \in Call : calls[k].mine /\ calls[k].state \in {"sent", "listed", "refused"}

PageInv == PageShapes /\ PageThere /\ Refusals /\ Watched

BrowserInv == SessionInv /\ PageInv

-----------------------------------------------------------------------------
(* The session.                                                            *)
\* Tokens are numbered in the order in which they are issued.
LEMMA Issuing ==
  ASSUME issued \in Seq(Person), NEW u \in Person
  PROVE  /\ Append(issued, u) \in Seq(Person)
         /\ Len(Append(issued, u)) = Len(issued) + 1
         /\ Append(issued, u)[Len(issued) + 1] = u
         /\ \A t \in DOMAIN issued : Append(issued, u)[t] = issued[t]
         /\ DOMAIN issued = 1 .. Len(issued) /\ Len(issued) \in Nat
         /\ DOMAIN Append(issued, u) = 1 .. Len(issued) + 1
         /\ Len(issued) + 1 \notin DOMAIN issued
BY AppendProperties

LEMMA Shows ==
  ASSUME NEW u \in Person \cup {NoUser}, NEW p \in Path, Show(u, p)
  PROVE  user' = u /\ path' \in Path /\ (path' = "/app" => user' # NoUser)
BY DEF Show, Path, Forms

\* The session ends: nothing is kept and no token is new.
LEMMA Cleared ==
  ASSUME SessionInv, ClearStorage, UNCHANGED <<scenario, issued, valid>>,
         user' \in {user, NoUser}, path' \in Path, path' = "/app" => user' # NoUser,
         restoring' \subseteq restoring, entering' \subseteq entering
  PROVE  SessionInv'
BY DEF SessionInv, SessionTypeOK, ClearStorage, Rejects, may

LEMMA SessionStepKeeps ==
  ASSUME SessionInv, SessionStep
  PROVE  SessionInv'
<1> USE DEF may, Rejects
<1>1. /\ issued \in Seq(Person) /\ Len(issued) \in Nat /\ DOMAIN issued = 1 .. Len(issued)
      /\ valid \subseteq DOMAIN issued /\ token \in 0 .. Len(issued)
      /\ kept \in Person \cup {NoUser} /\ user \in Person \cup {NoUser}
      /\ path \in Path /\ (path = "/app" => user # NoUser)
      /\ \A call \in restoring : call.token \in DOMAIN issued /\ call \in RestoringCall
      /\ entering \subseteq Person
  BY DEF SessionInv, SessionTypeOK
<1>2. \A t \in DOMAIN issued : issued[t] \in Person /\ issued[t] # NoUser
  BY <1>1, SessionAssumption
<1>3. ASSUME NEW p \in Path, Open(p) PROVE SessionInv'
  <2>1. PICK u \in Person \cup {NoUser} :
          u = (IF token = 0 THEN NoUser ELSE kept) /\ Show(u, p)
    BY <1>1, <1>3 DEF Open
  <2>2. user' = u /\ path' \in Path /\ (path' = "/app" => user' # NoUser)
    BY <2>1, Shows
  <2>3. /\ UNCHANGED <<scenario, issued, valid, token, kept>> /\ entering' = {}
        /\ restoring' = IF token = 0 THEN {} ELSE {[token |-> token, answer |-> "none"]}
    BY <1>3 DEF Open
  <2>4. /\ restoring' \subseteq RestoringCall
        /\ \A call \in restoring' :
             call.token = token /\ call.answer = "none" /\ call.token \in DOMAIN issued
    BY <1>1, <2>3 DEF RestoringCall
  <2>5. SessionTypeOK'
    BY <1>1, <2>2, <2>3, <2>4 DEF SessionInv, SessionTypeOK
  <2> QED BY <2>1, <2>2, <2>3, <2>4, <2>5 DEF SessionInv
<1>4. CASE MeAnswers
  <2>1. PICK call \in restoring, answer \in {"ok", "refused", "error"} :
          /\ answer = "refused" => Rejects(call.token)
          /\ restoring' = {[call EXCEPT !.answer = answer]}
          /\ UNCHANGED <<scenario, issued, valid, token, kept, user, path, entering>>
    BY <1>4 DEF MeAnswers
  <2>2. PICK new \in RestoringCall :
          new.token = call.token /\ new.answer = answer /\ restoring' = {new}
    <3>1. call \in RestoringCall
      BY <1>1
    <3>2. PICK w : w = [call EXCEPT !.answer = answer]
      OBVIOUS
    <3>3. w \in RestoringCall /\ w.token = call.token /\ w.answer = answer
      BY <3>1, <3>2 DEF RestoringCall
    <3> QED BY <2>1, <3>2, <3>3
  <2>3. SessionTypeOK'
    BY <1>1, <2>1, <2>2 DEF SessionInv, SessionTypeOK
  <2> QED BY <2>1, <2>2, <2>3 DEF SessionInv
<1>5. CASE Restored
  <2>1. PICK call \in restoring :
          /\ kept' = issued[call.token] /\ Show(issued[call.token], path)
          /\ restoring' = {} /\ UNCHANGED <<scenario, issued, valid, token, entering>>
    BY <1>5 DEF Restored
  <2>2. issued[call.token] \in Person
    BY <1>1, <1>2
  <2>3. user' = issued[call.token] /\ path' \in Path /\ (path' = "/app" => user' # NoUser)
    BY <1>1, <2>1, <2>2, Shows
  <2>4. SessionTypeOK'
    BY <1>1, <2>1, <2>2, <2>3 DEF SessionInv, SessionTypeOK
  <2> QED BY <2>1, <2>3, <2>4 DEF SessionInv
<1>6. CASE NotRestored
  <2>1. Show(NoUser, path) /\ ClearStorage /\ restoring' = {}
        /\ UNCHANGED <<scenario, issued, valid, entering>>
    BY <1>6 DEF NotRestored
  <2>2. user' = NoUser /\ path' \in Path /\ (path' = "/app" => user' # NoUser)
    BY <1>1, <2>1, Shows
  <2> QED BY <2>1, <2>2, Cleared
<1>7. CASE RefusedReloads
  <2>1. Show(NoUser, "/login") /\ ClearStorage /\ restoring' = {} /\ entering' = {}
        /\ UNCHANGED <<scenario, issued, valid>>
    BY <1>7 DEF RefusedReloads
  <2>2. user' = NoUser /\ path' \in Path /\ (path' = "/app" => user' # NoUser)
    BY <2>1, Shows DEF Path, Forms
  <2> QED BY <2>1, <2>2, Cleared
<1>8. CASE RefusedStays
  BY <1>1, <1>8, Cleared DEF RefusedStays
<1>9. ASSUME NEW u \in scenario.people, Enter(u) PROVE SessionInv'
  <2>1. /\ path \in Forms /\ entering = {} /\ Len(issued) < scenario.logins
        /\ restoring = {} \/ "hasty" \in may
        /\ entering' = {u}
        /\ UNCHANGED <<scenario, issued, valid, token, kept, user, path, restoring>>
    BY <1>9 DEF Enter
  <2>2. u \in Person
    BY SessionAssumption DEF SessionInv
  <2>3. SessionTypeOK'
    BY <1>1, <2>1, <2>2 DEF SessionInv, SessionTypeOK
  <2> QED BY <2>1, <2>3 DEF SessionInv
<1>10. CASE Entered
  <2>1. PICK u \in entering :
          /\ issued' = Append(issued, u) /\ valid' = valid \cup {Len(issued) + 1}
          /\ token' = Len(issued) + 1 /\ kept' = u /\ Show(u, "/app")
          /\ entering' = {} /\ UNCHANGED <<scenario, restoring>>
    BY <1>10 DEF Entered
  <2>2. u \in Person /\ user' = u /\ path' \in Path /\ u # NoUser
    BY <1>1, <2>1, Shows, SessionAssumption DEF Path, Forms
  <2>3. /\ issued' \in Seq(Person) /\ Len(issued') = Len(issued) + 1
        /\ issued'[Len(issued) + 1] = u /\ DOMAIN issued' = 1 .. Len(issued) + 1
        /\ Len(issued) + 1 \notin DOMAIN issued
    BY <1>1, <2>1, <2>2, Issuing
  <2>4. Len(issued) < scenario.logins /\ scenario.logins \in Nat
    BY <2>1, SessionAssumption DEF SessionInv
  <2>5. SessionTypeOK'
    BY <1>1, <2>1, <2>2, <2>3, <2>4 DEF SessionTypeOK
  <2>6. "hasty" \notin may => restoring' = {}
    BY <2>1 DEF SessionInv
  <2>7. \A call \in restoring' : call.answer = "refused" => Rejects(call.token)'
    BY <1>1, <2>1, <2>3 DEF SessionInv
  <2> QED BY <2>1, <2>2, <2>3, <2>5, <2>6, <2>7 DEF SessionInv
<1>11. CASE EnterRefused
  <2>1. /\ entering' = {} /\ UNCHANGED <<scenario, issued, valid, user, path, restoring>>
        /\ ClearStorage \/ UNCHANGED <<token, kept>>
    BY <1>11 DEF EnterRefused
  <2>2. CASE ClearStorage
    BY <1>1, <2>1, <2>2, Cleared
  <2>3. CASE UNCHANGED <<token, kept>>
    BY <2>1, <2>3 DEF SessionInv, SessionTypeOK
  <2> QED BY <2>1, <2>2, <2>3
<1>12. CASE Logout
  <2>1. Show(NoUser, "/login") /\ ClearStorage
        /\ UNCHANGED <<scenario, issued, valid, restoring, entering>>
    BY <1>12 DEF Logout
  <2>2. user' = NoUser /\ path' \in Path /\ (path' = "/app" => user' # NoUser)
    BY <2>1, Shows DEF Path, Forms
  <2> QED BY <2>1, <2>2, Cleared
<1>13. CASE Expire
  BY <1>13 DEF Expire, SessionInv, SessionTypeOK
<1>14. ASSUME NEW p \in Path, GoTo(p) PROVE SessionInv'
  <2>1. Show(user, p) /\ UNCHANGED <<scenario, issued, valid, token, kept, restoring, entering>>
    BY <1>14 DEF GoTo
  <2>2. user' = user /\ path' \in Path /\ (path' = "/app" => user' # NoUser)
    BY <1>1, <2>1, Shows
  <2> QED BY <2>1, <2>2 DEF SessionInv, SessionTypeOK
<1>15. CASE UNCHANGED session
  BY <1>15 DEF session, SessionInv, SessionTypeOK
<1> QED
  BY <1>3, <1>4, <1>5, <1>6, <1>7, <1>8, <1>9, <1>10, <1>11, <1>12, <1>13, <1>14, <1>15
  DEF SessionStep, SessionReloads, SessionStays, RestoreReloads

\* A token that is not accepted never is again, and so what was refused may be
\* refused for ever.
LEMMA TokensOnce ==
  ASSUME SessionInv, SessionStep
  PROVE  /\ scenario' = scenario /\ Len(issued) \in Nat /\ Len(issued') \in Nat
         /\ Len(issued) <= Len(issued')
         /\ \A t \in 0 .. Len(issued) : Rejects(t) => Rejects(t)'
<1> USE DEF Rejects, may
<1>1. issued \in Seq(Person) /\ Len(issued) \in Nat /\ valid \subseteq DOMAIN issued
      /\ entering \subseteq Person
  BY DEF SessionInv, SessionTypeOK
<1>2. CASE Entered
  <2>1. PICK u \in entering :
          /\ issued' = Append(issued, u) /\ valid' = valid \cup {Len(issued) + 1}
          /\ UNCHANGED <<scenario, restoring>>
    BY <1>2 DEF Entered
  <2>2. Len(issued') = Len(issued) + 1
    BY <1>1, <2>1, Issuing
  <2> QED BY <1>1, <2>1, <2>2
<1>3. CASE UNCHANGED <<scenario, issued>> /\ valid' \subseteq valid
  BY <1>1, <1>3
<1> QED
  BY <1>2, <1>3
  DEF SessionStep, SessionReloads, SessionStays, RestoreReloads, Open, MeAnswers, Restored,
      NotRestored, RefusedReloads, RefusedStays, Enter, EnterRefused, Logout, Expire, GoTo,
      session

LEMMA NextIsSessionStep ==
  ASSUME [Next]_vars
  PROVE  SessionStep
BY DEF Next, vars, SessionStep, SessionNext, Mount, Answer, ListAnswers, Loaded, CallRefused,
       OperationReplied, Refused, Operate, Work, Poll, StartTick, StatusAnswers, StatusReplied

-----------------------------------------------------------------------------
(* The page.                                                               *)
LEMMA Rows ==
  ASSUME SessionInv
  PROVE  /\ <<>> \in Lists /\ DOMAIN <<>> = {}
         /\ Idle \in CallRow /\ Idle.state = "idle" /\ ~Idle.mine /\ Idle.token = 0
         /\ \A state \in {"sent", "refused", "operated"}, mine \in BOOLEAN :
              LET row == Sent(state, mine)
              IN  row \in CallRow /\ row.state = state /\ row.mine = mine /\ row.token = token
         /\ NoTick \in TickRow /\ ~NoTick.on /\ ~NoTick.mine /\ NoTick.token = 0
         /\ NoTick.answer = "none" /\ NoTick.next = {}
<1>1. DOMAIN <<>> = {} /\ <<>> \in [{} -> Status]
  OBVIOUS
<1>2. <<>> \in Lists
  BY <1>1 DEF Lists
<1>3. token \in Nat
  BY DEF SessionInv, SessionTypeOK
<1>4. Idle \in CallRow /\ Idle.state = "idle" /\ ~Idle.mine /\ Idle.token = 0
  BY <1>2 DEF Idle, CallRow
<1>5. ASSUME NEW state \in {"sent", "refused", "operated"}, NEW mine \in BOOLEAN
      PROVE  LET row == Sent(state, mine)
             IN  row \in CallRow /\ row.state = state /\ row.mine = mine /\ row.token = token
  BY <1>2, <1>3 DEF Sent, CallRow
<1>6. /\ NoTick \in TickRow /\ ~NoTick.on /\ ~NoTick.mine /\ NoTick.token = 0
      /\ NoTick.answer = "none" /\ NoTick.next = {}
  BY DEF NoTick, TickRow
<1> QED BY <1>1, <1>2, <1>4, <1>5, <1>6

LEMMA CallBecomes ==
  ASSUME PageShapes, NEW k \in Call, NEW row \in CallRow, calls' = [calls EXCEPT ![k] = row]
  PROVE  /\ calls' \in [Call -> CallRow] /\ calls'[k] = row
         /\ \A i \in Call \ {k} : calls'[i] = calls[i]
BY DEF PageShapes

\* Whatever ends the page leaves nothing to watch.
LEMMA UnmountKeeps ==
  ASSUME SessionInv, SessionInv', SessionStep, PageInv, UNCHANGED truth,
         NEW reload \in BOOLEAN, Unmount(reload)
  PROVE  PageInv'
<1>1. /\ mounted' = FALSE /\ docs' = <<>> /\ pendingIds' = {}
      /\ calls' = [k \in Call |-> IF reload THEN Idle ELSE [calls[k] EXCEPT !.mine = FALSE]]
      /\ ticks' = [t \in Tick |-> IF reload THEN NoTick ELSE [ticks[t] EXCEPT !.mine = FALSE]]
  BY DEF Unmount
<1>2. /\ calls' \in [Call -> CallRow]
      /\ \A k \in Call :
           /\ ~calls'[k].mine
           /\ calls'[k].token \in {0, calls[k].token}
           /\ calls'[k].state = "refused" =>
                calls[k].state = "refused" /\ calls'[k].token = calls[k].token
  <2>1. \A k \in Call :
          LET row == [calls[k] EXCEPT !.mine = FALSE]
          IN  row \in CallRow /\ ~row.mine /\ row.token = calls[k].token
              /\ row.state = calls[k].state
    BY DEF PageInv, PageShapes, CallRow
  <2> QED BY <1>1, <2>1, Rows
<1>3. /\ ticks' \in [Tick -> TickRow]
      /\ \A t \in Tick :
           /\ ~ticks'[t].mine
           /\ ticks'[t].token \in {0, ticks[t].token}
           /\ ticks'[t].answer = "refused" =>
                ticks[t].answer = "refused" /\ ticks'[t].token = ticks[t].token
  <2>1. \A t \in Tick :
          LET row == [ticks[t] EXCEPT !.mine = FALSE]
          IN  row \in TickRow /\ ~row.mine /\ row.token = ticks[t].token
              /\ row.answer = ticks[t].answer
    BY DEF PageInv, PageShapes, TickRow
  <2> QED BY <1>1, <2>1, Rows
<1>4. PageShapes'
  BY <1>1, <1>2, <1>3, Rows DEF PageInv, PageShapes
<1>5. PageThere'
  BY <1>1, <1>2, <1>3 DEF PageThere
<1>6. Refusals'
  BY <1>2, <1>3, TokensOnce DEF PageInv, Refusals
<1>7. Watched'
  BY <1>1, Rows DEF Watched
<1> QED BY <1>4, <1>5, <1>6, <1>7 DEF PageInv

\* The session changes and the page does not.
LEMMA SessionAlone ==
  ASSUME SessionInv, SessionStep, PageInv, path' = "/app" \/ ~mounted,
         UNCHANGED <<truth, page, calls, ticks>>
  PROVE  PageInv'
<1>1. PageShapes'
  BY DEF PageInv, PageShapes, page
<1>2. PageThere'
  BY DEF PageInv, PageThere, page
<1>3. Refusals'
  BY TokensOnce DEF PageInv, Refusals
<1>4. Watched'
  BY TokensOnce DEF PageInv, Watched, page, may
<1> QED BY <1>1, <1>2, <1>3, <1>4 DEF PageInv

LEMMA SessionNextKeeps ==
  ASSUME SessionInv, SessionInv', PageInv, SessionNext
  PROVE  PageInv'
<1>1. SessionStep
  BY DEF SessionNext, SessionStep
<1>2. CASE Unmount(TRUE) \/ Unmount(FALSE)
  BY <1>1, <1>2, UnmountKeeps DEF SessionNext
<1>3. CASE path' = "/app" /\ UNCHANGED <<page, calls, ticks>>
  BY <1>1, <1>3, SessionAlone DEF SessionNext
<1> QED BY <1>2, <1>3 DEF SessionNext

\* A 401 that finds the tab at the login page finds no page there.
LEMMA RefusedKeeps ==
  ASSUME SessionInv, SessionInv', PageInv, NEW k \in Call, CallRefused(k)
  PROVE  PageInv'
<1>1. CASE RefusedReloads /\ Unmount(TRUE)
  BY <1>1, UnmountKeeps DEF CallRefused, SessionStep
<1>2. CASE RefusedStays /\ calls' = [calls EXCEPT ![k] = Idle] /\ UNCHANGED <<page, ticks>>
  <2>1. SessionStep /\ ~mounted /\ path' = path /\ UNCHANGED truth
    BY <1>2 DEF CallRefused, SessionStep, RefusedStays, PageInv, PageThere
  <2>2. calls' \in [Call -> CallRow] /\ calls'[k] = Idle
        /\ \A i \in Call \ {k} : calls'[i] = calls[i]
    BY <1>2, Rows, CallBecomes DEF PageInv
  <2>3. PageShapes'
    BY <1>2, <2>1, <2>2 DEF PageInv, PageShapes, page
  <2>4. PageThere'
    BY <1>2, <2>1, <2>2, Rows DEF PageInv, PageThere, page
  <2>5. Refusals'
    BY <1>2, <2>1, <2>2, Rows, TokensOnce DEF PageInv, Refusals
  <2>6. Watched'
    BY <1>2, <2>1, Rows DEF PageInv, PageThere, Watched, page
  <2> QED BY <2>3, <2>4, <2>5, <2>6 DEF PageInv
<1> QED BY <1>1, <1>2 DEF CallRefused, Refused

\* One call changes, to a row that needs no new page and no older token.
LEMMA CallStep ==
  ASSUME SessionInv, PageInv, UNCHANGED <<session, mounted, ticks>>,
         truth' \in [Doc -> Status \cup {"absent", "gone"}],
         NEW k \in Call, NEW row \in CallRow, calls' = [calls EXCEPT ![k] = row],
         row.mine => mounted, row.token \in {0, token, calls[k].token},
         row.state = "refused" => Rejects(row.token),
         docs' \in Lists, pendingIds' \in SUBSET Doc,
         ~mounted => docs' = docs /\ pendingIds' = pendingIds,
         Watched'
  PROVE  PageInv'
<1>1. calls' \in [Call -> CallRow] /\ calls'[k] = row
      /\ \A i \in Call \ {k} : calls'[i] = calls[i]
  BY CallBecomes DEF PageInv
<1>2. UNCHANGED <<scenario, issued, valid, token, path>>
  BY DEF session
<1>3. token \in 0 .. Len(issued) /\ Len(issued) \in Nat
  BY DEF SessionInv, SessionTypeOK
<1>4. PageShapes'
  BY <1>1 DEF PageInv, PageShapes
<1>5. PageThere'
  BY <1>1, <1>2 DEF PageInv, PageThere
<1>6. Refusals'
  BY <1>1, <1>2, <1>3 DEF PageInv, Refusals, Rejects, may
<1> QED BY <1>4, <1>5, <1>6 DEF PageInv

LEMMA MountKeeps ==
  ASSUME SessionInv, PageInv, NEW k \in Call, Mount(k)
  PROVE  PageInv'
<1>1. /\ path = "/app" /\ ~mounted /\ mounted' = TRUE
      /\ calls' = [calls EXCEPT ![k] = Sent("sent", TRUE)]
      /\ UNCHANGED <<session, truth, docs, pendingIds, ticks>> /\ docs = <<>>
  BY DEF Mount, PageInv, PageThere
<1>2. calls' \in [Call -> CallRow] /\ calls'[k] = Sent("sent", TRUE)
      /\ \A i \in Call \ {k} : calls'[i] = calls[i]
  BY <1>1, Rows, CallBecomes DEF PageInv
<1>3. UNCHANGED <<scenario, issued, valid, token, path>>
  BY <1>1 DEF session
<1>4. PageShapes'
  BY <1>1, <1>2 DEF PageInv, PageShapes
<1>5. PageThere'
  BY <1>1, <1>2, <1>3 DEF PageInv, PageThere
<1>6. Refusals'
  BY <1>1, <1>2, <1>3, Rows DEF PageInv, Refusals, SessionInv, SessionTypeOK, Rejects, may
<1>7. Watched'
  BY <1>1, Rows DEF Watched
<1> QED BY <1>4, <1>5, <1>6, <1>7 DEF PageInv

LEMMA ListAnswersKeeps ==
  ASSUME SessionInv, PageInv, NEW k \in Call, ListAnswers(k)
  PROVE  PageInv'
<1>1. /\ calls[k].state = "sent" /\ calls[k] \in CallRow
      /\ UNCHANGED <<session, truth, mounted, docs, pendingIds, ticks, scenario, valid>>
      /\ truth \in [Doc -> Status \cup {"absent", "gone"}]
      /\ docs \in Lists /\ pendingIds \in SUBSET Doc
  BY DEF ListAnswers, PageInv, PageShapes, page, session
<1>2. [d \in Listed |-> truth[d]] \in Lists
  <2>1. Listed \subseteq Doc /\ [d \in Listed |-> truth[d]] \in [Listed -> Status]
    BY <1>1 DEF Listed, Status
  <2> QED BY <2>1 DEF Lists
<1>3. ASSUME NEW row \in CallRow, calls' = [calls EXCEPT ![k] = row],
             row.token = calls[k].token, row.mine = calls[k].mine,
             row.state \in {"listed", "refused"},
             row.state = "refused" => Rejects(row.token)
      PROVE  PageInv'
  <2>1. calls'[k] = row /\ \A i \in Call \ {k} : calls'[i] = calls[i]
    BY <1>3, CallBecomes DEF PageInv
  <2>2. \A i \in Call : calls[i].mine /\ calls[i].state \in {"sent", "listed", "refused"}
          => calls'[i].mine /\ calls'[i].state \in {"sent", "listed", "refused"}
    BY <1>3, <2>1
  <2>3. Watched'
    BY <1>1, <2>2 DEF PageInv, Watched, may
  <2>4. row.mine => mounted
    BY <1>3 DEF PageInv, PageThere
  <2> QED BY <1>1, <1>3, <2>3, <2>4, CallStep
<1>4. CASE calls' = [calls EXCEPT ![k].state = "listed",
                                  ![k].list = [d \in Listed |-> truth[d]]]
  <2> DEFINE row == [calls[k] EXCEPT !.state = "listed", !.list = [d \in Listed |-> truth[d]]]
  <2>1. /\ row \in CallRow /\ row.token = calls[k].token /\ row.mine = calls[k].mine
        /\ row.state = "listed"
    BY <1>1, <1>2 DEF CallRow
  <2>2. calls' = [calls EXCEPT ![k] = row]
    BY <1>4
  <2> HIDE DEF row
  <2> QED BY <1>3, <2>1, <2>2
<1>5. CASE Rejects(calls[k].token) /\ calls' = [calls EXCEPT ![k].state = "refused"]
  <2> DEFINE row == [calls[k] EXCEPT !.state = "refused"]
  <2>1. /\ row \in CallRow /\ row.token = calls[k].token /\ row.mine = calls[k].mine
        /\ row.state = "refused"
    BY <1>1 DEF CallRow
  <2>2. calls' = [calls EXCEPT ![k] = row]
    BY <1>5
  <2> HIDE DEF row
  <2> QED BY <1>3, <1>5, <2>1, <2>2
<1>6. CASE "net" \in may /\ calls' = [calls EXCEPT ![k] = Idle]
  <2>1. Watched'
    BY <1>1, <1>6 DEF Watched, may
  <2> QED BY <1>1, <1>6, <2>1, Rows, CallStep
<1> QED BY <1>4, <1>5, <1>6 DEF ListAnswers

LEMMA LoadedKeeps ==
  ASSUME SessionInv, PageInv, NEW k \in Call, Loaded(k)
  PROVE  PageInv'
<1>1. /\ calls' = [calls EXCEPT ![k] = Idle] /\ calls[k] \in CallRow
      /\ UNCHANGED <<session, truth, mounted, ticks, scenario>>
      /\ truth \in [Doc -> Status \cup {"absent", "gone"}]
      /\ docs \in Lists /\ pendingIds \in SUBSET Doc
      /\ calls[k].mine => mounted
  BY DEF Loaded, PageInv, PageShapes, PageThere, session
<1>2. calls'[k] = Idle /\ \A i \in Call \ {k} : calls'[i] = calls[i]
  BY <1>1, Rows, CallBecomes DEF PageInv
<1>3. CASE calls[k].mine
  <2>1. PICK list \in Lists : list = calls[k].list
    BY <1>1 DEF CallRow
  <2>2. /\ docs' = list
        /\ pendingIds' = {d \in DOMAIN list : list[d] \in Unfinished}
    BY <1>3, <2>1 DEF Loaded
  <2>3. DOMAIN list \subseteq Doc
    BY <2>1 DEF Lists
  <2>4. Watched'
    BY <2>2 DEF Watched
  <2>5. pendingIds' \in SUBSET Doc
    BY <2>2, <2>3
  <2> QED BY <1>1, <1>3, <2>2, <2>4, <2>5, Rows, CallStep
<1>4. CASE ~calls[k].mine
  <2>1. docs' = docs /\ pendingIds' = pendingIds
    BY <1>4 DEF Loaded
  <2>2. Watched'
    BY <1>1, <1>2, <1>4, <2>1 DEF PageInv, Watched, may
  <2> QED BY <1>1, <2>1, <2>2, Rows, CallStep
<1> QED BY <1>3, <1>4

LEMMA RepliedKeeps ==
  ASSUME SessionInv, PageInv, NEW k \in Call, OperationReplied(k)
  PROVE  PageInv'
<1>1. /\ calls[k].state = "operated"
      /\ UNCHANGED <<session, truth, mounted, docs, pendingIds, ticks, scenario>>
      /\ truth \in [Doc -> Status \cup {"absent", "gone"}]
      /\ docs \in Lists /\ pendingIds \in SUBSET Doc
      /\ calls[k].mine \in BOOLEAN /\ (calls[k].mine => mounted)
  BY DEF OperationReplied, PageInv, PageShapes, PageThere, CallRow, page, session
<1>2. PICK row \in {Sent("sent", calls[k].mine), Idle} :
        calls' = [calls EXCEPT ![k] = row] /\ (row.mine => calls[k].mine)
  BY <1>1, Rows DEF OperationReplied
<1>3. row \in CallRow
  BY <1>1, Rows
<1>4. calls'[k] = row /\ \A i \in Call \ {k} : calls'[i] = calls[i]
  BY <1>2, <1>3, CallBecomes DEF PageInv
<1>5. Watched'
  BY <1>1, <1>4 DEF PageInv, Watched, may
<1> QED BY <1>1, <1>2, <1>3, <1>5, Rows, CallStep

LEMMA OperateKeeps ==
  ASSUME SessionInv, PageInv, NEW k \in Call, NEW d \in Doc, NEW new \in {"pending", "gone"},
         Operate(k, d, new)
  PROVE  PageInv'
<1>1. /\ mounted /\ calls[k] = Idle
      /\ UNCHANGED <<session, mounted, docs, pendingIds, ticks, scenario>>
      /\ truth \in [Doc -> Status \cup {"absent", "gone"}]
      /\ docs \in Lists /\ pendingIds \in SUBSET Doc
      /\ truth' \in {truth, [truth EXCEPT ![d] = new]}
  BY DEF Operate, Free, PageInv, PageShapes, page, session
<1>2. truth' \in [Doc -> Status \cup {"absent", "gone"}]
  BY <1>1 DEF Status
<1>3. PICK row \in CallRow :
        /\ row.token = token /\ calls' = [calls EXCEPT ![k] = row]
        /\ row.state = "refused" => Rejects(row.token)
  <2>1. CASE calls' = [calls EXCEPT ![k] = Sent("operated", TRUE)]
    BY <2>1, Rows
  <2>2. CASE Rejects(token) /\ calls' = [calls EXCEPT ![k] = Sent("refused", TRUE)]
    BY <2>2, Rows
  <2> QED BY <2>1, <2>2 DEF Operate
<1>4. calls'[k] = row /\ \A i \in Call \ {k} : calls'[i] = calls[i]
  BY <1>3, CallBecomes DEF PageInv
<1>5. Watched'
  BY <1>1, <1>4, Rows DEF PageInv, Watched, may
<1> QED BY <1>1, <1>2, <1>3, <1>5, CallStep

LEMMA WorkKeeps ==
  ASSUME PageInv, NEW d \in Doc, Work(d)
  PROVE  PageInv'
<1>1. /\ UNCHANGED <<session, page, calls, ticks>>
      /\ \E new \in Status : truth' = [truth EXCEPT ![d] = new]
  BY DEF Work, Status
<1>2. truth' \in [Doc -> Status \cup {"absent", "gone"}]
  BY <1>1 DEF PageInv, PageShapes
<1> QED
  BY <1>1, <1>2
  DEF PageInv, PageShapes, PageThere, Refusals, Watched, page, session, Rejects, may

-----------------------------------------------------------------------------
(* Ticks.                                                                  *)
LEMMA TickBecomes ==
  ASSUME PageShapes, NEW t \in Tick, NEW row \in TickRow, ticks' = [ticks EXCEPT ![t] = row]
  PROVE  /\ ticks' \in [Tick -> TickRow] /\ ticks'[t] = row
         /\ \A i \in Tick \ {t} : ticks'[i] = ticks[i]
BY DEF PageShapes

\* A tick changes, and everything else is as it was.
LEMMA TickStep ==
  ASSUME SessionInv, PageInv, UNCHANGED <<session, truth, page, calls>>,
         NEW t \in Tick, NEW row \in TickRow, ticks' = [ticks EXCEPT ![t] = row],
         row.mine => row.on /\ mounted, row.token \in {token, ticks[t].token},
         row.answer = "refused" => Rejects(row.token)
  PROVE  PageInv'
<1>1. ticks' \in [Tick -> TickRow] /\ ticks'[t] = row
      /\ \A i \in Tick \ {t} : ticks'[i] = ticks[i]
  BY TickBecomes DEF PageInv
<1>2. UNCHANGED <<scenario, issued, valid, token, path>> /\ token \in 0 .. Len(issued)
  BY DEF session, SessionInv, SessionTypeOK
<1>3. PageShapes'
  BY <1>1 DEF PageInv, PageShapes, page
<1>4. PageThere'
  BY <1>1, <1>2 DEF PageInv, PageThere, page
<1>5. Refusals'
  BY <1>1, <1>2 DEF PageInv, Refusals, Rejects, may
<1> QED BY <1>2, <1>3, <1>4, <1>5 DEF PageInv, Watched, page, may

\* A status has been answered: the next one is asked for, or the tick ends. A
\* poll that ends for want of ids ends in a load.
LEMMA TickGoesOnKeeps ==
  ASSUME SessionInv, SessionInv', SessionStep, PageInv, UNCHANGED <<truth, path>>,
         NEW t \in Tick, NEW d \in Doc, TickGoesOn(t, d)
  PROVE  PageInv'
<1> DEFINE next == IF ticks[t].answer = "unfinished" THEN ticks[t].next \cup {d}
                   ELSE ticks[t].next
           left == ticks[t].left \ {d}
           asking == [ticks[t] EXCEPT !.left = left, !.next = next,
                                      !.token = token', !.answer = "none"]
<1>1. /\ ticks[t] \in TickRow /\ pendingIds \in SUBSET Doc
      /\ next \in SUBSET Doc /\ left \in SUBSET Doc /\ ticks[t].mine \in BOOLEAN
      /\ ticks[t].mine => ticks[t].on /\ mounted
      /\ UNCHANGED <<mounted, docs, scenario>>
      /\ Len(issued) \in Nat /\ Len(issued') \in Nat /\ Len(issued) <= Len(issued')
      /\ token' \in 0 .. Len(issued')
  BY TokensOnce DEF PageInv, PageShapes, PageThere, TickRow, TickGoesOn, SessionInv, SessionTypeOK
<1>2. PICK row \in TickRow :
        /\ ticks' = [ticks EXCEPT ![t] = row]
        /\ row.mine => ticks[t].mine /\ row.on
        /\ row.token \in {0, token'} /\ row.answer = "none"
  <2>1. ticks' = [ticks EXCEPT ![t] = IF left = {} THEN NoTick ELSE asking]
    BY DEF TickGoesOn
  <2>2. /\ asking \in TickRow /\ asking.mine = ticks[t].mine /\ asking.on = ticks[t].on
        /\ asking.token = token' /\ asking.answer = "none"
    <3>1. token' \in Nat
      BY <1>1
    <3>2. PICK n : n = token'
      OBVIOUS
    <3>3. asking = [ticks[t] EXCEPT !.left = left, !.next = next, !.token = n, !.answer = "none"]
      BY <3>2
    <3>4. ticks[t] \in TickRow /\ left \in SUBSET Doc /\ next \in SUBSET Doc /\ n \in Nat
      BY <1>1, <3>1, <3>2
    <3> HIDE DEF left, next, asking
    <3> QED BY <3>2, <3>3, <3>4 DEF TickRow
  <2> HIDE DEF asking
  <2> QED BY <1>1, <2>1, <2>2, Rows
<1>3. ticks' \in [Tick -> TickRow] /\ ticks'[t] = row
      /\ \A i \in Tick \ {t} : ticks'[i] = ticks[i]
  BY <1>2, TickBecomes DEF PageInv
<1>4. pendingIds' = IF left = {} /\ ticks[t].mine THEN next ELSE pendingIds
  BY DEF TickGoesOn
<1>5. (\A i \in Tick : /\ ticks[i].token \in 0 .. Len(issued)
                       /\ ticks[i].answer = "refused" => Rejects(ticks[i].token))'
  <2>1. ASSUME NEW i \in Tick \ {t}
        PROVE  /\ ticks'[i] = ticks[i] /\ ticks[i].token \in 0 .. Len(issued)
               /\ ticks[i].answer = "refused" => Rejects(ticks[i].token)'
    BY <1>3, TokensOnce DEF PageInv, Refusals
  <2> QED BY <1>1, <1>2, <1>3, <2>1 DEF Rejects
<1>6. \A i \in Tick : ticks'[i].mine => ticks'[i].on /\ mounted
  BY <1>1, <1>2, <1>3 DEF PageInv, PageThere
<1>7. CASE left \cup next # {} /\ UNCHANGED calls
  <2>1. PageShapes'
    BY <1>1, <1>3, <1>4, <1>7 DEF PageInv, PageShapes
  <2>2. PageThere'
    BY <1>1, <1>4, <1>6, <1>7 DEF PageInv, PageThere
  <2>3. Refusals'
    BY <1>1, <1>5, <1>7, TokensOnce DEF PageInv, Refusals
  <2>4. Watched'
    BY <1>1, <1>4, <1>7 DEF PageInv, Watched, may
  <2> QED BY <2>1, <2>2, <2>3, <2>4 DEF PageInv
<1>8. ASSUME NEW k \in Call, Free(k), left \cup next = {},
             calls' = [calls EXCEPT ![k] = [Sent("sent", ticks[t].mine) EXCEPT !.token = token']]
      PROVE  PageInv'
  <2>1. PICK new \in CallRow :
          /\ calls' = [calls EXCEPT ![k] = new]
          /\ new.state = "sent" /\ new.mine = ticks[t].mine /\ new.token = token'
    <3> DEFINE w == [Sent("sent", ticks[t].mine) EXCEPT !.token = token']
    <3>1. w \in CallRow /\ w.state = "sent" /\ w.mine = ticks[t].mine /\ w.token = token'
      BY <1>1, Rows DEF Sent, CallRow
    <3>2. calls' = [calls EXCEPT ![k] = w]
      BY <1>8
    <3> HIDE DEF w
    <3> QED BY <3>1, <3>2
  <2>2. calls' \in [Call -> CallRow] /\ calls'[k] = new
        /\ \A i \in Call \ {k} : calls'[i] = calls[i]
    BY <2>1, CallBecomes DEF PageInv
  <2>3. calls[k] = Idle
    BY <1>8 DEF Free
  <2>4. PageShapes'
    BY <1>1, <1>3, <1>4, <2>2 DEF PageInv, PageShapes
  <2>5. PageThere'
    BY <1>1, <1>4, <1>6, <2>1, <2>2 DEF PageInv, PageThere
  <2>6. Refusals'
    BY <1>1, <1>5, <2>1, <2>2, TokensOnce DEF PageInv, Refusals
  <2>7. Watched'
    <3>1. CASE ticks[t].mine
      BY <2>1, <2>2, <3>1 DEF Watched
    <3>2. CASE ~ticks[t].mine
      BY <1>1, <1>4, <2>2, <2>3, <3>2, Rows DEF PageInv, Watched, may
    <3> QED BY <1>1, <3>1, <3>2
  <2> QED BY <2>4, <2>5, <2>6, <2>7 DEF PageInv
<1> QED BY <1>7, <1>8 DEF TickGoesOn

LEMMA PollKeeps ==
  ASSUME SessionInv, SessionInv', PageInv, NEW t \in Tick, Poll(t)
  PROVE  PageInv'
<1>1. ticks[t] \in TickRow /\ pendingIds \in SUBSET Doc /\ token \in Nat
      /\ (ticks[t].mine => ticks[t].on /\ mounted)
  BY DEF PageInv, PageShapes, PageThere, SessionInv, SessionTypeOK
<1>2. CASE StartTick(t)
  <2> DEFINE row == [NoTick EXCEPT !.on = TRUE, !.mine = TRUE,
                                   !.left = pendingIds, !.token = token]
  <2>1. row \in TickRow /\ row.on /\ row.token = token /\ row.answer = "none"
    BY <1>1 DEF NoTick, TickRow
  <2>2. mounted /\ ticks' = [ticks EXCEPT ![t] = row] /\ UNCHANGED <<session, truth, page, calls>>
    BY <1>2 DEF StartTick
  <2> HIDE DEF row
  <2> QED BY <2>1, <2>2, TickStep
<1>3. ASSUME NEW d \in Doc, StatusAnswers(t, d) PROVE PageInv'
  <2>1. PICK answer \in {"unfinished", "finished", "refused", "error"} :
          /\ answer = "refused" => Rejects(ticks[t].token)
          /\ ticks' = [ticks EXCEPT ![t].answer = answer]
          /\ UNCHANGED <<session, truth, page, calls>>
    BY <1>3 DEF StatusAnswers
  <2> DEFINE row == [ticks[t] EXCEPT !.answer = answer]
  <2>2. /\ row \in TickRow /\ row.on = ticks[t].on /\ row.mine = ticks[t].mine
        /\ row.token = ticks[t].token /\ row.answer = answer
    BY <1>1 DEF TickRow
  <2>3. ticks' = [ticks EXCEPT ![t] = row]
    BY <2>1
  <2> HIDE DEF row
  <2> QED BY <1>1, <2>1, <2>2, <2>3, TickStep
<1>4. ASSUME NEW d \in Doc, StatusReplied(t, d) PROVE PageInv'
  <2>1. CASE RefusedReloads /\ Unmount(TRUE)
    BY <1>4, <2>1, UnmountKeeps DEF StatusReplied, SessionStep
  <2>2. CASE RefusedStays /\ TickGoesOn(t, d)
    <3>1. SessionStep /\ UNCHANGED <<truth, path>>
      BY <1>4, <2>2 DEF StatusReplied, SessionStep, RefusedStays
    <3> QED BY <2>2, <3>1, TickGoesOnKeeps
  <2>3. CASE UNCHANGED session /\ TickGoesOn(t, d)
    <3>1. SessionStep /\ UNCHANGED <<truth, path>>
      BY <1>4, <2>3 DEF StatusReplied, SessionStep, session
    <3> QED BY <2>3, <3>1, TickGoesOnKeeps
  <2> QED BY <1>4, <2>1, <2>2, <2>3 DEF StatusReplied
<1> QED BY <1>2, <1>3, <1>4 DEF Poll

-----------------------------------------------------------------------------
LEMMA BrowserInit ==
  ASSUME Init
  PROVE  BrowserInv
<1>1. SessionInv
  <2>1. /\ scenario \in Scenarios /\ issued = <<>> /\ valid = {} /\ token = 0
        /\ kept = NoUser /\ user = NoUser /\ path = "/login"
        /\ restoring = {} /\ entering = {}
    BY DEF Init, SessionInit
  <2>2. issued \in Seq(Person) /\ Len(issued) = 0 /\ scenario.logins \in Nat
    BY <2>1, SessionAssumption
  <2>3. SessionTypeOK
    BY <2>1, <2>2 DEF SessionTypeOK, Path, Forms
  <2> QED BY <2>1, <2>3 DEF SessionInv
<1>2. /\ truth = [d \in Doc |-> "absent"] /\ mounted = FALSE /\ docs = <<>>
      /\ pendingIds = {} /\ calls = [k \in Call |-> Idle] /\ ticks = [t \in Tick |-> NoTick]
  BY DEF Init
<1>3. PageShapes
  BY <1>1, <1>2, Rows DEF PageShapes
<1>4. PageThere
  BY <1>1, <1>2, Rows DEF PageThere
<1>5. Refusals
  BY <1>1, <1>2, Rows DEF Refusals, SessionInv, SessionTypeOK
<1>6. Watched
  BY <1>2 DEF Watched
<1> QED BY <1>1, <1>3, <1>4, <1>5, <1>6 DEF BrowserInv, PageInv

LEMMA BrowserStep ==
  ASSUME BrowserInv, [Next]_vars
  PROVE  BrowserInv'
<1>1. SessionInv /\ PageInv /\ SessionStep
  BY NextIsSessionStep DEF BrowserInv
<1>2. SessionInv'
  BY <1>1, SessionStepKeeps
<1>3. PageInv'
  <2>1. CASE SessionNext
    BY <1>1, <1>2, <2>1, SessionNextKeeps
  <2>2. ASSUME NEW k \in Call, Mount(k) PROVE PageInv'
    BY <1>1, <2>2, MountKeeps
  <2>3. ASSUME NEW k \in Call, Answer(k) PROVE PageInv'
    <3>1. CASE ListAnswers(k)
      BY <1>1, <3>1, ListAnswersKeeps
    <3>2. CASE Loaded(k)
      BY <1>1, <3>2, LoadedKeeps
    <3>3. CASE CallRefused(k)
      BY <1>1, <1>2, <3>3, RefusedKeeps
    <3>4. CASE OperationReplied(k)
      BY <1>1, <3>4, RepliedKeeps
    <3> QED BY <2>3, <3>1, <3>2, <3>3, <3>4 DEF Answer
  <2>4. ASSUME NEW k \in Call, NEW d \in Doc, NEW new \in {"pending", "gone"},
               Operate(k, d, new)
        PROVE  PageInv'
    BY <1>1, <2>4, OperateKeeps
  <2>5. ASSUME NEW d \in Doc, Work(d) PROVE PageInv'
    BY <1>1, <2>5, WorkKeeps
  <2>6. ASSUME NEW t \in Tick, Poll(t) PROVE PageInv'
    BY <1>1, <1>2, <2>6, PollKeeps
  <2>7. CASE UNCHANGED vars
    BY <1>1, <2>7 DEF vars, pageVars, page, session, PageInv, PageShapes, PageThere,
       Refusals, Watched, Rejects, may
  <2> QED BY <2>1, <2>2, <2>3, <2>4, <2>5, <2>6, <2>7 DEF Next
<1> QED BY <1>2, <1>3 DEF BrowserInv

-----------------------------------------------------------------------------
(* The theorems.                                                           *)
\* The session, the page and the calls between them stay consistent in every
\* behaviour.
THEOREM BrowserInvariant == Spec => []BrowserInv
<1>1. Init => BrowserInv
  BY BrowserInit
<1>2. BrowserInv /\ [Next]_vars => BrowserInv'
  BY BrowserStep
<1> QED BY <1>1, <1>2, PTL DEF Spec

\* Everything has its type, and a page that is not there shows and polls nothing
\* although calls and ticks it started are still answered.
THEOREM BrowserTypeCorrect == Spec => []TypeOK
<1>1. BrowserInv => TypeOK
  <2> SUFFICES ASSUME BrowserInv PROVE TypeOK
    OBVIOUS
  <2>1. DOMAIN docs \subseteq Doc /\ \A d \in DOMAIN docs : docs[d] \in Status
    BY DEF BrowserInv, PageInv, PageShapes, Lists
  <2>2. /\ \A t \in Tick : /\ ticks[t].left \cup ticks[t].next \subseteq Doc
                           /\ ticks[t].mine => ticks[t].on /\ mounted
        /\ \A k \in Call : calls[k].state \in {"idle", "sent", "listed", "refused", "operated"}
    BY DEF BrowserInv, PageInv, PageShapes, PageThere, TickRow, CallRow
  <2>3. /\ SessionTypeOK /\ truth \in [Doc -> Status \cup {"absent", "gone"}]
        /\ pendingIds \subseteq Doc /\ (mounted => path = "/app")
        /\ ~mounted => docs = <<>> /\ pendingIds = {}
    BY DEF BrowserInv, SessionInv, PageInv, PageShapes, PageThere
  <2> QED BY <2>1, <2>2, <2>3 DEF TypeOK
<1> QED BY <1>1, BrowserInvariant, PTL

\* The user whose name the pages show is the one the token belongs to, through
\* reloads, logins, expiry and answers that come late.
THEOREM ShownUserIsTokens == Spec => []ShownUserOwnsToken
<1>1. BrowserInv => ShownUserOwnsToken
  BY DEF BrowserInv, SessionInv, ShownUserOwnsToken
<1> QED BY <1>1, BrowserInvariant, PTL

\* A document shown as unfinished is polled or about to be loaded anew, however
\* loads, ticks and operations overlap.
THEOREM UnfinishedStaysWatched == Spec => []UnfinishedIsWatched
<1>1. BrowserInv => UnfinishedIsWatched
  BY DEF BrowserInv, PageInv, Watched, UnfinishedIsWatched
<1> QED BY <1>1, BrowserInvariant, PTL

\* A step that takes a token away that the server accepts is a logout, a failed
\* or a new login, the end of a /me that was not answered, or a 401 to a call made
\* with another token or to one whose user could not be looked up.
THEOREM SessionIsKept == Spec => SessionKept
<1> DEFINE Excuse == \/ \E call \in restoring : call.answer = "error"
                     \/ \E t \in RefusedTokens : t # token \/ "lookup" \in may
<1>1. BrowserInv /\ [Next]_vars =>
        [(token \in valid /\ token' # token) => (Logout \/ entering # {} \/ Excuse)]_vars
  <2> SUFFICES ASSUME BrowserInv, Next, token \in valid, token' # token,
                      ~Logout, entering = {}
               PROVE  Excuse
    BY Zenon
  <2>1. \A t \in RefusedTokens : Rejects(t) => Excuse
    BY DEF Rejects
  <2>2. ASSUME NEW call \in restoring, call.answer \in {"refused", "error"} PROVE Excuse
    <3>1. CASE call.answer = "error"
      BY <3>1
    <3>2. CASE call.answer = "refused"
      BY <2>1, <3>2 DEF BrowserInv, SessionInv, RefusedTokens
    <3> QED BY <2>2, <3>1, <3>2
  <2>3. ASSUME NEW k \in Call, calls[k].state = "refused" PROVE Excuse
    BY <2>1, <2>3 DEF BrowserInv, PageInv, Refusals, RefusedTokens
  <2>4. ASSUME NEW t \in Tick, ticks[t].answer = "refused" PROVE Excuse
    BY <2>1, <2>4 DEF BrowserInv, PageInv, Refusals, RefusedTokens
  <2> HIDE DEF Excuse
  <2>5. CASE SessionNext
    BY <2>2, <2>5 DEF SessionNext, SessionReloads, SessionStays, Open, RestoreReloads,
       MeAnswers, Restored, NotRestored, Enter, Entered, EnterRefused, Expire, GoTo
  <2>6. ASSUME NEW k \in Call, Mount(k) \/ Answer(k) PROVE Excuse
    BY <2>3, <2>6 DEF Mount, Answer, ListAnswers, Loaded, CallRefused, OperationReplied, session
  <2>7. ASSUME NEW t \in Tick, Poll(t) PROVE Excuse
    BY <2>4, <2>7 DEF Poll, StartTick, StatusAnswers, StatusReplied, session
  <2> QED BY <2>5, <2>6, <2>7 DEF Next, Operate, Work, session
<1> QED BY <1>1, BrowserInvariant, PTL DEF Spec, SessionKept
=============================================================================
