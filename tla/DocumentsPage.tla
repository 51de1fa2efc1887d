---------------------------- MODULE DocumentsPage ----------------------------
(***************************************************************************)
(* The page that lists the documents of a knowledge base and polls those   *)
(* that are not indexed yet, in the tab whose session ClientSession is.    *)
(* Its loads and its ticks overlap: a tick works on the ids it was started *)
(* with, and each answer is applied when it arrives, also after the page   *)
(* has gone.                                                               *)
(***************************************************************************)
EXTENDS ClientSession

CONSTANTS
  MaxDocs,  \* bound: documents uploaded
  Call,     \* bound: loads and operations under way
  Tick      \* bound: ticks under way

VARIABLES
  truth,       \* the status of each document in the database
  ops,         \* operations so far
  mounted,     \* the page is there
  docs,        \* the statuses it shows
  pendingIds,  \* the documents it polls
  calls,       \* each load or operation under way
  ticks        \* each tick: the ids still to ask for, those to keep, and the
               \* request under way with its token and answer

page == <<mounted, docs, pendingIds>>
pageVars == <<truth, ops, page, calls, ticks>>
vars == <<session, pageVars>>

Doc == 1 .. MaxDocs  \* in the order in which they are uploaded
Unfinished == {"pending", "indexing"}
Listed == {d \in Doc : truth[d] \notin {"absent", "gone"}}
Idle == [state |-> "idle", token |-> 0, mine |-> FALSE, list |-> <<>>]
NoTick == [on |-> FALSE, mine |-> FALSE, left |-> {}, next |-> {},
           token |-> 0, answer |-> "none"]

Init ==
  /\ SessionInit
  /\ truth = [d \in Doc |-> "absent"] /\ ops = 0
  /\ mounted = FALSE /\ docs = <<>> /\ pendingIds = {}
  /\ calls = [k \in Call |-> Idle]
  /\ ticks = [t \in Tick |-> NoTick]

-----------------------------------------------------------------------------
MutantUnmountKeepsPolling(reload) ==
  /\ mounted' = FALSE /\ docs' = <<>> /\ UNCHANGED pendingIds
  /\ calls' = [k \in Call |-> IF reload THEN Idle ELSE [calls[k] EXCEPT !.mine = FALSE]]
  /\ ticks' = [t \in Tick |-> IF reload THEN NoTick ELSE [ticks[t] EXCEPT !.mine = FALSE]]

\* The page goes and its timer is cleared. A reload ends its calls and ticks;
\* otherwise those under way go on, though what they bring is shown to nobody.
Unmount(reload) ==
  /\ mounted' = FALSE /\ docs' = <<>> /\ pendingIds' = {}
  /\ calls' = [k \in Call |-> IF reload THEN Idle ELSE [calls[k] EXCEPT !.mine = FALSE]]
  /\ ticks' = [t \in Tick |-> IF reload THEN NoTick ELSE [ticks[t] EXCEPT !.mine = FALSE]]

\* A 401 to a call of the page, by way of the interceptor.
Refused(k) ==
  \/ RefusedReloads /\ Unmount(TRUE)
  \/ RefusedStays /\ calls' = [calls EXCEPT ![k] = Idle] /\ UNCHANGED <<page, ticks>>

\* Calls and ticks under way are as many as they are; the lowest free number is
\* taken by the next.
Free(k) == calls[k] = Idle /\ \A i \in Call : i < k => calls[i] # Idle

\* A call carries the token of the moment, whoever makes it.
Sent(state, mine) == [state |-> state, token |-> token, mine |-> mine, list |-> <<>>]

Mount(k) ==
  /\ path = "/app" /\ ~mounted /\ Free(k)
  /\ mounted' = TRUE
  /\ calls' = [calls EXCEPT ![k] = Sent("sent", TRUE)]
  /\ UNCHANGED <<session, truth, ops, docs, pendingIds, ticks>>

\* The list is read, for the token the call was sent with.
ListAnswers(k) ==
  /\ calls[k].state = "sent"
  /\ \/ /\ calls[k].token \in valid
        /\ calls' = [calls EXCEPT ![k].state = "listed",
                                  ![k].list = [d \in Listed |-> truth[d]]]
     \/ /\ Rejects(calls[k].token)
        /\ calls' = [calls EXCEPT ![k].state = "refused"]
     \/ /\ "net" \in may
        /\ calls' = [calls EXCEPT ![k] = Idle]
  /\ UNCHANGED <<session, truth, ops, page, ticks>>

MutantLoadedKeepsIds(k) ==
  /\ calls[k].state = "listed"
  /\ calls' = [calls EXCEPT ![k] = Idle]
  /\ docs' = IF calls[k].mine THEN calls[k].list ELSE docs
  /\ pendingIds' = IF calls[k].mine /\ pendingIds = {}
                   THEN {d \in DOMAIN calls[k].list : calls[k].list[d] = "pending"}
                   ELSE pendingIds
  /\ UNCHANGED <<session, truth, ops, mounted, ticks>>

\* load: the list and the ids to poll change together, whatever was shown.
Loaded(k) ==
  /\ calls[k].state = "listed"
  /\ calls' = [calls EXCEPT ![k] = Idle]
  /\ docs' = IF calls[k].mine THEN calls[k].list ELSE docs
  /\ pendingIds' = IF calls[k].mine
                   THEN {d \in DOMAIN calls[k].list : calls[k].list[d] \in Unfinished}
                   ELSE pendingIds
  /\ UNCHANGED <<session, truth, ops, mounted, ticks>>

CallRefused(k) == calls[k].state = "refused" /\ Refused(k) /\ UNCHANGED <<truth, ops>>

\* Upload, remove and reindex change a document; reindex writes "pending" over
\* whatever a worker has written meanwhile.
Changes(d, new) ==
  \/ truth[d] = "absent" /\ new = "pending" /\ \A e \in 1 .. d - 1 : truth[e] # "absent"
  \/ d \in DOMAIN docs /\ d \in Listed /\ new \in {"gone", "pending"}

Operate(k, d, new) ==
  /\ mounted /\ Free(k) /\ ops < scenario.ops
  /\ Changes(d, new)
  /\ \/ /\ token \in valid
        /\ truth' = [truth EXCEPT ![d] = new]
        /\ calls' = [calls EXCEPT ![k] = Sent("operated", TRUE)]
     \/ /\ Rejects(token)
        /\ calls' = [calls EXCEPT ![k] = Sent("refused", TRUE)]
        /\ UNCHANGED truth
  /\ ops' = ops + 1
  /\ UNCHANGED <<session, page, ticks>>

MutantRepliedAnyFailureIs401(k) ==
  /\ calls[k].state = "operated" /\ UNCHANGED <<truth, ops>>
  /\ \/ /\ calls' = [calls EXCEPT ![k] = Sent("sent", calls[k].mine)]
        /\ UNCHANGED <<session, page, ticks>>
     \/ "flaky" \in may /\ Refused(k)

\* Whoever hears that his operation was done loads, the page there or not.
OperationReplied(k) ==
  /\ calls[k].state = "operated"
  /\ \E failed \in {FALSE, "flaky" \in may} :
       calls' = [calls EXCEPT ![k] = IF failed THEN Idle ELSE Sent("sent", calls[k].mine)]
  /\ UNCHANGED <<session, truth, ops, page, ticks>>

\* Workers mark a document and settle it. Where attempts and enqueues fail, or the
\* job of a reindex is quicker than its request, a settled document is marked
\* again, and one that cannot be queued is settled as failed at once.
Work(d) ==
  /\ \/ truth[d] = "pending" /\ truth' = [truth EXCEPT ![d] = "indexing"]
     \/ truth[d] = "indexing" /\ truth' = [truth EXCEPT ![d] = "settled"]
     \/ /\ "again" \in may
        /\ \/ truth[d] = "settled" /\ truth' = [truth EXCEPT ![d] = "indexing"]
           \/ truth[d] = "pending" /\ truth' = [truth EXCEPT ![d] = "settled"]
  /\ UNCHANGED <<session, ops, page, calls, ticks>>

-----------------------------------------------------------------------------
\* The timer fires while there is something to poll, a tick under way or not.
StartTick(t) ==
  /\ mounted /\ pendingIds # {} /\ ~ticks[t].on
  /\ \A i \in Tick : i < t => ticks[i].on
  /\ ticks' = [ticks EXCEPT ![t] = [NoTick EXCEPT !.on = TRUE, !.mine = TRUE,
                                                 !.left = pendingIds, !.token = token]]
  /\ UNCHANGED <<session, truth, ops, page, calls>>

\* A tick asks for one document after the other, the newest first as the list
\* has them.
Asked(t, d) == d \in ticks[t].left /\ \A e \in ticks[t].left : e <= d

StatusAnswers(t, d) ==
  /\ Asked(t, d) /\ ticks[t].answer = "none"
  /\ \E answer \in {"unfinished", "finished", "refused", "error"} :
       /\ CASE answer = "unfinished" -> ticks[t].token \in valid /\ truth[d] \in Unfinished
            [] answer = "finished" -> ticks[t].token \in valid /\ truth[d] \notin Unfinished
            [] answer = "refused" -> Rejects(ticks[t].token)
            [] answer = "error" -> "flaky" \in may
       /\ ticks' = [ticks EXCEPT ![t].answer = answer]
  /\ UNCHANGED <<session, truth, ops, page, calls>>

\* Any failure drops the document, a missing one's 404 and a passing one alike.
\* Then the next is asked for or, with none left, the ids to poll become those
\* of this tick, and none of those means load.
MutantTickGoesOnForgets(t, d) ==
  LET next == IF ticks[t].answer = "unfinished" THEN ticks[t].next \cup {d} ELSE ticks[t].next
      left == ticks[t].left \ {d}
  IN  /\ ticks' = [ticks EXCEPT ![t] =
                     IF left = {} THEN NoTick
                     ELSE [@ EXCEPT !.left = left, !.next = next,
                                    !.token = token', !.answer = "none"]]
      /\ pendingIds' = IF left = {} /\ ticks[t].mine THEN next ELSE pendingIds
      /\ UNCHANGED <<mounted, docs, calls>>

TickGoesOn(t, d) ==
  LET next == IF ticks[t].answer = "unfinished" THEN ticks[t].next \cup {d} ELSE ticks[t].next
      left == ticks[t].left \ {d}
  IN  /\ ticks' = [ticks EXCEPT ![t] =
                     IF left = {} THEN NoTick
                     ELSE [@ EXCEPT !.left = left, !.next = next,
                                    !.token = token', !.answer = "none"]]
      /\ pendingIds' = IF left = {} /\ ticks[t].mine THEN next ELSE pendingIds
      /\ IF left \cup next # {} THEN UNCHANGED calls
         ELSE \E k \in Call : Free(k) /\ calls' = [calls EXCEPT ![k] =
                                [Sent("sent", ticks[t].mine) EXCEPT !.token = token']]
      /\ UNCHANGED <<mounted, docs>>

StatusReplied(t, d) ==
  /\ Asked(t, d) /\ ticks[t].answer # "none"
  /\ IF ticks[t].answer # "refused" THEN UNCHANGED session /\ TickGoesOn(t, d)
     ELSE \/ RefusedReloads /\ Unmount(TRUE)
          \/ RefusedStays /\ TickGoesOn(t, d)
  /\ UNCHANGED <<truth, ops>>

SessionNext ==
  /\ \/ SessionReloads /\ Unmount(TRUE)
     \/ SessionStays /\ IF path' = "/app" THEN UNCHANGED <<page, calls, ticks>>
                        ELSE Unmount(FALSE)
  /\ UNCHANGED <<truth, ops>>

Poll(t) == StartTick(t) \/ \E d \in Doc : StatusAnswers(t, d) \/ StatusReplied(t, d)
Answer(k) == ListAnswers(k) \/ Loaded(k) \/ CallRefused(k) \/ OperationReplied(k)

Next ==
  \/ SessionNext
  \/ \E k \in Call : Mount(k) \/ Answer(k)
  \/ \E k \in Call, d \in Doc, new \in {"pending", "gone"} : Operate(k, d, new)
  \/ \E d \in Doc : Work(d)
  \/ \E t \in Tick : Poll(t)

\* The timer and the network go on; users need not, and of the workers nothing
\* is assumed: a document may wait for ever (DocumentClaims shows three ways).
Fairness ==
  /\ \A k \in Call : WF_vars(Answer(k))
  /\ \A t \in Tick : WF_vars(Poll(t))

Spec == Init /\ [][Next]_vars /\ Fairness

-----------------------------------------------------------------------------
\* Everything has its type, and what is not mounted shows and polls nothing.
Status == {"pending", "indexing", "settled"}
TypeOK ==
  /\ SessionTypeOK
  /\ truth \in [Doc -> Status \cup {"absent", "gone"}]
  /\ DOMAIN docs \subseteq Doc /\ \A d \in DOMAIN docs : docs[d] \in Status
  /\ pendingIds \subseteq Doc
  /\ mounted => path = "/app"
  /\ ~mounted => docs = <<>> /\ pendingIds = {}
  /\ \A t \in Tick : /\ ticks[t].left \cup ticks[t].next \subseteq Doc
                     /\ ticks[t].mine => ticks[t].on /\ mounted
  /\ \A k \in Call : calls[k].state \in {"idle", "sent", "listed", "refused", "operated"}

\* A document shown as unfinished is looked at again: something is polled, or a
\* load is on its way, however loads, ticks and operations overlap and whatever
\* a tick has dropped. Only a load that fails may end this (DocumentsPage.tsx:61).
UnfinishedIsWatched ==
  "net" \notin may /\ (\E d \in DOMAIN docs : docs[d] \in Unfinished)
    => pendingIds # {} \/ \E k \in Call : calls[k].mine /\ calls[k].state # "idle"

\* And it does not stay so, once the documents have settled or are gone: the
\* page comes to show that, though an older answer may show them unfinished once
\* more. All of them, as the list is not loaded anew while one is polled.
ShownUnfinished(d) == mounted /\ d \in DOMAIN docs /\ docs[d] \in Unfinished
ShownSettles ==
  "net" \notin may /\ <>[](\A d \in Doc : truth[d] \notin Unfinished) =>
    \A d \in Doc : ShownUnfinished(d) ~> ~ShownUnfinished(d)

\* A session the server accepts is ended by its user, who logs out or fails to
\* log in anew, by a /me that is not answered (store/auth.ts:63), or by a 401:
\* one to a call made with another token, however late it comes (client.ts:35),
\* or any, if the user could not be looked up (service/auth.go:116). No other
\* failure of the page's overlapping calls ends it, nor does the expiry of an
\* older session alone.
RefusedTokens ==
  {call.token : call \in {c \in restoring : c.answer = "refused"}}
    \cup {calls[k].token : k \in {i \in Call : calls[i].state = "refused"}}
    \cup {ticks[t].token : t \in {i \in Tick : ticks[i].answer = "refused"}}
SessionKept ==
  [][(token \in valid /\ token' # token)
       => (\/ Logout \/ entering # {}
           \/ \E call \in restoring : call.answer = "error"
           \/ \E t \in RefusedTokens : t # token \/ "lookup" \in may)]_vars
=============================================================================
