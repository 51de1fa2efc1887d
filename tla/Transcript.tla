------------------------------ MODULE Transcript ------------------------------
(***************************************************************************)
(* What a person who asks, and one who reads the history later, may expect *)
(* of a question, with no handler, stream, frame or page in sight:         *)
(*                                                                         *)
(*   - an answer that is still coming grows, fragment by fragment;         *)
(*   - one text is kept of it, once and for all, and what was shown, then  *)
(*     or afterwards, is the beginning of that text;                       *)
(*   - it is concluded only when it is kept, shown as it is kept or not at *)
(*     all, if keeping it can be relied upon;                              *)
(*   - if it breaks off, what was shown stays; only where nothing was, a   *)
(*     message of the failure is shown instead.                            *)
(***************************************************************************)
EXTENDS Naturals, SequencesExt

CONSTANTS
  Question,
  Answer,    \* the texts that may answer each question
  Failure    \* the message shown where no answer is

VARIABLES
  reliable,  \* whether every answer that is concluded is kept
  stage,     \* of each question
  shown,     \* what its asker has of the answer
  kept       \* its text in the history, as a set of at most one

transcriptVars == <<reliable, stage, shown, kept>>

Init ==
  /\ reliable \in BOOLEAN
  /\ stage = [q \in Question |-> "unasked"]
  /\ shown = [q \in Question |-> <<>>]
  /\ kept = [q \in Question |-> {}]

Begin(q) ==
  /\ stage[q] = "unasked"
  /\ stage' = [stage EXCEPT ![q] = "open"]
  /\ UNCHANGED <<reliable, shown, kept>>

Reveal(q) ==
  /\ stage[q] = "open"
  /\ \E t \in Answer[q] :
       /\ Len(t) = Len(shown[q]) + 1 /\ IsPrefix(shown[q], t)
       /\ \A k \in kept[q] : IsPrefix(t, k)
       /\ shown' = [shown EXCEPT ![q] = t]
  /\ UNCHANGED <<reliable, stage, kept>>

\* An answer may be kept after its asker has given up.
Keep(q) ==
  /\ stage[q] # "unasked" /\ kept[q] = {}
  /\ \E t \in Answer[q] :
       /\ shown[q] = Failure \/ IsPrefix(shown[q], t)
       /\ kept' = [kept EXCEPT ![q] = {t}]
  /\ UNCHANGED <<reliable, stage, shown>>

Conclude(q) ==
  /\ stage[q] = "open"
  /\ stage' = [stage EXCEPT ![q] = "concluded"]
  /\ \E t \in Answer[q] :
       /\ kept[q] \subseteq {t} /\ (reliable => kept[q] = {t})
       /\ shown[q] \in {<<>>, t}
       /\ shown' \in {shown, [shown EXCEPT ![q] = t]}
  /\ UNCHANGED <<reliable, kept>>

Fail(q) == IF shown[q] = <<>> THEN [shown EXCEPT ![q] = Failure] ELSE shown

BreakOff(q) ==
  /\ stage[q] = "open"
  /\ stage' = [stage EXCEPT ![q] = "broken off"]
  /\ shown' \in {shown, Fail(q)}
  /\ UNCHANGED <<reliable, kept>>

\* The connection may still fail after the conclusion.
BreakLate(q) ==
  /\ stage[q] = "concluded"
  /\ shown' = Fail(q)
  /\ UNCHANGED <<reliable, stage, kept>>

Next ==
  \E q \in Question :
    Begin(q) \/ Reveal(q) \/ Keep(q) \/ Conclude(q) \/ BreakOff(q) \/ BreakLate(q)

Spec == Init /\ [][Next]_transcriptVars
=============================================================================
