------------------------------ MODULE Disclosure ------------------------------
(***************************************************************************)
(* What a turn is told for the one who asked, and what its answer may say: *)
(* the filtering half of ContextAssembler::assemble                        *)
(* (runtime/context_assembler.rs) and OutputPolicy                         *)
(* (runtime/output_policy.rs).                                             *)
(*                                                                         *)
(* A text is a model value with the set of words it contains; a topic is a *)
(* word.  The prose of the prompts is left out.                            *)
(***************************************************************************)
EXTENDS Naturals, Sequences, SequencesExt

CONSTANTS
  Words(_),   \* the topics a text contains, whatever its case
  Blank,      \* a topic that trims to nothing, and a text that does
  None,
  Owner       \* the participant identifier "owner"

(* The elements of s at the indices of I, in their order: SelectSeq, by    *)
(* the indices selected.                                                   *)
Picked(s, I) ==
  LET pick[i \in 0 .. Len(s)] ==
        IF i = 0 THEN <<>>
        ELSE IF i \in I THEN Append(pick[i - 1], s[i]) ELSE pick[i - 1]
  IN  pick[Len(s)]

Trusts == {"owner", "trusted", "acquaintance", "stranger"}

(* InfoBoundary *)
StrangerBoundary ==
  [shared |-> {}, forbidden |-> {}, state |-> FALSE, commitments |-> FALSE]
OwnerBoundary ==
  [shared |-> {}, forbidden |-> {}, state |-> TRUE, commitments |-> TRUE]

(* RelationshipContext: trust, boundary, and whether identity is shared. *)
Relationship(trust, boundary, identity) ==
  [trust |-> trust, boundary |-> boundary, identity |-> identity]

Stranger == Relationship("stranger", StrangerBoundary, FALSE)

TrustOf(kind) ==
  CASE kind = "owner" -> "owner"
    [] kind \in {"human_contact", "external_agent"} -> "trusted"
    [] kind \in {"local_node", "remote_node", "system_service"} -> "acquaintance"
    [] OTHER -> "stranger"

(* The first entry for an identifier, 0 when there is none.                *)
Find(people, id) == SelectInSeq(people, LAMBDA p : p.id = id)

(* resolve_relationship: the interaction context a client sends decides    *)
(* before the participant, and an unknown participant is a stranger.       *)
Resolve(people, participant, context) ==
  LET i == Find(people, participant)
  IN  CASE context # None ->
             Relationship(TrustOf(context.kind), context.boundary, context.identity)
        [] context = None /\ participant = Owner ->
             Relationship("owner", OwnerBoundary, TRUE)
        [] context = None /\ participant # Owner /\ i # 0 ->
             Relationship(people[i].trust, people[i].boundary, FALSE)
        [] OTHER -> Stranger

AllowsText(r, text) ==
  \/ r.trust = "owner"
  \/ /\ r.trust = "trusted"
     /\ Words(text) \cap (r.boundary.forbidden \ {Blank}) = {}
     /\ \/ r.boundary.shared = {}
        \/ Words(text) \cap (r.boundary.shared \ {Blank}) # {}

AllowsState(r) == r.trust = "owner" \/ r.boundary.state

(* The sections of the resident layer. *)
FilterIdentity(memory, r) ==
  IF r.trust = "owner" \/ r.identity THEN {memory.identity} \ {None} ELSE {}

FilterState(memory, thread, r) ==
  LET state == IF memory.state = None THEN thread.summary ELSE memory.state
  IN  IF AllowsState(r) /\ state # None /\ AllowsText(r, state) THEN {state} ELSE {}

FilterCommitments(thread, r) ==
  IF r.boundary.commitments
  THEN {c \in ToSet(thread.commitments) : AllowsText(r, c)} ELSE {}

RelevantFacts(memory, r) ==
  LET relevant == {i \in DOMAIN memory.facts :
                     memory.facts[i].live /\ AllowsText(r, memory.facts[i].text)}
      facts    == Picked(memory.facts, relevant)
  IN  {f.text : f \in ToSet(SubSeq(facts, 1, IF Len(facts) < 3 THEN Len(facts) ELSE 3))}

(* The summaries of the last four entries of the log. *)
CollectRecentSummaries(log) ==
  LET said == Picked(log, {i \in DOMAIN log : log[i] # Blank})
  IN  ToSet(SubSeq(said, IF Len(said) < 4 THEN 1 ELSE Len(said) - 3, Len(said)))

(* assemble: the resident layer is filtered, the projection of the thread  *)
(* (its goal, its summary and its commitments) and its recent log are not. *)
Assemble(memory, thread, r) ==
  [resident |-> FilterIdentity(memory, r) \cup FilterState(memory, thread, r)
                \cup RelevantFacts(memory, r) \cup FilterCommitments(thread, r),
   projected |-> ({thread.goal, thread.summary} \ {None}) \cup ToSet(thread.commitments)
                \cup CollectRecentSummaries(thread.log)]

-----------------------------------------------------------------------------
(* OutputPolicy::check and what apply_output_policy makes of a message. *)

Message(form, text) == [form |-> form, text |-> text]

Check(context, text) ==
  CASE context.confirm -> "needs_owner"
    [] ~context.confirm /\ context.kind \in {"remote_node", "local_node"}
       /\ ~context.identity /\ "identity" \in Words(text) -> "denied"
    [] ~context.confirm /\ context.audience \in {"public", "group"}
       /\ ~context.boundary.commitments /\ "commitment" \in Words(text) -> "redacted"
    [] OTHER -> "as_is"

ApplyOutputPolicy(context, text) ==
  IF context = None THEN Message("as_is", text)
  ELSE Message(Check(context, text), text)

=============================================================================
