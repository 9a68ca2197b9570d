----------------------------- MODULE MemoryFacts -----------------------------
(***************************************************************************)
(* The facts and topics of foreground memory: runtime/memory.rs, with the  *)
(* owner's edits of them in runtime/coordinator.rs and the compilation     *)
(* that follows a turn in server/mod.rs.                                   *)
(*                                                                         *)
(* A compilation reads one thread, asks the model for a delta (or derives  *)
(* one when the model cannot be asked or answers no JSON), and applies it  *)
(* to the snapshot of the global memory under the server's lock, so each   *)
(* is one step.  What a thread's record and log hold when it is compiled,  *)
(* what the model answers and what the owner edits are inputs.             *)
(*                                                                         *)
(* Texts are model values that differ after trim and case folding; Blank   *)
(* is the text that trims to nothing.  Keywords and timestamps are left    *)
(* out; the citations of a fact are of the thread it was compiled from.    *)
(***************************************************************************)
EXTENDS Naturals, Sequences, SequencesExt

CONSTANTS
  Thread,       \* threads
  Created,      \* the threads in the order they were created
  Slug(_),      \* slugify: the first six words of a text
  Blank, None,
  Evidence,     \* what the record and the log of a thread may hold
  Answers,      \* what the model may answer to the compilation prompt
  AboutYou,     \* updates of the About You surface
  Corrections,  \* values a knowledge item may be corrected to
  MaxIds        \* bound: fact identifiers handed out

VARIABLES
  identity,     \* snapshot.identity_summary
  active,       \* snapshot.active_state_summary
  recent,       \* snapshot.recent_topics
  facts,        \* snapshot.facts
  topics,       \* snapshot.topic_index
  nextId,       \* identifiers handed out by IdGenerator
  told,         \* the summary the last step published to clients, or None
  edited        \* subjects the owner edited, for the properties

vars == <<identity, active, recent, facts, topics, nextId, told, edited>>

(* Subjects of facts, "thread:<id>:<what>" and the like. *)
OwnerSubject           == <<"owner:identity_summary">>
IdentityKey            == <<"identity_summary">>
StateSubject(t)        == <<"active_state", t>>
GoalSubject(t)         == <<"current_goal", t>>
CommitmentSubject(t, c) == <<"commitment", t, Slug(c)>>
ProcedureSubject(t, p) == <<"procedure", t, Slug(p)>>

Live(fact)     == fact.live                       \* invalidated_at is None
Recalled(fact) == fact.live /\ fact.by = None

Init ==
  /\ identity = None
  /\ active = None
  /\ recent = <<>>
  /\ facts = <<>>
  /\ topics = <<>>
  /\ nextId = 0
  /\ told = None
  /\ edited = {}

-----------------------------------------------------------------------------
(* A compilation works on a memory m: the facts, the identifiers handed    *)
(* out, and the facts it updated and invalidated.                          *)

FactSpec(kind, subject, value, t) ==
  [kind |-> kind, subject |-> subject, value |-> value, threads |-> {t}]

NewFact(id, spec) ==
  [id |-> id, kind |-> spec.kind, subject |-> spec.subject, value |-> spec.value,
   threads |-> spec.threads, live |-> TRUE, by |-> None]

Invalidated(fact, id) == [fact EXCEPT !.live = FALSE, !.by = id]

InvalidateAt_Untold(m, i) == [m EXCEPT !.facts[i] = Invalidated(@, m.next + 1)]

InvalidateAt(m, i) ==
  [m EXCEPT !.facts[i] = Invalidated(@, m.next + 1),
            !.invalidated = Append(@, m.facts[i].id)]

AppendFact(m, spec) ==
  [m EXCEPT !.facts = Append(@, NewFact(m.next + 1, spec)),
            !.next = @ + 1,
            !.updated = Append(@, m.next + 1)]

(* The first live fact of a subject, 0 when it has none. *)
FirstLive(fs, subject) ==
  SelectInSeq(fs, LAMBDA f : f.subject = subject /\ Live(f))

(* upsert_fact: a fact that says the same is refreshed, one that says      *)
(* something else is superseded by the fact that takes its place.          *)
UpsertFact_Keeps(m, spec) ==
  LET i == FirstLive(m.facts, spec.subject)
  IN  IF i # 0 /\ m.facts[i].value = spec.value /\ m.facts[i].kind = spec.kind
      THEN [m EXCEPT !.facts[i].threads = spec.threads,
                     !.updated = Append(@, m.facts[i].id)]
      ELSE AppendFact(m, spec)

UpsertFact(m, spec) ==
  LET i == FirstLive(m.facts, spec.subject)
  IN  IF i = 0 THEN AppendFact(m, spec)
      ELSE IF m.facts[i].value = spec.value /\ m.facts[i].kind = spec.kind
      THEN [m EXCEPT !.facts[i].threads = spec.threads,
                     !.updated = Append(@, m.facts[i].id)]
      ELSE AppendFact(InvalidateAt(m, i), spec)

UpsertAll(m, specs) == FoldLeft(UpsertFact, m, specs)

(* A sweep gives every fact it invalidates an identifier of its own, which *)
(* no fact ever gets.                                                      *)
Sweep(m, hits) ==
  FoldLeft(LAMBDA acc, i :
             IF i \in hits
             THEN [InvalidateAt(acc, i) EXCEPT !.next = @ + 1] ELSE acc,
           m, [i \in 1 .. Len(m.facts) |-> i])

(* sync_commitment_facts: commitments the thread no longer has are         *)
(* invalidated before those it has are filed.                              *)
IsDropped_NotMine(fact, t, commitments) ==
  /\ fact.kind = "commitment"
  /\ t \notin fact.threads
  /\ \A c \in ToSet(commitments) : fact.subject # CommitmentSubject(t, c)
  /\ Live(fact)

IsDropped(fact, t, commitments) ==
  /\ fact.kind = "commitment"
  /\ t \in fact.threads
  /\ \A c \in ToSet(commitments) : fact.subject # CommitmentSubject(t, c)
  /\ Live(fact)

SyncCommitmentFacts(m, t, commitments) ==
  UpsertAll(Sweep(m, {i \in DOMAIN m.facts : IsDropped(m.facts[i], t, commitments)}),
            [i \in DOMAIN commitments |->
               FactSpec("commitment", CommitmentSubject(t, commitments[i]),
                        commitments[i], t)])

InvalidateCandidateSubjects(m, subjects) ==
  Sweep(m, {i \in DOMAIN m.facts :
               Live(m.facts[i]) /\ m.facts[i].subject \in ToSet(subjects)})

(* What becomes of the topics of a thread with its status. *)
TopicStatus(status) ==
  CASE status = "completed" -> "resolved"
    [] status \in {"failed", "archived"} -> "stale"
    [] OTHER -> "active"

(* merge_into_vec: the union in the order of the identifiers, which is     *)
(* that of their creation.                                                 *)
Merge(seq, new, order) ==
  SelectSeq(order, LAMBDA x : x \in ToSet(seq) \cup ToSet(new))

(* sync_topic_index: a topic collects the threads and the facts of every   *)
(* compilation that named it; its status is that of the last thread.       *)
TouchTopic(ts, name, t, status, updated) ==
  LET i == SelectInSeq(ts, LAMBDA topic : topic.name = name)
  IN  IF i = 0
      THEN Append(ts, [name |-> name, threads |-> <<t>>, cites |-> updated,
                       status |-> TopicStatus(status)])
      ELSE [ts EXCEPT ![i] =
              [name |-> name, threads |-> Merge(@.threads, <<t>>, Created),
               cites |-> Merge(@.cites, updated, [id \in 1 .. MaxIds |-> id]),
               status |-> TopicStatus(status)]]

SyncTopicIndex(ts, names, t, status, updated) ==
  FoldLeft(LAMBDA acc, name : TouchTopic(acc, name, t, status, updated), ts, names)

-----------------------------------------------------------------------------
(* What is compiled.                                                       *)

(* sanitize_string_list: blank texts and repetitions are left out, and the *)
(* list is cut at its limit.                                               *)
Sanitize(texts, limit) ==
  FoldLeft(LAMBDA acc, x :
             IF x = Blank \/ x \in ToSet(acc) \/ Len(acc) = limit
             THEN acc ELSE Append(acc, x),
           <<>>, texts)

Prefer(texts, fallback, limit) ==
  IF Sanitize(texts, limit) = <<>> THEN fallback ELSE Sanitize(texts, limit)

SanitizeOptional(text) == IF text = Blank THEN None ELSE text

(* derive_identity_summary_update: what the owner said of themselves, when *)
(* the first live identity fact does not say it already.                   *)
DeriveIdentity(evidence) ==
  LET i == SelectInSeq(facts, LAMBDA f : f.kind = "identity" /\ Live(f))
  IN  IF i # 0 /\ facts[i].value = evidence.said THEN None ELSE evidence.said

(* derive_candidate_procedures: the tools of a log that ran two or more.   *)
DeriveProcedures(evidence) ==
  IF Len(evidence.tools) < 2 THEN <<>>
  ELSE <<<<SubSeq(evidence.topics, 1, 1), evidence.tools>>>>

HeuristicDelta(evidence) ==
  [identity |-> DeriveIdentity(evidence),
   active |-> evidence.summary,
   commitments |-> evidence.commitments,
   procedures |-> DeriveProcedures(evidence),
   topics |-> evidence.topics,
   durable |-> <<>>,
   invalidates |-> <<>>]

(* parse_llm_memory_delta: an identity needs a citation, and so a log that *)
(* is not empty; commitments and topics fall back to those of the thread.  *)
ParseAnswer(answer, evidence) ==
  [identity |-> IF evidence.cited THEN SanitizeOptional(answer.identity) ELSE None,
   active |-> IF answer.active = Blank THEN evidence.summary ELSE answer.active,
   commitments |-> Prefer(answer.commitments, evidence.commitments, 12),
   procedures |-> Sanitize(answer.procedures, 8),
   topics |-> Prefer(answer.topics, evidence.topics, 8),
   durable |-> SelectSeq(answer.durable,
                 LAMBDA f : f.subject # Blank /\ f.value # Blank),
   invalidates |-> Sanitize(answer.invalidates, 16)]

Optional(text, kind, subject, t) ==
  IF text = None THEN <<>> ELSE <<FactSpec(kind, subject, text, t)>>

DurableSpecs(durable, t) ==
  LET kept == SelectSeq(durable, LAMBDA f : f.kind # "procedure")
  IN  [i \in DOMAIN kept |->
         FactSpec(kept[i].kind, kept[i].subject, kept[i].value, t)]

(* apply_compilation_delta, in its order: the thread's state and goal, its *)
(* commitments, the identity, durable facts, invalidations, procedures.    *)
ApplyDelta(t, evidence, delta) ==
  LET m0 == [facts |-> facts, next |-> nextId, updated |-> <<>>, invalidated |-> <<>>]
      m1 == UpsertAll(m0, Optional(evidence.summary, "active_state", StateSubject(t), t)
                          \o Optional(evidence.goal, "decision", GoalSubject(t), t))
      m2 == SyncCommitmentFacts(m1, t, delta.commitments)
      m3 == UpsertAll(m2, Optional(delta.identity, "identity", OwnerSubject, t)
                          \o DurableSpecs(delta.durable, t))
      m4 == InvalidateCandidateSubjects(m3, delta.invalidates)
  IN  UpsertAll(m4, [i \in DOMAIN delta.procedures |->
                       FactSpec("procedure", ProcedureSubject(t, delta.procedures[i]),
                                delta.procedures[i], t)])

(* summarize_dreaming, of the memory just written: topics and procedures   *)
(* of the thread and the commitments its record holds, or nothing.         *)
Take(seq, n) == SubSeq(seq, 1, IF Len(seq) < n THEN Len(seq) ELSE n)

Dreaming(t, evidence, ts, fs) ==
  LET dream == [topics |-> Take(SelectSeq(ts, LAMBDA topic : t \in ToSet(topic.threads)), 3),
                procedures |-> Take(SelectSeq(fs, LAMBDA f :
                  f.kind = "procedure" /\ Live(f) /\ t \in f.threads), 2),
                commitments |-> Take(evidence.commitments, 2)]
  IN  IF \A part \in DOMAIN dream : dream[part] = <<>> THEN None ELSE dream

(* The compilation is written and published. *)
Compile(t, evidence, delta) ==
  LET m == ApplyDelta(t, evidence, delta)
      ts == SyncTopicIndex(topics, delta.topics, t, evidence.status, m.updated)
  IN  /\ m.next <= MaxIds
      /\ facts' = m.facts
      /\ nextId' = m.next
      /\ identity' = IF delta.identity = None THEN identity ELSE delta.identity
      /\ active' = delta.active
      /\ recent' = delta.topics
      /\ topics' = ts
      /\ told' = [thread |-> t, updated |-> m.updated, invalidated |-> m.invalidated,
                  commitments |-> delta.commitments, durable |-> delta.durable,
                  dreaming |-> Dreaming(t, evidence, ts, m.facts)]
      /\ UNCHANGED edited

(* A turn ended or was cancelled, or a client asks for it: the model's     *)
(* answer is compiled, or the heuristics when there is none.               *)
CompileFromModel(t) ==
  \E evidence \in Evidence, answer \in Answers :
    Compile(t, evidence, ParseAnswer(answer, evidence))

CompileHeuristically(t) ==
  \E evidence \in Evidence : Compile(t, evidence, HeuristicDelta(evidence))

-----------------------------------------------------------------------------
(* The owner edits memory. *)

(* One item of update_about_you_surface: a blank value clears the identity *)
(* facts of the subject, another changes the first of them or adds one.    *)
EditItem(m, item) ==
  LET Mine(f) == f.kind = "identity" /\ f.subject = item.subject /\ Live(f)
      i == SelectInSeq(m.facts, Mine)
  IN  IF item.subject \in {Blank, IdentityKey} THEN m
      ELSE IF item.value = Blank
      THEN [m EXCEPT !.facts =
              [j \in DOMAIN @ |-> IF Mine(@[j]) THEN [@[j] EXCEPT !.live = FALSE]
                                  ELSE @[j]]]
      ELSE IF i # 0
      THEN [m EXCEPT !.facts[i].value = item.value, !.facts[i].by = None]
      ELSE AppendFact(m, [kind |-> "identity", subject |-> item.subject,
                          value |-> item.value, threads |-> {}])

UpdateAboutYouSurface ==
  \E update \in AboutYou :
    LET m == FoldLeft(EditItem,
                      [facts |-> facts, next |-> nextId, updated |-> <<>>,
                       invalidated |-> <<>>],
                      update.items)
    IN  /\ m.next <= MaxIds
        /\ identity' = update.identity
        /\ facts' = m.facts
        /\ nextId' = m.next
        /\ told' = None
        /\ edited' = edited \cup {item.subject : item \in ToSet(update.items)}
        /\ UNCHANGED <<active, recent, topics>>

(* correct_knowledge_surface; the list shows stale facts too. *)
CorrectKnowledge(i) ==
  \E value \in Corrections :
    /\ facts' = [facts EXCEPT ![i].value = value]
    /\ told' = None
    /\ UNCHANGED <<identity, active, recent, topics, nextId, edited>>

Next ==
  \/ \E t \in Thread : CompileFromModel(t) \/ CompileHeuristically(t)
  \/ UpdateAboutYouSurface
  \/ \E i \in DOMAIN facts : CorrectKnowledge(i)

Spec == Init /\ [][Next]_vars

-----------------------------------------------------------------------------
(* Properties. *)

TypeOK ==
  /\ nextId \in 0 .. MaxIds
  /\ \A i \in DOMAIN facts :
       /\ facts[i].id \in 1 .. nextId
       /\ facts[i].live \in BOOLEAN
       /\ facts[i].threads \subseteq Thread
       /\ facts[i].by \in (1 .. nextId) \cup {None}

(* A compilation tells clients of every fact it takes out of recall and of *)
(* no other, forgets none, and brings none back.                           *)
InvalidationsTold ==
  [][/\ \A i \in DOMAIN facts :
          /\ i \in DOMAIN facts'
          /\ facts'[i].id = facts[i].id
          /\ Live(facts'[i]) => Live(facts[i])
     /\ told' # None =>
          {facts[i].id : i \in {j \in DOMAIN facts : Live(facts[j]) /\ ~Live(facts'[j])}}
            = ToSet(told'.invalidated) \cap {facts[i].id : i \in DOMAIN facts}]_vars

(* After a thread was compiled, the live commitments that name it are      *)
(* those it carries, or durable facts of that same compilation.            *)
CommitmentsFollowThread ==
  [][told' # None =>
       \A i \in DOMAIN facts' :
         LET f == facts'[i]
         IN  Live(f) /\ f.kind = "commitment" /\ told'.thread \in f.threads
               => \/ \E c \in ToSet(told'.commitments) :
                       f.subject = CommitmentSubject(told'.thread, c)
                  \/ \E d \in ToSet(told'.durable) : f.subject = d.subject]_vars

=============================================================================
