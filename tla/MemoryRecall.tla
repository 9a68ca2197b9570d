---------------------------- MODULE MemoryRecall ----------------------------
(***************************************************************************)
(* What foreground memory gives back: the wake-up of a thread, the topics, *)
(* the hits of a search and the evidence behind them, the About You *)
(* surface (runtime/memory.rs, runtime/coordinator.rs).                    *)
(*                                                                         *)
(* Every read sees one snapshot of the memory and the log of a thread as   *)
(* it is then, so the reads are operators of the state of MemoryFacts and  *)
(* of a log.  An entry of a log names its turn, or None, and whether its   *)
(* summary is blank; its summary is its place in the log.                  *)
(***************************************************************************)
EXTENDS MemoryFacts, FiniteSets

CONSTANTS
  InTitle(_, _),  \* a keyword of a fact's value occurs in a thread's title
  Logs,           \* logs a thread may have when memory is read
  RecentEntries,  \* RECENT_ENTRY_LIMIT
  WakeupLimit     \* facts shown by a wake-up

(* recent_entries: the last entries that say something. *)
Recent(log) ==
  LET said == SelectSeq([i \in DOMAIN log |-> [turn |-> log[i].turn, at |-> i,
                                               blank |-> log[i].blank]],
                        LAMBDA e : ~e.blank)
      first == IF Len(said) > RecentEntries THEN Len(said) - RecentEntries + 1 ELSE 1
  IN  SubSeq(said, first, Len(said))

-----------------------------------------------------------------------------
(* The wake-up. *)

KindScore(kind) ==
  CASE kind = "identity" -> 40
    [] kind = "commitment" -> 35
    [] kind = "active_state" -> 30
    [] kind = "decision" -> 25
    [] kind = "procedure" -> 15
    [] OTHER -> 10

WakeupScore(fact, t) ==
  (IF t \in fact.threads THEN 50 ELSE 0) + KindScore(fact.kind)
    + (IF InTitle(fact.value, t) THEN 10 ELSE 0)

(* The facts ranked for a thread, and those whose rank may put them among  *)
(* the first; facts of one score stand in the order of their last update.  *)
WakeupFacts(t) ==
  {f \in ToSet(facts) : Recalled(f) /\ (f.threads = {} \/ t \in f.threads)}

TopRanked(t) ==
  {f \in WakeupFacts(t) :
     Cardinality({g \in WakeupFacts(t) : WakeupScore(g, t) > WakeupScore(f, t)})
       < WakeupLimit}

(* read_wakeup: the state and the topics are those of the last compilation *)
(* of any thread, and the thread's own when there was none.                *)
Wakeup(t, evidence) ==
  [identity |-> identity,
   active |-> IF active = None THEN evidence.summary ELSE active,
   facts |-> TopRanked(t),
   commitments |-> evidence.commitments,
   topics |-> IF recent = <<>> THEN evidence.topics ELSE recent]

-----------------------------------------------------------------------------
(* Topics, search and evidence. *)

ListTopics(status) ==
  SelectSeq(topics, LAMBDA topic : status = None \/ topic.status = status)

(* The first of a vector, when there is one. *)
FirstOf(seq) == IF seq = <<>> THEN None ELSE Head(seq)

AnyOf(set) == IF set = {} THEN None ELSE CHOOSE x \in set : TRUE

TopicHit(topic) ==
  [kind |-> "topic", title |-> topic.name, thread |-> FirstOf(topic.threads),
   fact |-> FirstOf(topic.cites), turn |-> None]

(* A fact is filed with one thread, or with none when the owner added it. *)
FactHit(fact) ==
  [kind |-> "fact", title |-> fact.subject, thread |-> AnyOf(fact.threads),
   fact |-> fact.id, turn |-> None]

SessionHit(t, log) ==
  [kind |-> "session", title |-> t, thread |-> t, fact |-> None,
   turn |-> IF Recent(log) = <<>> THEN None ELSE Last(Recent(log)).turn]

(* The facts memory/search may hit, and the hits of a query that matches   *)
(* everything; a topic or a fact names the turn of its first citation,     *)
(* which is left out.                                                      *)
SearchFacts == {f \in ToSet(facts) : Recalled(f)}

Search(log) ==
  {TopicHit(topic) : topic \in ToSet(topics)} \cup {FactHit(f) : f \in SearchFacts}
    \cup {SessionHit(t, log) : t \in Thread}

(* open_evidence: a target is required and a thread that exists; the       *)
(* summary is that of the first entry of the turn, the fact is looked up   *)
(* among all, and the title is that of the thread that was asked for.      *)
Opens(t, turn, fact) == t \in Thread /\ (turn # None \/ fact # None)

OpenEvidence(t, log, turn, fact) ==
  LET at    == SelectInSeq(log, LAMBDA e : e.turn = turn)
      found == {f \in ToSet(facts) : f.id = fact}
  IN  [title |-> t,
       summary |-> IF turn = None \/ at = 0 THEN None ELSE at,
       fact |-> AnyOf(found),
       cited |-> IF found = {} \/ AnyOf(found).threads = {} THEN t
                 ELSE AnyOf(AnyOf(found).threads)]

(* The items of the About You surface that stand for a fact. *)
AboutYouFacts == {f \in SearchFacts : f.kind = "identity"}

-----------------------------------------------------------------------------
(* Properties. *)

(* Facts that compilation files agree: of the live facts of a subject      *)
(* there is one, so no wake-up and no search shows two values for it.      *)
(* The owner's edits look for identity facts only and may add a second     *)
(* live fact to a subject that has one of another kind.                    *)
OneValuePerSubject ==
  \A f, g \in SearchFacts :
    f.subject = g.subject /\ f.subject \notin edited => f = g

(* A fact hidden from recall is never the one that compilation keeps       *)
(* refreshing: upsert_fact looks at invalidated_at only.                   *)
HiddenIsDead == \A i \in DOMAIN facts : Live(facts[i]) => Recalled(facts[i])

(* A hit that names a thread and a target can be opened, and shows the     *)
(* fact or a summary of the turn it named; one that names no thread is of  *)
(* a fact that the owner wrote, which the About You surface shows.         *)
HitsOpen ==
  \A log \in Logs : \A hit \in Search(log) :
    LET view == OpenEvidence(hit.thread, log, hit.turn, hit.fact)
    IN  /\ hit.thread = None =>
             hit.kind = "fact" /\ hit.fact \in {f.id : f \in AboutYouFacts}
        /\ Opens(hit.thread, hit.turn, hit.fact) =>
             /\ hit.fact # None => view.fact # None
             /\ hit.turn # None => view.summary # None
        /\ hit.kind = "fact" /\ hit.thread # None =>
             Recalled(view.fact) /\ view.cited = hit.thread

(* What the owner added to memory shows in the wake-up of a thread only    *)
(* when nothing of the thread is left out for it.                          *)
OwnFactsFirst ==
  \A t \in Thread, evidence \in Evidence :
    LET shown == Wakeup(t, evidence).facts
    IN  (\E f \in shown : f.threads = {})
          => \A f \in WakeupFacts(t) : t \in f.threads => f \in shown

(* A topic of the last compilation is listed once, with the facts that     *)
(* compilation kept, and so a search for it reaches the thread.            *)
RecentIsIndexed ==
  \A name \in ToSet(recent) :
    LET listed == SelectSeq(ListTopics(None), LAMBDA topic : topic.name = name)
    IN  /\ Len(listed) = 1
        /\ told # None => /\ told.thread \in ToSet(listed[1].threads)
                          /\ ToSet(told.updated) \subseteq ToSet(listed[1].cites)

MemoryInv == TypeOK /\ OneValuePerSubject /\ HiddenIsDead /\ HitsOpen /\ OwnFactsFirst
             /\ RecentIsIndexed

(* The source calls invalidated_by "The fact that superseded this one, if  *)
(* any."                                                                   *)
SupersededByFact ==
  \A i \in DOMAIN facts :
    facts[i].by # None => \E f \in ToSet(facts) : f.id = facts[i].by

(* The protocol says of the title of evidence "The thread title resolved   *)
(* for the citation, if available."                                        *)
TitleOfCitation ==
  \A log \in Logs : \A hit \in Search(log) :
    Opens(hit.thread, hit.turn, hit.fact) =>
      LET view == OpenEvidence(hit.thread, log, hit.turn, hit.fact)
      IN  view.cited = view.title

=============================================================================
