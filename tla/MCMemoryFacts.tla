---------------------------- MODULE MCMemoryFacts ----------------------------
(* A small instance of MemoryRecall: two threads, two commitments that     *)
(* share a slug, and a subject that the owner edits and the model writes.  *)
EXTENDS MemoryRecall

CONSTANTS t1, t2, buyMilk, buyMilkToo, v1, v2, work, blank, none

MCCreated == <<t1, t2>>

MCSlug(text) == IF text \in {buyMilk, buyMilkToo} THEN "buy_milk" ELSE text

Seen(summary, goal, status, commitments, said, cited, tools) ==
  [summary |-> summary, goal |-> goal, status |-> status, commitments |-> commitments,
   said |-> said, cited |-> cited, tools |-> tools, topics |-> <<work>>]

MCEvidence ==
  {Seen(none, none, "active", <<buyMilk, buyMilkToo>>, none, FALSE, <<v1>>),
   Seen(none, none, "failed", <<>>, none, FALSE, <<>>),
   Seen(none, v1, "completed", <<>>, v1, TRUE, <<v1, v2>>)}

Durable(kind, subject, value) == [kind |-> kind, subject |-> subject, value |-> value]

Answer(id, commitments, durable, invalidates, procedures) ==
  [identity |-> id, active |-> id, commitments |-> commitments, durable |-> durable,
   invalidates |-> invalidates, procedures |-> procedures, topics |-> <<blank>>]

Drink == <<"drink">>

MCAnswers ==
  {Answer(v2, <<buyMilk>>, <<Durable("commitment", Drink, v2)>>, <<blank>>, <<>>),
   Answer(blank, <<blank>>,
          <<Durable("identity", Drink, v1), Durable("identity", Drink, blank)>>,
          <<OwnerSubject, Drink>>, <<v1, v1>>)}

Item(subject, value) == [subject |-> subject, value |-> value]

MCAboutYou ==
  {[identity |-> v1, items |-> <<Item(Drink, v2), Item(IdentityKey, v1)>>],
   [identity |-> none, items |-> <<Item(Drink, blank), Item(blank, v1)>>]}

Entry(turn, isBlank) == [turn |-> turn, blank |-> isBlank]

MCLogs ==
  {<<>>, <<Entry(none, FALSE)>>,
   <<Entry(none, FALSE), Entry("a", TRUE), Entry("a", FALSE), Entry("b", FALSE)>>}

MCInTitle(value, t) == value = v2 /\ t = t1
=============================================================================
