--------------------------- MODULE MCTelegramChannel ---------------------------
(* A small instance of TelegramChannel: two chats, two senders, and one    *)
(* fact about a topic the owner keeps from people.                         *)
EXTENDS TelegramChannel

CONSTANTS project, private, hello, status, blank, none, done, owner, c1, c2, u1, u2

MCWords(text) ==
  CASE text = project -> {"project"}
    [] text = private -> {"project", "plans"}
    [] text = status -> {"commitment", "identity"}
    [] text = "agent_task_scoped" -> {"agent"}
    [] OTHER -> {}

Boundary(shared, forbidden) ==
  [shared |-> shared, forbidden |-> forbidden, state |-> TRUE, commitments |-> TRUE]

Person(name, kind, stance, trust, boundary) ==
  [name |-> name, kind |-> kind, stance |-> stance, trust |-> trust, boundary |-> boundary]

MCPersons ==
  {Person(1, "human", "friendly", "trusted",
          Boundary({"project", blank}, {"plans", blank})),
   Person(2, "external_agent", blank, "acquaintance", Boundary({}, {}))}

Fact(text, live) == [text |-> text, live |-> live]

MCSituations ==
  {[memory |-> [identity |-> status, state |-> none,
                facts |-> <<Fact(hello, FALSE), Fact(project, TRUE), Fact(private, TRUE)>>],
    thread |-> [goal |-> hello, summary |-> private, commitments |-> <<project>>,
               log |-> <<hello, blank, status>>]]}

Context(kind, audience, confirm) ==
  [kind |-> kind, audience |-> audience, confirm |-> confirm, identity |-> FALSE,
   boundary |-> Boundary({}, {})]

Asker(participant, context) == [participant |-> participant, context |-> context]

MCAskers ==
  {Asker(owner, none),
   Asker(u1, Context("external_agent", "direct", TRUE)),
   Asker(none, Context("local_node", "machine", FALSE)),
   Asker(none, [Context("human_contact", "public", FALSE)
                  EXCEPT !.boundary.commitments = FALSE])}

Says(kind, text) == [kind |-> kind, text |-> text]

MCAnswers ==
  {[spoken |-> <<Says("chunk", blank), Says("chunk", hello), Says("message", status)>>,
    last |-> none, fails |-> FALSE],
   [spoken |-> <<Says("chunk", hello)>>, last |-> none, fails |-> TRUE]}
=============================================================================
