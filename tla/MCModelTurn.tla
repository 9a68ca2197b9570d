---------------------------- MODULE MCModelTurn ----------------------------
(***************************************************************************)
(* ModelTurn on a workspace with a hidden directory, a text of three       *)
(* lines, a directory with a text in it and a file of bytes.               *)
(***************************************************************************)
EXTENDS ModelTurn

A == Line("a", FALSE)
B == Line("b", FALSE)
LoudA == Line("a", TRUE)

Workspace(hidden, text, inner, bytes) ==
    (<<1>> :> Dir) @@ (<<1, 2>> :> hidden) @@ (<<2>> :> text) @@
    (<<3>> :> Dir) @@ (<<3, 1>> :> inner) @@ (<<4>> :> bytes)

MCTree == Workspace(<<A>>, <<A, LoudA, A>>, <<A, B>>, Binary)

Contents == {<<>>, <<A>>, <<LoudA, B, A>>, Binary}

MCTrees == {Workspace(h, t, i, b) : h, t, i, b \in Contents} \cup {<<>> :> Dir}

MCInvocation ==
    [patch |-> [op |-> "patch", path |-> <<2>>, find |-> A, replace |-> B, all |-> FALSE],
     blank |-> [op |-> "write", path |-> <<4>>, text |-> <<>>],
     malformed |-> [op |-> "malformed"]]

MCEdits == {[path |-> <<2>>, text |-> <<B>>]}

MCViews ==
    {[op |-> "list", path |-> d, recursive |-> r, hidden |-> h, max |-> m] :
        d \in {Root, <<3>>}, r \in BOOLEAN, h \in BOOLEAN, m \in {1, 3, 9}}
    \cup
    {[op |-> "search", path |-> Root, find |-> LoudA, sensitive |-> s, hidden |-> h, max |-> m] :
        s \in BOOLEAN, h \in BOOLEAN, m \in {0, 2, 9}}
    \cup
    {[op |-> "read", path |-> <<2>>, first |-> f, last |-> l] : f \in {0, 2, 5}, l \in {1, 2, 9}}
=============================================================================
