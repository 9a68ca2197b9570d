--------------------------- MODULE WorkspaceFiles ---------------------------
(***************************************************************************)
(* The tools a model works on the files of a workspace with: list, search, *)
(* read, write a text and apply a patch.  A tree maps the paths that exist *)
(* to Dir, to Binary (bytes that are no UTF-8) or to the lines of a text.  *)
(* A path is a sequence of names below the workspace root, a name is a     *)
(* number (its place in the order of names), and a line is a word written  *)
(* in upper case or not.                                                   *)
(*                                                                         *)
(* The tools look at the tree at the moment they run, hold no lock on it   *)
(* and keep nothing of it.                                                 *)
(***************************************************************************)
EXTENDS Naturals, Sequences, FiniteSets, SequencesExt, FiniteSetsExt

CONSTANTS
    Dir, Binary,
    Hidden       \* the names that begin with a dot

Root == <<>>

Line(word, upper) == [word |-> word, upper |-> upper]

Exists(files, path) == path \in DOMAIN files

IsDir(files, path) == Exists(files, path) /\ files[path] = Dir

IsFile(files, path) == Exists(files, path) /\ files[path] # Dir

IsText(files, path) == IsFile(files, path) /\ files[path] # Binary

Parent(path) == Front(path)

Before(p, q) ==
    \/ IsStrictPrefix(p, q)
    \/ \E i \in DOMAIN p \cap DOMAIN q :
          p[i] < q[i] /\ \A j \in 1..(i - 1) : p[j] = q[j]

Sorted(paths) ==
    [i \in 1..Cardinality(paths) |->
        CHOOSE p \in paths : Cardinality({q \in paths : Before(q, p)}) = i - 1]

(***************************************************************************)
(* What a walk below a directory comes upon: it looks at hidden entries    *)
(* but neither reports nor enters them, unless it is asked to.             *)
(***************************************************************************)
Below(files, dir) == {p \in DOMAIN files : IsStrictPrefix(dir, p)}

Entered(dir, p, hidden) == hidden \/ \A i \in (Len(dir) + 1)..(Len(p) - 1) : p[i] \notin Hidden

Reported(p, hidden) == hidden \/ Last(p) \notin Hidden

Met(files, dir, recursive, hidden) ==
    Sorted({p \in Below(files, dir) :
               Entered(dir, p, hidden) /\ (recursive \/ Len(p) = Len(dir) + 1)})

Within(seq, max) == SubSeq(seq, 1, IF Len(seq) < max THEN Len(seq) ELSE max)

(***************************************************************************)
(* A listing is cut off when the walk comes upon anything, hidden or not,  *)
(* after it reported max entries.                                          *)
(***************************************************************************)
List(files, t) ==
    LET met == Met(files, t.path, t.recursive, t.hidden)
        seen(n) == Len(SelectSeq(SubSeq(met, 1, n), LAMBDA p : Reported(p, t.hidden)))
    IN [entries |-> Within(SelectSeq(met, LAMBDA p : Reported(p, t.hidden)), t.max),
        truncated |-> \E n \in DOMAIN met : seen(n - 1) >= t.max]

(***************************************************************************)
(* A search leaves out what it cannot read; it counts itself cut off once  *)
(* it has max matches, whether there are more or not.                      *)
(***************************************************************************)
Matches(line, t) == line.word = t.find.word /\ (t.sensitive => line.upper = t.find.upper)

FilesBelow(files, dir, hidden) ==
    SelectSeq(Met(files, dir, TRUE, hidden), LAMBDA p : IsFile(files, p) /\ Reported(p, hidden))

HitsIn(files, file, t) ==
    IF files[file] = Binary THEN <<>>
    ELSE SelectSeq([n \in DOMAIN files[file] |-> [path |-> file, number |-> n]],
                   LAMBDA h : Matches(files[file][h.number], t))

Search(files, t) ==
    LET inside == FilesBelow(files, t.path, t.hidden)
        hits == FoldLeft(LAMBDA acc, f : acc \o HitsIn(files, f, t), <<>>, inside)
    IN [matches |-> Within(hits, t.max),
        truncated |-> inside # <<>> /\ Len(hits) >= t.max]

(***************************************************************************)
(* A read cuts its window to the lines there are; a window behind the last *)
(* line is empty.                                                          *)
(***************************************************************************)
AtLeast(a, b) == IF a < b THEN b ELSE a

AtMost(a, b) == IF a < b THEN a ELSE b

Read(files, t) ==
    LET lines == files[t.path]
        total == AtLeast(Len(lines), 1)
        first == AtLeast(t.first, 1)
        upto == AtLeast(t.last, first)
    IN [content |-> SubSeq(lines, AtMost(first - 1, Len(lines)) + 1, AtMost(upto, Len(lines))),
        first |-> first, last |-> AtMost(upto, total), total |-> total]

(***************************************************************************)
(* A write makes the directories above the file.  It takes a file that it  *)
(* cannot read for an empty one, and so does the diff it reports.          *)
(***************************************************************************)
Ancestors(path) == {SubSeq(path, 1, n) : n \in 1..(Len(path) - 1)}

Writable(files, path) == ~IsDir(files, path) /\ \A a \in Ancestors(path) : ~IsFile(files, a)

Put(files, path, content) ==
    [p \in DOMAIN files \cup Ancestors(path) \cup {path} |->
        IF p = path THEN content ELSE IF p \in Ancestors(path) THEN Dir ELSE files[p]]

TextAt(files, path) == IF IsText(files, path) THEN files[path] ELSE <<>>

Written(files, t) == [before |-> TextAt(files, t.path), after |-> t.text]

(***************************************************************************)
(* A patch replaces the lines it looks for, the first of them or all.      *)
(***************************************************************************)
Targets(files, t) ==
    IF IsText(files, t.path) THEN {n \in DOMAIN files[t.path] : files[t.path][n] = t.find} ELSE {}

Patched(files, t) ==
    LET replaced == IF t.all THEN Targets(files, t) ELSE {Min(Targets(files, t))}
        before == files[t.path]
    IN [before |-> before,
        after |-> [n \in DOMAIN before |-> IF n \in replaced THEN t.replace ELSE before[n]]]

(***************************************************************************)
(* A tool that cannot do its work fails and leaves the tree as it is.      *)
(***************************************************************************)
Works(files, t) ==
    CASE t.op \in {"list", "search"} -> t.path = Root \/ IsDir(files, t.path)
      [] t.op = "read" -> IsText(files, t.path)
      [] t.op = "write" -> Writable(files, t.path)
      [] t.op = "patch" -> Targets(files, t) # {}

Changes(t) == t.op \in {"write", "patch"}

Change(files, t) == IF t.op = "write" THEN Written(files, t) ELSE Patched(files, t)

After(files, t) == IF Changes(t) THEN Put(files, t.path, Change(files, t).after) ELSE files

Reply(files, t) ==
    CASE t.op = "list" -> List(files, t)
      [] t.op = "search" -> Search(files, t)
      [] t.op = "read" -> Read(files, t)
      [] Changes(t) -> [changed |-> Change(files, t).before # Change(files, t).after]

-----------------------------------------------------------------------------
(***************************************************************************)
(* What an answer must tell of a tree.  A listing or a search that is not  *)
(* cut off holds everything there is, one that is cut off holds the first  *)
(* max of it, and neither shows anything below a hidden entry unasked.     *)
(***************************************************************************)
Seen(files, t) ==
    {p \in Below(files, t.path) : Entered(t.path, p, t.hidden) /\ Reported(p, t.hidden)}

ListIsTrue(files, t) ==
    LET all == {p \in Seen(files, t) : t.recursive \/ Parent(p) = t.path}
        r == List(files, t)
    IN /\ ToSet(r.entries) \subseteq all /\ IsInjective(r.entries)
       /\ Len(r.entries) = AtMost(t.max, Cardinality(all))
       /\ ~r.truncated => ToSet(r.entries) = all
       /\ \A i \in DOMAIN r.entries :
             Parent(r.entries[i]) \in {t.path} \cup ToSet(SubSeq(r.entries, 1, i - 1))

SearchIsTrue(files, t) ==
    LET all == UNION {{[path |-> p, number |-> n] : n \in
                          {m \in DOMAIN files[p] : Matches(files[p][m], t)}} :
                      p \in {q \in Seen(files, t) : IsText(files, q)}}
        r == Search(files, t)
    IN /\ ToSet(r.matches) \subseteq all /\ IsInjective(r.matches)
       /\ Len(r.matches) = AtMost(t.max, Cardinality(all))
       /\ ~r.truncated => ToSet(r.matches) = all

(***************************************************************************)
(* The lines a read reports are the lines of the file at their numbers.    *)
(***************************************************************************)
ReadIsTrue(files, t) ==
    LET r == Read(files, t) IN
    /\ r.content # <<>> => Len(r.content) = r.last - r.first + 1
    /\ \A i \in DOMAIN r.content : r.content[i] = files[t.path][r.first + i - 1]
    /\ t.first <= 1 /\ t.last >= r.total => r.content = files[t.path]

ViewIsTrue(files, t) ==
    Works(files, t) =>
        CASE t.op = "list" -> ListIsTrue(files, t)
          [] t.op = "search" -> SearchIsTrue(files, t)
          [] t.op = "read" -> ReadIsTrue(files, t)

(***************************************************************************)
(* A tool that reports no change left the file as it was.                  *)
(***************************************************************************)
ChangeIsTrue(files, t) ==
    Works(files, t) /\ ~Reply(files, t).changed =>
        Exists(files, t.path) /\ files[t.path] = Change(files, t).after
=============================================================================
