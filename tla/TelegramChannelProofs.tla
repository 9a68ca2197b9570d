------------------------- MODULE TelegramChannelProofs -------------------------
(***************************************************************************)
(* ChannelInv and DisclosureInv of TelegramChannel, for every value of the *)
(* constants.  The inductive invariant ChannelIInv has a part for each     *)
(* piece of state:                                                         *)
(*   PeopleInv     the entries stand for the persons saved, one each;      *)
(*   ThreadsInv    chat_threads and the threads of this process agree;     *)
(*   TurnsInv      each turn by itself keeps to its boundary and to the    *)
(*                 owner's word, and a turn that waits has said nothing;   *)
(*   DeliveredInv  how many events of its turn the adapter has read, that  *)
(*                 what is left of the subscription is the rest of them,   *)
(*                 and that what was voiced in those read is what was sent *)
(*                 of the turn, which is the last one anything was sent    *)
(*                 of.                                                     *)
(* Picked is recursive; what it keeps is shown through the function of its *)
(* prefixes (Picks) and where their elements come from (Origin).           *)
(***************************************************************************)
EXTENDS TelegramChannel, SequenceTheorems, WellFoundedInduction, TLAPS

(* The least element of a set of natural numbers: induction, for what is   *)
(* not an operator's argument.                                             *)
LEMMA LeastNatural ==
  ASSUME NEW T, T \subseteq Nat, T # {}
  PROVE  \E n \in T : \A m \in T : n <= m
<1> DEFINE R == {ss \in Nat \X Nat : ss[1] < ss[2]}
<1>1. IsWellFoundedOn(R, Nat)
  BY NatLessThanWellFounded DEF OpToRel
<1>2. PICK n \in T : \A m \in T : <<m, n>> \notin R
  BY <1>1, WFMin
<1>3. \A m \in T : m < n => <<m, n>> \in R
  OBVIOUS
<1>4. \A m \in T : n <= m
  <2> SUFFICES ASSUME NEW m \in T PROVE n <= m
    OBVIOUS
  <2>1. m \in Nat /\ n \in Nat
    OBVIOUS
  <2>2. ~(m < n)
    BY <1>2, <1>3
  <2> QED
    BY <2>1, <2>2
<1> QED
  BY <1>4

-----------------------------------------------------------------------------
(* Picked: what it keeps of a sequence, and how it grows.                  *)

IsPick(pick, s, I) ==
  pick = [i \in 0 .. Len(s) |->
            IF i = 0 THEN <<>>
            ELSE IF i \in I THEN Append(pick[i - 1], s[i]) ELSE pick[i - 1]]

(* Picks(s, I)[n] is what Picked keeps of the first n elements.            *)
Picks(s, I) == CHOOSE pick : IsPick(pick, s, I)

(* The function Picked defines exists.                                     *)
LEMMA PickExists ==
  ASSUME NEW S, NEW s \in Seq(S), NEW I
  PROVE  \E pick : IsPick(pick, s, I)
<1> DEFINE Upto(n, p) ==
      p = [i \in 0 .. n |->
             IF i = 0 THEN <<>>
             ELSE IF i \in I THEN Append(p[i - 1], s[i]) ELSE p[i - 1]]
<1> DEFINE T == {n \in Nat : ~ \E p : Upto(n, p)}
<1>1. SUFFICES T = {}
  <2>1. Len(s) \in Nat
    BY LenProperties
  <2> QED
    BY <1>1, <2>1 DEF IsPick
<1>2. SUFFICES ASSUME T # {} PROVE FALSE
  OBVIOUS
<1> HIDE DEF Upto
<1>3. PICK n \in T : \A m \in T : n <= m
  BY <1>2, LeastNatural
<1>4. n # 0
  <2>1. Upto(0, [i \in 0 .. 0 |-> <<>>])
    BY DEF Upto
  <2> QED
    BY <2>1
<1>5. n - 1 \in Nat /\ n - 1 \notin T
  BY <1>3, <1>4
<1>6. PICK p : Upto(n - 1, p)
  BY <1>5
<1> DEFINE q == [i \in 0 .. n |->
                   IF i < n THEN p[i]
                   ELSE IF n \in I THEN Append(p[n - 1], s[n]) ELSE p[n - 1]]
<1>7. \A i \in 0 .. n : q[i] =
        IF i = 0 THEN <<>>
        ELSE IF i \in I THEN Append(q[i - 1], s[i]) ELSE q[i - 1]
  <2>1. \A i \in 0 .. n - 1 : p[i] =
        IF i = 0 THEN <<>>
        ELSE IF i \in I THEN Append(p[i - 1], s[i]) ELSE p[i - 1]
    BY <1>5, <1>6 DEF Upto
  <2> QED
    BY <1>4, <1>5, <2>1
<1>8. Upto(n, q)
  BY <1>7 DEF Upto
<1> QED
  BY <1>8

(* The equations of Picked, one element at a time.                         *)
LEMMA PicksEquations ==
  ASSUME NEW S, NEW s \in Seq(S), NEW I
  PROVE  /\ Picked(s, I) = Picks(s, I)[Len(s)]
         /\ Picks(s, I)[0] = <<>>
         /\ \A n \in 1 .. Len(s) :
              Picks(s, I)[n] = IF n \in I THEN Append(Picks(s, I)[n - 1], s[n])
                               ELSE Picks(s, I)[n - 1]
<1> DEFINE c == Picks(s, I)
<1>1. IsPick(c, s, I)
  BY PickExists DEF Picks
<1>2. Picked(s, I) = c[Len(s)]
  BY DEF Picked, IsPick, Picks
<1>3. Len(s) \in Nat
  BY LenProperties
<1> HIDE DEF c
<1>4. c = [i \in 0 .. Len(s) |->
            IF i = 0 THEN <<>>
            ELSE IF i \in I THEN Append(c[i - 1], s[i]) ELSE c[i - 1]]
  BY <1>1 DEF IsPick
<1>5. c[0] = <<>>
  BY <1>3, <1>4
<1>6. \A n \in 1 .. Len(s) : c[n] = IF n \in I THEN Append(c[n - 1], s[n]) ELSE c[n - 1]
  <2> SUFFICES ASSUME NEW n \in 1 .. Len(s)
               PROVE  c[n] = IF n \in I THEN Append(c[n - 1], s[n]) ELSE c[n - 1]
    OBVIOUS
  <2>1. n \in 0 .. Len(s) /\ n # 0
    BY <1>3
  <2> QED
    BY <1>4, <2>1
<1> QED
  BY <1>2, <1>5, <1>6 DEF c

SameUpto(n, s, I, r, J) == \A i \in 1 .. n : s[i] = r[i] /\ (i \in I <=> i \in J)

(* What is kept of the first elements depends on them alone.               *)
LEMMA PicksAgree ==
  ASSUME NEW S, NEW s \in Seq(S), NEW r \in Seq(S), NEW I, NEW J, NEW n \in Nat,
         n <= Len(s), n <= Len(r), SameUpto(n, s, I, r, J)
  PROVE  Picks(s, I)[n] = Picks(r, J)[n]
<1> DEFINE p == Picks(s, I)  q == Picks(r, J)
           T == {i \in 0 .. n : p[i] # q[i]}
<1>0. Len(s) \in Nat /\ Len(r) \in Nat
  BY LenProperties
<1>1. p[0] = q[0]
  BY PicksEquations
<1>2. \A i \in 1 .. n :
        /\ p[i] = IF i \in I THEN Append(p[i - 1], s[i]) ELSE p[i - 1]
        /\ q[i] = IF i \in J THEN Append(q[i - 1], r[i]) ELSE q[i - 1]
  <2> SUFFICES ASSUME NEW i \in 1 .. n
               PROVE  /\ p[i] = IF i \in I THEN Append(p[i - 1], s[i]) ELSE p[i - 1]
                      /\ q[i] = IF i \in J THEN Append(q[i - 1], r[i]) ELSE q[i - 1]
    OBVIOUS
  <2>1. i \in 1 .. Len(s) /\ i \in 1 .. Len(r)
    BY <1>0
  <2> QED
    BY <2>1, PicksEquations
<1> HIDE DEF p, q
<1>3. ASSUME T # {} PROVE FALSE
  <2>0. T \subseteq Nat
    BY <1>0
  <2>1. PICK i \in T : \A m \in T : i <= m
    <3> HIDE DEF T
    <3> QED
      BY <1>3, <2>0, LeastNatural
  <2>2. i \in 1 .. n
    BY <1>1, <2>1
  <2>3. i - 1 \in 0 .. n /\ i - 1 \notin T
    BY <2>1, <2>2
  <2>4. p[i - 1] = q[i - 1]
    BY <2>3
  <2>5. p[i] = q[i]
    BY <1>2, <2>2, <2>4 DEF SameUpto
  <2> QED
    BY <2>1, <2>5
<1>4. p[n] = q[n]
  BY <1>3
<1> QED
  BY <1>4 DEF p, q

(* One more element is kept or left out.                                   *)
LEMMA PickedAppend ==
  ASSUME NEW S, NEW s \in Seq(S), NEW e \in S, NEW I, NEW J,
         \A i \in 1 .. Len(s) : i \in I <=> i \in J
  PROVE  Picked(Append(s, e), J) =
           IF Len(s) + 1 \in J THEN Append(Picked(s, I), e) ELSE Picked(s, I)
<1> DEFINE n == Len(s)
<1>1. PICK r \in Seq(S) : r = Append(s, e)
  BY AppendProperties
<1>2. n \in Nat
  BY LenProperties
<1>3. Len(r) = n + 1 /\ r[n + 1] = e /\ \A i \in 1 .. n : r[i] = s[i]
  BY <1>1, AppendProperties
<1>4. Picks(s, I)[n] = Picks(r, J)[n]
  <2>1. PICK k \in Nat : k = n
    BY <1>2
  <2>2. k <= Len(s) /\ k <= Len(r)
    BY <1>3, <2>1
  <2>3. SameUpto(k, s, I, r, J)
    BY <1>3, <2>1 DEF SameUpto
  <2>4. Picks(s, I)[k] = Picks(r, J)[k]
    BY <2>2, <2>3, PicksAgree
  <2> QED
    BY <2>1, <2>4
<1>5. Picked(s, I) = Picks(s, I)[n] /\ Picked(r, J) = Picks(r, J)[n + 1]
  BY <1>3, PicksEquations
<1>6. n + 1 \in 1 .. Len(r) /\ (n + 1) - 1 = n
  BY <1>2, <1>3
<1>7. Picks(r, J)[n + 1] = IF n + 1 \in J THEN Append(Picks(r, J)[n], r[n + 1])
                           ELSE Picks(r, J)[n]
  BY <1>6, PicksEquations
<1> QED
  BY <1>1, <1>3, <1>4, <1>5, <1>7

(* Where the elements kept come from: f is increasing, and misses nothing. *)
Origin(f, picked, n, s, S, I) ==
  /\ picked \in Seq(S) /\ Len(picked) <= n
  /\ f \in [1 .. Len(picked) -> 1 .. n]
  /\ \A j, k \in 1 .. Len(picked) : j < k => f[j] < f[k]
  /\ \A k \in 1 .. Len(picked) : f[k] \in I /\ picked[k] = s[f[k]]
  /\ \A i \in 1 .. n : i \in I => \E k \in 1 .. Len(picked) : f[k] = i

LEMMA OriginStep ==
  ASSUME NEW S, NEW s \in Seq(S), NEW I, NEW f, NEW picked, NEW n \in Nat,
         n + 1 <= Len(s), Origin(f, picked, n, s, S, I)
  PROVE  \E g : Origin(g, IF n + 1 \in I THEN Append(picked, s[n + 1]) ELSE picked,
                       n + 1, s, S, I)
<1>0. picked \in Seq(S) /\ Len(picked) \in Nat /\ Len(picked) <= n
  BY LenProperties DEF Origin
<1>1. CASE n + 1 \notin I
  <2>1. Origin(f, picked, n + 1, s, S, I)
    <3>1. f \in [1 .. Len(picked) -> 1 .. n + 1]
      BY DEF Origin
    <3>2. \A i \in 1 .. n + 1 : i \in I => i \in 1 .. n
      BY <1>1
    <3> QED
      BY <1>0, <3>1, <3>2 DEF Origin
  <2> QED
    BY <1>1, <2>1
<1>2. CASE n + 1 \in I
  <2> DEFINE m == Len(picked)
             g == [k \in 1 .. m + 1 |-> IF k = m + 1 THEN n + 1 ELSE f[k]]
  <2>1. s[n + 1] \in S
    BY ElementOfSeq
  <2>2. PICK q \in Seq(S) : q = Append(picked, s[n + 1])
    BY <1>0, <2>1, AppendProperties
  <2>3. Len(q) = m + 1 /\ q[m + 1] = s[n + 1] /\ \A k \in 1 .. m : q[k] = picked[k]
    BY <1>0, <2>1, <2>2, AppendProperties
  <2>4. f \in [1 .. m -> 1 .. n] /\ (\A k \in 1 .. m : f[k] \in I /\ picked[k] = s[f[k]])
    BY DEF Origin
  <2>5. g \in [1 .. m + 1 -> 1 .. n + 1]
    BY <1>0, <2>4
  <2>6. \A k \in 1 .. m : g[k] = f[k] /\ f[k] \in 1 .. n
    BY <1>0, <2>4
  <2>7. g[m + 1] = n + 1
    BY <1>0
  <2>8. \A k \in 1 .. m + 1 : k \in 1 .. m \/ k = m + 1
    BY <1>0
  <2> HIDE DEF g
  <2>9. \A j, k \in 1 .. m + 1 : j < k => g[j] < g[k]
    <3> SUFFICES ASSUME NEW j \in 1 .. m + 1, NEW k \in 1 .. m + 1, j < k
                 PROVE  g[j] < g[k]
      OBVIOUS
    <3>1. j \in 1 .. m
      BY <1>0
    <3>2. CASE k = m + 1
      BY <2>6, <2>7, <3>1, <3>2
    <3>3. CASE k \in 1 .. m
      BY <2>6, <3>1, <3>3 DEF Origin
    <3> QED
      BY <2>8, <3>2, <3>3
  <2>10. \A k \in 1 .. m + 1 : g[k] \in I /\ q[k] = s[g[k]]
    BY <1>2, <2>3, <2>4, <2>6, <2>7, <2>8
  <2>11. \A i \in 1 .. n + 1 : i \in I => \E k \in 1 .. m + 1 : g[k] = i
    <3> SUFFICES ASSUME NEW i \in 1 .. n + 1, i \in I
                 PROVE  \E k \in 1 .. m + 1 : g[k] = i
      OBVIOUS
    <3>1. CASE i = n + 1
      BY <1>0, <2>7, <3>1
    <3>2. CASE i \in 1 .. n
      <4>1. PICK k \in 1 .. m : f[k] = i
        BY <3>2 DEF Origin
      <4> QED
        BY <1>0, <2>6, <4>1
    <3> QED
      BY <3>1, <3>2
  <2>12. Origin(g, q, n + 1, s, S, I)
    BY <1>0, <2>3, <2>5, <2>9, <2>10, <2>11 DEF Origin
  <2> QED
    BY <1>2, <2>2, <2>12
<1> QED
  BY <1>1, <1>2

LEMMA PicksOrigin ==
  ASSUME NEW S, NEW s \in Seq(S), NEW I, NEW n \in 0 .. Len(s)
  PROVE  \E f : Origin(f, Picks(s, I)[n], n, s, S, I)
<1> DEFINE p == Picks(s, I)
           T == {i \in 0 .. n : ~ \E f : Origin(f, p[i], i, s, S, I)}
<1>0. Len(s) \in Nat /\ n \in Nat
  BY LenProperties
<1>1. \E f : Origin(f, p[0], 0, s, S, I)
  <2>1. p[0] = <<>> /\ <<>> \in Seq(S) /\ Len(<<>>) = 0
    BY PicksEquations, EmptySeq
  <2>2. Origin(<<>>, <<>>, 0, s, S, I)
    BY <2>1 DEF Origin
  <2> QED
    BY <2>1, <2>2
<1>2. \A i \in 1 .. n : p[i] = IF i \in I THEN Append(p[i - 1], s[i]) ELSE p[i - 1]
  BY <1>0, PicksEquations
<1> HIDE DEF p
<1>3. ASSUME T # {} PROVE FALSE
  <2>0. T \subseteq Nat
    BY <1>0
  <2>1. PICK i \in T : \A m \in T : i <= m
    <3> HIDE DEF T
    <3> QED
      BY <1>3, <2>0, LeastNatural
  <2>2. i \in 1 .. n
    BY <1>1, <2>1
  <2>3. i - 1 \in 0 .. n /\ i - 1 \notin T /\ i - 1 \in Nat
    BY <2>1, <2>2
  <2>4. PICK f : Origin(f, p[i - 1], i - 1, s, S, I)
    BY <2>3
  <2>5. PICK j \in Nat : j = i - 1
    BY <2>3
  <2>6. j + 1 = i /\ j + 1 <= Len(s)
    BY <1>0, <2>2, <2>5
  <2>7. \E g : Origin(g, IF j + 1 \in I THEN Append(p[j], s[j + 1]) ELSE p[j],
                       j + 1, s, S, I)
    BY <2>4, <2>5, <2>6, OriginStep
  <2>8. p[i] = IF i \in I THEN Append(p[i - 1], s[i]) ELSE p[i - 1]
    BY <1>2, <2>2
  <2> QED
    BY <2>1, <2>5, <2>6, <2>7, <2>8
<1>4. \E f : Origin(f, p[n], n, s, S, I)
  BY <1>0, <1>3
<1> QED
  BY <1>4 DEF p

(* What is kept of the first elements is the first part of what is kept.   *)
LEMMA PicksPrefix ==
  ASSUME NEW S, NEW s \in Seq(S), NEW I, NEW n \in 0 .. Len(s)
  PROVE  /\ Picks(s, I)[n] \in Seq(S) /\ Picked(s, I) \in Seq(S)
         /\ Len(Picks(s, I)[n]) <= Len(Picked(s, I))
         /\ \A k \in 1 .. Len(Picks(s, I)[n]) : Picks(s, I)[n][k] = Picked(s, I)[k]
<1> DEFINE p == Picks(s, I)
           First(i) == /\ Len(p[n]) <= Len(p[i])
                       /\ \A k \in 1 .. Len(p[n]) : p[n][k] = p[i][k]
           T == {i \in n .. Len(s) : ~First(i)}
<1>0. Len(s) \in Nat /\ n \in Nat
  BY LenProperties
<1>1. \A i \in 0 .. Len(s) : p[i] \in Seq(S)
  BY PicksOrigin DEF Origin
<1>2. \A i \in 1 .. Len(s) : p[i] = IF i \in I THEN Append(p[i - 1], s[i]) ELSE p[i - 1]
  BY <1>0, PicksEquations
<1>3. Picked(s, I) = p[Len(s)]
  BY PicksEquations
<1> HIDE DEF p
<1>4. ASSUME T # {} PROVE FALSE
  <2>0. T \subseteq Nat
    BY <1>0
  <2>1. PICK i \in T : \A m \in T : i <= m
    <3> HIDE DEF T
    <3> QED
      BY <1>4, <2>0, LeastNatural
  <2>2. First(n)
    BY <1>0, <1>1, LenProperties
  <2>3. i \in n + 1 .. Len(s)
    BY <1>0, <2>1, <2>2
  <2>4. i - 1 \in n .. Len(s) /\ i - 1 \notin T /\ i - 1 \in 0 .. Len(s) /\ i \in 1 .. Len(s)
    BY <1>0, <2>1, <2>3
  <2>5. First(i - 1)
    BY <2>4
  <2>6. PICK b \in Seq(S) : b = p[i - 1]
    BY <1>1, <2>4
  <2>7. PICK a \in Seq(S) : a = p[n]
    BY <1>0, <1>1
  <2>8. s[i] \in S
    BY <2>4, ElementOfSeq
  <2>9. /\ Len(a) \in Nat /\ Len(b) \in Nat
        /\ Len(Append(b, s[i])) = Len(b) + 1
        /\ \A k \in 1 .. Len(b) : Append(b, s[i])[k] = b[k]
    BY <2>8, AppendProperties, LenProperties
  <2>10. Len(a) <= Len(b) /\ \A k \in 1 .. Len(a) : a[k] = b[k]
    BY <2>5, <2>6, <2>7
  <2>11. p[i] = IF i \in I THEN Append(b, s[i]) ELSE b
    BY <1>2, <2>4, <2>6
  <2>12. Len(a) <= Len(p[i]) /\ \A k \in 1 .. Len(a) : a[k] = p[i][k]
    BY <2>9, <2>10, <2>11
  <2> QED
    BY <2>1, <2>7, <2>12
<1>5. First(Len(s))
  BY <1>0, <1>4
<1> QED
  BY <1>0, <1>1, <1>3, <1>5 DEF p

-----------------------------------------------------------------------------
(* Lists whose elements have no set of their own.                          *)

IsList(s) == s \in Seq(ToSet(s))

LEMMA SeqIsList ==
  ASSUME NEW S, NEW s \in Seq(S)
  PROVE  IsList(s)
<1>1. Len(s) \in Nat /\ s \in [1 .. Len(s) -> S]
  BY LenProperties
<1>2. s \in [1 .. Len(s) -> ToSet(s)]
  BY <1>1 DEF ToSet
<1> QED
  BY <1>1, <1>2, SeqDef DEF IsList

LEMMA ListLength ==
  ASSUME NEW s, IsList(s)
  PROVE  Len(s) \in Nat /\ DOMAIN s = 1 .. Len(s)
BY LenProperties DEF IsList

LEMMA ListAppend ==
  ASSUME NEW s, NEW e, IsList(s)
  PROVE  /\ IsList(Append(s, e)) /\ Len(Append(s, e)) = Len(s) + 1
         /\ DOMAIN Append(s, e) = 1 .. Len(s) + 1
         /\ Append(s, e)[Len(s) + 1] = e
         /\ \A i \in 1 .. Len(s) : Append(s, e)[i] = s[i]
<1> DEFINE S == ToSet(s) \cup {e}
<1>1. s \in Seq(S)
  <2>1. ToSet(s) \subseteq S
    OBVIOUS
  <2> HIDE DEF S
  <2> QED
    BY <2>1, SeqMonotonic DEF IsList
<1>2. e \in S
  OBVIOUS
<1> HIDE DEF S
<1>3. Append(s, e) \in Seq(S)
  BY <1>1, <1>2, AppendProperties
<1>4. /\ Len(Append(s, e)) = Len(s) + 1
      /\ Append(s, e)[Len(s) + 1] = e
      /\ \A i \in 1 .. Len(s) : Append(s, e)[i] = s[i]
  BY <1>1, <1>2, AppendProperties
<1>5. DOMAIN Append(s, e) = 1 .. Len(s) + 1
  BY <1>3, <1>4, LenProperties
<1> QED
  BY <1>3, <1>4, <1>5, SeqIsList

LEMMA ListOf ==
  ASSUME NEW n \in Nat, NEW s, DOMAIN s = 1 .. n, s = [i \in 1 .. n |-> s[i]]
  PROVE  IsList(s) /\ Len(s) = n
<1>1. s \in [1 .. n -> ToSet(s)]
  BY DEF ToSet
<1>2. s \in Seq(ToSet(s))
  BY <1>1, SeqDef
<1>3. Len(s) \in Nat /\ DOMAIN s = 1 .. Len(s)
  BY <1>2, LenProperties
<1>4. Len(s) = n
  BY <1>3
<1> QED
  BY <1>2, <1>4 DEF IsList

(* r holds the elements of s in another order.                             *)
Rearranges(h, r, s) ==
  /\ h \in [DOMAIN r -> DOMAIN s]
  /\ \A j, k \in DOMAIN r : h[j] = h[k] => j = k
  /\ \A i \in DOMAIN s : \E k \in DOMAIN r : h[k] = i
  /\ \A k \in DOMAIN r : r[k] = s[h[k]]

(* What is kept of a list and what is left out, one after the other, are   *)
(* the list rearranged.                                                    *)
LEMMA PickedApart ==
  ASSUME NEW s, IsList(s), NEW I, NEW J, I \cup J = DOMAIN s, I \cap J = {}
  PROVE  \E h : Rearranges(h, Picked(s, I) \o Picked(s, J), s)
<1> DEFINE S == ToSet(s)  n == Len(s)  a == Picked(s, I)  b == Picked(s, J)
<1>0. s \in Seq(S) /\ n \in Nat /\ DOMAIN s = 1 .. n
  BY ListLength DEF IsList
<1>1. n \in 0 .. n
  BY <1>0
<1>2. PICK f : Origin(f, a, n, s, S, I)
  BY <1>0, <1>1, PicksOrigin, PicksEquations
<1>3. PICK g : Origin(g, b, n, s, S, J)
  BY <1>0, <1>1, PicksOrigin, PicksEquations
<1> HIDE DEF S, n, a, b
<1>4. PICK r : r = a \o b
  OBVIOUS
<1>5. a \in Seq(S) /\ b \in Seq(S) /\ Len(a) \in Nat /\ Len(b) \in Nat
  BY <1>2, <1>3, LenProperties DEF Origin
<1>6. /\ r \in Seq(S) /\ Len(r) = Len(a) + Len(b) /\ DOMAIN r = 1 .. Len(a) + Len(b)
      /\ \A i \in 1 .. Len(a) + Len(b) : r[i] = IF i <= Len(a) THEN a[i] ELSE b[i - Len(a)]
  BY <1>4, <1>5, ConcatProperties, LenProperties
<1> DEFINE h == [k \in 1 .. Len(a) + Len(b) |-> IF k <= Len(a) THEN f[k] ELSE g[k - Len(a)]]
<1>7. /\ f \in [1 .. Len(a) -> 1 .. n] /\ g \in [1 .. Len(b) -> 1 .. n]
      /\ \A k \in 1 .. Len(a) : f[k] \in I /\ a[k] = s[f[k]]
      /\ \A k \in 1 .. Len(b) : g[k] \in J /\ b[k] = s[g[k]]
  BY <1>2, <1>3 DEF Origin
<1>8. \A k \in 1 .. Len(a) + Len(b) :
        \/ k \in 1 .. Len(a) /\ h[k] = f[k]
        \/ ~(k <= Len(a)) /\ k - Len(a) \in 1 .. Len(b) /\ h[k] = g[k - Len(a)]
  BY <1>5
<1>9. \A k \in 1 .. Len(a) : k \in 1 .. Len(a) + Len(b) /\ h[k] = f[k]
  BY <1>5
<1>10. \A k \in 1 .. Len(b) :
         k + Len(a) \in 1 .. Len(a) + Len(b) /\ h[k + Len(a)] = g[k]
  <2> SUFFICES ASSUME NEW k \in 1 .. Len(b)
               PROVE  k + Len(a) \in 1 .. Len(a) + Len(b) /\ h[k + Len(a)] = g[k]
    OBVIOUS
  <2>1. k + Len(a) \in 1 .. Len(a) + Len(b) /\ ~(k + Len(a) <= Len(a)) /\ (k + Len(a)) - Len(a) = k
    BY <1>5
  <2> QED
    BY <2>1
<1>11. DOMAIN h = 1 .. Len(a) + Len(b) /\ h = [k \in DOMAIN h |-> h[k]]
  OBVIOUS
<1> HIDE DEF h
<1>12. h \in [DOMAIN r -> DOMAIN s]
  BY <1>0, <1>6, <1>7, <1>8, <1>11 DEF n
<1>13. \A j, k \in DOMAIN r : h[j] = h[k] => j = k
  <2> SUFFICES ASSUME NEW j \in 1 .. Len(a) + Len(b), NEW k \in 1 .. Len(a) + Len(b),
                      h[j] = h[k]
               PROVE  j = k
    BY <1>6
  <2>1. \A x, y \in 1 .. Len(a) : f[x] = f[y] => x = y
    <3>0. \A x, y \in 1 .. Len(a) : x < y => f[x] < f[y]
      BY <1>2 DEF Origin
    <3>1. \A x, y \in 1 .. Len(a) : x < y => f[x] < f[y] /\ f[x] \in 1 .. n /\ f[y] \in 1 .. n
      BY <1>7, <3>0
    <3> SUFFICES ASSUME NEW x \in 1 .. Len(a), NEW y \in 1 .. Len(a), x # y
                 PROVE  f[x] # f[y]
      OBVIOUS
    <3>2. x < y \/ y < x
      BY <1>5
    <3>3. CASE x < y
      BY <3>1, <3>3
    <3>4. CASE y < x
      BY <3>1, <3>4
    <3> QED
      BY <3>2, <3>3, <3>4
  <2>2. \A x, y \in 1 .. Len(b) : g[x] = g[y] => x = y
    <3>0. \A x, y \in 1 .. Len(b) : x < y => g[x] < g[y]
      BY <1>3 DEF Origin
    <3>1. \A x, y \in 1 .. Len(b) : x < y => g[x] < g[y] /\ g[x] \in 1 .. n /\ g[y] \in 1 .. n
      BY <1>7, <3>0
    <3> SUFFICES ASSUME NEW x \in 1 .. Len(b), NEW y \in 1 .. Len(b), x # y
                 PROVE  g[x] # g[y]
      OBVIOUS
    <3>2. x < y \/ y < x
      BY <1>5
    <3>3. CASE x < y
      BY <3>1, <3>3
    <3>4. CASE y < x
      BY <3>1, <3>4
    <3> QED
      BY <3>2, <3>3, <3>4
  <2>3. \A x \in 1 .. Len(a), y \in 1 .. Len(b) : f[x] # g[y]
    BY <1>7
  <2> QED
    BY <1>5, <1>8, <2>1, <2>2, <2>3
<1>14. \A i \in DOMAIN s : \E k \in DOMAIN r : h[k] = i
  <2> SUFFICES ASSUME NEW i \in DOMAIN s PROVE \E k \in DOMAIN r : h[k] = i
    OBVIOUS
  <2>1. i \in 1 .. n /\ (i \in I \/ i \in J)
    BY <1>0 DEF n
  <2>2. CASE i \in I
    <3>1. PICK k \in 1 .. Len(a) : f[k] = i
      BY <1>2, <2>1, <2>2 DEF Origin
    <3> QED
      BY <1>6, <1>9, <3>1
  <2>3. CASE i \in J
    <3>1. PICK k \in 1 .. Len(b) : g[k] = i
      BY <1>3, <2>1, <2>3 DEF Origin
    <3> QED
      BY <1>6, <1>10, <3>1
  <2> QED
    BY <2>1, <2>2, <2>3
<1>15. \A k \in DOMAIN r : r[k] = s[h[k]]
  <2> SUFFICES ASSUME NEW k \in 1 .. Len(a) + Len(b) PROVE r[k] = s[h[k]]
    BY <1>6
  <2>1. CASE k <= Len(a)
    <3>1. k \in 1 .. Len(a) /\ h[k] = f[k] /\ r[k] = a[k]
      BY <1>5, <1>6, <1>8, <2>1
    <3> QED
      BY <1>7, <3>1
  <2>2. CASE ~(k <= Len(a))
    <3>1. k - Len(a) \in 1 .. Len(b) /\ h[k] = g[k - Len(a)] /\ r[k] = b[k - Len(a)]
      BY <1>5, <1>6, <1>8, <2>2
    <3> QED
      BY <1>7, <3>1
  <2> QED
    BY <2>1, <2>2
<1>16. Rearranges(h, r, s)
  BY <1>12, <1>13, <1>14, <1>15 DEF Rearranges
<1> QED
  BY <1>4, <1>16 DEF a, b

-----------------------------------------------------------------------------
(* The people surface                                                      *)

(* The entries stand for the persons saved, one entry each.                *)
Matches(entries, sv) ==
  /\ IsList(entries)
  /\ \A i, j \in DOMAIN entries : entries[i].id = entries[j].id => i = j
  /\ \A i \in DOMAIN entries :
       /\ entries[i].id \in User /\ sv[entries[i].id] # None
       /\ entries[i].boundary = sv[entries[i].id].boundary
       /\ entries[i].trust = sv[entries[i].id].trust
  /\ \A u \in User : sv[u] # None => \E i \in DOMAIN entries : entries[i].id = u

LEMMA Finds ==
  ASSUME NEW s, IsList(s), NEW id
  PROVE  \/ Find(s, id) = 0 /\ \A i \in DOMAIN s : s[i].id # id
         \/ Find(s, id) \in DOMAIN s /\ s[Find(s, id)].id = id
<1> DEFINE I == {i \in 1 .. Len(s) : s[i].id = id}
<1>1. Find(s, id) = IF I # {} THEN Min(I) ELSE 0
  BY DEF Find, SelectInSeq
<1>2. I \subseteq Nat /\ DOMAIN s = 1 .. Len(s)
  BY ListLength
<1>3. CASE I = {}
  BY <1>1, <1>2, <1>3
<1>4. CASE I # {}
  <2>1. \E i \in I : \A j \in I : i <= j
    <3> HIDE DEF I
    <3> QED
      BY <1>2, <1>4, LeastNatural
  <2>2. Min(I) \in I
    BY <2>1 DEF Min
  <2> QED
    BY <1>1, <1>2, <1>4, <2>2
<1> QED
  BY <1>3, <1>4

LEMMA MatchesRearranged ==
  ASSUME NEW s, NEW r, NEW h, NEW sv, Matches(s, sv), IsList(r), Rearranges(h, r, s)
  PROVE  Matches(r, sv)
<1>1. \A k \in DOMAIN r : h[k] \in DOMAIN s /\ r[k] = s[h[k]]
  BY DEF Rearranges
<1>2. \A j, k \in DOMAIN r : r[j].id = r[k].id => j = k
  <2> SUFFICES ASSUME NEW j \in DOMAIN r, NEW k \in DOMAIN r, r[j].id = r[k].id
               PROVE  j = k
    OBVIOUS
  <2>1. h[j] = h[k]
    BY <1>1 DEF Matches
  <2> QED
    BY <2>1 DEF Rearranges
<1>3. \A k \in DOMAIN r :
        /\ r[k].id \in User /\ sv[r[k].id] # None
        /\ r[k].boundary = sv[r[k].id].boundary
        /\ r[k].trust = sv[r[k].id].trust
  BY <1>1 DEF Matches
<1>4. \A u \in User : sv[u] # None => \E k \in DOMAIN r : r[k].id = u
  <2> SUFFICES ASSUME NEW u \in User, sv[u] # None
               PROVE  \E k \in DOMAIN r : r[k].id = u
    OBVIOUS
  <2>1. PICK i \in DOMAIN s : s[i].id = u
    BY DEF Matches
  <2>2. PICK k \in DOMAIN r : h[k] = i
    BY DEF Rearranges
  <2> QED
    BY <1>1, <2>1, <2>2
<1> QED
  BY <1>2, <1>3, <1>4 DEF Matches

LEMMA MatchesUpserted ==
  ASSUME NEW s, NEW sv \in [User -> Persons \cup {None}], Matches(s, sv),
         NEW u \in User, NEW person \in Persons, NEW e,
         e.id = u, e.trust = person.trust, e.boundary = person.boundary
  PROVE  LET i == Find(s, u) IN
         Matches(IF i = 0 THEN Append(s, e) ELSE [s EXCEPT ![i] = e],
                 [sv EXCEPT ![u] = person])
<1> DEFINE w == [sv EXCEPT ![u] = person]
<1>0. IsList(s) /\ person # None /\ Len(s) \in Nat /\ DOMAIN s = 1 .. Len(s)
  BY PersonsAssumption, ListLength DEF Matches
<1>1. w[u] = person /\ \A x \in User : x # u => w[x] = sv[x]
  OBVIOUS
<1> HIDE DEF w
<1>2. CASE Find(s, u) = 0 /\ \A i \in DOMAIN s : s[i].id # u
  <2>1. PICK r : r = Append(s, e)
    OBVIOUS
  <2>2. /\ IsList(r) /\ DOMAIN r = 1 .. Len(s) + 1 /\ r[Len(s) + 1] = e
        /\ \A i \in 1 .. Len(s) : r[i] = s[i]
    BY <1>0, <2>1, ListAppend
  <2>3. \A k \in DOMAIN r : (k \in DOMAIN s /\ r[k] = s[k]) \/ (k = Len(s) + 1 /\ r[k] = e)
    BY <1>0, <2>2
  <2>4. \A j, k \in DOMAIN r : r[j].id = r[k].id => j = k
    BY <1>2, <2>3 DEF Matches
  <2>5. \A k \in DOMAIN r :
          /\ r[k].id \in User /\ w[r[k].id] # None
          /\ r[k].boundary = w[r[k].id].boundary
          /\ r[k].trust = w[r[k].id].trust
    BY <1>0, <1>1, <1>2, <2>3 DEF Matches
  <2>6. \A x \in User : w[x] # None => \E k \in DOMAIN r : r[k].id = x
    <3> SUFFICES ASSUME NEW x \in User, w[x] # None
                 PROVE  \E k \in DOMAIN r : r[k].id = x
      OBVIOUS
    <3>1. CASE x = u
      BY <1>0, <2>2, <3>1
    <3>2. CASE x # u
      <4>1. PICK i \in DOMAIN s : s[i].id = x
        BY <1>1, <3>2 DEF Matches
      <4> QED
        BY <1>0, <2>2, <4>1
    <3> QED
      BY <3>1, <3>2
  <2>7. Matches(r, w)
    BY <2>2, <2>4, <2>5, <2>6 DEF Matches
  <2> QED
    BY <1>2, <2>1, <2>7 DEF w
<1>3. CASE Find(s, u) \in DOMAIN s /\ s[Find(s, u)].id = u
  <2>1. PICK i \in DOMAIN s : i = Find(s, u) /\ s[i].id = u
    BY <1>3
  <2>2. PICK r : r = [s EXCEPT ![i] = e]
    OBVIOUS
  <2>3. DOMAIN r = DOMAIN s /\ \A k \in DOMAIN s : r[k] = IF k = i THEN e ELSE s[k]
    BY <2>2
  <2>4. IsList(r)
    <3>1. r = [k \in 1 .. Len(s) |-> r[k]]
      BY <1>0, <2>2, <2>3
    <3> QED
      BY <1>0, <2>3, <3>1, ListOf
  <2>5. \A k \in DOMAIN r : k \in DOMAIN s /\ r[k].id = s[k].id
    BY <2>1, <2>3
  <2>6. \A j, k \in DOMAIN r : r[j].id = r[k].id => j = k
    BY <2>5 DEF Matches
  <2>7. \A k \in DOMAIN r :
          /\ r[k].id \in User /\ w[r[k].id] # None
          /\ r[k].boundary = w[r[k].id].boundary
          /\ r[k].trust = w[r[k].id].trust
    <3> SUFFICES ASSUME NEW k \in DOMAIN r
                 PROVE  /\ r[k].id \in User /\ w[r[k].id] # None
                        /\ r[k].boundary = w[r[k].id].boundary
                        /\ r[k].trust = w[r[k].id].trust
      OBVIOUS
    <3>1. CASE k = i
      BY <1>0, <1>1, <2>1, <2>3, <3>1
    <3>2. CASE k # i
      <4>1. s[k].id # u /\ r[k] = s[k] /\ k \in DOMAIN s
        BY <2>1, <2>3, <3>2 DEF Matches
      <4> QED
        BY <1>1, <4>1 DEF Matches
    <3> QED
      BY <3>1, <3>2
  <2>8. \A x \in User : w[x] # None => \E k \in DOMAIN r : r[k].id = x
    <3> SUFFICES ASSUME NEW x \in User, w[x] # None
                 PROVE  \E k \in DOMAIN r : r[k].id = x
      OBVIOUS
    <3>1. CASE x = u
      BY <2>1, <2>3, <2>5, <3>1
    <3>2. CASE x # u
      <4>1. PICK k \in DOMAIN s : s[k].id = x
        BY <1>1, <3>2 DEF Matches
      <4> QED
        BY <2>3, <2>5, <4>1
    <3> QED
      BY <3>1, <3>2
  <2>9. Matches(r, w)
    BY <2>4, <2>6, <2>7, <2>8 DEF Matches
  <2>10. i # 0
    BY <1>0
  <2> QED
    BY <2>1, <2>2, <2>9, <2>10 DEF w
<1> QED
  BY <1>0, <1>2, <1>3, Finds

LEMMA MatchesDeleted ==
  ASSUME NEW s, NEW sv \in [User -> Persons \cup {None}], Matches(s, sv), NEW u \in User
  PROVE  Matches(Picked(s, {i \in DOMAIN s : s[i].id # u}), [sv EXCEPT ![u] = None])
<1> DEFINE w == [sv EXCEPT ![u] = None]
           I == {i \in DOMAIN s : s[i].id # u}
           S == ToSet(s)
           n == Len(s)
<1>0. s \in Seq(S) /\ n \in 0 .. n /\ DOMAIN s = 1 .. n /\ n \in Nat
  BY ListLength DEF IsList, Matches
<1>1. PICK f, r : r = Picked(s, I) /\ Origin(f, r, n, s, S, I)
  <2> HIDE DEF I, S
  <2>1. \E f : Origin(f, Picks(s, I)[Len(s)], Len(s), s, S, I)
    BY <1>0, PicksOrigin
  <2>2. Picked(s, I) = Picks(s, I)[Len(s)]
    BY <1>0, PicksEquations
  <2> QED
    BY <2>1, <2>2
<1>2. w[u] = None /\ \A x \in User : x # u => w[x] = sv[x]
  OBVIOUS
<1> HIDE DEF w
<1>3. r \in Seq(S) /\ DOMAIN r = 1 .. Len(r) /\ Len(r) \in Nat /\ IsList(r)
  BY <1>1, LenProperties, SeqIsList DEF Origin
<1>4. \A k \in DOMAIN r : f[k] \in DOMAIN s /\ s[f[k]].id # u /\ r[k] = s[f[k]]
  BY <1>0, <1>1, <1>3 DEF Origin
<1>5. \A j, k \in DOMAIN r : r[j].id = r[k].id => j = k
  <2> SUFFICES ASSUME NEW j \in DOMAIN r, NEW k \in DOMAIN r, r[j].id = r[k].id, j # k
               PROVE  FALSE
    OBVIOUS
  <2>1. f[j] = f[k] /\ f[j] \in Nat
    BY <1>0, <1>4 DEF Matches
  <2>2. \A x, y \in 1 .. Len(r) : x < y => f[x] < f[y]
    BY <1>1 DEF Origin
  <2>3. j < k \/ k < j
    BY <1>3
  <2> QED
    BY <1>3, <2>1, <2>2, <2>3
<1>6. \A k \in DOMAIN r :
        /\ r[k].id \in User /\ w[r[k].id] # None
        /\ r[k].boundary = w[r[k].id].boundary
        /\ r[k].trust = w[r[k].id].trust
  BY <1>2, <1>4 DEF Matches
<1>7. \A x \in User : w[x] # None => \E k \in DOMAIN r : r[k].id = x
  <2> SUFFICES ASSUME NEW x \in User, w[x] # None
               PROVE  \E k \in DOMAIN r : r[k].id = x
    OBVIOUS
  <2>1. PICK i \in DOMAIN s : s[i].id = x /\ x # u
    BY <1>2 DEF Matches
  <2>2. i \in 1 .. n /\ i \in I
    BY <1>0, <2>1
  <2>3. PICK k \in 1 .. Len(r) : f[k] = i
    BY <1>1, <2>2 DEF Origin
  <2> QED
    BY <1>3, <1>4, <2>1, <2>3
<1>8. Matches(r, w)
  BY <1>3, <1>5, <1>6, <1>7 DEF Matches
<1> QED
  BY <1>1, <1>8 DEF w

PeopleInv == saved \in [User -> Persons \cup {None}] /\ Matches(people, saved)

LEMMA EmptyList == IsList(<<>>) /\ Len(<<>>) = 0 /\ DOMAIN <<>> = {}
<1>1. <<>> \in Seq({}) /\ Len(<<>>) = 0 /\ DOMAIN <<>> = {}
  BY EmptySeq
<1> QED
  BY <1>1, SeqIsList

LEMMA PeopleInit == Init => PeopleInv
BY EmptyList, EmptySeq DEF Init, PeopleInv, Matches

LEMMA UpsertKeeps ==
  ASSUME PeopleInv, NEW u \in User, NEW person \in Persons, UpsertPeopleSurface(u, person)
  PROVE  PeopleInv'
<1>1. PICK e : e = Entry(u, person)
  OBVIOUS
<1>2. e.id = u /\ e.trust = person.trust /\ e.boundary = person.boundary
  BY <1>1 DEF Entry
<1>3. PICK entries : entries = Upserted(e)
  OBVIOUS
<1>4. saved' = [saved EXCEPT ![u] = person]
  BY DEF UpsertPeopleSurface
<1>5. Matches(entries, saved')
  <2>1. entries = LET i == Find(people, u) IN
                  IF i = 0 THEN Append(people, e) ELSE [people EXCEPT ![i] = e]
    BY <1>2, <1>3 DEF Upserted
  <2> QED
    BY <1>2, <1>4, <2>1, MatchesUpserted DEF PeopleInv
<1>6. PICK order \in [DOMAIN entries -> DOMAIN entries] :
        /\ SortsByName(order, entries)
        /\ people' = [i \in DOMAIN entries |-> entries[order[i]]]
  BY <1>1, <1>3 DEF UpsertPeopleSurface
<1>7. Rearranges(order, people', entries)
  <2>1. /\ \A j, k \in DOMAIN order : order[j] = order[k] => j = k
        /\ \A i \in DOMAIN entries : \E k \in DOMAIN entries : order[k] = i
    BY <1>6 DEF SortsByName, Bijection, Injection, Surjection, IsInjective
  <2> QED
    BY <1>6, <2>1 DEF Rearranges
<1>8. IsList(people')
  <2>1. DOMAIN entries = 1 .. Len(entries) /\ Len(entries) \in Nat
    BY <1>5, ListLength DEF Matches
  <2>2. DOMAIN people' = DOMAIN entries /\ people' = [i \in DOMAIN entries |-> people'[i]]
    BY <1>6
  <2>3. PICK r : r = people'
    OBVIOUS
  <2>4. PICK n \in Nat : n = Len(entries)
    BY <2>1
  <2>5. DOMAIN r = 1 .. n /\ r = [i \in 1 .. n |-> r[i]]
    BY <2>1, <2>2, <2>3, <2>4
  <2>6. IsList(r)
    BY <2>5, ListOf
  <2> QED
    BY <2>3, <2>6
<1>9. Matches(people', saved')
  <2>1. PICK r : r = people'
    OBVIOUS
  <2>2. PICK sv : sv = saved'
    OBVIOUS
  <2>3. Matches(entries, sv) /\ IsList(r) /\ Rearranges(order, r, entries)
    BY <1>5, <1>7, <1>8, <2>1, <2>2
  <2>4. Matches(r, sv)
    BY <2>3, MatchesRearranged
  <2> QED
    BY <2>1, <2>2, <2>4
<1>10. saved' \in [User -> Persons \cup {None}]
  BY <1>4 DEF PeopleInv
<1> QED
  BY <1>9, <1>10 DEF PeopleInv

LEMMA DeleteKeeps ==
  ASSUME PeopleInv, NEW u \in User, DeletePeopleSurface(u)
  PROVE  PeopleInv'
<1>1. /\ people' = Picked(people, {i \in DOMAIN people : people[i].id # u})
      /\ saved' = [saved EXCEPT ![u] = None]
  BY DEF DeletePeopleSurface
<1>2. Matches(people', saved')
  BY <1>1, MatchesDeleted DEF PeopleInv
<1>3. saved' \in [User -> Persons \cup {None}]
  BY <1>1 DEF PeopleInv
<1> QED
  BY <1>2, <1>3 DEF PeopleInv

(* What the other steps are.                                               *)
LEMMA StepCases ==
  ASSUME Next
  PROVE  \/ \E u \in User, p \in Persons : UpsertPeopleSurface(u, p)
         \/ \E u \in User : DeletePeopleSurface(u)
         \/ \E th \in DOMAIN threads : ClientStartsTurn(th)
         \/ \E t \in DOMAIN turns : Approve(t)
         \/ \E t \in DOMAIN turns : Deny(t)
         \/ \E c \in Chat : HandleUpdate(c)
         \/ \E c \in Chat : UpdateFails(c)
         \/ Forward \/ TimesOut \/ SendFails \/ Restart
BY DEF Next, Adapter

LEMMA PeopleNext == PeopleInv /\ [Next]_vars => PeopleInv'
<1> SUFFICES ASSUME PeopleInv, [Next]_vars PROVE PeopleInv'
  OBVIOUS
<1>1. ASSUME UNCHANGED <<people, saved>> PROVE PeopleInv'
  BY <1>1 DEF PeopleInv
<1>2. CASE UNCHANGED vars
  BY <1>1, <1>2 DEF vars
<1>3. CASE Next
  <2>1. CASE \E u \in User, p \in Persons : UpsertPeopleSurface(u, p)
    BY <2>1, UpsertKeeps
  <2>2. CASE \E u \in User : DeletePeopleSurface(u)
    BY <2>2, DeleteKeeps
  <2>3. CASE \E th \in DOMAIN threads : ClientStartsTurn(th)
    BY <1>1, <2>3 DEF ClientStartsTurn
  <2>4. CASE \E t \in DOMAIN turns : Approve(t)
    BY <1>1, <2>4 DEF Approve
  <2>5. CASE \E t \in DOMAIN turns : Deny(t)
    BY <1>1, <2>5 DEF Deny
  <2>6. CASE \E c \in Chat : HandleUpdate(c)
    BY <1>1, <2>6 DEF HandleUpdate
  <2>7. CASE \E c \in Chat : UpdateFails(c)
    BY <1>1, <2>7 DEF UpdateFails
  <2>8. CASE Forward \/ TimesOut \/ SendFails \/ Restart
    BY <1>1, <2>8 DEF Forward, TimesOut, SendFails, Restart
  <2> QED
    BY <1>3, <2>1, <2>2, <2>3, <2>4, <2>5, <2>6, <2>7, <2>8, StepCases
<1> QED
  BY <1>2, <1>3

Shown(shown, sv, u) ==
  LET mine == {i \in DOMAIN shown : shown[i].id = u}
  IN  IF sv[u] = None THEN mine = {}
      ELSE \E i \in DOMAIN shown :
             /\ mine = {i}
             /\ shown[i].boundary = sv[u].boundary
             /\ shown[i].trust = sv[u].trust

(* The two lists of the surface, one after the other, are the entries      *)
(* rearranged, and so they show what they stand for.                       *)
LEMMA MatchesShown ==
  ASSUME NEW r, NEW sv, Matches(r, sv), NEW u \in User
  PROVE  Shown(r, sv, u)
<1>1. CASE sv[u] = None
  BY <1>1 DEF Matches, Shown
<1>2. CASE sv[u] # None
  <2>1. PICK i \in DOMAIN r : r[i].id = u
    BY <1>2 DEF Matches
  <2>2. {k \in DOMAIN r : r[k].id = u} = {i}
    BY <2>1 DEF Matches
  <2>3. r[i].boundary = sv[u].boundary /\ r[i].trust = sv[u].trust
    BY <2>1 DEF Matches
  <2> QED
    BY <1>2, <2>2, <2>3 DEF Shown
<1> QED
  BY <1>1, <1>2

LEMMA PeopleShown == PeopleInv => ShownAsSaved
<1> SUFFICES ASSUME PeopleInv PROVE ShownAsSaved
  OBVIOUS
<1> DEFINE I == {i \in DOMAIN people : ~IsAgent(people[i])}
           J == {i \in DOMAIN people : IsAgent(people[i])}
<1>1. PICK shown : shown = Picked(people, I) \o Picked(people, J)
  OBVIOUS
<1>2. I \cup J = DOMAIN people /\ I \cap J = {} /\ IsList(people)
  BY DEF PeopleInv, Matches
<1>3. PICK h : Rearranges(h, shown, people)
  <2> HIDE DEF I, J
  <2> QED
    BY <1>1, <1>2, PickedApart
<1>4. IsList(shown)
  <2>1. Picked(people, I) \in Seq(ToSet(people)) /\ Picked(people, J) \in Seq(ToSet(people))
    <3> DEFINE S == ToSet(people)
    <3>1. people \in Seq(S) /\ Len(people) \in 0 .. Len(people)
      BY <1>2, ListLength DEF IsList
    <3> HIDE DEF S, I, J
    <3>2. Picked(people, I) \in Seq(S) /\ Picked(people, J) \in Seq(S)
      BY <3>1, PicksPrefix
    <3> QED
      BY <3>2 DEF S
  <2> HIDE DEF I, J
  <2>2. shown \in Seq(ToSet(people))
    BY <1>1, <2>1, ConcatProperties
  <2> QED
    BY <2>2, SeqIsList
<1>5. Matches(shown, saved)
  BY <1>3, <1>4, MatchesRearranged DEF PeopleInv
<1>6. shown = BuildPeopleSurface.humans \o BuildPeopleSurface.agents
  BY <1>1 DEF BuildPeopleSurface
<1>7. \A u \in User : Shown(shown, saved, u)
  BY <1>5, MatchesShown
<1>8. \A u \in User :
        Shown(BuildPeopleSurface.humans \o BuildPeopleSurface.agents, saved, u)
  BY <1>6, <1>7
<1> QED
  BY <1>8 DEF Shown, ShownAsSaved

-----------------------------------------------------------------------------
(* Turns, one by one                                                       *)

IsTurn(x) ==
  /\ x = [thread |-> x.thread, chat |-> x.chat, participant |-> x.participant,
          context |-> x.context, told |-> x.told, under |-> x.under, stage |-> x.stage,
          approved |-> x.approved, said |-> x.said, logged |-> x.logged]
  /\ x.stage \in {"waiting", "completed", "failed", "cancelled", "lost"}
  /\ x.approved \in BOOLEAN
  /\ IsList(x.said)
  /\ \A i \in DOMAIN x.said :
       x.said[i].kind \in {"chunk", "message"} /\ x.said[i].what.form # "error"
  /\ x.stage \in {"waiting", "cancelled", "lost"} =>
       x.said = <<>> /\ x.logged = None /\ x.approved = FALSE

(* BoundaryInForce and OwnerAskedFirst of one turn.                        *)
Bounded(x) ==
  x.context = None /\ x.participant \in User \ {Owner} /\ ~x.approved
    => KeepsTo(x.under, x.told.resident)

AskedFirst(x) ==
  x.context # None /\ x.context.confirm /\ ~x.approved =>
    /\ x.logged # None => x.logged.form = "needs_owner"
    /\ \A i \in DOMAIN x.said :
         x.said[i].kind = "message" => x.said[i].what.form = "needs_owner"

Proper(x) == IsTurn(x) /\ Bounded(x) /\ AskedFirst(x)

(* The facts that are told were all relevant.                              *)
LEMMA FactsRelevant ==
  ASSUME NEW memory, memory.facts \in Seq(ToSet(memory.facts)), NEW r,
         NEW text \in RelevantFacts(memory, r)
  PROVE  AllowsText(r, text)
<1> DEFINE s == memory.facts
           S == ToSet(s)
           I == {i \in DOMAIN s : s[i].live /\ AllowsText(r, s[i].text)}
<1>0. s \in Seq(S) /\ Len(s) \in 0 .. Len(s)
  BY LenProperties
<1>1. PICK facts, f : facts = Picked(s, I) /\ Origin(f, facts, Len(s), s, S, I)
  <2> HIDE DEF I, S
  <2>1. \E f : Origin(f, Picks(s, I)[Len(s)], Len(s), s, S, I)
    BY <1>0, PicksOrigin
  <2> QED
    BY <1>0, <2>1, PicksEquations
<1>2. Len(facts) \in Nat
  BY <1>1, LenProperties DEF Origin
<1>3. \A k \in 1 .. Len(facts) : AllowsText(r, facts[k].text)
  BY <1>1 DEF Origin
<1>4. PICK n \in 0 .. Len(facts) : n = IF Len(facts) < 3 THEN Len(facts) ELSE 3
  BY <1>2
<1>5. PICK part : part = SubSeq(facts, 1, n)
  OBVIOUS
<1>6. \A k \in DOMAIN part : k \in 1 .. Len(facts) /\ part[k] = facts[k]
  BY <1>2, <1>5
<1>7. PICK g \in ToSet(part) : text = g.text
  BY <1>1, <1>4, <1>5 DEF RelevantFacts
<1>8. PICK k \in DOMAIN part : g = part[k]
  BY <1>7 DEF ToSet
<1> QED
  BY <1>3, <1>6, <1>7, <1>8

(* Without identity to share, the resident layer holds nothing the         *)
(* relationship does not allow.                                            *)
LEMMA ResidentAllowed ==
  ASSUME NEW memory, memory.facts \in Seq(ToSet(memory.facts)), NEW thread, NEW r,
         r.trust # "owner", ~r.identity,
         NEW text \in Assemble(memory, thread, r).resident
  PROVE  AllowsText(r, text)
<1>1. \/ text \in FilterIdentity(memory, r) \/ text \in FilterState(memory, thread, r)
      \/ text \in RelevantFacts(memory, r) \/ text \in FilterCommitments(thread, r)
  BY DEF Assemble
<1>2. FilterIdentity(memory, r) = {}
  BY DEF FilterIdentity
<1>3. text \in FilterState(memory, thread, r) => AllowsText(r, text)
  BY DEF FilterState
<1>4. text \in FilterCommitments(thread, r) => AllowsText(r, text)
  BY DEF FilterCommitments
<1> QED
  BY <1>1, <1>2, <1>3, <1>4, FactsRelevant

(* What a person is told keeps to the boundary last saved.                 *)
LEMMA ToldKeepsTo ==
  ASSUME PeopleInv, NEW participant \in User \ {Owner}, NEW situation \in Situations
  PROVE  KeepsTo(saved[participant],
                 Assemble(situation.memory, situation.thread,
                          Resolve(people, participant, None)).resident)
<1>1. PICK r : r = Resolve(people, participant, None)
  OBVIOUS
<1>2. PICK memory, thread : memory = situation.memory /\ thread = situation.thread
  OBVIOUS
<1>3. PICK told : told = Assemble(memory, thread, r).resident
  OBVIOUS
<1>4. memory.facts \in Seq(ToSet(memory.facts))
  BY <1>2, SituationsAssumption
<1>5. IsList(people)
  BY DEF PeopleInv, Matches
<1>6. CASE Find(people, participant) = 0 /\ \A i \in DOMAIN people : people[i].id # participant
  <2>1. saved[participant] = None
    BY <1>6 DEF PeopleInv, Matches
  <2>2. r = Stranger
    BY <1>1, <1>6 DEF Resolve
  <2>3. r.trust = "stranger" /\ r.identity = FALSE
    BY <2>2 DEF Stranger, Relationship
  <2>4. \A text \in told : AllowsText(r, text)
    BY <1>3, <1>4, <2>3, ResidentAllowed
  <2>5. told = {}
    BY <2>3, <2>4 DEF AllowsText
  <2> QED
    BY <1>1, <1>2, <1>3, <2>1, <2>5 DEF KeepsTo
<1>7. CASE Find(people, participant) \in DOMAIN people
           /\ people[Find(people, participant)].id = participant
  <2>1. PICK i \in DOMAIN people : i = Find(people, participant) /\ people[i].id = participant
    BY <1>7
  <2>2. i # 0
    BY <1>5, ListLength
  <2>3. PICK b : b = saved[participant]
    OBVIOUS
  <2>4. b # None /\ people[i].trust = b.trust /\ people[i].boundary = b.boundary
    BY <2>1, <2>3 DEF PeopleInv, Matches
  <2>5. r = Relationship(people[i].trust, people[i].boundary, FALSE)
    BY <1>1, <2>1, <2>2 DEF Resolve
  <2>6. r.trust = b.trust /\ r.boundary = b.boundary /\ r.identity = FALSE
    BY <2>4, <2>5 DEF Relationship
  <2>7. ASSUME b.trust # "owner", NEW text \in told
        PROVE  b.trust = "trusted" /\ Words(text) \cap (b.boundary.forbidden \ {Blank}) = {}
    <3>1. AllowsText(r, text)
      BY <1>3, <1>4, <2>6, <2>7, ResidentAllowed
    <3> QED
      BY <2>6, <2>7, <3>1 DEF AllowsText
  <2>8. KeepsTo(b, told)
    BY <2>4, <2>7 DEF KeepsTo
  <2> QED
    BY <1>1, <1>2, <1>3, <2>3, <2>8
<1> QED
  BY <1>5, <1>6, <1>7, Finds

LEMMA AskedProper ==
  ASSUME PeopleInv, NEW th, NEW chat, NEW participant, NEW context, NEW situation \in Situations
  PROVE  LET x == Asked(th, chat, participant, context, situation) IN
         /\ Proper(x) /\ x.thread = th /\ x.chat = chat /\ x.stage = "waiting"
         /\ x.context = context
<1> DEFINE told == Assemble(situation.memory, situation.thread,
                            Resolve(people, participant, context))
           under == IF participant \in User THEN saved[participant] ELSE None
<1>1. PICK x : x = Asked(th, chat, participant, context, situation)
  OBVIOUS
<1>2. x = [thread |-> th, chat |-> chat, participant |-> participant, context |-> context,
           told |-> told, under |-> under,
           stage |-> "waiting", approved |-> FALSE, said |-> <<>>, logged |-> None]
  BY <1>1 DEF Asked
<1>3. Bounded(x)
  <2> SUFFICES ASSUME context = None, participant \in User \ {Owner}
               PROVE  KeepsTo(under, told.resident)
    <3> HIDE DEF told, under
    <3> QED
      BY <1>2 DEF Bounded
  <2> QED
    BY ToldKeepsTo
<1> HIDE DEF told, under
<1>4. IsTurn(x)
  BY <1>2, EmptyList DEF IsTurn
<1>5. AskedFirst(x)
  BY <1>2, EmptyList DEF AskedFirst
<1> QED
  BY <1>1, <1>2, <1>3, <1>4, <1>5 DEF Proper

(* What a model run says, as the log and the event bus have it.            *)
LEMMA SpokenForms ==
  ASSUME NEW context, NEW answer \in Answers
  PROVE  LET said == Spoken(context, answer) IN
         /\ IsList(said)
         /\ \A i \in DOMAIN said :
              /\ said[i].kind \in {"chunk", "message"} /\ said[i].what.form # "error"
              /\ context # None /\ context.confirm /\ said[i].kind = "message" =>
                   said[i].what.form = "needs_owner"
<1>0. IsList(answer.spoken)
  BY AnswersAssumption DEF IsList
<1>1. PICK s : s = answer.spoken
  OBVIOUS
<1>2. Len(s) \in Nat /\ DOMAIN s = 1 .. Len(s)
  BY <1>0, <1>1, ListLength
<1>3. PICK said : said = Spoken(context, answer)
  OBVIOUS
<1>4. said = [i \in 1 .. Len(s) |->
                [kind |-> s[i].kind,
                 what |-> IF s[i].kind = "chunk" THEN Message("as_is", s[i].text)
                          ELSE ApplyOutputPolicy(context, s[i].text)]]
  BY <1>1, <1>2, <1>3 DEF Spoken
<1>5. \A text : ApplyOutputPolicy(context, text).form # "error"
  BY DEF ApplyOutputPolicy, Message, Check
<1>6. ASSUME context # None, context.confirm, NEW text
      PROVE  ApplyOutputPolicy(context, text).form = "needs_owner"
  BY <1>6 DEF ApplyOutputPolicy, Message, Check
<1>7. \A text : Message("as_is", text).form = "as_is"
  BY DEF Message
<1>8. \A i \in 1 .. Len(s) : s[i].kind \in {"chunk", "message"}
  BY <1>1, <1>2, AnswersAssumption
<1>9. ASSUME NEW i \in 1 .. Len(s)
      PROVE  /\ said[i].kind \in {"chunk", "message"} /\ said[i].what.form # "error"
             /\ context # None /\ context.confirm /\ said[i].kind = "message" =>
                  said[i].what.form = "needs_owner"
  <2>1. said[i].kind = s[i].kind
        /\ said[i].what = IF s[i].kind = "chunk" THEN Message("as_is", s[i].text)
                          ELSE ApplyOutputPolicy(context, s[i].text)
    BY <1>4
  <2>2. CASE s[i].kind = "chunk"
    BY <1>7, <2>1, <2>2
  <2>3. CASE s[i].kind = "message"
    BY <1>5, <1>6, <2>1, <2>3
  <2> QED
    BY <1>8, <2>2, <2>3
<1>10. DOMAIN said = 1 .. Len(s) /\ said = [i \in 1 .. Len(s) |-> said[i]]
  BY <1>4
<1>11. IsList(said)
  <2>1. PICK n \in Nat : n = Len(s)
    BY <1>2
  <2>2. DOMAIN said = 1 .. n /\ said = [i \in 1 .. n |-> said[i]]
    BY <1>10, <2>1
  <2> QED
    BY <2>2, ListOf
<1> QED
  BY <1>3, <1>9, <1>10, <1>11

(* A turn that may go on, its output checked for c.                        *)
Ready(x, c) ==
  /\ x = [thread |-> x.thread, chat |-> x.chat, participant |-> x.participant,
          context |-> x.context, told |-> x.told, under |-> x.under, stage |-> x.stage,
          approved |-> x.approved, said |-> x.said, logged |-> x.logged]
  /\ x.approved \in BOOLEAN
  /\ Bounded(x)
  /\ x.approved = FALSE => c = x.context

LEMMA StreamedProper ==
  ASSUME NEW x, NEW c, NEW answer \in Answers, Ready(x, c)
  PROVE  LET y == Streamed(x, c, answer) IN
         Proper(y) /\ y.thread = x.thread /\ y.chat = x.chat
<1>1. PICK s : s = Spoken(c, answer)
  OBVIOUS
<1>2. PICK stage : stage = IF answer.fails THEN "failed" ELSE "completed"
  OBVIOUS
<1>3. PICK l : l = IF answer.fails THEN None ELSE LastWord(c, answer)
  OBVIOUS
<1>4. PICK y : y = Streamed(x, c, answer)
  OBVIOUS
<1>5. y = [thread |-> x.thread, chat |-> x.chat, participant |-> x.participant,
           context |-> x.context, told |-> x.told, under |-> x.under, stage |-> stage,
           approved |-> x.approved, said |-> s, logged |-> l]
  <2>1. y = [x EXCEPT !.said = s, !.stage = stage, !.logged = l]
    BY <1>1, <1>2, <1>3, <1>4 DEF Streamed
  <2> QED
    BY <2>1 DEF Ready
<1>6. /\ IsList(s)
      /\ \A i \in DOMAIN s :
           /\ s[i].kind \in {"chunk", "message"} /\ s[i].what.form # "error"
           /\ c # None /\ c.confirm /\ s[i].kind = "message" => s[i].what.form = "needs_owner"
  BY <1>1, SpokenForms
<1>7. stage \in {"completed", "failed"}
  BY <1>2
<1>8. IsTurn(y)
  BY <1>5, <1>6, <1>7 DEF IsTurn, Ready
<1>9. Bounded(y)
  BY <1>5 DEF Bounded, Ready
<1>10. AskedFirst(y)
  <2> SUFFICES ASSUME x.context # None, x.context.confirm, x.approved = FALSE
               PROVE  /\ l # None => l.form = "needs_owner"
                      /\ \A i \in DOMAIN s :
                           s[i].kind = "message" => s[i].what.form = "needs_owner"
    BY <1>5 DEF AskedFirst, Ready
  <2>1. c # None /\ c.confirm
    BY DEF Ready
  <2>2. l = None \/ \E text : l = ApplyOutputPolicy(c, text)
    BY <1>3 DEF LastWord
  <2>3. \A text : ApplyOutputPolicy(c, text).form = "needs_owner"
    BY <2>1 DEF ApplyOutputPolicy, Message, Check
  <2> QED
    BY <1>6, <2>1, <2>2, <2>3
<1> QED
  BY <1>4, <1>5, <1>8, <1>9, <1>10 DEF Proper

LEMMA ApprovedProper ==
  ASSUME NEW x, NEW told, NEW answer \in Answers, Proper(x)
  PROVE  LET y == Streamed([x EXCEPT !.told = told, !.approved = TRUE], None, answer) IN
         Proper(y) /\ y.thread = x.thread /\ y.chat = x.chat
<1>1. PICK z : z = [x EXCEPT !.told = told, !.approved = TRUE]
  OBVIOUS
<1>2. z = [thread |-> x.thread, chat |-> x.chat, participant |-> x.participant,
           context |-> x.context, told |-> told, under |-> x.under, stage |-> x.stage,
           approved |-> TRUE, said |-> x.said, logged |-> x.logged]
  BY <1>1 DEF Proper, IsTurn
<1>3. Bounded(z)
  BY <1>2 DEF Bounded
<1>4. Ready(z, None)
  BY <1>2, <1>3 DEF Ready
<1>5. LET y == Streamed(z, None, answer) IN
      Proper(y) /\ y.thread = z.thread /\ y.chat = z.chat
  BY <1>4, StreamedProper
<1> QED
  BY <1>1, <1>2, <1>5

LEMMA StagedProper ==
  ASSUME NEW x, Proper(x), x.stage = "waiting", NEW stage \in {"cancelled", "lost"}
  PROVE  LET y == [x EXCEPT !.stage = stage] IN
         Proper(y) /\ y.thread = x.thread /\ y.chat = x.chat /\ y.said = x.said
         /\ y.stage = stage
<1>1. PICK y : y = [x EXCEPT !.stage = stage]
  OBVIOUS
<1>2. y = [thread |-> x.thread, chat |-> x.chat, participant |-> x.participant,
           context |-> x.context, told |-> x.told, under |-> x.under, stage |-> stage,
           approved |-> x.approved, said |-> x.said, logged |-> x.logged]
  BY <1>1 DEF Proper, IsTurn
<1>3. IsTurn(y)
  BY <1>2 DEF Proper, IsTurn
<1>4. Bounded(y)
  BY <1>2 DEF Proper, Bounded
<1>5. AskedFirst(y)
  BY <1>2 DEF Proper, AskedFirst
<1> QED
  BY <1>1, <1>2, <1>3, <1>4, <1>5 DEF Proper

LEMMA ContinuedProper ==
  ASSUME PeopleInv, NEW th, NEW chat, NEW participant, NEW context,
         NEW situation \in Situations, NEW risky \in BOOLEAN, NEW answer \in Answers
  PROVE  LET x == Continued(Asked(th, chat, participant, context, situation), risky, answer) IN
         Proper(x) /\ x.thread = th /\ x.chat = chat
<1>1. PICK x : x = Asked(th, chat, participant, context, situation)
  OBVIOUS
<1>2. Proper(x) /\ x.thread = th /\ x.chat = chat /\ x.stage = "waiting"
  BY <1>1, AskedProper
<1>3. CASE risky
  BY <1>1, <1>2, <1>3 DEF Continued
<1>4. CASE ~risky
  <2>1. Ready(x, x.context)
    BY <1>2 DEF Ready, Proper, IsTurn
  <2>2. PICK y : y = Streamed(x, x.context, answer)
    OBVIOUS
  <2>3. Proper(y) /\ y.thread = x.thread /\ y.chat = x.chat
    BY <2>1, <2>2, StreamedProper
  <2>4. y = Continued(x, risky, answer)
    BY <1>4, <2>2 DEF Continued
  <2> QED
    BY <1>1, <1>2, <2>3, <2>4
<1> QED
  BY <1>3, <1>4

-----------------------------------------------------------------------------
(* Threads and turns                                                       *)

ThreadsInv ==
  /\ threads \in Seq(Chat)
  /\ threadOf \in [Chat -> 0 .. Len(threads)]
  /\ since \in 0 .. Len(threads)
  /\ \A c \in Chat : threadOf[c] # 0 => threadOf[c] > since /\ threads[threadOf[c]] = c
  /\ \A i \in since + 1 .. Len(threads) : threadOf[threads[i]] = i

LEMMA ThreadsInit == Init => ThreadsInv
<1> SUFFICES ASSUME Init PROVE ThreadsInv
  OBVIOUS
<1>1. threads \in Seq(Chat) /\ Len(threads) = 0
  BY EmptySeq DEF Init
<1> QED
  BY <1>1 DEF Init, ThreadsInv

LEMMA FileKeeps ==
  ASSUME ThreadsInv, NEW c \in Chat, FileThread(c), since' = since
  PROVE  /\ ThreadsInv'
         /\ DOMAIN threads \subseteq DOMAIN threads' /\ ThreadFor(c) \in DOMAIN threads'
<1>1. PICK n \in Nat : n = Len(threads)
  BY LenProperties DEF ThreadsInv
<1>2. DOMAIN threads = 1 .. n /\ \A i \in 1 .. n : threads[i] \in Chat
  BY <1>1, LenProperties, ElementOfSeq DEF ThreadsInv
<1>3. CASE threadOf[c] = 0
  <2>1. threads' = Append(threads, c) /\ threadOf' = [threadOf EXCEPT ![c] = n + 1]
        /\ ThreadFor(c) = n + 1
    BY <1>1, <1>3 DEF FileThread, ThreadFor
  <2>2. /\ threads' \in Seq(Chat) /\ Len(threads') = n + 1
        /\ threads'[n + 1] = c /\ \A i \in 1 .. n : threads'[i] = threads[i]
    BY <1>1, <2>1, AppendProperties DEF ThreadsInv
  <2>3. DOMAIN threads' = 1 .. n + 1
    BY <2>2, LenProperties
  <2>4. threadOf' \in [Chat -> 0 .. n + 1] /\ threadOf'[c] = n + 1
        /\ \A d \in Chat : d # c => threadOf'[d] = threadOf[d]
    BY <1>1, <2>1 DEF ThreadsInv
  <2>5. since \in 0 .. n
    BY <1>1 DEF ThreadsInv
  <2>6. \A d \in Chat : threadOf'[d] # 0 =>
          threadOf'[d] > since /\ threads'[threadOf'[d]] = d
    <3> SUFFICES ASSUME NEW d \in Chat, threadOf'[d] # 0
                 PROVE  threadOf'[d] > since /\ threads'[threadOf'[d]] = d
      OBVIOUS
    <3>1. CASE d = c
      BY <2>2, <2>4, <2>5, <3>1
    <3>2. CASE d # c
      <4>1. threadOf'[d] = threadOf[d] /\ threadOf[d] \in 1 .. n
        BY <1>1, <2>4, <3>2 DEF ThreadsInv
      <4> QED
        BY <2>2, <4>1 DEF ThreadsInv
    <3> QED
      BY <3>1, <3>2
  <2>7. \A i \in since + 1 .. n + 1 : threadOf'[threads'[i]] = i
    <3> SUFFICES ASSUME NEW i \in since + 1 .. n + 1 PROVE threadOf'[threads'[i]] = i
      OBVIOUS
    <3>1. CASE i = n + 1
      BY <2>2, <2>4, <3>1
    <3>2. CASE i # n + 1
      <4>1. i \in since + 1 .. n /\ i \in 1 .. n
        BY <2>5, <3>2
      <4>2. threadOf[threads[i]] = i /\ i # 0 /\ threads'[i] = threads[i]
        BY <1>1, <2>2, <4>1 DEF ThreadsInv
      <4> QED
        BY <1>2, <1>3, <2>4, <4>1, <4>2
    <3> QED
      BY <3>1, <3>2
  <2>8. ThreadsInv'
    BY <2>2, <2>4, <2>5, <2>6, <2>7 DEF ThreadsInv
  <2> QED
    BY <1>1, <1>2, <2>1, <2>3, <2>8
<1>4. CASE threadOf[c] # 0
  <2>1. threads' = threads /\ ThreadFor(c) = threadOf[c]
    BY <1>4 DEF FileThread, ThreadFor
  <2>2. threadOf' = threadOf
    BY <2>1 DEF FileThread, ThreadsInv
  <2>3. ThreadsInv'
    BY <2>1, <2>2 DEF ThreadsInv
  <2>4. threadOf[c] \in 1 .. n
    BY <1>1, <1>4 DEF ThreadsInv
  <2> QED
    BY <1>2, <2>1, <2>3, <2>4
<1> QED
  BY <1>3, <1>4

LEMMA RestartKeepsThreads ==
  ASSUME ThreadsInv, Restart
  PROVE  ThreadsInv'
<1>1. Len(threads) \in Nat /\ threads' = threads /\ since' = Len(threads)
      /\ threadOf' = [c \in Chat |-> 0]
  BY LenProperties DEF Restart, ThreadsInv
<1> QED
  BY <1>1 DEF ThreadsInv

LEMMA ThreadsNext == ThreadsInv /\ [Next]_vars => ThreadsInv'
<1> SUFFICES ASSUME ThreadsInv, [Next]_vars PROVE ThreadsInv'
  OBVIOUS
<1>1. ASSUME UNCHANGED <<threads, threadOf, since>> PROVE ThreadsInv'
  BY <1>1 DEF ThreadsInv
<1>2. CASE UNCHANGED vars
  BY <1>1, <1>2 DEF vars
<1>3. CASE Next
  <2>1. CASE \E u \in User, p \in Persons : UpsertPeopleSurface(u, p)
    BY <1>1, <2>1 DEF UpsertPeopleSurface
  <2>2. CASE \E u \in User : DeletePeopleSurface(u)
    BY <1>1, <2>2 DEF DeletePeopleSurface
  <2>3. CASE \E th \in DOMAIN threads : ClientStartsTurn(th)
    BY <1>1, <2>3 DEF ClientStartsTurn
  <2>4. CASE \E t \in DOMAIN turns : Approve(t)
    BY <1>1, <2>4 DEF Approve
  <2>5. CASE \E t \in DOMAIN turns : Deny(t)
    BY <1>1, <2>5 DEF Deny
  <2>6. CASE \E c \in Chat : HandleUpdate(c)
    <3>1. PICK c \in Chat : FileThread(c) /\ since' = since
      BY <2>6 DEF HandleUpdate
    <3> QED
      BY <3>1, FileKeeps
  <2>7. CASE \E c \in Chat : UpdateFails(c)
    <3>1. PICK c \in Chat : FileThread(c) /\ since' = since
      BY <2>7 DEF UpdateFails
    <3> QED
      BY <3>1, FileKeeps
  <2>8. CASE Forward \/ TimesOut \/ SendFails
    BY <1>1, <2>8 DEF Forward, TimesOut, SendFails
  <2>9. CASE Restart
    BY <2>9, RestartKeepsThreads
  <2> QED
    BY <1>3, <2>1, <2>2, <2>3, <2>4, <2>5, <2>6, <2>7, <2>8, <2>9, StepCases
<1> QED
  BY <1>2, <1>3

(* A chat has one thread in chat_threads.                                  *)
LEMMA ThreadsUnique == ThreadsInv => OneThreadPerChat
BY DEF ThreadsInv, OneThreadPerChat

TurnsInv ==
  /\ IsList(turns)
  /\ \A t \in DOMAIN turns : Proper(turns[t]) /\ turns[t].thread \in DOMAIN threads

(* A turn is put after the others.                                         *)
LEMMA TurnAppended ==
  ASSUME TurnsInv, DOMAIN threads \subseteq DOMAIN threads',
         NEW x, Proper(x), x.thread \in DOMAIN threads', turns' = Append(turns, x)
  PROVE  TurnsInv'
<1>1. IsList(turns) /\ DOMAIN turns = 1 .. Len(turns) /\ Len(turns) \in Nat
  BY ListLength DEF TurnsInv
<1>2. /\ IsList(turns') /\ DOMAIN turns' = 1 .. Len(turns) + 1
      /\ turns'[Len(turns) + 1] = x
      /\ \A t \in 1 .. Len(turns) : turns'[t] = turns[t]
  BY <1>1, ListAppend
<1>3. \A t \in DOMAIN turns' : (t \in DOMAIN turns /\ turns'[t] = turns[t]) \/ turns'[t] = x
  BY <1>1, <1>2
<1>4. \A t \in DOMAIN turns' : Proper(turns'[t]) /\ turns'[t].thread \in DOMAIN threads'
  BY <1>3 DEF TurnsInv
<1> QED
  BY <1>2, <1>4 DEF TurnsInv

(* Turns are changed where they are.                                       *)
LEMMA TurnsReplaced ==
  ASSUME TurnsInv, threads' = threads, DOMAIN turns' = DOMAIN turns,
         turns' = [t \in DOMAIN turns |-> turns'[t]],
         \A t \in DOMAIN turns :
           Proper(turns'[t]) /\ turns'[t].thread = turns[t].thread
  PROVE  TurnsInv'
<1>1. IsList(turns) /\ DOMAIN turns = 1 .. Len(turns) /\ Len(turns) \in Nat
  BY ListLength DEF TurnsInv
<1>2. PICK r : r = turns'
  OBVIOUS
<1>3. PICK n \in Nat : n = Len(turns)
  BY <1>1
<1>4. DOMAIN r = 1 .. n /\ r = [t \in 1 .. n |-> r[t]]
  BY <1>1, <1>2, <1>3
<1>5. IsList(r)
  BY <1>4, ListOf
<1> QED
  BY <1>2, <1>5 DEF TurnsInv

(* What the actions make of the turns.                                     *)
LEMMA ClientEffect ==
  ASSUME PeopleInv, NEW th \in DOMAIN threads, ClientStartsTurn(th)
  PROVE  \E x : Proper(x) /\ x.thread = th /\ turns' = Append(turns, x)
<1>1. PICK asker \in Askers, situation \in Situations, risky \in BOOLEAN, answer \in Answers :
        turns' = Append(turns, Continued(
                   Asked(th, None, asker.participant, asker.context, situation),
                   risky, answer))
  BY DEF ClientStartsTurn
<1>2. PICK x : x = Continued(Asked(th, None, asker.participant, asker.context, situation),
                             risky, answer)
  OBVIOUS
<1>3. Proper(x) /\ x.thread = th
  BY <1>2, ContinuedProper
<1> QED
  BY <1>1, <1>2, <1>3

LEMMA ApproveEffect ==
  ASSUME TurnsInv, NEW t \in DOMAIN turns, Approve(t)
  PROVE  \E y : /\ Proper(y) /\ y.thread = turns[t].thread /\ y.chat = turns[t].chat
                /\ turns' = [turns EXCEPT ![t] = y]
<1>1. PICK situation \in Situations, answer \in Answers :
        turns' = [turns EXCEPT ![t] = Streamed(
                   [@ EXCEPT !.told = Assemble(situation.memory, situation.thread,
                                               Resolve(people, None, None)),
                             !.approved = TRUE],
                   None, answer)]
  BY DEF Approve
<1>2. PICK x : x = turns[t]
  OBVIOUS
<1>3. PICK told : told = Assemble(situation.memory, situation.thread,
                                  Resolve(people, None, None))
  OBVIOUS
<1>4. PICK y : y = Streamed([x EXCEPT !.told = told, !.approved = TRUE], None, answer)
  OBVIOUS
<1>5. Proper(x)
  BY <1>2 DEF TurnsInv
<1>6. Proper(y) /\ y.thread = x.thread /\ y.chat = x.chat
  BY <1>4, <1>5, ApprovedProper
<1>7. turns' = [turns EXCEPT ![t] = y]
  BY <1>1, <1>2, <1>3, <1>4
<1> QED
  BY <1>2, <1>6, <1>7

LEMMA DenyEffect ==
  ASSUME TurnsInv, NEW t \in DOMAIN turns, Deny(t)
  PROVE  \E y : /\ Proper(y) /\ y.thread = turns[t].thread /\ y.chat = turns[t].chat
                /\ y.said = turns[t].said
                /\ turns' = [turns EXCEPT ![t] = y]
<1>1. turns[t].stage = "waiting" /\ turns' = [turns EXCEPT ![t].stage = "cancelled"]
  BY DEF Deny
<1>2. PICK x : x = turns[t]
  OBVIOUS
<1>3. PICK y : y = [x EXCEPT !.stage = "cancelled"]
  OBVIOUS
<1>4. Proper(x) /\ x.stage = "waiting"
  BY <1>1, <1>2 DEF TurnsInv
<1>5. Proper(y) /\ y.thread = x.thread /\ y.chat = x.chat /\ y.said = x.said
  BY <1>3, <1>4, StagedProper
<1>6. turns' = [turns EXCEPT ![t] = y]
  BY <1>1, <1>2, <1>3
<1> QED
  BY <1>2, <1>5, <1>6

LEMMA RestartEffect ==
  ASSUME TurnsInv, Restart
  PROVE  /\ DOMAIN turns' = DOMAIN turns /\ turns' = [t \in DOMAIN turns |-> turns'[t]]
         /\ \A t \in DOMAIN turns :
              /\ Proper(turns'[t]) /\ turns'[t].thread = turns[t].thread
              /\ turns'[t].chat = turns[t].chat /\ turns'[t].said = turns[t].said
<1>1. turns' = [t \in DOMAIN turns |->
                 IF turns[t].stage = "waiting" THEN [turns[t] EXCEPT !.stage = "lost"]
                 ELSE turns[t]]
  BY DEF Restart
<1>2. ASSUME NEW t \in DOMAIN turns
      PROVE  /\ Proper(turns'[t]) /\ turns'[t].thread = turns[t].thread
             /\ turns'[t].chat = turns[t].chat /\ turns'[t].said = turns[t].said
  <2>1. PICK x : x = turns[t]
    OBVIOUS
  <2>2. Proper(x)
    BY <2>1 DEF TurnsInv
  <2>3. CASE x.stage = "waiting"
    <3>1. PICK y : y = [x EXCEPT !.stage = "lost"]
      OBVIOUS
    <3>2. turns'[t] = y
      BY <1>1, <2>1, <2>3, <3>1
    <3>3. Proper(y) /\ y.thread = x.thread /\ y.chat = x.chat /\ y.said = x.said
      BY <2>2, <2>3, <3>1, StagedProper
    <3> QED
      BY <2>1, <3>2, <3>3
  <2>4. CASE x.stage # "waiting"
    <3>1. turns'[t] = x
      BY <1>1, <2>1, <2>4
    <3> QED
      BY <2>1, <2>2, <3>1
  <2> QED
    BY <2>3, <2>4
<1>3. DOMAIN turns' = DOMAIN turns /\ turns' = [t \in DOMAIN turns |-> turns'[t]]
  BY <1>1
<1> QED
  BY <1>2, <1>3

LEMMA UpdateEffect ==
  ASSUME PeopleInv, ThreadsInv, NEW c \in Chat, HandleUpdate(c)
  PROVE  \E x : /\ Proper(x) /\ x.thread \in DOMAIN threads' /\ x.chat = c
                /\ turns' = Append(turns, x)
                /\ handling' = [chat |-> c, turn |-> Len(turns) + 1,
                                queue |-> <<Event("other", None)>> \o Published(x)]
                /\ DOMAIN threads \subseteq DOMAIN threads'
<1>1. PICK sender \in Senders, situation \in Situations, risky \in BOOLEAN, answer \in Answers :
        LET turn == Continued(
                      Asked(ThreadFor(c), c, Participant(c, sender), None, situation),
                      risky, answer)
        IN  /\ FileThread(c) /\ since' = since
            /\ turns' = Append(turns, turn)
            /\ handling' = [chat |-> c, turn |-> Len(turns) + 1,
                            queue |-> <<Event("other", None)>> \o Published(turn)]
  BY DEF HandleUpdate
<1>2. PICK x : x = Continued(
                      Asked(ThreadFor(c), c, Participant(c, sender), None, situation),
                      risky, answer)
  OBVIOUS
<1>3. PICK th, participant : th = ThreadFor(c) /\ participant = Participant(c, sender)
  OBVIOUS
<1>4. Proper(x) /\ x.thread = th /\ x.chat = c
  BY <1>2, <1>3, ContinuedProper
<1>5. th \in DOMAIN threads' /\ DOMAIN threads \subseteq DOMAIN threads'
  BY <1>1, <1>3, FileKeeps
<1> QED
  BY <1>1, <1>2, <1>4, <1>5

LEMMA TurnsInit == Init => TurnsInv
BY EmptyList DEF Init, TurnsInv

LEMMA TurnsNext == PeopleInv /\ ThreadsInv /\ TurnsInv /\ [Next]_vars => TurnsInv'
<1> SUFFICES ASSUME PeopleInv, ThreadsInv, TurnsInv, [Next]_vars PROVE TurnsInv'
  OBVIOUS
<1>1. ASSUME UNCHANGED <<threads, turns>> PROVE TurnsInv'
  BY <1>1 DEF TurnsInv
<1>2. CASE UNCHANGED vars
  BY <1>1, <1>2 DEF vars
<1>3. CASE Next
  <2>1. CASE \E u \in User, p \in Persons : UpsertPeopleSurface(u, p)
    BY <1>1, <2>1 DEF UpsertPeopleSurface
  <2>2. CASE \E u \in User : DeletePeopleSurface(u)
    BY <1>1, <2>2 DEF DeletePeopleSurface
  <2>3. CASE \E th \in DOMAIN threads : ClientStartsTurn(th)
    <3>1. PICK th \in DOMAIN threads : ClientStartsTurn(th)
      BY <2>3
    <3>2. threads' = threads
      BY <3>1 DEF ClientStartsTurn
    <3>3. PICK x : Proper(x) /\ x.thread = th /\ turns' = Append(turns, x)
      BY <3>1, ClientEffect
    <3> QED
      BY <3>2, <3>3, TurnAppended
  <2>4. CASE \E t \in DOMAIN turns : Approve(t)
    <3>1. PICK t \in DOMAIN turns : Approve(t)
      BY <2>4
    <3>2. threads' = threads
      BY <3>1 DEF Approve
    <3>3. PICK y : Proper(y) /\ y.thread = turns[t].thread /\ turns' = [turns EXCEPT ![t] = y]
      BY <3>1, ApproveEffect
    <3>4. DOMAIN turns' = DOMAIN turns /\ turns' = [k \in DOMAIN turns |-> turns'[k]]
      BY <3>3
    <3>5. \A k \in DOMAIN turns : Proper(turns'[k]) /\ turns'[k].thread = turns[k].thread
      BY <3>3 DEF TurnsInv
    <3> QED
      BY <3>2, <3>4, <3>5, TurnsReplaced
  <2>5. CASE \E t \in DOMAIN turns : Deny(t)
    <3>1. PICK t \in DOMAIN turns : Deny(t)
      BY <2>5
    <3>2. threads' = threads
      BY <3>1 DEF Deny
    <3>3. PICK y : Proper(y) /\ y.thread = turns[t].thread /\ turns' = [turns EXCEPT ![t] = y]
      BY <3>1, DenyEffect
    <3>4. DOMAIN turns' = DOMAIN turns /\ turns' = [k \in DOMAIN turns |-> turns'[k]]
      BY <3>3
    <3>5. \A k \in DOMAIN turns : Proper(turns'[k]) /\ turns'[k].thread = turns[k].thread
      BY <3>3 DEF TurnsInv
    <3> QED
      BY <3>2, <3>4, <3>5, TurnsReplaced
  <2>6. CASE \E c \in Chat : HandleUpdate(c)
    BY <2>6, UpdateEffect, TurnAppended
  <2>7. CASE \E c \in Chat : UpdateFails(c)
    <3>1. PICK c \in Chat : FileThread(c) /\ since' = since /\ turns' = turns
      BY <2>7 DEF UpdateFails
    <3>2. DOMAIN threads \subseteq DOMAIN threads'
      BY <3>1, FileKeeps
    <3> QED
      BY <3>1, <3>2 DEF TurnsInv
  <2>8. CASE Forward \/ TimesOut \/ SendFails
    BY <1>1, <2>8 DEF Forward, TimesOut, SendFails
  <2>9. CASE Restart
    <3>1. threads' = threads
      BY <2>9 DEF Restart
    <3> QED
      BY <2>9, <3>1, RestartEffect, TurnsReplaced
  <2> QED
    BY <1>3, <2>1, <2>2, <2>3, <2>4, <2>5, <2>6, <2>7, <2>8, <2>9, StepCases
<1> QED
  BY <1>2, <1>3

-----------------------------------------------------------------------------
(* What is read of a turn's events, and what of it is sent                 *)

Voiced(said) == {i \in DOMAIN said : said[i].what.text # Blank}

PartsOf(s, t) ==
  Picked(s, {i \in DOMAIN s : s[i].turn = t /\ s[i].what.form # "error"})

EndOf(x) ==
  CASE x.stage = "completed" -> Event("turn_completed", x.logged)
    [] x.stage = "failed" -> Event("turn_failed", Message("error", None))
    [] OTHER -> Event("approval_requested", None)

(* The m-th event of the subscription, and how much was said in n events.  *)
At(said, end, m) ==
  IF m = 1 THEN Event("other", None) ELSE IF m - 1 <= Len(said) THEN said[m - 1] ELSE end

Consumed(n, len) == IF n = 0 THEN 0 ELSE IF n - 1 <= len THEN n - 1 ELSE len

Unread(queue, said, end, n) ==
  /\ IsList(queue) /\ Len(queue) = Len(said) + 2 - n
  /\ \A i \in 1 .. Len(queue) : queue[i] = At(said, end, n + i)

Same(a, b) == Len(a) = Len(b) /\ \A i \in 1 .. Len(a) : a[i].what = b[i].what

(* n events were read, and what was voiced in them was sent.               *)
ReadUpto(n, queue, x, parts) ==
  /\ n \in 0 .. Len(x.said) + 2
  /\ Unread(queue, x.said, EndOf(x), n)
  /\ IsList(parts)
  /\ Same(parts, Picks(x.said, Voiced(x.said))[Consumed(n, Len(x.said))])

(* A subscription that was not read yet.                                   *)
LEMMA UnreadAll ==
  ASSUME NEW x, IsTurn(x)
  PROVE  Unread(<<Event("other", None)>> \o Published(x), x.said, EndOf(x), 0)
<1> DEFINE S == ToSet(x.said) \cup {Event("other", None), EndOf(x)}
<1>1. PICK said, m : said = x.said /\ m = Len(said)
  OBVIOUS
<1>2. m \in Nat /\ DOMAIN said = 1 .. m
  BY <1>1, ListLength DEF IsTurn
<1>3. said \in Seq(S)
  <2>1. ToSet(x.said) \subseteq S
    OBVIOUS
  <2> HIDE DEF S
  <2> QED
    BY <1>1, <2>1, SeqMonotonic DEF IsTurn, IsList
<1>4. PICK a, b : a = <<Event("other", None)>> /\ b = <<EndOf(x)>>
  OBVIOUS
<1>5. a \in Seq(S) /\ b \in Seq(S) /\ Len(a) = 1 /\ Len(b) = 1
      /\ a[1] = Event("other", None) /\ b[1] = EndOf(x)
  BY <1>4
<1>6. Published(x) = said \o b
  BY <1>1, <1>4 DEF Published, EndOf
<1> HIDE DEF S
<1>7. PICK p : p = said \o b
  OBVIOUS
<1>8. /\ p \in Seq(S) /\ Len(p) = m + 1
      /\ \A i \in 1 .. m + 1 : p[i] = IF i <= m THEN said[i] ELSE b[i - m]
  BY <1>1, <1>3, <1>5, <1>7, ConcatProperties
<1>9. PICK q : q = a \o p
  OBVIOUS
<1>10. /\ q \in Seq(S) /\ Len(q) = m + 2
       /\ \A i \in 1 .. m + 2 : q[i] = IF i <= 1 THEN a[i] ELSE p[i - 1]
  <2>1. Len(a) + Len(p) = m + 2
    BY <1>2, <1>5, <1>8
  <2>2. /\ q \in Seq(S) /\ Len(q) = Len(a) + Len(p)
        /\ \A i \in 1 .. Len(a) + Len(p) : q[i] = IF i <= Len(a) THEN a[i] ELSE p[i - Len(a)]
    BY <1>5, <1>8, <1>9, ConcatProperties
  <2> QED
    BY <1>5, <2>1, <2>2
<1>11. ASSUME NEW i \in 1 .. m + 2
       PROVE  q[i] = At(said, EndOf(x), 0 + i)
  <2>1. CASE i = 1
    BY <1>2, <1>5, <1>10, <2>1 DEF At
  <2>2. CASE i # 1
    <3>1. i - 1 \in 1 .. m + 1 /\ q[i] = p[i - 1] /\ 0 + i = i
      BY <1>2, <1>10, <2>2
    <3>2. CASE i - 1 <= m
      BY <1>1, <1>8, <2>2, <3>1, <3>2 DEF At
    <3>3. CASE ~(i - 1 <= m)
      <4>1. (i - 1) - m = 1
        BY <1>2, <3>1, <3>3
      <4>2. p[i - 1] = b[1]
        BY <1>8, <3>1, <3>3, <4>1
      <4> QED
        BY <1>1, <1>5, <2>2, <3>1, <3>3, <4>2 DEF At
    <3> QED
      BY <3>2, <3>3
  <2> QED
    BY <2>1, <2>2
<1>12. IsList(q)
  BY <1>10, SeqIsList
<1>13. Unread(q, said, EndOf(x), 0)
  BY <1>1, <1>2, <1>10, <1>11, <1>12 DEF Unread
<1> QED
  BY <1>1, <1>4, <1>6, <1>7, <1>9, <1>13

(* Reading one event.                                                      *)
LEMMA UnreadTail ==
  ASSUME NEW queue, NEW said, NEW end, NEW n \in Nat, Unread(queue, said, end, n),
         IsList(said), queue # <<>>
  PROVE  /\ n <= Len(said) + 1 /\ Head(queue) = At(said, end, n + 1)
         /\ Unread(Tail(queue), said, end, n + 1)
<1> DEFINE S == ToSet(queue)
<1>1. queue \in Seq(S) /\ Len(queue) \in Nat /\ Len(said) \in Nat
  BY ListLength DEF Unread, IsList
<1> HIDE DEF S
<1>2. PICK r : r = Tail(queue)
  OBVIOUS
<1>3. Len(queue) # 0 /\ Head(queue) = queue[1]
  BY <1>1, HeadTailProperties, EmptySeq
<1>4. r \in Seq(S) /\ Len(r) = Len(queue) - 1 /\ \A i \in 1 .. Len(r) : r[i] = queue[i + 1]
  BY <1>1, <1>2, HeadTailProperties
<1>5. Len(queue) = Len(said) + 2 - n /\ \A i \in 1 .. Len(queue) : queue[i] = At(said, end, n + i)
  BY DEF Unread
<1>6. Len(r) = Len(said) + 2 - (n + 1)
  BY <1>1, <1>4, <1>5
<1>7. \A i \in 1 .. Len(r) : r[i] = At(said, end, (n + 1) + i)
  <2> SUFFICES ASSUME NEW i \in 1 .. Len(r) PROVE r[i] = At(said, end, (n + 1) + i)
    OBVIOUS
  <2>1. i + 1 \in 1 .. Len(queue) /\ n + (i + 1) = (n + 1) + i /\ r[i] = queue[i + 1]
    BY <1>1, <1>3, <1>4
  <2> QED
    BY <1>5, <2>1
<1>8. Unread(r, said, end, n + 1)
  BY <1>4, <1>6, <1>7, SeqIsList DEF Unread
<1>9. n <= Len(said) + 1
  BY <1>1, <1>3, <1>5
<1> QED
  BY <1>2, <1>3, <1>5, <1>8, <1>9, <1>1

(* One more message: it is a part of its turn, unless it is an error.      *)
LEMMA PartsAppend ==
  ASSUME NEW s, IsList(s), NEW m, NEW t
  PROVE  /\ IsList(PartsOf(s, t))
         /\ PartsOf(Append(s, m), t) = IF m.turn = t /\ m.what.form # "error"
                                       THEN Append(PartsOf(s, t), m) ELSE PartsOf(s, t)
<1> DEFINE S == ToSet(s) \cup {m}
           Part(r, i) == r[i].turn = t /\ r[i].what.form # "error"
           I == {i \in DOMAIN s : Part(s, i)}
<1>1. PICK r : r = Append(s, m)
  OBVIOUS
<1> DEFINE J == {i \in DOMAIN r : Part(r, i)}
<1>2. s \in Seq(S) /\ m \in S
  <2>1. ToSet(s) \subseteq S /\ m \in S
    OBVIOUS
  <2> HIDE DEF S
  <2> QED
    BY <2>1, SeqMonotonic DEF IsList
<1>3. /\ Len(s) \in Nat /\ DOMAIN s = 1 .. Len(s) /\ DOMAIN r = 1 .. Len(s) + 1
      /\ r[Len(s) + 1] = m
      /\ \A i \in 1 .. Len(s) : r[i] = s[i]
  BY <1>1, ListLength, ListAppend
<1>4. \A i \in 1 .. Len(s) : i \in I <=> i \in J
  BY <1>3
<1>5. Len(s) + 1 \in J <=> m.turn = t /\ m.what.form # "error"
  BY <1>3
<1>6. PartsOf(s, t) = Picked(s, I) /\ PartsOf(r, t) = Picked(r, J)
  BY DEF PartsOf
<1> HIDE DEF S, I, J
<1>7. Picked(r, J) = IF Len(s) + 1 \in J THEN Append(Picked(s, I), m) ELSE Picked(s, I)
  BY <1>1, <1>2, <1>4, PickedAppend
<1>8. Picked(s, I) \in Seq(S)
  <2>1. Len(s) \in 0 .. Len(s)
    BY <1>3
  <2> QED
    BY <1>2, <2>1, PicksPrefix
<1>9. IsList(PartsOf(s, t))
  BY <1>6, <1>8, SeqIsList
<1> QED
  BY <1>1, <1>5, <1>6, <1>7, <1>9

(* A turn nothing was sent of.                                             *)
LEMMA PartsEmpty ==
  ASSUME NEW s, IsList(s), NEW t, \A i \in DOMAIN s : s[i].turn # t
  PROVE  IsList(PartsOf(s, t)) /\ Len(PartsOf(s, t)) = 0
<1> DEFINE S == ToSet(s)
           I == {i \in DOMAIN s : s[i].turn = t /\ s[i].what.form # "error"}
<1>1. s \in Seq(S) /\ Len(s) \in Nat /\ Len(s) \in 0 .. Len(s) /\ DOMAIN s = 1 .. Len(s)
  BY ListLength DEF IsList
<1>2. I = {}
  OBVIOUS
<1>3. PartsOf(s, t) = Picked(s, I)
  BY DEF PartsOf
<1> HIDE DEF I, S
<1>4. PICK f, r : r = Picked(s, I) /\ Origin(f, r, Len(s), s, S, I)
  BY <1>1, PicksOrigin, PicksEquations
<1>5. r \in Seq(S) /\ Len(r) \in Nat /\ \A k \in 1 .. Len(r) : f[k] \in I
  BY <1>4, LenProperties DEF Origin
<1>6. Len(r) = 0
  BY <1>2, <1>5
<1> QED
  BY <1>3, <1>4, <1>5, <1>6, SeqIsList

LEMMA SameAppend ==
  ASSUME NEW a, NEW b, NEW e, NEW m, IsList(a), IsList(b), Same(a, b), m.what = e.what
  PROVE  Same(Append(a, m), Append(b, e))
<1>1. PICK r, q : r = Append(a, m) /\ q = Append(b, e)
  OBVIOUS
<1>2. /\ Len(r) = Len(a) + 1 /\ r[Len(a) + 1] = m /\ \A i \in 1 .. Len(a) : r[i] = a[i]
      /\ Len(q) = Len(b) + 1 /\ q[Len(b) + 1] = e /\ \A i \in 1 .. Len(b) : q[i] = b[i]
  BY <1>1, ListAppend
<1>3. Len(a) \in Nat /\ Len(a) = Len(b)
  BY ListLength DEF Same
<1>4. \A i \in 1 .. Len(a) + 1 : r[i].what = q[i].what
  <2> SUFFICES ASSUME NEW i \in 1 .. Len(a) + 1 PROVE r[i].what = q[i].what
    OBVIOUS
  <2>1. CASE i = Len(a) + 1
    BY <1>2, <1>3, <2>1
  <2>2. CASE i \in 1 .. Len(a)
    BY <1>2, <1>3, <2>2 DEF Same
  <2> QED
    BY <1>3, <2>1, <2>2
<1> QED
  BY <1>1, <1>2, <1>3, <1>4 DEF Same

(* One event is read: what is voiced is sent, and nothing else.            *)
LEMMA ReadOne ==
  ASSUME NEW x, IsTurn(x), NEW n, NEW queue, NEW parts, ReadUpto(n, queue, x, parts),
         queue # <<>>, NEW m, m.what = Head(queue).what
  PROVE  LET e == Head(queue) IN
         /\ ReadUpto(n + 1, Tail(queue), x,
                     IF e.kind \in {"chunk", "message"} /\ e.what.text # Blank
                     THEN Append(parts, m) ELSE parts)
         /\ e.kind \in {"chunk", "message"} => e.what.form # "error"
         /\ e.kind = "turn_failed" => e.what.form = "error"
<1>1. PICK said, end, e : said = x.said /\ end = EndOf(x) /\ e = Head(queue)
  OBVIOUS
<1>2. PICK len : len = Len(said)
  OBVIOUS
<1>3. IsList(said) /\ len \in Nat /\ DOMAIN said = 1 .. len
  BY <1>1, <1>2, ListLength DEF IsTurn
<1>4. n \in 0 .. len + 2 /\ Unread(queue, said, end, n) /\ n \in Nat
  BY <1>1, <1>2, <1>3 DEF ReadUpto
<1>5. n <= len + 1 /\ e = At(said, end, n + 1) /\ Unread(Tail(queue), said, end, n + 1)
  BY <1>1, <1>2, <1>3, <1>4, UnreadTail
<1>6. PICK V : V = Voiced(said)
  OBVIOUS
<1> DEFINE P == Picks(said, V)
           S == ToSet(said)
<1>7. \A k \in 0 .. len : P[k] \in Seq(S)
  <2>1. said \in Seq(S)
    BY <1>3 DEF IsList
  <2> HIDE DEF S
  <2> QED
    BY <1>2, <2>1, PicksPrefix
<1>8. \A k \in 1 .. len : P[k] = IF k \in V THEN Append(P[k - 1], said[k]) ELSE P[k - 1]
  <2>1. said \in Seq(S)
    BY <1>3 DEF IsList
  <2> HIDE DEF S
  <2> QED
    BY <1>2, <2>1, PicksEquations
<1> HIDE DEF P, S
<1>9. IsList(parts) /\ Same(parts, P[Consumed(n, len)])
  BY <1>1, <1>2, <1>6 DEF ReadUpto, P
<1>10. ASSUME NEW q, IsList(q), Same(q, P[Consumed(n + 1, len)])
       PROVE  ReadUpto(n + 1, Tail(queue), x, q)
  <2>1. n + 1 \in 0 .. len + 2
    BY <1>3, <1>4, <1>5
  <2> QED
    BY <1>1, <1>2, <1>5, <1>6, <1>10, <2>1 DEF ReadUpto, P
<1>11. CASE n = 0
  <2>1. e.kind = "other"
    BY <1>5, <1>11 DEF At, Event
  <2>2. Consumed(n, len) = 0 /\ Consumed(n + 1, len) = 0
    BY <1>3, <1>11 DEF Consumed
  <2>3. ReadUpto(n + 1, Tail(queue), x, parts)
    BY <1>9, <1>10, <2>2
  <2> QED
    BY <1>1, <2>1, <2>3
<1>12. CASE n \in 1 .. len
  <2>1. e = said[n]
    BY <1>2, <1>3, <1>5, <1>12 DEF At
  <2>2. e.kind \in {"chunk", "message"} /\ e.what.form # "error"
    BY <1>1, <1>3, <1>12, <2>1 DEF IsTurn
  <2>3. Consumed(n, len) = n - 1 /\ Consumed(n + 1, len) = n
    <3>1. n + 1 # 0 /\ (n + 1) - 1 = n /\ n <= len /\ n - 1 <= len /\ n # 0
      BY <1>3, <1>12
    <3> QED
      BY <3>1 DEF Consumed
  <2>4. n \in V <=> e.what.text # Blank
    BY <1>3, <1>6, <1>12, <2>1 DEF Voiced
  <2>5. CASE e.what.text # Blank
    <3>1. P[n] = Append(P[n - 1], e)
      BY <1>8, <1>12, <2>1, <2>4, <2>5
    <3>2. IsList(P[n - 1])
      <4>1. n - 1 \in 0 .. len
        BY <1>3, <1>12
      <4> QED
        BY <1>7, <4>1, SeqIsList
    <3>3. PICK b : b = P[n - 1]
      OBVIOUS
    <3>4. Same(Append(parts, m), Append(b, e))
      BY <1>1, <1>9, <2>3, <3>2, <3>3, SameAppend
    <3>5. IsList(Append(parts, m))
      BY <1>9, ListAppend
    <3>6. ReadUpto(n + 1, Tail(queue), x, Append(parts, m))
      BY <1>10, <2>3, <3>1, <3>3, <3>4, <3>5
    <3> QED
      BY <1>1, <2>2, <2>5, <3>6
  <2>6. CASE e.what.text = Blank
    <3>1. P[n] = P[n - 1]
      BY <1>8, <1>12, <2>4, <2>6
    <3>2. ReadUpto(n + 1, Tail(queue), x, parts)
      BY <1>9, <1>10, <2>3, <3>1
    <3> QED
      BY <1>1, <2>2, <2>6, <3>2
  <2> QED
    BY <2>5, <2>6
<1>13. CASE n = len + 1
  <2>1. e = end
    BY <1>2, <1>3, <1>5, <1>13 DEF At
  <2>2. /\ e.kind \in {"turn_completed", "turn_failed", "approval_requested"}
        /\ e.kind = "turn_failed" => e.what.form = "error"
    BY <1>1, <2>1 DEF EndOf, Event, Message
  <2>3. Consumed(n, len) = len /\ Consumed(n + 1, len) = len
    BY <1>3, <1>13 DEF Consumed
  <2>4. ReadUpto(n + 1, Tail(queue), x, parts)
    BY <1>9, <1>10, <2>3
  <2> QED
    BY <1>1, <2>2, <2>4
<1> QED
  BY <1>3, <1>4, <1>5, <1>11, <1>12, <1>13

(* What was sent so far are the first parts of what was voiced.            *)
LEMMA ReadFirst ==
  ASSUME NEW x, IsTurn(x), NEW n, NEW queue, NEW parts, ReadUpto(n, queue, x, parts)
  PROVE  IsFirstOf(parts, Picked(x.said, Voiced(x.said)))
<1>1. PICK said, V : said = x.said /\ V = Voiced(said)
  OBVIOUS
<1> DEFINE S == ToSet(said)
<1>2. said \in Seq(S) /\ Len(said) \in Nat
  BY <1>1, ListLength DEF IsTurn, IsList
<1>3. PICK k \in 0 .. Len(said) : k = Consumed(n, Len(said))
  BY <1>1, <1>2 DEF ReadUpto, Consumed
<1> HIDE DEF S
<1>4. PICK a, b : a = Picks(said, V)[k] /\ b = Picked(said, V)
  OBVIOUS
<1>5. /\ a \in Seq(S) /\ b \in Seq(S) /\ Len(a) <= Len(b)
      /\ \A i \in 1 .. Len(a) : a[i] = b[i]
  BY <1>2, <1>3, <1>4, PicksPrefix
<1>6. IsList(parts) /\ Same(parts, a)
  BY <1>1, <1>3, <1>4 DEF ReadUpto
<1>7. DOMAIN parts = 1 .. Len(parts) /\ Len(parts) = Len(a)
  BY <1>6, ListLength DEF Same
<1>8. Len(parts) <= Len(b) /\ \A i \in DOMAIN parts : parts[i].what = b[i].what
  BY <1>5, <1>6, <1>7 DEF Same
<1> QED
  BY <1>1, <1>4, <1>8 DEF IsFirstOf

-----------------------------------------------------------------------------
(* What chats are sent                                                     *)

VoicedOf(x) == Picked(x.said, Voiced(x.said))

SentInv ==
  /\ IsList(sent)
  /\ \A i \in DOMAIN sent :
       sent[i].turn \in DOMAIN turns /\ turns[sent[i].turn].chat = sent[i].chat
  /\ \A i, j \in DOMAIN sent : i < j => sent[i].turn <= sent[j].turn
  /\ \A t \in DOMAIN turns : IsFirstOf(PartsOf(sent, t), VoicedOf(turns[t]))

HandlingInv ==
  handling # None =>
    /\ handling = [chat |-> handling.chat, turn |-> handling.turn, queue |-> handling.queue]
    /\ handling.turn \in DOMAIN turns /\ handling.chat = turns[handling.turn].chat
    /\ \A i \in DOMAIN sent : sent[i].turn <= handling.turn
    /\ \E n : ReadUpto(n, handling.queue, turns[handling.turn],
                       PartsOf(sent, handling.turn))

DeliveredInv == SentInv /\ HandlingInv

LEMMA VoicedList ==
  ASSUME NEW x, IsTurn(x)
  PROVE  Len(VoicedOf(x)) \in Nat /\ (x.said = <<>> => Len(VoicedOf(x)) = 0)
<1>1. PICK said, V : said = x.said /\ V = Voiced(said)
  OBVIOUS
<1> DEFINE S == ToSet(said)
<1>2. said \in Seq(S) /\ Len(said) \in Nat
  BY <1>1, ListLength DEF IsTurn, IsList
<1> HIDE DEF S
<1>3. Len(said) \in 0 .. Len(said)
  BY <1>2
<1>4. Picked(said, V) \in Seq(S)
  BY <1>2, <1>3, PicksPrefix
<1>5. Picked(said, V) = Picks(said, V)[Len(said)] /\ Picks(said, V)[0] = <<>>
  BY <1>2, PicksEquations
<1>6. said = <<>> => Picked(said, V) = <<>>
  BY <1>5, EmptySeq
<1> QED
  BY <1>1, <1>4, <1>6, LenProperties, EmptySeq DEF VoicedOf

(* Nothing is the first part of everything.                                *)
LEMMA NothingFirst ==
  ASSUME NEW parts, IsList(parts), Len(parts) = 0, NEW x, IsTurn(x)
  PROVE  IsFirstOf(parts, VoicedOf(x))
<1>1. DOMAIN parts = {}
  BY ListLength
<1> QED
  BY <1>1, VoicedList DEF IsFirstOf

LEMMA SentOverNew ==
  ASSUME TurnsInv, SentInv, sent' = sent, NEW x, Proper(x), turns' = Append(turns, x)
  PROVE  /\ SentInv' /\ Len(turns) + 1 \in DOMAIN turns' /\ turns'[Len(turns) + 1] = x
         /\ IsList(PartsOf(sent, Len(turns) + 1)) /\ Len(PartsOf(sent, Len(turns) + 1)) = 0
         /\ \A i \in DOMAIN sent : sent[i].turn <= Len(turns) + 1
<1>1. IsList(turns) /\ DOMAIN turns = 1 .. Len(turns) /\ Len(turns) \in Nat
  BY ListLength DEF TurnsInv
<1>2. /\ DOMAIN turns' = 1 .. Len(turns) + 1 /\ turns'[Len(turns) + 1] = x
      /\ \A t \in 1 .. Len(turns) : turns'[t] = turns[t]
  BY <1>1, ListAppend
<1>3. \A i \in DOMAIN sent : sent[i].turn \in 1 .. Len(turns)
  BY <1>1 DEF SentInv
<1>4. PICK new : new = Len(turns) + 1
  OBVIOUS
<1>5. \A i \in DOMAIN sent : sent[i].turn # new /\ sent[i].turn <= new
  BY <1>1, <1>3, <1>4
<1>6. IsList(PartsOf(sent, new)) /\ Len(PartsOf(sent, new)) = 0
  <2>1. \A i \in DOMAIN sent : sent[i].turn # new
    BY <1>5
  <2> QED
    BY <2>1, PartsEmpty DEF SentInv
<1>7. IsFirstOf(PartsOf(sent, new), VoicedOf(x))
  BY <1>6, NothingFirst DEF Proper
<1>8. \A t \in DOMAIN turns' : IsFirstOf(PartsOf(sent, t), VoicedOf(turns'[t]))
  <2> SUFFICES ASSUME NEW t \in DOMAIN turns'
               PROVE  IsFirstOf(PartsOf(sent, t), VoicedOf(turns'[t]))
    OBVIOUS
  <2>1. CASE t = new
    BY <1>2, <1>4, <1>7, <2>1
  <2>2. CASE t # new
    <3>1. t \in DOMAIN turns /\ turns'[t] = turns[t]
      BY <1>1, <1>2, <1>4, <2>2
    <3> QED
      BY <3>1 DEF SentInv
  <2> QED
    BY <2>1, <2>2
<1>9. \A i \in DOMAIN sent :
        sent[i].turn \in DOMAIN turns' /\ turns'[sent[i].turn].chat = sent[i].chat
  <2>1. \A t \in DOMAIN turns : t \in DOMAIN turns' /\ turns'[t] = turns[t]
    BY <1>1, <1>2
  <2> QED
    BY <2>1 DEF SentInv
<1>10. SentInv'
  BY <1>8, <1>9 DEF SentInv
<1>11. new \in DOMAIN turns' /\ turns'[new] = x
  BY <1>1, <1>2, <1>4
<1> QED
  BY <1>4, <1>5, <1>6, <1>10, <1>11

LEMMA SentOverReplaced ==
  ASSUME TurnsInv, TurnsInv', SentInv, sent' = sent, DOMAIN turns' = DOMAIN turns,
         \A t \in DOMAIN turns :
           /\ turns'[t].chat = turns[t].chat
           /\ turns'[t].said = turns[t].said \/ turns[t].said = <<>>
  PROVE  SentInv'
<1>1. \A t \in DOMAIN turns : IsFirstOf(PartsOf(sent, t), VoicedOf(turns'[t]))
  <2> SUFFICES ASSUME NEW t \in DOMAIN turns
               PROVE  IsFirstOf(PartsOf(sent, t), VoicedOf(turns'[t]))
    OBVIOUS
  <2>1. IsFirstOf(PartsOf(sent, t), VoicedOf(turns[t]))
    BY DEF SentInv
  <2>2. CASE turns'[t].said = turns[t].said
    <3>1. VoicedOf(turns'[t]) = VoicedOf(turns[t])
      BY <2>2 DEF VoicedOf
    <3> QED
      BY <2>1, <3>1
  <2>3. CASE turns[t].said = <<>>
    <3>1. PICK parts : parts = PartsOf(sent, t)
      OBVIOUS
    <3>2. IsTurn(turns[t]) /\ IsTurn(turns'[t])
      BY DEF TurnsInv, Proper
    <3>3. Len(VoicedOf(turns[t])) = 0
      BY <2>3, <3>2, VoicedList
    <3>4. IsList(parts) /\ Len(parts) \in Nat
      BY <3>1, PartsAppend, ListLength DEF SentInv
    <3>5. Len(parts) <= 0
      BY <2>1, <3>1, <3>3 DEF IsFirstOf
    <3>6. Len(parts) = 0
      BY <3>4, <3>5
    <3>7. PICK y : y = turns'[t]
      OBVIOUS
    <3>8. IsFirstOf(parts, VoicedOf(y))
      BY <3>2, <3>4, <3>6, <3>7, NothingFirst
    <3> QED
      BY <3>1, <3>7, <3>8
  <2> QED
    BY <2>2, <2>3
<1> QED
  BY <1>1 DEF SentInv

(* A message of the last turn that anything was sent of.                   *)
LEMMA SentOverMessage ==
  ASSUME TurnsInv, SentInv, turns' = turns, NEW m,
         m.turn \in DOMAIN turns, turns[m.turn].chat = m.chat,
         \A i \in DOMAIN sent : sent[i].turn <= m.turn,
         sent' = Append(sent, m),
         IsFirstOf(PartsOf(sent', m.turn), VoicedOf(turns[m.turn]))
  PROVE  SentInv' /\ \A i \in DOMAIN sent' : sent'[i].turn <= m.turn
<1>1. DOMAIN turns = 1 .. Len(turns) /\ Len(turns) \in Nat
  BY ListLength DEF TurnsInv
<1>2. IsList(sent) /\ DOMAIN sent = 1 .. Len(sent) /\ Len(sent) \in Nat
  BY ListLength DEF SentInv
<1>3. PICK r : r = sent'
  OBVIOUS
<1>4. /\ IsList(r) /\ DOMAIN r = 1 .. Len(sent) + 1 /\ r[Len(sent) + 1] = m
      /\ \A i \in 1 .. Len(sent) : r[i] = sent[i]
  BY <1>2, <1>3, ListAppend
<1>5. m.turn \in Nat
  BY <1>1
<1>6. \A i \in DOMAIN r : (i \in DOMAIN sent /\ r[i] = sent[i]) \/ (i = Len(sent) + 1 /\ r[i] = m)
  BY <1>2, <1>4
<1>7. \A i \in DOMAIN r : r[i].turn \in DOMAIN turns /\ turns[r[i].turn].chat = r[i].chat
  BY <1>6 DEF SentInv
<1>8. \A i \in DOMAIN r : r[i].turn <= m.turn
  BY <1>5, <1>6
<1>9. \A i, j \in DOMAIN r : i < j => r[i].turn <= r[j].turn
  <2> SUFFICES ASSUME NEW i \in DOMAIN r, NEW j \in DOMAIN r, i < j
               PROVE  r[i].turn <= r[j].turn
    OBVIOUS
  <2>1. CASE j = Len(sent) + 1
    BY <1>4, <1>8, <2>1
  <2>2. CASE j # Len(sent) + 1
    <3>1. i \in DOMAIN sent /\ j \in DOMAIN sent /\ r[i] = sent[i] /\ r[j] = sent[j]
      BY <1>2, <1>4, <2>2
    <3> QED
      BY <3>1 DEF SentInv
  <2> QED
    BY <2>1, <2>2
<1>10. \A t \in DOMAIN turns : IsFirstOf(PartsOf(r, t), VoicedOf(turns[t]))
  <2> SUFFICES ASSUME NEW t \in DOMAIN turns
               PROVE  IsFirstOf(PartsOf(r, t), VoicedOf(turns[t]))
    OBVIOUS
  <2>1. CASE t = m.turn
    BY <1>3, <2>1
  <2>2. CASE t # m.turn
    <3>1. PartsOf(r, t) = PartsOf(sent, t)
      BY <1>2, <1>3, <2>2, PartsAppend
    <3> QED
      BY <3>1 DEF SentInv
  <2> QED
    BY <2>1, <2>2
<1> QED
  BY <1>3, <1>4, <1>7, <1>8, <1>9, <1>10 DEF SentInv

LEMMA ForwardKeeps ==
  ASSUME TurnsInv, DeliveredInv, Forward
  PROVE  DeliveredInv'
<1>1. PICK h, t, x, q : h = handling /\ t = h.turn /\ x = turns[t] /\ q = h.queue
  OBVIOUS
<1>2. PICK e : e = Head(q)
  OBVIOUS
<1>3. PICK m : m = [chat |-> h.chat, turn |-> t, what |-> e.what]
  OBVIOUS
<1>4. m.turn = t /\ m.chat = h.chat /\ m.what = e.what
  BY <1>3
<1>5. /\ h # None /\ q # <<>> /\ turns' = turns
      /\ \/ /\ e.kind \in {"chunk", "message"} /\ e.what.text # Blank
            /\ sent' = Append(sent, m) /\ handling' = [h EXCEPT !.queue = Tail(q)]
         \/ e.kind = "turn_failed" /\ sent' = Append(sent, m) /\ handling' = None
         \/ sent' = sent /\ handling' = None
         \/ /\ ~(e.kind \in {"chunk", "message"} /\ e.what.text # Blank)
            /\ sent' = sent /\ handling' = [h EXCEPT !.queue = Tail(q)]
  <2>1. Forward
    OBVIOUS
  <2>2. handling # None /\ handling.queue # <<>> /\ turns' = turns
    BY <2>1 DEF Forward
  <2>3. \/ /\ e.kind \in {"chunk", "message"} /\ e.what.text # Blank
           /\ Sends(e.what) /\ Reads
        \/ e.kind = "turn_failed" /\ Sends(e.what) /\ Returns
        \/ sent' = sent /\ Returns
        \/ /\ \/ e.kind \in {"other", "approval_requested"}
              \/ e.kind \in {"chunk", "message"} /\ e.what.text = Blank
           /\ Reads /\ sent' = sent
    BY <1>1, <1>2, <2>1 DEF Forward
  <2> QED
    BY <1>1, <1>2, <1>3, <2>2, <2>3 DEF Sends, Reads, Returns
<1>6. /\ h = [chat |-> h.chat, turn |-> h.turn, queue |-> h.queue]
      /\ t \in DOMAIN turns /\ h.chat = x.chat
      /\ \A i \in DOMAIN sent : sent[i].turn <= t
      /\ \E n : ReadUpto(n, q, x, PartsOf(sent, t))
  BY <1>1, <1>5 DEF DeliveredInv, HandlingInv
<1>7. SentInv /\ IsList(sent)
  BY DEF DeliveredInv, SentInv
<1>8. IsTurn(x)
  BY <1>1, <1>6 DEF TurnsInv, Proper
<1>9. PICK parts : parts = PartsOf(sent, t)
  OBVIOUS
<1>10. PICK n : ReadUpto(n, q, x, parts)
  BY <1>6, <1>9
<1>11. /\ ReadUpto(n + 1, Tail(q), x,
                   IF e.kind \in {"chunk", "message"} /\ e.what.text # Blank
                   THEN Append(parts, m) ELSE parts)
       /\ e.kind \in {"chunk", "message"} => e.what.form # "error"
       /\ e.kind = "turn_failed" => e.what.form = "error"
  BY <1>2, <1>4, <1>5, <1>8, <1>10, ReadOne
<1>12. PICK g : g = [chat |-> h.chat, turn |-> t, queue |-> Tail(q)]
  OBVIOUS
<1>13. [h EXCEPT !.queue = Tail(q)] = g /\ g.turn = t /\ g.chat = h.chat /\ g.queue = Tail(q)
       /\ g = [chat |-> g.chat, turn |-> g.turn, queue |-> g.queue]
  <2>1. PICK c : c = h.chat
    OBVIOUS
  <2>2. h = [chat |-> c, turn |-> t, queue |-> q]
    <3>1. h = [chat |-> h.chat, turn |-> h.turn, queue |-> h.queue]
      BY <1>6
    <3>2. t = h.turn /\ q = h.queue
      BY <1>1
    <3> QED
      BY <2>1, <3>1, <3>2
  <2>3. PICK r : r = Tail(q)
    OBVIOUS
  <2>4. [h EXCEPT !.queue = r] = [chat |-> c, turn |-> t, queue |-> r]
    BY <2>2
  <2> QED
    BY <1>12, <2>1, <2>3, <2>4
<1>14. CASE /\ e.kind \in {"chunk", "message"} /\ e.what.text # Blank
            /\ sent' = Append(sent, m) /\ handling' = g
  <2>1. PartsOf(Append(sent, m), t) = Append(parts, m)
    BY <1>4, <1>7, <1>9, <1>11, <1>14, PartsAppend
  <2>2. ReadUpto(n + 1, Tail(q), x, Append(parts, m))
    BY <1>11, <1>14
  <2>3. IsFirstOf(Append(parts, m), VoicedOf(x))
    BY <1>8, <2>2, ReadFirst DEF VoicedOf
  <2>4. SentInv' /\ \A i \in DOMAIN sent' : sent'[i].turn <= m.turn
    BY <1>1, <1>4, <1>5, <1>6, <1>7, <1>14, <2>1, <2>3, SentOverMessage
  <2>5. HandlingInv'
    BY <1>1, <1>4, <1>5, <1>6, <1>13, <1>14, <2>1, <2>2, <2>4 DEF HandlingInv
  <2> QED
    BY <2>4, <2>5 DEF DeliveredInv
<1>15. CASE e.kind = "turn_failed" /\ sent' = Append(sent, m) /\ handling' = None
  <2>1. PartsOf(Append(sent, m), t) = parts
    BY <1>4, <1>7, <1>9, <1>11, <1>15, PartsAppend
  <2>2. IsFirstOf(parts, VoicedOf(x))
    BY <1>1, <1>6, <1>7, <1>9 DEF SentInv
  <2>3. SentInv'
    BY <1>1, <1>4, <1>5, <1>6, <1>7, <1>15, <2>1, <2>2, SentOverMessage
  <2> QED
    BY <1>15, <2>3 DEF DeliveredInv, HandlingInv
<1>16. CASE sent' = sent /\ handling' = None
  <2>1. SentInv'
    BY <1>5, <1>7, <1>16 DEF SentInv
  <2>2. HandlingInv'
    BY <1>16 DEF HandlingInv
  <2> QED
    BY <2>1, <2>2 DEF DeliveredInv
<1>17. CASE /\ ~(e.kind \in {"chunk", "message"} /\ e.what.text # Blank)
            /\ sent' = sent /\ handling' = g
  <2>1. ReadUpto(n + 1, Tail(q), x, parts)
    BY <1>11, <1>17
  <2>2. SentInv'
    BY <1>5, <1>7, <1>17 DEF SentInv
  <2>3. HandlingInv'
    BY <1>1, <1>5, <1>6, <1>9, <1>13, <1>17, <2>1 DEF HandlingInv
  <2> QED
    BY <2>2, <2>3 DEF DeliveredInv
<1>18. \/ /\ e.kind \in {"chunk", "message"} /\ e.what.text # Blank
          /\ sent' = Append(sent, m) /\ handling' = g
       \/ e.kind = "turn_failed" /\ sent' = Append(sent, m) /\ handling' = None
       \/ sent' = sent /\ handling' = None
       \/ /\ ~(e.kind \in {"chunk", "message"} /\ e.what.text # Blank)
          /\ sent' = sent /\ handling' = g
  BY <1>5, <1>13
<1> QED
  BY <1>14, <1>15, <1>16, <1>17, <1>18

LEMMA UpdateKeeps ==
  ASSUME PeopleInv, ThreadsInv, TurnsInv, DeliveredInv, NEW c \in Chat, HandleUpdate(c)
  PROVE  DeliveredInv'
<1>1. PICK x : /\ Proper(x) /\ x.chat = c /\ turns' = Append(turns, x)
               /\ handling' = [chat |-> c, turn |-> Len(turns) + 1,
                               queue |-> <<Event("other", None)>> \o Published(x)]
  BY UpdateEffect
<1>2. sent' = sent
  BY DEF HandleUpdate
<1>3. PICK new, queue : new = Len(turns) + 1
                        /\ queue = <<Event("other", None)>> \o Published(x)
  OBVIOUS
<1>4. /\ SentInv' /\ new \in DOMAIN turns' /\ turns'[new] = x
      /\ IsList(PartsOf(sent, new)) /\ Len(PartsOf(sent, new)) = 0
      /\ \A i \in DOMAIN sent : sent[i].turn <= new
  BY <1>1, <1>2, <1>3, SentOverNew DEF DeliveredInv
<1>5. PICK parts : parts = PartsOf(sent, new)
  OBVIOUS
<1>6. ReadUpto(0, queue, x, parts)
  <2>1. Unread(queue, x.said, EndOf(x), 0)
    BY <1>1, <1>3, UnreadAll DEF Proper
  <2>2. PICK said, V : said = x.said /\ V = Voiced(said)
    OBVIOUS
  <2>3. IsList(said) /\ Len(said) \in Nat
    BY <1>1, <2>2, ListLength DEF Proper, IsTurn
  <2>4. Picks(said, V)[0] = <<>>
    BY <2>3, PicksEquations DEF IsList
  <2>5. Consumed(0, Len(said)) = 0
    BY DEF Consumed
  <2>6. Same(parts, <<>>)
    BY <1>4, <1>5, EmptySeq DEF Same
  <2> QED
    BY <1>4, <1>5, <2>1, <2>2, <2>3, <2>4, <2>5, <2>6 DEF ReadUpto
<1>7. /\ handling'.chat = c /\ handling'.turn = new /\ handling'.queue = queue
      /\ handling' = [chat |-> c, turn |-> new, queue |-> queue]
  BY <1>1, <1>3
<1>8. HandlingInv'
  BY <1>1, <1>2, <1>4, <1>5, <1>6, <1>7 DEF HandlingInv
<1> QED
  BY <1>4, <1>8 DEF DeliveredInv

LEMMA DeliveredInit == Init => DeliveredInv
<1> SUFFICES ASSUME Init PROVE DeliveredInv
  OBVIOUS
<1>1. sent = <<>> /\ turns = <<>> /\ handling = None
  BY DEF Init
<1> QED
  BY <1>1, EmptyList DEF DeliveredInv, SentInv, HandlingInv

LEMMA DeliveredNext ==
  PeopleInv /\ ThreadsInv /\ TurnsInv /\ TurnsInv' /\ DeliveredInv /\ [Next]_vars
    => DeliveredInv'
<1> SUFFICES ASSUME PeopleInv, ThreadsInv, TurnsInv, TurnsInv', DeliveredInv, [Next]_vars
             PROVE  DeliveredInv'
  OBVIOUS
<1>1. ASSUME UNCHANGED <<turns, sent, handling>> PROVE DeliveredInv'
  BY <1>1 DEF DeliveredInv, SentInv, HandlingInv
<1>2. ASSUME UNCHANGED <<turns, sent>>, handling' = None PROVE DeliveredInv'
  <2>1. SentInv'
    BY <1>2 DEF DeliveredInv, SentInv
  <2>2. HandlingInv'
    BY <1>2 DEF HandlingInv
  <2> QED
    BY <2>1, <2>2 DEF DeliveredInv
<1>3. ASSUME SentInv', handling' = None PROVE DeliveredInv'
  BY <1>3 DEF DeliveredInv, HandlingInv
<1>4. CASE UNCHANGED vars
  BY <1>1, <1>4 DEF vars
<1>5. CASE Next
  <2>1. CASE \E u \in User, p \in Persons : UpsertPeopleSurface(u, p)
    BY <1>1, <2>1 DEF UpsertPeopleSurface
  <2>2. CASE \E u \in User : DeletePeopleSurface(u)
    BY <1>1, <2>2 DEF DeletePeopleSurface
  <2>3. CASE \E th \in DOMAIN threads : ClientStartsTurn(th)
    <3>1. PICK th \in DOMAIN threads : ClientStartsTurn(th)
      BY <2>3
    <3>2. sent' = sent /\ handling' = None
      BY <3>1 DEF ClientStartsTurn
    <3>3. PICK x : Proper(x) /\ turns' = Append(turns, x)
      BY <3>1, ClientEffect
    <3>4. SentInv'
      BY <3>2, <3>3, SentOverNew DEF DeliveredInv
    <3> QED
      BY <1>3, <3>2, <3>4
  <2>4. CASE \E t \in DOMAIN turns : Approve(t)
    <3>1. PICK t \in DOMAIN turns : Approve(t)
      BY <2>4
    <3>2. sent' = sent /\ handling' = None /\ turns[t].stage = "waiting"
      BY <3>1 DEF Approve
    <3>3. PICK y : Proper(y) /\ y.chat = turns[t].chat /\ turns' = [turns EXCEPT ![t] = y]
      BY <3>1, ApproveEffect
    <3>4. turns[t].said = <<>>
      BY <3>2 DEF TurnsInv, Proper, IsTurn
    <3>5. DOMAIN turns' = DOMAIN turns
      BY <3>3
    <3>6. \A k \in DOMAIN turns :
            /\ turns'[k].chat = turns[k].chat
            /\ turns'[k].said = turns[k].said \/ turns[k].said = <<>>
      BY <3>3, <3>4
    <3>7. SentInv'
      BY <3>2, <3>5, <3>6, SentOverReplaced DEF DeliveredInv
    <3> QED
      BY <1>3, <3>2, <3>7
  <2>5. CASE \E t \in DOMAIN turns : Deny(t)
    <3>1. PICK t \in DOMAIN turns : Deny(t)
      BY <2>5
    <3>2. sent' = sent /\ handling' = None
      BY <3>1 DEF Deny
    <3>3. PICK y : /\ y.chat = turns[t].chat /\ y.said = turns[t].said
                   /\ turns' = [turns EXCEPT ![t] = y]
      BY <3>1, DenyEffect
    <3>4. DOMAIN turns' = DOMAIN turns
      BY <3>3
    <3>5. \A k \in DOMAIN turns :
            /\ turns'[k].chat = turns[k].chat
            /\ turns'[k].said = turns[k].said \/ turns[k].said = <<>>
      BY <3>3
    <3>6. SentInv'
      BY <3>2, <3>4, <3>5, SentOverReplaced DEF DeliveredInv
    <3> QED
      BY <1>3, <3>2, <3>6
  <2>6. CASE \E c \in Chat : HandleUpdate(c)
    BY <2>6, UpdateKeeps
  <2>7. CASE \E c \in Chat : UpdateFails(c)
    BY <1>1, <2>7 DEF UpdateFails
  <2>8. CASE Forward
    BY <2>8, ForwardKeeps
  <2>9. CASE TimesOut \/ SendFails
    BY <1>2, <2>9 DEF TimesOut, SendFails, Returns
  <2>10. CASE Restart
    <3>1. sent' = sent /\ handling' = None
      BY <2>10 DEF Restart
    <3>2. DOMAIN turns' = DOMAIN turns
          /\ \A k \in DOMAIN turns :
               turns'[k].chat = turns[k].chat /\ turns'[k].said = turns[k].said
      BY <2>10, RestartEffect
    <3>3. \A k \in DOMAIN turns :
            /\ turns'[k].chat = turns[k].chat
            /\ turns'[k].said = turns[k].said \/ turns[k].said = <<>>
      BY <3>2
    <3>4. SentInv'
      BY <3>1, <3>2, <3>3, SentOverReplaced DEF DeliveredInv
    <3> QED
      BY <1>3, <3>1, <3>4
  <2> QED
    BY <1>5, <2>1, <2>2, <2>3, <2>4, <2>5, <2>6, <2>7, <2>8, <2>9, <2>10, StepCases
<1> QED
  BY <1>4, <1>5

(* The inductive invariant.                                                *)
ChannelIInv == PeopleInv /\ ThreadsInv /\ TurnsInv /\ DeliveredInv

LEMMA ChannelAlways == Spec => []ChannelIInv
<1>1. Init => ChannelIInv
  BY PeopleInit, ThreadsInit, TurnsInit, DeliveredInit DEF ChannelIInv
<1>2. ChannelIInv /\ [Next]_vars => ChannelIInv'
  BY PeopleNext, ThreadsNext, TurnsNext, DeliveredNext DEF ChannelIInv
<1> QED
  BY <1>1, <1>2, PTL DEF Spec

LEMMA ChannelEntails == ChannelIInv => ChannelInv
<1> SUFFICES ASSUME PeopleInv, ThreadsInv, TurnsInv, DeliveredInv PROVE ChannelInv
  BY DEF ChannelIInv
<1>1. TypeOK
  <2>1. \A th \in DOMAIN threads : threads[th] \in Chat
    BY LenProperties, ElementOfSeq DEF ThreadsInv
  <2>2. \A t \in DOMAIN turns :
          /\ turns[t].thread \in DOMAIN threads
          /\ turns[t].stage \in {"waiting", "completed", "failed", "cancelled", "lost"}
    BY DEF TurnsInv, Proper, IsTurn
  <2>3. handling = None \/ handling.turn \in DOMAIN turns
    BY DEF DeliveredInv, HandlingInv
  <2> QED
    BY <2>1, <2>2, <2>3 DEF TypeOK, ThreadsInv
<1>2. ToldInOrder
  <2>1. \A t \in DOMAIN turns : IsFirstOf(SentOf(t), Sayings(t))
    BY DEF DeliveredInv, SentInv, PartsOf, VoicedOf, Voiced, SentOf, Sayings
  <2> QED
    BY <2>1 DEF DeliveredInv, SentInv, ToldInOrder
<1> QED
  BY <1>1, <1>2, ThreadsUnique DEF ChannelInv

LEMMA DisclosureEntails == ChannelIInv => DisclosureInv
<1>1. TurnsInv => BoundaryInForce /\ OwnerAskedFirst
  BY DEF TurnsInv, Proper, Bounded, AskedFirst, BoundaryInForce, OwnerAskedFirst
<1> QED
  BY <1>1, PeopleShown DEF ChannelIInv, DisclosureInv

(* A chat has one thread as long as the process lives, and is sent what    *)
(* the turns of its own updates said, in order and each part once, for any *)
(* number of chats, turns, failures and restarts (telegram.rs).            *)
THEOREM ChannelHolds == Spec => []ChannelInv
BY ChannelAlways, ChannelEntails, PTL

(* The boundary in force is kept to (context_assembler.rs), the owner is   *)
(* asked first (output_policy.rs), and the people surface shows whom the   *)
(* owner saved, as saved (coordinator.rs): whatever texts there are,       *)
(* however many people, turns and edits.                                   *)
THEOREM DisclosureHolds == Spec => []DisclosureInv
BY ChannelAlways, DisclosureEntails, PTL

=============================================================================
