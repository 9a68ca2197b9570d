--------------------------- MODULE ShellTasksProofs ---------------------------
(***************************************************************************)
(* Theorems about ShellTasks, for every set of tasks, every amount of      *)
(* output, every host and every sandbox that is asked for.                 *)
(***************************************************************************)
EXTENDS ShellTasks, SequenceTheorems, TLAPS

(* Nothing was written, read or stored of a task that was never started.   *)
Untouched(t) ==
  /\ ~writers[t]
  /\ \A s \in Stream : /\ written[t][s] = 0 /\ pipe[t][s] = <<>>
                       /\ held[t][s] = <<>> /\ stored[t][s] = <<>>

(* A task that was started runs what its sandbox calls for.                *)
Prepared(t) ==
  /\ sandbox[t] \in Sandbox /\ wanted[t] \in Request
  /\ Prepares(host, sandbox[t])
  /\ runs[t] = BuildCommand(sandbox[t])
  /\ sandbox[t].mode = wanted[t].mode /\ sandbox[t].network = wanted[t].network

TaskShape ==
  \A t \in Task : /\ ~Known(t) => Untouched(t)
                  /\ Known(t) => Prepared(t)

(* The server never holds another exit code than the operating system, nor *)
(* any before the command ended.                                           *)
CodesHeld ==
  \A t \in Task :
    /\ command[t] = "exited" => status[t] \in Code
    /\ exitCode[t] # None => command[t] = "exited" /\ exitCode[t] = status[t]
    /\ told[t] # {} => command[t] = "exited"

DeliveredStored == \A t \in Task, s \in Stream : delivered[t][s] <= Len(stored[t][s])

OutputIInv ==
  /\ TypeOK /\ OutputKept /\ DeltasJoin /\ ExitCodesTrue
  /\ TaskShape /\ CodesHeld /\ DeliveredStored

Numbers(n) == [i \in 1..n |-> i]

BannerShown(t, s) ==
  IF s = "stdout" /\ stored[t][s] # <<>> /\ runs[t].by # "none" THEN <<Banner>> ELSE <<>>

(* What is stored, q, held by the reader, h, and in the pipe, p, is the    *)
(* banner b and the first n pieces, in order.                              *)
Joins(q, h, p, b, n) == q \o h \o p = b \o Numbers(n)

(* OutputKept, of one stream of one task.                                  *)
Kept(t, s) ==
  Joins(stored[t][s], held[t][s], pipe[t][s], BannerShown(t, s), written[t][s])

-----------------------------------------------------------------------------
(* Sequences of pieces *)

LEMMA NumbersGrow ==
  ASSUME NEW n \in Nat, n < MaxOutput
  PROVE  /\ Numbers(n) \in Seq(Piece) /\ Numbers(n + 1) \in Seq(Piece)
         /\ n + 1 \in Piece
         /\ Numbers(n + 1) = Numbers(n) \o <<n + 1>>
<1>1. n + 1 \in Piece /\ \A i \in 1..(n + 1) : i \in Piece
  BY ShellTasksAssumption DEF Piece, Banner
<1>2. Numbers(n) \in Seq(Piece) /\ Len(Numbers(n)) = n
  BY <1>1 DEF Numbers
<1>3. Numbers(n + 1) \in Seq(Piece) /\ Len(Numbers(n + 1)) = n + 1
  BY <1>1 DEF Numbers
<1>4. Append(Numbers(n), n + 1) = Numbers(n) \o <<n + 1>>
  BY <1>1, <1>2, AppendIsConcat
<1>5. /\ Append(Numbers(n), n + 1) \in Seq(Piece) /\ Len(Append(Numbers(n), n + 1)) = n + 1
      /\ \A i \in 1..(n + 1) : Append(Numbers(n), n + 1)[i] = Numbers(n + 1)[i]
  <2>1. \A i \in 1..n : Append(Numbers(n), n + 1)[i] = i
    BY <1>1, <1>2, AppendProperties DEF Numbers
  <2>2. Append(Numbers(n), n + 1)[n + 1] = n + 1
    BY <1>1, <1>2, AppendProperties
  <2>3. Append(Numbers(n), n + 1) \in Seq(Piece) /\ Len(Append(Numbers(n), n + 1)) = n + 1
    BY <1>1, <1>2, AppendProperties
  <2>4. QED
    BY <2>1, <2>2, <2>3 DEF Numbers
<1>6. Append(Numbers(n), n + 1) = Numbers(n + 1)
  BY <1>3, <1>5, SeqEqual
<1>7. QED
  BY <1>1, <1>2, <1>3, <1>4, <1>6

LEMMA NumbersType ==
  ASSUME NEW n \in 0..MaxOutput
  PROVE  Numbers(n) \in Seq(Piece)
BY ShellTasksAssumption DEF Numbers, Piece, Banner

LEMMA Regroup == \A q, r, u \in Seq(Piece) : (q \o r) \o u = q \o (r \o u)
BY ConcatAssociative

LEMMA AppendedLast ==
  \A q \in Seq(Piece), e \in Piece :
    Append(q, e) = q \o <<e>> /\ Append(q, e) \in Seq(Piece)
BY AppendIsConcat, AppendProperties

LEMMA JoinedNonempty ==
  \A q, r \in Seq(Piece) : r # <<>> => q \o r # <<>>
BY ConcatEqualIffEmpty

(* What one read takes and what it leaves are what there was.              *)
LEMMA ReadSplits ==
  ASSUME NEW p \in Seq(Piece), NEW n \in 1..Len(p)
  PROVE  /\ SubSeq(p, 1, n) \in Seq(Piece) /\ SubSeq(p, n + 1, Len(p)) \in Seq(Piece)
         /\ SubSeq(p, 1, n) # <<>>
         /\ SubSeq(p, 1, n) \o SubSeq(p, n + 1, Len(p)) = p
<1>1. SubSeq(p, 1, n) \in Seq(Piece) /\ Len(SubSeq(p, 1, n)) = n
  BY SubSeqProperties
<1>2. SubSeq(p, n + 1, Len(p)) \in Seq(Piece)
  BY SubSeqProperties
<1>3. SubSeq(p, 1, n) \o SubSeq(p, n + 1, Len(p)) = SubSeq(p, 1, Len(p))
  BY ConcatAdjacentSubSeq, 1 \in 1..(Len(p) + 1), n \in 0..Len(p), Len(p) \in n..Len(p)
<1>4. QED
  BY <1>1, <1>2, <1>3, SubSeqFull

(* A prefix stays one when its sequence grows.                             *)
LEMMA PrefixKept ==
  ASSUME NEW q \in Seq(Piece), NEW more \in Seq(Piece), NEW n \in 0..Len(q)
  PROVE  SubSeq(q \o more, 1, n) = SubSeq(q, 1, n) /\ n <= Len(q \o more)
<1>1. CASE n = 0
  BY <1>1, SubSeqEmpty
<1>2. CASE n # 0
  BY <1>2, SubSeqOfConcat1
<1>3. Len(q \o more) = Len(q) + Len(more) /\ Len(q) \in Nat /\ Len(more) \in Nat
  BY ConcatProperties, LenProperties
<1>4. n <= Len(q \o more)
  BY <1>3
<1>5. QED
  BY <1>1, <1>2, <1>4

(* The part delivered before and the new delta are all there is.           *)
LEMMA DeltaJoins ==
  ASSUME NEW q \in Seq(Piece), NEW n \in 0..Len(q)
  PROVE  /\ SubSeq(q, 1, n) \o SubSeq(q, n + 1, Len(q)) = SubSeq(q, 1, Len(q))
         /\ SubSeq(q, 1, Len(q)) \in Seq(Piece)
<1>1. 1 \in 1 .. Len(q)+1 /\ n \in 1-1 .. Len(q) /\ Len(q) \in n .. Len(q)
  OBVIOUS
<1>2. SubSeq(q, 1, n) \o SubSeq(q, n + 1, Len(q)) = SubSeq(q, 1, Len(q))
  BY <1>1, ConcatAdjacentSubSeq, Zenon
<1>3. QED
  BY <1>2, SubSeqFull

-----------------------------------------------------------------------------
(* Sandboxes *)

LEMMA ResolvedType ==
  ASSUME TypeOK, NEW request \in Asked \cup {None}
  PROVE  /\ Wanted(request) \in Request
         /\ Resolved(request) \in Sandbox
         /\ Resolved(request).mode = Wanted(request).mode
         /\ Resolved(request).network = Wanted(request).network
         /\ BuildCommand(Resolved(request)) \in Started
<1>1. Wanted(request) \in Request
  BY ShellTasksAssumption DEF TypeOK, Wanted
<1>2. host \in PossibleHost
  BY ShellTasksAssumption DEF TypeOK
<1>3. SelectBackend(host, Wanted(request).mode) \in Backend \cup {"none"}
  BY <1>2 DEF SelectBackend, PossibleHost, Backend
<1>4. Resolved(request) = [mode |-> Wanted(request).mode, network |-> Wanted(request).network,
                           backend |-> SelectBackend(host, Wanted(request).mode)]
  BY DEF Resolved, ResolveRequest, Wanted
<1>5. Resolved(request) \in Sandbox
  BY <1>1, <1>3, <1>4 DEF Request, Sandbox
<1>6. BuildCommand(Resolved(request)) \in Started
  BY <1>5 DEF BuildCommand, DirectCommand, SandboxedCommand, AccessGiven, Sandbox, Started,
     Unconfined, Network
<1>7. QED
  BY <1>1, <1>4, <1>5, <1>6

(* The banner is written exactly for the commands that are enclosed.       *)
LEMMA BannerOfConfined ==
  ASSUME NEW t \in Task, Prepared(t)
  PROVE  Decorates(sandbox[t]) <=> runs[t].by # "none"
<1>1. CASE sandbox[t].mode \in Unconfined
  BY <1>1 DEF Prepared, Decorates, BuildCommand, DirectCommand, Unconfined, Confined
<1>2. CASE sandbox[t].mode \notin Unconfined
  <2>1. sandbox[t].mode \in Confined /\ sandbox[t].backend # "none"
    BY <1>2 DEF Prepared, Sandbox, Prepares, EnsureSupported
  <2>2. runs[t].by = sandbox[t].backend
    BY <1>2 DEF Prepared, BuildCommand, SandboxedCommand
  <2>3. QED
    BY <2>1, <2>2 DEF Decorates
<1>3. QED
  BY <1>1, <1>2

LEMMA ConfinedWhenPrepared ==
  ASSUME NEW t \in Task, Prepared(t), wanted[t].mode \in Confined
  PROVE  /\ HelperPath(host, runs[t].by)
         /\ runs[t].mode = wanted[t].mode /\ runs[t].network = wanted[t].network
<1>1. sandbox[t].mode \in Confined /\ sandbox[t].mode \notin Unconfined
  BY DEF Prepared, Confined, Unconfined
<1>2. QED
  BY <1>1 DEF Prepared, Prepares, BuildCommand, SandboxedCommand, AccessGiven

-----------------------------------------------------------------------------
(* The stored output *)

LEMMA KeptEverywhere ==
  /\ OutputKept <=> \A t \in Task, s \in Stream : Kept(t, s)
  /\ OutputKept' <=> \A t \in Task, s \in Stream : Kept(t, s)'
BY Zenon DEF OutputKept, Kept, Joins, BannerShown, Numbers

LEMMA BannerType ==
  ASSUME NEW t, NEW s
  PROVE  BannerShown(t, s) \in Seq(Piece) /\ WithBanner(t, s) \in Seq(Piece)
<1>1. Banner \in Piece
  BY ShellTasksAssumption DEF Banner, Piece
<1>2. <<>> \in Seq(Piece) /\ <<Banner>> \in Seq(Piece)
  BY <1>1
<1>3. QED
  BY <1>2 DEF BannerShown, WithBanner

(* One stream of one task as the readers see it. *)
LEMMA StreamTypes ==
  ASSUME TypeOK, NEW t \in Task, NEW s \in Stream
  PROVE  /\ pipe[t][s] \in Seq(Piece) /\ held[t][s] \in Seq(Piece) /\ stored[t][s] \in Seq(Piece)
         /\ given[t][s] \in Seq(Piece)
         /\ written[t][s] \in 0..MaxOutput /\ delivered[t][s] \in Nat
         /\ Numbers(written[t][s]) \in Seq(Piece)
<1>1. written[t][s] \in 0..MaxOutput
  BY DEF TypeOK
<1>2. QED
  BY <1>1, NumbersType DEF TypeOK

(* The three steps that move output, on sequences alone.                   *)
LEMMA WriteJoins ==
  ASSUME NEW q \in Seq(Piece), NEW h \in Seq(Piece), NEW p \in Seq(Piece), NEW b \in Seq(Piece),
         NEW n \in Nat, n < MaxOutput, Joins(q, h, p, b, n)
  PROVE  Joins(q, h, Append(p, n + 1), b, n + 1)
<1>1. /\ Numbers(n) \in Seq(Piece) /\ Numbers(n + 1) \in Seq(Piece) /\ n + 1 \in Piece
      /\ Numbers(n + 1) = Numbers(n) \o <<n + 1>>
  BY NumbersGrow
<1>2. <<n + 1>> \in Seq(Piece) /\ q \o h \in Seq(Piece)
  BY <1>1, ConcatProperties
<1>3. Append(p, n + 1) = p \o <<n + 1>>
  BY <1>1, AppendedLast, Zenon
<1>4. (q \o h) \o (p \o <<n + 1>>) = ((q \o h) \o p) \o <<n + 1>>
  BY <1>2, Regroup, Zenon
<1>5. (b \o Numbers(n)) \o <<n + 1>> = b \o (Numbers(n) \o <<n + 1>>)
  BY <1>1, <1>2, Regroup, Zenon
<1>6. QED
  BY <1>1, <1>3, <1>4, <1>5, Zenon DEF Joins

LEMMA ReadJoins ==
  ASSUME NEW q \in Seq(Piece), NEW p \in Seq(Piece), NEW k \in 1..Len(p), NEW b, NEW n,
         Joins(q, <<>>, p, b, n)
  PROVE  Joins(q, SubSeq(p, 1, k), SubSeq(p, k + 1, Len(p)), b, n)
<1>1. /\ SubSeq(p, 1, k) \in Seq(Piece) /\ SubSeq(p, k + 1, Len(p)) \in Seq(Piece)
      /\ SubSeq(p, 1, k) \o SubSeq(p, k + 1, Len(p)) = p
  BY ReadSplits
<1>2. q \o <<>> = q
  BY ConcatEmptySeq
<1>3. (q \o SubSeq(p, 1, k)) \o SubSeq(p, k + 1, Len(p))
        = q \o (SubSeq(p, 1, k) \o SubSeq(p, k + 1, Len(p)))
  BY <1>1, Regroup, Zenon
<1>4. QED
  BY <1>1, <1>2, <1>3, Zenon DEF Joins

(* The banner, w, is put in front of the first piece that is stored.       *)
LEMMA StoreJoins ==
  ASSUME NEW q \in Seq(Piece), NEW h \in Seq(Piece), NEW p \in Seq(Piece), NEW w \in Seq(Piece),
         NEW b, NEW n, Numbers(n) \in Seq(Piece), Joins(q, h, p, b, n)
  PROVE  /\ q \o w \o h \in Seq(Piece)
         /\ h # <<>> => q \o w \o h # <<>>
         /\ q = <<>> /\ b = <<>> => Joins(q \o w \o h, <<>>, p, w, n)
         /\ w = <<>> => Joins(q \o w \o h, <<>>, p, b, n)
<1>1. q \o w \in Seq(Piece) /\ q \o w \o h \in Seq(Piece) /\ q \o h \in Seq(Piece)
  BY ConcatProperties
<1>2. h # <<>> => q \o w \o h # <<>>
  BY <1>1, JoinedNonempty, Zenon
<1>3. q \o w \o h \o <<>> = q \o w \o h
  BY <1>1, ConcatEmptySeq
<1>4. q \o h \o p = b \o Numbers(n)
  BY Zenon DEF Joins
<1>5. ASSUME q = <<>>, b = <<>>
      PROVE  Joins(q \o w \o h, <<>>, p, w, n)
  <2>1. <<>> \o w = w /\ <<>> \o h = h /\ <<>> \o Numbers(n) = Numbers(n)
    BY ConcatEmptySeq
  <2>2. h \o p = Numbers(n)
    BY <1>4, <1>5, <2>1, Zenon
  <2>3. (w \o h) \o p = w \o (h \o p)
    BY Regroup, Zenon
  <2>4. q \o w \o h = w \o h
    BY <1>5, <2>1, Zenon
  <2>5. QED
    BY <1>3, <2>2, <2>3, <2>4, Zenon DEF Joins
<1>6. ASSUME w = <<>>
      PROVE  Joins(q \o w \o h, <<>>, p, b, n)
  <2>1. q \o <<>> = q
    BY ConcatEmptySeq
  <2>2. QED
    BY <1>3, <1>4, <1>6, <2>1, Zenon DEF Joins
<1>7. QED
  BY <1>1, <1>2, <1>5, <1>6, Zenon

LEMMA KeptByWrite ==
  ASSUME TypeOK, NEW t \in Task, NEW s \in Stream, Kept(t, s), written[t][s] < MaxOutput,
         written'[t][s] = written[t][s] + 1,
         pipe'[t][s] = Append(pipe[t][s], written'[t][s]),
         UNCHANGED <<stored, held, runs>>
  PROVE  Kept(t, s)' /\ pipe'[t][s] \in Seq(Piece) /\ written'[t][s] \in 0..MaxOutput
<1>1. /\ pipe[t][s] \in Seq(Piece) /\ held[t][s] \in Seq(Piece) /\ stored[t][s] \in Seq(Piece)
      /\ written[t][s] \in Nat /\ BannerShown(t, s) \in Seq(Piece)
  BY StreamTypes, BannerType
<1>2. BannerShown(t, s)' = BannerShown(t, s)
  BY DEF BannerShown
<1>3. Joins(stored[t][s], held[t][s], Append(pipe[t][s], written[t][s] + 1), BannerShown(t, s),
            written[t][s] + 1)
  BY <1>1, WriteJoins DEF Kept
<1>4. written[t][s] + 1 \in Piece /\ written[t][s] + 1 \in 0..MaxOutput
  BY <1>1, ShellTasksAssumption DEF Piece, Banner
<1>5. QED
  BY <1>1, <1>2, <1>3, <1>4, AppendedLast DEF Kept

LEMMA KeptByRead ==
  ASSUME TypeOK, NEW t \in Task, NEW s \in Stream, Kept(t, s), held[t][s] = <<>>,
         NEW n \in 1..Len(pipe[t][s]),
         held'[t][s] = SubSeq(pipe[t][s], 1, n),
         pipe'[t][s] = SubSeq(pipe[t][s], n + 1, Len(pipe[t][s])),
         UNCHANGED <<stored, written, runs>>
  PROVE  /\ Kept(t, s)' /\ pipe'[t][s] \in Seq(Piece) /\ held'[t][s] \in Seq(Piece)
<1>1. pipe[t][s] \in Seq(Piece) /\ stored[t][s] \in Seq(Piece)
  BY StreamTypes
<1>2. BannerShown(t, s)' = BannerShown(t, s)
  BY DEF BannerShown
<1>3. Joins(stored[t][s], SubSeq(pipe[t][s], 1, n), SubSeq(pipe[t][s], n + 1, Len(pipe[t][s])),
            BannerShown(t, s), written[t][s])
  BY <1>1, ReadJoins DEF Kept
<1>4. Kept(t, s)'
  BY <1>2, <1>3 DEF Kept
<1>5. QED
  BY <1>1, <1>4, ReadSplits

LEMMA KeptByStore ==
  ASSUME TypeOK, NEW t \in Task, NEW s \in Stream, Kept(t, s), Prepared(t), held[t][s] # <<>>,
         stored'[t][s] = stored[t][s] \o WithBanner(t, s) \o held[t][s],
         held'[t][s] = <<>>,
         UNCHANGED <<pipe, written, runs>>
  PROVE  Kept(t, s)' /\ stored'[t][s] \in Seq(Piece)
<1> DEFINE q == stored[t][s]
           w == WithBanner(t, s)
           b == BannerShown(t, s)
           new == q \o w \o held[t][s]
<1>1. /\ pipe[t][s] \in Seq(Piece) /\ held[t][s] \in Seq(Piece) /\ q \in Seq(Piece)
      /\ w \in Seq(Piece) /\ Numbers(written[t][s]) \in Seq(Piece)
      /\ Joins(q, held[t][s], pipe[t][s], b, written[t][s])
  BY StreamTypes, BannerType DEF Kept
<1>2. /\ new \in Seq(Piece) /\ new # <<>>
      /\ q = <<>> /\ b = <<>> => Joins(new, <<>>, pipe[t][s], w, written[t][s])
      /\ w = <<>> => Joins(new, <<>>, pipe[t][s], b, written[t][s])
  BY <1>1, StoreJoins
<1>3. b' = IF s = "stdout" /\ Decorates(sandbox[t]) THEN <<Banner>> ELSE <<>>
  BY <1>2, BannerOfConfined DEF BannerShown
<1>4. Joins(new, <<>>, pipe[t][s], b', written[t][s])
  <2>1. CASE q = <<>>
    <3>1. w = b' /\ b = <<>>
      BY <1>3, <2>1 DEF WithBanner, BannerShown
    <3>2. QED
      BY <1>2, <2>1, <3>1
  <2>2. CASE q # <<>>
    <3>1. w = <<>> /\ b' = b
      BY <1>3, <2>2, BannerOfConfined DEF WithBanner, BannerShown
    <3>2. QED
      BY <1>2, <3>1
  <2>3. QED
    BY <2>1, <2>2
<1>5. QED
  BY <1>2, <1>4 DEF Kept

-----------------------------------------------------------------------------
(* What a step keeps by leaving it alone *)

LEMMA KeptSame ==
  ASSUME NEW t, NEW s, Kept(t, s),
         stored'[t][s] = stored[t][s], held'[t][s] = held[t][s], pipe'[t][s] = pipe[t][s],
         written'[t][s] = written[t][s], runs'[t] = runs[t]
  PROVE  Kept(t, s)'
BY DEF Kept, BannerShown

LEMMA OutputSame ==
  ASSUME OutputKept, UNCHANGED <<stored, held, pipe, written, runs>>
  PROVE  OutputKept'
BY DEF OutputKept

LEMMA DeltasSame ==
  ASSUME DeltasJoin, DeliveredStored, UNCHANGED <<given, stored, delivered>>
  PROVE  DeltasJoin' /\ DeliveredStored'
BY DEF DeltasJoin, DeliveredStored

LEMMA CodesSame ==
  ASSUME ExitCodesTrue, CodesHeld, UNCHANGED <<command, status, exitCode, told>>
  PROVE  ExitCodesTrue' /\ CodesHeld'
BY DEF ExitCodesTrue, CodesHeld

LEMMA ShapeSame ==
  ASSUME TaskShape,
         UNCHANGED <<command, writers, written, pipe, held, stored, sandbox, wanted, runs, host>>
  PROVE  TaskShape'
BY DEF TaskShape, Known, Untouched, Prepared

(* Confinement follows from what a started task runs.                      *)
LEMMA Implied ==
  ASSUME OutputIInv
  PROVE  OutputInv
<1>1. ConfinedAsAsked
  BY ConfinedWhenPrepared DEF OutputIInv, TaskShape, ConfinedAsAsked
<1>2. QED
  BY <1>1 DEF OutputIInv, OutputInv

(* A step of the command, of its readers or of a call keeps the shape of   *)
(* every task when only known tasks are touched.                           *)
LEMMA ShapeOfKnown ==
  ASSUME TaskShape, NEW t \in Task, Known(t), Known(t)',
         UNCHANGED <<sandbox, wanted, runs, host>>,
         \A o \in Task : o # t =>
           /\ command'[o] = command[o] /\ writers'[o] = writers[o] /\ written'[o] = written[o]
           /\ pipe'[o] = pipe[o] /\ held'[o] = held[o] /\ stored'[o] = stored[o]
  PROVE  TaskShape'
BY DEF TaskShape, Known, Untouched, Prepared

-----------------------------------------------------------------------------
LEMMA InitOutput == Init => OutputIInv
<1> SUFFICES ASSUME Init PROVE OutputIInv
  OBVIOUS
<1>1. host \in PossibleHost /\ defaults \in Request
  BY ShellTasksAssumption DEF Init, FromEnv, PossibleHost, Request, Unconfined, Confined, Network
<1>2. <<>> \in Seq(Piece) /\ 0 \in 0..MaxOutput
  BY ShellTasksAssumption
<1>3. TypeOK
  BY <1>1, <1>2 DEF Init, TypeOK, Idle
<1>4. OutputKept
  <2>1. ASSUME NEW t \in Task, NEW s \in Stream
        PROVE  Kept(t, s)
    <3>1. Numbers(0) = <<>>
      BY DEF Numbers
    <3>2. <<>> \o <<>> = <<>>
      BY <1>2, ConcatEmptySeq
    <3>3. BannerShown(t, s) = <<>> /\ stored[t][s] = <<>> /\ held[t][s] = <<>>
          /\ pipe[t][s] = <<>> /\ written[t][s] = 0
      BY <2>1 DEF Init, BannerShown
    <3>4. QED
      BY <3>1, <3>2, <3>3, Zenon DEF Kept, Joins
  <2>2. QED
    BY <2>1, KeptEverywhere
<1>5. DeltasJoin /\ DeliveredStored
  <2>1. SubSeq(<<>>, 1, 0) = <<>>
    BY SubSeqEmpty
  <2>2. QED
    BY <2>1 DEF Init, DeltasJoin, DeliveredStored
<1>6. ExitCodesTrue /\ CodesHeld /\ TaskShape
  BY DEF Init, ExitCodesTrue, CodesHeld, TaskShape, Known, Untouched
<1>7. QED
  BY <1>3, <1>4, <1>5, <1>6 DEF OutputIInv

LEMMA CommandKeeps ==
  ASSUME OutputIInv, NEW t \in Task, NEW s \in Stream,
         CommandWrites(t, s) \/ CommandExits(t) \/ DescendantsExit(t)
  PROVE  OutputIInv'
<1>1. TypeOK /\ OutputKept /\ DeltasJoin /\ ExitCodesTrue /\ TaskShape /\ CodesHeld /\ DeliveredStored
  BY DEF OutputIInv
<1>2. CASE CommandWrites(t, s)
  <2>1. Known(t) /\ Known(t)'
    BY <1>1, <1>2 DEF CommandWrites, TaskShape, Untouched, Known
  <2>2. /\ written'[t][s] = written[t][s] + 1
        /\ pipe'[t][s] = Append(pipe[t][s], written'[t][s])
        /\ UNCHANGED <<stored, held, runs>>
    BY <1>1, <1>2 DEF CommandWrites, TypeOK, state, threads, history
  <2>3. Kept(t, s)' /\ pipe'[t][s] \in Seq(Piece) /\ written'[t][s] \in 0..MaxOutput
    BY <1>1, <1>2, <2>2, KeptEverywhere, KeptByWrite DEF CommandWrites
  <2>4. \A o \in Task, r \in Stream : ~ (o = t /\ r = s) =>
          pipe'[o][r] = pipe[o][r] /\ written'[o][r] = written[o][r]
    BY <1>1, <1>2 DEF CommandWrites, TypeOK
  <2>5. pipe' \in [Task -> [Stream -> Seq(Piece)]] /\ written' \in [Task -> [Stream -> 0..MaxOutput]]
    <3>1. \A x \in Seq(Piece) : [pipe EXCEPT ![t][s] = x] \in [Task -> [Stream -> Seq(Piece)]]
      BY <1>1 DEF TypeOK
    <3>2. \A n \in 0..MaxOutput : [written EXCEPT ![t][s] = n] \in [Task -> [Stream -> 0..MaxOutput]]
      BY <1>1 DEF TypeOK
    <3>3. /\ written' = [written EXCEPT ![t][s] = written'[t][s]]
          /\ pipe' = [pipe EXCEPT ![t][s] = pipe'[t][s]]
      BY <1>1, <1>2 DEF CommandWrites, TypeOK
    <3>4. QED
      BY <2>3, <3>1, <3>2, <3>3
  <2>6. TypeOK'
    BY <1>1, <1>2, <2>5 DEF CommandWrites, TypeOK, state, threads, history, config
  <2>7. OutputKept'
    BY <1>1, <2>2, <2>3, <2>4, KeptEverywhere, KeptSame
  <2>8. TaskShape'
    <3>1. \A o \in Task : o # t => pipe'[o] = pipe[o] /\ written'[o] = written[o]
      BY <1>1, <1>2 DEF CommandWrites, TypeOK
    <3>2. QED
      BY <1>1, <1>2, <2>1, <3>1, ShapeOfKnown DEF CommandWrites, state, threads, history, config
  <2>9. DeltasJoin' /\ DeliveredStored' /\ ExitCodesTrue' /\ CodesHeld'
    BY <1>1, <1>2, DeltasSame, CodesSame DEF CommandWrites, state, history
  <2>10. QED
    BY <2>6, <2>7, <2>8, <2>9 DEF OutputIInv
<1>3. CASE CommandExits(t) \/ DescendantsExit(t)
  <2>1. Known(t) /\ Known(t)'
    BY <1>1, <1>3 DEF CommandExits, DescendantsExit, Ends, Known, TypeOK
  <2>2. TypeOK'
    <3>1. command' \in [Task -> {"none", "running", "exited"}] /\ status' \in [Task -> Code \cup {None}]
      BY <1>1, <1>3 DEF CommandExits, DescendantsExit, Ends, Code, TypeOK
    <3>2. writers' \in [Task -> BOOLEAN]
      BY <1>1, <1>3, ShellTasksAssumption DEF CommandExits, DescendantsExit, Ends, TypeOK
    <3>3. UNCHANGED <<pipe, written, threads, state, config, call, history>>
      BY <1>3 DEF CommandExits, DescendantsExit
    <3>4. QED
      BY <1>1, <3>1, <3>2, <3>3 DEF TypeOK, state, threads, history, config
  <2>3. TaskShape'
    <3>1. \A o \in Task : o # t => command'[o] = command[o] /\ writers'[o] = writers[o]
      BY <1>1, <1>3 DEF CommandExits, DescendantsExit, Ends, TypeOK
    <3>2. QED
      BY <1>1, <1>3, <2>1, <3>1, ShapeOfKnown
      DEF CommandExits, DescendantsExit, state, threads, history, config
  <2>4. OutputKept' /\ DeltasJoin' /\ DeliveredStored'
    BY <1>1, <1>3, OutputSame, DeltasSame DEF CommandExits, DescendantsExit, state, threads, history
  <2>5. ExitCodesTrue' /\ CodesHeld'
    <3>1. CASE CommandExits(t)
      <4>1. /\ command[t] = "running" /\ command' = [command EXCEPT ![t] = "exited"]
            /\ status' = [status EXCEPT ![t] = "success"]
            /\ exitCode' = exitCode /\ told' = told
        BY <3>1 DEF CommandExits, Ends, state, history
      <4>2. command'[t] = "exited" /\ status'[t] = "success" /\ "success" \in Code
        BY <1>1, <4>1 DEF TypeOK, Code
      <4>3. \A o \in Task : o # t => command'[o] = command[o] /\ status'[o] = status[o]
        BY <1>1, <4>1 DEF TypeOK
      <4>4. exitCode[t] = None /\ told[t] = {}
        BY <1>1, <4>1 DEF CodesHeld
      <4>5. QED
        BY <1>1, <4>1, <4>2, <4>3, <4>4 DEF ExitCodesTrue, CodesHeld
    <3>2. CASE DescendantsExit(t)
      BY <1>1, <3>2 DEF DescendantsExit, state, history, ExitCodesTrue, CodesHeld
    <3>3. QED
      BY <1>3, <3>1, <3>2
  <2>6. QED
    BY <2>2, <2>3, <2>4, <2>5 DEF OutputIInv
<1>4. QED
  BY <1>2, <1>3

LEMMA ReadersKeep ==
  ASSUME OutputIInv, NEW t \in Task, NEW s \in Stream, Reader(t, s)
  PROVE  OutputIInv'
<1>1. TypeOK /\ OutputKept /\ DeltasJoin /\ ExitCodesTrue /\ TaskShape /\ CodesHeld /\ DeliveredStored
  BY DEF OutputIInv
<1>2. Kept(t, s)
  BY <1>1, KeptEverywhere
<1>3. UNCHANGED <<command, status, writers, written, sandbox, delivered, exitCode, config, call,
                  history>>
  BY DEF Reader, ReaderReads, ReaderStores, ReaderEnds, os, state
<1>4. ExitCodesTrue' /\ CodesHeld'
  BY <1>1, <1>3, CodesSame DEF history
<1>5. CASE ReaderReads(t, s)
  <2>1. PICK n \in 1..Len(pipe[t][s]) :
          /\ held' = [held EXCEPT ![t][s] = SubSeq(pipe[t][s], 1, n)]
          /\ pipe' = [pipe EXCEPT ![t][s] = SubSeq(@, n + 1, Len(@))]
    BY <1>5 DEF ReaderReads
  <2>2. /\ held'[t][s] = SubSeq(pipe[t][s], 1, n)
        /\ pipe'[t][s] = SubSeq(pipe[t][s], n + 1, Len(pipe[t][s]))
        /\ UNCHANGED <<stored, reader>> /\ held[t][s] = <<>>
    BY <1>1, <1>5, <2>1 DEF ReaderReads, TypeOK, state
  <2>3. Kept(t, s)' /\ pipe'[t][s] \in Seq(Piece) /\ held'[t][s] \in Seq(Piece)
    BY <1>1, <1>2, <1>3, <2>2, KeptByRead DEF history
  <2>4. /\ \A o \in Task, r \in Stream : ~ (o = t /\ r = s) =>
             pipe'[o][r] = pipe[o][r] /\ held'[o][r] = held[o][r]
        /\ \A o \in Task : o # t => pipe'[o] = pipe[o] /\ held'[o] = held[o]
    BY <1>1, <2>1 DEF TypeOK
  <2>5. TypeOK'
    <3>1. \A x \in Seq(Piece) : /\ [pipe EXCEPT ![t][s] = x] \in [Task -> [Stream -> Seq(Piece)]]
                                /\ [held EXCEPT ![t][s] = x] \in [Task -> [Stream -> Seq(Piece)]]
      BY <1>1 DEF TypeOK
    <3>2. /\ held' = [held EXCEPT ![t][s] = held'[t][s]]
          /\ pipe' = [pipe EXCEPT ![t][s] = pipe'[t][s]]
      BY <1>1, <2>1 DEF TypeOK
    <3>3. /\ pipe' \in [Task -> [Stream -> Seq(Piece)]]
          /\ held' \in [Task -> [Stream -> Seq(Piece)]]
      BY <2>3, <3>1, <3>2
    <3>4. QED
      BY <1>1, <1>3, <2>2, <3>3 DEF TypeOK, history, config
  <2>6. OutputKept'
    BY <1>1, <1>3, <2>2, <2>3, <2>4, KeptEverywhere, KeptSame DEF history
  <2>7. TaskShape'
    <3>1. Known(t) /\ Known(t)'
      BY <1>1, <1>3, <2>1 DEF TaskShape, Untouched, Known
    <3>2. QED
      BY <1>1, <1>3, <2>2, <2>4, <3>1, ShapeOfKnown DEF history, config
  <2>8. DeltasJoin' /\ DeliveredStored'
    BY <1>1, <1>3, <2>2, DeltasSame DEF history
  <2>9. QED
    BY <1>4, <2>5, <2>6, <2>7, <2>8 DEF OutputIInv
<1>6. CASE ReaderStores(t, s)
  <2>1. /\ stored' = [stored EXCEPT ![t][s] = @ \o WithBanner(t, s) \o held[t][s]]
        /\ held' = [held EXCEPT ![t][s] = <<>>]
        /\ held[t][s] # <<>> /\ UNCHANGED <<pipe, reader>>
    BY <1>6 DEF ReaderStores, os
  <2>2. /\ stored'[t][s] = stored[t][s] \o WithBanner(t, s) \o held[t][s]
        /\ held'[t][s] = <<>>
    BY <1>1, <2>1 DEF TypeOK
  <2>3. Known(t) /\ Known(t)' /\ Prepared(t)
    BY <1>1, <1>3, <2>1 DEF TaskShape, Untouched, Known
  <2>4. Kept(t, s)' /\ stored'[t][s] \in Seq(Piece)
    BY <1>1, <1>2, <1>3, <2>1, <2>2, <2>3, KeptByStore DEF history
  <2>5. /\ \A o \in Task, r \in Stream : ~ (o = t /\ r = s) =>
             stored'[o][r] = stored[o][r] /\ held'[o][r] = held[o][r]
        /\ \A o \in Task : o # t => stored'[o] = stored[o] /\ held'[o] = held[o]
    BY <1>1, <2>1 DEF TypeOK
  <2>6. TypeOK'
    <3>1. \A x \in Seq(Piece) : [stored EXCEPT ![t][s] = x] \in [Task -> [Stream -> Seq(Piece)]]
      BY <1>1 DEF TypeOK
    <3>2. stored' = [stored EXCEPT ![t][s] = stored'[t][s]]
      BY <1>1, <2>1 DEF TypeOK
    <3>3. stored' \in [Task -> [Stream -> Seq(Piece)]]
      BY <2>4, <3>1, <3>2
    <3>4. held' \in [Task -> [Stream -> Seq(Piece)]]
      BY <1>1, <2>1 DEF TypeOK
    <3>5. QED
      BY <1>1, <1>3, <2>1, <3>3, <3>4 DEF TypeOK, history, config
  <2>7. OutputKept'
    BY <1>1, <1>3, <2>1, <2>4, <2>5, KeptEverywhere, KeptSame DEF history
  <2>8. TaskShape'
    BY <1>1, <1>3, <2>1, <2>3, <2>5, ShapeOfKnown DEF history, config
  <2>9. DeltasJoin' /\ DeliveredStored'
    <3> DEFINE more == WithBanner(t, s) \o held[t][s]
               q == stored[t][s]
               n == delivered[t][s]
    <3>1. /\ q \in Seq(Piece) /\ WithBanner(t, s) \in Seq(Piece)
          /\ held[t][s] \in Seq(Piece) /\ n \in 0..Len(q)
      BY <1>1, StreamTypes, BannerType DEF DeliveredStored
    <3>2. more \in Seq(Piece)
      BY <3>1, ConcatProperties
    <3>3. stored'[t][s] = q \o more
      BY <2>2, <3>1, Regroup, Zenon
    <3> HIDE DEF more, q, n
    <3>4. SubSeq(q \o more, 1, n) = SubSeq(q, 1, n) /\ n <= Len(q \o more)
      BY <3>1, <3>2, PrefixKept
    <3>5. /\ SubSeq(stored'[t][s], 1, delivered[t][s]) = SubSeq(stored[t][s], 1, delivered[t][s])
          /\ delivered[t][s] <= Len(stored'[t][s])
      BY <3>3, <3>4, Zenon DEF q, n
    <3>6. ASSUME NEW o \in Task, NEW r \in Stream
          PROVE  /\ given'[o][r] = SubSeq(stored'[o][r], 1, delivered'[o][r])
                 /\ delivered'[o][r] <= Len(stored'[o][r])
      <4>1. /\ given[o][r] = SubSeq(stored[o][r], 1, delivered[o][r])
            /\ delivered[o][r] <= Len(stored[o][r])
            /\ given' = given /\ delivered' = delivered
        BY <1>1, <1>3 DEF DeltasJoin, DeliveredStored, history
      <4>2. CASE o = t /\ r = s
        BY <3>5, <4>1, <4>2, Zenon
      <4>3. CASE ~ (o = t /\ r = s)
        BY <2>5, <4>1, <4>3, Zenon
      <4>4. QED
        BY <4>2, <4>3
    <3>7. QED
      BY <3>6 DEF DeltasJoin, DeliveredStored
  <2>10. QED
    BY <1>4, <2>6, <2>7, <2>8, <2>9 DEF OutputIInv
<1>7. CASE ReaderEnds(t, s)
  <2>1. reader' = [reader EXCEPT ![t][s] = "ended"] /\ UNCHANGED <<held, pipe, stored>>
    BY <1>7 DEF ReaderEnds, os, state
  <2>2. TypeOK'
    BY <1>1, <1>3, <2>1 DEF TypeOK, history, config
  <2>3. OutputKept' /\ DeltasJoin' /\ DeliveredStored' /\ TaskShape'
    BY <1>1, <1>3, <2>1, OutputSame, DeltasSame, ShapeSame DEF history, config
  <2>4. QED
    BY <1>4, <2>2, <2>3 DEF OutputIInv
<1>8. QED
  BY <1>5, <1>6, <1>7 DEF Reader

-----------------------------------------------------------------------------
(* The tool calls *)

LEMMA SpawnKeeps ==
  ASSUME OutputIInv, NEW t \in Task, NEW request \in Asked \cup {None}, Spawn(t, request)
  PROVE  OutputIInv'
<1>1. TypeOK /\ OutputKept /\ DeltasJoin /\ ExitCodesTrue /\ TaskShape /\ CodesHeld /\ DeliveredStored
  BY DEF OutputIInv
<1>2. UNCHANGED <<status, pipe, written, held, stored, delivered, exitCode, config, call,
                  given, told, waited>>
  BY DEF Spawn
<1>3. /\ Wanted(request) \in Request /\ Resolved(request) \in Sandbox
      /\ Resolved(request).mode = Wanted(request).mode
      /\ Resolved(request).network = Wanted(request).network
      /\ BuildCommand(Resolved(request)) \in Started
  BY <1>1, ResolvedType
<1>4. ~Known(t) /\ Untouched(t)
  BY <1>1 DEF Spawn, TaskShape
<1>5. TypeOK'
  BY <1>1, <1>2, <1>3 DEF Spawn, TypeOK, config
<1>6. OutputKept'
  <2>1. ASSUME NEW o \in Task, NEW s \in Stream
        PROVE  Kept(o, s)'
    <3>1. Kept(o, s)
      BY <1>1, KeptEverywhere
    <3>2. CASE o # t
      BY <1>1, <1>2, <3>1, <3>2, KeptSame DEF Spawn, TypeOK
    <3>3. CASE o = t
      <4>1. stored[o][s] = <<>> /\ stored' = stored
        BY <1>2, <1>4, <3>3 DEF Untouched
      <4>2. BannerShown(o, s)' = BannerShown(o, s)
        BY <4>1 DEF BannerShown
      <4>3. QED
        BY <1>2, <3>1, <4>2 DEF Kept
    <3>4. QED
      BY <3>2, <3>3
  <2>2. QED
    BY <2>1, KeptEverywhere
<1>7. TaskShape'
  <2>1. Known(t)' /\ Prepared(t)'
    BY <1>1, <1>2, <1>3 DEF Spawn, Known, Prepared, TypeOK, config
  <2>2. \A o \in Task : o # t =>
          /\ command'[o] = command[o] /\ writers'[o] = writers[o] /\ sandbox'[o] = sandbox[o]
          /\ runs'[o] = runs[o] /\ wanted'[o] = wanted[o]
    BY <1>1 DEF Spawn, TypeOK
  <2>3. QED
    BY <1>1, <1>2, <2>1, <2>2 DEF TaskShape, Known, Untouched, Prepared, config
<1>8. DeltasJoin' /\ DeliveredStored'
  BY <1>1, <1>2, DeltasSame
<1>9. ExitCodesTrue' /\ CodesHeld'
  BY <1>1, <1>2, <1>4 DEF Spawn, ExitCodesTrue, CodesHeld, Known, TypeOK
<1>10. QED
  BY <1>5, <1>6, <1>7, <1>8, <1>9 DEF OutputIInv

(* A call that answers only from what is held, or only blocks.             *)
LEMMA CallsKeep ==
  ASSUME OutputIInv, NEW t \in Task,
         \/ \E request \in Asked \cup {None} : Exec(request)
         \/ \E request \in Asked : SetDefaultSandbox(request)
         \/ ForegroundExits \/ AnswerExec \/ Wait(t) \/ AnswerWait(t)
         \/ ReadOutput(t) \/ ReapWaited(t) \/ ReapTerminated(t)
  PROVE  OutputIInv'
<1>1. TypeOK /\ OutputKept /\ DeltasJoin /\ ExitCodesTrue /\ TaskShape /\ CodesHeld /\ DeliveredStored
  BY DEF OutputIInv
<1>2. UNCHANGED <<os, threads, sandbox, stored, delivered, host, given, runs, wanted>>
  BY DEF Exec, SetDefaultSandbox, ForegroundExits, AnswerExec, Wait, AnswerWait, ReadOutput,
     ReapWaited, ReapTerminated, state, config, history
<1>3. OutputKept' /\ DeltasJoin' /\ DeliveredStored' /\ TaskShape'
  BY <1>1, <1>2, OutputSame, DeltasSame, ShapeSame DEF os, threads
<1>4. exitCode' \in [Task -> Code \cup {None}] /\ CodesHeld'
        /\ told' \in [Task -> SUBSET Code] /\ ExitCodesTrue'
  <2>1. CASE UNCHANGED <<exitCode, told>>
    BY <1>1, <1>2, <2>1, CodesSame DEF os, TypeOK
  <2>2. CASE AnswerWait(t)
    <3>1. told' = [told EXCEPT ![t] = @ \cup ({exitCode[t]} \ {None})] /\ UNCHANGED exitCode
      BY <2>2 DEF AnswerWait, Tell, state
    <3>2. QED
      BY <1>1, <1>2, <3>1 DEF os, TypeOK, CodesHeld, ExitCodesTrue
  <2>3. CASE ReadOutput(t) \/ ReapWaited(t)
    <3>1. /\ \/ exitCode' = exitCode
             \/ /\ command[t] = "exited"
                /\ exitCode' = [exitCode EXCEPT ![t] = status[t]]
          /\ UNCHANGED told
      <4>1. CASE command[t] = "exited"
        BY <2>3, <4>1 DEF ReadOutput, ReapWaited, history
      <4>2. CASE command[t] # "exited"
        <5>1. exitCode' = [exitCode EXCEPT ![t] = exitCode[t]] /\ UNCHANGED told
          BY <2>3, <4>2 DEF ReadOutput, ReapWaited, history
        <5>2. exitCode \in [Task -> Code \cup {None}]
          BY <1>1 DEF TypeOK
        <5>3. [exitCode EXCEPT ![t] = exitCode[t]] = exitCode
          BY <5>2
        <5>4. QED
          BY <5>1, <5>3
      <4>3. QED
        BY <4>1, <4>2
    <3>2. CASE exitCode' = exitCode
      BY <1>1, <1>2, <3>1, <3>2, CodesSame DEF os, TypeOK
    <3>3. CASE command[t] = "exited" /\ exitCode' = [exitCode EXCEPT ![t] = status[t]]
      <4>1. exitCode' \in [Task -> Code \cup {None}]
        BY <1>1, <3>3 DEF TypeOK
      <4>2. CodesHeld'
        BY <1>1, <1>2, <3>1, <3>3 DEF os, TypeOK, CodesHeld
      <4>3. ExitCodesTrue' /\ told' \in [Task -> SUBSET Code]
        BY <1>1, <1>2, <3>1 DEF os, TypeOK, ExitCodesTrue
      <4>4. QED
        BY <4>1, <4>2, <4>3
    <3>4. QED
      BY <3>1, <3>2, <3>3
  <2>4. CASE ReapTerminated(t)
    <3>1. /\ command[t] = "exited" /\ exitCode' = [exitCode EXCEPT ![t] = status[t]]
          /\ told' = [told EXCEPT ![t] = @ \cup ({status[t]} \ {None})]
      BY <1>1, <2>4 DEF ReapTerminated, Tell, TypeOK
    <3>2. QED
      BY <1>1, <1>2, <3>1 DEF os, TypeOK, CodesHeld, ExitCodesTrue
  <2>5. QED
    BY <2>1, <2>2, <2>3, <2>4
    DEF Exec, SetDefaultSandbox, ForegroundExits, AnswerExec, Wait, state, history
<1>5. /\ call' \in [op : {"idle", "read", "wait", "waited", "terminate", "exec", "executed"},
                    task : Task \cup {None}]
      /\ defaults' \in Request
  BY <1>1, ShellTasksAssumption
  DEF Exec, SetDefaultSandbox, ForegroundExits, AnswerExec, Wait, AnswerWait, ReadOutput,
      ReapWaited, ReapTerminated, config, TypeOK, Call, Idle
<1>6. waited' \in [Task -> [Stream -> Seq(Piece)] \cup {None}]
  BY <1>1
  DEF Exec, SetDefaultSandbox, ForegroundExits, AnswerExec, Wait, AnswerWait, ReadOutput,
      ReapWaited, ReapTerminated, history, TypeOK
<1>7. TypeOK'
  BY <1>1, <1>2, <1>4, <1>5, <1>6 DEF TypeOK, os, threads
<1>8. QED
  BY <1>3, <1>4, <1>7 DEF OutputIInv

LEMMA TerminateKeeps ==
  ASSUME OutputIInv, NEW t \in Task, Terminate(t)
  PROVE  OutputIInv'
<1>1. TypeOK /\ OutputKept /\ DeltasJoin /\ ExitCodesTrue /\ TaskShape /\ CodesHeld /\ DeliveredStored
  BY DEF OutputIInv
<1>2. UNCHANGED <<pipe, written, threads, state, config, history>>
  BY DEF Terminate
<1>3. /\ command' \in [Task -> {"none", "running", "exited"}]
      /\ status' \in [Task -> Code \cup {None}] /\ writers' \in [Task -> BOOLEAN]
  <2>1. command' \in [Task -> {"none", "running", "exited"}] /\ status' \in [Task -> Code \cup {None}]
    BY <1>1 DEF Terminate, Ends, Code, TypeOK
  <2>2. writers' \in [Task -> BOOLEAN]
    BY <1>1, ShellTasksAssumption DEF Terminate, Ends, TypeOK
  <2>3. QED
    BY <2>1, <2>2
<1>4. TypeOK'
  BY <1>1, <1>2, <1>3 DEF Terminate, Call, TypeOK, threads, state, config, history
<1>5. Known(t) /\ Known(t)'
  BY <1>1 DEF Terminate, Ends, Known, TypeOK
<1>6. \A o \in Task : o # t => command'[o] = command[o] /\ writers'[o] = writers[o]
  BY <1>1 DEF Terminate, Ends, TypeOK
<1>7. TaskShape'
  BY <1>1, <1>2, <1>5, <1>6, ShapeOfKnown DEF threads, state, config, history
<1>8. OutputKept' /\ DeltasJoin' /\ DeliveredStored'
  BY <1>1, <1>2, OutputSame, DeltasSame DEF threads, state, history
<1>9. ExitCodesTrue' /\ CodesHeld'
  BY <1>1, <1>2 DEF Terminate, Ends, Code, TypeOK, state, history, ExitCodesTrue, CodesHeld
<1>10. QED
  BY <1>4, <1>7, <1>8, <1>9 DEF OutputIInv

LEMMA DeliverKeeps ==
  ASSUME OutputIInv, NEW t \in Task, DeliverOutput(t)
  PROVE  OutputIInv'
<1>1. TypeOK /\ OutputKept /\ DeltasJoin /\ ExitCodesTrue /\ TaskShape /\ CodesHeld /\ DeliveredStored
  BY DEF OutputIInv
<1>2. UNCHANGED <<os, threads, sandbox, stored, exitCode, waited, runs, wanted, config>>
  BY DEF DeliverOutput
<1>3. told' = [told EXCEPT ![t] = @ \cup ({exitCode[t]} \ {None})]
  BY <1>2 DEF DeliverOutput, Tell
<1>4. told' \in [Task -> SUBSET Code] /\ ExitCodesTrue' /\ CodesHeld'
  BY <1>1, <1>2, <1>3 DEF os, TypeOK, CodesHeld, ExitCodesTrue
<1>5. \A s \in Stream :
        /\ given[t][s] \o Delta(t, s) = SubSeq(stored[t][s], 1, Len(stored[t][s]))
        /\ given[t][s] \o Delta(t, s) \in Seq(Piece)
        /\ Len(stored[t][s]) \in Nat
  <2>1. ASSUME NEW s \in Stream
        PROVE  /\ given[t][s] \o Delta(t, s) = SubSeq(stored[t][s], 1, Len(stored[t][s]))
               /\ given[t][s] \o Delta(t, s) \in Seq(Piece)
               /\ Len(stored[t][s]) \in Nat
    <3> DEFINE q == stored[t][s]
               n == delivered[t][s]
    <3>1. q \in Seq(Piece) /\ n \in 0..Len(q) /\ Len(q) \in Nat
      BY <1>1, StreamTypes DEF DeliveredStored
    <3>2. given[t][s] = SubSeq(q, 1, n)
      BY <1>1 DEF DeltasJoin
    <3>3. Delta(t, s) = SubSeq(q, n + 1, Len(q))
      BY DEF Delta
    <3> HIDE DEF q, n
    <3>4. /\ SubSeq(q, 1, n) \o SubSeq(q, n + 1, Len(q)) = SubSeq(q, 1, Len(q))
          /\ SubSeq(q, 1, Len(q)) \in Seq(Piece)
      BY <3>1, DeltaJoins
    <3>5. QED
      BY <3>1, <3>2, <3>3, <3>4, Zenon DEF q
  <2>2. QED
    BY <2>1
<1>6. \A s \in Stream : /\ given'[t][s] = SubSeq(stored[t][s], 1, Len(stored[t][s]))
                        /\ given'[t][s] \in Seq(Piece)
                        /\ delivered'[t][s] = Len(stored[t][s])
  BY <1>1, <1>5 DEF DeliverOutput, TypeOK
<1>7. \A o \in Task : o # t => given'[o] = given[o] /\ delivered'[o] = delivered[o]
  BY <1>1 DEF DeliverOutput, TypeOK
<1>8. TypeOK'
  <2>1. given' \in [Task -> [Stream -> Seq(Piece)]]
    BY <1>1, <1>5 DEF DeliverOutput, TypeOK
  <2>2. delivered' \in [Task -> [Stream -> Nat]]
    BY <1>1, <1>5 DEF DeliverOutput, TypeOK
  <2>3. QED
    BY <1>1, <1>2, <1>4, <2>1, <2>2 DEF DeliverOutput, TypeOK, os, threads, config, Idle
<1>9. DeltasJoin' /\ DeliveredStored'
  <2>1. ASSUME NEW o \in Task, NEW r \in Stream
        PROVE  /\ given'[o][r] = SubSeq(stored'[o][r], 1, delivered'[o][r])
               /\ delivered'[o][r] <= Len(stored'[o][r])
    <3>1. CASE o = t
      <4>1. /\ given'[o][r] = SubSeq(stored[o][r], 1, Len(stored[o][r]))
            /\ delivered'[o][r] = Len(stored[o][r])
        BY <1>6, <3>1, Zenon
      <4>2. stored' = stored /\ Len(stored[o][r]) <= Len(stored[o][r])
        BY <1>2, <1>5, <3>1
      <4>3. QED
        BY <4>1, <4>2, Zenon
    <3>2. CASE o # t
      BY <1>1, <1>2, <1>7, <3>2, Zenon DEF DeltasJoin, DeliveredStored
    <3>3. QED
      BY <3>1, <3>2
  <2>2. QED
    BY <2>1 DEF DeltasJoin, DeliveredStored
<1>10. OutputKept' /\ TaskShape'
  BY <1>1, <1>2, OutputSame, ShapeSame DEF os, threads, config
<1>11. QED
  BY <1>4, <1>8, <1>9, <1>10 DEF OutputIInv

LEMMA NextOutput ==
  ASSUME OutputIInv, [Next]_vars
  PROVE  OutputIInv'
<1>1. CASE UNCHANGED vars
  <2>1. UNCHANGED <<command, status, writers, pipe, written, reader, held, sandbox, stored,
                    delivered, exitCode, host, defaults, call, given, told, waited, runs, wanted>>
    BY <1>1 DEF vars, os, threads, state, config, history
  <2>2. TypeOK'
    BY <2>1 DEF OutputIInv, TypeOK
  <2>3. QED
    BY <2>1, <2>2, OutputSame, DeltasSame, CodesSame, ShapeSame DEF OutputIInv
<1>2. CASE Next
  <2>1. PICK t \in Task :
          \/ \E s \in Stream : CommandWrites(t, s) \/ Reader(t, s)
          \/ CommandExits(t) \/ DescendantsExit(t)
          \/ \E request \in Asked \cup {None} : Spawn(t, request) \/ Exec(request)
          \/ \E request \in Asked : SetDefaultSandbox(request)
          \/ ForegroundExits
          \/ ReadOutput(t) \/ Wait(t) \/ Terminate(t)
          \/ Step(t)
    BY <1>2 DEF Next
  <2>2. "stdout" \in Stream
    BY DEF Stream
  <2>3. CASE \E s \in Stream : CommandWrites(t, s) \/ Reader(t, s)
    BY <2>3, CommandKeeps, ReadersKeep
  <2>4. CASE CommandExits(t) \/ DescendantsExit(t)
    BY <2>2, <2>4, CommandKeeps
  <2>5. CASE \E request \in Asked \cup {None} : Spawn(t, request) \/ Exec(request)
    BY <2>5, SpawnKeeps, CallsKeep
  <2>6. CASE Terminate(t)
    BY <2>6, TerminateKeeps
  <2>7. CASE Step(t)
    BY <2>7, CallsKeep, DeliverKeeps DEF Step
  <2>8. QED
    BY <2>1, <2>3, <2>4, <2>5, <2>6, <2>7, CallsKeep
<1>3. QED
  BY <1>1, <1>2

-----------------------------------------------------------------------------
(* However the command, its reader threads and the calls interleave, and   *)
(* whatever processes a command leaves behind: what is stored of a stream  *)
(* is what was written to it, in order and once; the deltas of read_output *)
(* join to what was stored; no reply carries an exit code the command did  *)
(* not end with; and a command asked to be confined runs in a backend its  *)
(* host has, with the access that was asked for.                           *)
THEOREM OutputCorrect == Spec => []OutputInv
<1>1. Init => OutputIInv
  BY InitOutput
<1>2. OutputIInv /\ [Next]_vars => OutputIInv'
  BY NextOutput
<1>3. OutputIInv => OutputInv
  BY Implied
<1>4. QED
  BY <1>1, <1>2, <1>3, PTL DEF Spec

=============================================================================
