--------------------------- MODULE ModelTurnProofs ---------------------------
(***************************************************************************)
(* Theorems about ModelTurn and the credentials of ProviderAuth: the       *)
(* profile file against what clients were told, and the login a request is *)
(* made with.  They hold for any set of providers, any logins in the       *)
(* environment and any number of failed writes.                            *)
(***************************************************************************)
EXTENDS ModelTurn, WellFoundedInduction, TLAPS

(***************************************************************************)
(* Tokens.                                                                 *)
(***************************************************************************)
TokenSet ==
    [from : {"login", "pasted", "env"}, of : 0..MaxLogins, provider : Provider,
     gen : 0..MaxRefresh]

(***************************************************************************)
(* What a profile made of a login holds: the refresh token of a provider   *)
(* that gives one is kept, where the gateway reads it.                     *)
(***************************************************************************)
LoginShape(pr) ==
    /\ pr.id.provider \in {"openai_codex", "minimax_portal"} => pr.refresh
    /\ pr.id.provider = "github_copilot" => ~pr.expires
    /\ pr.id.provider = "gitlab" => pr.mode = "oauth"
    /\ pr.kind = "token" \/ pr.id.provider \in CodeLogins

GoodProfile(pr) ==
    /\ pr.id.provider \in Provider
    /\ pr.access \in TokenSet
    /\ pr.access.from = "login" => LoginShape(pr)

Tokens ==
    /\ issued \subseteq TokenSet /\ expired \subseteq issued
    /\ \A p \in Env : EnvToken(p) \in issued

LoginRecord == [provider : Provider, stage : {"open", "authorized", "used", "lapsed"}]

Logins == logins \in Seq(LoginRecord) /\ Len(logins) <= MaxLogins

Stocked == \A q \in profiles : GoodProfile(q) /\ q.access \in issued

AuthIInv == Tokens /\ Logins /\ Stocked /\ CompleteIsStored /\ IdsAreUnique

-----------------------------------------------------------------------------
LEMMA TokenIn ==
    ASSUME NEW from \in {"login", "pasted", "env"}, NEW of \in 0..MaxLogins, NEW p \in Provider,
           NEW gen \in 0..MaxRefresh
    PROVE  Token(from, of, p, gen) \in TokenSet
BY DEF Token, TokenSet

LEMMA NotNone == \A t \in TokenSet : t # None
BY AuthAssumption DEF TokenSet

(***************************************************************************)
(* The tokens of the environment and the pasted ones, and those of logins. *)
(***************************************************************************)
LEMMA EnvTokenIn == \A p \in Env : EnvToken(p) \in TokenSet
BY TokenIn, AuthAssumption DEF EnvToken

LEMMA PastedIn == \A p \in Provider : Pasted(p) \in TokenSet /\ Pasted(p).from = "pasted"
<1> SUFFICES ASSUME NEW p \in Provider PROVE Pasted(p) \in TokenSet /\ Pasted(p).from = "pasted"
  OBVIOUS
<1>1. Pasted(p) = Token("pasted", 0, p, 0)
  BY DEF Pasted
<1>2. Pasted(p) \in TokenSet
  BY <1>1, TokenIn, AuthAssumption
<1>3. QED
  BY <1>1, <1>2 DEF Token

LEMMA LoginTokenIn ==
    ASSUME Logins, NEW l \in DOMAIN logins
    PROVE  FromLogin(l) \in TokenSet /\ logins[l].provider \in Provider
<1>1. Len(logins) \in Nat /\ DOMAIN logins = 1..Len(logins) /\ logins[l] \in LoginRecord
  BY DEF Logins
<1>2. l \in 0..MaxLogins /\ 0 \in 0..MaxRefresh
  BY <1>1, AuthAssumption DEF Logins
<1>3. logins[l].provider \in Provider
  BY <1>1 DEF LoginRecord
<1>4. PICK p : p = logins[l].provider
  OBVIOUS
<1>5. FromLogin(l) = Token("login", l, p, 0)
  BY <1>4 DEF FromLogin
<1>6. QED
  BY <1>2, <1>3, <1>4, <1>5, TokenIn

(***************************************************************************)
(* The profile is written, or it is not and nobody is told that it was.    *)
(* What the request does besides is to issue the token of the profile.     *)
(***************************************************************************)
LEMMA UpsertKeeps ==
    ASSUME AuthIInv, Logins', Tokens', issued \subseteq issued', NEW pr, Upsert(pr),
           GoodProfile(pr), pr.access \in issued'
    PROVE  AuthIInv'
<1>1. CASE torn' = torn /\ profiles' = profiles /\ answer'.status = "error"
  BY <1>1 DEF AuthIInv, Stocked, CompleteIsStored, IdsAreUnique
<1>2. CASE profiles' = {} /\ answer'.status = "error"
  BY <1>2 DEF AuthIInv, Stocked, CompleteIsStored, IdsAreUnique
<1>3. CASE ~torn' /\ profiles' = Upserted(pr) /\ answer' = Answer("complete", pr.id, pr.access)
  <2>1. answer'.id = pr.id /\ answer'.token = pr.access
    BY <1>3 DEF Answer
  <2>2. pr \in profiles' /\ \A q \in profiles' : q = pr \/ (q \in profiles /\ q.id # pr.id)
    BY <1>3 DEF Upserted
  <2>3. Stocked'
    BY <2>2 DEF AuthIInv, Stocked
  <2>4. CompleteIsStored' /\ IdsAreUnique'
    BY <1>3, <2>1, <2>2 DEF AuthIInv, CompleteIsStored, IdsAreUnique
  <2>5. QED
    BY <2>3, <2>4 DEF AuthIInv
<1>4. QED
  BY <1>1, <1>2, <1>3 DEF Upsert, WriteFails, Error, Answer

(***************************************************************************)
(* The request does not touch the file, and does not complete anything.    *)
(***************************************************************************)
LEMMA FileKept ==
    ASSUME AuthIInv, Logins', Tokens', issued \subseteq issued', UNCHANGED <<torn, profiles>>,
           answer'.status # "complete" \/ answer' = answer
    PROVE  AuthIInv'
BY DEF AuthIInv, Stocked, CompleteIsStored, IdsAreUnique

LEMMA TokensSame == Tokens /\ UNCHANGED <<issued, expired>> => Tokens'
BY DEF Tokens, EnvToken

LEMMA LoginsSame == Logins /\ UNCHANGED logins => Logins'
BY DEF Logins

LEMMA RefuseKeeps == AuthIInv /\ Refuse => AuthIInv'
<1> SUFFICES ASSUME AuthIInv, Refuse PROVE AuthIInv'
  OBVIOUS
<1>1. answer'.status = "error"
  BY DEF Refuse, Error, Answer
<1>2. Tokens' /\ Logins'
  BY TokensSame, LoginsSame DEF AuthIInv, Refuse, NotIssued
<1>3. QED
  BY <1>1, <1>2, FileKept DEF Refuse, NotIssued

LEMMA StageKept ==
    ASSUME Logins, NEW l \in DOMAIN logins, NEW stage \in {"open", "authorized", "used", "lapsed"},
           logins' = [logins EXCEPT ![l].stage = stage]
    PROVE  Logins'
<1>1. PICK login : login = [logins[l] EXCEPT !.stage = stage]
  OBVIOUS
<1>2. logins[l] \in LoginRecord /\ Len(logins) \in Nat /\ DOMAIN logins = 1..Len(logins)
  BY DEF Logins
<1>3. login \in LoginRecord
  BY <1>1, <1>2 DEF LoginRecord
<1>4. logins' = [logins EXCEPT ![l] = login]
  BY <1>1
<1>5. Len(logins') = Len(logins) /\ logins' \in Seq(LoginRecord)
  BY <1>2, <1>3, <1>4 DEF Logins
<1>6. QED
  BY <1>5 DEF Logins

(***************************************************************************)
(* The code of a login is used, and its tokens are issued.                 *)
(***************************************************************************)
LEMMA ConsumeKeeps ==
    ASSUME AuthIInv, NEW l \in DOMAIN logins, Consume(l)
    PROVE  Tokens' /\ Logins' /\ issued \subseteq issued' /\ FromLogin(l) \in issued'
<1>1. FromLogin(l) \in TokenSet
  BY LoginTokenIn DEF AuthIInv
<1>2. Tokens'
  BY <1>1 DEF AuthIInv, Tokens, Consume, EnvToken
<1>3. Logins'
  <2>1. Logins /\ logins' = [logins EXCEPT ![l].stage = "used"]
    BY DEF AuthIInv, Consume
  <2>2. QED
    BY <2>1, StageKept
<1>4. QED
  BY <1>2, <1>3 DEF Consume

(***************************************************************************)
(* The profiles made of a login, and those given by the owner.             *)
(***************************************************************************)
LEMMA LoginProfiles ==
    ASSUME NEW id, NEW t \in TokenSet, id.provider \in Provider,
           NEW refresh \in BOOLEAN, NEW expires \in BOOLEAN
    PROVE  /\ id.provider = "openai_codex" => GoodProfile(CodexProfile(id, t))
           /\ id.provider = "gitlab" => GoodProfile(GitlabProfile(id, t, refresh, expires))
           /\ id.provider = "github_copilot" => GoodProfile(CopilotProfile(id, t))
           /\ id.provider = "minimax_portal" => GoodProfile(MinimaxProfile(id, t))
           /\ CodexProfile(id, t).access = t /\ CopilotProfile(id, t).access = t
           /\ MinimaxProfile(id, t).access = t
           /\ GitlabProfile(id, t, refresh, expires).access = t
BY DEF GoodProfile, LoginShape, Profile, CodexProfile, GitlabProfile, CopilotProfile,
       MinimaxProfile, CodeLogins

LEMMA GivenProfiles ==
    ASSUME NEW p \in Provider, NEW slot, NEW pr \in Given(p, Id(p, slot))
    PROVE  GoodProfile(pr) /\ pr.access = Pasted(p)
<1>1. PICK t, id : t = Pasted(p) /\ id = Id(p, slot)
  OBVIOUS
<1>2. t \in TokenSet /\ t.from = "pasted" /\ id.provider = p
  BY <1>1, PastedIn DEF Id
<1>3. pr.id = id /\ pr.access = t
  BY <1>1 DEF Given, Profile, PatProfile
<1>4. QED
  BY <1>1, <1>2, <1>3 DEF GoodProfile

(***************************************************************************)
(* Requests about logins and profiles.                                     *)
(***************************************************************************)
LEMMA OpenedKeeps ==
    ASSUME AuthIInv, NEW p \in Provider, Opened(p)
    PROVE  AuthIInv'
<1>1. PICK login : login = [provider |-> p, stage |-> "open"]
  OBVIOUS
<1>2. login \in LoginRecord /\ logins' = Append(logins, login) /\ Len(logins) < MaxLogins
  BY <1>1 DEF LoginRecord, Opened
<1>3. Logins'
  <2>1. logins \in Seq(LoginRecord) /\ Len(logins) \in Nat /\ MaxLogins \in Nat
    BY AuthAssumption DEF AuthIInv, Logins
  <2>2. logins' \in Seq(LoginRecord) /\ Len(logins') = Len(logins) + 1
    BY <1>2, <2>1
  <2>3. QED
    BY <1>2, <2>1, <2>2 DEF Logins
<1>4. Tokens'
  BY TokensSame DEF AuthIInv, Opened
<1>5. answer'.status = "started"
  BY DEF Opened, Answer
<1>6. QED
  BY <1>3, <1>4, <1>5, FileKept DEF Opened

LEMMA StartLoginKeeps == \A p \in Provider : AuthIInv /\ StartLogin(p) => AuthIInv'
BY OpenedKeeps, RefuseKeeps DEF StartLogin, StartCodex, StartGitlab, StartCopilot, StartMinimax

LEMMA PendingKeeps ==
    ASSUME AuthIInv, NEW l, Pending(l)
    PROVE  AuthIInv'
<1>1. answer'.status = "pending"
  BY DEF Pending, Answer
<1>2. Tokens' /\ Logins'
  BY TokensSame, LoginsSame DEF AuthIInv, Pending, NotIssued
<1>3. QED
  BY <1>1, <1>2, FileKept DEF Pending, NotIssued

LEMMA CompleteKeeps ==
    ASSUME AuthIInv, NEW l \in DOMAIN logins, NEW slot,
           Complete(l, Id(logins[l].provider, slot))
    PROVE  AuthIInv'
<1>1. PICK id, t : id = Id(logins[l].provider, slot) /\ t = FromLogin(l)
  OBVIOUS
<1>2. t \in TokenSet /\ id.provider = logins[l].provider /\ id.provider \in Provider
  BY <1>1, LoginTokenIn DEF AuthIInv, Id
<1>3. ASSUME NEW pr, Consume(l), Upsert(pr), GoodProfile(pr), pr.access = t
      PROVE  AuthIInv'
  BY <1>1, <1>3, ConsumeKeeps, UpsertKeeps
<1>4. ASSUME NEW verifier, NEW form, NEW expected,
             CompleteCodex(l, verifier, form, expected, id)
      PROVE  AuthIInv'
  <2>1. CASE Refuse
    BY <2>1, RefuseKeeps
  <2>2. CASE ~Refuse
    <3>1. Consume(l) /\ Upsert(CodexProfile(id, t)) /\ id.provider = "openai_codex"
      BY <1>1, <1>2, <1>4, <2>2 DEF CompleteCodex
    <3>2. GoodProfile(CodexProfile(id, t)) /\ CodexProfile(id, t).access = t
      BY <1>2, <3>1, LoginProfiles
    <3>3. QED
      BY <1>3, <3>1, <3>2
  <2>3. QED
    BY <2>1, <2>2
<1>5. ASSUME NEW verifier, CompleteGitlab(l, verifier, id)
      PROVE  AuthIInv'
  <2>1. CASE Refuse
    BY <2>1, RefuseKeeps
  <2>2. CASE ~Refuse
    <3>1. /\ Consume(l) /\ id.provider = "gitlab"
          /\ \E refresh, expires \in BOOLEAN : Upsert(GitlabProfile(id, t, refresh, expires))
      BY <1>1, <1>2, <1>5, <2>2 DEF CompleteGitlab
    <3>2. PICK refresh \in BOOLEAN, expires \in BOOLEAN :
             Upsert(GitlabProfile(id, t, refresh, expires))
      BY <3>1
    <3>3. /\ GoodProfile(GitlabProfile(id, t, refresh, expires))
          /\ GitlabProfile(id, t, refresh, expires).access = t
      BY <1>2, <3>1, LoginProfiles
    <3>4. QED
      BY <1>3, <3>1, <3>2, <3>3
  <2>3. QED
    BY <2>1, <2>2
<1>6. CASE PollCopilot(l, id)
  <2>1. CASE Pending(l) \/ Refuse
    BY <2>1, PendingKeeps, RefuseKeeps
  <2>2. CASE ~(Pending(l) \/ Refuse)
    <3>1. Consume(l) /\ Upsert(CopilotProfile(id, t)) /\ id.provider = "github_copilot"
      BY <1>1, <1>2, <1>6, <2>2 DEF PollCopilot
    <3>2. GoodProfile(CopilotProfile(id, t)) /\ CopilotProfile(id, t).access = t
      BY <1>2, <3>1, LoginProfiles
    <3>3. QED
      BY <1>3, <3>1, <3>2
  <2>3. QED
    BY <2>1, <2>2
<1>7. CASE PollMinimax(l, id)
  <2>1. CASE Pending(l) \/ Refuse
    BY <2>1, PendingKeeps, RefuseKeeps
  <2>2. CASE Consume(l) /\ Upsert(MinimaxProfile(id, t)) /\ id.provider = "minimax_portal"
    <3>1. GoodProfile(MinimaxProfile(id, t)) /\ MinimaxProfile(id, t).access = t
      BY <1>2, <2>2, LoginProfiles
    <3>2. QED
      BY <1>3, <2>2, <3>1
  <2>3. CASE Consume(l) /\ Error /\ UNCHANGED <<torn, profiles, faults>>
    <3>1. answer'.status = "error"
      BY <2>3 DEF Error, Answer
    <3>2. QED
      BY <2>3, <3>1, ConsumeKeeps, FileKept
  <2>4. QED
    BY <1>1, <1>2, <1>7, <2>1, <2>2, <2>3 DEF PollMinimax
<1>8. QED
  BY <1>1, <1>4, <1>5, <1>6, <1>7 DEF Complete

LEMMA UpsertGivenKeeps ==
    ASSUME AuthIInv, NEW p \in Provider, NEW slot, UpsertGiven(p, Id(p, slot))
    PROVE  AuthIInv'
<1>1. PICK pr \in Given(p, Id(p, slot)) : Upsert(pr)
  BY DEF UpsertGiven
<1>2. GoodProfile(pr) /\ pr.access = Pasted(p)
  BY GivenProfiles
<1>3. Tokens' /\ issued \subseteq issued' /\ Pasted(p) \in issued'
  BY PastedIn DEF AuthIInv, Tokens, UpsertGiven, EnvToken
<1>4. Logins'
  BY LoginsSame DEF AuthIInv, UpsertGiven
<1>5. QED
  BY <1>1, <1>2, <1>3, <1>4, UpsertKeeps

(***************************************************************************)
(* Profiles are taken out of the file, or the file is lost.                *)
(***************************************************************************)
LEMMA FewerProfiles ==
    ASSUME AuthIInv, UNCHANGED <<logins, issued, expired>>, profiles' \subseteq profiles,
           answer'.status # "complete"
    PROVE  AuthIInv'
<1>1. Tokens' /\ Logins'
  BY TokensSame, LoginsSame DEF AuthIInv
<1>2. QED
  BY <1>1 DEF AuthIInv, Stocked, CompleteIsStored, IdsAreUnique

LEMMA DeleteKeeps ==
    ASSUME AuthIInv, NEW id, Delete(id)
    PROVE  AuthIInv'
<1>1. answer'.status \in {"deleted", "error"} /\ profiles' \subseteq profiles
  BY DEF Delete, Answer, Error, WriteFails
<1>2. QED
  BY <1>1, FewerProfiles DEF Delete, NotIssued

LEMMA CrashKeeps == AuthIInv /\ Crash => AuthIInv'
<1> SUFFICES ASSUME AuthIInv, Crash PROVE AuthIInv'
  OBVIOUS
<1>1. answer'.status = "none" /\ profiles' \subseteq profiles
  BY DEF Crash, NoAnswer, Answer
<1>2. QED
  BY <1>1, FewerProfiles DEF Crash

LEMMA AuthRequestKeeps ==
    ASSUME AuthIInv, NEW asked, asked \subseteq Provider, AuthRequest(asked)
    PROVE  AuthIInv'
BY StartLoginKeeps, CompleteKeeps, UpsertGivenKeeps, DeleteKeeps, CrashKeeps DEF AuthRequest

LEMMA AuthWorldKeeps ==
    ASSUME AuthIInv, NEW asked, AuthWorld(asked)
    PROVE  AuthIInv' /\ issued' = issued /\ UNCHANGED profiles
<1>1. ASSUME NEW l \in DOMAIN logins, Authorize(l) \/ Lapse(l)
      PROVE  AuthIInv' /\ issued' = issued /\ UNCHANGED profiles
  <2>1. PICK stage \in {"authorized", "lapsed"} : logins' = [logins EXCEPT ![l].stage = stage]
    BY <1>1 DEF Authorize, Lapse
  <2>2. UNCHANGED <<torn, profiles, issued, expired, answer>>
    BY <1>1 DEF Authorize, Lapse
  <2>3. Logins'
    BY <2>1, StageKept DEF AuthIInv
  <2>4. QED
    BY <2>2, <2>3, TokensSame, FileKept DEF AuthIInv
<1>2. ASSUME NEW t \in issued, Expire(t)
      PROVE  AuthIInv' /\ issued' = issued /\ UNCHANGED profiles
  <2>1. Tokens'
    BY <1>2 DEF AuthIInv, Tokens, Expire, EnvToken
  <2>2. Logins'
    BY <1>2, LoginsSame DEF AuthIInv, Expire
  <2>3. QED
    BY <1>2, <2>1, <2>2, FileKept DEF Expire
<1>3. QED
  BY <1>1, <1>2 DEF AuthWorld

-----------------------------------------------------------------------------
(***************************************************************************)
(* The credential of a turn.  What the gateway holds was taken from the    *)
(* profile the turn began with, wherever that profile is by now.           *)
(***************************************************************************)
TakenFrom(g, pr, p) == g = Filled(IF pr = None THEN Unset ELSE Override(pr), EnvLogin(p))

Holder(pr) == pr # None => GoodProfile(pr) /\ pr.access \in issued /\ pr.id.provider = primary

TurnIInv ==
    /\ AuthIInv
    /\ primary \in Provider
    /\ phase # "idle" => TakenFrom(gateway, owner, primary) /\ Holder(owner)
    /\ LoginUsedWhole

LEMMA DefaultIsStored ==
    ASSUME AuthIInv, primary \in Provider
    PROVE  TakenFrom(Gateway(primary), DefaultProfile(primary), primary)
           /\ Holder(DefaultProfile(primary))
<1>1. PICK pr : pr = DefaultProfile(primary)
  OBVIOUS
<1>2. pr = None \/ pr \in Stored(primary)
  BY <1>1 DEF DefaultProfile
<1>3. Holder(pr)
  BY <1>2 DEF Holder, Stored, AuthIInv, Stocked
<1>4. QED
  BY <1>1, <1>3 DEF TakenFrom, Gateway

(***************************************************************************)
(* The latest generation of a login is one that was issued, and none       *)
(* issued is later.                                                        *)
(***************************************************************************)
LEMMA LeastNatural ==
    ASSUME NEW T, T \subseteq Nat, T # {}
    PROVE  \E n \in T : \A m \in T : n <= m
<1> DEFINE R == {ss \in Nat \X Nat : ss[1] < ss[2]}
<1>1. IsWellFoundedOn(R, Nat)
  BY NatLessThanWellFounded DEF OpToRel
<1>2. PICK n \in T : \A m \in T : <<m, n>> \notin R
  BY <1>1, WFMin
<1>3. \A m \in T : m < n => <<m, n>> \in R
  OBVIOUS
<1>4. \A m \in T : m \in Nat /\ n \in Nat /\ ~(m < n)
  BY <1>2, <1>3
<1>5. QED
  BY <1>4

LEMMA MaxBounded ==
    ASSUME NEW n \in Nat, NEW S, S \subseteq 0..n, S # {}
    PROVE  Max(S) \in S /\ \A m \in S : m <= Max(S)
<1> DEFINE Above == {b \in Nat : \A m \in S : m <= b}
<1>1. n \in Above
  OBVIOUS
<1>2. PICK b \in Above : \A c \in Above : b <= c
  BY <1>1, LeastNatural
<1>3. b \in S
  <2> SUFFICES ASSUME b \notin S PROVE FALSE
    OBVIOUS
  <2>1. b \in Nat /\ \A m \in S : m < b /\ m \in Nat
    BY <1>2
  <2>2. b > 0
    <3>1. PICK m : m \in S
      OBVIOUS
    <3>2. QED
      BY <2>1, <3>1
  <2>3. b - 1 \in Above
    BY <2>1, <2>2, <1>2
  <2>4. QED
    BY <1>2, <2>3
<1>4. \E x \in S : \A y \in S : x >= y
  BY <1>2, <1>3
<1>5. Max(S) \in S /\ \A y \in S : Max(S) >= y
  <2> DEFINE P(x) == \A y \in S : x >= y
  <2>1. Max(S) = CHOOSE x \in S : P(x)
    BY DEF Max
  <2>2. \E x \in S : P(x)
    BY <1>4
  <2> HIDE DEF P
  <2>3. Max(S) \in S /\ P(Max(S))
    BY <2>1, <2>2
  <2>4. QED
    BY <2>3 DEF P
<1>6. QED
  BY <1>5

LEMMA SameLoginSelf == \A t : SameLogin(t, t)
BY DEF SameLogin

LEMMA LatestBounds ==
    ASSUME Tokens, NEW t \in issued
    PROVE  /\ Latest(t) \in 0..MaxRefresh
           /\ \A u \in issued : SameLogin(u, t) => u.gen <= Latest(t)
<1> DEFINE S == {u.gen : u \in {v \in issued : SameLogin(v, t)}}
<1>1. \A u \in issued : u.gen \in 0..MaxRefresh
  BY DEF Tokens, TokenSet
<1>2. S \subseteq 0..MaxRefresh
  BY <1>1
<1>3. t.gen \in S
  BY SameLoginSelf
<1>4. Latest(t) = Max(S)
  BY DEF Latest
<1>5. MaxRefresh \in Nat
  BY AuthAssumption
<1>6. \A u \in issued : SameLogin(u, t) => u.gen \in S
  OBVIOUS
<1> HIDE DEF S
<1>7. Max(S) \in S /\ \A m \in S : m <= Max(S)
  BY <1>2, <1>3, <1>5, MaxBounded
<1>8. QED
  BY <1>2, <1>4, <1>6, <1>7

(***************************************************************************)
(* A refresh yields a token of the same login that was not issued before.  *)
(***************************************************************************)
LEMMA NextTokenIsNew ==
    ASSUME Tokens, NEW t \in issued, Latest(t) < MaxRefresh
    PROVE  NextToken(t) \in TokenSet /\ SameLogin(NextToken(t), t) /\ NextToken(t) \notin issued
<1>1. PICK n, next : n = Latest(t) + 1 /\ next = [t EXCEPT !.gen = n]
  OBVIOUS
<1>2. /\ Latest(t) \in 0..MaxRefresh
      /\ \A u \in issued : SameLogin(u, t) => u.gen <= Latest(t)
  BY LatestBounds
<1>3. MaxRefresh \in Nat
  BY AuthAssumption
<1>4. n \in 0..MaxRefresh /\ Latest(t) < n
  BY <1>1, <1>2, <1>3
<1>5. t \in TokenSet
  BY DEF Tokens
<1>6. next \in TokenSet /\ next.gen = n
  BY <1>1, <1>4, <1>5 DEF TokenSet
<1>7. [next EXCEPT !.gen = 0] = [t EXCEPT !.gen = 0]
  BY <1>1, <1>5 DEF TokenSet
<1>8. next \notin issued
  <2> SUFFICES ASSUME next \in issued PROVE FALSE
    OBVIOUS
  <2>1. next.gen <= Latest(t)
    BY <1>2, <1>7 DEF SameLogin
  <2>2. QED
    BY <1>2, <1>3, <1>4, <1>6, <2>1
<1>9. NextToken(t) = next
  BY <1>1 DEF NextToken
<1>10. QED
  BY <1>6, <1>7, <1>8, <1>9 DEF SameLogin

(***************************************************************************)
(* The login of a profile reaches the gateway whole: nothing of it is      *)
(* filled from the environment's.                                          *)
(***************************************************************************)
LEMMA LoginTakenWhole ==
    ASSUME NEW p \in Provider, NEW pr, GoodProfile(pr), pr.id.provider = p,
           pr.access.from = "login", NEW g, g = Filled(Override(pr), EnvLogin(p))
    PROVE  /\ g.access = pr.access
           /\ g.refresh \in {None, pr.access}
           /\ pr.expires => g.expiry = pr.access
           /\ p = "gitlab" => g.mode = "oauth"
<1>1. pr.access # None /\ LoginShape(pr)
  BY NotNone DEF GoodProfile
<1>2. PICK o, e : o = Override(pr) /\ e = EnvLogin(p)
  OBVIOUS
<1>3. /\ g.access = Or(o.access, e.access) /\ g.refresh = Or(o.refresh, e.refresh)
      /\ g.expiry = Or(o.expiry, e.expiry) /\ g.mode = o.mode
  BY <1>2 DEF Filled
<1>4. /\ o.access = pr.access
      /\ pr.refresh => o.refresh = pr.access
      /\ ~pr.refresh => o.refresh = None
      /\ pr.expires => o.expiry = pr.access
      /\ pr.mode = "oauth" => o.mode = "oauth"
  BY <1>1, <1>2 DEF Override, LoginShape
<1>5. p \notin {"openai_codex", "minimax_portal"} => e.refresh = None
  BY <1>2 DEF EnvLogin
<1>6. p \in {"openai_codex", "minimax_portal"} => pr.refresh
  BY <1>1 DEF LoginShape
<1>7. g.refresh \in {None, pr.access}
  BY <1>1, <1>3, <1>4, <1>5, <1>6 DEF Or
<1>8. QED
  BY <1>1, <1>3, <1>4, <1>7 DEF Or, LoginShape

(***************************************************************************)
(* A token is used as it is only before the expiry stored with it.         *)
(***************************************************************************)
LEMMA UsedInTime ==
    ASSUME NEW p \in Provider, NEW pr, GoodProfile(pr), pr.id.provider = p,
           pr.access.from = "login", NEW g, g = Filled(Override(pr), EnvLogin(p)),
           Resolution(p, g) = "use", pr.expires
    PROVE  pr.access \notin expired
<1>1. /\ g.access = pr.access /\ g.expiry = pr.access /\ pr.access # None
      /\ p = "gitlab" => g.mode = "oauth"
  BY LoginTakenWhole, NotNone DEF GoodProfile
<1>2. p # "github_copilot"
  BY DEF GoodProfile, LoginShape
<1>3. p \in {"openai_codex", "minimax_portal", "gitlab"}
  BY <1>2, AuthAssumption
<1>4. Refreshed(g) = "use"
  BY <1>1, <1>3 DEF Resolution
<1>5. QED
  BY <1>1, <1>4 DEF Refreshed, Fresh

(***************************************************************************)
(* The refresh token of a gateway was issued.                              *)
(***************************************************************************)
LEMMA RefreshIssued ==
    ASSUME TurnIInv, phase # "idle", gateway.refresh # None
    PROVE  gateway.refresh \in issued
<1>1. PICK o, e : /\ o = (IF owner = None THEN Unset ELSE Override(owner))
                  /\ e = EnvLogin(primary)
  OBVIOUS
<1>2. gateway = Filled(o, e) /\ Holder(owner)
  BY <1>1 DEF TurnIInv, TakenFrom
<1>3. gateway.refresh = Or(o.refresh, e.refresh)
  BY <1>2 DEF Filled
<1>4. o.refresh # None => o.refresh \in issued
  BY <1>1, <1>2 DEF Unset, Override, Holder
<1>5. e.refresh # None => e.refresh = EnvToken(primary) /\ EnvToken(primary) # None
  BY <1>1 DEF EnvLogin
<1>6. EnvToken(primary) # None => EnvToken(primary) \in issued
  BY DEF EnvToken, TurnIInv, AuthIInv, Tokens
<1>7. QED
  BY <1>3, <1>4, <1>5, <1>6 DEF Or

(***************************************************************************)
(* A request of a turn.                                                    *)
(***************************************************************************)
LEMMA SendsKeeps ==
    ASSUME TurnIInv, phase # "idle", Sends, UNCHANGED expired
    PROVE  LoginUsedWhole' /\ Tokens' /\ issued \subseteq issued'
<1>1. Tokens /\ primary \in Provider
  BY DEF TurnIInv, AuthIInv
<1>2. ASSUME Login(owner)
      PROVE  /\ gateway = Filled(Override(owner), EnvLogin(primary))
             /\ GoodProfile(owner) /\ owner.id.provider = primary /\ owner.access.from = "login"
  BY <1>2 DEF TurnIInv, TakenFrom, Holder, Login
<1>3. ASSUME NEW t, SendWith(t),
             Login(owner) => SameLogin(t, owner.access) /\ (owner.expires => t \notin expired)
      PROVE  LoginUsedWhole'
  <2>1. sent' = [token |-> t, owner |-> owner, past |-> t \in expired]
    BY <1>3 DEF SendWith
  <2>2. sent'.token = t /\ sent'.owner = owner /\ (sent'.past <=> t \in expired)
    BY <2>1
  <2>3. QED
    BY <1>3, <2>2 DEF LoginUsedWhole, Login
<1>4. CASE UseAccess
  <2>1. Login(owner) => gateway.access = owner.access
    BY <1>1, <1>2, LoginTakenWhole
  <2>2. Login(owner) /\ owner.expires => owner.access \notin expired
    BY <1>1, <1>2, <1>4, UsedInTime DEF UseAccess
  <2>3. LoginUsedWhole'
    BY <1>3, <1>4, <2>1, <2>2, SameLoginSelf DEF UseAccess
  <2>4. QED
    BY <1>1, <1>4, <2>3, TokensSame DEF UseAccess
<1>5. CASE Refresh
  <2>1. PICK t : t = gateway.refresh
    OBVIOUS
  <2>2. t # None
    BY <1>5, <2>1 DEF Refresh, Resolution, Refreshed
  <2>3. t \in issued /\ Latest(t) < MaxRefresh
    BY <1>5, <2>1, <2>2, RefreshIssued DEF Refresh
  <2>4. NextToken(t) \in TokenSet /\ SameLogin(NextToken(t), t) /\ NextToken(t) \notin issued
    BY <1>1, <2>3, NextTokenIsNew
  <2>5. Login(owner) => t = owner.access
    BY <1>1, <1>2, <2>1, <2>2, LoginTakenWhole
  <2>6. SendWith(NextToken(t)) /\ issued' = issued \cup {NextToken(t)}
    BY <1>5, <2>1 DEF Refresh
  <2>7. NextToken(t) \notin expired
    BY <1>1, <2>4 DEF Tokens
  <2>8. LoginUsedWhole'
    BY <1>3, <2>4, <2>5, <2>6, <2>7
  <2>9. Tokens' /\ issued \subseteq issued'
    BY <1>1, <2>4, <2>6 DEF Tokens, EnvToken
  <2>10. QED
    BY <2>8, <2>9
<1>6. QED
  BY <1>4, <1>5 DEF Sends

LEMMA CallKeeps ==
    ASSUME TurnIInv, phase # "idle", CannotSend \/ Sends,
           UNCHANGED <<primary, torn, profiles, logins, expired, answer>>
    PROVE  AuthIInv' /\ LoginUsedWhole' /\ primary' \in Provider /\ issued \subseteq issued'
<1>1. AuthIInv /\ primary \in Provider /\ Logins'
  BY LoginsSame DEF TurnIInv, AuthIInv
<1>2. CASE CannotSend
  <2>1. Tokens' /\ issued \subseteq issued'
    BY <1>1, <1>2, TokensSame DEF AuthIInv, CannotSend
  <2>2. LoginUsedWhole'
    BY <1>2 DEF CannotSend, TurnIInv, LoginUsedWhole
  <2>3. QED
    BY <1>1, <2>1, <2>2, FileKept
<1>3. CASE Sends
  <2>1. LoginUsedWhole' /\ Tokens' /\ issued \subseteq issued'
    BY <1>3, SendsKeeps
  <2>2. QED
    BY <1>1, <2>1, FileKept
<1>4. QED
  BY <1>2, <1>3

(***************************************************************************)
(* The gateway of the compilation is put together anew, from the profile   *)
(* as it is by then.                                                       *)
(***************************************************************************)
LEMMA EndKeeps ==
    ASSUME TurnIInv, phase # "idle", CannotSend \/ Sends, NEW kind, NEW spoken, End(kind, spoken),
           UNCHANGED <<primary, torn, profiles, logins, expired, answer>>
    PROVE  TurnIInv'
<1>1. AuthIInv' /\ LoginUsedWhole' /\ primary' \in Provider /\ issued \subseteq issued'
  BY CallKeeps
<1>2. CASE phase' = "idle"
  BY <1>1, <1>2 DEF TurnIInv
<1>3. CASE owner' = DefaultProfile(primary) /\ gateway' = Gateway(primary)
  <2>1. /\ TakenFrom(Gateway(primary), DefaultProfile(primary), primary)
        /\ Holder(DefaultProfile(primary))
    BY DefaultIsStored DEF TurnIInv
  <2>2. TakenFrom(gateway', owner', primary')
    BY <1>3, <2>1
  <2>3. Holder(owner)'
    BY <1>1, <1>3, <2>1 DEF Holder
  <2>4. QED
    BY <1>1, <2>2, <2>3 DEF TurnIInv
<1>4. QED
  BY <1>2, <1>3 DEF End

(***************************************************************************)
(* The turn goes on with the gateway it has.                               *)
(***************************************************************************)
LEMMA GatewayKept ==
    ASSUME TurnIInv, phase # "idle", UNCHANGED <<primary, gateway, owner>>,
           AuthIInv', LoginUsedWhole', issued \subseteq issued'
    PROVE  TurnIInv'
<1>1. Holder(owner)'
  BY DEF TurnIInv, Holder
<1>2. TakenFrom(gateway', owner', primary')
  BY DEF TurnIInv
<1>3. QED
  BY <1>1, <1>2 DEF TurnIInv

LEMMA BeginKeeps == TurnIInv /\ Begin => TurnIInv'
<1> SUFFICES ASSUME TurnIInv, Begin PROVE TurnIInv'
  OBVIOUS
<1>1. Tokens' /\ Logins' /\ answer'.status = "none"
  BY TokensSame, LoginsSame DEF TurnIInv, AuthIInv, Begin, NoAnswer, Answer
<1>2. AuthIInv'
  BY <1>1, FileKept DEF TurnIInv, Begin
<1>3. /\ TakenFrom(Gateway(primary), DefaultProfile(primary), primary)
      /\ Holder(DefaultProfile(primary))
  BY DefaultIsStored DEF TurnIInv
<1>4. TakenFrom(gateway', owner', primary')
  BY <1>3 DEF Begin
<1>5. Holder(owner)'
  BY <1>3 DEF Begin, Holder
<1>6. LoginUsedWhole' /\ primary' \in Provider
  BY DEF Begin, LoginUsedWhole, TurnIInv
<1>7. QED
  BY <1>2, <1>4, <1>5, <1>6 DEF TurnIInv

LEMMA AskKeeps ==
    ASSUME TurnIInv, NEW tools, Ask(tools)
    PROVE  TurnIInv'
<1>1. /\ phase # "idle" /\ Sends
      /\ UNCHANGED <<primary, torn, profiles, logins, expired, answer>>
  BY DEF Ask
<1>2. PICK calls : calls = Calls(Recognised(tools))
  OBVIOUS
<1>3. PICK spoken \in Spoken(calls) :
         \/ End("turn_completed", spoken)
         \/ UNCHANGED <<gateway, owner>>
  BY <1>2 DEF Ask
<1>4. CASE End("turn_completed", spoken)
  BY <1>1, <1>4, EndKeeps
<1>5. CASE UNCHANGED <<gateway, owner>>
  BY <1>1, <1>5, CallKeeps, GatewayKept
<1>6. QED
  BY <1>3, <1>4, <1>5

(***************************************************************************)
(* Tools and files do not touch the credential.                            *)
(***************************************************************************)
LEMMA ToolsKeep ==
    ASSUME TurnIInv,
           UNCHANGED <<primary, gateway, owner, torn, profiles, logins, issued, expired, answer, sent>>,
           phase' # "idle" => phase # "idle"
    PROVE  TurnIInv'
<1>1. Tokens' /\ Logins'
  BY TokensSame, LoginsSame DEF TurnIInv, AuthIInv
<1>2. AuthIInv'
  BY <1>1, FileKept DEF TurnIInv
<1>3. LoginUsedWhole' /\ primary' \in Provider
  BY DEF TurnIInv, LoginUsedWhole
<1>4. Holder(owner) => Holder(owner)'
  BY DEF Holder
<1>5. TakenFrom(gateway, owner, primary) => TakenFrom(gateway', owner', primary')
  OBVIOUS
<1>6. QED
  BY <1>2, <1>3, <1>4, <1>5 DEF TurnIInv

LEMMA NextTurn == TurnIInv /\ [Next]_vars => TurnIInv'
<1> SUFFICES ASSUME TurnIInv, [Next]_vars PROVE TurnIInv'
  OBVIOUS
<1>1. AuthIInv /\ {primary} \cup Others \subseteq Provider
  BY OthersAssumption DEF TurnIInv
<1>2. CASE Requests
  <2>1. AuthIInv'
    BY <1>1, <1>2, AuthRequestKeeps DEF Requests
  <2>2. phase' = "idle" /\ primary' \in Provider /\ LoginUsedWhole'
    BY <1>2 DEF Requests, TurnIInv, LoginUsedWhole
  <2>3. QED
    BY <2>1, <2>2 DEF TurnIInv
<1>3. CASE World
  <2>1. AuthIInv' /\ issued' = issued
    BY <1>1, <1>3, AuthWorldKeeps DEF World
  <2>2. UNCHANGED <<primary, phase, gateway, owner, sent>>
    BY <1>3 DEF World, turnVars
  <2>3. LoginUsedWhole'
    BY <2>2 DEF TurnIInv, LoginUsedWhole
  <2>4. CASE phase = "idle"
    BY <2>1, <2>2, <2>3, <2>4 DEF TurnIInv
  <2>5. CASE phase # "idle"
    BY <2>1, <2>2, <2>3, <2>5, GatewayKept
  <2>6. QED
    BY <2>4, <2>5
<1>4. CASE Begin
  BY <1>4, BeginKeeps
<1>5. CASE AskFails
  BY <1>5, EndKeeps DEF AskFails
<1>6. CASE \E tools \in ToolSeqs : Ask(tools)
  BY <1>6, AskKeeps
<1>7. CASE RunTool
  BY <1>7, ToolsKeep DEF RunTool
<1>8. CASE OthersEdit
  BY <1>8, ToolsKeep DEF OthersEdit
<1>9. CASE HandBack
  BY <1>9, ToolsKeep DEF HandBack, authVars
<1>10. CASE Compile
  <2>1. AuthIInv' /\ LoginUsedWhole' /\ primary' \in Provider
    BY <1>10, CallKeeps DEF Compile
  <2>2. QED
    BY <1>10, <2>1 DEF Compile, TurnIInv
<1>11. CASE UNCHANGED vars
  BY <1>11, ToolsKeep DEF vars, authVars, turnVars
<1>12. QED
  BY <1>2, <1>3, <1>4, <1>5, <1>6, <1>7, <1>8, <1>9, <1>10, <1>11 DEF Next

LEMMA InitTurn == Init => TurnIInv
<1> SUFFICES ASSUME Init PROVE TurnIInv
  OBVIOUS
<1>1. Tokens
  BY EnvTokenIn DEF Init, AuthInit, Tokens
<1>2. Logins
  BY AuthAssumption DEF Init, AuthInit, Logins
<1>3. answer.status = "none"
  BY DEF Init, AuthInit, NoAnswer, Answer
<1>4. AuthIInv
  BY <1>1, <1>2, <1>3 DEF Init, AuthInit, AuthIInv, Stocked, CompleteIsStored, IdsAreUnique
<1>5. QED
  BY <1>4 DEF Init, TurnIInv, LoginUsedWhole

(***************************************************************************)
(* What would be resolved is shown as ready, whatever the profile and the  *)
(* environment hold.                                                       *)
(***************************************************************************)
LEMMA UsableShown == UsableIsReady
<1> SUFFICES ASSUME NEW p \in Provider, NEW g, g = Gateway(p), Resolution(p, g) # "fail"
             PROVE  Ready(p, g)
  BY DEF UsableIsReady
<1>1. g.access # None \/ g.refresh # None \/ p = "minimax_portal"
  BY AuthAssumption DEF Resolution, Refreshed, Fresh
<1>2. PICK o, e : g = Filled(o, e)
  BY DEF Gateway
<1>3. /\ g["access"] = g.access /\ g["refresh"] = g.refresh
  BY <1>2 DEF Filled
<1>4. QED
  BY <1>1, <1>3 DEF Ready

(***************************************************************************)
(* The profile file holds what clients were told it does, under one        *)
(* identifier each, and a provider that can be used is shown as ready.     *)
(***************************************************************************)
THEOREM ProfilesHold == Spec => []ProfilesInv
<1>1. TurnIInv => ProfilesInv
  BY UsableShown DEF TurnIInv, AuthIInv, ProfilesInv
<1>2. QED
  BY <1>1, InitTurn, NextTurn, PTL DEF Spec

(***************************************************************************)
(* A request made with a stored login carries a token of that login, and   *)
(* none that is past the expiry stored with it.                            *)
(***************************************************************************)
THEOREM LoginsAreUsedWhole == Spec => []LoginUsedWhole
<1>1. TurnIInv => LoginUsedWhole
  BY DEF TurnIInv
<1>2. QED
  BY <1>1, InitTurn, NextTurn, PTL DEF Spec
==============================================================================
