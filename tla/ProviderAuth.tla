---------------------------- MODULE ProviderAuth ----------------------------
(***************************************************************************)
(* Provider credentials: the logins a client walks through, the profiles   *)
(* the server keeps in its auth profile file, and how the gateway of a     *)
(* model call picks a credential from the file and the environment and     *)
(* resolves it, refreshing it at the provider when it is past its expiry.  *)
(*                                                                         *)
(* The server keeps nothing of a login: the verifier and the state of a    *)
(* code login, the device code of a device login, are with the client.     *)
(* It keeps nothing of a refresh either, the profile stays as it was.      *)
(*                                                                         *)
(* A login is the position of its record in logins.  A token names where   *)
(* it comes from (a login, the environment, or the owner who pasted it)    *)
(* and its generation, which a refresh at the provider increases.          *)
(***************************************************************************)
EXTENDS Naturals, Sequences, FiniteSets, SequencesExt, FiniteSetsExt

CONSTANTS
    Provider,    \* of "openai_codex", "github_copilot", "gitlab", "minimax_portal"
    Env,         \* the providers whose login is in the server's environment
    Rotating,    \* the providers where a refresh token can be used once
    None,
    MaxLogins,   \* bound: logins started
    MaxPastes,   \* bound: profiles given by the owner
    MaxRefresh,  \* bound: refreshes of one login
    MaxFaults    \* bound: failed writes and ends of the process

ASSUME AuthAssumption ==
    /\ Provider \subseteq {"openai_codex", "github_copilot", "gitlab", "minimax_portal"}
    /\ Env \subseteq Provider
    /\ MaxLogins \in Nat /\ MaxRefresh \in Nat
    /\ None \notin [from : {"login", "pasted", "env"}, of : 0..MaxLogins, provider : Provider,
                    gen : 0..MaxRefresh]

VARIABLES
    torn,      \* the auth profile file cannot be parsed; its profiles are lost
    profiles,  \* the profiles in the file
    logins,    \* the logins as the providers see them
    issued,    \* the tokens the providers issued
    expired,   \* the issued tokens past their expiry
    answer,    \* the answer to the last request, when it was about a login or a profile
    faults     \* failed writes so far

authVars == <<torn, profiles, logins, issued, expired, answer, faults>>

CodeLogins == Provider \cap {"openai_codex", "gitlab"}

Token(from, of, p, gen) == [from |-> from, of |-> of, provider |-> p, gen |-> gen]

FromLogin(l) == Token("login", l, logins[l].provider, 0)

Pasted(p) == Token("pasted", 0, p, 0)

EnvToken(p) == IF p \in Env THEN Token("env", 0, p, 0) ELSE None

SameLogin(t, u) == [t EXCEPT !.gen = 0] = [u EXCEPT !.gen = 0]

Id(p, slot) == [provider |-> p, slot |-> slot]

\* An identifier "<provider>:backup" sorts before "<provider>:default".
Slots == {"backup", "default"}

(***************************************************************************)
(* Profiles.                                                               *)
(***************************************************************************)
Profile(id, kind, access, refresh, expires, mode) ==
    [id |-> id, kind |-> kind, access |-> access,
     refresh |-> refresh,   \* a refresh token came with the access token
     expires |-> expires,   \* an expiry came with the access token
     mode |-> mode]         \* gitlab.auth_mode

CodexProfile(id, t) == Profile(id, "oauth", t, TRUE, TRUE, None)

CopilotProfile(id, t) == Profile(id, "token", t, FALSE, FALSE, None)

GitlabProfile(id, t, refresh, expires) == Profile(id, "token", t, refresh, expires, "oauth")

PatProfile(id, t) == Profile(id, "token", t, FALSE, FALSE, "pat")

MinimaxProfile(id, t) == Profile(id, "token", t, TRUE, TRUE, None)

Upserted(pr) == {q \in profiles : q.id # pr.id} \cup {pr}

Answer(status, id, t) == [status |-> status, id |-> id, token |-> t]

NoAnswer == Answer("none", None, None)

Error == answer' = Answer("error", None, None)

(***************************************************************************)
(* Read, change and write the file.  A write may fail, before or after it  *)
(* truncated the file, or the process may end in it.                       *)
(***************************************************************************)
WriteFails ==
    /\ faults < MaxFaults /\ faults' = faults + 1
    /\ \/ UNCHANGED <<torn, profiles>>
       \/ torn' = TRUE /\ profiles' = {}
    /\ Error

WriteFails_Unnoticed(pr) ==
    /\ faults < MaxFaults /\ faults' = faults + 1
    /\ \/ UNCHANGED <<torn, profiles>>
       \/ torn' = TRUE /\ profiles' = {}
    /\ answer' = Answer("complete", pr.id, pr.access)

Upsert_Unnoticed(pr) ==
    \/ torn /\ Error /\ UNCHANGED <<torn, profiles, faults>>
    \/ /\ ~torn /\ profiles' = Upserted(pr)
       /\ answer' = Answer("complete", pr.id, pr.access)
       /\ UNCHANGED <<torn, faults>>
    \/ ~torn /\ WriteFails_Unnoticed(pr)

Upsert(pr) ==
    \/ torn /\ Error /\ UNCHANGED <<torn, profiles, faults>>
    \/ /\ ~torn /\ profiles' = Upserted(pr)
       /\ answer' = Answer("complete", pr.id, pr.access)
       /\ UNCHANGED <<torn, faults>>
    \/ ~torn /\ WriteFails

NotIssued == UNCHANGED <<logins, issued, expired>>

Refuse == NotIssued /\ Error /\ UNCHANGED <<torn, profiles, faults>>

(***************************************************************************)
(* The start of a login keeps nothing.  A login with a code is put         *)
(* together without the provider, but a GitLab instance must have a        *)
(* proper URL; a device login is opened by the provider, which may refuse, *)
(* and MiniMax has to return the state it was sent.                        *)
(***************************************************************************)
Opened(p) ==
    /\ Len(logins) < MaxLogins
    /\ logins' = Append(logins, [provider |-> p, stage |-> "open"])
    /\ answer' = Answer("started", None, None)
    /\ UNCHANGED <<torn, profiles, issued, expired, faults>>

StartCodex == Opened("openai_codex")

StartGitlab == Opened("gitlab") \/ Refuse

StartCopilot == Opened("github_copilot") \/ Refuse

StartMinimax == Opened("minimax_portal") \/ Refuse

StartLogin(p) ==
    \/ p = "openai_codex" /\ StartCodex
    \/ p = "gitlab" /\ StartGitlab
    \/ p = "github_copilot" /\ StartCopilot
    \/ p = "minimax_portal" /\ StartMinimax

(***************************************************************************)
(* The owner authorizes a login at the provider; it lapses unless it is    *)
(* used in time.                                                           *)
(***************************************************************************)
Authorize(l) ==
    /\ logins[l].stage = "open"
    /\ logins' = [logins EXCEPT ![l].stage = "authorized"]
    /\ UNCHANGED <<torn, profiles, issued, expired, answer, faults>>

Lapse(l) ==
    /\ logins[l].stage \in {"open", "authorized"}
    /\ logins' = [logins EXCEPT ![l].stage = "lapsed"]
    /\ UNCHANGED <<torn, profiles, issued, expired, answer, faults>>

(***************************************************************************)
(* The provider takes the code of an authorized login, once, and only with *)
(* the verifier of that login.                                             *)
(***************************************************************************)
Exchanges(l, verifier) == logins[l].stage = "authorized" /\ verifier = l

Consume(l) ==
    /\ logins' = [logins EXCEPT ![l].stage = "used"]
    /\ issued' = issued \cup {FromLogin(l)}
    /\ UNCHANGED expired

(***************************************************************************)
(* The state in the callback, which only a pasted URL carries, against the *)
(* one the client expects, which it may leave out.                         *)
(***************************************************************************)
StateMatches(l, form, expected) ==
    expected # None => form = "url" /\ expected = l

CompleteCodex(l, verifier, form, expected, id) ==
    /\ logins[l].provider = "openai_codex"
    /\ IF StateMatches(l, form, expected) /\ Exchanges(l, verifier)
       THEN Consume(l) /\ Upsert(CodexProfile(id, FromLogin(l)))
       ELSE Refuse

(***************************************************************************)
(* GitLab may leave out the refresh token and the expiry.                  *)
(***************************************************************************)
CompleteGitlab(l, verifier, id) ==
    /\ logins[l].provider = "gitlab"
    /\ IF Exchanges(l, verifier)
       THEN /\ Consume(l)
            /\ \E refresh, expires \in BOOLEAN :
                  Upsert(GitlabProfile(id, FromLogin(l), refresh, expires))
       ELSE Refuse

Pending(l) ==
    /\ NotIssued
    /\ answer' = Answer("pending", None, FromLogin(l))
    /\ UNCHANGED <<torn, profiles, faults>>

(***************************************************************************)
(* A device code that lapsed or was used is answered as if it were still   *)
(* open; other refusals are errors.                                        *)
(***************************************************************************)
PollCopilot(l, id) ==
    /\ logins[l].provider = "github_copilot"
    /\ \/ /\ logins[l].stage = "authorized"
          /\ Consume(l) /\ Upsert(CopilotProfile(id, FromLogin(l)))
       \/ logins[l].stage # "authorized" /\ (Pending(l) \/ Refuse)

(***************************************************************************)
(* MiniMax may answer an authorized login with an incomplete payload: the  *)
(* poll fails and the code is used.                                        *)
(***************************************************************************)
PollMinimax(l, id) ==
    /\ logins[l].provider = "minimax_portal"
    /\ \/ /\ logins[l].stage = "authorized"
          /\ Consume(l)
          /\ \/ Upsert(MinimaxProfile(id, FromLogin(l)))
             \/ Error /\ UNCHANGED <<torn, profiles, faults>>
       \/ logins[l].stage = "open" /\ Pending(l)
       \/ logins[l].stage \notin {"open", "authorized"} /\ (Pending(l) \/ Refuse)

(***************************************************************************)
(* What the owner gives: an API key (the form of the web client), a whole  *)
(* login, or a GitLab personal access token.                               *)
(***************************************************************************)
Pastes == Cardinality({q \in issued : q.from = "pasted"})

Given(p, id) ==
    {Profile(id, "api_key", Pasted(p), FALSE, FALSE, None),
     Profile(id, "oauth", Pasted(p), TRUE, TRUE, None)}
        \cup (IF p = "gitlab" THEN {PatProfile(id, Pasted(p))} ELSE {})

UpsertGiven(p, id) ==
    /\ Pastes < MaxPastes
    /\ issued' = issued \cup {Pasted(p)}
    /\ \E pr \in Given(p, id) : Upsert(pr)
    /\ UNCHANGED <<logins, expired>>

Delete(id) ==
    /\ \/ ~torn /\ profiles' = {q \in profiles : q.id # id} /\ profiles' # profiles
          /\ answer' = Answer("deleted", id, None)
          /\ UNCHANGED <<torn, faults>>
       \/ (torn \/ \A q \in profiles : q.id # id) /\ Error /\ UNCHANGED <<torn, profiles, faults>>
       \/ ~torn /\ (\E q \in profiles : q.id = id) /\ WriteFails
    /\ NotIssued

(***************************************************************************)
(* The process ends while it rewrites the file and is started again.       *)
(***************************************************************************)
Crash ==
    /\ faults < MaxFaults /\ faults' = faults + 1
    /\ torn' = TRUE /\ profiles' = {}
    /\ answer' = NoAnswer
    /\ UNCHANGED <<logins, issued, expired>>

Expire(t) ==
    /\ t \in issued \ expired
    /\ expired' = expired \cup {t}
    /\ UNCHANGED <<torn, profiles, logins, issued, answer, faults>>

(***************************************************************************)
(* The profile of a provider: "<provider>:default", or its least one.      *)
(***************************************************************************)
Stored(p) == {q \in profiles : q.id.provider = p}

DefaultProfile(p) ==
    IF Stored(p) = {} THEN None
    ELSE IF \E q \in Stored(p) : q.id.slot = "default"
         THEN CHOOSE q \in Stored(p) : q.id.slot = "default"
         ELSE CHOOSE q \in Stored(p) : TRUE

(***************************************************************************)
(* What the gateway takes from a profile.  A whole login given for GitLab  *)
(* or Codex keeps its refresh token; for the other providers it is filed   *)
(* where nothing reads it.                                                 *)
(***************************************************************************)
Unset == [access |-> None, refresh |-> None, expiry |-> None, mode |-> None]

Override(pr) ==
    LET whole == \/ pr.kind = "token" \/ pr.id.provider \in CodeLogins
        kept == pr.refresh /\ whole
    IN [access  |-> pr.access,
        refresh |-> IF kept THEN pr.access ELSE None,
        expiry  |-> IF pr.expires /\ whole THEN pr.access ELSE None,
        mode    |-> IF pr.kind = "oauth" /\ pr.id.provider = "gitlab" /\ kept THEN "oauth"
                    ELSE pr.mode]

(***************************************************************************)
(* The environment fills what the profile left unset, each part by itself. *)
(***************************************************************************)
Or(a, b) == IF a # None THEN a ELSE b

EnvLogin(p) ==
    LET t == EnvToken(p) IN
    IF p \in {"openai_codex", "minimax_portal"}
    THEN [access |-> t, refresh |-> t, expiry |-> t, mode |-> None]
    ELSE [access |-> t, refresh |-> None, expiry |-> None, mode |-> None]

Filled_EnvFirst(o, e) ==
    [access |-> Or(o.access, e.access), refresh |-> Or(e.refresh, o.refresh),
     expiry |-> Or(e.expiry, o.expiry), mode |-> o.mode]

Filled(o, e) ==
    [access |-> Or(o.access, e.access), refresh |-> Or(o.refresh, e.refresh),
     expiry |-> Or(o.expiry, e.expiry), mode |-> o.mode]

Gateway(p) ==
    LET pr == DefaultProfile(p)
    IN Filled(IF pr = None THEN Unset ELSE Override(pr), EnvLogin(p))

(***************************************************************************)
(* How the adapters resolve a credential: "use" the access token as it is, *)
(* "refresh" it, or "fail" before anything is sent.                        *)
(***************************************************************************)
Fresh(g) == g.access # None /\ g.expiry # None /\ g.expiry \notin expired

Refreshed(g) == IF Fresh(g) THEN "use" ELSE IF g.refresh # None THEN "refresh" ELSE "fail"

Resolution(p, g) ==
    CASE p = "openai_codex" -> IF g.refresh = None THEN "fail" ELSE Refreshed(g)
      [] p = "minimax_portal" -> Refreshed(g)
      [] p = "gitlab" /\ g.access # None /\ g.mode = "oauth" -> Refreshed(g)
      [] OTHER -> IF g.access = None THEN "fail" ELSE "use"

(***************************************************************************)
(* The status clients ask for before a turn: a provider is ready when its  *)
(* gateway has a credential or any setting at all, and the login of        *)
(* MiniMax always has the setting of its region.                           *)
(***************************************************************************)
Ready(p, g) ==
    \/ \E part \in {"access", "refresh", "expiry", "mode"} : g[part] # None
    \/ p = "minimax_portal"

Latest(t) == Max({u.gen : u \in {v \in issued : SameLogin(v, t)}})

RefreshAccepted(t) == t.provider \in Rotating => t.gen = Latest(t)

NextToken(t) == [t EXCEPT !.gen = Latest(t) + 1]

-----------------------------------------------------------------------------
AuthInit ==
    /\ torn = FALSE /\ profiles = {} /\ logins = <<>>
    /\ issued = {EnvToken(p) : p \in Env}
    /\ expired = {}
    /\ answer = NoAnswer
    /\ faults = 0

Complete(l, id) ==
    \/ \E verifier \in DOMAIN logins, form \in {"url", "code"},
          expected \in DOMAIN logins \cup {None} : CompleteCodex(l, verifier, form, expected, id)
    \/ \E verifier \in DOMAIN logins \cup {None} : CompleteGitlab(l, verifier, id)
    \/ PollCopilot(l, id)
    \/ PollMinimax(l, id)

(* A request to the server about logins and profiles of the providers asked about. *)
AuthRequest(asked) ==
    \/ \E p \in asked : StartLogin(p)
    \/ \E l \in DOMAIN logins, slot \in Slots : Complete(l, Id(logins[l].provider, slot))
    \/ \E p \in asked, slot \in Slots : UpsertGiven(p, Id(p, slot)) \/ Delete(Id(p, slot))
    \/ Crash

(* What happens at the providers asked about and with time. *)
AuthWorld(asked) ==
    \/ \E l \in DOMAIN logins : Authorize(l) \/ Lapse(l)
    \/ \E t \in issued : t.provider \in asked /\ Expire(t)

-----------------------------------------------------------------------------
(***************************************************************************)
(* The file and the answers are well formed.                               *)
(***************************************************************************)
AuthTypeOK ==
    /\ torn \in BOOLEAN
    /\ \A q \in profiles : q.id.provider \in Provider /\ q.access \in issued
    /\ \A l \in DOMAIN logins : logins[l].stage \in {"open", "authorized", "used", "lapsed"}
    /\ expired \subseteq issued
    /\ faults \in 0..MaxFaults

(***************************************************************************)
(* A client is told that a login is complete only when the profile of that *)
(* login is in the file.                                                   *)
(***************************************************************************)
CompleteIsStored ==
    answer.status = "complete" =>
        ~torn /\ \E q \in profiles : q.id = answer.id /\ q.access = answer.token

(***************************************************************************)
(* A profile identifier names one profile.                                 *)
(***************************************************************************)
IdsAreUnique == \A q, r \in profiles : q.id = r.id => q = r

(***************************************************************************)
(* A provider whose credential would be resolved is shown as ready.  Some  *)
(* that are shown as ready cannot be used.                                 *)
(***************************************************************************)
UsableIsReady ==
    \A p \in Provider : Resolution(p, Gateway(p)) # "fail" => Ready(p, Gateway(p))

(***************************************************************************)
(* A provider shown as ready has a credential that can be resolved.  The   *)
(* code counts any setting as a credential.                                *)
(***************************************************************************)
ReadyIsUsable ==
    \A p \in Provider : Ready(p, Gateway(p)) => Resolution(p, Gateway(p)) # "fail"

(***************************************************************************)
(* A login whose refresh token the server keeps can be refreshed with it,  *)
(* as long as nothing but the server used it.  The code drops the refresh  *)
(* token that comes with a refreshed access token.                         *)
(***************************************************************************)
LoginsStayUsable == \A q \in profiles : q.refresh => RefreshAccepted(q.access)
=============================================================================
