---------------------------- MODULE CloudAccess ----------------------------
(***************************************************************************)
(* How a call to a cloud's models gets its address, its model and its      *)
(* bearer: the settings a provider is resolved to from the owner's config  *)
(* and the environment, and the credential its adapter then obtains.  A    *)
(* turn makes one call at a time.  Nothing is kept from call to call, but  *)
(* the bearers of Bedrock Mantle, by region.                               *)
(*                                                                         *)
(* Settings are named for where they come from.                            *)
(***************************************************************************)
EXTENDS Naturals, Sequences

CONSTANTS
  Provider,     \* of "azure", "cloudflare", "sap_ai_core", "google_vertex",
                \* "amazon_bedrock", "amazon_bedrock_mantle" and "zai"
  Own, Env,     \* what the owner's config and the environment may hold
  Region,       \* AWS regions
  Supported,    \* those that have Bedrock Mantle
  Home,         \* the region when none is named
  None,
  TTL,          \* how long a bearer is kept,
  Lifetime,     \* how long it lives,
  Window,       \* and how long before its account expires it is dropped
  MaxTime,      \* bound: the clock
  MaxAccounts   \* bound: accounts the AWS chain yields

ASSUME CloudAccessAssumption ==
  /\ TTL \in Nat \ {0} /\ Lifetime \in Nat /\ Window \in Nat
  /\ TTL <= Lifetime
  /\ MaxTime \in Nat /\ MaxAccounts \in Nat \ {0}
  /\ Supported \subseteq Region
  /\ Provider \subseteq {"azure", "cloudflare", "sap_ai_core", "google_vertex", "amazon_bedrock",
                         "amazon_bedrock_mantle", "zai"}
  /\ \A o \in Own : /\ [host |-> "own", of |-> o.base] # None
                    /\ \A from \in {"key", "client"} : [from |-> from, of |-> o.key] # None

VARIABLES
  primary,   \* the provider in use
  own,       \* the owner's config of it
  env,       \* the environment of the process
  now,       \* the clock
  account,   \* the account the AWS chain yields
  replaced,  \* accounts -> when another took their place
  cache,     \* Region -> a bearer of Bedrock Mantle, or None
  call,      \* the call in progress
  used       \* the last request sent, or None

config == <<primary, own, env>>
aws    == <<account, replaced>>
vars   == <<config, now, aws, cache, call, used>>

-----------------------------------------------------------------------------
(* Settings *)

Or(a, b) == IF a # None THEN a ELSE b

Address(host, of) == [host |-> host, of |-> of]

OwnBase == IF own.base = None THEN None ELSE Address("own", own.base)

(* A deployment takes the place of the model unless the owner names one    *)
(* that is not the provider's default.                                     *)
ModelWith_Always(deployment) == Or(deployment, Or(own.model, "default"))

ModelWith(deployment) ==
  IF own.model \in {None, "default"} /\ deployment # None THEN deployment
  ELSE Or(own.model, "default")

Settings(base, key, model, place) ==
  [base |-> base, key |-> key, model |-> model, place |-> place]

Key == Or(own.key, env.key)

(* The address is put together from a resource or an account of the        *)
(* environment.                                                            *)
Hosted(deployment) ==
  Settings(Or(OwnBase, IF env.base = None THEN None ELSE Address("env", env.base)),
           Key, ModelWith(deployment), None)

IsServiceKey(key) == key \in {"own_service_key", "env_service_key"}

(* A service key is a key and the address of its deployments.              *)
SapSettings ==
  LET deployment == Or(own.place, env.place) IN
  IF Key # None /\ IsServiceKey(Key)
  THEN Settings(Or(OwnBase, IF deployment = None THEN None ELSE Address(Key, deployment)),
                None, ModelWith(deployment), Key)
  ELSE Settings(OwnBase, Key, ModelWith(None), None)

VertexSettings ==
  LET location == Or(Or(own.place, env.place), "global")
  IN Settings(Or(OwnBase, Address("vertex", location)), own.key, ModelWith(None), location)

BedrockSettings ==
  LET region == Or(Or(own.place, env.place), Home)
  IN Settings(Or(OwnBase, Address("bedrock", region)), Key, ModelWith(None), region)

MantleSettings ==
  Settings(Or(OwnBase, Address("mantle", Or(env.place, Home))),
           Key, ModelWith(None), Or(Or(own.place, env.place), Home))

(* The endpoints of Z.AI in the order in which they are tried, with the    *)
(* model they are tried with.                                              *)
Candidates ==
  << [endpoint |-> "global",        model |-> "default"],
     [endpoint |-> "cn",            model |-> "default"],
     [endpoint |-> "coding_global", model |-> "default"],
     [endpoint |-> "coding_global", model |-> "older"],
     [endpoint |-> "coding_cn",     model |-> "default"],
     [endpoint |-> "coding_cn",     model |-> "older"] >>

ZaiEndpoint == Or(own.place, env.place)

Detects == ZaiEndpoint = None /\ own.base = None /\ Key # None

ZaiSettings(found) ==
  LET endpoint == Or(ZaiEndpoint, IF found = None THEN "global" ELSE found.endpoint)
  IN Settings(Or(OwnBase, Address("zai", endpoint)), Key,
              ModelWith(IF found = None THEN None ELSE found.model), endpoint)

Resolved(found) ==
  CASE primary = "azure" -> Hosted(env.model)
    [] primary = "cloudflare" -> Hosted(None)
    [] primary = "sap_ai_core" -> SapSettings
    [] primary = "google_vertex" -> VertexSettings
    [] primary = "amazon_bedrock" -> BedrockSettings
    [] primary = "amazon_bedrock_mantle" -> MantleSettings
    [] primary = "zai" -> ZaiSettings(found)

-----------------------------------------------------------------------------
(* Calls *)

At(stage) == call.stage = stage

Stage(stage, settings, next, asked) ==
  [stage |-> stage, settings |-> settings, next |-> next, asked |-> asked]

Idle == Stage("idle", None, 1, 0)

Authorized(found) == Stage("authorize", Resolved(found), 1, 0)

(* Every call resolves its provider anew.                                  *)
Begin ==
  /\ At("idle")
  /\ call' = IF primary = "zai" /\ Detects THEN Stage("probe", None, 1, 0)
             ELSE Authorized(None)
  /\ used' = None
  /\ UNCHANGED <<config, now, aws, cache>>

(* An endpoint is tried: it takes the key, or refuses it and the next is   *)
(* tried, or it cannot be reached, which ends the detection.               *)
Probe ==
  /\ At("probe")
  /\ \/ call' = Authorized(Candidates[call.next])
     \/ call.next < Len(Candidates) /\ call' = [call EXCEPT !.next = @ + 1]
     \/ call' = Authorized(None)
  /\ UNCHANGED <<config, now, aws, cache, used>>

Bearer(from, of) == [from |-> from, of |-> of]

Signed(until) ==
  [from |-> "account", of |-> account.id, region |-> call.settings.place,
   minted |-> now, until |-> until]

Send(bearer, cached) ==
  /\ used' = [bearer |-> bearer, at |-> now, cached |-> cached,
              base |-> call.settings.base, model |-> call.settings.model]
  /\ call' = Idle

Fail == call' = Idle /\ UNCHANGED used

Reachable == call.settings.base # None

(* A key is used as it is, but for a service key that does not parse.      *)
UseKey ==
  /\ At("authorize") /\ Reachable
  /\ primary = "google_vertex" => env.base # None
  /\ call.settings.key # None
  /\ primary = "sap_ai_core" => call.settings.key # "broken_service_key"
  /\ Send(Bearer("key", call.settings.key), FALSE)
  /\ UNCHANGED <<config, now, aws, cache>>

(* Some go without a key, and let the provider refuse.                     *)
GoWithout ==
  /\ At("authorize") /\ Reachable
  /\ primary \in {"cloudflare", "zai"} /\ call.settings.key = None
  /\ Send(None, FALSE)
  /\ UNCHANGED <<config, now, aws, cache>>

CannotSend ==
  /\ At("authorize")
  /\ \/ ~Reachable
     \/ primary = "azure" /\ call.settings.key = None
     \/ primary = "sap_ai_core" /\ call.settings.key = "broken_service_key"
     \/ primary = "sap_ai_core" /\ call.settings.key = None /\ call.settings.place = None
     \/ primary = "google_vertex" /\ env.base = None
  /\ Fail
  /\ UNCHANGED <<config, now, aws, cache>>

(* SAP hands out a bearer for the client of a service key, or refuses.     *)
AskSap ==
  /\ At("authorize") /\ Reachable
  /\ primary = "sap_ai_core" /\ call.settings.key = None /\ call.settings.place # None
  /\ Send(Bearer("client", call.settings.place), FALSE) \/ Fail
  /\ UNCHANGED <<config, now, aws, cache>>

(* The credentials file of gcloud: a login of the owner is used, a file of *)
(* another kind, or none, leaves it to the machine.                        *)
AskGoogle ==
  /\ At("authorize")
  /\ primary = "google_vertex" /\ env.base # None /\ call.settings.key = None
  /\ \/ env.adc # "malformed"
        /\ Send(Bearer("google", IF env.adc = "login" THEN "owner" ELSE "machine"), FALSE)
     \/ Fail
  /\ UNCHANGED <<config, now, aws, cache>>

(* Keys in the environment say nothing of their expiry.                    *)
Told == IF env.awsKeys THEN None ELSE account.until

(* Bedrock has every request signed.                                       *)
SignRequest ==
  /\ At("authorize")
  /\ primary = "amazon_bedrock" /\ call.settings.key = None
  /\ Send(Signed(Told), FALSE) \/ Fail
  /\ UNCHANGED <<config, now, aws, cache>>

Live_Expired(entry) == entry # None /\ entry.expires >= now

Live(entry) == entry # None /\ entry.expires > now

AskMantle ==
  /\ At("authorize") /\ primary = "amazon_bedrock_mantle" /\ call.settings.key = None
  /\ LET entry == cache[call.settings.place] IN
       IF call.settings.place \notin Supported THEN Fail
       ELSE IF Live(entry) THEN Send(entry.bearer, TRUE)
       ELSE /\ call' = [call EXCEPT !.stage = "chain", !.asked = now]
            /\ UNCHANGED used
  /\ UNCHANGED <<config, now, aws, cache>>

Expiry_ByAccount(asked) == asked + TTL + IF Told = None THEN 0 ELSE Window

(* A bearer is kept from the time it was asked for.                        *)
Expiry(asked) ==
  LET kept == asked + TTL IN
  IF Told = None THEN kept
  ELSE LET safe == IF Told < Window THEN 0 ELSE Told - Window
       IN IF kept < safe THEN kept ELSE safe

Mint ==
  /\ At("chain")
  /\ Send(Signed(Told), FALSE)
  /\ cache' = [cache EXCEPT ![call.settings.place] =
                 [bearer |-> Signed(Told), expires |-> Expiry(call.asked)]]
  /\ UNCHANGED <<config, now, aws>>

(* The chain yields nothing.                                               *)
ChainFails ==
  /\ At("chain") /\ Fail
  /\ UNCHANGED <<config, now, aws, cache>>

-----------------------------------------------------------------------------
(* The world *)

Tick ==
  /\ now < MaxTime /\ now' = now + 1
  /\ UNCHANGED <<config, aws, cache, call, used>>

(* The chain yields another account, which may expire.                     *)
Rotate ==
  /\ account.id < MaxAccounts /\ ~env.awsKeys
  /\ \E until \in {None} \cup now..MaxTime : account' = [id |-> account.id + 1, until |-> until]
  /\ replaced' = [replaced EXCEPT ![account.id] = now]
  /\ UNCHANGED <<config, now, cache, call, used>>

Restart ==
  /\ cache' = [r \in Region |-> None]
  /\ call' = Idle
  /\ UNCHANGED <<config, now, aws, used>>

Init ==
  /\ primary \in Provider /\ own \in Own /\ env \in Env
  /\ now = 0
  /\ \E until \in {None} \cup 0..MaxTime : account = [id |-> 1, until |-> until]
  /\ replaced = [id \in 1..MaxAccounts |-> 0]
  /\ cache = [r \in Region |-> None]
  /\ call = Idle
  /\ used = None

Next ==
  \/ Begin \/ Probe \/ UseKey \/ GoWithout \/ CannotSend \/ AskSap \/ AskGoogle
  \/ SignRequest \/ AskMantle \/ Mint \/ ChainFails
  \/ Tick \/ Rotate \/ Restart

Spec == Init /\ [][Next]_vars

-----------------------------------------------------------------------------
(* Properties *)

Time == 0..MaxTime

Account == [id : 1..MaxAccounts, until : Time \cup {None}]

ByAccount(bearer) == bearer # None /\ bearer.from = "account"

Minted(bearer) ==
  /\ bearer.of \in 1..MaxAccounts
  /\ bearer.minted \in Time
  /\ bearer.until \in Time \cup {None}

TypeOK ==
  /\ primary \in Provider /\ own \in Own /\ env \in Env
  /\ now \in Time
  /\ account \in Account
  /\ replaced \in [1..MaxAccounts -> Time]
  /\ DOMAIN cache = Region
  /\ \A r \in Region : cache[r] # None => Minted(cache[r].bearer) /\ cache[r].expires \in Nat
  /\ call.stage \in {"idle", "probe", "authorize", "chain"} /\ call.asked \in Time
  /\ used # None => used.at \in Time /\ (ByAccount(used.bearer) => Minted(used.bearer))

(* A request signed for an AWS account carries a bearer that lives.  One   *)
(* that was kept also has Window left of an account that tells its expiry, *)
(* and the account it is of was the chain's at most TTL before.            *)
BearersAreGood ==
  used # None /\ ByAccount(used.bearer) =>
    LET b == used.bearer IN
    /\ used.at <= b.minted + Lifetime
    /\ used.cached => /\ used.at < b.minted + Lifetime
                      /\ b.until # None => used.at + Window < b.until
    /\ b.of # account.id => used.at < replaced[b.of] + TTL

(* The bearers sent, and the types.                                        *)
AccessInv == TypeOK /\ BearersAreGood

(* Whatever the environment holds and Z.AI's endpoints answer, the address *)
(* the owner names is used, or else the place, and so are the model and    *)
(* the key, for SAP with the address that came with it.  A model named by  *)
(* its default may give way to a deployment.                               *)
OwnerIsHeard ==
  used # None =>
    /\ own.base # None => used.base = OwnBase
    /\ own.place # None /\ used.base.host \in {"vertex", "bedrock", "zai"} =>
         used.base.of = own.place
    /\ own.model \notin {None, "default"} => used.model = own.model
    /\ own.key # None => used.bearer # None /\ used.bearer.of = own.key
    /\ used.bearer # None /\ used.bearer.from = "client" =>
         used.base.host \in {"own", used.bearer.of}

(* A bearer minted for a region is sent to the address of that region.     *)
MantleMeetsRegion ==
  used # None /\ used.base # None /\ used.base.host = "mantle" =>
    (ByAccount(used.bearer) => used.base.of = used.bearer.region)

=============================================================================
