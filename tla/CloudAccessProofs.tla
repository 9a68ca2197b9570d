------------------------- MODULE CloudAccessProofs -------------------------
(***************************************************************************)
(* Proofs about CloudAccess: what the bearers signed for an AWS account    *)
(* are good for, for any regions, accounts, configs and environments, and  *)
(* any lifetimes of which the kept one is no longer than the bearer's.     *)
(***************************************************************************)
EXTENDS CloudAccess, TLAPS

(* What is known of a bearer at a time, from when it was minted to now.    *)
SignedBefore(bearer, at) ==
  /\ Minted(bearer)
  /\ bearer.minted <= at
  /\ bearer.of <= account.id

(* A kept bearer is dropped TTL after it was minted, and so TTL after its  *)
(* account was replaced, and Window before its account expires.            *)
Kept(entry) ==
  /\ SignedBefore(entry.bearer, now)
  /\ entry.expires \in Nat
  /\ entry.expires <= entry.bearer.minted + TTL
  /\ entry.bearer.until # None =>
       entry.expires = 0 \/ entry.expires + Window <= entry.bearer.until
  /\ entry.bearer.of # account.id => entry.expires <= replaced[entry.bearer.of] + TTL

CacheIsKept == \A r \in Region : cache[r] # None => Kept(cache[r])

CallIsSound ==
  /\ call.asked <= now
  /\ At("chain") => call.settings.place \in Region

UsedBefore ==
  used # None => used.at <= now /\ (ByAccount(used.bearer) => SignedBefore(used.bearer, used.at))

(* What a request that is sent has to have for all of this.               *)
SentWell ==
  used # None =>
    /\ used.at \in Time /\ used.at <= now /\ BearersAreGood
    /\ ByAccount(used.bearer) => SignedBefore(used.bearer, used.at)

AccessIInv == TypeOK /\ BearersAreGood /\ CacheIsKept /\ CallIsSound /\ UsedBefore

-----------------------------------------------------------------------------
LEMMA InitAccess == Init => AccessIInv
BY CloudAccessAssumption
DEF Init, AccessIInv, TypeOK, BearersAreGood, CacheIsKept, CallIsSound, UsedBefore, Time, Account,
    Idle, Stage, At

(* The expiry a bearer is kept with.                                       *)
LEMMA ExpiryBounds ==
  ASSUME TypeOK, call.asked <= now
  PROVE  /\ Expiry(call.asked) \in Nat
         /\ Expiry(call.asked) <= now + TTL
         /\ Told # None => Expiry(call.asked) = 0 \/ Expiry(call.asked) + Window <= Told
<1>1. call.asked \in Nat /\ now \in Nat /\ TTL \in Nat /\ Window \in Nat
  BY CloudAccessAssumption DEF TypeOK, Time
<1>2. Told = None \/ Told \in Nat
  BY CloudAccessAssumption DEF TypeOK, Time, Told, Account
<1>3. QED
  BY <1>1, <1>2 DEF Expiry

(* What is sent for an account is one that was just signed, or one that    *)
(* was kept.                                                               *)
LEMMA SendsSigned ==
  ASSUME AccessIInv, Send(Signed(Told), FALSE), UNCHANGED <<now, aws>>
  PROVE  SentWell'
<1>1. PICK b : b = Signed(Told)
  OBVIOUS
<1>2. used' = [bearer |-> b, at |-> now, cached |-> FALSE,
               base |-> call.settings.base, model |-> call.settings.model]
  BY <1>1 DEF Send
<1>3. now \in Time /\ now \in Nat /\ account.id \in 1..MaxAccounts /\ account.id \in Nat
  BY CloudAccessAssumption DEF AccessIInv, TypeOK, Account, Time
<1>4. Told \in Time \cup {None}
  BY DEF AccessIInv, TypeOK, Account, Told
<1>5. b.of = account.id /\ b.minted = now /\ b.until = Told
  BY <1>1 DEF Signed
<1>6. Minted(b)
  BY <1>3, <1>4, <1>5 DEF Minted
<1>7. now' = now /\ account' = account /\ replaced' = replaced
  BY DEF aws
<1>8. used'.at = now /\ used'.bearer = b /\ ~used'.cached
  BY <1>2
<1>9. BearersAreGood'
  BY <1>3, <1>5, <1>7, <1>8, CloudAccessAssumption DEF BearersAreGood
<1>10. used'.at \in Time /\ used'.at <= now' /\ Minted(used'.bearer)
       /\ used'.bearer.minted <= used'.at /\ used'.bearer.of <= account'.id
  BY <1>3, <1>5, <1>6, <1>7, <1>8
<1>11. QED
  BY <1>9, <1>10 DEF SentWell, SignedBefore, Minted

LEMMA SendsKept ==
  ASSUME AccessIInv, NEW r \in Region, Live(cache[r]), Send(cache[r].bearer, TRUE),
         UNCHANGED <<now, aws>>
  PROVE  SentWell'
<1>1. used' = [bearer |-> cache[r].bearer, at |-> now, cached |-> TRUE,
               base |-> call.settings.base, model |-> call.settings.model]
  BY DEF Send
<1>2. now \in Time /\ now \in Nat
  BY CloudAccessAssumption DEF AccessIInv, TypeOK, Time
<1>3. Kept(cache[r]) /\ cache[r].expires > now
  BY DEF AccessIInv, CacheIsKept, Live
<1>4. Minted(cache[r].bearer) /\ SignedBefore(cache[r].bearer, now)
  BY <1>3 DEF Kept, SignedBefore
<1>5. BearersAreGood'
  <2> DEFINE b == cache[r].bearer
  <2>1. b.minted \in Nat /\ (b.until # None => b.until \in Nat) /\ b.of \in 1..MaxAccounts
    BY <1>4, CloudAccessAssumption DEF Minted, Time
  <2>2. b.of # account.id => replaced[b.of] \in Nat
    BY <2>1 DEF AccessIInv, TypeOK, Time
  <2>3. /\ now < b.minted + Lifetime
        /\ b.until # None => now + Window < b.until
        /\ b.of # account.id => now < replaced[b.of] + TTL
    BY <1>2, <1>3, <2>1, <2>2, CloudAccessAssumption DEF Kept
  <2>4. QED
    BY <1>1, <1>2, <2>1, <2>3, CloudAccessAssumption DEF BearersAreGood, aws
<1>6. used'.at = now /\ used'.bearer = cache[r].bearer
  BY <1>1
<1>7. QED
  BY <1>2, <1>4, <1>5, <1>6 DEF SentWell, SignedBefore, Minted, aws

(* What is sent without an account is of no concern here.                  *)
LEMMA SendsOther ==
  ASSUME AccessIInv, NEW bearer, Send(bearer, FALSE), ~ByAccount(bearer), UNCHANGED <<now, aws>>
  PROVE  SentWell'
BY CloudAccessAssumption DEF AccessIInv, TypeOK, Send, BearersAreGood, Time, ByAccount, SentWell

(* The call is over and nothing else than the request is new.              *)
LEMMA CallEnds ==
  ASSUME AccessIInv, UNCHANGED <<config, now, aws, cache>>, call' = Idle,
         SentWell'
  PROVE  AccessIInv'
<1>1. call'.stage = "idle" /\ call'.asked = 0 /\ 0 \in Time /\ now \in Nat
  BY CloudAccessAssumption DEF Idle, Stage, Time, AccessIInv, TypeOK
<1>2. TypeOK'
  BY <1>1 DEF AccessIInv, TypeOK, SentWell, SignedBefore, config, aws
<1>3. CacheIsKept'
  BY DEF AccessIInv, CacheIsKept, Kept, SignedBefore, aws
<1>4. CallIsSound' /\ UsedBefore' /\ BearersAreGood'
  BY <1>1 DEF CallIsSound, UsedBefore, BearersAreGood, SentWell, At
<1>5. QED
  BY <1>2, <1>3, <1>4 DEF AccessIInv

(* Only the call goes on.                                                  *)
LEMMA CallGoesOn ==
  ASSUME AccessIInv, UNCHANGED <<config, now, aws, cache>>, used' \in {None, used},
         call'.stage \in {"idle", "probe", "authorize", "chain"},
         call'.asked \in Time, call'.asked <= now,
         call'.stage = "chain" => call'.settings.place \in Region
  PROVE  AccessIInv'
<1>1. TypeOK'
  BY DEF AccessIInv, TypeOK, config, aws
<1>2. CacheIsKept'
  BY DEF AccessIInv, CacheIsKept, Kept, SignedBefore, aws
<1>3. CallIsSound'
  BY DEF CallIsSound, At
<1>4. UsedBefore' /\ BearersAreGood'
  BY DEF AccessIInv, UsedBefore, BearersAreGood, SignedBefore, aws
<1>5. QED
  BY <1>1, <1>2, <1>3, <1>4 DEF AccessIInv

-----------------------------------------------------------------------------
LEMMA MintKeeps == AccessIInv /\ Mint => AccessIInv'
<1> SUFFICES ASSUME AccessIInv, Mint PROVE AccessIInv'
  OBVIOUS
<1>1. PICK place, b, expires :
        place = call.settings.place /\ b = Signed(Told) /\ expires = Expiry(call.asked)
  OBVIOUS
<1>2. Send(Signed(Told), FALSE) /\ UNCHANGED <<config, now, aws>>
  BY DEF Mint
<1>3. SentWell'
  BY <1>2, SendsSigned
<1>4. now \in Time /\ now \in Nat /\ account.id \in 1..MaxAccounts /\ account.id \in Nat
  BY CloudAccessAssumption DEF AccessIInv, TypeOK, Account, Time
<1>5. Told \in Time \cup {None}
  BY DEF AccessIInv, TypeOK, Account, Told
<1>6. b.of = account.id /\ b.minted = now /\ b.until = Told
  BY <1>1 DEF Signed
<1>7. Minted(b) /\ expires \in Nat
  BY <1>1, <1>4, <1>5, <1>6, ExpiryBounds DEF Minted, AccessIInv, CallIsSound
<1>8. /\ expires <= now + TTL
      /\ Told # None => expires = 0 \/ expires + Window <= Told
  BY <1>1, ExpiryBounds DEF AccessIInv, CallIsSound
<1>9. /\ place \in Region
      /\ cache'[place] = [bearer |-> b, expires |-> expires]
      /\ \A r \in Region \ {place} : cache'[r] = cache[r]
      /\ DOMAIN cache' = Region
  BY <1>1 DEF Mint, AccessIInv, CallIsSound, TypeOK
<1>10. cache'[place].bearer = b /\ cache'[place].expires = expires
  BY <1>9
<1>11. CacheIsKept'
  <2> SUFFICES ASSUME NEW r \in Region, cache'[r] # None PROVE Kept(cache[r])'
    BY DEF CacheIsKept
  <2>1. CASE r = place
    BY <1>2, <1>4, <1>6, <1>7, <1>8, <1>10, <2>1 DEF Kept, SignedBefore, Minted, aws
  <2>2. CASE r # place
    BY <1>2, <1>9, <2>2 DEF AccessIInv, CacheIsKept, Kept, SignedBefore, aws
  <2>3. QED
    BY <2>1, <2>2
<1>12. call'.stage = "idle" /\ call'.asked = 0 /\ 0 \in Time
  BY <1>2, CloudAccessAssumption DEF Send, Idle, Stage, Time
<1>13. TypeOK'
  BY <1>2, <1>3, <1>7, <1>9, <1>10, <1>12
  DEF AccessIInv, TypeOK, SentWell, SignedBefore, Minted, config, aws
<1>14. CallIsSound' /\ UsedBefore' /\ BearersAreGood'
  BY <1>2, <1>3, <1>4, <1>12 DEF CallIsSound, UsedBefore, BearersAreGood, SentWell, At
<1>15. QED
  BY <1>11, <1>13, <1>14 DEF AccessIInv

(* Time passes.                                                            *)
LEMMA TickKeeps == AccessIInv /\ Tick => AccessIInv'
<1> SUFFICES ASSUME AccessIInv, Tick PROVE AccessIInv'
  OBVIOUS
<1>1. now \in Nat /\ now' = now + 1 /\ now' \in Time
  BY CloudAccessAssumption DEF Tick, AccessIInv, TypeOK, Time
<1>2. TypeOK'
  BY <1>1 DEF Tick, AccessIInv, TypeOK, config, aws
<1>3. CacheIsKept'
  BY <1>1, CloudAccessAssumption
  DEF Tick, AccessIInv, CacheIsKept, Kept, SignedBefore, Minted, Time, aws
<1>4. CallIsSound' /\ UsedBefore' /\ BearersAreGood'
  BY <1>1, CloudAccessAssumption
  DEF Tick, AccessIInv, TypeOK, CallIsSound, UsedBefore, BearersAreGood, SignedBefore, Time, At, aws
<1>5. QED
  BY <1>2, <1>3, <1>4 DEF AccessIInv

(* The account a bearer is of is replaced after the bearer was minted.     *)
LEMMA RotateKeeps == AccessIInv /\ Rotate => AccessIInv'
<1> SUFFICES ASSUME AccessIInv, Rotate PROVE AccessIInv'
  OBVIOUS
<1>1. /\ now \in Nat /\ now \in Time /\ account.id \in 1..MaxAccounts /\ account.id < MaxAccounts
      /\ account'.id = account.id + 1 /\ account' \in Account
      /\ replaced' = [replaced EXCEPT ![account.id] = now]
      /\ UNCHANGED <<config, now, cache, call, used>>
  BY CloudAccessAssumption DEF Rotate, AccessIInv, TypeOK, Account, Time
<1>2. \A id \in 1..MaxAccounts : replaced[id] \in Nat
  BY DEF AccessIInv, TypeOK, Time
<1>3. /\ replaced'[account.id] = now
      /\ \A id \in 1..MaxAccounts : id # account.id => replaced'[id] = replaced[id]
  BY <1>1 DEF AccessIInv, TypeOK
<1>4. TypeOK'
  BY <1>1 DEF AccessIInv, TypeOK, config
<1>5. CacheIsKept'
  <2> SUFFICES ASSUME NEW r \in Region, cache[r] # None PROVE Kept(cache[r])'
    BY <1>1 DEF CacheIsKept
  <2> DEFINE b == cache[r].bearer
  <2>1. Kept(cache[r]) /\ b.of \in 1..MaxAccounts /\ b.minted \in Nat /\ cache[r].expires \in Nat
    BY DEF AccessIInv, CacheIsKept, Kept, SignedBefore, Minted, Time
  <2>2. b.of <= account'.id
    BY <1>1, <2>1 DEF Kept, SignedBefore
  <2>3. cache[r].expires <= replaced'[b.of] + TTL
    BY <1>1, <1>2, <1>3, <2>1, CloudAccessAssumption DEF Kept, SignedBefore
  <2>4. QED
    BY <1>1, <2>1, <2>2, <2>3 DEF Kept, SignedBefore
<1>6. UsedBefore'
  BY <1>1 DEF AccessIInv, UsedBefore, SignedBefore, Minted
<1>7. BearersAreGood'
  <2> SUFFICES ASSUME used # None, ByAccount(used.bearer), used.bearer.of # account'.id
               PROVE  used.at < replaced'[used.bearer.of] + TTL
    BY <1>1 DEF AccessIInv, BearersAreGood
  <2>1. used.at \in Nat /\ used.at <= now /\ used.bearer.of \in 1..MaxAccounts
    BY DEF AccessIInv, UsedBefore, SignedBefore, Minted, TypeOK, Time
  <2>2. QED
    BY <1>1, <1>2, <1>3, <2>1, CloudAccessAssumption DEF AccessIInv, BearersAreGood
<1>8. QED
  BY <1>1, <1>4, <1>5, <1>6, <1>7 DEF AccessIInv, CallIsSound, At

LEMMA NextAccess == AccessIInv /\ [Next]_vars => AccessIInv'
<1> SUFFICES ASSUME AccessIInv, [Next]_vars PROVE AccessIInv'
  OBVIOUS
<1>1. now \in Nat /\ now \in Time /\ 0 \in Time /\ call.asked \in Time /\ call.asked <= now
  BY CloudAccessAssumption DEF AccessIInv, TypeOK, CallIsSound, Time
<1>2. CASE Begin
  <2>1. call'.stage \in {"probe", "authorize"} /\ call'.asked = 0
    BY <1>2 DEF Begin, Stage, Authorized
  <2>2. QED
    BY <1>1, <1>2, <2>1, CallGoesOn DEF Begin
<1>3. CASE Probe
  <2>1. call'.stage \in {"probe", "authorize"} /\ (call'.asked = 0 \/ call'.asked = call.asked)
    <3>1. CASE call' = [call EXCEPT !.next = @ + 1]
      BY <1>3, <3>1 DEF Probe, At
    <3>2. CASE call' # [call EXCEPT !.next = @ + 1]
      BY <1>3, <3>2 DEF Probe, Stage, Authorized
    <3>3. QED
      BY <3>1, <3>2
  <2>2. QED
    BY <1>1, <1>3, <2>1, CallGoesOn DEF Probe
<1>4. CASE UseKey
  <2>1. PICK bearer : bearer = Bearer("key", call.settings.key)
    OBVIOUS
  <2>2. ~ByAccount(bearer)
    BY <2>1 DEF Bearer, ByAccount
  <2>3. Send(bearer, FALSE) /\ UNCHANGED <<config, now, aws, cache>>
    BY <1>4, <2>1 DEF UseKey
  <2>4. SentWell'
    BY <2>2, <2>3, SendsOther
  <2>5. QED
    BY <2>3, <2>4, CallEnds DEF Send
<1>5. CASE GoWithout
  BY <1>5, SendsOther, CallEnds DEF GoWithout, ByAccount, Send
<1>6. ASSUME Fail, UNCHANGED <<config, now, aws, cache>> PROVE AccessIInv'
  BY <1>1, <1>6, CallGoesOn DEF Fail, Idle, Stage
<1>7. CASE CannotSend
  BY <1>6, <1>7 DEF CannotSend
<1>8. CASE AskSap
  BY <1>6, <1>8, SendsOther, CallEnds DEF AskSap, Bearer, ByAccount, Send
<1>9. CASE AskGoogle
  BY <1>6, <1>9, SendsOther, CallEnds DEF AskGoogle, Bearer, ByAccount, Send
<1>10. CASE SignRequest
  BY <1>6, <1>10, SendsSigned, CallEnds DEF SignRequest, Send
<1>11. CASE AskMantle
  <2> DEFINE place == call.settings.place
  <2>1. CASE Fail
    BY <1>6, <1>11, <2>1 DEF AskMantle
  <2>2. CASE place \in Supported /\ Live(cache[place]) /\ Send(cache[place].bearer, TRUE)
    BY <1>11, <2>2, SendsKept, CallEnds, CloudAccessAssumption DEF AskMantle, Send
  <2>3. CASE /\ place \in Supported
             /\ call' = [call EXCEPT !.stage = "chain", !.asked = now] /\ UNCHANGED used
    BY <1>1, <1>11, <2>3, CallGoesOn, CloudAccessAssumption DEF AskMantle
  <2>4. QED
    BY <1>11, <2>1, <2>2, <2>3 DEF AskMantle
<1>12. CASE ChainFails
  BY <1>6, <1>12 DEF ChainFails
<1>13. CASE Restart
  <2>1. CacheIsKept' /\ TypeOK' /\ CallIsSound'
    BY <1>1, <1>13
    DEF Restart, AccessIInv, CacheIsKept, TypeOK, CallIsSound, Idle, Stage, At, config, aws
  <2>2. UsedBefore' /\ BearersAreGood'
    BY <1>13 DEF Restart, AccessIInv, UsedBefore, BearersAreGood, SignedBefore, aws
  <2>3. QED
    BY <2>1, <2>2 DEF AccessIInv
<1>14. CASE UNCHANGED vars
  BY <1>14
  DEF vars, config, aws, AccessIInv, TypeOK, CacheIsKept, Kept, SignedBefore, CallIsSound,
      UsedBefore, BearersAreGood, At
<1>15. QED
  BY <1>2, <1>3, <1>4, <1>5, <1>7, <1>8, <1>9, <1>10, <1>11, <1>12, <1>13, <1>14,
     MintKeeps, TickKeeps, RotateKeeps DEF Next

(* A request signed for an AWS account carries a bearer that lives, and    *)
(* one that was kept is dropped before its account expires and at most TTL *)
(* after another account took the place of its own.                        *)
THEOREM BearersCorrect == Spec => []AccessInv
<1>1. AccessIInv => AccessInv
  BY DEF AccessIInv, AccessInv
<1>2. QED
  BY <1>1, InitAccess, NextAccess, PTL DEF Spec

-----------------------------------------------------------------------------
(* What the owner names is heard.  Settings are resolved once in a call,   *)
(* and what is sent is of them.                                            *)

(* What the settings of a call take from the owner's config.  The clouds   *)
(* whose calls are signed, or made for a login, always have an address.    *)
HasAddress == primary \in {"google_vertex", "amazon_bedrock", "amazon_bedrock_mantle"}

Heard(settings) ==
  /\ own.base # None => settings.base = OwnBase
  /\ own.place # None /\ (settings.base # None \/ HasAddress)
     /\ settings.base.host \in {"vertex", "bedrock", "zai"} => settings.base.of = own.place
  /\ own.model \notin {None, "default"} => settings.model = own.model
  /\ own.key # None =>
       \/ settings.key = own.key
       \/ primary = "sap_ai_core" /\ settings.key = None /\ settings.place = own.key
  /\ primary = "sap_ai_core" /\ settings.key = None /\ settings.place # None /\ settings.base # None =>
       settings.base.host \in {"own", settings.place}

(* The bearers that are kept were signed.                                  *)
KeptAreSigned == \A r \in Region : cache[r] # None => cache[r].bearer.from = "account"

HeardIInv ==
  /\ primary \in Provider /\ own \in Own
  /\ call.stage \in {"authorize", "chain"} => Heard(call.settings)
  /\ call.stage = "chain" =>
       primary = "amazon_bedrock_mantle" /\ call.settings.key = None
       /\ call.settings.place \in Supported
  /\ DOMAIN cache = Region
  /\ KeptAreSigned
  /\ OwnerIsHeard

(* The address the owner names comes before any other.                     *)
LEMMA OwnBaseFirst ==
  ASSUME own \in Own, NEW other
  PROVE  /\ own.base # None => Or(OwnBase, other) = OwnBase /\ OwnBase.host = "own"
         /\ own.base = None => Or(OwnBase, other) = other
<1>1. own.base # None => OwnBase = [host |-> "own", of |-> own.base] /\ OwnBase # None
  BY CloudAccessAssumption DEF OwnBase, Address
<1>2. own.base = None => OwnBase = None
  BY DEF OwnBase
<1>3. QED
  BY <1>1, <1>2 DEF Or

LEMMA ModelFirst ==
  ASSUME NEW deployment, own.model \notin {None, "default"}
  PROVE  ModelWith(deployment) = own.model
BY DEF ModelWith, Or

LEMMA KeyFirst == own.key # None => Key = own.key
BY DEF Key, Or

LEMMA PlaceFirst ==
  ASSUME NEW p, NEW otherwise, own.place # None
  PROVE  Or(own.place, p) = own.place /\ Or(Or(own.place, p), otherwise) = own.place
BY DEF Or

(* The settings of every provider hear the owner.                          *)
LEMMA ResolvedHears ==
  ASSUME primary \in Provider, own \in Own, NEW found
  PROVE  Heard(Resolved(found))
<1>1. CASE primary \in {"azure", "cloudflare"}
  <2>1. PICK deployment : Resolved(found) = Hosted(deployment)
    BY <1>1 DEF Resolved
  <2>2. PICK other : other = IF env.base = None THEN None ELSE Address("env", env.base)
    OBVIOUS
  <2>3. Resolved(found) = Settings(Or(OwnBase, other), Key, ModelWith(deployment), None)
    BY <2>1, <2>2 DEF Hosted
  <2>4. other # None => other.host = "env"
    BY <2>2 DEF Address
  <2>5. QED
    BY <1>1, <2>3, <2>4, OwnBaseFirst, ModelFirst, KeyFirst DEF Heard, HasAddress, Settings
<1>2. CASE primary = "sap_ai_core"
  <2>1. Resolved(found) = SapSettings
    BY <1>2 DEF Resolved
  <2>2. PICK deployment : deployment = Or(own.place, env.place)
    OBVIOUS
  <2>3. CASE Key # None /\ IsServiceKey(Key)
    <3>1. PICK other : other = IF deployment = None THEN None ELSE Address(Key, deployment)
      OBVIOUS
    <3>2. Resolved(found) = Settings(Or(OwnBase, other), None, ModelWith(deployment), Key)
      BY <2>1, <2>2, <2>3, <3>1 DEF SapSettings
    <3>3. other # None => other.host = Key
      BY <3>1 DEF Address
    <3>4. Key \in {"own_service_key", "env_service_key"}
      BY <2>3 DEF IsServiceKey
    <3>5. QED
      BY <1>2, <3>2, <3>3, <3>4, OwnBaseFirst, ModelFirst, KeyFirst DEF Heard, HasAddress, Settings
  <2>4. CASE ~(Key # None /\ IsServiceKey(Key))
    <3>1. Resolved(found) = Settings(OwnBase, Key, ModelWith(None), None)
      BY <2>1, <2>4 DEF SapSettings
    <3>2. OwnBase # None => OwnBase.host = "own"
      BY DEF OwnBase, Address
    <3>3. QED
      BY <1>2, <3>1, <3>2, ModelFirst, KeyFirst DEF Heard, HasAddress, Settings
  <2>5. QED
    BY <2>3, <2>4
<1>3. CASE primary = "google_vertex"
  <2>1. PICK place : place = Or(Or(own.place, env.place), "global")
    OBVIOUS
  <2>2. Resolved(found) =
          Settings(Or(OwnBase, Address("vertex", place)), own.key, ModelWith(None), place)
    BY <1>3, <2>1 DEF Resolved, VertexSettings
  <2>3. own.place # None => place = own.place
    BY <2>1, PlaceFirst
  <2>4. PICK other : other = Address("vertex", place)
    OBVIOUS
  <2>5. other.of = place
    BY <2>4 DEF Address
  <2>6. QED
    BY <1>3, <2>2, <2>3, <2>4, <2>5, OwnBaseFirst, ModelFirst DEF Heard, Settings
<1>4. CASE primary = "amazon_bedrock"
  <2>1. PICK place : place = Or(Or(own.place, env.place), Home)
    OBVIOUS
  <2>2. Resolved(found) =
          Settings(Or(OwnBase, Address("bedrock", place)), Key, ModelWith(None), place)
    BY <1>4, <2>1 DEF Resolved, BedrockSettings
  <2>3. own.place # None => place = own.place
    BY <2>1, PlaceFirst
  <2>4. PICK other : other = Address("bedrock", place)
    OBVIOUS
  <2>5. other.of = place
    BY <2>4 DEF Address
  <2>6. QED
    BY <1>4, <2>2, <2>3, <2>4, <2>5, OwnBaseFirst, ModelFirst, KeyFirst DEF Heard, Settings
<1>5. CASE primary = "amazon_bedrock_mantle"
  <2>1. PICK place, region :
          /\ place = Or(Or(own.place, env.place), Home)
          /\ region = Or(env.place, Home)
    OBVIOUS
  <2>2. Resolved(found) =
          Settings(Or(OwnBase, Address("mantle", region)), Key, ModelWith(None), place)
    BY <1>5, <2>1 DEF Resolved, MantleSettings
  <2>3. PICK other : other = Address("mantle", region)
    OBVIOUS
  <2>4. other.host = "mantle"
    BY <2>3 DEF Address
  <2>5. QED
    BY <1>5, <2>2, <2>3, <2>4, OwnBaseFirst, ModelFirst, KeyFirst DEF Heard, Settings
<1>6. CASE primary = "zai"
  <2>1. PICK endpoint, deployment :
          /\ endpoint = Or(ZaiEndpoint, IF found = None THEN "global" ELSE found.endpoint)
          /\ deployment = IF found = None THEN None ELSE found.model
    OBVIOUS
  <2>2. Resolved(found) =
          Settings(Or(OwnBase, Address("zai", endpoint)), Key, ModelWith(deployment), endpoint)
    BY <1>6, <2>1 DEF Resolved, ZaiSettings
  <2>3. own.place # None => endpoint = own.place
    BY <2>1, PlaceFirst DEF ZaiEndpoint
  <2>4. PICK other : other = Address("zai", endpoint)
    OBVIOUS
  <2>5. other.of = endpoint
    BY <2>4 DEF Address
  <2>6. QED
    BY <1>6, <2>2, <2>3, <2>4, <2>5, OwnBaseFirst, ModelFirst, KeyFirst DEF Heard, HasAddress, Settings
<1>7. QED
  BY <1>1, <1>2, <1>3, <1>4, <1>5, <1>6, CloudAccessAssumption

-----------------------------------------------------------------------------
(* What is sent in a call hears the owner if its bearer does.              *)
LEMMA SendHears ==
  ASSUME HeardIInv, NEW bearer, NEW cached, Send(bearer, cached), UNCHANGED config,
         Heard(call.settings), Reachable \/ HasAddress,
         own.key # None => bearer # None /\ bearer.of = own.key,
         bearer # None /\ bearer.from = "client" =>
           /\ primary = "sap_ai_core" /\ Reachable
           /\ call.settings.key = None /\ call.settings.place # None
           /\ bearer.of = call.settings.place
  PROVE  OwnerIsHeard'
<1>1. /\ used'.bearer = bearer
      /\ used'.base = call.settings.base /\ used'.model = call.settings.model
  BY DEF Send
<1>2. own' = own /\ OwnBase' = OwnBase
  BY DEF config, OwnBase
<1>3. QED
  BY <1>1, <1>2 DEF OwnerIsHeard, Heard, Reachable

(* The call is over.                                                       *)
LEMMA HeardEnds ==
  ASSUME HeardIInv, UNCHANGED <<config, cache>>, call' = Idle, OwnerIsHeard'
  PROVE  HeardIInv'
<1>1. call'.stage = "idle"
  BY DEF Idle, Stage
<1>2. QED
  BY <1>1 DEF HeardIInv, KeptAreSigned, config

(* It goes on with settings that hear the owner, or with none.             *)
LEMMA HeardGoesOn ==
  ASSUME HeardIInv, UNCHANGED <<config, cache>>, used' \in {None, used},
         call'.stage \in {"authorize", "chain"} => Heard(call'.settings),
         call'.stage = "chain" =>
           primary = "amazon_bedrock_mantle" /\ call'.settings.key = None
           /\ call'.settings.place \in Supported
  PROVE  HeardIInv'
<1>1. own' = own /\ primary' = primary /\ OwnBase' = OwnBase
  BY DEF config, OwnBase
<1>2. OwnerIsHeard'
  BY <1>1 DEF HeardIInv, OwnerIsHeard
<1>3. Heard(call'.settings) => Heard(call.settings)'
  BY <1>1 DEF Heard, HasAddress
<1>4. QED
  BY <1>1, <1>2, <1>3 DEF HeardIInv, KeptAreSigned

LEMMA AuthorizedHears ==
  ASSUME HeardIInv, NEW found, UNCHANGED <<config, cache>>, used' \in {None, used},
         call' = Authorized(found)
  PROVE  HeardIInv'
<1>1. call'.stage = "authorize" /\ call'.settings = Resolved(found)
  BY DEF Authorized, Stage
<1>2. QED
  BY <1>1, ResolvedHears, HeardGoesOn DEF HeardIInv

LEMMA NextHeard == HeardIInv /\ [Next]_vars => HeardIInv'
<1> SUFFICES ASSUME HeardIInv, [Next]_vars PROVE HeardIInv'
  OBVIOUS
<1>1. ASSUME Fail, UNCHANGED <<config, cache>> PROVE HeardIInv'
  <2>1. call'.stage = "idle" /\ used' = used
    BY <1>1 DEF Fail, Idle, Stage
  <2>2. QED
    BY <1>1, <2>1, HeardGoesOn
<1>2. ASSUME NEW bearer, NEW cached, Send(bearer, cached), UNCHANGED <<config, cache>>,
             At("authorize"), Reachable \/ HasAddress,
             own.key # None => bearer # None /\ bearer.of = own.key,
             bearer # None /\ bearer.from = "client" =>
               /\ primary = "sap_ai_core" /\ Reachable
               /\ call.settings.key = None /\ call.settings.place # None
               /\ bearer.of = call.settings.place
      PROVE  HeardIInv'
  BY <1>2, SendHears, HeardEnds DEF HeardIInv, At, Send
<1>3. At("authorize") /\ own.key # None =>
        \/ call.settings.key = own.key
        \/ primary = "sap_ai_core" /\ call.settings.key = None /\ call.settings.place = own.key
  BY DEF HeardIInv, At, Heard
<1>4. CASE Begin
  <2>1. CASE call' = Authorized(None)
    BY <1>4, <2>1, AuthorizedHears DEF Begin
  <2>2. CASE call' # Authorized(None)
    <3>1. call'.stage = "probe"
      BY <1>4, <2>2 DEF Begin, Stage
    <3>2. QED
      BY <1>4, <3>1, HeardGoesOn DEF Begin
  <2>3. QED
    BY <2>1, <2>2
<1>5. CASE Probe
  <2>1. CASE call' = [call EXCEPT !.next = @ + 1]
    <3>1. call'.stage = "probe"
      BY <1>5, <2>1 DEF Probe, At
    <3>2. QED
      BY <1>5, <3>1, HeardGoesOn DEF Probe
  <2>2. CASE call' # [call EXCEPT !.next = @ + 1]
    <3>1. PICK found : call' = Authorized(found)
      BY <1>5, <2>2 DEF Probe
    <3>2. QED
      BY <1>5, <3>1, AuthorizedHears DEF Probe
  <2>3. QED
    BY <2>1, <2>2
<1>6. own.key # None => \A from \in {"key", "client"} : Bearer(from, own.key) # None
  BY CloudAccessAssumption DEF HeardIInv, Bearer
<1>7. CASE UseKey
  <2>1. PICK bearer : bearer = Bearer("key", call.settings.key)
    OBVIOUS
  <2>2. bearer.from = "key" /\ bearer.of = call.settings.key
    BY <2>1 DEF Bearer
  <2>3. own.key # None => bearer # None /\ bearer.of = own.key
    BY <1>3, <1>6, <1>7, <2>1, <2>2 DEF UseKey
  <2>4. QED
    BY <1>2, <1>7, <2>1, <2>2, <2>3 DEF UseKey
<1>8. CASE GoWithout
  <2>1. own.key = None
    BY <1>3, <1>8 DEF GoWithout
  <2>2. QED
    BY <1>2, <1>8, <2>1 DEF GoWithout
<1>9. CASE CannotSend
  BY <1>1, <1>9 DEF CannotSend
<1>10. CASE AskSap
  <2>1. CASE Fail
    BY <1>1, <1>10, <2>1 DEF AskSap
  <2>2. CASE ~Fail
    <3>1. PICK bearer : bearer = Bearer("client", call.settings.place)
      OBVIOUS
    <3>2. bearer.of = call.settings.place
      BY <3>1 DEF Bearer
    <3>3. own.key # None => bearer # None /\ bearer.of = own.key
      BY <1>3, <1>6, <1>10, <3>1, <3>2 DEF AskSap
    <3>4. QED
      BY <1>2, <1>10, <2>2, <3>1, <3>2, <3>3 DEF AskSap
  <2>3. QED
    BY <2>1, <2>2
<1>11. CASE AskGoogle
  <2>1. own.key = None /\ HasAddress
    BY <1>3, <1>11 DEF AskGoogle, HasAddress
  <2>2. CASE Fail
    BY <1>1, <1>11, <2>2 DEF AskGoogle
  <2>3. CASE ~Fail
    <3>1. PICK bearer : bearer = Bearer("google", IF env.adc = "login" THEN "owner" ELSE "machine")
      OBVIOUS
    <3>2. bearer.from = "google"
      BY <3>1 DEF Bearer
    <3>3. QED
      BY <1>2, <1>11, <2>1, <2>3, <3>1, <3>2 DEF AskGoogle
  <2>4. QED
    BY <2>2, <2>3
<1>12. PICK signed : signed = Signed(Told)
  OBVIOUS
<1>13. signed.from = "account"
  BY <1>12 DEF Signed
<1>14. CASE SignRequest
  <2>1. own.key = None /\ HasAddress
    BY <1>3, <1>14 DEF SignRequest, HasAddress
  <2>2. QED
    BY <1>1, <1>2, <1>12, <1>13, <1>14, <2>1 DEF SignRequest
<1>15. CASE AskMantle
  <2> DEFINE place == call.settings.place
  <2>1. own.key = None /\ HasAddress
    BY <1>3, <1>15 DEF AskMantle, HasAddress
  <2>2. CASE Fail
    BY <1>1, <1>15, <2>2 DEF AskMantle
  <2>3. CASE place \in Supported /\ Live(cache[place]) /\ Send(cache[place].bearer, TRUE)
    <3>1. PICK bearer : bearer = cache[place].bearer
      OBVIOUS
    <3>2. bearer.from = "account"
      BY <2>3, <3>1, CloudAccessAssumption DEF HeardIInv, KeptAreSigned, Live
    <3>3. QED
      BY <1>2, <1>15, <2>1, <2>3, <3>1, <3>2 DEF AskMantle
  <2>4. CASE /\ place \in Supported
             /\ call' = [call EXCEPT !.stage = "chain", !.asked = now] /\ UNCHANGED used
    <3>1. call'.stage = "chain" /\ call'.settings = call.settings
      BY <1>15, <2>4 DEF At, AskMantle
    <3>2. QED
      BY <1>15, <2>4, <3>1, HeardGoesOn DEF AskMantle, At, HeardIInv
  <2>5. QED
    BY <1>15, <2>2, <2>3, <2>4 DEF AskMantle
<1>16. CASE Mint
  <2>1. Heard(call.settings) /\ own.key = None /\ HasAddress
    BY <1>16 DEF Mint, At, HeardIInv, Heard, HasAddress
  <2>2. Send(signed, FALSE) /\ UNCHANGED config
    BY <1>12, <1>16 DEF Mint
  <2>3. OwnerIsHeard'
    BY <1>13, <2>1, <2>2, SendHears
  <2>4. PICK place, expires : place = call.settings.place /\ expires = Expiry(call.asked)
    OBVIOUS
  <2>5. /\ cache' = [cache EXCEPT ![place] = [bearer |-> signed, expires |-> expires]]
        /\ DOMAIN cache = Region
    BY <1>12, <1>16, <2>4 DEF Mint, HeardIInv
  <2>6. DOMAIN cache' = Region /\ KeptAreSigned'
    BY <1>13, <2>5 DEF HeardIInv, KeptAreSigned
  <2>7. call'.stage = "idle"
    BY <2>2 DEF Send, Idle, Stage
  <2>8. QED
    BY <2>2, <2>3, <2>6, <2>7 DEF HeardIInv, config
<1>17. CASE ChainFails
  BY <1>1, <1>17 DEF ChainFails
<1>18. CASE Tick \/ Rotate \/ UNCHANGED vars
  BY <1>18, HeardGoesOn DEF Tick, Rotate, vars, HeardIInv
<1>19. CASE Restart
  <2>1. call'.stage = "idle"
    BY <1>19 DEF Restart, Idle, Stage
  <2>2. DOMAIN cache' = Region /\ KeptAreSigned'
    BY <1>19 DEF Restart, KeptAreSigned
  <2>3. OwnerIsHeard'
    BY <1>19 DEF Restart, HeardIInv, OwnerIsHeard, OwnBase, config
  <2>4. QED
    BY <1>19, <2>1, <2>2, <2>3 DEF Restart, HeardIInv, config
<1>20. QED
  BY <1>4, <1>5, <1>7, <1>8, <1>9, <1>10, <1>11, <1>14, <1>15, <1>16, <1>17, <1>18, <1>19 DEF Next

(* Whatever the environment holds and the endpoints answer, what is sent   *)
(* is of the address or the place, the model and the key the owner named.  *)
THEOREM OwnerHeard == Spec => []OwnerIsHeard
<1>1. Init => HeardIInv
  <2>1. Init => call.stage = "idle"
    BY DEF Init, Idle, Stage
  <2>2. QED
    BY <2>1 DEF Init, HeardIInv, KeptAreSigned, OwnerIsHeard
<1>2. HeardIInv => OwnerIsHeard
  BY DEF HeardIInv
<1>3. QED
  BY <1>1, <1>2, NextHeard, PTL DEF Spec

=============================================================================
