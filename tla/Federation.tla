------------------------------ MODULE Federation ------------------------------
(***************************************************************************)
(* The OIDC federation strategy of stack-auth: many users, one strategy.   *)
(*                                                                         *)
(* Every call brings the JWT of the user it is for.  Each JWT has a token  *)
(* engine of its own: pending until its first exchange succeeds, then in a *)
(* bounded cache, least recently used out first.  All engines share one    *)
(* external store with room for a single token, and the strategy remembers *)
(* a refusal of the account for every JWT.                                 *)
(*                                                                         *)
(* A call returns from its engine in one step and settles in another: two  *)
(* locks, with other threads in between.  Engines are TokenEngines (the    *)
(* detail is in AutoRefresh), and a token is its number: the JWT it        *)
(* was federated from and its age are looked up by it.  The workspace      *)
(* check that ends a call reads and changes nothing shared.                *)
(***************************************************************************)
EXTENDS Integers, Sequences

CONSTANTS
  Calls,       \* threads that call get_token
  Jwts,        \* provider JWTs
  Capacity,    \* cache_capacity
  DENIAL_TTL,  \* DENIAL_TTL_SECS
  MaxEngines,  \* bound on the engines ever made
  MaxTokens,   \* bound on the tokens ever issued
  MaxTime      \* bound on the clock

ASSUME FederationAssumption ==
  /\ Capacity \in Nat /\ DENIAL_TTL \in Nat
  /\ MaxEngines \in Nat /\ MaxTokens \in Nat \ {0} /\ MaxTime \in Nat
  /\ "unstamped" \notin Jwts

VARIABLES
  clock,    \* clock.now_unix_secs()
  minted,   \* the tokens issued so far: the JWT each was federated from
  age,      \* of each: "fresh", "ageing" (due for a refresh) or "dead"
  store,    \* the token in the external store, 0 for none
  engine,   \* the engines made so far
  cache,    \* Engines.cache: engines, least recently used first
  pending,  \* Engines.pending: the engine of each JWT, 0 for none
  denial,   \* the strategy's StickyDenial: when it was recorded
  call,     \* what each call is doing
  older     \* the engines that existed when `denial` was recorded

vars == <<clock, minted, age, store, engine, cache, pending, denial, call, older>>

Engines  == 1..MaxEngines
NoDenial == -1
Idle == [pc |-> "idle", jwt |-> "none", engine |-> 0, tok |-> 0, err |-> "none"]

\* Inside engine.get_token().await, where the call's future can be dropped.
Awaiting == {"asking", "loaded", "joining", "parked", "woken"}

\* From engine_for until it settles a call holds an InFlight claim.
Claims(e) == {c \in Calls : call[c].engine = e}

EngineRec(n) ==
  [jwt : Jwts, held : 0..n, exchange : {"none", "blocking", "background"},
   denied : {NoDenial} \cup 0..MaxTime]

CallRec(n, D) ==
  [pc : {"idle", "ok", "err"} \cup Awaiting, jwt : Jwts \cup {"none"},
   engine : {0} \cup D, tok : 0..n, err : {"none", "refused", "replayed", "failed"}]

TypeOK ==
  /\ clock \in 0..MaxTime
  /\ minted \in Seq(Jwts \cup {"unstamped"})
  /\ age \in [DOMAIN minted -> {"fresh", "ageing", "dead"}]
  /\ store \in 0..Len(minted)
  /\ engine \in Seq(EngineRec(Len(minted)))
  /\ cache \in Seq(DOMAIN engine) /\ Len(cache) <= Capacity
  /\ pending \in [Jwts -> {0} \cup DOMAIN engine]
  /\ denial \in {NoDenial} \cup 0..MaxTime
  /\ call \in [Calls -> CallRec(Len(minted), DOMAIN engine)]

-----------------------------------------------------------------------------
\* StickyDenial::is_stale, negated.
IsFresh(d) == d # NoDenial /\ clock - d < DENIAL_TTL

Usable(n) == n # 0 /\ age[n] # "dead"

\* Mutant: the shared store is read without looking at the stamp.
BoundLoad_Any(j) == store

\* BoundStore::load: the stored token, if it was federated from this JWT.
BoundLoad(j) == IF store # 0 /\ minted[store] = j THEN store ELSE 0

\* An order of use without its i-th entry, and the entries of one.
Without(s, i) == [k \in 1..(Len(s) - 1) |-> IF k < i THEN s[k] ELSE s[k + 1]]
Entries(s)    == {s[i] : i \in DOMAIN s}

\* JwtCache::get, on a hit at i: the entry becomes the most recently used.
Touch(s, i) == Append(Without(s, i), s[i])

\* Where the cache has the engine of a JWT: at one place at most, as the cache
\* is a map.
Cached(j) == {i \in DOMAIN cache : engine[cache[i]].jwt = j}

\* JwtCache::insert: the entry of the same JWT is replaced; otherwise, at
\* capacity, the least recently used entry makes way.
Insert(e) ==
  LET same == Cached(engine[e].jwt) IN
  IF Capacity = 0 THEN cache
  ELSE IF same # {} THEN Append(Without(cache, CHOOSE i \in same : TRUE), e)
  ELSE IF Len(cache) >= Capacity THEN Append(Tail(cache), e)
  ELSE Append(cache, e)

\* JwtCache::remove_if: the entry goes if it is still this engine.
RemoveIf(e) ==
  IF \E i \in DOMAIN cache : cache[i] = e
  THEN Without(cache, CHOOSE i \in DOMAIN cache : cache[i] = e) ELSE cache

\* The end of a claim: the pending entry goes if it is still this engine.
Unpend(e) == [j \in Jwts |-> IF pending[j] = e THEN 0 ELSE pending[j]]

-----------------------------------------------------------------------------
\* A new strategy, and a store that may hold a token of an earlier process.
Init ==
  /\ clock = 0
  /\ \/ minted = <<>> /\ store = 0
     \/ /\ minted \in [1..1 -> Jwts \cup {"unstamped"}]
        /\ store = 1
  /\ age = [n \in DOMAIN minted |-> "fresh"]
  /\ engine = <<>> /\ cache = <<>> /\ pending = [j \in Jwts |-> 0]
  /\ denial = NoDenial
  /\ call = [c \in Calls |-> Idle]
  /\ older = {}

Claim(c, j, e) ==
  call' = [call EXCEPT ![c] = [pc |-> "asking", jwt |-> j, engine |-> e, tok |-> 0,
                               err |-> "none"]]

NewEngine(j) ==
  [jwt |-> j, held |-> 0, exchange |-> "none", denied |-> NoDenial]

\* Mutant: a new engine goes straight into the cache.
Make_Cached(c, j) ==
  LET e == Len(engine) + 1 IN
  /\ e \in Engines
  /\ engine' = Append(engine, NewEngine(j))
  /\ cache' = Append(IF Len(cache) >= Capacity /\ cache # <<>> THEN Tail(cache)
                     ELSE cache, e)
  /\ Claim(c, j, e)
  /\ UNCHANGED pending

\* A new engine waits in `pending` for its first token.
Make(c, j) ==
  LET e == Len(engine) + 1 IN
  /\ e \in Engines
  /\ engine' = Append(engine, NewEngine(j))
  /\ pending' = [pending EXCEPT ![j] = e]
  /\ Claim(c, j, e)
  /\ UNCHANGED cache

\* Mutant: the standing refusal is not consulted.
EngineFor_Asks(c, j) ==
  /\ call[c].pc = "idle"
  /\ IF Cached(j) # {}
     THEN \E i \in Cached(j) :
            /\ Claim(c, j, cache[i]) /\ cache' = Touch(cache, i)
            /\ UNCHANGED <<engine, pending>>
     ELSE IF pending[j] # 0
     THEN Claim(c, j, pending[j]) /\ UNCHANGED <<engine, cache, pending>>
     ELSE Make(c, j)
  /\ UNCHANGED <<clock, minted, age, store, denial, older>>

\* engine_for, once the provider has said whose call this is: the cached
\* engine, else the pending one, else a new engine, unless a refusal of the
\* account stands: such a call returns with it and leaves no trace.
EngineFor(c, j) ==
  /\ call[c].pc = "idle"
  /\ IF Cached(j) # {}
     THEN \E i \in Cached(j) :
            /\ Claim(c, j, cache[i]) /\ cache' = Touch(cache, i)
            /\ UNCHANGED <<engine, pending, denial>>
     ELSE IF pending[j] # 0
     THEN Claim(c, j, pending[j]) /\ UNCHANGED <<engine, cache, pending, denial>>
     ELSE /\ ~IsFresh(denial) /\ denial' = NoDenial
          /\ Make(c, j)
  /\ older' = IF IsFresh(denial) THEN older ELSE {}
  /\ UNCHANGED <<clock, minted, age, store>>

-----------------------------------------------------------------------------
(* Inside the engine.                                                      *)

Answered(s, n) == [s EXCEPT !.pc = "ok", !.tok = n]
Failed(s, e)   == [s EXCEPT !.pc = "err", !.err = e]

\* The engine's lock is kept through an exchange unless it began with a token
\* that could still be served meanwhile.
Unlocked(e) == engine[e].exchange # "blocking"

\* AutoRefresh::get_token from the token to work with up to the next await.
Decide(c, n) ==
  LET e == call[c].engine
      due == n # 0 => age[n] # "fresh" /\ engine[e].exchange = "none" IN
  \/ /\ due /\ ~IsFresh(engine[e].denied)
     /\ engine' = [engine EXCEPT ![e] = [@ EXCEPT !.held = n, !.denied = NoDenial,
                     !.exchange = IF Usable(n) THEN "background" ELSE "blocking"]]
     /\ call' = [call EXCEPT ![c].pc = "joining"]
  \/ /\ due => IsFresh(engine[e].denied)
     /\ engine' = [engine EXCEPT ![e].held = n]
     /\ call' = [call EXCEPT ![c] = IF Usable(n) THEN Answered(@, n)
                                    ELSE IF due THEN Failed(@, "replayed")
                                    ELSE [@ EXCEPT !.pc = "parked"]]

\* With no token the store is read first, without the lock, unless a refusal
\* stands.
Enter(c) ==
  LET e == call[c].engine IN
  /\ call[c].pc = "asking" /\ Unlocked(e)
  /\ IF engine[e].held # 0 \/ IsFresh(engine[e].denied)
     THEN Decide(c, engine[e].held)
     ELSE /\ call' = [call EXCEPT ![c].pc = "loaded",
                                  ![c].tok = BoundLoad(engine[e].jwt)]
          /\ UNCHANGED engine
  /\ UNCHANGED <<clock, minted, age, store, cache, pending, denial, older>>

\* Mutant: no second look at the engine's own token.
Reloaded_Unchecked(c) == call[c].tok

\* What was loaded counts only if no sibling has put a token there meanwhile.
Reloaded(c) ==
  LET own == engine[call[c].engine].held IN IF own = 0 THEN call[c].tok ELSE own

Relock(c) ==
  /\ call[c].pc = "loaded" /\ Unlocked(call[c].engine)
  /\ Decide(c, Reloaded(c))
  /\ UNCHANGED <<clock, minted, age, store, cache, pending, denial, older>>

Joining(e) == {c \in Claims(e) : call[c].pc = "joining"}

\* The exchange ends: whoever joined it gets `answer`, parked calls wake up.
Conclude(e, answer) ==
  call' = [c \in Calls |->
             IF c \in Joining(e) THEN answer[c]
             ELSE IF c \in Claims(e) /\ call[c].pc = "parked"
                  THEN [call[c] EXCEPT !.pc = "woken"] ELSE call[c]]

\* OidcFederation::federate answers with a token, which JwtRefresher::refresh
\* stamps.  The store write is best effort.
ExchangeOk(e) ==
  LET n == Len(minted) + 1 IN
  /\ engine[e].exchange # "none" /\ n <= MaxTokens
  /\ minted' = Append(minted, engine[e].jwt)
  /\ age' = Append(age, "fresh")
  /\ store' \in {store, n}
  /\ engine' = [engine EXCEPT ![e] = [@ EXCEPT !.held = n, !.exchange = "none",
                                               !.denied = NoDenial]]
  /\ Conclude(e, [c \in Joining(e) |-> Answered(call[c], n)])
  /\ UNCHANGED <<clock, cache, pending, denial, older>>

\* ... or the account is refused, or anything else goes wrong.  A token that
\* can still be used is the answer then.
ExchangeErr(e, err) ==
  LET old == engine[e].held
      keeps == engine[e].exchange = "background" /\ Usable(old) IN
  /\ engine[e].exchange # "none"
  /\ engine' = [engine EXCEPT ![e] = [@ EXCEPT !.exchange = "none",
                  !.denied = IF err = "refused" THEN clock ELSE engine[e].denied]]
  /\ Conclude(e, [c \in Joining(e) |-> IF keeps THEN Answered(call[c], old)
                                       ELSE Failed(call[c], err)])
  /\ UNCHANGED <<clock, minted, age, store, cache, pending, denial, older>>

\* wait_for_in_flight_refresh: what a call that was parked gets.
Woken(c) ==
  LET e == call[c].engine IN
  /\ call[c].pc = "woken" /\ Unlocked(e)
  /\ call' = [call EXCEPT ![c] =
       IF Usable(engine[e].held) THEN Answered(@, engine[e].held)
       ELSE IF IsFresh(engine[e].denied) THEN Failed(@, "replayed")
       ELSE Failed(@, "failed")]
  /\ UNCHANGED <<clock, minted, age, store, engine, cache, pending, denial,
                 older>>

-----------------------------------------------------------------------------
\* settle(Ok): the engine holds a token and may take a slot.
SettleOk(c) ==
  LET e == call[c].engine IN
  /\ call[c].pc = "ok"
  /\ pending' = Unpend(e)
  /\ cache' = Insert(e)
  /\ call' = [call EXCEPT ![c] = Idle]
  /\ UNCHANGED <<clock, minted, age, store, engine, denial, older>>

\* settle(Err): the engine goes from wherever it is, and a refusal of the
\* account is remembered from now on.
SettleErr(c) ==
  LET e == call[c].engine
      refused == call[c].err \in {"refused", "replayed"} IN
  /\ call[c].pc = "err"
  /\ pending' = Unpend(e)
  /\ cache' = RemoveIf(e)
  /\ denial' = IF refused THEN clock ELSE denial
  /\ older' = IF refused THEN DOMAIN engine ELSE older
  /\ call' = [call EXCEPT ![c] = Idle]
  /\ UNCHANGED <<clock, minted, age, store, engine>>

\* Mutant: a cancelled call leaves its entry behind.
Drop_Leaves(c) ==
  /\ call[c].pc \in Awaiting
  /\ call' = [call EXCEPT ![c] = Idle]
  /\ UNCHANGED <<clock, minted, age, store, engine, cache, pending, denial, older>>

\* InFlight::drop: the call's future is dropped at its await.  An exchange it
\* started goes on.
Drop(c) ==
  /\ call[c].pc \in Awaiting
  /\ pending' = Unpend(call[c].engine)
  /\ call' = [call EXCEPT ![c] = Idle]
  /\ UNCHANGED <<clock, minted, age, store, engine, cache, denial, older>>

\* Tokens age at their own pace (those that anyone still has).
Older(n) ==
  /\ age[n] # "dead"
  /\ n \in {store} \cup {engine[e].held : e \in DOMAIN engine}
  /\ age' = [age EXCEPT ![n] = IF @ = "fresh" THEN "ageing" ELSE "dead"]
  /\ UNCHANGED <<clock, minted, store, engine, cache, pending, denial, call,
                 older>>

Tick ==
  /\ clock < MaxTime /\ clock' = clock + 1
  /\ UNCHANGED <<minted, age, store, engine, cache, pending, denial, call,
                 older>>

CallStep(c) == Enter(c) \/ Relock(c) \/ Woken(c) \/ SettleOk(c) \/ SettleErr(c)

EngineStep(e) == ExchangeOk(e) \/ \E err \in {"refused", "failed"} : ExchangeErr(e, err)

Next ==
  \/ \E c \in Calls : \/ \E j \in Jwts : EngineFor(c, j)
                      \/ CallStep(c) \/ Drop(c)
  \/ \E e \in DOMAIN engine : EngineStep(e)
  \/ \E n \in DOMAIN minted : Older(n)
  \/ Tick

Spec == Init /\ [][Next]_vars

-----------------------------------------------------------------------------
(* Properties.                                                             *)

\* A call only ever gets a token that was federated from the JWT it brought,
\* through the shared cache, the shared store, a sibling's exchange or its
\* own, however the calls of several users interleave.
Isolation == \A c \in Calls : call[c].pc = "ok" =>
               minted[call[c].tok] = call[c].jwt

\* `pending` holds the engine of each JWT under that JWT, and none without a
\* call in flight that claims it, so it is bounded by the calls in flight even
\* when calls are cancelled.
PendingClaimed ==
  \A j \in Jwts : pending[j] # 0 =>
    engine[pending[j]].jwt = j /\ Claims(pending[j]) # {}

\* The cache has one engine per JWT at most, and each holds a token.
CacheEarned ==
  /\ \A i, k \in DOMAIN cache : engine[cache[i]].jwt = engine[cache[k]].jwt => i = k
  /\ \A i \in DOMAIN cache : engine[cache[i]].held # 0

\* A slot of the cache is lost only to a JWT that holds a token, and then by
\* the least recently used one, or to a failure of the slot's own engine: a
\* stream of JWTs that the server refuses evicts nobody.
SlotsEarned ==
  [][\A e \in Entries(cache) \ Entries(cache') :
       \/ \E c \in Claims(e) : call[c].pc = "err"
       \/ LET new == cache'[Len(cache')] IN
          /\ engine'[new].held # 0
          /\ engine[e].jwt = engine'[new].jwt \/ e = Head(cache)]_vars

\* While a refusal of the account stands, only engines that were there when it
\* was recorded may go on asking the server: no new user does.
NoStorm ==
  [][\A e \in DOMAIN engine' :
       /\ engine'[e].exchange # "none"
       /\ e \in DOMAIN engine => engine[e].exchange = "none"
       => ~IsFresh(denial) \/ e \in older]_vars

EngineOf(e) ==
  IF e \in DOMAIN engine THEN engine[e]
  ELSE [held |-> 0, exchange |-> "none"]

HeldOf(e)       == EngineOf(e).held
StaleOf(e)      == HeldOf(e) # 0 /\ age[HeldOf(e)] # "fresh"
ExchangingOf(e) == EngineOf(e).exchange # "none"
AskingOf(e)     == {c \in Claims(e) : call[c].pc \in Awaiting}
ServedOf(e)     == {c \in Claims(e) : call[c].pc = "ok"}

TokenEngineOf(e) == INSTANCE TokenEngine WITH
  held <- HeldOf(e), stale <- StaleOf(e), exchanging <- ExchangingOf(e),
  asking <- AskingOf(e), served <- ServedOf(e)

EachBegins == \A e \in Engines : TokenEngineOf(e)!Init
EachSteps  ==
  \A e \in Engines :
    \/ UNCHANGED <<HeldOf(e), StaleOf(e), ExchangingOf(e), AskingOf(e), ServedOf(e)>>
    \/ TokenEngineOf(e)!Next

\* Each engine here is a TokenEngine, the specification AutoRefresh
\* implements: what this module leaves out of an engine is what that one
\* shows does not matter to the strategy.
EnginesAreTokenEngines == EachBegins /\ [][EachSteps]_vars

\* Every engine is accounted for: the cache keeps to its capacity, to one engine
\* per JWT and to engines that hold a token, and a pending engine has a call
\* that will settle it (InFlight::settle, JwtCache::insert).
EnginesAccounted == TypeOK /\ PendingClaimed /\ CacheEarned
=============================================================================
