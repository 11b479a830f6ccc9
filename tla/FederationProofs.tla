--------------------------- MODULE FederationProofs ---------------------------
(***************************************************************************)
(* What the OIDC federation strategy does with its engines, for any number *)
(* of calls, users, engines and tokens, and any capacity of the cache.     *)
(***************************************************************************)
EXTENDS Federation, TLAPS

USE DEF NoDenial

-----------------------------------------------------------------------------
(* The inductive invariant.                                                *)

\* A call has an engine exactly while it is not idle, and that engine is the
\* one of its JWT.  What it has loaded, or got, was federated from that JWT.
CallOk(c) ==
  LET k == call[c] IN
  /\ k.pc = "idle" <=> k.engine = 0
  /\ k.engine # 0 => engine[k.engine].jwt = k.jwt
  /\ k.pc \in {"loaded", "ok"} /\ k.tok # 0 => minted[k.tok] = k.jwt
  /\ k.pc = "ok" => k.tok # 0 /\ engine[k.engine].held # 0

\* An engine holds a token of its own JWT.
EngineOk(e) ==
  engine[e].held # 0 => minted[engine[e].held] = engine[e].jwt

\* A standing refusal was recorded after every engine there is was made.
RefusalOk == IsFresh(denial) => DOMAIN engine \subseteq older

FedInv ==
  /\ EnginesAccounted
  /\ \A c \in Calls : CallOk(c)
  /\ \A e \in DOMAIN engine : EngineOk(e)
  /\ RefusalOk

-----------------------------------------------------------------------------
(* Sequences.                                                              *)

\* What it takes to be a sequence over a set.
LEMMA SeqFacts ==
  ASSUME NEW S, NEW s \in Seq(S)
  PROVE  /\ Len(s) \in Nat /\ DOMAIN s = 1..Len(s)
         /\ \A i \in DOMAIN s : s[i] \in S
         /\ \A T : (\A i \in DOMAIN s : s[i] \in T) => s \in Seq(T)
OBVIOUS

\* A function on 1..n is a sequence.
LEMMA SeqOf ==
  ASSUME NEW S, NEW n \in Nat, NEW f \in [1..n -> S]
  PROVE  f \in Seq(S) /\ Len(f) = n
OBVIOUS

\* The empty sequence.
LEMMA EmptyFacts ==
  ASSUME NEW S PROVE <<>> \in Seq(S) /\ Len(<<>>) = 0 /\ DOMAIN <<>> = {}
OBVIOUS

\* A sequence with an entry added at the end.
LEMMA AppendFacts ==
  ASSUME NEW S, NEW s \in Seq(S), NEW e \in S
  PROVE  /\ Append(s, e) \in Seq(S) /\ Len(Append(s, e)) = Len(s) + 1
         /\ Append(s, e)[Len(s) + 1] = e /\ \A i \in 1..Len(s) : Append(s, e)[i] = s[i]
OBVIOUS

\* A sequence without its first entry.
LEMMA TailFacts ==
  ASSUME NEW S, NEW s \in Seq(S), s # <<>>
  PROVE  /\ Head(s) \in S /\ Head(s) = s[1] /\ Tail(s) \in Seq(S)
         /\ Len(Tail(s)) = Len(s) - 1 /\ \A i \in 1..Len(Tail(s)) : Tail(s)[i] = s[i + 1]
OBVIOUS

\* A sequence with one entry replaced.
LEMMA SeqUpdate ==
  ASSUME NEW S, NEW T, NEW s \in Seq(S), NEW i \in DOMAIN s, NEW r \in T,
         \A k \in DOMAIN s : s[k] \in T
  PROVE  [s EXCEPT ![i] = r] \in Seq(T)
<1>1. s \in Seq(T)
  BY SeqFacts
<1> QED
  BY <1>1, SeqFacts

\* A sequence with an entry added at the end.
LEMMA SeqAppend ==
  ASSUME NEW S, NEW T, NEW s \in Seq(S), NEW r \in T,
         \A k \in DOMAIN s : s[k] \in T
  PROVE  /\ Append(s, r) \in Seq(T)
         /\ Len(Append(s, r)) = Len(s) + 1
         /\ DOMAIN Append(s, r) = DOMAIN s \cup {Len(s) + 1}
         /\ Append(s, r)[Len(s) + 1] = r
         /\ \A k \in DOMAIN s : Append(s, r)[k] = s[k]
<1>1. s \in Seq(T)
  BY SeqFacts
<1>2. /\ Append(s, r) \in Seq(T) /\ Len(Append(s, r)) = Len(s) + 1
      /\ Append(s, r)[Len(s) + 1] = r
      /\ \A k \in 1..Len(s) : Append(s, r)[k] = s[k]
  BY <1>1, SeqFacts, AppendFacts
<1>3. Len(s) \in Nat /\ DOMAIN s = 1..Len(s) /\ DOMAIN Append(s, r) = 1..(Len(s) + 1)
  BY <1>2, SeqFacts
<1> QED
  BY <1>2, <1>3

\* A sequence without its i-th entry: the others keep their order.
LEMMA WithoutFacts ==
  ASSUME NEW S, NEW s \in Seq(S), NEW i \in DOMAIN s
  PROVE  /\ Without(s, i) \in Seq(S) /\ Len(Without(s, i)) = Len(s) - 1
         /\ \A k \in 1..(Len(s) - 1) :
              Without(s, i)[k] = IF k < i THEN s[k] ELSE s[k + 1]
<1>1. Len(s) \in Nat /\ i \in 1..Len(s) /\ Len(s) - 1 \in Nat
      /\ \A k \in 1..Len(s) : s[k] \in S
  BY SeqFacts
<1>2. Without(s, i) \in [1..(Len(s) - 1) -> S]
  BY <1>1 DEF Without
<1> QED
  BY <1>1, <1>2, SeqOf DEF Without

-----------------------------------------------------------------------------
(* The operations of the cache.                                            *)

\* No two entries are engines of one JWT.
OnePer(s) == \A i, k \in DOMAIN s : engine[s[i]].jwt = engine[s[k]].jwt => i = k

\* An entry less: the others are all there, none of them of its JWT.
LEMMA RemoveKeeps ==
  ASSUME NEW S, NEW s \in Seq(S), OnePer(s), NEW i \in DOMAIN s
  PROVE  LET r == Without(s, i) IN
         /\ r \in Seq(S) /\ Len(r) = Len(s) - 1 /\ OnePer(r)
         /\ \A k \in DOMAIN r : /\ \E l \in DOMAIN s : r[k] = s[l]
                                /\ engine[r[k]].jwt # engine[s[i]].jwt
         /\ \A l \in DOMAIN s \ {i} : \E k \in DOMAIN r : r[k] = s[l]
<1> DEFINE r == Without(s, i)
           at(k) == IF k < i THEN k ELSE k + 1
<1>0. Len(s) \in Nat /\ i \in 1..Len(s) /\ DOMAIN s = 1..Len(s)
  BY SeqFacts
<1>1. /\ r \in Seq(S) /\ Len(r) = Len(s) - 1
      /\ \A k \in 1..(Len(s) - 1) : r[k] = IF k < i THEN s[k] ELSE s[k + 1]
  BY WithoutFacts
<1>2. DOMAIN r = 1..(Len(s) - 1)
  BY <1>1, SeqFacts
<1> HIDE DEF r
<1>3. \A k \in DOMAIN r : r[k] = s[at(k)] /\ at(k) \in DOMAIN s /\ at(k) # i
  BY <1>0, <1>1, <1>2
<1>4. \A k, l \in DOMAIN r : at(k) = at(l) => k = l
  BY <1>0, <1>2
<1>5. \A l \in DOMAIN s \ {i} : \E k \in DOMAIN r : at(k) = l
  <2> SUFFICES ASSUME NEW l \in DOMAIN s \ {i} PROVE \E k \in DOMAIN r : at(k) = l
    OBVIOUS
  <2>1. CASE l < i
    BY <1>0, <1>2, <2>1
  <2>2. CASE ~(l < i)
    <3>1. l - 1 \in DOMAIN r /\ at(l - 1) = l
      BY <1>0, <1>2, <2>2
    <3> QED
      BY <3>1
  <2> QED
    BY <2>1, <2>2
<1> HIDE DEF at
<1>6. OnePer(r)
  BY <1>3, <1>4 DEF OnePer
<1>7. \A k \in DOMAIN r : engine[r[k]].jwt # engine[s[i]].jwt
  BY <1>3 DEF OnePer
<1> QED
  BY <1>1, <1>3, <1>5, <1>6, <1>7 DEF r

\* r is s with entry e added.
Gains(S, s, r, e) ==
  /\ r \in Seq(S) /\ Len(r) = Len(s) + 1 /\ OnePer(r) /\ r[Len(r)] = e
  /\ \A k \in DOMAIN r : r[k] = e \/ \E l \in DOMAIN s : r[k] = s[l]
  /\ \A l \in DOMAIN s : \E k \in DOMAIN r : r[k] = s[l]
  /\ \E k \in DOMAIN r : r[k] = e

\* An entry more, of a JWT that has none.
LEMMA AppendKeeps ==
  ASSUME NEW S, NEW s \in Seq(S), OnePer(s), NEW e \in S,
         \A k \in DOMAIN s : engine[s[k]].jwt # engine[e].jwt
  PROVE  Gains(S, s, Append(s, e), e)
<1> DEFINE r == Append(s, e)
<1>0. Len(s) \in Nat /\ DOMAIN s = 1..Len(s) /\ Len(s) + 1 \notin DOMAIN s
      /\ \A k \in DOMAIN s : s[k] \in S
  BY SeqFacts
<1>1. /\ r \in Seq(S) /\ Len(r) = Len(s) + 1
      /\ DOMAIN r = DOMAIN s \cup {Len(s) + 1}
      /\ r[Len(s) + 1] = e
      /\ \A k \in DOMAIN s : r[k] = s[k]
  BY <1>0, SeqAppend
<1> HIDE DEF r
<1>2. \A k \in DOMAIN r : r[k] = e \/ \E l \in DOMAIN s : r[k] = s[l]
  BY <1>1
<1>3. r[Len(r)] = e
  BY <1>1
<1>4. OnePer(r)
  BY <1>0, <1>1 DEF OnePer
<1> QED
  BY <1>1, <1>2, <1>3, <1>4 DEF r, Gains

\* What the operations need to know of the cache.
CacheType ==
  /\ cache \in Seq(DOMAIN engine) /\ Len(cache) <= Capacity
  /\ OnePer(cache)

\* A hit only moves an entry.
LEMMA TouchKeeps ==
  ASSUME CacheType, NEW i \in DOMAIN cache
  PROVE  LET r == Touch(cache, i) IN
         /\ r \in Seq(DOMAIN engine) /\ Len(r) <= Capacity /\ OnePer(r)
         /\ \A k \in DOMAIN r : \E l \in DOMAIN cache : r[k] = cache[l]
         /\ \A l \in DOMAIN cache : \E k \in DOMAIN r : r[k] = cache[l]
<1> DEFINE q == Without(cache, i)
           r == Append(q, cache[i])
<1>0. cache[i] \in DOMAIN engine /\ Len(cache) \in Nat
  BY SeqFacts DEF CacheType
<1>1. /\ q \in Seq(DOMAIN engine) /\ Len(q) = Len(cache) - 1 /\ OnePer(q)
      /\ \A k \in DOMAIN q : /\ \E l \in DOMAIN cache : q[k] = cache[l]
                             /\ engine[q[k]].jwt # engine[cache[i]].jwt
      /\ \A l \in DOMAIN cache \ {i} : \E k \in DOMAIN q : q[k] = cache[l]
  BY RemoveKeeps DEF CacheType
<1> HIDE DEF q
<1>2. /\ r \in Seq(DOMAIN engine) /\ Len(r) = Len(q) + 1 /\ OnePer(r)
      /\ \A k \in DOMAIN r : r[k] = cache[i] \/ \E l \in DOMAIN q : r[k] = q[l]
      /\ \A l \in DOMAIN q : \E k \in DOMAIN r : r[k] = q[l]
      /\ \E k \in DOMAIN r : r[k] = cache[i]
  <2>1. Gains(DOMAIN engine, q, r, cache[i])
    BY <1>0, <1>1, AppendKeeps
  <2> QED
    BY <2>1 DEF Gains
<1> HIDE DEF r
<1>3. Len(r) <= Capacity
  BY <1>0, <1>1, <1>2, FederationAssumption DEF CacheType
<1>4. \A k \in DOMAIN r : \E l \in DOMAIN cache : r[k] = cache[l]
  BY <1>1, <1>2
<1>5. \A l \in DOMAIN cache : \E k \in DOMAIN r : r[k] = cache[l]
  BY <1>1, <1>2
<1> QED
  BY <1>2, <1>3, <1>4, <1>5, Zenon DEF r, q, Touch

\* The least recently used entry makes way.
LEMMA TailKeeps ==
  ASSUME CacheType, cache # <<>>
  PROVE  LET r == Tail(cache) IN
         /\ r \in Seq(DOMAIN engine) /\ Len(r) = Len(cache) - 1 /\ OnePer(r)
         /\ \A k \in DOMAIN r : \E l \in DOMAIN cache : r[k] = cache[l]
         /\ \A l \in DOMAIN cache : cache[l] = Head(cache) \/ \E k \in DOMAIN r : r[k] = cache[l]
<1> DEFINE r == Tail(cache)
<1>0. Len(cache) \in Nat /\ DOMAIN cache = 1..Len(cache)
  BY SeqFacts DEF CacheType
<1>1. /\ r \in Seq(DOMAIN engine) /\ Len(r) = Len(cache) - 1
      /\ \A k \in 1..Len(r) : r[k] = cache[k + 1]
  BY TailFacts DEF CacheType
<1>2. DOMAIN r = 1..(Len(cache) - 1)
  BY <1>1, SeqFacts
<1>3. Head(cache) = cache[1]
  BY DEF CacheType
<1> HIDE DEF r
<1>4. \A k \in DOMAIN r : k + 1 \in DOMAIN cache /\ r[k] = cache[k + 1]
  BY <1>0, <1>1, <1>2
<1>5. \A k, l \in DOMAIN r : k + 1 = l + 1 => k = l
  BY <1>0, <1>2
<1>6. \A l \in DOMAIN cache : l = 1 \/ (l - 1 \in DOMAIN r /\ r[l - 1] = cache[l])
  BY <1>0, <1>1, <1>2
<1>7. OnePer(r)
  BY <1>4, <1>5 DEF OnePer, CacheType
<1> QED
  BY <1>1, <1>3, <1>4, <1>6, <1>7, Zenon DEF r

\* An engine takes a slot: it replaces the engine of its JWT, or fills a free
\* slot, or the least recently used entry makes way.
LEMMA InsertKeeps ==
  ASSUME CacheType, NEW e \in DOMAIN engine
  PROVE  LET r == Insert(e) IN
         /\ r \in Seq(DOMAIN engine) /\ Len(r) <= Capacity /\ OnePer(r)
         /\ \A k \in DOMAIN r : r[k] = e \/ \E l \in DOMAIN cache : r[k] = cache[l]
         /\ \A l \in DOMAIN cache :
              \/ \E k \in DOMAIN r : r[k] = cache[l]
              \/ /\ r # <<>> /\ r[Len(r)] = e
                 /\ engine[cache[l]].jwt = engine[e].jwt \/ cache[l] = Head(cache)
<1> DEFINE j == engine[e].jwt
           Goal(r) ==
             /\ r \in Seq(DOMAIN engine) /\ Len(r) <= Capacity /\ OnePer(r)
             /\ \A k \in DOMAIN r : r[k] = e \/ \E l \in DOMAIN cache : r[k] = cache[l]
             /\ \A l \in DOMAIN cache :
                  \/ \E k \in DOMAIN r : r[k] = cache[l]
                  \/ /\ r # <<>> /\ r[Len(r)] = e
                     /\ engine[cache[l]].jwt = j \/ cache[l] = Head(cache)
<1>0. Len(cache) \in Nat /\ DOMAIN cache = 1..Len(cache) /\ Capacity \in Nat
      /\ Len(cache) <= Capacity
  BY FederationAssumption, SeqFacts DEF CacheType
<1>1. ASSUME NEW q \in Seq(DOMAIN engine), OnePer(q), Len(q) < Capacity,
             \A k \in DOMAIN q : /\ \E l \in DOMAIN cache : q[k] = cache[l]
                                 /\ engine[q[k]].jwt # j,
             \A l \in DOMAIN cache : \/ \E k \in DOMAIN q : q[k] = cache[l]
                                     \/ engine[cache[l]].jwt = j
                                     \/ cache[l] = Head(cache)
      PROVE  Goal(Append(q, e))
  <2> DEFINE r == Append(q, e)
  <2>1. /\ r \in Seq(DOMAIN engine) /\ Len(r) = Len(q) + 1 /\ OnePer(r) /\ r[Len(r)] = e
        /\ \A k \in DOMAIN r : r[k] = e \/ \E l \in DOMAIN q : r[k] = q[l]
        /\ \A l \in DOMAIN q : \E k \in DOMAIN r : r[k] = q[l]
        /\ \E k \in DOMAIN r : r[k] = e
    <3>1. Gains(DOMAIN engine, q, r, e)
      BY <1>1, AppendKeeps
    <3> QED
      BY <3>1 DEF Gains
  <2>2. Len(q) \in Nat
    BY SeqFacts
  <2> HIDE DEF r, j
  <2>3. Len(r) <= Capacity
    BY <1>0, <1>1, <2>1, <2>2
  <2>4. r # <<>>
    BY <2>1
  <2>5. \A k \in DOMAIN r : r[k] = e \/ \E l \in DOMAIN cache : r[k] = cache[l]
    BY <1>1, <2>1
  <2>6. \A l \in DOMAIN cache : \/ \E k \in DOMAIN r : r[k] = cache[l]
                                \/ engine[cache[l]].jwt = j
                                \/ cache[l] = Head(cache)
    BY <1>1, <2>1
  <2>7. Goal(r)
    BY <2>1, <2>3, <2>4, <2>5, <2>6
  <2> QED
    BY <2>7 DEF r
<1>2. CASE Capacity = 0
  BY <1>2 DEF Insert, CacheType
<1>3. CASE Capacity # 0 /\ Cached(j) # {}
  <2> DEFINE i == CHOOSE i \in Cached(j) : TRUE
  <2>1. i \in DOMAIN cache /\ engine[cache[i]].jwt = j
    BY <1>3 DEF Cached
  <2>2. Insert(e) = Append(Without(cache, i), e)
    BY <1>3 DEF Insert
  <2> HIDE DEF i, j
  <2>3. LET q == Without(cache, i) IN
        /\ q \in Seq(DOMAIN engine) /\ Len(q) = Len(cache) - 1 /\ OnePer(q)
        /\ \A k \in DOMAIN q : /\ \E l \in DOMAIN cache : q[k] = cache[l]
                               /\ engine[q[k]].jwt # engine[cache[i]].jwt
        /\ \A l \in DOMAIN cache \ {i} : \E k \in DOMAIN q : q[k] = cache[l]
    <3>1. cache \in Seq(DOMAIN engine) /\ OnePer(cache)
      BY Zenon DEF CacheType
    <3> QED
      BY <2>1, <3>1, RemoveKeeps, SMTT(30)
  <2> DEFINE q == Without(cache, i)
  <2> HIDE DEF q
  <2>4. /\ q \in Seq(DOMAIN engine) /\ Len(q) < Capacity /\ OnePer(q)
        /\ \A k \in DOMAIN q : /\ \E l \in DOMAIN cache : q[k] = cache[l]
                               /\ engine[q[k]].jwt # j
        /\ \A l \in DOMAIN cache : \/ \E k \in DOMAIN q : q[k] = cache[l]
                                   \/ engine[cache[l]].jwt = j
                                   \/ cache[l] = Head(cache)
    <3>1. Len(q) < Capacity
      BY <1>0, <2>3 DEF q
    <3> QED
      BY <2>1, <2>3, <3>1 DEF q
  <2>5. Goal(Append(q, e))
    BY <1>1, <2>4, Zenon
  <2> QED
    BY <2>2, <2>5 DEF q, j
<1>4. CASE Capacity # 0 /\ Cached(j) = {} /\ Len(cache) >= Capacity
  <2>1. \A k \in DOMAIN cache : engine[cache[k]].jwt # j
    BY <1>4 DEF Cached
  <2>2. cache # <<>> /\ Insert(e) = Append(Tail(cache), e)
    BY <1>0, <1>4 DEF Insert
  <2> DEFINE q == Tail(cache)
  <2>3. /\ q \in Seq(DOMAIN engine) /\ Len(q) = Len(cache) - 1 /\ OnePer(q)
        /\ \A k \in DOMAIN q : \E l \in DOMAIN cache : q[k] = cache[l]
        /\ \A l \in DOMAIN cache : cache[l] = Head(cache) \/ \E k \in DOMAIN q : q[k] = cache[l]
    BY <2>2, TailKeeps
  <2> HIDE DEF q, j
  <2>4. Len(q) < Capacity
    BY <1>0, <2>3
  <2>5. \A k \in DOMAIN q : engine[q[k]].jwt # j
    BY <2>1, <2>3
  <2>6. Goal(Append(q, e))
    BY <1>1, <2>3, <2>4, <2>5, Zenon
  <2> QED
    BY <2>2, <2>6, ZenonT(60) DEF q, j
<1>5. CASE Capacity # 0 /\ Cached(j) = {} /\ ~(Len(cache) >= Capacity)
  <2>1. \A k \in DOMAIN cache : engine[cache[k]].jwt # j
    BY <1>5 DEF Cached
  <2>2. Len(cache) < Capacity /\ Insert(e) = Append(cache, e)
    BY <1>0, <1>5 DEF Insert
  <2> HIDE DEF j
  <2>3. Goal(Append(cache, e))
    BY <1>1, <2>1, <2>2 DEF CacheType
  <2> QED
    BY <2>2, <2>3, ZenonT(30) DEF j
<1> QED
  BY <1>2, <1>3, <1>4, <1>5

\* An engine that failed gives its slot back.
LEMMA RemoveIfKeeps ==
  ASSUME CacheType, NEW e
  PROVE  LET r == RemoveIf(e) IN
         /\ r \in Seq(DOMAIN engine) /\ Len(r) <= Capacity /\ OnePer(r)
         /\ \A k \in DOMAIN r : \E l \in DOMAIN cache : r[k] = cache[l]
         /\ \A l \in DOMAIN cache : cache[l] = e \/ \E k \in DOMAIN r : r[k] = cache[l]
<1>1. CASE \E i \in DOMAIN cache : cache[i] = e
  <2> DEFINE i == CHOOSE i \in DOMAIN cache : cache[i] = e
             r == Without(cache, i)
  <2>1. i \in DOMAIN cache /\ cache[i] = e
    BY <1>1
  <2>2. RemoveIf(e) = r
    BY <1>1 DEF RemoveIf
  <2> HIDE DEF i
  <2>3. /\ r \in Seq(DOMAIN engine) /\ Len(r) = Len(cache) - 1 /\ OnePer(r)
        /\ \A k \in DOMAIN r : /\ \E l \in DOMAIN cache : r[k] = cache[l]
                               /\ engine[r[k]].jwt # engine[cache[i]].jwt
        /\ \A l \in DOMAIN cache \ {i} : \E k \in DOMAIN r : r[k] = cache[l]
    <3>1. cache \in Seq(DOMAIN engine) /\ OnePer(cache)
      BY Zenon DEF CacheType
    <3> QED
      BY <2>1, <3>1, RemoveKeeps, SMTT(30)
  <2>4. Len(cache) \in Nat
    BY SeqFacts DEF CacheType
  <2> HIDE DEF r
  <2>5. Len(r) <= Capacity
    BY <2>3, <2>4, FederationAssumption DEF CacheType
  <2> QED
    BY <2>1, <2>2, <2>3, <2>5
<1>2. CASE ~\E i \in DOMAIN cache : cache[i] = e
  BY <1>2 DEF RemoveIf, CacheType
<1> QED
  BY <1>1, <1>2

-----------------------------------------------------------------------------
(* What the steps have in common.                                          *)

\* TypeOK, entry by entry.
LEMMA Typed ==
  ASSUME TypeOK
  PROVE  /\ clock \in Nat /\ Len(minted) \in Nat /\ DOMAIN minted = 1..Len(minted)
         /\ Len(engine) \in Nat /\ DOMAIN engine = 1..Len(engine)
         /\ \A e \in DOMAIN engine : engine[e] \in EngineRec(Len(minted))
         /\ \A c \in Calls : call[c] \in CallRec(Len(minted), DOMAIN engine)
         /\ \A i \in DOMAIN cache : cache[i] \in DOMAIN engine
         /\ \A n \in DOMAIN minted : minted[n] \in Jwts \cup {"unstamped"}
<1>1. clock \in Nat
  BY FederationAssumption DEF TypeOK
<1>2. /\ minted \in Seq(Jwts \cup {"unstamped"}) /\ engine \in Seq(EngineRec(Len(minted)))
      /\ cache \in Seq(DOMAIN engine)
      /\ call \in [Calls -> CallRec(Len(minted), DOMAIN engine)]
  BY DEF TypeOK
<1> QED
  BY <1>1, <1>2, SeqFacts

\* A token's number, or none.
LEMMA Counted == ASSUME NEW k \in Nat, NEW n \in 0..k PROVE n \in Nat
OBVIOUS

\* engine_for appends the engine it makes, and leaves the others where they are.
LEMMA MadeEngine ==
  ASSUME TypeOK, NEW j \in Jwts, engine' = Append(engine, NewEngine(j))
  PROVE  /\ NewEngine(j).held = 0 /\ NewEngine(j).exchange = "none" /\ NewEngine(j).jwt = j
         /\ engine' \in Seq(EngineRec(Len(minted)))
         /\ DOMAIN engine' = DOMAIN engine \cup {Len(engine) + 1}
         /\ engine'[Len(engine) + 1] = NewEngine(j)
         /\ \A d \in DOMAIN engine : engine'[d] = engine[d]
         /\ Len(engine) + 1 \notin DOMAIN engine
<1>1. engine \in Seq(EngineRec(Len(minted))) /\ Len(minted) \in Nat
      /\ Len(engine) \in Nat /\ DOMAIN engine = 1..Len(engine)
  BY Typed, Zenon DEF TypeOK
<1>2. \A d \in DOMAIN engine : engine[d] \in EngineRec(Len(minted))
  BY Typed, Zenon
<1>3. 0 \in 0..Len(minted) /\ Len(engine) + 1 \notin 1..Len(engine)
  BY <1>1
<1>4. NewEngine(j) \in EngineRec(Len(minted))
  BY <1>3 DEF NewEngine, EngineRec
<1>5. NewEngine(j).held = 0 /\ NewEngine(j).exchange = "none" /\ NewEngine(j).jwt = j
  BY DEF NewEngine
<1> DEFINE T == EngineRec(Len(minted))
           r == NewEngine(j)
<1> HIDE DEF T, r
<1>6. engine \in Seq(T) /\ r \in T /\ \A d \in DOMAIN engine : engine[d] \in T
  BY <1>1, <1>2, <1>4, Zenon DEF T, r
<1>7. /\ Append(engine, r) \in Seq(T) /\ DOMAIN Append(engine, r) = DOMAIN engine \cup {Len(engine) + 1}
      /\ Append(engine, r)[Len(engine) + 1] = r
      /\ \A d \in DOMAIN engine : Append(engine, r)[d] = engine[d]
  BY <1>6, SeqAppend
<1>8. engine' = Append(engine, r)
  BY Zenon DEF r
<1>9. /\ engine' \in Seq(T) /\ DOMAIN engine' = DOMAIN engine \cup {Len(engine) + 1}
      /\ engine'[Len(engine) + 1] = r /\ \A d \in DOMAIN engine : engine'[d] = engine[d]
  BY <1>7, <1>8, Zenon
<1> QED
  BY <1>1, <1>3, <1>5, <1>9, Zenon DEF T, r

\* Engines keep their JWT and never go back to having no token, and what was
\* minted stays so.
Grows ==
  /\ DOMAIN engine \subseteq DOMAIN engine'
  /\ \A e \in DOMAIN engine : /\ engine'[e].jwt = engine[e].jwt
                              /\ engine[e].held # 0 => engine'[e].held # 0
  /\ DOMAIN minted \subseteq DOMAIN minted' /\ 0..Len(minted) \subseteq 0..Len(minted')
  /\ \A n \in DOMAIN minted : minted'[n] = minted[n]

\* A cache that is left alone stays in order.
LEMMA GrowCache ==
  ASSUME TypeOK, CacheEarned, Grows, UNCHANGED cache
  PROVE  CacheEarned' /\ cache' \in Seq(DOMAIN engine') /\ Len(cache') <= Capacity
<1>1. \A i \in DOMAIN cache : cache[i] \in DOMAIN engine
  BY Typed
<1>2. CacheEarned'
  BY <1>1 DEF CacheEarned, Grows
<1>3. cache \in Seq(DOMAIN engine) /\ Len(cache) <= Capacity
  BY DEF TypeOK
<1>4. cache \in Seq(DOMAIN engine')
  BY <1>1, <1>3, SeqFacts DEF Grows
<1> QED
  BY <1>2, <1>3, <1>4

\* Pending engines that are left alone stay claimed.
LEMMA GrowPending ==
  ASSUME TypeOK, PendingClaimed, Grows, UNCHANGED pending,
         \A c \in Calls : call'[c].engine = call[c].engine \/ call[c].engine = 0
  PROVE  PendingClaimed' /\ pending' \in [Jwts -> {0} \cup DOMAIN engine']
<1>1. \A j \in Jwts : pending[j] \in {0} \cup DOMAIN engine
  BY DEF TypeOK
<1>2. \A j \in Jwts : pending[j] # 0 => Claims(pending[j])' # {}
  BY DEF PendingClaimed, Claims
<1>3. pending' \in [Jwts -> {0} \cup DOMAIN engine']
  BY <1>1 DEF Grows, TypeOK
<1> QED
  BY <1>1, <1>2, <1>3 DEF PendingClaimed, Grows

\* A call that does nothing stays as it should be.
LEMMA GrowCall ==
  ASSUME TypeOK, Grows, NEW c \in Calls, CallOk(c), call'[c] = call[c]
  PROVE  CallOk(c)' /\ call'[c] \in CallRec(Len(minted'), DOMAIN engine')
<1>0. call[c] \in CallRec(Len(minted), DOMAIN engine)
  BY Typed
<1>1. /\ call[c].engine # 0 => call[c].engine \in DOMAIN engine
      /\ call[c].tok # 0 => call[c].tok \in DOMAIN minted
  BY <1>0, Typed DEF CallRec
<1>2. CallOk(c)'
  BY <1>1 DEF CallOk, Grows
<1>3. call[c] \in CallRec(Len(minted'), DOMAIN engine')
  BY <1>0 DEF CallRec, Grows
<1> QED
  BY <1>2, <1>3

\* One call moves on.
LEMMA GrowCalls ==
  ASSUME TypeOK, Grows, \A d \in Calls : CallOk(d), NEW c \in Calls,
         NEW r \in CallRec(Len(minted'), DOMAIN engine'),
         call' = [call EXCEPT ![c] = r]
  PROVE  /\ call' \in [Calls -> CallRec(Len(minted'), DOMAIN engine')]
         /\ call'[c] = r
         /\ CallOk(c)' => \A d \in Calls : CallOk(d)'
<1>1. call'[c] = r /\ \A d \in Calls \ {c} : call'[d] = call[d]
  BY DEF TypeOK
<1>2. \A d \in Calls \ {c} : CallOk(d)' /\ call'[d] \in CallRec(Len(minted'), DOMAIN engine')
  BY <1>1, GrowCall
<1>3. call' \in [Calls -> CallRec(Len(minted'), DOMAIN engine')]
  BY <1>1, <1>2 DEF TypeOK
<1> QED
  BY <1>1, <1>2, <1>3

\* One engine moves on.
LEMMA GrowEngine ==
  ASSUME TypeOK, NEW e \in DOMAIN engine, NEW r \in EngineRec(Len(minted')),
         engine' = [engine EXCEPT ![e] = r],
         r.jwt = engine[e].jwt, engine[e].held # 0 => r.held # 0,
         UNCHANGED minted
         \/ \E j \in Jwts : minted' = Append(minted, j)
  PROVE  /\ Grows /\ DOMAIN engine' = DOMAIN engine
         /\ engine' \in Seq(EngineRec(Len(minted')))
         /\ engine'[e] = r /\ \A f \in DOMAIN engine \ {e} : engine'[f] = engine[f]
<1>0. /\ Len(minted) \in Nat /\ minted \in Seq(Jwts \cup {"unstamped"})
      /\ engine \in Seq(EngineRec(Len(minted)))
  BY Typed DEF TypeOK
<1>1. /\ DOMAIN minted \subseteq DOMAIN minted' /\ 0..Len(minted) \subseteq 0..Len(minted')
      /\ \A n \in DOMAIN minted : minted'[n] = minted[n]
  <2>1. CASE UNCHANGED minted
    BY <2>1
  <2>2. ASSUME NEW j \in Jwts, minted' = Append(minted, j)
        PROVE  /\ DOMAIN minted \subseteq DOMAIN minted' /\ Len(minted') = Len(minted) + 1
               /\ \A n \in DOMAIN minted : minted'[n] = minted[n]
    <3>1. \A n \in DOMAIN minted : minted[n] \in Jwts \cup {"unstamped"}
      BY Typed
    <3> QED
      BY <1>0, <2>2, <3>1, SeqAppend
  <2>3. Len(minted') = Len(minted) + 1 => 0..Len(minted) \subseteq 0..Len(minted')
    BY <1>0
  <2> QED
    BY <2>1, <2>2, <2>3
<1>2. \A f \in DOMAIN engine : engine[f] \in EngineRec(Len(minted'))
  BY <1>1, Typed DEF EngineRec
<1>3. engine' \in Seq(EngineRec(Len(minted')))
  BY <1>0, <1>2, SeqUpdate
<1>4. /\ DOMAIN engine' = DOMAIN engine /\ engine'[e] = r
      /\ \A f \in DOMAIN engine \ {e} : engine'[f] = engine[f]
  BY <1>0
<1>5. Grows
  BY <1>1, <1>4 DEF Grows
<1> QED
  BY <1>3, <1>4, <1>5

-----------------------------------------------------------------------------
(* The invariant, action by action.                                        *)

\* A call and its engine move on together.
LEMMA MoveInv ==
  ASSUME FedInv, NEW c \in Calls, NEW e \in DOMAIN engine, e = call[c].engine,
         NEW re \in EngineRec(Len(minted)), engine' = [engine EXCEPT ![e] = re],
         re.jwt = engine[e].jwt, engine[e].held # 0 => re.held # 0,
         re.held # 0 => minted[re.held] = re.jwt,
         NEW rc \in CallRec(Len(minted), DOMAIN engine), call' = [call EXCEPT ![c] = rc],
         rc.engine = e, rc.jwt = call[c].jwt, rc.pc # "idle",
         rc.pc \in {"loaded", "ok"} /\ rc.tok # 0 => minted[rc.tok] = rc.jwt,
         rc.pc = "ok" => rc.tok # 0 /\ re.held # 0,
         UNCHANGED <<clock, minted, age, store, cache, pending, denial, older>>
  PROVE  FedInv'
<1>0. TypeOK /\ CacheEarned /\ PendingClaimed /\ \A d \in Calls : CallOk(d)
  BY SMTT(30) DEF FedInv, EnginesAccounted
<1>1. /\ Grows /\ DOMAIN engine' = DOMAIN engine
      /\ engine' \in Seq(EngineRec(Len(minted')))
      /\ engine'[e] = re /\ \A f \in DOMAIN engine \ {e} : engine'[f] = engine[f]
  <2>1. UNCHANGED minted /\ re \in EngineRec(Len(minted'))
    OBVIOUS
  <2> QED
    BY <1>0, <2>1, GrowEngine, Zenon
<1>2. rc \in CallRec(Len(minted'), DOMAIN engine')
  BY <1>1
<1>3. /\ call' \in [Calls -> CallRec(Len(minted'), DOMAIN engine')]
      /\ call'[c] = rc
      /\ CallOk(c)' => \A d \in Calls : CallOk(d)'
  BY <1>0, <1>1, <1>2, GrowCalls, Zenon
<1>4. e # 0 /\ engine[e].jwt = call[c].jwt
  <2>1. 0 \notin DOMAIN engine
    BY <1>0, Typed, SMTT(30)
  <2> QED
    BY <1>0, <2>1 DEF CallOk
<1>5. \A d \in Calls : CallOk(d)'
  BY <1>1, <1>3, <1>4, SMTT(30) DEF CallOk
<1>6. \A d \in Calls : call'[d].engine = call[d].engine
  BY <1>0, <1>3 DEF TypeOK
<1>7. CacheEarned' /\ cache' \in Seq(DOMAIN engine') /\ Len(cache') <= Capacity
  BY <1>0, <1>1, GrowCache
<1>8. PendingClaimed' /\ pending' \in [Jwts -> {0} \cup DOMAIN engine']
  BY <1>0, <1>1, <1>6, GrowPending
<1>9. \A f \in DOMAIN engine' : EngineOk(f)'
  BY <1>1 DEF FedInv, EngineOk
<1>10. RefusalOk'
  BY <1>1 DEF FedInv, RefusalOk, IsFresh
<1>11. TypeOK'
  BY <1>0, <1>1, <1>3, <1>7, <1>8 DEF TypeOK
<1> QED
  BY <1>5, <1>7, <1>8, <1>9, <1>10, <1>11 DEF FedInv, EnginesAccounted

\* What is known of an unsettled call and its engine.
LEMMA CallFacts ==
  ASSUME FedInv, NEW c \in Calls, call[c].pc # "idle"
  PROVE  LET e == call[c].engine IN
         /\ e \in DOMAIN engine /\ e # 0
         /\ engine[e] \in EngineRec(Len(minted))
         /\ call[c] \in CallRec(Len(minted), DOMAIN engine)
         /\ engine[e].jwt = call[c].jwt
         /\ engine[e].held # 0 => minted[engine[e].held] = engine[e].jwt
         /\ engine \in Seq(EngineRec(Len(minted)))
<1>1. call[c] \in CallRec(Len(minted), DOMAIN engine) /\ CallOk(c)
  BY Typed DEF FedInv, EnginesAccounted
<1>2. call[c].engine \in DOMAIN engine /\ call[c].engine # 0
  BY <1>1, SMTT(30) DEF CallOk, CallRec
<1>3. engine[call[c].engine] \in EngineRec(Len(minted)) /\ EngineOk(call[c].engine)
  BY <1>2, Typed DEF FedInv, EnginesAccounted
<1>4. engine \in Seq(EngineRec(Len(minted)))
  BY SMTT(30) DEF FedInv, EnginesAccounted, TypeOK
<1> QED
  BY <1>1, <1>2, <1>3, <1>4 DEF CallOk, EngineOk

\* get_token decides, over a token of the engine's JWT.
LEMMA DecideInv ==
  ASSUME FedInv, NEW c \in Calls, call[c].pc \in Awaiting, NEW n \in 0..Len(minted),
         n # 0 => minted[n] = engine[call[c].engine].jwt,
         engine[call[c].engine].held # 0 => n # 0,
         Decide(c, n),
         UNCHANGED <<clock, minted, age, store, cache, pending, denial, older>>
  PROVE  FedInv'
<1> DEFINE e == call[c].engine
<1>0. /\ call[c].pc # "idle" /\ "joining" \in Awaiting /\ "parked" \in Awaiting
      /\ call[c].pc \notin {"ok", "idle"}
  BY SMTT(30) DEF Awaiting
<1>1. /\ e \in DOMAIN engine /\ engine[e] \in EngineRec(Len(minted))
      /\ call[c] \in CallRec(Len(minted), DOMAIN engine)
      /\ engine[e].jwt = call[c].jwt
  BY <1>0, CallFacts
<1>2. ASSUME NEW re, NEW rc, engine' = [engine EXCEPT ![e] = re],
             call' = [call EXCEPT ![c] = rc],
             re \in EngineRec(Len(minted)), re.jwt = engine[e].jwt, re.held = n,
             \/ rc = [call[c] EXCEPT !.pc = "joining"]
             \/ rc = [call[c] EXCEPT !.pc = "parked"]
             \/ rc = Failed(call[c], "replayed")
             \/ n # 0 /\ rc = Answered(call[c], n)
      PROVE  FedInv'
  <2>1. /\ rc \in CallRec(Len(minted), DOMAIN engine)
        /\ rc.engine = e /\ rc.jwt = call[c].jwt
        /\ rc.pc \notin {"idle", "loaded"}
        /\ rc.pc = "ok" => n # 0 /\ rc.tok = n
    <3>1. CASE rc = [call[c] EXCEPT !.pc = "joining"] \/ rc = [call[c] EXCEPT !.pc = "parked"]
      BY <1>0, <1>1, <3>1 DEF CallRec
    <3>2. CASE rc = Failed(call[c], "replayed")
      BY <1>0, <1>1, <3>2, Zenon DEF CallRec, Failed
    <3>3. CASE n # 0 /\ rc = Answered(call[c], n)
      BY <1>0, <1>1, <3>3, Zenon DEF CallRec, Answered
    <3> QED
      BY <1>2, <3>1, <3>2, <3>3
  <2>2. /\ engine[e].held # 0 => re.held # 0
        /\ re.held # 0 => minted[re.held] = re.jwt
        /\ rc.pc \in {"loaded", "ok"} /\ rc.tok # 0 => minted[rc.tok] = rc.jwt
        /\ rc.pc = "ok" => rc.tok # 0 /\ re.held # 0
        /\ rc.pc # "idle" /\ e = call[c].engine
    BY <1>1, <1>2, <2>1
  <2> HIDE DEF e
  <2> QED
    BY <1>1, <1>2, <2>1, <2>2, MoveInv, Zenon
<1>3. CASE /\ engine' = [engine EXCEPT ![e] = [@ EXCEPT !.held = n, !.denied = NoDenial,
                           !.exchange = IF Usable(n) THEN "background" ELSE "blocking"]]
           /\ call' = [call EXCEPT ![c].pc = "joining"]
  <2> DEFINE re == [engine[e] EXCEPT !.held = n, !.denied = NoDenial,
                      !.exchange = IF Usable(n) THEN "background" ELSE "blocking"]
             rc == [call[c] EXCEPT !.pc = "joining"]
  <2>1. re \in EngineRec(Len(minted)) /\ re.jwt = engine[e].jwt /\ re.held = n
    <3>1. PICK x \in {"background", "blocking"} :
            x = IF Usable(n) THEN "background" ELSE "blocking"
      OBVIOUS
    <3>2. re = [engine[e] EXCEPT !.held = n, !.denied = NoDenial, !.exchange = x]
      BY <3>1
    <3> QED
      BY <1>1, <3>2, Zenon DEF EngineRec
  <2>2. engine' = [engine EXCEPT ![e] = re] /\ call' = [call EXCEPT ![c] = rc]
    BY <1>3
  <2> HIDE DEF re
  <2> QED
    BY <1>2, <2>1, <2>2, Zenon
<1>4. CASE /\ engine' = [engine EXCEPT ![e].held = n]
           /\ \E rc : /\ call' = [call EXCEPT ![c] = rc]
                      /\ \/ rc = [call[c] EXCEPT !.pc = "parked"]
                         \/ rc = Failed(call[c], "replayed")
                         \/ n # 0 /\ rc = Answered(call[c], n)
  <2> DEFINE re == [engine[e] EXCEPT !.held = n]
  <2>1. re \in EngineRec(Len(minted)) /\ re.jwt = engine[e].jwt /\ re.held = n
    BY <1>1, SMTT(30) DEF EngineRec
  <2>2. engine' = [engine EXCEPT ![e] = re]
    BY <1>4
  <2> HIDE DEF re
  <2> QED
    BY <1>2, <1>4, <2>1, <2>2, Zenon
<1> QED
  BY <1>3, <1>4, Zenon DEF Decide, Usable

\* A call alone moves on: it loads, or wakes up and is answered.
LEMMA AskInv ==
  ASSUME FedInv, NEW c \in Calls, call[c].pc \in Awaiting, Enter(c) \/ Relock(c) \/ Woken(c)
  PROVE  FedInv'
<1> DEFINE e == call[c].engine
<1>0. call[c].pc # "idle" /\ Awaiting \subseteq {"asking", "loaded", "joining", "parked", "woken"}
  BY SMTT(30) DEF Awaiting
<1>1. /\ e \in DOMAIN engine /\ engine[e] \in EngineRec(Len(minted))
      /\ call[c] \in CallRec(Len(minted), DOMAIN engine)
      /\ engine[e].jwt = call[c].jwt
      /\ engine[e].held # 0 => minted[engine[e].held] = engine[e].jwt
      /\ engine \in Seq(EngineRec(Len(minted)))
  BY <1>0, CallFacts, Zenon
<1>2. engine[e].held \in 0..Len(minted) /\ call[c].tok \in 0..Len(minted)
      /\ store \in 0..Len(minted)
  BY <1>1, ZenonT(30) DEF EngineRec, CallRec, FedInv, EnginesAccounted, TypeOK
<1>3. UNCHANGED <<clock, minted, age, store, cache, pending, denial, older>>
  BY SMTT(30) DEF Enter, Relock, Woken
<1>4. ASSUME NEW rc \in CallRec(Len(minted), DOMAIN engine), UNCHANGED engine,
             call' = [call EXCEPT ![c] = rc],
             rc.engine = e, rc.jwt = call[c].jwt, rc.pc # "idle",
             rc.pc \in {"loaded", "ok"} /\ rc.tok # 0 => minted[rc.tok] = rc.jwt,
             rc.pc = "ok" => rc.tok # 0 /\ engine[e].held # 0
      PROVE  FedInv'
  <2>1. engine' = [engine EXCEPT ![e] = engine[e]]
    BY <1>1, <1>4, SMTT(30)
  <2> QED
    BY <1>1, <1>3, <1>4, <2>1, MoveInv, ZenonT(60)
<1>5. CASE Enter(c) /\ (engine[e].held # 0 \/ IsFresh(engine[e].denied))
  BY <1>1, <1>2, <1>3, <1>5, DecideInv, Zenon DEF Enter
<1>6. CASE Enter(c) /\ ~(engine[e].held # 0 \/ IsFresh(engine[e].denied))
  <2> DEFINE t == BoundLoad(engine[e].jwt)
             rc == [call[c] EXCEPT !.pc = "loaded", !.tok = t]
  <2>1. t \in 0..Len(minted) /\ (t # 0 => minted[t] = call[c].jwt)
    BY <1>1, <1>2 DEF BoundLoad
  <2>2. call' = [call EXCEPT ![c] = rc] /\ UNCHANGED engine
    BY <1>6, Zenon DEF Enter
  <2> HIDE DEF t
  <2>3. /\ rc \in CallRec(Len(minted), DOMAIN engine) /\ rc.engine = e
        /\ rc.jwt = call[c].jwt /\ rc.pc = "loaded" /\ rc.tok = t
    BY <1>1, <2>1, Zenon DEF CallRec, Awaiting
  <2> HIDE DEF rc
  <2> QED
    BY <1>4, <2>1, <2>2, <2>3, Zenon
<1>7. CASE Relock(c)
  <2>1. CallOk(c)
    BY SMTT(30) DEF FedInv
  <2>2. /\ Reloaded(c) \in 0..Len(minted)
        /\ Reloaded(c) # 0 => minted[Reloaded(c)] = engine[e].jwt
        /\ engine[e].held # 0 => Reloaded(c) # 0
    BY <1>1, <1>2, <1>7, <2>1, ZenonT(30) DEF Relock, Reloaded, CallOk
  <2> QED
    BY <1>3, <1>7, <2>2, DecideInv, Zenon DEF Relock
<1>8. CASE Woken(c)
  <2>1. CASE Usable(engine[e].held)
    <3> DEFINE rc == Answered(call[c], engine[e].held)
    <3>1. call' = [call EXCEPT ![c] = rc] /\ UNCHANGED engine /\ engine[e].held # 0
      BY <1>8, <2>1, Zenon DEF Woken, Usable
    <3>2. /\ rc \in CallRec(Len(minted), DOMAIN engine) /\ rc.engine = e
          /\ rc.jwt = call[c].jwt /\ rc.pc = "ok" /\ rc.tok = engine[e].held
      BY <1>1, <1>2, Zenon DEF CallRec, Answered
    <3> HIDE DEF rc
    <3> QED
      BY <1>1, <1>4, <3>1, <3>2, Zenon
  <2>2. CASE ~Usable(engine[e].held)
    <3>1. PICK x \in {"replayed", "failed"} :
            call' = [call EXCEPT ![c] = Failed(call[c], x)] /\ UNCHANGED engine
      BY <1>8, <2>2, Zenon DEF Woken
    <3> DEFINE rc == Failed(call[c], x)
    <3>2. /\ rc \in CallRec(Len(minted), DOMAIN engine) /\ rc.engine = e
          /\ rc.jwt = call[c].jwt /\ rc.pc = "err"
      BY <1>1, <1>2, Zenon DEF CallRec, Failed
    <3> HIDE DEF rc
    <3>3. call' = [call EXCEPT ![c] = rc]
      BY <3>1 DEF rc
    <3> QED
      BY <1>4, <3>1, <3>2, <3>3, Zenon
  <2> QED
    BY <2>1, <2>2, SMTT(30)
<1> QED
  BY <1>5, <1>6, <1>7, <1>8

\* What a call may be told when the exchange it joined ends.
Told(c, e, k, held) ==
  /\ k \in CallRec(Len(minted'), DOMAIN engine')
  /\ k.engine = e /\ k.jwt = call[c].jwt /\ k.pc \in {"ok", "err"}
  /\ k.pc = "ok" => k.tok # 0 /\ minted'[k.tok] = k.jwt /\ held # 0

\* An exchange ends.
LEMMA ConcludeInv ==
  ASSUME FedInv, NEW e \in DOMAIN engine, NEW re \in EngineRec(Len(minted')),
         engine' = [engine EXCEPT ![e] = re],
         re.jwt = engine[e].jwt, engine[e].held # 0 => re.held # 0,
         re.held # 0 => minted'[re.held] = re.jwt,
         UNCHANGED minted \/ \E j \in Jwts : minted' = Append(minted, j),
         minted' \in Seq(Jwts \cup {"unstamped"}),
         age' \in [DOMAIN minted' -> {"fresh", "ageing", "dead"}],
         store' \in 0..Len(minted'),
         NEW answer, Conclude(e, answer),
         \A c \in Joining(e) : Told(c, e, answer[c], re.held),
         UNCHANGED <<clock, cache, pending, denial, older>>
  PROVE  FedInv'
<1>0. TypeOK /\ CacheEarned /\ PendingClaimed /\ \A d \in Calls : CallOk(d)
  BY SMTT(30) DEF FedInv, EnginesAccounted
<1>1. /\ Grows /\ DOMAIN engine' = DOMAIN engine
      /\ engine' \in Seq(EngineRec(Len(minted')))
      /\ engine'[e] = re /\ \A f \in DOMAIN engine \ {e} : engine'[f] = engine[f]
  BY <1>0, GrowEngine, ZenonT(30)
<1>2. ASSUME NEW c \in Calls
      PROVE  /\ call'[c] \in CallRec(Len(minted'), DOMAIN engine')
             /\ CallOk(c)' /\ call'[c].engine = call[c].engine
  <2>0. CallOk(c) /\ call[c] \in CallRec(Len(minted), DOMAIN engine)
    BY <1>0, Typed, SMTT(30)
  <2>1. CASE c \in Joining(e)
    <3>1. /\ call'[c] = answer[c] /\ call[c].engine = e /\ e # 0
          /\ call[c].jwt = engine[e].jwt /\ Told(c, e, answer[c], re.held)
      BY <2>0, <2>1 DEF Conclude, Joining, Claims, CallOk
    <3> QED
      BY <1>1, <3>1 DEF Told, CallOk
  <2>2. CASE c \notin Joining(e) /\ c \in Claims(e) /\ call[c].pc = "parked"
    <3> DEFINE k == [call[c] EXCEPT !.pc = "woken"]
    <3>1. call'[c] = k /\ call[c].engine = e /\ e # 0 /\ call[c].jwt = engine[e].jwt
      BY <2>0, <2>2 DEF Conclude, Claims, CallOk
    <3>2. /\ k.pc = "woken" /\ k.engine = e /\ k.jwt = call[c].jwt
          /\ k \in CallRec(Len(minted'), DOMAIN engine')
      BY <1>1, <2>0, <3>1, Zenon DEF CallRec, Awaiting, Grows
    <3> HIDE DEF k
    <3> QED
      BY <1>1, <3>1, <3>2 DEF CallOk
  <2>3. CASE call'[c] = call[c]
    BY <1>0, <1>1, <2>0, <2>3, GrowCall
  <2> QED
    BY <2>1, <2>2, <2>3 DEF Conclude
<1>3. call' \in [Calls -> CallRec(Len(minted'), DOMAIN engine')]
  <2>1. call' = [c \in Calls |-> call'[c]]
    BY DEF Conclude
  <2> QED
    BY <1>2, <2>1
<1>4. CacheEarned' /\ cache' \in Seq(DOMAIN engine') /\ Len(cache') <= Capacity
  BY <1>0, <1>1, GrowCache
<1>5. PendingClaimed' /\ pending' \in [Jwts -> {0} \cup DOMAIN engine']
  BY <1>0, <1>1, <1>2, GrowPending
<1>6. \A f \in DOMAIN engine' : EngineOk(f)'
  <2>1. EngineOk(e)'
    BY <1>1 DEF EngineOk
  <2>2. ASSUME NEW f \in DOMAIN engine \ {e} PROVE EngineOk(f)'
    <3>1. engine[f].held # 0 => engine[f].held \in DOMAIN minted
      BY <1>0, Typed, SMTT(30) DEF EngineRec
    <3> QED
      BY <1>1, <3>1 DEF EngineOk, FedInv, Grows
  <2> QED
    BY <1>1, <2>1, <2>2
<1>7. RefusalOk'
  BY <1>1 DEF FedInv, RefusalOk, IsFresh
<1>8. TypeOK'
  BY <1>0, <1>1, <1>3, <1>4, <1>5, SMTT(30) DEF TypeOK
<1> QED
  BY <1>2, <1>4, <1>5, <1>6, <1>7, <1>8 DEF FedInv, EnginesAccounted

\* The server answers, or does not.
LEMMA ExchangeInv ==
  ASSUME FedInv, NEW e \in DOMAIN engine, EngineStep(e)
  PROVE  FedInv'
<1>0. /\ TypeOK /\ engine[e] \in EngineRec(Len(minted)) /\ Len(minted) \in Nat
      /\ EngineOk(e) /\ DOMAIN minted = 1..Len(minted)
      /\ minted \in Seq(Jwts \cup {"unstamped"}) /\ clock \in 0..MaxTime
      /\ engine[e].jwt \in Jwts
  BY Typed, Zenon DEF FedInv, EnginesAccounted, TypeOK, EngineRec
<1>1. ASSUME NEW c \in Joining(e)
      PROVE  /\ call[c] \in CallRec(Len(minted), DOMAIN engine)
             /\ call[c].engine = e /\ call[c].jwt = engine[e].jwt
  <2>1. c \in Calls /\ call[c].engine = e /\ call[c].pc # "idle"
    BY SMTT(30) DEF Joining, Claims
  <2> QED
    BY <2>1, CallFacts, SMTT(30)
<1>2. CASE ExchangeOk(e)
  <2> DEFINE n == Len(minted) + 1
             re == [engine[e] EXCEPT !.held = n, !.exchange = "none", !.denied = NoDenial]
             answer == [c \in Joining(e) |-> Answered(call[c], n)]
  <2>1. /\ minted' = Append(minted, engine[e].jwt) /\ age' = Append(age, "fresh")
        /\ store' \in {store, n} /\ engine' = [engine EXCEPT ![e] = re]
        /\ Conclude(e, answer) /\ UNCHANGED <<clock, cache, pending, denial, older>>
    BY <1>2 DEF ExchangeOk
  <2>2. /\ minted' \in Seq(Jwts \cup {"unstamped"}) /\ Len(minted') = n
        /\ DOMAIN minted' = DOMAIN minted \cup {n} /\ minted'[n] = engine[e].jwt
    <3>1. \A k \in DOMAIN minted : minted[k] \in Jwts \cup {"unstamped"}
      BY <1>0, Typed, Zenon
    <3> QED
      BY <1>0, <2>1, <3>1, SeqAppend
  <2>3. age' \in [DOMAIN minted' -> {"fresh", "ageing", "dead"}]
    <3>1. age \in [1..Len(minted) -> {"fresh", "ageing", "dead"}]
      BY <1>0 DEF TypeOK
    <3>2. age \in Seq({"fresh", "ageing", "dead"}) /\ Len(age) = Len(minted)
      BY <1>0, <3>1
    <3>3. age' \in Seq({"fresh", "ageing", "dead"}) /\ Len(age') = Len(minted) + 1
      BY <2>1, <3>2, SeqFacts, AppendFacts
    <3>4. DOMAIN age' = 1..(Len(minted) + 1)
      BY <3>3, SeqFacts
    <3>5. DOMAIN minted' = 1..(Len(minted) + 1)
      BY <2>2, SeqFacts, Zenon
    <3> QED
      BY <3>3, <3>4, <3>5, SeqFacts
  <2>4. n # 0 /\ n \in 0..n /\ 0..Len(minted) \subseteq 0..n
    BY <1>0
  <2>5. store' \in 0..Len(minted')
    BY <1>0, <2>1, <2>2, <2>4 DEF TypeOK
  <2> HIDE DEF n
  <2>6. re \in EngineRec(Len(minted')) /\ re.jwt = engine[e].jwt /\ re.held = n
    BY <1>0, <2>2, <2>4, Zenon DEF EngineRec
  <2>7. DOMAIN engine' = DOMAIN engine
    BY <2>1, <1>0 DEF TypeOK
  <2> HIDE DEF re
  <2>8. ASSUME NEW c \in Joining(e) PROVE Told(c, e, answer[c], re.held)
    <3>1. answer[c] = Answered(call[c], n)
      BY SMTT(30)
    <3>2. /\ Answered(call[c], n) \in CallRec(Len(minted'), DOMAIN engine')
          /\ Answered(call[c], n).engine = e /\ Answered(call[c], n).jwt = call[c].jwt
          /\ Answered(call[c], n).pc = "ok" /\ Answered(call[c], n).tok = n
      BY <1>1, <2>2, <2>4, <2>7, Zenon DEF CallRec, Answered
    <3> QED
      BY <1>1, <2>2, <2>4, <2>6, <3>1, <3>2, Zenon DEF Told
  <2> HIDE DEF answer
  <2>9. /\ engine[e].held # 0 => re.held # 0
        /\ re.held # 0 => minted'[re.held] = re.jwt
        /\ \E j \in Jwts : minted' = Append(minted, j)
    BY <1>0, <2>1, <2>2, <2>4, <2>6, SMTT(30)
  <2> QED
    BY <2>1, <2>2, <2>3, <2>5, <2>6, <2>8, <2>9, ConcludeInv, Zenon
<1>3. ASSUME NEW err \in {"refused", "failed"}, ExchangeErr(e, err) PROVE FedInv'
  <2> DEFINE old == engine[e].held
             keeps == engine[e].exchange = "background" /\ Usable(old)
             answer == [c \in Joining(e) |-> IF keeps THEN Answered(call[c], old)
                                             ELSE Failed(call[c], err)]
  <2>1. PICK d \in {NoDenial} \cup 0..MaxTime :
          engine' = [engine EXCEPT ![e] = [@ EXCEPT !.exchange = "none", !.denied = d]]
    <3>1. CASE err = "refused"
      <4>1. engine' = [engine EXCEPT ![e] = [@ EXCEPT !.exchange = "none", !.denied = clock]]
        BY <1>3, <3>1 DEF ExchangeErr
      <4> QED
        BY <1>0, <4>1, Zenon
    <3>2. CASE err # "refused"
      <4>1. engine' = [engine EXCEPT ![e] = [@ EXCEPT !.exchange = "none", !.denied = engine[e].denied]]
        BY <1>3, <3>2 DEF ExchangeErr
      <4> QED
        BY <1>0, <4>1, Zenon DEF EngineRec
    <3> QED
      BY <3>1, <3>2, Zenon
  <2> DEFINE re == [engine[e] EXCEPT !.exchange = "none", !.denied = d]
  <2>2. /\ Conclude(e, answer) /\ engine' = [engine EXCEPT ![e] = re]
        /\ UNCHANGED <<clock, minted, age, store, cache, pending, denial, older>>
    BY <1>3, <2>1, ZenonT(30) DEF ExchangeErr
  <2>3. re \in EngineRec(Len(minted')) /\ re.jwt = engine[e].jwt /\ re.held = old
    BY <1>0, <2>2, Zenon DEF EngineRec
  <2>4. DOMAIN engine' = DOMAIN engine
    BY <2>2, <1>0 DEF TypeOK
  <2>5. old \in 0..Len(minted) /\ (old # 0 => minted[old] = engine[e].jwt)
    BY <1>0, SMTT(30) DEF EngineRec, EngineOk
  <2> HIDE DEF re
  <2>6. ASSUME NEW c \in Joining(e) PROVE Told(c, e, answer[c], re.held)
    <3>1. CASE keeps
      <4>1. answer[c] = Answered(call[c], old) /\ old # 0
        BY <3>1, Zenon DEF Usable
      <4>2. /\ Answered(call[c], old) \in CallRec(Len(minted), DOMAIN engine)
            /\ Answered(call[c], old).engine = e /\ Answered(call[c], old).jwt = call[c].jwt
            /\ Answered(call[c], old).pc = "ok" /\ Answered(call[c], old).tok = old
        BY <1>1, <2>5, Zenon DEF CallRec, Answered
      <4> HIDE DEF answer, old
      <4> QED
        BY <1>1, <2>2, <2>3, <2>4, <2>5, <4>1, <4>2 DEF Told
    <3>2. CASE ~keeps
      <4>1. answer[c] = Failed(call[c], err)
        BY <3>2, Zenon
      <4>2. /\ Failed(call[c], err) \in CallRec(Len(minted), DOMAIN engine)
            /\ Failed(call[c], err).engine = e /\ Failed(call[c], err).jwt = call[c].jwt
            /\ Failed(call[c], err).pc = "err"
        BY <1>1, Zenon DEF CallRec, Failed
      <4> HIDE DEF answer, old
      <4> QED
        BY <2>2, <2>4, <4>1, <4>2, SMTT(30) DEF Told
    <3> QED
      BY <3>1, <3>2, SMTT(30)
  <2>7. /\ engine[e].held # 0 => re.held # 0
        /\ re.held # 0 => minted'[re.held] = re.jwt
        /\ minted' \in Seq(Jwts \cup {"unstamped"})
        /\ age' \in [DOMAIN minted' -> {"fresh", "ageing", "dead"}]
        /\ store' \in 0..Len(minted')
    BY <1>0, <2>2, <2>3, <2>5, SMTT(30) DEF TypeOK
  <2> HIDE DEF answer, old, keeps
  <2> QED
    BY <2>2, <2>3, <2>6, <2>7, ConcludeInv, Zenon
<1> QED
  BY <1>2, <1>3, SMTT(30) DEF EngineStep

\* A call is over: its claim goes, and the pending entry with it if it is still
\* this engine.
LEMMA LeaveInv ==
  ASSUME FedInv, NEW c \in Calls, call[c].pc # "idle",
         call' = [call EXCEPT ![c] = Idle], pending' = Unpend(call[c].engine),
         UNCHANGED <<clock, minted, age, store, engine>>,
         denial' \in {NoDenial} \cup 0..MaxTime, RefusalOk',
         cache' \in Seq(DOMAIN engine), Len(cache') <= Capacity, OnePer(cache'),
         \A k \in DOMAIN cache' : \/ cache'[k] = call[c].engine /\ call[c].pc = "ok"
                                  \/ \E l \in DOMAIN cache : cache'[k] = cache[l]
  PROVE  FedInv'
<1> DEFINE e == call[c].engine
<1>0. TypeOK /\ CacheEarned /\ PendingClaimed /\ \A d \in Calls : CallOk(d)
  BY SMTT(30) DEF FedInv, EnginesAccounted
<1>1. Grows
  BY ZenonT(30) DEF Grows
<1>2. /\ Idle \in CallRec(Len(minted'), DOMAIN engine')
      /\ Idle.pc = "idle" /\ Idle.engine = 0
  <2>1. Len(minted) \in Nat
    BY <1>0, Typed
  <2> QED
    BY <2>1, SMTT(30) DEF Idle, CallRec
<1>3. /\ call' \in [Calls -> CallRec(Len(minted'), DOMAIN engine')]
      /\ call'[c] = Idle
      /\ CallOk(c)' => \A d \in Calls : CallOk(d)'
  BY <1>0, <1>1, <1>2, GrowCalls, ZenonT(30)
<1>4. \A d \in Calls : CallOk(d)'
  BY <1>2, <1>3, Zenon DEF CallOk
<1>5. e \in DOMAIN engine /\ e # 0 /\ CallOk(c)
  BY <1>0, CallFacts, Zenon
<1>6. PendingClaimed' /\ pending' \in [Jwts -> {0} \cup DOMAIN engine']
  <2>1. \A d \in Calls \ {c} : call'[d] = call[d]
    BY <1>0, Zenon DEF TypeOK
  <2>2. \A j \in Jwts : pending'[j] = IF pending[j] = e THEN 0 ELSE pending[j]
    BY SMTT(30) DEF Unpend
  <2>3. \A j \in Jwts : pending'[j] # 0 => \E d \in Calls : call'[d].engine = pending'[j]
    <3> SUFFICES ASSUME NEW j \in Jwts, pending'[j] # 0
                 PROVE  \E d \in Calls : call'[d].engine = pending'[j]
      BY SMTT(30)
    <3>1. pending'[j] = pending[j] /\ pending[j] # e /\ pending[j] # 0
      BY <2>2, SMTT(30)
    <3>2. PICK d \in Calls : call[d].engine = pending[j]
      BY <1>0, <3>1, SMTT(30) DEF PendingClaimed, Claims
    <3>3. call'[d].engine = pending'[j]
      BY <2>1, <3>1, <3>2
    <3> QED
      BY <3>3, SMTT(30)
  <2>4. pending' \in [Jwts -> {0} \cup DOMAIN engine']
    <3>1. pending' = [j \in Jwts |-> IF pending[j] = e THEN 0 ELSE pending[j]]
      BY SMTT(30) DEF Unpend
    <3> QED
      BY <1>0, <3>1 DEF TypeOK
  <2>5. \A j \in Jwts : pending'[j] # 0 => engine'[pending'[j]].jwt = j
    BY <1>0, <2>2, SMTT(30) DEF PendingClaimed
  <2> QED
    BY <2>3, <2>4, <2>5, SMTT(30) DEF PendingClaimed, Claims
<1>7. CacheEarned'
  <2>1. \A k \in DOMAIN cache' : engine'[cache'[k]].held # 0
    BY <1>0, <1>5, Zenon DEF CacheEarned, CallOk
  <2>2. \A i, k \in DOMAIN cache' : engine'[cache'[i]].jwt = engine'[cache'[k]].jwt => i = k
    BY SMTT(30) DEF OnePer
  <2> QED
    BY <2>1, <2>2, SMTT(30) DEF CacheEarned
<1>8. \A f \in DOMAIN engine' : EngineOk(f)'
  BY SMTT(30) DEF FedInv, EngineOk
<1>9. TypeOK'
  BY <1>0, <1>3, <1>6, SMTT(30) DEF TypeOK
<1> QED
  BY <1>4, <1>6, <1>7, <1>8, <1>9, Zenon DEF FedInv, EnginesAccounted

\* settle, and the drop of an unsettled claim.
LEMMA SettleInv ==
  ASSUME FedInv, NEW c \in Calls, SettleOk(c) \/ SettleErr(c) \/ Drop(c)
  PROVE  FedInv'
<1> DEFINE e == call[c].engine
<1>0. /\ call[c].pc # "idle" /\ call' = [call EXCEPT ![c] = Idle] /\ pending' = Unpend(e)
      /\ UNCHANGED <<clock, minted, age, store, engine>>
  BY SMTT(30) DEF SettleOk, SettleErr, Drop, Awaiting
<1>1. CacheType /\ denial \in {NoDenial} \cup 0..MaxTime /\ clock \in 0..MaxTime /\ RefusalOk
  BY Zenon DEF FedInv, EnginesAccounted, TypeOK, CacheEarned, CacheType, OnePer
<1>2. e \in DOMAIN engine
  BY <1>0, CallFacts, Zenon
<1> HIDE DEF e
<1>3. CASE SettleOk(c)
  <2>1. cache' = Insert(e) /\ call[c].pc = "ok" /\ UNCHANGED <<denial, older>>
    BY <1>3 DEF SettleOk, e
  <2>2. /\ cache' \in Seq(DOMAIN engine) /\ Len(cache') <= Capacity /\ OnePer(cache')
        /\ \A k \in DOMAIN cache' : cache'[k] = e \/ \E l \in DOMAIN cache : cache'[k] = cache[l]
    BY <1>1, <1>2, <2>1, InsertKeeps
  <2>3. RefusalOk' /\ denial' \in {NoDenial} \cup 0..MaxTime
    BY <1>0, <1>1, <2>1 DEF RefusalOk, IsFresh
  <2> QED
    BY <1>0, <2>1, <2>2, <2>3, LeaveInv, Zenon DEF e
<1>4. CASE SettleErr(c)
  <2>1. cache' = RemoveIf(e)
    BY <1>4, SMTT(30) DEF SettleErr, e
  <2>2. /\ cache' \in Seq(DOMAIN engine) /\ Len(cache') <= Capacity /\ OnePer(cache')
        /\ \A k \in DOMAIN cache' : \E l \in DOMAIN cache : cache'[k] = cache[l]
    BY <1>1, <2>1, RemoveIfKeeps, SMTT(30)
  <2>3. RefusalOk' /\ denial' \in {NoDenial} \cup 0..MaxTime
    BY <1>0, <1>1, <1>4, SMTT(30) DEF RefusalOk, IsFresh, SettleErr
  <2> QED
    BY <1>0, <2>2, <2>3, LeaveInv, Zenon DEF e
<1>5. CASE Drop(c)
  <2>1. UNCHANGED <<cache, denial, older>>
    BY <1>5 DEF Drop
  <2>2. RefusalOk'
    BY <1>0, <1>1, <2>1 DEF RefusalOk, IsFresh
  <2>3. /\ cache' \in Seq(DOMAIN engine) /\ Len(cache') <= Capacity /\ OnePer(cache')
        /\ \A k \in DOMAIN cache' : \E l \in DOMAIN cache : cache'[k] = cache[l]
        /\ denial' \in {NoDenial} \cup 0..MaxTime
    BY <1>1, <2>1, SMTT(30) DEF CacheType
  <2> QED
    BY <1>0, <2>2, <2>3, LeaveInv, Zenon DEF e
<1> QED
  BY <1>3, <1>4, <1>5, SMTT(30)

\* A call claims an engine of its JWT.
LEMMA ClaimInv ==
  ASSUME FedInv, NEW c \in Calls, call[c].pc = "idle", NEW j \in Jwts, Grows,
         NEW e \in DOMAIN engine', engine'[e].jwt = j, Claim(c, j, e),
         UNCHANGED <<clock, minted, age, store>>,
         engine' \in Seq(EngineRec(Len(minted))),
         \A f \in DOMAIN engine' : EngineOk(f)',
         UNCHANGED pending \/ pending' = [pending EXCEPT ![j] = e],
         cache' \in Seq(DOMAIN engine'), Len(cache') <= Capacity, CacheEarned',
         denial' \in {NoDenial} \cup 0..MaxTime, RefusalOk'
  PROVE  FedInv'
<1> DEFINE r == [pc |-> "asking", jwt |-> j, engine |-> e, tok |-> 0, err |-> "none"]
<1>0. TypeOK /\ CacheEarned /\ PendingClaimed /\ \A d \in Calls : CallOk(d)
  BY SMTT(30) DEF FedInv, EnginesAccounted
<1>1. /\ r \in CallRec(Len(minted'), DOMAIN engine')
      /\ r.pc = "asking" /\ r.engine = e /\ r.jwt = j
  <2>1. 0 \in 0..Len(minted')
    <3>1. Len(minted) \in Nat /\ minted' = minted
      BY <1>0, Typed, Zenon
    <3> QED
      BY <3>1, SMTT(30)
  <2> QED
    BY <2>1 DEF CallRec, Awaiting
<1>2. call' = [call EXCEPT ![c] = r]
  BY SMTT(30) DEF Claim
<1> HIDE DEF r
<1>3. /\ call' \in [Calls -> CallRec(Len(minted'), DOMAIN engine')]
      /\ call'[c] = r
      /\ CallOk(c)' => \A d \in Calls : CallOk(d)'
  BY <1>0, <1>1, <1>2, GrowCalls, Zenon
<1>4. e # 0
  <2>1. DOMAIN engine' = 1..Len(engine')
    BY SeqFacts, SMTT(30)
  <2> QED
    BY <2>1
<1>5. \A d \in Calls : CallOk(d)'
  BY <1>1, <1>3, <1>4, Zenon DEF CallOk
<1>6. call[c].engine = 0 /\ \A d \in Calls \ {c} : call'[d] = call[d]
  BY <1>0, <1>2, Zenon DEF CallOk, TypeOK
<1>7. CASE UNCHANGED pending
  <2>1. PendingClaimed' /\ pending' \in [Jwts -> {0} \cup DOMAIN engine']
    BY <1>0, <1>6, <1>7, GrowPending, SMTT(30)
  <2>2. TypeOK'
    BY <1>0, <1>3, <2>1, Zenon DEF TypeOK
  <2> QED
    BY <1>5, <2>1, <2>2, SMTT(30) DEF FedInv, EnginesAccounted
<1>8. CASE pending' = [pending EXCEPT ![j] = e]
  <2>1. pending \in [Jwts -> {0} \cup DOMAIN engine]
    BY <1>0, SMTT(30) DEF TypeOK
  <2>2. pending' \in [Jwts -> {0} \cup DOMAIN engine']
    BY <1>8, <2>1, SMTT(30) DEF Grows
  <2>3. pending'[j] = e /\ \A i \in Jwts \ {j} : pending'[i] = pending[i]
    BY <1>8, <2>1, Zenon
  <2>4. \A i \in Jwts : pending'[i] # 0 => \E d \in Calls : call'[d].engine = pending'[i]
    <3>1. call'[c].engine = pending'[j]
      BY <1>1, <1>3, <2>3, Zenon
    <3>2. ASSUME NEW i \in Jwts \ {j}, pending'[i] # 0
          PROVE  \E d \in Calls : call'[d].engine = pending'[i]
      <4>1. PICK d \in Calls : call[d].engine = pending[i]
        BY <1>0, <2>3, <3>2, SMTT(30) DEF PendingClaimed, Claims
      <4>2. d # c
        BY <1>6, <2>3, <3>2, <4>1, Zenon
      <4> QED
        BY <1>6, <2>3, <4>1, <4>2, SMTT(30)
    <3> QED
      BY <3>1, <3>2, SMTT(30)
  <2>5. \A i \in Jwts : pending'[i] # 0 => engine'[pending'[i]].jwt = i
    <3>1. ASSUME NEW i \in Jwts, pending[i] # 0
          PROVE  pending[i] \in DOMAIN engine /\ engine'[pending[i]].jwt = i
      <4>1. pending[i] \in DOMAIN engine
        BY <2>1, <3>1, Zenon
      <4> QED
        BY <1>0, <3>1, <4>1, Zenon DEF PendingClaimed, Grows
    <3> QED
      BY <1>0, <2>3, <3>1, Zenon
  <2>6. PendingClaimed'
    BY <2>4, <2>5, SMTT(30) DEF PendingClaimed, Claims
  <2>7. TypeOK'
    BY <1>0, <1>3, <2>2 DEF TypeOK
  <2> QED
    BY <1>5, <2>6, <2>7, Zenon DEF FedInv, EnginesAccounted
<1> QED
  BY <1>7, <1>8, SMTT(30)

\* engine_for.
LEMMA EngineForInv ==
  ASSUME FedInv, NEW c \in Calls, NEW j \in Jwts, EngineFor(c, j)
  PROVE  FedInv'
<1>0. TypeOK /\ CacheEarned /\ PendingClaimed /\ RefusalOk
      /\ (\A d \in Calls : CallOk(d)) /\ \A f \in DOMAIN engine : EngineOk(f)
  BY SMTT(30) DEF FedInv, EnginesAccounted
<1>1. call[c].pc = "idle" /\ UNCHANGED <<clock, minted, age, store>>
  BY Zenon DEF EngineFor
<1>2. engine \in Seq(EngineRec(Len(minted))) /\ denial \in {NoDenial} \cup 0..MaxTime
      /\ Len(minted) \in Nat /\ Len(engine) \in Nat /\ DOMAIN engine = 1..Len(engine)
  BY <1>0, Typed, SMTT(30) DEF TypeOK
<1>3. CacheType
  BY <1>0 DEF TypeOK, CacheEarned, CacheType, OnePer
<1>4. ASSUME UNCHANGED <<engine, denial>>
      PROVE  /\ Grows /\ RefusalOk' /\ (\A f \in DOMAIN engine' : EngineOk(f)')
             /\ denial' \in {NoDenial} \cup 0..MaxTime
             /\ engine' \in Seq(EngineRec(Len(minted)))
  <2>1. RefusalOk'
    BY <1>0, <1>1, <1>4, SMTT(30) DEF RefusalOk, IsFresh, EngineFor
  <2>2. \A f \in DOMAIN engine' : EngineOk(f)'
    BY <1>0, <1>1, <1>4 DEF EngineOk
  <2>3. Grows
    BY <1>1, <1>4, SMTT(30) DEF Grows
  <2> QED
    BY <1>2, <1>4, <2>1, <2>2, <2>3
<1>5. CASE Cached(j) # {}
  <2>1. PICK i \in Cached(j) : /\ Claim(c, j, cache[i]) /\ cache' = Touch(cache, i)
                               /\ UNCHANGED <<engine, pending, denial>>
    BY <1>5, Zenon DEF EngineFor
  <2>2. i \in DOMAIN cache /\ engine[cache[i]].jwt = j
    BY SMTT(30) DEF Cached
  <2>3. /\ cache' \in Seq(DOMAIN engine) /\ Len(cache') <= Capacity /\ OnePer(cache')
        /\ \A k \in DOMAIN cache' : \E l \in DOMAIN cache : cache'[k] = cache[l]
    BY <1>3, <2>1, <2>2, TouchKeeps, ZenonT(60)
  <2>4. CacheEarned'
    <3>1. \A k \in DOMAIN cache' : engine'[cache'[k]].held # 0
      <4>1. ASSUME NEW k \in DOMAIN cache' PROVE engine'[cache'[k]].held # 0
        <5>1. PICK l \in DOMAIN cache : cache'[k] = cache[l]
          BY <2>3, <4>1, Zenon
        <5>2. engine[cache[l]].held # 0
          BY <1>0, <5>1, Zenon DEF CacheEarned
        <5> QED
          BY <2>1, <5>1, <5>2, Zenon
      <4> QED
        BY <4>1, Zenon
    <3>2. \A k, l \in DOMAIN cache' : engine'[cache'[k]].jwt = engine'[cache'[l]].jwt => k = l
      BY <2>1, <2>3, SMTT(30) DEF OnePer
    <3> QED
      BY <3>1, <3>2, SMTT(30) DEF CacheEarned
  <2>5. cache[i] \in DOMAIN engine' /\ engine'[cache[i]].jwt = j
    BY <1>0, <2>1, <2>2, Typed, Zenon
  <2> QED
    BY <1>1, <1>4, <2>1, <2>3, <2>4, <2>5, ClaimInv, Zenon
<1>6. CASE Cached(j) = {} /\ pending[j] # 0
  <2>1. Claim(c, j, pending[j]) /\ UNCHANGED <<engine, cache, pending, denial>>
    BY <1>6, ZenonT(30) DEF EngineFor
  <2>2. pending[j] \in DOMAIN engine' /\ engine'[pending[j]].jwt = j
    BY <1>0, <1>6, <2>1 DEF PendingClaimed, TypeOK
  <2>3. CacheEarned' /\ cache' \in Seq(DOMAIN engine') /\ Len(cache') <= Capacity
    BY <1>0, <1>4, <2>1, GrowCache, SMTT(30)
  <2> QED
    BY <1>1, <1>4, <2>1, <2>2, <2>3, ClaimInv, Zenon
<1>7. CASE Cached(j) = {} /\ pending[j] = 0
  <2> DEFINE e == Len(engine) + 1
  <2>1. /\ engine' = Append(engine, NewEngine(j)) /\ pending' = [pending EXCEPT ![j] = e]
        /\ Claim(c, j, e) /\ UNCHANGED cache /\ denial' = NoDenial
    BY <1>7, SMTT(30) DEF EngineFor, Make
  <2>2. NewEngine(j).held = 0 /\ NewEngine(j).jwt = j
    BY <1>0, <2>1, MadeEngine, Zenon
  <2>3. /\ engine' \in Seq(EngineRec(Len(minted)))
        /\ DOMAIN engine' = DOMAIN engine \cup {e}
        /\ engine'[e] = NewEngine(j)
        /\ \A f \in DOMAIN engine : engine'[f] = engine[f]
    BY <1>0, <2>1, MadeEngine, Zenon
  <2> HIDE DEF e
  <2>4. Grows
    BY <1>1, <2>3, SMTT(30) DEF Grows
  <2>5. CacheEarned' /\ cache' \in Seq(DOMAIN engine') /\ Len(cache') <= Capacity
    BY <1>0, <2>1, <2>4, GrowCache, SMTT(30)
  <2>6. \A f \in DOMAIN engine' : EngineOk(f)'
    BY <1>0, <1>1, <2>2, <2>3, SMTT(30) DEF EngineOk
  <2>7. RefusalOk' /\ denial' \in {NoDenial} \cup 0..MaxTime
    BY <2>1, SMTT(30) DEF RefusalOk, IsFresh
  <2>8. e \in DOMAIN engine' /\ engine'[e].jwt = j
    BY <2>2, <2>3
  <2> QED
    BY <1>1, <2>1, <2>3, <2>4, <2>5, <2>6, <2>7, <2>8, ClaimInv, Zenon
<1> QED
  BY <1>5, <1>6, <1>7

-----------------------------------------------------------------------------
(* Time.                                                                   *)

\* Tokens age, and refusals go stale.
LEMMA TimeInv ==
  ASSUME FedInv, Tick \/ (\E n \in DOMAIN minted : Older(n)) \/ UNCHANGED vars
  PROVE  FedInv'
<1>0. TypeOK /\ CacheEarned /\ PendingClaimed /\ RefusalOk
  BY Zenon DEF FedInv, EnginesAccounted
<1>1. UNCHANGED <<minted, store, engine, cache, pending, denial, call, older>>
  BY SMTT(30) DEF Tick, Older, vars
<1>2. clock' \in 0..MaxTime /\ clock' >= clock
  <2>1. clock \in 0..MaxTime /\ MaxTime \in Nat
    BY <1>0, FederationAssumption, Zenon DEF TypeOK
  <2>2. CASE clock' = clock
    BY <2>1, <2>2
  <2>3. CASE Tick
    BY <2>1, <2>3 DEF Tick
  <2> QED
    BY <2>2, <2>3, Zenon DEF Older, vars
<1>3. age' \in [DOMAIN minted -> {"fresh", "ageing", "dead"}]
  BY <1>0, Zenon DEF TypeOK, Tick, Older, vars
<1>4. TypeOK'
  BY <1>0, <1>1, <1>2, <1>3 DEF TypeOK
<1>5. RefusalOk'
  <2>0. clock \in Int /\ clock' \in Int /\ DENIAL_TTL \in Int /\ denial \in Int
    BY <1>0, <1>2, FederationAssumption DEF TypeOK
  <2>1. IsFresh(denial)' => IsFresh(denial)
    <3>1. denial' = denial /\ clock' >= clock
      BY <1>1, <1>2
    <3>2. \A a, b, d, t \in Int : b >= a /\ b - d < t => a - d < t
      OBVIOUS
    <3>3. clock' - denial < DENIAL_TTL => clock - denial < DENIAL_TTL
      BY <2>0, <3>1, <3>2, Zenon
    <3> QED
      BY <3>1, <3>3 DEF IsFresh
  <2> QED
    BY <1>0, <1>1, <2>1 DEF RefusalOk
<1>6. PendingClaimed' /\ CacheEarned'
  <2>1. PendingClaimed'
    BY <1>0, <1>1 DEF PendingClaimed, Claims
  <2>2. CacheEarned'
    BY <1>0, <1>1 DEF CacheEarned
  <2> QED
    BY <2>1, <2>2, Zenon
<1>7. (\A c \in Calls : CallOk(c)') /\ \A e \in DOMAIN engine' : EngineOk(e)'
  BY <1>1, Zenon DEF FedInv, CallOk, EngineOk
<1> QED
  BY <1>4, <1>5, <1>6, <1>7 DEF FedInv, EnginesAccounted

-----------------------------------------------------------------------------
(* The theorems.                                                           *)

\* The invariant, over every step of every call, engine and clock.
LEMMA FedInvariant == Spec => []FedInv
<1>1. ASSUME Init PROVE FedInv
  <2>1. /\ minted \in Seq(Jwts \cup {"unstamped"}) /\ store \in 0..Len(minted)
        /\ Len(minted) \in Nat /\ DOMAIN minted = 1..Len(minted)
    <3>1. CASE minted = <<>> /\ store = 0
      BY <3>1
    <3>2. CASE minted \in [1..1 -> Jwts \cup {"unstamped"}] /\ store = 1
      <4>1. minted \in Seq(Jwts \cup {"unstamped"})
        BY <3>2, SeqOf, ZenonT(30)
      <4>2. Len(minted) = 1
        BY <3>2, <4>1, SeqFacts
      <4> QED
        BY <3>2, <4>1, <4>2
    <3> QED
      BY <1>1, <3>1, <3>2 DEF Init
  <2>2. engine = <<>> /\ cache = <<>> /\ DOMAIN engine = {} /\ DOMAIN cache = {}
    BY <1>1, EmptyFacts DEF Init
  <2>3. \A c \in Calls : call[c] = Idle /\ Idle \in CallRec(Len(minted), DOMAIN engine)
    <3>1. PICK n \in Nat : n = Len(minted)
      BY <2>1, Zenon
    <3>2. PICK D : D = DOMAIN engine
      OBVIOUS
    <3>3. Idle \in CallRec(n, D)
      BY DEF Idle, CallRec
    <3>4. \A c \in Calls : call[c] = Idle
      BY <1>1, Zenon DEF Init
    <3> QED
      BY <3>1, <3>2, <3>3, <3>4, Zenon
  <2>4. call \in [Calls -> CallRec(Len(minted), DOMAIN engine)]
    BY <1>1, <2>3 DEF Init
  <2>5. /\ engine \in Seq(EngineRec(Len(minted)))
        /\ cache \in Seq(DOMAIN engine) /\ Len(cache) <= Capacity
    BY <2>2, FederationAssumption, SMTT(30)
  <2>6. TypeOK
    BY <1>1, <2>1, <2>4, <2>5, FederationAssumption DEF Init, TypeOK
  <2>7. PendingClaimed /\ CacheEarned /\ RefusalOk
    BY <1>1, <2>2 DEF Init, PendingClaimed, CacheEarned, RefusalOk
  <2>8. \A c \in Calls : CallOk(c)
    <3>0. Idle.pc = "idle" /\ Idle.engine = 0 /\ Idle.tok = 0
      BY DEF Idle
    <3>1. \A c \in Calls : call[c].pc = "idle" /\ call[c].engine = 0 /\ call[c].tok = 0
      BY <2>3, <3>0, Zenon
    <3> QED
      BY <3>1, Zenon DEF CallOk
  <2> QED
    BY <2>2, <2>6, <2>7, <2>8 DEF FedInv, EnginesAccounted
<1>2. ASSUME FedInv, [Next]_vars PROVE FedInv'
  <2>1. ASSUME NEW c \in Calls, NEW j \in Jwts, EngineFor(c, j) PROVE FedInv'
    BY <1>2, <2>1, EngineForInv
  <2>2. ASSUME NEW c \in Calls, Enter(c) \/ Relock(c) \/ Woken(c) PROVE FedInv'
    <3>1. call[c].pc \in Awaiting
      BY <2>2 DEF Enter, Relock, Woken, Awaiting
    <3> QED
      BY <1>2, <2>2, <3>1, AskInv
  <2>3. ASSUME NEW c \in Calls, SettleOk(c) \/ SettleErr(c) \/ Drop(c) PROVE FedInv'
    BY <1>2, <2>3, SettleInv
  <2>4. ASSUME NEW e \in DOMAIN engine, EngineStep(e) PROVE FedInv'
    BY <1>2, <2>4, ExchangeInv
  <2>5. CASE Tick \/ (\E n \in DOMAIN minted : Older(n)) \/ UNCHANGED vars
    BY <1>2, <2>5, TimeInv
  <2> QED
    BY <1>2, <2>1, <2>2, <2>3, <2>4, <2>5 DEF Next, CallStep
<1> QED
  BY <1>1, <1>2, PTL DEF Spec

\* OidcFederationStrategy::get_token never answers one user with the token of
\* another: not from the cache of engines, the shared store, a sibling's
\* exchange or a race between any number of calls.
THEOREM UsersIsolated == Spec => []Isolation
<1>1. FedInv => Isolation
  BY Zenon DEF FedInv, CallOk, Isolation
<1> QED
  BY <1>1, FedInvariant, PTL

\* InFlight and JwtCache account for every engine: the cache keeps to its
\* capacity, to one engine per JWT and to engines with a token, and no engine
\* stays in `pending` without a call that will settle it.
THEOREM EnginesAreAccounted == Spec => []EnginesAccounted
<1>1. FedInv => EnginesAccounted
  BY DEF FedInv
<1> QED
  BY <1>1, FedInvariant, PTL

\* JwtCache gives a slot up only to an engine that has a token, the least
\* recently used one first, or because the engine in it failed.
THEOREM SlotsAreEarned == Spec => SlotsEarned
<1> DEFINE Lost(e) ==
      \/ \E c \in Claims(e) : call[c].pc = "err"
      \/ LET new == cache'[Len(cache')] IN
         /\ engine'[new].held # 0
         /\ engine[e].jwt = engine'[new].jwt \/ e = Head(cache)
<1>1. ASSUME FedInv, [Next]_vars, NEW e \in Entries(cache) \ Entries(cache') PROVE Lost(e)
  <2>0. /\ TypeOK /\ CacheType /\ \A c \in Calls : CallOk(c)
    BY <1>1, Zenon DEF FedInv, EnginesAccounted, TypeOK, CacheEarned, CacheType, OnePer
  <2>1. PICK l \in DOMAIN cache : e = cache[l]
    BY <1>1, Zenon DEF Entries
  <2>2. ~\E k \in DOMAIN cache' : cache'[k] = e
    BY <1>1, SMTT(30) DEF Entries
  <2>3. CASE UNCHANGED cache
    BY <2>1, <2>2, <2>3, Zenon
  <2>4. ASSUME NEW c \in Calls, NEW j \in Jwts, EngineFor(c, j) PROVE Lost(e)
    <3>1. CASE \E i \in Cached(j) : cache' = Touch(cache, i)
      <4>1. PICK i \in DOMAIN cache : cache' = Touch(cache, i)
        BY <3>1, Zenon DEF Cached
      <4> QED
        <5>1. \E k \in DOMAIN cache' : cache'[k] = cache[l]
          BY <2>0, <4>1, TouchKeeps
        <5> QED
          BY <2>1, <2>2, <5>1, Zenon
    <3> QED
      BY <2>3, <2>4, <3>1, Zenon DEF EngineFor, Make
  <2>5. ASSUME NEW c \in Calls, SettleOk(c) PROVE Lost(e)
    <3> DEFINE f == call[c].engine
    <3>1. cache' = Insert(f) /\ engine' = engine /\ call[c].pc = "ok"
      BY <2>5, SMTT(30) DEF SettleOk
    <3>2. f \in DOMAIN engine /\ engine[f].held # 0
      <4>1. call[c] \in CallRec(Len(minted), DOMAIN engine)
        BY <2>0, Typed
      <4>2. CallOk(c)
        BY <2>0, SMTT(30)
      <4> QED
        BY <3>1, <4>1, <4>2, Zenon DEF CallOk, CallRec
    <3> HIDE DEF f
    <3>3. cache'[Len(cache')] = f /\ (engine[e].jwt = engine[f].jwt \/ e = Head(cache))
      <4>1. \/ \E k \in DOMAIN cache' : cache'[k] = cache[l]
            \/ /\ cache'[Len(cache')] = f
               /\ engine[cache[l]].jwt = engine[f].jwt \/ cache[l] = Head(cache)
        BY <2>0, <3>1, <3>2, InsertKeeps, ZenonT(30)
      <4> QED
        BY <2>1, <2>2, <4>1, Zenon
    <3> QED
      BY <3>1, <3>2, <3>3, ZenonT(30)
  <2>6. ASSUME NEW c \in Calls, SettleErr(c) PROVE Lost(e)
    <3>1. cache' = RemoveIf(call[c].engine) /\ call[c].pc = "err"
      BY <2>6, SMTT(30) DEF SettleErr
    <3>2. e = call[c].engine
      <4>1. cache[l] = call[c].engine \/ \E k \in DOMAIN cache' : cache'[k] = cache[l]
        BY <2>0, <3>1, RemoveIfKeeps, SMTT(30)
      <4> QED
        BY <2>1, <2>2, <4>1, Zenon
    <3> QED
      BY <3>1, <3>2, Zenon DEF Claims
  <2>7. ASSUME NEW c \in Calls, Enter(c) \/ Relock(c) \/ Woken(c) \/ Drop(c)
        PROVE  UNCHANGED cache
    BY <2>7 DEF Enter, Relock, Woken, Drop
  <2>8. ASSUME NEW f \in DOMAIN engine, EngineStep(f) PROVE UNCHANGED cache
    BY <2>8, SMTT(30) DEF EngineStep, ExchangeOk, ExchangeErr
  <2>9. Tick \/ (\E n \in DOMAIN minted : Older(n)) \/ UNCHANGED vars => UNCHANGED cache
    BY SMTT(30) DEF Tick, Older, vars
  <2> HIDE DEF Lost
  <2> QED
    BY <1>1, <2>3, <2>4, <2>5, <2>6, <2>7, <2>8, <2>9, SMTT(30) DEF Next, CallStep
<1>2. ASSUME FedInv, [Next]_vars PROVE [\A e \in Entries(cache) \ Entries(cache') : Lost(e)]_vars
  BY <1>1, <1>2, Zenon
<1> QED
  BY <1>2, FedInvariant, PTL DEF Spec, SlotsEarned

\* While a refusal of the account stands (DENIAL_TTL), the only engines that
\* may start an exchange are those made before it was recorded: engine_for
\* makes no new one.
THEOREM NoStormWhileRefused == Spec => NoStorm
<1> DEFINE Asks(e) == /\ engine'[e].exchange # "none"
                      /\ e \in DOMAIN engine => engine[e].exchange = "none"
<1>1. ASSUME FedInv, [Next]_vars, NEW e \in DOMAIN engine', Asks(e)
      PROVE  ~IsFresh(denial) \/ e \in older
  <2>0. TypeOK /\ RefusalOk
    BY <1>1, SMTT(30) DEF FedInv, EnginesAccounted
  <2>1. CASE e \in DOMAIN engine
    BY <2>0, <2>1 DEF RefusalOk
  <2>2. CASE DOMAIN engine' = DOMAIN engine
    BY <1>1, <2>1, <2>2, SMTT(30)
  <2>3. ASSUME NEW c \in Calls, NEW j \in Jwts, EngineFor(c, j)
        PROVE  e \in DOMAIN engine
    <3>1. CASE UNCHANGED engine
      BY <1>1, <3>1
    <3>2. CASE engine' = Append(engine, NewEngine(j))
      <4>1. /\ NewEngine(j).exchange = "none"
            /\ DOMAIN engine' = DOMAIN engine \cup {Len(engine) + 1}
            /\ engine'[Len(engine) + 1] = NewEngine(j)
        BY <2>0, <3>2, MadeEngine, Zenon
      <4> QED
        BY <1>1, <4>1, SMTT(30)
    <3> QED
      BY <2>3, <3>1, <3>2, Zenon DEF EngineFor, Make
  <2>4. ASSUME NEW c \in Calls, Enter(c) \/ Relock(c) PROVE DOMAIN engine' = DOMAIN engine
    BY <2>4, ZenonT(30) DEF Enter, Relock, Decide
  <2>5. ASSUME NEW c \in Calls, Woken(c) \/ SettleOk(c) \/ SettleErr(c) \/ Drop(c)
        PROVE  DOMAIN engine' = DOMAIN engine
    BY <2>5, Zenon DEF Woken, SettleOk, SettleErr, Drop
  <2>6. ASSUME NEW f \in DOMAIN engine, EngineStep(f) PROVE DOMAIN engine' = DOMAIN engine
    BY <2>6, SMTT(30) DEF EngineStep, ExchangeOk, ExchangeErr
  <2>7. Tick \/ (\E n \in DOMAIN minted : Older(n)) \/ UNCHANGED vars
        => DOMAIN engine' = DOMAIN engine
    BY Zenon DEF Tick, Older, vars
  <2> QED
    BY <1>1, <2>1, <2>2, <2>3, <2>4, <2>5, <2>6, <2>7, Zenon DEF Next, CallStep
<1>2. ASSUME FedInv, [Next]_vars
      PROVE  [\A e \in DOMAIN engine' : Asks(e) => ~IsFresh(denial) \/ e \in older]_vars
  BY <1>1, <1>2
<1> QED
  BY <1>2, FedInvariant, PTL DEF Spec, NoStorm

-----------------------------------------------------------------------------
(* Every engine is a TokenEngine.                                          *)

\* An exchange in the background has a token to fall back on: Decide starts one
\* only with a token that is still usable, and no step takes a token away.
Backed == \A e \in DOMAIN engine : engine[e].exchange = "background" => engine[e].held # 0

\* A step maps to a step of the abstract engine, or to none.
Implements(e) ==
  TokenEngineOf(e)!Next \/ UNCHANGED TokenEngineOf(e)!vars

\* An engine whose part of the state is left alone.
Still(e) == UNCHANGED <<HeldOf(e), StaleOf(e), ExchangingOf(e)>>

\* Which calls of an engine ask and which are served after one call has moved.
MovedTo(c, r, e) ==
  /\ AskingOf(e) \subseteq Calls /\ ServedOf(e) \subseteq Calls
  /\ AskingOf(e)' \subseteq Calls /\ ServedOf(e)' \subseteq Calls
  /\ \A d \in Calls \ {c} : /\ d \in AskingOf(e)' <=> d \in AskingOf(e)
                            /\ d \in ServedOf(e)' <=> d \in ServedOf(e)
  /\ c \in AskingOf(e)' <=> r.engine = e /\ r.pc \in Awaiting
  /\ c \in ServedOf(e)' <=> r.engine = e /\ r.pc = "ok"
  /\ c \in AskingOf(e) <=> call[c].engine = e /\ call[c].pc \in Awaiting
  /\ c \in ServedOf(e) <=> call[c].engine = e /\ call[c].pc = "ok"

\* What an engine holds is a token.
LEMMA HeldMinted ==
  ASSUME TypeOK, NEW e \in Engines
  PROVE  HeldOf(e) # 0 => HeldOf(e) \in DOMAIN minted
<1>1. CASE e \in DOMAIN engine
  <2>1. /\ engine[e] \in EngineRec(Len(minted)) /\ Len(minted) \in Nat
        /\ DOMAIN minted = 1..Len(minted)
    BY <1>1, Typed
  <2>2. engine[e].held \in 0..Len(minted)
    BY <2>1 DEF EngineRec
  <2>3. HeldOf(e) = engine[e].held
    BY <1>1 DEF HeldOf, EngineOf
  <2> QED
    BY <2>1, <2>2, <2>3
<1>2. CASE e \notin DOMAIN engine
  BY <1>2, Zenon DEF HeldOf, EngineOf
<1> QED
  BY <1>1, <1>2

\* Only the call that moves changes sides.
LEMMA Moved ==
  ASSUME TypeOK, NEW c \in Calls, NEW r, call' = [call EXCEPT ![c] = r], NEW e
  PROVE  MovedTo(c, r, e)
<1>1. call'[c] = r /\ \A d \in Calls \ {c} : call'[d] = call[d]
  BY DEF TypeOK
<1> QED
  BY <1>1, Zenon DEF AskingOf, ServedOf, Claims, MovedTo

\* An engine that none of this concerns.
LEMMA Unmoved ==
  ASSUME NEW e, Still(e), UNCHANGED <<AskingOf(e), ServedOf(e)>>
  PROVE  Implements(e)
BY DEF Implements, Still, TokenEngineOf!vars

\* A call has moved that is not of this engine.
LEMMA Elsewhere ==
  ASSUME TypeOK, NEW c \in Calls, NEW r, call' = [call EXCEPT ![c] = r], NEW e,
         call[c].engine # e, r.engine # e, Still(e)
  PROVE  Implements(e)
<1>0. MovedTo(c, r, e)
  BY Moved, Zenon
<1>1. /\ AskingOf(e) \subseteq Calls /\ AskingOf(e)' \subseteq Calls
      /\ \A d \in Calls : d \in AskingOf(e)' <=> d \in AskingOf(e)
  BY <1>0, SMTT(30) DEF MovedTo
<1>2. /\ ServedOf(e) \subseteq Calls /\ ServedOf(e)' \subseteq Calls
      /\ \A d \in Calls : d \in ServedOf(e)' <=> d \in ServedOf(e)
  BY <1>0 DEF MovedTo
<1>3. AskingOf(e)' = AskingOf(e) /\ ServedOf(e)' = ServedOf(e)
  BY <1>1, <1>2, SMTT(30)
<1> QED
  BY <1>3, Unmoved, SMTT(30)

\* A step that leaves the engines, the tokens and their ages alone.
LEMMA StillAll ==
  ASSUME UNCHANGED <<engine, age>>, NEW e
  PROVE  Still(e)
BY Zenon DEF Still, HeldOf, StaleOf, ExchangingOf, EngineOf

\* A step of one engine leaves the others alone.
LEMMA StillOther ==
  ASSUME NEW f, NEW r, engine' = [engine EXCEPT ![f] = r], UNCHANGED age, NEW e, e # f
  PROVE  Still(e)
<1>1. EngineOf(e)' = EngineOf(e)
  BY DEF EngineOf
<1> QED
  BY <1>1 DEF Still, HeldOf, StaleOf, ExchangingOf

\* engine_for: a call begins to ask the engine it claims.
LEMMA EngineForImplements ==
  ASSUME FedInv, NEW c \in Calls, NEW j \in Jwts, EngineFor(c, j), NEW e \in Engines
  PROVE  Implements(e)
<1>0. TypeOK /\ CallOk(c)
  BY SMTT(30) DEF FedInv, EnginesAccounted
<1>1. PICK f : Claim(c, j, f)
  BY Zenon DEF EngineFor, Make
<1> DEFINE r == [pc |-> "asking", jwt |-> j, engine |-> f, tok |-> 0, err |-> "none"]
<1>2. call' = [call EXCEPT ![c] = r] /\ r.pc = "asking" /\ r.engine = f
  BY <1>1, SMTT(30) DEF Claim
<1> HIDE DEF r
<1>3. call[c].engine = 0 /\ call[c].pc = "idle" /\ e # 0
  <2>1. call[c].pc = "idle"
    BY Zenon DEF EngineFor
  <2>2. e # 0
    BY DEF Engines
  <2> QED
    BY <1>0, <2>1, <2>2, Zenon DEF CallOk
<1>4. Still(e)
  <2>1. CASE UNCHANGED engine
    BY <2>1, StillAll, Zenon DEF EngineFor
  <2>2. CASE engine' = Append(engine, NewEngine(j))
    <3> DEFINE n == Len(engine) + 1
    <3>2. NewEngine(j).exchange = "none" /\ NewEngine(j).held = 0
      BY <1>0, <2>2, MadeEngine, Zenon
    <3>3. /\ DOMAIN engine' = DOMAIN engine \cup {n}
          /\ engine'[n] = NewEngine(j)
          /\ \A d \in DOMAIN engine : engine'[d] = engine[d]
      BY <1>0, <2>2, MadeEngine, Zenon
    <3>4. n \notin DOMAIN engine
      BY <1>0, <2>2, MadeEngine, Zenon
    <3> HIDE DEF n
    <3>5. /\ EngineOf(e).held = EngineOf(e)'.held
          /\ EngineOf(e).exchange = EngineOf(e)'.exchange
      BY <3>2, <3>3, <3>4, Zenon DEF EngineOf
    <3> QED
      BY <3>5, Zenon DEF Still, HeldOf, StaleOf, ExchangingOf, EngineFor
  <2> QED
    BY <2>1, <2>2, Zenon DEF EngineFor, Make
<1>5. CASE e # f
  BY <1>0, <1>2, <1>3, <1>4, <1>5, Elsewhere, Zenon
<1>6. CASE e = f
  <2>0. MovedTo(c, r, e)
    BY <1>0, <1>2, Moved, Zenon
  <2>1. /\ AskingOf(e) \subseteq Calls /\ ServedOf(e)' \subseteq Calls
        /\ \A d \in Calls \ {c} : /\ d \in AskingOf(e)' <=> d \in AskingOf(e)
                                  /\ d \in ServedOf(e)' <=> d \in ServedOf(e)
        /\ c \in AskingOf(e)' /\ c \notin ServedOf(e)'
    <3>1. "asking" \in Awaiting
      BY DEF Awaiting
    <3> QED
      BY <1>2, <1>6, <2>0, <3>1, Zenon DEF MovedTo
  <2>2. AskingOf(e) \subseteq AskingOf(e)' /\ ServedOf(e)' \subseteq ServedOf(e)
    BY <2>1
  <2>3. TokenEngineOf(e)!Ask
    BY <1>4, <2>2, SMTT(30) DEF TokenEngineOf!Ask, Still
  <2> QED
    BY <2>3 DEF Implements, TokenEngineOf!Next
<1> QED
  BY <1>5, <1>6

\* A call of engine f moves on within it: it still asks, or it leaves with a
\* token of the engine or with none.
LEMMA LeaveOf ==
  ASSUME TypeOK, NEW c \in Calls, NEW r, call' = [call EXCEPT ![c] = r],
         call[c].pc \in Awaiting, r.engine = call[c].engine \/ r.pc = "idle",
         NEW e, e = call[c].engine, r.pc = "ok" => HeldOf(e)' # 0
  PROVE  /\ TokenEngineOf(e)!Leave /\ AskingOf(e) # {}
         /\ r.pc \in Awaiting /\ r.engine = e => UNCHANGED <<AskingOf(e), ServedOf(e)>>
<1>1. /\ AskingOf(e) \subseteq Calls /\ ServedOf(e) \subseteq Calls
      /\ AskingOf(e)' \subseteq Calls /\ ServedOf(e)' \subseteq Calls
      /\ \A d \in Calls \ {c} : /\ d \in AskingOf(e)' <=> d \in AskingOf(e)
                                /\ d \in ServedOf(e)' <=> d \in ServedOf(e)
      /\ c \in AskingOf(e)' <=> r.engine = e /\ r.pc \in Awaiting
      /\ c \in ServedOf(e)' <=> r.engine = e /\ r.pc = "ok"
      /\ c \in AskingOf(e) /\ c \notin ServedOf(e)
  <2>1. "ok" \notin Awaiting
    BY SMTT(30) DEF Awaiting
  <2>2. MovedTo(c, r, e)
    BY Moved, Zenon
  <2> QED
    BY <2>1, <2>2, Zenon DEF MovedTo
<1>2. AskingOf(e)' \subseteq AskingOf(e) /\ ServedOf(e)' \ ServedOf(e) \subseteq {c}
  BY <1>1, Zenon
<1>3. ServedOf(e)' \ ServedOf(e) # {} => c \in ServedOf(e)' /\ c \notin AskingOf(e)'
  BY <1>1, <1>2 DEF Awaiting
<1>4. TokenEngineOf(e)!Leave
  <2>1. ServedOf(e)' \ ServedOf(e) \subseteq AskingOf(e) \ AskingOf(e)'
    BY <1>1, <1>2, <1>3, Zenon
  <2>2. ServedOf(e)' \ ServedOf(e) # {} => HeldOf(e)' # 0
    BY <1>1, <1>3, Zenon
  <2> QED
    BY <1>2, <2>1, <2>2, SMTT(30) DEF TokenEngineOf!Leave
<1>5. ASSUME r.pc \in Awaiting, r.engine = e
      PROVE  AskingOf(e)' = AskingOf(e) /\ ServedOf(e)' = ServedOf(e)
  <2>1. \A d \in Calls : /\ d \in AskingOf(e)' <=> d \in AskingOf(e)
                         /\ d \in ServedOf(e)' <=> d \in ServedOf(e)
    BY <1>1, <1>5, Zenon DEF Awaiting
  <2> QED
    BY <1>1, <2>1, Zenon
<1> QED
  BY <1>1, <1>4, <1>5, Zenon

\* A call leaves its engine, which is left alone.
LEMMA AnswerOf ==
  ASSUME TypeOK, NEW c \in Calls, NEW r, call' = [call EXCEPT ![c] = r],
         call[c].pc \in Awaiting, r.engine = call[c].engine \/ (r.engine = 0 /\ r.pc = "idle"),
         NEW e \in Engines, Still(e), r.pc = "ok" => HeldOf(call[c].engine) # 0
  PROVE  Implements(e)
<1>1. CASE e # call[c].engine
  <2>1. r.engine # e
    BY <1>1 DEF Engines
  <2> QED
    BY <1>1, <2>1, Elsewhere, Zenon
<1>2. CASE e = call[c].engine
  <2>1. TokenEngineOf(e)!Leave
    BY <1>2, LeaveOf, Zenon DEF Still
  <2>2. TokenEngineOf(e)!Answer
    BY <2>1, SMTT(30) DEF TokenEngineOf!Answer, Still
  <2> QED
    BY <2>2 DEF Implements, TokenEngineOf!Next
<1> QED
  BY <1>1, <1>2

\* What get_token decides: to start an exchange, or to answer, fail or wait.
Starts(c, n, re, rc) ==
  /\ n # 0 => age[n] # "fresh" /\ engine[call[c].engine].exchange = "none"
  /\ re.exchange \in {"background", "blocking"}
  /\ re.exchange = "background" => n # 0
  /\ rc.pc = "joining"

\* ... without an exchange of its own.
Stays(c, n, re, rc) ==
  /\ re.exchange = engine[call[c].engine].exchange
  /\ rc.pc \in {"ok", "err", "parked"} /\ (rc.pc = "ok" => n # 0)

\* get_token decides about its own engine and call only.
LEMMA DecideShape ==
  ASSUME FedInv, NEW c \in Calls, call[c].pc \in Awaiting, NEW n, Decide(c, n)
  PROVE  \E re, rc : /\ engine' = [engine EXCEPT ![call[c].engine] = re] /\ re.held = n
                     /\ call' = [call EXCEPT ![c] = rc] /\ rc.engine = call[c].engine
                     /\ Starts(c, n, re, rc) \/ Stays(c, n, re, rc)
<1> DEFINE e == call[c].engine
<1>0. call[c].pc # "idle"
  BY Zenon DEF Awaiting
<1>1. /\ engine[e] \in EngineRec(Len(minted))
      /\ call[c] \in CallRec(Len(minted), DOMAIN engine)
  BY <1>0, CallFacts, ZenonT(30)
<1>2. CASE /\ n # 0 => age[n] # "fresh" /\ engine[e].exchange = "none"
           /\ engine' = [engine EXCEPT ![e] = [@ EXCEPT !.held = n, !.denied = NoDenial,
                           !.exchange = IF Usable(n) THEN "background" ELSE "blocking"]]
           /\ call' = [call EXCEPT ![c].pc = "joining"]
  <2>1. PICK x \in {"background", "blocking"} :
          x = IF Usable(n) THEN "background" ELSE "blocking"
    OBVIOUS
  <2> DEFINE re == [engine[e] EXCEPT !.held = n, !.denied = NoDenial, !.exchange = x]
             rc == [call[c] EXCEPT !.pc = "joining"]
  <2>2. engine' = [engine EXCEPT ![e] = re] /\ call' = [call EXCEPT ![c] = rc]
    BY <1>2, <2>1
  <2>3. re.held = n /\ re.exchange = x /\ rc.pc = "joining" /\ rc.engine = e
    BY <1>1 DEF EngineRec, CallRec
  <2>4. x = "background" => n # 0
    BY <2>1 DEF Usable
  <2> HIDE DEF re, rc
  <2>5. Starts(c, n, re, rc)
    BY <1>2, <2>3, <2>4 DEF Starts
  <2> QED
    BY <2>2, <2>3, <2>5, Zenon
<1>3. CASE /\ engine' = [engine EXCEPT ![e].held = n]
           /\ \E rc : /\ call' = [call EXCEPT ![c] = rc]
                      /\ \/ rc = [call[c] EXCEPT !.pc = "parked"]
                         \/ rc = Failed(call[c], "replayed")
                         \/ n # 0 /\ rc = Answered(call[c], n)
  <2> DEFINE re == [engine[e] EXCEPT !.held = n]
  <2>1. PICK rc : /\ call' = [call EXCEPT ![c] = rc]
                  /\ \/ rc = [call[c] EXCEPT !.pc = "parked"]
                     \/ rc = Failed(call[c], "replayed")
                     \/ n # 0 /\ rc = Answered(call[c], n)
    BY <1>3, Zenon
  <2>2. rc.engine = e /\ rc.pc \in {"ok", "err", "parked"} /\ (rc.pc = "ok" => n # 0)
    BY <1>1, <2>1, Zenon DEF CallRec, Answered, Failed
  <2>3. engine' = [engine EXCEPT ![e] = re] /\ re.held = n /\ re.exchange = engine[e].exchange
    BY <1>1, <1>3 DEF EngineRec
  <2> HIDE DEF re
  <2>4. Stays(c, n, re, rc)
    BY <2>2, <2>3, Zenon DEF Stays
  <2> QED
    BY <2>1, <2>2, <2>3, <2>4, Zenon
<1> QED
  BY <1>2, <1>3, Zenon DEF Decide, Usable

\* get_token's decision is a step of the abstract engine: it begins an exchange,
\* adopts the stored token, or answers.
LEMMA DecideImplements ==
  ASSUME FedInv, Backed, NEW c \in Calls, call[c].pc \in Awaiting,
         Unlocked(call[c].engine), NEW n \in 0..Len(minted),
         engine[call[c].engine].held # 0 => n = engine[call[c].engine].held,
         Decide(c, n), UNCHANGED age, NEW e \in Engines
  PROVE  Implements(e)
<1> DEFINE f == call[c].engine
<1>0. TypeOK /\ call[c].pc # "idle" /\ {"joining", "parked"} \subseteq Awaiting
  BY Zenon DEF FedInv, EnginesAccounted, Awaiting
<1>1. f \in DOMAIN engine /\ engine[f] \in EngineRec(Len(minted))
  BY <1>0, CallFacts, Zenon
<1>2. PICK re, rc : /\ engine' = [engine EXCEPT ![f] = re] /\ re.held = n
                    /\ call' = [call EXCEPT ![c] = rc] /\ rc.engine = f
                    /\ Starts(c, n, re, rc) \/ Stays(c, n, re, rc)
  BY DecideShape, Zenon
<1>3. CASE e # f
  <2>1. Still(e)
    BY <1>2, <1>3, StillOther, Zenon
  <2> QED
    BY <1>0, <1>2, <1>3, <2>1, Elsewhere, Zenon
<1>4. CASE e = f
  <2>1. /\ HeldOf(e) = engine[f].held /\ HeldOf(e)' = n
        /\ ExchangingOf(e) = (engine[f].exchange # "none")
        /\ ExchangingOf(e)' = (re.exchange # "none")
    BY <1>1, <1>2, <1>4, Zenon DEF HeldOf, ExchangingOf, EngineOf
  <2>2. /\ engine[f].held # 0 => UNCHANGED <<HeldOf(e), StaleOf(e)>>
        /\ HeldOf(e) \in 0..Len(minted)
    BY <1>1, <2>1, Zenon DEF StaleOf, EngineRec
  <2>3. rc.pc = "ok" => HeldOf(e)' # 0
    BY <1>2, <2>1, ZenonT(30) DEF Starts, Stays
  <2>4. /\ TokenEngineOf(e)!Leave /\ AskingOf(e) # {}
        /\ rc.pc \in Awaiting => UNCHANGED <<AskingOf(e), ServedOf(e)>>
    BY <1>0, <1>2, <1>4, <2>3, LeaveOf, Zenon
  <2>5. CASE Starts(c, n, re, rc)
    <3>1. ~ExchangingOf(e) /\ ExchangingOf(e)'
      <4>1. engine[f].exchange = "background" => engine[f].held # 0
        BY <1>1, Zenon DEF Backed
      <4>2. engine[f].exchange = "none"
        BY <1>1, <2>5, <4>1, Zenon DEF Starts, Unlocked, EngineRec
      <4> QED
        BY <2>1, <2>5, <4>2, Zenon DEF Starts
    <3>2. UNCHANGED <<HeldOf(e), StaleOf(e)>> \/ HeldOf(e) = 0
      BY <2>1, <2>2, Zenon
    <3>3. HeldOf(e)' = 0 \/ StaleOf(e)'
      BY <2>1, <2>5, Zenon DEF Starts, StaleOf
    <3>4. UNCHANGED <<AskingOf(e), ServedOf(e)>>
      BY <1>0, <2>4, <2>5, ZenonT(30) DEF Starts
    <3>5. TokenEngineOf(e)!Begin
      BY <2>4, <3>1, <3>2, <3>3, <3>4, Zenon DEF TokenEngineOf!Begin
    <3> QED
      BY <3>5, Zenon DEF Implements, TokenEngineOf!Next
  <2>6. CASE Stays(c, n, re, rc)
    <3>1. UNCHANGED ExchangingOf(e)
      BY <2>1, <2>6, Zenon DEF Stays
    <3>2. CASE engine[f].held = 0 /\ n # 0
      <4>1. HeldOf(e) = 0 /\ HeldOf(e)' > 0
        <5>1. n \in Nat
          BY <1>0, Typed, Counted, Zenon
        <5>2. n > 0
          BY <3>2, <5>1, SMTT(30)
        <5> QED
          BY <2>1, <3>2, <5>2, Zenon
      <4>2. TokenEngineOf(e)!Adopt
        BY <2>4, <3>1, <4>1, Zenon DEF TokenEngineOf!Adopt
      <4> QED
        BY <4>2, Zenon DEF Implements, TokenEngineOf!Next
    <3>3. CASE ~(engine[f].held = 0 /\ n # 0)
      <4>1. UNCHANGED <<HeldOf(e), StaleOf(e)>>
        BY <2>1, <2>2, <3>3, Zenon DEF StaleOf
      <4>2. TokenEngineOf(e)!Answer
        BY <2>4, <3>1, <4>1, Zenon DEF TokenEngineOf!Answer
      <4> QED
        BY <4>2, Zenon DEF Implements, TokenEngineOf!Next
    <3> QED
      BY <3>2, <3>3, Zenon
  <2> QED
    BY <1>2, <2>5, <2>6, SMTT(30)
<1> QED
  BY <1>3, <1>4, Zenon

\* A call asks, loads, wakes up or is cancelled.
LEMMA AskImplements ==
  ASSUME FedInv, Backed, NEW c \in Calls, Enter(c) \/ Relock(c) \/ Woken(c) \/ Drop(c),
         NEW e \in Engines
  PROVE  Implements(e)
<1> DEFINE f == call[c].engine
<1>0. /\ TypeOK /\ call[c].pc \in Awaiting /\ call[c].pc # "idle" /\ UNCHANGED age
      /\ "loaded" \in Awaiting
  BY SMTT(30) DEF FedInv, EnginesAccounted, Awaiting, Enter, Relock, Woken, Drop
<1>1. /\ f \in DOMAIN engine /\ engine[f] \in EngineRec(Len(minted))
      /\ call[c] \in CallRec(Len(minted), DOMAIN engine)
  BY <1>0, CallFacts, Zenon
<1>2. engine[f].held \in 0..Len(minted) /\ call[c].tok \in 0..Len(minted)
  BY <1>1, Zenon DEF EngineRec, CallRec
<1>3. CASE Enter(c) /\ (engine[f].held # 0 \/ IsFresh(engine[f].denied))
  BY <1>0, <1>2, <1>3, DecideImplements, Zenon DEF Enter
<1>4. CASE Enter(c) /\ ~(engine[f].held # 0 \/ IsFresh(engine[f].denied))
  <2> DEFINE t == BoundLoad(engine[f].jwt)
             rc == [call[c] EXCEPT !.pc = "loaded", !.tok = t]
  <2>1. call' = [call EXCEPT ![c] = rc] /\ UNCHANGED engine
    BY <1>4, Zenon DEF Enter
  <2> HIDE DEF t
  <2>2. rc.engine = f /\ rc.pc = "loaded"
    BY <1>1 DEF CallRec
  <2> HIDE DEF rc
  <2>3. Still(e)
    BY <1>0, <2>1, StillAll
  <2> QED
    BY <1>0, <2>1, <2>2, <2>3, AnswerOf, Zenon
<1>5. CASE Relock(c)
  <2>1. /\ Reloaded(c) \in 0..Len(minted)
        /\ engine[f].held # 0 => Reloaded(c) = engine[f].held
    BY <1>2, Zenon DEF Reloaded
  <2> QED
    BY <1>0, <1>5, <2>1, DecideImplements, Zenon DEF Relock
<1>6. CASE Woken(c)
  <2>1. PICK rc : /\ call' = [call EXCEPT ![c] = rc]
                  /\ \/ Usable(engine[f].held) /\ rc = Answered(call[c], engine[f].held)
                     \/ \E x : rc = Failed(call[c], x)
    BY <1>6, Zenon DEF Woken
  <2>2. rc.engine = f /\ (rc.pc = "ok" => engine[f].held # 0)
    BY <1>1, <2>1, Zenon DEF CallRec, Answered, Failed, Usable
  <2>3. Still(e) /\ HeldOf(f) = engine[f].held
    BY <1>0, <1>1, <1>6, StillAll, Zenon DEF Woken, HeldOf, EngineOf
  <2> QED
    BY <1>0, <2>1, <2>2, <2>3, AnswerOf, Zenon
<1>7. CASE Drop(c)
  <2>1. call' = [call EXCEPT ![c] = Idle] /\ UNCHANGED engine
    BY <1>7 DEF Drop
  <2>2. Idle.engine = 0 /\ Idle.pc = "idle"
    BY Zenon DEF Idle
  <2>3. Still(e)
    BY <1>0, <2>1, StillAll
  <2> QED
    BY <1>0, <2>1, <2>2, <2>3, AnswerOf, Zenon
<1> QED
  BY <1>3, <1>4, <1>5, <1>6, <1>7, Zenon

\* A call settles: the engine sees no more of it.
LEMMA SettleImplements ==
  ASSUME FedInv, NEW c \in Calls, SettleOk(c) \/ SettleErr(c), NEW e \in Engines
  PROVE  Implements(e)
<1>0. TypeOK /\ call' = [call EXCEPT ![c] = Idle] /\ UNCHANGED <<engine, age>>
  BY Zenon DEF FedInv, EnginesAccounted, SettleOk, SettleErr
<1>1. Idle.engine = 0 /\ Idle.pc = "idle" /\ call[c].pc \notin Awaiting /\ e # 0
  <2>1. Idle.engine = 0 /\ Idle.pc = "idle"
    BY DEF Idle
  <2>2. e # 0
    BY DEF Engines
  <2>3. call[c].pc = "ok" \/ call[c].pc = "err"
    BY Zenon DEF SettleOk, SettleErr
  <2>4. call[c].pc \notin Awaiting
    BY <2>3, Zenon DEF Awaiting
  <2> QED
    BY <2>1, <2>2, <2>4, Zenon
<1>2. MovedTo(c, Idle, e)
  BY <1>0, Moved, Zenon
<1>3. AskingOf(e) \subseteq AskingOf(e)' /\ ServedOf(e)' \subseteq ServedOf(e)
  BY <1>1, <1>2, Zenon DEF MovedTo
<1>4. Still(e)
  BY <1>0, StillAll
<1>5. TokenEngineOf(e)!Ask
  BY <1>3, <1>4 DEF TokenEngineOf!Ask, Still
<1> QED
  BY <1>5 DEF Implements, TokenEngineOf!Next

\* What an exchange of engine f tells the calls that joined it: `h` is the token
\* that the engine holds then.
Tells(f, answer, h) ==
  \A c \in Joining(f) : /\ answer[c].engine = f /\ answer[c].pc \in {"ok", "err"}
                        /\ answer[c].pc = "ok" => h # 0

\* The calls of an engine when an exchange of engine f ends.
LEMMA Concluded ==
  ASSUME FedInv, NEW f \in DOMAIN engine, NEW answer, Conclude(f, answer),
         NEW h, Tells(f, answer, h), NEW e \in Engines
  PROVE  /\ e # f => UNCHANGED <<AskingOf(e), ServedOf(e)>>
         /\ e = f /\ HeldOf(e)' = h => TokenEngineOf(e)!Leave
<1>0. TypeOK /\ "ok" \notin Awaiting /\ {"joining", "parked", "woken"} \subseteq Awaiting
      /\ "err" \notin Awaiting
  BY SMTT(30) DEF FedInv, EnginesAccounted, Awaiting
<1>1. AskingOf(e) \subseteq Calls /\ ServedOf(e) \subseteq Calls
      /\ AskingOf(e)' \subseteq Calls /\ ServedOf(e)' \subseteq Calls
  BY Zenon DEF AskingOf, ServedOf, Claims
<1>2. ASSUME NEW c \in Calls
      PROVE  \/ call'[c] = call[c]
             \/ /\ c \in Joining(f) /\ call[c].engine = f /\ call[c].pc \in Awaiting
                /\ call'[c].engine = f /\ call'[c].pc \in {"ok", "err"}
                /\ call'[c].pc = "ok" => h # 0
             \/ /\ call[c].engine = f /\ call[c].pc = "parked"
                /\ call'[c].engine = f /\ call'[c].pc = "woken"
  <2>1. CASE c \in Joining(f)
    BY <1>0, <2>1 DEF Conclude, Joining, Claims, Tells
  <2>2. CASE c \notin Joining(f) /\ c \in Claims(f) /\ call[c].pc = "parked"
    <3>1. call'[c] = [call[c] EXCEPT !.pc = "woken"] /\ call[c].engine = f
      BY <2>2 DEF Conclude, Claims
    <3>2. call[c] \in CallRec(Len(minted), DOMAIN engine)
      BY <1>0, Typed
    <3> QED
      BY <2>2, <3>1, <3>2 DEF CallRec
  <2>3. CASE call'[c] = call[c]
    BY <2>3, Zenon
  <2> QED
    BY <2>1, <2>2, <2>3, Zenon DEF Conclude
<1>3. ASSUME e # f PROVE AskingOf(e)' = AskingOf(e) /\ ServedOf(e)' = ServedOf(e)
  <2>1. \A c \in Calls : /\ c \in AskingOf(e)' <=> c \in AskingOf(e)
                         /\ c \in ServedOf(e)' <=> c \in ServedOf(e)
    BY <1>2, <1>3, SMTT(30) DEF AskingOf, ServedOf, Claims
  <2> QED
    BY <1>1, <2>1, SMTT(30)
<1>4. ASSUME e = f, HeldOf(e)' = h PROVE TokenEngineOf(e)!Leave
  <2>1. ASSUME NEW c \in Calls
        PROVE  /\ c \in AskingOf(e)' => c \in AskingOf(e)
               /\ c \in ServedOf(e)' /\ c \notin ServedOf(e)
                  => c \in AskingOf(e) /\ c \notin AskingOf(e)' /\ h # 0
    BY <1>0, <1>2, <1>4, Zenon DEF AskingOf, ServedOf, Claims
  <2>2. AskingOf(e)' \subseteq AskingOf(e)
    BY <1>1, <2>1
  <2>3. ServedOf(e)' \ ServedOf(e) \subseteq AskingOf(e) \ AskingOf(e)'
    BY <1>1, <2>1
  <2>4. ServedOf(e)' \ ServedOf(e) # {} => HeldOf(e)' # 0
    BY <1>1, <1>4, <2>1
  <2> QED
    BY <2>2, <2>3, <2>4, SMTT(30) DEF TokenEngineOf!Leave
<1> QED
  BY <1>3, <1>4

\* The server's answer ends the exchange of one engine and is news to no other.
LEMMA ExchangeImplements ==
  ASSUME FedInv, NEW f \in DOMAIN engine, EngineStep(f), NEW e \in Engines
  PROVE  Implements(e)
<1>0. /\ TypeOK /\ engine[f] \in EngineRec(Len(minted)) /\ Len(minted) \in Nat
      /\ engine[f].held \in 0..Len(minted) /\ DOMAIN minted = 1..Len(minted)
  BY Typed, Zenon DEF FedInv, EnginesAccounted, EngineRec
<1>1. ASSUME NEW c \in Joining(f)
      PROVE  call[c] \in CallRec(Len(minted), DOMAIN engine) /\ call[c].engine = f
  BY <1>0, Typed, Zenon DEF Joining, Claims
<1>2. ASSUME NEW h, NEW re, engine' = [engine EXCEPT ![f] = re], re.held = h,
             re.exchange = "none", engine[f].exchange # "none",
             h > engine[f].held \/ (h = engine[f].held /\ UNCHANGED age),
             \A n \in DOMAIN minted : age'[n] = age[n],
             NEW answer, Conclude(f, answer), Tells(f, answer, h)
      PROVE  Implements(e)
  <2>0. /\ e # f => UNCHANGED <<AskingOf(e), ServedOf(e)>>
        /\ e = f /\ HeldOf(e)' = h => TokenEngineOf(e)!Leave
    BY <1>2, Concluded
  <2>1. CASE e # f
    <3>1. EngineOf(e)' = EngineOf(e)
      BY <1>2, <2>1, SMTT(30) DEF EngineOf
    <3>2. HeldOf(e) # 0 => HeldOf(e) \in DOMAIN minted
      BY <1>0, HeldMinted, Zenon
    <3>3. Still(e)
      BY <1>2, <3>1, <3>2, Zenon DEF Still, HeldOf, StaleOf, ExchangingOf
    <3> QED
      BY <2>0, <2>1, <3>3, Unmoved
  <2>2. CASE e = f
    <3>1. /\ HeldOf(e) = engine[f].held /\ HeldOf(e)' = h
          /\ ExchangingOf(e) /\ ~ExchangingOf(e)'
      BY <1>2, <2>2, Zenon DEF HeldOf, ExchangingOf, EngineOf
    <3>2. HeldOf(e)' > HeldOf(e) \/ UNCHANGED <<HeldOf(e), StaleOf(e)>>
      BY <1>2, <3>1, SMTT(30) DEF StaleOf
    <3>3. TokenEngineOf(e)!End
      BY <2>0, <2>2, <3>1, <3>2, Zenon DEF TokenEngineOf!End
    <3> QED
      BY <3>3 DEF Implements, TokenEngineOf!Next
  <2> QED
    BY <2>1, <2>2
<1>3. CASE ExchangeOk(f)
  <2> DEFINE n == Len(minted) + 1
             re == [engine[f] EXCEPT !.held = n, !.exchange = "none", !.denied = NoDenial]
             answer == [c \in Joining(f) |-> Answered(call[c], n)]
  <2>1. /\ age' = Append(age, "fresh") /\ engine' = [engine EXCEPT ![f] = re]
        /\ Conclude(f, answer) /\ engine[f].exchange # "none"
    BY <1>3 DEF ExchangeOk
  <2>2. \A k \in DOMAIN minted : age'[k] = age[k]
    <3>1. age \in [1..Len(minted) -> {"fresh", "ageing", "dead"}]
      BY <1>0, Zenon DEF TypeOK
    <3>2. age \in Seq({"fresh", "ageing", "dead"}) /\ Len(age) = Len(minted)
      <4>1. Len(minted) \in Nat
        BY <1>0, Zenon
      <4> QED
        BY <3>1, <4>1
    <3> QED
      BY <1>0, <2>1, <3>2, SeqFacts, AppendFacts
  <2>3. n > engine[f].held /\ n # 0
    BY <1>0
  <2> HIDE DEF n
  <2>4. re.held = n /\ re.exchange = "none"
    BY <1>0 DEF EngineRec
  <2> HIDE DEF re
  <2>5. Tells(f, answer, n)
    BY <1>1, <2>3, Zenon DEF CallRec, Answered, Tells
  <2> HIDE DEF answer
  <2> QED
    BY <1>2, <2>1, <2>2, <2>3, <2>4, <2>5, Zenon
<1>4. ASSUME NEW err \in {"refused", "failed"}, ExchangeErr(f, err) PROVE Implements(e)
  <2> DEFINE old == engine[f].held
             keeps == engine[f].exchange = "background" /\ Usable(old)
             answer == [c \in Joining(f) |-> IF keeps THEN Answered(call[c], old)
                                             ELSE Failed(call[c], err)]
  <2>1. PICK d :
          engine' = [engine EXCEPT ![f] = [@ EXCEPT !.exchange = "none", !.denied = d]]
    BY <1>4, Zenon DEF ExchangeErr
  <2> DEFINE re == [engine[f] EXCEPT !.exchange = "none", !.denied = d]
  <2>2. /\ engine' = [engine EXCEPT ![f] = re] /\ Conclude(f, answer)
        /\ engine[f].exchange # "none" /\ UNCHANGED age
    BY <1>4, <2>1, Zenon DEF ExchangeErr
  <2>3. re.held = old /\ re.exchange = "none"
    BY <1>0 DEF EngineRec
  <2> HIDE DEF re
  <2>4. Tells(f, answer, old)
    <3>1. CASE keeps
      BY <1>1, <3>1, Zenon DEF CallRec, Answered, Usable, Tells
    <3>2. CASE ~keeps
      BY <1>1, <3>2 DEF CallRec, Failed, Tells
    <3> QED
      BY <3>1, <3>2, Zenon
  <2> HIDE DEF answer
  <2> QED
    BY <1>2, <2>2, <2>3, <2>4, Zenon
<1> QED
  BY <1>3, <1>4 DEF EngineStep

\* A token gets older in the hands of the engines that hold it.
LEMMA TimeImplements ==
  ASSUME FedInv, Tick \/ (\E n \in DOMAIN minted : Older(n)) \/ UNCHANGED vars,
         NEW e \in Engines
  PROVE  Implements(e)
<1>1. UNCHANGED <<engine, call, minted>>
  BY Zenon DEF Tick, Older, vars
<1>2. /\ UNCHANGED <<AskingOf(e), ServedOf(e)>>
      /\ HeldOf(e)' = HeldOf(e) /\ ExchangingOf(e)' = ExchangingOf(e)
  BY <1>1, Zenon DEF AskingOf, ServedOf, Claims, HeldOf, ExchangingOf, EngineOf
<1>3. CASE UNCHANGED age
  BY <1>1, <1>2, <1>3, StillAll, Unmoved
<1>4. ASSUME NEW n \in DOMAIN minted, Older(n) PROVE Implements(e)
  <2>1. age \in [DOMAIN minted -> {"fresh", "ageing", "dead"}]
        /\ DOMAIN minted = 1..Len(minted) /\ Len(minted) \in Nat
    BY Typed, Zenon DEF FedInv, EnginesAccounted, TypeOK
  <2>2. age'[n] # "fresh" /\ \A m \in DOMAIN minted \ {n} : age'[m] = age[m]
    BY <1>4, <2>1, Zenon DEF Older
  <2>3. CASE HeldOf(e) = n
    <3>1. HeldOf(e) # 0 /\ StaleOf(e)'
      BY <1>2, <2>1, <2>2, <2>3 DEF StaleOf
    <3>2. TokenEngineOf(e)!Age
      BY <1>2, <3>1 DEF TokenEngineOf!Age
    <3> QED
      BY <3>2 DEF Implements, TokenEngineOf!Next
  <2>4. CASE HeldOf(e) # n
    <3>1. HeldOf(e) # 0 => HeldOf(e) \in DOMAIN minted
      BY HeldMinted DEF FedInv, EnginesAccounted
    <3>2. UNCHANGED StaleOf(e)
      BY <1>2, <2>2, <2>4, <3>1, Zenon DEF StaleOf
    <3> QED
      BY <1>2, <3>2, Unmoved, Zenon DEF Still
  <2> QED
    BY <2>3, <2>4
<1> QED
  BY <1>3, <1>4 DEF Tick, vars

\* No step takes an engine's token away, and a background exchange starts with one.
LEMMA BackedInv ==
  ASSUME FedInv, Backed, [Next]_vars
  PROVE  Backed'
<1>0. TypeOK
  BY DEF FedInv, EnginesAccounted
<1>1. CASE UNCHANGED engine
  BY <1>1 DEF Backed
<1>2. ASSUME NEW f \in DOMAIN engine, NEW re, engine' = [engine EXCEPT ![f] = re],
             re.exchange = "background" => re.held # 0
      PROVE  Backed'
  BY <1>2 DEF Backed
<1>3. ASSUME NEW c \in Calls, NEW j \in Jwts, EngineFor(c, j) PROVE Backed'
  <2>1. CASE engine' = Append(engine, NewEngine(j))
    <3>1. /\ NewEngine(j).exchange = "none"
          /\ DOMAIN engine' = DOMAIN engine \cup {Len(engine) + 1}
          /\ engine'[Len(engine) + 1] = NewEngine(j)
          /\ \A d \in DOMAIN engine : engine'[d] = engine[d]
      BY <1>0, <2>1, MadeEngine, Zenon
    <3> QED
      BY <3>1, Zenon DEF Backed
  <2> QED
    BY <1>1, <1>3, <2>1, Zenon DEF EngineFor, Make
<1>4. ASSUME NEW c \in Calls, Enter(c) \/ Relock(c) PROVE Backed'
  <2> DEFINE f == call[c].engine
  <2>0. call[c].pc \in Awaiting /\ call[c].pc # "idle"
    BY <1>4 DEF Enter, Relock, Awaiting
  <2>1. CASE UNCHANGED engine
    BY <1>1, <2>1
  <2>2. ASSUME NEW n, Decide(c, n), engine[f].held # 0 => n # 0 PROVE Backed'
    <3>1. PICK re, rc : /\ engine' = [engine EXCEPT ![f] = re] /\ re.held = n
                        /\ Starts(c, n, re, rc) \/ Stays(c, n, re, rc)
      BY <2>0, <2>2, DecideShape, Zenon
    <3>2. f \in DOMAIN engine
      BY <2>0, CallFacts, Zenon
    <3>3. re.exchange = "background" => re.held # 0
      BY <2>2, <3>1, <3>2 DEF Starts, Stays, Backed
    <3> QED
      BY <1>2, <3>1, <3>2, <3>3, Zenon
  <2>3. Enter(c) => UNCHANGED engine \/ Decide(c, engine[f].held)
    BY SMTT(30) DEF Enter
  <2>4. Relock(c) => Decide(c, Reloaded(c))
    BY Zenon DEF Relock
  <2>5. engine[f].held # 0 => Reloaded(c) # 0
    BY Zenon DEF Reloaded
  <2> QED
    BY <1>4, <2>1, <2>2, <2>3, <2>4, <2>5, Zenon
<1>5. ASSUME NEW f \in DOMAIN engine, EngineStep(f) PROVE Backed'
  <2>0. engine[f] \in EngineRec(Len(minted))
    BY <1>0, Typed
  <2>1. PICK x, y : engine' = [engine EXCEPT ![f] = [@ EXCEPT !.held = x, !.exchange = "none",
                                                              !.denied = y]]
               \/ engine' = [engine EXCEPT ![f] = [@ EXCEPT !.exchange = "none", !.denied = y]]
    <3>1. CASE ExchangeOk(f)
      BY <3>1, Zenon DEF ExchangeOk
    <3>2. ASSUME NEW err, ExchangeErr(f, err)
          PROVE  \E y : engine' = [engine EXCEPT ![f] = [@ EXCEPT !.exchange = "none",
                                                                  !.denied = y]]
      BY <3>2, Zenon DEF ExchangeErr
    <3> QED
      BY <1>5, <3>1, <3>2, Zenon DEF EngineStep
  <2> DEFINE r1 == [engine[f] EXCEPT !.held = x, !.exchange = "none", !.denied = y]
             r2 == [engine[f] EXCEPT !.exchange = "none", !.denied = y]
  <2>2. r1.exchange = "none" /\ r2.exchange = "none"
    BY <2>0 DEF EngineRec
  <2>3. engine' = [engine EXCEPT ![f] = r1] \/ engine' = [engine EXCEPT ![f] = r2]
    BY <2>1
  <2> HIDE DEF r1, r2
  <2> QED
    BY <1>2, <2>2, <2>3
<1>6. ASSUME NEW c \in Calls, Woken(c) \/ SettleOk(c) \/ SettleErr(c) \/ Drop(c)
      PROVE  UNCHANGED engine
  BY <1>6, Zenon DEF Woken, SettleOk, SettleErr, Drop
<1>7. Tick \/ (\E n \in DOMAIN minted : Older(n)) \/ UNCHANGED vars => UNCHANGED engine
  BY Zenon DEF Tick, Older, vars
<1> QED
  BY <1>1, <1>3, <1>4, <1>5, <1>6, <1>7 DEF Next, CallStep

\* Each engine of the strategy, seen on its own, is a TokenEngine: one exchange
\* at a time, begun only for a waiting call with no token or a stale one, and a
\* call leaves with a token only if its engine holds one.
THEOREM EnginesAreEngines == Spec => EnginesAreTokenEngines
<1>1. ASSUME Init PROVE Backed /\ EachBegins
  <2>1. DOMAIN engine = {} /\ \A c \in Calls : call[c] = Idle
    BY <1>1 DEF Init
  <2>2. Backed
    BY <2>1 DEF Backed
  <2>3. ASSUME NEW e \in Engines PROVE TokenEngineOf(e)!Init
    <3>1. EngineOf(e).held = 0 /\ EngineOf(e).exchange = "none"
      BY <2>1 DEF EngineOf
    <3>2. HeldOf(e) = 0 /\ StaleOf(e) = FALSE /\ ExchangingOf(e) = FALSE
      BY <3>1 DEF HeldOf, StaleOf, ExchangingOf
    <3>3. AskingOf(e) = {} /\ ServedOf(e) = {}
      BY <2>1, SMTT(30) DEF AskingOf, ServedOf, Claims, Idle, Engines
    <3>4. HeldOf(e) \in Nat
      BY <3>2
    <3>5. StaleOf(e) \in BOOLEAN
      BY <3>2, Zenon
    <3> QED
      BY <3>2, <3>3, <3>4, <3>5, Zenon DEF TokenEngineOf!Init
  <2> QED
    BY <2>2, <2>3 DEF EachBegins
<1>2. ASSUME FedInv, Backed, [Next]_vars, NEW e \in Engines PROVE Implements(e)
  <2>1. ASSUME NEW c \in Calls, NEW j \in Jwts, EngineFor(c, j) PROVE Implements(e)
    BY <1>2, <2>1, EngineForImplements
  <2>2. ASSUME NEW c \in Calls, Enter(c) \/ Relock(c) \/ Woken(c) \/ Drop(c)
        PROVE  Implements(e)
    BY <1>2, <2>2, AskImplements
  <2>3. ASSUME NEW c \in Calls, SettleOk(c) \/ SettleErr(c) PROVE Implements(e)
    BY <1>2, <2>3, SettleImplements
  <2>4. ASSUME NEW f \in DOMAIN engine, EngineStep(f) PROVE Implements(e)
    BY <1>2, <2>4, ExchangeImplements
  <2>5. CASE Tick \/ (\E n \in DOMAIN minted : Older(n)) \/ UNCHANGED vars
    BY <1>2, <2>5, TimeImplements
  <2> QED
    BY <1>2, <2>1, <2>2, <2>3, <2>4, <2>5 DEF Next, CallStep
<1>3. ASSUME FedInv, Backed, [Next]_vars PROVE [EachSteps]_vars
  BY <1>2, <1>3 DEF Implements, EachSteps, TokenEngineOf!vars
<1>4. Spec => []Backed
  <2>1. FedInv /\ Backed /\ [Next]_vars => Backed'
    BY BackedInv
  <2> QED
    BY <1>1, <2>1, FedInvariant, PTL DEF Spec
<1> QED
  BY <1>1, <1>3, <1>4, FedInvariant, PTL DEF Spec, EnginesAreTokenEngines
=============================================================================
