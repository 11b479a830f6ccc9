-------------------------- MODULE KeysetCacheProofs --------------------------
(***************************************************************************)
(* What the keyset cache promises for any number of keysets, names and     *)
(* concurrent selections, and any capacity.                                *)
(***************************************************************************)
EXTENDS KeysetCache, TLAPS

-----------------------------------------------------------------------------
(* The inductive invariant.                                                *)

\* The two indexes agree.
Index(c) ==
  /\ \A n \in Names : c.alias[n].id # None =>
       c.alias[n].id \in c.held /\ c.name[c.alias[n].id] = n
  /\ \A id \in Ids : c.name[id] # None =>
       id \in c.held /\ c.alias[c.name[id]].id = id

\* A binding is no later than the entry it names.
Behind(c) ==
  \A n \in Names : c.alias[n].id # None => c.alias[n].order <= c.order[c.alias[n].id]

\* The order of use lists each entry but the default's, once.
Distinct(s) == \A i, k \in DOMAIN s : s[i] = s[k] => i = k
Listed(s)   == {s[i] : i \in DOMAIN s}
UseOk(c)    == Distinct(c.lru) /\ Listed(c.lru) = c.held \ {Default}

\* What every operation of the cache keeps.
Sound(c) == c \in Cache /\ Index(c) /\ Behind(c) /\ UseOk(c)

\* A lookup in flight has a ticket of its own: no other lookup has it, and no
\* answer that has landed had it.
FlightOk(s) ==
  LET q == sel[s] IN
  q.pc # "idle" =>
    /\ q.by \in Ids \cup Names /\ q.ticket \in 1..resolutions
    /\ q.pc = "answered" /\ q.answer = None => q.by \in Names
    /\ \A t \in Selections \ {s} : sel[t].pc # "idle" => sel[t].ticket # q.ticket
    /\ \A id \in Ids : spoken[id] # q.ticket
    /\ \A n \in Names : ruled[n] # q.ticket

\* The latest answer applied to a keyset is remembered by its entry or by the
\* watermark, and so is the latest answer about a name (by its binding or by
\* the watermark), except for a name whose keyset took another one.
Remembered ==
  /\ \A id \in Ids : \/ spoken[id] <= cache.watermark
                     \/ id \in cache.held /\ spoken[id] <= cache.order[id]
  /\ \A n \in Names \ left : \/ ruled[n] <= cache.watermark
                             \/ ruled[n] <= cache.alias[n].order

\* The keyset the latest ruling bound a name to stands in the index, with the
\* place of that ruling in the order.
Kept ==
  \A n \in Names : meant[n] # None =>
    cache.alias[n].id = meant[n] /\ cache.alias[n].order = ruled[n]

OrderInv ==
  /\ TypeOK /\ Sound(cache) /\ Len(cache.lru) <= Capacity
  /\ \A s \in Selections : FlightOk(s)
  /\ (\A id \in Ids : spoken[id] <= resolutions) /\ \A n \in Names : ruled[n] <= resolutions
  /\ Remembered /\ Kept

-----------------------------------------------------------------------------
(* The order of use.                                                       *)

\* What it takes to be a sequence over a set.
LEMMA SeqFacts ==
  ASSUME NEW S, NEW s \in Seq(S)
  PROVE  Len(s) \in Nat /\ DOMAIN s = 1..Len(s) /\ \A i \in DOMAIN s : s[i] \in S
OBVIOUS

\* A function on 1..n is a sequence.
LEMMA SeqOf ==
  ASSUME NEW S, NEW n \in Nat, NEW f \in [1..n -> S]
  PROVE  f \in Seq(S) /\ Len(f) = n
OBVIOUS

\* The empty sequence.
LEMMA EmptyFacts ==
  ASSUME NEW S PROVE <<>> \in Seq(S) /\ Len(<<>>) = 0 /\ DOMAIN <<>> = {}
OBVIOUS

\* A sequence with an entry added at the end.
LEMMA AppendFacts ==
  ASSUME NEW S, NEW s \in Seq(S), NEW e \in S
  PROVE  /\ Append(s, e) \in Seq(S) /\ Len(Append(s, e)) = Len(s) + 1
         /\ Append(s, e)[Len(s) + 1] = e /\ \A i \in 1..Len(s) : Append(s, e)[i] = s[i]
OBVIOUS

\* A sequence without its first entry.
LEMMA TailFacts ==
  ASSUME NEW S, NEW s \in Seq(S), s # <<>>
  PROVE  /\ Head(s) \in S /\ Head(s) = s[1] /\ Tail(s) \in Seq(S)
         /\ Len(Tail(s)) = Len(s) - 1 /\ \A i \in 1..Len(Tail(s)) : Tail(s)[i] = s[i + 1]
OBVIOUS

\* A position that is not the last one.
LEMMA NotLast ==
  ASSUME NEW n \in Nat, NEW l \in 1..n, l # n
  PROVE  l \in 1..(n - 1)
OBVIOUS

\* Where the entries of a sequence go when the one at k is taken out: nowhere
\* but over k, and no two to the same place.
LEMMA Shifted ==
  ASSUME NEW n \in Nat, NEW k \in 1..n, NEW i \in 1..(n - 1)
  PROVE  /\ (IF i < k THEN i ELSE i + 1) \in 1..n
         /\ k # (IF i < k THEN i ELSE i + 1)
         /\ \A l \in 1..(n - 1) :
              i < l => (IF l < k THEN l ELSE l + 1) # (IF i < k THEN i ELSE i + 1)
OBVIOUS

\* touch makes an id the last one, and loses none.
LEMMA MoveFacts ==
  ASSUME NEW S, NEW s \in Seq(S), Distinct(s), NEW id \in S
  PROVE  LET r == MoveToEnd(s, id) IN
         /\ r \in Seq(S) /\ Distinct(r) /\ Listed(r) = Listed(s) \cup {id}
         /\ id \in Listed(s) => Len(r) = Len(s)
         /\ id \notin Listed(s) => Len(r) = Len(s) + 1
<1> DEFINE at == {i \in DOMAIN s : s[i] = id}
           k == CHOOSE i \in at : TRUE
           r == MoveToEnd(s, id)
<1>0. Len(s) \in Nat /\ DOMAIN s = 1..Len(s) /\ \A i \in DOMAIN s : s[i] \in S
  BY SeqFacts
<1>1. CASE at = {}
  <2>1. r = Append(s, id)
    BY <1>1 DEF MoveToEnd
  <2>2. /\ r \in Seq(S) /\ Len(r) = Len(s) + 1 /\ r[Len(s) + 1] = id
        /\ \A i \in 1..Len(s) : r[i] = s[i]
    BY <2>1, SeqFacts, AppendFacts
  <2>3. DOMAIN r = 1..(Len(s) + 1)
    BY <2>2, SeqFacts
  <2>4. id \notin Listed(s)
    BY <1>1 DEF Listed
  <2> HIDE DEF r
  <2>5. Distinct(r)
    BY <1>0, <1>1, <2>2, <2>3 DEF Distinct
  <2>6. \A x : x \in Listed(r) <=> x \in Listed(s) \/ x = id
    BY <1>0, <2>2, <2>3 DEF Listed
  <2>7. Listed(r) = Listed(s) \cup {id}
    BY <2>6
  <2> QED
    BY <2>2, <2>4, <2>5, <2>7 DEF r
<1>2. CASE at # {}
  <2>1. k \in 1..Len(s) /\ s[k] = id
    BY <1>0, <1>2
  <2>2. r = [i \in 1..Len(s) |-> IF i < k THEN s[i]
                                 ELSE IF i < Len(s) THEN s[i + 1] ELSE id]
    BY <1>0, <1>2, Zenon DEF MoveToEnd
  <2> HIDE DEF k, at, r
  <2>3. /\ DOMAIN r = 1..Len(s) /\ r[Len(s)] = id
        /\ \A i \in 1..(Len(s) - 1) : r[i] = IF i < k THEN s[i] ELSE s[i + 1]
    BY <1>0, <2>1, <2>2
  <2>4. \A i \in 1..Len(s) : r[i] \in S
    BY <1>0, <2>1, <2>3
  <2>5. r \in Seq(S) /\ Len(r) = Len(s)
    BY <1>0, <2>2, <2>4, SeqOf
  <2>6. Distinct(r)
    <3>1. ASSUME NEW i \in 1..Len(s), NEW l \in 1..Len(s), i < l, r[i] = r[l] PROVE FALSE
      <4>1. \A a, b \in 1..Len(s) : s[a] = s[b] => a = b
        BY <1>0, Zenon DEF Distinct
      <4>2. i \in 1..(Len(s) - 1) /\ r[i] = IF i < k THEN s[i] ELSE s[i + 1]
        BY <1>0, <2>3, <3>1
      <4>3. CASE l = Len(s)
        <5>1. s[k] = s[IF i < k THEN i ELSE i + 1]
          BY <2>1, <2>3, <3>1, <4>2, <4>3, Zenon
        <5>2. k # (IF i < k THEN i ELSE i + 1) /\ (IF i < k THEN i ELSE i + 1) \in 1..Len(s)
          BY <1>0, <2>1, <4>2, Shifted
        <5> QED
          BY <2>1, <4>1, <5>1, <5>2, Zenon
      <4>4. CASE l # Len(s)
        <5>0. l \in 1..(Len(s) - 1)
          BY <1>0, <4>4, NotLast, Zenon
        <5>1. s[IF l < k THEN l ELSE l + 1] = s[IF i < k THEN i ELSE i + 1]
          BY <2>3, <3>1, <4>2, <5>0, Zenon
        <5>2. /\ (IF l < k THEN l ELSE l + 1) # (IF i < k THEN i ELSE i + 1)
              /\ (IF i < k THEN i ELSE i + 1) \in 1..Len(s)
              /\ (IF l < k THEN l ELSE l + 1) \in 1..Len(s)
          BY <1>0, <2>1, <3>1, <4>2, <5>0, Shifted
        <5> QED
          BY <4>1, <5>1, <5>2, Zenon
      <4> QED
        BY <4>3, <4>4, Zenon
    <3> QED
      BY <1>0, <2>3, <3>1 DEF Distinct
  <2>7. \A x \in Listed(r) : x \in Listed(s)
    BY <1>0, <2>1, <2>3 DEF Listed
  <2>8. ASSUME NEW l \in 1..Len(s) PROVE \E i \in 1..Len(s) : r[i] = s[l]
    <3>1. CASE l < k
      BY <1>0, <2>1, <2>3, <3>1
    <3>2. CASE l = k
      BY <1>0, <2>1, <2>3, <3>2
    <3>3. CASE l > k
      <4>1. l - 1 \in 1..(Len(s) - 1) /\ ~(l - 1 < k) /\ (l - 1) + 1 = l
        BY <1>0, <2>1, <3>3
      <4> QED
        BY <1>0, <2>3, <4>1
    <3> QED
      BY <1>0, <2>1, <3>1, <3>2, <3>3
  <2>9. Listed(r) = Listed(s) \cup {id} /\ id \in Listed(s)
    <3>1. id \in Listed(s)
      BY <1>0, <2>1 DEF Listed
    <3>2. ASSUME NEW x \in Listed(s) PROVE x \in Listed(r)
      <4>1. PICK l \in 1..Len(s) : x = s[l]
        BY <1>0 DEF Listed
      <4>2. PICK i \in 1..Len(s) : r[i] = s[l]
        BY <2>8
      <4> QED
        BY <2>3, <4>1, <4>2 DEF Listed
    <3> QED
      BY <2>7, <3>1, <3>2, Zenon
  <2> QED
    BY <2>5, <2>6, <2>9 DEF r
<1> QED
  BY <1>1, <1>2

-----------------------------------------------------------------------------
(* The operations of the cache.                                            *)

\* The fields of a cache.
LEMMA CacheFields ==
  ASSUME NEW c \in Cache
  PROVE  /\ c.held \in SUBSET Ids /\ Default \in c.held
         /\ c.name \in [Ids -> Names \cup {None}] /\ c.order \in [Ids -> Nat]
         /\ c.alias \in [Names -> Alias] /\ c.lru \in Seq(Ids \ {Default})
         /\ c.watermark \in Nat
BY DEF Cache

\* Unbound is no binding.
LEMMA UnboundFacts == Unbound \in Alias /\ Unbound.id = None /\ Unbound.order = 0
BY DEF Unbound, Alias

\* touch: only the order of use changes.
LEMMA TouchFacts ==
  ASSUME NEW c \in Cache, NEW id \in Ids
  PROVE  LET r == Touch(c, id) IN
         /\ r.held = c.held /\ r.name = c.name /\ r.order = c.order /\ r.alias = c.alias
         /\ r.watermark = c.watermark
         /\ r.lru = IF id = Default THEN c.lru ELSE MoveToEnd(c.lru, id)
         /\ r.lru \in Seq(Ids \ {Default}) => r \in Cache
<1>1. CASE id = Default
  BY <1>1 DEF Touch
<1>2. CASE id # Default
  <2> DEFINE l == MoveToEnd(c.lru, id)
  <2>1. Touch(c, id) = [c EXCEPT !.lru = l]
    BY <1>2 DEF Touch
  <2> HIDE DEF l
  <2>2. LET r == [c EXCEPT !.lru = l] IN
        /\ r.held = c.held /\ r.name = c.name /\ r.order = c.order /\ r.alias = c.alias
        /\ r.watermark = c.watermark /\ r.lru = l
    BY DEF Cache
  <2>3. ASSUME l \in Seq(Ids \ {Default}) PROVE [c EXCEPT !.lru = l] \in Cache
    BY <2>3, Zenon DEF Cache
  <2> QED
    BY <1>2, <2>1, <2>2, <2>3 DEF l
<1> QED
  BY <1>1, <1>2

\* touch of an id that the cache holds changes nothing but that order.
LEMMA TouchSound ==
  ASSUME NEW c, Sound(c), NEW id \in c.held
  PROVE  Sound(Touch(c, id)) /\ Len(Touch(c, id).lru) = Len(c.lru)
<1>0. c \in Cache /\ id \in Ids /\ c.lru \in Seq(Ids \ {Default}) /\ Distinct(c.lru)
      /\ Listed(c.lru) = c.held \ {Default}
  BY CacheFields DEF Sound, UseOk
<1> DEFINE r == Touch(c, id)
<1>1. /\ r.held = c.held /\ r.name = c.name /\ r.order = c.order /\ r.alias = c.alias
      /\ r.lru = IF id = Default THEN c.lru ELSE MoveToEnd(c.lru, id)
      /\ r.lru \in Seq(Ids \ {Default}) => r \in Cache
  BY <1>0, TouchFacts
<1> HIDE DEF r
<1>2. /\ r.lru \in Seq(Ids \ {Default}) /\ Distinct(r.lru)
      /\ Listed(r.lru) = Listed(c.lru) /\ Len(r.lru) = Len(c.lru)
  <2>1. CASE id = Default
    BY <1>0, <1>1, <2>1
  <2>2. CASE id # Default
    <3>1. id \in Ids \ {Default} /\ id \in Listed(c.lru)
      BY <1>0, <2>2
    <3>2. PICK l : l = c.lru
      OBVIOUS
    <3>3. /\ MoveToEnd(l, id) \in Seq(Ids \ {Default}) /\ Distinct(MoveToEnd(l, id))
          /\ Listed(MoveToEnd(l, id)) = Listed(l) \cup {id} /\ Len(MoveToEnd(l, id)) = Len(l)
      <4>1. l \in Seq(Ids \ {Default}) /\ Distinct(l) /\ id \in Listed(l)
        BY <1>0, <3>1, <3>2
      <4> QED
        BY <3>1, <4>1, MoveFacts
    <3> QED
      BY <1>1, <2>2, <3>1, <3>2, <3>3, Zenon
  <2> QED
    BY <2>1, <2>2
<1> QED
  BY <1>0, <1>1, <1>2 DEF Sound, Index, Behind, UseOk, r

\* evict_oldest: one entry goes, with its binding, and the watermark is no
\* earlier than its place.
LEMMA EvictFacts ==
  ASSUME NEW c, Sound(c), Len(c.lru) > 0
  PROVE  LET r == EvictOldest(c)
             o == Head(c.lru) IN
         /\ r \in Cache /\ UseOk(r) /\ Len(r.lru) = Len(c.lru) - 1
         /\ o \in Ids \ {Default} /\ o \in c.held /\ r.held = c.held \ {o}
         /\ r.watermark >= c.watermark /\ r.watermark >= c.order[o]
         /\ r.name[o] = None
         /\ \A i \in Ids \ {o} : r.name[i] = c.name[i] /\ r.order[i] = c.order[i]
         /\ \A m \in Names : r.alias[m] = IF c.alias[m].id = o THEN Unbound ELSE c.alias[m]
<1> DEFINE o == Head(c.lru)
           l == Tail(c.lru)
           n == c.name[o]
           w == Latest(c.watermark, c.order[o])
           a == [m \in Names |-> IF m = n /\ c.alias[m].id = o THEN Unbound ELSE c.alias[m]]
           h == c.held \ {o}
           nm == [c.name EXCEPT ![o] = None]
           od == [c.order EXCEPT ![o] = 0]
           r == EvictOldest(c)
<1>0. /\ c \in Cache /\ c.held \in SUBSET Ids /\ Default \in c.held
      /\ c.name \in [Ids -> Names \cup {None}] /\ c.order \in [Ids -> Nat]
      /\ c.alias \in [Names -> Alias] /\ c.lru \in Seq(Ids \ {Default})
      /\ c.watermark \in Nat /\ Index(c) /\ UseOk(c)
  BY CacheFields DEF Sound
<1>1. Len(c.lru) \in Nat /\ DOMAIN c.lru = 1..Len(c.lru) /\ o = c.lru[1]
  BY <1>0, SeqFacts
<1>2. /\ l \in Seq(Ids \ {Default}) /\ Len(l) = Len(c.lru) - 1
      /\ \A i \in 1..Len(l) : l[i] = c.lru[i + 1]
  BY <1>0, <1>1, TailFacts
<1>3. DOMAIN l = 1..(Len(c.lru) - 1)
  BY <1>2, SeqFacts
<1>4. o \in Ids \ {Default} /\ o \in c.held
  <2>1. o \in Listed(c.lru)
    BY <1>1 DEF Listed
  <2> QED
    BY <1>0, <2>1 DEF UseOk
<1>5. r = [c EXCEPT !.held = h, !.lru = l, !.name = nm, !.order = od, !.watermark = w,
                    !.alias = a]
  BY DEF EvictOldest
<1> HIDE DEF o, r
<1>6. w \in Nat /\ w >= c.watermark /\ w >= c.order[o]
  BY <1>0, <1>4 DEF Latest
<1>7. a \in [Names -> Alias]
  BY <1>0, UnboundFacts
<1>8. \A m \in Names : a[m] = IF c.alias[m].id = o THEN Unbound ELSE c.alias[m]
  <2>1. \A m \in Names : c.alias[m].id = o => m = n
    BY <1>0, <1>4, KeysetCacheAssumption DEF Index
  <2> QED
    BY <2>1
<1> HIDE DEF a, l, w
<1>9. /\ h \in SUBSET Ids /\ Default \in h
      /\ nm \in [Ids -> Names \cup {None}] /\ od \in [Ids -> Nat]
      /\ nm[o] = None /\ \A i \in Ids \ {o} : nm[i] = c.name[i] /\ od[i] = c.order[i]
  BY <1>0, <1>4, SMTT(30)
<1> HIDE DEF h, nm, od
<1>10. /\ r.held = h /\ r.name = nm /\ r.lru = l /\ r.alias = a /\ r.order = od
       /\ r.watermark = w /\ r \in Cache
  <2>1. c \in Cache /\ l \in Seq(Ids \ {Default})
    BY <1>0, <1>2
  <2> QED
    BY <1>5, <1>6, <1>7, <1>9, <2>1, Zenon DEF Cache
<1>11. Distinct(l)
  <2>1. ASSUME NEW i \in DOMAIN l, NEW k \in DOMAIN l, l[i] = l[k] PROVE i = k
    <3>1. i + 1 \in DOMAIN c.lru /\ k + 1 \in DOMAIN c.lru /\ c.lru[i + 1] = c.lru[k + 1]
      <4>1. l[i] = c.lru[i + 1] /\ l[k] = c.lru[k + 1]
        BY <1>2, <1>3, <2>1, Zenon
      <4>2. i + 1 \in 1..Len(c.lru) /\ k + 1 \in 1..Len(c.lru)
        BY <1>1, <1>3, <2>1, SMTT(30)
      <4> QED
        BY <1>1, <2>1, <4>1, <4>2, Zenon
    <3>2. i + 1 = k + 1
      BY <1>0, <3>1 DEF Distinct, UseOk
    <3> QED
      BY <1>1, <1>3, <3>2
  <2> QED
    BY <2>1 DEF Distinct
<1>12. Listed(l) = (c.held \ {o}) \ {Default}
  <2>1. Listed(c.lru) = c.held \ {Default} /\ Distinct(c.lru)
    BY <1>0 DEF UseOk
  <2>2. ASSUME NEW x \in Listed(l) PROVE x \in Listed(c.lru) /\ x # o
    <3>1. PICK i \in DOMAIN l : x = l[i]
      BY DEF Listed
    <3>2. i + 1 \in DOMAIN c.lru /\ x = c.lru[i + 1] /\ i + 1 # 1 /\ 1 \in DOMAIN c.lru
      BY <1>1, <1>2, <1>3, <3>1, SMTT(30)
    <3> QED
      BY <1>1, <2>1, <3>2 DEF Distinct, Listed
  <2>3. ASSUME NEW x \in Listed(c.lru), x # o PROVE x \in Listed(l)
    <3>1. PICK i \in DOMAIN c.lru : x = c.lru[i]
      BY DEF Listed
    <3>2. i # 1
      BY <1>1, <2>3, <3>1
    <3>3. i - 1 \in DOMAIN l /\ x = l[i - 1]
      BY <1>1, <1>2, <1>3, <3>1, <3>2
    <3> QED
      BY <3>3 DEF Listed
  <2> QED
    BY <2>1, <2>2, <2>3
<1>13. UseOk(r)
  BY <1>10, <1>11, <1>12 DEF UseOk, h
<1> QED
  BY <1>0, <1>2, <1>4, <1>6, <1>8, <1>9, <1>10, <1>13 DEF o, r, h

\* An eviction leaves the cache sound.
LEMMA EvictSound ==
  ASSUME NEW c, Sound(c), Len(c.lru) > 0
  PROVE  Sound(EvictOldest(c))
<1> DEFINE r == EvictOldest(c)
           o == Head(c.lru)
<1>1. /\ r \in Cache /\ UseOk(r) /\ o \in Ids /\ r.held = c.held \ {o}
      /\ r.name[o] = None
      /\ \A i \in Ids \ {o} : r.name[i] = c.name[i] /\ r.order[i] = c.order[i]
      /\ \A m \in Names : r.alias[m] = IF c.alias[m].id = o THEN Unbound ELSE c.alias[m]
  BY EvictFacts
<1>2. /\ c.name \in [Ids -> Names \cup {None}] /\ c.alias \in [Names -> Alias]
      /\ c.held \in SUBSET Ids /\ Index(c) /\ Behind(c)
  BY CacheFields DEF Sound
<1> HIDE DEF r, o
<1>3. \A m \in Names : r.alias[m].id # None => r.alias[m] = c.alias[m] /\ c.alias[m].id # o
  BY <1>1, UnboundFacts
<1>4. \A m \in Names : c.alias[m].id # None => c.alias[m].id \in Ids
  BY <1>2 DEF Alias
<1>5. Index(r)
  <2>1. ASSUME NEW m \in Names, r.alias[m].id # None
        PROVE  r.alias[m].id \in r.held /\ r.name[r.alias[m].id] = m
    BY <1>1, <1>2, <1>3, <1>4, <2>1 DEF Index
  <2>2. ASSUME NEW i \in Ids, r.name[i] # None
        PROVE  i \in r.held /\ r.alias[r.name[i]].id = i
    <3>1. i # o /\ r.name[i] = c.name[i] /\ c.name[i] \in Names
      BY <1>1, <1>2, <2>2
    <3>2. i \in c.held /\ c.alias[c.name[i]].id = i
      BY <1>2, <2>2, <3>1 DEF Index
    <3> QED
      BY <1>1, <3>1, <3>2
  <2> QED
    BY <2>1, <2>2 DEF Index
<1>6. Behind(r)
  BY <1>1, <1>2, <1>3, <1>4 DEF Behind
<1> QED
  BY <1>1, <1>5, <1>6 DEF Sound, r

\* bind: `n` names `id` and no other keyset, and `id` has no other name.
LEMMA BoundFacts ==
  ASSUME NEW c, Sound(c), NEW n \in Names, NEW id \in Ids, NEW ticket \in Nat, clock \in Nat
  PROVE  LET r == Bound(c, n, id, ticket) IN
         /\ r \in Cache /\ r.held = c.held /\ r.order = c.order /\ r.lru = c.lru
         /\ r.watermark = c.watermark
         /\ r.alias[n].id = id /\ r.alias[n].order = ticket /\ r.name[id] = n
         /\ \A m \in Names \ {n} :
              r.alias[m] = IF c.alias[m].id = id THEN Unbound ELSE c.alias[m]
         /\ \A i \in Ids \ {id} : r.name[i] = IF c.name[i] = n THEN None ELSE c.name[i]
<1> DEFINE b == c.alias[n].id
           c1 == IF b \in {None, id} THEN c ELSE ForgetNameOf(c, b, n)
           new == [id |-> id, at |-> clock, order |-> ticket]
           a == [m \in Names |-> IF m = n THEN new
                                 ELSE IF m = c1.name[id] THEN Unbound ELSE c1.alias[m]]
           nm == [c1.name EXCEPT ![id] = n]
           r == Bound(c, n, id, ticket)
<1>0. /\ c \in Cache /\ c.name \in [Ids -> Names \cup {None}] /\ c.alias \in [Names -> Alias]
      /\ c.held \in SUBSET Ids /\ Index(c)
  BY CacheFields DEF Sound
<1>1. b \in Ids \cup {None}
  BY <1>0 DEF Alias
<1>2. r = [c1 EXCEPT !.alias = a, !.name = nm]
  BY DEF Bound
<1> HIDE DEF b, r
<1>3. /\ c1 \in Cache /\ c1.held = c.held /\ c1.order = c.order /\ c1.lru = c.lru
      /\ c1.watermark = c.watermark /\ c1.alias = c.alias
      /\ c1.name[id] = c.name[id]
      /\ \A i \in Ids \ {id} : c1.name[i] = IF c.name[i] = n THEN None ELSE c.name[i]
  <2>0. \A i \in Ids : c.name[i] = n => b = i /\ i \in c.held
    BY <1>0, KeysetCacheAssumption DEF Index, b
  <2>1. CASE b \in {None, id} \/ ~(b \in c.held /\ c.name[b] = n)
    <3>1. c1 = c
      BY <2>1 DEF ForgetNameOf
    <3>2. \A i \in Ids \ {id} : c.name[i] # n
      BY <2>0, <2>1, KeysetCacheAssumption, Zenon
    <3> HIDE DEF c1
    <3> QED
      BY <1>0, <3>1, <3>2
  <2>2. CASE b \notin {None, id} /\ b \in c.held /\ c.name[b] = n
    <3> DEFINE nb == [c.name EXCEPT ![b] = None]
    <3>1. c1 = [c EXCEPT !.name = nb]
      BY <2>2 DEF ForgetNameOf
    <3>2. /\ nb \in [Ids -> Names \cup {None}] /\ nb[id] = c.name[id]
          /\ \A i \in Ids \ {id} : nb[i] = IF c.name[i] = n THEN None ELSE c.name[i]
      BY <1>0, <1>1, <2>0, <2>2
    <3> HIDE DEF c1, nb
    <3>3. /\ c1 \in Cache /\ c1.held = c.held /\ c1.order = c.order /\ c1.lru = c.lru
          /\ c1.watermark = c.watermark /\ c1.alias = c.alias /\ c1.name = nb
      BY <1>0, <3>1, <3>2, Zenon DEF Cache
    <3> QED
      BY <3>2, <3>3
  <2> QED
    BY <2>1, <2>2
<1> HIDE DEF c1
<1>4. new \in Alias /\ new.id = id /\ new.order = ticket
  BY DEF Alias
<1> HIDE DEF new
<1>5. a \in [Names -> Alias] /\ nm \in [Ids -> Names \cup {None}]
  <2>1. c1.name \in [Ids -> Names \cup {None}] /\ c1.alias \in [Names -> Alias]
    BY <1>3, CacheFields
  <2> QED
    BY <1>4, <2>1, UnboundFacts
<1>6. /\ a[n] = new /\ nm[id] = n /\ \A i \in Ids \ {id} : nm[i] = c1.name[i]
      /\ \A m \in Names \ {n} : a[m] = IF m = c.name[id] THEN Unbound ELSE c.alias[m]
  <2>1. c1.name \in [Ids -> Names \cup {None}]
    BY <1>3, CacheFields
  <2> QED
    BY <1>3, <2>1
<1> HIDE DEF a, nm
<1>7. /\ r \in Cache /\ r.held = c.held /\ r.order = c.order /\ r.lru = c.lru
      /\ r.watermark = c.watermark /\ r.alias = a /\ r.name = nm
  <2>1. /\ r \in Cache /\ r.held = c1.held /\ r.order = c1.order /\ r.lru = c1.lru
        /\ r.watermark = c1.watermark /\ r.alias = a /\ r.name = nm
    <3>1. c1 \in Cache
      BY <1>3
    <3> QED
      BY <1>2, <1>5, <3>1, Zenon DEF Cache
  <2> QED
    BY <1>3, <2>1
<1>8. \A m \in Names \ {n} : (m = c.name[id]) <=> (c.alias[m].id = id)
  BY <1>0, KeysetCacheAssumption DEF Index
<1> QED
  BY <1>3, <1>4, <1>6, <1>7, <1>8 DEF r

\* What becomes of a keyset's place in the order ...
PlaceKept(c, r, i) ==
  i \in c.held => (i \in r.held /\ c.order[i] <= r.order[i]) \/ c.order[i] <= r.watermark

\* ... and of a binding, when an answer lands: it stays, or goes with an evicted
\* entry, or goes because its keyset has another name now, or is made anew.
BindingKept(c, r, m, id, n, ticket) ==
  \/ r.alias[m] = c.alias[m]
  \/ /\ r.alias[m].id = None /\ c.alias[m].order <= r.watermark
     /\ c.alias[m].id \notin r.held
  \/ /\ m # n /\ r.alias[m].id = None /\ c.alias[m].id = id
     /\ n \in Names /\ r.alias[n].id = id /\ r.alias[n].order = ticket
  \/ /\ m = n /\ ~Outdated(c, id, ticket)
     /\ r.alias[m].id = id /\ r.alias[m].order = ticket
     /\ c.watermark <= ticket /\ c.alias[m].order <= ticket

\* bind, of an answer it may refuse.
LEMMA BindFacts ==
  ASSUME NEW c, Sound(c), NEW id \in Ids, NEW n \in Names \cup {None}, NEW ticket \in Nat,
         clock \in Nat
  PROVE  LET r == Bind(c, n, id, ticket) IN
         /\ r \in Cache /\ r.held = c.held /\ r.order = c.order /\ r.lru = c.lru
         /\ r.watermark = c.watermark
         /\ \/ r = c
            \/ /\ n \in Names /\ MayBind(c, n, ticket)
               /\ r.alias[n].id = id /\ r.alias[n].order = ticket /\ r.name[id] = n
               /\ \A m \in Names \ {n} :
                    r.alias[m] = IF c.alias[m].id = id THEN Unbound ELSE c.alias[m]
               /\ \A i \in Ids \ {id} : r.name[i] = IF c.name[i] = n THEN None ELSE c.name[i]
<1>1. CASE n # None /\ MayBind(c, n, ticket)
  <2>1. n \in Names /\ Bind(c, n, id, ticket) = Bound(c, n, id, ticket)
    BY <1>1 DEF Bind
  <2> QED
    BY <1>1, <2>1, BoundFacts
<1>2. CASE ~(n # None /\ MayBind(c, n, ticket))
  BY <1>2 DEF Bind, Sound
<1> QED
  BY <1>1, <1>2, Zenon

\* There is room for a keyset, and no later answer than this one about it.
Room(c, id, ticket) ==
  /\ id \in c.held => c.order[id] <= ticket
  /\ id \in c.held \/ (id # Default /\ Len(c.lru) < Capacity)
  /\ Len(c.lru) <= Capacity

\* What `insert` leaves when there is room, `b` being the cache after `bind`.
Put(b, id, ticket) ==
  Touch([b EXCEPT !.held = b.held \cup {id},
                  !.order = [b.order EXCEPT ![id] = ticket]], id)

\* insert of an answer that nothing later has overtaken, once there is room.
LEMMA PutFacts ==
  ASSUME NEW c, Sound(c), NEW id \in Ids, NEW n \in Names \cup {None}, NEW ticket \in Nat,
         clock \in Nat, Room(c, id, ticket), NEW b, b = Bind(c, n, id, ticket),
         NEW r, r = Put(b, id, ticket)
  PROVE  /\ Sound(r) /\ Len(r.lru) <= Capacity /\ r.watermark = c.watermark
         /\ r.held = c.held \cup {id} /\ r.order[id] = ticket
         /\ (\A i \in Ids \ {id} : r.order[i] = c.order[i]) /\ r.alias = b.alias
<1> DEFINE h == b.held \cup {id}
           od == [b.order EXCEPT ![id] = ticket]
           f == [b EXCEPT !.held = h, !.order = od]
<1>0. /\ c \in Cache /\ c.held \in SUBSET Ids /\ Default \in c.held
      /\ c.name \in [Ids -> Names \cup {None}] /\ c.order \in [Ids -> Nat]
      /\ c.alias \in [Names -> Alias] /\ c.lru \in Seq(Ids \ {Default})
      /\ Index(c) /\ Behind(c) /\ Distinct(c.lru) /\ Listed(c.lru) = c.held \ {Default}
  BY CacheFields DEF Sound, UseOk
<1>1. /\ b \in Cache /\ b.held = c.held /\ b.order = c.order /\ b.lru = c.lru
      /\ b.watermark = c.watermark
  BY BindFacts
<1>2. h \in SUBSET Ids /\ Default \in h /\ od \in [Ids -> Nat] /\ od[id] = ticket
      /\ \A i \in Ids \ {id} : od[i] = c.order[i]
  BY <1>0, <1>1
<1>3. h = c.held \cup {id}
  BY <1>1, Zenon
<1> HIDE DEF h, od
<1>4. /\ f \in Cache /\ f.held = h /\ f.name = b.name /\ f.order = od /\ f.alias = b.alias
      /\ f.lru = b.lru /\ f.watermark = b.watermark
  BY <1>1, <1>2, ZenonT(60) DEF Cache
<1>5. r = Touch(f, id)
  BY DEF Put, h, od
<1> HIDE DEF f
<1>6. /\ r.held = h /\ r.name = b.name /\ r.order = od /\ r.alias = b.alias
      /\ r.watermark = c.watermark
      /\ r.lru = IF id = Default THEN c.lru ELSE MoveToEnd(c.lru, id)
      /\ r.lru \in Seq(Ids \ {Default}) => r \in Cache
  BY <1>1, <1>4, <1>5, TouchFacts
<1>7. /\ r.lru \in Seq(Ids \ {Default}) /\ Distinct(r.lru) /\ Len(r.lru) <= Capacity
      /\ Listed(r.lru) = h \ {Default}
  <2>0. Len(c.lru) \in Nat /\ Capacity \in Nat
    BY <1>0, SeqFacts, KeysetCacheAssumption, Zenon
  <2>1. CASE id = Default
    BY <1>0, <1>3, <1>6, <2>1 DEF Room
  <2>2. CASE id # Default
    <3>1. PICK l : l = c.lru
      OBVIOUS
    <3>2. l \in Seq(Ids \ {Default}) /\ Distinct(l) /\ id \in Ids \ {Default}
      BY <1>0, <2>2, <3>1
    <3>3. /\ MoveToEnd(l, id) \in Seq(Ids \ {Default}) /\ Distinct(MoveToEnd(l, id))
          /\ Listed(MoveToEnd(l, id)) = Listed(l) \cup {id}
          /\ id \in Listed(l) => Len(MoveToEnd(l, id)) = Len(l)
          /\ id \notin Listed(l) => Len(MoveToEnd(l, id)) = Len(l) + 1
      BY <3>2, MoveFacts
    <3>4. Len(MoveToEnd(l, id)) <= Capacity
      BY <1>0, <2>0, <2>2, <3>1, <3>3 DEF Room
    <3>5. Listed(l) \cup {id} = h \ {Default}
      BY <1>0, <1>3, <2>2, <3>1
    <3> QED
      BY <1>6, <2>2, <3>1, <3>3, <3>4, <3>5
  <2> QED
    BY <2>1, <2>2
<1>8. \/ b = c
      \/ /\ n \in Names
         /\ b.alias[n].id = id /\ b.alias[n].order = ticket /\ b.name[id] = n
         /\ \A m \in Names \ {n} :
              b.alias[m] = IF c.alias[m].id = id THEN Unbound ELSE c.alias[m]
         /\ \A i \in Ids \ {id} : b.name[i] = IF c.name[i] = n THEN None ELSE c.name[i]
  BY BindFacts
<1>9. \A m \in Names : c.alias[m].id \in Ids \cup {None} /\ c.alias[m].order \in Nat
  BY <1>0, Zenon DEF Alias
<1>10. Index(r)
  <2>1. CASE b = c
    <3>1. r.alias = c.alias /\ r.name = c.name /\ c.held \subseteq r.held
      BY <1>3, <1>6, <2>1
    <3> QED
      BY <1>0, <3>1, ZenonT(60) DEF Index
  <2>2. CASE b # c
    <3>1. ASSUME NEW m \in Names, b.alias[m].id # None
          PROVE  b.alias[m].id \in h /\ b.name[b.alias[m].id] = m
      <4>1. CASE m = n
        BY <1>3, <1>8, <2>2, <4>1, Zenon
      <4>2. CASE m # n
        <5>1. b.alias[m] = c.alias[m] /\ c.alias[m].id \in Ids \ {id}
          BY <1>8, <1>9, <2>2, <3>1, <4>2, UnboundFacts, Zenon
        <5>2. c.alias[m].id \in c.held /\ c.name[c.alias[m].id] = m
          BY <1>0, <3>1, <5>1, Zenon DEF Index
        <5> QED
          BY <1>3, <1>8, <2>2, <4>2, <5>1, <5>2
      <4> QED
        BY <4>1, <4>2, Zenon
    <3>2. ASSUME NEW i \in Ids, b.name[i] # None PROVE i \in h /\ b.alias[b.name[i]].id = i
      <4>1. CASE i = id
        BY <1>3, <1>8, <2>2, <4>1
      <4>2. CASE i # id
        <5>1. b.name[i] = c.name[i] /\ c.name[i] # n /\ c.name[i] \in Names
          BY <1>0, <1>8, <2>2, <3>2, <4>2, ZenonT(60)
        <5>2. i \in c.held /\ c.alias[c.name[i]].id = i
          BY <1>0, <3>2, <5>1, Zenon DEF Index
        <5> QED
          BY <1>3, <1>8, <2>2, <4>2, <5>1, <5>2
      <4> QED
        BY <4>1, <4>2, Zenon
    <3>3. /\ \A m \in Names : b.alias[m].id # None =>
               b.alias[m].id \in h /\ b.name[b.alias[m].id] = m
          /\ \A i \in Ids : b.name[i] # None => i \in h /\ b.alias[b.name[i]].id = i
      BY <3>1, <3>2, Zenon
    <3>4. r.alias = b.alias /\ r.name = b.name /\ r.held = h
      BY <1>6
    <3> QED
      <4>1. \A m \in Names : r.alias[m].id # None =>
              r.alias[m].id \in r.held /\ r.name[r.alias[m].id] = m
        BY <3>3, <3>4, SMTT(30)
      <4>2. \A i \in Ids : r.name[i] # None => i \in r.held /\ r.alias[r.name[i]].id = i
        BY <3>3, <3>4, SMTT(30)
      <4> QED
        BY <4>1, <4>2, Zenon DEF Index
  <2> QED
    BY <2>1, <2>2
<1>11. Behind(r)
  <2>1. ASSUME NEW m \in Names, b.alias[m].id # None
        PROVE  b.alias[m].order <= od[b.alias[m].id]
    <3>1. CASE b.alias[m] = c.alias[m]
      <4>1. c.alias[m].id \in Ids /\ c.alias[m].order <= c.order[c.alias[m].id]
            /\ c.alias[m].id \in c.held /\ c.order[c.alias[m].id] \in Nat
        BY <1>0, <1>9, <2>1, <3>1, ZenonT(60) DEF Behind, Index
      <4>2. CASE c.alias[m].id = id
        BY <1>2, <1>9, <3>1, <4>1, <4>2 DEF Room
      <4>3. CASE c.alias[m].id # id
        BY <1>2, <3>1, <4>1, <4>3
      <4> QED
        BY <4>2, <4>3, Zenon
    <3>2. CASE m = n /\ b.alias[m].id = id /\ b.alias[m].order = ticket
      BY <1>2, <3>2
    <3> QED
      BY <1>8, <2>1, <3>1, <3>2, UnboundFacts, Zenon
  <2> QED
    BY <1>6, <2>1 DEF Behind
<1> QED
  BY <1>2, <1>3, <1>6, <1>7, <1>10, <1>11, SMTT(30) DEF Sound, UseOk

\* What `insert` makes of cache c.
Inserted(c, r, id, n, ticket) ==
  /\ Sound(r) /\ Len(r.lru) <= Capacity /\ r.watermark >= c.watermark
  /\ Outdated(c, id, ticket) => r = c
  /\ ~Outdated(c, id, ticket) => id \in r.held /\ r.order[id] = ticket
  /\ \A i \in Ids : PlaceKept(c, r, i)
  /\ \A m \in Names : BindingKept(c, r, m, id, n, ticket)

\* insert: the cache stays sound, and every place in the order that it gives up
\* stays behind on the watermark.
LEMMA InsertFacts ==
  ASSUME NEW c, Sound(c), Len(c.lru) <= Capacity, NEW id \in Ids,
         NEW n \in Names \cup {None}, NEW ticket \in Nat, clock \in Nat,
         NEW r, r = Insert(c, id, n, ticket)
  PROVE  Inserted(c, r, id, n, ticket)
<1> USE DEF Inserted
<1>0. /\ c \in Cache /\ c.held \in SUBSET Ids /\ Default \in c.held
      /\ c.order \in [Ids -> Nat] /\ c.alias \in [Names -> Alias]
      /\ c.lru \in Seq(Ids \ {Default}) /\ c.watermark \in Nat
      /\ Index(c) /\ Behind(c) /\ Len(c.lru) \in Nat
  BY CacheFields, SeqFacts, Zenon DEF Sound
<1>1. \A m \in Names : c.alias[m].order \in Nat /\ c.alias[m].id \in Ids \cup {None}
  BY <1>0, Zenon DEF Alias
<1>2. CASE Outdated(c, id, ticket)
  <2>1. r = c
    BY <1>2 DEF Insert
  <2> QED
    BY <1>0, <1>2, <2>1 DEF PlaceKept, BindingKept
<1>3. CASE ~Outdated(c, id, ticket)
  <2>1. PICK c1 : c1 = IF MustEvict(c, id) THEN EvictOldest(c) ELSE c
    OBVIOUS
  <2>2. PICK b : b = Bind(c1, n, id, ticket)
    OBVIOUS
  <2>3. r = Put(b, id, ticket)
    BY <1>3, <2>1, <2>2 DEF Insert, Put
  <2>4. id \in c.held => c.order[id] <= ticket
    BY <1>0, <1>3 DEF Outdated
  <2>5. /\ Sound(c1) /\ Len(c1.lru) <= Capacity /\ c1.watermark \in Nat
        /\ c1.watermark >= c.watermark
        /\ Room(c1, id, ticket)
        /\ \A i \in Ids : PlaceKept(c, c1, i)
        /\ \A m \in Names : \/ c1.alias[m] = c.alias[m]
                            \/ /\ c1.alias[m] = Unbound /\ c.alias[m].order <= c1.watermark
                               /\ c.alias[m].id # id /\ c.alias[m].id \notin c1.held
    <3>1. CASE ~MustEvict(c, id)
      <4>1. c1 = c
        BY <2>1, <3>1
      <4>2. Room(c, id, ticket)
        BY <1>0, <2>4, <3>1, KeysetCacheAssumption, SMTT(30) DEF MustEvict, Room
      <4> QED
        BY <1>0, <2>4, <4>1, <4>2 DEF PlaceKept
    <3>2. CASE MustEvict(c, id)
      <4>1. c1 = EvictOldest(c) /\ id \notin c.held /\ Len(c.lru) > 0 /\ Len(c.lru) = Capacity
        BY <1>0, <2>1, <3>2, KeysetCacheAssumption DEF MustEvict
      <4>2. PICK o : o = Head(c.lru)
        OBVIOUS
      <4>3. /\ c1 \in Cache /\ Len(c1.lru) = Len(c.lru) - 1
            /\ o \in Ids \ {Default} /\ o \in c.held /\ c1.held = c.held \ {o}
            /\ c1.watermark >= c.watermark /\ c1.watermark >= c.order[o]
            /\ \A i \in Ids \ {o} : c1.order[i] = c.order[i]
            /\ \A m \in Names : c1.alias[m] = IF c.alias[m].id = o THEN Unbound ELSE c.alias[m]
        BY <4>1, <4>2, EvictFacts, ZenonT(60)
      <4>4. Sound(c1) /\ c1.watermark \in Nat
        BY <4>1, <4>3, EvictSound, CacheFields
      <4>5. \A i \in Ids : PlaceKept(c, c1, i)
        BY <1>0, <4>3, SMTT(30) DEF PlaceKept
      <4>6. \A m \in Names : c.alias[m].id = o =>
              c.alias[m].order <= c1.watermark /\ c.alias[m].id # id
        <5>1. ASSUME NEW m \in Names, c.alias[m].id = o
              PROVE  c.alias[m].order <= c1.watermark /\ c.alias[m].id # id
          <6>1. c.alias[m].order <= c.order[o]
            BY <1>0, <4>3, <5>1, KeysetCacheAssumption, Zenon DEF Behind
          <6>2. c.order[o] \in Nat /\ o # id
            BY <1>0, <4>1, <4>3
          <6> QED
            BY <1>1, <4>3, <4>4, <5>1, <6>1, <6>2, SMTT(30)
        <5> QED
          BY <5>1
      <4>7. Room(c1, id, ticket) /\ Len(c1.lru) <= Capacity
        BY <1>0, <4>1, <4>3, KeysetCacheAssumption DEF Room
      <4> QED
        BY <4>3, <4>4, <4>5, <4>6, <4>7, Zenon
    <3> QED
      BY <3>1, <3>2, Zenon
  <2>6. /\ Sound(r) /\ Len(r.lru) <= Capacity /\ r.watermark = c1.watermark
        /\ r.held = c1.held \cup {id} /\ r.order[id] = ticket
        /\ (\A i \in Ids \ {id} : r.order[i] = c1.order[i]) /\ r.alias = b.alias
    <3>1. Sound(c1) /\ Len(c1.lru) <= Capacity /\ Room(c1, id, ticket)
      BY <2>5, Zenon
    <3> QED
      BY <2>2, <2>3, <3>1, PutFacts, SMTT(30)
  <2>7. \A i \in Ids : PlaceKept(c, r, i)
    <3>1. ASSUME NEW i \in Ids, i \in c.held PROVE PlaceKept(c, r, i)
      <4>1. (i \in c1.held /\ c.order[i] <= c1.order[i]) \/ c.order[i] <= c1.watermark
        BY <2>5, <3>1 DEF PlaceKept
      <4>2. CASE i = id
        BY <2>4, <2>6, <3>1, <4>2, Zenon DEF PlaceKept
      <4>3. CASE i # id
        BY <2>6, <4>1, <4>3 DEF PlaceKept
      <4> QED
        BY <4>2, <4>3
    <3> QED
      BY <3>1 DEF PlaceKept
  <2>8. ASSUME NEW m \in Names PROVE BindingKept(c, r, m, id, n, ticket)
    <3>1. \/ b = c1
          \/ /\ n \in Names /\ MayBind(c1, n, ticket)
             /\ b.alias[n].id = id /\ b.alias[n].order = ticket
             /\ \A k \in Names \ {n} :
                  b.alias[k] = IF c1.alias[k].id = id THEN Unbound ELSE c1.alias[k]
      <4>1. Sound(c1)
        BY <2>5, Zenon
      <4> QED
        BY <2>2, <4>1, BindFacts, SMTT(30)
    <3>2. \/ c1.alias[m] = c.alias[m]
          \/ /\ c1.alias[m] = Unbound /\ c.alias[m].order <= c1.watermark
             /\ c.alias[m].id # id /\ c.alias[m].id \notin c1.held
      BY <2>5, Zenon
    <3>3. CASE b.alias[m] = c1.alias[m]
      BY <2>6, <3>2, <3>3, UnboundFacts, Zenon DEF BindingKept
    <3>4. CASE m # n /\ c1.alias[m].id = id /\ b.alias[m] = Unbound
      <4>1. c1.alias[m] = c.alias[m]
        BY <3>2, <3>4, UnboundFacts, KeysetCacheAssumption
      <4>2. n \in Names /\ b.alias[n].id = id /\ b.alias[n].order = ticket
        BY <3>1, <3>4, UnboundFacts, KeysetCacheAssumption, Zenon
      <4> QED
        BY <2>6, <3>4, <4>1, <4>2, UnboundFacts, Zenon DEF BindingKept
    <3>5. CASE m = n /\ MayBind(c1, n, ticket) /\ b.alias[n].id = id
               /\ b.alias[n].order = ticket
      <4>1. c1.watermark <= ticket /\ c1.alias[m].order <= ticket
        BY <3>5 DEF MayBind
      <4>2. c.watermark <= ticket
        BY <1>0, <2>5, <4>1, SMTT(30)
      <4>3. c.alias[m].order <= ticket
        BY <1>1, <2>5, <3>2, <4>1
      <4> QED
        BY <1>3, <2>6, <3>5, <4>2, <4>3, Zenon DEF BindingKept
    <3> QED
      BY <3>1, <3>3, <3>4, <3>5, Zenon
  <2> QED
    BY <1>3, <2>5, <2>6, <2>7, <2>8, Zenon
<1> QED
  BY <1>2, <1>3, SMTT(30)

\* What `forget` makes of cache c.
Forgot(c, r, n, ticket) ==
  /\ Sound(r) /\ r.lru = c.lru /\ r.held = c.held /\ r.order = c.order
  /\ r.watermark = Latest(c.watermark, ticket)
  /\ \A m \in Names : r.alias[m] = c.alias[m]
                      \/ (m = n /\ r.alias[m].id = None /\ c.alias[m].order <= ticket)

\* forget: a binding of the name goes if it is older, and the watermark rises
\* to this lookup.
LEMMA ForgetFacts ==
  ASSUME NEW c, Sound(c), NEW n \in Names, NEW ticket \in Nat,
         NEW r, r = Forget(c, n, ticket)
  PROVE  Forgot(c, r, n, ticket)
<1> USE DEF Forgot
<1> DEFINE w == Latest(c.watermark, ticket)
           c1 == [c EXCEPT !.watermark = w]
           b == c.alias[n].id
<1>0. /\ c \in Cache /\ c.held \in SUBSET Ids /\ c.watermark \in Nat
      /\ c.name \in [Ids -> Names \cup {None}] /\ c.alias \in [Names -> Alias]
      /\ Index(c) /\ Behind(c) /\ UseOk(c) /\ b \in Ids \cup {None}
      /\ c.alias[n].order \in Nat
  BY CacheFields, Zenon DEF Sound, Alias
<1>1. w \in Nat
  BY <1>0 DEF Latest
<1> HIDE DEF w
<1>2. /\ c1 \in Cache /\ c1.held = c.held /\ c1.name = c.name /\ c1.order = c.order
      /\ c1.alias = c.alias /\ c1.lru = c.lru /\ c1.watermark = w
  BY <1>0, <1>1, Zenon DEF Cache
<1>3. CASE b = None \/ c.alias[n].order > ticket
  <2>1. r = c1
    BY <1>3 DEF Forget, w
  <2> HIDE DEF c1
  <2>2. Sound(r)
    <3>0. r.held = c.held /\ r.name = c.name /\ r.alias = c.alias
      BY <1>2, <2>1, Zenon
    <3>1. Index(r)
      BY <1>0, <3>0, ZenonT(60) DEF Index
    <3>2. Behind(r)
      BY <1>0, <1>2, <2>1, Zenon DEF Behind
    <3>3. UseOk(r)
      BY <1>0, <1>2, <2>1, Zenon DEF UseOk
    <3> QED
      BY <1>2, <2>1, <3>1, <3>2, <3>3, Zenon DEF Sound
  <2> QED
    BY <1>2, <2>1, <2>2, Zenon DEF w
<1>4. CASE ~(b = None \/ c.alias[n].order > ticket)
  <2> DEFINE a == [c.alias EXCEPT ![n] = Unbound]
             c2 == [c1 EXCEPT !.alias = a]
             nm == [c.name EXCEPT ![b] = None]
  <2>1. b \in c.held /\ c.name[b] = n /\ b \in Ids /\ c.alias[n].order <= ticket
    BY <1>0, <1>4, SMTT(30) DEF Index
  <2>2. r = ForgetNameOf(c2, b, n)
    BY <1>4 DEF Forget, w
  <2> HIDE DEF c1
  <2>3. /\ a \in [Names -> Alias] /\ a[n] = Unbound
        /\ \A m \in Names \ {n} : a[m] = c.alias[m]
    BY <1>0, UnboundFacts
  <2> HIDE DEF a
  <2>4. /\ c2 \in Cache /\ c2.held = c.held /\ c2.name = c.name /\ c2.order = c.order
        /\ c2.alias = a /\ c2.lru = c.lru /\ c2.watermark = w
    <3>1. /\ c2 \in Cache /\ c2.held = c1.held /\ c2.name = c1.name /\ c2.order = c1.order
          /\ c2.alias = a /\ c2.lru = c1.lru /\ c2.watermark = c1.watermark
      <4>1. c1 \in Cache
        BY <1>2
      <4> QED
        BY <2>3, <4>1, Zenon DEF Cache
    <3> QED
      BY <1>2, <3>1
  <2>5. r = [c2 EXCEPT !.name = nm]
    BY <2>1, <2>2, <2>4, Zenon DEF ForgetNameOf
  <2> HIDE DEF c2
  <2>6. /\ nm \in [Ids -> Names \cup {None}] /\ nm[b] = None
        /\ \A i \in Ids \ {b} : nm[i] = c.name[i]
    BY <1>0, <2>1, Zenon
  <2> HIDE DEF nm
  <2>7. /\ r \in Cache /\ r.held = c.held /\ r.name = nm /\ r.order = c.order
        /\ r.alias = a /\ r.lru = c.lru /\ r.watermark = w
    <3>1. /\ r \in Cache /\ r.held = c2.held /\ r.name = nm /\ r.order = c2.order
          /\ r.alias = c2.alias /\ r.lru = c2.lru /\ r.watermark = c2.watermark
      <4>1. c2 \in Cache
        BY <2>4
      <4> QED
        BY <2>5, <2>6, <4>1, ZenonT(60) DEF Cache
    <3> QED
      BY <2>4, <3>1, Zenon
  <2>8. /\ \A m \in Names : a[m].id # None => a[m] = c.alias[m] /\ m # n
        /\ \A i \in Ids : nm[i] # None => nm[i] = c.name[i] /\ i # b
    BY <2>3, <2>6, UnboundFacts
  <2>9. /\ \A m \in Names : c.alias[m].id # None =>
             c.alias[m].id \in Ids /\ (c.alias[m].id = b => m = n)
        /\ \A i \in Ids : c.name[i] # None =>
             c.name[i] \in Names /\ (c.name[i] = n => i = b)
    <3>1. ASSUME NEW m \in Names, c.alias[m].id # None
          PROVE  c.alias[m].id \in Ids /\ (c.alias[m].id = b => m = n)
      BY <1>0, <2>1, <3>1, Zenon DEF Index
    <3>2. ASSUME NEW i \in Ids, c.name[i] # None
          PROVE  c.name[i] \in Names /\ (c.name[i] = n => i = b)
      BY <1>0, <2>1, <3>2, ZenonT(60) DEF Index
    <3> QED
      BY <3>1, <3>2, Zenon
  <2>10. /\ \A m \in Names : a[m].id # None => a[m].id \in c.held /\ nm[a[m].id] = m
         /\ \A i \in Ids : nm[i] # None => i \in c.held /\ a[nm[i]].id = i
    <3>1. ASSUME NEW m \in Names, a[m].id # None PROVE a[m].id \in c.held /\ nm[a[m].id] = m
      <4>1. a[m] = c.alias[m] /\ m # n /\ c.alias[m].id # None
        BY <2>8, <3>1, Zenon
      <4>2. c.alias[m].id \in Ids \ {b}
        BY <2>9, <4>1, Zenon
      <4>3. c.alias[m].id \in c.held /\ c.name[c.alias[m].id] = m
        BY <1>0, <4>1, Zenon DEF Index
      <4> QED
        BY <2>6, <4>1, <4>2, <4>3, Zenon
    <3>2. ASSUME NEW i \in Ids, nm[i] # None PROVE i \in c.held /\ a[nm[i]].id = i
      <4>1. nm[i] = c.name[i] /\ i # b /\ c.name[i] # None
        BY <2>8, <3>2, Zenon
      <4>2. c.name[i] \in Names \ {n}
        BY <2>9, <4>1, Zenon
      <4>3. i \in c.held /\ c.alias[c.name[i]].id = i
        BY <1>0, <4>1, Zenon DEF Index
      <4> QED
        BY <2>3, <4>1, <4>2, <4>3, Zenon
    <3> QED
      BY <3>1, <3>2
  <2>11. Index(r) /\ Behind(r) /\ UseOk(r)
    <3>1. \A m \in Names : r.alias[m].id # None =>
            r.alias[m].id \in r.held /\ r.name[r.alias[m].id] = m
      BY <2>7, <2>10
    <3>2. \A i \in Ids : r.name[i] # None => i \in r.held /\ r.alias[r.name[i]].id = i
      BY <2>7, <2>10, Zenon
    <3>3. Behind(r)
      BY <1>0, <2>7, <2>8, ZenonT(60) DEF Behind
    <3>4. UseOk(r)
      BY <1>0, <2>7, Zenon DEF UseOk
    <3> QED
      BY <3>1, <3>2, <3>3, <3>4, Zenon DEF Index
  <2> QED
    BY <2>1, <2>3, <2>7, <2>11, UnboundFacts, Zenon DEF Sound, w
<1> QED
  BY <1>3, <1>4, Zenon

-----------------------------------------------------------------------------
(* The selections.                                                         *)

\* What a step may do to the history: nothing, or note the ticket of selection s.
Noted(s, old, new) == new = old \/ (sel[s].pc # "idle" /\ new = sel[s].ticket)

\* A selection moves on: it rests, keeps its ticket, or takes a new one.
Moves(s, r) ==
  \/ r.pc = "idle"
  \/ /\ r.by \in Ids \cup Names /\ r.ticket \in 1..resolutions'
     /\ r.pc = "answered" /\ r.answer = None => r.by \in Names
     /\ UNCHANGED <<spoken, ruled>>
     /\ (sel[s].pc # "idle" /\ r.ticket = sel[s].ticket) \/ r.ticket > resolutions

\* The tickets in flight stay distinct, and new to whatever has landed.
LEMMA FlightStep ==
  ASSUME OrderInv, NEW s \in Selections, NEW r \in Selection, sel' = [sel EXCEPT ![s] = r],
         resolutions' \in Nat, resolutions' >= resolutions,
         \A id \in Ids : Noted(s, spoken[id], spoken'[id]),
         \A n \in Names : Noted(s, ruled[n], ruled'[n]),
         Moves(s, r)
  PROVE  /\ sel' \in [Selections -> Selection] /\ \A t \in Selections : FlightOk(t)'
         /\ \A id \in Ids : spoken'[id] <= resolutions'
         /\ \A n \in Names : ruled'[n] <= resolutions'
<1>0. /\ sel \in [Selections -> Selection] /\ resolutions \in Nat
      /\ (\A id \in Ids : spoken[id] \in Nat /\ spoken[id] <= resolutions)
      /\ (\A n \in Names : ruled[n] \in Nat /\ ruled[n] <= resolutions)
      /\ \A t \in Selections : FlightOk(t)
  BY DEF OrderInv, TypeOK
<1>1. sel' \in [Selections -> Selection] /\ sel'[s] = r
      /\ \A t \in Selections \ {s} : sel'[t] = sel[t]
  BY <1>0, Zenon
<1>2. ASSUME NEW t \in Selections \ {s} PROVE FlightOk(t)'
  <2>1. SUFFICES ASSUME sel[t].pc # "idle"
                 PROVE  /\ sel[t].by \in Ids \cup Names /\ sel[t].ticket \in 1..resolutions'
                        /\ sel[t].pc = "answered" /\ sel[t].answer = None => sel[t].by \in Names
                        /\ \A u \in Selections \ {t} : sel'[u].pc # "idle" =>
                             sel'[u].ticket # sel[t].ticket
                        /\ \A id \in Ids : spoken'[id] # sel[t].ticket
                        /\ \A n \in Names : ruled'[n] # sel[t].ticket
    BY <1>1, ZenonT(60) DEF FlightOk
  <2>2. /\ sel[t].by \in Ids \cup Names /\ sel[t].ticket \in 1..resolutions
        /\ sel[t].pc = "answered" /\ sel[t].answer = None => sel[t].by \in Names
        /\ \A u \in Selections \ {t} : sel[u].pc # "idle" => sel[u].ticket # sel[t].ticket
        /\ \A id \in Ids : spoken[id] # sel[t].ticket
        /\ \A n \in Names : ruled[n] # sel[t].ticket
    BY <1>0, <2>1, Zenon DEF FlightOk
  <2>3. \A id \in Ids : spoken'[id] # sel[t].ticket
    BY <2>2, Zenon DEF Noted
  <2>4. \A n \in Names : ruled'[n] # sel[t].ticket
    BY <2>2, Zenon DEF Noted
  <2>5. r.pc # "idle" => r.ticket # sel[t].ticket
    <3>1. resolutions \in Nat /\ sel[t].ticket \in 1..resolutions
      BY <1>0, <2>2, Zenon
    <3>2. r.pc # "idle" => (sel[s].pc # "idle" /\ r.ticket = sel[s].ticket) \/ r.ticket > resolutions
      BY Zenon DEF Moves
    <3>3. sel[s].pc # "idle" => sel[s].ticket # sel[t].ticket
      BY <2>2, Zenon
    <3> QED
      BY <3>1, <3>2, <3>3
  <2>6. sel[t].ticket \in 1..resolutions'
    <3>1. resolutions \in Nat /\ sel[t].ticket \in 1..resolutions
      BY <1>0, <2>2, Zenon
    <3> QED
      BY <3>1
  <2> QED
    BY <1>1, <2>2, <2>3, <2>4, <2>5, <2>6, Zenon
<1>3. FlightOk(s)'
  <2>1. CASE r.pc = "idle"
    BY <1>1, <2>1, Zenon DEF FlightOk
  <2>2. CASE r.pc # "idle"
    <3>1. /\ r.by \in Ids \cup Names /\ r.ticket \in 1..resolutions'
          /\ r.pc = "answered" /\ r.answer = None => r.by \in Names
          /\ UNCHANGED <<spoken, ruled>>
          /\ (sel[s].pc # "idle" /\ r.ticket = sel[s].ticket) \/ r.ticket > resolutions
      BY <2>2 DEF Moves
    <3>2. \A id \in Ids : spoken[id] # r.ticket
      <4>1. CASE sel[s].pc # "idle" /\ r.ticket = sel[s].ticket
        BY <1>0, <4>1, Zenon DEF FlightOk
      <4>2. CASE r.ticket > resolutions
        BY <1>0, <3>1, <4>2
      <4> QED
        BY <3>1, <4>1, <4>2, Zenon
    <3>3. \A n \in Names : ruled[n] # r.ticket
      <4>1. CASE sel[s].pc # "idle" /\ r.ticket = sel[s].ticket
        BY <1>0, <4>1, Zenon DEF FlightOk
      <4>2. CASE r.ticket > resolutions
        BY <1>0, <3>1, <4>2
      <4> QED
        BY <3>1, <4>1, <4>2, Zenon
    <3>4. ASSUME NEW u \in Selections \ {s}, sel[u].pc # "idle" PROVE sel[u].ticket # r.ticket
      <4>1. sel[u].ticket \in 1..resolutions /\ (sel[s].pc # "idle" => sel[s].ticket # sel[u].ticket)
        BY <1>0, <3>4, Zenon DEF FlightOk
      <4> QED
        BY <1>0, <3>1, <4>1
    <3> QED
      BY <1>1, <3>1, <3>2, <3>3, <3>4, Zenon DEF FlightOk
  <2> QED
    BY <2>1, <2>2
<1>4. sel[s].pc # "idle" => sel[s].ticket \in 1..resolutions
  BY <1>0, Zenon DEF FlightOk
<1>5. (\A id \in Ids : spoken'[id] <= resolutions') /\ \A n \in Names : ruled'[n] <= resolutions'
  BY <1>0, <1>4 DEF Noted
<1> QED
  BY <1>1, <1>2, <1>3, <1>5, Zenon

\* A step that leaves the history alone, and of the cache at most the order of use.
LEMMA QuietStep ==
  ASSUME OrderInv, NEW s \in Selections, NEW r \in Selection, sel' = [sel EXCEPT ![s] = r],
         resolutions' \in Nat, resolutions' >= resolutions, Moves(s, r),
         UNCHANGED history, UNCHANGED <<clock, kms>>,
         cache' = cache \/ \E id \in cache.held : cache' = Touch(cache, id)
  PROVE  OrderInv' /\ cache'.alias = cache.alias
<1>0. TypeOK /\ Sound(cache) /\ Len(cache.lru) <= Capacity /\ Remembered /\ Kept
  BY DEF OrderInv
<1>1. /\ Sound(cache') /\ Len(cache'.lru) <= Capacity /\ cache'.held = cache.held
      /\ cache'.order = cache.order /\ cache'.alias = cache.alias
      /\ cache'.watermark = cache.watermark
  <2>1. CASE cache' = cache
    BY <1>0, <2>1, Zenon
  <2>2. ASSUME NEW id \in cache.held, cache' = Touch(cache, id)
        PROVE  /\ Sound(cache') /\ Len(cache'.lru) <= Capacity /\ cache'.held = cache.held
               /\ cache'.order = cache.order /\ cache'.alias = cache.alias
               /\ cache'.watermark = cache.watermark
    <3>1. cache \in Cache /\ id \in Ids
      BY <1>0, CacheFields, Zenon DEF Sound
    <3> QED
      BY <1>0, <2>2, <3>1, TouchSound, TouchFacts, SMTT(30)
  <2> QED
    BY <2>1, <2>2, Zenon
<1>2. UNCHANGED <<ruled, left, spoken, meant>>
  BY DEF history
<1>3. /\ sel' \in [Selections -> Selection] /\ (\A t \in Selections : FlightOk(t)')
      /\ (\A id \in Ids : spoken'[id] <= resolutions')
      /\ \A n \in Names : ruled'[n] <= resolutions'
  BY <1>2, FlightStep, Zenon DEF Noted
<1>4. Remembered' /\ Kept'
  BY <1>0, <1>1, <1>2, Zenon DEF Remembered, Kept
<1>5. TypeOK'
  BY <1>0, <1>1, <1>2, <1>3, Zenon DEF TypeOK, Sound
<1> QED
  BY <1>1, <1>3, <1>4, <1>5 DEF OrderInv

-----------------------------------------------------------------------------
(* The steps.                                                              *)

\* What NoTakingBack and NameNotResurrected say of one step.
KeepsToLatest ==
  \A n \in Names :
    LET a == cache'.alias[n] IN
    a.id # None /\ a # cache.alias[n] =>
      a.order > spoken[a.id] /\ (n \notin left => a.order > ruled[n])

\* What OrderInv says of a selection whose answer has come.
LEMMA Answered ==
  ASSUME OrderInv, NEW s \in Selections, sel[s].pc = "answered"
  PROVE  /\ sel[s].ticket \in Nat /\ sel[s].ticket >= 1 /\ sel[s].ticket <= resolutions
         /\ sel[s].by \in Ids \cup Names /\ sel[s].answer \in Ids \cup {None}
         /\ sel[s].answer = None => sel[s].by \in Names
         /\ \A id \in Ids : spoken[id] # sel[s].ticket
         /\ \A n \in Names : ruled[n] # sel[s].ticket
<1>1. sel[s] \in Selection /\ FlightOk(s) /\ resolutions \in Nat
  BY SMTT(30) DEF OrderInv, TypeOK
<1> QED
  BY <1>1, SMTT(30) DEF FlightOk, Selection

\* get, ZeroKMS's answer and its absence leave the bindings as they are.
LEMMA QuietActions ==
  ASSUME OrderInv, NEW s \in Selections,
         \/ \E by \in Ids \cup Names : Hit(s, by) \/ Ask(s, by)
         \/ Reply(s) \/ NoAnswer(s)
  PROVE  OrderInv' /\ KeepsToLatest
<1>0. /\ sel \in [Selections -> Selection] /\ resolutions \in Nat /\ FlightOk(s)
      /\ sel[s] \in Selection /\ cache \in Cache /\ cache.held \in SUBSET Ids
  BY CacheFields, Zenon DEF OrderInv, TypeOK, Sound
<1>1. ASSUME NEW by \in Ids \cup Names, Hit(s, by) PROVE OrderInv' /\ cache'.alias = cache.alias
  <2>1. PICK id : id = Target(cache, by)
    BY SMTT(30)
  <2>2. /\ id \in cache.held /\ cache' = Touch(cache, id)
        /\ sel' = [sel EXCEPT ![s] = Rest(id)]
        /\ UNCHANGED <<resolutions, clock, kms, history>>
    BY <1>1, <2>1, Zenon DEF Hit
  <2>3. Rest(id) \in Selection /\ Moves(s, Rest(id))
    BY <1>0, <2>2, Zenon DEF Rest, Selection, Moves
  <2>4. resolutions' \in Nat /\ resolutions' >= resolutions
    BY <1>0, <2>2, SMTT(30)
  <2> QED
    BY <2>2, <2>3, <2>4, QuietStep, Zenon
<1>2. ASSUME NEW by \in Ids \cup Names, Ask(s, by) PROVE OrderInv' /\ cache'.alias = cache.alias
  <2>1. PICK id : id = Target(cache, by)
    BY Zenon
  <2>2. PICK r : r = [pc |-> "asked", by |-> by, ticket |-> resolutions + 1, answer |-> None]
    BY Zenon
  <2>3. /\ cache' = IF id \in cache.held THEN Touch(cache, id) ELSE cache
        /\ resolutions' = resolutions + 1 /\ sel' = [sel EXCEPT ![s] = r]
        /\ UNCHANGED <<clock, kms, history>>
    BY <1>2, <2>1, <2>2, Zenon DEF Ask
  <2>4. r \in Selection
    <3>0. resolutions \in Nat
      BY <1>0, Zenon
    <3>1. resolutions + 1 \in Nat
      BY <3>0
    <3> QED
      BY <2>2, <3>1, Zenon DEF Selection
  <2>5. r.by = by /\ r.ticket = resolutions + 1 /\ r.pc = "asked"
    BY <2>2, SMTT(30)
  <2>6. r.ticket \in 1..resolutions' /\ r.ticket > resolutions
    <3>1. resolutions \in Nat /\ resolutions' = resolutions + 1 /\ r.ticket = resolutions + 1
      BY <1>0, <2>3, <2>5, Zenon
    <3> QED
      BY <3>1
  <2>7. Moves(s, r)
    BY <2>3, <2>5, <2>6, Zenon DEF Moves, history
  <2>8. resolutions' \in Nat /\ resolutions' >= resolutions
    <3>1. resolutions \in Nat /\ resolutions' = resolutions + 1
      BY <1>0, <2>3, Zenon
    <3> QED
      BY <3>1
  <2> QED
    BY <2>3, <2>4, <2>7, <2>8, QuietStep, Zenon
<1>3. ASSUME Reply(s) PROVE OrderInv' /\ cache'.alias = cache.alias
  <2>1. PICK found : found = {id \in Ids : IF sel[s].by \in Names THEN kms[id] = sel[s].by
                                           ELSE id = sel[s].by}
    BY Zenon
  <2>2. PICK id \in (IF found = {} THEN {None} ELSE found) :
          sel' = [sel EXCEPT ![s] = [sel[s] EXCEPT !.pc = "answered", !.answer = id]]
    BY <1>0, <1>3, <2>1, Zenon DEF Reply
  <2>3. PICK r : r = [sel[s] EXCEPT !.pc = "answered", !.answer = id]
    OBVIOUS
  <2>4. sel[s].pc = "asked" /\ UNCHANGED <<cache, resolutions, clock, kms, history>>
    BY <1>3, Zenon DEF Reply
  <2>5. id \in Ids \cup {None} /\ (id = None => sel[s].by \in Names)
    <3>1. sel[s].by \in Ids \cup Names
      BY <1>0, <2>4, Zenon DEF FlightOk
    <3> QED
      BY <2>1, <2>2, <3>1, KeysetCacheAssumption
  <2>6. /\ r \in Selection /\ r.pc = "answered" /\ r.answer = id /\ r.by = sel[s].by
        /\ r.ticket = sel[s].ticket
    BY <1>0, <2>3, <2>5, Zenon DEF Selection
  <2>7. Moves(s, r)
    BY <1>0, <2>4, <2>5, <2>6, Zenon DEF Moves, FlightOk, history
  <2>8. resolutions' \in Nat /\ resolutions' >= resolutions
    <3>1. resolutions \in Nat /\ resolutions' = resolutions
      BY <1>0, <2>4, Zenon
    <3> QED
      BY <3>1
  <2> QED
    BY <2>2, <2>3, <2>4, <2>6, <2>7, <2>8, QuietStep, Zenon
<1>4. ASSUME NoAnswer(s) PROVE OrderInv' /\ cache'.alias = cache.alias
  <2>1. Rest(None) \in Selection /\ Moves(s, Rest(None))
    BY Zenon DEF Rest, Selection, Moves
  <2>2. resolutions' \in Nat /\ resolutions' >= resolutions
    <3>1. resolutions \in Nat /\ resolutions' = resolutions
      BY <1>0, <1>4, Zenon DEF NoAnswer
    <3> QED
      BY <3>1
  <2> QED
    BY <1>4, <2>1, <2>2, QuietStep, Zenon DEF NoAnswer
<1> QED
  BY <1>1, <1>2, <1>3, <1>4, Zenon DEF KeepsToLatest

\* A NotFound answer lands: forget.
LEMMA LandNotFoundStep ==
  ASSUME OrderInv, NEW s \in Selections, LandNotFound(s)
  PROVE  OrderInv' /\ KeepsToLatest
<1>1. PICK q : q = sel[s]
  OBVIOUS
<1>2. /\ q.pc = "answered" /\ q.answer = None
      /\ cache' = Forget(cache, q.by, q.ticket)
      /\ sel' = [sel EXCEPT ![s] = Rest(None)]
      /\ ruled' = [ruled EXCEPT ![q.by] = Latest(ruled[q.by], q.ticket)]
      /\ left' = (IF ruled[q.by] < q.ticket THEN left \ {q.by} ELSE left)
      /\ meant' = (IF ruled[q.by] < q.ticket THEN [meant EXCEPT ![q.by] = None] ELSE meant)
      /\ UNCHANGED <<resolutions, clock, kms, spoken>>
  BY <1>1, Zenon DEF LandNotFound
<1>3. q.ticket \in Nat /\ q.by \in Names /\ q.ticket <= resolutions
  BY <1>1, <1>2, Answered, Zenon
<1>4. TypeOK /\ Sound(cache) /\ Len(cache.lru) <= Capacity /\ Remembered /\ resolutions \in Nat
      /\ ruled \in [Names -> Nat] /\ spoken \in [Ids -> Nat] /\ Kept
      /\ meant \in [Names -> Ids \cup {None}]
  BY DEF OrderInv, TypeOK
<1>5. /\ cache \in Cache /\ cache.watermark \in Nat /\ cache.order \in [Ids -> Nat]
      /\ \A m \in Names : cache.alias[m].order \in Nat
  BY <1>4, CacheFields, Zenon DEF Sound, Alias
<1>6. /\ Sound(cache') /\ cache'.lru = cache.lru /\ cache'.held = cache.held
      /\ cache'.order = cache.order /\ cache'.watermark = Latest(cache.watermark, q.ticket)
      /\ \A m \in Names : cache'.alias[m] = cache.alias[m]
                          \/ /\ m = q.by /\ cache'.alias[m].id = None
                             /\ cache.alias[m].order <= q.ticket
  <2>1. PICK n \in Names : n = q.by
    BY <1>3
  <2>2. PICK k \in Nat : k = q.ticket
    BY <1>3
  <2>3. PICK r : r = cache'
    OBVIOUS
  <2>4. r = Forget(cache, n, k)
    BY <1>2, <2>1, <2>2, <2>3, SMTT(30)
  <2>5. Forgot(cache, r, n, k)
    BY <1>4, <2>4, ForgetFacts
  <2> QED
    BY <2>1, <2>2, <2>3, <2>5, Zenon DEF Forgot
<1>7. cache'.watermark \in Nat /\ cache'.watermark >= cache.watermark
      /\ cache'.watermark >= q.ticket
  BY <1>3, <1>5, <1>6, SMTT(30) DEF Latest
<1>8. ruled' \in [Names -> Nat] /\ (\A m \in Names \ {q.by} : ruled'[m] = ruled[m])
      /\ ruled'[q.by] = Latest(ruled[q.by], q.ticket)
  BY <1>2, <1>3, <1>4 DEF Latest
<1>9. Rest(None) \in Selection /\ Moves(s, Rest(None))
  BY Zenon DEF Rest, Selection, Moves
<1>10. \A n \in Names : Noted(s, ruled[n], ruled'[n])
  BY <1>1, <1>2, <1>3, <1>8, Zenon DEF Noted, Latest
<1>11. \A id \in Ids : Noted(s, spoken[id], spoken'[id])
  BY <1>2, Zenon DEF Noted
<1>12. /\ sel' \in [Selections -> Selection] /\ (\A t \in Selections : FlightOk(t)')
       /\ (\A id \in Ids : spoken'[id] <= resolutions')
       /\ \A n \in Names : ruled'[n] <= resolutions'
  <2>1. resolutions' \in Nat /\ resolutions' >= resolutions
    BY <1>2, <1>4
  <2> QED
    BY <1>2, <1>9, <1>10, <1>11, <2>1, FlightStep, Zenon
<1>13. \A id \in Ids : \/ spoken'[id] <= cache'.watermark
                       \/ id \in cache'.held /\ spoken'[id] <= cache'.order[id]
  <2> SUFFICES ASSUME NEW id \in Ids
               PROVE  \/ spoken[id] <= cache'.watermark
                      \/ id \in cache.held /\ spoken[id] <= cache.order[id]
    BY <1>2, <1>6, Zenon
  <2>1. spoken[id] \in Nat
    BY <1>4
  <2> QED
    <3>1. spoken[id] <= cache.watermark \/ (id \in cache.held /\ spoken[id] <= cache.order[id])
      BY <1>4, Zenon DEF Remembered
    <3>2. cache.watermark \in Nat /\ cache'.watermark \in Nat /\ cache'.watermark >= cache.watermark
      BY <1>5, <1>7, Zenon
    <3> QED
      BY <2>1, <3>1, <3>2
<1>14. ASSUME NEW m \in Names \ left'
       PROVE  ruled'[m] <= cache'.watermark \/ ruled'[m] <= cache'.alias[m].order
  <2>1. ruled[m] \in Nat /\ cache.alias[m].order \in Nat
    BY <1>4, <1>5, SMTT(30)
  <2>2. CASE m = q.by /\ ruled[m] < q.ticket
    <3>1. ruled'[m] = Latest(ruled[m], q.ticket) /\ q.ticket \in Nat /\ q.ticket <= cache'.watermark
      BY <1>3, <1>7, <1>8, <2>2
    <3> QED
      BY <2>1, <2>2, <3>1 DEF Latest
  <2>3. CASE ~(m = q.by /\ ruled[m] < q.ticket)
    <3>1. (m \notin left /\ ruled'[m] = ruled[m]) \/ ruled'[m] = q.ticket
      BY <1>2, <1>3, <1>8, <2>1, <2>3, Zenon DEF Latest
    <3>2. CASE ruled'[m] = q.ticket
      BY <1>7, <3>2, Zenon
    <3>3. CASE m \notin left /\ ruled'[m] = ruled[m]
      <4>1. ruled[m] <= cache.watermark \/ ruled[m] <= cache.alias[m].order
        BY <1>4, <3>3 DEF Remembered
      <4> QED
        <5>1. cache'.alias[m] = cache.alias[m] \/ cache.alias[m].order <= q.ticket
          BY <1>6, Zenon
        <5>2. /\ cache.watermark \in Nat /\ cache'.watermark \in Nat /\ q.ticket \in Nat
              /\ cache'.watermark >= cache.watermark /\ cache'.watermark >= q.ticket
          BY <1>3, <1>5, <1>7, Zenon
        <5> QED
          BY <2>1, <3>3, <4>1, <5>1, <5>2
    <3> QED
      BY <3>1, <3>2, <3>3, SMTT(30)
  <2> QED
    BY <2>2, <2>3
<1>15. Remembered'
  BY <1>13, <1>14, SMTT(30) DEF Remembered
<1>16. left' \in SUBSET Names
  BY <1>2, <1>4, Zenon DEF TypeOK
<1>17. /\ meant' \in [Names -> Ids \cup {None}]
       /\ \A m \in Names : meant'[m] # None =>
            meant'[m] = meant[m] /\ ~(m = q.by /\ ruled[m] < q.ticket)
  BY <1>2, <1>4, Zenon
<1>18. TypeOK'
  BY <1>2, <1>4, <1>6, <1>8, <1>12, <1>16, <1>17, ZenonT(30) DEF TypeOK, Sound
<1>19. KeepsToLatest
  BY <1>6, Zenon DEF KeepsToLatest
<1>20. ASSUME NEW m \in Names, meant'[m] # None
       PROVE  cache'.alias[m].id = meant'[m] /\ cache'.alias[m].order = ruled'[m]
  <2>1. /\ meant'[m] = meant[m] /\ ~(m = q.by /\ ruled[m] < q.ticket)
        /\ cache.alias[m].id = meant[m] /\ cache.alias[m].order = ruled[m]
    BY <1>4, <1>17, <1>20, Zenon DEF Kept
  <2>2. ruled[m] \in Nat /\ q.ticket \in Nat /\ ruled[m] # q.ticket
    BY <1>1, <1>2, <1>3, <1>4, Answered, Zenon
  <2>3. m = q.by => ruled[m] > q.ticket
    BY <2>1, <2>2
  <2>4. ruled'[m] = ruled[m]
    BY <1>3, <1>8, <2>2, <2>3, SMTT(30) DEF Latest
  <2>5. cache'.alias[m] = cache.alias[m]
    <3>1. m = q.by => ~(cache.alias[m].order <= q.ticket)
      BY <2>1, <2>2, <2>3
    <3> QED
      BY <1>6, <3>1, Zenon
  <2> QED
    BY <2>1, <2>4, <2>5, Zenon
<1>21. Kept'
  BY <1>20, Zenon DEF Kept
<1>22. OrderInv'
  BY <1>4, <1>6, <1>12, <1>15, <1>18, <1>21, Zenon DEF OrderInv
<1> QED
  BY <1>19, <1>22

\* A loaded keyset lands: insert.
LEMMA LandStep ==
  ASSUME OrderInv, NEW s \in Selections, Land(s)
  PROVE  OrderInv' /\ KeepsToLatest
<1>1. PICK q : q = sel[s]
  OBVIOUS
<1>2. PICK n : n = IF q.by \in Names THEN q.by ELSE None
  OBVIOUS
<1>3. PICK r : r = cache'
  OBVIOUS
<1>4. PICK bound : bound = {m \in Names : m = n /\ r.alias[m].id = q.answer
                                           /\ r.alias[m].order = q.ticket}
  BY Zenon
<1>5. PICK moved : moved = {m \in Names : m # n /\ cache.alias[m].id = q.answer
                                          /\ r.alias[m].id = None}
  BY Zenon
<1>6. PICK latest : latest = {m \in bound : ruled[m] < q.ticket}
  BY Zenon
<1>7. PICK lost : lost = {m \in Names : meant[m] \notin r.held
                                        \/ (bound # {} /\ meant[m] = q.answer)}
  BY Zenon
<1>8. /\ q.pc = "answered" /\ q.answer # None
      /\ r = Insert(cache, q.answer, n, q.ticket)
      /\ sel' = [sel EXCEPT ![s] = Rest(InsertAnswer(cache, q.answer, n, q.ticket))]
      /\ ruled' = [m \in Names |-> IF m \in bound THEN Latest(ruled[m], q.ticket)
                                                   ELSE ruled[m]]
      /\ left' = (left \ latest) \cup moved
      /\ meant' = [m \in Names |-> IF m \in latest THEN q.answer
                                   ELSE IF m \in lost THEN None ELSE meant[m]]
      /\ spoken' = [spoken EXCEPT ![q.answer] = Latest(spoken[q.answer], q.ticket)]
      /\ UNCHANGED <<resolutions, clock, kms>>
  BY <1>1, <1>2, <1>3, <1>4, <1>5, <1>6, <1>7, Zenon DEF Land
<1>9. /\ q.ticket \in Nat /\ q.ticket <= resolutions /\ q.answer \in Ids
      /\ (\A id \in Ids : spoken[id] # q.ticket) /\ \A m \in Names : ruled[m] # q.ticket
  BY <1>1, <1>8, Answered, Zenon
<1>10. TypeOK /\ Sound(cache) /\ Len(cache.lru) <= Capacity /\ Remembered /\ resolutions \in Nat
      /\ ruled \in [Names -> Nat] /\ spoken \in [Ids -> Nat] /\ clock \in Nat
      /\ left \in SUBSET Names /\ Kept /\ meant \in [Names -> Ids \cup {None}]
  BY DEF OrderInv, TypeOK
<1>11. /\ cache \in Cache /\ cache.watermark \in Nat /\ cache.order \in [Ids -> Nat]
      /\ \A m \in Names : cache.alias[m].order \in Nat /\ cache.alias[m].id \in Ids \cup {None}
  BY <1>10, CacheFields, Zenon DEF Sound, Alias
<1>12. PICK id \in Ids : id = q.answer
  BY <1>9, Zenon
<1>13. PICK k \in Nat : k = q.ticket
  BY <1>9, Zenon
<1>14. n \in Names \cup {None}
  BY <1>2, SMTT(30)
<1>15. /\ Sound(r) /\ Len(r.lru) <= Capacity /\ r.watermark >= cache.watermark
       /\ Outdated(cache, id, k) => r = cache
       /\ ~Outdated(cache, id, k) => id \in r.held /\ r.order[id] = k
       /\ \A i \in Ids : PlaceKept(cache, r, i)
       /\ \A m \in Names : BindingKept(cache, r, m, id, n, k)
  <2>1. r = Insert(cache, id, n, k)
    BY <1>8, <1>12, <1>13, SMTT(30)
  <2>2. Inserted(cache, r, id, n, k)
    BY <1>10, <1>14, <2>1, InsertFacts, SMTT(30)
  <2> QED
    BY <2>2, Zenon DEF Inserted
<1>16. /\ r \in Cache /\ r.watermark \in Nat /\ r.order \in [Ids -> Nat]
       /\ \A m \in Names : r.alias[m].order \in Nat
  BY <1>15, CacheFields, Zenon DEF Sound, Alias
<1>17. ruled' \in [Names -> Nat] /\ \A m \in Names :
         ruled'[m] = IF m \in bound THEN Latest(ruled[m], k) ELSE ruled[m]
  BY <1>8, <1>9, <1>10, <1>13, Zenon DEF Latest
<1>18. spoken' \in [Ids -> Nat] /\ spoken'[id] = Latest(spoken[id], k)
       /\ \A i \in Ids \ {id} : spoken'[i] = spoken[i]
  BY <1>8, <1>10, <1>12, <1>13, Zenon DEF Latest
<1>19. \A m \in Names : Noted(s, ruled[m], ruled'[m])
  BY <1>1, <1>8, <1>13, <1>17, Zenon DEF Noted, Latest
<1>20. \A i \in Ids : Noted(s, spoken[i], spoken'[i])
  BY <1>1, <1>8, <1>13, <1>18, Zenon DEF Noted, Latest
<1>21. PICK e : e = Rest(InsertAnswer(cache, q.answer, n, q.ticket))
  BY SMTT(30)
<1>22. e \in Selection /\ Moves(s, e)
  <2>1. InsertAnswer(cache, q.answer, n, q.ticket) \in Ids \cup {None}
    BY <1>9, <1>11, <1>14, Zenon DEF InsertAnswer
  <2> QED
    BY <1>21, <2>1, Zenon DEF Rest, Selection, Moves
<1>23. /\ sel' \in [Selections -> Selection] /\ (\A t \in Selections : FlightOk(t)')
       /\ (\A i \in Ids : spoken'[i] <= resolutions')
       /\ \A m \in Names : ruled'[m] <= resolutions'
  <2>1. resolutions' \in Nat /\ resolutions' >= resolutions
    BY <1>8, <1>10, SMTT(30)
  <2> QED
    BY <1>8, <1>19, <1>20, <1>21, <1>22, <2>1, FlightStep, Zenon
<1>24. ASSUME NEW i \in Ids
       PROVE  spoken'[i] <= r.watermark \/ (i \in r.held /\ spoken'[i] <= r.order[i])
  <2>1. spoken[i] \in Nat /\ cache.order[i] \in Nat /\ r.order[i] \in Nat
        /\ (spoken[i] <= cache.watermark \/ (i \in cache.held /\ spoken[i] <= cache.order[i]))
    BY <1>10, <1>11, <1>16, Zenon DEF Remembered
  <2>2. spoken[i] <= r.watermark \/ (i \in r.held /\ spoken[i] <= r.order[i])
    <3>1. cache.watermark \in Nat /\ r.watermark \in Nat /\ r.watermark >= cache.watermark
      BY <1>11, <1>15, <1>16, Zenon
    <3>2. PlaceKept(cache, r, i)
      BY <1>15, Zenon
    <3> QED
      BY <2>1, <3>1, <3>2, SMTT(30) DEF PlaceKept
  <2>3. CASE i # id
    BY <1>18, <2>2, <2>3, SMTT(30)
  <2>4. CASE i = id /\ Outdated(cache, id, k)
    <3>1. r = cache /\ i \in r.held /\ k <= r.order[i]
      <4>1. r = cache
        BY <1>15, <2>4, Zenon
      <4>2. i \in cache.held /\ cache.order[i] > k
        BY <2>4, Zenon DEF Outdated
      <4> QED
        BY <2>1, <4>1, <4>2
    <3> QED
      BY <1>18, <2>2, <2>4, <3>1, Zenon DEF Latest
  <2>5. CASE i = id /\ ~Outdated(cache, id, k)
    <3>1. i \in r.held /\ r.order[i] = k /\ spoken'[i] = Latest(spoken[i], k)
      BY <1>15, <1>18, <2>5, Zenon
    <3> QED
      BY <2>1, <2>2, <3>1 DEF Latest
  <2> QED
    BY <2>3, <2>4, <2>5, Zenon
<1>25. ASSUME NEW m \in Names, m \notin left'
       PROVE  ruled'[m] <= r.watermark \/ ruled'[m] <= r.alias[m].order
  <2>1. ruled[m] \in Nat /\ cache.alias[m].order \in Nat /\ r.alias[m].order \in Nat
    BY <1>10, <1>11, <1>16, Zenon
  <2>2. CASE ruled'[m] = k /\ m \in bound
    BY <1>4, <1>13, <2>1, <2>2, SMTT(30)
  <2>3. CASE m \notin left /\ ruled'[m] = ruled[m]
    <3>1. ruled[m] <= cache.watermark \/ ruled[m] <= cache.alias[m].order
      BY <1>10, <2>3, Zenon DEF Remembered
    <3>2. ~(m # n /\ r.alias[m].id = None /\ cache.alias[m].id = id)
      BY <1>5, <1>8, <1>12, <1>25, Zenon
    <3>3. BindingKept(cache, r, m, id, n, k)
      BY <1>15, Zenon
    <3> QED
      <4>1. cache.watermark \in Nat /\ r.watermark \in Nat /\ r.watermark >= cache.watermark
        BY <1>11, <1>15, <1>16, Zenon
      <4> QED
        BY <2>1, <2>3, <3>1, <3>2, <3>3, <4>1 DEF BindingKept
  <2>4. (ruled'[m] = k /\ m \in bound) \/ (m \notin left /\ ruled'[m] = ruled[m])
    <3>1. m \notin left \/ (m \in bound /\ ruled[m] < k)
      BY <1>6, <1>8, <1>13, <1>25, Zenon
    <3>2. CASE m \notin bound
      BY <1>17, <3>1, <3>2, SMTT(30)
    <3>3. CASE m \in bound
      <4>1. ruled'[m] = Latest(ruled[m], k)
        BY <1>17, <3>3, SMTT(30)
      <4> QED
        BY <2>1, <3>1, <3>3, <4>1 DEF Latest
    <3> QED
      BY <3>2, <3>3, ZenonT(30)
  <2> QED
    BY <2>2, <2>3, <2>4, Zenon
<1>26. Remembered'
  BY <1>3, <1>24, <1>25, SMTT(30) DEF Remembered
<1>27. left' \in SUBSET Names
  BY <1>5, <1>8, <1>10, Zenon
<1>28. /\ meant' \in [Names -> Ids \cup {None}]
       /\ \A m \in Names : meant'[m] = IF m \in latest THEN id
                                       ELSE IF m \in lost THEN None ELSE meant[m]
  BY <1>8, <1>10, <1>12, Zenon
<1>29. TypeOK'
  BY <1>3, <1>8, <1>10, <1>16, <1>17, <1>18, <1>23, <1>27, <1>28, Zenon DEF TypeOK
<1>30. ASSUME NEW m \in Names, meant'[m] # None
       PROVE  r.alias[m].id = meant'[m] /\ r.alias[m].order = ruled'[m]
  <2>1. ruled[m] \in Nat /\ ruled[m] # k
    BY <1>9, <1>10, <1>13, Zenon
  <2>2. CASE m \in latest
    <3>1. m \in bound /\ ruled[m] < k /\ meant'[m] = id
      BY <1>6, <1>13, <1>28, <2>2, Zenon
    <3>2. r.alias[m].id = id /\ r.alias[m].order = k /\ ruled'[m] = Latest(ruled[m], k)
      BY <1>4, <1>12, <1>13, <1>17, <3>1, Zenon
    <3> QED
      BY <2>1, <3>1, <3>2 DEF Latest
  <2>3. CASE m \notin latest
    <3>1. /\ meant'[m] = meant[m] /\ meant[m] \in r.held /\ ~(bound # {} /\ meant[m] = id)
          /\ cache.alias[m].id = meant[m] /\ cache.alias[m].order = ruled[m]
      BY <1>7, <1>10, <1>12, <1>28, <1>30, <2>3, Zenon DEF Kept
    <3>2. m \notin bound
      <4>1. SUFFICES ASSUME m \in bound PROVE FALSE
        OBVIOUS
      <4>2. r.alias[m].id = id /\ r.alias[m].order = k /\ ~(ruled[m] < k) /\ meant[m] # id
        BY <1>4, <1>6, <1>12, <1>13, <2>3, <3>1, <4>1, Zenon
      <4>3. BindingKept(cache, r, m, id, n, k)
        BY <1>15, Zenon
      <4>4. ~(ruled[m] <= k)
        BY <2>1, <4>2
      <4> QED
        BY <1>9, <1>12, <3>1, <4>2, <4>3, <4>4, KeysetCacheAssumption, Zenon DEF BindingKept
    <3>3. ruled'[m] = ruled[m]
      BY <1>17, <3>2, Zenon
    <3>4. r.alias[m] = cache.alias[m]
      <4>1. BindingKept(cache, r, m, id, n, k)
        BY <1>15, Zenon
      <4>2. CASE m = n /\ r.alias[m].id = id /\ r.alias[m].order = k
        BY <1>4, <1>12, <1>13, <3>2, <4>2, Zenon
      <4>3. CASE m # n /\ r.alias[m].id = None /\ cache.alias[m].id = id
                 /\ r.alias[m] # cache.alias[m]
        <5>1. n \in Names /\ r.alias[n].id = id /\ r.alias[n].order = k
          BY <1>15, <4>3, SMTT(30) DEF BindingKept
        <5> QED
          BY <1>4, <1>12, <1>13, <3>1, <4>3, <5>1, Zenon
      <4> QED
        BY <3>1, <4>1, <4>2, <4>3, Zenon DEF BindingKept
    <3> QED
      BY <3>1, <3>3, <3>4, Zenon
  <2> QED
    BY <2>2, <2>3, Zenon
<1>31. Kept'
  BY <1>3, <1>30, Zenon DEF Kept
<1>32. Sound(cache') /\ Len(cache'.lru) <= Capacity
  BY <1>3, <1>15, Zenon
<1>33. OrderInv'
  BY <1>23, <1>26, <1>29, <1>31, <1>32, ZenonT(30) DEF OrderInv
<1>34. ASSUME NEW m \in Names, r.alias[m].id # None, r.alias[m] # cache.alias[m]
       PROVE  /\ r.alias[m].order > spoken[r.alias[m].id]
              /\ m \notin left => r.alias[m].order > ruled[m]
  <2>1. /\ ~Outdated(cache, id, k) /\ r.alias[m].id = id /\ r.alias[m].order = k
        /\ cache.watermark <= k /\ cache.alias[m].order <= k
    BY <1>15, <1>34, Zenon DEF BindingKept
  <2>2. /\ spoken[id] \in Nat /\ cache.order[id] \in Nat /\ ruled[m] \in Nat
        /\ cache.alias[m].order \in Nat /\ spoken[id] # k /\ ruled[m] # k
    BY <1>9, <1>10, <1>11, <1>13, Zenon
  <2>3. spoken[id] < k
    <3>1. spoken[id] <= cache.watermark \/ (id \in cache.held /\ spoken[id] <= cache.order[id])
      BY <1>10, Zenon DEF Remembered
    <3>2. id \in cache.held => ~(cache.order[id] > k)
      BY <2>1, Zenon DEF Outdated
    <3>3. cache.watermark \in Nat
      BY <1>11, Zenon
    <3> QED
      BY <2>1, <2>2, <3>1, <3>2, <3>3, SMTT(30)
  <2>4. m \notin left => ruled[m] < k
    <3>1. m \notin left => ruled[m] <= cache.watermark \/ ruled[m] <= cache.alias[m].order
      BY <1>10, Zenon DEF Remembered
    <3>2. cache.watermark \in Nat
      BY <1>11, Zenon
    <3> QED
      BY <2>1, <2>2, <3>1, <3>2
  <2> QED
    BY <2>1, <2>2, <2>3, <2>4, Zenon
<1>35. KeepsToLatest
  BY <1>3, <1>34, Zenon DEF KeepsToLatest
<1> QED
  BY <1>33, <1>35

-----------------------------------------------------------------------------
(* Together.                                                               *)

\* A new cipher: the default alone, nothing bound, no lookup made.
LEMMA InitOrder == Init => OrderInv
<1> SUFFICES ASSUME Init PROVE OrderInv
  OBVIOUS
<1>1. PICK nm : nm = [i \in Ids |-> None]
  BY Zenon
<1>2. PICK od : od = [i \in Ids |-> 0]
  BY Zenon
<1>3. PICK al : al = [n \in Names |-> Unbound]
  BY Zenon
<1>4. cache = [held |-> {Default}, name |-> nm, order |-> od, alias |-> al,
               lru |-> <<>>, watermark |-> 0]
  BY <1>1, <1>2, <1>3, Zenon DEF Init
<1>5. /\ nm \in [Ids -> Names \cup {None}] /\ od \in [Ids -> Nat] /\ al \in [Names -> Alias]
      /\ (\A i \in Ids : nm[i] = None /\ od[i] = 0) /\ \A n \in Names : al[n].id = None
  BY <1>1, <1>2, <1>3, UnboundFacts
<1>6. {Default} \in {S \in SUBSET Ids : Default \in S} /\ <<>> \in Seq(Ids \ {Default})
  BY KeysetCacheAssumption, EmptyFacts
<1>7. cache \in Cache
  BY <1>4, <1>5, <1>6, ZenonT(30) DEF Cache
<1>8. /\ cache.held = {Default} /\ cache.name = nm /\ cache.order = od /\ cache.alias = al
      /\ cache.lru = <<>> /\ cache.watermark = 0
  BY <1>4, SMTT(30)
<1>9. Index(cache) /\ Behind(cache)
  BY <1>5, <1>8, Zenon DEF Index, Behind
<1>10. Len(cache.lru) = 0 /\ DOMAIN cache.lru = {}
  BY <1>8, EmptyFacts
<1>11. Listed(cache.lru) = {} /\ Distinct(cache.lru)
  BY <1>10 DEF Listed, Distinct
<1>12. UseOk(cache)
  BY <1>8, <1>11, SMTT(30) DEF UseOk
<1>13. TypeOK
  <2>1. Rest(None) \in Selection
    BY SMTT(30) DEF Rest, Selection
  <2> QED
    BY <1>7, <2>1, Zenon DEF TypeOK, Init
<1>14. \A s \in Selections : FlightOk(s)
  BY ZenonT(30) DEF FlightOk, Init, Rest
<1>15. /\ (\A id \in Ids : spoken[id] = 0) /\ (\A n \in Names : ruled[n] = 0)
       /\ resolutions = 0
  BY DEF Init
<1>16. Remembered
  BY <1>8, <1>15, SMTT(30) DEF Remembered
<1>17. Kept
  BY Zenon DEF Kept, Init
<1> QED
  BY <1>7, <1>9, <1>10, <1>12, <1>13, <1>14, <1>15, <1>16, <1>17, KeysetCacheAssumption, SMTT(30)
     DEF OrderInv, Sound

\* Every step keeps the invariant, and to the latest answer.
LEMMA OrderStep == OrderInv /\ [Next]_vars => OrderInv' /\ KeepsToLatest
<1> SUFFICES ASSUME OrderInv, [Next]_vars PROVE OrderInv' /\ KeepsToLatest
  OBVIOUS
<1>1. ASSUME NEW s \in Selections, NEW by \in Ids \cup Names, Hit(s, by) \/ Ask(s, by)
      PROVE  OrderInv' /\ KeepsToLatest
  BY <1>1, QuietActions
<1>2. ASSUME NEW s \in Selections, Reply(s) \/ NoAnswer(s) PROVE OrderInv' /\ KeepsToLatest
  BY <1>2, QuietActions
<1>3. ASSUME NEW s \in Selections, Land(s) PROVE OrderInv' /\ KeepsToLatest
  BY <1>3, LandStep
<1>4. ASSUME NEW s \in Selections, LandNotFound(s) PROVE OrderInv' /\ KeepsToLatest
  BY <1>4, LandNotFoundStep, SMTT(30)
<1>5. ASSUME UNCHANGED <<cache, resolutions, sel, history>>,
             kms' \in [Ids -> Names \cup {None}], clock' \in Nat
      PROVE  OrderInv' /\ KeepsToLatest
  BY <1>5, ZenonT(30) DEF OrderInv, TypeOK, Remembered, Kept, FlightOk, KeepsToLatest, history
<1>6. ASSUME NEW id \in Ids, NEW n \in Names, Rename(id, n) PROVE OrderInv' /\ KeepsToLatest
  BY <1>5, <1>6, SMTT(30) DEF Rename, OrderInv, TypeOK
<1>7. CASE Tick
  BY <1>5, <1>7, SMTT(30) DEF Tick, OrderInv, TypeOK
<1>8. CASE UNCHANGED vars
  BY <1>5, <1>8 DEF vars, OrderInv, TypeOK
<1> QED
  BY <1>1, <1>2, <1>3, <1>4, <1>6, <1>7, <1>8 DEF Next

\* OrderInv in every reachable state.
LEMMA OrderInvariant == Spec => []OrderInv
  BY InitOrder, OrderStep, PTL DEF Spec

-----------------------------------------------------------------------------
(* The results.                                                            *)

\* However many lookups are in flight and in whatever order their answers land:
\* the name index and the entries agree, no binding is later than its entry, and
\* the bound holds (insert, bind, evict_oldest, forget).
THEOREM CacheIsConsistent == Spec => []CacheConsistent
<1>1. OrderInv => CacheConsistent
  <2> SUFFICES ASSUME OrderInv PROVE CacheConsistent
    BY SMTT(30)
  <2>1. TypeOK /\ Sound(cache) /\ Len(cache.lru) <= Capacity /\ cache.lru \in Seq(Ids \ {Default})
    BY CacheFields, Zenon DEF OrderInv, Sound
  <2>2. NameIndexExact /\ BindingBehindEntry
    BY <2>1, Zenon DEF Sound, Index, Behind, NameIndexExact, BindingBehindEntry
  <2>3. DOMAIN cache.lru = 1..Len(cache.lru)
    BY <2>1, SeqFacts, Zenon
  <2>4. Bounded
    BY <2>1, <2>3, Zenon DEF Sound, UseOk, Listed, Bounded
  <2> QED
    BY <2>1, <2>2, <2>4 DEF CacheConsistent
<1> QED
  BY <1>1, OrderInvariant, PTL

\* An answer binds a name only if nothing later has been applied to its keyset or
\* said of the name, although eviction and forget have dropped the entry that
\* would show it: the watermark stands in for them (bind, evict_oldest, forget).
THEOREM LaterWins == Spec => LaterLookupWins
<1>1. KeepsToLatest =>
        /\ \A n \in Names :
             LET a == cache'.alias[n] IN
             a.id # None /\ a # cache.alias[n] => a.order > spoken[a.id]
        /\ \A n \in Names \ left :
             LET a == cache'.alias[n] IN
             a.id # None /\ a # cache.alias[n] => a.order > ruled[n]
  BY Zenon DEF KeepsToLatest
<1> QED
  BY <1>1, OrderInvariant, OrderStep, PTL
     DEF Spec, LaterLookupWins, NoTakingBack, NameNotResurrected

\* While the keyset that the latest ruling lookup bound a name to is held under
\* it, no selection is handed another one for that name, neither an overtaken
\* one whose own answer lands, even if landing it evicts that keyset, nor one
\* that the cache answers (insert's `winner`, get).
THEOREM LoserNeverHandedOut == Spec => LoserNotHandedOut
<1>1. OrderInv /\ [Next]_vars =>
        \A s \in Selections, n \in Names :
          /\ meant[n] # None
          /\ Hit(s, n) \/ (Land(s) /\ sel[s].by = n /\ sel[s].ticket < ruled[n])
          => sel'[s].answer = meant[n]
  <2> SUFFICES ASSUME OrderInv, NEW s \in Selections, NEW n \in Names, meant[n] # None,
                      Hit(s, n) \/ (Land(s) /\ sel[s].by = n /\ sel[s].ticket < ruled[n])
               PROVE  sel'[s].answer = meant[n]
    BY Zenon
  <2>1. /\ sel \in [Selections -> Selection] /\ n # None /\ ruled[n] \in Nat
        /\ cache.alias[n].id = meant[n] /\ cache.alias[n].order = ruled[n]
    BY KeysetCacheAssumption, Zenon DEF OrderInv, TypeOK, Kept
  <2>2. CASE Hit(s, n)
    <3>1. sel'[s] = Rest(cache.alias[n].id)
      BY <2>1, <2>2, Zenon DEF Hit, Target
    <3> QED
      BY <2>1, <3>1, SMTT(30) DEF Rest
  <2>3. CASE Land(s) /\ sel[s].by = n /\ sel[s].ticket < ruled[n]
    <3>1. sel'[s] = Rest(InsertAnswer(cache, sel[s].answer, n, sel[s].ticket))
      BY <2>1, <2>3, Zenon DEF Land
    <3>2. sel[s].ticket \in Nat
      BY <2>1 DEF Selection
    <3>3. cache.alias[n].order > sel[s].ticket
      BY <2>1, <2>3, <3>2
    <3>4. InsertAnswer(cache, sel[s].answer, n, sel[s].ticket) = meant[n]
      BY <2>1, <3>3, Zenon DEF InsertAnswer
    <3> QED
      BY <3>1, <3>4, SMTT(30) DEF Rest
  <2> QED
    BY <2>2, <2>3, Zenon
<1> QED
  BY <1>1, OrderInvariant, PTL DEF Spec, LoserNotHandedOut
=============================================================================
