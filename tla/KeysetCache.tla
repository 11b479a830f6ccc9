----------------------------- MODULE KeysetCache -----------------------------
(***************************************************************************)
(* Keyset selection in stack-encrypt: StackCipher::keyset (cipher.rs) over *)
(* the bounded cache of keyset.rs, with ZeroKMS renaming keysets while     *)
(* answers are in flight.                                                  *)
(*                                                                         *)
(* `get`, `insert` and `forget` each run under the cache's mutex and are   *)
(* one step; the round trip between them is not, so an answer is given at  *)
(* one moment and lands at another, in any order.                          *)
(*                                                                         *)
(* Of an entry's last_used tick only the order is kept (lru, oldest        *)
(* first), and of a loaded state only its id: the key material of an id is *)
(* the same whichever lookup loaded it.                                    *)
(***************************************************************************)
EXTENDS Integers, Sequences

CONSTANTS
  Ids,          \* keysets
  Default,      \* the client's default keyset, loaded at init, unnamed
  Names,        \* keyset names
  None,         \* no keyset, no name
  Capacity,     \* bound on the entries besides the default's
  NameTTL,      \* keyset_name_ttl
  Selections,   \* concurrent calls of StackCipher::keyset
  MaxTime,      \* bound on the clock
  MaxLookups    \* bound on the lookups that go to ZeroKMS

ASSUME KeysetCacheAssumption ==
  /\ Default \in Ids /\ None \notin Ids \cup Names /\ Ids \cap Names = {}
  /\ Capacity \in Nat \ {0}
  /\ NameTTL \in Nat /\ MaxTime \in Nat /\ MaxLookups \in Nat

VARIABLES
  cache,        \* the KeysetCache behind its mutex
  resolutions,  \* its lookup counter
  clock,        \* Instant::now()
  kms,          \* ZeroKMS: the name of each keyset
  sel,          \* the selections
  ruled,        \* history: per name, the latest lookup that bound or unbound it
  left,         \* history: names whose keyset took another one since then
  spoken,       \* history: per keyset, the latest lookup the cache applied
  meant         \* history: per name, the keyset that lookup bound it to, until the
                \* keyset is evicted or takes another name

history == <<ruled, left, spoken, meant>>
vars == <<cache, resolutions, clock, kms, sel, history>>

-----------------------------------------------------------------------------
Unbound == [id |-> None, at |-> 0, order |-> 0]
Alias   == [id : Ids \cup {None}, at : Nat, order : Nat]

Cache ==
  [held : {S \in SUBSET Ids : Default \in S},   \* the default and by_id's keys
   name : [Ids -> Names \cup {None}],    \* Entry.name
   order : [Ids -> Nat],                 \* Entry.resolution
   alias : [Names -> Alias],             \* by_name
   lru : Seq(Ids \ {Default}), watermark : Nat]

\* A selection between calls, with what its last one returned (None: an error).
Rest(id) == [pc |-> "idle", by |-> None, ticket |-> 0, answer |-> id]
Selection ==
  [pc : {"idle", "asked", "answered"}, by : Ids \cup Names \cup {None},
   ticket : Nat, answer : Ids \cup {None}]

TypeOK ==
  /\ cache \in Cache
  /\ resolutions \in Nat /\ clock \in Nat
  /\ kms \in [Ids -> Names \cup {None}]
  /\ sel \in [Selections -> Selection]
  /\ ruled \in [Names -> Nat] /\ left \in SUBSET Names
  /\ spoken \in [Ids -> Nat] /\ meant \in [Names -> Ids \cup {None}]

Latest(a, b) == IF a > b THEN a ELSE b

-----------------------------------------------------------------------------
(* The cache's operations, as functions of the cache.                      *)

\* Alias::is_fresh_at, strictly within the window.
IsFresh(alias) == clock - alias.at < NameTTL

\* An order of use in which `id` is the most recently used.
MoveToEnd(s, id) ==
  LET at == {i \in DOMAIN s : s[i] = id}
      k == CHOOSE i \in at : TRUE IN
  IF at = {} THEN Append(s, id)
  ELSE [i \in DOMAIN s |-> IF i < k THEN s[i] ELSE IF i < Len(s) THEN s[i + 1] ELSE id]

\* KeysetCache::touch: most recently used from now on.
Touch(c, id) ==
  IF id = Default THEN c ELSE [c EXCEPT !.lru = MoveToEnd(c.lru, id)]

\* The keyset `by` stands for in the cache, None if it knows of none.
Target(c, by) == IF by \in Names THEN c.alias[by].id ELSE by

\* Mutant: the name is left claimed by the keyset it moved away from.
ForgetNameOf_Kept(c, id, n) == c

\* KeysetCache::forget_name_of
ForgetNameOf(c, id, n) ==
  IF id \in c.held /\ c.name[id] = n
  THEN [c EXCEPT !.name = [c.name EXCEPT ![id] = None]] ELSE c

\* Mutant: the watermark is taken only from an entry that still has a name.
EvictOldest_Named(c) ==
  LET oldest == Head(c.lru)
      n == c.name[oldest] IN
  [c EXCEPT !.held = @ \ {oldest}, !.lru = Tail(@),
     !.name = [@ EXCEPT ![oldest] = None],
     !.order = [@ EXCEPT ![oldest] = 0],
     !.watermark = IF n = None THEN @ ELSE Latest(@, c.order[oldest]),
     !.alias = [m \in Names |-> IF m = n /\ @[m].id = oldest THEN Unbound ELSE @[m]]]

\* KeysetCache::evict_oldest: the entry's place in the order stays behind as
\* the watermark, and its own binding goes with it.
EvictOldest(c) ==
  LET oldest == Head(c.lru)
      n == c.name[oldest] IN
  [c EXCEPT !.held = c.held \ {oldest}, !.lru = Tail(c.lru),
     !.name = [c.name EXCEPT ![oldest] = None],
     !.order = [c.order EXCEPT ![oldest] = 0],
     !.watermark = Latest(c.watermark, c.order[oldest]),
     !.alias = [m \in Names |-> IF m = n /\ c.alias[m].id = oldest THEN Unbound
                                ELSE c.alias[m]]]

\* Will KeysetCache::bind accept this answer?
MayBind(c, n, ticket) == c.watermark <= ticket /\ c.alias[n].order <= ticket

\* KeysetCache::bind of an accepted answer: the keyset's previous name and the
\* name's previous keyset are let go of.  (The caller gives an id the cache
\* does not hold yet its name.)
Bound(c, n, id, ticket) ==
  LET c1 == IF c.alias[n].id \in {None, id} THEN c
            ELSE ForgetNameOf(c, c.alias[n].id, n)
      previous == c1.name[id] IN
  [c1 EXCEPT
     !.alias = [m \in Names |->
                  IF m = n THEN [id |-> id, at |-> clock, order |-> ticket]
                  ELSE IF m = previous THEN Unbound ELSE c1.alias[m]],
     !.name = [c1.name EXCEPT ![id] = n]]

Bind(c, n, id, ticket) ==
  IF n # None /\ MayBind(c, n, ticket) THEN Bound(c, n, id, ticket) ELSE c

\* A later lookup has already spoken for this keyset.
Outdated(c, id, ticket) == id \in c.held /\ c.order[id] > ticket

\* The cache is full and this id is new to it.
MustEvict(c, id) == id \notin c.held /\ Len(c.lru) >= Capacity

\* KeysetCache::insert, what it leaves of the cache.
Insert(c, id, n, ticket) ==
  LET c1 == IF MustEvict(c, id) THEN EvictOldest(c) ELSE c
      c2 == Bind(c1, n, id, ticket) IN
  IF Outdated(c, id, ticket) THEN c
  ELSE Touch([c2 EXCEPT !.held = c2.held \cup {id},
                        !.order = [c2.order EXCEPT ![id] = ticket]], id)

\* Mutant: the winner is looked for after the insert.
InsertAnswer_After(c, id, n, ticket) ==
  LET c1 == Insert(c, id, n, ticket) IN
  IF n # None /\ c1.alias[n].order > ticket THEN c1.alias[n].id ELSE id

\* ... and what it answers: a later lookup's answer about the name, if any.
InsertAnswer(c, id, n, ticket) ==
  IF n # None /\ c.alias[n].order > ticket THEN c.alias[n].id ELSE id

\* KeysetCache::forget: ZeroKMS answered that no keyset has this name.
Forget(c, n, ticket) ==
  LET c1 == [c EXCEPT !.watermark = Latest(c.watermark, ticket)] IN
  IF c.alias[n].id = None \/ c.alias[n].order > ticket THEN c1
  ELSE ForgetNameOf([c1 EXCEPT !.alias = [c.alias EXCEPT ![n] = Unbound]],
                    c.alias[n].id, n)

-----------------------------------------------------------------------------
(* StackCipher::keyset.                                                    *)

Init ==
  /\ kms \in {f \in [Ids -> Names \cup {None}] :
                \A i, j \in Ids : f[i] = f[j] /\ f[i] # None => i = j}
  /\ cache = [held |-> {Default}, name |-> [i \in Ids |-> None],
              order |-> [i \in Ids |-> 0], alias |-> [n \in Names |-> Unbound],
              lru |-> <<>>, watermark |-> 0]
  /\ resolutions = 0 /\ clock = 0
  /\ sel = [s \in Selections |-> Rest(None)]
  /\ ruled = [n \in Names |-> 0] /\ left = {}
  /\ spoken = [i \in Ids |-> 0] /\ meant = [n \in Names |-> None]

\* KeysetCache::get hits: the selection is answered from the cache.
Hit(s, by) ==
  LET id == Target(cache, by) IN
  /\ sel[s].pc = "idle"
  /\ id \in cache.held
  /\ by \in Names => IsFresh(cache.alias[by])
  /\ cache' = Touch(cache, id)
  /\ sel' = [sel EXCEPT ![s] = Rest(id)]
  /\ UNCHANGED <<resolutions, clock, kms, history>>

\* KeysetCache::get answers Miss or Stale: the lookup takes its ticket and
\* goes to ZeroKMS.  A stale binding's keyset counts as used.
Ask(s, by) ==
  LET id == Target(cache, by) IN
  /\ sel[s].pc = "idle"
  /\ resolutions < MaxLookups
  /\ id \in cache.held => by \in Names /\ ~IsFresh(cache.alias[by])
  /\ cache' = IF id \in cache.held THEN Touch(cache, id) ELSE cache
  /\ resolutions' = resolutions + 1
  /\ sel' = [sel EXCEPT ![s] = [pc |-> "asked", by |-> by, ticket |-> resolutions + 1,
                                answer |-> None]]
  /\ UNCHANGED <<clock, kms, history>>

\* ZeroKMS answers: the keyset of that name or id, or that none has the name.
Reply(s) ==
  LET by == sel[s].by
      found == {id \in Ids : IF by \in Names THEN kms[id] = by ELSE id = by} IN
  /\ sel[s].pc = "asked"
  /\ \E id \in (IF found = {} THEN {None} ELSE found) :
       sel' = [sel EXCEPT ![s] = [@ EXCEPT !.pc = "answered",
                                           !.answer = id]]
  /\ UNCHANGED <<cache, resolutions, clock, kms, history>>

\* KeysetNotFound lands: the name is forgotten and the call fails.
LandNotFound(s) ==
  LET q == sel[s] IN
  /\ q.pc = "answered" /\ q.answer = None
  /\ cache' = Forget(cache, q.by, q.ticket)
  /\ sel' = [sel EXCEPT ![s] = Rest(None)]
  /\ ruled' = [ruled EXCEPT ![q.by] = Latest(@, q.ticket)]
  /\ left' = IF ruled[q.by] < q.ticket THEN left \ {q.by} ELSE left
  /\ meant' = IF ruled[q.by] < q.ticket THEN [meant EXCEPT ![q.by] = None] ELSE meant
  /\ UNCHANGED <<resolutions, clock, kms, spoken>>

\* A loaded keyset lands, under the name it was asked for by, if any.
Land(s) ==
  LET q == sel[s]
      n == IF q.by \in Names THEN q.by ELSE None
      bound == {m \in Names : m = n /\ cache'.alias[m].id = q.answer
                                    /\ cache'.alias[m].order = q.ticket}
      latest == {m \in bound : ruled[m] < q.ticket}
      lost == {m \in Names : \/ meant[m] \notin cache'.held
                             \/ bound # {} /\ meant[m] = q.answer}
      moved == {m \in Names : m # n /\ cache.alias[m].id = q.answer
                                  /\ cache'.alias[m].id = None} IN
  /\ q.pc = "answered" /\ q.answer # None
  /\ cache' = Insert(cache, q.answer, n, q.ticket)
  /\ sel' = [sel EXCEPT ![s] =
                Rest(InsertAnswer(cache, q.answer, n, q.ticket))]
  /\ ruled' = [m \in Names |-> IF m \in bound THEN Latest(ruled[m], q.ticket)
                                               ELSE ruled[m]]
  /\ left' = (left \ latest) \cup moved
  /\ meant' = [m \in Names |-> IF m \in latest THEN q.answer
                               ELSE IF m \in lost THEN None ELSE meant[m]]
  /\ spoken' = [spoken EXCEPT ![q.answer] = Latest(@, q.ticket)]
  /\ UNCHANGED <<resolutions, clock, kms>>

\* The lookup gets no answer (transport, auth): the cache stays as it was.
NoAnswer(s) ==
  /\ sel[s].pc = "asked"
  /\ sel' = [sel EXCEPT ![s] = Rest(None)]
  /\ UNCHANGED <<cache, resolutions, clock, kms, history>>

\* A keyset is renamed at ZeroKMS; no two keysets share a name.
Rename(id, n) ==
  /\ \A i \in Ids : kms[i] # n
  /\ kms' = [kms EXCEPT ![id] = n]
  /\ UNCHANGED <<cache, resolutions, clock, sel, history>>

\* Time passes.
Tick ==
  /\ clock < MaxTime
  /\ clock' = clock + 1
  /\ UNCHANGED <<cache, resolutions, kms, sel, history>>

Next ==
  \/ \E s \in Selections :
       \/ \E by \in Ids \cup Names : Hit(s, by) \/ Ask(s, by)
       \/ Reply(s) \/ Land(s) \/ LandNotFound(s) \/ NoAnswer(s)
  \/ \E id \in Ids, n \in Names : Rename(id, n)
  \/ Tick

Spec == Init /\ [][Next]_vars

-----------------------------------------------------------------------------
(* Properties.                                                             *)

\* The name index and the entries agree although names move, keysets are
\* evicted and answers land late: a binding names a keyset that is held and
\* that claims exactly this name, a claimed name is bound, and no keyset has
\* two.  ("No binding outlives the id it names.")
NameIndexExact ==
  /\ \A n \in Names : cache.alias[n].id # None =>
       /\ cache.alias[n].id \in cache.held
       /\ cache.name[cache.alias[n].id] = n
  /\ \A id \in Ids : cache.name[id] # None =>
       id \in cache.held /\ cache.alias[cache.name[id]].id = id

\* What the watermark rests on: a binding never sits later in the order than
\* the entry it names, so that the entry's place can stand in for both.
BindingBehindEntry ==
  \A n \in Names : cache.alias[n].id # None =>
    cache.alias[n].order <= cache.order[cache.alias[n].id]

\* The bound holds through every order of landings, and the order of use lists
\* exactly the entries it applies to.
Bounded ==
  /\ Len(cache.lru) <= Capacity
  /\ {cache.lru[i] : i \in 1..Len(cache.lru)} = cache.held \ {Default}

\* An answer never binds a name to a keyset a later answer has already been
\* applied to, even after eviction has forgotten that later answer: the name a
\* keyset has left is not given back to it.
NoTakingBack ==
  [][\A n \in Names :
       LET a == cache'.alias[n] IN
       a.id # None /\ a # cache.alias[n] => a.order > spoken[a.id]]_vars

\* No name is bound by a lookup older than a NotFound answer about that name
\* that has landed, or than an earlier binding of it, whatever eviction and
\* `forget` have dropped since (a name whose keyset took another one excepted).
NameNotResurrected ==
  [][\A n \in Names \ left :
       LET a == cache'.alias[n] IN
       a.id # None /\ a # cache.alias[n] => a.order > ruled[n]]_vars

\* "The answer that lost is not handed out even once", and "the caller gets that
\* later answer, the same one every selection after it gets": while the keyset
\* that a lookup, the latest to rule on the name, bound it to is held under it,
\* a selection whose older answer for the name lands is given that keyset, also
\* when its own insert evicts it, and so is every selection that the cache
\* answers (insert, get).
LoserNotHandedOut ==
  [][\A s \in Selections, n \in Names :
       /\ meant[n] # None
       /\ Hit(s, n) \/ (Land(s) /\ sel[s].by = n /\ sel[s].ticket < ruled[n])
       => sel'[s].answer = meant[n]]_vars

\* The cache as a whole: types, the two indexes in step, bindings behind their
\* entries and the bound, after any order of landings (insert, forget).
CacheConsistent == TypeOK /\ NameIndexExact /\ BindingBehindEntry /\ Bounded

\* The later lookup wins, on either side of a binding: neither the keyset nor
\* the name goes back to what an older answer says of it (bind, forget).
LaterLookupWins == NoTakingBack /\ NameNotResurrected
=============================================================================
