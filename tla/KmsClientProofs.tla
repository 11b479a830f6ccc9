--------------------------- MODULE KmsClientProofs ---------------------------
(***************************************************************************)
(* The ZeroKMS client keeps what DataKeySource promises, for any payloads, *)
(* any size of chunk and any limit on the requests going, whatever order   *)
(* the answers arrive in.                                                  *)
(***************************************************************************)
EXTENDS KmsClient, SequenceTheorems, TLAPS

CONSTANTS Keysets, Payloads

\* Any caller: it makes a call of any payloads, and leaves one at any time.
Init == call = Idle
Next ==
  \/ \E op \in {"generate", "retrieve"}, keyset \in Keysets, specs \in Seq(Payloads) :
       Start(op, keyset, specs)
  \/ Step \/ Leave
Spec == Init /\ [][Next]_call

-----------------------------------------------------------------------------
(* Arithmetic of the chunks.                                               *)

\* The least of two numbers.
LEMMA LeastOfTwo ==
  ASSUME NEW a \in Nat, NEW b \in Nat
  PROVE  Min({a, b}) = IF a <= b THEN a ELSE b
<1>1. \E x \in {a, b} : \A y \in {a, b} : x <= y
  OBVIOUS
<1>2. /\ Min({a, b}) \in {a, b}
      /\ \A y \in {a, b} : Min({a, b}) <= y
  BY <1>1 DEF Min
<1> QED
  BY <1>2

\* Rounding up: the chunks hold every payload, and the last is not empty.
LEMMA RoundedUp ==
  ASSUME NEW n \in Nat, NEW m \in Nat \ {0}
  PROVE  LET q == (n + m - 1) \div m
         IN  /\ q \in Nat /\ n <= q * m
             /\ \A i \in Nat : i < q => i * m < n
<1> DEFINE q == (n + m - 1) \div m
           r == (n + m - 1) % m
<1>1. q \in Nat /\ r \in Nat /\ r < m /\ n + m - 1 = m * q + r
  OBVIOUS
<1> HIDE DEF q, r
<1>2. n <= q * m
  BY <1>1
<1>3. ASSUME NEW i \in Nat, i < q PROVE i * m < n
  <2>1. PICK d \in Nat : q = i + 1 + d
    BY <1>1, <1>3
  <2>2. m * q = m * i + m + m * d /\ m * d \in Nat
    BY <2>1
  <2> QED
    BY <1>1, <2>2
<1> QED
  BY <1>1, <1>2, <1>3 DEF q

-----------------------------------------------------------------------------
(* What a call holds.                                                      *)

\* ClientOpts::max_keys_per_req is never 0.
SizeOK == MaxKeysPerReq \in Nat \ {0}

KeysOf(c, s) == [k \in DOMAIN s |-> Source!KeyOf(c.keyset, s[k])]
AllGranted(c, s) == \A k \in DOMAIN s : Source!Granted(c.op, c.keyset, s[k])

\* The payloads of the first n chunks.
Upto(c, n) == IF n * MaxKeysPerReq <= Len(c.specs) THEN n * MaxKeysPerReq ELSE Len(c.specs)
First(c, n) == SubSeq(c.specs, 1, Upto(c, n))

\* What is kept of the request for chunk i until it is taken: it is going, it
\* has failed, or it has brought exactly its chunk's keys, all of them granted.
Held(c, i, a) ==
  \/ a = InFlight \/ a = Failed
  \/ a = [state |-> "keys", keys |-> KeysOf(c, Chunk(c, i))] /\ AllGranted(c, Chunk(c, i))

Answers(c) ==
  {InFlight, Failed, Taken} \union {[state |-> "keys", keys |-> KeysOf(c, Chunk(c, i))] : i \in Nat}

-----------------------------------------------------------------------------

\* The chunks cover the payloads, and those before one of them are full.
LEMMA ChunkBounds ==
  ASSUME SizeOK, NEW c, c.specs \in Seq(Payloads)
  PROVE  /\ Chunks(c) \in Nat
         /\ Upto(c, 0) = 0 /\ Upto(c, Chunks(c)) = Len(c.specs)
         /\ \A n \in Nat : Upto(c, n) \in 0..Len(c.specs)
         /\ \A n \in Nat : n < Chunks(c) =>
              /\ Upto(c, n) = n * MaxKeysPerReq
              /\ Upto(c, n) < Upto(c, n + 1)
              /\ Chunk(c, n + 1) = SubSeq(c.specs, Upto(c, n) + 1, Upto(c, n + 1))
<1> DEFINE L == Len(c.specs)
           M == MaxKeysPerReq
<1>1. L \in Nat /\ M \in Nat \ {0}
  BY DEF SizeOK
<1>2. /\ Chunks(c) \in Nat /\ L <= Chunks(c) * M
      /\ \A i \in Nat : i < Chunks(c) => i * M < L
  BY <1>1, RoundedUp, Zenon DEF Chunks
<1>3. \A n \in Nat : n * M \in Nat /\ (n + 1) * M = n * M + M /\ 0 * M = 0
  BY <1>1
<1>4. \A n \in Nat : Upto(c, n) = IF n * M <= L THEN n * M ELSE L
  BY DEF Upto
<1>5. Chunks(c) * M \in Nat
  BY <1>2, <1>3
<1> HIDE DEF L, M
<1>6. Upto(c, 0) = 0 /\ Upto(c, Chunks(c)) = L
  <2>1. Upto(c, 0) = IF 0 * M <= L THEN 0 * M ELSE L
    BY <1>4
  <2>2. Upto(c, Chunks(c)) = IF Chunks(c) * M <= L THEN Chunks(c) * M ELSE L
    BY <1>2, <1>4
  <2>3. 0 * M = 0
    BY <1>3
  <2> QED
    BY <2>1, <2>2, <2>3, <1>1, <1>2, <1>5
<1>7. ASSUME NEW n \in Nat PROVE Upto(c, n) \in 0..L
  <2>1. Upto(c, n) = (IF n * M <= L THEN n * M ELSE L) /\ n * M \in Nat
    BY <1>4, <1>3, Zenon
  <2> QED
    BY <2>1, <1>1
<1>8. ASSUME NEW n \in Nat, n < Chunks(c)
      PROVE  /\ Upto(c, n) = n * M
             /\ Upto(c, n) < Upto(c, n + 1)
             /\ Chunk(c, n + 1) = SubSeq(c.specs, Upto(c, n) + 1, Upto(c, n + 1))
  <2>1. n * M \in Nat /\ n * M < L /\ (n + 1) * M = n * M + M /\ n + 1 \in Nat
    BY <1>2, <1>3, <1>8
  <2>2. Upto(c, n) = (IF n * M <= L THEN n * M ELSE L)
    BY <1>4
  <2>3. Upto(c, n + 1) = (IF (n + 1) * M <= L THEN (n + 1) * M ELSE L)
    BY <1>4, <2>1
  <2>4. Upto(c, n) = n * M /\ Upto(c, n) < Upto(c, n + 1)
    BY <2>1, <2>2, <2>3, <1>1
  <2>5. Min({(n + 1) * M, L}) = Upto(c, n + 1)
    BY <2>1, <2>3, <1>1, LeastOfTwo
  <2>6. (n + 1) - 1 = n
    OBVIOUS
  <2>7. Chunk(c, n + 1) = SubSeq(c.specs, ((n + 1) - 1) * M + 1, Min({(n + 1) * M, L}))
    BY Zenon DEF Chunk, M, L
  <2> QED
    BY <2>4, <2>5, <2>6, <2>7, Zenon
<1> QED
  BY <1>2, <1>6, <1>7, <1>8 DEF L, M

\* What a call holds is said of its payloads, keyset and operation only.
LEMMA SameCall ==
  ASSUME NEW c, NEW d, d.op = c.op, d.keyset = c.keyset, d.specs = c.specs
  PROVE  /\ Chunks(d) = Chunks(c) /\ Answers(d) = Answers(c)
         /\ \A n : First(d, n) = First(c, n)
         /\ \A s : KeysOf(d, s) = KeysOf(c, s) /\ (AllGranted(d, s) <=> AllGranted(c, s))
         /\ \A i, a : Held(d, i, a) <=> Held(c, i, a)
<1>1. Chunks(d) = Chunks(c) /\ \A i : Chunk(d, i) = Chunk(c, i)
  BY Zenon DEF Chunks, Chunk
<1>2. \A n : First(d, n) = First(c, n)
  BY Zenon DEF First, Upto
<1>3. \A s : KeysOf(d, s) = KeysOf(c, s) /\ (AllGranted(d, s) <=> AllGranted(c, s))
  BY Zenon DEF KeysOf, AllGranted
<1>4. Answers(d) = Answers(c)
  BY <1>1, <1>3, Zenon DEF Answers
<1>5. \A i, a : Held(d, i, a) <=> Held(c, i, a)
  BY <1>1, <1>3, Zenon DEF Held
<1> QED
  BY <1>1, <1>2, <1>3, <1>4, <1>5, Zenon

\* A function on 1..n is a sequence of n elements.
LEMMA FunctionIsSeq ==
  ASSUME NEW S, NEW n \in Nat, NEW f \in [1..n -> S]
  PROVE  f \in Seq(S) /\ Len(f) = n
<1>1. f \in Seq(S)
  BY SeqDef
<1>2. Len(f) \in Nat /\ 1..Len(f) = 1..n
  BY <1>1, LenProperties
<1> QED
  BY <1>1, <1>2

\* Mapping a function over the elements of a sequence keeps its length, and
\* maps the parts of a concatenation one by one.
IsMap(f, A, B) == f \in [A -> B]
Mapped(f, s) == [k \in DOMAIN s |-> f[s[k]]]

LEMMA MappedLen ==
  ASSUME NEW A, NEW B, NEW f, IsMap(f, A, B), NEW s \in Seq(A)
  PROVE  Mapped(f, s) \in Seq(B) /\ Len(Mapped(f, s)) = Len(s)
<1>1. Len(s) \in Nat /\ DOMAIN s = 1..Len(s) /\ \A k \in 1..Len(s) : s[k] \in A
  BY LenProperties
<1>2. Mapped(f, s) \in [1..Len(s) -> B]
  BY <1>1 DEF Mapped, IsMap
<1> QED
  BY <1>1, <1>2, FunctionIsSeq, Zenon

\* Reading a concatenation entry by entry is reading its parts and joining the results: the keys of
\* two chunks of `map_async_chunked`, answered apart, are the keys of the whole.
LEMMA MappedConcat ==
  ASSUME NEW A, NEW B, NEW f, IsMap(f, A, B), NEW s \in Seq(A), NEW t \in Seq(A)
  PROVE  Mapped(f, s \o t) = Mapped(f, s) \o Mapped(f, t)
<1>1. /\ s \o t \in Seq(A) /\ Len(s \o t) = Len(s) + Len(t)
      /\ Len(s) \in Nat /\ Len(t) \in Nat
      /\ DOMAIN s = 1..Len(s) /\ DOMAIN t = 1..Len(t)
      /\ \A k \in 1..(Len(s) + Len(t)) : (s \o t)[k] = IF k <= Len(s) THEN s[k] ELSE t[k - Len(s)]
  BY ConcatProperties, LenProperties
<1>2. DOMAIN (s \o t) = 1..(Len(s) + Len(t))
  BY <1>1, LenProperties, Zenon
<1>3. PICK u, v, w : u = Mapped(f, s) /\ v = Mapped(f, t) /\ w = Mapped(f, s \o t)
  OBVIOUS
<1>4. /\ u \in Seq(B) /\ Len(u) = Len(s)
      /\ v \in Seq(B) /\ Len(v) = Len(t)
  BY <1>3, MappedLen
<1>5. w \in Seq(B) /\ Len(w) = Len(s) + Len(t)
  <2>1. w \in Seq(B) /\ Len(w) = Len(s \o t)
    <3>1. PICK st : st = s \o t
      BY Zenon
    <3>2. st \in Seq(A) /\ w = Mapped(f, st)
      BY <1>1, <1>3, <3>1, Zenon
    <3>3. w \in Seq(B) /\ Len(w) = Len(st)
      BY <3>2, MappedLen
    <3> QED
      BY <3>1, <3>3, Zenon
  <2> QED
    BY <2>1, <1>1
<1>6. /\ \A k \in 1..Len(s) : u[k] = f[s[k]]
      /\ \A k \in 1..Len(t) : v[k] = f[t[k]]
      /\ \A k \in 1..(Len(s) + Len(t)) : w[k] = f[(s \o t)[k]]
  BY <1>1, <1>2, <1>3, Zenon DEF Mapped
<1>7. /\ u \o v \in Seq(B) /\ Len(u \o v) = Len(s) + Len(t)
      /\ \A k \in 1..(Len(s) + Len(t)) : (u \o v)[k] = IF k <= Len(s) THEN u[k] ELSE v[k - Len(s)]
  <2>1. u \in Seq(B) /\ v \in Seq(B)
    BY <1>4
  <2>2. /\ u \o v \in Seq(B) /\ Len(u \o v) = Len(u) + Len(v)
        /\ \A k \in 1..(Len(u) + Len(v)) : (u \o v)[k] = IF k <= Len(u) THEN u[k] ELSE v[k - Len(u)]
    BY <2>1, ConcatProperties
  <2> QED
    BY <1>4, <2>2, Zenon
<1>8. ASSUME NEW k \in 1..(Len(s) + Len(t)) PROVE w[k] = (u \o v)[k]
  <2>1. /\ (s \o t)[k] = IF k <= Len(s) THEN s[k] ELSE t[k - Len(s)]
        /\ (u \o v)[k] = IF k <= Len(s) THEN u[k] ELSE v[k - Len(s)]
        /\ w[k] = f[(s \o t)[k]]
    BY <1>1, <1>6, <1>7, SMTT(30)
  <2>2. CASE k <= Len(s)
    <3>1. u[k] = f[s[k]]
      BY <2>2, <1>1, <1>6
    <3> QED
      BY <3>1, <2>1, <2>2, Zenon
  <2>3. CASE ~(k <= Len(s))
    <3>1. k - Len(s) \in 1..Len(t)
      BY <2>3, <1>1
    <3>2. v[k - Len(s)] = f[t[k - Len(s)]]
      BY <3>1, <1>6, Zenon
    <3> QED
      BY <3>2, <2>1, <2>3, Zenon
  <2> QED
    BY <2>2, <2>3, Zenon
<1>9. w = u \o v
  <2>1. Len(w) = Len(u \o v) /\ \A k \in 1..Len(w) : w[k] = (u \o v)[k]
    BY <1>5, <1>7, <1>8, Zenon
  <2> QED
    BY <1>5, <1>7, <2>1, SeqEqual, Zenon
<1> QED
  BY <1>3, <1>9, Zenon

\* One key is made of each payload, in their order.
LEMMA KeysConcat ==
  ASSUME NEW c, NEW s \in Seq(Payloads), NEW t \in Seq(Payloads)
  PROVE  /\ Len(KeysOf(c, s)) = Len(s)
         /\ KeysOf(c, s \o t) = KeysOf(c, s) \o KeysOf(c, t)
<1>1. PICK f, Keys : /\ Keys = {Source!KeyOf(c.keyset, p) : p \in Payloads}
                     /\ f = [p \in Payloads |-> Source!KeyOf(c.keyset, p)]
  BY Zenon
<1>2. IsMap(f, Payloads, Keys)
  BY <1>1, Zenon DEF IsMap
<1>3. ASSUME NEW u \in Seq(Payloads) PROVE KeysOf(c, u) = Mapped(f, u)
  <2>1. \A k \in DOMAIN u : u[k] \in Payloads
    BY LenProperties, Zenon
  <2> QED
    BY <1>1, <2>1, Zenon DEF KeysOf, Mapped
<1>4. s \o t \in Seq(Payloads)
  BY ConcatProperties
<1>5. Mapped(f, s \o t) = Mapped(f, s) \o Mapped(f, t)
  BY <1>2, MappedConcat
<1>6. Len(Mapped(f, s)) = Len(s)
  BY <1>2, MappedLen
<1> QED
  BY <1>3, <1>4, <1>5, <1>6, Zenon

\* Two lists are granted together if each is.
LEMMA GrantedConcat ==
  ASSUME NEW c, NEW s \in Seq(Payloads), NEW t \in Seq(Payloads),
         AllGranted(c, s), AllGranted(c, t)
  PROVE  AllGranted(c, s \o t)
<1>1. /\ Len(s) \in Nat /\ Len(t) \in Nat
      /\ DOMAIN s = 1..Len(s) /\ DOMAIN t = 1..Len(t) /\ DOMAIN (s \o t) = 1..(Len(s) + Len(t))
      /\ \A k \in 1..(Len(s) + Len(t)) : (s \o t)[k] = IF k <= Len(s) THEN s[k] ELSE t[k - Len(s)]
  <2>1. s \o t \in Seq(Payloads) /\ Len(s \o t) = Len(s) + Len(t)
    BY ConcatProperties
  <2>2. DOMAIN (s \o t) = 1..(Len(s) + Len(t))
    BY <2>1, LenProperties, Zenon
  <2> QED
    BY <2>2, ConcatProperties, LenProperties
<1>2. ASSUME NEW k \in 1..(Len(s) + Len(t)) PROVE Source!Granted(c.op, c.keyset, (s \o t)[k])
  <2>1. CASE k <= Len(s)
    <3>1. k \in 1..Len(s) /\ (s \o t)[k] = s[k]
      BY <1>1, <2>1
    <3> QED
      BY <1>1, <3>1, Zenon DEF AllGranted
  <2>2. CASE ~(k <= Len(s))
    <3>1. k - Len(s) \in 1..Len(t) /\ (s \o t)[k] = t[k - Len(s)]
      BY <1>1, <2>2
    <3> QED
      BY <1>1, <3>1, Zenon DEF AllGranted
  <2> QED
    BY <2>1, <2>2, Zenon
<1> QED
  BY <1>1, <1>2, Zenon DEF AllGranted

\* Taking the chunks in the order they were cut builds the payloads up again.
LEMMA ChunksInOrder ==
  ASSUME SizeOK, NEW c, c.specs \in Seq(Payloads)
  PROVE  /\ First(c, 0) = <<>> /\ First(c, Chunks(c)) = c.specs
         /\ \A n \in Nat : n < Chunks(c) =>
              /\ First(c, n) \in Seq(Payloads) /\ Chunk(c, n + 1) \in Seq(Payloads)
              /\ Len(Chunk(c, n + 1)) \in Nat \ {0}
              /\ First(c, n + 1) = First(c, n) \o Chunk(c, n + 1)
<1>1. PICK q : q = c.specs
  OBVIOUS
<1>2. /\ q \in Seq(Payloads) /\ Len(q) \in Nat
      /\ \A k \in 1..Len(q) : q[k] \in Payloads
  BY <1>1, LenProperties
<1>3. First(c, 0) = <<>>
  <2>1. First(c, 0) = SubSeq(q, 1, 0)
    BY <1>1, ChunkBounds, Zenon DEF First
  <2> QED
    BY <2>1, SubSeqEmpty
<1>4. First(c, Chunks(c)) = c.specs
  <2>1. First(c, Chunks(c)) = SubSeq(q, 1, Len(q))
    BY <1>1, ChunkBounds, Zenon DEF First
  <2> QED
    BY <1>1, <1>2, <2>1, SubSeqFull, Zenon
<1>5. ASSUME NEW n \in Nat, n < Chunks(c)
      PROVE  /\ First(c, n) \in Seq(Payloads) /\ Chunk(c, n + 1) \in Seq(Payloads)
             /\ Len(Chunk(c, n + 1)) \in Nat \ {0}
             /\ First(c, n + 1) = First(c, n) \o Chunk(c, n + 1)
  <2>1. n + 1 \in Nat
    OBVIOUS
  <2>2. PICK a, b : a = Upto(c, n) /\ b = Upto(c, n + 1)
    OBVIOUS
  <2>3. a \in 0..Len(q) /\ b \in 0..Len(q) /\ a < b
    BY <1>1, <1>5, <2>1, <2>2, ChunkBounds, Zenon
  <2>4. /\ First(c, n) = SubSeq(q, 1, a) /\ First(c, n + 1) = SubSeq(q, 1, b)
        /\ Chunk(c, n + 1) = SubSeq(q, a + 1, b)
    BY <1>1, <1>5, <2>2, ChunkBounds, Zenon DEF First
  <2>5. a \in Nat /\ b \in Nat /\ a + 1 <= b /\ b <= Len(q)
    BY <2>3, <1>2
  <2>6. SubSeq(q, 1, a) \in Seq(Payloads)
    <3>1. \A k \in 1..a : q[k] \in Payloads
      BY <1>2, <2>5
    <3> QED
      BY <3>1, <2>5, SubSeqProperties
  <2>7. SubSeq(q, a + 1, b) \in Seq(Payloads) /\ Len(SubSeq(q, a + 1, b)) = b - a
    <3>1. \A k \in (a + 1)..b : q[k] \in Payloads
      BY <1>2, <2>5
    <3>2. a + 1 \in Int /\ b \in Int /\ b - (a + 1) + 1 = b - a
      BY <2>5
    <3> QED
      BY <3>1, <3>2, <2>5, SubSeqProperties
  <2>8. SubSeq(q, 1, a) \o SubSeq(q, a + 1, b) = SubSeq(q, 1, b)
    <3>1. 1 \in 1..(Len(q) + 1) /\ a \in (1 - 1)..Len(q) /\ b \in a..Len(q)
      BY <1>2, <2>5
    <3> QED
      BY <1>2, <3>1, ConcatAdjacentSubSeq, Zenon
  <2>9. b - a \in Nat \ {0}
    BY <2>5
  <2> QED
    BY <2>4, <2>6, <2>7, <2>8, <2>9, Zenon
<1> QED
  BY <1>3, <1>4, <1>5, Zenon

-----------------------------------------------------------------------------
(* The invariant.                                                          *)

\* While the requests go out, the output is the keys of the chunks taken, in
\* payload order and all granted, and the rest is held in chunk order.
SendingInv ==
  /\ call.specs \in Seq(Payloads)
  /\ call.taken \in Nat /\ call.got \in Seq(Answers(call))
  /\ call.taken <= Len(call.got) /\ Len(call.got) <= Chunks(call)
  /\ call.out = KeysOf(call, First(call, call.taken))
  /\ AllGranted(call, First(call, call.taken))
  /\ \A i \in 1..Len(call.got) : i > call.taken => Held(call, i, call.got[i])

CallRecord(c) ==
  c = [stage |-> c.stage, op |-> c.op, keyset |-> c.keyset, specs |-> c.specs,
       got |-> c.got, taken |-> c.taken, out |-> c.out]

ClientInv ==
  /\ CallRecord(call)
  /\ call.stage \in {"idle", "token", "sending", "done", "error"}
  /\ call.stage = "idle" => call = Idle
  /\ call.stage = "token" => /\ call.specs \in Seq(Payloads)
                            /\ call.got = <<>> /\ call.taken = 0 /\ call.out = <<>>
  /\ call.stage = "sending" => SendingInv

\* A step that leaves the call's arguments alone keeps the invariant if what it
\* does to the rest keeps it.
LEMMA KeepSending ==
  ASSUME NEW g, NEW n, NEW o, call.stage = "sending",
         call' = [stage |-> call.stage, op |-> call.op, keyset |-> call.keyset,
                  specs |-> call.specs, got |-> g, taken |-> n, out |-> o],
         call.specs \in Seq(Payloads),
         n \in Nat, g \in Seq(Answers(call)), n <= Len(g), Len(g) <= Chunks(call),
         o = KeysOf(call, First(call, n)), AllGranted(call, First(call, n)),
         \A i \in 1..Len(g) : i > n => Held(call, i, g[i])
  PROVE  ClientInv'
<1>1. /\ call'.stage = "sending" /\ call'.op = call.op /\ call'.keyset = call.keyset
      /\ call'.specs = call.specs /\ call'.got = g /\ call'.taken = n /\ call'.out = o
  OBVIOUS
<1>2. CallRecord(call')
  BY <1>1, Zenon DEF CallRecord
<1>3. /\ Chunks(call') = Chunks(call) /\ Answers(call') = Answers(call)
      /\ \A k : First(call', k) = First(call, k)
      /\ \A s : KeysOf(call', s) = KeysOf(call, s) /\ (AllGranted(call', s) <=> AllGranted(call, s))
      /\ \A i, a : Held(call', i, a) <=> Held(call, i, a)
  BY <1>1, SameCall
<1>4. SendingInv'
  BY <1>1, <1>3, ZenonT(60) DEF SendingInv
<1> QED
  BY <1>1, <1>2, <1>4 DEF ClientInv

\* A call that has ended promises nothing more.
LEMMA KeepEnded ==
  ASSUME NEW st \in {"done", "error"},
         call' = [stage |-> st, op |-> call.op, keyset |-> call.keyset,
                  specs |-> call.specs, got |-> call.got, taken |-> call.taken, out |-> call.out]
  PROVE  ClientInv'
<1>1. /\ call'.stage = st /\ call'.op = call.op /\ call'.keyset = call.keyset
      /\ call'.specs = call.specs /\ call'.got = call.got /\ call'.taken = call.taken
      /\ call'.out = call.out
  OBVIOUS
<1>2. CallRecord(call')
  BY <1>1, Zenon DEF CallRecord
<1> QED
  BY <1>1, <1>2 DEF ClientInv

\* A call is a record of its entries.
LEMMA Entries ==
  ASSUME NEW c, CallRecord(c)
  PROVE  \E t, p, k, q, h, m, u :
           /\ c = [stage |-> t, op |-> p, keyset |-> k, specs |-> q, got |-> h, taken |-> m, out |-> u]
           /\ c.stage = t /\ c.op = p /\ c.keyset = k /\ c.specs = q
           /\ c.got = h /\ c.taken = m /\ c.out = u
BY Zenon DEF CallRecord

\* A change of a call's stage changes nothing else.
LEMMA StageChanged ==
  ASSUME NEW c, CallRecord(c), NEW st
  PROVE  [c EXCEPT !.stage = st] =
           [stage |-> st, op |-> c.op, keyset |-> c.keyset, specs |-> c.specs,
            got |-> c.got, taken |-> c.taken, out |-> c.out]
<1>1. PICK t, p, k, q, h, m, u :
        /\ c = [stage |-> t, op |-> p, keyset |-> k, specs |-> q, got |-> h, taken |-> m, out |-> u]
        /\ c.stage = t /\ c.op = p /\ c.keyset = k /\ c.specs = q
        /\ c.got = h /\ c.taken = m /\ c.out = u
  BY Entries, Zenon
<1>2. [c EXCEPT !.stage = st] =
        [stage |-> st, op |-> p, keyset |-> k, specs |-> q, got |-> h, taken |-> m, out |-> u]
  BY <1>1
<1> QED
  BY <1>1, <1>2, Zenon

\* A change of the requests kept changes nothing else.
LEMMA GotChanged ==
  ASSUME NEW c, CallRecord(c), NEW g
  PROVE  [c EXCEPT !.got = g] =
           [stage |-> c.stage, op |-> c.op, keyset |-> c.keyset, specs |-> c.specs,
            got |-> g, taken |-> c.taken, out |-> c.out]
<1>1. PICK t, p, k, q, h, m, u :
        /\ c = [stage |-> t, op |-> p, keyset |-> k, specs |-> q, got |-> h, taken |-> m, out |-> u]
        /\ c.stage = t /\ c.op = p /\ c.keyset = k /\ c.specs = q
        /\ c.got = h /\ c.taken = m /\ c.out = u
  BY Entries, Zenon
<1>2. [c EXCEPT !.got = g] =
        [stage |-> t, op |-> p, keyset |-> k, specs |-> q, got |-> g, taken |-> m, out |-> u]
  BY <1>1
<1> QED
  BY <1>1, <1>2, Zenon

\* Taking an answer changes the count, the output and the requests kept.
TakenFrom(c, n, o, g) == [c EXCEPT !.taken = n, !.out = o, !.got = g]

LEMMA TakenChanged ==
  ASSUME NEW c, CallRecord(c), NEW n, NEW o, NEW g
  PROVE  TakenFrom(c, n, o, g) =
           [stage |-> c.stage, op |-> c.op, keyset |-> c.keyset, specs |-> c.specs,
            got |-> g, taken |-> n, out |-> o]
<1>1. PICK t, p, k, q, h, m, u :
        /\ c = [stage |-> t, op |-> p, keyset |-> k, specs |-> q, got |-> h, taken |-> m, out |-> u]
        /\ c.stage = t /\ c.op = p /\ c.keyset = k /\ c.specs = q
        /\ c.got = h /\ c.taken = m /\ c.out = u
  BY Entries, Zenon
<1>2. PICK d : d = [c EXCEPT !.taken = n]
  BY Zenon
<1>3. d = [stage |-> t, op |-> p, keyset |-> k, specs |-> q, got |-> h, taken |-> n, out |-> u]
  BY <1>1, <1>2
<1>4. PICK e : e = [d EXCEPT !.out = o]
  BY Zenon
<1>5. e = [stage |-> t, op |-> p, keyset |-> k, specs |-> q, got |-> h, taken |-> n, out |-> o]
  BY <1>3, <1>4
<1>6. [e EXCEPT !.got = g] =
        [stage |-> t, op |-> p, keyset |-> k, specs |-> q, got |-> g, taken |-> n, out |-> o]
  BY <1>5
<1> QED
  BY <1>1, <1>2, <1>4, <1>6, Zenon DEF TakenFrom

\* Sending one more request.
LEMMA SendKeeps ==
  ASSUME SizeOK, ClientInv, Send PROVE ClientInv'
<1>1. CallRecord(call) /\ call.stage = "sending" /\ SendingInv
  BY Zenon DEF ClientInv, Send
<1>2. PICK g : g = Append(call.got, InFlight)
  BY Zenon
<1>3. Len(call.got) < Chunks(call) /\ call' = [call EXCEPT !.got = g]
  BY <1>2, Zenon DEF Send
<1>4. call' = [stage |-> call.stage, op |-> call.op, keyset |-> call.keyset, specs |-> call.specs,
               got |-> g, taken |-> call.taken, out |-> call.out]
  BY <1>1, <1>3, GotChanged, Zenon
<1>5. PICK old, A, n : old = call.got /\ A = Answers(call) /\ n = call.taken
  OBVIOUS
<1>6. old \in Seq(A) /\ Len(old) \in Nat /\ n \in Nat /\ n <= Len(old) /\ InFlight \in A
  <2>1. old \in Seq(A) /\ n \in Nat /\ n <= Len(old) /\ InFlight \in A
    BY <1>1, <1>5, Zenon DEF SendingInv, Answers
  <2> QED
    BY <2>1, LenProperties, Zenon
<1>7. /\ g \in Seq(A) /\ Len(g) = Len(old) + 1
      /\ \A i \in 1..Len(old) : g[i] = old[i]
      /\ g[Len(old) + 1] = InFlight
  <2>1. old \in Seq(A) /\ InFlight \in A /\ g = Append(old, InFlight)
    BY <1>2, <1>5, <1>6, Zenon
  <2> QED
    BY <2>1, AppendProperties
<1>8. Len(g) <= Chunks(call) /\ n <= Len(g)
  <2>1. Chunks(call) \in Nat
    BY <1>1, ChunkBounds, Zenon DEF SendingInv
  <2> QED
    BY <1>3, <1>5, <1>6, <1>7, <2>1
<1>9. ASSUME NEW i \in 1..Len(g), i > n PROVE Held(call, i, g[i])
  <2>1. i \in 1..Len(old) \/ i = Len(old) + 1
    BY <1>6, <1>7
  <2>2. CASE i \in 1..Len(old)
    BY <1>1, <1>5, <1>7, <1>9, <2>2, Zenon DEF SendingInv
  <2>3. CASE i = Len(old) + 1
    BY <1>7, <2>3, Zenon DEF Held
  <2> QED
    BY <2>1, <2>2, <2>3, Zenon
<1> QED
  BY <1>1, <1>4, <1>5, <1>6, <1>7, <1>8, <1>9, KeepSending, Zenon DEF SendingInv

\* An answer is its own chunk's keys, or the request has failed.
LEMMA AnswerHeld ==
  ASSUME SizeOK, SendingInv, NEW i \in DOMAIN call.got,
         NEW result \in {"keys", "short", "failed"}, NEW a,
         LET chunk == Chunk(call, i)
             keys  == [k \in DOMAIN chunk |-> Source!KeyOf(call.keyset, chunk[k])]
             sent  == IF result = "short" THEN SubSeq(keys, 1, Len(keys) - 1) ELSE keys
         IN  /\ result # "failed" =>
                  \A k \in DOMAIN chunk : Source!Granted(call.op, call.keyset, chunk[k])
             /\ a = IF result = "failed" \/ Len(sent) # Len(chunk) THEN Failed
                    ELSE [state |-> "keys", keys |-> sent]
  PROVE  i \in 1..Len(call.got) /\ Held(call, i, a) /\ a \in Answers(call)
<1>1. i \in 1..Len(call.got) /\ Len(call.got) \in Nat
  BY LenProperties, SMTT(30) DEF SendingInv
<1>2. i - 1 \in Nat /\ i - 1 < Chunks(call) /\ (i - 1) + 1 = i /\ i \in Nat
  <2>1. Chunks(call) \in Nat /\ Len(call.got) <= Chunks(call)
    BY ChunkBounds, Zenon DEF SendingInv
  <2> QED
    BY <1>1, <2>1, SMTT(30)
<1>3. PICK s, ks : s = Chunk(call, i) /\ ks = KeysOf(call, s)
  OBVIOUS
<1>4. s \in Seq(Payloads) /\ Len(s) \in Nat \ {0}
  BY <1>2, <1>3, ChunksInOrder, Zenon DEF SendingInv
<1>5. Len(ks) = Len(s) /\ Len(ks) \in Nat \ {0}
  BY <1>3, <1>4, KeysConcat
<1>6. /\ result # "failed" => AllGranted(call, s)
      /\ a = IF \/ result = "failed"
                \/ Len(IF result = "short" THEN SubSeq(ks, 1, Len(ks) - 1) ELSE ks) # Len(s)
             THEN Failed
             ELSE [state |-> "keys",
                   keys  |-> IF result = "short" THEN SubSeq(ks, 1, Len(ks) - 1) ELSE ks]
  BY <1>3, Zenon DEF KeysOf, AllGranted
<1>7. Len(SubSeq(ks, 1, Len(ks) - 1)) # Len(s)
  <2>1. PICK m : m = Len(ks) - 1
    OBVIOUS
  <2>2. SubSeq(ks, 1, Len(ks) - 1) = SubSeq(ks, 1, m)
    BY <2>1, Zenon
  <2>3. m \in Nat /\ m # Len(s)
    BY <1>5, <2>1
  <2>4. PICK V : \A k \in 1..m : ks[k] \in V
    <3>1. \A k \in 1..m : ks[k] \in {ks[l] : l \in 1..m}
      OBVIOUS
    <3> QED
      BY <3>1, Zenon
  <2>5. Len(SubSeq(ks, 1, m)) = m
    <3>1. Len(SubSeq(ks, 1, m)) = IF 1 <= m THEN m - 1 + 1 ELSE 0
      BY <2>3, <2>4, SubSeqProperties
    <3> QED
      BY <2>3, <3>1
  <2> QED
    BY <2>2, <2>3, <2>5, Zenon
<1>8. a = Failed \/ (a = [state |-> "keys", keys |-> ks] /\ AllGranted(call, s))
  BY <1>6, <1>7, Zenon
<1>9. Held(call, i, a)
  BY <1>3, <1>8, Zenon DEF Held
<1>10. a \in Answers(call)
  BY <1>2, <1>3, <1>8, Zenon DEF Answers
<1> QED
  BY <1>1, <1>9, <1>10, Zenon

\* A request is answered, in any order.
LEMMA ReplyKeeps ==
  ASSUME SizeOK, ClientInv, NEW i \in DOMAIN call.got,
         NEW result \in {"keys", "short", "failed"}, Reply(i, result)
  PROVE  ClientInv'
<1>1. CallRecord(call) /\ call.stage = "sending" /\ SendingInv
  BY Zenon DEF ClientInv, Reply
<1>2. PICK a : /\ i \in 1..Len(call.got) /\ Held(call, i, a) /\ a \in Answers(call)
               /\ call' = [call EXCEPT !.got = [call.got EXCEPT ![i] = a]]
  <2>1. PICK a :
          /\ LET chunk == Chunk(call, i)
                 keys  == [k \in DOMAIN chunk |-> Source!KeyOf(call.keyset, chunk[k])]
                 sent  == IF result = "short" THEN SubSeq(keys, 1, Len(keys) - 1) ELSE keys
             IN  /\ result # "failed" =>
                      \A k \in DOMAIN chunk : Source!Granted(call.op, call.keyset, chunk[k])
                 /\ a = IF result = "failed" \/ Len(sent) # Len(chunk) THEN Failed
                        ELSE [state |-> "keys", keys |-> sent]
          /\ call' = [call EXCEPT !.got = [call.got EXCEPT ![i] = a]]
    BY Zenon DEF Reply
  <2>2. i \in 1..Len(call.got) /\ Held(call, i, a) /\ a \in Answers(call)
    BY <1>1, <2>1, AnswerHeld, Zenon
  <2> QED
    BY <2>1, <2>2, Zenon
<1>3. PICK old, A, n, g : /\ old = call.got /\ A = Answers(call) /\ n = call.taken
                          /\ g = [old EXCEPT ![i] = a]
  BY Zenon
<1>4. old \in Seq(A) /\ n \in Nat /\ n <= Len(old) /\ a \in A /\ i \in 1..Len(old)
  BY <1>1, <1>2, <1>3, Zenon DEF SendingInv
<1>5. /\ g \in Seq(A) /\ Len(g) = Len(old)
      /\ \A j \in 1..Len(old) : g[j] = IF j = i THEN a ELSE old[j]
  <2>1. old \in Seq(A) /\ i \in 1..Len(old) /\ a \in A /\ g = [old EXCEPT ![i] = a]
    BY <1>3, <1>4, Zenon
  <2> QED
    BY <2>1, ExceptSeq
<1>6. call' = [stage |-> call.stage, op |-> call.op, keyset |-> call.keyset, specs |-> call.specs,
               got |-> g, taken |-> call.taken, out |-> call.out]
  <2>1. call' = [call EXCEPT !.got = g]
    BY <1>2, <1>3, Zenon
  <2> QED
    BY <1>1, <2>1, GotChanged, Zenon
<1>7. ASSUME NEW j \in 1..Len(g), j > n PROVE Held(call, j, g[j])
  <2>1. j \in 1..Len(old)
    BY <1>5, Zenon
  <2>2. CASE j = i
    BY <1>2, <1>5, <2>1, <2>2, Zenon
  <2>3. CASE j # i
    BY <1>1, <1>3, <1>5, <1>7, <2>1, <2>3, Zenon DEF SendingInv
  <2> QED
    BY <2>2, <2>3, Zenon
<1>8. n <= Len(g) /\ Len(g) <= Chunks(call)
  BY <1>1, <1>3, <1>4, <1>5, Zenon DEF SendingInv
<1> QED
  BY <1>1, <1>3, <1>4, <1>5, <1>6, <1>7, <1>8, KeepSending, Zenon DEF SendingInv

\* The oldest answer is taken: the output grows by the next chunk's keys.
LEMMA TakeKeeps ==
  ASSUME SizeOK, ClientInv, Take PROVE ClientInv'
<1>1. CallRecord(call) /\ call.stage = "sending" /\ SendingInv /\ call.taken < Len(call.got)
  BY Zenon DEF ClientInv, Take
<1>2. PICK n, head : n = call.taken /\ head = call.got[n + 1]
  OBVIOUS
<1>3. /\ head # InFlight
      /\ call' = IF head = Failed THEN [call EXCEPT !.stage = "error"]
                 ELSE [call EXCEPT !.taken = n + 1, !.out = call.out \o head.keys,
                                   !.got = [call.got EXCEPT ![n + 1] = Taken]]
  BY <1>2, Zenon DEF Take
<1>4. CASE head = Failed
  <2>1. call' = [stage |-> "error", op |-> call.op, keyset |-> call.keyset, specs |-> call.specs,
                 got |-> call.got, taken |-> call.taken, out |-> call.out]
    BY <1>1, <1>3, <1>4, StageChanged, Zenon
  <2> QED
    BY <2>1, KeepEnded, Zenon
<1>5. CASE head # Failed
  <2>1. PICK old, A, m : old = call.got /\ A = Answers(call) /\ m = Chunks(call)
    OBVIOUS
  <2>2. /\ old \in Seq(A) /\ Len(old) \in Nat /\ n \in Nat /\ n < Len(old) /\ Taken \in A
        /\ m \in Nat /\ Len(old) <= m
    <3>1. /\ old \in Seq(A) /\ n \in Nat /\ n < Len(old) /\ Taken \in A /\ m \in Nat
          /\ Len(old) <= m
      BY <1>1, <1>2, <2>1, ChunkBounds, Zenon DEF SendingInv, Answers
    <3> QED
      BY <3>1, LenProperties, Zenon
  <2>3. n + 1 \in Nat /\ n + 1 \in 1..Len(old) /\ n + 1 > n /\ n + 1 <= Len(old) /\ n < m
    BY <2>2
  <2>4. PICK g : g = [old EXCEPT ![n + 1] = Taken]
    BY Zenon
  <2>5. /\ g \in Seq(A) /\ Len(g) = Len(old)
        /\ \A j \in 1..Len(old) : g[j] = IF j = n + 1 THEN Taken ELSE old[j]
    <3>1. PICK k : k = n + 1
      OBVIOUS
    <3>2. old \in Seq(A) /\ k \in 1..Len(old) /\ Taken \in A
      BY <2>2, <2>3, <3>1, Zenon
    <3>3. /\ [old EXCEPT ![k] = Taken] \in Seq(A) /\ Len([old EXCEPT ![k] = Taken]) = Len(old)
          /\ \A j \in 1..Len(old) : [old EXCEPT ![k] = Taken][j] = IF j = k THEN Taken ELSE old[j]
      BY <3>2, ExceptSeq
    <3> QED
      BY <2>4, <3>1, <3>3, Zenon
  <2>6. /\ head = [state |-> "keys", keys |-> KeysOf(call, Chunk(call, n + 1))]
        /\ AllGranted(call, Chunk(call, n + 1))
    BY <1>1, <1>2, <1>3, <1>5, <2>1, <2>3, Zenon DEF SendingInv, Held
  <2>7. PICK s, t : s = First(call, n) /\ t = Chunk(call, n + 1)
    OBVIOUS
  <2>8. s \in Seq(Payloads) /\ t \in Seq(Payloads) /\ First(call, n + 1) = s \o t
    BY <1>1, <2>1, <2>2, <2>3, <2>7, ChunksInOrder, Zenon DEF SendingInv
  <2>9. call.out \o head.keys = KeysOf(call, First(call, n + 1))
    <3>1. head.keys = KeysOf(call, t)
      BY <2>6, <2>7
    <3>2. call.out = KeysOf(call, s)
      BY <1>1, <1>2, <2>7, Zenon DEF SendingInv
    <3>3. KeysOf(call, s \o t) = KeysOf(call, s) \o KeysOf(call, t)
      BY <2>8, KeysConcat, Zenon
    <3> QED
      BY <2>8, <3>1, <3>2, <3>3, Zenon
  <2>10. AllGranted(call, First(call, n + 1))
    <3>1. AllGranted(call, s) /\ AllGranted(call, t)
      BY <1>1, <1>2, <2>6, <2>7, Zenon DEF SendingInv
    <3> QED
      BY <2>8, <3>1, GrantedConcat, Zenon
  <2>11. call' = [stage |-> call.stage, op |-> call.op, keyset |-> call.keyset,
                  specs |-> call.specs, got |-> g, taken |-> n + 1, out |-> call.out \o head.keys]
    <3>1. call' = [call EXCEPT !.taken = n + 1, !.out = call.out \o head.keys, !.got = g]
      BY <1>3, <1>5, <2>1, <2>4, Zenon
    <3>2. PICK k, o : k = n + 1 /\ o = call.out \o head.keys
      BY Zenon
    <3>3. call' = TakenFrom(call, k, o, g)
      BY <3>1, <3>2, Zenon DEF TakenFrom
    <3>4. call' = [stage |-> call.stage, op |-> call.op, keyset |-> call.keyset,
                   specs |-> call.specs, got |-> g, taken |-> k, out |-> o]
      BY <1>1, <3>3, TakenChanged, Zenon
    <3> QED
      BY <3>2, <3>4, Zenon
  <2>12. ASSUME NEW j \in 1..Len(g), j > n + 1 PROVE Held(call, j, g[j])
    <3>1. j \in 1..Len(old) /\ j > n /\ j # n + 1
      BY <2>2, <2>5, <2>12
    <3> QED
      BY <1>1, <1>2, <2>1, <2>5, <3>1, Zenon DEF SendingInv
  <2>13. n + 1 <= Len(g) /\ Len(g) <= Chunks(call)
    BY <2>1, <2>2, <2>3, <2>5, Zenon
  <2> QED
    BY <1>1, <2>1, <2>3, <2>5, <2>9, <2>10, <2>11, <2>12, <2>13, KeepSending, Zenon DEF SendingInv
<1> QED
  BY <1>4, <1>5, Zenon

\* With a token the requests begin, and nothing has been taken.
LEMMA TokenKeeps ==
  ASSUME SizeOK, call.specs \in Seq(Payloads),
         call.got = <<>>, call.taken = 0, call.out = <<>>,
         call' = [stage |-> "sending", op |-> call.op, keyset |-> call.keyset,
                  specs |-> call.specs, got |-> call.got, taken |-> call.taken, out |-> call.out]
  PROVE  ClientInv'
<1>1. /\ call'.stage = "sending" /\ call'.op = call.op /\ call'.keyset = call.keyset
      /\ call'.specs = call.specs /\ call'.got = <<>> /\ call'.taken = 0 /\ call'.out = <<>>
  OBVIOUS
<1>2. CallRecord(call')
  BY <1>1, Zenon DEF CallRecord
<1>3. First(call', 0) = <<>> /\ Chunks(call') \in Nat
  BY <1>1, ChunksInOrder, ChunkBounds, SMTT(30)
<1>4. KeysOf(call', <<>>) = <<>> /\ AllGranted(call', <<>>)
  BY DEF KeysOf, AllGranted
<1>5. <<>> \in Seq(Answers(call')) /\ Len(<<>>) = 0
  OBVIOUS
<1>6. SendingInv'
  BY <1>1, <1>3, <1>4, <1>5 DEF SendingInv
<1> QED
  BY <1>1, <1>2, <1>6 DEF ClientInv

\* The output is always made of whole chunks, taken in order, whatever order
\* the answers arrived in.
THEOREM ClientInvariant ==
  ASSUME SizeOK PROVE Spec => []ClientInv
<1>1. Init => ClientInv
  <2> SUFFICES ASSUME Init PROVE ClientInv
    OBVIOUS
  <2>1. call.stage = "idle" /\ call = Idle
    BY DEF Init, Idle
  <2>2. CallRecord(call)
    BY <2>1 DEF CallRecord, Idle
  <2> QED
    BY <2>1, <2>2 DEF ClientInv
<1>2. ClientInv /\ [Next]_call => ClientInv'
  <2> SUFFICES ASSUME ClientInv, [Next]_call PROVE ClientInv'
    OBVIOUS
  <2>1. CASE UNCHANGED call
    BY <2>1, Zenon DEF ClientInv, SendingInv, CallRecord
  <2>2. ASSUME NEW op \in {"generate", "retrieve"}, NEW keyset \in Keysets,
               NEW specs \in Seq(Payloads), Start(op, keyset, specs)
        PROVE  ClientInv'
    <3>1. /\ call' = [stage |-> "token", op |-> op, keyset |-> keyset, specs |-> specs,
                      got |-> <<>>, taken |-> 0, out |-> <<>>]
      BY <2>2, Zenon DEF Start
    <3>2. /\ call'.stage = "token" /\ call'.op = op /\ call'.keyset = keyset
          /\ call'.specs = specs /\ call'.got = <<>> /\ call'.taken = 0 /\ call'.out = <<>>
      BY <3>1
    <3>3. CallRecord(call')
      BY <3>1, <3>2, Zenon DEF CallRecord
    <3> QED
      BY <3>2, <3>3 DEF ClientInv
  <2>3. CASE GetToken
    <3>1. CallRecord(call) /\ call.stage = "token" /\ call' = [call EXCEPT !.stage = "sending"]
      BY <2>3, Zenon DEF ClientInv, GetToken
    <3>2. /\ call.specs \in Seq(Payloads)
          /\ call.got = <<>> /\ call.taken = 0 /\ call.out = <<>>
      BY <3>1, Zenon DEF ClientInv
    <3>3. call' = [stage |-> "sending", op |-> call.op, keyset |-> call.keyset,
                   specs |-> call.specs, got |-> call.got, taken |-> call.taken, out |-> call.out]
      BY <3>1, StageChanged, Zenon
    <3> QED
      BY <3>2, <3>3, TokenKeeps, Zenon
  <2>4. CASE NoToken
    <3>1. CallRecord(call) /\ call' = [call EXCEPT !.stage = "error"]
      BY <2>4, Zenon DEF ClientInv, NoToken
    <3>2. call' = [stage |-> "error", op |-> call.op, keyset |-> call.keyset,
                   specs |-> call.specs, got |-> call.got, taken |-> call.taken, out |-> call.out]
      BY <3>1, StageChanged, Zenon
    <3> QED
      BY <3>2, KeepEnded, Zenon
  <2>5. CASE Finish
    <3>1. CallRecord(call) /\ call' = [call EXCEPT !.stage = "done"]
      BY <2>5, Zenon DEF ClientInv, Finish
    <3>2. call' = [stage |-> "done", op |-> call.op, keyset |-> call.keyset,
                   specs |-> call.specs, got |-> call.got, taken |-> call.taken, out |-> call.out]
      BY <3>1, StageChanged, Zenon
    <3> QED
      BY <3>2, KeepEnded, Zenon
  <2>6. CASE Leave
    <3>1. call' = Idle /\ call'.stage = "idle"
      BY <2>6 DEF Leave, Idle
    <3>2. CallRecord(call')
      BY <3>1 DEF CallRecord, Idle
    <3> QED
      BY <3>1, <3>2 DEF ClientInv
  <2> QED
    BY <2>1, <2>2, <2>3, <2>4, <2>5, <2>6, SendKeeps, TakeKeeps, ReplyKeeps, Zenon DEF Next, Step
<1> QED
  BY <1>1, <1>2, PTL DEF Spec

-----------------------------------------------------------------------------
(* The refinement.                                                         *)

\* A step within a call shows nothing.
LEMMA Inside ==
  ASSUME call.stage \in {"token", "sending"}, call'.stage \in {"token", "sending"},
         call'.op = call.op, call'.keyset = call.keyset, call'.specs = call.specs
  PROVE  Asked' = Asked /\ Result' = Result
<1>1. Asked' = Asked
  BY DEF Asked
<1>2. Result' = Result
  BY DEF Result
<1> QED
  BY <1>1, <1>2

\* A call that ends in an error refuses, with nothing answered.
LEMMA Refuses ==
  ASSUME CallRecord(call), call.stage \in {"token", "sending"},
         call' = [call EXCEPT !.stage = "error"]
  PROVE  Source!Refuse
<1>1. call' = [stage |-> "error", op |-> call.op, keyset |-> call.keyset,
               specs |-> call.specs, got |-> call.got, taken |-> call.taken, out |-> call.out]
  BY StageChanged, Zenon
<1>2. /\ call'.stage = "error" /\ call'.op = call.op /\ call'.keyset = call.keyset
      /\ call'.specs = call.specs
  BY <1>1
<1>3. Asked' = Asked /\ Asked.open
  BY <1>2, Zenon DEF Asked
<1>4. Result = Source!Unanswered /\ Result' = [state |-> "error", keys |-> <<>>]
  BY <1>2 DEF Result, Source!Unanswered
<1> QED
  BY <1>3, <1>4 DEF Source!Refuse

\* A call that finishes has one granted key for each payload, in their order.
LEMMA Finishes ==
  ASSUME SizeOK, ClientInv, Finish PROVE Source!Answer
<1>1. /\ CallRecord(call) /\ SendingInv /\ call.stage = "sending" /\ call.taken = Chunks(call)
      /\ call' = [call EXCEPT !.stage = "done"]
  BY Zenon DEF ClientInv, Finish
<1>2. call' = [stage |-> "done", op |-> call.op, keyset |-> call.keyset,
               specs |-> call.specs, got |-> call.got, taken |-> call.taken, out |-> call.out]
  BY <1>1, StageChanged, Zenon
<1>3. /\ call'.stage = "done" /\ call'.op = call.op /\ call'.keyset = call.keyset
      /\ call'.specs = call.specs /\ call'.out = call.out
  BY <1>2
<1>4. First(call, call.taken) = call.specs
  BY <1>1, ChunksInOrder, Zenon DEF SendingInv
<1>5. call.out = KeysOf(call, call.specs) /\ AllGranted(call, call.specs)
  BY <1>1, <1>4, Zenon DEF SendingInv
<1>6. /\ Asked' = Asked /\ Asked.open
      /\ Asked.op = call.op /\ Asked.keyset = call.keyset /\ Asked.specs = call.specs
  BY <1>1, <1>3, Zenon DEF Asked
<1>7. Result = Source!Unanswered /\ Result' = [state |-> "keys", keys |-> call.out]
  BY <1>1, <1>3 DEF Result, Source!Unanswered
<1>8. \A i \in DOMAIN Asked.specs : Source!Granted(Asked.op, Asked.keyset, Asked.specs[i])
  BY <1>5, <1>6, Zenon DEF AllGranted
<1>9. call.out = [i \in DOMAIN Asked.specs |-> Source!KeyOf(Asked.keyset, Asked.specs[i])]
  BY <1>5, <1>6, Zenon DEF KeysOf
<1> QED
  BY <1>6, <1>7, <1>8, <1>9, Zenon DEF Source!Answer

\* However it chunks its payloads, however many requests it keeps going and in
\* whatever order they are answered, the client is a DataKeySource: one call at
\* a time, answered by one key for every payload in payload order, or by an
\* error and nothing (ZeroKMS::generate_keys and retrieve_keys).
THEOREM ClientImplementsSource ==
  ASSUME SizeOK PROVE Spec => Source!Spec
<1>1. Init => Source!Init
  <2> SUFFICES ASSUME Init PROVE Source!Init
    OBVIOUS
  <2>1. call.stage = "idle"
    BY DEF Init, Idle
  <2>2. ~Asked.open
    BY <2>1, Zenon DEF Asked
  <2>3. Result = Source!Unanswered
    BY <2>1 DEF Result, Source!Unanswered
  <2> QED
    BY <2>2, <2>3 DEF Source!Init
<1>2. ClientInv /\ [Next]_call => [Source!Next]_<<Asked, Result>>
  <2> SUFFICES ASSUME ClientInv, [Next]_call
                      PROVE  Source!Next \/ (Asked' = Asked /\ Result' = Result)
    BY Zenon
  <2>0. CallRecord(call)
    BY Zenon DEF ClientInv
  <2>1. ASSUME UNCHANGED call PROVE Asked' = Asked /\ Result' = Result
    BY <2>1 DEF Asked, Result
  <2>2. ASSUME NEW op \in {"generate", "retrieve"}, NEW keyset \in Keysets,
               NEW specs \in Seq(Payloads), Start(op, keyset, specs)
        PROVE  Source!Ask
    <3>1. call.stage = "idle" /\ call'.stage = "token"
      BY <2>2 DEF Start
    <3>2. ~Asked.open /\ Asked'.open
      BY <3>1, Zenon DEF Asked
    <3>3. Result' = Source!Unanswered
      BY <3>1 DEF Result, Source!Unanswered
    <3> QED
      BY <3>2, <3>3 DEF Source!Ask
  <2>3. ASSUME GetToken PROVE Asked' = Asked /\ Result' = Result
    <3>1. call.stage = "token" /\ call' = [call EXCEPT !.stage = "sending"]
      BY <2>3, Zenon DEF GetToken
    <3>2. call' = [stage |-> "sending", op |-> call.op, keyset |-> call.keyset,
                   specs |-> call.specs, got |-> call.got, taken |-> call.taken, out |-> call.out]
      BY <2>0, <3>1, StageChanged, Zenon
    <3>3. /\ call'.stage = "sending" /\ call'.op = call.op /\ call'.keyset = call.keyset
          /\ call'.specs = call.specs
      BY <3>2
    <3> QED
      BY <3>1, <3>3, Inside, Zenon
  <2>4. ASSUME NoToken PROVE Source!Refuse
    <3>1. call.stage = "token" /\ call' = [call EXCEPT !.stage = "error"]
      BY <2>4, Zenon DEF NoToken
    <3> QED
      BY <2>0, <3>1, Refuses
  <2>5. ASSUME Send PROVE Asked' = Asked /\ Result' = Result
    <3>1. call.stage = "sending" /\ call' = [call EXCEPT !.got = Append(call.got, InFlight)]
      BY <2>5, Zenon DEF Send
    <3>2. PICK g : call' = [call EXCEPT !.got = g]
      BY <3>1, Zenon
    <3>3. call' = [stage |-> call.stage, op |-> call.op, keyset |-> call.keyset,
                   specs |-> call.specs, got |-> g, taken |-> call.taken, out |-> call.out]
      BY <2>0, <3>2, GotChanged, Zenon
    <3>4. /\ call'.stage = call.stage /\ call'.op = call.op /\ call'.keyset = call.keyset
          /\ call'.specs = call.specs
      BY <3>3
    <3> QED
      BY <3>1, <3>4, Inside, Zenon
  <2>6. ASSUME NEW i \in DOMAIN call.got, NEW result \in {"keys", "short", "failed"},
               Reply(i, result)
        PROVE  Asked' = Asked /\ Result' = Result
    <3>1. call.stage = "sending" /\ \E g : call' = [call EXCEPT !.got = g]
      BY <2>6, Zenon DEF Reply
    <3>2. PICK g : call' = [call EXCEPT !.got = g]
      BY <3>1, Zenon
    <3>3. call' = [stage |-> call.stage, op |-> call.op, keyset |-> call.keyset,
                   specs |-> call.specs, got |-> g, taken |-> call.taken, out |-> call.out]
      BY <2>0, <3>2, GotChanged, Zenon
    <3>4. /\ call'.stage = call.stage /\ call'.op = call.op /\ call'.keyset = call.keyset
          /\ call'.specs = call.specs
      BY <3>3
    <3> QED
      BY <3>1, <3>4, Inside, Zenon
  <2>7. ASSUME Take PROVE Source!Refuse \/ (Asked' = Asked /\ Result' = Result)
    <3>1. /\ call.stage = "sending"
          /\ \/ call' = [call EXCEPT !.stage = "error"]
             \/ \E n, o, g : call' = [call EXCEPT !.taken = n, !.out = o, !.got = g]
      BY <2>7, Zenon DEF Take
    <3>2. CASE call' = [call EXCEPT !.stage = "error"]
      BY <2>0, <3>1, <3>2, Refuses
    <3>3. CASE \E n, o, g : call' = [call EXCEPT !.taken = n, !.out = o, !.got = g]
      <4>1. PICK k, u, h : call' = [call EXCEPT !.taken = k, !.out = u, !.got = h]
        BY <3>3, Zenon
      <4>2. call' = [stage |-> call.stage, op |-> call.op, keyset |-> call.keyset,
                     specs |-> call.specs, got |-> h, taken |-> k, out |-> u]
        <5>1. call' = TakenFrom(call, k, u, h)
          BY <4>1, Zenon DEF TakenFrom
        <5> QED
          BY <2>0, <5>1, TakenChanged, ZenonT(60)
      <4>3. /\ call'.stage = call.stage /\ call'.op = call.op /\ call'.keyset = call.keyset
            /\ call'.specs = call.specs
        BY <4>2
      <4> QED
        BY <3>1, <4>3, Inside, Zenon
    <3> QED
      BY <3>1, <3>2, <3>3, Zenon
  <2>8. ASSUME Finish PROVE Source!Answer
    BY <2>8, Finishes, Zenon
  <2>9. ASSUME Leave PROVE Source!Leave
    <3>1. call.stage # "idle" /\ call'.stage = "idle"
      BY <2>9 DEF Leave, Idle
    <3>2. Asked.open /\ ~Asked'.open
      BY <3>1, Zenon DEF Asked
    <3>3. Result' = Source!Unanswered
      BY <3>1 DEF Result, Source!Unanswered
    <3> QED
      BY <3>2, <3>3 DEF Source!Leave
  <2> QED
    BY <2>1, <2>2, <2>3, <2>4, <2>5, <2>6, <2>7, <2>8, <2>9, Zenon DEF Next, Step, Source!Next
<1> QED
  BY <1>1, <1>2, ClientInvariant, PTL DEF Spec, Source!Spec
=============================================================================
