--------------------------- MODULE GuestHostProofs ---------------------------
(***************************************************************************)
(* Proofs about GuestHost: the memory of the guest lives exactly as long   *)
(* as it must, the credentials have one owner, and a caller is told of its *)
(* own call.                                                               *)
(***************************************************************************)
EXTENDS GuestHost, TLAPS

-----------------------------------------------------------------------------
(* The inductive invariant.                                                *)

Pcs    == {"idle", "new", "resolved", "encoded", "call", "abandon", "made", "close"}
Ops    == {None, "init", "check", "encrypt", "decrypt"}
Inner  == {"export", "token", "placeToken", "gotToken", "send", "placeHeaders", "placeBody", "sent"}
Stages == Inner \cup {"none", "stage", "left", "out"}

RtRec     == [pc : Pcs, op : Ops, malformed : BOOLEAN, ctx : {"live", "ended"}, asked : BOOLEAN]
MemRec    == [inFlight : 0..1, pending : BOOLEAN, freed : BOOLEAN, refused : Nat,
              reason : Nat \cup {None}]
ModRec    == [closed : BOOLEAN, held : BOOLEAN]
CredRec   == [kind : {"explicit", "auto"}, consumed : BOOLEAN, key : {"none", "live", "wiped"},
              encoded : SUBSET Routines, releases : 0..1]
ClientRec == [ready : BOOLEAN, made : 0..1, closed : BOOLEAN, released : BOOLEAN, lost : BOOLEAN,
              calls : Nat, tokenErr : Nat \cup {None}]
Fields    == {"by", "stage", "op", "malformed", "bufs", "slots", "answer", "status", "err",
              "diag", "growth"}

\* The buffers of a call are a sequence, of whatever the allocator gives.
IsSeq(s) == \E S : s \in Seq(S)

Typed ==
  /\ mem \in MemRec /\ mod \in ModRec /\ client \in ClientRec /\ cred \in CredRec
  /\ rt \in [Routines -> RtRec]
  /\ DOMAIN call = Fields /\ call.stage \in Stages /\ IsSeq(call.bufs)

\* The call is that of a goroutine inside Client.call, and a guest that has
\* run was handed something.
CallInv(c, g) ==
  /\ c.stage # "none" =>
       /\ c.by \in Routines /\ g[c.by].pc = "call" /\ g[c.by].op = c.op
       /\ ~client.closed
  /\ c.stage \in Inner => c.bufs # <<>>

\* A module that has been closed but for its memory is on its way out of the
\* guest; one that has been closed altogether has freed its memory, or will as
\* soon as the call has left.
MemInv(m, d, c) ==
  /\ m.inFlight = 1 <=> c.stage \notin {"none", "out"}
  /\ m.inFlight = 1 => ~m.freed
  /\ m.pending => m.inFlight = 1 /\ d.closed /\ ~d.held
  /\ m.freed => d.closed /\ ~d.held
  /\ d.closed /\ ~d.held => m.freed \/ m.pending
  /\ d.closed /\ d.held => c.stage \in Inner \/ (c.stage = "left" /\ c.bufs # <<>>)

\* A client that is there has the module's memory until it is closed.
ClientInv(k, m, d, c) ==
  /\ k.made = 0 => ~k.ready /\ ~k.closed /\ ~k.released /\ ~k.lost /\ ~d.closed
  /\ k.made = 1 /\ ~d.closed => d.held
  /\ c.stage = "none" /\ (k.closed \/ k.lost) => m.freed

\* NewClient, from the credentials it has taken to its return.
Past(x) ==
  \/ x.pc \in {"resolved", "encoded", "abandon", "made"}
  \/ x.pc = "call" /\ x.op = "init"

\* What a goroutine is doing, against the client.
Doing(x, k) ==
  /\ x.pc = "idle" => x.op = None
  /\ x.pc = "new" \/ Past(x) => x.asked
  /\ x.pc \in {"resolved", "encoded"} => k.made = 0
  /\ x.pc \in {"call", "abandon", "made", "close"} => k.made = 1
  /\ x.pc = "call" => x.op # None
  /\ x.pc = "close" \/ (x.pc = "call" /\ x.op # "init") => k.ready
  /\ k.lost => x.pc = "idle"
  /\ Past(x) => ~k.ready /\ ~k.released /\ ~k.lost

Owned ==
  /\ \A r \in Routines : Doing(rt[r], client)
  /\ \A r, q \in Routines : Past(rt[r]) /\ Past(rt[q]) => r = q
  /\ \A r \in Routines : Past(rt[r]) => cred.consumed /\ cred.releases = 0
  /\ \A r \in Routines : r \in cred.encoded => Past(rt[r]) /\ rt[r].pc # "resolved"
  /\ ~cred.consumed => client.made = 0 /\ cred.releases = 0
  /\ cred.consumed => \E r \in Routines : rt[r].asked
  /\ cred.kind = "auto" =>
       /\ \A r, q \in Routines : rt[r].asked /\ rt[q].asked => r = q
       /\ \A r \in Routines : rt[r].pc = "new" => ~cred.consumed
       /\ client.released => cred.releases = 1
  /\ cred.kind = "explicit" => cred.releases = 0
  /\ client.ready /\ ~client.released => cred.releases = 0
  /\ client.released \/ client.lost \/ client.ready => client.made = 1
  /\ client.lost => client.ready
  /\ client.ready => \A r \in Routines : ~Past(rt[r])
  /\ cred.key = "live" =>
       \/ \E r \in Routines : rt[r].pc = "resolved"
       \/ /\ ~cred.consumed /\ cred.kind = "explicit"
          /\ \A r \in Routines : rt[r].asked => rt[r].pc = "new"

\* The first call of a client is not kept from the guest: nothing has closed the
\* client before that call has been made.
Fresh ==
  call.stage = "none" /\ (mod.closed \/ client.closed) =>
    \A r \in Routines : ~(rt[r].pc = "call" /\ rt[r].op = "init")

GuestInv ==
  /\ Typed /\ CallInv(call, rt) /\ MemInv(mem, mod, call) /\ ClientInv(client, mem, mod, call)
  /\ Owned /\ Fresh

-----------------------------------------------------------------------------
(* The operators of the model, field by field.                             *)

\* A goroutine's record.
LEMMA RtFacts ==
  ASSUME NEW x \in RtRec
  PROVE  /\ Idle(x) \in RtRec /\ Idle(x).pc = "idle" /\ Idle(x).op = None /\ Idle(x).asked = x.asked
         /\ \A pc \in Pcs : /\ To(x, pc) \in RtRec /\ To(x, pc).pc = pc /\ To(x, pc).op = x.op
                            /\ To(x, pc).asked = x.asked
<1>1. Idle(x) \in RtRec /\ Idle(x).pc = "idle" /\ Idle(x).op = None /\ Idle(x).asked = x.asked
  BY Zenon DEF RtRec, Idle, Pcs, Ops
<1>2. ASSUME NEW pc \in Pcs
      PROVE  /\ To(x, pc) \in RtRec /\ To(x, pc).pc = pc /\ To(x, pc).op = x.op
             /\ To(x, pc).asked = x.asked
  BY DEF RtRec, To
<1> QED
  BY <1>1, <1>2

\* One goroutine goes on, the others stay.
LEMMA GoesFacts ==
  ASSUME Typed, NEW r \in Routines, NEW x \in RtRec, Goes(r, x)
  PROVE  /\ rt' \in [Routines -> RtRec] /\ rt'[r] = x
         /\ \A q \in Routines \ {r} : rt'[q] = rt[q]
BY DEF Typed, Goes

\* The allocator: memory goes at once when no call is in flight, and otherwise
\* with the call.
LEMMA MemFacts ==
  ASSUME NEW m \in MemRec
  PROVE  /\ Free(m) \in MemRec /\ Free(m).inFlight = m.inFlight
         /\ m.inFlight = 0 => Free(m).freed /\ Free(m).pending = m.pending
         /\ m.inFlight = 1 => Free(m).pending /\ Free(m).freed = m.freed
         /\ m.inFlight = 0 => /\ EnterMem(m) \in MemRec /\ EnterMem(m).inFlight = 1
                              /\ EnterMem(m).pending = m.pending /\ EnterMem(m).freed = m.freed
         /\ m.inFlight = 1 => /\ Exit(m) \in MemRec /\ Exit(m).inFlight = 0 /\ ~Exit(m).pending
                              /\ Exit(m).freed = (m.freed \/ m.pending)
<1>1. /\ m.inFlight \in 0..1 /\ m.pending \in BOOLEAN /\ m.freed \in BOOLEAN /\ m.refused \in Nat
  BY DEF MemRec
<1>2. /\ Free(m) \in MemRec /\ Free(m).inFlight = m.inFlight
      /\ m.inFlight = 0 => Free(m).freed /\ Free(m).pending = m.pending
      /\ m.inFlight = 1 => Free(m).pending /\ Free(m).freed = m.freed
  <2>1. CASE m.inFlight = 0
    <3>1. Free(m) = [m EXCEPT !.freed = TRUE]
      BY <2>1 DEF Free, FreeLocked
    <3>2. Free(m) \in MemRec /\ Free(m).inFlight = m.inFlight
      BY <1>1, <3>1, Zenon DEF MemRec
    <3>3. Free(m).freed = TRUE /\ Free(m).pending = m.pending
      BY <1>1, <3>1 DEF MemRec
    <3> QED
      BY <2>1, <3>2, <3>3
  <2>2. CASE m.inFlight = 1
    <3>1. Free(m) = [m EXCEPT !.pending = TRUE]
      BY <2>2 DEF Free
    <3>2. Free(m) \in MemRec /\ Free(m).inFlight = m.inFlight
      BY <1>1, <3>1, Zenon DEF MemRec
    <3>3. Free(m).pending = TRUE /\ Free(m).freed = m.freed
      BY <1>1, <3>1 DEF MemRec
    <3> QED
      BY <2>2, <3>2, <3>3
  <2> QED
    BY <1>1, <2>1, <2>2
<1>3. m.inFlight = 0 => /\ EnterMem(m) \in MemRec /\ EnterMem(m).inFlight = 1
                        /\ EnterMem(m).pending = m.pending /\ EnterMem(m).freed = m.freed
  BY <1>1 DEF MemRec, EnterMem
<1>4. ASSUME m.inFlight = 1
      PROVE  /\ Exit(m) \in MemRec /\ Exit(m).inFlight = 0 /\ ~Exit(m).pending
             /\ Exit(m).freed = (m.freed \/ m.pending)
  <2>1. PICK n : n = [m EXCEPT !.inFlight = @ - 1]
    BY Zenon
  <2>2. n \in MemRec /\ n.inFlight = 0 /\ n.pending = m.pending /\ n.freed = m.freed
    BY <1>1, <1>4, <2>1 DEF MemRec
  <2>3. Exit(m) = IF n.pending THEN FreeLocked([n EXCEPT !.pending = FALSE]) ELSE n
    BY <2>1, <2>2 DEF Exit
  <2>4. CASE m.pending
    BY <1>1, <2>2, <2>3, <2>4, Zenon DEF MemRec, FreeLocked
  <2>5. CASE ~m.pending
    BY <1>1, <2>2, <2>3, <2>5 DEF MemRec
  <2> QED
    BY <2>4, <2>5
<1> QED
  BY <1>2, <1>3, <1>4

\* A growth that fails leaves the memory as it was; at most its lock is counted as
\* refused.
LEMMA GrowthFacts ==
  ASSUME GrowthFails, mem \in MemRec, client \in ClientRec
  PROVE  /\ mem' = mem \/ mem' = Reallocate(mem, TRUE)
         /\ mem' \in MemRec /\ mem'.inFlight = mem.inFlight
         /\ mem'.pending = mem.pending /\ mem'.freed = mem.freed
<1>1. PICK lockErr \in Uncommitted : mem' = Reallocate(mem, lockErr)
  BY DEF GrowthFails
<1>2. mem' = mem \/ mem' = Reallocate(mem, TRUE)
  BY <1>1 DEF Reallocate
<1>3. PICK n \in Nat, c \in Nat : Reallocate(mem, TRUE) = [mem EXCEPT !.refused = n, !.reason = c]
  <2>1. mem.refused + 1 \in Nat /\ client.calls \in Nat
    BY DEF MemRec, ClientRec
  <2> QED
    BY <2>1, Zenon DEF Reallocate
<1>4. Reallocate(mem, TRUE) \in MemRec
  BY <1>3, Zenon DEF MemRec
<1>5. /\ Reallocate(mem, TRUE).inFlight = mem.inFlight
      /\ Reallocate(mem, TRUE).pending = mem.pending /\ Reallocate(mem, TRUE).freed = mem.freed
  BY <1>3, Zenon DEF MemRec
<1> QED
  BY <1>2, <1>4, <1>5, Zenon

\* A module that has been closed altogether.
LEMMA ClosedFacts == Closed \in ModRec /\ Closed.closed /\ ~Closed.held
BY DEF Closed, ModRec

\* The credentials.
LEMMA CredFacts ==
  ASSUME NEW c \in CredRec
  PROVE  /\ Wiped(c) \in CredRec /\ Wiped(c).key # "live" /\ Wiped(c).kind = c.kind
         /\ Wiped(c).consumed = c.consumed /\ Wiped(c).encoded = c.encoded
         /\ Wiped(c).releases = c.releases
         /\ c.releases = 0 =>
              /\ ReleaseCredentials(c) \in CredRec /\ ReleaseCredentials(c).key = c.key
              /\ ReleaseCredentials(c).kind = c.kind
              /\ ReleaseCredentials(c).consumed = c.consumed
              /\ ReleaseCredentials(c).encoded = c.encoded
              /\ ReleaseCredentials(c).releases = IF c.kind = "auto" THEN 1 ELSE 0
         /\ Consume(c) \in CredRec /\ Consume(c).kind = c.kind /\ Consume(c).consumed
         /\ Consume(c).encoded = c.encoded /\ Consume(c).releases = c.releases
<1>1. /\ c.kind \in {"explicit", "auto"} /\ c.consumed \in BOOLEAN
      /\ c.key \in {"none", "live", "wiped"} /\ c.encoded \in SUBSET Routines
      /\ c.releases \in 0..1
  BY DEF CredRec
<1>2. /\ Wiped(c) \in CredRec /\ Wiped(c).key # "live" /\ Wiped(c).kind = c.kind
      /\ Wiped(c).consumed = c.consumed /\ Wiped(c).encoded = c.encoded
      /\ Wiped(c).releases = c.releases
  BY <1>1 DEF CredRec, Wiped
<1>3. ASSUME c.releases = 0
      PROVE  /\ ReleaseCredentials(c) \in CredRec /\ ReleaseCredentials(c).key = c.key
             /\ ReleaseCredentials(c).kind = c.kind
             /\ ReleaseCredentials(c).consumed = c.consumed
             /\ ReleaseCredentials(c).encoded = c.encoded
             /\ ReleaseCredentials(c).releases = IF c.kind = "auto" THEN 1 ELSE 0
  BY <1>1, <1>3 DEF CredRec, ReleaseCredentials
<1>4. /\ Consume(c) \in CredRec /\ Consume(c).kind = c.kind /\ Consume(c).consumed
      /\ Consume(c).encoded = c.encoded /\ Consume(c).releases = c.releases
  BY <1>1, Zenon DEF CredRec, Consume
<1> QED
  BY <1>2, <1>3, <1>4

\* An encoded config comes and goes.
LEMMA EncodedFacts ==
  ASSUME NEW c \in CredRec, NEW E \in SUBSET Routines, NEW d, d = [c EXCEPT !.encoded = E]
  PROVE  /\ d \in CredRec /\ d.encoded = E /\ d.kind = c.kind /\ d.consumed = c.consumed
         /\ d.key = c.key /\ d.releases = c.releases
BY DEF CredRec

-----------------------------------------------------------------------------
(* Steps of the call, inside the client's lock.                            *)

\* The client's record, but for the number of its calls and the last error of
\* the token source.
SameClient ==
  /\ client' \in ClientRec /\ client'.ready = client.ready /\ client'.made = client.made
  /\ client'.closed = client.closed /\ client'.released = client.released
  /\ client'.lost = client.lost

\* Steps that leave the goroutines, the client and the credentials alone keep their owners.
LEMMA SameOwned ==
  ASSUME GuestInv, UNCHANGED <<cred, rt>>, SameClient
  PROVE  Owned'
<1>1. Owned /\ \A r \in Routines : Doing(rt[r], client)
  BY DEF GuestInv, Owned
<1>2. \A r \in Routines : Doing(rt[r], client)' /\ Past(rt[r])' = Past(rt[r])
  BY <1>1 DEF Doing, Past, SameClient
<1> QED
  BY <1>1, <1>2 DEF Owned, SameClient

\* The call goes on: its goroutine and operation are those it began with, and it
\* has the buffers it had, or more.
GoesOn(c, d) ==
  /\ DOMAIN d = Fields /\ d.stage \in Inner \cup {"stage", "left"} /\ IsSeq(d.bufs)
  /\ d.by = c.by /\ d.op = c.op
  /\ c.stage \in Inner => d.stage \in Inner \cup {"left"}
  /\ c.bufs # <<>> => d.bufs # <<>>
  /\ d.stage \in Inner => d.bufs # <<>>

\* A call that goes on in the guest, or comes back out of it, keeps the invariant.
LEMMA CallStep ==
  ASSUME GuestInv, call.stage \in Inner \cup {"stage"}, GoesOn(call, call'),
         UNCHANGED <<cred, rt>>, SameClient,
         \/ UNCHANGED <<mem, mod>>
         \/ GrowthFails /\ UNCHANGED mod
         \/ mod' = Closed /\ mem' = Release(mem)
  PROVE  GuestInv'
<1>0. /\ Typed /\ CallInv(call, rt) /\ MemInv(mem, mod, call) /\ ClientInv(client, mem, mod, call)
      /\ mem \in MemRec /\ mod \in ModRec /\ client \in ClientRec
  BY SMTT(30) DEF GuestInv, Typed
<1>1. Owned'
  BY SameOwned
<1>2. /\ call'.stage \in Inner \cup {"stage", "left"} /\ call'.stage \notin {"none", "out"}
      /\ call.stage \notin {"none", "out", "left"} /\ "none" \notin Inner /\ "out" \notin Inner
      /\ "left" \notin Inner /\ "stage" \notin Inner
  BY DEF GoesOn, Inner
<1>3. /\ mem.inFlight = 1 /\ ~mem.freed /\ mem' \in MemRec /\ mod' \in ModRec
      /\ mem'.inFlight = 1 /\ ~mem'.freed
      /\ mem'.pending => mod'.closed /\ ~mod'.held
      /\ mod'.closed /\ ~mod'.held => mem'.pending
      /\ mod.closed => mod'.closed
      /\ mod'.closed /\ mod'.held => mod.closed /\ mod.held
      /\ ~mod'.closed => mod'.held = mod.held
  <2>1. mem.inFlight = 1 /\ ~mem.freed
    BY <1>0, <1>2 DEF MemInv
  <2>2. CASE UNCHANGED <<mem, mod>>
    BY <1>0, <2>1, <2>2 DEF MemInv
  <2>3. CASE GrowthFails /\ UNCHANGED mod
    BY <1>0, <2>1, <2>3, GrowthFacts DEF MemInv
  <2>4. CASE mod' = Closed /\ mem' = Release(mem)
    <3>1. CASE mod.held
      BY <1>0, <2>1, <2>4, <3>1, MemFacts, ClosedFacts DEF MemInv, Release
    <3>2. CASE ~mod.held
      <4>1. mod.closed
        BY <1>0, <1>2, <3>2, Zenon DEF ClientInv, CallInv, GuestInv, Owned, Doing, Typed, ClientRec
      <4> QED
        BY <1>0, <2>1, <2>4, <3>2, <4>1, ClosedFacts, SMTT(30) DEF MemInv, Release
    <3> QED
      BY <3>1, <3>2
  <2> QED
    BY <2>1, <2>2, <2>3, <2>4
<1>4. Typed'
  BY <1>0, <1>2, <1>3 DEF Typed, GoesOn, SameClient, Stages
<1>5. CallInv(call, rt)'
  BY <1>0, <1>2 DEF CallInv, GoesOn, SameClient
<1>6. MemInv(mem, mod, call)'
  <2>1. mod'.closed /\ mod'.held => call'.stage \in Inner \/ (call'.stage = "left" /\ call'.bufs # <<>>)
    BY <1>0, <1>2, <1>3, SMTT(30) DEF MemInv, CallInv, GoesOn
  <2> QED
    BY <1>2, <1>3, <2>1 DEF MemInv
<1>7. ClientInv(client, mem, mod, call)'
  <2>1. client.made = 1
    BY <1>0, <1>2 DEF CallInv, GuestInv, Owned, Doing
  <2> QED
    BY <1>0, <1>2, <1>3, <2>1 DEF ClientInv, SameClient
<1>8. Fresh'
  BY <1>2 DEF Fresh
<1> QED
  BY <1>1, <1>4, <1>5, <1>6, <1>7, <1>8 DEF GuestInv

\* A buffer more, and still a sequence of buffers.
LEMMA AppendSeq ==
  ASSUME NEW s, IsSeq(s), NEW e
  PROVE  IsSeq(Append(s, e)) /\ Append(s, e) # <<>>
<1>1. PICK S : s \in Seq(S)
  BY DEF IsSeq
<1>2. Append(s, e) \in Seq(S \cup {e}) /\ Append(s, e) # <<>>
  BY <1>1
<1> QED
  BY <1>2 DEF IsSeq

\* The call moves on to another stage, with the buffers it has.
LEMMA Moved ==
  ASSUME GuestInv, call.stage \in Inner \cup {"stage"}, NEW st \in Inner \cup {"left"},
         DOMAIN call' = Fields, call'.stage = st, call'.by = call.by, call'.op = call.op,
         call'.bufs = call.bufs, st \in Inner => call.bufs # <<>>
  PROVE  GoesOn(call, call')
BY DEF GoesOn, GuestInv, Typed

\* The same, with one more buffer.
LEMMA MovedWith ==
  ASSUME GuestInv, call.stage \in Inner \cup {"stage"}, NEW st \in Inner \cup {"left"}, NEW b,
         DOMAIN call' = Fields, call'.stage = st, call'.by = call.by, call'.op = call.op,
         call'.bufs = Append(call.bufs, b)
  PROVE  GoesOn(call, call')
<1>1. IsSeq(call.bufs)
  BY DEF GuestInv, Typed
<1>2. IsSeq(call'.bufs) /\ call'.bufs # <<>>
  BY <1>1, AppendSeq
<1> QED
  BY <1>2 DEF GoesOn

\* What the token source says changes nothing else of the client.
LEMMA SameFacts ==
  ASSUME GuestInv
  PROVE  /\ UNCHANGED client => SameClient
         /\ client' = [client EXCEPT !.tokenErr = client.calls] => SameClient
<1>1. client \in ClientRec /\ client.calls \in Nat
  BY DEF GuestInv, Typed, ClientRec
<1>2. UNCHANGED client => SameClient
  BY <1>1 DEF SameClient
<1>3. client' = [client EXCEPT !.tokenErr = client.calls] => SameClient
  BY <1>1 DEF SameClient, ClientRec
<1> QED
  BY <1>2, <1>3

\* Client.call, up to the export.
LEMMA StagingSteps ==
  ASSUME GuestInv, Stage \/ StageRefused \/ Barred \/ Run
  PROVE  GuestInv'
<1>0. /\ call.stage = "stage" /\ DOMAIN call = Fields /\ IsSeq(call.bufs)
      /\ UNCHANGED <<client, cred, rt>> /\ SameClient
  BY SameFacts DEF Stage, StageRefused, Barred, Run, Staging, GuestInv, Typed
<1>1. CASE Stage
  <2>1. PICK b : call' = [call EXCEPT !.bufs = Append(@, b)]
    BY <1>1, Zenon DEF Stage
  <2>2. IsSeq(Append(call.bufs, b)) /\ Append(call.bufs, b) # <<>>
    BY <1>0, AppendSeq
  <2>3. GoesOn(call, call')
    BY <1>0, <2>1, <2>2 DEF GoesOn, Fields, Inner
  <2> QED
    BY <1>0, <1>1, <2>3, CallStep DEF Stage
<1>2. CASE StageRefused
  <2>1. GoesOn(call, call')
    BY <1>0, <1>2, Moved DEF StageRefused, Fields, Inner
  <2> QED
    BY <1>0, <1>2, <2>1, CallStep DEF StageRefused
<1>3. CASE Barred
  <2>1. GoesOn(call, call')
    BY <1>0, <1>3, Moved, ZenonT(60) DEF Barred, Fields, Inner
  <2> QED
    BY <1>0, <1>3, <2>1, CallStep DEF Barred
<1>4. CASE Run
  <2>1. PICK S : call.bufs \in Seq(S)
    BY <1>0 DEF IsSeq
  <2>2. Len(Inputs(call.op)) \in {1, 2}
    BY DEF Inputs
  <2>3. ~(Len(call.bufs) < Len(Inputs(call.op)))
    BY <1>0, <1>4 DEF Run, Staging
  <2>4. call.bufs # <<>>
    <3>1. Len(call.bufs) \in Nat
      BY <2>1
    <3>2. \A m \in Nat, n \in {1, 2} : ~(m < n) => m # 0
      OBVIOUS
    <3>3. Len(call.bufs) # 0
      BY <2>2, <2>3, <3>1, <3>2, Zenon
    <3> QED
      BY <3>3
  <2>5. GoesOn(call, call')
    BY <1>0, <1>4, <2>4, Moved DEF Run, Fields, Inner
  <2> QED
    BY <1>0, <1>4, <2>5, CallStep DEF Run
<1> QED
  BY <1>1, <1>2, <1>3, <1>4

\* The guest, between its imports.
LEMMA ExportSteps ==
  ASSUME GuestInv, Export \/ GotToken \/ Sent \/ Abort \/ Unwind
  PROVE  GuestInv'
<1>0. /\ call.stage \in {"export", "gotToken", "sent"} /\ call.stage \in Inner
      /\ DOMAIN call = Fields /\ call.bufs # <<>>
      /\ UNCHANGED <<client, cred, rt>> /\ SameClient
  BY SameFacts, SMTT(30) DEF Export, GotToken, Sent, Abort, Unwind, Inner, GuestInv, Typed, CallInv
<1>1. ASSUME NEW g, NEW n, Returned(g, n) PROVE GoesOn(call, call')
  <2>1. PICK b : call' = [call EXCEPT !.stage = "left", !.bufs = Append(@, b)]
    BY <1>1, Zenon DEF Returned
  <2> QED
    BY <1>0, <2>1, MovedWith DEF Fields
<1>2. ASSUME NEW g, NEW status, Refused(g, status) PROVE GoesOn(call, call')
  BY <1>0, <1>2, Moved DEF Refused, Fields
<1>3. ASSUME NEW g, NEW import \in {"token", "send"}, Asks(g, import) PROVE GoesOn(call, call')
  BY <1>0, <1>3, Moved, SMTT(30) DEF Asks, Fields, Inner
<1>4. CASE Export \/ GotToken \/ Sent
  <2>1. GoesOn(call, call')
    <3>1. CASE Export
      BY <1>1, <1>2, <1>3, <3>1, SMTT(30) DEF Export
    <3>2. CASE GotToken
      BY <1>2, <1>3, <3>2, Zenon DEF GotToken
    <3>3. CASE Sent
      BY <1>1, <1>2, <3>3 DEF Sent
    <3> QED
      BY <1>4, <3>1, <3>2, <3>3
  <2> QED
    BY <1>0, <1>4, <2>1, CallStep, Zenon DEF Export, GotToken, Sent
<1>5. CASE Abort
  <2>1. GoesOn(call, call')
    BY <1>0, <1>5, Moved DEF Abort, Fields, Inner
  <2> QED
    BY <1>0, <1>5, <2>1, CallStep DEF Abort
<1>6. CASE Unwind
  <2>1. GoesOn(call, call')
    BY <1>0, <1>6, Moved DEF Unwind, Fields, Inner
  <2> QED
    BY <1>0, <1>6, <2>1, CallStep DEF Unwind
<1> QED
  BY <1>4, <1>5, <1>6, SMTT(30)

\* The imports: what the host does for the guest while the guest waits.
LEMMA ImportSteps ==
  ASSUME GuestInv,
         \/ TokenGet \/ TokenFails \/ PlaceToken \/ PlaceHeaders \/ PlaceBody
         \/ \E answer : Perform(answer)
  PROVE  GuestInv'
<1>0. /\ call.stage \in {"token", "placeToken", "send", "placeHeaders", "placeBody"}
      /\ call.stage \in Inner /\ DOMAIN call = Fields /\ call.bufs # <<>>
      /\ UNCHANGED <<cred, rt>> /\ SameClient
  BY SameFacts, Zenon DEF TokenGet, TokenFails, PlaceToken, PlaceHeaders, PlaceBody, Perform, Inner,
                   GuestInv, Typed, CallInv
<1>1. CASE TokenGet \/ TokenFails \/ \E answer : Perform(answer)
  <2>1. GoesOn(call, call') /\ UNCHANGED <<mem, mod>>
    BY <1>0, <1>1, Moved, ZenonT(60) DEF TokenGet, TokenFails, Perform, Fields, Inner
  <2> QED
    BY <1>0, <2>1, CallStep
<1>2. ASSUME NEW slot, NEW n, NEW what, NEW next \in {"gotToken", "placeBody", "sent"},
             Placed(slot, n, what, next)
      PROVE  GuestInv'
  <2>1. GoesOn(call, call') /\ UNCHANGED <<mem, mod>>
    <3>1. PICK b : call' = [call EXCEPT !.slots[slot] = b, !.stage = next]
      BY <1>2, Zenon DEF Placed
    <3> QED
      BY <1>0, <1>2, <3>1, Moved DEF Placed, Fields, Inner
  <2> QED
    BY <1>0, <2>1, CallStep
<1>3. ASSUME NEW n, NEW next \in {"gotToken", "sent"}, NotPlaced(n, next) PROVE GuestInv'
  <2>1. GoesOn(call, call')
    BY <1>0, <1>3, Moved DEF NotPlaced, Fields, Inner
  <2> QED
    BY <1>0, <1>3, <2>1, CallStep DEF NotPlaced
<1>4. CASE PlaceToken \/ PlaceHeaders \/ PlaceBody
  BY <1>2, <1>3, <1>4 DEF PlaceToken, PlaceHeaders, PlaceBody
<1> QED
  BY <1>1, <1>4

\* The watcher closes the module, and leaves the memory to the call.
LEMMA WatchStep ==
  ASSUME GuestInv, Watch
  PROVE  GuestInv'
<1>0. /\ Typed /\ CallInv(call, rt) /\ MemInv(mem, mod, call) /\ ClientInv(client, mem, mod, call)
      /\ mod \in ModRec /\ call.stage \in Inner /\ ~mod.closed /\ client.made = 1
      /\ UNCHANGED <<mem, client, call, cred, rt>>
  BY SMTT(30) DEF GuestInv, Typed, Watch, InGuest, Inner, CallInv, Owned, Doing
<1>1. mod' \in ModRec /\ mod'.closed = TRUE /\ mod'.held = mod.held /\ mod.held
  BY <1>0, Zenon DEF Watch, ModRec, ClientInv
<1>2. Owned'
  BY <1>0, SameFacts, SameOwned
<1>3. Typed' /\ CallInv(call, rt)'
  BY <1>0, <1>1 DEF Typed, CallInv
<1>4. MemInv(mem, mod, call)' /\ ClientInv(client, mem, mod, call)'
  BY <1>0, <1>1 DEF MemInv, ClientInv
<1>5. Fresh'
  BY <1>0 DEF Fresh, Inner
<1> QED
  BY <1>2, <1>3, <1>4, <1>5 DEF GuestInv

\* A call in flight that leaves takes the memory with it if the module has
\* been closed, whether the runtime has let go of it or not.
LEMMA LeaveStep ==
  ASSUME GuestInv, Leave
  PROVE  GuestInv'
<1>0. /\ Typed /\ CallInv(call, rt) /\ MemInv(mem, mod, call) /\ ClientInv(client, mem, mod, call)
      /\ mod \in ModRec /\ mem \in MemRec /\ call.stage = "left" /\ "left" \notin Inner
      /\ DOMAIN call = Fields /\ UNCHANGED <<client, cred, rt>>
  BY SMTT(30) DEF GuestInv, Typed, Leave, Inner
<1>1. /\ DOMAIN call' = Fields /\ call'.stage = "out" /\ call'.by = call.by /\ call'.op = call.op
      /\ call'.bufs = call.bufs
  <2>1. PICK d, e : call' = [call EXCEPT !.stage = "out", !.diag = d, !.err = e]
    BY <1>0, ZenonT(30) DEF Leave
  <2> QED
    BY <1>0, <2>1 DEF Fields
<1>2. mem.inFlight = 1 /\ ~mem.freed
  BY <1>0 DEF MemInv
<1>3. /\ mem' \in MemRec /\ mod' \in ModRec /\ mem'.inFlight = 0 /\ ~mem'.pending
      /\ mem'.freed = mod.closed /\ mod'.closed = mod.closed
      /\ mod.closed => ~mod'.held
      /\ ~mod.closed => mod' = mod
  <2>1. CASE ~mod.closed
    <3>1. ~mem.pending /\ mod' = mod /\ mem' = Exit(mem)
      BY <1>0, <2>1 DEF Leave, MemInv
    <3> QED
      BY <1>0, <1>2, <2>1, <3>1, MemFacts DEF ModRec
  <2>2. CASE mod.closed /\ mod.held
    <3>1. call.bufs # <<>>
      BY <1>0, <2>2 DEF MemInv
    <3>2. mod' = Closed /\ mem' = Exit(Free(mem))
      BY <2>2, <3>1 DEF Leave, Release
    <3>3. PICK m : m = Free(mem)
      OBVIOUS
    <3>4. m \in MemRec /\ m.inFlight = 1 /\ m.pending
      BY <1>0, <1>2, <3>3, MemFacts
    <3>5. mem' \in MemRec /\ mem'.inFlight = 0 /\ ~mem'.pending /\ mem'.freed
      BY <3>2, <3>3, <3>4, MemFacts, Zenon
    <3> QED
      BY <1>0, <2>2, <3>2, <3>5, ClosedFacts DEF ModRec, MemRec
  <2>3. CASE mod.closed /\ ~mod.held
    <3>1. mem.pending
      BY <1>0, <1>2, <2>3 DEF MemInv
    <3>2. mod' \in {mod, Closed} /\ mem' = Exit(mem)
      BY <2>3 DEF Leave, Release
    <3>3. mem' \in MemRec /\ mem'.inFlight = 0 /\ ~mem'.pending /\ mem'.freed
      BY <1>0, <1>2, <3>1, <3>2, MemFacts, Zenon
    <3> QED
      BY <1>0, <2>3, <3>2, <3>3, ClosedFacts, Zenon DEF ModRec, MemRec
  <2> QED
    BY <2>1, <2>2, <2>3
<1>4. Owned'
  BY <1>0, SameFacts, SameOwned
<1>5. Typed' /\ CallInv(call, rt)'
  BY <1>0, <1>1, <1>3, SMTT(30) DEF Typed, CallInv, Stages, Inner
<1>6. MemInv(mem, mod, call)' /\ ClientInv(client, mem, mod, call)'
  BY <1>0, <1>1, <1>3 DEF MemInv, ClientInv
<1>7. Fresh'
  BY <1>1, SMTT(30) DEF Fresh
<1> QED
  BY <1>4, <1>5, <1>6, <1>7 DEF GuestInv

-----------------------------------------------------------------------------
(* Steps of one goroutine.                                                 *)

\* What the credentials' owner is told apart by.
SameOwner ==
  /\ client' \in ClientRec /\ client'.ready = client.ready /\ client'.made = client.made
  /\ client'.released = client.released /\ client'.lost = client.lost

\* A goroutine goes on that neither takes nor returns credentials.
LEMMA OneMoves ==
  ASSUME GuestInv, UNCHANGED cred, SameOwner,
         NEW r \in Routines, NEW x \in RtRec, Goes(r, x),
         x.asked = rt[r].asked, Doing(x, client), Past(x) => Past(rt[r]),
         r \in cred.encoded => Past(x),
         x.pc = "resolved" <=> rt[r].pc = "resolved", x.pc = "new" <=> rt[r].pc = "new"
  PROVE  Owned'
<1>0. Typed /\ Owned
  BY DEF GuestInv
<1>1. /\ rt' \in [Routines -> RtRec] /\ rt'[r] = x
      /\ \A q \in Routines : q # r => rt'[q] = rt[q]
  BY <1>0, GoesFacts, SMTT(30)
<1>2. /\ \A q \in Routines : /\ Past(rt'[q]) => Past(rt[q])
                             /\ rt'[q].asked = rt[q].asked
                             /\ rt'[q].pc = "resolved" <=> rt[q].pc = "resolved"
                             /\ rt'[q].pc = "new" <=> rt[q].pc = "new"
                             /\ q \in cred.encoded => Past(rt'[q])
  BY <1>0, <1>1, SMTT(30) DEF Owned
<1>3. \A q \in Routines : Doing(rt'[q], client')
  <2>1. \A q \in Routines : Doing(rt'[q], client)
    BY <1>0, <1>1, SMTT(30) DEF Owned
  <2> QED
    BY <2>1, ZenonT(30) DEF Doing, SameOwner
<1> QED
  BY <1>0, <1>2, <1>3, SMTT(30) DEF Owned, SameOwner

\* With the call, the module and its memory as they are, and the client open
\* as it was, what is left to show is about the goroutine.
LEMMA AroundCall ==
  ASSUME GuestInv, UNCHANGED <<mod, mem, call>>, NEW r \in Routines, NEW x \in RtRec, Goes(r, x),
         call.stage # "none" /\ call.by = r => x.pc = "call" /\ x.op = rt[r].op,
         client' \in ClientRec, cred' \in CredRec, client'.closed = client.closed,
         client'.made = client.made, client'.lost = client.lost,
         client'.made = 0 => ~client'.ready /\ ~client'.released,
         x.pc = "call" /\ x.op = "init" => rt[r].pc = "call" /\ rt[r].op = "init",
         Owned'
  PROVE  GuestInv'
<1>0. /\ Typed /\ CallInv(call, rt) /\ MemInv(mem, mod, call) /\ ClientInv(client, mem, mod, call)
  BY SMTT(30) DEF GuestInv
<1>1. /\ rt' \in [Routines -> RtRec] /\ rt'[r] = x
      /\ \A q \in Routines : q # r => rt'[q] = rt[q]
  BY <1>0, GoesFacts, Zenon
<1>2. Typed'
  BY <1>0, <1>1 DEF Typed
<1>3. CallInv(call, rt)'
  BY <1>0, <1>1 DEF CallInv
<1>4. MemInv(mem, mod, call)' /\ ClientInv(client, mem, mod, call)'
  BY <1>0, SMTT(30) DEF MemInv, ClientInv
<1>5. Fresh'
  BY <1>1 DEF Fresh, GuestInv
<1> QED
  BY <1>2, <1>3, <1>4, <1>5 DEF GuestInv

\* Cancel, Use and Finish.
LEMMA PlainSteps ==
  ASSUME GuestInv, NEW r \in Routines,
         Cancel(r) \/ Finish(r) \/ \E u \in Uses : Use(r, u[1], u[2])
  PROVE  GuestInv'
<1>0. /\ Typed /\ Owned /\ rt[r] \in RtRec /\ Doing(rt[r], client) /\ client \in ClientRec
      /\ cred \in CredRec /\ UNCHANGED <<mod, mem, client, call, cred>> /\ SameOwner
      /\ client.made = 0 => ~client.ready /\ ~client.released
      /\ r \in cred.encoded => Past(rt[r])
  BY Zenon DEF GuestInv, Typed, Owned, Cancel, Finish, Use, SameOwner, ClientInv
<1>1. CASE Cancel(r)
  <2>1. PICK x : x = [rt[r] EXCEPT !.ctx = "ended"]
    BY Zenon
  <2>2. x \in RtRec /\ x.pc = rt[r].pc /\ x.op = rt[r].op /\ x.asked = rt[r].asked /\ Goes(r, x)
    BY <1>0, <1>1, <2>1, SMTT(30) DEF RtRec, Cancel
  <2>3. Doing(x, client) /\ (Past(x) <=> Past(rt[r]))
    BY <1>0, <2>2, Zenon DEF Doing, Past
  <2>4. Owned'
    BY <1>0, <2>2, <2>3, OneMoves, Zenon
  <2>5. call.stage # "none" /\ call.by = r => x.pc = "call"
    BY <2>2 DEF GuestInv, CallInv
  <2> QED
    BY <1>0, <2>2, <2>4, <2>5, AroundCall
<1>2. CASE Finish(r)
  <2>1. PICK x : x = To(rt[r], "close")
    BY SMTT(30)
  <2>2. /\ x \in RtRec /\ x.pc = "close" /\ x.op = rt[r].op /\ x.asked = rt[r].asked /\ Goes(r, x)
        /\ rt[r].pc = "idle" /\ client.ready /\ ~client.lost
    BY <1>0, <1>2, <2>1, RtFacts, Zenon DEF Pcs, Finish
  <2>3. Doing(x, client) /\ ~Past(x) /\ ~Past(rt[r])
    BY <1>0, <2>2, Zenon DEF Doing, Past, Owned
  <2>4. Owned'
    BY <1>0, <2>2, <2>3, OneMoves, Zenon
  <2>5. ~(call.stage # "none" /\ call.by = r)
    BY <2>2, SMTT(30) DEF GuestInv, CallInv
  <2> QED
    BY <1>0, <2>2, <2>4, <2>5, AroundCall, SMTT(30)
<1>3. ASSUME NEW u \in Uses, Use(r, u[1], u[2]) PROVE GuestInv'
  <2>0. u[1] \in {"check", "encrypt", "decrypt"} /\ u[2] \in BOOLEAN
    BY GuestHostAssumption
  <2>1. PICK x : x = [To(rt[r], "call") EXCEPT !.op = u[1], !.malformed = u[2]]
    OBVIOUS
  <2>2. /\ x \in RtRec /\ x.pc = "call" /\ x.op = u[1] /\ x.asked = rt[r].asked /\ Goes(r, x)
        /\ rt[r].pc = "idle" /\ client.ready /\ ~client.lost
    <3>1. PICK y : y = To(rt[r], "call")
      BY SMTT(30)
    <3>2. y \in RtRec /\ y.pc = "call" /\ y.asked = rt[r].asked
      BY <1>0, <3>1, RtFacts, Zenon DEF Pcs
    <3>3. x = [y EXCEPT !.op = u[1], !.malformed = u[2]] /\ u[1] \in Ops
      BY <2>0, <2>1, <3>1 DEF Ops
    <3>4. x \in RtRec /\ x.pc = "call" /\ x.op = u[1] /\ x.asked = rt[r].asked
      BY <2>0, <3>2, <3>3, Zenon DEF RtRec
    <3> QED
      BY <1>3, <2>1, <3>4, Zenon DEF Use
  <2>3. x.op # "init" /\ x.op # None
    BY <2>0, <2>2, GuestHostAssumption
  <2>4. Doing(x, client) /\ ~Past(x) /\ ~Past(rt[r])
    <3>1. ~Past(x) /\ ~Past(rt[r])
      BY <2>2, <2>3 DEF Past
    <3>2. client.made = 1
      BY <1>0, <2>2, Zenon DEF Owned
    <3> QED
      BY <2>2, <2>3, <3>1, <3>2 DEF Doing
  <2>5. Owned'
    BY <1>0, <2>2, <2>4, OneMoves, Zenon
  <2>6. ~(call.stage # "none" /\ call.by = r)
    BY <2>2, Zenon DEF GuestInv, CallInv
  <2> QED
    BY <1>0, <2>2, <2>3, <2>5, <2>6, AroundCall, Zenon
<1> QED
  BY <1>1, <1>2, <1>3

\* Client.call takes the lock, or finds the client closed.
LEMMA LockStep ==
  ASSUME GuestInv, NEW r \in Routines, Lock(r)
  PROVE  GuestInv'
<1>0. /\ Typed /\ CallInv(call, rt) /\ MemInv(mem, mod, call) /\ ClientInv(client, mem, mod, call)
      /\ Owned /\ rt[r] \in RtRec /\ Doing(rt[r], client) /\ client \in ClientRec
      /\ mem \in MemRec /\ rt[r].pc = "call" /\ call.stage = "none" /\ UNCHANGED <<mod, cred>>
      /\ rt[r].op # None /\ client.made = 1 /\ mem.inFlight = 0 /\ ~mem.pending
  BY SMTT(30) DEF GuestInv, Typed, Owned, Lock, MemInv, Doing, MemRec
<1>1. CASE client.closed \/ mod.closed
  <2>1. /\ client' = [client EXCEPT !.closed = TRUE] /\ Goes(r, Idle(rt[r])) /\ UNCHANGED <<call, mem>>
    BY <1>1 DEF Lock
  <2>2. PICK x : x = Idle(rt[r])
    OBVIOUS
  <2>3. x \in RtRec /\ x.pc = "idle" /\ x.op = None /\ x.asked = rt[r].asked /\ Goes(r, x)
    BY <1>0, <2>1, <2>2, RtFacts
  <2>4. SameOwner
    BY <1>0, <2>1, Zenon DEF SameOwner, ClientRec
  <2>5. rt[r].op # "init" /\ mem.freed
    <3>1. Fresh /\ r \in Routines
      BY DEF GuestInv
    <3>2. rt[r].op # "init"
      BY <1>0, <1>1, <3>1 DEF Fresh
    <3>3. CASE client.closed
      BY <1>0, <3>2, <3>3 DEF ClientInv
    <3>4. CASE mod.closed
      BY <1>0, <3>2, <3>4, Zenon DEF MemInv, Inner
    <3> QED
      BY <1>1, <3>3, <3>4
  <2>6. Doing(x, client) /\ ~Past(x) /\ ~Past(rt[r]) /\ r \notin cred.encoded
    BY <1>0, <2>3, <2>5, Zenon DEF Doing, Past, Owned
  <2>7. Owned'
    BY <1>0, <2>3, <2>4, <2>6, OneMoves, Zenon
  <2>8. /\ rt' \in [Routines -> RtRec] /\ rt'[r] = x
        /\ \A q \in Routines : q # r => rt'[q] = rt[q]
    BY <1>0, <2>3, GoesFacts, Zenon
  <2>9. Typed' /\ CallInv(call, rt)' /\ MemInv(mem, mod, call)'
    BY <1>0, <2>1, <2>4, <2>8 DEF Typed, CallInv, MemInv, SameOwner, Inner
  <2>10. ClientInv(client, mem, mod, call)'
    BY <1>0, <2>1, <2>4, <2>5 DEF ClientInv, SameOwner
  <2>11. Fresh'
    BY <1>0, <1>1, <2>1, <2>3, <2>8 DEF Fresh, GuestInv
  <2> QED
    BY <2>7, <2>9, <2>10, <2>11 DEF GuestInv
<1>2. CASE ~(client.closed \/ mod.closed)
  <2>1. /\ client' = Began(client) /\ mem' = EnterMem(mem) /\ UNCHANGED rt
        /\ call' = [NoCall EXCEPT !.by = r, !.stage = "stage", !.op = rt[r].op,
                                  !.malformed = rt[r].malformed, !.growth = mem.refused]
    BY <1>2 DEF Lock
  <2>2. SameClient
    <3>0. client.calls \in Nat
      BY <1>0 DEF ClientRec
    <3>1. PICK n \in Nat, t \in Nat \cup {None} : client' = [client EXCEPT !.calls = n, !.tokenErr = t]
      <4>1. client.calls + 1 \in Nat /\ None \in Nat \cup {None}
        BY <3>0
      <4>2. client' = [client EXCEPT !.calls = client.calls + 1, !.tokenErr = None]
        BY <2>1 DEF Began
      <4> QED
        BY <4>1, <4>2, Zenon
    <3>2. client' \in ClientRec
      BY <1>0, <3>1, Zenon DEF ClientRec
    <3>3. /\ client'.ready = client.ready /\ client'.made = client.made
          /\ client'.closed = client.closed /\ client'.released = client.released
          /\ client'.lost = client.lost
      BY <1>0, <3>1 DEF ClientRec
    <3> QED
      BY <3>2, <3>3, SMTT(30) DEF SameClient
  <2>3. /\ DOMAIN call' = Fields /\ call'.stage = "stage" /\ call'.by = r /\ call'.op = rt[r].op
        /\ IsSeq(call'.bufs)
    <3>1. /\ DOMAIN call' = Fields /\ call'.stage = "stage" /\ call'.by = r /\ call'.op = rt[r].op
          /\ call'.bufs = <<>>
      BY <2>1 DEF NoCall, Fields
    <3>2. <<>> \in Seq({})
      OBVIOUS
    <3> QED
      BY <3>1, <3>2 DEF IsSeq
  <2>4. /\ mem' \in MemRec /\ mem'.inFlight = 1 /\ ~mem'.pending /\ mem'.freed = mem.freed
        /\ ~mem.freed
    BY <1>0, <1>2, <2>1, MemFacts DEF MemInv
  <2>5. Owned'
    BY <1>0, <2>1, <2>2, SameOwned
  <2>6. Typed' /\ CallInv(call, rt)'
    BY <1>0, <1>2, <2>1, <2>2, <2>3, <2>4 DEF Typed, CallInv, SameClient, Stages, Inner
  <2>7. MemInv(mem, mod, call)'
    BY <1>0, <1>2, <2>3, <2>4, Zenon DEF MemInv
  <2>8. ClientInv(client, mem, mod, call)' /\ Fresh'
    BY <1>0, <2>2, <2>3, Zenon DEF ClientInv, SameClient, Fresh
  <2> QED
    BY <2>5, <2>6, <2>7, <2>8 DEF GuestInv
<1> QED
  BY <1>1, <1>2, SMTT(30)

\* No call.
LEMMA NoCallFacts ==
  DOMAIN NoCall = Fields /\ NoCall.stage = "none" /\ IsSeq(NoCall.bufs)
<1>1. DOMAIN NoCall = Fields /\ NoCall.stage = "none" /\ NoCall.bufs = <<>>
  BY DEF NoCall, Fields
<1>2. <<>> \in Seq({})
  OBVIOUS
<1> QED
  BY <1>1, <1>2 DEF IsSeq

\* A call that ends frees the memory of a module that was closed under it, and
\* closes one whose guest trapped.
LEMMA JudgeStep ==
  ASSUME GuestInv, Judge
  PROVE  GuestInv'
<1> DEFINE r == call.by
<1>0. /\ Typed /\ CallInv(call, rt) /\ MemInv(mem, mod, call) /\ ClientInv(client, mem, mod, call)
      /\ Owned /\ client \in ClientRec /\ mem \in MemRec /\ mod \in ModRec
      /\ call.stage = "out" /\ "out" \notin Inner /\ call' = NoCall /\ UNCHANGED cred
  BY DEF GuestInv, Typed, Judge, Inner
<1>1. /\ r \in Routines /\ rt[r] \in RtRec /\ rt[r].pc = "call" /\ rt[r].op = call.op
      /\ ~client.closed /\ client.closed \in BOOLEAN
  BY <1>0 DEF CallInv, Typed, ClientRec
<1>2. Doing(rt[r], client) /\ client.made = 1 /\ ~client.lost
  BY <1>0, <1>1, ZenonT(30) DEF Owned, Doing
<1>3. mem.inFlight = 0 /\ ~mem.pending /\ (mod.closed => ~mod.held /\ mem.freed)
  BY <1>0 DEF MemInv, MemRec
<1>4. PICK t \in BOOLEAN :
        /\ IF t THEN CloseTrapped ELSE UNCHANGED <<mod, mem>>
        /\ t => ~mod.closed
        /\ client' = [client EXCEPT !.closed = @ \/ mod.closed \/ t]
  BY <1>0, Zenon DEF Judge
<1>5. /\ mem' \in MemRec /\ mod' \in ModRec /\ mem'.inFlight = 0 /\ ~mem'.pending
      /\ mod'.closed <=> mod.closed \/ t
      /\ mod'.closed => ~mod'.held /\ mem'.freed
      /\ ~mod'.closed => mod'.held /\ ~mem'.freed
  <2>1. CASE t
    <3>1. mod' = Closed /\ mem' = Free(mem)
      BY <1>0, <1>2, <1>4, <2>1 DEF CloseTrapped, Release, ClientInv
    <3> QED
      BY <1>0, <1>3, <2>1, <3>1, MemFacts, ClosedFacts
  <2>2. CASE ~t
    BY <1>0, <1>2, <1>3, <1>4, <2>2 DEF MemInv, ClientInv
  <2> QED
    BY <2>1, <2>2
<1>6. SameOwner /\ (client'.closed <=> mod'.closed)
  <2>1. PICK z \in BOOLEAN : z = (client.closed \/ mod.closed \/ t)
    BY Zenon
  <2>2. client' = [client EXCEPT !.closed = z]
    BY <1>4, <2>1
  <2>3. SameOwner /\ client'.closed = z
    BY <1>0, <2>2 DEF SameOwner, ClientRec
  <2> QED
    BY <1>1, <1>5, <2>1, <2>3, Zenon
<1>7. PICK x : /\ Goes(r, x)
               /\ \/ rt[r].op # "init" /\ x = Idle(rt[r])
                  \/ rt[r].op = "init" /\ \E pc \in {"abandon", "made"} : x = To(rt[r], pc)
  BY <1>1, SMTT(30) DEF Judge
<1>8. /\ x \in RtRec /\ x.asked = rt[r].asked
      /\ \/ rt[r].op # "init" /\ x.pc = "idle" /\ x.op = None
         \/ rt[r].op = "init" /\ x.pc \in {"abandon", "made"}
  BY <1>1, <1>7, RtFacts DEF Pcs
<1>9. /\ Doing(x, client)
      /\ Past(x) => Past(rt[r])
      /\ r \in cred.encoded => Past(x)
      /\ x.pc \notin {"resolved", "new", "call"}
  BY <1>0, <1>1, <1>2, <1>8, Zenon DEF Doing, Past, Owned
<1>10. Owned'
  BY <1>0, <1>1, <1>6, <1>7, <1>8, <1>9, OneMoves, Zenon
<1>11. /\ rt' \in [Routines -> RtRec] /\ rt'[r] = x
       /\ \A q \in Routines : q # r => rt'[q] = rt[q]
  BY <1>0, <1>1, <1>7, <1>8, GoesFacts, Zenon
<1>12. Typed' /\ CallInv(call, rt)'
  BY <1>0, <1>5, <1>6, <1>11, NoCallFacts, Zenon DEF Typed, CallInv, SameOwner, Stages, Inner
<1>13. MemInv(mem, mod, call)' /\ ClientInv(client, mem, mod, call)'
  <2>1. /\ client'.made = 1 /\ ~client'.lost /\ call'.stage = "none"
        /\ client'.closed <=> mod'.closed
    BY <1>0, <1>2, <1>6, NoCallFacts, Zenon DEF SameOwner
  <2>2. MemInv(mem, mod, call)'
    BY <1>5, <2>1 DEF MemInv
  <2>3. ClientInv(client, mem, mod, call)'
    BY <1>5, <2>1 DEF ClientInv
  <2> QED
    BY <2>2, <2>3, Zenon
<1>14. Fresh'
  <2>1. ASSUME NEW q \in Routines, rt'[q].pc = "call", rt'[q].op = "init" PROVE FALSE
    <3>1. q # r /\ rt'[q] = rt[q] /\ Past(rt[q])
      BY <1>9, <1>11, <2>1, Zenon DEF Past
    <3>2. ~client.ready
      BY <1>0, <3>1, Zenon DEF Owned, Doing
    <3>3. Past(rt[r])
      BY <1>1, <1>2, <3>2 DEF Doing, Past
    <3> QED
      BY <1>0, <1>1, <3>1, <3>3, Zenon DEF Owned
  <2> QED
    BY <2>1 DEF Fresh
<1> QED
  BY <1>10, <1>12, <1>13, <1>14 DEF GuestInv

\* The instance is released: its memory is freed then, since no call is in flight.
LEMMA InstanceReleased ==
  ASSUME GuestInv, call.stage = "none", client.made = 1, ReleaseInstance
  PROVE  /\ mod' = Closed /\ mod' \in ModRec /\ mod'.closed /\ ~mod'.held
         /\ mem' \in MemRec /\ mem'.freed /\ ~mem'.pending /\ mem'.inFlight = 0
<1>0. /\ MemInv(mem, mod, call) /\ ClientInv(client, mem, mod, call) /\ mem \in MemRec
      /\ mod \in ModRec /\ "none" \notin Inner
  BY SMTT(30) DEF GuestInv, Typed, Inner
<1>1. mem.inFlight = 0 /\ ~mem.pending
  BY <1>0 DEF MemInv, MemRec
<1>2. CASE mod.closed
  <2>1. ~mod.held /\ mem.freed /\ mem' = mem
    BY <1>0, <1>1, <1>2 DEF MemInv, ReleaseInstance, Release
  <2> QED
    BY <1>0, <1>1, <2>1, ClosedFacts DEF ReleaseInstance
<1>3. CASE ~mod.closed
  <2>1. mod.held /\ mem' = Free(Exit(EnterMem(mem)))
    BY <1>0, <1>3 DEF ClientInv, ReleaseInstance, Release
  <2>2. PICK m : m = EnterMem(mem)
    BY SMTT(30)
  <2>3. m \in MemRec /\ m.inFlight = 1 /\ m.pending = mem.pending
    BY <1>0, <1>1, <2>2, MemFacts
  <2>4. PICK n : n = Exit(m)
    BY SMTT(30)
  <2>5. n \in MemRec /\ n.inFlight = 0 /\ ~n.pending
    BY <2>3, <2>4, MemFacts, SMTT(30)
  <2>6. mem' \in MemRec /\ mem'.freed /\ ~mem'.pending /\ mem'.inFlight = 0
    BY <2>1, <2>2, <2>4, <2>5, MemFacts
  <2> QED
    BY <2>6, ClosedFacts DEF ReleaseInstance
<1> QED
  BY <1>2, <1>3

-----------------------------------------------------------------------------
(* NewClient, and the end of a client.                                     *)

\* NewClient up to the instance, field by field: what the client and the call
\* are does not change, and only one goroutine and the credentials do.
LEMMA MakingSteps ==
  ASSUME GuestInv, NEW r \in Routines, New(r) \/ RefuseConfig(r) \/ Resolve(r)
  PROVE  GuestInv'
<1>0. /\ Typed /\ Owned /\ rt[r] \in RtRec /\ Doing(rt[r], client) /\ client \in ClientRec
      /\ cred \in CredRec /\ UNCHANGED <<mod, mem, client, call>>
      /\ client.made = 0 => ~client.ready /\ ~client.released
      /\ rt[r].pc \in {"idle", "new"}
  BY DEF GuestInv, Typed, Owned, New, RefuseConfig, Resolve, ClientInv
<1>1. ~(call.stage # "none" /\ call.by = r) /\ ~Past(rt[r]) /\ r \notin cred.encoded
  BY <1>0, ZenonT(30) DEF GuestInv, CallInv, Past, Owned
<1>2. ASSUME NEW x \in RtRec, Goes(r, x), x.pc # "call", cred' \in CredRec, Owned' PROVE GuestInv'
  BY <1>0, <1>1, <1>2, AroundCall, Zenon
<1>3. ASSUME NEW x \in RtRec, Goes(r, x)
      PROVE  rt'[r] = x /\ \A q \in Routines : q # r => rt'[q] = rt[q]
  BY <1>0, <1>3, GoesFacts
<1>4. CASE New(r)
  <2>1. PICK x : x = [To(rt[r], "new") EXCEPT !.asked = TRUE]
    BY Zenon
  <2>2. PICK y : y = To(rt[r], "new")
    BY SMTT(30)
  <2>3. y \in RtRec /\ y.pc = "new"
    BY <1>0, <2>2, RtFacts, SMTT(30) DEF Pcs
  <2>4. x = [y EXCEPT !.asked = TRUE]
    BY <2>1, <2>2
  <2>5. x \in RtRec /\ x.pc = "new" /\ x.asked = TRUE
    BY <2>3, <2>4, Zenon DEF RtRec
  <2>6. Goes(r, x) /\ UNCHANGED cred /\ rt[r].pc = "idle" /\ ~client.ready
        /\ (cred.kind = "auto" => \A q \in Routines : ~rt[q].asked)
    BY <1>4, <2>1 DEF New
  <2>7. rt'[r] = x /\ \A q \in Routines : q # r => rt'[q] = rt[q]
    BY <1>3, <2>5, <2>6
  <2>8. ~Past(x) /\ Doing(x, client)
    <3>1. ~client.lost
      BY <1>0, <2>6, ZenonT(30) DEF Owned, GuestInv
    <3> QED
      BY <1>0, <2>5, <3>1, Zenon DEF Past, Doing
  <2>9. \A q \in Routines : Doing(rt'[q], client') /\ (Past(rt'[q]) <=> Past(rt[q]))
    BY <1>0, <1>1, <2>7, <2>8, Zenon DEF Owned
  <2>10. Owned'
    <3>1. cred.kind = "auto" => ~cred.consumed
      BY <1>0, <2>6, ZenonT(30) DEF Owned
    <3>2. /\ \A q \in Routines : rt'[q].asked => q = r \/ rt[q].asked
          /\ \A q \in Routines : rt[q].asked => rt'[q].asked
          /\ \A q \in Routines : rt[q].pc = "resolved" => rt'[q].pc = "resolved"
          /\ \A q \in Routines : rt'[q].pc = "resolved" => rt[q].pc = "resolved"
      BY <2>5, <2>6, <2>7, Zenon
    <3>3. cred.key = "live" =>
            \/ \E q \in Routines : rt'[q].pc = "resolved"
            \/ /\ ~cred.consumed /\ cred.kind = "explicit"
               /\ \A q \in Routines : rt'[q].asked => rt'[q].pc = "new"
      BY <1>0, <2>5, <2>7, <3>2, ZenonT(60) DEF Owned
    <3> QED
      BY <1>0, <2>6, <2>9, <3>1, <3>2, <3>3, Zenon DEF Owned
  <2> QED
    BY <1>0, <1>2, <2>5, <2>6, <2>10
<1>5. CASE RefuseConfig(r)
  <2>1. PICK x : x = Idle(rt[r])
    OBVIOUS
  <2>2. /\ x \in RtRec /\ x.pc = "idle" /\ x.op = None /\ x.asked = rt[r].asked /\ Goes(r, x)
        /\ rt[r].pc = "new" /\ rt[r].asked
    BY <1>0, <1>5, <2>1, RtFacts DEF RefuseConfig, Doing
  <2>3. rt'[r] = x /\ \A q \in Routines : q # r => rt'[q] = rt[q]
    BY <1>3, <2>2, SMTT(30)
  <2>4. ~Past(x) /\ Doing(x, client)
    BY <1>0, <2>2, Zenon DEF Past, Doing
  <2>5. \A q \in Routines : Doing(rt'[q], client') /\ (Past(rt'[q]) <=> Past(rt[q]))
    BY <1>0, <1>1, <2>3, <2>4, Zenon DEF Owned
  <2>6. \A q \in Routines : /\ rt'[q].asked = rt[q].asked
                            /\ rt'[q].pc = "resolved" <=> rt[q].pc = "resolved"
                            /\ rt'[q].pc = "new" => rt[q].pc = "new"
    BY <2>2, <2>3, Zenon
  <2>7. CASE cred.kind = "explicit"
    <3>1. PICK c : c = [cred EXCEPT !.consumed = TRUE]
      BY Zenon
    <3>2. /\ c \in CredRec /\ c.consumed = TRUE /\ c.kind = "explicit" /\ c.encoded = cred.encoded
          /\ c.releases = cred.releases
      BY <1>0, <2>7, <3>1, Zenon DEF CredRec
    <3>3. cred' = Wiped(c)
      BY <1>5, <2>7, <3>1 DEF RefuseConfig
    <3>4. /\ cred' \in CredRec /\ cred'.consumed /\ cred'.kind = "explicit"
          /\ cred'.encoded = cred.encoded /\ cred'.releases = cred.releases /\ cred'.key # "live"
      BY <3>2, <3>3, CredFacts, Zenon
    <3>5. Owned'
      BY <1>0, <2>2, <2>5, <2>6, <2>7, <3>4, Zenon DEF Owned
    <3> QED
      BY <1>2, <2>2, <3>4, <3>5, Zenon
  <2>8. CASE cred.kind # "explicit"
    <3>1. UNCHANGED cred
      BY <1>5, <2>8 DEF RefuseConfig
    <3>2. Owned'
      BY <1>0, <2>5, <2>6, <2>8, <3>1, ZenonT(60) DEF Owned
    <3> QED
      BY <1>0, <1>2, <2>2, <3>1, <3>2, Zenon
  <2> QED
    BY <2>7, <2>8
<1>6. CASE Resolve(r) /\ cred.kind = "explicit" /\ cred.consumed
  <2>1. PICK x : x = Idle(rt[r])
    OBVIOUS
  <2>2. /\ x \in RtRec /\ x.pc = "idle" /\ x.op = None /\ x.asked = rt[r].asked /\ Goes(r, x)
        /\ rt[r].pc = "new" /\ UNCHANGED cred
    BY <1>0, <1>6, <2>1, RtFacts, Zenon DEF Resolve
  <2>3. rt'[r] = x /\ \A q \in Routines : q # r => rt'[q] = rt[q]
    BY <1>3, <2>2
  <2>4. ~Past(x) /\ Doing(x, client)
    BY <1>0, <2>2, Zenon DEF Past, Doing
  <2>5. \A q \in Routines : Doing(rt'[q], client') /\ (Past(rt'[q]) <=> Past(rt[q]))
    BY <1>0, <1>1, <2>3, <2>4, Zenon DEF Owned
  <2>6. \A q \in Routines : /\ rt'[q].asked = rt[q].asked
                            /\ rt'[q].pc = "resolved" <=> rt[q].pc = "resolved"
    BY <2>2, <2>3, Zenon
  <2>7. Owned'
    BY <1>0, <1>6, <2>2, <2>5, <2>6, Zenon DEF Owned
  <2> QED
    BY <1>0, <1>2, <2>2, <2>7, Zenon
<1>7. CASE Resolve(r) /\ ~(cred.kind = "explicit" /\ cred.consumed)
  <2>1. PICK x : x = To(rt[r], "resolved")
    BY SMTT(30)
  <2>2. /\ x \in RtRec /\ x.pc = "resolved" /\ x.op = rt[r].op /\ x.asked = rt[r].asked /\ Goes(r, x)
        /\ rt[r].pc = "new" /\ cred' = Consume(cred) /\ rt[r].asked
    <3>1. x \in RtRec /\ x.pc = "resolved" /\ x.op = rt[r].op /\ x.asked = rt[r].asked
      BY <1>0, <2>1, RtFacts, ZenonT(30) DEF Pcs
    <3>2. Goes(r, x) /\ rt[r].pc = "new" /\ cred' = Consume(cred)
      BY <1>7, <2>1, Zenon DEF Resolve
    <3>3. rt[r].asked
      BY <1>0, <3>2, Zenon DEF Doing
    <3> QED
      BY <3>1, <3>2, <3>3, Zenon
  <2>3. rt'[r] = x /\ \A q \in Routines : q # r => rt'[q] = rt[q]
    BY <1>3, <2>2, Zenon
  <2>4. /\ cred' \in CredRec /\ cred'.kind = cred.kind /\ cred'.consumed
        /\ cred'.encoded = cred.encoded /\ cred'.releases = cred.releases
    BY <1>0, <2>2, CredFacts, Zenon
  <2>5. /\ ~cred.consumed /\ client.made = 0 /\ cred.releases = 0 /\ ~client.ready
        /\ ~client.released /\ ~client.lost
    BY <1>0, <1>7, <2>2, Zenon DEF Owned, CredRec
  <2>6. Past(x) /\ Doing(x, client) /\ \A q \in Routines : ~Past(rt[q])
    BY <1>0, <2>2, <2>5, Zenon DEF Past, Doing, Owned
  <2>7. \A q \in Routines : Doing(rt'[q], client') /\ (Past(rt'[q]) <=> q = r)
    BY <1>0, <1>1, <2>3, <2>6, Zenon DEF Owned
  <2>8. \A q \in Routines : rt'[q].asked = rt[q].asked
    BY <2>2, <2>3, Zenon
  <2>9. cred.kind = "auto" => \A q \in Routines : rt'[q].pc # "new"
    <3>1. \A q \in Routines : rt[q].pc = "new" => rt[q].asked
      BY <1>0, Zenon DEF Owned, Doing
    <3> QED
      BY <1>0, <2>2, <2>3, <3>1, ZenonT(60) DEF Owned
  <2>10. Owned'
    <3>1. \A q \in Routines : q \notin cred'.encoded
      BY <1>0, <2>4, <2>6, Zenon DEF Owned
    <3>2. cred'.key = "live" => \E q \in Routines : rt'[q].pc = "resolved"
      BY <2>2, <2>3, Zenon
    <3>3. \E q \in Routines : rt'[q].asked
      BY <2>2, <2>3, Zenon
    <3>4. cred'.kind = "auto" =>
            /\ \A p, q \in Routines : rt'[p].asked /\ rt'[q].asked => p = q
            /\ \A q \in Routines : rt'[q].pc # "new"
      BY <1>0, <2>4, <2>8, <2>9, Zenon DEF Owned
    <3> QED
      BY <1>0, <2>4, <2>5, <2>7, <3>1, <3>2, <3>3, <3>4, ZenonT(60) DEF Owned
  <2> QED
    BY <1>2, <2>2, <2>4, <2>10
<1> QED
  BY <1>4, <1>5, <1>6, <1>7

\* NewClient with the credentials in hand: it gives up, and returns them, or it
\* encodes the config.
LEMMA TakenSteps ==
  ASSUME GuestInv, NEW r \in Routines, NotEncoded(r) \/ InstanceFails(r) \/ Encode(r)
  PROVE  GuestInv'
<1>0. /\ Typed /\ Owned /\ rt[r] \in RtRec /\ Doing(rt[r], client) /\ client \in ClientRec
      /\ cred \in CredRec /\ UNCHANGED <<mod, mem, client, call>>
      /\ client.made = 0 => ~client.ready /\ ~client.released
      /\ rt[r].pc \in {"resolved", "encoded"}
  BY DEF GuestInv, Typed, Owned, NotEncoded, InstanceFails, Encode, ClientInv
<1>1. /\ ~(call.stage # "none" /\ call.by = r) /\ Past(rt[r]) /\ rt[r].asked
      /\ \A q \in Routines : Past(rt[q]) => q = r
      /\ cred.consumed /\ cred.releases = 0 /\ ~client.ready /\ ~client.released /\ ~client.lost
      /\ client.made = 0
  BY <1>0, Zenon DEF GuestInv, CallInv, Past, Owned, Doing
<1>2. ASSUME NEW x \in RtRec, Goes(r, x), x.pc # "call", cred' \in CredRec, Owned' PROVE GuestInv'
  BY <1>0, <1>1, <1>2, AroundCall, Zenon
<1>3. ASSUME NEW x \in RtRec, Goes(r, x)
      PROVE  rt'[r] = x /\ \A q \in Routines : q # r => rt'[q] = rt[q]
  BY <1>0, <1>3, GoesFacts, SMTT(30)
<1>4. ASSUME GiveUp(r) PROVE GuestInv'
  <2>1. PICK x : x = Idle(rt[r])
    BY SMTT(30)
  <2>2. x \in RtRec /\ x.pc = "idle" /\ x.op = None /\ x.asked = rt[r].asked /\ Goes(r, x)
    BY <1>0, <1>4, <2>1, RtFacts DEF GiveUp
  <2>3. rt'[r] = x /\ \A q \in Routines : q # r => rt'[q] = rt[q]
    BY <1>3, <2>2
  <2>4. /\ cred' \in CredRec /\ cred'.kind = cred.kind /\ cred'.consumed = cred.consumed
        /\ cred'.encoded = cred.encoded \ {r} /\ cred'.key # "live"
        /\ cred'.releases = IF cred.kind = "auto" THEN 1 ELSE 0
    <3>1. PICK c : c = Wiped(cred)
      BY SMTT(30)
    <3>2. /\ c \in CredRec /\ c.kind = cred.kind /\ c.consumed = cred.consumed
          /\ c.encoded = cred.encoded /\ c.key # "live" /\ c.releases = 0
      BY <1>0, <1>1, <3>1, CredFacts, Zenon
    <3>3. PICK d : d = ReleaseCredentials(c)
      BY SMTT(30)
    <3>4. /\ d \in CredRec /\ d.kind = cred.kind /\ d.consumed = cred.consumed
          /\ d.encoded = cred.encoded /\ d.key # "live"
          /\ d.releases = IF cred.kind = "auto" THEN 1 ELSE 0
      BY <3>2, <3>3, CredFacts, SMTT(30)
    <3>5. PICK E \in SUBSET Routines : E = cred.encoded \ {r}
      BY <1>0, Zenon DEF CredRec
    <3>6. cred' = [d EXCEPT !.encoded = E]
      BY <1>4, <3>1, <3>3, <3>4, <3>5 DEF GiveUp
    <3> QED
      BY <3>4, <3>5, <3>6, EncodedFacts
  <2>5. ~Past(x) /\ Doing(x, client)
    BY <1>1, <2>2, Zenon DEF Past, Doing
  <2>6. \A q \in Routines : Doing(rt'[q], client') /\ ~Past(rt'[q])
    BY <1>0, <1>1, <2>3, <2>5, Zenon DEF Owned
  <2>7. \A q \in Routines : /\ rt'[q].asked = rt[q].asked
                            /\ rt'[q].pc = "new" => rt[q].pc = "new"
    BY <2>2, <2>3
  <2>8. \A q \in Routines : q \notin cred'.encoded
    BY <1>0, <1>1, <2>4, Zenon DEF Owned
  <2>9. Owned'
    BY <1>0, <1>1, <2>4, <2>6, <2>7, <2>8, Zenon DEF Owned
  <2> QED
    BY <1>2, <2>2, <2>4, <2>9
<1>5. CASE Encode(r)
  <2>1. PICK x : x = To(rt[r], "encoded")
    BY SMTT(30)
  <2>2. x \in RtRec /\ x.pc = "encoded" /\ x.op = rt[r].op /\ x.asked = rt[r].asked /\ Goes(r, x)
    BY <1>0, <1>5, <2>1, RtFacts DEF Encode, Pcs
  <2>3. rt'[r] = x /\ \A q \in Routines : q # r => rt'[q] = rt[q]
    BY <1>3, <2>2, SMTT(30)
  <2>4. /\ cred' \in CredRec /\ cred'.kind = cred.kind /\ cred'.consumed = cred.consumed
        /\ cred'.encoded = cred.encoded \union {r} /\ cred'.key # "live"
        /\ cred'.releases = 0
    <3>1. PICK E \in SUBSET Routines : E = cred.encoded \union {r}
      BY <1>0, Zenon DEF CredRec
    <3>2. PICK d : d = [cred EXCEPT !.encoded = E]
      BY Zenon
    <3>3. /\ d \in CredRec /\ d.kind = cred.kind /\ d.consumed = cred.consumed
          /\ d.encoded = E /\ d.releases = 0
      <4>1. cred.releases = 0 /\ cred \in CredRec
        BY <1>0, <1>1, Zenon
      <4>2. /\ d \in CredRec /\ d.kind = cred.kind /\ d.consumed = cred.consumed
            /\ d.encoded = E /\ d.releases = cred.releases
        BY <3>2, <4>1, EncodedFacts
      <4> QED
        BY <4>1, <4>2
    <3>4. cred' = Wiped(d)
      BY <1>5, <3>1, <3>2 DEF Encode
    <3> QED
      BY <3>1, <3>3, <3>4, CredFacts, SMTT(30)
  <2>5. Past(x) /\ Doing(x, client)
    BY <1>1, <2>2, Zenon DEF Past, Doing
  <2>6. \A q \in Routines : Doing(rt'[q], client') /\ (Past(rt'[q]) => q = r)
    BY <1>0, <1>1, <2>3, <2>5, Zenon DEF Owned
  <2>7. \A q \in Routines : /\ rt'[q].asked = rt[q].asked
                            /\ rt'[q].pc = "new" => rt[q].pc = "new"
    BY <2>2, <2>3, Zenon
  <2>8. \A q \in Routines : q \in cred'.encoded => Past(rt'[q]) /\ rt'[q].pc # "resolved"
    BY <1>0, <1>1, <2>2, <2>3, <2>4, <2>5, Zenon DEF Owned
  <2>9. Owned'
    BY <1>0, <1>1, <2>4, <2>6, <2>7, <2>8, Zenon DEF Owned
  <2> QED
    BY <1>2, <2>2, <2>4, <2>9
<1> QED
  BY <1>4, <1>5, SMTT(30) DEF NotEncoded, InstanceFails

\* The client exists.
LEMMA InstantiateStep ==
  ASSUME GuestInv, NEW r \in Routines, Instantiate(r)
  PROVE  GuestInv'
<1>0. /\ Typed /\ CallInv(call, rt) /\ ClientInv(client, mem, mod, call) /\ Owned
      /\ rt[r] \in RtRec /\ client \in ClientRec /\ Doing(rt[r], client)
      /\ rt[r].pc = "encoded" /\ UNCHANGED <<call, cred>>
  BY DEF GuestInv, Typed, Owned, Instantiate
<1>1. /\ Past(rt[r]) /\ rt[r].asked /\ client.made = 0 /\ ~client.closed /\ ~client.lost /\ ~client.ready
      /\ ~client.released /\ cred.consumed /\ cred.releases = 0
      /\ \A q \in Routines : Past(rt[q]) => q = r
  BY <1>0, ZenonT(60) DEF Owned, Doing, Past, ClientInv
<1>2. call.stage = "none"
  <2>1. ASSUME NEW q \in Routines PROVE rt[q].pc # "call"
    <3>1. Doing(rt[q], client)
      BY <1>0, Zenon DEF Owned
    <3> QED
      BY <1>1, <3>1 DEF Doing
  <2> QED
    BY <1>0, <2>1, Zenon DEF CallInv
<1>3. PICK x : x = [To(rt[r], "call") EXCEPT !.op = "init"]
  BY Zenon
<1>4. x \in RtRec /\ x.pc = "call" /\ x.op = "init" /\ x.asked = rt[r].asked /\ Goes(r, x)
  <2>1. PICK y : y = To(rt[r], "call")
    OBVIOUS
  <2>2. y \in RtRec /\ y.pc = "call" /\ y.asked = rt[r].asked
    BY <1>0, <2>1, RtFacts, ZenonT(30) DEF Pcs
  <2>3. x = [y EXCEPT !.op = "init"] /\ "init" \in Ops
    BY <1>3, <2>1 DEF Ops
  <2>4. x \in RtRec /\ x.pc = "call" /\ x.op = "init" /\ x.asked = rt[r].asked
    BY <2>2, <2>3, SMTT(30) DEF RtRec
  <2> QED
    BY <1>3, <2>4 DEF Instantiate
<1>5. /\ rt' \in [Routines -> RtRec] /\ rt'[r] = x
      /\ \A q \in Routines : q # r => rt'[q] = rt[q]
  BY <1>0, <1>4, GoesFacts, Zenon
<1>6. /\ client' \in ClientRec /\ client'.made = 1 /\ client'.ready = client.ready
      /\ client'.closed = client.closed /\ client'.released = client.released
      /\ client'.lost = client.lost
  BY <1>0, <1>1 DEF Instantiate, ClientRec
<1>7. /\ mod' \in ModRec /\ mod'.closed = FALSE /\ mod'.held = TRUE
      /\ mem' \in MemRec /\ mem'.inFlight = 0 /\ mem'.pending = FALSE /\ mem'.freed = FALSE
  BY DEF Instantiate, ModRec, MemRec
<1>8. Past(x) /\ Doing(x, client')
  BY <1>1, <1>4, <1>6, GuestHostAssumption, Zenon DEF Past, Doing
<1>9. \A q \in Routines : Doing(rt'[q], client') /\ (Past(rt'[q]) => q = r)
  <2>1. ASSUME NEW q \in Routines, q # r PROVE Doing(rt'[q], client') /\ ~Past(rt'[q])
    <3>1. Doing(rt[q], client) /\ ~Past(rt[q]) /\ rt'[q] = rt[q]
      BY <1>0, <1>1, <1>5, <2>1, Zenon DEF Owned
    <3> QED
      BY <1>1, <1>6, <3>1, ZenonT(60) DEF Doing, Past
  <2> QED
    BY <1>5, <1>8, <2>1
<1>10. \A q \in Routines : /\ rt'[q].asked = rt[q].asked
                           /\ rt'[q].pc = "new" => rt[q].pc = "new"
                           /\ rt[q].pc = "resolved" => rt'[q].pc = "resolved"
                           /\ q \in cred.encoded => Past(rt'[q]) /\ rt'[q].pc # "resolved"
  BY <1>0, <1>1, <1>4, <1>5, <1>8, Zenon DEF Owned
<1>11. Owned'
  BY <1>0, <1>1, <1>6, <1>9, <1>10, ZenonT(60) DEF Owned
<1>12. Typed' /\ CallInv(call, rt)' /\ Fresh'
  BY <1>0, <1>1, <1>2, <1>5, <1>6, <1>7, Zenon DEF Typed, CallInv, Fresh, Inner
<1>13. MemInv(mem, mod, call)' /\ ClientInv(client, mem, mod, call)'
  <2>1. call'.stage = "none" /\ ~client'.closed /\ ~client'.lost /\ client'.made = 1
    BY <1>0, <1>1, <1>2, <1>6, Zenon DEF ClientInv
  <2>2. MemInv(mem, mod, call)'
    BY <1>7, <2>1 DEF MemInv
  <2>3. ClientInv(client, mem, mod, call)'
    BY <1>7, <2>1 DEF ClientInv
  <2> QED
    BY <2>2, <2>3, Zenon
<1> QED
  BY <1>11, <1>12, <1>13 DEF GuestInv

\* NewClient returns the client.
LEMMA MadeStep ==
  ASSUME GuestInv, NEW r \in Routines, Made(r)
  PROVE  GuestInv'
<1>0. /\ Typed /\ Owned /\ rt[r] \in RtRec /\ Doing(rt[r], client) /\ client \in ClientRec
      /\ cred \in CredRec /\ UNCHANGED <<mod, mem, call>> /\ rt[r].pc = "made"
  BY DEF GuestInv, Typed, Owned, Made
<1>1. /\ ~(call.stage # "none" /\ call.by = r) /\ Past(rt[r]) /\ rt[r].asked
      /\ \A q \in Routines : Past(rt[q]) => q = r
      /\ cred.consumed /\ cred.releases = 0 /\ ~client.released /\ ~client.lost /\ client.made = 1
  BY <1>0, ZenonT(60) DEF GuestInv, CallInv, Past, Owned, Doing
<1>2. PICK x : x = Idle(rt[r])
  OBVIOUS
<1>3. x \in RtRec /\ x.pc = "idle" /\ x.op = None /\ x.asked = rt[r].asked /\ Goes(r, x)
  BY <1>0, <1>2, RtFacts, SMTT(30) DEF Made
<1>4. rt'[r] = x /\ \A q \in Routines : q # r => rt'[q] = rt[q]
  BY <1>0, <1>3, GoesFacts
<1>5. /\ client' \in ClientRec /\ client'.ready = TRUE /\ client'.made = client.made
      /\ client'.closed = client.closed /\ client'.released = client.released
      /\ client'.lost = client.lost
  BY <1>0, Zenon DEF Made, ClientRec
<1>6. /\ cred' \in CredRec /\ cred'.kind = cred.kind /\ cred'.consumed = cred.consumed
      /\ cred'.encoded = cred.encoded \ {r} /\ cred'.key = cred.key
      /\ cred'.releases = cred.releases
  <2>1. PICK E \in SUBSET Routines : E = cred.encoded \ {r}
    BY <1>0, Zenon DEF CredRec
  <2>2. cred' = [cred EXCEPT !.encoded = E] /\ cred \in CredRec
    BY <1>0, <2>1 DEF Made
  <2>3. /\ cred' \in CredRec /\ cred'.kind = cred.kind /\ cred'.consumed = cred.consumed
        /\ cred'.encoded = E /\ cred'.key = cred.key /\ cred'.releases = cred.releases
    BY <2>2, EncodedFacts
  <2> QED
    BY <2>1, <2>3, SMTT(30)
<1>7. \A q \in Routines : Doing(rt'[q], client') /\ ~Past(rt'[q])
  <2>1. ASSUME NEW q \in Routines, q # r PROVE Doing(rt'[q], client') /\ ~Past(rt'[q])
    <3>1. Doing(rt[q], client) /\ ~Past(rt[q]) /\ rt'[q] = rt[q]
      BY <1>0, <1>1, <1>4, <2>1, Zenon DEF Owned
    <3> QED
      BY <1>1, <1>5, <3>1, Zenon DEF Doing
  <2>2. Doing(x, client') /\ ~Past(x)
    BY <1>1, <1>3, <1>5, Zenon DEF Doing, Past
  <2> QED
    BY <1>4, <2>1, <2>2
<1>8. \A q \in Routines : /\ rt'[q].asked = rt[q].asked
                          /\ rt'[q].pc = "new" => rt[q].pc = "new"
                          /\ rt[q].pc # "resolved"
                          /\ q \notin cred'.encoded
  BY <1>0, <1>1, <1>3, <1>4, <1>6, Zenon DEF Owned, Past
<1>9. cred.key # "live"
  BY <1>0, <1>1, <1>8, Zenon DEF Owned
<1>10. Owned'
  BY <1>0, <1>1, <1>5, <1>6, <1>7, <1>8, <1>9, ZenonT(60) DEF Owned
<1>11. /\ call.stage # "none" /\ call.by = r => x.pc = "call" /\ x.op = rt[r].op
       /\ client'.made = 0 => ~client'.ready /\ ~client'.released
       /\ x.pc = "call" /\ x.op = "init" => rt[r].pc = "call" /\ rt[r].op = "init"
  BY <1>1, <1>3, <1>5
<1> QED
  BY <1>0, <1>3, <1>5, <1>6, <1>10, <1>11, AroundCall, Zenon

\* A goroutine releases the instance, and with it the credentials that came
\* with the client, and is done: Abandon, and Close the first time.
LEMMA EndStep ==
  ASSUME GuestInv, NEW r \in Routines, call.stage = "none", UNCHANGED call,
         ReleaseInstance, Goes(r, Idle(rt[r])),
         client' = [client EXCEPT !.released = TRUE, !.closed = TRUE],
         client.made = 1, ~client.released, ~client.lost, cred.consumed, cred.releases = 0,
         \A q \in Routines : Past(rt[q]) => q = r,
         rt[r].pc \notin {"new", "resolved"},
         cred' \in CredRec, cred'.kind = cred.kind, cred'.consumed = cred.consumed,
         cred'.key = cred.key, cred'.releases = IF cred.kind = "auto" THEN 1 ELSE 0,
         cred'.encoded \subseteq cred.encoded \ {r}
  PROVE  GuestInv'
<1>0. /\ Typed /\ CallInv(call, rt) /\ ClientInv(client, mem, mod, call) /\ Owned
      /\ rt[r] \in RtRec /\ client \in ClientRec /\ Doing(rt[r], client)
  BY SMTT(30) DEF GuestInv, Typed, Owned
<1>1. /\ mod' = Closed /\ mod' \in ModRec /\ mod'.closed /\ ~mod'.held
      /\ mem' \in MemRec /\ mem'.freed /\ ~mem'.pending /\ mem'.inFlight = 0
  BY InstanceReleased
<1>2. PICK x : x = Idle(rt[r])
  OBVIOUS
<1>3. x \in RtRec /\ x.pc = "idle" /\ x.op = None /\ x.asked = rt[r].asked /\ Goes(r, x)
  BY <1>0, <1>2, RtFacts
<1>4. /\ rt' \in [Routines -> RtRec] /\ rt'[r] = x
      /\ \A q \in Routines : q # r => rt'[q] = rt[q]
  BY <1>0, <1>3, GoesFacts
<1>5. /\ client' \in ClientRec /\ client'.ready = client.ready /\ client'.made = client.made
      /\ client'.closed = TRUE /\ client'.released = TRUE /\ client'.lost = client.lost
  BY <1>0, Zenon DEF ClientRec
<1>6. \A q \in Routines : Doing(rt'[q], client') /\ ~Past(rt'[q])
  <2>1. ASSUME NEW q \in Routines, q # r PROVE Doing(rt'[q], client') /\ ~Past(rt'[q])
    <3>1. Doing(rt[q], client) /\ ~Past(rt[q]) /\ rt'[q] = rt[q]
      BY <1>0, <1>4, <2>1 DEF Owned
    <3> QED
      BY <1>5, <3>1 DEF Doing
  <2>2. Doing(x, client') /\ ~Past(x)
    BY <1>3, <1>5, SMTT(30) DEF Doing, Past
  <2> QED
    BY <1>4, <2>1, <2>2
<1>7. \A q \in Routines : /\ rt'[q].asked = rt[q].asked
                          /\ rt'[q].pc = "new" => rt[q].pc = "new"
                          /\ rt[q].pc # "resolved"
                          /\ q \notin cred'.encoded
  BY <1>0, <1>3, <1>4 DEF Owned, Past
<1>8. cred.key # "live"
  BY <1>0, <1>7, SMTT(30) DEF Owned
<1>9. Owned'
  BY <1>0, <1>5, <1>6, <1>7, <1>8 DEF Owned
<1>10. Typed' /\ CallInv(call, rt)'
  BY <1>0, <1>1, <1>4, <1>5 DEF Typed, CallInv, Inner
<1>11. MemInv(mem, mod, call)' /\ ClientInv(client, mem, mod, call)'
  BY <1>0, <1>1, <1>5 DEF MemInv, ClientInv, MemRec
<1>12. Fresh'
  BY <1>6 DEF Fresh, Past
<1> QED
  BY <1>9, <1>10, <1>11, <1>12 DEF GuestInv

\* A client that could not be initialised is abandoned.
LEMMA AbandonStep ==
  ASSUME GuestInv, NEW r \in Routines, Abandon(r)
  PROVE  GuestInv'
<1>0. /\ Owned /\ Doing(rt[r], client) /\ cred \in CredRec /\ rt[r].pc = "abandon"
  BY DEF GuestInv, Typed, Owned, Abandon
<1>1. /\ Past(rt[r]) /\ \A q \in Routines : Past(rt[q]) => q = r
      /\ cred.consumed /\ cred.releases = 0 /\ ~client.released /\ ~client.lost /\ client.made = 1
  BY <1>0, ZenonT(60) DEF Past, Owned, Doing
<1>2. PICK d : d = ReleaseCredentials(cred)
  BY SMTT(30)
<1>3. /\ d \in CredRec /\ d.kind = cred.kind /\ d.consumed = cred.consumed
      /\ d.encoded = cred.encoded /\ d.key = cred.key
      /\ d.releases = IF cred.kind = "auto" THEN 1 ELSE 0
  BY <1>0, <1>1, <1>2, CredFacts, Zenon
<1>4. PICK E \in SUBSET Routines : E = cred.encoded \ {r}
  BY <1>0, Zenon DEF CredRec
<1>5. cred' = [d EXCEPT !.encoded = E]
  BY <1>2, <1>3, <1>4 DEF Abandon
<1>6. /\ cred' \in CredRec /\ cred'.kind = d.kind /\ cred'.consumed = d.consumed
      /\ cred'.encoded = E /\ cred'.key = d.key /\ cred'.releases = d.releases
  BY <1>3, <1>5, EncodedFacts
<1>7. /\ cred'.kind = cred.kind /\ cred'.consumed = cred.consumed /\ cred'.key = cred.key
      /\ cred'.releases = (IF cred.kind = "auto" THEN 1 ELSE 0)
      /\ cred'.encoded \subseteq cred.encoded \ {r}
  BY <1>3, <1>4, <1>6
<1> QED
  BY <1>0, <1>1, <1>6, <1>7, EndStep, Zenon DEF Abandon

\* Close, on a client that is open or already released.
LEMMA CloseStep ==
  ASSUME GuestInv, NEW r \in Routines, Close(r)
  PROVE  GuestInv'
<1>0. /\ Typed /\ Owned /\ Doing(rt[r], client) /\ cred \in CredRec /\ rt[r].pc = "close"
      /\ rt[r] \in RtRec /\ client \in ClientRec
  BY ZenonT(30) DEF GuestInv, Typed, Owned, Close
<1>1. /\ \A q \in Routines : ~Past(rt[q])
      /\ client.ready /\ client.made = 1 /\ ~client.lost /\ r \notin cred.encoded /\ cred.consumed
  <2>1. client.ready /\ client.made = 1 /\ ~client.lost
    BY <1>0, Zenon DEF Doing
  <2>2. (\A q \in Routines : ~Past(rt[q])) /\ (~cred.consumed => client.made = 0)
    BY <1>0, <2>1, Zenon DEF Owned
  <2>3. r \notin cred.encoded
    BY <1>0, <2>2, Zenon DEF Owned
  <2> QED
    BY <2>1, <2>2, <2>3
<1>2. CASE client.released
  <2>1. PICK x : x = Idle(rt[r])
    OBVIOUS
  <2>2. /\ x \in RtRec /\ x.pc = "idle" /\ x.op = None /\ x.asked = rt[r].asked /\ Goes(r, x)
        /\ UNCHANGED <<mod, mem, client, cred, call>> /\ SameOwner
    BY <1>0, <1>2, <2>1, RtFacts, ZenonT(30) DEF Close, CloseNow, SameOwner
  <2>3. Doing(x, client) /\ ~Past(x)
    BY <2>2, <1>1, Zenon DEF Doing, Past
  <2>4. Owned'
    BY <1>0, <1>1, <2>2, <2>3, OneMoves, Zenon
  <2>5. ~(call.stage # "none" /\ call.by = r)
    BY <1>0, Zenon DEF GuestInv, CallInv
  <2>6. client'.made = 0 => ~client'.ready /\ ~client'.released
    BY <1>1, <2>2
  <2> QED
    BY <1>0, <2>2, <2>4, <2>5, <2>6, AroundCall, Zenon
<1>3. CASE ~client.released
  <2>1. cred.releases = 0
    BY <1>0, <1>1, <1>3, Zenon DEF Owned
  <2>2. cred' = ReleaseCredentials(cred)
    BY <1>3, SMTT(30) DEF Close, CloseNow
  <2>3. /\ cred' \in CredRec /\ cred'.kind = cred.kind /\ cred'.consumed = cred.consumed
        /\ cred'.encoded = cred.encoded /\ cred'.key = cred.key
        /\ cred'.releases = IF cred.kind = "auto" THEN 1 ELSE 0
    BY <1>0, <2>1, <2>2, CredFacts, Zenon
  <2>4. cred'.encoded \subseteq cred.encoded \ {r}
    BY <1>1, <2>3, Zenon
  <2> QED
    BY <1>0, <1>1, <1>3, <2>1, <2>3, <2>4, EndStep DEF Close, CloseNow
<1> QED
  BY <1>2, <1>3

\* A client that is dropped is cleaned up once, and by then nobody is using it.
LEMMA CleanupStep ==
  ASSUME GuestInv, Cleanup
  PROVE  GuestInv'
<1>0. /\ Typed /\ CallInv(call, rt) /\ ClientInv(client, mem, mod, call) /\ Owned
      /\ client \in ClientRec /\ client.ready /\ client.made = 1 /\ UNCHANGED <<call, cred, rt>>
      /\ \A q \in Routines : rt[q].pc = "idle"
  BY SMTT(30) DEF GuestInv, Typed, Owned, Cleanup
<1>1. call.stage = "none"
  BY <1>0 DEF CallInv
<1>2. /\ mod' = Closed /\ mod' \in ModRec /\ mod'.closed /\ ~mod'.held
      /\ mem' \in MemRec /\ mem'.freed /\ ~mem'.pending /\ mem'.inFlight = 0
  BY <1>0, <1>1, InstanceReleased DEF Cleanup
<1>3. /\ client' \in ClientRec /\ client'.ready = client.ready /\ client'.made = client.made
      /\ client'.closed = client.closed /\ client'.released = client.released
      /\ client'.lost = TRUE
  BY <1>0, Zenon DEF Cleanup, ClientRec
<1>4. \A q \in Routines : Doing(rt[q], client')
  BY <1>0, <1>3, Zenon DEF Owned, Doing, Past
<1>5. Owned'
  BY <1>0, <1>3, <1>4, Zenon DEF Owned
<1>6. Typed' /\ CallInv(call, rt)'
  BY <1>0, <1>1, <1>2, <1>3, Zenon DEF Typed, CallInv, Inner
<1>7. MemInv(mem, mod, call)' /\ ClientInv(client, mem, mod, call)' /\ Fresh'
  BY <1>0, <1>1, <1>2, <1>3, Zenon DEF MemInv, ClientInv, Fresh
<1> QED
  BY <1>5, <1>6, <1>7 DEF GuestInv

-----------------------------------------------------------------------------
(* The invariant.                                                          *)

\* There is no client yet.
LEMMA InitGuest == Init => GuestInv
<1> SUFFICES ASSUME Init PROVE GuestInv
  BY SMTT(30)
<1>1. /\ mem \in MemRec /\ mem.inFlight = 0 /\ mem.pending = FALSE /\ mem.freed = FALSE
      /\ mod \in ModRec /\ mod.closed = FALSE
  BY SMTT(30) DEF Init, MemRec, ModRec
<1>2. /\ client \in ClientRec /\ client.ready = FALSE /\ client.made = 0 /\ client.closed = FALSE
      /\ client.released = FALSE /\ client.lost = FALSE
  BY SMTT(30) DEF Init, ClientRec
<1>3. /\ cred \in CredRec /\ cred.consumed = FALSE /\ cred.encoded = {} /\ cred.releases = 0
      /\ cred.key = "live" => cred.kind = "explicit"
  <2>1. /\ cred \in [kind : Kinds, consumed : {FALSE}, key : {"live", "none"}, encoded : {{}}, releases : {0}]
        /\ cred.key = "live" <=> cred.kind = "explicit"
    BY Zenon DEF Init
  <2>2. /\ cred.kind \in Kinds /\ cred.consumed = FALSE /\ cred.key \in {"live", "none"}
        /\ cred.encoded = {} /\ cred.releases = 0
    BY <2>1, Zenon
  <2>3. cred = [kind |-> cred.kind, consumed |-> FALSE, key |-> cred.key, encoded |-> {}, releases |-> 0]
    BY <2>1, Zenon
  <2>4. cred.kind \in {"explicit", "auto"}
    BY <2>2, GuestHostAssumption, Zenon
  <2>5. cred \in CredRec
    <3>1. PICK k \in {"explicit", "auto"}, y \in {"live", "none"} :
            cred = [kind |-> k, consumed |-> FALSE, key |-> y, encoded |-> {}, releases |-> 0]
      BY <2>2, <2>3, <2>4, Zenon
    <3> QED
      BY <3>1 DEF CredRec
  <2> QED
    BY <2>1, <2>2, <2>5, SMTT(30)
<1>4. /\ rt \in [Routines -> RtRec]
      /\ \A r \in Routines : rt[r].pc = "idle" /\ rt[r].op = None /\ rt[r].asked = FALSE
  BY Zenon DEF Init, RtRec, Pcs, Ops
<1>5. call = NoCall
  BY Zenon DEF Init
<1>6. Typed /\ CallInv(call, rt)
  BY <1>1, <1>2, <1>3, <1>4, <1>5, NoCallFacts, Zenon DEF Typed, CallInv, Stages, Inner
<1>7. MemInv(mem, mod, call) /\ ClientInv(client, mem, mod, call) /\ Fresh
  BY <1>1, <1>2, <1>5, NoCallFacts, SMTT(30) DEF MemInv, ClientInv, Fresh
<1>8. \A r \in Routines : Doing(rt[r], client) /\ ~Past(rt[r])
  BY <1>2, <1>4 DEF Doing, Past
<1>9. Owned
  BY <1>2, <1>3, <1>4, <1>8, Zenon DEF Owned
<1> QED
  BY <1>6, <1>7, <1>9 DEF GuestInv

\* Nothing changes.
LEMMA StutterGuest == GuestInv /\ UNCHANGED vars => GuestInv'
<1> SUFFICES ASSUME GuestInv, UNCHANGED vars PROVE GuestInv'
  OBVIOUS
<1>1. UNCHANGED <<mod, mem, client, call, cred, rt>>
  BY DEF vars
<1>2. Owned'
  BY <1>1, SameFacts, SameOwned
<1> QED
  BY <1>1, <1>2, Zenon DEF GuestInv, Typed, CallInv, MemInv, ClientInv, Fresh

\* Every step keeps the invariant.
LEMMA GuestStep == GuestInv /\ [Next]_vars => GuestInv'
<1> SUFFICES ASSUME GuestInv, [Next]_vars PROVE GuestInv'
  BY SMTT(30)
<1>1. ASSUME NEW r \in Routines,
             \/ New(r) \/ RefuseConfig(r) \/ Resolve(r) \/ NotEncoded(r) \/ Encode(r)
             \/ InstanceFails(r) \/ Instantiate(r) \/ Abandon(r) \/ Made(r)
             \/ \E u \in Uses : Use(r, u[1], u[2])
             \/ Lock(r) \/ Cancel(r) \/ Finish(r) \/ Close(r)
      PROVE  GuestInv'
  <2>1. CASE New(r) \/ RefuseConfig(r) \/ Resolve(r)
    BY <2>1, MakingSteps
  <2>2. CASE NotEncoded(r) \/ InstanceFails(r) \/ Encode(r)
    BY <2>2, TakenSteps
  <2>3. CASE Instantiate(r)
    BY <2>3, InstantiateStep
  <2>4. CASE Abandon(r)
    BY <2>4, AbandonStep
  <2>5. CASE Made(r)
    BY <2>5, MadeStep
  <2>6. CASE Cancel(r) \/ Finish(r) \/ \E u \in Uses : Use(r, u[1], u[2])
    BY <2>6, PlainSteps
  <2>7. CASE Lock(r)
    BY <2>7, LockStep
  <2>8. CASE Close(r)
    BY <2>8, CloseStep
  <2> QED
    BY <1>1, <2>1, <2>2, <2>3, <2>4, <2>5, <2>6, <2>7, <2>8
<1>2. CASE Stage \/ StageRefused \/ Barred \/ Run
  BY <1>2, StagingSteps
<1>3. CASE Export \/ GotToken \/ Sent \/ Abort \/ Unwind
  BY <1>3, ExportSteps
<1>4. CASE \/ TokenGet \/ TokenFails \/ PlaceToken \/ PlaceHeaders \/ PlaceBody
           \/ \E answer : Perform(answer)
  BY <1>4, ImportSteps
<1>5. CASE Watch
  BY <1>5, WatchStep
<1>6. CASE Leave
  BY <1>6, LeaveStep
<1>7. CASE Judge
  BY <1>7, JudgeStep
<1>8. CASE Cleanup
  BY <1>8, CleanupStep
<1>9. CASE UNCHANGED vars
  BY <1>9, StutterGuest
<1> QED
  BY <1>1, <1>2, <1>3, <1>4, <1>5, <1>6, <1>7, <1>8, <1>9, SMTT(30) DEF Next, RequestFails

\* The invariant holds throughout.
LEMMA GuestInvariant == Spec => []GuestInv
BY InitGuest, GuestStep, PTL DEF Spec

\* The guest's memory is mapped for as long as a guest runs or waits in it, and
\* is gone when its client has been closed: whichever of Close, the cleanup, a
\* context that ended and a trap closed it, and with the runtime's watcher at
\* work on its own goroutine (Allocator, Client.call).
THEOREM MemoryIsAccounted == Spec => []MemoryAccounted
<1>1. GuestInv => MemoryAccounted
  <2> SUFFICES ASSUME GuestInv PROVE MemoryAccounted
    BY SMTT(30)
  <2>0. /\ Typed /\ CallInv(call, rt) /\ MemInv(mem, mod, call)
        /\ ClientInv(client, mem, mod, call) /\ mem \in MemRec /\ cred \in CredRec
    BY DEF GuestInv, Typed
  <2>1. TypeOK
    <3>1. mem.inFlight \in 0..1 /\ cred.key \in {"none", "live", "wiped"} /\ cred.encoded \subseteq Routines
      BY <2>0, SMTT(30) DEF MemRec, CredRec
    <3>2. mem.inFlight = 1 <=> call.stage \notin {"none", "out"}
      BY <2>0, Zenon DEF MemInv
    <3>3. mem.pending => mem.inFlight = 1
      BY <2>0, Zenon DEF MemInv
    <3>4. call.stage # "none" => rt[call.by].pc = "call"
      BY <2>0, Zenon DEF CallInv
    <3> QED
      BY <3>1, <3>2, <3>3, <3>4 DEF TypeOK
  <2>2. MappedUnderGuest
    BY <2>0, Zenon DEF MappedUnderGuest, InGuest, MemInv
  <2>3. ClosedHoldsNothing
    BY <2>0 DEF ClosedHoldsNothing, ClientInv
  <2> QED
    BY <2>1, <2>2, <2>3 DEF MemoryAccounted
<1> QED
  BY <1>1, GuestInvariant, PTL

\* Credentials make one client and are released once, by NewClient until the
\* client exists and by the client from then on; and once every NewClient has
\* returned neither the key nor an encoded config is left (NewClient, Close).
THEOREM SecretsAreOwned == Spec => []SecretsOwned
<1>1. GuestInv => SecretsOwned
  <2> SUFFICES ASSUME GuestInv PROVE SecretsOwned
    OBVIOUS
  <2>0. Owned /\ client \in ClientRec /\ cred \in CredRec
    BY SMTT(30) DEF GuestInv, Typed
  <2>1. OneOwner
    <3>1. client.made \in 0..1 /\ cred.releases \in 0..1
      BY <2>0, SMTT(30) DEF ClientRec, CredRec
    <3> QED
      <4>1. client.released /\ cred.kind = "auto" => cred.releases = 1
        BY <2>0, Zenon DEF Owned
      <4> QED
        BY <3>1, <4>1 DEF OneOwner
  <2>2. KeyConsumed
    <3> SUFFICES ASSUME NEW q \in Routines, rt[q].asked, \A r \in Routines : ~InNewClient(r)
                 PROVE  cred.key # "live" /\ cred.encoded = {}
      BY SMTT(30) DEF KeyConsumed
    <3>1. \A r \in Routines : ~Past(rt[r]) /\ rt[r].pc # "new"
      BY DEF InNewClient, Past
    <3>2. cred.key # "live"
      BY <2>0, <3>1, Zenon DEF Owned, Past
    <3>3. cred.encoded = {}
      BY <2>0, <3>1, Zenon DEF Owned, CredRec
    <3> QED
      BY <3>2, <3>3, Zenon
  <2> QED
    BY <2>1, <2>2, SMTT(30) DEF SecretsOwned
<1> QED
  BY <1>1, GuestInvariant, PTL

-----------------------------------------------------------------------------
(* What a call is told.                                                    *)

GuestFields == {"bufs", "empties", "last", "cipher", "shutDown", "work"}

\* The error behind a status is that of the call which is being answered: there is
\* none while the export runs, and an export that fails leaves one of its own.  The
\* token source's error is this call's.
Telling(g, c, k) ==
  /\ c.stage # "none" => k.tokenErr \in {None, k.calls}
  /\ c.stage \in Inner \cup {"stage"} => c.err = {}
  /\ c.stage \in Inner \ {"export"} => g.last = NoError
  /\ c.stage = "left" => \A s \in c.err \cap Status : g.last.status = s /\ g.last.call = k.calls
  /\ c.stage = "out" =>
       /\ c.diag # NoError => c.diag.call = k.calls /\ c.diag.status \in c.err
       /\ c.err \cap Status # {} /\ "trap" \notin c.err => c.diag # NoError

ToldErrors ==
  /\ told.diag # NoError => told.diag.call = told.call /\ told.diag.status \in told.err
  /\ told.token \in {None, told.call}
  /\ told.err \cap Status # {} /\ "trap" \notin told.err => told.diag # NoError

TellInv ==
  /\ DOMAIN guest = GuestFields
  /\ Telling(guest, call, client)
  /\ ToldErrors

\* The guest's state, before it has run.
LEMMA NoGuestFields == DOMAIN NoGuest = GuestFields
BY SMTT(30) DEF NoGuest, GuestFields

\* Reclaiming a buffer, registering one and freeing those of a call leave the error
\* alone.
LEMMA ReclaimKeeps ==
  ASSUME NEW g, DOMAIN g = GuestFields, NEW b
  PROVE  /\ DOMAIN Reclaim(g, b).guest = GuestFields /\ Reclaim(g, b).guest.last = g.last
         /\ Reclaim(g, b).guest.work = g.work
<1>1. PICK h : h = Reclaim(g, b).guest
  OBVIOUS
<1>2. \/ h = g
      \/ \E n : h = [g EXCEPT !.empties = n]
      \/ \E f : h = [g EXCEPT !.bufs = f]
  BY <1>1, Zenon DEF Reclaim
<1>3. DOMAIN h = GuestFields /\ h.last = g.last /\ h.work = g.work
  BY <1>2 DEF GuestFields
<1> QED
  BY <1>1, <1>3, Zenon

\* Registering a buffer leaves the error and the copies alone.
LEMMA RegisterKeeps ==
  ASSUME NEW g, DOMAIN g = GuestFields, NEW n, NEW what
  PROVE  /\ DOMAIN Register(g, n, what).guest = GuestFields
         /\ Register(g, n, what).guest.last = g.last /\ Register(g, n, what).guest.work = g.work
<1>1. PICK h : h = Register(g, n, what).guest
  OBVIOUS
<1>2. (\E m : h = [g EXCEPT !.empties = m]) \/ (\E f : h = [g EXCEPT !.bufs = f])
  BY <1>1, Zenon DEF Register
<1>3. DOMAIN h = GuestFields /\ h.last = g.last /\ h.work = g.work
  BY <1>2 DEF GuestFields
<1> QED
  BY <1>1, <1>3, Zenon

\* So does taking one that was placed.
LEMMA TakeKeeps ==
  ASSUME NEW g, DOMAIN g = GuestFields, NEW b
  PROVE  /\ DOMAIN Take(g, b).guest = GuestFields /\ Take(g, b).guest.last = g.last
         /\ Take(g, b).guest.work = g.work
<1>1. CASE b = Null
  BY <1>1 DEF Take
<1>2. CASE b # Null
  <2>1. Take(g, b) = Reclaim(g, b)
    BY <1>2, Zenon DEF Take
  <2>2. /\ DOMAIN Reclaim(g, b).guest = GuestFields /\ Reclaim(g, b).guest.last = g.last
        /\ Reclaim(g, b).guest.work = g.work
    BY ReclaimKeeps
  <2> QED
    BY <2>1, <2>2
<1> QED
  BY <1>1, <1>2

\* And so does freeing those of a call.
LEMMA FreeAllKeeps ==
  ASSUME NEW g, DOMAIN g = GuestFields, NEW bs
  PROVE  /\ DOMAIN FreeAll(g, bs) = GuestFields /\ FreeAll(g, bs).last = g.last
         /\ FreeAll(g, bs).work = g.work
<1>1. PICK h : h = FreeAll(g, bs)
  OBVIOUS
<1>2. PICK f, n : h = [g EXCEPT !.bufs = f, !.empties = n]
  BY <1>1, Zenon DEF FreeAll
<1>3. DOMAIN h = GuestFields /\ h.last = g.last /\ h.work = g.work
  BY <1>2 DEF GuestFields
<1> QED
  BY <1>1, <1>3, Zenon

\* The error is cleared as an export begins, and as one succeeds.
LEMMA ClearKeeps ==
  ASSUME NEW g, DOMAIN g = GuestFields
  PROVE  DOMAIN Clear(g) = GuestFields /\ Clear(g).last = NoError /\ Clear(g).work = g.work
<1>1. CASE g.last = NoError
  BY <1>1, Zenon DEF Clear
<1>2. CASE g.last # NoError
  <2>1. PICK h : h = Reclaim(g, g.last.buf).guest
    OBVIOUS
  <2>2. DOMAIN h = GuestFields /\ h.work = g.work
    BY <2>1, ReclaimKeeps, Zenon
  <2>3. Clear(g) = [h EXCEPT !.last = NoError]
    BY <1>2, <2>1, Zenon DEF Clear, Dealloc
  <2>4. DOMAIN [h EXCEPT !.last = NoError] = GuestFields /\ [h EXCEPT !.last = NoError].last = NoError
        /\ [h EXCEPT !.last = NoError].work = h.work
    BY <2>2 DEF GuestFields
  <2> QED
    BY <2>2, <2>3, <2>4, Zenon
<1> QED
  BY <1>1, <1>2

\* A body that returns leaves no error.
LEMMA DoneKeeps ==
  ASSUME NEW g, DOMAIN g = GuestFields
  PROVE  DOMAIN Done(g) = GuestFields /\ Done(g).last = NoError /\ Done(g).work = {}
<1>1. PICK h : h = Clear(g)
  OBVIOUS
<1>2. DOMAIN h = GuestFields /\ h.last = NoError
  BY <1>1, ClearKeeps, Zenon
<1>3. Done(g) = [h EXCEPT !.work = {}]
  BY <1>1, Zenon DEF Done
<1>4. /\ DOMAIN [h EXCEPT !.work = {}] = GuestFields /\ [h EXCEPT !.work = {}].last = h.last
      /\ [h EXCEPT !.work = {}].work = {}
  BY <1>2 DEF GuestFields
<1> QED
  BY <1>2, <1>3, <1>4, Zenon

\* An export begins without one.
LEMMA EnterKeeps ==
  ASSUME NEW g, DOMAIN g = GuestFields, NEW op, NEW args
  PROVE  DOMAIN Enter(g, op, args) = GuestFields /\ Enter(g, op, args).last = NoError
<1>1. PICK h : h = Clear(g)
  OBVIOUS
<1>2. DOMAIN h = GuestFields /\ h.last = NoError
  BY <1>1, ClearKeeps, Zenon
<1>3. Enter(g, op, args) = h \/ \E f, w : Enter(g, op, args) = [[h EXCEPT !.bufs = f] EXCEPT !.work = w]
  <2>1. CASE Secrets(op) = {}
    BY <1>1, <2>1, Zenon DEF Enter, Begin
  <2>2. CASE Secrets(op) # {}
    <3>1. Enter(g, op, args) = [WipeInput(h, args[1]) EXCEPT !.work = Secrets(op)]
      BY <1>1, <2>2, Zenon DEF Enter, Begin
    <3>2. WipeInput(h, args[1]) = [h EXCEPT !.bufs = [h.bufs EXCEPT ![args[1].ptr] = "wiped"]]
      BY DEF WipeInput
    <3>3. PICK f : WipeInput(h, args[1]) = [h EXCEPT !.bufs = f]
      BY <3>2, Zenon
    <3> QED
      BY <3>1, <3>3, Zenon
  <2> QED
    BY <2>1, <2>2, Zenon
<1>4. ASSUME NEW f, NEW w
      PROVE  LET k == [[h EXCEPT !.bufs = f] EXCEPT !.work = w]
             IN  DOMAIN k = GuestFields /\ k.last = h.last
  BY <1>2 DEF GuestFields
<1> QED
  BY <1>2, <1>3, <1>4, Zenon

\* An export that fails has its own error behind its status.
LEMMA FailedSays ==
  ASSUME NEW g, DOMAIN g = GuestFields, g.last = NoError, NEW status \in Status, NEW n
  PROVE  LET h == Failed(g, status, n)
             r == Register(g, 1, "error")
         IN  /\ DOMAIN h = GuestFields /\ h.work = {}
             /\ h.last = [buf |-> r.buf, status |-> status, call |-> n]
             /\ h.bufs = r.guest.bufs /\ h.empties = r.guest.empties
<1>1. PICK r : r = Register(g, 1, "error")
  OBVIOUS
<1>2. DOMAIN r.guest = GuestFields
  BY <1>1, RegisterKeeps, Zenon
<1>3. PICK e : e = [buf |-> r.buf, status |-> status, call |-> n]
  BY Zenon
<1>4. Clear(g) = g /\ Ensure(g, status, n) = Store(g, status, n)
  BY Zenon DEF Clear, Ensure
<1>5. Failed(g, status, n) = [[r.guest EXCEPT !.last = e] EXCEPT !.work = {}]
  BY <1>1, <1>3, <1>4, Zenon DEF Failed, Store
<1>6. PICK h : h = [[r.guest EXCEPT !.last = e] EXCEPT !.work = {}]
  OBVIOUS
<1>7. /\ DOMAIN h = GuestFields /\ h.work = {} /\ h.last = e
      /\ h.bufs = r.guest.bufs /\ h.empties = r.guest.empties
  BY <1>2, <1>6 DEF GuestFields
<1> QED
  BY <1>1, <1>3, <1>5, <1>6, <1>7, Zenon

\* What the imports hand to the guest.
LEMMA ImportKeeps ==
  ASSUME NEW g, DOMAIN g = GuestFields, NEW x, NEW y, NEW failed
  PROVE  /\ DOMAIN GetToken(g, x, failed).guest = GuestFields
         /\ GetToken(g, x, failed).guest.last = g.last
         /\ DOMAIN Send(g, x, y, failed).guest = GuestFields
         /\ Send(g, x, y, failed).guest.last = g.last
<1>1. PICK t : t = Take(g, x)
  OBVIOUS
<1>2. DOMAIN t.guest = GuestFields /\ t.guest.last = g.last
  BY <1>1, TakeKeeps, Zenon
<1>3. DOMAIN GetToken(g, x, failed).guest = GuestFields /\ GetToken(g, x, failed).guest.last = g.last
  <2>1. \/ GetToken(g, x, failed).guest = t.guest
        \/ \E w : GetToken(g, x, failed).guest = [t.guest EXCEPT !.work = w]
    BY <1>1, Zenon DEF GetToken
  <2>2. ASSUME NEW w
        PROVE  /\ DOMAIN [t.guest EXCEPT !.work = w] = GuestFields
               /\ [t.guest EXCEPT !.work = w].last = t.guest.last
    BY <1>2 DEF GuestFields
  <2> QED
    BY <1>2, <2>1, <2>2, Zenon
<1>4. DOMAIN Send(g, x, y, failed).guest = GuestFields /\ Send(g, x, y, failed).guest.last = g.last
  <2>1. Send(g, x, y, failed).guest = Take(t.guest, y).guest
    BY <1>1, Zenon DEF Send
  <2>2. /\ DOMAIN Take(t.guest, y).guest = GuestFields
        /\ Take(t.guest, y).guest.last = t.guest.last
    BY <1>2, TakeKeeps
  <2> QED
    BY <1>2, <2>1, <2>2
<1> QED
  BY <1>3, <1>4, Zenon

\* The call goes on inside the guest, or on its way there.
LEMMA CallGoesOn ==
  ASSUME TellInv, call.stage \in Inner \cup {"stage"}, call'.stage \in Inner \cup {"stage"},
         call'.err = call.err, DOMAIN guest' = GuestFields,
         call'.stage \in Inner \ {"export"} => guest'.last = NoError,
         client'.calls = client.calls, client'.tokenErr \in {client.tokenErr, client.calls},
         UNCHANGED told
  PROVE  TellInv'
<1>1. /\ "none" \notin Inner \cup {"stage"} /\ "left" \notin Inner \cup {"stage"}
      /\ "out" \notin Inner \cup {"stage"}
  BY DEF Inner
<1>2. call'.stage # "none" /\ call'.stage # "left" /\ call'.stage # "out" /\ call.stage # "none"
  BY <1>1, Zenon
<1>3. call.err = {} /\ client.tokenErr \in {None, client.calls}
  BY <1>2, Zenon DEF TellInv, Telling
<1>4. Telling(guest, call, client)'
  BY <1>2, <1>3 DEF Telling
<1>5. ToldErrors'
  BY DEF TellInv, ToldErrors
<1> QED
  BY <1>4, <1>5 DEF TellInv

\* The call comes back from the guest, or was not let in: a status it comes back with has
\* an error of this call's behind it.
LEMMA CallComesBack ==
  ASSUME TellInv, call.stage \in Inner \cup {"stage"}, call'.stage = "left",
         DOMAIN guest' = GuestFields,
         \/ call'.err \in {{}, {"trap"}, {"alloc"}}
         \/ \E s \in Status : /\ call'.err = {s} /\ guest'.last.status = s
                              /\ guest'.last.call = client'.calls,
         client'.calls = client.calls, client'.tokenErr = client.tokenErr, UNCHANGED told
  PROVE  TellInv'
<1>1. "none" \notin Inner \cup {"stage"} /\ "left" \notin Inner \cup {"stage"}
  BY DEF Inner
<1>2. call.stage # "none"
  BY <1>1, Zenon
<1>3. client.tokenErr \in {None, client.calls}
  BY <1>2, Zenon DEF TellInv, Telling
<1>4. \A s \in call'.err \cap Status : guest'.last.status = s /\ guest'.last.call = client'.calls
  BY DEF Status
<1>5. Telling(guest, call, client)'
  BY <1>1, <1>3, <1>4 DEF Telling
<1>6. ToldErrors'
  BY SMTT(30) DEF TellInv, ToldErrors
<1> QED
  BY <1>5, <1>6 DEF TellInv

\* Client.call, up to the export.
LEMMA StagingTells ==
  ASSUME GuestInv, TellInv, Stage \/ StageRefused \/ Barred \/ Run
  PROVE  TellInv'
<1>0. /\ call.stage = "stage" /\ DOMAIN call = Fields /\ DOMAIN guest = GuestFields
      /\ UNCHANGED <<client, told>> /\ call.err = {} /\ "export" \in Inner /\ "stage" \notin Inner
  BY ZenonT(60) DEF Stage, StageRefused, Barred, Run, Staging, GuestInv, Typed, TellInv, Telling, Inner
<1>1. CASE Stage
  <2>1. PICK b : call' = [call EXCEPT !.bufs = Append(@, b)]
    BY <1>1, Zenon DEF Stage
  <2>2. call'.stage = "stage" /\ call'.err = call.err
    BY <1>0, <2>1 DEF Fields
  <2>3. DOMAIN guest' = GuestFields
    BY <1>0, <1>1, RegisterKeeps, Zenon DEF Stage
  <2> QED
    BY <1>0, <2>2, <2>3, CallGoesOn
<1>2. CASE StageRefused
  <2>1. call'.stage = "left" /\ call'.err = {"alloc"}
    BY <1>0, <1>2 DEF StageRefused, Fields
  <2> QED
    BY <1>0, <1>2, <2>1, CallComesBack DEF StageRefused
<1>3. CASE Barred
  <2>1. call'.stage = "left" /\ call'.err = {"trap"}
    BY <1>0, <1>3 DEF Barred, Fields
  <2> QED
    BY <1>0, <1>3, <2>1, CallComesBack DEF Barred
<1>4. CASE Run
  <2>1. call'.stage = "export" /\ call'.err = call.err
    BY <1>0, <1>4 DEF Run, Fields
  <2> QED
    BY <1>0, <1>4, <2>1, CallGoesOn DEF Run
<1> QED
  BY <1>1, <1>2, <1>3, <1>4

\* The guest goes on with no error recorded, and returns, fails or asks the host.
LEMMA GuestTells ==
  ASSUME GuestInv, TellInv, call.stage \in Inner, UNCHANGED <<mem, client, told>>,
         NEW g, DOMAIN g = GuestFields, g.last = NoError,
         \/ \E n : Returned(g, n)
         \/ \E s \in Status : Refused(g, s)
         \/ \E import \in {"token", "send"} : Asks(g, import)
  PROVE  TellInv'
<1>0. /\ DOMAIN call = Fields /\ call.err = {}
  BY ZenonT(60) DEF GuestInv, Typed, TellInv, Telling
<1>1. ASSUME NEW n, Returned(g, n) PROVE TellInv'
  <2>1. PICK b : call' = [call EXCEPT !.stage = "left", !.bufs = Append(@, b)]
    BY <1>1, Zenon DEF Returned
  <2>2. call'.stage = "left" /\ call'.err = {}
    BY <1>0, <2>1 DEF Fields
  <2>3. DOMAIN Done(g) = GuestFields
    BY DoneKeeps, Zenon
  <2>4. DOMAIN guest' = GuestFields
    BY <1>1, <2>3, RegisterKeeps, Zenon DEF Returned
  <2> QED
    BY <1>0, <2>2, <2>4, CallComesBack
<1>2. ASSUME NEW s \in Status, Refused(g, s) PROVE TellInv'
  <2>1. call'.stage = "left" /\ call'.err = {s}
    BY <1>0, <1>2, Zenon DEF Refused, Fields
  <2>2. DOMAIN guest' = GuestFields /\ guest'.last.status = s /\ guest'.last.call = client.calls
    <3>1. PICK n : n = client.calls
      OBVIOUS
    <3>2. guest' = Failed(g, s, n)
      BY <1>2, <3>1, Zenon DEF Refused
    <3>3. /\ DOMAIN Failed(g, s, n) = GuestFields
          /\ Failed(g, s, n).last = [buf |-> Register(g, 1, "error").buf, status |-> s, call |-> n]
      BY FailedSays, SMTT(30)
    <3> QED
      BY <3>1, <3>2, <3>3, SMTT(30)
  <2> QED
    BY <1>0, <2>1, <2>2, CallComesBack
<1>3. ASSUME NEW import \in {"token", "send"}, Asks(g, import) PROVE TellInv'
  <2>1. call'.stage = import /\ call'.err = call.err
    BY <1>0, <1>3 DEF Asks, Fields
  <2>2. import \in Inner /\ guest' = g
    BY <1>3 DEF Inner, Asks
  <2> QED
    BY <1>0, <2>1, <2>2, CallGoesOn, SMTT(30)
<1> QED
  BY <1>1, <1>2, <1>3, Zenon

\* The guest, between its imports.
LEMMA ExportTells ==
  ASSUME GuestInv, TellInv, Export \/ GotToken \/ Sent \/ Abort \/ Unwind
  PROVE  TellInv'
<1>0. /\ call.stage \in {"export", "gotToken", "sent"} /\ call.stage \in Inner
      /\ DOMAIN call = Fields /\ DOMAIN guest = GuestFields /\ call.err = {}
      /\ call.stage \in {"gotToken", "sent"} => guest.last = NoError
      /\ UNCHANGED <<client, told>>
  BY ZenonT(60) DEF Export, GotToken, Sent, Abort, Unwind, Inner, GuestInv, Typed, TellInv, Telling
<1>1. CASE Export
  <2>1. PICK g : g = Enter(guest, call.op, call.bufs)
    OBVIOUS
  <2>2. DOMAIN g = GuestFields /\ g.last = NoError
    BY <1>0, <2>1, EnterKeeps, Zenon
  <2>3. Refusal(g, call.op, call.malformed) \in {"encoding", "state", None}
    BY DEF Refusal
  <2>4. \/ \E n : Returned(g, n)
        \/ \E s \in Status : Refused(g, s)
        \/ \E import \in {"token", "send"} : Asks(g, import)
    BY <1>1, <2>1, <2>3, Zenon DEF Export, Status
  <2>5. UNCHANGED <<mem, client, told>>
    BY <1>1, Zenon DEF Export
  <2> QED
    BY <1>0, <2>2, <2>4, <2>5, GuestTells, Zenon
<1>2. CASE GotToken
  <2>1. PICK t : t = GetToken(guest, call.slots[1], call.status = "failed")
    OBVIOUS
  <2>2. DOMAIN t.guest = GuestFields /\ t.guest.last = NoError
    <3>1. PICK x, y, f : t = GetToken(guest, x, f)
      BY <2>1, Zenon
    <3>2. guest.last = NoError
      BY <1>0, <1>2, SMTT(30) DEF GotToken
    <3> QED
      BY <1>0, <3>1, <3>2, ImportKeeps, SMTT(30)
  <2>3. (\E s \in Status : Refused(t.guest, s)) \/ \E import \in {"token", "send"} : Asks(t.guest, import)
    BY <1>2, <2>1, Zenon DEF GotToken, Status
  <2>5. UNCHANGED <<mem, client, told>>
    BY <1>2, Zenon DEF GotToken
  <2> QED
    BY <1>0, <2>2, <2>3, <2>5, GuestTells, Zenon
<1>3. CASE Sent
  <2>1. PICK t : t = Send(guest, call.slots[1], call.slots[2], call.status # "ok")
    BY SMTT(30)
  <2>2. DOMAIN t.guest = GuestFields /\ t.guest.last = NoError
    <3>1. PICK x, y, f : t = Send(guest, x, y, f)
      BY <2>1, Zenon
    <3>2. guest.last = NoError
      BY <1>0, <1>3, Zenon DEF Sent
    <3> QED
      BY <1>0, <3>1, <3>2, ImportKeeps, SMTT(30)
  <2>3. DOMAIN Install(t.guest) = GuestFields /\ Install(t.guest).last = NoError
    BY <2>2 DEF Install, GuestFields
  <2>4. \/ \E s \in Status : Refused(t.guest, s)
        \/ \E n : Returned(t.guest, n)
        \/ \E n : Returned(Install(t.guest), n)
    BY <1>3, <2>1, Zenon DEF Sent, Status
  <2>5. UNCHANGED <<mem, client, told>>
    BY <1>3, Zenon DEF Sent
  <2> QED
    BY <1>0, <2>2, <2>3, <2>4, <2>5, GuestTells, Zenon
<1>4. CASE Abort \/ Unwind
  <2>1. call'.stage = "left" /\ call'.err = {"trap"} /\ guest' = guest
    BY <1>0, <1>4, Zenon DEF Abort, Unwind, Fields
  <2> QED
    BY <1>0, <2>1, CallComesBack, SMTT(30)
<1> QED
  BY <1>1, <1>2, <1>3, <1>4

\* The imports: what the host does for the guest while the guest waits.
LEMMA ImportTells ==
  ASSUME GuestInv, TellInv,
         \/ TokenGet \/ TokenFails \/ PlaceToken \/ PlaceHeaders \/ PlaceBody
         \/ \E answer : Perform(answer)
  PROVE  TellInv'
<1>0. /\ call.stage \in {"token", "placeToken", "send", "placeHeaders", "placeBody"}
      /\ UNCHANGED told
  BY Zenon DEF TokenGet, TokenFails, PlaceToken, PlaceHeaders, PlaceBody, Perform
<1>1. /\ call.stage \in Inner \ {"export"} /\ DOMAIN call = Fields
      /\ DOMAIN guest = GuestFields /\ guest.last = NoError
  BY <1>0, ZenonT(60) DEF Inner, GuestInv, Typed, TellInv, Telling
<1>2. client'.calls = client.calls /\ client'.tokenErr \in {client.tokenErr, client.calls}
  <2>1. UNCHANGED client \/ client' = [client EXCEPT !.tokenErr = client.calls]
    BY Zenon DEF TokenGet, TokenFails, PlaceToken, PlaceHeaders, PlaceBody, Perform
  <2>2. client \in ClientRec
    BY DEF GuestInv, Typed
  <2> QED
    BY <2>1, <2>2 DEF ClientRec
<1>3. ASSUME NEW st \in Inner \ {"export"}, call'.stage = st, call'.err = call.err,
             DOMAIN guest' = GuestFields, guest'.last = NoError
      PROVE  TellInv'
  BY <1>0, <1>1, <1>2, <1>3, CallGoesOn
<1>4. CASE TokenGet \/ TokenFails \/ \E answer : Perform(answer)
  <2>1. /\ call'.stage \in {"placeToken", "gotToken", "placeHeaders"} /\ call'.err = call.err
       
    BY <1>1, <1>4, Zenon DEF TokenGet, TokenFails, Perform, Fields
  <2>2. call'.stage \in Inner \ {"export"}
    BY <2>1 DEF Inner
  <2>3. UNCHANGED <<guest, mem>>
    BY <1>4, Zenon DEF TokenGet, TokenFails, Perform
  <2> QED
    BY <1>1, <1>3, <2>1, <2>2, <2>3, Zenon
<1>5. ASSUME NEW slot, NEW n, NEW what, NEW next \in {"gotToken", "placeBody", "sent"},
             Placed(slot, n, what, next)
      PROVE  TellInv'
  <2>1. PICK b : call' = [call EXCEPT !.slots[slot] = b, !.stage = next]
    BY <1>5, Zenon DEF Placed
  <2>2. call'.stage = next /\ call'.err = call.err
    BY <1>1, <2>1 DEF Fields
  <2>3. next \in Inner \ {"export"}
    BY DEF Inner
  <2>4. DOMAIN guest' = GuestFields /\ guest'.last = NoError
    <3>1. guest' = Register(guest, n, what).guest
      BY <1>5 DEF Placed
    <3>2. /\ DOMAIN Register(guest, n, what).guest = GuestFields
          /\ Register(guest, n, what).guest.last = guest.last
      BY <1>1, RegisterKeeps
    <3> QED
      BY <1>1, <3>1, <3>2
  <2>5. UNCHANGED mem
    BY <1>5 DEF Placed
  <2> QED
    BY <1>3, <2>2, <2>3, <2>4, <2>5, Zenon
<1>6. ASSUME NEW n, NEW next \in {"gotToken", "sent"}, NotPlaced(n, next) PROVE TellInv'
  <2>1. call'.stage = next /\ call'.err = call.err
    BY <1>1, <1>6 DEF NotPlaced, Fields
  <2>2. next \in Inner \ {"export"}
    BY DEF Inner
  <2>3. UNCHANGED guest
    BY <1>6, Zenon DEF NotPlaced
  <2> QED
    BY <1>1, <1>3, <2>1, <2>2, <2>3, Zenon
<1>7. CASE PlaceToken \/ PlaceHeaders \/ PlaceBody
  BY <1>5, <1>6, <1>7 DEF PlaceToken, PlaceHeaders, PlaceBody
<1> QED
  BY <1>4, <1>7

\* On the way out the error is asked for if there is a status, of the guest that left it.
LEMMA LeaveTells ==
  ASSUME GuestInv, TellInv, Leave
  PROVE  TellInv'
<1> DEFINE asks == call.err \cap Status # {}
<1>0. /\ call.stage = "left" /\ DOMAIN call = Fields /\ DOMAIN guest = GuestFields
      /\ UNCHANGED <<client, told>>
      /\ client.tokenErr \in {None, client.calls}
      /\ \A s \in call.err \cap Status : guest.last.status = s /\ guest.last.call = client.calls
  BY ZenonT(60) DEF Leave, GuestInv, Typed, TellInv, Telling
<1>1. PICK d, e : /\ call' = [call EXCEPT !.stage = "out", !.diag = d, !.err = e]
                  /\ d = IF asks /\ ~mod.closed THEN guest.last ELSE NoError
                  /\ e = IF asks /\ mod.closed THEN call.err \union {"trap"} ELSE call.err
  BY Zenon DEF Leave
<1>2. call'.stage = "out" /\ call'.diag = d /\ call'.err = e
  BY <1>0, <1>1 DEF Fields
<1>3. DOMAIN guest' = GuestFields
  <2>1. DOMAIN Diagnosed(guest) = GuestFields
    <3>1. DOMAIN TakeRegistered(guest) = GuestFields
      BY <1>0 DEF TakeRegistered
    <3>2. DOMAIN Reclaim(TakeRegistered(guest), guest.last.buf).guest = GuestFields
      BY <3>1, ReclaimKeeps
    <3> QED
      BY <1>0, <3>2 DEF Diagnosed, Dealloc
  <2>2. PICK g : g = IF asks THEN Diagnosed(guest) ELSE guest
    OBVIOUS
  <2>3. DOMAIN g = GuestFields
    BY <1>0, <2>1, <2>2, Zenon
  <2>4. guest' \in {guest, FreeAll(g, call.bufs)}
    BY <2>2, Zenon DEF Leave
  <2>5. DOMAIN FreeAll(g, call.bufs) = GuestFields
    BY <2>3, FreeAllKeeps
  <2> QED
    BY <1>0, <2>4, <2>5
<1>4. d # NoError => d.call = client.calls /\ d.status \in e
  BY <1>0, <1>1, Zenon
<1>5. e \cap Status # {} /\ "trap" \notin e => d # NoError
  <2> SUFFICES ASSUME e \cap Status # {}, "trap" \notin e PROVE d # NoError
    OBVIOUS
  <2>1. asks /\ ~mod.closed
    BY <1>1 DEF Status
  <2>2. PICK s \in Status : guest.last.status = s
    BY <1>0, <2>1, Zenon
  <2>3. guest.last # NoError
    BY <2>2 DEF NoError, Status
  <2> QED
    BY <1>1, <2>1, <2>3, Zenon
<1>6. Telling(guest, call, client)'
  BY <1>0, <1>2, <1>4, <1>5, Zenon DEF Telling, Inner
<1>7. ToldErrors'
  BY <1>0 DEF TellInv, ToldErrors
<1> QED
  BY <1>3, <1>6, <1>7 DEF TellInv

\* Nothing is held against a call that has not begun.
LEMMA BetweenTells ==
  ASSUME call'.stage = "none", DOMAIN guest' = GuestFields, ToldErrors'
  PROVE  TellInv'
BY Zenon DEF TellInv, Telling, Inner

\* What Client.call makes of the outcome.
LEMMA JudgeTells ==
  ASSUME GuestInv, TellInv, Judge
  PROVE  TellInv'
<1>0. /\ call.stage = "out" /\ DOMAIN guest = GuestFields /\ UNCHANGED guest /\ call' = NoCall
      /\ client.tokenErr \in {None, client.calls}
      /\ call.diag # NoError => call.diag.call = client.calls /\ call.diag.status \in call.err
      /\ call.err \cap Status # {} /\ "trap" \notin call.err => call.diag # NoError
  BY ZenonT(60) DEF Judge, GuestInv, Typed, TellInv, Telling
<1>1. PICK err, growth, token :
        /\ told' = [call |-> client.calls, err |-> err, diag |-> call.diag, growth |-> growth, token |-> token]
        /\ err \in {call.err, call.err \cup {"interrupted"}}
        /\ token \in {client.tokenErr, None}
  BY Zenon DEF Judge
<1>2. ToldErrors'
  <2>1. told'.diag = call.diag /\ told'.call = client.calls /\ told'.err = err /\ told'.token = token
    BY <1>1, SMTT(30)
  <2>2. err \cap Status = call.err \cap Status /\ call.err \subseteq err
    BY <1>1 DEF Status
  <2> QED
    BY <1>0, <1>1, <2>1, <2>2, Zenon DEF ToldErrors
<1> QED
  BY <1>0, <1>2, BetweenTells, NoCallFacts, Zenon

\* Client.call takes the lock and forgets what the token source said before, or finds the
\* client closed.
LEMMA LockTells ==
  ASSUME GuestInv, TellInv, NEW r \in Routines, Lock(r)
  PROVE  TellInv'
<1>0. /\ call.stage = "none" /\ DOMAIN guest = GuestFields /\ UNCHANGED guest
      /\ client \in ClientRec
  BY Zenon DEF Lock, GuestInv, Typed, TellInv
<1>1. CASE client.closed \/ mod.closed
  <2>1. told' = [Silent EXCEPT !.err = {"closed"}] /\ UNCHANGED call
    BY <1>1, Zenon DEF Lock
  <2>2. told'.diag = NoError /\ told'.token = None /\ told'.err = {"closed"}
    BY <2>1 DEF Silent
  <2>3. ToldErrors'
    BY <2>2 DEF ToldErrors, Status
  <2> QED
    BY <1>0, <2>1, <2>3, BetweenTells
<1>2. CASE ~(client.closed \/ mod.closed)
  <2>1. /\ client' = Began(client) /\ mem' = EnterMem(mem) /\ told' = Silent
        /\ call' = [NoCall EXCEPT !.by = r, !.stage = "stage", !.op = rt[r].op,
                                  !.malformed = rt[r].malformed, !.growth = mem.refused]
    BY <1>2, Zenon DEF Lock
  <2>2. call'.stage = "stage" /\ call'.err = {}
    BY <2>1 DEF NoCall
  <2>3. client'.tokenErr = None
    BY <1>0, <2>1 DEF Began, ClientRec
  <2>4. ToldErrors'
    BY <2>1 DEF ToldErrors, Silent
  <2>5. Telling(guest, call, client)'
    BY <2>2, <2>3 DEF Telling, Inner
  <2> QED
    BY <1>0, <2>4, <2>5, Zenon DEF TellInv
<1> QED
  BY <1>1, <1>2

\* The client is made, closed, abandoned or cleaned up between calls.
LEMMA InstanceBetween ==
  ASSUME GuestInv, Cleanup \/ \E r \in Routines : Instantiate(r) \/ Abandon(r) \/ Close(r)
  PROVE  call.stage = "none"
<1> SUFFICES ASSUME call.stage # "none" PROVE FALSE
  OBVIOUS
<1>1. call.by \in Routines /\ rt[call.by].pc = "call" /\ client.made = 1
  BY Zenon DEF GuestInv, CallInv, Owned, Doing
<1>2. CASE Cleanup
  BY <1>1, <1>2 DEF Cleanup
<1>3. ASSUME NEW r \in Routines, Instantiate(r) PROVE FALSE
  BY <1>1, <1>3 DEF Instantiate, GuestInv, Owned, Doing
<1>4. ASSUME NEW r \in Routines, Abandon(r) \/ Close(r) PROVE FALSE
  BY <1>4 DEF Abandon, Close
<1> QED
  BY <1>2, <1>3, <1>4

\* What the last call was told stays, whatever becomes of the client.
LEMMA InstanceTells ==
  ASSUME GuestInv, TellInv,
         Cleanup \/ \E r \in Routines : Instantiate(r) \/ Abandon(r) \/ Close(r)
  PROVE  TellInv'
<1>1. UNCHANGED <<call, told>> /\ guest' \in {guest, NoGuest, Shutdown(guest)}
  BY Zenon DEF Cleanup, Instantiate, Abandon, Close, CloseNow, ReleaseInstance
<1>2. call.stage = "none"
  BY InstanceBetween
<1>3. DOMAIN Shutdown(guest) = GuestFields
  <2>1. PICK g : g = Clear(guest)
    OBVIOUS
  <2>2. DOMAIN g = GuestFields
    BY <2>1, ClearKeeps, Zenon DEF TellInv
  <2>3. Shutdown(guest) = WipeAll([g EXCEPT !.shutDown = TRUE, !.cipher = FALSE])
    BY <2>1 DEF Shutdown
  <2> QED
    BY <2>2, <2>3 DEF WipeAll
<1>4. DOMAIN guest' = GuestFields
  BY <1>1, <1>3, NoGuestFields, Zenon DEF TellInv
<1>5. ToldErrors'
  BY <1>1, SMTT(30) DEF TellInv, ToldErrors
<1> QED
  BY <1>1, <1>2, <1>4, <1>5, BetweenTells

\* Steps that leave the call, the guest and what has been said alone.
LEMMA OtherTells ==
  ASSUME GuestInv, TellInv, UNCHANGED <<guest, call, told>>,
         client'.calls = client.calls, client'.tokenErr = client.tokenErr
  PROVE  TellInv'
BY Zenon DEF TellInv, Telling, ToldErrors

\* No step has a call told of another.
LEMMA TellStep == GuestInv /\ TellInv /\ [Next]_vars => TellInv'
<1> SUFFICES ASSUME GuestInv, TellInv, [Next]_vars PROVE TellInv'
  OBVIOUS
<1>1. ASSUME NEW r \in Routines,
             \/ New(r) \/ RefuseConfig(r) \/ Resolve(r) \/ NotEncoded(r) \/ Encode(r)
             \/ InstanceFails(r) \/ Instantiate(r) \/ Abandon(r) \/ Made(r)
             \/ \E u \in Uses : Use(r, u[1], u[2])
             \/ Lock(r) \/ Cancel(r) \/ Finish(r) \/ Close(r)
      PROVE  TellInv'
  <2>1. CASE \/ New(r) \/ RefuseConfig(r) \/ Resolve(r) \/ NotEncoded(r) \/ Encode(r)
             \/ InstanceFails(r) \/ Cancel(r) \/ Finish(r) \/ \E u \in Uses : Use(r, u[1], u[2])
    <3>1. UNCHANGED <<guest, call, mem, client, told>>
      BY <2>1, Zenon DEF New, RefuseConfig, Resolve, NotEncoded, Encode, InstanceFails, Cancel,
                         Finish, Use
    <3> QED
      BY <3>1, OtherTells
  <2>2. CASE Made(r)
    <3>1. client'.calls = client.calls /\ client'.tokenErr = client.tokenErr
      BY <2>2 DEF Made, GuestInv, Typed, ClientRec
    <3> QED
      BY <2>2, <3>1, OtherTells DEF Made
  <2>3. CASE Instantiate(r) \/ Abandon(r) \/ Close(r)
    BY <2>3, InstanceTells, Zenon
  <2>4. CASE Lock(r)
    BY <2>4, LockTells
  <2> QED
    BY <1>1, <2>1, <2>2, <2>3, <2>4, Zenon
<1>2. CASE Stage \/ StageRefused \/ Barred \/ Run
  BY <1>2, StagingTells
<1>3. CASE Export \/ GotToken \/ Sent \/ Abort \/ Unwind
  BY <1>3, ExportTells
<1>4. CASE \/ TokenGet \/ TokenFails \/ PlaceToken \/ PlaceHeaders \/ PlaceBody
           \/ \E answer : Perform(answer)
  BY <1>4, ImportTells
<1>5. CASE Watch \/ UNCHANGED vars
  BY <1>5, OtherTells DEF Watch, vars
<1>6. CASE Leave
  BY <1>6, LeaveTells
<1>7. CASE Judge
  BY <1>7, JudgeTells
<1>8. CASE Cleanup
  BY <1>8, InstanceTells
<1> QED
  BY <1>1, <1>2, <1>3, <1>4, <1>5, <1>6, <1>7, <1>8, Zenon DEF Next, RequestFails

\* Nothing has been told yet.
LEMMA TellInit == Init => TellInv
<1> SUFFICES ASSUME Init PROVE TellInv
  OBVIOUS
<1>1. DOMAIN guest = GuestFields
  <2>1. guest = NoGuest
    BY Zenon DEF Init
  <2> QED
    BY <2>1, NoGuestFields, Zenon
<1>2. ToldErrors
  <2>1. told = Silent
    BY Zenon DEF Init
  <2> QED
    BY <2>1 DEF Silent, ToldErrors
<1>3. call.stage = "none"
  BY NoCallFacts, Zenon DEF Init
<1> QED
  BY <1>1, <1>2, <1>3, Zenon DEF TellInv, Telling, Inner

-----------------------------------------------------------------------------
(* What a call is told of the memory.                                      *)

ToldGrowth ==
  /\ told.growth \in {None, told.call}
  /\ told.err # {} /\ mem.reason = told.call => told.growth = told.call

\* The count differs from the one the call began with exactly when a growth was refused
\* in this call, and then the reason is this call's; nothing is told while a call runs.
GrowInv ==
  /\ mem.reason \in Nat => mem.reason \in 1..client.calls
  /\ told.call \in Nat
  /\ call.stage # "none" =>
       /\ told = Silent /\ client.calls > 0 /\ call.growth \in Nat /\ mem.refused >= call.growth
       /\ mem.refused # call.growth <=> mem.reason = client.calls
  /\ ToldGrowth

SameGrowth(m, n)    == n.refused = m.refused /\ n.reason = m.reason
GrowthCounted(m, n) == n.refused = m.refused + 1 /\ n.reason = client.calls

\* Only a growth that is refused counts.
LEMMA GrowthKept ==
  ASSUME NEW m \in MemRec
  PROVE  /\ SameGrowth(m, Free(m)) /\ SameGrowth(m, Release(m))
         /\ SameGrowth(m, EnterMem(m)) /\ SameGrowth(m, Exit(m))
<1>1. SameGrowth(m, Free(m))
  BY DEF SameGrowth, MemRec, Free, FreeLocked
<1>2. SameGrowth(m, Release(m))
  BY <1>1, Zenon DEF Release, SameGrowth
<1>3. SameGrowth(m, EnterMem(m))
  BY DEF SameGrowth, MemRec, EnterMem
<1>4. SameGrowth(m, Exit(m))
  BY DEF SameGrowth, MemRec, Exit, FreeLocked
<1> QED
  BY <1>1, <1>2, <1>3, <1>4

\* The memory, whatever a call does to it.
LEMMA MemoryMoves ==
  ASSUME GuestInv, GrowthFails \/ mem' \in {mem, Release(mem), Exit(mem), Exit(Release(mem))}
  PROVE  SameGrowth(mem, mem') \/ GrowthCounted(mem, mem')
<1>0. mem \in MemRec /\ client \in ClientRec
  BY DEF GuestInv, Typed
<1>1. CASE GrowthFails
  <2>1. mem' = mem \/ mem' = Reallocate(mem, TRUE)
    BY <1>0, <1>1, GrowthFacts, Zenon
  <2>2. GrowthCounted(mem, Reallocate(mem, TRUE))
    BY <1>0 DEF GrowthCounted, Reallocate, MemRec
  <2> QED
    BY <2>1, <2>2, Zenon DEF SameGrowth
<1>2. CASE mem' \in {mem, Release(mem), Exit(mem), Exit(Release(mem))}
  <2>1. Release(mem) \in MemRec
    BY <1>0, MemFacts DEF Release
  <2>2. SameGrowth(mem, Release(mem)) /\ SameGrowth(mem, Exit(mem))
        /\ SameGrowth(Release(mem), Exit(Release(mem)))
    BY <1>0, <2>1, GrowthKept, Zenon
  <2> QED
    BY <1>2, <2>2, Zenon DEF SameGrowth
<1> QED
  BY <1>1, <1>2

\* A call that goes on, or is on its way out, counts what is refused in it.
LEMMA GrowthInCall ==
  ASSUME GuestInv, GrowInv, call.stage # "none", call'.growth = call.growth,
         client'.calls = client.calls, UNCHANGED told,
         SameGrowth(mem, mem') \/ GrowthCounted(mem, mem')
  PROVE  GrowInv'
<1>0. /\ mem.refused \in Nat /\ client.calls \in Nat /\ call.growth \in Nat
      /\ told = Silent /\ client.calls > 0 /\ mem.refused >= call.growth
      /\ mem.refused # call.growth <=> mem.reason = client.calls
      /\ mem.reason \in Nat => mem.reason \in 1..client.calls
  BY Zenon DEF GuestInv, Typed, MemRec, ClientRec, GrowInv
<1>1. ToldGrowth' /\ told'.call \in Nat
  BY <1>0 DEF ToldGrowth, Silent
<1>2. CASE SameGrowth(mem, mem')
  BY <1>0, <1>1, <1>2 DEF GrowInv, SameGrowth
<1>3. CASE GrowthCounted(mem, mem')
  BY <1>0, <1>1, <1>3 DEF GrowInv, GrowthCounted
<1> QED
  BY <1>2, <1>3, SMTT(30)

\* Client.call from the first input to the last buffer freed.
LEMMA CallGrows ==
  ASSUME GuestInv, GrowInv,
         \/ Stage \/ StageRefused \/ Barred \/ Run \/ Export \/ GotToken \/ Sent \/ Abort \/ Unwind
         \/ TokenGet \/ TokenFails \/ PlaceToken \/ PlaceHeaders \/ PlaceBody
         \/ (\E answer : Perform(answer)) \/ Leave
  PROVE  GrowInv'
<1>0. DOMAIN call = Fields /\ client \in ClientRec
  BY DEF GuestInv, Typed
<1>1. call.stage # "none" /\ UNCHANGED told
  BY Zenon DEF Stage, StageRefused, Barred, Run, Staging, Export, GotToken, Sent, Abort, Unwind,
         TokenGet, TokenFails, PlaceToken, PlaceHeaders, PlaceBody, Perform, Leave
<1>2. client'.calls = client.calls
  <2>1. UNCHANGED client \/ client' = [client EXCEPT !.tokenErr = client.calls]
    BY Zenon DEF Stage, StageRefused, Barred, Run, Export, GotToken, Sent, Abort, Unwind,
         TokenGet, TokenFails, PlaceToken, PlaceHeaders, PlaceBody, Perform, Leave
  <2> QED
    BY <1>0, <2>1 DEF ClientRec
<1>3. GrowthFails \/ mem' \in {mem, Release(mem), Exit(mem), Exit(Release(mem))}
  BY Zenon DEF Stage, StageRefused, Barred, Run, Export, GotToken, Sent, Abort, Unwind,
       TokenGet, TokenFails, PlaceToken, PlaceHeaders, PlaceBody, Placed, NotPlaced, Perform, Leave
<1>4. call'.growth = call.growth
  <2>1. CASE Stage
    <3>1. PICK b : call' = [call EXCEPT !.bufs = Append(@, b)]
      BY <2>1, Zenon DEF Stage
    <3> QED
      BY <1>0, <3>1 DEF Fields
  <2>2. CASE StageRefused \/ Barred \/ Run \/ Abort \/ Unwind
    BY <1>0, <2>2, Zenon DEF StageRefused, Barred, Run, Abort, Unwind, Fields
  <2>3. CASE Export \/ GotToken \/ Sent
    <3>1. ASSUME NEW g, NEW n, Returned(g, n) PROVE call'.growth = call.growth
      <4>1. PICK b : call' = [call EXCEPT !.stage = "left", !.bufs = Append(@, b)]
        BY <3>1, Zenon DEF Returned
      <4> QED
        BY <1>0, <4>1 DEF Fields
    <3>2. ASSUME NEW g, NEW s, Refused(g, s) \/ Asks(g, s) PROVE call'.growth = call.growth
      BY <1>0, <3>2, Zenon DEF Refused, Asks, Fields
    <3> QED
      BY <2>3, <3>1, <3>2, Zenon DEF Export, GotToken, Sent
  <2>4. CASE TokenGet \/ TokenFails \/ \E answer : Perform(answer)
    BY <1>0, <2>4, Zenon DEF TokenGet, TokenFails, Perform, Fields
  <2>5. CASE PlaceToken \/ PlaceHeaders \/ PlaceBody
    <3>1. ASSUME NEW slot, NEW n, NEW what, NEW next, Placed(slot, n, what, next)
          PROVE  call'.growth = call.growth
      <4>1. PICK b : call' = [call EXCEPT !.slots[slot] = b, !.stage = next]
        BY <3>1, Zenon DEF Placed
      <4> QED
        BY <1>0, <4>1 DEF Fields
    <3>2. ASSUME NEW n, NEW next, NotPlaced(n, next) PROVE call'.growth = call.growth
      BY <1>0, <3>2 DEF NotPlaced, Fields
    <3> QED
      BY <2>5, <3>1, <3>2, Zenon DEF PlaceToken, PlaceHeaders, PlaceBody
  <2>6. CASE Leave
    <3>1. PICK d, e : call' = [call EXCEPT !.stage = "out", !.diag = d, !.err = e]
      BY <2>6, Zenon DEF Leave
    <3> QED
      BY <1>0, <3>1 DEF Fields
  <2> QED
    BY <2>1, <2>2, <2>3, <2>4, <2>5, <2>6
<1> QED
  BY <1>1, <1>2, <1>3, <1>4, MemoryMoves, GrowthInCall

\* What Client.call makes of the counts.
LEMMA JudgeGrows ==
  ASSUME GuestInv, GrowInv, Judge
  PROVE  GrowInv'
<1>0. /\ call.stage = "out" /\ call' = NoCall /\ mem \in MemRec /\ client \in ClientRec
      /\ mem.refused # call.growth <=> mem.reason = client.calls
      /\ mem.reason \in Nat => mem.reason \in 1..client.calls
  BY Zenon DEF Judge, GuestInv, Typed, GrowInv
<1>1. PICK failed, err, token :
        /\ told' = [call |-> client.calls, err |-> err, diag |-> call.diag,
                    growth |-> IF failed /\ mem.refused # call.growth THEN mem.reason ELSE None,
                    token |-> token]
        /\ failed = (call.err # {} \/ mod.closed)
        /\ err = IF mod.closed THEN call.err \union {"interrupted"} ELSE call.err
  BY Zenon DEF Judge
<1>2. mem'.reason = mem.reason
  BY <1>0, GrowthKept, Zenon DEF Judge, CloseTrapped, SameGrowth
<1>3. client'.calls = client.calls /\ client.calls \in Nat
  BY <1>0 DEF Judge, ClientRec
<1>4. err # {} <=> failed
  BY <1>1, Zenon
<1>5. /\ told'.call = client.calls /\ told'.err = err
      /\ told'.growth = IF failed /\ mem.refused # call.growth THEN mem.reason ELSE None
  BY <1>1, SMTT(30)
<1>6. ToldGrowth'
  BY <1>0, <1>2, <1>4, <1>5, Zenon DEF ToldGrowth
<1> QED
  BY <1>0, <1>2, <1>3, <1>5, <1>6, NoCallFacts, SMTT(30) DEF GrowInv

\* A call begins with the count as it stands: no reason is of a call yet to come.
LEMMA LockGrows ==
  ASSUME GuestInv, GrowInv, NEW r \in Routines, Lock(r)
  PROVE  GrowInv'
<1>0. /\ call.stage = "none" /\ mem \in MemRec /\ client \in ClientRec
      /\ mem.reason \in Nat => mem.reason \in 1..client.calls
  BY Zenon DEF Lock, GuestInv, Typed, GrowInv
<1>1. CASE client.closed \/ mod.closed
  <2>1. /\ told' = [Silent EXCEPT !.err = {"closed"}] /\ UNCHANGED <<call, mem>>
        /\ client' = [client EXCEPT !.closed = TRUE]
    BY <1>1, Zenon DEF Lock
  <2>2. told'.growth = None /\ told'.call = 0 /\ client'.calls = client.calls
    BY <1>0, <2>1 DEF Silent, ClientRec
  <2>3. mem.reason # 0
    BY <1>0
  <2> QED
    BY <1>0, <2>1, <2>2, <2>3 DEF GrowInv, ToldGrowth
<1>2. CASE ~(client.closed \/ mod.closed)
  <2>1. /\ client' = Began(client) /\ mem' = EnterMem(mem) /\ told' = Silent
        /\ call' = [NoCall EXCEPT !.by = r, !.stage = "stage", !.op = rt[r].op,
                                  !.malformed = rt[r].malformed, !.growth = mem.refused]
    BY <1>2, Zenon DEF Lock
  <2>2. call'.growth = mem.refused
    BY <2>1 DEF NoCall
  <2>3. SameGrowth(mem, mem')
    BY <1>0, <2>1, GrowthKept
  <2>4. client'.calls = client.calls + 1 /\ client.calls \in Nat
    BY <1>0, <2>1 DEF Began, ClientRec
  <2>5. mem.refused \in Nat /\ mem.reason # client.calls + 1
    BY <1>0, <2>4 DEF MemRec
  <2>6. ToldGrowth' /\ told'.call \in Nat
    BY <2>1 DEF ToldGrowth, Silent
  <2> QED
    BY <1>0, <2>1, <2>2, <2>3, <2>4, <2>5, <2>6 DEF GrowInv, SameGrowth
<1> QED
  BY <1>1, <1>2

\* What is told of an earlier call stands as long as nothing is counted and no call is
\* told.
LEMMA OtherGrows ==
  ASSUME GrowInv, UNCHANGED <<call, told>>, client'.calls = client.calls, SameGrowth(mem, mem')
  PROVE  GrowInv'
<1>1. ToldGrowth'
  BY Zenon DEF GrowInv, ToldGrowth, SameGrowth
<1> QED
  BY <1>1, Zenon DEF GrowInv, SameGrowth

\* The client is closed, abandoned or cleaned up, or a new memory counts from nothing.
LEMMA InstanceGrows ==
  ASSUME GuestInv, GrowInv,
         Cleanup \/ \E r \in Routines : Instantiate(r) \/ Abandon(r) \/ Close(r)
  PROVE  GrowInv'
<1>0. mem \in MemRec /\ client \in ClientRec /\ call.stage = "none" /\ mem.inFlight = 0
  <2>1. call.stage = "none"
    BY InstanceBetween
  <2>2. mem \in MemRec /\ client \in ClientRec /\ ~(mem.inFlight = 1)
    BY <2>1, Zenon DEF GuestInv, Typed, MemInv
  <2>3. mem.inFlight \in 0..1
    BY <2>2 DEF MemRec
  <2> QED
    BY <2>1, <2>2, <2>3
<1>1. UNCHANGED <<call, told>>
  BY Zenon DEF Cleanup, Instantiate, Abandon, Close
<1>2. client'.calls = client.calls
  BY <1>0, Zenon DEF Cleanup, Instantiate, Abandon, Close, CloseNow, ClientRec
<1>3. CASE Cleanup \/ \E r \in Routines : Abandon(r) \/ Close(r)
  <2>1. mem' \in {mem, Release(mem), Release(Exit(EnterMem(mem)))}
    BY <1>3, Zenon DEF Cleanup, Abandon, Close, CloseNow, ReleaseInstance
  <2>2. EnterMem(mem) \in MemRec /\ Exit(EnterMem(mem)) \in MemRec
    BY <1>0, MemFacts
  <2>3. /\ SameGrowth(mem, Release(mem)) /\ SameGrowth(mem, EnterMem(mem))
        /\ SameGrowth(EnterMem(mem), Exit(EnterMem(mem)))
        /\ SameGrowth(Exit(EnterMem(mem)), Release(Exit(EnterMem(mem))))
    BY <1>0, <2>2, GrowthKept, Zenon
  <2>4. SameGrowth(mem, mem')
    BY <2>1, <2>3, Zenon DEF SameGrowth
  <2> QED
    BY <1>1, <1>2, <2>4, OtherGrows
<1>4. CASE \E r \in Routines : Instantiate(r)
  <2>1. mem'.reason = None
    BY <1>4 DEF Instantiate
  <2>2. None \notin Nat
    BY GuestHostAssumption
  <2>3. told.call \in Nat /\ told.growth \in {None, told.call}
    BY Zenon DEF GrowInv, ToldGrowth
  <2>4. ToldGrowth'
    BY <1>1, <2>1, <2>2, <2>3, Zenon DEF ToldGrowth
  <2> QED
    BY <1>0, <1>1, <2>1, <2>2, <2>3, <2>4, Zenon DEF GrowInv
<1> QED
  BY <1>3, <1>4

\* No step has a call told of a growth that was refused in another.
LEMMA GrowStep == GuestInv /\ GrowInv /\ [Next]_vars => GrowInv'
<1> SUFFICES ASSUME GuestInv, GrowInv, [Next]_vars PROVE GrowInv'
  OBVIOUS
<1>1. ASSUME NEW r \in Routines,
             \/ New(r) \/ RefuseConfig(r) \/ Resolve(r) \/ NotEncoded(r) \/ Encode(r)
             \/ InstanceFails(r) \/ Made(r) \/ \E u \in Uses : Use(r, u[1], u[2])
             \/ Cancel(r) \/ Finish(r)
      PROVE  GrowInv'
  <2>1. UNCHANGED <<mem, call, told>>
    BY <1>1, Zenon DEF New, RefuseConfig, Resolve, NotEncoded, Encode, InstanceFails, Made, Use,
                       Cancel, Finish
  <2>2. client'.calls = client.calls
    <3>1. UNCHANGED client \/ client' = [client EXCEPT !.ready = TRUE]
      BY <1>1, Zenon DEF New, RefuseConfig, Resolve, NotEncoded, Encode, InstanceFails, Made, Use,
                         Cancel, Finish
    <3> QED
      BY <3>1 DEF GuestInv, Typed, ClientRec
  <2> QED
    BY <2>1, <2>2, OtherGrows DEF SameGrowth
<1>2. CASE Cleanup \/ \E r \in Routines : Instantiate(r) \/ Abandon(r) \/ Close(r)
  BY <1>2, InstanceGrows
<1>3. CASE \E r \in Routines : Lock(r)
  BY <1>3, LockGrows, Zenon
<1>4. CASE \/ Stage \/ StageRefused \/ Barred \/ Run \/ Export \/ GotToken \/ Sent \/ Abort \/ Unwind
           \/ TokenGet \/ TokenFails \/ PlaceToken \/ PlaceHeaders \/ PlaceBody
           \/ (\E answer : Perform(answer)) \/ Leave
  BY <1>4, CallGrows
<1>5. CASE Watch \/ UNCHANGED vars
  BY <1>5, OtherGrows DEF Watch, vars, SameGrowth
<1>6. CASE Judge
  BY <1>6, JudgeGrows
<1> QED
  BY <1>1, <1>2, <1>3, <1>4, <1>5, <1>6, Zenon DEF Next, RequestFails

\* No growth has been refused yet.
LEMMA GrowInit == Init => GrowInv
<1> SUFFICES ASSUME Init PROVE GrowInv
  OBVIOUS
<1>1. /\ mem = [inFlight |-> 0, pending |-> FALSE, freed |-> FALSE, refused |-> 0, reason |-> None]
      /\ told = Silent /\ call.stage = "none"
  BY NoCallFacts, Zenon DEF Init
<1>2. mem.reason = None /\ None \notin Nat
  BY <1>1, GuestHostAssumption
<1>3. told.call = 0 /\ told.err = {} /\ told.growth = None
  BY <1>1 DEF Silent
<1> QED
  BY <1>1, <1>2, <1>3 DEF GrowInv, ToldGrowth

\* What a caller is told of a failure is about its own call, whatever calls came before
\* and however they ended: the diagnostic behind a status, the error of the token source
\* and the refused growth (Client.call, last_error).
THEOREM ToldOfOwnCall == Spec => []ToldOfThisCall
<1>1. TellInv /\ GrowInv => ToldOfThisCall
  BY Zenon DEF TellInv, ToldErrors, GrowInv, ToldGrowth, ToldOfThisCall
<1> QED
  BY <1>1, TellInit, TellStep, GrowInit, GrowStep, GuestInvariant, PTL DEF Spec
=============================================================================
