----------------------------- MODULE GuestHost -----------------------------
(***************************************************************************)
(* A client of the Go package and the guest it drives.                     *)
(*                                                                         *)
(* Goroutines make the client, call it and close it; the client's lock     *)
(* lets one of them at a time into the guest.  A call stages its inputs in *)
(* guest memory, runs an export, which comes back out to the host for a    *)
(* token and for a request, and frees what it staged.  A context that ends *)
(* closes the module under the guest, on a goroutine of the runtime's; the *)
(* memory stays mapped until the call has left the guest.                  *)
(***************************************************************************)
EXTENDS GuestAbi

CONSTANTS
  Routines,    \* the goroutines
  Strict,      \* the lock policy: growth that cannot be locked is refused
  Kinds,       \* where the credentials come from: "explicit", "auto"
  Uses,        \* the calls made: an operation, and whether its input is malformed
  MaxCalls,    \* bound on the calls made
  MaxRefusals  \* bound on the growths refused for their lock

ASSUME GuestHostAssumption ==
  /\ Kinds \subseteq {"explicit", "auto"} /\ Uses \subseteq {"check", "encrypt", "decrypt"} \X BOOLEAN
  /\ None \notin {"init", "check", "encrypt", "decrypt"} \union Nat

VARIABLES
  guest,    \* the guest's state
  mod,      \* the module, as the runtime keeps it
  mem,      \* the allocator of its memory
  client,   \* Client
  call,     \* the call that holds the client's lock
  cred,     \* the credentials and the key
  rt,       \* for each goroutine, what it is doing and its context
  told      \* how the last call ended

vars == <<guest, mod, mem, client, call, cred, rt, told>>

-----------------------------------------------------------------------------
(* Allocator: the memory is held while a call is in flight.                *)

FreeLocked(m) == [m EXCEPT !.freed = TRUE]

\* Mutant: the memory goes as soon as the runtime lets go of it.
Free_Now(m) == FreeLocked(m)

Free(m) == IF m.inFlight > 0 THEN [m EXCEPT !.pending = TRUE] ELSE FreeLocked(m)

EnterMem(m) == [m EXCEPT !.inFlight = @ + 1]
Exit(m) ==
  LET n == [m EXCEPT !.inFlight = @ - 1]
  IN  IF n.inFlight = 0 /\ n.pending THEN FreeLocked([n EXCEPT !.pending = FALSE]) ELSE n

\* A commit that gives no buffer: the range lies beyond the reservation or is
\* not there to be had, under either policy, or Strict gives back what it cannot
\* lock.  Whether a refused lock is named.
Uncommitted == {FALSE, Strict /\ mem.refused < MaxRefusals}

\* Reallocate, when there is no buffer, counts the growth if its lock was refused
\* and keeps the reason: the call it was refused in.
Reallocate(m, lockErr) ==
  IF lockErr THEN [m EXCEPT !.refused = @ + 1, !.reason = client.calls] ELSE m
GrowthFails == \E lockErr \in Uncommitted : mem' = Reallocate(mem, lockErr)

-----------------------------------------------------------------------------
(* The runtime.  A call into a closed module, or under a context that has  *)
(* ended, fails; it closes what the module still held, the memory with it. *)

Closed     == [closed |-> TRUE, held |-> FALSE]
Release(m) == IF mod.held THEN Free(m) ELSE m
Idle(x)    == [x EXCEPT !.pc = "idle", !.op = None, !.malformed = FALSE, !.ctx = "live"]
To(x, pc)  == [x EXCEPT !.pc = pc]
Goes(r, x) == rt' = [rt EXCEPT ![r] = x]
Ended(r)   == rt[r].ctx = "ended"
Entered(r) == ~mod.closed /\ ~Ended(r)

\* The guest's frames are on the stack: running, or waiting for an import.
InGuest == call.stage \in {"export", "token", "placeToken", "gotToken",
                           "send", "placeHeaders", "placeBody", "sent"}

\* The context of the call ends, and the runtime's watcher closes the module
\* with the release of its memory put off.
Watch ==
  /\ InGuest /\ Ended(call.by) /\ ~mod.closed
  /\ mod' = [mod EXCEPT !.closed = TRUE]
  /\ UNCHANGED <<guest, mem, client, call, cred, rt, told>>

Cancel(r) ==
  /\ rt[r].pc # "idle" /\ ~Ended(r)
  /\ Goes(r, [rt[r] EXCEPT !.ctx = "ended"])
  /\ UNCHANGED <<guest, mod, mem, client, call, cred, told>>

-----------------------------------------------------------------------------
(* A call, up to the export.                                               *)

Inputs(op) == CASE op = "init" -> <<"config">> [] op = "check" -> <<"plan">>
                [] OTHER -> <<"data", "plan">>

NoAnswer == [status |-> "none", headers |-> 0, body |-> 0]
NoCall == [by |-> None, stage |-> "none", op |-> None, malformed |-> FALSE, bufs |-> <<>>,
           slots |-> <<Null, Null>>, answer |-> NoAnswer, status |-> "none",
           err |-> {}, diag |-> NoError, growth |-> 0]
Silent == [call |-> 0, err |-> {}, diag |-> NoError, token |-> None, growth |-> None]

\* Mutant: what the token source said in an earlier call is kept.
Began_Kept(c) == [c EXCEPT !.calls = @ + 1]

Began(c) == [c EXCEPT !.calls = @ + 1, !.tokenErr = None]

\* Client.call takes the lock.  A closed client makes no call.
Lock(r) ==
  /\ rt[r].pc = "call" /\ call.stage = "none"
  /\ IF client.closed \/ mod.closed
     THEN /\ client' = [client EXCEPT !.closed = TRUE]
          /\ told' = [Silent EXCEPT !.err = {"closed"}]
          /\ Goes(r, Idle(rt[r]))
          /\ UNCHANGED <<call, mem>>
     ELSE /\ client' = Began(client)
          /\ call' = [NoCall EXCEPT !.by = r, !.stage = "stage", !.op = rt[r].op,
                                    !.malformed = rt[r].malformed, !.growth = mem.refused]
          /\ mem' = EnterMem(mem)
          /\ told' = Silent
          /\ UNCHANGED rt
  /\ UNCHANGED <<guest, mod, cred>>

Staging == call.stage = "stage" /\ Len(call.bufs) < Len(Inputs(call.op))

\* AllocWrite stages one input.
Stage ==
  /\ Staging /\ Entered(call.by)
  /\ LET a == Register(guest, 1, Inputs(call.op)[Len(call.bufs) + 1])
     IN  guest' = a.guest /\ call' = [call EXCEPT !.bufs = Append(@, a.buf)]
  /\ UNCHANGED <<mod, mem, client, cred, rt, told>>

StageRefused ==
  /\ Staging /\ Entered(call.by)
  /\ GrowthFails
  /\ call' = [call EXCEPT !.stage = "left", !.err = {"alloc"}]
  /\ UNCHANGED <<guest, mod, client, cred, rt, told>>

\* The runtime does not let the call into the guest.
Barred ==
  /\ call.stage = "stage" /\ ~Entered(call.by)
  /\ mod' = Closed /\ mem' = Release(mem)
  /\ call' = [call EXCEPT !.stage = "left", !.err = {"trap"}]
  /\ UNCHANGED <<guest, client, cred, rt, told>>

Run ==
  /\ call.stage = "stage" /\ ~Staging /\ Entered(call.by)
  /\ call' = [call EXCEPT !.stage = "export"]
  /\ UNCHANGED <<guest, mod, mem, client, cred, rt, told>>

-----------------------------------------------------------------------------
(* The guest, between its imports.                                         *)

Returned(g, len) ==
  LET out == Register(Done(g), len, "out")
  IN  /\ guest' = out.guest
      /\ call' = [call EXCEPT !.stage = "left", !.bufs = Append(@, out.buf)]
Refused(g, status) ==
  /\ guest' = Failed(g, status, client.calls)
  /\ call' = [call EXCEPT !.stage = "left", !.err = {status}]
Asks(g, import) ==
  /\ guest' = g
  /\ call' = [call EXCEPT !.stage = import, !.slots = <<Null, Null>>, !.status = "none"]

Export ==
  /\ call.stage = "export"
  /\ LET g      == Enter(guest, call.op, call.bufs)
         status == Refusal(g, call.op, call.malformed)
     IN  IF status # None THEN Refused(g, status)
         ELSE IF call.op = "check" THEN Returned(g, 0)
         ELSE Asks(g, "token")
  /\ UNCHANGED <<mod, mem, client, cred, rt, told>>

GotToken ==
  /\ call.stage = "gotToken"
  /\ LET t == GetToken(guest, call.slots[1], call.status = "failed")
     IN  IF t.ok THEN Asks(t.guest, "send") ELSE Refused(t.guest, "transport")
  /\ UNCHANGED <<mod, mem, client, cred, rt, told>>

\* The request is answered.  A rejected or failed one is the export's failure.
Sent ==
  /\ call.stage = "sent"
  /\ LET s == Send(guest, call.slots[1], call.slots[2], call.status # "ok")
     IN  IF ~s.ok THEN Refused(s.guest, IF call.status = "denied" /\ s.valid THEN "kms" ELSE "transport")
         ELSE Returned(IF call.op = "init" THEN Install(s.guest) ELSE s.guest, 1)
  /\ UNCHANGED <<mod, mem, client, cred, rt, told>>

\* An allocation of the guest's own cannot grow the memory: the guest aborts,
\* and leaves everything as it stands.
Abort ==
  /\ call.stage \in {"export", "gotToken", "sent"} /\ ~mod.closed
  /\ GrowthFails
  /\ call' = [call EXCEPT !.stage = "left", !.err = {"trap"}]
  /\ UNCHANGED <<guest, mod, client, cred, rt, told>>

\* The guest meets the runtime's check and is stopped where it is.
Unwind ==
  /\ call.stage \in {"export", "gotToken", "sent"} /\ mod.closed
  /\ mod' = Closed /\ mem' = Release(mem)
  /\ call' = [call EXCEPT !.stage = "left", !.err = {"trap"}]
  /\ UNCHANGED <<guest, client, cred, rt, told>>

-----------------------------------------------------------------------------
(* The imports.  The host re-enters the guest only for the buffers of an   *)
(* answer; when it cannot, the slot stays as the guest made it.            *)

Placed(slot, len, what, next) ==
  /\ Entered(call.by)
  /\ LET a == Register(guest, len, what)
     IN  guest' = a.guest /\ call' = [call EXCEPT !.slots[slot] = a.buf, !.stage = next]
  /\ UNCHANGED <<mod, mem>>
NotPlaced(len, next) ==
  /\ call' = [call EXCEPT !.status = "failed", !.stage = next]
  /\ \/ Entered(call.by) /\ len > 0 /\ GrowthFails /\ UNCHANGED mod
     \/ ~Entered(call.by) /\ mod' = Closed /\ mem' = Release(mem)
  /\ UNCHANGED guest

\* token_get: the source gives a token, or says why it cannot.
TokenGet ==
  /\ call.stage = "token"
  /\ call' = [call EXCEPT !.stage = "placeToken"]
  /\ UNCHANGED <<guest, mod, mem, client, cred, rt, told>>
TokenFails ==
  /\ call.stage = "token"
  /\ call' = [call EXCEPT !.stage = "gotToken", !.status = "failed"]
  /\ client' = [client EXCEPT !.tokenErr = client.calls]
  /\ UNCHANGED <<guest, mod, mem, cred, rt, told>>
PlaceToken ==
  /\ call.stage = "placeToken"
  /\ \/ Placed(1, 1, "token", "gotToken") /\ UNCHANGED client
     \/ NotPlaced(1, "gotToken") /\ client' = [client EXCEPT !.tokenErr = client.calls]
  /\ UNCHANGED <<cred, rt, told>>

\* transport_send: the service answers, with or without headers and a body, or
\* the request fails, at the latest when its context ends.
Answers == {[status |-> "ok", headers |-> 1, body |-> 1], [status |-> "denied", headers |-> 1, body |-> 1],
            [status |-> "denied", headers |-> 0, body |-> 0]}
Failure == [status |-> "failed", headers |-> 0, body |-> 1]

Perform(answer) ==
  /\ call.stage = "send"
  /\ call' = [call EXCEPT !.stage = "placeHeaders", !.answer = answer, !.status = answer.status]
  /\ UNCHANGED <<guest, mod, mem, client, cred, rt, told>>

\* Mutant: the request does not carry the caller's context.
RequestFails_Deaf == InGuest /\ ~Ended(call.by) /\ Perform(Failure)

RequestFails == Perform(Failure)

PlaceHeaders ==
  /\ call.stage = "placeHeaders"
  /\ \/ Placed(1, call.answer.headers, "headers", "placeBody")
     \/ NotPlaced(call.answer.headers, "sent")
  /\ UNCHANGED <<client, cred, rt, told>>
PlaceBody ==
  /\ call.stage = "placeBody"
  /\ Placed(2, call.answer.body, "body", "sent") \/ NotPlaced(call.answer.body, "sent")
  /\ UNCHANGED <<client, cred, rt, told>>

-----------------------------------------------------------------------------
(* The way out: the error is fetched, every buffer is freed, and then the  *)
(* memory is let go.  None of these calls heeds the caller's context.      *)

Diagnosed(g) == IF g.last = NoError THEN g ELSE Dealloc(TakeRegistered(g), g.last.buf)
\* One after the other; nothing but the table of buffers changes.
FreeAll(g, bufs) ==
  LET freed[i \in 0..Len(bufs)] == IF i = 0 THEN g ELSE Dealloc(freed[i - 1], bufs[i])
      all == freed[Len(bufs)]
  IN  [g EXCEPT !.bufs = all.bufs, !.empties = all.empties]

Leave ==
  /\ call.stage = "left"
  /\ LET asks  == call.err \cap Status # {}
         calls == asks \/ call.bufs # <<>>
         into  == ~mod.closed
     IN  /\ guest' = IF into THEN FreeAll(IF asks THEN Diagnosed(guest) ELSE guest, call.bufs) ELSE guest
         /\ mod' = IF ~into /\ calls THEN Closed ELSE mod
         /\ mem' = Exit(IF ~into /\ calls THEN Release(mem) ELSE mem)
         /\ call' = [call EXCEPT !.stage = "out",
                                 !.diag  = IF asks /\ into THEN guest.last ELSE NoError,
                                 !.err   = IF asks /\ ~into THEN @ \union {"trap"} ELSE @]
  /\ UNCHANGED <<client, cred, rt, told>>

CloseTrapped == mod' = Closed /\ mem' = Release(mem)

\* What Client.call makes of the outcome.  It closes a client whose module was
\* closed under the call, and one whose guest trapped.
Judge ==
  /\ call.stage = "out"
  /\ LET trapped == "trap" \in call.err /\ ~mod.closed
         failed  == call.err # {} \/ mod.closed
         growth  == IF failed /\ mem.refused # call.growth THEN mem.reason ELSE None
         err     == IF mod.closed THEN call.err \union {"interrupted"} ELSE call.err
     IN  /\ IF trapped THEN CloseTrapped ELSE UNCHANGED <<mod, mem>>
         /\ client' = [client EXCEPT !.closed = @ \/ mod.closed \/ trapped]
         /\ told' =
              [call |-> client.calls, err |-> err, diag |-> call.diag, growth |-> growth,
               token |-> IF failed THEN client.tokenErr ELSE None]
         /\ Goes(call.by, IF call.op # "init" THEN Idle(rt[call.by])
                          ELSE To(rt[call.by], IF failed THEN "abandon" ELSE "made"))
         /\ call' = NoCall
  /\ UNCHANGED <<guest, cred>>

-----------------------------------------------------------------------------
(* The end of a client.                                                    *)

ReleaseInstance ==
  /\ guest' = IF mod.closed THEN guest ELSE Shutdown(guest)
  /\ mod' = Closed
  /\ mem' = Release(IF mod.closed THEN mem ELSE Exit(EnterMem(mem)))

ReleaseCredentials(c) == IF c.kind = "auto" THEN [c EXCEPT !.releases = @ + 1] ELSE c

\* Close, idempotent on what has been released.
CloseNow ==
  IF client.released THEN UNCHANGED <<guest, mod, mem, client, cred>>
  ELSE /\ ReleaseInstance
       /\ client' = [client EXCEPT !.released = TRUE, !.closed = TRUE]
       /\ cred' = ReleaseCredentials(cred)

Close(r) ==
  /\ rt[r].pc = "close" /\ call.stage = "none"
  /\ CloseNow
  /\ Goes(r, Idle(rt[r]))
  /\ UNCHANGED <<call, told>>

\* The client is dropped without a Close, and its cleanup runs.
Cleanup ==
  /\ client.ready /\ ~client.released /\ ~client.lost /\ \A r \in Routines : rt[r].pc = "idle"
  /\ ReleaseInstance
  /\ client' = [client EXCEPT !.lost = TRUE]
  /\ UNCHANGED <<call, cred, rt, told>>

-----------------------------------------------------------------------------
(* NewClient.                                                              *)

Wiped(c) == [c EXCEPT !.key = IF @ = "live" THEN "wiped" ELSE @]

\* A config that is refused consumes an explicit key without resolving it.
RefuseConfig(r) ==
  /\ rt[r].pc = "new"
  /\ cred' = IF cred.kind = "explicit" THEN Wiped([cred EXCEPT !.consumed = TRUE]) ELSE cred
  /\ Goes(r, Idle(rt[r]))
  /\ UNCHANGED <<guest, mod, mem, client, call, told>>

Consume(c) == [c EXCEPT !.consumed = TRUE, !.key = IF c.kind = "auto" THEN "live" ELSE @]

Resolve(r) ==
  /\ rt[r].pc = "new"
  /\ IF cred.kind = "explicit" /\ cred.consumed
     THEN Goes(r, Idle(rt[r])) /\ UNCHANGED cred
     ELSE Goes(r, To(rt[r], "resolved")) /\ cred' = Consume(cred)
  /\ UNCHANGED <<guest, mod, mem, client, call, told>>

\* Every failure until the client exists is NewClient's to clean up.
GiveUp(r) ==
  /\ cred' = [ReleaseCredentials(Wiped(cred)) EXCEPT !.encoded = @ \ {r}]
  /\ Goes(r, Idle(rt[r]))

\* Resolving fails, or the memory of the credentials is not locked, or there
\* is no key to encode.
NotEncoded(r) ==
  /\ rt[r].pc = "resolved"
  /\ cred.kind = "auto" \/ Strict \/ cred.key # "live"
  /\ GiveUp(r)
  /\ UNCHANGED <<guest, mod, mem, client, call, told>>

Encode(r) ==
  /\ rt[r].pc = "resolved" /\ cred.key = "live"
  /\ cred' = Wiped([cred EXCEPT !.encoded = @ \union {r}])
  /\ Goes(r, To(rt[r], "encoded"))
  /\ UNCHANGED <<guest, mod, mem, client, call, told>>

InstanceFails(r) ==
  /\ rt[r].pc = "encoded"
  /\ GiveUp(r)
  /\ UNCHANGED <<guest, mod, mem, client, call, told>>

Instantiate(r) ==
  /\ rt[r].pc = "encoded"
  /\ guest' = NoGuest
  /\ mod' = [closed |-> FALSE, held |-> TRUE]
  /\ mem' = [inFlight |-> 0, pending |-> FALSE, freed |-> FALSE, refused |-> 0, reason |-> None]
  /\ client' = [client EXCEPT !.made = @ + 1]
  /\ Goes(r, [To(rt[r], "call") EXCEPT !.op = "init"])
  /\ UNCHANGED <<call, cred, told>>

\* Mutant: a client that could not be initialised leaves its credentials to
\* NewClient as well.
Abandon_Twice(r) ==
  /\ rt[r].pc = "abandon" /\ call.stage = "none"
  /\ ReleaseInstance
  /\ client' = [client EXCEPT !.released = TRUE, !.closed = TRUE]
  /\ cred' = [ReleaseCredentials(ReleaseCredentials(cred)) EXCEPT !.encoded = @ \ {r}]
  /\ Goes(r, Idle(rt[r]))
  /\ UNCHANGED <<call, told>>

\* From then on the credentials are the client's, and its Close releases them.
Abandon(r) ==
  /\ rt[r].pc = "abandon" /\ call.stage = "none"
  /\ ReleaseInstance
  /\ client' = [client EXCEPT !.released = TRUE, !.closed = TRUE]
  /\ cred' = [ReleaseCredentials(cred) EXCEPT !.encoded = @ \ {r}]
  /\ Goes(r, Idle(rt[r]))
  /\ UNCHANGED <<call, told>>

Made(r) ==
  /\ rt[r].pc = "made"
  /\ client' = [client EXCEPT !.ready = TRUE]
  /\ cred' = [cred EXCEPT !.encoded = @ \ {r}]
  /\ Goes(r, Idle(rt[r]))
  /\ UNCHANGED <<guest, mod, mem, call, told>>

-----------------------------------------------------------------------------
(* What the goroutines set out to do.                                      *)

New(r) ==
  /\ rt[r].pc = "idle" /\ ~rt[r].asked /\ ~client.ready
  /\ cred.kind = "auto" => \A q \in Routines : ~rt[q].asked
  /\ Goes(r, [To(rt[r], "new") EXCEPT !.asked = TRUE])
  /\ UNCHANGED <<guest, mod, mem, client, call, cred, told>>

Use(r, op, malformed) ==
  /\ rt[r].pc = "idle" /\ client.ready /\ ~client.lost /\ client.calls < MaxCalls
  /\ Goes(r, [To(rt[r], "call") EXCEPT !.op = op, !.malformed = malformed])
  /\ UNCHANGED <<guest, mod, mem, client, call, cred, told>>

Finish(r) ==
  /\ rt[r].pc = "idle" /\ client.ready /\ ~client.lost /\ ~client.released
  /\ Goes(r, To(rt[r], "close"))
  /\ UNCHANGED <<guest, mod, mem, client, call, cred, told>>

Init ==
  /\ guest = NoGuest /\ call = NoCall
  /\ mod = [closed |-> FALSE, held |-> FALSE]
  /\ mem = [inFlight |-> 0, pending |-> FALSE, freed |-> FALSE, refused |-> 0, reason |-> None]
  /\ client = [ready |-> FALSE, made |-> 0, closed |-> FALSE, released |-> FALSE, lost |-> FALSE,
               calls |-> 0, tokenErr |-> None]
  /\ cred \in [kind : Kinds, consumed : {FALSE}, key : {"live", "none"}, encoded : {{}}, releases : {0}]
  /\ cred.key = "live" <=> cred.kind = "explicit"
  /\ rt = [r \in Routines |-> [pc |-> "idle", op |-> None, malformed |-> FALSE, ctx |-> "live", asked |-> FALSE]]
  /\ told = Silent

Next ==
  \/ \E r \in Routines :
       \/ New(r) \/ RefuseConfig(r) \/ Resolve(r) \/ NotEncoded(r) \/ Encode(r)
       \/ InstanceFails(r) \/ Instantiate(r) \/ Abandon(r) \/ Made(r)
       \/ \E u \in Uses : Use(r, u[1], u[2])
       \/ Lock(r) \/ Cancel(r) \/ Finish(r) \/ Close(r)
  \/ Stage \/ StageRefused \/ Barred \/ Run
  \/ Export \/ GotToken \/ Sent \/ Abort \/ Unwind \/ Watch
  \/ TokenGet \/ TokenFails \/ PlaceToken
  \/ (\E answer \in Answers : Perform(answer)) \/ RequestFails \/ PlaceHeaders \/ PlaceBody
  \/ Leave \/ Judge \/ Cleanup

\* The host and the guest go on by themselves.  A token source or a service
\* need not answer, but both give up when the context of the call ends.
Proceed ==
  \/ Stage \/ Barred \/ Run \/ Export \/ GotToken \/ Sent \/ Unwind
  \/ PlaceToken \/ PlaceHeaders \/ PlaceBody \/ Leave \/ Judge
  \/ InGuest /\ Ended(call.by) /\ (TokenFails \/ RequestFails)

Spec     == Init /\ [][Next]_vars
LiveSpec == Spec /\ WF_vars(Proceed)

-----------------------------------------------------------------------------
(* Properties.                                                             *)

TypeOK ==
  /\ mem.inFlight \in 0..1 /\ (mem.inFlight = 1 <=> call.stage \notin {"none", "out"})
  /\ mem.pending => mem.inFlight > 0
  /\ cred.key \in {"none", "live", "wiped"} /\ cred.encoded \subseteq Routines
  /\ call.stage # "none" => rt[call.by].pc = "call"

\* An address the allocator has, for every buffer.
BufferType == DOMAIN guest.bufs \subseteq 1..MaxAddr /\ guest.empties \in 0..2

\* The memory stays mapped under a guest that is running or waits for an
\* import: not even a module closed by the runtime, and then re-entered by the
\* host to place an answer, takes it away (Allocator.Free, Exit).
MappedUnderGuest == InGuest => ~mem.freed

\* The buffers an export was handed are registered, and nobody else's, until
\* the host frees them: no free of an earlier call, or of an error that was
\* handed over, hits an address that has been taken again (reclaim, clear).
InputsStay ==
  ~mem.freed /\ InGuest =>
    /\ \A b \in Range(call.bufs) : b.ptr \in DOMAIN guest.bufs
    /\ \A i \in DOMAIN call.bufs : guest.bufs[call.bufs[i].ptr] \in {Inputs(call.op)[i], "wiped"}

\* Between calls a live guest holds no buffer, no error and no copy of an
\* input, an answer or a token, however the calls before ended.
NothingBetweenCalls ==
  call.stage = "none" /\ client.made > 0 /\ ~client.closed /\ ~mod.closed =>
    guest.bufs = <<>> /\ guest.empties = 0 /\ guest.last = NoError /\ guest.work = {}

\* What the host places is always accepted: two empty buffers in one answer,
\* or an empty one after another, are told apart from one freed twice.
PlacedIsTaken ==
  /\ call.stage = "gotToken" => GetToken(guest, call.slots[1], call.status = "failed").valid
  /\ call.stage = "sent" => Send(guest, call.slots[1], call.slots[2], call.status # "ok").valid

\* What a call is told is about that call: the error behind its status, the
\* token source's error and the refused growth; a failed call in which Strict
\* refused a growth is told of it.
ToldOfThisCall ==
  /\ told.diag # NoError => told.diag.call = told.call /\ told.diag.status \in told.err
  /\ told.token \in {None, told.call}
  /\ told.err \cap Status # {} /\ "trap" \notin told.err => told.diag # NoError
  /\ told.growth \in {None, told.call}
  /\ told.err # {} /\ mem.reason = told.call => told.growth = told.call

\* A client that is closed, by Close, by its cleanup, by a context that ended or by a
\* trap, holds no keys: its memory has been wiped and freed.
ClosedHoldsNothing ==
  call.stage = "none" /\ (client.closed \/ client.lost) => mem.freed

\* Credentials make one client, and are released once: by NewClient until the
\* client exists, by the client's Close from then on.
OneOwner ==
  /\ client.made <= 1
  /\ cred.releases <= 1
  /\ client.released /\ cred.kind = "auto" => cred.releases = 1

\* When every NewClient has returned, whatever the outcome, neither the key nor
\* the encoded config is left in the host's memory.
InNewClient(r) ==
  \/ rt[r].pc \in {"new", "resolved", "encoded", "abandon", "made"}
  \/ rt[r].pc = "call" /\ rt[r].op = "init"
KeyConsumed ==
  (\E r \in Routines : rt[r].asked) /\ (\A r \in Routines : ~InNewClient(r)) =>
    cred.key # "live" /\ cred.encoded = {}

\* A call whose context has ended returns, wherever it was, and gives the lock
\* back to the others.
CancelledCallEnds ==
  \A r \in Routines : (call.by = r /\ rt[r].ctx = "ended") ~> (call.by # r)

\* The guest's memory lives exactly as long as it must: under a guest that runs
\* it stays, and with a client that is closed it goes (Allocator, Client.call).
MemoryAccounted == TypeOK /\ MappedUnderGuest /\ ClosedHoldsNothing

\* Every buffer has one owner from being registered to being freed: inputs stay
\* until the host frees them, answers are taken by the guest, and nothing is
\* left over between calls (buffers, last_error, transport::send).
BuffersAccounted == BufferType /\ InputsStay /\ PlacedIsTaken /\ NothingBetweenCalls

\* Credentials have one owner at a time, and the key none in the end (NewClient,
\* Client.Close).
SecretsOwned == OneOwner /\ KeyConsumed
=============================================================================
