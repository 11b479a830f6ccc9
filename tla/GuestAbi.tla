------------------------------ MODULE GuestAbi ------------------------------
(***************************************************************************)
(* The guest's side of the ABI: the buffers it has handed out or been      *)
(* given, the error recorded behind a status, and the cipher it holds.     *)
(*                                                                         *)
(* A guest is a record.  A buffer is a pointer and a length, as the host   *)
(* names it; every buffer with bytes has length 1, so that any two of them *)
(* could be taken for one another.  A buffer without bytes has length 0.   *)
(***************************************************************************)
EXTENDS Integers, Sequences, Functions

CONSTANTS
  MaxAddr,   \* addresses of the guest's allocator
  None

Null     == [ptr |-> 0, len |-> 0]
EmptyPtr == -1
NoError  == [buf |-> Null, status |-> "none", call |-> 0]

NoGuest == [bufs |-> <<>>, empties |-> 0, last |-> NoError, cipher |-> FALSE,
            shutDown |-> FALSE, work |-> {}]

\* The allocator gives out the lowest free address, so that a freed one is
\* taken again at once.
FreeAddr(g) ==
  LET free == (1..MaxAddr) \ DOMAIN g.bufs IN CHOOSE a \in free : \A b \in free : a <= b

With(bufs, p, what) == [q \in DOMAIN bufs \union {p} |-> IF q = p THEN what ELSE bufs[q]]

-----------------------------------------------------------------------------
(* buffers: a buffer with bytes is kept under its address, the empty ones  *)
(* share a pointer and are counted.                                        *)

Register(g, len, what) ==
  IF len = 0 THEN [buf |-> [ptr |-> EmptyPtr, len |-> 0], guest |-> [g EXCEPT !.empties = @ + 1]]
  ELSE [buf |-> [ptr |-> FreeAddr(g), len |-> len],
        guest |-> [g EXCEPT !.bufs = With(@, FreeAddr(g), what)]]

\* A buffer that is not registered, or not with this length, is left alone.
Reclaim(g, b) ==
  IF b.len = 0 /\ b.ptr = EmptyPtr
  THEN [ok |-> g.empties > 0, guest |-> [g EXCEPT !.empties = IF @ > 0 THEN @ - 1 ELSE @]]
  ELSE IF b.ptr \in DOMAIN g.bufs /\ b.len = 1
  THEN [ok |-> TRUE, guest |-> [g EXCEPT !.bufs = Restrict(@, DOMAIN @ \ {b.ptr})]]
  ELSE [ok |-> FALSE, guest |-> g]

Dealloc(g, b) == Reclaim(g, b).guest

Take(g, b) == IF b = Null THEN [ok |-> TRUE, guest |-> g] ELSE Reclaim(g, b)

WipeAll(g) == [g EXCEPT !.last = NoError, !.bufs = <<>>, !.empties = 0]

\* The bytes of an input the guest has copied, or decoded, are wiped in place.
WipeInput(g, b) == [g EXCEPT !.bufs[b.ptr] = "wiped"]

-----------------------------------------------------------------------------
(* last_error: one error, kept in a registered buffer until it is asked    *)
(* for or the next export begins.                                          *)

Clear(g) == IF g.last = NoError THEN g ELSE [Dealloc(g, g.last.buf) EXCEPT !.last = NoError]

Store(g, status, call) ==
  LET r == Register(Clear(g), 1, "error")
  IN  [r.guest EXCEPT !.last = [buf |-> r.buf, status |-> status, call |-> call]]

TakeRegistered(g) == [g EXCEPT !.last = NoError]

-----------------------------------------------------------------------------
(* call: what an export does around its body.                              *)

Begin(g) == Clear(g)

\* The body's temporaries are dropped, and wiped, as it returns.
Done(g) == [Clear(g) EXCEPT !.work = {}]

Ensure(g, status, call) ==
  IF g.last # NoError /\ g.last.status = status THEN g ELSE Store(g, status, call)
Failed(g, status, call) == [Ensure(g, status, call) EXCEPT !.work = {}]

-----------------------------------------------------------------------------
(* The exports, up to the first import.  An input that does not decode is  *)
(* refused before the state is looked at, and secrets are wiped from the   *)
(* input whatever comes of it.                                             *)

Status == {"encoding", "state", "transport", "kms"}

Secrets(op) == IF op \in {"init", "encrypt"} THEN {op} ELSE {}

Enter(g, op, args) ==
  LET h == Begin(g)
  IN  IF Secrets(op) = {} THEN h
      ELSE [WipeInput(h, args[1]) EXCEPT !.work = Secrets(op)]

\* None when the export goes on to ask for a token.
Refusal(g, op, malformed) ==
  CASE malformed                                         -> "encoding"
    [] ~malformed /\ op = "init" /\ (g.shutDown \/ g.cipher) -> "state"
    [] ~malformed /\ op \in {"encrypt", "decrypt"} /\ ~g.cipher -> "state"
    [] OTHER                                             -> None

Install(g)  == [g EXCEPT !.cipher = TRUE]
Shutdown(g) == WipeAll([Clear(g) EXCEPT !.shutDown = TRUE, !.cipher = FALSE])

-----------------------------------------------------------------------------
(* The imports, as the guest takes what the host has placed.               *)

GetToken(g, slot, failed) ==
  LET t == Take(g, slot)
  IN  [ok |-> ~failed /\ t.ok, valid |-> t.ok,
       guest |-> IF failed \/ ~t.ok THEN t.guest ELSE [t.guest EXCEPT !.work = @ \union {"token"}]]

\* Mutant: the body is left when the headers are refused, or the request failed.
Send_Eager(g, headers, body, failed) ==
  LET h == Take(g, headers)
      b == Take(h.guest, body)
  IN  [ok |-> ~failed /\ h.ok /\ b.ok, valid |-> h.ok /\ b.ok,
       guest |-> IF failed \/ ~h.ok THEN h.guest ELSE b.guest]

\* Both buffers are taken before either is judged.
Send(g, headers, body, failed) ==
  LET h == Take(g, headers)
      b == Take(h.guest, body)
  IN  [ok |-> ~failed /\ h.ok /\ b.ok, valid |-> h.ok /\ b.ok, guest |-> b.guest]
=============================================================================
