----------------------------- MODULE KmsClient -----------------------------
(***************************************************************************)
(* The ZeroKMS client: one call for many keys, sent as several requests.   *)
(*                                                                         *)
(* A call takes a token, cuts its payloads into chunks, and keeps a few    *)
(* requests going at a time.  Their answers arrive in any order and are    *)
(* taken in the order the chunks were cut.                                 *)
(***************************************************************************)
EXTENDS Naturals, Sequences, FiniteSetsExt

CONSTANTS
  None,
  MaxKeysPerReq,      \* max_keys_per_req
  MaxConcurrentReqs   \* max_concurrent_reqs

VARIABLE call   \* the call in progress

Idle == [stage |-> "idle", op |-> None, keyset |-> None, specs |-> <<>>,
         got |-> <<>>, taken |-> 0, out |-> <<>>]

Asked  == [open |-> call.stage # "idle", op |-> call.op, keyset |-> call.keyset,
           specs |-> call.specs]
Result == [state |-> CASE call.stage = "done"  -> "keys"
                       [] call.stage = "error" -> "error"
                       [] OTHER                -> "none",
           keys |-> IF call.stage = "done" THEN call.out ELSE <<>>]

Source == INSTANCE DataKeySource WITH asked <- Asked, answer <- Result

-----------------------------------------------------------------------------

Chunks(c) == (Len(c.specs) + MaxKeysPerReq - 1) \div MaxKeysPerReq
Chunk(c, i) ==
  SubSeq(c.specs, (i - 1) * MaxKeysPerReq + 1,
         Min({i * MaxKeysPerReq, Len(c.specs)}))

\* generate_keys or retrieve_keys is called, and asks for a token first.
Start(op, keyset, specs) ==
  /\ call.stage = "idle"
  /\ call' = [stage |-> "token", op |-> op, keyset |-> keyset, specs |-> specs,
              got |-> <<>>, taken |-> 0, out |-> <<>>]

InFlight == [state |-> "flight", keys |-> <<>>]
Failed   == [state |-> "error", keys |-> <<>>]
Taken    == [state |-> "taken", keys |-> <<>>]

GetToken == call.stage = "token" /\ call' = [call EXCEPT !.stage = "sending"]
NoToken  == call.stage = "token" /\ call' = [call EXCEPT !.stage = "error"]

\* Mutant: the limit is on the requests made, not on those going.
Send_Capped ==
  /\ call.stage = "sending"
  /\ Len(call.got) < Chunks(call)
  /\ Len(call.got) < MaxConcurrentReqs
  /\ call' = [call EXCEPT !.got = Append(@, InFlight)]

\* The next chunk goes out, while fewer than the limit are waiting to be taken,
\* answered or not.
Send ==
  /\ call.stage = "sending"
  /\ Len(call.got) < Chunks(call)
  /\ Len(call.got) - call.taken < MaxConcurrentReqs
  /\ call' = [call EXCEPT !.got = Append(@, InFlight)]

\* A request is answered.  One key that is not granted refuses the request it
\* is in; an answer with too few keys is refused by the client.
Reply(i, result) ==
  /\ call.stage = "sending" /\ call.got[i] = InFlight
  /\ LET chunk == Chunk(call, i)
         keys  == [k \in DOMAIN chunk |-> Source!KeyOf(call.keyset, chunk[k])]
         sent  == IF result = "short" THEN SubSeq(keys, 1, Len(keys) - 1) ELSE keys
     IN  /\ result # "failed" =>
              \A k \in DOMAIN chunk : Source!Granted(call.op, call.keyset, chunk[k])
         /\ call' = [call EXCEPT !.got = [@ EXCEPT ![i] =
                       IF result = "failed" \/ Len(sent) # Len(chunk) THEN Failed
                       ELSE [state |-> "keys", keys |-> sent]]]

\* Mutant: answers are taken in the order they arrive.
Take_AsAnswered ==
  /\ call.stage = "sending"
  /\ \E i \in DOMAIN call.got :
       /\ call.got[i] \notin {InFlight, Taken}
       /\ call' = IF call.got[i] = Failed THEN [call EXCEPT !.stage = "error"]
                  ELSE [call EXCEPT !.taken = @ + 1, !.out = @ \o call.got[i].keys,
                                    !.got[i] = Taken]

\* The oldest request's answer is taken: its keys join the output, or its
\* error ends the call and drops every other request.
Take ==
  /\ call.stage = "sending" /\ call.taken < Len(call.got)
  /\ LET head == call.got[call.taken + 1]
     IN  /\ head # InFlight
         /\ call' = IF head = Failed THEN [call EXCEPT !.stage = "error"]
                    ELSE [call EXCEPT !.taken = @ + 1, !.out = @ \o head.keys,
                                      !.got = [@ EXCEPT ![call.taken + 1] = Taken]]

Finish ==
  /\ call.stage = "sending" /\ call.taken = Chunks(call)
  /\ call' = [call EXCEPT !.stage = "done"]

Leave == call.stage # "idle" /\ call' = Idle

\* What the client, its token source and the server do by themselves.
Step ==
  \/ GetToken \/ NoToken \/ Send \/ Take \/ Finish
  \/ \E i \in DOMAIN call.got, result \in {"keys", "short", "failed"} : Reply(i, result)
=============================================================================
