--------------------------- MODULE DataKeySource ---------------------------
(***************************************************************************)
(* What the DataKeySource trait promises to the code that seals and opens  *)
(* values: one call at a time, answered by one key for every payload, in   *)
(* payload order, or by an error and nothing.                              *)
(***************************************************************************)
EXTENDS Naturals, Sequences

VARIABLES
  asked,    \* the call: whether it is open, op, keyset and specs
  answer    \* what it is answered by: nothing yet, an error, or its keys

Unanswered == [state |-> "none", keys |-> <<>>]

\* A data key, and the tag kept beside what it seals, are what ZeroKMS made of
\* an IV, a descriptor and a keyset, so the triple stands for both.
KeyOf(keyset, spec) == [iv |-> spec.iv, keyset |-> keyset, desc |-> spec.desc]

\* ZeroKMS makes a key for any IV and descriptor, and gives it back to a
\* request that brings the tag of that IV, descriptor and keyset.
Granted(op, keyset, spec) ==
  op = "generate" \/ spec.tag = KeyOf(keyset, spec)

Ask ==
  /\ ~asked.open /\ asked'.open
  /\ answer' = Unanswered

Answer ==
  /\ asked.open /\ answer = Unanswered
  /\ \A i \in DOMAIN asked.specs : Granted(asked.op, asked.keyset, asked.specs[i])
  /\ answer' = [state |-> "keys",
                keys  |-> [i \in DOMAIN asked.specs |-> KeyOf(asked.keyset, asked.specs[i])]]
  /\ UNCHANGED asked

Refuse ==
  /\ asked.open /\ answer = Unanswered
  /\ answer' = [state |-> "error", keys |-> <<>>]
  /\ UNCHANGED asked

\* The caller has its answer, or has dropped the future it awaited.
Leave ==
  /\ asked.open /\ ~asked'.open
  /\ answer' = Unanswered

Init == ~asked.open /\ answer = Unanswered
Next == Ask \/ Answer \/ Refuse \/ Leave
Spec == Init /\ [][Next]_<<asked, answer>>
=============================================================================
