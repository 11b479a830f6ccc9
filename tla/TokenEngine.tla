----------------------------- MODULE TokenEngine -----------------------------
(***************************************************************************)
(* What a token engine promises the code that holds one, whatever the      *)
(* clock, the store, the refresher and the scheduler do.                   *)
(*                                                                         *)
(*   - at most one exchange runs at a time, and it begins only while a     *)
(*     client waits and the engine holds no token or a stale one;          *)
(*   - the token only gets newer: from the store while there is none, and  *)
(*     from an exchange that ends;                                         *)
(*   - a client leaves with a token only if the engine holds one.          *)
(*                                                                         *)
(* An exchange outlives the clients that waited for it.  AutoRefresh       *)
(* implements this; Federation is built from engines that do.              *)
(***************************************************************************)
EXTENDS Integers

VARIABLES
  held,        \* number of the token held, 0 for none
  stale,       \* is that token due for a refresh?
  exchanging,  \* is an exchange under way?
  asking,      \* clients inside get_token
  served       \* clients whose last answer was a token

vars == <<held, stale, exchanging, asking, served>>

Init == /\ held \in Nat /\ stale \in BOOLEAN /\ exchanging = FALSE
        /\ asking = {} /\ served = {}

\* Clients stop waiting: with the token, with an error, or cancelled.
Leave == /\ asking' \subseteq asking
         /\ served' \ served \subseteq asking \ asking'
         /\ served' \ served # {} => held' # 0

\* A client calls get_token.
Ask == /\ asking \subseteq asking' /\ served' \subseteq served
       /\ UNCHANGED <<held, stale, exchanging>>

Age == /\ held # 0 /\ stale'
       /\ UNCHANGED <<held, exchanging, asking, served>>

Answer == Leave /\ UNCHANGED <<held, stale, exchanging>>

\* A token comes from the store.
Adopt == /\ held = 0 /\ held' > 0 /\ asking # {}
         /\ Leave
         /\ UNCHANGED exchanging

Begin == /\ ~exchanging /\ exchanging'
         /\ asking # {}
         /\ UNCHANGED <<held, stale>> \/ held = 0
         /\ held' = 0 \/ stale'
         /\ UNCHANGED <<asking, served>>

\* The exchange ends, with a newer token or without.
End == /\ exchanging /\ ~exchanging'
       /\ held' > held \/ UNCHANGED <<held, stale>>
       /\ Leave

Next == Ask \/ Age \/ Answer \/ Adopt \/ Begin \/ End

Spec == Init /\ [][Next]_vars
=============================================================================
