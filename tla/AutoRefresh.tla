----------------------------- MODULE AutoRefresh -----------------------------
(***************************************************************************)
(* The token engine of stack-auth (auto_refresh.rs): one cached token,     *)
(* many concurrent callers of get_token, and refresh tasks that outlive    *)
(* the caller that started them.                                           *)
(*                                                                         *)
(* A critical section of the state mutex is one action unless another      *)
(* actor can act inside it: `lock` records a refresh task that keeps the   *)
(* mutex across its awaits, and a caller about to join the Notify list,    *)
(* which a dying task may serve without the mutex.                         *)
(*                                                                         *)
(* Time is the injected clock, in whole seconds.  Access tokens are        *)
(* numbered in the order they are issued, and the refresh token issued     *)
(* with access token n is n: a refresh token is 0 when there is none.      *)
(***************************************************************************)
EXTENDS Integers

CONSTANTS
  Callers,      \* threads that call get_token
  Tasks,        \* slots for spawned refresh tasks
  Rotating,     \* TRUE: device session (one-use refresh tokens);
                \* FALSE: access key or JWT (re-authenticates, has a store)
  Lifetimes,    \* values of expires_in the server may answer
  LEEWAY,       \* EXPIRY_LEEWAY_SECS
  DENIAL_TTL,   \* DENIAL_TTL_SECS
  ClockJumps,   \* may the wall clock be set backwards?
  Deaths,       \* how a task may die: "panic" (at an await), "unpolled"
                \* (dropped by its runtime before it ran at all)
  MaxTime,      \* bound on the clock
  MaxTokens     \* bound on the tokens the server issues

ASSUME AutoRefreshAssumption ==
  /\ Rotating \in BOOLEAN /\ ClockJumps \in BOOLEAN
  /\ Deaths \subseteq {"panic", "unpolled"}
  /\ Lifetimes \subseteq Nat
  /\ LEEWAY \in Nat /\ DENIAL_TTL \in Nat
  /\ MaxTime \in Nat /\ MaxTokens \in Nat \ {0}
  /\ 0 \notin Tasks \cup Callers /\ Tasks \cap Callers = {}

VARIABLES
  clock,        \* clock.now_unix_secs()
  token,        \* State.token
  denial,       \* State.denial: when it was recorded, or NoDenial
  lastError,    \* State.last_refresh_error, by class
  inProgress,   \* refresh_in_progress
  lock,         \* who keeps the state mutex across steps, or Free
  store,        \* what the external TokenStore holds
  pc,           \* where each caller is in get_token
  loaded,       \* the caller's local `loaded`
  readAt,       \* the caller's local `now` after a wake-up
  waitsFor,     \* the task a caller joins, or Free
  task,         \* the refresh tasks
  issued,       \* number of access tokens the server has issued
  live,         \* the refresh token the server would accept, or 0
  spent,        \* refresh tokens the server has exchanged
  unanswered,   \* those among them whose answer never reached the client
  replayed,     \* refresh tokens presented after they were spent
  stranded      \* a credential died with its task, or after a store error

stateVars  == <<token, denial, lastError>>
callerVars == <<pc, loaded, readAt, waitsFor>>
serverVars == <<issued, live, spent, unanswered, replayed>>
vars == <<clock, stateVars, inProgress, lock, store, callerVars, task,
          serverVars, stranded>>

-----------------------------------------------------------------------------
Free     == 0
NoDenial == -1
NoToken  == [id |-> 0, exp |-> 0, refresh |-> 0]
Token    == [id : Nat, exp : Nat, refresh : Nat]

\* Errors of Refresher::refresh: an account refusal, any other failure, and
\* AuthError::Store, which says the exchange itself succeeded.
Errors == {"refused", "failed", "store"}

\* The ways get_token returns.
Returned == {"token", "denied", "failed", "store", "expired", "not_found",
             "internal"}

Failure == {"denied", "failed", "expired", "not_found"}

Waiting == {"enter", "loading", "relock", "joining", "registering",
            "registered", "parked", "woken", "recheck"}

TaskState ==
  [pc : {"idle", "spawned", "exchange", "saving", "installing", "failing",
         "notify"},
   credential : Nat, current : Token, new : Token,
   err : Errors \cup {"none"}, result : Returned \cup {"none"}]

IdleTask == [pc |-> "idle", credential |-> 0, current |-> NoToken,
             new |-> NoToken, err |-> "none", result |-> "none"]

TypeOK ==
  /\ clock \in Nat
  /\ token \in Token
  /\ denial \in Nat \cup {NoDenial}
  /\ lastError \in Errors \cup {"none"}
  /\ inProgress \in BOOLEAN
  /\ lock \in Tasks \cup Callers \cup {Free}
  /\ store \in Token
  /\ pc \in [Callers -> {"idle"} \cup Waiting \cup Returned]
  /\ loaded \in [Callers -> Token]
  /\ readAt \in [Callers -> Nat]
  /\ waitsFor \in [Callers -> Tasks \cup {Free}]
  /\ task \in [Tasks -> TaskState]
  /\ issued \in Nat /\ live \in Nat
  /\ spent \in SUBSET Nat /\ unanswered \in SUBSET Nat
  /\ replayed \in SUBSET Nat
  /\ stranded \in BOOLEAN

-----------------------------------------------------------------------------
\* Token::is_expired_at: true LEEWAY seconds early, to refresh ahead of time.
IsExpired(t, now) == now + LEEWAY >= t.exp

\* Token::is_usable_at, of a token that may be absent.
IsUsable(t, now) == t.id # 0 /\ now < t.exp

\* StickyDenial::is_stale, negated: a reading before the moment of recording
\* counts as stale.
IsFresh(d, now) == d # NoDenial /\ now >= d /\ now - d < DENIAL_TTL

\* State::fresh_denial discards a stale refusal as a side effect.
DiscardStale(now) == denial' = IF IsFresh(denial, now) THEN denial ELSE NoDenial

\* Refresher::try_credential: can a refresh be attempted from this token, and
\* what is left of the token when its credential has been moved out.
HasCredential(t) == Rotating => t.refresh # 0
WithoutCredential(t) == IF Rotating THEN [t EXCEPT !.refresh = 0] ELSE t

\* Mutant: restore forgets the credential.
Restore_Forget(t, credential) == t

\* Refresher::restore, into whatever token is cached by then.
Restore(t, credential) ==
  IF Rotating /\ t.id # 0 THEN [t EXCEPT !.refresh = credential] ELSE t

\* Mutant: a store error is treated like any other failure.
CredentialConsumed_Never(e) == FALSE

\* credential_consumed: a store error says the exchange itself succeeded.
CredentialConsumed(e) == e = "store"

\* Mutant: the class is passed through unmapped.
ErrorOf_Raw(e) == e

\* The error a caller sees for an error class.
ErrorOf(e) == IF e = "refused" THEN "denied" ELSE e

-----------------------------------------------------------------------------
Init ==
  /\ clock = 0
  /\ IF Rotating
     THEN \E life \in Lifetimes :
            token = [id |-> 1, exp |-> life, refresh |-> 1]
     ELSE token = NoToken
  /\ issued = (IF Rotating THEN 1 ELSE 0) /\ live = issued
  /\ denial = NoDenial /\ lastError = "none"
  /\ inProgress = FALSE /\ lock = Free
  /\ store = NoToken
  /\ pc = [c \in Callers |-> "idle"]
  /\ loaded = [c \in Callers |-> NoToken]
  /\ readAt = [c \in Callers |-> 0]
  /\ waitsFor = [c \in Callers |-> Free]
  /\ task = [t \in Tasks |-> IdleTask]
  /\ spent = {} /\ unanswered = {} /\ replayed = {}
  /\ stranded = FALSE

-----------------------------------------------------------------------------
(* Callers.                                                                *)

\* Caller c returns r (its locals go out of scope).
Return(c, r) ==
  /\ pc' = [pc EXCEPT ![c] = r]
  /\ loaded' = [loaded EXCEPT ![c] = NoToken]
  /\ readAt' = [readAt EXCEPT ![c] = 0]
  /\ waitsFor' = [waitsFor EXCEPT ![c] = Free]

Goto(c, label, t) ==
  /\ pc' = [pc EXCEPT ![c] = label]
  /\ loaded' = [loaded EXCEPT ![c] = NoToken]
  /\ waitsFor' = [waitsFor EXCEPT ![c] = t]
  /\ UNCHANGED readAt

\* A thread calls get_token and asks for the state lock.
Call(c) ==
  /\ pc[c] \notin Waiting
  /\ pc' = [pc EXCEPT ![c] = "enter"]
  /\ UNCHANGED <<clock, stateVars, inProgress, lock, store, loaded, readAt,
                 waitsFor, task, serverVars, stranded>>

\* Mutant: the flag is not set.
StartRefresh_NoFlag(c, tok) ==
  \E t \in Tasks :
    /\ task[t].pc = "idle"
    /\ task' = [task EXCEPT ![t] = [IdleTask EXCEPT !.pc = "spawned",
                                      !.credential = tok.refresh]]
    /\ lock' = t
    /\ token' = WithoutCredential(tok)
    /\ denial' = NoDenial
    /\ Goto(c, "joining", t)
    /\ UNCHANGED inProgress

\* start_refresh: the flag is set and a task is spawned that owns the lock
\* and the credential; the caller only joins it.
StartRefresh(c, tok) ==
  \E t \in Tasks :
    /\ task[t].pc = "idle"
    /\ task' = [task EXCEPT ![t] = [IdleTask EXCEPT !.pc = "spawned",
                                      !.credential = tok.refresh]]
    /\ lock' = t
    /\ inProgress' = TRUE
    /\ token' = WithoutCredential(tok)
    /\ denial' = NoDenial
    /\ Goto(c, "joining", t)

\* The refreshes whose outcome has not been recorded yet.
InFlight == {t \in Tasks : task[t].pc \in
               {"spawned", "exchange", "saving", "installing", "failing"}}

\* get_token from the moment the token to work with (tok) is settled, up to
\* its return or its next await.  The state lock is free throughout.
Decide(c, tok) ==
  LET refresh == tok.id = 0 \/ (IsExpired(tok, clock) /\ ~inProgress)
      denied == IsFresh(denial, clock)
      usable == IsUsable(tok, clock)
      keep == token' = tok /\ UNCHANGED <<lock, task, inProgress>> IN
  \/ /\ refresh /\ denied
     /\ keep /\ UNCHANGED denial
     /\ Return(c, IF usable THEN "token" ELSE "denied")
  \/ /\ refresh /\ ~denied /\ ~HasCredential(tok)
     /\ keep /\ denial' = NoDenial
     /\ Return(c, IF tok.id = 0 THEN "not_found"
                  ELSE IF usable THEN "token" ELSE "expired")
  \/ /\ refresh /\ ~denied /\ HasCredential(tok)
     /\ StartRefresh(c, tok)
  \/ /\ ~refresh /\ (~IsExpired(tok, clock) \/ usable)
     /\ keep /\ UNCHANGED denial
     /\ Return(c, "token")
  \/ /\ ~refresh /\ IsExpired(tok, clock) /\ ~usable
     /\ token' = tok /\ lock' = c /\ UNCHANGED <<denial, task, inProgress>>
     /\ Goto(c, "registering", Free)

\* get_token up to the store read: with no token, a standing refusal is
\* answered first, and the lock is dropped for the read.
Enter(c) ==
  /\ pc[c] = "enter" /\ lock = Free
  /\ IF token.id # 0
     THEN Decide(c, token)
     ELSE /\ DiscardStale(clock)
          /\ IF IsFresh(denial, clock)
             THEN Return(c, "denied")
             ELSE Goto(c, "loading", Free)
          /\ UNCHANGED <<token, lock, task, inProgress>>
  /\ UNCHANGED <<clock, lastError, store, serverVars, stranded>>

\* store.load().await
Load(c) ==
  /\ pc[c] = "loading"
  /\ pc' = [pc EXCEPT ![c] = "relock"]
  /\ loaded' = [loaded EXCEPT ![c] = store]
  /\ UNCHANGED <<clock, stateVars, inProgress, lock, store, readAt, waitsFor,
                 task, serverVars, stranded>>

\* Mutant: the double check is gone.
Reloaded_Unchecked(c) == loaded[c]

\* The loaded token is used only if no other caller has put one there
\* meanwhile.
Reloaded(c) == IF token.id = 0 THEN loaded[c] ELSE token

\* The lock is taken again after the store read.
Relock(c) ==
  /\ pc[c] = "relock" /\ lock = Free
  /\ Decide(c, Reloaded(c))
  /\ UNCHANGED <<clock, lastError, store, serverVars, stranded>>

\* wait_for_in_flight_refresh: `enable()` puts c on the Notify list before the
\* lock is dropped.
Register(c) ==
  /\ pc[c] = "registering"
  /\ pc' = [pc EXCEPT ![c] = "registered"]
  /\ lock' = Free
  /\ UNCHANGED <<clock, stateVars, inProgress, store, loaded, readAt, waitsFor,
                 task, serverVars, stranded>>

\* Mutant: no second look at the flag.
Recheck_Blind(c) ==
  /\ pc[c] = "registered"
  /\ pc' = [pc EXCEPT ![c] = "parked"]
  /\ UNCHANGED <<clock, stateVars, inProgress, lock, store, loaded, readAt,
                 waitsFor, task, serverVars, stranded>>

\* ... and the flag is read once more before awaiting the notification.
Recheck(c) ==
  /\ pc[c] = "registered"
  /\ pc' = [pc EXCEPT ![c] = IF inProgress THEN "parked" ELSE "woken"]
  /\ UNCHANGED <<clock, stateVars, inProgress, lock, store, loaded, readAt,
                 waitsFor, task, serverVars, stranded>>

\* After the wake-up `now` is read before the lock is asked for.
ReadClock(c) ==
  /\ pc[c] = "woken"
  /\ pc' = [pc EXCEPT ![c] = "recheck"]
  /\ readAt' = [readAt EXCEPT ![c] = clock]
  /\ UNCHANGED <<clock, stateVars, inProgress, lock, store, loaded, waitsFor,
                 task, serverVars, stranded>>

\* The end of wait_for_in_flight_refresh: a usable token, else the refusal,
\* else the error of the last refresh, else Expired (or NotFound).
Answer(c) ==
  LET now == readAt[c] IN
  /\ pc[c] = "recheck" /\ lock = Free
  /\ IF IsUsable(token, now)
     THEN Return(c, "token") /\ UNCHANGED denial
     ELSE /\ DiscardStale(now)
          /\ Return(c, IF IsFresh(denial, now) THEN "denied"
                       ELSE IF lastError # "none" THEN ErrorOf(lastError)
                       ELSE IF token.id = 0 THEN "not_found" ELSE "expired")
  /\ UNCHANGED <<clock, token, lastError, inProgress, lock, store, task,
                 serverVars, stranded>>

\* The caller's future is dropped.  A refresh it started goes on.
Cancel(c) ==
  /\ pc[c] \in Waiting \ {"registering", "registered"}
  /\ Return(c, "idle")
  /\ UNCHANGED <<clock, stateVars, inProgress, lock, store, task, serverVars,
                 stranded>>

-----------------------------------------------------------------------------
(* Refresh tasks.                                                          *)

\* The task completes: whoever still joins it gets its result, and a lock it
\* kept is released.
Finish(t, result, woken) ==
  /\ task' = [task EXCEPT ![t] = IdleTask]
  /\ lock' = IF lock = t THEN Free ELSE lock
  /\ pc' = [c \in Callers |->
              IF pc[c] = "joining" /\ waitsFor[c] = t THEN result
              ELSE IF c \in woken THEN "woken" ELSE pc[c]]
  /\ waitsFor' = [c \in Callers |->
                    IF pc[c] = "joining" /\ waitsFor[c] = t THEN Free
                                                            ELSE waitsFor[c]]
  /\ UNCHANGED <<loaded, readAt>>

\* run_refresh: with a usable token the lock is released for the exchange
\* (refresh_non_blocking), otherwise it is kept (refresh_blocking).
Run(t) ==
  /\ task[t].pc = "spawned"
  /\ task' = [task EXCEPT ![t] = [@ EXCEPT !.pc = "exchange", !.current = token]]
  /\ lock' = IF IsUsable(token, clock) THEN Free ELSE lock
  /\ UNCHANGED <<clock, stateVars, inProgress, store, callerVars, serverVars,
                 stranded>>

\* Refresher::refresh succeeds.  The server spends a rotating refresh token
\* and may or may not send a new one.
ExchangeOk(t) ==
  /\ task[t].pc = "exchange"
  /\ issued < MaxTokens
  /\ task[t].credential \notin spent
  /\ \E life \in Lifetimes, r \in (IF Rotating THEN {0, issued + 1} ELSE {0}) :
       /\ task' = [task EXCEPT ![t] = [@ EXCEPT !.pc = "saving",
                     !.new = [id |-> issued + 1, exp |-> clock + life,
                              refresh |-> r]]]
       /\ live' = r
  /\ issued' = issued + 1
  /\ spent' = IF Rotating THEN spent \cup {task[t].credential} ELSE spent
  /\ UNCHANGED <<clock, stateVars, inProgress, lock, store, callerVars,
                 unanswered, replayed, stranded>>

\* Refresher::refresh fails: the server refuses; anything else goes wrong
\* before it has spent the credential, or after (its answer is lost); or the
\* answer arrives and cannot be persisted.
ExchangeErr(t) ==
  /\ task[t].pc = "exchange"
  /\ \E e \in Errors, reached \in BOOLEAN :
       LET cr == task[t].credential
           consumed == Rotating /\ cr \notin spent /\ reached IN
       /\ e = "store" => consumed
       /\ consumed => e # "refused"
       /\ cr \in spent => e = "failed"
       /\ task' = [task EXCEPT ![t] = [@ EXCEPT !.pc = "failing", !.err = e]]
       /\ spent' = IF consumed THEN spent \cup {cr} ELSE spent
       /\ live' = IF consumed THEN 0 ELSE live
       /\ unanswered' = IF consumed /\ e = "failed" THEN unanswered \cup {cr}
                                                    ELSE unanswered
       /\ replayed' = IF cr \in spent THEN replayed \cup {cr} ELSE replayed
  /\ UNCHANGED <<clock, stateVars, inProgress, lock, store, callerVars, issued,
                 stranded>>

\* save_refreshed_token: the store write is best effort.  A device session
\* has no TokenStore.
Save(t) ==
  /\ task[t].pc = "saving"
  /\ store' \in (IF Rotating THEN {store} ELSE {store, task[t].new})
  /\ task' = [task EXCEPT ![t].pc = "installing"]
  /\ UNCHANGED <<clock, stateVars, inProgress, lock, callerVars, serverVars,
                 stranded>>

\* The lock is the task's own (blocking) or has to be taken (non-blocking);
\* only the non-blocking path goes on to notify_waiters, without the lock.
Conclude(t, blocking, nonBlocking) ==
  /\ lock \in {t, Free}
  /\ IF lock = t
     THEN Finish(t, blocking, {})
     ELSE /\ task' = [task EXCEPT ![t] = [@ EXCEPT !.pc = "notify",
                                               !.result = nonBlocking]]
          /\ UNCHANGED <<lock, callerVars>>

\* install_refreshed_token, at the end of either success path.
Install(t) ==
  /\ task[t].pc = "installing"
  /\ token' = task[t].new
  /\ denial' = NoDenial /\ lastError' = "none"
  /\ inProgress' = FALSE
  /\ Conclude(t, "token", "token")
  /\ UNCHANGED <<clock, store, serverVars, stranded>>

\* Mutant: every failure is reported, usable token or not.
FailureResult_Always(t) == ErrorOf(task[t].err)

\* What the caller of refresh_non_blocking gets after a failure: the token it
\* started with while that is usable, unless the rotation was lost.
FailureResult(t) ==
  IF CredentialConsumed(task[t].err) \/ clock >= task[t].current.exp
  THEN ErrorOf(task[t].err) ELSE "token"

\* The end of either failure path: the credential goes back unless it was
\* consumed, and record_refusal keeps the error.
Fail(t) ==
  LET e == task[t].err IN
  /\ task[t].pc = "failing"
  /\ token' = IF CredentialConsumed(e) THEN token
              ELSE Restore(token, task[t].credential)
  /\ stranded' = (stranded \/ CredentialConsumed(e))
  /\ inProgress' = FALSE
  /\ lastError' = e
  /\ denial' = IF e = "refused" THEN clock ELSE denial
  /\ Conclude(t, ErrorOf(e), FailureResult(t))
  /\ UNCHANGED <<clock, store, serverVars>>

\* notify_waiters: everyone on the Notify list, parked or about to be.
Notify(t) ==
  /\ task[t].pc = "notify"
  /\ Finish(t, task[t].result, {c \in Callers : pc[c] \in {"registered", "parked"}})
  /\ UNCHANGED <<clock, stateVars, inProgress, store, serverVars, stranded>>

\* CancelGuard::drop: the task dies at an await (panic, runtime shutdown, a
\* dropped wasm future).  The flag is cleared without the lock, then waiters
\* are notified; a lock the task kept goes last.
Die(t) ==
  /\ "panic" \in Deaths
  /\ \/ task[t].pc \in {"exchange", "saving"}
     \/ task[t].pc \in {"installing", "failing"} /\ lock # t
  /\ inProgress' = FALSE
  /\ task' = [task EXCEPT ![t] = [@ EXCEPT !.pc = "notify", !.result = "internal"]]
  /\ stranded' = TRUE
  /\ UNCHANGED <<clock, stateVars, lock, store, callerVars, serverVars>>

\* A runtime that shuts down drops a task it has never polled: the guard it
\* was to arm does not exist yet, so only the lock is given back.
Abandon(t) ==
  /\ "unpolled" \in Deaths /\ task[t].pc = "spawned"
  /\ Finish(t, "internal", {})
  /\ stranded' = TRUE
  /\ UNCHANGED <<clock, stateVars, inProgress, store, serverVars>>

Tick ==
  /\ clock' \in (IF ClockJumps THEN 0..MaxTime ELSE {clock + 1} \cap 0..MaxTime)
  /\ UNCHANGED <<stateVars, inProgress, lock, store, callerVars, task,
                 serverVars, stranded>>

-----------------------------------------------------------------------------
CallerStep(c) == \/ Enter(c) \/ Load(c) \/ Relock(c) \/ Register(c)
                 \/ Recheck(c) \/ ReadClock(c) \/ Answer(c)

TaskStep(t) == \/ Run(t) \/ ExchangeOk(t) \/ ExchangeErr(t) \/ Save(t)
               \/ Install(t) \/ Fail(t) \/ Notify(t)

Next == \/ \E c \in Callers : Call(c) \/ CallerStep(c) \/ Cancel(c)
        \/ \E t \in Tasks : TaskStep(t) \/ Die(t) \/ Abandon(t)
        \/ Tick

Spec == Init /\ [][Next]_vars

\* Tasks are polled, exchanges return, and the mutex is first come, first
\* served; nobody has to call, to cancel or to die.
Fairness == /\ \A c \in Callers : SF_vars(CallerStep(c))
            /\ \A t \in Tasks : SF_vars(TaskStep(t))

FairSpec == Spec /\ Fairness

-----------------------------------------------------------------------------
(* Properties.                                                             *)

\* The state of the engine as its users see it.
Stale      == token.id # 0 /\ IsExpired(token, clock)
Exchanging == InFlight # {}
Asking     == {c \in Callers : pc[c] \in Waiting}
Served     == {c \in Callers : pc[c] = "token"}

Engine == INSTANCE TokenEngine WITH
  held <- token.id, stale <- Stale, exchanging <- Exchanging,
  asking <- Asking, served <- Served

\* The lock, the flag, the notification list, the store read and the spawned
\* task together behave like the five variables of TokenEngine: one exchange
\* at a time, begun for a waiting caller without a fresh token, and a token
\* that only gets newer.
ImplementsTokenEngine == Engine!Spec

\* Only one refresh runs at a time, however many callers ask and however a
\* refresh ends: from start_refresh to the moment its outcome is recorded no
\* second task exists.
SingleFlight == \A t, u \in InFlight : t = u

\* A caller parked on the Notify list is never forgotten: some task is still
\* going to call notify_waiters, although the flag, the list and the lock are
\* changed at different moments and a dying task changes them without the lock.
NoLostWaiter ==
  \A c \in Callers : pc[c] = "parked" =>
    \E t \in Tasks : task[t].pc = "notify" \/ (t \in InFlight /\ lock # t)

\* A spent refresh token is presented again only if the answer of the exchange
\* that spent it was lost on the way: not after a store error, not by a second
\* caller, not after a cancelled or dying refresh.
NoReplay == replayed \subseteq unanswered

\* The refresh token the server would accept is in the cached token or in the
\* hands of a refresh in flight, so no sequence of ordinary failures, refusals
\* and cancelled callers ends the session (store errors and dying tasks do).
RefreshTokenKept ==
  live # 0 /\ ~stranded =>
    \/ token.refresh = live
    \/ \E t \in InFlight : live \in {task[t].credential, task[t].new.refresh}

\* Neither the cached token nor the stored one is replaced by an older one: a
\* slow store read or a late refresh never overwrites a newer token.
NeverOlder ==
  [][token'.id >= token.id /\ store'.id >= store.id]_<<token, store>>

\* get_token answers with an error only when no usable token is cached at the
\* moment it decides, unless the rotation was lost (store error) or the task
\* died.  A joining caller's answer is decided where the task records it.
ErrorOnlyWithoutUsableToken ==
  [][/\ \A c \in Callers :
          pc[c] \in Waiting \ {"joining"} /\ pc'[c] \in Failure
            => ~IsUsable(token, clock)
     /\ \A t \in Tasks :
          task[t].pc = "failing" /\ lock # t /\ task'[t].result \in Failure
            => ~IsUsable(token, clock)]_vars

\* Every call of get_token that is not cancelled returns.
CallsReturn ==
  \A c \in Callers : (pc[c] \in Waiting) ~> (pc[c] \notin Waiting)
=============================================================================
