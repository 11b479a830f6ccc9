-------------------------- MODULE AutoRefreshProofs --------------------------
(***************************************************************************)
(* Proofs about AutoRefresh for any callers, tasks, lifetimes, clock and   *)
(* any number of tokens: there is one refresh at a time, the token only    *)
(* gets newer, an error is the answer only where no token could be, no     *)
(* spent credential is presented again, none is lost, and the engine       *)
(* implements TokenEngine.                                                 *)
(***************************************************************************)
EXTENDS AutoRefresh, TLAPS

USE DEF Free, NoDenial

-----------------------------------------------------------------------------
(* Type correctness.                                                       *)

\* Outcomes are filled in before they are read: a failing task has an error
\* class and a notifying one a result for its caller.
OutcomeKnown ==
  \A t \in Tasks : /\ task[t].pc = "failing" => task[t].err # "none"
                   /\ task[t].pc = "notify" => task[t].result # "none"

TypeInv == TypeOK /\ OutcomeKnown

CallerType ==
  /\ pc \in [Callers -> {"idle"} \cup Waiting \cup Returned]
  /\ loaded \in [Callers -> Token]
  /\ readAt \in [Callers -> Nat]
  /\ waitsFor \in [Callers -> Tasks \cup {Free}]

TaskType == task \in [Tasks -> TaskState] /\ OutcomeKnown

\* The constants of the module have their types, and every error class has an
\* error that get_token can return.
LEMMA Constants ==
  /\ NoToken \in Token /\ IdleTask \in TaskState
  /\ IdleTask.pc = "idle"
  /\ \A e \in Errors : ErrorOf(e) \in Returned
BY DEF NoToken, Token, IdleTask, TaskState, Errors, Returned, ErrorOf

\* A task may be updated with any record that knows its outcome.
LEMMA TaskUpdate ==
  ASSUME TypeInv, NEW t \in Tasks, NEW r \in TaskState,
         r.pc = "failing" => r.err # "none", r.pc = "notify" => r.result # "none",
         task' = [task EXCEPT ![t] = r]
  PROVE  TaskType'
BY DEF TypeInv, TypeOK, OutcomeKnown, TaskType

\* A returning caller leaves well-typed locals.
LEMMA ReturnType ==
  ASSUME TypeOK, NEW c \in Callers, NEW r \in Returned \cup {"idle"},
         Return(c, r)
  PROVE  CallerType'
BY Constants DEF TypeOK, Return, CallerType

\* So does a caller that goes on to its next await.
LEMMA GotoType ==
  ASSUME TypeOK, NEW c \in Callers, NEW l \in Waiting,
         NEW t \in Tasks \cup {Free}, Goto(c, l, t)
  PROVE  CallerType'
BY Constants DEF TypeOK, Goto, CallerType

\* A finishing task hands a result to its caller and leaves an idle slot.
LEMMA FinishType ==
  ASSUME TypeInv, NEW t \in Tasks, NEW r \in Returned, NEW W, Finish(t, r, W)
  PROVE  CallerType' /\ TaskType' /\ lock' \in Tasks \cup Callers \cup {Free}
<1>1. pc' \in [Callers -> {"idle"} \cup Waiting \cup Returned]
  BY DEF TypeInv, TypeOK, Finish, Waiting
<1>2. task' \in [Tasks -> TaskState]
  BY Constants DEF TypeInv, TypeOK, Finish
<1>3. OutcomeKnown'
  BY Constants DEF TypeInv, TypeOK, Finish, OutcomeKnown
<1>4. waitsFor' \in [Callers -> Tasks \cup {Free}]
  BY DEF TypeInv, TypeOK, Finish
<1> QED
  BY <1>1, <1>2, <1>3, <1>4 DEF TypeInv, TypeOK, Finish, CallerType, TaskType

\* get_token, once the token is settled, keeps every type.
LEMMA DecideType ==
  ASSUME TypeInv, NEW c \in Callers, NEW tok \in Token, Decide(c, tok)
  PROVE  /\ CallerType' /\ TaskType' /\ token' \in Token
         /\ lock' \in Tasks \cup Callers \cup {Free}
         /\ inProgress' \in BOOLEAN /\ denial' \in Nat \cup {NoDenial}
<1>1. CASE UNCHANGED task /\ token' = tok /\ UNCHANGED inProgress
           /\ (denial' = denial \/ denial' = NoDenial)
           /\ lock' \in {lock, c} /\ CallerType'
  BY <1>1 DEF TypeInv, TypeOK, TaskType, OutcomeKnown
<1>2. CASE StartRefresh(c, tok)
  <2>1. PICK t \in Tasks :
          /\ task' = [task EXCEPT ![t] = [IdleTask EXCEPT !.pc = "spawned",
                                            !.credential = tok.refresh]]
          /\ lock' = t /\ Goto(c, "joining", t)
    BY <1>2, Zenon DEF StartRefresh
  <2>2. CallerType'
    BY <2>1, GotoType DEF TypeInv, Waiting
  <2>3. task' \in [Tasks -> TaskState]
    BY <2>1, Constants, Zenon DEF TypeInv, TypeOK, TaskState, IdleTask, Token
  <2>4. OutcomeKnown'
    BY <2>1, Constants DEF TypeInv, TypeOK, OutcomeKnown, IdleTask
  <2>5. token' \in Token
    BY <1>2 DEF StartRefresh, WithoutCredential, Token
  <2> QED
    BY <1>2, <2>1, <2>2, <2>3, <2>4, <2>5 DEF StartRefresh, TaskType
<1>3. Goto(c, "registering", Free) => CallerType'
  BY GotoType DEF TypeInv, Waiting
<1>4. \A r \in Returned : Return(c, r) => CallerType'
  BY ReturnType DEF TypeInv
<1> QED
  BY <1>1, <1>2, <1>3, <1>4 DEF Decide, Returned

\* Every step of a caller or of a task, and the passing of time, keeps the
\* types of all variables.
LEMMA TypeInvariant == Spec => []TypeInv
<1>1. Init => TypeInv
  <2> SUFFICES ASSUME Init PROVE TypeInv
    OBVIOUS
  <2>1. token \in Token
    BY Constants, AutoRefreshAssumption DEF Init, Token
  <2>2. OutcomeKnown
    BY Constants DEF Init, OutcomeKnown
  <2> QED
    BY <2>1, <2>2, Constants, Zenon DEF Init, TypeInv, TypeOK
<1>2. TypeInv /\ [Next]_vars => TypeInv'
  <2> SUFFICES ASSUME TypeInv, [Next]_vars PROVE TypeInv'
    OBVIOUS
  <2> USE DEF TypeInv
  <2>1. ASSUME NEW c \in Callers, Call(c) PROVE TypeInv'
    BY <2>1 DEF Call, TypeOK, OutcomeKnown, stateVars, serverVars, Waiting
  <2>2. ASSUME NEW c \in Callers, Enter(c) PROVE TypeInv'
    <3>1. CASE token.id # 0
      <4>1. Decide(c, token)
        BY <2>2, <3>1 DEF Enter
      <4> QED
        BY <4>1, <2>2, DecideType
           DEF Enter, TypeOK, CallerType, TaskType, serverVars
    <3>2. CASE token.id = 0
      <4>1. CallerType'
        BY <2>2, <3>2, ReturnType, GotoType DEF Enter, Returned, Waiting
      <4> QED
        BY <4>1, <2>2, <3>2
           DEF Enter, DiscardStale, TypeOK, OutcomeKnown, CallerType, serverVars
    <3> QED
      BY <3>1, <3>2 DEF TypeOK, Token
  <2>3. ASSUME NEW c \in Callers, Load(c) PROVE TypeInv'
    BY <2>3 DEF Load, TypeOK, OutcomeKnown, stateVars, serverVars, Waiting
  <2>4. ASSUME NEW c \in Callers, Relock(c) PROVE TypeInv'
    <3>1. Reloaded(c) \in Token
      BY DEF Reloaded, TypeOK
    <3> QED
      BY <3>1, <2>4, DecideType
         DEF Relock, TypeOK, CallerType, TaskType, serverVars
  <2>5. ASSUME NEW c \in Callers, Register(c) PROVE TypeInv'
    BY <2>5 DEF Register, TypeOK, OutcomeKnown, stateVars, serverVars, Waiting
  <2>6. ASSUME NEW c \in Callers, Recheck(c) PROVE TypeInv'
    BY <2>6 DEF Recheck, TypeOK, OutcomeKnown, stateVars, serverVars, Waiting
  <2>7. ASSUME NEW c \in Callers, ReadClock(c) PROVE TypeInv'
    BY <2>7 DEF ReadClock, TypeOK, OutcomeKnown, stateVars, serverVars, Waiting
  <2>8. ASSUME NEW c \in Callers, Answer(c) PROVE TypeInv'
    <3>1. CallerType'
      BY <2>8, ReturnType, Constants, Zenon DEF Answer, Returned, TypeOK
    <3> QED
      BY <3>1, <2>8
         DEF Answer, DiscardStale, TypeOK, OutcomeKnown, CallerType, serverVars
  <2>9. ASSUME NEW c \in Callers, Cancel(c) PROVE TypeInv'
    <3>1. CallerType'
      BY <2>9, ReturnType DEF Cancel
    <3> QED
      BY <3>1, <2>9
         DEF Cancel, TypeOK, OutcomeKnown, CallerType, stateVars, serverVars
  <2>0. \A t \in Tasks : task[t] \in TaskState
    BY DEF TypeOK
  <2>10. ASSUME NEW t \in Tasks, Run(t) PROVE TypeInv'
    <3> DEFINE r == [task[t] EXCEPT !.pc = "exchange", !.current = token]
    <3>1. r \in TaskState /\ r.pc = "exchange"
      BY <2>0, ZenonT(60) DEF TypeOK, TaskState
    <3>2. task' = [task EXCEPT ![t] = r]
      BY <2>10 DEF Run
    <3>3. TaskType'
      BY <3>1, <3>2, TaskUpdate, Zenon
    <3> QED
      BY <3>3, <2>10 DEF Run, TypeOK, TaskType, stateVars, callerVars, serverVars
  <2>11. ASSUME NEW t \in Tasks, ExchangeOk(t) PROVE TypeInv'
    <3>1. PICK life \in Lifetimes, r \in {0, issued + 1} :
            /\ task' = [task EXCEPT ![t] = [@ EXCEPT !.pc = "saving",
                          !.new = [id |-> issued + 1, exp |-> clock + life,
                                   refresh |-> r]]]
            /\ live' = r
      BY <2>11, Zenon DEF ExchangeOk
    <3> DEFINE n == [id |-> issued + 1, exp |-> clock + life, refresh |-> r]
               s == [task[t] EXCEPT !.pc = "saving", !.new = n]
    <3>2. n \in Token
      BY AutoRefreshAssumption DEF TypeOK, Token
    <3>3. TaskType'
      <4> HIDE DEF n
      <4>1. s \in TaskState /\ s.pc = "saving"
        BY <2>0, <3>2, Zenon DEF TaskState
      <4>2. task' = [task EXCEPT ![t] = s]
        BY <3>1 DEF n
      <4> QED
        BY <4>1, <4>2, TaskUpdate, Zenon
    <3>4. spent' \in SUBSET Nat /\ issued' \in Nat /\ live' \in Nat
      BY <2>11, <3>1 DEF ExchangeOk, TypeOK, TaskState
    <3> QED
      BY <2>11, <3>3, <3>4 DEF ExchangeOk, TypeOK, TaskType, stateVars, callerVars
  <2>12. ASSUME NEW t \in Tasks, ExchangeErr(t) PROVE TypeInv'
    <3>1. PICK e \in Errors :
            task' = [task EXCEPT ![t] = [@ EXCEPT !.pc = "failing", !.err = e]]
      BY <2>12, Zenon DEF ExchangeErr
    <3> DEFINE r == [task[t] EXCEPT !.pc = "failing", !.err = e]
    <3>2. TaskType'
      <4>1. r \in TaskState /\ r.pc = "failing" /\ r.err = e /\ e # "none"
        BY <2>0, Zenon DEF TaskState, Errors
      <4> QED
        BY <3>1, <4>1, TaskUpdate, Zenon
    <3>3. /\ spent' \in SUBSET Nat /\ unanswered' \in SUBSET Nat
          /\ replayed' \in SUBSET Nat /\ live' \in Nat
      BY <2>12 DEF ExchangeErr, TypeOK, TaskState
    <3> QED
      BY <2>12, <3>2, <3>3 DEF ExchangeErr, TypeOK, TaskType, stateVars, callerVars
  <2>13. ASSUME NEW t \in Tasks, Save(t) PROVE TypeInv'
    BY <2>13, SMTT(30)
       DEF Save, TypeOK, OutcomeKnown, TaskState, stateVars, callerVars, serverVars
  <2>14. ASSUME NEW t \in Tasks, NEW b \in Returned, NEW n \in Returned,
                Conclude(t, b, n)
         PROVE  CallerType' /\ TaskType' /\ lock' \in Tasks \cup Callers \cup {Free}
    <3>1. CASE lock = t
      BY <3>1, <2>14, FinishType DEF Conclude
    <3>2. CASE lock # t
      <4> DEFINE r == [task[t] EXCEPT !.pc = "notify", !.result = n]
      <4>1. r \in TaskState /\ r.pc = "notify" /\ r.result = n /\ n # "none"
        BY <2>0, ZenonT(60) DEF TaskState, Returned
      <4>2. task' = [task EXCEPT ![t] = r]
        BY <3>2, <2>14, Zenon DEF Conclude
      <4>3. TaskType'
        BY <4>1, <4>2, TaskUpdate, Zenon
      <4> QED
        BY <4>3, <3>2, <2>14 DEF Conclude, TypeOK, CallerType, callerVars
    <3> QED
      BY <3>1, <3>2
  <2>15. ASSUME NEW t \in Tasks, Install(t) PROVE TypeInv'
    <3>1. task[t].new \in Token
      BY DEF TypeOK, TaskState
    <3> QED
      BY <3>1, <2>14, <2>15, Zenon
         DEF Install, Returned, TypeOK, CallerType, TaskType, serverVars
  <2>16. ASSUME NEW t \in Tasks, Fail(t) PROVE TypeInv'
    <3>1. task[t].err \in Errors /\ task[t].credential \in Nat
      BY <2>16 DEF Fail, TypeOK, OutcomeKnown, TaskState
    <3>2. ErrorOf(task[t].err) \in Returned /\ FailureResult(t) \in Returned
      BY <3>1, Constants DEF FailureResult, Returned
    <3>3. token' \in Token
      BY <2>16, <3>1 DEF Fail, Restore, TypeOK, Token
    <3> QED
      BY <3>1, <3>2, <3>3, <2>14, <2>16, Zenon
         DEF Fail, TypeOK, CallerType, TaskType, serverVars
  <2>17. ASSUME NEW t \in Tasks, Notify(t) PROVE TypeInv'
    <3>1. task[t].result \in Returned
      BY <2>17, Zenon DEF Notify, TypeOK, OutcomeKnown, TaskState
    <3> QED
      BY <3>1, <2>17, FinishType
         DEF Notify, TypeOK, CallerType, TaskType, stateVars, serverVars
  <2>18. ASSUME NEW t \in Tasks, Die(t) PROVE TypeInv'
    <3> DEFINE r == [task[t] EXCEPT !.pc = "notify", !.result = "internal"]
    <3>1. r \in TaskState /\ r.pc = "notify" /\ r.result = "internal"
      BY <2>0, Zenon DEF TaskState, Returned
    <3>2. task' = [task EXCEPT ![t] = r]
      BY <2>18 DEF Die
    <3>3. TaskType'
      BY <3>1, <3>2, TaskUpdate, Zenon
    <3> QED
      BY <3>3, <2>18, Zenon DEF Die, TypeOK, TaskType, stateVars, callerVars, serverVars
  <2>19. ASSUME NEW t \in Tasks, Abandon(t) PROVE TypeInv'
    BY <2>19, FinishType
       DEF Abandon, Returned, TypeOK, CallerType, TaskType, stateVars, serverVars
  <2>20. ASSUME Tick PROVE TypeInv'
    BY <2>20, AutoRefreshAssumption
       DEF Tick, TypeOK, OutcomeKnown, stateVars, callerVars, serverVars
  <2>21. ASSUME UNCHANGED vars PROVE TypeInv'
    BY <2>21 DEF vars, TypeOK, OutcomeKnown, stateVars, callerVars, serverVars
  <2> QED
    BY <2>1, <2>2, <2>3, <2>4, <2>5, <2>6, <2>7, <2>8, <2>9, <2>10, <2>11, <2>12,
       <2>13, <2>15, <2>16, <2>17, <2>18, <2>19, <2>20, <2>21
       DEF Next, CallerStep, TaskStep
<1> QED
  BY <1>1, <1>2, PTL DEF Spec

\* The engine's state is well typed whatever its callers, its refreshes and
\* the clock do.
THEOREM TypeCorrect == Spec => []TypeOK
<1>1. TypeInv => TypeOK
  BY DEF TypeInv
<1> QED
  BY <1>1, TypeInvariant, PTL

-----------------------------------------------------------------------------
(* One refresh at a time.                                                  *)

\* Why it holds: start_refresh needs the state lock.  A refresh in flight
\* either keeps that lock or runs behind a cached token, and then the flag
\* turns every other caller away.
FlightInv ==
  /\ \A t \in Tasks : task[t].pc = "spawned" => lock = t
  /\ \A c \in Callers : pc[c] = "registering" => lock = c
  /\ \A t \in InFlight : inProgress /\ (lock = t \/ token.id # 0)
  /\ SingleFlight
  /\ \A t \in Tasks :
       task[t].pc \in {"saving", "installing"} => task[t].new.id # 0

\* A task that ends without recording anything for others leaves the
\* invariant, as long as the flag it leaves behind is not needed.
LEMMA FinishFlight ==
  ASSUME TypeInv, FlightInv, NEW t \in Tasks, NEW r \in Returned, NEW W,
         Finish(t, r, W), token'.id = 0 => token.id = 0,
         inProgress' = inProgress \/ t \in InFlight
  PROVE  FlightInv'
<1>1. /\ task'[t].pc = "idle"
      /\ \A u \in Tasks \ {t} : task'[u] = task[u]
  BY Constants DEF TypeInv, TypeOK, Finish
<1>2. InFlight' = InFlight \ {t}
  BY <1>1 DEF InFlight
<1>3. \A c \in Callers : pc'[c] = "registering" => pc[c] = "registering"
  BY DEF Finish, TypeInv, TypeOK, Returned
<1>4. lock' = IF lock = t THEN Free ELSE lock
  BY DEF Finish
<1>5. \A c \in Callers : c # t
  BY AutoRefreshAssumption, Zenon
<1>6. \A u \in InFlight' : inProgress' = inProgress
  BY <1>2 DEF FlightInv, SingleFlight
<1>7. \A u \in Tasks : task'[u].pc = "spawned" => lock' = u
  BY <1>1, <1>4 DEF FlightInv
<1>8. \A c \in Callers : pc'[c] = "registering" => lock' = c
  BY <1>3, <1>4, <1>5 DEF FlightInv
<1>9. \A u \in InFlight' : inProgress' /\ (lock' = u \/ token'.id # 0)
  BY <1>2, <1>4, <1>6 DEF FlightInv
<1>10. SingleFlight'
  BY <1>2 DEF FlightInv, SingleFlight
<1>11. \A u \in Tasks :
         task'[u].pc \in {"saving", "installing"} => task'[u].new.id # 0
  BY <1>1 DEF FlightInv
<1> QED
  BY <1>7, <1>8, <1>9, <1>10, <1>11 DEF FlightInv

\* A task that changes only its own record, and stays or leaves InFlight while
\* lock, flag and callers keep the others' part, leaves the invariant.
LEMMA UpdateFlight ==
  ASSUME TypeInv, FlightInv, NEW t \in Tasks, t \in InFlight, NEW r,
         task' = [task EXCEPT ![t] = r],
         r.pc \in {"exchange", "saving", "installing", "failing", "notify"},
         r.pc \in {"saving", "installing"} => r.new.id # 0,
         r.pc # "notify" => inProgress' = inProgress,
         lock' = lock \/ (lock = t /\ lock' = Free /\ token.id # 0),
         token'.id = 0 => token.id = 0, UNCHANGED pc
  PROVE  FlightInv'
<1>1. task'[t] = r /\ \A u \in Tasks \ {t} : task'[u] = task[u]
  BY DEF TypeInv, TypeOK
<1>2. InFlight' = IF r.pc = "notify" THEN InFlight \ {t} ELSE InFlight
  BY <1>1 DEF InFlight
<1>3. \A c \in Callers : c # t
  BY AutoRefreshAssumption
<1>4. \A u \in InFlight' : u = t
  BY <1>2 DEF FlightInv, SingleFlight
<1>5. \A u \in Tasks : task'[u].pc = "spawned" => lock' = u
  BY <1>1 DEF FlightInv, SingleFlight, InFlight
<1>6. \A u \in InFlight' : inProgress' /\ (lock' = u \/ token'.id # 0)
  BY <1>2, <1>4 DEF FlightInv
<1> QED
  BY <1>1, <1>3, <1>4, <1>5, <1>6 DEF FlightInv, SingleFlight

\* get_token starts a refresh only when none is in flight.
LEMMA DecideFlight ==
  ASSUME TypeInv, FlightInv, lock = Free, NEW c \in Callers, NEW tok \in Token,
         token.id # 0 => tok = token, pc[c] # "registering", Decide(c, tok)
  PROVE  FlightInv'
<1>1. \A t \in InFlight : task[t].pc # "spawned" /\ token.id # 0 /\ inProgress
  BY AutoRefreshAssumption, Zenon DEF FlightInv, InFlight
<1>2. \A d \in Callers : pc[d] # "registering"
  BY AutoRefreshAssumption DEF FlightInv
<1>3. ASSUME NEW r \in Returned, Return(c, r) PROVE
        \A d \in Callers : pc'[d] # "registering"
  BY <1>2, <1>3 DEF Return, TypeInv, TypeOK, Returned
<1>4. CASE UNCHANGED <<lock, task, inProgress>> /\ token' = tok
           /\ \E r \in Returned : Return(c, r)
  BY <1>1, <1>3, <1>4 DEF FlightInv, SingleFlight, InFlight
<1>5. CASE StartRefresh(c, tok) /\ (tok.id = 0 \/ ~inProgress)
  <2>1. PICK t \in Tasks :
          /\ task' = [task EXCEPT ![t] = [IdleTask EXCEPT !.pc = "spawned",
                                            !.credential = tok.refresh]]
          /\ lock' = t /\ inProgress' = TRUE /\ Goto(c, "joining", t)
    BY <1>5, Zenon DEF StartRefresh
  <2>2. InFlight = {}
    BY <1>1, <1>5
  <2>3. task'[t].pc = "spawned" /\ \A u \in Tasks \ {t} : task'[u] = task[u]
    BY <2>1 DEF TypeInv, TypeOK, IdleTask
  <2>4. InFlight' = {t}
    BY <2>2, <2>3 DEF InFlight
  <2>5. \A d \in Callers : pc'[d] # "registering"
    BY <1>2, <2>1 DEF Goto, TypeInv, TypeOK
  <2> QED
    BY <1>1, <2>1, <2>2, <2>3, <2>4, <2>5 DEF FlightInv, SingleFlight, InFlight
<1>6. CASE /\ token' = tok /\ lock' = c /\ UNCHANGED <<task, inProgress>>
           /\ \E t \in Tasks \cup {Free} : Goto(c, "registering", t)
  <2>1. \A d \in Callers : pc'[d] = "registering" => d = c
    BY <1>2, <1>6 DEF Goto, TypeInv, TypeOK
  <2> QED
    BY <1>1, <1>6, <2>1, Zenon DEF FlightInv, SingleFlight, InFlight
<1> QED
  BY <1>4, <1>5, <1>6 DEF Decide, Returned

\* The inductive invariant holds throughout: each action of Next keeps it.
LEMMA FlightInvariant == Spec => []FlightInv
<1>1. Init => FlightInv
  BY Constants DEF Init, FlightInv, SingleFlight, InFlight
<1>2. TypeInv /\ FlightInv /\ [Next]_vars => FlightInv'
  <2> SUFFICES ASSUME TypeInv, FlightInv, [Next]_vars PROVE FlightInv'
    OBVIOUS
  <2>1. ASSUME NEW c \in Callers, NEW l,  l # "registering",
               pc' = [pc EXCEPT ![c] = l],
               UNCHANGED <<task, inProgress, token>>,
               lock' = lock \/ (lock' = Free /\ lock = c)
        PROVE  FlightInv'
    <3>1. \A d \in Callers : pc'[d] = "registering" => d # c /\ pc[d] = pc'[d]
      BY <2>1 DEF TypeInv, TypeOK
    <3>2. \A t \in Tasks : c # t
      BY AutoRefreshAssumption
    <3> QED
      BY <2>1, <3>1, <3>2, ZenonT(60) DEF FlightInv, SingleFlight, InFlight
  <2>2. ASSUME NEW c \in Callers, Call(c) PROVE FlightInv'
    BY <2>1, <2>2, Zenon DEF Call, stateVars
  <2>3. ASSUME NEW c \in Callers, Enter(c) PROVE FlightInv'
    <3>1. CASE token.id # 0
      BY <2>3, <3>1, DecideFlight DEF Enter, TypeInv, TypeOK
    <3>2. CASE token.id = 0
      BY <2>1, <2>3, <3>2, Zenon DEF Enter, Return, Goto
    <3> QED
      BY <3>1, <3>2 DEF TypeInv, TypeOK, Token
  <2>4. ASSUME NEW c \in Callers, Load(c) PROVE FlightInv'
    BY <2>1, <2>4, Zenon DEF Load, stateVars
  <2>5. ASSUME NEW c \in Callers, Relock(c) PROVE FlightInv'
    <3>1. Reloaded(c) \in Token /\ (token.id # 0 => Reloaded(c) = token)
      BY DEF Reloaded, TypeInv, TypeOK
    <3> QED
      BY <3>1, <2>5, DecideFlight DEF Relock
  <2>6. ASSUME NEW c \in Callers, Register(c) PROVE FlightInv'
    BY <2>1, <2>6, Zenon DEF Register, stateVars, FlightInv
  <2>7. ASSUME NEW c \in Callers, Recheck(c) PROVE FlightInv'
    BY <2>1, <2>7, Zenon DEF Recheck, stateVars
  <2>8. ASSUME NEW c \in Callers, ReadClock(c) PROVE FlightInv'
    BY <2>1, <2>8, Zenon DEF ReadClock, stateVars
  <2>9. ASSUME NEW c \in Callers, Answer(c) PROVE FlightInv'
    BY <2>1, <2>9, Constants, Zenon DEF Answer, Return, Returned, TypeInv, TypeOK
  <2>10. ASSUME NEW c \in Callers, Cancel(c) PROVE FlightInv'
    BY <2>1, <2>10, Zenon DEF Cancel, Return, stateVars
  <2>11. ASSUME NEW t \in Tasks, Run(t) PROVE FlightInv'
    <3> DEFINE r == [task[t] EXCEPT !.pc = "exchange", !.current = token]
    <3>1. r.pc = "exchange" /\ t \in InFlight
      BY <2>11 DEF Run, InFlight, TypeInv, TypeOK, TaskState
    <3>2. lock = t
      BY <2>11 DEF Run, FlightInv
    <3> QED
      BY <3>1, <3>2, <2>11, UpdateFlight, Zenon
         DEF Run, IsUsable, stateVars, callerVars
  <2>12. ASSUME NEW t \in Tasks, ExchangeOk(t) PROVE FlightInv'
    <3>1. PICK life \in Lifetimes, refresh \in {0, issued + 1} :
            task' = [task EXCEPT ![t] = [@ EXCEPT !.pc = "saving",
                       !.new = [id |-> issued + 1, exp |-> clock + life,
                                refresh |-> refresh]]]
      BY <2>12, Zenon DEF ExchangeOk
    <3> DEFINE n == [id |-> issued + 1, exp |-> clock + life,
                     refresh |-> refresh]
               r == [task[t] EXCEPT !.pc = "saving", !.new = n]
    <3>2. n.id # 0
      BY DEF TypeInv, TypeOK
    <3>3. task' = [task EXCEPT ![t] = r]
      BY <3>1
    <3> HIDE DEF n
    <3>4. r.pc = "saving" /\ r.new.id # 0 /\ t \in InFlight
      BY <2>12, <3>2 DEF ExchangeOk, InFlight, TypeInv, TypeOK, TaskState
    <3> QED
      BY <3>3, <3>4, <2>12, UpdateFlight, Zenon DEF ExchangeOk, stateVars, callerVars
  <2>13. ASSUME NEW t \in Tasks, ExchangeErr(t) PROVE FlightInv'
    <3>1. PICK e \in Errors :
            task' = [task EXCEPT ![t] = [@ EXCEPT !.pc = "failing", !.err = e]]
      BY <2>13, Zenon DEF ExchangeErr
    <3> DEFINE r == [task[t] EXCEPT !.pc = "failing", !.err = e]
    <3>2. r.pc = "failing" /\ t \in InFlight
      BY <2>13 DEF ExchangeErr, InFlight, TypeInv, TypeOK, TaskState
    <3> QED
      BY <3>1, <3>2, <2>13, UpdateFlight, Zenon DEF ExchangeErr, stateVars, callerVars
  <2>14. ASSUME NEW t \in Tasks, Save(t) PROVE FlightInv'
    <3> DEFINE r == [task[t] EXCEPT !.pc = "installing"]
    <3>1. r.pc = "installing" /\ r.new.id # 0 /\ t \in InFlight
      BY <2>14 DEF Save, InFlight, TypeInv, TypeOK, TaskState, FlightInv
    <3>2. task' = [task EXCEPT ![t] = r]
      BY <2>14 DEF Save
    <3> QED
      BY <3>1, <3>2, <2>14, UpdateFlight, Zenon DEF Save, stateVars, callerVars
  <2>15. ASSUME NEW t \in Tasks, NEW b \in Returned, NEW n \in Returned,
                Conclude(t, b, n), t \in InFlight, token'.id = 0 => token.id = 0
         PROVE  FlightInv'
    <3>1. CASE lock = t
      BY <3>1, <2>15, FinishFlight DEF Conclude
    <3>2. CASE lock # t
      <4> DEFINE r == [task[t] EXCEPT !.pc = "notify", !.result = n]
      <4>1. r.pc = "notify" /\ task' = [task EXCEPT ![t] = r]
        BY <3>2, <2>15 DEF Conclude, TypeInv, TypeOK, TaskState
      <4> QED
        BY <4>1, <3>2, <2>15, UpdateFlight, Zenon DEF Conclude, callerVars
    <3> QED
      BY <3>1, <3>2
  <2>16. ASSUME NEW t \in Tasks, Install(t) PROVE FlightInv'
    BY <2>15, <2>16, Zenon DEF Install, Returned, InFlight, FlightInv
  <2>17. ASSUME NEW t \in Tasks, Fail(t) PROVE FlightInv'
    <3>1. task[t].err \in Errors
      BY <2>17 DEF Fail, TypeInv, TypeOK, OutcomeKnown, TaskState
    <3>2. ErrorOf(task[t].err) \in Returned /\ FailureResult(t) \in Returned
      BY <3>1, Constants DEF FailureResult, Returned
    <3>3. token'.id = token.id
      BY <2>17 DEF Fail, Restore, TypeInv, TypeOK, Token
    <3> QED
      BY <3>2, <3>3, <2>15, <2>17, Zenon DEF Fail, InFlight
  <2>18. ASSUME NEW t \in Tasks, Notify(t) PROVE FlightInv'
    <3>1. task[t].result \in Returned
      BY <2>18 DEF Notify, TypeInv, TypeOK, OutcomeKnown, TaskState
    <3> QED
      BY <3>1, <2>18, FinishFlight DEF Notify, stateVars
  <2>19. ASSUME NEW t \in Tasks, Die(t) PROVE FlightInv'
    <3> DEFINE r == [task[t] EXCEPT !.pc = "notify", !.result = "internal"]
    <3>1. r.pc = "notify" /\ t \in InFlight
      BY <2>19 DEF Die, InFlight, TypeInv, TypeOK, TaskState
    <3>2. task' = [task EXCEPT ![t] = r]
      BY <2>19 DEF Die
    <3> QED
      BY <3>1, <3>2, <2>19, UpdateFlight, Zenon DEF Die, stateVars, callerVars
  <2>20. ASSUME NEW t \in Tasks, Abandon(t) PROVE FlightInv'
    BY <2>20, FinishFlight DEF Abandon, Returned, stateVars
  <2>21. ASSUME UNCHANGED <<task, lock, inProgress, token, pc>> PROVE FlightInv'
    BY <2>21 DEF FlightInv, SingleFlight, InFlight
  <2> QED
    BY Zenon, <2>2, <2>3, <2>4, <2>5, <2>6, <2>7, <2>8, <2>9, <2>10, <2>11, <2>12, <2>13,
       <2>14, <2>16, <2>17, <2>18, <2>19, <2>20, <2>21
       DEF Next, CallerStep, TaskStep, Tick, vars, stateVars, callerVars
<1> QED
  BY <1>1, <1>2, TypeInvariant, PTL DEF Spec

\* Only one refresh runs at a time: for any number of callers and tasks,
\* whatever fails, is cancelled, panics or is dropped before its first poll, no
\* second refresh is in flight between start_refresh and the recorded outcome.
THEOREM OneRefreshAtATime == Spec => []SingleFlight
<1>1. FlightInv => SingleFlight
  BY DEF FlightInv
<1> QED
  BY <1>1, FlightInvariant, PTL

-----------------------------------------------------------------------------
(* What a step can do to the token and the tasks.                          *)

\* get_token starts a refresh from tok in task t.
Starts(c, tok, t) ==
  /\ InFlight = {} /\ InFlight' = {t} /\ lock' = t
  /\ task'[t] = [IdleTask EXCEPT !.pc = "spawned", !.credential = tok.refresh]
  /\ \A u \in Tasks \ {t} : task'[u] = task[u]
  /\ token' = WithoutCredential(tok)
  /\ HasCredential(tok)
  /\ tok.id = 0 \/ IsExpired(tok, clock)
  /\ pc[c] \in Waiting /\ pc' = [pc EXCEPT ![c] = "joining"]

\* A caller's step leaves token and tasks alone, adopts the token it has loaded
\* while there is none, or starts a refresh.
CallerKind(c) ==
  \/ UNCHANGED <<token, task>>
  \/ UNCHANGED task /\ InFlight = {} /\ token.id = 0 /\ token' = loaded[c]
  \/ \E t \in Tasks, tok \in Token :
       /\ tok = token \/ (token.id = 0 /\ tok = loaded[c])
       /\ Starts(c, tok, t)

\* What is common to the steps of callers.
CallerFrame ==
  /\ UNCHANGED <<clock, lastError, store, serverVars, stranded>>
  /\ \A d \in Callers : loaded'[d] \in {loaded[d], NoToken, store}
  /\ \A d \in Callers : readAt'[d] \in {readAt[d], 0, clock}

\* get_token, once it has settled on the cached token, or on a loaded one for
\* want of a cached one, takes one of these steps.
LEMMA DecideKind ==
  ASSUME TypeInv, FlightInv, lock = Free, NEW c \in Callers, NEW tok \in Token,
         tok = token \/ (token.id = 0 /\ tok = loaded[c]),
         pc[c] \in Waiting, Decide(c, tok)
  PROVE  CallerKind(c)
<1>1. \A t \in InFlight : token.id # 0 /\ inProgress
  BY AutoRefreshAssumption DEF FlightInv, InFlight
<1>2. CASE UNCHANGED task /\ token' = tok
  BY <1>1, <1>2 DEF CallerKind
<1>3. CASE StartRefresh(c, tok) /\ HasCredential(tok)
           /\ (tok.id = 0 \/ (IsExpired(tok, clock) /\ ~inProgress))
  <2>1. PICK t \in Tasks :
          /\ task' = [task EXCEPT ![t] = [IdleTask EXCEPT !.pc = "spawned",
                                            !.credential = tok.refresh]]
          /\ lock' = t /\ token' = WithoutCredential(tok)
          /\ Goto(c, "joining", t)
    BY <1>3, Zenon DEF StartRefresh
  <2>2. InFlight = {}
    BY <1>1, <1>3
  <2>3. /\ task'[t] = [IdleTask EXCEPT !.pc = "spawned", !.credential = tok.refresh]
        /\ \A u \in Tasks \ {t} : task'[u] = task[u]
    BY <2>1 DEF TypeInv, TypeOK
  <2>4. task'[t].pc = "spawned"
    BY <2>3 DEF IdleTask
  <2>5. InFlight' = {t}
    BY <2>2, <2>3, <2>4, Zenon DEF InFlight
  <2>6. Starts(c, tok, t)
    BY <1>3, <2>1, <2>2, <2>3, <2>5 DEF Starts, Goto
  <2> QED
    BY <2>6 DEF CallerKind
<1> QED
  BY <1>2, <1>3, Zenon DEF Decide

\* The locals of a caller that returns or goes on are reset or kept.
LEMMA LocalsKept ==
  ASSUME TypeInv, NEW c \in Callers
  PROVE  /\ \A r : Return(c, r) => \A d \in Callers :
                     /\ loaded'[d] \in {loaded[d], NoToken}
                     /\ readAt'[d] \in {readAt[d], 0}
         /\ \A l, t : Goto(c, l, t) => \A d \in Callers :
                     /\ loaded'[d] \in {loaded[d], NoToken}
                     /\ readAt'[d] = readAt[d]
BY DEF Return, Goto, TypeInv, TypeOK

\* So every step of a caller is of one of these kinds.
LEMMA CallerKinds ==
  ASSUME TypeInv, FlightInv, NEW c \in Callers,
         Call(c) \/ CallerStep(c) \/ Cancel(c)
  PROVE  CallerKind(c) /\ CallerFrame
<1> USE DEF CallerFrame
<1>1. CASE Call(c)
  BY <1>1, Zenon DEF Call, CallerKind, stateVars
<1>0. ASSUME NEW tok \in Token, Decide(c, tok)
      PROVE  \A d \in Callers : /\ loaded'[d] \in {loaded[d], NoToken}
                                /\ readAt'[d] \in {readAt[d], 0}
  BY <1>0, LocalsKept DEF Decide, StartRefresh
<1>2. CASE Enter(c)
  <2>1. token \in Token
    BY DEF TypeInv, TypeOK
  <2>2. CASE token.id # 0
    <3>1. Decide(c, token)
      BY <1>2, <2>2 DEF Enter
    <3>2. CallerKind(c)
      BY <1>2, <2>1, <3>1, DecideKind DEF Enter, Waiting
    <3> QED
      BY <1>2, <2>1, <3>1, <3>2, <1>0 DEF Enter
  <2>3. CASE token.id = 0
    <3>1. CallerKind(c)
      BY <1>2, <2>3, Zenon DEF Enter, CallerKind
    <3> QED
      BY <1>2, <2>3, <3>1, LocalsKept, SMTT(30) DEF Enter
  <2> QED
    BY <2>1, <2>2, <2>3 DEF Token
<1>3. CASE Load(c)
  BY <1>3 DEF Load, CallerKind, stateVars, TypeInv, TypeOK
<1>4. CASE Relock(c)
  <2>1. Reloaded(c) \in Token
    BY DEF Reloaded, TypeInv, TypeOK
  <2>2. Reloaded(c) = token \/ (token.id = 0 /\ Reloaded(c) = loaded[c])
    BY DEF Reloaded
  <2>3. CallerKind(c)
    BY <1>4, <2>1, <2>2, DecideKind DEF Relock, Waiting
  <2> QED
    BY <1>4, <2>1, <2>3, <1>0 DEF Relock
<1>5. CASE Register(c)
  BY <1>5 DEF Register, CallerKind, stateVars
<1>6. CASE Recheck(c)
  BY <1>6 DEF Recheck, CallerKind, stateVars
<1>7. CASE ReadClock(c)
  BY <1>7 DEF ReadClock, CallerKind, stateVars, TypeInv, TypeOK
<1>8. CASE Answer(c)
  BY <1>8, LocalsKept, Zenon DEF Answer, CallerKind
<1>9. CASE Cancel(c)
  BY <1>9, LocalsKept, Zenon DEF Cancel, CallerKind, stateVars
<1> QED
  BY <1>1, <1>2, <1>3, <1>4, <1>5, <1>6, <1>7, <1>8, <1>9, Zenon DEF CallerStep

\* How a refresh leaves the tasks in flight: its slot is idle, or has a result
\* for its caller.
Ends(t, b, n) ==
  /\ InFlight' = {}
  /\ \A u \in Tasks \ {t} : task'[u] = task[u]
  /\ \/ lock = t /\ Finish(t, b, {}) /\ task'[t] = IdleTask
     \/ /\ lock = Free /\ task'[t] = [task[t] EXCEPT !.pc = "notify", !.result = n]
        /\ UNCHANGED <<lock, callerVars>>

\* The end of either path of a refresh, with or without the lock.
LEMMA ConcludeEnds ==
  ASSUME TypeInv, FlightInv, NEW t \in InFlight, NEW b \in Returned, NEW n \in Returned,
         Conclude(t, b, n)
  PROVE  Ends(t, b, n)
<1>1. task[t] \in TaskState /\ InFlight = {t} /\ t \in Tasks /\ t # Free
  BY AutoRefreshAssumption DEF TypeInv, TypeOK, FlightInv, SingleFlight, InFlight
<1>2. CASE lock = t
  <2>1. task'[t] = IdleTask /\ \A u \in Tasks \ {t} : task'[u] = task[u]
    BY <1>1, <1>2 DEF Conclude, Finish, TypeInv, TypeOK
  <2> QED
    BY <1>1, <1>2, <2>1, Constants DEF Ends, Conclude, InFlight
<1>3. CASE lock = Free
  <2>1. /\ task'[t] = [task[t] EXCEPT !.pc = "notify", !.result = n]
        /\ \A u \in Tasks \ {t} : task'[u] = task[u]
    BY <1>1, <1>3 DEF Conclude, TypeInv, TypeOK
  <2>2. task'[t].pc = "notify"
    BY <1>1, <2>1 DEF TaskState
  <2>3. \A u \in Tasks : u # t => task'[u] = task[u] /\ u \notin InFlight
    BY <1>1, <2>1
  <2>4. InFlight' = {}
    BY <2>2, <2>3 DEF InFlight
  <2> QED
    BY <1>1, <1>3, <2>1, <2>4 DEF Ends, Conclude
<1> QED
  BY <1>2, <1>3 DEF Conclude

\* A task that completes leaves its slot idle, and in flight whoever else was.
LEMMA FinishEnds ==
  ASSUME TypeInv, NEW t \in Tasks, NEW r, NEW W, Finish(t, r, W)
  PROVE  /\ task'[t] = IdleTask /\ \A u \in Tasks \ {t} : task'[u] = task[u]
         /\ InFlight' = InFlight \ {t}
<1>1. task'[t] = IdleTask /\ \A u \in Tasks \ {t} : task'[u] = task[u]
  BY DEF Finish, TypeInv, TypeOK
<1> QED
  BY <1>1, Constants DEF InFlight

-----------------------------------------------------------------------------
(* Tokens only get newer.                                                  *)

\* A refresh works on the token that is still cached when it ends, and what it
\* has got is the newest token there is; everything else that holds a token
\* holds an issued one.
HeldBy(t) ==
  /\ task[t].pc # "spawned" => task[t].current = token
  /\ task[t].result = "none"
  /\ task[t].pc \in {"saving", "installing"} =>
       task[t].new.id = issued /\ token.id < issued

HeldInv ==
  /\ token.id <= issued /\ store.id <= issued
  /\ \A c \in Callers : loaded[c].id <= issued
  /\ \A t \in InFlight : HeldBy(t)
  /\ \A t \in Tasks : task[t].pc = "notify" /\ task[t].result = "token" => token.id # 0
  /\ ~ClockJumps => \A c \in Callers : readAt[c] <= clock

\* A new record for the one task in flight, with the token as it was.
LEMMA UpdateHeld ==
  ASSUME TypeInv, FlightInv, HeldInv, NEW t \in InFlight, NEW r,
         task' = [task EXCEPT ![t] = r],
         r.pc \in {"exchange", "saving", "installing", "failing"},
         r.result = "none", r.current = token,
         r.pc \in {"saving", "installing"} => r.new.id = issued' /\ token.id < issued',
         issued <= issued', store'.id <= issued', issued' \in Nat,
         UNCHANGED <<token, loaded, readAt, clock>>
  PROVE  HeldInv'
<1>1. t \in Tasks /\ InFlight = {t}
  BY DEF FlightInv, SingleFlight, InFlight
<1>2. task'[t] = r /\ \A u \in Tasks \ {t} : task'[u] = task[u]
  BY <1>1 DEF TypeInv, TypeOK
<1>3. InFlight' = {t}
  BY <1>1, <1>2 DEF InFlight
<1>4. \A u \in InFlight' : HeldBy(u)'
  BY <1>2, <1>3 DEF HeldBy
<1>5. token'.id <= issued' /\ \A c \in Callers : loaded'[c].id <= issued'
  BY DEF HeldInv, TypeInv, TypeOK, Token
<1>6. \A u \in Tasks :
        task'[u].pc = "notify" /\ task'[u].result = "token" => token'.id # 0
  BY <1>2, SMTT(30) DEF HeldInv
<1> QED
  BY <1>4, <1>5, <1>6 DEF HeldInv

\* A refresh in flight ends, with a token no older than the one before.
LEMMA EndHeld ==
  ASSUME TypeInv, FlightInv, HeldInv, NEW t \in Tasks, InFlight' = {},
         \A u \in Tasks \ {t} : task'[u] = task[u],
         task'[t].pc = "notify" /\ task'[t].result = "token" => token'.id # 0,
         token'.id <= issued, token.id <= token'.id, token' \in Token,
         UNCHANGED <<store, loaded, readAt, clock, issued>>
  PROVE  HeldInv'
<1>1. token.id # 0 => token'.id # 0
  BY DEF TypeInv, TypeOK, Token
<1>2. \A u \in Tasks :
        task'[u].pc = "notify" /\ task'[u].result = "token" => token'.id # 0
  BY <1>1 DEF HeldInv
<1> QED
  BY <1>2 DEF HeldInv

\* Each action keeps the invariant.
LEMMA HeldInvariant == Spec => []HeldInv
<1>1. Init => HeldInv
  <2> SUFFICES ASSUME Init PROVE HeldInv
    OBVIOUS
  <2>1. InFlight = {} /\ \A t \in Tasks : task[t].pc = "idle"
    BY Constants DEF Init, InFlight
  <2>2. token.id <= issued /\ store.id <= issued
    BY DEF Init, NoToken
  <2>3. \A c \in Callers : loaded[c].id <= issued /\ readAt[c] <= clock
    <3>1. \A c \in Callers : loaded[c] = NoToken /\ readAt[c] = 0
      BY Zenon DEF Init
    <3>2. NoToken.id <= issued /\ 0 <= clock
      BY DEF Init, NoToken
    <3> QED
      BY <3>1, <3>2, Zenon
  <2> QED
    BY <2>1, <2>2, <2>3 DEF HeldInv
<1>2. TypeInv /\ FlightInv /\ HeldInv /\ [Next]_vars => HeldInv'
  <2> SUFFICES ASSUME TypeInv, FlightInv, HeldInv, [Next]_vars PROVE HeldInv'
    OBVIOUS
  <2>0. \A t \in Tasks : task[t] \in TaskState
    BY DEF TypeInv, TypeOK
  <2>1. ASSUME NEW c \in Callers, Call(c) \/ CallerStep(c) \/ Cancel(c)
        PROVE  HeldInv'
    <3>1. CallerKind(c) /\ CallerFrame
      BY <2>1, CallerKinds
    <3>2. /\ issued' = issued /\ store'.id <= issued
          /\ \A d \in Callers : loaded'[d].id <= issued
      BY <3>1, SMTT(30) DEF CallerFrame, serverVars, HeldInv, NoToken, TypeInv, TypeOK
    <3>3. ~ClockJumps => \A d \in Callers : readAt'[d] <= clock'
      BY <3>1, SMTT(30) DEF CallerFrame, HeldInv, TypeInv, TypeOK
    <3>4. CASE UNCHANGED <<token, task>>
      BY <3>2, <3>3, <3>4, SMTT(30) DEF HeldInv, HeldBy, InFlight
    <3>5. CASE UNCHANGED task /\ InFlight = {} /\ token.id = 0 /\ token' = loaded[c]
      <4>1. \A t \in Tasks : ~(task'[t].pc = "notify" /\ task'[t].result = "token")
        BY <3>5 DEF HeldInv
      <4>2. InFlight' = {}
        BY <3>5 DEF InFlight
      <4> QED
        BY <3>2, <3>3, <3>5, <4>1, <4>2 DEF HeldInv
    <3>6. ASSUME NEW t \in Tasks, NEW tok \in Token, Starts(c, tok, t),
                 tok = token \/ (token.id = 0 /\ tok = loaded[c])
          PROVE  HeldInv'
      <4>1. task'[t].pc = "spawned" /\ task'[t].result = "none"
        BY <3>6 DEF Starts, IdleTask
      <4>2. token'.id = tok.id
        BY <3>6 DEF Starts, WithoutCredential, Token
      <4>3. token'.id <= issued /\ (token.id # 0 => token'.id # 0)
        BY <3>6, <4>2, SMTT(30) DEF HeldInv
      <4>4. \A u \in InFlight' : HeldBy(u)'
        BY <3>6, <4>1, Zenon DEF Starts, HeldBy
      <4>5. \A u \in Tasks :
              task'[u].pc = "notify" /\ task'[u].result = "token" => token'.id # 0
        BY <3>6, <4>1, <4>3, Zenon DEF Starts, HeldInv
      <4> QED
        BY <3>2, <3>3, <4>3, <4>4, <4>5 DEF HeldInv
    <3> QED
      BY <3>1, <3>4, <3>5, <3>6 DEF CallerKind
  <2>2. ASSUME NEW t \in Tasks, Run(t) PROVE HeldInv'
    <3> DEFINE r == [task[t] EXCEPT !.pc = "exchange", !.current = token]
    <3>1. t \in InFlight
      BY <2>2 DEF Run, InFlight
    <3>2. r.pc = "exchange" /\ r.current = token /\ r.result = "none"
      BY <2>0, <3>1 DEF TaskState, HeldInv, HeldBy
    <3>3. task' = [task EXCEPT ![t] = r]
      BY <2>2 DEF Run
    <3>4. UNCHANGED <<token, loaded, readAt, clock, issued, store>>
      BY <2>2 DEF Run, stateVars, callerVars, serverVars
    <3>5. store'.id <= issued' /\ issued <= issued' /\ issued' \in Nat
      BY <3>4 DEF HeldInv, TypeInv, TypeOK
    <3> HIDE DEF r
    <3> QED
      BY <3>1, <3>2, <3>3, <3>4, <3>5, UpdateHeld, Zenon
  <2>3. ASSUME NEW t \in Tasks, ExchangeOk(t) PROVE HeldInv'
    <3>1. PICK life \in Lifetimes, refresh \in {0, issued + 1} :
            task' = [task EXCEPT ![t] = [@ EXCEPT !.pc = "saving",
                       !.new = [id |-> issued + 1, exp |-> clock + life,
                                refresh |-> refresh]]]
      BY <2>3, Zenon DEF ExchangeOk
    <3> DEFINE n == [id |-> issued + 1, exp |-> clock + life,
                     refresh |-> refresh]
               r == [task[t] EXCEPT !.pc = "saving", !.new = n]
    <3>2. n.id = issued + 1
      OBVIOUS
    <3>3. task' = [task EXCEPT ![t] = r]
      BY <3>1
    <3> HIDE DEF n
    <3>4. t \in InFlight /\ task[t].pc = "exchange"
      BY <2>3 DEF ExchangeOk, InFlight
    <3>5. r.pc = "saving" /\ r.new = n /\ r.current = token /\ r.result = "none"
      BY <2>0, <3>4 DEF TaskState, HeldInv, HeldBy
    <3>6. /\ issued' = issued + 1 /\ issued \in Nat /\ token.id < issued + 1
          /\ store.id < issued + 1
      BY <2>3 DEF ExchangeOk, HeldInv, TypeInv, TypeOK, Token
    <3>7. /\ UNCHANGED <<token, loaded, readAt, clock>> /\ store'.id <= issued'
          /\ issued <= issued' /\ issued' \in Nat /\ token.id < issued'
      BY <2>3, <3>6 DEF ExchangeOk, stateVars, callerVars, TypeInv, TypeOK, Token
    <3> HIDE DEF r
    <3> QED
      BY <3>2, <3>3, <3>4, <3>5, <3>6, <3>7, UpdateHeld, Zenon
  <2>4. ASSUME NEW t \in Tasks, ExchangeErr(t) PROVE HeldInv'
    <3>1. PICK e \in Errors :
            task' = [task EXCEPT ![t] = [@ EXCEPT !.pc = "failing", !.err = e]]
      BY <2>4, Zenon DEF ExchangeErr
    <3> DEFINE r == [task[t] EXCEPT !.pc = "failing", !.err = e]
    <3>2. t \in InFlight /\ task[t].pc = "exchange"
      BY <2>4 DEF ExchangeErr, InFlight
    <3>3. r.pc = "failing" /\ r.current = token /\ r.result = "none"
      BY <2>0, <3>2 DEF TaskState, HeldInv, HeldBy
    <3>4. task' = [task EXCEPT ![t] = r]
      BY <3>1
    <3>5. UNCHANGED <<token, loaded, readAt, clock, issued, store>>
      BY <2>4 DEF ExchangeErr, stateVars, callerVars
    <3>6. store'.id <= issued' /\ issued <= issued' /\ issued' \in Nat
      BY <3>5 DEF HeldInv, TypeInv, TypeOK
    <3> HIDE DEF r
    <3> QED
      BY <3>2, <3>3, <3>4, <3>5, <3>6, UpdateHeld, Zenon
  <2>5. ASSUME NEW t \in Tasks, Save(t) PROVE HeldInv'
    <3> DEFINE r == [task[t] EXCEPT !.pc = "installing"]
    <3>1. t \in InFlight /\ task[t].pc = "saving"
      BY <2>5 DEF Save, InFlight
    <3>2. /\ r.pc = "installing" /\ r.current = token /\ r.result = "none"
          /\ r.new.id = issued /\ token.id < issued
      BY <2>0, <3>1 DEF TaskState, HeldInv, HeldBy
    <3>3. task' = [task EXCEPT ![t] = r]
      BY <2>5 DEF Save
    <3>4. store'.id <= issued /\ issued \in Nat
      BY <2>5, <3>1 DEF Save, HeldInv, HeldBy, TypeInv, TypeOK
    <3>5. UNCHANGED <<token, loaded, readAt, clock, issued>>
      BY <2>5 DEF Save, stateVars, callerVars, serverVars
    <3>6. store'.id <= issued' /\ issued <= issued' /\ issued' \in Nat
      BY <3>4, <3>5
    <3> HIDE DEF r
    <3> QED
      BY <3>1, <3>2, <3>3, <3>5, <3>6, UpdateHeld, Zenon
  <2>6. ASSUME NEW t \in Tasks, Install(t) PROVE HeldInv'
    <3>1. t \in InFlight /\ task[t].new.id = issued /\ token.id < issued
      BY <2>6 DEF Install, InFlight, HeldInv, HeldBy
    <3>2. Ends(t, "token", "token")
      BY <2>6, <3>1, ConcludeEnds DEF Install, Returned
    <3>3. /\ token' \in Token /\ token'.id = issued /\ issued' = issued
          /\ token.id <= token'.id /\ issued # 0
      BY <2>6, <3>1, <2>0 DEF Install, serverVars, TypeInv, TypeOK, Token, TaskState
    <3>4. UNCHANGED <<loaded, readAt>>
      BY <3>2 DEF Ends, Finish, callerVars
    <3> QED
      BY <2>6, <3>1, <3>2, <3>3, <3>4, EndHeld DEF Install, Ends, HeldInv, TypeInv, TypeOK
  <2>7. ASSUME NEW t \in Tasks, Fail(t) PROVE HeldInv'
    <3>1. task[t].err \in Errors /\ t \in InFlight
      BY <2>7 DEF Fail, TypeInv, TypeOK, OutcomeKnown, TaskState, InFlight
    <3>2. ErrorOf(task[t].err) \in Returned /\ FailureResult(t) \in Returned
      BY <3>1, Constants DEF FailureResult, Returned
    <3>3. Ends(t, ErrorOf(task[t].err), FailureResult(t))
      BY <2>7, <3>1, <3>2, ConcludeEnds, Zenon DEF Fail
    <3>4. token' \in Token /\ token'.id = token.id
      BY <2>7, <2>0, Zenon DEF Fail, Restore, TypeInv, TypeOK, Token, TaskState
    <3>5. UNCHANGED <<loaded, readAt, issued, store, clock>>
      BY <2>7, <3>3 DEF Fail, Ends, Finish, callerVars, serverVars
    <3>6. task'[t].pc = "notify" => token'.id # 0
      BY <3>1, <3>3, <3>4, Constants, AutoRefreshAssumption DEF Ends, FlightInv, InFlight
    <3>7. token.id <= issued /\ token.id <= token.id
      BY DEF HeldInv, TypeInv, TypeOK, Token
    <3> QED
      BY <3>3, <3>4, <3>5, <3>6, <3>7, EndHeld DEF Ends
  <2>8. ASSUME NEW t \in Tasks, NEW r, NEW W, Finish(t, r, W),
               UNCHANGED <<clock, token, store, issued>>
        PROVE  HeldInv'
    <3>0. UNCHANGED <<loaded, readAt>>
      BY <2>8 DEF Finish
    <3>1. /\ task'[t].pc = "idle" /\ \A u \in Tasks \ {t} : task'[u] = task[u]
          /\ InFlight' = InFlight \ {t}
      BY <2>8, FinishEnds, Constants
    <3>2. \A u \in InFlight' : HeldBy(u)'
      BY <2>8, <3>1, SMTT(30) DEF HeldInv, HeldBy, InFlight
    <3> QED
      BY <2>8, <3>0, <3>1, <3>2, SMTT(30) DEF HeldInv
  <2>9. ASSUME NEW t \in Tasks, Notify(t) PROVE HeldInv'
    BY <2>8, <2>9 DEF Notify, stateVars, serverVars
  <2>10. ASSUME NEW t \in Tasks, Die(t) PROVE HeldInv'
    <3>1. t \in InFlight /\ InFlight = {t}
      BY <2>10 DEF Die, InFlight, FlightInv, SingleFlight
    <3>2. /\ task'[t].pc = "notify" /\ task'[t].result = "internal"
          /\ \A u \in Tasks \ {t} : task'[u] = task[u]
      BY <2>10, <2>0 DEF Die, TypeInv, TypeOK, TaskState
    <3>3. InFlight' = {}
      BY <3>1, <3>2 DEF InFlight
    <3>4. token \in Token /\ token.id <= issued /\ token.id <= token.id
      BY DEF HeldInv, TypeInv, TypeOK, Token
    <3> QED
      BY <2>10, <3>2, <3>3, <3>4, EndHeld DEF Die, stateVars, callerVars, serverVars
  <2>11. ASSUME NEW t \in Tasks, Abandon(t) PROVE HeldInv'
    BY <2>8, <2>11 DEF Abandon, stateVars, serverVars
  <2>12. ASSUME Tick PROVE HeldInv'
    <3>1. ~ClockJumps => \A c \in Callers : readAt'[c] <= clock'
      BY <2>12, AutoRefreshAssumption DEF Tick, callerVars, HeldInv, TypeInv, TypeOK
    <3> QED
      BY <2>12, <3>1, SMTT(30)
         DEF Tick, HeldInv, HeldBy, InFlight, stateVars, callerVars, serverVars
  <2>13. ASSUME UNCHANGED vars PROVE HeldInv'
    BY <2>13, SMTT(30) DEF vars, HeldInv, HeldBy, InFlight, stateVars, callerVars, serverVars
  <2> QED
    BY <2>1, <2>2, <2>3, <2>4, <2>5, <2>6, <2>7, <2>9, <2>10, <2>11, <2>12, <2>13
       DEF Next, TaskStep
<1> QED
  BY <1>1, <1>2, TypeInvariant, FlightInvariant, PTL DEF Spec

\* The token cached, and the one stored, are never replaced by an older one.
THEOREM TokenNeverOlder == Spec => NeverOlder
<1> DEFINE Newer == token'.id >= token.id /\ store'.id >= store.id
<1>1. TypeInv /\ FlightInv /\ HeldInv /\ [Next]_vars => [Newer]_<<token, store>>
  <2> SUFFICES ASSUME TypeInv, FlightInv, HeldInv, [Next]_vars
               PROVE  [Newer]_<<token, store>>
    OBVIOUS
  <2>0. /\ token.id \in Nat /\ store.id \in Nat /\ issued \in Nat
        /\ \A c \in Callers : loaded[c].id \in Nat
    BY DEF TypeInv, TypeOK, Token
  <2>1. ASSUME NEW c \in Callers, Call(c) \/ CallerStep(c) \/ Cancel(c) PROVE Newer
    <3>1. CallerKind(c) /\ store' = store
      BY <2>1, CallerKinds DEF CallerFrame
    <3>2. ASSUME NEW t \in Tasks, NEW tok \in Token, Starts(c, tok, t) PROVE token'.id = tok.id
      BY <3>2 DEF Starts, WithoutCredential, Token
    <3>3. token'.id = token.id \/ (token.id = 0 /\ token'.id = loaded[c].id)
      BY <3>1, <3>2 DEF CallerKind
    <3> QED
      BY <2>0, <3>1, <3>3
  <2>2. ASSUME NEW t \in Tasks, Save(t) PROVE Newer
    <3>1. task[t].new.id = issued /\ store.id <= issued
      BY <2>2 DEF Save, HeldInv, HeldBy, InFlight
    <3> QED
      BY <2>0, <2>2, <3>1 DEF Save, stateVars
  <2>3. ASSUME NEW t \in Tasks, Install(t) PROVE Newer
    <3>1. task[t].new.id = issued /\ token.id <= issued
      BY <2>3, SMTT(30) DEF Install, HeldInv, HeldBy, InFlight
    <3> QED
      BY <2>0, <2>3, <3>1 DEF Install
  <2>4. ASSUME NEW t \in Tasks, Fail(t) PROVE Newer
    <3>1. token'.id = token.id
      BY <2>4 DEF Fail, Restore, TypeInv, TypeOK, Token
    <3> QED
      BY <2>0, <2>4, <3>1, SMTT(30) DEF Fail
  <2>5. ASSUME NEW t \in Tasks, Run(t) \/ ExchangeOk(t) \/ ExchangeErr(t) \/ Notify(t)
                                 \/ Die(t) \/ Abandon(t)
        PROVE  UNCHANGED <<token, store>>
    BY <2>5, Zenon DEF Run, ExchangeOk, ExchangeErr, Notify, Die, Abandon, stateVars
  <2>6. Tick \/ UNCHANGED vars => UNCHANGED <<token, store>>
    BY DEF Tick, vars, stateVars
  <2> QED
    BY <2>1, <2>2, <2>3, <2>4, <2>5, <2>6 DEF Next, TaskStep
<1> QED
  BY <1>1, TypeInvariant, FlightInvariant, HeldInvariant, PTL DEF Spec, NeverOlder

-----------------------------------------------------------------------------
(* Errors.                                                                 *)

\* The moment a call decides: any step of a caller that ends in a failure is
\* taken where the cached token cannot be used.
LEMMA CallerErrors ==
  ASSUME TypeInv, HeldInv, ~ClockJumps, NEW c \in Callers,
         Call(c) \/ CallerStep(c) \/ Cancel(c)
  PROVE  /\ \A d \in Callers : pc'[d] \in Failure => pc'[d] = pc[d] \/ ~IsUsable(token, clock)
         /\ \A t \in Tasks : task'[t] = task[t] \/ task'[t].result = "none"
<1> USE DEF Failure
<1>0. ASSUME NEW l, l \notin Failure \/ ~IsUsable(token, clock), pc' = [pc EXCEPT ![c] = l]
      PROVE  \A d \in Callers : pc'[d] \in Failure => pc'[d] = pc[d] \/ ~IsUsable(token, clock)
  BY <1>0 DEF TypeInv, TypeOK
<1>1. ASSUME NEW tok \in Token, tok = token \/ token.id = 0, Decide(c, tok)
      PROVE  /\ \E l : (l \notin Failure \/ ~IsUsable(token, clock)) /\ pc' = [pc EXCEPT ![c] = l]
             /\ \A t \in Tasks : task'[t] = task[t] \/ task'[t].result = "none"
  <2>1. IsUsable(token, clock) => tok = token /\ IsUsable(tok, clock)
    BY <1>1, SMTT(30) DEF IsUsable
  <2>2. CASE StartRefresh(c, tok)
    <3>1. PICK t \in Tasks :
            task' = [task EXCEPT ![t] = [IdleTask EXCEPT !.pc = "spawned",
                                           !.credential = tok.refresh]]
      BY <2>2, Zenon DEF StartRefresh
    <3>2. \A u \in Tasks : task'[u] = task[u] \/ task'[u].result = "none"
      BY <3>1 DEF IdleTask, TypeInv, TypeOK
    <3>3. pc' = [pc EXCEPT ![c] = "joining"] /\ "joining" \notin Failure
      BY <2>2, SMTT(30) DEF StartRefresh, Goto
    <3> QED
      BY <3>2, <3>3, Zenon
  <2>3. CASE UNCHANGED task /\ Goto(c, "registering", Free)
    BY <2>3, Zenon DEF Goto
  <2>4. CASE UNCHANGED task /\ (Return(c, "token")
                                  \/ (~IsUsable(tok, clock) /\ \E r : Return(c, r)))
    BY <2>1, <2>4, Zenon DEF Return
  <2>5. tok.id = 0 => ~IsUsable(tok, clock)
    BY DEF IsUsable
  <2> QED
    BY <1>1, <2>2, <2>3, <2>4, <2>5, Zenon DEF Decide
<1>2. CASE Enter(c)
  <2>1. token \in Token
    BY SMTT(30) DEF TypeInv, TypeOK
  <2>2. CASE token.id # 0
    BY <1>0, <1>1, <1>2, <2>1, <2>2, Zenon DEF Enter
  <2>3. CASE token.id = 0
    BY <1>0, <1>2, <2>3, Zenon DEF Enter, Return, Goto, IsUsable
  <2> QED
    BY <2>1, <2>2, <2>3 DEF Token
<1>3. CASE Relock(c)
  BY <1>0, <1>1, <1>3, Zenon DEF Relock, Reloaded, TypeInv, TypeOK
<1>4. CASE Answer(c)
  <2>1. readAt[c] <= clock /\ readAt[c] \in Nat /\ clock \in Nat /\ token.exp \in Nat
    BY DEF HeldInv, TypeInv, TypeOK, Token
  <2>2. IsUsable(token, clock) => IsUsable(token, readAt[c])
    BY <2>1 DEF IsUsable
  <2> QED
    BY <1>0, <1>4, <2>2, Zenon DEF Answer, Return
<1>5. CASE Call(c) \/ Load(c) \/ Register(c) \/ Recheck(c) \/ ReadClock(c) \/ Cancel(c)
  BY <1>0, <1>5, Zenon DEF Call, Load, Register, Recheck, ReadClock, Cancel, Return
<1> QED
  BY <1>2, <1>3, <1>4, <1>5, Zenon DEF CallerStep

\* get_token fails only where no usable token is cached when it decides, a lost
\* rotation and a dead task apart: a caller that was notified decides by the
\* clock it read before it had the lock, and a failed refresh by the token it
\* started from, and neither is out of date.  (The clock is not set back.)
THEOREM ErrorsDeserved ==
  ASSUME ~ClockJumps PROVE Spec => ErrorOnlyWithoutUsableToken
<1> DEFINE Deserved ==
      /\ \A c \in Callers :
           pc[c] \in Waiting \ {"joining"} /\ pc'[c] \in Failure => ~IsUsable(token, clock)
      /\ \A t \in Tasks :
           task[t].pc = "failing" /\ lock # t /\ task'[t].result \in Failure
             => ~IsUsable(token, clock)
<1>1. TypeInv /\ FlightInv /\ HeldInv /\ [Next]_vars => [Deserved]_vars
  <2> SUFFICES ASSUME TypeInv, FlightInv, HeldInv, Next PROVE Deserved
    BY Zenon
  <2>1. \A l \in Waiting : l \notin Failure
    BY SMTT(30) DEF Waiting, Failure
  <2>2. \A t \in Tasks : task[t].pc = "failing" => task[t].result = "none" /\ InFlight = {t}
    BY Zenon DEF HeldInv, HeldBy, FlightInv, SingleFlight, InFlight
  <2>3. "none" \notin Failure /\ "internal" \notin Failure /\ IdleTask.result = "none"
        /\ "store" \notin Failure /\ "token" \notin Failure
    BY DEF Failure, IdleTask
  <2>4. ASSUME NEW c \in Callers, Call(c) \/ CallerStep(c) \/ Cancel(c) PROVE Deserved
    <3>1. \A d \in Callers : pc'[d] \in Failure => pc'[d] = pc[d] \/ ~IsUsable(token, clock)
      BY <2>4, CallerErrors
    <3>2. \A t \in Tasks : task'[t] = task[t] \/ task'[t].result = "none"
      BY <2>4, CallerErrors
    <3> QED
      BY <2>1, <2>2, <2>3, <3>1, <3>2, SMTT(30)
  <2>5. ASSUME NEW t \in Tasks, NEW r, NEW W, Finish(t, r, W)
        PROVE  \A c \in Callers : pc[c] \in Waiting \ {"joining"} => pc'[c] \notin Failure
    BY <2>1, <2>5 DEF Finish, Waiting, Failure
  <2>6. ASSUME NEW t \in Tasks, NEW r, NEW W, Finish(t, r, W) PROVE Deserved
    <3>1. \A u \in Tasks : task'[u] = task[u] \/ task'[u] = IdleTask
      BY <2>6, FinishEnds
    <3> QED
      BY <2>2, <2>3, <2>5, <2>6, <3>1, Zenon
  <2>7. UNCHANGED pc => \A c \in Callers : pc[c] \in Waiting => pc'[c] \notin Failure
    BY <2>1
  <2>8. ASSUME NEW t \in Tasks, Install(t) \/ Fail(t) PROVE Deserved
    <3>1. t \in InFlight /\ InFlight = {t}
      BY <2>8, Zenon DEF Install, Fail, InFlight, FlightInv, SingleFlight
    <3>2. \A b, n : Conclude(t, b, n) =>
            \A c \in Callers : pc[c] \in Waiting \ {"joining"} => pc'[c] \notin Failure
      BY <2>5, <2>7, <3>1, SMTT(30) DEF Conclude, callerVars
    <3>3. \A c \in Callers : pc[c] \in Waiting \ {"joining"} => pc'[c] \notin Failure
      BY <2>8, <3>2, Zenon DEF Install, Fail
    <3>4. CASE task[t].pc = "failing" /\ lock # t
      <4>1. Fail(t) /\ task' = [task EXCEPT ![t] = [@ EXCEPT !.pc = "notify",
                                                       !.result = FailureResult(t)]]
        BY <2>8, <3>4 DEF Install, Fail, Conclude
      <4>2. task'[t].result = FailureResult(t)
        BY <4>1 DEF TypeInv, TypeOK, TaskState
      <4>3. task[t].current = token
        BY <3>1, <3>4 DEF HeldInv, HeldBy
      <4>4. token.exp \in Nat /\ clock \in Nat
        BY DEF TypeInv, TypeOK, Token
      <4>5. FailureResult(t) \in Failure => clock >= token.exp
        BY <2>3, <4>3 DEF FailureResult, CredentialConsumed, ErrorOf
      <4> QED
        BY <2>2, <3>1, <3>3, <4>2, <4>4, <4>5, SMTT(30) DEF IsUsable
    <3> QED
      BY <2>2, <3>1, <3>3, <3>4
  <2>9. ASSUME NEW t \in Tasks, Die(t) PROVE Deserved
    <3>1. \A u \in Tasks : task'[u] = task[u] \/ task'[u].result = "internal"
      BY <2>9 DEF Die, TypeInv, TypeOK, TaskState
    <3>2. UNCHANGED pc
      BY <2>9 DEF Die, callerVars
    <3> QED
      BY <2>2, <2>3, <2>7, <3>1, <3>2
  <2>10. ASSUME NEW t \in Tasks, Run(t) \/ ExchangeOk(t) \/ ExchangeErr(t) \/ Save(t)
         PROVE  Deserved
    <3>1. task[t].pc \in {"spawned", "exchange", "saving"}
      BY <2>10, Zenon DEF Run, ExchangeOk, ExchangeErr, Save
    <3>2. InFlight = {t}
      BY <3>1 DEF InFlight, FlightInv, SingleFlight
    <3>3. UNCHANGED pc
      BY <2>10, Zenon DEF Run, ExchangeOk, ExchangeErr, Save, callerVars
    <3> QED
      BY <2>2, <2>7, <3>1, <3>2, <3>3
  <2>11. ASSUME Tick PROVE Deserved
    BY <2>2, <2>3, <2>7, <2>11 DEF Tick, callerVars
  <2> QED
    BY <2>4, <2>6, <2>8, <2>9, <2>10, <2>11, Zenon DEF Next, TaskStep, Notify, Abandon
<1> QED
  BY <1>1, TypeInvariant, FlightInvariant, HeldInvariant, PTL
     DEF Spec, ErrorOnlyWithoutUsableToken

-----------------------------------------------------------------------------
(* AutoRefresh implements TokenEngine.                                     *)

\* Callers stop waiting, and those among them that are served are so with the
\* token there is.
Leaving ==
  /\ Asking' \subseteq Asking
  /\ Served' \ Served \subseteq Asking \ Asking'
  /\ Served' \ Served # {} => token'.id # 0

\* What the steps of TokenEngine are, in terms of AutoRefresh.
LEMMA EngineSteps ==
  /\ Leaving /\ UNCHANGED <<token.id, Stale, Exchanging>> => Engine!Next
  /\ Leaving /\ UNCHANGED Exchanging /\ token.id = 0 /\ token'.id > 0 /\ Asking # {}
       => Engine!Next
  /\ ( /\ ~Exchanging /\ Exchanging' /\ Asking # {} /\ UNCHANGED <<Asking, Served>>
       /\ token.id = 0 \/ UNCHANGED <<token.id, Stale>>
       /\ token'.id = 0 \/ Stale' ) => Engine!Next
  /\ ( /\ Exchanging /\ ~Exchanging' /\ Leaving
       /\ token'.id > token.id \/ UNCHANGED <<token.id, Stale>> ) => Engine!Next
  /\ ( /\ Asking \subseteq Asking' /\ Served' \subseteq Served
       /\ UNCHANGED <<token.id, Stale, Exchanging>> ) => Engine!Next
  /\ token.id # 0 /\ Stale' /\ UNCHANGED <<token.id, Exchanging, Asking, Served>>
       => Engine!Next
<1>1. Leaving /\ UNCHANGED <<token.id, Stale, Exchanging>> => Engine!Answer
  BY DEF Engine!Answer, Engine!Leave, Leaving
<1>2. Leaving /\ UNCHANGED Exchanging /\ token.id = 0 /\ token'.id > 0 /\ Asking # {}
        => Engine!Adopt
  BY DEF Engine!Adopt, Engine!Leave, Leaving
<1>3. ASSUME ~Exchanging, Exchanging', Asking # {}, UNCHANGED <<Asking, Served>>,
             token.id = 0 \/ UNCHANGED <<token.id, Stale>>, token'.id = 0 \/ Stale'
      PROVE  Engine!Begin
  BY <1>3 DEF Engine!Begin
<1>4. ASSUME Exchanging, ~Exchanging', Leaving,
             token'.id > token.id \/ UNCHANGED <<token.id, Stale>>
      PROVE  Engine!End
  BY <1>4 DEF Engine!End, Engine!Leave, Leaving
<1>5. ASSUME Asking \subseteq Asking', Served' \subseteq Served,
             UNCHANGED <<token.id, Stale, Exchanging>>
      PROVE  Engine!Ask
  BY <1>5 DEF Engine!Ask
<1>6. token.id # 0 /\ Stale' /\ UNCHANGED <<token.id, Exchanging, Asking, Served>>
        => Engine!Age
  BY DEF Engine!Age
<1> QED
  BY <1>1, <1>2, <1>3, <1>4, <1>5, <1>6, SMTT(30) DEF Engine!Next

\* One waiting caller goes on, or returns.
LEMMA CallerLeaves ==
  ASSUME TypeInv, NEW c \in Callers, pc[c] \in Waiting, NEW l, pc' = [pc EXCEPT ![c] = l]
  PROVE  /\ l \in Waiting => Asking' = Asking /\ Served' = Served
         /\ (l = "token" => token'.id # 0) => Leaving
<1>1. \A d \in Callers : pc'[d] = IF d = c THEN l ELSE pc[d]
  BY DEF TypeInv, TypeOK
<1>2. pc[c] # "token" /\ "token" \notin Waiting
  BY DEF Waiting
<1>3. l \in Waiting => Asking' = Asking /\ Served' = Served
  BY <1>1, <1>2 DEF Asking, Served
<1>4. Asking' \subseteq Asking
  BY <1>1 DEF Asking
<1>5. Served' \ Served \subseteq Asking \ Asking'
  BY <1>1, <1>2 DEF Served, Asking
<1>6. l # "token" => Served' \ Served = {}
  BY <1>1 DEF Served
<1> QED
  BY <1>3, <1>4, <1>5, <1>6 DEF Leaving

\* The callers that joined a task get its result, those it wakes up still wait.
LEMMA FinishLeaves ==
  ASSUME TypeInv, NEW t \in Tasks, NEW r \in Returned, NEW W, Finish(t, r, W),
         W \subseteq Asking, r = "token" => token'.id # 0
  PROVE  Leaving
<1>1. \A c \in Callers : pc'[c] = pc[c] \/ (pc[c] = "joining" /\ pc'[c] = r)
                           \/ (c \in W /\ pc'[c] = "woken")
  BY DEF Finish
<1>2. /\ r \notin Waiting /\ "joining" \in Waiting /\ "woken" \in Waiting
      /\ "token" \notin Waiting
  BY DEF Waiting, Returned
<1>3. Asking' \subseteq Asking
  BY <1>1, <1>2, SMTT(30) DEF Asking
<1>4. Served' \ Served \subseteq Asking \ Asking'
  BY <1>1, <1>2 DEF Served, Asking
<1>5. r # "token" => Served' \ Served = {}
  BY <1>1, <1>2 DEF Served
<1> QED
  BY <1>3, <1>4, <1>5 DEF Leaving

\* get_token, once the token is settled: one caller goes on or returns, with a
\* token only if there is one.
LEMMA DecideLeaves ==
  ASSUME TypeInv, NEW c \in Callers, pc[c] \in Waiting, NEW tok \in Token, Decide(c, tok)
  PROVE  Leaving
<1>1. ASSUME NEW l, pc' = [pc EXCEPT ![c] = l], l = "token" => token'.id # 0 PROVE Leaving
  BY <1>1, CallerLeaves, Zenon
<1>2. CASE StartRefresh(c, tok)
  BY <1>1, <1>2, Zenon DEF StartRefresh, Goto
<1>3. CASE Goto(c, "registering", Free)
  BY <1>1, <1>3, Zenon DEF Goto
<1>4. CASE token' = tok /\ \E r : Return(c, r) /\ (r = "token" => tok.id # 0)
  BY <1>1, <1>4, Zenon DEF Return
<1> QED
  BY <1>2, <1>3, <1>4, SMTT(30) DEF Decide, IsUsable

\* A step of a caller is a step of TokenEngine.
LEMMA CallerImplements ==
  ASSUME TypeInv, FlightInv, HeldInv, NEW c \in Callers,
         Call(c) \/ CallerStep(c) \/ Cancel(c)
  PROVE  [Engine!Next]_(Engine!vars)
<1>0. UNCHANGED <<token, task>> => UNCHANGED <<token.id, Stale, Exchanging>>
  BY CallerKinds, Zenon DEF CallerFrame, Stale, Exchanging, InFlight, IsExpired
<1>1. CASE Call(c)
  <2>1. \A d \in Callers : pc'[d] = IF d = c THEN "enter" ELSE pc[d]
    BY <1>1, SMTT(30) DEF Call, TypeInv, TypeOK
  <2>2. Asking \subseteq Asking' /\ Served' \subseteq Served
    BY <2>1, Zenon DEF Asking, Served, Waiting
  <2> QED
    BY <1>0, <1>1, <2>2, EngineSteps, SMTT(30) DEF Call, stateVars
<1>2. CASE CallerStep(c) \/ Cancel(c)
  <2>1. pc[c] \in Waiting
    BY <1>2, Zenon DEF CallerStep, Enter, Load, Relock, Register, Recheck, ReadClock, Answer,
                Cancel, Waiting
  <2>2. Asking # {}
    BY <2>1 DEF Asking
  <2>3. Leaving
    <3>1. ASSUME NEW l, pc' = [pc EXCEPT ![c] = l], l = "token" => token'.id # 0 PROVE Leaving
      BY <2>1, <3>1, CallerLeaves, Zenon
    <3>2. CASE Enter(c)
      <4>1. token \in Token
        BY DEF TypeInv, TypeOK
      <4>2. CASE token.id # 0
        BY <2>1, <3>2, <4>1, <4>2, DecideLeaves DEF Enter
      <4>3. CASE token.id = 0
        BY <3>1, <3>2, <4>3, Zenon DEF Enter, Return, Goto
      <4> QED
        BY <4>2, <4>3
    <3>3. CASE Relock(c)
      BY <2>1, <3>3, DecideLeaves, SMTT(30) DEF Relock, Reloaded, TypeInv, TypeOK
    <3>4. CASE Answer(c)
      <4>1. PICK r : Return(c, r) /\ (IsUsable(token, readAt[c]) \/ r # "token")
        BY <3>4, SMTT(30) DEF Answer, ErrorOf, TypeInv, TypeOK, Errors
      <4> QED
        BY <2>1, <3>4, <4>1, CallerLeaves, Zenon DEF Answer, Return, IsUsable
    <3>5. CASE Load(c) \/ Register(c) \/ Recheck(c) \/ ReadClock(c) \/ Cancel(c)
      BY <3>1, <3>5, Zenon DEF Load, Register, Recheck, ReadClock, Cancel, Return
    <3> QED
      BY <1>2, <3>2, <3>3, <3>4, <3>5 DEF CallerStep
  <2>4. CASE UNCHANGED <<token, task>>
    BY <1>0, <2>3, <2>4, EngineSteps
  <2>5. CASE UNCHANGED task /\ InFlight = {} /\ token.id = 0 /\ token' = loaded[c]
    <3>1. UNCHANGED Exchanging /\ loaded[c].id \in Nat
      BY <2>5 DEF Exchanging, InFlight, TypeInv, TypeOK, Token
    <3>2. CASE loaded[c].id = 0
      <4>1. ~Stale /\ ~Stale'
        BY <2>5, <3>2, SMTT(30) DEF Stale
      <4>2. UNCHANGED <<token.id, Stale, Exchanging>>
        BY <2>5, <3>1, <3>2, <4>1, Zenon DEF Stale
      <4> QED
        BY <2>3, <4>2, EngineSteps
    <3>3. CASE loaded[c].id > 0
      BY <2>2, <2>3, <2>5, <3>1, <3>3, EngineSteps, Zenon
    <3> QED
      BY <3>1, <3>2, <3>3
  <2>6. ASSUME NEW t \in Tasks, NEW tok \in Token, Starts(c, tok, t),
               tok = token \/ (token.id = 0 /\ tok = loaded[c])
        PROVE  [Engine!Next]_(Engine!vars)
    <3>1. ~Exchanging /\ Exchanging'
      BY <2>6 DEF Starts, Exchanging
    <3>2. UNCHANGED <<Asking, Served>>
      BY <2>1, <2>6, CallerLeaves, Zenon DEF Starts, Waiting
    <3>3. token'.id = tok.id /\ token'.exp = tok.exp /\ clock' = clock
      BY <2>6, CallerKinds, <1>2 DEF Starts, WithoutCredential, Token, CallerFrame
    <3>4. token'.id = 0 \/ Stale'
      BY <2>6, <3>3 DEF Starts, Stale, IsExpired
    <3>5. tok = token => UNCHANGED <<token.id, Stale>>
      BY <3>3 DEF Stale, IsExpired
    <3> QED
      BY <2>2, <2>6, <3>1, <3>2, <3>4, <3>5, EngineSteps, Zenon
  <2> QED
    BY <1>2, <2>4, <2>5, <2>6, CallerKinds, Zenon DEF CallerKind
<1> QED
  BY <1>1, <1>2

\* A step of a task is one of TokenEngine, too: the end of an exchange where
\* its outcome is recorded, or where the task dies.
LEMMA TaskImplements ==
  ASSUME TypeInv, FlightInv, HeldInv, NEW t \in Tasks,
         TaskStep(t) \/ Die(t) \/ Abandon(t)
  PROVE  [Engine!Next]_(Engine!vars)
<1>0. /\ token.id \in Nat /\ issued \in Nat
      /\ UNCHANGED pc => UNCHANGED <<Asking, Served>>
  BY SMTT(30) DEF TypeInv, TypeOK, Token, Asking, Served
<1>1. CASE Run(t) \/ ExchangeOk(t) \/ ExchangeErr(t) \/ Save(t)
  <2>1. task[t].pc \in {"spawned", "exchange", "saving"}
    BY <1>1, Zenon DEF Run, ExchangeOk, ExchangeErr, Save
  <2>2. task'[t].pc \in {"exchange", "saving", "failing", "installing"}
    <3>0. task \in [Tasks -> TaskState] /\ task[t] \in TaskState
      BY DEF TypeInv, TypeOK
    <3>1. CASE Run(t) \/ Save(t)
      BY <3>0, <3>1, ZenonT(60) DEF Run, Save, TaskState
    <3>2. CASE ExchangeOk(t)
      BY <3>0, <3>2 DEF ExchangeOk, TaskState
    <3>3. CASE ExchangeErr(t)
      BY <3>0, <3>3 DEF ExchangeErr, TaskState
    <3> QED
      BY <1>1, <3>1, <3>2, <3>3, Zenon
  <2>3. Exchanging = TRUE /\ Exchanging' = TRUE
    BY <2>1, <2>2 DEF Exchanging, InFlight
  <2>4. UNCHANGED <<token, clock, pc>>
    BY <1>1, Zenon DEF Run, ExchangeOk, ExchangeErr, Save, stateVars, callerVars
  <2>5. UNCHANGED <<token.id, Stale, Asking, Served>>
    BY <1>0, <2>4 DEF Stale, IsExpired
  <2> QED
    BY <2>3, <2>5 DEF Engine!vars
<1>2. ASSUME InFlight = {t}, InFlight' = {} PROVE Exchanging /\ ~Exchanging'
  BY <1>2 DEF Exchanging
<1>3. UNCHANGED pc => Leaving
  BY <1>0 DEF Leaving
<1>4. CASE Install(t)
  <2>1. InFlight = {t} /\ task[t].new.id = issued /\ token.id < issued
    BY <1>4, ZenonT(30) DEF Install, InFlight, HeldInv, HeldBy, FlightInv, SingleFlight
  <2>2. Ends(t, "token", "token") /\ token' = task[t].new
    BY <1>4, <2>1, ConcludeEnds, ZenonT(30) DEF Install, Returned
  <2>3. token'.id > token.id /\ token'.id # 0
    BY <1>0, <2>1, <2>2, SMTT(30)
  <2>4. Leaving
    BY <1>3, <2>2, <2>3, FinishLeaves DEF Ends, callerVars, Returned
  <2>5. Exchanging /\ ~Exchanging'
    BY <1>2, <2>1, <2>2 DEF Ends
  <2> QED
    BY <2>3, <2>4, <2>5, EngineSteps
<1>5. CASE Fail(t)
  <2>1. task[t].err \in Errors /\ t \in InFlight /\ InFlight = {t}
    BY <1>5, SMTT(30) DEF Fail, TypeInv, TypeOK, OutcomeKnown, TaskState, InFlight, FlightInv, SingleFlight
  <2>2. /\ ErrorOf(task[t].err) \in Returned /\ FailureResult(t) \in Returned
        /\ ErrorOf(task[t].err) # "token"
    BY <2>1, Constants, Zenon DEF FailureResult, Returned, ErrorOf, Errors
  <2>3. Ends(t, ErrorOf(task[t].err), FailureResult(t))
    BY <1>5, <2>1, <2>2, ConcludeEnds, Zenon DEF Fail
  <2>4. token'.id = token.id /\ token'.exp = token.exp /\ clock' = clock
    BY <1>5 DEF Fail, Restore, TypeInv, TypeOK, Token
  <2>5. UNCHANGED <<token.id, Stale>>
    BY <2>4 DEF Stale, IsExpired
  <2>6. Leaving
    BY <1>3, <2>2, <2>3, FinishLeaves DEF Ends, callerVars
  <2>7. Exchanging /\ ~Exchanging'
    BY <1>2, <2>1, <2>3 DEF Ends
  <2> QED
    BY <2>5, <2>6, <2>7, EngineSteps, SMTT(30)
<1>6. CASE Notify(t)
  <2>1. /\ task[t].result \in Returned /\ t \notin InFlight
        /\ task[t].result = "token" => token.id # 0
    BY <1>6, Zenon DEF Notify, TypeInv, TypeOK, OutcomeKnown, TaskState, InFlight, HeldInv
  <2>2. UNCHANGED <<token, clock>>
    BY <1>6, Zenon DEF Notify, stateVars
  <2>3. {c \in Callers : pc[c] \in {"registered", "parked"}} \subseteq Asking
    BY DEF Asking, Waiting
  <2>4. Leaving
    BY <1>6, <2>1, <2>2, <2>3, FinishLeaves, Zenon DEF Notify
  <2>5. InFlight' = InFlight
    BY <1>6, <2>1, FinishEnds, Zenon DEF Notify
  <2>6. UNCHANGED <<token.id, Stale, Exchanging>>
    BY <2>2, <2>5 DEF Stale, IsExpired, Exchanging
  <2> QED
    BY <2>4, <2>6, EngineSteps, SMTT(30)
<1>7. CASE Die(t) \/ Abandon(t)
  <2>1. UNCHANGED <<token, clock>> /\ InFlight = {t}
    BY <1>7 DEF Die, Abandon, stateVars, InFlight, FlightInv, SingleFlight
  <2>2. UNCHANGED <<token.id, Stale>>
    BY <2>1 DEF Stale, IsExpired
  <2>3. CASE Die(t)
    <3>1. task'[t].pc = "notify" /\ \A u \in Tasks \ {t} : task'[u] = task[u]
      BY <2>3 DEF Die, TypeInv, TypeOK, TaskState
    <3>2. InFlight' = {}
      BY <2>1, <3>1, Zenon DEF InFlight
    <3> QED
      BY <1>2, <1>3, <2>1, <2>2, <2>3, <3>2, EngineSteps DEF Die, callerVars
  <2>4. CASE Abandon(t)
    <3>1. Finish(t, "internal", {})
      BY <2>4, Zenon DEF Abandon
    <3>2. Leaving /\ InFlight' = {}
      BY <2>1, <3>1, FinishLeaves, FinishEnds, SMTT(30) DEF Returned
    <3> QED
      BY <1>2, <2>1, <2>2, <3>2, EngineSteps, SMTT(30)
  <2> QED
    BY <1>7, <2>3, <2>4
<1> QED
  BY <1>1, <1>4, <1>5, <1>6, <1>7 DEF TaskStep

\* The lock, the flag, the Notify list, the store read and the spawned task
\* together behave like the five variables of TokenEngine, for any number of
\* callers and of tokens, as long as the clock is not set back.
THEOREM EngineImplemented ==
  ASSUME ~ClockJumps PROVE Spec => ImplementsTokenEngine
<1>1. Init => Engine!Init
  <2> SUFFICES ASSUME Init PROVE Engine!Init
    OBVIOUS
  <2>1. token.id \in Nat
    BY SMTT(30) DEF Init, NoToken
  <2>2. InFlight = {}
    BY Constants, Zenon DEF Init, InFlight
  <2>3. Asking = {} /\ Served = {}
    BY DEF Init, Asking, Served, Waiting
  <2> QED
    BY <2>1, <2>2, <2>3 DEF Engine!Init, Exchanging, Stale
<1>2. TypeInv /\ FlightInv /\ HeldInv /\ [Next]_vars => [Engine!Next]_(Engine!vars)
  <2> SUFFICES ASSUME TypeInv, FlightInv, HeldInv, [Next]_vars
               PROVE  [Engine!Next]_(Engine!vars)
    OBVIOUS
  <2>1. ASSUME Tick PROVE [Engine!Next]_(Engine!vars)
    <3>1. UNCHANGED <<token, task, pc>> /\ clock <= clock' /\ clock' \in Nat
      <4>1. UNCHANGED <<token, task, pc>> /\ clock' = clock + 1 /\ clock' \in 0..MaxTime
        BY <2>1 DEF Tick, stateVars, callerVars
      <4>2. clock \in Nat
        BY DEF TypeInv, TypeOK
      <4> QED
        BY <4>1, <4>2
    <3>2. UNCHANGED <<token.id, Exchanging, Asking, Served>>
      BY <3>1, SMTT(30) DEF Exchanging, InFlight, Asking, Served
    <3>3. Stale => Stale'
      BY <3>1, AutoRefreshAssumption, SMTT(30) DEF Stale, IsExpired, TypeInv, TypeOK, Token
    <3>4. CASE Stale'
      BY <3>2, <3>4, EngineSteps, Zenon DEF Stale
    <3>5. CASE ~Stale'
      BY <3>2, <3>3, <3>5, SMTT(30) DEF Engine!vars, Stale
    <3> QED
      BY <3>4, <3>5
  <2>2. ASSUME UNCHANGED vars PROVE [Engine!Next]_(Engine!vars)
    BY <2>2, Zenon DEF vars, stateVars, callerVars, Engine!vars, Stale, IsExpired, Exchanging,
                InFlight, Asking, Served
  <2> QED
    BY <2>1, <2>2, CallerImplements, TaskImplements DEF Next
<1> QED
  BY <1>1, <1>2, TypeInvariant, FlightInvariant, HeldInvariant, PTL
     DEF Spec, ImplementsTokenEngine, Engine!Spec

-----------------------------------------------------------------------------
(* Rotating credentials.                                                   *)

\* Presented now, this credential would be a first use, or a replay of one
\* whose answer was lost.
Clean(r) == r \in spent => r \in unanswered

\* The task still has the credential it was started with.
Unspent(t) ==
  \/ task[t].pc \in {"spawned", "exchange"}
  \/ task[t].pc = "failing" /\ task[t].err # "store"

\* While a refresh is in flight it alone has a credential: the one it was
\* started with, or the one it got for it.
CredentialOf(t) ==
  /\ token.refresh = 0
  /\ task[t].credential \in 1..issued
  /\ Unspent(t) => Clean(task[t].credential)
  /\ task[t].pc \in {"saving", "installing"} =>
       task[t].new.refresh \in 0..issued /\ Clean(task[t].new.refresh)
  /\ live # 0 /\ ~stranded =>
       \/ Unspent(t) /\ task[t].credential = live
       \/ task[t].pc \in {"saving", "installing"} /\ task[t].new.refresh = live

CredentialInv ==
  /\ spent \subseteq 1..issued
  /\ NoReplay
  /\ ~Rotating => spent = {} /\ live = 0
  /\ Rotating =>
       /\ token.id # 0 /\ store = NoToken /\ \A c \in Callers : loaded[c] = NoToken
       /\ token.refresh \in 0..issued /\ Clean(token.refresh)
       /\ \A t \in InFlight : CredentialOf(t)
       /\ InFlight = {} /\ live # 0 /\ ~stranded => token.refresh = live

\* Without rotation nothing is ever spent.
LEMMA WithoutRotation ==
  ASSUME ~Rotating, CredentialInv, [Next]_vars
  PROVE  CredentialInv'
<1>1. spent = {} /\ live = 0 /\ replayed \subseteq unanswered
  BY SMTT(30) DEF CredentialInv, NoReplay
<1>2. CASE UNCHANGED serverVars
  BY <1>1, <1>2, Zenon DEF CredentialInv, NoReplay, serverVars
<1>3. ASSUME NEW t \in Tasks, ExchangeOk(t) PROVE CredentialInv'
  BY <1>1, <1>3 DEF CredentialInv, NoReplay, ExchangeOk
<1>4. ASSUME NEW t \in Tasks, ExchangeErr(t) PROVE CredentialInv'
  BY <1>1, <1>4, SMTT(30) DEF CredentialInv, NoReplay, ExchangeErr
<1>5. ASSUME NEW c \in Callers, Call(c) \/ CallerStep(c) \/ Cancel(c)
      PROVE  UNCHANGED serverVars
  BY <1>5, Zenon DEF Call, CallerStep, Enter, Load, Relock, Register, Recheck, ReadClock,
              Answer, Cancel
<1>6. ASSUME NEW t \in Tasks,
             Run(t) \/ Save(t) \/ Install(t) \/ Fail(t) \/ Notify(t) \/ Die(t) \/ Abandon(t)
      PROVE  UNCHANGED serverVars
  BY <1>6 DEF Run, Save, Install, Fail, Notify, Die, Abandon
<1>7. Tick \/ UNCHANGED vars => UNCHANGED serverVars
  BY DEF Tick, vars
<1> QED
  BY <1>2, <1>3, <1>4, <1>5, <1>6, <1>7 DEF Next, TaskStep

\* The one refresh in flight goes on, with another record.
LEMMA FlightGoesOn ==
  ASSUME TypeInv, FlightInv, NEW t \in InFlight, NEW r,
         task' = [task EXCEPT ![t] = r],
         r.pc \in {"exchange", "saving", "installing", "failing"}
  PROVE  task'[t] = r /\ InFlight' = {t}
<1>1. t \in Tasks /\ InFlight = {t}
  BY SMTT(30) DEF FlightInv, SingleFlight, InFlight
<1>2. task'[t] = r /\ \A u \in Tasks \ {t} : task'[u] = task[u]
  BY <1>1, SMTT(30) DEF TypeInv, TypeOK
<1> QED
  BY <1>1, <1>2 DEF InFlight

\* Steps that leave the server, the cached token and the device's empty store
\* alone keep the invariant if the refresh in flight keeps its credential.
LEMMA CredentialStays ==
  ASSUME Rotating, CredentialInv, UNCHANGED <<serverVars, token, store>>,
         stranded => stranded', NEW t, InFlight = {t}, InFlight' = {t},
         \A c \in Callers : loaded'[c] \in {loaded[c], NoToken, store},
         task'[t].credential = task[t].credential,
         Unspent(t)' = Unspent(t),
         task'[t].pc \in {"saving", "installing"}
           <=> task[t].pc \in {"saving", "installing"},
         task'[t].new = task[t].new
  PROVE  CredentialInv'
<1>1. CredentialOf(t)'
  BY Zenon DEF CredentialInv, CredentialOf, Clean, serverVars
<1> QED
  BY <1>1, Zenon DEF CredentialInv, NoReplay, Clean, serverVars

\* A refresh ends: with its credential back in the cached token, or for good.
LEMMA CredentialReturns ==
  ASSUME Rotating, CredentialInv, UNCHANGED <<serverVars, store, loaded>>,
         InFlight' = {}, token'.id # 0, token'.refresh \in 0..issued,
         Clean(token'.refresh),
         live # 0 /\ ~stranded' => token'.refresh = live
  PROVE  CredentialInv'
BY SMTT(30) DEF CredentialInv, NoReplay, Clean, serverVars

\* A refresh is in flight and has the credential: the cache has none, and the
\* absence of one is nothing that could have been spent.
LEMMA CredentialInFlight ==
  ASSUME Rotating, NEW t, InFlight' = {t}, CredentialOf(t)', issued' \in Nat, 0 \notin spent',
         spent' \subseteq 1..issued', NoReplay', token'.id # 0, token'.refresh = 0,
         store' = NoToken, \A c \in Callers : loaded'[c] = NoToken
  PROVE  CredentialInv'
<1>1. token'.refresh \in 0..issued'
  OBVIOUS
<1>2. Clean(token.refresh)'
  BY Zenon DEF Clean
<1> QED
  BY <1>1, <1>2, Zenon DEF CredentialInv

\* Each action of a device session keeps the invariant.
LEMMA CredentialInvariant == Spec => []CredentialInv
<1>1. Init => CredentialInv
  <2> SUFFICES ASSUME Init PROVE CredentialInv
    OBVIOUS
  <2>1. InFlight = {}
    BY Constants, SMTT(30) DEF Init, InFlight
  <2> QED
    <3>1. /\ spent = {} /\ replayed = {} /\ store = NoToken /\ \A c \in Callers : loaded[c] = NoToken
          /\ ~Rotating => live = 0
      BY DEF Init
    <3>2. Rotating => token.id # 0 /\ token.refresh \in 0..issued /\ token.refresh = live
      BY SMTT(30) DEF Init, NoToken
    <3>3. NoReplay /\ spent \subseteq 1..issued
      BY <3>1, Zenon DEF NoReplay
    <3> QED
      BY <2>1, <3>1, <3>2, <3>3, Zenon DEF CredentialInv, Clean
<1>2. TypeInv /\ FlightInv /\ CredentialInv /\ [Next]_vars => CredentialInv'
  <2> SUFFICES ASSUME TypeInv, FlightInv, CredentialInv, Rotating, [Next]_vars
               PROVE  CredentialInv'
    BY WithoutRotation
  <2>0. /\ \A t \in Tasks : task[t] \in TaskState
        /\ token \in Token /\ issued \in Nat
    BY SMTT(30) DEF TypeInv, TypeOK
  <2>f. ASSUME NEW t \in InFlight PROVE t \in Tasks /\ InFlight = {t} /\ CredentialOf(t)
    BY Zenon DEF FlightInv, SingleFlight, InFlight, CredentialInv
  <2>k. token.id # 0 /\ store = NoToken /\ \A c \in Callers : loaded[c] = NoToken
    BY SMTT(30) DEF CredentialInv
  <2>1. ASSUME NEW c \in Callers, Call(c) \/ CallerStep(c) \/ Cancel(c)
        PROVE  CredentialInv'
    <3>1. CallerKind(c) /\ CallerFrame
      BY <2>1, CallerKinds
    <3>2. \A d \in Callers : loaded'[d] = NoToken
      BY <2>k, <3>1, Zenon DEF CallerFrame
    <3>3. CASE UNCHANGED <<token, task>>
      BY <3>1, <3>2, <3>3, ZenonT(60) DEF CallerFrame, CredentialInv, CredentialOf, Unspent, InFlight,
                              NoReplay, Clean, serverVars
    <3>4. ASSUME NEW t \in Tasks, Starts(c, token, t) PROVE CredentialInv'
      <4>1. /\ task'[t].pc = "spawned" /\ task'[t].credential = token.refresh
            /\ InFlight = {} /\ InFlight' = {t}
        BY <3>4 DEF Starts, IdleTask
      <4>2. token'.id = token.id /\ token'.refresh = 0 /\ token.refresh # 0
        BY <2>0, <3>4 DEF Starts, WithoutCredential, HasCredential, Token
      <4>3. /\ token.refresh \in 1..issued /\ Clean(token.refresh)
            /\ live # 0 /\ ~stranded => token.refresh = live
        <5>1. /\ token.refresh \in 0..issued /\ Clean(token.refresh)
              /\ live # 0 /\ ~stranded => token.refresh = live
          BY <4>1, Zenon DEF CredentialInv
        <5>2. token.refresh \in 1..issued
          BY <2>0, <4>2, <5>1
        <5> QED
          BY <5>1, <5>2, SMTT(30)
      <4>4. UNCHANGED <<serverVars, store, stranded>>
        BY <3>1, SMTT(30) DEF CallerFrame
      <4>5. CredentialOf(t)'
        BY <4>1, <4>2, <4>3, <4>4, Zenon DEF CredentialOf, Unspent, Clean, serverVars
      <4>6. spent \subseteq 1..issued /\ issued \in Nat /\ 0 \notin spent
        BY <2>0, SMTT(30) DEF CredentialInv
      <4>7. NoReplay' /\ issued' \in Nat /\ spent' \subseteq 1..issued' /\ 0 \notin spent'
        BY <4>4, <4>6, Zenon DEF CredentialInv, NoReplay, serverVars
      <4> QED
        BY <2>k, <3>2, <4>1, <4>2, <4>4, <4>5, <4>7, CredentialInFlight, Zenon
    <3> QED
      BY <2>k, <3>1, <3>3, <3>4, Zenon DEF CallerKind
  <2>2. ASSUME NEW t \in Tasks, Run(t) PROVE CredentialInv'
    <3> DEFINE r == [task[t] EXCEPT !.pc = "exchange", !.current = token]
    <3>1. t \in InFlight /\ task[t].pc = "spawned" /\ task' = [task EXCEPT ![t] = r]
      BY <2>2 DEF Run, InFlight
    <3>2. r.pc = "exchange" /\ r.credential = task[t].credential /\ r.new = task[t].new
      BY <2>0 DEF TaskState
    <3>3. UNCHANGED <<serverVars, token, store, stranded, loaded>>
      BY <2>2 DEF Run, stateVars, callerVars
    <3> HIDE DEF r
    <3>4. task'[t] = r /\ InFlight' = {t} /\ InFlight = {t}
      BY <2>f, <3>1, <3>2, FlightGoesOn, Zenon
    <3> QED
      BY <3>1, <3>2, <3>3, <3>4, CredentialStays, Zenon DEF Unspent
  <2>3. ASSUME NEW t \in Tasks, ExchangeOk(t) PROVE CredentialInv'
    <3>1. PICK life \in Lifetimes, refresh \in {0, issued + 1} :
            /\ task' = [task EXCEPT ![t] = [@ EXCEPT !.pc = "saving",
                          !.new = [id |-> issued + 1, exp |-> clock + life,
                                   refresh |-> refresh]]]
            /\ live' = refresh
      BY <2>3, Zenon DEF ExchangeOk
    <3> DEFINE n == [id |-> issued + 1, exp |-> clock + life, refresh |-> refresh]
               r == [task[t] EXCEPT !.pc = "saving", !.new = n]
               cr == task[t].credential
    <3>2. t \in InFlight /\ task' = [task EXCEPT ![t] = r]
      BY <2>3, <3>1, Zenon DEF ExchangeOk, InFlight
    <3>3. r.pc = "saving" /\ r.credential = cr /\ r.new.refresh = refresh
      BY <2>0 DEF TaskState
    <3>4. /\ UNCHANGED <<token, store, stranded, loaded, unanswered, replayed>>
          /\ issued' = issued + 1 /\ spent' = spent \cup {cr}
      BY <2>3 DEF ExchangeOk, stateVars, callerVars
    <3> HIDE DEF r
    <3>5. task'[t] = r /\ InFlight' = {t} /\ CredentialOf(t)
      BY <2>f, <3>2, <3>3, FlightGoesOn, Zenon
    <3>6. /\ token.refresh = 0 /\ cr \in 1..issued /\ spent \subseteq 1..issued
          /\ replayed \subseteq unanswered
      BY <3>5, Zenon DEF CredentialOf, CredentialInv, NoReplay
    <3> HIDE DEF cr
    <3>7. spent' \subseteq 1..issued' /\ refresh \in 0..issued' /\ refresh \notin spent'
          /\ 0 \notin spent'
      BY <2>0, <3>4, <3>6
    <3>8. CredentialOf(t)'
      BY <2>0, <3>1, <3>3, <3>4, <3>5, <3>6, <3>7, SMTT(30) DEF CredentialOf, Clean, Unspent
    <3>9. NoReplay' /\ issued' \in Nat
      BY <2>0, <3>4, <3>6 DEF NoReplay
    <3> QED
      BY <2>k, <3>4, <3>5, <3>6, <3>7, <3>8, <3>9, CredentialInFlight, Zenon
  <2>4. ASSUME NEW t \in Tasks, ExchangeErr(t) PROVE CredentialInv'
    <3>0. PICK cr : cr = task[t].credential
      OBVIOUS
    <3>1. PICK e \in Errors, reached \in BOOLEAN :
            LET consumed == Rotating /\ cr \notin spent /\ reached IN
            /\ e = "store" => consumed
            /\ task' = [task EXCEPT ![t] = [@ EXCEPT !.pc = "failing", !.err = e]]
            /\ spent' = IF consumed THEN spent \cup {cr} ELSE spent
            /\ live' = IF consumed THEN 0 ELSE live
            /\ consumed => e # "refused"
            /\ unanswered' = IF consumed /\ e = "failed" THEN unanswered \cup {cr}
                                                         ELSE unanswered
            /\ replayed' = IF cr \in spent THEN replayed \cup {cr} ELSE replayed
      BY <2>4, <3>0, Zenon DEF ExchangeErr
    <3> DEFINE r == [task[t] EXCEPT !.pc = "failing", !.err = e]
    <3>2. t \in InFlight /\ task' = [task EXCEPT ![t] = r] /\ task[t].pc = "exchange"
      BY <2>4, <3>1, Zenon DEF ExchangeErr, InFlight
    <3>3. r.pc = "failing" /\ r.credential = cr /\ r.err = e
      BY <2>0, <3>0 DEF TaskState
    <3>4. UNCHANGED <<token, store, stranded, loaded, issued>>
      BY <2>4 DEF ExchangeErr, stateVars, callerVars
    <3> HIDE DEF r
    <3>5. task'[t] = r /\ InFlight' = {t} /\ CredentialOf(t)
      BY <2>f, <3>2, <3>3, FlightGoesOn, Zenon
    <3>6. /\ token.refresh = 0 /\ cr \in 1..issued /\ spent \subseteq 1..issued
          /\ replayed \subseteq unanswered /\ Clean(cr) /\ 0 \notin spent
          /\ live # 0 /\ ~stranded => cr = live
      <4>1. /\ token.refresh = 0 /\ cr \in 1..issued /\ Clean(cr)
            /\ live # 0 /\ ~stranded => cr = live
        BY <3>0, <3>2, <3>5, Zenon DEF CredentialOf, Unspent
      <4>2. spent \subseteq 1..issued /\ replayed \subseteq unanswered
        BY Zenon DEF CredentialInv, NoReplay
      <4>3. 0 \notin spent
        BY <2>0, <4>2
      <4> QED
        BY <4>1, <4>2, <4>3, Zenon
    <3>7. /\ spent' \subseteq 1..issued' /\ 0 \notin spent'
          /\ replayed' \subseteq unanswered' 
          /\ e # "store" => Clean(cr)'
          /\ live' # 0 => live' = live /\ e # "store"
      <4>1. /\ spent' \subseteq spent \cup {cr} /\ unanswered \subseteq unanswered'
            /\ replayed' \subseteq replayed \cup (spent \cap {cr})
            /\ e # "store" /\ cr \in spent' => cr \in spent \/ cr \in unanswered'
            /\ live' # 0 => live' = live /\ e # "store"
        BY <3>1, SMTT(30) DEF Errors
      <4> QED
        BY <2>0, <3>4, <3>6, <4>1 DEF Clean
    <3>8. CredentialOf(t)'
      BY <2>0, <3>3, <3>4, <3>5, <3>6, <3>7, Zenon DEF CredentialOf, Clean, Unspent
    <3> QED
      BY <2>0, <2>k, <3>4, <3>5, <3>6, <3>7, <3>8, Zenon DEF CredentialInv, NoReplay, Clean
  <2>5. ASSUME NEW t \in Tasks, Save(t) PROVE CredentialInv'
    <3> DEFINE r == [task[t] EXCEPT !.pc = "installing"]
    <3>1. t \in InFlight /\ task[t].pc = "saving" /\ task' = [task EXCEPT ![t] = r]
      BY <2>5 DEF Save, InFlight
    <3>2. r.pc = "installing" /\ r.credential = task[t].credential /\ r.new = task[t].new
      BY <2>0 DEF TaskState
    <3>3. UNCHANGED <<serverVars, token, store, stranded, loaded>>
      BY <2>5 DEF Save, stateVars, callerVars
    <3> HIDE DEF r
    <3>4. task'[t] = r /\ InFlight' = {t} /\ InFlight = {t}
      BY <2>f, <3>1, <3>2, FlightGoesOn, Zenon
    <3> QED
      BY <3>1, <3>2, <3>3, <3>4, CredentialStays, Zenon DEF Unspent
  <2>6. ASSUME NEW t \in Tasks, Install(t) PROVE CredentialInv'
    <3>1. /\ t \in InFlight /\ task[t].pc = "installing" /\ token' = task[t].new
          /\ UNCHANGED <<serverVars, store, stranded>> /\ Conclude(t, "token", "token")
      BY <2>6, Zenon DEF Install, InFlight
    <3>2. InFlight' = {} /\ UNCHANGED loaded
      BY <3>1, ConcludeEnds, Zenon DEF Ends, Returned, Conclude, Finish, callerVars
    <3>3. CredentialOf(t) /\ task[t].new.id # 0
      BY <2>f, <3>1, Zenon DEF FlightInv
    <3> QED
      BY <3>1, <3>2, <3>3, CredentialReturns, Zenon DEF CredentialOf, Unspent
  <2>7. ASSUME NEW t \in Tasks, Fail(t) PROVE CredentialInv'
    <3>0. t \in InFlight /\ task[t].pc = "failing" /\ CredentialOf(t) /\ task[t].err \in Errors \cup {"none"}
      BY <2>0, <2>7, <2>f, Zenon DEF Fail, InFlight, TaskState
    <3>1. /\ UNCHANGED <<serverVars, store>>
          /\ stranded' = (stranded \/ CredentialConsumed(task[t].err))
          /\ Conclude(t, ErrorOf(task[t].err), FailureResult(t))
      BY <2>7, Zenon DEF Fail
    <3>2. InFlight' = {} /\ UNCHANGED loaded
      <4>1. task[t].err \in Errors
        BY <3>0, SMTT(30) DEF TypeInv, OutcomeKnown
      <4>2. ErrorOf(task[t].err) \in Returned /\ FailureResult(t) \in Returned
        BY <4>1, Constants, Zenon DEF FailureResult, Returned
      <4> QED
        BY <3>0, <3>1, <4>2, ConcludeEnds, Zenon DEF Ends, Conclude, Finish, callerVars
    <3>3. CASE task[t].err = "store"
      <4>1. token' = token /\ stranded'
        BY <2>7, <3>1, <3>3, Zenon DEF Fail, CredentialConsumed
      <4> QED
        BY <2>0, <2>k, <3>0, <3>1, <3>2, <4>1, CredentialReturns, Zenon DEF CredentialOf, CredentialInv, Clean
    <3>4. CASE task[t].err # "store"
      <4>1. token' = [token EXCEPT !.refresh = task[t].credential]
        BY <2>k, <2>7, <3>4 DEF Fail, CredentialConsumed, Restore
      <4>2. token'.id # 0 /\ token'.refresh = task[t].credential
        BY <2>0, <2>k, <4>1 DEF Token
      <4>3. Unspent(t) /\ (~stranded' => ~stranded)
        BY <3>0, <3>1, <3>4, Zenon DEF Unspent
      <4>4. /\ task[t].credential \in 1..issued /\ Clean(task[t].credential)
            /\ live # 0 /\ ~stranded' => task[t].credential = live
        BY <3>0, <4>3, Zenon DEF CredentialOf
      <4>5. task[t].credential \in 0..issued
        <5>1. issued \in Nat /\ task[t].credential \in 1..issued
          BY <2>0, <4>4, Zenon
        <5> QED
          BY <5>1
      <4> QED
        BY <3>1, <3>2, <4>2, <4>4, <4>5, CredentialReturns, Zenon
    <3> QED
      BY <3>3, <3>4
  <2>8. ASSUME NEW t \in Tasks, Notify(t) PROVE CredentialInv'
    <3>1. /\ t \notin InFlight /\ UNCHANGED <<serverVars, token, store, stranded, loaded>>
          /\ \A u \in Tasks \ {t} : task'[u] = task[u]
          /\ InFlight' = InFlight \ {t}
      <4>1. t \notin InFlight
        BY <2>8, Zenon DEF Notify, InFlight
      <4>2. Finish(t, task[t].result, {c \in Callers : pc[c] \in {"registered", "parked"}})
        BY <2>8, Zenon DEF Notify
      <4>3. UNCHANGED <<serverVars, token, store, stranded, loaded>>
        BY <2>8, <4>2, Zenon DEF Notify, stateVars, Finish
      <4> QED
        BY <4>1, <4>2, <4>3, FinishEnds, Zenon
    <3>2. InFlight' = InFlight /\ \A u \in InFlight : task'[u] = task[u]
      BY <3>1, Zenon DEF InFlight
    <3> QED
      BY <3>1, <3>2, ZenonT(60) DEF CredentialInv, CredentialOf, Unspent, NoReplay, Clean, serverVars
  <2>9. ASSUME NEW t \in Tasks, Die(t) \/ Abandon(t) PROVE CredentialInv'
    <3>1. /\ t \in InFlight /\ stranded'
          /\ UNCHANGED <<serverVars, token, store, loaded>>
      BY <2>9 DEF Die, Abandon, InFlight, stateVars, callerVars, Finish
    <3>2. InFlight = {t} /\ CredentialOf(t)
      BY <2>f, <3>1
    <3>3. InFlight' = {}
      <4>1. CASE Die(t)
        <5>1. task'[t].pc = "notify" /\ \A u \in Tasks \ {t} : task'[u] = task[u]
          BY <2>0, <4>1, SMTT(30) DEF Die, TypeInv, TypeOK, TaskState
        <5> QED
          BY <3>2, <5>1, Zenon DEF InFlight
      <4>2. CASE Abandon(t)
        BY <3>2, <4>2, FinishEnds, Zenon DEF Abandon
      <4> QED
        BY <2>9, <4>1, <4>2
    <3> QED
      BY <2>0, <2>k, <3>1, <3>2, <3>3, CredentialReturns, Zenon DEF CredentialOf, CredentialInv
  <2>10. CASE Tick \/ UNCHANGED vars
    <3>1. UNCHANGED <<serverVars, token, store, stranded, loaded, task>>
      BY <2>10, Zenon DEF Tick, vars, stateVars, callerVars
    <3> QED
      BY <3>1, ZenonT(60) DEF CredentialInv, CredentialOf, Unspent, NoReplay, Clean, serverVars, InFlight
  <2> QED
    BY <2>1, <2>2, <2>3, <2>4, <2>5, <2>6, <2>7, <2>8, <2>9, <2>10, Zenon DEF Next, TaskStep
<1> QED
  BY <1>1, <1>2, TypeInvariant, FlightInvariant, PTL DEF Spec

\* A spent refresh token is presented again only when the answer to its
\* exchange was lost on the way.
THEOREM OnlyLostAnswersReplayed == Spec => []NoReplay
<1>1. CredentialInv => NoReplay
  BY DEF CredentialInv
<1> QED
  BY <1>1, CredentialInvariant, PTL

\* The refresh token that the server would accept is cached, or in the hands
\* of the refresh in flight.
THEOREM CredentialKept == Spec => []RefreshTokenKept
<1>1. TypeInv /\ CredentialInv => RefreshTokenKept
  <2> SUFFICES ASSUME TypeInv, CredentialInv, live # 0, ~stranded
               PROVE  \/ token.refresh = live
                      \/ \E t \in InFlight : live \in {task[t].credential, task[t].new.refresh}
    BY Zenon DEF RefreshTokenKept
  <2>1. Rotating
    BY DEF CredentialInv
  <2> QED
    BY <2>1, Zenon DEF CredentialInv, CredentialOf
<1> QED
  BY <1>1, TypeInvariant, CredentialInvariant, PTL
=============================================================================
