------------------------- MODULE DeviceSessionProofs -------------------------
(* What holds of a shared device session for any number of processes,      *)
(* logins and tokens.                                                      *)
EXTENDS DeviceSession, TLAPS

MaybeToken == Tokens \cup {NoToken}

\* The part of TypeOK about processes, and what makes it inductive: a process on
\* its way to an exchange has a refresh token, one that saves has a token.
ProcType ==
  /\ pc \in [Procs -> {"off", "idle", "locking", "building", "checking",
                       "exchanging", "saving"}]
  /\ cached \in [Procs -> MaybeToken] /\ cred \in [Procs -> MaybeToken]
  /\ new \in [Procs -> MaybeToken] /\ ret \in [Procs -> MaybeToken]
  /\ \A p \in Procs :
       /\ pc[p] \in {"checking", "exchanging"} => cred[p] \in Tokens
       /\ pc[p] = "locking" /\ p \in Native => cred[p] \in Tokens
       /\ pc[p] = "saving" => new[p] \in Tokens

TypeInv == TypeOK /\ ProcType

-----------------------------------------------------------------------------
(* Type correctness.                                                       *)

\* However a call returns, the process's variables keep their types.
LEMMA ReturnType ==
  ASSUME ProcType, NEW p \in Procs, NEW r \in MaybeToken, NEW t \in MaybeToken,
         NEW c \in MaybeToken, Return(p, r, t, c)
  PROVE  ProcType'
<1>1. NoToken \in MaybeToken
  BY DEF MaybeToken
<1> QED
  BY <1>1 DEF ProcType, Return

\* The successor of a token that is not the session's last is a token.
LEMMA FollowingType ==
  ASSUME NEW t \in Tokens, t[2] < MaxGen
  PROVE  /\ Following(t) \in Tokens
         /\ Following(t)[1] = t[1] /\ Following(t)[2] = t[2] + 1
BY DeviceSessionAssumption DEF Following, Tokens, Sessions

\* A call that succeeds or fails keeps the types.
LEMMA EndType ==
  ASSUME ProcType, NEW p \in Procs, flock \in Procs \cup {Free}
  PROVE  /\ Fail(p) => ProcType' /\ flock' \in Procs \cup {Free}
         /\ StoreError(p) => ProcType' /\ flock' \in Procs \cup {Free}
         /\ \A t \in Tokens :
              Succeed(p, t) => ProcType' /\ flock' \in Procs \cup {Free}
<1>1. NoToken \in MaybeToken /\ \A t \in Tokens : t \in MaybeToken
  BY DEF MaybeToken
<1>2. cached[p] \in MaybeToken /\ cred[p] \in MaybeToken
  BY DEF ProcType
<1>3. Fail(p) => ProcType'
  BY <1>1, <1>2, ReturnType DEF Fail
<1>4. StoreError(p) => ProcType'
  BY <1>1, <1>2, ReturnType DEF StoreError
<1>5. \A t \in Tokens : Succeed(p, t) => ProcType'
  BY <1>1, ReturnType DEF Succeed
<1> QED
  BY <1>3, <1>4, <1>5 DEF Fail, StoreError, Succeed, Unlock

\* Every step keeps the types.
LEMMA TypeStep == TypeInv /\ [Next]_vars => TypeInv'
<1> SUFFICES ASSUME TypeInv, [Next]_vars PROVE TypeInv'
  OBVIOUS
<1> USE DEF fileVars, procVars, serverVars
<1>1. ProcType /\ TypeOK /\ NoToken \in MaybeToken /\ disk \in MaybeToken
  BY DEF TypeInv, TypeOK, MaybeToken
<1>2. ASSUME NEW p \in Procs, Build(p) \/ Open(p) PROVE TypeInv'
  <2>1. ProcType'
    BY <1>1, <1>2, ReturnType DEF Build, Open
  <2> QED
    BY <1>1, <1>2, <2>1 DEF Build, Open, TypeInv, TypeOK, ProcType, MaybeToken
<1>3. ASSUME NEW p \in Procs, GetToken(p) PROVE TypeInv'
  <2>1. cached[p] \in MaybeToken /\ cred[p] \in MaybeToken
    BY <1>1 DEF ProcType
  <2>2. ASSUME pc' = [pc EXCEPT ![p] = "locking"], cred[p] # NoToken,
               UNCHANGED <<cached, cred, new, ret>>
        PROVE  ProcType'
    BY <1>1, <2>1, <2>2 DEF ProcType, MaybeToken
  <2>3. ProcType'
    BY <1>1, <1>3, <2>1, <2>2, ReturnType DEF GetToken
  <2> QED
    BY <1>1, <1>3, <2>3 DEF GetToken, TypeInv, TypeOK, ProcType, MaybeToken
<1>4. ASSUME NEW p \in Procs, Token(p) PROVE TypeInv'
  <2>1. p \notin Native
    BY <1>4, DeviceSessionAssumption DEF Token
  <2>2. ASSUME pc' = [pc EXCEPT ![p] = "locking"],
               UNCHANGED <<cached, cred, new, ret>>
        PROVE  ProcType'
    BY <1>1, <2>1, <2>2 DEF ProcType
  <2>3. ProcType'
    BY <1>1, <1>4, <2>2, ReturnType DEF Token
  <2> QED
    BY <1>1, <1>4, <2>3 DEF Token, TypeInv, TypeOK, ProcType, MaybeToken
<1>5. ASSUME NEW p \in Procs, GoBuild(p) PROVE TypeInv'
  <2>1. CASE /\ pc' = [pc EXCEPT ![p] = "checking"]
             /\ cached' = [cached EXCEPT ![p] = disk]
             /\ cred' = [cred EXCEPT ![p] = disk]
             /\ UNCHANGED <<flock, new, ret>>
    <3>1. disk \in Tokens /\ flock' \in Procs \cup {Free}
      BY <1>1, <2>1 DEF TypeOK
    <3> QED
      BY <1>1, <1>5, <2>1, <3>1 DEF GoBuild, TypeInv, TypeOK, ProcType, MaybeToken
  <2>2. CASE Fail(p) \/ Succeed(p, disk)
    <3>1. ProcType' /\ flock' \in Procs \cup {Free}
      BY <1>1, <2>2, EndType DEF TypeOK
    <3> QED
      BY <1>1, <1>5, <3>1 DEF GoBuild, TypeInv, TypeOK, ProcType, MaybeToken
  <2> QED
    BY <1>5, <2>1, <2>2 DEF GoBuild
<1>6. ASSUME NEW p \in Procs, Lock(p) PROVE TypeInv'
  <2>1. p \in Go \/ p \in Native
    BY DEF Procs
  <2>2. ProcType'
    BY <1>1, <1>6, <2>1 DEF Lock, ProcType
  <2> QED
    BY <1>1, <1>6, <2>2 DEF Lock, TypeInv, TypeOK
<1>7. ASSUME NEW p \in Procs, LockFails(p) PROVE TypeInv'
  <2>1. ProcType' /\ flock' \in Procs \cup {Free}
    BY <1>1, <1>7, EndType DEF LockFails, TypeOK
  <2> QED
    BY <1>1, <1>7, <2>1 DEF LockFails, TypeInv, TypeOK, ProcType, MaybeToken
<1>8. ASSUME NEW p \in Procs, Check(p) PROVE TypeInv'
  <2>1. CASE /\ pc' = [pc EXCEPT ![p] = "exchanging"]
             /\ UNCHANGED <<flock, cached, cred, new, ret>>
    BY <1>1, <1>8, <2>1 DEF Check, TypeInv, TypeOK, ProcType
  <2>2. CASE Succeed(p, disk)
    <3>1. ProcType' /\ flock' \in Procs \cup {Free}
      BY <1>1, <2>2, EndType DEF TypeOK
    <3> QED
      BY <1>1, <1>8, <3>1 DEF Check, TypeInv, TypeOK, ProcType, MaybeToken
  <2> QED
    BY <1>8, <2>1, <2>2 DEF Check
<1>9. ASSUME NEW p \in Procs, Exchange(p) PROVE TypeInv'
  <2> DEFINE c == cred[p]
  <2>1. c \in Tokens /\ c[2] < MaxGen
    BY <1>1, <1>9 DEF Exchange, ProcType
  <2>2. Following(c) \in Tokens /\ c[1] \in Sessions /\ c[2] + 1 \in 0..MaxGen
    BY <2>1, FollowingType, DeviceSessionAssumption DEF Tokens, Sessions
  <2>3. /\ issued' = [issued EXCEPT ![c[1]] = c[2] + 1]
        /\ new' = [new EXCEPT ![p] = Following(c)]
        /\ pc' = [pc EXCEPT ![p] = "saving"]
        /\ UNCHANGED <<fileVars, cached, cred, ret, logins, revoked, unsaved,
                       replayed, aged, dead>>
    BY <1>9 DEF Exchange
  <2> HIDE DEF c
  <2> QED
    BY <1>1, <2>2, <2>3 DEF TypeInv, TypeOK, ProcType, MaybeToken
<1>10. ASSUME NEW p \in Procs, ExchangeFails(p) PROVE TypeInv'
  <2> DEFINE c == cred[p]
  <2>1. ProcType' /\ flock' \in Procs \cup {Free}
    BY <1>1, <1>10, EndType DEF ExchangeFails, TypeOK
  <2>2. c \in Tokens /\ c[1] \in Sessions
    BY <1>1, <1>10 DEF ExchangeFails, ProcType, Tokens
  <2>3. c[2] < MaxGen => Following(c) \in Tokens /\ c[2] + 1 \in 0..MaxGen
    BY <2>2, FollowingType, DeviceSessionAssumption DEF Tokens
  <2>4. /\ issued' \in [Sessions -> 0..MaxGen] /\ revoked' \in SUBSET Sessions
        /\ unsaved' \in SUBSET Tokens /\ replayed' \in SUBSET Tokens
    BY <1>1, <1>10, <2>2, <2>3 DEF ExchangeFails, TypeOK
  <2> QED
    BY <1>1, <1>10, <2>1, <2>4
       DEF ExchangeFails, TypeInv, TypeOK, ProcType, MaybeToken
<1>11. ASSUME NEW p \in Procs, Save(p) PROVE TypeInv'
  <2>1. new[p] \in Tokens
    BY <1>1, <1>11 DEF Save, ProcType
  <2>2. ProcType' /\ flock' \in Procs \cup {Free}
    BY <1>1, <1>11, <2>1, EndType DEF Save, TypeOK
  <2> QED
    BY <1>1, <1>11, <2>1, <2>2 DEF Save, TypeInv, TypeOK, ProcType, MaybeToken
<1>12. ASSUME NEW p \in Procs, SaveFails(p) PROVE TypeInv'
  <2>1. new[p] \in Tokens
    BY <1>1, <1>12 DEF SaveFails, ProcType
  <2>2. ProcType' /\ flock' \in Procs \cup {Free}
    BY <1>1, <1>12, EndType DEF SaveFails, TypeOK
  <2> QED
    BY <1>1, <1>12, <2>1, <2>2
       DEF SaveFails, TypeInv, TypeOK, ProcType, MaybeToken
<1>13. ASSUME NEW p \in Procs, Crash(p) PROVE TypeInv'
  <2>1. pc[p] = "saving" => new[p] \in Tokens
    BY <1>1 DEF ProcType
  <2>2. ProcType'
    BY <1>1, <1>13 DEF Crash, ProcType
  <2> QED
    BY <1>1, <1>13, <2>1, <2>2
       DEF Crash, Unlock, TypeInv, TypeOK, ProcType, MaybeToken
<1>14. ASSUME Login PROVE TypeInv'
  <2>1. logins + 1 \in Sessions /\ 1 \in 0..MaxGen /\ 1 \in 1..MaxGen
    BY <1>1, <1>14, DeviceSessionAssumption DEF Login, TypeOK, Sessions
  <2>2. disk' \in Tokens /\ issued' \in [Sessions -> 0..MaxGen]
    BY <1>1, <1>14, <2>1 DEF Login, TypeOK, Tokens
  <2> QED
    BY <1>1, <1>14, <2>1, <2>2 DEF Login, TypeInv, TypeOK, ProcType
<1>15. ASSUME NEW t \in Tokens, Age(t) \/ Expire(t) PROVE TypeInv'
  BY <1>1, <1>15 DEF Age, Expire, TypeInv, TypeOK, ProcType
<1>16. CASE UNCHANGED vars
  BY <1>1, <1>16 DEF vars, TypeInv, TypeOK, ProcType
<1> QED
  BY <1>2, <1>3, <1>4, <1>5, <1>6, <1>7, <1>8, <1>9, <1>10, <1>11, <1>12,
     <1>13, <1>14, <1>15, <1>16 DEF Next, RefreshStep

\* The inductive type invariant holds throughout.
LEMMA TypeInvariant == Spec => []TypeInv
<1>1. Init => TypeInv
  BY DeviceSessionAssumption
     DEF Init, TypeInv, TypeOK, ProcType, MaybeToken, Tokens, Sessions, Free
<1> QED
  BY <1>1, TypeStep, PTL DEF Spec

\* Processes, auth.json and the provider's state keep their types whatever the
\* number of processes and logins and whatever goes wrong: in particular
\* auth.json always holds a token and never what is left of a spent one.
THEOREM TypeCorrect == Spec => []TypeOK
<1>1. TypeInv => TypeOK
  BY DEF TypeInv
<1> QED
  BY <1>1, TypeInvariant, PTL

-----------------------------------------------------------------------------
(* One refresh token, used once.                                           *)

\* The steps of a refresh that the lock covers.
Covered == {"building", "checking", "exchanging", "saving"}

\* Token t is the latest of its session, or what it was rotated to is lost.
Settled(t) == issued[t[1]] = t[2] \/ Following(t) \in unsaved

\* The inductive invariant.  The token in auth.json is settled, or the process
\* that rotated it is about to save its successor; the lock covers that gap, so
\* that a process which has compared its own with it exchanges a settled one.
RotationInv ==
  /\ \A p \in Procs : pc[p] \in Covered => flock = p
  /\ \A s \in Sessions : s > logins => issued[s] = 0
  /\ Settled(disk) \/ \E p \in Procs : pc[p] = "saving" /\ new[p] = Following(disk)
  /\ \A p \in Procs : pc[p] = "exchanging" => Settled(cred[p])
  /\ \A p \in Procs : pc[p] = "saving" => issued[new[p][1]] = new[p][2]
  /\ NoReplay

\* What one process does at the end of a call does not concern the others.
LEMMA EndRotation ==
  ASSUME TypeInv, RotationInv, NEW p \in Procs, pc'[p] \notin Covered, Unlock(p),
         \A q \in Procs \ {p} :
           pc'[q] = pc[q] /\ cred'[q] = cred[q] /\ new'[q] = new[q],
         UNCHANGED <<logins, issued>>, unsaved \subseteq unsaved',
         Settled(disk)' \/ (UNCHANGED disk /\ pc[p] # "saving"), NoReplay'
  PROVE  RotationInv'
<1>1. \A t : Settled(t) => Settled(t)'
  BY DEF Settled
<1>2. \A q \in Procs : pc'[q] \in Covered => q # p /\ pc[q] = pc'[q] /\ flock' = q
  BY DEF RotationInv, Unlock
<1>3. Settled(disk)'
      \/ \E q \in Procs : pc'[q] = "saving" /\ new'[q] = Following(disk')
  BY <1>1 DEF RotationInv
<1> QED
  BY <1>1, <1>2, <1>3 DEF RotationInv, Covered

\* While p is inside the lock and not saving, auth.json holds a settled token.
LEMMA SettledUnderLock ==
  ASSUME RotationInv, NEW p \in Procs, pc[p] \in Covered, pc[p] # "saving"
  PROVE  Settled(disk)
BY DEF RotationInv, Covered

\* An exchange at the provider, answered or not, leaves settled every settled
\* token but the one exchanged.
LEMMA ExchangeSettles ==
  ASSUME TypeInv, NEW c \in Tokens, issued[c[1]] = c[2],
         issued' = [issued EXCEPT ![c[1]] = c[2] + 1], unsaved \subseteq unsaved',
         NEW t \in Tokens, Settled(t), t # c
  PROVE  Settled(t)'
<1>1. t[1] # c[1] \/ t[2] # c[2]
  BY DEF Tokens
<1> QED
  BY <1>1 DEF Settled, TypeInv, TypeOK, Tokens

\* Every step keeps the rotation invariant, when auth.json can be read.
LEMMA RotationStep ==
  ASSUME "read" \notin Faults
  PROVE  TypeInv /\ TypeInv' /\ RotationInv /\ [Next]_vars => RotationInv'
<1> SUFFICES ASSUME TypeInv, TypeInv', RotationInv, [Next]_vars
             PROVE  RotationInv'
  OBVIOUS
<1> USE DEF fileVars, procVars, serverVars
<1>1. /\ NoReplay
      /\ pc \in [Procs -> {"off", "idle", "locking", "building", "checking",
                           "exchanging", "saving"}]
      /\ cred \in [Procs -> MaybeToken] /\ new \in [Procs -> MaybeToken]
      /\ disk \in Tokens
  BY DEF TypeInv, TypeOK, ProcType, RotationInv
<1>2. ASSUME NEW p \in Procs, NEW r, NEW t, NEW c, Return(p, r, t, c)
      PROVE  /\ pc'[p] \notin Covered
             /\ \A q \in Procs \ {p} :
                  pc'[q] = pc[q] /\ cred'[q] = cred[q] /\ new'[q] = new[q]
  BY <1>1, <1>2 DEF Return, Covered
<1>3. ASSUME NEW p \in Procs, NEW r, NEW t, NEW c, Return(p, r, t, c),
             Unlock(p), pc[p] # "saving",
             UNCHANGED <<disk, logins, issued, unsaved, replayed>>
      PROVE  RotationInv'
  <2>1. NoReplay'
    BY <1>1, <1>3 DEF NoReplay
  <2> QED
    BY <1>2, <1>3, <2>1, EndRotation
<1>4. ASSUME NEW p \in Procs, pc'[p] \in {"locking", "idle"}, pc[p] \notin Covered,
             \A q \in Procs \ {p} :
               pc'[q] = pc[q] /\ cred'[q] = cred[q] /\ new'[q] = new[q],
             UNCHANGED <<fileVars, serverVars>>
      PROVE  RotationInv'
  <2>1. \A t : Settled(t)' <=> issued[t[1]] = t[2] \/ Following(t) \in unsaved
    BY <1>4 DEF Settled
  <2>2. NoReplay'
    BY <1>1, <1>4 DEF NoReplay
  <2>3. Settled(disk)'
        \/ \E q \in Procs : pc'[q] = "saving" /\ new'[q] = Following(disk')
    BY <1>4 DEF RotationInv, Covered, Settled
  <2> QED
    BY <1>4, <2>1, <2>2, <2>3 DEF RotationInv, Covered, Settled
<1>5. ASSUME NEW p \in Procs, Build(p) \/ Open(p) \/ GetToken(p) \/ Token(p)
      PROVE  RotationInv'
  <2>1. pc[p] \notin Covered /\ UNCHANGED <<fileVars, serverVars>>
    BY <1>5 DEF Build, Open, GetToken, Token, Covered
  <2>2. \/ \E r, t, c : Return(p, r, t, c)
        \/ pc' = [pc EXCEPT ![p] = "locking"] /\ UNCHANGED <<cred, new>>
    BY <1>5 DEF Build, Open, GetToken, Token
  <2>3. /\ pc'[p] \in {"locking", "idle"}
        /\ \A q \in Procs \ {p} :
             pc'[q] = pc[q] /\ cred'[q] = cred[q] /\ new'[q] = new[q]
    BY <1>1, <2>2 DEF Return
  <2> QED
    BY <1>4, <2>1, <2>3
<1>6. ASSUME NEW p \in Procs, GoBuild(p) PROVE RotationInv'
  <2>1. CASE Succeed(p, disk)
    BY <1>3, <1>6, <2>1 DEF GoBuild, Succeed
  <2>2. CASE /\ pc' = [pc EXCEPT ![p] = "checking"]
             /\ cred' = [cred EXCEPT ![p] = disk]
             /\ UNCHANGED <<flock, new>>
    <3>1. flock = p /\ pc'[p] = "checking"
          /\ \A q \in Procs \ {p} : pc'[q] = pc[q] /\ pc'[q] \notin Covered
      BY <1>1, <1>6, <2>2 DEF GoBuild, RotationInv, Covered
    <3>2. Settled(disk)
      BY <1>6, SettledUnderLock DEF GoBuild, Covered
    <3> QED
      BY <1>6, <2>2, <3>1, <3>2, SMTT(30)
         DEF GoBuild, RotationInv, Covered, Settled, NoReplay
  <2> QED
    BY <1>6, <2>1, <2>2 DEF GoBuild
<1>7. ASSUME NEW p \in Procs, Lock(p) PROVE RotationInv'
  <2>1. \A q \in Procs : pc[q] \notin Covered
    BY <1>7, DeviceSessionAssumption DEF Lock, RotationInv, Free
  <2>2. pc'[p] \in {"building", "checking"}
        /\ \A q \in Procs \ {p} : pc'[q] = pc[q]
    BY <1>1, <1>7 DEF Lock
  <2>3. Settled(disk)
    BY <2>1 DEF RotationInv, Covered
  <2> QED
    BY <1>7, <2>1, <2>2, <2>3 DEF Lock, RotationInv, Covered, Settled, NoReplay
<1>8. ASSUME NEW p \in Procs, LockFails(p) PROVE RotationInv'
  BY <1>3, <1>8 DEF LockFails, Fail
<1>9. ASSUME NEW p \in Procs, Check(p) PROVE RotationInv'
  <2>1. CASE Succeed(p, disk)
    BY <1>3, <1>9, <2>1, SMTT(30) DEF Check, Succeed
  <2>2. CASE /\ disk = cred[p]
             /\ pc' = [pc EXCEPT ![p] = "exchanging"]
             /\ UNCHANGED <<flock, cred, new>>
    <3>1. flock = p /\ pc'[p] = "exchanging"
          /\ \A q \in Procs \ {p} : pc'[q] = pc[q] /\ pc'[q] \notin Covered
      BY <1>1, <1>9, <2>2 DEF Check, RotationInv, Covered
    <3>2. Settled(disk)
      BY <1>9, SettledUnderLock DEF Check, Covered
    <3> QED
      BY <1>9, <2>2, <3>1, <3>2, SMTT(30)
         DEF Check, RotationInv, Covered, Settled, NoReplay
  <2> QED
    BY <1>9, <2>1, <2>2 DEF Check, Rotated
<1>10. ASSUME NEW p \in Procs, Exchange(p) PROVE RotationInv'
  <2> DEFINE c == cred[p]
  <2>1. c \in Tokens /\ c[2] < MaxGen /\ issued[c[1]] = c[2]
    BY <1>10 DEF Exchange, TypeInv, ProcType
  <2>2. /\ issued' = [issued EXCEPT ![c[1]] = c[2] + 1]
        /\ new' = [new EXCEPT ![p] = Following(c)]
        /\ pc' = [pc EXCEPT ![p] = "saving"] /\ pc[p] = "exchanging"
        /\ UNCHANGED <<fileVars, cred, logins, unsaved, replayed>>
    BY <1>10 DEF Exchange
  <2>3. flock = p /\ \A q \in Procs \ {p} : pc'[q] = pc[q] /\ pc'[q] \notin Covered
    BY <1>1, <2>2 DEF RotationInv, Covered
  <2>4. pc'[p] = "saving" /\ new'[p] = Following(c)
    BY <1>1, <2>2, SMTT(30)
  <2>5. Settled(disk)
    BY <2>2, SettledUnderLock, Zenon DEF Covered
  <2>6. Settled(disk)' \/ new'[p] = Following(disk')
    BY <1>1, <2>1, <2>2, <2>4, <2>5, ExchangeSettles, Zenon DEF Settled
  <2>7. issued'[new'[p][1]] = new'[p][2]
    BY <2>1, <2>2, <2>4, FollowingType DEF TypeInv, TypeOK, Tokens
  <2>8. \A s \in Sessions : s > logins' => issued'[s] = 0
    BY <2>1, <2>2, SMTT(30) DEF RotationInv, TypeInv, TypeOK, Tokens
  <2>9. NoReplay'
    BY <1>1, <2>2 DEF NoReplay
  <2> HIDE DEF c
  <2> QED
    BY <2>2, <2>3, <2>4, <2>6, <2>7, <2>8, <2>9 DEF RotationInv, Covered
<1>11. ASSUME NEW p \in Procs, ExchangeFails(p) PROVE RotationInv'
  <2> DEFINE c == cred[p]
  <2>1. /\ c \in Tokens /\ pc[p] = "exchanging" /\ Settled(c) /\ flock = p
        /\ UNCHANGED <<disk, logins>>
    BY <1>11 DEF ExchangeFails, TypeInv, ProcType, RotationInv, Covered
  <2>2. /\ pc'[p] \notin Covered /\ Unlock(p)
        /\ \A q \in Procs \ {p} :
             pc'[q] = pc[q] /\ cred'[q] = cred[q] /\ new'[q] = new[q]
    BY <1>2, <1>11, Zenon DEF ExchangeFails, Fail
  <2>3. Settled(disk)
    BY <2>1, SettledUnderLock, SMTT(30) DEF Covered
  <2>4. CASE UNCHANGED <<issued, unsaved, replayed>>
    BY <1>3, <1>11, <2>1, <2>4, Zenon DEF ExchangeFails, Fail
  <2>5. CASE /\ issued[c[1]] # c[2] /\ replayed' = replayed \cup {c}
             /\ UNCHANGED <<issued, unsaved>>
    <3>1. NoReplay'
      BY <1>1, <2>1, <2>5, SMTT(30) DEF NoReplay, Settled
    <3>2. Settled(disk)'
      BY <2>1, <2>3, <2>5, SMTT(30) DEF Settled
    <3> HIDE DEF c
    <3> QED
      BY <2>1, <2>2, <2>5, <3>1, <3>2, EndRotation, Zenon
  <2>6. CASE /\ issued[c[1]] = c[2]
             /\ issued' = [issued EXCEPT ![c[1]] = c[2] + 1]
             /\ unsaved' = unsaved \cup {Following(c)}
             /\ UNCHANGED replayed
    <3> HIDE DEF c
    <3>1. NoReplay'
      BY <1>1, <2>6 DEF NoReplay
    <3>2. Settled(disk)'
      BY <1>1, <2>1, <2>3, <2>6, ExchangeSettles, Zenon DEF Settled
    <3>3. \A s \in Sessions : s > logins' => issued'[s] = 0
      BY <2>1, <2>6, SMTT(30) DEF RotationInv, TypeInv, TypeOK, Tokens
    <3>4. \A q \in Procs : pc'[q] \notin Covered
      BY <2>1, <2>2 DEF RotationInv
    <3> QED
      BY <3>1, <3>2, <3>3, <3>4, SMTT(30) DEF RotationInv, Covered
  <2> QED
    BY <1>11, <2>4, <2>5, <2>6 DEF ExchangeFails
<1>12. ASSUME NEW p \in Procs, Save(p) PROVE RotationInv'
  <2>1. NoReplay' /\ Settled(disk)'
    BY <1>1, <1>12 DEF Save, NoReplay, RotationInv, Settled
  <2> QED
    BY <1>2, <1>12, <2>1, EndRotation, Zenon DEF Save, Succeed
<1>13. ASSUME NEW p \in Procs, SaveFails(p) \/ Crash(p) PROVE RotationInv'
  <2>1. /\ pc'[p] \notin Covered /\ Unlock(p)
        /\ \A q \in Procs \ {p} :
             pc'[q] = pc[q] /\ cred'[q] = cred[q] /\ new'[q] = new[q]
    <3>1. CASE SaveFails(p)
      BY <1>2, <3>1 DEF SaveFails, StoreError
    <3>2. CASE Crash(p)
      BY <1>1, <3>2 DEF Crash, Covered
    <3> QED
      BY <1>13, <3>1, <3>2
  <2>2. UNCHANGED <<logins, issued, replayed>> /\ unsaved \subseteq unsaved'
    BY <1>13 DEF SaveFails, Crash
  <2>3. NoReplay'
    BY <1>1, <2>2 DEF NoReplay
  <2>4. pc[p] = "saving" =>
          \/ UNCHANGED disk /\ new[p] \in unsaved'
          \/ disk' = new[p]
    BY <1>13 DEF SaveFails, Crash
  <2>5. pc[p] # "saving" => UNCHANGED disk
    BY <1>13 DEF SaveFails, Crash
  <2>6. pc[p] = "saving" => /\ issued[new[p][1]] = new[p][2]
                            /\ Settled(disk) \/ new[p] = Following(disk)
    BY DEF RotationInv, Covered
  <2>7. pc[p] = "saving" => Settled(disk)'
    BY <2>2, <2>4, <2>6 DEF Settled
  <2> QED
    BY <2>1, <2>2, <2>3, <2>5, <2>7, EndRotation
<1>14. ASSUME Login PROVE RotationInv'
  <2>1. logins + 1 \in Sessions /\ logins \in Int /\ issued[logins + 1] = 0
    BY <1>14, DeviceSessionAssumption
       DEF Login, TypeInv, TypeOK, Sessions, RotationInv
  <2>2. /\ issued' = [issued EXCEPT ![logins + 1] = 1]
        /\ disk' = <<logins + 1, 1>> /\ logins' = logins + 1
        /\ UNCHANGED <<flock, pc, cred, new, unsaved, replayed>>
    BY <1>14 DEF Login
  <2>3. Settled(disk)'
    BY <2>1, <2>2 DEF Settled, TypeInv, TypeOK
  <2>4. \A t \in Tokens : issued[t[1]] = t[2] => issued'[t[1]] = t[2]
    BY <2>1, <2>2 DEF TypeInv, TypeOK, Tokens
  <2>5. \A t \in Tokens : Settled(t) => Settled(t)'
    BY <2>2, <2>4 DEF Settled
  <2>6. \A s \in Sessions : s > logins' => issued'[s] = 0
    BY <2>1, <2>2 DEF RotationInv, TypeInv, TypeOK, Sessions
  <2>7. \A p \in Procs : /\ pc[p] = "exchanging" => cred[p] \in Tokens
                         /\ pc[p] = "saving" => new[p] \in Tokens
    BY DEF TypeInv, ProcType
  <2>8. NoReplay'
    BY <1>1, <2>2 DEF NoReplay
  <2>9. \A p \in Procs : pc'[p] = "exchanging" => Settled(cred[p])'
    BY <2>2, <2>5, <2>7, SMTT(30) DEF RotationInv, Settled
  <2>10. \A p \in Procs : pc'[p] = "saving" => issued'[new'[p][1]] = new'[p][2]
    BY <2>2, <2>4, <2>7, SMTT(30) DEF RotationInv
  <2> QED
    BY <2>2, <2>3, <2>6, <2>8, <2>9, <2>10 DEF RotationInv
<1>15. CASE UNCHANGED <<fileVars, procVars, serverVars>>
  BY <1>15, Zenon DEF RotationInv, Settled, NoReplay
<1>16. ASSUME NEW t \in Tokens, Age(t) \/ Expire(t) PROVE RotationInv'
  BY <1>15, <1>16 DEF Age, Expire
<1> QED
  BY <1>5, <1>6, <1>7, <1>8, <1>9, <1>10, <1>11, <1>12, <1>13, <1>14, <1>15,
     <1>16 DEF Next, RefreshStep, vars

\* The rotation invariant holds throughout, when auth.json can be read.
LEMMA RotationInvariant ==
  ASSUME "read" \notin Faults
  PROVE  Spec => []RotationInv
<1>1. Init => RotationInv
  BY DeviceSessionAssumption
     DEF Init, RotationInv, Covered, Settled, NoReplay, Sessions
<1>2. TypeInv /\ TypeInv' /\ RotationInv /\ [Next]_vars => RotationInv'
  BY RotationStep
<1> QED
  BY <1>1, <1>2, TypeInvariant, PTL DEF Spec

\* Any number of processes, native and Go, share one session, with logins,
\* crashes, failed saves and lost answers at any point: as long as auth.json can
\* be read, none of them presents a used refresh token whose successor was saved.
THEOREM UsedOnce ==
  ASSUME "read" \notin Faults
  PROVE  Spec => []NoReplay
<1>1. RotationInv => NoReplay
  BY DEF RotationInv
<1> QED
  BY <1>1, RotationInvariant, PTL

\* Under the same assumption, whoever takes the lock finds in auth.json the
\* latest refresh token of its session, unless the latest was lost.
THEOREM DiskIsCurrent ==
  ASSUME "read" \notin Faults
  PROVE  Spec => []DiskCurrent
<1>1. RotationInv => DiskCurrent
  BY DeviceSessionAssumption DEF RotationInv, DiskCurrent, Covered, Settled, Free
<1> QED
  BY <1>1, RotationInvariant, PTL

\* Whatever fails, a call that has exchanged its refresh token and returns a
\* token has put exactly that token into auth.json.
THEOREM RotationShown == Spec => RotationNotHidden
<1> DEFINE Shown == \A p \in Procs :
                      pc[p] = "saving" /\ pc'[p] = "idle" /\ ret'[p] # NoToken
                        => ret'[p] = disk'
<1>1. TypeInv /\ [Next]_vars => [Shown]_vars
  <2> SUFFICES ASSUME TypeInv, Next, NEW p \in Procs, pc[p] = "saving",
                      pc'[p] = "idle", ret'[p] # NoToken
               PROVE  ret'[p] = disk'
    OBVIOUS
  <2>1. pc \in [Procs -> {"off", "idle", "locking", "building", "checking",
                          "exchanging", "saving"}]
        /\ ret \in [Procs -> MaybeToken]
    BY DEF TypeInv, ProcType
  <2>2. ASSUME NEW q \in Procs, NEW r, NEW t, NEW c, Return(q, r, t, c), q # p
        PROVE  FALSE
    BY <2>1, <2>2 DEF Return
  <2>3. CASE Save(p) \/ SaveFails(p)
    BY <2>1, <2>3 DEF Save, SaveFails, StoreError, Succeed, Return
  <2>4. ASSUME NEW q \in Procs, Save(q) \/ SaveFails(q), q # p PROVE FALSE
    BY <2>2, <2>4, Zenon DEF Save, SaveFails, StoreError, Succeed
  <2>5. ASSUME NEW q \in Procs, Build(q) \/ Open(q) \/ GetToken(q) \/ Token(q)
        PROVE  FALSE
    BY <2>1, <2>5, SMTT(30) DEF Build, Open, GetToken, Token, Return
  <2>6. ASSUME NEW q \in Procs, Lock(q) \/ LockFails(q) \/ GoBuild(q) PROVE FALSE
    BY <2>1, <2>6, SMTT(30) DEF Lock, LockFails, GoBuild, Fail, Succeed, Return
  <2>7. ASSUME NEW q \in Procs, Check(q) \/ Exchange(q) \/ ExchangeFails(q)
        PROVE  FALSE
    BY <2>1, <2>7, Zenon DEF Check, Exchange, ExchangeFails, Fail, Succeed, Return
  <2>8. ASSUME NEW q \in Procs, Crash(q) PROVE FALSE
    BY <2>1, <2>8 DEF Crash
  <2>9. ASSUME UNCHANGED pc PROVE FALSE
    BY <2>9
  <2>10. Login \/ (\E t \in Tokens : Age(t) \/ Expire(t)) => UNCHANGED pc
    BY SMTT(30) DEF Login, Age, Expire, procVars
  <2> QED
    BY <2>3, <2>4, <2>5, <2>6, <2>7, <2>8, <2>9, <2>10, Zenon DEF Next, RefreshStep
<1> QED
  BY <1>1, TypeInvariant, PTL DEF Spec, RotationNotHidden
=============================================================================
