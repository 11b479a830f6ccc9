---------------------------- MODULE DeviceSession ----------------------------
(***************************************************************************)
(* One device session shared by several processes through a profile        *)
(* directory: auth.json, the lock file beside it, and an identity provider *)
(* that rotates refresh tokens and revokes the whole chain when a used one *)
(* comes back.                                                             *)
(*                                                                         *)
(* Native processes run DeviceSessionRefresher::refresh and keep a token   *)
(* between calls; processes of the Go binding keep none, read auth.json on *)
(* every call and hold the lock on the guest's behalf.  Within a process   *)
(* at most one refresh runs (module AutoRefresh), so a process is one      *)
(* thread here.  `stash auth login` replaces auth.json without the lock.   *)
(*                                                                         *)
(* A token is <<s, g>>: the g-th of the session that login number s        *)
(* started, access and refresh token together.                             *)
(***************************************************************************)
EXTENDS Integers

CONSTANTS
  Native,       \* processes linking stack-auth
  Go,           \* processes using the Go binding
  Faults,       \* what may go wrong, see FaultKinds
  MaxLogins,    \* bound on logins
  MaxGen        \* bound on the tokens of one session

Procs == Native \cup Go

\* lock: the lock cannot be taken, or the caller's context ends before it is.
\* read: auth.json cannot be read.  save: it cannot be written.
\* fsync: it is replaced, but the directory's fsync fails.
\* lost: the provider rotates, but its answer does not arrive.
\* crash: a process dies, or its guest module is closed, at any point.
FaultKinds == {"lock", "read", "save", "fsync", "lost", "crash"}

ASSUME DeviceSessionAssumption ==
  /\ Native \cap Go = {} /\ 0 \notin Procs
  /\ Faults \subseteq FaultKinds
  /\ MaxLogins \in Nat \ {0} /\ MaxGen \in Nat \ {0}

VARIABLES
  disk,         \* auth.json
  flock,        \* holder of .auth.json.lock, or Free
  pc,           \* where each process is in its call
  cached,       \* AutoRefresh's token, per process
  cred,         \* its refresh token: in the cached token or in the refresh
  new,          \* the token the provider has just answered with
  ret,          \* what the last call returned, NoToken for an error
  logins,       \* number of logins
  issued,       \* per session, how many tokens the provider has issued
  revoked,      \* sessions whose chain it has revoked
  aged,         \* tokens within the expiry leeway: to be refreshed
  dead,         \* tokens past their expiry
  unsaved,      \* tokens issued that never reached auth.json
  replayed      \* refresh tokens presented a second time

fileVars == <<disk, flock>>
procVars == <<pc, cached, cred, new, ret>>
serverVars == <<logins, issued, revoked, unsaved, replayed>>
vars == <<fileVars, procVars, serverVars, aged, dead>>

-----------------------------------------------------------------------------
Free     == 0
NoToken  == <<0, 0>>
Sessions == 1..MaxLogins
Tokens   == Sessions \X (1..MaxGen)
Following(t) == <<t[1], t[2] + 1>>

TypeOK ==
  /\ disk \in Tokens
  /\ flock \in Procs \cup {Free}
  /\ pc \in [Procs -> {"off", "idle", "locking", "building", "checking",
                       "exchanging", "saving"}]
  /\ cached \in [Procs -> Tokens \cup {NoToken}]
  /\ cred \in [Procs -> Tokens \cup {NoToken}]
  /\ new \in [Procs -> Tokens \cup {NoToken}]
  /\ ret \in [Procs -> Tokens \cup {NoToken}]
  /\ logins \in Sessions
  /\ issued \in [Sessions -> 0..MaxGen] /\ revoked \in SUBSET Sessions
  /\ aged \in SUBSET Tokens /\ dead \in SUBSET aged
  /\ unsaved \in SUBSET Tokens /\ replayed \in SUBSET Tokens

Init ==
  /\ disk = <<1, 1>> /\ flock = Free
  /\ pc = [p \in Procs |-> "off"]
  /\ cached = [p \in Procs |-> NoToken]
  /\ cred = [p \in Procs |-> NoToken]
  /\ new = [p \in Procs |-> NoToken]
  /\ ret = [p \in Procs |-> NoToken]
  /\ logins = 1
  /\ issued = [s \in Sessions |-> IF s = 1 THEN 1 ELSE 0] /\ revoked = {}
  /\ aged = {} /\ dead = {} /\ unsaved = {} /\ replayed = {}

-----------------------------------------------------------------------------
(* How a call ends.  A Go process keeps nothing of it.                     *)

\* The call returns r; the process keeps token t with refresh token c.
Return(p, r, t, c) ==
  /\ pc' = [pc EXCEPT ![p] = "idle"]
  /\ cached' = [cached EXCEPT ![p] = IF p \in Go THEN NoToken ELSE t]
  /\ cred' = [cred EXCEPT ![p] = IF p \in Go THEN NoToken ELSE c]
  /\ new' = [new EXCEPT ![p] = NoToken]
  /\ ret' = [ret EXCEPT ![p] = r]

\* Mutant: the lock outlives the call.
Unlock_Never(p) == UNCHANGED flock

\* Dropping the FileLockGuard.
Unlock(p) == flock' = IF flock = p THEN Free ELSE flock

\* The refresh yields token t, which the engine installs.
Succeed(p, t) == Return(p, t, t, t) /\ Unlock(p)

\* The refresh fails with its credential unspent as far as the process can
\* tell: the engine restores it, and answers with the cached token while that
\* is usable.
Fail(p) ==
  /\ Return(p, IF cached[p] \in dead THEN NoToken ELSE cached[p],
            cached[p], cred[p])
  /\ Unlock(p)

-----------------------------------------------------------------------------
(* Native processes.                                                       *)

\* DeviceSessionStrategyBuilder::build reads auth.json.
Build(p) ==
  /\ p \in Native /\ pc[p] = "off"
  /\ Return(p, NoToken, disk, disk)
  /\ UNCHANGED <<fileVars, serverVars, aged, dead>>

\* get_token: the cached token, or a refresh with its refresh token.
GetToken(p) ==
  /\ p \in Native /\ pc[p] = "idle"
  /\ IF cached[p] \in aged /\ cred[p] # NoToken
     THEN /\ pc' = [pc EXCEPT ![p] = "locking"]
          /\ UNCHANGED <<cached, cred, new, ret>>
     ELSE Return(p, IF cached[p] \in dead THEN NoToken ELSE cached[p],
                 cached[p], cred[p])
  /\ UNCHANGED <<fileVars, serverVars, aged, dead>>

-----------------------------------------------------------------------------
(* The Go binding.                                                         *)

Open(p) ==
  /\ p \in Go /\ pc[p] = "off"
  /\ Return(p, NoToken, NoToken, NoToken)
  /\ UNCHANGED <<fileVars, serverVars, aged, dead>>

\* Strategy.Token: a token that is not due is read without the lock.
Token(p) ==
  /\ p \in Go /\ pc[p] = "idle"
  /\ \/ /\ disk \notin aged
        /\ Return(p, disk, NoToken, NoToken)
     \/ /\ disk \in aged
        /\ pc' = [pc EXCEPT ![p] = "locking"]
        /\ UNCHANGED <<cached, cred, new, ret>>
     \/ "read" \in Faults /\ Return(p, NoToken, NoToken, NoToken)
  /\ UNCHANGED <<fileVars, serverVars, aged, dead>>

\* The guest's `refresh`, up to the refresh proper: the session is built from
\* auth.json as it is under the lock.
GoBuild(p) ==
  /\ pc[p] = "building"
  /\ \/ /\ disk \notin aged
        /\ Succeed(p, disk)
     \/ /\ disk \in aged
        /\ pc' = [pc EXCEPT ![p] = "checking"]
        /\ cached' = [cached EXCEPT ![p] = disk]
        /\ cred' = [cred EXCEPT ![p] = disk]
        /\ UNCHANGED <<flock, new, ret>>
     \/ "read" \in Faults /\ Fail(p)
  /\ UNCHANGED <<disk, serverVars, aged, dead>>

-----------------------------------------------------------------------------
(* DeviceSessionRefresher::refresh.                                        *)

\* acquire_refresh_lock, or withRefreshLock's polling.
Lock(p) ==
  /\ pc[p] = "locking" /\ flock = Free
  /\ flock' = p
  /\ pc' = [pc EXCEPT ![p] = IF p \in Go THEN "building" ELSE "checking"]
  /\ UNCHANGED <<disk, cached, cred, new, ret, serverVars, aged, dead>>

LockFails(p) ==
  /\ "lock" \in Faults /\ pc[p] = "locking"
  /\ Fail(p)
  /\ UNCHANGED <<disk, serverVars, aged, dead>>

\* Mutant: auth.json is not looked at again.
Rotated_Never(p) == FALSE

\* load_freshly_refreshed_token: auth.json holds another refresh token.
Rotated(p) == disk # cred[p]

\* Another process has rotated meanwhile and its token is taken as it is; else,
\* or when auth.json cannot be read, the exchange goes ahead.
Check(p) ==
  /\ pc[p] = "checking"
  /\ \/ Rotated(p) /\ Succeed(p, disk)
     \/ /\ ~Rotated(p) \/ "read" \in Faults
        /\ pc' = [pc EXCEPT ![p] = "exchanging"]
        /\ UNCHANGED <<flock, cached, cred, new, ret>>
  /\ UNCHANGED <<disk, serverVars, aged, dead>>

\* Mutant: the lock covers the exchange only.
Exchange_Unlocked(p) ==
  LET c == cred[p] IN
  /\ pc[p] = "exchanging"
  /\ issued[c[1]] = c[2] /\ c[1] \notin revoked /\ c[2] < MaxGen
  /\ issued' = [issued EXCEPT ![c[1]] = c[2] + 1]
  /\ new' = [new EXCEPT ![p] = Following(c)]
  /\ pc' = [pc EXCEPT ![p] = "saving"]
  /\ Unlock(p)
  /\ UNCHANGED <<disk, cached, cred, ret, logins, revoked, unsaved, replayed,
                 aged, dead>>

\* Token::refresh_with succeeds: the provider rotates.
Exchange(p) ==
  LET c == cred[p] IN
  /\ pc[p] = "exchanging"
  /\ issued[c[1]] = c[2] /\ c[1] \notin revoked /\ c[2] < MaxGen
  /\ issued' = [issued EXCEPT ![c[1]] = c[2] + 1]
  /\ new' = [new EXCEPT ![p] = Following(c)]
  /\ pc' = [pc EXCEPT ![p] = "saving"]
  /\ UNCHANGED <<fileVars, cached, cred, ret, logins, revoked, unsaved,
                 replayed, aged, dead>>

\* Token::refresh_with fails: the provider refuses or is not reached; its
\* answer gets lost; or it has rotated this refresh token before, and revokes
\* the chain.
ExchangeFails(p) ==
  LET c == cred[p]
      used == issued[c[1]] # c[2] IN
  /\ pc[p] = "exchanging"
  /\ \/ UNCHANGED <<issued, revoked, unsaved, replayed>>
     \/ /\ used
        /\ revoked' = revoked \cup {c[1]}
        /\ replayed' = replayed \cup {c}
        /\ UNCHANGED <<issued, unsaved>>
     \/ /\ "lost" \in Faults /\ ~used /\ c[1] \notin revoked /\ c[2] < MaxGen
        /\ issued' = [issued EXCEPT ![c[1]] = c[2] + 1]
        /\ unsaved' = unsaved \cup {Following(c)}
        /\ UNCHANGED <<revoked, replayed>>
  /\ Fail(p)
  /\ UNCHANGED <<disk, logins, aged, dead>>

\* Mutant: what is saved is what the engine has left of the old token.
Save_Taken(p) ==
  /\ pc[p] = "saving"
  /\ disk' = NoToken
  /\ Succeed(p, new[p])
  /\ UNCHANGED <<serverVars, aged, dead>>

\* persist_refreshed, while the lock is held.
Save(p) ==
  /\ pc[p] = "saving"
  /\ disk' = new[p]
  /\ Succeed(p, new[p])
  /\ UNCHANGED <<serverVars, aged, dead>>

\* Mutant: a save that fails is only logged.
StoreError_Logged(p) ==
  /\ Return(p, new[p], new[p], new[p])
  /\ Unlock(p)

\* AuthError::Store: the call fails and the consumed credential is not
\* restored.
StoreError(p) ==
  /\ Return(p, NoToken, cached[p], NoToken)
  /\ Unlock(p)

\* write_to_path fails before its rename, or at the directory's fsync, which
\* comes after it.
SaveFails(p) ==
  /\ pc[p] = "saving"
  /\ \/ /\ "save" \in Faults
        /\ unsaved' = unsaved \cup {new[p]}
        /\ UNCHANGED disk
     \/ /\ "fsync" \in Faults
        /\ disk' = new[p]
        /\ UNCHANGED unsaved
  /\ StoreError(p)
  /\ UNCHANGED <<logins, issued, revoked, replayed, aged, dead>>

-----------------------------------------------------------------------------
(* The environment.                                                        *)

\* The process dies; the operating system releases its lock.
Crash(p) ==
  /\ "crash" \in Faults /\ pc[p] # "off"
  /\ pc' = [pc EXCEPT ![p] = "off"]
  /\ cached' = [cached EXCEPT ![p] = NoToken]
  /\ cred' = [cred EXCEPT ![p] = NoToken]
  /\ new' = [new EXCEPT ![p] = NoToken]
  /\ ret' = [ret EXCEPT ![p] = NoToken]
  /\ Unlock(p)
  /\ unsaved' = IF pc[p] = "saving" THEN unsaved \cup {new[p]} ELSE unsaved
  /\ UNCHANGED <<disk, logins, issued, revoked, replayed, aged, dead>>

\* PendingDeviceCode::poll_for_token saves a new session's token.
Login ==
  /\ logins < MaxLogins
  /\ logins' = logins + 1
  /\ issued' = [issued EXCEPT ![logins + 1] = 1]
  /\ disk' = <<logins + 1, 1>>
  /\ UNCHANGED <<flock, procVars, revoked, unsaved, replayed, aged, dead>>

\* A token comes due, and expires.
Age(t) ==
  /\ t[2] <= issued[t[1]] /\ t \notin aged
  /\ aged' = aged \cup {t}
  /\ UNCHANGED <<fileVars, procVars, serverVars, dead>>
Expire(t) ==
  /\ t \in aged \ dead
  /\ dead' = dead \cup {t}
  /\ UNCHANGED <<fileVars, procVars, serverVars, aged>>

RefreshStep(p) == \/ Lock(p) \/ GoBuild(p) \/ Check(p) \/ Exchange(p)
                  \/ ExchangeFails(p) \/ Save(p)

Next ==
  \/ \E p \in Procs : \/ Build(p) \/ Open(p) \/ GetToken(p) \/ Token(p)
                      \/ RefreshStep(p) \/ LockFails(p) \/ SaveFails(p)
                      \/ Crash(p)
  \/ Login
  \/ \E t \in Tokens : Age(t) \/ Expire(t)

Spec == Init /\ [][Next]_vars

\* flock is granted to a blocked waiter sooner or later, the Go binding's poll
\* every 20ms meets a moment when it is free, and exchanges return.
FairSpec == Spec /\ \A p \in Procs : SF_vars(RefreshStep(p))

-----------------------------------------------------------------------------
(* Properties.                                                             *)

\* No process presents a refresh token that has been used, which would revoke
\* the session for all of them, unless the token it was rotated to never
\* reached auth.json: not because two processes held the same one, not because
\* one of them was restarted, and not because a login replaced the file.
NoReplay == \A c \in replayed : Following(c) \in unsaved

\* "A sibling process can't observe a stale refresh token after we've burned
\* it": whenever the lock is free, the refresh token in auth.json is the one
\* the latest of its session, unless its successor never reached the file.
DiskCurrent ==
  flock = Free => issued[disk[1]] = disk[2] \/ Following(disk) \in unsaved

\* "Returning a token while disk still holds its consumed refresh token would
\* hide a broken rotation": a call that has exchanged its refresh token and
\* returns a token has put exactly that token into auth.json.
RotationNotHidden ==
  [][\A p \in Procs : pc[p] = "saving" /\ pc'[p] = "idle" /\ ret'[p] # NoToken
                        => ret'[p] = disk']_vars

\* Every refresh comes to an end, whoever holds the lock and whoever dies.
RefreshEnds ==
  \A p \in Procs : (pc[p] = "locking") ~> (pc[p] \in {"idle", "off"})
=============================================================================
