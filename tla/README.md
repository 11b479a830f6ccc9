# Verification of CipherStash Stack

TLA+ models of the stateful parts of this repository, TLC configurations that
check them on small instances, and TLAPS proofs of what matters most for every
instance. Paths are relative to the repository, with `src/` as its root.

## 1. The system and its parts

CipherStash Stack encrypts fields in an application before they reach its
database. The application (Rust, Go or TypeScript) calls a cipher
(`packages/stack-encrypt`), which takes data keys and keyset index keys from
ZeroKMS (`packages/stack-kms`) with a service token (`packages/stack-auth`) that
comes from a login, an access key or a federated JWT. Credentials live in a
profile directory (`packages/stack-profile`) that several processes share. The
Go package runs the cipher as a wasm guest (`packages/stack-guest-abi`).
Ciphertexts are stored and compared by EQL types in Postgres (`packages/eql`),
and columns are moved from plaintext to ciphertext and back by the migration
engine (`languages/typescript/packages/migrate`).

| part | where | state | here |
|---|---|---|---|
| token engine | `stack-auth/src/auto_refresh.rs` | one cached token, a mutex, an atomic flag, a Notify list, spawned refresh tasks | `AutoRefresh`, which implements `TokenEngine` |
| OIDC federation | `stack-auth/src/oidc_federation_strategy*` | bounded cache of engines per JWT, pending engines, a shared store, a shared refusal | `Federation`, composed of `TokenEngine`s |
| device session | `stack-auth/src/device_session_*.rs`, `golang/auth` | `auth.json`, its lock file, the provider's rotating refresh tokens | `DeviceSession` |
| login, device client, profile directory | `stack-auth/src/device_code`, `device_client.rs`, `stack-profile/src` | polling loop; the selected workspace, directories and files | `DeviceLogin` |
| keyset selection | `stack-encrypt/src/keyset.rs`, `cipher.rs` | bounded cache of keysets by id and name, answers in flight | `KeysetCache` |
| plans, targets, pendings | `stack-encrypt/src/plan`, `target`, `pending.rs`, `chain.rs` | batched key requests, reassembly of the answers | `Plans`, `Records` |
| ZeroKMS client | `stack-kms/src/client.rs` | the requests of one call | `KmsClient`, which implements `DataKeySource` |
| guest and Go client | `stack-guest-abi`, `golang/internal/guest`, `golang/encrypt` | buffers, the last error, the memory, one call at a time, credentials | `GuestAbi`, `GuestHost` |
| column migration | `typescript/packages/migrate/src`, the CLI's drop commands | trail of events, chunked passes with checkpoints | `Migration` |
| transport, TLS, claims, errors | `stack-kms`, `stack-auth` | none beyond one request | not modelled |
| codecs, descriptors, derive macro, stashgen | `stack-encrypt/src/dynamic`, `stack-encrypt-derive`, `golang/stashgen` | none | not modelled |
| EQL | `packages/eql` | none (SQL functions, mostly generated) | not modelled |
| TypeScript SDK, ORM adapters, FFI, CLI, wizard | `languages/typescript/packages` | none shared | not modelled |

`PROJECT.json` lists every part with its files and the reason when it is left
out, the hazards of the code at the line where they bite, and, for every
definition that models code, the lines it models.

Where two parts meet there are two kinds of composition. `AutoRefresh` is shown
to implement `TokenEngine`, and `Federation` is built from engines each of which
is shown to be a `TokenEngine`, so what `Federation` leaves out of an engine is
what `AutoRefresh` shows does not matter. `KmsClient` is instantiated inside
`Records`, which checks that it implements `DataKeySource` while `Records` drives
it; the proof does without `Records`. `GuestHost` extends `GuestAbi`: host and guest act on one guest state.

## 2. The modules and the code

**`AutoRefresh`** is `RefreshState` in `auto_refresh.rs`. A caller of `get_token`
goes through `Enter` (lock, standing refusal), `Load` and `Relock` (store read
without the lock), and `Decide`: return the token, start a refresh, or wait for
the one in flight. Waiting is split where another actor can act in between:
`Register` (Notify's `enable`, then the lock is dropped), `Recheck` (the second
load of the flag), `ReadClock` and `Answer`. A refresh task goes through `Run`,
`ExchangeOk` or `ExchangeErr`, `Save`, `Install` or `Fail`, and `Notify` when it
is the non-blocking kind. `Cancel` drops a caller's future, `Die` is the
`CancelGuard` of a task that panics, `Abandon` a task its runtime never polled.
`Rotating` chooses the refresher: a device session with one-use refresh tokens,
or one that authenticates anew and may have an external `TokenStore`. Tokens are
numbered in the order of issue; errors are kept by class.

**`TokenEngine`** is what such an engine promises: at most one exchange at a
time, begun only for a waiting client and without a fresh token; a token that
only gets newer; an answer only when there is a token. `ImplementsTokenEngine`
maps the token held, whether it is due, whether a task is in flight, and the
callers inside `get_token`.

**`Federation`** is `OidcFederationStrategy`. `EngineFor` looks an engine up
(cached, pending or new, unless a refusal of the account stands) under the
strategy's lock; `Enter` to `Woken` are the engine, under its own; `SettleOk` and
`SettleErr` are `InFlight::settle`, under the strategy's lock again; `Drop` is a
future dropped at its await. The store has room for one token and is shared by
all engines, each of which takes from it only what is stamped with its JWT.

**`DeviceSession`** is one session shared by processes. `Native` processes run
`DeviceSessionRefresher::refresh`: `Lock`, `Check` (read `auth.json` again and
adopt what another process has put there), `Exchange`, `Save`. `Go` processes
read the file on every call, take the lock on the host side and build the
session under it (`GoBuild`). `Login` replaces the file without the lock, as
`poll_for_token` does. `Faults` says what may go wrong: the lock, reading the
file, writing it, the directory's fsync after the rename, an answer lost after
the provider has rotated, and a process dying anywhere. Within a process at most
one refresh runs, which is `SingleFlight` of `AutoRefresh`. The provider is
external: it always rotates and always answers with a refresh token, and it
revokes a session when a used refresh token comes back, as the comments in
`device_session_refresher.rs` say of Clerk.

**`DeviceLogin`** is the profile directory and the commands that use it without a
lock: the device-code login (`Begin` to `SaveToken`), `bind_client_device`
(`Bind` to `SaveKey`), `AutoStrategy::detect` with the session it builds
(`Detect`, `Build`, `Open`), `set_current_workspace`, `clear_current_workspace`
and `migrate_to_workspace` (`Migrate`, `Look`, `Move`). Every file operation is a
step; a process may fail (`IoFails`) or die (`Crash`) at each. `auth.json` and
`secretkey.json` are replaced by a rename, in one step; `current_workspace` is
written in place, so it is empty for a moment. A unit of time is the five seconds
that `poll_for_token` starts with and adds. The auth server may answer a poll
with anything at any time; ZeroKMS makes one client per workspace and device
name, and hands its key out once. The refresh of the saved token is
`DeviceSession`'s subject and is not repeated. The switching and migrating
functions have no caller in the repository but are public.

**`KeysetCache`** is `StackCipher::keyset` over `KeysetCache`. `get`, `insert` and
`forget` run under a mutex and are one step each; the round trip between them is
not, so ZeroKMS gives an answer in one step (`Reply`) and it lands in another
(`Land`, `LandNotFound`), in any order, while keysets are renamed (`Rename`, the
external service). The cache's own operations are operators with the code's
names (`Touch`, `EvictOldest`, `Bind`, `Insert`, `Forget`). Of the use counter
only the order is kept (`lru`).

**`Plans`**, **`Records`**, **`KmsClient`**, **`DataKeySource`** are the path of a
record. `Plans` holds the pure part: which plans are well formed, what a source
or a stored record must look like, and the pending that a plan makes of it, a
list of parts with their key requests (`Own` is what a part takes off the front
of the answers). `Records` awaits one operation or several together: `Await`
checks everything and routes the pendings into two groups, `Ask` and `Receive`
make the calls of a group one after the other and scatter the keys back,
`Settle` turns them into values. `Misfile` puts a stored field into another
place. `KmsClient` cuts a call into chunks, keeps a bounded number of requests
going and takes the answers in order (`Take`). A key is the triple of IV,
descriptor and keyset it was made from; a term is a record of what it was derived
from; keyset names are already resolved to handles. Maps, deeper trees, repeated
keys in a source and the opening of plans that only index are left out.

**`GuestAbi`** is the guest's side of the ABI as operators on a record: the
registry of buffers (empty ones are counted), the error kept behind a status,
what an export does around its body, and the taking of what the host placed.
**`GuestHost`** is the Go side and the runtime: goroutines make a client from one
set of credentials (`Resolve` to `Made`), call it (`Lock`, `Stage`, `Run`,
`Export`, the two imports, `Leave`, `Judge`) and close or drop it. `Cancel` ends
a context, `Watch` is the runtime's watcher that then closes the module on
another goroutine, `Free`, `Exit` and `Release` are the memory allocator that
holds the memory until the call has left the guest. A growth can fail at every
allocation, under either lock policy (`GrowthFails`): because the range is beyond
the reservation or cannot be committed, which nobody counts, or because the strict
policy gives back what it cannot lock, which the allocator counts with its reason
and `Judge` compares across the call. Every buffer with bytes has
the same length and the allocator hands out the lowest free address, so that a
freed buffer is taken for the next one as often as possible. Options are part of
the plan input; each export makes one token and one request excursion.

**`Migration`** is one pair of columns, migrated in either direction. `Load`,
`Start`, `Fetch`, `Commit` and `Complete` are `runChunkedMigration`; `Confirm` is
the confirmation of dual writes, with or without waiver; `Generate` and
`Generated` are the drop commands and `Apply` the migration file they write,
applied later by the user's tool. Workers act on what they loaded, with no lock;
the application writes both columns of a row meanwhile (`Write`). The operator is
assumed to do what the commands ask for: the source of a migration is the column
the application keeps current, a twin known to have drifted is migrated with
`--force`, and a waiver is given only for a twin that has not.

Variables marked `history` in the declarations, and `overtaken`, `older`, `told`
and `keys`, are not in the code; they record what the properties speak about.

## 3. The runs

| run | instance | shows |
|---|---|---|
| `AutoRefreshDevice` | 2 callers, 2 task slots, rotating tokens, clock to 3, panics, fair | no spent refresh token is presented unless the server's answer was lost; the live refresh token is never dropped by failures, refusals or cancellation; an error is returned only when there is no usable token; every call that is not cancelled returns |
| `AutoRefreshKey` | 2 callers, no rotation, external store, cold start, tasks that die at an await or unpolled | one refresh at a time; neither the cached nor the stored token goes back to an older one; the engine implements `TokenEngine` |
| `AutoRefreshPanic` | 2 callers, no rotation, panics | *violation*: a parked caller with nobody left to notify it |
| `Federation` | 2 calls, 2 JWTs, cache of 1, a store that may hold another user's or an unstamped token | a call never gets another user's token; pending engines are claimed; only a JWT with a token takes a slot; no new engine asks while a refusal stands; every engine is a `TokenEngine` |
| `SessionRotation` | 2 native processes and 1 Go process, 2 logins, 2 tokens each, all faults but unreadable files | no replay of a used refresh token unless its successor was never saved; the file is current whenever the lock is free; a lost rotation is reported |
| `SessionLive` | 1 native and 1 Go process, every fault, fair | every refresh ends |
| `Login` | 2 processes, 3 commands, 2 workspaces, one code of 20 s at a time, faults and crashes anywhere, fair | tokens and keys are those of their directory, and the selected workspace has one; a client key that reached a file is not lost; success means that the file is there, and a session has the token of the workspace it saves to; polls keep the distance asked for; every command ends |
| `KeysetOrder` | 2 selections, 4 lookups, 3 keysets, 2 names, capacity 1, window 1 | the two indexes agree, the bound holds, a late answer never takes a name back, resurrects it or is handed out after it has lost |
| `Records` | 6 plans with lists, EQL values, contexts of their own and extensions; 2 stored rows, 2 keysets, 2 keys per request, 2 requests at a time | each leaf is sealed in its own place with a key of its own; what opens was sealed there, and untouched records open to what was written; nothing is asked for when one operation is refused; queries find exactly their rows; the client implements `DataKeySource` and every call ends |
| `Guest` | 2 goroutines, explicit and looked-up credentials, 3 calls, 1 growth refused for its lock and any number that fail otherwise, 6 addresses | memory stays mapped under a running guest and is freed with a closed client; buffers are given back exactly once and nothing is left between calls; a call is told of its own failure; credentials are released once and the key is wiped; a cancelled call ends |
| `Migration` | 2 workers, 2 rows, pages of 1, 1 write, 1 row that does not decrypt | dropping a column loses nothing; resume points can be trusted; a completed migration that owes nothing has no stale twin; one direction open at a time |
| `MigrationForced` | the same without NULLs | *violation*: a forced pass replaces a newer value |

An invariant that names several conjuncts (`CacheConsistent`,
`BuffersAccounted`, `WellSealed` and so on) is the conjunction of definitions
that are stated, with a comment each, above it.

**Disagreements.** The two violations are disagreements between the code and what
its own comments say; `PROJECT.json` quotes both sides under `findings`. The
models have others, which are not runs of their own:

- with `"read"` among the faults, `DeviceSession!NoReplay` fails: an `auth.json`
  that cannot be read under the lock is taken for one that has not rotated
  (`device_session_refresher.rs:152`, against the comment at 147), and the process
  presents a used refresh token;
- a token adopted from disk may have expired by the time it is adopted, and is
  returned (`device_session_refresher.rs:154`);
- a woken caller of `AutoRefresh` compares a refusal with a clock reading taken
  before it had the lock, and may discard it within its minute
  (`auto_refresh.rs:465`);
- a refusal that an engine replays from memory restarts the strategy's window
  (`oidc_federation_strategy.rs:267`, against `auto_refresh.rs:66`), which can
  then last two minutes;
- a name whose keyset has taken another name is bound again by an older lookup
  (`keyset.rs:429`, against the module documentation at 39), and an answer that
  the watermark refuses leaves an older binding in place (`keyset.rs:416`,
  against 195);
- `migrate_to_workspace` looks before it renames: a login that saves its token in
  between has it replaced by the flat one (`profile_store.rs:274`, against 264), and
  so has a file that `exists` cannot look at and takes for missing;
- with `Overlap = TRUE`, two commands of opposite directions started together
  both go ahead, and `Migration!OneOpen` fails (`engine.ts:165`);
- a slot the host leaves as null and zero is taken for an empty answer
  (`buffers.rs:118`), which the comment at `transport.rs:87` says is refused;
- a `NewClient` whose config is refused wipes an explicit key that a concurrent
  `NewClient` has resolved from the same credentials (`client.go:209`).

**Bounds.** Every bound is a constant with `Max` in its name, and a guard. Two
callers and two task slots are enough for a refresh that is still notifying
while the next one runs. They are also enough for the lost waiter when the
credential does not rotate (`AutoRefreshPanic`). With `Rotating = TRUE` it cannot
occur, with three callers either: a refresh that panics takes the only
refresh token with it, and no second one can set the flag again. `CallsReturn` is
therefore a statement about device sessions, or about tasks that do not panic.
`Lifetimes`, `LEEWAY` and `DENIAL_TTL` are scaled
to one to three seconds so that due, usable and expired all occur before
`MaxTime`. Two tokens per session are enough for a replay, two logins for one
session to overwrite another. Four lookups on a cache of one make every landing
evict or meet an eviction. Three commands on a profile directory let one be
overtaken by two others, of which one may have died. Two rows are a page before
and one after a checkpoint; one write overtakes a page. Two keys per request make
a call of three keys two requests, of which the second may answer first.
The calls of a guest are the three shapes an export can have: refused after its
secrets were wiped (a malformed encryption), out to the host and back with output
(a decryption), and back at once with an empty buffer (a check of a plan); the
initialisation before them takes secrets and goes out to the host as well.
Symmetry is used over callers, tasks, processes of one kind, calls, JWTs,
workers, selections and names, and never in a run
with a liveness property.

**Deadlock** is checked in every run except four, whose systems really stop:
`Federation` (engines and tokens are bounded and all calls may have returned),
`Migration` (a column may be dropped for good), `Guest` (the client may be closed)
and `Login` (all commands may be done).

**Fairness.** `AutoRefresh!FairSpec` is strong fairness of each caller's steps and
each task's steps: tokio polls every spawned task and its `Mutex` is first come,
first served, so a caller whose turn keeps coming gets it; `transport.rs` gives
exchanges a deadline. Calling, cancelling, dying and the clock get none.
`DeviceSession!FairSpec` is strong fairness of each process's refresh: the
operating system grants a blocked `flock` sooner or later, and releases the lock
of a process that dies. For the Go binding, which polls every 20ms, this assumes
that some poll meets the lock free. `DeviceLogin!LiveSpec` is weak fairness of the
processes' steps and the clock together: requests have a timeout of thirty seconds
(`transport.rs:505`), files no locks; the user need never decide. `Records!LiveSpec`
is weak fairness of the client's steps alone. `GuestHost!LiveSpec` is weak fairness
of the host and the guest; a token source or a service need not answer, but both
give up when the context of the call ends.

## 4. The proofs

`AutoRefreshProofs` proves, for any callers, task slots, lifetimes, bounds, with
or without rotation, clock jumps and deaths, from `AutoRefreshAssumption` only:

- `TypeCorrect`: `Spec => []TypeOK`, by one lemma per group of actions;
- `OneRefreshAtATime`: `Spec => []SingleFlight`. It is not inductive: the flag
  `refresh_in_progress` is cleared without the lock and a refresh is also started,
  without looking at the flag, when there is no token. The strengthening is
  `FlightInv`: a refresh whose outcome is open has the flag set, and holds the
  lock unless a token is cached; a task that was spawned and has not run holds
  the lock; and so does a caller that is about to register. So a caller that gets
  the lock and finds no token, or finds the flag clear, knows that no refresh is
  open;
- `TokenNeverOlder`: `Spec => NeverOlder`, for the cached and the stored token;
- `ErrorsDeserved`: `Spec => ErrorOnlyWithoutUsableToken`, and `EngineImplemented`:
  `Spec => ImplementsTokenEngine`, both for a clock that is not set back
  (`~ClockJumps`). With a clock that jumps a notified caller decides by a reading
  that means nothing any more, and the token it was woken for may look expired;
- `OnlyLostAnswersReplayed`: `Spec => []NoReplay`, and `CredentialKept`:
  `Spec => []RefreshTokenKept`.

The last five need two strengthenings. `HeldInv`: the task in flight works on the
token that is still cached, and what it has got is the newest one issued, so
installing it goes forward; it follows from `OneRefreshAtATime`, which makes the task the only writer.
`CredentialInv`: while a refresh is in flight the cache has no credential (the
code takes it out), the task has it, or the one it got for it, and whatever can
still be presented was not spent, or its answer was lost.

`DeviceSessionProofs` proves, for any processes, native and of the Go binding,
any number of logins and of tokens per session, from `DeviceSessionAssumption`:

- `TypeCorrect`: `Spec => []TypeOK`, strengthened by `ProcType` (a process on its
  way to an exchange has a refresh token, one that saves has a token);
- `UsedOnce`: `Spec => []NoReplay` and `DiskIsCurrent`: `Spec => []DiskCurrent`,
  when `"read"` is not among the faults; with it `NoReplay` fails, as said above.
  Neither is inductive: what protects a used token is
  not in the state that they mention. `RotationInv` adds that the steps from the
  re-read of `auth.json` to the save are under the lock; that the token on disk
  is *settled* (the latest of its session, or its successor is lost) or the
  process now saving holds its successor; and that a process about to exchange
  has a settled token. A comparison with the disk under the lock therefore rules
  out a used token, and a crash or a failed save in the gap turns the successor
  into a lost one. A login, which takes no lock, keeps this because its session
  is new. `RotationInv` was also checked with TLC on the instance of
  `SessionRotation`;
- `RotationShown`: `Spec => RotationNotHidden`, with every fault.

`FederationProofs` proves, for any calls, users, engines, tokens and capacity, from
`FederationAssumption`:

- `UsersIsolated`: `Spec => []Isolation`, and `EnginesAreAccounted`:
  `Spec => []EnginesAccounted`, from `FedInv`: a call's engine is the one of its
  JWT, whatever a call has loaded or an engine holds was federated from that JWT,
  and a standing refusal was recorded after every engine there is was made;
- `SlotsAreEarned`: `Spec => SlotsEarned`, and `NoStormWhileRefused`:
  `Spec => NoStorm`, action properties, from the same invariant;
- `EnginesAreEngines`: `Spec => EnginesAreTokenEngines`, the refinement of one
  `TokenEngine` per engine, which also needs `Backed`: an exchange in the
  background has a token to fall back on.

`KeysetCacheProofs` proves, for any keysets, names, selections and capacity, from
`KeysetCacheAssumption`:

- `CacheIsConsistent`: `Spec => []CacheConsistent`;
- `LaterWins`: `Spec => LaterLookupWins`;
- `LoserNeverHandedOut`: `Spec => LoserNotHandedOut`. The property is stated over
  the history, not over the cache: `meant` has the keyset that the latest lookup
  to rule on a name (`ruled`) bound it to, until that keyset is evicted or takes
  another name.

The invariant is `OrderInv`. Each operation of the cache keeps `Sound` (the
two indexes agree, a binding is no later than its entry, the order of use lists
each entry once), a lemma per operation. That later lookups win rests on
`Remembered`: the latest answer applied to a keyset or said of a name is known to
its entry, to its binding, or is covered by the watermark, which is what
eviction and `forget` raise; and on tickets being handed out once. That the loser
is not handed out rests on `Kept`: what `meant` says is in the index, with the
ruling's place in the order, so an older landing meets it there before its own
insert can evict it.

`DeviceLoginProofs` proves, for any processes, workspaces and commands, any
interleaving, and a crash after any file operation, from `DeviceLoginAssumption`:

- `DirectoryIsConsistent`: `Spec => []DirectoryConsistent`, and `KeysAreKept`:
  `Spec => []KeysKept`;
- `SlowDownIsHonoured`: `Spec => SlowDownHonoured`;
- `SuccessIsOnDisk`: `Spec => OkIsOnDisk`.

`LoginInv` says which command is where and what it has by then, that a key of a
workspace is in one place at most and that ZeroKMS then has its client, and that
a process about to save a key is the only one (`Alone`): the client that ZeroKMS
creates once per workspace does the mutual exclusion that no lock does.

`GuestHostProofs` proves, for any goroutines, uses and limits, from
`GuestHostAssumption`:

- `MemoryIsAccounted`: `Spec => []MemoryAccounted`;
- `SecretsAreOwned`: `Spec => []SecretsOwned`;
- `ToldOfOwnCall`: `Spec => []ToldOfThisCall`.

`GuestInv` ties the allocator's count to the stage of the call (`MemInv`), a
closed or lost client to freed memory (`ClientInv`), and the credentials to the
one `NewClient` past their consumption (`Owned`); `Fresh` says that the first
call of a client is not kept from the guest, so that an encoded config is always
handed on. `TellInv` says that no error is recorded while an export runs and that
one it leaves is its own; `GrowInv` that the count of refused growths differs from
the one a call began with exactly when the reason is this call's.

`MigrationProofs` proves, for any workers, rows, page size and writes, from
`MigrationAssumption` and for commands of the two directions that do not overlap
in time (`~Overlap`; with overlap the first fails, as said above):

- `TrailIsHonest`: `Spec => []TrailHonest`;
- `DropsLoseNothing`: `Spec => []DropLosesNothing`;
- `NothingStaleIsUnowed`: `Spec => []NothingStaleUnowed`.

What a drop loses depends on pages read, cursors reported and events appended
long before. `MigrationInv` carries it along: what a pass has done for each row
behind its cursor (`Visited`), the same for the cursor of the latest event of a
direction (`TrailInv`), what a page in hand still says of the column it was read
from (`PageHonest`), and that workers that are not idle work in one direction.

`KmsClientProofs` proves, for any caller, payloads, size of a request (at least 1)
and limit on the requests going:

- `ClientInvariant`: `Spec => []ClientInv`. The chunks cut so far, put one after
  the other, are the payloads up to there; every answer held is an error or the
  keys of its own chunk; what was put out is the keys of the chunks taken;
- `ClientImplementsSource`: `Spec => Source!Spec`, the refinement of
  `DataKeySource`: a call ends with the key of each payload in payload order, all
  of them granted, or with an error and nothing.

`Spec` is here the client with an arbitrary caller in the place of `Records`. That
the chunks join up to the whole is where the proof needs induction, and gets it
from the steps of `Take`: the invariant grows by one chunk at a time.

`RotationInv`, `MigrationInv` and `GuestInv` were checked with TLC, as invariants of
the runs' instances, before they were proved.

**Only model-checked.** Liveness under fairness (`CallsReturn`, `RefreshEnds`,
`TasksEnd`, `CallEnds`, `CancelledCallEnds`) is beyond the prover. The four
invariants of `Records` (`WellSealed`, `OpensAsWritten`, `AsksInScope`,
`QueryFinds`) and its own use of the client, `ImplementsDataKeySource`, are about
what folds over plans, parts and key requests compute (`FlattenSeq`, `SelectSeq`,
`SetToSortSeq`); that needs an induction over the data which the prover cannot
instantiate. What is proved is the client's half, for any caller. Of `GuestHost`,
`BuffersAccounted` rests on the lowest free address and on the fold that frees the
buffers of a call, and is checked on the run's six addresses, as many as there can
be buffers at once.

## 5. What is not modelled, and what is left to do

Not modelled at all: request and response formats, claims, error wording,
cryptography, code generation, SQL, and the TypeScript layers, whose state is one
call's. In `AutoRefresh`, logging and error payloads; in `DeviceSession`, sessions
without a profile store and regions; in `KeysetCache`, the key material (the same
for an id whoever loads it) and keysets disabled at ZeroKMS (a lookup without an
answer about the name); in `Federation`, the workspace check at the end of a call;
in `GuestHost`, the lookup of credentials in the environment and the profile, the
wiping of a request's body, and the exports `se_term`, `se_query`, `se_keyset` and
`se_targets`, which have the shape of those modelled; in `Migration`, names of
twins, progress counts and events of earlier releases. Most of the repository's
lines are in these parts (tests, encodings, generated SQL and its generators,
error types), which have no state to interleave.

In order:

1. `BuffersAccounted` of `GuestHost`: which buffer is whose, at every stage of a call.
2. The invariants of `Records`, as lemmas about one plan shape at a time.
3. Termination of migration commands, and a larger instance with two writes.
4. Pure algorithms: the order-revealing comparison of EQL.
