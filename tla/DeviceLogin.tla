----------------------------- MODULE DeviceLogin -----------------------------
(***************************************************************************)
(* The profile directory and the commands that fill it.  Several processes *)
(* share one directory and take no lock: they log in with the device code  *)
(* flow (DeviceCodeStrategy), provision the device's client                *)
(* (bind_client_device), pick up the session there is                      *)
(* (AutoStrategy::detect), select a workspace, and move the flat files of  *)
(* an older layout into a workspace (migrate_to_workspace).                *)
(*                                                                         *)
(* Every file operation is a step of its own, after which the process may  *)
(* die.  A file that write_to_path writes is replaced by a rename, in one  *)
(* step; current_workspace is written with std::fs::write, which empties   *)
(* the file first.  One unit of time is the five seconds poll_for_token    *)
(* starts with.  What the auth server and ZeroKMS do is external.          *)
(***************************************************************************)
EXTENDS Integers, FiniteSets

CONSTANTS
  Procs,        \* processes sharing the directory
  Workspaces,   \* workspace ids
  Older,        \* the workspace of the flat files, if there are any
  ExpiresIn,    \* lifetime of a device code
  MaxTasks,     \* bound on commands
  MaxCodes,     \* bound on device codes being polled for at a time
  None

ASSUME DeviceLoginAssumption ==
  /\ Older \in Workspaces /\ None \notin Workspaces \cup {"torn"}
  /\ "torn" \notin Workspaces
  /\ None \notin [ws : Workspaces, from : {"older", "here"}]
  /\ ExpiresIn \in Nat \ {0} /\ MaxTasks \in Nat /\ MaxCodes \in Nat

VARIABLES
  current,      \* current_workspace: None when absent, Torn when emptied
  dirs,         \* directories under workspaces/
  file,         \* per workspace: auth.json and secretkey.json
  root,         \* the flat auth.json and secretkey.json
  device,       \* device.json exists
  at,           \* where each process is in its command
  job,          \* what it holds
  result,       \* history: the command that the last step completed, if any
  code,         \* the auth server: the device code of each process
  clients,      \* ZeroKMS: workspaces that have a client for this device
  started,      \* number of commands
  keys          \* client keys that have been in a file

diskVars == <<current, dirs, file, root, device>>
vars == <<diskVars, at, job, result, code, clients, started, keys>>

-----------------------------------------------------------------------------
Torn  == "torn"
Files == {"auth", "key"}

\* Contents: a token or a client key of workspace w, and where it is from.
Content(w, from) == [ws |-> w, from |-> from]
Contents == [ws : Workspaces, from : {"older", "here"}]

NoCode  == [st |-> "none", ws |-> None]
NoJob   == [task |-> "none", ws |-> None, token |-> None, file |-> None,
            interval |-> 0, asked |-> 0, nap |-> 0, left |-> 0, since |-> 0]

TypeOK ==
  /\ current \in Workspaces \cup {None, Torn}
  /\ dirs \subseteq Workspaces
  /\ file \in [Workspaces -> [Files -> Contents \cup {None}]]
  /\ root \in [Files -> Contents \cup {None}]
  /\ device \in BOOLEAN /\ started \in 0..MaxTasks
  /\ clients \subseteq Workspaces
  /\ \A w \in Workspaces, f \in Files : file[w][f] # None => w \in dirs
  /\ \A p \in Procs :
       /\ (at[p] = "idle") = (job[p] = NoJob)
       /\ job[p].ws \in Workspaces \cup {None}
       /\ job[p].nap <= job[p].interval /\ job[p].left \in 0..ExpiresIn
       /\ at[p] \in {"polling", "asked", "napping"} => job[p].interval > 0
       /\ at[p] \in {"shown", "polling", "asked", "napping"} <=> code[p] # NoCode

Empty == [f \in Files |-> None]

\* A fresh directory, one with the flat files of an older release, or one
\* where a login to Older has been made.
Init ==
  /\ \/ /\ current = None /\ dirs = {}
        /\ file = [w \in Workspaces |-> Empty]
        /\ root \in {Empty, [f \in Files |-> Content(Older, "older")]}
     \/ /\ current = Older /\ dirs = {Older}
        /\ file = [w \in Workspaces |->
                    IF w = Older THEN [Empty EXCEPT !["auth"] = Content(w, "here")] ELSE Empty]
        /\ root = Empty
  /\ device = FALSE
  /\ at = [p \in Procs |-> "idle"] /\ job = [p \in Procs |-> NoJob]
  /\ result = None
  /\ code = [p \in Procs |-> NoCode]
  /\ clients = IF root = Empty THEN {} ELSE {Older}
  /\ keys = IF root = Empty THEN {} ELSE {Content(Older, "older")}
  /\ started = 0

-----------------------------------------------------------------------------
(* Beginning and ending a command.                                         *)

Go(p, where, j) ==
  /\ at' = [at EXCEPT ![p] = where]
  /\ job' = [job EXCEPT ![p] = j]
  /\ result' = None

\* The command has succeeded; a detection has a session with a token.
Succeed(p, token) ==
  /\ at' = [at EXCEPT ![p] = "idle"]
  /\ job' = [job EXCEPT ![p] = NoJob]
  /\ result' = [by |-> p, token |-> token]

End(p, how) ==
  IF how = "ok" THEN Succeed(p, None) ELSE Go(p, "idle", NoJob)

NewJob(task, w) == [NoJob EXCEPT !.task = task, !.ws = w]
Start(p, task, where, w) == Go(p, where, NewJob(task, w))

Begins(p) ==
  /\ at[p] = "idle" /\ started < MaxTasks
  /\ started' = started + 1

\* current_workspace(): an id, or an error.
Selected == current \in Workspaces

-----------------------------------------------------------------------------
(* DeviceCodeStrategy.                                                     *)

\* begin: the server hands out a code, or the request fails.
Begin(p) ==
  /\ Begins(p)
  /\ \/ /\ Cardinality({q \in Procs : code[q] # NoCode}) < MaxCodes
        /\ Start(p, "login", "shown", None)
        /\ code' = [code EXCEPT ![p] = [st |-> "pending", ws |-> None]]
     \/ End(p, "error") /\ UNCHANGED code
  /\ UNCHANGED <<diskVars, clients, keys>>

\* poll_for_token is called: the deadline counts from here.
Poll(p) ==
  /\ at[p] = "shown"
  /\ Go(p, "polling", [job[p] EXCEPT !.interval = 1, !.asked = 1,
                                     !.left = ExpiresIn, !.since = 1])
  /\ UNCHANGED <<diskVars, code, clients, started, keys>>

\* Mutant: the server alone decides when the code has expired.
Ask_Trusting(p) ==
  /\ at[p] = "polling"
  /\ Go(p, "asked", [job[p] EXCEPT !.since = 0])
  /\ UNCHANGED <<diskVars, code, clients, started, keys>>

\* The top of the loop: the code has expired, or the server is asked.
Ask(p) ==
  /\ at[p] = "polling"
  /\ IF job[p].left = 0
     THEN End(p, "error") /\ code' = [code EXCEPT ![p] = NoCode]
     ELSE Go(p, "asked", [job[p] EXCEPT !.since = 0]) /\ UNCHANGED code
  /\ UNCHANGED <<diskVars, clients, started, keys>>

\* Mutant: the interval starts over with every round.
Later_Once(j, slow) == IF slow THEN 2 ELSE 1

\* slow_down lengthens the interval for good.
Later(j, slow) == IF slow THEN j.interval + 1 ELSE j.interval

\* authorization_pending, or slow_down.
Pending(p) ==
  /\ at[p] = "asked" /\ code[p].st = "pending"
  /\ \E slow \in BOOLEAN :
       LET i == Later(job[p], slow) IN
       Go(p, "napping", [job[p] EXCEPT !.interval = i, !.nap = i,
                                       !.asked = IF slow THEN job[p].asked + 1
                                                          ELSE job[p].asked])
  /\ UNCHANGED <<diskVars, code, clients, started, keys>>

Wake(p) ==
  /\ at[p] = "napping" /\ job[p].nap = 0
  /\ Go(p, "polling", job[p])
  /\ UNCHANGED <<diskVars, code, clients, started, keys>>

\* Any other answer, at any time, or none: denied, expired, over the limit,
\* not reached.
Refused(p) ==
  /\ at[p] = "asked"
  /\ End(p, "error")
  /\ code' = [code EXCEPT ![p] = NoCode]
  /\ UNCHANGED <<diskVars, clients, started, keys>>

\* A token, which names its workspace.
Granted(p) ==
  /\ at[p] = "asked" /\ code[p].st = "granted"
  /\ Go(p, "mkdir", [NoJob EXCEPT !.task = "login", !.ws = code[p].ws,
                                  !.token = Content(code[p].ws, "here")])
  /\ code' = [code EXCEPT ![p] = NoCode]
  /\ UNCHANGED <<diskVars, clients, started, keys>>

\* The user authorises the device, in a workspace; or never does.
Decide(p) ==
  /\ code[p].st = "pending"
  /\ \E w \in Workspaces : code' = [code EXCEPT ![p] = [st |-> "granted", ws |-> w]]
  /\ result' = None
  /\ UNCHANGED <<diskVars, at, job, clients, started, keys>>

-----------------------------------------------------------------------------
(* ProfileStore.                                                           *)

\* create_dir_all, by init_workspace and migrate_to_workspace.
MakeDir(p) ==
  /\ at[p] = "mkdir"
  /\ dirs' = dirs \cup {job[p].ws}
  /\ IF job[p].task = "login"
     THEN Go(p, "select", job[p])
     ELSE Go(p, "look", [job[p] EXCEPT !.file = "auth"])
  /\ UNCHANGED <<current, file, root, device, code, clients,
                 started, keys>>

\* std::fs::write on current_workspace opens the file, emptying it ...
Truncate(p) ==
  /\ at[p] = "select"
  /\ current' = Torn
  /\ Go(p, "write", job[p])
  /\ UNCHANGED <<dirs, file, root, device, code, clients,
                 started, keys>>

\* ... and writes it.
WriteCurrent(p) ==
  /\ at[p] = "write"
  /\ current' = job[p].ws
  /\ IF job[p].task = "login"
     THEN Go(p, "save", job[p])
     ELSE End(p, "ok")
  /\ UNCHANGED <<dirs, file, root, device, code, clients, started,
                 keys>>

\* Mutant: a write that fails is only logged.
Save_Logged(p, w, f, c) ==
  /\ \/ dirs' = dirs \cup {w} /\ file' = [file EXCEPT ![w][f] = c]
     \/ UNCHANGED <<dirs, file>>
  /\ End(p, "ok")

\* write_to_path: the file is replaced; or nothing is, and an error returned;
\* or it is replaced and the directory's fsync fails.
Save(p, w, f, c) ==
  \/ /\ dirs' = dirs \cup {w}
     /\ file' = [file EXCEPT ![w][f] = c]
     /\ \E how \in {"ok", "error"} : End(p, how)
  \/ End(p, "error") /\ UNCHANGED <<dirs, file>>

\* The token of a login.
SaveToken(p) ==
  /\ at[p] = "save"
  /\ Save(p, job[p].ws, "auth", job[p].token)
  /\ UNCHANGED <<current, root, device, code, clients, started,
                 keys>>

\* set_current_workspace: the workspace must have a directory.
SetCurrent(p) ==
  /\ Begins(p)
  /\ \E w \in Workspaces :
       IF w \in dirs THEN Start(p, "switch", "select", w) ELSE End(p, "error")
  /\ UNCHANGED <<diskVars, code, clients, keys>>

\* clear_current_workspace.
ClearCurrent(p) ==
  /\ Begins(p)
  /\ current' = None
  /\ End(p, "ok")
  /\ UNCHANGED <<dirs, file, root, device, code, clients, keys>>

\* migrate_to_workspace, for the workspace the flat files belong to.
Migrate(p) ==
  /\ Begins(p)
  /\ Start(p, "migrate", "mkdir", Older)
  /\ UNCHANGED <<diskVars, code, clients, keys>>

\* After a file: the next one, and then set_current_workspace.
Onward(j) == IF j.file = "auth" THEN "look" ELSE "select"
Following(j) == [j EXCEPT !.file = IF j.file = "auth" THEN "key" ELSE None]

\* Path::exists: a file that cannot be looked at is taken for one that is not
\* there.
Exists(content) == {content # None, FALSE}

\* src.exists() && !dst.exists() ...
Look(p) ==
  LET j == job[p] IN
  /\ at[p] = "look"
  /\ \E src \in Exists(root[j.file]), dst \in Exists(file[j.ws][j.file]) :
       IF src /\ ~dst THEN Go(p, "move", j) ELSE Go(p, Onward(j), Following(j))
  /\ UNCHANGED <<diskVars, code, clients, started, keys>>

\* Mutant: the file is taken away before it is written again, and the process
\* may die in between.
Move_Halfway(p) ==
  LET j == job[p] IN
  /\ at[p] = "move"
  /\ root' = [root EXCEPT ![j.file] = None]
  /\ \/ End(p, "died") /\ UNCHANGED file
     \/ /\ file' = [file EXCEPT ![j.ws][j.file] = root[j.file]]
        /\ Go(p, Onward(j), Following(j))
  /\ UNCHANGED <<current, dirs, device, code, clients, started, keys>>

\* ... and rename, which fails when the source is gone.
Move(p) ==
  LET j == job[p] IN
  /\ at[p] = "move"
  /\ IF root[j.file] = None
     THEN End(p, "error") /\ UNCHANGED <<file, root>>
     ELSE /\ file' = [file EXCEPT ![j.ws][j.file] = root[j.file]]
          /\ root' = [root EXCEPT ![j.file] = None]
          /\ Go(p, Onward(j), Following(j))
  /\ UNCHANGED <<current, dirs, device, code, clients, started,
                 keys>>

-----------------------------------------------------------------------------
(* bind_client_device.                                                     *)

\* current_workspace_store.
Bind(p) ==
  /\ Begins(p)
  /\ IF Selected THEN Start(p, "bind", "load", current) ELSE End(p, "error")
  /\ UNCHANGED <<diskVars, code, clients, keys>>

\* A secret key is there already; or the token is loaded, from the store
\* resolved before.
LoadToken(p) ==
  LET f == file[job[p].ws] IN
  /\ at[p] = "load"
  /\ \E there \in Exists(f["key"]) :
       \/ there /\ End(p, "ok")
       \/ ~there /\ f["auth"] = None /\ End(p, "error")
       \/ /\ ~there /\ f["auth"] # None
          /\ Go(p, "identity", [job[p] EXCEPT !.token = f["auth"]])
  /\ UNCHANGED <<diskVars, code, clients, started, keys>>

\* DeviceIdentity::load_or_create.
Identity(p) ==
  /\ at[p] = "identity"
  /\ Go(p, IF device THEN "create" ELSE "mint", job[p])
  /\ UNCHANGED <<diskVars, code, clients, started, keys>>

Mint(p) ==
  /\ at[p] = "mint"
  /\ device' = TRUE
  /\ Go(p, "create", job[p])
  /\ UNCHANGED <<current, dirs, file, root, code, clients,
                 started, keys>>

\* CreateClientRequest: ZeroKMS makes one client per workspace and device
\* name, and answers 409 when there is one; or its answer is an error, or
\* does not arrive.
CreateClient(p) ==
  LET w == job[p].token.ws IN
  /\ at[p] = "create"
  /\ \/ w \in clients /\ End(p, "ok") /\ UNCHANGED clients
     \/ /\ w \notin clients
        /\ clients' = clients \cup {w}
        /\ Go(p, "savekey", job[p])
     \/ End(p, "error") /\ clients' \in {clients, clients \cup {w}}
  /\ UNCHANGED <<diskVars, code, started, keys>>

\* Mutant: the key goes where current_workspace points by now.
SaveKey_Current(p) ==
  /\ at[p] = "savekey"
  /\ LET w == IF Selected THEN current ELSE job[p].ws
     IN Save(p, w, "key", Content(job[p].token.ws, "here"))
  /\ keys' = {file'[w]["key"] : w \in Workspaces} \cup keys
  /\ UNCHANGED <<current, root, device, code, clients, started>>

SaveKey(p) ==
  /\ at[p] = "savekey"
  /\ Save(p, job[p].ws, "key", Content(job[p].token.ws, "here"))
  /\ keys' = {file'[w]["key"] : w \in Workspaces} \cup keys
  /\ UNCHANGED <<current, root, device, code, clients, started>>

-----------------------------------------------------------------------------
(* AutoStrategy::detect, without an access key.                            *)

\* detect_inner: any failure means there is no token.
Detect(p) ==
  /\ Begins(p)
  /\ IF Selected /\ file[current]["auth"] # None
     THEN Start(p, "detect", "build", None)
     ELSE End(p, "error")
  /\ UNCHANGED <<diskVars, code, clients, keys>>

\* DeviceSessionStrategyBuilder::build resolves the workspace anew ...
Build(p) ==
  /\ at[p] = "build"
  /\ IF Selected
     THEN Go(p, "open", [job[p] EXCEPT !.ws = current])
     ELSE End(p, "error")
  /\ UNCHANGED <<diskVars, code, clients, started, keys>>

\* ... and loads the token of that one.
Open(p) ==
  LET w == job[p].ws IN
  /\ at[p] = "open"
  /\ IF file[w]["auth"] = None
     THEN End(p, "error")
     ELSE Succeed(p, file[w]["auth"])
  /\ UNCHANGED <<diskVars, code, clients, started, keys>>

-----------------------------------------------------------------------------
(* The environment.                                                        *)

\* A file cannot be written or read, and the error is returned.
IoFails(p) ==
  /\ at[p] \in {"mkdir", "select", "write", "move", "load", "identity", "mint",
                "build", "open"}
  /\ End(p, "error")
  /\ UNCHANGED <<diskVars, code, clients, started, keys>>

Crash(p) ==
  /\ at[p] # "idle"
  /\ End(p, "died")
  /\ code' = [code EXCEPT ![p] = NoCode]
  /\ UNCHANGED <<diskVars, clients, started, keys>>

Less(n) == IF n = 0 THEN 0 ELSE n - 1

Tick ==
  /\ \E p \in Procs : job[p].nap > 0 \/ job[p].left > 0
  /\ job' = [p \in Procs |->
       IF at[p] \notin {"polling", "asked", "napping"} THEN job[p]
       ELSE [job[p] EXCEPT !.nap = Less(job[p].nap), !.left = Less(job[p].left),
                           !.since = IF job[p].nap > 0 THEN job[p].since + 1
                                                       ELSE job[p].since]]
  /\ result' = None
  /\ UNCHANGED <<diskVars, at, code, clients, started, keys>>

Step(p) ==
  \/ Poll(p) \/ Ask(p) \/ Pending(p) \/ Wake(p) \/ Refused(p) \/ Granted(p)
  \/ MakeDir(p) \/ Truncate(p) \/ WriteCurrent(p) \/ SaveToken(p)
  \/ Look(p) \/ Move(p)
  \/ LoadToken(p) \/ Identity(p) \/ Mint(p) \/ CreateClient(p) \/ SaveKey(p)
  \/ Build(p) \/ Open(p)

Next ==
  \/ \E p \in Procs :
       \/ Begin(p) \/ SetCurrent(p) \/ ClearCurrent(p) \/ Migrate(p) \/ Bind(p) \/ Detect(p)
       \/ Step(p) \/ Decide(p) \/ IoFails(p) \/ Crash(p)
  \/ Tick

Spec == Init /\ [][Next]_vars

\* A process that can go on does, and time passes; the user need not decide.
LiveSpec == Spec /\ WF_vars(Tick \/ \E p \in Procs : Step(p))

-----------------------------------------------------------------------------
(* Properties.                                                             *)

\* "polling at a server-controlled interval": a poll is not repeated before
\* the interval the server has asked for with its slow_down answers, all of
\* them together, has passed since the answer to the one before
\* (poll_for_token).
SlowDownHonoured ==
  [][\A p \in Procs : at[p] = "polling" /\ at'[p] = "asked" => job[p].since >= job[p].asked]_vars

\* Every command ends: a login whose user never decides, and whose server
\* never says that the code has expired, gives up by its own deadline.
TasksEnd == (\E p \in Procs : at[p] # "idle") ~> (\A p \in Procs : at[p] = "idle")

\* Whatever process switches the current workspace while others are under way
\* or after they have died, a token and a client key are those of the workspace
\* in whose directory they are kept (poll_for_token, bind_client_device).
OwnDirectory ==
  \A w \in Workspaces, f \in Files : file[w][f] # None => file[w][f].ws = w

\* current_workspace names a workspace only when its directory exists, also
\* after a crash between any two file operations (init_workspace,
\* set_current_workspace, migrate_to_workspace).
CurrentHasDirectory == current \in Workspaces => current \in dirs

\* ZeroKMS hands out a client's key once.  One that has reached a file is not
\* lost: not by binding again, by migrating, or by both at a time
\* (bind_client_device, migrate_to_workspace).
KeysKept ==
  keys \subseteq {None, root["key"]} \cup {file[w]["key"] : w \in Workspaces}

\* A login that reports success has left a token of that workspace in its
\* directory; a bind that does has left a key there, unless ZeroKMS has answered
\* that a client exists; and a session has the token of the workspace whose
\* directory it will save to (poll_for_token, bind_client_device,
\* build_from_workspace_store).
OkIsOnDisk ==
  [][result' # None =>
       LET p == result'.by
           j == job[p] IN
       /\ j.task = "login" => file'[j.ws]["auth"] = j.token
       /\ j.task = "bind" =>
            \/ file'[j.ws]["key"] # None
            \/ at[p] = "create" /\ j.token.ws \in clients
       /\ j.task = "detect" => result'.token.ws = j.ws]_vars

\* The directory is consistent whatever was interrupted: what a workspace's
\* directory holds is that workspace's, and the selected one has a directory.
DirectoryConsistent == TypeOK /\ OwnDirectory /\ CurrentHasDirectory
=============================================================================
