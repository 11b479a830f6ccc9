-------------------------- MODULE DeviceLoginProofs --------------------------
(***************************************************************************)
(* What the commands that share a profile directory leave in it, for any   *)
(* number of processes, workspaces and commands, in any interleaving and   *)
(* with a crash after any file operation.                                  *)
(***************************************************************************)
EXTENDS DeviceLogin, TLAPS

-----------------------------------------------------------------------------
(* The inductive invariant.                                                *)

Coded == {"shown", "polling", "asked", "napping"}   \* has a device code
Dated == {"polling", "asked", "napping"}            \* in poll_for_token's loop
Inside == {"select", "write", "look", "move"}       \* its workspace's directory exists
Binding == {"identity", "mint", "create", "savekey"}

Labels == Coded \cup Inside \cup Binding \cup {"idle", "mkdir", "save", "load", "build", "open"}
Tasks  == {"login", "switch", "migrate", "bind", "detect"}

Job == [task : Tasks \cup {"none"}, ws : Workspaces \cup {None}, token : Contents \cup {None},
        file : Files \cup {None}, interval : Nat, asked : Nat, nap : Nat,
        left : 0..ExpiresIn, since : Nat]
Code == [st : {"none", "pending", "granted"}, ws : Workspaces \cup {None}]

\* Which command is where, and what it has by then.
Command(a, j) ==
  /\ a = "idle" => j = NoJob
  /\ a # "idle" => j.task \in Tasks
  /\ a \in Coded \cup {"save"} => j.task = "login"
  /\ a = "mkdir" => j.task \in {"login", "migrate"}
  /\ a \in {"select", "write"} => j.task \in {"login", "switch", "migrate"}
  /\ a \in {"look", "move"} => j.task = "migrate" /\ j.file \in Files
  /\ a \in Binding \cup {"load"} => j.task = "bind"
  /\ a \in {"build", "open"} => j.task = "detect"
  /\ a \in Labels \ (Coded \cup {"idle", "build"}) => j.ws \in Workspaces
  /\ j.task = "migrate" => j.ws = Older
  /\ a \notin Coded /\ j.task = "login" => j.token = Content(j.ws, "here")
  /\ a \in Binding => j.token \in Contents /\ j.token.ws = j.ws

\* The interval is the one the server has asked for; what is slept of it, and
\* what is still to be slept, make up the whole of it.
Waits(a, j) ==
  /\ a \in Dated => j.interval = j.asked /\ j.interval > 0
  /\ a = "polling" => j.since = j.asked
  /\ a = "asked" => j.since = 0
  /\ a = "napping" => j.nap + j.since = j.asked
  /\ a # "napping" => j.nap = 0

\* A code is there while it is polled for, and a granted one has its workspace.
Codes(a, c) ==
  /\ a \notin Coded => c = NoCode
  /\ a \in Coded => c.st \in {"pending", "granted"}
  /\ c.st = "granted" => c.ws \in Workspaces

LocalOk(a, j, c) ==
  /\ a \in Labels /\ j \in Job /\ c \in Code
  /\ Command(a, j) /\ Waits(a, j) /\ Codes(a, c)

Locals ==
  /\ at \in [Procs -> Labels] /\ job \in [Procs -> Job] /\ code \in [Procs -> Code]
  /\ \A p \in Procs : LocalOk(at[p], job[p], code[p])

\* What is on disk.  The flat files are Older's; a key of a workspace is in one
\* place at most, and then ZeroKMS has its client.
DiskOk ==
  /\ current \in Workspaces \cup {None, Torn} /\ dirs \subseteq Workspaces
  /\ file \in [Workspaces -> [Files -> Contents \cup {None}]]
  /\ root \in [Files -> Contents \cup {None}]
  /\ device \in BOOLEAN /\ clients \subseteq Workspaces
  /\ \A w \in Workspaces, f \in Files : file[w][f] # None => w \in dirs
  /\ OwnDirectory /\ CurrentHasDirectory /\ KeysKept
  /\ \A f \in Files : root[f] # None => root[f].ws = Older
  /\ root["key"] # None => Older \in clients /\ file[Older]["key"] = None
  /\ \A w \in Workspaces : file[w]["key"] # None => w \in clients

\* A process that is about to save a key is the only one, and there is no other
\* key of that workspace.
Alone(p) ==
  at[p] = "savekey" =>
    /\ job[p].ws \in clients /\ file[job[p].ws]["key"] = None
    /\ job[p].ws = Older => root["key"] = None
    /\ \A q \in Procs \ {p} : at[q] = "savekey" => job[q].ws # job[p].ws

Placed(p) == (at[p] \in Inside => job[p].ws \in dirs) /\ Alone(p)

LoginInv == Locals /\ DiskOk /\ started \in 0..MaxTasks /\ \A p \in Procs : Placed(p)

-----------------------------------------------------------------------------
(* One process moves.                                                      *)

\* Process p is at a, with job j and code c; the others are where they were.
Moves(p, a, j, c) ==
  /\ at' = [at EXCEPT ![p] = a] /\ job' = [job EXCEPT ![p] = j]
  /\ code' = [code EXCEPT ![p] = c]

\* Between commands a process holds nothing.
LEMMA Resting ==
  /\ NoJob \in Job /\ NoJob.task = "none" /\ NoJob.ws = None /\ NoJob.token = None
  /\ NoJob.file = None /\ NoJob.interval = 0 /\ NoJob.asked = 0 /\ NoJob.nap = 0
  /\ NoJob.left = 0 /\ NoJob.since = 0
  /\ NoCode \in Code /\ NoCode.st = "none" /\ NoCode.ws = None
<1>1. 0 \in 0..ExpiresIn
  BY DeviceLoginAssumption
<1> QED
  BY <1>1, Zenon DEF NoJob, NoCode, Job, Code

\* A command's first record.
LEMMA Started ==
  ASSUME NEW task \in Tasks, NEW w \in Workspaces \cup {None}
  PROVE  LET j == NewJob(task, w) IN
         /\ j \in Job /\ j.task = task /\ j.ws = w /\ j.token = None /\ j.file = None
         /\ j.interval = 0 /\ j.asked = 0 /\ j.nap = 0 /\ j.left = 0 /\ j.since = 0
<1>1. NoJob \in Job
  BY Resting
<1>2. NoJob = [task |-> "none", ws |-> None, token |-> None, file |-> None,
               interval |-> 0, asked |-> 0, nap |-> 0, left |-> 0, since |-> 0]
  BY DEF NoJob
<1> QED
  BY <1>1, <1>2, ZenonT(60) DEF Job, NewJob

LEMMA IdleOk == LocalOk("idle", NoJob, NoCode)
  BY Resting DEF LocalOk, Command, Waits, Codes, Labels, Coded, Dated, Inside, Binding, Tasks

\* What LoginInv says of one process.
LEMMA Local ==
  ASSUME LoginInv, NEW p \in Procs
  PROVE  /\ at[p] \in Labels /\ job[p] \in Job /\ code[p] \in Code
         /\ Command(at[p], job[p]) /\ Waits(at[p], job[p]) /\ Codes(at[p], code[p])
         /\ code = [code EXCEPT ![p] = code[p]]
  BY DEF LoginInv, Locals, LocalOk

LEMMA LocalStep ==
  ASSUME LoginInv, NEW p \in Procs, NEW a, NEW j, NEW c, Moves(p, a, j, c), LocalOk(a, j, c)
  PROVE  /\ Locals' /\ at'[p] = a /\ job'[p] = j
         /\ \A q \in Procs \ {p} : at'[q] = at[q] /\ job'[q] = job[q]
<1>1. /\ at \in [Procs -> Labels] /\ job \in [Procs -> Job] /\ code \in [Procs -> Code]
      /\ \A q \in Procs : LocalOk(at[q], job[q], code[q])
  BY DEF LoginInv, Locals
<1>2. a \in Labels /\ j \in Job /\ c \in Code
  BY DEF LocalOk
<1>3. /\ at' \in [Procs -> Labels] /\ job' \in [Procs -> Job] /\ code' \in [Procs -> Code]
      /\ at'[p] = a /\ job'[p] = j /\ code'[p] = c
      /\ \A q \in Procs \ {p} : at'[q] = at[q] /\ job'[q] = job[q] /\ code'[q] = code[q]
  BY <1>1, <1>2 DEF Moves
<1>4. \A q \in Procs : LocalOk(at'[q], job'[q], code'[q])
  BY <1>1, <1>3
<1>5. Locals'
  BY <1>3, <1>4 DEF Locals
<1> QED
  BY <1>3, <1>5

\* A step that leaves the client keys where they are, and takes no directory or
\* client away, displaces nobody.
LEMMA PlacedStep ==
  ASSUME LoginInv, NEW p \in Procs, NEW a, NEW j, NEW c, Moves(p, a, j, c), LocalOk(a, j, c),
         a # "savekey", a \in Inside => j.ws \in dirs',
         dirs \subseteq dirs', clients \subseteq clients',
         \A w \in Workspaces : file'[w]["key"] = file[w]["key"],
         root["key"] = None => root'["key"] = None
  PROVE  Locals' /\ \A q \in Procs : Placed(q)'
<1>1. /\ Locals' /\ at'[p] = a /\ job'[p] = j
      /\ \A q \in Procs \ {p} : at'[q] = at[q] /\ job'[q] = job[q]
  BY LocalStep
<1>2. Placed(p)'
  BY <1>1 DEF Placed, Alone
<1>3. ASSUME NEW q \in Procs \ {p} PROVE Placed(q)'
  <2>1. at'[q] = at[q] /\ job'[q] = job[q] /\ Placed(q)
    BY <1>1 DEF LoginInv
  <2>2. at[q] = "savekey" => job[q].ws \in Workspaces
    BY Local DEF Command, Labels, Binding, Coded
  <2>3. at'[q] \in Inside => job'[q].ws \in dirs'
    BY <2>1, Zenon DEF Placed
  <2>4. Alone(q)'
    BY <1>1, <2>1, <2>2 DEF Placed, Alone
  <2> QED
    BY <2>3, <2>4 DEF Placed
<1> QED
  BY <1>1, <1>2, <1>3

\* A step that changes nothing on disk.
LEMMA QuietStep ==
  ASSUME LoginInv, NEW p \in Procs, NEW a, NEW j, NEW c, Moves(p, a, j, c), LocalOk(a, j, c),
         a # "savekey", a \in Inside => j.ws \in dirs, started' \in 0..MaxTasks,
         UNCHANGED <<diskVars, keys>>, clients \subseteq clients', clients' \subseteq Workspaces
  PROVE  LoginInv'
<1>1. UNCHANGED <<current, dirs, file, root, device, keys>>
  BY DEF diskVars
<1>2. Locals' /\ \A q \in Procs : Placed(q)'
  BY <1>1, PlacedStep
<1>3. DiskOk'
  BY <1>1 DEF LoginInv, DiskOk, OwnDirectory, CurrentHasDirectory, KeysKept
<1> QED
  BY <1>2, <1>3 DEF LoginInv

-----------------------------------------------------------------------------
(* Steps that leave the disk alone.                                        *)

Idles(p) == at' = [at EXCEPT ![p] = "idle"] /\ job' = [job EXCEPT ![p] = NoJob]

LEMMA Ends ==
  ASSUME NEW p, NEW how, End(p, how)
  PROVE  Idles(p)
  BY DEF End, Go, Succeed, Idles

\* Every way for a command to end: its code, if it has one, goes with it.
LEMMA IdleMoves ==
  ASSUME LoginInv, NEW p \in Procs, Idles(p),
         code' = [code EXCEPT ![p] = NoCode] \/ (UNCHANGED code /\ at[p] \notin Coded)
  PROVE  Moves(p, "idle", NoJob, NoCode) /\ LocalOk("idle", NoJob, NoCode)
<1>1. at[p] \notin Coded => code[p] = NoCode
  BY Local DEF Codes
<1>2. code' = [code EXCEPT ![p] = NoCode]
  BY <1>1, Local
<1> QED
  BY <1>2, IdleOk DEF Moves, Idles

LEMMA EndStep ==
  ASSUME LoginInv, NEW p \in Procs, Idles(p),
         code' = [code EXCEPT ![p] = NoCode] \/ (UNCHANGED code /\ at[p] \notin Coded),
         started' \in 0..MaxTasks, UNCHANGED <<diskVars, keys>>,
         clients \subseteq clients', clients' \subseteq Workspaces
  PROVE  LoginInv'
  BY IdleMoves, QuietStep DEF Inside

\* Some facts that the actions below share.
LEMMA Common ==
  ASSUME LoginInv
  PROVE  /\ started \in 0..MaxTasks /\ clients \subseteq Workspaces
         /\ MaxTasks \in Nat /\ Older \in Workspaces
         /\ started < MaxTasks => started + 1 \in 0..MaxTasks
  BY DeviceLoginAssumption DEF LoginInv, DiskOk

\* poll_for_token, up to its answer.
LEMMA PollSteps ==
  ASSUME LoginInv, NEW p \in Procs,
         Poll(p) \/ Ask(p) \/ Pending(p) \/ Wake(p) \/ Refused(p)
  PROVE  LoginInv'
<1> DEFINE k == job[p]
<1>0. /\ at[p] \in Labels /\ k \in Job /\ code[p] \in Code /\ Command(at[p], k)
      /\ Waits(at[p], k) /\ Codes(at[p], code[p]) /\ code = [code EXCEPT ![p] = code[p]]
  BY Local
<1>1. /\ k.interval \in Nat /\ k.asked \in Nat /\ k.nap \in Nat /\ k.left \in 0..ExpiresIn
      /\ k.since \in Nat /\ ExpiresIn \in Nat
  BY <1>0, DeviceLoginAssumption DEF Job
<1>2. started \in 0..MaxTasks /\ clients \subseteq Workspaces
  BY Common
<1> HIDE DEF k
<1>3. ASSUME NEW a \in Dated, NEW j \in Job, j.task = k.task, at[p] \in Coded, Waits(a, j),
             at' = [at EXCEPT ![p] = a], job' = [job EXCEPT ![p] = j],
             UNCHANGED <<diskVars, code, clients, started, keys>>
      PROVE  LoginInv'
  <2>1. Moves(p, a, j, code[p])
    BY <1>0, <1>3 DEF Moves
  <2>2. Command(a, j)
    BY <1>0, <1>3 DEF Command, Dated, Coded, Inside, Binding, Tasks
  <2>3. Codes(a, code[p])
    BY <1>0, <1>3 DEF Codes, Dated, Coded
  <2>4. a \in Labels /\ a \notin Inside /\ a # "savekey"
    BY <1>3 DEF Dated, Coded, Labels, Inside
  <2>5. LocalOk(a, j, code[p])
    BY <1>0, <1>3, <2>2, <2>3, <2>4 DEF LocalOk
  <2> QED
    BY <1>2, <1>3, <2>1, <2>4, <2>5, QuietStep
<1>4. CASE Poll(p)
  <2>1. PICK j : j = [k EXCEPT !.interval = 1, !.asked = 1, !.left = ExpiresIn, !.since = 1]
    OBVIOUS
  <2>2. /\ j \in Job /\ j.task = k.task /\ j.interval = 1 /\ j.asked = 1 /\ j.since = 1
        /\ j.nap = k.nap
    <3>1. ExpiresIn \in 0..ExpiresIn
      BY <1>1
    <3> QED
      BY <1>0, <2>1, <3>1, Zenon DEF Job
  <2>3. /\ at[p] = "shown" /\ at' = [at EXCEPT ![p] = "polling"] /\ job' = [job EXCEPT ![p] = j]
        /\ UNCHANGED <<diskVars, code, clients, started, keys>>
    BY <1>4, <2>1 DEF Poll, Go, k
  <2>4. Waits("polling", j)
    BY <1>0, <2>2, <2>3 DEF Waits, Dated
  <2> QED
    BY <1>3, <2>2, <2>3, <2>4, Zenon DEF Dated, Coded
<1>5. CASE Ask(p)
  <2>1. CASE k.left = 0
    BY <1>2, <1>5, <2>1, Ends, EndStep DEF Ask, k
  <2>2. CASE k.left # 0
    <3>1. PICK j : j = [k EXCEPT !.since = 0]
      BY Zenon
    <3>2. /\ j \in Job /\ j.task = k.task /\ j.interval = k.interval /\ j.asked = k.asked
          /\ j.nap = k.nap /\ j.since = 0
      BY <1>0, <3>1 DEF Job
    <3>3. /\ at[p] = "polling" /\ at' = [at EXCEPT ![p] = "asked"]
          /\ job' = [job EXCEPT ![p] = j]
          /\ UNCHANGED <<diskVars, code, clients, started, keys>>
      BY <1>5, <2>2, <3>1 DEF Ask, Go, k
    <3>4. Waits("asked", j)
      BY <1>0, <3>2, <3>3 DEF Waits, Dated
    <3> QED
      BY <1>3, <3>2, <3>3, <3>4, Zenon DEF Dated, Coded
  <2> QED
    BY <2>1, <2>2
<1>6. CASE Pending(p)
  <2>1. at[p] = "asked" /\ UNCHANGED <<diskVars, code, clients, started, keys>>
    BY <1>6, Zenon DEF Pending
  <2>2. k.interval = k.asked /\ k.interval > 0 /\ k.nap = 0
    BY <1>0, <2>1 DEF Waits, Dated
  <2>3. PICK slow \in BOOLEAN :
          Go(p, "napping", [k EXCEPT !.interval = Later(k, slow), !.nap = Later(k, slow),
                                     !.asked = IF slow THEN k.asked + 1 ELSE k.asked])
    BY <1>6, Zenon DEF Pending, k
  <2>4. PICK i \in Nat : i = Later(k, slow)
    BY <1>1 DEF Later
  <2>5. PICK n \in Nat : n = IF slow THEN k.asked + 1 ELSE k.asked
    BY <1>1
  <2>6. i = n /\ i > 0
    BY <1>1, <2>2, <2>4, <2>5 DEF Later
  <2>7. PICK j : j = [k EXCEPT !.interval = i, !.nap = i, !.asked = n]
    OBVIOUS
  <2>8. /\ at' = [at EXCEPT ![p] = "napping"] /\ job' = [job EXCEPT ![p] = j]
    BY <2>3, <2>4, <2>5, <2>7 DEF Go
  <2>9. j \in Job /\ j.task = k.task /\ j.interval = i /\ j.asked = n /\ j.nap = i
        /\ j.since = k.since
    BY <1>0, <2>7, Zenon DEF Job
  <2>10. k.since = 0
    BY <1>0, <2>1 DEF Waits
  <2>11. Waits("napping", j)
    BY <2>6, <2>9, <2>10 DEF Waits, Dated
  <2> QED
    BY <1>3, <2>1, <2>8, <2>9, <2>11, Zenon DEF Dated, Coded
<1>7. CASE Wake(p)
  <2>1. /\ at[p] = "napping" /\ k.nap = 0 /\ at' = [at EXCEPT ![p] = "polling"]
        /\ job' = [job EXCEPT ![p] = k]
        /\ UNCHANGED <<diskVars, code, clients, started, keys>>
    BY <1>7 DEF Wake, Go, k
  <2>2. Waits("polling", k)
    BY <1>0, <1>1, <2>1 DEF Waits, Dated
  <2> QED
    BY <1>0, <1>3, <2>1, <2>2, Zenon DEF Dated, Coded
<1>8. CASE Refused(p)
  BY <1>2, <1>8, Ends, EndStep, Zenon DEF Refused
<1> QED
  BY <1>4, <1>5, <1>6, <1>7, <1>8

\* A command begins, or ends at once.
LEMMA BeginSteps ==
  ASSUME LoginInv, NEW p \in Procs,
         Begin(p) \/ SetCurrent(p) \/ Migrate(p) \/ Bind(p) \/ Detect(p)
  PROVE  LoginInv'
<1>0. /\ at[p] = "idle" /\ started' \in 0..MaxTasks /\ UNCHANGED <<diskVars, clients, keys>>
  BY Common DEF Begins, Begin, SetCurrent, Migrate, Bind, Detect
<1>1. /\ clients \subseteq Workspaces /\ Older \in Workspaces /\ at[p] \notin Coded
      /\ code[p] = NoCode /\ code = [code EXCEPT ![p] = code[p]]
  BY <1>0, Common, Local DEF Coded, Codes
<1>2. ASSUME NEW task \in Tasks, NEW a \in Labels, NEW w \in Workspaces \cup {None},
             Start(p, task, a, w), NEW c \in Code, code' = [code EXCEPT ![p] = c],
             Codes(a, c), a \in Inside => w \in dirs, a \notin Binding,
             a # "idle", a \notin Dated,
             Command(a, NewJob(task, w))
      PROVE  LoginInv'
  <2>1. PICK j : j = NewJob(task, w)
    OBVIOUS
  <2>2. /\ j \in Job /\ j.task = task /\ j.ws = w /\ j.interval = 0 /\ j.asked = 0
        /\ j.nap = 0 /\ j.since = 0
    BY <2>1, Started, ZenonT(60)
  <2>3. Moves(p, a, j, c)
    BY <1>2, <2>1 DEF Start, Go, Moves
  <2>4. Waits(a, j)
    BY <1>2, <2>2 DEF Waits, Dated
  <2>5. LocalOk(a, j, c)
    BY <1>2, <2>1, <2>2, <2>4 DEF LocalOk
  <2>6. a # "savekey"
    BY <1>2 DEF Binding
  <2> QED
    BY <1>0, <1>1, <1>2, <2>2, <2>3, <2>5, <2>6, QuietStep
<1>3. ASSUME NEW how, End(p, how), UNCHANGED code PROVE LoginInv'
  BY <1>0, <1>1, <1>3, Ends, EndStep
<1>4. \A task \in Tasks, w \in Workspaces \cup {None} :
        /\ NewJob(task, w).task = task /\ NewJob(task, w).ws = w
        /\ NewJob(task, w).token = None /\ NewJob(task, w).file = None
  BY Started
<1>5. CASE Begin(p)
  <2>1. CASE Start(p, "login", "shown", None)
             /\ code' = [code EXCEPT ![p] = [st |-> "pending", ws |-> None]]
    <3>1. PICK c : c = [st |-> "pending", ws |-> None]
      BY Zenon
    <3>2. c \in Code /\ c.st = "pending"
      BY <3>1 DEF Code
    <3>3. Codes("shown", c)
      BY <3>2 DEF Codes, Coded
    <3>4. "login" \in Tasks /\ "shown" \in Labels \ (Inside \cup Binding \cup Dated \cup {"idle"})
      BY DEF Tasks, Labels, Inside, Binding, Coded, Dated
    <3>5. Command("shown", NewJob("login", None))
      BY <1>4, <3>4 DEF Command, Labels, Inside, Binding, Coded
    <3> QED
      BY <1>2, <2>1, <3>1, <3>2, <3>3, <3>4, <3>5, Zenon
  <2> QED
    BY <1>3, <1>5, <2>1 DEF Begin
<1>6. Codes("select", NoCode) /\ Codes("mkdir", NoCode) /\ Codes("load", NoCode)
      /\ Codes("build", NoCode) /\ NoCode \in Code
  BY Resting DEF Codes, Coded
<1>7. CASE SetCurrent(p)
  <2>1. ASSUME NEW w \in Workspaces, w \in dirs, Start(p, "switch", "select", w) PROVE LoginInv'
    <3>1. "switch" \in Tasks /\ "select" \in Labels \ (Binding \cup Dated \cup {"idle"})
      BY SMTT(30) DEF Tasks, Labels, Inside, Binding, Coded, Dated
    <3>2. Command("select", NewJob("switch", w))
      BY <1>4, <3>1 DEF Command, Labels, Inside, Binding, Coded
    <3> QED
      BY <1>1, <1>2, <1>6, <1>7, <2>1, <3>1, <3>2 DEF SetCurrent
  <2> QED
    BY <1>3, <1>7, <2>1 DEF SetCurrent
<1>8. CASE Migrate(p)
  <2>1. "migrate" \in Tasks /\ "mkdir" \in Labels \ (Inside \cup Binding \cup Dated \cup {"idle"})
    BY DEF Tasks, Labels, Inside, Binding, Coded, Dated
  <2>2. Command("mkdir", NewJob("migrate", Older))
    BY <1>1, <1>4, <2>1 DEF Command, Labels, Inside, Binding, Coded
  <2> QED
    BY <1>1, <1>2, <1>6, <1>8, <2>1, <2>2 DEF Migrate
<1>9. CASE Bind(p)
  <2>1. CASE current \in Workspaces /\ Start(p, "bind", "load", current)
    <3>1. "bind" \in Tasks /\ "load" \in Labels \ (Inside \cup Binding \cup Dated \cup {"idle"})
      BY DEF Tasks, Labels, Inside, Binding, Coded, Dated
    <3>2. Command("load", NewJob("bind", current))
      BY <1>4, <2>1, <3>1 DEF Command, Labels, Inside, Binding, Coded
    <3> QED
      BY <1>1, <1>2, <1>6, <1>9, <2>1, <3>1, <3>2 DEF Bind
  <2> QED
    BY <1>3, <1>9, <2>1, Zenon DEF Bind, Selected
<1>10. CASE Detect(p)
  <2>1. CASE Start(p, "detect", "build", None)
    <3>1. "detect" \in Tasks /\ "build" \in Labels \ (Inside \cup Binding \cup Dated \cup {"idle"})
      BY DEF Tasks, Labels, Inside, Binding, Coded, Dated
    <3>2. Command("build", NewJob("detect", None))
      BY <1>4, <2>1, <3>1 DEF Command, Labels, Inside, Binding, Coded
    <3> QED
      BY <1>1, <1>2, <1>6, <1>10, <2>1, <3>1, <3>2 DEF Detect
  <2> QED
    BY <1>3, <1>10, <2>1, Zenon DEF Detect
<1> QED
  BY <1>5, <1>7, <1>8, <1>9, <1>10

\* A command that has no code goes on to its next step.
LEMMA Continues ==
  ASSUME LoginInv, NEW p \in Procs, at[p] \notin Coded,
         NEW a \in Labels \ (Coded \cup {"idle"}), NEW j \in Job, j.nap = 0, Command(a, j),
         at' = [at EXCEPT ![p] = a], job' = [job EXCEPT ![p] = j], UNCHANGED code
  PROVE  Moves(p, a, j, NoCode) /\ LocalOk(a, j, NoCode)
<1>1. code[p] = NoCode /\ code = [code EXCEPT ![p] = code[p]]
  BY Local, Zenon DEF Codes
<1>2. Waits(a, j)
  BY DEF Waits, Dated, Coded
<1>3. Codes(a, NoCode) /\ NoCode \in Code
  BY Resting DEF Codes
<1> QED
  BY <1>1, <1>2, <1>3 DEF Moves, LocalOk

LEMMA ContentFacts ==
  ASSUME NEW w \in Workspaces, NEW from \in {"older", "here"}
  PROVE  /\ Content(w, from) \in Contents /\ Content(w, from).ws = w
         /\ Content(w, from) # None
  BY DeviceLoginAssumption DEF Content, Contents

LEMMA ContentsFacts ==
  /\ None \notin Contents /\ \A x \in Contents : x.ws \in Workspaces
  /\ \A x : x \in Contents \cup {None} /\ x # None => x \in Contents
  BY DeviceLoginAssumption DEF Contents

\* The user authorises the device; the token comes.
LEMMA GrantSteps ==
  ASSUME LoginInv, NEW p \in Procs, Decide(p) \/ Granted(p)
  PROVE  LoginInv'
<1>0. /\ at[p] \in Labels /\ job[p] \in Job /\ code[p] \in Code /\ Command(at[p], job[p])
      /\ Waits(at[p], job[p]) /\ Codes(at[p], code[p])
      /\ at = [at EXCEPT ![p] = at[p]] /\ job = [job EXCEPT ![p] = job[p]]
  BY Local DEF LoginInv, Locals
<1>1. started \in 0..MaxTasks /\ clients \subseteq Workspaces
  BY Common
<1>2. CASE Decide(p)
  <2>1. PICK w \in Workspaces : code' = [code EXCEPT ![p] = [st |-> "granted", ws |-> w]]
    BY <1>2, Zenon DEF Decide
  <2>2. PICK c : c = [st |-> "granted", ws |-> w]
    BY Zenon
  <2>3. c \in Code /\ c.st = "granted" /\ c.ws = w
    BY <2>2 DEF Code
  <2>4. at[p] \in Coded
    BY <1>0, <1>2, Resting DEF Decide, Codes
  <2>5. Codes(at[p], c)
    BY <2>3, <2>4 DEF Codes
  <2>6. Moves(p, at[p], job[p], c)
    BY <1>0, <1>2, <2>1, <2>2, Zenon DEF Moves, Decide
  <2>7. LocalOk(at[p], job[p], c)
    BY <1>0, <2>3, <2>5 DEF LocalOk
  <2>8. at[p] \notin Inside /\ at[p] # "savekey"
    BY <2>4 DEF Coded, Inside
  <2> QED
    BY <1>1, <1>2, <2>6, <2>7, <2>8, QuietStep DEF Decide
<1>3. CASE Granted(p)
  <2>1. PICK w \in Workspaces : w = code[p].ws
    BY <1>0, <1>3 DEF Granted, Codes
  <2>2. PICK t \in Contents : t = Content(w, "here")
    BY ContentFacts
  <2>3. PICK j : j = [NoJob EXCEPT !.task = "login", !.ws = w, !.token = t]
    OBVIOUS
  <2>4. NoJob \in Job /\ NoJob.nap = 0 /\ NoJob.file = None
    BY Resting
  <2>5. j \in Job /\ j.task = "login" /\ j.ws = w /\ j.token = t /\ j.nap = NoJob.nap
    BY <2>3, <2>4, ZenonT(60) DEF Job, Tasks
  <2>6. /\ at[p] = "asked" /\ at' = [at EXCEPT ![p] = "mkdir"] /\ job' = [job EXCEPT ![p] = j]
        /\ code' = [code EXCEPT ![p] = NoCode]
        /\ UNCHANGED <<diskVars, clients, started, keys>>
    BY <1>3, <2>1, <2>2, <2>3 DEF Granted, Go
  <2>7. Command("mkdir", j)
    BY <2>2, <2>5 DEF Command, Labels, Coded, Inside, Binding, Tasks
  <2>8. Waits("mkdir", j)
    BY <2>4, <2>5 DEF Waits, Dated
  <2>9. Codes("mkdir", NoCode) /\ NoCode \in Code
    BY Resting DEF Codes, Coded
  <2>10. "mkdir" \in Labels /\ "mkdir" \notin Inside
    BY DEF Labels, Inside
  <2>11. LocalOk("mkdir", j, NoCode) /\ Moves(p, "mkdir", j, NoCode)
    BY <2>5, <2>6, <2>7, <2>8, <2>9, <2>10 DEF LocalOk, Moves
  <2> QED
    BY <1>1, <2>6, <2>10, <2>11, QuietStep
<1> QED
  BY <1>2, <1>3

\* Looking before moving, loading a token, the identity, opening a session.
LEMMA ReadSteps ==
  ASSUME LoginInv, NEW p \in Procs,
         Look(p) \/ LoadToken(p) \/ Identity(p) \/ Build(p) \/ Open(p)
  PROVE  LoginInv'
<1> DEFINE k == job[p]
<1>0. /\ at[p] \in Labels /\ k \in Job /\ Command(at[p], k) /\ Waits(at[p], k)
  BY Local
<1>1. /\ started \in 0..MaxTasks /\ clients \subseteq Workspaces
      /\ UNCHANGED <<diskVars, code, clients, started, keys>>
  BY Common DEF Look, LoadToken, Identity, Build, Open
<1>2. /\ at[p] \in {"look", "load", "identity", "build", "open"} /\ at[p] \notin Coded
  BY DEF Look, LoadToken, Identity, Build, Open, Coded
<1>3. k.nap = 0
  BY <1>0, <1>2 DEF Waits
<1> HIDE DEF k
<1>4. ASSUME NEW a \in Labels \ (Coded \cup {"idle", "savekey"}), NEW j \in Job, j.nap = 0,
             Command(a, j), Go(p, a, j), a \in Inside => j.ws \in dirs
      PROVE  LoginInv'
  <2>1. Moves(p, a, j, NoCode) /\ LocalOk(a, j, NoCode)
    BY <1>1, <1>2, <1>4, Continues, Zenon DEF Go
  <2> QED
    BY <1>1, <1>4, <2>1, QuietStep
<1>5. ASSUME NEW how, End(p, how) PROVE LoginInv'
  BY <1>1, <1>2, <1>5, Ends, EndStep
<1>6. CASE Look(p)
  <2>1. at[p] = "look" /\ k.ws \in dirs
    BY <1>6, Zenon DEF Look, LoginInv, Placed, Inside, k
  <2>2. k.task = "migrate" /\ k.file \in Files /\ k.ws \in Workspaces /\ k.ws = Older
    BY <1>0, <2>1 DEF Command, Labels, Coded, Inside
  <2>3. CASE Go(p, "move", k)
    <3>1. "move" \in Labels \ (Coded \cup {"idle", "savekey"}) /\ Command("move", k)
      BY <2>2 DEF Command, Labels, Coded, Inside, Binding, Tasks
    <3> QED
      BY <1>0, <1>3, <1>4, <2>1, <2>3, <3>1, Zenon
  <2>4. CASE Go(p, Onward(k), Following(k))
    <3>1. /\ Following(k) \in Job /\ Following(k).task = k.task /\ Following(k).ws = k.ws
          /\ Following(k).nap = k.nap
          /\ Following(k).file = IF k.file = "auth" THEN "key" ELSE None
      BY <1>0, <2>2 DEF Following, Job, Files
    <3>2. Onward(k) \in Labels \ (Coded \cup {"idle", "savekey"})
      BY DEF Onward, Labels, Coded, Inside
    <3>3. Command(Onward(k), Following(k))
      BY <2>2, <3>1 DEF Onward, Command, Labels, Coded, Inside, Binding, Tasks, Files
    <3> QED
      BY <1>3, <1>4, <2>1, <2>4, <3>1, <3>2, <3>3, Zenon
  <2> QED
    BY <1>6, <2>3, <2>4, Zenon DEF Look, k
<1>7. CASE LoadToken(p)
  <2>1. at[p] = "load" /\ k.ws \in Workspaces /\ k.task = "bind"
    BY <1>0, <1>7 DEF LoadToken, Command, Labels, Coded, Inside, Binding
  <2>2. PICK t : t = file[k.ws]["auth"]
    OBVIOUS
  <2>3. t # None => t \in Contents /\ t.ws = k.ws
    BY <2>1, <2>2, ContentsFacts DEF LoginInv, DiskOk, OwnDirectory, Files
  <2>4. CASE t # None /\ Go(p, "identity", [k EXCEPT !.token = t])
    <3>1. PICK j : j = [k EXCEPT !.token = t]
      BY Zenon
    <3>2. j \in Job /\ j.task = k.task /\ j.ws = k.ws /\ j.token = t /\ j.nap = k.nap
      BY <1>0, <2>3, <2>4, <3>1 DEF Job
    <3>3. "identity" \in Labels \ (Coded \cup Inside \cup {"idle", "savekey"})
      BY DEF Labels, Coded, Inside, Binding
    <3>4. Command("identity", j)
      BY <2>1, <2>3, <2>4, <3>2 DEF Command, Labels, Coded, Inside, Binding, Tasks
    <3> QED
      BY <1>3, <1>4, <2>4, <3>1, <3>2, <3>3, <3>4, Zenon
  <2> QED
    BY <1>5, <1>7, <2>2, <2>4 DEF LoadToken, k
<1>8. CASE Identity(p)
  <2>1. PICK a \in {"create", "mint"} : a = IF device THEN "create" ELSE "mint"
    OBVIOUS
  <2>2. at[p] = "identity" /\ Go(p, a, k)
    BY <1>8, <2>1, Zenon DEF Identity, k
  <2>3. a \in Labels \ (Coded \cup Inside \cup {"idle", "savekey"})
    BY DEF Labels, Coded, Inside, Binding
  <2>4. Command(a, k)
    BY <1>0, <2>2, <2>3, Zenon DEF Command, Labels, Coded, Inside, Binding, Tasks
  <2> QED
    BY <1>0, <1>3, <1>4, <2>2, <2>3, <2>4
<1>9. CASE Build(p)
  <2>1. at[p] = "build" /\ k.task = "detect"
    BY <1>0, <1>9 DEF Build, Command
  <2>2. CASE current \in Workspaces /\ Go(p, "open", [k EXCEPT !.ws = current])
    <3>1. PICK j : j = [k EXCEPT !.ws = current]
      BY Zenon
    <3>2. j \in Job /\ j.task = k.task /\ j.ws = current /\ j.nap = k.nap
      BY <1>0, <2>2, <3>1 DEF Job
    <3>3. "open" \in Labels \ (Coded \cup Inside \cup {"idle", "savekey"})
      BY DEF Labels, Coded, Inside
    <3>4. Command("open", j)
      BY <2>1, <2>2, <3>2 DEF Command, Labels, Coded, Inside, Binding, Tasks
    <3> QED
      BY <1>3, <1>4, <2>2, <3>1, <3>2, <3>3, <3>4, Zenon
  <2> QED
    BY <1>5, <1>9, <2>2 DEF Build, Selected, k
<1>10. CASE Open(p)
  <2>1. Idles(p)
    BY <1>10, Ends, Zenon DEF Open, Succeed, Idles
  <2> QED
    BY <1>1, <1>2, <2>1, EndStep
<1> QED
  BY <1>6, <1>7, <1>8, <1>9, <1>10

\* An error, or the death of a process.
LEMMA FailSteps ==
  ASSUME LoginInv, NEW p \in Procs, IoFails(p) \/ Crash(p)
  PROVE  LoginInv'
<1>1. started \in 0..MaxTasks /\ clients \subseteq Workspaces
  BY Common
<1>2. CASE IoFails(p)
  BY <1>1, <1>2, Ends, EndStep DEF IoFails, Coded
<1>3. CASE Crash(p)
  BY <1>1, <1>3, Ends, EndStep, Zenon DEF Crash
<1> QED
  BY <1>2, <1>3

\* Time passes: what is slept is taken off what is still to be slept.
LEMMA TickStep ==
  ASSUME LoginInv, Tick
  PROVE  LoginInv'
<1>1. /\ UNCHANGED <<diskVars, at, code, clients, started, keys>>
      /\ job' = [p \in Procs |->
           IF at[p] \notin Dated THEN job[p]
           ELSE [job[p] EXCEPT !.nap = Less(job[p].nap), !.left = Less(job[p].left),
                               !.since = IF job[p].nap > 0 THEN job[p].since + 1
                                                           ELSE job[p].since]]
  BY Zenon DEF Tick, Dated
<1>2. UNCHANGED <<current, dirs, file, root, device>>
  BY <1>1, Zenon DEF diskVars
<1>3. ASSUME NEW p \in Procs
      PROVE  /\ LocalOk(at[p], job'[p], code[p])
             /\ at[p] \in Inside \cup {"savekey"} => job'[p] = job[p]
  <2> DEFINE k == job[p]
  <2>0. /\ at[p] \in Labels /\ k \in Job /\ code[p] \in Code /\ Command(at[p], k)
        /\ Waits(at[p], k) /\ Codes(at[p], code[p])
    BY Local
  <2>1. /\ k.interval \in Nat /\ k.asked \in Nat /\ k.nap \in Nat /\ k.left \in 0..ExpiresIn
        /\ k.since \in Nat
    BY <2>0 DEF Job
  <2>2. CASE at[p] \notin Dated
    BY <1>1, <2>0, <2>2, Zenon DEF LocalOk
  <2>3. CASE at[p] \in Dated
    <3>1. PICK n \in Nat : n = Less(k.nap)
      BY <2>1 DEF Less
    <3>2. PICK l \in 0..ExpiresIn : l = Less(k.left)
      BY <2>1, DeviceLoginAssumption DEF Less
    <3>3. PICK t \in Nat : t = IF k.nap > 0 THEN k.since + 1 ELSE k.since
      BY <2>1
    <3>4. job'[p] = [k EXCEPT !.nap = n, !.left = l, !.since = t]
      BY <1>1, <2>3, <3>1, <3>2, <3>3, Zenon
    <3>5. PICK j : j = job'[p]
      OBVIOUS
    <3> HIDE DEF k
    <3>6. /\ j \in Job /\ j.task = k.task /\ j.nap = n /\ j.since = t
          /\ j.interval = k.interval /\ j.asked = k.asked
      BY <2>0, <3>4, <3>5, ZenonT(60) DEF Job
    <3>7. n + t = k.nap + k.since /\ (k.nap = 0 => n = 0 /\ t = k.since)
      BY <2>1, <3>1, <3>3 DEF Less
    <3>8. Waits(at[p], j)
      BY <2>0, <2>1, <3>6, <3>7, Zenon DEF Waits, Dated
    <3>9. Command(at[p], j)
      BY <2>0, <2>3, <3>6, Zenon DEF Command, Dated, Coded, Inside, Binding, Tasks
    <3>10. at[p] \notin Inside \cup {"savekey"}
      BY <2>3 DEF Dated, Inside
    <3> QED
      BY <2>0, <3>5, <3>6, <3>8, <3>9, <3>10 DEF LocalOk
  <2> QED
    BY <2>2, <2>3
<1>4. Locals'
  <2>1. \A p \in Procs : job'[p] \in Job
    BY <1>3 DEF LocalOk
  <2>2. job' \in [Procs -> Job]
    BY <1>1, <2>1, Zenon
  <2> QED
    BY <1>1, <1>3, <2>2, Zenon DEF LoginInv, Locals
<1>5. ASSUME NEW p \in Procs PROVE Placed(p)'
  <2>1. Placed(p) /\ UNCHANGED <<at, dirs, clients, file, root>>
    BY <1>1, <1>2, Zenon DEF LoginInv
  <2>2. at[p] \in Inside => job'[p].ws \in dirs
    BY <1>3, <2>1, Zenon DEF Placed
  <2>3. CASE at[p] = "savekey"
    <3>1. job'[p] = job[p] /\ \A q \in Procs : at[q] = "savekey" => job'[q] = job[q]
      BY <1>3, <2>3, Zenon
    <3> QED
      BY <2>1, <2>2, <2>3, <3>1, Zenon DEF Placed, Alone
  <2> QED
    BY <2>1, <2>2, <2>3, Zenon DEF Placed, Alone
<1>6. DiskOk'
  BY <1>1, <1>2, ZenonT(60) DEF LoginInv, DiskOk, OwnDirectory, CurrentHasDirectory, KeysKept
<1> QED
  BY <1>1, <1>4, <1>5, <1>6, Zenon DEF LoginInv

-----------------------------------------------------------------------------
(* Steps that change the disk.                                             *)

\* The files are left alone: what is on disk stays in order when directories
\* and clients are only added and current_workspace names a directory.
LEMMA FilesStand ==
  ASSUME LoginInv, UNCHANGED <<file, root, keys>>,
         dirs \subseteq dirs', dirs' \subseteq Workspaces,
         clients \subseteq clients', clients' \subseteq Workspaces, device' \in BOOLEAN,
         current' \in Workspaces \cup {None, Torn}, current' \in Workspaces => current' \in dirs'
  PROVE  DiskOk'
<1>0. DiskOk
  BY Zenon DEF LoginInv
<1>1. OwnDirectory' /\ KeysKept'
  BY <1>0 DEF DiskOk, OwnDirectory, KeysKept
<1>2. CurrentHasDirectory'
  BY Zenon DEF CurrentHasDirectory
<1>3. /\ \A w \in Workspaces, f \in Files : file'[w][f] # None => w \in dirs'
      /\ \A w \in Workspaces : file'[w]["key"] # None => w \in clients'
      /\ root'["key"] # None => Older \in clients' /\ file'[Older]["key"] = None
      /\ \A f \in Files : root'[f] # None => root'[f].ws = Older
  BY <1>0, Zenon DEF DiskOk
<1>4. /\ file' \in [Workspaces -> [Files -> Contents \cup {None}]]
      /\ root' \in [Files -> Contents \cup {None}]
  BY <1>0, Zenon DEF DiskOk
<1> QED
  BY <1>1, <1>2, <1>3, <1>4, Zenon DEF DiskOk

\* What is known of the disk before a step.
LEMMA DiskTypes ==
  ASSUME LoginInv
  PROVE  /\ dirs \subseteq Workspaces /\ clients \subseteq Workspaces /\ device \in BOOLEAN
         /\ current \in Workspaces \cup {None, Torn} /\ (current \in Workspaces => current \in dirs)
  BY Zenon DEF LoginInv, DiskOk, CurrentHasDirectory

\* Directories are only added, current_workspace is rewritten.
LEMMA SelectSteps ==
  ASSUME LoginInv, NEW p \in Procs,
         MakeDir(p) \/ Truncate(p) \/ WriteCurrent(p) \/ Mint(p)
  PROVE  LoginInv'
<1> DEFINE k == job[p]
<1>0. /\ at[p] \in Labels /\ k \in Job /\ Command(at[p], k) /\ Waits(at[p], k)
  BY Local
<1>1. /\ started' \in 0..MaxTasks /\ clients' \subseteq Workspaces
      /\ UNCHANGED <<file, root, code, clients, keys>>
  BY Common DEF MakeDir, Truncate, WriteCurrent, Mint
<1>2. /\ at[p] \in {"mkdir", "select", "write", "mint"} /\ at[p] \notin Coded
  BY DEF MakeDir, Truncate, WriteCurrent, Mint, Coded
<1>3. k.nap = 0 /\ k.ws \in Workspaces
  BY <1>0, <1>2, SMTT(30) DEF Waits, Command, Labels, Coded, Inside, Binding
<1>4. at[p] \in Inside => k.ws \in dirs
  BY Zenon DEF LoginInv, Placed
<1> HIDE DEF k
<1>5. ASSUME NEW a \in Labels \ (Coded \cup {"idle", "savekey"}), NEW j \in Job, j.nap = 0,
             Command(a, j), Go(p, a, j), a \in Inside => j.ws \in dirs',
             dirs \subseteq dirs', DiskOk'
      PROVE  LoginInv'
  <2>1. Moves(p, a, j, NoCode) /\ LocalOk(a, j, NoCode)
    BY <1>1, <1>2, <1>5, Continues, Zenon DEF Go
  <2>2. Locals' /\ \A q \in Procs : Placed(q)'
    BY <1>1, <1>5, <2>1, PlacedStep, Zenon
  <2> QED
    BY <1>1, <1>5, <2>2 DEF LoginInv
<1>6. CASE MakeDir(p)
  <2>1. /\ at[p] = "mkdir" /\ dirs' = dirs \cup {k.ws} /\ UNCHANGED <<current, device>>
        /\ \/ k.task = "login" /\ Go(p, "select", k)
           \/ k.task # "login" /\ Go(p, "look", [k EXCEPT !.file = "auth"])
    BY <1>6 DEF MakeDir, k
  <2>2. k.task \in {"login", "migrate"} /\ k.ws \in dirs' /\ dirs \subseteq dirs'
    BY <1>0, <2>1 DEF Command
  <2>3. DiskOk'
    <3>1. dirs \subseteq dirs' /\ dirs' \subseteq Workspaces /\ UNCHANGED <<current, device>>
      BY <1>3, <2>1, DiskTypes
    <3> QED
      BY <1>1, <3>1, DiskTypes, FilesStand
  <2>4. CASE k.task = "login" /\ Go(p, "select", k)
    <3>1. "select" \in Labels \ (Coded \cup {"idle", "savekey"}) /\ Command("select", k)
      BY <1>0, <1>3, <2>1, <2>4 DEF Command, Labels, Coded, Inside, Binding, Tasks
    <3> QED
      BY <1>0, <1>3, <1>5, <2>2, <2>3, <2>4, <3>1
  <2>5. CASE k.task = "migrate" /\ Go(p, "look", [k EXCEPT !.file = "auth"])
    <3>1. PICK j : j = [k EXCEPT !.file = "auth"]
      BY Zenon
    <3>2. j \in Job /\ j.task = k.task /\ j.ws = k.ws /\ j.file = "auth" /\ j.nap = k.nap
      BY <1>0, <3>1 DEF Job, Files
    <3>3. "look" \in Labels \ (Coded \cup {"idle", "savekey"})
      BY DEF Labels, Coded, Inside
    <3>4. Command("look", j)
      BY <1>0, <1>3, <2>5, <3>2 DEF Command, Labels, Coded, Inside, Binding, Tasks, Files
    <3> QED
      BY <1>3, <1>5, <2>2, <2>3, <2>5, <3>1, <3>2, <3>3, <3>4, Zenon
  <2> QED
    BY <2>1, <2>2, <2>4, <2>5
<1>7. CASE Truncate(p)
  <2>1. /\ at[p] = "select" /\ current' = Torn /\ Go(p, "write", k) /\ UNCHANGED <<dirs, device>>
    BY <1>7, Zenon DEF Truncate, k
  <2>2. k.ws \in dirs
    BY <1>4, <2>1 DEF Inside
  <2>3. DiskOk'
    <3>1. current' \notin Workspaces
      BY <2>1, DeviceLoginAssumption, Zenon DEF Torn
    <3> QED
      BY <1>1, <2>1, <3>1, DiskTypes, FilesStand
  <2>4. "write" \in Labels \ (Coded \cup {"idle", "savekey"}) /\ Command("write", k)
    BY <1>0, <1>3, <2>1, Zenon DEF Command, Labels, Coded, Inside, Binding, Tasks
  <2> QED
    BY <1>0, <1>3, <1>5, <2>1, <2>2, <2>3, <2>4, SMTT(30)
<1>8. CASE WriteCurrent(p)
  <2>1. /\ at[p] = "write" /\ current' = k.ws /\ UNCHANGED <<dirs, device>>
        /\ (k.task = "login" /\ Go(p, "save", k)) \/ End(p, "ok")
    BY <1>8, Zenon DEF WriteCurrent, k
  <2>2. k.ws \in dirs
    BY <1>4, <2>1 DEF Inside
  <2>3. DiskOk'
    BY <1>1, <1>3, <2>1, <2>2, DiskTypes, FilesStand
  <2>4. CASE k.task = "login" /\ Go(p, "save", k)
    <3>1. "save" \in Labels \ (Coded \cup Inside \cup {"idle", "savekey"}) /\ Command("save", k)
      BY <1>0, <1>3, <2>1, <2>4, Zenon DEF Command, Labels, Coded, Inside, Binding, Tasks
    <3> QED
      BY <1>0, <1>3, <1>5, <2>1, <2>3, <2>4, <3>1
  <2>5. CASE End(p, "ok")
    <3>1. Moves(p, "idle", NoJob, NoCode) /\ LocalOk("idle", NoJob, NoCode)
      BY <1>1, <1>2, <2>5, Ends, IdleMoves
    <3>2. Locals' /\ \A q \in Procs : Placed(q)'
      BY <1>1, <2>1, <3>1, PlacedStep, Zenon DEF Inside
    <3> QED
      BY <1>1, <2>3, <3>2 DEF LoginInv
  <2> QED
    BY <2>1, <2>4, <2>5
<1>9. CASE Mint(p)
  <2>1. /\ at[p] = "mint" /\ device' = TRUE /\ Go(p, "create", k) /\ UNCHANGED <<current, dirs>>
    BY <1>9, Zenon DEF Mint, k
  <2>2. DiskOk'
    BY <1>1, <2>1, DiskTypes, FilesStand
  <2>3. "create" \in Labels \ (Coded \cup Inside \cup {"idle", "savekey"})
        /\ Command("create", k)
    BY <1>0, <1>3, <2>1, Zenon DEF Command, Labels, Coded, Inside, Binding, Tasks
  <2> QED
    BY <1>0, <1>3, <1>5, <2>1, <2>2, <2>3, SMTT(30)
<1> QED
  BY <1>6, <1>7, <1>8, <1>9

\* clear_current_workspace.
LEMMA ClearStep ==
  ASSUME LoginInv, NEW p \in Procs, ClearCurrent(p)
  PROVE  LoginInv'
<1>1. /\ at[p] = "idle" /\ started' \in 0..MaxTasks /\ current' = None /\ End(p, "ok")
      /\ UNCHANGED <<dirs, file, root, device, code, clients, keys>>
  BY Common DEF ClearCurrent, Begins
<1>2. Moves(p, "idle", NoJob, NoCode) /\ LocalOk("idle", NoJob, NoCode)
  BY <1>1, Ends, IdleMoves DEF Coded
<1>3. Locals' /\ \A q \in Procs : Placed(q)'
  BY <1>1, <1>2, PlacedStep, Zenon DEF Inside
<1>4. DiskOk'
  BY <1>1, DeviceLoginAssumption
     DEF LoginInv, DiskOk, OwnDirectory, CurrentHasDirectory, KeysKept
<1> QED
  BY <1>1, <1>3, <1>4 DEF LoginInv

\* One file of one workspace is replaced, and no other.
Written(w, f, c) == file' = [file EXCEPT ![w][f] = c]
Replaced(w, f, c) ==
  /\ file' \in [Workspaces -> [Files -> Contents \cup {None}]]
  /\ file'[w][f] = c
  /\ \A v \in Workspaces, g \in Files : v # w \/ g # f => file'[v][g] = file[v][g]

LEMMA FileFacts ==
  ASSUME LoginInv, NEW w \in Workspaces, NEW f \in Files, NEW c \in Contents \cup {None},
         Written(w, f, c)
  PROVE  Replaced(w, f, c)
<1>1. file \in [Workspaces -> [Files -> Contents \cup {None}]]
  BY DEF LoginInv, DiskOk
<1>2. PICK T : T = Contents \cup {None}
  BY Zenon
<1>3. file \in [Workspaces -> [Files -> T]] /\ c \in T
  BY <1>1, <1>2
<1>4. PICK d : d = [file[w] EXCEPT ![f] = c]
  BY Zenon
<1>5. d \in [Files -> T] /\ d[f] = c /\ \A g \in Files \ {f} : d[g] = file[w][g]
  BY <1>3, <1>4
<1>6. file' = [file EXCEPT ![w] = d]
  BY <1>3, <1>4 DEF Written
<1>7. /\ file' \in [Workspaces -> [Files -> T]] /\ file'[w] = d
      /\ \A v \in Workspaces \ {w} : file'[v] = file[v]
  BY <1>3, <1>5, <1>6
<1>8. ASSUME NEW v \in Workspaces, NEW g \in Files, v # w \/ g # f
      PROVE  file'[v][g] = file[v][g]
  <2>1. CASE v # w
    BY <1>7, <2>1
  <2>2. CASE v = w
    BY <1>5, <1>7, <1>8, <2>2
  <2> QED
    BY <2>1, <2>2
<1>9. file'[w][f] = c
  BY <1>5, <1>7
<1> QED
  BY <1>2, <1>7, <1>8, <1>9 DEF Replaced

\* write_to_path of a token, or of the first key of a workspace.
LEMMA SavedDisk ==
  ASSUME LoginInv, NEW w \in Workspaces, NEW f \in Files, NEW c \in Contents, c.ws = w,
         dirs' = dirs \cup {w}, Written(w, f, c),
         UNCHANGED <<current, root, device, clients>>,
         f = "key" => /\ w \in clients /\ file[w]["key"] = None
                      /\ w = Older => root["key"] = None,
         \A x \in keys' : x \in keys \/ \E v \in Workspaces : x = file'[v]["key"]
  PROVE  DiskOk'
<1>0. DiskOk
  BY Zenon DEF LoginInv
<1>1. /\ file' \in [Workspaces -> [Files -> Contents \cup {None}]] /\ file'[w][f] = c
      /\ \A v \in Workspaces, g \in Files : v # w \/ g # f => file'[v][g] = file[v][g]
  <2>1. Replaced(w, f, c)
    BY FileFacts
  <2> QED
    BY <2>1, Zenon DEF Replaced
<1>2. \A v \in Workspaces, g \in Files : file'[v][g] # None => v \in dirs' /\ file'[v][g].ws = v
  BY <1>0, <1>1 DEF DiskOk, OwnDirectory
<1>3. KeysKept'
  <2>1. ASSUME NEW x \in keys
        PROVE  x \in {None, root["key"]} \/ \E v \in Workspaces : x = file'[v]["key"]
    <3>1. x \in {None, root["key"]} \/ \E v \in Workspaces : x = file[v]["key"]
      BY <1>0, Zenon DEF DiskOk, KeysKept
    <3> QED
      BY <1>1, <3>1 DEF Files
  <2> QED
    BY <2>1 DEF KeysKept
<1>4. root["key"] # None => Older \in clients /\ file'[Older]["key"] = None
  BY <1>0, <1>1, DeviceLoginAssumption DEF DiskOk, Files
<1>5. \A v \in Workspaces : file'[v]["key"] # None => v \in clients
  BY <1>0, <1>1 DEF DiskOk, Files
<1>6. CurrentHasDirectory' /\ dirs' \subseteq Workspaces
  BY <1>0, SMTT(30) DEF DiskOk, CurrentHasDirectory
<1>7. OwnDirectory'
  BY <1>2 DEF OwnDirectory
<1> QED
  BY <1>0, <1>1, <1>2, <1>3, <1>4, <1>5, <1>6, <1>7, Zenon DEF DiskOk

\* The token of a login is saved, or is not.
LEMMA SaveTokenStep ==
  ASSUME LoginInv, NEW p \in Procs, SaveToken(p)
  PROVE  LoginInv'
<1> DEFINE k == job[p]
<1>1. /\ at[p] = "save" /\ at[p] \notin Coded /\ UNCHANGED <<current, root, device, code, clients,
                                                              started, keys>>
  BY DEF SaveToken, Coded
<1>2. Idles(p)
  BY Ends DEF SaveToken, Save
<1>3. Moves(p, "idle", NoJob, NoCode) /\ LocalOk("idle", NoJob, NoCode)
  BY <1>1, <1>2, IdleMoves
<1>4. k.ws \in Workspaces /\ k.token = Content(k.ws, "here")
  BY <1>1, Local DEF Command, Labels, Coded, Inside, Binding
<1>5. k.token \in Contents /\ k.token.ws = k.ws
  BY <1>4, ContentFacts
<1>6. CASE UNCHANGED <<dirs, file>>
  BY <1>1, <1>2, <1>6, Common, EndStep DEF diskVars
<1>7. CASE dirs' = dirs \cup {k.ws} /\ file' = [file EXCEPT ![k.ws]["auth"] = k.token]
  <2>0. Written(k.ws, "auth", k.token)
    BY <1>7 DEF Written
  <2>1. \A w \in Workspaces : file'[w]["key"] = file[w]["key"]
    <3>1. Replaced(k.ws, "auth", k.token)
      BY <1>4, <1>5, <2>0, FileFacts DEF Files
    <3> QED
      BY <3>1 DEF Replaced, Files
  <2>2. DiskOk'
    BY <1>1, <1>4, <1>5, <1>7, <2>0, SavedDisk, Zenon DEF Files
  <2>3. Locals' /\ \A q \in Procs : Placed(q)'
    BY <1>1, <1>3, <1>7, <2>1, PlacedStep, SMTT(30) DEF Inside
  <2> QED
    BY <1>1, <2>2, <2>3 DEF LoginInv
<1> QED
  BY <1>6, <1>7 DEF SaveToken, Save

\* ZeroKMS makes a client: the only process that is told so goes on to save its key.
LEMMA CreateClientStep ==
  ASSUME LoginInv, NEW p \in Procs, CreateClient(p)
  PROVE  LoginInv'
<1> DEFINE k == job[p]
<1>0. /\ k \in Job /\ Command(at[p], k) /\ Waits(at[p], k)
  BY Local
<1>1. /\ at[p] = "create" /\ at[p] \notin Coded /\ UNCHANGED <<diskVars, code, started, keys>>
  BY SMTT(30) DEF CreateClient, Coded
<1>2. /\ k.token \in Contents /\ k.token.ws = k.ws /\ k.ws \in Workspaces /\ k.nap = 0
      /\ k.task = "bind"
  BY <1>0, <1>1, Zenon DEF Command, Waits, Labels, Coded, Inside, Binding
<1>3. UNCHANGED <<current, dirs, file, root, device>>
  BY <1>1 DEF diskVars
<1>4. started' \in 0..MaxTasks /\ clients \subseteq Workspaces
  BY <1>1, Common, SMTT(30)
<1>5. ASSUME NEW how, End(p, how), clients' \in {clients, clients \cup {k.ws}} PROVE LoginInv'
  BY <1>1, <1>2, <1>4, <1>5, Ends, EndStep
<1>6. CASE /\ k.ws \notin clients /\ clients' = clients \cup {k.ws} /\ Go(p, "savekey", k)
  <2>1. "savekey" \in Labels \ (Coded \cup {"idle"}) /\ "savekey" \notin Inside
        /\ Command("savekey", k)
    BY <1>0, <1>1, <1>2, Zenon DEF Command, Labels, Coded, Inside, Binding, Tasks
  <2>2. Moves(p, "savekey", k, NoCode) /\ LocalOk("savekey", k, NoCode)
    BY <1>0, <1>1, <1>2, <1>6, <2>1, Continues, Zenon DEF Go
  <2>3. /\ Locals' /\ at'[p] = "savekey" /\ job'[p] = k
        /\ \A q \in Procs \ {p} : at'[q] = at[q] /\ job'[q] = job[q]
    BY <2>2, LocalStep, Zenon
  <2>4. /\ DiskOk /\ file[k.ws]["key"] = None /\ (k.ws = Older => root["key"] = None)
    BY <1>2, <1>6, Zenon DEF LoginInv, DiskOk
  <2>5. DiskOk'
    <3>1. clients \subseteq clients' /\ clients' \subseteq Workspaces
      BY <1>2, <1>4, <1>6
    <3> QED
      BY <1>1, <1>3, <3>1, DiskTypes, FilesStand
  <2>6. ASSUME NEW q \in Procs \ {p}
        PROVE  Placed(q)' /\ (at[q] = "savekey" => job[q].ws # k.ws)
    <3>1. Placed(q) /\ at'[q] = at[q] /\ job'[q] = job[q]
      BY <2>3 DEF LoginInv
    <3>2. at[q] = "savekey" => job[q].ws # k.ws
      BY <1>6, <3>1, ZenonT(30) DEF Placed, Alone
    <3> QED
      BY <1>3, <1>6, <2>3, <3>1, <3>2, ZenonT(60) DEF Placed, Alone
  <2>7. Placed(p)'
    BY <1>2, <1>3, <1>6, <2>1, <2>3, <2>4, <2>6, ZenonT(60) DEF Placed, Alone
  <2> QED
    BY <1>4, <2>3, <2>5, <2>6, <2>7, SMTT(30) DEF LoginInv
<1> QED
  BY <1>2, <1>5, <1>6, Zenon DEF CreateClient

\* The key of a new client is saved, or is not.
LEMMA SaveKeyStep ==
  ASSUME LoginInv, NEW p \in Procs, SaveKey(p)
  PROVE  LoginInv'
<1> DEFINE k == job[p]
<1>1. /\ at[p] = "savekey" /\ at[p] \notin Coded
      /\ keys' = {file'[w]["key"] : w \in Workspaces} \cup keys
      /\ UNCHANGED <<current, root, device, code, clients, started>>
  BY Zenon DEF SaveKey, Coded
<1>2. Idles(p)
  BY Ends DEF SaveKey, Save
<1>3. Moves(p, "idle", NoJob, NoCode) /\ LocalOk("idle", NoJob, NoCode)
  BY <1>1, <1>2, IdleMoves
<1>4. k.ws \in Workspaces /\ k.token.ws = k.ws
  BY <1>1, Local DEF Command, Labels, Coded, Inside, Binding
<1>5. PICK c \in Contents : c = Content(k.token.ws, "here") /\ c.ws = k.ws
  BY <1>4, ContentFacts
<1>6. /\ Alone(p) /\ DiskOk /\ started \in 0..MaxTasks
  BY SMTT(30) DEF LoginInv, Placed
<1>7. k.ws \in clients /\ file[k.ws]["key"] = None /\ (k.ws = Older => root["key"] = None)
      /\ \A q \in Procs \ {p} : at[q] = "savekey" => job[q].ws # k.ws
  BY <1>1, <1>6, Zenon DEF Alone
<1>8. /\ Locals' /\ at'[p] = "idle" /\ job'[p] = NoJob
      /\ \A q \in Procs \ {p} : at'[q] = at[q] /\ job'[q] = job[q]
  BY <1>3, LocalStep, Zenon
<1>9. CASE UNCHANGED <<dirs, file>>
  <2>1. DiskOk'
    <3>1. KeysKept'
      BY <1>1, <1>6, <1>9, ZenonT(60) DEF DiskOk, KeysKept
    <3> QED
      BY <1>1, <1>6, <1>9, <3>1, Zenon DEF DiskOk, OwnDirectory, CurrentHasDirectory
  <2>2. Locals' /\ \A q \in Procs : Placed(q)'
    BY <1>1, <1>3, <1>9, PlacedStep, Zenon DEF Inside
  <2> QED
    BY <1>1, <1>6, <2>1, <2>2, Zenon DEF LoginInv
<1>10. CASE dirs' = dirs \cup {k.ws} /\ file' = [file EXCEPT ![k.ws]["key"] = c]
  <2>0. Written(k.ws, "key", c)
    BY <1>10 DEF Written
  <2>1. \A w \in Workspaces \ {k.ws} : file'[w]["key"] = file[w]["key"]
    <3>1. Replaced(k.ws, "key", c)
      BY <1>4, <2>0, FileFacts, Zenon DEF Files
    <3> QED
      BY <3>1, Zenon DEF Replaced, Files
  <2>2. DiskOk'
    <3>1. \A x \in keys' : x \in keys \/ \E v \in Workspaces : x = file'[v]["key"]
      BY <1>1, Zenon
    <3> QED
      BY <1>1, <1>4, <1>5, <1>7, <1>10, <2>0, <3>1, SavedDisk, Zenon DEF Files
  <2>3. Placed(p)'
    BY <1>8, Zenon DEF Placed, Alone, Inside
  <2>4. ASSUME NEW q \in Procs \ {p} PROVE Placed(q)'
    <3>1. Placed(q) /\ at'[q] = at[q] /\ job'[q] = job[q]
      BY <1>8, Zenon DEF LoginInv
    <3>2. at[q] = "savekey" => job[q].ws \in Workspaces \ {k.ws}
      BY <1>7, Local, ZenonT(60) DEF Command, Labels, Coded, Inside, Binding
    <3>3. at'[q] \in Inside => job'[q].ws \in dirs'
      BY <1>10, <3>1, Zenon DEF Placed
    <3>4. Alone(q)'
      BY <1>1, <1>8, <2>1, <3>1, <3>2, ZenonT(60) DEF Placed, Alone
    <3> QED
      BY <3>3, <3>4, Zenon DEF Placed
  <2> QED
    BY <1>1, <1>6, <1>8, <2>2, <2>3, <2>4, Zenon DEF LoginInv
<1> QED
  BY <1>5, <1>9, <1>10, SMTT(30) DEF SaveKey, Save

\* A flat file is moved into its workspace: its key does not cover another one.
LEMMA MoveStep ==
  ASSUME LoginInv, NEW p \in Procs, Move(p)
  PROVE  LoginInv'
<1> DEFINE k == job[p]
<1>0. /\ k \in Job /\ Command(at[p], k) /\ Waits(at[p], k) /\ Placed(p) /\ DiskOk
      /\ started \in 0..MaxTasks /\ clients \subseteq Workspaces
  BY Local, Common, Zenon DEF LoginInv
<1>1. /\ at[p] = "move" /\ at[p] \notin Coded
      /\ UNCHANGED <<current, dirs, device, code, clients, started, keys>>
  BY Zenon DEF Move, Coded
<1>2. /\ k.ws = Older /\ k.ws \in Workspaces /\ k.file \in Files /\ k.task = "migrate"
      /\ k.nap = 0 /\ k.ws \in dirs
  BY <1>0, <1>1, Zenon DEF Command, Waits, Placed, Labels, Coded, Inside, Binding
<1>3. CASE root[k.file] = None
  BY <1>0, <1>1, <1>3, Ends, EndStep, Zenon DEF Move, diskVars
<1>4. CASE root[k.file] # None
  <2>1. PICK c : c = root[k.file]
    OBVIOUS
  <2>2. /\ file' = [file EXCEPT ![k.ws][k.file] = c] /\ root' = [root EXCEPT ![k.file] = None]
        /\ Go(p, Onward(k), Following(k))
    BY <1>4, <2>1, Zenon DEF Move
  <2>3. c \in Contents /\ c.ws = Older
    BY <1>0, <1>2, <1>4, <2>1 DEF DiskOk
  <2>4. /\ file' \in [Workspaces -> [Files -> Contents \cup {None}]]
        /\ file'[Older][k.file] = c
        /\ \A v \in Workspaces, g \in Files : v # Older \/ g # k.file => file'[v][g] = file[v][g]
    <3>1. PICK f : f = k.file
      OBVIOUS
    <3>2. f \in Files /\ Older \in Workspaces /\ Written(Older, f, c)
      BY <1>2, <2>2, <3>1 DEF Written
    <3>3. Replaced(Older, f, c)
      BY <2>3, <3>2, FileFacts, SMTT(30)
    <3> QED
      BY <3>1, <3>3, Zenon DEF Replaced
  <2>5. /\ root' \in [Files -> Contents \cup {None}] /\ root'[k.file] = None
        /\ \A g \in Files \ {k.file} : root'[g] = root[g]
    BY <1>0, <1>2, <2>2, Zenon DEF DiskOk
  <2>6. \A v \in Workspaces, g \in Files :
          file'[v][g] # None => v \in dirs' /\ file'[v][g].ws = v
    <3>1. \A v \in Workspaces, g \in Files : file[v][g] # None => v \in dirs /\ file[v][g].ws = v
      BY <1>0, Zenon DEF DiskOk, OwnDirectory
    <3>2. Older \in dirs' /\ dirs' = dirs
      BY <1>1, <1>2, <2>1, <2>2
    <3> QED
      BY <2>3, <2>4, <3>1, <3>2, SMTT(30)
  <2>7. KeysKept'
    <3>1. ASSUME NEW x \in keys
          PROVE  x \in {None, root'["key"]} \/ \E v \in Workspaces : x = file'[v]["key"]
      <4>1. x \in {None, root["key"]} \/ \E v \in Workspaces : x = file[v]["key"]
        BY <1>0, SMTT(30) DEF DiskOk, KeysKept
      <4>2. CASE k.file = "auth"
        BY <2>4, <2>5, <4>1, <4>2, Zenon DEF Files
      <4>3. CASE k.file = "key"
        <5>1. file[Older]["key"] = None /\ c = root["key"]
          BY <1>0, <1>4, <2>1, <4>3, SMTT(30) DEF DiskOk
        <5> QED
          BY <1>2, <2>4, <4>1, <4>3, <5>1, Zenon DEF Files
      <4> QED
        BY <1>2, <4>2, <4>3, Zenon DEF Files
    <3> QED
      BY <1>1, <3>1, Zenon DEF KeysKept
  <2>8. /\ root'["key"] # None => Older \in clients' /\ file'[Older]["key"] = None
        /\ root["key"] = None => root'["key"] = None
    BY <1>0, <1>1, <1>2, <1>4, <2>4, <2>5, Zenon DEF DiskOk, Files
  <2>9. \A v \in Workspaces : file'[v]["key"] # None => v \in clients'
    BY <1>0, <1>1, <1>4, <2>4, Zenon DEF DiskOk, Files
  <2>10. \A g \in Files : root'[g] # None => root'[g].ws = Older
    BY <1>0, <2>5, Zenon DEF DiskOk
  <2>11. OwnDirectory' /\ CurrentHasDirectory'
    BY <1>0, <1>1, <2>6, Zenon DEF DiskOk, OwnDirectory, CurrentHasDirectory
  <2>12. DiskOk'
    BY <1>0, <1>1, <2>4, <2>5, <2>6, <2>7, <2>8, <2>9, <2>10, <2>11, Zenon DEF DiskOk
  <2>13. /\ Following(k) \in Job /\ Following(k).task = k.task /\ Following(k).ws = k.ws
         /\ Following(k).nap = k.nap
         /\ Following(k).file = IF k.file = "auth" THEN "key" ELSE None
    BY <1>0, <1>2 DEF Following, Job, Files
  <2>14. Onward(k) \in Labels \ (Coded \cup {"idle"}) /\ Onward(k) # "savekey"
    BY Zenon DEF Onward, Labels, Coded, Inside
  <2>15. Command(Onward(k), Following(k))
    BY <1>2, <2>13, Zenon DEF Onward, Command, Labels, Coded, Inside, Binding, Tasks, Files
  <2>16. PICK a, j : a = Onward(k) /\ j = Following(k)
    OBVIOUS
  <2>17. Moves(p, a, j, NoCode) /\ LocalOk(a, j, NoCode)
    BY <1>1, <1>2, <2>2, <2>13, <2>14, <2>15, <2>16, Continues, Zenon DEF Go
  <2>18. /\ Locals' /\ at'[p] = a /\ job'[p] = j
         /\ \A q \in Procs \ {p} : at'[q] = at[q] /\ job'[q] = job[q]
    BY <2>17, LocalStep, SMTT(30)
  <2>19. Placed(p)'
    BY <1>1, <1>2, <2>13, <2>14, <2>16, <2>18, Zenon DEF Placed, Alone
  <2>20. ASSUME NEW q \in Procs \ {p} PROVE Placed(q)'
    <3>1. Placed(q) /\ at'[q] = at[q] /\ job'[q] = job[q]
      BY <2>18 DEF LoginInv
    <3>2. at[q] = "savekey" => job[q].ws \in Workspaces
      BY Local, Zenon DEF Command, Labels, Coded, Inside, Binding
    <3>3. at[q] = "savekey" => file'[job[q].ws]["key"] = None
      <4>1. CASE k.file = "auth"
        BY <2>4, <3>1, <3>2, <4>1, Zenon DEF Placed, Alone, Files
      <4>2. CASE k.file = "key"
        <5>1. at[q] = "savekey" => job[q].ws # Older
          BY <1>4, <3>1, <4>2, Zenon DEF Placed, Alone
        <5> QED
          BY <2>4, <3>1, <3>2, <5>1, Zenon DEF Placed, Alone, Files
      <4> QED
        BY <1>2, <4>1, <4>2, Zenon DEF Files
    <3>4. Alone(q)'
      BY <1>1, <2>8, <2>14, <2>16, <2>18, <3>1, <3>3, ZenonT(30) DEF Placed, Alone
    <3>5. at'[q] \in Inside => job'[q].ws \in dirs'
      BY <1>1, <3>1, Zenon DEF Placed
    <3> QED
      BY <3>4, <3>5 DEF Placed
  <2> QED
    BY <1>0, <1>1, <2>12, <2>18, <2>19, <2>20, Zenon DEF LoginInv
<1> QED
  BY <1>3, <1>4, Zenon

-----------------------------------------------------------------------------
(* The invariant.                                                          *)

LEMMA InitLogin == Init => LoginInv
<1> SUFFICES ASSUME Init PROVE LoginInv
  OBVIOUS
<1>1. /\ Content(Older, "older") \in Contents /\ Content(Older, "older").ws = Older
      /\ Content(Older, "here") \in Contents /\ Content(Older, "here").ws = Older
      /\ Older \in Workspaces
  BY ContentFacts, DeviceLoginAssumption
<1>2. Locals
  <2>1. "idle" \in Labels /\ NoJob \in Job /\ NoCode \in Code
    BY Resting DEF Labels
  <2>2. at \in [Procs -> Labels] /\ job \in [Procs -> Job] /\ code \in [Procs -> Code]
    BY <2>1, Zenon DEF Init
  <2>3. \A p \in Procs : at[p] = "idle" /\ job[p] = NoJob /\ code[p] = NoCode
    BY Zenon DEF Init
  <2> QED
    BY <2>2, <2>3, IdleOk DEF Locals
<1>3. \A p \in Procs : at[p] = "idle"
  BY Zenon DEF Init
<1>4. \A p \in Procs : Placed(p)
  BY <1>3, Zenon DEF Placed, Alone, Inside
<1>5. /\ Empty \in [Files -> Contents \cup {None}] /\ \A f \in Files : Empty[f] = None
      /\ None \notin Contents /\ None \notin Workspaces /\ Torn \notin Workspaces
  BY DeviceLoginAssumption, ContentsFacts, Zenon DEF Empty, Torn
<1>6. DiskOk
  <2>1. CASE /\ current = None /\ dirs = {} /\ file = [w \in Workspaces |-> Empty]
             /\ root = Empty
    BY <1>5, <2>1, Zenon DEF Init, DiskOk, OwnDirectory, CurrentHasDirectory, KeysKept, Files
  <2>2. CASE /\ current = None /\ dirs = {} /\ file = [w \in Workspaces |-> Empty]
             /\ root = [f \in Files |-> Content(Older, "older")]
    <3>1. root # Empty
      BY <1>1, <1>5, <2>2, Zenon DEF Files
    <3> QED
      BY <1>1, <1>5, <2>2, <3>1, Zenon
         DEF Init, DiskOk, OwnDirectory, CurrentHasDirectory, KeysKept, Files
  <2>3. CASE /\ current = Older /\ dirs = {Older} /\ root = Empty
             /\ file = [w \in Workspaces |->
                         IF w = Older THEN [Empty EXCEPT !["auth"] = Content(w, "here")]
                                      ELSE Empty]
    <3>1. PICK d : d = [Empty EXCEPT !["auth"] = Content(Older, "here")]
      BY Zenon
    <3>2. /\ d \in [Files -> Contents \cup {None}] /\ d["key"] = None
          /\ d["auth"] = Content(Older, "here")
      BY <1>1, <1>5, <3>1 DEF Files
    <3>3. file = [w \in Workspaces |-> IF w = Older THEN d ELSE Empty]
      BY <2>3, <3>1, Zenon
    <3> QED
      BY <1>1, <1>5, <2>3, <3>2, <3>3, ZenonT(60)
         DEF Init, DiskOk, OwnDirectory, CurrentHasDirectory, KeysKept, Files
  <2> QED
    BY <2>1, <2>2, <2>3, Zenon DEF Init
<1>7. started \in 0..MaxTasks
  <2>1. started = 0 /\ MaxTasks \in Nat
    BY DeviceLoginAssumption, Zenon DEF Init
  <2> QED
    BY <2>1
<1> QED
  BY <1>2, <1>4, <1>6, <1>7 DEF LoginInv

LEMMA LoginStep == LoginInv /\ [Next]_vars => LoginInv'
<1> SUFFICES ASSUME LoginInv, [Next]_vars PROVE LoginInv'
  OBVIOUS
<1>1. ASSUME NEW p \in Procs, Begin(p) \/ SetCurrent(p) \/ Migrate(p) \/ Bind(p) \/ Detect(p)
      PROVE  LoginInv'
  BY <1>1, BeginSteps
<1>2. ASSUME NEW p \in Procs, ClearCurrent(p) PROVE LoginInv'
  BY <1>2, ClearStep
<1>3. ASSUME NEW p \in Procs,
             Poll(p) \/ Ask(p) \/ Pending(p) \/ Wake(p) \/ Refused(p)
      PROVE  LoginInv'
  BY <1>3, PollSteps
<1>4. ASSUME NEW p \in Procs, Granted(p) \/ Decide(p) PROVE LoginInv'
  BY <1>4, GrantSteps
<1>5. ASSUME NEW p \in Procs,
             Look(p) \/ LoadToken(p) \/ Identity(p) \/ Build(p) \/ Open(p)
      PROVE  LoginInv'
  BY <1>5, ReadSteps
<1>6. ASSUME NEW p \in Procs, IoFails(p) \/ Crash(p) PROVE LoginInv'
  BY <1>6, FailSteps
<1>7. ASSUME NEW p \in Procs, MakeDir(p) \/ Truncate(p) \/ WriteCurrent(p) \/ Mint(p)
      PROVE  LoginInv'
  BY <1>7, SelectSteps
<1>8. ASSUME NEW p \in Procs,
             SaveToken(p) \/ Move(p) \/ CreateClient(p) \/ SaveKey(p)
      PROVE  LoginInv'
  BY <1>8, SaveTokenStep, MoveStep, CreateClientStep, SaveKeyStep
<1>9. CASE Tick
  BY <1>9, TickStep, SMTT(30)
<1>10. CASE UNCHANGED vars
  <2>1. /\ UNCHANGED <<current, dirs, file, root, device>>
        /\ UNCHANGED <<at, job, code, clients, started, keys>>
    BY <1>10, Zenon DEF vars, diskVars
  <2>2. DiskOk'
    BY <2>1, DiskTypes, FilesStand
  <2>3. Locals' /\ started' \in 0..MaxTasks
    BY <2>1, Zenon DEF LoginInv, Locals, LocalOk
  <2>4. \A p \in Procs : Placed(p)'
    BY <2>1, Zenon DEF LoginInv, Placed, Alone
  <2> QED
    BY <2>2, <2>3, <2>4, Zenon DEF LoginInv
<1> QED
  BY <1>1, <1>2, <1>3, <1>4, <1>5, <1>6, <1>7, <1>8, <1>9, <1>10, Zenon DEF Next, Step

LEMMA LoginInvariant == Spec => []LoginInv
<1> QED
  BY InitLogin, LoginStep, PTL DEF Spec

-----------------------------------------------------------------------------
(* The theorems.                                                           *)

\* Whatever logins, binds, migrations and switches run at a time, and wherever
\* they die, a workspace's directory holds that workspace's token and key only,
\* and current_workspace names a directory that exists.
THEOREM DirectoryIsConsistent == Spec => []DirectoryConsistent
<1>1. LoginInv => DirectoryConsistent
  <2> SUFFICES ASSUME LoginInv PROVE DirectoryConsistent
    OBVIOUS
  <2>1. /\ DiskOk /\ started \in 0..MaxTasks
    BY DEF LoginInv
  <2>2. ASSUME NEW p \in Procs
        PROVE  /\ (at[p] = "idle") = (job[p] = NoJob)
               /\ job[p].ws \in Workspaces \cup {None}
               /\ job[p].nap <= job[p].interval /\ job[p].left \in 0..ExpiresIn
               /\ at[p] \in Dated => job[p].interval > 0
               /\ at[p] \in Coded <=> code[p] # NoCode
    <3>1. PICK a, j, c : a = at[p] /\ j = job[p] /\ c = code[p]
      BY Zenon
    <3>2. /\ a \in Labels /\ j \in Job /\ c \in Code
          /\ Command(a, j) /\ Waits(a, j) /\ Codes(a, c)
      BY <3>1, Local, SMTT(30)
    <3>3. (a = "idle") <=> (j = NoJob)
      BY <3>2, Resting, Zenon DEF Command, Tasks
    <3>4. j.ws \in Workspaces \cup {None} /\ j.left \in 0..ExpiresIn
          /\ j.nap \in Nat /\ j.interval \in Nat /\ j.since \in Nat
      BY <3>2 DEF Job
    <3>5. j.nap <= j.interval /\ (a \in Dated => j.interval > 0)
      BY <3>2, <3>4 DEF Waits, Dated
    <3>6. a \in Coded <=> c # NoCode
      BY <3>2, Resting, Zenon DEF Codes
    <3> QED
      BY <3>1, <3>3, <3>4, <3>5, <3>6, Zenon
  <2>3. TypeOK
    BY <2>1, <2>2, Zenon DEF TypeOK, DiskOk, Dated, Coded
  <2> QED
    BY <2>1, <2>3 DEF DirectoryConsistent, DiskOk
<1> QED
  BY <1>1, LoginInvariant, PTL

\* A client key that has reached a file is never lost, neither to a second bind
\* nor to a migration under way at the same time.
THEOREM KeysAreKept == Spec => []KeysKept
<1>1. LoginInv => KeysKept
  BY DEF LoginInv, DiskOk
<1> QED
  BY <1>1, LoginInvariant, PTL

\* poll_for_token never asks again before all of the interval the server's
\* slow_down answers add up to has passed.
THEOREM SlowDownIsHonoured == Spec => SlowDownHonoured
<1>1. ASSUME LoginInv, NEW p \in Procs, at[p] = "polling"
      PROVE  job[p].since >= job[p].asked
  <2>1. job[p].since = job[p].asked /\ job[p].since \in Nat
    BY <1>1, Local DEF Waits, Job
  <2> QED
    BY <2>1
<1>2. LoginInv => \A p \in Procs : at[p] = "polling" => job[p].since >= job[p].asked
  BY <1>1
<1>3. LoginInv /\ [Next]_vars =>
        [\A p \in Procs : at[p] = "polling" /\ at'[p] = "asked" => job[p].since >= job[p].asked]_vars
  BY <1>2
<1> QED
  BY <1>3, LoginInvariant, PTL DEF Spec, SlowDownHonoured

\* What a success means, for the command of process p.
Kept(p) ==
  /\ job[p].task = "login" => file'[job[p].ws]["auth"] = job[p].token
  /\ job[p].task = "bind" =>
       \/ file'[job[p].ws]["key"] # None
       \/ at[p] = "create" /\ job[p].token.ws \in clients
  /\ job[p].task = "detect" => result'.token.ws = job[p].ws
Reported == result' # None => Kept(result'.by)

\* Only a process that reports a success is spoken of.
LEMMA Reports ==
  ASSUME NEW p \in Procs
  PROVE  /\ \A where, j : Go(p, where, j) => Reported
         /\ \A how : End(p, how) /\ (how = "ok" => Kept(p)) => Reported
         /\ \A t : Succeed(p, t) /\ Kept(p) => Reported
         /\ \A t : Succeed(p, t) => result'.token = t
         /\ result' = None => Reported
<1>1. result' = None => Reported
  BY DEF Reported
<1>2. ASSUME NEW t, Succeed(p, t) PROVE result'.by = p /\ result'.token = t
  BY <1>2 DEF Succeed
<1>3. ASSUME NEW t, Succeed(p, t), Kept(p) PROVE Reported
  BY <1>2, <1>3 DEF Reported
<1>4. ASSUME NEW where, NEW j, Go(p, where, j) PROVE Reported
  BY <1>1, <1>4 DEF Go
<1>5. ASSUME NEW how, End(p, how), how = "ok" => Kept(p) PROVE Reported
  BY <1>3, <1>4, <1>5 DEF End
<1> QED
  BY <1>1, <1>2, <1>3, <1>4, <1>5

LEMMA ReportStep == LoginInv /\ Next => Reported
<1> SUFFICES ASSUME LoginInv, Next PROVE Reported
  OBVIOUS
<1>1. CASE Tick
  BY <1>1, Zenon DEF Tick, Reported
<1>2. SUFFICES ASSUME NEW p \in Procs,
         \/ Begin(p) \/ SetCurrent(p) \/ ClearCurrent(p) \/ Migrate(p) \/ Bind(p) \/ Detect(p)
         \/ Step(p) \/ Decide(p) \/ IoFails(p) \/ Crash(p)
      PROVE Reported
  BY <1>1 DEF Next
<1> DEFINE k == job[p]
<1>3. Command(at[p], k) /\ NoJob.task = "none"
  BY Local, Resting
<1>4. CASE Begin(p) \/ SetCurrent(p) \/ Migrate(p) \/ Bind(p) \/ Detect(p)
  BY <1>4, Reports, Zenon DEF Begin, SetCurrent, Migrate, Bind, Detect, Start
<1>5. CASE ClearCurrent(p)
  <2>1. k.task = "none"
    BY <1>3, <1>5, Zenon DEF ClearCurrent, Begins, Command
  <2> QED
    BY <1>5, <2>1, Reports, Zenon DEF ClearCurrent, Kept
<1>6. CASE Poll(p) \/ Ask(p) \/ Pending(p) \/ Wake(p) \/ Refused(p) \/ Granted(p)
  BY <1>6, Reports, Zenon DEF Poll, Ask, Pending, Wake, Refused, Granted
<1>7. CASE MakeDir(p) \/ Truncate(p) \/ Look(p) \/ Move(p) \/ Identity(p) \/ Mint(p) \/ Build(p)
  BY <1>7, Reports DEF MakeDir, Truncate, Look, Move, Identity, Mint, Build
<1>8. CASE WriteCurrent(p)
  <2>1. k.task \in {"login", "switch", "migrate"}
    BY <1>3, <1>8, Zenon DEF WriteCurrent, Command
  <2> QED
    BY <1>8, <2>1, Reports, ZenonT(30) DEF WriteCurrent, Kept
<1>9. CASE SaveToken(p)
  <2>1. k.task = "login" /\ k.ws \in Workspaces /\ k.token = Content(k.ws, "here")
    BY <1>3, <1>9, Zenon DEF SaveToken, Command, Labels, Coded, Inside, Binding
  <2>2. k.token \in Contents
    BY <2>1, ContentFacts
  <2>3. CASE End(p, "error")
    BY <2>3, Reports
  <2>4. CASE Written(k.ws, "auth", k.token) /\ \E how \in {"ok", "error"} : End(p, how)
    <3>1. Replaced(k.ws, "auth", k.token)
      BY <2>1, <2>2, <2>4, FileFacts DEF Files
    <3>2. Kept(p)
      BY <2>1, <3>1 DEF Replaced, Kept
    <3> QED
      BY <2>4, <3>2, Reports
  <2> QED
    BY <1>9, <2>3, <2>4, SMTT(30) DEF SaveToken, Save, Written
<1>10. CASE SaveKey(p)
  <2>1. k.task = "bind" /\ k.ws \in Workspaces /\ k.token.ws = k.ws
    BY <1>3, <1>10, Zenon DEF SaveKey, Command, Labels, Coded, Inside, Binding
  <2>2. PICK c \in Contents : c = Content(k.token.ws, "here")
    BY <2>1, ContentFacts
  <2>3. CASE End(p, "error")
    BY <2>3, Reports
  <2>4. CASE Written(k.ws, "key", c) /\ \E how \in {"ok", "error"} : End(p, how)
    <3>1. Replaced(k.ws, "key", c)
      BY <2>1, <2>4, FileFacts DEF Files
    <3>2. Kept(p)
      BY <2>1, <3>1, ContentsFacts DEF Replaced, Kept
    <3> QED
      BY <2>4, <3>2, Reports
  <2> QED
    BY <1>10, <2>2, <2>3, <2>4, SMTT(30) DEF SaveKey, Save, Written
<1>11. CASE LoadToken(p)
  <2>1. k.task = "bind" /\ UNCHANGED file
    BY <1>3, <1>11 DEF LoadToken, Command, diskVars
  <2>2. \/ file[k.ws]["key"] # None /\ End(p, "ok")
        \/ End(p, "error")
        \/ \E j : Go(p, "identity", j)
    BY <1>11, Zenon DEF LoadToken, Exists
  <2> QED
    BY <2>1, <2>2, Reports, Zenon DEF Kept
<1>12. CASE CreateClient(p)
  <2>1. k.task = "bind" /\ at[p] = "create"
    BY <1>3, <1>12, Zenon DEF CreateClient, Command, Binding
  <2> QED
    BY <1>12, <2>1, Reports, ZenonT(30) DEF CreateClient, Kept
<1>13. CASE Open(p)
  <2>1. k.task = "detect" /\ k.ws \in Workspaces
    BY <1>3, <1>13, Zenon DEF Open, Command, Labels, Coded, Inside, Binding
  <2>2. CASE file[k.ws]["auth"] = None
    BY <1>13, <2>2, Reports, Zenon DEF Open
  <2>3. CASE file[k.ws]["auth"] # None
    <3>1. file[k.ws]["auth"].ws = k.ws
      BY <2>1, <2>3, Zenon DEF LoginInv, DiskOk, OwnDirectory, Files
    <3>2. Succeed(p, file[k.ws]["auth"])
      BY <1>13, <2>3, ZenonT(30) DEF Open
    <3>3. result'.token = file[k.ws]["auth"]
      BY <3>2, Reports, Zenon
    <3> QED
      BY <2>1, <3>1, <3>2, <3>3, Reports, Zenon DEF Kept
  <2> QED
    BY <2>2, <2>3, SMTT(30)
<1>14. CASE Decide(p) \/ IoFails(p) \/ Crash(p)
  BY <1>14, Reports, Zenon DEF Decide, IoFails, Crash
<1> QED
  BY <1>2, <1>4, <1>5, <1>6, <1>7, <1>8, <1>9, <1>10, <1>11, <1>12, <1>13, <1>14, Zenon DEF Step

\* A command that reports success has left on disk what it says it has, in the
\* directory of the workspace it works for, and a session has that workspace's
\* token, whoever switches the current workspace meanwhile.
THEOREM SuccessIsOnDisk == Spec => OkIsOnDisk
<1>1. LoginInv /\ [Next]_vars => [Reported]_vars
  BY ReportStep
<1>2. Spec => [][Reported]_vars
  BY <1>1, LoginInvariant, PTL DEF Spec
<1> QED
  BY <1>2, PTL DEF OkIsOnDisk, Reported, Kept
=============================================================================
