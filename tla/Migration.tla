------------------------------- MODULE Migration -------------------------------
(***************************************************************************)
(* Moving a column into its encrypted twin, and back: @cipherstash/migrate *)
(* and the drop commands of the stash CLI.                                 *)
(*                                                                         *)
(* A column migration is a direction applied to a pair of columns.  All it *)
(* remembers is its trail of events, of which three things are ever read:  *)
(* the latest event of a direction, the forced pass that its events leave  *)
(* owed, and which direction's is the later.  Runs, confirmations and drop *)
(* commands are workers that load, then act on what they loaded, with no   *)
(* lock between; the application writes rows meanwhile.                    *)
(*                                                                         *)
(* A value is the number of the application write that made it, so two     *)
(* cells are equal when they hold the same write; 0 is NULL.  There is one *)
(* pair, so the name of the twin is not kept in the events.                *)
(***************************************************************************)
EXTENDS Integers, FiniteSets

CONSTANTS
  Workers,     \* processes that run a command, one at a time each
  LastPk,      \* rows have primary keys 1..LastPk
  ChunkSize,   \* rows in a page
  Locked,      \* rows whose ciphertext the backfill's credentials cannot open
  Nulling,     \* whether the application also writes NULL
  Overlap,     \* whether commands of the two directions overlap in time
  MaxWrites    \* bound on the writes of the application

ASSUME MigrationAssumption ==
  /\ LastPk \in Nat /\ ChunkSize \in Nat \ {0} /\ Locked \subseteq 1..LastPk
  /\ Nulling \in BOOLEAN /\ Overlap \in BOOLEAN /\ MaxWrites \in Nat

VARIABLES
  col,        \* the two columns: the value in each row
  gone,       \* the column an applied migration has dropped, or "none"
  latest,     \* the value the application last gave each row
  writes,     \* how many writes it has made
  last,       \* cipherstash.cs_migrations: the latest event of each direction,
  owed,       \*   the forced pass its events leave owed,
  newest,     \*   and the direction of the latest event of all
  files,      \* the directions whose drop migration has been generated
  worker,     \* what each worker is doing
  overtaken   \* rows a forward chunk wrote after the application had changed them

vars == <<col, gone, latest, writes, last, owed, newest, files, worker, overtaken>>

Rows       == 1..LastPk
Columns    == {"plain", "cipher"}
Directions == {"forward", "reverse"}
Opposite(d) == IF d = "forward" THEN "reverse" ELSE "forward"
Source(d)   == IF d = "forward" THEN "plain" ELSE "cipher"
Target(d)   == Source(Opposite(d))

-----------------------------------------------------------------------------
(* What the trail says of a column migration                               *)

Running == {"started", "checkpoint", "error"}
Event(kind, force, cursor) == [event |-> kind, force |-> force, cursor |-> cursor]
None    == Event("none", FALSE, 0)

\* A drop followed by events of the twin's own migration was applied, and the
\* pair migrated back: the history is a finished one.
Superseded(d) == last[d].event = "dropped" /\ newest = Opposite(d)
InProgress(d) == last[d] # None /\ ~Superseded(d)

PhaseOf(e) == IF e.event \in Running THEN "running" ELSE e.event
Phase(d)   == IF InProgress(d) THEN PhaseOf(last[d]) ELSE "none"
Open(d)    == Phase(d) \notin {"none", "dropped"}

\* The forced pass that is owed, after one more event.  A confirmation starts
\* afresh: what came before it is out of scope.
Owed(owes, e, existing) ==
  CASE e.event = "dual_writing"          -> IF existing THEN "existing-values" ELSE "none"
    [] e.event = "completed" /\ e.force  -> "none"
    [] e.event \in Running /\ e.force    -> "forced-pass"
    [] OTHER                             -> owes
Obligation(d) == IF InProgress(d) THEN owed[d] ELSE "none"

\* The other direction's history, while not dropped, blocks this one.
Blocked(d) == last[Opposite(d)].event \notin {"none", "dropped"}

\* The twin holds values this migration did not write.
ExistingTwinValues(d) ==
  d = "reverse" /\ Phase(d) = "none" /\ \E r \in Rows : col[Target(d)][r] # 0

\* Mutant: force is what the caller says of this run.
Forced_Caller(d, force) == force

Forced(d, force) == force \/ Obligation(d) # "none" \/ ExistingTwinValues(d)

\* Mutant: any pass is resumed.
Resumable_AnyMode(e, force) ==
  e.event = "checkpoint" \/ (e.event = "error" /\ e.cursor # 0)

\* A run resumes the latest pass only in that pass's own mode.
Resumable(e, force) ==
  /\ e.event = "checkpoint" \/ (e.event = "error" /\ e.cursor # 0)
  /\ e.force = force
ResumeCursor(d, force) ==
  IF Phase(d) # "none" /\ Resumable(last[d], force) THEN last[d].cursor ELSE 0

-----------------------------------------------------------------------------
(* Steps                                                                   *)

\* What a worker holds between two of its steps: the pass it is in, the page it
\* has read, and whether the confirmation it is making owes a forced pass.
Task(pc, d, force, cursor, page, owes) ==
  [pc |-> pc, dir |-> d, force |-> force, cursor |-> cursor, page |-> page, owes |-> owes]
Idle       == Task("idle", "forward", FALSE, 0, <<>>, FALSE)
Goes(w, t) == worker' = [worker EXCEPT ![w] = t]
InPass(w, pc, cursor, page) ==
  Goes(w, Task(pc, worker[w].dir, worker[w].force, cursor, page, FALSE))
Done(w)    == Goes(w, Idle)

\* appendEvent
Record(d, e, existing) ==
  /\ last' = [last EXCEPT ![d] = e]
  /\ owed' = [owed EXCEPT ![d] = Owed(@, e, existing)]
  /\ newest' = d

\* Every row has a value of its own or NULL, and the source column is current.
\* The twin is empty, current, or left from before the application wrote both
\* (-1).  The trail is empty, or tells of finished migrations of the pair, or of
\* an unforced pass interrupted before the application wrote both.
Init ==
  \E d \in Directions :
    /\ latest \in [Rows -> {0, 1}]
    /\ \E twin \in [Rows -> {-1, 0, 1}] :
         /\ \A r \in Rows : twin[r] = 1 => latest[r] = 1
         /\ col = [c \in Columns |-> IF c = Source(d) THEN latest ELSE twin]
    /\ \/ \E e \in {None, Event("dropped", FALSE, 0)} : last = [x \in Directions |-> e] /\ newest = Opposite(d)
       \/ \E c \in Rows :
            /\ \A r \in 1..c : latest[r] # 0 => col[Target(d)][r] # 0
            /\ last = [x \in Directions |-> IF x = d THEN Event("checkpoint", FALSE, c) ELSE None]
            /\ newest = d
    /\ owed = [x \in Directions |-> "none"]
    /\ gone = "none" /\ writes = 0 /\ files = {} /\ overtaken = {}
    /\ worker = [w \in Workers |-> Idle]

\* The application writes a row: both columns in one statement.
Write(r) ==
  /\ gone = "none" /\ writes < MaxWrites
  /\ \E v \in {writes + 2} \cup (IF Nulling THEN {0} ELSE {}) :
       /\ col' = [c \in Columns |-> [col[c] EXCEPT ![r] = v]]
       /\ latest' = [latest EXCEPT ![r] = v]
  /\ writes' = writes + 1
  /\ overtaken' = overtaken \ {r}
  /\ UNCHANGED <<gone, last, owed, newest, files, worker>>

\* What the operator knows: the source column is the one the application keeps
\* current, and a twin that has drifted calls for --force.
SourceCurrent(d) == \A r \in Rows \ overtaken : col[Source(d)][r] = latest[r]
Alone(d) == Overlap \/ \A w \in Workers : worker[w].pc = "idle" \/ worker[w].dir = d
Drifted(d) == \E r \in Rows \ overtaken : col[Target(d)][r] \notin {0, latest[r]}

\* confirmDualWrites loads, and decides whether the twin's values are owed a
\* forced pass.  In progress, only a waiver records anything, and only before
\* a forced pass has started.
Confirm(w, d, waiver) ==
  /\ worker[w].pc = "idle" /\ gone = "none"
  /\ ~Blocked(d) /\ SourceCurrent(d) /\ Alone(d)
  /\ waiver => d = "reverse" /\ ~Drifted(d)
  /\ Phase(d) # "none" => waiver /\ Obligation(d) = "existing-values"
  /\ Goes(w, Task("confirming", d, FALSE, 0, <<>>, ExistingTwinValues(d) /\ ~waiver))
  /\ UNCHANGED <<col, gone, latest, writes, last, owed, newest, files, overtaken>>

Confirmed(w) ==
  /\ worker[w].pc = "confirming"
  /\ Record(worker[w].dir, Event("dual_writing", FALSE, 0), worker[w].owes)
  /\ Done(w)
  /\ UNCHANGED <<col, gone, latest, writes, files, overtaken>>

\* runChunkedMigration loads the column migration and plans the pass.
Load(w, d, force) ==
  /\ worker[w].pc = "idle" /\ gone = "none"
  /\ ~Blocked(d) /\ SourceCurrent(d) /\ Alone(d)
  /\ Drifted(d) /\ (d = "forward" \/ Phase(d) # "none") => force \/ Obligation(d) # "none"
  /\ LET forced == Forced(d, force)
     IN  Goes(w, Task("planned", d, forced, ResumeCursor(d, forced), <<>>, FALSE))
  /\ UNCHANGED <<col, gone, latest, writes, last, owed, newest, files, overtaken>>

Report(w, kind, cursor) ==
  Record(worker[w].dir, Event(kind, worker[w].force, cursor), FALSE)

Start(w) ==
  /\ worker[w].pc = "planned"
  /\ Report(w, "started", worker[w].cursor)
  /\ InPass(w, "loop", worker[w].cursor, <<>>)
  /\ UNCHANGED <<col, gone, latest, writes, files, overtaken>>

\* The rows still to visit, and the first page of them.
Pending(d, force, cursor) ==
  {r \in Rows : r > cursor /\ col[Source(d)][r] # 0 /\ (force \/ col[Target(d)][r] = 0)}
PageOf(S) == {r \in S : Cardinality({q \in S : q < r}) < ChunkSize}

Fetch(w) ==
  /\ worker[w].pc = "loop" /\ gone = "none"
  /\ LET d    == worker[w].dir
         page == PageOf(Pending(d, worker[w].force, worker[w].cursor))
     IN  IF page = {}
         THEN InPass(w, "drained", worker[w].cursor, <<>>)
         ELSE InPass(w, "fetched", worker[w].cursor, [r \in page |-> col[Source(d)][r]])
  /\ UNCHANGED <<col, gone, latest, writes, last, owed, newest, files, overtaken>>

\* Mutant: reverse, like forward, the write looks at its target only.
Writable_TargetOnly(d, force, page) ==
  {r \in DOMAIN page : force \/ (col[Target(d)][r] = 0 /\ (d = "reverse" => r \notin Locked))}

\* The rows of the page that the UPDATE's WHERE clause lets through, and the
\* value each gets.  Forward, an unforced write goes to a NULL ciphertext only.
\* Reverse, the ciphertext must be the one read; a row that does not decrypt is
\* left alone, or cleared by a forced pass.
Writable(d, force, page) ==
  {r \in DOMAIN page :
     IF d = "forward" THEN force \/ col["cipher"][r] = 0
     ELSE col["cipher"][r] = page[r] /\ (force \/ (r \notin Locked /\ col["plain"][r] = 0))}
Converted(d, r, v) == IF d = "reverse" /\ r \in Locked THEN 0 ELSE v

LastPkOf(page) == CHOOSE r \in DOMAIN page : \A q \in DOMAIN page : q =< r

\* One transaction: the chunk and its checkpoint.
Commit(w) ==
  /\ worker[w].pc = "fetched" /\ gone = "none"
  /\ LET d    == worker[w].dir
         page == worker[w].page
         to   == Writable(d, worker[w].force, page)
         lastPk == LastPkOf(page)
     IN  /\ col' = [col EXCEPT ![Target(d)] =
                      [r \in Rows |-> IF r \in to THEN Converted(d, r, page[r]) ELSE @[r]]]
         /\ overtaken' = IF d = "reverse" THEN overtaken
              ELSE (overtaken \ to) \cup {r \in to : page[r] # latest[r]}
         /\ Report(w, "checkpoint", lastPk)
         /\ InPass(w, "loop", lastPk, <<>>)
  /\ UNCHANGED <<gone, latest, writes, files>>

Complete(w) ==
  /\ worker[w].pc = "drained"
  /\ Report(w, "completed", worker[w].cursor)
  /\ Done(w)
  /\ UNCHANGED <<col, gone, latest, writes, files, overtaken>>

\* A query or the encryption client fails, or the first page decrypts nothing:
\* the chunk is rolled back, and the event carries the last committed cursor.
Fail(w) ==
  /\ worker[w].pc \in {"loop", "fetched", "drained"}
  /\ Report(w, "error", worker[w].cursor)
  /\ Done(w)
  /\ UNCHANGED <<col, gone, latest, writes, files, overtaken>>

\* The process is killed, or the run is aborted between two chunks.
Stop(w) ==
  /\ worker[w].pc # "idle"
  /\ Done(w)
  /\ UNCHANGED <<col, gone, latest, writes, last, owed, newest, files, overtaken>>

Covered(d) == \A r \in Rows : col[Source(d)][r] # 0 => col[Target(d)][r] # 0

\* The drop commands: load, count, write the migration file, record.  The
\* forward one looks at the phase alone.
Generate(w, d) ==
  /\ worker[w].pc = "idle" /\ gone = "none" /\ Alone(d)
  /\ Phase(d) = "completed"
  /\ d = "reverse" => Obligation(d) = "none"
  /\ Covered(d)
  /\ files' = files \cup {d}
  /\ Goes(w, Task("generated", d, FALSE, 0, <<>>, FALSE))
  /\ UNCHANGED <<col, gone, latest, writes, last, owed, newest, overtaken>>

Generated(w) ==
  /\ worker[w].pc = "generated"
  /\ Record(worker[w].dir, Event("dropped", FALSE, 0), FALSE)
  /\ Done(w)
  /\ UNCHANGED <<col, gone, latest, writes, files, overtaken>>

\* The generated migration, run by the user's own tool at any later time: it
\* counts again under the lock and drops nothing if a row is not covered.
Apply(d) ==
  /\ d \in files /\ gone = "none"
  /\ Covered(d)
  /\ gone' = Source(d)
  /\ col' = [col EXCEPT ![Source(d)] = [r \in Rows |-> 0]]
  /\ files' = files \ {d}
  /\ UNCHANGED <<latest, writes, last, owed, newest, worker, overtaken>>

\* decrypt plan: a plaintext column that is gone while its encryption is still
\* open was dropped unrecorded; the encryption is closed.
RecordSourceRemoved ==
  /\ gone = "plain" /\ Open("forward")
  /\ Record("forward", Event("dropped", FALSE, 0), FALSE)
  /\ UNCHANGED <<col, gone, latest, writes, files, worker, overtaken>>

\* The plaintext column is added again, empty, to start the reverse direction.
AddTwin ==
  /\ gone = "plain" /\ ~Blocked("reverse") /\ Phase("reverse") = "none"
  /\ \A w \in Workers : worker[w].pc = "idle"
  /\ gone' = "none"
  /\ UNCHANGED <<col, latest, writes, last, owed, newest, files, worker, overtaken>>

Work(w) ==
  \/ Confirmed(w) \/ Start(w) \/ Fetch(w) \/ Commit(w) \/ Complete(w) \/ Generated(w)
  \/ gone # "none" /\ Fail(w)
Next ==
  \/ \E r \in Rows : Write(r)
  \/ \E w \in Workers :
       \/ Work(w) \/ Fail(w) \/ Stop(w)
       \/ \E d \in Directions, b \in BOOLEAN : Confirm(w, d, b) \/ Load(w, d, b)
       \/ \E d \in Directions : Generate(w, d)
  \/ \E d \in Directions : Apply(d)
  \/ RecordSourceRemoved \/ AddTwin

Spec == Init /\ [][Next]_vars

-----------------------------------------------------------------------------
(* Properties                                                              *)

\* Every variable keeps its type.
TypeOK ==
  /\ col \in [Columns -> [Rows -> -1..(MaxWrites + 1)]]
  /\ gone \in {"none"} \cup Columns
  /\ latest \in [Rows -> 0..(MaxWrites + 1)] /\ writes \in 0..MaxWrites
  /\ files \subseteq Directions /\ overtaken \subseteq Rows
  /\ newest \in Directions
  /\ owed \in [Directions -> {"none", "existing-values", "forced-pass"}]
  /\ \A d \in Directions : last[d].force \in BOOLEAN /\ last[d].cursor \in 0..LastPk

\* Dropping a column loses nothing: whatever interrupted, forced, waived or
\* resumed passes went before, every value the application last wrote is in
\* the column that stays.  The exception is a row that a forward chunk wrote
\* after the application had changed it (see ForcedNotDestructive).
DropLosesNothing ==
  gone # "none" =>
    LET kept == CHOOSE c \in Columns : c # gone
    IN  \A r \in Rows \ overtaken : latest[r] # 0 => col[kept][r] = latest[r]

\* A resume point can be trusted (engine.ts, "a crash can never record progress
\* for rows that were not written"): every row up to it has its twin, and one
\* of the present source if the pass is forced, unless it does not decrypt.
ResumePointHonest ==
  \A d \in Directions :
    LET e == last[d]
        Twin(r) == col[Target(d)][r]
    IN  gone = "none" /\ InProgress(d) /\ e.event \in {"checkpoint", "error"} =>
          \A r \in 1..e.cursor \ overtaken :
            col[Source(d)][r] # 0 /\ ~(d = "reverse" /\ r \in Locked) =>
              IF e.force THEN Twin(r) = col[Source(d)][r] ELSE Twin(r) # 0

\* A forced pass stays owed until one has overwritten everything: a completed
\* migration that owes nothing has no row whose twin is set and stale.
NothingStaleUnowed ==
  \A d \in Directions :
    gone = "none" /\ Phase(d) = "completed" /\ Obligation(d) = "none" =>
      \A r \in Rows \ overtaken :
        col[Source(d)][r] # 0 => col[Target(d)][r] \in {0, col[Source(d)][r]}

\* backfill.ts on force: "Not destructive".  No forward chunk puts an older
\* value in a row than the application has.
ForcedNotDestructive == overtaken = {}

\* At most one column migration is open per column pair (ADR 0001).
OneOpen == ~(Open("forward") /\ Open("reverse"))

\* The trail of events is one that a later command can rely on: it has the
\* shape the commands write, says nothing is done that is not, and is open in
\* one direction at most (planPassFor, openCounterpart).
TrailHonest == TypeOK /\ ResumePointHonest /\ OneOpen
=============================================================================
