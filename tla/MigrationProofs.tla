---------------------------- MODULE MigrationProofs ----------------------------
(***************************************************************************)
(* Proofs about Migration: when commands of the two directions do not      *)
(* overlap in time, the trail of events can be relied on, a completed      *)
(* migration hides no stale twin, and dropping a column loses nothing, for *)
(* any number of workers, rows, writes and any page size.                  *)
(***************************************************************************)
EXTENDS Migration, FiniteSetTheorems, WellFoundedInduction, TLAPS

-----------------------------------------------------------------------------
(* The invariant                                                           *)

Values == -1..(MaxWrites + 1)
Pcs    == {"idle", "confirming", "planned", "loop", "fetched", "drained", "generated"}
Events == {"none", "dual_writing", "completed", "dropped"} \cup Running

Begun(d) == last[d].event \notin {"none", "dropped"}
InAPass(t) == t.pc \in {"planned", "loop", "fetched", "drained"}
Decrypts(d, r) == ~(d = "reverse" /\ r \in Locked)

\* The twin of a row is empty or current.
Fits(d, r) == latest[r] # 0 => col[Target(d)][r] \in {0, latest[r]}

\* What a pass, forced or not, has done for a row that it has gone past.
Visited(d, force, r) ==
  r \notin overtaken /\ latest[r] # 0 =>
    /\ force => col[Target(d)][r] \in {0, latest[r]}
    /\ Decrypts(d, r) => IF force THEN col[Target(d)][r] = latest[r] ELSE col[Target(d)][r] # 0

\* No twin is set and stale.
Fit(d) == \A r \in Rows \ overtaken : Fits(d, r)

\* What a worker has read is still in the source column, or the row is done;
\* and a row that the page skips is done.
PageHonest(t) ==
  /\ \A r \in DOMAIN t.page :
       /\ t.page[r] = latest[r] => col[Source(t.dir)][r] = latest[r]
       /\ t.page[r] = col[Source(t.dir)][r] \/ Visited(t.dir, TRUE, r)
  /\ \A r \in Rows, q \in DOMAIN t.page :
       r < q /\ r \notin DOMAIN t.page => Visited(t.dir, t.force, r)

TaskTyped(t) ==
  /\ t.pc \in Pcs /\ t.dir \in Directions /\ t.force \in BOOLEAN /\ t.cursor \in 0..LastPk
  /\ DOMAIN t.page \subseteq Rows
  /\ \A r \in DOMAIN t.page : t.page[r] \in Values \ {0}
  /\ t.pc = "fetched" => DOMAIN t.page # {}

\* A worker that is not idle finds no history of the other direction that is
\* not dropped, and its source column current; an unforced or a drained pass
\* has no stale twin; and the rows up to the cursor are done.
TaskInv(t) ==
  /\ TaskTyped(t)
  /\ t.pc # "idle" => ~Begun(Opposite(t.dir))
  /\ t.pc # "idle" /\ gone = "none" => SourceCurrent(t.dir)
  /\ InAPass(t) /\ (t.force = FALSE \/ t.pc = "drained") => Fit(t.dir)
  /\ InAPass(t) /\ gone = "none" => \A r \in 1..t.cursor : Visited(t.dir, t.force, r)
  /\ t.pc = "fetched" /\ gone = "none" => PageHonest(t)

\* The same of the latest event e of a direction.
EventTyped(e) == e.event \in Events /\ e.force \in BOOLEAN /\ e.cursor \in 0..LastPk
TrailInv(d, e) ==
  /\ EventTyped(e)
  /\ e.event \notin {"none", "dropped"} /\ gone = "none" => SourceCurrent(d)
  /\ e.event = "completed" => Fit(d)
  /\ e.event \in Running /\ gone = "none" => \A r \in 1..e.cursor : Visited(d, e.force, r)

\* Workers that are not idle work in one direction.
Together(v, w) ==
  worker[v].pc # "idle" /\ worker[w].pc # "idle" => worker[v].dir = worker[w].dir

Typed ==
  /\ col \in [Columns -> [Rows -> Values]]
  /\ latest \in [Rows -> 0..(MaxWrites + 1)] /\ writes \in 0..MaxWrites
  /\ gone \in {"none"} \cup Columns /\ files \subseteq Directions /\ overtaken \subseteq Rows
  /\ newest \in Directions /\ owed \in [Directions -> {"none", "existing-values", "forced-pass"}]

WorkersInv ==
  /\ DOMAIN worker = Workers
  /\ \A w \in Workers : TaskInv(worker[w])
  /\ \A v, w \in Workers : Together(v, w)

TrailsInv ==
  /\ DOMAIN last = Directions
  /\ \A d \in Directions : TrailInv(d, last[d])
  /\ ~(Begun("forward") /\ Begun("reverse"))

\* While both columns are there, every value is in one of them.  A column that
\* is gone is empty, and the one that stays has every value.  A direction that
\* has a drop migration has no stale twin.
ColumnsInv ==
  /\ gone = "none" => \A r \in Rows \ overtaken : \E c \in Columns : col[c][r] = latest[r]
  /\ \A c \in Columns : gone = c =>
       /\ \A r \in Rows : col[c][r] = 0
       /\ \A k \in Columns \ {c}, r \in Rows \ overtaken : latest[r] # 0 => col[k][r] = latest[r]
  /\ \A d \in files : Fit(d)

MigrationInv == Typed /\ WorkersInv /\ TrailsInv /\ ColumnsInv

-----------------------------------------------------------------------------
(* Directions, columns and pages                                           *)

\* Each direction copies one column into the other.
LEMMA Sides ==
  ASSUME NEW d \in Directions
  PROVE  /\ Opposite(d) \in Directions /\ Opposite(d) # d /\ Opposite(Opposite(d)) = d
         /\ Source(d) \in Columns /\ Target(d) \in Columns /\ Source(d) # Target(d)
         /\ \A c \in Columns : c = Source(d) \/ c = Target(d)
         /\ \A x \in Directions : x = d \/ x = Opposite(d)
  BY DEF Directions, Columns, Opposite, Source, Target

\* The sizes are natural numbers.
LEMMA Sizes == LastPk \in Nat /\ ChunkSize \in Nat \ {0} /\ MaxWrites \in Nat /\ Locked \subseteq Rows
  BY MigrationAssumption DEF Rows

\* A cell holds a value.
LEMMA CellType ==
  ASSUME Typed, NEW c \in Columns, NEW r \in Rows
  PROVE  col[c][r] \in Values /\ latest[r] \in 0..(MaxWrites + 1)
  BY DEF Typed

\* A page that is not empty has a last key (fetchPendingPage takes the key of
\* the last row it got).
LEMMA LastOfPage ==
  ASSUME NEW page, DOMAIN page \subseteq Rows, DOMAIN page # {}
  PROVE  /\ LastPkOf(page) \in DOMAIN page
         /\ \A q \in DOMAIN page : q =< LastPkOf(page)
<1> DEFINE R == {ss \in Nat \X Nat : ss[1] < ss[2]}
           T == {LastPk - q : q \in DOMAIN page}
<1>1. IsWellFoundedOn(R, Nat)
  BY NatLessThanWellFounded DEF OpToRel
<1>2. T \subseteq Nat /\ T # {}
  BY Sizes DEF Rows
<1> HIDE DEF R
<1>3. PICK x \in T : \A y \in T : ~(<<y, x>> \in R)
  BY <1>1, <1>2, WFMin, Zenon
<1>4. PICK r \in DOMAIN page : x = LastPk - r
  BY <1>3
<1>5. \A q \in DOMAIN page : q =< r
  <2>1. SUFFICES ASSUME NEW q \in DOMAIN page PROVE q =< r
    OBVIOUS
  <2>2. ~(LastPk - q < LastPk - r)
    BY <1>2, <1>3, <1>4, Zenon DEF R
  <2> QED
    BY <2>2, Sizes DEF Rows
<1> QED
  BY <1>5 DEF LastPkOf

\* A page is a first part of the pending rows: it skips none.
LEMMA PageSkipsNone ==
  ASSUME NEW S \in SUBSET Rows, NEW q \in PageOf(S), NEW r \in S, r < q
  PROVE  r \in PageOf(S)
<1> DEFINE Below(x) == {p \in S : p < x}
<1>1. IsFiniteSet(Below(q))
  <2>1. IsFiniteSet(Rows)
    BY FS_Interval, Sizes DEF Rows
  <2>2. Below(q) \in SUBSET Rows
    OBVIOUS
  <2> QED
    BY <2>1, <2>2, FS_Subset
<1>2. Below(r) \in SUBSET Below(q)
  <2>1. S \subseteq Int /\ q \in S
    BY Sizes DEF PageOf, Rows
  <2>2. \A p \in S : p < r => p < q
    BY <2>1
  <2> QED
    BY <2>2, Zenon
<1>3. Cardinality(Below(r)) \in Nat /\ Cardinality(Below(q)) \in Nat
  BY <1>1, <1>2, FS_Subset, FS_CardinalityType
<1>4. Cardinality(Below(r)) =< Cardinality(Below(q))
  BY <1>1, <1>2, FS_Subset
<1>5. Cardinality(Below(q)) < ChunkSize
  BY DEF PageOf
<1>6. Cardinality(Below(r)) < ChunkSize
  BY <1>3, <1>4, <1>5, Sizes
<1> QED
  BY <1>6 DEF PageOf

\* A page of no rows means that none is pending.
LEMMA NoPage ==
  ASSUME NEW S \in SUBSET Rows, PageOf(S) = {}
  PROVE  S = {}
<1>1. SUFFICES ASSUME S # {} PROVE FALSE
  OBVIOUS
<1> DEFINE R == {ss \in Nat \X Nat : ss[1] < ss[2]}
<1>2. IsWellFoundedOn(R, Nat)
  BY NatLessThanWellFounded DEF OpToRel
<1>3. S \subseteq Nat
  BY Sizes DEF Rows
<1> HIDE DEF R
<1>4. PICK x \in S : \A y \in S : ~(<<y, x>> \in R)
  BY <1>1, <1>2, <1>3, WFMin, Zenon
<1>5. {p \in S : p < x} = {}
  BY <1>3, <1>4, Zenon DEF R
<1>6. Cardinality({p \in S : p < x}) = 0
  BY <1>5, FS_EmptySet
<1> QED
  BY <1>6, Sizes DEF PageOf
-----------------------------------------------------------------------------
(* The initial states                                                      *)

\* A worker that is idle is owed nothing.
LEMMA IdleInv == TaskInv(Idle)
<1>1. DOMAIN Idle.page = {}
  BY DEF Idle, Task
<1>2. /\ Idle.pc = "idle" /\ Idle.dir = "forward" /\ Idle.force = FALSE /\ Idle.cursor = 0
  BY DEF Idle, Task
<1>3. TaskTyped(Idle)
  <2>1. Idle.pc \in Pcs /\ Idle.dir \in Directions /\ Idle.cursor \in 0..LastPk /\ Idle.pc # "fetched"
    BY <1>2, Sizes DEF Pcs, Directions
  <2>2. Idle.force \in BOOLEAN
    BY <1>2, Zenon
  <2> QED
    BY <1>1, <2>1, <2>2, Zenon DEF TaskTyped
<1>4. ~InAPass(Idle) /\ Idle.pc # "fetched"
  BY <1>2 DEF InAPass
<1> QED
  BY <1>2, <1>3, <1>4, Zenon DEF TaskInv

\* A direction without a history, or with a dropped one, claims nothing.
LEMMA NoHistory ==
  ASSUME NEW d, NEW e, e.event \in {"none", "dropped"}, EventTyped(e)
  PROVE  TrailInv(d, e)
<1>1. e.event # "completed" /\ e.event \notin Running
  BY DEF Running
<1> QED
  BY <1>1, Zenon DEF TrailInv

\* An event of an unforced kind has its type.
LEMMA UnforcedTyped ==
  ASSUME NEW kind \in Events, NEW c \in 0..LastPk
  PROVE  EventTyped(Event(kind, FALSE, c))
  BY DEF EventTyped, Event

\* The states from which a migration starts satisfy the invariant.
LEMMA InitInv == Init => MigrationInv
<1> SUFFICES ASSUME Init PROVE MigrationInv
  OBVIOUS
<1>1. PICK d \in Directions :
        /\ latest \in [Rows -> {0, 1}]
        /\ \E twin \in [Rows -> {-1, 0, 1}] :
             /\ \A r \in Rows : twin[r] = 1 => latest[r] = 1
             /\ col = [c \in Columns |-> IF c = Source(d) THEN latest ELSE twin]
        /\ \/ \E e \in {None, Event("dropped", FALSE, 0)} : last = [x \in Directions |-> e] /\ newest = Opposite(d)
           \/ \E c \in Rows :
                /\ \A r \in 1..c : latest[r] # 0 => col[Target(d)][r] # 0
                /\ last = [x \in Directions |-> IF x = d THEN Event("checkpoint", FALSE, c) ELSE None]
                /\ newest = d
        /\ owed = [x \in Directions |-> "none"]
        /\ gone = "none" /\ writes = 0 /\ files = {} /\ overtaken = {}
        /\ worker = [w \in Workers |-> Idle]
  BY Zenon DEF Init
<1>2. PICK twin \in [Rows -> {-1, 0, 1}] : col = [c \in Columns |-> IF c = Source(d) THEN latest ELSE twin]
  BY <1>1
<1>3. col[Source(d)] = latest
  BY <1>2, Sides
<1>4. SourceCurrent(d)
  BY <1>3 DEF SourceCurrent
<1>5. Typed
  <2>1. latest \in [Rows -> Values] /\ twin \in [Rows -> Values] /\ latest \in [Rows -> 0..(MaxWrites + 1)]
    BY <1>1, Sizes DEF Values
  <2>2. col \in [Columns -> [Rows -> Values]]
    BY <1>2, <2>1
  <2>3. newest \in Directions
    <3>1. newest = d \/ newest = Opposite(d)
      BY <1>1, Zenon
    <3> QED
      BY <3>1, Sides
  <2> QED
    BY <1>1, <2>1, <2>2, <2>3, Sizes DEF Typed
<1>6. WorkersInv
  <2>1. \A w \in Workers : worker[w].pc = "idle"
    BY <1>1 DEF Idle, Task
  <2> QED
    BY <1>1, <2>1, IdleInv DEF WorkersInv, Together
<1>7. TrailsInv
  <2>1. CASE \E e \in {None, Event("dropped", FALSE, 0)} : last = [x \in Directions |-> e]
    <3>1. \A x \in Directions : EventTyped(last[x]) /\ last[x].event \in {"none", "dropped"}
      <4>1. EventTyped(None) /\ EventTyped(Event("dropped", FALSE, 0))
        <5>1. "none" \in Events /\ "dropped" \in Events /\ 0 \in 0..LastPk
          BY Sizes DEF Events
        <5> QED
          BY <5>1, UnforcedTyped, Zenon DEF None
      <4>2. None.event = "none" /\ Event("dropped", FALSE, 0).event = "dropped"
        BY DEF None, Event
      <4> QED
        BY <2>1, <4>1, <4>2, Zenon
    <3> QED
      <4>1. \A x \in Directions : TrailInv(x, last[x])
        <5>1. ASSUME NEW x \in Directions PROVE TrailInv(x, last[x])
          <6>1. PICK e : e = last[x]
            OBVIOUS
          <6>2. TrailInv(x, e)
            BY <3>1, <6>1, NoHistory
          <6> QED
            BY <6>1, <6>2
        <5> QED
          BY <5>1
      <4> QED
        BY <2>1, <3>1, <4>1 DEF TrailsInv, Begun, Directions
  <2>2. CASE \E c \in Rows :
               /\ \A r \in 1..c : latest[r] # 0 => col[Target(d)][r] # 0
               /\ last = [x \in Directions |-> IF x = d THEN Event("checkpoint", FALSE, c) ELSE None]
    <3>1. PICK c \in Rows :
               /\ \A r \in 1..c : latest[r] # 0 => col[Target(d)][r] # 0
               /\ last = [x \in Directions |-> IF x = d THEN Event("checkpoint", FALSE, c) ELSE None]
      BY <2>2, Zenon
    <3>2. last[d].event = "checkpoint" /\ last[d].force = FALSE /\ last[d].cursor = c
      BY <3>1 DEF Event
    <3>3. \A x \in Directions \ {d} : EventTyped(last[x]) /\ last[x].event \in {"none", "dropped"}
      <4>1. EventTyped(None) /\ None.event = "none"
        BY UnforcedTyped, Sizes DEF None, Events, Event
      <4> QED
        BY <3>1, <4>1
    <3>4. TrailInv(d, last[d])
      <4>1. EventTyped(last[d])
        <5>1. last[d].event \in Events /\ last[d].cursor \in 0..LastPk
          BY <3>2, Sizes DEF Events, Running, Rows
        <5>2. last[d].force \in BOOLEAN
          BY <3>2, Zenon
        <5> QED
          BY <5>1, <5>2 DEF EventTyped
      <4>2. \A r \in 1..c : Visited(d, FALSE, r)
        BY <3>1 DEF Visited
      <4> QED
        BY <1>4, <3>2, <4>1, <4>2, Zenon DEF TrailInv
    <3>5. \A x \in Directions \ {d} : TrailInv(x, last[x])
      <4>1. ASSUME NEW x \in Directions \ {d} PROVE TrailInv(x, last[x])
        <5>1. PICK e : e = last[x]
          OBVIOUS
        <5>2. TrailInv(x, e)
          BY <3>3, <5>1, NoHistory
        <5> QED
          BY <5>1, <5>2
      <4> QED
        BY <4>1
    <3> QED
      BY <3>1, <3>3, <3>4, <3>5, Zenon DEF TrailsInv, Begun, Directions
  <2> QED
    BY <1>1, <2>1, <2>2, Zenon
<1>8. ColumnsInv
  BY <1>1, <1>3, Sides DEF ColumnsInv, Columns
<1> QED
  BY <1>5, <1>6, <1>7, <1>8 DEF MigrationInv

-----------------------------------------------------------------------------
(* Steps that leave the columns alone                                      *)

\* A step that leaves the columns alone changes no claim about them.
LEMMA SameColumns ==
  ASSUME UNCHANGED <<col, latest, overtaken>>, NEW d
  PROVE  /\ SourceCurrent(d)' <=> SourceCurrent(d)
         /\ Fit(d)' <=> Fit(d)
         /\ \A force, r : Visited(d, force, r)' <=> Visited(d, force, r)
  BY DEF SourceCurrent, Fit, Fits, Visited

\* Such a step keeps the claims about a page.
LEMMA SamePage ==
  ASSUME UNCHANGED <<col, latest, overtaken>>, NEW t, PageHonest(t)
  PROVE  PageHonest(t)'
  BY DEF PageHonest, Visited

\* And about a task, when its direction stays free.
LEMMA SameTask ==
  ASSUME UNCHANGED <<col, gone, latest, overtaken>>, NEW t, TaskInv(t),
         t.pc # "idle" => ~Begun(Opposite(t.dir))'
  PROVE  TaskInv(t)'
  BY SameColumns, SamePage DEF TaskInv

\* And about an event.
LEMMA SameTrail ==
  ASSUME UNCHANGED <<col, gone, latest, overtaken>>, NEW d, NEW e, TrailInv(d, e)
  PROVE  TrailInv(d, e)'
  BY SameColumns DEF TrailInv
\* A worker takes up the task t, in the direction the others work in, and
\* records nothing.
LEMMA TakesUp ==
  ASSUME MigrationInv, UNCHANGED <<col, gone, latest, writes, last, owed, newest, overtaken>>,
         NEW w \in Workers, NEW t, Goes(w, t), TaskInv(t),
         t.pc # "idle" => \A v \in Workers : v = w \/ worker[v].pc = "idle" \/ worker[v].dir = t.dir,
         files' \subseteq Directions, \A d \in files' : Fit(d)
  PROVE  MigrationInv'
<1>1. DOMAIN worker = Workers
  BY DEF MigrationInv, WorkersInv
<1>2. worker'[w] = t /\ DOMAIN worker' = Workers /\ \A v \in Workers \ {w} : worker'[v] = worker[v]
  BY <1>1 DEF Goes
<1>3. Typed'
  BY DEF MigrationInv, Typed
<1>4. \A v \in Workers : TaskInv(worker[v])'
  <2>1. \A d : Begun(d)' <=> Begun(d)
    BY DEF Begun
  <2>2. ASSUME NEW v \in Workers PROVE TaskInv(worker[v])'
    <3>1. PICK x : x = worker'[v]
      OBVIOUS
    <3>2. TaskInv(x)
      BY <1>2, <3>1 DEF MigrationInv, WorkersInv
    <3>3. x.pc # "idle" => ~Begun(Opposite(x.dir))'
      BY <2>1, <3>2 DEF TaskInv
    <3>4. TaskInv(x)'
      BY <3>2, <3>3, SameTask
    <3> QED
      BY <3>1, <3>4
  <2> QED
    BY <2>2
<1>5. \A u, v \in Workers : Together(u, v)'
  BY <1>2 DEF MigrationInv, WorkersInv, Together
<1>6. TrailsInv'
  <2>1. ASSUME NEW d \in Directions PROVE TrailInv(d, last[d])'
    <3>1. PICK e : e = last[d] /\ e = last'[d]
      OBVIOUS
    <3>2. TrailInv(d, e)
      BY <3>1 DEF MigrationInv, TrailsInv
    <3>3. TrailInv(d, e)'
      BY <3>2, SameTrail
    <3> QED
      BY <3>1, <3>3
  <2> QED
    BY <2>1 DEF MigrationInv, TrailsInv, Begun
<1>7. ColumnsInv'
  <2>1. \A d \in files' : Fit(d)'
    BY SameColumns
  <2> QED
    BY <2>1 DEF MigrationInv, ColumnsInv
<1> QED
  BY <1>2, <1>3, <1>4, <1>5, <1>6, <1>7, SMTT(30) DEF MigrationInv, WorkersInv

\* A worker records the event e of its own direction, and goes on with the task
\* t of the same direction, or with none.
LEMMA Records ==
  ASSUME MigrationInv, UNCHANGED <<col, gone, latest, writes, files, overtaken>>,
         NEW w \in Workers, worker[w].pc # "idle", NEW d, d = worker[w].dir,
         NEW e, TrailInv(d, e), NEW existing, Record(d, e, existing),
         NEW t, Goes(w, t), TaskInv(t), t.pc = "idle" \/ t.dir = d
  PROVE  MigrationInv'
<1>1. d \in Directions /\ ~Begun(Opposite(d))
  BY Zenon DEF MigrationInv, WorkersInv, TaskInv, TaskTyped
<1>2. DOMAIN worker = Workers /\ DOMAIN last = Directions
  BY DEF MigrationInv, WorkersInv, TrailsInv
<1>3. worker'[w] = t /\ DOMAIN worker' = Workers /\ \A v \in Workers \ {w} : worker'[v] = worker[v]
  BY <1>2 DEF Goes
<1>4. /\ last'[d] = e /\ last'[Opposite(d)] = last[Opposite(d)]
      /\ DOMAIN last' = Directions
  BY <1>1, <1>2, Sides DEF Record
<1>5. ~Begun(Opposite(d))'
  BY <1>1, <1>4, SMTT(30) DEF Begun
<1>6. Typed'
  <2>1. owed' \in [Directions -> {"none", "existing-values", "forced-pass"}]
    BY <1>1 DEF Record, Owed, MigrationInv, Typed
  <2>2. newest' \in Directions
    BY <1>1 DEF Record
  <2> QED
    BY <2>1, <2>2 DEF MigrationInv, Typed
<1>7. \A v \in Workers : worker'[v].pc = "idle" \/ worker'[v].dir = d
  BY <1>3 DEF MigrationInv, WorkersInv, Together
<1>8. \A v \in Workers : TaskInv(worker[v])'
  <2>1. ASSUME NEW v \in Workers PROVE TaskInv(worker[v])'
    <3>1. PICK x : x = worker'[v]
      OBVIOUS
    <3>2. TaskInv(x)
      BY <1>3, <3>1 DEF MigrationInv, WorkersInv
    <3>3. x.pc # "idle" => ~Begun(Opposite(x.dir))'
      BY <1>5, <1>7, <3>1
    <3>4. TaskInv(x)'
      BY <3>2, <3>3, SameTask
    <3> QED
      BY <3>1, <3>4, Zenon
  <2> QED
    BY <2>1
<1>9. TrailsInv'
  <2>1. TrailInv(d, e)'
    BY SameTrail, SMTT(30)
  <2>2. PICK o : o = last[Opposite(d)]
    OBVIOUS
  <2>3. TrailInv(Opposite(d), o)
    BY <1>1, <2>2, Sides DEF MigrationInv, TrailsInv
  <2>4. TrailInv(Opposite(d), o)'
    BY <2>3, SameTrail
  <2>5. \A x \in Directions : TrailInv(x, last[x])'
    BY <1>1, <1>4, <2>1, <2>2, <2>4, Sides, SMTT(30)
  <2>6. ~(Begun("forward")' /\ Begun("reverse")')
    BY <1>1, <1>5 DEF Directions, Opposite
  <2> QED
    BY <1>4, <2>5, <2>6 DEF TrailsInv
<1>10. ColumnsInv'
  <2>1. \A x \in files' : Fit(x)'
    BY SameColumns, SMTT(30) DEF MigrationInv, ColumnsInv
  <2> QED
    BY <2>1 DEF MigrationInv, ColumnsInv
<1> QED
  BY <1>3, <1>6, <1>7, <1>8, <1>9, <1>10 DEF MigrationInv, WorkersInv, Together
\* A task has its type when its parts have theirs.
LEMMA TaskOfParts ==
  ASSUME NEW pc \in Pcs \ {"fetched"}, NEW d \in Directions, NEW force \in BOOLEAN,
         NEW cursor \in 0..LastPk, NEW owes, NEW t, t = Task(pc, d, force, cursor, <<>>, owes)
  PROVE  TaskTyped(t)
<1>1. DOMAIN t.page = {}
  BY DEF Task
<1>2. t.pc \in Pcs /\ t.pc # "fetched" /\ t.dir \in Directions /\ t.cursor \in 0..LastPk
  BY DEF Task
<1>3. t.force \in BOOLEAN
  BY Zenon DEF Task
<1> QED
  BY <1>1, <1>2, <1>3, Zenon DEF TaskTyped

\* A confirmation or a drop command that finds its direction free.
LEMMA OutsidePass ==
  ASSUME NEW pc \in {"confirming", "generated"}, NEW d \in Directions, NEW owes,
         NEW t, t = Task(pc, d, FALSE, 0, <<>>, owes),
         ~Begun(Opposite(d)), gone = "none" => SourceCurrent(d)
  PROVE  TaskInv(t)
<1>1. t.pc = pc /\ t.dir = d
  BY DEF Task
<1>2. TaskTyped(t)
  <2>1. pc \in Pcs \ {"fetched"} /\ 0 \in 0..LastPk
    BY Sizes DEF Pcs
  <2> QED
    BY <2>1, TaskOfParts, Zenon
<1>3. ~InAPass(t) /\ t.pc # "fetched"
  BY <1>1, Zenon DEF InAPass
<1> QED
  BY <1>1, <1>2, <1>3, Zenon DEF TaskInv

\* A pass that has not read a page.
LEMMA InPassInv ==
  ASSUME NEW pc \in {"planned", "loop", "drained"}, NEW d \in Directions, NEW force \in BOOLEAN,
         NEW cursor \in 0..LastPk, NEW t, t = Task(pc, d, force, cursor, <<>>, FALSE),
         ~Begun(Opposite(d)), gone = "none" => SourceCurrent(d),
         force = FALSE \/ pc = "drained" => Fit(d),
         gone = "none" => \A r \in 1..cursor : Visited(d, force, r)
  PROVE  TaskInv(t)
<1>1. t.pc = pc /\ t.dir = d /\ t.force = force /\ t.cursor = cursor
  BY Zenon DEF Task
<1>2. TaskTyped(t)
  <2>1. pc \in Pcs \ {"fetched"}
    BY DEF Pcs
  <2> QED
    BY <2>1, TaskOfParts, Zenon
<1>3. t.pc # "fetched"
  BY <1>1, Zenon
<1> QED
  BY <1>1, <1>2, <1>3, Zenon DEF TaskInv

\* What a worker in a pass reports of itself can be relied on (engine.ts writes
\* the checkpoint and the error event with the cursor of the last chunk).
LEMMA ReportHonest ==
  ASSUME NEW x, TaskInv(x), InAPass(x), NEW kind \in Running \cup {"completed"},
         kind = "completed" => x.pc = "drained", NEW e, e = Event(kind, x.force, x.cursor)
  PROVE  TrailInv(x.dir, e)
<1>1. e.event = kind /\ e.force = x.force /\ e.cursor = x.cursor
  BY DEF Event
<1>2. x.pc # "idle"
  BY DEF InAPass
<1>3. EventTyped(e)
  <2>1. e.event \in Events
    BY <1>1 DEF Events
  <2> QED
    BY <1>1, <2>1, Zenon DEF EventTyped, TaskInv, TaskTyped
<1> QED
  BY <1>1, <1>2, <1>3, Zenon DEF TrailInv, TaskInv
\* A worker that is not idle is in a direction whose other is not begun, and
\* whose source is current.
LEMMA WorkerKnows ==
  ASSUME MigrationInv, NEW w \in Workers
  PROVE  /\ TaskInv(worker[w]) /\ worker[w].dir \in Directions /\ worker[w].force \in BOOLEAN
         /\ worker[w].cursor \in 0..LastPk
  BY Zenon DEF MigrationInv, WorkersInv, TaskInv, TaskTyped

\* confirmDualWrites loads.
LEMMA ConfirmStep ==
  ASSUME MigrationInv, ~Overlap, NEW w \in Workers, NEW d \in Directions, NEW waiver \in BOOLEAN,
         Confirm(w, d, waiver)
  PROVE  MigrationInv'
<1>1. PICK t : t = Task("confirming", d, FALSE, 0, <<>>, ExistingTwinValues(d) /\ ~waiver)
  BY Zenon
<1>2. Goes(w, t)
  BY <1>1, Zenon DEF Confirm
<1>3. ~Begun(Opposite(d)) /\ SourceCurrent(d) /\ Alone(d)
  BY DEF Confirm, Blocked, Begun
<1>4. TaskInv(t)
  BY <1>1, <1>3, OutsidePass, Zenon
<1>5. \A v \in Workers : v = w \/ worker[v].pc = "idle" \/ worker[v].dir = t.dir
  BY <1>1, <1>3, SMTT(30) DEF Alone, Task
<1>6. UNCHANGED <<col, gone, latest, writes, last, owed, newest, overtaken, files>>
  BY Zenon DEF Confirm
<1>7. files' \subseteq Directions /\ \A x \in files' : Fit(x)
  BY <1>6 DEF MigrationInv, Typed, ColumnsInv
<1> QED
  BY <1>2, <1>4, <1>5, <1>6, <1>7, TakesUp

\* confirmDualWrites appends its event.
LEMMA ConfirmedStep ==
  ASSUME MigrationInv, NEW w \in Workers, Confirmed(w)
  PROVE  MigrationInv'
<1>1. PICK d : d = worker[w].dir
  OBVIOUS
<1>2. PICK e : e = Event("dual_writing", FALSE, 0)
  BY Zenon
<1>3. PICK owes : owes = worker[w].owes
  OBVIOUS
<1>4. worker[w].pc = "confirming" /\ Record(d, e, owes) /\ Goes(w, Idle)
  BY <1>1, <1>2, <1>3, Zenon DEF Confirmed, Done
<1>5. d \in Directions /\ (gone = "none" => SourceCurrent(d))
  BY <1>1, <1>4, WorkerKnows, Zenon DEF TaskInv
<1>6. TrailInv(d, e)
  <2>1. "dual_writing" \in Events /\ 0 \in 0..LastPk
    BY Sizes DEF Events
  <2>2. EventTyped(e)
    BY <1>2, <2>1, UnforcedTyped, Zenon
  <2>3. e.event = "dual_writing" /\ e.event # "completed" /\ e.event \notin Running
    BY <1>2 DEF Event, Running
  <2> QED
    BY <1>5, <2>2, <2>3, Zenon DEF TrailInv
<1>7. PICK t : t = Idle
  OBVIOUS
<1>8. TaskInv(t) /\ t.pc = "idle" /\ Goes(w, t)
  BY <1>4, <1>7, IdleInv, Zenon DEF Idle, Task
<1>9. UNCHANGED <<col, gone, latest, writes, files, overtaken>>
  BY DEF Confirmed
<1> QED
  BY <1>1, <1>4, <1>6, <1>8, <1>9, Records, Zenon

\* Whatever the operator and the trail say, a run that is not forced starts on
\* a twin that has not drifted.
LEMMA UnforcedFits ==
  ASSUME NEW w, NEW d \in Directions, NEW force, Load(w, d, force), ~Forced(d, force)
  PROVE  Fit(d)
<1>1. ~force /\ Obligation(d) = "none" /\ ~ExistingTwinValues(d)
  BY DEF Forced
<1>2. ~(Drifted(d) /\ (d = "forward" \/ Phase(d) # "none"))
  BY <1>1, Zenon DEF Load
<1>3. CASE d = "forward" \/ Phase(d) # "none"
  BY <1>2, <1>3 DEF Drifted, Fit, Fits
<1>4. CASE ~(d = "forward" \/ Phase(d) # "none")
  BY <1>1, <1>4 DEF ExistingTwinValues, Directions, Fit, Fits
<1> QED
  BY <1>3, <1>4

\* runChunkedMigration plans the pass.
LEMMA LoadStep ==
  ASSUME MigrationInv, ~Overlap, NEW w \in Workers, NEW d \in Directions, NEW force \in BOOLEAN,
         Load(w, d, force)
  PROVE  MigrationInv'
<1>1. PICK forced \in BOOLEAN : forced = Forced(d, force)
  BY Zenon DEF Forced
<1>2. PICK cursor : cursor = ResumeCursor(d, forced)
  OBVIOUS
<1>3. PICK t : t = Task("planned", d, forced, cursor, <<>>, FALSE)
  BY Zenon
<1>4. Goes(w, t)
  BY <1>1, <1>2, <1>3, Zenon DEF Load
<1>5. ~Begun(Opposite(d)) /\ SourceCurrent(d) /\ Alone(d) /\ gone = "none"
  BY DEF Load, Blocked, Begun
<1>6. cursor \in 0..LastPk /\ \A r \in 1..cursor : Visited(d, forced, r)
  <2>1. TrailInv(d, last[d])
    BY DEF MigrationInv, TrailsInv
  <2>2. CASE Phase(d) # "none" /\ Resumable(last[d], forced)
    <3>1. cursor = last[d].cursor /\ last[d].force = forced /\ last[d].event \in Running
      BY <1>2, <2>2, Zenon DEF ResumeCursor, Resumable, Running
    <3> QED
      BY <1>5, <2>1, <3>1, Zenon DEF TrailInv, EventTyped
  <2>3. CASE ~(Phase(d) # "none" /\ Resumable(last[d], forced))
    <3>1. cursor = 0
      BY <1>2, <2>3 DEF ResumeCursor
    <3> QED
      BY <3>1, Sizes
  <2> QED
    BY <2>2, <2>3
<1>7. forced = FALSE => Fit(d)
  BY <1>1, UnforcedFits
<1>8. TaskInv(t)
  BY <1>3, <1>5, <1>6, <1>7, InPassInv, Zenon
<1>9. \A v \in Workers : v = w \/ worker[v].pc = "idle" \/ worker[v].dir = t.dir
  BY <1>3, <1>5, Zenon DEF Alone, Task
<1>10. UNCHANGED <<col, gone, latest, writes, last, owed, newest, overtaken, files>>
  BY Zenon DEF Load
<1>11. files' \subseteq Directions /\ \A x \in files' : Fit(x)
  BY <1>10 DEF MigrationInv, Typed, ColumnsInv
<1> QED
  BY <1>4, <1>8, <1>9, <1>10, <1>11, TakesUp
\* The pass starts.
LEMMA StartStep ==
  ASSUME MigrationInv, NEW w \in Workers, Start(w)
  PROVE  MigrationInv'
<1>1. PICK x : x = worker[w]
  OBVIOUS
<1>2. PICK e : e = Event("started", x.force, x.cursor)
  OBVIOUS
<1>3. PICK t : t = Task("loop", x.dir, x.force, x.cursor, <<>>, FALSE)
  BY Zenon
<1>4. x.pc = "planned" /\ Record(x.dir, e, FALSE) /\ Goes(w, t)
  BY <1>1, <1>2, <1>3, Zenon DEF Start, Report, InPass
<1>5. TaskInv(x) /\ x.dir \in Directions /\ x.force \in BOOLEAN /\ x.cursor \in 0..LastPk
  BY <1>1, WorkerKnows
<1>6. TrailInv(x.dir, e)
  BY <1>2, <1>4, <1>5, ReportHonest DEF InAPass, Running
<1>7. /\ ~Begun(Opposite(x.dir)) /\ (gone = "none" => SourceCurrent(x.dir))
      /\ x.force = FALSE => Fit(x.dir)
      /\ gone = "none" => \A r \in 1..x.cursor : Visited(x.dir, x.force, r)
  BY <1>4, <1>5 DEF TaskInv, InAPass
<1>8. TaskInv(t)
  BY <1>3, <1>5, <1>7, InPassInv, Zenon
<1>9. t.dir = x.dir /\ x.pc # "idle"
  BY <1>3, <1>4 DEF Task
<1>10. UNCHANGED <<col, gone, latest, writes, files, overtaken>>
  BY DEF Start
<1> QED
  BY <1>1, <1>4, <1>6, <1>8, <1>9, <1>10, Records, Zenon

\* With no row pending, every row is done.
LEMMA NonePending ==
  ASSUME MigrationInv, NEW x, TaskInv(x), x.pc = "loop", gone = "none",
         Pending(x.dir, x.force, x.cursor) = {}
  PROVE  Fit(x.dir)
<1>1. /\ x.dir \in Directions /\ x.force \in BOOLEAN /\ x.cursor \in 0..LastPk
      /\ SourceCurrent(x.dir)
      /\ x.force = FALSE => Fit(x.dir)
      /\ \A r \in 1..x.cursor : Visited(x.dir, x.force, r)
  BY Zenon DEF TaskInv, TaskTyped, InAPass
<1>2. CASE x.force = TRUE
  <2>1. SUFFICES ASSUME NEW r \in Rows \ overtaken PROVE Fits(x.dir, r)
    BY DEF Fit
  <2>2. CASE r > x.cursor
    <3>1. col[Source(x.dir)][r] = 0
      BY <1>2, <2>2 DEF Pending
    <3> QED
      BY <1>1, <3>1, SMTT(30) DEF SourceCurrent, Fits
  <2>3. CASE ~(r > x.cursor)
    <3>1. r \in 1..x.cursor
      BY <1>1, <2>3, Sizes DEF Rows
    <3>2. Visited(x.dir, TRUE, r)
      BY <1>1, <1>2, <3>1, Zenon
    <3> QED
      BY <3>2, SMTT(30) DEF Visited, Fits
  <2> QED
    BY <2>2, <2>3
<1> QED
  BY <1>1, <1>2, Zenon

\* A page that is read now is honest: a row that it skips has no value, or for
\* an unforced pass a twin.
LEMMA PageRead ==
  ASSUME MigrationInv, NEW x, TaskInv(x), x.pc = "loop", gone = "none",
         NEW page, page = PageOf(Pending(x.dir, x.force, x.cursor)), page # {},
         NEW t, t = Task("fetched", x.dir, x.force, x.cursor, [r \in page |-> col[Source(x.dir)][r]], FALSE)
  PROVE  TaskInv(t)
<1> DEFINE S == Pending(x.dir, x.force, x.cursor)
<1>1. /\ x.dir \in Directions /\ x.force \in BOOLEAN /\ x.cursor \in 0..LastPk
      /\ SourceCurrent(x.dir) /\ ~Begun(Opposite(x.dir))
      /\ x.force = FALSE => Fit(x.dir)
      /\ \A r \in 1..x.cursor : Visited(x.dir, x.force, r)
  BY Zenon DEF TaskInv, TaskTyped, InAPass
<1>2. t.pc = "fetched" /\ t.dir = x.dir /\ t.force = x.force /\ t.cursor = x.cursor
  BY Zenon DEF Task
<1>3. DOMAIN t.page = page /\ \A r \in page : t.page[r] = col[Source(x.dir)][r]
  BY DEF Task
<1>4. page \subseteq S /\ S \subseteq Rows
  BY Zenon DEF PageOf, Pending
<1>5. TaskTyped(t)
  <2>1. \A r \in page : col[Source(x.dir)][r] \in Values \ {0}
    BY <1>1, <1>4, CellType, Sides, Zenon DEF Pending, MigrationInv
  <2> QED
    BY <1>1, <1>2, <1>3, <1>4, <2>1, ZenonT(60) DEF TaskTyped, Pcs
<1>6. ASSUME NEW r \in Rows, NEW q \in page, r < q, r \notin page PROVE Visited(x.dir, x.force, r)
  <2>1. r \notin S
    BY <1>4, <1>6, PageSkipsNone
  <2>2. CASE r > x.cursor
    <3>1. col[Source(x.dir)][r] = 0 \/ (x.force = FALSE /\ col[Target(x.dir)][r] # 0)
      BY <1>1, <2>1, <2>2, Zenon DEF Pending
    <3> QED
      BY <1>1, <3>1, Zenon DEF SourceCurrent, Visited
  <2>3. CASE ~(r > x.cursor)
    BY <1>1, <2>3, Sizes DEF Rows
  <2> QED
    BY <2>2, <2>3
<1>7. PageHonest(t)
  <2>1. \A r \in DOMAIN t.page : t.page[r] = col[Source(t.dir)][r]
    BY <1>2, <1>3, ZenonT(60)
  <2>2. \A r \in Rows, q \in page : r < q /\ r \notin page => Visited(x.dir, x.force, r)
    BY <1>6
  <2>3. \A r \in Rows, q \in DOMAIN t.page : r < q /\ r \notin DOMAIN t.page => Visited(t.dir, t.force, r)
    BY <1>2, <1>3, <2>2, Zenon
  <2> QED
    BY <2>1, <2>3, Zenon DEF PageHonest
<1> QED
  BY <1>1, <1>2, <1>5, <1>7, Zenon DEF TaskInv, InAPass

\* A page is fetched, or there is none.
LEMMA FetchStep ==
  ASSUME MigrationInv, NEW w \in Workers, Fetch(w)
  PROVE  MigrationInv'
<1>1. PICK x : x = worker[w]
  OBVIOUS
<1>2. PICK page : page = PageOf(Pending(x.dir, x.force, x.cursor))
  OBVIOUS
<1>3. x.pc = "loop" /\ gone = "none" /\ TaskInv(x)
  BY <1>1, WorkerKnows, Zenon DEF Fetch
<1>4. UNCHANGED <<col, gone, latest, writes, last, owed, newest, overtaken, files>>
  BY Zenon DEF Fetch
<1>5. files' \subseteq Directions /\ \A d \in files' : Fit(d)
  BY <1>4 DEF MigrationInv, Typed, ColumnsInv
<1>6. \A v \in Workers : worker[v].pc = "idle" \/ worker[v].dir = x.dir
  BY <1>1, <1>3 DEF MigrationInv, WorkersInv, Together
<1>7. x.dir \in Directions /\ x.force \in BOOLEAN /\ x.cursor \in 0..LastPk
  BY <1>1, WorkerKnows
<1>8. CASE page = {}
  <2>1. PICK t : t = Task("drained", x.dir, x.force, x.cursor, <<>>, FALSE)
    BY Zenon
  <2>2. Goes(w, t) /\ t.dir = x.dir
    BY <1>1, <1>2, <1>8, <2>1, Zenon DEF Fetch, InPass, Task
  <2>3. Pending(x.dir, x.force, x.cursor) \in SUBSET Rows
    BY Zenon DEF Pending
  <2>4. Fit(x.dir)
    BY <1>2, <1>3, <1>8, <2>3, NoPage, NonePending, Zenon
  <2>5. /\ ~Begun(Opposite(x.dir)) /\ SourceCurrent(x.dir)
        /\ \A r \in 1..x.cursor : Visited(x.dir, x.force, r)
    BY <1>3 DEF TaskInv, InAPass
  <2>6. TaskInv(t)
    BY <1>7, <2>1, <2>4, <2>5, InPassInv, Zenon
  <2> QED
    BY <1>4, <1>5, <1>6, <2>2, <2>6, TakesUp, Zenon
<1>9. CASE page # {}
  <2>1. PICK t : t = Task("fetched", x.dir, x.force, x.cursor, [r \in page |-> col[Source(x.dir)][r]], FALSE)
    BY Zenon
  <2>2. Goes(w, t) /\ t.dir = x.dir
    BY <1>1, <1>2, <1>9, <2>1, Zenon DEF Fetch, InPass, Task
  <2>3. TaskInv(t)
    BY <1>2, <1>3, <1>9, <2>1, PageRead, Zenon
  <2> QED
    BY <1>4, <1>5, <1>6, <2>2, <2>3, TakesUp
<1> QED
  BY <1>8, <1>9
\* A pass ends, completed or with an error.
LEMMA EndStep ==
  ASSUME MigrationInv, NEW w \in Workers, Complete(w) \/ Fail(w)
  PROVE  MigrationInv'
<1>1. PICK x : x = worker[w]
  OBVIOUS
<1>2. PICK kind \in {"completed", "error"} :
        /\ Report(w, kind, worker[w].cursor) /\ Done(w)
        /\ IF kind = "completed" THEN x.pc = "drained" ELSE x.pc \in {"loop", "fetched", "drained"}
  BY <1>1, Zenon DEF Complete, Fail
<1>3. PICK e : e = Event(kind, x.force, x.cursor)
  OBVIOUS
<1>4. Record(x.dir, e, FALSE)
  BY <1>1, <1>2, <1>3, Zenon DEF Report
<1>5. TaskInv(x) /\ InAPass(x) /\ x.pc # "idle"
  BY <1>1, <1>2, WorkerKnows, Zenon DEF InAPass
<1>6. TrailInv(x.dir, e)
  BY <1>2, <1>3, <1>5, ReportHonest DEF Running
<1>7. PICK t : t = Idle
  OBVIOUS
<1>8. TaskInv(t) /\ t.pc = "idle" /\ Goes(w, t)
  BY <1>2, <1>7, IdleInv, Zenon DEF Idle, Task, Done
<1>9. UNCHANGED <<col, gone, latest, writes, files, overtaken>>
  BY Zenon DEF Complete, Fail
<1> QED
  BY <1>1, <1>4, <1>5, <1>6, <1>8, <1>9, Records, Zenon

\* A process is killed.
LEMMA StopStep ==
  ASSUME MigrationInv, NEW w \in Workers, Stop(w)
  PROVE  MigrationInv'
<1>1. PICK t : t = Idle
  OBVIOUS
<1>2. TaskInv(t) /\ t.pc = "idle" /\ Goes(w, t)
  BY <1>1, IdleInv, SMTT(30) DEF Idle, Task, Done, Stop
<1>3. UNCHANGED <<col, gone, latest, writes, last, owed, newest, overtaken, files>>
  BY DEF Stop
<1>4. files' \subseteq Directions /\ \A d \in files' : Fit(d)
  BY <1>3 DEF MigrationInv, Typed, ColumnsInv
<1> QED
  BY <1>2, <1>3, <1>4, TakesUp

\* A drop command writes its migration.
LEMMA GenerateStep ==
  ASSUME MigrationInv, ~Overlap, NEW w \in Workers, NEW d \in Directions, Generate(w, d)
  PROVE  MigrationInv'
<1>1. PICK t : t = Task("generated", d, FALSE, 0, <<>>, FALSE)
  BY Zenon
<1>2. Goes(w, t) /\ Alone(d) /\ gone = "none" /\ files' = files \cup {d}
  BY <1>1, Zenon DEF Generate
<1>3. last[d].event = "completed"
  BY Zenon DEF Generate, Phase, PhaseOf, Running
<1>4. Fit(d) /\ (gone = "none" => SourceCurrent(d))
  BY <1>3, Zenon DEF MigrationInv, TrailsInv, TrailInv
<1>5. ~Begun(Opposite(d))
  <2>1. Begun(d)
    BY <1>3 DEF Begun
  <2> QED
    BY <2>1 DEF MigrationInv, TrailsInv, Directions, Opposite
<1>6. TaskInv(t)
  BY <1>1, <1>4, <1>5, OutsidePass, Zenon
<1>7. \A v \in Workers : v = w \/ worker[v].pc = "idle" \/ worker[v].dir = t.dir
  BY <1>1, <1>2, Zenon DEF Alone, Task
<1>8. UNCHANGED <<col, gone, latest, writes, last, owed, newest, overtaken>>
  BY Zenon DEF Generate
<1>9. files' \subseteq Directions /\ \A x \in files' : Fit(x)
  BY <1>2, <1>4 DEF MigrationInv, Typed, ColumnsInv
<1> QED
  BY <1>2, <1>6, <1>7, <1>8, <1>9, TakesUp, Zenon

\* A dropped event claims nothing.
LEMMA DroppedEvent ==
  ASSUME NEW d, NEW e, e = Event("dropped", FALSE, 0)
  PROVE  TrailInv(d, e) /\ e.event = "dropped"
<1>1. "dropped" \in Events /\ 0 \in 0..LastPk
  BY Sizes DEF Events
<1>2. EventTyped(e)
  BY <1>1, UnforcedTyped, Zenon
<1>3. e.event = "dropped"
  BY DEF Event
<1>4. e.event \in {"none", "dropped"} /\ e.event # "completed" /\ e.event \notin Running
  BY <1>3, Zenon DEF Running
<1> QED
  BY <1>2, <1>3, <1>4, Zenon DEF TrailInv

\* recordDropGenerated.
LEMMA GeneratedStep ==
  ASSUME MigrationInv, NEW w \in Workers, Generated(w)
  PROVE  MigrationInv'
<1>1. PICK d : d = worker[w].dir
  OBVIOUS
<1>2. PICK e : e = Event("dropped", FALSE, 0)
  BY Zenon
<1>3. worker[w].pc # "idle" /\ Record(d, e, FALSE) /\ Goes(w, Idle)
  BY <1>1, <1>2, Zenon DEF Generated, Done
<1>4. TrailInv(d, e)
  BY <1>2, DroppedEvent, Zenon
<1>5. PICK t : t = Idle
  OBVIOUS
<1>6. TaskInv(t) /\ t.pc = "idle" /\ Goes(w, t)
  BY <1>3, <1>5, IdleInv, Zenon DEF Idle, Task
<1>7. UNCHANGED <<col, gone, latest, writes, files, overtaken>>
  BY Zenon DEF Generated
<1> QED
  BY <1>1, <1>3, <1>4, <1>6, <1>7, Records, Zenon

\* decrypt plan closes an encryption whose column is gone.  The record is no
\* worker's, so it may come while workers of either direction are at work.
LEMMA SourceRemovedStep ==
  ASSUME MigrationInv, RecordSourceRemoved
  PROVE  MigrationInv'
<1>1. PICK e : e = Event("dropped", FALSE, 0)
  BY Zenon
<1>2. UNCHANGED <<col, gone, latest, writes, files, worker, overtaken>> /\ Record("forward", e, FALSE)
  BY <1>1, Zenon DEF RecordSourceRemoved
<1>3. TrailInv("forward", e) /\ e.event = "dropped"
  BY <1>1, DroppedEvent, Zenon
<1>4. /\ DOMAIN last' = Directions
      /\ last'["forward"] = e /\ last'["reverse"] = last["reverse"]
  BY <1>2 DEF Record, MigrationInv, TrailsInv, Directions
<1>5. Typed'
  <2>1. owed' \in [Directions -> {"none", "existing-values", "forced-pass"}]
    BY <1>2 DEF Record, Owed, MigrationInv, Typed, Directions
  <2>2. newest' \in Directions
    BY <1>2 DEF Record, Directions
  <2> QED
    BY <1>2, <2>1, <2>2, Zenon DEF MigrationInv, Typed
<1>6. \A d \in Directions : Begun(d)' => Begun(d)
  BY <1>3, <1>4 DEF Begun, Directions
<1>7. WorkersInv'
  <2>1. ASSUME NEW v \in Workers PROVE TaskInv(worker[v])'
    <3>1. PICK x : x = worker'[v] /\ x = worker[v]
      BY <1>2
    <3>2. TaskInv(x) /\ x.dir \in Directions
      BY <3>1, WorkerKnows, Zenon
    <3>3. x.pc # "idle" => ~Begun(Opposite(x.dir))'
      BY <1>6, <3>2, Sides, Zenon DEF TaskInv
    <3>4. TaskInv(x)'
      BY <1>2, <3>2, <3>3, SameTask
    <3> QED
      BY <3>1, <3>4
  <2>2. \A u, v \in Workers : Together(u, v)'
    BY <1>2, ZenonT(60) DEF MigrationInv, WorkersInv, Together
  <2> QED
    BY <1>2, <2>1, <2>2, Zenon DEF MigrationInv, WorkersInv
<1>8. TrailsInv'
  <2>1. TrailInv("forward", e)'
    BY <1>2, <1>3, SameTrail
  <2>2. PICK o : o = last["reverse"]
    BY Zenon
  <2>3. TrailInv("reverse", o)
    BY <2>2 DEF MigrationInv, TrailsInv, Directions
  <2>4. TrailInv("reverse", o)'
    BY <1>2, <2>3, SameTrail
  <2>5. \A x \in Directions : TrailInv(x, last[x])'
    BY <1>4, <2>1, <2>2, <2>4 DEF Directions
  <2>6. ~Begun("forward")'
    BY <1>3, <1>4 DEF Begun
  <2> QED
    BY <1>4, <2>5, <2>6, Zenon DEF TrailsInv
<1>9. ColumnsInv'
  <2>1. \A x \in files' : Fit(x)'
    BY <1>2, SameColumns, Zenon DEF MigrationInv, ColumnsInv
  <2> QED
    BY <1>2, <2>1 DEF MigrationInv, ColumnsInv
<1> QED
  BY <1>5, <1>7, <1>8, <1>9 DEF MigrationInv
\* The plaintext column is added again.
LEMMA AddTwinStep ==
  ASSUME MigrationInv, AddTwin
  PROVE  MigrationInv'
<1>1. /\ gone = "plain" /\ gone' = "none"
      /\ UNCHANGED <<col, latest, writes, last, owed, newest, files, worker, overtaken>>
      /\ \A w \in Workers : worker[w].pc = "idle"
  BY DEF AddTwin
<1>2. last["forward"].event \in {"none", "dropped"}
  BY DEF AddTwin, Blocked, Opposite
<1>3. last["reverse"].event \in {"none", "dropped"}
  BY SMTT(30) DEF AddTwin, Phase, PhaseOf, InProgress, Superseded, None, Event, Running
<1>4. Typed'
  BY <1>1, Zenon DEF MigrationInv, Typed
<1>5. WorkersInv'
  <2>1. ASSUME NEW v \in Workers PROVE TaskInv(worker[v])'
    <3>1. PICK x : x = worker'[v] /\ x = worker[v]
      BY <1>1
    <3>2. TaskTyped(x) /\ x.pc = "idle"
      BY <1>1, <3>1, WorkerKnows, Zenon DEF TaskInv
    <3>3. ~InAPass(x) /\ x.pc # "fetched"
      BY <3>2 DEF InAPass
    <3>4. TaskInv(x)'
      BY <3>2, <3>3, Zenon DEF TaskInv
    <3> QED
      BY <3>1, <3>4
  <2>2. \A u, v \in Workers : Together(u, v)'
    BY <1>1, Zenon DEF Together
  <2> QED
    BY <1>1, <2>1, <2>2, Zenon DEF MigrationInv, WorkersInv
<1>6. TrailsInv'
  <2>1. ASSUME NEW d \in Directions PROVE TrailInv(d, last[d])' /\ ~Begun(d)'
    <3>1. PICK e : e = last'[d] /\ e = last[d]
      BY <1>1
    <3>2. EventTyped(e)
      BY <3>1, Zenon DEF MigrationInv, TrailsInv, TrailInv
    <3>3. e.event \in {"none", "dropped"} /\ e.event # "completed" /\ e.event \notin Running
      BY <1>2, <1>3, <3>1 DEF Directions, Running
    <3>4. TrailInv(d, e)'
      BY <3>2, <3>3, Zenon DEF TrailInv
    <3> QED
      BY <3>1, <3>3, <3>4 DEF Begun
  <2> QED
    BY <1>1, <2>1 DEF MigrationInv, TrailsInv, Directions
<1>7. ColumnsInv'
  <2>1. \A r \in Rows : col["plain"][r] = 0
    BY <1>1, SMTT(30) DEF MigrationInv, ColumnsInv, Columns
  <2>2. \A r \in Rows \ overtaken : latest[r] # 0 => col["cipher"][r] = latest[r]
    BY <1>1 DEF MigrationInv, ColumnsInv, Columns
  <2>3. \A r \in Rows \ overtaken : \E c \in Columns : col[c][r] = latest[r]
    BY <2>1, <2>2 DEF Columns
  <2>4. \A d \in files' : Fit(d)'
    BY <1>1, SameColumns, Zenon DEF MigrationInv, ColumnsInv
  <2> QED
    BY <1>1, <2>3, <2>4 DEF ColumnsInv, Columns
<1> QED
  BY <1>4, <1>5, <1>6, <1>7 DEF MigrationInv

-----------------------------------------------------------------------------
(* Steps that change the columns                                           *)

\* A step that keeps the claims about a direction keeps those of a task in it.
LEMMA KeepsTask ==
  ASSUME NEW t, TaskInv(t), gone = "none",
         t.pc # "idle" => ~Begun(Opposite(t.dir))',
         SourceCurrent(t.dir) => SourceCurrent(t.dir)', Fit(t.dir) => Fit(t.dir)',
         \A force \in BOOLEAN, r \in Rows : Visited(t.dir, force, r) => Visited(t.dir, force, r)',
         t.pc = "fetched" /\ PageHonest(t) => PageHonest(t)'
  PROVE  TaskInv(t)'
<1>1. t.cursor \in 0..LastPk /\ t.force \in BOOLEAN
  BY Zenon DEF TaskInv, TaskTyped
<1>2. \A r \in 1..t.cursor : r \in Rows
  BY <1>1, Sizes DEF Rows
<1> QED
  BY <1>1, <1>2, Zenon DEF TaskInv

\* And those of an event.
LEMMA KeepsTrail ==
  ASSUME NEW d, NEW e, TrailInv(d, e), gone = "none",
         SourceCurrent(d) => SourceCurrent(d)', Fit(d) => Fit(d)',
         \A force \in BOOLEAN, r \in Rows : Visited(d, force, r) => Visited(d, force, r)'
  PROVE  TrailInv(d, e)'
<1>1. e.cursor \in 0..LastPk /\ e.force \in BOOLEAN
  BY DEF TrailInv, EventTyped
<1>2. \A r \in 1..e.cursor : r \in Rows
  BY <1>1, Sizes DEF Rows
<1> QED
  BY <1>1, <1>2, Zenon DEF TrailInv

\* The application's write keeps every claim: it makes both columns current.
LEMMA WriteKeeps ==
  ASSUME MigrationInv, NEW row \in Rows, Write(row), NEW d \in Directions
  PROVE  /\ SourceCurrent(d) => SourceCurrent(d)'
         /\ Fit(d) => Fit(d)'
         /\ \A force \in BOOLEAN, r \in Rows : Visited(d, force, r) => Visited(d, force, r)'
         /\ \A force \in BOOLEAN : Visited(d, force, row)'
<1>1. PICK v : /\ col' = [c \in Columns |-> [col[c] EXCEPT ![row] = v]]
               /\ latest' = [latest EXCEPT ![row] = v]
               /\ overtaken' = overtaken \ {row}
  BY Zenon DEF Write
<1>2. /\ \A c \in Columns : col'[c][row] = v /\ \A r \in Rows \ {row} : col'[c][r] = col[c][r]
      /\ latest'[row] = v /\ \A r \in Rows \ {row} : latest'[r] = latest[r]
  BY <1>1 DEF MigrationInv, Typed
<1>3. Source(d) \in Columns /\ Target(d) \in Columns
  BY Sides
<1>4. SourceCurrent(d) => SourceCurrent(d)'
  BY <1>1, <1>2, <1>3, SMTT(30) DEF SourceCurrent
<1>5. Fit(d) => Fit(d)'
  BY <1>1, <1>2, <1>3 DEF Fit, Fits
<1>6. \A force \in BOOLEAN : Visited(d, force, row)'
  BY <1>1, <1>2, <1>3, Zenon DEF Visited
<1>7. \A force \in BOOLEAN, r \in Rows \ {row} : Visited(d, force, r) => Visited(d, force, r)'
  BY <1>1, <1>2, <1>3, ZenonT(60) DEF Visited
<1> QED
  BY <1>4, <1>5, <1>6, <1>7
\* What a worker has read before the write is still what the source column
\* has, or is replaced.
LEMMA WriteKeepsPage ==
  ASSUME MigrationInv, NEW row \in Rows, Write(row), NEW t, TaskTyped(t), PageHonest(t)
  PROVE  PageHonest(t)'
<1>1. t.dir \in Directions /\ DOMAIN t.page \subseteq Rows /\ t.force \in BOOLEAN
  BY DEF TaskTyped
<1>2. /\ \A r \in Rows \ {row} : /\ col'[Source(t.dir)][r] = col[Source(t.dir)][r]
                                 /\ latest'[r] = latest[r]
      /\ col'[Source(t.dir)][row] = latest'[row]
  BY <1>1, Sides, SMTT(30) DEF Write, MigrationInv, Typed
<1>3. /\ \A force \in BOOLEAN, r \in Rows : Visited(t.dir, force, r) => Visited(t.dir, force, r)'
      /\ \A force \in BOOLEAN : Visited(t.dir, force, row)'
  BY <1>1, WriteKeeps
<1>4. ASSUME NEW r \in DOMAIN t.page
      PROVE  /\ t.page[r] = latest'[r] => col'[Source(t.dir)][r] = latest'[r]
             /\ t.page[r] = col'[Source(t.dir)][r] \/ Visited(t.dir, TRUE, r)'
  <2>1. CASE r = row
    BY <1>2, <1>3, <2>1, Zenon
  <2>2. CASE r # row
    <3>1. r \in Rows
      BY <1>1
    <3>2. /\ t.page[r] = latest[r] => col[Source(t.dir)][r] = latest[r]
          /\ t.page[r] = col[Source(t.dir)][r] \/ Visited(t.dir, TRUE, r)
      BY Zenon DEF PageHonest
    <3> QED
      BY <1>2, <1>3, <2>2, <3>1, <3>2, Zenon
  <2> QED
    BY <2>1, <2>2, Zenon
<1>5. ASSUME NEW r \in Rows, NEW q \in DOMAIN t.page, r < q, r \notin DOMAIN t.page
      PROVE  Visited(t.dir, t.force, r)'
  <2>1. Visited(t.dir, t.force, r)
    BY <1>5 DEF PageHonest
  <2> QED
    BY <1>1, <1>3, <2>1
<1> QED
  BY <1>4, <1>5, Zenon DEF PageHonest

\* The application writes a row.
LEMMA WriteStep ==
  ASSUME MigrationInv, NEW row \in Rows, Write(row)
  PROVE  MigrationInv'
<1>1. gone = "none" /\ UNCHANGED <<gone, last, owed, newest, files, worker>>
  BY DEF Write
<1>2. PICK v \in {writes + 2, 0} :
               /\ col' = [c \in Columns |-> [col[c] EXCEPT ![row] = v]]
               /\ latest' = [latest EXCEPT ![row] = v]
               /\ overtaken' = overtaken \ {row} /\ writes' = writes + 1 /\ writes < MaxWrites
  BY Zenon DEF Write
<1>3. Typed'
  <2>1. writes \in 0..MaxWrites
    BY DEF MigrationInv, Typed
  <2>2. v \in 0..(MaxWrites + 1) /\ v \in Values /\ writes' \in 0..MaxWrites
    BY <1>2, <2>1, Sizes DEF Values
  <2>3. \A c \in Columns : [col[c] EXCEPT ![row] = v] \in [Rows -> Values]
    BY <2>2 DEF MigrationInv, Typed
  <2>4. col' \in [Columns -> [Rows -> Values]] /\ latest' \in [Rows -> 0..(MaxWrites + 1)]
    BY <1>2, <2>2, <2>3 DEF MigrationInv, Typed
  <2> QED
    BY <1>1, <1>2, <2>2, <2>4, Zenon DEF MigrationInv, Typed
<1>4. WorkersInv'
  <2>1. ASSUME NEW w \in Workers PROVE TaskInv(worker[w])'
    <3>1. PICK x : x = worker'[w] /\ x = worker[w]
      BY <1>1
    <3>2. TaskInv(x) /\ TaskTyped(x) /\ x.dir \in Directions
      BY <3>1, WorkerKnows, Zenon DEF TaskInv
    <3>3. x.pc # "idle" => ~Begun(Opposite(x.dir))'
      BY <1>1, <3>2, Zenon DEF TaskInv, Begun
    <3>4. /\ SourceCurrent(x.dir) => SourceCurrent(x.dir)'
          /\ Fit(x.dir) => Fit(x.dir)'
          /\ \A force \in BOOLEAN, r \in Rows : Visited(x.dir, force, r) => Visited(x.dir, force, r)'
      BY <3>2, WriteKeeps
    <3>5. PageHonest(x) => PageHonest(x)'
      BY <3>2, WriteKeepsPage
    <3>6. TaskInv(x)'
      BY <1>1, <3>2, <3>3, <3>4, <3>5, KeepsTask, Zenon
    <3> QED
      BY <3>1, <3>6
  <2>2. \A u, w \in Workers : Together(u, w)'
    BY <1>1, ZenonT(60) DEF MigrationInv, WorkersInv, Together
  <2> QED
    BY <1>1, <2>1, <2>2 DEF MigrationInv, WorkersInv
<1>5. TrailsInv'
  <2>1. ASSUME NEW d \in Directions PROVE TrailInv(d, last[d])'
    <3>1. PICK e : e = last'[d] /\ e = last[d]
      BY <1>1
    <3>2. TrailInv(d, e)
      BY <3>1 DEF MigrationInv, TrailsInv
    <3>3. TrailInv(d, e)'
      BY <1>1, <3>2, WriteKeeps, KeepsTrail
    <3> QED
      BY <3>1, <3>3, Zenon
  <2> QED
    BY <1>1, <2>1, Zenon DEF MigrationInv, TrailsInv, Begun
<1>6. ColumnsInv'
  <2>1. \A d \in files' : Fit(d)'
    BY <1>1, WriteKeeps, Zenon DEF MigrationInv, Typed, ColumnsInv
  <2>2. /\ \A c \in Columns : col'[c][row] = v /\ \A r \in Rows \ {row} : col'[c][r] = col[c][r]
        /\ latest'[row] = v /\ \A r \in Rows \ {row} : latest'[r] = latest[r]
    BY <1>2 DEF MigrationInv, Typed
  <2>3. \A r \in Rows \ overtaken' : \E c \in Columns : col'[c][r] = latest'[r]
    <3>1. SUFFICES ASSUME NEW r \in Rows \ overtaken' PROVE \E c \in Columns : col'[c][r] = latest'[r]
      OBVIOUS
    <3>2. CASE r = row
      BY <2>2, <3>2 DEF Columns
    <3>3. CASE r # row
      BY <1>1, <1>2, <2>2, <3>3, SMTT(30) DEF MigrationInv, ColumnsInv
    <3> QED
      BY <3>2, <3>3
  <2> QED
    BY <1>1, <2>1, <2>3, Zenon DEF ColumnsInv, Columns
<1> QED
  BY <1>3, <1>4, <1>5, <1>6 DEF MigrationInv
\* The application of a drop migration empties one column.
LEMMA ApplyFits ==
  ASSUME MigrationInv, NEW d \in Directions, Apply(d), NEW y \in Directions, Fit(y)
  PROVE  Fit(y)'
<1>1. /\ \A r \in Rows : col'[Source(d)][r] = 0
      /\ \A c \in Columns \ {Source(d)} : col'[c] = col[c]
      /\ UNCHANGED <<latest, overtaken>>
  BY Sides, SMTT(30) DEF Apply, MigrationInv, Typed
<1>2. Target(y) \in Columns
  BY Sides
<1>3. CASE Target(y) = Source(d)
  BY <1>1, <1>3, Zenon DEF Fit, Fits
<1>4. CASE Target(y) # Source(d)
  BY <1>1, <1>2, <1>4, Zenon DEF Fit, Fits
<1> QED
  BY <1>3, <1>4

\* A drop migration that is applied, however late, drops a column of which
\* every value is in the other: the migration counts the rows that are not
\* covered, and no twin is set and stale.
LEMMA ApplyStep ==
  ASSUME MigrationInv, NEW d \in Directions, Apply(d)
  PROVE  MigrationInv'
<1>1. /\ d \in files /\ gone = "none" /\ Covered(d) /\ gone' = Source(d)
      /\ col' = [col EXCEPT ![Source(d)] = [r \in Rows |-> 0]]
      /\ files' = files \ {d}
      /\ UNCHANGED <<latest, writes, last, owed, newest, worker, overtaken>>
  BY DEF Apply
<1>2. /\ Source(d) \in Columns /\ Target(d) \in Columns /\ Source(d) # Target(d)
      /\ \A c \in Columns : c = Source(d) \/ c = Target(d)
  BY Sides, SMTT(30)
<1>3. gone' # "none"
  BY <1>1, <1>2, SMTT(30) DEF Columns
<1>4. Typed'
  <2>1. [r \in Rows |-> 0] \in [Rows -> Values]
    BY Sizes DEF Values
  <2>2. col' \in [Columns -> [Rows -> Values]]
    BY <1>1, <1>2, <2>1 DEF MigrationInv, Typed
  <2> QED
    BY <1>1, <1>2, <2>2, Zenon DEF MigrationInv, Typed
<1>5. WorkersInv'
  <2>1. ASSUME NEW w \in Workers PROVE TaskInv(worker[w])'
    <3>1. PICK x : x = worker'[w] /\ x = worker[w]
      BY <1>1
    <3>2. TaskInv(x) /\ x.dir \in Directions
      BY <3>1, WorkerKnows
    <3>3. Fit(x.dir) => Fit(x.dir)'
      BY <3>2, ApplyFits
    <3>4. x.pc # "idle" => ~Begun(Opposite(x.dir))'
      BY <1>1, <3>2, Zenon DEF TaskInv, Begun
    <3>5. TaskInv(x)'
      BY <1>3, <3>2, <3>3, <3>4, Zenon DEF TaskInv
    <3> QED
      BY <3>1, <3>5
  <2>2. \A u, w \in Workers : Together(u, w)'
    BY <1>1, ZenonT(60) DEF MigrationInv, WorkersInv, Together
  <2> QED
    BY <1>1, <2>1, <2>2 DEF MigrationInv, WorkersInv
<1>6. TrailsInv'
  <2>1. ASSUME NEW y \in Directions PROVE TrailInv(y, last[y])'
    <3>1. PICK e : e = last'[y] /\ e = last[y]
      BY <1>1
    <3>2. TrailInv(y, e)
      BY <3>1 DEF MigrationInv, TrailsInv
    <3>3. Fit(y) => Fit(y)'
      BY ApplyFits
    <3>4. TrailInv(y, e)'
      BY <1>3, <3>2, <3>3, Zenon DEF TrailInv
    <3> QED
      BY <3>1, <3>4
  <2> QED
    BY <1>1, <2>1, Zenon DEF MigrationInv, TrailsInv, Begun
<1>7. ColumnsInv'
  <2>1. \A y \in files' : Fit(y)'
    BY <1>1, ApplyFits, Zenon DEF MigrationInv, Typed, ColumnsInv
  <2>2. /\ \A r \in Rows : col'[Source(d)][r] = 0
        /\ col'[Target(d)] = col[Target(d)]
    BY <1>1, <1>2, SMTT(30) DEF MigrationInv, Typed
  <2>3. ASSUME NEW r \in Rows \ overtaken, latest[r] # 0 PROVE col[Target(d)][r] = latest[r]
    <3>1. col[Target(d)][r] \in {0, latest[r]}
      BY <1>1, <2>3, Zenon DEF MigrationInv, ColumnsInv, Fit, Fits
    <3>2. col[Source(d)][r] = latest[r] \/ col[Target(d)][r] = latest[r]
      BY <1>1, <1>2, Zenon DEF MigrationInv, ColumnsInv
    <3>3. col[Source(d)][r] # 0 => col[Target(d)][r] # 0
      BY <1>1 DEF Covered
    <3> QED
      BY <2>3, <3>1, <3>2, <3>3, Zenon
  <2> QED
    BY <1>1, <1>2, <1>3, <2>1, <2>2, <2>3, SMTT(30) DEF ColumnsInv
<1> QED
  BY <1>4, <1>5, <1>6, <1>7 DEF MigrationInv

\* What a chunk does to a row: one that it writes gets the value of the source,
\* or is cleared if it does not decrypt; every other one keeps its twin.
Chunked(d, to, r) ==
  /\ col'[Source(d)][r] = latest[r] /\ col[Source(d)][r] = latest[r]
  /\ r \in to => /\ col'[Target(d)][r] \in {0, latest[r]}
                 /\ Decrypts(d, r) => col'[Target(d)][r] = latest[r]
  /\ r \notin to => r \notin overtaken /\ col'[Target(d)][r] = col[Target(d)][r]

\* A chunk does so to every row that is not overtaken, as long as the other
\* direction is at rest.
LEMMA ChunkRows ==
  ASSUME MigrationInv, NEW w \in Workers, Commit(w), NEW x, x = worker[w],
         NEW to, to = Writable(x.dir, x.force, x.page), NEW r \in Rows, r \notin overtaken'
  PROVE  Chunked(x.dir, to, r)
<1> USE DEF Chunked
<1>1. /\ x.pc = "fetched" /\ gone = "none"
      /\ col' = [col EXCEPT ![Target(x.dir)] =
                      [q \in Rows |-> IF q \in to THEN Converted(x.dir, q, x.page[q]) ELSE @[q]]]
      /\ overtaken' = IF x.dir = "reverse" THEN overtaken
              ELSE (overtaken \ to) \cup {q \in to : x.page[q] # latest[q]}
  BY Zenon DEF Commit
<1>2. TaskInv(x) /\ x.dir \in Directions
  BY WorkerKnows
<1>3. SourceCurrent(x.dir) /\ PageHonest(x) /\ DOMAIN x.page \subseteq Rows
  BY <1>1, <1>2, Zenon DEF TaskInv, TaskTyped
<1>4. /\ col'[Source(x.dir)] = col[Source(x.dir)]
      /\ col'[Target(x.dir)][r] = IF r \in to THEN Converted(x.dir, r, x.page[r]) ELSE col[Target(x.dir)][r]
  BY <1>1, <1>2, Sides, Zenon DEF MigrationInv, Typed
<1>5. to \subseteq DOMAIN x.page
  BY Zenon DEF Writable
<1>6. CASE x.dir = "forward"
  <2>1. r \in to => x.page[r] = latest[r]
    BY <1>1, <1>6, Zenon
  <2>2. r \notin to => r \notin overtaken
    BY <1>1, <1>6, Zenon
  <2>3. col[Source(x.dir)][r] = latest[r]
    BY <1>3, <1>5, <2>1, <2>2, Zenon DEF SourceCurrent, PageHonest
  <2>4. r \in to => Converted(x.dir, r, x.page[r]) = latest[r]
    BY <1>6, <2>1, Zenon DEF Converted
  <2> QED
    BY <1>4, <2>2, <2>3, <2>4, Zenon
<1>7. CASE x.dir = "reverse"
  <2>1. r \notin overtaken
    BY <1>1, <1>7, Zenon
  <2>2. col[Source(x.dir)][r] = latest[r]
    BY <1>3, <2>1, Zenon DEF SourceCurrent
  <2>3. r \in to => x.page[r] = latest[r]
    BY <1>7, <2>2, Zenon DEF Writable, Source
  <2>4. r \in to => /\ Converted(x.dir, r, x.page[r]) \in {0, latest[r]}
                    /\ Decrypts(x.dir, r) => Converted(x.dir, r, x.page[r]) = latest[r]
    BY <2>3, Zenon DEF Converted, Decrypts
  <2> QED
    BY <1>4, <2>1, <2>2, <2>4, Zenon
<1> QED
  BY <1>2, <1>6, <1>7, Zenon DEF Directions

\* A chunk keeps every claim about its own direction, and no twin of the other
\* is stale after it.
LEMMA ChunkKeeps ==
  ASSUME MigrationInv, NEW w \in Workers, Commit(w), NEW x, x = worker[w]
  PROVE  /\ SourceCurrent(x.dir)'
         /\ Fit(x.dir) => Fit(x.dir)'
         /\ Fit(Opposite(x.dir))'
         /\ \A force \in BOOLEAN, r \in Rows : Visited(x.dir, force, r) => Visited(x.dir, force, r)'
<1>1. PICK to : to = Writable(x.dir, x.force, x.page)
  OBVIOUS
<1>2. UNCHANGED latest /\ x.dir \in Directions
  BY WorkerKnows, Zenon DEF Commit
<1>3. \A r \in Rows : r \notin overtaken' =>
         /\ col'[Source(x.dir)][r] = latest[r]
         /\ r \in to => /\ col'[Target(x.dir)][r] \in {0, latest[r]}
                        /\ Decrypts(x.dir, r) => col'[Target(x.dir)][r] = latest[r]
         /\ r \notin to => r \notin overtaken /\ col'[Target(x.dir)][r] = col[Target(x.dir)][r]
  <2>1. ASSUME NEW r \in Rows, r \notin overtaken' PROVE Chunked(x.dir, to, r)
    BY <1>1, <2>1, ChunkRows, Zenon
  <2> QED
    BY <2>1, Zenon DEF Chunked
<1>4. SourceCurrent(x.dir)'
  BY <1>2, <1>3, Zenon DEF SourceCurrent
<1>5. Fit(x.dir) => Fit(x.dir)'
  BY <1>2, <1>3, Zenon DEF Fit, Fits
<1>6. Fit(Opposite(x.dir))'
  <2>1. Target(Opposite(x.dir)) = Source(x.dir)
    BY <1>2, Sides DEF Target
  <2> QED
    BY <1>2, <1>3, <2>1, Zenon DEF Fit, Fits
<1>7. ASSUME NEW force \in BOOLEAN, NEW r \in Rows, Visited(x.dir, force, r)
      PROVE  Visited(x.dir, force, r)'
  <2>1. SUFFICES ASSUME r \notin overtaken', latest[r] # 0
                 PROVE  /\ force => col'[Target(x.dir)][r] \in {0, latest[r]}
                        /\ Decrypts(x.dir, r) => IF force THEN col'[Target(x.dir)][r] = latest[r]
                                                          ELSE col'[Target(x.dir)][r] # 0
    BY <1>2, Zenon DEF Visited, Decrypts
  <2>2. CASE r \in to
    BY <1>3, <2>1, <2>2, Zenon
  <2>3. CASE r \notin to
    BY <1>3, <1>7, <2>1, <2>3, Zenon DEF Visited
  <2> QED
    BY <2>2, <2>3, Zenon
<1> QED
  BY <1>4, <1>5, <1>6, <1>7

\* A chunk keeps what another worker has read.
LEMMA ChunkKeepsPage ==
  ASSUME MigrationInv, NEW w \in Workers, Commit(w), NEW x, x = worker[w],
         NEW t, TaskTyped(t), PageHonest(t), t.dir = x.dir
  PROVE  PageHonest(t)'
<1>1. x.dir \in Directions /\ DOMAIN t.page \subseteq Rows /\ t.force \in BOOLEAN
  BY WorkerKnows, Zenon DEF TaskTyped
<1>2. UNCHANGED latest /\ col'[Source(x.dir)] = col[Source(x.dir)]
  BY <1>1, Sides, Zenon DEF Commit, MigrationInv, Typed
<1>3. \A force \in BOOLEAN, r \in Rows : Visited(x.dir, force, r) => Visited(x.dir, force, r)'
  BY ChunkKeeps, Zenon
<1>4. ASSUME NEW r \in DOMAIN t.page
      PROVE  /\ t.page[r] = latest'[r] => col'[Source(t.dir)][r] = latest'[r]
             /\ t.page[r] = col'[Source(t.dir)][r] \/ Visited(t.dir, TRUE, r)'
  <2>1. /\ t.page[r] = latest[r] => col[Source(t.dir)][r] = latest[r]
        /\ t.page[r] = col[Source(t.dir)][r] \/ Visited(x.dir, TRUE, r)
    BY Zenon DEF PageHonest
  <2> QED
    BY <1>1, <1>2, <1>3, <2>1, Zenon
<1>5. ASSUME NEW r \in Rows, NEW q \in DOMAIN t.page, r < q, r \notin DOMAIN t.page
      PROVE  Visited(t.dir, t.force, r)'
  <2>1. Visited(x.dir, t.force, r)
    BY <1>5, Zenon DEF PageHonest
  <2> QED
    BY <1>1, <1>3, <2>1, Zenon
<1> QED
  BY <1>4, <1>5, Zenon DEF PageHonest

\* After a chunk, every row up to the last of its page is done: it was written,
\* or the UPDATE left it alone because its twin is there already, or, reverse,
\* because the application has written the row since it was read.
LEMMA ChunkVisits ==
  ASSUME MigrationInv, NEW w \in Workers, Commit(w), NEW x, x = worker[w],
         NEW r \in 1..LastPkOf(x.page)
  PROVE  Visited(x.dir, x.force, r)'
<1>1. PICK to : to = Writable(x.dir, x.force, x.page)
  OBVIOUS
<1>2. x.pc = "fetched" /\ gone = "none" /\ UNCHANGED latest
  BY Zenon DEF Commit
<1>3. TaskInv(x) /\ x.dir \in Directions /\ x.force \in BOOLEAN
  BY WorkerKnows, Zenon
<1>4. PageHonest(x) /\ DOMAIN x.page \subseteq Rows /\ DOMAIN x.page # {}
  BY <1>2, <1>3, Zenon DEF TaskInv, TaskTyped
<1>5. /\ LastPkOf(x.page) \in DOMAIN x.page
      /\ \A q \in DOMAIN x.page : q =< LastPkOf(x.page)
  BY <1>4, LastOfPage, Zenon
<1>6. r \in Rows
  BY <1>4, <1>5, Sizes DEF Rows
<1>7. Visited(x.dir, x.force, r) => Visited(x.dir, x.force, r)'
  BY <1>3, <1>6, ChunkKeeps, Zenon
<1>8. CASE r \notin DOMAIN x.page
  <2>1. r < LastPkOf(x.page)
    BY <1>4, <1>5, <1>6, <1>8, Sizes DEF Rows
  <2>2. Visited(x.dir, x.force, r)
    BY <1>4, <1>5, <1>6, <1>8, <2>1, Zenon DEF PageHonest
  <2> QED
    BY <1>7, <2>2
<1>9. CASE r \in to
  <2>1. r \notin overtaken' =>
          /\ col'[Target(x.dir)][r] \in {0, latest[r]}
          /\ Decrypts(x.dir, r) => col'[Target(x.dir)][r] = latest[r]
    <3>1. r \notin overtaken' => Chunked(x.dir, to, r)
      BY <1>1, <1>6, ChunkRows, Zenon
    <3> QED
      BY <1>9, <3>1, Zenon DEF Chunked
  <2> QED
    BY <1>2, <2>1, Zenon DEF Visited, Decrypts
<1>10. CASE r \in DOMAIN x.page /\ r \notin to
  <2>1. x.page[r] = col[Source(x.dir)][r] \/ Visited(x.dir, TRUE, r)
    BY <1>4, <1>10, Zenon DEF PageHonest
  <2>2. CASE Visited(x.dir, TRUE, r)
    <3>1. Visited(x.dir, x.force, r)
      BY <1>3, <2>2, Zenon DEF Visited
    <3> QED
      BY <1>7, <3>1
  <2>3. CASE x.page[r] = col[Source(x.dir)][r]
    <3>1. x.force = FALSE /\ (col[Target(x.dir)][r] # 0 \/ ~Decrypts(x.dir, r))
      BY <1>1, <1>3, <1>10, <2>3, Zenon DEF Writable, Decrypts, Directions, Source, Target, Opposite
    <3>2. Visited(x.dir, x.force, r)
      BY <3>1, Zenon DEF Visited
    <3> QED
      BY <1>7, <3>2
  <2> QED
    BY <2>1, <2>2, <2>3, Zenon
<1> QED
  BY <1>8, <1>9, <1>10, Zenon
\* One transaction: the chunk and its checkpoint.
LEMMA CommitStep ==
  ASSUME MigrationInv, NEW w \in Workers, Commit(w)
  PROVE  MigrationInv'
<1>1. PICK x : x = worker[w]
  OBVIOUS
<1>2. PICK d : d = x.dir
  OBVIOUS
<1>3. PICK lastPk : lastPk = LastPkOf(x.page)
  OBVIOUS
<1>4. PICK e : e = Event("checkpoint", x.force, lastPk)
  OBVIOUS
<1>5. PICK t : t = Task("loop", d, x.force, lastPk, <<>>, FALSE)
  BY Zenon
<1>6. /\ x.pc = "fetched" /\ gone = "none" /\ UNCHANGED <<gone, latest, writes, files>>
      /\ Record(d, e, FALSE) /\ Goes(w, t)
  BY <1>1, <1>2, <1>3, <1>4, <1>5, Zenon DEF Commit, Report, InPass
<1>7. TaskInv(x) /\ d \in Directions /\ x.force \in BOOLEAN
  BY <1>1, <1>2, WorkerKnows, Zenon
<1>8. DOMAIN x.page \subseteq Rows /\ DOMAIN x.page # {} /\ \A r \in DOMAIN x.page : x.page[r] \in Values
  BY <1>6, <1>7, Zenon DEF TaskInv, TaskTyped
<1>9. lastPk \in 0..LastPk
  BY <1>3, <1>8, LastOfPage, Sizes, SMTT(30) DEF Rows
<1>10. /\ SourceCurrent(d)' /\ (Fit(d) => Fit(d)') /\ Fit(Opposite(d))'
       /\ \A force \in BOOLEAN, r \in Rows : Visited(d, force, r) => Visited(d, force, r)'
  BY <1>1, <1>2, ChunkKeeps
<1>11. \A r \in 1..lastPk : Visited(d, x.force, r)'
  BY <1>1, <1>2, <1>3, ChunkVisits
<1>12. DOMAIN worker = Workers /\ DOMAIN last = Directions
  BY DEF MigrationInv, WorkersInv, TrailsInv
<1>13. worker'[w] = t /\ DOMAIN worker' = Workers /\ \A v \in Workers \ {w} : worker'[v] = worker[v]
  BY <1>6, <1>12 DEF Goes
<1>14. /\ last'[d] = e /\ last'[Opposite(d)] = last[Opposite(d)]
       /\ DOMAIN last' = Directions
  BY <1>6, <1>7, <1>12, Sides DEF Record
<1>15. ~Begun(Opposite(d)) /\ ~Begun(Opposite(d))'
  BY <1>2, <1>6, <1>7, <1>14, Zenon DEF TaskInv, Begun
<1>16. t.pc = "loop" /\ t.dir = d /\ t.force = x.force /\ t.cursor = lastPk
  BY <1>5, Zenon DEF Task
<1>17. Typed'
  <2>1. owed' \in [Directions -> {"none", "existing-values", "forced-pass"}]
    BY <1>6, <1>7 DEF Record, Owed, MigrationInv, Typed
  <2>2. newest' \in Directions
    BY <1>6, <1>7 DEF Record
  <2>3. PICK to : to = Writable(d, x.force, x.page)
    OBVIOUS
  <2>4. to \subseteq DOMAIN x.page
    BY <2>3, Zenon DEF Writable
  <2>5. overtaken' \subseteq Rows
    BY <1>1, <1>2, <1>8, <2>3, <2>4, Zenon DEF Commit, MigrationInv, Typed
  <2>6. col' \in [Columns -> [Rows -> Values]]
    <3>1. \A r \in to : Converted(d, r, x.page[r]) \in Values
      BY <1>8, <2>4, Sizes DEF Converted, Values
    <3>2. [r \in Rows |-> IF r \in to THEN Converted(d, r, x.page[r]) ELSE col[Target(d)][r]] \in [Rows -> Values]
      BY <1>7, <3>1, Sides DEF MigrationInv, Typed
    <3> QED
      BY <1>1, <1>2, <1>7, <2>3, <3>2, Sides, Zenon DEF Commit, MigrationInv, Typed
  <2> QED
    BY <1>6, <2>1, <2>2, <2>5, <2>6, Zenon DEF MigrationInv, Typed
<1>18. \A v \in Workers : worker[v].pc = "idle" \/ worker[v].dir = d
  BY <1>1, <1>2, <1>6, Zenon DEF MigrationInv, WorkersInv, Together
<1>19. WorkersInv'
  <2>1. TaskInv(t)'
    <3>1. TaskTyped(t)
      BY <1>5, <1>7, <1>9, TaskOfParts, Zenon DEF Pcs
    <3>2. t.pc # "fetched" /\ t.pc # "drained" /\ InAPass(t)
      BY <1>16, Zenon DEF InAPass
    <3>3. t.force = FALSE => Fit(d)'
      BY <1>2, <1>6, <1>7, <1>10, <1>16, Zenon DEF TaskInv, InAPass
    <3>4. \A r \in 1..t.cursor : Visited(d, t.force, r)'
      BY <1>11, <1>16, Zenon
    <3> QED
      BY <1>10, <1>15, <1>16, <3>1, <3>2, <3>3, <3>4, Zenon DEF TaskInv
  <2>2. ASSUME NEW v \in Workers \ {w} PROVE TaskInv(worker[v])'
    <3>1. PICK y : y = worker[v] /\ y = worker'[v]
      BY <1>13
    <3>2. TaskInv(y) /\ TaskTyped(y) /\ y.dir \in Directions
      BY <3>1, WorkerKnows, Zenon DEF TaskInv
    <3>3. CASE y.pc = "idle"
      <4>1. ~InAPass(y) /\ y.pc # "fetched"
        BY <3>3 DEF InAPass
      <4>2. TaskInv(y)'
        BY <3>2, <3>3, <4>1, Zenon DEF TaskInv
      <4> QED
        BY <3>1, <4>2, Zenon
    <3>4. CASE y.pc # "idle"
      <4>1. y.dir = d
        BY <1>18, <3>1, <3>4, Zenon
      <4>2. PageHonest(y) => PageHonest(y)'
        BY <1>1, <1>2, <3>2, <4>1, ChunkKeepsPage, Zenon
      <4>3. TaskInv(y)'
        BY <1>6, <1>10, <1>15, <3>2, <4>1, <4>2, KeepsTask, Zenon
      <4> QED
        BY <3>1, <4>3
    <3> QED
      BY <3>3, <3>4
  <2>3. \A v \in Workers : TaskInv(worker[v])'
    BY <1>13, <2>1, <2>2, Zenon
  <2>4. \A u, v \in Workers : Together(u, v)'
    BY <1>13, <1>16, <1>18, SMTT(30) DEF Together
  <2> QED
    BY <1>13, <2>3, <2>4 DEF WorkersInv
<1>20. TrailsInv'
  <2>1. TrailInv(d, e)'
    <3>1. e.event = "checkpoint" /\ e.force = x.force /\ e.cursor = lastPk
      BY <1>4, Zenon DEF Event
    <3>2. EventTyped(e)
      BY <1>7, <1>9, <3>1 DEF EventTyped, Events, Running
    <3>3. e.event # "completed"
      BY <3>1, Zenon
    <3>4. \A r \in 1..e.cursor : Visited(d, e.force, r)'
      BY <1>11, <3>1, Zenon
    <3> QED
      BY <1>10, <3>2, <3>3, <3>4, Zenon DEF TrailInv
  <2>2. PICK o : o = last[Opposite(d)]
    OBVIOUS
  <2>3. EventTyped(o)
    BY <1>7, <2>2, Sides, Zenon DEF MigrationInv, TrailsInv, TrailInv
  <2>4. o.event \in {"none", "dropped"} /\ o.event # "completed" /\ o.event \notin Running
    BY <1>15, <2>2, Zenon DEF Begun, Running
  <2>5. TrailInv(Opposite(d), o)'
    BY <2>3, <2>4, Zenon DEF TrailInv
  <2>6. \A y \in Directions : TrailInv(y, last[y])'
    <3>1. \A y \in Directions : y = d \/ y = Opposite(d)
      BY <1>7, Sides, Zenon
    <3> QED
      BY <1>7, <1>14, <2>1, <2>2, <2>5, <3>1, Zenon
  <2>7. ~(Begun("forward")' /\ Begun("reverse")')
    BY <1>7, <1>15 DEF Directions, Opposite
  <2> QED
    BY <1>14, <2>6, <2>7, SMTT(30) DEF TrailsInv
<1>21. ColumnsInv'
  <2>1. \A y \in files' : Fit(y)'
    BY <1>6, <1>7, <1>10, Sides, SMTT(30) DEF MigrationInv, Typed, ColumnsInv
  <2>2. \A r \in Rows \ overtaken' : \E c \in Columns : col'[c][r] = latest'[r]
    BY <1>7, <1>10, Sides, Zenon DEF SourceCurrent
  <2> QED
    BY <1>6, <2>1, <2>2, Zenon DEF ColumnsInv, Columns
<1> QED
  BY <1>17, <1>19, <1>20, <1>21 DEF MigrationInv

-----------------------------------------------------------------------------
(* The theorems                                                            *)

\* When commands of the two directions do not overlap in time, every step
\* keeps the invariant.
LEMMA NextInv ==
  ASSUME ~Overlap
  PROVE  MigrationInv /\ [Next]_vars => MigrationInv'
<1> SUFFICES ASSUME MigrationInv, [Next]_vars PROVE MigrationInv'
  OBVIOUS
<1>1. ASSUME NEW r \in Rows, Write(r) PROVE MigrationInv'
  BY <1>1, WriteStep
<1>2. ASSUME NEW w \in Workers, Work(w) \/ Fail(w) \/ Stop(w) PROVE MigrationInv'
  BY <1>2, ConfirmedStep, StartStep, FetchStep, CommitStep, EndStep, GeneratedStep, StopStep DEF Work
<1>3. ASSUME NEW w \in Workers, NEW d \in Directions, NEW b \in BOOLEAN, Confirm(w, d, b) \/ Load(w, d, b)
      PROVE  MigrationInv'
  BY <1>3, ConfirmStep, LoadStep
<1>4. ASSUME NEW w \in Workers, NEW d \in Directions, Generate(w, d) PROVE MigrationInv'
  BY <1>4, GenerateStep
<1>5. ASSUME NEW d \in Directions, Apply(d) PROVE MigrationInv'
  BY <1>5, ApplyStep
<1>6. ASSUME UNCHANGED vars PROVE MigrationInv'
  <2>1. UNCHANGED <<col, gone, latest, writes, last, owed, newest, files, worker, overtaken>>
    BY <1>6 DEF vars
  <2>2. Typed'
    BY <2>1 DEF MigrationInv, Typed
  <2>3. WorkersInv'
    <3>1. ASSUME NEW v \in Workers PROVE TaskInv(worker[v])'
      <4>1. PICK x : x = worker'[v] /\ x = worker[v]
        BY <2>1
      <4>2. TaskInv(x)
        BY <4>1, WorkerKnows
      <4>3. x.pc # "idle" => ~Begun(Opposite(x.dir))'
        BY <2>1, <4>2, Zenon DEF TaskInv, Begun
      <4>4. TaskInv(x)'
        BY <2>1, <4>2, <4>3, SameTask
      <4> QED
        BY <4>1, <4>4
    <3> QED
      BY <2>1, <3>1, ZenonT(60) DEF MigrationInv, WorkersInv, Together
  <2>4. TrailsInv'
    <3>1. ASSUME NEW d \in Directions PROVE TrailInv(d, last[d])'
      <4>1. PICK e : e = last'[d] /\ e = last[d]
        BY <2>1
      <4>2. TrailInv(d, e)
        BY <4>1, Zenon DEF MigrationInv, TrailsInv
      <4>3. TrailInv(d, e)'
        BY <2>1, <4>2, SameTrail
      <4> QED
        BY <4>1, <4>3
    <3> QED
      BY <2>1, <3>1, Zenon DEF MigrationInv, TrailsInv, Begun
  <2>5. ColumnsInv'
    <3>1. \A d \in files' : Fit(d)'
      BY <2>1, SameColumns, Zenon DEF MigrationInv, ColumnsInv
    <3> QED
      BY <2>1, <3>1 DEF MigrationInv, ColumnsInv
  <2> QED
    BY <2>2, <2>3, <2>4, <2>5 DEF MigrationInv
<1> QED
  BY <1>1, <1>2, <1>3, <1>4, <1>5, <1>6, SourceRemovedStep, AddTwinStep, Zenon DEF Next

\* The invariant holds throughout.
LEMMA AlwaysInv ==
  ASSUME ~Overlap
  PROVE  Spec => []MigrationInv
  BY InitInv, NextInv, PTL DEF Spec

\* The trail of events can be relied on (planPassFor, openCounterpart): it has
\* its shape, a resume point covers every row up to it, and one direction at
\* most is open.
THEOREM TrailIsHonest ==
  ASSUME ~Overlap
  PROVE  Spec => []TrailHonest
<1>1. MigrationInv => TrailHonest
  <2> SUFFICES ASSUME MigrationInv PROVE TrailHonest
    OBVIOUS
  <2>1. TypeOK
    BY Zenon DEF MigrationInv, Typed, TrailsInv, TrailInv, EventTyped, TypeOK, Values
  <2>2. ResumePointHonest
    <3> SUFFICES ASSUME NEW d \in Directions, gone = "none", last[d].event \in {"checkpoint", "error"},
                        NEW r \in 1..last[d].cursor \ overtaken,
                        col[Source(d)][r] # 0, ~(d = "reverse" /\ r \in Locked)
                 PROVE  IF last[d].force THEN col[Target(d)][r] = col[Source(d)][r] ELSE col[Target(d)][r] # 0
      BY Zenon DEF ResumePointHonest
    <3>1. TrailInv(d, last[d]) /\ last[d].event \in Running /\ last[d].event \notin {"none", "dropped"}
      BY Zenon DEF MigrationInv, TrailsInv, Running
    <3>2. SourceCurrent(d) /\ Visited(d, last[d].force, r) /\ last[d].cursor \in 0..LastPk
      BY <3>1, Zenon DEF TrailInv, EventTyped
    <3>3. r \in Rows \ overtaken
      BY <3>2, Sizes DEF Rows
    <3>4. col[Source(d)][r] = latest[r] /\ latest[r] # 0
      BY <3>2, <3>3, Zenon DEF SourceCurrent
    <3> QED
      BY <3>2, <3>3, <3>4, Zenon DEF Visited, Decrypts
  <2>3. OneOpen
    <3>1. ASSUME NEW d \in Directions, Open(d) PROVE Begun(d)
      BY <3>1 DEF Open, Phase, PhaseOf, Begun, Running
    <3> QED
      BY <3>1 DEF OneOpen, MigrationInv, TrailsInv, Directions
  <2> QED
    BY <2>1, <2>2, <2>3 DEF TrailHonest
<1> QED
  BY <1>1, AlwaysInv, PTL

\* Dropping a column loses nothing that the application last wrote, but for the
\* rows that a forward chunk overtook (generated drop migrations).
THEOREM DropsLoseNothing ==
  ASSUME ~Overlap
  PROVE  Spec => []DropLosesNothing
<1>1. MigrationInv => DropLosesNothing
  <2> SUFFICES ASSUME MigrationInv, gone # "none" PROVE DropLosesNothing
    BY Zenon DEF DropLosesNothing
  <2>1. gone \in Columns
    BY Zenon DEF MigrationInv, Typed
  <2>2. PICK kept : kept = CHOOSE c \in Columns : c # gone
    OBVIOUS
  <2>3. kept \in Columns \ {gone}
    BY <2>1, <2>2 DEF Columns
  <2>4. \A r \in Rows \ overtaken : latest[r] # 0 => col[kept][r] = latest[r]
    BY <2>1, <2>3, Zenon DEF MigrationInv, ColumnsInv
  <2> QED
    BY <2>2, <2>4, Zenon DEF DropLosesNothing
<1> QED
  BY <1>1, AlwaysInv, PTL

\* A completed migration that owes no forced pass has no stale twin
\* (deriveColumnMigration's obligation).
THEOREM NothingStaleIsUnowed ==
  ASSUME ~Overlap
  PROVE  Spec => []NothingStaleUnowed
<1>1. MigrationInv => NothingStaleUnowed
  <2> SUFFICES ASSUME MigrationInv, NEW d \in Directions, gone = "none", Phase(d) = "completed",
                      NEW r \in Rows \ overtaken, col[Source(d)][r] # 0
               PROVE  col[Target(d)][r] \in {0, col[Source(d)][r]}
    BY Zenon DEF NothingStaleUnowed
  <2>1. last[d].event = "completed"
    BY Zenon DEF Phase, PhaseOf, Running
  <2>2. Fit(d) /\ SourceCurrent(d)
    BY <2>1, Zenon DEF MigrationInv, TrailsInv, TrailInv
  <2> QED
    BY <2>2, Zenon DEF Fit, Fits, SourceCurrent
<1> QED
  BY <1>1, AlwaysInv, PTL
=============================================================================
