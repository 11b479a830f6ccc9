------------------------------ MODULE Records ------------------------------
(***************************************************************************)
(* Encrypting and opening records through ZeroKMS.                         *)
(*                                                                         *)
(* A task is one awaited call: an encryption or an opening on its own, or  *)
(* several settled together by all().  It is checked and prepared without  *)
(* any request; then its pendings are settled in two groups, the batch     *)
(* under its keyset and the openings that read from any keyset, and each   *)
(* group makes its ZeroKMS calls one after the other.  The application     *)
(* keeps the records it is given and brings them back.  Between the two,   *)
(* a stored field may have been put in another place.                      *)
(***************************************************************************)
EXTENDS Plans

CONSTANTS
  MaxKeysPerReq, MaxConcurrentReqs,   \* ClientOpts
  DefaultKeyset, OtherKeyset,
  Declarations,    \* the plans as declared, by name
  Sources,         \* for each plan, the lists of rows that are encrypted
  Batched,         \* the plans whose operations are settled together
  Labels,          \* the contexts an opening may expect
  MaxRows          \* bound on the stored rows

ASSUME ClientOptsAssumption ==
  MaxKeysPerReq \in Nat \ {0} /\ MaxConcurrentReqs \in Nat \ {0}

VARIABLES
  call,    \* the ZeroKMS call in progress
  task,    \* what the application awaits
  store    \* the rows the application keeps

vars == <<call, task, store>>

Kms == INSTANCE KmsClient

Keysets == {DefaultKeyset, OtherKeyset}

NoTask == [stage |-> "idle", jobs |-> <<>>, groups |-> <<>>, todo |-> <<>>,
           keys |-> <<>>, out |-> <<>>, asked |-> <<>>]

-----------------------------------------------------------------------------
(* Checking and preparing.                                                 *)

PlanOf(job) == Plan(Declarations[job.plan])

CellsOf(job) == [i \in DOMAIN job.records |-> job.records[i].cells]

Check(job) ==
  /\ IsPlan(Declarations[job.plan])
  /\ IF job.verb = "encrypt" THEN CheckSource(PlanOf(job), job.rows)
     ELSE CheckRecord(PlanOf(job), CellsOf(job), job.expected)

\* The one keyset the operations name, or the client's default.
NamedKeysets(jobs) == {job.keyset : job \in Range(jobs)} \ {None}
Resolve(jobs) ==
  IF NamedKeysets(jobs) = {} THEN DefaultKeyset ELSE CHOOSE k \in NamedKeysets(jobs) : TRUE

EncryptUsing(job, keyset) == Encrypt(PlanOf(job), keyset, job.rows)
OpenUsing(job, scope)     == Decrypt(PlanOf(job), scope, CellsOf(job), job.expected)

\* Mutant: an opening is never held to the keyset it names.
Prepare_AnyKeyset(job, keyset) ==
  IF job.verb = "encrypt" THEN EncryptUsing(job, keyset) ELSE OpenUsing(job, None)

\* An opening is held to the keyset only if it names one.
Prepare(job, keyset) ==
  IF job.verb = "encrypt" THEN EncryptUsing(job, keyset)
  ELSE OpenUsing(job, IF job.keyset = None THEN None ELSE keyset)

Ready == [keyset |-> None, failed |-> FALSE, parts |-> <<>>]

\* The batch, and the openings that read from any keyset, each with an empty
\* place for what the other holds.
Route(pendings) ==
  << [j \in DOMAIN pendings |-> IF OpensAnyKeyset(pendings[j]) THEN Ready ELSE pendings[j]],
     [j \in DOMAIN pendings |-> IF OpensAnyKeyset(pendings[j]) THEN pendings[j] ELSE Ready] >>

-----------------------------------------------------------------------------
(* Dispatching one group: a generate call under its keyset, and then one   *)
(* retrieve call for each keyset, in the order they are first needed.      *)

Places(requests, chosen) ==
  SelectSeq([i \in DOMAIN requests |-> i], LAMBDA i : requests[i] \in chosen)

Dispatch(keyset, requests) ==
  LET all       == Range(requests)
      generates == Places(requests, {r \in all : r.op = "generate"})
      of(k)     == Places(requests, {r \in all : r.op = "retrieve" /\ r.keyset = k})
      keysets   == SetToSortSeq({k \in Keysets : of(k) # <<>>},
                                LAMBDA a, b : of(a)[1] < of(b)[1])
  IN  (IF generates = <<>> THEN <<>>
       ELSE << [op |-> "generate", keyset |-> keyset, at |-> generates] >>)
      \o [i \in DOMAIN keysets |->
            [op |-> "retrieve", keyset |-> keysets[i], at |-> of(keysets[i])]]

Group(pendings) == Collect(None, pendings)
Settling(group) ==
  [todo |-> Dispatch(group.keyset, Requests(group.parts)),
   keys |-> [i \in DOMAIN Requests(group.parts) |-> None]]

\* The application awaits the jobs.  Every check comes first, then the choice
\* of a keyset, then the preparation; a failure of any makes no request.
Await(jobs) ==
  /\ task = NoTask
  /\ LET pendings == [j \in DOMAIN jobs |-> Prepare(jobs[j], Resolve(jobs))]
         groups   == Route(pendings)
         refused  == \/ \E job \in Range(jobs) : ~Check(job)
                     \/ Cardinality(NamedKeysets(jobs)) > 1
                     \/ Group(groups[1]).failed
     IN  task' = IF refused THEN [NoTask EXCEPT !.stage = "refused", !.jobs = jobs]
                 ELSE [NoTask EXCEPT !.stage = "settling", !.jobs = jobs, !.groups = groups,
                                     !.todo = Settling(Group(groups[1])).todo,
                                     !.keys = Settling(Group(groups[1])).keys]
  /\ UNCHANGED <<call, store>>

\* A client makes up a fresh IV for every key it has made.
Leaves(cell) ==
  UNION {Range(cell[k].leaves) : k \in DOMAIN cell \cap {"c"}} \union
  UNION {Range(cell[k].c.leaves) : k \in DOMAIN cell \cap {"eql"}}
StoredLeaves ==
  UNION {Leaves(row.cells[name]) : <<row, name>> \in
           {<<r, n>> \in Range(store) \X UNION {DOMAIN s.cells : s \in Range(store)} :
              n \in DOMAIN r.cells}}
NextIv == Max({0} \union {leaf.iv : leaf \in StoredLeaves}) + 1

FreshIv(i) == NextIv + i - 1

Ask ==
  /\ task.stage = "settling" /\ task.todo # <<>> /\ call.stage = "idle"
  /\ LET next     == Head(task.todo)
         requests == Requests(Group(Head(task.groups)).parts)
         spec(i)  == LET r == requests[next.at[i]]
                     IN  [iv   |-> IF r.op = "generate" THEN FreshIv(i) ELSE r.iv,
                          desc |-> r.desc, tag |-> r.tag]
     IN  /\ Kms!Start(next.op, next.keyset, [i \in DOMAIN next.at |-> spec(i)])
         /\ task' = [task EXCEPT !.asked = Append(@,
              [group |-> Len(task.groups), op |-> next.op, keyset |-> next.keyset])]
  /\ UNCHANGED store

\* The keys of a call go to the requests they answer.
Receive ==
  /\ task.stage = "settling" /\ call.stage = "done"
  /\ LET at == Head(task.todo).at
     IN  task' = IF Len(call.out) # Len(at) THEN [task EXCEPT !.stage = "failed"]
                 ELSE [task EXCEPT
                         !.todo = Tail(@),
                         !.keys = [i \in DOMAIN @ |->
                                     IF Contains(at, i) THEN call.out[SelectInSeq(at, LAMBDA k : k = i)]
                                     ELSE @[i]]]
  /\ Kms!Leave
  /\ UNCHANGED store

Fail ==
  /\ task.stage = "settling" /\ call.stage = "error"
  /\ task' = [task EXCEPT !.stage = "failed"]
  /\ Kms!Leave
  /\ UNCHANGED store

\* Every part of a group turned into its value with its own keys.
Fulfil(parts, keys) ==
  LET requests  == Requests(parts)
      of(op)    == LET at == Places(requests, {r \in Range(requests) : r.op = op})
                   IN  [i \in DOMAIN at |-> keys[at[i]]]
      result(i) == IF "value" \in DOMAIN parts[i]
                   THEN Sealed(parts[i], Own(parts, i, "generate", of("generate")))
                   ELSE Opened(parts[i], Own(parts, i, "retrieve", of("retrieve")))
  IN  [i \in DOMAIN parts |-> result(i)]

\* The rows of the jobs settled in a group.
RowsOf(job, results) ==
  IF job.verb = "encrypt" THEN ByRow(PlanOf(job), Len(job.rows), results)
  ELSE ByRow(Opening(PlanOf(job)), Len(job.records), results)
Outputs(jobs, pendings, results) ==
  LET before(j) == Len(Group(SubSeq(pendings, 1, j - 1)).parts)
  IN  [j \in DOMAIN jobs |->
         IF pendings[j] = Ready THEN <<>>
         ELSE RowsOf(jobs[j], SubSeq(results, before(j) + 1, before(j + 1)))]

Settle ==
  /\ task.stage = "settling" /\ task.todo = <<>>
  /\ LET pendings == Head(task.groups)
         results  == Fulfil(Group(pendings).parts, task.keys)
         rows     == Outputs(task.jobs, pendings, results)
         rest     == Tail(task.groups)
     IN  task' =
           IF Group(pendings).failed \/ Error \in Range(results) THEN [task EXCEPT !.stage = "failed"]
           ELSE [task EXCEPT
                   !.out    = IF @ = <<>> THEN rows ELSE [j \in DOMAIN @ |-> @[j] \o rows[j]],
                   !.groups = rest,
                   !.stage  = IF rest = <<>> THEN "done" ELSE @,
                   !.todo   = IF rest = <<>> THEN <<>> ELSE Settling(Group(Head(rest))).todo,
                   !.keys   = IF rest = <<>> THEN <<>> ELSE Settling(Group(Head(rest))).keys]
  /\ UNCHANGED <<call, store>>

\* The future is dropped while it is awaited, with the requests it made.
Drop ==
  /\ task.stage = "settling"
  /\ task' = NoTask /\ call' = Kms!Idle
  /\ UNCHANGED store

\* The application takes the outcome, and keeps the records it was given.
Return ==
  /\ task.stage \in {"done", "refused", "failed"}
  /\ task' = NoTask
  /\ LET kept(j) == [i \in DOMAIN task.out[j] |->
                       [cells |-> task.out[j][i], plan |-> task.jobs[j].plan,
                        keyset |-> Resolve(task.jobs), source |-> task.jobs[j].rows[i],
                        intact |-> TRUE]]
         written == SelectSeq([j \in DOMAIN task.out |-> j],
                              LAMBDA j : task.jobs[j].verb = "encrypt")
     IN  store' = store \o FlattenSeq([k \in DOMAIN written |-> kept(written[k])])
  /\ UNCHANGED call

\* A stored field is put in another place of the same kind.
Misfile(r, s, name, other) ==
  /\ task = NoTask /\ store[r].cells[name] # store[s].cells[other]
  /\ DOMAIN store[r].cells[name] = DOMAIN store[s].cells[other]
  /\ store[r].intact /\ store[s].intact
  /\ store' = [store EXCEPT ![r].cells[name] = store[s].cells[other], ![r].intact = FALSE]
  /\ UNCHANGED <<call, task>>

-----------------------------------------------------------------------------

Encrypts(plans) ==
  UNION {{[verb |-> "encrypt", plan |-> p, keyset |-> k, rows |-> rows,
            records |-> <<>>, expected |-> None] :
            k \in Keysets \union {None},
            rows \in {s \in Sources[p] : Len(s) + Len(store) <= MaxRows}} : p \in plans}
Openings(plans) ==
  {[verb |-> "open", plan |-> p, keyset |-> k, rows |-> <<>>,
    records |-> records, expected |-> e] :
     p \in plans, k \in Keysets \union {None}, e \in Labels \union {None},
     records \in {<<r>> : r \in Range(store)} \union (IF store = <<>> THEN {} ELSE {store})}

Init == call = Kms!Idle /\ task = NoTask /\ store = <<>>

Next ==
  \/ \E job \in Encrypts(DOMAIN Declarations) : Await(<<job>>)
  \/ \E job \in Openings(DOMAIN Declarations) : Await(<<job>>)
  \/ \E job \in Encrypts(Batched), opening \in Openings(Batched) :
       Await(<<job, opening>>)
  \/ \E held \in {o \in Openings(Batched) : o.keyset # None},
        free \in {o \in Openings(Batched) : o.keyset = None} : Await(<<held, free>>)
  \/ Ask \/ Receive \/ Fail \/ Settle \/ Drop \/ Return
  \/ Kms!Step /\ UNCHANGED <<task, store>>
  \/ \E r, s \in DOMAIN store :
       \E name \in DOMAIN store[r].cells, other \in DOMAIN store[s].cells :
         Misfile(r, s, name, other)

\* A request is answered, refused or timed out.
Fairness == WF_call(Kms!Step)

Spec     == Init /\ [][Next]_vars
LiveSpec == Spec /\ Fairness

-----------------------------------------------------------------------------
(* Queries.  A query makes a term and no request, so it is no step.        *)

\* The term a value is searched by: under the field's own context, or under
\* the one the call names when the context is each row's.
TargetQuery(f, keyset, v)         == Term("eq", keyset, [label |-> f.label, ext |-> <<>>], v)
QueryUsing(p, f, keyset, v, base) == Term("eq", keyset, Under(base, f, ExtOf(p)), v)
QueryTerm(p, f, keyset, v, base)  ==
  IF IsTarget(f) THEN TargetQuery(f, keyset, v) ELSE QueryUsing(p, f, keyset, v, base)

-----------------------------------------------------------------------------
(* Properties.                                                             *)

PlanOfRow(row) == Plan(Declarations[row.plan])
TermOf(row, f) ==
  IF IsTarget(f) THEN row.cells[f.name].eql.term ELSE row.cells[f.name]["eq"]
TreeOf(cell)   == IF "eql" \in DOMAIN cell THEN cell.eql.c ELSE cell.c
Seals(f)       == Verb(f) \in {"encrypt", "target"}
Searched(f)    == IsTarget(f) \/ Contains(f.outputs, "eq")

TypeOK ==
  /\ task.stage \in {"idle", "refused", "settling", "failed", "done"}
  /\ call.stage # "idle" => task.stage = "settling" /\ task.todo # <<>>
  /\ Len(store) <= MaxRows
  /\ \A row \in Range(store) : IsPlan(Declarations[row.plan]) /\ row.keyset \in Keysets

\* However the keys of a call were chunked, answered and handed out, every leaf
\* of a record holds its own part of its own field, under a key that was made
\* for that field's context in the record's keyset (dispatch, split_front,
\* seal_with).
SealedInPlace ==
  \A row \in Range(store) : row.intact =>
    LET p == PlanOfRow(row)
    IN  \A f \in {g \in Range(p.fields) : Seals(g)} :
          LET tree  == TreeOf(row.cells[f.name])
              plain == LeavesOf(ValueOf(row.source, f.name))
              of    == Under(BaseOf(p, row.source), f, ExtOf(p))
          IN  /\ DOMAIN tree.leaves = DOMAIN plain
              /\ \A i \in DOMAIN plain :
                   /\ tree.leaves[i].body.plain = plain[i]
                   /\ tree.leaves[i].body.key = [iv |-> tree.leaves[i].iv,
                                                keyset |-> row.keyset, desc |-> of]

\* No two leaves were sealed with one key: not two elements of a list, two rows
\* of a batch or two records.
NoKeyTwice ==
  \A a, b \in StoredLeaves : a.body.key = b.body.key => a = b

\* What an opening gives back was sealed for the field and the context it is
\* given back as, wherever the stored fields have been put (ExpectedContext,
\* leaf_aad, and the descriptor of the key).
OpensInPlace ==
  task.stage = "done" =>
    \A j \in DOMAIN task.jobs : task.jobs[j].verb = "open" =>
      LET p == PlanOf(task.jobs[j])
      IN  \A i \in DOMAIN task.jobs[j].records :
            LET cells == task.jobs[j].records[i].cells
                base  == OpeningBase(p, cells, task.jobs[j].expected)
            IN  \A f \in {g \in Range(p.fields) : Seals(g)} :
                  \A leaf \in Range(TreeOf(cells[f.name]).leaves) :
                    leaf.body.home = Home(base, f, ExtOf(p))

\* A record nobody has touched opens, under the plan it was written with, to
\* the values it was written from, each row to its own and each field to its
\* own; and such an opening is never refused before it has asked.
RoundTrip ==
  \A j \in DOMAIN task.jobs :
    LET job  == task.jobs[j]
        p    == PlanOf(job)
        own  == /\ job.verb = "open"
                /\ \A row \in Range(job.records) : row.intact /\ row.plan = job.plan
    IN  own =>
          /\ task.stage = "done" =>
               \A i \in DOMAIN job.records : \A f \in Range(Opening(p).fields) :
                 task.out[j][i][f.name] = ValueOf(job.records[i].source, f.name)
          /\ task.stage = "refused" /\ Len(task.jobs) = 1 =>
               job.expected # None \/ \E row \in Range(job.records) : job.keyset \notin {None, row.keyset}

\* One operation that is refused stops all of them before the first request:
\* a failed pending settles with the batch, never after it (all_of, route).
RefusedBeforeRequests ==
  task.asked # <<>> =>
    \A job \in Range(task.jobs) :
      Check(job) /\ ~Prepare(job, Resolve(task.jobs)).failed

\* "Awaiting makes one generate call and one retrieve call per keyset at most",
\* and one more for each keyset an opening that names none reads.
OneCallPerKeyset == IsInjective(task.asked)

\* Keys are made only in the keyset the operations name, and a leaf of another
\* keyset is asked for only for an opening that names none.
ScopeKept ==
  \A asked \in Range(task.asked) :
    asked.keyset # Resolve(task.jobs) =>
      /\ asked.op = "retrieve"
      /\ \E job \in Range(task.jobs) : job.verb = "open" /\ job.keyset = None

\* A search for a text finds the rows of its keyset and context that hold it in
\* that field, and no other.
QueryFinds ==
  \A row, other \in {r \in Range(store) : r.intact} :
    LET p == PlanOfRow(row)
        q == PlanOfRow(other)
    IN  \A f \in {g \in Range(p.fields) : Searched(g)}, h \in {g \in Range(q.fields) : Searched(g)} :
          LET v    == ValueOf(row.source, f.name)
              base == BaseOf(p, row.source)
          IN  QueryTerm(p, f, row.keyset, v, base) = TermOf(other, h) <=>
                /\ row.keyset = other.keyset /\ v = ValueOf(other.source, h.name)
                /\ Home(base, f, ExtOf(p)) = Home(BaseOf(q, other.source), h, ExtOf(q))

\* Chunked, concurrent and answered out of order, a client's call still keeps
\* what a key source promises: one key for each payload, in payload order, or
\* an error and nothing.
ImplementsDataKeySource == Kms!Source!Spec

\* Every call of the client ends, with an answer or an error, whatever becomes
\* of each of its requests: the limit on the requests it keeps going never
\* leaves it waiting for one it has not sent.
CallEnds == call.stage # "idle" ~> call.stage \in {"idle", "done", "error"}

\* Every stored leaf is sealed in its own place under a key of its own.
WellSealed == TypeOK /\ SealedInPlace /\ NoKeyTwice

\* What is opened is what was sealed there, and what nobody touched opens.
OpensAsWritten == OpensInPlace /\ RoundTrip

\* A settled batch asks for keys only when nothing in it is refused, once per
\* keyset, and in no keyset its operations do not allow.
AsksInScope == RefusedBeforeRequests /\ OneCallPerKeyset /\ ScopeKept
=============================================================================
