------------------------------- MODULE Plans -------------------------------
(***************************************************************************)
(* Encryption plans: which plans are well formed, which sources and stored *)
(* records fit one, and the pending that running a plan makes of them.     *)
(*                                                                         *)
(* A pending describes work with no request made yet: the key requests it  *)
(* needs, in order, and how the answers are turned into its value.  It is  *)
(* a list of parts, one for each field of each row, and every part takes   *)
(* the answers to its own requests off the front of what is left.          *)
(***************************************************************************)
EXTENDS Naturals, SequencesExt, FiniteSets

CONSTANTS
  None, Error,
  LabelOf      \* the label a text parses to, or None

-----------------------------------------------------------------------------
(* Declarations.                                                           *)

IndexesOf(f) == SelectSeq(f.outputs, LAMBDA o : o \notin {"c", "passthrough"})
IsTarget(f)  == f.target # None
Identity(f)  == Last(f.label)

Verb(f) ==
  CASE IsTarget(f)                          -> "target"
    [] Contains(f.outputs, "passthrough")   -> "passthrough"
    [] Contains(f.outputs, "c")             -> "encrypt"   \* with or without terms
    [] OTHER                                -> "index"

KeysNothing(f) == Verb(f) = "passthrough"
Opens(f)       == Verb(f) # "index"

\* Equality is defined on texts and not on booleans, ordering on every scalar.
Admits(kind, index) ==
  CASE index = "eq" -> kind = "str" [] OTHER -> kind \in {"str", "bool"}

FieldPlan(f) ==
  /\ f.label # <<>>
  /\ IF IsTarget(f) THEN f.outputs = <<>>
     ELSE /\ f.outputs # <<>> /\ IsInjective(f.outputs)
          /\ Contains(f.outputs, "passthrough") => Len(f.outputs) = 1
  /\ f.type # None => \A index \in Range(IndexesOf(f)) : Admits(f.type, index)

\* A plan with a context of its own: every field's label is that context and
\* the field's identity.  The one EQL type that can be produced takes a text
\* and names a column by its table.
NewWith(fields) ==
  /\ fields # <<>>
  /\ \A f \in Range(fields) : Len(f.label) > 1 /\ Front(f.label) = Front(fields[1].label)
  /\ \A f \in Range(fields) : IsTarget(f) =>
       /\ f.target = "TextEq" /\ fields[1].ext = <<>>
       /\ Len(f.label) = 2 /\ f.type \in {None, "str"}

\* A plan that takes each row's context from one of the row's fields.
WithContextField(name, fields) ==
  /\ \E f \in Range(fields) :
       f.name = name /\ f.outputs = <<"passthrough">> /\ f.type \in {None, "str"}
  /\ \A f \in Range(fields) : Len(f.label) = 1 /\ ~IsTarget(f)

\* Two fields may share an identity only when one of them seals nothing.
Apart(f, g) ==
  /\ f.name # g.name
  /\ Identity(f) = Identity(g) =>
       ~IsTarget(f) /\ ~IsTarget(g) /\ (KeysNothing(f) \/ KeysNothing(g))

Build(fields) ==
  \A i \in DOMAIN fields :
    /\ \A j \in 1..(i - 1) : Apart(fields[j], fields[i])
    /\ fields[i].ext = fields[1].ext
    /\ ~IsTarget(fields[i]) /\ IndexesOf(fields[i]) # <<>> => fields[i].type # None

IsPlan(d) ==
  /\ \A f \in Range(d.fields) : FieldPlan(f)
  /\ IF d.contextField = None THEN NewWith(d.fields)
     ELSE WithContextField(d.contextField, d.fields)
  /\ Build(d.fields)

\* The declaration with the kinds it implies filled in.
Plan(d) ==
  [d EXCEPT !.fields = [i \in DOMAIN @ |->
     IF @[i].name = d.contextField \/ IsTarget(@[i]) THEN [@[i] EXCEPT !.type = "str"]
     ELSE @[i]]]

\* The lowered plan: the context field first, then the rest in order.
Lower(p) ==
  SelectSeq(p.fields, LAMBDA f : f.name = p.contextField) \o
  SelectSeq(p.fields, LAMBDA f : f.name # p.contextField /\ ~IsTarget(f))
TargetFields(p) == SelectSeq(p.fields, IsTarget)

-----------------------------------------------------------------------------
(* Contexts.  A context is a label and the parts that extend it; it is the *)
(* descriptor ZeroKMS sees and the data bound to what is sealed.           *)

\* Mutant: the declared extension is left out.
Under_Bare(base, f, ext) == [label |-> Append(base, Identity(f)), ext |-> <<>>]

Under(base, f, ext) == [label |-> Append(base, Identity(f)), ext |-> ext]
Fits(context)       == "long" \notin Range(context.label)   \* Descriptor::check
ExtOf(p)            == p.fields[1].ext

-----------------------------------------------------------------------------
(* Sources.  A row is a list of names and values.  A value is one scalar,  *)
(* a null, a list of texts, or an opaque value no cipher takes.            *)

Named(row, name)   == {i \in DOMAIN row : row[i].name = name}
ValueOf(row, name) == row[CHOOSE i \in Named(row, name) : TRUE].value

CheckField(v, f) ==
  /\ f.type # None => v.kind = f.type
  /\ IsTarget(f) \/ Contains(f.outputs, "c") => v.kind # "opaque"
  /\ \A index \in Range(IndexesOf(f)) : Admits(v.kind, index)

SourceRow(p, row) ==
  /\ \A f \in Range(p.fields) :
       Cardinality(Named(row, f.name)) = 1 /\ CheckField(ValueOf(row, f.name), f)
  /\ Len(row) = Len(p.fields)

BaseOf(p, row) ==
  IF p.contextField = None THEN Front(p.fields[1].label)
  ELSE LabelOf[ValueOf(row, p.contextField).texts[1]]

CheckValue(p, row)   == BaseOf(p, row) # None
CheckSource(p, rows) == \A i \in DOMAIN rows : SourceRow(p, rows[i]) /\ CheckValue(p, rows[i])

-----------------------------------------------------------------------------
(* Pendings.                                                               *)

FailedPending == [keyset |-> None, failed |-> TRUE, parts |-> <<>>]
Requests(parts) == FlattenSeq([i \in DOMAIN parts |-> parts[i].requests])

\* A generated key needs a keyset; a keyset admits no leaf of another.
CheckScope(keyset, requests) ==
  \A r \in Range(requests) :
    IF keyset = None THEN r.op = "retrieve"
    ELSE r.op = "retrieve" => r.keyset = keyset

\* One pending of several, in order (zip, all, collect).
Collect(scope, pendings) ==
  LET keysets == ({scope} \union {p.keyset : p \in Range(pendings)}) \ {None}
      keyset  == IF keysets = {} THEN None ELSE CHOOSE k \in keysets : TRUE
      parts   == FlattenSeq([i \in DOMAIN pendings |-> pendings[i].parts])
  IN  IF \/ Cardinality(keysets) > 1
         \/ \E p \in Range(pendings) : p.failed
         \/ ~CheckScope(keyset, Requests(parts))
      THEN FailedPending
      ELSE [keyset |-> keyset, failed |-> FALSE, parts |-> parts]

OnePart(keyset, part) == Collect(keyset, << [keyset |-> keyset, failed |-> FALSE,
                                             parts |-> <<part>>] >>)

ScopedTo(keyset, p) == IF keyset = None THEN p ELSE Collect(keyset, <<p>>)

OpensAnyKeyset(p) == p.keyset = None /\ ~p.failed

\* Where a part's own answers begin among all the answers of its kind.
Front0(parts, i, op) ==
  Len(SelectSeq(Requests(SubSeq(parts, 1, i - 1)), LAMBDA r : r.op = op))

\* Mutant: every part starts at the first answer.
Own_FromFirst(parts, i, op, keys) ==
  SubSeq(keys, 1, Front0(parts, i + 1, op) - Front0(parts, i, op))

Own(parts, i, op, keys) ==
  SubSeq(keys, Front0(parts, i, op) + 1, Front0(parts, i + 1, op))

-----------------------------------------------------------------------------
(* Sealing.  A sealed leaf names its keyset, its IV and its tag in the     *)
(* clear.  Its body opens under the key and the bound data it was sealed   *)
(* with; "home" is not in the ciphertext: it records what was being sealed. *)

Shape(v) ==
  CASE v.kind = "null" -> "none"
    [] v.kind = "list" -> (IF v.texts = <<>> THEN "empty" ELSE "sequence")
    [] OTHER           -> "single"

\* Every element of a list is bound to the same place.
LeavesOf(v) ==
  IF Shape(v) = "sequence"
  THEN [i \in DOMAIN v.texts |-> [kind |-> "str", texts |-> <<v.texts[i]>>]]
  ELSE <<v>>

LeafAad(context, shape, keyset, tag) ==
  [context |-> context, at |-> shape, keyset |-> keyset, tag |-> tag]

SealLeaf(plain, context, shape, keyset, key, home) ==
  [keyset |-> keyset, iv |-> key.iv, tag |-> key,
   body   |-> [key |-> key, aad |-> LeafAad(context, shape, keyset, key),
               plain |-> plain, home |-> home]]

OpenLeaf(leaf, key, context, shape) ==
  IF leaf.body.key = key /\ leaf.body.aad = LeafAad(context, shape, leaf.keyset, leaf.tag)
  THEN leaf.body.plain ELSE Error

GenerateUnder(context)       == [op |-> "generate", keyset |-> None, desc |-> context,
                                 iv |-> None, tag |-> None]
RetrieveUnder(context, leaf) == [op |-> "retrieve", keyset |-> leaf.keyset,
                                 desc |-> context, iv |-> leaf.iv, tag |-> leaf.tag]

\* Mutant: a term is not bound to the context of its field.
Term_Unbound(index, keyset, context, v) ==
  [index |-> index, keyset |-> keyset, context |-> None, text |-> v.texts[1]]

Term(index, keyset, context, v) ==
  [index |-> index, keyset |-> keyset, context |-> context, text |-> v.texts[1]]

-----------------------------------------------------------------------------
(* Encrypting.  A stored field is a map of its outputs.                    *)

Home(base, f, ext) == [base |-> base, field |-> Identity(f), ext |-> ext]

SealPart(keyset, f, v, base, ext) ==
  LET context == Under(base, f, ext)
      sealed  == Verb(f) \in {"encrypt", "target"}
  IN  IF sealed /\ ~Fits(context) THEN FailedPending
      ELSE OnePart(keyset,
             [requests |-> IF sealed
                           THEN [i \in DOMAIN LeavesOf(v) |-> GenerateUnder(context)]
                           ELSE <<>>,
              field |-> f, value |-> v, context |-> context, keyset |-> keyset,
              home |-> Home(base, f, ext)])

SealTree(part, keys) ==
  LET v == part.value
  IN  [shape  |-> Shape(v),
       leaves |-> [i \in DOMAIN LeavesOf(v) |->
                     SealLeaf(LeavesOf(v)[i], part.context, Shape(v), part.keyset,
                              keys[i], part.home)]]

TermsOf(part, indexes) ==
  [i \in indexes |-> Term(i, part.keyset, part.context, part.value)]

\* A value of the EQL type: its column, the sealed text and an equality term.
RunTarget(part, keys) ==
  [id |-> part.context.label, c |-> SealTree(part, keys), term |-> TermsOf(part, {"eq"})["eq"]]

\* What one part of an encryption makes of its own keys.
Sealed(part, keys) ==
  LET f     == part.field
      terms == TermsOf(part, Range(IndexesOf(f)))
  IN  CASE Verb(f) = "target"      -> "eql" :> RunTarget(part, keys)
        [] Verb(f) = "passthrough" -> "passthrough" :> part.value
        [] Verb(f) = "encrypt"     -> ("c" :> SealTree(part, keys)) @@ terms
        [] OTHER                   -> terms

\* One row's encryption under a plan, a part for each field.
Encryption(p, fields, keyset, row) ==
  [k \in DOMAIN fields |->
     SealPart(keyset, fields[k], ValueOf(row, fields[k].name), BaseOf(p, row), ExtOf(p))]

\* The rows' lowered fields, row by row, and then the rows' target fields.
Encrypt(p, keyset, rows) ==
  LET pass(fields) == FlattenSeq([i \in DOMAIN rows |-> Encryption(p, fields, keyset, rows[i])])
  IN  Collect(keyset, pass(Lower(p)) \o pass(TargetFields(p)))

\* The results put back into rows: the lowered fields by name, and each row's
\* share of the target results in order.
ByRow(p, n, results) ==
  LET lowered == Lower(p)
      targets == TargetFields(p)
      place(fields, name) == CHOOSE k \in DOMAIN fields : fields[k].name = name
      at(i, f) == IF IsTarget(f)
                  THEN n * Len(lowered) + (i - 1) * Len(targets) + place(targets, f.name)
                  ELSE (i - 1) * Len(lowered) + place(lowered, f.name)
  IN  [i \in 1..n |-> [name \in {f.name : f \in Range(p.fields)} |->
         LET f == CHOOSE g \in Range(p.fields) : g.name = name
         IN  results[at(i, f)]]]

-----------------------------------------------------------------------------
(* Opening.                                                                *)

\* The output of a stored field that comes back.
OutputKey(f) ==
  CASE Verb(f) = "target" -> "eql" [] Verb(f) = "passthrough" -> "passthrough" [] OTHER -> "c"

Opening(p) == [p EXCEPT !.fields = SelectSeq(@, Opens)]

RecordRow(p, row) ==
  \A f \in Range(Opening(p).fields) :
    /\ f.name \in DOMAIN row /\ OutputKey(f) \in DOMAIN row[f.name]
    /\ Verb(f) = "passthrough" /\ f.type # None => row[f.name].passthrough.kind = f.type

\* The context a stored record opens under, or None when it is refused: the
\* plan's own, or the one the record stores if it is the one expected.
OpeningBase(p, row, expected) ==
  IF p.contextField = None
  THEN IF expected = None THEN Front(p.fields[1].label) ELSE None
  ELSE LET stored == LabelOf[row[p.contextField].passthrough.texts[1]]
       IN  IF expected \in {None, stored} THEN stored ELSE None

CheckOpening(p, row, expected) == OpeningBase(p, row, expected) # None
CheckRecord(p, rows, expected) ==
  \A i \in DOMAIN rows : RecordRow(p, rows[i]) /\ CheckOpening(p, rows[i], expected)

\* A stored EQL value opens only as the column it names.
OpensColumn(node, context) == node.id = context.label

OpenPart(scope, f, cell, base, ext) ==
  LET context == Under(base, f, ext)
      node    == cell[OutputKey(f)]
      tree    == CASE Verb(f) = "target" -> node.c [] Verb(f) = "encrypt" -> node
                   [] OTHER -> [shape |-> "passthrough", leaves |-> <<>>]
  IN  IF \/ ~KeysNothing(f) /\ ~Fits(context)
         \/ IsTarget(f) /\ ~OpensColumn(node, context)
      THEN FailedPending
      ELSE ScopedTo(scope, OnePart(None,
             [requests |-> [i \in DOMAIN tree.leaves |-> RetrieveUnder(context, tree.leaves[i])],
              field |-> f, tree |-> tree, context |-> context,
              plain |-> IF KeysNothing(f) THEN node ELSE None]))

Decryption(p, fields, scope, row, expected) ==
  [k \in DOMAIN fields |->
     OpenPart(scope, fields[k], row[fields[k].name], OpeningBase(p, row, expected), ExtOf(p))]

Decrypt(p, scope, rows, expected) ==
  LET opening == Opening(p)
      pass(fields) == FlattenSeq([i \in DOMAIN rows |->
                        Decryption(p, fields, scope, rows[i], expected)])
  IN  ScopedTo(scope, Collect(None, pass(Lower(opening)) \o pass(TargetFields(opening))))

\* A stored tree read back with its keys bound to its leaves in order.
Decipher(tree, keys, context) ==
  LET plains == [i \in DOMAIN tree.leaves |->
                   OpenLeaf(tree.leaves[i], keys[i], context, tree.shape)]
  IN  CASE Error \in Range(plains)  -> Error
        [] tree.shape = "sequence"  ->
             [kind |-> "list", texts |-> [i \in DOMAIN plains |-> plains[i].texts[1]]]
        [] OTHER                    -> plains[1]

\* What one part of an opening makes of its own keys: a value, or Error when a
\* leaf does not open or opens to another kind than the field declares.
Opened(part, keys) ==
  LET value == IF KeysNothing(part.field) THEN part.plain
               ELSE Decipher(part.tree, keys, part.context)
  IN  IF value # Error /\ part.field.type \notin {None, value.kind} THEN Error ELSE value
=============================================================================
