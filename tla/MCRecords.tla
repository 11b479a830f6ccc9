----------------------------- MODULE MCRecords -----------------------------
(***************************************************************************)
(* Instances of Records for TLC.                                           *)
(***************************************************************************)
EXTENDS Records

\* A field: its name, label, the parts that extend its context, its outputs,
\* the EQL type it is stored as, and its declared kind.
F(name, label, outputs, type) ==
  [name |-> name, label |-> label, ext |-> <<>>, outputs |-> outputs,
   target |-> None, type |-> type]
T(name, label) == [F(name, label, <<>>, None) EXCEPT !.target = "TextEq"]
D(fields)      == [fields |-> fields, contextField |-> None]

Str(t)  == [kind |-> "str", texts |-> <<t>>]
List(s) == [kind |-> "list", texts |-> s]
Row(a, v, b, w) == <<[name |-> a, value |-> v], [name |-> b, value |-> w]>>

MCLabelOf == [t \in {"a", "b", "bad", "long"} |->
                CASE t = "bad" -> None [] OTHER -> <<t>>]

MCDeclarations ==
  [users   |-> D(<<F("name", <<"u", "name">>, <<"c">>, None),
                   F("mail", <<"u", "mail">>, <<"c", "eq">>, "str")>>),
   renamed |-> D(<<F("name", <<"u", "mail">>, <<"c">>, None)>>),
   eql     |-> D(<<T("mail", <<"u", "mail">>),
                   F("name", <<"u", "name">>, <<"c">>, "list")>>),
   tenants |-> [D(<<F("note", <<"note">>, <<"c", "eq">>, "str"),
                    F("tenant", <<"tenant">>, <<"passthrough">>, None)>>)
                  EXCEPT !.contextField = "tenant"],
   extended |-> D(<<[F("name", <<"u", "name">>, <<"c">>, None) EXCEPT !.ext = <<"x">>],
                    [F("mail", <<"u", "mail">>, <<"passthrough">>, None) EXCEPT !.ext = <<"x">>]>>),
   shared  |-> D(<<F("name", <<"u", "mail">>, <<"c">>, None),
                   F("mail", <<"u", "mail">>, <<"c">>, None)>>)]

MCSources ==
  [users   |-> {<<Row("name", List(<<"a", "b">>), "mail", Str("a"))>>,
                <<Row("mail", Str("b"), "name", List(<<>>)),
                  Row("name", Str("a"), "mail", Str("a"))>>,
                <<Row("name", Str("a"), "name", Str("a"))>>},
   renamed |-> {},
   eql     |-> {<<Row("mail", Str("a"), "name", List(<<"b">>)),
                  Row("mail", Str("b"), "name", List(<<"a", "b">>))>>,
                <<Row("mail", Str("a"), "name", Str("b"))>>},
   tenants |-> {<<Row("note", Str("a"), "tenant", Str("a")),
                  Row("note", Str("a"), "tenant", Str("b"))>>,
                <<Row("note", Str("b"), "tenant", Str("a"))>>,
                <<Row("note", Str("a"), "tenant", Str("bad"))>>,
                <<Row("note", Str("a"), "tenant", Str("long"))>>},
   extended |-> {<<Row("name", [kind |-> "null", texts |-> <<>>], "mail", [kind |-> "opaque", texts |-> <<>>])>>,
                 <<Row("name", [kind |-> "opaque", texts |-> <<>>], "mail", Str("a"))>>},
   shared  |-> {<<Row("name", Str("a"), "mail", Str("b"))>>}]

MCBatched == {"tenants"}
MCLabels  == {<<"a">>}
=============================================================================
