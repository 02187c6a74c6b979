----------------------------- MODULE MCLanguage -----------------------------
(***************************************************************************)
(* Programs of two and three statements: a name gets a value of every kind, *)
(* with and without an annotation; then an operation is applied to it, or  *)
(* it is updated, and another name is bound to it, before or after the     *)
(* update.  Beside them, one call of every function of the library, and    *)
(* the texts of up to four letters.                                        *)
(***************************************************************************)
EXTENDS Language

CONSTANT ResolverAccepts(_)   \* see Library
VARIABLES call,   \* see Library
          text    \* see Strings

Words == {"a", "b", "c", "S", "int", "x", "y", "_", "[", "]", "{", "}", ",", ":", "None", "Undefined", "True", "False",
          ".0", ".5", "Ki", "function"}
MCLetters ==
    LET plain(r) == [rank |-> r, bytes |-> 1, escaped |-> FALSE]
    IN  ("a" :> plain(1)) @@ ("b" :> plain(2)) @@ ("e" :> [rank |-> 4, bytes |-> 2, escaped |-> FALSE])
        @@ ("q" :> [rank |-> 0, bytes |-> 1, escaped |-> TRUE])
        @@ [w \in Words \cup {ToString(n): n \in -20..20} |-> plain(3)]
A == <<"a">>
B == <<"b">>
C == <<"c">>
X == <<"_", "x">>
Y == <<"y">>
x == Identifier(X)
I == <<"i">>
J == <<"j">>
MCSchemas ==
    ("S" :> [attrs |-> (A :> int) @@ (B :> list(int)), base |-> <<>>, index |-> <<>>])
    @@ ("T" :> [attrs |-> (C :> str), base |-> <<"S">>, index |-> <<>>])
    @@ ("U" :> [attrs |-> (A :> schema("S", TRUE)), base |-> <<>>, index |-> <<>>])
    @@ ("V" :> [attrs |-> (A :> str), base |-> <<>>, index |-> <<[val |-> int, any_other |-> TRUE]>>])

N(n) == NumberLit(n)
True == NameConstantLit("True")
None == NameConstantLit("None")
Undef == NameConstantLit("Undefined")
Str(s) == StringLit(s)
One(name, op, v) == ConfigExpr(<<NamedEntry(name, op, v)>>)
Lists == {ListExpr(<<>>), ListExpr(<<N(1), N(2)>>), ListExpr(<<Str(A), N(1)>>), ListExpr(<<FloatLit(3)>>),
          ListExpr(<<One(A, "union", N(1))>>)}
Dicts == {ConfigExpr(<<>>), One(A, "union", N(1)), One(A, "override", N(2)),
          One(B, "insert", ListExpr(<<N(3)>>)), One(A, "union", One(A, "union", N(1))),
          ConfigExpr(<<NamedEntry(A, "union", Str(A)), NamedEntry(B, "union", N(1))>>),
          ConfigExpr(<<NamedEntry(A, "union", N(1)), NamedEntry(B, "union", ListExpr(<<N(1)>>))>>)}
Instances == {SchemaExpr(<<"S">>, One(A, "union", N(1))), SchemaExpr(<<"S">>, One(B, "override", ListExpr(<<N(1)>>))),
              SchemaExpr(<<"T">>, One(C, "union", Str(A))), SchemaExpr(<<"V">>, One(B, "union", N(1)))}
Lambdas == {LambdaExpr(<<Parameter(I, <<int>>, <<>>)>>, <<>>, BinaryExpr("+", Identifier(I), N(1))),
            LambdaExpr(<<Parameter(I, <<>>, <<N(1)>>)>>, <<str>>, Identifier(I)),
            LambdaExpr(<<Parameter(I, <<schema("S", TRUE)>>, <<None>>)>>, <<>>, Identifier(I))}
Scalars == {N(0), N(2), N(7), FloatLit(3), FloatLit(2), True, None, Undef, Str(<<>>), Str(<<"a", "b">>), Str(<<"e">>),
            Str(<<"int">>), Str(<<"q">>), UnitLit(1, "Ki"), UnaryExpr("-", N(1))}
Values == Scalars \cup Lists \cup Dicts \cup Instances
Annotations == {any, bool, int, float, str, int_lit(2), float_lit(2), union(<<int_lit(1), int_lit(2)>>),
                union(<<int, str>>), list(int), list(float), dict(str, int), dict(str, any), schema("S", TRUE),
                schema("V", TRUE), list(schema("S", TRUE)), union(<<schema("S", TRUE), schema("T", TRUE)>>),
                union(<<list(int), schema("S", TRUE)>>), number_multiplier_non_lit_ty, str_lit(A)}
Unifications == {UnificationStmt(X, SchemaExpr(<<s>>, ConfigExpr(<<item>>))): s \in {"S", "T"},
                   item \in {NamedEntry(A, "union", N(1)), NamedEntry(A, "override", N(2)), NamedEntry(B, "insert", ListExpr(<<N(1)>>))}}
Sources == {AssignStmt(X, <<>>, v): v \in Values \cup Lambdas}
           \cup Unifications \cup {AssignStmt(X, <<ty>>, v): ty \in Annotations, v \in Values}

Operands == {x, N(0), N(2), N(3), UnaryExpr("-", N(1)), FloatLit(3), True, None, Str(A), ListExpr(<<N(3)>>),
             One(A, "union", N(1)), One(A, "override", N(2)), One(B, "insert", ListExpr(<<N(3)>>)),
             ConfigExpr(<<IndexedEntry(B, 0, "union", N(1))>>), ConfigExpr(<<IndexedEntry(B, 0, "override", N(2))>>),
             ConfigExpr(<<IndexedEntry(B, 0, "insert", ListExpr(<<N(2)>>))>>),
             SchemaExpr(<<"S">>, One(A, "union", N(1)))}
BinOps == {"+", "-", "*", "/", "//", "%", "**", "<<", ">>", "&", "|", "^", "and", "or"}
CmpOps == {"==", "!=", "<", "<=", ">", ">=", "in", "not in", "is", "is not"}
Loop(vars_) == CompClause(vars_, x, <<>>)
i == Identifier(I)
j == Identifier(J)
Ops ==
    {BinaryExpr(op, x, v): op \in BinOps, v \in Operands} \cup {BinaryExpr(op, v, x): op \in BinOps, v \in Operands}
    \cup {Compare(x, <<op>>, <<v>>): op \in CmpOps, v \in Operands} \cup {Compare(v, <<op>>, <<x>>): op \in CmpOps, v \in Operands}
    \cup {Compare(N(1), <<"<", op>>, <<N(2), x>>): op \in {"<", "in"}}
    \cup {UnaryExpr(op, x): op \in {"+", "-", "~", "not"}}
    \cup {AsExpr(x, ty): ty \in Annotations}
    \cup {IfExpr(x, v, w): v, w \in {x, N(1), Str(A), None}}
    \cup {SelectorExpr(x, n, q): n \in {A, B, C}, q \in BOOLEAN}
    \cup {Subscript(x, v, q): v \in {N(0), N(2), UnaryExpr("-", N(1)), Str(A), Str(C), None}, q \in BOOLEAN}
    \cup {Slice(x, l, u, s): l, u \in {<<>>, <<N(1)>>, <<UnaryExpr("-", N(1))>>}, s \in {<<>>, <<N(0)>>, <<N(2)>>, <<UnaryExpr("-", N(1))>>}}
    \cup {ListExpr(<<N(1), StarredExpr(x)>>), ListExpr(<<ListIfItemExpr(x, <<x>>, <<>>)>>),
          ListExpr(<<ListIfItemExpr(x, <<N(1)>>, <<ListExpr(<<Str(A)>>)>>)>>), ListExpr(<<x, N(1)>>)}
    \cup {ListComp(i, <<Loop(<<I>>)>>), ListComp(j, <<Loop(<<I, J>>)>>), ListComp(BinaryExpr("+", i, N(1)), <<Loop(<<I>>)>>),
          ListComp(i, <<CompClause(<<I>>, x, <<i>>)>>), ListComp(Compare(i, <<">">>, <<i>>), <<Loop(<<I>>)>>), ListComp(i, <<CompClause(<<I>>, x, <<i, Compare(i, <<">">>, <<N(1)>>)>>)>>),
          ListComp(BinaryExpr("+", i, j), <<Loop(<<I>>), Loop(<<J>>)>>)}
    \cup {DictComp(i, j, "union", <<Loop(<<I, J>>)>>), DictComp(i, N(1), "override", <<Loop(<<I>>)>>), DictComp(Str(A), j, "union", <<Loop(<<I, J>>)>>)}
    \cup {QuantExpr(op, vs, x, t, c): op \in {"all", "any", "map", "filter"}, vs \in {<<I>>, <<I, J>>},
                                      t \in {i, Compare(i, <<">">>, <<N(1)>>), SelectorExpr(i, A, FALSE)}, c \in {<<>>, <<i>>}}
    \cup {ConfigExpr(<<NamedEntry(A, op, x)>>): op \in {"union", "override", "insert"}}
    \cup {ConfigExpr(<<NamedEntry(A, "union", x), NamedEntry(A, op, N(1))>>): op \in {"union", "override"}}
    \cup {ConfigExpr(<<UnpackEntry(x), NamedEntry(A, "union", N(1))>>), ConfigExpr(<<KeyedEntry(x, "union", N(1))>>),
          ConfigExpr(<<UnpackEntry(ConfigIfEntryExpr(x, <<NamedEntry(A, "union", x)>>, <<>>))>>),
          ConfigExpr(<<NamedEntry(A, "union", x), NamedEntry(B, "union", ListExpr(<<Identifier(A)>>))>>)}
    \cup {SchemaExpr(<<s>>, ConfigExpr(<<item>>)): s \in {"S", "T", "U", "V"},
             item \in {NamedEntry(A, "union", x), NamedEntry(B, "override", x), NamedEntry(C, "union", x), UnpackEntry(x),
                       NamedEntry(B, "insert", x)}}
    \cup {SchemaExpr(X, One(A, "override", N(2))), SchemaExpr(X, One(C, "override", N(2)))}
    \cup {CallExpr(x, <<>>, <<>>), CallExpr(x, <<N(1)>>, <<>>), CallExpr(x, <<>>, <<Keyword(I, N(1))>>),
          CallExpr(x, <<One(A, "union", N(1))>>, <<>>), CallExpr(x, <<>>, <<Keyword(I, One(A, "union", N(1)))>>)}
    \cup {CallExpr(l, <<x>>, <<>>): l \in Lambdas}
    \cup {JoinedString(<<Str(A), FormattedValue(x)>>)}

Updates == Unifications \cup {AugAssignStmt(X, op, v): op \in BinOps \ {"and", "or"}, v \in Operands}
(* After an annotation only the operations that look into the value. *)
Inspections == {e \in Ops: e.k \notin {"bin", "cmp", "slice", "quant"}}
MCStatements(p) ==
    CASE Len(p) = 0 -> Sources
      [] Len(p) = 1 -> {AssignStmt(Y, <<>>, e): e \in IF p[1].s = "assign" /\ p[1].ty # <<>> THEN Inspections ELSE Ops}
                       \cup {AssignStmt(Y, <<>>, x)} \cup Updates
      [] Len(p) = 2 -> IF p[2].target = X THEN {AssignStmt(Y, <<>>, x)}
                       ELSE IF p[2].val = x /\ p[1].s = "assign" THEN Updates ELSE {}
      [] OTHER -> {}

MCLetter(bytes, case, upper, lower, title, space, line) ==
    [bytes |-> bytes, case |-> case, upper |-> upper, lower |-> lower, title |-> title,
     ascii |-> space, space |-> space, line |-> line]
(* "z" stands for the sharp s: two bytes, and two letters in upper case. *)
MCAlphabet ==
    ("s" :> MCLetter(1, "lower", <<"S">>, <<"s">>, <<"S">>, FALSE, ""))
    @@ ("S" :> MCLetter(1, "upper", <<"S">>, <<"s">>, <<"S">>, FALSE, ""))
    @@ ("z" :> MCLetter(2, "lower", <<"S", "S">>, <<"z">>, <<"S", "s">>, FALSE, ""))
    @@ [c \in {"_", "n", "r"} |-> MCLetter(1, "none", <<c>>, <<c>>, <<c>>, TRUE, IF c = "_" THEN "" ELSE c)]
MCNeedles == {<<>>, <<"s">>, <<"z">>, <<"s", "s">>, <<"s", "_">>}
MCOffsets == {-2, 0, 1, 9}

Lib == INSTANCE Library
MCAccepts(c) == LET ok == Lib!Accepted(c) IN ok
Text == INSTANCE Strings WITH Alphabet <- MCAlphabet, Needles <- MCNeedles, Offsets <- MCOffsets, MaxLen <- 4

MCInit == Init /\ Lib!Init /\ Text!Init
MCNext == \/ call = Lib!NoCall /\ text = <<>> /\ Next /\ UNCHANGED <<call, text>>
          \/ program = <<>> /\ text = <<>> /\ Lib!Next /\ UNCHANGED <<vars, text>>
          \/ program = <<>> /\ call = Lib!NoCall /\ Text!Next /\ UNCHANGED <<vars, call>>
MCSpec == MCInit /\ [][MCNext]_<<vars, call, text>>

TextsOnly == program = <<>> /\ call = Lib!NoCall

(* The runtime's functions understand the calls the resolver accepts (see  *)
(* Library).                                                               *)
CallsAsDeclared == program = <<>> => Lib!CallsAsDeclared
(* Splitting, joining and replacing lose nothing; find, rfind, index,      *)
(* rindex, count, startswith and endswith agree with each other, and the   *)
(* case conversions with isupper, islower and istitle (see Strings).       *)
MembersAgree == TextsOnly => Text!PiecesRestore /\ Text!SearchesAgree /\ Text!CasesAgree
=============================================================================
