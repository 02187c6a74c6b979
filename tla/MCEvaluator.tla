---------------------------- MODULE MCEvaluator ----------------------------
(* Packages of global statements (GlobalEval) and packages of schemas        *)
(* (SchemaEval). A behaviour evaluates one of the two kinds.                 *)
EXTENDS GlobalEval

CONSTANTS a, b, d,
    MaxAny,         \* statements of an arbitrary package without ifs
    MaxDefined,     \* statements of a well-defined package without ifs
    MaxWithIf,      \* statements of a package with an if, besides the if
    MaxInstances, MaxDepth, MaxStatements
VARIABLES schemas, schema_ev, made

Exprs(names) == {Number(1)} \cup {NamePlus(y, 1) : y \in names}
Simple(names) ==
    {Assign(x, e) : x \in names, e \in Exprs(names)} \cup {AugAssign(x, e) : x \in names, e \in Exprs(names)}

(* Names are interchangeable: the first one that is set is a. *)
Bodies(names, max) == {p \in UNION {[1..n -> Simple(names)] : n \in 1..max} : p[1].x = a}

(* Ifs whose branches set names to numbers that no other statement uses. *)
Branches == {<<Assign(x, Number(5))>> : x \in {a, b}} \cup {<<Assign(a, NamePlus(b, 1))>>}
                \cup {<<Assign(b, Number(6)), Assign(a, NamePlus(b, 1))>>, <<AugAssign(a, Number(1))>>}
Nested == {<<If(Number(n), <<Assign(a, Number(6))>>, <<Assign(b, Number(7))>>)>> : n \in {0, 1}}
Ifs == {If(cond, s, t) : cond \in {Number(0), Number(1), NamePlus(b, 0)},
                         s \in Branches \cup Nested, t \in Branches \cup {<<>>}}

(* Every package is evaluated as one module, short ones also as two. *)
InitStraight ==
    \/ \E p \in Bodies(Names, MaxAny) : Init(<<p>>) \/ Init(<<SubSeq(p, 1, 1), Tail(p)>>)
    \/ \E p \in Bodies(Names, MaxDefined) : WellDefined(p) /\ Init(<<p>>)

InitWithIf ==
    \E n \in 0..MaxWithIf : \E p \in [1..n -> Simple({a, b})], i \in 1..n + 1, f \in Ifs :
        Init(<<InsertAt(p, i, f)>>)
-----------------------------------------------------------------------------
(* Three schemas: a base, a mixin (or a schema that defaults create) and a   *)
(* schema that inherits from the base.                                       *)
Sch == INSTANCE SchemaEval WITH Names <- {a, b}, ev <- schema_ev
schema_vars == <<schemas, schema_ev, made>>

Other(n) == IF n = a THEN b ELSE a

(* Defaults: a number, the other attribute. *)
BaseStmts ==
    UNION {{Sch!Attr(n, None), Sch!Attr(n, Sch!Number(1)), Sch!Attr(n, Sch!NamePlus(Other(n), 1))} : n \in {a, b}}
MixinStmts == UNION {{Sch!Attr(n, Sch!Number(2)), Assign(n, Sch!NamePlus(Other(n), 1))} : n \in {a, b}}
ChildStmts ==
    UNION {{Sch!Attr(n, Sch!Number(3)), Sch!Attr(n, Sch!NamePlus(Other(n), 1)),
            AugAssign(n, Sch!Number(1))} : n \in {a, b}}
        \cup {Sch!Attr(a, None), Assign(a, Sch!Number(4)),
              Sch!Attr(a, Sch!New(2, Sch!NoConfig, a)),
              Sch!Attr(b, Sch!New(2, [n \in {a} |-> Sch!Entry(7, "override")], b))}

SchemaBodies(stmts, max) == UNION {[1..n -> stmts] : n \in 0..max}

Configs == {Sch!NoConfig, a :> Sch!Entry(5, "union"), a :> Sch!Entry(5, "override"),
            b :> Sch!Entry(5, "override")}

Schema(parent, mixins, body) == [parent |-> parent, mixins |-> mixins, body |-> body]

(* The second schema is a mixin of the third, stands alone, or inherits from *)
(* the base as the third one does.                                           *)
SchemaInit ==
    \E base \in SchemaBodies(BaseStmts, 2), second \in SchemaBodies(MixinStmts, 1), child \in SchemaBodies(ChildStmts, 2),
       mixins \in {<<>>, <<2>>}, parent \in {None, 1} :
        /\ mixins # <<>> => parent = None
        /\ Len(base) + Len(second) + Len(child) <= MaxStatements
        /\ base # <<>> => base[1].x = a
        /\ Sch!Init(<<Schema(None, <<>>, base), Schema(parent, <<>>, second), Schema(1, mixins, child)>>)

(* Short programs make two instances. *)
SchemaNext ==
    /\ made # <<>> => Len(schemas[1].body) + Len(schemas[2].body) + Len(schemas[3].body) <= 2
    /\ Sch!Next(Configs)
-----------------------------------------------------------------------------
NoGlobals == Init(<<>>)
NoSchemas == Sch!Init(<<>>)

EvaluatorInit ==
    \/ (InitStraight \/ InitWithIf) /\ NoSchemas
    \/ SchemaInit /\ NoGlobals

EvaluatorNext ==
    \/ Next /\ UNCHANGED schema_vars
    \/ SchemaNext /\ UNCHANGED vars

EvaluatorSpec == EvaluatorInit /\ [][EvaluatorNext]_<<vars, schema_vars>>
-----------------------------------------------------------------------------
(* An attribute has the value of the last of all its setters, or the one of  *)
(* the config, whichever of the bodies of its schema reads it and however    *)
(* they are ordered (SchemaEval; Schema instantiation in schema.rs).         *)
LateBinding == Sch!LateBinding
=============================================================================
