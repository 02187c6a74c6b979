------------------------------- MODULE Union -------------------------------
(***************************************************************************)
(* Merging of configurations (runtime/src/value/val_union.rs, repeated in  *)
(* evaluator/src/union.rs), the dictionary operations built on it, and the *)
(* schema instances they make; and, first, the annotations that are kept   *)
(* for run time.                                                           *)
(*                                                                         *)
(* An entry's operator is "union" (`:'), "override" (`=') or "insert"      *)
(* (`+='), or "unset" where the code stores none.  A schema is a set of    *)
(* optional attributes without defaults, their types, a base and an index  *)
(* signature; what else a schema body may do is in SchemaEval.             *)
(***************************************************************************)
EXTENDS Types, Values

(***************************************************************************)
(* Annotations at run time (runtime/src/value/val_type.rs and its copy in  *)
(* evaluator/src/ty.rs).  The compiled program keeps an annotation as text *)
(* and takes it apart again whenever a value is checked; the text is a     *)
(* sequence of tokens here, [t |-> "int"] or, for a literal,               *)
(* [t |-> "lit", v |-> value].                                             *)
(***************************************************************************)
Tok(t) == <<[t |-> t]>>
LitTok(v) == <<[t |-> "lit", v |-> v]>>

(* Type::to_string of an annotation. *)
RECURSIVE to_str(_)
to_str(ty) ==
    CASE ty.k \in {"any", "bool", "int", "float", "str"} -> Tok(ty.k)
      [] is_none(ty) -> LitTok(NoneV)
      [] ty.k = "bool_lit" -> LitTok(BoolV(ty.b))
      [] ty.k = "int_lit" -> LitTok(IntV(ty.i))
      [] ty.k = "float_lit" -> LitTok(FloatV(ty.f))
      [] ty.k = "str_lit" -> LitTok(StrV(ty.s))
      [] is_list(ty) -> Tok("[") \o to_str(ty.item) \o Tok("]")
      [] is_dict(ty) -> Tok("{") \o to_str(ty.key) \o Tok(":") \o to_str(ty.val) \o Tok("}")
      [] is_schema(ty) -> Tok(ty.name)
      [] is_number_multiplier(ty) -> IF ty.lit THEN LitTok(UnitV(ty.raw, ty.suffix)) ELSE Tok("units")
      [] is_func(ty) ->
            LET args == [i \in DOMAIN ty.params |->
                           (IF i > 1 THEN Tok(",") ELSE <<>>) \o to_str(ty.params[i].ty)]
                RECURSIVE join(_)
                join(s) == IF s = <<>> THEN <<>> ELSE s[1] \o join(Tail(s))
            IN  Tok("(") \o join(args) \o Tok(")") \o Tok("->") \o to_str(ty.ret)
      [] is_union(ty) ->
            LET RECURSIVE join(_)
                join(s) == IF Len(s) = 1 THEN to_str(s[1]) ELSE to_str(s[1]) \o Tok("|") \o join(Tail(s))
            IN  join(ty.types)

(* ty_erasure.rs: an annotation that is a function type as a whole. *)
type_func_erasure(ty) == IF is_func(ty) THEN Tok("function") ELSE to_str(ty)

BUILTIN_TYPES == {"int", "float", "str", "bool"}
Named(tpe, names) == Len(tpe) = 1 /\ tpe[1].t \in names
Bracketed(tpe, l, r) == Len(tpe) >= 2 /\ tpe[1].t = l /\ tpe[Len(tpe)].t = r
is_dict_type(tpe) == Bracketed(tpe, "{", "}")
is_list_type(tpe) == Bracketed(tpe, "[", "]")
is_builtin_type(tpe) == Named(tpe, BUILTIN_TYPES)
is_literal_type(tpe) == Named(tpe, {"lit"}) /\ tpe[1].v.k # "unit"
is_schema_type(tpe) ==
    ~is_list_type(tpe) /\ ~is_dict_type(tpe) /\ ~is_builtin_type(tpe) /\ ~is_literal_type(tpe)

(* Only square and curly brackets nest. *)
Nesting(tpe, i) == Cardinality({j \in 1..(i - 1): tpe[j].t \in {"[", "{"}})
                   - Cardinality({j \in 1..(i - 1): tpe[j].t \in {"]", "}"}})
TopLevel(tpe, t) == {i \in DOMAIN tpe: tpe[i].t = t /\ Nesting(tpe, i) = 0}
is_type_union(tpe) == TopLevel(tpe, "|") # {}

RECURSIVE split_type_union(_)
split_type_union(tpe) ==
    LET bars == TopLevel(tpe, "|")
        first == CHOOSE i \in bars: \A j \in bars: i =< j
    IN  IF bars = {} THEN <<tpe>>
        ELSE <<SubSeq(tpe, 1, first - 1)>> \o split_type_union(SubSeq(tpe, first + 1, Len(tpe)))

dereference_type(tpe) ==
    IF is_list_type(tpe) \/ is_dict_type(tpe) THEN SubSeq(tpe, 2, Len(tpe) - 1) ELSE tpe
(* The part behind the first colon: the type of the values. *)
separate_kv(tpe) ==
    LET colons == TopLevel(tpe, ":")
        first == CHOOSE i \in colons: \A j \in colons: i =< j
    IN  IF colons = {} THEN <<>> ELSE SubSeq(tpe, first + 1, Len(tpe))

(* A literal type keeps the text as written, the value is escaped first. *)
Escaped(s) == \E i \in DOMAIN s: Letters[s[i]].escaped
check_type_literal(v, tpe) ==
    is_literal_type(tpe) /\ v = tpe[1].v /\ (v.k = "str" => ~Escaped(v.s))
check_number_multiplier_type(v, tpe) ==
    v.k = "unit" /\ (Named(tpe, {"units"}) \/ (Named(tpe, {"lit"}) /\ v = tpe[1].v))
match_builtin_type(v, tpe) ==
    is_builtin_type(tpe) /\ (v.k = tpe[1].t \/ (v.k = "int" /\ tpe[1].t = "float"))
match_function_type(v, tpe) ==
    v.k = "func" /\ (Named(tpe, {"function"}) \/
                     \E i, j, n \in DOMAIN tpe: tpe[i].t = "(" /\ tpe[j].t = ")" /\ tpe[n].t = "->")

RECURSIVE CheckValue(_, _, _)
check_type_list(v, tpe) ==
    is_list_type(tpe) /\ \A i \in DOMAIN v.items: CheckValue(v.items[i], dereference_type(tpe), FALSE)
check_type_dict(v, tpe) ==
    is_dict_type(tpe) /\ \A i \in DOMAIN v.es:
                            CheckValue(v.es[i].val, separate_kv(dereference_type(tpe)), FALSE)
check_type_union(v, tpe) ==
    LET types == split_type_union(tpe) IN \E i \in DOMAIN types: CheckValue(v, types[i], FALSE)

(* check_type: a schema instance fits every name that is not a builtin,   *)
(* unless the check is strict.                                            *)
CheckValue(v, tpe, strict) ==
    IF tpe = <<>> \/ Named(tpe, {"any"}) \/ IsNullish(v) THEN TRUE
    ELSE IF is_type_union(tpe) THEN check_type_union(v, tpe)
    ELSE IF check_type_literal(v, tpe) \/ check_number_multiplier_type(v, tpe) THEN TRUE
    ELSE IF v.k = "dict" THEN check_type_dict(v, tpe)
    ELSE IF v.k = "list" THEN check_type_list(v, tpe)
    ELSE \/ match_builtin_type(v, tpe)
         \/ match_function_type(v, tpe)
         \/ v.k = "schema" /\ IF strict THEN Named(tpe, {v.name}) ELSE is_schema_type(tpe)

-----------------------------------------------------------------------------

(* UnionOptions *)
DefaultOptions == [list_override |-> FALSE, idempotent_check |-> TRUE, config_resolve |-> TRUE]

FirstPanic(vs) == LET bad == {i \in DOMAIN vs: Panics(vs[i])}
                  IN  IF bad = {} THEN <<>> ELSE <<vs[CHOOSE i \in bad: \A j \in bad: i =< j]>>
OrPanic(vs, v) == IF FirstPanic(vs) = <<>> THEN v ELSE FirstPanic(vs)[1]

PutEntry(es, e) == IF e.key \in Keys(es)
                   THEN [i \in DOMAIN es |-> IF es[i].key = e.key THEN e ELSE es[i]] ELSE Append(es, e)
WithEntries(v, es) == IF v.k = "schema" THEN SchemaV(v.name, es) ELSE DictV(es)

(* subsume.rs: whether two values may be merged without a conflict. *)
RECURSIVE value_subsume(_, _)
value_subsume(v1, v2) ==
    \/ IsNullish(v1) \/ IsNullish(v2)
    \/ cmp_equal(v1, v2)
    \/ /\ v1.k = "list" /\ v2.k = "list"
       /\ Len(v1.items) = Len(v2.items)
       /\ \A i \in DOMAIN v1.items: value_subsume(v1.items[i], v2.items[i])
    \/ IsConfig(v1) /\ IsConfig(v2)

(***************************************************************************)
(* Schemas                                                                 *)
(***************************************************************************)
RECURSIVE AttrNames(_)
AttrNames(name) == DOMAIN Schemas[name].attrs \cup
                   (IF Schemas[name].base = <<>> THEN {} ELSE AttrNames(Schemas[name].base[1]))
RECURSIVE AttrType(_, _)
AttrType(name, attr) == IF attr \in DOMAIN Schemas[name].attrs THEN Schemas[name].attrs[attr]
                        ELSE AttrType(Schemas[name].base[1], attr)

RECURSIVE has_index_signature(_)
has_index_signature(name) ==
    Indexed(Schemas[name]) \/ (Schemas[name].base # <<>> /\ has_index_signature(Schemas[name].base[1]))
is_fit_config(name, v) == has_index_signature(name) \/ Keys(v.es) \subseteq AttrNames(name)

RECURSIVE union_value(_, _, _, _), do_union(_, _, _), union_fn(_, _, _), resolve_schema(_),
          convert_collection_value(_, _), type_pack_and_check(_, _, _), schema_body(_, _)

(* An entry of the configuration reaches an attribute that has no value. *)
EntryValue(e) ==
    IF e.idx = <<>> THEN e.val
    ELSE IF e.op = "insert" /\ e.val.k = "list" /\ (e.idx[1] = 0 \/ (e.idx[1] > 0 /\ e.val.items = <<>>))
    THEN e.val
    ELSE ValueError

(* Only the schema's own index signature admits other attributes. *)
schema_body(name, es) ==
    LET own(key) == key \in AttrNames(name)
        value(e) == IF own(e.key)
                    THEN LET v == EntryValue(e)
                         IN  IF Panics(v) THEN v
                             ELSE type_pack_and_check(v, type_func_erasure(AttrType(name, e.key)), FALSE)
                    ELSE IF ~Indexed(Schemas[name]) THEN TypeError
                    ELSE type_pack_and_check(e.val, type_func_erasure(Schemas[name].index[1].val), FALSE)
        vals == [i \in DOMAIN es |-> value(es[i])]
        given == [i \in DOMAIN es |->
                    [es[i] EXCEPT !.val = vals[i], !.idx = IF own(es[i].key) THEN @ ELSE <<>>]]
        RECURSIVE declare(_, _)
        declare(out, names) ==
            IF names = {} THEN out
            ELSE LET n == CHOOSE n \in names: TRUE
                 IN  declare(Append(out, Entry(n, UndefinedV, "unset", <<>>)), names \ {n})
    IN  OrPanic(vals, SchemaV(name, declare(given, AttrNames(name) \ Keys(es))))

(* An instance is built again from its configuration, as overrides. *)
resolve_schema(v) ==
    LET config == SelectSeq(v.es, LAMBDA e: e.val # UndefinedV)
    IN  IF v.k # "schema" THEN v
        ELSE schema_body(v.name, [i \in DOMAIN config |-> [config[i] EXCEPT !.op = "override"]])

(***************************************************************************)
(* Conversion of a configuration to what an annotation names.              *)
(***************************************************************************)
convert_collection_value_with_union_types(v, types) ==
    LET fits == {i \in DOMAIN types: LET c == convert_collection_value(v, types[i])
                                     IN  Panics(c) \/ CheckValue(c, types[i], FALSE)}
        first == CHOOSE i \in fits: \A j \in fits: i =< j
    IN  IF fits = {} THEN v ELSE convert_collection_value(v, types[first])

convert_collection_value(v, tpe) ==
    IF \/ tpe = <<>> \/ Named(tpe, {"any"})
       \/ v.k \notin {"list", "dict"}
       \/ is_dict_type(tpe) /\ v.k # "dict"
       \/ is_list_type(tpe) /\ v.k # "list"
    THEN v
    ELSE IF is_type_union(tpe)
    THEN convert_collection_value_with_union_types(v, split_type_union(tpe))
    ELSE IF is_dict_type(tpe)
    THEN LET val_tpe == separate_kv(dereference_type(tpe))
             vals == [i \in DOMAIN v.es |-> convert_collection_value(v.es[i].val, val_tpe)]
         IN  OrPanic(vals, DictV([i \in DOMAIN v.es |-> [v.es[i] EXCEPT !.val = vals[i]]]))
    ELSE IF is_list_type(tpe)
    THEN LET items == [i \in DOMAIN v.items |-> convert_collection_value(v.items[i], dereference_type(tpe))]
         IN  OrPanic(items, ListV(items))
    ELSE IF v.k = "dict" /\ Named(tpe, DOMAIN Schemas)
    THEN IF is_fit_config(tpe[1].t, v) THEN schema_body(tpe[1].t, v.es) ELSE v
    ELSE v

type_pack_and_check(v, tpe, strict) ==
    LET converted == IF v.k = "schema" THEN v ELSE convert_collection_value(v, tpe)
    IN  IF IsNullish(v) THEN v
        ELSE IF Panics(converted) THEN converted
        ELSE IF CheckValue(converted, tpe, strict) THEN converted ELSE TypeError

(***************************************************************************)
(* The union itself.  A conflict ends the union of its dictionary and is   *)
(* reported once the whole union is done; either way the program panics.   *)
(***************************************************************************)
InsertAt(items, at, new) == SubSeq(items, 1, at - 1) \o new \o SubSeq(items, at, Len(items))

(* What one entry of the right operand makes of the value it meets; the    *)
(* origin is <<>> when there is none.                                      *)
UnionAt(origin, e, opts) ==
    LET at == must_normalize_index(e.idx[1], Len(origin[1].items))
    IN  IF origin = <<>> \/ origin[1].k # "list" \/ origin[1].items = <<>>
              \/ at \notin DOMAIN origin[1].items
        THEN ValueError
        ELSE IF opts.idempotent_check /\ ~value_subsume(e.val, origin[1].items[at]) THEN ValueError
        ELSE LET u == union_value(origin[1].items[at], e.val, FALSE, opts)
             IN  IF Panics(u) THEN u ELSE ListV([origin[1].items EXCEPT ![at] = u])
OverrideAt(origin, e) ==
    LET at == must_normalize_index(e.idx[1], Len(origin[1].items))
    IN  IF origin = <<>> \/ origin[1].k # "list" \/ at \notin DOMAIN origin[1].items THEN ValueError
        ELSE IF e.val.k = "undefined"
        THEN ListV(SubSeq(origin[1].items, 1, at - 1) \o SubSeq(origin[1].items, at + 1, Len(origin[1].items)))
        ELSE ListV([origin[1].items EXCEPT ![at] = e.val])
Insert(origin, e) ==
    LET old == IF origin = <<>> \/ IsNullish(origin[1]) THEN ListV(<<>>) ELSE origin[1]
        at == must_normalize_index(e.idx[1], Len(old.items))
    IN  IF old.k # "list" \/ e.val.k # "list" THEN TypeError
        ELSE IF e.idx = <<>> THEN ListV(old.items \o e.val.items)
        ELSE IF at = 0 \/ (at > Len(old.items) + 1 /\ e.val.items # <<>>) THEN ValueError
        ELSE IF e.val.items = <<>> THEN old
        ELSE ListV(InsertAt(old.items, at, e.val.items))
UnionWith(origin, e, opts) ==
    IF opts.idempotent_check /\ ~value_subsume(e.val, origin[1]) THEN ValueError
    ELSE union_value(origin[1], e.val, FALSE, opts)

EntryUnion(origin, e, opts) ==
    IF origin = <<>> /\ e.idx = <<>> THEN e.val
    ELSE CASE e.op \in {"union", "unset"} -> IF e.idx = <<>> THEN UnionWith(origin, e, opts)
                                             ELSE UnionAt(origin, e, opts)
           [] e.op = "override" -> IF e.idx = <<>> THEN e.val ELSE OverrideAt(origin, e)
           [] e.op = "insert" -> Insert(origin, e)

(* The operators and indexes of the right operand stay with the result. *)
union_fn(obj, delta, opts) ==
    IF delta = <<>> THEN DictV(obj)
    ELSE LET e == delta[1]
             old == IF e.key \in Keys(obj) THEN <<obj[IndexOf(obj, e.key)]>> ELSE <<>>
             v == EntryUnion(IF old = <<>> THEN <<>> ELSE <<old[1].val>>, e, opts)
             op == IF e.op = "unset" /\ old # <<>> THEN old[1].op ELSE e.op
             idx == IF e.idx = <<>> /\ old # <<>> THEN old[1].idx ELSE e.idx
         IN  IF Panics(v) THEN v
             ELSE union_fn(PutEntry(obj, Entry(e.key, v, op, idx)), Tail(delta), opts)

do_union(p, x, opts) ==
    IF p.k = "list" /\ x.k = "list"
    THEN LET n == IF Len(p.items) > Len(x.items) THEN Len(p.items) ELSE Len(x.items)
             items == [i \in 1..n |-> IF i > Len(p.items) THEN x.items[i]
                                      ELSE IF i > Len(x.items) THEN p.items[i]
                                      ELSE union_value(p.items[i], x.items[i], FALSE, opts)]
         IN  IF opts.list_override THEN p ELSE OrPanic(items, ListV(items))
    ELSE IF IsConfig(p) /\ IsConfig(x)
    THEN LET u == union_fn(p.es, x.es, opts)
             name == IF p.k = "schema" THEN p.name ELSE x.name
         IN  IF Panics(u) \/ (p.k = "dict" /\ x.k = "dict") THEN u
             ELSE IF opts.config_resolve THEN resolve_schema(SchemaV(name, u.es))
             ELSE SchemaV(name, u.es)
    ELSE TypeError

union_value(p, x, or_mode, opts) ==
    IF IsNullish(p) THEN x
    ELSE IF IsNullish(x) THEN p
    ELSE IF IsListOrConfig(p) /\ IsListOrConfig(x) THEN do_union(p, x, opts)
    ELSE IF ~or_mode THEN x
    ELSE IF p.k = "int" /\ x.k = "int" THEN BitOr(p.n, x.n) ELSE TypeError

union_entry(p, x, or_mode, opts) == union_value(p, x, or_mode, opts)

bin_bit_or(a, x) == IF a.k = "int" /\ x.k = "int" THEN BitOr(a.n, x.n)
                    ELSE union_entry(a, x, TRUE, DefaultOptions)
bin_aug_bit_or(a, x) ==
    IF a.k = "int" /\ x.k = "int" THEN BitOr(a.n, x.n)
    ELSE IF IsListOrConfig(a) \/ IsListOrConfig(x) THEN union_entry(a, x, TRUE, DefaultOptions)
    ELSE TypeError

(***************************************************************************)
(* Dictionaries                                                            *)
(***************************************************************************)
dict_merge_key_value_pair(p, key, v, op, idx, idempotent_check) ==
    IF ~IsConfig(p) THEN TypeError
    ELSE union_entry(p, DictV(<<Entry(key, v, op, idx)>>), TRUE,
                     [DefaultOptions EXCEPT !.config_resolve = FALSE, !.idempotent_check = idempotent_check])
dict_insert(p, key, v, op, idx) == dict_merge_key_value_pair(p, key, v, op, idx, TRUE)

dict_insert_unpack(p, v) ==
    IF IsNullish(v) THEN p
    ELSE IF IsConfig(v) THEN bin_aug_bit_or(p, DictV(v.es)) ELSE TypeError

=============================================================================
