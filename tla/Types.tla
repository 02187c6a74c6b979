------------------------------- MODULE Types -------------------------------
(***************************************************************************)
(* The static types of the resolver (sema/src/ty, sema/src/resolver/ty.rs): *)
(* the order `subsume', least upper bounds, widening, and the checks of a   *)
(* value's type against an annotation.                                      *)
(*                                                                         *)
(* A type is a record whose field k is its kind.  A string is a sequence of *)
(* letters; a letter may stand for a whole word, such as "int", because    *)
(* `subsume' looks for the name of a type inside the text of a literal.    *)
(* A float is counted in halves.  Two types of equal contents are one type *)
(* here, where the code compares their addresses when it removes           *)
(* duplicates: `subsume' then removes the second one.                      *)
(***************************************************************************)
EXTENDS Integers, Sequences, FiniteSets

CONSTANT Schemas   \* schema name -> [attrs: name -> type, base: <<>> or
                   \* <<name>>, index: <<>> or <<[val, any_other]>>]

Plain(k) == [k |-> k]
any == Plain("any")
none == Plain("none")
bool == Plain("bool")
int == Plain("int")
float == Plain("float")
str == Plain("str")
void == Plain("void")
bool_lit(v) == [k |-> "bool_lit", b |-> v]
int_lit(v) == [k |-> "int_lit", i |-> v]
float_lit(v) == [k |-> "float_lit", f |-> v]
str_lit(v) == [k |-> "str_lit", s |-> v]
list(item_ty) == [k |-> "list", item |-> item_ty]
NoAttrs == [n \in {} |-> any]
dict_with_attrs(key_ty, val_ty, attrs) ==
    [k |-> "dict", key |-> key_ty, val |-> val_ty, attrs |-> attrs]
dict(key_ty, val_ty) == dict_with_attrs(key_ty, val_ty, NoAttrs)
union(types) == [k |-> "union", types |-> types]
number_multiplier(raw_value, suffix) ==
    [k |-> "unit", lit |-> TRUE, raw |-> raw_value, suffix |-> suffix]
number_multiplier_non_lit_ty == [k |-> "unit", lit |-> FALSE, raw |-> 0, suffix |-> ""]
schema(name, is_instance) == [k |-> "schema", name |-> name, inst |-> is_instance]
(* A parameter is [name, ty, def]: def says that it has a default value. *)
function(params, return_ty, is_variadic) ==
    [k |-> "func", params |-> params, ret |-> return_ty, variadic |-> is_variadic]
iterable == union(<<str, dict(any, any), list(any)>>)
number == union(<<int, float>>)

(* The flags: a literal has the flag of its kind too, a union only UNION. *)
is_any(ty) == ty.k = "any"
is_none(ty) == ty.k = "none"
is_none_or_any(ty) == ty.k \in {"none", "any"}
is_int(ty) == ty.k \in {"int", "int_lit"}
is_float(ty) == ty.k \in {"float", "float_lit"}
is_bool(ty) == ty.k \in {"bool", "bool_lit"}
is_str(ty) == ty.k \in {"str", "str_lit"}
is_number(ty) == is_int(ty) \/ is_float(ty)
is_literal(ty) == ty.k \in {"bool_lit", "int_lit", "float_lit", "str_lit"}
is_primitive(ty) == ty.k \in {"bool", "int", "float", "str"}
is_list(ty) == ty.k = "list"
is_dict(ty) == ty.k = "dict"
is_schema(ty) == ty.k = "schema"
is_schema_def(ty) == IF ty.k = "schema" THEN ~ty.inst ELSE FALSE
is_dict_or_schema(ty) == is_dict(ty) \/ is_schema(ty)
is_union(ty) == ty.k = "union"
is_iterable(ty) == is_str(ty) \/ is_list(ty) \/ is_dict_or_schema(ty)
is_func(ty) == ty.k = "func"
is_number_multiplier(ty) == ty.k = "unit"
is_assignable_type(ty) == ty.k \notin {"void", "module", "named"}

RECURSIVE is_key(_)
is_key(ty) == IF is_union(ty) THEN \A i \in DOMAIN ty.types: is_key(ty.types[i]) ELSE is_str(ty)

(***************************************************************************)
(* unify.rs                                                                *)
(***************************************************************************)
RECURSIVE is_sub_schema_of(_, _)
is_sub_schema_of(lhs, rhs) ==
    \/ lhs = rhs
    \/ \E i \in DOMAIN Schemas[lhs].base: is_sub_schema_of(Schemas[lhs].base[i], rhs)

LitBase(ty) == CASE ty.k = "bool_lit" -> bool [] ty.k = "int_lit" -> int
                 [] ty.k = "float_lit" -> float [] ty.k = "str_lit" -> str

(* A primitive's name occurs in the literal's text: "kind(value)". *)
TyStrContains(lit_ty, prim_ty) ==
    \/ LitBase(lit_ty) = prim_ty
    \/ lit_ty.k = "str_lit" /\ \E i \in DOMAIN lit_ty.s: lit_ty.s[i] = prim_ty.k

LiteralSubsumed(lhs, rhs) ==
    IF is_literal(rhs) THEN lhs = rhs
    ELSE is_primitive(rhs) /\ ((is_float(rhs) /\ ~is_str(lhs)) \/ TyStrContains(lhs, rhs))

UnitSubsumed(lhs, rhs) ==
    IF lhs.lit /\ rhs.lit THEN lhs.raw = rhs.raw /\ lhs.suffix = rhs.suffix ELSE lhs.lit \/ ~rhs.lit

RECURSIVE subsume(_, _, _)
subsume(lhs, rhs, check_left_any) ==
    IF (check_left_any /\ is_any(lhs)) \/ is_any(rhs) \/ is_none(lhs) THEN TRUE
    ELSE IF is_union(lhs) THEN \A i \in DOMAIN lhs.types: subsume(lhs.types[i], rhs, FALSE)
    ELSE IF is_union(rhs) THEN \E i \in DOMAIN rhs.types: subsume(lhs, rhs.types[i], FALSE)
    ELSE IF is_schema(lhs) THEN is_schema(rhs) /\ is_sub_schema_of(lhs.name, rhs.name)
    ELSE IF is_int(lhs) /\ is_float(rhs) THEN TRUE
    ELSE IF is_number_multiplier(lhs) /\ is_number_multiplier(rhs) THEN UnitSubsumed(lhs, rhs)
    ELSE IF is_primitive(lhs) /\ is_primitive(rhs) THEN lhs = rhs
    ELSE IF is_literal(lhs) THEN LiteralSubsumed(lhs, rhs)
    ELSE IF is_list(lhs) /\ is_list(rhs) THEN subsume(lhs.item, rhs.item, check_left_any)
    ELSE IF is_dict(lhs) /\ is_dict(rhs) THEN
            subsume(lhs.key, rhs.key, check_left_any) /\ subsume(lhs.val, rhs.val, check_left_any)
    ELSE IF is_str(lhs) /\ is_literal(rhs) /\ is_str(rhs) THEN TRUE
    ELSE IF is_func(lhs) /\ is_func(rhs) THEN
            /\ Len(lhs.params) = Len(rhs.params)
            /\ \A i \in DOMAIN lhs.params:
                 subsume(rhs.params[i].ty, lhs.params[i].ty, check_left_any)
            /\ subsume(lhs.ret, rhs.ret, check_left_any)
    ELSE lhs = rhs

assignable_to(ty, expected_ty) == is_assignable_type(ty) /\ subsume(ty, expected_ty, TRUE)
is_upper_bound(lhs_ty, rhs_ty) == subsume(rhs_ty, lhs_ty, FALSE)

(* Members of unions are flattened and the void type dropped. *)
RECURSIVE add_types_to_type_set(_, _)
add_types_to_type_set(set, types) ==
    IF types = <<>> THEN set
    ELSE add_types_to_type_set(
           IF is_union(types[1]) THEN add_types_to_type_set(set, types[1].types)
           ELSE IF types[1].k = "void" \/ \E i \in DOMAIN set: set[i] = types[1] THEN set
           ELSE Append(set, types[1]), Tail(types))

(* The least upper bound: of each pair the smaller one goes, the earlier   *)
(* one when they subsume each other.  The order of what is left depends on *)
(* the code's hash set; it is the source order here.                       *)
sup(types) ==
    LET set == add_types_to_type_set(<<>>, types)
        removed(n) == \E m \in DOMAIN set:
            \/ n < m /\ subsume(set[n], set[m], FALSE)
            \/ m < n /\ subsume(set[n], set[m], FALSE) /\ ~subsume(set[m], set[n], FALSE)
        left == SelectSeq([n \in DOMAIN set |-> <<n, set[n]>>], LAMBDA e: ~removed(e[1]))
    IN  CASE Len(left) = 0 -> any
          [] Len(left) = 1 -> left[1][2]
          [] OTHER -> union([i \in DOMAIN left |-> left[i][2]])

(***************************************************************************)
(* context.rs                                                              *)
(***************************************************************************)
RECURSIVE infer_to_variable_type(_)
infer_to_variable_type(ty) ==
    IF is_none(ty) THEN any
    ELSE IF is_literal(ty) THEN LitBase(ty)
    ELSE IF is_list(ty) THEN list(infer_to_variable_type(ty.item))
    ELSE IF is_dict(ty) THEN dict_with_attrs(infer_to_variable_type(ty.key),
                                        infer_to_variable_type(ty.val), ty.attrs)
    ELSE IF is_union(ty) THEN sup([i \in DOMAIN ty.types |-> infer_to_variable_type(ty.types[i])])
    ELSE ty

literal_union_type_to_variable_type(ty) == IF is_union(ty) THEN infer_to_variable_type(ty) ELSE ty

is_kind_type_or_kind_union_type(ty, Flag(_)) ==
    IF is_union(ty) THEN \A i \in DOMAIN ty.types: Flag(ty.types[i]) ELSE Flag(ty)
is_number_bool_type_or_number_bool_union_type(ty) ==
    is_kind_type_or_kind_union_type(ty, LAMBDA t: is_number(t) \/ is_bool(t))
is_config_type_or_config_union_type(ty) == is_kind_type_or_kind_union_type(ty, is_dict_or_schema)
is_primitive_type_or_primitive_union_type(ty) ==
    is_kind_type_or_kind_union_type(ty, LAMBDA t: is_number(t) \/ is_bool(t) \/ is_str(t))
is_mul_val_type_or_mul_val_union_type(ty) ==
    is_kind_type_or_kind_union_type(ty, LAMBDA t: is_number(t) \/ is_str(t) \/ is_list(t))

(***************************************************************************)
(* resolver/ty.rs.  A check answers [ok, clean]: whether the types fit,    *)
(* and whether no error was reported on the way (an alternative of a union *)
(* that was tried and rejected may already have reported one).             *)
(***************************************************************************)
Checked(ok) == [ok |-> ok, clean |-> TRUE]

(* `all' and `any' over a sequence of checks stop at the first answer. *)
RECURSIVE AllOf(_)
AllOf(rs) ==
    IF rs = <<>> THEN Checked(TRUE)
    ELSE IF ~rs[1].ok THEN rs[1]
    ELSE LET rest == AllOf(Tail(rs)) IN [rest EXCEPT !.clean = @ /\ rs[1].clean]
RECURSIVE AnyOf(_)
AnyOf(rs) ==
    IF rs = <<>> THEN Checked(FALSE)
    ELSE IF rs[1].ok THEN rs[1]
    ELSE LET rest == AnyOf(Tail(rs)) IN [rest EXCEPT !.clean = @ /\ rs[1].clean]

Indexed(s) == s.index # <<>>

RECURSIVE check_type(_, _), dict_assignable_to_schema(_, _)
must_assignable_to(ty, expected_ty) ==
    LET r == check_type(ty, expected_ty) IN r.ok /\ r.clean

check_type(ty, expected_ty) ==
    IF is_list(ty) /\ is_list(expected_ty) THEN check_type(ty.item, expected_ty.item)
    ELSE IF is_dict(ty) /\ is_dict(expected_ty) THEN
            AllOf(<<check_type(ty.key, expected_ty.key), check_type(ty.val, expected_ty.val)>>)
    ELSE IF is_dict(ty) /\ is_schema(expected_ty) THEN dict_assignable_to_schema(ty, expected_ty)
    ELSE IF is_union(ty) THEN AllOf([i \in DOMAIN ty.types |-> check_type(ty.types[i], expected_ty)])
    ELSE IF is_union(expected_ty) THEN
            AnyOf([i \in DOMAIN expected_ty.types |-> check_type(ty, expected_ty.types[i])])
    ELSE Checked(assignable_to(ty, expected_ty))

(* The value types that fall under the index signature. *)
IndexedValTy(dict_ty, attrs) ==
    IF ~(is_union(dict_ty.key) /\ is_union(dict_ty.val)) THEN dict_ty.val
    ELSE LET keys == dict_ty.key.types
             vals == dict_ty.val.types
             other(n) == keys[n].k = "str_lit" /\ keys[n].s \notin DOMAIN attrs /\ n \in DOMAIN vals
             ns == SelectSeq([n \in DOMAIN keys |-> n], other)
         IN  sup([m \in DOMAIN ns |-> vals[ns[m]]])

(* The answer is always yes; what does not fit is reported here. *)
dict_assignable_to_schema(dict_ty, schema_ty) ==
    LET s == Schemas[schema_ty.name]
        expected(n) == IF s.index[1].any_other /\ n \in DOMAIN s.attrs THEN s.attrs[n]
                       ELSE s.index[1].val
        clean == IF Indexed(s)
                 THEN IF DOMAIN dict_ty.attrs = {}
                      THEN must_assignable_to(IndexedValTy(dict_ty, s.attrs), s.index[1].val)
                      ELSE \A n \in DOMAIN dict_ty.attrs:
                             must_assignable_to(dict_ty.attrs[n], expected(n))
                 ELSE IF dict_ty.key.k # "str_lit" THEN TRUE
                 ELSE dict_ty.key.s \in DOMAIN s.attrs \cap DOMAIN dict_ty.attrs =>
                        must_assignable_to(dict_ty.attrs[dict_ty.key.s], s.attrs[dict_ty.key.s])
    IN  [ok |-> TRUE, clean |-> clean]

(* The attributes of a schema and its bases, repeated ones counted, and    *)
(* whether all of them have an index signature.                            *)
RECURSIVE get_schema_attrs(_)
get_schema_attrs(name) ==
    LET s == Schemas[name]
        own == [names |-> DOMAIN s.attrs, count |-> Cardinality(DOMAIN s.attrs), index |-> Indexed(s)]
    IN  IF s.base = <<>> THEN own
        ELSE LET b == get_schema_attrs(s.base[1])
             IN  [names |-> own.names \cup b.names, count |-> own.count + b.count,
                  index |-> own.index /\ b.index]

upgrade_dict_to_schema_attr_check(dict_ty, name) ==
    LET key == dict_ty.key
        all == get_schema_attrs(name)
    IN  IF Indexed(Schemas[name]) THEN TRUE
        ELSE CASE is_any(key) -> TRUE
               [] key.k = "str_lit" -> key.s \in DOMAIN Schemas[name].attrs
               [] is_union(key) -> IF all.count >= Len(key.types)
                                   THEN \A i \in DOMAIN key.types:
                                          key.types[i].k = "str_lit" /\ key.types[i].s \in all.names
                                   ELSE all.index
               [] OTHER -> FALSE

RECURSIVE upgrade_dict_to_schema(_, _)
upgrade_dict_to_schema(ty, expected_ty) ==
    IF is_dict(ty) /\ is_schema(expected_ty) THEN
            IF upgrade_dict_to_schema_attr_check(ty, expected_ty.name) THEN expected_ty ELSE ty
    ELSE IF is_list(ty) /\ is_list(expected_ty) THEN
            list(upgrade_dict_to_schema(ty.item, expected_ty.item))
    ELSE IF is_dict(ty) /\ is_dict(expected_ty) THEN
            dict(upgrade_dict_to_schema(ty.key, expected_ty.key),
                 upgrade_dict_to_schema(ty.val, expected_ty.val))
    ELSE IF is_dict(ty) /\ is_union(expected_ty) THEN
            sup(SelectSeq(expected_ty.types,
                  LAMBDA t: is_schema(t) /\ upgrade_dict_to_schema_attr_check(ty, t.name)))
    ELSE ty
=============================================================================
