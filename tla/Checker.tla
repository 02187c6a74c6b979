------------------------------ MODULE Checker ------------------------------
(***************************************************************************)
(* The resolver's type checking of expressions and statements              *)
(* (sema/src/resolver: node.rs, calculation.rs, attr.rs, config.rs, arg.rs, *)
(* loop.rs).                                                               *)
(*                                                                         *)
(* Check(e, env, ctx) answers [ty, ok]: the type of e, and whether nothing *)
(* was reported.  env gives the names in scope their types; ctx is the top *)
(* of config_expr_context, <<>> or <<type>>: what the surrounding          *)
(* configuration, annotation or parameter expects.  Nothing but another    *)
(* push takes it away, so the operands of a call or an operator still see  *)
(* it.  Keys named like a loop variable are left out.                      *)
(***************************************************************************)
EXTENDS Declared, Ast

Typed(ty, ok) == [ty |-> ty, ok |-> ok]
Oks(rs) == \A i \in DOMAIN rs: rs[i].ok
Tys(rs) == [i \in DOMAIN rs |-> rs[i].ty]

(***************************************************************************)
(* calculation.rs                                                          *)
(***************************************************************************)
\* Mutant: the result is a float only when both numbers are.
NumberBinaryBoth(t1, t2) == IF is_float(t1) /\ is_float(t2) THEN float ELSE int
number_binary(t1, t2) == IF is_float(t1) \/ is_float(t2) THEN float ELSE int
ZERO_LIT_TYPES == {int_lit(0), float_lit(0)}

binary(left, right, op) ==
    LET t1 == literal_union_type_to_variable_type(left)
        t2 == literal_union_type_to_variable_type(right)
        numbers == is_number(t1) /\ is_number(t2)
        ints == is_int(t1) /\ is_int(t2)
        lists == is_list(t1) /\ is_list(t2)
        joined == list(sup(<<t1.item, t2.item>>))
        when(cond, ty) == IF cond THEN Typed(ty, TRUE) ELSE Typed(any, FALSE)
    IN  IF is_any(t1) \/ is_any(t2) THEN Typed(any, TRUE)
        ELSE CASE op = "+" -> IF numbers THEN Typed(number_binary(t1, t2), TRUE)
                              ELSE IF lists THEN Typed(joined, TRUE)
                              ELSE when(is_str(t1) /\ is_str(t2), str)
               [] op \in {"-", "**"} -> when(numbers, number_binary(t1, t2))
               [] op = "*" -> IF numbers THEN Typed(number_binary(t1, t2), TRUE)
                              ELSE IF is_int(t1) /\ is_mul_val_type_or_mul_val_union_type(t2) THEN Typed(t2, TRUE)
                              ELSE when(is_int(t2) /\ is_mul_val_type_or_mul_val_union_type(t1), t1)
               [] op \in {"/", "//", "%"} ->
                     Typed(IF ~numbers THEN any ELSE IF op = "%" THEN int ELSE number_binary(t1, t2),
                           numbers /\ t2 \notin ZERO_LIT_TYPES)
               [] op \in {"<<", ">>", "^", "&"} -> when(ints, int)
               [] op = "|" ->
                     IF ints THEN Typed(int, TRUE)
                     ELSE IF is_none(t1) THEN Typed(t2, TRUE)
                     ELSE IF is_none(t2) THEN Typed(t1, TRUE)
                     ELSE IF lists THEN Typed(joined, TRUE)
                     ELSE IF is_dict(t1) /\ is_dict(t2)
                     THEN Typed(dict_with_attrs(sup(<<t1.key, t2.key>>), sup(<<t1.val, t2.val>>),
                                                t2.attrs @@ t1.attrs), TRUE)
                     ELSE when(is_schema(t1) /\ is_dict_or_schema(t2), t1)
               [] op = "and" -> Typed(bool, TRUE)
               [] op = "or" -> Typed(sup(<<t1, t2>>), TRUE)
               [] op = "as" -> Typed(t2, is_upper_bound(infer_to_variable_type(t1), t2))

\* Mutant: a sign is allowed before a boolean.
UnaryOfBools(ty, op) ==
    LET t == literal_union_type_to_variable_type(ty)
    IN  IF is_any(ty) THEN Typed(any, TRUE)
        ELSE IF op = "not" \/ is_number(t) \/ is_bool(t) THEN Typed(t, TRUE) ELSE Typed(any, FALSE)
unary(ty, op) ==
    LET t == literal_union_type_to_variable_type(ty)
        fits == CASE op \in {"+", "-"} -> is_number(t)
                  [] op = "~" -> is_int(t) \/ is_bool(t)
                  [] op = "not" -> TRUE
    IN  IF is_any(ty) THEN Typed(any, TRUE) ELSE IF fits THEN Typed(t, TRUE) ELSE Typed(any, FALSE)

compare(left, right, op) ==
    LET t1 == literal_union_type_to_variable_type(left)
        t2 == literal_union_type_to_variable_type(right)
    IN  IF is_any(t1) \/ is_any(t2) THEN Typed(any, TRUE)
        ELSE IF \/ /\ is_number_bool_type_or_number_bool_union_type(t1)
                   /\ is_number_bool_type_or_number_bool_union_type(t2)
                   /\ op \notin {"in", "not in"}
                \/ /\ is_primitive_type_or_primitive_union_type(t1)
                   /\ is_primitive_type_or_primitive_union_type(t2)
                   /\ op \in {"==", "!="}
                \/ op = "==" /\ is_list(t1) /\ is_list(t2)
                \/ op = "==" /\ is_dict_or_schema(t1) /\ is_dict_or_schema(t2)
                \/ op \in {"in", "not in"} /\ is_iterable(t2)
                \/ (is_none(t1) \/ is_none(t2)) /\ op \in {"==", "!=", "is", "is not", "not"}
             THEN Typed(bool, TRUE) ELSE Typed(any, FALSE)

(***************************************************************************)
(* attr.rs and the attributes of a schema.  A lookup answers <<>> or <<ty>>. *)
(***************************************************************************)
RECURSIVE get_type_of_attr(_, _)
get_type_of_attr(name, attr) ==
    IF attr \in DOMAIN Schemas[name].attrs THEN <<Schemas[name].attrs[attr]>>
    ELSE IF Schemas[name].base = <<>> THEN <<>> ELSE get_type_of_attr(Schemas[name].base[1], attr)
schema_val_ty(name) == IF Indexed(Schemas[name]) THEN Schemas[name].index[1].val ELSE any

check_attr_ty(ty) == is_any(ty) \/ is_key(ty)

load_attr_type(obj, attr) ==
    CASE is_any(obj) \/ is_union(obj) -> Typed(any, TRUE)
      [] is_str(obj) -> IF attr[1] \in DOMAIN STRING_MEMBER_FUNCTIONS
                        THEN Typed(STRING_MEMBER_FUNCTIONS[attr[1]], TRUE) ELSE Typed(any, FALSE)
      [] is_dict(obj) -> Typed(IF attr \in DOMAIN obj.attrs THEN obj.attrs[attr] ELSE obj.val, TRUE)
      [] is_schema(obj) -> LET t == get_type_of_attr(obj.name, attr)
                           IN  IF t # <<>> THEN Typed(t[1], TRUE)
                               ELSE Typed(any, Indexed(Schemas[obj.name]))
      [] OTHER -> Typed(any, FALSE)

(* The type behind an index whose type is known. *)
subscript_index(value_ty, index_ty) ==
    LET val == IF is_dict(value_ty) THEN value_ty.val ELSE schema_val_ty(value_ty.name)
    IN  IF is_str(value_ty) \/ is_list(value_ty)
        THEN Typed(IF is_list(value_ty) THEN value_ty.item ELSE str, must_assignable_to(index_ty, int))
        ELSE IF is_none_or_any(index_ty) THEN Typed(val, TRUE)
        ELSE IF ~is_key(index_ty) THEN Typed(any, FALSE)
        ELSE IF index_ty.k = "str_lit" THEN load_attr_type(value_ty, index_ty.s) ELSE Typed(val, TRUE)

(***************************************************************************)
(* config.rs: what the context expects of an attribute.                    *)
(***************************************************************************)
\* The member types of a union context that know the attribute.
PossibleTypes(types, key_name) ==
    LET of(ty) == IF is_dict(ty) THEN <<ty.val>>
                  ELSE IF ~is_schema(ty) THEN <<>>
                  ELSE IF get_type_of_attr(ty.name, key_name) # <<>> THEN get_type_of_attr(ty.name, key_name)
                  ELSE IF Indexed(Schemas[ty.name]) THEN <<schema_val_ty(ty.name)>> ELSE <<>>
        RECURSIVE all(_)
        all(ts) == IF ts = <<>> THEN <<>> ELSE of(ts[1]) \o all(Tail(ts))
    IN  all(types)

find_schema_attr_obj_from_schema_expr_stack(ctx, key_name) ==
    IF ctx = <<>> \/ key_name = <<>> THEN <<>>
    ELSE CASE is_list(ctx[1]) -> <<ctx[1].item>>
           [] is_dict(ctx[1]) -> <<ctx[1].val>>
           [] is_schema(ctx[1]) -> PossibleTypes(ctx, key_name)
           [] is_union(ctx[1]) -> <<sup(PossibleTypes(ctx[1].types, key_name))>>
           [] OTHER -> <<>>

(* A list is entered by a name no attribute has. *)
switch_list_expr_context(ctx) == find_schema_attr_obj_from_schema_expr_stack(ctx, <<"[]">>)

check_config_attr(attr, name) == get_type_of_attr(name, attr) # <<>> \/ Indexed(Schemas[name])
must_check_config_attr(attr, ty) ==
    IF is_schema(ty) THEN check_config_attr(attr, ty.name)
    ELSE is_union(ty) =>
           \/ \A i \in DOMAIN ty.types: ~is_dict_or_schema(ty.types[i])
           \/ \E i \in DOMAIN ty.types:
                is_dict(ty.types[i]) \/ (is_schema(ty.types[i]) /\ check_config_attr(attr, ty.types[i].name))
check_config_expr_by_key_name(name, ctx) ==
    ctx # <<>> /\ name # <<>> => must_check_config_attr(name, ctx[1])

(* An unpacked value is compared with the context attribute by attribute. *)
RECURSIVE check_config_value_recursively(_, _)
check_attr_recursively(key, attr_ty, ctx) ==
    LET inner == find_schema_attr_obj_from_schema_expr_stack(ctx, key)
    IN  /\ check_config_expr_by_key_name(key, ctx)
        /\ inner # <<>> => must_assignable_to(attr_ty, inner[1])
        /\ check_config_value_recursively(attr_ty, inner)
check_config_value_recursively(value_ty, ctx) ==
    LET attrs == IF is_dict(value_ty) THEN value_ty.attrs
                 ELSE IF is_schema(value_ty) THEN Schemas[value_ty.name].attrs ELSE NoAttrs
    IN  \A key \in DOMAIN attrs: check_attr_recursively(key, attrs[key], ctx)

(***************************************************************************)
(* loop.rs and arg.rs                                                      *)
(***************************************************************************)
(* The first and the second variable of a loop over the type. *)
LoopVars(ty, two) ==
    CASE is_list(ty) -> <<IF two THEN int ELSE ty.item, ty.item>>
      [] is_dict(ty) -> <<ty.key, ty.val>>
      [] is_schema(ty) -> <<str, schema_val_ty(ty.name)>>
      [] is_str(ty) -> <<IF two THEN int ELSE str, str>>
do_loop_type_check(iter_ty, targets) ==
    LET types == IF is_union(iter_ty) THEN iter_ty.types ELSE <<iter_ty>>
        known == SelectSeq(types, is_iterable)
        RECURSIVE join(_, _)
        join(i, n) == IF n = 0 THEN void
                      ELSE sup(<<LoopVars(known[n], Len(targets) = 2)[i], join(i, n - 1)>>)
        var(i) == IF known = <<>> THEN any ELSE infer_to_variable_type(join(i, Len(known)))
    IN  [ok |-> \A i \in DOMAIN types: is_iterable(types[i]) \/ is_any(types[i]),
         vars |-> [n \in {targets[i]: i \in DOMAIN targets} |->
                     var(CHOOSE i \in DOMAIN targets: targets[i] = n)]]

RECURSIVE Check(_, _, _), walk_config_entries(_, _, _, _)
NoEntries == [keys |-> <<>>, vals |-> <<>>, attrs |-> NoAttrs, ok |-> TRUE]

(* What is expected becomes the context when it can hold a configuration. *)
upgrade_type_for_expr(expected_ty, e, env) ==
    LET r == Check(e, env, IF is_schema(expected_ty) \/ is_list(expected_ty) \/ is_dict(expected_ty)
                                \/ is_union(expected_ty) THEN <<expected_ty>> ELSE <<>>)
    IN  Typed(r.ty, r.ok /\ must_assignable_to(r.ty, expected_ty))

do_arguments_type_check(args, kwargs, func_ty, env, ctx) ==
    LET params == func_ty.params
        named(n) == {i \in DOMAIN params: params[i].name = n}
        given == {kwargs[i].arg: i \in DOMAIN kwargs}
        required == {i \in DOMAIN params: ~params[i].def}
    IN  /\ \A i \in DOMAIN args:
             IF i \in DOMAIN params THEN upgrade_type_for_expr(params[i].ty, args[i], env).ok
             ELSE func_ty.variadic /\ Check(args[i], env, ctx).ok
        /\ Cardinality(given) = Len(kwargs)
        /\ \A i \in DOMAIN kwargs:
             IF named(kwargs[i].arg) = {} THEN func_ty.variadic
             ELSE upgrade_type_for_expr(params[CHOOSE j \in named(kwargs[i].arg): TRUE].ty, kwargs[i].val, env).ok
        /\ func_ty.variadic \/ Cardinality({i \in required: params[i].name \in given}) + Len(args)
                                 >= Cardinality(required)

(***************************************************************************)
(* node.rs: expressions                                                    *)
(***************************************************************************)
walk_unary_expr_ty(e, env, ctx) ==
    LET r == Check(e.e, env, ctx)
        u == unary(r.ty, e.op)
    IN  Typed(u.ty, r.ok /\ u.ok)

walk_binary_expr_ty(e, env, ctx) ==
    LET l == Check(e.l, env, ctx)
        r == Check(e.r, env, ctx)
        t == binary(l.ty, r.ty, e.op)
    IN  Typed(t.ty, l.ok /\ r.ok /\ t.ok)
walk_as_expr_ty(e, env, ctx) ==
    LET l == Check(e.e, env, ctx)
        t == binary(l.ty, e.ty, "as")
    IN  Typed(t.ty, l.ok /\ t.ok)

(* The first comparator against the left operand; of a longer chain the    *)
(* middle ones against the left operand too, with the operator after their *)
(* own, and the last one not at all.                                       *)
walk_compare_ty(e, env, ctx) ==
    LET l == Check(e.l, env, ctx)
        r(i) == Check(e.rs[i], env, ctx)
        checked == {1} \cup 2..(Len(e.rs) - 1)
        op(i) == IF i = 1 THEN e.ops[1] ELSE e.ops[i + 1]
    IN  Typed(bool, l.ok /\ \A i \in checked: r(i).ok /\ compare(l.ty, r(i).ty, op(i)).ok)

walk_if_expr_ty(e, env, ctx) ==
    LET rs == <<Check(e.body, env, ctx), Check(e.orelse, env, ctx)>>
    IN  Typed(sup(Tys(rs)), Check(e.cond, env, ctx).ok /\ Oks(rs))

walk_selector_expr_ty(e, env, ctx) ==
    LET r == Check(e.e, env, ctx)
        t == load_attr_type(r.ty, e.attr)
    IN  Typed(t.ty, r.ok /\ t.ok)

(* Behind a value of any type the index is not looked at. *)
walk_subscript_ty(e, env, ctx) ==
    LET r == Check(e.e, env, ctx)
        i == Check(e.i, env, ctx)
        t == subscript_index(r.ty, i.ty)
    IN  IF is_any(r.ty) THEN r
        ELSE IF is_iterable(r.ty) THEN Typed(t.ty, r.ok /\ i.ok /\ t.ok)
        ELSE Typed(any, FALSE)
walk_slice_ty(e, env, ctx) ==
    LET r == Check(e.e, env, ctx)
        bounds == e.lower \o e.upper \o e.step
        int_bound(i) == LET b == Check(bounds[i], env, ctx) IN b.ok /\ must_assignable_to(b.ty, int)
    IN  IF is_any(r.ty) THEN r
        ELSE IF is_list(r.ty) \/ is_str(r.ty)
        THEN Typed(IF is_list(r.ty) THEN r.ty ELSE str, r.ok /\ \A i \in DOMAIN bounds: int_bound(i))
        ELSE Typed(any, FALSE)

walk_call_expr_ty(e, env, ctx) ==
    LET f == Check(e.f, env, ctx)
        args_ok(func_ty) == f.ok /\ do_arguments_type_check(e.args, e.kws, func_ty, env, ctx)
    IN  CASE is_any(f.ty) -> Typed(any, args_ok(Variadic(<<>>, any)))
          [] is_func(f.ty) -> Typed(f.ty.ret, args_ok(f.ty))
          [] is_schema_def(f.ty) -> Typed(schema(f.ty.name, TRUE), args_ok(Fn(<<>>, any)))
          [] OTHER -> Typed(any, FALSE)

walk_list_expr_ty(e, env, ctx) ==
    LET rs == [i \in DOMAIN e.elts |-> Check(e.elts[i], env, switch_list_expr_context(ctx))]
    IN  Typed(list(sup(Tys(rs))), Oks(rs))

RECURSIVE starred_ty_walk_fn(_)
starred_ty_walk_fn(ty) ==
    CASE is_none_or_any(ty) -> Typed(ty, TRUE)
      [] is_list(ty) -> Typed(ty.item, TRUE)
      [] is_dict(ty) -> Typed(ty.key, TRUE)
      [] is_schema(ty) -> Typed(str, TRUE)
      [] is_union(ty) -> LET rs == [i \in DOMAIN ty.types |-> starred_ty_walk_fn(ty.types[i])]
                         IN  Typed(sup(Tys(rs)), Oks(rs))
      [] OTHER -> Typed(any, FALSE)
walk_starred_expr_ty(e, env, ctx) ==
    LET r == Check(e.e, env, ctx)
        t == starred_ty_walk_fn(r.ty)
    IN  Typed(t.ty, r.ok /\ t.ok)

(* An absent else branch counts as any. *)
walk_list_if_item_expr_ty(e, env, ctx) ==
    LET orelse == IF e.orelse = <<>> THEN Typed(any, TRUE) ELSE Check(e.orelse[1], env, ctx)
        rs == [i \in DOMAIN e.exprs |-> Check(e.exprs[i], env, ctx)]
    IN  Typed(sup(<<IF is_list(orelse.ty) THEN orelse.ty.item ELSE orelse.ty, sup(Tys(rs))>>),
              Check(e.cond, env, ctx).ok /\ orelse.ok /\ Oks(rs))

(* The scope behind the clauses, one inside the other. *)
RECURSIVE walk_comp_clauses(_, _, _)
walk_comp_clauses(gens, env, ctx) ==
    IF gens = <<>> THEN [env |-> env, ok |-> TRUE]
    ELSE LET r == Check(gens[1].iter, env, ctx)
             loop == do_loop_type_check(r.ty, gens[1].targets)
             inner == loop.vars @@ env
             rest == walk_comp_clauses(Tail(gens), inner, ctx)
         IN  [env |-> rest.env,
              ok |-> /\ r.ok /\ loop.ok /\ rest.ok
                     /\ \A i \in DOMAIN gens[1].ifs: Check(gens[1].ifs[i], inner, ctx).ok]
walk_list_comp_ty(e, env, ctx) ==
    LET inner == switch_list_expr_context(ctx)
        c == walk_comp_clauses(e.gens, env, inner)
        r == Check(e.elt, c.env, inner)
    IN  Typed(list(r.ty), c.ok /\ r.ok /\ e.elt.k # "star")
walk_dict_comp_ty(e, env, ctx) ==
    LET c == walk_comp_clauses(e.gens, env, ctx)
        key == Check(e.key, c.env, ctx)
        val == Check(e.val, c.env, IF e.key.k = "str" THEN find_schema_attr_obj_from_schema_expr_stack(ctx, e.key.s)
                                   ELSE IF e.key.k = "id" THEN find_schema_attr_obj_from_schema_expr_stack(ctx, e.key.name)
                                   ELSE IF e.key.k = "joined" THEN <<>> ELSE ctx)
    IN  Typed(dict(key.ty, val.ty), c.ok /\ key.ok /\ check_attr_ty(key.ty) /\ val.ok)

walk_quant_expr_ty(e, env, ctx) ==
    LET target == Check(e.target, env, ctx)
        loop == do_loop_type_check(target.ty, e.vars)
        inner == loop.vars @@ env
        test == Check(e.test, inner, ctx)
    IN  Typed(CASE e.op \in {"all", "any"} -> bool
                [] e.op = "filter" -> target.ty
                [] e.op = "map" -> list(test.ty),
              /\ target.ok /\ loop.ok /\ test.ok
              /\ \A i \in DOMAIN e.cond: Check(e.cond[i], inner, ctx).ok)

(* The parameter's default is not compared with its type. *)
walk_lambda_expr_ty(e, env, ctx) ==
    LET types == [i \in DOMAIN e.params |-> IF e.params[i].ty = <<>> THEN any ELSE e.params[i].ty[1]]
        index(n) == CHOOSE i \in DOMAIN e.params: e.params[i].name = n
        inner == [n \in {e.params[i].name: i \in DOMAIN e.params} |-> types[index(n)]] @@ env
        ret == IF e.ret = <<>> THEN any ELSE e.ret[1]
        body == upgrade_type_for_expr(ret, e.body, inner)
        do_parameters_check == \A i, j \in DOMAIN e.params:
                                 i < j /\ e.params[i].def # <<>> => e.params[j].def # <<>>
    IN  Typed(function([i \in DOMAIN e.params |-> [name |-> e.params[i].name, ty |-> types[i],
                                                   def |-> e.params[i].def # <<>>]],
                       IF e.ret = <<>> THEN body.ty ELSE ret, FALSE),
              /\ do_parameters_check /\ body.ok
              /\ \A i \in DOMAIN e.params: \A j \in DOMAIN e.params[i].def:
                   Check(e.params[i].def[j], env, ctx).ok)

walk_config_if_entry_expr_ty(e, env, ctx) ==
    LET d == walk_config_entries(e.items, env, ctx, NoEntries)
        orelse == Check(e.orelse[1], env, ctx)
        cond == Check(e.cond, env, ctx)
    IN  IF e.orelse = <<>> THEN Typed(d.ty, cond.ok /\ d.ok)
        ELSE Typed(sup(<<d.ty, orelse.ty>>), cond.ok /\ d.ok /\ orelse.ok)

(* The configuration of a name of any type is not looked at. *)
walk_schema_expr_ty(e, env, ctx) ==
    LET def == Check(Identifier(e.name), env, ctx)
        config == Check(e.config, env, <<def.ty>>)
        merged == binary(def.ty, config.ty, "|")
    IN  CASE is_dict(def.ty) -> Typed(merged.ty, def.ok /\ config.ok /\ merged.ok)
          [] is_schema(def.ty) -> Typed(schema(def.ty.name, TRUE), def.ok /\ config.ok)
          [] is_any(def.ty) -> def
          [] OTHER -> Typed(any, FALSE)

walk_number_lit_ty(e) ==
    CASE e.k = "num" -> int_lit(e.n) [] e.k = "flt" -> float_lit(e.f)
      [] e.k = "unit" -> number_multiplier(e.raw, e.suffix)
walk_name_constant_lit_ty(e) == IF e.c \in {"True", "False"} THEN bool_lit(e.c = "True") ELSE none

resolve_var(e, env) ==
    IF e.name \in DOMAIN env THEN Typed(env[e.name], TRUE)
    ELSE IF e.name[1] \in DOMAIN BUILTIN_FUNCTIONS THEN Typed(BUILTIN_FUNCTIONS[e.name[1]], TRUE)
    ELSE Typed(any, FALSE)

(* expr: the dispatch on the kind of the expression. *)
Check(e, env, ctx) ==
    CASE e.k \in {"num", "flt", "unit"} -> Typed(walk_number_lit_ty(e), TRUE)
      [] e.k = "str" -> Typed(str_lit(e.s), TRUE)
      [] e.k = "const" -> Typed(walk_name_constant_lit_ty(e), TRUE)
      [] e.k = "id" -> resolve_var(e, env)
      [] e.k = "sys" -> Typed(get_system_member_function_ty(e.module, e.func), TRUE)
      [] e.k = "un" -> walk_unary_expr_ty(e, env, ctx)
      [] e.k = "bin" -> walk_binary_expr_ty(e, env, ctx)
      [] e.k = "as" -> walk_as_expr_ty(e, env, ctx)
      [] e.k = "cmp" -> walk_compare_ty(e, env, ctx)
      [] e.k = "if" -> walk_if_expr_ty(e, env, ctx)
      [] e.k = "sel" -> walk_selector_expr_ty(e, env, ctx)
      [] e.k = "sub" -> walk_subscript_ty(e, env, ctx)
      [] e.k = "slice" -> walk_slice_ty(e, env, ctx)
      [] e.k = "call" -> walk_call_expr_ty(e, env, ctx)
      [] e.k = "list" -> walk_list_expr_ty(e, env, ctx)
      [] e.k = "star" -> walk_starred_expr_ty(e, env, ctx)
      [] e.k = "listif" -> walk_list_if_item_expr_ty(e, env, ctx)
      [] e.k = "lcomp" -> walk_list_comp_ty(e, env, ctx)
      [] e.k = "dcomp" -> walk_dict_comp_ty(e, env, ctx)
      [] e.k = "quant" -> walk_quant_expr_ty(e, env, ctx)
      [] e.k = "config" -> walk_config_entries(e.items, env, ctx, NoEntries)
      [] e.k = "configif" -> walk_config_if_entry_expr_ty(e, env, ctx)
      [] e.k = "schema" -> walk_schema_expr_ty(e, env, ctx)
      [] e.k = "lambda" -> walk_lambda_expr_ty(e, env, ctx)
      [] e.k = "joined" -> Typed(str, \A i \in DOMAIN e.vals: Check(e.vals[i], env, ctx).ok)
      [] e.k = "formatted" -> Check(e.e, env, ctx)

(***************************************************************************)
(* config.rs: the entries of a configuration.  acc holds what the earlier  *)
(* ones gave: key and value types, attributes, and whether all is well.    *)
(***************************************************************************)
\* What one entry adds: the types of its keys and of its values, the
\* attributes it records, the type a reader of its value sees.
Added(keys, vals, attrs, env, ok) ==
    [keys |-> keys, vals |-> vals, attrs |-> attrs, env |-> env, ok |-> ok]

(* A key that is a name or a string literal: checked against the context's *)
(* attribute, and recorded unless it has an index.                         *)
check_named_entry(name, item, env, ctx, acc) ==
    LET inner == find_schema_attr_obj_from_schema_expr_stack(ctx, name)
        v == Check(item.val, env, inner)
        ty == IF name \in DOMAIN acc.attrs THEN sup(<<acc.attrs[name], v.ty>>) ELSE v.ty
        indexed == item.kind = "name" /\ item.idx # <<>>
        ok == /\ v.ok /\ check_config_expr_by_key_name(name, ctx)
              /\ inner # <<>> => must_assignable_to(v.ty, inner[1])
              /\ item.op = "insert" => is_any(v.ty) \/ is_list(v.ty)
    IN  IF indexed
        THEN Added(<<str>>, <<IF item.op = "insert" THEN v.ty ELSE list(v.ty)>>, NoAttrs, env, ok)
        ELSE Added(<<str_lit(name)>>, <<v.ty>>, name :> infer_to_variable_type(ty), (name :> ty) @@ env, ok)
check_keyed_entry(item, env, ctx) ==
    LET key == Check(item.key, env, <<>>)
        v == Check(item.val, env, IF item.key.k = "joined" THEN <<>> ELSE ctx)
    IN  Added(<<key.ty>>, <<v.ty>>, NoAttrs, env,
              key.ok /\ check_attr_ty(key.ty) /\ v.ok /\ (item.op = "insert" => is_any(v.ty) \/ is_list(v.ty)))
config_key_ty(ty) == IF is_dict(ty) THEN ty.key ELSE str
config_val_ty(ty) == IF is_dict(ty) THEN ty.val ELSE schema_val_ty(ty.name)
check_unpack_entry(item, env, ctx) ==
    LET v == Check(item.val, env, ctx)
        ok == v.ok /\ check_config_value_recursively(v.ty, ctx)
        types == v.ty.types
    IN  CASE is_none_or_any(v.ty) -> Added(<<>>, <<v.ty>>, NoAttrs, env, ok)
          [] is_dict_or_schema(v.ty) ->
               Added(<<config_key_ty(v.ty)>>, <<config_val_ty(v.ty)>>,
                     IF is_dict(v.ty) THEN v.ty.attrs ELSE Schemas[v.ty.name].attrs, env, ok)
          [] is_union(v.ty) /\ is_config_type_or_config_union_type(v.ty) ->
               Added(<<sup([i \in DOMAIN types |-> config_key_ty(types[i])])>>,
                     <<sup([i \in DOMAIN types |-> config_val_ty(types[i])])>>, NoAttrs, env, ok)
          [] OTHER -> Added(<<>>, <<>>, NoAttrs, env, FALSE)

check_config_entry(item, env, ctx, acc) ==
    CASE item.kind = "name" -> check_named_entry(item.name, item, env, ctx, acc)
      [] item.kind = "key" -> IF item.key.k = "str" THEN check_named_entry(item.key.s, item, env, ctx, acc)
                              ELSE check_keyed_entry(item, env, ctx)
      [] item.kind = "unpack" -> check_unpack_entry(item, env, ctx)

walk_config_entries(items, env, ctx, acc) ==
    IF items = <<>>
    THEN Typed(dict_with_attrs(sup(acc.keys), sup(acc.vals), acc.attrs), acc.ok)
    ELSE LET a == check_config_entry(items[1], env, ctx, acc)
         IN  walk_config_entries(Tail(items), a.env, ctx,
               [keys |-> acc.keys \o a.keys, vals |-> acc.vals \o a.vals,
                attrs |-> a.attrs @@ acc.attrs, ok |-> acc.ok /\ a.ok])

(***************************************************************************)
(* node.rs and global.rs: the statements at the top level of a package.    *)
(* state is [env, names, ok]: the types of the global names, those already *)
(* assigned, and whether nothing was reported.                             *)
(***************************************************************************)
is_private_field(name) == name[1] = "_"
Declare(state, name, ty, ok) == [state EXCEPT !.env = (name :> ty) @@ @, !.ok = @ /\ ok]

(* Before any statement is walked its target gets its annotation as type,  *)
(* or keeps what an earlier statement gave it.                             *)
init_scope_with_assign_stmt(s, state, unique_check) ==
    LET known == s.target \in DOMAIN state.env
    IN  IF known /\ ~is_private_field(s.target) /\ unique_check THEN [state EXCEPT !.ok = FALSE]
        ELSE IF s.ty # <<>> THEN Declare(state, s.target, s.ty[1], known => is_upper_bound(state.env[s.target], s.ty[1]))
        ELSE Declare(state, s.target, IF known THEN state.env[s.target] ELSE any, TRUE)
init_scope_with_unification_stmt(s, state) ==
    LET def == resolve_var(Identifier(s.val.name), state.env) IN Declare(state, s.target, def.ty, def.ok)

RECURSIVE init_scope_with_stmts(_, _, _)
init_scope_with_stmts(stmts, state, unique_check) ==
    IF stmts = <<>> THEN state
    ELSE init_scope_with_stmts(Tail(stmts),
           CASE stmts[1].s = "assign" -> init_scope_with_assign_stmt(stmts[1], state, unique_check)
             [] stmts[1].s = "unify" -> init_scope_with_unification_stmt(stmts[1], state)
             [] OTHER -> state, unique_check)
init_global_types(stmts, env) ==
    init_scope_with_stmts(stmts, init_scope_with_stmts(stmts, [env |-> env, names |-> {}, ok |-> TRUE], TRUE), FALSE)

(* A target without a type takes the value's; a schema is not checked      *)
(* against the annotation once more.                                       *)
walk_assign_stmt_ty(s, state) ==
    LET expected == state.env[s.target]
        r == IF is_schema(expected) \/ is_list(expected) \/ is_dict(expected) \/ is_union(expected)
             THEN Check(s.val, state.env, <<expected>>) ELSE Check(s.val, state.env, <<>>)
        check_assignment_type_annotation ==
            s.ty # <<>> /\ ~is_schema(expected) /\ ~is_any(expected) => is_upper_bound(s.ty[1], expected)
        inferred == is_any(expected) /\ s.ty = <<>> /\ ~is_any(r.ty)
        next == Declare(state, s.target, IF inferred THEN infer_to_variable_type(r.ty) ELSE expected,
                        r.ok /\ check_assignment_type_annotation /\ must_assignable_to(r.ty, expected))
    IN  [next EXCEPT !.names = @ \cup {s.target}]

walk_aug_assign_stmt_ty(s, state) ==
    LET left == resolve_var(Identifier(s.target), state.env)
        right == Check(s.val, state.env, <<>>)
        new == binary(left.ty, right.ty, s.op)
    IN  [state EXCEPT
           !.names = @ \cup {s.target},
           !.ok = /\ @ /\ left.ok /\ right.ok /\ new.ok /\ must_assignable_to(new.ty, left.ty)
                  /\ is_private_field(s.target) \/ s.val.k = "schema" \/ s.target \notin state.names]

walk_unification_stmt_ty(s, state) ==
    LET expected == state.env[s.target]
        r == Check(s.val, state.env, <<expected>>)
        inferred == is_any(expected) /\ ~is_any(r.ty)
    IN  Declare(state, s.target, IF inferred THEN infer_to_variable_type(r.ty) ELSE expected,
                r.ok /\ must_assignable_to(r.ty, expected))

RECURSIVE walk_stmts_ty(_, _)
walk_stmts_ty(stmts, state) ==
    IF stmts = <<>> THEN state
    ELSE walk_stmts_ty(Tail(stmts),
           CASE stmts[1].s = "assign" -> walk_assign_stmt_ty(stmts[1], state)
             [] stmts[1].s = "aug" -> walk_aug_assign_stmt_ty(stmts[1], state)
             [] stmts[1].s = "unify" -> walk_unification_stmt_ty(stmts[1], state))

(* The types of the global names of a program, with the schemas in env. *)
CheckProgram(stmts, env) == walk_stmts_ty(stmts, init_global_types(stmts, env))
=============================================================================
