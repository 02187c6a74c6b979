----------------------------- MODULE Evaluator -----------------------------
(***************************************************************************)
(* The evaluator that walks the syntax tree (evaluator/src: node.rs,       *)
(* func.rs, calculation.rs).  Eval(e, env) is the value of e, or the panic *)
(* that ends the program; env gives the names in scope their values.  The  *)
(* values are shared trees that none of these expressions updates, so they *)
(* are values here.  How the globals of a package reach env is in          *)
(* GlobalEval; how a schema body runs is in SchemaEval and Union.          *)
(***************************************************************************)
EXTENDS Union, Ast

(* A function is a lambda with the names it has captured, or a schema. *)
LambdaV(node, closure) == [k |-> "func", node |-> node, closure |-> closure]
SchemaFuncV(name) == [k |-> "func", schema |-> name]
IsSchemaFunc(v) == v.k = "func" /\ "schema" \in DOMAIN v

(* A panic ends what it occurs in. *)
Then(v, Use(_)) == IF Panics(v) THEN v ELSE Use(v)
Then2(v, w, Use(_, _)) == IF Panics(v) THEN v ELSE IF Panics(w) THEN w ELSE Use(v, w)
ThenAll(vs, result) == OrPanic(vs, result)

(* The loop variables of one turn: the next value, or the key and the value. *)
LoopScope(vars, turn, env) ==
    IF Len(vars) = 1 THEN (vars[1] :> turn.next) @@ env
    ELSE (vars[2] :> turn.val) @@ (vars[1] :> turn.key) @@ env

RECURSIVE Eval(_, _), walk_list_items(_, _, _), walk_generator(_, _, _, _), walk_config_entries(_, _, _)

(***************************************************************************)
(* Operators                                                               *)
(***************************************************************************)
calculate(op, l, r) ==
    CASE op = "+" -> bin_add(l, r)
      [] op = "-" -> bin_sub(l, r)
      [] op = "*" -> bin_mul(l, r)
      [] op = "/" -> bin_div(l, r)
      [] op = "//" -> bin_floor_div(l, r)
      [] op = "%" -> bin_mod(l, r)
      [] op = "**" -> bin_pow(l, r)
      [] op = "<<" -> bin_bit_lshift(l, r)
      [] op = ">>" -> bin_bit_rshift(l, r)
      [] op = "&" -> bin_bit_and(l, r)
      [] op = "|" -> bin_bit_or(l, r)
      [] op = "^" -> bin_bit_xor(l, r)
calculate_compare(op, l, r) ==
    CASE op \in {"==", "is"} -> BoolV(cmp_equal(l, r))
      [] op \in {"!=", "is not", "not"} -> BoolV(cmp_not_equal(l, r))
      [] op = ">" -> cmp_greater_than(l, r)
      [] op = ">=" -> cmp_greater_than_or_equal(l, r)
      [] op = "<" -> cmp_less_than(l, r)
      [] op = "<=" -> cmp_less_than_or_equal(l, r)
      [] op = "in" -> r_in(l, r)
      [] op = "not in" -> not_in(l, r)

walk_unary_expr(e, env) ==
    Then(Eval(e.e, env), LAMBDA v: CASE e.op = "+" -> unary_plus(v) [] e.op = "-" -> unary_minus(v)
                                     [] e.op = "~" -> unary_not(v) [] e.op = "not" -> unary_l_not(v))

(* The logical operators answer one of their operands. *)
walk_binary_expr(e, env) ==
    IF e.op \in {"and", "or"}
    THEN Then(Eval(e.l, env), LAMBDA v: IF is_truthy(v) = (e.op = "and") THEN Eval(e.r, env) ELSE v)
    ELSE Then2(Eval(e.l, env), Eval(e.r, env), LAMBDA v, w: calculate(e.op, v, w))
walk_as_expr(e, env) == Then(Eval(e.e, env), LAMBDA v: type_pack_and_check(v, to_str(e.ty), TRUE))

(* A chain ends at the first comparison that fails. *)
walk_compare(e, env) ==
    LET RECURSIVE chain(_, _)
        chain(left, i) ==
            LET right == Eval(e.rs[i], env)
                result == calculate_compare(e.ops[i], left, right)
            IN  IF Panics(right) THEN right
                ELSE IF Panics(result) \/ i = Len(e.ops) \/ ~is_truthy(result) THEN result
                ELSE chain(right, i + 1)
    IN  Then(Eval(e.l, env), LAMBDA v: chain(v, 1))

walk_if_expr(e, env) ==
    Then(Eval(e.cond, env), LAMBDA v: Eval(IF is_truthy(v) THEN e.body ELSE e.orelse, env))

(***************************************************************************)
(* Members, calls                                                          *)
(***************************************************************************)
walk_selector_expr(e, env) ==
    Then(Eval(e.e, env), LAMBDA v: IF e.q THEN load_attr_option(v, e.attr) ELSE load_attr(v, e.attr))
walk_subscript(e, env) ==
    Then2(Eval(e.e, env), Eval(e.i, env),
          LAMBDA v, i: IF e.q THEN bin_subscr_option(v, i) ELSE bin_subscr(v, i))
walk_slice(e, env) ==
    LET bound(b) == IF b = <<>> THEN NoneV ELSE Eval(b[1], env)
        vs == <<Eval(e.e, env), bound(e.lower), bound(e.upper), bound(e.step)>>
    IN  ThenAll(vs, list_slice(vs[1], vs[2], vs[3], vs[4]))

(* Defaults and positional arguments are converted to the parameter's      *)
(* type; keyword arguments are stored as they are.                         *)
walk_arguments(params, args, kwargs, env) ==
    LET convert(p, v) == IF p.ty = <<>> THEN v ELSE type_pack_and_check(v, type_func_erasure(p.ty[1]), FALSE)
        default(p) == IF p.def = <<>> THEN NoneV ELSE Eval(p.def[1], env)
        defaults == [i \in DOMAIN params |-> Then(default(params[i]), LAMBDA v: convert(params[i], v))]
        given == [i \in DOMAIN params |-> IF i \in DOMAIN args THEN convert(params[i], args[i]) ELSE defaults[i]]
    IN  IF FirstPanic(defaults \o given) # <<>> THEN FirstPanic(defaults \o given)
        ELSE [i \in DOMAIN params |-> IF params[i].name \in DOMAIN kwargs THEN kwargs[params[i].name] ELSE given[i]]

(* A call of what is not a function answers Undefined. *)
func_body(f, args, kwargs, env) ==
    LET params == f.node.params
        vals == walk_arguments(params, args, kwargs, f.closure @@ env)
        index(n) == CHOOSE i \in DOMAIN params: params[i].name = n
        inner == [n \in {params[i].name: i \in DOMAIN params} |-> vals[index(n)]] @@ f.closure @@ env
        result == Eval(f.node.body, inner)
    IN  ThenAll(vals, IF Panics(result) \/ f.node.ret = <<>> THEN result
                      ELSE type_pack_and_check(result, type_func_erasure(f.node.ret[1]), FALSE))
walk_call_expr(e, env) ==
    LET f == Eval(e.f, env)
        args == [i \in DOMAIN e.args |-> Eval(e.args[i], env)]
        kwvals == [i \in DOMAIN e.kws |-> Eval(e.kws[i].val, env)]
        kwargs == [n \in {e.kws[i].arg: i \in DOMAIN e.kws} |->
                     kwvals[CHOOSE i \in DOMAIN e.kws: e.kws[i].arg = n]]
    IN  ThenAll(<<f>> \o args \o kwvals, IF IsSchemaFunc(f) THEN schema_body(f.schema, <<>>)
                                          ELSE IF f.k = "func" THEN func_body(f, args, kwargs, env) ELSE UndefinedV)

(***************************************************************************)
(* Collections                                                             *)
(***************************************************************************)
walk_list_items(elts, env, acc) ==
    IF elts = <<>> THEN acc
    ELSE LET v == Eval(elts[1], env)
             grown == IF elts[1].k \in {"star", "listif"} THEN list_append_unpack(acc, v)
                      ELSE ListV(Append(acc.items, v))
         IN  IF Panics(v) THEN v ELSE IF Panics(grown) THEN grown
             ELSE walk_list_items(Tail(elts), env, grown)
walk_list_expr(e, env) == walk_list_items(e.elts, env, ListV(<<>>))
walk_list_if_item_expr(e, env) ==
    Then(Eval(e.cond, env), LAMBDA v: IF is_truthy(v) THEN walk_list_items(e.exprs, env, ListV(<<>>))
                                      ELSE IF e.orelse # <<>> THEN Eval(e.orelse[1], env) ELSE NoneV)

(* Every condition of a clause is evaluated, whatever the others say. *)
walk_generator(e, gens, env, acc) ==
    IF gens = <<>>
    THEN IF e.k = "lcomp" THEN Then(Eval(e.elt, env), LAMBDA v: ListV(Append(acc.items, v)))
         ELSE Then2(Eval(e.val, env), Eval(e.key, env),
                    LAMBDA v, key: dict_insert(acc, AsStr(key), v, e.op, <<>>))
    ELSE LET host == Eval(gens[1].iter, env)
             turns == iter(host)
             RECURSIVE loop(_, _)
             loop(i, out) ==
                 IF Panics(out) \/ i > Len(turns) THEN out
                 ELSE LET inner == LoopScope(gens[1].targets, turns[i], env)
                          ifs == [j \in DOMAIN gens[1].ifs |-> Eval(gens[1].ifs[j], inner)]
                      IN  IF FirstPanic(ifs) # <<>> THEN FirstPanic(ifs)[1]
                          ELSE IF \E j \in DOMAIN ifs: ~is_truthy(ifs[j]) THEN loop(i + 1, out)
                          ELSE loop(i + 1, walk_generator(e, Tail(gens), inner, out))
         IN  IF Panics(host) THEN host ELSE IF ~Iterable(host) THEN TypeError ELSE loop(1, acc)
walk_list_comp(e, env) == walk_generator(e, e.gens, env, ListV(<<>>))
walk_dict_comp(e, env) == walk_generator(e, e.gens, env, DictV(<<>>))

(* A filter takes items out of a copy of what it walks over. *)
walk_quant_expr(e, env) ==
    LET target == Eval(e.target, env)
        turns == iter(target)
        start == CASE e.op = "all" -> BoolV(TRUE) [] e.op = "any" -> BoolV(FALSE)
                   [] e.op = "map" -> ListV(<<>>) [] e.op = "filter" -> target
        RECURSIVE loop(_, _)
        loop(i, result) ==
            IF Panics(result) \/ i > Len(turns) THEN result
            ELSE LET inner == LoopScope(e.vars, turns[i], env)
                     cond == IF e.cond = <<>> THEN BoolV(TRUE) ELSE Eval(e.cond[1], inner)
                     test == Eval(e.test, inner)
                 IN  IF Panics(cond) THEN cond
                     ELSE IF ~is_truthy(cond) THEN loop(i + 1, result)
                     ELSE IF Panics(test) THEN test
                     ELSE IF e.op = "map" THEN loop(i + 1, ListV(Append(result.items, test)))
                     ELSE IF e.op = "any" /\ is_truthy(test) THEN BoolV(TRUE)
                     ELSE IF e.op = "all" /\ ~is_truthy(test) THEN BoolV(FALSE)
                     ELSE IF e.op = "filter" /\ ~is_truthy(test)
                     THEN loop(i + 1, remove_item(result, turns[i].next))
                     ELSE loop(i + 1, result)
    IN  IF Panics(target) THEN target ELSE IF ~Iterable(target) THEN TypeError ELSE loop(1, start)

(* The value of an entry comes before its key; the entries before it are   *)
(* names in its scope.                                                     *)
walk_config_entries(items, env, acc) ==
    IF items = <<>> THEN acc
    ELSE LET item == items[1]
             v == Eval(item.val, env)
             key == IF item.kind = "name" THEN StrV(item.name) ELSE Eval(item.key, env)
             named == item.kind = "name" \/ item.key.k = "str"
             grown == IF item.kind = "unpack" THEN dict_insert_unpack(acc, v)
                      ELSE dict_insert(acc, AsStr(key), v, item.op, IF item.kind = "name" THEN item.idx ELSE <<>>)
             inner == IF item.kind # "unpack" /\ named THEN (AsStr(key) :> ValueAt(grown.es, AsStr(key))) @@ env
                      ELSE env
         IN  IF Panics(v) THEN v
             ELSE IF item.kind # "unpack" /\ Panics(key) THEN key
             ELSE IF Panics(grown) THEN grown
             ELSE walk_config_entries(Tail(items), inner, grown)
walk_config_expr(e, env) == walk_config_entries(e.items, env, DictV(<<>>))
walk_config_if_entry_expr(e, env) ==
    Then(Eval(e.cond, env), LAMBDA v: IF is_truthy(v) THEN walk_config_entries(e.items, env, DictV(<<>>))
                                      ELSE IF e.orelse # <<>> THEN Eval(e.orelse[1], env) ELSE NoneV)

(* The configuration of a schema, or of a name that holds a value. *)
walk_schema_expr(e, env) ==
    LET config == Eval(e.config, env)
    IN  IF Panics(config) THEN config
        ELSE IF IsSchemaFunc(env[e.name]) THEN schema_body(env[e.name].schema, config.es)
        ELSE union_entry(env[e.name], config, TRUE, DefaultOptions)

walk_joined_string(e, env) ==
    LET texts == [i \in DOMAIN e.vals |->
                    LET v == Eval(e.vals[i], env) IN IF Panics(v) THEN v ELSE StrV(Display(v))]
        RECURSIVE join(_)
        join(n) == IF n = 0 THEN StrV(<<>>) ELSE bin_add(join(n - 1), texts[n])
    IN  ThenAll(texts, join(Len(texts)))

(***************************************************************************)
(* Dispatch, statements                                                    *)
(***************************************************************************)
walk_number_lit(e) == CASE e.k = "num" -> IntV(e.n) [] e.k = "flt" -> FloatV(e.f)
                        [] e.k = "unit" -> UnitV(e.raw, e.suffix)
walk_name_constant_lit(e) ==
    CASE e.c = "True" -> BoolV(TRUE) [] e.c = "False" -> BoolV(FALSE)
      [] e.c = "None" -> NoneV [] e.c = "Undefined" -> UndefinedV

Eval(e, env) ==
    CASE e.k \in {"num", "flt", "unit"} -> walk_number_lit(e)
      [] e.k = "str" -> StrV(e.s)
      [] e.k = "const" -> walk_name_constant_lit(e)
      [] e.k = "id" -> env[e.name]
      [] e.k = "un" -> walk_unary_expr(e, env)
      [] e.k = "bin" -> walk_binary_expr(e, env)
      [] e.k = "as" -> walk_as_expr(e, env)
      [] e.k = "cmp" -> walk_compare(e, env)
      [] e.k = "if" -> walk_if_expr(e, env)
      [] e.k = "sel" -> walk_selector_expr(e, env)
      [] e.k = "sub" -> walk_subscript(e, env)
      [] e.k = "slice" -> walk_slice(e, env)
      [] e.k = "call" -> walk_call_expr(e, env)
      [] e.k = "list" -> walk_list_expr(e, env)
      [] e.k \in {"star", "formatted"} -> Eval(e.e, env)
      [] e.k = "listif" -> walk_list_if_item_expr(e, env)
      [] e.k = "lcomp" -> walk_list_comp(e, env)
      [] e.k = "dcomp" -> walk_dict_comp(e, env)
      [] e.k = "quant" -> walk_quant_expr(e, env)
      [] e.k = "config" -> walk_config_expr(e, env)
      [] e.k = "configif" -> walk_config_if_entry_expr(e, env)
      [] e.k = "schema" -> walk_schema_expr(e, env)
      [] e.k = "lambda" -> LambdaV(e, env)
      [] e.k = "joined" -> walk_joined_string(e, env)

(* A statement gives the names of the program their next values; a panic   *)
(* is kept under the name it was meant for.                                *)
walk_assign_stmt(st, env) ==
    LET v == Eval(st.val, env)
    IN  (st.target :> IF Panics(v) \/ st.ty = <<>> THEN v
                      ELSE type_pack_and_check(v, type_func_erasure(st.ty[1]), FALSE)) @@ env
walk_aug_assign_stmt(st, env) ==
    LET r == Eval(st.val, env)
    IN  (st.target :> IF Panics(r) THEN r ELSE calculate(st.op, env[st.target], r)) @@ env
walk_unification_stmt(st, env) ==
    LET v == walk_schema_expr(st.val, env)
        org == IF st.target \in DOMAIN env THEN env[st.target] ELSE UndefinedV
    IN  (st.target :> IF Panics(v) THEN v ELSE bin_bit_or(org, v)) @@ env
walk_stmt(st, env) ==
    CASE st.s = "assign" -> walk_assign_stmt(st, env)
      [] st.s = "aug" -> walk_aug_assign_stmt(st, env)
      [] st.s = "unify" -> walk_unification_stmt(st, env)

(* The program ends at the first panic. *)
RECURSIVE walk_stmts(_, _)
walk_stmts(stmts, env) ==
    IF stmts = <<>> THEN env
    ELSE LET next == walk_stmt(stmts[1], env)
         IN  IF Panics(next[stmts[1].target]) THEN next ELSE walk_stmts(Tail(stmts), next)
=============================================================================
