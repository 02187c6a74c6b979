------------------------------ MODULE Compiled ------------------------------
(***************************************************************************)
(* The program the LLVM backend compiles (compiler/src/codegen/llvm):      *)
(* Run(e, env) is what the code emitted for e computes.                    *)
(*                                                                         *)
(* Compiled statements update values in place, so a name has a value and   *)
(* the cell that holds it: env is [val, rc, next], next being the first    *)
(* unused number.  A name bound to another name shares its cell; names     *)
(* that are never updated have no number (0).  A value inside a list or a  *)
(* dictionary shares its cell too; programs that update such a value       *)
(* afterwards are left out.                                                *)
(***************************************************************************)
EXTENDS Union, Ast

(***************************************************************************)
(* The functions of the runtime that compiled programs call                *)
(* (runtime/src/value/api.rs).  A parameter same says that the two         *)
(* arguments are one pointer.  A function that changes its first argument  *)
(* answers the changed value.                                              *)
(***************************************************************************)
(* A schema's function, and a lambda's with the names it has captured. *)
kclvm_value_schema_function(name) == [k |-> "func", schema |-> name]
kclvm_value_Function(node, closure) == [k |-> "func", node |-> node, closure |-> closure]
IsSchemaFunc(v) == v.k = "func" /\ "schema" \in DOMAIN v

kclvm_value_Undefined == UndefinedV
kclvm_value_None == NoneV
kclvm_value_Bool(b) == BoolV(b)
kclvm_value_Int(n) == IntV(n)
kclvm_value_Float(f) == FloatV(f)
kclvm_value_Unit(raw, suffix) == UnitV(raw, suffix)
kclvm_value_Str(s) == StrV(s)
kclvm_value_List == ListV(<<>>)
kclvm_value_Dict == DictV(<<>>)
kclvm_value_to_str_value(v) == StrV(Display(v))
kclvm_value_deep_copy(v) == v

(* The iterator counts the bytes of a string and hands out its letters:    *)
(* past the last letter the next value is a null pointer.                  *)
kclvm_value_iter(v) == IF Iterable(v) THEN v ELSE TypeError
kclvm_iterator_is_end(v, pos) == pos >= len(v).n
kclvm_iterator_next_value(v, pos) ==
    IF pos + 1 \in DOMAIN iter(v) THEN iter(v)[pos + 1].next ELSE ValueError
kclvm_iterator_cur_key(v, pos) == iter(v)[pos + 1].key
kclvm_iterator_cur_value(v, pos) == iter(v)[pos + 1].val

kclvm_list_append(p, v) == ListV(Append(p.items, v))
kclvm_list_append_unpack(p, v) == IF p.k = "list" THEN list_append_unpack(p, v) ELSE p
kclvm_list_get_option(p, i) == IF i \in DOMAIN p.items THEN p.items[i] ELSE UndefinedV

kclvm_dict_get_value(p, key) == IF key \in Keys(p.es) THEN ValueAt(p.es, key) ELSE UndefinedV
kclvm_dict_insert(p, key, v, op, idx) == dict_insert(p, key, v, op, idx)
(* attr_str: a number may name an attribute. *)
attr_str(key) == CASE key.k = "str" -> key
                   [] key.k = "int" -> StrV(<<ToString(key.n)>>)
                   [] key.k = "float" -> StrV(IF key.f % 2 = 0 THEN <<ToString(key.f \div 2)>> ELSE Display(key))
                   [] OTHER -> TypeError
kclvm_dict_insert_value(p, key, v, op, idx) ==
    IF Panics(attr_str(key)) THEN TypeError ELSE dict_insert(p, attr_str(key).s, v, op, idx)
kclvm_dict_insert_unpack(p, v) == dict_insert_unpack(p, v)

kclvm_value_is_truthy(v) == is_truthy(v)
kclvm_value_cmp_equal_to(a, b, same) == BoolV(same \/ cmp_equal(a, b))
kclvm_value_cmp_not_equal_to(a, b, same) == BoolV(~same /\ cmp_not_equal(a, b))
kclvm_value_cmp_less_than(a, b, same) == IF same THEN BoolV(FALSE) ELSE cmp_less_than(a, b)
kclvm_value_cmp_less_than_or_equal(a, b) == cmp_less_than_or_equal(a, b)
kclvm_value_cmp_greater_than(a, b, same) == IF same THEN BoolV(FALSE) ELSE cmp_greater_than(a, b)
kclvm_value_cmp_greater_than_or_equal(a, b) == cmp_greater_than_or_equal(a, b)
kclvm_value_is(a, b) == BoolV(cmp_equal(a, b))
kclvm_value_is_not(a, b) == BoolV(~cmp_equal(a, b))
kclvm_value_in(a, b) == r_in(a, b)
kclvm_value_not_in(a, b) == not_in(a, b)
kclvm_value_as(v, ty) == type_pack_and_check(v, to_str(ty), TRUE)

kclvm_value_unary_plus(v) == unary_plus(v)
kclvm_value_unary_minus(v) == unary_minus(v)
kclvm_value_unary_not(v) == unary_not(v)
kclvm_value_unary_l_not(v) == unary_l_not(v)

kclvm_value_op_add(a, b) == bin_add(a, b)
kclvm_value_op_sub(a, b) == bin_sub(a, b)
kclvm_value_op_mul(a, b) == bin_mul(a, b)
kclvm_value_op_div(a, b) == bin_div(a, b)
kclvm_value_op_mod(a, b) == bin_mod(a, b)
kclvm_value_op_pow(a, b) == bin_pow(a, b)
kclvm_value_op_floor_div(a, b) == bin_floor_div(a, b)
kclvm_value_op_bit_lshift(a, b) == bin_bit_lshift(a, b)
kclvm_value_op_bit_rshift(a, b) == bin_bit_rshift(a, b)
kclvm_value_op_bit_and(a, b) == bin_bit_and(a, b)
kclvm_value_op_bit_xor(a, b) == bin_bit_xor(a, b)
kclvm_value_op_bit_or(a, b) == bin_bit_or(a, b)

kclvm_value_op_aug_add(a, b) == bin_aug_add(a, b)
kclvm_value_op_aug_sub(a, b) == bin_aug_sub(a, b)
kclvm_value_op_aug_mul(a, b) == bin_aug_mul(a, b)
kclvm_value_op_aug_div(a, b) == bin_aug_div(a, b)
kclvm_value_op_aug_mod(a, b) == bin_aug_mod(a, b)
kclvm_value_op_aug_pow(a, b) == bin_aug_pow(a, b)
kclvm_value_op_aug_floor_div(a, b) == bin_aug_floor_div(a, b)
kclvm_value_op_aug_bit_lshift(a, b) == bin_aug_bit_lshift(a, b)
kclvm_value_op_aug_bit_rshift(a, b) == bin_aug_bit_rshift(a, b)
kclvm_value_op_aug_bit_and(a, b) == bin_aug_bit_and(a, b)
kclvm_value_op_aug_bit_xor(a, b) == bin_aug_bit_xor(a, b)
kclvm_value_op_aug_bit_or(a, b) == bin_aug_bit_or(a, b)

kclvm_value_subscr(a, i) == bin_subscr(a, i)
kclvm_value_subscr_option(a, i) == bin_subscr_option(a, i)
kclvm_value_load_attr(v, key) == load_attr(v, key)
kclvm_value_load_attr_option(v, key) ==
    IF is_truthy(v) THEN kclvm_value_load_attr(v, key) ELSE NoneV
kclvm_value_remove_item(p, item) == remove_item(p, item)
kclvm_value_slice(v, a, b, step) == list_slice(v, a, b, step)

(* The attributes of these schemas are all optional, so the check for      *)
(* required ones behind the conversion finds nothing.                      *)
kclvm_convert_collection_value(v, ty) == type_pack_and_check(v, type_func_erasure(ty), FALSE)

(* The schema's function runs twice; the second instance is the result. *)
kclvm_schema_value_new(schema_value_or_func, config) ==
    IF IsSchemaFunc(schema_value_or_func) THEN schema_body(schema_value_or_func.schema, config.es)
    ELSE union_entry(schema_value_or_func, config, TRUE, DefaultOptions)

-----------------------------------------------------------------------------

Then(v, Use(_)) == IF Panics(v) THEN v ELSE Use(v)
Then2(v, w, Use(_, _)) == IF Panics(v) THEN v ELSE IF Panics(w) THEN w ELSE Use(v, w)

(* A variable of a loop, a function or a configuration. *)
add_variable(env, name, v) ==
    [env EXCEPT !.val = (name :> v) @@ @, !.rc = (name :> 0) @@ @]
(* Every read of a global variable asks the scope for it and gets a        *)
(* pointer of its own; other names are loaded as they are.                 *)
SamePointer(e1, e2, env) == e1.k = "id" /\ e1 = e2 /\ env.rc[e1.name] = 0

RECURSIVE Run(_, _), walk_list_items(_, _, _), walk_generator(_, _, _, _), walk_config_entries(_, _, _)

(***************************************************************************)
(* Operators                                                               *)
(***************************************************************************)
value_operation(op, l, r) ==
    CASE op = "+" -> kclvm_value_op_add(l, r)
      [] op = "-" -> kclvm_value_op_sub(l, r)
      [] op = "*" -> kclvm_value_op_mul(l, r)
      [] op = "/" -> kclvm_value_op_div(l, r)
      [] op = "//" -> kclvm_value_op_floor_div(l, r)
      [] op = "%" -> kclvm_value_op_mod(l, r)
      [] op = "**" -> kclvm_value_op_pow(l, r)
      [] op = "<<" -> kclvm_value_op_bit_lshift(l, r)
      [] op = ">>" -> kclvm_value_op_bit_rshift(l, r)
      [] op = "&" -> kclvm_value_op_bit_and(l, r)
      [] op = "|" -> kclvm_value_op_bit_or(l, r)
      [] op = "^" -> kclvm_value_op_bit_xor(l, r)
value_comparison(op, l, r, same) ==
    CASE op = "==" -> kclvm_value_cmp_equal_to(l, r, same)
      [] op = "!=" -> kclvm_value_cmp_not_equal_to(l, r, same)
      [] op = ">" -> kclvm_value_cmp_greater_than(l, r, same)
      [] op = ">=" -> kclvm_value_cmp_greater_than_or_equal(l, r)
      [] op = "<" -> kclvm_value_cmp_less_than(l, r, same)
      [] op = "<=" -> kclvm_value_cmp_less_than_or_equal(l, r)
      [] op = "is" -> kclvm_value_is(l, r)
      [] op \in {"is not", "not"} -> kclvm_value_is_not(l, r)
      [] op = "in" -> kclvm_value_in(l, r)
      [] op = "not in" -> kclvm_value_not_in(l, r)

walk_unary_expr(e, env) ==
    Then(Run(e.e, env), LAMBDA v: CASE e.op = "+" -> kclvm_value_unary_plus(v)
                                    [] e.op = "-" -> kclvm_value_unary_minus(v)
                                    [] e.op = "~" -> kclvm_value_unary_not(v)
                                    [] e.op = "not" -> kclvm_value_unary_l_not(v))
(* The blocks of a logical operator join on the operand that decided. *)
walk_binary_expr(e, env) ==
    IF e.op \in {"and", "or"}
    THEN Then(Run(e.l, env), LAMBDA v: IF kclvm_value_is_truthy(v) = (e.op = "and") THEN Run(e.r, env) ELSE v)
    ELSE Then2(Run(e.l, env), Run(e.r, env), LAMBDA v, w: value_operation(e.op, v, w))
walk_as_expr(e, env) == Then(Run(e.e, env), LAMBDA v: kclvm_value_as(v, e.ty))

\* Mutant: every operand of a chain is compared with the first one.
WalkCompareFirst(e, env) ==
    LET RECURSIVE chain(_, _)
        chain(left, i) ==
            LET result == value_comparison(e.ops[i], left, Run(e.rs[i], env), FALSE)
            IN  IF Panics(result) \/ i = Len(e.ops) \/ ~kclvm_value_is_truthy(result) THEN result ELSE chain(left, i + 1)
    IN  Then(Run(e.l, env), LAMBDA v: chain(v, 1))
walk_compare(e, env) ==
    LET RECURSIVE chain(_, _, _)
        chain(left, node, i) ==
            LET right == Run(e.rs[i], env)
                result == value_comparison(e.ops[i], left, right, SamePointer(node, e.rs[i], env))
            IN  IF Panics(right) THEN right
                ELSE IF Panics(result) \/ i = Len(e.ops) \/ ~kclvm_value_is_truthy(result) THEN result
                ELSE chain(right, e.rs[i], i + 1)
    IN  Then(Run(e.l, env), LAMBDA v: chain(v, e.l, 1))

walk_if_expr(e, env) ==
    Then(Run(e.cond, env), LAMBDA v: Run(IF kclvm_value_is_truthy(v) THEN e.body ELSE e.orelse, env))

(***************************************************************************)
(* Members, calls                                                          *)
(***************************************************************************)
walk_selector_expr(e, env) ==
    Then(Run(e.e, env), LAMBDA v: IF e.q THEN kclvm_value_load_attr_option(v, e.attr)
                                  ELSE kclvm_value_load_attr(v, e.attr))
walk_subscript(e, env) ==
    Then2(Run(e.e, env), Run(e.i, env),
          LAMBDA v, i: IF e.q THEN kclvm_value_subscr_option(v, i) ELSE kclvm_value_subscr(v, i))
walk_slice(e, env) ==
    LET bound(b) == IF b = <<>> THEN kclvm_value_None ELSE Run(b[1], env)
        vs == <<Run(e.e, env), bound(e.lower), bound(e.upper), bound(e.step)>>
    IN  OrPanic(vs, kclvm_value_slice(vs[1], vs[2], vs[3], vs[4]))

walk_arguments(params, args, kwargs, env) ==
    LET convert(p, v) == IF p.ty = <<>> THEN v ELSE kclvm_convert_collection_value(v, p.ty[1])
        default(p) == IF p.def = <<>> THEN kclvm_value_None ELSE Run(p.def[1], env)
        defaults == [i \in DOMAIN params |-> Then(default(params[i]), LAMBDA v: convert(params[i], v))]
        given == [i \in DOMAIN params |->
                    IF i \in DOMAIN args.items THEN convert(params[i], kclvm_list_get_option(args, i)) ELSE defaults[i]]
    IN  IF FirstPanic(defaults \o given) # <<>> THEN FirstPanic(defaults \o given)
        ELSE [i \in DOMAIN params |-> IF params[i].name \in Keys(kwargs.es)
                                      THEN kclvm_dict_get_value(kwargs, params[i].name) ELSE given[i]]

(* The function emitted for a lambda. *)
lambda_function(f, args, kwargs) ==
    LET params == f.node.params
        vals == walk_arguments(params, args, kwargs, f.closure)
        RECURSIVE bind(_, _)
        bind(env, i) == IF i > Len(params) THEN env ELSE bind(add_variable(env, params[i].name, vals[i]), i + 1)
        result == Run(f.node.body, bind(f.closure, 1))
    IN  OrPanic(vals, IF Panics(result) \/ f.node.ret = <<>> THEN result
                      ELSE kclvm_convert_collection_value(result, f.node.ret[1]))
kclvm_value_function_invoke(f, args, kwargs) ==
    IF IsSchemaFunc(f) THEN kclvm_schema_value_new(f, kclvm_value_Dict)
    ELSE IF f.k = "func" THEN lambda_function(f, args, kwargs) ELSE kclvm_value_Undefined

walk_call_expr(e, env) ==
    LET f == Run(e.f, env)
        args == [i \in DOMAIN e.args |-> Run(e.args[i], env)]
        kwvals == [i \in DOMAIN e.kws |-> Run(e.kws[i].val, env)]
        RECURSIVE keywords(_)
        keywords(n) == IF n = 0 THEN kclvm_value_Dict
                   ELSE kclvm_dict_insert(keywords(n - 1), e.kws[n].arg, kwvals[n], "union", <<>>)
    IN  OrPanic(<<f>> \o args \o kwvals, kclvm_value_function_invoke(f, ListV(args), keywords(Len(kwvals))))

(***************************************************************************)
(* Collections                                                             *)
(***************************************************************************)
walk_list_items(elts, env, acc) ==
    IF elts = <<>> THEN acc
    ELSE LET v == Run(elts[1], env)
             grown == IF elts[1].k \in {"star", "listif"} THEN kclvm_list_append_unpack(acc, v)
                      ELSE kclvm_list_append(acc, v)
         IN  IF Panics(v) THEN v ELSE IF Panics(grown) THEN grown
             ELSE walk_list_items(Tail(elts), env, grown)
walk_list_expr(e, env) == walk_list_items(e.elts, env, kclvm_value_List)
walk_list_if_item_expr(e, env) ==
    Then(Run(e.cond, env), LAMBDA v: IF kclvm_value_is_truthy(v) THEN walk_list_items(e.exprs, env, kclvm_value_List)
                                     ELSE IF e.orelse # <<>> THEN Run(e.orelse[1], env) ELSE kclvm_value_None)

(* The variables of the turn at a position of the iterator. *)
loop_variables(vars, host, pos, env) ==
    IF Len(vars) = 1 THEN add_variable(env, vars[1], kclvm_iterator_next_value(host, pos))
    ELSE add_variable(add_variable(env, vars[1], kclvm_iterator_cur_key(host, pos)),
                      vars[2], kclvm_iterator_cur_value(host, pos))

(* A clause with several conditions ends its block several times; here the *)
(* first condition decides.                                                *)
walk_generator(e, gens, env, acc) ==
    IF gens = <<>>
    THEN IF e.k = "lcomp" THEN Then(Run(e.elt, env), LAMBDA v: kclvm_list_append(acc, v))
         ELSE Then2(Run(e.val, env), Run(e.key, env), LAMBDA v, key:
                kclvm_dict_insert_value(acc, key, kclvm_value_deep_copy(v), e.op, <<>>))
    ELSE LET host == Then(Run(gens[1].iter, env), kclvm_value_iter)
             RECURSIVE loop(_, _)
             loop(pos, out) ==
                 IF Panics(out) \/ kclvm_iterator_is_end(host, pos) THEN out
                 ELSE IF Panics(kclvm_iterator_next_value(host, pos)) THEN kclvm_iterator_next_value(host, pos)
                 ELSE LET inner == loop_variables(gens[1].targets, host, pos, env)
                          cond == IF gens[1].ifs = <<>> THEN kclvm_value_Bool(TRUE) ELSE Run(gens[1].ifs[1], inner)
                      IN  IF Panics(cond) THEN cond
                          ELSE IF ~kclvm_value_is_truthy(cond) THEN loop(pos + 1, out)
                          ELSE loop(pos + 1, walk_generator(e, Tail(gens), inner, out))
         IN  IF Panics(host) THEN host ELSE loop(0, acc)
walk_list_comp(e, env) == walk_generator(e, e.gens, env, kclvm_value_List)
walk_dict_comp(e, env) == walk_generator(e, e.gens, env, kclvm_value_Dict)

walk_quant_expr(e, env) ==
    LET host == Then(Run(e.target, env), kclvm_value_iter)
        start == CASE e.op = "all" -> kclvm_value_Bool(TRUE) [] e.op = "any" -> kclvm_value_Bool(FALSE)
                   [] e.op = "map" -> kclvm_value_List [] e.op = "filter" -> kclvm_value_deep_copy(host)
        RECURSIVE loop(_, _)
        loop(pos, result) ==
            IF Panics(result) \/ kclvm_iterator_is_end(host, pos) THEN result
            ELSE LET next == kclvm_iterator_next_value(host, pos)
                     inner == loop_variables(e.vars, host, pos, env)
                     cond == IF e.cond = <<>> THEN kclvm_value_Bool(TRUE) ELSE Run(e.cond[1], inner)
                     test == Run(e.test, inner)
                 IN  IF Panics(next) THEN next
                     ELSE IF Panics(cond) THEN cond
                     ELSE IF ~kclvm_value_is_truthy(cond) THEN loop(pos + 1, result)
                     ELSE IF Panics(test) THEN test
                     ELSE CASE e.op = "map" -> loop(pos + 1, kclvm_list_append(result, test))
                            [] e.op = "any" -> IF kclvm_value_is_truthy(test) THEN kclvm_value_Bool(TRUE)
                                               ELSE loop(pos + 1, result)
                            [] e.op = "all" -> IF kclvm_value_is_truthy(test) THEN loop(pos + 1, result)
                                               ELSE kclvm_value_Bool(FALSE)
                            [] e.op = "filter" -> loop(pos + 1, IF kclvm_value_is_truthy(test) THEN result
                                                                ELSE kclvm_value_remove_item(result, next))
    IN  IF Panics(host) THEN host ELSE loop(0, start)

walk_config_entries(items, env, acc) ==
    IF items = <<>> THEN acc
    ELSE LET item == items[1]
             v == Run(item.val, env)
             key == IF item.kind = "name" THEN kclvm_value_Str(item.name) ELSE Run(item.key, env)
             grown == IF item.kind = "unpack" THEN kclvm_dict_insert_unpack(acc, v)
                      ELSE kclvm_dict_insert_value(acc, key, v, item.op, IF item.kind = "name" THEN item.idx ELSE <<>>)
             named == item.kind # "unpack" /\ (item.kind = "name" \/ item.key.k = "str")
             inner == IF named THEN add_variable(env, key.s, kclvm_dict_get_value(grown, key.s)) ELSE env
         IN  IF Panics(v) THEN v
             ELSE IF item.kind # "unpack" /\ Panics(key) THEN key
             ELSE IF Panics(grown) THEN grown
             ELSE walk_config_entries(Tail(items), inner, grown)
walk_config_expr(e, env) == walk_config_entries(e.items, env, kclvm_value_Dict)
walk_config_if_entry_expr(e, env) ==
    Then(Run(e.cond, env), LAMBDA v: IF kclvm_value_is_truthy(v) THEN walk_config_entries(e.items, env, kclvm_value_Dict)
                                     ELSE IF e.orelse # <<>> THEN Run(e.orelse[1], env) ELSE kclvm_value_None)

walk_schema_expr(e, env) ==
    Then(Run(e.config, env), LAMBDA config: kclvm_schema_value_new(env.val[e.name], config))

walk_joined_string(e, env) ==
    LET vals == [i \in DOMAIN e.vals |-> Run(e.vals[i], env)]
        RECURSIVE join(_)
        join(n) == IF n = 0 THEN kclvm_value_Str(<<>>)
                   ELSE kclvm_value_op_add(join(n - 1), kclvm_value_to_str_value(vals[n]))
    IN  OrPanic(vals, join(Len(vals)))

(***************************************************************************)
(* Dispatch, statements                                                    *)
(***************************************************************************)
walk_number_lit(e) == CASE e.k = "num" -> kclvm_value_Int(e.n) [] e.k = "flt" -> kclvm_value_Float(e.f)
                        [] e.k = "unit" -> kclvm_value_Unit(e.raw, e.suffix)
walk_name_constant_lit(e) ==
    CASE e.c \in {"True", "False"} -> kclvm_value_Bool(e.c = "True")
      [] e.c = "None" -> kclvm_value_None [] e.c = "Undefined" -> kclvm_value_Undefined

Run(e, env) ==
    CASE e.k \in {"num", "flt", "unit"} -> walk_number_lit(e)
      [] e.k = "str" -> kclvm_value_Str(e.s)
      [] e.k = "const" -> walk_name_constant_lit(e)
      [] e.k = "id" -> env.val[e.name]
      [] e.k = "un" -> walk_unary_expr(e, env)
      [] e.k = "bin" -> walk_binary_expr(e, env)
      [] e.k = "as" -> walk_as_expr(e, env)
      [] e.k = "cmp" -> walk_compare(e, env)
      [] e.k = "if" -> walk_if_expr(e, env)
      [] e.k = "sel" -> walk_selector_expr(e, env)
      [] e.k = "sub" -> walk_subscript(e, env)
      [] e.k = "slice" -> walk_slice(e, env)
      [] e.k = "call" -> walk_call_expr(e, env)
      [] e.k = "list" -> walk_list_expr(e, env)
      [] e.k \in {"star", "formatted"} -> Run(e.e, env)
      [] e.k = "listif" -> walk_list_if_item_expr(e, env)
      [] e.k = "lcomp" -> walk_list_comp(e, env)
      [] e.k = "dcomp" -> walk_dict_comp(e, env)
      [] e.k = "quant" -> walk_quant_expr(e, env)
      [] e.k = "config" -> walk_config_expr(e, env)
      [] e.k = "configif" -> walk_config_if_entry_expr(e, env)
      [] e.k = "schema" -> walk_schema_expr(e, env)
      [] e.k = "lambda" -> kclvm_value_Function(e, env)
      [] e.k = "joined" -> walk_joined_string(e, env)

(* A name gets a value of its own, or shares the cell of another name. *)
StoreFresh(env, name, v) ==
    [val |-> (name :> v) @@ env.val, rc |-> (name :> env.next) @@ env.rc, next |-> env.next + 1]
StoreShared(env, name, v, other) == [StoreFresh(env, name, v) EXCEPT !.rc[name] = env.rc[other]]
UpdateInPlace(env, name, v) ==
    [env EXCEPT !.val = [n \in DOMAIN @ |-> IF env.rc[n] = env.rc[name] THEN v ELSE @[n]]]

(* A conversion copies lists and dictionaries, and nothing else. *)
walk_assign_stmt(st, env) ==
    LET v == Run(st.val, env)
        stored == IF Panics(v) \/ st.ty = <<>> THEN v ELSE kclvm_convert_collection_value(v, st.ty[1])
        copied == st.ty # <<>> /\ v.k \in {"list", "dict"} /\ ~is_any(st.ty[1])
    IN  IF st.val.k = "id" /\ ~Panics(stored) /\ ~copied
        THEN StoreShared(env, st.target, stored, st.val.name)
        ELSE StoreFresh(env, st.target, stored)

aug_operation(op, l, r) ==
    CASE op = "+" -> kclvm_value_op_aug_add(l, r)
      [] op = "-" -> kclvm_value_op_aug_sub(l, r)
      [] op = "*" -> kclvm_value_op_aug_mul(l, r)
      [] op = "/" -> kclvm_value_op_aug_div(l, r)
      [] op = "//" -> kclvm_value_op_aug_floor_div(l, r)
      [] op = "%" -> kclvm_value_op_aug_mod(l, r)
      [] op = "**" -> kclvm_value_op_aug_pow(l, r)
      [] op = "<<" -> kclvm_value_op_aug_bit_lshift(l, r)
      [] op = ">>" -> kclvm_value_op_aug_bit_rshift(l, r)
      [] op = "&" -> kclvm_value_op_aug_bit_and(l, r)
      [] op = "^" -> kclvm_value_op_aug_bit_xor(l, r)
(* Every operator but | updates the value the target holds: its cell is    *)
(* borrowed mutably, then that of the operand, which panics if it is the   *)
(* same one.                                                               *)
SameCell(st, env) == st.val.k = "id" /\ env.rc[st.val.name] = env.rc[st.target]
BorrowError == Panic("borrow")
walk_aug_assign_stmt(st, env) ==
    LET r == Run(st.val, env)
        l == env.val[st.target]
        updated == IF SameCell(st, env) THEN BorrowError ELSE aug_operation(st.op, l, r)
    IN  IF Panics(r) THEN StoreFresh(env, st.target, r)
        ELSE IF st.op = "|" THEN StoreFresh(env, st.target, kclvm_value_op_bit_or(l, r))
        ELSE IF Panics(updated) THEN StoreFresh(env, st.target, updated)
        ELSE UpdateInPlace(env, st.target, updated)
walk_unification_stmt(st, env) ==
    LET v == walk_schema_expr(st.val, env)
        merged == kclvm_value_op_aug_bit_or(env.val[st.target], v)
    IN  IF Panics(v) \/ st.target \notin DOMAIN env.val THEN StoreFresh(env, st.target, v)
        ELSE IF Panics(merged) THEN StoreFresh(env, st.target, merged)
        ELSE UpdateInPlace(env, st.target, merged)
walk_stmt(st, env) ==
    CASE st.s = "assign" -> walk_assign_stmt(st, env)
      [] st.s = "aug" -> walk_aug_assign_stmt(st, env)
      [] st.s = "unify" -> walk_unification_stmt(st, env)

RECURSIVE walk_stmts(_, _)
walk_stmts(stmts, env) ==
    IF stmts = <<>> THEN env
    ELSE LET next == walk_stmt(stmts[1], env)
         IN  IF Panics(next.val[stmts[1].target]) THEN next ELSE walk_stmts(Tail(stmts), next)
=============================================================================
