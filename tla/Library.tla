------------------------------ MODULE Library ------------------------------
(***************************************************************************)
(* The functions the runtime implements: the builtin functions, the        *)
(* members of strings and of the system modules (runtime/src).  A function *)
(* is described by the arguments it reads, by position, by keyword or by   *)
(* both, the kinds of value it takes for each, and the kinds of its        *)
(* answer.  A value is its kind; what depends on more than kinds is a      *)
(* choice, and an answer that may fail for the value (a file that is       *)
(* missing, text that does not parse, a number out of range) includes      *)
(* "fails".                                                                *)
(***************************************************************************)
EXTENDS Checker

CONSTANT ResolverAccepts(_)   \* the resolver's answer to a call (Accepted below)
VARIABLE call   \* the last call: module, function, positional and keyword arguments

Kinds == {"none", "bool", "int", "float", "str", "list", "dict", "schema", "func"}
Numbers == {"int", "float"}
Anything == Kinds \cup {"undefined", "fails"}

(***************************************************************************)
(* val_args.rs: how arguments are read.  i = 0 is no position and "" no    *)
(* keyword.  A parameter is given once.                                    *)
(***************************************************************************)
Reader(i, key, kinds, need) == [i |-> i, key |-> key, kinds |-> kinds, need |-> need]
Need(i, key) == Reader(i, key, Kinds, TRUE)
Opt(i, key) == Reader(i, key, Kinds, FALSE)
NeedKind(i, key, kinds) == Reader(i, key, kinds, TRUE)
OptKind(i, key, kinds) == Reader(i, key, kinds, FALSE)

get_call_arg(c, r) ==
    IF r.key \in DOMAIN c.kws THEN <<c.kws[r.key]>>
    ELSE IF r.i \in DOMAIN c.args THEN <<c.args[r.i]>> ELSE <<>>
arg_kind(c, i, key) ==
    LET got == get_call_arg(c, Opt(i, key)) IN IF got = <<>> THEN "undefined" ELSE got[1]

(* rest: the arguments beyond the readers that are taken too. *)
Function(reads, out) == [reads |-> reads, out |-> out, rest |-> {}]
Taking(rest, reads, out) == [reads |-> reads, out |-> out, rest |-> rest]

(***************************************************************************)
(* System modules                                                          *)
(***************************************************************************)
kclvm_base64(f, c) ==
    IF f = "encode" THEN Function(<<Need(1, "value")>>, {"str"})
    ELSE Function(<<Need(1, "value")>>, {"str", "fails"})

kclvm_net_addresses(f, c) ==
    CASE f = "split_host_port" -> Function(<<Need(1, "ip_end_point")>>, {"list"})
      [] f = "join_host_port" -> Function(<<Need(1, "host"), NeedKind(2, "port", {"int", "str"})>>, {"str"})
      [] f = "fqdn" -> Function(<<Opt(1, "name")>>, {"str", "fails"})
      [] OTHER -> Function(<<Need(1, "ip")>>, {"str"})
(* Whether an address is of a kind: an address that does not parse is of   *)
(* none.                                                                   *)
kclvm_net_is_link_local(f, c) == Function(<<Need(1, "ip")>>, {"bool"})
kclvm_net_kinds(f, c) ==
    IF f \in {"is_link_local_multicast_IP", "is_link_local_unicast_IP"} THEN kclvm_net_is_link_local(f, c)
    ELSE Function(<<Need(1, "ip")>>, {"bool"})
kclvm_net_is_IP_in_CIDR(f, c) ==
    IF f = "is_IP_in_CIDR" THEN Function(<<Need(1, "ip"), Opt(2, "cidr")>>, {"bool", "fails"})
    ELSE Function(<<Need(1, "ip")>>, {"bool"})
kclvm_net_blocks(f, c) ==
    CASE f = "parse_CIDR" -> Function(<<Need(1, "cidr")>>, {"dict", "fails"})
      [] f \in {"hosts_in_CIDR", "subnets_from_CIDR"} -> Function(<<Need(1, "cidr")>>, {"list", "fails"})
      [] f = "is_global_unicast_IP" -> Function(<<Need(1, "ip")>>, {"bool"})
      [] OTHER -> kclvm_net_is_IP_in_CIDR(f, c)

kclvm_manifests(f, c) ==
    Function(<<NeedKind(1, "values", {"list"}), OptKind(2, "opts", {"dict", "schema"})>>, {"undefined"})

(* An integer is looked for before a float, by position and by keyword. *)
kclvm_math_tests(f, c) ==
    LET x == NeedKind(1, "x", Numbers)
    IN  CASE f = "isinf" -> Function(<<NeedKind(1, "x", IF c.args = <<>> THEN Numbers ELSE Numbers \cup {"bool"})>>, {"bool"})
          [] f \in {"isfinite", "isnan"} -> Function(<<x>>, {"bool"})
          [] f = "modf" -> Function(<<x>>, {"list"})
kclvm_math_integers(f, c) ==
    LET x == NeedKind(1, "x", Numbers)
        like_x == {arg_kind(c, 1, "x")}
    IN  CASE f = "ceil" -> Function(<<x>>, {"int"})
          [] f = "factorial" -> Function(<<x>>, like_x \cup {"fails"})
          [] f = "floor" -> Function(<<x>>, like_x)
          [] f = "gcd" -> Function(<<NeedKind(1, "a", {"int"}), NeedKind(2, "b", {"int"})>>, {"int"})
          [] OTHER -> kclvm_math_tests(f, c)
(* The base of a logarithm is read when it is a float in second place: the *)
(* default is taken before the keyword is looked for.                      *)
kclvm_math_exps(f, c) ==
    LET x == NeedKind(1, "x", Numbers)
        base == Len(c.args) > 1 /\ c.args[2] = "float"
    IN  IF f = "log" THEN Function(<<x>> \o (IF base THEN <<Opt(2, "")>> ELSE <<>>), {arg_kind(c, 1, "x")})
        ELSE Function(<<x>>, {"float"})
kclvm_math_reals(f, c) ==
    LET x == NeedKind(1, "x", Numbers)
        like_x == {arg_kind(c, 1, "x")}
        whole == like_x = {"int"} /\ arg_kind(c, 2, "n") = "int"
    IN  CASE f \in {"exp", "expm1", "log"} -> kclvm_math_exps(f, c)
          [] f = "log2" -> Function(<<x>>, like_x)
          [] f = "pow" -> Function(<<x, NeedKind(2, "n", Numbers)>>,
                                   IF whole THEN {"int", "float", "fails"} ELSE {"float"})
          [] OTHER -> Function(<<x>>, {"float"})

kclvm_datetime(f, c) ==
    CASE f = "now" -> Function(<<Opt(1, "format")>>, {"str", "fails"})
      [] f = "ticks" -> Function(<<>>, {"float"})
      [] f = "validate" -> Function(<<Need(1, "date"), Need(2, "format")>>, {"bool"})
      [] OTHER -> Function(<<>>, {"str"})

kclvm_regex_searches(f, c) ==
    LET both == <<Need(1, "string"), Need(2, "pattern")>>
    IN  CASE f = "search" -> Function(both, {"bool", "fails"})
          [] f = "findall" -> Function(both, {"list", "list of lists", "fails"})
          [] f = "split" -> Function(both \o <<OptKind(3, "maxsplit", {"int"})>>, {"list", "fails"})
kclvm_regex(f, c) ==
    LET both == <<Need(1, "string"), Need(2, "pattern")>>
    IN  CASE f = "compile" -> Function(<<Need(1, "pattern")>>, {"bool"})
          [] f = "match" -> Function(both, {"bool", "fails"})
          [] f = "replace" -> Function(both \o <<Need(3, "replace"), OptKind(4, "count", {"int"})>>, {"str", "fails"})
          [] OTHER -> kclvm_regex_searches(f, c)

\* Mutant: the options are read one position late.
YamlOptionsLate(index) ==
    <<Opt(index + 1, "sort_keys"), Opt(index + 2, "ignore_private"), Opt(index + 3, "ignore_none")>>
yaml_args_to_opts(index) ==
    <<Opt(index, "sort_keys"), Opt(index + 1, "ignore_private"), Opt(index + 2, "ignore_none")>>
kclvm_yaml_codecs(f, c) ==
    CASE f = "encode" -> Function(<<Need(1, "data")>> \o yaml_args_to_opts(2), {"str"})
      [] f = "encode_all" -> Function(<<NeedKind(1, "data", {"list"})>> \o yaml_args_to_opts(2), {"str"})
      [] f = "decode" -> Function(<<Need(1, "value")>>, Anything)
      [] f = "decode_all" -> Function(<<Need(1, "value")>>, {"list", "fails"})
kclvm_yaml_files(f, c) ==
    CASE f = "dump_to_file" -> Function(<<Need(1, "data"), Need(2, "filename")>> \o yaml_args_to_opts(3),
                                        {"undefined", "fails"})
      [] f = "dump_all_to_file" -> Function(<<NeedKind(1, "data", {"list"}), Need(2, "filename")>>
                                              \o yaml_args_to_opts(3), {"undefined", "fails"})
      [] f = "validate" -> Function(<<Need(1, "value")>>, {"bool"})

json_args_to_opts(index) ==
    <<Opt(index, "sort_keys"), OptKind(index + 1, "indent", {"int"}),
      Opt(index + 2, "ignore_private"), Opt(index + 3, "ignore_none")>>
kclvm_json(f, c) ==
    CASE f = "encode" -> Function(<<Need(1, "data")>> \o json_args_to_opts(2), {"str"})
      [] f = "decode" -> Function(<<Need(1, "value")>>, Anything)
      [] f = "dump_to_file" -> Function(<<Need(1, "data"), Need(2, "filename")>> \o json_args_to_opts(3),
                                        {"undefined", "fails"})
      [] f = "validate" -> Function(<<Need(1, "value")>>, {"bool"})

kclvm_crypto_digests(f, c) == Function(<<Need(1, "value"), Opt(2, "encoding")>>, {"str", "fails"})
kclvm_crypto_files(f, c) == Function(<<Need(1, "filepath")>>, {"str", "fails"})
kclvm_crypto_rest(f, c) ==
    CASE f \in {"sha512", "blake3"} -> Function(<<Need(1, "value"), Opt(2, "encoding")>>, {"str", "fails"})
      [] f = "uuid" -> Function(<<>>, {"str"})
      [] OTHER -> kclvm_crypto_files(f, c)

kclvm_units_decimal(f, c) ==
    IF f \in {"to_n", "to_u", "to_m"}
    THEN Function(<<NeedKind(1, "num", {"bool", "int", "float", "str"})>>, {"str", "fails"})
    ELSE Function(<<Need(1, "num")>>, {"str"})
kclvm_units_binary(f, c) == Function(<<Need(1, "num")>>, {"str"})

kclvm_collection(f, c) == Function(<<Need(1, "")>>, Anything)

kclvm_file_queries(f, c) ==
    CASE f = "glob" -> Function(<<Need(1, "pattern")>>, {"list", "fails"})
      [] f \in {"modpath", "workdir", "current"} -> Function(<<>>, {"str"})
      [] f = "exists" -> Function(<<Need(1, "filepath")>>, {"bool"})
      [] f \in {"read", "abs"} -> Function(<<Need(1, "filepath")>>, {"str", "fails"})
kclvm_file_changes(f, c) ==
    CASE f = "mkdir" -> Function(<<Need(1, "directory"), Opt(2, "exists")>>, {"none", "fails"})
      [] f = "delete" -> Function(<<Need(1, "filepath")>>, {"none", "fails"})
      [] f \in {"cp", "mv"} -> Function(<<Need(1, "src"), Need(2, "dest")>>, {"none", "fails"})
      [] f = "size" -> Function(<<Need(1, "filepath")>>, {"int", "fails"})
kclvm_file_contents(f, c) ==
    CASE f \in {"write", "append"} -> Function(<<Need(1, "filepath"), Need(2, "content")>>, {"none", "fails"})
      [] f = "read_env" -> Function(<<Need(1, "key")>>, {"str", "undefined"})

kclvm_template(f, c) ==
    CASE f = "execute" -> Function(<<Need(1, "template"), OptKind(2, "data", {"dict", "schema"})>>, {"str", "fails"})
      [] f = "html_escape" -> Function(<<Need(1, "data")>>, {"str"})

runtime_catch(f, c) == Function(<<Need(1, "func")>>, {"str", "undefined"})

(***************************************************************************)
(* Builtin functions                                                       *)
(***************************************************************************)
kclvm_builtin_option(f, c) ==
    Function(<<Opt(1, "key"), Opt(2, "type"), Opt(3, "required"), Opt(4, "default")>>, Anything)
kclvm_builtin_checks(f, c) ==
    CASE f = "print" -> Taking({"args"}, <<Opt(0, "end")>>, {"none"})
      [] f = "len" -> Function(<<NeedKind(1, "inval", {"str", "list", "dict", "schema"})>>, {"int"})
      [] f \in {"any_true", "all_true", "isunique"} -> Function(<<Opt(1, "inval")>>, {"bool"})
      [] f = "sorted" -> Function(<<NeedKind(1, "inval", {"str", "list", "dict"}), Opt(2, "reverse")>>, {"list", "fails"})
(* One argument is a collection of the values to compare. *)
kclvm_builtin_extremes(f, c) ==
    Taking({"args"}, IF Len(c.args) > 1 THEN <<>> ELSE <<NeedKind(1, "", {"str", "list", "dict", "schema"})>>, Anything)
kclvm_builtin_conversions(f, c) ==
    LET scalar == {"bool", "int", "float", "str"}
    IN  CASE f = "int" -> Function(<<NeedKind(1, "number", scalar), Opt(2, "base")>>, {"int", "fails"})
          [] f = "float" -> Function(<<NeedKind(1, "number", scalar)>>, {"float", "fails"})
          [] f = "bool" -> Function(<<Need(1, "x")>>, {"bool"})
          [] f = "str" -> Function(<<Opt(1, "x")>>, {"str"})
kclvm_builtin_numbers(f, c) ==
    LET num == arg_kind(c, 1, "number")
        powers == {arg_kind(c, 1, "x"), arg_kind(c, 2, "y")}
        modulus == arg_kind(c, 3, "z")
    IN  CASE f = "multiplyof" -> Function(<<Need(1, "a"), Need(2, "b")>>,
               IF {arg_kind(c, 1, "a"), arg_kind(c, 2, "b")} = {"int"} THEN {"bool", "fails"} ELSE {"undefined"})
          [] f = "abs" -> Function(<<Need(1, "inval")>>,
               IF arg_kind(c, 1, "inval") \in Numbers THEN {arg_kind(c, 1, "inval"), "fails"} ELSE {"undefined"})
          [] f = "sum" -> Function(<<Opt(1, "iterable"), OptKind(2, "start", Kinds \ {"str"})>>,
               IF arg_kind(c, 1, "iterable") = "list" THEN Anything ELSE {"undefined"})
          [] f = "pow" -> Function(<<OptKind(1, "x", IF modulus = "int" THEN {"int"} ELSE Kinds),
                                     OptKind(2, "y", IF modulus = "int" THEN {"int"} ELSE Kinds), Opt(3, "z")>>,
               CASE modulus = "int" -> {"int", "fails"}
                 [] powers = {"int"} -> {"int", "float"}
                 [] powers \subseteq Numbers -> {"float"}
                 [] OTHER -> {"undefined"})
          [] f = "round" -> Function(<<Opt(1, "number"), Opt(2, "ndigits")>>,
               CASE num \notin Numbers -> {"undefined"}
                 [] arg_kind(c, 2, "ndigits") = "int" -> {"float", "undefined"}
                 [] OTHER -> {"int"})
(* The keyword of list() is looked at only when a position is taken too,   *)
(* and zip() of nothing never ends.                                        *)
kclvm_builtin_collections(f, c) ==
    LET over == {"str", "list", "dict", "schema"}
    IN  CASE f = "zip" -> Taking({"args"}, <<>>,
               IF c.args = <<>> THEN {"never"} ELSE IF \A i \in DOMAIN c.args: c.args[i] \in over THEN {"list"} ELSE {"rejects"})
          [] f = "list" -> Function(<<OptKind(1, "", over)>>, {"list"})
          [] f = "dict" -> Taking({"kws"}, <<OptKind(1, "x", over)>>, {"dict", "fails"})
          [] f = "typeof" -> Function(<<Need(1, "x"), Opt(2, "full_name")>>, {"str"})
kclvm_builtin_rest(f, c) ==
    LET start == arg_kind(c, 1, "start")
        stop == arg_kind(c, 2, "stop")
        step == arg_kind(c, 3, "step")
        range(kinds) == IF kinds = {"int"} THEN {"list", "fails"} ELSE {"undefined"}
        num == arg_kind(c, 1, "number")
    IN  CASE f \in {"bin", "oct", "hex"} -> Function(<<Need(1, "number")>>, IF num = "int" THEN {"str"} ELSE {"undefined"})
          [] f = "ord" -> Function(<<Need(1, "c")>>, IF arg_kind(c, 1, "c") = "str" THEN {"int", "fails"} ELSE {"undefined"})
          [] f = "isnullish" -> Function(<<Need(1, "inval")>>, {"bool"})
          [] f = "range" ->
               CASE start = "undefined" -> Function(<<>>, {"undefined"})
                 [] stop = "undefined" -> Function(<<Opt(1, "start")>>, range({start}))
                 [] step = "undefined" -> Function(<<Opt(1, "start"), Opt(2, "stop")>>, range({start, stop}))
                 [] OTHER -> Function(<<Opt(1, "start"), Opt(2, "stop"), Opt(3, "step")>>, range({start, stop, step}))

(***************************************************************************)
(* Members of strings: all but four read positions only                    *)
(***************************************************************************)
Searching(out) == Function(<<NeedKind(1, "", {"str"}), Opt(2, ""), Opt(3, "")>>, out)
str_searches(f, c) ==
    CASE f \in {"lower", "upper", "capitalize"} -> Function(<<>>, {"str"})
      [] f = "chars" -> Function(<<>>, {"list"})
      [] f \in {"count", "find"} -> Searching({"int", "fails"})
      [] f = "endswith" -> Searching({"bool", "fails"})
      [] f = "format" -> Taking({"args", "kws"}, <<>>, {"str", "fails"})
str_classes(f, c) == IF f = "index" THEN Searching({"int", "fails"}) ELSE Function(<<>>, {"bool"})
str_cuts(f, c) ==
    CASE f = "join" -> Function(<<NeedKind(1, "", {"str", "list", "dict", "schema"})>>, {"str", "fails"})
      [] f \in {"lstrip", "rstrip"} -> Function(<<Opt(1, "")>>, {"str"})
      [] f = "replace" -> Function(<<Need(1, ""), Need(2, ""), Opt(3, "")>>, {"str"})
      [] f \in {"removeprefix", "removesuffix"} -> Function(<<Need(1, "")>>, {"str"})
      [] f \in {"rfind", "rindex"} -> Searching({"int", "fails"})
str_rest(f, c) ==
    CASE f \in {"split", "rsplit"} -> Function(<<Opt(1, "sep"), Opt(2, "maxsplit")>>, {"list"})
      [] f = "splitlines" -> Function(<<Opt(1, "keepends")>>, {"list"})
      [] f = "startswith" -> Searching({"bool", "fails"})
      [] f = "strip" -> Function(<<Opt(1, "")>>, {"str"})
      [] f = "title" -> Function(<<>>, {"str"})

(***************************************************************************)
(* _kclvm_addr.rs: from the name a program uses to the function            *)
(***************************************************************************)
kclvm_builtin_addr(f, c) ==
    CASE f = "option" -> kclvm_builtin_option(f, c)
      [] f \in {"print", "len", "any_true", "all_true", "isunique", "sorted"} -> kclvm_builtin_checks(f, c)
      [] f \in {"max", "min"} -> kclvm_builtin_extremes(f, c)
      [] f \in {"int", "float", "bool", "str"} -> kclvm_builtin_conversions(f, c)
      [] f \in {"multiplyof", "abs", "sum", "pow", "round"} -> kclvm_builtin_numbers(f, c)
      [] f \in {"zip", "list", "dict", "typeof"} -> kclvm_builtin_collections(f, c)
      [] OTHER -> kclvm_builtin_rest(f, c)
kclvm_str_addr(f, c) ==
    CASE f \in {"lower", "upper", "capitalize", "chars", "count", "endswith", "find", "format"} -> str_searches(f, c)
      [] f \in {"join", "lstrip", "rstrip", "replace", "removeprefix", "removesuffix", "rfind", "rindex"} -> str_cuts(f, c)
      [] f \in {"split", "rsplit", "splitlines", "startswith", "strip", "title"} -> str_rest(f, c)
      [] OTHER -> str_classes(f, c)
kclvm_get_fn_ptr_by_name(module, f, c) ==
    CASE module = "builtin" -> kclvm_builtin_addr(f, c)
      [] module = "str" -> kclvm_str_addr(f, c)
      [] module = "base64" -> kclvm_base64(f, c)
      [] module = "net" -> IF f \in DOMAIN net_addresses THEN kclvm_net_addresses(f, c)
                           ELSE IF f \in DOMAIN net_kinds THEN kclvm_net_kinds(f, c) ELSE kclvm_net_blocks(f, c)
      [] module = "manifests" -> kclvm_manifests(f, c)
      [] module = "math" -> IF f \in DOMAIN math_integers THEN kclvm_math_integers(f, c) ELSE kclvm_math_reals(f, c)
      [] module = "datetime" -> kclvm_datetime(f, c)
      [] module = "regex" -> kclvm_regex(f, c)
      [] module = "yaml" -> IF f \in DOMAIN yaml_codecs THEN kclvm_yaml_codecs(f, c) ELSE kclvm_yaml_files(f, c)
      [] module = "json" -> kclvm_json(f, c)
      [] module = "crypto" -> IF f \in DOMAIN crypto_digests THEN kclvm_crypto_digests(f, c) ELSE kclvm_crypto_rest(f, c)
      [] module = "units" -> IF f \in {"to_n", "to_u", "to_m", "to_K", "to_M", "to_G", "to_T", "to_P"}
                             THEN kclvm_units_decimal(f, c) ELSE kclvm_units_binary(f, c)
      [] module = "collection" -> kclvm_collection(f, c)
      [] module = "file" -> IF f \in {"read", "glob", "modpath", "workdir", "current", "exists", "abs"} THEN kclvm_file_queries(f, c)
                            ELSE IF f \in {"mkdir", "delete", "cp", "mv", "size"} THEN kclvm_file_changes(f, c)
                            ELSE kclvm_file_contents(f, c)
      [] module = "template" -> kclvm_template(f, c)
      [] module = "runtime" -> runtime_catch(f, c)

(***************************************************************************)
(* A call: its arguments are names whose types the checker knows           *)
(***************************************************************************)
TypeOfKind ==
    [none |-> none, bool |-> bool, int |-> int, float |-> float, str |-> str, list |-> list(any),
     dict |-> dict(str, any), func |-> function(<<>>, any, FALSE), schema |-> schema(CHOOSE s \in DOMAIN Schemas: TRUE, TRUE)]
KindEnv == [n \in {<<k>>: k \in Kinds} |-> TypeOfKind[n[1]]]

Modules == {"builtin", "str", "base64", "net", "manifests", "math", "datetime", "regex", "yaml", "json", "crypto", "units",
            "collection", "file", "template", "runtime"}
FunctionTypes == [module \in Modules |->
    CASE module = "builtin" -> BUILTIN_FUNCTIONS
      [] module = "str" -> STRING_MEMBER_FUNCTIONS
      [] OTHER -> get_system_module(module)]
FunctionsOf(module) == {f \in DOMAIN FunctionTypes[module]: is_func(FunctionTypes[module][f])}

RECURSIVE KeywordsOf(_, _)
KeywordsOf(keys, kws) ==
    IF keys = {} THEN <<>>
    ELSE LET key == CHOOSE k \in keys: TRUE
         IN  <<Keyword(<<key>>, Identifier(<<kws[key]>>))>> \o KeywordsOf(keys \ {key}, kws)
Accepted(c) ==
    do_arguments_type_check([i \in DOMAIN c.args |-> Identifier(<<c.args[i]>>)], KeywordsOf(DOMAIN c.kws, c.kws),
                            FunctionTypes[c.module][c.func], KindEnv, <<>>)

NoCall == [module |-> "builtin", func |-> "print", args |-> <<>>, kws |-> <<>>]
Init == call = NoCall

(* The first parameters are given by position, some of the others by       *)
(* keyword; a variadic function is given two more arguments.  None passes  *)
(* for every type and is left out.                                         *)
Parameters == [module \in Modules |-> [f \in FunctionsOf(module) |->
    LET ty == FunctionTypes[module][f]
        ps == ty.params \o (IF ty.variadic THEN <<P("one", iterable), P("two", iterable)>> ELSE <<>>)
    IN  [i \in DOMAIN ps |-> [name |-> ps[i].name[1], fits |-> {k \in Kinds \ {"none"}: assignable_to(TypeOfKind[k], ps[i].ty)}]]]]
RECURSIVE Positional(_)
Positional(ps) == IF ps = <<>> THEN {<<>>} ELSE {<<k>> \o t: k \in ps[1].fits, t \in Positional(Tail(ps))}
RECURSIVE Named(_)
Named(ps) ==
    IF ps = <<>> THEN {<<>>}
    ELSE LET rest == Named(Tail(ps)) IN rest \cup {(ps[1].name :> k) @@ t: k \in ps[1].fits, t \in rest}
Call(module, f) ==
    LET ps == Parameters[module][f]
    IN  /\ call = NoCall
        /\ \E n \in 0..Len(ps): \E args \in Positional(SubSeq(ps, 1, n)), kws \in Named(SubSeq(ps, n + 1, Len(ps))):
             LET c == [module |-> module, func |-> f, args |-> args, kws |-> kws]
             IN  ResolverAccepts(c) /\ call' = c

Next == \E module \in Modules: \E f \in FunctionsOf(module): Call(module, f)
Spec == Init /\ [][Next]_call

(***************************************************************************)
(* What the declarations promise                                           *)
(***************************************************************************)
RECURSIVE Answers(_, _)
Answers(kind, ty) ==
    \/ kind \in {"none", "undefined", "fails"} \/ is_any(ty)
    \/ is_union(ty) /\ \E i \in DOMAIN ty.types: Answers(kind, ty.types[i])
    \/ kind \in Kinds /\ is_list(ty) /\ kind = "list"
    \/ kind \in Kinds /\ is_dict(ty) /\ kind = "dict"
    \/ kind \in Kinds /\ ty.k = kind
    \/ kind = "int" /\ is_float(ty)

Callee == kclvm_get_fn_ptr_by_name(call.module, call.func, call)
Declaration == FunctionTypes[call.module][call.func]
DeclaredAny(r) == \E i \in DOMAIN Declaration.params:
                    (i = r.i \/ Declaration.params[i].name[1] = r.key) /\ is_any(Declaration.params[i].ty)
(* A kind of value the function does not take, of a parameter whose type   *)
(* says so, or a parameter it misses.                                      *)
Refuses(r) == LET got == get_call_arg(call, r) IN IF got = <<>> THEN r.need ELSE got[1] \notin r.kinds /\ ~DeclaredAny(r)
NotTaken == \E j \in DOMAIN Callee.reads: Refuses(Callee.reads[j])
Ignored == \/ "args" \notin Callee.rest /\ \E i \in DOMAIN call.args: \A j \in DOMAIN Callee.reads: Callee.reads[j].i # i
           \/ "kws" \notin Callee.rest /\ \E key \in DOMAIN call.kws: \A j \in DOMAIN Callee.reads: Callee.reads[j].key # key
Misanswered == \E kind \in Callee.out: ~Answers(kind, Declaration.ret)

(***************************************************************************)
(* Where the runtime reads other arguments than the declaration has        *)
(***************************************************************************)
Of(module, f) == call.module = module /\ call.func = f
By(key) == key \in DOMAIN call.kws
Has(i, key) == i \in DOMAIN call.args \/ By(key)
(* Members of strings and variadic functions read positions only. *)
KeywordsUnread ==
    \/ call.module = "str" /\ DOMAIN call.kws # {}
    \/ call.module = "builtin" /\ call.func \in {"print", "max", "min", "zip"} /\ DOMAIN call.kws # {}
    \/ Of("builtin", "list") /\ By("x")
    \/ Of("collection", "union_all") /\ By("num")
    \/ Of("math", "pow") /\ By("y")
    \/ Of("math", "log") /\ (By("e") \/ (Len(call.args) > 1 /\ call.args[2] # "float"))
    \/ Of("builtin", "range") /\ (By("stop") \/ By("step"))
(* Positions and parameters nobody reads. *)
ParametersUnread ==
    \/ Of("builtin", "dict") /\ Len(call.args) > 1
    \/ Of("base64", "encode") /\ Has(2, "encoding")
    \/ Of("builtin", "option") /\ Has(5, "help")
(* Without arguments; a modulus with numbers that are not integers. *)
NothingToDo == call.module = "builtin" /\ call.func \in {"max", "min", "zip", "bool"} /\ call.args = <<>>
ModulusOfFloats == Of("builtin", "pow") /\ arg_kind(call, 3, "z") = "int"
(* The answer is of the kind of the argument, or has a list for a match    *)
(* with groups.                                                            *)
AnswersLikeArgument ==
    \/ call.module = "math" /\ call.func \in {"floor", "factorial"} /\ arg_kind(call, 1, "x") = "float"
    \/ Of("regex", "findall")

(* A call the resolver accepts, of values that are not None, is one the    *)
(* runtime's function understands: it misses no argument and takes the     *)
(* kind of each, it reads every argument it is given, and its answer is of *)
(* the kind the declaration says.                                          *)
CallsAsDeclared ==
    /\ KeywordsUnread \/ ParametersUnread \/ ~Ignored
    /\ KeywordsUnread \/ NothingToDo \/ ModulusOfFloats \/ ~NotTaken
    /\ NothingToDo \/ AnswersLikeArgument \/ ~Misanswered
=============================================================================
