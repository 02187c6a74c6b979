------------------------------ MODULE Declared ------------------------------
(***************************************************************************)
(* What the checker knows of the functions that are not written in the     *)
(* language: the builtin functions, the members of the system modules and  *)
(* the member functions of strings (sema/src/builtin).  The checker never  *)
(* looks at the runtime that implements them.                              *)
(***************************************************************************)
EXTENDS Types, TLC

P(name, ty) == [name |-> <<name>>, ty |-> ty, def |-> FALSE]
O(name, ty) == [name |-> <<name>>, ty |-> ty, def |-> TRUE]
Fn(params, return_ty) == function(params, return_ty, FALSE)
Variadic(params, return_ty) == function(params, return_ty, TRUE)
Ignoring == <<O("ignore_private", bool), O("ignore_none", bool)>>

base64_members ==
   [encode |-> Fn(<<P("value", str), O("encoding", str)>>, str),
    decode |-> Fn(<<P("value", str)>>, str)]

net_addresses ==
   [split_host_port |-> Fn(<<P("ip_end_point", str)>>, list(str)),
    join_host_port |-> Fn(<<P("host", str), P("port", union(<<int, str>>))>>, str),
    fqdn |-> Fn(<<O("name", str)>>, str),
    parse_IP |-> Fn(<<P("ip", str)>>, str),
    IP_string |-> Fn(<<P("ip", str)>>, str),
    to_IP4 |-> Fn(<<P("ip", str)>>, str),
    to_IP16 |-> Fn(<<P("ip", str)>>, str)]

net_kinds ==
   [is_IPv4 |-> Fn(<<P("ip", str)>>, bool),
    is_IP |-> Fn(<<P("ip", str)>>, bool),
    is_loopback_IP |-> Fn(<<P("ip", str)>>, bool),
    is_multicast_IP |-> Fn(<<P("ip", str)>>, bool),
    is_interface_local_multicast_IP |-> Fn(<<P("ip", str)>>, bool),
    is_link_local_multicast_IP |-> Fn(<<P("ip", str)>>, bool),
    is_link_local_unicast_IP |-> Fn(<<P("ip", str)>>, bool)]

net_blocks ==
   [is_global_unicast_IP |-> Fn(<<P("ip", str)>>, bool),
    is_unspecified_IP |-> Fn(<<P("ip", str)>>, bool),
    parse_CIDR |-> Fn(<<P("cidr", str)>>, dict(str, any)),
    hosts_in_CIDR |-> Fn(<<P("cidr", str)>>, list(str)),
    subnets_from_CIDR |-> Fn(<<P("cidr", str)>>, list(str)),
    is_IP_in_CIDR |-> Fn(<<P("ip", str), P("cidr", str)>>, bool)]

manifests_members ==
   [yaml_stream |-> Fn(<<P("values", any), O("opts", dict(str, any))>>, any)]

math_integers ==
   [ceil |-> Fn(<<P("x", number)>>, int),
    factorial |-> Fn(<<P("x", number)>>, int),
    floor |-> Fn(<<P("x", number)>>, int),
    gcd |-> Fn(<<P("a", int), P("b", int)>>, int),
    isfinite |-> Fn(<<P("x", number)>>, bool),
    isinf |-> Fn(<<P("x", number)>>, bool),
    isnan |-> Fn(<<P("x", number)>>, bool),
    modf |-> Fn(<<P("x", number)>>, list(float))]

math_reals ==
   [exp |-> Fn(<<P("x", number)>>, float),
    expm1 |-> Fn(<<P("x", number)>>, float),
    log |-> Fn(<<P("x", number), O("e", float)>>, float),
    log1p |-> Fn(<<P("x", number)>>, float),
    log2 |-> Fn(<<P("x", number)>>, float),
    log10 |-> Fn(<<P("x", number)>>, float),
    pow |-> Fn(<<P("x", number), P("y", number)>>, float),
    sqrt |-> Fn(<<P("x", number)>>, float)]

datetime_members ==
   [ticks |-> Fn(<<>>, float),
    date |-> Fn(<<>>, str),
    now |-> Fn(<<O("format", str)>>, str),
    today |-> Fn(<<>>, str),
    validate |-> Fn(<<P("date", str), P("format", str)>>, bool)]

regex_patterns ==
   [replace |-> Fn(<<P("string", str), P("pattern", str), P("replace", str), O("count", int)>>, str),
    match |-> Fn(<<P("string", str), P("pattern", str)>>, bool),
    compile |-> Fn(<<P("pattern", str)>>, bool)]

regex_searches ==
   [findall |-> Fn(<<P("string", str), P("pattern", str)>>, list(str)),
    search |-> Fn(<<P("string", str), P("pattern", str)>>, bool),
    split |-> Fn(<<P("string", str), P("pattern", str), O("maxsplit", int)>>, list(str))]

yaml_codecs ==
   [encode |-> Fn(<<P("data", any), O("sort_keys", bool)>> \o Ignoring, str),
    encode_all |-> Fn(<<P("data", list(any)), O("sort_keys", bool)>> \o Ignoring, str),
    decode |-> Fn(<<P("value", str)>>, any),
    decode_all |-> Fn(<<P("value", str)>>, list(any))]

yaml_files ==
   [dump_to_file |-> Fn(<<P("data", any), P("filename", str), O("sort_keys", bool)>> \o Ignoring, str),
    dump_all_to_file |-> Fn(<<P("data", list(any)), P("filename", str), O("sort_keys", bool)>> \o Ignoring, str),
    validate |-> Fn(<<P("value", str)>>, bool)]

json_members ==
   [encode |-> Fn(<<P("data", any), O("sort_keys", bool), O("indent", int)>> \o Ignoring, str),
    decode |-> Fn(<<P("value", str)>>, any),
    dump_to_file |-> Fn(<<P("data", any), P("filename", str), O("sort_keys", bool), O("indent", int)>> \o Ignoring, str),
    validate |-> Fn(<<P("value", str)>>, bool)]

crypto_digests ==
   [md5 |-> Fn(<<P("value", str), O("encoding", str)>>, str),
    sha1 |-> Fn(<<P("value", str), O("encoding", str)>>, str),
    sha224 |-> Fn(<<P("value", str), O("encoding", str)>>, str),
    sha256 |-> Fn(<<P("value", str), O("encoding", str)>>, str),
    sha384 |-> Fn(<<P("value", str), O("encoding", str)>>, str)]

crypto_rest ==
   [sha512 |-> Fn(<<P("value", str), O("encoding", str)>>, str),
    blake3 |-> Fn(<<P("value", str), O("encoding", str)>>, str),
    uuid |-> Fn(<<>>, str),
    filesha256 |-> Fn(<<P("filepath", str)>>, str)]

units_decimal ==
   [n |-> int, u |-> int, m |-> int, k |-> int, K |-> int, M |-> int, G |-> int, T |-> int, P |-> int,
    Ki |-> int, Mi |-> int, Gi |-> int, Ti |-> int, Pi |-> int,
    to_n |-> Fn(<<P("num", number)>>, str),
    to_u |-> Fn(<<P("num", number)>>, str),
    to_m |-> Fn(<<P("num", number)>>, str),
    to_K |-> Fn(<<P("num", number)>>, str),
    to_M |-> Fn(<<P("num", number)>>, str),
    to_G |-> Fn(<<P("num", number)>>, str),
    to_T |-> Fn(<<P("num", number)>>, str)]

units_binary ==
   [to_P |-> Fn(<<P("num", number)>>, str),
    to_Ki |-> Fn(<<P("num", number)>>, str),
    to_Mi |-> Fn(<<P("num", number)>>, str),
    to_Gi |-> Fn(<<P("num", number)>>, str),
    to_Ti |-> Fn(<<P("num", number)>>, str),
    to_Pi |-> Fn(<<P("num", number)>>, str)]

collection_members ==
   [union_all |-> Fn(<<P("num", list(any))>>, any)]

file_queries ==
   [read |-> Fn(<<P("filepath", str)>>, str),
    glob |-> Fn(<<P("pattern", str)>>, list(str)),
    modpath |-> Fn(<<>>, str),
    workdir |-> Fn(<<>>, str),
    current |-> Fn(<<>>, str),
    exists |-> Fn(<<P("filepath", str)>>, bool),
    abs |-> Fn(<<P("filepath", str)>>, str),
    append |-> Fn(<<P("filepath", str), P("content", str)>>, any)]

file_changes ==
   [mkdir |-> Fn(<<P("directory", str), O("exists", bool)>>, any),
    delete |-> Fn(<<P("filepath", str)>>, any),
    cp |-> Fn(<<P("src", str), P("dest", str)>>, any),
    mv |-> Fn(<<P("src", str), P("dest", str)>>, any),
    size |-> Fn(<<P("filepath", str)>>, int),
    write |-> Fn(<<P("filepath", str), P("content", str)>>, any),
    read_env |-> Fn(<<P("key", str)>>, str)]

template_members ==
   [execute |-> Fn(<<P("template", str), O("data", dict(str, any))>>, str),
    html_escape |-> Fn(<<P("data", str)>>, str)]

runtime_members ==
   [catch |-> Fn(<<P("func", function(<<>>, any, FALSE))>>, str)]

builtin_checks ==
   [option |-> Fn(<<P("key", str), O("type", str), O("required", bool), O("default", any),
                    O("help", str)>>, any),
    print |-> Variadic(<<>>, none),
    multiplyof |-> Fn(<<P("a", int), P("b", int)>>, bool),
    isunique |-> Fn(<<P("inval", list(any))>>, bool),
    isnullish |-> Fn(<<P("inval", any)>>, bool),
    len |-> Fn(<<P("inval", iterable)>>, int),
    abs |-> Fn(<<P("inval", any)>>, any)]

builtin_texts ==
   [all_true |-> Fn(<<P("inval", list(any))>>, bool),
    any_true |-> Fn(<<P("inval", list(any))>>, bool),
    hex |-> Fn(<<P("number", int)>>, str),
    bin |-> Fn(<<P("number", int)>>, str),
    oct |-> Fn(<<P("number", int)>>, str),
    ord |-> Fn(<<P("c", str)>>, int),
    sorted |-> Fn(<<P("inval", iterable), O("reverse", bool)>>, list(any))]

builtin_numbers ==
   [range |-> Fn(<<O("start", int), O("stop", int), O("step", int)>>, list(int)),
    max |-> Variadic(<<>>, any),
    min |-> Variadic(<<>>, any),
    sum |-> Fn(<<P("iterable", list(any)), O("start", any)>>, any),
    pow |-> Fn(<<P("x", number), P("y", number), O("z", number)>>, number),
    round |-> Fn(<<P("number", number), O("ndigits", int)>>, number),
    zip |-> Variadic(<<>>, list(any))]

builtin_conversions ==
   [int |-> Fn(<<P("number", any), O("base", int)>>, int),
    float |-> Fn(<<P("number", any)>>, float),
    bool |-> Fn(<<O("x", any)>>, bool),
    str |-> Fn(<<O("x", any)>>, str),
    list |-> Fn(<<O("x", any)>>, list(any)),
    dict |-> Variadic(<<O("x", any)>>, dict(any, any)),
    typeof |-> Fn(<<P("x", any), O("full_name", bool)>>, str)]

BUILTIN_FUNCTIONS == builtin_checks @@ builtin_texts @@ builtin_numbers @@ builtin_conversions

string_searches ==
   [capitalize |-> Fn(<<>>, str),
    chars |-> Fn(<<>>, list(str)),
    count |-> Fn(<<P("sub", str), O("start", int), O("end", int)>>, int),
    endswith |-> Fn(<<P("val", str), O("start", int), O("end", int)>>, bool),
    find |-> Fn(<<P("sub", str), O("start", int), O("end", int)>>, int),
    format |-> Variadic(<<>>, str),
    index |-> Fn(<<P("sub", str), O("start", int), O("end", int)>>, int)]

string_classes ==
   [isalpha |-> Fn(<<>>, bool),
    isalnum |-> Fn(<<>>, bool),
    isdigit |-> Fn(<<>>, bool),
    islower |-> Fn(<<>>, bool),
    isspace |-> Fn(<<>>, bool),
    istitle |-> Fn(<<>>, bool),
    isupper |-> Fn(<<>>, bool),
    join |-> Fn(<<P("iter", list(any))>>, str),
    lower |-> Fn(<<>>, str),
    upper |-> Fn(<<>>, str),
    lstrip |-> Fn(<<O("chars", str)>>, str),
    rstrip |-> Fn(<<O("chars", str)>>, str),
    replace |-> Fn(<<P("old", str), P("new", str), O("count", int)>>, str)]

string_cuts ==
   [removeprefix |-> Fn(<<P("prefix", str)>>, str),
    removesuffix |-> Fn(<<P("suffix", str)>>, str),
    rfind |-> Fn(<<P("sub", str), O("start", int), O("end", int)>>, int),
    rindex |-> Fn(<<P("sub", str), O("start", int), O("end", int)>>, int),
    rsplit |-> Fn(<<O("sep", str), O("maxsplit", int)>>, list(str)),
    split |-> Fn(<<O("sep", str), O("maxsplit", int)>>, list(str))]

string_rest ==
   [splitlines |-> Fn(<<O("keepends", bool)>>, list(str)),
    startswith |-> Fn(<<P("val", str), O("start", int), O("end", int)>>, bool),
    strip |-> Fn(<<O("chars", str)>>, str),
    title |-> Fn(<<>>, str)]

STRING_MEMBER_FUNCTIONS ==
    string_searches @@ string_classes @@ string_cuts @@ string_rest

get_system_module(module) ==
    CASE module = "base64" -> base64_members
      [] module = "net" -> net_addresses @@ net_kinds @@ net_blocks
      [] module = "manifests" -> manifests_members
      [] module = "math" -> math_integers @@ math_reals
      [] module = "datetime" -> datetime_members
      [] module = "regex" -> regex_patterns @@ regex_searches
      [] module = "yaml" -> yaml_codecs @@ yaml_files
      [] module = "json" -> json_members
      [] module = "crypto" -> crypto_digests @@ crypto_rest
      [] module = "units" -> units_decimal @@ units_binary
      [] module = "collection" -> collection_members
      [] module = "file" -> file_queries @@ file_changes
      [] module = "template" -> template_members
      [] module = "runtime" -> runtime_members

(* A name that is not declared is of any type: what is missing is reported *)
(* from the list of the module's names.                                    *)
get_system_member_function_ty(module, func) ==
    LET types == get_system_module(module) IN IF func \in DOMAIN types THEN types[func] ELSE any
=============================================================================
