------------------------------ MODULE Language ------------------------------
(***************************************************************************)
(* A program is written statement by statement.  A program the resolver    *)
(* accepts is run by the evaluator and by the compiled code, and what the  *)
(* three say of it is compared: the types of the names, and their values   *)
(* in the two backends.                                                    *)
(***************************************************************************)
EXTENDS Checker, SequencesExt

CONSTANTS IntWidth, FloatInf, Letters,   \* see Values
          Statements(_),                 \* the statements that may follow a program
          Resolver(_),                   \* what the resolver finds out about a program (Resolved below)
          Backend(_),                    \* what the evaluator makes of a program ...
          Machine(_)                     \* ... and what the compiled program makes of it

Interp == INSTANCE Evaluator
Native == INSTANCE Compiled

VARIABLES program,   \* the statements so far
          types,     \* the types of the names in scope
          parts,     \* the resolver's node_ty_map: the expressions of the program and their types
          interp,    \* the values of the names in the evaluator
          native     \* their values and cells in the compiled program
vars == <<program, types, parts, interp, native>>

SchemaNames == {<<s>>: s \in DOMAIN Schemas}
Names == DOMAIN interp \ SchemaNames
Stopped == \/ \E n \in Names: Interp!Panics(interp[n])
           \/ \E n \in DOMAIN native.val: Native!Panics(native.val[n])

(***************************************************************************)
(* What the resolver gives an expression: a type, in the scope env.  above *)
(* are the expressions around it.                                          *)
(***************************************************************************)
Part(e, env, above) == [e |-> e, env |-> env, above |-> above]
LoopTypes(target, variables, env) == do_loop_type_check(Check(target, env, <<>>).ty, variables).vars @@ env
ParamTypes(params, env) ==
    [n \in {params[k].name: k \in DOMAIN params} |->
       LET p == params[CHOOSE k \in DOMAIN params: params[k].name = n] IN IF p.ty = <<>> THEN any ELSE p.ty[1]] @@ env
RECURSIVE Clauses(_, _, _)
Clauses(gens, env, above) ==
    IF gens = <<>> THEN {}
    ELSE LET inner == LoopTypes(gens[1].iter, gens[1].targets, env)
         IN  {Part(gens[1].iter, env, above)} \cup {Part(gens[1].ifs[k], inner, above): k \in DOMAIN gens[1].ifs}
             \cup Clauses(Tail(gens), inner, above)
RECURSIVE Items(_, _, _)
Items(items, env, above) ==
    IF items = <<>> THEN {}
    ELSE {Part(items[1].val, env, above)} \cup (IF items[1].kind = "key" THEN {Part(items[1].key, env, above)} ELSE {})
         \cup Items(Tail(items), check_config_entry(items[1], env, <<>>, NoEntries).env, above)
Direct(p) ==
    LET e == p.e
        above == p.above \cup {e}
        in(env, es) == {Part(es[k], env, above): k \in DOMAIN es}
        all(es) == in(p.env, es)
    IN  CASE e.k \in {"un", "as", "sel", "star", "formatted"} -> all(<<e.e>>)
          [] e.k = "bin" -> all(<<e.l, e.r>>)
          [] e.k = "cmp" -> all(<<e.l>> \o e.rs)
          [] e.k = "if" -> all(<<e.cond, e.body, e.orelse>>)
          [] e.k = "sub" -> all(<<e.e, e.i>>)
          [] e.k = "slice" -> all(<<e.e>> \o e.lower \o e.upper \o e.step)
          [] e.k = "call" -> all(<<e.f>> \o e.args \o [k \in DOMAIN e.kws |-> e.kws[k].val])
          [] e.k = "list" -> all(e.elts)
          [] e.k = "listif" -> all(<<e.cond>> \o e.exprs \o e.orelse)
          [] e.k \in {"lcomp", "dcomp"} ->
               Clauses(e.gens, p.env, above)
               \cup in(walk_comp_clauses(e.gens, p.env, <<>>).env, IF e.k = "lcomp" THEN <<e.elt>> ELSE <<e.key, e.val>>)
          [] e.k = "quant" -> all(<<e.target>>) \cup in(LoopTypes(e.target, e.vars, p.env), <<e.test>> \o e.cond)
          [] e.k = "config" -> Items(e.items, p.env, above)
          [] e.k = "configif" -> all(<<e.cond>> \o e.orelse) \cup Items(e.items, p.env, above)
          [] e.k = "schema" -> all(<<Identifier(e.name), e.config>>)
          [] e.k = "lambda" -> in(ParamTypes(e.params, p.env), <<e.body>>)
                               \cup UNION {all(e.params[k].def): k \in DOMAIN e.params}
          [] e.k = "joined" -> all(e.vals)
          [] OTHER -> {}
RECURSIVE Parts(_)
Parts(p) == {p} \cup UNION {Parts(q): q \in Direct(p)}
StatementParts(st, env) ==
    Parts(Part(st.val, env, {}))
    \cup (IF st.s = "aug" THEN Parts(Part(BinaryExpr(st.op, Identifier(st.target), st.val), env, {})) ELSE {})
ProgramParts(stmts, env) == UNION {StatementParts(stmts[k], env): k \in DOMAIN stmts}

(* The resolver sees the whole program again whenever it has changed. *)
Resolved(stmts) ==
    LET checked == CheckProgram(stmts, [n \in SchemaNames |-> schema(n[1], FALSE)])
        typed(p) == [e |-> p.e, env |-> p.env, above |-> p.above, ty |-> Check(p.e, p.env, <<>>).ty]
    IN  [ok |-> checked.ok, env |-> checked.env, parts |-> {typed(p): p \in ProgramParts(stmts, checked.env)}]

(* Both backends walk the statements in order, and read globals lazily: a  *)
(* name that is read before its last setter, as in y = x, is computed      *)
(* first, which walks its setters; the walk comes to the later setter once *)
(* more.  The programs here read a name early in no other way, and the     *)
(* first setter of that name is an assignment.                             *)
SettersOf(stmts, name) == SelectSeq(stmts, LAMBDA st: st.target = name)
ReadsEarly(stmts, k) ==
    /\ stmts[k].val.k = "id" /\ stmts[k].target # stmts[k].val.name
    /\ \E m \in DOMAIN stmts: m > k /\ stmts[m].target = stmts[k].val.name
Walked(stmts) ==
    FlattenSeq([k \in DOMAIN stmts |->
        (IF ReadsEarly(stmts, k) THEN SettersOf(stmts, stmts[k].val.name) ELSE <<>>) \o <<stmts[k]>>])

NoValues == [n \in SchemaNames |-> Interp!SchemaFuncV(n[1])]
NoCells == [val |-> [n \in SchemaNames |-> Native!kclvm_value_schema_function(n[1])],
            rc |-> [n \in SchemaNames |-> 0], next |-> 1]
Interpreted(stmts) == LET after == Interp!walk_stmts(Walked(stmts), NoValues) IN after
Executed(stmts) == LET after == Native!walk_stmts(Walked(stmts), NoCells) IN after

-----------------------------------------------------------------------------
Init == /\ program = <<>>
        /\ types = [n \in SchemaNames |-> schema(n[1], FALSE)]
        /\ parts = {}
        /\ interp = NoValues
        /\ native = NoCells

Accept(stmt, resolved) ==
    /\ resolved.ok
    /\ program' = Append(program, stmt)
    /\ types' = resolved.env
    /\ parts' = resolved.parts
    /\ interp' = Backend(program')
    /\ native' = Machine(program')
Write(stmt) == ~Stopped /\ Accept(stmt, Resolver(Append(program, stmt)))

Next == \E stmt \in Statements(program): Write(stmt)
Spec == Init /\ [][Next]_vars

(***************************************************************************)
(* What a type promises of a value.  None and Undefined belong to every    *)
(* type.                                                                   *)
(***************************************************************************)
RECURSIVE Conforms(_, _)
Conforms(v, ty) ==
    \/ Interp!IsNullish(v)
    \/ CASE is_any(ty) -> TRUE
         [] is_none(ty) -> FALSE
         [] ty.k \in {"bool", "int", "str"} -> v.k = ty.k
         [] ty.k = "float" -> v.k \in {"int", "float"}
         [] ty.k = "bool_lit" -> v = Interp!BoolV(ty.b)
         [] ty.k = "int_lit" -> v = Interp!IntV(ty.i)
         [] ty.k = "float_lit" -> v = Interp!FloatV(ty.f)
         [] ty.k = "str_lit" -> v = Interp!StrV(ty.s)
         [] is_number_multiplier(ty) -> v.k = "unit" /\ (ty.lit => v = Interp!UnitV(ty.raw, ty.suffix))
         [] is_list(ty) -> v.k = "list" /\ \A i \in DOMAIN v.items: Conforms(v.items[i], ty.item)
         [] is_dict(ty) -> v.k \in {"dict", "schema"} /\ \A i \in DOMAIN v.es: Conforms(v.es[i].val, ty.val)
         [] is_schema(ty) -> IF ty.inst THEN v.k = "schema" /\ is_sub_schema_of(v.name, ty.name)
                             ELSE v.k \in {"func", "schema"}
         [] is_func(ty) -> v.k = "func"
         [] is_union(ty) -> \E i \in DOMAIN ty.types: Conforms(v, ty.types[i])

(***************************************************************************)
(* Where the resolver says more than the program keeps.                    *)
(***************************************************************************)
TypeOf(e, env) == (CHOOSE q \in parts: q.e = e /\ q.env = env).ty

(* A value of any type, and None, may turn up anywhere. *)
RECURSIVE HasAny(_)
HasAny(ty) == \/ is_any(ty)
              \/ is_list(ty) /\ HasAny(ty.item)
              \/ is_dict(ty) /\ HasAny(ty.val)
              \/ is_union(ty) /\ \E k \in DOMAIN ty.types: HasAny(ty.types[k])
UsesAny == \E p \in parts: HasAny(p.ty)
UsesNone == \E p \in parts: p.e.k = "const" /\ p.e.c \in {"None", "Undefined"}

Binary(p, ops) == p.e.k = "bin" /\ p.e.op \in ops
Left(p) == TypeOf(p.e.l, p.env)
Right(p) == TypeOf(p.e.r, p.env)
Operand(p) == TypeOf(p.e.e, p.env)
(* `and' is a bool, `not' is of its operand's type, the quotient of two    *)
(* integers is an integer and so is every remainder.                       *)
ResultMistyped(p) ==
    \/ Binary(p, {"and"}) /\ ~(is_bool(Left(p)) /\ is_bool(Right(p)))
    \/ p.e.k = "un" /\ p.e.op = "not" /\ ~is_bool(Operand(p))
    \/ p.e.k = "un" /\ p.e.op = "~" /\ ~is_int(Operand(p))
    \/ Binary(p, {"/"}) /\ ~is_float(Left(p)) /\ ~is_float(Right(p))
    \/ Binary(p, {"%"}) /\ ~(is_int(Left(p)) /\ is_int(Right(p)))
(* A boolean literal passes for a float, an integer for a float literal,   *)
(* a negated literal for the literal, and a string that contains the name  *)
(* of a type for that type.                                                *)
Annotated(tys) == \E k \in DOMAIN program: program[k].s = "assign" /\ program[k].ty # <<>> /\ program[k].ty[1].k \in tys
LiteralKinds == {p.ty.k: p \in parts}
LiteralPasses ==
    \/ "bool_lit" \in LiteralKinds /\ (Annotated({"float"}) \/ LiteralKinds \cap {"float", "float_lit"} # {})
    \/ Annotated({"float_lit"})
    \/ \E p \in parts: p.e.k = "un" /\ is_literal(Operand(p)) /\ Annotated({"int_lit", "float_lit", "union"})
    \/ \E p \in parts: p.e.k = "str" /\ \E k \in DOMAIN p.e.s: Annotated({p.e.s[k]})
(* A configuration merged into a name that holds None stays a dictionary. *)
MergedIntoNone == UsesNone /\ \E p \in parts: Binary(p, {"|"}) \/ p.e.k = "schema"
(* A loop over a schema knows the type of the index signature only. *)
IsIndexed(ty) == is_schema(ty) /\ Indexed(Schemas[ty.name])
SomeType(e, Test(_)) == \E q \in parts: q.e = e /\ Test(q.ty)
LoopsOverIndexed(p) == \/ p.e.k \in {"lcomp", "dcomp"} /\ \E k \in DOMAIN p.e.gens: SomeType(p.e.gens[k].iter, IsIndexed)
                       \/ p.e.k = "quant" /\ IsIndexed(TypeOf(p.e.target, p.env))
(* A keyword argument is not converted to the type of its parameter. *)
KeywordConfig(p) == p.e.k = "call" /\ \E k \in DOMAIN p.e.kws: p.e.kws[k].val.k = "config"
(* A schema instance unified into a name gives its type to earlier readers. *)
UnifiedLater == \E k, m \in DOMAIN program: k < m /\ program[m].s = "unify" /\ program[k].s # "unify"

(* What is known at compile time holds when the program runs: the value    *)
(* the evaluator gives to a name belongs to the type the resolver gave it. *)
TypesSound == \/ LiteralPasses \/ MergedIntoNone \/ UnifiedLater
              \/ \E p \in parts: ResultMistyped(p) \/ LoopsOverIndexed(p) \/ KeywordConfig(p)
              \/ \A n \in Names: Interp!Panics(interp[n]) \/ Conforms(interp[n], types[n])

(* The last operand of a chain of comparisons is not looked at; a filter   *)
(* takes items out of lists and dictionaries only; what is merged into a   *)
(* schema or inserted into a list is not compared with it; a dictionary    *)
(* that has a name passes for a schema.                                    *)
ComparesChain(p) == p.e.k = "cmp" /\ Len(p.e.ops) > 1
FiltersOther(p) == p.e.k = "quant" /\ p.e.op = "filter" /\ ~is_list(TypeOf(p.e.target, p.env)) /\ ~is_dict(TypeOf(p.e.target, p.env))
Inside(q, e) == q.e = e \/ e \in q.above
MergesUnchecked(p) == Binary(p, {"|"}) /\ (is_schema(Left(p)) \/ \E q \in parts:
                        Inside(q, p.e.r) /\ q.e.k = "config" /\ \E k \in DOMAIN q.e.items: q.e.items[k].kind = "name" /\ q.e.items[k].op = "insert")
NamedDict(p) == p.e.k = "id" /\ is_dict(p.ty)
DictForSchema(p) == p.e.k = "schema" /\ \E q \in parts: Inside(q, p.e) /\ NamedDict(q)
(* A program the resolver accepts, of values whose types it knows, does    *)
(* not stop with a type error: no operator, member, call, conversion or    *)
(* schema instance of the runtime meets a kind of value it rejects.        *)
NoTypeError == \/ UsesAny \/ UsesNone \/ LiteralPasses
               \/ \E p \in parts: \/ p.e.k = "as" \/ ComparesChain(p) \/ FiltersOther(p)
                                         \/ MergesUnchecked(p) \/ DictForSchema(p)
               \/ \A n \in Names: interp[n] # Interp!TypeError

(***************************************************************************)
(* The two backends                                                        *)
(***************************************************************************)
RECURSIVE Agree(_, _)
Agree(v, w) ==
    CASE v.k = "func" -> w.k = "func" /\ (Interp!IsSchemaFunc(v) \/ v.node = w.node)
      [] v.k = "list" /\ w.k = "list" -> /\ DOMAIN v.items = DOMAIN w.items
                                         /\ \A k \in DOMAIN v.items: Agree(v.items[k], w.items[k])
      [] Interp!IsConfig(v) /\ v.k = w.k ->
            /\ DOMAIN v.es = DOMAIN w.es
            /\ \A k \in DOMAIN v.es: /\ [v.es[k] EXCEPT !.val = 0] = [w.es[k] EXCEPT !.val = 0]
                                     /\ Agree(v.es[k].val, w.es[k].val)
      [] OTHER -> v = w

(* An update of compiled code keeps the kind of the value, the evaluator   *)
(* gives the target a new one.                                             *)
BoundTo(n, k) == \E m \in DOMAIN program: program[m].target = n /\ program[m].val = Identifier(program[k].target)
KeepsKind(n) ==
    \E k \in DOMAIN program:
        LET left == types[program[k].target]
            right == TypeOf(program[k].val, types)
        IN  /\ program[k].s = "aug" /\ (program[k].target = n \/ BoundTo(n, k))
            /\ \/ program[k].op \in {"/", "//"} \/ is_float(right) \/ is_any(left) \/ is_any(right)
               \/ program[k].op = "*" /\ ~(is_number(left) /\ is_number(right))
(* It changes the value of every name that shares the target's cell. *)
UpdatedAlong(n) ==
    \E m, k \in DOMAIN program:
        /\ m < k /\ program[m].target = n /\ program[k].s # "assign" /\ program[k].target # n
        /\ n \in DOMAIN native.rc /\ native.rc[n] = native.rc[program[k].target]
(* A name updated by itself is borrowed twice. *)
UpdatedByItself(k) == program[k].s = "aug" /\ program[k].op # "|" /\ program[k].val = Identifier(program[k].target)

(* Compiled code takes a local name for equal to itself, counts the bytes  *)
(* of a string it walks over, tests one condition of a clause, and makes   *)
(* the text of a number a key.                                             *)
ComparesItself(p) ==
    p.e.k = "cmp" /\ \E k \in DOMAIN p.e.rs: LET e == p.e.rs[k] IN
        e.k = "id" /\ e.name \notin Names /\ e = (<<p.e.l>> \o p.e.rs)[k]
LoopsOverWide(p) == /\ p.e.k \in {"lcomp", "dcomp", "quant"}
                    /\ \E q \in parts: q.e.k = "str" /\ Interp!Bytes(q.e.s) > Len(q.e.s)
SeveralConditions(p) == p.e.k \in {"lcomp", "dcomp"} /\ \E k \in DOMAIN p.e.gens: Len(p.e.gens[k].ifs) > 1
IsNotStr(ty) == ~is_str(ty)
KeyNotString(p) ==
    \/ p.e.k \in {"dcomp", "config"} /\ UsesNone
    \/ p.e.k = "dcomp" /\ SomeType(p.e.key, IsNotStr)
    \/ p.e.k = "config" /\ \E k \in DOMAIN p.e.items: p.e.items[k].kind = "key" /\ SomeType(p.e.items[k].key, IsNotStr)
(* The evaluator and the compiled code give the names of a program the     *)
(* same values, and stop at the same statement; but compiled code stops at *)
(* the update of a name by itself, and a name bound to one that is updated *)
(* afterwards goes along with it.                                          *)
BackendsAgree ==
    \/ \E p \in parts: ComparesItself(p) \/ LoopsOverWide(p) \/ SeveralConditions(p) \/ KeyNotString(p)
    \/ \E k \in DOMAIN program: UpdatedByItself(k) /\ native.val[program[k].target] = Native!BorrowError
    \/ \A n \in Names \cup (DOMAIN native.val \ SchemaNames):
          \/ KeepsKind(n) \/ UpdatedAlong(n)
          \/ n \in Names \cap DOMAIN native.val /\ Agree(interp[n], native.val[n])
=============================================================================
