---------------------------- MODULE SchemaEval ----------------------------
(* How the evaluator instantiates schemas. Every schema has one evaluation   *)
(* context; an instance is computed in a snapshot of it, but the bodies of   *)
(* the parent and of the mixins run in their own contexts, after these have  *)
(* been pointed at the instance. Attributes are lazy in every context. One   *)
(* step of the specification is one schema expression of the main package.   *)
EXTENDS LazyScope

CONSTANTS
    Undefined,
    MaxInstances,   \* schema expressions of the main package
    MaxDepth        \* schema bodies that run within one another

VARIABLES
    schemas,    \* the schemas: parent (or None), mixins and body of each
    ev,         \* the state of the evaluator
    made        \* the instances so far: schema, config and value of each

vars == <<schemas, ev, made>>

(* Expressions: a number, the sum of an attribute and a number, and the      *)
(* attribute of a new instance. An attribute may be declared without a       *)
(* default.                                                                  *)
Number(n) == [kind |-> "number", n |-> n]
NamePlus(y, n) == [kind |-> "name", y |-> y, n |-> n]
New(i, config, y) == [kind |-> "new", schema |-> i, config |-> config, y |-> y]
Attr(x, e) == [kind |-> "attr", x |-> x, e |-> e]
Assign(x, e) == [kind |-> "assign", x |-> x, e |-> e]
AugAssign(x, e) == [kind |-> "aug", x |-> x, e |-> e]
HasDefault(stmt) == stmt.e # None

(* A config maps names to a value and an operator: x: 1 unites, x = 1        *)
(* overrides.                                                                *)
Entry(v, op) == [v |-> v, op |-> op]
NoConfig == Empty
-----------------------------------------------------------------------------
(* Contexts 1..Len(schemas) are those of the schemas, further ones snapshots.*)
(* The value of a context is a reference to a dict in the heap.              *)
NewCtx(i, value, config) ==
    [schema |-> i, value |-> value, config |-> config, scope |-> NewScope(NoSetters(Names)),
     has_scope |-> FALSE, is_sub_schema |-> TRUE]

Ctx(st) == st.ctxs[Last(st.schema_stack)]
dict_get_value(st, h, x) == Lookup(st.heap[h], x, Undefined)

Result(st, v) == [st |-> st, v |-> v]
Panicked(st) == [st EXCEPT !.panicked = TRUE]
Add(r, v) ==
    IF r.v = Undefined \/ v = Undefined THEN Result(Panicked(r.st), Undefined)
    ELSE Result(r.st, r.v + v)

(* borrow_mut() of a context that is borrowed panics. *)
BorrowMut(st, c) == IF c \in st.borrowed THEN Panicked(st) ELSE st
-----------------------------------------------------------------------------
(* The lazy scope of an instance: the setters of the parent, of the schema   *)
(* and of the mixins, which also define the attributes. The contexts of the  *)
(* parent and the mixins get fresh scopes on the way.                        *)

merge_variables(dict, setters) ==
    dict @@ [x \in {y \in Names : setters[y] # <<>>} |-> Undefined]

MergeScope(st, c, setters) ==
    [st EXCEPT !.ctxs[c].scope.setters = merge_setters(@, setters),
               !.heap[st.ctxs[c].value] = merge_variables(@, setters)]

RECURSIVE init_lazy_scope(_, _)
init_lazy_scope(st, c) ==
    LET s == schemas[st.ctxs[c].schema]
        own == emit_setters(s.body, st.ctxs[c].schema)
        fresh == [BorrowMut(st, c) EXCEPT !.ctxs[c].scope = NewScope(NoSetters(Names)),
                                          !.ctxs[c].has_scope = TRUE]
        With(t, i) == LET u == init_lazy_scope(t, i) IN MergeScope(u, c, u.ctxs[i].scope.setters)
        parent == IF s.parent = None THEN fresh ELSE With(fresh, s.parent) IN
    FoldLeft(With, MergeScope(parent, c, own), s.mixins)

(* Mutant: the scope of the parent starts empty. *)
SetInfoKeepsScope(st, i, c) ==
    LET other == st.ctxs[c] IN
    [BorrowMut(st, i) EXCEPT
        !.ctxs[i].value = other.value, !.ctxs[i].config = other.config,
        !.ctxs[i].is_sub_schema = FALSE]

(* The context of schema i is pointed at the instance of context c, with a   *)
(* copy of its scope.                                                        *)
set_info_with_schema(st, i, c) ==
    LET other == st.ctxs[c] IN
    [BorrowMut(st, i) EXCEPT
        !.ctxs[i].value = other.value, !.ctxs[i].config = other.config,
        !.ctxs[i].is_sub_schema = FALSE, !.ctxs[i].has_scope = @ \/ other.has_scope,
        !.ctxs[i].scope = IF other.has_scope THEN other.scope ELSE @]
-----------------------------------------------------------------------------
(* Statements of a body. *)

(* The union with a config entry: the config wins. *)
WithConfig(dict, config, x) == IF x \in DOMAIN config THEN Insert(dict, x, config[x].v) ELSE dict

(* The lazy scope of the running body learns of the write. *)
set_value(st, x) ==
    LET c == Last(st.schema_stack) IN
    [st EXCEPT !.ctxs[c].scope =
        SetValue(@, x, st.ast_id, dict_get_value(st, st.ctxs[c].value, x))]

Push(s, e) == Append(s, e)
Pop(s) == Front(s)

RECURSIVE get_value(_, _), schema_body(_, _), walk_stmt(_, _, _), walk_schema_expr(_, _, _)

walk_expr(st, e) ==
    CASE e.kind = "number" -> Result(st, e.n)
      [] e.kind = "name" -> IF e.n = 0 THEN get_value(st, e.y) ELSE Add(get_value(st, e.y), e.n)
      [] e.kind = "new" ->
            LET r == walk_schema_expr(st, e.schema, e.config) IN
            Result(r.st, dict_get_value(r.st, r.v, e.y))

(* An attribute. Value and config are taken before the default is computed;  *)
(* an override in the config skips it. Without a default an existing value   *)
(* stays.                                                                    *)
walk_schema_attr(st, stmt) ==
    LET x == stmt.x
        h == Ctx(st).value
        config == Ctx(st).config
        is_override == x \in DOMAIN config /\ config[x].op = "override"
        at == [st EXCEPT !.target_vars = Push(@, x)]
        r == IF HasDefault(stmt) /\ ~is_override THEN walk_expr(at, stmt.e) ELSE Result(at, Undefined)
        dict == r.st.heap[h]
        default == IF HasDefault(stmt) /\ ~is_override THEN Insert(dict, x, r.v)
                   ELSE IF x \in DOMAIN dict THEN dict ELSE Insert(dict, x, Undefined)
        stored == [r.st EXCEPT !.heap[h] = WithConfig(default, config, x)] IN
    [set_value(stored, x) EXCEPT !.target_vars = Pop(@)]

(* An assignment stores and unites with the config. *)
update_schema_or_rule_scope_value(st, x, v) ==
    set_value([st EXCEPT !.heap[Ctx(st).value] = WithConfig(Insert(@, x, v), Ctx(st).config, x)], x)

walk_assign_stmt(st, stmt) ==
    LET r == walk_expr([st EXCEPT !.target_vars = Push(@, stmt.x)], stmt.e) IN
    [update_schema_or_rule_scope_value(r.st, stmt.x, r.v) EXCEPT !.target_vars = Pop(@)]

walk_aug_assign_stmt(st, stmt) ==
    LET r == walk_expr([st EXCEPT !.target_vars = Push(@, stmt.x)], stmt.e)
        sum == Add(get_value(r.st, stmt.x), r.v) IN
    [update_schema_or_rule_scope_value(sum.st, stmt.x, sum.v) EXCEPT !.target_vars = Pop(@)]

walk_stmt(st, stmt, id) ==
    LET at == [st EXCEPT !.ast_id = id] IN
    IF st.panicked THEN st
    ELSE CASE stmt.kind = "attr" -> walk_schema_attr(at, stmt)
           [] stmt.kind = "assign" -> walk_assign_stmt(at, stmt)
           [] stmt.kind = "aug" -> walk_aug_assign_stmt(at, stmt)

(* A setter is walked in the context of the running body, with the context   *)
(* of its schema borrowed.                                                   *)
walk_schema_stmts_with_setter(st, setter) ==
    [walk_stmt([st EXCEPT !.borrowed = @ \cup {setter.index}],
               schemas[setter.index].body[setter.stmt], setter.stmt_id)
        EXCEPT !.borrowed = st.borrowed]

(* The value of an attribute, with the context of the running body borrowed. *)
get_value(st, x) ==
    LET c == Last(st.schema_stack)
        scope == st.ctxs[c].scope
        value == dict_get_value(st, st.ctxs[c].value, x)
        target == IF st.target_vars = <<>> THEN None ELSE Last(st.target_vars) IN
    IF st.panicked \/ IsInPlace(scope, x, target) THEN Result(st, value)
    ELSE IF IsCached(scope, x) THEN Result(st, scope.cache[x])
    ELSE IF scope.setters[x] = <<>> THEN Result(st, value)
    ELSE LET setter == NextSetter(scope, x)
             raised == [st EXCEPT !.ctxs[c].scope = Raised(@, x)] IN
         IF setter = None THEN Result(raised, value)
         ELSE LET held == [raised EXCEPT !.borrowed = @ \cup {c}]
                  walked == walk_schema_stmts_with_setter(held, setter)
                  v == dict_get_value(walked, st.ctxs[c].value, x)
                  lowered == WithLevel(walked.ctxs[c].scope, x, Level(scope, x)) IN
              Result([walked EXCEPT !.ctxs[c].scope = Cache(lowered, x, v),
                                    !.borrowed = st.borrowed], v)
-----------------------------------------------------------------------------
(* The body of a schema. *)

WalkBody(st, i) ==
    FoldLeft(LAMBDA t, k : walk_stmt(t, schemas[i].body[k], <<i, k>>), st,
             [k \in 1..Len(schemas[i].body) |-> k])

(* The body of the parent or of a mixin runs for the instance of context c. *)
call_schema_body(st, i, c) == schema_body(set_info_with_schema(st, i, c), i)

(* A config may only name attributes that the schema has. *)
RelaxedCheck(st, c) ==
    IF DOMAIN st.ctxs[c].config \subseteq DOMAIN st.heap[st.ctxs[c].value] THEN st ELSE Panicked(st)

(* The parent first, then the own statements, then the mixins; c is borrowed *)
(* while the bodies of others run. The instance itself is checked at the end.*)
schema_body(st, c) ==
    LET s == schemas[st.ctxs[c].schema]
        started == IF st.ctxs[c].is_sub_schema THEN init_lazy_scope(st, c) ELSE st
        Held(t) == [t EXCEPT !.borrowed = @ \cup {c}]
        based == IF s.parent = None THEN started
                 ELSE [call_schema_body(Held(started), s.parent, c) EXCEPT !.borrowed = st.borrowed]
        own == WalkBody([based EXCEPT !.schema_stack = Push(@, c)], st.ctxs[c].schema)
        mixed == FoldLeft(LAMBDA t, i : call_schema_body(t, i, c), Held(own), s.mixins) IN
    IF st.panicked \/ Len(st.schema_stack) >= MaxDepth THEN Panicked(st)
    ELSE [IF st.ctxs[c].is_sub_schema THEN RelaxedCheck(mixed, c) ELSE mixed
             EXCEPT !.borrowed = st.borrowed, !.schema_stack = st.schema_stack]

(* A schema expression: a snapshot with an empty value and the config, while *)
(* the context of the schema is borrowed. The result is the reference of the *)
(* instance.                                                                 *)
walk_schema_expr(st, i, config) ==
    LET c == Len(st.ctxs) + 1
        h == Len(st.heap) + 1
        snapshot == [st EXCEPT !.ctxs = Append(@, NewCtx(i, h, config)), !.heap = Append(@, Empty),
                               !.borrowed = @ \cup {i}] IN
    Result([schema_body(snapshot, c) EXCEPT !.borrowed = st.borrowed], h)
-----------------------------------------------------------------------------
Init(program) ==
    /\ schemas = program
    /\ ev = [ctxs |-> [i \in DOMAIN program |-> NewCtx(i, i, NoConfig)],
             heap |-> [i \in DOMAIN program |-> Empty],
             schema_stack |-> <<>>, target_vars |-> <<>>, ast_id |-> None, borrowed |-> {},
             panicked |-> FALSE]
    /\ made = <<>>

(* The main package instantiates a schema. *)
Instantiate(i, config) ==
    /\ ~ev.panicked /\ Len(made) < MaxInstances
    /\ LET r == walk_schema_expr(ev, i, config) IN
       /\ ev' = r.st
       /\ made' = Append(made, [schema |-> i, config |-> config, value |-> r.st.heap[r.v]])
    /\ UNCHANGED schemas

Next(Configs) == \E i \in DOMAIN schemas, config \in Configs : Instantiate(i, config)
-----------------------------------------------------------------------------
(* What an instance should be. *)

(* The schemas whose bodies run for an instance, and their statements.       *)
RECURSIVE Family(_)
Family(i) ==
    LET s == schemas[i] IN
    (IF s.parent = None THEN <<>> ELSE Family(s.parent)) \o <<i>>
        \o FlattenSeq([k \in DOMAIN s.mixins |-> Family(s.mixins[k])])
Members(i) == ToSet(Family(i))
Statements(i) ==
    LET family == Family(i) IN FlattenSeq([k \in DOMAIN family |-> schemas[family[k]].body])
SettersOf(i, x) == SelectSeq(Statements(i), LAMBDA s : s.x = x)

(* The value of x after k of its setters: the config's if it has one; every  *)
(* other attribute has its final value, whichever schema sets it.            *)
RECURSIVE ValueAfter(_, _, _, _)
ValueAfter(i, config, x, k) ==
    LET s == SettersOf(i, x)[k]
        Final(y) == ValueAfter(i, config, y, Len(SettersOf(i, y)))
        right == CASE s.e.kind = "number" -> s.e.n
                   [] s.e.kind = "name" -> s.e.n + (IF s.e.y = x THEN ValueAfter(i, config, x, k - 1)
                                                    ELSE Final(s.e.y))
                   [] s.e.kind = "new" -> LET t == s.e.schema y == s.e.y IN
                          ValueAfter(t, s.e.config, y, Len(SettersOf(t, y))) IN
    IF x \in DOMAIN config THEN config[x].v
    ELSE IF k = 0 THEN Undefined
    ELSE IF ~HasDefault(s) THEN ValueAfter(i, config, x, k - 1)
    ELSE IF s.kind = "aug" THEN ValueAfter(i, config, x, k - 1) + right
    ELSE right

FinalValue(i, config, x) == ValueAfter(i, config, x, Len(SettersOf(i, x)))

(* The statements of an instance whose default is of a kind. *)
OfKind(stmts, kind) == {k \in DOMAIN stmts : HasDefault(stmts[k]) /\ stmts[k].e.kind = kind}

(* The condition holds for every expression that creates another instance.   *)
ForCreated(i, P(_)) ==
    LET stmts == Statements(i) IN \A k \in OfKind(stmts, "new") : P(stmts[k].e)

(* No instance is created from within a body that runs for it too.           *)
Separate(i) ==
    ForCreated(i, LAMBDA e : e.schema < i /\ Members(e.schema) \cap Members(i) = {})

(* The attributes that the setters of x read, and those that are computed    *)
(* from their own value.                                                     *)
ReadsOf(i, x) == LET s == SettersOf(i, x) IN {s[k].e.y : k \in OfKind(s, "name")}
Updated(i) ==
    {x \in Names : LET s == SettersOf(i, x) IN
                   x \in ReadsOf(i, x) \/ \E k \in DOMAIN s : s[k].kind = "aug"}

(* Every attribute that is read gets a value: no attribute depends on itself *)
(* through another one, the first setter does not use the attribute, and all *)
(* setters have a value when the config has none. (A declaration without a   *)
(* default that follows one with a default hides it from early readers, and  *)
(* an update of an attribute that others read may be applied twice.)         *)
RECURSIVE WellDefined(_, _)
WellDefined(i, config) ==
    /\ Separate(i)
    /\ ForCreated(i, LAMBDA e : WellDefined(e.schema, e.config) /\ SettersOf(e.schema, e.y) # <<>>)
    /\ LET updated == Updated(i)
           readers == [x \in Names |-> {y \in Names : x \in ReadsOf(i, y)}] IN
       /\ \A xs \in SUBSET Names \ {{}} : \E x \in xs : \A y \in xs \ {x} : x \notin readers[y]
       /\ \A x \in Names :
             LET s == SettersOf(i, x) IN
             IF s = <<>> THEN x \notin DOMAIN config /\ readers[x] = {}
             ELSE /\ (readers[x] # {} \/ x \in updated) =>
                        (x \in DOMAIN config \/ \A k \in DOMAIN s : HasDefault(s[k]))
                  /\ x \in updated =>
                        /\ s[1].kind # "aug" /\ (HasDefault(s[1]) /\ s[1].e.kind = "name" => s[1].e.y # x)
                        /\ x \in DOMAIN config \/ readers[x] \subseteq {x}
-----------------------------------------------------------------------------
(* Attributes are bound late, in any order of the statements: whether the    *)
(* parent, the schema or a mixin reads it, an attribute has the value of the *)
(* last of all its setters, or the one of the config; the instances that     *)
(* were made before, whose contexts are used again, do not matter, and       *)
(* instances that a default creates do not either. Each instance is looked   *)
(* at when it is made: made only grows.                                      *)
LateBinding ==
    made # <<>> =>
        LET m == Last(made) IN
        WellDefined(m.schema, m.config) =>
            /\ ~ev.panicked
            /\ \A x \in DOMAIN m.value : m.value[x] = FinalValue(m.schema, m.config, x)

=============================================================================
