---------------------------- MODULE GlobalEval ----------------------------
(* How the evaluator computes the global variables of a package: the         *)
(* modules of the package are walked statement by statement, and a name that *)
(* is read too early is computed by walking one of the statements that set   *)
(* it. One step of the specification is one top-level statement of the walk. *)
EXTENDS LazyScope

CONSTANTS
    Undefined,  \* the value of a name before its first assignment
    Panic       \* the result of a computation that panics

VARIABLES
    prog,       \* the package: a sequence of modules, which are sequences of statements
    pc,         \* module and index of the next top-level statement
    ev          \* the state of the evaluator

vars == <<prog, pc, ev>>

(* Statements and expressions. An expression is a number, a name or the sum  *)
(* of a name and a number.                                                   *)
Number(n) == [y |-> None, n |-> n]
NamePlus(y, n) == [y |-> y, n |-> n]
Assign(x, e) == [kind |-> "assign", x |-> x, e |-> e]
AugAssign(x, e) == [kind |-> "aug", x |-> x, e |-> e]
If(cond, body, orelse) == [kind |-> "if", cond |-> cond, body |-> body, orelse |-> orelse]
-----------------------------------------------------------------------------
(* The setters of the package are those of its modules, in order; names that *)
(* are assigned, not only updated, start as undefined variables.             *)

RECURSIVE emit_global_vars(_)
emit_global_vars(body) ==
    UNION {LET s == body[i] IN
           IF IsIf(s) THEN emit_global_vars(s.body) \cup emit_global_vars(s.orelse)
           ELSE IF s.kind = "assign" THEN {s.x} ELSE {} : i \in DOMAIN body}

init_scope(p) ==
    NewScope(FoldLeft(merge_setters, NoSetters(Names), [m \in 1..Len(p) |-> emit_setters(p[m], m)]))

Predefined(p) == UNION {emit_global_vars(p[m]) : m \in DOMAIN p}
-----------------------------------------------------------------------------
(* The walk. An expression gives a value and the state its reads leave.      *)

Result(st, v) == [st |-> st, v |-> v]

(* Adding to an undefined value is an unsupported operation: it panics. *)
Add(r, v) ==
    IF r.v = Undefined \/ v = Undefined
    THEN Result([r.st EXCEPT !.panicked = TRUE], Undefined)
    ELSE Result(r.st, r.v + v)

Truthy(v) == v # Undefined /\ v # 0

Push(s, e) == Append(s, e)
Pop(s) == Front(s)

get_target_var(st) == IF st.target_vars = <<>> THEN None ELSE Last(st.target_vars)
HasMeta(st, kind) == st.backtrack_meta # <<>> /\ Last(st.backtrack_meta).kind = kind
IsBreak(st) == st.backtrack_meta # <<>> /\ Last(st.backtrack_meta).is_break

(* Whether the walk has passed the statement at which it has to stop. *)
UpdateBreak(st, id) ==
    IF st.backtrack_meta # <<>> /\ Last(st.backtrack_meta).stopped = id
    THEN [st EXCEPT !.backtrack_meta[Len(st.backtrack_meta)].is_break = TRUE]
    ELSE st

get_variable(st, x) == Lookup(st.variables, x, Undefined)

(* A store writes the variable and tells the lazy scope about it. *)
Store(st, x, v) ==
    [st EXCEPT !.variables = Insert(@, x, v),
               !.scope = SetValue(st.scope, x, st.ast_id, v)]

RECURSIVE walk_stmt(_, _, _), walk_stmts(_, _, _, _, _), get_value_from_lazy_scope(_, _, _)

load_name(st, x) ==
    IF x \in DOMAIN st.variables
    THEN get_value_from_lazy_scope(st, x, st.variables[x])
    ELSE Result(st, Undefined)

walk_expr(st, e) ==
    IF e.y = None THEN Result(st, e.n)
    ELSE IF e.n = 0 THEN load_name(st, e.y) ELSE Add(load_name(st, e.y), e.n)

(* The right value is computed with the target known; an update then loads   *)
(* its target too.                                                           *)
walk_assign_stmt(st, stmt) ==
    LET r == walk_expr([st EXCEPT !.target_vars = Push(@, stmt.x)], stmt.e) IN
    [Store(r.st, stmt.x, r.v) EXCEPT !.target_vars = Pop(@)]

walk_aug_assign_stmt(st, stmt) ==
    LET r == walk_expr([st EXCEPT !.target_vars = Push(@, stmt.x)], stmt.e)
        org == load_name(r.st, stmt.x)
        sum == Add(org, r.v) IN
    [Store(sum.st, stmt.x, sum.v) EXCEPT !.target_vars = Pop(@)]

(* Mutant: backtracking to a setter in an else does not test the condition. *)
WalkElseAlways(st, stmt, id) ==
    LET c == walk_expr(st, stmt.cond) IN
    IF HasMeta(c.st, "OrElse") THEN walk_stmts(c.st, stmt.orelse, id, "else", 1)
    ELSE IF Truthy(c.v) THEN walk_stmts(c.st, stmt.body, id, "if", 1)
    ELSE IF HasMeta(c.st, "If") THEN c.st ELSE walk_stmts(c.st, stmt.orelse, id, "else", 1)

(* Backtracking walks one of the branches of an if only. *)
walk_if_stmt(st, stmt, id) ==
    LET c == walk_expr(st, stmt.cond) IN
    IF Truthy(c.v)
    THEN IF HasMeta(c.st, "OrElse") THEN c.st ELSE walk_stmts(c.st, stmt.body, id, "if", 1)
    ELSE IF HasMeta(c.st, "If") THEN c.st ELSE walk_stmts(c.st, stmt.orelse, id, "else", 1)

walk_stmts(st, body, id, branch, j) ==
    IF j > Len(body) THEN st
    ELSE walk_stmts(walk_stmt(st, body[j], Inner(id, branch, j)), body, id, branch, j + 1)

walk_stmt(st, stmt, id) ==
    IF IsBreak(st) THEN st
    ELSE LET at == [st EXCEPT !.ast_id = id]
             done == CASE stmt.kind = "assign" -> walk_assign_stmt(at, stmt)
                       [] stmt.kind = "aug" -> walk_aug_assign_stmt(at, stmt)
                       [] stmt.kind = "if" -> walk_if_stmt(at, stmt, id) IN
         UpdateBreak(done, id)

walk_stmts_with_setter(st, setter) ==
    LET meta == [stopped |-> setter.stopped, is_break |-> FALSE, kind |-> setter.kind] IN
    [walk_stmt([st EXCEPT !.backtrack_meta = Push(@, meta)],
               prog[setter.index][setter.stmt], setter.stmt_id)
        EXCEPT !.backtrack_meta = Pop(@)]

(* The value of a name: as it stands when the name is being updated, the     *)
(* cached one, or what its setter for this level computes. The level goes up *)
(* for the time of the walk, so that a setter that reads the name again      *)
(* walks the setter before it.                                               *)
get_value_from_lazy_scope(st, x, default) ==
    IF IsInPlace(st.scope, x, get_target_var(st)) THEN Result(st, default)
    ELSE IF IsCached(st.scope, x) THEN Result(st, st.scope.cache[x])
    ELSE IF st.scope.setters[x] = <<>> THEN Result(st, default)
    ELSE LET setter == NextSetter(st.scope, x)
             raised == [st EXCEPT !.scope = Raised(@, x)] IN
         IF setter = None THEN Result(raised, default)
         ELSE LET walked == walk_stmts_with_setter(raised, setter)
                  v == get_variable(walked, x)
                  lowered == WithLevel(walked.scope, x, Level(st.scope, x)) IN
              Result([walked EXCEPT !.scope = Cache(lowered, x, v)], v)
-----------------------------------------------------------------------------
Finished == pc[1] > Len(prog)

Init(package) ==
    /\ prog = package
    /\ pc = <<1, 1>>
    /\ ev = [variables |-> [x \in Predefined(prog) |-> Undefined], scope |-> init_scope(prog),
             ast_id |-> None, backtrack_meta |-> <<>>, target_vars |-> <<>>, panicked |-> FALSE]

(* The next statement of the module is walked. *)
WalkStmt ==
    /\ ~Finished /\ ~ev.panicked
    /\ pc[2] <= Len(prog[pc[1]])
    /\ ev' = walk_stmt(ev, prog[pc[1]][pc[2]], pc)
    /\ pc' = <<pc[1], pc[2] + 1>>
    /\ UNCHANGED prog

NextModule ==
    /\ ~Finished /\ ~ev.panicked
    /\ pc[2] > Len(prog[pc[1]])
    /\ pc' = <<pc[1] + 1, 1>>
    /\ UNCHANGED <<prog, ev>>

Next == WalkStmt \/ NextModule

Spec(package) == Init(package) /\ [][Next]_vars
-----------------------------------------------------------------------------
(* What the values should be. *)

(* The statements of a package in order, and those that set x. *)
Body == FlattenSeq(prog)
SettersOf(body, x) == SelectSeq(body, LAMBDA s : s.x = x)

(* The value of x after the first k of its setters in the straight body:     *)
(* every other name has its final value.                                     *)
RECURSIVE ValueAfter(_, _, _)
ValueAfter(body, x, k) ==
    LET s == SettersOf(body, x)[k]
        right == IF s.e.y = None THEN s.e.n
                 ELSE s.e.n + ValueAfter(body, s.e.y, IF s.e.y = x THEN k - 1
                                                      ELSE Len(SettersOf(body, s.e.y))) IN
    IF s.kind = "assign" THEN right ELSE ValueAfter(body, x, k - 1) + right

FinalValue(body, x) == ValueAfter(body, x, Len(SettersOf(body, x)))

(* A straight body that gives every name it reads a value: no name depends   *)
(* on itself through another one, and the first setter of a name does not    *)
(* use the name.                                                             *)
Reads(body, x, y) == \E i \in DOMAIN body : body[i].x = x /\ body[i].e.y = y
WellDefined(body) ==
    /\ \A i \in DOMAIN body : ~IsIf(body[i])
    /\ \A x \in Names :
          LET s == SettersOf(body, x) IN
          IF s = <<>> THEN \A y \in Names : ~Reads(body, y, x)
          ELSE s[1].kind = "assign" /\ s[1].e.y # x
    /\ \A xs \in SUBSET Names \ {{}} : \E x \in xs : \A y \in xs \ {x} : ~Reads(body, x, y)

Updates(s) == s.kind = "aug" \/ s.e.y = s.x
NeverUpdated(body) ==
    {s.x : s \in ToSet(body)} \ {s.x : s \in {t \in ToSet(body) : Updates(t)}}

(* Readers get the values of the straight body, and variables that are never *)
(* updated from their old value have them.                                   *)
HasValuesOf(body) ==
    /\ ~ev.panicked
    /\ \A x \in {s.x : s \in ToSet(body)} :
          IsCached(ev.scope, x) /\ ev.scope.cache[x] = FinalValue(body, x)
    /\ \A x \in NeverUpdated(body) : get_variable(ev, x) = FinalValue(body, x)

(* The sum, where a value may also be the panic that computing it ends in. *)
Sum2(u, v) ==
    IF u = Panic \/ v = Panic \/ u = Undefined \/ v = Undefined THEN Panic ELSE u + v
Plus(v, n) == IF n = 0 THEN v ELSE Sum2(v, n)

(* Plain execution, one statement after the other, up to a panic. *)
RECURSIVE Execute(_, _)
Execute(env, body) ==
    IF body = <<>> \/ \E x \in Names : env[x] = Panic THEN env
    ELSE LET s == Head(body)
             e == IF IsIf(s) THEN s.cond ELSE s.e
             v == IF e.y = None THEN e.n ELSE Plus(env[e.y], e.n) IN
         Execute(CASE s.kind = "assign" -> [env EXCEPT ![s.x] = v]
                   [] s.kind = "aug" -> [env EXCEPT ![s.x] = Sum2(@, v)]
                   [] s.kind = "if" -> Execute(env, IF Truthy(v) THEN s.body ELSE s.orelse),
                 Tail(body))

(* The statements of a body with those of its ifs, in the order of the text. *)
RECURSIVE Flat(_)
Flat(body) ==
    FlattenSeq([i \in DOMAIN body |->
        IF IsIf(body[i]) THEN <<body[i]>> \o Flat(body[i].body) \o Flat(body[i].orelse)
        ELSE <<body[i]>>])

(* A body that sets every name before another statement reads it, and never  *)
(* computes the new value of a name that is set in an if from its old value. *)
DeclaredFirst(body) ==
    LET flat == Flat(body)
        ReadBy(s) == IF IsIf(s) THEN s.cond.y ELSE s.e.y
        Conditional == {s.x : s \in {t \in UNION {ToSet(Flat(body[i].body \o body[i].orelse)) :
                                         i \in {k \in DOMAIN body : IsIf(body[k])}} : ~IsIf(t)}} IN
    /\ \A i, j \in DOMAIN flat :
          (~IsIf(flat[j]) /\ ReadBy(flat[i]) = flat[j].x /\ (IsIf(flat[i]) \/ flat[i].x # flat[j].x))
              => j < i
    /\ \A i \in DOMAIN flat :
          (~IsIf(flat[i]) /\ Updates(flat[i])) => flat[i].x \notin Conditional

(* The body with every if replaced by the branch its condition selects; an   *)
(* if whose condition is not a number stays.                                 *)
RECURSIVE Selected(_)
Selected(body) ==
    FlattenSeq([i \in DOMAIN body |->
        IF IsIf(body[i]) /\ body[i].cond.y = None
        THEN Selected(IF Truthy(body[i].cond.n) THEN body[i].body ELSE body[i].orelse)
        ELSE <<body[i]>>])
-----------------------------------------------------------------------------
Ended == Finished \/ ev.panicked

(* Without ifs the order of the statements does not matter beyond the order  *)
(* of the setters of each name: at the end of the walk every name is cached  *)
(* with the value that its setters give it when all names they read have     *)
(* their final values, and no read has met an undefined value. The variable  *)
(* has that value too, unless a setter computes it from the old value: that  *)
(* one is applied once more when the name was read before it.                *)
OrderIndependent == (Ended /\ WellDefined(Body)) => HasValuesOf(Body)

(* A cached value is final, from the moment it is cached: what a statement   *)
(* reads early is what every later one reads.                                *)
CacheIsFinal ==
    WellDefined(Body) =>
        \A x \in DOMAIN ev.scope.cache : ev.scope.cache[x] = FinalValue(Body, x)

(* A package that declares before it reads is executed as written, ifs       *)
(* included: the backtracking of names whose last setter is in a branch that *)
(* is not taken changes nothing.                                             *)
SequentialWhenDeclaredFirst ==
    (Ended /\ DeclaredFirst(Body)) =>
        LET env == Execute([x \in Names |-> Undefined], Body) IN
        IF \E x \in Names : env[x] = Panic THEN ev.panicked
        ELSE ~ev.panicked /\ \A x \in Names : get_variable(ev, x) = env[x]

=============================================================================
