---------------------------- MODULE LazyScope ----------------------------
(* LazyEvalScope: what the evaluator keeps of a body whose statements are    *)
(* meant to be independent of their order. Every name has the list of the    *)
(* statements that set it; a name that is read before its value is known is  *)
(* computed by walking the last of them ("backtracking").                    *)
EXTENDS Naturals, SequencesExt

CONSTANTS
    Names,
    None        \* no statement

(* A statement is an assignment or an update x += e, or an if with two       *)
(* bodies. The id of a statement is the path to it, which is unique.         *)
IsIf(stmt) == stmt.kind = "if"
Inner(id, branch, j) == id \o <<branch, j>>

(* Maps: the empty one, insertion and a lookup with a default. *)
Empty == <<>>
Insert(map, x, v) == (x :> v) @@ map
Lookup(map, x, default) == IF x \in DOMAIN map THEN map[x] ELSE default

(* The scope of a body with these setters. *)
NewScope(setters) ==
    [cache |-> Empty, levels |-> Empty, setters |-> setters, cal_times |-> Empty]
-----------------------------------------------------------------------------
(* The setters of a body. *)

(* The names set in a body inside of an if, with the ids of the statements   *)
(* that set them; ifs inside of it are flattened.                            *)
RECURSIVE in_if_names(_, _, _)
in_if_names(body, id, branch) ==
    FlattenSeq([j \in 1..Len(body) |->
        IF IsIf(body[j])
        THEN in_if_names(body[j].body, Inner(id, branch, j), "if")
                 \o in_if_names(body[j].orelse, Inner(id, branch, j), "else")
        ELSE <<[name |-> body[j].x, id |-> Inner(id, branch, j)]>>])

(* The setters of the names of an if, which stop at the statement that sets  *)
(* the name and walk one of the branches only.                               *)
IfSetters(stmt, id, i, branch, kind, index) ==
    LET names == in_if_names(IF branch = "if" THEN stmt.body ELSE stmt.orelse, id, branch) IN
    [k \in 1..Len(names) |->
        [name |-> names[k].name, index |-> index, stmt |-> i, stmt_id |-> id,
         stopped |-> names[k].id, kind |-> kind]]

(* The setters of a statement, in the order of the code.                     *)
StmtSetters(stmt, id, i, index) ==
    IF IsIf(stmt)
    THEN IfSetters(stmt, id, i, "if", "If", index) \o IfSetters(stmt, id, i, "else", "OrElse", index)
    ELSE <<[name |-> stmt.x, index |-> index, stmt |-> i, stmt_id |-> id, stopped |-> None,
            kind |-> "Normal"]>>

emit_setters(body, index) ==
    LET all == FlattenSeq([i \in 1..Len(body) |-> StmtSetters(body[i], <<index, i>>, i, index)]) IN
    [x \in Names |-> SelectSeq(all, LAMBDA s : s.name = x)]

merge_setters(s, other) == [x \in Names |-> s[x] \o other[x]]

NoSetters(names) == [x \in names |-> <<>>]
-----------------------------------------------------------------------------
(* Reading and writing a name. *)

Level(s, x) == Lookup(s.levels, x, 0)
WithLevel(s, x, level) == [s EXCEPT !.levels = Insert(@, x, level)]

is_backtracking(s, x) == Level(s, x) > 0

setter_len(s, x) == Len(s.setters[x])

(* Outside of backtracking a write is counted; the last one is recognised by *)
(* the count                                                                 *)
NextCalTime(s, x) == Lookup(s.cal_times, x, 0) + 1
Counted(s, x) ==
    IF is_backtracking(s, x) THEN s
    ELSE [s EXCEPT !.cal_times = Insert(@, x, NextCalTime(s, x))]
(* Mutant: off by one. *)
CalIncrementPast(s, x) ==
    ~is_backtracking(s, x) /\ NextCalTime(s, x) > setter_len(s, x)

cal_increment(s, x) ==
    ~is_backtracking(s, x) /\ NextCalTime(s, x) >= setter_len(s, x)

(* or by the statement that writes.                                          *)
is_last_setter_ast_index(s, x, id) ==
    /\ ~is_backtracking(s, x)
    /\ s.setters[x] /= <<>>
    /\ id = IF Last(s.setters[x]).stopped /= None THEN Last(s.setters[x]).stopped
                                                  ELSE Last(s.setters[x]).stmt_id

IsCached(s, x) == x \in DOMAIN s.cache
Cache(s, x, v) == [s EXCEPT !.cache = Insert(@, x, v)]

(* The value of the last write is cached. *)
SetValue(s, x, id, v) ==
    IF (cal_increment(s, x) \/ is_last_setter_ast_index(s, x, id)) /\ ~IsCached(s, x)
    THEN Cache(Counted(s, x), x, v)
    ELSE Counted(s, x)

(* A name that is updated in place is not computed by its setters, unless it *)
(* is read from one of several of them.                                      *)
IsInPlace(s, x, target) == x = target /\ (~is_backtracking(s, x) \/ setter_len(s, x) <= 1)

(* Mutant: the setters are walked from the first one. *)
NextSetterFromFirst(s, x) ==
    IF Level(s, x) + 1 > setter_len(s, x) THEN None ELSE s.setters[x][Level(s, x) + 1]

(* The setter a read has to walk, or None. n - next_level is unsigned: below *)
(* zero it is far above n.                                                   *)
NextSetter(s, x) ==
    LET n == setter_len(s, x) next_level == Level(s, x) + 1 IN
    IF next_level > n THEN None ELSE s.setters[x][n - next_level + 1]

Raised(s, x) == WithLevel(s, x, Level(s, x) + 1)
=============================================================================
