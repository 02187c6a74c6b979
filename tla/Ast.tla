-------------------------------- MODULE Ast --------------------------------
(***************************************************************************)
(* The expressions and statements of the language (ast/src/ast.rs) as the  *)
(* checker and the two backends walk them.  Names, keys and strings are    *)
(* sequences of letters; an option is <<>> or <<x>>.  Parentheses, target  *)
(* contexts and positions are gone.                                        *)
(***************************************************************************)
EXTENDS Integers, Sequences

NumberLit(n) == [k |-> "num", n |-> n]
FloatLit(f) == [k |-> "flt", f |-> f]                  \* in halves
UnitLit(raw, suffix) == [k |-> "unit", raw |-> raw, suffix |-> suffix]
StringLit(s) == [k |-> "str", s |-> s]
NameConstantLit(c) == [k |-> "const", c |-> c]         \* True False None Undefined
Identifier(name) == [k |-> "id", name |-> name]
UnaryExpr(op, e) == [k |-> "un", op |-> op, e |-> e]
BinaryExpr(op, left, right) == [k |-> "bin", op |-> op, l |-> left, r |-> right]
AsExpr(e, ty) == [k |-> "as", e |-> e, ty |-> ty]
Compare(left, ops, comparators) == [k |-> "cmp", l |-> left, ops |-> ops, rs |-> comparators]
IfExpr(cond, body, orelse) == [k |-> "if", cond |-> cond, body |-> body, orelse |-> orelse]
SelectorExpr(e, attr, has_question) == [k |-> "sel", e |-> e, attr |-> attr, q |-> has_question]
Subscript(e, index, has_question) == [k |-> "sub", e |-> e, i |-> index, q |-> has_question]
Slice(e, lower, upper, step) == [k |-> "slice", e |-> e, lower |-> lower, upper |-> upper, step |-> step]
Keyword(arg, value) == [arg |-> arg, val |-> value]
CallExpr(func, args, keywords) == [k |-> "call", f |-> func, args |-> args, kws |-> keywords]
ListExpr(elts) == [k |-> "list", elts |-> elts]
StarredExpr(e) == [k |-> "star", e |-> e]
ListIfItemExpr(cond, exprs, orelse) == [k |-> "listif", cond |-> cond, exprs |-> exprs, orelse |-> orelse]
CompClause(targets, it, ifs) == [targets |-> targets, iter |-> it, ifs |-> ifs]
ListComp(elt, generators) == [k |-> "lcomp", elt |-> elt, gens |-> generators]
DictComp(key, value, op, generators) ==
    [k |-> "dcomp", key |-> key, val |-> value, op |-> op, gens |-> generators]
QuantExpr(op, variables, target, test, if_cond) ==
    [k |-> "quant", op |-> op, vars |-> variables, target |-> target, test |-> test, cond |-> if_cond]

(* A configuration entry has a key that is a name, a name with a number in *)
(* brackets, or an expression; or it unpacks a value.                      *)
NamedEntry(name, op, value) == [kind |-> "name", name |-> name, idx |-> <<>>, op |-> op, val |-> value]
IndexedEntry(name, i, op, value) == [kind |-> "name", name |-> name, idx |-> <<i>>, op |-> op, val |-> value]
KeyedEntry(key, op, value) == [kind |-> "key", key |-> key, op |-> op, val |-> value]
UnpackEntry(value) == [kind |-> "unpack", val |-> value]
ConfigExpr(items) == [k |-> "config", items |-> items]
ConfigIfEntryExpr(cond, items, orelse) ==
    [k |-> "configif", cond |-> cond, items |-> items, orelse |-> orelse]
SchemaExpr(name, config) == [k |-> "schema", name |-> name, config |-> config]
Parameter(name, ty, default) == [name |-> name, ty |-> ty, def |-> default]
LambdaExpr(params, return_ty, body) ==
    [k |-> "lambda", params |-> params, ret |-> return_ty, body |-> body]
JoinedString(values) == [k |-> "joined", vals |-> values]
FormattedValue(e) == [k |-> "formatted", e |-> e]

AssignStmt(target, ty, value) == [s |-> "assign", target |-> target, ty |-> ty, val |-> value]
AugAssignStmt(target, op, value) == [s |-> "aug", target |-> target, op |-> op, val |-> value]
UnificationStmt(target, value) == [s |-> "unify", target |-> target, val |-> value]
=============================================================================
