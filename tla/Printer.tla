------------------------------ MODULE Printer -------------------------------
(***************************************************************************)
(* The printer behind `kcl fmt` and the LSP's formatting (kclvm/ast_pretty *)
(* /src): from a syntax tree to the text of module Syntax.  The printer    *)
(* carries its output, its indentation and the greatest line of a node it  *)
(* has printed so far; the lines decide whether a list, a configuration or *)
(* a quantifier stays on one line.  Comments and blank lines kept from the *)
(* source are left out.                                                    *)
(***************************************************************************)
EXTENDS Syntax

Printer == [out |-> <<>>, indent |-> 0, last_ast_line |-> 0, bug |-> FALSE]

write(pr, words) == [pr EXCEPT !.out = @ \o words]
fill(pr) == write(pr, [i \in 1..pr.indent |-> "TAB"])
write_newline(pr) == fill(write(pr, <<"NL">>))
enter(pr) == [pr EXCEPT !.indent = @ + 1]
leave(pr) == [pr EXCEPT !.indent = @ - 1]
update_last_ast_line(pr, x) == [pr EXCEPT !.last_ast_line = IF x.l > @ THEN x.l ELSE @]

Comma(pr) == write(pr, <<",">>)

\* A node, whatever it is; the table is at the end.
RECURSIVE print(_, _)
print_opt(pr, x) == IF IsNone(x) THEN pr ELSE print(pr, x)
\* A word and a node, when there is one: `= a`, `if a`, `, a`.
Clause(pr, word, x) == IF IsNone(x) THEN pr ELSE print(write(pr, <<word>>), x)
\* Nodes with a comma or a line break between them.
RECURSIVE interleave(_, _, _)
interleave(pr, xs, between) ==
    CASE xs = <<>> -> pr
      [] Len(xs) = 1 -> print(pr, Head(xs))
      [] OTHER -> LET a == print(pr, Head(xs))
                  IN  interleave(IF between = "," THEN Comma(a) ELSE write_newline(a), Tail(xs), between)

\* The words of a name: a.b.c is printed with its dots.
Dotted(names) == FoldLeft(LAMBDA a, n : a \o <<".", n>>, <<Head(names)>>, Tail(names))
\* An import path: leading dots, then the names.
ImportPath(path) ==
    LET dots == SelectSeq(path, LAMBDA n : n \in {".", "..."})
    IN  dots \o Dotted(SubSeq(path, Len(dots) + 1, Len(path)))
walk_identifier(pr, x) == write(pr, Dotted(x.s))
Names(xs) == FoldLeft(LAMBDA a, x : (IF a = <<>> THEN a ELSE Append(a, ",")) \o Dotted(x.s), <<>>, xs)

RECURSIVE TypeWords(_)
TypeList_(tys, between) ==
    IF tys = <<>> THEN <<>>
    ELSE FoldLeft(LAMBDA a, ty : a \o <<between>> \o TypeWords(ty), TypeWords(Head(tys)), Tail(tys))
TypeWords(ty) ==
    CASE ty.n = "NoNode" -> <<>>
      [] ty.n \in {"TypeWord", "TypeLiteral"} -> ty.s
      [] ty.n = "TypeNamed" -> Dotted(ty.s)
      [] ty.n = "TypeList" -> <<"[">> \o TypeWords(ty.c[1]) \o <<"]">>
      [] ty.n = "TypeDict" -> <<"{">> \o TypeWords(ty.c[1]) \o <<":">> \o TypeWords(ty.c[2]) \o <<"}">>
      [] ty.n = "TypeUnion" -> TypeList_(ty.c, "|")
      [] ty.n = "TypeFunction" ->
           <<"(">> \o TypeList_(ty.c[1].c, ",") \o <<")">>
             \o (IF IsNone(ty.c[2]) THEN <<>> ELSE <<"->">> \o TypeWords(ty.c[2]))
write_type(pr, word, ty) == IF IsNone(ty) THEN pr ELSE write(pr, <<word>> \o TypeWords(ty))

RECURSIVE stmts(_, _)

walk_keyword(pr, x) == print(write(pr, Dotted(x.s) \o <<"=">>), x.c[1])
write_args_and_kwargs(pr, args, kwargs) ==
    LET a == interleave(pr, args.c, ",")
    IN  interleave(IF args.c # <<>> /\ kwargs.c # <<>> THEN Comma(a) ELSE a, kwargs.c, ",")
walk_call_expr(pr, x) ==
    write(write_args_and_kwargs(write(print(pr, x.c[1]), <<"(">>), x.c[2], x.c[3]), <<")">>)

walk_param(pr, x) ==
    Clause(write_type(write(pr, Dotted(x.s)), ":", x.c[1]), "=", x.c[2])
walk_arguments(pr, x) == interleave(pr, x.c, ",")

walk_subscript(pr, x) ==
    LET open == write(print(pr, x.c[1]), x.s \o <<"[">>) IN
    write(IF x.n = "Index" THEN print(open, x.c[2])
          ELSE print_opt(write(print_opt(write(print_opt(open, x.c[2]), <<":">>), x.c[3]), <<":">>), x.c[4]), <<"]">>)

\* The lines of the items and of what was printed last: one line means one line.
InOneLine(pr, items) ==
    LET lines == {items[i].l : i \in DOMAIN items}
    IN  Cardinality((lines \cup {pr.last_ast_line}) \ {0}) <= 1

Broken(pr, in_one_line, items) ==
    IF in_one_line THEN interleave(pr, items, ",")
    ELSE write_newline(leave(interleave(write_newline(enter(pr)), items, "NL")))

walk_list_expr(pr, x) ==
    LET one == InOneLine(pr, x.c) /\ ~(x.c # <<>> /\ Head(x.c).n = "ListIf")
    IN  write(Broken(write(pr, <<"[">>), one, x.c), <<"]">>)

walk_comp_clause(pr, x) ==
    FoldLeft(LAMBDA a, c : print(write(a, <<"if">>), c),
             print(write(pr, <<"for">> \o Names(x.c[1].c) \o <<"in">>), x.c[2]), x.c[3].c)

\* An indented block; its last line is ended by what follows.
Block(pr, items) == leave(interleave(write_newline(enter(pr)), items, "NL"))

\* if / elif / else items of a list and of a configuration.
Otherwise(pr, x, other) ==
    IF x.c[3].n = other THEN Block(write(pr, <<"else", ":">>), x.c[3].c)
    ELSE [print(pr, x.c[3]) EXCEPT !.out[Len(pr.out) + 1] = "elif"]
Conditional(pr, x, other) ==
    LET body == Block(write(print(write(pr, <<"if">>), x.c[1]), <<":">>), x.c[2].c) IN
    IF IsNone(x.c[3]) THEN body ELSE Otherwise(write_newline(body), x, other)

\* The key of an entry is printed as it is, but an identifier with a name that is none
\* (an override makes them) is quoted name by name, each name in the braces of the one
\* before; write_entry closes them.  A plain name needs no quotes to be the same key.
Quoted(names) == CHOOSE k \in ShortStrings : NameIn(k) = names
IsPlain(name) == name # "x-y"
QuotedNames(names) ==
    LET quoted(n) == IF IsPlain(n) THEN n ELSE Quoted(<<n>>)
    IN  FoldLeft(LAMBDA a, n : a \o <<":", "{", quoted(n)>>, <<quoted(Head(names))>>, Tail(names))
need_right_brace(key) == key.n = "Identifier" /\ \E i \in DOMAIN key.s : ~IsPlain(key.s[i])
write_config_key(pr, key) ==
    IF need_right_brace(key) THEN write(pr, QuotedNames(key.s)) ELSE print(pr, key)
RightBraces(key) == IF need_right_brace(key) THEN [i \in 1..(Len(key.s) - 1) |-> "}"] ELSE <<>>
write_entry(pr, x) ==
    LET key == update_last_ast_line(pr, x.c[1])
        item == update_last_ast_line(pr, x) IN
    IF ~IsNone(x.c[1]) THEN write(print(write(write_config_key(key, x.c[1]), x.s), x.c[2]), RightBraces(x.c[1]))
    ELSE print(IF x.c[2].n = "ConfigIf" THEN item ELSE write(item, <<"**">>), x.c[2])

walk_dict_comp_entry(pr, x) ==
    IF IsNone(x.c[1]) THEN [pr EXCEPT !.bug = TRUE]
    ELSE print(write(print(pr, x.c[1]), x.s), x.c[2])

Comprehension(first, gens, close) == write(FoldLeft(print, first, gens), <<close>>)
walk_list_comp(pr, x) == Comprehension(print(write(pr, <<"[">>), Head(x.c)), Tail(x.c), "]")
walk_dict_comp(pr, x) == Comprehension(walk_dict_comp_entry(write(pr, <<"{">>), Head(x.c)), Tail(x.c), "}")

\* A single entry that is itself a block is always put on a line of its own.
walk_config_expr(pr, x) ==
    LET block == Len(x.c) = 1 /\ x.c[1].c[2].n \in {"ConfigIf", "Config", "Schema"}
        one == InOneLine(pr, x.c) /\ ~block IN
    write(IF x.c = <<>> THEN write(pr, <<"{">>)
          ELSE Broken(write(pr, <<"{">>), one, x.c), <<"}">>)

walk_schema_expr(pr, x) ==
    LET a == write(pr, Dotted(x.s))
        b == IF x.c[1].c = <<>> /\ x.c[2].c = <<>> THEN a
             ELSE write(write_args_and_kwargs(write(a, <<"(">>), x.c[1], x.c[2]), <<")">>)
    IN  print(b, x.c[3])

\* Mutant: the test for the line is the wrong way round.
WalkQuantInverted(pr, x) ==
    LET in_one_line == pr.last_ast_line > 0 /\ x.c[3].l # pr.last_ast_line
        b == write(print(write(pr, x.s \o Names(x.c[1].c) \o <<"in">>), x.c[2]), <<"{">>)
        c == IF in_one_line THEN b ELSE write_newline(enter(b))
        d == Clause(print(c, x.c[3]), "if", x.c[4])
    IN  write(IF in_one_line THEN d ELSE write_newline(leave(d)), <<"}">>)

walk_quant_expr(pr, x) ==
    LET in_one_line == pr.last_ast_line > 0 /\ x.c[3].l = pr.last_ast_line
        b == write(print(write(pr, x.s \o Names(x.c[1].c) \o <<"in">>), x.c[2]), <<"{">>)
        c == IF in_one_line THEN b ELSE write_newline(enter(b))
        d == Clause(print(c, x.c[3]), "if", x.c[4])
    IN  write(IF in_one_line THEN d ELSE write_newline(leave(d)), <<"}">>)

\* A lambda's body is always on lines of its own.
walk_lambda_expr(pr, x) ==
    LET args == walk_arguments(write(pr, <<"lambda">>), x.c[1])
        open == write(write_type(args, "->", x.c[2]), <<"{", "NL">>)
    IN  write(fill(leave(stmts(enter(open), x.c[3].c))), <<"}">>)

walk_check_expr(pr, x) == Clause(Clause(print(pr, x.c[1]), "if", x.c[2]), ",", x.c[3])

walk_compare(pr, x) ==
    LET rest == [i \in DOMAIN x.s |-> [op |-> x.s[i], y |-> x.c[i + 1]]]
        words(op) == CASE op = "not in" -> <<"not", "in">> [] op = "is not" -> <<"is", "not">>
                       [] OTHER -> <<op>>
    IN  FoldLeft(LAMBDA a, r : print(write(a, words(r.op)), r.y), print(pr, x.c[1]), rest)

walk_expr(pr, x) ==
    CASE x.n = "Identifier" -> walk_identifier(pr, x)
      [] x.n = "Number" -> write(pr, <<x.s[2]>>)
      [] x.n \in {"Str", "Constant"} -> write(pr, x.s)
      [] x.n = "If" -> print(write(print(write(print(pr, x.c[1]), <<"if">>), x.c[2]), <<"else">>), x.c[3])
      [] x.n = "Unary" -> print(write(pr, x.s), x.c[1])
      [] x.n = "Binary" -> print(write(print(pr, x.c[1]), x.s), x.c[2])
      [] x.n = "Compare" -> walk_compare(pr, x)
      [] x.n = "Selector" -> walk_identifier(write(print(pr, x.c[1]), x.s \o <<".">>), x.c[2])
      [] x.n = "Call" -> walk_call_expr(pr, x)
      [] x.n \in {"Index", "Slice"} -> walk_subscript(pr, x)
      [] x.n = "Paren" -> write(print(write(pr, <<"(">>), x.c[1]), <<")">>)
      [] x.n = "List" -> walk_list_expr(pr, x)
      [] x.n = "ListComp" -> walk_list_comp(pr, x)
      [] x.n = "ListIf" -> Conditional(pr, x, "List")
      [] x.n = "Starred" -> print(write(pr, <<"*">>), x.c[1])
      [] x.n = "DictComp" -> walk_dict_comp(pr, x)
      [] x.n = "ConfigIf" -> Conditional(pr, x, "Config")
      [] x.n = "Config" -> walk_config_expr(pr, x)
      [] x.n = "Schema" -> walk_schema_expr(pr, x)
      [] x.n = "Quant" -> walk_quant_expr(pr, x)
      [] x.n = "Lambda" -> walk_lambda_expr(pr, x)
expr(pr, x) == walk_expr(update_last_ast_line(pr, x), x)

-----------------------------------------------------------------------------
(***************************************************************************)
(* Statements.  Each ends with a line break and no indentation: the next   *)
(* statement fills its own.                                                *)
(***************************************************************************)
EndLine(pr) == write(pr, <<"NL">>)

walk_path(pr, x) ==
    IF x.n = "Member" THEN write(pr, <<".">> \o x.s)
    ELSE write(walk_expr(write(pr, <<"[">>), x.c[1]), <<"]">>)
walk_target(pr, x) == FoldLeft(print, write(pr, x.c[1].s), Tail(x.c))

walk_assign_stmt(pr, x) ==
    LET targets == x.c[1].c
        first == write_type(walk_target(pr, Head(targets)), ":", x.c[2])
        rest == FoldLeft(LAMBDA a, tg : walk_target(write(a, <<"=">>), tg), first, Tail(targets))
    IN  print(write(rest, <<"=">>), x.c[3])

IfBody(pr, body) == leave(stmts(enter(write(pr, <<":", "NL">>)), body))
RECURSIVE walk_if_stmt(_, _)
ElseOf(pr, orelse) ==
    CASE orelse = <<>> -> EndLine(pr)
      [] Len(orelse) = 1 /\ Head(orelse).n = "IfStmt" ->
           [walk_if_stmt(fill(pr), Head(orelse)) EXCEPT !.out[Len(fill(pr).out) + 1] = "elif"]
      [] OTHER -> IfBody(write(fill(pr), <<"else">>), orelse)
walk_if_stmt(pr, x) == ElseOf(IfBody(print(write(pr, <<"if">>), x.c[1]), x.c[2].c), x.c[3].c)

\* Decorators: one per line, then the statement they belong to.  Only a rule's do not
\* count for the line printed last.
walk_decorators(pr, ds, in_rule) ==
    FoldLeft(LAMBDA a, x : write_newline(walk_call_expr(write(IF in_rule THEN a ELSE update_last_ast_line(a, x), <<"@">>), x)),
             pr, ds.c)

NeedsQuote(x) == x.n = "QuotedName" \/ Len(x.s) > 1
walk_schema_attr(pr, x) ==
    LET a == walk_decorators(pr, x.c[4], FALSE)
        b == write(a, IF NeedsQuote(x.c[1]) THEN <<Quoted(x.c[1].s)>> ELSE x.c[1].s)
        c == write_type(IF x.s[2] = "" THEN b ELSE write(b, <<"?">>), ":", x.c[2])
    IN  IF x.s[1] = "" THEN c ELSE print(write(c, <<x.s[1]>>), x.c[3])

walk_mixin(pr, x) == walk_identifier(update_last_ast_line(pr, x), x)
write_mixins(pr, ms) ==
    LET open == write_newline(enter(write(fill(pr), <<"mixin", "[">>)))
        all == FoldLeft(LAMBDA a, x : walk_mixin(write_newline(Comma(a)), x), walk_mixin(open, Head(ms.c)), Tail(ms.c)) IN
    IF ms.c = <<>> THEN pr ELSE EndLine(write(write_newline(leave(all)), <<"]">>))

\* `...` is written in front of the key's name.
write_index_signature(pr, x) ==
    LET any_other == x.s # <<>> /\ Head(x.s) = "..."
        name == IF any_other THEN Tail(x.s) ELSE x.s
        a == write(update_last_ast_line(fill(pr), x),
                   <<"[">> \o (IF any_other THEN <<"...">> ELSE <<>>)
                           \o (IF name = <<>> THEN <<>> ELSE Dotted(name) \o <<":">>))
        b == write_type(write(a, TypeWords(x.c[1]) \o <<"]">>), ":", x.c[2])
    IN  EndLine(Clause(b, "=", x.c[3]))

write_doc(pr, x) == IF IsNone(x) THEN pr ELSE EndLine(write(fill(pr), x.s))
walk_check(pr, x) == walk_check_expr(update_last_ast_line(pr, x), x)
write_checks(pr, cs) ==
    LET open == write_newline(enter(write(fill(pr), <<"check", ":">>)))
    IN  IF cs.c = <<>> THEN pr ELSE EndLine(leave(EndLine(interleave(open, cs.c, "NL"))))

\* `[args]`, `(Parent)`, ` for Host`.
Heading(pr, name, args, parents, host) ==
    LET a == write(pr, Dotted(name))
        b == IF IsNone(args) THEN a ELSE write(walk_arguments(write(a, <<"[">>), args), <<"]">>)
        c == IF parents = <<>> THEN b ELSE write(b, <<"(">> \o Names(parents) \o <<")">>)
    IN  IF IsNone(host) THEN c ELSE walk_identifier(write(c, <<"for">>), host)

walk_schema_stmt(pr, x) ==
    LET flags == x.c[1].s
        a == write(walk_decorators(pr, x.c[5], FALSE), IF flags = <<>> THEN <<"schema">> ELSE <<Head(flags)>>)
        b == Heading(a, x.s, x.c[2], IF IsNone(x.c[3]) THEN <<>> ELSE <<x.c[3]>>, x.c[4])
        c == write_mixins(write_doc(enter(write(b, <<":", "NL">>)), x.c[6]), x.c[7])
        d == IF IsNone(x.c[8]) THEN c ELSE write_index_signature(c, x.c[8])
    IN  leave(write_checks(EndLine(stmts(d, x.c[9].c)), x.c[10]))

\* The body starts with an indented line; without checks nothing ends that line.
walk_rule_stmt(pr, x) ==
    LET a == write(walk_decorators(pr, x.c[4], TRUE), <<"rule">>)
        b == write_newline(enter(write(Heading(a, x.s, x.c[1], x.c[2].c, x.c[3]), <<":">>)))
        c == IF IsNone(x.c[5]) THEN b ELSE write_newline(write(b, x.c[5].s))
        d == IF x.c[6].c = <<>> THEN c ELSE EndLine(interleave(c, x.c[6].c, "NL"))
    IN  leave(d)

walk_stmt(pr, x) ==
    CASE x.n = "ExprStmt" -> EndLine(interleave(pr, x.c, ","))
      [] x.n = "Unification" ->
           EndLine(walk_schema_expr(write(walk_identifier(pr, x.c[1]), <<":">>), x.c[2]))
      [] x.n = "TypeAlias" -> EndLine(write_type(write(pr, <<"type">> \o Dotted(x.s)), "=", x.c[1]))
      [] x.n = "Assign" -> EndLine(walk_assign_stmt(pr, x))
      [] x.n = "AugAssign" -> EndLine(print(write(walk_target(pr, x.c[1]), x.s), x.c[2]))
      [] x.n = "Assert" -> EndLine(walk_check_expr(write(pr, <<"assert">>), x))
      [] x.n = "IfStmt" -> walk_if_stmt(pr, x)
      [] x.n = "Import" -> EndLine(write(pr, <<"import">> \o ImportPath(x.s)
                                         \o (IF IsNone(x.c[1]) THEN <<>> ELSE <<"as">> \o x.c[1].s)))
      [] x.n = "Attr" -> EndLine(walk_schema_attr(pr, x))
      [] x.n = "SchemaStmt" -> walk_schema_stmt(pr, x)
      [] x.n = "RuleStmt" -> walk_rule_stmt(pr, x)

stmt(pr, x) == walk_stmt(update_last_ast_line(fill(pr), x), x)
StmtNodes == {"ExprStmt", "Unification", "TypeAlias", "Assign", "AugAssign", "Assert", "IfStmt", "Import", "Attr",
              "SchemaStmt", "RuleStmt"}
\* No indentation is negative: the test has TLC evaluate the printer first.
print(pr, x) ==
    CASE pr.indent < 0 -> pr
      [] x.n \in StmtNodes -> stmt(pr, x)
      [] x.n = "Keyword" -> walk_keyword(pr, x)
      [] x.n = "Param" -> walk_param(pr, x)
      [] x.n = "CompClause" -> walk_comp_clause(pr, x)
      [] x.n = "Entry" -> write_entry(pr, x)
      [] x.n \in {"Member", "PathIndex"} -> walk_path(pr, x)
      [] x.n = "Check" -> walk_check(pr, x)
      [] OTHER -> expr(pr, x)

\* A blank line separates the imports from what follows them.
stmts(pr, xs) ==
    LET a == print(pr, Head(xs))
        ends == Len(xs) > 1 /\ xs[1].n = "Import" /\ xs[2].n # "Import"
    IN  IF xs = <<>> THEN pr ELSE stmts(IF ends THEN EndLine(a) ELSE a, Tail(xs))

print_ast_module(x) ==
    LET doc == x.c[1]
    IN  stmts(IF IsNone(doc) THEN Printer ELSE write_newline(write_newline(write(Printer, doc.s))), x.c[2].c)
=============================================================================
