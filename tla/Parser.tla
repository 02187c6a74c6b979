------------------------------- MODULE Parser -------------------------------
(***************************************************************************)
(* The recursive-descent parser of expressions and statements              *)
(* (kclvm/parser/src/parser): each operator takes the token stream and a   *)
(* position and returns the node and the position after it.                *)
(***************************************************************************)
EXTENDS Syntax

\* What the parser's functions find at a position.  They call each other through
\* Parse, by the name of what they look for (see the table at the end).
RECURSIVE Parse(_, _, _)

\* The first error ends the parse: its position is 0.
Failed(x) == x.p = 0
Failure == Got(NoNode, 0)


\* An item list stops at the closing bracket, at a comprehension, at the end of
\* the file, and at a line break unless the items started on a new line.
IsTerminator(t, p, close, has_newline) ==
    \/ Tok(t, p) \in {close, "EOF", "ERR", "for"}
    \/ Tok(t, p) = "NL" /\ ~has_newline

\* Between two items: an optional comma, and line breaks in a multi-line list.
AfterItem(t, p, has_newline) ==
    LET q == Optional(t, p, ",") IN IF has_newline THEN skip_newlines(t, q) ELSE q

-----------------------------------------------------------------------------
(***************************************************************************)
(* Operators, suffixes and operands.                                       *)
(***************************************************************************)
IfOrNot(t, x) ==
    LET cond == Parse("simple expr", t, x.p + 1)
        orelse == Parse("expr", t, bump_token(t, cond.p, "else"))
    IN  IF x.p = 0 THEN Failure ELSE IF Tok(t, x.p) # "if" THEN x
        ELSE Got(Node("If", <<>>, <<x.v, cond.v, orelse.v>>, x.v.l), orelse.p)

parse_call(t, func, p) ==
    LET args == Parse("arguments", t, p + 1)
    IN  IF args.p = 0 THEN Failure
        ELSE Got(Node("Call", <<>>, <<func, Group(args.v[1]), Group(args.v[2])>>, func.l),
                 bump_token(t, Optional(t, args.p, ","), ")"))

RECURSIVE Arguments(_, _, _, _, _)
Arguments(t, p0, has_newline, args, kws) ==
    LET p == clean_all_indentations(t, p0)
        x == Parse("expr", t, p)
        v == Parse("expr", t, x.p + 1) IN
    CASE IsTerminator(t, p, ")", has_newline) -> Got(<<args, kws>>, p)
      [] Failed(x) -> Failure
      [] Tok(t, x.p) = "=" ->
           IF x.v.n # "Identifier" \/ Failed(v) THEN Failure
           ELSE Arguments(t, AfterItem(t, v.p, has_newline), has_newline, args,
                          Append(kws, Node("Keyword", x.v.s, <<v.v>>, x.v.l)))
      [] OTHER ->
           IF kws # <<>> THEN Failure
           ELSE Arguments(t, AfterItem(t, x.p, has_newline), has_newline, Append(args, x.v), kws)

RECURSIVE Subscripts(_, _, _, _, _, _)
\* es: what was found before the first colon, between the colons, and after the
\* second; n: expressions read minus colons read, which is what the parser counts
\* to tell two expressions in a row.
Subscripts(t, p, es, i, n, round) ==
    LET x == Parse("expr", t, p) IN
    CASE Tok(t, p) = "]" \/ round > 4 -> Got([es |-> es, colons |-> i - 1], bump_token(t, p, "]"))
      [] Tok(t, p) = ":" -> IF i = 3 THEN Got([es |-> es, colons |-> 3], 0)
                            ELSE Subscripts(t, p + 1, es, i + 1, n - 1, round + 1)
      [] OTHER -> IF n >= 1 \/ p = 0 THEN Got([es |-> es, colons |-> i - 1], 0)
                  ELSE Subscripts(t, x.p, [es EXCEPT ![i] = x.v], i, n + 1, round + 1)

parse_subscript_expr(t, x, p) ==
    LET q == Optional(t, p, "?")
        question == IF q = p THEN <<>> ELSE <<"?">>
        r == Parse("subscripts", t, bump_token(t, q, "["))
        index == r.v.colons = 0 IN
    Got(Node(IF index THEN "Index" ELSE "Slice", question,
             <<x>> \o (IF index THEN <<r.v.es[1]>> ELSE r.v.es), x.l),
        IF index /\ IsNone(r.v.es[1]) THEN 0 ELSE r.p)

RECURSIVE parse_suffixes(_, _, _)
parse_suffixes(t, x, p) ==
    LET k == Tok(t, p)
        dot == IF k = "?" THEN p + 1 ELSE p
        attr == Parse("name", t, dot + 1)
        call == parse_call(t, x, p)
        sub == parse_subscript_expr(t, x, p) IN
    CASE k = "." \/ (k = "?" /\ Tok(t, p + 1) = ".") ->
           parse_suffixes(t, Node("Selector", IF k = "?" THEN <<"?">> ELSE <<>>, <<x, attr.v>>, x.l), attr.p)
      [] k = "[" \/ (k = "?" /\ Tok(t, p + 1) = "[") -> parse_suffixes(t, sub.v, sub.p)
      [] k = "(" -> parse_suffixes(t, call.v, call.p)
      [] OTHER -> Got(x, p)

SchemaOf(name, args, config) == Node("Schema", name.s, args \o <<config>>, name.l)

\* An identifier may start a schema instance, with or without arguments.
NamedOperand(t, p) ==
    LET name == Parse("name", t, p)
        call == parse_call(t, name.v, name.p)
        at == IF Tok(t, name.p) = "(" THEN call.p ELSE name.p
        config == Parse("config", t, at) IN
    CASE at = 0 -> Failure
      [] Tok(t, at) = "{" ->
           Got(SchemaOf(name.v, IF at = name.p THEN <<Group(<<>>), Group(<<>>)>>
                                ELSE <<call.v.c[2], call.v.c[3]>>, config.v), config.p)
      [] Tok(t, name.p) = "(" -> call
      [] OTHER -> name

parse_num_expr(t, p) == Got(Node("Number", NumberValue(Tok(t, p)), <<>>, Line(t, p)), p + 1)
parse_str_expr(t, p) == Got(Node("Str", <<Tok(t, p)>>, <<>>, Line(t, p)), p + 1)

RECURSIVE LambdaBody(_, _, _)
\* A lambda's body is a statement list; it may start on the brace's line.
LambdaBody(t, p0, body) ==
    LET p == clean_all_indentations(t, p0)
        x == Parse("stmt", t, p) IN
    IF Tok(t, p) \in {"}", "EOF"} THEN Got(body, p)
    ELSE IF x.p = 0 THEN Failure
    ELSE LambdaBody(t, skip_newlines(t, x.p), Append(body, x.v))

parse_lambda_expr(t, p) ==
    LET args == IF Tok(t, p + 1) \in {"->", "(", "[", "{"} THEN Got(NoNode, p + 1)
                ELSE Parse("lambda parameters", t, p + 1)
        ret == IF Tok(t, args.p) = "->" THEN Parse("type", t, args.p + 1)
               ELSE Got(NoNode, args.p)
        body == LambdaBody(t, AfterOpen(t, bump_token(t, ret.p, "{")), <<>>)
    IN  IF body.p = 0 THEN Failure
        ELSE Got(Node("Lambda", <<>>, <<args.v, ret.v, Group(body.v)>>, Line(t, p)),
                 bump_token(t, body.p, "}"))

QuantTarget(t, p) ==
    LET k == Tok(t, p) IN
    CASE k = "[" -> Parse("list", t, p + 1)
      [] k = "{" -> Parse("config", t, p)
      [] k \in ShortStrings \cup LongStrings -> parse_str_expr(t, p)
      [] k \in {"None", "Undefined", "lambda", "any", "all", "map", "filter"} -> Failure
      [] OTHER -> Parse("name", t, p)

\* A quantifier's body is on the brace's line or alone on lines of its own.
parse_quant_expr(t, p) ==
    LET v1 == Parse("name", t, p + 1)
        v2 == Parse("name", t, v1.p + 1)
        two == Tok(t, v1.p) = ","
        target == QuantTarget(t, bump_token(t, IF two THEN v2.p ELSE v1.p, "in"))
        open == bump_token(t, target.p, "{")
        has_newline == Tok(t, open) = "NL"
        test == Parse("simple expr", t, IF has_newline THEN bump_token(t, skip_newlines(t, open), "IN")
                                     ELSE open)
        cond == IF Tok(t, test.p) = "if" THEN Parse("expr", t, test.p + 1) ELSE Got(NoNode, test.p)
        close == IF has_newline
                 THEN bump_token(t, skip_newlines(t, bump_token(t, cond.p, "NL")), "OUT")
                 ELSE cond.p
    IN  IF Failed(target) \/ Failed(test) \/ Failed(cond) THEN Failure
        ELSE Got(Node("Quant", <<Tok(t, p)>>,
                      <<Group(IF two THEN <<v1.v, v2.v>> ELSE <<v1.v>>), target.v, test.v, cond.v>>,
                      Line(t, p)),
                 bump_token(t, close, "}"))

parse_operand_expr(t, p) ==
    LET k == Tok(t, p)
        paren == Parse("expr", t, p + 1) IN
    CASE k \in {"None", "Undefined", "True", "False"} ->
           Got(Node("Constant", <<k>>, <<>>, Line(t, p)), p + 1)
      [] k = "lambda" -> parse_lambda_expr(t, p)
      [] k \in {"any", "all", "map", "filter"} -> parse_quant_expr(t, p)
      [] k \in Integers_ \cup Floats -> parse_num_expr(t, p)
      [] k \in ShortStrings \cup LongStrings -> parse_str_expr(t, p)
      [] k = "(" -> Got(Node("Paren", <<>>, <<paren.v>>, Line(t, p)), bump_token(t, paren.p, ")"))
      [] k = "[" -> Parse("list", t, p + 1)
      [] k = "{" -> Parse("config", t, p)
      [] IsIdent(k) -> NamedOperand(t, p)
      [] OTHER -> Failure

WithSuffixes(t, x) == IF x.p = 0 THEN Failure ELSE parse_suffixes(t, x.v, x.p)
parse_primary_expr(t, p) == WithSuffixes(t, parse_operand_expr(t, p))

\* A prefix operator takes a primary expression, not another prefix operator.
IsUnary(t, p) == Tok(t, p) \in {"+", "-", "~", "not"}
Prefixed(t, p, x) == IF IsUnary(t, p) THEN Got(Node("Unary", <<Tok(t, p)>>, <<x.v>>, Line(t, p)), x.p) ELSE x
parse_unary_expr(t, p) == Prefixed(t, p, parse_primary_expr(t, IF IsUnary(t, p) THEN p + 1 ELSE p))

RECURSIVE do_parse_simple_expr(_, _, _), Climb(_, _, _, _, _, _)
\* Mutant: an operator of the same level is taken into the right operand.
ClimbRight(t, x, ops, ys, p, prec) ==
    LET op == Operator(t, p)
        y == do_parse_simple_expr(t, AfterOperator(t, p), Precedence(op) - 1) IN
    CASE Precedence(op) <= prec -> Got(Compared(x, ops, ys), p)
      [] op \in CompareOps -> Climb(t, x, Append(ops, op), Append(ys, y.v), y.p, prec)
      [] op \in BinaryOps -> Climb(t, Node("Binary", <<op>>, <<Compared(x, ops, ys), y.v>>, x.l),
                                   <<>>, <<>>, y.p, prec)
      [] OTHER -> Got(x, 0)

\* Operators that bind tighter than prec are taken, a right operand takes what binds
\* tighter than its operator.  Comparisons in a row make one chain.
Climb(t, x, ops, ys, p, prec) ==
    LET op == Operator(t, p)
        y == do_parse_simple_expr(t, AfterOperator(t, p), Precedence(op)) IN
    CASE Precedence(op) <= prec -> Got(Compared(x, ops, ys), p)
      [] op \in CompareOps -> Climb(t, x, Append(ops, op), Append(ys, y.v), y.p, prec)
      [] op \in BinaryOps -> Climb(t, Node("Binary", <<op>>, <<Compared(x, ops, ys), y.v>>, x.l),
                                   <<>>, <<>>, y.p, prec)
      [] OTHER -> Got(x, 0)

WithOperators(t, x, prec) == IF x.p = 0 THEN Failure ELSE Climb(t, x.v, <<>>, <<>>, x.p, prec)
do_parse_simple_expr(t, p, prec) == WithOperators(t, parse_unary_expr(t, p), prec)

parse_expr(t, p) == IF Tok(t, p) = "IN" THEN Failure ELSE IfOrNot(t, do_parse_simple_expr(t, p, 0))

-----------------------------------------------------------------------------
(***************************************************************************)
(* Lists.                                                                  *)
(***************************************************************************)
RECURSIVE Targets(_, _, _)
Targets(t, p, ids) ==
    LET id == Parse("name", t, p)
    IN  IF Tok(t, id.p) = "," THEN Targets(t, id.p + 1, Append(ids, id.v))
        ELSE Got(Append(ids, id.v), id.p)
RECURSIVE CompIfs(_, _, _)
CompIfs(t, p, ifs) ==
    LET x == Parse("expr", t, p + 1)
    IN  IF Tok(t, p) = "if" THEN CompIfs(t, x.p, Append(ifs, x.v)) ELSE Got(ifs, p)
RECURSIVE parse_comp_clauses(_, _, _)
parse_comp_clauses(t, p, gens) ==
    LET targets == Targets(t, p + 1, <<>>)
        iter == Parse("simple expr", t, bump_token(t, targets.p, "in"))
        ifs == CompIfs(t, skip_newlines(t, iter.p), <<>>) IN
    IF Tok(t, p) # "for" THEN Got(gens, p)
    ELSE parse_comp_clauses(t, ifs.p, Append(gens,
           Node("CompClause", <<>>, <<Group(targets.v), iter.v, Group(ifs.v)>>, Line(t, p))))

\* After the items of a list or a configuration: comprehension clauses, then the
\* line break and whatever levels it closed, then the bracket.
Closed(t, p, close, one, many, l) ==
    LET gens == Parse("comp clauses", t, p)
        q == bump_token(t, clean_all_indentations(t, skip_newlines(t, gens.p)), close) IN
    IF gens.v = <<>> THEN Got(Node(many.n, <<>>, many.c, l), q)
    ELSE Got(Node(one, <<>>, many.c \o gens.v, l), IF Len(many.c) = 1 THEN q ELSE 0)

RECURSIVE parse_list_items(_, _, _, _)
parse_list_items(t, p0, has_newline, items) ==
    LET p == clean_all_indentations(t, p0)
        x == Parse("list item", t, p) IN
    IF IsTerminator(t, p, "]", has_newline) THEN Got(items, p)
    ELSE IF x.p = 0 THEN Failure
    ELSE parse_list_items(t, AfterItem(t, x.p, has_newline), has_newline, Append(items, x.v))

\* p is after the bracket.
parse_list_expr(t, p) ==
    LET l == Line(t, p - 1)
        items == parse_list_items(t, AfterOpen(t, p), Tok(t, p) = "NL", <<>>)
    IN  IF items.p = 0 THEN Failure ELSE Closed(t, items.p, "]", "ListComp", Node("List", <<>>, items.v, l), l)

parse_list_item(t, p) ==
    LET x == Parse("expr", t, p + 1) IN
    CASE Tok(t, p) = "*" -> Got(Node("Starred", <<>>, <<x.v>>, Line(t, p)), x.p)
      [] Tok(t, p) = "if" -> Parse("if item", t, p)
      [] OTHER -> Parse("expr", t, p)

\* if and elif items; once a block was indented, later blocks must be too.
parse_if_item_expr(t, p, need_skip_newlines) ==
    LET cond == Parse("expr", t, p + 1)
        colon == bump_token(t, cond.p, ":")
        multi == need_skip_newlines \/ Tok(t, colon) = "NL"
        body == Parse(IF multi THEN "list block" ELSE "list item as block", t, colon)
        after == IF Tok(t, p) = "if" THEN skip_newlines(t, body.p) ELSE body.p
        elif == Parse(IF multi THEN "if item in lines" ELSE "if item", t, after)
        last == skip_newlines(t, after)
        colon2 == bump_token(t, last + 1, ":")
        else == Parse(IF multi \/ Tok(t, colon2) = "NL" THEN "list block" ELSE "list item as block", t, colon2)
        orelse == CASE Tok(t, after) = "elif" -> elif
                    [] Tok(t, last) = "else" -> Got(Node("List", <<>>, else.v, Line(t, last)), else.p)
                    [] OTHER -> Got(NoNode, last)
    IN  IF Failed(body) \/ Failed(orelse) THEN Failure
        ELSE Got(Node("ListIf", <<>>, <<cond.v, Group(body.v), orelse.v>>, Line(t, p)), orelse.p)
ListItemAsBlock(t, p) == LET x == Parse("list item", t, p) IN Got(<<x.v>>, x.p)
RECURSIVE ListBlockItems(_, _, _)
ListBlockItems(t, p, items) ==
    LET x == Parse("list item", t, p) IN
    IF Tok(t, p) = "OUT" THEN Got(items, bump_token(t, p, "OUT"))
    ELSE IF x.p = 0 THEN Failure
    ELSE ListBlockItems(t, AfterItem(t, x.p, TRUE), Append(items, x.v))
parse_list_block(t, p) == ListBlockItems(t, bump_token(t, skip_newlines(t, p), "IN"), <<>>)

-----------------------------------------------------------------------------
(***************************************************************************)
(* Configurations.                                                         *)
(***************************************************************************)
EntryOps == {":", "=", "+="}

\* An entry: a key and a value, an unpacked value, or a conditional block.
parse_config_entry(t, p) ==
    LET k == Tok(t, p)
        x == Parse("expr", t, IF k = "**" THEN p + 1 ELSE p)
        cond == Parse("if entry", t, p)
        v == Parse("expr", t, x.p + 1) IN
    CASE k = "if" -> IF Failed(cond) THEN Failure
                     ELSE Got(Node("Entry", <<":">>, <<NoNode, cond.v>>, Line(t, p)), cond.p)
      [] k # "if" /\ Failed(x) -> Failure
      [] k = "**" -> Got(Node("Entry", <<":">>, <<NoNode, x.v>>, Line(t, p)), x.p)
      [] Tok(t, x.p) \in EntryOps ->
           IF Failed(v) THEN Failure
           ELSE Got(Node("Entry", <<Tok(t, x.p)>>, <<x.v, v.v>>, Line(t, p)), v.p)
      [] OTHER -> Failure

RECURSIVE parse_config_entries(_, _, _, _)
parse_config_entries(t, p0, has_newline, items) ==
    LET p == clean_all_indentations(t, p0)
        x == Parse("config entry", t, p) IN
    IF IsTerminator(t, p, "}", has_newline) THEN Got(items, p)
    ELSE IF x.p = 0 THEN Failure
    ELSE parse_config_entries(t, AfterItem(t, x.p, has_newline), has_newline, Append(items, x.v))

\* The opening brace is skipped without a look at it.
parse_config_expr(t, p) ==
    LET items == parse_config_entries(t, AfterOpen(t, bump(p)), Tok(t, bump(p)) = "NL", <<>>)
    IN  IF items.p = 0 THEN Failure ELSE Closed(t, items.p, "}", "DictComp", Node("Config", <<>>, items.v, Line(t, p)), Line(t, p))

\* An entry of a conditional block: an unpacked value there is a primary expression,
\* and both it and a nested condition are recorded as overrides.
IfEntryItem(t, p) ==
    LET k == Tok(t, p)
        u == Parse("primary expr", t, p + 1)
        cond == Parse("if entry", t, p)
        x == Parse("expr", t, p)
        v == Parse("expr", t, x.p + 1) IN
    CASE k = "**" -> Got(Node("Entry", <<"=">>, <<NoNode, u.v>>, u.v.l), u.p)
      [] k = "if" -> Got(Node("Entry", <<"=">>, <<NoNode, cond.v>>, cond.v.l), cond.p)
      [] Failed(x) -> Failure
      [] Tok(t, x.p) \in EntryOps -> IF Failed(v) THEN Failure ELSE Got(Node("Entry", <<Tok(t, x.p)>>, <<x.v, v.v>>, x.v.l), v.p)
      [] OTHER -> Failure
RECURSIVE IfEntryItems(_, _, _)
IfEntryItems(t, p, items) ==
    LET x == Parse("if entry item", t, p) IN
    CASE Tok(t, p) = "OUT" -> Got(items, skip_newlines(t, p + 1))
      [] Tok(t, p) \in {"elif", "else", "NL", "EOF"} -> Got(items, skip_newlines(t, p))
      [] Failed(x) -> Failure
      [] OTHER -> IfEntryItems(t, AfterItem(t, x.p, TRUE), Append(items, x.v))
parse_if_entry_exec_block(t, p, multi) ==
    LET x == Parse("if entry item", t, p) IN
    IF multi THEN IfEntryItems(t, bump_token(t, skip_newlines(t, p), "IN"), <<>>)
    ELSE Got(<<x.v>>, x.p)

RECURSIVE IfEntryElifs(_, _, _)
IfEntryElifs(t, p, need_skip_newlines) ==
    LET cond == Parse("expr", t, p + 1)
        colon == bump_token(t, cond.p, ":")
        multi == need_skip_newlines \/ Tok(t, colon) = "NL"
        body == parse_if_entry_exec_block(t, colon, multi)
        rest == IfEntryElifs(t, body.p, multi)
        last == skip_newlines(t, p)
        colon2 == bump_token(t, last + 1, ":")
        else == parse_if_entry_exec_block(t, colon2, Tok(t, colon2) = "NL") IN
    CASE Tok(t, p) = "elif" ->
           Got(Node("ConfigIf", <<>>, <<cond.v, Group(body.v), rest.v>>, Line(t, p)), rest.p)
      [] Tok(t, last) = "else" -> Got(Node("Config", <<>>, else.v, Line(t, last)), else.p)
      [] OTHER -> Got(NoNode, last)
parse_if_entry_expr(t, p) ==
    LET cond == Parse("expr", t, p + 1)
        colon == bump_token(t, cond.p, ":")
        body == parse_if_entry_exec_block(t, colon, Tok(t, colon) = "NL")
        rest == IfEntryElifs(t, skip_newlines(t, body.p), FALSE)
    IN  IF Failed(body) \/ Failed(rest) THEN Failure
        ELSE Got(Node("ConfigIf", <<>>, <<cond.v, Group(body.v), rest.v>>, Line(t, p)),
                 AfterItem(t, rest.p, TRUE))

-----------------------------------------------------------------------------
(***************************************************************************)
(* Statements.                                                             *)
(***************************************************************************)
RECURSIVE parse_parameters(_, _, _, _)
parse_parameters(t, p, close, ps) ==
    LET id == Parse("name", t, p)
        ty == IF Tok(t, id.p) = ":" THEN Parse("type", t, id.p + 1) ELSE Got(NoNode, id.p)
        def == IF Tok(t, ty.p) = "=" THEN Parse("expr", t, ty.p + 1) ELSE Got(NoNode, ty.p) IN
    IF Tok(t, p) \in close THEN Got(Node("Arguments", <<>>, ps, 0), p)
    ELSE IF Tok(t, p) \in {"NL", "EOF", "ERR"} THEN Failure
    ELSE parse_parameters(t, Optional(t, def.p, ","), close,
                          Append(ps, Node("Param", id.v.s, <<ty.v, def.v>>, id.v.l)))

BracketedParameters(t, p) ==
    LET args == Parse("parameters", t, p + 1) IN
    IF Tok(t, p) = "[" THEN Got(args.v, skip_newlines(t, bump_token(t, args.p, "]")))
    ELSE Got(NoNode, p)

RECURSIVE parse_decorators(_, _, _)
parse_decorators(t, p, ds) ==
    LET x == Parse("expr", t, p + 1)
        call == IF x.v.n = "Identifier" THEN Node("Call", <<>>, <<x.v, Group(<<>>), Group(<<>>)>>, x.v.l)
                ELSE x.v IN
    IF Tok(t, p) # "@" THEN Got(ds, skip_newlines(t, p))
    ELSE IF x.v.n \notin {"Identifier", "Call"} THEN Got(ds, 0)
    ELSE parse_decorators(t, skip_newlines(t, x.p), Append(ds, call))

RECURSIVE expr_as_assign_target_paths(_)
\* The names and indexes of an assignable expression, NoNode where it is not one.
expr_as_assign_target_paths(x) ==
    LET inner == expr_as_assign_target_paths(x.c[1]) IN
    CASE x.n = "Identifier" -> [i \in DOMAIN x.s |-> Node("Member", <<x.s[i]>>, <<>>, 0)]
      [] x.n = "Selector" /\ x.s = <<>> -> inner \o expr_as_assign_target_paths(x.c[2])
      [] x.n = "Index" /\ x.s = <<>> -> Append(inner, Node("PathIndex", <<>>, <<x.c[2]>>, 0))
      [] OTHER -> <<NoNode>>
expr_as_assign_target(x) == Node("Target", <<>>, expr_as_assign_target_paths(x), x.l)
IsTarget(x) == \A i \in DOMAIN x.c : ~IsNone(x.c[i])

RECURSIVE AssignChain(_, _, _)
AssignChain(t, p, xs) ==
    LET x == Parse("expr", t, p + 1)
    IN  IF Tok(t, p) # "=" THEN Got(xs, p)
        ELSE IF x.p = 0 THEN Failure ELSE AssignChain(t, x.p, Append(xs, x.v))

\* One statement form for all that starts with an expression.  Inside a schema an
\* annotated name is an attribute; a value that is then augmented is dropped.
parse_expr_or_assign_stmt(t, p, in_schema) ==
    LET x == Parse("expr", t, p)
        l == Line(t, p)
        ty == IF Tok(t, x.p) = ":" THEN Parse("type", t, x.p + 1) ELSE Got(NoNode, x.p)
        name == Node("Identifier", ty.v.s, <<>>, l)
        call == parse_call(t, name, ty.p)
        config == Parse("config", t, IF Tok(t, ty.p) = "(" THEN call.p ELSE ty.p)
        args == IF Tok(t, ty.p) = "(" THEN <<call.v.c[2], call.v.c[3]>> ELSE <<Group(<<>>), Group(<<>>)>>
        xs == AssignChain(t, ty.p, <<x.v>>)
        targets == [i \in 1..(Len(xs.v) - 1) |-> expr_as_assign_target(xs.v[i])]
        value == Parse("expr", t, xs.p + 1)
        target == expr_as_assign_target(x.v)
        attr(names, op, v) == Node("Attr", <<op, "">>,
                                   <<Node("Name", names, <<>>, l), ty.v, v, Group(<<>>)>>, l)
        found ==
          CASE ~IsNone(ty.v) /\ Tok(t, ty.p) \in {"{", "("} /\ ty.v.n = "TypeNamed" ->
                 IF x.v.n # "Identifier" THEN Failure
                 ELSE Got(Node("Unification", <<>>, <<x.v, SchemaOf(name, args, config.v)>>, l), config.p)
            [] IsNone(ty.v) /\ Tok(t, x.p) \in AugOps ->
                 Got(Node("AugAssign", <<Tok(t, x.p)>>, <<target, value.v>>, l),
                     IF IsTarget(target) THEN value.p ELSE 0)
            [] in_schema /\ ~IsNone(ty.v) /\ Len(xs.v) \in {1, 2} /\ Tok(t, xs.p) \in AugOps ->
                 Got(attr(x.v.s, Tok(t, xs.p), value.v), IF x.v.n = "Identifier" THEN value.p ELSE 0)
            [] Len(xs.v) > 1 ->
                 IF \E i \in DOMAIN targets : ~IsTarget(targets[i]) THEN Failure
                 ELSE IF in_schema /\ ~IsNone(ty.v) /\ Len(targets) = 1
                 THEN Got(attr(targets[1].c[1].s, "=", Last(xs.v)), xs.p)
                 ELSE Got(Node("Assign", <<>>, <<Group(targets), ty.v, Last(xs.v)>>, l), xs.p)
            [] IsNone(ty.v) -> Got(Node("ExprStmt", <<>>, <<x.v>>, l), x.p)
            [] in_schema /\ x.v.n = "Identifier" -> Got(attr(x.v.s, "", NoNode), ty.p)
            [] OTHER -> Failure
    IN  IF x.p = 0 \/ xs.p = 0 THEN Failure ELSE Got(found.v, skip_newlines(t, found.p))

parse_assert_stmt(t, p) ==
    LET test == Parse("simple expr", t, p + 1)
        cond == IF Tok(t, test.p) = "if" THEN Parse("simple expr", t, test.p + 1) ELSE Got(NoNode, test.p)
        msg == IF Tok(t, cond.p) = "," THEN Parse("expr", t, cond.p + 1) ELSE Got(NoNode, cond.p)
    IN  Got(Node("Assert", <<>>, <<test.v, cond.v, msg.v>>, Line(t, p)), skip_newlines(t, msg.p))

parse_import_stmt(t, p) ==
    LET dots == SkipAll(t, SkipAll(t, p + 1, "..."), ".")
        path == Parse("name", t, dots)
        as == Parse("name", t, path.p + 1)
        leading == [i \in 1..(dots - p - 1) |-> Tok(t, p + i)] IN
    IF Tok(t, path.p) = "as"
    THEN Got(Node("Import", leading \o path.v.s, <<as.v>>, Line(t, p)),
             IF Len(as.v.s) = 1 THEN skip_newlines(t, as.p) ELSE 0)
    ELSE Got(Node("Import", leading \o path.v.s, <<NoNode>>, Line(t, p)), skip_newlines(t, path.p))

parse_type_alias_stmt(t, p) ==
    LET name == Parse("expr", t, p + 1)
        ty == Parse("type", t, bump_token(t, name.p, "="))
    IN  Got(Node("TypeAlias", name.v.s, <<ty.v>>, Line(t, p + 1)),
            IF name.v.n = "Identifier" THEN skip_newlines(t, ty.p) ELSE 0)

RECURSIVE BlockStmts(_, _, _)
BlockStmts(t, p, body) ==
    LET x == Parse("stmt", t, p) IN
    CASE Tok(t, p) = "OUT" -> Got(body, skip_newlines(t, p + 1))
      [] x.p = 0 -> Failure
      [] OTHER -> BlockStmts(t, x.p, Append(body, x.v))

\* The block after a colon: one simple statement on the line, or an indented list.
ExecutionBlock(t, p) ==
    LET x == Parse("assign stmt", t, p) IN
    IF Tok(t, p) # "NL" THEN Got(<<x.v>>, x.p)
    ELSE BlockStmts(t, bump_token(t, skip_newlines(t, p), "IN"), <<>>)

parse_if_stmt(t, p) ==
    LET cond == Parse("expr", t, p + 1)
        body == Parse("block", t, bump_token(t, cond.p, ":"))
        elif == Parse("if stmt", t, body.p)
        else == Parse("block", t, bump_token(t, body.p + 1, ":"))
        orelse == CASE Tok(t, body.p) = "elif" -> Got(<<elif.v>>, elif.p)
                    [] Tok(t, body.p) = "else" -> else
                    [] OTHER -> Got(<<>>, body.p)
    IN  IF body.p = 0 \/ orelse.p = 0 THEN Failure
        ELSE Got(Node("IfStmt", <<>>, <<cond.v, Group(body.v), Group(orelse.v)>>, Line(t, p)),
                 skip_newlines(t, orelse.p))

\* Only a long string is a doc string.
parse_doc(t, p) ==
    IF Tok(t, p) \in LongStrings
    THEN Got(Node("Doc", <<Tok(t, p)>>, <<>>, Line(t, p)), skip_newlines(t, p + 1))
    ELSE Got(NoNode, p)

RECURSIVE Mixins(_, _, _)
Mixins(t, p, ids) ==
    LET id == Parse("name", t, p) IN
    IF Tok(t, p) \in {"]", "OUT", "ERR"} THEN Got(ids, p)
    ELSE Mixins(t, AfterItem(t, id.p, TRUE), Append(ids, id.v))
parse_mixins(t, p) ==
    LET open == bump_token(t, p + 1, "[")
        multi == Tok(t, open) = "NL"
        ids == Mixins(t, IF multi THEN bump_token(t, skip_newlines(t, open), "IN") ELSE open, <<>>)
        close == IF multi THEN bump_token(t, ids.p, "OUT") ELSE ids.p IN
    IF Tok(t, p) # "mixin" THEN Got(<<>>, p)
    ELSE Got(ids.v, skip_newlines(t, bump_token(t, close, "]")))

parse_schema_attribute(t, p) ==
    LET ds == Parse("decorators", t, p)
        k == Tok(t, ds.p)
        quoted == k \in ShortStrings
        name == Parse("name", t, ds.p)
        after == IF quoted THEN ds.p + 1 ELSE name.p
        colon == Optional(t, after, "?")
        ty == Parse("type", t, bump_token(t, colon, ":"))
        op == Tok(t, ty.p) \in {"="} \cup AugOps
        v == IF op THEN Parse("expr", t, ty.p + 1) ELSE Got(NoNode, ty.p)
    IN  IF ds.p = 0 \/ v.p = 0 THEN Failure
        ELSE Got(Node("Attr", <<IF op THEN Tok(t, ty.p) ELSE "", IF colon = after THEN "" ELSE "?">>,
                      <<Node(IF quoted THEN "QuotedName" ELSE "Name",
                             IF quoted THEN NameIn(k) ELSE name.v.s, <<>>, Line(t, ds.p)),
                        ty.v, v.v, Group(ds.v)>>, Line(t, p)),
                 skip_newlines(t, v.p))

\* p is after the bracket.  [..., key type], [key type] or [name: ... key type].
parse_schema_index_signature(t, p) ==
    LET id == Parse("name", t, p)
        bare == Tok(t, id.p) = "]"
        colon == bump_token(t, id.p, ":")
        key == CASE Tok(t, p) = "..." -> Parse("type", t, p + 1)
                 [] bare -> Got(Node("TypeNamed", id.v.s, <<>>, id.v.l), id.p)
                 [] OTHER -> Parse("type", t, Optional(t, colon, "..."))
        any_other == Tok(t, p) = "..." \/ (~bare /\ Tok(t, colon) = "...")
        ty == Parse("type", t, bump_token(t, bump_token(t, key.p, "]"), ":"))
        v == IF Tok(t, ty.p) = "=" THEN Parse("expr", t, ty.p + 1) ELSE Got(NoNode, ty.p)
    IN  Got(Node("IndexSignature",
                 (IF any_other THEN <<"...">> ELSE <<>>)
                   \o (IF Tok(t, p) = "..." \/ bare THEN <<>> ELSE id.v.s),
                 <<key.v, ty.v, v.v>>, Line(t, p)),
            skip_newlines(t, v.p))

IsIndexSignature(t, p) ==
    \/ Tok(t, p) = "..." /\ IsIdent(Tok(t, p + 1))
    \/ IsIdent(Tok(t, p)) /\ ":" \in {Tok(t, p + 1), Tok(t, p + 2)}
IsListStart(t, p) == Tok(t, p) \in {"NL", "]"} \/ IsIdent(Tok(t, p))

RECURSIVE SchemaItems(_, _, _, _)
SchemaItems(t, p, body, sig) ==
    LET k == Tok(t, p)
        item == CASE k = "assert" -> parse_assert_stmt(t, p)
                  [] k = "if" -> Parse("if stmt", t, p)
                  [] \/ k = "@"
                     \/ Tok(t, p + 1) = "?"
                     \/ k \in ShortStrings /\ Tok(t, p + 1) = ":" -> parse_schema_attribute(t, p)
                  [] OTHER -> Parse("schema item", t, p)
        is == parse_schema_index_signature(t, p + 1)
        list == Parse("list", t, p + 1) IN
    CASE k \in {"OUT", "EOF", "ERR", "check"} -> Got([body |-> body, sig |-> sig], p)
      [] k = "[" /\ IsIndexSignature(t, p + 1) ->
           IF IsNone(sig) THEN SchemaItems(t, is.p, body, is.v) ELSE Got([body |-> body, sig |-> sig], 0)
      [] k = "[" /\ IsListStart(t, p + 1) ->
           SchemaItems(t, skip_newlines(t, list.p),
                       Append(body, Node("ExprStmt", <<>>, <<list.v>>, Line(t, p))), sig)
      [] k = "[" -> Got([body |-> body, sig |-> sig], 0)
      [] item.p = 0 -> Got([body |-> body, sig |-> sig], 0)
      [] OTHER -> SchemaItems(t, item.p, Append(body, item.v), sig)

parse_check_expr(t, p) ==
    LET test == Parse("simple expr", t, p)
        cond == IF Tok(t, test.p) = "if" THEN Parse("simple expr", t, test.p + 1) ELSE Got(NoNode, test.p)
        msg == IF Tok(t, cond.p) = "," THEN Parse("primary expr", t, cond.p + 1) ELSE Got(NoNode, cond.p)
    IN  Got(Node("Check", <<>>, <<test.v, cond.v, msg.v>>, Line(t, p)), msg.p)
RECURSIVE CheckExprs(_, _, _)
CheckExprs(t, p, checks) ==
    LET x == parse_check_expr(t, p) IN
    IF Tok(t, p) \in {"OUT", "EOF"} THEN Got(checks, bump_token(t, p, "OUT"))
    ELSE IF x.p = 0 THEN Failure
    ELSE CheckExprs(t, skip_newlines(t, x.p), Append(checks, x.v))
parse_schema_check_block(t, p) ==
    IF Tok(t, p) # "check" THEN Got(<<>>, p)
    ELSE Parse("checks", t, bump_token(t, skip_newlines(t, bump_token(t, p + 1, ":")), "IN"))

\* The names that end in Mixin, and those that end in Protocol.
MixinNames == {"AMixin"}
ProtocolNames == {"AProtocol"}

\* `for Host`, in a schema and in a rule.
ForHost(t, p) ==
    LET x == Parse("expr", t, p + 1) IN
    IF Tok(t, p) # "for" THEN Got(NoNode, p)
    ELSE Got(x.v, IF x.v.n = "Identifier" THEN x.p ELSE 0)

\* The body of a schema after its colon; without an indented block it is empty.
parse_schema_body(t, p) ==
    LET in == bump_token(t, p, "IN")
        doc == IF Tok(t, in + 1) = ":" THEN Got(NoNode, in) ELSE parse_doc(t, in)
        mixins == Parse("mixins", t, doc.p)
        items == Parse("schema items", t, mixins.p)
        checks == Parse("check block", t, items.p) IN
    IF Tok(t, p) # "IN" THEN Got(<<NoNode, Group(<<>>), NoNode, Group(<<>>), Group(<<>>)>>, p)
    ELSE IF items.p = 0 \/ checks.p = 0 THEN Failure
    ELSE Got(<<doc.v, Group(mixins.v), items.v.sig, Group(items.v.body), Group(checks.v)>>,
             skip_newlines(t, bump_token(t, checks.p, "OUT")))

parse_schema_stmt(t, p, ds, l) ==
    LET name == Parse("name", t, p + 1)
        mixin_name == Last(name.v.s) \in MixinNames
        flags == (IF Tok(t, p) = "mixin" \/ mixin_name THEN <<"mixin">> ELSE <<>>)
                   \o (IF \/ Tok(t, p) = "protocol"
                          \/ ~mixin_name /\ Last(name.v.s) \in ProtocolNames
                       THEN <<"protocol">> ELSE <<>>)
        args == BracketedParameters(t, name.p)
        base == Parse("name", t, args.p + 1)
        parent == IF Tok(t, args.p) = "(" THEN Got(base.v, bump_token(t, base.p, ")"))
                  ELSE Got(NoNode, args.p)
        host == ForHost(t, parent.p)
        body == Parse("schema body", t, skip_newlines(t, bump_token(t, host.p, ":")))
    IN  IF body.p = 0 THEN Failure
        ELSE Got(Node("SchemaStmt", name.v.s,
                      <<Node("Flags", flags, <<>>, 0), args.v, parent.v, host.v, Group(ds)>> \o body.v, l),
                 body.p)

RECURSIVE ParentRules(_, _, _)
ParentRules(t, p, ids) ==
    LET x == Parse("expr", t, p) IN
    IF Tok(t, p) = ")" THEN Got(ids, p + 1)
    ELSE IF x.v.n # "Identifier" \/ Tok(t, x.p) \notin {",", ")"} THEN Got(ids, 0)
    ELSE ParentRules(t, Optional(t, x.p, ","), Append(ids, x.v))

parse_rule_stmt(t, p, ds, l) ==
    LET name == Parse("name", t, p + 1)
        args == BracketedParameters(t, name.p)
        parents == IF Tok(t, args.p) = "(" THEN ParentRules(t, args.p + 1, <<>>) ELSE Got(<<>>, args.p)
        host == ForHost(t, parents.p)
        doc == parse_doc(t, bump_token(t, skip_newlines(t, bump_token(t, host.p, ":")), "IN"))
        checks == Parse("checks", t, doc.p)
    IN  Got(Node("RuleStmt", name.v.s,
                 <<args.v, Group(parents.v), host.v, Group(ds), doc.v, Group(checks.v)>>, l), checks.p)

\* Decorators in front of a statement that is neither a schema nor a rule are read
\* and dropped.
parse_stmt(t, p0) ==
    LET p1 == skip_newlines(t, p0)
        ds == Parse("decorators", t, p1)
        p == IF Tok(t, p1) = "@" THEN ds.p ELSE p1
        k == Tok(t, p)
        x == Parse("expr", t, p) IN
    CASE k = "if" /\ p = p1 -> Parse("if stmt", t, p)
      [] k \in {"schema", "mixin", "protocol"} ->
           parse_schema_stmt(t, p, IF p = p1 THEN <<>> ELSE ds.v, Line(t, p))
      [] k = "rule" -> parse_rule_stmt(t, p, IF p = p1 THEN <<>> ELSE ds.v, Line(t, p))
      [] k = "import" -> parse_import_stmt(t, p)
      [] k = "type" -> parse_type_alias_stmt(t, p)
      [] k = "assert" -> parse_assert_stmt(t, p)
      [] k = "~" -> Got(Node("ExprStmt", <<>>, <<x.v>>, Line(t, p)), skip_newlines(t, x.p))
      [] k \in Literals \cup {"(", "[", "{"} \/ IsIdent(k) -> Parse("assign stmt", t, p)
      [] OTHER -> Failure

RECURSIVE Statements(_, _, _)
Statements(t, p0, body) ==
    LET p == skip_newlines(t, p0)
        x == Parse("stmt", t, p) IN
    IF Tok(t, p) = "EOF" THEN Got(body, p)
    ELSE IF x.p = 0 THEN Failure
    ELSE Statements(t, x.p, Append(body, x.v))

\* No position is negative: the test has TLC evaluate it before the function starts.
Parse(what, t, p) ==
    CASE p < 0 -> Failure
      [] what = "expr" -> parse_expr(t, p)
      [] what = "simple expr" -> do_parse_simple_expr(t, p, 0)
      [] what = "primary expr" -> parse_primary_expr(t, p)
      [] what = "name" -> parse_identifier(t, p)
      [] what = "type" -> parse_type_annotation(t, p)
      [] what = "arguments" -> Arguments(t, AfterOpen(t, p), Tok(t, p) = "NL", <<>>, <<>>)
      [] what = "subscripts" -> Subscripts(t, p, <<NoNode, NoNode, NoNode>>, 1, 0, 0)
      [] what = "list" -> parse_list_expr(t, p)
      [] what = "list item" -> parse_list_item(t, p)
      [] what = "list item as block" -> ListItemAsBlock(t, p)
      [] what = "list block" -> parse_list_block(t, p)
      [] what = "comp clauses" -> parse_comp_clauses(t, p, <<>>)
      [] what = "if item" -> parse_if_item_expr(t, p, FALSE)
      [] what = "if item in lines" -> parse_if_item_expr(t, p, TRUE)
      [] what = "config" -> parse_config_expr(t, p)
      [] what = "config entry" -> parse_config_entry(t, p)
      [] what = "if entry" -> parse_if_entry_expr(t, p)
      [] what = "if entry item" -> IfEntryItem(t, p)
      [] what = "lambda parameters" -> parse_parameters(t, p, {"->", "{"}, <<>>)
      [] what = "parameters" -> parse_parameters(t, p, {"]"}, <<>>)
      [] what = "decorators" -> parse_decorators(t, p, <<>>)
      [] what = "stmts" -> Statements(t, p, <<>>)
      [] what = "stmt" -> parse_stmt(t, p)
      [] what = "assign stmt" -> parse_expr_or_assign_stmt(t, p, FALSE)
      [] what = "schema item" -> parse_expr_or_assign_stmt(t, p, TRUE)
      [] what = "block" -> ExecutionBlock(t, p)
      [] what = "if stmt" -> parse_if_stmt(t, p)
      [] what = "schema body" -> parse_schema_body(t, p)
      [] what = "mixins" -> parse_mixins(t, p)
      [] what = "schema items" -> SchemaItems(t, p, <<>>, NoNode)
      [] what = "check block" -> parse_schema_check_block(t, p)
      [] what = "checks" -> CheckExprs(t, p, <<>>)

ModuleOf(doc, body) == IF body.p = 0 THEN NoNode ELSE Node("Module", <<>>, <<doc.v, Group(body.v)>>, 1)
\* The tree of a text, NoNode when it has a syntax error.
parse_module(text) ==
    LET t == into_tokens(text)
        doc == parse_doc(t, 1)
    IN  ModuleOf(doc, Parse("stmts", t, doc.p))
=============================================================================
