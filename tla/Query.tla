------------------------------- MODULE Query --------------------------------
(***************************************************************************)
(* The query tools (kclvm/query): override_file changes the value at a     *)
(* path of a file and writes the file back, list_variables lists the       *)
(* values at a path.  A path, a value and an override specification are    *)
(* sequences of words, as the texts of module Syntax are.                  *)
(*                                                                         *)
(* A key is the sequence of its dotted parts, so a quoted key and a dotted *)
(* one with the same spelling are the same key.  A text with a syntax      *)
(* error, which the tools repair and rewrite, is left out.                 *)
(***************************************************************************)
EXTENDS Parser
Pretty == INSTANCE Printer

-----------------------------------------------------------------------------
(***************************************************************************)
(* Keys, targets and attribute paths.                                      *)
(***************************************************************************)
StringName(x) == IF x.s[1] \in ShortStrings THEN NameIn(x.s[1]) ELSE x.s
get_key_path(key) ==
    CASE key.n = "Identifier" -> key.s [] key.n = "Str" -> StringName(key) [] OTHER -> <<>>
get_key_parts(key) ==
    CASE key.n = "Identifier" -> [i \in DOMAIN key.s |-> <<key.s[i]>>]
      [] key.n = "Str" -> <<StringName(key)>>
      [] OTHER -> <<>>

IndexText(x) ==
    CASE x.n = "Unary" /\ x.c[1].n = "Number" -> x.s \o <<x.c[1].s[2]>>
      [] x.n = "Number" -> <<x.s[2]>>
      [] x.n = "Str" -> x.s
      [] OTHER -> <<"...">>
get_target_path(target) ==
    FoldLeft(LAMBDA a, p : a \o (IF p.n = "Member" THEN p.s ELSE <<"[">> \o IndexText(p.c[1]) \o <<"]">>),
             <<>>, target.c)

\* a.b, a['b'] and a.['b'] are the path of a and b.
parse_attribute_path(ws) ==
    LET fail(st) == [st EXCEPT !.at = "error"]
        step(st, w) ==
          CASE st.at = "error" -> st
            [] st.at = "[" -> IF w \in ShortStrings THEN [parts |-> Append(st.parts, NameIn(w)), at |-> "quote"] ELSE fail(st)
            [] st.at = "quote" -> IF w = "]" THEN [st EXCEPT !.at = "name"] ELSE fail(st)
            [] w = "." -> st
            [] w = "[" -> [st EXCEPT !.at = "["]
            [] w = "]" -> fail(st)
            [] OTHER -> [st EXCEPT !.parts = Append(@, <<w>>)]
        end == FoldLeft(step, [parts |-> <<>>, at |-> "name"], ws)
    IN  [parts |-> end.parts, ok |-> end.at \notin {"error", "quote"}]

\* The first operator outside brackets, 0 when there is none.
split_override_spec_op(ws) ==
    LET step(st, i) ==
          CASE st.at > 0 -> st
            [] ws[i] \in EntryOps /\ st.depth = 0 -> [st EXCEPT !.at = i]
            [] ws[i] \in {"[", "{"} -> [st EXCEPT !.depth = @ + 1]
            [] ws[i] \in {"]", "}"} /\ st.depth > 0 -> [st EXCEPT !.depth = @ - 1]
            [] OTHER -> st
    IN  FoldLeft(step, [depth |-> 0, at |-> 0], [i \in DOMAIN ws |-> i]).at

Spec_(path, value, action, op) == [ok |-> path # <<>> /\ (action = "delete" \/ value # <<>>),
                                   path |-> path, value |-> value, action |-> action, op |-> op]
parse_override_spec(ws) ==
    LET at == split_override_spec_op(ws) IN
    CASE at > 0 -> Spec_(SubSeq(ws, 1, at - 1), SubSeq(ws, at + 1, Len(ws)), "update", ws[at])
      [] at = 0 /\ ws # <<>> /\ Last(ws) = "-" -> Spec_(Front(ws), <<>>, "delete", "=")
      [] OTHER -> Spec_(<<>>, <<>>, "delete", "=")

\* An operator expression is meant as a string; the only one that has a spelling in
\* module Syntax is x-y.
StringOf(ws) == IF ws = <<"x", "-", "y">> THEN "'x-y'" ELSE "'s'"
AsValue(ws, x) == IF x.n \in {"Unary", "Binary"} THEN Node("Str", <<StringOf(ws)>>, <<>>, x.l) ELSE x
build_expr_from_string(ws) == IF ws = <<>> THEN NoNode ELSE AsValue(ws, Parse("expr", into_tokens(ws), 1).v)

-----------------------------------------------------------------------------
(***************************************************************************)
(* AstNodeMover: new imports push the nodes of the module down.  For each  *)
(* kind of node, the children whose own line moves.                        *)
(***************************************************************************)
MovesInStmts == [ExprStmt |-> Nat, TypeAlias |-> {1}, Unification |-> {1, 2}, Assign |-> {1, 2, 3},
                 AugAssign |-> {1, 2}, Assert |-> {1, 2, 3}, IfStmt |-> {1, 2, 3}, Import |-> {}]
MovesInTypes == [Attr |-> {1, 2, 3, 4}, TypeList |-> {1}, TypeDict |-> {1, 2}, TypeUnion |-> Nat]
MovesInSchemas == [SchemaStmt |-> {2, 3, 4, 5, 7, 9, 10}, IndexSignature |-> {3}]
MovesInRules == [RuleStmt |-> {1, 2, 3, 4, 6}, Quant |-> {1, 2, 3, 4}, If |-> {1, 2, 3},
                 Unary |-> {1}, Binary |-> {1}, Selector |-> {1}]
MovesInCalls == [Call |-> {1, 2, 3}, Index |-> {1, 2}, Slice |-> {1, 2, 3, 4}, Paren |-> {1}, List |-> Nat,
                 ListComp |-> Nat, ListIf |-> {1, 2, 3}, Starred |-> {1}, DictComp |-> Nat \ {1}]
MovesInConfigs == [ConfigIf |-> {1, 3}, Entry |-> {1, 2}, CompClause |-> {1, 2, 3}, Schema |-> {1, 2, 3}, Config |-> {}]
MovesInLambdas == [Check |-> {1, 2, 3}, Lambda |-> {1, 2, 3}, Keyword |-> {1}, Arguments |-> Nat,
                   Param |-> {1, 2}, Compare |-> Nat]
Moves == MovesInStmts @@ MovesInTypes @@ MovesInSchemas @@ MovesInRules @@ MovesInCalls
           @@ MovesInConfigs @@ MovesInLambdas
\* ... and the children that stay on their line but have children that do not: the
\* right operand, the entries of a configuration, the index signature.
StaysOnLine(x, i) == \/ x.n = "Config"
                     \/ <<x.n, i>> \in {<<"Binary", 2>>, <<"ConfigIf", 2>>, <<"DictComp", 1>>, <<"SchemaStmt", 8>>}

RECURSIVE Move(_, _, _)
Move(x, offset, own) ==
    LET child(i) ==
          CASE x.n = "Group" -> Move(x.c[i], offset, own)
            [] x.n \in DOMAIN Moves /\ i \in Moves[x.n] -> Move(x.c[i], offset, TRUE)
            [] x.n # "Group" /\ StaysOnLine(x, i) -> Move(x.c[i], offset, FALSE)
            [] OTHER -> x.c[i]
    IN  Node(x.n, x.s, [i \in DOMAIN x.c |-> child(i)],
             IF own /\ x.n \notin {"NoNode", "Group"} THEN x.l + offset ELSE x.l)
MoveModule(body, offset) ==
    [i \in DOMAIN body |-> IF body[i].n = "Import" THEN body[i] ELSE Move(body[i], offset, TRUE)]

\* Imports go to the top, in the order they are asked for; one that is there already
\* (under its own name) stays where it is.
apply_import_paths_on_module(body, import_paths) ==
    LET exist == {body[i].s : i \in {j \in DOMAIN body : body[j].n = "Import" /\ IsNone(body[j].c[1])}}
        new == {i \in DOMAIN import_paths : import_paths[i] \notin exist}
        insert(b, i) == IF i \in new THEN InsertAt(b, i, Node("Import", import_paths[i], <<NoNode>>, i)) ELSE b
    IN  MoveModule(FoldLeft(insert, body, [i \in DOMAIN import_paths |-> i]), Cardinality(new))

-----------------------------------------------------------------------------
(***************************************************************************)
(* Pre-processing of the tree (sema/src/pre_process).                      *)
(***************************************************************************)
Ident(names, l) == Node("Identifier", names, <<>>, l)
Entry(op, key, value, l) == Node("Entry", <<op>>, <<key, value>>, l)

\* {a.b.c = 1} becomes {a: {b: {c = 1}}}: the innermost entry keeps the operator.
NestedEntry(x) ==
    LET names == x.c[1].s
        op(i) == IF i = Len(names) THEN x.s[1] ELSE ":"
        wrap(v, i) == Node("Config", <<>>, <<Entry(op(i), Ident(<<names[i]>>, x.l), v, x.l)>>, x.l)
    IN  Entry(":", Ident(<<names[1]>>, x.l),
              FoldLeft(wrap, x.c[2], [i \in 1..(Len(names) - 1) |-> Len(names) + 1 - i]), x.l)
walk_config_entry(x) == IF x.c[1].n = "Identifier" /\ Len(x.c[1].s) > 1 THEN NestedEntry(x) ELSE x

\* The keys of entries, and the conditions of conditional ones, are not walked.
RECURSIVE fix_config_expr_nest_attr(_)
FixEntries(items) ==
    [i \in DOMAIN items |-> LET x == walk_config_entry(items[i])
                            IN  [x EXCEPT !.c[2] = fix_config_expr_nest_attr(@)]]
fix_config_expr_nest_attr(x) ==
    CASE x.n = "Config" -> [x EXCEPT !.c = FixEntries(@)]
      [] x.n = "ConfigIf" -> [x EXCEPT !.c = <<@[1], Group(FixEntries(@[2].c)), fix_config_expr_nest_attr(@[3])>>]
      [] OTHER -> [x EXCEPT !.c = [i \in DOMAIN x.c |-> fix_config_expr_nest_attr(x.c[i])]]
FixAll(body) == [i \in DOMAIN body |-> fix_config_expr_nest_attr(body[i])]

\* a = b = v becomes a = v and b = v.  The statements are taken in the order of a hash
\* map: an insertion counts for all later ones, wherever they are.
IsMultiAssign(x) == x.n = "Assign" /\ Len(x.c[1].c) > 1
WithTarget(x, target) == [x EXCEPT !.c[1] = Group(<<target>>)]
transform_multi_assign(body, order) ==
    LET first == [i \in DOMAIN body |-> IF IsMultiAssign(body[i]) THEN WithTarget(body[i], body[i].c[1].c[1]) ELSE body[i]]
        copies(i) == LET ts == Tail(body[i].c[1].c)
                     IN  [j \in DOMAIN ts |-> WithTarget(body[i], ts[j])]
        step(st, i) == LET at == i + st.count
                           new == [j \in DOMAIN copies(i) |-> [copies(i)[j] EXCEPT !.l = st.body[at].l]]
                       IN  [body |-> SubSeq(st.body, 1, at) \o new \o SubSeq(st.body, at + 1, Len(st.body)),
                            count |-> st.count + Len(new)]
    IN  FoldLeft(step, [body |-> first, count |-> 0], order).body
MultiAssignOrders(body) == SetToSeqs({i \in DOMAIN body : IsMultiAssign(body[i])})

-----------------------------------------------------------------------------
(***************************************************************************)
(* OverrideTransformer.  o is the override: the name of the variable, the  *)
(* path below it, the value, what is done and with which operator.  A      *)
(* change of a value yields the value and whether something was changed.   *)
(***************************************************************************)
Changed(x, changed) == [x |-> x, changed |-> changed]
IsConfig(x) == x.n = "Config"
IsSchemaOfConfig(x) == x.n = "Schema" /\ IsConfig(x.c[3])

RECURSIVE replace_config_with_path_parts(_, _, _, _, _)
Either(r, was) == [r EXCEPT !.changed = @ \/ was]
merge_config_expr(config, merged) ==
    FoldLeft(LAMBDA st, item :
               IF get_key_parts(item.c[1]) = <<>> THEN Changed([st.x EXCEPT !.c = Append(@, item)], TRUE)
               ELSE Either(replace_config_with_path_parts(st.x, get_key_parts(item.c[1]), "update", item.s[1], item.c[2]), st.changed),
             Changed(config, FALSE), merged.c)

\* ... into a configuration, or into the one of a schema instance.
try_get_config_expr_mut(x) == IF IsSchemaOfConfig(x) THEN x.c[3] ELSE x
WithConfig(x, r) == IF x.n = "Schema" THEN Changed([x EXCEPT !.c[3] = r.x], r.changed) ELSE r
\* Mutant: the union replaces what is there.
MergeReplaces(x, merged, was) == Changed(IF x.n = "Schema" THEN [x EXCEPT !.c[3] = merged] ELSE merged, TRUE)
MergeInto(x, merged, was) ==
    IF IsConfig(try_get_config_expr_mut(x)) THEN WithConfig(x, merge_config_expr(try_get_config_expr_mut(x), merged))
    ELSE Changed(x, was)

\* The new value for an old one: `=` replaces it, `:` merges configurations and schema
\* instances of the same name and replaces what cannot be merged, `+=` appends to a list.
\* What does not fit leaves the value, and what was changed so far, as it is.
override_top_level_stmt(old, new, op, was) ==
    LET merges == IsSchemaOfConfig(old) /\ IsSchemaOfConfig(new) /\ old.s = new.s IN
    CASE op = "=" \/ (op = ":" /\ new.n \notin {"Config", "Schema"}) -> Changed(new, TRUE)
      [] op = ":" /\ (IsConfig(new) \/ merges) -> MergeInto(old, try_get_config_expr_mut(new), was)
      [] op = ":" /\ new.n = "Schema" /\ ~merges -> Changed(old, was)
      [] op = "+=" -> IF old.n = "List" /\ new.n = "List" THEN Changed([old EXCEPT !.c = @ \o new.c], TRUE)
                      ELSE Changed(old, was)

\* The same for the schema instance of a unification, which only another one replaces.
override_unification(old, new, op, was) ==
    CASE op = ":" /\ (IsConfig(new) \/ new.n = "Schema") -> override_top_level_stmt(old, new, op, was)
      [] op # ":" /\ new.n = "Schema" -> Changed([new EXCEPT !.l = 1], TRUE)
      [] OTHER -> Changed(old, was)

\* An entry whose key is the first part.
WithValue(item, r) == Changed([item EXCEPT !.c[2] = r.x], r.changed)
ReplaceEntry(item, parts, action, op, value, was) ==
    LET config == try_get_config_expr_mut(item.c[2]) IN
    CASE Len(parts) = 1 /\ action = "update" ->
           WithValue(item, override_top_level_stmt(item.c[2], [value EXCEPT !.l = item.l], op, was))
      [] Len(parts) = 1 /\ action = "delete" -> Changed(NoNode, TRUE)
      [] Len(parts) > 1 /\ IsConfig(config) ->
           WithValue(item, WithConfig(item.c[2], replace_config_with_path_parts(config, Tail(parts), action, op, value)))
      [] OTHER -> Changed(item, was)

\* All entries with the key of the first part are followed; the last of them decides
\* whether something was changed.  A path that is not there is added as one dotted key.
AppendEntry(st, r) == Changed(IF IsNone(r.x) THEN st.x ELSE Append(st.x, r.x), r.changed)
AddMissing(config, st, missing) ==
    IF missing # <<>> /\ ~st.changed THEN Changed([config EXCEPT !.c = st.x \o missing], TRUE)
    ELSE Changed([config EXCEPT !.c = st.x], st.changed)
replace_config_with_path_parts(config, parts, action, op, value) ==
    LET step(st, item) ==
          IF get_key_path(item.c[1]) # parts[1] THEN [st EXCEPT !.x = Append(@, item)]
          ELSE AppendEntry(st, ReplaceEntry(item, parts, action, op, value, st.changed)) IN
    IF parts = <<>> THEN Changed(config, FALSE)
    ELSE AddMissing(config, FoldLeft(step, Changed(<<>>, FALSE), config.c),
                    IF action = "delete" THEN <<>> ELSE <<Entry(op, Ident(FlattenSeq(parts), 1), value, 1)>>)

-----------------------------------------------------------------------------
(***************************************************************************)
(* The walk over the statements.  st says whether the override was done    *)
(* and how many targets of the current statement it is meant for.          *)
(***************************************************************************)
Walked(x, done, count) == [x |-> x, done |-> done, count |-> count]
IsTargetOf(o, x) == \/ x.n = "Assign" /\ Len(x.c[1].c) = 1 /\ get_target_path(x.c[1].c[1]) = o.target
                    \/ x.n = "AugAssign" /\ get_target_path(x.c[1]) = o.target
                    \/ x.n = "Unification" /\ <<x.c[1].s[1]>> = o.target

\* A variable without a path below it: every statement that sets it is changed ...
ValueAt(x) == IF x.n = "Assign" THEN 3 ELSE 2
override_value(x, new, op, was) ==
    IF x.n = "Unification" THEN override_unification(x.c[2], new, op, was)
    ELSE override_top_level_stmt(x.c[ValueAt(x)], new, op, was)
UpdateVariable(o, body) ==
    LET with(st, x, r) == Changed(Append(st.x, [x EXCEPT !.c[ValueAt(x)] = r.x]), r.changed)
        step(st, x) ==
          LET v == x.c[ValueAt(x)] IN
          IF o.path = <<>> /\ IsTargetOf(o, x)
          THEN with(st, x, override_value(x, [o.value EXCEPT !.l = v.l], o.op, st.changed))
          ELSE Changed(Append(st.x, x), st.changed)
    IN  FoldLeft(step, Changed(<<>>, FALSE), body)
\* ... or removed, augmented assignments excepted.
DeleteVariable(o, body) ==
    LET gone(x) == o.path = <<>> /\ x.n # "AugAssign" /\ IsTargetOf(o, x)
    IN  Changed(SelectSeq(body, LAMBDA x : ~gone(x)), \E i \in DOMAIN body : gone(body[i]))

lookup_config_and_replace(o, config) ==
    replace_config_with_path_parts(config, o.path, o.action, o.op, o.value)

\* A schema instance counts only in a statement for the variable; a path it has not
\* got is added.
WithInstance(o, x, r) ==
    IF r.changed \/ o.action = "delete" THEN Walked([x EXCEPT !.c[3] = r.x], r.changed, 0)
    ELSE LET new == Entry(o.op, Ident(IF o.path = <<>> THEN <<"">> ELSE FlattenSeq(o.path), 1), o.value, 1)
         IN  Walked([x EXCEPT !.c[3] = [r.x EXCEPT !.c = Append(@, new)]], TRUE, 0)
walk_schema_expr(o, st, x) ==
    CASE st.done \/ st.count = 0 -> Walked(x, st.done, st.count)
      [] ~st.done /\ st.count # 0 /\ ~IsConfig(x.c[3]) -> Walked(x, FALSE, 0)
      [] OTHER -> WithInstance(o, x, lookup_config_and_replace(o, x.c[3]))

\* A configuration counts wherever it is.
WithChange(st, r) == Walked(r.x, r.changed, IF r.changed THEN 0 ELSE st.count)
walk_config_expr(o, st, x) ==
    IF st.done THEN Walked(x, TRUE, st.count) ELSE WithChange(st, lookup_config_and_replace(o, x))

\* Everything else is walked through, in the order of the walker: the parts of a node
\* in their order, but for rules (the checks before the arguments and the host) and
\* conditional expressions (the condition first).
StmtOrder(x) == IF x.n = "RuleStmt" THEN <<4, 6, 1>> ELSE [i \in DOMAIN x.c |-> i]
ExprOrder(x) == IF x.n = "If" THEN <<2, 1, 3>> ELSE [i \in DOMAIN x.c |-> i]
WalkOrder(x) == IF x.n = "If" THEN ExprOrder(x) ELSE StmtOrder(x)
RECURSIVE walk_expr(_, _, _)
WithChild(x, i, r) == [r EXCEPT !.x = [x EXCEPT !.c[i] = r.x]]
walk_expr(o, st, x) ==
    CASE x.n \in {"Lambda", "IfStmt", "SchemaStmt"} -> Walked(x, st.done, st.count)
      [] x.n = "Schema" -> walk_schema_expr(o, st, x)
      [] x.n = "Config" -> walk_config_expr(o, st, x)
      [] OTHER -> FoldLeft(LAMBDA a, i : WithChild(a.x, i, walk_expr(o, a, a.x.c[i])),
                           Walked(x, st.done, st.count), WalkOrder(x))

walk_unification_stmt(o, st, x) ==
    IF st.done \/ o.path = <<>> \/ ~IsTargetOf(o, x) THEN Walked(x, st.done, st.count)
    ELSE WithChild(x, 2, walk_schema_expr(o, Walked(x, FALSE, 1), x.c[2]))

walk_assign_stmt(o, st, x) ==
    LET targets == x.c[1].c
        count == Cardinality({i \in DOMAIN targets : Len(targets[i].c) = 1 /\ targets[i].c[1].s = o.target}) IN
    CASE st.done \/ x.c[3].n \notin {"Schema", "Config"} -> Walked(x, st.done, st.count)
      [] ~st.done /\ x.c[3].n \in {"Schema", "Config"} /\ count = 0 -> Walked(x, FALSE, 0)
      [] OTHER -> WithChild(x, 3, walk_expr(o, Walked(x, FALSE, count), x.c[3]))

walk_stmt(o, st, x) ==
    CASE x.n = "Unification" -> walk_unification_stmt(o, st, x)
      [] x.n = "Assign" -> walk_assign_stmt(o, st, x)
      [] OTHER -> walk_expr(o, st, x)

\* A variable that is not there is declared at the end.
NewStatement(o) ==
    LET value == IF o.path = <<>> THEN o.value
                 ELSE Node("Config", <<>>, <<Entry(o.op, Ident(FlattenSeq(o.path), 1), o.value, 1)>>, 1)
        target == Node("Target", <<>>, <<Node("Member", o.target, <<>>, 0)>>, 1) IN
    CASE o.op = "+=" -> Node("AugAssign", <<"+=">>, <<target, value>>, 1)
      [] o.op = ":" /\ value.n = "Schema" -> Node("Unification", <<>>, <<Ident(o.target, 1), value>>, 1)
      [] OTHER -> Node("Assign", <<>>, <<Group(<<target>>), NoNode, value>>, 1)

AppendStmt(st, r) == [r EXCEPT !.x = Append(st.x, r.x)]
Declare(o, st) ==
    IF ~st.done /\ o.action = "update" THEN Changed(Append(st.x, NewStatement(o)), TRUE) ELSE Changed(st.x, st.done)
WalkAll(o, top) ==
    Declare(o, FoldLeft(LAMBDA st, x : AppendStmt(st, walk_stmt(o, st, x)), Walked(<<>>, top.changed, 0), top.x))
walk_module(o, body) ==
    WalkAll(o, IF o.action = "update" THEN UpdateVariable(o, body) ELSE DeleteVariable(o, body))

\* One specification, as it is written and applied.  A path without a name panics.
Unparsed == [ok |-> FALSE, target |-> <<>>, path |-> <<>>, action |-> "update", op |-> "=", value |-> NoNode]
WithPath(spec, path) ==
    IF ~path.ok \/ path.parts = <<>> THEN Unparsed
    ELSE [ok |-> TRUE, target |-> Head(path.parts), path |-> Tail(path.parts), action |-> spec.action,
          op |-> spec.op, value |-> build_expr_from_string(spec.value)]
ParsedSpec(ws) ==
    LET spec == parse_override_spec(ws) IN
    IF ~spec.ok THEN Unparsed ELSE WithPath(spec, parse_attribute_path(spec.path))
apply_override_on_module(b, o, import_paths, order) ==
    walk_module(o, transform_multi_assign(FixAll(apply_import_paths_on_module(b, import_paths)), order))

\* The words of a written text: a target that needs quotes has lost them.
Relexed(words) ==
    FlattenSeq([i \in DOMAIN words |-> CASE words[i] = "x-y" -> <<"x", "-", "y">>
                                         [] words[i] = "" -> <<>>
                                         [] OTHER -> <<words[i]>>])
print_body(b) == Relexed(Pretty!print_ast_module(Node("Module", <<>>, <<NoNode, Group(FixAll(b))>>, 1)).out)

-----------------------------------------------------------------------------
(***************************************************************************)
(* Merging the declarations of a variable (pre_process/config.rs): the     *)
(* entries of all of them end up in the last one.                          *)
(***************************************************************************)
EntryName(x) == IF x.c[1].n \in {"Identifier", "Str"} THEN get_key_path(x.c[1]) ELSE <<"$name_none">>
\* An override clears what was there for the name.
Bucket(entries, name) ==
    LET mine == SelectSeq(entries, LAMBDA x : EntryName(x) = name)
        overrides == {i \in DOMAIN mine : i > 1 /\ mine[i].s[1] = "="}
    IN  IF overrides = {} THEN mine ELSE SubSeq(mine, Max(overrides), Len(mine))
RECURSIVE unify_config_entries(_)
UnifyValue(x) ==
    LET v == x.c[2] IN
    CASE IsConfig(v) -> [x EXCEPT !.c[2].c = unify_config_entries(@)]
      [] IsSchemaOfConfig(v) -> [x EXCEPT !.c[2].c[3].c = unify_config_entries(@)]
      [] OTHER -> x
unify_config_entries(entries) ==
    LET firsts == SelectSeq([i \in DOMAIN entries |-> i],
                            LAMBDA i : \A j \in 1..(i - 1) : EntryName(entries[j]) # EntryName(entries[i]))
        all == FlattenSeq([i \in DOMAIN firsts |-> Bucket(entries, EntryName(entries[firsts[i]]))])
    IN  [i \in DOMAIN all |-> UnifyValue(all[i])]

\* The statements that declare a variable: all its unifications, and the first
\* assignment of a schema instance if nothing came before it.  A private variable
\* starts again with every such assignment.
PrivateNames == {"_a"}
Declares(x, name) ==
    \/ x.n = "Unification" /\ x.c[1].s[1] = name
    \/ /\ x.n = "Assign" /\ x.c[3].n = "Schema"
       /\ \E i \in DOMAIN x.c[1].c : Len(x.c[1].c[i].c) = 1 /\ x.c[1].c[i].c[1].s = <<name>>
Declarations(body, name) ==
    LET step(ds, i) == CASE ~Declares(body[i], name) -> ds
                         [] body[i].n = "Assign" /\ ds # <<>> -> IF name \in PrivateNames THEN <<i>> ELSE ds
                         [] OTHER -> Append(ds, i)
    IN  FoldLeft(step, <<>>, [i \in DOMAIN body |-> i])
InstanceOf(x) == IF x.n = "Unification" THEN x.c[2] ELSE x.c[3]
EntriesOf(x) == IF IsSchemaOfConfig(InstanceOf(x)) THEN InstanceOf(x).c[3].c ELSE <<>>
WithEntries(x, entries) ==
    CASE ~IsSchemaOfConfig(InstanceOf(x)) -> x
      [] x.n = "Unification" -> [x EXCEPT !.c[2].c[3].c = entries]
      [] OTHER -> [x EXCEPT !.c[3].c[3].c = entries]

DeclaredNames(body) ==
    {body[i].c[1].s[1] : i \in {j \in DOMAIN body : body[j].n = "Unification"}}
      \cup UNION {{x.c[1].s[1] : x \in Range(body[i].c[1].c)} : i \in {j \in DOMAIN body : body[j].n = "Assign"}}
merge_program(body) ==
    LET several == {n \in DeclaredNames(body) : Len(Declarations(body, n)) > 1}
        merged(n) == LET ds == Declarations(body, n)
                     IN  unify_config_entries(FlattenSeq([i \in DOMAIN ds |-> EntriesOf(body[ds[i]])]))
        stmt(i) == IF \E n \in several : Last(Declarations(body, n)) = i
                   THEN WithEntries(body[i], merged(CHOOSE n \in several : Last(Declarations(body, n)) = i))
                   ELSE body[i]
        gone(i) == \E n \in several : i \in Range(Front(Declarations(body, n)))
        kept == SelectSeq([i \in DOMAIN body |-> i], LAMBDA i : ~gone(i))
    IN  [i \in DOMAIN kept |-> stmt(kept[i])]
pre_process_program(body) == merge_program(FixAll(body))

-----------------------------------------------------------------------------
(***************************************************************************)
(* Selector.  It carries the parts of the path it still looks for, the     *)
(* parts taken at each level so that they can be put back, the variables   *)
(* on the way, and what was found under which key.                         *)
(***************************************************************************)
\* The value of a variable is the code of an expression, here the expression itself.
Code(x) == Erase(x)
Variable(name, type_name, op) ==
    [name |-> name, type_name |-> type_name, op_sym |-> op, value |-> <<>>, list_items |-> <<>>, dict_entries |-> <<>>]
TypeName(x) == IF x.n = "Schema" THEN x.s ELSE <<>>

RECURSIVE fill_variable_value(_, _)
EntryVariables(items) ==
    [i \in DOMAIN items |-> fill_variable_value(Variable(get_key_path(items[i].c[1]), <<>>, items[i].s[1]), items[i].c[2])]
fill_variable_value(v, x) ==
    [v EXCEPT !.value = Code(x),
              !.list_items = IF x.n # "List" THEN <<>>
                             ELSE [i \in DOMAIN x.c |-> fill_variable_value(Variable(<<>>, <<>>, ""), x.c[i])],
              !.dict_entries = IF IsConfig(try_get_config_expr_mut(x)) THEN EntryVariables(try_get_config_expr_mut(x).c)
                               ELSE <<>>]

\* The parts of a key between its dots; an index belongs to the part it follows.
SplitDots(key) ==
    LET open(a) == a # <<>> /\ "[" \in Range(Last(a)) /\ "]" \notin Range(Last(a))
    IN  FoldLeft(LAMBDA a, w : IF w = "[" \/ open(a) THEN Append(Front(a), Append(Last(a), w)) ELSE Append(a, <<w>>), <<>>, key)

NoSpec == [spec |-> <<>>, items |-> <<>>, store |-> <<<<>>>>, vars |-> <<>>, result |-> <<>>, unsupported |-> <<>>]
init(st) == [st EXCEPT !.store = Append(@, <<>>)]
pop_front(st) ==
    IF st.items = <<>> THEN st
    ELSE [st EXCEPT !.items = Tail(@), !.store[Len(st.store)] = Append(@, Head(st.items))]
restore(st) == [st EXCEPT !.items = Last(st.store) \o @, !.store = Front(@)]

switch_top_variable(st, v) == IF st.vars = <<>> THEN st ELSE [st EXCEPT !.vars[Len(st.vars)].dict_entries = Append(@, v)]
push_variable(st, v) == [switch_top_variable(st, v) EXCEPT !.vars = Append(@, v)]
pop_n_variables(st, n) == [st EXCEPT !.vars = SubSeq(@, 1, Len(@) - n)]
store_variable(st, key) == IF st.vars = <<>> THEN st ELSE [st EXCEPT !.result = Append(@, [key |-> key, v |-> Head(st.vars)])]

\* What cannot be selected; a conditional expression is noted twice.
Unsupported == {"If", "ListIf", "ListComp", "DictComp", "ConfigIf", "CompClause", "Lambda"}
Note(st, x) == [st EXCEPT !.unsupported = @ \o (IF x.n = "If" THEN <<"">> ELSE <<>>) \o <<x.n>>]
check_node_supported(st, x) == IF x.n \in Unsupported THEN Note(st, x) ELSE st

RECURSIVE select_in(_, _)
select_parts(st, x) == FoldLeft(LAMBDA a, i : select_in(a, x.c[i]), st, WalkOrder(x))
\* A matching key of a configuration: the end of the path, or one more variable on the
\* way.  A level that has no part left to look for does not put anything back.
SelectEntry(a, value, v) ==
    CASE a.st.items # <<>> -> [st |-> select_in(push_variable(a.st, v), value), n |-> a.n + 1]
      [] a.st.items = <<>> /\ value.n \in Unsupported -> [a EXCEPT !.st = Note(@, value)]
      [] OTHER -> [a EXCEPT !.st = store_variable(switch_top_variable(@, v), @.spec)]
LeaveLevel(a) == pop_n_variables(restore(a.st), a.n)
SelectEntries(st, selector, items) ==
    LET step(a, item) ==
          LET key == get_key_path(item.c[1]) IN
          CASE key = <<>> -> [a EXCEPT !.st = check_node_supported(@, item.c[2])]
            [] key # <<>> /\ key # selector -> a
            [] OTHER -> SelectEntry(a, item.c[2], fill_variable_value(Variable(key, TypeName(item.c[2]), item.s[1]), item.c[2]))
    IN  LeaveLevel(FoldLeft(step, [st |-> st, n |-> 0], items))
walk_selected_config(st, x) ==
    IF st.items = <<>> THEN init(st) ELSE SelectEntries(pop_front(init(st)), Head(st.items), x.c)

\* A target of an assignment or a unification: the end of the path, or its first part.
SelectLeaf(a, target, value, st) ==
    IF value.n \in Unsupported THEN [a EXCEPT !.st = restore(Note(st, value)), !.left = TRUE]
    ELSE [a EXCEPT !.st = store_variable(st, target), !.n = @ + 1]
SelectTarget(a, st, matches, target, value, v) ==
    CASE ~matches -> [a EXCEPT !.st = st]
      [] matches /\ st.items # <<>> -> [a EXCEPT !.st = select_in(push_variable(st, v), value), !.n = @ + 1]
      [] OTHER -> SelectLeaf(a, target, value, push_variable(st, fill_variable_value(v, value)))
\* Without a path every variable is taken.
ListTarget(a, target, value, v) ==
    [a EXCEPT !.st = store_variable(push_variable(@, fill_variable_value(v, value)), target), !.n = @ + 1]
LeaveTargets(a) == IF a.left THEN a.st ELSE LeaveLevel(a)
SelectTargets(st, targets, value, op) ==
    LET matches(a, target) == a.st.items # <<>> /\ Head(a.st.items) = target
        v(target) == Variable(target, TypeName(value), op)
        step(a, target) ==
          CASE st.spec = <<>> -> ListTarget(a, target, value, v(target))
            [] st.spec # <<>> /\ a.left -> a
            [] OTHER -> SelectTarget(a, pop_front(a.st), matches(a, target), target, value, v(target))
    IN  LeaveTargets(FoldLeft(step, [st |-> init(st), n |-> 0, left |-> FALSE], targets))

select_unification_stmt(st, x) == SelectTargets(st, <<get_key_path(x.c[1])>>, x.c[2], ":")
select_assign_stmt(st, x) ==
    IF st.spec = <<>> /\ x.c[3].n \in Unsupported THEN Note(init(st), x.c[3])
    ELSE SelectTargets(st, [i \in DOMAIN x.c[1].c |-> get_target_path(x.c[1].c[i])], x.c[3], "=")

select_in(st, x) ==
    CASE x.n = "Unification" -> select_unification_stmt(st, x)
      [] x.n = "Assign" -> select_assign_stmt(st, x)
      [] x.n = "Config" -> walk_selected_config(st, x)
      [] x.n \in Unsupported -> Note(st, x)
      [] OTHER -> select_parts(st, x)

select_module(st, specs, body) ==
    LET with(a, spec) == FoldLeft(select_in, [a EXCEPT !.spec = spec, !.items = SplitDots(spec), !.vars = <<>>], body)
    IN  IF specs = <<>> THEN FoldLeft(select_in, st, body) ELSE FoldLeft(with, st, specs)

RECURSIVE find_variables(_, _)
find_variables(items, v) ==
    LET below == v.dict_entries \o v.list_items IN
    CASE items = <<>> -> <<v>>
      [] items # <<>> /\ v.name # Head(items) -> <<>>
      [] Len(items) = 1 /\ v.name = Head(items) -> <<v>>
      [] OTHER -> FlattenSeq([i \in DOMAIN below |-> find_variables(Tail(items), below[i])])

\* The variables for each key; of several under one key the last one counts.
LastOf(found, key) == found[Max({i \in DOMAIN found : found[i].key = key})].v
select_varibales(found) ==
    [key \in {found[i].key : i \in DOMAIN found} |-> find_variables(SplitDots(key), LastOf(found, key))]
list_variables(body, paths) == select_varibales(select_module(NoSpec, paths, pre_process_program(body)).result)

-----------------------------------------------------------------------------
VARIABLES file,     \* the text of the file
          held,     \* the statements in memory
          before,   \* what the file held at first
          specs,    \* the specifications still to be applied
          imports,  \* the imports asked for
          override, \* the override of the last specification
          at,       \* "load", "spec", "apply", "write", "reload" or "end"
          changed,  \* an override changed something
          listing   \* the path that was listed, and what was found
query_vars == <<file, held, before, specs, imports, override, at, changed, listing>>

NoListing == [spec |-> <<>>, found |-> <<>>]
QueryInit(texts, overrides, import_paths) ==
    /\ file \in texts /\ specs \in overrides /\ imports \in import_paths
    /\ held = <<>> /\ before = <<>> /\ override = Unparsed
    /\ at = "load" /\ changed = FALSE /\ listing = NoListing

\* Reading the file, at first and, to see what was written, at the end.
load_file ==
    /\ at \in {"load", "reload"}
    /\ held' = parse_module(file).c[2].c
    /\ before' = IF at = "load" THEN held' ELSE before
    /\ at' = IF at = "load" THEN "spec" ELSE "end"
    /\ UNCHANGED <<file, specs, imports, override, changed, listing>>
\* The first specification that is not one ends it: nothing is written, whatever was
\* changed in memory.
parse_spec ==
    /\ at = "spec" /\ specs # <<>>
    /\ override' = ParsedSpec(Head(specs)) /\ specs' = Tail(specs)
    /\ at' = IF override'.ok THEN "apply" ELSE "end"
    /\ UNCHANGED <<file, held, before, imports, changed, listing>>
apply_override ==
    /\ at = "apply"
    /\ \E order \in MultiAssignOrders(apply_import_paths_on_module(held, imports)) :
         LET r == apply_override_on_module(held, override, imports, order)
         IN  held' = r.x /\ changed' = (changed \/ r.changed)
    /\ at' = IF specs = <<>> THEN "write" ELSE "spec"
    /\ UNCHANGED <<file, before, specs, imports, override, listing>>
write_file ==
    /\ at = "write"
    /\ file' = IF changed THEN print_body(held) ELSE file
    /\ at' = "reload"
    /\ UNCHANGED <<held, before, specs, imports, override, changed, listing>>
list(paths) ==
    /\ at = "spec" /\ specs = <<>>
    /\ \E path \in paths : listing' = [spec |-> path, found |-> list_variables(held, <<path>>)]
    /\ at' = "end"
    /\ UNCHANGED <<file, held, before, specs, imports, override, changed>>
QueryNext(paths) == load_file \/ parse_spec \/ apply_override \/ write_file \/ list(paths)

-----------------------------------------------------------------------------
(***************************************************************************)
(* What is at a path, read off the tree: the values of the entries whose   *)
(* keys spell it, wherever dots or braces separate them.                   *)
(***************************************************************************)
EntriesIn(x) == IF IsConfig(x) THEN x.c ELSE IF IsSchemaOfConfig(x) THEN x.c[3].c ELSE <<>>
RECURSIVE LeavesIn(_, _)
LeavesIn(path, x) ==
    LET es == EntriesIn(x)
        below(e) == LeavesIn(path \o get_key_parts(e.c[1]), e.c[2])
    IN  IF es = <<>> THEN <<[path |-> path, value |-> Erase(x)]>>
        ELSE FlattenSeq([i \in DOMAIN es |-> below(es[i])])
TargetsOf(x) ==
    CASE x.n = "Assign" -> [i \in DOMAIN x.c[1].c |-> get_target_path(x.c[1].c[i])]
      [] x.n = "Unification" -> <<get_key_path(x.c[1])>>
      [] OTHER -> <<>>
Parts(target) == [i \in DOMAIN target |-> <<target[i]>>]
StmtLeaves(x) ==
    FlattenSeq([i \in DOMAIN TargetsOf(x) |-> LeavesIn(Parts(TargetsOf(x)[i]), x.c[Len(x.c)])])
Leaves(body) == FlattenSeq([i \in DOMAIN body |-> StmtLeaves(body[i])])

Related(p, q) == IsPrefix(p, q) \/ IsPrefix(q, p)
At(leaves, p) == SelectSeq(leaves, LAMBDA f : IsPrefix(p, f.path))
Elsewhere(leaves, ps) == {f \in Range(leaves) : \A p \in ps : ~Related(p, f.path)}

\* The place an override is about: a variable that one statement declares, and no other
\* statement with a configuration, because walk_config_expr does not ask which variable
\* a configuration belongs to.  The keys on the way may occur several times.
RECURSIVE KeysDiffer(_)
KeysDiffer(x) ==
    LET es == EntriesIn(x)
        first(i) == get_key_parts(es[i].c[1])[1]
    IN  \A i \in DOMAIN es : /\ \A j \in DOMAIN es : i # j => first(i) # first(j)
                             /\ KeysDiffer(es[i].c[2])
DeclaredBy(body, name) ==
    {i \in DOMAIN body : \E j \in DOMAIN TargetsOf(body[i]) : Head(TargetsOf(body[i])[j]) = name[1]}
OneKeyEach(body, name) == \A i \in DeclaredBy(body, name) : KeysDiffer(body[i].c[Len(body[i].c)])
Unambiguous(body, name) ==
    LET mine == DeclaredBy(body, name)
    IN  /\ Cardinality(mine) <= 1
        /\ \A i \in mine : \A j \in DOMAIN TargetsOf(body[i]) : Len(TargetsOf(body[i])[j]) = 1
        /\ \A i \in DOMAIN body : body[i].n \in {"Assign", "Unification", "Import"}
\* A unification keeps its schema instance when the value is something else.
KeepsInstance(b, ov) ==
    /\ ov.path = <<>> /\ ov.action = "update" /\ ov.value.n # "Schema"
    /\ \E i \in DOMAIN b : b[i].n = "Unification" /\ b[i].c[1].s = ov.target
\* The paths an override gives a value to: a union reaches into the entries of its value.
PathOf(ov) == <<ov.target>> \o ov.path
Touched(ov) ==
    IF ov.op = ":" /\ EntriesIn(ov.value) # <<>> THEN {f.path : f \in Range(LeavesIn(PathOf(ov), ov.value))}
    ELSE {PathOf(ov)}
\* What an override means: an update gives its paths the value and a deletion leaves
\* nothing at its path; whatever else was in the file is still there.  A deletion below
\* a key that occurs several times is only done when the last of them has the path: the
\* others' changes are forgotten, and the file is not written.
Means(ov, old, new, single) ==
    LET given == Range(LeavesIn(PathOf(ov), ov.value))
        now == Range(At(new, PathOf(ov))) IN
    /\ Elsewhere(old, Touched(ov)) = Elsewhere(new, Touched(ov))
    /\ ov.action = "delete" /\ single => now = {}
    /\ ov.action = "update" /\ ov.op = "=" => now = given
    /\ ov.action = "update" /\ ov.op = ":" => given \subseteq now

\* override_file does what a specification says and nothing else: when the file is read
\* again its path has the value, or is gone, and every other value is what it was.
OverrideIsExact ==
    at = "end" /\ override.ok /\ Unambiguous(before, override.target) /\ ~KeepsInstance(before, override) =>
      Means(override, Leaves(before), Leaves(held), OneKeyEach(before, override.target))

RECURSIVE ValuesAt(_, _)
ValuesAt(x, p) ==
    LET es == EntriesIn(x)
        key(i) == get_key_parts(es[i].c[1])
        on == SelectSeq([i \in DOMAIN es |-> i], LAMBDA i : IsPrefix(key(i), p))
    IN  IF p = <<>> THEN <<x>>
        ELSE FlattenSeq([i \in DOMAIN on |-> ValuesAt(es[on[i]].c[2], SubSeq(p, Len(key(on[i])) + 1, Len(p)))])
DeclaredAt(body, p) ==
    LET mine == SelectSeq(body, LAMBDA x : TargetsOf(x) = <<p[1]>>)
    IN  FlattenSeq([i \in DOMAIN mine |-> ValuesAt(mine[i].c[Len(mine[i].c)], Tail(p))])
\* A path the listing has one answer for: one declaration, or several schema instances
\* with different keys, which are merged into one.
Listable(body, p) ==
    LET mine == SelectSeq(body, LAMBDA x : p[1] \in Range(TargetsOf(x)))
        all == Node("Config", <<>>, FlattenSeq([i \in DOMAIN mine |-> EntriesIn(mine[i].c[Len(mine[i].c)])]), 1) IN
    /\ \A i \in DOMAIN body : body[i].n \in {"Assign", "Unification", "Import"} /\ Len(TargetsOf(body[i])) <= 1
    /\ KeysDiffer(all)
    /\ Len(mine) > 1 => Len(p) > 1 /\ \A i \in DOMAIN mine : mine[i].n = "Unification" \/ (i = 1 /\ mine[i].c[3].n = "Schema")
    /\ \A x \in Range(DeclaredAt(body, p)) : x.n \notin Unsupported

\* list_variables finds at a path what the file has there, and nothing when it has
\* nothing, although Selector finds its way with one list of parts that every level
\* takes from and puts back to.
ListsWhatIsThere ==
    LET p == Parts(listing.spec)
        there == DeclaredAt(FixAll(before), p)
        found == IF listing.spec \in DOMAIN listing.found THEN listing.found[listing.spec] ELSE <<>> IN
    listing # NoListing /\ Listable(FixAll(before), p) =>
      [i \in DOMAIN found |-> found[i].value] = [i \in DOMAIN there |-> Code(there[i])]
=============================================================================
