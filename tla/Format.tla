------------------------------- MODULE Format -------------------------------
(***************************************************************************)
(* Formatting a file (tools/src/format, the LSP's formatting request): it  *)
(* is parsed, printed and written back, and formatted again with the next  *)
(* save.  A text that does not parse is left as it is.                     *)
(***************************************************************************)
EXTENDS Parser, Printer

CONSTANT MaxRounds

VARIABLES text,      \* what the file holds
          module,    \* the tree it was last parsed to
          todo,      \* what is done with it next: "parse" or "print"
          round,     \* how often it was formatted
          printable  \* the printer had a faithful text for it every time
vars == <<text, module, todo, round, printable>>

(***************************************************************************)
(* The trees the printer has no faithful text for.                         *)
(***************************************************************************)
RECURSIVE Nodes(_)
Nodes(x) == {x} \cup UNION {Nodes(x.c[i]) : i \in DOMAIN x.c}
Has(x, Test(_)) == \E y \in Nodes(x) : Test(y)

\* An if item between brackets that stay on one line: the items after it end up in its body.
IsIfItem(x) == x.n = "ListIf" \/ (x.n = "Entry" /\ x.c[2].n = "ConfigIf")
IfBetweenBrackets(x) ==
    x.n \in {"List", "Config"} /\ Len(x.c) > 1 /\ (\E i \in DOMAIN x.c : IsIfItem(x.c[i]))
      /\ Cardinality({x.c[i].l : i \in DOMAIN x.c}) = 1
\* `[k: ...str]: T` is written `[...k: str]`.
NamedAnyOther(x) == x.n = "IndexSignature" /\ Len(x.s) > 1 /\ Head(x.s) = "..."
\* 1.0 is written 1.
WholeFloat(x) == x.n = "Number" /\ x.s[1] = "float" /\ x.s[2] = "1"
\* Nothing ends the last line of a rule without checks.
OpenRule(x) == x.n = "RuleStmt" /\ x.c[6].c = <<>>
\* A protocol whose name makes it a mixin as well.
MixinProtocol(x) == x.n = "SchemaStmt" /\ Len(x.c[1].s) = 2

Unfaithful(x) == \/ IfBetweenBrackets(x) \/ NamedAnyOther(x) \/ WholeFloat(x) \/ OpenRule(x) \/ MixinProtocol(x)

-----------------------------------------------------------------------------
Init(texts) ==
    /\ text \in texts /\ module = NoNode
    /\ todo = "parse" /\ round = 0 /\ printable = TRUE

\* What the file holds after format_file: a syntax error, or a tree the printer panics on
\* (a comprehension over `**`), leaves it alone.
Written(src, m, pr) == IF IsNone(m) \/ pr.bug THEN src ELSE pr.out
format_source(src, m) == Written(src, m, print_ast_module(m))

parse_file ==
    /\ todo = "parse"
    /\ module' = parse_module(text)
    /\ printable' = (printable /\ ~Has(module', Unfaithful))
    /\ todo' = "print"
    /\ UNCHANGED <<text, round>>
format_file ==
    /\ todo = "print" /\ round < MaxRounds
    /\ text' = format_source(text, module)
    /\ round' = round + 1
    /\ todo' = "parse"
    /\ UNCHANGED <<module, printable>>

Next == parse_file \/ format_file
Spec(texts) == Init(texts) /\ [][Next]_vars

-----------------------------------------------------------------------------
(***************************************************************************)
(* A printed part that takes several lines whatever lines it came from.    *)
(***************************************************************************)
Unfolds(x) == \/ x.n \in {"Lambda", "ListIf"}
              \/ (x.n = "Config" /\ Len(x.c) = 1
                    /\ x.c[1].c[2].n \in {"ConfigIf", "Config", "Schema"})
\* ... inside brackets that may be on one line.
UnfoldsInside(x) == x.n \in {"List", "Config", "Quant"} /\ \E i \in DOMAIN x.c : Has(x.c[i], Unfolds)

\* Formatting never changes the program: what the formatted file parses to is what
\* the file parsed to (format_source prints the tree it has just parsed), up to the
\* constructs above.
FormatKeepsProgram ==
    [][todo = "parse" /\ round > 0 /\ printable => Erase(module') = Erase(module)]_vars

\* A formatted file stays as it is: formatting it again changes nothing, except that a
\* part that had to be unfolded can make the brackets around it unfold in the next
\* round, and the round after that is the last to change anything.
FormatSettles ==
    [][todo = "print" /\ printable =>
         \/ text' = text
         \/ round = 0
         \/ round = 1 /\ Has(module, UnfoldsInside)]_vars

(***************************************************************************)
(* What an operator expression means, read off its words: the last of the  *)
(* operators that bind loosest is applied last.  A comparison whose left   *)
(* side is a comparison continues it.                                      *)
(***************************************************************************)
IsOp(w) == w \in BinaryOps \cup CompareOps
Meant(op, x, y) ==
    IF op \in BinaryOps THEN [n |-> "Binary", s |-> <<op>>, c |-> <<x, y>>]
    ELSE IF x.n = "Compare" THEN [x EXCEPT !.s = Append(@, op), !.c = Append(@, y)]
    ELSE [n |-> "Compare", s |-> <<op>>, c |-> <<x, y>>]
RECURSIVE Meaning(_)
Meaning(ws) ==
    LET ops == {i \in DOMAIN ws : IsOp(ws[i])}
        loosest == {i \in ops : \A j \in ops : Precedence(ws[i]) <= Precedence(ws[j])}
        i == Max(loosest) IN
    IF ops = {} THEN [n |-> "Identifier", s |-> ws, c |-> <<>>]
    ELSE Meant(ws[i], Meaning(SubSeq(ws, 1, i - 1)), Meaning(SubSeq(ws, i + 1, Len(ws))))

\* Two-word operators as one.
OneWord(ws) ==
    LET first(i) == i < Len(ws) /\ <<ws[i], ws[i + 1]>> \in {<<"not", "in">>, <<"is", "not">>}
        at == SelectSeq([i \in DOMAIN ws |-> i], LAMBDA i : i = 1 \/ ~first(i - 1))
    IN  [j \in DOMAIN at |-> IF ~first(at[j]) THEN ws[at[j]]
                             ELSE IF ws[at[j]] = "not" THEN "not in" ELSE "is not"]
IsOperatorExpr(ws) ==
    /\ Len(ws) > 2 /\ ws[1] = "x" /\ ws[2] = "="
    /\ \A i \in 3..Len(ws) : ws[i] \in IF i % 2 = 1 THEN {"a", "b", "c", "d"} ELSE BinaryOps \cup CompareOps

\* Operators bind as the precedence table says and to the left (do_parse_simple_expr
\* climbs through an expression with one loop and one recursive call), and printing
\* them without brackets does not change that.
BindsByPrecedence ==
    LET ws == OneWord(SelectSeq(text, LAMBDA w : w # "NL"))
    IN  todo = "print" /\ IsOperatorExpr(ws) =>
          Erase(module).c[2].c[1].c[3] = Meaning(SubSeq(ws, 3, Len(ws)))
=============================================================================
