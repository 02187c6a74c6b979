------------------------------ MODULE MCFormat ------------------------------
(***************************************************************************)
(* Formatting and querying files.                                          *)
(*                                                                         *)
(* The texts that are formatted: expressions nested two deep in both       *)
(* layouts of their brackets, every statement form alone and in front of   *)
(* another one, and chains of three operators.                             *)
(***************************************************************************)
EXTENDS Format
VARIABLES file, held, before, specs, imports, override, at, changed, listing
query_vars == <<file, held, before, specs, imports, override, at, changed, listing>>
Q == INSTANCE Query

Join(parts, between) ==
    IF parts = <<>> THEN <<>> ELSE FoldLeft(LAMBDA a, x : a \o between \o x, Head(parts), Tail(parts))
\* One level deeper: a TAB at the beginning of every further line.
RECURSIVE Deeper(_)
Deeper(ws) ==
    LET half == Len(ws) \div 2 IN
    CASE Len(ws) = 0 -> <<>>
      [] Len(ws) = 1 -> IF ws = <<"NL">> THEN <<"NL", "TAB">> ELSE ws
      [] OTHER -> Deeper(SubSeq(ws, 1, half)) \o Deeper(SubSeq(ws, half + 1, Len(ws)))
Lines(parts) == <<"NL", "TAB">> \o Deeper(Join(parts, <<"NL">>)) \o <<"NL">>

Layouts == {"one line", "lines"}
Bracket(layout, open, parts, close) ==
    <<open>> \o (IF layout = "lines" THEN Lines(parts) ELSE Join(parts, <<",">>)) \o <<close>>
Entry(x) == <<"k", "=">> \o x
Then(l, x) == IF l = "lines" THEN <<":", "NL", "TAB">> \o Deeper(x) ELSE <<":">> \o x
IfItem(l, x) == <<"if", "c">> \o Then(l, x)
IfElse(l, x) == IfItem(l, x) \o (IF l = "lines" THEN <<"NL", "else">> ELSE <<"else">>) \o Then(l, x)
Lambda(x) == <<"lambda", "{", "NL", "TAB">> \o Deeper(x) \o <<"NL", "}">>
LambdaLine(x) == <<"lambda", "p", "{">> \o x \o <<"}">>
Quant(x) == <<"any", "p", "in", "a">> \o <<"{">> \o x \o <<"}">>
QuantLines(x) == <<"all", "p", ",", "q", "in", "[", "]">> \o <<"{", "NL", "TAB">> \o Deeper(x) \o <<"NL", "}">>

Pairs == {"list", "config", "if last", "if first", "if entry"}
Pair(form, l, x, y) ==
    CASE form = "list" -> Bracket(l, "[", <<x, y>>, "]")
      [] form = "config" -> Bracket(l, "{", <<Entry(x), Entry(y)>>, "}")
      [] form = "if last" -> Bracket(l, "[", <<x, IfItem(l, y)>>, "]")
      [] form = "if first" -> Bracket(l, "[", <<IfElse(l, x), y>>, "]")
      [] form = "if entry" -> Bracket(l, "{", <<Entry(x), IfItem(l, Entry(y))>>, "}")
Singles == {"list", "config", "unpack", "if entry", "if item"}
Single(form, l, x) ==
    CASE form = "list" -> Bracket(l, "[", <<x>>, "]")
      [] form = "config" -> Bracket(l, "{", <<Entry(x)>>, "}")
      [] form = "unpack" -> Bracket(l, "{", <<<<"**">> \o x>>, "}")
      [] form = "if entry" -> Bracket(l, "{", <<IfElse(l, Entry(x))>>, "}")
      [] form = "if item" -> Bracket(l, "[", <<IfItem(l, x)>>, "]")
Plain(x) ==
    {Lambda(x), LambdaLine(x), Quant(x), QuantLines(x), <<"(">> \o x \o <<")">>,
     <<"f", "(">> \o x \o <<",", "n", "=">> \o x \o <<")">>,
     <<"S">> \o Bracket("one line", "{", <<Entry(x)>>, "}"),
     <<"[">> \o x \o <<"for", "p", "in">> \o x \o <<"if">> \o x \o <<"]">>,
     <<"{", "p", ":">> \o x \o <<"for", "p", "in">> \o x \o <<"}">>,
     <<"{", "**">> \o x \o <<"for", "p", "in", "a", "}">>, x \o <<"[", "a", ":", "]">>, x \o <<"?", ".", "b">>, <<"not">> \o x,
     x \o <<"if">> \o x \o <<"else">> \o x}

Inner == {<<"a">>} \cup Plain(<<"a">>)
           \cup {Single(form, l, <<"a">>) : form \in Singles, l \in Layouts}
           \cup {Pair(form, l, <<"a">>, <<"1">>) : form \in {"list", "config", "if last"}, l \in Layouts}
Atoms == {<<"0x1">>, <<"1.0">>, <<"'s'">>, <<"'''d'''">>, <<"None">>}

\* Statements around an expression.
Under(head, x) == head \o <<":", "NL", "TAB">> \o Deeper(x)
Forms(x) ==
    {<<"x", "=">> \o x, <<"x", ":", "int", "=">> \o x, <<"x", ".", "y", "=", "z", "[", "1", "]", "=">> \o x,
     <<"x", "+=">> \o x, <<"x", ":", "S">> \o Bracket("one line", "{", <<Entry(x)>>, "}"),
     <<"assert">> \o x \o <<"if", "c", ",", "'s'">>, x,
     <<"import", ".", "a", ".", "b", "as", "d">>, <<"type", "T", "=", "{", "str", ":", "[", "T", "|", "1", "]", "}">>,
     Under(<<"if">> \o x, <<"x", "=">> \o x),
     Under(<<"if", "c">>, Under(<<"if">> \o x, <<"y", "=">> \o x)) \o <<"NL", "else", ":", "NL", "TAB", "z", "=", "1">>,
     Under(<<"if", "c">>, <<"y", "=">> \o x) \o <<"NL">> \o Under(<<"elif", "d">>, <<"y", "=">> \o x)
        \o <<"NL">> \o Under(<<"else">>, <<"y", "=", "1", "NL", "z", "=">> \o x)}
Bodies(x) ==
    {<<"k", ":", "int", "=">> \o x, <<"'x-y'", "?", ":", "str">>, <<"a", ".", "b", ":", "int", "+=", "1">>,
     <<"'''d'''", "NL", "mixin", "[", "AMixin", "]", "NL", "k", "=">> \o x,
     <<"[", "...", "str", "]", ":", "int", "=">> \o x, <<"[", "n", ":", "...", "str", "]", ":", "int">>,
     <<"[", "n", ":", "str", "]", ":", "int", "NL", "k", ":", "int", "NL", "check", ":", "NL", "TAB">>
        \o Deeper(x \o <<"if", "c", ",", "'s'", "NL", "n", "<", "2">>),
     Under(<<"if">> \o x, <<"k", "=">> \o x) \o <<"NL", "@", "d", "(">> \o x \o <<")", "NL", "k", ":", "int">>}
Schemas(x) ==
    {Under(head, body) : head \in {<<"schema", "S">>, <<"@", "d", "NL", "schema", "S", "[", "p", ":", "int", "=", "1", "]", "(", "B", ")">>},
                         body \in Bodies(x)}
      \cup {Under(<<"protocol", "AMixin">>, <<"k", ":", "int">>), Under(<<"schema", "AProtocol">>, <<"k", ":", "int">>),
            Under(<<"mixin", "M", "for", "H">>, <<"k", "=", "1">>),
            Under(<<"rule", "R", "(", "A", ",", "B", ")">>, <<"'''d'''", "NL">> \o x),
            Under(<<"rule", "R">>, <<"'''d'''">>)}
Small == {<<"a">>, Lambda(<<"a">>), Bracket("lines", "[", <<<<"a">>, <<"1">>>>, "]"), Single("config", "one line", <<"a">>)}
Statements2(x) == Forms(x) \cup Schemas(x)

Ops == {<<"as">>, <<"or">>, <<"and">>, <<"==">>, <<"not", "in">>, <<"is", "not">>, <<"|">>, <<"+">>, <<"-">>}

MCInit ==
    \/ \E form \in Pairs, l \in Layouts, x \in Inner, y \in Small : Init({<<"x", "=">> \o Pair(form, l, x, y)})
    \/ \E form \in Pairs, l \in Layouts, x \in Small, y \in Inner : Init({<<"x", "=">> \o Pair(form, l, x, y)})
    \/ \E form \in Singles, l \in Layouts, x \in Inner \cup Atoms : Init({<<"x", "=">> \o Single(form, l, x)})
    \/ \E x \in Inner \cup Atoms : \E y \in Plain(x) : Init({<<"x", "=">> \o y})
    \/ \E x \in Inner \cup Atoms : \E y \in Statements2(x) : Init({y})
    \/ \E y \in Statements2(<<"a">>), z \in Statements2(<<"a">>) : Init({y \o <<"NL">> \o z})
    \/ \E o1 \in Ops, o2 \in Ops, o3 \in Ops :
         Init({<<"x", "=", "a">> \o o1 \o <<"b">> \o o2 \o <<"c">> \o o3 \o <<"d">>})

-----------------------------------------------------------------------------
(***************************************************************************)
(* The files that are queried: declarations of a in all forms, alone and   *)
(* before or after another statement.                                      *)
(***************************************************************************)
Declarations ==
    {<<"a", "=", "1">>, <<"a", "=", "b", "=", "1">>, <<"c", "=", "d", "=", "2">>, <<"a", "=", "{", "b", "=", "1", "}">>, <<"a", "=", "{", "'x-y'", ":", "1", "}">>,
     <<"a", "=">> \o Bracket("lines", "{", <<<<"b", "=">> \o Bracket("lines", "{", <<<<"c", "=", "1">>>>, "}"), <<"d", ":", "[", "1", "]">>>>, "}"),
     <<"a", "=">> \o Bracket("lines", "{", <<<<"b", ".", "c", "=", "1">>, <<"b", ".", "d", "=", "2">>>>, "}"),
     <<"a", "=">> \o Bracket("one line", "{", <<<<"b", "=", "{", "c", "=", "1", "}">>, <<"b", "=", "1">>>>, "}"),
     <<"a", "=", "S", "{", "b", "=", "1", "}">>, <<"a", ":", "S", "{", "b", "=", "2", "}">>,
     <<"a", ":", "S", "{", "c", "=", "{", "'s'", ":", "1", "}", "}">>,
     <<"a", "+=", "{", "b", "=", "1", "}">>, <<"a", ".", "b", "=", "1">>, <<"c", "=", "{", "b", "=", "2", "}">>,
     <<"import", "p">>, <<"a", "=", "1", "if", "c", "else", "2">>, Under(<<"if", "c">>, <<"a", "=", "1">>)}
Overrides ==
    {<<"a", "=", "2">>, <<"a", "-">>, <<"a", ".", "b", "=", "2">>, <<"a", ".", "b", "-">>,
     <<"a", ".", "b", ".", "c", "=", "2">>, <<"a", ".", "b", ".", "c", "-">>, <<"a", ".", "b", "+=", "[", "2", "]">>,
     <<"a", ".", "d", "+=", "[", "2", "]">>, <<"a", ":", "{", "b", "=", "2", "}">>, <<"a", ":", "S", "{", "b", "=", "2", "}">>,
     <<"a", ".", "b", ":", "{", "c", "=", "3", "}">>, <<"d", "=", "2">>, <<"a", "[", "'s'", "]", "=", "2">>, <<"a", "[", "'x-y'", "]", "=", "2">>, <<"a", ".", "b", "[", "'x-y'", "]", "=", "2">>,
     <<"a", ".", "c", "[", "'s'", "]", "-">>, <<"a", ".", "e", ".", "f", "=", "{", "k", "=", "1", "}">>,
     <<"a", ".", "b">>, <<"a", "[", "b", "]", "=", "1">>, <<"b", "=", "x", "-", "y">>, <<"a", "=", "{", "b", "=", "3", "}">>}
Paths == {<<"a">>, <<"a", "b">>, <<"a", "b", "c">>, <<"b">>, <<"a", "c", "s">>, <<"a", "d">>, <<"a", "x-y">>}
Files == Declarations \cup {x \o <<"NL">> \o y : x \in Declarations, y \in Declarations}

Formats == MCInit /\ Q!QueryInit({<<>>}, {<<>>}, {<<>>})
Idle == text = <<>> /\ module = NoNode /\ todo = "none" /\ round = 0 /\ printable = FALSE
Queries ==
    /\ Idle
    /\ \/ Q!QueryInit(Files, {<<>>} \cup {<<o>> : o \in Overrides}, {<<>>})
       \/ Q!QueryInit(Declarations, {<<o>> : o \in Overrides} \cup {<<o, <<"a", ".", "b">>>> : o \in Overrides},
                      {<<<<"p">>, <<"q">>>>})
FormatAndQuery == Formats \/ Queries
FormatNext == Next /\ UNCHANGED query_vars
QueryNext == file # <<>> /\ Q!QueryNext(Paths) /\ UNCHANGED vars
MCSpec == FormatAndQuery /\ [][FormatNext \/ QueryNext]_<<vars, query_vars>>

\* Overriding a path changes what is at the path and nothing else, and listing a path
\* finds what is there (see Query).
QueriesAreExact == Q!OverrideIsExact /\ Q!ListsWhatIsThere
=============================================================================
