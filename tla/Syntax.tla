------------------------------- MODULE Syntax -------------------------------
(***************************************************************************)
(* The lexer's indentation handling and the recursive-descent parser       *)
(* (kclvm/parser/src): from a text to its syntax tree.                     *)
(*                                                                         *)
(* A text is a sequence of words.  "NL" is a line break, "TAB" one level   *)
(* of indentation at the beginning of a line, every other word is a token. *)
(* Words are already separated: the character level of the lexer (what is  *)
(* one token, escapes, interpolation in strings) is left out, and so are   *)
(* comments and half levels of indentation.                                *)
(*                                                                         *)
(* The parser reports an error, repairs the input and goes on.  A text     *)
(* with an error has no program, so here the first error ends the parse:   *)
(* the position becomes 0, where no token is found and nothing matches.    *)
(***************************************************************************)
EXTENDS Integers, Sequences, SequencesExt, FiniteSets

(***************************************************************************)
(* Words.  Keywords are identifiers to the lexer: the parser tells them    *)
(* apart by name, and where it does not ask they are plain names.          *)
(***************************************************************************)
Integers_ == {"1", "2", "0x1"}
Floats == {"1.0", "1.5"}
ShortStrings == {"'s'", "'x-y'", "'a.b'"}
LongStrings == {"'''d'''"}
Literals == Integers_ \cup Floats \cup ShortStrings \cup LongStrings
AugOps == {"+=", "|="}
BinaryOps == {"|", "&", "+", "-", "*", "**", "as", "or", "and"}
CompareOps == {"==", "<", "in", "is", "not in", "is not"}
Symbols == {"NL", "IN", "OUT", "EOF", "ERR", "(", ")", "[", "]", "{", "}", ",", ":", "=",
            "~", ".", "...", "?", "@", "->", "==", "<", "|", "&", "+", "-", "*", "**"}
             \cup AugOps
IsIdent(k) == k \notin Symbols \cup Literals

(***************************************************************************)
(* The value of a number literal: hexadecimal integers and decimal floats  *)
(* become values, the spelling is gone.                                    *)
(***************************************************************************)
NumberValue(k) ==
    CASE k = "0x1" -> <<"int", "1">>
      [] k = "1.0" -> <<"float", "1">>
      [] k = "1.5" -> <<"float", "1.5">>
      [] OTHER     -> <<"int", k>>

(***************************************************************************)
(* Nodes.  One shape for all: a kind, the names and operators it carries,  *)
(* its children, and the line of its first token.  An option is a NoNode   *)
(* or the node, a list is a Group.                                         *)
(***************************************************************************)
Node(n, s, c, l) == [n |-> n, s |-> s, c |-> c, l |-> l]
NoNode == Node("NoNode", <<>>, <<>>, 0)
Group(c) == Node("Group", <<>>, c, 0)
IsNone(x) == x.n = "NoNode"

\* The program: a tree without its positions.  That an attribute's name was
\* quoted shows only in the width of its position.
RECURSIVE Erase(_)
Erase(x) == [n |-> IF x.n = "QuotedName" THEN "Name" ELSE x.n, s |-> x.s,
             c |-> [i \in DOMAIN x.c |-> Erase(x.c[i])]]

\* The name in a string literal: a dotted name and a quoted one are the same name.
NameIn(k) == CASE k = "'s'" -> <<"s">> [] k = "'x-y'" -> <<"x-y">> [] k = "'a.b'" -> <<"a", "b">>

-----------------------------------------------------------------------------
(***************************************************************************)
(* Indentation (lexer/indent.rs): the first word of a line is compared     *)
(* with the stack of open levels; deeper opens one level, shallower closes *)
(* levels until the stack's top is reached.  Blank lines do not count.     *)
(***************************************************************************)
LexState == [out |-> <<>>, line |-> 1, indents |-> <<0>>, delims |-> <<>>, tabs |-> 0, begin |-> FALSE]
Token(k, l) == [k |-> k, l |-> l]
Repeat(k, l, n) == [i \in 1..n |-> Token(k, l)]

\* Mutant: a line that closes several levels closes only one.
LexIndentOnce(s) ==
    LET top == Last(s.indents) IN
    CASE s.tabs > top -> [s EXCEPT !.out = Append(@, Token("IN", s.line)),
                                   !.indents = Append(@, s.tabs), !.tabs = 0, !.begin = FALSE]
      [] s.tabs < top -> [s EXCEPT !.out = Append(@, Token("OUT", s.line)),
                                   !.indents = Front(@), !.tabs = 0, !.begin = FALSE]
      [] OTHER        -> [s EXCEPT !.tabs = 0, !.begin = FALSE]

lex_indent(s) ==
    LET open == SelectSeq(s.indents, LAMBDA d : d <= s.tabs) IN
    IF s.tabs > Last(s.indents)
    THEN [s EXCEPT !.out = Append(@, Token("IN", s.line)),
                   !.indents = Append(@, s.tabs), !.tabs = 0, !.begin = FALSE]
    ELSE [s EXCEPT !.out = @ \o Repeat("OUT", s.line, Len(s.indents) - Len(open)),
                   !.indents = open, !.tabs = 0, !.begin = FALSE]

\* A closing bracket takes the last open one off; when that is of another kind, or none
\* is open, it is an error.
Closes == [p \in {")", "]", "}"} |-> CASE p = ")" -> "(" [] p = "]" -> "[" [] p = "}" -> "{"]
lex_token(s, w) ==
    CASE w \in Range(Closes) -> [s EXCEPT !.out = Append(@, Token(w, s.line)), !.delims = Append(@, w)]
      [] w \in DOMAIN Closes /\ s.delims # <<>> ->
           [s EXCEPT !.out = Append(@, Token(IF Last(s.delims) = Closes[w] THEN w ELSE "ERR", s.line)),
                     !.delims = Front(@)]
      [] w \in DOMAIN Closes /\ s.delims = <<>> -> [s EXCEPT !.out = Append(@, Token("ERR", s.line))]
      [] OTHER -> [s EXCEPT !.out = Append(@, Token(w, s.line))]

LexWord(s, w) ==
    CASE w = "TAB" -> [s EXCEPT !.tabs = IF s.begin THEN @ + 1 ELSE @]
      [] w = "NL"  -> [s EXCEPT !.out = Append(@, Token("NL", s.line)),
                                !.line = @ + 1, !.tabs = 0, !.begin = TRUE]
      [] OTHER     -> lex_token(IF s.begin THEN lex_indent(s) ELSE s, w)

eof(s) ==
    s.out \o (IF s.begin THEN <<>> ELSE <<Token("NL", s.line)>>)
          \o Repeat("OUT", s.line, Len(s.indents) - 1)
          \o <<Token("EOF", s.line)>>

\* The parser wants a line break before the end, behind the closed levels too.
split_token_stream(toks) ==
    LET n == Len(toks)
    IN  IF n > 1 /\ toks[n - 1].k = "NL" THEN toks ELSE InsertAt(toks, n, Token("NL", toks[n].l))

\* The words from lo to hi.  Lines count from 1: the test has TLC evaluate the first
\* half before the second starts.
RECURSIVE LexWords(_, _, _, _)
LexWords(s, text, lo, hi) ==
    LET mid == (lo + hi) \div 2 IN
    CASE lo > hi -> s
      [] lo = hi -> LexWord(s, text[lo])
      [] OTHER -> LET left == LexWords(s, text, lo, mid)
                  IN  IF left.line = 0 THEN left ELSE LexWords(left, text, mid + 1, hi)
into_tokens(text) == split_token_stream(eof(LexWords(LexState, text, 1, Len(text))))

-----------------------------------------------------------------------------
(***************************************************************************)
(* The cursor.  t is the token stream and p the position of the current    *)
(* token.                                                                  *)
(***************************************************************************)
Tok(t, p) == IF p \in DOMAIN t THEN t[p].k ELSE "ERR"
Line(t, p) == IF p \in DOMAIN t THEN t[p].l ELSE 0
Got(v, p) == [v |-> v, p |-> p]
bump(p) == IF p = 0 THEN 0 ELSE p + 1
bump_token(t, p, k) == IF Tok(t, p) = k THEN p + 1 ELSE 0
Optional(t, p, k) == IF Tok(t, p) = k THEN p + 1 ELSE p

RECURSIVE SkipAll(_, _, _)
SkipAll(t, p, k) == IF Tok(t, p) = k THEN SkipAll(t, p + 1, k) ELSE p
skip_newlines(t, p) == SkipAll(t, p, "NL")
clean_all_indentations(t, p) == SkipAll(t, SkipAll(t, p, "IN"), "OUT")

\* The whitespace after an opening bracket: the items may start on a new line.
AfterOpen(t, p) ==
    IF Tok(t, p) = "NL" THEN clean_all_indentations(t, skip_newlines(t, p)) ELSE p

Precedence(k) ==
    CASE k = "as" -> 1 [] k = "or" -> 2 [] k = "and" -> 3 [] k = "==" -> 4
      [] k \in {"in", "not in"} -> 5 [] k \in {"is", "is not"} -> 6 [] k = "<" -> 7
      [] k = "|" -> 8 [] k = "&" -> 10 [] k \in {"+", "-"} -> 12 [] k = "*" -> 13
      [] k = "**" -> 14 [] k = "~" -> 15 [] OTHER -> 0

\* The operator at p, looking one token ahead for the two-word ones.
Operator(t, p) ==
    CASE Tok(t, p) = "not" /\ Tok(t, p + 1) = "in" -> "not in"
      [] Tok(t, p) = "is" /\ Tok(t, p + 1) = "not" -> "is not"
      [] OTHER -> Tok(t, p)
AfterOperator(t, p) == p + (IF Operator(t, p) \in {"not in", "is not"} THEN 2 ELSE 1)

Compared(x, ops, ys) == IF ops = <<>> THEN x ELSE Node("Compare", ops, <<x>> \o ys, x.l)

RECURSIVE parse_identifier(_, _)
parse_identifier(t, p) ==
    IF ~IsIdent(Tok(t, p)) THEN Got(NoNode, 0)
    ELSE IF Tok(t, p + 1) # "." THEN Got(Node("Identifier", <<Tok(t, p)>>, <<>>, Line(t, p)), p + 1)
    ELSE LET rest == parse_identifier(t, p + 2)
         IN  Got(Node("Identifier", <<Tok(t, p)>> \o rest.v.s, <<>>, Line(t, p)), rest.p)

RECURSIVE parse_type_annotation(_, _), TypeUnion(_, _, _), TypeParams(_, _, _)
parse_type_element(t, p) ==
    LET k == Tok(t, p)
        l == Line(t, p) IN
    CASE k \in {"any", "True", "False", "bool", "int", "float", "str"} ->
           Got(Node("TypeWord", <<k>>, <<>>, l), p + 1)
      [] k \in (Integers_ \ {"0x1"}) \cup Floats \cup ShortStrings ->
           Got(Node("TypeLiteral", <<k>>, <<>>, l), p + 1)
      [] k = "[" ->
           IF Tok(t, p + 1) = "]" THEN Got(Node("TypeList", <<>>, <<NoNode>>, l), p + 2)
           ELSE LET e == parse_type_annotation(t, p + 1)
                IN  Got(Node("TypeList", <<>>, <<e.v>>, l), bump_token(t, e.p, "]"))
      [] k = "{" ->
           LET key == IF Tok(t, p + 1) = ":" THEN Got(NoNode, p + 1)
                      ELSE parse_type_annotation(t, p + 1)
               q == bump_token(t, key.p, ":")
               val == IF Tok(t, q) = "}" THEN Got(NoNode, q) ELSE parse_type_annotation(t, q)
           IN  Got(Node("TypeDict", <<>>, <<key.v, val.v>>, l), bump_token(t, val.p, "}"))
      [] k = "(" ->
           LET ps == TypeParams(t, p + 1, <<>>)
               q == bump_token(t, ps.p, ")")
               ret == IF Tok(t, q) = "->" THEN parse_type_annotation(t, q + 1) ELSE Got(NoNode, q)
           IN  Got(Node("TypeFunction", <<>>, <<Group(ps.v), ret.v>>, l), ret.p)
      [] IsIdent(k) -> LET i == parse_identifier(t, p) IN Got(Node("TypeNamed", i.v.s, <<>>, l), i.p)
      [] OTHER -> Got(NoNode, 0)
TypeParams(t, p, ps) ==
    IF Tok(t, p) \in {")", "EOF", "ERR"} THEN Got(ps, p)
    ELSE LET ty == parse_type_annotation(t, p)
         IN  TypeParams(t, Optional(t, ty.p, ","), Append(ps, ty.v))
\* ty was found: `|` and another one, or the end of the union.
AfterType(t, ty, tys) ==
    IF Tok(t, ty.p) # "|" THEN Got(Append(tys, ty.v), ty.p) ELSE TypeUnion(t, ty.p + 1, Append(tys, ty.v))
TypeUnion(t, p, tys) == AfterType(t, parse_type_element(t, p), tys)
OneOrUnion(all, l) == Got(IF Len(all.v) = 1 THEN all.v[1] ELSE Node("TypeUnion", <<>>, all.v, l), all.p)
parse_type_annotation(t, p) == OneOrUnion(TypeUnion(t, p, <<>>), Line(t, p))
=============================================================================
