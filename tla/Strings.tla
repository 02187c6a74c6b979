------------------------------ MODULE Strings ------------------------------
(***************************************************************************)
(* The members of a string as the runtime computes them                    *)
(* (runtime/src/value/val_str.rs).  A text is a sequence of letters.  The  *)
(* code indexes bytes: a letter has a length in bytes, a case, and the     *)
(* texts its case conversions give.  A result is <<value>>, or <<>> when   *)
(* the call panics.  An argument not given is <<>>, otherwise <<argument>>.*)
(***************************************************************************)
EXTENDS Integers, Sequences, SequencesExt, FiniteSetsExt

CONSTANTS
    Alphabet,   \* letter -> [bytes, case, upper, lower, title, ascii, space, line]
    Needles,    \* the texts searched for
    Offsets,    \* the offsets, counts and limits given
    MaxLen      \* the longest text

VARIABLE text

Letter == DOMAIN Alphabet
Lower(c) == Alphabet[c].case = "lower"
Upper(c) == Alphabet[c].case = "upper"
RECURSIVE Bytes(_)
Bytes(s) == IF s = <<>> THEN 0 ELSE Alphabet[Head(s)].bytes + Bytes(Tail(s))

(***************************************************************************)
(* External: the pattern functions of Rust's str.                          *)
(***************************************************************************)
RECURSIVE Concat(_)
Concat(ss) == IF ss = <<>> THEN <<>> ELSE Head(ss) \o Concat(Tail(ss))
starts_with(s, sub) == IsPrefix(sub, s)
ends_with(s, sub) == IsSuffix(sub, s)
OccursAt(s, sub, at) == SubSeq(s, at + 1, at + Len(sub)) = sub

(* The letters before each match, matches that do not overlap, from the left. *)
RECURSIVE MatchesFrom(_, _, _)
MatchesFrom(s, sub, at) ==
    IF at + Len(sub) > Len(s) THEN <<>>
    ELSE IF OccursAt(s, sub, at) THEN <<at>> \o MatchesFrom(s, sub, at + Max({1, Len(sub)}))
    ELSE MatchesFrom(s, sub, at + 1)
matches(s, sub) == MatchesFrom(s, sub, 0)

(* The same from the right. *)
RECURSIVE MatchesBefore(_, _, _)
MatchesBefore(s, sub, at) ==
    IF at < 0 THEN <<>>
    ELSE IF OccursAt(s, sub, at) THEN MatchesBefore(s, sub, at - Max({1, Len(sub)})) \o <<at>>
    ELSE MatchesBefore(s, sub, at - 1)
rmatches(s, sub) == MatchesBefore(s, sub, Len(s) - Len(sub))

Pieces(s, at, width) ==
    [k \in 1..Len(at) + 1 |->
        SubSeq(s, (IF k = 1 THEN 0 ELSE at[k - 1] + width) + 1, IF k > Len(at) THEN Len(s) ELSE at[k])]
First(n, ss) == SubSeq(ss, 1, Min({n, Len(ss)}))
Last_(n, ss) == SubSeq(ss, Max({0, Len(ss) - n}) + 1, Len(ss))

(***************************************************************************)
(* Searching a range of bytes.                                             *)
(***************************************************************************)
adjust_indices(start, end, len) ==
    LET from == IF start = <<>> THEN 0 ELSE start[1]
        to == IF end = <<>> THEN len ELSE end[1]
    IN  [start |-> IF from < 0 THEN Max({0, from + len}) ELSE from,
         end |-> IF to > len THEN len ELSE IF to < 0 THEN Max({0, to + len}) ELSE to]
is_normal(range) == range.start <= range.end

(* str::get: the text of a range of bytes that starts and ends at a letter. *)
AtByte(s, b) == {i \in 0..Len(s) : Bytes(SubSeq(s, 1, i)) = b}
get(s, range) ==
    {SubSeq(s, i + 1, j) : i \in AtByte(s, range.start), j \in AtByte(s, range.end)}

(* A range that is not normal gives "otherwise"; one that cuts a letter panics. *)
InRange(s, start, end, otherwise, Answer(_, _)) ==
    LET range == adjust_indices(start, end, Bytes(s))
        part == get(s, range)
    IN  IF ~is_normal(range) THEN otherwise
        ELSE IF part = {} THEN <<>>
        ELSE Answer(CHOOSE t \in part : TRUE, range.start)

str_count(s, sub, start, end) ==
    InRange(s, start, end, <<0>>, LAMBDA t, from : <<Len(matches(t, sub))>>)
str_startswith(s, sub, start, end) ==
    InRange(s, start, end, <<FALSE>>, LAMBDA t, from : <<starts_with(t, sub)>>)
str_endswith(s, sub, start, end) ==
    InRange(s, start, end, <<FALSE>>, LAMBDA t, from : <<ends_with(t, sub)>>)

FirstByte(t, at) == Bytes(SubSeq(t, 1, at))
\* Mutant: the offset in the range is given for the offset in the text.
FindInRange(s, sub, start, end) ==
    InRange(s, start, end, <<-1>>, LAMBDA t, from :
        LET at == matches(t, sub) IN IF at = <<>> THEN <<-1>> ELSE <<FirstByte(t, Head(at))>>)
str_find(s, sub, start, end) ==
    InRange(s, start, end, <<-1>>, LAMBDA t, from :
        LET at == matches(t, sub)
        IN  IF at = <<>> THEN <<-1>> ELSE <<FirstByte(t, Head(at)) + from>>)
str_rfind(s, sub, start, end) ==
    InRange(s, start, end, <<-1>>, LAMBDA t, from :
        LET at == rmatches(t, sub)
        IN  IF at = <<>> THEN <<-1>> ELSE <<FirstByte(t, Last(at)) + from>>)
str_index(s, sub, start, end) ==
    InRange(s, start, end, <<>>, LAMBDA t, from :
        LET at == matches(t, sub)
        IN  IF at = <<>> THEN <<>> ELSE <<FirstByte(t, Head(at)) + from>>)
str_rindex(s, sub, start, end) ==
    InRange(s, start, end, <<>>, LAMBDA t, from :
        LET at == rmatches(t, sub)
        IN  IF at = <<>> THEN <<>> ELSE <<FirstByte(t, Last(at)) + from>>)

(***************************************************************************)
(* Cases.                                                                  *)
(***************************************************************************)
str_lower(s) == Concat([i \in DOMAIN s |-> Alphabet[s[i]].lower])
str_upper(s) == Concat([i \in DOMAIN s |-> Alphabet[s[i]].upper])
str_capitalize(s) ==
    IF s = <<>> THEN <<>> ELSE Alphabet[Head(s)].upper \o str_lower(Tail(s))
str_chars(s) == [i \in DOMAIN s |-> <<s[i]>>]

is_case(s, IsCase(_), IsOpposite(_)) ==
    /\ \A c \in Range(s) : ~IsOpposite(c)
    /\ \E c \in Range(s) : IsCase(c)
str_islower(s) == is_case(s, Lower, Upper)
str_isupper(s) == is_case(s, Upper, Lower)

Cased(c) == Lower(c) \/ Upper(c)
PreviousCased(s, i) == i > 1 /\ Cased(s[i - 1])
str_istitle(s) ==
    /\ \A i \in DOMAIN s :
          /\ Upper(s[i]) => ~PreviousCased(s, i)
          /\ Lower(s[i]) => PreviousCased(s, i)
    /\ \E c \in Range(s) : Cased(c)
str_title(s) ==
    Concat([i \in DOMAIN s |->
        IF Lower(s[i]) /\ ~PreviousCased(s, i) THEN Alphabet[s[i]].title
        ELSE IF Upper(s[i]) /\ PreviousCased(s, i) THEN Alphabet[s[i]].lower
        ELSE <<s[i]>>])

(***************************************************************************)
(* Cutting and joining.                                                    *)
(***************************************************************************)
str_join(sep, list) ==
    Concat([i \in DOMAIN list |-> IF i = Len(list) THEN list[i] ELSE list[i] \o sep])

Stripped(chars, c) == IF chars = <<>> THEN Alphabet[c].space ELSE c \in Range(chars[1])
Kept(s, chars) == {i \in DOMAIN s : ~Stripped(chars, s[i])}
str_lstrip(s, chars) ==
    LET kept == Kept(s, chars) IN IF kept = {} THEN <<>> ELSE SubSeq(s, Min(kept), Len(s))
str_rstrip(s, chars) ==
    LET kept == Kept(s, chars) IN IF kept = {} THEN <<>> ELSE SubSeq(s, 1, Max(kept))
str_strip(s, chars) ==
    LET kept == Kept(s, chars) IN IF kept = {} THEN <<>> ELSE SubSeq(s, Min(kept), Max(kept))

Limited(count, at, Take(_, _)) == IF count = <<>> \/ count[1] < 0 THEN at ELSE Take(count[1], at)
str_replace(s, old, new, count) ==
    LET pieces == Pieces(s, Limited(count, matches(s, old), First), Len(old))
    IN  Concat([k \in DOMAIN pieces |->
            IF k = Len(pieces) THEN pieces[k] ELSE pieces[k] \o new])
str_removeprefix(s, prefix) ==
    IF starts_with(s, prefix) THEN SubSeq(s, Len(prefix) + 1, Len(s)) ELSE s
str_removesuffix(s, suffix) ==
    IF ends_with(s, suffix) THEN SubSeq(s, 1, Len(s) - Len(suffix)) ELSE s

(* The whitespace loop of split: spaces are the offsets still to come. *)
RECURSIVE SplitWhitespace(_, _, _, _)
SplitWhitespace(s, spaces, last_offset, count) ==
    IF spaces = <<>> \/ (count = 0 /\ last_offset # Head(spaces))
    THEN IF last_offset = Len(s) THEN <<>> ELSE <<SubSeq(s, last_offset + 1, Len(s))>>
    ELSE IF last_offset = Head(spaces)
    THEN SplitWhitespace(s, Tail(spaces), last_offset + 1, count)
    ELSE <<SubSeq(s, last_offset + 1, Head(spaces))>>
         \o SplitWhitespace(s, Tail(spaces), Head(spaces) + 1, count - 1)
Spaces(s) == SetToSortSeq({i \in 0..Len(s) - 1 : Alphabet[s[i + 1]].ascii}, <)
Limit(maxsplit) == IF maxsplit = <<>> THEN -1 ELSE maxsplit[1]

str_split(s, sep, maxsplit) ==
    IF sep = <<>> THEN SplitWhitespace(s, Spaces(s), 0, Limit(maxsplit))
    ELSE Pieces(s, Limited(maxsplit, matches(s, sep[1]), First), Len(sep[1]))

RECURSIVE RSplitWhitespace(_, _)
RSplitWhitespace(haystack, count) ==
    LET spaces == Spaces(haystack)
        offset == Last(spaces)
        trailing == offset + 1 = Len(haystack)
    IN  IF spaces = <<>> \/ (~trailing /\ count = 0)
        THEN IF haystack = <<>> THEN <<>> ELSE <<haystack>>
        ELSE IF trailing THEN RSplitWhitespace(SubSeq(haystack, 1, offset), count)
        ELSE RSplitWhitespace(SubSeq(haystack, 1, offset), count - 1)
             \o <<SubSeq(haystack, offset + 2, Len(haystack))>>
str_rsplit(s, sep, maxsplit) ==
    IF sep = <<>> THEN RSplitWhitespace(s, Limit(maxsplit))
    ELSE Pieces(s, Limited(maxsplit, rmatches(s, sep[1]), Last_), Len(sep[1]))

(* The loop over the bytes: i letters are read, the line began after last_i. *)
RECURSIVE Lines(_, _, _, _)
Lines(s, keep, i, last_i) ==
    LET line == IF i < Len(s) THEN Alphabet[s[i + 1]].line ELSE ""
        i_diff == IF line = "r" /\ i + 1 < Len(s) /\ Alphabet[s[i + 2]].line = "n" THEN 2 ELSE 1
        end_len == IF keep THEN i_diff ELSE 0
    IN  IF i >= Len(s)
        THEN IF last_i = Len(s) THEN <<>> ELSE <<SubSeq(s, last_i + 1, Len(s))>>
        ELSE IF line = "" THEN Lines(s, keep, i + 1, last_i)
        ELSE <<SubSeq(s, last_i + 1, i + end_len)>> \o Lines(s, keep, i + i_diff, i + i_diff)
str_splitlines(s, keepends) == Lines(s, keepends, 0, 0)

-----------------------------------------------------------------------------
Init == text = <<>>
Push(c) == Len(text) < MaxLen /\ text' = Append(text, c)
Next == \E c \in Letter : Push(c)
Spec == Init /\ [][Next]_text
-----------------------------------------------------------------------------
Given == {<<>>} \cup {<<n>> : n \in Offsets}
NoSpace(s) == SelectSeq(s, LAMBDA c : ~Alphabet[c].ascii)

(* Taking a text apart loses nothing (val_str.rs, split, rsplit, splitlines,
   replace).  Joining the pieces of split or rsplit by the separator gives
   the text back, for every limit, the empty separator included, and a limit
   of n makes at most n + 1 pieces.  Splitting at whitespace gives no empty
   piece and no whitespace but what a limit leaves in the last (first) piece,
   and both directions agree without a limit.  The lines with their ends
   give the text back, and without their ends they are as many.  Replacing
   is splitting and joining. *)
PiecesRestore ==
    /\ \A sep \in Needles, n \in Given :
          LET parts == str_split(text, <<sep>>, n)
              rparts == str_rsplit(text, <<sep>>, n)
          IN  /\ str_join(sep, parts) = text
              /\ str_join(sep, rparts) = text
              /\ n # <<>> /\ n[1] >= 0 => Len(parts) <= n[1] + 1 /\ Len(parts) = Len(rparts)
              /\ n # <<>> /\ n[1] >= 1 /\ Len(matches(text, sep)) > 0 => Len(parts) > 1
              /\ \A new \in Needles :
                    str_replace(text, sep, new, n) = str_join(new, parts)
    /\ \A n \in Given :
          LET parts == str_split(text, <<>>, n)
              rparts == str_rsplit(text, <<>>, n)
          IN  /\ NoSpace(Concat(parts)) = NoSpace(text)
              /\ NoSpace(Concat(rparts)) = NoSpace(text)
              /\ \A k \in DOMAIN parts : parts[k] # <<>>
              /\ Len(parts) = Len(rparts)
              /\ n = <<>> => parts = rparts /\ Concat(parts) = NoSpace(text)
    /\ LET kept == str_splitlines(text, TRUE)
           lines == str_splitlines(text, FALSE)
       IN  /\ Concat(kept) = text
           /\ Len(kept) = Len(lines)
           /\ \A k \in DOMAIN lines :
                 /\ IsPrefix(lines[k], kept[k])
                 /\ \A c \in Range(lines[k]) : Alphabet[c].line = ""

(* The searches agree with each other (val_str.rs, find, rfind, index,
   rindex, count, startswith, endswith).  For one text, needle and range:
   all of them panic when the range cuts a letter, and otherwise find is
   negative exactly when count is 0 and when index panics; find is at most
   rfind, both lie in the range and the needle is there; a text starts
   (ends) with the needle exactly when the first (last) occurrence is at the
   start (end) of the range.  Removing a prefix or a suffix removes what
   startswith or endswith found. *)
SearchesAgree ==
    \A sub \in Needles, start \in Given, end \in Given :
        LET range == adjust_indices(start, end, Bytes(text))
            cuts == is_normal(range) /\ get(text, range) = {}
            find == str_find(text, sub, start, end)
            rfind == str_rfind(text, sub, start, end)
            index == str_index(text, sub, start, end)
            rindex == str_rindex(text, sub, start, end)
            count == str_count(text, sub, start, end)
            starts == str_startswith(text, sub, start, end)
            ends == str_endswith(text, sub, start, end)
            There(b) ==
                /\ range.start <= b /\ b + Bytes(sub) <= range.end
                /\ str_startswith(text, sub, <<b>>, end) = <<TRUE>>
        IN  IF cuts THEN {find, rfind, index, rindex, starts, ends, count} = {<<>>}
            ELSE IF find = <<-1>>
            THEN /\ rfind = <<-1>> /\ index = <<>> /\ rindex = <<>> /\ count = <<0>>
                 /\ starts = <<FALSE>> /\ ends = <<FALSE>>
            ELSE /\ index = find /\ rindex = rfind /\ count[1] > 0
                 /\ find[1] <= rfind[1] /\ There(find[1]) /\ There(rfind[1])
                 /\ starts = <<find[1] = range.start>>
                 /\ ends = <<rfind[1] + Bytes(sub) = range.end>>
                 /\ start = <<>> /\ end = <<>> =>
                       /\ starts[1] => sub \o str_removeprefix(text, sub) = text
                       /\ ends[1] => str_removesuffix(text, sub) \o sub = text

(* A case conversion gives what the classification calls that case, for
   every text with a cased letter (val_str.rs, upper, lower, title and
   isupper, islower, istitle), converting again changes nothing, and strip
   is lstrip and rstrip in either order.  capitalize is not lower or title
   of the first letter: an initial whose upper case is two letters (a sharp
   s) gives two capitals, which title does not. *)
CasesAgree ==
    LET cased == \E c \in Range(text) : Cased(c)
        Expands(c) == Len(Alphabet[c].upper) > 1
    IN  /\ str_isupper(str_upper(text)) = cased
        /\ str_islower(str_lower(text)) = cased
        /\ str_istitle(str_title(text)) = cased
        /\ str_istitle(text) => str_title(text) = text
        /\ str_lower(str_upper(str_lower(str_upper(text)))) = str_lower(str_upper(text))
        /\ Concat(str_chars(text)) = text
        /\ text # <<>> /\ ~Expands(Head(text)) =>
              str_capitalize(text) = str_title(<<Head(text)>>) \o str_lower(Tail(text))
        /\ \A chars \in {<<>>} \cup {<<s>> : s \in Needles} :
              /\ str_strip(text, chars) = str_lstrip(str_rstrip(text, chars), chars)
              /\ str_strip(text, chars) = str_rstrip(str_lstrip(text, chars), chars)
              /\ str_strip(str_strip(text, chars), chars) = str_strip(text, chars)
=============================================================================
