------------------------------- MODULE Values -------------------------------
(***************************************************************************)
(* The values of a running program and the operators on them               *)
(* (runtime/src/value).  A value is an immutable tree; the operators that  *)
(* update a value in place return the updated tree, and what other names   *)
(* see of such an update is the business of the modules that use them.     *)
(*                                                                         *)
(* Integers have IntWidth bits; a float is counted in halves, rounded down *)
(* and bounded by FloatInf, which also stands for NaN.  A string is a      *)
(* sequence of letters, and Bytes gives the width of a letter in UTF-8.    *)
(* A dictionary is a sequence of entries [key, val, op, idx] in insertion  *)
(* order; idx is <<>> or <<n>>.  A panic is a value of kind "panic" whose  *)
(* field why tells a value of the wrong kind ("type") from a value out of  *)
(* range ("value").                                                        *)
(***************************************************************************)
EXTENDS Integers, Sequences, FiniteSets, TLC

CONSTANTS IntWidth,   \* bits of an integer: 64 in the code
          FloatInf,   \* the largest float, in halves
          Letters     \* letter -> [rank: its place in the order, bytes: its width,
                      \*            escaped: whether {:?} escapes it]

Bytes(s) == LET RECURSIVE sum(_)
                sum(n) == IF n = 0 THEN 0 ELSE Letters[s[n]].bytes + sum(n - 1)
            IN  sum(Len(s))

NoneV == [k |-> "none"]
UndefinedV == [k |-> "undefined"]
BoolV(b) == [k |-> "bool", b |-> b]
StrV(s) == [k |-> "str", s |-> s]
ListV(items) == [k |-> "list", items |-> items]
DictV(es) == [k |-> "dict", es |-> es]
SchemaV(name, es) == [k |-> "schema", name |-> name, es |-> es]
UnitV(raw, suffix) == [k |-> "unit", raw |-> raw, suffix |-> suffix]
Entry(key, v, op, idx) == [key |-> key, val |-> v, op |-> op, idx |-> idx]
Panic(why) == [k |-> "panic", why |-> why]
TypeError == Panic("type")
ValueError == Panic("value")
Panics(v) == v.k = "panic"

IntMin == -(2 ^ (IntWidth - 1))
IntMax == 2 ^ (IntWidth - 1) - 1
(* Arithmetic that is checked, and arithmetic that wraps. *)
IntV(n) == IF n \in IntMin..IntMax THEN [k |-> "int", n |-> n] ELSE ValueError
WrapV(n) == [k |-> "int", n |-> ((n - IntMin) % (2 ^ IntWidth)) + IntMin]
FloatV(h) == [k |-> "float", f |-> IF h > FloatInf THEN FloatInf
                                   ELSE IF h < -FloatInf THEN -FloatInf ELSE h]

IsNum(v) == v.k \in {"int", "float"}
IsConfig(v) == v.k \in {"dict", "schema"}
IsListOrConfig(v) == v.k = "list" \/ IsConfig(v)
IsNullish(v) == v.k \in {"none", "undefined"}
Keys(es) == {es[i].key: i \in DOMAIN es}
IndexOf(es, key) == CHOOSE i \in DOMAIN es: es[i].key = key
ValueAt(es, key) == es[IndexOf(es, key)].val
AsStr(v) == IF v.k = "str" THEN v.s ELSE <<>>

(* as f64, in halves; as i64, which drops the fraction. *)
Halves(v) == IF v.k = "int" THEN 2 * v.n ELSE v.f
TruncDiv(x, y) == IF (x < 0) = (y < 0) THEN (IF x < 0 THEN -x ELSE x) \div (IF y < 0 THEN -y ELSE y)
                  ELSE -((IF x < 0 THEN -x ELSE x) \div (IF y < 0 THEN -y ELSE y))
FloorDiv(x, y) == IF y > 0 THEN x \div y ELSE (-x) \div (-y)
FloorMod(x, y) == x - y * FloorDiv(x, y)
AsInt(v) == IF v.k = "int" THEN v.n ELSE TruncDiv(v.f, 2)
FloatDiv(x, y) == IF y = 0 THEN FloatV(FloatInf) ELSE FloatV(FloorDiv(2 * x, y))
DivisionTraps(x, y) == y = 0 \/ (x = IntMin /\ y = -1)
Power(x, n) == IF n = 0 THEN 1 ELSE x ^ n
(* Powers of a float: the small whole exponents, one half for the others. *)
FloatPower(x, y) == IF y \in {0, 2, 4} THEN FloatV((2 * Power(x, y \div 2)) \div (2 ^ (y \div 2)))
                    ELSE FloatV(1)
Repeat(s, n) == [i \in 1..(n * Len(s)) |-> s[((i - 1) % Len(s)) + 1]]
RepeatOrTrap(s, n, Wrap(_)) == IF n < 0 /\ s # <<>> THEN ValueError
                               ELSE Wrap(Repeat(s, IF n < 0 THEN 0 ELSE n))

(***************************************************************************)
(* val_bin.rs: the operators that make a new value.                        *)
(***************************************************************************)
(* Two integers, or two numbers of which one is a float. *)
Arith(a, x, OnInts(_, _), OnFloats(_, _)) ==
    IF ~(IsNum(a) /\ IsNum(x)) THEN TypeError
    ELSE IF a.k = "int" /\ x.k = "int" THEN OnInts(a.n, x.n)
    ELSE OnFloats(Halves(a), Halves(x))
OnInt(a, x, Op(_, _)) == IF a.k = "int" /\ x.k = "int" THEN Op(a.n, x.n) ELSE TypeError

bin_add(a, x) ==
    CASE a.k = "str" /\ x.k = "str" -> StrV(a.s \o x.s)
      [] a.k = "list" -> IF x.k = "list" THEN ListV(a.items \o x.items) ELSE TypeError
      [] OTHER -> Arith(a, x, LAMBDA m, n: IntV(m + n), LAMBDA m, n: FloatV(m + n))

bin_sub(a, x) == Arith(a, x, LAMBDA m, n: IntV(m - n), LAMBDA m, n: FloatV(m - n))

bin_mul(a, x) ==
    CASE a.k = "str" /\ x.k = "int" -> RepeatOrTrap(a.s, x.n, StrV)
      [] a.k = "int" /\ x.k = "str" -> RepeatOrTrap(x.s, a.n, StrV)
      [] a.k = "list" /\ x.k = "int" -> RepeatOrTrap(a.items, x.n, ListV)
      [] a.k = "int" /\ x.k = "list" -> RepeatOrTrap(x.items, a.n, ListV)
      [] OTHER -> Arith(a, x, LAMBDA m, n: IntV(m * n), LAMBDA m, n: FloatV((m * n) \div 2))

bin_div(a, x) == Arith(a, x, LAMBDA m, n: FloatDiv(2 * m, 2 * n), FloatDiv)

FloatRem(x, y) == IF y = 0 THEN FloatV(FloatInf) ELSE FloatV(x - y * TruncDiv(x, y))
bin_mod(a, x) ==
    Arith(a, x, LAMBDA m, n: IF DivisionTraps(m, n) THEN ValueError ELSE IntV(FloorMod(m, n)),
          FloatRem)

(* A negative exponent is taken for a huge one. *)
IntPower(m, n) == IF n >= 0 \/ m = 1 THEN IntV(Power(m, IF n < 0 THEN 0 ELSE n))
                  ELSE IF m = 0 THEN IntV(0)
                  ELSE IF m = -1 THEN IntV(IF n % 2 = 0 THEN 1 ELSE -1) ELSE ValueError
bin_pow(a, x) == Arith(a, x, IntPower, FloatPower)

bin_floor_div(a, x) ==
    Arith(a, x, LAMBDA m, n: IF DivisionTraps(m, n) THEN ValueError ELSE IntV(FloorDiv(m, n)),
          LAMBDA m, n: IF n = 0 THEN FloatV(FloatInf) ELSE FloatV(2 * FloorDiv(m, n)))

ShiftLeft(m, n) == IF n \in 0..(IntWidth - 1) THEN WrapV(m * (2 ^ n)) ELSE ValueError
ShiftRight(m, n) == IF n \in 0..(IntWidth - 1) THEN IntV(m \div (2 ^ n)) ELSE ValueError
bin_bit_lshift(a, x) == OnInt(a, x, ShiftLeft)
bin_bit_rshift(a, x) == OnInt(a, x, ShiftRight)

(* Two's complement, bit by bit. *)
BitwiseOp(m, n, Op(_, _)) ==
    LET bit(v, i) == (v \div (2 ^ i)) % 2
        RECURSIVE sum(_)
        sum(i) == IF i < 0 THEN 0
                  ELSE sum(i - 1) + (IF Op(bit(m, i), bit(n, i)) = 1 THEN 2 ^ i ELSE 0)
    IN  WrapV(sum(IntWidth - 1))
BitAnd(m, n) == BitwiseOp(m, n, LAMBDA p, q: p * q)
BitOr(m, n) == BitwiseOp(m, n, LAMBDA p, q: IF p + q > 0 THEN 1 ELSE 0)
BitXor(m, n) == BitwiseOp(m, n, LAMBDA p, q: (p + q) % 2)
bin_bit_and(a, x) == OnInt(a, x, BitAnd)
bin_bit_xor(a, x) == OnInt(a, x, BitXor)

(***************************************************************************)
(* val_bin_aug.rs: the operators that update their left operand.  The      *)
(* update keeps the operand's kind, so a float added to an integer loses   *)
(* its fraction.                                                           *)
(***************************************************************************)
ArithAug(a, x, OnInts(_, _), IntByFloat(_, _), OnFloats(_, _)) ==
    IF ~(IsNum(a) /\ IsNum(x)) THEN TypeError
    ELSE IF a.k = "int" /\ x.k = "int" THEN OnInts(a.n, x.n)
    ELSE IF a.k = "int" THEN IntByFloat(a.n, AsInt(x))
    ELSE OnFloats(a.f, Halves(x))

bin_aug_add(a, x) ==
    CASE a.k = "str" /\ x.k = "str" -> StrV(a.s \o x.s)
      [] a.k = "list" -> IF x.k = "list" THEN ListV(a.items \o x.items) ELSE TypeError
      [] OTHER -> ArithAug(a, x, LAMBDA m, n: IntV(m + n), LAMBDA m, n: WrapV(m + n),
                           LAMBDA m, n: FloatV(m + n))
bin_aug_sub(a, x) == ArithAug(a, x, LAMBDA m, n: IntV(m - n), LAMBDA m, n: WrapV(m - n),
                              LAMBDA m, n: FloatV(m - n))
(* The list keeps its own items, so zero copies are one copy. *)
bin_aug_mul(a, x) ==
    CASE a.k = "str" /\ x.k = "int" -> RepeatOrTrap(a.s, x.n, StrV)
      [] a.k = "list" -> IF x.k = "int" THEN RepeatOrTrap(a.items, IF x.n = 0 THEN 1 ELSE x.n, ListV)
                         ELSE TypeError
      [] OTHER -> ArithAug(a, x, LAMBDA m, n: IntV(m * n), LAMBDA m, n: WrapV(m * n),
                           LAMBDA m, n: FloatV((m * n) \div 2))
IntTruncDiv(m, n) == IF DivisionTraps(m, n) THEN ValueError ELSE IntV(TruncDiv(m, n))
bin_aug_div(a, x) == ArithAug(a, x, IntTruncDiv, IntTruncDiv, FloatDiv)
bin_aug_mod(a, x) ==
    ArithAug(a, x, LAMBDA m, n: IF DivisionTraps(m, n) THEN ValueError ELSE IntV(FloorMod(m, n)),
             LAMBDA m, n: IF DivisionTraps(m, n) THEN ValueError ELSE IntV(m - n * TruncDiv(m, n)),
             FloatRem)
bin_aug_pow(a, x) ==
    ArithAug(a, x, IntPower, LAMBDA m, n: WrapV(Power(m, IF n < 0 THEN 0 ELSE n)), FloatPower)
bin_aug_floor_div(a, x) ==
    IF a.k = "int" /\ x.k = "float"
    THEN IF x.f = 0 THEN IntV(IF a.n < 0 THEN IntMin ELSE IF a.n > 0 THEN IntMax ELSE 0)
         ELSE IntV(TruncDiv(2 * a.n, x.f))
    ELSE ArithAug(a, x, LAMBDA m, n: IF DivisionTraps(m, n) THEN ValueError ELSE IntV(FloorDiv(m, n)),
                  IntTruncDiv, FloatDiv)
bin_aug_bit_lshift(a, x) == OnInt(a, x, ShiftLeft)
bin_aug_bit_rshift(a, x) == OnInt(a, x, ShiftRight)
bin_aug_bit_and(a, x) == OnInt(a, x, BitAnd)
bin_aug_bit_xor(a, x) == OnInt(a, x, BitXor)

(***************************************************************************)
(* val_cmp.rs, val_unary.rs, val_logic.rs, val_is_in.rs, val_len.rs        *)
(***************************************************************************)
RECURSIVE cmp_equal(_, _)
cmp_equal(a, x) ==
    IF IsNum(a) THEN IsNum(x) /\ Halves(a) = Halves(x)
    ELSE IF a.k # x.k THEN FALSE
    ELSE CASE IsNullish(a) -> TRUE
           [] a.k = "bool" -> a.b = x.b
           [] a.k = "str" -> a.s = x.s
           [] a.k = "list" -> /\ Len(a.items) = Len(x.items)
                              /\ \A i \in DOMAIN a.items: cmp_equal(a.items[i], x.items[i])
           [] IsConfig(a) -> /\ Len(a.es) = Len(x.es)
                             /\ \A i \in DOMAIN a.es:
                                  /\ a.es[i].key \in Keys(x.es)
                                  /\ cmp_equal(a.es[i].val, ValueAt(x.es, a.es[i].key))
           [] a.k = "func" -> a = x
           [] a.k = "unit" -> FALSE
cmp_not_equal(a, x) == ~cmp_equal(a, x)

(* Numbers and booleans, strings, and lists by their first difference. *)
IsOrdinal(v) == IsNum(v) \/ v.k = "bool"
Ordinal(v) == IF v.k = "bool" THEN (IF v.b THEN 2 ELSE 0) ELSE Halves(v)
StrOrder(s, t) ==
    LET differ == {i \in 1..Len(s) \cap 1..Len(t): s[i] # t[i]}
        first == CHOOSE i \in differ: \A j \in differ: i =< j
    IN  IF differ = {} THEN Len(s) - Len(t) ELSE Letters[s[first]].rank - Letters[t[first]].rank
(* The sign of a compared with x, as [diff] or as a panic. *)
RECURSIVE Order(_, _)
Order(a, x) ==
    IF IsOrdinal(a) /\ IsOrdinal(x) THEN [k |-> "order", diff |-> Ordinal(a) - Ordinal(x)]
    ELSE IF a.k = "str" /\ x.k = "str" THEN [k |-> "order", diff |-> StrOrder(a.s, x.s)]
    ELSE IF a.k = "list" /\ x.k = "list"
    THEN LET differ == {i \in DOMAIN a.items \cap DOMAIN x.items: ~cmp_equal(a.items[i], x.items[i])}
             first == CHOOSE i \in differ: \A j \in differ: i =< j
         IN  IF differ = {} THEN [k |-> "order", diff |-> Len(a.items) - Len(x.items)]
             ELSE Order(a.items[first], x.items[first])
    ELSE TypeError
Ordered(a, x, Rel(_)) == LET o == Order(a, x) IN IF Panics(o) THEN o ELSE BoolV(Rel(o.diff))
cmp_less_than(a, x) == Ordered(a, x, LAMBDA d: d < 0)
cmp_less_than_or_equal(a, x) == Ordered(a, x, LAMBDA d: d =< 0)
cmp_greater_than(a, x) == Ordered(a, x, LAMBDA d: d > 0)
cmp_greater_than_or_equal(a, x) == Ordered(a, x, LAMBDA d: d >= 0)

is_truthy(v) ==
    CASE IsNullish(v) -> FALSE
      [] v.k = "bool" -> v.b
      [] v.k = "int" -> v.n # 0
      [] v.k = "float" -> v.f # 0
      [] v.k = "str" -> v.s # <<>>
      [] v.k = "list" -> v.items # <<>>
      [] IsConfig(v) -> v.es # <<>>
      [] v.k = "func" -> TRUE
      [] v.k = "unit" -> v.raw # 0

unary_plus(v) == IF IsNum(v) THEN v ELSE TypeError
unary_minus(v) == CASE v.k = "int" -> WrapV(-v.n) [] v.k = "float" -> FloatV(-v.f)
                    [] OTHER -> TypeError
(* as_int of anything that is not an integer is 0. *)
unary_not(v) == WrapV(-1 - (IF v.k = "int" THEN v.n ELSE 0))
unary_l_not(v) == BoolV(~is_truthy(v))

SubString(s, t) == \E i \in 0..(Len(t) - Len(s)): \A j \in DOMAIN s: s[j] = t[i + j]
r_in(v, x) ==
    CASE x.k = "str" -> BoolV(v.k = "str" /\ SubString(AsStr(v), x.s))
      [] x.k = "list" -> BoolV(\E i \in DOMAIN x.items: cmp_equal(v, x.items[i]))
      [] IsConfig(x) -> BoolV(AsStr(v) \in Keys(x.es))
      [] OTHER -> TypeError
not_in(v, x) == LET r == r_in(v, x) IN IF Panics(r) THEN r ELSE BoolV(~r.b)

(* The length of a string is the number of its bytes. *)
len(v) == CASE v.k = "str" -> IntV(Bytes(v.s)) [] v.k = "list" -> IntV(Len(v.items))
            [] IsConfig(v) -> IntV(Len(v.es)) [] OTHER -> TypeError

(***************************************************************************)
(* bin_subscr and its kin, slices, iteration, attributes.                  *)
(***************************************************************************)
(* Positions count from 1 here; 0 stands for the panic. *)
must_normalize_index(index, n) ==
    IF index < 0 THEN (IF index + n >= 0 THEN index + n + 1 ELSE 0) ELSE index + 1

bin_subscr(a, x) ==
    LET at(s, Item(_)) == LET i == must_normalize_index(x.n, Len(s))
                          IN  IF i \in DOMAIN s THEN Item(s[i]) ELSE ValueError
    IN  CASE a.k = "str" /\ x.k = "int" -> at(a.s, LAMBDA c: StrV(<<c>>))
          [] a.k = "list" /\ x.k = "int" -> at(a.items, LAMBDA v: v)
          [] IsConfig(a) /\ x.k = "str" ->
                IF x.s \in Keys(a.es) THEN ValueAt(a.es, x.s) ELSE UndefinedV
          [] a.k = "dict" /\ x.k # "str" -> UndefinedV
          [] OTHER -> TypeError

bin_subscr_option(a, x) == IF is_truthy(a) THEN bin_subscr(a, x) ELSE NoneV

(* The bounds of a slice: i64::MAX and i64::MIN are past every length. *)
slice_unpack(start, stop, step) ==
    LET by == IF step.k = "int" THEN step.n ELSE 1
    IN  [start |-> IF start.k = "int" THEN start.n ELSE IF by < 0 THEN IntMax ELSE 0,
         stop |-> IF stop.k = "int" THEN stop.n ELSE IF by < 0 THEN IntMin ELSE IntMax,
         step |-> by]
slice_adjust_indices(n, start, stop, step) ==
    LET adjust(i) == IF i < 0 THEN (IF i + n >= 0 THEN i + n ELSE IF step < 0 THEN -1 ELSE 0)
                     ELSE IF i >= n THEN (IF step < 0 THEN n - 1 ELSE n) ELSE i
        from == adjust(start)
        to == adjust(stop)
    IN  [start |-> from,
         count |-> IF step < 0 THEN (IF to < from THEN ((from - to - 1) \div (-step)) + 1 ELSE 0)
                   ELSE IF from < to THEN ((to - from - 1) \div step) + 1 ELSE 0]
list_slice(v, start, stop, step) ==
    IF v.k \notin {"list", "str"} THEN TypeError
    ELSE LET s == IF v.k = "list" THEN v.items ELSE v.s
             b == slice_unpack(start, stop, step)
             r == slice_adjust_indices(Len(s), b.start, b.stop, b.step)
             cut == [i \in 1..r.count |-> s[r.start + (i - 1) * b.step + 1]]
         IN  IF b.step = 0 THEN ValueError
             ELSE IF v.k = "list" THEN ListV(cut) ELSE StrV(cut)

(* What a loop over the value yields: [next, key, val] at every turn.  A   *)
(* string is walked by its letters, a dictionary by its keys.              *)
Iterable(v) == v.k \in {"str", "list", "dict", "schema"}
iter(v) ==
    CASE v.k = "str" -> [i \in DOMAIN v.s |->
            [next |-> StrV(<<v.s[i]>>), key |-> IntV(i - 1), val |-> StrV(<<v.s[i]>>)]]
      [] v.k = "list" -> [i \in DOMAIN v.items |->
            [next |-> v.items[i], key |-> IntV(i - 1), val |-> v.items[i]]]
      [] IsConfig(v) -> [i \in DOMAIN v.es |->
            [next |-> StrV(v.es[i].key), key |-> StrV(v.es[i].key), val |-> v.es[i].val]]

load_attr(v, name) ==
    CASE v.k = "dict" -> IF name \in Keys(v.es) THEN ValueAt(v.es, name) ELSE UndefinedV
      [] v.k = "schema" -> IF name \in Keys(v.es) THEN ValueAt(v.es, name) ELSE TypeError
      [] OTHER -> TypeError
load_attr_option(v, name) == IF is_truthy(v) THEN load_attr(v, name) ELSE NoneV

(* val_list.rs and val_dict.rs: a collection grows by the members of       *)
(* another, and a filter takes out an item (the last equal one) or a key.  *)
list_append_unpack(p, v) ==
    CASE v.k = "list" -> ListV(p.items \o v.items)
      [] IsConfig(v) -> ListV(p.items \o [i \in DOMAIN v.es |-> StrV(v.es[i].key)])
      [] IsNullish(v) -> p
      [] OTHER -> TypeError
RemoveAt(s, i) == SubSeq(s, 1, i - 1) \o SubSeq(s, i + 1, Len(s))
list_remove(p, item) ==
    LET equal == {i \in DOMAIN p.items: cmp_equal(p.items[i], item)}
    IN  IF equal = {} THEN p
        ELSE ListV(RemoveAt(p.items, CHOOSE i \in equal: \A j \in equal: j =< i))
dict_remove(p, key) == IF key \in Keys(p.es) THEN DictV(RemoveAt(p.es, IndexOf(p.es, key))) ELSE p
remove_item(p, item) ==
    CASE p.k = "dict" -> dict_remove(p, AsStr(item))
      [] p.k = "list" -> list_remove(p, item)
      [] OTHER -> TypeError

(* val_fmt.rs: the text of a value, a scalar other than a string as one    *)
(* letter.                                                                 *)
RECURSIVE Display(_)
Display(v) ==
    LET RECURSIVE join(_)
        join(texts) == IF texts = <<>> THEN <<>>
                       ELSE texts[1] \o (IF Len(texts) = 1 THEN <<>> ELSE <<",">>) \o join(Tail(texts))
    IN  CASE v.k = "str" -> v.s
          [] v.k = "none" -> <<"None">>
          [] v.k = "undefined" -> <<"Undefined">>
          [] v.k = "bool" -> <<IF v.b THEN "True" ELSE "False">>
          [] v.k = "int" -> <<ToString(v.n)>>
          [] v.k = "float" -> <<ToString(v.f \div 2), IF v.f % 2 = 0 THEN ".0" ELSE ".5">>
          [] v.k = "unit" -> <<ToString(v.raw), v.suffix>>
          [] v.k = "list" -> <<"[">> \o join([i \in DOMAIN v.items |-> Display(v.items[i])]) \o <<"]">>
          [] IsConfig(v) -> <<"{">> \o join([i \in DOMAIN v.es |->
                               v.es[i].key \o <<":">> \o Display(v.es[i].val)]) \o <<"}">>
          [] v.k = "func" -> <<"function">>
=============================================================================
