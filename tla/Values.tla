------------------------------- MODULE Values -------------------------------
(***************************************************************************)
(* The values of a QuarkLang program and the operators on them, as the     *)
(* tree-walking evaluator computes them (internal/lang/value.go and the    *)
(* tail of eval.go).  Every value is a tag and one integer, like the Go    *)
(* Value: an int is its 64-bit payload, a bool 0 or 1, a float a number of *)
(* halves, a String a code, an object (list, struct, function, stream) its *)
(* handle.  Widths are scaled: a view int has IntBits bits, char and uchar *)
(* UcharBits, long LongBits.                                               *)
(***************************************************************************)
EXTENDS Integers, Sequences
LOCAL B == INSTANCE Bitwise

CONSTANTS IntBits, UcharBits, LongBits

StrCodes == 64      \* bound: a String is a code below this number

Val(tag, i) == [tag |-> tag, i |-> i]
NilV     == Val("nil", 0)
IntV(n)  == Val("int", n)
BoolV(b) == Val("bool", IF b THEN 1 ELSE 0)
FloatV(h) == Val("float", h)
StrV(c)  == Val("str", c)

(* A reference cell: a name in a scope, a field of a struct, an element of a list. *)
Ref(kind, obj, key) == [tag |-> "ref", kind |-> kind, obj |-> obj, key |-> key]

Is(v, tag) == v.tag = tag
Truth(v)   == v.i = 1
Numeric(v) == v.tag \in {"int", "float"}
Halves(v)  == IF Is(v, "int") THEN 2 * v.i ELSE v.i

Fail(err)  == [tag |-> "err", err |-> err]      \* a RunError, by its kind
Failed(v)  == v.tag = "err"

----------------------------------------------------------------------------
(* Fixed-width integers. *)
Signed(n, w) == ((n + 2^(w - 1)) % 2^w) - 2^(w - 1)
WrapI32(n)   == IntV(Signed(n, IntBits))
MaskBits(v, n) == IF n <= 0 \/ n >= LongBits THEN v ELSE v % 2^n

Quotient(a, b)  == IF (a < 0) = (b < 0) THEN (IF a < 0 THEN (-a) \div (-b) ELSE a \div b)
                   ELSE -((IF a < 0 THEN -a ELSE a) \div (IF b < 0 THEN -b ELSE b))
Remainder(a, b) == a - b * Quotient(a, b)

(* and, or, xor of two n-bit patterns *)
Bitop(op, a, b) == CASE op = "&" -> B!&(a, b) [] op = "|" -> B!|(a, b) [] op = "^" -> B!^^(a, b)

Shl(a, n) == a * 2^n
Shr(a, n) == a \div 2^n

----------------------------------------------------------------------------
(* Raw bits: a width n, every bit past it zero. *)
ReadBit(v, i) == Shr(v, i) % 2
WriteBit(v, i, b) == v + ((b % 2) - ReadBit(v, i)) * 2^i

MaskForStore(v, width) ==
    IF width <= 0 \/ ~Is(v, "int") THEN v ELSE IntV(MaskBits(v.i, width))

RawBinOp(op, l, r, width) ==
    CASE op \in {"&", "|", "^"} -> IntV(Bitop(op, l, r))
      [] op = "<<" -> IntV(MaskBits(Shl(l, r), width))
      [] op = ">>" -> IntV(MaskBits(Shr(l, r), width))

RawTypes == [bit |-> 1, bits2 |-> 2, bits3 |-> 3, bits4 |-> 4]
IsRawType(t) == t \in DOMAIN RawTypes

ConvValue(dst, v) ==
    CASE dst = "uchar"      -> IntV(MaskBits(v.i, UcharBits))
      [] IsRawType(dst)     -> IntV(MaskBits(v.i, RawTypes[dst]))
      [] dst = "bool"       -> BoolV(v.i # 0)
      [] dst \in {"int", "char"} -> WrapI32(v.i)
      [] OTHER              -> v

----------------------------------------------------------------------------
(* Views: wrap-around arithmetic, comparison, equality. *)
IntArith(op, a, b) ==
    CASE op = "+" -> WrapI32(a + b)
      [] op = "-" -> WrapI32(a - b)
      [] op = "*" -> WrapI32(a * b)
      [] op = "/" -> IF b = 0 THEN Fail("zero") ELSE WrapI32(Quotient(a, b))
      [] op = "%" -> IF b = 0 THEN Fail("zero") ELSE WrapI32(Remainder(a, b))

Arith(op, l, r) ==
    CASE Is(l, "int") /\ Is(r, "int") -> IntArith(op, l.i, r.i)
      [] ~Numeric(l) \/ ~Numeric(r)   -> Fail("type")
      [] op = "%" -> Fail("type")
      [] op = "/" -> IF Halves(r) = 0 THEN Fail("zero")
                     ELSE FloatV(Quotient(2 * Halves(l), Halves(r)))
      [] op = "*" -> FloatV(Quotient(Halves(l) * Halves(r), 2))
      [] op = "+" -> FloatV(Halves(l) + Halves(r))
      [] op = "-" -> FloatV(Halves(l) - Halves(r))

OrdCmp(op, a, b) == CASE op = "<" -> a < b [] op = "<=" -> a <= b
                      [] op = ">" -> a > b [] op = ">=" -> a >= b

EqualValues(l, r) == IF Numeric(l) /\ Numeric(r) THEN Halves(l) = Halves(r)
                     ELSE l.tag = r.tag /\ l.i = r.i

Cmp(op, l, r) ==
    CASE op = "==" -> BoolV(EqualValues(l, r))
      [] op = "!=" -> BoolV(~EqualValues(l, r))
      [] Numeric(l) /\ Numeric(r) -> BoolV(OrdCmp(op, Halves(l), Halves(r)))
      [] Is(l, "str") /\ Is(r, "str") -> BoolV(OrdCmp(op, l.i, r.i))
      [] OTHER -> Fail("type")

IntBitwise(op, l, r) ==
    LET U(n) == n % 2^IntBits
        sh   == r % IntBits
    IN  CASE op \in {"&", "|", "^"} -> WrapI32(Bitop(op, U(l), U(r)))
          [] op = "<<" -> WrapI32(Shl(Signed(l, IntBits), sh))
          [] op = ">>" -> WrapI32(Shr(Signed(l, IntBits), sh))

BitOps == {"&", "|", "^", "<<", ">>"}

Concat(l, r) == StrV((8 * l.i + r.i) % StrCodes)

BinOp(op, l, r, bits) ==
    IF op = "+" /\ (Is(l, "str") \/ Is(r, "str")) THEN Concat(l, r)
    ELSE IF op \in BitOps
         THEN IF ~Is(l, "int") \/ ~Is(r, "int") THEN Fail("type")
              ELSE IF bits > 0 THEN RawBinOp(op, l.i, r.i, bits) ELSE IntBitwise(op, l.i, r.i)
    ELSE IF op \in {"+", "-", "*", "/", "%"} THEN Arith(op, l, r) ELSE Cmp(op, l, r)

NegV(v) == CASE Is(v, "int") -> WrapI32(-v.i) [] Is(v, "float") -> FloatV(-v.i)
             [] OTHER -> Fail("type")

NotBits(v, bits) == IF ~Is(v, "int") THEN Fail("type")
                    ELSE IF bits > 0 THEN IntV(MaskBits(-v.i - 1, bits)) ELSE WrapI32(-v.i - 1)
=============================================================================
