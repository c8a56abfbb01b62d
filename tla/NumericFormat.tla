--------------------------- MODULE NumericFormat ---------------------------
(***************************************************************************)
(* The numeric adapters of gaussdb.types.numeric: which integer type a     *)
(* Python int is dumped as, the binary format of numeric (decimal digits   *)
(* grouped in "pg digits"), written from a Decimal or an int and read back *)
(* into a Decimal, and numbers as SQL literals.                            *)
(*                                                                         *)
(* The code groups 4 digits, has words of 16, 32 and 64 bits and contexts  *)
(* of at least 28 digits; all of these are parameters here.  A Decimal is  *)
(* (-1)^sign * digits * 10^exp; bytes are numbers where only their value   *)
(* matters.                                                                *)
(***************************************************************************)
EXTENDS Values

CONSTANTS DEC_DIGITS,  \* decimal digits per pg digit
          DefaultPrec, \* precision of the default decimal context
          WordBits     \* <<bits of int2, of int4, of int8>>

ASSUME NumericAssumption ==
  /\ DEC_DIGITS \in Nat \ {0} /\ DefaultPrec \in Nat
  /\ WordBits \in Seq(Nat \ {0}) /\ Len(WordBits) = 3
  /\ WordBits[1] < WordBits[2] /\ WordBits[2] < WordBits[3]

Base == 10 ^ DEC_DIGITS
ValueOf(s, b) == FoldLeft(LAMBDA n, d : n * b + d, 0, s)

-----------------------------------------------------------------------------
(* int                                                                      *)

IntTypes == <<"int2", "int4", "int8">>
Fits(n, bits) == -(2 ^ (bits - 1)) <= n /\ n < 2 ^ (bits - 1)

\* IntDumper.upgrade: the smallest type that holds the number.
upgrade(n) == IF Fits(n, WordBits[2])
              THEN IF Fits(n, WordBits[1]) THEN "int2" ELSE "int4"
              ELSE IF Fits(n, WordBits[3]) THEN "int8" ELSE "numeric"

\* pack_intN raises struct.error on a number that does not fit; what it writes
\* is the two's complement, and unpack_intN reads it.
Packs(type, n) == \A k \in 1..3 : type = IntTypes[k] => Fits(n, WordBits[k])
pack(n, bits) == n % (2 ^ bits)
unpack(m, bits) == IF m >= 2 ^ (bits - 1) THEN m - 2 ^ bits ELSE m

\* An int dumped in binary format and loaded as the type it is dumped as.
IntThroughServer(n) ==
  LET type == upgrade(n)
  IN  IF type = "numeric" THEN n
      ELSE LET bits == WordBits[CHOOSE k \in 1..3 : IntTypes[k] = type]
           IN  unpack(pack(n, bits), bits)

-----------------------------------------------------------------------------
(* Decimal to numeric                                                       *)

Finite(sign, digits, exp) ==
  [kind |-> "finite", sign |-> sign, digits |-> digits, exp |-> exp]
Special(k, sign) == [kind |-> k, sign |-> sign, digits |-> <<>>, exp |-> 0]

Numeric(weight, sign, dscale, pg) ==
  [ndigits |-> Len(pg), weight |-> weight, sign |-> sign, dscale |-> dscale,
   pg |-> pg]
CeilDiv(a, b) == a \div b + (IF a % b > 0 THEN 1 ELSE 0)

\* wi: the zeros to prepend so that the decimal point falls between two pg
\* digits, for a number of len digits and the exponent exp.
Alignment(len, exp) ==
  LET dscale == IF exp <= 0 THEN -exp ELSE 0
      ndigits == len + (IF exp > 0 THEN exp % DEC_DIGITS ELSE 0)
      mod == (ndigits - dscale) % DEC_DIGITS
  IN  IF mod > 0 THEN DEC_DIGITS - mod ELSE 0

\* The pg digits of a sequence of decimal digits after wi zeros; the last one
\* is filled with zeros on the right.
Group(digits, wi) ==
  [k \in 1..CeilDiv(Len(digits) + wi, DEC_DIGITS) |->
     LET digit(j) == LET i == (k - 1) * DEC_DIGITS + j - wi
                     IN  IF i \in DOMAIN digits THEN digits[i] ELSE 0
     IN  ValueOf([j \in 1..DEC_DIGITS |-> digit(j)], 10)]

\* dump_decimal_to_numeric_binary: the trailing zeros are not written.
dump_decimal(d) ==
  LET dscale == IF d.exp <= 0 THEN -d.exp ELSE 0
      nz  == SelectLastInSeq(d.digits, LAMBDA x : x # 0)
      wi  == Alignment(Len(d.digits), d.exp)
      nd  == Len(d.digits) + wi
               + (IF d.exp > 0 THEN d.exp % DEC_DIGITS ELSE 0)
  IN  IF d.kind = "nan" THEN Numeric(0, "nan", 0, <<>>)
      ELSE IF d.kind = "inf"
      THEN Numeric(0, IF d.sign = 1 THEN "ninf" ELSE "pinf", 0, <<>>)
      ELSE IF nz = 0 THEN Numeric(0, "pos", dscale, <<>>)
      ELSE Numeric((nd + d.exp) \div DEC_DIGITS - 1,
                   IF d.sign = 1 THEN "neg" ELSE "pos", dscale,
                   Group(SubSeq(d.digits, 1, nz), wi))

BitLength(n) == CHOOSE b \in 0..31 : n < 2 ^ b /\ (b > 0 => 2 ^ (b - 1) <= n)

\* int(bit_length * log(2) / log(Base)) + 1: the pg digits of 2^bit_length,
\* which is what the logarithms compute.
PgDigits(n) ==
  LET p == 2 ^ BitLength(n)
  IN  CHOOSE k \in 1..20 : p < Base ^ k /\ Base ^ (k - 1) <= p

\* dump_int_to_numeric_binary: fills the buffer from its end.  A pg digit that
\* did not fit would be written over the head.
dump_int(n) ==
  LET abs == IF n < 0 THEN -n ELSE n
      nd  == PgDigits(abs)
      pg  == [k \in 1..nd |-> (abs \div Base ^ (nd - k)) % Base]
  IN  Numeric(nd - 1, IF n < 0 THEN "neg" ELSE "pos", 0, pg)
Overwrites(n) == LET abs == IF n < 0 THEN -n ELSE n
                 IN  abs >= Base ^ PgDigits(abs)

-----------------------------------------------------------------------------
(* numeric to Decimal                                                       *)

\* The context for a precision (_ContextMap): the default one if it suffices.
Prec(key) == IF key < DefaultPrec THEN DefaultPrec ELSE key

\* Decimal.shift() under a context: digits that exceed the precision are lost.
\* (Coefficients are kept below 10^9: greater precisions lose nothing.)
Shift(coeff, n, prec) ==
  IF n < 0 THEN coeff \div 10 ^ (-n)
  ELSE IF prec > 8 THEN coeff * 10 ^ n
  ELSE (coeff * 10 ^ n) % 10 ^ prec

\* The digits to add to, or take from, the coefficient read: the last pg digit
\* may go beyond the scale, or short of it.
ShiftBy(b) == b.dscale - (b.ndigits - b.weight - 1) * DEC_DIGITS

\* NumericBinaryLoader.load.
load_numeric(b) ==
  CASE b.sign = "nan"  -> Special("nan", 0)
    [] b.sign = "pinf" -> Special("inf", 0)
    [] b.sign = "ninf" -> Special("inf", 1)
    [] OTHER ->
       [kind |-> "finite", sign |-> IF b.sign = "neg" THEN 1 ELSE 0,
        coeff |-> Shift(ValueOf(b.pg, Base), ShiftBy(b),
                        Prec((b.weight + 2) * DEC_DIGITS + b.dscale)),
        exp |-> -b.dscale]

\* What the server makes of the numeric it receives: the value, exact.  It
\* drops leading and trailing zero pg digits.
ServerSends(b) ==
  LET first == SelectInSeq(b.pg, LAMBDA x : x # 0)
      last  == SelectLastInSeq(b.pg, LAMBDA x : x # 0)
  IN  IF first = 0 THEN [b EXCEPT !.pg = <<>>, !.ndigits = 0, !.weight = 0]
      ELSE [b EXCEPT !.pg = SubSeq(b.pg, first, last),
                     !.ndigits = last - first + 1,
                     !.weight = @ - (first - 1)]

-----------------------------------------------------------------------------
(* Dumpers for either, literals                                             *)

\* NumericBinaryDumper, found by oid: takes ints (numpy's too) and Decimals.
dump_mixed(kind, v) == CASE kind = "int" -> dump_int(v)
                         [] kind = "decimal" -> dump_decimal(v)

\* quote(): a special value is a cast string; the literal of what is less than 0
\* starts with a space, or "-" before it would make a comment of it.  The first
\* character of the literal is given.
IsZero(d) == \A i \in DOMAIN d.digits : d.digits[i] = 0
QuoteStart(d) == IF d.kind # "finite" THEN "'"
                 ELSE IF d.sign = 1 /\ ~IsZero(d) THEN " "
                 ELSE IF d.sign = 1 THEN "-" ELSE "digit"

-----------------------------------------------------------------------------
(* Properties                                                               *)

\* The value of a Decimal, in units of 10^-scale.
Scaled(sign, coeff, exp, scale) ==
  (IF sign = 1 THEN -1 ELSE 1) * coeff * 10 ^ (exp + scale)

\* A Decimal written in binary and read back, with the server's normalisation
\* in between or without it, is the same number with as many decimals, and
\* the special values come back as they are.  A literal, but that of a negative
\* zero, can follow a minus sign and is no comment.
DecimalSurvives(d) ==
  \A b \in {dump_mixed("decimal", d), ServerSends(dump_mixed("decimal", d))} :
    LET r == load_numeric(b)
    IN  /\ QuoteStart(d) = "-" => d.kind = "finite" /\ IsZero(d)
        /\ IF d.kind # "finite"
           THEN r.kind = d.kind /\ (d.kind = "inf" => r.sign = d.sign)
           ELSE LET scale == IF d.exp <= 0 THEN -d.exp ELSE 0
                IN  /\ r.exp = -scale
                    /\ Scaled(r.sign, r.coeff, r.exp, scale)
                         = Scaled(d.sign, ValueOf(d.digits, 10), d.exp, scale)

\* An int is dumped as a type that holds it, the smallest one, and comes back;
\* as a numeric it never overruns its buffer, and is to the server the same
\* number as the Decimal of the same digits.
DecimalOf(n) == LET abs == IF n < 0 THEN -n ELSE n
                    size == CHOOSE k \in 1..10 : abs < 10 ^ k /\ (k = 1 \/ 10 ^ (k - 1) <= abs)
                IN  Finite(IF n < 0 THEN 1 ELSE 0,
                           [i \in 1..size |-> (abs \div 10 ^ (size - i)) % 10], 0)
IntSurvives(n) ==
  /\ Packs(upgrade(n), n) /\ IntThroughServer(n) = n
  /\ \A k \in 1..3 : Fits(n, WordBits[k]) =>
       \E j \in 1..k : upgrade(n) = IntTypes[j]
  /\ ~Overwrites(n)
  /\ LET r == load_numeric(ServerSends(dump_mixed("int", n)))
     IN  r.exp = 0 /\ Scaled(r.sign, r.coeff, 0, 0) = n
  /\ ServerSends(dump_mixed("int", n)) = ServerSends(dump_mixed("decimal", DecimalOf(n)))
=============================================================================
