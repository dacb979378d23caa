------------------------------ MODULE Float32 ------------------------------
(***************************************************************************)
(* The arithmetic of C's float: single precision, rounded to nearest, ties *)
(* to even.  A float is an integer of 24 bits times a power of two; the    *)
(* sign, which rounding does not look at, is left out, and so are numbers  *)
(* too large or too small for such an integer.                             *)
(***************************************************************************)
EXTENDS Integers

Zero == [m |-> 0, e |-> 0]

(* The float next to (m + rest / unit) * 2^e, where 0 <= rest < unit.      *)
Rounded(m, rest, unit, e) ==
  LET up == 2 * rest > unit \/ (2 * rest = unit /\ m % 2 = 1)
  IN  CASE ~up                  -> [m |-> m, e |-> e]
        [] up /\ m < 2^24 - 1   -> [m |-> m + 1, e |-> e]
        [] up /\ m = 2^24 - 1   -> [m |-> 2^23, e |-> e + 1]

(* (float)n, of an integer below 2^24.                                     *)
Float(n) ==
  IF n = 0 THEN Zero
  ELSE LET k == CHOOSE i \in 0 .. 23 : n * 2^i \in 2^23 .. 2^24 - 1
       IN  [m |-> n * 2^k, e |-> -k]

(* The product of two integers of 24 bits is high * 2^24 + low; it is      *)
(* formed of halves of 12 bits.                                            *)
Times(x, y) ==
  IF x.m = 0 \/ y.m = 0 THEN Zero
  ELSE LET h    == 2^12
           mid  == (x.m \div h) * (y.m % h) + (x.m % h) * (y.m \div h)
           tail == (x.m % h) * (y.m % h) + (mid % h) * h
           high == (x.m \div h) * (y.m \div h) + mid \div h + tail \div 2^24
           low  == tail % 2^24
       IN  IF high >= 2^23
           THEN Rounded(high, low, 2^24, x.e + y.e + 24)
           ELSE Rounded(2 * high + low \div 2^23, low % 2^23, 2^23, x.e + y.e + 23)

(* x / y, of y other than 0, by long division: bits[n] has the quotient's  *)
(* first n + 1 binary digits, and what is left.                            *)
Over(x, y) ==
  IF x.m = 0 THEN Zero
  ELSE LET k == IF x.m >= y.m THEN 0 ELSE 1
           bits[n \in 0 .. 23] ==
             IF n = 0 THEN [q |-> 1, rest |-> 2^k * x.m - y.m]
             ELSE LET b == bits[n - 1]
                      d == IF 2 * b.rest >= y.m THEN 1 ELSE 0
                  IN  [q |-> 2 * b.q + d, rest |-> 2 * b.rest - d * y.m]
       IN  Rounded(bits[23].q, bits[23].rest, y.m, x.e - y.e - k - 23)

(* The place of a float among all floats, in ascending order.              *)
Place(x) == IF x = Zero THEN 0 ELSE (x.e + 150) * 2^23 + x.m

=============================================================================
