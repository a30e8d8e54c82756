----------------------------- MODULE Quantities -----------------------------
(***************************************************************************)
(* base/LogStream.cpp: formatSI() and formatIEC(), which print a quantity   *)
(* with about three digits and a unit.                                      *)
(*                                                                         *)
(* TLC's integers have 32 bits and a quantity has 63, so it is given as     *)
(* <<m, j>>, which stands for m * radix^j, with m < radix^2: every          *)
(* threshold of the code is such a quantity, or lies between two of them.   *)
(* A text is the set of numbers its digits may show, which has two members  *)
(* when the value lies halfway (the division is in binary), how many of the *)
(* digits are decimals, and the unit as a power of the radix.               *)
(***************************************************************************)
EXTENDS Integers, Sequences

\* m * radix^j < (limit / 1000) * radix^k, for limits from 9995 on.
Less(q, limit, radix, k) ==
  \/ q[2] < k - 1
  \/ q[2] = k - 1 /\ q[1] * 1000 < limit * radix
  \/ q[2] = k /\ q[1] * 1000 < limit

LateSwitch == <<10000, 99950>>

\* A unit is printed with two decimals below 9.995 and with one below 99.95.
Switch == <<9995, 99950>>

\* The rows of the first five units, whose last one ends at top thousandths.
UnitRows(top) ==
  [i \in 1..15 |-> LET n == (i - 1) % 3
                   IN  [limit |-> (Switch \o <<top>>)[n + 1], decimals |-> 2 - n,
                        unit |-> (i + 2) \div 3]]

\* What "%.*f" may show of q in the unit.
Shown(q, radix, decimals, unit) ==
  LET n == q[1] * 10^decimals
      d == radix^(unit - q[2])
  IN  {r \in (n \div d)..(n \div d) + 1 : 2 * r * d <= 2 * n + d /\ 2 * n <= 2 * r * d + d}

\* The first row whose limit is above q, or the last row.
Text3(q, radix, rows, last) ==
  LET above == {i \in DOMAIN rows : Less(q, rows[i].limit, radix, rows[i].unit)}
      row == IF above = {} THEN last ELSE rows[CHOOSE i \in above : \A h \in above : i <= h]
  IN  [digits |-> Shown(q, radix, row.decimals, row.unit),
       decimals |-> row.decimals, unit |-> row.unit]

Plain(q) == [digits |-> {q[1]}, decimals |-> 0, unit |-> 0]

SIRows == UnitRows(999500)

formatSI(q) ==
  IF q[2] = 0 /\ q[1] < 1000 THEN Plain(q)
  ELSE Text3(q, 1000, SIRows, [decimals |-> 2, unit |-> 6])

IECRows == Append(UnitRows(1023500), [limit |-> 9995, decimals |-> 2, unit |-> 6])

formatIEC(q) ==
  IF q[2] = 0 /\ q[1] < 1024 THEN Plain(q)
  ELSE Text3(q, 1024, IECRows, [decimals |-> 1, unit |-> 6])
-----------------------------------------------------------------------------
\* The length of a text whose digits show r, with units of the given length.
Characters(r, text, suffix) ==
  LET n == CHOOSE n \in 1..10 : r < 10^n /\ (n > 1 => r >= 10^(n - 1))
  IN  n + (IF text.decimals > 0 THEN 1 ELSE 0) + (IF text.unit > 0 THEN suffix ELSE 0)

\* LogStream.h: formatSI() returns at most 5 characters and formatIEC() at most 6;
\* and with a unit both show three digits at least, also on either side of the
\* thresholds at which the decimals or the unit change.
Short(text, suffix, most) ==
  \A r \in text.digits : Characters(r, text, suffix) <= most /\ (text.unit > 0 => r >= 100)

QuantitiesShort(quantities) ==
  \A q \in quantities :
    /\ q[1] < 1000^2 => Short(formatSI(q), 1, 5)
    /\ q[1] < 1024^2 => Short(formatIEC(q), 2, 6)
=============================================================================
