-------------------------------- MODULE Text --------------------------------
(***************************************************************************)
(* The conversions of lib/utils and lib/chals: numbers to decimal digits,  *)
(* bytes to hexadecimal digits and back.  A string is the sequence of the  *)
(* codes of its characters, without the Nul.                               *)
(***************************************************************************)
EXTENDS Integers, Sequences

strnrev(b) == [k \in 1 .. Len(b) |-> b[Len(b) + 1 - k]]

\* The digits from the last one on: none for 0.
Digits(val) ==
    LET Of[v \in 0 .. val] == IF v = 0 THEN <<>> ELSE <<48 + (v % 10)>> \o Of[v \div 10]
    IN  Of[val]

\* Mutant: the digits are not turned around.
u64strReversed(val) == Digits(val)

u64str(val) == strnrev(Digits(val))

\* One after the other: buf is a function on 0 .. cnt - 1.
mku64str(buf, cnt) ==
    LET Written[k \in 0 .. cnt] ==
            IF k = 0 THEN <<>> ELSE Written[k - 1] \o u64str(buf[k - 1])
    IN  Written[cnt]

\* '9' is 57; a letter of either case keeps its low four bits, plus 9.
x2b(c) == (IF c > 57 THEN c + 9 ELSE c) % 16

b2x(c) == IF c % 16 < 10 THEN 48 + (c % 16) ELSE 87 + (c % 16)

\* For pairs of digits, which is how the CA writes the bytes of a prefix: of an odd number
\* the code takes the Nul for a digit and reads on behind it.  pfix has room for a digest.
hex2bin(str) ==
    [j \in 1 .. Len(str) \div 2 |-> x2b(str[2 * j - 1]) * 16 + x2b(str[2 * j])]

bin2hex(buf) ==
    [j \in 1 .. 2 * Len(buf) |-> IF j % 2 = 1 THEN b2x(buf[(j + 1) \div 2] \div 16)
                                 ELSE b2x(buf[j \div 2])]
=============================================================================
