------------------------------- MODULE BigInt -------------------------------
(***************************************************************************)
(* The limb arithmetic of src/Big Integer Calculator/bigint.c: cmp_abs,    *)
(* big_cmp, big_add_helper, big_sub_helper, big_add, big_sub, big_mul,     *)
(* Karatsuba and Toom-Cook multiplication and the shifts they use, as      *)
(* RECURSIVE operators over little-endian limb sequences, checked against  *)
(* the integers they denote.                                               *)
(*                                                                         *)
(* A limb is W bits wide (64 in the code): every limb operation keeps its  *)
(* width with % Base.  A bigint is a record: signum (1, -1, or 0 for       *)
(* BIG_ZERO) and data, whose length is num_limbs.  Each operation returns  *)
(* the value its destination X holds afterwards; where the code reads X's  *)
(* old limbs, X is a parameter.                                            *)
(***************************************************************************)
EXTENDS Integers, Sequences, SequencesExt

CONSTANTS
  W,             \* bits per limb (big_uint is 64 bits)
  KaratsubaCut,  \* big_karatsuba uses big_mul at or below this many limbs (64)
  ToomCut,       \* big_toom_cook uses big_mul at or below this many limbs (225)
  Digits         \* hex digits per limb in big_read_string (16)

ASSUME W \in Nat /\ W >= 2 /\ W % 2 = 0 /\ KaratsubaCut >= 1 /\ ToomCut >= 2
ASSUME Digits \in Nat /\ Digits >= 1 /\ W % Digits = 0

Base == 2 ^ W
LimbMax == Base - 1          \* UINT64_MAX
Third == LimbMax \div 3      \* 6148914691236517205 in divide_by_3

BigZero == [signum |-> 0, data |-> << >>]   \* BIG_ZERO, what big_init makes
ZeroLimb == [signum |-> 1, data |-> <<0>>]  \* the one-limb zero the shifts make
One == [signum |-> 1, data |-> <<1>>]       \* big_set_nonzero (&one, 1)

\* The integer a bigint denotes, as big_write_string prints it: a '-' only
\* for a negative signum.
Mag(d) == FoldRight(LAMBDA l, acc : l + Base * acc, d, 0)
Val(x) == IF x.signum < 0 THEN -Mag(x.data) ELSE Mag(x.data)

Larger(m, n) == IF m >= n THEN m ELSE n
Limb(d, i) == IF i >= 1 /\ i <= Len(d) THEN d[i] ELSE 0
Zeros(k) == [i \in 1 .. k |-> 0]

-----------------------------------------------------------------------------
(* Input and size.  A string is its sign character and its digits, most    *)
(* significant first; a digit is W \div Digits bits (a hex digit, 4 bits).  *)

DigitBase == 2 ^ (W \div Digits)

\* strtoull (section, NULL, 16) of a section of digits.
StrToLimb(sec) == FoldLeft(LAMBDA acc, d : acc * DigitBase + d, 0, sec)

\* Mutant: the sections stored in reading order, most significant first.
ReadStringRev(s) ==
  LET len == Len(s.digits)
      pad == (Digits - (len % Digits)) % Digits
      actual == Zeros(pad) \o s.digits
      limbs == (len + pad) \div Digits
  IN [signum |-> IF s.neg THEN -1 ELSE 1,
      data |-> [j \in 1 .. limbs |->
                  StrToLimb(SubSeq(actual, (j - 1) * Digits + 1, j * Digits))]]

\* big_read_string: a leading '-' makes signum -1 (1 otherwise, zero
\* included); the digits are padded with '0' to whole limbs, and section i
\* from the left becomes limb limbs-i-1.  Leading zero limbs are kept.
ReadString(s) ==
  LET len == Len(s.digits)
      pad == (Digits - (len % Digits)) % Digits
      actual == Zeros(pad) \o s.digits
      limbs == (len + pad) \div Digits
  IN [signum |-> IF s.neg THEN -1 ELSE 1,
      data |-> [j \in 1 .. limbs |->
                  LET i == limbs - j
                  IN StrToLimb(SubSeq(actual, i * Digits + 1, i * Digits + Digits))]]

\* The number of bits of a limb (the while (value) loop of big_bitlen).
RECURSIVE LimbBits(_)
LimbBits(v) == IF v = 0 THEN 0 ELSE 1 + LimbBits(v \div 2)

\* big_bitlen: 0 for no limbs; otherwise skip zero limbs from the top, 0 if
\* all are zero, else the bits of the top non-zero limb plus W per limb
\* below it.
BigBitlen(X) ==
  LET idx == SelectLastInSeq(X.data, LAMBDA l : l # 0)
  IN IF idx = 0 THEN 0 ELSE LimbBits(X.data[idx]) + (idx - 1) * W

\* big_is_zero
IsZero(x) == \A i \in DOMAIN x.data : x.data[i] = 0

\* The trailing loop of big_add_helper, big_sub_helper and big_mul: keep
\* the limbs up to the highest non-zero one, at least one.
Trim(d) == SubSeq(d, 1, Larger(1, SelectLastInSeq(d, LAMBDA l : l # 0)))

\* Mutant: the first differing limb from the bottom.
TopDiffLow(x, y) ==
  SelectInSeq([i \in 1 .. Len(x.data) |-> x.data[i] # y.data[i]], LAMBDA t : t)

\* The highest limb where x and y differ, 0 if none (the loop of cmp_abs
\* and big_cmp from the top limb down).
TopDiff(x, y) ==
  SelectLastInSeq([i \in 1 .. Len(x.data) |-> x.data[i] # y.data[i]], LAMBDA t : t)

\* cmp_abs: more limbs is larger, then the top differing limb.
CmpAbs(x, y) ==
  IF Len(x.data) # Len(y.data) THEN (IF Len(x.data) > Len(y.data) THEN 1 ELSE -1)
  ELSE LET k == TopDiff(x, y) IN
       IF k = 0 THEN 0 ELSE IF x.data[k] > y.data[k] THEN 1 ELSE -1

\* big_cmp
BigCmp(x, y) ==
  IF x.signum # y.signum /\ (x.signum > 0 \/ y.signum > 0)
  THEN IF x.signum > 0 THEN 1 ELSE -1
  ELSE IF Len(x.data) # Len(y.data)
  THEN IF (Len(x.data) > Len(y.data)) = (x.signum > 0) THEN 1 ELSE -1
  ELSE LET k == TopDiff(x, y)
           r == IF k # 0 /\ x.data[k] > y.data[k] THEN 1 ELSE -1
       IN IF k = 0 THEN 0 ELSE IF x.signum > 0 THEN r ELSE -r

\* The loop of big_sub_helper from limb i on, given the borrow into it:
\* a borrow takes one from a (0 wraps to UINT64_MAX and keeps the borrow),
\* then a limb smaller than b's wraps and borrows.
RECURSIVE SubLoop(_, _, _, _)
SubLoop(a, b, i, borrow) ==
  IF i > Len(a) THEN << >>
  ELSE LET al == IF borrow = 1 THEN (a[i] + LimbMax) % Base ELSE a[i]
           kept == IF borrow = 1 /\ a[i] = 0 THEN 1 ELSE 0
           bl == Limb(b, i)
       IN << IF al < bl THEN (LimbMax - bl) + al + 1 ELSE al - bl >>
          \o SubLoop(a, b, i + 1, IF al < bl THEN 1 ELSE kept)

\* big_sub_helper (result, A, B): |A| - |B| over A's limbs into a fresh
\* result (signum 0 from big_init; the callers set it).
SubHelper(A, B) == [signum |-> 0, data |-> Trim(SubLoop(A.data, B.data, 1, 0))]

\* Mutant: the sum stored without truncating it to a limb.
RECURSIVE AddLoopWide(_, _, _, _, _)
AddLoopWide(a, b, i, n, carry) ==
  IF i > n THEN <<carry>>
  ELSE LET s == Limb(a, i) + Limb(b, i) + carry
       IN << s >> \o AddLoopWide(a, b, i + 1, n, s \div Base)

\* The loop of big_add_helper from limb i to n, given the carry into it;
\* the last element is the carry out.
RECURSIVE AddLoop(_, _, _, _, _)
AddLoop(a, b, i, n, carry) ==
  IF i > n THEN <<carry>>
  ELSE LET s == Limb(a, i) + Limb(b, i) + carry
       IN << s % Base >> \o AddLoop(a, b, i + 1, n, s \div Base)

\* big_add_helper (X, A, B): X grows to the longer operand's limbs and
\* keeps any limbs it already had above them; a carry out reallocs X to
\* one more limb.  X's signum is left alone.
AddHelper(X, A, B) ==
  LET n == Larger(Len(A.data), Len(B.data))
      r == AddLoop(A.data, B.data, 1, n, 0)
      carry == r[n + 1]
      above == IF carry > 0 THEN <<carry>>
               ELSE IF Len(X.data) > n THEN SubSeq(X.data, n + 1, Len(X.data))
               ELSE << >>
  IN [X EXCEPT !.data = Trim(SubSeq(r, 1, n) \o above)]

\* big_add (X, A, B): different signums subtract the smaller magnitude
\* (by cmp_abs) from the larger into a fresh result copied to X; equal
\* signums add into X.  A zero result is made positive.
BigAdd(X, A, B) ==
  LET bigger == CmpAbs(A, B) > 0
      sign == IF CmpAbs(A, B) <= 0 /\ B.signum = -1 THEN -1
              ELSE IF CmpAbs(B, A) <= 0 /\ A.signum = -1 THEN -1 ELSE 1
      r == IF B.signum # A.signum
           THEN [signum |-> sign,
                 data |-> IF bigger THEN SubHelper(A, B).data ELSE SubHelper(B, A).data]
           ELSE [AddHelper(X, A, B) EXCEPT !.signum = sign]
  IN IF IsZero(r) THEN [r EXCEPT !.signum = 1] ELSE r

\* big_sub (X, A, B): equal signums subtract magnitudes (sign from
\* big_cmp); different signums set X's signum and add magnitudes into X.
BigSub(X, A, B) ==
  LET subtract == A.signum = B.signum
      sign == IF A.signum < B.signum THEN -1
              ELSE IF subtract /\ BigCmp(A, B) < 0 THEN -1 ELSE 1
      swap == CmpAbs(A, B) < 0
  IN IF subtract
     THEN [signum |-> sign,
           data |-> IF swap THEN SubHelper(B, A).data ELSE SubHelper(A, B).data]
     ELSE AddHelper([X EXCEPT !.signum = sign], A, B)

\* The inner loop of big_mul for limb i of A (value ai): row i of the
\* schoolbook product added into r, then the carry into limb i + |B|.
RECURSIVE MulRow(_, _, _, _, _, _)
MulRow(r, ai, b, i, j, carry) ==
  IF j > Len(b) THEN [r EXCEPT ![i + Len(b)] = (@ + carry) % Base]
  ELSE LET p == ai * b[j] + r[i + j - 1] + carry
       IN MulRow([r EXCEPT ![i + j - 1] = p % Base], ai, b, i, j + 1, p \div Base)

RECURSIVE MulRows(_, _, _, _)
MulRows(r, a, b, i) ==
  IF i > Len(a) THEN r ELSE MulRows(MulRow(r, a[i], b, i, 1, 0), a, b, i + 1)

\* big_mul (X, A, B): X becomes the trimmed schoolbook product with the
\* product of the signums.
BigMul(A, B) ==
  [signum |-> A.signum * B.signum,
   data |-> Trim(MulRows(Zeros(Len(A.data) + Len(B.data)), A.data, B.data, 1))]

\* split_bigint (A, m, &A0, &A1): the low m limbs and the high limbs
\* zero-padded to m, both with A's signum; A0 is A itself and A1 a zero
\* limb when A has at most m limbs.
Split(A, m) ==
  IF m >= Len(A.data)
  THEN [lo |-> A, hi |-> [signum |-> A.signum, data |-> <<0>>]]
  ELSE [lo |-> [signum |-> A.signum, data |-> SubSeq(A.data, 1, m)],
        hi |-> [signum |-> A.signum,
                data |-> SubSeq(A.data, m + 1, Len(A.data)) \o Zeros(2 * m - Len(A.data))]]

\* Mutant: one zero limb too few.
BigShiftLeftShort(src, k) ==
  IF k = 0 THEN src
  ELSE IF IsZero(src) THEN ZeroLimb
  ELSE [signum |-> src.signum, data |-> Zeros(k - 1) \o src.data]

\* big_shift_left (result, src, k): k zero limbs below src's.
BigShiftLeft(src, k) ==
  IF k = 0 THEN src
  ELSE IF IsZero(src) THEN ZeroLimb
  ELSE [signum |-> src.signum, data |-> Zeros(k) \o src.data]

Sign(x) == IF x.signum = -1 THEN -1 ELSE 1

\* big_karatsuba (X, A, B): Z0 = A0 B0, Z2 = A1 B1,
\* Z1 = (A0 + A1)(B0 + B1) - Z0 - Z2, X = Z0 + Z1 shifted m + Z2 shifted 2m,
\* with the sign of the product.
RECURSIVE BigKaratsuba(_, _)
BigKaratsuba(A, B) ==
  IF Len(A.data) <= KaratsubaCut \/ Len(B.data) <= KaratsubaCut THEN BigMul(A, B)
  ELSE
  LET m == (Larger(Len(A.data), Len(B.data)) + 1) \div 2
      sa == Split(A, m)
      sb == Split(B, m)
      z0 == BigKaratsuba(sa.lo, sb.lo)
      z2 == BigKaratsuba(sa.hi, sb.hi)
      z1a == BigKaratsuba(BigAdd(BigZero, sa.lo, sa.hi), BigAdd(BigZero, sb.lo, sb.hi))
      z1b == BigSub(z1a, z1a, z0)
      z1 == BigSub(z1b, z1b, z2)
      t == BigAdd(BigZero, z0, BigShiftLeft(z1, m))
      r == BigAdd(BigZero, t, BigShiftLeft(z2, 2 * m))
  IN [r EXCEPT !.signum = Sign(A) * Sign(B)]

\* big_bit_shift_left (result, src, s): each limb's bits move up s mod W
\* within the limb (truncated to W bits) and the overflow moves into the
\* next limb; s div W whole limbs are added below.
BitShiftLeft(src, s) ==
  IF IsZero(src) THEN ZeroLimb
  ELSE
  LET off == s % W
      ls == s \div W
      n == Len(src.data) + ls + (IF off # 0 THEN 1 ELSE 0)
      t == [k \in 1 .. n |->
              ((Limb(src.data, k - ls) * 2 ^ off) % Base)
              + (IF off # 0 THEN Limb(src.data, k - ls - 1) \div 2 ^ (W - off) ELSE 0)]
  IN [signum |-> src.signum, data |-> Trim(t)]

\* big_bit_shift_right (result, src, s); a shift past every limb leaves
\* a zero limb with signum 0.
BitShiftRight(src, s) ==
  IF IsZero(src) THEN ZeroLimb
  ELSE
  LET off == s % W
      ls == s \div W
      n == IF Len(src.data) > ls THEN Len(src.data) - ls ELSE 0
      t == [k \in 1 .. n |->
              (src.data[k + ls] \div 2 ^ off)
              + (IF off # 0 /\ k + ls + 1 <= Len(src.data)
                 THEN ((src.data[k + ls + 1] * 2 ^ (W - off)) % Base) ELSE 0)]
  IN IF n = 0 THEN [signum |-> 0, data |-> <<0>>]
     ELSE [signum |-> src.signum, data |-> Trim(t)]

\* The loop of divide_by_3 from limb i down, given the remainder carried
\* from the limbs above: 2^W = 1 (mod 3), so the quotient limb is
\* carry * Third plus a correction, and the new carry is (limb + carry)
\* computed in a W-bit limb, mod 3.
RECURSIVE Div3Loop(_, _, _)
Div3Loop(d, i, carry) ==
  IF i = 0 THEN [data |-> d, rem |-> carry]
  ELSE
  LET l == d[i]
          q == l \div 3
      r == l % 3
      cur == CASE carry = 0 -> q
               [] carry = 1 -> (Third + q + (IF r # 0 /\ r + carry # 2 THEN 1 ELSE 0)) % Base
               [] OTHER -> (2 * Third + q + (IF r # 0 THEN 1 ELSE 0)) % Base
  IN Div3Loop([d EXCEPT ![i] = cur], i - 1, ((l + carry) % Base) % 3)

\* divide_by_3 (cur): cur's limbs divided in place, and the remainder.
DivideBy3(x) == Div3Loop(x.data, Len(x.data), 0)

\* evaluate_polynomials (A0, A1, A2, ...): the split operand at 0, 1, -1,
\* 2 and infinity.  tempA1 holds A2 + A1 when big_sub reuses it.
Evaluate(s) ==
  LET t1 == BigAdd(BigZero, s[3], s[2])
      t1m == BigSub(t1, s[3], s[2])
  IN [p0 |-> s[1],
      pinf |-> s[3],
      p1 |-> BigAdd(BigZero, t1, s[1]),
      pm1 |-> BigAdd(BigZero, t1m, s[1]),
      p2 |-> BigAdd(BigZero,
                    BigAdd(BigZero, BitShiftLeft(s[3], 2), BitShiftLeft(s[2], 1)),
                    s[1])]

\* Op applied to the value of e, e evaluated once: a C local variable
\* assigned e and read by the statements after it.
Bind(e, Op(_)) == CHOOSE r \in {Op(v) : v \in {e}} : TRUE

\* interpolate_results (result, R0, R1, R_1, R2, R_inf, m): the
\* coefficients a..e of the product polynomial from its five values, each
\* shifted by its power of m limbs and added into result; one Bind per
\* statement of the code, in its order.
Interpolate(X, R0, R1, Rm1, R2, Rinf, m) ==
  Bind(BitShiftRight(BigAdd(BigZero, Rm1, R1), 1),             LAMBDA t1 :
  Bind(BigSub(t1, t1, Rinf),                                   LAMBDA t1a :
  Bind(BigSub(t1a, t1a, R0),                                   LAMBDA c :
  Bind(BigSub(BigZero, R2, BitShiftLeft(Rinf, 4)),             LAMBDA t2a :
  Bind(BigSub(t2a, t2a, BitShiftLeft(c, 2)),                   LAMBDA t2b :
  Bind(BigSub(t2b, t2b, R0),                                   LAMBDA t2c :
  Bind(BigSub(t2c, t2c, R1),                                   LAMBDA t2d :
  Bind(BitShiftRight(BigAdd(BigZero, t2d, Rm1), 1),            LAMBDA b3 :
  Bind(DivideBy3(b3),                                          LAMBDA q :
  Bind([b3 EXCEPT !.data = q.data],                            LAMBDA bq :
  Bind(IF q.rem # 0 THEN BigAdd(bq, bq, One) ELSE bq,          LAMBDA b :
  Bind(BitShiftRight(BigSub(BigZero, R1, Rm1), 1),             LAMBDA t4 :
  Bind(BigSub(t4, t4, b),                                      LAMBDA d :
  Bind(BigAdd(X, X, BigShiftLeft(Rinf, 4 * m)),                LAMBDA r1 :
  Bind(BigAdd(r1, r1, BigShiftLeft(b, 3 * m)),                 LAMBDA r2 :
  Bind(BigAdd(r2, r2, BigShiftLeft(c, 2 * m)),                 LAMBDA r3 :
  Bind(BigAdd(r3, r3, BigShiftLeft(d, m)),                     LAMBDA r4 :
       BigAdd(r4, r4, R0))))))))))))))))))

\* big_pad (B, n): B zero-extended to n limbs, in place.
BigPad(B, n) == [B EXCEPT !.data = @ \o Zeros(n - Len(@))]

\* split_bigint_three (A, m, ...): three parts of m limbs, the top one
\* zero-filled above A's limbs, all with signum 1.
SplitThree(A, m) ==
  LET part(k) == [signum |-> 1, data |-> SubSeq(A.data \o Zeros(3 * m - Len(A.data)),
                                              k * m + 1, (k + 1) * m)]
  IN << part(0), part(1), part(2) >>

\* big_toom_cook (X, A, B): pad the shorter operand, split both in three,
\* evaluate at five points, multiply the values recursively into fresh
\* bigints, and interpolate into X; X's signum is the product's sign.
RECURSIVE BigToomCook(_, _, _)
BigToomCook(X, A, B) ==
  IF Len(A.data) <= ToomCut \/ Len(B.data) <= ToomCut THEN BigMul(A, B)
  ELSE
  LET n == Larger(Len(A.data), Len(B.data))
      m == (n + 2) \div 3
  IN Bind(Evaluate(SplitThree(BigPad(A, n), m)),                  LAMBDA p :
     Bind(Evaluate(SplitThree(BigPad(B, n), m)),                  LAMBDA q :
     Bind([f \in DOMAIN p |-> BigToomCook(BigZero, p[f], q[f])],  LAMBDA R :
     Bind(Interpolate(X, R.p0, R.p1, R.pm1, R.p2, R.pinf, m),      LAMBDA r :
          [r EXCEPT !.signum = Sign(A) * Sign(B)]))))

-----------------------------------------------------------------------------
(* A caller of the library, as main and the tests are: it reads two hex  *)
(* strings from Inputs with big_read_string and operates on the results.  *)

CONSTANT Inputs

VARIABLES xs, ys   \* the strings last read into first and second

vars == <<xs, ys>>

x == ReadString(xs)
y == ReadString(ys)

Init == xs \in Inputs /\ ys \in Inputs

\* The caller reads a new left or right operand.
ReadX == xs' \in Inputs /\ ys' = ys
ReadY == ys' \in Inputs /\ xs' = xs

Next == ReadX \/ ReadY

Spec == Init /\ [][Next]_vars

-----------------------------------------------------------------------------
(* Properties                                                               *)

\* A well-formed bigint: a signum and at least one limb of W bits.
IsBig(r) == r.signum \in {-1, 0, 1} /\ Len(r.data) >= 1 /\
            \A i \in DOMAIN r.data : r.data[i] \in 0 .. LimbMax

\* Every result big_add, big_sub, big_mul and big_karatsuba leave in X is a
\* well-formed bigint: no limb exceeds its W bits.
TypeOK ==
  /\ xs \in Inputs /\ ys \in Inputs
  /\ IsBig(BigAdd(BigZero, x, y)) /\ IsBig(BigSub(BigZero, x, y))
  /\ IsBig(BigMul(x, y)) /\ IsBig(BigKaratsuba(x, y))

\* big_add and big_sub, into a fresh X, compute the sum and difference of
\* the integers for every combination of signs and magnitudes: the sign
\* logic of both and the cmp_abs choice of which magnitude to subtract.
AddSubCorrect ==
  /\ Val(BigAdd(BigZero, x, y)) = Val(x) + Val(y)
  /\ Val(BigSub(BigZero, x, y)) = Val(x) - Val(y)

\* The number a string of digits denotes, with its sign.
StrVal(s) == IF s.neg THEN -StrToLimb(s.digits) ELSE StrToLimb(s.digits)

\* The bit length of a natural number: the least k with n < 2^k.
RefBitLen(n) ==
  CHOOSE k \in 0 .. n : n < 2 ^ k /\ (k = 0 \/ 2 ^ (k - 1) <= n)

\* big_read_string turns every string into the bigint of its value (the
\* digits split at limb boundaries from the right, padded on the left, each
\* section in its own limb, and the sign), and big_bitlen of it is the
\* one-based index of its top '1' bit (bigint.h).
ReadStringCorrect ==
  /\ Val(x) = StrVal(xs)
  /\ BigBitlen(x) = RefBitLen(IF Val(x) < 0 THEN -Val(x) ELSE Val(x))

\* big_cmp orders bigints as the integers they denote (bigint.h: "0 if X
\* is equal to Y").
CmpCorrect ==
  BigCmp(x, y) = IF Val(x) < Val(y) THEN -1 ELSE IF Val(x) = Val(y) THEN 0 ELSE 1

\* big_mul and big_karatsuba, whose split, recursive products, subtractions
\* and shifted additions run once both operands exceed the cut, compute
\* the product (the tests compare both outputs with big_mul).
ProductCorrect ==
  /\ Val(BigMul(x, y)) = Val(x) * Val(y)
  /\ Val(BigKaratsuba(x, y)) = Val(x) * Val(y)

\* big_toom_cook into a fresh X computes the product (the tests assert its
\* output equals big_mul's).
ToomCookCorrect == Val(BigToomCook(BigZero, x, y)) = Val(x) * Val(y)

====
