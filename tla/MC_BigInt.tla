------------------------------ MODULE MC_BigInt ------------------------------
EXTENDS BigInt

\* Hex strings of one to three limbs' worth of digits, of either sign,
\* written without leading zeros (as the tests and gen_rand_hex's numbers
\* are, but for a chance of 16^-16 per limb): "0" and "-0" included, the
\* latter being what big_read_string makes a negative zero of.
MCInputs ==
  {[neg |-> n, digits |-> d] :
     n \in BOOLEAN,
     d \in UNION {{e \in [1 .. k -> 0 .. DigitBase - 1] : k = 1 \/ e[1] # 0} :
                  k \in 1 .. 3 * Digits}}

\* Two operands whose Toom-Cook b coefficient is divided with a carry into
\* an all-ones limb: -(0,1,3) and -(0,3,1) in limbs, -110100 and -11100.
MCCarryInputs == {[neg |-> TRUE, digits |-> <<1, 1, 0, 1, 0, 0>>],
                  [neg |-> TRUE, digits |-> <<1, 1, 1, 0, 0>>]}
\* Hex strings of up to two limbs' worth of digits with leading zeros, so
\* that a whole zero limb can head the number ("0000000000000000" followed
\* by a limb in the code).
MCPaddedInputs ==
  {[neg |-> n, digits |-> d] :
     n \in BOOLEAN, d \in UNION {[1 .. k -> 0 .. DigitBase - 1] : k \in 1 .. 2 * Digits}}
=============================================================================
