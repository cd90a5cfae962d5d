------------------------------ MODULE IntCodec ------------------------------
(***************************************************************************)
(* The integers a Buffer stores: n bytes in network order.  Radix is the   *)
(* number of values of a byte, 256 in the code.                            *)
(***************************************************************************)
EXTENDS Integers, Sequences

CONSTANT Radix

Byte == 0 .. Radix - 1

\* The number of values of n bytes.
Power[n \in Nat] == IF n = 0 THEN 1 ELSE Radix * Power[n - 1]

\* Mutant: host order of a little-endian machine, the conversion left out.
EncodeHost(v, n) == [i \in 1 .. n |-> (v \div Power[i - 1]) % Radix]

\* htobe16/32/64 and the n bytes of the result in memory.
Encode(v, n) == [i \in 1 .. n |-> (v \div Power[n - i]) % Radix]

\* be16/32/64toh of the bytes d, and the cast to the signed type.
Decode(d) ==
  LET unsigned[i \in 0 .. Len(d)] == IF i = 0 THEN 0 ELSE unsigned[i - 1] * Radix + d[i]
      u == unsigned[Len(d)]
  IN  IF 2 * u < Power[Len(d)] THEN u ELSE u - Power[Len(d)]

\* The values of the signed type of n bytes.
Ints(n) == - (Power[n] \div 2) .. Power[n] \div 2 - 1
=============================================================================
