--------------------------------- MODULE Bytes ---------------------------------
(***************************************************************************)
(* Integers as the compiled code holds them, and alignment.                *)
(***************************************************************************)
EXTENDS Integers

\* Values of an int16_t, and the conversions of wider integers to 16 bits.
Int16s    == {n \in Int : -32768 <= n /\ n < 32768}
Int16(n)  == LET m == n % 65536 IN IF m < 32768 THEN m ELSE m - 65536
Uint16(n) == n % 65536

\* alignof of the basic types, of ptr and of string; a struct has one of these.
Aligns == {1, 2, 4, 8}

\* The loop "while (p % a != 0) ++p" of message_builder::allocate, of
\* vector::data and of pad_to (layout.cpp).
AlignUp(p, a) == p + ((a - (p % a)) % a)

\* m bytes at p and n bytes at q have a byte in common.
Overlap(p, m, q, n) == p < q + n /\ q < p + m
=============================================================================
