-------------------------------- MODULE Bytes --------------------------------
(* Exclusive or of two bytes, as a table: ByteXor[x][y] is x ^ y.          *)
EXTENDS Naturals

Byte == 0..255

\* The bit of weight w is set in one of the two.
XorAt(x, y, w) == w * ((x \div w + y \div w) % 2)

ByteXor ==
  [x \in Byte |-> [y \in Byte |->
     XorAt(x, y, 1) + XorAt(x, y, 2) + XorAt(x, y, 4) + XorAt(x, y, 8)
       + XorAt(x, y, 16) + XorAt(x, y, 32) + XorAt(x, y, 64) + XorAt(x, y, 128)]]
=============================================================================
