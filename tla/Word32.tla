------------------------------- MODULE Word32 -------------------------------
(***************************************************************************)
(* C uint32_t values for TLC, whose integers stop at 2^31 - 1.  A word is  *)
(* the pair <<hi, lo>> of its 16-bit halves; arithmetic wraps modulo 2^32  *)
(* as the C code's does.                                                   *)
(***************************************************************************)
EXTENDS Integers, Bitwise

Half     == 65536
W32      == (0 .. Half - 1) \X (0 .. Half - 1)
W(n)     == <<n \div Half, n % Half>>         \* n < 2^31
Zero32   == <<0, 0>>
Ones32   == <<Half - 1, Half - 1>>             \* ~(0u)

(* x + y and x - y modulo 2^32 *)
Add32(x, y) ==
  LET lo == x[2] + y[2]
  IN  <<(x[1] + y[1] + lo \div Half) % Half, lo % Half>>
Not32(x)    == <<Half - 1 - x[1], Half - 1 - x[2]>>
Sub32(x, y) == Add32(Add32(x, Not32(y)), W(1))

Lt32(x, y)  == x[1] < y[1] \/ (x[1] = y[1] /\ x[2] < y[2])
Leq32(x, y) == x = y \/ Lt32(x, y)

Or32(x, y)  == <<x[1] | y[1], x[2] | y[2]>>
And32(x, y) == <<x[1] & y[1], x[2] & y[2]>>

(* byte i (0 = least significant) *)
ByteOf(x, i) == IF i < 2 THEN (x[2] \div 256^i) % 256
                ELSE (x[1] \div 256^(i - 2)) % 256

(* n (< 2^16) << s, truncated to 32 bits *)
ShlSmall(n, s) ==
  IF s >= 32 THEN Zero32
  ELSE IF s >= 16 THEN <<(n * 2^(s - 16)) % Half, 0>>
  ELSE <<((n * 2^s) \div Half) % Half, (n * 2^s) % Half>>

(* x << s, truncated to 32 bits *)
Shl32(x, s) == Or32(ShlSmall(x[2], s), ShlSmall(x[1], s + 16))

(* the word whose little-endian bytes are f[o], ..., f[o + n - 1] *)
FromBytes(f, o, n) ==
  LET b(i) == IF i < n THEN f[o + i] ELSE 0
  IN  <<b(2) + 256 * b(3), b(0) + 256 * b(1)>>

(* x with the low bits below the power of two g cleared (x & ~(g - 1)) *)
AlignDown32(x, g) ==
  IF g <= Half THEN <<x[1], (x[2] \div g) * g>>
  ELSE <<(x[1] \div (g \div Half)) * (g \div Half), 0>>

(* x mod 2^k *)
Low32(x, k) ==
  IF k >= 32 THEN x
  ELSE IF k >= 16 THEN <<x[1] % 2^(k - 16), x[2]>>
  ELSE <<0, x[2] % 2^k>>
=============================================================================
