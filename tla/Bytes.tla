--------------------------------- MODULE Bytes ---------------------------------
(* The operator ^ of C on bytes, which the frame checksums are made of.     *)
EXTENDS Integers

xor[b \in Nat \X Nat] ==
    IF b = <<0, 0>> THEN 0
    ELSE (2 * xor[<<b[1] \div 2, b[2] \div 2>>]) + ((b[1] + b[2]) % 2)

Xor(x, y) == xor[<<x, y>>]

(* What n and the first n payload bytes of the frame f sum up to.           *)
ChecksumOf(f, n) ==
    LET sum[i \in 0 .. n] == IF i = 0 THEN n ELSE Xor(sum[i - 1], f[i + 2])
    IN  sum[n]
=============================================================================
