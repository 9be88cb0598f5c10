----------------------------- MODULE MCDelivery -----------------------------
(* Delivery for every file size within 20 bytes of a multiple of 1000, and   *)
(* for names and contents with and without a colon or a zero in them.        *)
EXTENDS Delivery

MCFileSizes ==
  {n \in 0 .. 3020 : n % 1000 <= 20 \/ n % 1000 >= 980}

MCFileNames == BoundedSeq({"a", Colon}, 2) \ {<<>>, <<Colon>>, <<Colon, Colon>>}
MCFileBytes == BoundedSeq({"b", Colon, Nul}, 2)
MCNumbers == 0 .. 9
=============================================================================
