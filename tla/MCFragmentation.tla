-------------------------- MODULE MCFragmentation --------------------------
(* Fragmentation for every file size within 20 bytes of a multiple of 1000. *)
EXTENDS Fragmentation

MCFileSizes ==
  {n \in 0 .. 3020 : n % 1000 <= 20 \/ n % 1000 >= 980}
=============================================================================
