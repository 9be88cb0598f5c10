--------------------------- MODULE MCMessageCodec ---------------------------
(* MessageCodec with data without a colon, with one behind a comma, and with nothing but. *)
EXTENDS MessageCodec, TLC

MCIds == {<<>>, <<"i">>}
MCDatas == {<<>>, <<"d">>, <<"d", Comma, Colon>>, <<Colon>>}

Symmetry == Permutations(Thread)
=============================================================================
