-------------------------------- MODULE MCKDF --------------------------------
(* Values of KDF's constants for model checking. *)
EXTENDS KDF

MCAgreed    == {<<1>>, <<2>>}
MCAlgID     == {<<1>>, <<1, 1>>}
MCInfo      == {<<>>, <<1>>}
MCPassword  == {<<3>>}
MCAlg       == {<<1>>, <<1, 2>>}
MCSaltInput == {<<>>, <<0>>, <<2, 0>>}
MCKeyLens   == {0, 1, 3, 5}
MCIterations == {0, 1, 3}
=============================================================================
