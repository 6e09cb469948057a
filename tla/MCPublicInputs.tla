---- MODULE MCPublicInputs ----
\* An instance of PublicInputs for TLC: three transactions with up to two bytes
\* each; the id before the first and the one after the last, p - 1 and 4.
EXTENDS PublicInputs

MCBytes == {0, 1}
MCPayloads == {<<>>, <<0>>, <<1>>, <<0, 1>>}
MCStrangers == {-1, 4}
MCMisstated == {0, 12}
====
