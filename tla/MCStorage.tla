----------------------------- MODULE MCStorage ------------------------------
(* Storage for TLC: three small payloads, one of them an image, and a large *)
(* one that fills the byte budget alone.                                   *)
EXTENDS Storage, TLC

CONSTANTS main, worker, text, word, image, large

MCContents == {text, word, image, large}
MCFew      == {text, image, large}
MCSize     == [c \in MCContents |-> IF c = large THEN 3 ELSE 1]
MCFewSize  == [c \in MCFew |-> MCSize[c]]
MCImages    == {image}
=============================================================================
