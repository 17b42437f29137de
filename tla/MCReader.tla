------------------------------ MODULE MCReader ------------------------------
(* Reader for TLC: two texts, an image and a selection of files only.      *)
EXTENDS Reader, TLC

CONSTANTS text, word, image, files

MCKind == text :> "text" @@ word :> "text" @@ image :> "image" @@ files :> "other"
=============================================================================
