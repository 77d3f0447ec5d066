------------------------- MODULE MCDocumentPurchases -------------------------
(* Instances of DocumentPurchases for TLC. *)
EXTENDS DocumentPurchases
=============================================================================
