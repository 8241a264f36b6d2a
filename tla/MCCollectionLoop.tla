--------------------------- MODULE MCCollectionLoop ---------------------------
(* CollectionLoop as it is; the configurations give small periods.             *)
EXTENDS CollectionLoop
===============================================================================
