--------------------------- MODULE MCPdfEditor ---------------------------
(* Instance of PdfEditor for TLC. A disturbed state satisfies every       *)
(* property but the two proved for all states (TypeOK, StacksBounded) and *)
(* stays disturbed, so nothing is lost by not going on from it.           *)
EXTENDS PdfEditor

Undisturbed == ~disturbed
==========================================================================
