--------------------------- MODULE MCOrderRecords ----------------------------
(* Instances of OrderRecords for TLC. *)
EXTENDS OrderRecords

TwoSymbols == <<"A", "B">>
OneSymbol == <<"A">>
=============================================================================
