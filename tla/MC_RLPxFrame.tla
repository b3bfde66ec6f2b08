--------------------------- MODULE MC_RLPxFrame ----------------------------
(* Scaled sizes for the frame codec: a 3-bit frame length (LenMax 7), a     *)
(* 4-bit message size (SizeMod 16) and a 4-byte block, so that padding,     *)
(* the uint24 limit and the uint32 wrap are all reached by small messages.  *)
EXTENDS RLPxFrame

MCCodes == {16, 200}
MCCode == {16}
(* Sizes whose frames fit, one just past the limit, none that wrap *)
MCSizesFit == {0, 3, 7}
(* Sizes at and above the limit, and one that wraps the uint32 fsize *)
MCSizesEdge == {6, 15}
=============================================================================
