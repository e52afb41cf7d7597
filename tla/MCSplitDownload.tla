--------------------------- MODULE MCSplitDownload ---------------------------
(* Every length up to seven split into up to five parts: lengths that are     *)
(* and are not a multiple of a part, and fewer bytes than parts.              *)
EXTENDS SplitDownload

MCLengths == 0..7
MCSplits == 2..5
=============================================================================
