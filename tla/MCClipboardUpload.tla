------------------------- MODULE MCClipboardUpload -------------------------
(* Limits on the size of shared clipboards, in chunks: a reload raises the *)
(* limit or lowers it.                                                     *)
EXTENDS ClipboardUpload

Growing == <<2, 5>>
Shrinking == <<4, 2>>
=============================================================================
