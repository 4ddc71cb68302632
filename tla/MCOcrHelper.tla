--------------------------- MODULE MCOcrHelper ---------------------------
(* Four languages over a cache of two, and requests longer than the pipe.  *)
EXTENDS OcrHelper
=============================================================================
