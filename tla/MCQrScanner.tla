---------------------------- MODULE MCQrScanner ----------------------------
(* Two page threads, which may probe the reader at once, and three pages:  *)
(* one thread scans again with the cached answer.                          *)
EXTENDS QrScanner
=============================================================================
