--------------------------- MODULE MCProcessWatch ---------------------------
(* A small instance of ProcessWatch for TLC, and the checks of Formats. *)
EXTENDS ProcessWatch, MCFormats
=============================================================================
