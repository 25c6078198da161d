---------------------------- MODULE MCFwDownload ----------------------------
(***************************************************************************)
(* Files of none, one part, one whole, two and a half and three blocks of  *)
(* two bytes, and one over the limit; three downloads.                     *)
(***************************************************************************)
EXTENDS FwDownload
=============================================================================
