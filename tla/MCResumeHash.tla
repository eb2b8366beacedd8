---------------------------- MODULE MCResumeHash ----------------------------
(***************************************************************************)
(* ResumeHash on five different bytes: blocks of two leave one byte over   *)
(* and blocks of three two, and a chunk of three spans two boundaries.  An *)
(* ETag of length three needs no padding next to a reported length.        *)
(***************************************************************************)
EXTENDS ResumeHash

MCResource == <<1, 2, 3, 4, 5>>
=============================================================================
