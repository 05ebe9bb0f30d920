---------------------------- MODULE MCLSMEngine ----------------------------
(* LSMEngine with sets of model values for TLC.                            *)
EXTENDS LSMEngine

=============================================================================
