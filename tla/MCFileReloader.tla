--------------------------- MODULE MCFileReloader ----------------------------
(* Instances of FileReloader for TLC: the cfgs set the constants.          *)
EXTENDS FileReloader
=============================================================================
