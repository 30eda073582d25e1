--------------------------- MODULE MCChannelWriter ---------------------------
(* Instances of ChannelWriter for TLC: the cfgs set the constants.         *)
EXTENDS ChannelWriter
=============================================================================
