---------------------------- MODULE MCFrameChain ----------------------------
(* One chain by itself for TLC, with a detector that may fall behind.      *)
EXTENDS FrameChain

MCDetects == <<"ingest", "detect", "emit">>

=============================================================================
