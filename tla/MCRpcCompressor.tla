--------------------------- MODULE MCRpcCompressor ---------------------------
(***************************************************************************)
(* Three threads, each in any context, that share one compressor.          *)
(***************************************************************************)
EXTENDS RpcCompressor
==============================================================================
