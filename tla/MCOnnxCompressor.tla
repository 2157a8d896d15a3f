-------------------------- MODULE MCOnnxCompressor ---------------------------
(***************************************************************************)
(* Threads and compressors are model values; any external operation may    *)
(* fail.                                                                   *)
(***************************************************************************)
EXTENDS OnnxCompressor

MCAllFail == External
MCNoneFail == {}

==============================================================================
