----------------------------- MODULE MCSoftmaxBlock -----------------------------
(* Two warps of two lanes on five keys: the first thread has two of them and  *)
(* the others one, so that in a short causal row some see nothing.            *)
EXTENDS SoftmaxBlock

MCRawScores == {0, 1}
===============================================================================
