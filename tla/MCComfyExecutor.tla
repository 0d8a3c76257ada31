--------------------------- MODULE MCComfyExecutor --------------------------
(* The ComfyUI executor with two Jobs of two outputs each, for TLC.        *)
EXTENDS ComfyExecutor

CONSTANTS j1, j2, o1, o2
=============================================================================
