---------------------------- MODULE MCStreamOutput ----------------------------
(* Instances of StreamOutput for TLC.                                       *)
EXTENDS StreamOutput

CONSTANTS a, b

MCChunks == {<<a>>, <<b>>, <<a, b>>}
MCCanonical == {<<a>>, <<a, b>>}
===============================================================================
