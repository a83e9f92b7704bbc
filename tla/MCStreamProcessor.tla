------------------------- MODULE MCStreamProcessor -------------------------
(* StreamProcessor on small instances.  The runs of a cfg differ in what   *)
(* they stream and in who attaches late, so no symmetry is used.           *)
EXTENDS StreamProcessor, TLC
=============================================================================
