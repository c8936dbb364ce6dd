--------------------------- MODULE MCAsyncWriter ---------------------------
(* The small instance of AsyncWriter that AsyncWriter.cfg describes.  The  *)
(* run checks liveness, so no symmetry is declared.                        *)
EXTENDS AsyncWriter
=============================================================================
