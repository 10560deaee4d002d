------------------------------ MODULE MCBuild -------------------------------
(***************************************************************************)
(* Three test files, one of them of a test that must abort, of which the   *)
(* driver takes two: a directory may hold none, as many as it takes, or    *)
(* more.  Two commands, so that the second finds the first one's binary,   *)
(* and one change of the directory, before, between or within them.        *)
(***************************************************************************)
EXTENDS BuildRef

MCNames == 1..3
=============================================================================
