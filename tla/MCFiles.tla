------------------------------ MODULE MCFiles ------------------------------
EXTENDS StorageFile

(* The empty object, objects that reach the size limit compressed and      *)
(* uncompressed, and one that is too large.                                *)
SomeValues == {<<>>, <<5, 1>>, <<5, 1, 5>>, <<5, 5, 5, 5>>}
=============================================================================
