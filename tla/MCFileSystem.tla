---------------------------- MODULE MCFileSystem -----------------------------
(***************************************************************************)
(* FileSystem for TLC.  The bytes the clients write are only copied, so as *)
(* model values they are interchangeable.                                  *)
(***************************************************************************)
EXTENDS FileSystem, TLC

Interchangeable == Permutations(Values)
=============================================================================
