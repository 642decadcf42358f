----------------------------- MODULE MCFileStore -----------------------------
(***************************************************************************)
(* An instance of FileStore for TLC.                                       *)
(***************************************************************************)
EXTENDS FileStore

CONSTANTS u1, u2, u3

(* One upload of two files, the others of one file.                        *)
TwoThenOne == [u \in Uploads |-> IF u = u1 THEN 2 ELSE 1]
=============================================================================
