------------------------------ MODULE MCRBTree ------------------------------
(* Small trees.  Two objects share a key, so that equal keys are rotated   *)
(* past each other.                                                        *)
EXTENDS RBTree

CONSTANT N

MCObjects == 1 .. N
MCKeyOf == [o \in MCObjects |-> IF o = 3 THEN 2 ELSE o]
=============================================================================
