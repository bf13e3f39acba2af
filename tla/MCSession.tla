----------------------------- MODULE MCSession -----------------------------
(* Instances of Session for TLC.                                           *)
EXTENDS Session

CONSTANTS ann, bob
MCRole == [u \in Users |-> IF u = ann THEN "admin" ELSE "viewer"]
=============================================================================
