---------------------------- MODULE MCBlobUpload ----------------------------
(* Instances of BlobUpload: pushes of a blob of two parts to two repositories. *)
EXTENDS BlobUpload, TLC

CONSTANTS p1, p2, p3, r1, r2

OfTwo   == [p \in {p1, p2} |-> r1]
OfThree == (p1 :> r1) @@ (p2 :> r1) @@ (p3 :> r2)
=============================================================================
