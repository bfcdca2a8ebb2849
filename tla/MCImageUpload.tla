----------------------------- MODULE MCImageUpload -----------------------------
(* ImageUpload with two upload ids, an image of two parts, two attempts.   *)
EXTENDS ImageUpload

MCFileSizes == {2, 3, 4}
=============================================================================
