-------------------------- MODULE MCBlobDownload --------------------------
(* Instances of BlobDownload: a few pulls of a blob of two parts. *)
EXTENDS BlobDownload
=============================================================================
