------------------------------- MODULE MCUploads -------------------------------
(* Two requests at a time on the gallery of one facility. *)
EXTENDS Uploads
================================================================================
