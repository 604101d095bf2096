------------------------------ MODULE MCInitrd -------------------------------
(***************************************************************************)
(* Up to two files of up to two bytes, named "dev" or "a", in an image of  *)
(* two headers of one byte; numbers of 4 bits; two clients.                  *)
(***************************************************************************)
EXTENDS Initrd

SomeNames == {"dev", "a"}
=============================================================================
