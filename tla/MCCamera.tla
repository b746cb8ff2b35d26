------------------------------- MODULE MCCamera -------------------------------
(* Instance of Camera for TLC.                                             *)
EXTENDS Camera
===============================================================================
