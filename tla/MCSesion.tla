------------------------------- MODULE MCSesion -------------------------------
(* One phone, three users: ana has an account, eva may register, and fer has  *)
(* one too and comes by Facebook.                                             *)
EXTENDS Sesion

CONSTANTS ana, eva, fer
=============================================================================
