------------------------------- MODULE MCECIES -------------------------------
(***************************************************************************)
(* ECIES with two frames from the client and one from the server.          *)
(***************************************************************************)
EXTENDS ECIES

MCMaxFrames == (Client :> 2) @@ (Server :> 1)

==============================================================================
