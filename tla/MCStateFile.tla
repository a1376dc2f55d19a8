---- MODULE MCStateFile ----
(***************************************************************************)
(* Two Saves and a Load of the server, a Save of a command run beside it   *)
(* and a Load of another command.                                          *)
(***************************************************************************)
EXTENDS StateFile, TLC

CONSTANTS s1, s2, s3, r1, r2, server, command, reader

MCSaves == {s1, s2, s3}
MCLoads == {r1, r2}
MCProcs == {server, command, reader}
MCHome == (s1 :> server) @@ (s2 :> server) @@ (s3 :> command)
            @@ (r1 :> server) @@ (r2 :> reader)
====
