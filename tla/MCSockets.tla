------------------------------ MODULE MCSockets ------------------------------
(* Clients with numbers to add, one of which may also stop the server. *)
EXTENDS Sockets

CONSTANTS c1, c2, c3

SumArgs == (c1 :> <<Add(1), Add(2)>>) @@ (c2 :> <<Add(4), DOWN, Add(1)>>)
             @@ (c3 :> <<>>)
=============================================================================
