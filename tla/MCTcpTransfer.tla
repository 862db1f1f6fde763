--------------------------- MODULE MCTcpTransfer ----------------------------
(* Files for TcpTransfer: one at the limit of the server and one of the       *)
(* client, an empty one, one that begins like the acknowledgement, and one     *)
(* whose length shows it is big only when all its digits have arrived.         *)
EXTENDS TcpClaims

CONSTANTS c1, c2

MCFiles == {[size |-> 0, content |-> <<>>],
            [size |-> 9, content |-> <<"ACK", "text">>],
            [size |-> 1024, content |-> <<"long", "text">>],
            [size |-> 2049, content |-> <<"long", "text">>]}

=============================================================================
