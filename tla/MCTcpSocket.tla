------------------------------ MODULE MCTcpSocket ------------------------------
(* The arguments scripts pass, for model checking TcpSocket. *)
EXTENDS TcpSocket, TLC

OnePort     == {5000}
SomePorts   == {-1, 5000, 12345, 65536}
ReadLengths == {-2, -1, 0, 1}
ReadTimeouts == {-2, -1, 0, 2}
LiveTimeouts == {-1, 2}
LiveLengths  == {-1, 0}
BothRoles    == {"server", "client"}
ServerOnly   == {"server"}

\* Only for safety: no property tells one id from another.
Symmetry == Permutations(Socks)
===============================================================================
