-------------------------- MODULE MCTcpReassembly --------------------------
(* TcpReassembly on small instances.                                        *)
EXTENDS TcpReassembly

\* Three connections, one of which is seen from the server's side only.
ThreeStreams == {<<1, 3>>, <<3, 2>>, <<4, 3>>}

\* A request, and the next one on the same connection.
Pipelined == <<"S", "a", "S">>

\* Segments of up to two bytes on any boundaries.
Short == {s \in (1..3) \X (1..3) : s[1] <= s[2] /\ s[2] < s[1] + 2}
=============================================================================
