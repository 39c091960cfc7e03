----------------------------- MODULE MCTcpSever -----------------------------
(* A server with a few connections and numbers for TLC. *)
EXTENDS TcpSever

CONSTANT k1

\* The fibers but the handlers.
ServerFibers == Conns \cup {Acceptor, Closer, Client}
=============================================================================
