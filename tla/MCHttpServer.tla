----------------------------- MODULE MCHttpServer ----------------------------
(* HttpServer on small instances. The connections are interchangeable.     *)
EXTENDS HttpServer, TLC

Symmetry == Permutations(Conn)
=============================================================================
