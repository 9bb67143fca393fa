--------------------------- MODULE MCTestServer ---------------------------
(* Instances of TestServer for TLC.                                        *)
EXTENDS TestServer
=============================================================================
