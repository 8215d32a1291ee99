--------------------------- MODULE MCStdioServer ---------------------------
(***************************************************************************)
(* The local server with a client that writes a few lines of every kind.   *)
(***************************************************************************)
EXTENDS StdioServer
=============================================================================
