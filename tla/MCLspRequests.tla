--------------------------- MODULE MCLspRequests ---------------------------
(* A completion after a newline, a query, a shutdown and a request whose     *)
(* parameters do not parse.                                                  *)
EXTENDS LspRequests, TLC

CONSTANTS r1, r2, r3, r4

MCMethod ==
    r1 :> "newline" @@ r2 :> "query" @@ r3 :> "shutdown" @@ r4 :> "badParams"
=============================================================================
