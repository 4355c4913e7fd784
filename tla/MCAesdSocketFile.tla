-------------------------- MODULE MCAesdSocketFile --------------------------
(* Inputs for TLC: two clients, one of which sends a seek request at last.  *)
EXTENDS AesdSocketFile

CONSTANTS c1, c2

MCConn == {c1, c2}
MCRequests ==
  [c \in MCConn |-> IF c = c1 THEN <<"text", "malformed_seek", "text">>
                    ELSE <<"text", "seek">>]
=============================================================================
