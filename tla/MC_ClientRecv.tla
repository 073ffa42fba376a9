--------------------------- MODULE MC_ClientRecv ---------------------------
(* Model-checking instance of ClientRecv: three async_recv calls and three *)
(* entries from the endpoint (two PUBLISHes and a DISCONNECT), enough for   *)
(* an entry to arrive before, during and after every recv_op state.         *)
EXTENDS ClientRecv

CONSTANTS r1, r2, r3, pub1, pub2, disc

MC_Ops == {r1, r2, r3}
MC_Arrivals == <<pub1, pub2, disc>>
=============================================================================
