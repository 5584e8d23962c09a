------------------------ MODULE MCPosixNetStreamChannel ------------------------
(* Four calls, of one or two bytes, on a socket whose send buffer holds two     *)
(* bytes: a write is cut by a full buffer, a read waits behind another, two      *)
(* connections come for one accept, and the peer ends the stream at any time.    *)
EXTENDS PosixNetStreamChannel

================================================================================
