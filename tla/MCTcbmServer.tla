---------------------------- MODULE MCTcbmServer ----------------------------
(* A file of three bytes, which is two buffers.                              *)
EXTENDS TcbmServer

CONSTANTS a, b, x, y, z

MCContents == {<<x, y, z>>}
MCSaveData == {<<x, y, z>>}
=============================================================================
