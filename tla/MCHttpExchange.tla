---------------------------- MODULE MCHttpExchange ----------------------------
(* Chunks that end with the buffer and chunks that cross its end.          *)
EXTENDS HttpExchange

MCChunkings == { <<0>>, <<1, 0>>, <<3, 2, 0>>, <<2, 5, 1, 0>> }
=============================================================================
