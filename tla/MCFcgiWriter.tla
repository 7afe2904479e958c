---------------------------- MODULE MCFcgiWriter ----------------------------
(* A small instance: records aligned to two bytes, headers of two, buffers  *)
(* that hold a header and two aligned units (NewStream gives 32 bytes at    *)
(* least, which are a header and three).                                    *)
EXTENDS FcgiWire

MCBuffLen == [s \in Streams |-> 6]
=============================================================================
