---------------------------- MODULE MCRingBuffer ----------------------------
(* RingBuffer with three bytes of room and calls of up to four bytes. *)
EXTENDS RingBuffer
=============================================================================
