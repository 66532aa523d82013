----------------------------- MODULE MCBuffers -----------------------------
(* Two sessions, three buffers and two blocks that share a page of the layers. *)
EXTENDS Buffers

MCSession == {1, 2}
MCDataBlock == {<<0, 1>>, <<1, 1>>}
MCFreeBlock == {<<0, 2>>}
MCNode == <<0, 3>>

\* Behaviours are followed until an answered buffer is given away before it is mapped.
MappedInTime == ~lost
=============================================================================
