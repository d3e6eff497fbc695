---------------------------- MODULE MCAllocator ----------------------------
(* Instances of Allocator for TLC. *)
EXTENDS Allocator

Request(n, align) == [size |-> n, alignment |-> align, struct_size |-> align]
ManySizes == {Request(0, 16), Request(8, 8), Request(32, 16), Request(64, 8)}
OneArena == {16}
=============================================================================
