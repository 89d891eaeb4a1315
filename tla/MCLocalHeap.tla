---------------------------- MODULE MCLocalHeap -----------------------------
(* Model-checking instance of LocalHeap: the vector tables initWorld may   *)
(* be given.  With blocks of 4, metadata 1 and alignment 2, the vectors    *)
(* below are 2, 4 and 6 bytes: two small ones fill the first chunk exactly *)
(* (the frontier ends on the block's end), one of a block leaves no room,  *)
(* and one of 6 needs a chunk of two blocks after which a small one finds  *)
(* room but not in the first block.                                        *)
EXTENDS LocalHeap

Small == [elementSize |-> 1, length |-> 1]
OneBlock == [elementSize |-> 1, length |-> 2]
Large == [elementSize |-> 2, length |-> 2]

MCVectorTables == {<<>>, <<Small, Small>>, <<OneBlock, Small>>, <<Large, Small>>}
=============================================================================
