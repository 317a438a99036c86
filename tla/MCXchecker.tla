----------------------------- MODULE MCXchecker -----------------------------
(* The checker on small images: consistent ones, and all that differ from  *)
(* one of them in one field.                                               *)
EXTENDS Xchecker

E(name, inum) == [name |-> name, inum |-> inum]

NoEntries == <<E("", 0), E("", 0), E("", 0)>>

\* A root directory of one block with one file, and that file, of four blocks.
\* The last inode of the table is never in use.
Flat ==
    [type     |-> <<1, 2, 0, 0>>,
     size     |-> <<4, 13, 0, 0>>,
     addrs    |-> <<<<9, 0, 0>>, <<10, 11, 12>>, <<0, 0, 0>>, <<0, 0, 0>>>>,
     pointers |-> [b \in Blocks |-> IF b = 12 THEN <<15, 16>> ELSE <<0, 0>>],
     entries  |-> [b \in Blocks |->
                      IF b = 9 THEN <<E(".", 1), E("..", 1), E("f", 2)>>
                               ELSE NoEntries],
     bitmap   |-> 0 .. 12 \cup {15, 16}]

\* A root directory with an indirect block, a device and a subdirectory.
Deep ==
    [type     |-> <<1, 3, 1, 0>>,
     size     |-> <<12, 0, 3, 0>>,
     addrs    |-> <<<<9, 10, 11>>, <<0, 0, 0>>, <<17, 0, 0>>, <<0, 0, 0>>>>,
     pointers |-> [b \in Blocks |-> IF b = 11 THEN <<12, 0>> ELSE <<0, 0>>],
     entries  |-> [b \in Blocks |->
                      CASE b = 9  -> <<E(".", 1), E("..", 1), E("", 0)>>
                        [] b = 10 -> <<E("", 0), E("f", 2), E("", 0)>>
                        [] b = 12 -> <<E("f", 3), E("", 0), E("", 0)>>
                        [] b = 17 -> <<E(".", 3), E("..", 1), E("f", 2)>>
                        [] OTHER  -> NoEntries],
     bitmap   |-> 0 .. 12 \cup {17}]

\* The same without the entry of the subdirectory for itself.
Ends == [Deep EXCEPT !.entries[17][1].inum = 0]

\* 18 is the first beyond the image, 33 is beyond the bitmap's block, and 73 is
\* taken for 9 there.
Addr == {0, 8, 9, 10, 15, 17, 18, 33, 73}

Changed(img) ==
    {img}
      \cup {[img EXCEPT !.type[n] = t] : n \in Inodes, t \in 0 .. 4}
      \cup {[img EXCEPT !.size[n] = s] :
               n \in Inodes, s \in {0, 1, 4, 8, 9, 16, 17}}
      \cup {[img EXCEPT !.addrs[n][k] = a] :
               n \in Inodes, k \in 1 .. 3, a \in Addr}
      \cup {[img EXCEPT !.pointers[b][k] = a] :
               b \in {11, 12}, k \in 1 .. 2, a \in Addr}
      \cup {[img EXCEPT !.bitmap = (@ \ {b}) \cup ({b} \ @)] : b \in Blocks}
      \cup {[img EXCEPT !.entries[b][k] = E(name, n)] :
               b \in {9, 12, 17}, k \in 1 .. 3,
               name \in {".", "..", "f"}, n \in 0 .. 5}

\* Consistent images only.
MCGoodImages == {Flat, Deep}

MCImages == Changed(Flat) \cup Changed(Deep) \cup Changed(Ends)
=============================================================================
