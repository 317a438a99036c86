----------------------------- MODULE FileSystem -----------------------------
(***************************************************************************)
(* filesystems-checker/fs.h: a file system image on disk, and what it      *)
(* means for one to be consistent: the rules of the project's README, by   *)
(* the numbers the functions of xchecker.c have.                           *)
(*                                                                         *)
(* An image is a record:                                                   *)
(*   type, size, addrs   of each inode: 0 (free), 1 (directory), 2, 3 or   *)
(*                       an invalid number; bytes; block addresses         *)
(*   pointers, entries   of each block: what it says when it is read as an *)
(*                       indirect block, and as a block of a directory     *)
(*   bitmap              the blocks marked in use                          *)
(* Sequences count from 1: addrs[i][NDIRECT + 1] is the indirect block.    *)
(***************************************************************************)
EXTENDS SequencesExt, FiniteSets

CONSTANTS ninodes, nblocks, bmapstart,   \* of the superblock
          FSSIZE,                        \* blocks of the image
          BSIZE,                         \* bytes of a block
          NDIRECT, NINDIRECT,            \* addresses of an inode, of a block
          DIRENTS,                       \* directory entries of a block
          MaxAddress                     \* bound: block numbers

ASSUME LayoutAssumption ==
    /\ {ninodes, nblocks, BSIZE, NDIRECT, NINDIRECT} \subseteq Nat \ {0}
    /\ DIRENTS \in Nat \ {0, 1}
    /\ bmapstart \in Nat /\ FSSIZE \in Nat
    /\ bmapstart + nblocks < FSSIZE    \* nblocks data blocks, after the bitmap
    /\ FSSIZE <= 8 * BSIZE             \* of one block
    /\ MaxAddress \in Nat /\ FSSIZE <= MaxAddress + 1

Inodes == 1 .. ninodes

Blocks == 0 .. FSSIZE - 1

\* The data blocks are the last ones.
DataBlocks == FSSIZE - nblocks .. FSSIZE - 1

Directory == 1

\* The block numbers whose offset in bytes is a uint (with blocks of 512 bytes
\* those below 2^23; the offset of a larger one wraps in rsect).
Address == 0 .. MaxAddress

\* What a superblock, the table of inodes, blocks and a bitmap can hold, read
\* as the structs of fs.h.  A bitmap may mark more blocks than the image has.
Image ==
    [type     : [Inodes -> Int],
     size     : [Inodes -> Nat],
     addrs    : [Inodes -> [1 .. NDIRECT + 1 -> Address]],
     pointers : [Blocks -> [1 .. NINDIRECT -> Address]],
     entries  : [Blocks -> [1 .. DIRENTS -> [name : STRING, inum : Nat]]],
     bitmap   : SUBSET (0 .. 8 * BSIZE - 1)]

InUse(image, inode) == image.type[inode] # 0

\* block_num: the size in blocks, rounded up.
BlockNum(size) == (size \div BSIZE) + (IF size % BSIZE # 0 THEN 1 ELSE 0)

HasIndirect(image, inode) == BlockNum(image.size[inode]) > NDIRECT

\* The blocks whose addresses the inode itself has, an indirect block last.
DirectAddresses(image, inode) ==
    LET block_num == BlockNum(image.size[inode]) IN
    SubSeq(image.addrs[inode], 1,
           IF block_num <= NDIRECT THEN block_num ELSE NDIRECT + 1)

\* The addresses in the indirect block, as far as there is one and it has them.
IndirectAddresses(image, inode) ==
    LET block_num == BlockNum(image.size[inode])
        indirect == image.addrs[inode][NDIRECT + 1]
    IN  IF block_num <= NDIRECT \/ indirect \notin Blocks THEN <<>>
        ELSE SubSeq(image.pointers[indirect],
                    1, Min({block_num - NDIRECT, NINDIRECT}))

Addresses(image, inode) ==
    DirectAddresses(image, inode) \o IndirectAddresses(image, inode)

\* The blocks with the content of the file or directory.
ContentBlocks(image, inode) ==
    SubSeq(image.addrs[inode], 1,
           Min({BlockNum(image.size[inode]), NDIRECT}))
        \o IndirectAddresses(image, inode)

\* The first block of a directory, where its entries for itself and for its
\* parent are.
FirstBlock(image, inode) ==
    IF image.addrs[inode][1] \in Blocks
    THEN image.entries[image.addrs[inode][1]] ELSE <<>>

-----------------------------------------------------------------------------
(* The rules.                                                              *)

Used(image) ==
    UNION {ToSet(Addresses(image, inode)) :
              inode \in {n \in Inodes : InUse(image, n)}}

\* Each inode is unallocated or of a valid type.
Rule1(image) == \A inode \in Inodes : image.type[inode] \in 0 .. 3

\* Each address used by an inode in use is one of a data block.
Rule2(image) ==
    \A inode \in Inodes : InUse(image, inode) =>
        /\ ToSet(DirectAddresses(image, inode)) \subseteq DataBlocks
        /\ ToSet(IndirectAddresses(image, inode)) \subseteq DataBlocks

\* The root directory is inode 1 and its own parent.
Rule3(image) ==
    /\ image.type[1] = Directory
    /\ [name |-> "..", inum |-> 1] \in ToSet(FirstBlock(image, 1))

\* Each directory has entries for itself and for its parent.
Rule4(image) ==
    \A inode \in Inodes : image.type[inode] = Directory =>
        /\ [name |-> ".", inum |-> inode] \in ToSet(FirstBlock(image, inode))
        /\ \E entry \in ToSet(FirstBlock(image, inode)) : entry.name = ".."

\* Each address used is marked in the bitmap.
Rule5(image) == Used(image) \subseteq image.bitmap

\* Each data block marked in the bitmap is used.
Rule6(image) == image.bitmap \cap DataBlocks \subseteq Used(image)

\* No address is used twice.
Rule7(image) ==
    \A m, n \in Inodes : InUse(image, m) /\ InUse(image, n) =>
        LET a == Addresses(image, m)
            b == Addresses(image, n)
        IN  \A j \in DOMAIN a, k \in DOMAIN b :
                a[j] = b[k] => m = n /\ j = k

\* Every inode a directory refers to is in use.  (The README has this as the
\* tenth rule; inode_check_9 is what looks at it.)
RefersTo(image, directory) ==
    {entry.inum : entry \in
        UNION {ToSet(image.entries[block]) :
                  block \in ToSet(ContentBlocks(image, directory)) \cap Blocks}}

Rule10(image) ==
    \A directory \in Inodes : image.type[directory] = Directory =>
        \A inode \in RefersTo(image, directory) \ {0} :
            inode \in Inodes /\ InUse(image, inode)

\* The directories an entry is followed to, and those that can be reached from
\* some directories that way.
Subdirectories(image, directory) ==
    {n \in RefersTo(image, directory) \cap Inodes :
        n > 1 /\ image.type[n] = Directory}

ReachedFrom(image, directories) ==
    LET within[n \in 0 .. ninodes] ==
            IF n = 0 THEN directories
            ELSE within[n - 1] \cup
                 UNION {Subdirectories(image, d) : d \in within[n - 1]}
    IN  within[ninodes]

LeadsToItself(image, directory) ==
    directory \in ReachedFrom(image, Subdirectories(image, directory))
=============================================================================
