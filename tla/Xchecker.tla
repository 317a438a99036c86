------------------------------ MODULE Xchecker ------------------------------
(***************************************************************************)
(* filesystems-checker/xchecker.c: the functions that check a file system  *)
(* image, each on its own, as main would call it (it calls inode_check_9,  *)
(* and the comments around it show the others in its place).  Each goes    *)
(* over the inodes 1 .. ninodes; one inode is one step.  inode_check_9     *)
(* walks down from the root and calls itself for a directory it meets; one *)
(* directory entry is one step.                                            *)
(***************************************************************************)
EXTENDS FileSystem

CONSTANTS Images,      \* the images that may be given
          MaxDepth,    \* calls of inode_check_9 that fit on the stack
          USHRT_MAX

ASSUME ImagesAssumption == Images \subseteq Image
ASSUME DepthAssumption == MaxDepth \in Nat \ {0}
ASSUME UshortAssumption == USHRT_MAX \in Nat /\ BSIZE <= USHRT_MAX + 1

VARIABLES
    image,
    check,           \* number of the function that was called
    i,               \* the inode it is at
    buf,             \* bitmap_check_6: the bits still set in its copy
    address_count,   \* address_check_7_8: 1 for a direct address, 2 for an
                     \* indirect one
    stack,           \* inode_check_9: its calls, innermost last
    messages,        \* errors reported without an exit
    status           \* "running", "ok" (the function has returned), "error"
                     \* (exit(1)), "overflow" (of the stack) or "undefined"

vars == <<image, check, i, buf, address_count, stack, messages, status>>

Checks == {1, 2, 3, 4, 5, 6, 7, 9}

Init ==
    /\ image \in Images
    /\ check \in Checks
    /\ i = 1
    /\ buf = image.bitmap
    /\ address_count = [block \in Blocks |-> 0]
    /\ stack = IF check = 9 THEN <<[inode |-> 1, next |-> 1]>> ELSE <<>>
    /\ messages = 0
    /\ status = "running"

-----------------------------------------------------------------------------
(* A definition whose name ends in _Something is a variant with a seeded   *)
(* fault; the specification does not use it.                               *)

\* The loop is at inode i.
At(number) == status = "running" /\ check = number /\ i <= ninodes

Continue == i' = i + 1 /\ UNCHANGED status

Stop(result) == status' = result /\ UNCHANGED i

\* The loop is done and the function returns.
Return ==
    /\ status = "running" /\ check \in {1, 2, 4, 5, 7} /\ i > ninodes
    /\ Stop("ok")
    /\ UNCHANGED <<image, check, buf, address_count, stack, messages>>

BadAddress_OneMore(address) ==     \* fault: > for >=
    address > FSSIZE \/ address < FSSIZE - nblocks

BadAddress(address) == address >= FSSIZE \/ address < FSSIZE - nblocks

\* The indirect block lies outside the image, or the file has more blocks
\* than an indirect block has addresses.
Unreadable(inode) ==
    /\ HasIndirect(image, inode)
    /\ \/ image.addrs[inode][NDIRECT + 1] \notin Blocks
       \/ BlockNum(image.size[inode]) > NDIRECT + NINDIRECT

inode_detect_1 ==
    /\ At(1)
    /\ IF image.type[i] \in 0 .. 3 THEN Continue ELSE Stop("error")
    /\ UNCHANGED <<image, check, buf, address_count, stack, messages>>

\* Whether the inode is in use is not looked at, only its size.
inodeaddr_detect_2 ==
    /\ At(2)
    /\ \/ /\ \E n \in DOMAIN DirectAddresses(image, i) :
                 BadAddress(DirectAddresses(image, i)[n])
          /\ Stop("error")
       \/ /\ \A n \in DOMAIN DirectAddresses(image, i) :
                 ~BadAddress(DirectAddresses(image, i)[n])
          /\ IF \E n \in DOMAIN IndirectAddresses(image, i) :
                    BadAddress(IndirectAddresses(image, i)[n])
             THEN Stop("error")
             ELSE IF Unreadable(i) THEN Stop("undefined") ELSE Continue
    /\ UNCHANGED <<image, check, buf, address_count, stack, messages>>

\* The second entry of the block that is the root directory's first; what
\* the entry is called and whether inode 1 is a directory is not looked at.
root_check_3 ==
    /\ At(3)
    /\ Stop(IF image.addrs[1][1] \notin Blocks THEN "undefined"
            ELSE IF FirstBlock(image, 1)[2].inum = 1 THEN "ok" ELSE "error")
    /\ UNCHANGED <<image, check, buf, address_count, stack, messages>>

\* The first two entries of a directory.
WellFormed(entries) ==
    entries[1].name = "." /\ entries[2].name = ".." /\ entries[1].inum = i

directory_check_4 ==
    /\ At(4)
    /\ IF image.type[i] # Directory THEN Continue
       ELSE IF image.addrs[i][1] \notin Blocks THEN Stop("undefined")
       ELSE IF WellFormed(FirstBlock(image, i)) THEN Continue
       ELSE Stop("error")
    /\ UNCHANGED <<image, check, buf, address_count, stack, messages>>

char_index_Rounded(address) ==   \* fault: no case for the last bit of a byte
    ((address + 1) \div 8) % (USHRT_MAX + 1)

\* The byte of the bitmap that has the bit of an address, as a ushort.
char_index(address) ==
    (IF (address + 1) % 8 = 0 THEN (address + 1) \div 8 - 1
                              ELSE (address + 1) \div 8) % (USHRT_MAX + 1)

\* There is no such byte in the block that was read.
OutsideBitmap(address) == char_index(address) >= BSIZE

\* The bit that is looked at, or cleared: that of the address, or of one that
\* is smaller by a multiple of 8 * (USHRT_MAX + 1).
Bit(address) == 8 * char_index(address) + (address % 8)

bitmap_exist(address) == Bit(address) \in image.bitmap

\* An address of the inode has no bit, or cannot be read itself.
Unmarkable(inode) ==
    \/ Unreadable(inode)
    \/ \E address \in ToSet(Addresses(image, inode)) : OutsideBitmap(address)

\* Reports every address that is not marked, and goes on.
bitmap_check_5 ==
    /\ At(5)
    /\ IF ~InUse(image, i) THEN Continue /\ UNCHANGED messages
       ELSE IF Unmarkable(i) THEN Stop("undefined") /\ UNCHANGED messages
       ELSE /\ messages' = messages
                   + Cardinality({n \in DOMAIN Addresses(image, i) :
                                     ~bitmap_exist(Addresses(image, i)[n])})
            /\ Continue
    /\ UNCHANGED <<image, check, buf, address_count, stack>>

bitmap_delete(bits, addresses) ==
    bits \ {Bit(address) : address \in addresses}

\* The bits of the blocks in use are cleared in a copy of the bitmap.
bitmap_check_6 ==
    /\ At(6)
    /\ IF ~InUse(image, i) THEN Continue /\ UNCHANGED buf
       ELSE IF Unmarkable(i) THEN Stop("undefined") /\ UNCHANGED buf
       ELSE buf' = bitmap_delete(buf, ToSet(Addresses(image, i))) /\ Continue
    /\ UNCHANGED <<image, check, address_count, stack, messages>>

start_block_Bitmap == bmapstart        \* fault: the bitmap's own block

\* The first block after the bitmap.
start_block == bmapstart + 1

Byte(bit) == bit \div 8

\* What is left must be the bits of the blocks before start_block, as far as
\* they are in its byte, and nothing in a later byte.
bitmap_check_6_end ==
    /\ status = "running" /\ check = 6 /\ i > ninodes
    /\ LET left == {bit \in buf : Byte(bit) = Byte(start_block)}
           meta == {bit \in 0 .. start_block - 1 :
                       Byte(bit) = Byte(start_block)}
       IN  Stop(IF left = meta
                   /\ \A bit \in buf : Byte(bit) <= Byte(start_block)
                THEN "ok" ELSE "error")
    /\ UNCHANGED <<image, check, buf, address_count, stack, messages>>

Repeated_InOtherInodes(addresses, n) ==  \* fault: not within one inode
    addresses[n] \in Blocks /\ address_count[addresses[n]] > 0

\* The n-th of an inode's addresses was counted before.
Repeated(addresses, n) ==
    /\ addresses[n] \in Blocks
    /\ \/ address_count[addresses[n]] > 0
       \/ \E m \in 1 .. n - 1 : addresses[m] = addresses[n]

\* The counts are read and written for every address, in the image or not.
address_check_7_8 ==
    /\ At(7)
    /\ LET addresses == Addresses(image, i)
           repeated == {n \in DOMAIN addresses : Repeated(addresses, n)}
           outside ==
               {n \in DOMAIN addresses : addresses[n] \notin Blocks}
                   \cup IF Unreadable(i) THEN {Len(addresses) + 1} ELSE {}
           first == Min(repeated \cup outside)
           Uses(block, numbers) ==
               Cardinality({n \in DOMAIN addresses \cap numbers :
                               addresses[n] = block})
           direct == 1 .. NDIRECT + 1
       IN IF ~InUse(image, i)
          THEN Continue /\ UNCHANGED address_count
          ELSE IF repeated \cup outside = {}
          THEN /\ address_count' =
                      [block \in Blocks |->
                          address_count[block] + Uses(block, direct)
                              + 2 * Uses(block, DOMAIN addresses \ direct)]
               /\ Continue
          ELSE /\ Stop(IF first \in repeated THEN "error" ELSE "undefined")
               /\ UNCHANGED address_count
    /\ UNCHANGED <<image, check, buf, stack, messages>>

-----------------------------------------------------------------------------
(* inode_check_9.                                                          *)

top == stack[Len(stack)]

\* The call is left at the next entry.
Advanced == [stack EXCEPT ![Len(stack)].next = @ + 1]

Walking == status = "running" /\ check = 9

\* The blocks the innermost call goes over, and the one it is at.
content == ContentBlocks(image, top.inode)
block_at == (top.next - 1) \div DIRENTS + 1

\* Its inode or the indirect block names a block outside the image, or the
\* size is more than an indirect block has addresses for.
WalkOutside ==
    /\ Walking /\ stack # <<>>
    /\ ~(/\ image.addrs[top.inode][1] \in Blocks
         /\ block_at <= Len(content) => content[block_at] \in Blocks
         /\ block_at > Len(content) => ~Unreadable(top.inode))
    /\ Stop("undefined")
    /\ UNCHANGED <<image, check, buf, address_count, stack, messages>>

AtEntry ==
    /\ Walking /\ stack # <<>>
    /\ image.addrs[top.inode][1] \in Blocks
    /\ block_at <= Len(content) /\ content[block_at] \in Blocks

Entry == image.entries[content[block_at]][((top.next - 1) % DIRENTS) + 1]

Follows_Root(entry) == entry.inum > 0   \* fault: goes into the root again

\* Free entries, and those for the root directory, are passed over.
Follows(entry) == entry.inum > 1

\* An entry that is passed over, or a file or device (whose name is printed).
WalkOver ==
    /\ AtEntry
    /\ Follows(Entry) =>
           Entry.inum \in Inodes /\ image.type[Entry.inum] \notin {0, 1}
    /\ stack' = Advanced
    /\ UNCHANGED <<image, check, i, buf, address_count, messages,
                   status>>

\* A directory: the function calls itself.
WalkInto ==
    /\ AtEntry /\ Follows(Entry)
    /\ Entry.inum \in Inodes /\ image.type[Entry.inum] = Directory
    /\ IF Len(stack) = MaxDepth
       THEN Stop("overflow") /\ UNCHANGED stack
       ELSE /\ stack' = Append(Advanced, [inode |-> Entry.inum, next |-> 1])
            /\ UNCHANGED <<i, status>>
    /\ UNCHANGED <<image, check, buf, address_count, messages>>

\* An inode that is free: reported, and on.
WalkReport ==
    /\ AtEntry /\ Follows(Entry)
    /\ Entry.inum \in Inodes /\ image.type[Entry.inum] = 0
    /\ messages' = messages + 1
    /\ stack' = Advanced
    /\ UNCHANGED <<image, check, i, buf, address_count, status>>

\* An inode number beyond the table: some other block is read as an inode.
WalkBeyond ==
    /\ AtEntry /\ Follows(Entry) /\ Entry.inum \notin Inodes
    /\ Stop("undefined")
    /\ UNCHANGED <<image, check, buf, address_count, stack, messages>>

\* The last entry is done: back to the caller, or to main.
WalkReturn ==
    /\ Walking /\ stack # <<>>
    /\ image.addrs[top.inode][1] \in Blocks
    /\ block_at > Len(content) /\ ~Unreadable(top.inode)
    /\ stack' = Front(stack)
    /\ status' = IF Len(stack) = 1 THEN "ok" ELSE status
    /\ UNCHANGED <<image, check, i, buf, address_count, messages>>

Next ==
    \/ inode_detect_1 \/ inodeaddr_detect_2 \/ root_check_3 \/ directory_check_4
    \/ bitmap_check_5 \/ bitmap_check_6 \/ bitmap_check_6_end
    \/ address_check_7_8 \/ Return
    \/ WalkOutside \/ WalkOver \/ WalkInto \/ WalkReport \/ WalkBeyond
    \/ WalkReturn

Spec == Init /\ [][Next]_vars

-----------------------------------------------------------------------------
(* Properties.                                                             *)

\* The types; in particular no block is ever counted twice, so an address has
\* count 1 or 2 and that tells direct from indirect ones.
TypeOK ==
    /\ check \in Checks /\ i \in 1 .. ninodes + 1
    /\ buf \subseteq image.bitmap
    /\ address_count \in [Blocks -> 0 .. 2]
    /\ Len(stack) <= MaxDepth
    /\ messages \in Nat
    /\ status \in {"running", "ok", "error", "overflow", "undefined"}

\* Images as the operating system leaves them, apart from what is checked: a
\* free inode has no content, the first two entries of a directory's first
\* block, and no others of it, are called . and .., and beside data blocks the
\* bitmap marks those up to its own and no others.
Standard ==
    /\ \A n \in Inodes : image.type[n] = 0 => image.size[n] = 0
    /\ \A n \in Inodes : image.type[n] = Directory =>
           /\ image.addrs[n][1] \in Blocks
           /\ \A k \in 1 .. DIRENTS :
                  /\ FirstBlock(image, n)[k].name = "." <=> k = 1
                  /\ FirstBlock(image, n)[k].name = ".." <=> k = 2
    /\ image.bitmap \ DataBlocks = 0 .. bmapstart

\* The rule a function is there to check, as far as it does: root_check_3
\* leaves it to the other checks that the root is a directory and what its
\* entries are called.
Rule(number) ==
    CASE number = 1 -> Rule1(image)
      [] number = 2 -> Rule2(image)
      [] number = 3 -> image.type[1] = Directory /\ Standard => Rule3(image)
      [] number = 4 -> Rule4(image)
      [] number = 6 -> Rule6(image)
      [] number = 7 -> Rule7(image)

\* No address in use is so large that the number of its byte wraps.
NoneWraps == \A address \in Used(image) : address < 8 * (USHRT_MAX + 1)

\* A function that returns has been given an image that obeys its rule; and
\* bitmap_check_5, which exits in no case, has reported something if and only
\* if an address in use is not marked.  The two that look at the bitmap take
\* an address that wraps for a smaller one: they would let an address 2^19 + x
\* pass for x.
AcceptsOnlyGood ==
    status = "ok" =>
        /\ check \notin {5, 6, 9} => Rule(check)
        /\ check = 6 /\ NoneWraps => Rule(check)
        /\ check = 5 /\ NoneWraps => (messages = 0 <=> Rule5(image))

\* A function that exits has been given an image that breaks its rule, if
\* the image is a standard one, and its addresses are valid for the functions
\* that come after the check of these.
RejectsOnlyBad ==
    status = "error" /\ Standard /\ (check > 2 => Rule2(image)) =>
        IF check = 3 THEN ~Rule3(image) ELSE ~Rule(check)

\* No function reads or writes outside the image, the table of inodes, the
\* block of the bitmap or the counts, if the image is a standard one with a
\* root directory, no file has more blocks than an inode and an indirect block
\* have addresses for, and the image obeys the rules the function relies on:
\* those that look at what an address leads to need valid addresses (Rule2),
\* and the walk needs entries that name inodes (Rule10).
StaysInside ==
    /\ Standard /\ image.type[1] = Directory
    /\ \A inode \in Inodes :
           BlockNum(image.size[inode]) <= NDIRECT + NINDIRECT
    /\ check > 4 => Rule2(image)
    /\ check = 9 => Rule10(image)
    => status # "undefined"

\* inode_check_9 reports something if and only if a directory it can reach
\* refers to a free inode, and gets back to main if and only if no directory
\* it can reach leads to itself.
WalkIsComplete ==
    LET reached == ReachedFrom(image, {1})
        loops == {d \in reached \ {1} : LeadsToItself(image, d)}
    IN  check = 9 =>
            /\ status = "ok" =>
                   /\ loops = {}
                   /\ messages > 0 <=>
                          \E d \in reached : \E n \in RefersTo(image, d) :
                              n > 1 /\ image.type[n] = 0
            /\ status = "overflow" => loops # {}

Consistent ==
    /\ Standard
    /\ Rule1(image) /\ Rule2(image) /\ Rule3(image) /\ Rule4(image)
    /\ Rule5(image) /\ Rule6(image) /\ Rule7(image) /\ Rule10(image)

\* A consistent image does not make the checker crash.  (README.md:106: "If
\* the checker detects none of the problems listed above, it should exit with
\* return code of 0".)
ConsistentImageIsAccepted == Consistent => status # "overflow"
=============================================================================
