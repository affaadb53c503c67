----------------------------- MODULE SfsBlocks -----------------------------
(***************************************************************************)
(* The blocks of regular files in the simple file system (lab8             *)
(* kern/fs/sfs/sfs_inode.c, bitmap.c): the block map of an inode with its  *)
(* direct entries and its indirect block, the free map, and the calls that *)
(* grow, shrink, read and write a file through descriptors with positions  *)
(* of their own (file.c).  The disk is a RAM disk that neither blocks nor  *)
(* fails, so a call is one step; what can fail is the allocation of a      *)
(* block.  Contents are not modelled.  A failing assertion is a panic:     *)
(* nothing runs after it.                                                  *)
(***************************************************************************)
EXTENDS Naturals, FiniteSets, FiniteSetsExt

CONSTANTS
    Regular,    \* regular files
    NoFile,     \* what a closed descriptor has open
    Desc,       \* descriptors, of one or of several processes
    Block,      \* numbers of the data blocks; block 0 is the super block
    BLKSIZE,    \* bytes in a block
    NDIRECT,    \* direct entries of an inode
    NENTRY,     \* entries of the indirect block
    MAX_FILE_SIZE

SfsBlocksAssumption ==
    /\ Block \subseteq Nat \ {0} /\ IsFiniteSet(Block)
    /\ {BLKSIZE, NDIRECT, NENTRY, MAX_FILE_SIZE} \subseteq Nat \ {0}
    \* the disk image is smaller than what an inode can map
    /\ Cardinality(Block) < NDIRECT + NENTRY

VARIABLES
    din,     \* the disk inode of each file: size, blocks, map, indirect
    free,    \* the blocks marked free in the free map
    unused,  \* super.unused_blocks
    open,    \* the file each descriptor has open, or NoFile
    pos,     \* its position
    sfs_panic    \* "none" or the assertion that failed

sfs_vars == <<din, free, unused, open, pos, sfs_panic>>

Index == 0 .. NDIRECT + NENTRY - 1
EmptyFile == [size |-> 0, blocks |-> 0, map |-> [i \in Index |-> 0], indirect |-> 0]

SfsInit ==
    /\ din = [f \in Regular |-> EmptyFile]
    /\ free = Block
    /\ unused = Cardinality(Block)
    /\ open = [d \in Desc |-> NoFile]
    /\ pos = [d \in Desc |-> 0]
    /\ sfs_panic = "none"

---------------------------------------------------------------------------
(* A call works on s: the inode, the free map and the count, and how it    *)
(* ends ("ok", "E_NO_MEM" or the assertion that failed).                   *)
State(f) == [din |-> din[f], free |-> free, unused |-> unused, ret |-> "ok"]

(* sfs_block_alloc, bitmap_alloc: the first free block.                    *)
BlockAlloc(s) == [s EXCEPT !.free = @ \ {Min(s.free)}, !.unused = @ - 1]

(* sfs_block_free, bitmap_free.                                            *)
BlockFree(s, b) == [s EXCEPT !.free = @ \cup {b}, !.unused = @ + 1]

(* sfs_bmap_get_nolock and sfs_bmap_get_sub_nolock with create, at the     *)
(* index just past the last block: the first indirect entry also takes the *)
(* indirect block, which is given back when no block is left for the entry.*)
BmapCreate(s, i) ==
    LET needs == IF i >= NDIRECT /\ s.din.indirect = 0 THEN 2 ELSE 1
        t == BlockAlloc(s)
    IN  IF Cardinality(s.free) < needs THEN [s EXCEPT !.ret = "E_NO_MEM"]
        ELSE IF needs = 1 THEN [t EXCEPT !.din.map[i] = Min(s.free)]
        ELSE [BlockAlloc(t) EXCEPT !.din.indirect = Min(s.free), !.din.map[i] = Min(t.free)]

(* sfs_bmap_load_nolock: assert(index <= din->blocks).                     *)
BmapLoad(s, i) ==
    IF s.ret # "ok" THEN s
    ELSE IF i > s.din.blocks THEN [s EXCEPT !.ret = "index"]
    ELSE IF i < s.din.blocks THEN s
    ELSE LET t == BmapCreate(s, i)
         IN  IF t.ret = "ok" THEN [t EXCEPT !.din.blocks = @ + 1] ELSE t

\* Mutant: the map keeps the entry of the block it freed.
BmapTruncateKeepsEntry(s, i) ==
    [BlockFree(s, s.din.map[i]) EXCEPT !.din.blocks = @ - 1]

(* sfs_bmap_truncate_nolock of the last block, number i; the indirect      *)
(* block stays.                                                            *)
BmapTruncate(s, i) ==
    [BlockFree(s, s.din.map[i]) EXCEPT !.din.map[i] = 0, !.din.blocks = @ - 1]

(* Blocks i .. j - 1 loaded in order, or i - 1, ..., j truncated.          *)
LoadBlocks(s, i, j) ==
    LET to[k \in i .. j] == IF k = i THEN s ELSE BmapLoad(to[k - 1], k - 1)
    IN  to[j]
TruncateBlocks(s, i, j) ==
    LET to[k \in j .. i] == IF k = i THEN s ELSE BmapTruncate(to[k + 1], k)
    IN  to[j]

RoundUp(n) == (n + BLKSIZE - 1) \div BLKSIZE

(* sfs_truncfile.  A growing file that runs out of blocks keeps the ones   *)
(* it got.                                                                 *)
TruncFile(s, len) ==
    LET tblks == RoundUp(len)
        nblks == s.din.blocks
        t == IF nblks < tblks THEN LoadBlocks(s, nblks, tblks) ELSE TruncateBlocks(s, nblks, tblks)
    IN  IF s.din.size = len
        THEN IF tblks = nblks THEN s ELSE [s EXCEPT !.ret = "truncate"]
        ELSE IF t.ret = "ok" THEN [t EXCEPT !.din.size = len] ELSE t

(* sfs_io_nolock, writing n bytes at p: the blocks from the first to the   *)
(* last, until one fails; the size grows by what was written.              *)
WriteEnd(s, p, n) ==
    LET end == Min({p + n, MAX_FILE_SIZE})
        t == LoadBlocks(s, p \div BLKSIZE, RoundUp(end))
        done == IF t.ret = "ok" THEN end ELSE Max({p, t.din.blocks * BLKSIZE})
    IN  [s |-> [t EXCEPT !.din.size = IF done > p /\ done > @ THEN done ELSE @], end |-> done]

---------------------------------------------------------------------------
(* The call on f ends in s: an assertion stops the kernel.                 *)
Finish(f, s) ==
    IF s.ret \in {"index", "truncate"}
    THEN sfs_panic' = s.ret /\ UNCHANGED <<din, free, unused>>
    ELSE /\ din' = [din EXCEPT ![f] = s.din]
         /\ free' = s.free
         /\ unused' = s.unused
         /\ UNCHANGED sfs_panic

(* file_open; vfs_open truncates for O_TRUNC and for O_CREAT.              *)
Open(d, f, trunc) ==
    LET s == IF trunc THEN TruncFile(State(f), 0) ELSE State(f)
    IN  /\ open[d] = NoFile
        /\ Finish(f, s)
        /\ open' = IF s.ret = "ok" THEN [open EXCEPT ![d] = f] ELSE open
        /\ UNCHANGED pos

Close(d) ==
    /\ open[d] # NoFile
    /\ open' = [open EXCEPT ![d] = NoFile]
    /\ pos' = [pos EXCEPT ![d] = 0]
    /\ UNCHANGED <<din, free, unused, sfs_panic>>

(* fork and dup: a descriptor for the same file at the same position.      *)
Dup(d, e) ==
    /\ open[d] # NoFile /\ open[e] = NoFile
    /\ open' = [open EXCEPT ![e] = open[d]]
    /\ pos' = [pos EXCEPT ![e] = pos[d]]
    /\ UNCHANGED <<din, free, unused, sfs_panic>>

\* Mutant: the position moves although the file could not grow.
SeekIgnoresError(d, p) ==
    LET f == open[d]
        s == IF p > din[f].size THEN TruncFile(State(f), p) ELSE State(f)
    IN  /\ f # NoFile
        /\ Finish(f, s)
        /\ pos' = [pos EXCEPT ![d] = p]
        /\ UNCHANGED open

(* file_seek, sfs_tryseek: a position past the end grows the file first.   *)
Seek(d, p) ==
    LET f == open[d]
        s == IF p > din[f].size THEN TruncFile(State(f), p) ELSE State(f)
    IN  /\ f # NoFile
        /\ Finish(f, s)
        /\ pos' = IF s.ret = "ok" THEN [pos EXCEPT ![d] = p] ELSE pos
        /\ UNCHANGED open

(* file_write, sfs_write.                                                  *)
Write(d, n) ==
    LET f == open[d]
        w == WriteEnd(State(f), pos[d], n)
    IN  /\ f # NoFile /\ pos[d] < MAX_FILE_SIZE
        /\ Finish(f, w.s)
        /\ pos' = IF w.s.ret = "index" THEN pos ELSE [pos EXCEPT ![d] = w.end]
        /\ UNCHANGED open

(* file_read, sfs_read: nothing past the end of the file.                  *)
Read(d, n) ==
    LET f == open[d]
        end == Min({pos[d] + n, din[f].size})
        s == LoadBlocks(State(f), pos[d] \div BLKSIZE, RoundUp(end))
    IN  /\ f # NoFile /\ pos[d] < din[f].size
        /\ Finish(f, s)
        /\ pos' = [pos EXCEPT ![d] = end]
        /\ UNCHANGED open

SfsNext ==
    /\ sfs_panic = "none"
    /\ \E d \in Desc :
        \/ \E f \in Regular, trunc \in BOOLEAN : Open(d, f, trunc)
        \/ Close(d)
        \/ \E e \in Desc : Dup(d, e)
        \/ \E p \in 0 .. MAX_FILE_SIZE - 1 : Seek(d, p)
        \/ \E n \in 1 .. MAX_FILE_SIZE : Write(d, n) \/ Read(d, n)

SfsSpec == SfsInit /\ [][SfsNext]_sfs_vars

---------------------------------------------------------------------------
(* The places that own a block: the entries of the maps, and (Indirect)   *)
(* the indirect blocks.                                                    *)
Indirect == NDIRECT + NENTRY
Owned(f, i) == IF i = Indirect THEN din[f].indirect ELSE din[f].map[i]
Slots == {x \in Regular \X (Index \cup {Indirect}) : Owned(x[1], x[2]) # 0}

(* Every block is free or belongs to one file in one place, and the super  *)
(* block counts the free ones: no block is lost, or shared by two files,   *)
(* whatever allocation failed (sfs_block_alloc, sfs_block_free).           *)
BlocksOwned ==
    /\ \A x, y \in Slots : x # y => Owned(x[1], x[2]) # Owned(y[1], y[2])
    /\ {Owned(x[1], x[2]) : x \in Slots} \cap free = {}
    /\ {Owned(x[1], x[2]) : x \in Slots} \cup free = Block
    /\ unused = Cardinality(free)

(* The map of a file has no holes, and reaches past its size.              *)
MapsDense == \A f \in Regular :
    /\ \A i \in Index : din[f].map[i] # 0 <=> i < din[f].blocks
    /\ din[f].size <= din[f].blocks * BLKSIZE
    /\ din[f].blocks > NDIRECT => din[f].indirect # 0

(* sfs_inode.c: every block is free or in one place of one file, and block *)
(* maps have no holes, whatever allocation failed.                         *)
BlocksInv == BlocksOwned /\ MapsDense

Fits(f) == din[f].blocks = RoundUp(din[f].size)
Beyond == {d \in Desc : open[d] # NoFile /\ pos[d] > din[open[d]].size}

(* Two assertions of the file system can fail: that a block to load is not *)
(* behind the one after the last (sfs_inode.c:356), and that a file of the *)
(* right size has the right number of blocks (:955).  They fail in these   *)
(* cases only: a write through a descriptor whose file was truncated by    *)
(* another open after it was positioned, or a change of size of a file     *)
(* that kept the blocks it got when the disk ran out.                      *)
AssertionsExplained == [][
    /\ sfs_panic' = "index" => Beyond # {}
    /\ sfs_panic' = "truncate" => \E f \in Regular : ~ Fits(f)
    /\ \A d \in Beyond' \ Beyond :
          \/ \E e \in Desc \ {d} : open[e] = NoFile /\ open'[e] = open[d] /\ din'[open[d]].size = 0
          \/ \E e \in Beyond : open'[d] = open[e] /\ pos'[d] = pos[e]
    /\ \A f \in Regular : Fits(f) /\ ~ Fits(f)' => Cardinality(free') < 2
  ]_sfs_vars
============================================================================
