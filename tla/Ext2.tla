-------------------------------- MODULE Ext2 --------------------------------
(***************************************************************************)
(* The commands of CSC369/ext2 File System (ext2_cp.c, ext2_ln.c,          *)
(* ext2_rm.c, ext2_mkdir.c) on one image, over the operations of           *)
(* ext2_shared.c.                                                          *)
(*                                                                         *)
(* A command is a process that runs alone and to its end, so it is one     *)
(* step; but it may end early.  setUp copies the group descriptor and both *)
(* bitmaps, and cleanUp writes the copies back at the very end; the        *)
(* superblock is mapped and inodes and blocks are written at once.  An     *)
(* exit in between loses the former and keeps the latter.                  *)
(*                                                                         *)
(* A directory block is the sequence of the entries a walk along rec_len   *)
(* passes; the bytes behind an entry are not kept.  Files are whole blocks *)
(* of zero bytes.  Fresh memory and never used blocks hold zeros, and the  *)
(* free blocks of an image come behind all others, without a gap, as in    *)
(* images/emptydisk.img: the root's is 9, and 23 .. 127 are free.          *)
(* lost+found and paths that spell out "." or ".." are left out.           *)
(***************************************************************************)
EXTENDS Integers, FiniteSets, Sequences, SequencesExt

CONSTANTS
    Name,           \* names given to commands
    BeginsWith,     \* pairs <<n, m>> of names: n begins with m
    NameLen,        \* length of each name
    Inode, Block,   \* numbers of the root and of all free inodes and blocks
    INODES,         \* bits of the inode bitmap that are looked at (32)
    BLOCKS,         \* bits of the block bitmap that are looked at (128)
    ROOT,           \* EXT2_ROOT_INO
    ROOT_BLOCK,     \* the block of the root directory
    BLOCK_SIZE,     \* EXT2_BLOCK_SIZE (1024), for directory blocks
    ADDRS,          \* block numbers in an indirect block (256)
    NDIRECT,        \* direct blocks of an inode (12)
    SB_MOD,         \* 2^32, the range of the superblock's counters; no run
                    \* is so long that the group's counts, which grow, reach it
    FileBlocks,     \* BOUND: sizes of native files, in blocks
    MaxCommands     \* BOUND: commands run

ASSUME Ext2Assumption ==
    /\ IsFiniteSet(Name) /\ BeginsWith \subseteq Name \X Name
    /\ \A n \in Name : <<n, n>> \in BeginsWith
    /\ NameLen \in [Name -> Nat \ {0}] /\ {"", ".", ".."} \cap Name = {}
    /\ Inode \subseteq 1 .. INODES /\ ROOT \in Inode /\ \A i \in Inode \ {ROOT} : 8 * (i + 1) >= INODES
    /\ Block \subseteq 1 .. BLOCKS /\ ROOT_BLOCK \in Block
    /\ \A b \in Block \ {ROOT_BLOCK} : b > ROOT_BLOCK /\ 8 * (b + 1) >= BLOCKS
    /\ \A a, b \in Block \ {ROOT_BLOCK} : a .. b \subseteq Block
    /\ INODES \in Nat /\ BLOCKS \in Nat
    /\ ADDRS \in Nat \ {0} /\ NDIRECT \in Nat \ {0}
    /\ BLOCK_SIZE \in Nat /\ BLOCK_SIZE >= 24 /\ \A n \in Name : BLOCK_SIZE >= NameLen[n] + 12
    /\ FileBlocks \subseteq 0 .. NDIRECT + 3 /\ MaxCommands \in Nat
    /\ SB_MOD \in Nat /\ SB_MOD > BLOCKS + INODES + MaxCommands * (NDIRECT + ADDRS)

VARIABLES
    bitmap,         \* bitmap.b, bitmap.i: numbers whose bit is set on the image
    gd,             \* bg_free_blocks_count and bg_free_inodes_count
    dirs,           \* bg_used_dirs_count
    sb,             \* s_free_blocks_count and s_free_inodes_count
    inode,          \* the inode table; block is the used part of i_block
    entries,        \* entries[b]: the entries in block b
    words,          \* words[b]: the block numbers in block b, if it is indirect
    exit,           \* how the last command ended
    commands,       \* how many have run
    outOfSpace,     \* history: a command exited with ENOSPC
    lostFolder      \* history: a file that was used as a directory was removed

imageVars == <<bitmap, gd, dirs, sb, inode, entries, words>>
vars      == <<imageVars, exit, commands, outOfSpace, lostFolder>>

NoInode == [type |-> "none", links |-> 0, block |-> <<>>]

(* The 8 bytes before the name, and the name padded by 1 to 4 bytes.         *)
Need(name) ==
    LET len == CASE name = "" -> 0 [] name = "." -> 1 [] name = ".." -> 2
                 [] OTHER -> NameLen[name]
    IN  8 + len + (4 - (len % 4))

Init ==
    /\ bitmap = [b |-> {ROOT_BLOCK}, i |-> {ROOT}]
    /\ gd = [b |-> Cardinality(Block) - 1, i |-> Cardinality(Inode) - 1]
    /\ sb = gd
    /\ dirs = 1
    /\ inode = [i \in Inode |-> IF i = ROOT THEN [type |-> "dir", links |-> 2, block |-> <<ROOT_BLOCK>>]
                                            ELSE NoInode]
    /\ entries = [b \in Block |->
          IF b # ROOT_BLOCK THEN <<>>
          ELSE << [name |-> ".",  inode |-> ROOT, type |-> "dir", rec |-> Need(".")],
                  [name |-> "..", inode |-> ROOT, type |-> "dir", rec |-> BLOCK_SIZE - Need(".")] >>]
    /\ words = [b \in Block |-> <<>>]
    /\ exit = "ok" /\ commands = 0
    /\ outOfSpace = FALSE /\ lostFolder = FALSE

-----------------------------------------------------------------------------
(* What a command holds while it runs: its copies, the image, dir - the      *)
(* inode it works on, got - the number it reserved last, at - a place in a   *)
(* directory; ok is FALSE once it has called exit(ENOSPC).                   *)

setUp ==
    [bitmap |-> bitmap, gd |-> gd, dirs |-> dirs, sb |-> sb, inode |-> inode,
     entries |-> entries, words |-> words,
     dir |-> NoInode, got |-> 0, at |-> <<0, 0>>, ok |-> TRUE]

\* Mutant: a command that exits has written the group descriptor back.
cleanUpEarly(p) ==
    /\ sb' = p.sb /\ inode' = p.inode /\ entries' = p.entries /\ words' = p.words
    /\ outOfSpace' = (outOfSpace \/ ~p.ok)
    /\ gd' = p.gd /\ dirs' = p.dirs
    /\ IF p.ok THEN bitmap' = p.bitmap /\ exit' = "ok"
       ELSE exit' = "ENOSPC" /\ UNCHANGED bitmap

(* The command returns from main after cleanUp, or has exited before.        *)
cleanUp(p) ==
    /\ sb' = p.sb /\ inode' = p.inode /\ entries' = p.entries /\ words' = p.words
    /\ outOfSpace' = (outOfSpace \/ ~p.ok)
    /\ IF p.ok
       THEN bitmap' = p.bitmap /\ gd' = p.gd /\ dirs' = p.dirs /\ exit' = "ok"
       ELSE exit' = "ENOSPC" /\ UNCHANGED <<bitmap, gd, dirs>>

(* The first clear bit; mode is "b" or "i".  A count of 0 wraps around.      *)
reserve(p, mode) ==
    LET free == (IF mode = "b" THEN Block ELSE Inode) \ p.bitmap[mode]
        n    == CHOOSE x \in free : \A y \in free : x <= y
    IN  IF p.ok /\ free # {}
        THEN [p EXCEPT !.bitmap[mode] = @ \cup {n}, !.gd[mode] = @ - 1,
                       !.sb[mode] = (@ - 1) % SB_MOD, !.got = n]
        ELSE [p EXCEPT !.ok = FALSE]

\* Mutant: the byte that holds the bit is cleared.
clear_own_byte(p, n, mode) ==
    [p EXCEPT !.bitmap[mode] = {m \in @ : (m - 1) \div 8 # (n - 1) \div 8},
              !.gd[mode] = @ + 1, !.sb[mode] = (@ + 1) % SB_MOD]

(* Clears byte n + 1 of the bitmap, where bit n - 1 stands for number n.     *)
clear_bit(p, n, mode) ==
    [p EXCEPT !.bitmap[mode] = {m \in @ : (m - 1) \div 8 # n + 1},
              !.gd[mode] = @ + 1, !.sb[mode] = (@ + 1) % SB_MOD]

write_inode(p, n, node) == IF p.ok THEN [p EXCEPT !.inode[n] = node] ELSE p

init_inode(p) == LET q == reserve(p, "i") IN write_inode(q, q.got, q.dir)

zero_block(p, b) == [p EXCEPT !.entries[b] = <<>>, !.words[b] = <<>>]

(* The indirect block is reserved when it is first needed, and not cleared.  *)
allocate_to_ind_block(p, b) ==
    LET q   == IF Len(p.dir.block) > NDIRECT THEN [p EXCEPT !.got = p.dir.block[NDIRECT + 1]]
                                             ELSE reserve(p, "b")
    IN  IF q.ok THEN [q EXCEPT !.words[q.got] = Append(@, b)] ELSE q

(* One more block of the file whose inode is p.dir.                          *)
write_file_block(p) ==
    LET q == reserve(p, "b")
        r == IF q.ok /\ Len(p.dir.block) >= NDIRECT THEN allocate_to_ind_block(q, q.got) ELSE q
    IN  IF r.ok THEN zero_block([r EXCEPT !.dir.block = Append(@, r.got)], q.got) ELSE r

write_file(p, size) ==
    LET upTo[k \in 0 .. size] == IF k = 0 THEN p ELSE write_file_block(upTo[k - 1])
    IN  upTo[size]

-----------------------------------------------------------------------------
(* Directories.                                                              *)

(* The entries met in the blocks of an inode, in order.                      *)
Entries(node) == FlattenSeq([j \in 1 .. Len(node.block) |-> entries[node.block[j]]])

NoEntry == [name |-> "", inode |-> 0, type |-> "none", rec |-> 0]

Matches(e, name) == <<e.name, name>> \in BeginsWith

(* The first entry of a block whose name begins with the name looked for,    *)
(* and the first place in i_block whose block has one; 0 if there is none.   *)
hit(table, b, name) == SelectInSeq(table[b], LAMBDA e : Matches(e, name))

hit_block(table, node, name) == SelectInSeq(node.block, LAMBDA b : hit(table, b, name) # 0)

walk_one(n, name) ==
    LET j == hit_block(entries, inode[n], name)
        b == inode[n].block[j]
    IN  IF j = 0 THEN NoEntry ELSE entries[b][hit(entries, b, name)]

(* A path of at most two names.  A first name that does not exist is noticed *)
(* only if it is the last; else its NULL is followed.                        *)
full_walk(path) ==
    LET first == walk_one(ROOT, path[1])
    IN  IF path = <<>> THEN [NoEntry EXCEPT !.inode = ROOT, !.type = "dir"]
        ELSE IF Len(path) = 1 THEN first
        ELSE IF first = NoEntry THEN [NoEntry EXCEPT !.name = "crash"]
        ELSE walk_one(first.inode, path[2])

(* The first entry of the block that leaves size bytes behind it, or 0.      *)
dir_block_offset(p, b, size) ==
    SelectInSeq(p.entries[b], LAMBDA e : e.rec - Need(e.name) >= size)

(* The first place in i_block whose block has such an entry, or 0.           *)
spot_block(p, size) == SelectInSeq(p.dir.block, LAMBDA b : dir_block_offset(p, b, size) # 0)

empty_dir_spot(p, size) ==
    LET blocks == p.dir.block
        j == spot_block(p, size)
        q == reserve(p, "b")
    IN  IF ~p.ok THEN p
        ELSE IF j \in 1 .. NDIRECT THEN
                [p EXCEPT !.at = <<blocks[j], dir_block_offset(p, blocks[j], size)>>]
        ELSE IF Len(blocks) >= NDIRECT THEN [p EXCEPT !.ok = FALSE]
        ELSE IF ~q.ok THEN q
        ELSE [q EXCEPT !.dir.block = Append(@, q.got), !.at = <<q.got, 1>>]

(* Two block numbers that a failed copy left read as a nameless entry: the   *)
(* second one is its rec_len, and its name_len is 0.                         *)
first_entries(p, b) ==
    IF Len(p.words[b]) < 2 THEN p.entries[b]
    ELSE <<[name |-> "", inode |-> p.words[b][1], type |-> "none", rec |-> p.words[b][2]]>>

(* The entry before the spot, the k-th, keeps what it needs and the new one   *)
(* gets the rest: all of the block if that starts with zeros.  An entry of   *)
(* no length ends the walk over its block.                                   *)
with_entry(old, k, name, type, n) ==
    LET new(rec) == [name |-> name, inode |-> n, type |-> type, rec |-> rec]
        rest == old[k].rec - Need(old[k].name)
        cut  == [old EXCEPT ![k].rec = Need(old[k].name)]
    IN  IF old = <<>> THEN <<new(BLOCK_SIZE)>>
        ELSE IF rest = 0 THEN SubSeq(cut, 1, k)
        ELSE InsertAt(cut, k + 1, new(rest))

(* The entry "." starts its block anew.                                      *)
new_dir_entry(p, name, type, n) ==
    LET b   == p.at[1]
        old == IF name = "." THEN <<>> ELSE first_entries(p, b)
    IN  IF ~p.ok THEN p
        ELSE [p EXCEPT !.dirs = @ + 1, !.words[b] = <<>>,
                       !.entries[b] = with_entry(old, p.at[2], name, type, n)]

\* Mutant: the entry before takes over what the name needed.
dir_rm_spot_needed(p, node, name) ==
    LET b   == node.block[hit_block(p.entries, node, name)]
        k   == hit(p.entries, b, name)
        old == p.entries[b]
    IN  [p EXCEPT !.entries[b] =
            IF k = 1 THEN [old EXCEPT ![1].name = "", ![1].inode = 0, ![1].type = "none"]
                     ELSE RemoveAt([old EXCEPT ![k - 1].rec = @ + Need(old[k].name)], k)]

\* Mutant: removing the first entry empties its block.
dir_rm_block(p, node, name) ==
    LET b   == node.block[hit_block(p.entries, node, name)]
        k   == hit(p.entries, b, name)
        old == p.entries[b]
    IN  [p EXCEPT !.entries[b] =
            IF k = 1 THEN <<>> ELSE RemoveAt([old EXCEPT ![k - 1].rec = @ + old[k].rec], k)]

(* The entry that walk_one finds: the one before it takes over its length,   *)
(* or, if it is the first of its block, it stays as a blank one.             *)
dir_rm_spot(p, node, name) ==
    LET b   == node.block[hit_block(p.entries, node, name)]
        k   == hit(p.entries, b, name)
        old == p.entries[b]
    IN  [p EXCEPT !.entries[b] =
            IF k = 1 THEN [old EXCEPT ![1].name = "", ![1].inode = 0, ![1].type = "none"]
                     ELSE RemoveAt([old EXCEPT ![k - 1].rec = @ + old[k].rec], k)]

-----------------------------------------------------------------------------
(* Giving blocks and inodes back.                                            *)

clear_block(p, b) == clear_bit(zero_block(p, b), b, "b")

clear_inode(p, n) == clear_bit([p EXCEPT !.inode[n] = NoInode], n, "i")

(* The first four bytes of a block, read as a block number.                  *)
first_word(p, b) ==
    IF b \notin Block THEN 0
    ELSE IF p.entries[b] # <<>> THEN p.entries[b][1].inode
    ELSE IF p.words[b] # <<>> THEN p.words[b][1]
    ELSE 0

(* The first n of some blocks.                                               *)
clear_direct(p, blocks, n) ==
    LET upTo[j \in 0 .. n] == IF j = 0 THEN p ELSE clear_block(upTo[j - 1], blocks[j])
    IN  upTo[n]

(* What the indirect block lists: s.b is the number read last.  Clearing a   *)
(* block moves the file position to the block behind it, and the next number *)
(* is read from there, until one is 0 or ADDRS - 1 of them were read.        *)
clear_next(s) ==
    LET r == clear_block(s.p, s.b)
    IN  IF s.b = 0 THEN s ELSE [p |-> r, b |-> first_word(r, s.b + 1)]

clear_listed(p, ind) ==
    LET upTo[k \in 0 .. ADDRS - 1] ==
            IF k = 0 THEN [p |-> p, b |-> first_word(p, ind)] ELSE clear_next(upTo[k - 1])
    IN  upTo[ADDRS - 1].p

clear_all(p, node) ==
    LET ind == node.block[NDIRECT + 1]
    IN  IF Len(node.block) <= NDIRECT THEN clear_direct(p, node.block, Len(node.block))
        ELSE clear_block(clear_listed(clear_direct(p, node.block, NDIRECT), ind), ind)

-----------------------------------------------------------------------------
(* The commands.  Paths are sequences of names; a name is the last part.     *)

Path == {<<>>} \cup {<<n>> : n \in Name} \cup {<<n, m>> : n \in Name, m \in Name}
Dir  == {<<>>} \cup {<<n>> : n \in Name}

(* An early return or a crash, before anything was written.                  *)
Fail(code) == exit' = code /\ UNCHANGED <<imageVars, outOfSpace, lostFolder>>

Found(e) == e.inode # 0

(* Nothing checks that target is a directory or that the name is new in it.  *)
Cp(path, name, size) ==
    LET target == full_walk(path)
        data   == write_file([setUp EXCEPT !.dir = [type |-> "file", links |-> 1, block |-> <<>>]], size)
        made   == init_inode(data)
        spot   == empty_dir_spot([made EXCEPT !.dir = made.inode[target.inode]], Need(name))
        named  == new_dir_entry(spot, name, "file", made.got)
    IN  IF Found(target)
        THEN /\ cleanUp(write_inode(named, target.inode, named.dir))
             /\ UNCHANGED lostFolder
        ELSE Fail(IF target.name = "crash" THEN "crash" ELSE "ENOENT")

\* Mutant: the new link is not counted.
LnUncounted(source, path, name) ==
    LET file   == full_walk(source)
        parent == full_walk(path)
        link   == walk_one(parent.inode, name)
        spot   == empty_dir_spot([setUp EXCEPT !.dir = inode[parent.inode]], Need(name))
        named  == new_dir_entry(spot, name, "file", file.inode)
    IN  IF file.name = "crash" THEN Fail("crash")
        ELSE IF ~Found(file) THEN Fail("ENOENT")
        ELSE IF ~Found(parent) THEN Fail("crash")
        ELSE IF Found(link) THEN Fail(IF link.type = "dir" THEN "EISDIR" ELSE "EEXIST")
        ELSE IF file.type = "dir" THEN Fail("EISDIR")
        ELSE /\ cleanUp(write_inode(named, parent.inode, named.dir))
             /\ UNCHANGED lostFolder

Ln(source, path, name) ==
    LET file   == full_walk(source)
        parent == full_walk(path)
        link   == walk_one(parent.inode, name)
        spot   == empty_dir_spot([setUp EXCEPT !.dir = inode[parent.inode]], Need(name))
        named  == new_dir_entry(spot, name, "file", file.inode)
        linked == write_inode(named, parent.inode, named.dir)
        node   == linked.inode[file.inode]
    IN  IF file.name = "crash" THEN Fail("crash")
        ELSE IF ~Found(file) THEN Fail("ENOENT")
        ELSE IF ~Found(parent) THEN Fail("crash")
        ELSE IF Found(link) THEN Fail(IF link.type = "dir" THEN "EISDIR" ELSE "EEXIST")
        ELSE IF file.type = "dir" THEN Fail("EISDIR")
        ELSE /\ cleanUp(write_inode(linked, file.inode, [node EXCEPT !.links = @ + 1]))
             /\ UNCHANGED lostFolder

\* Mutant: a file whose last name is removed is kept, one link below it.
RmOneLate(path, name) ==
    LET parent == full_walk(path)
        file   == walk_one(parent.inode, name)
        gone   == dir_rm_spot(setUp, inode[parent.inode], name)
        node   == [gone.inode[file.inode] EXCEPT !.links = @ - 2]
    IN  IF ~Found(parent) THEN Fail("crash")
        ELSE IF ~Found(file) THEN Fail("ENOENT")
        ELSE IF file.type = "dir" THEN Fail("EISDIR")
        ELSE /\ cleanUp(write_inode(gone, file.inode, node))
             /\ UNCHANGED lostFolder

(* Removes the first entry that begins with the name.                        *)
Rm(path, name) ==
    LET parent == full_walk(path)
        file   == walk_one(parent.inode, name)
        gone   == dir_rm_spot(setUp, inode[parent.inode], name)
        node   == [gone.inode[file.inode] EXCEPT !.links = @ - 1]
        last   == node.links < 1
    IN  IF ~Found(parent) THEN Fail("crash")
        ELSE IF ~Found(file) THEN Fail("ENOENT")
        ELSE IF file.type = "dir" THEN Fail("EISDIR")
        ELSE
             /\ cleanUp(IF last THEN clear_inode(clear_all(gone, node), file.inode)
                                ELSE write_inode(gone, file.inode, node))
             /\ lostFolder' = (lostFolder \/ (last /\ \E j \in DOMAIN node.block : entries[node.block[j]] # <<>>))

\* Mutant: the parent's entry is written before the new directory's block.
MkdirParentFirst(path, name) ==
    LET parent == full_walk(path)
        num    == reserve(setUp, "i")
        spot   == empty_dir_spot([num EXCEPT !.dir = inode[parent.inode]], Need(name))
        named  == new_dir_entry(spot, name, "dir", num.got)
        linked == write_inode(named, parent.inode, [named.dir EXCEPT !.links = @ + 1])
        fresh  == [linked EXCEPT !.dir = [type |-> "dir", links |-> 2, block |-> <<>>]]
        self   == new_dir_entry(empty_dir_spot(fresh, Need(".")), ".", "dir", num.got)
        up     == new_dir_entry(empty_dir_spot(self, Need("..")), "..", "dir", parent.inode)
    IN  IF ~Found(parent) THEN Fail("ENOENT")
        ELSE IF Found(walk_one(parent.inode, name)) THEN Fail("EEXIST")
        ELSE /\ cleanUp(write_inode(up, num.got, up.dir))
             /\ UNCHANGED lostFolder

Mkdir(path, name) ==
    LET parent == full_walk(path)
        num    == reserve(setUp, "i")
        fresh  == [num EXCEPT !.dir = [type |-> "dir", links |-> 2, block |-> <<>>]]
        self   == new_dir_entry(empty_dir_spot(fresh, Need(".")), ".", "dir", num.got)
        up     == new_dir_entry(empty_dir_spot(self, Need("..")), "..", "dir", parent.inode)
        spot   == empty_dir_spot([up EXCEPT !.dir = inode[parent.inode]], Need(name))
        named  == new_dir_entry(spot, name, "dir", num.got)
        linked == write_inode(named, parent.inode, [named.dir EXCEPT !.links = @ + 1])
    IN  IF ~Found(parent) THEN Fail("ENOENT")
        ELSE IF Found(walk_one(parent.inode, name)) THEN Fail("EEXIST")
        ELSE /\ cleanUp(write_inode(linked, num.got, up.dir))
             /\ UNCHANGED lostFolder

Command ==
    \/ \E path \in Path, name \in Name, size \in FileBlocks : Cp(path, name, size)
    \/ \E source \in Path, path \in Dir, name \in Name : Ln(source, path, name)
    \/ \E path \in Dir, name \in Name : Rm(path, name)
    \/ \E path \in Dir, name \in Name : Mkdir(path, name)

Next == commands < MaxCommands /\ Command /\ commands' = commands + 1

Spec == Init /\ [][Next]_vars
-----------------------------------------------------------------------------
(* Properties.                                                               *)

Live == bitmap.i        \* inodes whose bit is set; none is ever cleared

(* What an inode's blocks hold, without the blanks that removals leave.      *)
Named(s)   == SelectSeq(s, LAMBDA e : e.name # "")
Listing(i) == Named(Entries(inode[i]))
Visible    == [i \in Live |-> [k \in DOMAIN Listing(i) |-> <<Listing(i)[k].name, Listing(i)[k].inode>>]]

OneOff(s, t) == \E k \in DOMAIN t : s = RemoveAt(t, k)

IsIndirect(i) == Len(inode[i].block) > NDIRECT

(* Where block numbers are kept: <<inode, place in i_block>>; the places from *)
(* NDIRECT + 1 on all hold the indirect block.                               *)
Places(i) == 1 .. (IF IsIndirect(i) THEN NDIRECT + 1 ELSE Len(inode[i].block))

(* Types, and that the bitmaps always count the root as used.                *)
FsTypeOK ==
    /\ bitmap \in [b : SUBSET Block, i : SUBSET Inode]
    /\ ROOT \in bitmap.i /\ ROOT_BLOCK \in bitmap.b
    /\ gd \in [b : Nat, i : Nat] /\ sb \in [b : 0 .. SB_MOD - 1, i : 0 .. SB_MOD - 1]
    /\ dirs \in Nat
    /\ \A i \in Inode : /\ inode[i].type \in {"none", "file", "dir"} /\ inode[i].links \in Nat
                        /\ inode[i].block \in Seq(Block)
    /\ \A b \in Block : /\ words[b] \in Seq(Block)
                        /\ \A k \in DOMAIN entries[b] : entries[b][k].inode \in Inode \cup Block \cup {0}
    /\ exit \in {"ok", "ENOENT", "EEXIST", "EISDIR", "ENOSPC", "crash"}
    /\ commands \in 0 .. MaxCommands /\ outOfSpace \in BOOLEAN /\ lostFolder \in BOOLEAN

(* Every block an inode points to is marked as used and is in one place of    *)
(* one inode only, whatever failed before.  So are the blocks an indirect    *)
(* block lists, until a failed copy leaves its list in a block that is taken *)
(* again (write_file_block, allocate_to_ind_block, empty_dir_spot, clear_bit).*)
BlocksHaveOneOwner ==
    LET direct == {q \in Live \X (1 .. NDIRECT + 1) : q[2] \in Places(q[1])}
        listed == {q \in Live \X (1 .. ADDRS) :
                      IsIndirect(q[1]) /\ q[2] \in DOMAIN words[inode[q[1]].block[NDIRECT + 1]]}
        own    == {inode[q[1]].block[q[2]] : q \in direct}
        far    == {words[inode[q[1]].block[NDIRECT + 1]][q[2]] : q \in listed}
    IN  /\ own \subseteq bitmap.b /\ Cardinality(own) = Cardinality(direct)
        /\ ~outOfSpace => /\ far \subseteq bitmap.b \ own
                          /\ Cardinality(far) = Cardinality(listed)

(* Where the walk over a block is after its last entry.                       *)
Behind(s) ==
    LET upTo[k \in 0 .. Len(s)] == IF k = 0 THEN 0 ELSE upTo[k - 1] + s[k].rec
    IN  upTo[Len(s)]

(* The entries of a directory block fill it to its last byte, and none is    *)
(* shorter than its name needs: what new_dir_entry splits and rm_dir_entry   *)
(* joins never leaves a gap or an overlap.  A failed mkdir breaks it.        *)
DirBlocksFilled ==
    ~outOfSpace =>
        \A b \in Block : entries[b] # <<>> =>
            /\ Behind(entries[b]) = BLOCK_SIZE
            /\ \A k \in DOMAIN entries[b] : entries[b][k].rec >= Need(entries[b][k].name)

(* The places of the entries of all directories: inode, block, place.         *)
Slots == UNION {UNION {{<<i, b, k>> : k \in DOMAIN entries[b]} : b \in Range(inode[i].block)} : i \in Live}

(* The link count of an inode is the number of entries that name it, counted *)
(* over all directories: no file is freed while a name leads to it, and none *)
(* without a name stays.  Until a command runs out of space, or a file that  *)
(* was given as a directory takes the entries in it with it.                 *)
LinkCountsMatch ==
    ~outOfSpace /\ ~lostFolder =>
        \A n \in Live : inode[n].links =
            Cardinality({q \in Slots : entries[q[2]][q[3]].name # "" /\ entries[q[2]][q[3]].inode = n})

(* The free counts of the group are never below what the bitmaps leave free, *)
(* and until a command runs out of space the superblock agrees with them.    *)
FreeCountsNeverLow ==
    /\ gd.b >= Cardinality(Block \ bitmap.b) /\ gd.i >= Cardinality(Inode \ bitmap.i)
    /\ outOfSpace \/ sb = gd

(* A command adds or removes one entry of one inode; beyond it, it fills a   *)
(* new directory or empties an inode it frees.  (new_dir_entry, rm_dir_entry *)
(* rewrite the entry before; clear_all zeroes blocks.)                       *)
OneEntryChanges ==
    [][outOfSpace' \/ \E d \in Live : \A i \in Live :
          \/ Visible'[i] = Visible[i]
          \/ i = d /\ (OneOff(Visible[i], Visible'[i]) \/ OneOff(Visible'[i], Visible[i]))
          \/ inode'[i] = NoInode]_vars

(* A command that runs out of space half way changes no directory and no     *)
(* inode that is in use.                                                     *)
OutOfSpaceKeepsTree ==
    [][exit' = "ENOSPC" => Visible' = Visible /\ \A i \in Live : inode'[i] = inode[i]]_vars
=============================================================================
