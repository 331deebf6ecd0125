------------------------------- MODULE Ext2 -------------------------------
(***************************************************************************)
(* The ext2 driver (fs/ext2.c) and the descriptor calls that reach it      *)
(* through the VFS (fs/vfs.c, api/syscall.c).                              *)
(*                                                                         *)
(* A program's call runs with interrupts off, and what the shell itself    *)
(* does with files (cat, ls, cd) only reads, so writes do not interleave;  *)
(* what can happen in the middle of a call is a power failure. Each        *)
(* operation is therefore a function from the state it finds to a work     *)
(* record whose field w lists the disk after each of its writes, in the    *)
(* order of the code. A step applies all of them, or power fails after any *)
(* number of them and the machine mounts what is on the disk (Finish).     *)
(*                                                                         *)
(* Disk: block and inode bitmaps, the counts of the group descriptors and  *)
(* of the superblock, the inodes and the blocks.  A block is read as a     *)
(* table of pointers, a list of directory entries or data, whichever its   *)
(* reader takes it for.  Blocks that hold the bitmaps and the tables are   *)
(* left out (their bits never clear), sizes are in blocks, the record      *)
(* length of a directory entry is in units of the shortest entry.  What a  *)
(* free block or inode still holds is not kept: it is zeroed before use.   *)
(* Memory: the root node of the mount, the cache of directory nodes, the   *)
(* directory each process works in and the open files, each with its own   *)
(* copy of an inode.  fs->sb is flushed whenever it changes, so it is      *)
(* disk.sb.  Failures of kmalloc inside the driver are left out.           *)
(***************************************************************************)
EXTENDS Integers, Sequences, FiniteSets, SequencesExt, FiniteSetsExt, Functions

CONSTANTS Name,            \* names of files and directories
          Units,           \* Units[n]: record length a name needs
          DirUnits,        \* record lengths that fill a directory block
          NDIR, PPB,       \* direct pointers, pointers of a block
          BlocksCount, BlocksPerGroup, InodesPerGroup,
          CacheSize,       \* EXT2_NODE_CACHE_SIZE
          Value,           \* contents of a data block; 0 is a zeroed block
          Transfers,       \* writes a program makes: <<first block, number of blocks>>
          Fd, Proc,
          Paths,           \* paths below the mount point, as token sequences
          MaxTokens        \* tokens vfs_resolve_path keeps

ASSUME Ext2Assumption ==
  /\ {NDIR, PPB, BlocksPerGroup, InodesPerGroup, CacheSize, DirUnits} \subseteq Nat \ {0}
  /\ BlocksCount \in Nat \ {0}
  /\ {".", ".."} \cap Name = {} /\ 0 \in Value

VARIABLES disk, root, cache, cwd, fds, cause, ref

ext2Vars == <<disk, root, cache, cwd, fds, cause, ref>>

EXT2_ROOT_INO == 2
Outside == 0               \* a working directory on another file system
Freed == -1                \* a working directory whose node was freed

groups_count == (BlocksCount + BlocksPerGroup - 1) \div BlocksPerGroup
Group == 0..(groups_count - 1)
Block == 1..BlocksCount
Ino == 1..(groups_count * InodesPerGroup)
GroupOfBlock(b) == (b - 1) \div BlocksPerGroup
GroupOfInode(i) == (i - 1) \div InodesPerGroup
Slot(i) == i % CacheSize

NoInode == [mode |-> "none", links |-> 0, size |-> 0, ptr |-> [k \in 0..(NDIR + 2) |-> 0]]
NewInode(mode, links) == [NoInode EXCEPT !.mode = mode, !.links = links]
Zeroed == [tbl |-> [k \in 0..(PPB - 1) |-> 0], ents |-> <<>>, val |-> 0]
Entry(i, n, t, rec) == [ino |-> i, name |-> n, type |-> t, rec |-> rec]
NoNode == [ino |-> 0, in |-> NoInode]
NameUnits(n) == IF n \in Name THEN Units[n] ELSE 1

(***************************************************************************)
(* The disk, one write at a time.                                          *)
(***************************************************************************)
(* The work record of a call: the disk as the call sees it, the inode copy it *)
(* works on, what it does to the memory, the answer of the last allocation and *)
(* whether the last step succeeded, whether the disk was found full, and the   *)
(* disk after each write.                                                      *)
Begin(in) == [d |-> disk, in |-> in, cache |-> cache, gone |-> {}, cwd |-> cwd, fds |-> fds,
              ref |-> ref, why |-> {}, ret |-> 0, ok |-> TRUE, full |-> FALSE,
              written |-> 0, w |-> <<>>]

(* one write: s.d is what the disk is then *)
Logged(s) == [s EXCEPT !.w = Append(@, s.d)]
write_block(s, b, content) == Logged([s EXCEPT !.d.blk[b] = content])
write_inode(s, i, in) == Logged([s EXCEPT !.d.inode[i] = in])

(* n more free blocks in group g: the group descriptor, then the superblock *)
CountBlocks(s, g, n) ==
  Logged([Logged([s EXCEPT !.d.bfree[g] = @ + n]) EXCEPT !.d.sb.b = @ + n])

FreeIn(d, g) == {b \in Block \ d.bmap : GroupOfBlock(b) = g}

TakeBlock(s, g, b) ==
  [write_block(CountBlocks(Logged([s EXCEPT !.d.bmap = @ \cup {b}]), g, -1), b, Zeroed)
     EXCEPT !.ret = b]

(* the preferred group first; a group whose descriptor counts no free block *)
(* is not looked at                                                         *)
alloc_block(s, preferred) ==
  LET nth(k) == (preferred + k) % groups_count
      fit    == {k \in Group : s.d.bfree[nth(k)] # 0 /\ FreeIn(s.d, nth(k)) # {}}
  IN IF fit = {} THEN [s EXCEPT !.ret = 0, !.full = TRUE]
     ELSE TakeBlock(s, nth(Min(fit)), Min(FreeIn(s.d, nth(Min(fit)))))

free_block(s, b) ==
  CountBlocks(Logged([s EXCEPT !.d.bmap = @ \ {b}, !.d.blk[b] = Zeroed]), GroupOfBlock(b), 1)

(* n more free inodes, m more directories: both in the group descriptor *)
CountInodes(s, g, n, m) ==
  Logged([Logged([s EXCEPT !.d.ifree[g] = @ + n, !.d.dirs[g] = Max({0, @ + m})])
            EXCEPT !.d.sb.i = @ + n])

FreeInodes(d, g) == {i \in Ino \ d.imap : GroupOfInode(i) = g}

TakeInode(s, g, i, m) ==
  [write_inode(CountInodes(Logged([s EXCEPT !.d.imap = @ \cup {i}]), g, -1, m), i, NoInode)
     EXCEPT !.ret = i]

alloc_inode(s, is_dir) ==
  LET fit == {g \in Group : s.d.ifree[g] # 0 /\ FreeInodes(s.d, g) # {}}
  IN IF fit = {} THEN [s EXCEPT !.ret = 0]
     ELSE TakeInode(s, Min(fit), Min(FreeInodes(s.d, Min(fit))), IF is_dir THEN 1 ELSE 0)

free_inode(s, i, is_dir) ==
  CountInodes(Logged([s EXCEPT !.d.imap = @ \ {i}, !.d.inode[i] = NoInode]),
              GroupOfInode(i), 1, IF is_dir THEN -1 ELSE 0)

(***************************************************************************)
(* From logical blocks to disk blocks: direct pointers, then one, two and  *)
(* three levels of tables.  A path is the index into i_block and the index *)
(* into the table of each level.                                           *)
(***************************************************************************)
(* mutant: the third level is indexed like the second *)
BlockPath_OneLevelShort(n) ==
  LET m == n - NDIR  l == m - PPB  t == l - PPB * PPB
  IN IF m < 0 THEN <<n>>
     ELSE IF l < 0 THEN <<NDIR, m>>
     ELSE IF t < 0 THEN <<NDIR + 1, (l \div PPB) % PPB, 0>>
     ELSE <<NDIR + 2, t \div (PPB * PPB), (t \div PPB) % PPB, t % PPB>>

BlockPath(n) ==
  LET m == n - NDIR  l == m - PPB  t == l - PPB * PPB
  IN IF m < 0 THEN <<n>>
     ELSE IF l < 0 THEN <<NDIR, m>>
     ELSE IF t < 0 THEN <<NDIR + 1, l \div PPB, l % PPB>>
     ELSE <<NDIR + 2, t \div (PPB * PPB), (t \div PPB) % PPB, t % PPB>>

inode_get_block(d, in, n) ==
  LET path == BlockPath(n)
      at[k \in 1..Len(path)] == IF k = 1 THEN in.ptr[path[1]]
                                ELSE IF at[k - 1] = 0 THEN 0
                                ELSE d.blk[at[k - 1]].tbl[path[k]]
  IN at[Len(path)]

Failed(s) == [s EXCEPT !.ok = FALSE]

(* pointer k of a table is set, the table is written *)
Pointed(s, table, k, b) == write_block(s, table, [s.d.blk[table] EXCEPT !.tbl[k] = b])

NewTop(a, k) == IF a.ret = 0 THEN Failed(a) ELSE [a EXCEPT !.in.ptr[k] = a.ret]
NewTable(a, above, k) == IF a.ret = 0 THEN Failed(a) ELSE Pointed(a, above, k, a.ret)

(* the table in i_block[k], then the one that pointer k of the last table   *)
(* leads to; one that is missing is allocated and pointed to                *)
TopTable(s, k, preferred) ==
  IF s.in.ptr[k] # 0 THEN [s EXCEPT !.ret = s.in.ptr[k]] ELSE NewTop(alloc_block(s, preferred), k)
NextTable(s, k, preferred) ==
  IF ~s.ok THEN s
  ELSE IF s.d.blk[s.ret].tbl[k] # 0 THEN [s EXCEPT !.ret = s.d.blk[s.ret].tbl[k]]
  ELSE NewTable(alloc_block(s, preferred), s.ret, k)

SetLast(s, k, b) == IF s.ok THEN Pointed(s, s.ret, k, b) ELSE s

inode_set_block(s, n, b, preferred) ==
  LET path == BlockPath(n)
  IN IF Len(path) = 1 THEN [s EXCEPT !.in.ptr[n] = b]
     ELSE SetLast(FoldLeft(LAMBDA t, k : NextTable(t, k, preferred),
                           TopTable(s, path[1], preferred), SubSeq(path, 2, Len(path) - 1)),
                  Last(path), b)

(* bound: the logical blocks that can be written *)
FileBlocks == Max({t[1] + t[2] : t \in Transfers})

(* the blocks of an inode in the order they are freed: a table after the *)
(* blocks it points to                                                   *)
Blocks(d, in) ==
  LET below[level \in 0..3, b \in 0..BlocksCount] ==
        IF b = 0 THEN <<>>
        ELSE IF level = 0 THEN <<b>>
        ELSE FlattenSeq([k \in 1..PPB |-> below[level - 1, d.blk[b].tbl[k - 1]]]) \o <<b>>
  IN FlattenSeq([k \in 1..(NDIR + 3) |->
       below[IF k <= NDIR THEN 0 ELSE k - NDIR, in.ptr[k - 1]]])

inode_free_blocks(s, in) == FoldLeft(free_block, s, Blocks(s.d, in))

(***************************************************************************)
(* Directories.  s.in is the copy of the directory's inode in its node.    *)
(***************************************************************************)
Entries(d, in, n) ==
  LET b == inode_get_block(d, in, n) IN IF b = 0 THEN <<>> ELSE d.blk[b].ents

(* the used entries, in the order foreach_dirent visits them *)
Listed(d, in) ==
  SelectSeq(FlattenSeq([n \in 1..in.size |-> Entries(d, in, n - 1)]), LAMBDA e : e.ino # 0)

Found(d, in, name) == SelectSeq(Listed(d, in), LAMBDA e : e.name = name)

(* the entries of a directory, used or not: block and position *)
Places(s) ==
  {<<n, k>> \in (0..(s.in.size - 1)) \X (1..DirUnits) : k <= Len(Entries(s.d, s.in, n))}

EntryAt(s, p) == Entries(s.d, s.in, p[1])[p[2]]

FirstPlace(places) ==
  IF places = {} THEN <<>>
  ELSE CHOOSE p \in places : \A q \in places : p[1] < q[1] \/ (p[1] = q[1] /\ p[2] <= q[2])

(* a block of entries is written, then the directory's inode *)
PutEntries(s, dir, b, ents) ==
  write_inode(write_block(s, b, [Zeroed EXCEPT !.ents = ents]), dir, s.in)

(* an unused entry is taken as it is, the slack behind a used one becomes *)
(* an entry of its own                                                    *)
Inserted(ents, k, e) ==
  LET own == NameUnits(ents[k].name)
  IN IF ents[k].ino = 0 THEN [ents EXCEPT ![k] = [e EXCEPT !.rec = ents[k].rec]]
     ELSE InsertAt([ents EXCEPT ![k].rec = own], k + 1, [e EXCEPT !.rec = ents[k].rec - own])

WithBlock(s, dir, b, e) ==
  IF s.ok THEN PutEntries([s EXCEPT !.in.size = @ + 1], dir, b, <<[e EXCEPT !.rec = DirUnits]>>)
  ELSE free_block(s, b)

NewDirBlock(a, dir, e) ==
  IF a.ret = 0 THEN Failed(a)
  ELSE WithBlock(inode_set_block(a, a.in.size, a.ret, GroupOfInode(dir)), dir, a.ret, e)

AppendAt(s, dir, place, e) ==
  IF place = <<>> THEN NewDirBlock(alloc_block(s, GroupOfInode(dir)), dir, e)
  ELSE PutEntries(s, dir, inode_get_block(s.d, s.in, place[1]),
                  Inserted(Entries(s.d, s.in, place[1]), place[2], e))

(* what an entry has to spare *)
Slack(e) == IF e.ino = 0 THEN e.rec ELSE e.rec - NameUnits(e.name)

dir_append_entry(s, dir, i, name, type) ==
  AppendAt([s EXCEPT !.ok = TRUE], dir,
           FirstPlace({p \in Places(s) : Slack(EntryAt(s, p)) >= NameUnits(name)}),
           Entry(i, name, type, 0))

(* the entry before it takes over its record length; the first entry of a *)
(* block is only marked unused                                            *)
Removed(ents, k) ==
  IF k = 1 THEN [ents EXCEPT ![1].ino = 0]
  ELSE RemoveAt([ents EXCEPT ![k - 1].rec = @ + ents[k].rec], k)

RemoveFrom(s, dir, place) ==
  PutEntries(s, dir, inode_get_block(s.d, s.in, place[1]),
             Removed(Entries(s.d, s.in, place[1]), place[2]))

dir_remove_entry(s, dir, name) ==
  RemoveFrom(s, dir, FirstPlace({p \in Places(s) : LET e == EntryAt(s, p)
                                                   IN e.ino # 0 /\ e.name = name}))

dir_is_empty(d, in) == \A e \in Range(Listed(d, in)) : e.name \in {".", ".."}

(***************************************************************************)
(* Nodes.  Directories are kept in the cache, one per slot; the node that  *)
(* is in the way is freed whoever still uses it.  A file gets a node, and  *)
(* a copy of its inode, with every open.                                   *)
(***************************************************************************)
ext2_make_node(s, i) ==
  LET slot == Slot(i)
      old  == s.cache[slot].ino
  IN IF s.d.inode[i].mode # "dir" THEN s
     ELSE [s EXCEPT !.cache[slot] = [ino |-> i, in |-> s.d.inode[i]],
                    !.gone = IF old \in {0, i} THEN @ ELSE @ \cup {old}]

(* the node leaves the cache and is freed *)
DropNode(s, i) ==
  IF s.cache[Slot(i)].ino = i
  THEN [s EXCEPT !.cache[Slot(i)] = NoNode, !.gone = @ \cup {i}] ELSE s

NodeInode(c, i) == IF i = EXT2_ROOT_INO THEN root ELSE c[Slot(i)].in

(***************************************************************************)
(* The end of a call.  cause records what makes the exact properties below *)
(* stop holding: a power failure, a full disk, a directory that lost its   *)
(* only entry, a node freed while a process works in it, an open file      *)
(* whose inode changed behind the copy of its descriptor.  ref is what     *)
(* the files should be: it is kept while there is no cause.                *)
(***************************************************************************)
NoRef == [names |-> {}, data |-> [i \in Ino |-> [n \in 0..(FileBlocks - 1) |-> -1]]]
NoFile == [ino |-> 0, in |-> NoInode]

Stale(d, files) == \E f \in Fd : files[f].ino # 0 /\ files[f].in # d.inode[files[f].ino]

(* what the machine knows after ext2_mount of disk d *)
ext2_mount(d) ==
  /\ root' = d.inode[EXT2_ROOT_INO]
  /\ cache' = [k \in 0..(CacheSize - 1) |-> NoNode]
  /\ cwd' = [p \in Proc |-> Outside]
  /\ fds' = [f \in Fd |-> NoFile]

Completes(s, dir) ==
  LET c == s.cache[Slot(dir)].ino = dir
      freed == {p \in Proc : s.cwd[p] \in s.gone}
  IN /\ disk' = s.d
     /\ root' = IF dir = EXT2_ROOT_INO THEN s.in ELSE root
     /\ cache' = IF dir # 0 /\ c THEN [s.cache EXCEPT ![Slot(dir)].in = s.in] ELSE s.cache
     /\ cwd' = [p \in Proc |-> IF p \in freed THEN Freed ELSE s.cwd[p]]
     /\ fds' = s.fds
     /\ cause' = cause \cup s.why \cup (IF s.full THEN {"full"} ELSE {})
                       \cup (IF freed # {} THEN {"freed"} ELSE {})
                       \cup (IF Stale(s.d, s.fds) THEN {"stale"} ELSE {})
     /\ ref' = IF cause' = {} THEN s.ref ELSE NoRef

(* bound: power fails once, before anything else went wrong, and not in a *)
(* call that has freed the node it works on                                *)
PowerFails(s, dir) ==
  /\ cause = {} /\ dir \notin s.gone
  /\ \E k \in 1..Len(s.w) : disk' = s.w[k] /\ ext2_mount(s.w[k])
  /\ cause' = {"crash"}
  /\ ref' = NoRef

Finish(s, dir) == Completes(s, dir) \/ PowerFails(s, dir)

(***************************************************************************)
(* Calls on the directory a process works in: sys_create, sys_remove,      *)
(* sys_mkdir, sys_rmdir, sys_rename.  A call that returns -1 before it     *)
(* changes anything is left out.                                           *)
(***************************************************************************)
Dir(p) == cwd[p]
InDir(p) == Dir(p) \in Ino
Here(p) == Begin(NodeInode(cache, Dir(p)))
Lookup(s, name) == Found(s.d, s.in, name)

Named(s, dir, name, i) == [s EXCEPT !.ref.names = @ \cup {<<dir, name, i>>}]
Unnamed(s, dir, name) ==
  [s EXCEPT !.ref.names = {t \in @ : <<t[1], t[2]>> # <<dir, name>>}]

CreateEnd(s, dir, name, i) ==
  IF s.ok THEN Named([s EXCEPT !.ref.data[i] = NoRef.data[i]], dir, name, i)
  ELSE free_inode(s, i, FALSE)

Created(a, dir, name) ==
  IF a.ret = 0 THEN a
  ELSE CreateEnd(dir_append_entry(write_inode(a, a.ret, NewInode("reg", 1)), dir, a.ret, name, "reg"),
                 dir, name, a.ret)

ext2_create(p, name) ==
  /\ InDir(p) /\ Lookup(Here(p), name) = <<>>
  /\ Finish(Created(alloc_inode(Here(p), FALSE), Dir(p), name), Dir(p))

(* a directory is built, with its own two entries, before it is entered in *)
(* its parent; the results of the first two dir_append_entry are ignored   *)
OwnEntries(s, dir, i) ==
  dir_append_entry(dir_append_entry([s EXCEPT !.in = s.d.inode[i]], i, i, ".", "dir"),
                   i, dir, "..", "dir")
Released(s, i, parent) ==
  [write_inode(s, i, s.in) EXCEPT !.cache[Slot(i)] = NoNode, !.in = parent]

MkdirEnd(s, dir, name, i) ==
  IF s.ok THEN Named(write_inode([s EXCEPT !.in.links = @ + 1], dir,
                                 [s.in EXCEPT !.links = @ + 1]), dir, name, i)
  ELSE free_inode(s, i, TRUE)

MadeDir(a, dir, name) ==
  IF a.ret = 0 THEN a
  ELSE MkdirEnd(
         dir_append_entry(
           Released(OwnEntries(ext2_make_node(write_inode(a, a.ret, NewInode("dir", 2)), a.ret),
                               dir, a.ret), a.ret, a.in),
           dir, a.ret, name, "dir"),
         dir, name, a.ret)

ext2_mkdir(p, name) ==
  /\ InDir(p) /\ Lookup(Here(p), name) = <<>>
  /\ Finish(MadeDir(alloc_inode(Here(p), TRUE), Dir(p), name), Dir(p))

(* mutant: the inode is freed, but the blocks it points to stay marked used *)
DropInode_KeepsBlocks(s, i, in, is_dir) ==
  free_inode(write_inode(s, i, [in EXCEPT !.ptr = NoInode.ptr, !.links = 0]), i, is_dir)

(* the blocks go, then the inode *)
DropInode(s, i, in, is_dir) ==
  free_inode(write_inode(inode_free_blocks(s, in), i, [in EXCEPT !.ptr = NoInode.ptr, !.links = 0]),
             i, is_dir)

(* a link of inode i, as it is on the disk, is gone; a directory keeps the *)
(* one of its own entry and stays allocated                                *)
Unlinked(s, i, is_dir) ==
  LET in == s.d.inode[i]
      t  == IF in.mode = "dir" THEN [s EXCEPT !.why = {"orphan"}] ELSE s
  IN IF in.links > 1 THEN write_inode(t, i, [in EXCEPT !.links = @ - 1])
     ELSE DropInode(t, i, in, is_dir)

(* mutant: the inode is released first and its entry removed afterwards *)
UnlinkEntry_InodeFirst(s, dir, name, i) == dir_remove_entry(Unlinked(s, i, FALSE), dir, name)

UnlinkEntry(s, dir, name, i) == Unlinked(dir_remove_entry(s, dir, name), i, FALSE)

Uncached(s, i) == IF i \in s.d.imap THEN s ELSE DropNode(s, i)

(* of a file or a directory alike *)
ext2_unlink(p, name) ==
  LET found == Lookup(Here(p), name)
  IN /\ InDir(p) /\ found # <<>>
     /\ Finish(Unnamed(Uncached(UnlinkEntry(Here(p), Dir(p), name, found[1].ino), found[1].ino),
                       Dir(p), name), Dir(p))

RmdirEnd(s, dir) ==
  write_inode([s EXCEPT !.in.links = Max({0, @ - 1})], dir, [s.in EXCEPT !.links = Max({0, @ - 1})])

RemovedDir(s, dir, name, i) ==
  IF ~dir_is_empty(s.d, s.d.inode[i]) THEN s
  ELSE Unnamed(RmdirEnd(DropInode(dir_remove_entry(DropNode(s, i), dir, name), i,
                                  s.d.inode[i], TRUE), dir), dir, name)

ext2_rmdir(p, name) ==
  LET found == Lookup(Here(p), name)
  IN /\ InDir(p) /\ found # <<>> /\ found[1].type = "dir"
     /\ Finish(RemovedDir(ext2_make_node(Here(p), found[1].ino), Dir(p), name, found[1].ino), Dir(p))

(* the old entry goes first, then the file that has the new name, then the *)
(* new entry is appended                                                   *)
Victim(s, dir, new) ==
  LET found == Lookup(s, new)
  IN IF found = <<>> THEN s
     ELSE Unlinked(dir_remove_entry(s, dir, new), found[1].ino, found[1].type = "dir")

ext2_rename(p, old, new) ==
  LET found == Lookup(Here(p), old)
  IN /\ InDir(p) /\ found # <<>>
     /\ Finish(Named(Unnamed(Unnamed(
                 dir_append_entry(Victim(dir_remove_entry(Here(p), Dir(p), old), Dir(p), new),
                                  Dir(p), found[1].ino, new, found[1].type),
                 Dir(p), old), Dir(p), new), Dir(p), new, found[1].ino), Dir(p))

(***************************************************************************)
(* Paths and descriptors.                                                  *)
(***************************************************************************)
(* the tokens of a path without . and .. *)
vfs_resolve_path(path) ==
  FoldLeft(LAMBDA kept, t :
             CASE t = "."  -> kept
               [] t = ".." -> IF kept = <<>> THEN kept ELSE Front(kept)
               [] OTHER    -> IF Len(kept) < MaxTokens THEN Append(kept, t) ELSE kept,
           <<>>, path)

(* one vfs_finddir: s.ret is the inode of the node reached, s.ok whether there *)
(* is one.  Every directory passed enters the cache.                           *)
ext2_finddir(s, name) ==
  LET in  == NodeInode(s.cache, s.ret)
      hit == Found(s.d, in, name)
  IN IF ~s.ok \/ s.d.inode[s.ret].mode # "dir" \/ hit = <<>> THEN [s EXCEPT !.ok = FALSE]
     ELSE [ext2_make_node(s, hit[1].ino) EXCEPT !.ret = hit[1].ino]

kopen(path) ==
  FoldLeft(ext2_finddir, [Begin(NoInode) EXCEPT !.ret = EXT2_ROOT_INO], vfs_resolve_path(path))

(* a path that ends in a directory leaves a descriptor on its node, which *)
(* only reads; it is not modelled further                                 *)
sys_open(f, path) ==
  LET s == kopen(path)
      file == s.ok /\ s.d.inode[s.ret].mode = "reg"
  IN /\ fds[f].ino = 0
     /\ Completes(IF file THEN [s EXCEPT !.fds[f] = [ino |-> s.ret, in |-> s.d.inode[s.ret]]]
                  ELSE s, 0)

sys_chdir(p, path) ==
  LET s == kopen(path)
      dir == s.ok /\ s.d.inode[s.ret].mode = "dir"
  IN Completes(IF dir THEN [s EXCEPT !.cwd[p] = s.ret] ELSE s, 0)

sys_close(f) ==
  /\ fds[f].ino # 0
  /\ Completes([Begin(NoInode) EXCEPT !.fds[f] = NoFile], 0)

(* one round of the loop of ext2_write.  A block whose tables cannot be *)
(* allocated stays allocated.                                           *)
Written(s, b, v) ==
  IF s.ok THEN [write_block(s, b, [Zeroed EXCEPT !.val = v]) EXCEPT !.written = @ + 1] ELSE s

WriteNew(a, n, v, preferred) ==
  IF a.ret = 0 THEN Failed(a) ELSE Written(inode_set_block(a, n, a.ret, preferred), a.ret, v)

WriteOne(s, n, v, preferred) ==
  IF ~s.ok THEN s
  ELSE LET b == inode_get_block(s.d, s.in, n)
       IN IF b # 0 THEN Written(s, b, v) ELSE WriteNew(alloc_block(s, preferred), n, v, preferred)

(* the size grows to where the writing ended, the inode is written back from *)
(* the copy of the descriptor                                                *)
WriteEnd(s, f, end) ==
  LET in == [s.in EXCEPT !.size = Max({@, end})]
  IN [write_inode(s, fds[f].ino, in) EXCEPT !.fds[f].in = in]

(* what count blocks of v from block n on make of the contents of a file *)
Overwritten(data, n, count, v) ==
  [m \in DOMAIN data |-> IF m \in n..(n + count - 1) THEN v
                         ELSE IF m < n /\ data[m] = -1 THEN 0 ELSE data[m]]

WriteAll(f, n, count, v) ==
  FoldLeft(LAMBDA s, k : WriteOne(s, n + k - 1, v, GroupOfInode(fds[f].ino)),
           [Begin(fds[f].in) EXCEPT !.ref.data[fds[f].ino] = Overwritten(@, n, count, v)],
           [k \in 1..count |-> k])

WroteAll(s, f, n) == WriteEnd(s, f, n + s.written)

ext2_write(f, n, count, v) ==
  /\ fds[f].ino # 0
  /\ Finish(WroteAll(WriteAll(f, n, count, v), f, n), 0)

(* what a read of logical block n returns: -1 is the end of the file *)
ext2_read(d, in, n) ==
  LET b == inode_get_block(d, in, n)
  IN IF n >= in.size THEN -1 ELSE IF b = 0 THEN 0 ELSE d.blk[b].val

(***************************************************************************)
(* A file system as mke2fs leaves it: the root directory and the reserved  *)
(* inode.                                                                  *)
(***************************************************************************)
Fresh ==
  LET in == [NewInode("dir", 2) EXCEPT !.size = 1, !.ptr[0] = 1]
      own == <<Entry(EXT2_ROOT_INO, ".", "dir", 1), Entry(EXT2_ROOT_INO, "..", "dir", DirUnits - 1)>>
      Members(S, G(_), g) == Cardinality({x \in S : G(x) = g})
  IN [bmap |-> {1}, imap |-> {1, EXT2_ROOT_INO},
      bfree |-> [g \in Group |-> Members(Block \ {1}, GroupOfBlock, g)],
      ifree |-> [g \in Group |-> Members(Ino \ {1, EXT2_ROOT_INO}, GroupOfInode, g)],
      dirs |-> [g \in Group |-> IF g = GroupOfInode(EXT2_ROOT_INO) THEN 1 ELSE 0],
      sb |-> [b |-> BlocksCount - 1, i |-> Cardinality(Ino) - 2],
      inode |-> [i \in Ino |-> IF i = EXT2_ROOT_INO THEN in ELSE NoInode],
      blk |-> [b \in Block |-> IF b = 1 THEN [Zeroed EXCEPT !.ents = own] ELSE Zeroed]]

Ext2Init ==
  /\ disk = Fresh
  /\ root = Fresh.inode[EXT2_ROOT_INO]
  /\ cache = [k \in 0..(CacheSize - 1) |-> NoNode]
  /\ cwd = [p \in Proc |-> Outside]
  /\ fds = [f \in Fd |-> NoFile]
  /\ cause = {} /\ ref = NoRef

(* nothing is said of what follows the use of a freed node, or a write from a *)
(* stale copy                                                                 *)
Defined == cause \cap {"freed", "stale"} = {}

DirCall(p, name) ==
  \/ ext2_create(p, name) \/ ext2_mkdir(p, name)
  \/ ext2_unlink(p, name) \/ ext2_rmdir(p, name)
  \/ \E new \in Name : ext2_rename(p, name, new)

FileCall(f) ==
  \/ \E path \in Paths : sys_open(f, path)
  \/ sys_close(f)
  \/ \E t \in Transfers, v \in Value \ {0} : ext2_write(f, t[1], t[2], v)

(* procs work in directories, on names and paths; files are the descriptors in use *)
Ext2Calls(procs, names, files) ==
  /\ Defined
  /\ \/ \E p \in procs : \/ \E name \in names : DirCall(p, name)
                         \/ \E path \in Paths : sys_chdir(p, path)
     \/ \E f \in files : FileCall(f)

Ext2Next == Ext2Calls(Proc, Name, Fd)

(***************************************************************************)
(* Properties.                                                             *)
(***************************************************************************)
(* the inodes that names lead to *)
Reached(d) ==
  LET Under(i) == IF d.inode[i].mode # "dir" THEN {}
                  ELSE {e.ino : e \in Range(Listed(d, d.inode[i]))}
      within[k \in 0..Cardinality(Ino)] ==
        IF k = 0 THEN {EXT2_ROOT_INO}
        ELSE LET nearer == within[k - 1] IN nearer \cup UNION {Under(i) : i \in nearer}
  IN within[Cardinality(Ino)]

DirsOf(d, R) == {i \in R : d.inode[i].mode = "dir"}

(* Whenever power fails, what a name leads to is whole: its inode and its   *)
(* blocks are marked used, no block belongs to two places, a directory     *)
(* block is exactly filled by its records, a name occurs once and its entry *)
(* has the type of the inode.  This is what the order of the writes in     *)
(* ext2_create, mkdir, unlink, rmdir, rename and ext2_write is for; it     *)
(* needs no node freed in use and no stale copy of an inode.               *)
EntriesSafe ==
  Defined =>
  LET d == disk
      R == Reached(d)
      all == FlattenSeq([k \in 1..Cardinality(R) |-> Blocks(d, d.inode[SetToSeq(R)[k]])])
  IN /\ R \subseteq d.imap
     /\ Range(all) \subseteq d.bmap
     /\ Cardinality(Range(all)) = Len(all)
     /\ \A i \in DirsOf(d, R) :
          /\ \A n \in 0..(d.inode[i].size - 1) : LET es == Entries(d, d.inode[i], n) IN
               /\ FoldLeft(LAMBDA sum, e : sum + e.rec, 0, es) = DirUnits
               /\ \A k \in 1..Len(es) : es[k].ino # 0 => es[k].rec >= NameUnits(es[k].name)
          /\ \A e \in Range(Listed(d, d.inode[i])) :
               e.type = d.inode[e.ino].mode /\ Len(Found(d, d.inode[i], e.name)) = 1

(* With no cause on record nothing is lost: every inode and block marked    *)
(* used is in use, the counts of the group descriptors and of the superblock *)
(* are those of the bitmaps, the link counts those of the entries.          *)
NothingLost ==
  cause = {} =>
  LET d == disk
      R == Reached(d)
      Dirs == DirsOf(d, R)
  IN /\ d.imap = R \cup {1}
     /\ d.bmap = UNION {Range(Blocks(d, d.inode[i])) : i \in R}
     /\ \A g \in Group :
          /\ d.bfree[g] = Cardinality({b \in Block \ d.bmap : GroupOfBlock(b) = g})
          /\ d.ifree[g] = Cardinality({i \in Ino \ d.imap : GroupOfInode(i) = g})
          /\ d.dirs[g] = Cardinality({i \in Dirs : GroupOfInode(i) = g})
     /\ d.sb = [b |-> Cardinality(Block \ d.bmap), i |-> Cardinality(Ino \ d.imap)]
     /\ \A i \in R : d.inode[i].links =
          IF i \notin Dirs THEN 1
          ELSE 2 + Cardinality({e \in Range(Listed(d, d.inode[i])) :
                                  e.type = "dir" /\ e.name \in Name})

(* With no cause on record the tree is what the calls made of it: the names *)
(* are those created and not removed, and every block reads as the last    *)
(* write to it, through the direct pointers and the tables, through the     *)
(* disk's inode and through the copy of an open descriptor.                *)
FilesAgree ==
  cause = {} =>
  LET R == Reached(disk)
      Names(i) == {e \in Range(Listed(disk, disk.inode[i])) : e.name \in Name}
      Reads(in, data) == \A n \in 0..(FileBlocks - 1) : ext2_read(disk, in, n) = data[n]
  IN /\ ref.names = UNION {{<<i, e.name, e.ino>> : e \in Names(i)} : i \in DirsOf(disk, R)}
     /\ \A i \in R \ DirsOf(disk, R) : Reads(disk.inode[i], ref.data[i])
     /\ \A f \in Fd : fds[f].ino # 0 => Reads(fds[f].in, ref.data[fds[f].ino])
=============================================================================
