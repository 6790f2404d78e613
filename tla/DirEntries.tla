----------------------------- MODULE DirEntries -----------------------------
(***************************************************************************)
(* Directory entries of dir.c.  A name hashes, with the directory's salt, *)
(* to a key offset in [2, SCOUTFS_DIRENT_LAST_POS]; a collision probes    *)
(* the window of SCOUTFS_DIRENT_COLL_NR offsets that starts there.        *)
(* mknod, unlink and lookup run whole under the directory's i_mutex and   *)
(* the wrlock, so each is one action; a readdir stream is a sequence of   *)
(* getdents calls whose f_pos persists between them, interleaved with the *)
(* other operations.  The dentry cache holds the dentry_info hash that    *)
(* unlink uses to find the item.                                          *)
(***************************************************************************)
EXTENDS Naturals, FiniteSets, Sequences, SequencesExt, Functions

CONSTANTS
    Names,          \* dentry names (model values)
    NameLen,        \* Names -> 1..SCOUTFS_NAME_LEN, d_name.len
    Salts,          \* the values get_random_bytes can give ci->salt
    Crc,            \* [Salts -> [Names -> 0..OffMask]]: crc32c(salt, name) & OFF_MASK
    OffMask,        \* SCOUTFS_DIRENT_OFF_MASK
    LastPos,        \* SCOUTFS_DIRENT_LAST_POS
    CollNr,         \* SCOUTFS_DIRENT_COLL_NR
    RootIno,        \* the root directory, made by mkfs
    RootSalt,
    MaxIno,         \* bound on scoutfs_alloc_ino: inode numbers RootIno+1..MaxIno
    BtreeErrors,    \* whether btree and wrlock calls may fail
    ReaddirBudget   \* most entries one filldir buffer accepts

ASSUME LastPos >= 2 /\ CollNr >= 1 /\ MaxIno > RootIno /\ RootSalt \in Salts

Inos == RootIno..MaxIno
Modes == {"reg", "dir"}
Positions == 2..LastPos
DotPos == {0, 1}

VARIABLES
    items,      \* the dirent items: [dir, pos (key offset), name, ino]
    inodes,     \* inode items: ino -> [mode, nlink, size, salt]
    nextIno,    \* the next number scoutfs_alloc_ino returns
    dcache,     \* positive dentries: [dir, name, pos (di->hash), ino]
    rd,         \* one open directory file: f_pos and what getdents returned
    lastMknod   \* the outcome of the latest mknod

vars == <<items, inodes, nextIno, dcache, rd, lastMknod>>

Item == [dir : Inos, pos : Positions, name : Names, ino : Inos]

(* name_hash(): the masked crc clamped to [2, LAST_POS]. *)
NameHash(n, salt) ==
    LET h == Crc[salt][n]
    IN  IF h < 2 THEN 2 ELSE IF h > LastPos THEN LastPos ELSE h

(* last_dirent_key_offset() *)
LastDirentKeyOffset(h) ==
    IF h + CollNr - 1 < LastPos THEN h + CollNr - 1 ELSE LastPos

DirItems(d) == {it \in items : it.dir = d}

(* The items scoutfs_btree_next() walks from the name's hash to the end   *)
(* of its window.                                                         *)
ProbeWindow(d, n) ==
    LET h == NameHash(n, inodes[d].salt)
    IN  {it \in DirItems(d) : it.pos \in h..LastDirentKeyOffset(h)}

(* scoutfs_lookup(): the first item in the window whose name is equal.    *)
LookupMatches(d, n) == {it \in ProbeWindow(d, n) : it.name = n}

FirstByPos(S) == CHOOSE it \in S : \A o \in S : it.pos <= o.pos

(* mknod's probe: the key after the last item in the window, or the hash *)
(* itself when the window is empty.                                       *)
MknodKey(d, n) ==
    LET W == ProbeWindow(d, n)
    IN  IF W = {} THEN NameHash(n, inodes[d].salt)
        ELSE (CHOOSE it \in W : \A o \in W : o.pos <= it.pos).pos + 1

(* Mutant: the ENOSPC test bounds the key by LAST_POS, not the window. *)
DirentKeyFitsAnyOffset(key, h) == key <= LastPos

(* The ENOSPC test: the key must not pass the end of the window. *)
DirentKeyFits(key, h) == key <= LastDirentKeyOffset(h)

LiveDir(d) == d \in DOMAIN inodes /\ inodes[d].mode = "dir" /\ inodes[d].nlink > 0

Init ==
    /\ items = {}
    /\ inodes = RootIno :> [mode |-> "dir", nlink |-> 2, size |-> 0, salt |-> RootSalt]
    /\ nextIno = RootIno + 1
    /\ dcache = {}
    /\ rd = [open |-> FALSE, dir |-> RootIno, fpos |-> 0, emitted |-> <<>>,
             present |-> {}, done |-> FALSE]
    /\ lastMknod = [dir |-> RootIno, name |-> CHOOSE n \in Names : TRUE, ret |-> "none"]

(* scoutfs_new_inode(): the inode item it inserts, with the salt from   *)
(* get_random_bytes and the nlink of 1 that new_inode() starts with.     *)
NewInode(mode, salt) == [mode |-> mode, nlink |-> 1, size |-> 0, salt |-> salt]

(* The inode items after a successful mknod: the new inode (its nlink 2  *)
(* for a directory) and the parent's i_size and nlink.                    *)
MknodInodes(m, d, ino, new, n) ==
    LET sub == IF new.mode = "dir" THEN 1 ELSE 0
    IN  (ino :> [new EXCEPT !.nlink = @ + sub])
        @@ [m EXCEPT ![d].size = @ + NameLen[n], ![d].nlink = @ + sub]

(* scoutfs_mknod(), scoutfs_create() and scoutfs_mkdir().  The VFS calls *)
(* it for a negative dentry, after a lookup found no entry.               *)
Mknod(d, n, mode) ==
    /\ LiveDir(d)
    /\ ~\E c \in dcache : c.dir = d /\ c.name = n
    /\ LookupMatches(d, n) = {}
    /\ nextIno <= MaxIno
    /\ nextIno' = nextIno + 1
    /\ UNCHANGED rd
    /\ \/ \* the wrlock, dirtying the dir or inserting the inode item fails
          /\ BtreeErrors
          /\ lastMknod' = [dir |-> d, name |-> n, ret |-> "err"]
          /\ UNCHANGED <<items, inodes, dcache>>
       \/ \E s \in Salts :
            LET new == NewInode(mode, s)
                h   == NameHash(n, inodes[d].salt)
                key == MknodKey(d, n)
                it  == [dir |-> d, pos |-> key, name |-> n, ino |-> nextIno]
            IN  \/ \* probing or the dirent insert fails; the inode item stays
                   /\ BtreeErrors
                   /\ inodes' = inodes @@ (nextIno :> new)
                   /\ lastMknod' = [dir |-> d, name |-> n, ret |-> "err"]
                   /\ UNCHANGED <<items, dcache>>
                \/ /\ ~DirentKeyFits(key, h)
                   /\ inodes' = inodes @@ (nextIno :> new)
                   /\ lastMknod' = [dir |-> d, name |-> n, ret |-> "ENOSPC"]
                   /\ UNCHANGED <<items, dcache>>
                \/ /\ DirentKeyFits(key, h)
                   /\ items' = items \cup {it}
                   /\ dcache' = dcache \cup {it}
                   /\ inodes' = MknodInodes(inodes, d, nextIno, new, n)
                   /\ lastMknod' = [dir |-> d, name |-> n, ret |-> "ok"]

(* Mutant: -ENOTEMPTY only for a directory with subdirectories. *)
UnlinkNotEmptySubdirs(i) == inodes[i].mode = "dir" /\ inodes[i].nlink > 2

(* The -ENOTEMPTY test of unlink: a directory with a nonzero i_size. *)
UnlinkNotEmpty(i) == inodes[i].mode = "dir" /\ inodes[i].size # 0

(* Mutant: unlink of a directory does not drop the parent's nlink. *)
UnlinkInodesKeepParentLink(m, d, i, n) ==
    LET sub == IF m[i].mode = "dir" THEN 1 ELSE 0
    IN  [m EXCEPT ![d].size = @ - NameLen[n], ![i].nlink = @ - 1 - sub]

(* The inode items after a successful unlink. *)
UnlinkInodes(m, d, i, n) ==
    LET sub == IF m[i].mode = "dir" THEN 1 ELSE 0
    IN  [m EXCEPT ![d].size = @ - NameLen[n], ![d].nlink = @ - sub,
                  ![i].nlink = @ - 1 - sub]

(* scoutfs_unlink() of a positive dentry: delete the item at the offset  *)
(* that dentry_info remembers.  A failing wrlock, dirty or delete changes *)
(* nothing, so it is not a step of the model.                             *)
Unlink(c) ==
    /\ ~UnlinkNotEmpty(c.ino)
    /\ \E it \in DirItems(c.dir) :
         /\ it.pos = c.pos
         /\ items' = items \ {it}
         /\ inodes' = UnlinkInodes(inodes, c.dir, c.ino, c.name)
         /\ dcache' = dcache \ {c}
         /\ rd' = [rd EXCEPT !.present = @ \ {it}]
    /\ UNCHANGED <<nextIno, lastMknod>>

(* scoutfs_lookup() on a dentry cache miss; a hit instantiates a dentry *)
(* with di->hash set to the item's offset.                                *)
Lookup(d, n) ==
    /\ LiveDir(d)
    /\ ~\E c \in dcache : c.dir = d /\ c.name = n
    /\ LookupMatches(d, n) # {}
    /\ dcache' = dcache \cup {FirstByPos(LookupMatches(d, n))}
    /\ UNCHANGED <<items, inodes, nextIno, rd, lastMknod>>

(* The dcache prunes an unused dentry; scoutfs_d_release frees its info. *)
DentryRelease(c) ==
    /\ dcache' = dcache \ {c}
    /\ UNCHANGED <<items, inodes, nextIno, rd, lastMknod>>

(* open(2) of a directory: f_pos starts at 0. *)
OpenDir(d) ==
    /\ LiveDir(d)
    /\ ~rd.open \/ rd.done
    /\ rd' = [open |-> TRUE, dir |-> d, fpos |-> 0, emitted |-> <<>>,
              present |-> DirItems(d), done |-> FALSE]
    /\ UNCHANGED <<items, inodes, nextIno, dcache, lastMknod>>

(* Mutants: f_pos left at the accepted entry, or moved one past the next. *)
NextFposSame(pos) == pos
NextFposSkip(pos) == pos + 2

(* f_pos after filldir accepted the entry at pos. *)
NextFpos(pos) == pos + 1

(* One getdents call: dir_emit_dots() then scoutfs_readdir() from f_pos, *)
(* until filldir refuses an entry (the buffer holds k) or the items end.  *)
Getdents ==
    /\ rd.open /\ ~rd.done
    /\ LET dots == SelectSeq(<<[pos |-> 0, name |-> "."], [pos |-> 1, name |-> ".."]>>,
                             LAMBDA e : e.pos >= rd.fpos)
           ents == SetToSortSeq({[pos |-> it.pos, name |-> it.name] :
                                  it \in {o \in DirItems(rd.dir) : o.pos >= rd.fpos}},
                                LAMBDA a, b : a.pos < b.pos)
           S    == dots \o ents
       IN  \E k \in 0..ReaddirBudget :
             LET out == SubSeq(S, 1, IF k < Len(S) THEN k ELSE Len(S))
             IN  rd' = [rd EXCEPT !.emitted = @ \o out,
                                  !.fpos = IF out = <<>> THEN @
                                           ELSE NextFpos(out[Len(out)].pos),
                                  !.done = k >= Len(S)]
    /\ UNCHANGED <<items, inodes, nextIno, dcache, lastMknod>>

Next ==
    \/ \E d \in Inos, n \in Names, mode \in Modes : Mknod(d, n, mode)
    \/ \E c \in dcache : Unlink(c) \/ DentryRelease(c)
    \/ \E d \in Inos, n \in Names : Lookup(d, n)
    \/ \E d \in Inos : OpenDir(d)
    \/ Getdents

Spec == Init /\ [][Next]_vars

-----------------------------------------------------------------------------

TypeOK ==
    /\ items \subseteq Item
    /\ dcache \subseteq Item
    /\ nextIno \in RootIno + 1..MaxIno + 1
    /\ DOMAIN inodes \subseteq Inos
    /\ \A i \in DOMAIN inodes :
         inodes[i] \in [mode : Modes, nlink : Nat, size : Nat, salt : Salts]
    /\ rd.fpos \in 0..LastPos + 1
    /\ \A j \in DOMAIN rd.emitted : rd.emitted[j] \in [pos : DotPos \cup Positions,
                                                     name : Names \cup {".", ".."}]
    /\ lastMknod.ret \in {"none", "ok", "err", "ENOSPC"}

(* Every entry mknod inserted is the one entry of its name in the         *)
(* directory, and scoutfs_lookup() of the name finds it: the entry lies   *)
(* in the probe window of its hash.  mknod's ENOSPC test and lookup's     *)
(* window have to agree for this to hold.                                 *)
LookupFindsEveryEntry ==
    \A it \in items :
        /\ {o \in DirItems(it.dir) : o.name = it.name} = {it}
        /\ LookupMatches(it.dir, it.name) = {it}

(* No entry lives in a removed directory or names a removed inode: the    *)
(* i_size kept by mknod and unlink makes rmdir of a non-empty directory   *)
(* fail with -ENOTEMPTY.                                                  *)
NoDanglingEntry ==
    \A it \in items : inodes[it.dir].nlink > 0 /\ inodes[it.ino].nlink > 0

(* The link count of every linked inode is the number of entries naming  *)
(* it, plus, for a directory, its "." and one per subdirectory's "..";    *)
(* the root's parent is itself.                                           *)
LinkCountsMatch ==
    \A i \in DOMAIN inodes :
        LET refs == Cardinality({it \in items : it.ino = i})
            subs == Cardinality({it \in DirItems(i) : inodes[it.ino].mode = "dir"})
        IN  (refs > 0 \/ i = RootIno) =>
                inodes[i].nlink = refs + (IF i = RootIno THEN 1 ELSE 0)
                                  + (IF inodes[i].mode = "dir" THEN 1 + subs ELSE 0)

(* A readdir stream never returns the same entry twice, though entries   *)
(* come and go between its getdents calls.                                *)
ReaddirNoRepeat == IsInjective(rd.emitted)

(* A readdir stream that reached the end returned every entry that was   *)
(* in the directory when it was opened and has not been unlinked since.  *)
ReaddirComplete ==
    rd.done => \A it \in rd.present : [pos |-> it.pos, name |-> it.name] \in Range(rd.emitted)

=============================================================================
