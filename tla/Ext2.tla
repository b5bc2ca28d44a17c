--------------------------------- MODULE Ext2 ---------------------------------
(***************************************************************************)
(* The handlers of fuse-ext2, which FUSE runs one at a time ("-s").  Each  *)
(* reads copies of inodes, calls libext2fs, and writes the copies back: a  *)
(* handler is written as the states of the volume it takes it through.     *)
(*                                                                         *)
(* libext2fs is external: a block of a directory has room for NSlot names, *)
(* and free inodes and blocks are taken lowest first.  The kernel sees to  *)
(* it that a name to be made is not there, that no directory gets a second *)
(* name, and that none is moved into itself.  Times, owners and modes are  *)
(* left out, and sizes are counted in blocks.                              *)
(***************************************************************************)
EXTENDS Integers, FiniteSets, SequencesExt

CONSTANTS Name, NIno, NBlk,
          NSlot,    \* names a block of a directory has room for
          MaxSize,  \* the size a file may have
          MaxOpt,   \* the options a mount is given
          MaxCall   \* the calls of handlers that change the volume

ASSUME CountAssumption == {NIno, NBlk, NSlot, MaxSize, MaxOpt, MaxCall} \subseteq Nat \ {0}

Ino  == 1 .. NIno
Blk  == 1 .. NBlk
Root == 1   \* EXT2_ROOT_INO
Path == {<<n>> : n \in Name} \cup (Name \X Name)
Opt  == {"ro", "rw", "rw+", "force"}

VARIABLES ino,         \* inodes: kind, i_links_count, size, and i_block[] as pairs
          ent,         \* the names a block of a directory holds
          up,          \* where ".." of a directory leads
          imap, bmap,  \* inodes and blocks in use
          readonly, force, mounted,
          \* history
          calls,
          given,       \* the mount options, as they were given
          lost         \* a link has made its directory grow

options == <<readonly, force, mounted, given>>
vars    == <<ino, ent, up, imap, bmap, options, calls, lost>>

Volume == [ino |-> ino, ent |-> ent, up |-> up, imap |-> imap, bmap |-> bmap]

Becomes(v) == /\ ino' = v.ino /\ ent' = v.ent /\ up' = v.up
              /\ imap' = v.imap /\ bmap' = v.bmap /\ UNCHANGED options

NoInode == [kind |-> "none", links |-> 0, size |-> 0, blk |-> {}]

-----------------------------------------------------------------------------
(* Faulty: "rw" forces a mount as "rw+" does.                              *)
RwForces(o) ==
  /\ readonly' = (IF o = "force" THEN readonly ELSE o = "ro")
  /\ force' = (force \/ o \in {"rw", "rw+", "force"})

(* parse_mount_options, which takes the options one by one.                *)
Option(o) ==
  /\ readonly' = (IF o = "force" THEN readonly ELSE o = "ro")
  /\ force' = (force \/ o \in {"rw+", "force"})

ParseOption ==
  /\ ~mounted /\ Len(given) < MaxOpt
  /\ \E o \in Opt : Option(o) /\ given' = Append(given, o)
  /\ UNCHANGED <<ino, ent, up, imap, bmap, mounted, calls, lost>>

(* A mount that is not forced is read-only.                                *)
Mount ==
  /\ ~mounted /\ mounted' = TRUE
  /\ readonly' = (readonly \/ ~force)
  /\ given' = <<>>
  /\ UNCHANGED <<ino, ent, up, imap, bmap, force, calls, lost>>

-----------------------------------------------------------------------------
(* libext2fs                                                               *)
Blocks(inode) == {e[2] : e \in inode.blk}
Entries(v, d) == UNION {v.ent[b] : b \in Blocks(v.ino[d])}
Lookup(v, d, n) == {e[2] : e \in {x \in Entries(v, d) : x[1] = n}}
FreeBlk(v) == Blk \ v.bmap
FreeIno(v) == Ino \ v.imap

Roomy(v, d) == {b \in Blocks(v.ino[d]) : Cardinality(v.ent[b]) < NSlot}

Expand(v, d) ==
  LET b == Min(FreeBlk(v)) IN
  [v EXCEPT !.ino[d].blk = @ \cup {<<Cardinality(@), b>>}, !.ino[d].size = @ + 1,
            !.bmap = @ \cup {b}, !.ent[b] = {}]

AddName(v, d, n, i) == [v EXCEPT !.ent[Min(Roomy(v, d))] = @ \cup {<<n, i>>}]
DropName(v, d, n) ==
  [v EXCEPT !.ent = [b \in Blk |-> IF b \in Blocks(v.ino[d]) THEN {e \in v.ent[b] : e[1] # n}
                                   ELSE v.ent[b]]]

(* do_readinode: the path is looked up from the root.                      *)
Namei(v, p) ==
  IF p = <<>> THEN {Root}
  ELSE IF Len(p) = 1 THEN Lookup(v, Root, p[1])
  ELSE UNION {Lookup(v, d, p[2]) : d \in Lookup(v, Root, p[1])}

(* do_check_split                                                          *)
Split(p) == [dir |-> SubSeq(p, 1, Len(p) - 1), name |-> p[Len(p)]]
Parents(v, p) == {d \in Namei(v, Split(p).dir) : v.ino[d].kind = "dir"}

(* do_killfilebyinode                                                      *)
Kill(v, i, inode) ==
  [v EXCEPT !.ino[i] = NoInode, !.imap = @ \ {i}, !.bmap = @ \ Blocks(inode)]

(* do_writeinode: an inode without links is killed.                        *)
WriteInode(v, i, inode) ==
  IF inode.links < 1 THEN Kill(v, i, inode) ELSE [v EXCEPT !.ino[i] = inode]

(* The loop of ext2fs_link and ext2fs_expand_dir, before the name is added *)
(* and after: a set of one state, or of none if there is no block.         *)
MakeRoom(v, d) == IF Roomy(v, d) # {} THEN {v}
                  ELSE IF FreeBlk(v) = {} THEN {} ELSE {Expand(v, d)}
LinkIn(v, d, n, i) == {AddName(w, d, n, i) : w \in MakeRoom(v, d)}

-----------------------------------------------------------------------------
(* The handlers.  do_create; op_create opens what is there.                *)
DoCreate(v, d, n, kind) ==
  IF FreeIno(v) = {} THEN {}
  ELSE LET i == Min(FreeIno(v)) IN
       {[w EXCEPT !.imap = @ \cup {i},
                  !.ino[i] = [kind |-> kind, links |-> 1, size |-> 0, blk |-> {}]]
         : w \in LinkIn(v, d, n, i)}

Missing(p) == Namei(Volume, p) = {}

Create(p) ==
  /\ Missing(p) /\ lost' = lost
  /\ \E d \in Parents(Volume, p) : \E v \in DoCreate(Volume, d, Split(p).name, "file") : Becomes(v)

(* do_write of block k: the size is set before a block is looked for.      *)
DoWrite(v, i, k) ==
  LET w == [v EXCEPT !.ino[i].size = Max({@, k + 1})] IN
  IF (\E e \in v.ino[i].blk : e[1] = k) \/ FreeBlk(v) = {} THEN w
  ELSE [w EXCEPT !.ino[i].blk = @ \cup {<<k, Min(FreeBlk(v))>>},
                 !.bmap = @ \cup {Min(FreeBlk(v))}, !.ent[Min(FreeBlk(v))] = {}]

(* A short target is kept in the inode; a long one is written to a block,  *)
(* and if there is none the link stays, with nothing in it.                *)
Symlink(p, long) ==
  /\ Missing(p) /\ lost' = lost
  /\ \E d \in Parents(Volume, p) : \E v \in DoCreate(Volume, d, Split(p).name, "symlink") :
       Becomes(IF long THEN DoWrite(v, Min(FreeIno(Volume)), 0) ELSE v)

Write(p, k) ==
  /\ lost' = lost
  /\ \E i \in Namei(Volume, p) : ino[i].kind = "file" /\ Becomes(DoWrite(Volume, i, k))

Cut(inode, s) == [inode EXCEPT !.size = s, !.blk = {e \in @ : e[1] < s}]

Truncate(p, s) ==
  /\ lost' = lost
  /\ \E i \in Namei(Volume, p) :
       /\ ino[i].kind = "file"
       /\ Becomes([Volume EXCEPT !.ino[i] = Cut(@, s),
                                 !.bmap = @ \ (Blocks(ino[i]) \ Blocks(Cut(ino[i], s)))])

(* op_mkdir: ext2fs_mkdir takes an inode and a block before it adds the    *)
(* name, and fails when the directory has no room; when it has grown it    *)
(* stays so, although there may be no block left for the new one.          *)
Mkdir(p) ==
  /\ Missing(p) /\ FreeIno(Volume) # {} /\ lost' = lost
  /\ \E d \in Parents(Volume, p) : \E v \in MakeRoom(Volume, d) :
       Becomes(IF FreeBlk(v) = {} THEN v
               ELSE LET i == Min(FreeIno(v))
                        b == Min(FreeBlk(v)) IN
                    [AddName(v, d, Split(p).name, i) EXCEPT
                       !.ino[i] = [kind |-> "dir", links |-> 2, size |-> 1, blk |-> {<<0, b>>}],
                       !.ino[d].links = @ + 1, !.imap = @ \cup {i}, !.bmap = @ \cup {b},
                       !.ent[b] = {}, !.up[i] = d])

(* op_unlink, with the copies of both inodes it has read at first.         *)
UnlinkIn(v, d, n, i) ==
  WriteInode(WriteInode(DropName(v, d, n), d, v.ino[d]),
             i, [v.ino[i] EXCEPT !.links = IF @ > 0 THEN @ - 1 ELSE @])

Unlink(p) ==
  /\ lost' = lost
  /\ \E d \in Parents(Volume, p), i \in Namei(Volume, p) :
       ino[i].kind # "dir" /\ Becomes(UnlinkIn(Volume, d, Split(p).name, i))

(* op_rmdir reads the parent again after the directory is killed.          *)
IsEmptyDir(v, i) == v.ino[i].kind = "dir" /\ Entries(v, i) = {}

RmdirIn(v, d, n, i) ==
  LET w == Kill(DropName(v, d, n), i, v.ino[i]) IN
  WriteInode(w, d, [w.ino[d] EXCEPT !.links = IF @ > 1 THEN @ - 1 ELSE @])

Rmdir(p) ==
  /\ lost' = lost
  /\ \E d \in Parents(Volume, p), i \in Namei(Volume, p) :
       i # Root /\ IsEmptyDir(Volume, i) /\ Becomes(RmdirIn(Volume, d, Split(p).name, i))

(* op_link writes back the directory as it was read before it grew.        *)
Link(s, p) ==
  /\ Missing(p)
  /\ \E i \in Namei(Volume, s), d \in Parents(Volume, p) :
       /\ ino[i].kind # "dir"
       /\ \E v \in LinkIn(Volume, d, Split(p).name, i) :
            Becomes(WriteInode(WriteInode(v, i, [ino[i] EXCEPT !.links = @ + 1]), d, ino[d]))
       /\ lost' = (lost \/ Roomy(Volume, d) = {})

-----------------------------------------------------------------------------
(* Faulty: the directory of what is replaced is not read again.            *)
ReplacedStale(v, p) ==
  IF Namei(v, p) = {} THEN v
  ELSE LET d == CHOOSE x \in Parents(v, p) : TRUE
           j == CHOOSE x \in Namei(v, p) : TRUE
       IN [IF v.ino[j].kind = "dir" THEN RmdirIn(v, d, Split(p).name, j)
           ELSE UnlinkIn(v, d, Split(p).name, j) EXCEPT !.ino[d] = v.ino[d]]

(* op_rename.  A directory that is replaced is removed, a file unlinked,   *)
(* and the directory it was in is read again; so it is if it has grown.    *)
Replaced(v, p) ==
  IF Namei(v, p) = {} THEN v
  ELSE LET d == CHOOSE x \in Parents(v, p) : TRUE
           j == CHOOSE x \in Namei(v, p) : TRUE
       IN IF v.ino[j].kind = "dir" THEN RmdirIn(v, d, Split(p).name, j)
                                   ELSE UnlinkIn(v, d, Split(p).name, j)

Replaces(v, i, j) ==
  IF v.ino[j].kind = "dir" THEN v.ino[i].kind = "dir" /\ IsEmptyDir(v, j)
                           ELSE v.ino[i].kind # "dir"

(* A directory that changes parents: both link counts and "..".            *)
Moved(v, i, d, e) ==
  IF v.ino[i].kind = "dir" /\ d # e
    THEN [WriteInode(WriteInode(v, d, [v.ino[d] EXCEPT !.links = IF @ > 1 THEN @ - 1 ELSE @]),
                     e, [v.ino[e] EXCEPT !.links = @ + 1]) EXCEPT !.up[i] = e]
    ELSE v

(* Faulty: the name is taken away and given again.                         *)
MoveDroppingFirst(v, i, d, n, e, m) ==
  LET w == DropName(v, d, n) IN
  IF MakeRoom(w, e) = {} THEN w
  ELSE Moved(CHOOSE x \in LinkIn(w, e, m, i) : TRUE, i, d, e)

Move(v, i, d, n, e, m) ==
  IF MakeRoom(v, e) = {} THEN v
  ELSE DropName(Moved(CHOOSE x \in LinkIn(v, e, m, i) : TRUE, i, d, e), d, n)

Rename(s, p) ==
  /\ ~IsPrefix(s, p) /\ lost' = lost
  /\ \E d \in Parents(Volume, s), i \in Namei(Volume, s), e \in Parents(Volume, p) :
       /\ \A j \in Namei(Volume, p) : i # j /\ Replaces(Volume, i, j)
       /\ Becomes(Move(Replaced(Volume, p), i, d, Split(s).name, e, Split(p).name))

Handler ==
  \E p \in Path : \/ Create(p) \/ Mkdir(p) \/ Unlink(p) \/ Rmdir(p)
                 \/ \E long \in BOOLEAN : Symlink(p, long)
                 \/ \E k \in 0 .. MaxSize - 1 : Write(p, k) \/ Truncate(p, k)
                 \/ \E s \in Path : Link(s, p) \/ Rename(s, p)

(* The kernel writes to no volume mounted read-only.  Once a directory has *)
(* lost what it grew by nothing more is followed.                          *)
Next ==
  \/ ParseOption \/ Mount
  \/ /\ mounted /\ ~readonly /\ ~lost /\ Handler
     /\ calls < MaxCall /\ calls' = calls + 1

Init ==
  /\ ino = [i \in Ino |-> IF i = Root THEN [kind |-> "dir", links |-> 2, size |-> 1, blk |-> {<<0, 1>>}]
                          ELSE NoInode]
  /\ ent = [b \in Blk |-> {}] /\ up = [i \in Ino |-> Root]
  /\ imap = {Root} /\ bmap = {1} /\ lost = FALSE
  /\ readonly = FALSE /\ force = FALSE /\ mounted = FALSE /\ given = <<>>
  /\ calls = 0

Spec == Init /\ [][Next]_vars

-----------------------------------------------------------------------------
Dirs       == {i \in imap : ino[i].kind = "dir"}
Named      == UNION {Lookup(Volume, d, n) : d \in Dirs, n \in Name}
NamesOf(i) == {x \in Dirs \X Name : i \in Lookup(Volume, x[1], x[2])}
SubDirs(d) == {e \in Dirs \ {Root} : \E n \in Name : e \in Lookup(Volume, d, n)}

(* Every file has as many links as names, and every directory two more     *)
(* than directories in it, unless a link has made a directory grow.        *)
LinksCounted ==
  ~lost => \A i \in imap : ino[i].links = IF i \in Dirs THEN 2 + Cardinality(SubDirs(i))
                                          ELSE Cardinality(NamesOf(i))

(* Then the inodes in use are those with a name, and the blocks in use are *)
(* those of their inodes, each of one.                                     *)
NothingLeaks ==
  ~lost => /\ imap = {Root} \cup Named
           /\ bmap = UNION {Blocks(ino[i]) : i \in imap}
           /\ \A i, j \in imap : i # j => Blocks(ino[i]) \cap Blocks(ino[j]) = {}

(* Then a directory has one name, in the directory its ".." leads to.      *)
DotDotRight ==
  ~lost => \A d \in Dirs \ {Root} : \E n \in Name : NamesOf(d) = {<<up[d], n>>}

(* The three together: no inode, block or link is lost or counted wrongly.  *)
NothingLost == LinksCounted /\ NothingLeaks /\ DotDotRight

(* A mount would write if that is forced, and the last of the options that *)
(* say so does not make it read-only.                                      *)
ForcedOnly ==
  ~mounted => (~readonly /\ force) =
    /\ \E k \in DOMAIN given : given[k] \in {"rw+", "force"}
    /\ \A k \in DOMAIN given : given[k] = "ro" =>
         \E l \in k + 1 .. Len(given) : given[l] \in {"rw", "rw+"}

(* A rename leaves a name to all that had one, but to what stood where the *)
(* new name is.                                                            *)
RenameLosesNothing ==
  [][~(Named \subseteq Named') =>
       \A s, p \in Path : Rename(s, p) => Named \ Namei(Volume, p) \subseteq Named']_vars
===============================================================================
