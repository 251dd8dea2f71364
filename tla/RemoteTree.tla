------------------------------- MODULE RemoteTree -------------------------------
(***************************************************************************)
(* The tree the client's file list describes (clipboard/inbound/tree.rs)   *)
(* and what the mount answers from it (clipboard/inbound/filesystem.rs).   *)
(*                                                                         *)
(* A descriptor is [path, dir, readOnly]: path is the relative path and    *)
(* the name, already split at both separators and without its empty        *)
(* components, each a name as in FileWalk ("nul" one that contains a NUL). *)
(* Sizes and times are copied, not computed, and left out.                 *)
(***************************************************************************)
EXTENDS Integers, Sequences, FiniteSets, FiniteSetsExt, SequencesExt

CONSTANT MaxDepth     \* MAX_DIRECTORY_DEPTH

ASSUME RemoteTreeAssumption == MaxDepth \in Nat

RootInode == 1
FirstInode == RootInode + 1
None == 0

Directory == -1       \* the kind of a directory; a file's is its index in the list
Node(name, parent, kind, readOnly) ==
  [name |-> name, parent |-> parent, kind |-> kind, readOnly |-> readOnly, children |-> <<>>]

(* Mutant: every list counts from the first inode.                         *)
RootedAgain(base) ==
  [base |-> FirstInode, nodes |-> <<Node(<<>>, RootInode, Directory, TRUE)>>,
   byName |-> [key \in {} |-> None]]
(* nodes[1] is the root; the others have the inodes from base on.          *)
Rooted(base) ==
  [base |-> base, nodes |-> <<Node(<<>>, RootInode, Directory, TRUE)>>,
   byName |-> [key \in {} |-> None]]

Entries(tree) == Len(tree.nodes) - 1
IsFull(tree, maxEntries) == Entries(tree) >= maxEntries
NextBase(tree) == tree.base + Entries(tree)

Offset(tree, inode) == IF inode = RootInode THEN 1 ELSE inode - tree.base + 2
HasNode(tree, inode) ==
  inode = RootInode \/ (inode >= tree.base /\ Offset(tree, inode) <= Len(tree.nodes))
NodeOf(tree, inode) == tree.nodes[Offset(tree, inode)]
IsDirectory(tree, inode) == HasNode(tree, inode) /\ NodeOf(tree, inode).kind = Directory
ChildrenOf(tree, inode) == IF HasNode(tree, inode) THEN NodeOf(tree, inode).children ELSE <<>>

LookUp(tree, parent, name) ==
  IF <<parent, name>> \in DOMAIN tree.byName THEN tree.byName[<<parent, name>>] ELSE None

(* Mutant: a name that is taken is taken over.                             *)
InsertOver(tree, parent, name, kind, readOnly, maxEntries) ==
  IF IsFull(tree, maxEntries) THEN [tree |-> tree, inode |-> None]
  ELSE LET inode == NextBase(tree)
           keys == DOMAIN tree.byName \cup {<<parent, name>>}
       IN [inode |-> inode,
           tree |-> [tree EXCEPT
             !.nodes = Append([@ EXCEPT ![Offset(tree, parent)].children = Append(@, inode)],
                              Node(name, parent, kind, readOnly)),
             !.byName = [k \in keys |-> IF k = <<parent, name>> THEN inode ELSE @[k]]]]

(* insert: a repeated directory is the same directory, any other repeated  *)
(* name is refused.  Gives the tree and the inode, None if refused.        *)
Insert(tree, parent, name, kind, readOnly, maxEntries) ==
  LET known == LookUp(tree, parent, name)
      inode == NextBase(tree)
      keys == DOMAIN tree.byName \cup {<<parent, name>>}
  IN CASE known # None /\ ~(IsDirectory(tree, known) /\ kind = Directory) ->
            [tree |-> tree, inode |-> None]
       [] known # None /\ IsDirectory(tree, known) /\ kind = Directory ->
            [tree |-> [tree EXCEPT !.nodes[Offset(tree, known)].readOnly = @ \/ readOnly],
             inode |-> known]
       [] known = None /\ IsFull(tree, maxEntries) -> [tree |-> tree, inode |-> None]
       [] known = None /\ ~IsFull(tree, maxEntries) ->
            [inode |-> inode,
             tree |-> [tree EXCEPT
               !.nodes = Append([@ EXCEPT ![Offset(tree, parent)].children = Append(@, inode)],
                                Node(name, parent, kind, readOnly)),
               !.byName = [k \in keys |-> IF k = <<parent, name>> THEN inode ELSE @[k]]]]

(* directory: one component of a parent's path, created when the client    *)
(* never listed it.                                                        *)
DirectoryIn(tree, parent, name, maxEntries) ==
  IF LookUp(tree, parent, name) = None
  THEN Insert(tree, parent, name, Directory, FALSE, maxEntries)
  ELSE [tree |-> tree, inode |-> IF IsDirectory(tree, LookUp(tree, parent, name))
                                 THEN LookUp(tree, parent, name) ELSE None]

(* Mutant: the deepest directories are left out.                           *)
UsableAbove(file) ==
  /\ file.path # <<>> /\ Len(file.path) - 1 < MaxDepth
  /\ \A i \in DOMAIN file.path : file.path[i] \notin {<<".">>, <<"..">>, <<"nul">>}
(* path_components: nothing that leads out of the mount, nor too deep.     *)
Usable(file) ==
  /\ file.path # <<>> /\ Len(file.path) - 1 <= MaxDepth
  /\ \A i \in DOMAIN file.path : file.path[i] \notin {<<".">>, <<"..">>, <<"nul">>}

(* One turn of the loop of build; a parent that cannot be reached costs    *)
(* the entry, not the directories made on the way.                         *)
AddFile(tree, file, index, maxEntries) ==
  IF IsFull(tree, maxEntries) \/ index > maxEntries \/ ~Usable(file) THEN tree
  ELSE LET Descend(at, name) ==
             IF at.inode = None THEN at ELSE DirectoryIn(at.tree, at.inode, name, maxEntries)
           parent == FoldLeft(Descend, [tree |-> tree, inode |-> RootInode], Front(file.path))
       IN IF parent.inode = None THEN parent.tree
          ELSE Insert(parent.tree, parent.inode, Last(file.path),
                      IF file.dir THEN Directory ELSE index, file.readOnly, maxEntries).tree

Build(files, maxEntries, base) ==
  FoldLeft(LAMBDA tree, index : AddFile(tree, files[index], index, maxEntries),
           Rooted(base), [i \in DOMAIN files |-> i])

(* Mutant: files are links to their directory too.                         *)
LinkEveryChild(tree, inode) ==
  IF ~IsDirectory(tree, inode) THEN 1 ELSE 2 + Len(ChildrenOf(tree, inode))
(* link_count *)
LinkCount(tree, inode) ==
  IF ~IsDirectory(tree, inode) THEN 1
  ELSE 2 + Len(SelectSeq(ChildrenOf(tree, inode), LAMBDA child : IsDirectory(tree, child)))

Inodes(tree) == {RootInode} \cup tree.base .. (NextBase(tree) - 1)

-----------------------------------------------------------------------------
(* The mount's answers.                                                    *)

(* readdir from an offset on, as many entries as the kernel has room for.  *)
Listing(tree, inode) ==
  <<[inode |-> inode, name |-> <<".">>], [inode |-> NodeOf(tree, inode).parent, name |-> <<"..">>]>>
  \o [i \in DOMAIN ChildrenOf(tree, inode) |->
        [inode |-> ChildrenOf(tree, inode)[i], name |-> NodeOf(tree, ChildrenOf(tree, inode)[i]).name]]

ReadDir(tree, inode, offset, room) ==
  SubSeq(Listing(tree, inode), offset + 1, Min({offset + room, Len(Listing(tree, inode))}))

(* open *)
Open(tree, inode) ==
  CASE ~HasNode(tree, inode) -> "ENOENT"
    [] IsDirectory(tree, inode) -> "EISDIR"
    [] OTHER -> "opened"

(* The permission bits of getattr and lookup.                              *)
Permissions(tree, inode) ==
  LET node == NodeOf(tree, inode)
  IN (IF node.kind = Directory THEN {"x"} ELSE {}) \cup (IF node.readOnly THEN {"r"} ELSE {"r", "w"})

-----------------------------------------------------------------------------
(* What the list describes, as a set of paths: a file that came first      *)
(* keeps its name and hides what would be below it.                        *)
ProperPrefixes(path) == {SubSeq(path, 1, n) : n \in 1..(Len(path) - 1)}

Describe(known, file, index) ==
  IF ~Usable(file) \/ \E e \in known : e.path \in ProperPrefixes(file.path) /\ e.kind # Directory
  THEN known
  ELSE LET dirs == {[path |-> p, kind |-> Directory] : p \in ProperPrefixes(file.path)}
           leaf == [path |-> file.path, kind |-> IF file.dir THEN Directory ELSE index]
       IN known \cup dirs
          \cup (IF \E e \in known : e.path = file.path THEN {} ELSE {leaf})

Described(files) ==
  FoldLeft(LAMBDA known, index : Describe(known, files[index], index), {},
           [i \in DOMAIN files |-> i])

(* The path of a node, from the mount's point of view.                     *)
PathOf(tree, inode) ==
  LET up[i \in Inodes(tree)] ==
        IF i = RootInode THEN <<>>
        ELSE Append(up[NodeOf(tree, i).parent], NodeOf(tree, i).name)
  IN up[inode]

TreeEntries(tree) ==
  {[path |-> PathOf(tree, i), kind |-> NodeOf(tree, i).kind] : i \in Inodes(tree) \ {RootInode}}
===============================================================================
