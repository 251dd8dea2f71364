-------------------------------- MODULE FileWalk --------------------------------
(***************************************************************************)
(* The walk that freezes a selection of the desktop's files and            *)
(* directories into the list the client is given (clipboard/files.rs), and *)
(* the reads that are answered from it.                                    *)
(*                                                                         *)
(* A filesystem maps an inode to [kind, children], the kinds being "file", *)
(* "huge", "directory", "other" (a FIFO, a device) and "gone"; children    *)
(* are the entries [name, inode, rank] in the order of the directory, rank *)
(* being the place of their path when sorted, and links included, so that  *)
(* a directory may be met again below itself.  A name is <<stem>>, with    *)
(* the numbers the walk appends to tell equal names apart after it, and    *)
(* sanitized; Key folds the case of a stem.                                *)
(***************************************************************************)
EXTENDS Naturals, Sequences, FiniteSets, FiniteSetsExt, SequencesExt

CONSTANTS
  WalkDepth,       \* MAX_DIRECTORY_DEPTH
  WireLength,      \* bound on the length of a relative name
  Key(_),          \* windows_name_key of a stem
  NameLength(_)    \* length of a name on the wire

KeyOf(name) == <<Key(name[1])>> \o Tail(name)

NewWalk(maxEntries, hugeFiles) ==
  [max |-> maxEntries, remaining |-> maxEntries, hugeFiles |-> hugeFiles, ancestors |-> {},
   used |-> {}, files |-> <<>>, truncated |-> FALSE]

Full(walk) == Len(walk.files) >= walk.max

(* Mutant: names are compared as they are written.                         *)
CaseSensitiveName(walk, parent, name) ==
  IF <<parent, name>> \notin walk.used THEN name
  ELSE name \o <<CHOOSE n \in 2..(Cardinality(walk.used) + 2) : <<parent, name \o <<n>>>> \notin walk.used>>

(* unique_file_name: the first of name, name (2), name (3)... that no      *)
(* entry of the directory has, upper and lower case being the same.        *)
UniqueName(walk, parent, name) ==
  LET Free(candidate) == <<parent, KeyOf(candidate)>> \notin walk.used
      suffixes == {n \in 2..(Cardinality(walk.used) + 2) : Free(name \o <<n>>)}
  IN IF Free(name) THEN name
     ELSE name \o <<CHOOSE n \in suffixes : \A m \in suffixes : n <= m>>

(* wire_name_fits: each parent with its separator, and the terminal NUL.   *)
WireNameFits(parent, name) ==
  FoldLeft(LAMBDA sum, part : sum + NameLength(part) + 1, 0, parent) + NameLength(name) < WireLength

Emit(walk, parent, name, inode, dir) ==
  [walk EXCEPT !.files = Append(@, [path |-> Append(parent, name), dir |-> dir, inode |-> inode])]

Named(walk, parent, name) == [walk EXCEPT !.used = @ \cup {<<parent, KeyOf(name)>>}]

(* Mutant: the entries beyond the budget are not missed.                   *)
ReserveSilently(walk, count) ==
  [walk EXCEPT !.remaining = @ - (IF count <= @ THEN count ELSE @)]
(* collect_children: each entry looked at costs one of the budget.         *)
Reserve(walk, count) ==
  LET taken == IF count <= walk.remaining THEN count ELSE walk.remaining
  IN [walk EXCEPT !.remaining = @ - taken, !.truncated = @ \/ taken < count]

(* What was collected is sorted, directories first.                        *)
Ordered(fs, entries) ==
  LET sorted == SortSeq(entries, LAMBDA e, f : e.rank < f.rank)
  IN SelectSeq(sorted, LAMBDA e : fs[e.inode].kind = "directory")
     \o SelectSeq(sorted, LAMBDA e : fs[e.inode].kind # "directory")

(* freeze_path and freeze_children *)
RECURSIVE FreezePath(_, _, _, _, _)
FreezePath(fs, walk, entry, parent, depth) ==
  LET inode == entry.inode
      kind == fs[inode].kind
      name == UniqueName(walk, parent, entry.name)
      named == Named(walk, parent, name)
      Enter(w) == [w EXCEPT !.ancestors = @ \cup {inode}]
      Leave(w) == [w EXCEPT !.ancestors = @ \ {inode}]
      Child(w, e) == IF Full(w) THEN [w EXCEPT !.truncated = TRUE]
                     ELSE FreezePath(fs, w, e, Append(parent, name), depth + 1)
      Children(w) ==
        LET reserved == Reserve(w, Len(fs[inode].children))
            seen == SubSeq(fs[inode].children, 1, w.remaining - reserved.remaining)
        IN FoldLeft(Child, reserved, Ordered(fs, seen))
  IN CASE Full(walk) -> [walk EXCEPT !.truncated = TRUE]
       [] ~Full(walk) /\ (depth > WalkDepth \/ kind \in {"gone", "other"}) -> walk
       [] ~Full(walk) /\ depth <= WalkDepth /\ kind \in {"file", "huge"} ->
            IF kind = "huge" /\ ~walk.hugeFiles THEN walk
            ELSE IF ~WireNameFits(parent, name) THEN named
            ELSE Emit(named, parent, name, inode, FALSE)
       [] ~Full(walk) /\ depth <= WalkDepth /\ kind = "directory" ->
            IF inode \in walk.ancestors THEN walk
            ELSE IF ~WireNameFits(parent, name) THEN named
            ELSE Leave(Children(Emit(Enter(named), parent, name, inode, TRUE)))

(* freeze_paths_with_limits: the selection's entries count like any other. *)
Walk(fs, selection, maxEntries, hugeFiles) ==
  LET Turn(at, entry) ==
        IF at.done THEN [at EXCEPT !.walk.truncated = TRUE]
        ELSE IF at.walk.remaining = 0 THEN [done |-> TRUE, walk |-> [at.walk EXCEPT !.truncated = TRUE]]
        ELSE LET after == FreezePath(fs, [at.walk EXCEPT !.remaining = @ - 1], entry, <<>>, 0)
             IN [done |-> Full(after), walk |-> after]
  IN FoldLeft(Turn, [done |-> FALSE, walk |-> NewWalk(maxEntries, hugeFiles)], selection).walk

-----------------------------------------------------------------------------
(* requested_operation: one operation, and a size in one form only.        *)
SizeBytes == 8
RequestedOperation(request) ==
  CASE request.flags = {"size"} /\ request.position = 0 /\ request.length = SizeBytes -> "size"
    [] request.flags = {"range"} -> "range"
    [] OTHER -> "none"

(* Mutant: whatever is under the path now is read.                         *)
ReadByPath(frozen, opened, request, maxChunk) ==
  IF RequestedOperation(request) = "none" \/ request.length > maxChunk
  THEN [ok |-> FALSE, bytes |-> <<>>]
  ELSE [ok |-> TRUE,
        bytes |-> IF RequestedOperation(request) = "size" THEN <<Len(opened.data)>>
                  ELSE SubSeq(opened.data, request.position + 1,
                              Min({request.position + request.length, Len(opened.data)}))]
(* read_frozen_file: the object opened under the path must be the file     *)
(* that was frozen; the length is bounded, what is read is what is left.   *)
ReadFrozenFile(frozen, opened, request, maxChunk) ==
  IF \/ RequestedOperation(request) = "none" \/ frozen = 0 \/ opened.inode # frozen
     \/ opened.kind # "file"
     \/ RequestedOperation(request) = "range" /\ request.length > maxChunk
  THEN [ok |-> FALSE, bytes |-> <<>>]
  ELSE [ok |-> TRUE,
        bytes |-> IF RequestedOperation(request) = "size" THEN <<Len(opened.data)>>
                  ELSE SubSeq(opened.data, request.position + 1,
                              Min({request.position + request.length, Len(opened.data)}))]
===============================================================================
