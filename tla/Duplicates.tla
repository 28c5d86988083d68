----------------------------- MODULE Duplicates -----------------------------
(***************************************************************************)
(* bayan of hw-8-boost: FileScanner walks the included directories and     *)
(* groups files by size, DuplicateFinder compares the files of a group     *)
(* block by block.  The program is sequential; what moves beside it is the *)
(* file system.  A file that changes during the walk looks to the walk as  *)
(* if it had changed before or after, so changes come after it.            *)
(*                                                                         *)
(* Blocks are compared by checksum only.  Which blocks have the same one   *)
(* is a parameter, so blocks may collide.                                  *)
(***************************************************************************)
EXTENDS Integers, Sequences, FiniteSets, SequencesExt, Numbering

CONSTANTS
    Dirs, Files,    \* what is there to walk
    Parent,         \* the directory of a file or of a directory
    Hidden,         \* directories whose name begins with a dot
    Contents,       \* what files may hold: sequences of bytes
    Crc(_),         \* the checksum of a block, padding included
    Settings,       \* the settings tried
    DeniedDirs,     \* sets of directories that may be impossible to open
    DeniedFiles,    \* sets of files likewise
    MaxChanges      \* bound: files changed while the program compares

ASSUME FileAssumption ==
    /\ Dirs \cap Files = {}
    /\ \A s \in Settings :
          /\ s.block_size \in Nat \ {0} /\ s.max_depth \in Int
          /\ s.include_dirs \in Seq(ToSet(s.include_dirs)) \ {<<>>}
    /\ Contents \subseteq Seq({0, 1})
    /\ MaxChanges \in Nat

NoTask == [block |-> 0, paths |-> <<>>, sizing |-> FALSE, hashes |-> <<>>,
           any_file_ended |-> FALSE]

VARIABLES
    settings,   \* Settings
    denied,     \* directories that cannot be opened
    unreadable, \* files that cannot be opened
    content,    \* file -> its bytes
    gone,       \* files that were removed
    changes,    \* how often a file has changed
    phase,      \* "scan" | "compare" | "done" | "error"
    dirs,       \* include_dirs still to walk
    root,       \* the include directory that is walked
    it,         \* recursive_directory_iterator: on each level, the entries left
    listing,    \* files found, as [path, via, size], in this order
    stack,      \* calls of check_blocks to come, the next one first
    task,       \* the check_blocks that is reading
    reported    \* the groups printed

env == <<denied, unreadable, content, gone, changes>>
scanVars == <<dirs, root, it, listing>>
bayanVars == <<settings, env, phase, scanVars, stack, task, reported>>

BayanInit ==
    /\ settings \in Settings
    /\ denied \in DeniedDirs
    /\ unreadable \in DeniedFiles
    /\ content \in [Files -> Contents]
    /\ gone = {}
    /\ changes = 0
    /\ phase = "scan"
    /\ dirs = settings.include_dirs
    /\ root = settings.include_dirs[1]
    /\ it = <<>>
    /\ listing = <<>>
    /\ stack = <<>>
    /\ task = NoTask
    /\ reported = <<>>

Entries(d) == {e \in Dirs \cup Files : Parent[e] = d}

\* Ancestors: the least set with the parent of e and of each of its members.
\* Is e strictly below d?  The child of d on the way to e.
Climbs(S, e) == \A x \in S \cup {e} : Parent[x] \in Dirs => Parent[x] \in S
Ancestors(e) == {d \in Dirs : \A S \in SUBSET Dirs : Climbs(S, e) => d \in S}
Below(e, d) == d \in Ancestors(e)
ChildTowards(d, e) == CHOOSE x \in Entries(d) : x = e \/ Below(e, x)

\* a tree: the iterator does not follow symbolic links
ASSUME TreeAssumption ==
    /\ IsFiniteSet(Dirs)
    /\ \A d \in Dirs : ~Below(d, d)

-----------------------------------------------------------------------------
(* FileScanner::scan *)

\* The iterator leaves directories in which no entry is left.
Settle(levels) ==
    SubSeq(levels, 1, Max({0} \cup {k \in DOMAIN levels : levels[k] # {}}))

Without(e) == Append(Front(it), Last(it) \ {e})

\* (mutant of TooDeep: the level is one off)
TooDeep_OffByOne == settings.max_depth >= 0 /\ Len(it) - 1 >= settings.max_depth
TooDeep == settings.max_depth >= 0 /\ Len(it) - 1 > settings.max_depth

\* p == ex: the same directory, spelled as the walk from root spells it
SameSpelling(e, ex) == ex.dir = e /\ ex.via = root

\* is_path_excluded: the relative path begins with a name without a dot
is_path_excluded(e) ==
    \E ex \in settings.exclude_dirs :
        \/ Below(e, ex.dir) /\ ChildTowards(ex.dir, e) \notin Hidden
        \/ SameSpelling(e, ex)

Allowed(f) == Len(content[f]) >= settings.min_size /\ f \in settings.masked

\* fs::exists throws if it cannot look into a directory on the way
MayThrow(dir) == \E d \in denied : dir \in Dirs => Below(dir, d)

\* the next include directory; one that does not exist or cannot be opened is
\* skipped, but fs::exists is outside the try: main prints its error
open_dir ==
    /\ phase = "scan"
    /\ it = <<>>
    /\ dirs # <<>>
    /\ \/ /\ MayThrow(Head(dirs))
          /\ phase' = "error"
          /\ UNCHANGED <<dirs, root, it>>
       \/ /\ dirs' = Tail(dirs)
          /\ root' = Head(dirs)
          /\ it' = IF Head(dirs) \in Dirs \ denied
                   THEN Settle(<<Entries(Head(dirs))>>) ELSE <<>>
          /\ UNCHANGED phase
    /\ UNCHANGED <<settings, env, listing, stack, task, reported>>

\* one turn of the loop: too deep, the whole level is left; a directory is
\* entered, and if it cannot be opened the walk of root ends
visit ==
    /\ phase = "scan"
    /\ it # <<>>
    /\ \E e \in Last(it) :
          \/ /\ TooDeep
             /\ it' = Settle(Front(it))
             /\ UNCHANGED listing
          \/ /\ ~TooDeep
             /\ e \in Dirs
             /\ it' = IF is_path_excluded(e) THEN Settle(Without(e))
                      ELSE IF e \in denied THEN <<>>
                      ELSE Settle(Append(Without(e), Entries(e)))
             /\ UNCHANGED listing
          \/ /\ ~TooDeep
             /\ e \in Files
             /\ it' = Settle(Without(e))
             /\ listing' = IF ~Allowed(e) THEN listing
                           ELSE Append(listing, [path |-> e, via |-> root,
                                                 size |-> Len(content[e])])
    /\ UNCHANGED <<settings, env, phase, dirs, root, stack, task, reported>>

-----------------------------------------------------------------------------
(* DuplicateFinder::run and check_blocks *)

Paths(list) == [k \in DOMAIN list |-> list[k].path]
OfSize(n) == InOrder({k \in DOMAIN listing : listing[k].size = n}, Paths(listing))
FileSizes == {x.size : x \in ToSet(listing)}

\* The orders in which the elements of a set may come.
Orders(S) == Bijection(1..Cardinality(S), S)

\* sizes ascend, because std::map does; a group of one is not compared
run ==
    /\ phase = "scan"
    /\ it = <<>> /\ dirs = <<>>
    /\ phase' = "compare"
    /\ \E sizes \in Orders({n \in FileSizes : Len(OfSize(n)) >= 2}) :
          /\ \A i, j \in DOMAIN sizes : i < j => sizes[i] < sizes[j]
          /\ stack' = [k \in DOMAIN sizes |-> [paths |-> OfSize(sizes[k]), block |-> 0]]
    /\ UNCHANGED <<settings, env, scanVars, task, reported>>

check_blocks ==
    /\ phase = "compare"
    /\ task = NoTask
    /\ stack # <<>>
    /\ task' = [NoTask EXCEPT !.paths = Head(stack).paths, !.block = Head(stack).block]
    /\ stack' = Tail(stack)
    /\ UNCHANGED <<settings, env, phase, scanVars, reported>>

\* the bytes of a block, zeros where the file has ended
BlockOf(f, block) ==
    LET at(k) == block * settings.block_size + k IN
    [k \in 1..settings.block_size |->
        IF at(k) <= Len(content[f]) THEN content[f][at(k)] ELSE 0]

calculate_crc32(f, block) == Crc(BlockOf(f, block))

\* open, seek, read and hash; a file that cannot be opened leaves the group
read_block ==
    LET f == Head(task.paths) IN
    /\ phase = "compare"
    /\ task.paths # <<>> /\ ~task.sizing
    /\ task' =
          IF f \in gone \cup unreadable
          THEN [task EXCEPT !.paths = Tail(@)]
          ELSE [task EXCEPT !.sizing = TRUE,
                            !.hashes = Append(@, [path |-> f,
                                                  hash |-> calculate_crc32(f, task.block)])]
    /\ UNCHANGED <<settings, env, phase, scanVars, stack, reported>>

\* (mutant of Ended: the last block but one counts as the last)
Ended_Early(f, block) == (block + 2) * settings.block_size >= Len(content[f])
Ended(f, block) == (block + 1) * settings.block_size >= Len(content[f])

\* fs::file_size, which throws if the file is gone: main prints the error
file_size ==
    LET f == Head(task.paths) IN
    /\ phase = "compare"
    /\ task.sizing
    /\ \/ /\ f \in gone
          /\ phase' = "error"
          /\ UNCHANGED task
       \/ /\ f \notin gone
          /\ task' = [task EXCEPT !.sizing = FALSE, !.paths = Tail(@),
                                  !.any_file_ended = @ \/ Ended(f, task.block)]
          /\ UNCHANGED phase
    /\ UNCHANGED <<settings, env, scanVars, stack, reported>>

\* (mutants: the whole group is printed for each hash; the same block again)
Printed_All(group) == Paths(task.hashes)
NextBlock_Same == task.block

Printed(group) == group
NextBlock == task.block + 1

\* hash_groups, and the hashes that two or more paths have
WithHash(h) ==
    InOrder({k \in DOMAIN task.hashes : task.hashes[k].hash = h}, Paths(task.hashes))
SharedHashes == {h \in {x.hash : x \in ToSet(task.hashes)} : Len(WithHash(h)) >= 2}

\* all blocks are read: print, or go one block deeper, group by group
compare ==
    /\ phase = "compare"
    /\ task # NoTask /\ task.paths = <<>>
    /\ task' = NoTask
    /\ \E hashes \in Orders(SharedHashes) :
          \/ /\ task.any_file_ended
             /\ reported' = reported \o
                    [k \in DOMAIN hashes |-> Printed(WithHash(hashes[k]))]
             /\ UNCHANGED stack
          \/ /\ ~task.any_file_ended
             /\ stack' = [k \in DOMAIN hashes |->
                             [paths |-> WithHash(hashes[k]), block |-> NextBlock]] \o stack
             /\ UNCHANGED reported
    /\ UNCHANGED <<settings, env, phase, scanVars>>

main_ends ==
    /\ phase = "compare"
    /\ task = NoTask /\ stack = <<>>
    /\ phase' = "done"
    /\ UNCHANGED <<settings, env, scanVars, stack, task, reported>>

-----------------------------------------------------------------------------
\* somebody writes or removes a file
change ==
    /\ phase = "compare"
    /\ changes < MaxChanges
    /\ changes' = changes + 1
    /\ \E f \in Files \ gone :
          \/ /\ \E new \in Contents \ {content[f]} : content' = [content EXCEPT ![f] = new]
             /\ UNCHANGED gone
          \/ gone' = gone \cup {f} /\ UNCHANGED content
    /\ UNCHANGED <<settings, denied, unreadable, phase, scanVars, stack, task, reported>>

Step == open_dir \/ visit \/ run \/ check_blocks \/ read_block \/ file_size
            \/ compare \/ main_ends

BayanNext == Step \/ change

BayanSpec == BayanInit /\ [][BayanNext]_bayanVars /\ WF_bayanVars(Step)

-----------------------------------------------------------------------------
Times(f, list) == Cardinality({k \in DOMAIN list : list[k] = f})

\* Directories between an include directory and a file, both excluded.
Between(via, f) == {d \in Dirs : Below(d, via) /\ Below(f, d)}

(***************************************************************************)
(* The walk finds a file once for every include directory above it, if the *)
(* file is not too deep, not too small and fits a mask, and unless a       *)
(* directory between them is excluded.  A directory that cannot be opened  *)
(* ends the walk of its include directory, so that files may be missing.   *)
(***************************************************************************)
Excluding(via) ==
    {d \in Dirs : \E ex \in settings.exclude_dirs :
        \/ d = ex.dir /\ via = ex.via
        \/ Below(d, ex.dir) /\ ChildTowards(ex.dir, d) \notin Hidden}

Wanted(via, f) ==
    /\ Below(f, via)
    /\ settings.max_depth >= 0 => Cardinality(Between(via, f)) <= settings.max_depth
    /\ Between(via, f) \cap Excluding(via) = {}
    /\ f \in settings.masked

ListingComplete ==
    phase = "compare" /\ changes = 0 =>
        \A f \in Files :
            LET found == Times(f, Paths(listing))
                wanted == Cardinality({k \in DOMAIN settings.include_dirs :
                              /\ settings.include_dirs[k] \in Dirs
                              /\ Wanted(settings.include_dirs[k], f)
                              /\ Len(content[f]) >= settings.min_size})
            IN  /\ found <= wanted
                /\ denied = {} => found = wanted

(***************************************************************************)
(* If no file changes, the groups printed are exactly the sets of two or   *)
(* more listed files of one size whose blocks all have the same checksums, *)
(* each once, files that cannot be opened left out.  So files with the     *)
(* same bytes are never separated, and if no checksums collide, the files  *)
(* of a group have the same bytes.                                         *)
(***************************************************************************)
BlocksRead(f) ==
    {b \in 0..Len(content[f]) : b = 0 \/ b * settings.block_size < Len(content[f])}

LookAlike(f, g) ==
    /\ Len(content[f]) = Len(content[g])
    /\ \A b \in BlocksRead(f) : Crc(BlockOf(f, b)) = Crc(BlockOf(g, b))

Collision ==
    \E f, g \in Files : \E b \in BlocksRead(f) :
        Crc(BlockOf(f, b)) = Crc(BlockOf(g, b)) /\ BlockOf(f, b) # BlockOf(g, b)

ReportExact ==
    phase = "done" /\ changes = 0 =>
        LET path == Paths(listing)
            read == {k \in DOMAIN path : path[k] \notin unreadable}
            alike(k) == {j \in read : LookAlike(path[j], path[k])}
            same(k) == {j \in read : content[path[j]] = content[path[k]]}
            groups == {InOrder(alike(k), path) : k \in {j \in read : Cardinality(alike(j)) >= 2}}
        IN  /\ ToSet(reported) = groups /\ Len(reported) = Cardinality(groups)
            /\ ~Collision => \A k \in read : alike(k) = same(k)

(***************************************************************************)
(* Whatever happens to the files meanwhile, a file found once is printed   *)
(* once at most: groups never overlap.                                     *)
(***************************************************************************)
NoPathTwice ==
    \A f \in Files :
        Times(f, FlattenSeq(reported)) <= Times(f, Paths(listing))

(***************************************************************************)
(* The program ends (block_size is not 0), even if files shrink, grow or   *)
(* vanish while it compares them.                                          *)
(***************************************************************************)
BayanEnds == <>(phase \in {"done", "error"})
=============================================================================
