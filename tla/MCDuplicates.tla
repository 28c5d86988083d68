---------------------------- MODULE MCDuplicates ----------------------------
(***************************************************************************)
(* Duplicates for TLC: the directory r holds a file and the directory d,   *)
(* which holds a file and the directory h, whose name begins with a dot    *)
(* and which holds a file.                                                 *)
(***************************************************************************)
EXTENDS Duplicates

CONSTANTS r, d, h, f1, f2, f3, nowhere

Tree == (r :> nowhere) @@ (d :> r) @@ (h :> d) @@ (f1 :> r) @@ (f2 :> d) @@ (f3 :> h)

\* blocks with as many ones collide: of blocks of one byte, none do
Ones(block) == Cardinality({k \in DOMAIN block : block[k] = 1})

SomeContents == {<<>>, <<0, 1>>, <<1, 0>>, <<1, 1>>}

Everything ==
    [include_dirs |-> <<r>>, exclude_dirs |-> {}, masked |-> Files,
     block_size |-> 1, min_size |-> 0, max_depth |-> -1]

SomeSettings ==
    {Everything,
     [Everything EXCEPT !.max_depth = 0],
     [Everything EXCEPT !.max_depth = 1, !.block_size = 2],
     [Everything EXCEPT !.include_dirs = <<r, d>>],
     [Everything EXCEPT !.include_dirs = <<d, r>>, !.exclude_dirs = {[dir |-> d, via |-> r]}],
     [Everything EXCEPT !.exclude_dirs = {[dir |-> d, via |-> nowhere]}],
     [Everything EXCEPT !.exclude_dirs = {[dir |-> r, via |-> r]}],
     [Everything EXCEPT !.include_dirs = <<nowhere, d>>, !.min_size = 2,
                        !.exclude_dirs = {[dir |-> h, via |-> d]}],
     [Everything EXCEPT !.masked = Files \ {f1}, !.block_size = 2]}

SomeDeniedDirs == {{}, {h}}
SomeDeniedFiles == {{}, {f2}}
=============================================================================
