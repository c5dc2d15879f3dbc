------------------------------- MODULE MCXioApp -------------------------------
(***************************************************************************)
(* XioApp with the program's own screen and list sizes, directories from   *)
(* empty to longer than the list, and files on fragmented chains: in both  *)
(* byte orders, with a partial sector, with a chain that is too short.     *)
(***************************************************************************)
EXTENDS XioApp

File(size, tail, order, chain) == [size |-> size, tail |-> tail, order |-> order, chain |-> chain]

Native == File(5, FALSE, "z64", <<2, 3, 7>>)
ByteSwapped == File(6, FALSE, "v64", <<4, 9, 6>>)
WithTail == File(4, TRUE, "z64", <<10, 8, 5>>)
SwappedTail == File(3, TRUE, "v64", <<14, 16>>)
Short == File(1, FALSE, "v64", <<11>>)
Damaged == File(6, FALSE, "v64", <<12, 13>>)
MCFiles == {Native, ByteSwapped, WithTail, SwappedTail, Short, Damaged}

Long(n) == [k \in 1 .. n |-> Item(60, k % 7 # 0, ByteSwapped)]
Mixed == <<Item(4, TRUE, Native), Item(9, FALSE, Native), Item(36, FALSE, ByteSwapped),
           Item(37, FALSE, WithTail), Item(11, FALSE, SwappedTail),
           Item(12, FALSE, Short), Item(8, FALSE, Damaged)>>
MCDirs == {<<>>, Mixed, Long(20), Long(30)}
\* The longest that a line has room for.
MCEchoLens == {38}
=============================================================================
