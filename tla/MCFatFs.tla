------------------------------ MODULE MCFatFs -------------------------------
EXTENDS FatFs
\* A plain 8.3 name, a long one and one with the same 8.3 form.
MCNames == {"a", "longest", "longer", "d", "e"}
MCLfn == [n \in MCNames |-> CASE n = "longest" -> 2 [] n = "longer" -> 1 [] OTHER -> 0]
MCBase == [n \in MCNames |-> IF n \in {"longest", "longer"} THEN "long" ELSE n]

a == <<"a">>
long == <<"longest">>
d == <<"d">>
e == <<"e">>
in_d == <<"d", "longer">>
e_in_d == <<"d", "e">>

TreeFiles == {a, long, in_d}
TreeDirs == {d, e, e_in_d}
TreeMoves == {<<a, long>>, <<a, in_d>>, <<long, in_d>>, <<e, e_in_d>>, <<a, a>>}
TreeModes == {{"write", "new"}, {"write", "always"}}
TreeWrites == {<<"x">>}
TreeSetup == <<<<a, <<"p", "q">>>>, <<d, IsDir>>, <<e, IsDir>>>>
TreeOps == {"unlink", "mkdir", "rename", "list", "getfree"}

FileFiles == {a, d}
FileModes == {{"read"}, {"read", "write", "always"}, {"read", "write", "open", "end"}}
FileWrites == {<<"x">>, <<"y", "z">>, <<"u", "v", "w">>}
FileSetup == <<<<a, <<"p", "q", "r", "s", "t">>>>>>
FileOps == {"read", "seek", "sync", "truncate", "linkmap"}
None == {}
=============================================================================
