----------------------------- MODULE MCSession -----------------------------
(* Session with GETs of a file, of a directory and of neither; a request cut *)
(* in its method becomes one of another method.  Files of no and two chunks. *)
EXTENDS Session

Get(path) == [method |-> GET, path |-> path, version |-> <<"V">>, headers |-> <<>>]

A == <<"/", "a">>
Absent == <<"/", "n">>
Dir == <<"/", "d">>
Gets == {Get(A), Get(Absent), Get(Dir)}
OneFile == {A}
OneDirectory == {Dir}

Zeroed == {[k \in 0..BSIZE |-> NUL]}

AllOutcomes == {"harmless", "pointer", "killed"}
FewSizes == {0, 3}
=============================================================================
