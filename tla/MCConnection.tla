---------------------------- MODULE MCConnection ----------------------------
(***************************************************************************)
(* Connection with a buffer of 20 cells: requests on both sides of that    *)
(* size, and requests of each kind its properties leave out.               *)
(***************************************************************************)
EXTENDS Connection

Request(method, path, headers) ==
  [method |-> method, path |-> path, version |-> <<"V">>, headers |-> headers]
Get(path, headers) == Request(GET, path, headers)

A == <<"/", "a">>
Absent == <<"/", "n">>
Dir == <<"/", "d">>
Header(value) == <<"H", ":">> \o value \o <<CR, LF>>

OneGet == {Get(A, <<>>)}

\* Blocks of 12, 17, 19 and 21 cells, and one of exactly 20.
Gets == {Get(A, <<>>), Get(Absent, Header(<<"h">>)), Get(A, Header(<<"h", SP, "h">>)),
         Get(A, Header(<<"h", "h", "h", "h", "h">>))}
FillingGet == {Get(A, Header(<<"h", "h", SP, "h">>))}

\* Another method, no version, a path that sscanf cuts to that of a file.
Others == {Get(Dir, <<>>), Request(<<"P">>, A, <<>>), Get(A \o <<"b">>, <<>>),
           [Get(A, <<>>) EXCEPT !.version = <<>>]}
GetsAndOthers == Gets \union Others

\* A request with the word GET in a header, whose lines from there on look like
\* a request of their own.
Asking == {Request(<<"P">>, A, <<"M", ":", SP>> \o GET \o <<CR, LF, "H", ":", SP, "h", CR, LF>>)}

OneFile == {A}
OneDirectory == {Dir}

\* Memory nobody used before, and memory full of an old request.
Zeroed == [k \in 0..BSIZE |-> NUL]
OldRequest == LET old == Render(Get(Absent, <<>>)) IN [k \in 0..BSIZE |-> old[(k % Len(old)) + 1]]
AnyMemory == {Zeroed, OldRequest}

Harmless == {"harmless"}
Pointer == {"pointer"}
=============================================================================
