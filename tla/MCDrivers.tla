----------------------------- MODULE MCDrivers -----------------------------
(* Instances of Drivers. *)
EXTENDS Drivers

\* Bytes: two letters of the pattern, the probe's 'w' and the byte 0.
FourBytes == {"a", "b", "w", "0"}
Page(s) == [k \in 0 .. pagesize - 1 |-> s[k + 1]]

\* Pages of four bytes: a mapped file and pages that end or begin in the middle
\* of a match, hold a match behind the beginning of one, or the byte 'w'.
SomePages == {Page(<<"a", "b", "0", "0">>), Page(<<"0", "a", "a", "b">>),
              Page(<<"b", "0", "w", "a">>), Page(<<"w", "b", "a", "b">>)}

AB == <<"a", "b">>
OneOrThree == {1, 3}

\* The last byte of a page and the first of the next.
NoneOrTwo == {{}, {7, 8}}
=============================================================================
