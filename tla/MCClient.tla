------------------------------ MODULE MCClient ------------------------------
(* A client of a small board for TLC. *)
EXTENDS Client, TLC

OneAndTen == {1, 10}
JustOne   == {1}

Word(w) == [is |-> "word", w |-> w]

\* One with an empty line and a long one, one that reads like a query and an update, a
\* deletion, none at all.
SomeTexts == {<<Word(3), NL, NL, Word(70), NL>>,
              <<Word(2), Query(1), NL, Header("@", 10, "p", 2), NL>>,
              <<[is |-> "NULL", w |-> 4], NL>>, <<>>}
OneText   == {<<Word(3), NL>>}

\* Boards whose first entry another client has encrypted with the key "c"; on the larger
\* one nobody has written on the other.
Blank == [mode |-> "p", length |-> 0, text |-> <<>>]
Secret == [mode |-> "c", length |-> 64,
           text |-> <<[is |-> "cipher", w |-> 64, key |-> <<"c">>, text |-> <<Word(3)>>], NL>>]
BoardOfTwo == {1 :> Secret @@ 10 :> Blank}
BoardOfOne == {1 :> Secret}

NoTail   == {<<>>}
SomeTail == {<<[is |-> "junk", w |-> 2]>>}

SomeFiles == {<<>>, <<"a", "b", "nl", "c", "nl">>, <<"a", "nl", "b">>}
OneFile   == {<<"a", "b", "nl", "c", "nl">>}
============================================================================
