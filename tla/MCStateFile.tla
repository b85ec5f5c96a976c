---------------------------- MODULE MCStateFile ----------------------------
(* State files of a few short entries for TLC. *)
EXTENDS StateFile

\* A text with a new line inside, one with a "!" (a board starts with no text).
TwoMessages == {[mode |-> "c", text |-> <<"x", "nl", "x">>],
                [mode |-> "p", text |-> <<"!">>]}
LongMessage == {[mode |-> "p", text |-> <<"x", "x", "x", "x", "x">>]}

NoTail   == {<<>>}
TwoTails == {<<>>, <<"j">>}

\* A number too long, and no mode; a length that is not a number; a text that is too short, or too long and
\* with a "!" in the line that is left of it, for which an entry is never filled.
NoFiles   == {}
FourFiles == {<<"!", "1", "1", "1", "1", "1", "1", "1", "1", "1", "1", "nl">>,
              <<"!", "1", "p", "x", "nl">>,
              <<"!", "1", "p", "3", "nl", "x", "nl", "!", "2", "p", "0", "nl", "nl">>,
              <<"!", "1", "p", "1", "nl", "x", "x", "!", "nl">>}

JustTwo == {2}
============================================================================
