----------------------------- MODULE MCStateInit ----------------------------
(* Values for the constants of StateInit that a .cfg cannot write down.    *)
EXTENDS StateInit

Header1 == [kind |-> "section", name |-> "test", bytes |-> 0]
Header2 == [kind |-> "section", name |-> "other", bytes |-> 0]
Pair1   == [kind |-> "pair", name |-> "a", bytes |-> 2]
Pair2   == [kind |-> "pair", name |-> "b", bytes |-> 3]

Readable(lines) == [status |-> "ok", lines |-> lines]

NoFiles == {[status |-> "missing", lines |-> <<>>], [status |-> "unreadable", lines |-> <<>>]}

LinesUpTo(n) == UNION {[1 .. k -> {Header1, Header2, Pair1, Pair2}] : k \in 0 .. n}

(* Every file of up to four lines. *)
AllFiles == {Readable(lines) : lines \in LinesUpTo(4)} \cup NoFiles

(* A few for the default file. *)
SomeFiles ==
    NoFiles \cup {Readable(lines) : lines \in {<<>>, <<Header1, Pair1>>, <<Pair2, Header1, Pair1>>}}

OneFile == {Readable(<<Header1, Pair1>>)}

(* Files of up to three lines: within the limit on properties. *)
ShortFiles == {Readable(lines) : lines \in LinesUpTo(3)}

AllScopes == {<<>>, <<3>>, <<7, 0>>, <<0, 4096>>, <<1, 4095>>}
GoodScope == {<<0, 7>>}
=============================================================================
