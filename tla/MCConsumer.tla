----------------------------- MODULE MCConsumer -----------------------------
(* Values for the constants of Consumer that a .cfg cannot write down.     *)
EXTENDS Consumer

MCWidth ==
    [token \in Names \cup {":", "-", "0", "1", "2", "0000000000"} |->
        IF token = "long" THEN NAMELEN + 1 ELSE IF token = "0000000000" THEN 10 ELSE 1]

MCNumberOf ==
    [token \in {"0", "1", "2", "0000000000"} |->
        CASE token = "1" -> 1 [] token = "2" -> 2 [] OTHER -> 0]

MCNames == {"a", "b", "long"}

Text(n) ==
    {<<n>>} \cup {<<n, ":", k>> : k \in {"0", "1"}}
            \cup {<<n, ":", k, "-", l>> : k \in {"0", "1", "0000000000"}, l \in {"0", "2"}}

(* Up to TOPICS_MAX + 1 elements: one more than create looks at. *)
AllTopics ==
    LET texts == UNION {Text(n) : n \in Names}
    IN  {<<>>, << <<"a">>, <<"b", ":", "0", "-", "2">>, <<"a", ":", "1", "-", "0">> >>}
            \cup {<<t>> : t \in texts}
            \cup {<<t, u>> : t \in Text("a"), u \in texts}

Results == {"OK", "UNKNOWN", "INVALID"}

Prop == [prefixed : BOOLEAN, topic : Results, global : Results, group : BOOLEAN]

(* Every property alone, and after one that is taken. *)
AllProps ==
    LET first == [prefixed |-> TRUE, topic |-> "UNKNOWN", global |-> "OK", group |-> FALSE]
        mine  == {p \in Prop : p.group => ~p.prefixed}
    IN  {<<>>} \cup {<<p>> : p \in mine} \cup {<<first, p>> : p \in mine}

NoProps == {<<>>}
=============================================================================
