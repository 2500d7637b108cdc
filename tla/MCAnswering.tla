---------------------------- MODULE MCAnswering ----------------------------
(* What stands between a client and its answer, in small instances.  1 to 4 *)
(* are host names, 5 a reverse name, 6 no name; 7 and 8 are addresses.      *)
(*                                                                          *)
(* Queries only meet in the runtime, which they do not write: one at a time *)
(* shows what any of them can see.  In the pause a second is four ticks and *)
(* a duration is less than 64 of them: 15 s is the longest that does not    *)
(* wrap, 16 s wrap to an end long past and 33 s to a single second.         *)
EXTENDS Answering, Integers
CONSTANTS r1, r2, loader, aQuery

Hosts == 1 .. 4
Seconds == {-1, 0, 1, 2, 15, 16, 33}

Input(name, type, value, ttl, enabled) ==
    [name |-> name, type |-> type, value |-> value, ttl |-> ttl, enabled |-> enabled]
EditInputs ==
    {Input(1, "CNAME", 2, 0, TRUE), Input(2, "A", 7, 2, TRUE), Input(2, "A", 8, 2, TRUE),
     Input(5, "PTR", 1, 2, FALSE), Input(1, "PTR", 2, 2, TRUE), Input(6, "A", 7, 2, TRUE)}

Numbered(rows) ==
    LET row(k) == [id |-> k, name |-> rows[k].name, type |-> rows[k].type,
                   value |-> rows[k].value, ttl |-> 2, enabled |-> rows[k].enabled]
    IN  [k \in 1 .. Len(rows) |-> row(k)]

(* What each of four host names may have; name 1 may have two aliases.      *)
Alias(n) == {<<Input(n, "CNAME", t, 2, TRUE)>> : t \in Hosts}
MayHave(n) == Alias(n) \cup {<<>>, <<Input(n, "A", 7, 2, TRUE)>>}
Fork == {<<Input(1, "CNAME", t, 2, TRUE), Input(1, "CNAME", 2, 2, e)>> : t \in {3, 4}, e \in BOOLEAN}
Both == {<<Input(2, "CNAME", 3, 2, TRUE), Input(2, "AAAA", 8, 2, TRUE)>>}
HostTables ==
    {Numbered(a \o b \o c \o d) :
        a \in MayHave(1) \cup Fork, b \in MayHave(2) \cup Both, c \in MayHave(3), d \in MayHave(4)}
=============================================================================
