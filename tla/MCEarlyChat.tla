---------------------------- MODULE MCEarlyChat ----------------------------
(***************************************************************************)
(* EarlyChat on a small instance: c1 is written to while it logs in, asks  *)
(* for the users and quits; c2 writes, and competes for the name of c1.    *)
(***************************************************************************)
EXTENDS EarlyChat

CONSTANTS c1, c2, n1, n2, nobody

MCClients == {c1, c2}
MCNames   == {n1, n2}

Login1 == [kind |-> "LOGIN", name |-> n1]
Login2 == [kind |-> "LOGIN", name |-> n2]
Text1  == [kind |-> "MESSAGE", name |-> n1]

MCCommands ==
    [c \in MCClients |->
        IF c = c1 THEN {Login1, Login2, [kind |-> "LIST"], [kind |-> "QUIT"]}
                  ELSE {Login2, Text1}]
MCMaxRequests == [c \in MCClients |-> IF c = c1 THEN 2 ELSE 3]
=============================================================================
