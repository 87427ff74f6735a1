---------------------------- MODULE MCTransport -----------------------------
(* Transport with a packet of each kind that the program sends.            *)
EXTENDS Transport

MCChars == {"a", "x", "k"}

TextOf(payload) ==
    [type |-> "MESSAGE", seq |-> 1, sender |-> <<"a">>, receiver |-> <<>>, payload |-> payload]

Common == {
    [type |-> "FIELD_REQ", seq |-> 2, request |-> 1, field |-> <<"a">>],
    [type |-> "USER_LIST", seq |-> 3, users |-> <<<<"a">>, <<>>>>],
    [type |-> "CONTROL", seq |-> 4, control |-> 0, replyTo |-> 1 + Half]}

MCEarlyPackets == Common \cup {
    TextOf([type |-> "PLAIN_TEXT", text |-> <<"x">>]),
    [type |-> "REQUEST", seq |-> 5, request |-> 0]}

MCPackets == Common \cup {
    TextOf([type |-> "PLAIN_TEXT", seqno |-> 0, text |-> <<"x">>]),
    TextOf([type |-> "E2E_INIT", seqno |-> 1, timestamp |-> 7, key |-> <<"k">>]),
    TextOf([type |-> "E2E_MSG", seqno |-> 1, nonce |-> 9, text |-> <<"x">>])}
=============================================================================
