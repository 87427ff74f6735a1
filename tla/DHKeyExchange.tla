--------------------------- MODULE DHKeyExchange ----------------------------
(***************************************************************************)
(* The arithmetic of a key exchange (DHKeyExchange.cc, CryptoSession.cc):  *)
(* public keys, the secret that two ends share, and the bytes a public key *)
(* is sent as.  Prime stands for the 2048 bits of group 14.                *)
(***************************************************************************)
EXTENDS Codec

CONSTANTS Prime, Generator

ASSUME DHAssumption ==
    /\ Prime \in Nat /\ Generator \in Nat
    /\ 1 < Generator /\ Generator < Prime

(* Square and multiply, from the lowest bit of the exponent: what one turn *)
(* of the loop does to the base, the exponent and the result.              *)

\* Fault: the base is squared before it is used.
TurnLate(s, modulus) ==
    [base |-> (s.base * s.base) % modulus,
     exponent |-> s.exponent \div 2,
     result |-> IF s.exponent % 2 = 1
                THEN (s.result * s.base * s.base) % modulus ELSE s.result]

Turn(s, modulus) ==
    [base |-> (s.base * s.base) % modulus,
     exponent |-> s.exponent \div 2,
     result |-> IF s.exponent % 2 = 1 THEN (s.result * s.base) % modulus ELSE s.result]

(* The loop ends when the exponent is 0, after that many turns at most.    *)
ModExp(base, exponent, modulus) ==
    LET loop[i \in Nat] ==
            IF i = 0
            THEN [base |-> base % modulus, exponent |-> exponent, result |-> 1]
            ELSE IF loop[i - 1].exponent = 0 THEN loop[i - 1]
            ELSE Turn(loop[i - 1], modulus)
    IN  loop[exponent].result

(* What it should compute: one factor for each unit of the exponent.       *)
Power(base, exponent) ==
    LET power[e \in Nat] ==
            IF e = 0 THEN 1 ELSE (power[e - 1] * base) % Prime
    IN  power[exponent]

PublicKey(private) == ModExp(Generator, private, Prime)
SharedSecret(private, peer) == ModExp(peer, private, Prime)

(* SHA-256 is taken to be one to one.                                      *)
DeriveKey(secret) == <<"sha256", secret>>
EstablishedKey(private, peer) == DeriveKey(SharedSecret(private, peer))

(* A public key as bytes, of which a cell holds Half.                      *)

\* Fault: a key is as long as its value.
KeyBytesShort(key) == IF key < Half THEN <<Num(key)>> ELSE <<Num(key \div Half), Num(key % Half)>>

KeyBytes(key) == <<Num(key \div Half), Num(key % Half)>>
KeySize == 2

KeyOf(cells) == cells[1][2] * Half + cells[2][2]
=============================================================================
