------------------------------- MODULE MCGate -------------------------------
(* TLC instance of Gate: two operators behind one address; a third token    *)
(* value names nobody.                                                      *)
EXTENDS Gate

CONSTANTS alice, bob, ip, own, other, t1, t2, t3

MCKey == {alice, bob, ip}

MCTokens == <<[name |-> alice, value |-> t1], [name |-> bob, value |-> t2]>>

=============================================================================
