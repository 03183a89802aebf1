------------------------------ MODULE MCWallet ------------------------------
(* A small instance of Wallet for TLC. *)
EXTENDS Wallet

CONSTANTS r1, r2, r3, a1, a2

\* One client registers twice, another once.
MCAddress == [r \in Regs |-> IF r = r3 THEN a2 ELSE a1]
=============================================================================
