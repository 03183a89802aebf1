---------------------------- MODULE WalletProofs ----------------------------
(* Proofs about Wallet, for any requests and public keys. *)
EXTENDS Wallet, TLAPS

LEMMA InitInv == Init => IInv
<1> SUFFICES ASSUME Init PROVE IInv
  OBVIOUS
<1>1. NoStatus \in Status
  BY DEF NoStatus, Status
<1>2. TypeOK
  BY <1>1 DEF Init, TypeOK
<1>3. AliasInv
  BY DEF Init, AliasInv
<1>4. WalletKept
  BY DEF Init, WalletKept, NoStatus
<1> QED BY <1>2, <1>3, <1>4 DEF IInv

\* Each step keeps the types.
LEMMA TypeStep == TypeOK /\ [Next]_vars => TypeOK'
<1> SUFFICES ASSUME TypeOK, [Next]_vars PROVE TypeOK'
  OBVIOUS
<1> USE DEF TypeOK, freighter, default
<1>1. ASSUME NEW r \in Regs, HandleRegisterFreighter(r) PROVE TypeOK'
  BY <1>1 DEF HandleRegisterFreighter, Remove, Add, AddPresent, AddFails
<1>2. ASSUME NEW i \in Inits, InitDefault(i) PROVE TypeOK'
  <2> USE DEF Status
  <2>1. CASE FetchBalance(i)
    <3>1. PICK f \in BOOLEAN :
            /\ f => status[i].address \in funded
            /\ status' = [status EXCEPT ![i].funded = f]
      BY <2>1 DEF FetchBalance
    <3>2. [status[i] EXCEPT !.funded = f] \in Status
      BY <3>1
    <3> QED BY <2>1, <3>1, <3>2 DEF FetchBalance
  <2>2. CASE Generate(i) \/ GeneratePresent(i) \/ Fund(i) \/ GenerateFails(i)
    BY <2>2 DEF Generate, GeneratePresent, Fund, GenerateFails
  <2>3. CASE FetchAddress(i) \/ FetchFails(i)
    BY <2>3 DEF FetchAddress, FetchFails
  <2> QED BY <1>2, <2>1, <2>2, <2>3 DEF InitDefault
<1>3. CASE UNCHANGED vars
  BY <1>3 DEF vars
<1> QED BY <1>1, <1>2, <1>3 DEF Next

\* Each step keeps what AliasInv says of the name freighter-wallet.
LEMMA AliasStep == IInv /\ [Next]_vars => AliasInv'
<1> SUFFICES ASSUME IInv, [Next]_vars PROVE AliasInv'
  OBVIOUS
<1> USE Assumptions DEF IInv, TypeOK, AliasInv
<1>1. ASSUME NEW r \in Regs, HandleRegisterFreighter(r) PROVE AliasInv'
  <2>1. CASE Remove(r)
    BY <2>1 DEF Remove
  <2>2. CASE Add(r)
    BY <2>2 DEF Add
  <2>3. CASE AddPresent(r)
    BY <2>3 DEF AddPresent
  <2>4. CASE AddFails(r)
    BY <2>4 DEF AddFails
  <2> QED BY <1>1, <2>1, <2>2, <2>3, <2>4 DEF HandleRegisterFreighter
<1>2. ASSUME NEW i \in Inits, InitDefault(i) PROVE AliasInv'
  <2>1. UNCHANGED freighter
    BY <1>2 DEF InitDefault, Generate, GeneratePresent, Fund, GenerateFails,
                FetchAddress, FetchFails, FetchBalance
  <2> QED BY <2>1 DEF freighter
<1>3. CASE UNCHANGED vars
  BY <1>3 DEF vars
<1> QED BY <1>1, <1>2, <1>3 DEF Next

\* No step replaces the identity that somebody was told of, or undoes its funding.
LEMMA WalletStep == IInv /\ [Next]_vars => WalletKept'
<1> SUFFICES ASSUME IInv, [Next]_vars PROVE WalletKept'
  OBVIOUS
<1> USE Assumptions DEF IInv, TypeOK, WalletKept, Status
<1>1. ASSUME NEW r \in Regs, HandleRegisterFreighter(r) PROVE WalletKept'
  <2>1. UNCHANGED default
    BY <1>1 DEF HandleRegisterFreighter, Remove, Add, AddPresent, AddFails
  <2> QED BY <2>1 DEF default
<1>2. ASSUME NEW i \in Inits, InitDefault(i) PROVE WalletKept'
  <2>1. CASE Generate(i)
    BY <2>1 DEF Generate
  <2>2. CASE GeneratePresent(i)
    BY <2>2 DEF GeneratePresent
  <2>3. CASE Fund(i)
    BY <2>3 DEF Fund
  <2>4. CASE GenerateFails(i)
    BY <2>4 DEF GenerateFails
  <2>5. CASE FetchAddress(i)
    <3>1. /\ status' = [status EXCEPT ![i].address = key]
          /\ UNCHANGED <<key, funded>>
      BY <2>5 DEF FetchAddress
    <3>2. status'[i].address = key /\ status'[i].funded = status[i].funded
      BY <3>1
    <3>3. \A k \in Inits \ {i} : status'[k] = status[k]
      BY <3>1
    <3>4. status[i].funded => key \in funded
      OBVIOUS
    <3> QED BY <3>1, <3>2, <3>3, <3>4
  <2>6. CASE FetchFails(i)
    BY <2>6 DEF FetchFails
  <2>7. CASE FetchBalance(i)
    <3>1. PICK f \in BOOLEAN :
            /\ f => status[i].address \in funded
            /\ status' = [status EXCEPT ![i].funded = f]
      BY <2>7 DEF FetchBalance
    <3>2. UNCHANGED <<key, funded>>
      BY <2>7 DEF FetchBalance
    <3>3. status'[i].address = status[i].address /\ status'[i].funded = f
      BY <3>1
    <3>4. \A k \in Inits \ {i} : status'[k] = status[k]
      BY <3>1
    <3>5. f => status[i].address \in funded
      BY <3>1
    <3> QED BY <3>2, <3>3, <3>4, <3>5
  <2> QED BY <1>2, <2>1, <2>2, <2>3, <2>4, <2>5, <2>6, <2>7 DEF InitDefault
<1>3. CASE UNCHANGED vars
  BY <1>3 DEF vars
<1> QED BY <1>1, <1>2, <1>3 DEF Next

\* The invariant holds in every reachable state.
THEOREM Invariant == Spec => []IInv
<1>1. IInv /\ [Next]_vars => IInv'
  BY TypeStep, AliasStep, WalletStep DEF IInv
<1> QED BY InitInv, <1>1, PTL DEF Spec

\* The variables of the wallet's handlers and of the key store keep their types.
THEOREM TypeCorrect == Spec => []TypeOK
<1>1. IInv => TypeOK
  BY DEF IInv
<1> QED BY Invariant, <1>1, PTL

\* A name whose registrations all ended well has a key that was answered ok.
THEOREM AliasInForceHolds == Spec => []AliasInForce
<1>1. IInv => AliasInForce
  BY DEF IInv, TypeOK, AliasInv, AliasInForce, Quiet
<1> QED BY Invariant, <1>1, PTL

\* The wallet of which a client was told stays the default wallet, and funded if it was told
\* so, through retries, failed fundings and concurrent initialisations.
THEOREM WalletKeptHolds == Spec => []WalletKept
<1>1. IInv => WalletKept
  BY DEF IInv
<1> QED BY Invariant, <1>1, PTL
=============================================================================
