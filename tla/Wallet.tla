------------------------------- MODULE Wallet -------------------------------
(***************************************************************************)
(* The wallet handler (internal/handler/wallet.go): concurrent requests    *)
(* that run `stellar keys` commands in the one runner container, and so    *)
(* share its key store. A command is one step, but for `keys generate      *)
(* --fund`, which makes the identity and then asks a faucet to fund it. A  *)
(* command of POST /run has another HOME, and so another key store.        *)
(*                                                                         *)
(* The commands are external: they are modelled by what the handler relies *)
(* on. `add` and `generate` fail on a name that is present, with an output *)
(* that the handler takes for success; any command may fail otherwise.     *)
(***************************************************************************)
EXTENDS Naturals

CONSTANTS
  Regs,     \* POST /wallet/freighter/register requests
  Address,  \* the public key that each of them registers
  Inits,    \* POST /wallet/default/init requests, and the call at startup
  None

ASSUME Assumptions == None \notin Inits /\ \A r \in Regs : Address[r] # None

VARIABLES
  regPc,    \* where each registration is; "ok" and "error" once answered
  alias,    \* the public key of freighter-wallet
  initPc,   \* where each initialisation is
  key,      \* the default identity: the initialisation that made it
  funded,   \* the identities whose accounts are funded
  status    \* what each initialisation found, and answers

freighter == <<regPc, alias>>
default == <<initPc, key, funded, status>>
vars == <<regPc, alias, initPc, key, funded, status>>

Status == [address : Inits \cup {None}, funded : BOOLEAN]
NoStatus == [address |-> None, funded |-> FALSE]

TypeOK ==
  /\ regPc \in [Regs -> {"new", "add", "ok", "error"}]
  /\ alias \in {Address[r] : r \in Regs} \cup {None}
  /\ initPc \in [Inits -> {"new", "fund", "status", "balance", "ok", "error"}]
  /\ key \in Inits \cup {None} /\ funded \in SUBSET Inits
  /\ status \in [Inits -> Status]

Init ==
  /\ regPc = [r \in Regs |-> "new"]
  /\ alias = None
  /\ initPc = [i \in Inits |-> "new"]
  /\ key = None /\ funded = {}
  /\ status = [i \in Inits |-> NoStatus]
-----------------------------------------------------------------------------
(* HandleRegisterFreighter.                                                *)

\* The remove may fail: its error is ignored.
Remove(r) ==
  /\ regPc[r] = "new"
  /\ alias' \in {alias, None}
  /\ regPc' = [regPc EXCEPT ![r] = "add"]
  /\ UNCHANGED default

\* Mutant: adds first and removes after.
RemoveLast(r) ==
  /\ regPc[r] = "add"
  /\ alias' = None
  /\ regPc' = [regPc EXCEPT ![r] = "ok"]
  /\ UNCHANGED default

Add(r) ==
  /\ regPc[r] = "add" /\ alias = None
  /\ alias' = Address[r]
  /\ regPc' = [regPc EXCEPT ![r] = "ok"]
  /\ UNCHANGED default

\* The output says "already": answered as a success.
AddPresent(r) ==
  /\ regPc[r] = "add" /\ alias # None
  /\ regPc' = [regPc EXCEPT ![r] = "ok"]
  /\ UNCHANGED <<alias, default>>

AddFails(r) ==
  /\ regPc[r] = "add"
  /\ regPc' = [regPc EXCEPT ![r] = "error"]
  /\ UNCHANGED <<alias, default>>
-----------------------------------------------------------------------------
(* InitDefault and HandleInit, which do the same.                          *)

\* Mutant: generate with --overwrite, which replaces an identity that is present.
GenerateOverwrites(i) ==
  /\ initPc[i] = "new"
  /\ key' = i
  /\ initPc' = [initPc EXCEPT ![i] = "fund"]
  /\ UNCHANGED <<freighter, funded, status>>

Generate(i) ==
  /\ initPc[i] = "new" /\ key = None
  /\ key' = i
  /\ initPc' = [initPc EXCEPT ![i] = "fund"]
  /\ UNCHANGED <<freighter, funded, status>>

\* The output says that the identity exists: taken for a success, funded or not.
GeneratePresent(i) ==
  /\ initPc[i] = "new" /\ key # None
  /\ initPc' = [initPc EXCEPT ![i] = "status"]
  /\ UNCHANGED <<freighter, key, funded, status>>

\* The command may also exit zero with the account not funded: nobody looks.
Fund(i) ==
  /\ initPc[i] = "fund"
  /\ funded' \in {funded, funded \cup {i}}
  /\ initPc' = [initPc EXCEPT ![i] = "status"]
  /\ UNCHANGED <<freighter, key, status>>

\* The command fails before or after it made the identity.
GenerateFails(i) ==
  /\ initPc[i] \in {"new", "fund"}
  /\ initPc' = [initPc EXCEPT ![i] = "error"]
  /\ UNCHANGED <<freighter, key, funded, status>>

\* fetchStatus: the address, then the balance; a failure of either is no error.
FetchAddress(i) ==
  /\ initPc[i] = "status" /\ key # None
  /\ status' = [status EXCEPT ![i].address = key]
  /\ initPc' = [initPc EXCEPT ![i] = "balance"]
  /\ UNCHANGED <<freighter, key, funded>>

FetchFails(i) ==
  /\ initPc[i] = "status"
  /\ initPc' = [initPc EXCEPT ![i] = "ok"]
  /\ UNCHANGED <<freighter, key, funded, status>>

\* Mutant: answers without saying whether the account is funded.
FetchNoBalance(i) ==
  /\ initPc[i] = "balance"
  /\ status' = [status EXCEPT ![i] = [address |-> key]]
  /\ initPc' = [initPc EXCEPT ![i] = "ok"]
  /\ UNCHANGED <<freighter, key, funded>>

FetchBalance(i) ==
  /\ initPc[i] = "balance"
  /\ \E f \in BOOLEAN :
       /\ f => status[i].address \in funded
       /\ status' = [status EXCEPT ![i].funded = f]
  /\ initPc' = [initPc EXCEPT ![i] = "ok"]
  /\ UNCHANGED <<freighter, key, funded>>
-----------------------------------------------------------------------------
HandleRegisterFreighter(r) == Remove(r) \/ Add(r) \/ AddPresent(r) \/ AddFails(r)

InitDefault(i) ==
  \/ Generate(i) \/ GeneratePresent(i) \/ Fund(i) \/ GenerateFails(i)
  \/ FetchAddress(i) \/ FetchFails(i) \/ FetchBalance(i)

Next ==
  \/ \E r \in Regs : HandleRegisterFreighter(r)
  \/ \E i \in Inits : InitDefault(i)

Spec == Init /\ [][Next]_vars
-----------------------------------------------------------------------------
(* Properties.                                                             *)

Quiet == \A r \in Regs : regPc[r] # "add"

\* When no registration is in progress and none failed, the key that is registered is
\* one that was answered ok: no interleaving of removes and adds leaves the name without
\* a key, or with that of nobody.
AliasInForce ==
  Quiet /\ (\A r \in Regs : regPc[r] # "error") /\ (\E r \in Regs : regPc[r] = "ok")
    => \E r \in Regs : regPc[r] = "ok" /\ alias = Address[r]

\* The wallet of which an initialisation was told is the default wallet for good, and
\* funded if it was told so: however initialisations interleave, and retry after a failed
\* funding, none makes another identity in the place of one that somebody may use, and
\* none takes the account for funded because the identity exists.
WalletKept ==
  \A i \in Inits :
    /\ status[i].address # None => status[i].address = key
    /\ status[i].funded => key \in funded

\* wallet.go:100, "In that case the alias IS registered with the right public key": a
\* registration is answered ok only when the name has its key.
RegistersItsKey ==
  [][\A r \in Regs : regPc[r] = "add" /\ regPc'[r] = "ok" => alias' = Address[r]]_vars
-----------------------------------------------------------------------------
(* The inductive invariant behind AliasInForce; WalletKept is inductive.   *)

\* The name has the key of a request that was answered ok, or none; it has none only
\* while a registration is between its remove and its add, or after a failure.
AliasInv ==
  /\ alias # None => \E r \in Regs : regPc[r] = "ok" /\ alias = Address[r]
  /\ alias = None =>
       \/ \E r \in Regs : regPc[r] \in {"add", "error"}
       \/ \A r \in Regs : regPc[r] = "new"

IInv == TypeOK /\ AliasInv /\ WalletKept
=============================================================================
