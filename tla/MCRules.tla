------------------------------ MODULE MCRules -------------------------------
(***************************************************************************)
(* The webhook queue and three smaller parts that share no state with it,  *)
(* checked for safety in one run of TLC: the first state says which part a *)
(* behaviour is of, and only that part moves.                              *)
(***************************************************************************)
EXTENDS MCDeliveries, Secrets, Keys, Faucet

(* A wallet twice, an address twice, a merchant twice, and another.        *)
Ask(wallet, ip, merchant, via) ==
  [wallet |-> wallet, ip |-> ip, merchant |-> merchant, via |-> via]
MCRequests ==
  {Ask("w1", "i1", "a", "checkout"), Ask("w1", "i2", "a", "dashboard"),
   Ask("w2", "i1", "a", "dashboard"), Ask("w3", "none", "b", "checkout")}

VARIABLE part

RulesInit ==
  /\ part \in {"deliveries", "secrets", "keys", "faucet"}
  /\ DeliveriesInit /\ SecretsInit /\ KeysInit /\ FaucetInit

RulesNext ==
  \/ /\ part = "deliveries" /\ DeliveriesNext
     /\ UNCHANGED <<part, secretsVars, keysVars, faucetVars>>
  \/ /\ part = "secrets" /\ SecretsNext
     /\ UNCHANGED <<part, queueVars, keysVars, faucetVars>>
  \/ /\ part = "keys" /\ KeysNext
     /\ UNCHANGED <<part, queueVars, secretsVars, faucetVars>>
  \/ /\ part = "faucet" /\ FaucetNext
     /\ UNCHANGED <<part, queueVars, secretsVars, keysVars>>

RulesSpec == RulesInit /\ [][RulesNext]_<<part, queueVars, secretsVars, keysVars, faucetVars>>

(* Every part keeps its types.                                             *)
RulesTypeOK ==
  /\ DeliveriesTypeOK /\ SecretsTypeOK /\ KeysTypeOK /\ FaucetTypeOK
=============================================================================
