----------------------------- MODULE MCTokenSwap -----------------------------
(***************************************************************************)
(* The bridge moves from EOS to A, of which core.vaulta is the token       *)
(* contract and which it exchanges for EOS, and perhaps back.  Fake is a   *)
(* token with the symbol of EOS in another contract.  Two accounts, one    *)
(* named before the contract and one after it.                             *)
(***************************************************************************)
EXTENDS TokenSwap

CONSTANTS eosiotoken, othertoken  \* token contracts

EOS == [contract |-> eosiotoken, symbol |-> "EOS"]
A == [contract |-> SwapAccount, symbol |-> "A"]
Fake == [contract |-> othertoken, symbol |-> "EOS"]
AllTokens == {EOS, A, Fake}
Rates == [t \in {EOS, A} |-> IF t = EOS THEN A ELSE EOS]
==============================================================================
