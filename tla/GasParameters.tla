--------------------------- MODULE GasParameters ----------------------------
(***************************************************************************)
(* How updtgasparam turns the price of RAM and the storage price into the  *)
(* gas parameters of the EVM (update_consensus_parameters,                 *)
(* check_gas_overflow).  Numbers of the code are constants here, so that   *)
(* TLC can check a small machine word and the proofs cover every one.      *)
(* uint64_t arithmetic wraps around.  The operations on doubles that lead  *)
(* to a number round it each by a relative error of 2^-53 at most: what    *)
(* they give is any number within one part in Precision of the exact       *)
(* fraction.  Where that decides a check, the model lets the call pass;    *)
(* a call that fails changes nothing.                                      *)
(***************************************************************************)
EXTENDS Integers

CONSTANTS Limit,         \* overflow_limit, 2^63 - 1
          MaxCodeSize,   \* kMaxCodeSize, 24576
          AccountBytes,  \* account_bytes, 347
          ContractBytes, \* contract_fixed_bytes, 606
          SlotBytes,     \* storage_slot_bytes, 346
          SsetMin,       \* gas_sset_min, 2900
          Mega,          \* bytes in the unit RAM is priced in, 2^20
          Native,        \* get_minimum_natively_representable
          Precision,     \* the seven roundings together, 2^50
          RamPrices,     \* the arguments: ram_price_mb, which is signed,
          StoragePrices  \* and storage_price

ASSUME GasParametersAssumption ==
  /\ Limit \in Nat /\ Limit >= 3 /\ Precision \in Nat /\ Precision >= 4
  /\ {MaxCodeSize, AccountBytes, ContractBytes, SlotBytes, Mega, Native} \subseteq Nat \ {0}
  /\ AccountBytes <= ContractBytes /\ SlotBytes <= ContractBytes
  /\ SsetMin \in Nat /\ SsetMin <= ContractBytes * (MaxCodeSize - 1)
  /\ Limit <= ContractBytes * MaxCodeSize * (Precision - 2)
  /\ RamPrices \subseteq Int /\ StoragePrices \subseteq Nat

\* uint64_t
WordSize == 2 * (Limit + 1)
Wrap(n) == n % WordSize

\* What RAM costs per byte, in fractions of the smallest unit of the EVM
RamCost(ram) == ram * Native

\* Any price of RAM, then the first of the checks "gas_per_byte too big":
\* (double)overflow_limit is Limit + 1.
AnyRamPrice(ram) == TRUE
RamPriceFits(ram) == RamCost(ram) * Precision < (Limit + 1) * Mega * (Precision + 1)

\* What the cast to uint64_t makes of a double that is n / d up to the rounding
Cast(n, d) == ((n * (Precision - 1)) \div (d * Precision))..((n * (Precision + 1)) \div (d * Precision))

\* gas_per_byte_f cast as it is, and cast after 1.0 is added.  Rounding does not take
\* a number that is at least 1 below 1, and 0 does not pass check_gas_overflow.
Truncated(ram, price) == {g \in Cast(RamCost(ram), price * Mega) : g >= 1}
GasPerByte(ram, price) ==
  {g \in Cast(RamCost(ram) + price * Mega, price * Mega) : g >= 1}

\* What gas_per_byte is set to.  At the version that updtgasparam needs there is
\* no miner cut.
Converted(ram, price) ==
  IF price > 0 /\ RamPriceFits(ram) /\ ram >= 0 THEN GasPerByte(ram, price) ELSE {}

\* Forgets that the code is charged by the byte
CheckCreationOnly(create, deposit) == create + deposit <= Limit

\* check_gas_overflow
CheckGasOverflow(create, deposit) ==
  /\ Limit \div create >= MaxCodeSize
  /\ Wrap(Limit - Wrap(MaxCodeSize * create)) >= deposit

\* The checks of gas_per_byte
GasFits(g) ==
  /\ ContractBytes * g * Precision < (Limit + 1) * (Precision + 1)
  /\ CheckGasOverflow(Wrap(ContractBytes * g), g)

\* The parameters handed to update_consensus_parameters2
Parameters(g, version) ==
  [newaccount  |-> Wrap(AccountBytes * g), \* gas_txnewaccount and gas_newaccount
   txcreate    |-> Wrap(ContractBytes * g),
   codedeposit |-> g,
   sset        |-> Wrap((IF version < 3 THEN SsetMin ELSE 0) + Wrap(SlotBytes * g))]

VARIABLES cast,     \* the last gas_per_byte, also if the checks then fail (history)
          settings  \* the calls that passed, with the parameters they set (history)

DerivationInit == cast = 0 /\ settings = {}

\* update_consensus_parameters, up to the call of update_consensus_parameters2
UpdateConsensusParameters(ram, price, version) ==
  \E g \in Converted(ram, price) :
    /\ cast' = g
    /\ settings' =
         IF GasFits(g)
         THEN settings \cup {[ram |-> ram, price |-> price, version |-> version,
                              params |-> Parameters(g, version)]}
         ELSE settings

DerivationNext ==
  \E ram \in RamPrices, price \in StoragePrices, version \in 1..3 :
    UpdateConsensusParameters(ram, price, version)

Derivation == DerivationInit /\ [][DerivationNext]_<<cast, settings>>

-----------------------------------------------------------------------------
(* Properties *)

\* The cast of a double to uint64_t in update_consensus_parameters is defined, for
\* every pair of prices that gets that far.
ConversionDefined == cast < WordSize

\* Parameters that are set are what the bytes cost, with nothing lost in a wrapped
\* multiplication, and the most expensive thing that is charged with them, the
\* creation of a contract with the largest code, does not overflow: although
\* check_gas_overflow multiplies the other parameter by the size of the code.
ChargesFit ==
  \A s \in settings :
    LET g == s.params.codedeposit
    IN  /\ s.params.newaccount = AccountBytes * g
        /\ s.params.txcreate = ContractBytes * g
        /\ s.params.sset = (IF s.version < 3 THEN SsetMin ELSE 0) + SlotBytes * g
        /\ s.params.sset <= Limit
        /\ s.params.txcreate + MaxCodeSize * g <= Limit

\* The gas charged for a byte pays for it: at the storage price it is worth more
\* than the RAM, and by one unit of gas at most, give or take one unit that the
\* doubles of update_consensus_parameters may cost.  No error grows with the
\* prices, because the checks refuse a gas_per_byte that doubles cannot count.
StorageCovered ==
  \A s \in settings :
    LET g == s.params.codedeposit
    IN  /\ (g + 1) * (s.price * Mega) > RamCost(s.ram)
        /\ (g - 2) * (s.price * Mega) < RamCost(s.ram)
=============================================================================
