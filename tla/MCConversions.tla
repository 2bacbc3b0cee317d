--------------------------- MODULE MCConversions ----------------------------
(***************************************************************************)
(* Instances of the two conversions of numbers the contract is given: one  *)
(* call of updtgasparam or one message is converted.                       *)
(***************************************************************************)
EXTENDS BridgeMessage, GasParameters

\* Negative, accepted, and too large for either check
MCRamPrices == -1..600

\* Strings of one and two letters
MCReceivers == [string \in {<<1>>, <<1, 1>>} |-> string = <<1>>]

ConversionsInit == Init /\ DerivationInit

ConversionsNext ==
  \/ cast = 0 /\ Next /\ UNCHANGED <<cast, settings>>
  \/ phase = "method_id" /\ cast = 0 /\ DerivationNext /\ UNCHANGED vars

ConversionsSpec == ConversionsInit /\ [][ConversionsNext]_<<vars, cast, settings>>
=============================================================================
