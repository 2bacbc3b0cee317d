--------------------------- MODULE MCBridgeLedger ---------------------------
EXTENDS BridgeLedger

CONSTANTS a, b, e

Movement(kind, to, value, recv) ==
  [kind |-> kind, to |-> to, value |-> value, src |-> None, recv |-> recv]
Calls(to, value) == Movement("call", to, value, None)
Pays(src, to, value) == [Calls(to, value) EXCEPT !.src = src]

\* b is an account with code.  One representable unit is 2, so that an amount
\* of 1 is dust.  The payloads reach each branch of the egress loop.
EgressPayloads ==
  { <<>>,
    <<Calls(e, 1)>>,
    <<Calls(b, 1)>>,
    <<Calls(b, 2), Calls(e, 1)>>,
    <<Calls(b, 2), Calls(b, 2)>>,
    <<Movement("payout", b, 2, None)>>,
    <<Pays(e, b, 2)>>,
    <<Movement("burn", None, 1, None)>> }

\* b receives bridge messages and reacts to them.
MessagePayloads ==
  { <<>>, <<Movement("call", Self, 2, b)>>,
    <<Calls(a, 2), Movement("call", Self, 2, b)>> }

UpgradePayloads ==
  { <<>>, <<Calls(b, 2)>>, <<Pays(e, b, 1)>>,
    <<Movement("payout", b, 2, None)>>,
    <<Movement("burn", None, 1, None)>> }

Setting(version, price, cut, fee) ==
  [version |-> version, price |-> price, minerCut |-> cut, ingressFee |-> fee,
   ingressGas |-> 1, newAccountGas |-> 0]

Version0 == {Setting(0, 1, 1, 1), [Setting(0, 1, 1, 1) EXCEPT !.ingressGas = 2]}
Version1 == {Setting(1, 1, 0, 1)}
Upgrades == {Setting(0, 1, 1, 0), Setting(1, 1, 0, 1), Setting(3, 0, 0, 0), Setting(3, 2, 0, 1)}

\* spendable only describes the step just made: no action reads it.
Tables == <<tables, frozen, cfg, inline, saved>>
=============================================================================
