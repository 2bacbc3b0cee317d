-------------------------- MODULE BalanceWithDust ---------------------------
(***************************************************************************)
(* struct balance_with_dust: an asset amount (int64) plus a dust remainder *)
(* (uint64) below one natively representable unit.  Operators += and -=    *)
(* split a 256-bit EVM amount into the two words; -= finds a borrow by     *)
(* looking at the top bit of the dust word.  An eosio::check that fails    *)
(* aborts the transaction: here, the action is not enabled.                *)
(***************************************************************************)
EXTENDS Integers

CONSTANTS MinAsset,   \* minimum_natively_representable: 10^(18 - precision)
          MaxAmount,  \* asset::max_amount, 2^62 - 1
          HalfWord,   \* 2^63: the value of the top bit of a 64-bit word
          Amounts     \* the EVM amounts the operators are called with

\* pow10_const(18 - precision) fits a uint64 and is at most 10^18 < 2^63, and
\* two maximal amounts plus a carry fit an int64 (the comment in operator+=).
ASSUME WordAssumption ==
  /\ HalfWord \in Nat /\ MinAsset \in Nat /\ MaxAmount \in Nat
  /\ 0 < MinAsset /\ MinAsset <= HalfWord
  /\ MaxAmount + MaxAmount + 1 < HalfWord
  /\ Amounts \subseteq Nat

VARIABLES amount,   \* balance.amount
          dust

vars == <<amount, dust>>

Init == amount = 0 /\ dust = 0

\* A 64-bit word of the dust counter, and the two's complement int64 of the
\* asset amount.
Word(x) == x % (HalfWord + HalfWord)
Int64(x) == ((x + HalfWord) % (HalfWord + HalfWord)) - HalfWord

\* udivrem(amount, minimum_natively_representable)
Quot(x) == x \div MinAsset
Rem(x) == x % MinAsset

-----------------------------------------------------------------------------
(* The tests that decide whether the dust word rolls over and the closing  *)
(* checks, some of them after a slip that would break them.                *)

CarryStrict(word) == word > MinAsset

\* operator+=: the dust has reached one natively representable unit.
Carry(word) == word >= MinAsset

\* operator-=: the unsigned subtraction went below zero.
Borrow(word) == word >= HalfWord

FitsUpToCarry(total) == total <= MaxAmount + 1

\* operator+=: the closing "accumulation overflow" check.
Fits(total) == total <= MaxAmount

CoversPositive(rest) == rest > 0

\* operator-=: the closing "decrementing more than available" check.
Covers(rest) == rest >= 0
-----------------------------------------------------------------------------

\* The words operator+= computes, and the checks it makes.
PlusWord(x) == Word(dust + Rem(x))
PlusTotal(x) ==
  LET sum == Int64(amount + Quot(x))
  IN  IF Carry(PlusWord(x)) THEN Int64(sum + 1) ELSE sum
PlusAllowed(x) ==
  Quot(x) <= MaxAmount /\ amount <= MaxAmount /\ Fits(PlusTotal(x))

PlusAssign(x) ==
  /\ PlusAllowed(x)
  /\ amount' = PlusTotal(x)
  /\ dust' = IF Carry(PlusWord(x)) THEN Word(PlusWord(x) - MinAsset)
                                   ELSE PlusWord(x)

\* The words operator-= computes, and the checks it makes.
MinusWord(x) == Word(dust - Rem(x))
MinusTotal(x) ==
  LET rest == Int64(amount - Quot(x))
  IN  IF Borrow(MinusWord(x)) THEN Int64(rest - 1) ELSE rest
MinusAllowed(x) ==
  Quot(x) <= amount /\ (Borrow(MinusWord(x)) => Covers(MinusTotal(x)))

MinusAssign(x) ==
  /\ MinusAllowed(x)
  /\ amount' = MinusTotal(x)
  /\ dust' = IF Borrow(MinusWord(x)) THEN Word(MinusWord(x) + MinAsset)
                                     ELSE MinusWord(x)

Next == \E x \in Amounts : PlusAssign(x) \/ MinusAssign(x)

Spec == Init /\ [][Next]_vars

-----------------------------------------------------------------------------
(* Properties *)

\* The amount the two words stand for, and the largest one they can hold.
Value == amount * MinAsset + dust
Cap == (MaxAmount + 1) * MinAsset - 1

\* The asset amount stays within asset::max_amount and the dust below one
\* representable unit, so each amount has exactly one representation.
TypeOK == amount \in 0..MaxAmount /\ dust \in 0..(MinAsset - 1)

Exact == INSTANCE BoundedCounter WITH value <- Value, Cap <- Cap

\* += and -= compute the exact sum and difference of the amounts, across any
\* sequence of carries and borrows, and stay within 0..Cap.
ExactArithmetic == Exact!Spec

\* += and -= abort only when the exact result does not fit: an amount that is
\* available can always be taken, whatever mix of whole units and dust it is.
AbortsOnlyOutOfRange ==
  \A x \in Amounts : /\ Value + x <= Cap => PlusAllowed(x)
                     /\ x <= Value => MinusAllowed(x)
=============================================================================
