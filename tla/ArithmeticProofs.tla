-------------------------- MODULE ArithmeticProofs --------------------------
(***************************************************************************)
(* The two pieces of machine arithmetic, for every word width: the row of  *)
(* balance_with_dust is exact for every precision, and the gas parameters  *)
(* are right for every code size, table row size and price.  In particular *)
(* both hold for the numbers of the code.                                  *)
(***************************************************************************)
EXTENDS BalanceWithDust, GasParameters, TLAPS

-----------------------------------------------------------------------------
(* balance_with_dust *)

\* Division with remainder by the natively representable unit, as udivrem
\* performs it on every amount.
LEMMA Division ==
  ASSUME NEW x \in Nat
  PROVE  /\ Quot(x) \in Nat
         /\ Rem(x) \in 0..(MinAsset - 1)
         /\ x = Quot(x) * MinAsset + Rem(x)
BY WordAssumption DEF Quot, Rem

\* A word holds a number that fits unchanged, and a small negative number as
\* its two's complement.
LEMMA Words ==
  ASSUME NEW y \in Int
  PROVE  /\ 0 <= y /\ y < HalfWord + HalfWord => Word(y) = y
         /\ y < 0 /\ 0 - HalfWord <= y => Word(y) = y + HalfWord + HalfWord
         /\ 0 - HalfWord <= y /\ y < HalfWord => Int64(y) = y
BY WordAssumption DEF Word, Int64

\* Multiplication by the unit is monotonic, on which every comparison of the
\* whole-unit parts rests.
LEMMA Monotone ==
  ASSUME NEW a \in Int, NEW b \in Int, a <= b
  PROVE  a * MinAsset <= b * MinAsset
BY WordAssumption

\* What operator+= leaves in a well-formed row when its checks pass, and that
\* they pass whenever the exact sum fits.
LEMMA PlusExact ==
  ASSUME TypeOK, NEW x \in Nat
  PROVE  /\ PlusAllowed(x) <=> Value + x <= Cap
         /\ PlusAssign(x) => TypeOK' /\ Value' = Value + x
<1> DEFINE q == Quot(x)
           r == Rem(x)
           carried == IF dust + r >= MinAsset THEN amount + q + 1
                                              ELSE amount + q
           rolled == IF dust + r >= MinAsset THEN dust + r - MinAsset
                                             ELSE dust + r
<1>1. /\ q \in Nat /\ r \in 0..(MinAsset - 1) /\ x = q * MinAsset + r
      /\ amount \in 0..MaxAmount /\ dust \in 0..(MinAsset - 1)
      /\ MinAsset \in Nat /\ HalfWord \in Nat /\ MaxAmount \in Nat
      /\ 0 < MinAsset /\ MinAsset <= HalfWord
      /\ MaxAmount + MaxAmount + 1 < HalfWord
  BY Division, WordAssumption DEF TypeOK
<1> HIDE DEF q, r
<1>2. PlusWord(x) = dust + r
  BY <1>1, Words DEF PlusWord, r
<1>3. ASSUME q <= MaxAmount
      PROVE  PlusTotal(x) = carried
  <2>1. Int64(amount + q) = amount + q
    BY <1>1, <1>3, Words
  <2>2. Int64(amount + q + 1) = amount + q + 1
    BY <1>1, <1>3, Words
  <2> QED  BY <1>1, <1>2, <2>1, <2>2 DEF PlusTotal, Carry, q
<1>4. carried * MinAsset + rolled = Value + x
  <2>1. (amount + q + 1) * MinAsset = amount * MinAsset + q * MinAsset + MinAsset
    BY <1>1
  <2>2. (amount + q) * MinAsset = amount * MinAsset + q * MinAsset
    BY <1>1
  <2> QED  BY <1>1, <2>1, <2>2 DEF Value
<1>5. /\ carried \in Int /\ carried >= q
      /\ rolled \in 0..(MinAsset - 1)
  BY <1>1
<1>6. carried <= MaxAmount <=> Value + x <= Cap
  <2>1. (MaxAmount + 1) * MinAsset = MaxAmount * MinAsset + MinAsset
    BY <1>1
  <2>2. CASE carried <= MaxAmount
    <3>1. carried * MinAsset <= MaxAmount * MinAsset
      BY <1>1, <1>5, <2>2, Monotone
    <3> QED  BY <1>1, <1>4, <1>5, <2>1, <2>2, <3>1 DEF Cap
  <2>3. CASE ~(carried <= MaxAmount)
    <3>1. (MaxAmount + 1) * MinAsset <= carried * MinAsset
      BY <1>1, <1>5, <2>3, Monotone
    <3> QED  BY <1>1, <1>4, <1>5, <2>1, <2>3, <3>1 DEF Cap
  <2> QED  BY <2>2, <2>3
<1>7. PlusAllowed(x) <=> carried <= MaxAmount
  BY <1>1, <1>3, <1>5 DEF PlusAllowed, Fits, q
<1>8. ASSUME PlusAssign(x)
      PROVE  TypeOK' /\ Value' = Value + x
  <2>1. q <= MaxAmount /\ carried <= MaxAmount
    BY <1>7, <1>8 DEF PlusAssign, PlusAllowed, q
  <2>2. amount' = carried
    BY <1>3, <1>8, <2>1 DEF PlusAssign
  <2>3. dust' = rolled
    <3>1. dust + r >= MinAsset => Word(dust + r - MinAsset) = dust + r - MinAsset
      BY <1>1, Words
    <3> QED  BY <1>1, <1>2, <1>8, <3>1 DEF PlusAssign, Carry
  <2> QED  BY <1>1, <1>4, <1>5, <2>1, <2>2, <2>3 DEF TypeOK, Value
<1> QED  BY <1>6, <1>7, <1>8

\* The same for operator-=: it is allowed exactly when the amount is
\* available, and leaves the exact difference.
LEMMA MinusExact ==
  ASSUME TypeOK, NEW x \in Nat
  PROVE  /\ MinusAllowed(x) <=> x <= Value
         /\ MinusAssign(x) => TypeOK' /\ Value' = Value - x
<1> DEFINE q == Quot(x)
           r == Rem(x)
           left == IF dust < r THEN amount - q - 1 ELSE amount - q
           rest == IF dust < r THEN dust - r + MinAsset ELSE dust - r
<1>1. /\ q \in Nat /\ r \in 0..(MinAsset - 1) /\ x = q * MinAsset + r
      /\ amount \in 0..MaxAmount /\ dust \in 0..(MinAsset - 1)
      /\ MinAsset \in Nat /\ HalfWord \in Nat /\ MaxAmount \in Nat
      /\ 0 < MinAsset /\ MinAsset <= HalfWord
      /\ MaxAmount + MaxAmount + 1 < HalfWord
  BY Division, WordAssumption DEF TypeOK
<1> HIDE DEF q, r
<1>2. /\ dust < r => MinusWord(x) = dust - r + HalfWord + HalfWord
      /\ ~(dust < r) => MinusWord(x) = dust - r
  BY <1>1, Words DEF MinusWord, r
<1>3. Borrow(MinusWord(x)) <=> dust < r
  BY <1>1, <1>2 DEF Borrow
<1>4. ASSUME q <= amount
      PROVE  MinusTotal(x) = left
  <2>1. Int64(amount - q) = amount - q
    BY <1>1, <1>4, Words
  <2>2. Int64(amount - q - 1) = amount - q - 1
    BY <1>1, <1>4, Words
  <2> QED  BY <1>1, <1>3, <2>1, <2>2 DEF MinusTotal, q
<1>5. left * MinAsset + rest = Value - x
  <2>1. (amount - q - 1) * MinAsset = amount * MinAsset - q * MinAsset - MinAsset
    BY <1>1
  <2>2. (amount - q) * MinAsset = amount * MinAsset - q * MinAsset
    BY <1>1
  <2> QED  BY <1>1, <2>1, <2>2 DEF Value
<1>6. left \in Int /\ left <= amount - q /\ rest \in 0..(MinAsset - 1)
  BY <1>1
<1>7. left >= 0 <=> x <= Value
  <2>1. CASE left >= 0
    <3>1. 0 * MinAsset <= left * MinAsset
      BY <1>1, <1>6, <2>1, Monotone
    <3> QED  BY <1>1, <1>5, <1>6, <2>1, <3>1 DEF Value
  <2>2. CASE ~(left >= 0)
    <3>1. left * MinAsset <= (0 - 1) * MinAsset
      BY <1>1, <1>6, <2>2, Monotone
    <3> QED  BY <1>1, <1>5, <1>6, <2>2, <3>1 DEF Value
  <2> QED  BY <2>1, <2>2
<1>8. MinusAllowed(x) <=> left >= 0
  BY <1>1, <1>3, <1>4 DEF MinusAllowed, Covers, q
<1>9. ASSUME MinusAssign(x)
      PROVE  TypeOK' /\ Value' = Value - x
  <2>1. q <= amount /\ left >= 0
    BY <1>8, <1>9 DEF MinusAssign, MinusAllowed, q
  <2>2. amount' = left
    BY <1>4, <1>9, <2>1 DEF MinusAssign
  <2>3. dust' = rest
    <3>1. dust < r => MinusWord(x) + MinAsset = (dust - r + MinAsset) + (HalfWord + HalfWord)
      BY <1>1, <1>2
    <3>2. dust < r => Word(MinusWord(x) + MinAsset) = dust - r + MinAsset
      BY <1>1, <3>1 DEF Word
    <3> QED  BY <1>2, <1>3, <1>9, <3>2 DEF MinusAssign
  <2> QED  BY <1>1, <1>5, <1>6, <2>1, <2>2, <2>3 DEF TypeOK, Value
<1> QED  BY <1>7, <1>8, <1>9

\* Every row stays well formed, for every sequence of operations.
THEOREM TypeCorrect == Spec => []TypeOK
<1>1. Init => TypeOK
  BY WordAssumption DEF Init, TypeOK
<1>2. TypeOK /\ [Next]_vars => TypeOK'
  <2> SUFFICES ASSUME TypeOK, [Next]_vars PROVE TypeOK'
    OBVIOUS
  <2>1. ASSUME NEW x \in Amounts, PlusAssign(x) PROVE TypeOK'
    BY <2>1, PlusExact, WordAssumption
  <2>2. ASSUME NEW x \in Amounts, MinusAssign(x) PROVE TypeOK'
    BY <2>2, MinusExact, WordAssumption
  <2>3. CASE UNCHANGED vars
    BY <2>3 DEF vars, TypeOK
  <2> QED  BY <2>1, <2>2, <2>3 DEF Next
<1> QED  BY <1>1, <1>2, PTL DEF Spec

\* += and -= never refuse an operation whose exact result fits the row.
THEOREM NoSpuriousAbort == Spec => []AbortsOnlyOutOfRange
<1>1. TypeOK => AbortsOnlyOutOfRange
  BY PlusExact, MinusExact, WordAssumption DEF AbortsOnlyOutOfRange
<1> QED  BY <1>1, TypeCorrect, PTL

\* The two-word row implements the exact bounded amount: each += and -= that
\* does not abort is the exact sum or difference, within 0..Cap.
THEOREM Refinement == Spec => ExactArithmetic
<1>1. Init => Exact!Init
  BY WordAssumption DEF Init, Exact!Init, Value
<1>2. TypeOK /\ [Next]_vars => [Exact!Next]_Value
  <2> SUFFICES ASSUME TypeOK, [Next]_vars PROVE [Exact!Next]_Value
    OBVIOUS
  <2>1. ASSUME NEW x \in Amounts, PlusAssign(x) PROVE Exact!Next
    <3>1. Exact!Add(x)
      BY <2>1, PlusExact, WordAssumption DEF Exact!Add, PlusAssign
    <3> QED  BY <3>1 DEF Exact!Next
  <2>2. ASSUME NEW x \in Amounts, MinusAssign(x) PROVE Exact!Next
    <3>1. Exact!Subtract(x)
      BY <2>2, MinusExact, WordAssumption DEF Exact!Subtract, MinusAssign
    <3> QED  BY <3>1 DEF Exact!Next
  <2>3. CASE UNCHANGED vars
    BY <2>3 DEF vars, Value
  <2> QED  BY <2>1, <2>2, <2>3 DEF Next
<1> QED  BY <1>1, <1>2, TypeCorrect, PTL DEF Spec, ExactArithmetic, Exact!Spec

-----------------------------------------------------------------------------
(* updtgasparam *)

\* Integer division rounds down.
LEMMA Quotient ==
  ASSUME NEW a \in Nat, NEW b \in Nat, b > 0
  PROVE  /\ a \div b \in Nat
         /\ b * (a \div b) <= a
         /\ a < b * (a \div b) + b
OBVIOUS

\* A number that fits into a word is not changed by it.
LEMMA WrapFits ==
  ASSUME NEW n \in Nat, n < WordSize
  PROVE  Wrap(n) = n
BY GasParametersAssumption DEF Wrap, WordSize

\* A product grows with a factor.
LEMMA ProductGrows ==
  ASSUME NEW a \in Nat, NEW b \in Nat, NEW c \in Nat, a <= b
  PROVE  /\ c * a <= c * b
         /\ a * c <= b * c
OBVIOUS

\* A common factor can be cancelled.
LEMMA Cancel ==
  ASSUME NEW a \in Nat, NEW b \in Nat, NEW p \in Nat, p > 0
  PROVE  /\ a * p <= b * p => a <= b
         /\ a * p < b * p => a < b
<1>1. ASSUME b + 1 <= a PROVE (b + 1) * p <= a * p
  BY <1>1, ProductGrows
<1>2. ASSUME b <= a PROVE b * p <= a * p
  BY <1>2, ProductGrows
<1>3. (b + 1) * p = b * p + p /\ a * p \in Nat /\ b * p \in Nat
  OBVIOUS
<1> QED  BY <1>1, <1>2, <1>3

\* Rounding adds a quarter at most.
LEMMA Scaled ==
  ASSUME NEW a \in Nat, NEW b \in Nat
  PROVE  /\ a * Precision <= b * (Precision + 1) => 4 * a <= 5 * b
         /\ a * Precision < b * (Precision + 1) => 4 * a < 5 * b
<1> DEFINE p == Precision
<1>1. p \in Nat /\ p >= 4
  BY GasParametersAssumption
<1> HIDE DEF p
<1>2. b * (4 * (p + 1)) <= b * (5 * p)
  BY <1>1, ProductGrows
<1>3. /\ b * (4 * (p + 1)) = 4 * (b * (p + 1)) /\ b * (5 * p) = (5 * b) * p
      /\ (4 * a) * p = 4 * (a * p)
      /\ a * p \in Nat /\ b * (p + 1) \in Nat /\ (5 * b) * p \in Nat /\ (4 * a) * p \in Nat
  BY <1>1
<1>4. /\ a * p <= b * (p + 1) => (4 * a) * p <= (5 * b) * p
      /\ a * p < b * (p + 1) => (4 * a) * p < (5 * b) * p
  BY ONLY <1>2, <1>3
<1>5. 4 * a \in Nat /\ 5 * b \in Nat /\ p > 0
  BY <1>1
<1>6. /\ (4 * a) * p <= (5 * b) * p => 4 * a <= 5 * b
      /\ (4 * a) * p < (5 * b) * p => 4 * a < 5 * b
  BY <1>1, <1>5, Cancel
<1> QED  BY <1>4, <1>6 DEF p

\* What a cast can give: a whole number close to the fraction.
LEMMA CastNear ==
  ASSUME NEW n \in Nat, NEW d \in Nat, d > 0, NEW g \in Cast(n, d)
  PROVE  /\ g \in Nat
         /\ (d * g) * Precision <= n * (Precision + 1)
         /\ n * (Precision - 1) < (d * (g + 1)) * Precision
<1> DEFINE p == Precision
           a == n * (p - 1)
           b == n * (p + 1)
           u == d * p
<1>1. p \in Nat /\ p >= 4
  BY GasParametersAssumption
<1>2. a \in Nat /\ b \in Nat /\ u \in Nat /\ u > 0
  <2>1. 1 * p <= d * p
    BY <1>1, ProductGrows
  <2> QED  BY <1>1, <2>1
<1>3. a \div u \in Nat /\ b \div u \in Nat
  BY <1>2, Quotient
<1>4. g \in Nat /\ a \div u <= g /\ g <= b \div u
  BY <1>3 DEF Cast
<1> HIDE DEF a, b, u
<1>5. a < u * (a \div u) + u /\ u * (b \div u) <= b
  BY <1>2, Quotient
<1>6. u * (a \div u) <= u * g /\ u * g <= u * (b \div u)
  BY <1>2, <1>3, <1>4, ProductGrows
<1>7. u * (a \div u) \in Nat /\ u * (b \div u) \in Nat /\ u * g \in Nat
  BY <1>2, <1>3, <1>4
<1>8. u * g <= b /\ a < u * g + u
  BY ONLY <1>2, <1>5, <1>6, <1>7
<1> HIDE DEF p
<1>9. u * g = (d * g) * p /\ u * g + u = (d * (g + 1)) * p
  BY <1>1, <1>4 DEF u
<1> QED  BY <1>4, <1>8, <1>9 DEF a, b, p

\* gas_per_byte fits into a word, and is the cost of a byte when doubles can count it.
LEMMA PerByte ==
  ASSUME NEW ram \in RamPrices, NEW price \in StoragePrices,
         NEW g \in Converted(ram, price)
  PROVE  /\ g \in Nat /\ g >= 1 /\ g < WordSize
         /\ g + 2 <= Precision => /\ (g + 1) * (price * Mega) > RamCost(ram)
                                  /\ (g - 2) * (price * Mega) < RamCost(ram)
<1> DEFINE d == price * Mega
           c == RamCost(ram)
           n == c + d
           p == Precision
           l == Limit + 1
<1>1. /\ price \in Nat /\ price > 0 /\ ram \in Nat
      /\ c * p < (l * Mega) * (p + 1)
      /\ g \in Cast(n, d) /\ g >= 1
  BY GasParametersAssumption DEF Converted, RamPriceFits, GasPerByte
<1>2. Mega \in Nat /\ Mega > 0 /\ Native \in Nat /\ l \in Nat /\ l >= 4 /\ p \in Nat /\ p >= 4
  BY GasParametersAssumption
<1>3. c \in Nat
  BY <1>1, <1>2 DEF RamCost
<1>4. d \in Nat /\ d > 0 /\ Mega <= d
  <2>1. 1 * Mega <= price * Mega
    BY <1>1, <1>2, ProductGrows
  <2> QED  BY <1>1, <1>2, <2>1
<1> HIDE DEF d, c, l
<1>5. n \in Nat
  BY <1>3, <1>4
<1>6. /\ g \in Nat /\ (d * g) * p <= n * (p + 1)
      /\ n * (p - 1) < (d * (g + 1)) * p
  BY <1>1, <1>4, <1>5, CastNear
<1>7. g < 2 * l
  <2>1. 4 * (d * g) <= 5 * n
    <3>1. d * g \in Nat
      BY <1>4, <1>6
    <3> QED  BY <1>5, <1>6, <3>1, Scaled
  <2>2. 4 * c < 5 * (l * Mega)
    <3>1. l * Mega \in Nat
      BY <1>2
    <3> QED  BY <1>1, <1>3, <3>1, Scaled
  <2>3. l * Mega <= l * d
    BY <1>2, <1>4, ProductGrows
  <2>4. d * g \in Nat /\ l * Mega \in Nat /\ l * d \in Nat
    BY <1>2, <1>4, <1>6
  <2>5. 16 * (d * g) < 25 * (l * d) + 20 * d
    BY ONLY <1>3, <1>4, <2>1, <2>2, <2>3, <2>4
  <2>6. 16 * (d * g) = (16 * g) * d /\ 25 * (l * d) + 20 * d = (25 * l + 20) * d
    BY <1>2, <1>4, <1>6
  <2>7. 16 * g \in Nat /\ 25 * l + 20 \in Nat
    BY <1>2, <1>6
  <2>8. 16 * g < 25 * l + 20
    BY <1>4, <2>5, <2>6, <2>7, Cancel
  <2> QED  BY ONLY <1>2, <1>6, <2>8
<1> HIDE DEF n, p
<1>8. ASSUME g + 2 <= p PROVE (g + 1) * d > c
  <2> SUFFICES ASSUME (g + 1) * d <= c PROVE FALSE
    BY <1>3, <1>4, <1>6
  <2>1. (g + 2) * d <= n
    <3>1. (g + 2) * d = (g + 1) * d + d /\ (g + 1) * d \in Nat
      BY <1>4, <1>6
    <3> QED  BY <1>3, <1>4, <3>1 DEF n
  <2>2. ((g + 2) * d) * (p - 1) <= n * (p - 1)
    <3>1. (g + 2) * d \in Nat /\ p - 1 \in Nat
      BY <1>2, <1>4, <1>6
    <3> QED  BY <1>5, <2>1, <3>1, ProductGrows
  <2>3. (g + 2) * d <= p * d
    BY <1>2, <1>4, <1>6, <1>8, ProductGrows
  <2>4. ((g + 2) * d) * (p - 1) = (d * (g + 1)) * p + p * d - (g + 2) * d
    BY <1>2, <1>4, <1>6
  <2>5. /\ (d * (g + 1)) * p \in Int /\ p * d \in Int /\ (g + 2) * d \in Int
        /\ n * (p - 1) \in Int /\ ((g + 2) * d) * (p - 1) \in Int
    BY <1>2, <1>4, <1>5, <1>6
  <2>6. n * (p - 1) < (d * (g + 1)) * p
    BY <1>6
  <2> QED  BY ONLY <2>2, <2>3, <2>4, <2>5, <2>6
<1>9. ASSUME g + 2 <= p PROVE (g - 2) * d < c
  <2> SUFFICES ASSUME c <= (g - 2) * d PROVE FALSE
    BY <1>3, <1>4, <1>6
  <2>1. n <= (g - 1) * d
    <3>1. (g - 1) * d = (g - 2) * d + d /\ (g - 2) * d \in Int
      BY <1>4, <1>6
    <3> QED  BY <1>3, <1>4, <3>1 DEF n
  <2>2. n * (p + 1) <= ((g - 1) * d) * (p + 1)
    <3>1. (g - 1) * d \in Nat /\ p + 1 \in Nat
      BY <1>1, <1>2, <1>4, <1>6
    <3> QED  BY <1>5, <2>1, <3>1, ProductGrows
  <2>3. (g + 2) * d <= p * d
    BY <1>2, <1>4, <1>6, <1>9, ProductGrows
  <2>4. ((g - 1) * d) * (p + 1) = (d * g) * p - p * d + (g + 2) * d - 3 * d
    BY <1>2, <1>4, <1>6
  <2>5. /\ (d * g) * p \in Int /\ p * d \in Int /\ (g + 2) * d \in Int
        /\ n * (p + 1) \in Int /\ ((g - 1) * d) * (p + 1) \in Int
    BY <1>2, <1>4, <1>5, <1>6
  <2>6. (d * g) * p <= n * (p + 1)
    BY <1>6
  <2> QED  BY ONLY <1>4, <2>2, <2>3, <2>4, <2>5, <2>6
<1>10. g < WordSize
  BY <1>7 DEF WordSize, l
<1> QED  BY <1>1, <1>6, <1>8, <1>9, <1>10 DEF d, c, p

\* What passes check_gas_overflow is small enough for every product.
LEMMA ChargesOf ==
  ASSUME NEW g \in Nat, g >= 1, GasFits(g), NEW base \in {0, SsetMin}
  PROVE  /\ Wrap(AccountBytes * g) = AccountBytes * g
         /\ Wrap(ContractBytes * g) = ContractBytes * g
         /\ Wrap(base + Wrap(SlotBytes * g)) = base + SlotBytes * g
         /\ base + SlotBytes * g <= Limit
         /\ ContractBytes * g + MaxCodeSize * g <= Limit
         /\ g + 2 <= Precision
<1> DEFINE create == ContractBytes * g
           code == MaxCodeSize * create
<1>1. /\ Limit \in Nat /\ SsetMin \in Nat /\ base \in Nat
      /\ MaxCodeSize \in Nat /\ MaxCodeSize >= 1
      /\ AccountBytes \in Nat /\ ContractBytes \in Nat /\ SlotBytes \in Nat
      /\ ContractBytes >= 1 /\ AccountBytes <= ContractBytes /\ SlotBytes <= ContractBytes
      /\ base <= ContractBytes * (MaxCodeSize - 1)
  <2>1. 0 <= ContractBytes * (MaxCodeSize - 1)
    BY GasParametersAssumption
  <2> QED  BY <2>1, GasParametersAssumption
<1>2. create \in Nat /\ create >= 1 /\ create < WordSize
  <2>1. 1 * g <= ContractBytes * g
    BY <1>1, ProductGrows
  <2>2. create \in Nat /\ create * Precision < (Limit + 1) * (Precision + 1)
    BY <1>1 DEF GasFits
  <2>3. 4 * create < 5 * (Limit + 1)
    <3>1. Limit + 1 \in Nat
      BY <1>1
    <3> HIDE DEF create
    <3> QED  BY <2>2, <3>1, Scaled
  <2> QED  BY <1>1, <2>1, <2>2, <2>3 DEF WordSize
<1>3. Wrap(create) = create
  BY <1>1, <1>2, WrapFits DEF WordSize
<1>4. Limit \div create >= MaxCodeSize /\ Wrap(Limit - Wrap(code)) >= g
  BY <1>3 DEF GasFits, CheckGasOverflow
<1> HIDE DEF create
<1>5. code \in Nat /\ code <= Limit
  <2>1. Limit \div create \in Nat /\ create * (Limit \div create) <= Limit
    BY <1>1, <1>2, Quotient
  <2>2. create * MaxCodeSize <= create * (Limit \div create)
    BY <1>1, <1>2, <1>4, <2>1, ProductGrows
  <2>3. code = create * MaxCodeSize /\ code \in Nat /\ create * (Limit \div create) \in Nat
    BY <1>1, <1>2, <2>1
  <2> QED  BY <1>1, <2>1, <2>2, <2>3
<1>6. code + g <= Limit
  <2>1. Wrap(code) = code
    BY <1>1, <1>5, WrapFits DEF WordSize
  <2>2. Limit - code \in Nat /\ Limit - code < WordSize
    BY <1>1, <1>5 DEF WordSize
  <2>3. Wrap(Limit - code) = Limit - code
    BY <2>2, WrapFits
  <2> QED  BY <1>1, <1>4, <1>5, <2>1, <2>3
<1>6a. create <= Limit
  <2>1. 1 * create <= MaxCodeSize * create
    BY <1>1, <1>2, ProductGrows
  <2> QED  BY <1>1, <1>2, <1>5, <2>1
<1>7. /\ AccountBytes * g \in Nat /\ AccountBytes * g <= Limit
      /\ SlotBytes * g \in Nat /\ SlotBytes * g <= create
  BY <1>1, <1>2, <1>6a, ProductGrows DEF create
<1>8. base + create <= code
  <2>1. base * 1 <= base * g
    BY <1>1, ProductGrows
  <2>2. base * g <= (ContractBytes * (MaxCodeSize - 1)) * g
    BY <1>1, ProductGrows
  <2>3. (ContractBytes * (MaxCodeSize - 1)) * g = code - create
    BY <1>1 DEF create
  <2>4. base * 1 = base /\ base * g \in Nat
    BY <1>1
  <2> HIDE DEF code
  <2> QED  BY <1>1, <1>2, <1>5, <2>1, <2>2, <2>3, <2>4
<1>9. create + MaxCodeSize * g <= code + g
  <2> DEFINE m == MaxCodeSize - 1
             b == ContractBytes - 1
  <2>1. m \in Nat /\ b \in Nat /\ MaxCodeSize = m + 1 /\ ContractBytes = b + 1
    BY <1>1
  <2> HIDE DEF m, b
  <2>2. (m + 1) * ((b + 1) * g) + g = (b + 1) * g + (m + 1) * g + (m * b) * g
    BY <2>1
  <2>3. (m * b) * g \in Nat
    BY <2>1
  <2>4. (b + 1) * g \in Nat /\ (m + 1) * g \in Nat
    BY <2>1
  <2>5. create = (b + 1) * g /\ code = (m + 1) * ((b + 1) * g)
    BY <2>1 DEF create
  <2> HIDE DEF code
  <2> QED  BY <1>5, <2>1, <2>2, <2>3, <2>4, <2>5
<1> HIDE DEF code
<1>10. Wrap(AccountBytes * g) = AccountBytes * g /\ Wrap(SlotBytes * g) = SlotBytes * g
  BY <1>1, <1>2, <1>6a, <1>7, WrapFits DEF WordSize
<1>10a. g + 2 <= Precision
  <2> DEFINE k == ContractBytes * MaxCodeSize
  <2>1. Precision \in Nat /\ Precision >= 4 /\ Limit <= k * (Precision - 2)
    BY GasParametersAssumption
  <2>2. k \in Nat /\ k > 0
    <3>1. 1 * MaxCodeSize <= ContractBytes * MaxCodeSize
      BY <1>1, ProductGrows
    <3> QED  BY <1>1, <3>1
  <2>3. code = g * k
    BY <1>1 DEF code, create
  <2> HIDE DEF k
  <2>4. g * k <= (Precision - 2) * k
    <3>1. k * (Precision - 2) = (Precision - 2) * k /\ k * (Precision - 2) \in Nat
      BY <2>1, <2>2
    <3> QED  BY ONLY <1>1, <1>5, <2>1, <2>3, <3>1
  <2>5. Precision - 2 \in Nat
    BY <2>1
  <2>6. g <= Precision - 2
    BY <2>2, <2>4, <2>5, Cancel
  <2> QED  BY <2>1, <2>6
<1>11. base + SlotBytes * g \in Nat /\ base + SlotBytes * g <= Limit
  BY <1>1, <1>2, <1>5, <1>6a, <1>7, <1>8
<1>12. Wrap(base + SlotBytes * g) = base + SlotBytes * g
  BY <1>1, <1>11, WrapFits DEF WordSize
<1>13. create + MaxCodeSize * g <= Limit
  <2>1. MaxCodeSize * g \in Nat
    BY <1>1
  <2> QED  BY <1>1, <1>2, <1>5, <1>6, <1>9, <2>1
<1> QED  BY <1>3, <1>10, <1>10a, <1>11, <1>12, <1>13 DEF create

\* What the properties say of a call that passed.
Right(s) ==
  LET g == s.params.codedeposit
  IN  /\ s.params.newaccount = AccountBytes * g
      /\ s.params.txcreate = ContractBytes * g
      /\ s.params.sset = (IF s.version < 3 THEN SsetMin ELSE 0) + SlotBytes * g
      /\ s.params.sset <= Limit
      /\ s.params.txcreate + MaxCodeSize * g <= Limit
      /\ (g + 1) * (s.price * Mega) > RamCost(s.ram)
      /\ (g - 2) * (s.price * Mega) < RamCost(s.ram)

\* What updtgasparam sets is right.
LEMMA UpdateRight ==
  ASSUME NEW ram \in RamPrices, NEW price \in StoragePrices, NEW version \in 1..3,
         NEW g \in Converted(ram, price), GasFits(g)
  PROVE  Right([ram |-> ram, price |-> price, version |-> version,
                params |-> Parameters(g, version)])
<1> DEFINE base == IF version < 3 THEN SsetMin ELSE 0
<1>1. g \in Nat /\ g >= 1
  BY PerByte
<1>2. base \in {0, SsetMin}
  OBVIOUS
<1>2a. g + 2 <= Precision
  BY <1>1, ChargesOf
<1>2b. /\ (g + 1) * (price * Mega) > RamCost(ram)
       /\ (g - 2) * (price * Mega) < RamCost(ram)
  BY <1>2a, PerByte
<1> DEFINE p == Parameters(g, version)
<1>3. /\ p.newaccount = Wrap(AccountBytes * g) /\ p.txcreate = Wrap(ContractBytes * g)
      /\ p.codedeposit = g /\ p.sset = Wrap(base + Wrap(SlotBytes * g))
  BY DEF Parameters
<1> HIDE DEF p, base
<1>4. /\ p.newaccount = AccountBytes * g /\ p.txcreate = ContractBytes * g
      /\ p.codedeposit = g /\ p.sset = base + SlotBytes * g
      /\ base + SlotBytes * g <= Limit
      /\ ContractBytes * g + MaxCodeSize * g <= Limit
  BY <1>1, <1>2, <1>3, ChargesOf
<1> DEFINE s == [ram |-> ram, price |-> price, version |-> version, params |-> p]
<1>5. s.ram = ram /\ s.price = price /\ s.version = version /\ s.params = p
  OBVIOUS
<1> HIDE DEF s
<1>6. Right(s)
  BY <1>1, <1>2b, <1>4, <1>5 DEF Right, base
<1> QED  BY <1>6 DEF s, p

\* The inductive invariant of updtgasparam.
DerivationInv == cast < WordSize /\ \A s \in settings : Right(s)

\* Every call of updtgasparam keeps it.
LEMMA DerivationInvariance == Derivation => []DerivationInv
<1>1. DerivationInit => DerivationInv
  BY GasParametersAssumption DEF DerivationInit, WordSize, DerivationInv
<1>2. DerivationInv /\ [DerivationNext]_<<cast, settings>> => DerivationInv'
  <2> SUFFICES ASSUME DerivationInv, [DerivationNext]_<<cast, settings>>
               PROVE  DerivationInv'
    OBVIOUS
  <2>1. CASE UNCHANGED <<cast, settings>>
    BY <2>1 DEF DerivationInv
  <2>2. ASSUME NEW ram \in RamPrices, NEW price \in StoragePrices, NEW version \in 1..3,
               UpdateConsensusParameters(ram, price, version)
        PROVE  DerivationInv'
    <3> DEFINE new(g) == [ram |-> ram, price |-> price, version |-> version,
                          params |-> Parameters(g, version)]
    <3>1. PICK g \in Converted(ram, price) :
            /\ cast' = g
            /\ settings' = IF GasFits(g) THEN settings \cup {new(g)} ELSE settings
      BY <2>2, Zenon DEF UpdateConsensusParameters
    <3>2. g < WordSize
      BY PerByte
    <3>3. GasFits(g) => Right(new(g))
      BY UpdateRight
    <3> HIDE DEF new
    <3> QED  BY <3>1, <3>2, <3>3 DEF DerivationInv
  <2> QED  BY <2>1, <2>2 DEF DerivationNext
<1> QED  BY <1>1, <1>2, PTL DEF Derivation

\* The cast of gas_per_byte to uint64_t in update_consensus_parameters is defined.
THEOREM CastIsDefined == Derivation => []ConversionDefined
<1>1. DerivationInv => ConversionDefined
  BY DEF DerivationInv, ConversionDefined
<1> QED  BY <1>1, DerivationInvariance, PTL

\* What updtgasparam sets is exact and can be charged without overflow.
THEOREM ParametersRight == Derivation => []ChargesFit
<1>1. DerivationInv => ChargesFit
  BY DEF DerivationInv, Right, ChargesFit
<1> QED  BY <1>1, DerivationInvariance, PTL

\* The gas charged for a byte pays for its RAM, to the unit of gas that rounding
\* doubles may cost, and is less than two units above it.
THEOREM StorageIsCovered == Derivation => []StorageCovered
<1>1. DerivationInv => StorageCovered
  BY DEF DerivationInv, Right, StorageCovered
<1> QED  BY <1>1, DerivationInvariance, PTL
=============================================================================
