------------------------ MODULE TempConversionProofs ------------------------
(***************************************************************************)
(* Proofs about the temperature conversion, for any table whose readings   *)
(* increase, any tolerance and any range of readings.                      *)
(***************************************************************************)
EXTENDS TempConversion, SequenceTheorems, WellFoundedInduction, TLAPS

(* A set of numbers that is not empty has a least one. *)
LEMMA LeastNumber ==
    ASSUME NEW S \in SUBSET Nat, S # {}
    PROVE  \E m \in S : \A n \in S : m <= n
<1>1. PICK m \in S : \A n \in S : ~(<<n, m>> \in OpToRel(<, Nat))
    BY WFMin, NatLessThanWellFounded
<1>2. \A n \in S : ~(n < m)
    BY <1>1 DEF OpToRel
<1> QED BY <1>2

(* The entries of the table, by index. *)
LEMMA TableTypes ==
    /\ Size \in Nat /\ Size > 1
    /\ \A i \in 1..Size : ConvTable[i].adc \in Nat /\ ConvTable[i].temp \in Int
    /\ \A i \in 1..Size - 1 : ConvTable[i].adc < ConvTable[i + 1].adc
    /\ First.adc \in Nat /\ Last.adc \in Nat
<1>1. \A i \in 1..Len(ConvTable) : ConvTable[i] \in [adc : Nat, temp : Int]
    BY TableAssumption, ElementOfSeq
<1>2. Size \in Nat /\ Size > 1
    BY TableAssumption DEF Size
<1>3. \A i \in 1..Size : ConvTable[i].adc \in Nat /\ ConvTable[i].temp \in Int
    BY <1>1 DEF Size
<1> QED BY <1>2, <1>3, TableAssumption DEF Size, First, Last

(* The readings increase over the whole table, not only from an entry to   *)
(* the next one: of two entries that were not in order, those closest to   *)
(* each other would have an entry between them.                            *)
LEMMA TableIncreases ==
    ASSUME NEW i \in 1..Size, NEW j \in 1..Size, i < j
    PROVE  ConvTable[i].adc < ConvTable[j].adc
<1> DEFINE Wrong == {d \in Nat : \E a, b \in 1..Size :
                        a < b /\ b = a + d /\ ~(ConvTable[a].adc < ConvTable[b].adc)}
<1>1. SUFFICES ASSUME Wrong # {} PROVE FALSE
  <2>1. j - i \in Nat /\ j = i + (j - i)
      BY TableTypes
  <2> QED BY <2>1
<1>2. PICK d \in Wrong : \A e \in Wrong : d <= e
    BY <1>1, LeastNumber
<1>3. PICK a, b \in 1..Size : a < b /\ b = a + d /\ ~(ConvTable[a].adc < ConvTable[b].adc)
    BY <1>2
<1>4. d # 1
    BY <1>3, TableTypes
<1>5. b - 1 \in 1..Size /\ a < b - 1 /\ d - 1 \in Nat /\ b - 1 = a + (d - 1) /\ ~(d <= d - 1)
    BY <1>3, <1>4, TableTypes
<1>6. ConvTable[a].adc < ConvTable[b - 1].adc
    BY <1>2, <1>5
<1>7. b - 1 \in 1..Size - 1 /\ (b - 1) + 1 = b
    BY <1>3, <1>5, TableTypes
<1>8. ConvTable[b - 1].adc < ConvTable[b].adc
  <2> DEFINE c == b - 1
  <2>1. c \in 1..Size - 1 /\ c + 1 = b
      BY <1>7
  <2> HIDE DEF c
  <2>2. ConvTable[c].adc < ConvTable[c + 1].adc
      BY <2>1, TableTypes
  <2> QED BY <2>1, <2>2 DEF c
<1> QED BY <1>3, <1>5, <1>6, <1>8, TableTypes

-----------------------------------------------------------------------------
(* The scan. *)

(* The loop of adcToTemp stops at the first entry above the reading, or    *)
(* past the end when there is none.                                        *)
LEMMA ScanStops ==
    ASSUME NEW a \in Int
    PROVE  /\ Scan(a) \in 1..Size + 1
           /\ Scan(a) <= Size => a < ConvTable[Scan(a)].adc
           /\ \A j \in 1..Scan(a) - 1 : a >= ConvTable[j].adc
<1> DEFINE Stops == {i \in 1..Size + 1 : i <= Size => a < ConvTable[i].adc}
<1>1. Size + 1 \in Stops /\ Stops \in SUBSET Nat
    BY TableTypes
<1>2. PICK i \in Stops : \A j \in Stops : i <= j
    BY <1>1, LeastNumber
<1>3. \A j \in 1..i - 1 : a >= ConvTable[j].adc
  <2>1. SUFFICES ASSUME NEW j \in 1..i - 1 PROVE a >= ConvTable[j].adc
      OBVIOUS
  <2>2. j \in 1..Size /\ j < i
      BY TableTypes
  <2>3. j \notin Stops
      BY <1>2, <2>2
  <2> QED BY <2>2, <2>3, TableTypes
<1>4. \E k \in 1..Size + 1 : /\ k <= Size => a < ConvTable[k].adc
                             /\ \A j \in 1..k - 1 : a >= ConvTable[j].adc
    BY <1>2, <1>3
<1> QED BY <1>4 DEF Scan

(* A reading between the ends of the table has a neighbour on either side. *)
LEMMA BetweenTheEnds ==
    ASSUME NEW a \in Int, First.adc < a, a < Last.adc
    PROVE  /\ Scan(a) \in 2..Size
           /\ ConvTable[Scan(a) - 1].adc <= a
           /\ a < ConvTable[Scan(a)].adc
<1> DEFINE i == Scan(a)
<1>1. /\ i \in 1..Size + 1
      /\ i <= Size => a < ConvTable[i].adc
      /\ \A j \in 1..i - 1 : a >= ConvTable[j].adc
    BY ScanStops
<1> HIDE DEF i
<1>2. i # 1
    BY <1>1, TableTypes DEF First
<1>3. i # Size + 1
    BY <1>1, TableTypes DEF Last
<1>4. i \in 2..Size /\ i - 1 \in 1..i - 1
    BY <1>1, <1>2, <1>3, TableTypes
<1>5. ConvTable[i - 1].adc <= a
    BY <1>1, <1>4, TableTypes
<1> QED BY <1>1, <1>4, <1>5, TableTypes DEF i

(* The early returns leave nothing between the ends of the tolerance but   *)
(* the readings within the table.                                          *)
LEMMA EndsCatch ==
    ASSUME NEW a \in Int
    PROVE  /\ Within(a) => Ends(a) = {}
           /\ Ends(a) = {} /\ a \notin {First.adc - Tolerance, Last.adc + Tolerance} => Within(a)
<1> DEFINE f == First.adc
           l == Last.adc
<1>1. f \in Nat /\ l \in Nat /\ Tolerance \in Nat
    BY TableTypes, TableAssumption
<1>2. f < l
    BY TableTypes, TableIncreases DEF First, Last
<1> HIDE DEF f, l
<1> DEFINE E == Ends(a)
<1>3. E = CASE a < f - Tolerance -> {TEMP_CONV_ERROR_OPEN}
             [] a > f - Tolerance /\ a <= f -> {First.temp}
             [] a > l + Tolerance -> {TEMP_CONV_ERROR_SHORT}
             [] a < l + Tolerance /\ a >= l -> {Last.temp}
             [] OTHER -> {}
    BY DEF Ends, f, l
<1> HIDE DEF E
<1>4. Within(a) <=> f < a /\ a < l
    BY DEF Within, f, l
<1>5. f < a /\ a < l => E = {}
    BY <1>1, <1>2, <1>3
<1>6. E = {} /\ a # f - Tolerance /\ a # l + Tolerance => f < a /\ a < l
  <2>1. CASE a < f - Tolerance \/ (a > f - Tolerance /\ a <= f)
      BY <1>1, <1>2, <1>3, <2>1
  <2>2. CASE a > l + Tolerance \/ (a < l + Tolerance /\ a >= l)
      BY <1>1, <1>2, <1>3, <2>2
  <2> QED BY <1>1, <1>2, <2>1, <2>2
<1> QED BY <1>4, <1>5, <1>6 DEF E, f, l

-----------------------------------------------------------------------------
(* The arithmetic of temperatureInterpolation. *)

(* A sum of two products that fits an int16_t is not changed by the        *)
(* conversions of its parts.                                               *)
LEMMA PartsMayOverflow ==
    ASSUME NEW x \in Int, NEW y \in Int, -32768 <= x + y, x + y <= 32767
    PROVE  ToInt16(ToInt16(x) + y) = x + y
BY DEF ToInt16

(* The division of C rounds by less than one. *)
LEMMA QuotientRounds ==
    ASSUME NEW n \in Int, NEW d \in Nat, d > 0
    PROVE  /\ Quotient(n, d) \in Int
           /\ -d < Quotient(n, d) * d - n /\ Quotient(n, d) * d - n < d
<1>1. \A m \in Nat : /\ m \div d \in Nat
                     /\ (m \div d) * d <= m /\ m < (m \div d) * d + d
    OBVIOUS
<1>2. CASE n >= 0
    BY <1>1, <1>2 DEF Quotient
<1>3. CASE ~(n >= 0)
  <2> DEFINE m == -n
             q == m \div d
  <2>1. m \in Nat /\ Quotient(n, d) = -q
      BY <1>3 DEF Quotient
  <2>2. q \in Nat /\ q * d <= m /\ m < q * d + d /\ n = -m
      BY <1>1, <2>1
  <2> HIDE DEF m, q
  <2>3. (-q) * d = -(q * d) /\ q * d \in Int
      BY <2>2
  <2> QED BY <2>1, <2>2, <2>3
<1> QED BY <1>2, <1>3

(* There is one pair of neighbours around a reading, the one at which the  *)
(* scan stops.                                                             *)
LEMMA NeighboursAreUnique ==
    ASSUME NEW a \in Int, Within(a)
    PROVE  Below(a) = Scan(a) - 1
<1> DEFINE i == Scan(a)
<1>1. i \in 2..Size /\ ConvTable[i - 1].adc <= a /\ a < ConvTable[i].adc
    BY BetweenTheEnds DEF Within
<1> HIDE DEF i
<1> DEFINE p == i - 1
<1>2. p \in 1..Size - 1 /\ p + 1 = i /\ ConvTable[p].adc <= a /\ a < ConvTable[p + 1].adc
    BY <1>1, TableTypes
<1>3. ASSUME NEW k \in 1..Size - 1, ConvTable[k].adc <= a, a < ConvTable[k + 1].adc
      PROVE  k = p
  <2>1. /\ k \in 1..Size /\ k + 1 \in 1..Size /\ p \in 1..Size /\ p + 1 \in 1..Size
      BY <1>2, TableTypes
  <2>2. ~(k < p)
    <3>1. SUFFICES ASSUME k < p PROVE FALSE
        OBVIOUS
    <3>2. k + 1 = p \/ k + 1 < p
        BY <2>1, <3>1
    <3>3. ConvTable[k + 1].adc <= ConvTable[p].adc
        BY <2>1, <3>2, TableIncreases, TableTypes
    <3> QED BY <1>2, <1>3, <2>1, <3>3, TableTypes
  <2>3. ~(p < k)
    <3>1. SUFFICES ASSUME p < k PROVE FALSE
        OBVIOUS
    <3>2. p + 1 = k \/ p + 1 < k
        BY <1>2, <2>1, <3>1
    <3>3. ConvTable[p + 1].adc <= ConvTable[k].adc
        BY <2>1, <3>2, TableIncreases, TableTypes
    <3> QED BY <1>2, <1>3, <2>1, <3>3, TableTypes
  <2> QED BY <2>1, <2>2, <2>3
<1> HIDE DEF p
<1>4. Below(a) = p
    BY <1>2, <1>3 DEF Below
<1> QED BY <1>4 DEF p, i

(* Where the weighted sum fits, the interpolation is off by less than one. *)
LEMMA InterpolationExact ==
    ASSUME NEW a \in Int, Within(a), Fits(a), NEW t \in adcToTemp(a)
    PROVE  LET i == Below(a)
               delta == ConvTable[i + 1].adc - ConvTable[i].adc
               error == t * delta - Numerator(a)
           IN  -delta < error /\ error < delta
<1>1. -32768 <= Numerator(a) /\ Numerator(a) <= 32767
    BY DEF Fits
<1> DEFINE k == Scan(a)
           i == Below(a)
           p == ConvTable[i]
           n == ConvTable[i + 1]
           d == n.adc - p.adc
           x == p.temp * (n.adc - a)
           y == n.temp * (a - p.adc)
<1>2. k \in 2..Size /\ i = k - 1 /\ p.adc <= a /\ a < ConvTable[k].adc
    BY BetweenTheEnds, NeighboursAreUnique DEF Within
<1>3. i \in 1..Size /\ i + 1 \in 1..Size /\ i + 1 = k
    BY <1>2, TableTypes
<1>4. t = temperatureInterpolation(a, p, n)
    BY <1>2, <1>3, EndsCatch DEF adcToTemp
<1>5. p.adc \in Nat /\ n.adc \in Nat /\ p.temp \in Int /\ n.temp \in Int /\ a < n.adc
    BY <1>2, <1>3, TableTypes
<1>6. t = Quotient(ToInt16(ToInt16(x) + y), d)
    BY <1>4 DEF temperatureInterpolation
<1>7. Numerator(a) = x + y
    BY DEF Numerator
<1>8. d \in Nat /\ d > 0
    BY <1>2, <1>5
<1>9. x \in Int /\ y \in Int
    BY <1>5
<1> HIDE DEF x, y, d
<1>10. t = Quotient(x + y, d) /\ x + y \in Int
    BY <1>6, <1>7, <1>9, <1>1, PartsMayOverflow
<1>11. -d < t * d - (x + y) /\ t * d - (x + y) < d
    BY <1>8, <1>10, QuotientRounds
<1> QED BY <1>7, <1>11 DEF d

-----------------------------------------------------------------------------
(* What a call has returned is one of the values adcToTemp may return. *)
ConvInv ==
    /\ adc_value \in 0..MaxAdc
    /\ Converted => temperature \in adcToTemp(adc_value)

(* ConvInv is an invariant of TCONV_ConvertToTemp. *)
THEOREM ConvInvariance == ConvSpec => []ConvInv
<1>1. ConvInit => ConvInv
    BY DEF ConvInit, ConvInv, Converted
<1>2. ConvInv /\ [TCONV_ConvertToTemp]_cvvars => ConvInv'
    BY DEF ConvInv, TCONV_ConvertToTemp, cvvars, Converted
<1> QED BY <1>1, <1>2, PTL DEF ConvSpec

(* The early returns of adcToTemp and its scan fit together, whatever the  *)
(* table and the tolerance: the scan never leaves the table for a reading  *)
(* that reaches it, except at the two readings no early return catches.    *)
THEOREM ScanAlwaysBrackets == ConvSpec => []ScanBrackets
<1>1. ConvInv => ScanBrackets
  <2>1. SUFFICES ASSUME adc_value \in Int, Ends(adc_value) = {},
                        adc_value \notin {First.adc - Tolerance, Last.adc + Tolerance}
                 PROVE  LET i == Scan(adc_value)
                        IN  /\ i \in 2..Size
                            /\ ConvTable[i - 1].adc <= adc_value
                            /\ adc_value < ConvTable[i].adc
      BY TableAssumption DEF ConvInv, ScanBrackets
  <2>2. Within(adc_value)
      BY <2>1, EndsCatch
  <2> QED BY <2>1, <2>2, BetweenTheEnds DEF Within
<1> QED BY <1>1, ConvInvariance, PTL

(* The result of temperatureInterpolation is exact up to the rounding of   *)
(* its division wherever the weighted sum fits an int16_t, even when the   *)
(* first product alone overflows, whatever the table.                      *)
THEOREM InterpolationAlwaysFits == ConvSpec => []InterpolationWhereItFits
<1>1. ConvInv => InterpolationWhereItFits
  <2>1. SUFFICES ASSUME adc_value \in Int, temperature \in adcToTemp(adc_value),
                        Within(adc_value), Fits(adc_value)
                 PROVE  OnTheLine
      BY TableAssumption DEF ConvInv, InterpolationWhereItFits
  <2> QED BY <2>1, InterpolationExact DEF OnTheLine
<1> QED BY <1>1, ConvInvariance, PTL

=============================================================================
