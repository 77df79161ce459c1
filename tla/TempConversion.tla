--------------------------- MODULE TempConversion ---------------------------
(***************************************************************************)
(* The conversion of a thermistor reading into hundredths of a degree,     *)
(* main/Sensors/tempConversion.c, with the widths of its integers: the     *)
(* result and every partial result of the interpolation is an int16_t.     *)
(***************************************************************************)
EXTENDS Integers, Sequences

CONSTANTS
    ConvTable,  \* pConvTable, a sequence of entries
    Tolerance,  \* adc_tolerance
    MaxAdc,     \* the largest reading
    Garbage     \* int16_t values a read outside the table can lead to

ASSUME TableAssumption ==
    /\ ConvTable \in Seq([adc : Nat, temp : Int]) /\ Len(ConvTable) > 1
    /\ \A i \in 1..Len(ConvTable) - 1 : ConvTable[i].adc < ConvTable[i + 1].adc
    /\ Tolerance \in Nat /\ MaxAdc \in Nat
    /\ Garbage \subseteq Int

VARIABLES adc_value, pConfig, temperature, returned

cvvars == <<adc_value, pConfig, temperature, returned>>

Size  == Len(ConvTable)
First == ConvTable[1]
Last  == ConvTable[Size]

(* The conversion of an int to int16_t, and the division of C. *)
ToInt16(x) == ((x + 32768) % 65536) - 32768

Quotient(a, b) == IF a >= 0 THEN a \div b ELSE -((-a) \div b)

TEMP_CONV_ERROR_INVALID == ToInt16(32768)
TEMP_CONV_ERROR_OPEN    == ToInt16(65534)
TEMP_CONV_ERROR_SHORT   == ToInt16(65533)

(* The loop over the table: the first entry above the value, or one past   *)
(* the end.                                                                *)
Scan(a) == CHOOSE i \in 1..Size + 1 :
                /\ i <= Size => a < ConvTable[i].adc
                /\ \A j \in 1..i - 1 : a >= ConvTable[j].adc

(* Mutant of temperatureInterpolation: the weights are exchanged. *)
interpolationExchanged(a, prev, next) ==
    LET delta_adc == next.adc - prev.adc
        result1 == ToInt16(prev.temp * (a - prev.adc))
        result2 == ToInt16(result1 + next.temp * (next.adc - a))
    IN  Quotient(result2, delta_adc)

temperatureInterpolation(a, prev, next) ==
    LET delta_adc == next.adc - prev.adc
        result1 == ToInt16(prev.temp * (next.adc - a))
        result2 == ToInt16(result1 + next.temp * (a - prev.adc))
    IN  Quotient(result2, delta_adc)

(* Mutant of Ends: the last entry of the table is left to the scan. *)
EndsLastScanned(a) ==
    CASE a < First.adc - Tolerance -> {TEMP_CONV_ERROR_OPEN}
      [] a > First.adc - Tolerance /\ a <= First.adc -> {First.temp}
      [] a > Last.adc + Tolerance -> {TEMP_CONV_ERROR_SHORT}
      [] a < Last.adc + Tolerance /\ a > Last.adc -> {Last.temp}
      [] OTHER -> {}

(* The early returns of adcToTemp, for readings out of the table: what is  *)
(* returned, or nothing.                                                   *)
Ends(a) ==
    CASE a < First.adc - Tolerance -> {TEMP_CONV_ERROR_OPEN}
      [] a > First.adc - Tolerance /\ a <= First.adc -> {First.temp}
      [] a > Last.adc + Tolerance -> {TEMP_CONV_ERROR_SHORT}
      [] a < Last.adc + Tolerance /\ a >= Last.adc -> {Last.temp}
      [] OTHER -> {}

(* The values adcToTemp may return. *)
adcToTemp(a) ==
    LET i == Scan(a)
    IN  IF Ends(a) # {} THEN Ends(a)
        ELSE IF i \in 2..Size
        THEN {temperatureInterpolation(a, ConvTable[i - 1], ConvTable[i])}
        ELSE Garbage

ConvInit == /\ adc_value \in 0..MaxAdc
            /\ pConfig \in {"NULL", "config"}
            /\ temperature = TEMP_CONV_ERROR_INVALID
            /\ returned = FALSE

TCONV_ConvertToTemp ==
    /\ ~returned
    /\ returned' = TRUE
    /\ \/ pConfig = "NULL" /\ UNCHANGED temperature
       \/ pConfig # "NULL" /\ temperature' \in adcToTemp(adc_value)
    /\ UNCHANGED <<adc_value, pConfig>>

ConvSpec == ConvInit /\ [][TCONV_ConvertToTemp]_cvvars

-----------------------------------------------------------------------------
(* The reference: linear interpolation between the two neighbours of the   *)
(* reading, in exact arithmetic.                                           *)

Converted == pConfig # "NULL" /\ returned

Within(a) == First.adc < a /\ a < Last.adc

Below(a) == CHOOSE i \in 1..Size - 1 : ConvTable[i].adc <= a /\ a < ConvTable[i + 1].adc

Numerator(a) ==
    LET i == Below(a)
    IN  ConvTable[i].temp * (ConvTable[i + 1].adc - a)
        + ConvTable[i + 1].temp * (a - ConvTable[i].adc)

Fits(a) == -32768 <= Numerator(a) /\ Numerator(a) <= 32767

OnTheLine ==
    LET i == Below(adc_value)
        delta == ConvTable[i + 1].adc - ConvTable[i].adc
        error == temperature * delta - Numerator(adc_value)
    IN  -delta < error /\ error < delta

(* Where the weighted sum of the two temperatures fits an int16_t, the     *)
(* result of temperatureInterpolation is the exact one up to the rounding  *)
(* of a hundredth of a degree.                                             *)
InterpolationWhereItFits ==
    Converted /\ Within(adc_value) /\ Fits(adc_value) => OnTheLine

(* The early returns and the scan fit together: a reading that is left to  *)
(* the scan has a neighbour on either side in the table, except the two    *)
(* that lie exactly at an end of the tolerance, which no return catches.   *)
ScanBrackets ==
    /\ Ends(adc_value) = {}
    /\ adc_value \notin {First.adc - Tolerance, Last.adc + Tolerance}
    => LET i == Scan(adc_value)
       IN  /\ i \in 2..Size
           /\ ConvTable[i - 1].adc <= adc_value
           /\ adc_value < ConvTable[i].adc

=============================================================================
