-------------------------- MODULE MCTempConversion --------------------------
(* The conversion with the thermistor table of temperatureMonitoring.c. *)
EXTENDS TempConversion

(* conv_table: the temperatures go from -40.00 to 100.00 in steps of 2.50. *)
conv_table_adc ==
    <<
      199, 227, 258, 292, 330, 371, 416, 465, 519,
      576, 638, 704, 774, 848, 926, 1008, 1093, 1182,
      1273, 1366, 1462, 1559, 1656, 1755, 1853, 1951, 2048,
      2143, 2237, 2329, 2418, 2505, 2589, 2670, 2748, 2822,
      2894, 2962, 3027, 3088, 3147, 3202, 3254, 3304, 3350,
      3394, 3435, 3474, 3511, 3545, 3577, 3607, 3635, 3662,
      3687, 3710, 3732 >>

conv_table ==
    [i \in 1..Len(conv_table_adc) |->
        [adc |-> conv_table_adc[i], temp |-> 250 * (i - 1) - 4000]]

MCGarbage == {-32768, 0, 32767}

=============================================================================
