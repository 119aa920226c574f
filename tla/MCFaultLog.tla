----------------------------- MODULE MCFaultLog ------------------------------
(* Values of the constants of FaultLog for model checking. *)
EXTENDS FaultLog

(* The BQ25756: read-cleared flags of kinds 1 to 3, two of them in one     *)
(* register, and a level fault of kind 0; more faults than log entries.    *)
(* The SHP8808: one level fault in each status register and the two sticky *)
(* OTG bits of STATUS1; as many faults as log entries.                     *)
MCFault ==
  [bq  |-> {<<0, 0>>, <<1, 0>>, <<2, 0>>, <<3, 0>>, <<3, 1>>},
   shp |-> {<<0, 1>>, <<1, 0>>, <<1, 1>>, <<2, 4>>}]

MCReadClear ==
  [bq  |-> {<<1, 0>>, <<2, 0>>, <<3, 0>>, <<3, 1>>},
   shp |-> {<<1, 0>>, <<1, 1>>}]
==============================================================================
