------------------------------- MODULE MCCodec -------------------------------
(* Values of the constants of Codec for model checking: each field starts   *)
(* at, below and above the limits of its driver, and requests name numbers  *)
(* at, between and outside them.                                            *)
EXTENDS Codec

MCCodes ==
  [f \in Fields |->
     CASE f \in {"bq_fb_mv", "shp_fb_mv"} -> {0, 1, 15, 31}
       [] f \in {"vac_mv", "rev_vac_mv"} -> {0, 164, 165, 209, 210, 3250, 3251}
       [] f = "vindpm_mv" -> {0, 1022, 1023, 1024, 2047}
       [] f = "vbus_mv" -> {222, 223, 1023, 1024, 1563, 1564}
       [] f \in {"bq_ichg_ma", "bq_iac_ma", "rev_iac_ma"} -> {0, 7, 8, 101, 400, 401, 1023}
       [] f \in {"bq_ipre_ma", "bq_iterm_ma"} -> {4, 5, 101, 200, 201}
       [] f = "shp_ichg_ma" -> {0, 1, 189, 190, 191, 255}
       [] f = "shp_ipre_ma" -> {0, 95, 96, 97, 127}
       [] f = "shp_iterm_ma" -> {0, 1, 62, 63}
       [] f \in {"shp_iac_ma", "ibus_ma"} -> {0, 1, 95, 127}]

MCPowerOn ==
  [f \in Fields |->
     CASE f \in {"bq_fb_mv", "shp_fb_mv"} -> 16
       [] f \in {"vac_mv", "rev_vac_mv"} -> 210
       [] f = "vbus_mv" -> 223
       [] OTHER -> 33]

MCNamed ==
  {{f} : f \in Fields}
    \union {{"bq_fb_mv", "bq_iterm_ma"}, {"bq_iac_ma", "bq_ipre_ma"},
            {"shp_fb_mv", "shp_iterm_ma"}, {"shp_iac_ma", "shp_ipre_ma"}}

MCNumbers ==
  [f \in Fields |->
     CASE f \in {"bq_fb_mv", "shp_fb_mv"} -> {1503, 1535, 1566, 1568, 65536 + 1536}
       [] f \in {"vac_mv", "rev_vac_mv"} -> {3280, 4200, 5010, 65000}
       [] f = "vindpm_mv" -> {99, 100, 1123, 65536 + 600}
       [] f = "vbus_mv" -> {5000, 20990, 21000, 21050, 48000}
       [] f \in {"shp_iac_ma", "ibus_ma"} -> {2374, 2562, 2563, 50000}
       [] f \in {"shp_ichg_ma", "shp_ipre_ma", "shp_iterm_ma"} -> {400, 1049, 1051, 6700, 20000}
       [] OTHER -> {249, 333, 412, 10020, 60001}]
==============================================================================
