-------------------------- MODULE MCGstSystemClock --------------------------
(* GstSystemClock for TLC.  A use may be of a list of two entries, one of  *)
(* them periodic; of entries that are used again; of entries used once.    *)
EXTENDS GstSystemClock

CONSTANTS s1, a1, a2

OneSync == {s1}
TwoAsync == {a1, a2}

Use(used, periodic, reinit) ==
  [entries |-> used, periodic |-> periodic, reinit |-> reinit]

MCUses == {Use({a1, a2}, {a1}, TRUE), Use({s1, a1}, {a1}, TRUE),
           Use({s1, a1}, {}, FALSE), Use({a1, a2}, {}, FALSE)}
TwoOnce == {Use({s1, a1, a2}, {}, FALSE)}
=============================================================================
