-------------------------------- MODULE MCRtc --------------------------------
(* The whole range the two-digit year covers, 1970 to 2069, day by day.      *)
EXTENDS Rtc

MCReadOn(c) == c.d \in {1, 15, 29} /\ c.mo \in {1, 2, 3, 12}
               /\ c.y \in {1971, 2000, 2004, 2015, 2026}
=============================================================================
