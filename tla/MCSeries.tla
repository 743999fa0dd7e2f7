------------------------------ MODULE MCSeries ------------------------------
(* Samplers of one series of three readings: two that race, and one alone.   *)
EXTENDS Series
=============================================================================
