------------------------------- MODULE MCPages -------------------------------
(* A small instance of Pages: two devices that may replace each other at    *)
(* either of two points while a page is between its two reads.             *)
EXTENDS MCMonitoringState, Pages

MCMessagesTwo == {Sample(d1, 1, 1, 2, Steep, "SAFE"), Sample(d2, 1, 1, 1, Calm, "SAFE")}
=============================================================================
