------------------------------ MODULE MCScrape ------------------------------
(* An instance of Scrape for TLC: one source with two metrics, so that its *)
(* later one can be left out, and one with a single metric.                *)
EXTENDS Scrape

MCSources    == {"two", "one"}
MCMaxMetrics == [s \in MCSources |-> IF s = "two" THEN 2 ELSE 1]
=============================================================================
