---------------------------- MODULE ScanMailbox ----------------------------
(***************************************************************************)
(* What the lidar driver's ScanDataHolder promises the caller of           *)
(* grabScanDataHq, free of buffers, locks and events: there is at most one *)
(* newest complete scan; a new one replaces it whole; starting a scan      *)
(* throws it away; a grab returns the newest one, cut to the size the      *)
(* caller asked for.  ScanHolder implements this specification.            *)
(***************************************************************************)
EXTENDS Naturals, Sequences

CONSTANTS Scans,   \* the complete scans the device can have produced
          NoScan   \* no scan is available; none of Scans

VARIABLES latest,     \* the newest complete scan
          delivered   \* what the last successful grab returned

mailboxVars == <<latest, delivered>>

Init == latest = NoScan /\ delivered = NoScan

Publish == /\ latest' \in Scans
           /\ UNCHANGED delivered

Clear == /\ latest' = NoScan
         /\ UNCHANGED delivered

Deliver == /\ latest # NoScan
           /\ \E n \in 1 .. Len(latest) : delivered' = SubSeq(latest, 1, n)
           /\ UNCHANGED latest

Next == Publish \/ Clear \/ Deliver

Spec == Init /\ [][Next]_mailboxVars
=============================================================================
