----------------------------- MODULE Metronome -----------------------------
(***************************************************************************)
(* What the PLC's scan promises about time (src/src/plc/scan.py, "Fixed-   *)
(* period scan loop"): one scan for each period that has begun, none early *)
(* and none left out, until the watchdog stops it.  `owed' is the number   *)
(* of periods begun and not yet scanned.                                   *)
(***************************************************************************)
EXTENDS Integers

VARIABLES owed, stopped

metronomeVars == <<owed, stopped>>

MetronomeInit == owed = 1 /\ stopped = FALSE

PeriodsBegin == owed' > owed /\ UNCHANGED stopped

\* A scan takes time, and another period may begin before it ends.
Beat == owed > 0 /\ owed' >= owed - 1 /\ UNCHANGED stopped

Stop == owed > 0 /\ stopped' = TRUE /\ UNCHANGED owed

MetronomeNext == ~stopped /\ (PeriodsBegin \/ Beat \/ Stop)

\* Late scans are made up: again and again there is none to make up.
CaughtUp == []<>(owed = 0 \/ stopped)

MetronomeSpec ==
  MetronomeInit /\ [][MetronomeNext]_metronomeVars /\ CaughtUp
=============================================================================
