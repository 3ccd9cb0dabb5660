----------------------------- MODULE MCMainFSM -----------------------------
EXTENDS MainFSM

\* The values MigrationScript.java puts into the data base.
MCWires == {380, 690}
MCHomeWires == {590, 690}

MCButtons == {IncrementEvent("LEFT"), GoHomeButton, ClockInButton}
MCHomeButton == {GoHomeButton}
=============================================================================
