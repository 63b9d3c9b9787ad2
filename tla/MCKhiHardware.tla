--------------------------- MODULE MCKhiHardware ---------------------------
(* KhiHardware for TLC.                                                    *)
EXTENDS KhiHardware

AllFaults == MayFail

\* Everything may fail but power off and close, which end a session safely, and
\* the language query, whose failure keeps one open.
TeardownReliable == MayFail \ {"power_off", "close", "language"}
=============================================================================
