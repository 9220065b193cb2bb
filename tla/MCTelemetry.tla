---------------------------- MODULE MCTelemetry ----------------------------
(* Telemetry with two messages: a frame for one of them can be stored while *)
(* LOG copies the other.                                                    *)
EXTENDS Telemetry
CONSTANTS m1, m2
MCID == {m1, m2}
MCConfiguration == <<m1, m2>>
=============================================================================
