--------------------------- MODULE MCEspCanDriver ---------------------------
(* EspCanDriver on a three-slot ring: it wraps and it fills; with two frames *)
(* any loss, repetition or change of order shows.                            *)
EXTENDS EspCanDriver

MCAllCalls == {"send", "clear", "clear_tx", "uninstall"}
=============================================================================
