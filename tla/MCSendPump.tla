----------------------------- MODULE MCSendPump ------------------------------
(* Small instance of the send pump.                                        *)
EXTENDS SendPump

CONSTANTS reg, a, b

MCMsg == {reg, a, b}
MCRegister == {reg}
==============================================================================
