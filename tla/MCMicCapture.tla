---------------------------- MODULE MCMicCapture ----------------------------
(* Three Macs: one that asks for echo cancelling and has no SoX, one whose    *)
(* SoX delivers nothing, and a terminal's daemon with a working one.         *)
EXTENDS MicCapture

MCHosts == { [aec |-> TRUE,  sox |-> "absent", gui |-> TRUE],
             [aec |-> FALSE, sox |-> "silent", gui |-> TRUE],
             [aec |-> FALSE, sox |-> "works",  gui |-> FALSE] }

=============================================================================
