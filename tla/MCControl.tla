----------------------------- MODULE MCControl -----------------------------
(***************************************************************************)
(* A small instance of Control for TLC.                                    *)
(***************************************************************************)
EXTENDS Control

CONSTANTS alice, bob

\* Alice in control, alice in control and bob reading, open to all, no choice.
Postures ==
    {[open |-> FALSE, control |-> {alice}, read |-> {}],
     [open |-> FALSE, control |-> {alice}, read |-> {bob}],
     [open |-> TRUE, control |-> {}, read |-> {}],
     [open |-> FALSE, control |-> {}, read |-> {}]}
============================================================================
