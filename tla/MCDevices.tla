------------------------------- MODULE MCDevices -------------------------------
(* A small instance of Devices: one topic advertised and subscribed, another  *)
(* subscribed only; two device threads.                                       *)
EXTENDS Devices

MCProgram == << [kind |-> "pub", topic |-> 1], [kind |-> "sub", topic |-> 1],
                [kind |-> "sub", topic |-> 2] >>
=============================================================================
