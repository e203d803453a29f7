--------------------------------- MODULE MCMros ---------------------------------
(* One topic advertised and subscribed, another subscribed only.             *)
EXTENDS Mros

MCProgram == << [kind |-> "pub", topic |-> 1], [kind |-> "sub", topic |-> 1],
                [kind |-> "sub", topic |-> 2] >>
=============================================================================
