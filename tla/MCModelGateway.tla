-------------------------- MODULE MCModelGateway --------------------------
(* An oracle and a pack challenge that asks for a call and its token.      *)
EXTENDS ModelGateway

MCAsked == <<[oracle |-> TRUE, call |-> FALSE, bound |-> FALSE],
             [oracle |-> FALSE, call |-> TRUE, bound |-> TRUE]>>
=============================================================================
