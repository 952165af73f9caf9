------------------------- MODULE MCExecutionGateway -------------------------
(* Small instances of the order gateway.                                    *)
EXTENDS ExecutionGateway, TLC

Interchangeable == Permutations(Intents)
=============================================================================
