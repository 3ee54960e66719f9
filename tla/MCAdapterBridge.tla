-------------------------- MODULE MCAdapterBridge --------------------------
EXTENDS AdapterBridge, TLC
CONSTANTS x1, x2, y1, X, Y
Adapters == (x1 :> X @@ x2 :> X @@ y1 :> Y)
MCAdapterOf == [p \in Prints |-> Adapters[p]]
=============================================================================
