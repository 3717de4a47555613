------------------------------ MODULE MCDispatch ------------------------------
EXTENDS Dispatch, TLC

CONSTANTS q1, q2, w1, w2, s1

MCWeight == (w1 :> -1) @@ (w2 :> 0)
MCSource == s1 :> q1
MCMaxLen == (q1 :> 2) @@ (q2 :> 1)
\* What the g++ builds of this code return.
MCMeasuredPop == ("dispatch" :> {"message"}) @@ ("release" :> {"null"})

\* All that an uninitialised pointer can be.
MCEmptyPop == [caller \in {"dispatch", "release"} |-> {"null", "message"}]
===============================================================================
