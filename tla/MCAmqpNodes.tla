----------------------------- MODULE MCAmqpNodes -----------------------------
(* Small instances of AmqpNodes for TLC.                                     *)
EXTENDS AmqpNodes, TLC

CONSTANTS t1, t2

MCGoToIds == {t1, t2}
MCOneGoToId == {t1}
\* One DelayNode configured with the URN of the task, one with the bare id.
MCDelayIds == {Urn(t1), t1}
MCTwoKeys == {Urn(t1), Urn(t2)}
MCOneKeyAndBare == {Urn(t1), t1}

\* Calls are interchangeable in the properties of the safety runs.
CallerSymmetry == Permutations(Callers)
=============================================================================
