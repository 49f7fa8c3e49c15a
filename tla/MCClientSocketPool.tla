------------------------- MODULE MCClientSocketPool -------------------------
(* Pools whose connections fail at once and whose urgent requests ignore the   *)
(* limits, and pools of which neither is true, for which more is promised.     *)
EXTENDS ClientSocketPool, TLC

\* Handles of one kind and groups are interchangeable.
Symmetry == Permutations(Handles \ Urgent) \cup Permutations(Groups)

Rough == [ignoreLimits |-> Urgent, connectResults |-> Results, cleanupTimer |-> FALSE,
          lowerStalls |-> BOOLEAN, requests |-> 3]

Smooth == [ignoreLimits |-> {}, connectResults |-> {"ERR_IO_PENDING", "OK"},
           cleanupTimer |-> TRUE, lowerStalls |-> {FALSE}, requests |-> 4]

Asynchronous == [Smooth EXCEPT !.connectResults = {"ERR_IO_PENDING"}]

SafetyLoads == {Rough, Smooth}
LivenessLoads == {Asynchronous}
=============================================================================
