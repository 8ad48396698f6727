---------------------------- MODULE MCToolPipeline ----------------------------
(* Two tools, one with each order of the decorators; the input of one request *)
(* is too long and is cut to that of the other.                               *)
EXTENDS ToolPipeline, TLC

CONSTANTS c1, c2, t1, t2, short, long

Asks(t, input) == [tool |-> t, kwargs |-> ("query" :> input)]

MCRequests == {Asks(t1, short), Asks(t2, short), Asks(t2, long)}

MCTrimmed == [r \in MCRequests |-> Asks(r.tool, short)]

CallSymmetry == Permutations({c1, c2})
===============================================================================
