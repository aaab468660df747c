------------------------------ MODULE MCIsolate ------------------------------
(* Instances and arguments for model checking Isolate. *)
EXTENDS Isolate

CONSTANTS i1, i2, r1, r2

TwoInstances == <<i1, i2>>

Args(mode, count, instances, offset) ==
  [mode |-> mode, count |-> count, instances |-> instances, offset |-> offset]

\* isolate; isolate --instances i1 --reset.
DrainAllThenReset ==
  [r \in {r1, r2} |-> IF r = r1 THEN Args("all", 0, <<>>, 1)
                      ELSE Args("instances", 0, <<i1>>, 0)]

\* isolate --count 2; isolate --count 1 --reset.
Counted ==
  [r \in {r1, r2} |-> IF r = r1 THEN Args("count", 2, <<>>, 1)
                      ELSE Args("count", 1, <<>>, 0)]
=============================================================================
