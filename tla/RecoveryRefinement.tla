------------------------- MODULE RecoveryRefinement -------------------------
(***************************************************************************)
(* How Recovery implements RecoveryContract: the contract's variables as   *)
(* functions of the threads, the outcomes and the histories.               *)
(***************************************************************************)
EXTENDS Recovery

(* A look is a full probe that has been read and not yet acted on; the     *)
(* reads of the wait are none, they are only compared.                     *)
Evidence(t) ==
  IF \/ At(t, "decide") /\ run[t].site # "wait"
     \/ At(t, "container") \/ At(t, "gateway")
  THEN Judged(t) ELSE None

Verdict(t) ==
  IF Finished(t) THEN [action |-> outcome[t].action,
                       recovered |-> outcome[t].recovered,
                       deferred |-> outcome[t].deferred]
  ELSE None

evidence == [t \in Targets |-> Evidence(t)]
restarts == [t \in Targets |-> [container |-> hist[t].container,
                                gateway |-> hist[t].gateway]]
verdict == [t \in Targets |-> Verdict(t)]

Contract == INSTANCE RecoveryContract
  WITH evidence <- evidence, restarts <- restarts, verdict <- verdict

(* A recovery only does what the header of orchestrator.py promises: it    *)
(* looks, restarts on the evidence of the look at hand, each thing at most *)
(* once and the container first, and closes with a verdict that a look     *)
(* supports, step by step.                                                 *)
KeepsContract == Contract!ContractSpec
=============================================================================
