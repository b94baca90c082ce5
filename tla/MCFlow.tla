------------------------------- MODULE MCFlow -------------------------------
(* Instances of FlowLifecycle for TLC.  Flows are interchangeable: the      *)
(* store orders them by arrival only.  Nothing in FlowLifecycle reads a     *)
(* seq, so states that differ in seqs only are explored once.               *)
EXTENDS FlowLifecycle, TLC

Interchangeable == Permutations(Flows)

WithoutSeqs ==
    <<[store EXCEPT !.seq = 0,
                    !.recs = [f \in DOMAIN @ |-> [@[f] EXCEPT !.seq = 0]]],
      clock, claim, l0, turn, hub, killed, metrics>>
=============================================================================
