---------------------------- MODULE MCExperiments ----------------------------
(* Instances of Experiments for TLC. *)
EXTENDS Experiments

CONSTANTS e1, e2

\* Both experiments want the same flag.
OneFlag == [e \in Experiment |-> "flag"]

Tallies == [exp : 0..2, crash : 0..2, fault : 0..1, flip : 0..1, drop : 0..1,
            stop : 0..1, discard : 0..1, later : 0..2]
Trouble(u) == u.crash + u.fault + u.flip + u.drop + u.stop + u.discard

\* Bound: one experiment meets any two troubles, a pair of them one crash, stop
\* or switch of the gates.
Few == {u \in Tallies : \/ u.exp < 2 /\ Trouble(u) <= 2
                        \/ u.exp = 2 /\ Trouble(u) <= 1 /\ Trouble(u) = u.crash + u.stop + u.flip}
=============================================================================
