------------------------- MODULE MCControllerLinks --------------------------
(* Instances of ControllerLinks for TLC. *)
EXTENDS ControllerLinks, TLC

CONSTANTS c1, c2, g1, g2
Symm == Permutations(Controller) \cup Permutations(Stream)

Called == {s \in Stream : play[s] # "none"}
Trouble ==
  moves + Cardinality(UNION {out[s] : s \in Stream}) + Cardinality(Called)
    + Cardinality({c \in Controller : ident[c] # "none"})
Absent(c) == link[c] = "gone" /\ c \notin known /\ \A s \in Stream : c \notin roster[s]

\* Bound: three things at most of moving links, deaths, calls and a running identify, more
\* when one controller stays away
Small == Trouble <= 3 \/ (Trouble <= 6 /\ \E c \in Controller : Absent(c))
=============================================================================
