---------------------------- MODULE MCDerivedGates ----------------------------
(***************************************************************************)
(* Two generators and three versions of every edited file.  The third      *)
(* version of the sources gives the output of the first again, and differs *)
(* from the second only in files a checkout lock has no exact digest of.   *)
(***************************************************************************)
EXTENDS DerivedGates, TLC

CONSTANTS w1, w2
MCWriters == {w1, w2}
Swap      == Permutations(MCWriters)

MCVersion == 3
MCOutput  == [x \in (1..MCVersion) \X (1..MCVersion) \X (1..MCVersion) |->
                <<x[1], x[2] % 2, x[3]>>]
MCPlain   == [s \in 1..MCVersion |-> IF s = 1 THEN 1 ELSE 2]

\* A derivation and a run do not write what the other reads, and a run that
\* has ended changes nothing but last: neither is explored beside another.
OneCommand == last = None /\ (deriver = None \/ run = None)
=============================================================================
