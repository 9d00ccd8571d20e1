---------------------------- MODULE ObjectStore ----------------------------
(***************************************************************************)
(* What an evidence directory promises its readers: complete objects only  *)
(* ever appear, and a bundle appears after every log it refers to.         *)
(* ContentStore is shown to implement this module.                         *)
(***************************************************************************)
CONSTANTS
  Objects,   \* everything that can be stored, logs and bundles
  Refs       \* Refs[o]: the objects o refers to

VARIABLE stored    \* the objects a reader finds complete

Init == stored = {}

Store(o) ==
  /\ Refs[o] \subseteq stored
  /\ stored' = stored \union {o}

Next == \E o \in Objects : Store(o)

Spec == Init /\ [][Next]_stored
=============================================================================
