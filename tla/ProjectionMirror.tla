------------------------- MODULE ProjectionMirror --------------------------
(***************************************************************************)
(* What the kernel projection promises its readers: a mirror of the state  *)
(* of the service, slice by slice, that may be late but is never ahead of  *)
(* it and never goes back.                                                 *)
(***************************************************************************)
EXTENDS Naturals

CONSTANTS Part,   \* what is mirrored
          Unseen  \* the value of a part that was not read yet

VARIABLES truth,  \* the revision of the original
          copy    \* the revision each part of the mirror shows

TruthMoves == truth' = truth + 1 /\ UNCHANGED copy

\* Some parts are shown as they were at one revision, no older than before.
CopyFollows(parts, r) ==
  /\ \A p \in parts : copy[p] # Unseen => copy[p] <= r
  /\ copy' = [p \in Part |-> IF p \in parts THEN r ELSE copy[p]]
  /\ UNCHANGED truth

Init == truth \in {0, 1} /\ copy = [p \in Part |-> Unseen]
Next == TruthMoves \/ \E parts \in SUBSET Part, r \in 0 .. truth : CopyFollows(parts, r)
Spec == Init /\ [][Next]_<<truth, copy>>
=============================================================================
