---------------------------- MODULE MCCodeIndex -----------------------------
(* An instance of CodeIndex for TLC. *)
EXTENDS CodeIndex, TLC

\* All files are there, or one that is not ignored is missing or not text.
MCFirstDisks ==
    LET text == CHOOSE t \in Texts : TRUE
        all == [f \in Files |-> text]
    IN  {all} \cup {[all EXCEPT ![f] = x] : f \in Files \ Ignored, x \in {Gone, Binary}}

Symmetry == Permutations(Watchers)
=============================================================================
