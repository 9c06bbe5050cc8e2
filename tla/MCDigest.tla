------------------------------ MODULE MCDigest ------------------------------
(***************************************************************************)
(* Small instances of Digest, and of the EvidenceCutoff inside it.         *)
(* Collection runs are interchangeable, and so are digesters.              *)
(***************************************************************************)
EXTENDS Digest, TLC

MCSymmetry == Permutations(Collections) \cup Permutations(Digesters)

NoDigestYet == digests = <<>> /\ \A k \in Digesters : composing[k].phase = "idle"

\* Policy runs and digests read the ledger and leave no trace in it, so one of
\* the two readers at a time.  Where it is a digest, the evidence is left out,
\* which no digest reads, and one row is in the ledger: windows overlap or leave
\* a gap row by row.  No more digests are in hand than may still be stored.
OneReader ==
    \/ NoDigestYet
    \/ /\ policy.phase = "idle"
       /\ \A c \in Collections : collections[c].observed = 0
       /\ Cardinality({c \in Collections : collections[c].phase # "new"}) <= 1
       /\ Len(digests) + Cardinality({k \in Digesters : composing[k].phase # "idle"}) <= MaxDigests
=============================================================================
