------------------------------- MODULE Lists -------------------------------
(* Python's lists, where the modules of this directory go over them: the comprehensions
   that leave elements out.  What is defined here by recursion is a function, so that it
   can be reasoned about.                                                            *)
EXTENDS Naturals, Sequences, SequencesExt

(* A sequence, whatever is in it. *)
IsSeq(s) == s \in Seq(ToSet(s))

(* The elements of a sequence that are in a set, in their order. *)
Those(seq, S) ==
    LET kept[n \in 0..Len(seq)] ==
            IF n = 0 THEN << >>
            ELSE IF seq[n] \in S THEN Append(kept[n - 1], seq[n]) ELSE kept[n - 1]
    IN  kept[Len(seq)]
=============================================================================
