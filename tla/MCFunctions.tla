----------------------------- MODULE MCFunctions -----------------------------
(* The two components that run in no thread of their own, side by side: a    *)
(* behaviour either feeds one input to the normaliser (MCNormalizer) or lets *)
(* the statistics look at one book and a sequence of fills (MCBookAnalytics).*)
EXTENDS MCNormalizer, MCBookAnalytics

normalizes == /\ NInit
              /\ Init /\ b = EmptyBook
analyses == /\ input = None
            /\ Init /\ b \in Books

MCNext == \/ NNext /\ UNCHANGED <<vars, b>>
          \/ /\ input = None /\ Next
             /\ b' = EmptyBook /\ UNCHANGED input

MCSpec == (normalizes \/ analyses) /\ [][MCNext]_<<input, vars, b>>
=============================================================================
