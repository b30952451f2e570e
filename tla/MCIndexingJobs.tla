--------------------------- MODULE MCIndexingJobs ---------------------------
(***************************************************************************)
(* Values of the constants of IndexingJobs for TLC.                        *)
(***************************************************************************)
EXTENDS LedgerLifecycle, TLC

CONSTANTS d1, d2, w1, w2, s1, s2, s3

\* One process with one slot.
SingleSlot == s1 :> w1

\* Two processes with one slot each.
OneSlotEach == s1 :> w1 @@ s2 :> w2

\* A process with two slots, whose claims differ in the token only, and another.
TwoAndOne == s1 :> w1 @@ s2 :> w1 @@ s3 :> w2

=============================================================================
