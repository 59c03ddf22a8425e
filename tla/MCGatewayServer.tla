-------------------------- MODULE MCGatewayServer --------------------------
(* Instances of GatewayServer for TLC. *)
EXTENDS GatewayServer, TLC

CONSTANTS r1, r2, r3, c1, f1, f2, f3, k1, k2, n1, n2

\* A connection that sends a mention and an ordinary message, and one that
\* sends an ordinary message, in one channel, all of one text.
MCRequests    == {r1, r2, r3}
MCChannel     == [r \in MCRequests |-> c1]
SameText      == [r \in MCRequests |-> f1]
MCMention     == r1 :> TRUE @@ r2 :> FALSE @@ r3 :> FALSE
MCBatchable   == r1 :> FALSE @@ r2 :> TRUE @@ r3 :> TRUE
MCOrigin      == r1 :> k1 @@ r2 :> k2 @@ r3 :> k1
TwoNodes      == k1 :> n1 @@ k2 :> n2
NoSession     == {None}

\* Session ids are drawn at random: any of them may come first.
SessionSymmetry == Permutations(Sessions)

\* The first two messages only.
Pair        == {r1, r2}
PairChannel == [r \in Pair |-> c1]
PairText    == [r \in Pair |-> f1]
PairMention == r1 :> TRUE @@ r2 :> FALSE
PairBatchable == r1 :> FALSE @@ r2 :> TRUE
PairOrigin  == r1 :> k1 @@ r2 :> k2
=============================================================================
