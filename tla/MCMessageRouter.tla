-------------------------- MODULE MCMessageRouter --------------------------
(* Instances of MessageRouter for TLC. *)
EXTENDS MessageRouter

CONSTANTS r1, r2, r3, r4, c1, c2, f1, f2, f3

\* Three messages in one channel and one in another; r4 repeats r3's text when
\* the instance gives both the same fingerprint.
MCRequests == {r1, r2, r3, r4}
MCChannel  == r1 :> c1 @@ r2 :> c1 @@ r3 :> c1 @@ r4 :> c2

\* All four messages in one channel, r4 a repetition of r3.
OneChannel     == r1 :> c1 @@ r2 :> c1 @@ r3 :> c1 @@ r4 :> c1
MCFingerprint  == r1 :> f1 @@ r2 :> f2 @@ r3 :> f3 @@ r4 :> f3

\* One direct mention among ordinary messages of a server channel.
MCMention   == r1 :> FALSE @@ r2 :> TRUE @@ r3 :> FALSE @@ r4 :> FALSE
MCBatchable == r1 :> TRUE @@ r2 :> FALSE @@ r3 :> TRUE @@ r4 :> TRUE
=============================================================================
