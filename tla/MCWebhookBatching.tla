------------------------- MODULE MCWebhookBatching -------------------------
(* Small instances of WebhookBatching.                                      *)
EXTENDS WebhookBatching, TLC

CONSTANTS r1, r2, b1, b2, A

BatchKind == [d \in Deliveries |-> "batch"]
OneEntity == [e \in Events |-> A]
NothingTooLarge == {}

\* Event 3 exceeds the body limit, whatever it is sent with.
ThreeTooLarge == {S \in SUBSET Events : 3 \in S}

\* Bounds of the exploration: with event 1 comes either event 2, and then no row
\* is overlapped, or event 3.
TwoDispatched == outbox[2].status = "none" \/ outbox[3].status = "none"
OverlapsApart == outbox[2].status = "none" \/ \A d \in Deliveries : overlaps[d] = 0

Symmetry == Permutations(Replicas) \cup Permutations(Deliveries)
=============================================================================
