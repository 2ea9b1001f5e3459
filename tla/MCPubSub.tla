------------------------------ MODULE MCPubSub ------------------------------
(***************************************************************************)
(* Finite instances of PubSub.  Clients are interchangeable: no action     *)
(* or safety property tells them apart.                                    *)
(***************************************************************************)
EXTENDS PubSub, TLC

CONSTANT Seldom  \* the channels that one message less is published to

PeerSymmetry == Permutations(Client)

\* Nobody has to publish: bounding it takes no fair step away.
MCNext == Next /\ \A ch \in Seldom : sent'[ch] < MaxMessages

MCSafeSpec == Init /\ [][MCNext]_vars
MCSpec == MCSafeSpec /\ Fairness

=============================================================================
