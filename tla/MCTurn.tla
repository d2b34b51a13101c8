------------------------------- MODULE MCTurn -------------------------------
EXTENDS Turn, TLC

CONSTANTS p1, p2  \* peers

MCIpOf == [p \in Peer |-> "ip"]

\* Peers at one IP address are alike.
MCSymmetry == Permutations(Peer)
=============================================================================
