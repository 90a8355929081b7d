---------------------------- MODULE CommitDance ----------------------------
(* What the commitment dance of two channelds promises, message loss and    *)
(* restarts included: how the three counters each of them keeps move.  It   *)
(* carries no network: a commitment_signed or revoke_and_ack that was sent  *)
(* and not received is on its way, or lost and sent again after the next    *)
(* channel_reestablish.  Channeld implements this module; SymChannel builds *)
(* on it.                                                                   *)
EXTENDS Integers

CONSTANTS A, B    \* the two nodes; A opened the channel
Nodes == {A, B}
ASSUME NodesAssumption == A # B

VARIABLES
    nextL,   \* nextL[n]: next_index[LOCAL], number of n's next own commitment
    nextR,   \* nextR[n]: next_index[REMOTE], of the next n will sign
    revs     \* revs[n]: revocations_received

dance == <<nextL, nextR, revs>>

Peer(n) == IF n = A THEN B ELSE A

(* Commitment 0 of each side is exchanged when the channel opens. *)
DanceInit ==
    /\ nextL = [n \in Nodes |-> 1]
    /\ nextR = [n \in Nodes |-> 1]
    /\ revs = [n \in Nodes |-> 0]

(* Mutant: commitments may follow one another unrevoked. *)
commit_at_once(n) == TRUE
commit_revoked(n) == revs[n] = nextR[n] - 1

(* send_commit(): only once the commitment before is revoked. *)
SendCommit(n) ==
    /\ commit_revoked(n)
    /\ nextR' = [nextR EXCEPT ![n] = @ + 1]
    /\ UNCHANGED <<nextL, revs>>

(* handle_peer_commit_sig(): n takes the new commitment and revokes the one *)
(* before it.                                                               *)
RecvCommit(n) ==
    /\ nextR[Peer(n)] = nextL[n] + 1
    /\ nextL' = [nextL EXCEPT ![n] = @ + 1]
    /\ UNCHANGED <<nextR, revs>>

(* handle_peer_revoke_and_ack(). *)
RecvRevoke(n) ==
    /\ revs[n] < nextL[Peer(n)] - 1
    /\ revs' = [revs EXCEPT ![n] = @ + 1]
    /\ UNCHANGED <<nextL, nextR>>

DanceNext ==
    \E n \in Nodes : SendCommit(n) \/ RecvCommit(n) \/ RecvRevoke(n)

DanceSpec == DanceInit /\ [][DanceNext]_dance

-----------------------------------------------------------------------------
DanceTypeOK ==
    /\ nextL \in [Nodes -> Nat \ {0}]
    /\ nextR \in [Nodes -> Nat \ {0}]
    /\ revs \in [Nodes -> Nat]

(* What channel_reestablish relies on: the peer has at most one commitment  *)
(* that n holds no revocation for the predecessor of, and n's revocation    *)
(* count, the peer's commitment number and what n has signed are in order   *)
(* and at most one apart.                                                   *)
IndicesAgree ==
    \A n \in Nodes :
        /\ revs[n] <= nextL[Peer(n)] - 1
        /\ nextL[Peer(n)] <= nextR[n]
        /\ nextR[n] <= revs[n] + 2
============================================================================
