----------------------------- MODULE HtlcState -----------------------------
(* The HTLC lifecycle of common/htlc_state.{h,c}: ten states for an HTLC    *)
(* this node offered, the mirror ten for one its peer offered, and the flag *)
(* table per_state_bits as one set of states per flag and side.             *)
EXTENDS Naturals

Sides == {"local", "remote"}
Other(side) == IF side = "local" THEN "remote" ELSE "local"

SENT_ADD_HTLC == 0
SENT_ADD_COMMIT == 1
RCVD_ADD_REVOCATION == 2
RCVD_ADD_ACK_COMMIT == 3
SENT_ADD_ACK_REVOCATION == 4
RCVD_REMOVE_HTLC == 5
RCVD_REMOVE_COMMIT == 6
SENT_REMOVE_REVOCATION == 7
SENT_REMOVE_ACK_COMMIT == 8
RCVD_REMOVE_ACK_REVOCATION == 9
RCVD_ADD_HTLC == 10
RCVD_ADD_COMMIT == 11
SENT_ADD_REVOCATION == 12
SENT_ADD_ACK_COMMIT == 13
RCVD_ADD_ACK_REVOCATION == 14
SENT_REMOVE_HTLC == 15
SENT_REMOVE_COMMIT == 16
RCVD_REMOVE_REVOCATION == 17
RCVD_REMOVE_ACK_COMMIT == 18
SENT_REMOVE_ACK_REVOCATION == 19

HtlcStates == 0..19

(* HTLC_LOCAL_F_OWNER / HTLC_REMOTE_F_OWNER. *)
htlc_state_owner(s) == IF s < RCVD_ADD_HTLC THEN "local" ELSE "remote"

(* HTLC_F_COMMITTED: the side's commitment transaction carries the HTLC. *)
Committed(side) ==
    IF side = "local" THEN (3..5) \cup (11..17) ELSE (1..7) \cup (13..15)

(* HTLC_F_PENDING: the side's next commitment will add or remove it. *)
Pending(side) == IF side = "local" THEN {2, 5, 10, 17} ELSE {0, 7, 12, 15}

(* Mutant: the remote range starts one state late. *)
WasCommittedLate(side) ==
    IF side = "local" THEN (3..9) \cup (11..19) ELSE (1..9) \cup (14..19)

(* HTLC_F_WAS_COMMITTED: the side's commitment carries it or once did. *)
WasCommitted(side) ==
    IF side = "local" THEN (3..9) \cup (11..19) ELSE (1..9) \cup (13..19)

(* HTLC_ADDING: the states an update_fee passes through as well. *)
AddingStates == (0..3) \cup (10..13)

(* htlc_is_dead: neither commitment will ever carry it again. *)
DeadStates == {RCVD_REMOVE_ACK_REVOCATION, SENT_REMOVE_ACK_REVOCATION}
============================================================================
