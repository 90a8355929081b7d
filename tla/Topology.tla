------------------------------ MODULE Topology ------------------------------
(* lightningd's view of the chain (lightningd/chaintopology.c), the watches *)
(* that fire as it moves (lightningd/watch.c), and the certified frontier   *)
(* behind which the backend plugin holds blocks back (plugins/bcli.c).  A   *)
(* block's hash is its height and its branch: one reorg, one branch.        *)
EXTENDS Integers, FiniteSets, SequencesExt

CONSTANTS
    Txs,         \* transactions with a txid watch
    Funding,     \* the one whose output is a channel's funding
    MaxBlocks,   \* bound: blocks mined above topo->root, on all branches
    MaxForks,    \* bound: reorgs of the anchors
    Lookback,    \* SEQUENTIA_CERT_LOOKBACK
    Announce     \* depth at which the channel stops watching its block

ASSUME TopologyAssumption ==
    /\ Funding \in Txs
    /\ MaxBlocks \in Nat /\ MaxForks \in Nat
    /\ Lookback \in Nat /\ Announce \in Nat \ {0}

VARIABLES
    chain,     \* the node's chain
    fork,      \* which branch is being mined
    past,      \* every chain the node has had
    hint,      \* sequentia_frontier_hint
    view,      \* blocks from topo->root to topo->tip
    asking,    \* a block has been asked for
    prev_tip,  \* the tip at the last updates_complete()
    height,    \* transactions.blockheight, 0 for NULL
    told,      \* txwatch->depth
    undone,    \* history: kicked out since a new tip was last announced
    bwatch,    \* heights with a blockdepthwatch of the channel
    depth,     \* channel->depth
    fault

watches == <<height, told, undone, bwatch, depth, fault>>
node == <<chain, fork, past>>
topology_vars == <<node, hint, view, asking, prev_tip, watches>>

(* prev: the branch of its predecessor, so the predecessor's hash. *)
Blocks == [txs : SUBSET Txs, certified : BOOLEAN,
           fork : 0..MaxForks, prev : 0..MaxForks]
TipFork(c) == IF c = <<>> THEN 0 ELSE Last(c).fork
Mined(c) == UNION {c[h].txs : h \in 1..Len(c)}

TopologyInit ==
    /\ chain = <<>> /\ fork = 0 /\ past = {<<>>}
    /\ hint = 0
    /\ view = <<>> /\ asking = FALSE /\ prev_tip = <<>>
    /\ height = [t \in Txs |-> 0]
    /\ told = [t \in Txs |-> -1] /\ undone = {}
    /\ bwatch = {} /\ depth = 0
    /\ fault = "none"

-----------------------------------------------------------------------------
(* The node. *)

Mine ==
    /\ Cardinality(past) <= MaxBlocks
    /\ \E b \in Blocks :
         /\ b.txs \cap Mined(chain) = {}
         /\ b.fork = fork /\ b.prev = TipFork(chain)
         /\ chain' = Append(chain, b)
    /\ past' = past \cup {chain'}
    /\ UNCHANGED <<fork, hint, view, asking, prev_tip, watches>>

(* A Bitcoin reorg orphans anchors: the tail that rests on them is cut off, *)
(* or a branch that was cut off comes back.                                 *)
Reorg ==
    /\ fork < MaxForks
    /\ fork' = fork + 1
    /\ chain' \in past \ {chain}
    /\ UNCHANGED <<past, hint, view, asking, prev_tip, watches>>

-----------------------------------------------------------------------------
(* The plugin. *)

(* sequentia_certified_frontier(): the raw tip when nothing within Lookback *)
(* of it is certified.                                                      *)
sequentia_certified_frontier ==
    LET found == {h \in 1..Len(chain) : /\ chain[h].certified
                                        /\ h + Lookback >= Len(chain)}
    IN  IF found = {} THEN Len(chain)
        ELSE CHOOSE h \in found : \A g \in found : g <= h

(* sequentia_block_in_view(): the answer, and the hint it leaves. *)
knows_in_view(h) ==
    \/ h + Lookback <= hint
    \/ h <= hint /\ chain[h].certified
(* Mutant: the frontier itself is held back. *)
in_view_below(h) ==
    h <= Len(chain) /\ (knows_in_view(h) \/ h < sequentia_certified_frontier)
in_view(h) ==
    h <= Len(chain) /\ (knows_in_view(h) \/ h <= sequentia_certified_frontier)
hint_after(h) ==
    IF h > Len(chain) \/ knows_in_view(h) THEN hint
    ELSE sequentia_certified_frontier

-----------------------------------------------------------------------------
(* lightningd. *)

try_extend_tip ==
    /\ ~asking
    /\ asking' = TRUE
    /\ UNCHANGED <<node, hint, view, prev_tip, watches>>

(* get_tx_depth() *)
get_tx_depth(t) == IF height[t] = 0 THEN 0 ELSE Len(view) - height[t] + 1

(* watch_topology_changed(), txw_fire(): a depth of 0 is not told here. *)
txw_fire(t) == IF get_tx_depth(t) # 0 THEN get_tx_depth(t) ELSE told[t]

(* watch_check_block_added(), funding_depth_cb(): the channel drops its     *)
(* watch when it is deep enough.                                            *)
watch_check_block_added ==
    /\ fault' = IF \E h \in bwatch : h > Len(view)
                THEN "future" ELSE fault
    /\ depth' = IF bwatch = {} THEN depth
                ELSE Len(view) + 1 - CHOOSE h \in bwatch : TRUE
    /\ bwatch' = {h \in bwatch : Len(view) - h + 1 < Announce}

(* get_new_block(), no such block: updates_complete(), which tells nobody   *)
(* anything when the tip is the one it last announced.                      *)
updates_complete ==
    /\ asking /\ ~in_view(Len(view) + 1)
    /\ asking' = FALSE
    /\ hint' = hint_after(Len(view) + 1)
    /\ prev_tip' = view
    /\ IF prev_tip = view THEN UNCHANGED <<told, undone, bwatch, depth, fault>>
       ELSE /\ watch_check_block_added
            /\ told' = [t \in Txs |-> txw_fire(t)]
            /\ undone' = {}
    /\ UNCHANGED <<node, view, height>>

(* add_tip(), filter_block_txs(): watched transactions are saved with their *)
(* height; channel_funding_found() watches the block's depth.               *)
add_tip(b) ==
    LET h == Len(view) + 1
    IN  /\ view' = Append(view, b)
        /\ height' = [t \in Txs |-> IF t \in b.txs THEN h ELSE height[t]]
        /\ bwatch' = IF Funding \in b.txs THEN bwatch \cup {h} ELSE bwatch
        /\ UNCHANGED <<told, undone, depth, fault>>

(* Mutant: the channel is not told. *)
watch_check_block_removed_not == UNCHANGED <<bwatch, depth>>
(* watch_check_block_removed(), funding_reorged_cb() *)
watch_check_block_removed ==
    /\ depth' = IF Len(view) \in bwatch THEN 0 ELSE depth
    /\ bwatch' = bwatch \ {Len(view)}

(* Mutant: who watches a transaction that is kicked out is not told. *)
kicked_out_silently(out) == told
(* txwatch_fire(topo, &txs[i], 0) *)
kicked_out(out) == [t \in Txs |-> IF t \in out THEN 0 ELSE told[t]]

(* wallet_block_remove(): the block's transactions lose their height. *)
wallet_block_remove(out) == [t \in Txs |-> IF t \in out THEN 0 ELSE height[t]]

(* remove_tip() *)
remove_tip ==
    LET out == {t \in Txs : height[t] = Len(view)}
    IN  /\ view' = Front(view)
        /\ told' = kicked_out(out)
        /\ undone' = undone \cup out
        /\ height' = wallet_block_remove(out)
        /\ watch_check_block_removed
        /\ UNCHANGED fault

(* blk->hdr.prev_hash is topo->tip->blkid. *)
prev_hash_matches == chain[Len(view) + 1].prev = TipFork(view)

(* get_new_block(), with a block: on our tip, or not. *)
get_new_block ==
    /\ asking /\ in_view(Len(view) + 1)
    /\ hint' = hint_after(Len(view) + 1)
    /\ IF prev_hash_matches THEN add_tip(chain[Len(view) + 1]) ELSE remove_tip
    /\ UNCHANGED <<node, asking, prev_tip>>

Poll == try_extend_tip \/ updates_complete \/ get_new_block
TopologyNext == fault = "none" /\ (Mine \/ Reorg \/ Poll)

TopologySpec == TopologyInit /\ [][TopologyNext]_topology_vars

(* The poll timer is rearmed for ever, and the plugin answers. *)
FairTopology == TopologySpec /\ WF_topology_vars(fault = "none" /\ Poll)

-----------------------------------------------------------------------------
DepthIn(c, t) ==
    IF t \notin Mined(c) THEN 0
    ELSE Len(c) + 1 - CHOOSE h \in 1..Len(c) : t \in c[h].txs

(* Who watches a transaction is never left with a depth it does not have:   *)
(* kicked out, it has been told 0 by the time its block is gone, however    *)
(* the chain moves while blocks are removed and added; and when the poll is *)
(* done every depth told is the depth in the view.  The exception is the    *)
(* code's: when the blocks removed come back within the poll the tip is the *)
(* one last announced, updates_complete() tells nobody, and who was told 0  *)
(* goes on believing it until the next block.                               *)
DepthsTold ==
    \A t \in Txs :
        /\ told[t] > 0 => t \in Mined(view)
        /\ ~asking /\ t \in Mined(view) =>
             told[t] = IF t \in undone THEN 0 ELSE DepthIn(view, t)

(* The channel watches the depth of the block that has its funding and no   *)
(* other (the assertion in watch_check_block_added() never fails), and      *)
(* believes in a depth only while the funding is there.  Once it has        *)
(* believed Announce it watches no more, and a reorg goes unnoticed.        *)
FundingDepth ==
    /\ fault = "none"
    /\ \A h \in bwatch : h <= Len(view) /\ Funding \in view[h].txs
    /\ depth > 0 /\ depth < Announce => Funding \in Mined(view)

(* However often tails are cut off and come back while blocks are fetched,  *)
(* the view comes to follow the node's certified chain as soon as that is   *)
(* longer; until then it is a chain the node once had.                      *)
CaughtUp ==
    \/ view = SubSeq(chain, 1, sequentia_certified_frontier)
    \/ Len(view) >= sequentia_certified_frontier /\ view \in past
EventuallyCaughtUp == <>[]CaughtUp
=============================================================================
