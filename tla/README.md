# A TLA+ model of SeqLN's channels

SeqLN is a fork of Core Lightning for the Sequentia network. A node is a set of
daemons around `lightningd`, which owns the database. Each channel has one
daemon at a time: `openingd` or `dualopend`, then `channeld`, then `closingd` or
`onchaind`. The fork adds asset channels, and among them the *symmetric* channel
type, in which a stale state on chain is replaced by a newer one instead of
being punished; lanes, credit notes, a keyless watchtower (`speculad`), and a
chain whose blocks count once a quorum has certified them.

This directory models what every payment depends on: the commitment protocol of
two nodes with lost connections and restarts; the symmetric channel built on it,
off chain and on, and its watchtower; the mutual close; swaps between lanes;
credit notes; payment sets and forwarding in `lightningd`; and the chain as
`lightningd` sees it.

## Inventory of the system

| Part | State it keeps | Operations | What is hard | What makes it correct |
|---|---|---|---|---|
| `common/htlc_state.c`, `common/fee_states.c` | the state of each HTLC (20 of them), a feerate per state | one step along the lifecycle | two views of one HTLC, a feerate per view | the flag table fits the dance; a feerate is never lost |
| `channeld/full_channel.c` | HTLCs, balances of either side in either view, feerates | add, fulfil, fail, four transitions, restore | changes pending in one view only; rebuilding balances from rows | funds are conserved; restoring gives what was there |
| `channeld/channeld.c` | commitment numbers, revocation count, commit timer, shutdown flags | update messages, `commitment_signed`, `revoke_and_ack`, `channel_reestablish`, `shutdown` | crossing messages, retransmission order, timer restarts | both nodes sign the same transactions; nothing hangs |
| `lightningd/peer_htlcs.c`, `channel_control.c` | HTLC rows, `our_msat`, last message sent | save each report before channeld goes on; settle HTLCs; start channeld | a crash between save and send | every outcome is kept; every reported state is the expected one |
| `lightningd/peer_htlcs.c`, forwarding | which incoming HTLC an outgoing one is for | forward, fail, fulfil, deadlines, replay | channelds die, blocks pass, either channel goes on chain | never out of pocket; forwarded once; resolved in the end |
| `lightningd/htlc_set.c`, `invoice.c`, `wallet/invoices.c` | parts of one payment, the invoice | collect, time out, ask the plugins, fulfil all | timer against hook; the invoice changes while plugins think; sets are in memory only | all parts or none, once |
| `lightningd/symmetric.c`, `channeld/sym_channeld.c` | three states of a symmetric channel | save on commitment, on revocation; kickoff; spends rebuilt each block | saved before it is revoked; the peer's pending state | a state above every revoked one is held whole |
| `onchaind/onchaind.c` | outputs tracked, what each will be resolved by | resolve, track, give up | the other side publishes late | revoked states do not settle; the margin before an HTLC expires suffices |
| `lightningd/credit.c` | credit notes issued and held, a floor in each channeld | issue, receive, resend | a note and an HTLC take different ways | what is owed is covered and enforceable |
| `lightningd/sym_lanes.c` | balances of the lanes, a request, a swap in flight | ask, decide, carry in a commitment, cancel | a swap in one commitment and not yet the other; a cancel on its way | both lanes move at both nodes, or none |
| `lightningd/chaintopology.c`, `watch.c`, `plugins/bcli.c` | chain as seen, watches, certified frontier | add a block, remove one, fire watches | a frontier that retreats | watches follow the chain |
| `lightningd/watchtower_store.c`, `speculad` | durable records for a keyless watcher, its walk of the chain | write, rename, read; scan, replace, settle | record and database out of step; the chain moves under the walk | the watcher can answer whatever the peer may publish |
| `closingd`, `lightningd/closing_control.c` | the two latest fee offers and the range left; the best close so far, the `close` command | offer, counter-offer, save, drop to chain, time out | two loops that must end together; sessions repeated with other fees | one fee for both, and that close is what goes out |
| `sym_factory.c`, `sym_clock.c`, openers, wallet, `hsmd`, gossip, payments, `connectd` | see their directories | | | not part of this model, see "Not modelled" |

How the parts meet: `lightningd` writes commands to `channeld` over a pipe, and
`channeld` reports every commitment and revocation and *waits* for the reply, so
the database is ahead of the wire. It reports the peer's `shutdown` without
waiting. The peer is reached over a connection that is FIFO while it lasts. When
it goes, `channeld` goes with it, and a new one is started from the database.
Credit notes and requests for a swap go from `lightningd` to `lightningd` as
custom messages, beside the channel's own. Plugins are asked through hooks, and
everything else goes on while they think. Blocks come from a plugin (`bcli`);
`speculad` is a process of its own that shares only files with `lightningd`.

## Modules

| Module | Models |
|---|---|
| `HtlcState` | enum and flag table of `htlc_state.{h,c}`: one set of states per flag and side |
| `FeeStates` | `fee_states.c` as functions on the slots |
| `FullChannel` | `full_channel.c` as pure operators on a record: adding, removing, the transitions (`change_htlcs`), affordability, restore |
| `Channeld` | two nodes, each a `channeld` and a `lightningd` database, and the connection between them |
| `CommitDance` | the abstract specification: how the three counters of either node may move |
| `SymChannel` | extends `CommitDance` by what `symmetric.c` saves and by the chain |
| `Closing` | two closingds, what lightningd keeps of their offers, the `close` command, the funding output |
| `SymTower` | the record of a symmetric channel, and `speculad` over a chain that moves |
| `Swap` | extends `HtlcState`: swaps between lanes, from `symswap` to both databases |
| `Credit` | credit notes and the HTLCs they cross |
| `HtlcSet` | the parts of one payment, the invoice and the hooks |
| `Forward` | HTLCs forwarded from one channel to another |
| `Topology` | the view of the chain, watches, the certified frontier |
| `SymTowerProofs`, `ChanneldProofs` | theorems about the module named, see "Theorems" |
| `PaymentProofs` | theorems about `Credit`, then about `HtlcSet` |
| `ChanneldKeepProofs` | extends `ChanneldProofs`: what the database and the channel, and the two nodes, keep of each other |
| `ChanneldFaultProofs` | extends `ChanneldKeepProofs`: which error paths can be taken |
| `SymChannelProofs`, `ClosingProofs` | theorems about the module named, then about `Topology` and `Forward` |
| `SetSums` | what sums of amounts over finite sets satisfy; for `PaymentProofs` and `ChanneldProofs` |
| `MC...` | the values of constants that a `.cfg` cannot write |

### Channeld

`chan[n]` is the `struct channel` of node n's channeld and `peer[n]` the rest of
its `struct peer`: `nextL`, `nextR` (`next_index`), `revs`
(`revocations_received`), `timer`, shutdown flags, and a phase: down, waiting for
`channel_reestablish`, running, or handed over to `closingd`. `db[n]` is what
lightningd has committed, `pipe[n]` what one of the two wrote and the other has
not read, `net[n]` what is on its way to n.

A handler is one action, with the report to lightningd, the save, and the
messages sent. This is the grain at which the code is atomic for the other
node: a crash between the save and the send is the loss of what was sent; a
crash before the save is a crash before the step, since the receiving channeld
forgets uncommitted updates when its connection goes. `send_commit()` is three
actions: it returns early, finds nothing to commit, or commits. `Disconnect`
covers the crash of any daemon of either node as well as the network: all of
them end in both channelds being restarted from the databases. While a node is
down its variables show the state that its next channeld will start from.

The report of a `shutdown` is the one that channeld does not wait for:
`handle_peer_shutdown` leaves it in the pipe, and `LightningdGotShutdown`, or the
next report that is waited for, takes it into the database. A restart in between
loses it. An incoming HTLC may be resolved while the node is down, which stands
for lightningd resolving it before a new channeld is there.

Error paths set `fault` to their message and end the run; `NoFault` says none is
taken. A signature is the transaction it signs, so that "Bad commit_sig
signature" is exactly that the two nodes disagree. The one error path that is a
behaviour rather than an end is the warning on a second empty commitment, which
breaks the connection (`reject_empty_commit_sig`).

### CommitDance and SymChannel

`CommitDance` has no network: a message sent and not received is on its way or
will be sent again. That `Channeld`, with its queue, its restarts and its
retransmission, implements it is the property `ImplementsDance`. `SymChannel`
can therefore do without them.

In `SymChannel` a state is its number, `2i` for the opener's commitment i and
`2i+1` for the accepter's; `SignedOnce` is why that is enough. `symL`, `symR` and
`symP` are `sym_local`, `sym_remote` and `sym_remote_pending`. `tip` is the
output on chain: the funding, the kickoff output or a state output. Anybody may
publish any state it ever had both signatures of (`PublishHeld`), revoked ones
included; this is the behaviour the channel type has to withstand, and it is all
that the scripts leave to a peer. A node in `Watchers` sees the kickoff
(`handle_symmetric_close`), replaces what is older than its best state
(`sym_resolve_state`) and settles what it knows (`sym_settle`). `Block` carries
the one assumption about time: what a watching node has to do is mined within
`React` blocks, and `React < Delay`.

### SymTower

`db` is `sym_local`, `sym_remote` and `sym_remote_pending` as `lightningd` has
committed them and `channeld` goes on with, from `sym_record_opened` on, when the
peer's first state is pending; `record` is the file for the tower. `sym_save` is
the write of the file and the transaction it is in: both happen, or a crash falls
between them, or the write fails, which is only logged (`lost`). The first write
may fail too, and then there is no file for the tower to read. The peer may
publish what `db` has gone on with, its first state included. The tower's round is several
actions, one per RPC call or block, so the chain can move between any two:
`StartRound` (tip, lease, record), `LookAtFunding`, `CheckScanned` (the hash of
the last block scanned), `ScanBlock` for each block, and `Broadcast` or
`NothingToDo`. `k` is `struct sym_cursor`. A block is the spends it holds and an
outpoint is the path of spends that leads to it, so two branches of the chain
have different outpoints exactly when their spends differ.

### Closing

A fee stands for the closing transaction that pays it; `ClosingSplitsFunds` is
why both nodes build the same one. `d[n]` is a closingd: where it is in `main()`,
its and the peer's last offer, its bounds and `struct feerange`. It goes with the
connection, unless it has already written `closingd_complete`. An action is what
closingd does from one message of the peer's to the next, lightningd's
`peer_received_closing_signature()` included, for which it waits. `last_tx` is
what lightningd would drop to chain; `cmd` the `close` command and its answer.
When a connection comes back both nodes start over from
`channel_reestablish`, also the one that is done; the fees a session starts with
are any of `plan.fees`. A node that failed the channel sends its error, which
fails it at the peer. `step` is the user's `fee_negotiation_step`: with the
default both send ranges and agree in two or three messages, otherwise they go
on by rounds.

### Swap

`ch[n]` is the channel of either channeld, with the lanes' balances in both
views (`owed`), HTLCs, the swap in flight and the one asked for; `db[n]` what is
saved. The commitment dance is that of `Channeld` without fees and without
removing HTLCs, and a swap moves through the states of an HTLC that is added.
`handle_peer_commit_sig` ends in the revocation, as the code does.

### Credit, HtlcSet, Forward, Topology

`Credit`: the provider's `lightningd`, its `channeld`, the holder's, and five
queues between them. An HTLC's life (`hout`) says which of them knows of it.

`Credit` and `HtlcSet` share no state and are explored in one run, `payments`:
each moves while the other rests at its start, where none of its fair actions is
enabled.

`HtlcSet`: `hin` and `invoice` are rows of the database, all else is memory and
goes with a restart. A call of the `invoice_payment` hook is an element of
`hooks` and remembers whether its set is still there.

`Forward`: `hin` and `hout` are the two HTLCs, `waiting` those that the
`htlc_accepted` hook has not let through. An outgoing HTLC belongs to the
outgoing channeld (`offered`, `added`) until it is committed, then to the
database. A failure of the peer's is recorded first (`failing`) and final when
both commitments are rid of the HTLC; on chain the peer may still claim it from
its own, and then `onchain_fulfilled_htlc` leaves the incoming HTLC as it is.
`took`, `sends` and `abandoned` are history for the properties.

`Topology`: `chain` is the node's and `view` lightningd's; a block's hash is its
height and its branch. `past` is every chain the node has had: `Reorg` moves it to
any of them, a shorter one or one that it left before. `Poll` is the code's loop of one `getrawblockbyheight`
after another; the chain may move before each.

## Runs

Constants of the `Channeld` runs: capacity 100, the opener starts with 60 (less
where affordability is the question), one HTLC amount of 5, weights of 1, a
reserve of 2. Amounts only matter through the affordability tests; the order of
events does not depend on them, so one amount is enough for the others. What the
environment does is a set of scenarios per run (`Budgets`, `Scenarios`, `Plans`):
TLC explores every order of each.

| Run | Bounds | Shows |
|---|---|---|
| `channeld` | an HTLC each way with a feerate change or with a cut; two HTLCs one way and two cuts; an HTLC with a feerate change and one or two cuts, or two changes and a cut; two feerate changes (up or down) and two cuts; an HTLC, a cut or a feerate change, and either user closing | `FundsConserved`, `CommitmentsAgree`, `SameResolution`, `RestoreAgrees`, `SignedOnce`, `ClosingSplitsFunds`, `NoFault`, `NoFeerateLost`, `ImplementsDance` |
| `channeld_liveness` | an HTLC, a cut, the user of the node that offers it closes | `HtlcsSettle`, `ShutdownCompletes` |
| `sym_channel` | four commitments each way, delay 2, only the opener watches | the safety of symmetric channels, `KickoffSettles` |
| `tower` | four states, two of each node, from the opening on; three blocks, one reorg, one fault (RPC, lease, restart, crash or failed write), delay 2 | `FollowsChain`, `RecordCovers`, `EventuallyAnswered` |
| `closing` | fees up to 10 with two choices per session; ranges that overlap, touch or do not; steps of 30, 50 and 100 % and of 1 and 2 satoshi on either side; two cuts and a restart, or one cut; none, either or both users waiting | `SameFee`, `AgreedIsKept`, `ClosesInTheEnd` |
| `swap` | two lanes; a request with HTLCs on the same or other money, or one request from each node; one or two cuts; expiry after one block, one block of grace | `LanesAgree`, `SwapsEnd` |
| `payments` | three parts in seven mixes of amounts, totals, assets and secrets, an invoice with or without asset, one restart, deletion or an on-chain payment; two credit notes, two HTLCs, balance 8, one cut | `PaidInFull`, `NoPartForgotten`, `PaidOnce`, `PartsSettle`; `NotesBacked`, `HonestHtlcsTaken`, `NoteEnforced` |
| `forward` | two HTLCs a block apart, six blocks, two deaths, either channel on chain, a shutdown | `PaidThrough`, `ForwardedOnce`, `HtlcsResolve` |
| `topology` | five blocks on all branches, two moves between branches, lookback 1, a watch dropped at depth 2 | `DepthsTold`, `FundingDepth`, `EventuallyCaughtUp` |

Why these bounds are enough to be interesting: two HTLCs in one direction with
two cuts reach a commitment and a revocation that are both lost, sent again and
lost again; an HTLC each way with a feerate change lets all four kinds of slot
of the flag table be pending at once; two feerate changes with two cuts reach
the empty commitment of the observations below. Feerates, HTLCs both ways, cuts
and closing are taken two or three at a time, never all at once: the product of
all four is beyond a run of minutes. Both nodes can have at most one commitment
unrevoked, so longer histories repeat these. In `SymChannel` the two first
commitments of each side are special (nothing of the peer's is held whole) and
the two after them are the general case; the theorems remove the bound. The
opener is the watching node since it is the one with exceptions, before the
accepter's first revocation; the properties hold as well with the accepter or
with both watching, and the theorems are for any set of watching nodes. In
`SymTower` three blocks hold a kickoff with a stale state, its replacement and a
reorg of them, or the settlement; the node is the opener, whose peer's first
state stands above its own. In `Closing` nine satoshi let the rounds take four or more offers
before they meet, from either side, at every parity of the range. In `Swap` a
lane's money is just enough for one of the swap and the HTLCs. In `Credit` the
balance pays both notes, or a note and the smaller HTLC, or the larger HTLC
alone. In `Forward` the height passes every deadline and expiry of both HTLCs.
In `Topology` five blocks make a branch of two and one of three beside it, so that
lightningd removes two blocks and sees the second move, to the old branch or a
shorter one, while it does.

`CHECK_DEADLOCK` is off for the runs in which the system stops for good when its
HTLCs are spent, or its channel closed or settled; in `tower` and `topology`,
which poll for ever, it is on.

### Fairness

`Channeld`: the main loop of channeld takes a command, a timer or a message of
the peer each time round, so each of the three is weakly fair; connectd goes on
reconnecting a peer with a channel; lightningd reads what its daemons report and
resolves an incoming HTLC in the end, at the latest when its deadline nears.
Nothing is assumed of users, of the fee market or of the network, whose cuts are
finite in number.

`SymChannel`: blocks come; a watching node sees the kickoff, publishes and
settles. The other node and whoever else publishes owes nothing.

`SymTower`, `Topology`: the process polls for ever (`sleep(poll_interval)`,
`next_topology_timer()`); nothing is assumed of the chain. Both liveness
properties say what holds once the chain has stopped moving.

`Closing`: daemons run, peers that still negotiate reconnect, the user's timeout
fires, a transaction that was broadcast is mined, and blocks are seen. Scenarios
with ranges that never meet have a user who waits, see the observations.

`HtlcSet`: plugins answer their hooks, and a timer that is not freed expires.
`Forward`: hooks are answered, channeld replies to an offer or dies
(`htlc_offer_timeout()` sees to it), onchaind settles what is on chain, blocks
come, and expired HTLCs on chain are taken back. Peers owe nothing.
`Credit`, `Swap`: daemons read what they are sent, hooks answer, nodes reconnect,
and in `Swap` blocks come.

## Findings

Three runs end in a violation of what a comment or the documentation says.

* `afford_assert`: each check of affordability is made when a message arrives,
  and an update_fee that crosses HTLCs of the other side passes both checks. The
  assertion in `handle_peer_commit_sig()` then fails.
* `lost_shutdown`: a node answers a shutdown and dies before its lightningd has
  read of it. It comes back without a shutdown and can add an HTLC, while its peer
  has both shutdowns on record and hands over to closingd after every
  `channel_reestablish`. closingd hangs up on the retransmitted commitment, for
  ever: neither the shutdown nor the HTLC ends before the HTLC's deadline forces
  the channel on chain. Without the restart the shutdown completes, and it does in
  `channeld_liveness`, where the node that closes is the one with HTLCs to offer.
* `sym_restarts`: `symmetric.h:29` and `doc/sequentia-fork.md:645` count one
  restart of the shared delay after a node's best state, and `sym_htlc_margin()`
  pays for one. Before the accepter's first revocation the opener holds none of
  the accepter's states whole, and the accepter can restart the delay with its
  first state and then with its second (`RestartsOnce`). The run needs two
  commitments. That there are never more than these two, and only one outside
  that window, is `RestartsBounded` of the run `sym_channel` and the theorem
  `RestartBound`.

## Observations

Where the code falls short of what a reader might expect, the properties name the
exception. These are the exceptions, and what else modelling brought up.

* Feerate (`channeld.c:1221`, `1663`): `want_fee_update()` caps a feerate at what
  the opener can pay only when it raises it. If HTLCs of the peer have eaten the
  opener's balance up, a lower feerate may be unaffordable too, and
  `send_commit()` ends in "Could not afford feerate".
* Limits on restore (`full_channel.c:902`, `951`): `channel_force_htlcs()` is
  refused on `max_accepted_htlcs` for HTLCs that were accepted when another was on
  its way out, if the rows come in another order.
* Empty commitments (`channeld.c:2390`, `5877`): the opener restates its feerate
  on every retransmission, and the commitments that acknowledge a restated feerate
  are empty to it. Two in a row, after two reconnects, and it hangs up on an
  honest peer. The channel goes on after the next reconnect.
* `inc_fee_state()` says that a feerate never lands on a full slot but the last; a
  restated feerate does, and `NoFeerateLost` says that what it frees is the same
  feerate or the one long in force.
* Symmetric channels: before the accepter's first revocation the opener forgets the
  accepter's first state once it has signed the next: `sym_record_sent()` replaces
  what is pending. The accepter may still publish it, and neither the opener
  (`KnowsSettlement`) nor its tower (`RecordCovers`) can settle or replace it then.
* Watchtower record: `sym_save()` only logs a write that failed
  (`symmetric.c:76`), although "a keyless watcher always holds the best state this
  node holds" (`symmetric.c:69`). Until the next save the tower may leave a newer
  state of the peer's alone; `RecordCovers` and `EventuallyAnswered` except this.
  After a crash between the file and the commit the tower may publish a state that
  lightningd no longer knows.
* Watchtower: when a reorg falls between the hash check of a scan and its blocks,
  or the call for that hash fails (`speculad.c:2011`), the walk of one branch is
  carried on over the blocks of another and is not started over until a later
  reorg, although "the tower always acts on the chain as it now stands"
  (`speculad.c:1660`). `torn` marks it in the model.
* Payment sets: an extra part that comes while the plugins are asked completes
  the set again and frees the timer a second time (`htlc_set.c:271`, `ExtraPart`).
  An invoice deleted while the hook of an on-chain payment is under way has
  `htlc_set_fail()` called with no set (`invoice.c:358`); the scenarios keep the
  two apart.
* Forwarding: a channel that is shutting down is not failed at an HTLC's deadline
  (`peer_htlcs.c:3384`, against "MUST fail the channel" at 3367);
  `HtlcsResolve` excepts it. `consider_failing_incoming()` gives the incoming HTLC
  up although the outgoing one may still be taken, which the code itself reports
  as a loss; `PaidThrough` excepts it. A next node that has failed an HTLC on our
  commitment alone can still claim it on chain from its own;
  `onchain_fulfilled_htlc()` passes over an HTLC with a failure
  (`peer_htlcs.c:1999`), and the incoming HTLC is not fulfilled
  (`ClaimedAfterFailing`, excepted in `PaidThrough` and `HtlcsResolve`).
* Chain: after the frontier retreats lightningd keeps the tail that was cut off
  until a longer chain comes (`bcli.c:463` has CLN's reorg handling absorb it).
  When a poll removes blocks and adds the same ones again, the tip is the one
  `updates_complete()` has announced (`chaintopology.c:974`), and a watch that was
  told 0 stays so until the next block (`undone` in `DepthsTold`). A funding that
  has reached the depth for announcement is not watched any more, and its loss goes
  unnoticed (`FundingDepth`).
* Credit: an HTLC between `send_htlc_out()` and `rcvd_htlc_reply()` is not seen by
  `credit_room()`, so a note that crosses it inside the provider is not covered,
  against "the provider's balance cannot drop below the latest note"
  (`doc/sequentia-fork.md`), and the holder refuses the HTLC on every reconnect.
  A preimage given by a second `issuecredit` is not sent before the next
  reconnect, and only the latest note is sent again.
* Closing: the user's `feerange` may start below `feerate_min`
  (`closing_control.c:484`). closingd then agrees on a fee that
  `closing_fee_is_acceptable()` refuses, so `last_tx` is still the commitment when
  `peer_closing_complete()` drops it to chain, and `close` answers "mutual" with a
  unilateral close, against "Whether we successfully negotiated a mutual close,
  closed without them" (`doc/schemas/close.json:88`).
* Closing without ranges: `adjust_offer()` agrees with an offer within one satoshi
  of the range even if it is below the node's own minimum, and lightningd does not
  keep that close (`AgreedIsKept` excepts it); the opener may agree above its own
  maximum, since `adjust_feerange()` overwrites it. A restart forgets the `close`
  command with its timeout, so that ranges that do not overlap are negotiated for
  ever. When the peer's broadcast of the mutual close is seen on chain first, the
  command answers "unilateral".
* Swaps: if the nodes come back together only after a request and its grace have
  run out, `take_peer_swap()` refuses the peer's retransmitted commitment every
  time and the channel is stuck (`Orphaned`). A requester counts its own request
  against HTLCs of the peer, so an HTLC that crosses the request is warned about
  and sent again until the request ends. `swap_request_reply()` ends whatever
  request stands, whichever it answers.

## Theorems

A run shows a property of one small instance; the theorems are for every value of
the constants. All of them are about a specification without fairness (`Spec`,
`SetSpec`, `ForwardSpec`), which that of the runs implies. Each safety property of
the runs is proved but for one of `Channeld` and one of `Swap`, listed at the end.

| Module | Theorems | For every |
|---|---|---|
| `SymChannelProofs` | `DanceIndicesAgree`, `SymImplementsDance`, `SymIndicesAgree`, `TypeCorrect`, `Countersigned`, `AlwaysHoldsNewer`, `RevokedNeverSettles`, `SettlementKnown`, `RestartBound` | number of commitments, delay, set of watching nodes |
| `ChanneldProofs` | `TypeCorrect`, `LinkHolds`, `DanceImplemented` | balances, HTLCs, feerates, reserves, limits, cuts, restarts |
| `ChanneldKeepProofs` | `KeepHolds`, `FundsAddUp`, `RestartLosesNothing`, `NothingSignedTwice`, `SettledAlike`, `OwesHolds`, `ClosingAgrees`, `FeesHold`, `SameCommitments`, `FeeratesKept` | the same |
| `ChanneldFaultProofs` | `NeverOverdrawn`, `OnlyLimitsFail` | the same |
| `SymTowerProofs` | `TowerFollowsChain`, `TowerCanAnswer` | number of states, blocks, reorgs, crashes, failed writes and calls; either node; delay |
| `ClosingProofs` | `ClosingsAgree`, `AgreedTxKept` | fees, ranges, steps, minima, cuts, restarts |
| `PaymentProofs` (`Credit`) | `NotesAreBacked`, `HolderTakesHtlcs` | payments, HTLCs, amounts, balance, reserve, cuts |
| `PaymentProofs` (`HtlcSet`) | `SetPaidInFull`, `NobodyForgotten`, `InvoicePaidOnce` | parts, onions, amounts, assets, restarts |
| `ClosingProofs` (`Forward`) | `NodeIsPaidThrough`, `HtlcForwardedOnce` | HTLCs, expiries, deadlines, deaths |
| `SymChannelProofs` (`Topology`) | `WatchersToldDepths`, `FundingDepthReal` | blocks, transactions, moves between branches, lookback, depths |

None of the properties is inductive (but `IndicesAgree` with its types). Each
follows from an invariant that is, a conjunction of named parts, which TLC agreed
with on the instances of the runs before it was proved. A lemma per action, or per
group of actions that do the same to it, shows that it is kept.

**The commitment protocol**. A step of `Channeld` is a node acting on its own, a
node hearing a message (`Hears`), a cut or a crash (`Breaks`) or a new connection
(`Reopens`); each of the invariants below is shown to survive these, one lemma per
handler. They are stacked, each with those before it.

* `TypeInv`, `TypeCorrect`.
* `LinkInv`. `Nums`: what the database has counted is what the peer has.
  `LinkNums`: what each side has sent, the other has received or will read, and at
  most one commitment and one revocation each way are under way; a revocation
  carries the number the receiver waits for. `LinkPhase`: which messages a node in
  the handshake may find, and with which counters. So the indices in
  `channel_reestablish` tell exactly what was lost, and `DanceImplemented`: the
  counters of the two channelds move as `CommitDance` allows, whatever is cut.
* `KeepInv`. `Store`: what lightningd has saved of the HTLCs, the feerates and the
  balance is what the channel would be restored from, and the balance differs from
  `db.our` by just the HTLCs that were settled since. `Signed`: the transaction
  last signed for is the one of the number last signed. `Own`: the ids a node gave
  out and `last_sent_commit`. `Fresh`: what the messages still under way can add is
  new to the receiver, so no HTLC is added twice when updates are sent again. From
  it `FundsAddUp`, `RestartLosesNothing`, and `NothingSignedTwice`: a
  retransmitted commitment is the one signed before, with the same transaction.
* `SettleInv`. `SaidSo`, `DoneSo`, `NotYet`: a removal under way says what its
  sender has recorded, and the offerer records nothing until it reads it. From it
  `SettledAlike`: the two never record a preimage on one side and a failure on the
  other.
* `MatchInv`. `Ends` lists the pairs of states that an HTLC may be in at its two
  ends, and for each pair whose commitment or revocation must then be under way
  and in which order the node sent them (`wasRevoke`). `AddGoes` and `RemoveGoes`:
  an update the other end lacks is in its queue, before the commitment that covers
  it, or will be sent again. `InOrder`: the queue has commitment and revocation in
  the order they were first sent. Retransmission in another order breaks it: the
  receiver would revoke a state in which the update is not there yet.
* `OwesInv`. `Owes`: a node's view of its peer's balances is the peer's own, plus
  what the commitment under way to the peer brings (`Carries`). `Closed`: a node
  that has gone to `closingd` has no HTLC. From it `ClosingAgrees`.
* `FeesInv`. The same for feerates, of which one may be in each slot: `Newest` and
  `Older` are what the opener's last signature says and the one before, `Bears` and
  `Signs` what the other node's own commitment says and its last signature;
  `FeesMeet` says which equals which, by what is under way, and `FeeGoes` where a
  feerate is that the other node has not committed to. With `Owes` and `Ends` it
  gives `SameCommitments`: while no commitment is under way to a node, its peer has
  signed just the transaction that the node holds. While one is, the two differ,
  and the invariant says by what.
* `TurnsInv`. Where a feerate may wait (`Turns`): the opener has one on the way to
  its peer's commitment or to its own, never both, and the peer leaves none behind
  when it may sign again. From it `FeeratesKept`: a slot that a feerate moves into is
  free, or holds that feerate as restated by `resend_commitment()`.
* `SolventInv`. `Solvent`: each view can pay for what is under way to it, with the
  updates not sent, sent or acknowledged taken one after the other. `add_htlc()`
  looks at the receiver's view alone and counts every update in it, while a
  commitment takes only those that are committed, so that no balance goes below
  zero on the way does not follow from its check. From it `NeverOverdrawn`: no
  balance of either view is ever negative, in a commitment or in a restore, so the
  error paths of `change_htlcs()` and `adjust_balance()` are not taken for lack of
  funds.
* `FaultInv`, with `FeesInv` and `SolventInv`. `Resends`: while a commitment is not
  revoked, the HTLCs that `last_sent_commit` names are in the states it put them
  in. From it `OnlyLimitsFail`, by a lemma per handler that can fail: a commitment's
  signature is good since the sender signed the transaction it keeps (`Signed`,
  `Fresh`) and, once the receiver has applied the commitment, that is the receiver's
  own (`FeesAgree` after the step); a revocation answers the one commitment under
  way; what lightningd is told of an HTLC follows what it has saved (`Rows`); a
  removal finds its HTLC where `Ends` puts it; and the counters of
  `channel_reestablish` are those of `LinkNums`. What stays possible is what
  depends on the values of the constants: the opener cannot afford a feerate
  (`send_commit()`, `handle_peer_feechange()`, and the assertion in
  `handle_peer_commit_sig()` that the run `afford_assert` violates), the
  receiver has more of its limits used up than the sender saw, or a restore finds
  more HTLCs than `max_accepted_htlcs`.

`SumAmounts` is the code's running sum over the HTLC table; that it does not depend
on the order, and how it changes when one HTLC joins or leaves, is what
`FundsAddUp` rests on, with `SetSums`.

**Symmetric channels**, `IInv`. `SavedStates`: each saved state is a function of
the counters of the dance; this is the heart of it, `symmetric.c` saves in step
with the dance. `TipHeld`: what stands on chain was held by somebody. `Reacted`:
an output older than `React` blocks is one that no watching node can replace, which
with `SettledAged` gives `RevokedNeverSettles`. `Restarts`: what the number of
restarts so far says about what stands. The lemma that does the work is
`HeldBound`: a state above a node's best is the peer's newest, still to be
countersigned, or the peer's first before its first revocation. So there is one
state to restart the delay with, or in that window two. `SymImplementsDance` is
the refinement, step by step.

**The tower**, `TowerInv`. `Walked`: unless torn, the cursor stands where a walk
over the blocks up to `k.hash` ends, and while a scan goes on these are the first
blocks of the chain. `Tidy`: a settlement or a mutual close is alone in its block
and the last spend of all, so a walk that is done has missed nothing. `CleanRound`:
an undisturbed round has the tip of the chain, so when it has scanned up to its tip
the two walks are one. `FollowOK` is the step of `sym_follow()`. That the spends up
to a block are those up to the one before and its own (`SpendsUpto`) is proved from
the definition of `FlattenSeq` by induction. For `RecordCovers`, `InTurn`: what is
pending is the peer's first state or the one after its last whole one, so that a
file written from the three slots covers everything the peer has gone on with but
its forgotten first state (`FileCovers`), and one that a crash has left ahead of
the database covers what is behind it as well (`FileCoversOlder`).

**Closing**, `ClosingInv`. The two closingds pass one offer to and fro: `OneOffer`
(at most one is under way), `InTurn` (the opener begins, nobody is done before both
have spoken), `LastOffer` (what is under way is its sender's last offer, and a
sender that has heard the other holds its last one). `DoneIsAgreed`: who is done
has agreed and has nothing left to read, and so has its peer once the wire is
empty. A closingd that says nothing more has read an offer equal to its own; by
`LastOffer` its peer was waiting with that very fee as the other's, or had ended:
waiting is excluded since who waits has not agreed (`SilentOK`). `InRange` carries
the ranges, `AgreedIsKept` is its own strengthening with the rest.

**Credit notes**, `CreditInv`. `QueuesAgree`: an HTLC under way is in exactly the
queues its state says, once. `NotesBefore`: the provider's channeld has the latest
note before every offer made after it. `HolderKnows`: the holder is told of no more
than was issued. `NotesCovered` and `HtlcsCovered`: the balance with what crossing
HTLCs took from it pays the latest note, the other HTLCs and the reserve.
`DownQuiet`: a cut leaves nothing under way.

**Payment sets**, `SetInv`. `SetCounts`: the set counts each part it holds once,
its parts agree on the total and the asset, and it loses its timer only when
complete. `ReleasedInFull`: what was fulfilled adds up to the total of each of its
parts. `PaidOnce` is an action property, proved from the same invariant.

**Forwarding**, `ForwardInv`. `EndsAgree`: which states the two HTLCs of a forward
may be in together. `SentIsKnown`: whether it was committed to the next node can be
told from the outgoing HTLC alone, which the database keeps; so a replay after a
restart does not send it twice. An HTLC that was taken is fulfilled, or failed
before and on chain, which is the third exception of `PaidThrough`.

**Topology**, `TopologyInv`. `PastSound`: the view is always a chain that the node
has had, and two such chains that have a block in common have all below it in
common (`SameBelow`), so a block hash tells the whole branch below it.
`SinceUpdate`: what was told at the last new tip is the depth under that tip, but
for what was kicked out since, which was told 0; so a view that looks the same as
then is the same, and what it tells is right but for `undone`. `HeightsRight` and
`FundingWatched` tie the table of transactions and the channel's watch to the view.

Assumptions on the constants, all evaluated by TLC in the runs: two nodes
(`NodesAssumption`, `ClosingAssumption`); `React < Delay` (`SymAssumption`);
naturals where the code has amounts, fees and heights (`ChanneldAssumption` among
others); payments, HTLCs and parts
are finite sets (`CreditAssumption`, `HtlcSetAssumption`); scenarios and plans are
records of the right kind (`Scenario`, `PlanRecords`). The theorems about
`Forward` need none.

The provers do not instantiate theorems with an operator parameter, which is how
the library states induction. Where a proof is by induction (sums over a set,
the spends of a chain) it is over the set of subsets or numbers that have the
property, from the well-foundedness of their order (`SubsetInduction`,
`UpwardInduction`).

Only model-checked:

* liveness, which the prover does not do;
* `NoFault`, which does not hold for every value of the constants (the finding of
  `afford_assert`): that on the instances of the run no limit is exceeded either;
  all other error paths are excluded by `OnlyLimitsFail`;
* `LanesAgree` in `Swap`, which needs pairs of states like those of `MatchInv`, of
  swaps.

## Not modelled, and abstractions

* `Channeld`: one asset lane, anchor outputs, every HTLC above the dust limit.
  Trimming, dust exposure, splicing, quiescence and lease blockheights are left
  out. The fee of a commitment is its weight times the feerate;
  `marginal_feerate()` is a percentage. Every feerate within what the opener can
  pay is accepted by the peer. Expiry heights and onions are left out: an HTLC is
  its number and its amount.
* HTLCs that are only waiting to be failed are sent again in the order of their
  ids, where the code takes the order of a hash table. The peer treats them
  independently.
* After a fault nothing happens any more.
* The fees of a symmetric channel's transactions, and the coins that pay them, are
  in the assumption on `React`; in `SymTower` a missing coin is a failed round.
* `SymTower`: one lane, no factory, no settle clock; a state is its number. A node
  whose tower has no record at all has no liveness property. The justice set of ordinary channels is not modelled.
* `Closing`: the balances are above dust, so no output is trimmed and the weight is
  the same for every fee; one lane, no `wrong_funding`, no signing device that
  refuses, no splice. Each user's choices are those of the start. The default step
  stands for anchors too, with which the code always sends ranges; an offer of zero,
  at which `adjust_feerange()` ends closingd, is not made.
* `Swap`: lanes other than the channel's own, so no reserve and no fee; an HTLC is
  added and stays; `swap_request_reply` and `swap_accept_reply` are taken with the
  handler they answer; a node has one request at a time.
* `Credit`: HTLCs of the provider only, no fees, no `addcreditnote`, no claim on
  chain. An HTLC is removed in one step.
* `Forward`: the incoming channel is open or on chain. What onchaind does is its two
  reports.
* `Topology`: transactions are mined once per branch; spends of outputs, fee
  estimates and rebroadcasting are left out.
* Not modelled at all: factory channels and the settle clock (they extend
  `SymChannel`), the opening handshakes, ordinary unilateral closes in `onchaind`, and gossip, routing, payment plugins, wallet, signer and
  `connectd`, which are I/O or do not interact with the state modelled here.

## Plan

1. Done: `HtlcState`, `FeeStates`, `FullChannel`, `Channeld`; `CommitDance`,
   `SymChannel` and their theorems; `HtlcSet`, `Forward`, `SymTower`, `Topology`,
   `Credit`, `Swap`, `Closing`.
2. Done: the theorems above. Next, `LanesAgree`.
3. The settle clock as a variant of `SymChannel`: the delay runs once. Then
   factories.
4. Dust and trimming in `FullChannel`; the opening handshakes.
5. Ordinary unilateral closes in `onchaind`, with the justice set of `speculad`.
