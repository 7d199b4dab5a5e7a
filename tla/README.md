# AfroChain: TLA+ models, model checking and proofs

TLA+ modules, TLC configurations and TLAPS proofs for the AfroChain protocol
package (`packages/protocol`) and for the two wallets (`apps/wallet`,
`apps/mobile-wallet`). Every definition is translated from the source;
`PROJECT.json` maps each one to the lines it stands for.

## 1. Inventory of the system

| Component | State | Operations | Interaction | Modules |
|---|---|---|---|---|
| Staking and rewards (`staking.js`) | `balances`, `delegations`, `validators`, `rewardAccounts`, `pendingWithdrawals` in the ledger state | register_validator, delegate, undelegate, claim_rewards; end of block: withdrawals, rewards; `selectProposer` | called by the node for each transaction and at the end of each block | `Staking` |
| Transactions and mempool (`node.js`) | committed `state`, `mempool`, `mempoolRejections`, faucet request log | submitTransaction, requestFaucet, projection and reconciliation, produceBlock, acceptBlock | HTTP API, gossip, peer sync and a timer call it, concurrently at every `await` | `Mempool` |
| Block commit and persistence (`node.js`, `persistence.js`, `database.js`) | in-memory `chain`/`state`, JSON snapshot file, SQLite rows | saveSnapshot, rollback in acceptBlock, importSnapshot, createFromDisk | every handler awaits it after changing memory | `NodeCommit` |
| Governance and treasury (`governance.js`) | `proposals`, `params`, grants, vesting schedules | createProposal, voteOnProposal, finalizeProposals, processTreasuryGrantVesting | transactions, and the end of each block; votes weigh stake | `Governance` |
| Native contracts (`contracts/templates.js`) | `contracts[..].state`, bond | deploy, method calls | transactions | `Contracts` |
| Peer directory (`node.js`) | score, failure streak, quarantine | addPeer, recordPeerSuccess/Failure, probe, restore | relays, syncs and the socket transport report into it | `PeerHealth` |
| Gossip and peer sync (`node.js`, `peer-sync.js`) | blocks on their way, the sync under way | broadcast with TTL and fan-out, syncNodeWithPeers | HTTP and socket messages between nodes | `Network` |
| Socket transport (`socket-transport.js`) | connections, pending dials, registry by peer URL | dial, handshake, relay, timeout, close, stop | event callbacks | `SocketTransport` |
| Browser wallet (`apps/wallet`, `sdk/src/keystore.js`) | local storage, page, estimates | create, import, unlock, change passphrase, lock, transact, refresh | HTTP API; handlers, effects and timers of one page | `WalletApp` |
| Mobile wallet (`apps/mobile-wallet`) | secure storage, session, preferences | create, import, unlock, quick unlock, forget, background | the device's storage and biometrics; HTTP API | `MobileWallet` |
| HTTP API (`api.js`), node processes (`bin/`) | none | routing; timers | they call the handlers above | entry points and fairness of the above |
| Queries, CLI, explorer, dashboard, scripts, AfroCoin.sol | none that the protocol depends on | read-only views, one request each | clients of the above | not modelled |

What is hard about this code:

- every node replays the same transactions, so an inconsistency between two
  redundant pieces of ledger state (record and book, total and parts) is
  replicated faithfully instead of being detected;
- JavaScript handlers are atomic only up to their next `await`; requestFaucet,
  acceptBlock, probes, syncs and the wallets' handlers go on afterwards with what
  they read before;
- boundaries: unlock heights, full blocks, the faucet's cooldown, an empty
  treasury, rounding remainders;
- failure after the in-memory commit: persistence errors, crashes, stale files,
  and a device that remembers one wallet in three records;
- answers, relays and close events that are late, lost or out of order.

`PROJECT.json` lists these as hazards, each at its line, with the properties
that watch it.

## 2. Modules

| Module | What it is |
|---|---|
| `AmountMath` | sums over records of amounts, `Math.round` of a quotient |
| `Staking` | the ledger part of proof of stake: one action per stake action, payments, and `CloseBlock` for the end of a block |
| `TxLog` | abstract specification: an append-only log of transactions in nonce order, and a pool |
| `Mempool` | the node's mempool, faucet, block production and block acceptance; implements `TxLog` |
| `DurableNode` | abstract specification: a node that never crashes, a chain and a pool |
| `NodeCommit` | how handlers save what they changed in memory, and what a restart finds; with a database only it implements `DurableNode` |
| `Governance` | proposals, votes, finalization, treasury grants and their vesting |
| `Contracts` | AfroCoin allowances, savings circles, merchant escrows, deployment |
| `PeerHealth` | one node's directory of peers under probes, syncs, relays and restores |
| `Network` | several nodes that produce, save, relay and fetch blocks of one chain |
| `SocketTransport` | connections between nodes, from the dial to the close event |
| `WalletApp` | the page of the browser wallet over its storage |
| `MobileWallet` | the mobile wallet over the device's secure storage |
| `MC*` | instances of the module named after the prefix, for TLC |
| `AmountMathProofs` | what the sums and the rounded quotients do, for every length |
| `*Proofs` | theorems about the module named after the prefix: `StakingProofs`, `MempoolProofs`, `NodeCommitProofs`, `GovernanceProofs`, `ContractsProofs`; `PeerProofs` about `Network`, `PeerHealth` and `SocketTransport`, `WalletProofs` about `MobileWallet` and `WalletApp` |

`Staking` and `Governance` share `AmountMath` and meet in three quantities: a
voter's stake and the total active stake, which `Governance` takes as arbitrary,
and the treasury's balance, out of which `Governance` pays the base reward that
`Staking` distributes. `Mempool` treats both as transactions that execute or do
not. `NodeCommit` takes from `Mempool` only that reconciling may drop anything
that is pending. `Network` takes from `NodeCommit` that a block is in memory
before it is saved and relayed after it, from `PeerHealth` that a relay may leave
out any peer, and from `SocketTransport` that an item may get lost.

### Staking

One deterministic ledger stands for all nodes. `executeTransactionOnState` runs
each transaction on a draft that is thrown away when it fails, so an action is a
transaction that succeeds and its guard is the conjunction of the code's checks
(fee, nonce by construction, funds, the stake action's own conditions).
`delegations[v][d]` is 0 where the code has no entry. `validators[v].status` is
the record's existence and its `active` flag. Withdrawals to one account with
one unlock height are added up: the code credits them in the same loop.
`CloseBlock` is `processPendingWithdrawals` followed by `distributeBlockRewards`
for the proposer. The proposer is any active validator with positive weight,
since `selectProposer`'s seed is a hash. Percentages stand for the code's rates
(0.25 is 25); `Math.round(x * rate)` becomes a rounded quotient, exact where
the code's floating-point product is. Governance can change parameters between
blocks in the code; here they are constants.

`payload.amount` is not validated: `Number()` turns what is no number into NaN,
which passes every check of `applyStakeTransaction`, is debited as 0 and spoils
the entry and the record it is added to; a commission rate can be NaN as well.
So amounts, rates, entries, fields of records and reward accounts range over
`Maybe(...)`, and `Plus`, `Minus` and `Number` are JavaScript's `+`, `-` and
`Number(x || 0)` on them. Balances and the queue stay numbers: what reaches them
goes through `Number(x || 0)`, and a withdrawal of NaN is an element that pays
nothing. NaN becomes null on disk and null counts as 0 in arithmetic, so
`CloseBlock(restarted)` may replace one by the other (`KeptRecord`): a node that
restarted goes on with other values than one that did not, and the state here is
that of one node. `spoilt` is a history variable: the validators whose stake took
a NaN since they last registered.

### Mempool

`state.transactions` is a sequence in execution order (the code keys it by id).
`projectPendingTransactions` is `Projection`, which tries one transaction after
another (`Tried`); everything else is built from it, as in the code.
`RequestFaucet` is requestFaucet up to its `await submitTransaction`,
`FinishFaucet` the rest: any handler can run in
between. Governance at the end of a block appears as an arbitrary base fee and
an optional grant out of the faucet's account. Peers' blocks are arbitrary
sequences of transactions that execute, faucet transactions of other nodes with
their own timestamps among them. `recorded` is what the last handler added to
`mempoolRejections` (the cap of 50 entries is left out). A transaction of type
faucet is the system's when it bears the faucet's address and markers
(`BySystem`); only then the cap and the cooldown are checked. One that a wallet
signed executes without them, is paid out of the faucet all the same, and writes
its own date to the request log. Stake, governance and contract transactions are
left out: each is here a nonce, a minimum fee and a debit, like a payment. Amounts
and fees are whole numbers, and dates are after 1970 or not dates (0): an amount
that is not a number passes the comparisons, moves nothing and uses up a nonce.
`isValidator` says whether the node has a validator address; `Roles`
are the cases checked.

### NodeCommit

`memory` is the chain, the mempool and the rejections on record. The code keeps
the last 50 entries (`RejectionsKept`); the model has the set of their names, and
since one refused transaction can be listed again and again, a new entry may push
any older name out. `pushedOut` is history: what was on the list once. A block is the
set of its transactions and its hash is the chain up to it, so that equal chains
have equal states. A handler (`SubmitTransaction`, `RequestFaucet`, `ProduceBlock`,
`AcceptBlock`, `SaveUnchanged` for peers, probes, sync summaries and the
operator's own exports, `ImportSnapshot`) is one step up to its first `await`;
with a database only it is one step to its end, since SQLite calls are
synchronous. `jobs` holds the handlers that wait for their save: `opening`
(mkdir and open, which truncates), `writing`, then `saved` or `failed`; `Settle`
is what the handler does next, for acceptBlock's catch block the rollback to
what it captured at its start. Saves that nobody awaits end the process when
they fail, since nothing handles the rejected promise. Two writes at a time to
one file leave either content or one that does not parse. `Crash` may come at
any time; `Boot` is createFromDisk, which reads both stores and takes the
fresher snapshot, and throws on a file that does not parse. `exportedAt` is a
count. `RequestFaucet` reconciles the mempool and may then throw with nothing
saved: until the next save, a restart brings back what it dropped. The properties
say just that (`Covers`), and `DurableNode` may take back what it dropped since it
was last saved (`TakeBack`). `answered` (submissions answered as accepted) and `disturbed` (the last
saves overlapped or failed) are history variables. Peers, sync summaries and the
signatures of exported snapshots are left out.

### Governance

As in `Staking`, a transaction is an action and its guard the code's checks;
`height` is the block under construction. Proposals form a sequence in the order
of `state.proposals`; an id is proposer, title and height, and `CreateProposal`
replaces a proposal of the same id as the code does. `CloseBlock` works on a
record of the ledger: `Finalized` folds `Decided` over the proposals, so that
each sees what the ones before it did to balances and parameters; `AllGranted`
goes twice over the grants (`GrantedWhere`), first over those paid at once and
then over those that vest, and keeps what was done before an error, because the
code's catch block does not undo it. Then come `Vested`, which folds `Released`
over the schedules, and the base reward. Of the thirteen parameters the
three that governance reads are kept. Stakes move arbitrarily between a
wallet's transactions (`MoveStake`), which covers every order of `Staking`'s.
Categories, labels and treasury events are left out, fees belong to `Staking`.

### Contracts

Again an action is a transaction that succeeds: a method that throws, in the
middle of `transferFrom` for example, is thrown away with its draft. `contracts`
maps an address to the state of the contract there; the one AfroCoin contract of
genesis is `allowances`. A contract's tokens are on an ordinary account, which
anybody may pay into, before its deployment too. Fees and gas are left out; the
bond is a constant. The sender of a deployment chooses the address
(`payload.address`, `node.js:1523`): `Deploy` takes any address without a
contract, a wallet's own, a stranger's or the treasury's among them. Such a
contract shares its account with the wallet, so `BalanceIsOwed` is about
`OwnAddresses`, which nobody signs for; a payout of it is a decrease of the
wallet's balance that the wallet did not ask for, which `SpendingIsAllowed` allows
only as far as the contract there owes less. Members and parties are any accounts,
contracts included. What `ContractsAssumption` demands and the code does not
check is that the first members of a circle are distinct: one who is named twice
is paid twice a round. Amounts are natural: `call` makes a number of them and
`transferInState` makes 0 of what is none, which it refuses like 0 (an allowance
of NaN counts as 0, one of Infinity never shrinks and is left out). There is one
AfroCoin contract: a second one would have a book of its own. Members that are no
valid address stop a circle for good when their turn comes, and are left out.
`donated`, `joined` and `caller` are history variables.

### PeerHealth

`peerDirectory` has one record per entry: an HTTP peer, a socket peer, or
`socket:<id>` for a socket that failed before it named its peer. `calls` are the
requests under way: a probe round and a sync take one peer after the other
(`ProbePeer`; `PeerSyncHealth`, `SyncDiscovers`, then `SyncSucceeds` or
`PeerSyncFails`), a relay awaits all of its peers at once (`RelayAnswered`).
Each answer goes through `recordPeerSuccess`, `recordPeerFailure` or the probe's
own verdict on the directory as it is by then; announcements, socket reports,
the operator's restore, `importSnapshot` and restarts come in between. `strikes`
is history: the failures still held against a peer, which are those since its last
good answer, or since a restore, an import or a restart. The last two fill the
directory afresh from the bare URLs a snapshot keeps, so a node that restarts
relays to peers it had quarantined, with no good answer of theirs; the property
names this. Latencies and error texts are
left out, but for whether an error marks a peer of another chain.

### Network

A block is its height, parent, maker and the node that runs the validator
selected on it (a function of the state, here a field). `saves` are the saves
under way at each node. They end in any order (`SaveEnds`), so an older snapshot
may be what a restart finds; what was saved is relayed then, as `acceptBlock` and
`produceBlock` do. `relays` are blocks on their way, each with
its remaining hops, delivered in any order or lost. A sync goes through
`SyncHealth`, `SyncCompares` and one `SyncFetch` per block, and stops a peer at
the first block that does not fit. `Crash` returns to the disk, or, when the file
was being rewritten or may be torn after overlapping or failed saves, leaves the
node down; an operator who repairs the file is not modelled. `Forced` nodes
produce in another validator's name (`start-node.js`); see section 4. Blocks
carry no transactions: what these do is `Mempool`.

### SocketTransport

A connection has two ends with a socket, what `attachSocket` keeps in its
closure, and lines on their way to each side. `Connect`, `Receive`,
`HandshakeTimeout`, `Hangup` and `Close` are events; a data handler that awaits
the node (`ReceiveItem`, then `Accepted` or `Refused`) keeps the rest of its
chunk. `SocketBroadcast` and connectToPeers wait for their dials in `tasks`
(`DialSettled`). `registry` is `connectionByPeerUrl`. Stops end sockets and
keep handlers, restarts drop both. Pings change nothing here (`PeerHealth` has
their reports), and frame limits and contents are left out.

### WalletApp

A handler of the page reads the state of the render it was clicked in, awaits
the browser's cryptography or the node, and writes the state of whatever render
is current then: `working` holds what it captured, `Finish` is its end. `asked`
holds the estimate requests whose effect was not cleaned up. A refresh captures
the wallet it is for and writes the account when its answers arrive. `AutoLock`
may come at any time (the idle timer is not modelled), `Reload` starts the page
again from `stored`. Where `MobileWallet` uses a word too, the name here differs
or has the prefix `Page` (`Peer` in `PeerHealth` and `Socket` in
`SocketTransport`, next to `Network`), so that one module can state theorems
about both. `isWalletKeystore` accepts a file without an address
(`keystore.js:48`): while such a keystore is locked no refresh is for it, and the
account of the wallet before stays shown (the exception in `AccountCatchesUp`).
Quota errors, other tabs and React's strict mode are left out.

### MobileWallet

A tap decides, from the state of its render, on all the steps its handler will
take (`applyDeviceSecurity` is a sequence of awaits), and they happen one by
one: writes of single records (`Write`, in any order where the code has
`Promise.all`), a snapshot (`Read`) and its display (`Show`, `Restore`), the
decryption, the biometric secret, and the setters at the end. Every await may
fail, and what was issued with it may arrive later. The app goes to the
background and comes back, and the system may end it between any two steps.
`settled` is what the last handler that wrote should leave behind, its keystore,
its passphrase and its flag, if it knew the device's state and ran to its end
without a failure or another writer. It need not have taken away a passphrase
that a write cut off earlier (`torn`: a prompt refused, the app ended, two
writers) left without its flag: `applyDeviceSecurity` looks for one only where
quick unlock is configured, or clears everything (`LeftSecret`, the exception in
`VaultSettles`). `overtaken` and `late` name handlers that end after another one replaced the
keystore, or in the background.

## 3. Runs

| Run | States | Question |
|---|---|---|
| `staking` | 433,087 | Do records, books, withdrawals and totals stay consistent in every order of staking operations, and what do amounts that are no numbers spoil? |
| `mempool` | 58,497 | Does the queue stay executable, is nothing lost, does the node implement `TxLog`, and is every pending payment settled? |
| `commit_database` | 496,293 | With SQLite only: is a node that crashes and restarts indistinguishable from one that never does? |
| `commit_hybrid` | 367,803 | With file and database, failing writes, rollbacks and imports: is what a restart finds one moment, and the present one after a save that ran alone? |
| `commit_finality` | 1,001 (until the violation) | Do final blocks stay? |
| `governance` | 403,478 | Is supply kept, does only what was approved take effect, are ballots counted once, do grants vest on schedule? |
| `contracts` | 3,274,070 | Does a contract hold what it owes, do circles rotate, are tokens spent only with consent? |
| `peer_health` | 229,078 | Are relays sent just to the peers whose answers earned it, and do the others come back? |
| `network` | 263,805 | Do the chains of nodes agree, whatever order their saves end in, and does a syncing node catch up? |
| `socket` | 268,286 | Is what is registered alive, is an answered dial authenticated on both sides, and is every dial answered? |
| `wallet` | 199,096 | Do storage and session agree, are estimates current, and does the account shown catch up? |
| `mobile` | 2,972,160 | Is the session that of the keystore shown, and does the device come to hold what was asked for? |

All but `commit_finality` pass; that one is expected to be violated. A module's
type invariant is checked by its run, except in `commit_*`, `contracts`,
`peer_health` and `wallet`, where it is proved (section 5).

Bounds. `MCStaking` has a treasury, a relayer pool, one bootstrap validator
without a key (as in genesis: these addresses derive from no key) and two
wallets. Four transactions over two blocks and two blocks more are enough for
register, delegate by the other wallet, undelegate below the minimum, register
again, and the payout of what unbonds (period 2). The treasury holds less than
two base rewards, so it runs dry. Amounts 2 and 3 lie on both sides of the
minimum stake of 3, and one amount and one commission rate are NaN; the node may
restart after any block. `MCMempool` has a wallet with funds and two payments of it, one
after the other, a wallet whose payment spends what it has yet to receive and whose
own disbursement above the cap competes with it for one nonce, two base fees on
both sides of the offered fees, a faucet
with funds for two requests unless a grant takes them, a clock of two ticks
around a cooldown of one, and a block capacity of one so that overflow is the
rule. Peers' blocks carry up to two transactions. The node is a validator or not.

`MCNodeCommit` has two handlers whose saves overlap (a third would meet no other
stage than these two can), two transactions (one in the runs where every write
has four outcomes), three or four saves, enough for a write, a rollback and a
restart in between, and two rows kept instead of ten, so that rows are deleted;
one entry of the list of rejections instead of 50, so that each pushes one out.
An operator may import a snapshot of another node. Handlers are symmetric: no
property names one. `MCGovernance` has four transactions, which suffice to create
two proposals and pass both, or to vote twice, or to vote and replace; payloads
with an immediate and a vesting grant that the fund of 6 covers once, a vesting
grant of 3 tokens over 2 blocks behind a cliff (the floor matters), a change of
the deposit and the quorum, and two that must be refused; a voting window of two
blocks, transactions in three blocks, and blocks until everything has vested.
`MCContracts` has an address of its own and that of a wallet, a circle of two
founders that the third wallet may join and an escrow between two of them. Seven
calls suffice for deploying and paying out three turns, for joining in the middle
and paying out twice, or for funding, refunding, funding again and releasing; two payments or AfroCoin calls come in between, an approval
and a spending of it among them.

`MCPeerHealth` has an HTTP peer, a socket peer and a stranger, the sync timer's
call and one other, scores between -20 and 0 (the quarantine threshold is -20:
scores above 0 only delay it) and four failures, one more than a streak.
`MCNetwork` has three nodes, of which each relays to the next one and the last
syncs from the second, two blocks, two hops and one crash or failed save: a block
is lost, late, fetched before its relay, or taken back by a crash, saves end in
the other order and a node stays down. `MCSocketTransport` has two nodes that dial each
other, two connections, two relays or connectToPeers calls and one stop, once
with nodes of one network and once of two. `MCWalletApp` has two files of which
one names another wallet than it holds and a third that names none, two handlers at once and three clicks.
`MCMobileWallet` has two keystores that may be on the device or imported, one
wallet to be created, devices with and without storage and biometrics, two
handlers at once, three taps and one end of the app: enough for a preference, a
handler and another one that overtakes it.

Larger instances were run to their end without an error where not said otherwise,
and are not part of the list for their duration: `SocketTransport` without its
liveness property on three nodes (2.3 million states) and with two URLs of one
node (1.3 million); `WalletApp` with four clicks (1.03 million);
`Network` with relays in both directions along the line, without its liveness
property (1.66 million), and with two nodes and two crashes or failed saves, with
it (590 thousand); `Contracts` with one address of its own and nine calls (517
thousand).

Deadlock is not checked in any run: the bounded models end, and a node that fails
to start stays down.

Fairness. `start-node.js` and `start-validator.js` produce blocks on a timer,
hence WF of `ProduceBlock` in `Mempool`. It concerns this node only, so
`PendingIsSettled` is about a node without a validator address, where the timer
forces production whoever is selected. In `PeerHealth` and `Network` the sync
timer fires for ever, a request is answered or times out, and saves end; in
`Network` requests of a sync may fail again and again but not for ever (SF),
unless the peer is down, and then they time out (`Unanswered`).
`SocketTransport` relies on the dialer's own handshake timer, on close events of
destroyed sockets and on settled promises going on, and on nothing of the other
node. In `WalletApp` awaits end, the interval fires and a node that is asked
again and again answers some time. Liveness of withdrawals needs no fairness of
its own: by `WithdrawalsAreDue` and `WithdrawalsPaidInFull` each is paid at the
end of the block it unlocks at.

## 4. Findings

`commit_finality`: when the save of an accepted block fails, its handler restores
the chain it captured before waiting, and takes the blocks that others appended
since with it, final ones included.

Seen while modelling, each admitted in the model and named in the property it
would break, or behind a bound that is named in the module:

- A validator that went inactive, kept part of its stake and registers again
  loses that stake: register_validator overwrites its own book entry
  (`staking.js:48`; the exception in `SupplyAccounted`, against the fixed supply of
  `docs/architecture.md`). Its record starts with `delegatedStake` 0 next to a
  book that still holds the old delegators, so shares of a reward exceed the pool
  and the proposer's reward account goes negative.
- A stake transaction whose amount is no number is executed (`staking.js:34`, 42,
  81, 113): anybody can register or delegate for nothing, or "undelegate" from any
  validator. The entry it touches and the stake of the record become NaN, the
  validator loses its weight or its active flag, the proposer's rewards become
  NaN, and a node that restarts reads null instead and goes on with another state
  (`spoilt`, `EntryLost` and `RewardsLost` in the properties of `Staking`).
- A ballot keeps the weight its voter had, though stake moves on to another voter
  afterwards (`governance.js:503`); this looks intended.
- A sender's second proposal with the same title in the same block replaces the
  first, whose deposit is neither returned nor forfeited (`overwritten` in
  `SupplyAccounted`).
- A transaction of type faucet that its recipient signs is paid without cooldown or
  cap (`node.js:1576` checks only the system's), and its date, which may lie in the
  past, becomes the recipient's last request. `docs/operator-runbook.md:353-354` has
  the faucet "capped by `maxAmount`" and "protected by per-address cooldown";
  `CooldownKept` holds from one such disbursement to the next.
- requestFaucet answers "confirmed" when a block was produced, whether or not its
  transaction is in it (`node.js:1814`).
- The snapshot file is rewritten in place. A crash in the middle leaves a file
  that does not parse, and createFromDisk throws before it looks at the database
  (`persistence.js:140`). `LoneSavesSuffice` shows the other side: after one save
  that ran alone everything is in place again. Its condition is needed, as saves
  that overlap may end in the other order and leave the older snapshot.
- A probe round rejects as a whole when the directory has a socket peer; a JSON
  error in an answer ("Unexpected token") marks a peer as incompatible; a peer
  that already has a relayed block answers 400, which counts as a failure; a late
  success of a relay clears "incompatible" (`node.js`, in `PeerHealth`).
- An observer that `start-node.js` starts without a validator address produces
  blocks of its own (`force`), and its chain forks from the validators': no sync
  brings the two together, as heights are compared and not blocks. The two-node
  flow of `docs/operator-runbook.md` is of this kind. `ChainsAgree` is checked
  without forced nodes for this reason (`Forced = {}`).
- A maker whose memory loses a block of its own that others have makes another of
  that height, and the chains part as above (`forgotten`, the exception in
  `ChainsAgree`). It takes a crash after a sync fetched the block before its save,
  or after a save that began before the block's and ended later (`node.js:470`
  takes the snapshot, `persistence.js:146` and `database.js:50` write it whenever
  the file is done), or the rollback of `commit_finality`.
- A hello_ack that waits behind an item until after the close registers a dead
  connection, which no event removes (`late` in `RegisteredIsAlive`). Refused and
  duplicate items tear their connection down; an authenticated connection stays
  unregistered when another one of its URL closes.
- Both Lock buttons of the browser wallet pass the click event on as the status
  text, and the page goes blank (`App.jsx:953` and `1099`; `LockButton`). A
  transaction whose fee estimate is under way is signed although the session is
  locked meanwhile. Two wallets created at once, or one created while a file is
  imported, leave the later one stored and the earlier one lost.
- A keystore file without an address passes `isWalletKeystore` (`keystore.js:48`).
  The browser wallet then shows the account of the wallet before until the new one
  is unlocked (`App.jsx:195`; the exception in `AccountCatchesUp`).
- A quick unlock that is refused half-way, or cut off by the end of the mobile
  app, may leave the passphrase in secure storage without its flag, and an unlock
  without quick unlock does not remove it (`App.js:286`; the exception in
  `VaultSettles`).
- An unlock of the mobile wallet that ends in the background leaves it unlocked
  (`late` in `SessionIsCurrent`), while its README has a session wallet "used only
  while the app stays active". A keystore imported while quick unlock is
  configured keeps the old passphrase next to it, and quick unlock fails until
  the next unlock by passphrase. When the node does not answer at the start, the
  app does not look at the device's storage either (`App.js:512`): the stored
  keystore is not shown, a new wallet is not remembered, and a later unlock may
  overwrite the stored one.

## 5. Proofs

`AmountMathProofs` says what sums and rounded quotients do, for every length: a
sum is unfolded at its last entry (`SumUnfold`), from which follow what adding,
changing an entry, appending one and adding up rows do to it. The induction is
first-order: the set of lengths for which a fact holds contains 0 and is closed
under successor; a least length outside it cannot exist because finite intervals
are well-founded under strict inclusion (`LeastNatural`, `IntervalInduction`).

`StakingProofs` proves `TypeOK` and `RecordsAgreeWithBooks` for all accounts,
amounts (any integers, and NaN) and parameters that satisfy `AccountsAssumption`,
`NaNAssumption` and `ParamsAssumption`. The two are inductive together: that a
book entry covers an undelegation is in the guard, that balances stay natural is
in `CanSpend`, and that the treasury can pay is the cap in `BaseReward`. What
becomes NaN stays confined to stakes, commissions and rewards because everything
else takes `Number()` of it (`NumberTypes`, `PlusTypes`, `KeptTypes`); the records
that agree are those outside `spoilt`.

Its last part proves the rest of the safety properties of the `staking` run.
`SupplyAccounted` moves each action's changes through the sums (`SumEntry`,
`EntryShifted`, `SumRows`, `GrandTotal`), and for `CloseBlock` uses that the
proposer's remainder makes what is earned add up to the pool. An amount that is
no number costs nothing and loses just the entry it touches (`EntryMoves`), and
shares that are none make the proposer's account NaN (`CloseBlockRewardsLost`).
`OnlyOwnTransactionsSpend` and `WithdrawalsPaidInFull` follow from the same
accounting per account. `WeightIsBacked` and `WithdrawalsAreDue` are inductive
next to the type invariant and the records' agreement.

`MempoolProofs` proves `TypeOK`, `PendingWillExecute`, `CooldownKept`,
`LeavesAccounted` and `ImplementsTxLog` for any accounts, payments, fees, grants,
clocks and block sizes that satisfy `MempoolAssumption`. What trying a queue does
(`Projection`) is an induction along the queue (`ProjectionInduction`) with
`Progress` as its invariant: the kept transactions run, in order, from the
committed state, and every other one is among the rejections. The invariant of
the node, `Inv`, has these parts:

- the nonces of pending transactions rise above the committed ones, so nothing
  is pending twice or already in the log;
- the log's nonces count it (`NoncesCount`), and the request log is not behind the
  date of any disbursement since, and including, the last one to its recipient that
  a wallet signed (`RequestsLogged`), which makes a check against the request log
  one against all of these;
- the queue runs `RunsLoosely`: it executes in order, but for the base fee and the
  faucet's funds, which the end of a block may change after the queue was
  reconciled or cut. This is what `PendingWillExecute` needs for the overflow of a
  block, which goes back into the mempool untried: the grants and fees of the
  block's end commute with every transaction (`ShiftedExecutes`).

`NodeCommitProofs` proves `TypeOK` and `MomentsNotMixed` for every set of
transactions, number of handlers, configuration and bound. The invariant,
`MomentsInv`, adds to memory and disk whatever is on its way to either: the
snapshots that jobs hold, the memory they would restore, and all rows, not only
the newest. It needs `CommitAssumption`, in particular that imported snapshots
were exported by a node. `LoneSavesSuffice` is proved for every configuration
too. Its invariant, `LoneInv`, says that nothing is stored where a configuration
stores nothing (`Places`), and what holds until saves overlap or one fails
(`Undisturbed`): either no handler is under way and a restart finds a snapshot that
covers memory (`OnDisk`), or the only one under way holds such a snapshot
(`SavesAlone`) and is still writing it, or has it in every store the node has
(`Committed`), whatever was there before.

Its second part assumes a database, no file, no failing writes and no
exports to other files (`DatabaseOnly`, a hypothesis of its theorems). Its
invariant, `DatabaseInv`, says that no save is under way at an `await`, that
there is no file, and that the newest row covers a running node's memory: its
chain, and its mempool but for what was dropped and recorded since (`Drops`, which
is all that a step without a save does, `Unsaved`); from it follow `SavedIsMemory`, `AnsweredAccounted` (no handler
forgets a transaction, `Remembers`, and what was answered is known in the newest
row as in memory) and, step by step, that each action of `NodeCommit` is one of
`DurableNode` or a stutter.

`GovernanceProofs` proves `TypeOK`, `SupplyAccounted`, `OnlyApprovedTakesEffect`
and `VestsOnSchedule` for any accounts, payloads, parameters and bounds that
satisfy `GovernanceAssumption`. The invariant `IndInv` says that the ledger
between two blocks is `Sound`: every proposal is within the schema, and decided
only after its end (`Proper`); what was paid or is scheduled is what passed
proposals grant, and parameters are theirs; the escrow holds what the schedules
have left; each schedule is on its line, its released part exactly the floor of
its share (`OnLine`). `VestsOnSchedule` alone would not be inductive: it bounds
the released part by inequalities and does not say that start and end height are
`vestingBlocks` apart. Within the end of a block the same `Sound` holds of the
ledger between any two proposals, grants and schedules, with `Total` (balances
and held deposits) unchanged. A fold of the model is turned into a table of its
intermediate ledgers, and the induction goes along the table (`GrantTable`,
`DecidedTable`, `ReleasedTable`). The step that says most is `CoveredPays`: a
plan whose sources cover it is executed to its end, although one source may pay
several grants, grants may pay into another grant's source, and those that vest
come in a second pass; so an execution fails before it has done anything or not
at all, which `OnlyApprovedTakesEffect` needs, as the code's catch block undoes
nothing. That a schedule's payment never overdraws the escrow, which would end
the production of blocks, is `Sound`'s part about the escrow.

`ContractsProofs` proves `TypeOK`, `BalanceIsOwed`, `SpendingIsAllowed` and
`TurnsRotate` under `ContractsAssumption`, wherever contracts are deployed. `BalanceIsOwed` is inductive only
with `AllCoherent`: the turn of a circle points at a member, or `payoutNext`
would pay nobody, and a released escrow stays funded, or its buyer could fund it
in vain. `TurnsRotate` follows from `AllTurns`: members are distinct, only
members were paid, and whoever was a member at a payout has been paid since or
still comes before the one paid then (`Awaiting`).

`PeerProofs` proves `PeerTypeOK` and `EligibleWhenEarned` of `PeerHealth` for any
peers, score bounds and number of calls. The equivalence is not inductive by itself; the
invariant `Earned`, for each record, ties streak, quarantine flag, status and
score to the strikes held against the peer, and every way of writing a
record (`recordPeerSuccess`, `recordPeerFailure`, a probe's verdict, a refill
after an import) is a lemma about it.

It also proves `TypeOK` and `ChainsAgree` of `Network` for any nodes, links and
bounds, under `NetworkAssumption` and, for `ChainsAgree`, without forced blocks
(`Forced = {}`, a hypothesis of the theorem). Since a block selects the maker of
the next one, two blocks of one height can only come from one maker, or from two
parents, and so on down to the lowest height. The invariant excludes both, unless
a maker forgot a block (`forgotten`): every block that exists, in a memory, a
snapshot or a save or on its way, is still in its maker's memory (`Remembered`),
and all blocks of one height are the same (`OnePerHeight`); so whoever may produce at some height has no block of that
height, and then none exists.

Its last part proves `SocketTypeOK`, `RegisteredIsAlive` and `ReadyIsMutual` of
`SocketTransport` for any nodes, URLs, networks and number of connections, tasks
and stops, under `SocketAssumption`, in particular that each node advertises a
URL of its own. The invariant `SocketInv` adds to what is registered what is
still on its way. A `hello` or `hello_ack` reaches a dialer only after the
listener authenticated the connection, be it on the wire or in the rest of a
chunk that a handler kept while it awaited the node (`Fits`, `Proper`); with it
the dial's promise is resolved only after the other end (`Sane`). An end that is
authenticated names the node at the other end, so the close event that finds a
registration of its own connection is the one that drops it (`CloseSound`); that
it may drop one of another connection costs only a registration. Handlers never
take an authentication back (`Continues`), so what waits still fits when it goes
on. The lines of a chunk are handled one after the other, which is an induction
along the chunk (`HandledGood`).

`WalletProofs` proves `PageTypeOK`, `SessionMatchesStorage` and
`EstimateIsCurrent` of `WalletApp` for any wallets, files, forms and number of
handlers under way. `SessionInv` adds that a handler which awaits a decryption holds the
keystore it began with, and that a keystore once shown stays the stored one
(`KeystoreStays`); `EstimateInv` adds that what is asked is asked for the session
and the form as they are (`AskedIsCurrent`).

It also proves `TypeOK`, `SessionIsCurrent` and `VaultSettles` of `MobileWallet`
for any devices, files, wallets and number of handlers under way, as parts of one
invariant `Inv`. The type invariant needs that a handler which shows a snapshot
has read it just before, and that one which opens the wallet has a keystore
(`Ready`). For `VaultSettles` a promise is kept (`PromisesHold`) while nobody else
writes and, for each item of the vault, the last write that its handler has left
writes the promised value, or none is left and the item has it already
(`Fulfils`); a second part (`Whole`) has that no passphrase is stored without its
flag unless a write was cut off (`torn`). What a handler leaves is computed from the parts its steps are
joined of (`JoinedLeave`), so no sequence of writes is enumerated.

Only model-checked: liveness (`PendingIsSettled`, `PeersRecover`, `CatchUp`,
`DialsAreAnswered`, `AccountCatchesUp`), since ENABLED is out of the prover's
reach. Every type invariant and every safety property that a run checks is also
the property of a theorem; where a hypothesis restricts the configurations
(`DatabaseOnly`, `Forced = {}`), it is named above.

## 6. Not modelled

- Signatures, hashes and encryption are ideal: a transaction or block is its
  contents, a keystore opens with its passphrase.
- Read-only projections of the node, explorer and dashboard change no state.
- HTTP routing and headers, the CLI and the SDK's client: one request each; the
  handlers they reach are modelled.
- `MobileWallet`'s keystore files have an address. One without is accepted too, and
  the app fails at its next render (`watchAddress.trim()`, `App.js:149`).
- The processes in `bin/` wire options and timers; the timers are fairness.
- Transactions in `Network`'s blocks, fees in `Governance` and `Contracts`, and
  parameters that governance changes under `Staking`: the modules meet in the
  quantities of section 2, and no module composes them.
- Fractions of a token: amounts, fees and rewards are whole numbers in `Staking`,
  where the code accepts fractions and adds them up to floating-point rounding.
  Amounts of Infinity, which nobody can pay, are left out, and so is a fee that is
  no number: one that is submitted is normalised twice and then counts as 0
  (`node.js:1216`), below the minimum; one in a peer's block would pass as NaN.
- `AfroCoin.sol` is a separate token that the node does not use; `scripts/` work
  on the source tree.
