# A verification project for distributed-notary

distributed-notary runs a federation of notaries that moves value between a
main chain (Ethereum or Bitcoin) and a side chain (Spectrum). To bring ether
over (**lockin**) a user locks it on the main chain under the hash of a secret,
the notaries lock the same amount of a token on the side chain under the same
hash, the user mints the token by publishing the secret, and a notary claims
the ether with it. Going back (**lockout**) is the mirror image. The notaries
share the key that owns both contracts: a transaction that needs it is signed
by a session of several of them, and its nonce is agreed upon with PBFT.

The modules here model that system from its source, TLC checks them on small
instances and TLAPS proves theorems about them for every instance. Paths below
are relative to the repository.

## 1. The system

| Part | Source | State it keeps | Operations |
|---|---|---|---|
| Main-chain contract | `contracts/mainchain_erc20.sol` | `lockin_htlc`, `lockout_htlc`, its ether, its owner | prepare, open with the secret, cancel after expiry, for both directions; two-step change of owner |
| Side-chain contract | `contracts/sidechain_erc20.sol` | the same two maps, balances, allowances, supply | the same, and the ERC-20 transfers |
| Chain event listeners | `chain/spectrum/smcservice.go`, `chain/ethereum/ethservice.go`, `chain/bitcoin/btcservice.go` | last block, table of transactions already handled, connection status | poll, query logs, reconnect |
| Dispatcher, block numbers | `service/dispatchservice.go`, `service/blocknumberservice.go` | last block number per chain (durable) | save the number of a new block, start a goroutine per event and service |
| Cross-chain service | `service/crosschainservice*.go` | `mcLastedBlockNumber`, `scLastedBlockNumber` | one handler per chain event, one per user request, the contract calls |
| Lockin / lockout records | `service/lockin_handler.go`, `lockout_handler.go`, `models/LockinInfo.go`, `LockoutInfo.go` | a record per secret hash, in the database and, while it is being dealt with, in `dealingMap` | register, get, update, expire |
| Notary service, signing (DSM) | `service/notaryservice.go`, `service/mecdsa/dsm_handler.go`, `service/messagetosign/` | a handler per session | ask, select, six phases; check the message against the local record |
| Key generation (PKN) | `service/mecdsa/pkn_handler.go` | a handler per session, the key share | four phases |
| PBFT | `pbft/pbft/` | view, log of pre-prepare / prepare / commit, checkpoints, apply queue | request, three phases, checkpoint, view change |
| PBFT service, UTXOs | `service/pbftservice.go`, `btcPBFTService.go`, `models/nonce.go`, `BTCOutpoint.go` | operations asked for, nonces, UTXO status | new nonce, select and commit UTXOs |
| Nonce server | `cmd/nonce_server/` | next nonce, nonces in use | apply, confirm, reuse, cancel |
| Administration | `service/adminservice.go` | token meta data | create a key, deploy and register contracts |
| Web demo | `cmd/webdemo/dnotary-webdemo/app/test.js`, `cmd/webdemo/rest/` | the current secrets, which buttons are enabled, the mask layer, `localStorage` | create a key, get ether, lockin, lockout, cancel, each a chain of callbacks |
| APIs, storage, cryptography, tools | `api/`, `models/db.go`, `curv/`, `mecdsa/`, `cmd/` | none of their own | plumbing |

How they interact:

- The contracts emit a log entry per transaction. A listener polls its chain,
  queries the logs since its last block and puts a new-block event and then the
  other events into a channel. The dispatcher saves the block number *when it
  takes the new-block event out*, and starts `go service.OnEvent(e)` for each
  event: the handlers of one batch run concurrently and in any order.
- Handlers read contracts (`QueryLockin`) and send transactions, both calls
  that take time and may fail. They share the records by pointer: `getLockin`
  hands out the object in `dealingMap`.
- A user request (`onSCPrepareLockinRequest`) gets a nonce from PBFT, opens a
  signing session with all other notaries, sends the transaction and waits
  until it is mined. Each notary that is asked checks its own record and writes
  the asker into it as the notary in charge.
- The notary in charge, by its own record, makes the calls that finish or undo
  a lock (`callMCLockin`, `callSCCancelLockin`, ...).
- A user's page makes the secret, has the helper service build each transaction,
  signs it, has it sent, asks a notary for the other chain's lock, and claims
  that lock 15 seconds later.
- The nonce server hands out an account's nonces and asks the notary that got
  one to use it up when it blocks later ones.

What is hard: two chains whose heights are only known after polling; goroutines
per event; a process that may stop between saving a record and making the call
that goes with it; calls made once and never repeated; records that leave
`dealingMap` when they end but are still found; several notaries acting on one
lock. `PROJECT.json` lists these hazards with their lines.

What makes each part correct:

- *Contracts*: a lock is opened by its secret before the expiration or without
  it after, never both, and never by an older lock's terms; value is conserved.
- *Lockin, lockout*: tokens are only minted against ether the notaries can still
  claim, ether is only released for tokens they can still destroy; minted leads
  to claimed, released to destroyed; what the notaries lock is never locked for
  good; records tell the truth and outcomes stay.
- *Listeners*: every event reaches a handler, whatever fails in between.
- *PBFT*: no two operations get one number, every correct request is answered.
- *DSM, PKN*: a session ends, with the same signature or key for all.
- *Nonce server*: nonces in use are different, and none blocks the others for ever.
- *Page*: it does one thing at a time, and a user who waits for its status never
  loses the secret of a lock.

## 2. The modules

| Module | Models | Built from |
|---|---|---|
| `HashLock` | digests and the lock struct of both contracts | |
| `HTLC` | abstract: what one hash time lock promises | `HashLock` |
| `Owned` | the base contract `Owned` | |
| `LockedEthereum` | the main-chain contract | `HashLock`, `Owned`; refines `HTLC` |
| `AtmosphereToken` | the side-chain contract | `HashLock`, `Owned`; refines `HTLC` |
| `CrossChain` | what both directions share: chains and logs, polling, records, sessions, crashes | instances of both contracts |
| `Lockin` | the lockin's handlers, requests and records | `CrossChain` |
| `Lockout` | the lockout's | `CrossChain` |
| `Transfer` | one transfer in either direction, and its specification | `Lockin`, `Lockout` |
| `PBFT` | the agreement on nonces | |
| `NonceManager` | the nonce server, for one account | |
| `WebClient` | the page of a user, with its helper service, a notary and the chains | instances of both contracts |
| `MC...` | instances for TLC | |
| `LockedEthereum_proofs`, `AtmosphereToken_proofs`, `Transfer_proofs`, `PBFT_proofs`, `NonceManager_proofs`, `WebClient_proofs` | theorems | the modules they are named for, `TLAPS` |
| `TransferTiming_proofs` | theorems about which of two locks ends first, and what that time is good for | `Transfer_proofs` |
| `Folds_proofs` | lemmas about folds over finite sets | `FiniteSetTheorems`, `TLAPS` |

**Contracts.** One action per external function, with the function's name and
spelling (`cancleLockOut`). A failing `require` is a failing guard, since the
transaction reverts. `sha256` is injective and cannot be guessed: the digest of
`s` is `{s}`. A struct whose `value` is 0 is no lock, whatever its other fields
hold, because the code tests `value` alone (`TermsOf`). uint256 is
`0 .. UintMax` with `Plus` modulo `UintMax + 1` in the token; on the main chain
nothing is added up in the contract, only ether moves. `revealed` collects the
secrets that transactions published. `Emit...` operators give the log entry of
a transaction.

**Transfers.** `CrossChain` has instances `MC` and `SC` of the two contracts, whose
owner is the account `Federation`; logs `mcLog`, `scLog`; the transactions
notaries sent (`mempool`); and per notary what the process keeps: durable
records `db` and last block numbers `saved`, volatile `dealing` (the keys of
`dealingMap`; its values are those of `db` because handlers change a record
through its pointer and save it before they return), `seen` (the last block
numbers of the service), `inbox` (events dispatched whose goroutines have not
run) and `session` (a request in progress). `LockinInfo` and `LockoutInfo` have
the same fields as far as they matter, and one record type stands for both.
`Lockin` and `Lockout` have the handlers, and `Transfer` lets the user choose a
direction; a handler of the other direction would find no record and return.
A lockout starts on chains on which earlier lockins have minted its tokens.

| Action | Code |
|---|---|
| `Poll` | one round of `SMCService.loop` / `ETHService.loop` and the dispatcher |
| `onMCNewBlockLockin`, `onSCNewBlockLockin`, `onMCNewBlockLockout`, `onSCNewBlockLockout` | the new-block handlers, with the loop over `dealingMap` and the cancellations |
| `QueryLockin`, `QueryLockout` | the contract query at the top of the Prepare handlers; the answer is used in a later action |
| `onMCPrepareLockin4Ethereum`, `onSCPrepareLockin`, `onSCLockinSecret`, `onMCLockin4Ethereum`, `onMCCancelLockin4Ethereum`, `onSCCancelLockin` | the rest of the lockin's handlers, each to its end; `Refuse` is an error return, `Record` is `updateLockin` with its panic |
| `onSCPrepareLockout`, `onMCPrepareLockout4Ethereum`, `onMCLockoutSecret4Ethereum`, `onSCLockout`, `onMCCancelLockout4Ethereum`, `onSCCancelLockout` | the same for a lockout |
| `onSCPrepareLockinRequest`, `checkPrepareLockin`, `callSCPrepareLockin`, `MinedSCPrepareLockin`, `takeCharge` | the user's request, from its checks over the signing session and the transaction to `NotaryIDInCharge`; for a lockout `onMCPrepareLockoutRequest`, `checkPrepareLockout`, ... |
| `Crash`, `Restart` | the process stops anywhere between actions; `newLockinHandler`, `newLockoutHandler` |
| `MinedMCLockin`, `MinedSCCancelLockin`, `MinedSCLockout`, `MinedSCCancelLockOut` | a notary's transaction is mined or reverts |

A transaction a notary sends may be mined at once or later; a handler that
panics stops its process (`status` "panicked") until it is restarted.

`Noticed` says in which block the transaction of a session is. The notary that asked
waits in `bind.WaitMined`, which finds the receipt when the block is complete: at the
same time as the listener can poll the block's events (`Receipted`). So `takeCharge`
runs beside the handlers of that block, before or after any of them. If the user
opens the notaries' lock in the block that sets it, the secret may be handled with
nobody in charge, and no claim is ever sent; the properties that this breaks state it as
an exception (`HastyLockin`, `HastyLockout`). The other things that may go first are
the end of a lock that was over when it was set (`SetLate`: nobody in charge, so
nobody withdraws it) and the end of the record, on which `takeCharge` then panics.

**PBFT.** One instance of `pbft/pbft` as `service/pbftservice.go` runs it for
an account of an Ethereum-like chain. `server[i]` is the struct `Server` of
replica i (with the fields' names), `client[r]` the `cEntry` of a request,
`view[i]` the view its client believes in, `net` the messages on their way, each
sent by a goroutine of its own and so delivered in any order, or never. Maps of
the code are functions with a finite domain: `Put` sets one key of a map, `Over`
writes one map over another, and where the code goes through a set in an order
of its own the model folds over the set (`FoldSet`). A
handler is an operator with the name of the Go method, from the replica's state
to its next state; what it sends is collected in `out`. That follows the code:
`loop` handles one message at a time, and `broadcast(true, ..)` calls `handleReq`
for the sender itself before it returns, so that a `Prepare` may run `Commit`,
`execute`, `startCheckPoint` and `CheckPoint` in one step, in this order.

| Action | Code |
|---|---|
| `handleReq` | `OnRequest` with `CheckMessageSender`, then `Request`, `PrePrepare`, `Prepare`, `Commit`, `CheckPoint`, `ViewChange` or `NewView` |
| `startViewChange`, `internalTimer` | the timer's goroutine puts a message into `msgChan`; `handleTimer` |
| `sendRequest`, `ClientResponse` | `Client.sendRequest` (to the primary first, then to all), `Client.Response` |
| `Restart` | `NewPBFTService`: memory is lost, the nonce and `OpNonce` in the database are not |

What stands for what: an operation is its own digest; the digest of a
checkpoint is the pair it is computed from, so that two digests are equal only
when histories are. Timers are the booleans `monitor` and `ticking`; `stray`
counts those the code has overwritten and can no longer stop. Left out
because nothing reads them: prepares after `sendCommit` and commits after
`sendReply`; view changes at replicas that are not the primary of the view they
ask for, and those of views that are over; of several prepared entries for one
seq in one `ViewChangeArgs` all but the last (`PreparedLists` ranges over the
orders in which Go may read the map).

**Nonce server.** One `nonceManager`. Each goroutine of `confirmLoop` is a value of
`loop`: where it is, and the blocks since it started (up to `Timeout`; the code
compares heights). Every call of the chain or of a notary is a step of its own,
so that blocks, requests and other goroutines come in between: `checkNonce` is
the nonce read before the lock, `timeOut` what happens under the lock. A nonce 0
is, as in the code, also what stands for "not known yet". The chain takes up
pooled nonces in order, and `mined` may also move by one for a transaction the
account sent on its own. `newNonceManager` and `applyNonce` are one step, as
requests are served one at a time. External are the chain and the owners.

**Page.** JavaScript runs one callback at a time, so each action is one callback:
of a button, an answer or a timer. `pending` holds what the page waits for;
`prePare` to `claim` are the chain of callbacks of a lockin or a lockout, which the
source writes twice, once per direction, and the model once. `Valid` and `Execute`
are the helper service and the contracts: `generateTx` estimates the gas and fails
when the call would revert. Every answer may be an error (`helperFails`,
`statusFails`) or be lost (`answerLost`, `statusFails`), and answers to `queryStatus` come at
any time, after any number of other callbacks. Where the code has an `error:` handler the page
comes back without a status (`ComesBack`); where it is called `err:`, which jQuery does not
know, the page waits on behind the mask (`Unhandled`, "unanswered"). The helper
broadcasts a transaction before it waits for its block, and a notary sets its lock
before it answers, so what the page has given up may still be done, at any later
time or never: it is in `underway`, and `servedLate` does it.

Two variables are history. `informed` says that a status has arrived since the page
last had a transaction sent, and `careful` that the user started every
transfer with `informed`. Without that `test.js` does not keep secrets: after an error of
`sendTx` the mask goes, Prepare is still enabled, and the next click on it forgets the
secret of a transaction that was broadcast.

Assumed: both contracts have the same address (the
page sends `sprepareLockout` to `mainChainContract` and `mlockout` to
`sideChainContract`; they are deployed by one key with one nonce). Fees are left
out: the notary locks the amount the user locked. Init is the page after
loading, which clears `localStorage`; reloading it is not modelled.

## 3. What the runs show

| Run | Instance | Properties |
|---|---|---|
| `main_chain` | 2 accounts, 1 secret, 3 blocks | `TypeOK`, `LockinIsHTLC`, `LockoutIsHTLC` |
| `side_chain` | 2 accounts, 1 secret, uint256 of 0..4 | `TypeOK`, `SupplyIsAccountedFor`, `LockinIsHTLC`, `LockoutIsHTLC` |
| `transfer` | 1 user, 2 notaries, prompt, fair | `InChargeAgreed`, `SecretIsActedOn`, `EndedIsSettled`, `MintedIsClaimed`, `ReleasedIsDestroyed`, `TokenLocksEnd` |
| `transfer_slow` | the same, sessions of any length | `TypeOK`, `Backed`, `SideLockEndsFirst`, `MainLockEndsFirst` |
| `transfer_crash` | the same with a crash, and calls that may fail | `RecordsAreTrue`, `OutcomesStay` |
| `transfer_ether` | as `transfer` | `EtherLocksEnd` is violated |
| `transfer_restart` | the same with a crash | `SideLockEndsFirst` is violated |
| `pbft_order` | 4 replicas, 3 running, 2 requests, checkpoints every 2, 3 restarts | `TypeOK`, `SameOrder`, `NoPanic`, `NoDuplicateSeq`, `GrantedIsRemembered` |
| `pbft_view_change` | 2 requests, one replica cut off per view | `SameOrder` |
| `pbft_own_commit` | 2 requests, 3 running, no faults | `EndsAnswered` is violated |
| `web_client` | 2 secrets, 2 amounts, main chain up to block 3, side chain up to block 2, lifetime 2, any answer an error or lost | `TypeOK`, `OneAtATime`, `SecretKept`, `CancelIsOffered`, `LockinEnds` |
| `nonce_server` | 3 requests, timeout of 1 block, 1 failure, 1 restart | `TypeOK`, `OnLoan`, `NoGapStays` |

**Refinement.** `LockinIsHTLC` and `LockoutIsHTLC` say that each account's lock
of a contract implements `HTLC`: the mapping reads the struct of the account as
the terms of the lock, the chain's height as `now`. The conjunction over
accounts is inside one action property, because a step may concern one account
only. The two chains need no more than one user, the owner and one secret to
exercise every function, the reuse of a lock with other terms and the change of
owner; `UintMax = 4` with values of 2 makes every addition able to wrap.

**Transfers.** One user, one secret and two notaries with a threshold of one are
the smallest federation in which a notary other than the one in charge matters
(with two or three notaries the configured threshold asks for the answers of
all others). The user's lock expires at block 6 and takes effect from block 0,
so that halving the time left, opening, claiming, expiring on either chain,
withdrawing and the refund all happen within 9 or 10 blocks; chains may drift
apart by `MaxSkew` blocks. The crash run uses locks of 4
blocks and chains of 6, since a crash multiplies the states: enough for records
of both directions to reach Unlock and Cancel on either chain after a crash. One lock per run (`MaxLocks`) is enough for the hazards
listed: records of different hashes share nothing but the panic, which stops the
process. `MaxNonces` is 1: a second session for the same transfer may leave a
notary in charge that is not the one whose lock was mined, and
`InChargeAgreed` holds only without it (`OneAsked` in the proofs). `CHECK_DEADLOCK FALSE` everywhere, because
chains stop at their bound.

**Promptness.** A transfer promises something only to notaries that keep up:
blocks take several seconds, handlers milliseconds. `Prompt` says (`KeptUp`)
that a new block comes when every running notary polled and handled the last
one, the receipts it holds were asked for (once a second) and claims and cancellations are mined; `PromptSessions` that signing
sessions are over, too. The order of the handlers within a block, `takeCharge` among them, stays free,
and so do downtimes: a notary that was down gets all its missed blocks at once.
`transfer_slow` drops `PromptSessions`, so that a signature or its transaction
may take any number of blocks. Without `Prompt` nothing could be expected: a
claim that is mined after the expiration reverts.

**Fairness.** `FairSpec` adds weak fairness of both chains' blocks (chains do
not wait for users), of mining (a transaction that is valid is mined; a reverted
one is mined, too) and of each notary's steps as a whole: the Go scheduler runs
every goroutine that can run. Users are not fair: they may stop anywhere.
No restart is fair, and `transfer` has no crashes. In `NonceManager` goroutines and
blocks are fair, and blocks that use up what can be used up; owners of nonces
and restarts are not. In `WebClient` only the page is: each answer arrives or is lost,
and timers fire; what the page has given up need not happen, and users, notaries and chains may
stop. An answer that is lost unhandled is waited for no more (`LockinEnds` names it).

**PBFT.** Four replicas are the smallest federation with f = 1. With one of
them down every vote of the other three is needed, so each order of messages
matters; `pbft_order` leaves the order entirely free (no timers, since it has no
view change), and its restarts come when nothing is on its way. The window is twice `CheckpointDiv`: with 2 it takes only two
operations to reach a checkpoint, while 100, the value of the code, is used where
checkpoints would only add states. The other runs are `Patient`: messages travel
faster than timers run out (milliseconds against seconds), a client asks
when nothing is on its way, and replicas that wait for a view
time out before those that wait for a later one. View changes need
cut-off replicas to be interesting and are too large for TLC with an arbitrary
network, so `CutOff` in `MCPBFT` says which messages of which view arrive: a lossy
network whose losses are fixed. `pbft_view_change` lets a single replica
execute an operation in view 0 and checks that the new primary, who may count
any three view changes, keeps its place.
`MaxView`, `MaxTimeouts`, `MaxSends` and `MaxRestarts` bound the behaviour;
`Running`, `Calm` and the definitions after them use them in the guards.

`EndsAnswered` is liveness without fairness: in a state in which no message is on
its way, no timer runs and no client will send again (`Quiet`), no client may
still wait. What keeps going for ever without an answer it does not see.

**Nonce server.** `NoGapStays` says that again and again every nonce handed out is
used or free to be handed out again. It holds for what the code does in every
order of three requests, a timeout after one block, a failed call and a restart;
the nonces that the failure or the restart made the server forget are
excepted, because nothing retries them. Timeouts of more blocks only repeat
the loop.

**Page.** Two secrets are needed for the second transfer to meet what the first one
left, two percentages so that an amount may round to nothing, and a `Lifetime` of
2 so that locks expire while the page waits; four blocks of the main chain let a lock
expire and its cancellation follow. The answer of each of the eight requests may be
lost. One status query at a time is asked for by the user, besides those of the page. The sum of the
user's and the contract's ether bounds how often the user asks for more. Which
secret is generated first is a matter of names: `InOrder`, a constraint, keeps one
of each two states that differ only in them (a symmetry set would not do, with a
liveness property).

`SecretKept` and `CancelIsOffered` are about a user who is `careful`, and the second one about
a page with a status since its last transaction: without the
one or the other they are false, as a lost answer of `sendTx` shows. `LockinEnds` names the exception, a page that waits for
an answer whose loss is not handled. The page is stuck in other cases that are no
lockin: the mask stays after a cancellation, and after the alert of a lockout
without a lockin's secret; and when the answer of a cancellation is lost, localStorage
keeps the secret of a lock that is gone.

**Findings.** Three runs show what the code does against what its own comments and
tests say; `PROJECT.json` quotes them.

1. `transfer_ether`: when the ether lock of a lockout expires, the notary in
   charge calls the side-chain token to cancel it. On that chain it cancels the
   user's lock, if that one has expired; the notaries' ether stays locked.
2. `transfer_restart`: after a restart the two last block numbers of the service
   are 0 until the first new-block event of each chain has been handled. A
   main-chain PrepareLockin handled before computes a side-chain expiration
   that may lie after the ether's, and the user can mint and be refunded.
3. `pbft_own_commit`: a replica's own commit is handled before `sendCommit` is
   set and does not count as the one that completes the set. Two replicas that
   hear the others' commits first, one for each of two operations, leave a
   client with one answer, and that answer stopped its retransmission.

Other behaviour of the code that the models contain and that limits what the
properties say is listed with its line under `hazards` in `PROJECT.json`: a late
event's handler panics on a record that has ended; a primary may number below its
window after an early view change; the page never ends a lockout if no lockin came
before it, and cannot cancel one.

## 4. What is proved

For every value of the constants (any accounts, secrets, amounts, expirations,
heights; any width of uint256; any number of notaries, requests, crashes and
restarts; any timeout), from the named assumptions on the constants:

| Theorem | Module | States |
|---|---|---|
| `TypeCorrectness` | the contracts' `..._proofs`, `Transfer_proofs`, `PBFT_proofs`, `NonceManager_proofs`, `WebClient_proofs` | `Spec => []TypeOK` |
| `LockinImplementsHTLC` | both contracts | `Spec => LockinIsHTLC` |
| `LockoutImplementsHTLC` | both contracts | `Spec => LockoutIsHTLC` |
| `EveryTokenIsAccountedFor` | `AtmosphereToken_proofs` | `Spec => []SupplyIsAccountedFor` |
| `RecordsTellTheTruth` | `Transfer_proofs` | `Spec => []RecordsAreTrue` |
| `OutcomesAreKept` | `Transfer_proofs` | `Prompt` implies `Spec /\ []NewHashes => OutcomesStay` |
| `SideLockInTime` | `TransferTiming_proofs` | `Timely` implies `Spec /\ []Calm => []SideLockEndsFirst` |
| `MainLockInTime` | `TransferTiming_proofs` | `Timely` implies `Spec /\ []Calm => []MainLockEndsFirst` |
| `AlwaysTimed` | `TransferTiming_proofs` | `Timely` implies `Spec /\ []Calm => []Timed` |
| `AlwaysAccounted` | `TransferTiming_proofs` | `Timely` implies `Spec /\ []Calm => []Accounted` |
| `AlwaysPromised` | `TransferTiming_proofs` | `Timely` and `~CallsFail` imply `Spec /\ []Calm => [](NoneHasty => Promised)` |
| `ValueIsBacked` | `TransferTiming_proofs` | `Timely` and `~CallsFail` imply `Spec /\ []Calm => []Backed`; `NoneHasty` is in `Backed` |
| `SecretLeadsToClaim` | `TransferTiming_proofs` | `Timely` and `~CallsFail` imply `Spec /\ []Calm => [](NoneHasty => SecretIsActedOn)`, with some notary |
| `EndsAreSettled` | `TransferTiming_proofs` | the same of `EndedIsSettled`, with `[]NewHashes` |
| `AlwaysShared` | `TransferTiming_proofs` | `Timely` and `AllSign` imply `Spec /\ []Calm /\ []OwnAccounts => []Shared` |
| `InChargeIsAgreed` | `TransferTiming_proofs` | the same of `InChargeAgreed` |
| `GrantsOutliveRestarts` | `PBFT_proofs` | `Spec => []GrantedIsRemembered` |
| `NoncesNeverGoBack` | `PBFT_proofs` | no step makes the nonce in a replica's database smaller |
| `AlwaysStable` | `PBFT_proofs` | every replica has a stable checkpoint, at or before what it executed |
| `ViewsNeverGoBack` | `PBFT_proofs` | no step but a restart makes a replica's view smaller |
| `FirstViewSameOrder` | `PBFT_proofs` | N other than 2 implies `Spec => [](FirstView => SameOrder)` |
| `FirstViewGrantsAreDistinct` | `PBFT_proofs` | `Spec => [](FirstView => NoDuplicateSeq)` |
| `FirstViewNoPanic` | `PBFT_proofs` | `Spec => [](FirstView => NoPanic)` |
| `QuorumsIntersect` | `PBFT_proofs` | two sets of replicas that are `Enough` share one, unless N = 2 |
| `QuorumsShareACorrectReplica` | `PBFT_proofs` | with N = 3f + 1 they share more than f |
| `NoncesOnLoan` | `NonceManager_proofs` | `Spec => []OnLoan` |
| `NeverTwoAtATime` | `WebClient_proofs` | `Spec => []OneAtATime` |
| `SecretIsKept` | `WebClient_proofs` | `Spec => []SecretKept` |
| `CancelIsAlwaysOffered` | `WebClient_proofs` | `Spec => []CancelIsOffered` |

**Contracts.** `TypeOK` is inductive in both contracts and is the only invariant
the refinements need: a lock's value and expiration are numbers, so that closed
and open, before and after the expiration exclude each other. The refinement is
proved function by function (`LockinStep`, `LockoutStep`): a function applied to
another account leaves this account's lock alone, and at most publishes a
secret (`Elsewhere`); applied to this account it closes the lock, opens it with
the secret or opens it after the expiration. The side-chain `prepareLockin`
accepts the value 0, which closes nothing, so its step splits on the value. In
the token the leaves about `uint256` rest on three lemmas: additions modulo
`UintMax + 1` and subtractions of what is there stay in range.

**Supply.** `SupplyIsAccountedFor` is about sums over all accounts, and a sum is a
fold. Folds of the community modules are defined by choosing a function on the
subsets of a set; `Folds_proofs` shows once, for any combination, that there is
one such function on every finite set, that a fold takes out one element and
folds the rest, and that a combination that keeps something keeps it through the
fold. The induction is over the subsets of a finite set, stated without an
operator parameter: among bad subsets there is one without a smaller bad one
(`SmallestBadSubset`). Its last section is about sums of natural numbers: any
element can be taken out of one as well as the first (`TotalTakesOut`), larger
summands make a larger sum (`TotalsCompare`), and one that changes alone changes
the sum by as much (`TotalsDiffer`). `AtmosphereToken_proofs` takes it from there to what the
token does: one summand changes, or one gains what another loses. This needs finitely
many accounts (`AccountsAreFinite`; an address has 160 bits). With `TypeOK` the
invariant is inductive as it stands, and it is a statement about true numbers
over code that adds modulo `UintMax + 1`: no account owns more than the supply,
which is a uint256 (`NobodyOwnsMore`), so `lockout` and `cancelLockOut`, which
check nothing, never wrap, and `lockin` need only check the supply, as it does.

**Transfers.** `RecordsAreTrue` holds without any assumption on how fast notaries
are, how many sessions run or what crashes. `TruthInv` adds to it that an event
in an inbox is genuine, that is in the log of its chain, and logs only grow; a
handler writes an outcome only for the event it handles, and every other step
writes none. Each handler is one case, and what they share (`Refuse`, `Record`,
`Query`, `Answer`, `Stop`) are lemmas of their own.

`TypeOK` of `Transfer` is not inductive: what a handler writes depends on the event
it handles, and the transactions it sends on whom its record is for. `Typed` says
what log entries and dispatched events carry, that a record names the user who
started the transfer and, once the notaries' lock is seen, the account on the
other chain, that a session that collects signatures knows the account it pays,
and that an amount less the fee is still a uint256. Three assumptions on the
constants come in: amounts fit in a uint256, so does the ether of all users
together (`EtherCanBeCounted`; 2^256 wei is more than there is), and the zero
address, and what stands for nobody in charge, are nobody's (`NobodyIsNoAccount`).

**Transfers: outcomes.** `OutcomesStay` is an action property, and most handlers keep it
because of what the contracts do: a lock ends with its secret or is taken back,
never both (`OneEnd`), a record tells the truth (`TruthInv`), so an event never
contradicts what the record already says (`StatusFits`). A record is per hash and
not per lock, though, and nothing keeps a user from locking twice with one hash
on one chain: the hypothesis `NewHashes` says that this does not happen once the
first lock has ended (it holds in every state of `transfer_crash`, checked as an
invariant before the proof). The one handler that looks at nothing is `onSCPrepareLockin`:
the record goes back to `Lock` if the answer to `QueryLockin` is older than the
end of the lock. `MailSeen` says what keeps this from happening: an answer
that waits is about a lock whose end no notary can see yet (`EndSeen`), since a
block is not mined while answers wait (`Prompt`), and a record that names an
outcome is about one whose end can be seen (`EndsSeen`). Any number of crashes,
sessions and failed calls is allowed.

**Transfers: time.** That the side lock ends first is a matter of the arithmetic in
`calculateSCExpiration` and `calculateMCExpiration`: a notary takes the last
numbers it has handled of both chains and gives the side lock half of the time
that the user's lock has left. Those numbers may each be two blocks old, the
chains drift, the side lock's expiration may be taken over from another notary or
from the contract's answer, and it may be signed and mined any number of
blocks later. The hypotheses are those under which the code can keep the promise:

- `Timely`: `Prompt`; four times `MaxSkew`, the drift, is less than `MinExpiration`,
  since half of the time left must be more than the drift, with a margin for
  the age of the numbers; and no lock expires within the first `MaxSkew` blocks.
- `Calm`: no notary stops (finding 2 is what happens otherwise), and each transfer
  is asked of one notary (a second one could set a second side lock for another
  account after the user's lock is gone).

Sessions take any time (`PromptSessions` is not assumed) and calls may fail. The inductive
invariant `Timed` is built on `Covered[h]`, the blocks at which a side lock with
hash h may end: those by which a user's lock with that hash outlasts it with
`MaxSkew` to spare, those that are past, and any once the secret is out. Everything
that carries such a number is required to stay in it: records, sessions,
transactions on their way, answers of the contracts and the side locks
themselves. An answer about a user's lock may be late, so it is `Standing`: it is
what the contract holds, or it has expired, or its secret is out. Then time
only extends these sets (`GoesOn`), because a user's lock goes only with its
secret or after its expiration (`ChainsGoOn`), and only one step has to put a new number in:
`TimeIsLeft` shows that half of the time left is `Covered`, or past, for a lock
that stands (`HalfIsInTime`, `LateIsOver`). `Following` bounds the age of what a notary
knows from what `Prompt` lets a block wait for. That a second side lock for an
opened hash is never set is `SetOnce`, from `SentOnce`: the one session of a transfer
sends one transaction. Both directions are one proof, with `First` and `Second` for
the chains; only users' calls, handlers and transactions are gone through
twice. TLC checked `Timed` on the instance of `transfer_slow` before it was proved.

**Transfers: value.** That the side lock ends first is half of what makes a transfer
safe; the other half is that notaries use the time. Whoever publishes the
secret may do so in the last block of the side lock, and the user may take the
other lock back right after it ends. In between the notary that set the side lock must see the event, be in
charge by its own record, send the claim, and the claim must be mined. This is
`Owed`: for a hash whose secret is out and not yet used to claim, the lock of the
user is open, with its hash, and the claim is `Pending`: sent, or the event is in
that notary's inbox (`InMail`), or in the log ahead of what it has polled with
enough blocks left (`Unseen`), and its record has no secret yet, since a record
with one makes `onSCLockinSecret` and `onMCLockoutSecret4Ethereum` return early. Everything
else in `Promised` is there to keep `Owed`:

- `RecordsStand`: a record tells the user's lock as it stands (account, amount and
  expiration), its side status is None only as long as a session can still
  be opened in time, and a secret in it is really out.
- `SessionsStand`, `PreparesAgree`, `SideLocksAgree`: the account, the amount less the fee and
  the expiration that a session was opened with are those of the lock it leads to.
- `InCharge`, `InChargeFirst`: `NotaryIDInCharge` is recorded when the receipt was found, in
  a goroutine beside those of the events of the same block. A secret of that block may
  be handled before; one of a later block may not, because the receipt is asked for
  every second and the next block comes later than that (`Prompt`, in `KeptUp`). So all of
  `Promised` is proved for the states in which no secret is in the block of the lock it
  opens (`NoneHasty`); since logs only grow, the states before them were such
  states too (`HastyBefore`). Which event and receipt belong to which session
  is `Accounted`, an invariant of its own that needs no such hypothesis.
- `ClaimsAgree`: a claim names the account of the session, so it opens the right lock.
- `Balanced`: what is minted or paid out is accounted for by what the contract
  holds and what the notaries may claim (`Claimable`). A secret that comes out moves the user's lock from
  what may be taken back (`Free`) to what may be claimed; a claim moves it to the contract.

`Balanced` says more than `Backed`, which follows, since what may be claimed is part
of what is still to be destroyed and nobody's lock has a negative value
(`BalancedIsBacked`). `SecretIsActedOn` follows from `Owed` for the notary that was
asked, and `EndedIsSettled` from `Owed` with `RecordsAreTrue` and `OneEnd`: a lock
that may still be claimed has not been taken back. The hypotheses are those of
the time proof and two more: no secret is in the block of the lock it opens (`NoneHasty`, the code's own limit), and calls do not fail (`~CallsFail`), because a notary
sends the claim once and never again; `transfer_crash` has calls that fail and
does not check these properties. Users may lock as often and with whatever
hash they like, one hash in several locks included (`NewHashes` is needed for
`EndedIsSettled` only). TLC checked `NoneHasty => Promised` on the
instance of `transfer_slow`, on the states in which `Calm` holds, before it was proved.

**Transfers: who is in charge.** Every notary records for itself who is in charge: the one
that asks when it has the receipt (`takeCharge`), the others when they sign,
that is, before there is anything to send. So whoever has seen the side lock knows
who set it, if that lock is what it has seen; only the one that set it may not have
recorded itself yet. `AgreedOn` says this: all other records name it, its own names it
or nobody, and itself once `takeCharge` has run. The inductive invariant `Shared`
follows this: a notary that agreed to sign has recorded somebody, and who sends
has everybody's agreement (`Signed`); only a notary that was asked is recorded (`Named`),
the one that has taken charge is recorded by itself (`TookCharge`); an event that tells
of a side lock, an answer about it or a record that shows it is there only if a session with that
hash was mined (`MailOfLocks`, `RecordedLocks`), whether or not its notary has
noticed. That the events of an account are those of a session for it is `Accounted`. With one asked
notary per transfer (`Calm`), all records name the same. It does not matter whether the
receipt is found before or after the events, whether calls fail, or where secrets are; besides the
hypotheses of the time proof there are two:

- `AllSign`: the threshold asks for the signature of every other notary, as the one that
  `cfg` calculates does for two and three notaries. With more, who did not sign has nobody recorded.
- `OwnAccounts`: no two transfers go to the same account of the second chain. The
  event `PrepareLockin` names an account and no hash; a notary takes the hash from the lock that
  the account has when it asks, so that with two transfers to one account the
  event of one may make it record the lock of the other, of which it knows nothing yet.

TLC checked `Shared` and `Accounted` on the instance of `transfer_slow`, on the states in
which `Calm` holds, before they were proved.

**PBFT: quorums.** The two theorems are about the operator `Enough` that
`prepared`, `committed`, `CheckPoint` and `NewView` count with, for f = N / 3
rounded down as `NewPBFTService` computes it. With two notaries f is 0 and one
vote is enough, which is why N = 2 is excluded; with 3f + 2 notaries two sets may
share only faulty replicas.

**PBFT: memory.** A handler is an operator from state to state, so there is one
lemma per handler, in the order they call each other, and each says that what it
returns is `Later` than what it got: the replica is well formed (`ReplicaOK`),
it is the same replica, and the nonce in its database is not smaller. `ReplicaOK`
needs all that the handlers rely on: sequence numbers are numbers everywhere;
logs and queues are finite, so that executing a queue (`FoldSet`) can be proved by
`FoldKeeps`; an entry marked as answered has a nonce the database knows, which is
what a primary relies on when it answers an old request again; a stable
checkpoint exists and lies at or before `apply`, which is what keeps
`startCheckPoint` from unmaking the only stable one; and whatever is sent as an
answer carries a nonce the sender's database already holds (`Honest`). Steps that
leave the checkpoints alone are proved `Steady`, which is simpler and implies
`Later`. `MemoryInv` adds the network and the clients: an answer on its way, or
kept by a client, is remembered (`Remembers`) by the replica it came from. Since answers of
one client entry with one nonce are different replicas, more than f of them
are more than f databases (`AnswersAreHolders`). Nothing is assumed about the
network, the timers or which replicas run; replicas follow the code, as
everywhere in `PBFT`.

**PBFT: types.** `TypeOK` is not inductive either: that an entry goes through its phases
in order rests on what is written into it. `Typed` says what a
replica must hold for its next step to be well formed. Every task in the queue has a Seq of its own above
`apply` and an entry marked `sendReply` in the log, so `replyByPendingTask` marks as
answered only what was executed. A checkpoint is -1 or more and a replica's last one is at most
`h`, so that what its window lets in (`InWindow`) lies above the last checkpoint. A
request that was prepared or is proposed again is one that was asked for, or the empty one of a gap in a new
view (`Asked`). The same is said of every message (`MessageTyped`), as a replica writes what it
reads, and of replicas that do not run, which stay as they were made. There is one lemma per handler
again, `...StaysTyped`, next to the lemma that it is `Later`; the conclusion is `Onward`: the replica
stays typed and its view is not smaller, since a checkpoint or a new view is taken over only
from a later view. Two assumptions on constants are used: the bounds are numbers (`PBFTBounds`),
and a nil pointer is not a request (`NilIsNoRequest`). In view 0 the log
starts at the last checkpoint; in later views it need not, because `enteringNewView` puts what its
messages say was prepared into the log, and these may start from a checkpoint that the replica
has left behind. So `TypeOK` says it of view 0 only. TLC checked the invariant (`TypeInv`)
on the instances of the three PBFT runs before it was proved.

**PBFT: the first view.** That replicas agree is proved for every state in which no view was
changed and no replica restarted (`FirstView`), whatever follows: by `ViewsGrow`
the states before it were such states too (`FirstViewWasFirst`). It holds with any number of notaries,
operations and checkpoints, and messages lost or delayed in any way. `AgreementInv` says that
there are a set K of pairs of a Seq and an operation, what replica 0 numbered, and a set B of triples
of a replica, a Seq and an operation, what the replicas recorded with `NewNonceForOp`,
such that everything a replica keeps or sends agrees with them. Both only grow: K by
`handleRequestLeader`, with a Seq above all it has given, and B by `PrePrepare` and `sendCommit`, for pairs of K
and never with a second Seq for an operation (`Sane`, from `Refuses`). A vote to commit
is a triple of B, wherever it is (`EntrySound`, `MessageSound`); so what is
committed was recorded by enough replicas (`Agreed`), and so is what is queued,
executed, answered and granted. What enough replicas recorded has one operation per Seq, as K has,
and one Seq per operation, because two such sets of replicas share one
(`QuorumsIntersect`, hence not with two notaries). That the queue holds one task per Seq,
above `apply`, and that a task's entry is already marked `sendReply`, is why `execute` does not
panic and executes in order.
`FirstView` is needed: a restarted primary may number again what it has forgotten, and
the hazards in `PROJECT.json` say what view changes lose. Where the proof uses it is where a
handler would change the view (`ViewChangeIsSound`, `HandleTimerIsSound`): timers may run out and replicas ask for
another view as long as none has entered it. TLC checked that `FirstView` implies the
invariant, with B and K read off the state, on the instances of the three PBFT
runs before it was proved.

**Nonce server.** `OnLoan` needs one more conjunct to be inductive: a server
without a `nonceManager` counts from 0 (`IInv`). Then nothing is watched over
while `nextNonce` is 0, so that whatever number the chain gives is new
(`HandedOut`); a nonce handed out otherwise is above all that are watched over;
a goroutine that goes on or ends leaves the others' nonces alone (`WentOn`); and
one that hands its nonce out again (`timeOut`) held the highest, because
different numbers below `nextNonce` are below `nextNonce - 1` but for one.

**Page.** `OneAtATime` is inductive with the mask layer: what is under way (but
for the address of a new key, for which none is shown) is one thing at most, and
only while the layer is there. So a button that can be clicked starts the only
thing (`Starts`), an answer replaces it by what follows (`GoesOn`) or ends it,
and only then may the layer go (`ComesToAnEnd`); `txMined` hides it after claims
only, which never go on. The contracts play no part: the theorem holds for
any amounts, secrets and blocks, whichever requests fail or are lost.

The secrets and the buttons need that, and more. `SecretInv` says of a `careful` user
that while a lock the user made is open and its secret not out, the page holds that secret, in
the variable and in `localStorage`, and that then, once a status has arrived since the last
transaction, the button that starts another
transfer of that direction is disabled and the one that cancels is not (`Holds`, `Kept`). It says the
same of a lock that may still come to be: a transaction that the page gave up (`Late`), of which there is
at most one per direction, and only while there is no lock. What is on its way to a lock
was started with nothing at risk and nothing late and carries the secret the page holds, and so
does what finishes a transfer (`Fine`). A new secret is put over the old one
only on the way to a lock, which a careful user starts with `informed` and an enabled button: while nothing is
at risk or late. After an error of `sendTx` what was at stake becomes late, and `Kept` holds
because no status has arrived. That an unset variable
is not one of the secrets is an assumption (`UnsetIsNoSecret`).

`TypeOK` needs no such user. `TypeInv` adds that the ether of the user and of the contract, and a gift on
its way, are at most what there is (`EtherTyped`), and what every request carries (`PageTyped`), those that
the page gave up included. What it says of tokens is only that they fit in a uint256: a cancellation or a late
transaction may take out ether that tokens stand for. That the ether fits in a uint256 is the
assumption `EtherCanBeCounted`. TLC checked both invariants on the instance of `web_client` first.

**Only model-checked.** All liveness, and `ENABLED`. Of the invariants only
`SameOrder`, `NoDuplicateSeq` and `NoPanic` after a view change or a restart,
which the view changes of the code do not ensure in general (see the hazards), so
that there is no invariant to prove for every network.

## 5. What is not modelled, and the plan

Done: `HashLock`, `HTLC`, `Owned`, `LockedEthereum`, `AtmosphereToken` (proved);
`CrossChain`, `Lockin`, `Lockout`, `Transfer` (types, true and lasting records, the
order of the locks' ends, backed value, settled ends and who is in charge proved); `PBFT`
(quorums, types, what databases remember, and agreement in the first view, proved); `NonceManager` and `WebClient` (safety
proved). What could follow:

1. `EventListener`: an abstract log reader (every event once, in order of
   blocks) and the loop of the listeners with its confirmation depth, table of
   handled transactions, parse and query errors, and reconnection.
2. `PBFT`: the client's queues, the auxiliary for Bitcoin, view changes with a
   network that is slower than the timers, a second view change, and agreement within every
   view, not only the first, as a theorem.
3. `DSM` and `PKN`: phases, channels, dropped and duplicated messages.
4. UTXO selection and the Bitcoin paths of lockin and lockout.

Not modelled:

- Of transfers: errors of the database; several sessions for one transfer
  (`MaxNonces` would allow them); fees' accounting beyond the amount locked.
- Of the page: reloading, which clears the secrets (the page warns of it), and
  what is displayed. The other JavaScript of the repository is third-party
  libraries (web3, jQuery, Bootstrap, big integers, curves, digests) and displays.
- Elliptic-curve and Paillier arithmetic (numbers no model checker enumerates),
  the transport and JSON layers, the administrative requests that run once
  before anything else, and chain reorganisations, which the configured
  confirmation depth of 0 does not handle either.
