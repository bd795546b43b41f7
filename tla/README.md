# A TLA+ development for OmniLedger

This directory models the protocols and services of the repository (`src/`) in
TLA+, checks them with TLC on small instances and proves the most important
properties of signing, propagation, broadcast, PBFT, the skipchain and the gossip
election with TLAPS for every tree, number of nodes, roster or chain. `PROJECT.json` lists components, runs, mutants, findings,
hazards and theorems in a form for tools, and maps every definition to the
lines it models.

Run `tlc -config X.cfg M` for a run (module `M` and config as in
`PROJECT.json`) and `tlapm M.tla` for the proofs of a module.

## 1. The system

All protocols run on the library *onet*: a protocol instance per node of a tree
of servers, with typed channels (or handlers) fed by the network. onet is
vendored (`src/vendor/gopkg.in/dedis/onet.v1`): what the protocols rely on is
modelled in the modules that need it and mapped to its lines (the tree, batches
of the children's messages, sends that stop or go on when one fails, the
creation and end of protocol instances). Only a server that goes down and Go's
`container/heap` are marked external.

| part | source | state and operations | what makes it hard |
|---|---|---|---|
| BFTCoSi | `omniledger/bftcosi`, `bftcosi` | two CoSi rounds (prepare, commit) on one tree; buffers of commitments and responses; exceptions; verification in a goroutine; shutdown | the two rounds overlap and share message types; verification races with responses; shutdown at any time |
| Propagation | `omniledger/messaging/propagate.go` | data down a tree, anonymous replies up, a counter, a timeout | crashes, failing sends, timeouts; replies name no sender |
| Broadcast | `omniledger/messaging/broadcast.go` | a counter per node, contact and done messages | one counter used in two roles |
| Skipchain | `omniledger/skipchain` | a map of blocks with forward-links on every server, saved now and then; append, sign higher links, propagate, read, restart | concurrent clients, throttled saves, requests without answer |
| PBFT | `pbft`, `byzcoin_lib/pbft` | counters of prepares and commits, buffers replayed by goroutines | messages in any order, unsynchronised state |
| CoSi | `cosi` | sums of commitments and responses, verification of a signature | what a sum contains |
| ByzCoin | `byzcoin_lib/protocol` | a pool of transactions, two CoSi rounds, view changes | the rounds overlap and only one waits for the other; refusals |
| ByzCoin-NG | `byzcoin_lib/service`, `byzcoin_ng`, `bftcosi_special` | epochs of several threads, a serializer and a queue of verifications on every server, clients that wait | many runs share the queues; locks and channels used without locks |
| Naive tree | `ntree` | signatures up a tree, a request down, answers up | aggregation on the way up |
| Gossip | `gossip` | lowest value spread by periodic messages, a root that counts, a result sent down and acknowledged up | values arrive after the election; bounded channels |
| crypto, parsing | `crypto`, `byzcoin_lib/protocol/blockchain`, `gossip/vrf.go` | pure functions | none for a model checker |
| simulations | `omniledger/simul.go`, `byzcoin_ng2` | drivers that measure | none |

They interact as follows. The skipchain service runs BFTCoSi to sign a link and
Propagation to distribute the blocks that changed: `Skipchain` models a signing
round by the votes of the servers and their number (what `BFTCoSi` is shown to
promise) and a propagation by its storing steps and its timeout (what
`Propagate` does). ByzCoin and the naive tree take a block from the same server
goroutine: `ByzCoin` and `Ntree` extend `ByzCoinServer`, and `ByzCoin` computes
its signatures with `Cosi`. The ByzCoin-NG service runs many instances of a
BFTCoSi variant at once: `ByzCoinNG` composes the service on every server, its
`PriorityQueue`, the runs and the clients.

## 2. Modules

| module | models |
|---|---|
| `Tree` | the tree of a protocol, by parents and subtrees |
| `CollectiveSigning` | abstract: nodes vote, then one decision that follows from the number of refusals |
| `BFTCoSi`, `MCBFTCoSi` | `bftcosi.go`. `phase[n]` is the place in `Dispatch`; the channels are sets or sequences of messages per receiver; a commitment or response is the set of nodes it stands for |
| `BFTCoSiSteps_proofs`, `BFTCoSi_proofs` | theorems about `BFTCoSi` |
| `Propagate`, `MCPropagate`, `Propagate_proofs` | `propagate.go`; `received` holds which nodes' replies were counted, of which the code has the number |
| `Broadcast`, `Broadcast_proofs` | `broadcast.go`; nodes are their positions in the tree's list |
| `SkipHeights` | height and back-links of a block as definitions |
| `SkipHeightLoops` | the two loops of `StoreSkipBlock`, a step per iteration, against `SkipHeights`; `MCSkipchain` runs them beside `Skipchain` |
| `Skipchain`, `MCSkipchain`, `Skipchain_proofs`, `SkipchainAcks_proofs` | `skipchain.go` and the map of blocks of `struct.go`. A block is the sequence of data on its chain; `sbm` is what the servers hold in memory, `saved` what they have on disk; `call` is the place of a client's call or of a handler in its code; `scenario` bounds the calls and the mishaps of a behaviour |
| `PBFT`, `PBFT_proofs` | `pbft/pbft.go`; channels, counters and buffers as numbers of messages |
| `PBFTLib` | `byzcoin_lib/pbft/pbft.go`, likewise; nodes are their positions in the list that `Broadcast` goes through |
| `Cosi` | `cosi.go`: a sum is the bag of its terms, so that a term added twice or left out shows |
| `ByzCoinServer` | `client.go`, `server.go` and the part of `Simulation.Run` that gets a block |
| `ByzCoin`, `MCByzCoin` | `byzcoin.go`, a handler per action; `net` holds the channels, a queue per sender and type |
| `Ntree`, `MCNtree` | `ntree.go` and its simulation; signatures and exceptions are bags of node names; `down` are the servers that went down, to which sends fail |
| `Gossip`, `MCGossip`, `Gossip_proofs` | `gossip.go`; a value is the node it comes from, ordered by `Rank` |
| `PriorityQueue` | `pq.go` as the service uses it |
| `ByzCoinNG`, `MCByzCoinNG` | `service.go` of `byzcoin_lib`, the threads of `byzcoin_ng` and the runs of `bftcosi_special`; `s` is the leader's service, `bft[e][n]` the place of epoch `e`'s run at node `n` |

Operators that follow a definition's pattern with a mistake in it (marked
*mutant*, or named for the mistake: `...Early`, `...Twice`, `...Unasked`) stand
before the definition they alter; each property checked by a passing run is
broken by one of them.

Types: `BFTCoSi` and `Propagate` have a `TypeOK` that is part of their inductive
invariants, `Broadcast` and `PBFT` have theirs as `Messages` and `Numbers`; these
are proved. In the other modules `TypeOK` also bounds buffers and queues, and is
a conjunct of one of the invariants that the run checks (`LinksMatchBackLinks`,
`EndNeedsPrepares`, `CommitRoundReady`, `OneElected`, `OneSender`,
`BlockSignatureComplete`).

## 3. Runs

| run | instance | shows |
|---|---|---|
| `bftcosi` | 6 nodes, the root, an inner node and a leaf may be closed | rounds do not mix, signature complete, all nodes decide alike, implements `CollectiveSigning` (the outcome follows from the number of refusals), ends unless onet closes a server before its end |
| `bftcosi_threshold` | 4 nodes | *violation*: the second round signs although fewer than threshold nodes signed off in the first |
| `propagate` | 6 nodes; crashes, failures to store, a timeout at the root | never returns early, counts once, ends without faults |
| `broadcast` | 5 nodes, failing sends | the callback confirms a complete mesh with nothing under way, and comes unless a send failed |
| `skipchain` | 2 servers, 2 clients, 4 scenarios; the loops for base 1 to 4, index to 40 | see below |
| `pbft` | 3 nodes, a lost message and a crash | quorums before commit and end; replicas commit |
| `pbftlib` | 2 to 4 nodes, up to 3 of them reachable | one callback, after two thirds verified; somebody commits if the PrePrepare reaches a quorum |
| `byzcoin` | 5 nodes, any but the root refusing, root failing or not, three transaction files | see below |
| `gossip` | 4 nodes of three depths, one partner per round, 2 timeouts | one value elected and told to everybody; `WaitFinish` returns after all below are done, and does return |
| `byzcoin_ng` | a leader and a server; up to 3 epochs, 2 threads, 1 client, 2 timeouts | see below |
| `ntree` | 6 nodes, any of which refuses; an inner node and a leaf may go down | the first phase is complete, answers do not overtake, the round ends if nobody goes down |
| `skipchain_fork` | 2 servers, 2 clients | *violation*: two clients that append to the same block at once both get a signed link |

*skipchain.* The scenarios are: a chain that grows with failing rounds and lost
requests; two clients at once on a new chain, who append to the same block or
one to the block the other is still propagating; restarts from the last
save, on a chain of two blocks; both clients with failures from the start. Two
competing blocks that both have a higher link are left to the proofs, which
have no such bound. Links between unrelated blocks
are never signed (`LinksMatchBackLinks`) and links a server holds never
replaced (`LinksOnlyGrow`) in any of them. Without concurrent calls and
restarts acknowledged blocks are everywhere and
`GetUpdateChain` finds its end from any block on any server; without failures
all higher links arrive. `HigherLinksArrive` says so for a `MaximumHeight` of at
most 2. With three levels a request for level 2 may be signed before that for
level 1, which is then refused as already present. In a fifth scenario the
service is at rest and the two loops of `StoreSkipBlock` run: the height they
compute and the blocks the back-links name are those of `SkipHeights`
(`HeightIsReference`, `LinksAreNearest`), with which the other scenarios and the
proofs compute.

*byzcoin.* What the root hands to `onSignatureDone` passes the verification of
`cosi.go`, and the block is made of the first transactions the client sent, in
order, although it sends more than the pool takes. The two rounds interlock as they
must although little makes them: when the prepare responses are in, the commit
commitments are (`CommitRoundReady`: `Start` announces the commit round first
and onet keeps the order of messages of a type from a node), and no node answers two challenges with one secret
(`ChallengedOnce`). `Ends` lists when a run does not end with all loops
stopped: a failing root, too few transactions for a block, a refusal (the
refusing node's parent panics), and the end by view change, which only the
root takes note of.

*byzcoin_ng.* Three workloads: three epochs of two threads with a client, two
with a timeout, three of one thread with two timeouts. At every server one run
sends and one verifies, and flag and queue always say which and who waits
(`OneSender`, `OneVerifier`), although the queue does not return the highest
priority. A client's reply is a block that all servers verified and signed.
`EpochsEnd` lists two ways in which the epochs do not end: `StartEpoch` keeps
`TRMutex` when there is no transaction, and two epochs that publish at once
close the same channel.

**Bounds.** Six nodes in a binary tree give a root, inner nodes with one and two
children, and leaves; four or five still have all three kinds. For the
skipchain, base 2 and two blocks after the genesis block are the least that
produce a block of height 2 and a higher link; `MaxBlock` 3 adds one after it.
PBFT with three nodes has thresholds that differ between the root and the
others. The library's variant is run with two to four nodes in a list of which
any but the root may be unreachable; with four, at least one is (`MaxUp` 3), at
any place of the list, so that broadcasts reach everybody else or stop early. `BlockSize` 2 with files of
0, 1 and 3 transactions gives an empty client, one that never fills a block
and one that overfills the pool. `MaxRound` 2 lets a reset of the root's
counts fall between two values. Three epochs are the least for a queue with a
waiting run while another is queued; the model has one server besides the
leader because runs meet at each server in the same way. Deadlock is not
checked since all of these protocols stop. Symmetry is used for the skipchain
only, whose properties are safety properties.

**Fairness.** Weak fairness of every goroutine's step (`Dispatch` or `listen` of
each node, the goroutines of `Start`, verification functions, replaying
goroutines, threads of a simulation): the Go scheduler runs what is runnable,
`select` chooses at random among what is ready, and without the modelled
failures onet delivers. Nobody is obliged to crash, close, time out (except
where `Propagate`'s `Dispatch` waits, whose own timer fires) or call a service;
gossip's timeouts are not needed for what is promised.

**Where the code does not do what one would expect.** Two cases are runs of their
own. `bftcosi_threshold`: `threshold` is compared with the number of refusals, so
that a second round goes ahead with `n - threshold + 1` nodes signing off, while
`bftcosi.go` lines 6 to 8 say that at least threshold nodes have (`KeepsPromise`
and the proofs state what the code does). `skipchain_fork`: two competing blocks
both get a link. Others are states or exceptions in the models, and are listed with
the hazard they belong to:

- shutting BFTCoSi down while its root is about to send panics, in `Start` and in
  both challenges;
- a timeout of a propagation ends the process (`log.Fatalf`), where the comment
  on `PropagationFunc` (`propagate.go` lines 56 to 59) has the call return, and
  its count includes nodes that failed to store;
- a broadcast among a single node never confirms;
- a restarted skipchain server answers from its last save, and may put a higher
  link at the position of a lower one;
- the root of PBFT may never signal the end, its state being set by goroutines
  that race with its handlers; the library's variant never looks again at
  Commits that came before the Prepares;
- the library's PBFT broadcasts to one node after the other and stops at the first
  that cannot be reached, so that one unreachable node early in the list keeps
  all later ones out;
- a refusal makes the refusing node's parent in ByzCoin panic, though `byzcoin.go`
  (lines 125 and 490) allows a third of the nodes to refuse, and the view-change
  timer never starts;
- the final answer of the naive tree never holds a signature: a node checks all
  signatures with its own key, the request holds the last child's message only,
  and inner nodes pass on their last child's answer; a server that is down makes
  the round wait forever;
- the queue of ByzCoin-NG returns its last element.

## 4. Proofs

The runs check what the code is to achieve; the inductive invariants `IInv` from
which the theorems follow are proved and not part of the runs (add `INVARIANT
IInv` to a configuration to see where a change of the model breaks one).

The theorems about trees hold for every finite tree (`TreeAssumption`: parents
and subtrees fit together, children's subtrees are disjoint) and for BFTCoSi a
root with a child (`RootHasChild`: `startBFT` refuses rosters of one); those
about `Broadcast` for every number of nodes from two on, those about `PBFT` for
every finite set of nodes and any number of lost messages and crashes.

*BFTCoSi.* The safety properties are not inductive: that the signature is
complete depends on every report on its way up. `IInv` adds:

- `LockStep`: which phases a parent and a child can be in together;
- `Announcements`, `RootAnnouncements`, `Commitments`, `Challenges`,
  `Responses`: which messages are under way follows from the phases at both
  ends, and what a response says is exactly the accepting and refusing nodes
  below its sender (`PrepareReport`, `CommitReport`);
- `Verified`, `Stored`, `Outcome`: who has verified, what is buffered and what
  the root ended with, in terms of phases and refusals.

A step moves one node, so that only it, its parent and its children are
affected: the `Move...` lemmas of `BFTCoSiSteps_proofs` say what stays as it
was. There and in `BFTCoSi_proofs` each handler has a lemma. What they need of
counting (a batch as large as the set of children holds a message of each) is a
hypothesis of theirs, `BatchesAreFull`, and proved last, as `CountingBatches`,
from the library's facts on finite sets. `BFTCoSi_proofs` combines all this to
`Invariance`, and from it
`RoundsSeparate`, `SignsIffFewRefusals`, `SignsCompletely`, `NodesAgree` and
`Refinement` (the initial states and steps of `BFTCoSi` are those of
`CollectiveSigning` or stutter). `TypeCorrect` is in `BFTCoSiSteps_proofs`.

*Propagate.* `IInv` says that data goes down once (`DataDown`), that replies
come from nodes that handled the data (`RepliesUp`), that each is in one place
on its way up (`CountedOnce`) and what a result implies (`Result`).
`Invariance`, `RepliesCountedOnce` and `ReturnsFullCount` follow, whatever
crashes and times out.

*Broadcast.* That the mesh is complete when the root's callback runs does not
follow from the counters alone. `IInv` says what they count: `Left(i)` are the
nodes whose Done node `i` still needs (for the root those that are not
connected, still wait themselves, or whose Done is under way), and
`repliesLeft[i]` is their number as soon as `i` was contacted by the root
(`Counters`); `Exchanges` says which messages exclude each other, `Messages`
that contacts go to later and Dones to earlier nodes. `Invariance` has a lemma
for each kind of step; when the root's counter is at 0 nobody is left anywhere
(`NoneLeft`), from which `ConfirmsMesh` and `QuietAtEnd` follow.

*PBFT.* That a node which commits has a quorum behind it depends on where its
messages have been: in the channel, in a buffer, back in the channel, counted.
`IInv` bounds the sum of these places by the number of senders other than the
node, for Prepares (`PreparesAt`) and for Commits (`CommitsAt`), and says which
of them a node has sent given its state (`Phases`). The root is the difficult
one: the goroutines of `PrePrepare` may set it back to `statePrepare` after it
has committed. `PreparesAt` therefore keeps counting the threshold of Prepares
that its Commit used up, and two thresholds are more than the Prepares of all
other nodes (`Quorums`), so that it commits, and calls back, only once.
`MessagesMove` covers the steps that only move messages; `PrepareSent`,
`CommitSent` and `Finishes` the three changes of state. From `Invariance`
follow `CommitsHaveQuorum`, `FinishesHaveQuorum` and `NoPrepareTwice`.

*Gossip.* `Elected` says that every `ValueFound`, on its way or received, carries
what the root's callback got, `ToldDownward` that it comes from a parent that
has it. That nobody stops before its subtree needs what the counter `finished`
stands for: `CountedOnce` says that it is the number of children that are done
and whose `Finished` is no longer under way. `OneElected` and `DoneBottomUp`
follow for every tree and any number of timeouts.

*Skipchain.* A link may reach a server's map from a signing round, from a
propagation, from a reply to a reader, or from disk. `IInv` says of every list
of links in each of these places that its links fit (`Fits`: the block is among
the back-links of the link's target), that a higher link in a signing round is
the new block as soon as one server accepts it (`BFTOK`), and what the leader
of a call has in its map at each stage of the call (`KnowsBackLinks`,
`SignedOK`, `ChangedOK`). Fewer refusals than the threshold mean that somebody
accepted (`SomeoneAccepted`), so that what is added to a map fits. A back-link is
the greatest earlier index of sufficient height (`BackLinkFacts`); that there is
one is shown with a least counterexample. For `LinksOnlyGrow` each lemma of the
form `...Keeps` also shows that the maps grow. The theorems about `Skipchain`
hold for every finite roster, every set of data, base and maximal height as
`verifyBlock` admits them, any number of clients and handlers at once, any
number of calls, and in all scenarios.

`SkipchainAcks_proofs` is about behaviours in which calls of `StoreSkipBlock`
do not overlap and no server restarts, with whatever rounds and requests fail.
That an acknowledged block is everywhere needs to be known of the blocks before
it, of copies of links under way and of the call that adds the next one.
`ChainInv` says:

- `Settled`: an acknowledged block and all before it are at every server, and
  the first link of each leads to the next;
- `MapsKnown`: what any map, reply or request holds is settled or the block of
  the one call that is past its signing round (`InWork`), so that a late copy
  brings nothing new;
- `CallUndisturbed`: a call that adds a block extends the end of the chain
  (`ExtendsEnd`) and sends the new block and, with its link, the block before it
  (`SendsNewest`), and what a server has stored of a propagation is in its map
  (`Delivers`);
- `OneAdds`: there is one such call at most, and none before the genesis block.

There is a lemma `...Chain` for each step; when the last server has stored all
of a propagation its block is settled (`DeliveredSettles`), and only then is
it acknowledged (`ReturnChain`). `UndisturbedInvariance` and
`AckedEverywhereHolds` follow. For `LatestFoundHolds`, `UpdateChainEnds`
unfolds the loop of `GetUpdateChain`: it goes from a block to its last link and
so to a longer one each time, hence it ends (`WalkExists`, `WalkEnds`, again
with a least counterexample), and where it ends there is no link, while every
block before an acknowledged one has a link.

Only model-checked: all liveness properties (out of the prover's reach),
`SkipHeightLoops` (induction over data), `ByzCoinNG` (its queue is a recursive
operator), `HigherLinksArrive` of `Skipchain` (it holds for some heights only,
see section 3), `PBFTLib`, `ByzCoin` and `Ntree`.

## 5. Not modelled

- Group arithmetic, hashing, marshalling and parsing (`crypto`, `blockchain`,
  `vrf.go`, `dleq.go`): pure functions, abstracted to what they are to achieve.
- Drivers that measure: `omniledger/simul.go` and `read_files.go`, `byzcoin_ng2`
  (the ByzCoin-NG service once per shard, with a client that asks all), and the
  setup of the other simulations.
- `Skipchain` with several rosters (`getUpdateBlock`, the shared
  `blockRequests`), parents and children of blocks, the verifiers and the client
  API: all servers of the model share one roster, where these are not called.
- ByzCoin-NG's audit signature (a run of `bftcosi`, which has the text of
  `omniledger/bftcosi`, beside the others) and its propagation of blocks, which
  nothing calls.
- `gossip2.go`, a variant of `gossip.go` with locks that only its test starts.
