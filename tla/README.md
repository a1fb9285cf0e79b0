# BPB Action Mesh: verification project

TLA+ models of the programs in this repository, the TLC runs that check them, and
TLAPS proofs about them. Paths are relative to the root of the repository; the
models were written from the code, and `PROJECT.json` gives for each definition
the lines it stands for.

1. [The system](#the-system)
2. [Modules](#modules)
3. [Runs](#runs)
4. [Time, bounds and fairness](#time-bounds-and-fairness)
5. [Proofs](#proofs)
6. [Where the code and its promises part](#where-the-code-and-its-promises-part)
7. [What is not modelled](#what-is-not-modelled)
8. [Plan](#plan)
9. [Running it](#running-it)

## The system

A GitHub workflow run starts a proxy and a tunnel, and tells a *coordinator*, a
Cloudflare Worker, where the proxy is; clients fetch their subscription there.
Beside the proxy the run starts a *mesh node*, a libp2p process that announces a
signed record of the proxy in a DHT. An *indexer* polls the DHT, verifies the
records, mirrors them to the coordinator and publishes a snapshot through IPFS.
For its own development the repository has tools that test the mesh; what they
measure goes into an append-only *ledger* of events, on which a *CI pipeline*
judges whether the tools contradict each other.

| Part | Code | State | Operations | Talks to |
|---|---|---|---|---|
| Coordinator | `worker/src/index.ts` | keys `mesh:{net}:{node}` and `proxy:{id}` with an expiry, in KV or in a Map of the isolate | `/register`, `/heartbeat`, `/mesh/register`, `/mesh/heartbeat`, `/mesh/deregister`, `DELETE /delete/{id}`, `/sub/{id}`, the lists | called by runner, indexer, panel, clients |
| Runner | `.github/workflows/proxy.yml` | files of the signed record, `EXPIRES_AT`, a loop counter | register, heartbeats, register again after a 404, deregister, cancellation | calls the coordinator, starts the mesh node |
| Mesh node | `node/src/index.ts`, `announce.ts`, `dht.ts`, `record.ts` | the record its protocol handler captured, the heartbeat timer | start, announce, heartbeat, shutdown | DHT, dialed by the indexer |
| Indexer | `node/src/indexer.ts`, `discover.ts`, `snapshot.ts`, `ipfs.ts` | the records of a poll; nothing outlives it | lookup, dial, verify, deduplicate, mirror, publish | DHT, mesh nodes, coordinator, IPFS |
| Ledger | `tools/ledger/src` | a JSONL file; per process a logical clock and a read cache | open, append, correct, load; views: latest by key, replay, causal edges | shared by processes through the file |
| CI pipeline | `tools/ci/ci-pipeline.ts`, `tools/ledger/src/contradictions.ts`, `adapters.ts` | the readings of its tools | ingest, judge, exit | ledger |
| Harness | `tools/harness` | nodes of a cluster, verifications | spawn, verify, verdict | mesh node library |
| Simulators | `tools/sim` | nodes in one process, what each has discovered | create, dial, announce, discover, verdict | DHT |
| Ghost detector | `tools/monitor/ghost-detector.ts` | the results of a scan, a cache of tombstones | scan the DHT, scan a file | DHT |
| Keyspace inspector | `tools/debug/keyspace-inspector.ts` | the entries of a snapshot | count orphans, list, summarize | a file |
| Bootstrap validator | `tools/bootstrap/validate-bootstrap.ts` | the addresses, and which were reachable | resolve, check one after the other, verdict | bootstrap peers, coordinator |
| The rest | tunnel emitter mock, spec validator, logger, panel, shell scripts | none that another part reads back | | |

### What is hard, and what makes each part correct

**Coordinator.** Each handler is a few store operations with an `await` at each,
so requests interleave between any two, and any of them may throw. The two keys
of a node are put one after the other; a heartbeat puts back what it read before
its `await`. Correct means: only verified records are stored, under their own
key; an entry lives as long as its record and not longer than the cap; heartbeats
do not go back; both keys of a node agree; what was deregistered stays away.

**Runner.** Any call may be lost, the store may be emptied, and the job may be
cancelled anywhere: also by a timeout that is as long as its keep-alive loop.
Correct means: what a run registered lapses by itself, what was lost is
restored by the next round, and a deregistration is final.

**Mesh node.** The timer does not wait for a heartbeat, which awaits its
announcement: heartbeats overlap, and one may outlast the shutdown. Correct
means: whoever dials a running node gets a record that has not expired, and the
records do not go back without a reason.

**Indexer.** Time passes, and nodes start, stop and announce, while a poll looks
up, dials, mirrors and publishes; every call may fail, or fail after it was
carried out; the process may restart. Correct means: a snapshot is never older
than it says, shows a node once, and the name points at something that is pinned.

**Ledger.** Every method is synchronous, but several processes may have the file
open, each counting its own clock and caching its own reads, and a write may
fail half way. Correct means: each process sees a prefix of one log that only
grows, its own events included; and, when one process at a time has it open, the
causal edges form a DAG, replay is stable and nothing acknowledged is lost.

**CI pipeline.** The ledger outlives a run, a run judges all of it, and runs may
be aborted half way. Correct means: a run whose own tools contradict each other
fails, and a complete one fails for nothing else.

**Harness.** It is one sequence of awaits over nodes that act by themselves: they
connect, lose each other, fail to start, and carry out a put after the harness has
stopped waiting for it. Correct means: the verdict is about the whole cluster, a
success means records in the DHT, a stale record fails it, and it returns.

**Simulators.** They share their process with the nodes they count, so a node may find
itself; calls of the DHT may take for ever, and one that was given up completes later.
Correct means: a node that was never connected fails the test, and the program ends.

**Observers** (ghost detector, keyspace inspector, bootstrap validator). Each reads one
thing after the other from a world that does not wait, and gives one verdict. Correct
means: the verdict is right about whatever did not change meanwhile, and what is said
twice about the same thing agrees.

## Modules

| Module | Models | How |
|---|---|---|
| `Coordinator` | the Worker | `mesh` and `proxy` are the two families of keys; `req[r]` is the handler that a slot is running, with what it carries across its awaits; an action is one store operation with the code up to the next. `reader` is one list request, which reads its keys one at a time. `gone` and `hidden` are history variables. |
| `Runner` | `proxy.yml`, composed with `Coordinator` | `stage[a]` is the step of the job of an attempt. The job's calls are the actions of `Worker == INSTANCE Coordinator`. |
| `MeshNode` | the mesh node | `announcing[p]` are the heartbeats that await their announcement, `server[p]` the record the handler captured; the DHT's listing, `provides`, is external, and has the key of the node's protocol only, which is the one that is looked up. |
| `Indexer` | the indexer over `MeshNode` | extends `MeshNode`: a step of the mesh leaves the indexer's variables alone, and a step of the indexer those of the mesh (`MeshUndisturbed`). `IndexerInit`, `IndexerNext` and `IndexerSpec` are of the two together; `phase` is where the poll is suspended. IPFS (`pinned`, `ipns`) is external. |
| `LedgerViews` | `clockFromExisting`, `projections.ts`, `replay.ts`, `causal.ts` | pure operators on the sequence of events |
| `SwarmLedger` | `ledger.ts` | `file` is shared; `ledger[p]` is the object of a process, its clock and cache; `torn` says that the file ends in half a line |
| `AppendLog` | nothing: the abstract specification | a log that only grows and a view of it for each process that may be late and is never wrong; `SwarmLedger` implements it (`ImplementsAppendLog`, the view being the cache or, without one, the file) |
| `CiPipeline` | the pipeline, the adapters and the contradiction engine | over `LedgerViews`; a run appends the readings of its tools one by one and judges the whole file |
| `Harness` | `tools/harness` | `pc` is what `runHarness` awaits, `at` the index of the loop it is in, and an action is one await with the code up to the next. `link`, `put` and `held` are the nodes' doing: connections, puts under way, and the values in the DHT. |
| `ClusterSim` | `tools/sim`, both programs | `pc` is the stage of `main`, `todo` and `busy` the nodes it has still to begin with and those it awaits: one at a time in the simulation, all of them in the flood test. `link`, `listed` and `spread` are the nodes' and the DHT's doing. |
| `GhostDetector` | the ghost scanner | `scan` is the await of `scanDHT`; `record`, `buried` and `linked` are the DHT as the scanner could read it now. History variables say which ghosts and tombstones were there all along. |
| `KeyspaceInspector` | the inspector and the scanner over a file | every report is kept with its time |
| `BootstrapValidator` | the validator | an action is one check; `seenUp` and `alwaysUp` are history variables |
| `Observers` | the three, which share the clock | a behaviour is of one of them |
| `MC*` | | constants for TLC |
| `*Proofs` | | theorems, see below |

What is abstracted: a record is its network, its node, `heartbeatAt`, `expiresAt`
and one flag for all checks of `verifyPublicRecord` that depend on the record and
the keys alone; the fields of an endpoint, URLs, formatting, CORS and logging
are left out. The KV store is modelled as linearizable, which the Map is and
Cloudflare's KV is not (it is eventually consistent between locations): the
properties of `Coordinator` are about one location. Its eviction of expired
entries is that of the Map; KV's differs only in keys that nobody can read.
Cryptography and DHT routing are external. `Runner` assumes that the secrets are
set and starts at the calculation of `EXPIRES_AT`: the setup before it only takes
time.

Some definitions come with a mutant beside them (`MutX` before `X`), a plausible
slip in that code. `PROJECT.json` pairs every checked property with a mutant, and
TLC finds the property violated when the mutant takes the place of the
definition: the property depends on the code.

## Runs

| Run | Question | Answer |
|---|---|---|
| `Coordinator_races` | What holds however requests interleave, when any store operation may throw? | what is stored was verified and is under its own key (`OnlyAdmittedRecords`), and lives as long as its record (`MeshLeaseCoversRecord`) |
| `Coordinator_serial` | And when requests about one node are served in turn? | the keys of a node agree (`ProxyMirrorsMesh`), a deregistered node stays away (`DeregisteredStaysGone`) and is in no list requested later (`ListHidesDeregistered`), and a stored heartbeat goes back only by a `/mesh/heartbeat` with a record (`HeartbeatNeverRegresses`) |
| `Coordinator_zombie` | *Does* a deregistered node stay away when requests overlap? | **no**: counterexample |
| `Runner_attempts` | Two attempts of a run, with losses, store failures, an emptied store and cancellation anywhere | everything lapses (`EntriesLapse`), a round restores what was lost (`RoundRestores`), a listed mesh node has its subscription link (`MeshNodeSubscribable`), a deregistration that was answered is final (`ClosedStaysGone`) |
| `MeshNode_overlap` | Announcements longer than the interval | a running node still serves a live record (`ServesLiveRecord`), goes back only when an announcement was overtaken (`ServedNeverRegresses`), and every heartbeat reaches the record server (`HeartbeatReachesServer`, liveness) |
| `Indexer_polls` | Two nodes, one of each protocol, or one node whose process restarts with a new peer id; every lookup, dial and call, and the indexer itself, may fail | a snapshot holds live records until it expires (`SnapshotHonest`), one per node (`OneRecordPerNode`), its name points to a pinned one (`NameIsPinned`), heartbeats do not go back (`SnapshotNeverRegresses`), and a poll finds whoever ran while it lasted and was reached (`PollFindsSteadyPeers`) |
| `SwarmLedger_shared` | Two processes, at once or one after the other; writes may fail half way | at any time `CachesArePrefixes`, and the ledger implements `AppendLog`; as long as one process at a time has had the file open (`alone`), `CausalDag`, `AckedEventsStay` and `ReplayStable` |
| `CiPipeline_serial` | One run at a time over a ledger that an earlier, perhaps aborted run has written | a run's own contradiction fails it (`OwnContradictionFails`), and a complete run fails for no other (`CompleteRunFailsForItsOwn`) |
| `CiPipeline_shared` | Two runs at a time on one ledger | **a contradiction is hidden**: counterexample |
| `Harness_cluster` | A cluster of three, of which node 0, node 2 or none is buried | a verdict is about the whole cluster (`VerifiesWholeCluster`), a success means records in the DHT (`SuccessNeedsRecords`), and it returns (`Returns`, liveness) |
| `ClusterSim_both` | Both simulators with three nodes that lose each other, dials and calls that fail, and DHT calls that never end | a node that never had a connection fails the test (`IsolatedNodeFails`); the simulation always ends, the flood test unless a DHT call hangs (`Ends`, liveness) |
| `Observers_tools` | Each of the three tools while the DHT, the clock or the peers change | a clean scan has missed no ghost that was there all along (`SteadyGhostsReported`), a buried peer is reported only if a get of its tombstone failed (`BuriedAreNoGhosts`), the reports on one file differ only on records that expire in between (`ReportsAgree`), and the validator's verdict is bounded by the peers that were up at some time and all the time (`VerdictInBounds`) |

`TypeOK` of a module is checked in the run of the module that composes it (that of
`Coordinator` in `Runner_attempts`, that of `MeshNode` as a part of `IndexerTypeOK` in
`Indexer_polls`) or in its own; that of `CiPipeline` is proved only.

`ProxyMirrorsMesh` excludes no operation of
`Coordinator_serial`: a heartbeat without record puts back the proxy entry that
was there, also one of `/register`, and then agrees only because the property asks
for a public record in it. `RoundRestores` excludes rounds in which a call failed,
which `disturbed` remembers. `MeshNodeSubscribable` excludes nodes of which a call
failed between its two puts, which `halved` remembers. `Returns` excludes the one await of
the harness that has no timeout, and `Ends` the calls of the flood test, none of which has one. `PollFindsSteadyPeers` is about nodes that were given
`MESH_PUBLIC_KEY_ID`, see below; it excludes those that the lookup missed, whose dial
failed or whose record lapsed before it was verified.

## Time, bounds and fairness

Time is a counter. In `Coordinator` and `Runner` a unit is of the order of the
five-minute grace period, and the configured constants keep the order of the real
ones: 60, 300, 3600 and 7200 seconds, the last being also how far ahead a record may
expire. `Runner_attempts` has `MinTtl < Grace < DefaultTtl < MaxTtl = MaxAhead`; the three
runs of `Coordinator` have `MinTtl = Grace = 1`, below the other two. Nothing is lost by
that: with `MinTtl <= Grace` the floor of the time to live never binds, in the model as in
the code (`worker/src/index.ts:260`), where at least 300 seconds have been added before.
The default, the cap, and records that have lapsed or are too far ahead are all reached.
In `Runner` the life of the proxy equals the timeout of the job, as both are 45
minutes, and a heartbeat period is half of it instead of a ninth.

| Constant | What it bounds | Why it is enough |
|---|---|---|
| `MaxNow`, `MaxTime` | the clock | each entry can expire, and be used after its expiry, within it; `Runner_attempts` has room for two whole jobs |
| `Req` (2 slots) | requests served at a time | the races of the handlers are between two; a third adds no new pair of awaits |
| `Net`, `Node`, `Peer`, `NodeId`, `Key`, `Tool` (1–2) | identities | two where a property compares two; the code treats them alike |
| `MaxEvents` (3–4) | appends | a cycle, a glued line and a stale cache each need two or three events |
| `MaxStart`, `MaxAnnounce` | how long an await takes | in `MeshNode_overlap` the announcement (3) is longer than the interval (2): up to two heartbeats overlap |
| `MaxSetup`, `MaxLosses` | setup before the registration; failures in a behaviour | one loss and what follows it, and a second one during the recovery |
| `MaxRunTime` | how long a pipeline run takes | less than the hard skew, the assumption of the theorem, while the clock goes past it |
| `N` (3), `KillChoices` | nodes of the harness' cluster, the nodes that may be buried | three is the size of the smoke mode, and the smallest with two survivors and a cluster that converges without being fully connected; node 0 is the one the others dial, node 2 the default |
| `Placements`, `Protocol` (`MCIndexer`) | which process belongs to which node, and the protocol of each | two nodes of different protocols, so that a poll has two lookups, and two processes of one node |
| `N` (3) of `ClusterSim` | nodes of a simulation | with three, a node may be connected to some, to none and to all, and the verdict be partial |
| `Addr` (3 that parse, 1 that does not), `Threshold` (50) | addresses to validate | the share of reachable ones is below, at and above the threshold, and rounding matters: 1 of 3, 2 of 4 |
| `Ttl`, `MaxTime` (1) of `Observers` | time while a tool works | records that have expired, expire at once, and expire later; the boundary of the two comparisons |
| `Results` (`MCCiPipeline`) | what the tools report | each rule's readings on both sides of its condition, present and absent |

The theorems do not depend on any of these numbers.

**Waiting.** `Tick` lets no time pass while something is due: a timer in
`MeshNode`, a call in `Runner`. `PromptHandlers` says the same of the coordinator's
handlers in the runs about records that compete; in `Coordinator_races` and
`Coordinator_serial` handlers may take any time. Deadlock is checked in the
coordinator's runs; the others stop when the clock, the events or the runs are
used up, and say `CHECK_DEADLOCK FALSE`.

**Fairness** is assumed three times. `MeshNode!FairSpec`, for `HeartbeatReachesServer`, has weak
fairness of the end of `startNode`, the end of an announcement and the timer.
The code justifies it: `startNode` gives up waiting for peers after ten seconds
(`node/src/dht.ts`), `announceRecord` settles for whatever its calls of
`provide` did (`node/src/announce.ts`), and the timer is `setInterval`. That these calls
end at all is left to the library: `node/src/announce.ts:42-45` passes no timeout of its own. Nothing is
assumed about signals, and nothing that time passes. `Harness!Spec`, for `Returns`, has
weak fairness of `RunHarness`: the poll ends at its deadline
(`tools/harness/cluster.ts:163`), an announcement races a timer (line 205), and a query,
a dial, a start and a stop are calls of the library that end by its own timers, the get of
`tools/harness/verifier.ts:91` too, which is given none. The put
of the tombstone is not among them: it takes a connected peer. Nothing is assumed
of the nodes, which need not connect or carry out any put. `ClusterSim!FairSpec`, for
`Ends`, has weak fairness of the steps of `main`, of the creation of a node and of a
dial, which the library ends by its own timers, and of the timer of `withTimeout`.
Nothing is assumed of the calls of the DHT, not even the timers of the library that
`Returns` and `HeartbeatReachesServer` rely on: the flood test awaits them without a timer,
and a node that waits for one of them for ever is all that `Ends` accepts instead of the exit.
With those timers it would exit always.

## Proofs

All for any values of the constants that satisfy the `ASSUME` of the module:
any number of processes, nodes, requests and runs, any times.

**`CoordinatorProofs`**: `TypeCorrect`, `AdmittedOnly`, `LeaseBound`, and
`LeaseCovers` for heartbeats that leave `expiresAt` out. `OnlyAdmittedRecords` is
not inductive: a handler stores after an `await` what it has verified before. The
invariant `StoreInv` adds that what a handler carries (`FlightOK`) has the
properties of what it will store: its record is verified and under its own key,
and its time to live is below the cap and covers the record. One lemma per
operator on the store (`EvictMesh`, `OneFlight`, …), one per group of actions.

For clients that make their calls about a node one after the other (`SerialClients`),
`HeartbeatOrder`, `DeregisteredGone`, `ListsHide` and, if no store operation throws,
`ProxyMirrors`. `SerialInv` says what a handler may rely on across an `await` when no
other request about its node is served (`InTurn`): the entry it is about to replace is
the one it has compared with or read, if it has not lapsed (`InOrder`); what it is about
to put back is not gone (`Unaware`), and of what is gone neither key can be read, the one
that is still to be deleted excepted (`GoneAt`); both entries of a node say the same
but between the two puts of a request (`MirrorAt`), and a handler that refreshes a record
carries the one that its proxy entry was derived from (`Faithful`). None of the four properties
is inductive: a handler that puts what it read in an earlier step would break each of them.

**`RunnerProofs`**: `TypeCorrect`, `RoundsRestore`, `NodesSubscribable` and `ClosedGone`, and
`Lapse` if the loop does not outlast the life of the proxy and the least time to live is
not longer than the grace period (`Limits`: 45 and 45 minutes, 60 and 300 seconds). All
are for any number of attempts, losses, and lengths of the job. `IInv` starts from
`Alone`: of all attempts only one works or has a call served, so a step is about the
entries of one attempt and of the run (`OneSteps`, `Resting`). Of that one it says which
call is served at which stage (`CallOK`); that a job which has registered finds no config
but its own under the run's id (`OwnedOK`), which is what a heartbeat reads and puts back;
that in an undisturbed round each entry is there, or is being put (`RoundOK`); that the
record and the proxy derived from it lapse together (`PairOK`, with the time to live that is
carried from the first put to the second); and that a deregistration leaves nothing
that could put something (`GoneOK`). `LapseInv` adds the clock: where in its life a job is
(`TimesOK`) gives that nothing is asked for once `EXPIRES_AT` has passed (`AskedOK`), so that
no entry is given the default life, and each is kept within its bound (`KeptOK`).
`SerialClient` says that every step of `Runner`, the loss of the store excepted, is one of
the coordinator whose clients wait for their answers, although the model lets the job
call at any time: the attempts of a run meet the assumption of `HeartbeatOrder` and
its like (`Quiet` follows from `Alone`).
`Runner` assumes for these proofs that `null` is none of the networks, ids, times or entries
(`RunnerAssumption`, `EntryAssumption`).

**`SwarmLedgerProofs`**: for any processes at a time, `TypeCorrect`,
`CachesCorrect` and `Refinement` (`Spec => ImplementsAppendLog`, with a lemma that
each view stays or catches up). For one at a time, `ReplayIsStable`, `AckedStay`,
`LatestIsLast` and `CausalIsDag`, each of the part of a behaviour up to which nobody
opened the file beside another (`alone`), from `OneInv`: the logical times increase along
the file, the open process' clock is not behind them, and nobody has the file
open after half a line was written. Every causal edge then goes forward in the
file, and each set of events has a first one.

**`IndexerProofs`**, about the mesh node: `TypeCorrect`, `ServesLive`, if a record lives
longer than two announcements (or the start and one) and an interval, and
`ServedInOrder`. `Chain` is the invariant behind `ServesLive`: from the served record to
the timer there is a chain of heartbeats in flight, none further apart than an
interval. `Spaced` is behind `ServedInOrder`: heartbeats in flight, and the served one,
are at least an interval apart.

About the indexer over it: `IndexerTypeCorrect`, `SnapshotsAreHonest`, `NodesAppearOnce`,
`NamesArePinned` and `PollsFindSteadyPeers`, for any processes, nodes and protocols of
the nodes, times, and failures. `PollFindsSteadyPeers` speaks of the end of a poll only. Its
invariant `SteadyOK` follows the record of a steady process through the phases: the
process is still to be dialed, or has answered, or a record of its node is among those
verified or kept. `RecordsOK` says that the records kept are of protocols the poll is
done with, so that deduplicating each protocol apart is enough: a node has one
protocol. `StoreOK` carries the expiry of a snapshot, the least of its records'
(`LeastExpiry`), to the IPNS name.

`SnapshotsInOrder`, if announcements are shorter than the interval: what is published
never goes back. `OrderInv` adds to `Stages` and `Spaced` that a process serves nothing
newer than what it is still announcing (`ServedFirst`, which is where the assumption is
needed: one heartbeat is announced before the next begins), that no record on its way or
published is newer than what its process serves (`NoneNewer`), and that those on their way
are not older than the published one (`ShownFirst`): the records of a poll are fetched
after the last poll has published.

`MeshUndisturbed`: `IndexerSpec` implements the specification of `MeshNode`, step by step.
What is proved of the mesh node alone holds while it is polled, and the indexer's proofs
use its invariants.

**`CiPipelineProofs`**: `TypeCorrect`, and `ContradictionFails` and `FailsForItsOwn`
for one run at a time, each shorter than the hard skew. `SerialInv` says of a run
that is ingesting: every reading of its tools is still to be appended or is the
latest event of its key and not older than the run; and every reading to be
appended is one of its tools.

**`HarnessProofs`**: `TypeCorrect`, `WholeCluster`, `StaleFails` and `SuccessRecords` for a
cluster of any size. `HInv` says where in its loops the harness is, that what has been counted stays
below the index of the loop that counts, and that only nodes that are up are connected.
`ConvergedIsWhole` is the heart of it: a node that reports `N - 1` peers has them among
the nodes that are up and is not one of them itself, so all `N` are up. `SuccessRecords`
rests on a count: each query of the discovery that found something asked for a node under
whose key the DHT holds a record, and the queries made so far that ask for a given node
(`Asked`) are at most `N - 1` (`CountOK`). A score of a half then takes half of the
nodes to have published.

**`ClusterSimProofs`**: `TypeCorrect` and `IsolatedFails` for any number of nodes. `CInv`
says that a node that has never had a connection has found nobody and counted zero, and
that the discovery has counted every node it is done with.

**`ObserversProofs`**: `TypeCorrect`, `GhostsReported`, `BuriedNotReported`, `OfflineAgree`
and `VerdictBounds` for any peers, addresses, thresholds and times. For the scan, the
invariant says of each steady ghost that it is in the results, or is being read, or its
peer or protocol is still to come. For the two offline tools each report is the function
of the file and its time that `ReportsAgree` compares. For the validator, what was
reachable lies between the two histories, and the exit code falls as the number of
reachable peers grows.

Each safety invariant and each action property that a run checks is stated by a
theorem. Only model-checked are the liveness properties `HeartbeatReachesServer`,
`Returns` and `Ends`: the proof system does not reach liveness under fairness. The two
runs that end in a counterexample are the other side of two theorems' hypotheses:
`Coordinator_zombie` of `SerialClients`, `CiPipeline_shared` of one run at a time. Only
proved, and in no run: `MeshLeaseBounded`, `LatestIsLastAppended` and `StaleRecordFails`.
Out of reach as well is induction over data, but no model needs a recursive definition,
since `latestByKey`, replay and the clock are stated by what they return.

## Where the code and its promises part

Two of these are runs that end in a counterexample; the others were met while
modelling and are described here. What a passing run checks is stated so that it
holds for the code as it is.

*Coordinator*
- A `/mesh/heartbeat` that read the record before `/mesh/deregister` deleted it puts
  it back (`worker/src/index.ts:740`; `README.md:257` says the record is removed).
  Run `Coordinator_zombie`.
- "Reject if … heartbeat regresses" (`docs/SPEC-V3-ANIMAMESH-BACKEND.md:596`) is done
  by `/mesh/register` only: a `/mesh/heartbeat` with a record is put without a look
  at the stored one (line 711), and two registrations that overlap both pass the
  look (line 660).
- A heartbeat within the grace period after `expiresAt` gets the default life of an
  hour (line 737), where the SPEC wants the expiry of the entry to match
  `expiresAt` "with a small grace buffer" (line 398).

*Runner*
- `timeout-minutes` is 45 (line 41) and so is the loop (90 sleeps of 30 seconds), so
  with any setup time the job is cancelled before it deregisters (line 551). The
  entries lapse by themselves, which `EntriesLapse` shows.
- The proxy entry derived from the mesh record is restored only when the mesh
  record is lost too (line 530). `gha-{run id}` is not deregistered at all.

*Mesh node*
- A heartbeat that is awaiting its announcement when the process is told to stop
  starts the record server again (`node/src/index.ts:249`), against "graceful
  shutdown" in the header (line 16); until the process exits, the node serves.
- When announcements take longer than an interval, the record served may go back
  to an overtaken one; `ServedNeverRegresses` says exactly when.

*Indexer*
- Without `MESH_PUBLIC_KEY_ID` a node signs its record with an empty key id
  (`node/src/record.ts:56`), though it computes one (`node/src/index.ts:178`), and no
  indexer verifies it.
- `mirrorToWorker` posts the record itself (`node/src/indexer.ts:135`), and the Worker
  wants it in a field `record` (`worker/src/index.ts:652`): it answers 400.
- A poll keeps no memory of the last one. When heartbeats overlap, the published
  snapshot may go back. `Indexer_polls` has announcements shorter than the interval.
- Reading from a dialed peer has no timeout, and a signature that cannot be decoded
  gives the whole poll up (`node/src/discover.ts:115,224`).

*Ledger*
- With two processes that have it open, logical times repeat and go back along the
  file: the causal edges may form a cycle (`tools/ledger/src/causal.ts:2` calls them a
  DAG) and a later append may change a replay. After half a line, a process that
  still has the file open glues its next line to it, and loses that event.

*CI pipeline*
- Two pipelines that share a ledger hide each other's contradictions. Run
  `CiPipeline_shared`.
- The tunnel rule ignores how far apart its readings are, unlike the rule for peer
  counts; a claim of a clean state is never taken back (`tools/ledger/src/adapters.ts:76`),
  so drift is reported for a claim of any earlier run; and what `getDHTState` shows
  may be an old event (`tools/ledger/src/projections.ts:90,103`).

*Harness*
- It imports `createDHTNode`, `announceProxyConfig` and `publishTombstone`
  (`tools/harness/cluster.ts:1-2`, `runner.ts:8`), which `node/src` no longer exports: its
  tests replace them by mocks, and outside of them it does not load. `Harness` models it
  with functions that do what it expects of them, and no peers from outside the cluster.
- A node that does not start is a "non-fatal" error (`cluster.ts:153`) after which the cluster
  "continues" (`cluster.test.ts:251`, where each mock has three peers in a cluster of two). No
  node then has the `nodeCount - 1` peers that convergence asks for, and the spawn
  throws: `VerifiesWholeCluster`. It then does not stop the nodes that did start.
- Finding the tombstone marker is as good as finding nothing by the comment at
  `verifier.ts:112`, yet it halves the score, so that the verdict is at most YELLOW. A
  tombstone that could not be published at all leaves the score at 1.0
  (`runner.ts:72,115`), and the verdict may be GREEN.

*Simulators*
- "All nodes discovered each other" (`tools/sim/dht-cluster-sim.ts:271`) may be said when no
  node found any provider: the count then is that of the connected peers (line 200).
- The flood test awaits every call of the DHT without a timeout
  (`tools/sim/peer-flood-test.ts:148,164`) and may never end: `Ends`.

*Observers*
- The ghost scanner asks only for peers it is connected to (`tools/monitor/ghost-detector.ts:214`);
  its header (lines 6 and 10) promises expired peers and a scan of the keyspace. A peer that has gone, which is
  what leaves a ghost, is seldom connected. `SteadyGhostsReported` is about connected peers.
- Nothing in `node/src` puts records under the keys that the scanner and the inspector read,
  nor tombstones. The inspector's live mode asks for the three prefixes themselves
  (`tools/debug/keyspace-inspector.ts:562`), so it reports an empty keyspace.
- A record at the very millisecond of its `expiresAt` is expired for the ghost scanner (line 98)
  and not for the inspector (line 350), whose list and summary may show an orphan that its exit
  code does not know of.
- The validator exits with 0 when the threshold is met, half of the peers by default, where its
  header says "0 = all peers reachable" (`tools/bootstrap/validate-bootstrap.ts:9`).
  `--coordinator` adds no peer: `/bootstrap/peers` answers with an object, and the entries of
  `/proxies` have no multiaddr.

## What is not modelled

- **Tunnel emitter** (`tools/mock`): a test double for `cloudflared` that the programs do not use.
- **The harness' entry point** (`tools/harness/index.ts`): it reads options, prints the
  result and exits with its success.
- **Spec validator, logger**: texts compared with texts, and text printed.
- **Panel, its server, shell scripts, the other workflows**: input and output.
- **Of the modelled parts**: subscription formatting, `n2n` and bootstrap endpoints,
  authentication (one guard before each handler); key loading and the
  configuration of the mesh node; the filters of `replay`, `getAncestors`, the stats
  and the reports of the ledger; the rule node-liveness-consistency, which wants two
  latest events of one key and can never report.

## Plan

Done, in this order: `Coordinator`, `SwarmLedger` with `AppendLog`, `MeshNode`,
`Indexer` over it, `CiPipeline` over the views of the ledger, `Runner` over
`Coordinator`, `Harness`, `ClusterSim`, the observers, and the proofs above.

Next, proofs: the coordinator's theorems for a store that may be emptied, so that with
`SerialClient` they hold of whole runs.

Next, models: the poll of the indexer with dials that never end (`node/src/discover.ts:115`),
for which `FetchRecord` has to be allowed not to happen and the poll's liveness to be stated.

## Running it

    tlc -workers 4 -config Coordinator_races.cfg MCCoordinator
    tlapm CoordinatorProofs.tla

Each run takes less than two minutes on four cores. `PROJECT.json` lists, for each
run, its module and its `.cfg`.
