# A TLA+ model of the OpenNMS benchmark lab

The repository builds a benchmark lab for OpenNMS (Terraform and Ansible),
drives it with the nl6 traffic generator and measures it with experiments and
campaign scripts. A benchmark is worth what its numbers mean: nearly every
comment in this code is about a number that would have been wrong in silence.
This project models the parts that decide whether a number is the measurement
it claims to be, and checks and proves what they promise.

## 1. The system

| Part | Code | State it keeps | Operations | Talks to |
|---|---|---|---|---|
| nl6 scenario driver | `deployments/roles/nl6_loadtest/files/nl6_loadtest.py` | the scenario of the run, the report, a JSON sidecar, the exit status | submit, arm, start, sleep, stop, report; discard on failure | nl6's HTTP API; read by the experiments |
| nl6 (external) | not in the repository | scenarios in memory, one active | serves calls, closes windows by itself, forgets on restart | |
| Kafka report | `deployments/roles/kafka_metrics_report/files/kafka_metrics_report.py` | bounds per partition, counts, a sidecar for `--replay` | capture bounds, clamp, read, report | a Kafka topic that is written to and expires |
| fault-management sweeps | `experiments/fm-syslog`, `experiments/fm-snmptrap` | results by rung, the reference, the ledgers in `/tmp` | background, reference, one rung per rate, corroboration | the driver above, the events table |
| knee search | `campaigns/pm-snmp-agent-latency/results/bin/knee_search.py` | fleet size, log and result files | grow, provision, reconcile, repair, measure | nl6's devices, OpenNMS's requisition and database, Prometheus |
| pool sweep | `.../pool_sweep.py`, `rung_threads.py` | the collectd configuration of the Core, its backup and a systemd drop-in; rows | edit, restart, wait, measure, stop rule | the Core over ssh, Collectd, Prometheus |
| fleet climbs | `campaigns/pm-snmp-latency/results/bin/edge_search.py`, `fleet_sweep.py` | the fleet, the injected latency, rows | clear, grow, provision, settle, measure | nl6, OpenNMS, Prometheus |
| latency runbook | `.../runbook_exec.py`, `durations.py` | files under `/tmp` by phase, rows | shape, two reports around a window, pair the collections of the log | the Kafka report, `tc`, the log of the Core |
| flow emission analysis | `campaigns/nl6-flow-emission-shape/*.py` | none: reads a capture and a report | decode, loss, ticks, reconcile | tcpdump's capture, nl6's report |
| collection closure | `validate-collections.py` | none: reads the manifest and the installed tree | resolve, compare, exit status | `ansible-galaxy`, Renovate |
| deployment | `deploy.sh`, `check-base-image-pin.py`, the kvm compute module | Terraform state, inventory, manifest | guard, apply, discover, apply, playbooks, manifest; destroy | Terraform, Ansible |
| thread sweep | `experiments/pm-scan-threads` | facts of a play | quiet gate, rescan, deadline | Provisiond |
| provisioning | `experiments/roles/opennms_requisition`, `roles/nl6_fleet`, `experiments/inventory/*.sh` | requisition (pending, imported), nodes, interfaces | create the fleet, upload, import, wait for the scan | nl6, OpenNMS |
| topology | `terraform/modules/topology`, `deployments/bin/topology-descriptor.py` | none (pure) | expand a topology into hosts, groups, disks | the provider roots |
| the rest | validators, renderers, site playbooks, provider roots, other campaigns | none, or files written once | | |

### How the parts interact

* An experiment (`fm-syslog`, `fm-snmptrap`, the pm ones) runs `nl6-loadtest` on
  the simulator host once per rung. The two share nothing but a file in `/tmp`
  (the JSON sidecar, named after the rung's label) and the exit status.
* Every driver talks to the same nl6, which admits one active scenario for the
  whole fleet. Two experiments, a retry after a kill, or an operator with `curl`
  therefore meet there; nothing else coordinates them.
* The report on Kafka and the experiments read the same topic that OpenNMS
  writes, while it writes and while retention deletes.
* The campaign scripts grow the fleet in nl6, hand it to OpenNMS as a
  requisition, and only see the result through counts in the database; OpenNMS
  imports, scans and deletes in the background.
* `deploy.sh` writes the inventory and the endpoints file that every play reads.

### What is hard

* **Concurrency without a lock**: drivers at one nl6; producers and retention
  beside a reader; imports, scans and deletions beside a search.
* **Calls without an answer**: an HTTP call or an ssh that times out may have
  been carried out, may be carried out later, or never.
* **Restarts**: nl6 keeps everything in memory; a driver may be killed; a search
  is started again over what the last one left.
* **State that outlives its run**: `/tmp` ledgers, the sidecar of a report, an
  inventory, nodes of an earlier fleet.
* **Results dropped or suppressed**: a Boolean nobody reads, `failed_when: false`,
  an exit status with two meanings.

### What makes each part correct

| Part | Correct when |
|---|---|
| scenario driver | a run that let go of its scenario left nl6 free; no run cuts another's window short; a finished ledger is not destroyed; exit 0 is a true statement about the ledger in the sidecar; nl6 is not blocked in silence |
| Kafka report | what is counted lies within the printed bounds; a report without warnings counted every record retention spared; a replay counts the same records; a report ends |
| fm sweeps | the reference is the least loaded rung, delivered what was asked of it and carries a signal; its repeat is a second measurement at the same rate; a ledger belongs to one rung; an unsound baseline is said to be unsound |
| knee search | a window opens on the fleet it is named after, and that fleet is scanned; the knee is one step above a rung that passed; the repair deletes only what the race hit; a search ends |
| pool sweep | every row was measured under the pool it names; the ceiling is the largest pool that completed; what breaks the configuration leaves a copy of it; a sweep ends |
| fleet climbs | a settled fleet is the rung's, in nl6 and in OpenNMS; nothing is climbed past a rung that did not pass; a climb ends |
| latency runbook | a row counts the samples between its two reports and the collections of its own window, each once |
| flow emission analysis | the verdict on a ledger is right; loss within the capture is seen, device by device; a silent tick is counted |
| collection closure | exit 0 if and only if the tree is the declared closure |
| report of the samples | the timelines hide no stall and lose no sample; the node count is of the records whose samples count |
| deployment | a play reads the inventory of this provider and these hosts, with the jump host; a run that ended well put the right stack on them and the manifest describes them; no apply takes the base image from under a lab |
| thread sweep | only scans of this rung are counted in this rung |
| provisioning | the nodes waited for are the nodes imported; a retry over a partial state converges |
| topology | groups, hosts and disks of the plan agree; no two hosts share an address |

## 2. The modules

| Module | What it is |
|---|---|
| `Nl6` | the scenario API of nl6, external, as its one caller uses it |
| `LoadtestRun` | abstract: what the caller of `nl6-loadtest` can observe |
| `Nl6Loadtest`, `MCNl6Loadtest` | `nl6_loadtest.py` over `Nl6`, several drivers; implements `LoadtestRun` |
| `FmSweep`, `MCFmSweep` | the fm plays; takes the outcomes of a load from `LoadtestRun` |
| `KafkaReport` | `kafka_metrics_report.py` with its topic: which records are counted |
| `SampleReport`, `MCSampleReport` | the same program: what it says of the records it counted |
| `Series` | sums and sorted lists, as `SampleReport` and `WireLedger` use them |
| `KneeSearch` | `knee_search.py` with what it sees of nl6 and OpenNMS |
| `PoolSweep` | `pool_sweep.py` and `rung_threads.py` with the Core they edit |
| `FleetClimb`, `MCFleetClimb` | `edge_search.py` and `fleet_sweep.py` on one nl6 and one OpenNMS |
| `LatencyRunbook`, `MCLatencyRunbook` | `runbook_exec.py` and `durations.py` with Collectd and `/tmp` |
| `WireLedger`, `MCWireLedger` | `analyse-pcap.py` and `reconcile-report.py` over the run they judge |
| `CollectionClosure`, `MCCollectionClosure` | `validate-collections.py` over the edits people make |
| `Deploy` | `deploy.sh` with the base image of the kvm compute module |
| `Nl6LoadtestProofs`, `KneeSearchProofs`, `DeployProofs`, `ReportProofs`, `PoolSweepProofs`, `FleetClimbProofs`, `LatencyRunbookProofs`, `FmSweepProofs` | theorems |

### Nl6, Nl6Loadtest, LoadtestRun

nl6 is not in the repository. `Nl6` has one action per call of its scenario API,
enabled exactly when nl6 accepts the call, as the driver and its README state it:
one active scenario at a time, an idempotent stop, no DELETE of a running
scenario, a ledger that is final once the scenario is closed, memory that a
restart empties. Where the repository does not say what nl6 answers (a stop
before the start) both answers are possible. `phase` is what nl6 knows of each
scenario; a summary is an element of the constant `Ledgers`.

In `Nl6Loadtest` each driver has a program counter whose values are the calls of
`run_scenario` (submit, arm, start, the sleep `wait`, stop, report),
`discard_scenario` (`discardStop`, `discardDelete`) and the end of `main`
(`write` the sidecar, `exit`). A call ends in one of three ways, which is all
`api()` distinguishes: accepted; refused, which raises; or without a reply, in
which case it joins `late` and nl6 may carry it out at any later time or never.
The boundary of the try block is the one of the code: submit is before it, so
`SubmitFails` cleans up nothing; arm, start, the sleep and stop are in it, so
`TryFails` goes to the discard; the report fetch is after it, so `FetchFails`
leaves the scenario alone. `ExitStatus` is the order of checks at the end of
`main`: the ledger identity first (exit 2), then what fell short (exit 1). A
`--rate-profile` run skips the comparison with rate x window, hence `Profiled`.
`fate` is a history variable: how the run that owned a scenario let go of it, and
what its operator was told.

`LoadtestRun` is what an experiment relies on: a run begins, writes the sidecar
at most once while it is running, and ends with one of seven (status, sidecar)
pairs; there is no exit 0 without a sidecar. `Observed(d)` is the refinement
mapping and `RunsAsObserved` says every driver implements it. `FmSweep` draws the
outcome of its loads from the same `Outcomes`, so what is assumed there is what
is checked here.

### FmSweep

One variable per fact of the play, one action per task that may change one or
fail: the assertion on the rates, the idle measurement, then for each rung probe,
load, probe, record (`rate.yml`), and around them the reference, the corroboration
and the verdict (`experiment.yml`). `files` is `/tmp`: it is not reset when
a play begins. A ledger carries what was sent and what was asked of its own run: `Offered(n)` is
rate x window x the n devices the load has armed, which may be fewer than the play meant to load. `RungRecord` takes
both numbers from the file it finds, so a file of an earlier play brings that play's rate, window (drawn anew
by each `Begin`) and devices into the checks. `by` and `armed` in the rows are history: who wrote the ledger, and of how
many devices it is. What the system under test delivers is free: `raw` is any number up to `MaxRaw`.
Ansible's rules are part of the model: `failed_when` takes the place of the task's
verdict in the registered variable (`Registered`), and a killed process has a negative
status, which `rc > 1` lets pass. The two experiments are the same play but
for names. Ratios are compared over a common denominator in integers.

### KafkaReport

`low`, `high` and `gaps` are the topic; `CaptureBounds` is one turn of the loop of
`bounded_slice`, and partitions are written to and expire between two turns.
`Poll` hands over any record the consumer may get next: from its position, or from
the oldest record when retention passed the position (`auto.offset.reset`
earliest), unless the record had been fetched before. The test of one record (in
`remaining`, below the partition's end), the removal of a partition at `end - 1` and
its pause are the code's. `counted` is history: which offsets the number `records`
stands for.
### KneeSearch

Everything is counted in blocks of 250 devices, the /24 that one POST creates: octet o
stands for its devices in nl6 and its nodes in OpenNMS. A node is absent, queued
for its scan, scanning, raced (lost to the import race: no scan will come) or scanned. `found` is how many SNMP interfaces
the database holds of an octet's nodes: a scan writes some, none, or more than the devices are to
have, and a deletion takes them away. `others` are the interfaces of nodes outside the fleet's requisition, which
come and go by themselves. The search sees three counts, `active`, `unscanned` and `ifs`, and `wait_scans` decides
by them alone. The first two are of the fleet's requisition; `ifs` is one sum over every node of the database
(`knee_search.py:99` has no filter), compared with the fleet times `PerBlock`. Its
actions follow the script: `ReadFleet`; `Posted`/`PostFails` per POST with the retry
counter and the final FATAL; `Provision`, which imports or silently does not; `Poll`
and `PollUnread` per row; `DeleteUnscanned` and `Reimport` for the repair; `WaitQuiet`;
`Measure` with the pass or fail of a window as a free verdict; `Dies` for an uncaught
exception at any point (the 120 s limit of ssh is below the 180 s of curl).
A search may be begun again over what the last one left. `Nl6Restart` empties
the fleet; `lost` remembers that it did so under a search.

### SampleReport

The body of the loop of `consume` has four ends, one action each: `Undecodable`,
`NothingNumeric`, `LeftOut` (a time is missing) and `Counted`. A record is its two times
and its resources, of which only the shape, the node and the number of numeric
attributes matter. `errors` is the set of warnings, the counts behind them are not kept.
`Timeline`, `MeanRate` and `ExitStatus` are `timeline`, the rate of `summarise` and the end of
`main`, as operators: times are in seconds, and the rate of a bucket is its count, the
division by the width being the same for all.

### PoolSweep

The Core is the configuration file and its backup, each as the pool it sets or
`Damaged`, the drop-in of `prepare_jvm` (`absent`, `written`, or `loaded` by systemd), and what the
running JVM read when it started. `set_threads` is three actions, because the script it sends
can end between them: `Backup` (the copy), `WriteFile` (`open(p, 'w')` empties the file first)
and `Lint` (`xmllint`, which puts the backup back). `sh` returns the output and drops the status, so
`Restart` may do nothing and the run goes on as long as an OpenNMS answers. `Measure` is
`snapshot` and `measure` with the gauges reduced to what they decide: whether the rung
passes, whether a limit of the host is hit, and the throughput, of which `LowGain` and the
ladder follow the code. `rung_threads.py` is the same up to the window (`single`). `CoreReboots` and `Killed`
may happen anywhere. `rows` carry the pool that was really running, as history.

### FleetClimb

One program counter for both programs, which share every step but the first and the
stop rule. `late` holds the calls nl6 may still carry out, the DELETE included. `ImportBegins` is
`prov.sh`, started in the background; `Import` adds and deletes nodes one at a time. A reading
may be lost: of nl6's total (-1), of the services (0), of the import (taken for idle).
`SettleRow` is one row of `settle` with its hold counter; what settle returned is kept in
`settled` although edge_search drops it. `Windows` is what `measure` can find; `Completes` is
edge_search's reading of a series that is not there, `Knee` is fleet_sweep's.

### LatencyRunbook

The log of the Core is the clock: the number of a line is its time, and the end of the topic
is the number of collections that have ended. `base`, `side` and `start` are the files under
`/tmp`, named after the phase; no run removes them. `BaseReport` and `WindowReport` may fail
without anyone reading their status; `opened` and `closed` are history, the end of the topic when they did not.
`Durations` is durations.py as runbook_exec.py calls it: two files, the backfill and the capture, read one after the
other into one map of open begins and one *list* of durations. Each file holds some stretch of the log (`Stretches`)
or cannot be opened; the two may overlap or leave a gap, and a call that fails is two files with nothing in them: the row is
appended all the same. `Pairs` is one line of `parse`: outside the window it is not seen, a repeated begin replaces the one
before, an end without a begin is skipped. A row remembers which lines were read (`seen`) and whether that was line
by line, none twice and none skipped (`inOneGo`). A restart of OpenNMS (`CollectdRestarts`) is what leaves begins
without an end.

### WireLedger

The run is the behaviour and the programs are operators of its state, so that their
conclusions are judged after every datagram. `Export` sends one datagram of a device, with or without data, with
the template when it is due, as one frame or as fragments; the capture may lose any part, and
nl6 may book it to another device, to the device or the fleet alone, or not at all. The ledger has the fleet's
`total` beside the devices' `in_window`, as the summary has, and nothing makes them agree. `Datagrams`, `DataRecords`, `TickGroups`, `Missing` are
`analyse-pcap.py`, `InWindow`, `InDrain`, `Mismatched`, `Exact` are `reconcile-report.py`. What they are compared with
(`RightLedger`, the busy ticks) is computed from `sent`, without sequence numbers,
headers or fragments.

### CollectionClosure

The behaviour is what is done to the tree: an entry added or removed, a collection installed or
removed, the pin of ansible-core moved. The program is `Declared` (the manifest, then the git entries resolved while
walking the installed tree), the four sets of findings, and `Satisfies` for constraints.
`Closed` states the docstring's promise without any of that: versions as infinite sequences of numbers that end in
zeros, entries by what they refer to.

### Deploy

One program counter per provider, since runs on two providers may overlap in one
checkout; on one provider one run at a time is modelled. Its values are the
commands that leave something behind: `guard` (the pin check and the cost profile, both
asked of `terraform console`), one apply in its three stages `base`, `disks`, `prune`,
`discover`, then the three playbooks; or `destroy` and `cleanup`. `set -e` makes each of
them a place to stop: `Fails` ends the run with what the command had done, and the next
run begins over that. The lab is `bases` and `disks` (image tags), `hosts` (the topology
they were last converged to) and `stack`; `inventory` and `manifest` are files
that record of what they were rendered.

The stages of an apply are Terraform's order for the kvm module: the new base volume
first, then the OS disks, and what is left over at last, because the base has
`create_before_destroy`; a disk whose backing file changes needs an in-place update, which
the libvirt provider refuses. The generated inventory depends on none of them and may be
written at any stage. After an apply `AfterApply` asks Terraform for the two outputs the discovery of the jump host
needs. `tf_output` gives nothing when the output cannot be read, and then the discovery and the second apply are
skipped as if the topology had no jump host: `jump` is "unread", which no warning tells ("missing" is the discovery
that was tried and warned). `Applied` is the value an apply uses (the extra arguments come
last), `resolved` the one the console answered, and a console that fails answers
nothing, which skips the guard with a warning. A pin is its tag, or `Floating` for a pin
the module's precondition rejects.

## 3. The runs

| Run | Bounds | Shows |
|---|---|---|
| `nl6_loadtest` | 2 drivers, one of them with a profile; 2 scenarios; 1 device; 1 late call; 3 summaries | all of section 2's promises of the driver, and that it implements `LoadtestRun` |
| `fm_sweep` | 2 plays with a window of 1 or 2; 4 rate lists of up to 2 rates; 1 or 2 devices armed per load; counts up to 8 | what the reference was asked and delivered, its repeat, and the ledgers read |
| `kafka_report` | 2 partitions of 2 offsets, 1 gap, 2 reports | counts, clean exits, replays, the end of a report |
| `sample_report` | 4 records of 14 kinds, width 2, 4 dense buckets | the timelines, the nodes and the exit status |
| `knee_search` | rungs 1 and 2 of blocks that hold 2 interfaces, of which 0 to 3 are found; 0 or 1 elsewhere; 2 attempts, 3 rows, 1 late POST, 2 searches | the fleet a window opens on, the reconciliation, the knee, the end of a search |
| `pool_sweep` | pools 1 to 3, doubling or by one, throughput 0 to 2, 2 runs | the pool of a row, the ceiling, the backup, the end of a sweep |
| `fleet_climb` | fleets of 1 to 3 octets, a sweep of 2 rungs, 2 attempts, 2 polls, 1 late call, 2 runs | a settled fleet, where a climb ends, that it ends |
| `latency_runbook` | 2 phases, 2 services, a log of 4 lines, two files of any stretches of it, 2 runs | the samples and the collections of a row |
| `wire_ledger` | 2 exporters, up to 4 ticks, 2 faults | the verdict, the loss seen, the silent ticks |
| `collection_closure` | 3 collections, 8 entries of which 3 at once, 7 versions, every operator | exit 0 against the closure |
| `deploy` | kvm and aws, 2 deployments (one with a playbook and without a jump host), 2 images and a floating pin, 3 runs | the inventory and manifest read, the base image, the stack |
| `knee_unscanned_window` (violation) | as `knee_search`, 4 rows, 1 search | section 6 |

Why these bounds are enough to be interesting:

* *Driver.* The promises are about one run meeting another and about one call
  carried out late. Two drivers and two scenarios give every pairing: a scenario
  and its successor, a late DELETE of the one while the other runs. One late call
  reaches every place a reply can be lost; the proofs are for any number. The three
  summaries are one for each exit status; a device count of one with zero or one
  armed separates "none armed" from the rest. Each driver may run again and again,
  until nl6 has handed out both scenarios; after that submit calls only fail.
* *fm sweep.* Two plays are what it takes to read an old file, and two windows make that file one of
  another size. The lists are: ascending, a repeated rate, descending, too short. Two loads that arm one and two devices
  ask for different numbers at one rate. A load sends nothing, all, or one message less, which is under the 90 percent
  at these sizes: both sides of the delivery threshold. One event with a background of 0 or 1 is both sides of the floor.
* *Kafka.* Two partitions so that one is done while the other is not, which is where
  the per-partition bound matters; two offsets so that a bound can lie
  before, in or after the records; one gap so that the last offset of a slice can
  hold no record; two reports so that one is a replay.
* *Knee search.* A first rung and a second one a coarse step above it; the fine step leads past the cap. Two
  attempts and two rows without progress separate the first
  from the last, three rows leave one for the repair. Two searches: one that died and
  the one that goes on from what it left. Two octets of two interfaces, where one may hold too many and the other
  too few with the sum of a whole fleet, or the interface of another requisition make up for one that lacks. A rung of
  two POSTs was checked with one interface per block (rungs 1 and 3, 2.4 million states); the proofs are for any ladder.
* *Samples.* A bucket edge, two buckets, a gap and an absurd time need stamps up to ten
  buckets; a stall is two records; polled, collected and unreadable resources in any
  order are three. Four records leave one to meet them.
* *Pool sweep.* Three pools are a first, a middle and a last rung, by doubling (1, 2, past the cap) or one
  by one; a throughput of 0, 1 or 2 gives no gain, a gain and a loss. Two runs: the second begins
  over the file, backup and drop-in the first left.
* *Fleet climb.* Three fleets: the first, one beyond it and the one past the cap. One late call is the DELETE or a
  POST, never both, which is the one bound here that is known to hide interleavings; the
  properties were also checked once without that bound on two fleets. Two readings
  of each kind separate a first from a last one; a hold of one row is the weakest settle.
* *Runbook.* Two phases of one tag each, run twice, are what reads an old file. Four lines are two
  collections in the window, or one before or across its edge and one in it, or a begin left by a restart and a
  collection of the same service; the two files may overlap, miss or cut any of them.
* *Wire.* Two exporters with different bursts at different moments of a tick: pooled counters, opposite errors
  and the two edges of the window need no more. Loss between two captured datagrams needs three ticks, a silent tick within them four.
* *Closure.* One dependency under every operator, on versions of one to three numbers, a repository with two
  collections, and three entries: a duplicate, a missing and a superfluous one can meet.
* *Deploy.* kvm is the provider with a jump host to discover and an image pin, aws the one
  with neither and with a cost profile; both read the deployment. A half-applied bump takes
  one run to build the lab, one to fail in the disks with the guard skipped,
  and one to meet what they left: three runs, on any mix of the two providers.

`CHECK_DEADLOCK FALSE` is set where the number of plays, reports, searches or runs is
bounded, since the model then stops; `nl6_loadtest` is checked for deadlock.

## 4. Fairness

* `Nl6Loadtest`: weak fairness of `Run(d)`. Every call of `api()` has a timeout and the
  sleep is bounded, so a driver that has begun takes its next step. `Begin` and `Kill` are
  not in `Run`. Nothing is assumed of nl6: it need not close a window, carry out
  or drop a late call, and an operator need not follow the printed advice.
* `KafkaReport`: weak fairness of `Run`. `poll` returns within its timeout.
  Nothing is assumed of producers or retention.
* `KneeSearch`: weak fairness of `Search`. Every ssh and every query has a timeout, and
  every loop is bounded by 4 attempts, 240 rows or 60 rows. Nothing is assumed
  of nl6, of OpenNMS's background work, or that a search dies.
* `PoolSweep` (`Run`) and `FleetClimb` (`Drive`): weak fairness of the program's own steps. Every ssh and
  query has a timeout and every wait a last reading, after which the program goes on
  whatever it read. Nothing is assumed of the Core, of nl6 or of imports.
* `FmSweep`, `Deploy`, `LatencyRunbook` state no liveness: a play, a deploy run and a phase are
  straight lines. `SampleReport`, `WireLedger` and `CollectionClosure` have no process that waits.

## 5. What is proved

All theorems hold for every value of the constants that satisfies the named
assumptions of the module (sizes are natural numbers, limits are positive, the
set of ledgers is not empty, fleet_sweep's `RUNGS`, a literal list, has rising targets and finite ranges of octets, a runbook's plan
has a phase). Three assumptions say more than that. `ReportAssumption` gives the shape of a record: its resources, a time of collection, and
an accepted time that may be missing. `ClosureAssumption` gives the shape of a tree: a version is a non-empty sequence of
numbers, the collections are walked once each in the order of their paths, and names of collections, URLs of
repositories and paths of directories are three kinds of names (a URL has a host and a path a slash). `ClockAssumption`: the
datagrams of one tick are sent within a quarter of it. analyse-pcap.py takes half a tick for the border ("the gap separates them
unambiguously"); the model's exporters keep clear of the tie of `round`.

A module of proofs may extend more than one module, so the specifications of `SampleReport`, `CollectionClosure` and `WireLedger`
have names of their own: `ReadSpec`, `TreeSpec`, `EmitSpec`, of `ReadInit`, `TreeInit`, `EmitInit`.

**`Nl6LoadtestProofs`.** `ReleasedIsFree`: in every behaviour, a scenario whose run saw
its stop accepted or said it had discarded it is not active.
`StoppedLedgerIsKept`: what a completed run measured stays as it is until nl6
restarts. Neither is inductive. The difficulty is the calls carried out late:
a late DELETE could take the ledger of a completed scenario, and a late start could
revive a released one. The invariant `IInv` therefore adds who may still act on
a scenario: a driver within its run owns the scenario it names (`OwnerKnown`), no two
drivers name the same (`OwnerUnique`), exactly the scenarios that were never handed out
have no fate (`FateKnown`), a run that remembers an accepted stop
has a terminal or lost scenario (`StopRemembered`), a completed one is terminal or lost
(`CompleteIsTerminal`), and a DELETE that may still come is for a scenario
whose run went through the discard (`LateDeletes`), which a completed run never did.
One lemma per action shows that it is kept; `TypeCorrect` is the type invariant.
Three further theorems are built on `IInv`, each with the invariant it needs besides:

* `WindowHolds` (`WindowUndisturbed`): no late call is for a scenario whose run has not come to its stop
  (`NoneLate`), since a driver gives up on a call only about its own scenario and then stops (`Mine`); so what
  another driver's late call does falls outside every window.
* `ExitZeroHolds` (`ExitZeroMeansDelivered`): exit status 0 is that of a run whose sidecar is its own and whose
  scenario completed (`EndedWell`), and a completed scenario is never armed again (`ArmedStays`).
* `ImplementsRun` (`RunsAsObserved`): the refinement of `LoadtestRun`, for every driver. Each step of the lab
  is mapped to a step of the abstract run or to a stutter (`MapsBegin`, `MapsWrite`, `MapsEnd`, `MapsStutter`).
  The abstract run says that the sidecar was written by this run; the detailed one compares ids, which
  is the same because a scenario once handed out is not handed out again (`WrittenAtEnd`).

**`KneeSearchProofs`.** `FleetThere`: unless nl6 restarts under a search, a window opens
only when every octet of its rung exists, for any ladder, any number of attempts,
late POSTs and searches. What makes it hard is that a search that died leaves a
partial fleet and a POST in flight, and that the next one goes on from the *number* of
devices. The number says which octet comes next only if the octets have no hole
(`CountIsNext`, by counting), so the invariant contains: the devices and the
late POSTs have no octet missing below them (`NoHoles`), and while the search grows the fleet it has every
octet below the one it posts (`Grown`). `KneeBracketed`: the knee is the first rung or
one step above a rung that passed, and every rung that passed is below it; this
needs that rungs only go up (`NextRungIsGreater`) and that the target waited for is
the next rung (`LadderInv`). `ReconciledScanned` (`ReconciledMeansScanned`): which states of the fleet the three counts of a
row of `wait_scans` tell apart, for any number of interfaces on any octet. As many nodes are scanned as the fleet has blocks, and
if none is of a larger fleet they are a subset of its blocks of the same size, hence all of them (`CountsSuffice`). The
interfaces are one sum, over every requisition: if no octet holds more than it should, none outside the fleet
holds any (a node that is gone took its interfaces with it, `NoneLeftBehind`) and no other
requisition does, the sum of a full fleet is reached only if every octet is full (`SumSuffices`, along the partial sums). Those three
conditions are the exceptions the property names, and the run reaches each of them;
no other turn of the loop returns TRUE (`ReturnsTrue`). `TypeCorrect` is the type invariant, including the bound of
every counter.

**`DeployProofs`.** Every invariant the `deploy` run checks: `BackingHolds`, `NoBump`, `PlaysRead`,
`OkIsAsAsked` and `TypeCorrect`, for any providers, deployments, images and number of runs. None is
inductive: that no disk loses its base needs that the new base was made before the disks were
touched (`BaseMade`) and that the disks are overlays of it when the others are pruned (`Converged`);
what the second apply may do after the discovery needs that the first one left that
image; that a playbook reads an inventory with the jump host holds for the runs that found one: `PlaysRead` exempts a
run that warned ("missing") and one whose outputs could not be read ("unread", section 6); what a finished run promises needs what each of its steps left (`InventoryWritten`,
`Stacked`). The argument is local: a step changes nothing of another provider (`OthersKeep`, which is
where the file names per provider are used), and one lemma per action shows that
it keeps its own provider in order (`Orderly`).

The same module proves `CollectionClosure`: `VerdictHolds`, exit 0 against the closure, for any manifest and any tree. The
program compares padded tuples, the specification infinite sequences that end in zeros; that both orders are the same at
every length, and that `~=` with its ceiling is the range it stands for, is `SatisfiesIsWithin`. The two
recursions of the manifest are followed entry by entry (what has been read so far, and which names it claims);
what the git entries resolve to depends on the tree alone.

**`ReportProofs`.** Three modules about captured data. Of `KafkaReport`, all safety properties of the `kafka_report` run: `CountsHold`, `CleanHolds`, `ReplayHolds` and
`TypeCorrect`, for any partitions, offsets, gaps and number of reports, with producers and
retention at work throughout. The invariant follows the consumer's position: every record behind it and in
the slice is counted, deleted, a gap, or there is a warning (`Behind`), and a partition that was left was
read to its end. When the loop ends that becomes `Clean`, and what `Report` writes of it into the sidecar is
`Kept`, from which a later replay starts. Positions only move past offsets that hold no record
(`HandedIsNext`), and retention only takes offsets away, which is why `Kept` survives it.

Of `SampleReport`, `CoverageHolds` and `TimelineHolds`, for any records, width and cutoff. `ReadInv` keeps what the rows say
equal to what the messages say, *at whatever set of times*: for every set of stamps on either clock the samples of the rows
with such a stamp are the samples of the messages (`SameSums`). A bucket is one such set, so the timeline
follows without another induction, once its keys are known to be every bucket that holds a row, in order, each once
(`KeysAre`, `BucketOf`); that is counting: the k-th of a sorted list has k - 1 members below it (`AscendingLists`).

Of `WireLedger`, `LedgerVerdictHolds`, `LossHolds` and `ShapeHolds`, for any fleet, run, loss and miscount. The invariant
`WireInv` has four parts. What left the exporters is in the order of time, and the sequence numbers of one exporter
are 0 up to how many it sent (`SentInv`). The rows are some of those datagrams, in that order (`RowsInv`), and all of
them if none was lost (`WholeInv`). So the sequence numbers captured of one exporter are a set of numbers, as many as
its rows, and the formula of analyse-pcap.py is positive exactly if the set has a hole (`MissingIs`). `ShapeInv` says what the loop
of `tick_groups` knows after the last row: the n-th entry is the records of the n-th busy tick (`Earlier`), and
the silent ticks are those between the first and the last that are not busy; `TicksBetween` shows
that `round` counts the ticks of a gap rightly.

**`PoolSweepProofs`.** `RowsHold`, `CeilingHolds` and `BackupHolds`, for any cap, steps and number of sweeps.
`InStep` says how far the lab has followed the rung at each call (file, then running JVM); `Ladder` says that
every row so far is of a smaller pool, did not stop the climb, and that from the first pool that passed on all did.

**Runs are finite.** `PoolSweepProofs!RunsAreFinite`, `KneeSearchProofs!SearchesAreFinite` and
`FleetClimbProofs!RunsAreFinite` are the part of `SweepEnds`, `SearchEnds` and `ClimbEnds` that is about single steps. What
is left of a run is a tuple of numbers: the rungs up to the cap, the stages of the rung, the octets or rows of the
stage, the attempts of the octet. Each step of the program lowers it lexicographically (`Shorter`), whatever nl6 or
OpenNMS answers; no step of theirs raises it; only a new run does. Two facts make it go through: the search measures the
fleet it has grown to (`AtRung`), and beyond its first window edge_search measures no fleet above its last (`Course`),
since growth stops one step past the cap. That the next of a finite set of octets is one of them (`Least`) is needed because
a POST counts as progress only if it takes an octet off the list.

**`FleetClimbProofs`.** `SettledHolds`: a fleet that settled is exactly the rung's. No single counter says so: nl6
has every octet of the rung, late calls or not (`Grew`); the import took its devices from nl6 after the rung
had grown (`Importing`); and as many nodes as the rung (`Counted`), among which are the rung's, leave no room for
another (`CountIsSet`). `EdgeHolds`: nothing is climbed past the rung that ended it (`Rising`).

**`LatencyRunbookProofs`.** `WindowsHold`: the bounds of a phase pass through three files that are older than the phase.
`Following` says at which point which of them is the phase's own, and how old the others are, and `Behind` that the windows
of earlier rows had ended before this one began; the topic only grows. So a row whose two reports worked counts what
came between them, no more and no less, and the theorem says where those two lie against t0 and t1; with a report that failed
it says how far the row reaches back.
`DurationsHold`: for two files read in one go, the list of durations.py holds exactly the collections that began and ended
in what was read, each once. After each line the list is told without recursion: the begins and ends of one service
with nothing read of that service between (`LinePaired` for one line, `FilePaired` for a file), and
a line that is read once ends one pair (`AppendOnce`). Two files in one go are one stretch of the log (`OneStretch`), and
that such pairs are the collections that took place is an invariant of Collectd's log (`LogInv`), restarts included.

**`FmSweepProofs`.** `ReferenceHolds`, `RepeatHolds` and `LedgersHold`, for any lists of rates, windows, armed devices, limits and
number of plays. The rung under way is always the next row of the table (`Place`), and the rows are
the reference and then the rates in their order (`Ordered`), so the second repeats the first.
A play goes past its reference only if that carries a signal (`Referenced`). What that says about *this* play needs whose
ledger it was taken from: a file of this play was asked for the rate of its rung, this play's window and the devices it
armed, a file under the label "ref" was written by a reference, and a load that ended with 0 left one (`Asked`); a row has
its numbers from such a file or from none (`Sourced`). Hence the reference is the least loaded rung and was
delivered, or it is named as an earlier play's. That no ledger
of `/tmp` is read for two rungs needs who wrote each file: none is of a rung still to be loaded (`Written`),
each rung wrote at most one (`Apart`), and with distinct rates the file a rung has read is not
written again (`Reads`).

**Recursion.** Loops over records, rows, lines and entries are recursive functions on 0..n. The induction theorems of
the library take an operator as their parameter, which the provers here cannot instantiate, so such a loop is
handled by the least counterexample: the recursion has a solution up to n (`SumDef`, `DatagramsDef`, `GroupsDef`, `IfsBelowDef`, `ParsedDef`), because there is no
least n without one, and one more entry is one more step (`SumStep`, `DatagramsStep`, `GroupsStep`). The properties
of a run are then invariants of the behaviour that appends the entries.

**Model-checked only.** Every invariant and action property of a passing run is a theorem. What stays with TLC is liveness: `LabFreesUp`, `ReportEnds`,
`SearchEnds`, `SweepEnds`, `ClimbEnds`. Liveness and `ENABLED` are beyond the prover used here: of the last three it is
proved that the steps of a run are finitely many, and left to TLC that fairness therefore brings it to its end. Of
`ReportEnds` not even that is a matter of the consumer alone: a partition with nothing to read is not paused, so
the loop is handed, and skips, as many of its records as producers write.

## 6. Disagreements met while modelling

One is a run. `knee_unscanned_window`, `WindowOnScannedFleet` (knee_search.py:91, "Every fleet
node must hold 144 SNMP interfaces before a window opens"): the result of `wait_scans` is
read by nobody (221, 224, 241). `knee-search-pool300-mr5-32g.log` line 10 is such a timeout; its
rung was measured.

The others were seen in the models' counterexamples or in the code, and are left as
prose; the properties are stated around them, with the exception named in the comment.

* nl6_loadtest.py:196-199, 222-225 against 218. A window closes by itself, the stop call is carried
  out but its reply is lost: the handler discards the scenario, and with it the only record of a
  completed run.
* fm-syslog/experiment.yml:26-29 against rate.yml:73. A rung whose load left no ledger should
  show sent 0. It shows what an earlier play sent under that label, since the file is never removed. When that rung is the
  reference, the delivery assertion compares what that play sent with what that play asked, at its rate and window.
* fm-syslog/rate.yml:110-113 against nl6_loadtest.py:205-206, 272-279. The rung records `fm_device_count` so that
  the offered rate can be recovered, but a load asks of the devices it armed, which may be fewer with no more than a warning:
  two rungs of one sweep may be asked of fleets of different sizes.
* fm-syslog/experiment.yml:223-226, 262 against 221. `failed_when: false` on the corroboration makes
  the registered `failed` false, so neither the banner nor the last assertion can fire.
* kafka_metrics_report.py:84 ("it never tails") against 216, 252. A partition is left only at the record
  `end - 1`; when that offset holds no record, the loop goes on while records arrive.
* kafka_metrics_report.py:11-13 ("exactly the same numbers") against 176. A clean `--replay` of a clean report
  may count fewer records: retention is compared with the start once, when the bounds are
  captured. `ReplayCountsTheSame` says what holds instead.
* kafka_metrics_report.py:621 ("Excluded records are absent from every figure above") against 219, 231.
  A record that is left out is still one of the "Kafka records read", and its resources are counted.
* pm-snmp/rung.yml:81-83, 91-94 ("That is a decoding problem") against kafka_metrics_report.py:272-283. Samples
  without any node are also what a fleet that is polled and never collected gives, with no
  warning: the numerator counts response times, the nodes do not.
* kafka_metrics_report.py:323-326. The mean may exceed the peak: it divides by the span of the
  stamps, the peak by the width of a bucket. `pm-collectd-threads/experiment.yml:16-24` tells of a reading
  that this misled.
* knee_search.py:95 ("reconcile interfaces against nodes") against 99, 109. The nodes are those of the fleet's
  requisition, the interfaces those of every node in the database, and one sum is compared: an interface too many
  anywhere makes up for one that is missing.
* knee_search.py:112-115 against 116. "Scans done everywhere else" is tested by "nothing is half scanned in
  four rows", which nodes still waiting for their scan also pass: the repair deletes them too. The log of
  pool 400 shows 304 deletions over five growths of 500 nodes.
* deploy.sh:424-426 ("On kvm the value is authoritative even when empty: empty means the spec marks no node public_ip, i.e. there
  is no jump host") against 320-322, 450. `tf_output` makes an empty answer of every failure of `terraform output`: the
  discovery is skipped, the run warns of nothing, and the playbooks read an inventory without the jump host.
* deploy.sh:338-340, 381-385 against 388. The console is not given `TF_EXTRA_ARGS`, the apply is. Whoever
  follows line 400 (`TF_ARGS="-var cost_profile=benchmark"`) is told before and after that the lab is
  SMOKE; on kvm an image given that way passes the guard.
* pool-sizing-research.md:26 ("20% per doubling") against pool_sweep.py:314. With `--step` the gain is that of a
  step, compared with the same 20%.
* pool_sweep.py:20-23 ("Both are recorded in the results") against 110-140. What `prepare_jvm` found is
  logged; no row has it. After a failed daemon-reload the next run takes the drop-in for loaded.
* pool_sweep.py:176-198. A restart that was not carried out is not seen, and its rung is measured under the pool
  before. A second sweep after a damaged write copies the damaged file over the only good backup, and
  nothing restores the pool the lab was installed with.
* edge_search.py:175, `measure(fleet, True)`: a row says that it settled whether or not `settle` gave up. The injected
  latency stays when the search ends.
* nl6-flow-emission-shape/README.md:117 ("zero gaps, so nothing was dropped") against analyse-pcap.py:185-190: what is lost before
  the first or after the last captured datagram of an exporter leaves no gap.
* runbook_exec.py:48-63. When a report fails, the file of an earlier run of the same tag is read as this run's:
  `RowsOfTheirOwnWindow` says how far such a row reaches. When both work, the samples between t0 and the end of the
  base report are in no row, and those between t1 and the report are counted.
* durations.py:25-29 and runbook_exec.py:73-94. A file that cannot be opened is skipped, and two files that overlap or
  leave a gap are read as one log: a collection may be counted twice, or a begin paired with the end of another. A call
  that fails gives a row without durations (138-144), with nothing that says so.
* validate-collections.py:44-47. `2.0.0-beta.1` reads as (2, 0, 0, 1), above 2.0.0. requirements.yml:53
  names a `6.1.1-hotfix.1` build, for which the order happens to be right.
* `lab_deployment` of the endpoints playbook is not gated by `deployment_aware`: on azure and vmware a
  `--deployment` that shaped nothing is named in the manifest, which is why `OkMeansAsAsked` says it
  of the others only.

## 7. What the models leave out

* `Nl6Loadtest`: the parsing of durations and device ranges and the report's layout. A scenario whose submit was carried out while its reply was
  lost has no driver that knows it ("unclaimed"): it may block nl6, and the properties exempt it by name. Also left out:
  the arithmetic of the report beyond the ledger identity and the target.
* `FmSweep`: the queue of the system under test, so a backlog carried from one rung into
  the next is not told apart from slow delivery; the sum of sink offsets, which only
  feeds the last assertion (a free outcome of `Verdict`).
* `KafkaReport`: what a record holds, which is `SampleReport`'s. A record that cannot be parsed is the
  free choice to warn in `Poll`.
* `SampleReport`: the chart, the HTML, the cap on the list of node ids; the rounding of rates; a
  time before 1970.
* `KneeSearch`: a rung's gauges (the verdict is free); part of a block being there (nl6
  creates 250 devices in one call); two copies of the search at once. A larger earlier fleet, another requisition and
  nodes with too many interfaces are modelled, and are the exceptions of `ReconciledMeansScanned`. `FleetIsThere` is
  not claimed once nl6 restarted under a search: the code does not look.
* `PoolSweep`: the gauges behind the stop signals; the line of `opennms.conf` that turns on native
  memory tracking, which only adds a measurement; an operator's own edit of the file.
* `FleetClimb`: the half percent that `settle` tolerates, so "exactly the rung" is within that; two programs at
  once; fleet_sweep's wait for another program at its start.
* `LatencyRunbook`: the comparison of a gate with its own baseline, and the gauges; the
  `persistDataQueueing` lines (a map of their own, treated alike) and the percentiles of durations.py.
* `WireLedger`: the bytes of NetFlow v9 and of the capture file; retro, a heuristic that says so; ticks
  closer to half a tick than a quarter (an assumption, from the code's comment).
* `CollectionClosure`: letters in versions, so pre-releases; the reading of YAML and JSON.
* `Deploy`: AWS credentials and the operator's address, which may only end a run before it
  did anything; the tfvars file being edited while a run is at work; two runs on one
  provider at once (Terraform's lock keeps their applies apart, nothing their playbooks); what the bootstrap does
  to hosts; a playbook run by hand over the inventory an earlier run left. An OS disk whose host stays is either untouched or refused: no other property
  of Terraform's planning is assumed.

**Not modelled**, with the reason of each in `PROJECT.json`:

* the thread sweep `pm-scan-threads`: gates and deadlines on gauges of OpenNMS, whose scheduling the repository
  does not contain; a model would be a model of a guess;
* the provisioning roles and `fleet.sh`: two REST calls in a row. How a fleet may be left half
  created, half imported or half deleted is in `KneeSearch` and `FleetClimb`, from the drivers' side;
* the other experiments (`pm-snmp`, `pm-collectd-threads`, `smoke`, `nms-20027`, `flows-es-vs-victorialogs`) and the live
  trials: straight lines of calls around a window, with no control beyond what `FmSweep` has;
* the outage campaigns' monitors, judges and the sizing model: samplers and arithmetic on finished files;
* the documentation, handler, library and pin validators: regular expressions over text, whose
  conclusion is the expression;
* site playbooks, bootstrap roles, Terraform roots and the topology module: declarative, where the program
  is Ansible or Terraform.

## 8. Plan

Modelled: sections 2 to 4. Proved: every safety property the runs check (section 5). What is left:

* *Type invariants* of the modules whose runs check none are conjuncts of their inductive invariants, not theorems by name.
* *Hazards without a property*: four of the list in `PROJECT.json` (the fixed settle after a load, the suppressed failure of
  the corroboration, nl6 restarting under a search, the requisition uploaded and not imported), each with its reason there.
