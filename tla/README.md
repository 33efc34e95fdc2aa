# A TLA+ model of intel_gpu_exporter

`intel_gpu_exporter` publishes the state of Intel GPUs to Prometheus. It is a
small program with little state, but most of that state is shared between
goroutines, system calls, a child process, a dynamically loaded library and
kernel files that change while they are read. The modules here model those
interactions, TLC checks them on small instances, and TLAPS proves the most
important ones for every instance.

Paths below are relative to the repository; `collector/` is `internal/collector/`.

## 1. The system and its parts

| Part | State it keeps | Operations | Module |
|---|---|---|---|
| Registry (`collector/collector.go`) | sources, timeout; per scrape a context, a wait group and per source two channels and up to three goroutines | `NewRegistry`, `Collect`, `Healthy` | `Scrape`, `ScrapeSpec` |
| intel_gpu_top source (`collector/intel_gpu_top.go`) | latest sample, exited flag, cancel function; a child, two pipes, three goroutines | `Start`, `Stop`, `Update`, `consume`, `drainStderr` | `GpuTop` |
| PMU source (`collector/pmu_linux.go`) | open perf events under a mutex | `Available`/`open`, `Update`, `Close` | `Pmu` |
| PMU encoding (same file) | none kept | `loadPMU`: format and event files to `config` values | `PmuEncode` |
| Program (`cmd/intel_gpu_exporter/main.go`) | registry, child, server, signal context | start, serve, shut down | `Exporter` |
| fdinfo source (`collector/fdinfo.go`) | none between scrapes; during one a map of keys | `Update`, `topNByActivity` | `Fdinfo` |
| Level Zero (`internal/levelzero/`, `collector/levelzero.go`) | bound functions, cached devices and handles | `loadLibrary`, `Open`, `list`, `Update` | `LevelZero` |
| Discovery (`internal/discovery`) | the GPUs, found once by a walk over sysfs | `Discover`, `I915GTs` | `Sysfs` |
| sysfs and hwmon sources (`info`, `sysfs_i915`, `sysfs_xe`, `hwmon`, `pcie`, `memory`, `engines`) | none | `Available`, `Update` | `Sysfs` |
| Kernel feature matrix (`internal/kernelinfo`) | none | `Detect`, `AtLeast`, `Evaluate` | `KernelInfo`, used by `Sysfs` |
| Stubs for other systems, flags, the index page | none | | not modelled |

How they interact:

- `main` runs discovery, asks every source once whether it is `Available`
  (the PMU opens its descriptors then, Level Zero its library), starts the
  child, serves HTTP, and on a signal or a listener failure shuts the server
  down, stops the child and closes the PMU.
- A scrape is a `Gather` of the Prometheus registry, which calls `Collect` with
  a bounded channel and closes it when `Collect` has returned. `Collect` calls
  `Update` of every source in goroutines; scrapes may overlap.
- An `Update` that outlives its scrape goes on running, beside later scrapes
  and beside the shutdown, and sends what is left to a drainer.
- The GPUs that discovery found, with their paths, are kept by every sysfs source
  and by `/health`, and are not looked for again; the kernel binds and unbinds
  drivers meanwhile.
- The child talks through two pipes to three goroutines of its source; scrapes
  meet it only in `latest` (a mutex) and `exited` (an atomic).

What is hard in each part, and what makes it correct:

- *Registry*: blocked senders, deadlines that race answers, sources that hang.
  Nobody may send on a closed channel; a success verdict must mean a complete
  source; `Collect` must return; nothing may leak behind a late source.
- *intel_gpu_top*: end of file, bad output and death of the child in any order
  with scrapes and with `Stop`. Scrapes see whole samples in order; a dead
  child's sample must stop being served; the pipes must keep moving.
- *PMU*: three system calls per event of which each may fail, `Close` while an
  `Update` reads without the lock, numbers of descriptors that are reused.
- *Program*: the order of the shutdown, against scrapes under way.
- *fdinfo*: `/proc` is no snapshot; the cap; sums over descriptors.
- *Level Zero*: lists taken in two calls, partial failure, labels by position.
- *PMU encoding*: 64-bit arithmetic on numbers read from files. The config that
  is opened must be the event the kernel named, or none.
- *Discovery and sysfs*: the walk is no snapshot and card numbers are reused. One
  GPU that moves must not hide another; a value must carry the labels of its own
  device; no series may be sent twice, since that fails the whole scrape; start-up
  must leave out no feature and no source of a GPU that is there.

The full list of hazards, each with its line and its properties, is in
`PROJECT.json`.

## 2. The modules

Every module keeps the names of the source where it can. A mutant (`Mut...`)
before a definition is that definition with a plausible bug; it is in no
specification and shows that a property depends on the code.

### Scrape, ScrapeSpec, ScrapeProofs

One `Collect`. The state of each source's goroutines is the record `g[s]`:
`fwd` is the forwarder's statement, `upd` the updater's, `drn` the drainer's;
`err`, `m`, `sent`, `errc` are the variables and channels they share. `cpc`,
`wg` and `ctxDone` belong to `Collect`; `out`, `got` and `outClosed` are the
channel to `Gather`. An unbuffered send is two steps (`UpdateSend` offers,
`Receive` or `Drain` takes). `ch` is a set, because Gather sorts what it gets.
`SourceEnded` and `Deadline` are both enabled when a source ends as the
deadline passes: Go's `select` may take either.

`ScrapeSpec` is what a caller may rely on: one verdict for each source, "ok"
only with everything `Update` offered, "fail" only for an error or the deadline,
nothing published after the verdict, and an end. `Scrape` is shown to implement
it with its fairness (`ImplementsScrapeSpec`); the refinement mapping (`Offered`,
`Result`, `Published`, `Given`) reads the abstract state off the channel and the
goroutines.

### GpuTop, GpuTopProofs

The child (`ChildWrite`, `ChildStderr`, `ChildExit`), the pipes as sequences
of tokens, the consumer statement by statement (`cons`), the stderr scanner,
the goroutine that waits (`waiter`) and any number of `Update`s. The JSON
decoder is the library's: an object of the wrong shape is passed over, a
syntax error is for ever (`stuck`). `Says` is what the child of an instance
may write besides samples: objects of the wrong shape, garbage, an object cut
off by its death, something other than an array, a stderr line too long for
`bufio.Scanner`. A `Start` that fails is the same as no `Start`.

### Pmu, PmuProofs

`p.events`, the lock, the statement of `open`, `perfOpen` and `Close`, and the
descriptor table of the process, which other code uses too (`OtherOpen`,
`OtherClose`). `Update` copies the slice under the lock (`UpdateCopy`) and
reads each descriptor without it (`UpdateRead`).

### PmuEncode, PmuEncodeProofs

One `loadPMU`: `ReadType`; `ListFormats` and `ReadFormat` fill the `format` list;
`ListEvents`, `SkipEvent` and `ReadEvent` choose an event file; `EncodeTerm`,
`DropEvent` and `EventEncoded` are the loop of `encodeEventLine` over its terms,
which adds each term's bits to `cfg`; `Loaded` ends. A uint64 is the set of the bits
that are one, W bits wide: `|` is union, `&` intersection, and a shift drops what
leaves the word. `Width` is the subtraction of `bitMask`'s argument, which wraps;
`ParseByte` is `ParseUint` with 8 bits whose error is ignored. A text is what its
parser makes of it (`Term`, `FormatFile`). Files are read in any order, which
covers the order of a Go map and of a directory.

### Exporter, ExporterProofs

`main`, statement by statement (`main`), with the listener, the signal context,
the child and the grace period of `Shutdown`, and scrapes that run meanwhile.
It composes the parts as main sees them: a scrape collects until its sources
answered or its deadline passed, which is what `ScrapeSpec` promises; its PMU
updater may live on; the PMU has one descriptor that is open, closed, or reused
by something else, as in `Pmu`; the child runs or does not. A signal is `Caught`
while the notification is on; after `stop()` the next one ends the process
(`Killed`).

The server is `net/http`'s. A connection is accepted, or kept alive, while the
listener is open (`Connect`), and its request is read when it comes (`Begin`):
`Shutdown` closes the listener and then the connections it finds idle (`CloseIdle`),
but one on which no request has been read yet may still deliver it while `Shutdown`
waits, or after it has given up. Time is counted by `Tick` as far as the two timers
compare it: a scrape ends at its `Deadline`, `-scrape.timeout` after it began, and
`Shutdown` waits for `Grace`, which is 5 s in the code, whatever the scrapes do.

### Fdinfo, FdinfoProofs

One `Update` as a scan with a step for each system call (`ReadProc`, `ReadComm`,
`ReadFdinfoDir`, `ParseFdinfo`) between which processes open and close
descriptors, change their names or use the GPU. One engine stands for all. A
descriptor shows its use as time (`drm-engine-*`), as busy cycles (`drm-cycles-*`)
or as both, and perhaps the engine's clock (`drm-total-cycles-*`): `Added` adds up
what the file shows, as the code does by the prefix of each key, and `Shows` says
what that is for each driver. `EndScan` is `topNByActivity`: it sets `kept` to any
of `Caps`, the first N keys of any order that a sort by `Before` may leave. The
gauge of dropped processes is a subtraction and is left out.

### LevelZero, LevelZeroProofs

The library binding (`Load`); `Open` as the sequence `work` of the calls it still
has to make, in the order of its nested loops; and `Update` over the cached
handles. A call is a list of one kind (`Count` and `Fill` are its two halves,
between which nodes come and go), a device (`EnumerateDevice`: its address, which
may be refused, and a list of each kind to come) or the properties of a handle
(`Properties`, which may be refused too). `todo` is the set of positions an `Update`
has still to read; it reads the first of them. A node is a driver, a device or a
handle; `World` says where it hangs and what it is.

### Sysfs, SysfsProofs

The kernel binds and unbinds drivers (`Bind`, `Unbind`): a bind takes the lowest
free card number and new hwmon numbers. `Discover` is a walk with a step for each
look at a GPU (`ReadDir`, `Resolve`, `DetectDriver`, `ListParts`, `EndDiscover`; the
last reads of a GPU, `findHwmon` and `discoverTiles` with their directories,
`discovery.go:79-80`, are the one step `ListParts`); then
`EvaluateFeatures`, `RegisterSources` and `Listen`. A scrape of a source is `Begin`,
and for each GPU (`NextGPU`) the reads its `Update` makes, built by one operator per
source (`I915Reads` and so on): `ReadHwmonName`, `GlobHwmon`, `ReadFile`. A read knows
whether its path starts at the card number or at the PCI device (`Reached` says
which device that is now), and under which labels its value is sent. `HealthStat`
and `HealthEnd` are `/health`.

### KernelInfo

The order of versions, `Detect` with its two files, the feature matrix and
`Evaluate`, as operators; `Sysfs` uses them at start-up.

## 3. The runs

| Run | Checks | Instance |
|---|---|---|
| `scrape` | no send on a closed channel, success means complete, one verdict each, refinement of `ScrapeSpec` (with the end of `Collect`), no updater stuck, goroutines end | 2 sources, 2 metrics and 1, channel of 1 |
| `gputop` | exit noted last, samples served in order, a child that has gone is forgotten, samples reach the cache, pipes keep moving | 2 updaters, 3 objects, pipe of 3, any output |
| `gputop_cut` | violated: dead child still served | a child cut off inside an object |
| `exporter` | no foreign value published, accepted scrapes answered, program ends | 2 scrapes, a timeout of half the grace and one equal to it |
| `pmu` | descriptors owned, one handle per event, what an Update copied stays open until a Close | 2 events, 3 descriptors, 2 updaters; deadlock checked |
| `pmu_encode` | a loaded config says in each field what the event file said; nothing is loaded from a line that was not understood | 4 bits, numbers to 7 and beyond, 2 keys, an event and its `.unit` file |
| `fdinfo` | steady processes published and current in every counter, the cap determined by what was found and by engine time | 2 processes, 2 descriptors each (symmetric), 3 drivers, 1 change; deadlock checked |
| `fdinfo_xe` | violated: busy xe process dropped | 2 processes, 1 descriptor, xe shows cycles only |
| `fdinfo_cycles` | violated: total cycles exceed the clock | 1 process, 2 xe descriptors |
| `levelzero` | real handles, failures local, positions keep their meaning | 2 drivers, 2 devices, 3 handles, 1 change |
| `levelzero_groups` | violated: the same series twice | 1 device, 2 groups of one type |
| `sysfs` | steady GPUs found and published whole, no feature and no source left out, no series twice, values of their own device, degraded only when all is lost | 2 Intel GPUs and a foreign card, card numbers 0 to 2, 2 binds or unbinds |

Why the bounds are enough:

- *Scrape*: sources interact only through `ch`, `wg` and the context; two
  contend for a channel of one in every way that more would. Two metrics
  separate "one lost" from "all lost", so one of the two sources has two. The
  sources differ, and there is no symmetry, which liveness would not allow. The
  proofs need no bound.
- *GpuTop*: three objects are a good one, something in between and a later one;
  the pipe holds three tokens, so the child does block. Two updaters overlap. The
  child may write anything (`Anything`): samples, objects of the wrong shape, one
  cut off, garbage, something other than an array, a long stderr line. The
  properties then say what holds for every output; where they except a decoder that
  is stuck for ever, `gputop_cut` shows why they must.
- *Pmu*: three descriptors for two events leave one for the rest of the process;
  opening may also fail. The proofs need no bound.
- *Exporter*: two scrapes, one finished or waiting while the other is read. A
  grace of 2 and timeouts of 1 and 2 let a scrape end before the grace does, with
  it, or, begun late, after it. The proofs need no bound, and no relation between
  the two.
- *PmuEncode*: four bits hold two fields of two, of which one may be misplaced;
  the ranges meet, overlap, run backwards, and lie partly or wholly beyond the
  word; values fit their field or do not. 64 bits add length, not cases, and the
  proofs are for any width.
- *Fdinfo*: scans are independent, so one from an arbitrary start is enough, and
  two keys contend for one place. One change per run (`MaxSteps`) can fall
  between any two system calls; a property about a process that does not
  change needs no more than one of another. `MaxUse = 2` gives ties and
  differences. Slots of a process are alike, hence the symmetry. In `fdinfo` an i915
  descriptor shows time and an xe descriptor time, cycles and clock, as
  `collector/testdata/fdinfo_xe.txt` does; in `fdinfo_xe` it shows cycles and clock
  only, as `fdinfo_xe_cycles.txt` there does.
- *LevelZero*: two drivers with a device each, one with two handles of a kind so
  that a list can shrink to part of its length; one node may come or go.
- *Sysfs*: an unbind and a bind are what it takes to give a card number to another
  GPU, and two of them can fall between any two reads. Two Intel GPUs show that one
  hides or replaces another; the foreign card takes a number without being found.
  One GPU has GT directories and one has tiles, local memory and either driver.

Deadlock is checked where the system never stops (`pmu`, `fdinfo`). The others
turn it off: a scrape ends, a child dies, the program exits, a source that is
not available stays so.

## 4. Fairness

- `Scrape`: Go runs every goroutine that can take a step, the deadline passes,
  and Gather goes on receiving (it does, until `Collect` has returned). Nothing is
  assumed of `UpdateSend` and `UpdateReturn`: a source may hang.
- `GpuTop`: the exporter's goroutines run, a cancelled context kills the child
  (`exec.CommandContext`), and an `Update` that has begun ends. Nothing is
  assumed of the child.
- `Exporter`: main runs, time passes, the context of `Shutdown` expires, a scrape's
  deadline ends its `Collect`. Nothing is assumed of sources, clients, signals,
  listener.

All is weak fairness: each of these, once enabled, stays so until taken (Go's
scheduler is preemptive, timers and channels wake who waits).

`Pmu`, `PmuEncode`, `Fdinfo`, `LevelZero` and `Sysfs` have safety properties only: each of
their loops is bounded by what it listed at its beginning.

The flag `-scrape.timeout` has the default 5 s, which is also how long `Shutdown`
waits. `NoForeignValue` says which scrapes the order of main's shutdown protects from
reading a descriptor that something else has opened: those whose deadline comes
before the end of the grace. With the default that is every scrape that began before
`Shutdown` was called; with a timeout of 1 s, every scrape that begins before the last
second of the grace. No timeout protects a scrape
whose request comes late, on a connection that was already open: TLC finds
one with the shorter timeout that publishes a foreign value, when `NoForeignValue`
is changed to exclude it. The other properties hold of every timeout.

## 5. What is proved

`ScrapeProofs`, for any sources, any number of metrics and any capacity:
`TypeCorrect`, `NoPanic`, `SuccessMeansComplete`, `OneVerdict`. The safety
properties are not inductive, because they speak of the end of a forwarder's
life. `IInv` follows it: `WaitInv` ties `wg` to the forwarders that run,
`UpdaterInv` says that `errc` is filled before `sch` is seen closed and that
only a forwarder that gave up has a drainer, `MetricInv` counts what has reached
`ch` at each statement, and `VerdictInv` what verdict has. A step changes the
goroutines of one source at a time, so the step proof is split into what
Collect and Gather do (`WaitStep`), and what one source does (`SourceStep`).

Its second part is `Implements`, that `Scrape` implements the safety part of
`ScrapeSpec`. It adds to `IInv` that a forwarder which does not report success has a
reason and that `ch` carried no metric that was not offered (`Justified`), and shows that each step
is a step of `ScrapeSpec` or leaves its variables alone; `Forward`, for one, is a
step of the abstract scrape and a receive is none.

`PmuProofs`, for any events, descriptor table and updaters: `TypeCorrect`,
`DescriptorsOwned`, `HandlesDistinct`, `CopiesStayOpen`. The invariant adds what the
lock protects (`LockInv`: open and Close are never both under way) and that open
never meets an event again (`TodoInv`). `CopiesStayOpen` is about steps: a copy begins
with what the source owns, and only the holder of the lock frees that.

`PmuEncodeProofs`, for any width, keys, format files and event lines: `TypeCorrect`,
`NeverGuessed`, `Faithful`. The invariant says that `format` is what the files read so
far make of each key (`Formats`), once for each (`Once`), that `cfg` is the union
of the bits of the terms passed so far (`SoFar`), and hence that every event holds
the union over all its terms (`Encoded`). `ReadBack` is the arithmetic: masking and
shifting a value into a proper field and reading it back gives the value, cut
to the field.

`ExporterProofs`, for any number of requests, any timeouts and any grace:
`TypeCorrect`, `NoForeignValues`, `AcceptedAreAnswered`. The invariant orders the
shutdown: no request before the listener opens (`Deaf`), the PMU closed only at
the end (`ClosedLast`), no server on a way out that never served (`NoServer`), and,
unless the grace is over, every request that was read is over once `Shutdown` has
returned (`Waited`). For time it says that the grace is over only when its time
is (`GraceIsLate`) and that a scrape that still collects has not passed its deadline
(`Punctual`): one that publishes from a closed descriptor does so after the
grace, and so has a deadline that is no earlier.

`GpuTopProofs`, for any pipe, number of objects and output: `TypeCorrect`,
`ExitNotedLast`, `NeverGoesBack`. `EndsInOrder` follows the ends: the child, the two
readers, the waiter, the flag. `DecodedInOrder` says that the numbers of samples
increase along the pipe and are above what was decoded, which is at least what is
cached; `HeldIsCached` that no caller holds a newer sample than the cache.

`SysfsProofs`, for any machine, drivers and number of changes: `TypeCorrect`,
`ValuesAreOwn`, `NeverDegradedTooSoon`, `SteadyAreFound`, `NothingLeftOut`. The
invariant: devices hold different card numbers (`OwnCards`); a GPU that was found and
has not moved still has the number it was found with (`KeepsItsCard`); every read
starts where its family's paths start (`ReadsRooted`); `/health` has only passed
GPUs that moved (`HealthSoFar`). For the walk, `WalkedAll` says of each steady GPU that it is still to be
visited, at hand, or in the result with all its parts, and never in two of these.
`NothingLeftOut` follows from it: features and sources were made from the result
(`Configured`), which has every steady GPU with its driver and sensors
(`SteadyEntry`), a file exists only with the driver or the directory that its
source asks for (`DueNeeds`), and versions are ordered (`AtLeastOrder`).

`SysfsProofs` also has the two properties of a whole scrape. `SeriesAreSentOnce`
rests on GPUs having different card numbers (`CardsApart`) and on `Apart`: what was
sent is about a GPU and a file already read, every read to come is of a series
not yet sent, and two sensors of a GPU differ in the name of their directory,
which is their label. `SteadyArePublished` rests on `Whole`: of a GPU that was
passed every due file has been sent, and of the one at hand each has been sent or
has a read that leads to it; `ReadsComplete` shows that the reads with which a GPU
begins lead to all of them.

`FdinfoProofs`, for any processes, descriptors and cap: `TypeCorrect`, `SteadyIsListed`,
`KeepsTheSame`, `KeepsTheBusiest`. The invariant says where the scan stands
(`Place`), that a key counts no descriptor twice (`Counted`), and of a process that
stays as it is that it has exactly its keys once it has been passed, and those
of the descriptors read while it is at hand (`Listed`). The cap
(`Capped`) rests on the order of keys being total: of two results with N keys each
would have a key that the other lacks, and one of the two comes first
(`CapIsUnique`).

`ValuesAreCurrent` is about sums: `Bounded` says that the value added up so far is at
most what the descriptors already read have used by now, and, with what those
still to be read show, at least what the key had used when the scan began. That needs what a sum over a
finite set is, which is recursive; the lemmas `SumUnfolds`, `SumType`, `SumTakes` and
`SumGrows` give it. Their induction is by a smallest counterexample among the
subsets of a finite set (`Smallest`, from `WFMin`), since the induction theorems of the
library cannot be instantiated.

`LevelZeroProofs`, for any drivers, devices and handles, any kinds and any lists
that fail, shrink or grow: `TypeCorrect`, `HandlesStayReal`, `FailuresAreLocal`,
`PositionsKeepTheirMeaning`. `Way(n)` is the set of calls on the way to a device or
handle n. The invariant says that `Open` has at most one call to make on the way to
anything and none to what it has kept (`Once`), that whatever hangs on lists that
neither failed nor changed is kept or has such a call (`Reach`), and that a list
that has not changed since it was counted is as long as that (`Counted`). `Replaced`
and `BelowFacts` are the step: a list is replaced by one call for each node it
returned, which is on the way to exactly what hangs on that node. For `Update`,
`Positioned` says that what was sent is about the handle at the position it names.

Three of the findings below have a theorem that gives their only cause.
`OnlyEqualTypesCollide`: `UniqueSeries` holds unless two handles of a device share
subdevice and type. `OneDescriptorIsRight`: a total is at most one clock for each
descriptor, so `TotalIsElapsed` holds when every key has one. `BusiestByTime`: among
clients that show their use as time the cap does keep the busiest.

The assumptions are those named in the modules:

- numbers are numbers, sets of processes, descriptors and nodes are finite, a channel
  has room for one, an event is not called "free" or "other";
- a word has at least one bit, and a difference of byte-sized numbers that wraps is
  wider than a word (`Wrap`);
- card numbers are below 10; GT and tile numbers are finitely many; a hwmon
  directory has a sensor, and those of one device have different names, as i915
  (one for the device, one for each GT) and xe (one) register them. That is a fact
  about kernels: the code would send two directories of one name as one series
  twice, and the fixture of `discovery_test.go:67-70,139` has such a pair;
- a Level Zero handle hangs on one device, a device on one driver, and no kind of
  handle is called "driver" or "device" or listed twice.

Only model-checked is liveness, which the prover cannot treat: the liveness half of
`ImplementsScrapeSpec`, `UpdaterNeverStuck`, `GoroutinesEnd`, `GoneChildForgotten`,
`SampleReachesCache`, `PipesKeepMoving` and `StopsWhenAsked`. Every other property of
a passing run is a theorem.

## 6. What modelling showed

Four disagreements have a run that shows them:

- A child that dies in the middle of a JSON object leaves the decoder retrying
  for ever; the death is never noted and the last sample is served as a
  success (`gputop_cut`). One malformed object has the same cause and effect. It is
  the only way: `GoneChildForgotten` holds for any other output.
- The cap ranks by `drm-engine-*` only, so clients that show cycles only, as those
  of xe may, always rank last (`fdinfo_xe`).
- `drm-total-cycles-*`, a clock, is added up over descriptors (`fdinfo_cycles`).
- Engine groups of the same type share a series, which makes the whole scrape
  fail (`levelzero_groups`).

Others were met and have no run, because one statement shows them: a listener
failure ends the program with status 0, though `docs/systemd.md` restarts on
failure (`main.go:145`); intel_gpu_top is started beside an available PMU though
the flag calls it a fallback (`main.go:109`); `dropped_processes` counts keys
(`fdinfo.go:160`); the per-client counters fall when a descriptor is closed
(`fdinfo.go:141`); sizes with a unit are multiplied in uint64 (`fdinfo.go:276`); a
throttle time that cannot be read is published as 0 (`levelzero_linux.go:250`); two
Level Zero devices whose PCI address is refused share one, empty label
(`levelzero_linux.go:114`); `docs/kernel-feature-matrix.md:26` says that every entry
of the matrix carries a `Ref`, and several have none. What the start-up log announces
is not always served: `i915.hwmon.power` and its like are announced for every i915
GPU (`kernelinfo.go:125-127,219-232`), also for one without a hwmon directory, whose
source is then inactive (`hwmon.go:47-54`). `NothingIsLeftOut` is about the other
direction, a GPU whose files are there and go unread.

What the properties of `Sysfs` leave possible, and TLC reaches, is the price of
discovering once: a GPU that is rebound during a scrape may have a hwmon series
twice, so that the scrape fails (`NoSeriesTwice` confines it to devices that move
meanwhile); values below `cardN` carry the labels of the GPU found there
first (`ValueOfItsDevice` confines it to labels of a GPU that has been unbound
since); `/health` says all is well as long as any of the numbers exists, whoever has it.

## 7. What is not modelled

- Values read from files and their units, except where a property is about them;
  in `Fdinfo` the six maps of a key are filled alike, in `LevelZero` the 16
  families of metrics of a handle differ only in labels, in `Sysfs` one family
  stands for all files that lie side by side.
- Text that is only parsed: `uevent`, link speeds and hwmon file names, sizes, the
  first CPU of a cpumask, the split of an event name into labels, the
  `perf_event_paranoid` message. HTML pages, logging, flag parsing.
- `append(base, channel)` in `hwmon.go:106` may write into an array that earlier
  samples shared: the labels have been copied by then.
- In `Sysfs`: the PCI device itself does not vanish, a file that is there can be
  read, the files of a GPU are read in any order (more than the code does), one
  source runs at a time (they share only the kernel's files; the concurrency of
  sources is `Scrape`), GTs of the series are positions, and card, hwmon and GT
  numbers are below 10, where the order of text is that of numbers. `moved`,
  `moving` in `Sysfs` and `read` in `PmuEncode` are history, which no action reads.
- In `Fdinfo` a directory that may not be read is one without entries. In
  `Exporter` only the two sources with state outside a scrape occur, a timer
  that ends a `Collect` is punctual to a tick, and no request is lost because its
  connection is closed as idle at the moment it is read.
- The two memory reads of a Level Zero handle (`MemoryState` and `MemoryBandwidth`),
  which fail one by one and share their labels, are one read in `LevelZero`.
- Memory layout of the Level Zero structures; the loader there runs to its first
  missing symbol, and nothing is called afterwards (`Load`).
- The stubs for other systems, which do nothing.
- External, modelled from how the code uses it: the kernel's files, the child, the JSON
  decoder, the Level Zero library.

## 8. The plan

Written, in this order: `ScrapeSpec` and `Scrape` (every source depends on it),
`ScrapeProofs`, `GpuTop`, `Pmu` and `PmuProofs`, `Exporter` (which composes
them), `Fdinfo`, `LevelZero`; then `PmuEncode`, `KernelInfo` and `Sysfs`; then the
proofs of all of them, with the refinement of `ScrapeSpec` in `ScrapeProofs`.

Left, in order of worth:

1. Kernel files that fail to be read now and then, and PCI devices that vanish, in
   `Sysfs`; what then remains of `SteadyIsWhole` is about files that can be read.
2. The refinement of an abstract sysfs scrape (the set of series of the steady GPUs)
   by the walk and the reads, which `NoSeriesTwice`, `ValueOfItsDevice` and
   `SteadyIsWhole` state in three parts.
3. A theorem for `gputop_cut`, as for the other findings: a scrape serves a dead
   child's sample only if the decoder is stuck. It is `GoneChildForgotten`, and needs
   liveness.
