# 6SEVEN in TLA+

6SEVEN generates IPv6 scan targets and scans them. A *target generation
algorithm* (TGA) is trained on known addresses and proposes new ones; a scan
engine probes them; the replies can be fed back to the algorithm while it
generates; an alias detector keeps whole prefixes that answer on every address
from being mistaken for many hosts. This directory holds TLA+ modules of the
parts of the program where tasks interleave, verdicts are fed back or long
sequences of calls matter, the TLC configurations that check them, and proofs
of the central invariants for every size of the parameters.

Paths are relative to `src/`.

## The system

### Parts, their state, and what makes them correct

| Part | Source | State | Operations | Correct when |
|---|---|---|---|---|
| prefix set | `core/src/prefixes.rs` | disjoint ranges of addresses | insert, contains, covers, prefixes | looking at one range answers for the whole set; the listing is exact and minimal |
| model protocol | `core/src/model.rs`, `source.rs` | – | `generate`, `apply_feedback`, `GenerationState` | one verdict per target, prefixes announced before the targets they make skipped |
| generation, composition | `core/src/generation.rs` | candidate filter; per part pending addresses and state | `generate`, `accept`, `Composed::generate` | parts stay in step; it gives up only at the end; it ends |
| registry | `core/src/registry.rs`, `tga/src/registry.rs` | providers; artifact revision | train, open, save | a failed save leaves the artifact as it was |
| alias detector | `scan/src/dealias/detector.rs` | aliases, tests pending, complete and queued, samples | consider, next_test, reply, finish, take_aliases | no test is lost or repeated, "not detected" is final |
| probing session | `scan/src/session.rs` | pending probes, waiters, outbox, deadlines, counts | submit, consider, next, finish | one verdict per target, no probe lost from the counts, it settles |
| adaptive scan | `scan/src/adaptive.rs` | feedback, generation state, filter, the model's task | drive | every candidate is answered, the journal is what the model was told, it ends |
| scan engine | `scan/src/engine/` | channels, tokens, counters, senders, receivers | source thread, send, receive, rate limit | cancellation reaches every task; a completed scan is whole; the counters follow the wire |
| finite scan | `scan/src/finite/mod.rs` | run handle, event channel | forward, cancel, join | the outcome is named rightly |
| dealiasing | `scan/src/dealias/mod.rs`, `finite/mod.rs` | a session | run, run_dealias, drive_source | every listed address is decided |
| scan command | `cli/src/commands/scan.rs` | writer thread, 64 batches | run_adaptive, run_standard | all results are written before the scan is reported |
| packet links | `link/src` | rings shared with the kernel | try_send, flush, try_recv | frames are neither lost nor reused early |
| probes | `probe/src` | none | build, parse | stateless |
| 6Tree, DET | `tga/src/hierarchical/sixtree`, `det` | tree of regions, batch, queue | generate, apply_feedback | no address twice, rounds end, exhausted means complete |
| 6Forest, 6Graph | `tga/src/hierarchical/sixforest`, `clustering/sixgraph` | regions with samplers, quotas, ranking; patterns, the round's sample | generate, apply_feedback | ranked on whole samples; no address twice; exhausted means complete |
| 6GCVAE, 6GAN | `tga/src/ml/sixgcvae`, `sixgan` | streams, batches half used, allocation, budget | generate, apply_feedback | shares follow the evidence, whatever its order; a saved model goes on where it was |
| 6Gen, 6Probe, 6VecLM | `tga/src/clustering/sixgen`, `hierarchical/six_probe`, `ml/sixveclm` | ranges, patterns, cursors | train, generate | the search is exact, the enumeration complete |
| Entropy/IP | `tga/src/other/entropy_ip` | segments, states, network | train, sample | what is sampled obeys the model and the evidence |
| address algorithms | `tga/src/cluster.rs`, `pattern.rs`, `subspace.rs`, `cursor.rs` | a queue of groups | pure functions | agree with their definition |
| plugins | `plugins/src` | request id, worker thread, child process, failed latch | call, model requests | a late answer is never taken for another's |
| formats | `formats` | files | read, write | a file is old or new, never half |
| train, feedback, scan, dealias | `cli/src/commands` | the artifact, output and journal | run | nothing is saved unless all of it was written |
| other commands, analysis, profiling | `cli`, `analyze`, `profile` | counters | print | sequential |

`PROJECT.json` lists all of them, with what is modelled and why a part is not.

### How they interact

    model  <-- feedback --  drive() --- submit/next -->  Session --- txq ---> senders --> link
           -- targets -->  (Adaptive)  <-- feedback --  + Detector <-- ackq --
                                                                  <-- results -- receivers <-- link

A standard scan has the right part only: a source thread fills `txq` and a
forwarding task hands replies to the caller (`Engine`). `drive()` runs the
model in a blocking task, so verdicts arrive while the model works.

### Behaviours that are hard

* A reply can come before the acknowledgement of its batch, after the deadline
  of its test was set, or together with the deadline. (`Session`)
* Alias tests and targets share the room on the wire, and one of them can be
  decided while the other is queued. (`Session`, `Detector`)
* `next()` is a branch of other tasks' `select!` and can be dropped where it
  waits. (`Session`)
* Bounded channels in a ring: source, senders, session, receivers and the
  caller all may wait for room. (`Session`, `Engine`)
* One of several tasks fails, the caller cancels or stops reading. (`Engine`)
* The model is fed what came in before it was started, not what came since;
  a round ends only when all its verdicts are in. (`Adaptive`)
* A model's regions overlap, replace each other and retire between a target and
  its verdict. (`SixTree`, `Det`)
* Verdicts come late, twice, in any order, or not at all, while a budget is
  being divided by them. (`SixForest`, `SixGan`, `SixGcvae`)
* A plugin answers late, twice, with nonsense, never, or dies. (`Plugin`)
* The writer fails, a file cannot be written, the program is killed, while a
  model has been told what the journal does not hold yet, or while a line of the
  journal is only partly in its file. (`Output`, `Command`)
* The kernel refuses a wakeup or takes part of a burst. (`Link`)

## The modules

| Module | Models | Extends or instantiates |
|---|---|---|
| `Detector` | alias detector | |
| `Session` | probing session with its senders, receivers and deadlines | extends `Detector`, refines it and `Feedback` |
| `Feedback` | abstract: what a session promises a model | |
| `Adaptive` | `drive()` | instantiates `Feedback` as its session |
| `Engine` | one finite scan | |
| `PrefixSet` | prefix set | |
| `SixTree` | 6Tree | |
| `Generation` | `generate()` and `Composed` | |
| `Link` | a worker on a packet link | instantiates `AfXdp`, `AfPacket` |
| `AfXdp`, `AfPacket` | the rings of the two backends, with the kernel | |
| `Plugin` | a plugin: client, worker thread, child, server | |
| `Output` | the writer thread of a scan | |
| `Drive` | a fixed source driven through a session | |
| `Command` | train, feedback, scan, dealias, from start to result | extends `Plugin`, `Output`, `Drive`, `SeqUtil` |
| `Address` | addresses, patterns, subspaces | |
| `Cluster` | divisive clustering | extends `Address` |
| `Isolation` | outliers of 6Forest and 6Probe | extends `Address` |
| `SixForest`, `SixProbe` | 6Forest, 6Probe | extend `Isolation` |
| `SixGraph`, `SixGen`, `SixGan`, `SixGcvae`, `SixVecLm` | the generators of these names | extend `Address` |
| `Det` | DET | |
| `Argsort`, `Mining`, `EntropyIp`, `EntropySampler` | Entropy/IP, each on the one before | extend `Address` |
| `Learners` | every generator but 6Tree, in use | instantiates them |
| `SeqUtil` | sums, joins and selections of sequences, as recursive functions | extended by `Session`, `Adaptive`, `Generation`, `Engine`, `Command`, `SixTree` |
| `Facts` | lemmas on them, on finite sets and sequences | extends `SeqUtil` |
| `SessionProofs`, `AdaptiveProofs`, `EngineProofs`, `CommandProofs`, `SixTreeProofs` | theorems; the first also on the `Detector` | extend their module |
| `PartsProofs` | theorems on the parts that `MCParts` runs | extends `PrefixSet`, `Generation`, `Link` |
| `VerdictProofs` | theorems on the verdicts of a session | extends `SessionProofs` |
| `MC*` | instances for TLC (`Learners` needs none: its cfgs give all values); `MCParts` runs `PrefixSet`, `Generation` and `Link` side by side | |

Two operators `X_Variant` and `X` that stand next to each other are a plausible
fault and the code's form. The variants are used nowhere but to show that a
property notices the fault when the variant takes the place of `X`.

### Detector

Variables are the fields of `Detector`: `aliases` is the coverage of its
`PrefixSet`, `pending`/`replies` the `pending` map, `complete`, `queue`,
`samples` (the map from sample address to test) and `discovered`. Actions are
its methods. `PrefixAt[a][l]` is the address truncated to the l-th configured
length; `PrefixAssumption` says what truncation guarantees. The three sample
addresses are numbered 0..2 instead of drawn. No clock is in the module: a test
ends with `Finish`, at any time after it was handed out.

### Session

`next()` is split where other tasks run: `PumpTest`/`PumpTested`/`PumpBatch`
(the loop of `pump()`), one of the events (reply, acknowledgement, deadline,
loss of the engine), the drain of further replies, expiry, and return. The
senders take a batch, send it and acknowledge it; a reply to a sent probe may
arrive at any time. `due` is the set of targets whose reply was in the channel
when their deadline was handled. At its `select!` the future may be dropped, so
`Submit`, `Decline` and `Ask` are also enabled there. The order of the
deadlines is that of the acknowledgements. `told` is what the model is told of
an address, `records` what the output is given; both are history.

The caller is any that keeps to the contract: it submits what it was granted by
`capacity()` (`granted`), asks for addresses to be considered, declines the
rest, calls `next()` and in the end `finish()`.

### Feedback

Each target goes from "none" to "asked" to one of "Active", "Inactive",
"Skipped"; announced prefixes only grow; "Skipped" if and only if a prefix
announced so far covers it. `KeepsPromise` is the refinement: a session that
probes no target twice implements it.

### Adaptive

`StartModel` is the top of the loop: drain the feedback the model is to be
given (up to 4096 items), the room for targets, and the branches that stop the
loop. `RunModel` is the blocking task. `ModelDone` handles what it returned:
the journal, the filter, aliases found meanwhile, submission and the checks on
empty rounds. `Pass` are the session's calls of the same `select!`. The session
is `Feedback`'s actions with `wire`, the targets not yet expired.

### Engine

One action per step of a task: the source thread (`Fill`, `Enqueue`,
`SourceEnds`), each worker's sender (`Take`, `Transmit`, ...) and receiver,
`run_engine`'s phases (sending, receive window, drain), the task that forwards
replies and names the outcome, and the caller. Targets are counted. Rate
limiting appears as the burst a sender sends at a time. Within a burst frames go
out one by one (`Transmit`) and are counted together after the flush
(`CountBurst`, `send.rs:123-134`): `inBurst` are those between, and `transmitted`
is history, what the interface was handed. When `try_join!` fails it drops the
workers (`engine/mod.rs:242`), and a sender inside a burst is aborted at its next
await (`AbortSender`): its frames are on the wire and never counted. Progress
statistics, the shortcut for an empty plan and the abort of a dropped run are
left out. A source that fails and one that is shorter than planned both fail the
scan.

### PrefixSet

`insert()` is a sequence of steps (`InsertCovered`/`InsertApart`/
`InsertJoining`, then `Absorb` until nothing touches, then `Store`), so that the
invariant of the loop can be stated. Addresses are `0..Top`; `SatAdd` is
`saturating_add`. `given` is history: the addresses of all prefixes inserted.

### SixTree

An address is a function from digit positions to digits; a node is identified
with its set of seeds. `Generate` is `generate()` up to the buffer; the loop
that advances over completed rounds is a sequence of steps (`FinishRound`,
`WidenSuspect`, `ClearSuspect`, `MarkAlias`) between the call and `Emit` or
`Return`. The order of the cursor within a region is free, so are the samples
of an alias test and the order of leaves of equal depth. Seeds are different.
Where the code recurses or loops the model says what comes out: `Levels` is the
tree by depth, `Ascending` the one increasing list of a set, `Merges` the one
order `merge_scanned_nodes()` ends with. `Replaced` does all promotions of a
`replace_descendants()` at once: no promoted parent is below another, so each
retires nodes of its own, and the loop's order shows only in the order in which
the parents join the batch.

`ScannedOnce` has an exception that the code has: a node whose last digit added
nothing but aliases leaves the queue (`mod.rs:417`) with all it has scanned. When
a sibling is later widened to their parent's stack, the parent inherits from the
batch and the queue only, and generates those addresses again, although
`allows_repeated_probes()` is false (`tga/tests/sixtree_feedback.rs:80`). It needs
an alias that is reported by the caller; TLC finds it on the instance of the run
`sixtree` when the exception is taken out. `drive()` removes such repeats only when the generation
is `unique`.
Densities are compared as fractions where the code uses floating point. Left
out: random seeds, the count of rounds, model files and their migration,
feedback on addresses the model did not generate, and two verdicts on one
address in one call.

### Generation

`generate()` and `Composed::generate()` as a loop over the parts. A composed
address is kept as the position it takes in every part's stream, so `InOrder`
can compare positions where the code has bits. Bit ranges are checked by
`compose()` when the composition is built; they, budgets and the two built-in
sources are left out.

### Link, AfXdp, AfPacket

A worker's calls: `Give` (a new frame to `try_send()`), `Retry` and the waits of
`send()`, `EndBurst` and `Flush`, `Close` wherever a cancelled worker drops the
call; `Recv` for a receiver. An operator of a backend is the set of outcomes the
code and the kernel can produce. Of AF_XDP a frame is free, pending, in the
transmit or in the completion ring, and the places are counted, since frames are
alike; the driver transmits at any moment and may sleep when it has nothing to
do. Of AF_PACKET each slot of a ring has its status, the program's place and the
kernel's. The kernel may refuse a call for now (`MaxRefusals`), fail it, reject a
frame, or take only some of the requested slots, at least one (`Taken`): the
socket does not block, so a `send()` may stop short. `flush_now()` takes any
return that is no error as done and clears `pending` (`afpacket.rs:137-141`), and with
nothing pending it does not call the kernel (`afpacket.rs:132`). So a `flush()`
may return with slots still requested, another `flush()` does nothing about them,
and they wait for the kick of a later `try_send()`, or a flush after one. Opening a
socket, choosing an interface and building frames are left out.

### Plugin, Output, Drive, Command

`Plugin` is the client's `call()` with its request ids and its `failed` latch,
the worker thread that writes a request and reads a line, the child and the
server the SDK runs in it, or a library that answers in the caller's thread. A
model is the list of what was done to it, so one that has missed a call or done
it twice is told from one that has not. A plugin errs, answers oddly, twice or
with garbage, dies, or never answers (`Faulty`; nothing makes it serve). The wait
for a process has a timeout (`Timeout`); a native call (`CallNative`) has none
(`native.rs:74`) and returns when the library likes, or never (`NativeReturns`).
`Output` is the writer thread with its channel, its buffered records and the
journal. A batch of feedback is a line that `write_batch()` serializes through a
`BufWriter` of fixed size and flushes (`formats/src/feedback.rs:25-30`): a long one
takes several writes, so `lastLine` is the batch being written with how much of it
is in the file, nothing, a part or all (its newline may still be missing).
`Loadable` and `Readable` are what `load_batches()` makes of that file: a partial last
line is an error for the whole of it (`feedback.rs:18`). `Drive` is `drive_source()` and `dealias::run()`: a source thread, a
channel of batches, a session seen as the set of targets it has not settled, and
the outcome. `Command` puts them together: train, feedback, the adaptive and the
finite scan, and dealias, from start to result, with the artifact's revision,
the temporary file and its renaming. Any file operation may fail and the process
may be killed at any point. The adaptive scan is any sequence of what `Adaptive`
lets it do: generate, feed back and then send that feedback to the writer.
Options, progress and the syntax of the files are left out.

### Address, Cluster, Isolation

Addresses are functions from nibble positions to nibbles, with the number of
nibbles and their width as constants; subspaces and patterns are their sets and
their fixed bits. `Cluster` is the queue of groups of `cluster.rs`, one split
at a time. `Isolation` is the weighting both 6Forest and 6Probe use.

### The generators: Det, SixForest, SixProbe, SixGraph, SixGen, SixGan, SixGcvae, SixVecLm, Argsort … EntropySampler

Each module has the training of its generator as operators, and the model in use
as a record with the set `Steps` of its successors: generate, be told an
outcome, complete a batch, and, where the program keeps more than it saves, be
saved and loaded (`Reload`, `Migrate`). What is drawn at random is a choice;
where a shuffle decides only an order, the order is free. The neural networks
are external: constant operators give what a network makes of its seed
(`Decoded`, `Sampled`, `Chosen`), so that the same draw gives the same address,
as it does in the code. K-means and t-SNE, Python's random generator
and the training of networks are not modelled. Floating-point scores are exact
fractions, or thousandths in Entropy/IP and the entropy classes.

Facts of the code that the models show and that a reader should know:

* 6VecLM, 6GCVAE without classes and 6GAN without budget keep their progress
  only in memory: loaded again they begin anew. `NeverAgain` speaks of one life
  of such a model, and of every life of the others.
* 6GAN refuses to divide its budget when no sample has discovered anything or
  one is unresolved, and goes on waiting.
* 6GCVAE may decode two latent vectors to the same address; `NeverAgain` is
  about latent vectors there.

### Learners

The generators in use, one in each behaviour, each trained on a few seeds under
all configurations the run gives it; and the algorithms beside a reference
definition. `kind` says which, `work` is its run.

## What the runs show

| Run | Instance | Shows |
|---|---|---|
| `session` | 4 addresses, /0 and /1, two batches of two, 3 in flight, channels of 1 or 2 | no test is lost, given up (`QueuedUncovered`) or without its waiters (`WaitersServed`); "not detected" is final (`CleanStaysClean`); a settled session is complete; replies beat deadlines; it implements `Detector` (`DetectorSpec`) and `Feedback` (`KeepsPromise`) |
| `session_repeat` | targets probed twice, once in one batch; two senders; the engine may fail | every probe is counted, targets stay within the limit and the session fails only with the engine (`EveryProbeCounted`); one verdict per submission; it ends |
| `session_overcommit` | as `session` | violated: see the findings |
| `adaptive` | two targets and an alias of both; attempts 3, rooms of 2; faults | every candidate is answered, the journal is a prefix of, and in the end, what the model was told; rounds are whole; aliases come first; it ends |
| `engine` | 2 workers, 3 targets, batches of 2, channels of 1, 2 replies, faults, cancellation | targets are counted and a completed scan is whole (`CompletedIsWhole`), the counter of frames sent follows the wire (`CountFollowsWire`), cancellation always ends the scan, also with a caller that no longer reads (`ScanEnds`) |
| `command` | each command once; 3 targets, 2 batches of feedback, channels of 1; native and process plugins with every fault; failing files, a kill at any point | the model is in step with what the program told it (`InStep`), the journal holds what the model was told, in order, and can be read unless its last line is torn (`JournalIsReplayable`), a file is old or whole and saved only after all output was written (`SavedIsWhole`), a scan that succeeds has written everything, every command ends with its threads and its child, unless a native plugin never returns (`CommandEnds`) |
| `dealias_cancelled` | the finite scan of `command` | violated: see the findings |
| `parts` | all 15 prefixes of 3-bit addresses; 3 parts that answer with any batches, 8 sets of options; 5 frames, rings of 3, 2 refusals | queries and listing are exact; parts stay in step, generation gives up only at the end of a part and ends; no frame is lost between the rings and no ring is full of requests nobody will flush, also when the kernel takes part of them (`FramesAccounted`), frames arrive in order, every call returns |
| `learners` | 3 to 6 nibbles of 1 or 2 bits (32 of 4 for the classes of 6GAN and 6GCVAE), 1 to 6 seeds | no address twice; exhausted is complete; shares follow the evidence; seeds are in one place; a saved model loads; evidence holds; fast algorithms are exact |
| `det_rescans` | DET on one or two seeds of 3 bits | violated: see the findings |
| `sixtree` | 8 addresses, leaves at two depths, with and without detection | no address is generated twice but for what a dropped node had scanned, no round waits for verdicts that cannot come (both without detection), exhausted is complete |
| `sixtree_starved` | two leaves below one root, detection on | violated: see the findings |

### Bounds, and why they are enough

* *Addresses of a session.* A question of the detector depends on how prefixes of
  an address nest. With two lengths there are a coarse and a fine test and two
  fine prefixes below one coarse; more addresses repeat these cases. The proofs
  on the detector have no bound.
* *Channels of 1 or 2*, where the code has 64 and more: full and empty are the
  cases that matter, and small channels reach both at once. `DrainMax` is 1 or 2
  for 4096, so a drain can stop with replies left.
* *MaxInFlight = 3 or 4.* A test takes three probes, so a test fills the room or
  leaves exactly one target beside it.
* *MaxSubmit* bounds how often one target is submitted, *MaxReplies* the replies
  in a behaviour: two replies of one target, and two samples of one test, are
  among them.
* *Adaptive* has two addresses and three attempts: a repeated target, an alias
  found between candidates, an empty round and the last attempt all happen.
* *Engine* with three targets, batches of two and channels of one has a full
  batch, a partial batch and every task waiting; bursts of two have a frame that
  is out while the other is not, which is where an abort leaves it uncounted. Two
  replies fill the channels, so that a third would wait like the second.
* *Command*: `Rounds` 2 calls of a scan are enough for a late answer to meet the
  next request, an answer given twice, and a journal that ends between two
  batches or inside one. `MaxRevision` 2 reaches the last revision. Three targets in batches
  of two have a full and a partial batch, and channels of one block.
* *PrefixSet*: with Width 4 (31 prefixes, 913k states) the same invariants hold;
  the run uses 3 for speed. The proofs have no bound.
* *Generation*: `Buffer` 2 for 4096, counts above and below it; a part shorter
  than the others; a repeated, an excluded and a unique address.
* *Link*: five frames do not fit the rings of three, a batch of two leaves one
  over, the eight frames of a behaviour go around each ring more than twice, and
  two refusals hit both wakeups of one flush.
* *SixTree*: three binary digits give leaves that reach their parent at once and
  leaves that first widen. With 8 addresses regions are exhausted, overlap and
  are replaced. Two sets can be reported as aliases: the half of the leaf that is
  alone, and the half of the two others, so that a node can leave the queue
  early. Verdicts are one at a time (`Chunks`) in the passing run, which
  allows every partial round.
* *Learners*: with 8 or 16 addresses every generator reaches its end, several
  regions or patterns share a round, an alias takes part of one, and a
  generator is loaded in the middle of a batch of two. The networks return
  addresses that repeat, and classes discover different numbers of them, so that
  budgets do not divide evenly. DET is trained on at most two seeds in
  `learners`, of which those with a leaf that its parent should replace at once
  are excepted: `det_rescans` shows what happens to them. Sorting is checked on
  sequences longer than the constant from which it splits them, clustering on all
  sequences of up to five values.

### Fairness

* *Session*: the session's own steps, senders and the caller's calls of `next()`
  are weakly fair: they are tasks. Events are strongly fair, because `select!`
  picks among ready branches at random, so one that is ready again and again is
  taken. Replies are never promised. The caller in the end finishes and
  declines what it does not submit, as `drive()` and `run()` do.
* *Adaptive*: the scan's and the model's task are weakly fair. The branches of
  `select!` that take results are strongly fair for the same reason, and the
  session judges and expires every target, which `SessionEnds` shows of it.
* *Engine*: every task is weakly fair; replies, failures, cancellation and
  reading by the caller are not promised. `ScanEnds` names the caller's reading
  as the premise of its first half; its second half, after a cancellation, needs
  none.
* *Command*: each thread is weakly fair, and so is the clock behind the timeout
  of a process's answer. The plugin owes nothing, neither an answer nor its death,
  and the library of a native one need not return. Nothing in the program ends that
  wait, so `CommandEnds` has it as its second disjunct and promises nothing then.
* *Generation*: sequential code that runs. Parts may answer as they like.
* *Link*: the worker runs when its socket is ready, and the kernel in the end
  transmits what it has taken; without that no wait could end.

### Findings

1. `session_overcommit` (`scan/src/adaptive.rs:212`). `--max-in-flight` is
   documented as the maximum of outstanding targets, but room that was granted
   before alias tests were pumped is used after it without another look: probes
   on the wire exceed the limit. Targets alone stay within it
   (`EveryProbeCounted`).
2. `sixtree_starved` (`tga/src/hierarchical/sixtree/mod.rs:421`). With alias
   detection, `schedule_next_batch()` returns for a suspicious node before
   `replace_descendants()`. Two siblings can so be widened to their parent's
   region and past it, and then scheduled in one batch where each has left what
   the other has scanned. The model waits for feedback and generates nothing;
   the scan stops with "model repeatedly requests feedback without targets".
   Without detection this never happens (`PlainNeverStarves`, proved).
3. `dealias_cancelled` (`scan/src/finite/mod.rs:518`). With alias filtering, a
   source whose item is no address ends the scan as "scan cancelled" instead of
   with the source's error: dropping the session cancels the very token by which
   `run_dealias()` tells a cancellation from a failure. Without filtering the
   error is reported (test `join_reports_worker_failure`).
4. `det_rescans` (`tga/src/hierarchical/det/tree.rs:75`). DET's training makes
   the first expansion of every leaf before any node is compared with its
   parent. A leaf that then has its parent's stack is never replaced, and
   siblings scan the same addresses in different rounds, which DET's tests
   exclude on their seeds (`det/tests.rs:465`).

## What is proved

All theorems hold for every value of the constants under the named assumptions;
all are checked to the last leaf. Every proof has the same form: an invariant
that is inductive, one lemma for each action or group of actions that keeps it,
and what follows from it.

**`Facts`** holds what the proofs share. The sums and selections of the models
are recursive functions (`SeqUtil`), and tlapm has no induction rule that can be
applied to an operator. It can be applied to a set: `LeastNat` (a non-empty set
of naturals has a least element) gives `InductionUpTo` (a set that has 0 and with
`n < N` has `n + 1` has all of `0..N`), and with it facts about these functions
are proved as ones about the set of the lengths for which they hold. So
`TotalConcat`, `WeighConcat`, `WeighExcept`, `OutsideFacts`, `TotalOnes` and the
others are proved, not assumed.

**The detector** (`SessionProofs`; assumption: `PrefixAssumption`, prefixes nest).
`DetectorInvariant` shows `[]DetectorIInv`, where

    DetectorIInv == DetectorTypeOK /\ EveryTestHeld /\ CoarseFirst /\ NeverRetested /\ QueuedUncovered

`QueuedUncovered` is not inductive by itself: a reply could cover a queued
prefix by making one that contains it an alias. `CoarseFirst` rules that out: a
prefix is tested only after those that contain it, so of two prefixes that share an
address at most one is pending (`OnePendingPrefix`), and an alias found covers
no other pending prefix (`ReplyKeepsOthersUncovered`). `EveryTestHeld` ties the
queue to the pending tests, `NeverRetested` keeps complete tests from coming
back. `DetectorNeverSkips` concludes `[]QueuedUncovered`: the loop in
`next_test()` that passes over covered prefixes, and would leave their waiters
without an answer, never does. `DetectorCleanStaysClean` concludes the action
property `CleanStaysClean`: an address whose tests have all ended is touched by
no pending test.

**The session** (`SessionProofs`; assumptions: `PrefixAssumption`, `SessionAssumption`).

* `SessionImplementsDetector`: every step of a session, the engine's included, is
  a step of the detector or leaves it alone (`SessionStepRefines`). So the two
  theorems above hold within a session (`SessionKeepsDetector`).
* `SessionWaitersServed`, from `WaitersIInv`: who waits, waits for an open test
  of a prefix of its own that is not known to be an alias. `WaitersServed` alone
  does not say that a waiter is not covered, and would be broken by the verdict
  that ends the test.
* `SessionCountsEveryProbe`, from `CountsIInv`. `AccountsIInv` is the heart of it: `wire`,
  the copies of each target and the set of tests handed out equal what the
  batches in the outbox, both channels, the senders' hands and the deadlines add
  up to. It must allow for a failing engine, which drops batches without telling
  the session; so it says that there is a sequence of lost batches that makes
  the books balance, empty while the engine is up. `GrantIInv` adds what the
  caller may still submit, `AcksIInv` the sender's statistics.

**`VerdictProofs`** has the theorems on verdicts, from the above and

* `VerdictIInv`: the verdicts a target was given and those it is still owed
  (by its probes, and by the test it waits for, which may be the same one) are
  at most its submissions. Hence `SessionOneVerdict`. The part that makes it
  inductive is `Owed`: a target that was reported, is active or waits is in a
  different position towards the next event.
* `IdleIInv`: the session pumps or waits for events only with nothing left to
  resolve. With the books balanced, a settled session has no target without its
  verdict (`SessionSettled`).
* `DueIInv`: at the deadline, a target whose reply is in the channel has been
  handled or the reply is still there; when batches expire it has been handled
  (`SessionRepliesBeatDeadlines`).
* `PromiseIInv`: the detector's aliases are those announced and those about to
  be, and a target that was told active is cleared for good.
  `SessionKeepsPromise` concludes that a session refines `Feedback`. It assumes
  `MaxSubmit <= 1`, as `Feedback` does: it promises one verdict to a target that
  is submitted once. For more submissions `SessionOneVerdict` holds.

**`AdaptiveProofs`** (assumption: `AdaptiveAssumption`). `AdaptiveInvariant` shows
`[]AdaptiveIInv`, where

    AdaptiveIInv == AdaptiveTypes /\ TasksInOrder /\ OnlySeen /\ EachAnswered /\ Announced /\ RoundInOrder

and the four safety properties of the run follow. `TasksInOrder` says what the
model's task was given and has returned, and that its room is within the count;
`OnlySeen` that exactly the candidates were asked about. `Announced` strengthens
`AliasFirst` in both directions: every covered address has its announcement in
the feedback, or the filter could skip a target before it; and every judged target
has its item, or a repeated target could be skipped with no reason at hand.
`RoundInOrder` follows a model that asked for feedback until the end of the
round is told: the session stays settled from `BatchComplete` on, since nothing is
submitted before the model generates again. As the session is `Feedback`, the
theorems hold of `drive()` with any session that keeps that promise, and
`SessionKeepsPromise` shows that this program's does.

**`EngineProofs`** (assumption: `EngineAssumption`). `EngineInvariant` shows
`[]EngineIInv`, where

    EngineIInv == EngineTypes /\ TargetsCounted /\ SourceWhole /\ SendersWhole
                    /\ BurstsCounted /\ AllTransmitted /\ RepliesCounted /\ ErrorsKept /\ OutcomeNamed

`TargetsCounted` balances what was generated against what was transmitted and what is
in the queue and with the senders, `BurstsCounted` what was transmitted against what
was counted and what is inside a burst; the sum over the workers is a sum over a set
(`SumOver`, in `SeqUtil`), and `SumOverChange` says what a step of one worker does to it.
That a completed scan is whole needs a chain of reasons why nobody stopped too
early: a source that ended by itself has met its plan (`SourceWhole`), a sender
that ended without a cancellation found the queue empty and the source done
(`SendersWhole`), so beyond the sending phase everything was transmitted unless
the caller cancelled or a receiver failed (`AllTransmitted`); the result
channel is closed only when the receivers are done and it is empty, or the
caller cancelled (`RepliesCounted`); and an error stays with its worker until
`run_engine` fails (`ErrorsKept`). `EngineCompletes` concludes
`[]CompletedIsWhole`. `EngineCounts` concludes `[]CountFollowsWire`: a frame is missing
from the counter only while its sender is inside the burst, or for good when the
engine failed and aborted that sender. The caller sees the counter of a running
scan (`Event::Stats`, `finite/mod.rs:216`); a failed scan returns its error and no
summary.

**The prefix set** (`PartsProofs`; assumptions: `PrefixesAssumption`, a prefix is a non-empty
range of addresses; for the listing `NestingAssumption`, every address is a prefix
by itself and two prefixes nest or are apart, as aligned blocks do). `RangesInvariant` shows `[]RangesIInv`, where

    RangesIInv == RangesTypeOK /\ Separate /\ LeftIsClear /\ NothingLost

`Separate`: stored ranges neither overlap nor touch. `LeftIsClear`: while
`insert()` runs, nothing to the left touches the range being built, so absorbing
to the right is enough. `NothingLost`: what was inserted is what is stored or
being built. Separation makes the one range that `contains()` and `covers()` look at
the only one that can matter (`ContainsIsMember`, `CoversIsSubset`);
`PrefixSetAnswers` concludes `[]QueriesAgree`.
`PrefixSetLists` concludes `[]ListingIsMinimal` from the same invariant. The longest
block that starts where a range starts is one of the largest prefixes of the
range, and the others are those of what it leaves, because no prefix straddles
its end (`LargestSplit`). `Blocks` is a recursive function, so its proof first shows
that a function with its equation exists, cut from the right (`CutsExist`), and
then that any such function cuts off the largest prefixes (`CutsAreLargest`).

**Composition** (`PartsProofs`; assumption: `GenerationAssumption`). `GenerationInvariant`
shows `[]GenerationIInv`. `InOrder` needs `AskedInTurn` (a part before the one
being asked has addresses or has ended), `EndedByPart` (the composition ends only
by a part that has ended and has nothing pending) and `WithinCount` (what is
buffered and emitted is within the count). `CompositionsInOrder` concludes
`[]InOrder`: whatever batches the parts answer with, the n-th address takes the
n-th of every part.

**The packet links** (`PartsProofs`; assumption: `LinkAssumption`, sizes are positive
and a batch is smaller than its ring). For rings and batches of any size, any
number of frames, and a kernel that refuses or fails calls at will:

* `LinkAccountsFrames` concludes `[]FramesAccounted`: every AF_XDP frame is in one
  place, the requested slots of an AF_PACKET ring are those from the kernel's place
  to the program's, a ring with nothing pending is not full of requests, and a
  flush that has returned leaves nothing pending and no wake-up owed. The invariant
  is `TxIInv`. For AF_PACKET it says that the ring has a slot the kernel has
  rejected, which only a failed call or the drop leaves behind, or that `m` slots
  from the kernel's place on are requested and `current` is the slot after them,
  and not all of the ring is requested while nothing is pending (`InARow`). It
  holds however many of the slots a `send()` takes, if it takes one.
* `LinkReceivesInOrder`: `[]ReceivedInOrder`, from `RxIInv`: the kernel has filled the
  `m` slots from `current` to its own place (`Filled`), their frames are in the order
  they arrived (`InTurn`) and newer than the last one received (`Newer`).

**`CommandProofs`** (assumptions: `CommandAssumption`, `DriveAssumption`:
the constants have their types). `CommandInvariant` shows
`[]CommandIInv`, where

    CommandIInv == CommandTypes /\ OnPath /\ ModelKnown /\ Books /\ Settles /\ HandedOver /\ FilesReady

and four theorems follow, for all five commands, any plugin, any failure and a
kill at any point.

* `ModelKnown` gives `CommandInStep`. That the model is in step between two calls
  says nothing of a step during one, so the invariant follows the request: it
  is in the worker's channel or in the child's input, and then no line with its
  number exists (`RequestOnItsWay`); or it was served, and then every line that
  the client could accept, wherever it is, comes from a model that has done the
  call (`LinesAreAnswers`). The other lines are those of earlier calls, which
  have smaller numbers, and garbage; both latch `failed`. `OneAnswer` bounds what
  the worker holds for the caller, so that no line of an earlier call survives a
  later one. A scan that failed may leave a call behind; hence `Attends`. While a
  native library runs, the model behind it is what it was told before (`NativeRuns`).
* `Books` gives `CommandJournals` and one half of `CommandOutputs`: what was handed
  to the writer is written, in its channel or not yet sent (`Accounts`). A writer
  that fails drops its channel; of the lines begun there remains that they are a
  prefix. `CommandJournals` says of the file, whatever part of the last line it has:
  what `load_batches()` could read of it is a prefix of what the model was told, it
  is unreadable only when the command was killed or failed inside a line, and a scan
  that succeeded leaves all of it.
* `Settles` and `HandedOver` give the other half: a drive that ends has seen the end
  of its source with nothing on the wire, unless it was abandoned, and every reply
  of the session is delivered, in the caller's channel or about to be sent.
* `FilesReady`, with `ModelKnown` and `Books`, gives `CommandSavesWhole`.

**6Tree** (`SixTreeProofs`; assumption: `SixTreeAssumption`, finitely many digits and
seeds, any tree they make). `SixTreeInvariant` shows `[]SixTreeIInv`, where

    SixTreeIInv == SixTreeTypes /\ SixTreeNodes /\ SixTreePlain

* `SixTreeNodes` holds with alias detection too. `Sound`: the nodes in the batch and
  in the queue are disjoint sets of seeds, nothing above one of them has been
  touched, the stack of each is a prefix of the one it was trained with, and its
  targets are the addresses that agree with one of its seeds on that stack
  (`Around`). `Known`: what they have seen was judged or is an alias. `Covers`:
  below every root some node takes part, or all that the root reaches is known.
* `SixTreePlain` is for `alias_detection` off. `Owned`: a node has seen only addresses
  of its own `Area`, those that agree with one of its seeds in every digit in which
  a node above it differs. `Narrow`: a node of the batch has not reached its
  parent's stack, since `replace_descendants()` ran last. Then the cursor and the
  outstanding addresses are the frontier of the batch, and every address generated
  is an alias, was seen by a node that takes part or that was dropped (`Recalls`), or
  is outstanding and in the region of a node of the batch.

The heart is why two nodes never scan the same address. `FirstVariable` is the lowest
digit in which the seeds of a parent differ, and `initialize_ds()` pushes the steady
digits of a child in increasing order after its parent's: so it is the first of
the child's own digits (`StackFacts`), and the last to be widened before the child
reaches its parent's stack. As long as it has not, its region is within its `Area`
(`AroundInArea`), and the areas of disjoint nodes are disjoint (`AreaApart`). Two
nodes under one parent thus overlap only when one has reached the parent's stack,
and then `replace_descendants()` puts the parent in their place before they are
scanned (`ReplacedOwned`). A suspicious node is scheduled without that, so
`SixTreePlain` needs detection to be off; the finding `sixtree_starved` is what
happens otherwise.

From this: `ScannedOnceHolds` (a returned address is in the region of a node of the
batch that has not seen it, so no other live node has), `PlainNeverStarvesHolds`
(an address missing to one node of the batch has been seen by no other, so it is
outstanding) and `ExhaustedIsCompleteHolds` (with the batch the queue is empty too, and
`Covers` leaves only what is known). The tree and the stacks are recursive functions;
that functions with their equations exist is shown by the levels of the tree
(`LevelsFacts`, `StackIs`).

### Only model-checked

* Liveness (`SessionEnds`, both `ScanEnds`, `GenerationEnds`, `CallsReturn`,
  `CommandEnds`): fairness and ENABLED are beyond the proof system.
* All of `Learners`: what recursive definitions compute. Their modules declare
  RECURSIVE operators, which the provers do not expand.

## Not modelled

* Probes, records, analysis, profiling, the syntax of files: stateless, or
  sequential code that prints. `generate` and `analyze` change no file but their
  output. `blocking.rs` is a semaphore that no task holds while it waits for
  another.
* The networks of 6GAN, 6GCVAE and 6VecLM with their training, rewards and
  optimizers; k-means, t-SNE and the word embedding of 6VecLM: floating-point
  numerics without interleaving. What the program does around them is modelled.
* Opening interfaces and sockets, frame layouts, rate limiting beyond its burst,
  statistics and progress.
* The Python server of plugins: it follows the SDK's, which is modelled.
  `PluginModel` forwards neither budgets nor aliases to a plugin, and
  `Composed` no feedback; the models have no such calls there.
* Hazards close to one that is listed are not repeated in `PROJECT.json`.

## Plan

Done: the detector, session, engine and adaptive scan; the prefix set; every
generator; generation and composition; plugins, the writer, the drives and the
commands that compose them; the packet links; proofs of the detector, the
session and its two refinements, the adaptive scan, the engine, the commands, the
prefix set, composition, the packet links and 6Tree.

Left:

1. Theorems on DET: the argument of `SixTreeProofs` fits its patterns, and should show
   that only leaves trained at their parent's stack break it (`det_rescans`). Its
   operators would first have to be written without recursion, as `SixTree`'s are.
2. Splitting off what `Learners` composes into modules without RECURSIVE operators,
   so that `NeverAgain` and `SeedsInOnePlace` can be proved for each generator.
