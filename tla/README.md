# TLA+ development for 1BRC_for_traP

The repository holds one program in 28 successive versions
(`src/00-naive.c` … `src/27-robust.c`) and the tools around it
(`tools/*.zig`).  The program reads a CSV of up to a billion messages
(`timestamp,channel,message_length,stamp_count`), and writes, for every
channel and month of 2027, the minimum, average and maximum length, the
number of messages and the sum of the stamps.  `src/27-robust.c` is the
version that is submitted; the modules here model it in most detail, the 27
programs before it (how each reads a row, tells names apart, cuts its input,
and gets through a whole run), the reference implementation they are compared
with, the conversions of numbers of six entries of others, and the tools that
keep state between runs.  Paths below are relative to the repository's root
(`PROJECT.json` puts `src/` before them).

## 1. Inventory

| Component | Code | State | Operations | Interacts with |
|---|---|---|---|---|
| Input partition | `src/27-robust.c` 499-534, 377-393, 556-563 | mapped file, `tail_start`, `ctx[t].begin/end`, sample end, `bp` | choose the tail, split into shares, cut a sample, walk the rows | reads the file; hands row starts to the parser |
| Row parser | 116-251 | one word, `Row` | `parse_row`, `name_len`, `parse_uint`, `swar10` | called by `run_range` and `process_row` |
| Calendar | 53-79 | `day_month` | `month_of` | called when a row is resolved |
| Name fingerprint | 86-91, 196-283 | `Slot` | `fingerprint`, the test in `channel_id`, `middle_equal` | the table |
| Channel table, statistics | 81-114, 264-298, 310-375, 395-410 | `Ctx` | `init_ctx`, `channel_id`, `update_stats`, `renumber`, `merge_into_first`, the batches of `run_range` | one `Ctx` per thread |
| Threads, merge, output | 469-632 | `created`, loop variables, output buffer, exit status | create, run inline, join, tail, merge, open, format, write, close | shared memory `ctx[]`, the file system |
| Average formatting | 425-467, `tools/reference.zig` 12-43, `src/26-out.c` 411-453, six files of `submissions/` | — | `put_u64`, `put_avg`, `writeAvg` and their like | the output |
| Reference | `tools/reference.zig` | hash map | one pass | `verify` compares its output |
| Download tool | `tools/download.zig` | destinations, one temporary file, the writer | fetch with retry, decompress | HTTP server, file system; later runs |
| Benchmark tool | `tools/bench.zig` | `work/bench-out.txt`, `results/bench.jsonl` | delete the output, run, verify, in turn for two programs; append to the log | the programs, `verify`; later runs |
| Verifier | `tools/verify.zig` | — | compare two outputs, show differences | called by the benchmark tool |
| Other tools | `status`, `leaderboard`, `jst`, `submit`, `check_submission`, `gen_edge`, `channels`, `perf`, `asm` | mostly none | fetch and print, wrap programs | HTTP server, compilers |
| Build graph | `build.zig` | — | steps and their dependencies | all of the above |
| Predecessors | `src/00-naive.c` … `src/26-out.c` | as above | as above, each with one idea more; most calls unchecked | — |
| Entries of others | `submissions/` | — | only their conversions of numbers are modelled | third-party; `08-TwoSquirrels.c` is a copy of `27-robust.c` |

What is hard in it, and so what the properties are about (the list with the
lines is `hazards` in `PROJECT.json`):

- **Boundaries of bytes.**  Shares and samples are cut at proportional bytes
  and moved to the next row; the parser loads up to 64 bytes beyond what it
  needs; names are compared by 8-byte windows; two numbers share a word.
- **Pointers and ids that move.**  Statistics are resolved to pointers in one
  stage and written in another; between sample and rest all ids change.
- **Threads.**  Any subset of the threads may fail to be created, they end in
  any order, and the only synchronisation is the join.
- **Partial failure.**  Scratch memory for the renumbering, output memory,
  short and interrupted writes, errors at close; in the predecessors most of
  these go unnoticed.
- **Positions read in turn.**  `08` reads a share from four positions in
  lockstep, `22` from two; batches, a sample and what a stream leaves
  over must fit together.
- **Rounding.**  The average must be what `printf` prints, which every version
  from `26` on, and most entries, compute in integers.
- **State across runs of the tools.**  A killed download or benchmark leaves
  files that the next run finds.

What makes each component correct: the partition takes every row once and from
its start, and no load leaves its memory; the parser reads what is written; the
month is the month; two names match exactly when they are equal and a name
always hashes alike; the table is a faithful index and the statistics of a
worker are the tally of its rows; the whole program writes the reference's
result or fails (before `27`: or a call failed unnoticed, and even then what is
in the file is of lines that report no more than there is); every conversion prints what `printf` does; a
tool's file holds what its runs put there, and the benchmark's log only what
was verified.

## 2. Modules

| Module | Models | Composed with |
|---|---|---|
| `Layout` | the bytes of an input: rows, their widths, line starts | extended by `Partition`, `Cuts` |
| `Partition` | `27`: the cuts of the input and the walk over it, in bytes, threads interleaved | — |
| `CutRules`, `Cuts` | `02`-`26`: the same, with what each does (a record of `CutRules`), its streams and its parser's loads | `RowParsers`, `NameTests` |
| `Parse`, `Calendar`, `RowParsers` | all 28: one row from text to values; the month; which routines a program has | `Parse` extends both |
| `NameMatch`, `NameTests` | all 28: names told apart by fingerprints; which test a program has | assumption of `Ctx` |
| `Formatting` | numbers and averages as text, in nine programs | — |
| `Ctx` | the context and the operators on it, no state of its own | used by `Worker`, `Main` |
| `Worker` | `27`: one thread: batches of three stages, sample, renumbering | implements `Tally` |
| `Tally` | abstract: count the rows one by one | — |
| `Main` | `27`: the whole run with all its threads and failures | implements `Aggregate` |
| `RunRules`, `Versions` | `00`-`26`: the whole run with failures, noticed and not | compared with `Aggregate` |
| `Aggregate` | abstract: what `tools/reference.zig` computes | — |
| `Download` | the download tool over several runs | — |
| `Verify` | the comparison of two outputs, no state of its own | used by `Bench` |
| `BenchLog` | `appendLog` of the benchmark tool over several runs | implemented by `Bench` |
| `Bench` | the benchmark tool with its programs and the verifier | extends `BenchLog`, `Verify` |
| `MC*` | the small instances | extend the module of that name |
| `*_proofs` | theorems and proofs | extend the module of that name; `Text_proofs` extends `Partition`, `NameMatch` and `Formatting` |

A module of rules has one definition per program and concern (`Calendar03`,
`Threads20`); a program that kept a part of its predecessor has its definition
(`Threads03 == Threads02`).  So a row of the repository's history is one record, and the
modules above them have one action per step whatever the program.

The three levels of the program meet as follows.  `Partition` shows that the
shares are consecutive runs of whole rows; `Main` takes any such split as its
shares.  `Worker` shows that batches, probing and renumbering only ever count
row after row; `Main` lets a worker count one row per step.  `NameMatch` shows
that names of up to 24 bytes with equal fingerprints are equal and that longer
ones are compared; that is `PrintAssumption` of `Ctx`.  `Parse` shows that a
row's text is read as its values; above it a row is a record of them.  `Cuts`
is to `Versions` what `Partition` is to `Main`.

### How state and actions correspond to the code

**Partition.**  `file` is the input: its size, the offset of its first row and
the shape (widths of the three variable fields) of the row at each start.
`ChooseTail` is 499-519 (`TailOf`), `Assign` one iteration of 524-534
(`ShareEnd`, `LineAfter` is the `memchr` idiom), `StartWorker` the head of
`worker` with `SampleEnd` 382-385, `ParseRow` one call of `parse_row`,
`EndRange` the end of either `run_range`, `Join` 547-554, `BufferRow` one turn
of 562.  `Loads` collects the ends of all loads of `parse_row`, `name_len` and
`fingerprint`.  A thread that could not be created and is run by main takes the
same steps, in an order that is one of the interleavings.

**Parse.**  A word is a function from its eight lanes to bytes; `LaneMinus`
borrows from lane to lane, so that the false positives of `zero_bytes` are
there.  One action per part of `parse_row`; which routine it uses follows from
`parser`, a record of `RowParsers`.  `Memchr`, `CommaFrom`, `NameLenByMarks`,
`NameLenByWords` and the vector compare are the five ways to find the comma,
`DigitLoop` and `Swar10` the two to read a number, `Calendar` has six ways to the month.

**NameMatch.**  A view is a name with the bytes that happen to follow it.
`Insert` fills a slot from one view, `Lookup` tests it with another, as
`channel_id` does; the merge looks up views in `ctx.names`.  `program` is a
record of `NameTests`; `HashInput` is what the program hashes.

**Formatting.**  `PrintNumber` and `PrintAverage` are one conversion by
`program`, one operator each after its source (`PutAvg`, `WriteAvg`,
`AppendAverage`, …).  A double is a mantissa of `Precision` bits and an
exponent; `RoundTo` rounds as IEEE division does, `Printf` is the reference.
The shifts are `Two`, the table of powers `Ten`: recursive functions, so that
the theorems can be about them.

**Cuts.**  One step of main is `ChooseTail` (the tail), `NextShare` (`PartEnd`
is the end of a share or of a stream), `Joined`, `BufferRow`; one of a worker
`ReadRows` (a row of every stream), `CountBatch`, `EndRange` (`RangesOf` is
sample and rest, `LeftOver` what several streams leave).  `NameLoads`,
`NumberLoads`, `PrintLoads` follow from the program's parser.  Workers run one
after the other: they share nothing but the mapping.

**Versions.**  `ReadLines` is a run of `00` and `01` up to the output;
`Partition`, `CreateThread`, `RunWorker`, `Join`, `TailRows`, `MergeNext` are
those of the others.  `ignored` is the set of the kinds of calls that failed and
whose result the program does not look at: `"create"`, `pthread_create` (the
share is lost, and the join of an uninitialised id fails or faults); `"malloc"`,
in `renumber` (`RenumberFaults`: it writes through the null pointer at once, so
the program is killed before it opens the output); `"read"`, `fgets`; `"output"`,
`fprintf`, `fclose`, `close`.  The output is bytes: a line is cut into `Pieces`,
and `<<l, k>>` is the k-th piece of line `l`.  `PrintBytes` is `fprintf` with the
stream's buffer behind it, whose blocks end anywhere in a line: any pieces may be
lost and the ones after them written, which joins the front of one line to the
end of another.  `WriteSome` takes any number of pieces, none included, or
fails; `Close` may find that any set of pieces did not reach the disk, and the
file has a `Hole` in each of their places.  `LineOrders` has the orders the
lines may have: `00` keeps channel and month in one bucket, so its lines come in
any order, the others write the months of a channel one after the other, and the
channels in that of their ids or of their slots.  Contexts are
disjoint, so a worker's whole call is one step: `WorkerResults`, the rows in
turn with a renumbering (`Renumberings`) after any first part of them.

**Ctx.**  `table[s]` has the slot's `id` and `print` (`first8`, `last8`,
`mid8`, `len` as one value), `names` and `stats` are the arrays by id,
`countStamps` is the packed count and stamps with `Word` for 2^32.
`ProbeEnds` says that the endless loop of `channel_id` ends; it is a guard of
every action that probes, so that a probe that does not end is a thread that
never takes another step.  `RenumberResults` has the renumbered context and,
for the failing `malloc`s and `n <= 1`, the unchanged one.

**Worker.**  `stage` is the loop in `run_range` that runs, `dst` the pointers
(id and month), `base`, `p`, `u` the rows before the batch, parsed, updated.

**Main.**  `pc` is where main is, `phase[i]` where the worker of `ctx[i]` is.
`CallWorker` … `WorkerReturns` is the inline call after a failed
`pthread_create`.  Every error return is an action or a disjunct: `CannotStart`,
`JoinFails`, `OpenOutput`, `Format` (malloc), `WriteFails`, `Close`.  `exit`
ends every thread, as the return from main does.

**Download.**  `tmp` and `dest` are files as sequences of blocks; `buffer` and
`at` are the writer's unwritten bytes and file position.  `Killed` may happen
between any two steps.  Any error of `statFile` counts as an absent destination,
so `CreateTmp` may follow for one that is there; `unseen` remembers for which
destination that happened, and `cutShort` the destinations at which a run died
or failed while it wrote them and that no run has opened since.

**Bench.**  `Start` … `RunRejected` are one measurement (`timedRun`), with
`turn` the program; `output` is `work/bench-out.txt` and `own` remembers
whether the program just run wrote it.  A measured time is a record of what it
rests on, `evidence` those of each line.  `AppendRead` … `AppendDies` are
`BenchLog`'s `Read`, `Create`, `Write`, `Return`, the calls of `appendLog` in
order, and `Dies`, everything that ends one early.  The log is a sequence of
pieces: the writer's blocks of 4 KiB end anywhere in a line, so a line is cut
into `Width` of them and `Write` brings one into the file; a death leaves any
beginning of the contents, and the next append its line behind it.  `Verify` has
the sort (as what it yields: the lines that are kept, each once, in order), the
comparison and the merge that shows differences; a line is its text, as a number
that orders alike, and the `\r` behind it.

## 3. Runs

| Run | Question | Bounds |
|---|---|---|
| `partition` | is every row parsed once, from its start, within memory? | ≤ 5 rows of 17, 138 and 84 bytes, 1-3 threads, the code's own 160, 365, 128 and 64 |
| `cuts` | and by each of `02`-`26`, with its streams, batches and loads? | ≤ 6 rows of 17 and 138 bytes, 1 to 5 processors or none known, batches a quarter of the code's |
| `worker` | does a worker count exactly its rows through batches, collisions and renumbering? | 3 channels (2 with one fingerprint), table of 4, batches of 2, ≤ 5 rows, all cuts, 9 hashes |
| `main` | does a run with all its failures lose, double or misreport a row? | ≤ 3 threads, ≤ 3 rows, all splits and samples, 2 colliding channels, one interrupted write |
| `versions` | what does a run of `00`-`26` write when calls fail unnoticed? | ≤ 3 threads, ≤ 3 rows, 2 channels, 2 months, all splits and samples, lines of 2 pieces |
| `name_match` | is each of the 28 tests equality? | names of 10 lengths from 1 to 33 around every boundary, a marked byte anywhere, two kinds of bytes behind |
| `parse` | does each of the 28 parsers read what is written, and find the month? | 23 × 24 pairs of numbers with 1-10 digits, names of 1-104 bytes, the first and last second of every day of 2027, both values of `SCAN` |
| `formatting` | is every average printed as `printf` does, every number in decimal? | totals and counts ≤ 100 with 15 bits of mantissa; numbers around every power of 2 and 10 |
| `download` | what can a destination hold after several runs? | 2 datasets of 2 blocks and 1, 3 runs, 3 attempts, kills anywhere |
| `bench_log` | what does the log hold, and what do its lines rest on? | 85 outputs of ≤ 3 lines, 2 expected ones, 2 measurements, 3 appends of lines of 2 pieces, a log readable up to 3 pieces |
| `download_skip`, `download_retry` | see "Disagreements" | as `download` |

Why the bounds are enough: the partition's inputs lie on both sides of the
160-byte margin and of the 128-byte sample, with empty shares, and with rows
longer and shorter than a share; the theorems of section 5 lift them to every
input.  Two batches and a sample that ends within one, two long names with the
same fingerprint, a probe that wraps and permutations that are not involutions
(three channels) all occur in `worker`.  In `main` two workers hold the same and
different channels, merged into a context that knows them, one, or none of them,
with the tail in between.  The lengths in `name_match` are on both sides of 8,
16, 24 and 32.  In `cuts` the inputs are on both sides of the 160 bytes, there
are more threads than rows, streams that are empty from the start, ones that
end in the middle of a batch, and full batches; `04` to `10` are given inputs
with a row (`HasRows`), because without one they compute with a position
before the first row.  A mantissa of 15 bits against numbers up to 100 leaves
the room for two decimals that 53 bits leave for 2^32 (`PrecisionAssumption`);
all ties and all quotients next to one occur.  In `bench_log` a log is
unreadable by its length as well as by an error, a line lacks its end in the
file that the third append reads, and an output may be left from another program
or another dataset.  In `versions` two pieces of a line are enough for the front
of one line to meet the end of another; the inputs of three rows are those of
two kinds of rows and one of all three, all shorter ones are there.  `Word` is 16 in `worker`, `main` and `versions`: sums stay below it, as
the rules of the contest (`contest.md`, chapter 2) keep them below 2^32
(`SumsAssumption`, which TLC evaluates in `main` and `versions`).

Properties worth naming:

- `OnceEach`, `StartsAligned`, `LoadsInside` (`Partition`).
- `TableInv`: ids and occupied slots in bijection, no gap between a name's
  first slot and its own; `PointersFresh`; `HotFirst`: a renumbering that moves
  anything leaves the ids by descending frequency; `CountsRows`: refinement of
  `Tally` (`Worker`).
- `NoSharing`: main uses a context only when no worker can take a step;
  `Conserved`: at every moment the contexts, less what is already merged, and
  the rows still to be counted come to what the whole input does; `Implements`: refinement of
  `Aggregate`; `Exits` (`Main`).
- `Trusted`: a run of any predecessor that exits 0 and of whose calls none
  failed unnoticed has written the text of the reference's result; it says
  nothing of runs with an unnoticed failure, which are `NeverMore`'s: whatever
  failed, every line of which a piece stands in the file reports no more rows,
  stamps or characters than there are and no extreme outside its own, and the
  file is a beginning of the text unless bytes of the output were lost.  If they
  were, two such lines may run into one another, and what a reader of the file
  would then take for one line can report anything (`Versions`).
- `MatchIsEquality`, `SameNameSameSlot` (`NameMatch`); `ReadsRow`,
  `MonthsAgree` (`Parse`); `PrintsAsPrintf`, `WithinHalf`, `WritesDecimal`
  (`Formatting`).
- `OwnContents`, `PartialIsCutShort`, `KeepsObtained`, `RunsEnd` (`Download`);
  `LogIsHistory`, `LogInOrder` (`BenchLog`).  `PartialIsCutShort` is said of each
  destination: another one's accident does not excuse it.  `LogInOrder` permits
  loss, since the code loses lines, but not a line without its front, twice, out
  of order or in the middle of another.
- `OnlyVerified`: a line of the log rests on right outputs that its program
  wrote itself, although an old output may survive its deletion;
  `VerdictRight`: the verifier accepts exactly the outputs with the expected
  bag of lines and shows true differences of the others (`Bench`).

`CHECK_DEADLOCK FALSE` is in every configuration because every system here
stops: a worker ends, a program exits, the runs of a tool are bounded.

### Disagreements between the code and what is said of it

Two runs expect a violation; each has its entry under `findings`.

- `download_skip`: a destination cut short by an error or a kill is reported as
  obtained and skipped from then on.
- `download_retry`: a retry truncates the temporary file but keeps the writer's
  buffer and position, so the archive does not start the file.
  `PartialIsCutShort` and `OwnContents` say how far the damage goes: the
  decompressor rejects it, and no other dataset is touched.

Two more were met and have no run of their own:

- The comment on `Slot.mid8` (`src/27-robust.c` 88) says 0 for names of at most
  eight bytes; the code stores what is there.  Harmless: `MatchIsEquality`
  holds with what is stored.
- "Appends one line" (`tools/bench.zig` 111) reads, truncates and rewrites: a
  process that ends in between, or a log that cannot be read, loses the older
  lines, and glues the next one to what is left of the last.  `LogIsHistory` and
`LogInOrder` say what is left to rely on.

## 4. Fairness

- `Partition`: weak fairness of main's step and of each worker's step: threads
  that were created are scheduled, and main waits only in `pthread_join`.
- `Cuts`, `Versions`: weak fairness of the next-state relation: threads that
  can run do, in whatever order.  In `Versions` this also says that a `write`
  which takes nothing, and is tried again, takes something in the end: `26` would
  repeat it for ever.
- `Worker`, `Main`: weak fairness of the whole next-state relation only.
  Nothing is asked of which thread runs: a run ends whatever the schedule,
  because no step undoes another.  Interruptions of `write` are bounded by
  `MaxInterrupts`, without which no schedule would have to end.
- `Download`: weak fairness of the steps of a run (not of `Killed` or `Start`):
  a run that is not killed goes on, and the HTTP client eventually gets a
  response or an error.

## 5. Proofs

Every theorem holds for all values of the constants under the assumptions of
the module that declares them (`FilesAssumption`, `SizesAssumption`,
`PrintAssumption`, `WorkerAssumption`, `MainAssumption`, `SumsAssumption`,
`NameAssumption`, `PrecisionAssumption`, `NumbersAssumption`, `DownloadAssumption`, `BenchAssumption`, `CutsAssumption`,
`VersionsAssumption`, `ProgramsAssumption`), which TLC evaluates on the
instances.  `SumsAssumption`, of `Main` and of `Versions`, is the rule of the contest
(`contest.md`, chapter 2) that for each channel and month the number of messages, their total
length and their stamps fit in 32 bits; without it the packed counters of the
program would wrap and the reference's would not.

- `Text_proofs`, on `Partition`: `TypeOK`, `OnceEach`, `StartsAligned`,
  `LoadsInside`.  The inductive invariant says what is assigned so far (shares are consecutive,
  start and end at rows, and lie below the tail), where each worker is, and for
  every row how often it was taken as a function of those positions; that every
  taken count is at most one is not inductive without it.  `LoadsInside` is
  arithmetic over row shapes: a row that starts at or before `size - 160`, or in
  a buffer of 365 zeroed bytes, has all its loads inside.
- `Text_proofs`, on `NameMatch`: `MatchIsEquality`, `SameNameSameSlot` for
  each of the 28 programs, by cases on the test and the length: every byte of a
  name is in one of the windows that are compared.
- `Text_proofs`, on `Formatting`: `PrintsAsPrintf`, `WithinHalf`,
  `WritesDecimal`, for every total and count and every precision with
  `200 * Largest < 2^Precision` (binary64 and 32 bits satisfy it by far).  The provers
  know nothing of powers or of recursion: `Recursion` and `PowerExists` show
  that `Two` and `Ten` satisfy their equations, the rest is arithmetic on
  `NearestIs` (the nearest integer is the only one within half, ties to even).
  `RoundToFacts`: the mantissa is within half a unit of the quotient and the
  shift the one that fills it; since `100 * count < 2^s`, the hundredths next to the rounded quotient are within half of one
  of the exact quotient (`HundredthsNear`), which is `WithinHalf`.  Each
  program's arithmetic is then shown to be the nearest integer to the same
  quotient: by comparing with half (`WriteAvgPrints`, `WriteAverage2dpPrints`,
  `RoundedHundredthsPrints`), by a bias (`AppendAveragePrints`), by a product that is held
  whole (`RintLongPrints`), by one that is not but cannot cross the next
  integer by more than the correction mends (`FusedFractionPrints`), and
  without a double, unless on a tie (`ExactUnlessTiePrints`).  The digits are
  `IsDecimal` (digits, the value, no leading zero), by strong induction over the number, whichever end a program starts
  from and however many digits it takes at once (`PutU64Writes`,
  `WriteU64Writes`, `AppendPairsWrites`, `Wu32Writes`); the room that two of
  them measure is the length of the text for each of the 32 widths
  (`EstimateDigitsIs`, `FastDigitCountIs`).  `FormatInv`: a text that was
  written is what the conversion gives for `total` and `count`.
- `Worker_proofs`: `TypeOK`, `TableInv`, `PointersFresh`, `HotFirst` and the
  refinement `CountsRows`.  The lemmas: a probe that stops either finds the name's own slot
  or an empty one, and in the latter case the name is not in the table; an
  insert and a renumbering keep the table an index; renumbering moves names and
  statistics alike, so that the tally it represents does not change.  `HotFirst`
  compares rows of a channel, a sum over its months, before and after a
  renumbering, so it rests on the sums of `Shared_proofs` and on `Counted`, that
  all counts are naturals.
- `Cuts_proofs`: `OnceEach`, `StartsAligned`, `LoadsInside` of the programs
  from `02` to `26`, for every program that keeps to `CutsAssumption`: it parses
  in place byte by byte, or leaves its last line to a buffer of a line and loads
  no vector, or leaves a slack of 160 bytes.  `CutsInv` says that the rows below
  the end of the shares so far are waiting in exactly one stream of one range
  (`Reading`, of which `Apart` is the heart), listed once in the batch, or
  counted (`Counted`); each step of a worker moves rows from one of the three to
  the next.  That streams stay apart needs that `PartEnd`, `Mid` and the sample
  cut at row starts in order (`StreamsCover`, `RangesFacts`), and that what is
  left of several streams when the first ends becomes ranges of its own
  (`EndStep`).  `InPlace` and `InBuffer` are the arithmetic of the loads.
- `Shared_proofs`: where the rows of an input begin and end (`RowBelow`,
  `LineAfterFacts`, `PortionFacts`, `SlackFacts`), for `Text_proofs` and
  `Cuts_proofs`; what inserting, updating, renumbering and merging do to a
  context and to the tally it represents, for `Worker_proofs` and `Main_proofs`;
  that a truncated timestamp has the day of the whole one and its index is in
  the table (`TruncationKeepsDay`, `DayInTable`); what joining sequences keeps
  (`FlattenOnce`); and sums over finite sets.  `SumFunction` is a fold, about
  which the library has no theorem the provers can use; `SumExists` and `SumSolution` derive that
  a sum is what its elements come to in any order, by induction in the form
  "every set of naturals has a least element".  `StatsSet` bounds the fields of
  the statistics by `Word`.
- `Main_proofs`: four theorems about a whole run of `27`.
  `MainInv` (which workers have ended as main's loops advance, where each
  position is, and that every context in use is well-formed and its statistics
  in range) gives `NoSharing` and `TypeOK`.  `Conserved` is inductive beside it:
  it is a balance between what the contexts hold and what is still to be
  counted, and each action is one of three entries: a row moves from the one
  side to the other, a channel moves between two contexts, or nothing that
  counts changes.  A balance of sums says nothing about minima and maxima, so the
  refinement `Implements` needs three more: `FromRows`, every extreme in a context
  is attained by a row of that channel and month; `TailCounted`, main does not
  merge before it has counted the tail; `Written`, the output is the first `w`
  of the lines to write.  At `Format` everything is in `ctx[0]`, so `Conserved`
  makes the count, total and stamps of each entry those of its rows
  (`SumsAssumption`: no wrap), and with as many rows counted as there are,
  `FromRows` makes the extremes theirs; `FlattenOnce` shows that the lines
  are written once each.
- `Versions_proofs`: `TypeOK`, `Trusted` and `NeverMore` of the runs of `00` to
  `26`, for any input, number of threads, split, and number of pieces of a line.  Neither of the last two is
  inductive: they speak of the file, and what is in the file was decided in the
  contexts.  The proof is about the predicate `Summarises`: a context has the
  channels of a set of rows, each once, and for every channel and month the
  minimum, maximum, sums and number of those of its rows.  `CountRowsHolds`,
  `WorkerHolds` (straight through or renumbering after any first part) and
  `MergeCtxHolds` (two disjoint sets, the channels in any order a table may
  give) say what the operators make of such a context, in whichever of the three
  ways the sums are kept: `PartFits` bounds the sums over a part of the rows by
  `SumsAssumption`, so that a narrow sum does not wrap and packed stamps do not
  carry into the count.  `VInv` then says which rows a context holds at every
  step (`Held`: of a worker that has returned, its share; of main while it
  merges, also the tail and the shares merged so far), who has returned when
  nothing failed unnoticed (`ThreadInv`), and that the lines come from one set of
  rows, which is all of them if nothing failed, and the file from the text of
  those lines, of which it is the first `w` pieces unless some were lost
  (`WriteInv`).  `TextFacts` is the arithmetic of lines and pieces,
  `LineOrdersFacts` that every order has each line once.
  `NeverMore` is then that a sum over some of the rows is at most the sum over
  all (`LineBelow`), `Trusted` that the lines over all rows are the reference's
  (`WholeSummary`).  Two facts nobody asked for were needed: between the join
  and the merge `t` is 2, or the merge would skip shares; and a program that
  takes its minimum from the first row never merges (`ProgramsAssumption`),
  since a minimum of 0 in an empty context would survive.  The lemmas on sums
  and joins are those of `Shared_proofs`, through an instance of it with an
  empty table, for nothing in them depends on `Ctx`.
- `Download_proofs`: `TypeOK`, `OwnContents`, `PartialIsCutShort`,
  `KeepsObtained`.  All attempts of a fetch write through one writer, so the
  temporary file may hold error pages and gaps; `DownloadInv` says that the
  archive's blocks lie in it as in the archive, all moved by one distance, and
  a decompression that accepts the first block knows that the distance is 0.
  `PartialIsCutShort` and `KeepsObtained` hold of each destination by itself, in
  the cases that it is the current one or another.
- `Bench_proofs`: the tool implements `BenchLog` (`Refines`), from which
  `LogIsHistory` and `LogInOrder` follow by an invariant on what is in the file
  and what in memory at each place of `appendLog`, for any number of pieces of a
  line: the file is a beginning of the contents, which are in order; and `OnlyVerified`, by an
  invariant on how often each program has been measured.  That a measurement
  that was accepted is right is `VerdictRight`, for files of any length:
  `Normalized`, sorting keeps how often each text occurs; `SameIsEqual`, sorted
  files in which each text occurs as often are equal; and `DifferencesRight`, by
  induction over the lines that are left, what the merge shows from two places on
  is what one file has more often than the other from there on, and all of it
  unless the limit was reached.  `LoopExists` is what makes the loop, a recursive
  function, one the provers can unfold.

Only model-checked: liveness (`Termination`, `Finishes`, `Exits`, `Ends`,
`RunsEnd`) and everything with ENABLED; `ReadsRow` and `MonthsAgree` of `Parse`
(`Bitwise` and recursion over the digits, which the provers do not take).

## 6. Not modelled, and the plan

Not modelled:

- `madvise`, `MAP_POPULATE`, huge pages, prefetch, streaming loads and the
  measuring markers: no effect on what is computed.
- The probing of the predecessors' tables (`WithChannel` is its result); the
  probing of `27` is in `Worker`.  The stack the renumbering needs.
- The reader of `tools/reference.zig`, the clock and the median of
  `tools/bench.zig`, and the reading of options everywhere.
- `submissions/`, apart from six conversions: third-party programs with
  designs of their own.
- `status`, `leaderboard`, `jst`, `submit`, `check_submission`, `gen_edge`,
  `channels`, `perf`, `asm`: one pass each that keeps nothing; `build.zig`: the
  order of its steps is the build system's.

The hash `mix` is any function: the modules explore or quantify over all of
them.  With no channel the output's `malloc(0)` may or may not fail; `Main`
permits both.

Next: the tables of the predecessors (the buckets of `00`, the packed slots of
`06` and `07`) as refinements of `Versions`' contexts.
