# gr-ltetrigger: specification and verification

gr-ltetrigger looks for LTE downlink cells in a stream of samples. It is a set
of GNU Radio blocks: three chains `pss -> sss -> mib`, one for each physical
identity N_id_2, inside the hierarchical block `downlink_trigger_c`, and a
`cellstore` that collects what the chains report. The signal processing is
srsLTE's. What this repository adds, and what these modules specify, is the
control around it: when a signal counts as tracked, how the loss of a signal
travels down a chain, what a chain reports, and what the list of cells means.

Contents: [the system](#the-system), [the modules](#the-modules),
[the runs](#the-runs), [the proofs](#the-proofs), [findings](#findings),
[not modelled](#not-modelled), [what could follow](#what-could-follow).

## The system

| part | state it keeps | operations | interacts through |
|---|---|---|---|
| `pss` block (`lib/pss_impl`) | tracking flag, score, search timer; last ratio and peak position; two 200-entry measurement buffers; the srsLTE convolution average | `general_work`, `incr_score`, `reset_score`, the means, `set_psr_threshold` | input and output sample streams, a `tracking_lost` tag on the output; getters and one setter used from a user-interface thread |
| `sss` block (`lib/sss_impl`) | the synchronisation object with its average of the cyclic-prefix type | `work` | streams; reads and passes on `tracking_lost`, adds `cell_id` and `cp_type` tags |
| `mib` block (`lib/mib_impl`) | `d_cell`, the decoder and its sample buffer, the published cell | `general_work`, `pack_cell` | input stream and its tags; message ports `track` and `drop` |
| `cellstore` block (`lib/cellstore_impl`) | the list `d_cells`, a mutex | `track_cell`, `drop_cell`; queries `tracking`, `cells`, `latest_cell` | two message ports; queries from other threads |
| `downlink_trigger_c` (Python) | the threshold | constructor, `set_psr_threshold` | wires three chains and joins their ports |
| `cell_search_file.py` | the options, the deadline, the result | start, time-out, stop, wait, report | runs a flowgraph of three chains that exit on success and a cellstore, then queries the cellstore |

GNU Radio gives every block a thread and calls it when its input stream holds
enough and its output stream has room; streams are bounded and keep tags with
their samples; each message port has a queue of its own. None of that code is
in this repository: it is modelled from how `src/` uses it and marked external.

What is hard here:

- A loss of tracking is announced to the other blocks only by a tag on one
  half-frame, which must be emitted in the very call that loses the signal, and
  must be noticed by two more threads, behind half-frames of the old signal.
- The `pss` block skips the search in most calls while it tracks, and then
  works with the ratio, peak position and averages of an earlier call.
- The amount of input consumed depends on where the peak was, which may be in
  the history or past the end of the searched half-frame.
- The `mib` block is offered several half-frames at a time and looks at the
  tags of the first only.
- `track` and `drop` messages of one cell travel through different queues.
- The decoder is set up for each new cell from a structure that the last cell
  has left its values in.
- A search ends because the input ends, a chain exits or the time is out, or it
  hangs because a `pss` block throws; a cell may then be on its way to a
  cellstore whose thread ends with the others, and the report is made from two
  queries.

For each part, what makes it correct:

- `pss`: it tracks exactly while its score is at the maximum; every loss is
  announced at once; a coasting call continues where the last one ended; means
  never read what was measured before the last loss; the input is never used
  up; a steady signal is eventually tracked, a dead one eventually lost.
- `sss`: a prefix type is never averaged over two runs of half-frames.
- `mib`: `track` and `drop` alternate and carry the same cell; a cell published
  in one run never passes for a cell of the next run; a lost cell is withdrawn.
- `cellstore`: a tracked cell is in the list exactly once, behind any earlier
  cell of its chain; the list keeps no other cell (which fails, see
  [findings](#findings)).
- `cell_search_file`: a search ends; every cell found is reported once or was
  still waiting when the cellstore ended; no other cell is reported, and none
  is added behind the report.

## The modules

| module | models | code |
|---|---|---|
| `MovingAvg` | the two measurement buffers and their indices | `pss_impl.cc` 94-109, 143-149, 169 |
| `Pss` | the `pss` block on its input stream | `pss_impl.{h,cc}`; `downlink_trigger_c.py` 63-73 |
| `PssContract` | what the `pss` block promises the next blocks: abstract specification | implemented by `Pss` |
| `Sss` | the `sss` block between two streams | `sss_impl.cc` |
| `Mib` | the `mib` block at the end of a stream | `mib_impl.cc` |
| `MibContract` | what a `mib` block promises the subscribers of its ports: abstract specification | implemented by `Chain` |
| `Chain` | one chain: `PssContract`, `Sss` and `Mib` joined by two bounded streams | `downlink_trigger_c.py` 43-45 |
| `Cellstore` | the cellstore block with its two port queues | `cellstore_impl.cc` |
| `StoreContract` | what a cellstore promises the readers of its list: abstract specification | implemented by `Trigger` |
| `Trigger` | the ports of the chains (as `MibContract` promises) and one `Cellstore` | `downlink_trigger_c.py` 47-61, `cell_search_file.py` 81-89 |
| `Search` | one search: the script, the threads of its flowgraph and their end, over the ports and list of `Trigger` | `cell_search_file.py` 33-129 |
| `SearchContract` | what a search promises its user: abstract specification | implemented by `Search` |
| `MCPss` | instances of `Pss` for TLC | |
| `MovingAvgProofs`, `PssProofs`, `PssRefinement` | theorems about `MovingAvg` and `Pss` | |
| `ChainProofs`, `TriggerProofs`, `SearchProofs` | theorems about `Chain`, `Trigger` and `Search` | |

The abstraction is assume-guarantee: `Pss` implements `PssContract`, `Chain` is
built on that contract and implements `MibContract`, `Trigger` is the
composition of chains under that one with a cellstore (`TriggerIsComposition`)
and implements `StoreContract`, and `Search` is built on `Trigger` and
implements `SearchContract`. The streams of a chain and the queues of the
cellstore are modelled where their reader is.

Two contracts speak of something handed over: a half-frame in `PssContract`, a
message in `MibContract`. What was handed over last carries a turn that flips
each time, so that handing over the like of it again, or failing to, is a
different behaviour: a partial score lost without a tag breaks `StreamContract`
although the half-frame before was tagged too, and a message posted twice breaks
`PortContract`.

### Pss

One call of `general_work` is one step. What srsLTE returns is a choice: any
ratio of `Ratio` and any peak of `PeakPos` when the call searches, the stored
ones when it does not. The five outcomes are the actions

- `Acquire`: above the threshold, not tracking yet: a tagged half-frame;
- `Track`: above the threshold and tracking: a clean half-frame;
- `ChestError`: as `Track`, but the channel estimation fails and the call
  throws after it has consumed its input, which ends the block's thread;
- `Lose`: `reset_score` had something to lose: a tagged half-frame;
- `Drop`: nothing to lose: half a frame is thrown away.

The flag `d_tracking_lost` is not a variable: the only call that sets it also
clears it, when it hands on the tagged half-frame. `avail` is `ninput_items[0]`,
the input including `history() - 1` older items; `Deliver` is the upstream
block. `SetPsrThreshold` is the user-interface thread; `general_work` reads the
threshold once, so a change during a call is a change before or after it.
`since` is a history variable: calls since the last search.

The measurement buffers are abstracted to what their averages mean: which
entries an average reads, and which entries still hold something recorded
before the index was last set to 0. `reset_score` gives `memset` a number of
entries where it takes bytes; `Zeroed` says which entries that clears. The
indices are `size_t` counters used modulo the buffer size and clipped at it, so
`MovingAvg` keeps the two properties and wraps the counter at twice the size.

Assumed of the constructor's arguments: `track_after` positive and
`track_every` not negative. The code does not check them.

### Sss, Mib and Chain

A stream is a sequence of half-frames with the facts that matter about each:
whether it has the `tracking_lost` tag, the run it belongs to, and, behind
`sss`, the cell in its tags. GNU Radio sizes the buffers from the blocks'
output multiple, so both streams hold two half-frames (`StreamCap`). `pss` and
`sss` handle one half-frame per call. `mib` is offered one or two (`n`), copies
all of them into its sample buffer, reads the tags of the first, and consumes
one, or, after an attempt to decode, all of them: this is in the code
(`mib_impl.cc` 105, 117, 123, 133, 156, 179) and is what several properties
are about.

The actions of `Mib` are the return paths of `general_work` in order: `Reset`,
`Skip`, `InitFails`, `NotFound`, `Found`. The decoder is a record: whether it
was set up, for which cell, with which `nof_ports`, and with which buffer.
Assigning a larger vector to `d_sf_buffer[0]` moves the buffer, so a buffer is
named by its capacity in half-frames; the constructor's holds none. `decoded`
is a history variable: the run of the half-frame decoded last and the state of
the decoder that did it. Whether a decode succeeds is a choice, also with a
decoder that was never set up or failed to be.

`run` names the run of clean half-frames that a half-frame belongs to. A run
that follows another has any other name of the set `Run`: a new one, or that of
a run long past, of which half-frames might still be on their way. TLC has three
names in `chain_watch`; the theorems hold for every set of two names or more,
an infinite one included, and so for a name of its own for each run.

The cells a message may carry are `OwnCell`: an id made of the chain's N_id_2
and a detected N_id_1, and a decoded number of ports. `d_cell` and the decoder
may also hold the constructor's id 0 and 0 ports. That no message ever does is
part of what `PortContract` says.

### Cellstore and Trigger

The cellstore's thread takes one port at a time and empties it before it goes
to the next; `port` is the one it is at. Handlers and queries run under the
mutex, so each handler is a step, and what a query returns is the list.
Messages are pmt handles: `std::list::remove` compares handles, and the
comparison by content is commented out in the code (and is a mutant here).
Each publication takes an unused handle. `overtaken` is a history variable:
messages whose drop was handled while their track was still waiting. The throw
in `track_cell` is unreachable: `pack_cell` always adds a `cell_id`, which is at
most 503 and never the marker 1000 (theorem `OwnIdentity` of `ChainProofs`, which
also says that the id tells its chain, as `Message` has it).

`StoreContract` is the same system for a reader of the list, without queues,
handles or order: three sets, of cells being tracked, announced and listed. A
cell is announced when its chain tracks nothing, listed once for each time it is
announced, and removed only when its chain has given it up. It does not promise
that a cell given up is removed, because the code does not (`trigger_stale`).

`drop_cell` keeps the other entries by `InOrder`, the enumeration of the kept
positions from first to last, rather than by a recursive filter, so that the
module can be proved about.

The three calls of `set_psr_threshold` reach three blocks that share nothing,
so each is a step of its own, and `SetPsrThreshold` of `Pss` is that step.

### Search

`Search` begins after `tb.start()` and has the script's `main` as a sequence of
places, `pc`: sleeping until the time is out (`TimeOut`, which stops the
flowgraph without looking whether it has ended), waiting for the flowgraph
(`Wait`), and the two queries (`AskTracking`, `Report`). The options are chosen
in `Init`; only whether a file is repeated, a cut-off is given and a time-out is
given matters. The ports, the list and the chains' messages are an instance of
`Trigger`, of which a chain that exits on success uses `Publish` only.

How a flowgraph ends is GNU Radio's doing and is external: a block's thread ends
when the block returns `WORK_DONE`, when its input has ended and is used up, or
when the flowgraph is stopped, and its neighbours are told; a block that throws
ends without telling them. So `Find` ends its chain and, through the source, the
other two; `Throw` leaves the two threads behind the `pss` block and the source
waiting, which only a stop ends; a cellstore's thread may end after the first
chain that ends, before it has emptied its ports. `Throw` leaves the chain
running because half-frames it handed on before may still be decoded.

`SearchContract` is what is left of this for the user: cells are found one after
the other, one for each chain at the most, and the report is made once, of the
cells found first. How many is a choice: a cellstore's thread may have ended
before the last messages reached it.

## The runs

| run | bounds | what it shows |
|---|---|---|
| `pss_calls` | the first and last peak of a 20-sample half-frame with 1-sample symbols, the aligned one and the one after it; deliveries of 1, 7 and 20 samples into a buffer of 60; `track_after` 3, `track_every` 2, buffers of 5 entries; ratios 1, 3, 5 around thresholds 2 and 4 | type, score against tracking, announcement of losses, freshness of both means, the convolution average, the assertion on the amount consumed, alignment, contiguity of coasting calls, the promised stream, and both liveness properties |
| `chain_watch` | two half-frames per stream, `track_after` 2, three run names, two cells (one of them is the constructor's default cell) | resets through both streams, port discipline, withdrawal of lost cells |
| `trigger_store` | three chains, three handles | the list against what is tracked, and as `StoreContract` promises it; once no more cells are lost, the list catches up |
| `search_report` | three chains, three handles, every combination of options | what is reported against what was found, and as `SearchContract` promises it; a search ends |
| `pss_one_point`, `pss_every_nth`, `pss_input`, `chain_loss`, `chain_ports`, `chain_nonsense`, `trigger_stale`, `search_time_out` | small instances | the [findings](#findings) |

Why the bounds are enough. `Pss` treats scores, timers and ratios uniformly:
what matters is below, at and above a limit, and all three occur. Buffers of
five entries wrap, and one of them is inside the bytes that `memset` clears
while four are not. What a call consumes grows with the peak, so its limits are met
at the first and the last peak, with the least input a call is given, which
occurs. In a chain the
distance between two blocks is limited by the streams, which are as long as in
the program. In the cellstore two publications of one chain and one of another
are alive at once, which is all that the handlers can confuse. A search posts at
most one message for each of the three chains. Everything that is checked in
safety is also proved for all constants.

`chain_watch` needs `track_after` 2 or more: two tagged half-frames then lie
between two runs, and `mib` can swallow only one of them. With `track_after` 1
`CellOfThisRun` fails. The default is 16. `CellIsOfThisRun` proves it for every
`track_after` not below the capacity of the streams.

Deadlock is checked in the `pss` and `trigger` runs. A chain may really stop:
after the `pss` block has thrown, after `WORK_DONE`, or when nothing more is
handed on; and so may a search, which ends, or waits for ever.

Fairness. The scheduler goes on calling a block that can run, so the blocks'
steps are weakly fair. `Pss` also assumes that samples go on arriving, as from
a radio or a repeated file, and that the stream behind it is read. Nothing is
assumed of the user, and in `Chain` nothing makes the `pss` block hand on
another half-frame: `DroppedAfterLoss` has that as its hypothesis. In `Trigger`
only the cellstore's thread is fair, and what that gives is `ListCatchesUp`: the
thread empties a port before it takes the next, so a track may wait for ever behind
drops that never stop coming, and that a published cell always reaches the list
is not claimed (three handles would make it look so: a chain whose tracks wait runs
out of them). Once no chain loses its cell, both ports are emptied and every
cell tracked is shown, with any number of handles. In `Search` every thread that can go on
does: the script, each chain that can end, the cellstore, and the source as
long as no `pss` block has thrown, since it then waits for that block to read.
Nothing makes a chain find a cell or throw.

Every property of a passing run has a mutant: a definition changed the way a
plausible bug would change the code, for which the run reports the property
violated. They stand next to the definition they mutate.

## The proofs

`PssProofs` proves, for every slot and symbol length, score limit, search
period, buffer size and set of ratios, thresholds, peaks and deliveries that
satisfy `PssAssumption`:

- `TypeCorrect`, `ScoreAndTrackingAgree`, `LossIsAnnounced`, `MeansAreFresh`,
  `OffsetIsOfThisCell`, `AverageNeverMixed`, `AssertionHolds`,
  `TracksAligned`: the invariants of `pss_calls`;
- `CoastsContiguously`: the action property of `pss_calls`;
- `SearchPeriod`, which measures the finding `pss_every_nth`: `track_every` calls
  skip the search and the next one makes it, for every `track_every`. It follows
  from `TimerCountsCalls`, a part of the invariant; no run checks it;
- `OverrunIsBounded` and `OverrunNeedsLatePeak`, which measure the finding
  `pss_input` and which no run checks: by how many items a copy can run past the
  input at most, and that it happens only in a call that searched and found its
  peak after the first slot, so never while the input is aligned.

All follow from one inductive invariant, `IInv`. Its parts need each other: the
announcement of losses is inductive only with the score's relation to tracking
(a `Drop` must not happen while tracking, and it happens at score 0); coasting
is contiguous only because the stored peak is the aligned one; a mean stays
fresh only because the buffer has its shape. The assertion is not inductive as
it stands: `WindowLeft` gives the amount left after any call, `slot_length -
symbol_sz`, from the least input the scheduler offers and the last peak the
search can report. The lemmas `PushRing` and `ForgetRing` of `MovingAvgProofs`
say what recording and forgetting do to a buffer, `HitStep` and `ConsumeStep` what the actions
that hand on a half-frame have in common; the invariant is then preserved by
one lemma per kind of call.

`MovingAvgProofs` also justifies the abstraction of the buffers. `BufferOfCode`:
for every number of entries and every value `i` of the code's index, which only
grows until it is reset, the record that `MovingAvg` keeps writes entry `i %
moving_avg_sz`, averages the first `min(i, moving_avg_sz)` entries, and forgets
the same ones as the code. It rests on lemmas about remainders, and no run
checks it. (The index is a `size_t`; that it wraps at 2^64 calls is ignored.)

`PssRefinement` proves `Refinement`: `Pss` implements `PssContract`, with the
score as the contract's count of hits.

`ChainProofs` proves, for every `track_after`, stream capacity, set of
identities and of antenna ports that satisfy `ChainAssumption`:

- `TypeCorrect`, `OnePrefix`, `BufferIsSettled` and, for `track_after >=
  StreamCap`, `CellIsOfThisRun`: the invariants of `chain_watch`;
- `Refinement`: a chain implements `MibContract`, for the cells of `OwnCell`;
- `OwnIdentity`: every message, a drop included, names an id below 504 whose
  remainder by 3 is the chain's N_id_2. `Trigger` relies on it to tell the
  chains' cells apart, and it is why `track_cell` never throws; no run checks
  it;
- `ExitIsAnnounced`: a chain that exits has announced its cell and does not
  withdraw it. It follows from the same invariant and no run checks it.

The argument is about `way`, all half-frames between the `pss` and the `mib`
block, the `sss` block's output before its input. `RunsApart`: between two clean
half-frames of different runs there is a lost one at least `track_after` places
behind the first. `NextRunApart` says the same of the run that is still to
come, which is what makes it inductive: by the time the `pss` block is tracking
again it has handed on `track_after` lost half-frames. A call of `mib` decodes
one half-frame and swallows at most `StreamCap - 1` more, so the lost one is
still on its way when the cell is published; `ResetOnItsWay` says so and is
preserved because consuming a lost half-frame first in a call withdraws the
cell. `PrefixResetOnItsWay` is the same for the `sss` block, which takes one
half-frame per call and needs no condition. The lemmas `Way...` say how handing
on, passing on and consuming half-frames change `way`.

`TriggerProofs` proves, for every set of chains and of handles and queues of any
length, `TypeCorrect`, `StoredOnce`, `LeftoversOvertaken`, `NewestIsLast` and
`QuietIsExact`: the invariants of `trigger_store`. The argument is about `stored`, the list followed
by the waiting tracks: handling a track does not change it (`MoveHead`), a
publication adds a new cell at its end, and a drop leaves an ordered part of it
that has lost only copies of the dropped cell (`DropKeeps`, through the
embedding of the new positions in the old). The invariant adds that a chain
tracks a cell with its own N_id_2, that a cell whose drop is on its way is no
longer tracked, and that `LeftoversAreKnown` of the waiting tracks too; without
the last, a leftover could enter the list unaccounted for. `NoneTwice` says that
no message is stored or waits twice, tracked or not, so that a drop, which
removes every copy of its handle, removes one cell.

Two theorems join the module to its neighbours. `Refinement`: the cellstore
implements `StoreContract`, with the list and the waiting tracks taken as sets.
A publication is an announcement because its handle is unused (`SaidTracks`,
`PublishAnnounces`), a handled track shows its cell for the first time because
of `NoneTwice` (`TrackCellShows`), and a handled drop hides a cell given up
because of `DropIsOver`, or changes nothing when it has overtaken its track
(`DropCellHides`). `TriggerIsComposition`: `Trigger` has the same behaviours as
`ComposedSpec`, in which a chain does whatever `MibContract` lets it do (`Post`)
and the ports deliver what it posts. That `ComposedSpec` implies `Trigger` is what
makes the module sound: a chain of blocks keeps the contract (`Refinement` of
`ChainProofs`), so what is proved of `Trigger` holds with chains of blocks in it.
The other direction says that `Trigger` has no behaviour too many. The equivalence
needs the invariant (`said` has the chains for its domain), and one thing that
the contract does not say is stated in `DeliverTrack`: the pmt of a track is new,
as `pack_cell` makes it. A cell of `Trigger` is a handle and the id of its chain,
which is all that the cellstore looks at; that the cells of `Chain` differ between
chains is `OwnIdentity`. No run checks the equivalence.

`SearchProofs` proves `TypeCorrect`, `ReportStands` and `ReportIsAccounted`, the
invariants of `search_report`, for every set of chains and handles, and
`Refinement`: a search implements `SearchContract`. The lemma
`GraphBehaves` shows that a search is a behaviour of `Trigger`, so that module's
invariant holds during it; to this are added that nothing is ever withdrawn,
and that nothing runs any more once the script has waited. That nothing is
withdrawn is what `ExitIsAnnounced` says of a chain that exits. In the
refinement the cells found are the list followed by the waiting tracks: the
cellstore moves a cell from one to the other and leaves the whole as it is
(`StoreKeepsFound`), so the list that is reported is the first part of what was
found (`ReportReports`), and a find comes before the report because a chain that
can find is still running (`FindFinds`).

The proofs rest on the assumptions named `...Assumption` in the modules, which
TLC evaluates for its instances, and on the library's theorems about sequences
and finite sets.

Left to TLC: liveness (`TracksSteadySignal`, `LosesDeadSignal`,
`DroppedAfterLoss`, `ListCatchesUp`, `TimeOutEndsSearch`,
`InputEndEndsSearch`, `FoundEndsSearch`), which is out of the prover's reach.
Every invariant, action property and refinement that a passing run checks is
proved.

## Findings

Each is a run whose property TLC violates; `PROJECT.json` has the details.

- `pss_one_point`: one low ratio loses the whole score, not one point
  (`pss.h` 48-50).
- `pss_every_nth`: while tracking, one call in `track_every + 1` searches, not
  one in `track_every` (`pss.h` 55).
- `pss_input`: the assertion in `pss_impl.cc` 191 compares an index relative
  to the current input with the item count that includes the history; a
  half-frame may be copied from behind the items delivered.
- `chain_loss`: `mib` may consume a `tracking_lost` half-frame unseen, behind
  one it decodes. If the signal does not come back, the cell stays published.
- `chain_ports`: the decoder detects the number of antenna ports only for the
  first cell found; `nof_prb` is carried over likewise.
- `chain_nonsense`: a cell whose decoder cannot be initialised is skipped once
  and then decoded with that decoder.
- `trigger_stale`: a drop handled before its track leaves a cell in the list
  for good. For the same reason the list may hold two cells of one chain, and
  more than the three that `cellstore.h` 40 speaks of, while messages wait.
- `search_time_out`: `--time-out` is "max time in seconds to perform search"
  (`README.rst` 89), but is ignored when a cut-off is given
  (`cell_search_file.py` 103), and then a `pss` block that throws makes the
  script wait for ever.

Seen while modelling: a search that ends because a chain has exited may report
`NOT_FOUND`, since the cellstore's thread may end before it has taken the
message (`ReportAccountsForAll` says where the cell is then). And, of which no
text of the repository speaks: the decoder keeps reading the sample buffer it was
initialised with. It is left behind when the buffer moves (first call, or a
first call with two half-frames after an initialisation with one), and a cell
with id 0 and normal prefix equals the constructor's `d_cell`, so the decoder
is never set up for it. `BufferSettles` states what does hold.

## Not modelled

- Signal processing (srsLTE): what it returns is a choice.
- The formatting in `pack_cell`; the check of the sample rate, throttling, the
  FIFO and printing of `cell_search_file.py`; the demo flowgraphs and GRC
  descriptions, which only join blocks or describe a user interface.
- `nof_prb` in `d_cell`: behaves as `nof_ports` does.
- `d_subframe_idx` of `sss`: written, never read.
- The getters behind the probes, which read means, ratios and the score without
  a lock: a torn value is displayed and nothing depends on it.
- The streams of three chains at once: they share the source only, and what
  they post is `MibContract` for each.
- Build files, SWIG interface, documentation tooling, test harness. By lines
  these are nearly all of the repository's Python: `docs/doxygen/doxyxml` and
  `swig_doc.py` are GNU Radio's documentation generator, most of it generated
  itself, and `build_utils*.py` expand templates. None of it runs with the
  blocks. The system's own code is the C++ under `lib/`, two Python modules and
  their headers, and all of it that changes state is modelled.

## What could follow

Every component that changes state at run time is modelled and everything a
passing run checks in safety is proved. Open are a composition of the streams of three chains
with one source, which would show when a slow chain holds up the others, and
the end of a flowgraph derived from a model of GNU Radio's scheduler instead of
assumed.
