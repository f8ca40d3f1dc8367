# Formal models of the GPS reference module

TLA+ models of the ESP32 firmware, the simulated receiver, the Raspberry Pi
service and the build of the simulation project of this repository, TLC configurations that check them on small
instances, and TLAPS proofs of their main invariants for every value of the
constants.  `PROJECT.json` maps every definition to the lines it models.

    tlc -workers 2 -config MCStorage.cfg MCStorage
    tlc -workers 2 -config MCCloudUpload.cfg MCCloudUpload
    tlapm StorageProofs.tla

## 1. The system

| Component | Source | State it keeps | Operations | Talks to |
|---|---|---|---|---|
| NMEA framer | `nmea_stream_framer.cpp` | accumulator, position | `feed` per byte | UART in, parser out |
| Parser and diagnosis | `gps_processing.cpp` | `GpsData`: flags, values, one timestamp per sentence type, counters | `processNmeaSentence`, `buildGpsSnapshot` | framer, loop |
| Firmware loop | `firmware_runtime.cpp` | two timers, display found or not | `loopFirmware` every 5 ms | parser, LEDs, OLED, USB |
| Presentation | `status_presentation.cpp`, `status_led_controller.cpp`, `oled_display.cpp` | LEDs, screen | pattern and rows of a snapshot | loop |
| JSON reporter | `serial_json_reporter.cpp` | none | `parsed_state` once per second, `raw_nmea`, `startup` | service, over USB |
| Simulated receiver | `simulation/assets/neo-m8n.chip.c` | scenario, timer, sequence | one frame GGA, RMC, GSA per second | firmware UART |
| Serial reader | `service/reader.py` | port, task, stop event, live state | start, read loop, retry, stop | device, storage, streams |
| Storage | `service/database.py` | SQLite table, WAL, write lock | insert with cleanup, since, range, stats | reader, HTTP handlers |
| HTTP API | `service/api.py` | event stream counter, one generator per client | status, stream, since, range, stats, upload | clients, webhook |
| Configuration | `service/config.py` | settings, read once | `validate` | everything in the service |
| Life cycle | `service/main.py`, lifespan in `api.py` | server, lifespan | signal, graceful and forced shutdown | reader, storage |
| Wokwi build | `tools/build-wokwi-project.sh`, `generate-` and `validate-wokwi-project.py` | the generated project | generate, compile, package, validate | firmware and assets, compilers |

Data flows one way: receiver, framer, parser, snapshot, report, reader, then
storage (polled with a cursor, or posted to a webhook) and live state (pushed
as events).

**What is hard.**  Firmware: three sentence types write the same flags and go
stale independently; ages are differences of a wrapping clock; bytes get lost
and the stream is joined in the middle; two timers and a frame that arrives over
many loop turns.  Service: polls read the writer's uncommitted rows on one
shared connection; a crash or a power loss undoes what clients saw; the cleanup
is five statements long and may stop after each; a device disappears or stalls; a
read's time-out falls into a line; an upload's answer is lost, or comes after the
client has asked again; a shutdown with three nested time-outs races a reader thread and its insert;
event streams of slow clients against a state that expires.  Build: the validator
reads sources that were copied and compiled a while ago and may have been edited;
the script may stop anywhere.  `PROJECT.json` lists these as `hazards`, at their
lines.

**What makes each part correct.**  Framer: a sentence that arrives sound is handed
on whole, nothing else is made up.  Parser: what is reported was said, recently,
and not denied since.  Loop: one snapshot tells one story, at its pace.  Storage:
ids are contiguous and in record order, a polling client misses nothing, the
file stays at its cap, `insert` returns.  Reader: no record vanishes unexplained,
the port comes back, the shutdown ends within its time-outs and what SQLite takes, and
closes the database last.
Streams: fresh records, each outage told once, no long silence, a true counter.
Lines: what arrives in time arrives, nothing twice.  Upload: nothing behind the
client's cursor is missing at the webhook, and only faults send it again.  Build:
what is passed belongs together, sound sources pass or the reason they cannot is known.

## 2. Modules

| Module | Models | Composed of |
|---|---|---|
| `GpsProcessing` | the pure functions of `gps_processing.cpp` and the presentation of a snapshot | |
| `GpsTracker` | `GpsData` under all sentences and a wrapping clock, with histories of what was really said | `GpsProcessing` |
| `NmeaFramer` | the byte accumulator against a damaging line | |
| `NmeaFramerProofs` | theorems about `NmeaFramer` | |
| `NeoM8nChip` | the simulated receiver | |
| `FirmwareRuntime` | `loopFirmware` | `GpsTracker` |
| `SimulatedBench` | receiver, UART and firmware together | `NeoM8nChip`, `FirmwareRuntime` |
| `FirmwareProofs` | theorems about `GpsTracker` and `SimulatedBench` | |
| `Storage` | `database.py`, the polling client, crashes | |
| `StorageProofs` | theorems about `Storage`, and the refinement, proved | |
| `RetainedLog` | abstract: a log that grows, is trimmed, is taken back | |
| `StorageLog` | `Storage` with the history that maps it to the log | `Storage`, `RetainedLog` |
| `CloudUpload` | `POST /api/upload` and its client | `RetainedLog` |
| `CloudUploadProofs` | theorems about `CloudUpload` | |
| `ServiceConfig` | `config.py` | |
| `SerialLines` | the bytes of the port, `read_until`, the line limit | `ServiceConfig` |
| `SerialLinesProofs` | theorems about `SerialLines` | |
| `SerialReader` | `reader.py`, `_handle_exit`, the lifespan | |
| `SerialReaderProofs` | theorems about `SerialReader` | |
| `SseStream` | live state and `/api/stream` | |
| `SseStreamProofs` | theorems about `SseStream` | |
| `WokwiProject` | generator, compilers, validator and their interruptions | |
| `WokwiProjectProofs` | theorems about `WokwiProject` | |
| `MC...` | the modules above with small constants in their `.cfg` files | |

How state and actions correspond to the code:

* **GpsTracker.**  `gps` is `GpsData` with the fields a decision reads, `now` is
  `millis()`.  A sentence is what its parser tells apart: whether fields are
  filled and parse, never text.  Each action is one call of
  `processNmeaSentence`, counters included.  `age`, `dataAge` and `noFixSince` are
  histories that do not use the firmware's flags or timestamps.  Parameters: wrap, time-out, threshold.
* **NmeaFramer.**  Bytes are `$`, CR, newline or body, with the sentence they come from.
  One action per outcome of `feed`.  Reception may start anywhere.
* **SimulatedBench.**  `Loop` is `loopFirmware` from `millis()` to its delay;
  `Arrive` is one complete sentence of `readGpsSerial`.  The clock may tick
  between the two.  The loop comes round at least once a tick.  Every sentence is
  handled by the tracker's action of its kind, whose histories run along, and
  `MaxSilence` bounds the silence of each kind as it does there.  `steady` counts how
  long the receiver has said the same and nothing was lost.
* **Storage.**  One action per `await` of `insert` and `_cleanup_if_needed`, so a
  poll, a failure or a crash falls between any two.  `work` is what the shared
  connection sees, `committed` what a rollback returns to, `survivors` what a
  power loss may leave under WAL with `synchronous = NORMAL`.  `since` is two steps:
  `execute` reads the first row, `fetchall` the rest.  A statement may raise:
  a failed COMMIT leaves the transaction open.  `undone` records the ids whose
  visible insertion or deletion a rollback took back.
* **StorageLog, RetainedLog.**  The table forgets what it deletes, so the history
  `written` keeps every record under its id; `Follow` computes it from each
  step of `Storage` without looking at which step it is.  The refinement mapping
  takes `log` from it and `retained` from the ids of the visible rows.
* **CloudUpload.**  A client of `RetainedLog`, not of `Storage`: what it needs of the
  table is what the refinement shows.  `request` is the await each request is at:
  before the query, between `execute` and `fetchall`, while posting, and after the
  webhook has the batch.  `GiveUp` is a client that stops waiting; its request goes
  on and its answer is thrown away.  `copies` counts what the webhook got.
* **SerialLines.**  A line is a few pieces of 256 bytes and a newline.  `elapsed` and
  `idle` are pyserial's two clocks, of the call and of the byte; `Ends` is what
  `read_until` asks after every byte.  `Start` is the import of `config.py` with
  `validate()`, under every environment of the run.  What comes out here is a line,
  or an other line, of `SerialReader`, whose `ReadTimeout` is the longest read
  proved of this module.
* **SerialReader.**  `task` is the await the reader is at.  An open or an insert may
  take for ever, a read at most its time-out.  The device changes at any time
  and an opened descriptor may stall.  `life` is where uvicorn, the lifespan and the
  process are; `ForceExit` is a second SIGINT.  Cancelling the task does not end what its
  thread is at: `abandoned` holds the open and the statement that go on.  `Held` are the two
  places where the shutdown waits for them without a time-out: `database.close()` is queued on
  aiosqlite's one thread behind the statement, and after a SIGINT `asyncio.run()` joins the
  thread of the open.  A record whose COMMIT fails or never comes may stay in the open
  transaction (`pending`), as in `Storage`: the next COMMIT stores it, `close()` drops it.
* **SseStream.**  A tick is the poll interval.  `stream` holds each generator's
  locals; a yield may be held up by its client.  `owed`, `lastAge`, `shown`
  and `sent` (the newest record the stream has yielded) are histories.  A client may leave before Starlette starts its generator, whose
  `finally` then never runs: `leaks` counts the slots lost that way.

* **WokwiProject.**  One file stands for each group the tools treat alike.  Every
  copy carries the build that made it and its text.  `src` stands for a file below
  `firmware/src/` and `asset` for one among the assets that git may ignore: the generator
  leaves them out then (`LeftOut`), the validator wants them all the same (`Wanted`).
  One build runs at a time.  `Edit` may fall between any two steps, `Hinder` ends the script at any of them.  `touched` counts the edits
  of a source during the build.

Definitions commented `Fault` are plausible mistakes; `PROJECT.json` names for
each property the one that breaks it.  No specification uses them.

## 3. Runs

| Run | Question | Bounds, and why they suffice |
|---|---|---|
| `gps_tracker` | is everything reported what was said, lately? | wrap of 3, time-out of 1 tick: every stamp is seen before, at and past the wrap and the time-out; one satellite threshold, both sides; 188 thousand states |
| `nmea_framer` | does the framer resynchronise? | room for three bytes, sentences of 2, 3 and 5 stored bytes (one fits exactly, one overflows twice over), three sentences, two faults |
| `simulated_bench` | does a scenario come out end to end? | half-second ticks: period 2, time-out 3 (between one period and two, as in the code), wrap 20; the five AUTO phases, a switch of scenario, one damaged or lost sentence; the bound on silence (14) is never reached: AUTO is silent for four frames only; 2 million states |
| `storage` | is the retained log sound, polling complete, the file capped? | five records over a cap of three pages, so the cleanup runs several times; one failed statement and one restart at every step; page size 1 or 3 |
| `serial_reader` | does the reader recover, does shutdown end? | the code's delays in seconds (read 2, retry 5, stall 10, drain 3, stop 3, grace 1); two records, so that one can wait in the transaction of the other; one failed insert, two device changes; SIGTERM, SIGINT and two of them; 357 thousand states |
| `sse_stream` | what do clients see? | two clients for the cap and its races, three records so an outage can come between two of them, one held-up tick, one lost slot |
| `cloud_upload` | is everything behind the cursor at the webhook? | two records in batches of one or two, so that a batch is full, short and empty; two requests under way, an abandoned one and its successor; one rollback, two faults; every deployment |
| `serial_lines` | which lines become records? | a time-out of four ticks; lines shorter, as long and longer than what is left of it, below and above the limit; three lines, so that a part of one meets the next; each setting in turn absent, at and past its rule, or no number |
| `wokwi_project` | does what is passed belong together? | two builds, two edits of any source to any text, one interruption at any step; settings that give two signals one pin; inside and outside git, ignored files below the sources, among the assets and neither; 1.2 million states |

The liveness runs use finite bounds on records, faults and clients, never on time:
a bound that runs out ends the supply, not the obligations.  `CHECK_DEADLOCK FALSE`
stands where the bounded inputs really end (storage, reader after exit, framer), a
refused service stops (lines) or nobody asks for another build.  `TypeOK` of each
module documents its state; the runs leave it out.

**Fairness.**  `Storage`: the event loop resumes the writer and the service
manager restarts the service; clients get none.  `SerialReader`: weak fairness of
the prompt reader steps, of the shutdown and of time; none for opening a port,
inserting, the device or signals.  `ServiceExits` holds though an open or an insert lasts
past every time-out, if the statement that SQLite was given ends at last (`StatementsEnd`,
in its statement): nothing else does end `database.close()`, and after a SIGINT nothing
ends the wait for an open that hangs, but the database is closed then.  `ReaderRecovers`
assumes in its statement that neither hangs.
`SseStream`: generators are resumed and clients read in the end; time is strongly
fair because clients coming and going disable it only within an instant.
`CloudUpload`: each request's handler goes on, as httpx bounds the post, and the
client asks again; httpx bounds each operation, not their sum, so an answer that trickles
in for ever is outside this assumption; nothing makes the webhook accept, but faults run out.
`WokwiProject`: a build that was begun goes on; nobody has to build or to edit.

**Disagreements found** (runs with `expect: violation`):

1. `storage_legacy` - a database without auto_vacuum that reaches the cap hangs
   the cleanup, and with it the reader, for ever.
2. `stalled_port` - the recovery from a stalled port is unreachable.
3. `split_line` - a line that is under way when the read's second is over is cut in
   two and neither part parses.  With a silent receiver the device sends one
   record every 1000 to 1005 ms, so the ends of reads and of records drift through
   each other and records are lost for as long as they overlap.

**Further divergences**, met while modelling.  Each is an invariant of its module that
TLC refutes within seconds when it is added to the `.cfg` in brackets:

* `ReferenceOkHas3DFix` (`MCGpsTracker.cfg`) - README.md:279 and docs/firmware.md:102
  ask a fresh 3D fix of REFERENCE_OK; GGA alone suffices, and a 2D verdict that
  expires improves the state to OK (`gps_processing.cpp:535`).
* `ReportedTimeIsCurrent` (`MCGpsTracker.cfg`, with `TimeField = {TRUE, FALSE}` so that there
  are sentences without a time) - `utcTime` stays reported, however old,
  as long as sentences without a time keep coming; docs/firmware.md:186 has stale
  fields null.
* `OneMissedSentenceIsTolerated` (`MCSimulatedBench.cfg`) - 1800 ms does not tolerate a
  missed sentence at 1 Hz: the next comes after 2000 ms (`firmware_settings.h:45`).
* `CursorNeverSkips` (`MCStorage.cfg`) - ids are handed out again after a crash, and
  a saved cursor skips the new record; docs/api.md:258 calls them monotonic.
  `SkipsOnlyWhatWasUndone` is what does hold, and is proved.
* `ShutdownTakesFiveSeconds` (`MCSerialReader.cfg`) - docs/design.md:51 promises a shutdown
  in 5 s without SIGKILL, main.py:8 in 4 to 5 s.  With an event stream connected and an open
  that hangs the drain and `stop()` take 3 s each, after two SIGINTs the grace sleep may add
  one: `ExitsInTime` has the bound that holds, 7 s.  Behind a statement that hangs
  `database.close()` takes as long as SQLite does, and then it is systemd's
  `TimeoutStopSec=10` that ends the process.

Smaller ones, by reading: `main.py:6` has the reader thread exit within about a
second, a trickling line takes up to two (`ReadsEndInTime`; still within the three of
`stop()`).  `config.py:70` accepts a limit of 256 bytes, and a `parsed_state` record
is about 500.  `run-service-dev.py` never calls `validate()`.  The build script hands
`FIRMWARE_DIR` and `ASSETS_DIR` to the generator but not to the validator.  The validator
wants files below `firmware/src/` and among the assets that git ignores and the generator
therefore leaves out: sound sources with such a file never pass, although
run-tests.sh:332 and test_wokwi_generator.py:83 want a project free of them.
`SoundBuildsPass` says both, that sound sources without one pass and that with one they fail.

`SlotsAreCounted` shows one more weakness without contradicting a text: the
counter is exact only up to streams that never started.

## 4. Proofs

`FirmwareProofs` proves `TrackerTypeOK`, `FreshnessIsExact`, `PositionIsCurrent`,
`MeasurementsAreCurrent`, `PositionOnlyFromCoordinates`, `ReportIsCoherent` and
`SilenceOnlyDegrades` for every clock width, time-out, threshold and set of satellite
counts.  Assumptions: the time-out is
shorter than the wrap, and no kind of sentence, once heard, is silent for a whole
wrap (49.7 days).  Without the second the first theorem is false: an old stamp
comes round.  The inductive invariant says that each stamp is the clock minus the
age modulo the wrap (`StampsTellAges`), and that the datum behind each valid flag
is at least as young as the last sentence of every kind that could have replaced
or withdrawn it (`FlagsVouch`): a flag is therefore never left standing over an
older value by a younger sentence.  One lemma per sentence type says what it does to the fields.  The report needs one
thing more: no kind of sentence is younger than NMEA data as a whole
(`NmeaIsYoungest`), so a usable position is never reported by a receiver that counts
as silent.  With exact freshness a tick can only turn recent into stale, and of the
facts behind the diagnosis only the 2D verdict improves it by going.

It goes on to the bench.  `BenchRunsTracker` is the composition: every step of receiver,
line and loop is a step of the tracker or leaves it alone, so all of the above holds of
the whole loop.  The bench's own invariant has four parts.  `ChipOK`: what is on the
line is the rest of the last frame, and its transit time and the receiver's timer make
up one period, so frames never meet.  `PaceOK`: the clock's difference to the last
report, modulo the wrap, is the number of ticks since, and the loop is never late;
`ReportsKeepTheirPace` follows for every clock width.  `HeardOK`: each kind of sentence
was heard within a period and a transit of when it is next due and said what the
receiver says, or the receiver has not said it for that long; of a silent one nothing
was heard since.  With exact freshness this decides every condition of the diagnosis
after the time-out (`StateTells`), although fix and location are written by all three
kinds.  `PresentedOK`: what was presented since then tells it, and a report is made
before `Settled`.  `ScenarioIsReported` is then proved for every scenario, phase,
transit time and number of faults.  `DisplayAgreesWithReport` is inductive alone: the
two timers start together, have one interval and are tested at one time.  The bench's
`TypeOK` is proved from the same parts.

Assumptions, all of the code's constants: a period and a transit fit in the time-out
(1000 and about 210 of 1800 ms), the display and the report have the same interval (1000
ms), which with one tick is below the wrap, and a frame is off the line before the next.

`NmeaFramerProofs` proves all three invariants of the framer for every buffer size above
two, every set of sentence lengths and any number of sentences and faults.
While a sentence that fits has arrived undamaged so far, the accumulator holds exactly
what was sent of it (`HoldsWhatWasSent`).  Bytes in it come in the order of their
sentences and none of those has ended (`NotEnded`); a completed frame keeps that except for
its last sentence (`MergesAreDamage`).  An accumulator in use and each overflow had a
`$` of its own, sent or made by a fault (`StartsPayForOverflows`).

`StorageProofs` proves `TypeOK`, `IdsAreConsecutive`, `IdsFollowRecords` and
`SkipsOnlyWhatWasUndone` for any number of records, failures and restarts, any cap,
share and limit.  The first three follow from `WellFormed`, a property of one database
that insertion and deletion of the oldest rows keep, stated of the visible,
committed and surviving states.  Polling needs more: a SELECT under
way holds the first row past the cursor, or everything the table has gained
before it was undone; rows between the cursor and the fetched page are in the
page or undone; and every older state that a rollback can return to differs from
the visible one only in ids that `TakeBack` records.  `IInv` is their conjunction;
each action has a lemma, those that treat the tables alike sharing one.

`FileStaysBelowCap` has an invariant of its own, `SizeInv`, for every pair of marks,
every checkpoint interval and both vacuum modes.  Every page of a table is in the
file, or in the WAL, where each commit adds at most one, or was left open by a COMMIT
that failed (`PagesLogged`).  So the check after an insertion, which measures file and WAL,
sees all pages but those a failure has paid for; it leaves a free page or room for
one (`RoomForOne`), which the next insertion takes.  A cleanup that is cut short by a
failure or a restart pays with a page for what it did not free; one that runs on has
rows to delete, and checkpoints a committed table (`CleanupFrees`).

Last, `Storage` implements `RetainedLog`.  The mapping
invariant: the history is as long as the visible counter, and no visible, committed
or surviving row has another record under its id.  An insertion is `Record`, a failed
one `Drop`, a deletion `Trim`, a rollback or restart `Undo`, all else a stutter.

`CloudUploadProofs` proves `UploadsAreComplete` for any number of records,
rollbacks, faults, requests and batch sizes.  The invariant says of the one request
the client waits for, at each of its awaits, what it holds of the stored ids that no
rollback has touched (`WaitingHold`): the first row it read is the first past the
cursor, its batch has every one up to its last, its answer promises only what was
copied.  A promise may run ahead of a log that was taken back; `AheadWasUndone` says
that only undone ids are concerned, so records that are given them again are excepted.

`DuplicatesCostAFault` has a second invariant, `CopiesInv`.  A record has one id in the log
(`OneId`), and its copies together with the abandoned requests that may still send it
never exceed one and the faults (`PaidFor`): a request the client has given up was paid
for when it was given up.  A record of which the faults allow no further copy (`Spent`) is
behind the client's cursor, or behind the one in the answer it waits for, and the request
it waits for will not post it (`SpentIsBehind`).  No answer takes the cursor back (`GoesOn`).

`SerialLinesProofs` proves all three invariants of the lines for every time-out, limit,
device and environment of texts with an integer value.  `elapsed` is below
the time-out, or only the last silence went past it.  The pieces in the port's buffer are
consecutive up to the one the device sends next (`BufferOK`), and a timely line is whole as
far as it was read (`WholeSoFar`): the read that gets it began after the line before, its elapsed time is at
most the line's pause and the pieces read, so neither the time-out nor the limit nor a
silence cuts it before its newline.  The first piece of a line is read once, and without it
nothing parses, so no line gives two records (`RecordsOK`).

`SerialReaderProofs` proves `DatabaseOutlivesReader`, `ExitsInTime`,
`RecordsAccountedFor` and `OnlyTheHungAreCancelled` for any number of records, failures
and replugs and all delays with `ReadTimeout < StopWait`: the port's time-out is 1 s, a
read lasts less than two of them (`SerialLinesProofs`), and `stop()` waits 3 s.  Where the
shutdown is tells what the reader and SQLite can still be at (`LifeOK`): from the grace
sleep on the task is over, and once the database is closed no statement is under way.
What the time-outs have left is left of the whole (`TimeOK`); in the two waits that have
none the clock of `ExitsInTime` stands still, and the theorem says no more than that.
While its insert or the statement a cancelled one left is under way (`Busy`) the last
record is in no set; every other is stored or `Dropped`, and a failure or the cancellation
adds at most one to these.  A read under way when `stop()` begins to wait ends
before it gives up (`EndsBefore`); once `_stop` is set no other begins.

`SseStreamProofs` proves all six safety properties of the run for any number of
clients, records and ticks.  The invariant says of each generator that its locals and
its client's screen agree (`Agrees`), that an outage not yet told is owed (`Owes`), how
old what is shown and how long the silence is (`Fresh`), and that since its last poll
it can have missed only a younger record (`Delivers`).  Each needs the others: the same
record cannot come back after its outage, so `unavailable_sent` is never set while the
last record is live.  `RecordsAdvance` rests on
`sent` being the generator's `last`: an older record cannot come back, so what
`state is not last` lets through is newer than all that was sent.  `SlotsOK` counts the open streams with the finite-set lemmas.

`WokwiProjectProofs` proves `BuildsNeverMix` and `PassedBelongsTogether` for every set of
signals, pins and texts and any number of builds, edits and faults.  A source that was
not edited is its copy (`Current`); one that was edited once and is its copy cannot
have been edited after the copy was made, so what it was compiled into, or passed as, still
holds of the copy (`Pending`); the validator's comparison turns that into a fact
that later edits cannot undo (`Compared`).  With two edits of one source this fails:
it may be changed before the compiler reads it and changed back before the validator does.

Only model-checked: liveness and everything under fairness (`InsertReturns`,
`ReaderRecovers`, `ServiceExits`, `OutageIsTold`, `RecordsAreUploaded`,
`SoundBuildsPass`), which the prover cannot handle.  Every safety property of a passing run is
proved.

## 5. Not modelled

Text: number formatting, JSON escaping, coordinates, the HDOP row.  Pure I/O: the
OLED driver's probe and drawing, LED pin modes.  Single reads without state:
`/api/status`, `/api/stats`, `/api/records/range`, `/api/endpoints`, the dashboard.
Settings without a rule, the development and documentation servers.  A kind of
sentence silent for a whole wrap is outside the bound, and the time of day has no age
to state a property of.  `_is_public_url` resolves a name on the event loop: how long
that holds up the other tasks is not modelled.  Two builds at once in one project
directory: the script takes no lock, and `Begin` waits for the build before.  The shutdown
behind a client's query that SQLite does not end, which holds up `close()` as an insert does.
A SIGINT after a SIGTERM, where uvicorn raises both again and the process ends without the
rest of its lifespan.  A COMMIT of the cleanup that fails and lets SQLite roll back: in
`Storage` it leaves the transaction open; the COMMIT of an insertion may do either.

## 6. Plan

Done: diagnosis, storage and its refinement, reader and shutdown, streams, framer,
bench, upload, lines and configuration, the Wokwi build.

Next, in the model: a `GpsService` that composes `SerialReader` with `SseStream` over
the live state, with the lines of `SerialLines` as its device.  Its proofs would rest on those
of the two.
