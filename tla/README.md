# Vayudoot in TLA+

TLA+ models of the parts of Vayudoot that keep state: what they promise, how the code
keeps it, where it does not, and proofs of what holds for every size of the system.
The models are written from the Python under `src/src/vayudoot/`; paths below are
relative to it unless they say otherwise.

- [1. The system](#1-the-system): its parts, their state, how they interact, what is hard
- [2. Modules](#2-modules): which module stands for which code, and how
- [3. Runs](#3-runs): what TLC checks, on which instance, and what it shows
- [4. Where the code and its documents disagree](#4-where-the-code-and-its-documents-disagree)
- [5. Proofs](#5-proofs): what TLAPS proves, from what, along which argument
- [6. What is not modelled](#6-what-is-not-modelled)
- [7. Plan](#7-plan): what comes next, in which order

`PROJECT.json` lists every run with its properties, every modelled definition with the
source lines it stands for, a faulty variant for each property of a passing run
(`Operator_Fault` in the modules, each with a `Faulty:` comment), the hazards with the
properties that would catch them, and the theorems.

To check: `tlc -workers 2 -config case_serial.cfg MCCase` (each run names its module),
`tlapm CaseProofs.tla`.

## 1. The system

One server process (FastAPI on one asyncio event loop, with a thread pool) and its
stores. A plain `def` handler runs on a pool thread; an `async def` handler and the
pipeline's tasks run on the loop and give way only at an `await`. There is no lock
around a case, an alert or the budget; `store.save` writes whole documents and the last
writer wins. Nothing is resumed after a restart.

| Part | Source | State | Operations | Correct when |
| --- | --- | --- | --- | --- |
| Case record and lifecycle | `schemas.py`, `lifecycle.py`, `filing.py`, `register.py` | one document per case: status, stage, artefacts, five dates | file, escalate, acknowledge, resolve, withdraw, RTI, is it public | a status has its artefacts, dates and envelope; clocks never fire early; finished is final |
| Pipeline and case API | `pipeline.py`, `api.py` | a task per report with its own `Case`; a copy per request; the outbox | submit, eight stages, six handlers | nothing leaves unconfirmed; no report is stuck; no write is lost to a stale copy |
| Daily budget | `ratelimit.py` | the day, its count, a deque per client | `check`, `remaining_today` | the caps hold and nobody is refused too early |
| Intake | `api.py` (`submit_report`), `images.py`, `audio.py` | the upload files | budget, voice note, photographs, save | a case has its files; refusals leave what they should |
| Case store | `store.py` | cases, signals, alerts, forecasts, imagery: files, Postgres or Firestore | save, load, list | a read sees a whole document; a signal is stored once |
| Firestore mirror | `firestore_store.py` | an in-memory mirror of each collection, loaded lazily, written through | get, put, sharded signals | the mirror equals the remote store |
| Scan | `scan.py`, loop in `api.py` | when the last scan ran | one pass over the boxes, feeds and stations | one failing feed does not cost the others; a pass converges |
| Hotspots, groups, clusters | `hotspots.py`, `grouping.py`, `clustering.py` | none: derived from signals on every request | detect, summarise, name | grouping is independent of order; uncorroborated evidence stays capped |
| Alerts and imagery | `alerts.py`, `agents/imagery.py`, `api.py` | one document per alert; a picture and a reading per hotspot and pass | draft, confirm, read | only the corroborated goes out, and as stored; a reading keeps its picture |
| Forecasts | `agents/forecast.py`, `api.py` | a cache of answers per place | ask, cache, record | one answer per place and hour; every answer recorded |
| Forecast ledger | `ledger.py` | a record per forecast; the clock of the last pass | record, capture baselines, score | never scored early, scored once, concluded in the end |
| Model chain | `models.py` | when each model last throttled | pick candidates, fall back | a throttled model is skipped unless none is left |
| Federation | `federation.py` | a memo of each neighbour's feed | publish, fetch, use as context | nothing foreign comes back as independent evidence |
| Register | `register.py` | none: projected from a case on every request | project, scrub | nothing the citizen said of themselves is published |
| Open data | `export.py`, `scripts/export_bigquery.py` | a directory per export, a mark in it; tables and views of a dataset that nodes share | gather, write, upload | a run is loaded whole and once; the current views are of the newest |
| Backtest | `scripts/forecast_backtest.py` | a disk cache of fetches and answers | observe, pick, ask, report | a rerun repeats what it has; the budget holds |
| Web client | `web/lib/store.js` | a poll per open case, requests in flight | poll, ask once | polling stops when and only when the case is finished |
| Pack, corridors, exposure, standards, tools, prompts | the rest | none | pure functions and HTTP reads | - |

**Interactions.** `submit_report` charges the budget, stores the files, saves the case and
spawns `pipeline.run`; the handlers act on the case that run is still writing. `filing.py`
writes the outbox for complaints, escalations and alerts. Scans put signals in the store;
`hotspots.current` reads signals and cases on every request; alerts and imagery are keyed by
the hotspots it returns. A forecast is recorded in the ledger from the request and scored
from the scan loop or from a reader of the ledger. Nodes read one another's feeds, and an
export carries what a node detected, what it read and how its alerts and forecasts stand.

**What is hard to test here.** (a) Copies: each actor loads a document, waits on a thread
switch or a model, and saves all of it. (b) Two writes that belong together - envelope and
status, picture and reading, file and case - with a process that may end in between.
(c) Checks whose answer is stale when used: status, corroboration, budget, due date.
(d) Two clocks of equal length started on different days. (e) Counters without a lock, and
the day rolling under them. (f) Passes that outlast their interval. (g) Work that must end
though any step may fail. (h) Feeds that fail place by place, and what is derived anew from
what did come. (i) The same evidence reaching one map along two ways. (j) Caches filled by an
answer that is old or has gaps. `PROJECT.json` names each with its line under `hazards`.

## 2. Modules

### The case: `CaseRecord`, `CaseService`, `CasePromise`, `CaseProperties`, `CaseInvariant`, `CaseProofs`, `Register`, `MCCase`

`CaseRecord` is the document and the pure functions on it. Of a case it keeps the status,
the stage, the five dates, the resolved authority (its window and country, which the clocks
read), and which artefacts are attached: `held` stands for the fields `voice`, `evidence`,
`corroboration`, `complaint` and `rti`. Days are integers; a citizen may date an authority's
answer as they like, so `acknowledged_at` is any integer.

`CaseService` has the stored case, the pipeline task with its own copy (`run`), a copy per
request in flight (`req`), the outbox, the live-filing switch and the calendar.

| Action | Code |
| --- | --- |
| `Submit` | the save and the spawn at the end of `submit_report` |
| `Receive` ... `SaveAgain`, `Fail` | `pipeline.run`, one action per stretch between two writes, with its error paths |
| `Park(case)`, `Lose` | the `except` block of `run`; a save that raises where nothing catches it (the first, or that of the block) |
| `Load(h, op)` | `_require` and the status or clock check of each handler |
| `Deliver(h)` | `file_complaint`, `escalate`: the guard, the envelope, the new status on the copy |
| `Save(h)`, `GiveUp(h)` | the handler's save of its whole copy; its error answers |
| `Restart`, `Tick` | the process ends and starts again; a day passes |

Cases share no document and no handler reads two, so one case shows every interleaving.
`ActDuringRun`, `Crashes`, `WritesFail` and `LiveSettings` are constants: they say which
environment a run assumes, and the theorems hold for every choice of them. With `WritesFail`
the store may refuse any save, and the outbox any envelope: a save refused in a stage parks the
case as failed, one refused outside the stages ends the task, and one refused to a handler
ends its request, perhaps after its envelope was written.

`Register` says of every field of the document which private matters it may hold - the
contact, a name said in a voice note, what was noted of the authority's answer - by following
what each agent is shown to what it writes, an agent taken to repeat all of it. `Project` and
`Scrub` are `register.project` and `_scrub`; `PublicCase` is what the register answers. It
holds nothing of its own: its one property is read off `stored` in every reachable state.

The page keeps nothing but the case it read last. `IsFinished` is when it stops asking for it,
and `PageSeesTheRun` says what it would otherwise miss.

`CasePromise` is the abstract specification: the status graph and two facts about
envelopes, without threads, copies, clocks or crashes. `KeepsPromise` is the refinement.

### The budget: `RateLimiter`, `LimiterService`, `LimiterProofs`, `MCLimiter`

`RateLimiter` is the object and the pieces of its methods. `LimiterService` runs them as
the server's threads do: one report at a time on the loop, sensor readings and health
checks on the pool, no lock, a switch possible at every call. A thread iterating over the
dictionary another adds to raises, as CPython does; a thread holding the deque of a
dropped client appends to one nothing refers to.

### Intake: `IntakeService`, `IntakeProofs`, `MCIntake`

`submit_report` up to the stored case: a body too large to be read, the budget (same
`RateLimiter`, one step, since all of it is on the loop), the voice note, each photograph, the
files, the case, with the other reports running at each `await`. `files` and `cases` survive a
restart, requests do not.

### The ledger: `ForecastLedger`, `LedgerProofs`, `MCLedger`

A record per forecast, the thread that fetches its baseline, and scoring passes that hold the
copies they began with. A baseline is the set of pollutants the model of the atmosphere had
hours enough of (`Capture`), an outcome names the pollutant it was scored on, and `Judged`
compares when the copy's baseline has that one. A pass may raise and leave the rest (`Abandon`).
Time is kept as ages that saturate once they cannot matter, so that it can pass for ever and
liveness means something. `Skill` is what readers of the ledger and the neighbours are shown.
`slow` fixes, per behaviour, whether stations may be so slow that a pass outlasts the interval
at which passes are claimed.

### Alerts: `HotspotAlerts`, `HotspotProofs`, `MCAlerts`

One hotspot, whose detection changes at any moment (`Redetect`), the alerts drafted for it,
their envelopes, and for each satellite pass a picture and what the reading was made from.
`AskForAlert` is `draft_hotspot_alert` up to its model, `SaveAlert` what follows it;
`Confirm`, `Send` and `SaveSent` are `confirm_alert` on its thread; `AskForReading`,
`SaveImage` and `SaveReading` are `read_hotspot_imagery`, the last two without an `await`
between them (`LoopIsFree`) but with a process that may end there.

### Signals in Firestore: `SignalStore`, `SignalProofs`, `MCSignals`

`remote` is the documents, one per day and shard, each a set of observations; `mirror` is
what each `Backend` made in this process holds of them, from which day on, and who has its
lock. `Call` is `backend()` up to its test, `Create` and `Take` the assignments after it,
with no lock between; `Enter` takes the lock and fills the mirror (`_signals_since`);
`Write`, `WriteFails` and `Saved` are the loop of `save_signals`, document by document, and
`Answered` is `signal_texts`. A failing write may have been applied. `acknowledged` is a
history variable: what the saves that returned have put on record or found there.
`FirstCallsRace` says whether a second call may begin while the first is making the backend.

### What is observed: `Grouping`, `Hotspots`, `Clusters`, `Observations`, `HotspotProofs`, `MCObservations`

The first three are operators only. `Grouping` is `grouping.link`: items in time order, each
linked to the nearest group whose centroid and last member are within reach (`Best`, `Join`).
`Hotspots` is `hotspots.py`: a signal of each source, `Groups` (`Classified`, linked type by
type; `Offered`, what has no type offered to those; then the rest linked), and a hotspot with
its name, main type, confidence, severity and the people around it. The loops of the code are
folds with a named step each (`InsertByTime`, `Join`, `Offer`, `InsertNewest`). `Clusters` is
`clustering.py`. Places are on an integer line, centroids are fractions compared by
cross-multiplication, confidences are in thousandths.

`Observations` has the cases, the stored signals and the scan's pass, in a world of fires and of
air at stations. `Report`, `Classify`, `Fail` and `Withdraw` are cases; `SensorReading` is what
a sensor sends; `StartPass`, `ScanPoint` and `SavePass` are `scan.run_once` with a feed that may
fail at each target, the CPCB feed that is kept for a while, and OpenAQ only where CPCB has no
station in range; `NodeRestart` loses a pass and the kept feed. `Map` is `hotspots.current`,
derived. A run of the node begins with cases on record (`OnRecord`) and the fires that earlier
passes brought in (`Burned`). `fires`, `over`, `gap` and `covered` are history: what really
happened, and what a pass that reported no error answers for - the fires near a case on record
when it began (`Watched`), less those that were behind as many nearer ones as FIRMS returns at
a place, judged when the pass asked there (`Crowded`).

### Federation and open data: `Federation`, `OpenData`, `OpenDataProofs`, `MCOpenData`

`Federation` is what a node publishes and what it takes of a neighbour's answer. `OpenData` is a
network of nodes. An export is gathered store by store (`Begin`, `ReadNeighbour`,
`ReadHotspots`, `ReadSignals`, `Write`) while the node goes on, into a new directory or over an
old one, whose mark stays. An upload (`StartUpload`, `LoadTable`, `DropViews`, `MakeViews`,
`Mark`) may break off anywhere (`BreakOff`); a directory may be loaded with the commands the
script prints (`LoadByHand`). The dataset is on the free tier, which keeps nothing for longer than
sixty days: `Age` and `AgeExport` put what was observed, or a run and what it was made from,
past them. `Held` is then which of an export's rows have a place in each table: signals by the
day they were observed, hotspots, neighbours' rows and alerts by the day of the run. A load
lands only those, and succeeds if there are none. The table of the runs has no partitions and
goes as a whole (`DropRuns`), with the view over it or without. The views are the operators
`LatestExport`, `HotspotsCurrent` and `AlertsCurrent`, over what is held.

### Forecast requests: `ModelChain`, `ForecastRequests`, `ForecastProofs`, `MCForecasts`

`ModelChain` is `models.py`: `Candidates`, a walk along the chain, which faults are worth
another model, and the marks every conversation shares. `ForecastRequests` runs the two
forecast handlers on it: `FromCache` or `Ask`, then for each waypoint's conversation a model
that answers (`Answer`), one that does not (`Down`, `Refused`), and at the end `GiveUp` or
`Serve` (keep, if whole; record). Models stop and
answer again when they like; other calls of the server mark models too (`Elsewhere`).

### The backtest: `Scoring`, `Backtest`, `ForecastProofs`, `MCBacktest`

`Scoring` is what `ledger.py` judges a forecast by: which stations and which of their sensors
are read, hours on a half-hour offset, the median across stations, days with hours enough,
the worst day, its band, and the tables of agreement. `Backtest` runs
`forecast_backtest.py` over it, again and again over one cache: `Fetch` brings the one file
that is due next, `Observe` writes a row, `Pick` orders the cases, then each is `FromDisk`, `Skip`
or `Fail`, and `Report` writes the tables. There is no action for an answer: `run_agent` reads
an attribute `models.Agent` does not have, so every asking fails (section 4), before any
request or after all it took. What a run has of the forecaster are answers kept from before
that was so (`PastAnswers`), some perhaps half written. `Kill` may leave a file half
written, which later reads as a failed fetch or ends the run (`ArchiveUnreadable`,
`AnswerUnreadable`); `Arrive` is the readings still to come.

## 3. Runs

Every bound is a constant of the module and is set in the `.cfg` of the run.

| Run | Instance | States | Shows |
| --- | --- | --- | --- |
| `case_serial` | one request at a time, none while the pipeline works; every report, two authorities (window 1, India; 2, elsewhere), answers dated day -1, 5 or today, days 0-4, restarts, saves that are refused, live filing on or off | 567k | the service implements `CasePromise`; a finished case is written again by nobody but a request, or the pipeline whose second save was refused; envelopes are written only for what the stored case calls for; what was sent stays on record; no early RTI; the register shows nothing private; a page that has stopped polling misses nothing the pipeline writes, but for that refusal |
| `case_race` | two requests race each other and the running pipeline, with restarts and saves that are refused; one authority, days 0-1 | 649k | what survives every race: the human gate, no early escalation, no report left in draft unless its task is gone, with its process or by a save refused outside the stages |
| `limiter` | the loop and one pool thread, two clients, caps 2 and 1, a window of 2 and a day of 3 ticks, times 0-4 | 2.2M | the cap is exceeded by at most one per pool thread, until two days' checks overlap |
| `intake` | two reports, seven uploads good and bad or a body too large, at most two photographs, caps 1 and 1, times 0-4, restarts | 65k | budgets exact on the loop and across midnight; a case has its files; a refused voice note leaves nothing; every request is answered or lost with its process |
| `ledger` | two forecasts, two passes of one entry, horizon 1, settle 1, give up 3, interval 2, one restart or pass that raises, slow or not, two pollutants | 265k | nothing scored early; a baseline once stored stands, and a score compares when it has its pollutant; outcomes stand while passes do not overlap; every forecast is concluded as long as passes are claimed |
| `alerts` | two requests, two alerts, two passes, two pictures, a hotspot that is corroborated, public or gone, restarts, live filing on or off | 653k | the envelope is the stored alert; only the corroborated is alerted; a reading keeps its picture unless a re-reading was cut short |
| `signals` | two threads, one backend, one shard, two days, a detection and a station read twice in a day and again the next; failing calls, restarts | 47k | a save that returned is never dropped by a later rewrite; a read sees every such save since its day |
| `observations` | a line of nine places, days 0-1; a case on record, one withdrawn, one that comes; a fire from before, two kinds that may burn, one station at two airs, sensor readings in three units; one such event; feeds failing at each target; links of two days, signals kept for two | 216k | the map is a partition of what is visible; a place above the cap rests on what an instrument really and recently saw; one instrument counts twice only after a gap of CPCB's feed; a letter's pattern is on the map; a pass without an error has shown the fires near its cases; names survive growth |
| `opendata` | two nodes that read each other, one also itself through a mirror; two events (among them what grows sixty days old), two exports, two loads, in every order | 2.3M | no detection is passed on as another's; a hotspot has its signals unless taken back meanwhile; a marked upload has every row there is a place for, unless written over or the runs were dropped; the current views are the newest run's |
| `forecasts` | two viewers of a corridor of two waypoints, a chain of two models that fail in different ways, three outages, times 0-2, cooldown 1, kept for 1, one lost write | 1.75M | no call gives up while a settled model is left; no answer is bought twice in its time; no corridor from the cache is calmer than its waypoints; the ledger holds what was served |
| `backtest` | two runs, four cases at two places, five sensors, days of two hours, months of eight, askings of 0, 2 or 4 requests, budgets of 7 and 12, one fault, two forecasters, two answers of the old one | 65k | a clean observation is repeated; the number of askings, not the budget, bounds what a run takes; the sample is spread wherever the money ends |

**Why the bounds are enough.** A race between writers of one document needs two requests and the
task, and `case_race` has all three. A window of one day next to one of two separates the clocks
on a day that is due for one and not the other; day 4 is after both windows have run twice. One
pool thread beside the loop gives every pairwise interleaving of checks, and the proof covers
the other sizes. Times 0-4 with days of three ticks cross midnight with a client's window still
open. Two forecasts and passes of one entry make a pass leave something over; two passes
overlap. Two alert ids let one be pending while another is drafted or sent; two pictures of a
pass differ when it is read again; a second pass makes "the latest" a choice. One shard is the
hard case of `signals`, since there every write rewrites what another call stored; two days let
the mirror be filled in two ranges. In `observations` places are half a radius apart, so that
links, reach and the thinning of targets each have a near and a far case; a gap of the feed, the
new reading and the map it falls on take two days; a link of two days is what lets a report
pull in an older fire, and signals kept for two let the fire of before leave the map within the
run. In `opendata` two nodes make every chain of
readings that returns, and two exports loaded twice every order; of two events one can be the
signal and the other its growing old, before, during or after a load. Two pollutants in `ledger`
are one the baseline has and one it lacks. In `forecasts` two waypoints
make a corridor with a gap, two models a chain with a next and a last, and a cooldown and a time
to live of one tick each leave a tick beyond both. In `backtest` a month holds two windows and
the third crosses into the next; seven requests run out in the middle of a round, twelve have
room for more askings than the three that may fail; one fault is a
failed fetch or a kill at any write, with a run before or after it. In `alerts` ids, requests
and pictures are interchangeable and in `limiter` the clients, in `signals` the threads and in
`forecasts` the viewers are; these runs check safety only, so symmetry is sound.

**Where a system may stop.** `CHECK_DEADLOCK FALSE` stands where everything that can happen
has happened: the calendar or the clock is at its end, every report or viewer has been
answered, every export, load and run is used up.

**Fairness.** `CaseService`: weak fairness of the pipeline (a task on a running loop is
resumed) and of each request that has been loaded; none of submitting, restarting or the
calendar. `IntakeService`: of each report that was let through; none of arrivals.
`ForecastLedger`: of the clock, of baseline threads and of passes that were claimed. None of
the claim: the scan loop is off unless configured (`config.py:238-242`, `api.py:113-127`), skips
the claim when its scan raises, and otherwise a pass begins when somebody reads the ledger
(`api.py:868`, `:886`), on a host that may sleep meanwhile. So `EveryForecastIsConcluded` is about
the behaviours in which passes keep being claimed, by whomever. No request, restart or forecast
is owed to the server.
The other modules state no liveness and no fairness: a scan, an upload, a forecast and a
backtest end when the calls they make do, and nothing retries them.

**Serial and racing.** `EnvelopeMatchesRecord`, `PageSeesTheRun`, `SentIsOnRecord` and
`KeepsPromise` hold only in `case_serial`'s environment: one request at a time, after the
pipeline. Against racing writers they are false; section 4 has the behaviours.

## 4. Where the code and its documents disagree

One is a run, `case_withdrawn`: `schemas.py:45` says nothing moves out of a terminal status,
and the pipeline's next checkpoint writes its own copy over a withdrawal saved while it runs.
TLC ends the run with that behaviour; the quotations are in `PROJECT.json` under `findings`.
The rest are behaviours of the models, or of code beside them, that no run singles out.

*Cases.*

- `filing.py` and `docs/architecture.md` say a case escalates once. An escalated case may be
  acknowledged and then escalated again, to the same tier (`filing.py:98`).
- "A failed run must leave a readable case" (`pipeline.py:74`). The first save is outside the
  `try` (`pipeline.py:70`) and the save of the `except` block can raise too (`:81`): then the
  report stays a draft although its process lives, and its page polls on. A complete case is
  saved twice (`:181`, `:183`); when the second save raises, a complaint that was on offer is
  parked as failed.
- A confirmation that loaded the case before a withdrawal was saved still sends it;
  `docs/architecture.md` says a withdrawn case cannot then be filed. `case_race` has the step.
- `get_case_envelope` (`api.py:1123`) answers "nothing has been filed" for every status but
  filed and escalated, also when an envelope is in the outbox.
- `pack.py:40-45` says the reporter's contact is not in the pack. The text of an RTI
  application carries it (`agents/rti.py:151`), and the pack shows that text
  (`templates/pack.html.j2:379`).

*Budget, ledger, store.*

- `ratelimit.py:11` promises a daily cap; a report and a sensor reading on another thread both
  pass on the last unit (`ratelimit.py:97`). `DailyBudget` says how far over it goes.
- `ledger.py:11-12` says scoring only ever adds an outcome; a pass that outlasts the interval
  saves its unscored copy over an outcome another pass has written (`ledger.py:725`).
- `firestore_store.py:141` says the mirror is one per process; `backend()` makes it without a
  lock (`:260`), so two first calls each make one, and a document rewritten from one loses
  what the other stored. `SavedIsKept` is false with `FirstCallsRace = TRUE` and two backends.
- A baseline may be of another pollutant than the forecast is scored on (`ledger.py:468`,
  `:679-688`): such a forecast is scored and compares with nothing, though it has a baseline.
- An id that comes back on another day is stored again in Firestore, where the other backends
  keep the first copy. With those a station that stays above its limit keeps its first
  reading, and leaves the map when that is older than the window (`hotspots.py:210`).

*The map.*

- `hotspots.hotspot_id` says a seed is fixed for the life of its group. The name changes when
  an earlier observation joins late, when the earliest leaves the window, and when a report
  gives a type to a place that had none; alerts and pictures stay under the old one. It even
  changes with no signal but a report newer than all of the place: "later signals join it, they
  never displace its seed" (`hotspots.py:410`), but the report moves the centre, an older
  detection without a type comes within reach, is taken in, and being the earliest is the seed.
  The window of 14 days (`config.py:209`) leaves room for one. `NameSurvivesGrowth` allows this
  way and no other.

*Forecasts.*

- "A second viewer should not buy the same answer twice" (`api.py`): two misses at the same
  time do. `BoughtOnce` is about those who ask after an answer was served.
- `models._worth_another_model` documents three kinds of failure and its code has a fourth, a
  500. A chain in which every model is gone (404) is answered as 502 and not as busy.
- The turns of one forecast may be answered by different models of the chain; the ledger
  records the prompt and the code revision and none of the models.
- `web/lib/store.js` keeps a corridor with a gap that the server itself would not keep.

*Open data.*

- "Keep the export directories: loading them again is how history comes back"
  (`docs/bigquery.md:66`). The mark in the directory refuses it (`export.py:1025`). Nor does it
  help to load by hand: of a table partitioned by day the rows of days over sixty days gone are
  dropped as they are loaded (`docs/bigquery.md:92-94`, `export.py:641-646`); only the runs and
  the corridors come back. The load succeeds all the same and the mark is written.
- The mark also stays when `--out` names a directory again (`export.py:1023`), so the new
  export is never loaded.
- An upload that ends after a load and before the mark (`export.py:1063-1073`) is loaded again
  by the repeat, rows twice; the printed commands (`export.py:935`) know no mark.
- `Snapshot` (`export.py:122`) says every table agrees; a withdrawal between two reads leaves a
  hotspot without its signal. Two uploads at once may collide on a view (`export.py:1070`).
- Two nodes that both keep the default `vayudoot-local` take each other's feed for their own.

*Backtest.*

- A month that was not over, or whose hours were still coming in, when it was first read stays
  so in the cache. A sensor silent in a window but not in its month hides the next one, which
  the live ledger would have read.
- `run_agent` reads `agent.event_loop_metrics` in a `finally` (`forecast_backtest.py:405-406`), and
  `models.Agent` (`models.py:174-234`) has no such attribute. Every asking raises
  `AttributeError`, also after an answer: it is charged three whatever it took, nothing is
  kept, and the text of the first failure is lost, so that "PerDay" (`:608`) is never read;
  "429" is only read of the fetch of fires before the agent. The agent's column of the report
  is of answers earlier versions kept.
- "A rerun spends nothing unless the prompt changed" (`forecast_backtest.py:51`,
  `docs/forecast-evaluation.md:273-274`): every run asks again for what no earlier one could
  keep. It would also not be so without that fault: a case skipped for the budget is asked for
  by the next run.
- `--max-calls`, "model requests to spend at most" (`forecast_backtest.py:570`): an asking may take
  more than the three it is charged. `WithinBudget` says what the bound is.
- The third failure also ends the use of answers already kept (`forecast_backtest.py:612`).
  An answer's key names the prompt and the forecaster's version and not the model.
- A preferred sensor that could not be read for a moment is passed over like an empty one:
  PM10 then decides, and in the live ledger that outcome is final (`ledger.py:407`).

Two drafts of one alert asked for at the same time both spend a model call and both become
confirmable (each goes out with its own facts, `EnvelopeMatchesAlert`), and a process that ends
between the two files of a re-reading leaves the new picture beside the old reading
(`PictureIsTheOneRead` says that this is the only way); no document says otherwise.

## 5. Proofs

Proved with TLAPS for every value of the constants, from the assumptions the modules name
(`...Assumption`), which TLC evaluates on every run.

**`CaseProofs`** (1587 obligations), in three parts. The properties of the race are about the
stored case, but a step writes a copy taken any number of steps before, so none is inductive by
itself. `CaseInv` says them of every copy: each is `Good` (coherent, its dates no later than
today and backed by the envelopes there are), the pipeline's copy is a draft untouched by
requests with the artefacts of the stages behind it, and each request's copy still satisfies
what its handler checked. `Good` only mentions facts that stay true once true - an envelope
exists, a day has come - which is why staleness does not spoil it. `Inductive` gives `Coherence`
(`RecordCoherent`), `HumanGate` (`EnvelopeBacked`), `RtiClock` (`RtiNeverEarly`), and
`EscalationClock` (the action property `EscalationNeverEarly`); `TypeCorrect` is separate. The
register holds nothing of its own: whatever a case holds, `Redact` has dropped names from what
is heard, agents that are shown no name repeat none, only fields agents wrote are published, and
the scrub takes out a contact that is long enough to look for. That is `RegisterIsSafe`
(`RegisterKeepsPrivate`); that a contact shorter than that stays is in the statement. The third
part assumes `OneAtATime`, the environment of `case_serial`: one handler, and no request while
the pipeline runs. `SerialInv` adds to `CaseInv` that nobody has saved behind a request, so that
its copy is the stored case until an envelope is out which the stored case does not tell of yet,
and that while the pipeline works nothing is sent and the stored case is a draft its page still
polls, or complete and the pipeline's own copy. From it follow `SentStaysOnRecord`
(`SentIsOnRecord`), `EnvelopesMatch` (`EnvelopeMatchesRecord`), `PageIsUpToDate`
(`PageSeesTheRun`) and the refinement, `PromiseIsKept` (`KeepsPromise`): sending and saving map
to a step of `CasePromise` each, and every other action to a stutter or to the step whose status
it writes. What a write of the pipeline comes to is one lemma (`WriteEnds`): it is taken, the
case is parked, or the task is gone and the store as it was.

**`LimiterProofs`** (682 obligations). `LimiterInv`: while no checks of two days overlap
(`mixed`), a check past its roll is of the limiter's day; the count lags behind what the day
was given by exactly the checks about to increment it; and what was given plus the checks
between comparison and grant stays within the cap plus one per pool thread. The sets of
checks are counted with the cardinality facts of `FiniteSetTheorems`. It gives `CapOvershoot`
(`DailyBudget`) and `NoEarlyRefusal`, for any finite pool: a refusal's cap was reached.

**`HotspotProofs`** (5185 obligations), in two parts. *The map* is a function of the cases and the
stored signals, computed by loops over sequences. `FoldIsSteps` is the lemma under all of it: a
fold over a sequence goes through one state for each of its prefixes (`FoldExists` has it from
well-founded recursion, `StepByStep` is the induction over the prefixes, with the invariant as
a set). Each loop of the code gets a lemma that names its states, and then what they keep:
sorting lists the same items (`InTimeOrderLists`), linking puts every item into one group
(`Grouped`, `LinkGroups`; that a nearest group exists rests on the comparison of centroids being
an order, `NearerIsAnOrder`), the groups of the types, the untyped offered to them and the rest
are still that (`GroupsGroup`), `Detect` makes one hotspot of each group (`DetectPartitions`), and
the signals collapsed by id keep one of each (`DeduplicatedKeeps`, `VisibleHas`). With
`ObservationsInv` this gives `EverySignalIsOnTheMap` (`MapIsAPartition`): for all cases, stations,
fires, readings, radii and windows, every visible signal is in exactly one hotspot.

`ObservationsInv` says what holds of the store, and for that of the batch a pass carries, which
is saved any number of steps after it was read: a recent signal of an instrument, there or
there, tells of something that happened (`Backed`; `ExceedanceIsReal` and `IndexIsReal` are the
arithmetic of units and of rounding), a station read through OpenAQ was missing from CPCB's feed
once (`Gapped`), a fire a pass watches has a target in reach and, once that was asked about, a
signal in the batch (`WatchedAreSeen`; `ThinnedKeeps` shows that thinning by half the radius
leaves a target in reach of what is half the radius from a case), and a fire that is answered
for is stored (`CoveredAreStored`). It gives `NoInstrumentIsDoubled` (`DoubledOnlyAfterGap`),
`ConfidenceHasBacking` (`ConfidenceIsBacked`; `ConfidenceIsCapped`: above the cap a member is
independent, and an independent source is an instrument), `CleanPassesAreTrue`
(`CleanPassShowsFires`) and `PatternsAreOnTheMap` (`ClustersAreOnTheMap`: the cases of a cluster
are of one type, count as signals, and so are on the map by the first theorem). The theorems
about what is shown assume `MinSignals <= 1`, since a hotspot of fewer signals than that is not
listed; 1 is the default (`config.py:216`), and with 2 a single report is nowhere on the map.

*The alerts.* `AlertInv`: a stored alert keeps its facts, so the copy
of a confirmation is stale in its status only; a draft in progress was corroborated; a
picture is not replaced between its two files. It gives `EnvelopeIsFaithful`,
`CorroborationGate`, `PictureBesideReading` and the action property `PictureStays`.

**`SignalProofs`** (700 obligations). A document is rewritten from a mirror that was filled
some calls ago, so that nothing is lost rests on what the mirror has. `SignalInv`: calls use
one backend and the others are empty; a mirror has nothing the remote lacks and, from its day
on, everything that was acknowledged; past the lock it goes back as far as the call needs. It
gives `NothingIsLost` (`SavedIsKept`), `CountedOnce` (no observation is in two shards of its day)
and `ReadsAreComplete` (`ReadsSeeSaves`), each under `~FirstCallsRace`; with that race
`SavedIsKept` is false.

**`ForecastProofs`** (2636 obligations), in two parts. *Requests.* `ChainInv`: a model that
answers was marked, if ever, before it began to (`MarkedBefore`), whoever marked it; so the
models a conversation has passed over, when its turn began or since, do not answer or have not
for a cooldown (`PassedOver`). It gives the action property `ModelIsFound`
(`HealthyModelIsFound`). `CacheInv`: an answer is stamped when it is made, a whole answer that
was served is in the cache or a later one is, and what is in the cache is whole. It gives
`NobodyBuysTwice` (`BoughtOnce`) and `NothingKeptIsCalmer` (`KeptIsWhole`). `LedgerInv` ties
each recorded outlook to the answer it was served in, and gives `LedgerIsWhatWasServed`
(`RecordedAsServed`), for any number of lost writes.

*The backtest.* A run is killed anywhere and another begins over the files it leaves, so what
a run carries is tied to the cache: a file is only written where there is none (`OneFileFilled`).
`BacktestTypes` says what a file may hold and a run carry. `Budget`: what is spent is three for
each failure and within the budget, and what was used no more than the dearest asking for each;
with the three failures that end the askings it gives `RunsStayWithinBudget` (`WithinBudget`).
`DrawnOnce`: the cases a run asks about are those drawn when the last had been observed, which
with the arithmetic of the rounds gives `TheSampleIsSpread` (`SampleIsSpread`), for every pattern.
`Repeatable`: a row is made of files that are held and never change, so that a later run makes
the same; it gives the action property `CleanRunsAreRepeatable` (`CleanRunIsRepeatable`).

**`LedgerProofs`** (768 obligations). A pass rewrites whole records from copies it took any
number of ticks ago. `PassInv`: it only took forecasts that had settled, and whose baseline was
fetched, or had failed, before that, so that the copy's baseline is the record's and a score is
matched to what it is stored with (`ConcludingType`); and while no
pass outlasts the interval (`~slow`) there is one at most, and what it holds has no outcome.
It gives `ScoresAreNeverEarly` (`LedgerInv`) and the action properties `BaselineIsNotLost`
(`BaselineStands`) and `OutcomesAreFinal` (`OutcomeStands`), for any finite set of forecasts;
the compared are counted with `FiniteSetTheorems`.

**`IntakeProofs`** (1112 obligations). `UploadsInv`: where a report stands says which of its
files are on disk (`FilesInv`). `DayInv`: the
limiter's count is the number of requests its day was given, and no later day was given any.
`WindowInv`: at this and every later time each client's deque has an entry for every request
of theirs inside the window - also after the roll of the day, which drops deques from the
dictionary but only empty ones. It gives `BudgetsAreKept` (`IntakeInv`) and `DiskIsAccountedFor`
(`UploadsAccountedFor`) for all reports, uploads, caps and lengths of window and day.

**`OpenDataProofs`** (1325 obligations). `OpenDataInv` says of what is being gathered what is to
hold of the export (`OwnRows`, `Backed`), of an upload that the tables before its step have what
is held of it and, unless somebody loaded by hand or over a broken load, those from it on have
nothing (`LoadInv`), and that alerts go one way. What is held only wanes (`HeldWanes`), which is
why a load stays complete while rows grow old around it. It gives `FeedsAreHonest`
(`DetectionsAreTheirOwn`), however nodes read one another, `SignalsAreThere`
(`SignalsBackTheMap`) and `MarksAreWorthIt` (`UploadsAreWhole`). `NewestIsCurrent`
(`CurrentIsTheNewest`) assumes `DistinctIds`, since the views tell nodes apart by nothing but
their id; section 4 has what becomes of two nodes with the default one.

The invariants behind these theorems were checked with TLC on the instances of the runs before
they were proved; the runs check the properties only.

**Only model-checked.** Liveness (`ReportIsConcluded`, `EveryRequestIsAnswered`,
`EveryForecastIsConcluded`), which is out of the prover's reach. `NameSurvivesGrowth`: it compares
the groups of two lists of signals that differ in one, and linking is greedy, so that one item
more can move every later one. Its proof needs the two runs of the loop related to each other: that
they agree on every item earlier than the new one. That lemma is not written (section 7).

## 6. What is not modelled

- Wording, layout and language of envelopes, alerts and applications, the evidence pack, the
  audit log, and the columns of exported rows beyond those the views and keys read.
- What an agent says is any answer of its schema or a failure; prompts are modelled by which
  fields they show. Parsing and the clipping of a peak window are not.
- Bytes: decoding an image header, stripping metadata, recognising an audio container.
- Distances on the globe, bands in thousandths and percentages: places are on an integer line,
  figures in units that keep the comparisons the code makes. Population and corridors' geometry.
- HTTP reads of other services; their failure is a choice in the action that calls them.
  The short memo of a neighbour's feed is a reading that may be old.
- A file seen half written (`store.py` rewrites JSON in place): saves are atomic here, as they
  are with Postgres and Firestore. Of the disk cache of the backtest it is modelled.
- A save that raises is modelled for cases, a scoring pass, the records of a forecast request and
  Firestore's documents. It has then written nothing; one that raises after the remote took
  it is in `SignalStore` only. In the other modules a save is made or dies with its process.
- SMTP: the code refuses to send (`_refuse_live_filing`), and the models have that refusal.
- Authority lookup: it answers or refuses; where it refuses an alert nothing changes, so a
  refused draft is a request the model does not take.
- Two days' checks overlapping at midnight: `LimiterService` has them, but no bound on the
  count holds then, so `DailyBudget` excludes them and says so.
- The web client, but for when it stops polling a case (`IsFinished`): timers, requests sent
  again, the sharing of a forecast in flight between its pages. Which forecasts the skill page
  leaves out (older ones, another forecaster's).
- The forecaster a node publishes beside its feed and how neighbours compare theirs: pure
  functions that decide nothing. The evaluation kit and the demo scripts.

The modules stand for about 31 % of the implementation's lines; of the rest most is rendering,
tables, schemas' descriptions, HTTP plumbing and the scripts above.

## 7. Plan

Done, in order of importance: the case, the budget, intake, the ledger, alerts, signals in
Firestore; what is observed and the map made of it; federation and open data; the model chain and
the forecast requests; scoring and the backtest; the register.

1. **The page** - what `web/lib/store.js` shows while requests fail and come back late, and its
   sharing of requests in front of `ForecastRequests`.
2. **The other collections of Firestore** - a mirror written through, document by document, with
   the lock that `SignalStore` has.
3. **`Federation`** over more than two nodes - a chain longer than the cycle that is checked.
4. **Proofs**: `NameSurvivesGrowth`, from a lemma that relates the groups of a list to those of
   the list with an item more.
