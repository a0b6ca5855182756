# pinveil in TLA+

pinveil is a self-hosted service for secrets that can be opened once: a sender's client
encrypts a payload, the server keeps the opaque blob under a random id with a hashed PIN,
and the first recipient who gives the PIN gets the blob, after which it is gone. Wrong PINs
burn it, and so does its expiry. This directory specifies the server, the two clients on
both the sending and the receiving side, and the command line's files, checks them with TLC
on small instances, and proves with TLAPS the safety of the service, its hash pool, both of its
stores, the rate limiter, the profiles, the sending and the receiving side.

Paths below are relative to the repository; `server/` stands for `crates/pinveil-server/src/`,
`cli/` for `crates/pinveil-cli/src/`, `core/` for `crates/pinveil-core/src/`, `web/` for `web/static/`.

## Inventory

| component | state | operations | what is hard | what makes it correct |
|---|---|---|---|---|
| Message service (`server/service.rs`, `api.rs`, `app.rs`) | admission and upload semaphores, 1024 lock stripes, the requests in flight | create, retrieve, sweep | many requests for one id; every step is an await at which others run; clients leave; store calls fail before or after their commit; restarts | a message is opened at most once, with its PIN, charged exactly for wrong PINs checked against it, never gone without a reason; all slots and locks come back; every request ends once its body has arrived |
| Hash pool (`service.rs`, `HashPool`) | semaphore, waiting counter | run | cancellation at each await, counting before the check | at most `max_concurrent_hashes` hashes and `max_queued_hashes` waiters; no permit or count is lost; waiters are served |
| Memory store (`store.rs`) | map, byte total, generation counter | insert, meta, record_failure, consume, remove, sweep | a total kept by hand; expired rows; reused ids | the caps hold, the total is exact, an old generation does nothing |
| SQLite store (`sqlite.rs`) | database, lock file, WAL | the same, open, maintain | commits that fail or are followed by a failure; interrupted first start; two servers; a changed pepper | a row operation is all or nothing; bytes leave only after the commit; a store is used by one server, with its own pepper |
| Rate limiter (`ratelimit.rs`, `api.rs`) | counters per bucket and address, expiry queue | allow, client_address | clock readings taken before the lock; the cap on keys; a header that proxies extend and clients forge | bounded state, no live counter dropped, no more than the limit per window for a client, whatever it says it is |
| Sweeper, start (`lib.rs`, `main.rs`) | timer | sweep every minute, open_store | a sweep that fails, an old time | expired rows go |
| Configuration (`config.rs`) | none after start | load, validate | relations between settings | impossible combinations are refused |
| PIN verifier (`pin.rs`) | none | hash, verify | | accepts the PIN and no other |
| Pages, errors (`assets.rs`, `error.rs`) | none | | | one error shape |
| Core formats (`core/envelope.rs`, `payload.rs`, `export_names.rs`, `id_template.rs`, `entropy.rs`, `generate.rs`, `wordlist.rs`, `crypto.rs`) | none | encode, parse, generate | limits, unusual input, bias | parse after encode is the identity, limits hold, names are distinct, draws are uniform |
| CLI send and get (`cli/send.rs`, `get.rs`, `http.rs`, `links.rs`) | one command's progress | send, get | what is lost once the server has deleted the message; retries | nothing is asked of the server before it must be; a lost message is reported as such |
| CLI profiles (`cli/profile.rs`) | `profiles.toml` | list, show, set, remove | two commands at once; crash during save | the file is always whole; no dangling default |
| CLI output (`cli/output.rs`, `crates/pinveil-fs`) | files on disk | save | name collisions, other processes, failure of one of several files | no file overwritten without leave, a failed run leaves none of its new files that it can remove |
| Terminal, editor (`cli/editor.rs`, `term.rs`, `display.rs`) | terminal modes | | | |
| Browser (`web/static`) | page state | create, retrieve, show | events during awaits, lost answers | the fragment stays local, one message per click |
| Tests, packaging, benchmarks | | | | not part of the program |

How they interact: a request passes the rate limiter (one mutex), then its handler; a
create holds an upload slot, a retrieval an admission slot and its id's stripe; both wait
for the same hash pool; both call the store, whose every method is atomic; the sweeper
calls the same store from a task of its own. The clients know the server only through HTTP:
its config, an upload and its answer, a retrieval and its answer. Two commands of one user
meet in the profiles file, and a `get` meets other processes in its output directory.

## Modules

| module | stands for | notes |
|---|---|---|
| `MessageStore` | the `Store` trait's methods | operators from rows to rows and a result; no variables |
| `MessageService` | creates, retrievals, sweeper, clock, disconnects, restarts | EXTENDS `MessageStore`, uses `BoundedPool` |
| `OneTimeMessages` | what each message is promised | abstract; `MessageService` implements it (`KeepsPromise`) |
| `HashPool` | `HashPool::run` on a FIFO semaphore | implements `BoundedPool` (`ImplementsBoundedPool`) |
| `BoundedPool` | what a caller of the pool may count on | abstract; one variable, composed into `MessageService` |
| `StoreContract` | any caller making any calls of `MessageStore` | abstract |
| `MemoryStore` | the map, its total and generations | implements `StoreContract` (`KeepsContract`) |
| `RateLimiter` | the middleware: `client_address`, the clock reading, `RateLimiter::allow` | |
| `SqliteStore` | `SqliteStore::open`: servers that start, crash and restart on the databases of a machine | |
| `Profiles` | the profile commands and the file they share | |
| `IdTemplates` | word list, uniform draws, id templates, passphrases | operators |
| `ServerConfig` | layers of settings, the bounds between them, the client config | operators, EXTENDS `IdTemplates` |
| `Payload` | sizes, limits, sealing and opening | operators, EXTENDS `ServerConfig` |
| `Composing` | what senders share: a server with settings, files that change, uploads | EXTENDS `Payload` |
| `CreatePage`, `CliSend` | the create page; `pinveil send` | each EXTENDS `Composing` |
| `Sending` | the sending side as a whole | EXTENDS both senders |
| `ExportNames` | the export-name policy | operators |
| `FileOutput` | `save` in directories that other processes use | EXTENDS `ExportNames` |
| `Exchange` | recipients, a network that loses and delays, the server for one message | |
| `RetrievePage`, `CliGet` | the retrieve page; `pinveil get` | each EXTENDS `Exchange`, `CliGet` also `FileOutput` |
| `Receiving` | the receiving side as a whole | EXTENDS both recipients |
| `MessageService_proofs`, `HashPool_proofs`, `RateLimiter_proofs`, `MemoryStore_proofs`, `SqliteStore_proofs`, `Profiles_proofs`, `Sending_proofs`, `Receiving_proofs` | theorems | each EXTENDS the module it is named after |
| `MC...` | constants for TLC | |

So the service is checked over the store's contract and the pool's contract, and both are
shown to be what the real components provide. The clients are checked against a server that
does in one step what the service does in many: `Composing` lets an upload be stored, refused
or lost, and `Exchange` lets one request open, charge, miss or fail; that one request opens a
message, and that a failure may or may not have taken effect, is what `MessageService` shows.
`Sending` ends with the link and the PIN shown, `Receiving` starts with a link; between the
two is the user who carries them.

### MessageService and the code

`pc[q]` is where request `q` is. A create goes idle -> reading (`Upload`: `try_acquire` on
`AppState.uploads`) -> pooled (`ReadBody`: the body is read and validated, the owned task
spawned, the pool entered) -> insert (`HashedVerifier`: the hash has ended and the clock
is read) -> insert again on a taken id (`InsertMessage`) -> finish -> done. A retrieval goes
idle -> spawned (`Arrive`: admission, task) -> locking (`AskLock`) -> check (`ReadMeta`, with
the lock) -> remove or pooled (`CheckExpiry`) -> record or consume (`Verified`) -> finish
(`RemoveExpired`, `RecordWrongPin`, `ConsumeMessage`) -> done (`FinishRetrieve` drops lock
and slot). Anything between two of these is local to the request. `outcome` is the result a
request reached, `answer` what its client saw ("lost" if the client left or the server
stopped first). `seen[r]` is the row a retrieval read, of which the code keeps generation,
verifier and expiry; `taken[r]` is what the store handed out.

Abstractions:

- A blob is named by the create that sent it, a salted verifier by the PIN it accepts.
- The texts of 503 answers are merged into "busy" and "storage". Malformed requests end as
  "refused". A retrieval with an invalid PIN or id changes no state and is left out.
- A request is made at most once and its PIN and target are chosen in `Init`: nothing
  that a client learns can influence them, so every choice is covered.
- `CheckExpiry` joins the clock reading with the entry into the pool, and `FinishRetrieve`
  joins the release of the lock and of the slot with the answer; the steps so joined have no
  other shared step between them that the properties can tell apart.
- The sweeper may call the store with any time up to now: it reads the clock before its
  blocking call. The wall clock never goes back.
- A store call ends with "none", or fails "before" its commit (nothing changed) or "after" it
  (changed, but an error). SQLite has the fault points in its test build
  (`insert.before_commit`, `consume.after_commit` and so on), real ones being disk errors and
  busy timeouts. A sweep's `maintain` does not touch rows and cannot fail the sweep.
- Panics in a store call or a hash, and failures of the operating system's random source
  other than for ids, are left out.
- A restart loses every task and permit, and the rows in memory mode only. Answers already
  given stay given.

### HashPool

`waiting` is the counter, raised before the comparison and lowered by a guard's `Drop`, so
tasks on their way in ("counted"), out ("refused"), queued, and granted a permit but not yet
polled all count. A caller may therefore be refused with an empty queue, which the comment on
`run` (`server/service.rs:99`) does not say; the bound on the queue is what matters. `Abandon` is the drop of the caller's future at any of its awaits. tokio's
semaphore is FIFO, and a returned permit goes to the first waiter (`GivePermit`).

### RateLimiter

`ReadClock` and `Allow` are separate because `Instant::now()` is an argument evaluated before
the mutex is taken. `windows` is the map, `expiry` the queue, `granted` a history variable. An
`origin` says who really sends a request, through which proxies, and what it wrote into
`X-Forwarded-For`; `Forwarded` is the header as it arrives, each proxy having appended the
address it was called from, and `ClientAddress` the code's choice from it. A repeated, malformed
or over-long header is "unusable", which the code answers by taking the peer. The queue is not in
the order of the starts, as readings taken before the mutex can be queued in the other order: the
comment at `server/ratelimit.rs:38` is not quite right, and `CountersQueued` and
`LiveCountersKept` show that nothing depends on it.

### SqliteStore and the code

`step[s]` is how far server `s` is in `open`: `Identify` (`identity`: the name is resolved, a file with
several links refused), `TryLock` (the sidecar of the resolved path), `Connect` (the connection, which
creates the file, and the pragmas), `Prepare` (the schema is read) and, for a database without objects,
`Initialise` (one transaction). A refusal, an I/O error, a stop and a crash all end the process and
with it the lock: that is `Exit`, possible after every step. `inode` is the directory, so that two
paths may name one file; `db` is what a file holds as far as `prepare` can tell; `made` is a
history of the peppers with which stored verifiers were hashed.

Assumptions: a transaction of SQLite is atomic; a file lock excludes other servers until its holder
ends; the operator deletes a database only while no server runs, does not rename one in use, and
makes no hard link between a server's link check and its connection (nothing in `open` would
notice one made in that moment). The lock files themselves are never deleted. What rows go
through is `MessageStore`'s; of them only the verifiers' pepper is kept here. The WAL is left out.

### Profiles and the code

`step[c]` is how far command `c` is: "start" until it has loaded the file, checked it and its
arguments (`Refuse`, `Use`, `Set`, `Remove`: all local to the command, so one step), then "save"
until the rename of its temporary file (`Save`) or a failure (`Fail`), which also stands for a
command that is killed: until the rename the file is as it was. `file` is `Broken` for a file
that does not parse. The file to begin with is any, as it may have been edited by hand. `stale`
is a history: another command saved between the load and now. `use` is every command that
only reads, `send` and `get` with `--profile` or the default included. Values are classed by whether
`validate` accepts them in a field. A temporary file that a kill leaves behind is not modelled.

### Receiving and the code

`Exchange` has the requests and status lines under way; each may be lost, and a request may
arrive long after its client gave up. A request served with the wrong PIN is charged, and
any request may be answered 503 (limited, busy, a failing store), which may come after the store's
commit. `heard` are the clients that have seen a 200, from when on the message is gone.

`RetrievePage`: `page[p]` goes blocked or ready -> fetching (`Submit`) -> receiving (`AnswerPage`,
a 200) -> shown, lost or unreadable (`Render`: the body, the decryption and the parsing). Any other
answer and no answer give the form back. A `PageSaysGone` page is one whose text says that the
server has deleted the message.

`CliGet` runs start -> pin -> waiting -> body -> text -> files -> ended; `exit` is the class of
`error.rs` and `cliSaysGone` what its last line says of the message. `FileOutput` is `save`
inside it: `OpenDir`, `Scan` for taken names, the question (`Answer`: replace, another directory,
quit), then per file `Look`, and `Replace` or `CreateNew`, with `CleanUp` after a failure.
`disk` has what is under each name in each directory: a folder, another process's entry,
a file that this run made (`Fresh`) or put over an entry (`Over`). Entries are compared without
regard to case, which is the harder file system. `Interfere` is another process.

A failed write (`WriteFails`) leaves nothing, or the file that `create_new` had made before its
data could not be written. That file is the first to be removed, by `create_new` itself, then
those of `save`'s list, so the model has both in `created`. Any of these removals may fail, and both
functions ignore it (`stuck`): the fault that stopped the write may stop the removal. So
`AllOrNothing` cannot say that a failed save leaves none of its files. It says that none is left
but those whose removal failed, which is less than `APP.md:516` and the message of `output.rs:95`
("Files created by this run were removed") have it.

Assumed: the scan is one step. Left out: the temporary file of a `replace` that fails, which goes
by a name of its own and may stay if its removal fails too. Two things a reader may not expect,
both as written in the code: once the user has agreed to replace, a file that appeared after the
question is replaced too, and clean-up removes by name, so it also removes what another process
has put in place of a file that this run had made (`ForeignKept` says exactly that).
`ExportNames` folds case but not Unicode
normalization, as the policy does.

### Sending and the code

`ServerConfig!Settings` are all settings that some file and environment give and `build`
accepts; values that do not parse refuse the start as well and are left out. `ClientConfig` is
what the server says of them in `/api/config` and embeds in its pages.

`Payload` has the sizes to the byte, relative to the constants of the format: the number of digits of a
length or an iteration count matters, and a file that grows by a digit is one of the cases.
`CheckSize` is a sender's check before it reads a file, `PayloadAccepted` a recipient's after it
decrypted. Keys and ciphers are ideal: a blob opens with the passphrase and PIN it was sealed
with. The bytes of a file's name are taken as the bytes it has in the manifest, escapes included.

`CreatePage`: `form` is what the inputs hold, `submits` what they held at the submit under way.
`Submit` checks it, `Read` reads the files two awaits later, then the upload is stored
(`Store`) or fails, with or without having been stored (`UploadFails`), and `ShowResult` shows
link and PIN. `Edit` goes on meanwhile. `CliSend`: `DescribeFiles`, `Check` (config, TTL, sizes,
PIN), `ReadFiles`, the upload, `PrintLink` to stdout, `PrintPin` to the terminal. How full the
store is, and who else uses it, is `MessageService`'s matter: an upload may fail at any time.

`IdTemplates` takes a template as its segments. `bits()` is a sum of logarithms; `HasBits`
compares the product with a power of two. `UniformBelow` is the rejection sampling,
as a function from the draws that are kept.

## Runs

| run | instance | shows |
|---|---|---|
| `HashPool` | 5 callers, 2 permits, queue of 2 | counters and permits exact, waiters served, `BoundedPool` implemented |
| `ServiceRace` | 2 creates, 3 retrievals, 1 id, limit of 2 wrong PINs, time 0..1, memory mode | the safety of racing requests |
| `ServiceLive` | 1 create, 2 retrievals, 1 wrong PIN, clients that stall or leave, store calls that fail, 1 restart | slots conserved; under fairness every request whose body has arrived ends and expired rows go |
| `ServiceFaults` | 2 creates, 2 retrievals, 2 ids, failing store, SQLite, 1 restart | a reported wrong PIN is stored; `OneTimeMessages` with failures |
| `ServiceLate` | 1 create, 1 retrieval | violation, see findings |
| `MemoryStore` | 3 ids, 2 blobs of different size, caps that bite, 3 inserts, times 0..2 | exact total within the caps, `StoreContract` |
| `RateLimiter` | 4 requests from 5 origins, 2 trusted proxies, at most 2 keys tracked, window of 3, time 0..5 | queue and table agree and are bounded, nobody's live counter dropped, burst bound per client |
| `SqliteStore` | 2 servers, 2 paths and a symlink, 2 files, 2 peppers, any contents to begin with | one server per database, its own pepper only, nothing filled in |
| `Profiles` | 2 commands, 2 profiles, 2 fields, any file to begin with | a file that loads goes on loading; only an overlap undoes a change |
| `ProfilesStuck` | the same | violation, see findings |
| `Receiving` | a page and a `get`, 2 requests each, 2 wrong PINs, 5 messages, 2 directories, 2 changes by others, writes and removals that fail | recipients are told the truth, others' files are kept, a save is all or nothing but for removals that fail |
| `Sending` | 11 files and 8 environments to start with, a page or a `send`, 2 files of 2 sizes, 2 stored messages | settings suit their clients, what is uploaded was checked, what is shown opens it |

Why these bounds are enough for the interesting cases. One id is the hardest case for
retrievals: it makes every lookup, lock and reuse collide; a second create can take the id only
after the first row expired, was opened or burned, which one tick and two creates reach. Three
retrievals are needed for one to read, a second to consume or burn, and a third to act on the
new row. Pool and admission are smaller than the number of requests, so that queueing, refusal
and lock waits all occur. `MaxTime` 1 gives before, at and after the boundary for
times to live of 1 (expired at 1) and the sweeper's older readings. `MaxFailed` 2 has a wrong
PIN that counts and one that burns; `ServiceLive` uses 1. `MaxIdAttempts` 2 has a retry
and a refusal. `ServiceFaults` has neither the clock nor clients that leave, with which its failures
would be too many states; that `OneTimeMessages` is kept with all of them together is `PromiseKept`. `MemoryStore` has `MaxGenerations` 3, enough to fill it,
free an id and fill it again; its calls name every generation given out and every time. In
`SqliteStore`, two servers are what a lock has to keep apart, and two files and paths let a hard
link, a symlink, a deleted and a new database meet; nothing in it is bounded. In `RateLimiter`,
`MaxTime` 5 lets a second window start and have readings of both in the queue, and `MaxStale` 1
bounds how long a request may lag behind its own reading: with an unbounded lag the burst bound
has no fixed window to speak of. Its origins are a client that comes directly and through two proxies
with a forged entry, a direct client with a forged header, one with an unusable header, and one
that forges a proxy's address.

In `Profiles` nothing is bounded but the sets: an undone change needs two commands, one name for
the change and one for what is beside it, and a field that may be invalid beside one that may not.
In `Receiving`, `MaxAttempts` 2 lets a client give up and ask again while its first request is
still under way, `MaxFailed` 2 has a PIN that counts and one that burns the message, and the five
messages are no file, names that differ by case or look like copies, a device, a name of
dots and spaces, and names as long as a name may be. `MaxForeign` 2 is a change before and one after
any step of a save, or a removal and a new entry. In `Sending`, sizes of 9 and 10 differ by a digit, `MaxStored`
2 has a message stored whose answer is lost and another stored for the second try, one edit per submit
reaches every form that differs from the submitted one in an input, and each setting is once at
and once past its bound. The two senders share only the disk, whose files change at any time anyway, so
`Sessions` has one at a time.

TLC's symmetry is used for the readers of the service, the requests of the limiter, the ids of the memory
store, the servers, files and peppers of `SqliteStore`, the commands and names of `Profiles` and
the directories of `Receiving`, only in runs without liveness properties. `CHECK_DEADLOCK FALSE`
is used where requests, commands or messages are made once, or as often as a bound allows, and
the system really comes to rest.

## Fairness

`FairSpec` assumes weak fairness of each request's own steps (tokio polls every ready task; a
blocking call returns), of the pool's admissions (a hash ends; the semaphore is fair, which
`HashPool`'s `WaitersServed` shows), of the sweep with the current time (every minute) and of the
clock. The sweep may fail, but not every time (`GoodSweep`). In `MessageService` the lock queues
are FIFO sequences, as tokio's mutex is, so weak fairness suffices.
Nothing is assumed of clients (`Upload`, `Arrive`, `Disconnect`) or of restarts, and of a create only
its own task is fair (`CreateTask`), not `ReadBody`: the server has no timeout for a slow upload, so a
client that stalls keeps its upload slot for as long as it likes. `RequestsFinish` is therefore
about requests past that point, every retrieval among them.
In `HashPool` the arrival and the loss of callers are not fair.

## Proofs

`tlapm` checks these for all values of the constants that satisfy the modules' assumptions
(finite sets of messages, readers and tasks, positive limits, stripes and times to live of the
right type, messages of a finite number of files, sizes that are natural numbers). The bounds
that TLC needs, `MaxTime` and `MaxCrashes` among them, are arbitrary there.

- `MessageService_proofs`: `TypeCorrect`, `LocksKept`, `AtMostOnce`, `OnlyWithItsPin`,
  `NothingStoredTwice`, `NoSlotLost`; `NeverTooLate`, `GoneForAReason`, `ToldMeansCharged`,
  `ChargedFairly`, `FewGuesses`; and `PromiseKept`: the service implements `OneTimeMessages`.
- `HashPool_proofs`: `PoolTypeCorrect`, `NoPermitLost`, `CounterExact`, `QueueExact`, and
  `PoolIsBounded`: the pool implements `BoundedPool`.
- `RateLimiter_proofs`: `EveryCounterQueued`, `NoCounterDroppedEarly`, `BurstsStayBounded`.
- `MemoryStore_proofs`: `MemoryTypes`, `TotalIsExact`, and `MemoryKeepsContract`: the map with
  its total implements `StoreContract`.
- `SqliteStore_proofs`: `OpenTypeCorrect`, `OneServerEach`, `OwnPepperOnly`, `NeverFilledIn`.
- `Profiles_proofs`: `SavedValid`, `FileNeverSpoiled`, `OnlyOverlapUndoes`.
- `Sending_proofs`: `UploadsAreChecked`, `ShownOpens`, `SendingTyped`.
- `Receiving_proofs`, with the lemmas about a save's steps and about export names:
  `RecipientsTold`, `OthersNotLost`, `ReceivingTypes`, `AllSavedOrNone`.

The service's invariant has two halves. `Base` joins the types with where a request can be: a
create that may still insert has a try left (`TriesInv`), only a request at "pooled" is in
the pool (`PlaceInv`), creates and retrievals keep to their own steps (`Kinds`), and each lock
queue holds exactly the retrievals that asked for it, once each, with only the first past the
wait (`LockInv`). `LockHeld` follows from it; by itself it is not inductive, for the release of a
lock must know that the next in line is waiting. `Opening` then relates rows, lookups and bytes:
a row is that of a create past its insert, with its PIN and a generation already given out
(`StoreInv`); a row that a retrieval read has a generation given out, and if
that generation is stored it is the same message (`SeenInv`); bytes taken belong to a row the
retrieval read with its PIN, and are no longer stored (`TakenInv`). The generations do the work:
`Consume` removes one that equals the reader's, hence the message that was read. `AtMostOnce`
needs no lock: the store's atomic removal suffices. What `SeenInv` says of generations, it says only
of a retrieval that is still between its lookup and its commit (`Past`): a restart in memory mode
gives out generations from 1 again, and no retrieval in `Past` survives it. `NoSlotLost` needs `Base`
only: `SlotsMove` says that a step of one request changes the number of live requests by one or not
at all, and the slots by as much; a restart clears both.

`TimesInv` adds the clock to these. No reading is ahead of it (`Readings`); a stored row with the
generation that a retrieval looked up still has the expiry it had then (`SameExpiry`); and the way a
retrieval goes tells what it found (`Onward`): at "remove" the row had expired, at "record" the PIN
was another, from "pooled" on the request had arrived before the expiry. `NeverTooLate` and
`GoneForAReason` follow, the second step by step: whatever drops a row names its generation, or
is a sweep with a time that has been.

`GuessInv` counts. Those told of a wrong PIN are no more than the row's count, and the row's count no
more than the retrievals that tried the message and are past their commit (`CountsInv`). While one
that found the message is between lookup and commit, fewer than `MaxFailed` have been told; and
it is the only one there, as two would both hold the id's lock (`TwoNeverPast`). Here the lock is
needed: without it more PINs could be tested.

`PromiseKept` needs `TimesInv`. A step leaves a message as it was (`Untouched`) or takes it away
(`LeavesFor`); every step of the service is thereby one of the promise's. Most are at most a `Discard` of
expired messages (`Discards`), or end a create that stored nothing (`Refuses`); a row appears in
`Posts`, is counted or burned in `WrongPins`, and goes to its reader, or to nobody after a failed
commit, in `Consumptions`.

The pool's invariant (`PoolInv`) adds to types and `QueueHoldsQueued` the two population
counts. `Populations` and `OneMoves` say how a count changes when one task changes its stage.
`PoolIsBounded` maps "counted", "queued" and "granted" to one place, "waiting". That a caller is
turned away only at the limit is then `waiting` being the right count, and that work starts only
below the concurrency is the conservation of permits.

The limiter's invariant (`LimiterInv`) says that queue and counters name each other one to one
(`Matched`), however the readings came. `allow` keeps it by taking due entries off the front
with their counters, by counting without moving a start, and by adding a counter together with
its entry. A counter goes only with its own entry, and that was due at a reading that has been.

`BurstBounded` needs a history. For each client there is a numbered series of windows (`History`):
where each began, how many requests it let through, at most the limit, and which is the one the
table counts in. A new one begins a window's length after the one before, by readings that
are at most `MaxStale` behind the clock (`FreshReadings`). Every request that passed belongs to one of
them, so a stretch shorter than a window by that lag meets at most two, and twice the limit is
what two hold. The series is not a variable: that there is one for what has been granted is the
invariant, and each request continues the one before.

The memory store's total is a sum over a set of rows, which is a fold, and a fold chooses its
elements in an order nobody knows. `MemoryStore_proofs` counts instead: a row of size n stands for n
units (`Units`), and cardinalities of sets of units add up in any order. That the fold is that
cardinality is shown by the smallest set for which it is not, the form of induction that needs no operator
as a parameter. From there an insert adds a row's units, whatever takes rows away subtracts theirs, and
a sweep, whose total is a fold over the rows it drops, subtracts the same number.

`SqliteStore`'s invariant (`OpenInv`) adds to the types three facts. `Unshared`: servers past the link
check that have the same file have the same path; the lock is per path, and this makes it one per
database. `OneServer` alone is not inductive, for a server past its link check may not have connected
yet. `Marked`: a store's fingerprint bounds the peppers of its verifiers, and an empty
database has none. `ServesOwn`: a serving server's pepper is its database's; it survives
other servers' steps because only an empty database is initialized.

For `Profiles` the type invariant carries what a save may write: contents that load. That proves
`FileNeverSpoiled` by itself. `OnlyOverlapUndoes` needs `Fresh`: a command about to save, with no
save since its load, holds the file as it is now with only its own change made to it. Any save
makes every other such command stale, which is why `Fresh` is inductive; it says nothing of
`Broken` files changed by hand meanwhile, which the module leaves out.

On the receiving side `TruthInv` follows the one request that opens the message: only its client is
answered 200, has heard it, has got past waiting, or shows anything. `OutInv` adds a save's
`Progress` and that whatever this run made anew is on its clean-up list or could not be removed,
under its own name (`FreshListed`), also where the write itself fails (`PutListed`); `OthersNotLost` is a property of each single step from there.

`AllSavedOrNone` needs the export names of a message to be distinct, which `ReceivingTypes` includes. They
are given one after another by a recursive function, followed over the numbers of the files: each
name is portable, at most `MaxNameBytes` long and, without regard to case, none of those before it
(`NamesUpTo`). That a free copy exists is a count: a message has at most 256 files, the copies
of a name are numbered to 999, two copies differ in their numbers, and shortening leaves the number alone.

On the sending side the two senders share nothing but files that anyone may change, so the invariant
(`SendingInv`) speaks of one sender, and the other's steps leave that part alone (`PageRests`,
`CliRests`). It follows a message from check to display: what was checked passed `CheckSize` with the
sizes it had then (`CheckedInv`); what is sealed was read afterwards, is as large as what was checked
and is the submitted form's (`SealedInv`); what a server stored is what was sealed, under its own
passphrase and PIN (`StoredInv`); what is shown is a link to that (`ShownInv`). The sizes are
relations between the settings and the constants of the format, so that the upload limit covers the
largest payload a client lets pass is arithmetic over `Parsed` settings; sums over files are
counted as in the memory store.

`SendingTypeOK` says of a server's settings that they suit its clients, and of its template that ids are as
drawn (`IdsAsDrawn`). The latter is about texts pushed one after the other, a recursive function on
positions, followed there by an induction over numbers (`NatInduct`, `Recursion`). What is carried along
is that a set of texts is a prefix-free code with so many members (`IsCode`): then what comes of one part and
another decodes from the left (`SplitTexts`), so that the products of `bits()` count ids. The word list's own
rule makes it one (`WordCode`), whatever hyphens words have; characters and literals are one
anyway. Lengths add up to `MaxLen` the same way (`PushedLength`), and one placeholder makes an id that is not
all dots (`PushedNotDots`). Draws are even because those that are kept are whole rounds (`Rounds`).

Only model-checked: liveness (`RequestsFinish`, `ExpiredRowsGo`, `WaitersServed`), which is out of
reach of TLAPS 1.4.5, as it has no rules for fairness and ENABLED. Every invariant and every action property
of the passing runs, and every refinement, is stated by a theorem.

## Findings

1. `ServiceLate` / `NeverOpenedLate`: `docs/threat-model.md:121` says that a message can't be opened
   after its expiry. `retrieve_now` compares the clock with the expiry once, before the hash; a
   retrieval that is slow in the pool opens the message later. `APP.md`'s invariant 8 ("a
   retrieval checked after `expiresAt` fails") is the weaker statement, and holds (`ArrivedInTime`).
2. `ProfilesStuck` / `RemoveWorks`: `APP.md:520` says that `profile remove` still works on an invalid
   profile. `remove` (`cli/profile.rs:199`) validates all profiles that are left, so with two
   invalid ones neither can be removed, although the error that every other command gives
   (`cli/profile.rs:84`) advises to do that. The file has to be edited by hand.

## Not modelled

- Cryptography (Argon2, HMAC, PBKDF2, AES) and byte layouts: keys, ciphers and verifiers are ideal.
  The canonical text of manifests and headers is left to the tests; its sizes are modelled.
- Terminal modes, the external editor, displays and the wording of messages: only what the user
  answers and whether an error says that the message is gone.
- The argument parser, URL syntax, the parsing of settings, durations and templates: their results
  are modelled, and that they may refuse.
- Page layout, focus, copying to the clipboard, downloads and the zip writer; static files and
  headers.
- The browser's twins of the core formats: they are held to the Rust by shared test vectors.
- SQLite's WAL: what `maintain`'s checkpoint may copy past a reader, and when the file shrinks, is
  SQLite's; it does not touch rows, and its failure does not fail a sweep.
- What fills a server's store while a client sends: `MessageService` has it, the clients see
  a failed upload.

## Plan

Done: the service, its pool, its store contract, both stores, the limiter with the client
address, profiles, the sending and the receiving side with the formats they use; the theorems above.

Next, in this order:

1. A proof that what `NeverOpenedLate` and `RemoveWorks` say fails by little: a retrieval opens a message
   late only by the time it spends in the pool, a removal fails only with a second invalid profile.
2. The editor's temporary files, if a fault model for them is worth it.
