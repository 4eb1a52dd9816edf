# repo-man in TLA+

TLA+ modules, TLC configurations and TLAPS proofs for repo-man, the dashboard
for local git checkouts under `src/`. Every definition is translated from the
Go source; `PROJECT.json` names the lines each one stands for.

## The system

| Component | State it keeps | Operations |
| --- | --- | --- |
| Job registry (`internal/jobs/jobs.go`) | a map of job records under one mutex, each with its own lock; a WaitGroup | `Start`, the job's goroutine, eviction at `MaxJobs`, expiry after the TTL (`Run`), `Active`, `Wait` |
| Write actions (`internal/actions/actions.go`) | `initing`, the destinations `InitRepo` works on | `InitRepo`, `Clone` |
| git (`internal/git/git.go`, `status.go`, `remote.go`) | none; the file system | `Clone`, `Init`, `Fetch`, `Pull`, `Inspect`; parsers of status and of URLs |
| Index (`internal/index/index.go`) | the published snapshot, the last listing per owner, three channels of depth one | `Run` (one select over tickers and channels), `scan`, `fetchAll`, `refreshGhosts`, `FetchRepo`, `PullRepo`, `ScanNow`, `FetchNow`, `RefreshGhostsNow` |
| Walk (`internal/scan/scan.go`) | none | `Walk`, `processDir`, `classify` |
| Tree (`internal/tree/tree.go`, `internal/model`) | none | `Build`, pruning, sorting, summary |
| Rate limiter (`internal/auth/ratelimit.go`) | a bounded map from address to failure window and lock | `locked`, `recordFailure`, `recordSuccess`, `gc`, eviction |
| Sessions (`internal/auth/session.go`, `auth.go`) | a bounded map from ID to deadline and cookie time | `create`, `touch`, `markCookieIssued`, `delete`, `gc`; `Login`, `Require`, `Authenticated`, `Logout` |
| Path confinement (`internal/safepath`) | none | predicates on paths |
| Providers (`internal/github`) | none | `ListOwner` through `gh`, a JSON parser |
| Web (`internal/web`) | none | handlers, templates, and `app.js` in the browser |
| Process (`cmd/repoman/main.go`, `internal/config`) | the base context | start, signal, HTTP shutdown with a deadline, `reg.Wait` |

How they interact: a handler calls the actions, which call the registry and
git; a job runs in its own goroutine with the base context; when a job ends the
registry calls the index (`RefreshGhostsNow`), and a successful `InitRepo`
calls `ScanNow`. The index reads the disk everybody else writes to, and
publishes a snapshot that handlers read without a lock. A signal cancels the
base context, on which the job's git, the index and the expiry loop end.

What is hard in it is concurrency: nothing is persisted, but every check of the
disk or of a map is followed by a use some time later. `PROJECT.json` lists the
hazards at their lines. What has to hold, per component:

- registry: one running job per target; a running job is never forgotten; a
  finished one is forgotten in order and in the end; the budget is exceeded by
  what could not be dropped only;
- write actions: nothing existing is deleted; one clone and one init at a time
  in a directory; no half-written clone stays; the process ends on a signal,
  and not on half a clone;
- index: a signal is followed by a scan that sees the change; a partial or
  failed scan or listing does not pass for a complete one; it goes on;
- walk and tree: what is there is shown once, under its primary checkout if it
  is a worktree; ghosts are exactly what is not cloned;
- limiter: a lockout lasts; failures are counted once and bounded; so is the map;
- sessions: bounded; one that has ended stays ended; the browser's cookie keeps
  up with the deadline that slides;
- the page: it goes on polling; a clone it has seen running ends in a toast that
  tells how, once; a row spins while it has a reason to;
- places: what is compared as text (destinations, slugs) is equal exactly when
  the places are; a listing's row becomes the clone made from it;
- parsers: a checkout's status says what git said, and no row says better.

## Modules

| Module | What it models |
| --- | --- |
| `JobRegistry` | The registry. A *slot* stands for an entry and its goroutine and is used again once both are gone, so a fixed set of slots stands for any number of random IDs. `Start` is its critical section up to the insertion; over the budget `evictLocked` follows, entry by entry (`EvictReads`), while other goroutines store outcomes, and drops what it found (`Evict`). `Launch` is what follows the unlock (`wg.Add`, `go`). `Finish` is runJob's return under the entry's own lock, `Exit` the end of `onDone`. `late`, the jobs that finish during such a scan, is a history variable. |
| `Actions` | `Service.Clone`, `Service.InitRepo`, `git.Clone`, `git.Init` and `run`'s shutdown, one file-system call or critical section per action. EXTENDS `JobRegistry` and uses its actions. `disk` has one of four states per path; `Within` is the tree of destinations. The git child is external: it creates its directory and succeeds, fails (and removes its junk), or dies (and removes nothing). What it started may outlive it and hold its error output: `cmd.Run` returns with `PipeCloses`, not before. |
| `CheckoutStore` | The abstract promise of the write surface: the set of checkouts only grows. `Actions` implements it under `checkouts <- Present` (where it does). |
| `Index` | `Run`, its three stages, the channels, and the handlers and jobs that change checkouts and signal. A checkout is its version; listing, walking, inspecting and fetching are steps during which others go on. |
| `Snapshots` | What readers of the index may rely on: a snapshot shows nothing that was not there and takes nothing back, of checkouts or of listings, without saying so. `Index` implements it. |
| `Tree` | `scan.Walk` as one `processDir` after the other on a disk that changes meanwhile, followed by `tree.Build` as an operator on what was found, on origins and on listings. |
| `RateLimiter` | The limiter under `Login` and `Authenticator.Run`: a request reads the clock first and takes the limiter's lock twice later. `recorded` is a history variable. |
| `SessionStore` | The session store under `Login`, `Require`, `Authenticated`, `Logout`, with the browsers. A browser has one cookie, whatever sessions it has been given, so the answer that arrives last decides what it holds; a logout's answer clears whichever it is. An ID stays with the browser that drew it. Answers come in any order, or are lost. `required`, `astray` (a lost marking) and `displaced` (a session whose cookie gave way to another answer) are history variables. |
| `Dashboard` | `app.js` in one tab, with the fragments it reads (`handleTreeFragment`) and the clone handler it posts to. `wire` is the sequence of requests for fragments that are out, each with what it was rendered from once it was; `seen` is a toast's kind per job, `pending` is `pendingClones`, `row` what is drawn. Answers come late, or are lost; toasts are dismissed, the tab is hidden, the page is reloaded. The registry and the index are reduced to what a fragment shows of them: a record per job until it expires or goes to make room for another, and whether the index has told of a checkout. |
| `Places` | How a URL, a provider's listing, a requested destination and the walk come to name one directory: `ParseRemoteURL`, `ValidateCloneURL`, `DestFor`, `safepath.Resolve`, `ParseOwners`, ghosts and slugs. Segments include `..`, empty ones and ones with blanks at an end, where `TrimSpace` and `Trim` follow one another. Functions, no state. |
| `Porcelain` | git's report as `parsePorcelainV2` reads it, token by token, with `Inspect`, whose commands (`git status`, `git stash list`, `git config`) each may fail, the predicates of `Status`, the row's word and chips, and the summary. Functions, against a reference that counts what the report says. |
| `TailBuffer` | A job's output: `Write` at the limit, `String`'s rewriting of lines, against a screen that a terminal would show. Functions. |
| `MC*` | Instances for TLC: symmetry sets, trees of destinations, the small disk; and, in `MCJobRegistry` and `MCTree`, what the modules of functions promise, stated of the states that use them. |
| `JobRegistryProofs`, `ActionsProofs`, `RateLimiterProofs`, `SessionStoreProofs`, `IndexProofs`, `DashboardProofs`, `TreeProofs` | Theorems about the modules they are named for. |
| `FunctionProofs` | Theorems about `Places`, `Porcelain` and `TailBuffer`, for inputs of every size; `TreeProofs` and `JobRegistryProofs` use them. |

A definition under the comment `Mutant:` is the definition below it with a
plausible bug; it is in no specification. `PROJECT.json` says which property
refutes it.

Data are abstracted to what the properties tell apart: a destination is a model
value with a place in a tree, a checkout in `Index` is a version, a time is a
tick, an ID a slot. The models with state begin with requests that were
accepted; which are is `Places`, where a path is a sequence of segments, a
segment a word or one of the spellings the code tells apart, and a URL a form, a
host and a path.

## Runs

| Run | Specification and bounds | What it shows |
| --- | --- | --- |
| `registry` | 3 slots, 2 targets, budget 2, fair; buffers of up to 3 bytes of 5 kinds, output of up to 5 in two writes | `RegistryInv`, `ForgottenOnlyWhenDue`, `BudgetKept`, `FinishedIsForgotten`. One slot more than the budget makes eviction meet two finished records, one too many, as well as a finished one beside a running one, and lets jobs finish before, behind and after the scan. `EndOfOutputIsShown`: whatever was cut, a record shows the end of what a terminal would. |
| `clones` | 2 handlers, 2 jobs, 2 destinations side by side | All of the clone's safety: `CloneOwnsDestination`, `NoWreckage`, `CleanExit`, `NothingIsDeleted` (the refinement of `CheckoutStore`). Two jobs and two handlers are the smallest number that race for one destination. |
| `mixed` | 1 clone handler, 2 jobs, 2 inits, one destination, fair; 0.8 million states | `ActionsInv`, the inductive invariant behind the rest. `OneWriterPerDirectory`: one clone and one init at a time in a directory, though nothing keeps the two apart. `SettledStays`: what the write surface does guarantee where `NothingIsDeleted` fails. `ShutdownEnds`: a signal ends the process wherever jobs and handlers are, if what git started lets go of its error output in the end. |
| `nested_clones` (violation) | 2 clones, one beneath the other's destination | The outer clone fails and removes the inner one's finished checkout. |
| `limiter` | 2 logins at a time, 2 addresses, room for 1, 8 ticks, windows and lockouts of 4; 2.9 million states | `LimiterInv`, `BurstCountsOnce` for clock readings of any age and order, `MapIsBounded`, `FailuresAreBounded`, and `LockoutOutlivesTheRest`: what is left of `LockoutLasts` when requests overlap. The clock sees a window, the lockout it trips and what follows. |
| `limiter_race` (violation) | 2 logins at a time, 1 address | A request let through before the lock was set resets it. |
| `sessions` | 1 browser, 2 sessions, room for 1, 2 requests at a time, TTL 3, reissue after 1, 6 ticks | `SessionInv`, the inductive invariant behind `SessionsAreBounded`, `EndedStaysEnded` and `CookieKeepsUp`. A second login of the same browser, while a request or a logout of the first session is in flight, is what one cookie is hard for; any answer may be lost. Browsers share the store's room and nothing else. |
| `index` | 1 checkout, 2 versions, 1 actor, 1 owner, 1 walk that fails, fair | `IndexInv`, `NoLostWakeup`, `NothingVanishesSilently`, `SnapshotsAreHonest` (the refinement of `Snapshots`), and the liveness properties `AnnouncedIsShown`, `ScansGoOn` as long as `gh` answers. The properties are about one checkout or one owner at a time; the instance with two checkouts (1.8 million states) satisfies the safety ones as well, but is too large for the liveness ones. |
| `index_hangs` (violation) | the same, `gh` may never answer | Scans stop. |
| `tree` | 5 paths of up to 3 levels, walked to 2; every content of each; 1 change during the scan; 1.1 million states | `WhatIsThereIsShown`, `GhostsAreTheUncloned`, `NothingIsCutOff`, `DirectoriesAreKept`. Of every tree it may build: `PlacesHaveOneName` and `GhostsMeetTheirClones` (paths and URLs of up to 3 segments of 11 spellings, 5 hosts, 4 forms), `StatusIsAsReported` (reports of up to 3 paths, every kind of record and every look of a renamed file's old name), `RowsNeverReassure` (rows of up to 2 paths). |
| `dashboard` | 2 jobs one after the other for 1 repository, a registry with room for 1, 1 lost request, fair; 0.4 million states | `DashboardInv`: polling never stops, and what the page knows to run, spins. `ToastsGoForward`; `OutcomesAreTold` and `SpinsForAReason`: a page that stays visible comes to tell every end, and to show spinners where something is cloned and nowhere else, whatever the order of click, answer, end and fragment. Two jobs for one repository are a retry, beside the record of the attempt before it or in its place. |
| `dashboard_stuck` (violation) | 1 job, nothing lost, fair | A tab that was hidden while the job ended and its record expired keeps the toast that says it runs. |

`CHECK_DEADLOCK FALSE` is set everywhere: every one of these systems may come
to rest (no requests, the process has ended, the model's clock has run out).

Bounds are constants: `MaxTime` (the clock), `MaxLosses` (requests of
`Dashboard`), `MaxVersion`, `MaxWalkErrors`,
`MaxChanges`. Slots, jobs and handlers are sets. The sizes of the functions'
inputs are arguments of their properties. The smallest input that can go wrong
is within them: a renamed path followed by another record takes two, a name
spelled twice an empty segment between two words, a carriage return at the cut
a buffer of two bytes. `FunctionProofs` proves the same for every size.

The modules of functions have no runs of their own: what they promise depends
on no state, and is checked as an invariant of the first states that make use
of it, a finished job or a tree that is built.

### Fairness

- `RegistryFairness`: time passes for a finished record, `evictLocked` goes on,
  and the expiry loop's ticker fires (`Run` is one goroutine that does nothing
  else). Its pass is strongly fair, because it takes the lock that a stream of
  `Start` calls may hold each time it looks: a `sync.RWMutex` lets a waiting
  writer in.
- `Actions!Fairness`: a job's goroutine is scheduled unless it waits for git or
  for the pipe, git ends when it is killed by a cancelled context
  (`exec.CommandContext`), and `run` goes on after the signal. Nothing is assumed
  of requests, of a git nobody kills, or of what git has started: only git
  itself is killed, and there is no `WaitDelay`. `ShutdownEnds` names what it
  needs beyond that as a hypothesis, `PipesClose`.
- `RunFairness`: the goroutine of `Run` is scheduled and its tickers fire; a
  local git comes back, and a fetch does within its timeout. `AnsweringSpec`
  adds that `gh` answers or fails: the code has no timeout there, which is what
  `index_hangs` is about. The select's choice among ready arms is left open;
  the properties need no fairness of it, because every arm ends in a scan.
- `Dashboard!Fairness`: the page's timer fires, a request for a fragment or for
  a clone is answered or fails (a browser ends what hangs), and the index
  publishes what it was told, which is `AnnouncedIsShown`. Nothing is said of how
  long a clone takes or what the user does: a page may be hidden for good, and
  the liveness properties speak of visible ones. A record expires half an hour
  after its job's end, in which a visible page polls many times: it is forgotten
  once the page has drawn it, or is hidden.

## Findings

Four runs refute what the project says of itself:

- `nested_clones`: destinations are compared for equality only, so a clone into
  `a/b` is accepted while one into `a` is under way. When the outer one fails,
  its `RemoveAll` takes the inner checkout with it, against `Nothing here ever
  deletes a checkout`. The same happens, in a much shorter window, when an
  `InitRepo` lands between a clone's last `Lstat` and git's start: the two busy
  guards (`Registry.Start`, `beginInit`) do not see each other. `SettledStays`
  says what remains true: a checkout that no clone at or above it in flight
  could claim is never touched again.
- `limiter_race`: `recordFailure` resets an expired window together with a lock
  that has not expired. `LockoutOutlivesTheRest` says that, beside a
  login that succeeds, this is the only way a lockout ends early while the map
  has room.
- `index_hangs`: listings run on the goroutine that scans, without a timeout.
- `dashboard_stuck`: the page learns of an end only from a fragment that lists
  the finished job, a hidden page asks for none, and the record is dropped after
  half an hour. `OutcomesAreTold` and `SpinsForAReason` hold of all other
  histories: they except a job whose record went before the page could read it,
  which is also what an eviction may do to a visible page.

Further differences between comments and code came up that no run states:

- `failureWindow` is called sliding and is not (`FailuresAreBounded` says what
  fixed windows give instead); a reset window forgets the last failure, so one
  just after it is not coalesced.
- `cmd/repoman/main.go:130` takes the wait for the jobs to be brief, because git
  was cancelled. `exec.CommandContext` kills git and then waits for the pipe of
  its error output, which ssh or a credential helper may hold (`PipesClose` is a
  hypothesis of `ShutdownEnds`, and it does not hold without).
- `evictLocked` is said to drop the oldest finished jobs. It reads the entries
  one by one without stopping their goroutines: an older job that finishes behind
  its back survives the newer one that is dropped, or leaves the map over its
  budget. `ForgottenOnlyWhenDue` and `BudgetKept` except just those (`late`).
- The comment of `Require` is about one session's cookie. A browser that has
  logged in twice, or out, may be answered to an older request last, and holds
  that session's cookie, or none: `CookieKeepsUp` excepts it (`displaced`).
- A directory whose path begins or ends with a blank is found by the walk, and
  `Resolve`, which trims what a request asks for, takes its path for another:
  its row's buttons miss it. `PlacesHaveOneName` excepts such paths.
- `git stash list` and `git config` may fail on their own. The first shows as no
  stash, on purpose (`status.go:183`), and `RowsNeverReassure` says so; the second
  as no remote, which is a chip.
- `FetchConcurrency` does not bound fetches on demand.
- The directory of an owner is pruned by `tree.Build` like any other if all it
  holds is a worktree that hangs elsewhere.
- git ends every update of its progress with a carriage return, and `String`
  shows what follows the last one of a line: the progress that is running is
  not shown, against `jobs.go:247` and `app.js:251`. `TailBuffer` shows what a
  terminal would once the line is written over.
- A branch whose upstream is set, but gone after `--prune`, gets the `clean`
  chip that stands for being level with it (`status.go:145-148`).
- `config.go:185-192` promises that owners are spelled as `ParseRemoteURL`
  spells them. A host with a port is not, and the login's case is not folded
  on either side (`GhostTurnsIntoClone` leaves such owners out).
- The path of a ghost is where it would land (`model.go:24`), except for a
  repository such as `.github`, whose clone button `Resolve` refuses.

## Proofs

The theorems hold for every value of the constants that satisfies the named
assumptions (`JobsFinite`, `MaxJobsPositive`, `NoTargetIsNone`, `WithinIsTree`,
`LimitsArePositive`, `LockoutOutlastsWindow`, `SessionLimits`, `NoneIsNeither`,
`IndexConfig`, `MaxJobsIsNat`, `MaxLossesIsNat`, `TreeConfig`), which TLC evaluates on every run. Two of them
say more than what the constants are:

- `LockoutOutlastsWindow`: both are 15 minutes in `ratelimit.go`. With a shorter
  lockout an address would come back while failures from before it still count
  against it, and `FailuresAreBounded` would not hold.
- `TreeConfig`: paths have their parents, and no repository's place leads to an
  owner's. A login has no slash in it (`ParseOwners`), so an owner is at the
  second level and a repository at the third.

Each module with state has one inductive invariant, from which every safety
property that a run checks of it follows as a theorem. What the runs check of
the modules of functions is proved as well, for inputs of every size; so every
invariant and every action property of a passing run is a theorem (`NoWreckage`,
`CleanExit`, `CloneOwnsDestination` and `NothingIsDeleted` under `ClonesAlone`,
which the run's constants satisfy).

- `JobRegistryProofs`: the property one wants of `RegistryInv`,
  `OneWorkerPerTarget`, is not inductive: the busy scan reads records, so it
  needs `RunningRetained` (a goroutine at work has a running record in the map)
  and its converse (a record that says running has a goroutine at work).
  Eviction and expiry take finished records only, which is what keeps the first.
  `OneWorkerAtATime` and `WorkingIsRetained` follow. `ForgettingIsDue` and
  `BudgetIsKept` are about steps: they need that what is in the map has been
  started, that `earlier` refers to nothing that has left it, because the
  eviction of several records is of the first ones in that order, and
  `ScanMissesLateOnly`: one `Start` at a time holds the lock, and at its end a
  finished record is one that it has read as finished, or one that finished
  while it was reading. What is read as running and is then stored as finished
  is in `late`; what is read as finished stays so.
- `ActionsProofs`: every step of `Actions` is a step of the registry or leaves
  it alone (`ActionsImplementRegistry`, a refinement), so `RegistryInv` carries
  over. `ActionsInv` adds that git.Clone runs only inside a job at work, that
  what is at work has a destination, `Rooted` (what exists has its parents) and
  `ClaimsHeld` (`initing` holds the destinations of the inits under way, which
  differ). `Rooted` is what `SettledCheckoutsStay` rests on: where a checkout
  exists no later clone at or above it finds its destination absent, so it
  cannot come to believe that it created it. `ClaimsHeld` and the registry's
  part give `WritersAreApart`; that git.Clone runs only inside jobs at work,
  which `reg.Wait` waits for unless their handler has yet to launch them, gives
  `ExitWaitsForGit`. Under `ClonesAlone` (no inits, destinations do not nest)
  `CloneOwnsDestination` is inductive as well (`ClonesOwnTheirDestinations`) and
  gives `ClonesLeaveNoWreckage`, `ClonesExitCleanly`, and `ClonesDeleteNothing`,
  the refinement of `CheckoutStore`; the run `nested_clones` shows that the
  hypothesis is needed.
- `RateLimiterProofs`: `LimiterInv` says three things of an address. `Window`:
  counted failures are apart, and a count of zero has no window, because the
  reset keeps the record (`BurstsAreFolded`). `Lock`: a lock is as long as it
  should be from the last counted failure (with it, `LockoutsOutliveTheRest`).
  `Ledger`: of the failures before the record's window fewer than a lockout's
  worth are recent, and the window's own are no more than its count. With it,
  `GuessesAreLimited`. `MapStaysBounded` is a cardinality argument:
  `recordFailure` makes room before it adds.
- `SessionStoreProofs`: `SessionInv` has four parts. `ReadingsAreOld`: no
  cookie time or reading lies ahead of the clock. `DrawnOnce`: an ID is nowhere
  before its login creates it, and in no other request
  (`EndedSessionsStayEnded`: a request that finds no entry stores none).
  `OneBrowserEach`: a session, its requests and its cookie are one browser's, so
  that an answer replaces what that browser holds and nothing else.
  `CookiesGoOut`: the cookie the store believes it has issued is in the browser,
  or with a handler about to answer, or its loss is in `astray`, or `displaced`
  has the session (`Held`); the same of every cookie time a request has read,
  which is what `CookiesKeepUp` needs of requests that overlap. `SessionsStayBounded` is like
  `MapStaysBounded`.
- `IndexProofs`: `StagesAreApart` (a listing, a round and a scan do not overlap,
  and what one leaves behind is gone before the next), `NothingIsMadeUp` (what
  is seen was there), `ScanKeepsUp` (a scan will show what the last snapshot did
  or warn, and it has consumed no signal whose change it has passed by),
  `RunMayWait` (a signal not yet shown has a token while `Run` waits) and
  `ListingsAreTold`. From them `WakeupsAreNotLost`, `SnapshotsTakeNothingBack`
  and `IndexImplementsSnapshots`, the refinement: a step of `Run` publishes what
  may follow the last snapshot, a step of git changes the disk, and any other
  step is not seen.
- `DashboardProofs`: a fragment may be older than what the page was told
  meanwhile only in ways that do not hurt: `FragmentsTellRight` says that an
  outcome the page knows is in every fragment that lists the job, and that a job
  the page believes to run is listed or forgotten. That holds because requests
  go out one at a time (`PollingGoesOn`), and it is what `RowsSpin` and
  `ToastsStayFinished` need when a fragment arrives.
- `TreeProofs`: `TreeInv` says of the walk that what is due, read or found is
  apart, with all that leads to it read before (`EachInItsTurn`), and that what
  is there, can be reached and does not change has been met or lies below
  something that is due (`NothingIsPassedBy`); and of a tree that it is `Build`
  of what was found. The four properties follow from lemmas about prefixes, the
  skeleton and `Under`: `NothingHangsInTheAir`, `WhatStaysIsShown`,
  `NoGhostBesideItsClone`, `DirectoriesAreNotLost`. The last needs that an
  owner's place that has become a worktree keeps its directory in the skeleton,
  which nothing prunes. `TreeInv` is no property of a run of its own; on the
  disk of `tree` TLC finds it true of every state.

- `FunctionProofs`: what the modules of functions promise, for inputs of every
  length. Folds and recursive functions are first solved: lemmas such as
  `LinesSolved`, `ScreenSolved` and `VisibleSolved` give the values between the
  steps, which exist because the set of the lengths for which they do is all of
  `Nat`. Induction is over such sets (`Induction`, from the library's theorem
  that a well-founded relation has minimal elements).
  - `Porcelain`: while the parser reads a report, the status counts the entries
    read so far, and the token to read next is the first one of the next record,
    whatever a renamed file's old name looks like; hence
    `StatusesAreAsReported`. `RowsAreHonest` needs besides that a count is zero
    only of a report without such an entry, and holds whichever of git's commands
    fail.
  - `Places`: `path.Join` leaves a path alone whose elements are all legal, and
    what `Resolve` lets through, or `ValidName` does of an owner and a name, has
    such elements only, blanks at its ends apart: `PlacesAreNamedOnce`, for
    paths and URLs of every length over any words. `GhostsBecomeClones` follows a ghost's URL through
    `ValidateCloneURL`, `ParseRemoteURL` and `DestFor`, for owners and names of
    any words that `Resolve` lets through and that neither begin nor end with a
    blank, its hypothesis. `.github`, which it
    does not, is a case of its own: both ways to clone it refuse.
  - `TailBuffer`: after any writes the buffer is the end of what was written
    (`WriteKeepsTheEnd`). `Follows` relates what `String` makes of the bytes of
    the buffer so far to a terminal that has had everything up to there: the
    lines are its last ones, and the first of them is the end of the terminal's
    line, because a carriage return resets both and any other byte is added to
    both. Dropping empty lines and trailing blanks keeps that (`VisibleTail`):
    `OutputEndsAreShown`, for every limit and every output.

  The invariants of the runs, which say it of bounded inputs in the states that
  make use of it, follow: `ScannedPlacesHaveOneName`,
  `ScannedGhostsMeetTheirClones`, `ScannedStatusIsAsReported` and
  `ScannedRowsNeverReassure` in `TreeProofs`, `EndOfOutputIsAlwaysShown` in
  `JobRegistryProofs`.

Checked by TLC only: the liveness properties (`FinishedIsForgotten`,
`ShutdownEnds`, `AnnouncedIsShown`, `ScansGoOn`, `OutcomesAreTold`,
`SpinsForAReason`), which the prover cannot treat (fairness and ENABLED).

## Not modelled

- Of the browser's script: themes, collapsed rows, the buttons for fetching and
  pulling, and a server that restarts under the page. It would forget every
  job, which strands a visible page like expiry strands a hidden one.
- Which strings are URLs at all (`ParseRemoteURL` and `ValidateCloneURL` refuse
  control characters, credentials and unknown schemes before `Places` begins);
  `gh`'s command line and its limit of 1000; `ResolveExisting`, which follows the
  disk's symbolic links; `Contains` and `Rel`, which compare canonical strings;
  `nextURL` and the client's address, sequential string functions.
- Display order (`Node.Sort`), `Find`, the last commit and the time of the last
  fetch, templates, routing, JSON, logging. Settings other than the owners are
  the constants of the modules.
- What a crash leaves: nothing is persisted, so there is no recovery to model;
  a failing listener ends the model like a crash does (`aborted`), and nothing
  is claimed of the disk then.
- git's own locks between concurrent fetches and pulls of one repository, and
  children of git that outlive it, except where a clone waits for them.
- A `RemoveAll` that fails (`git.go:252` drops its error): `NoWreckage` takes the
  cleanup of a failed clone to succeed.
- A destination that is deeper than the walk goes, or inside another checkout:
  its clone succeeds and no scan shows it. `PlacesHaveOneName` rules out hidden
  ones only, and `WhatIsThereIsShown` is about what a walk can reach.
- Between a click and the next fragment but one a row may not spin:
  `SpinsForAReason` says that it comes to. A mark that no record is left to clear
  (`Stranded`) is excepted from it, and so does the script leave it.
- `Actions` together with `Index` and `Tree`. Each takes from the others what
  their properties state: a job signals the index when it ends, `Index` shows
  what was signalled, `Dashboard` starts from an index that does. The state
  space of the product is out of reach at bounds where anything happens.

## Plan

Done: `JobRegistry`, `Actions` on it with `CheckoutStore`, `RateLimiter`,
`SessionStore`, `Index` with `Snapshots`, `Tree`, `Dashboard`, `Places`,
`Porcelain`, `TailBuffer`; proofs of every safety property a run checks, for all
values of the constants, and for the modules of functions for inputs of every
size. Nothing of the plan is left; what lies beyond it is listed above.
