# Verification of larigot

larigot is a bulletin board served over the gemini protocol: one Go process, a
goroutine per connection, all persistent state in one bbolt file, and a bleve
index beside it for keyword search. This directory holds TLA+ models of what
its handlers do to that state, TLC runs of small instances, and TLAPS proofs
for all instances. Source references are to files of the repository's root.

## 1. The system

| component | state | operations | hard part |
|---|---|---|---|
| Threads and posts (`threads.go`, `nudge.go`) | buckets `allthreads`, `posts`, `subforums`, `threadtosubforum`, `userthreads`, `userposts`; flag `postnudge` | open a thread, reply, show the reminder once | checks outside the write transaction, six buckets written together |
| Keyword index (`searchkey.go`) | channel of 64 messages, bleve index and its directory | start, fill a new index, queue a post, index it, search | sent before the commit, blocks with the writer lock held, lost at a stop, two loops after a first start |
| Accounts and sessions (`users.go`, `certfp.go`) | buckets `users`, `validation`, `certfp` | register, mail a code, verify, log in, log out | a hash between the check and the write, mail after the commit |
| Moderator console (`console.go`, `scanln.go`) | `locked` of threads, `muted` of users, bucket `console` | lock, unlock, mute, unmute, read and write the log | concurrent with the handlers it restrains; logged in a second transaction, under a key that is a text |
| Rate limiting (`handler.go`) | counters by address | check, count | two calls, not one |
| Reports (`report.go`, `email.go`) | `reports` of a post, counters by user | mark, check, count, mail | the mark is committed first |
| Views (`viewthread.go`, `search.go`, `subforumIndex.go`, `root.go`, `pages.go`) | none | read, sort and render | follow links between buckets without looking; use bbolt's slices after the transaction |
| Process (`main.go`, `database.go`, `backup.go`, `config.go`) | database handle, server, channels | start, stop, backup | stopping while handlers run |
| Privileges (`userPriviledge.go`) | none (configuration) | compare | - |

The components meet in the database (one writer at a time, each reader on a
snapshot), in the keyword channel, in the limiter's store, and in
`GetUsernameFromFP`, which every handler that needs a user calls once at its
start. What is correct, per component: threads and posts refer to each other
and stay; a user posts only where entitled, at the moment the post is stored;
every stored post can be found; a certificate is tied to a verified account
only, with its password; one account per name; an unverified account can be
verified; an address is held to its rate within the requests in flight; a
report is mailed once; the log explains the state it is about; a page shows what
was read; a quit ends the process, with the database closed under nobody's hands.

`PROJECT.json` lists the hazards at their lines, each with the properties that
would show it going wrong or the reason there is none yet.

## 2. Modules

| module | models | extends |
|---|---|---|
| `UserPriviledge` | the privilege levels | |
| `Board` | abstract: a list of threads that only grows, changed by those entitled | `UserPriviledge` |
| `Threads` | the handlers of `threads.go` and `nudge.go`, the console's four commands, the keyword queue, stop and restart | `UserPriviledge` |
| `Registry` | abstract: accounts and sessions, each operation one step | |
| `Accounts` | `users.go`, the registration mail | |
| `Limiter` | the vendored rate limiter, from how larigot uses it | |
| `RateLimit` | the head of `handler.go` | `Limiter` |
| `Reports` | `report.go` and `SendEmailOnReport` | `Limiter` |
| `Config` | the configuration as others read it: `LoadConfig`, the links, the look-ups by ID | |
| `Keywords` | `searchkey.go`: starting, filling and feeding the index | |
| `Lifecycle` | `main`, `OnQuit` and its callers, the listener, the backup, handlers at the close | `Config`, `Keywords` |
| `Console` | the console's log and the length of a mute | |
| `Bolt` | pages, snapshots and the memory map of bbolt, from how larigot uses them | |
| `SubforumIndex` | the list of a subforum's threads, and what it is rendered from | `Bolt` |
| `MCThreads`, `MCAccounts`, `MCReports`, `MCLifecycle`, `MCConsole`, `MCSubforumIndex` | constants and symmetry of the TLC instances | |
| `ThreadsProofs`, `ThreadsSearchProofs`, `AccountsProofs`, `RateLimitProofs`, `ReportsProofs`, `LifecycleProofs`, `ConsoleProofs`, `SubforumIndexProofs` | the proofs | each its component (`ThreadsSearchProofs`: `ThreadsProofs`) |

### Threads

A request is a goroutine with a program counter (`pc`) and what it asks for
(`req`); a request in state `idle` stands for a connection that may come. The
steps are cut where the code lets others in: between two transactions, and at
the channel send.

    idle -> lookup -> nudge -> begin -> send -> commit -> idle     a reply
    idle ----------> nudge -> begin -> send -> commit -> idle      a thread
                       `-> setnudge -> idle                        the reminder

- `NewPostHandler`, `CreateThreadHandler`: the session and the mute, read in the
  one transaction of `GetUsernameFromFP`. A user who is muted, or has no session,
  is answered at once, with no effect, so no step stands for it.
- `LookupSubforum`, `CheckForPostNudge`: the two read transactions that follow.
  `UpdateForPostNudge` is a write transaction whose error the handlers ignore. Its
  commit and the answer with the reminder are one step, so a reminder that a stop
  between the two keeps from its reader is not seen.
  `ReadyToStore` collects the checks of configuration and input, which read no
  shared state; a title that `ValidateThreadTitle` refuses, or a missing query,
  is the text `Nil`. Such a request passes through the reminder like any other,
  as it does in the code.
- `BeginUpdate`: `db.Update` takes bbolt's only writer lock; the thread and its
  own lock are looked at under it. `SendPostToKeywordDB` blocks while the
  channel is full, with the lock held. `CommitPost`, `CommitThread`,
  `CommitFails`: the writes, all or none, and the release of the lock.
- `MuteOrUnmuteThread`, `Mute`, `Unmute`: one write transaction each. A mute for
  some days ends by itself; `Unmute` is that too, so it does not wait for the lock.
- `KeywordReceive`, `KeywordIndex`: `keywordDBloop`, with the message in its hand
  between the two. Neither the loop (searchkey.go:82) nor `PopulateNext` (:127) looks
  at what `index.Index` returns: `IndexPost` is both outcomes, where `IndexMayFail`
  says so, and `missed` remembers the IDs whose last call failed. It is history: no
  step of the code depends on it, and the properties that say what the index has except it.
- `Crash` (memory gone, files kept), `ShortPath` (the process stops at
  `parts[2]`), `Restart`, `Repopulate` and `PopulateNext` (`initKeyword` filling
  a new index, before the server listens).

A bucket with keys from `NextSequence` is a sequence. Nothing is deleted from
these buckets, and a rolled-back transaction rolls its sequences back, so
positions and keys agree. `itob` writes keys so that their order is that of the
numbers. The users and their levels are constants: registration is the subject
of `Accounts`, and levels come from the configuration. Time stamps and titles are
left out: nothing here depends on them.

### Accounts

`users` maps a name to whether it is verified and to its password; a bcrypt
hash is the password it is of, and `CompareHashAndPassword` compares. `Fold`
gives names that `strings.EqualFold` identifies the same value; `Trim` and
`LongEnough` say what `strings.TrimSpace` does to a password and which ones
pass `validatePassword`. The steps are: `RegisterUserHandler` (validation, with
the read of all names), `OnRegister` (the write transaction, the hash being done
before it), `SendEmailOnRegistration`; `VerifyUserHandler`; `LoginUserHandler`
(the read), `CompareHashAndPassword`, `AssignFingerprint` (the write);
`LogoutUserHandler`. `mailed` holds the codes that reached a mailbox, whose
reader is the only one who tries them; `lost` those whose mail failed or was cut off. Codes are 64 random bits from math/rand
and are taken not to repeat.

### Limiter, RateLimit, Reports

The limiter keeps hits per key of the current and of the previous window and
weighs the previous ones by the part of their window that a sliding window
would still see. `IsLimited` is that comparison multiplied out, so it stays in
the integers. Its counters expire ten minutes after their last hit, which is
left out: the windows that matter are shorter. `limitStore` is one store for
both limiters; the keys of one are addresses and of the other user names, and
no user name has the dots or colons of an address.

`RateLimit` has `Check` and `Count`, the two calls of `handler.go`. `Reports` has
`ReportHandler` (the transaction that marks the post), `CheckReportLimit`,
`CountReport` and `SendEmail`. A stop forgets the counters and the requests, and
keeps the marks. It does not move the windows, which are of wall-clock time.

### Config, Keywords, Lifecycle

`Config` has operators only: a configuration is a sequence of forums, each with
its subforums. `RootLinks` gives what a followed link's path looks like to
`SubforumIndexHandler`: the ID goes into the link as it is (root.go:62), and
`EscapedPath` of the request is cut at slashes (subforumIndex.go:73). The constant
`PathParts` is that conversion, which is the client's and net/url's; nothing is assumed of it,
and the run gives it what becomes of an ID with a blank (cut off), with a lone percent sign (no
request) and of none (the home page). An empty ID is a bucket without a name, which bbolt
refuses, so `InitDatabase` fails. `Lifecycle` starts a process over a database file that an earlier
configuration made, and takes any configuration the file may hold by then.

`Keywords` is `initKeyword` as it runs. Each call makes a channel and starts a
loop; without an index directory it calls itself, so a first start leaves two
channels and two loops. A loop reads the variable `keywordDBchan` each time
round, and nothing orders its first read and the second assignment: `Channels`
gives it either. A post is its ID here, and `missed` records what the index was
kept from, by an error of `index.Index` that nobody looks at, or by a stop.

`Lifecycle` composes the two with `main` (`phase` is how far it has come), the
listener of the gemini server, the two callers of `OnQuit`, and the backup.
`OnQuit` is cut at every channel operation and inside `db.Close`, which first
takes the writer lock and then waits for the transactions that read. A handler is
what it is to the others: a write transaction that sends a message before it
commits. Its checks, and all that it writes beside the post, are in `Threads`.
Every way for the process to end is `Exit`: main returns, `os.Exit`, a panic
(`QuitTooEarly`: `serv` is still nil when a signal comes), or a kill.

### Console

A command's effect is one write transaction, its log entry another, made when
`ConsoleCommand` returns. `RFC3339Nano` is the text of a clock reading, byte by
byte from the decimal point on, because the order of the keys is the order of
these texts: the fraction loses its zeros, the zone is `Z` or an offset, and the
wall clock goes back when summer time ends. `Wrap` is the product of an hour and
a number of days in a word of `DurationBits` bits. `told` and `asked` are history.
`Threads` has the same commands as they concern the handlers.

### Bolt, SubforumIndex

`Bolt` is what bbolt does with its pages. A write transaction goes through
`BeginUpdate`, `Spill` (its pages are taken, free ones or new, and the file is mapped
anew if it must be), `Write` (they are written, and the map shows it), `WriteMeta` (those it
replaces are pending from here on) and `Close`, and may fail on the way: in its
function, before a page is written, after some are, or before the meta page. The next write transaction
frees, when it begins, the pending pages that no open snapshot sees. An error after the
meta page is written (that it did not reach the disk) is left out. Two pages are told apart:
the one with the threads and one for those that every commit replaces. A commit
that outgrows the memory map waits for the open transactions and maps the file
anew. `SubforumIndex` has the handler: `BeginView`, `GetThreadsForSubforum` (the end of
the transaction and the sort) and `Respond` (the page written from slices). Other
writers are `OnNewPost`, `OnNewThread` and `OtherUpdate`, and `EndView` is a reader that
keeps nothing, as the backup. `sort.Sort` is an insertion sort of up to `InsertionMax`
elements (12 in Go's library). Of longer lists all that is said is that it swaps: with a `Less` that
holds both ways between equal times, any order may come out (`SortThreads`). What `seen` says of the page is history, for comparison.

### Abstract specifications

`Threads` implements `Board` under the mapping that `ThreadViewHandler` computes
when it renders threads (`view`): `ImplementsBoard`. In particular a reply is
stored only in a thread that is not locked when it is stored, or by a moderator;
a post appears with its thread, or not at all. `Accounts` implements `Registry`
with its buckets as they are: `ImplementsRegistry`. One name is never registered
twice and no password is ever written over, however registrations interleave.

## 3. Runs

| run | instance | states | shows |
|---|---|---|---|
| `threads_buckets` | 2 requests, a user and a moderator, 2 subforums, up to 3 posts, channel of 1 | 267,548 | the buckets agree, the reminder is not skipped, `Board` is implemented |
| `threads_faults` | same with 1 subforum, failing commits, crashes, short paths, refilling | 831,612 | the same under faults; index entries without a post are bounded |
| `threads_repopulate` | 2 requests, 1 user, 2 texts, up to 3 posts, failing commits and index, crashes, refilling | 3,602,450 | a refilled index has all posts but those whose indexing failed |
| `threads_keywords` | 2 requests, 1 user, 2 texts, failing commits and index, fairness | 136,064 | no post is lost to the index but by the index's own error, every other is found in the end, each request is answered |
| `accounts` | 2 requests, 3 names of which 2 fold together, 3 passwords, failing commits and mail, crashes | 106,176 | sessions are of verified accounts, no login without the password, codes match the unverified accounts and none is forgotten, `Registry` |
| `rate_limit` | 3 requests, limit 3, window 3, fairness | 435 | the overrun is bounded, and refusals do not lock an address out |
| `reports` | 2 users, 4 posts, 2 requests, failing mail, crashes | 4,613 | one mail per post, mails per user bounded |
| `lifecycle` | 1 request, up to 2 posts, channel of 1, 2 earlier and 4 new configurations, failing files, commits and index, kills, fairness | 115,276 | links and buckets fit, posts are indexed or known to be missed, the database is closed quietly, a quit ends the process |
| `console` | 2 commands at a time, 1 thread, 1 user, 2 entries, fractions of 2 digits, durations of 4 bits, 2 zones | 823,648 | the log's order, that it explains the state, the length of a mute |
| `subforum_index` | 2 readers, 6 pages, 3 write transactions in their steps, up to 1 thread, errors in each | 4,786,217 | snapshots are kept, pages show what was read until a second transaction writes; each thread is listed once, and up to the limit of the insertion sort in its place |
| `threads_muted` | violation | | finding 1 |
| `accounts_fold` | violation | | finding 2 |

What the properties say, and leave out:

- `NoPostForgotten`, `QuietIndexIsRight`, `PopulatedIsComplete` and
  `PostsBecomeSearchable` except the posts in `missed`: an error of `index.Index`
  costs the post its entry, or leaves it with the text that a failed commit had sent under
  its ID, and nobody is told. That the code ignores the error is hazard searchkey.go:82.
- `EveryPostAccountedFor` holds with two loops, errors and restarts: a post is in
  the index, underway, or in `missed`. That `missed` is not empty after an
  orderly quit, a crash while filling, or an error of bleve is how the code is.
- `QuitExits`: two callers of `OnQuit` compete for one answer of the listener; one
  of them may wait for ever, and the process ends all the same.
- `LinksLeadHome` needs both that `LoadConfig` refuses an ID in two forums and that
  buckets are made at every start. It promises a link its own subforum only where the ID
  comes back as it was (`PathParts`); of any link, that the page it leads to has a bucket.
- `ReadInOrder` says where the log is in the order of time: except within a second
  when the zone is written `Z`, and across the end of summer time.
- `LogExplainsState` has for its condition all that may come between (`told`): a
  failed command, which is logged as if done; an entry that failed or was cut
  off; two commands on one target at a time; two entries of one instant.
- `MuteLastsAsAsked` is for mutes that a duration can hold.
- `RowsAreThoseRead`: slices used after the transaction are good until a second
  write transaction *writes its pages*, which it does well before it ends, or the file has
  been mapped anew, and then may not be. Without the first exception TLC finds a
  handler whose page has been written over.
- `NewestFirst`: the place of a thread is promised up to `InsertionMax`; above it, only that
  each thread is shown once. It speaks of the lists that handlers show, and of what the
  sort makes of each table in `Samples`, which has all the lengths.
- `CodeIsOnItsWay`: `lost`, which is history, has the codes whose mail failed or was cut off by a
  stop. Nothing resends them (users.go:256); that no other code is forgotten is the property.

**Bounds.** `MaxPosts` bounds posts stored and under way, `MaxCodes` the codes
drawn; both are guards on the arrival of requests (and on drawing a code), never
on their handling. Three posts give a thread with two replies, two threads one of
which has a reply, and three threads: the index in the thread, the position in
each bucket and the post ID all differ somewhere. Two requests suffice for every
race between a check and a write, as one writer excludes all others: a third
could only repeat what one of the two does. A channel of one place is full
after one post, so blocking is met; two would only put it off. Two users of
different level and a subforum whose threads and replies ask for different levels
meet every outcome of the privilege checks. In `accounts` two names that fold
together and a third that does not are all the equality test can tell apart, and
the passwords long, padded and short all that the length test can. `rate_limit`
has one address, as addresses share nothing but the model's three requests;
limit and window are long enough for the weight of the previous window to
take several values, and short enough for the limit to be hit in each window.
`threads_keywords` has two posts, which with failing commits is enough for a
message of a failed commit to be followed by one with another text and the
same ID, and for the channel to be full while another request waits for the lock.

`lifecycle` has one request, as the writer lock excludes all others, and two posts:
one that the channel holds while a loop has the other in hand. In `console` two binary digits of fraction make every pair of lengths, the day is one
second, and two days overflow four bits. In `subforum_index` the file is as the first transaction
left it, without threads. Three more are the fewest in which a page is made, replaced and
taken again, with snapshots between; the fifth and sixth pages are beyond the memory map. The transactions are about tables of one thread at most, since which page a table is on is
all that matters to them; the sort is looked at with every table of up to four threads at two
instants (`Samples`), which has equal times and unequal ones in each order and one thread
more than are sorted by insertion. The limit is 3 there for 12, as nothing depends on the number. Of the four configurations that `lifecycle` adds, one moves a subforum and adds others, two of
whose IDs need escaping; one adds a subforum with an empty ID; and two must be refused.
`threads_repopulate` has three posts, so that a refill can lack a first, a middle and a last one.

**Symmetry.** Requests (and users and posts in `reports`, readers in
`subforum_index`) are interchangeable in the safety runs; runs with liveness use none.

**Deadlock** is checked in every run.

**Fairness.** `Threads!FairSpec` asks weak fairness of each handler and each loop,
for the Go runtime runs every goroutine that can run, and strong fairness of the
two steps that take the writer lock: bbolt's lock is a `sync.Mutex`, which after a
millisecond hands itself to the longest waiter. It asks nothing of arrivals,
moderators, commits that fail or the process. `RateLimit!FairSpec` asks that time
passes, that goroutines run, and that the client keeps trying.
`Lifecycle!FairSpec` asks that goroutines that can run are run: main, the listener, the
backup's transaction, handlers, loops and `OnQuit`; and that a goroutine waiting for
the writer lock, `db.Close` included, gets it in the end. It asks for no start, no
request, no signal and no failure.

### Findings

1. `MutedDontPost` (threads.go:111): the mute is read once, when the request
   arrives; a post can be stored after its author has been muted.
2. `CaseInsensitiveUnique` (users.go:222): the test that ignores case is outside
   the write transaction, and the one inside it does not. Two requests at a time
   register "johnny" and "JOHNNY"; users_test.go:282 wants the second refused.

Seen and given no run:

- threads.go:117: "Bad input" is made and not returned, and the handler goes on past
  the end of the path's parts (`ShortPath`).
- users.go:316: a password is validated as it came (users.go:300) and stored without
  its blanks, so it may be shorter than users.go:337 says it must be.
- report.go:70: a report that the limiter or the mail server refuses stays marked,
  and the next reporter is told "Post has already been reported" (report.go:84).
- searchkey.go:82, :127: the error of `index.Index` is dropped, and the post cannot be
  found by its words until the index is deleted and filled anew.
- root.go:62: an ID is not escaped in its link, and subforumIndex.go:73 compares the
  escaped path: subforums whose IDs have a blank, a slash or a percent sign cannot be
  reached from the home page, and an empty ID keeps the server from starting.
- subforumIndex.go:67: `Less` (threads.go:41) holds both ways between equal times, which `sort.Sort` does
  not allow; with more than 12 threads their order is whatever pdqsort makes of it.
- main.go:36: an orderly quit does not wait for the keyword queue.
- searchkey.go:81: with the two loops of a first start, a message of a failed commit
  may be indexed after that of the post that took over its ID. `QuietIndexIsRight` is
  for one loop; with two, and without that condition, TLC finds the wrong text.
- console.go:44: a command that fails is logged as one that succeeded.
- console.go:115: more than 106751 days overflow, and the mute may end in the past.
- The reminder of nudge.go, "displayed once", is displayed twice to two requests at
  a time; the configured limit of connections is exceeded by requests in flight
  (`OverrunBounded` says by how much); `consolehelp.txt:12` makes the days of a mute
  optional and console.go:84 does not; root.go:21 links pages by name, and
  handler.go:111 serves them under `/page/`.

## 4. Proofs

All theorems hold for any values of the constants that satisfy the named
assumptions of the component's modules (`ConstantsAssumption`,
`AccountsAssumption`, `LimiterAssumption`, `RequestsAssumption`,
`ReportsAssumption`, `KeywordsAssumption`, `LifecycleAssumption`,
`ConsoleAssumption`, `PowersAssumption`, `BoltAssumption`, `TablesAssumption`):
any number of users, subforums, requests, loops and posts, any channel capacity,
any configurations and whatever becomes of their IDs in links, any pages, with or without
failures and crashes, with mail on or off. Every run evaluates the assumptions for its instance. They give the
constants their types, say that `Nil` is none of the values it stands beside, and
that sets which are counted are finite; `LifecycleAssumption` says besides that
the database was made under configurations that `LoadConfig` accepts, and
`PowersAssumption` what `^` gives (`Base ^ 0`, `Base ^ (n + 1)`, and that the bound of a
duration is positive), of which the provers know nothing.

- `ThreadsProofs`: `IndInv` adds to the properties what a handler has checked on
  its way (`CallsChecked`), who may hold the lock (`WriterIsInUpdate`) and that
  the message precedes the post (`SentBeforeCommit`), with the errors of `index.Index`
  among the steps: a message leaves the queue for the index or for `missed`. It is needed because the
  properties alone are not inductive: `CommitPost` stores a post in the thread of
  the request, and that there is such a thread, that its subforum admits the
  user, that the thread is not locked against that user and that the reminder
  has been shown was checked up to five steps earlier. Nothing takes a thread's
  subforum away or sets the flag of the reminder again, so those checks last; the
  lock of the thread can change, so it lasts only because the writer lock is held
  (`MuteOrUnmuteThread` needs it too). One lemma per action and part. From it:
  `TypeCorrect`, `BucketsAgree`, `Nudged`, `PhantomBound`, `NothingForgotten`, and
  `Refinement`: `CommitThread` is `OpenThread`, `CommitPost` is `Reply`, the lock
  commands are `SetLocked`, every other step leaves `view` as it is.
- `AccountsProofs`: `IndInv` adds `LoginsChecked`, which carries what a login read
  to the transaction that uses it, and `VerifiedAtOnce`. From it: `TypeCorrect`,
  `Sessions`, `Codes`, `CodesAreSent`, `PasswordNeeded`, `Refinement`. The
  configuration with mail off is covered here only.
- `RateLimitProofs`: `TypeCorrect`, `Overrun`. The step that matters is `Check`: from the weighted
  comparison follows that the current window has fewer hits than the limit, and
  the new request is not yet among those in flight.
- `ReportsProofs`: `TypeCorrect`, `AtMostOneMail`, from: a post has a request underway,
  or a mail, only if it is marked, and a mark is set once. `MailsPerWindow`, as
  `Overrun`: requests between `CheckReportLimit` and `SendEmail` are all that can go
  over the limit.
- `ThreadsSearchProofs`, three arguments on top of `ThreadsProofs!IndInv`.
  `Listed` and `SearchComplete`: IDs are drawn in rising order, so each list of a
  user is rising, hence without repetition; it is exactly the set of the user's posts
  or threads, written in the same transaction (`UserLists`). The search takes the openings
  from the threads and leaves out posts with index 1; the two fit because the posts with
  that index are exactly the openings, each of its own thread and by its author.
  `QuietIndex`: for each stored ID, the *last* message under way that has it, or the
  index if there is none, has the text of the post, unless the ID is in `missed` (`Settles`). A failed commit leaves a
  message with a wrong text, but its ID is then that of no post, and whoever gets the ID
  next sends again, later; that it also arrives later needs the one loop.
  `Populated`: while the server is not up nothing runs, so what `initKeyword` has put
  into the index can only be posts; it goes on until each is there or in `missed`.
- `LifecycleProofs`: `IndInv` has seven parts. What runs in which phase (`PhaseInv`) and
  who holds the writer lock (`WriterInv`) are the setting. `AnswerInv` gives `Quiet`:
  the listener answers `Shutdown` once, so of all callers of `OnQuit` one at most goes on
  to `db.Close`, which waits for handlers and the backup. `ConfigInv` gives `Links`:
  `LoadConfig` refused an ID in two forums, so a link's ID leads to the one subforum
  that has it, if the ID comes back as it was, and `main` made the buckets of all IDs
  before it listened, so whatever ID comes back and is found has one. `SentInv` gives
  `Accounted`: what is indexed, under way or missed never shrinks (`Covered`), and a
  post is in it before it is committed. `RoomInv` keeps IDs within the bound.
- `ConsoleProofs`: `TypeCorrect`; `Mutes`, from: `muted` holds the second that the last
  command on the user came to (`MutedAsAsked`), where `Wrap` changes nothing of a
  product that fits, and the division by the second cuts off less than one.
  `LogOrder` rests on what texts of times are (`TextShape`): where two fractions
  first differ is where their quotients by a power of `Base` begin to differ
  (`FirstDifference`), and one that is trimmed before that is followed by the sign of
  the zone, which is less than a dot and than a digit (`TextsInOrder`); `Before` is a
  strict order of texts, and a finite set of them can be listed, so that the `CHOOSE` of
  `Read` chooses a list (`OrderExists`) and the list leaves none out (`OrderCovers`). It needs `KeysOK`,
  that an entry's key is the text of its time, and `RoomOK`, that the bound has kept
  room for the commands under way. `Explained` needs besides that two times have two
  texts (`TextsDiffer`: an entry that is overwritten was made in the same instant),
  and `Said`: where `told` holds, the command that shows is the only one yet to be
  logged, or its entry is later than all others about the target.
- `SubforumIndexProofs`: `Snapshots` and `Rows`. Pages in use, free and pending are apart
  (`PagesApart`); the dirty pages of a commit under way are free or new, hence neither
  in use nor pending (`DirtyOK`), so writing them, wholly or in part, disturbs no
  snapshot (`BeforeMeta`). A page that a snapshot sees is in use, or pending with numbers
  between which the snapshot lies (`Held`), so that `Releasable` keeps it. After the
  transaction the page stays the one in use until the first write transaction's meta
  page (`Current`), and that one can only make it pending: a second has to take it before it
  can write to it. `Order`: for lists up to `InsertionMax`, `InsertKeepsOrder` says that an
  element with a greater ID than all before goes to the place its time gives it, however
  `Less` decides between equal times, and `PlacesCounted` that in a list so ordered each
  thread's place is the number of threads before it (`InOrderOnce`). Of longer lists the
  theorem claims no order: what swaps give has each thread once (`SwappedOnce`).

The library's induction theorems take an operator as a parameter, which the provers
cannot instantiate. Where an induction over a number is needed (the sort, the joining of
the forums' subforums, the powers of `Base`, the first digit that differs) the proof
takes the smallest counterexample and refutes it (`Smallest`, from the order of the
naturals), and the function that is defined by recursion is shown to exist in the same
way.

Only model-checked: liveness (`RequestsAnswered`, `PostsBecomeSearchable`,
`KeepsBeingServed`, `QuitExits`), which with ENABLED is out of the prover's reach.

## 5. Not modelled

Rendering, wording and status codes, beyond whether a request is answered; titles,
and time stamps of posts; the characters of names; certificates and TLS; the flags
that only print; the file a backup is saved to; `pages.go`, which sends a file; the
insides of the vendored libraries, but for bbolt's pages and the limiter. The order
and the number of a search's hits (bleve's default is ten). Errors of read
transactions, which happen only when the database is closed.

The components are not put together into one specification. A handler reads the
session and the mute once (`GetUsernameFromFP`) and never again, so what `Accounts` and
`Console` do meanwhile reaches `Threads` only as the choice it already has, of any user
and of a mute at any moment; what they share beside that is the writer lock, which
`Threads` and `Lifecycle` have. `Threads` and `Lifecycle` both stop a process: the
one to see what of its buckets is left, the other to see in which order things end.

## 6. Plan

Done: all modules of section 2, and the proofs of section 4.

Next: the guarantees that one component's proofs take from another (the privileges that
`Threads` reads, the account behind a session) stated once, as the theorem of the one
and the assumption of the other.
