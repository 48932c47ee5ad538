----------------------------- MODULE Lifecycle -----------------------------
(***************************************************************************)
(* The process from start to stop: main, OnQuit and its two callers, the   *)
(* listener, the database handle, the backup, and the handlers that are    *)
(* still running when the database is closed.  main.go, database.go,       *)
(* backup.go, scanln.go, with the keyword index of Keywords.               *)
(***************************************************************************)
EXTENDS Config, Keywords

CONSTANTS
  Configurations,   \* what the configuration file may hold at a start
  Earlier,          \* configurations the database file may have been made with
  Requests,         \* goroutines of the server, one per open connection
  MayFail,          \* opening a file, a commit or a listen may return an error
  MaxPosts,         \* bound: posts stored and under way
  Nil

\* The goroutine of main that waits for a signal, and ScanlnLoop.
Quitters == {"signal", "console"}

ASSUME LifecycleAssumption ==
  /\ Configurations \subseteq Seq(Forum)
  /\ \A c \in Earlier : LoadConfig(c)
  /\ MayFail \in BOOLEAN /\ MaxPosts \in Nat
  /\ IsFiniteSet(Requests) /\ Requests \cap Quitters = {} /\ Nil \notin Requests \cup Quitters

VARIABLES
  phase,      \* how far main is; "off": there is no process
  config,     \* Configuration.Forum
  buckets,    \* file: IDs of the subforums that have a bucket
  posts,      \* file: number of posts committed
  open,       \* the database handle is open
  writer,     \* who holds the writer lock across steps, or Nil
  net,        \* the listener: "none", "listening" or "closed"
  shutdown, completed, quitDone,   \* bytes in the channels of these names
  quit,       \* where each caller of OnQuit is
  backup,     \* the backup goroutine has a read transaction open
  pc          \* where each request's handler is

storage  == <<buckets, posts>>
channels == <<shutdown, completed, quitDone>>
rest     == <<phase, config, storage, open, writer, net, channels, quit, backup, pc>>
vars     == <<rest, keywords>>

TypeOK ==
  /\ KeywordsTypeOK(1 .. MaxPosts)
  /\ phase \in {"off", "config", "database", "keyword", "fill", "watch", "serving"}
  /\ posts \in 0 .. MaxPosts /\ open \in BOOLEAN
  /\ writer \in Requests \cup Quitters \cup {Nil}
  /\ net \in {"none", "listening", "closed"}
  /\ shutdown \in 0 .. 1 /\ completed \in 0 .. 1 /\ quitDone \in 0 .. 1
  /\ quit \in [Quitters -> {"idle", "shutdown", "completed", "close", "locked", "tell", "over"}]
  /\ backup \in BOOLEAN
  /\ pc \in [Requests -> {"idle", "begin", "send", "commit"}]

Init ==
  /\ KeywordsInit
  /\ phase = "off" /\ config = <<>> /\ posts = 0
  /\ \E c \in Earlier : buckets = RangeOf(GetAllSubforumIDs(c))
  /\ open = FALSE /\ writer = Nil /\ net = "none"
  /\ shutdown = 0 /\ completed = 0 /\ quitDone = 0
  /\ quit = [q \in Quitters |-> "idle"] /\ backup = FALSE
  /\ pc = [r \in Requests |-> "idle"]
-----------------------------------------------------------------------------
(***************************************************************************)
(* The end of the process, whoever ends it: main returns, os.Exit, a panic *)
(* or a kill.  What is in memory is gone.                                  *)
(***************************************************************************)
Exit ==
  /\ Forget(posts, phase = "fill")
  /\ phase' = "off" /\ config' = <<>> /\ open' = FALSE /\ writer' = Nil /\ net' = "none"
  /\ shutdown' = 0 /\ completed' = 0 /\ quitDone' = 0
  /\ quit' = [q \in Quitters |-> "idle"] /\ backup' = FALSE
  /\ pc' = [r \in Requests |-> "idle"]
  /\ UNCHANGED storage

\* A kill at any point; an interrupt before main has asked for signals.
Crash == phase # "off" /\ Exit

ProcessEnds(p) == phase = p /\ Exit
-----------------------------------------------------------------------------
(***************************************************************************)
(* main.                                                                   *)
(***************************************************************************)
\* With or without -r.
Start ==
  /\ phase = "off" /\ phase' = "config"
  /\ repopulate' \in BOOLEAN
  /\ UNCHANGED <<config, storage, open, writer, net, channels, quit, backup, pc, files, chans, loops>>

Load ==
  /\ phase = "config"
  /\ \E c \in Configurations : LoadConfig(c) /\ config' = c
  /\ phase' = "database"
  /\ UNCHANGED <<storage, open, writer, net, channels, quit, backup, pc, keywords>>

LoadFails == ProcessEnds("config")

\* A slip: buckets are made in a new database only.
InitDatabase_NewOnly ==
  /\ phase = "database" /\ open' = TRUE /\ phase' = "keyword"
  /\ buckets' = IF buckets = {} THEN RangeOf(GetAllSubforumIDs(config)) ELSE buckets
  /\ UNCHANGED <<config, posts, writer, net, channels, quit, backup, pc, keywords>>

\* initDatabase and dbCreateBuckets, in one write transaction.  A bucket has a name.
InitDatabase ==
  /\ phase = "database" /\ "" \notin RangeOf(GetAllSubforumIDs(config))
  /\ open' = TRUE /\ phase' = "keyword"
  /\ buckets' = buckets \cup RangeOf(GetAllSubforumIDs(config))
  /\ UNCHANGED <<config, posts, writer, net, channels, quit, backup, pc, keywords>>

InitDatabaseFails ==
  (MayFail \/ "" \in RangeOf(GetAllSubforumIDs(config))) /\ ProcessEnds("database")

GoesOn == <<config, storage, open, writer, net, channels, quit, backup, pc>>

InitKeyword ==
  /\ phase = "keyword" /\ UNCHANGED GoesOn
  /\ \/ NewIndex /\ phase' = "fill"
     \/ OpenIndex /\ phase' = "watch"
     \/ Recurse /\ UNCHANGED phase

\* -r with the directory there.
InitKeywordFails == repopulate /\ dir /\ ProcessEnds("keyword")

Fill ==
  /\ phase = "fill" /\ UNCHANGED GoesOn
  /\ \/ FillNext(posts) /\ UNCHANGED phase
     \/ FillEnds(posts) /\ phase' = "watch"

\* serv is set and its Run started; the goroutines of OnQuit's callers and of
\* the backup have been running since "watch".
StartServer == phase = "watch" /\ phase' = "serving" /\ UNCHANGED <<GoesOn, keywords>>

WaitForQuit == phase = "serving" /\ quitDone = 1 /\ Exit
-----------------------------------------------------------------------------
(***************************************************************************)
(* gemini's Server.Run.                                                    *)
(***************************************************************************)
Listen ==
  /\ phase = "serving" /\ net = "none" /\ net' = "listening"
  /\ UNCHANGED <<phase, config, storage, open, writer, channels, quit, backup, pc, keywords>>

\* log.Fatal.
ListenFails == MayFail /\ net = "none" /\ ProcessEnds("serving")

\* The goroutine that Run starts once it listens, and that ends with this.
CloseListener ==
  /\ net = "listening" /\ shutdown = 1
  /\ net' = "closed" /\ shutdown' = 0 /\ completed' = 1
  /\ UNCHANGED <<phase, config, storage, open, writer, quitDone, quit, backup, pc, keywords>>
-----------------------------------------------------------------------------
(***************************************************************************)
(* OnQuit, called by the goroutine that waits for a signal, which waits    *)
(* once, and by OnSTDin, which goes on to ConsoleCommand afterwards.       *)
(***************************************************************************)
At(q, label) == quit' = [quit EXCEPT ![q] = label]

\* A signal, or the command quit.
AskToQuit(q) ==
  /\ phase = "serving" /\ quit[q] = "idle" /\ At(q, "shutdown")
  /\ UNCHANGED <<phase, config, storage, open, writer, net, channels, backup, pc, keywords>>

\* serv is still nil, and the send dereferences it.
QuitTooEarly == ProcessEnds("watch")

SendShutdown(q) ==
  /\ quit[q] = "shutdown" /\ shutdown = 0 /\ shutdown' = 1 /\ At(q, "completed")
  /\ UNCHANGED <<phase, config, storage, open, writer, net, completed, quitDone, backup, pc, keywords>>

ReceiveCompleted(q) ==
  /\ quit[q] = "completed" /\ completed = 1 /\ completed' = 0 /\ At(q, "close")
  /\ UNCHANGED <<phase, config, storage, open, writer, net, shutdown, quitDone, backup, pc, keywords>>

\* db.Close takes the writer lock and the lock that transactions begin with.
LockDatabase(q) ==
  /\ quit[q] = "close" /\ writer = Nil /\ writer' = q /\ At(q, "locked")
  /\ UNCHANGED <<phase, config, storage, open, net, channels, backup, pc, keywords>>

\* A slip: the memory map goes while a transaction reads it.
CloseDatabase_NoWait(q) ==
  /\ quit[q] = "locked" /\ open' = FALSE /\ writer' = Nil /\ At(q, "tell")
  /\ UNCHANGED <<phase, config, storage, net, channels, backup, pc, keywords>>

\* Then it waits for the transactions that read.
CloseDatabase(q) ==
  /\ quit[q] = "locked" /\ ~backup /\ open' = FALSE /\ writer' = Nil /\ At(q, "tell")
  /\ UNCHANGED <<phase, config, storage, net, channels, backup, pc, keywords>>

SendQuitDone(q) ==
  /\ quit[q] = "tell" /\ quitDone = 0 /\ quitDone' = 1
  /\ At(q, IF q = "console" THEN "idle" ELSE "over")
  /\ UNCHANGED <<phase, config, storage, open, writer, net, shutdown, completed, backup, pc, keywords>>

OnQuit(q) ==
  SendShutdown(q) \/ ReceiveCompleted(q) \/ LockDatabase(q) \/ CloseDatabase(q) \/ SendQuitDone(q)
-----------------------------------------------------------------------------
(***************************************************************************)
(* runBackup, and the handlers: what one does before its write transaction *)
(* is left out, and so is what it writes beside the post.                  *)
(***************************************************************************)
Backup(reading) ==
  /\ backup = ~reading /\ backup' = reading
  /\ UNCHANGED <<phase, config, storage, open, writer, net, channels, quit, pc, keywords>>

\* A transaction begins only while nobody is closing the database.
MayBegin == open /\ writer \notin Quitters

BackupBegins == phase \in {"watch", "serving"} /\ MayBegin /\ Backup(TRUE)

\* WriteTo and the compressor write to memory, with or without an error; what is
\* saved to a file then is saved after the transaction.
BackupRead == Backup(FALSE)

ToLabel(r, label) == pc' = [pc EXCEPT ![r] = label]

Arrive(r) ==
  /\ net = "listening" /\ pc[r] = "idle" /\ ToLabel(r, "begin")
  /\ posts + Cardinality({s \in Requests : pc[s] # "idle"}) < MaxPosts
  /\ UNCHANGED <<phase, config, storage, open, writer, net, channels, quit, backup, keywords>>

\* db.Update; once the database is closed it returns ErrDatabaseNotOpen.
Begin(r) ==
  /\ pc[r] = "begin" /\ writer = Nil
  /\ IF open THEN writer' = r /\ ToLabel(r, "send") ELSE ToLabel(r, "idle") /\ UNCHANGED writer
  /\ UNCHANGED <<phase, config, storage, open, net, channels, quit, backup, keywords>>

SendPost(r) ==
  /\ pc[r] = "send" /\ Send(posts + 1) /\ ToLabel(r, "commit")
  /\ UNCHANGED <<phase, config, storage, open, writer, net, channels, quit, backup>>

Commit(r) ==
  /\ pc[r] = "commit" /\ writer' = Nil /\ ToLabel(r, "idle")
  /\ (posts' = posts + 1 \/ (MayFail /\ UNCHANGED posts))
  /\ UNCHANGED <<phase, config, buckets, open, net, channels, quit, backup, keywords>>

Handle(r) == Begin(r) \/ SendPost(r) \/ Commit(r)
-----------------------------------------------------------------------------
Main == Load \/ InitDatabase \/ InitKeyword \/ Fill \/ StartServer \/ WaitForQuit
Fails == LoadFails \/ InitDatabaseFails \/ InitKeywordFails \/ ListenFails \/ QuitTooEarly \/ Crash
Run == Listen \/ CloseListener

Loop(l) == l \in DOMAIN loops /\ KeywordDBLoop(l) /\ UNCHANGED rest

Operator == phase = "off" /\ RemoveDirectory /\ UNCHANGED rest

Next ==
  \/ Start \/ Main \/ Fails \/ Run \/ Operator
  \/ BackupBegins \/ BackupRead
  \/ \E q \in Quitters : AskToQuit(q) \/ OnQuit(q)
  \/ \E r \in Requests : Arrive(r) \/ Handle(r)
  \/ \E l \in 1 .. 2 : Loop(l)

Spec == Init /\ [][Next]_vars

\* Goroutines that can run are run, and a goroutine that waits for the writer
\* lock gets it in the end, for sync.Mutex hands itself to the longest waiter.
FairSpec ==
  /\ Spec
  /\ WF_vars(Main) /\ WF_vars(Run) /\ WF_vars(BackupRead)
  /\ \A q \in Quitters : WF_vars(OnQuit(q)) /\ SF_vars(LockDatabase(q))
  /\ \A r \in Requests : WF_vars(Handle(r)) /\ SF_vars(Begin(r))
  /\ \A l \in 1 .. 2 : WF_vars(Loop(l))
-----------------------------------------------------------------------------
(***************************************************************************)
(* Properties.                                                             *)
(***************************************************************************)
\* Each link of the home page leads to the subforum it names if the subforum's ID needs
\* no escaping; and where any other link leads, to this subforum, another or none, the
\* subforum shown has its bucket, whatever configuration the database was last used
\* with: the page and the privilege are looked up by ID alone, and dereference the bucket.
LinksLeadHome ==
  net = "listening" =>
    \A k \in DOMAIN AllSubforums(config) :
      LET id == AllSubforums(config)[k].id
          link == RootLinks(config)[k]
          shown == SubforumIndexHandler(config, link.path)
      IN
      /\ PathParts(id) = <<"f", id>> => shown = [status |-> "subforum", id |-> id, name |-> link.name]
      /\ shown.status = "subforum" => shown.id \in buckets

\* What the index misses, it misses by a stop or by an error of its own: with
\* one loop or two, one channel or two, started anew or opened, no message is
\* dropped and no post passed over.
EveryPostAccountedFor ==
  (dir /\ phase # "fill") => 1 .. posts \subseteq indexed \cup Underway \cup missed

\* OnQuit closes the database under nobody's hands: no transaction is open when
\* the handle is gone, though handlers and the backup run on until main returns.
ClosedIsQuiet ==
  (phase \in {"watch", "serving"} /\ ~open) =>
    /\ writer = Nil /\ ~backup
    /\ \A r \in Requests : pc[r] \in {"idle", "begin"}

\* Who asks the process to quit gets it to end: not the full keyword channel, a
\* handler with the writer lock, the backup, nor another caller of OnQuit that
\* took the one answer of the listener, holds it up for ever.
QuitExits == \A q \in Quitters : quit[q] = "shutdown" ~> phase = "off"
=============================================================================
