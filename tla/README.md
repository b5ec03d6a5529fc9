# A verification project for tls-shunt-proxy

tls-shunt-proxy accepts TLS connections, reads the server name and the first
bytes of each, and hands the connection to a handler: a relay, a file server, an
HTTP/2 multiplexer. It replaces itself by a new process without closing its
listening socket, and obtains certificates, wildcards among them, by itself.

This directory holds TLA+ models of the parts in which order, concurrency or
failure decide whether that works, the TLC configurations that check them on
small instances, and theorems that TLAPS proves for all values of the constants.
`PROJECT.json` maps each definition to the lines of the source it stands for.

Contents: [the system](#1-the-system) ·
[the modules](#2-the-modules-and-the-code) ·
[the runs](#3-the-runs) · [fairness](#4-fairness) ·
[what is proved](#5-what-is-proved) ·
[what the code does not do](#6-what-the-code-does-not-do) ·
[what is not modelled](#7-what-is-not-modelled) · [plan](#8-plan) ·
[how to run it](#9-how-to-run-it)

## 1. The system

| Component | Code | State it keeps | Operations |
|---|---|---|---|
| Process start, accept loop | `main.go` | the listener, the SIGHUP channel, a goroutine per connection | boot, accept, refuse, handle |
| Hot reload manager | `config/hotreload.go` | `shuttingDown`, `connCount`, a `WaitGroup`, the listener | Increment/DecrementConnection, CanAcceptConnection, GracefulShutdown, ZeroDowntimeReload |
| Generations of processes | `main.go`, `hotreload.go`, `webui/server.go`, the unit | environment variables, descriptor 3, three ports | inherit, boot, reload, save, exit |
| Routing | `main.go`, `sniffer/sniff_conn.go` | per connection: the peeked bytes, type, path | peek, classify, choose a rule, trim, replay |
| Certificates | `config/config.go`, `wildcard.go`, `tls.go` | wildcards, an instance for each, a cache of names | LoadFromConfig, ReadConfig, GetCertificate |
| Proxy pass | `handler/proxy_pass.go` | two sockets, two copies | dial, PROXY header, copy, close |
| In-process HTTP servers | `handler/conn_listener.go`, `file_server.go`, `http2/http_mux.go`, `doh_server.go` | an unbuffered channel under a mutex | hand a connection over, wait for its close |
| Redirect server | `handler/redirect_https.go` | one `http.Server` | start, restart (not called) |
| Web UI | `webui/server.go` | its port, a mutex, the configuration file and its temporary copy | generate, validate, save, reload |
| DNS over HTTPS | `handler/doh_server.go`, `handler/dns` | a cache with expiry under a `RWMutex` | ask, answer, clean up |
| Configuration generator | `config/generator.go`, three endpoints of `webui/server.go` | none | services or a form in, a configuration out |
| Cloudflare client, command line modes, small handlers | `webui/cloudflare.go`, `main.go`, `handler` | none | one-shot |

**How they interact.** `main()` makes the `HotReloadManager`, takes over an
inherited listener if its environment announces one, reads the configuration,
which obtains the certificates before it returns, starts the redirect server and
the Web UI, and enters the accept loop, its last call. The accept loop and the
connection goroutines share the manager's counters and flag with the goroutines
that run `ZeroDowntimeReload`: the one that reads the SIGHUP channel, and one for
every `POST /api/reload`. A reload starts a process that shares the listening
socket; a save replaces the configuration file and starts one that does not. What
is saved may come from the generator, and is then what the connections are routed
by. A connection's goroutine peeks, routes,
and calls a handler, which may pass the connection to an `http.Server` in another
goroutine. When the handler returns, the goroutine counts the connection out and
closes it.

**What is hard.** No lock is held across a reload, so two may overlap and
interleave with every step of the accept loop. The counters and the flag are read
in one goroutine and acted upon in another. Leaving the accept loop ends the
process. Two processes accept on one socket and compete for the other two ports.
One `Read` decides the type of a connection. The wildcard cache is filled between
two locks, from a map with no order; the DNS cache is cleaned under one lock by what was
seen under another. A load that fails halfway leaves what it had registered. A save
is five steps, and a reload or a kill may come between any two. Both directions of
a relay end when they like. `hazards` in
`PROJECT.json` lists 40 such points with their lines, and the properties that
watch them; a hazard without a property says why.

**What makes each part correct.**

- *Reload, one process*: the counters are exact; a refusal belongs to a reload
  and ends; a closed listener belongs to a process that ends; nothing is admitted
  during a reload; the exit cuts at most one connection; the drain is respected.
- *Generations*: the socket outlives any chain of reloads; one process is left in
  service; the overlap ends; the successor of a save boots.
- *Save*: whoever reads the file finds it whole and validated; the process that
  ends up in service uses it; every request ends.
- *Routing*: a recognised type is the true one; the first rule wins; the handler
  reads what the client wrote; a short request is not waited for.
- *Generator*: a connection to a service that a wizard was asked for reaches it,
  with a certificate that its client accepts.
- *DNS*: an answer is to the question that was asked and still live; the clean-up
  takes only what is dead; only upstream keeps a request waiting.
- *Certificates*: no failure is lost; one manager for a name; a usable instance is
  found, always the same; the email ZeroSSL asks for; the start ends.
- *Hand-over*: a connection is not closed under the server; it reaches the server;
  its goroutine ends.
- *Relay*: nothing is lost or invented; a half-closed session is completed; it ends.

## 2. The modules and the code

Every behaviour module has one action per step of the code. A step is what the
code does under one lock, or one system call, or one send on a channel. Model
checking constants live in the `MC` modules and `.cfg` files only. Formulas marked
"Mutant" in a module are plausible mistakes: each property is shown to fail when
one of them takes the place of the definition that follows it.

### HotReload, refining ConnLedger and Handover

One process, from the installation of its signal handler. `mainPc` is the accept
loop of `listenAndServe`; `conn` the progress of each connection, through the two
steps of `IncrementConnection` (`connCount++` under its lock, `wg.Add` outside)
and the three of the deferred function (`connCount--`, `wg.Done`, `Close`); `rpc`
each goroutine in `ZeroDowntimeReload`, from `SetShuttingDown(true)` over the
descriptor, `cmd.Start`, the probe and the count to `GracefulShutdown` and
`os.Exit`, with its five ways back. `sigChan` is the channel of capacity one.
`inheritedLn`, `blocking` and `SharerSetsMode` are there for one fact: `file.Fd()`
puts the socket in blocking mode for every process that shares it, and an
`accept4` that then sleeps in the kernel is neither woken by `Close` nor lets it
return. The history variable `overlapped` records that two reloads were in
progress at once.

`ConnLedger` is what callers of `GetConnectionCount` rely on: connections enter and
leave a set in one step, and the count is its size. `HotReload` implements it with
`ledger <- Counted, count <- connCount, up <- Alive`.

`Handover` is what reloads promise of the process they run in: they start children and
look at each once; the process is replaced only after one of them was found running,
and that decision is not taken back. A process whose reloads come one at a time
(`single`) refuses connections from before the fork until the child is found gone, or
for good; when two overlap, the roll-back of one ends the refusal of the other, and
nothing is said of it. `HotReload` implements it from the steps of a reload (`waiting`
are the reloads between `cmd.Start` and the probe, `leaving` says that one is past it,
`PastProbe`, `refusing` is `shuttingDown`), and `Generations`, which does not have the
flag, the rest of it for each of its processes.

### Generations

The processes `1..MaxGen` that replace one another: `pc` is where the `main()` of
each is, `marked` whether `TLS_SHUNT_RELOAD_MODE` is in its environment, `holds`
whether it has a descriptor of the socket, `redirect` and `web` its other two
ports, `pending`, `leaving` and `saved` its hand-overs under way. `HotReload`'s
reload appears as fork, probe and exit. `/save` starts a child with the
environment it has and exits. `AcceptFails` is the accept loop that leaves `main()`
because `accept` failed while a reload had the flag up. `mainPid` is the process a service manager watches,
if there is one (`dist/tls-shunt-proxy.service`). `stranded` are children whose
parent died before the probe.

### Saving, refining ConfigFile

The same processes seen from the configuration file. `file` and `tmp` are the two
paths of `/save`, `lock` is `configMutex`, `at` the progress of each request:
`Enter` (the lock, or `SaveElsewhere` when `config_name` names another file),
`Truncate` and `Write` (the two things `WriteFile` does), `Rename`, `StartChild`,
`Answer`, with the ways out that each step has and that all give the mutex back.
`RenameByOtherName` is the rename of a request whose `config_name` leads to the
configuration file by another spelling of its path: the handler compares strings, and
starts nothing. (The spellings have one directory in common, and so one temporary file.)
`conf` is what each process read; `child` and `leaving` are the reload and the
exits under way. A process may be killed at any step, which takes its requests and
its mutex along and leaves both files as they are. The history variable
`overtaken` has the processes that had read the file when it was replaced without them
being replaced: by the Web UI of another process, by one that could then not start a
successor, or by `RenameByOtherName`. It is kept per process, so that whatever starts
after such a save is not excused.

`ConfigFile` is what a reader of the file relies on: it holds what the service was
installed with or something the Web UI has validated, and goes from one to the
next in one step.

`Generations` and `Saving` share the processes, not the questions: the first keeps
ports, attempts and the service manager, and abstracts a save to one step; the
second keeps the steps of a save, and abstracts the ports to who has them.

### ConnHandoff

`HandleConn` locks, sends on the unbuffered channel, and unlocks; the server
accepts and dispatches. A tracked connection (`FileServerHandler`) then waits for
the server's close; the others (`HttpMuxHandler`, `DohServer`) return, and the
deferred close of `main` follows.

### ProxyPass

`Handle` dials, sends the header, starts two `doCopy` and returns when both have
ended. The ends write, half-close and go away as they please; a write to an end
that has gone may be accepted and lost.

### Routing

`handle` and `handleWithServerName` for one connection, with `SniffConn`. A stream
is a sequence of tokens, bytes that the code compares as one. The client writes in
pieces of any size; `Peek` is one `Read` of any part of what has arrived; rules are
tried from top to bottom on the path that was peeked; `SetPath` rewrites the bytes
that are replayed; the handler's reads then return `preData` and the rest.

### Generator and Wizard, composed with Routing

`Generator` holds no state: `GenerateFullConfig` with its strategies, the wizard
with rules (`AnswerToWizard`), the one with a form (`AnswerToForm`), what `/save`
makes of the result (`Saveable`) and what loading does (`Hosts`, `HostNamed`: a map,
where the last of one name stays). `Taken` are the services of a request with a type
the wizard knows, by their index: the others are skipped. A name is the sequence of
its labels. `Wizard`
puts the hosts that come out of it in front of `Routing`: `VHosts` has to contain
the shape of each (`GeneratedAssumption`), and `Destination` says where the handler
that `Routing` chose leads. What was asked for is computed from the request, not
from the configuration.

### DohServer

`ServeHTTP` for any number of requests: `Receive`, `Lookup` under the read lock,
`Hit` or `Miss` after it, `Exchange` with upstream, `Put` and `Stored` under the
write lock, `Answer`. The cleaner sleeps once, scans under the read lock (`Scan`,
`Scanned`) and deletes under the write lock (`Delete`, `Deleted`). The lock is the
`RWMutex` itself, `readers` and `writer`. An answer is the question it is to and the
time it expires; `now` is the clock. `begun` and `late` are history.

### Certificates

`ReadConfig` first lets `LoadFromConfig` validate every entry (`Validate`, which
registers as it goes), make an instance for each (`SetUp`), and obtain
(`Obtain`, `ObtainFails`, one goroutine per wildcard, then `Obtained` after
`wg.Wait`). Any failure comes back to `ReadConfig`, which logs it and goes on: for
each host `Source` decides between the manager, an instance of its own, and
files. The handshakes then share `certMap`: `LookUp` under the read lock,
`CachedMeanwhile`, `Match` and `NoMatch` under the write lock. The loop over the
map is `Match`: it may start anywhere and goes on until a match has an instance.
`Covers` is `matchWildcard`, a suffix match; `Fits` the pairs of one label, which
certmagic has a certificate for. The configuration is read once, so an entry is
chosen from a set when the loop comes to it.

## 3. The runs

| Run | Module | Bounds | States | Shows |
|---|---|---|---|---|
| `reload_safety` | HotReload | 3 connections (symmetric), SIGHUP and Web UI reload | 434 706 | counters, refusals, closed listener, admission, what an exit cuts; refinement of ConnLedger and Handover |
| `reload_live` | HotReload | 1 connection, both reloads, fair | 60 006 | reloads, refusals, closed listeners end; no SIGHUP is forgotten |
| `reload_drain` | HotReload | 1 connection, 1 reload | violated | the drain is cut by the accept loop |
| `generations_handover` | Generations | 3 processes, 1 reload at a time in each, 2 attempts at the Web UI port, fair | 194 151 | socket, one in service, overlap ends |
| `generations_save` | Generations | 3 processes | violated | a save after a reload does not boot |
| `handoff` | ConnHandoff | 2 tracked connections, 1 other, fair | 1 099 | no close under the server, no starvation, goroutines end |
| `handoff_mux` | ConnHandoff | the same | violated | the multiplexer's connections are closed under it |
| `relay` | ProxyPass | 3 reads each way, PROXY header, fair | 12 352 | streams whole, half-close, return |
| `routing` | Wizard, Routing | 6 streams, 4 lists of rules, 6 tokens peeked; 2 names and 2 services to a request, fair | 83 644 | types, first rule, replay, no waiting; what a wizard was asked for is what is reached |
| `certificates` | Certificates | 2 wildcards, 3 names, 2 + 2 entries, 2 attempts, 2 handshakes, fair | 193 309 | nothing lost, one manager, usable and stable answers, all served that should be |
| `doh` | DohServer | 2 handlers, 1 name from 2 networks, 3 requests, TTL 0 or 1, the clock to 2, fair | 414 113 | live answers to the right question, nothing live cleaned up, no waiting but for upstream |
| `saving` | Saving | 2 requests at a time, 3 configurations, 3 processes, fair | 293 128 | the file, who uses it, the end of each request; refinement of ConfigFile |

**Why the bounds are enough.** Three connections are one more than any property
of `HotReload` relates (`CutsAtMostOne` relates two), so that one is refused while
two are cut, counted or waited for; two reloads are all that `shuttingDown` and
the listener can tell apart, since a third does to them what the second did. The
constants are removed altogether by the proofs, except for liveness. Three
processes are a process, its successor and the successor's successor, which is
where an inherited environment first matters; `MaxOverlap = 1` because two
overlapping reloads of one process do leave two children in service (section 6).
The number of attempts only has to be more than one. Three bytes let one direction
be read, written and still have something under way. Six tokens end in the middle
of the longest requests and behind the shortest, and the rules are prefixes of one
another and trim part of the path, all of it, or more than the rule matched. Two
wildcards that cover one name are what makes the order of the map visible; two
entries of each list make a second entry override, overwrite or fail after the first.
Two networks that ask for one name are what a key can mix up; a clock that goes on
for one step after the cleaner wakes, and a TTL of zero and of one, make entries
that are dead, live, and refreshed between its two locks; the third request finds
what the first two left. Of three configurations one is installed and cannot be
saved, one loads, one is accepted and does not load; with three processes a save
follows a reload, or a reload a save, and the service is started again once. Names
have capitals, two labels and a character that is not allowed, so that every branch
of the validation is taken, and two services of one request may have one name.

`CHECK_DEADLOCK FALSE` stands where a system really stops: no process is left
(`generations_*`, `saving`), the relay has returned (`relay`), the handler has read
all the client will write (`routing`), the bounded clock and requests are used up
(`doh`).

## 4. Fairness

Weak fairness of whatever the code's own goroutines, timers and system calls do
next, because Go's scheduler runs every runnable goroutine; nothing is assumed of
clients, of `handle()`, of operators, or of calls that may fail. In particular
`HandleReturns`, `AcceptConn`, `Hup`, `Save`, `Sends`, `Shuts` and `Goes` are unfair.

- *HotReload*: `MainStep`, `ConnStep`, `BeginSighup`, `ReloadStep`. `WaitTimesOut`
  is part of the last: that is the timer of `GracefulShutdown`. The liveness
  properties have a condition, `AcceptReturns`: the accept loop is not left for good
  in a blocking `accept4`. The code does not guarantee it (section 6), which is why
  it is a hypothesis in the formulas and not fairness.
- *Generations*: booting, the timers of probe and Web UI, exits, the service
  manager. A reload or a save is never obliged to happen.
- *ConnHandoff*: strong fairness of `Lock` only: `sync.Mutex` hands itself to a
  waiter it has starved for a millisecond.
- *Certificates*: `LoadStep \/ VHostStep`: an attempt at a certificate ends, one way
  or the other (`ManageSync` runs under a context of ten minutes). That one succeeds
  is not assumed.
- *Saving*: weak fairness of the steps of each request, and strong fairness of `Enter`
  for the same reason as `Lock`. Nothing is assumed of reloads, kills or boots.
- *DohServer*: weak fairness of each handler, but not of upstream, which may never
  answer, and of the cleaner. Who gets the lock of several that wait is left open: a
  request takes it twice at most, and `MaxRequests` bounds the requests. In the code
  `sync.RWMutex` lets no new reader overtake a writer that waits.
- *ProxyPass*, *Routing*: the goroutines of the connection; `Dial` ends.

## 5. What is proved

TLAPS checks the theorems and lemmas of eight modules, for any constants that
satisfy the named assumptions (`ASSUME` in the modules; TLC evaluates them in every
run). `PROJECT.json` lists the theorems that a reader should know of. Every invariant
and every safety property of an action or a refinement that a passing run checks has
a theorem; so have the types of each behaviour module, and some facts about locks and
exits that no run lists.

**HotReloadProofs**, for any finite set of connections and any set of reloads.
`TypeOK` is not inductive, as `connCount \in Nat` needs the counters to be exact;
these need that main holds exactly one connection between `Accept` and `go`. Hence
`IInv == TypeShape /\ SocketShape /\ HeldByMain /\ CountersExact`, with lemmas
that say by how much each step moves `Counted` and `Waited`. `RefusesOnlyForReload`
and `ClosedOnlyToExit` are inductive over it: each step of a reload is looked at
from the point of view of the others, and only a roll-back clears the flag.
`NoAdmissionDuringReload` needs `FlagHeld`: while no two reloads have overlapped,
the flag is up from the first step of one to its end. `CutsAtMostOne` needs more,
that while a reload runs nothing is admitted any more but the one connection that
was past the check. `Refinement` shows that each step is one step of `ConnLedger`,
or a stutter. `HandsOver` does the same for `Handover`, with any number of reloads
under way: a step of one moves only that one between `waiting` and `Probed`
(`ReloadHandover`), `FlagHeld` gives that the flag is up, and the reload alone, when it
forks or rolls back without having been overlapped (`AloneAndRefusing`), and what ends the process drops all of them at once
(`EndHandover`). `MainIsNotLeft` says that the accept loop returns only while some
reload is in progress; it follows from `RefusesOnlyForReload`, as the loop
returns only if the flag is up.

**CertificatesProofs**, for any wildcards, names, entries, attempts and handshakes.
`IInv` adds to the safety properties: `Phases` (the manager changes only before
there is a host, the cache only while serving), `RegisteredAreValid`, and
`CacheIsSound` (an entry matches, and has an instance if any match has). The last
two are what `ZeroSslHasEmail` and `UsableIsFound` need to be inductive.
`OneManager` holds because registration is over when `Source` is asked; this is
where `Phases` enters. `LoadedServes` puts them together: after a load that reported
success a handshake is answered, unless the host has no files and no wildcard covers
it by one label. It rests on what each handshake has found so far (`FoundMatches`,
`Answered`), because `Match` and the answer are two steps. `AnswerIsStable` is an action property: only `Match` writes
`certMap`, and only where it has no entry.

**ConnHandoffProofs**, for any connections: `TrackedIsKept`, with `Handed` to say
that the server has a tracked connection only between rendezvous and wake-up. Two more
are the safety half of what the run checks as liveness: the mutex is held by a
goroutine exactly while it sends (`MutexIsReleased`), and one that waits for the server
is not forgotten by it (`WakeIsNotLost`).

**ProxyPassProofs**, for any number of bytes: `StreamsAreWhole` and
`OrderlySessionIsWhole`, with `Accounts`, the balance of each direction (sent,
taken, arrived, in hand), and `Order`, how far the copies are in each phase.

**RoutingProofs**, for any streams, any hosts with any rules, and any size of the
peek: `TypeIsRight`, `FirstMatchWins`, `HandlerReadsStream`. `IInv` says what is
known of the stream at each place of `handle`: nothing before the sniffer
(`Unread`); after it, that what was peeked is a prefix of the stream, of which type
and path were made (`Sniffed`); that the rule is the first for the path *as it was
seen* (`FirstOfSeen`); and that what is replayed, with what the reads have returned
since, is the stream, or the stream without the trimmed prefix (`Served`). The rest
is about sequences: a type that is recognised in a prefix is that of the whole, a
path that ends in the prefix is the whole path, adjacent pieces make one. The least
index that the choice of the rule takes exists by well-founded induction
(`LeastIndex`). `FormIsServed` of `Wizard` is here too, for any form: a handler is
chosen only if the host has it (`HostHasHandler`), and the form gives a handler only
what it names. Tokens are a set of their own, `Token`, because the provers do not
know the literals of the source to be members of `STRING`.

`GeneratedServicesAreReached` is the whole way from the request to the backend, for any
services, rules and streams. It joins three facts: the host that is loaded for the name of a service is the last
one written for it (`LastIsNamed`, `ServiceIsNamed`), also for the rules of a wizard,
which become services one by one (`RulesAreServices`); a handler is chosen only if the
host has it (`HostHasHandler`); and a host with HTTP, without HTTP/2 or rules, serves what
the sniffer takes for HTTP with it (`HttpIsServed`). `WildcardsServe` is about names
only: one label in front of the domain, in lower case, is matched by the wildcard
written beside the host, and by one label (`WildcardMatches`).

**GenerationsProofs**, for any number of processes, overlapping reloads and
attempts: the types, and `SocketSurvives`. `Chain` is the reason: whoever ends in
favour of another process was followed by one that has the socket, or that ended
badly itself; `ChildHasSocket` says that a reload only waits for a younger process
that has it as long as it lives. `OneInService` is proved from `MaxOverlap <= 1`:
of two processes that have the socket the older is leaving, or waits for a child that
has it too and is not younger than the other (`Line`). The children are probed in the
order of the forks, so that nobody is leaving whom a parent still waits for
(`ProbedFirst`). `EachHandsOver` is the refinement of `Handover` by every process `p`,
`Handed(p)`, with any number of overlapping reloads. As a family of refinements it is
not among the properties of a run.

**DohServerProofs**, for any names, networks, times to live and number of handlers:
`AnswerIsLive` and `CleanUpSpares`, from what each handler has in hand at each place
(`InHand`), that an entry is stored under its own question (`Keyed`), and that what
the cleaner chose was dead, or has been put in again since (`Chosen`). `LockIsReleased`
says who has the `RWMutex` at every moment: nobody has it during an exchange with
upstream, or after an answer.

**SavingProofs**, for any number of processes, requests and configurations:
`SavedIsServed`, and that `Saving` implements `ConfigFile`. `Exclusion` is what the
mutex gives, and that the temporary file is whole whenever it may be renamed;
`Outdated` says which processes may have read something else than the file: those that
were overtaken, those on their way out, and the one whose save has yet to end it.
`MutexIsReleased` says that every way out of `/save` gives the mutex back.

**Only model-checked**: liveness, all of it, which is out of the prover's reach here
(`ReloadEnds`, `SignalServed`, `RefusalEnds`, `ClosedListenerEnds`, `OverlapEnds`,
`ReachesServer`, `GoroutineEnds`, `ReturnsWhenBothFinish`, `ReadConfigEnds`,
`ShortRequestIsServed`, `OnlyUpstreamDelays`, `SaveEnds`).

## 6. What the code does not do

Three runs show a disagreement between the code and what the repository says of it;
each is a finding in `PROJECT.json`, with the line it quotes.

- `reload_drain`: `GracefulShutdown` closes the listener before it waits; the
  accept loop takes the error, with the flag set, for its end, leaves `main()`, and
  ends the process over the connections that are being drained.
- `generations_save`: a process that came from a reload keeps
  `TLS_SHUNT_RELOAD_MODE`; the process a save starts inherits it without the
  descriptor and dies in `startInheritedListener`.
- `handoff_mux`: `HttpMuxHandler` and `DohServer` return when the server has
  accepted the connection, and `main`'s goroutine closes it.

Seen while modelling, and kept in the models, but without a run of their own:

- Two overlapping reloads share one flag: the roll-back of one lets the process
  admit connections during the other. The properties that fail for this reason are
  stated for reloads that did not overlap (`overlapped`), or with `MaxOverlap = 1`.
- While a reload has the flag up, an `accept` that fails for any reason is taken for the
  end of the loop, and `main()` returns: before the descriptor has been passed on, this
  ends the service without a successor (`AcceptFails`).
- Because of `file.Fd()`, `listener.Close()` may wait for an `accept4` that sleeps,
  before the timer of the drain is armed (`AcceptReturns`).
- The probe asks whether the child is alive, not whether it has taken over; a child
  may still be obtaining certificates when its parent exits.
- Under `Type=simple` a service manager ends the service, the new process included,
  when the first process exits with 0 (`SupervisorKills`).
- `README.md:90` recommends the reload for a changed listen address; the address of
  an inherited listener does not change. `README.md:32` and `hotreload.go:182` give
  8080 as the default port of the Web UI, `server.go:585` takes 9080.
- A relay whose client has gone waits as long as the target stays open and silent.
- `README.md:291` says the path of an HTTP/2 request is recognised as `*`; the
  sniffer leaves it empty, and only a rule with an empty path matches. Such a rule
  would rewrite the HTTP/2 preface.
- `config.go:114` puts certificates from files before wildcards; `tls.go:130` asks
  the wildcards first.
- The error of one host in `ReadConfig` is overwritten by the next that offloads
  TLS; the host is then served as if it did not offload.
- `wildcard.go:495` says that the match follows RFC 2818; `*.example.com` also
  matches `x.a.example.com`, for which its certificate is not valid, and if
  `*.a.example.com` is configured too, the order of the map decides.
- `ca_provider: ZeroSSL`, in this case, passes the validation without the email.
- `README.md:241` promises the redirection from HTTP. A new process tries the port
  once, while the old one holds it, and stays without it (`RedirectStarts`).
- `config.go:98` says that virtual hosts can still use certificates of their own when
  the wildcards did not load. A wildcard is registered before the load has succeeded,
  and the hosts it covers lose their managed certificate without getting another.
- `main.go`'s `-s stop` sends SIGTERM, for which there is no handler: nothing is drained.

Of the Web UI and the generator:

- A configuration may pass the validation and still not load: the process a save
  starts dies, the old one leaves, and the service has ended. `README.md:54` promises
  a check before the save and a restart after it.
- A save that is renamed into place while a process of a reload boots may have no
  effect (`overtaken`).
- `config_name` may name the configuration file itself, which is then saved without a
  restart; the handler compares spellings, not files (`RenameByOtherName`), while
  `server.go:414` says that saving the main configuration file restarts the service. A
  service that is started in `/etc/tls-shunt-proxy` without `-config` meets this
  whenever the name is `config`. For a similar reason `/save` refuses the default, `./config.yaml`: `filepath.Clean` changes it.
- The form puts the rule for `/` before the one for `/static/`, which is never reached.
- A generated subdomain is not validated: one bad character and `/save` refuses the
  whole configuration. Of two services with one name the last wins, silently; so are
  rules passed over that lack a field or have a protocol the wizard does not know.
- A domain with a capital leaves its generated hosts without a certificate, and so
  does a subdomain of two labels: a wildcard matches, so that they get none of their
  own, but does not answer. The property is stated for what is left.
- A service of type HTTP may be given HTTP/2 by its client, and passes it as it is to
  a backend that may speak HTTP/1 only.
- The generator writes `webui_listen: 127.0.0.1:8080`, and no code listens there.
- `generator_test.go:87` calls `Generate` with three arguments, where it has four: the
  tests of the package do not compile.

Of DNS over HTTPS:

- A cached reply carries the ID of the query that fetched it, and the key leaves out
  the class, the flags and the other options of the query.
- An answer without records, SERVFAIL among them, is kept for ten minutes.
- The cleaner runs once; what expires after that stays as long as the process.
- An entry refreshed between the scan and the delete is lost, and fetched again.
- The exchange has no timeout.

## 7. What is not modelled

- *Reload in place* (`Config.Reload`, `RestartRedirectHttps`): nothing calls it.
- *The reload history* of the Web UI, which is displayed and nothing else.
- *Web UI*: authentication, the pages, the statistics, the test of a token: they read a
  request and answer it. *The Cloudflare client* behind the last is calls of a service.
- *Small handlers*: they write a fixed text, close, or forward one request. What the
  file server answers is `net/http`'s.
- *Command line modes*: one-shot programs around a search for a pid and a signal.
- *Descriptors*: `startInheritedListener` makes two `os.File` of descriptor 3, and the
  finalizer of the first closes the number again. When that happens, and who has the
  number by then, is up to the garbage collector and the kernel, not to this code.
- *External code*: TLS, certmagic and ACME, `http.Server`, the kernel's sockets and
  the service manager are modelled from how the code uses them, and marked
  `external` in the map. Buffers, log lines and the text of headers are left out.
- *Bytes*: `Routing` compares tokens. A request whose path ends in the middle of a
  token is represented by one that ends between two.

## 8. Plan

Done, in this order, most important behaviour first: HotReload with ConnLedger and
its proofs; Generations; ConnHandoff and ProxyPass with their proofs; Routing;
Certificates with its proofs; DohServer, Saving with ConfigFile, and their proofs;
Generator and Wizard; the proofs of Generations and Routing; Handover, which
`HotReload` and `Generations` both implement; the proofs about what the generator
writes, what a loaded configuration serves, and the locks.

Left:

1. A composition of `HotReload` with `ConnHandoff` and `ProxyPass`: handlers as the
   reason why `HandleReturns` comes or does not.
2. `Saving` as one step of `Generations`: the two share `Handover` for reloads, but what
   a save does to the ports and to the file is not related yet.

## 9. How to run it

    tlc -workers 2 -config MCHotReload_safety.cfg MCHotReload.tla
    tlapm HotReloadProofs.tla

The modules need the community modules and the TLAPS library on the path. A run
whose row says "violated" ends with the counterexample that section 6 describes.
