# A model of pqprobe in TLA+

pqprobe dials TLS endpoints as different clients would (one that has never
heard of ML-KEM, one that offers it, one that requires it) and concludes from
the pattern of successes and failures whether post-quantum clients can connect.
Its product is a *statement about somebody else's endpoint*, so what can go
wrong is mostly that a statement is made which the evidence does not support:
a fault of the prober, the proxy, the resolver or a passing moment is written
down as the peer's. The models here are about how those statements come to be
made, from one dial up to a fleet that is watched for days, and about the
machinery that must not hang, leak, lose or tear anything on the way.

Paths below are those of the repository; `probe.go` is
`internal/probe/probe.go`, `verdict.go` is `internal/verdict/verdict.go`,
`main.go` is `cmd/pqprobe/main.go`.

## 1. The system

| part | state it keeps | operations | talks to |
|---|---|---|---|
| one attempt (`probe.go`: `Do`, `DoConfirmed`) | context and its timer, socket, socket deadline, what was written, first result | resolve, connect, proxy, plaintext upgrade, handshake, pause, re-dial | network; called by the runners |
| `classify`, `Kind`, `Abrupt` | none | error to kind | called by `Do`, and exported by the library |
| STARTTLS conversations (`probe.go:286-753`) | a buffered reader | eight plaintext protocols | called by `Do` |
| SOCKS5 (`probe.go:769`) | socket, deadline | greeting, CONNECT | called by `Do` |
| profiles (`internal/clientprofile`) | tables | profiles, group probes, size sweep, ALPN probe, ECH pair | read by `Do`, `Evaluate`, the runners |
| `verdict.Evaluate` | none | class, findings, size / ALPN / ECH measurements | called by the runners |
| `verdict.Transitions` | none | two runs to lines | watch, `--baseline` |
| the runner (`main.go: run`) | semaphore, WaitGroup, slice of reports, per-goroutine results and sweep flag | one goroutine per target | calls `DoConfirmed`, `Evaluate` |
| the watch (`main.go: watchLoop`) | context, ticker, previous run | run, compare, print, rewrite file | calls the runner, `Transitions`, `Textfile` |
| `output.writeAtomic` | temporary file, the file | create, write, close, chmod, rename, remove | read by a metrics collector |
| library (`pq/pq.go`) | a second runner: semaphore, done channel | `Probe` | embedders |
| fleet assembly (`main.go: collect`, `internal/inventory`, `ExpandAddresses`) | the target list | parse, default port, deduplicate, expand names | before a run |
| ECH lookup (`internal/probe/dns.go`) | none | UDP, TCP fallback, next resolver | before a run |
| after a run (`addressFindings`, `netFindings`, `resolverFindings`, `egressFindings`, `addTransitions`, `LoadReports`, `shouldExit`) | the reports | findings about a pool, the run and this host; the baseline; the exit code | between the runner and the renderers |
| the command (`main.go: cmdProbe`) | targets, names, reports | flags, the run, the document, the metrics file, the exit code | all of the above, and its own output of the day before |
| renderers (`internal/output`) | none | text, JSON, Markdown, metrics | stdout |

What is hard in each, and what makes it right:

- **An attempt** waits in five different places on parties that owe it nothing.
  Two of those waits ignore the context and live off a socket deadline. The
  caller may leave at any moment. Right means: it always returns, in bounded
  time, with nothing left open, and the kind it records names the party that is
  really responsible. The confirming re-dial adds claims about *two* dials
  (`Reproduced`, `Flapped`) that must be about two dials.
- **Evaluate** sees results only; the class is a claim about the peer. Right
  means that the claim is true of the peer, whatever one passing fault did.
- **The runner** shares a semaphore, a slice and a WaitGroup between goroutines:
  the bound on connections, and no report lost, misplaced or late.
- **The watch** prints only changes, so any wrong baseline or any line that
  should not have been printed corrupts what its reader believes from then on;
  and a signal may arrive during a run.
- **The textfile** is read by another process at any moment, rewritten by one
  that may fail at any step or be killed between any two.
- **The command** attaches to its reports what is not about one endpoint: the
  pool of a name, the prober's missing route, the endpoints that were there
  yesterday. Right means that each such line is on the right report, about the
  right party and said once; that a run which cannot compare does not look like
  one in which nothing changed; and that the exit code is about the endpoints.
  Its baseline is a file that an earlier run wrote, perhaps in another format,
  perhaps until it was killed.

`PROJECT.json` has the list of hazards, each at its line, with the properties
that would catch it, or the reason why none does yet.

## 2. The modules

```
Kinds ── Confirm (abstract)            Kinds ─┐
  └───── Dialer ──── MCDialer                 Profiles ─ Verdict ─ Watch ─ MCWatch
            └─────── DialerProofs             │                      └─── WatchProofs
Kinds ── Runner ──── MCRunner                 Profiles ─ Peer ─┐
  Fleet ─┘  └─────── RunnerProofs             Verdict ─────────┴ Grading ─ MCGrading
Framing ─ StartTLS ─ MCStartTLS                                     └───── GradingProofs
            └─────── StartTLSProofs    Targets ─ Assembly ──────────────┐
ECHLookup ─ MCECHLookup                Targets, Verdict ─ Aftermath ────┼ Command ─ MCCommand
  └──────── ECHLookupProofs            AtomicFile ─ Textfile (instance) ┘    └───── CommandProofs
Library ─ MCLibrary
  └────── LibraryProofs
```

| module | stands for | shape |
|---|---|---|
| `Kinds` | `Kind`, `Abrupt`, `classify` | an error is the set of things `classify` can recognise in it; the tests in their order |
| `Dialer` | `Dialer.DoConfirmed` and `Dialer.Do` | one action for each way a wait can end, per phase |
| `Confirm` | what `DoConfirmed` promises | the dials seen, and the one word they support |
| `StartTLS` | `startTLS` and what it calls, `socks5Connect` | a client with a script of reads and writes, a server, and a stream cut anywhere |
| `Framing` | `berField`, `startTLSLDAP`'s answer, `startTLSMySQL`'s greeting | functions on sequences of bytes |
| `Profiles` | `internal/clientprofile` | groups, versions, and the order of the hello sizes |
| `Verdict` | `Evaluate`, its findings but the certificate ones, `StatusOf`, `Transitions` | operators on sequences of results |
| `Peer` | the endpoint; external | a configuration, and the outcomes TLS allows for it |
| `Grading` | one endpoint's turn in `run`, up to its class and findings | dial, skip, grade, against a peer nobody told the program about |
| `Runner` | `run` | the steps of each goroutine, the semaphore, the WaitGroup |
| `Fleet` | what `run` promises | each endpoint started and reported once, at most so many at a time |
| `Library` | `pq.Probe` | the same with a done channel, refusals, and words that do not parse |
| `Targets` | `probe.Target`, address families | a host, a port, a server name; what it is called |
| `Assembly` | `collect`, `internal/inventory`, `ExpandAddresses` | the sources in turn, the merge, the expansion |
| `Aftermath` | what is done to the reports of a run, `LoadReports`, `shouldExit` | operators on sequences of reports |
| `Command` | `cmdProbe`, one day after the other | its steps, a kill at each; `Assembly`'s actions, `Aftermath`'s operators, an instance of `Textfile` |
| `ECHLookup` | `echProfilesFor`, `LookupECHConfig`, `dns.go` | one name, one resolver, one exchange at a time |
| `Watch` | `watchLoop`, `watchTick` | the select, the run, the check, the lines, the file; and a reader |
| `Textfile` | `writeAtomic` | its steps, a failure at each, a kill between any two |
| `AtomicFile` | what `Textfile` promises | a register that holds nothing or one whole document |

They compose by what each one has established. `Dialer` shows that an attempt
returns with a true kind; `Grading` and `Runner` therefore have an attempt as
one step (`Runner` as a call and a return, because what happens in between is
what its bound is about) that ends in any kind. `Runner` shows that a run
reports every endpoint once; `Watch` therefore has a run as one report per
endpoint in any order. `Textfile` shows that a rewrite replaces the file or
leaves it; `Watch` therefore has a rewrite as one step that does either.
`StartTLS` shows when a plaintext conversation ends and how; `Dialer` therefore
has it as one wait that is granted, refused, closed or late. `Grading` shows
that a class is true of the peer and `Runner` that each report is in its place;
`Command` therefore has a run as one step that gives every target the report of
what is out there that day. It does not rely on what it composes next:
`Assembly`'s and `Textfile`'s own steps are steps of `Command`.

### Dialer

`pc` is the line at which the goroutine waits: `resolve` and `connect` are the
two halves of `DialContext`, `proxy` is `socks5Connect`, `starttls` is
`startTLS`, `handshake` is `HandshakeContext`, `pause` the select in
`DoConfirmed`. `left` is the timer of the context `Do` makes for itself, `sock`
and `deadline` the connection and whether `SetDeadline` is in force. All the
error returns of `Do` go through `Return`, as in the code they go through the
deferred `Close` and back to `DoConfirmed`. `wire` is what `wireConn` and
`GetClientCertificate` record. The result has the fields `DoConfirmed` and
`verdict` branch on. `contact`, `ends` and `elapsed` are history: no action
reads them.

With a proxy, `resolve` and `connect` are about the proxy, and every failure up
to `ProxyGrants` is recorded as `proxy`, the proxy's silence included.

The network is an adversary: each wait may end in any of its outcomes or never.
An error is what the Go libraries return there, as the traits `classify` tests:
the resolver's own timeout is both a `DNSError` and a timeout, a cancelled
lookup or dial carries neither, an ECH rejection arrives with an alert's text.

### Grading

`Peer` decides. A dial through a fault is one dial cut by something that is
gone a moment later: with `Confirm` the re-dial gives the peer's answer, without
it the cut is the result. A result carries what the two dials support (`Redialled`:
flapped, twice, or neither), and the line about it says so. Sizes are an order (1 for a classical hello, 2 for a
hybrid one, then ALPN, ECH and the six padded ones), which is all a limit on the
path can distinguish. Names stand for passes: the prefix tests of
`Evaluate` are the field `pass`.

### StartTLS and Framing

`Script` gives each protocol its reads and writes, in order, the SOCKS5 proxy's
among them; with a proxy `Do` has that conversation first and the other one
through it. What travels is a
sequence of tokens: a line, an XML element or half of one, a packet. `wire` is
what the server has sent, `br` the `bufio.Reader`: `Fill` moves all that has
arrived from one to the other, so any division of a reply into segments is a
behaviour. The proxy's replies are read without a buffer, so that exactly the
bound address has to be consumed; it is a length if it is a name, an address
and a port. A host that is too long, or a port that is no number, ends that
conversation before its request (`GiveUp`). The server is `orderly`, or it never comes to the end of a reply
(`endless`), closes, or falls silent; it may refuse what it is asked. A
server with more to say puts in what its protocol allows at that place: a line, a
feature, or inside a tag an attribute. XMPP's yes is `<proceed .../>` or the same in
two tags, and `readUntil(br, ">")` stops at the end of whatever tag comes first:
`elementEnd` has every token with a `>` at its end. The two
binary protocols have their packets as bytes: what `Framing` makes of a
truncated or refusing answer is what the code's offsets make of it.

### Runner

`pc` per goroutine: `queued` is the send on the semaphore, `loop` between two
profiles, `dialing` inside `DoConfirmed`, `releasing` and `exiting` the two
deferred calls in the order Go runs them. The plan of a target is what
`profilesFor` returns for it. Cancelling does not stop the queue: a goroutine
still takes its slot and dials on a finished context, as in the code.

### Watch

`told` is not in the program: it is what somebody knows who has read the first
report and every line since. `tainted` is the endpoints whose report was spoiled
by the cancelled context. Go's `select` picks at random among ready cases, so
`TakeTick` stays enabled after a signal.

### Textfile

`CreateTemp` gives a name nobody has, so temporary files are numbered by the
call that made them. `returned` and `before` are history for `ReturnIsTrue`, a
conjunct of `FileInv`.
Write errors return without running the rest, through the deferred removal;
a kill runs nothing deferred.

### Library

The refusals before the first goroutine are `Refuse`. `deferred` and `sending`
are the two deferred calls, the slot given back before the send. `AllIn` is the
loop that receives as often as there are targets.

### ECHLookup

`echProfilesFor` passes `context.Background()`, so nothing ends a lookup from
outside: `Patience` is the deadline of an exchange that has its socket, and
`Connect` what the operating system gives a TCP connection, the one wait the
program does not bound. `dnsDeadline` is taken anew for each exchange. An
answer over UDP without the truncation bit is final, even if it tells nothing.

### Assembly

A word is its host, port and server name, `""` where there is none: how `Parse`
splits one is not modelled. The module has the variables and actions of
`collect`; what comes before and after them is `Command`'s. Standard input is claimed by the operand `-`,
`--list -` and `--inventory -` in that order. `Collapse` is the map in
`ReadAnsibleINI`, keyed by address; `Merge` is the rest of `collect`, the
override, the deduplication and the sort, and the check of `cmdProbe` that
follows. `Less` is the order of addresses as text.

### Aftermath and Command

A report is its target, its class, whether a dial was `unroutable`, and its
findings, a *set*: the sort after every addition puts them in an order that
nothing but the page depends on. A finding keeps its check, target and severity,
the number it carries, and in `about` what a reader acts on: the two classes of
a transition, the family of a missing route, which node is the odd one, and of a
verdict's hint whether it guesses or points at the `egress` finding.

`pc` is the place in `cmdProbe`. `Flags` is every refusal before standard input
is touched (`--exit-on` stands for them). `Collect` is one of `Assembly`'s
actions. `Probe` gives each target what `world` has for it; `Annotate` is the
four calls after `run`; `Compare` reads the baseline, which is what the previous
command left at that path: a whole `--json` run, another rendering, or the
beginning of one. `Publishing` is one step of `Textfile`, whose program counter
is `step`. `Kill` may come at any step, `RenderFails` is standard output full or
closed. `NextDay` runs the next command of the session in another world.

`Stored` keeps of a document what `LoadReports` and `Transitions` look at. The
wrapped findings are an object without a tool, the flat ones an array. `last`
is history: the reports the previous run had when it ended, or those of the
file the first one was given.

## 3. What is checked

| run | shows | bounds |
|---|---|---|
| `MCDialer` | `KindsAreEarned`: an abrupt kind is only recorded of a dial that reached the endpoint's address, not the resolver's, the proxy's, the plaintext protocol's or the caller's doing, and a declined ECH offer only of one that was made and answered. `TwoDialClaims`, `NoSocketLeft`, `WithinBudget`; `Returns` under fairness of time alone; and `Dialer` implements `Confirm` (`KeepsPromise`) | timeout of 2 ticks, delay of 1, all 16 options. Two dials are all there ever are; two ticks let every phase begin before, at and after the deadline |
| `MCGrading` | the class is true of the peer: `WallsAreTrue`, refusals included, and so are "twice", "only on the second attempt" and the groups cut off or declined; `PraiseIsEarned`, for the class and for every capability a finding names: groups, a hybrid no browser sends, mutual TLS, a missing TLS 1.3; and in `GradeInv` that those who refuse, or are not there, are unreachable and those who listen are not, and that the broken have no excuse. The measurements are too: `SweepBrackets`, `ECHIsWhatHappened` | six group lists that cover every branch of the grading, three version sets, three limits, both cuts, mutual TLS, a declining policy, five things a dial may find, with the default profiles, with all five, and with the group probes behind the default ones or behind one client that is not among them; the passes that measure, with every limit there can be among the ten sizes. At most one fault, because `Confirm` dials twice and no more |
| `MCRunner` | `AtMostConcurrency`; `NothingOutlivesTheRun`; `SweepIsExact`: the sweep stops at the first size that failed and nothing else is skipped; and `Runner` implements `Fleet`, its return included (`KeepsFleetPromise`) | three endpoints on two slots, so that one waits; one plan with two sizes and a profile behind them |
| `MCLibrary` | `LibraryInv`: the bound, and nothing running or blocked once `Probe` is back; `NobodyIsDropped`: a report for every word, in place; `Returns` | calls of none to three words, of which some do not parse or come twice; two slots, so that a third goroutine waits |
| `MCStartTLS` | `OnlyAnEndTagIsLeft`: TLS starts on a line with nothing of the conversation on it, but for what `XMPPEndTag` shows; `UpgradeIsAgreed`; `YesIsUnderstood`; `NotBothWaiting`; in `TalkInv`, that the client does not talk over the server and gives up on banners without end | eight scripts, which is every protocol with a reading of its own, and the proxy's, with and without a name it can be asked for; banners of up to 2 extra lines, 6 for a server that never ends, against limits of 4 lines and 7 tokens, so that each limit is met and passed |
| `MCECHLookup` | `NoneMissed`; `LookupInv`: a target is offered the whole config of its own name or none; `AsksLittle`: once per name, and within a budget; `Returns` | two names, one of them twice, and an address; two resolvers, so that there is a first and a last; exchanges of 2 ticks, connections of 3 |
| `MCCommand` | `FleetIsWhatWasNamed`; `NothingVanishes`; `OddOneIsShown`: one line per pool, on the worst of it, with how many there are; `EgressIsLocal`: this host is blamed for exactly the endpoints it cannot reach, by family and by number; `NewsIsComplete`: the news is what differs, and a run that says nothing and does not complain found nothing; `ExitIsEarned`: the gate fails for the endpoints and for what vanished, and for nothing the run says of itself; `Command` implements `AtomicFile` across runs (`KeepsFilePromise`); in `CommandInv`, that standard input has one reader, and the metrics file is always readable, its directory tidy and `writeAtomic`'s return true | three trials. *words*: one day of 1728 command lines of up to three operands, a list, an inventory, two ports, two server names and two families, against three zones. *days*: 36 pairs of commands, between which the zone, the classes of three addresses and the prober's routes change, and five files the first baseline may be. *faults*: three days of one endpoint with every step failing or killed, two kills in a rewrite: a rewrite after each |
| `MCWatch` | `ReaderIsCurrent`, `NothingTaintedIsSaid`, `FallsAreGraded` (no line tells of a fall as an improvement on what the reader was last told), `WatchIsLive` (a signal stops it, and a change that lasts is told), and in `WatchInv` that the file says what the screen says | two endpoints, one class of each severity that matters, three changes |

An invariant whose name ends in `Inv` is a module's type invariant together
with the smaller claims named in its definition.

`Sound` in `Grading` says that no fault happened or that the run confirms: the
properties are claimed of runs as the program makes them by default, and of
`--no-confirm` runs only when nothing disturbed them, which is what that flag
gives up.

### Fairness

- `Dialer`: only `Tick`, `DeadlinePasses` and `Redial`, together. The peer, the
  proxy, the resolver and the caller owe nothing. Time passes, and Go fires a
  timer that has run out. Weak fairness of the three as one action is enough
  because time stops only at a timer that has run out.
- `Runner`: each goroutine, the launching loop and the waiting caller. The Go
  scheduler runs what can run; a goroutine waiting in `DoConfirmed` comes back
  because `Dialer` shows `Returns`; a blocked send on the semaphore is not
  continuously enabled in general, but slots come back for good once the
  others are done.
- `Watch`: the ticker, and the loop as one action. Nothing is asked of the coin
  the select tosses between a tick and the finished context: a run started on a
  finished context stops the watch as well, at the check that follows it.
- `Library`: the caller and the goroutines, the latter as one action, which is
  enough because whichever of them runs, one fewer is left.
- `ECHLookup`: the program and the clock, together. Opening a UDP socket is the
  program's; a TCP connection, an answer and an error are not.
- `Command`, `StartTLS` and `Grading` have none: their properties
  are safety properties. `StartTLS` has `NotBothWaiting` in place of a
  termination property, because only the clock ends some of its conversations,
  and that is `Dialer`'s `Returns`.

### Where the documentation says otherwise

Each of these is a run whose one property is a sentence of the documentation, or
of a comment, and which TLC refutes.

| run | the sentence | what happens |
|---|---|---|
| `InventoryPort` | `--port` is the "default port for targets written without one" (`docs/usage.md:61`), and "replacing an explicit :443 probes an endpoint the operator did not name" (`main.go:987`) | `ReadAnsibleINI` drops double hosts by their address after the default port is in and before `--port` is applied: of `h:443` in one group and `h` in another only the last line is left, and with `--port 8443` the port that was written is not dialled |
| `LibrarySweep` | "the library and the binary cannot dial different runs from the same request" (`pq/pq.go:197`) | `run` stops the size sweep at the first size that failed, `Probe` does not |
| `XMPPEndTag` | `startTLSXMPP` reads "to the end of the element, not to the start of it", lest the rest be read "as a record header" (`probe.go:551`) | it reads to the first `>`. Of `<proceed ...></proceed>`, which is the same element, `</proceed>` is left, and if it comes in a segment of its own it is the handshake that reads it |
| `SilentHost` | tls-broken: "something answered" (`verdict.go:61`), "the port answered" (`docs/findings.md:70`); unreachable: "nothing answered" (`docs/findings.md:68`) | a host that drops every packet times out, a timeout is not in the list of `verdict.go:320`, and it is tls-broken. Putting it there is no repair: see the mutant `AbsentOrSilent` |

`UnreachableIsNotThePeer` and `OnlyAnEndTagIsLeft`, which pass, say what is left of
two of them: a refused connection, a missing name or route is always unreachable
and a listener never; and the end tag is the only thing left behind.

Seen on the way, and not runs of their own:

- "A group declined with an alert is a policy" (`verdict.go:976`), but the map files
  every failure that is not abrupt there: of a host that refuses the connection or
  has no name, all seven groups are declined. `RefusalsAreApart` says only that
  none on that list met silence.
- A declined ECH offer is one "the peer parsed" (`verdict.go:685`), but where the
  path drops the control as well, the branch of every other failure says "declined
  by the peer (timeout)", and OK. `ECHIsWhatHappened` is about "cut off" and
  "accepted".
- "A regression is graded by the class it fell to" (`verdict.go:460`) holds from one
  line to the next (`FallsAreGraded`), not across an outage: after ready, unreachable,
  intolerant the way back up is an improvement on unreachable, and no line carries
  the BAD.
- `addresses` says "how many addresses the name has" (`docs/findings.md:36`), but
  `addressFindings` groups by server name alone: two addresses on two ports are 4,
  two ports of one node may "disagree", and every target of a run with one `--sni`
  is one pool. `OddOneIsShown` counts endpoints, as the code does.
- An abrupt failure "has choked on the ClientHello itself" (`probe.go:6`), but a
  timeout or reset during the TCP connect is abrupt too, before any hello.
- pq-ready affects "nobody" (`verdict.go:129`), but a peer that takes hybrid
  groups only is pq-ready although the classical client failed in the same run.
- pq-blind says that a client that offers ML-KEM "still connects"
  (`verdict.go:34`); the default branch says it too when only a version-edge
  profile connected.
- "A hello size this peer will not answer" (`verdict.go:867`): an alert over the
  padding's ALPN names is an answer, and counts.
- SMTP "marks continuation with a dash" (`probe.go:726`); after a reply of the
  bare code, without the space, `expectSMTP` goes on reading until the deadline.
- A capability can go unsaid: of a peer that asks for a client certificate,
  `--profiles tls12 --per-group` finds a hybrid group accepted and then, because
  the only client was turned away for want of a certificate, files the endpoint
  under mtls-required, and no finding names the hybrid. `CapabilitiesAreReal`
  leaves that class out for it.
- The flat findings are "worst first" over the run; the wrapped ones
  (`docs/schema.md:129`) are each report's findings one after the other
  (`output.go:171`).
- "N endpoint(s) were never dialled" (`main.go:255`) counts an endpoint with one
  unroutable result, so also one whose route went away between two of its
  profiles. The model's routes stand still during a run.
- An address literal of the family `--net` excludes is unroutable, and its hint
  talks about this host's routes, whatever they are (`EgressIsLocal` is about
  the finding, which asks for the routes and stays silent).
- A group name that `--groups` does not know is refused after standard input
  has been read; every other flag is refused before.
- Expansion runs after the deduplication, so a name and one of its addresses
  under that name are the same dial twice.

## 4. What is proved

For every value of the constants, by TLAPS. Each module assumes of its
constants what its `ASSUME` says, and TLC evaluates that on every run:

| assumption | says |
|---|---|
| `TimesAssumption` (`Dialer`) | the timeout and the delay are positive |
| `RunnerAssumption`, `LibraryAssumption` | types only: the number of endpoints, the concurrency asked for (any integer), the plans, the calls |
| `WatchAssumption` | types only: classes, a number of changes |
| `GradingAssumption` | the peers are `Endpoints` (any subset of the groups, any limit on the path), the plans are what `cmdProbe` assembles from its flags: at least one client, the group probes and the sizes all or none, the sizes in their order |
| `CommandAssumption` | a number of kills, and sessions no longer than the metrics documents that tell their days apart |
| `TargetsAssumption`, `PortAssumption` | hosts and ports are any sets without the empty string, literals are hosts, those of IPv4 are literals, and the default port is a port |
| `OrderAssumption` (`Targets`) | two different addresses are one way round as text, and the order is transitive |
| `WorldAssumption` (`Command`) | types of command lines, zones, worlds and files; what `Evaluate` finds besides the verdict is not one of the checks the run has for itself; and a file with reports is a document pqprobe wrote, with one class for each target |
| `BoundsAssumption`, `BannerAssumption` (`StartTLS`) | any of the eight protocols and the proxy's, positive limits; and that what an orderly server has to say, with the reply at the end of it, stops before them. The code's are 100 lines and 16384 bytes. Nothing is assumed of a server that is not orderly |
| `FleetAssumption` (`ECHLookup`) | finitely many names, none of them a literal or one of the two marks for "no config" and "ordinary profiles"; a resolver at least, and positive times |

**Dialer** (any timeout, any delay): `TypeCorrect`, `AbruptIsEarned`,
`ClaimsAreTrue`, `AttemptIsBounded`, `AnsweredOnce`, `SocketsAreClosed`,
`ECHRejectIsEarned`, and `PromiseIsKept`: every behaviour is one of `Confirm`'s,
without its fairness. None of the invariants is inductive alone. `IInv` adds
`Reached` (the phase says who was contacted: without it, nothing excludes a
handshake with nobody), `History` (how many dials are behind each place, and
that a pause or a second dial has one abrupt, unclaimed result behind it) and
`Budget` (ticks elapsed plus the timer that runs). The nine ways a dial ends
are reduced once, in `EveryEnding`, to `Return` with a kind and a cause that
fit; each invariant then has one case for `Return` and one for each action that
ends nothing.

**Grading** (any peer, any plan the command assembles, any number of faults):
`NothingWorkedIsTrue`, `AWallIsAWall`, `PraiseIsDue`, `TheSweepBrackets`,
`ECHIsTold`, which are all of `MCGrading`'s properties. The invariant is about
single results, the theorems about what `Evaluate` makes of any set of them.
`Accounted` says that each result is the peer's answer to its own profile, or,
where the run does not confirm, a fault, and that there are no more of those
than faults. `NoneForgotten` and `StoppedForAReason` say which profiles have no
result: the sizes after one that failed, and nothing else. `GradedLast` says
that the class and the measurements are those of the results. The lemmas in front
are what the theorems share: what a hello of each profile tells of a peer
(`HandshakeTells`, `ConnectsIsOK`, `WhatKindsSay`), and that a set of numbers has
a least and a greatest (`LeastNumber`, `GreatestNumber`), on which the sweep's
bracket rests.

**Runner** (any fleet, any concurrency, any plan): `TypeCorrect`,
`ConcurrencyIsKept`, `RunIsWaitedFor`, `SweepIsStopped`, `PlanIsCarriedOut`, and
`FleetPromiseIsKept`, the safety half of the refinement. The strengthening is
`Counts`: the slots taken are as many as the goroutines that hold one, and the
WaitGroup is as large as the set of those alive. With it, `wg = 0` says that
the set is empty, and the types of the two counters follow instead of being
assumed. `Progress` ties a goroutine's place to its report and to the launching
loop; `Sweeping` says that a failed size has set the flag, and `Accounted` the
converse, that the flag is set by a size that failed before, so that each place
of the plan which was passed has a result or such a size in front of it.

**Library** (any call, any limit, any list of profiles): `NothingSurvivesTheCall`
and `OneReportEach`. `Counts` is `Runner`'s, with the receives of `Probe` in the
place of the WaitGroup. That each word has its report is a matter of counting:
`Shared` says that the two lists of `ParseAll` have each word as often between
them as the call, `CountBoth` that a list behind another is counted as the two
are. Both are inductions over the places of a sequence, by `EveryNumber`.

**Watch** (any set of endpoints, any classes): `ReaderStaysCurrent`,
`TaintIsKeptBack`, `FallsAreTold`, `WatchIsKept`, which are the safety properties of
`MCWatch`. `FallsAreTold` needs no more than that the lines are printed against the
run the reader was told. The
strengthening says what the reader knows at each place of the loop: outside a
run, what `prev` holds; inside, that the reports in hand are true, tainted or
those of the run before.

**ECHLookup** (any fleet, any list of resolvers, any deadlines): `OfferedItsOwn`,
`NoneIsMissed`, `LittleIsAsked`. The invariant is a ledger. `Ledger`: a name that
was looked up is known or is the one in hand, and the resolvers in front of the
one being asked are the ones that failed it. `Offers`: what is offered is what is
published, or every resolver failed. `Spent`: the time spent is at most a full
round for each known name, and for the one in hand a full exchange for each
resolver in front and what this one has used; the budget is that sum at its
largest.

**Assembly inside Command** (any hosts, ports, literals and order of addresses, any
command line, list, inventory, standard input and zone): `FleetIsNamed`,
`InputHasOneReader`, `NothingIsDropped`. `Gathered` says source by source what has
been read: after the operands, what they name; after `--list`, all that was written
outside an inventory; at the merge, that and the wanted hosts, each of them at some
address. Of a run in which a source went without standard input it says nothing but
that such a run goes no further, which is why `twice` has to be carried along.
`OverriddenMeans` is the meaning of a word under `--port` and `--sni`. The lemmas
about the loops of `collect` are in front: a filter keeps what it should (`Picked`),
`Deduplicated` one of each key (`Deduped`), a sort every member in one place (`Ordered`,
`InAddressOrder`), the map of the inventory one target of each address (`Collapsed`),
and `ExpandAddresses`'s append of lists all of them (`Flattened`). A member's place in
a sort is the number of members before it; that no place is empty or taken twice is
the pigeonhole of `FS_Injection`.

**Aftermath inside Command** (the same, and any routes, worlds, sessions and files):
`EgressIsOurs`, `OddOneIsFiled`, `NewsIsTrue`, `GateIsEarned`, and `CommandIsSound`,
which is `CommandInv`. With the two paragraphs around this one these are all of
`MCCommand`'s properties. The invariant is `Reported` and `Remembered`. `Reported`
says what the reports are at each place of `cmdProbe`, as a function of the fleet, the
world and the command (`Evaluated`, `Annotated`, `Complete`), and after printing, that
they exit as they should; `Remembered`, that the document is one pqprobe wrote whose
targets and classes are those of the reports until the next day and of `last` from
then on, however a run ended. The rest is about the functions. `FindingsAre` and
`SaidIs` take a report apart by check: what is filed under one is `EgressSays`,
`PoolSays` or `NewsSays`, and nobody else's. `StrandedIsCut` says that the endpoints
`egressFindings` counts are those a family without a route cut off, literal or pinned;
`GroupIs` and `PoolLine`, that the place of the worst in its pool is turned into its
place in the run; `NewsIs` and `TransitionsAre`, that comparing each report of a target
says what comparing the runs would; `FilingIs`, that every line has a report to go on.
For the exit code `SeverityIs` names the source of every severity on a report:
a class, something found beside it, a vanished endpoint's WARN, or OK. A pool's line is
only as severe as a class in the run, so `WorstIs` gives the gate what it should have,
and `SortedIs` says that the text renderer's order does not change it.

**Textfile inside Command** (any sessions, any number of kills): `FileIsTidy`,
the return of `writeAtomic` included, and `FileIsARegister`, the refinement of `AtomicFile` over every
session of commands, complete because `AtomicFile` has no fairness. `FileIInv`
adds to `Textfile`'s own properties which call made each temporary file, what is
in it at each step, and that every temporary left behind has a kill to answer for
it.

**StartTLS** (any of the protocols, any banner, any limits, every way of cutting a
reply into segments, every refusal, close and silence): `NothingElseIsLeft`,
`UpgradeWasAgreed`, `YesWasUnderstood`, `TalkIsInTurns`, `OneOfThemMoves`, which are
all of `MCStartTLS`'s properties, and `Invariant`, from which they follow. A reply may be in four places at once: consumed
by the read in progress (`got`), in the buffer, on the wire, or not yet sent.
`Whole` is the four in order, and moving a token from one to the next leaves it as
it was (`Divided`, `Moved`, `Appended`). `Fits` says that it is what is left of a
reply to the read at this step. `InTurn` says that messages and replies alternate,
so that nothing of the server's is anywhere while a message of the client's is
unheard, and `Conversing` that the client is at the start of a reply, inside one
that fits, or past it with nothing left over. What this needs of the code is in
the lemmas: `Begins` (every reply fits the read it comes to), `Chattered` (lines a
server may add keep it fitting) and `Verdict`, which takes the reads of the scripts in turn
and says what each makes of every prefix of such a reply: it never asks for more at
the end, never accepts before it or of a no, and never fails on a yes. The one read that
accepts before the end is XMPP's last, and `EndRead` says what it may leave
(`Settles`, `EndTag`); past it `Upgraded` keeps that tag as all there is. The answers of a
directory and the greetings of MySQL are computed from `Framing`'s bytes
(`LDAPAnswers`, `MySQLGreetings`).

**Framing** (any message of bytes, any offset), in the same module:
`FieldIsInside`. The contents `berField` returns lie inside the message and its next
offset is further on, so no answer of a directory makes it slice past the end, and a
walk over fields ends. The argument is by the form of the length: in one byte, or in
one to three bytes after it, and arithmetic from the bounds the code has tested by
then.

Every inductive invariant was checked by TLC on the module's run before it was
proved. Some properties in the theorems are in no run (the type invariants of
`Dialer` and `Runner`, `AnAnswerIsFinal`); the theorems have them for
every value of the constants.

Only model-checked:

- everything with fairness (`Returns`, `WatchIsLive`, the liveness halves of
  `KeepsPromise` and `KeepsFleetPromise`): liveness is outside what the prover
  handles here;
- the properties of the runs that expect a violation.

Every other property of a passing run is a theorem.

Induction schemes that take an operator cannot be used here, so an induction is
over a *set* of numbers (`EveryNumber`, from finite sets being well founded), and
a loop that was proved about is a recursive function: `Kept` in `Library`. The
provers do not see into `SelectSeq` and `SortSeq` for the same reason; the filters and
sorts of `Assembly` and `Aftermath` are written with `At` (what a sequence has at the
places of a set) and `InOrder` (the members of a set, each at the place that as many
come before it as there are).

## 5. Not modelled

- How `Parse` splits a word, and how a DNS message is laid out.
- Certificate findings, projection, signatures: arithmetic without state.
- Wording, hints and layout of every renderer, `--min-severity`, and the
  identifiers the wrapped findings are numbered with.
- Usage, `explain`, and how flags and operands are told apart.
- In `Command`: `--watch` (that is `Watch`), routes that change during a run, and
  the same target twice in one run with two different results.
- `tls.Conn.Close`'s own five-second write deadline when an attempt succeeds:
  `WithinBudget` ends where the result is complete. Time stops in `Dialer` at a
  timer that has run out, so a socket without a deadline is caught by `Returns`, not
  by `WithinBudget`.
- A deadline of an embedder's own context, which `Do` sees as one of its own:
  in `Dialer` the caller cancels.
- The check of a baseline's `tool` by itself: `WorldAssumption` has every file with
  reports pqprobe's own, so that `LoadReports` never meets a stranger's report.
- What a file system keeps of an unsynced file when the machine, not the
  process, dies.
- What a call of `pq.Probe` makes of a context its own caller has cancelled.
- `contrib/` (QUIC and uTLS probes around third-party stacks) and `scripts/`.

## 6. Plan

Done: every module of section 2 and their runs; a proof of every safety property of
the passing runs.

Next, in this order:

1. `PlanIsCarriedOut` says what a run dials and `NothingWorkedIsTrue` what a class is
   worth; a theorem that instantiates `Grading` with the plans of `Runner` would let
   `Command` have `Seen` from them instead of from `world`.
2. The same target twice in one run with two different results, which `world` cannot
   give it and for which `byTarget` keeps the last.
