---------------------------- MODULE SmokeRunner ----------------------------
(***************************************************************************)
(* The end-to-end test of the repository: scripts/smoke.ts starts the      *)
(* servers of one example after the other on their real ports, runs the    *)
(* client steps of its table against them, probes them without credentials *)
(* and stops them; spawnExample() of shared/testing.ts supervises each     *)
(* process.                                                                *)
(*                                                                         *)
(* Servers and clients are processes that outlive the runner when it is    *)
(* interrupted or told to keep them, so the model has several invocations, *)
(* and each process belongs to one.  A port has one listener; who that is, *)
(* a client cannot tell.  What a healthy client reports follows from the   *)
(* credential of its step and from its token store; everything that may go *)
(* wrong with a process is a fault, and MaxFaults bounds the faults.       *)
(***************************************************************************)
EXTENDS SmokeMatrix

CONSTANTS
  Examples,    \* the rows of the table, in order
  Ports,       \* the ports of their servers
  Existing,    \* ids of the examples whose directory exists
  Selections,  \* selections of ids on the command line; {} selects all
  Keeps,       \* whether --keep may be given
  Stores,      \* keys of the token stores
  NoToken,     \* an empty store
  Reckoned,    \* per example: the stores before each step, as its author reckons
  MaxRuns,     \* bound on invocations of the script
  MaxFaults    \* bound on faults

Runs == 1..MaxRuns
Nobody == 0    \* no run's server listens
Client == 0    \* the client's place among the ports

VARIABLES
  run, keep, keycloakUp, selected,  \* the invocation and its arguments
  pc,        \* where the runner is
  ex,        \* the example
  srv,       \* the server being started or stopped
  step,      \* the client step
  servers,   \* how many servers of the example are up for the runner
  rows,      \* the results
  exit,      \* its exit code, or NoCode
  status,    \* per run and port: the process
  signal,    \* per run and port: the signal stop() sent the process
  browser,   \* the browser the latest client opened: none, running or closed
  code,      \* the exit code of the client
  who,       \* the user in its RESULT line
  store,     \* per key: the token in the example's store directory
  faults,    \* history: faults so far
  dirty      \* history: an invocation ended and left processes behind

invocation == <<run, keep, keycloakUp, selected>>
runner == <<pc, ex, srv, step, servers, rows, exit>>
processes == <<status, signal>>
client == <<browser, code, who>>
history == <<faults, dirty>>
vars == <<invocation, runner, processes, client, store, history>>

NoCode == -1        \* still running, or ended by a signal
Interrupted == 130
ChainOf(e) == {Examples[e].servers[i] : i \in DOMAIN Examples[e].servers}
Phases == {"idle", "next", "setup", "spawn", "wait", "moment", "stopFailed",
           "steps", "client", "stop", "stopping", "report", "exited"}

Example == Examples[ex]
Port == Example.servers[srv]
Step == Example.steps[step]
Main(e) == Examples[e].servers[Len(Examples[e].servers)]

Alive(r, p) == status[r][p] \in {"booting", "up", "hung", "stuck"}
AnyAlive == \E r \in Runs, p \in Ports \cup {Client} : Alive(r, p)

(* A server that is stuck still has its port, and answers nothing.         *)
Holds(r, p) == status[r][p] \in {"up", "stuck"}
Listening(p) == \E r \in Runs : Holds(r, p)
Answering(p) == \E r \in Runs : status[r][p] = "up"
Listener(p) == IF Listening(p) THEN CHOOSE r \in Runs : Holds(r, p) ELSE Nobody

(* Rows: of an example that is not run, of its start, of its steps, of its *)
(* probe.  by is history: whose server listened on the main port.          *)
NoStep == -1
StartRow == 0
ProbeRow(e) == Len(Examples[e].steps) + 1
LastRow(e) == IF Examples[e].negative THEN ProbeRow(e) ELSE Len(Examples[e].steps)
Row(s, result) ==
  [ex |-> ex, step |-> s, status |-> result, by |-> Listener(Main(ex))]
Passed(e, s) == \E row \in rows : row.ex = e /\ row.step = s /\ row.status = "pass"
Failed == \E row \in rows : row.status = "fail"

Fault == faults < MaxFaults /\ faults' = faults + 1
Abandon == dirty' = (dirty \/ AnyAlive)

-----------------------------------------------------------------------------
Init ==
  /\ run = 0 /\ keep = FALSE /\ keycloakUp = FALSE /\ selected = {}
  /\ pc = "idle" /\ ex = 1 /\ srv = 1 /\ step = 1 /\ servers = 0 /\ rows = {} /\ exit = NoCode
  /\ status = [r \in Runs |-> [p \in Ports \cup {Client} |-> "none"]]
  /\ signal = [r \in Runs |-> [p \in Ports \cup {Client} |-> "none"]]
  /\ browser = "none" /\ code = NoCode /\ who = NoUser
  /\ store = [s \in Stores |-> NoToken]
  /\ faults = 0 /\ dirty = FALSE

(* The script starts: PUBLIC_HOST=localhost ends it at once; then          *)
(* isKeycloakUp() answers once for the whole run, and throws if            *)
(* REQUIRE_KEYCLOAK is set and it is not.                                  *)
Invoke ==
  /\ pc \in {"idle", "exited"} /\ run < MaxRuns
  /\ run' = run + 1 /\ keep' \in Keeps /\ selected' \in Selections
  /\ \/ keycloakUp' \in BOOLEAN /\ pc' = "next" /\ exit' = NoCode
     \/ keycloakUp' = FALSE /\ pc' = "exited" /\ exit' \in {1, 2}
  /\ ex' = 1 /\ srv' = 1 /\ step' = 1 /\ servers' = 0 /\ rows' = {}
  /\ UNCHANGED <<processes, client, store, history>>

(* What becomes of an example: the early continues of the loop.            *)
Fate(e) ==
  IF selected # {} /\ Examples[e].id \notin selected THEN "unselected"
  ELSE IF Examples[e].id \notin Existing THEN "missing"
  ELSE IF Examples[e].keycloak /\ ~keycloakUp THEN "skip"
  ELSE "run"

(* Mutant of Noted: every example gets a row.                              *)
NotedAlways == rows \cup {Row(NoStep, Fate(ex))}

Noted == IF Fate(ex) = "unselected" THEN rows ELSE rows \cup {Row(NoStep, Fate(ex))}

PassOver ==
  /\ pc = "next" /\ ex \in DOMAIN Examples /\ Fate(ex) # "run"
  /\ rows' = Noted
  /\ ex' = ex + 1
  /\ UNCHANGED <<invocation, pc, srv, step, servers, exit, processes, client, store, history>>

(* A fresh store directory, then the setup, then the servers.              *)
Begin ==
  /\ pc = "next" /\ ex \in DOMAIN Examples /\ Fate(ex) = "run"
  /\ pc' = IF Example.setup THEN "setup" ELSE "spawn"
  /\ srv' = 1 /\ step' = 1 /\ servers' = 0
  /\ store' = [s \in Stores |-> NoToken]
  /\ UNCHANGED <<invocation, ex, rows, exit, processes, client, history>>

SetUp ==
  /\ pc = "setup"
  /\ pc' = "spawn"
  /\ UNCHANGED <<invocation, ex, srv, step, servers, rows, exit, processes, client, store, history>>

(* An error outside timed() ends the script without a report.              *)
Throw ==
  /\ pc' = "exited" /\ exit' = 1
  /\ Abandon
  /\ UNCHANGED <<invocation, ex, srv, step, servers, rows, processes, client, store>>

SetUpFails == pc = "setup" /\ Fault /\ Throw

-----------------------------------------------------------------------------
(* spawnExample(); the https server is not polled but given a moment.      *)
Spawn ==
  /\ pc = "spawn"
  /\ status' = [status EXCEPT ![run][Port] = "booting"]
  /\ signal' = [signal EXCEPT ![run][Port] = "none"]
  /\ pc' = IF Example.https THEN "moment" ELSE "wait"
  /\ UNCHANGED <<invocation, ex, srv, step, servers, rows, exit, client, store, history>>

(* Without uv the child emits an error event nobody listens to.            *)
SpawnFails == pc = "spawn" /\ Example.python /\ Fault /\ Throw

(* The server is pushed; with the last one the start row passes.           *)
Pushed ==
  /\ servers' = srv
  /\ IF srv < Len(Example.servers)
     THEN pc' = "spawn" /\ srv' = srv + 1 /\ rows' = rows
     ELSE pc' = "steps" /\ srv' = srv /\ rows' = rows \cup {Row(StartRow, "pass")}
  /\ UNCHANGED <<invocation, ex, step, exit, processes, client, store, dirty>>

(* Mutant of Ready: nobody waits for the port.                             *)
ReadyAtOnce == pc = "wait" /\ Pushed /\ UNCHANGED faults

(* waitForHttp() has an answer, from whoever listens on the port.          *)
Ready == pc = "wait" /\ Answering(Port) /\ Pushed /\ UNCHANGED faults

(* 1500 ms are over; a server that is still booting is slow.               *)
MomentOver ==
  /\ pc = "moment" /\ Pushed
  /\ IF status[run][Port] = "booting" THEN Fault ELSE UNCHANGED faults

(* timed() keeps the error: the steps are left out, finally runs.          *)
StartFailed ==
  /\ rows' = rows \cup {Row(StartRow, "fail")}
  /\ pc' = "stop" /\ srv' = 1
  /\ UNCHANGED <<invocation, ex, step, servers, exit, processes, client, store, history>>

(* The child exited before the port answered: nothing is left to stop.     *)
EarlyExit == pc = "wait" /\ ~Alive(run, Port) /\ StartFailed

(* The deadline of waitForHttp(): spawnExample() stops the child.          *)
WaitTimesOut ==
  /\ pc = "wait" /\ Alive(run, Port)
  /\ IF status[run][Port] \in {"hung", "stuck"} THEN UNCHANGED faults ELSE Fault
  /\ signal' = [signal EXCEPT ![run][Port] = "term"]
  /\ pc' = "stopFailed"
  /\ UNCHANGED <<invocation, ex, srv, step, servers, rows, exit, status, client, store, dirty>>

(* Mutant of StopFailed: the stop is not awaited.                          *)
StopNotAwaited == pc = "stopFailed" /\ StartFailed

StopFailed == pc = "stopFailed" /\ ~Alive(run, Port) /\ StartFailed

(* stop() sends SIGKILL three seconds after SIGTERM.                       *)
Target == IF pc = "client" THEN Client ELSE Port

(* Mutant of KillTimer: SIGTERM has to do.                                 *)
KillTimerUnset == FALSE

KillTimer ==
  /\ pc \in {"stopFailed", "client", "stopping"}
  /\ signal[run][Target] = "term" /\ Alive(run, Target)
  /\ signal' = [signal EXCEPT ![run][Target] = "kill"]
  /\ UNCHANGED <<invocation, runner, status, client, store, history>>

-----------------------------------------------------------------------------
(* runClient().                                                            *)
StartClient ==
  /\ pc = "steps" /\ step \in DOMAIN Example.steps
  /\ status' = [status EXCEPT ![run][Client] = "up"]
  /\ signal' = [signal EXCEPT ![run][Client] = "none"]
  /\ browser' = "none" /\ code' = NoCode /\ who' = NoUser
  /\ pc' = "client"
  /\ UNCHANGED <<invocation, ex, srv, step, servers, rows, exit, store, history>>

Running == pc = "client" /\ status[run][Client] = "up"
Reached == Running /\ Answering(Main(ex))
Online(s) == s.work \in {"static", "oauth"}

Exits(c, u, st) ==
  /\ status' = [status EXCEPT ![run][Client] = "gone"]
  /\ signal' = [signal EXCEPT ![run][Client] = "none"]
  /\ code' = c /\ who' = u /\ store' = st
  /\ UNCHANGED <<invocation, runner, browser>>

ClientExits(c, u, st) == Exits(c, u, st) /\ UNCHANGED history

(* Examples 00, 01, 02, 05 and 08: the environment decides.  (An           *)
(* EXPECT_ADMIN that is not met exits with 2 where the assertion on the    *)
(* user would fail, too.)                                                  *)
StaticClient ==
  /\ Reached /\ Step.work = "static"
  /\ ClientExits(IF Step.user = NoUser THEN 1 ELSE 0, Step.user, store)

(* A stored token does.                                                    *)
StoredToken ==
  /\ Reached /\ Step.work = "oauth" /\ store[Step.store] # NoToken
  /\ store[Step.store].live
  /\ ClientExits(0, store[Step.store].user, store)

(* The client of 07 probes a stored token first, forgets one that is       *)
(* revoked and gives up; no other example revokes.                         *)
RevokedToken ==
  /\ Reached /\ Step.work = "oauth" /\ store[Step.store] # NoToken
  /\ ~store[Step.store].live
  /\ ClientExits(1, NoUser, [store EXCEPT ![Step.store] = NoToken])

NeedsLogin == Reached /\ Step.work = "oauth" /\ store[Step.store] = NoToken

(* openBrowser(): detached, in a process group of its own.                 *)
OpenBrowser ==
  /\ NeedsLogin /\ Step.user # NoUser /\ browser = "none"
  /\ browser' = "running"
  /\ UNCHANGED <<invocation, runner, processes, code, who, store, history>>

LoggedIn ==
  /\ NeedsLogin /\ browser # "none"
  /\ ClientExits(0, Step.user, [store EXCEPT ![Step.store] = [user |-> Step.user, live |-> TRUE]])

(* With MCP_NO_BROWSER it waits for a callback nobody sends.               *)
LoginHangs ==
  /\ NeedsLogin /\ Step.user = NoUser
  /\ status' = [status EXCEPT ![run][Client] = "hung"]
  /\ UNCHANGED <<invocation, runner, signal, client, store, history>>

LogoutClient ==
  /\ Running /\ Step.work = "logout"
  /\ ClientExits(0, NoUser, [store EXCEPT ![Step.store] = NoToken])

(* revoke.ts: every session of the user ends.                              *)
Revoked(st, u) ==
  [s \in Stores |-> IF st[s] # NoToken /\ st[s].user = u THEN [st[s] EXCEPT !.live = FALSE] ELSE st[s]]

RevokeClient ==
  /\ Running /\ Step.work = "revoke"
  /\ ClientExits(0, NoUser, Revoked(store, Step.user))

(* "1 on any error": no server answers, or something else went wrong.      *)
ClientErrs ==
  /\ Running
  /\ IF Online(Step) /\ ~Answering(Main(ex)) THEN UNCHANGED faults ELSE Fault
  /\ Exits(1, NoUser, store) /\ UNCHANGED dirty

ClientHangs ==
  /\ Running
  /\ IF Online(Step) /\ Listening(Main(ex)) /\ ~Answering(Main(ex)) THEN UNCHANGED faults ELSE Fault
  /\ status' = [status EXCEPT ![run][Client] = "hung"]
  /\ UNCHANGED <<invocation, runner, signal, client, store, dirty>>

(* The 120 s of a step are over.                                           *)
ClientTimer ==
  /\ pc = "client" /\ Alive(run, Client) /\ signal[run][Client] = "none"
  /\ IF status[run][Client] = "hung" THEN UNCHANGED faults ELSE Fault
  /\ signal' = [signal EXCEPT ![run][Client] = "term"]
  /\ UNCHANGED <<invocation, runner, status, client, store, dirty>>

(* Mutant of AsExpected: every step needs a RESULT line, --logout too.     *)
AsExpectedWithResult ==
  /\ code = Step.exit
  /\ Step.exit # 0 \/ who \in Step.expect

(* The exit code, then the assertion on the RESULT line, if there is one.  *)
Meets(s, c, u) == c = s.exit /\ (s.exit # 0 \/ s.expect = {} \/ u \in s.expect)
AsExpected == Meets(Step, code, who)

StepDone ==
  /\ pc = "client" /\ ~Alive(run, Client)
  /\ rows' = rows \cup {Row(step, IF AsExpected THEN "pass" ELSE "fail")}
  /\ step' = step + 1 /\ pc' = "steps"
  /\ UNCHANGED <<invocation, ex, srv, servers, exit, processes, client, store, history>>

(* The negative probe is answered as it should be only by a server.        *)
Probed(result) ==
  /\ rows' = rows \cup {Row(ProbeRow(ex), result)}
  /\ pc' = "stop" /\ srv' = 1
  /\ UNCHANGED <<invocation, ex, step, servers, exit, processes, client, store, dirty>>

(* rawRequest() has no timer: against a stuck server the probe does not    *)
(* end until that server does.                                             *)
StepsDone == pc = "steps" /\ step = ProbeRow(ex)
Unanswered ==
  StepsDone /\ Example.negative /\ Listening(Main(ex)) /\ ~Answering(Main(ex))
ProbePasses == StepsDone /\ Example.negative /\ Answering(Main(ex)) /\ Probed("pass") /\ UNCHANGED faults
ProbeFails ==
  /\ StepsDone /\ Example.negative /\ ~Unanswered /\ Probed("fail")
  /\ IF Answering(Main(ex)) THEN Fault ELSE UNCHANGED faults

NoProbe ==
  /\ StepsDone /\ ~Example.negative
  /\ pc' = "stop" /\ srv' = 1
  /\ UNCHANGED <<invocation, ex, step, servers, rows, exit, processes, client, store, history>>

-----------------------------------------------------------------------------
(* finally: stop every server that was pushed, one after the other.        *)
StopServer ==
  /\ pc = "stop" /\ ~keep /\ srv <= servers /\ Alive(run, Port)
  /\ signal' = [signal EXCEPT ![run][Port] = "term"]
  /\ pc' = "stopping"
  /\ UNCHANGED <<invocation, ex, srv, step, servers, rows, exit, status, client, store, history>>

ServerStopped ==
  /\ \/ pc = "stop" /\ ~keep /\ srv <= servers
     \/ pc = "stopping"
  /\ ~Alive(run, Port)
  /\ pc' = "stop" /\ srv' = srv + 1
  /\ UNCHANGED <<invocation, ex, step, servers, rows, exit, processes, client, store, history>>

NextExample ==
  /\ pc = "stop"
  /\ IF keep THEN Abandon ELSE srv > servers /\ UNCHANGED dirty
  /\ pc' = "next" /\ ex' = ex + 1
  /\ UNCHANGED <<invocation, srv, step, servers, rows, exit, processes, client, store, faults>>

LoopDone ==
  /\ pc = "next" /\ ex \notin DOMAIN Examples
  /\ pc' = "report"
  /\ UNCHANGED <<invocation, ex, srv, step, servers, rows, exit, processes, client, store, history>>

(* Mutant of ExitCode: only the rows of client steps and probes count.     *)
ExitCodeOfSteps == IF \E row \in rows : row.status = "fail" /\ row.step # StartRow THEN 1 ELSE 0

ExitCode == IF Failed THEN 1 ELSE 0

Report ==
  /\ pc = "report"
  /\ pc' = "exited" /\ exit' = ExitCode
  /\ UNCHANGED <<invocation, ex, srv, step, servers, rows, processes, client, store, history>>

(* Ctrl-C: the children are in process groups of their own.                *)
Interrupt ==
  /\ pc \notin {"idle", "exited"} /\ Fault
  /\ pc' = "exited" /\ exit' = Interrupted
  /\ Abandon
  /\ UNCHANGED <<invocation, ex, srv, step, servers, rows, processes, client, store>>

-----------------------------------------------------------------------------
(* The processes.  listen() rejects when the port is taken.                *)
Becomes(r, p, st) ==
  /\ status' = [status EXCEPT ![r][p] = st]
  /\ UNCHANGED <<invocation, runner, signal, client, store, dirty>>

Bind(r, p) ==
  /\ status[r][p] = "booting"
  /\ Becomes(r, p, IF Listening(p) THEN "gone" ELSE "up")
  /\ UNCHANGED faults

BootFails(r, p) == status[r][p] = "booting" /\ Fault /\ \E st \in {"gone", "hung"} : Becomes(r, p, st)
Crash(r, p) == Holds(r, p) /\ Fault /\ Becomes(r, p, "gone")
ServerHangs(r, p) == status[r][p] = "up" /\ Fault /\ Becomes(r, p, "stuck")

Terminated(r, p) ==
  /\ Alive(r, p) /\ signal[r][p] # "none"
  /\ status' = [status EXCEPT ![r][p] = "gone"]
  /\ signal' = [signal EXCEPT ![r][p] = "none"]
  /\ UNCHANGED <<invocation, runner, client, store, history>>

(* A client whose runner is gone ends by itself.                           *)
OrphanEnds(r) ==
  /\ Alive(r, Client) /\ (r # run \/ pc # "client")
  /\ Becomes(r, Client, "gone")
  /\ UNCHANGED faults

BrowserCloses ==
  /\ browser = "running"
  /\ browser' = "closed"
  /\ UNCHANGED <<invocation, runner, processes, code, who, store, history>>

Runner ==
  \/ PassOver \/ Begin \/ SetUpFails
  \/ Spawn \/ SpawnFails \/ Ready \/ MomentOver \/ EarlyExit \/ WaitTimesOut \/ StopFailed
  \/ StartClient \/ ClientTimer \/ StepDone \/ ProbePasses \/ ProbeFails \/ NoProbe
  \/ StopServer \/ ServerStopped \/ NextExample \/ LoopDone \/ Report \/ KillTimer

Clients ==
  \/ StaticClient \/ StoredToken \/ RevokedToken \/ OpenBrowser \/ LoggedIn \/ LoginHangs
  \/ LogoutClient \/ RevokeClient \/ ClientErrs \/ ClientHangs

Next ==
  \/ Invoke \/ Interrupt \/ SetUp \/ Runner \/ Clients \/ BrowserCloses
  \/ \E r \in Runs, p \in Ports :
       Bind(r, p) \/ BootFails(r, p) \/ Crash(r, p) \/ ServerHangs(r, p)
  \/ \E r \in Runs, p \in Ports \cup {Client} : Terminated(r, p)
  \/ \E r \in Runs : OrphanEnds(r)

Spec == Init /\ [][Next]_vars

(* The runner goes on, its timers included; a child that neither ends nor  *)
(* gets anywhere is a hung one; SIGKILL works, SIGTERM may be ignored.     *)
(* Nobody promises that gen-certs.sh ends (SetUp).                         *)
Killed(r, p) == signal[r][p] = "kill" /\ Terminated(r, p)

FairSpec ==
  /\ Spec
  /\ WF_vars(Runner) /\ WF_vars(Clients)
  /\ WF_vars(\E r \in Runs, p \in Ports : Bind(r, p))
  /\ WF_vars(\E r \in Runs, p \in Ports \cup {Client} : Killed(r, p))

-----------------------------------------------------------------------------
(* What the table holds; only an OAuth client goes by a token store.       *)
StepType ==
  {s \in [work : {"static", "oauth", "logout", "revoke"}, store : Stores \cup {"none"},
          user : Users \cup {NoUser}, exit : {0, 1}, expect : SUBSET Users] :
     s.work \in {"oauth", "logout"} => s.store \in Stores}

ExampleType ==
  {x \in [id : STRING, keycloak : BOOLEAN, servers : Seq(Ports), steps : Seq(StepType),
          https : BOOLEAN, python : BOOLEAN, setup : BOOLEAN, negative : BOOLEAN] :
     Len(x.servers) > 0}

TokenType == [user : Users \cup {NoUser}, live : BOOLEAN]

ASSUME SmokeConstants ==
  /\ MaxRuns \in Nat /\ MaxFaults \in Nat /\ Keeps \subseteq BOOLEAN /\ Client \notin Ports
  /\ Examples \in Seq(ExampleType)

(* What step s makes of the stores when clients run one after the other,   *)
(* provided that the table is right about it: s gets what it expects.      *)
Reckons(s, before, after) ==
  LET token == before[s.store] IN
  \/ /\ s.work = "static"
     /\ after = before /\ Meets(s, IF s.user = NoUser THEN 1 ELSE 0, s.user)
  \/ /\ s.work = "oauth" /\ token # NoToken /\ token.live
     /\ after = before /\ Meets(s, 0, token.user)
  \/ /\ s.work = "oauth" /\ token # NoToken /\ ~token.live
     /\ after = [before EXCEPT ![s.store] = NoToken] /\ Meets(s, 1, NoUser)
  \/ /\ s.work = "oauth" /\ token = NoToken /\ s.user # NoUser
     /\ after = [before EXCEPT ![s.store] = [user |-> s.user, live |-> TRUE]] /\ Meets(s, 0, s.user)
  \/ /\ s.work = "logout"
     /\ after = [before EXCEPT ![s.store] = NoToken] /\ Meets(s, 0, NoUser)
  \/ /\ s.work = "revoke"
     /\ after = Revoked(before, s.user) /\ Meets(s, 0, NoUser)

StoreType == [Stores -> {NoToken} \cup TokenType]

RightAbout(x, before) ==
  /\ \A i, j \in DOMAIN x.servers : x.servers[i] = x.servers[j] => i = j
  /\ before[0] = [s \in Stores |-> NoToken]
  /\ \A n \in DOMAIN x.steps : Reckons(x.steps[n], before[n - 1], before[n])

ASSUME TableIsRight == \A e \in DOMAIN Examples : RightAbout(Examples[e], Reckoned[e])

RowType ==
  [ex : DOMAIN Examples, step : Int, status : {"pass", "fail", "skip", "missing"},
   by : Runs \cup {Nobody}]

(* Where the runner is in an example, its indices are those of the table.  *)
InExample == pc \notin {"idle", "next", "report", "exited"}

TypeOK ==
  /\ run \in Runs \cup {0} /\ keep \in BOOLEAN /\ keycloakUp \in BOOLEAN
  /\ pc \in Phases /\ ex \in 1..(Len(Examples) + 1)
  /\ InExample => ex \in DOMAIN Examples /\ Fate(ex) = "run" /\ run \in Runs
  /\ InExample => servers \in 0..Len(Example.servers) /\ step \in 1..ProbeRow(ex)
  /\ pc \in {"spawn", "wait", "moment", "stopFailed", "stopping"} => srv \in DOMAIN Example.servers
  /\ pc = "client" => step \in DOMAIN Example.steps
  /\ rows \subseteq RowType
  /\ exit \in {NoCode, 0, 1, 2, Interrupted}
  /\ status \in [Runs -> [Ports \cup {Client} -> {"none", "booting", "up", "hung", "stuck", "gone"}]]
  /\ signal \in [Runs -> [Ports \cup {Client} -> {"none", "term", "kill"}]]
  /\ browser \in {"none", "running", "closed"} /\ code \in {NoCode, 0, 1}
  /\ store \in StoreType
  /\ faults \in 0..MaxFaults /\ dirty \in BOOLEAN

(* "Stop everything" (smoke.ts:11): unless an invocation was cut short or  *)
(* told to keep its servers, no server survives its example, whatever      *)
(* failed on the way, and none answers for one of another invocation.      *)
(* "One callback port per machine ... runs examples sequentially for this  *)
(* reason" (shared/README.md:262): clients never overlap, stopped ones     *)
(* included.                                                               *)
NothingLeftRunning ==
  ~dirty => \A r \in Runs, p \in Ports \cup {Client} : Alive(r, p) =>
    /\ r = run
    /\ IF p = Client THEN pc = "client" ELSE InExample /\ p \in ChainOf(ex)

(* A step that expects an exit code of 1 passes without any server, too.   *)
(* A negative probe that passes vouches for the rows before it: all of     *)
(* them met the server that this invocation had started.                   *)
ProbeVouches ==
  ~dirty => \A e \in DOMAIN Examples :
    Examples[e].negative /\ ~Examples[e].https /\ Passed(e, ProbeRow(e)) =>
      \A row \in rows : row.ex = e => row.by = run

(* "Exits non-zero on failure" (smoke.ts:13): an exit code of 0 means that *)
(* every selected example whose directory and Keycloak are there passed    *)
(* its start, each of its steps and its probe; nothing was left out.       *)
GreenIsComplete ==
  pc = "exited" /\ exit = 0 =>
    \A e \in DOMAIN Examples : Fate(e) = "run" =>
      \A s \in StartRow..LastRow(e) : Passed(e, s) /\ ~\E row \in rows :
        row.ex = e /\ row.step = s /\ row.status = "fail"

(* No false alarm: what the table expects of each client is what its       *)
(* credential and the token store, as the steps before left it, make it    *)
(* report ("without the logout, bob's run would replay alice's tokens",    *)
(* smoke.ts:148).                                                          *)
HealthyIsGreen == faults = 0 /\ ~dirty => ~Failed

(* Every invocation ends: whatever hangs or ignores SIGTERM, each wait is  *)
(* bounded by a timer or by SIGKILL, but for two that have none, the one   *)
(* for gen-certs.sh and that for the answer to a probe (rawRequest(),      *)
(* testing.ts:103).                                                        *)
Stalled == pc = "setup" \/ Unanswered
InvocationEnds == (pc # "idle" ~> pc = "exited") \/ <>[]Stalled

-----------------------------------------------------------------------------
(* The inductive invariant of the proofs.  Every result but GreenIsComplete *)
(* is about invocations that nothing was left behind for (~dirty).         *)

(* The servers of the example that may still be alive.                     *)
Supervised(i) ==
  \/ pc \in {"wait", "moment", "stopFailed"} /\ i <= srv
  \/ pc \in {"spawn", "steps", "client"} /\ i <= servers
  \/ pc \in {"stop", "stopping"} /\ i >= srv /\ i <= servers

(* Whatever is alive is a server being supervised, or the client.          *)
OnlySupervised ==
  ~dirty => \A r \in Runs, p \in Ports \cup {Client} : Alive(r, p) =>
    /\ r = run /\ InExample
    /\ IF p = Client THEN pc = "client"
       ELSE \E i \in DOMAIN Example.servers : Supervised(i) /\ p = Example.servers[i]

(* Where no step has been taken.                                           *)
Before == {"setup", "spawn", "wait", "moment", "stopFailed"}

(* The servers come up in order; the rows of an example come in order.     *)
InOrder ==
  /\ pc # "idle" => run \in Runs
  /\ pc \in Before => step = 1 /\ servers = srv - 1
  /\ pc = "setup" => srv = 1
  /\ pc = "moment" => Example.https
  /\ pc \in {"steps", "client"} => servers = Len(Example.servers)
  /\ pc = "report" => ex = Len(Examples) + 1
  /\ srv \in Nat \ {0}
  /\ \A row \in rows :
       /\ row.ex <= ex
       /\ row.ex = ex => pc \notin Before \cup {"next"} /\ (pc \in {"steps", "client"} => row.step < step)

(* While an example runs, its main port is this invocation's or nobody's,  *)
(* and so were its rows as long as it is not nobody's.                     *)
OwnServer ==
  ~dirty /\ pc \in {"steps", "client"} /\ ~Example.https =>
    /\ status[run][Main(ex)] \in {"up", "stuck", "gone"}
    /\ Holds(run, Main(ex)) => \A row \in rows : row.ex = ex => row.by = run

(* What is behind the runner has passed or made the run fail.              *)
Complete(e, n) == Failed \/ \A s \in StartRow..n : Passed(e, s)

Progress ==
  /\ pc # "exited" => \A e \in DOMAIN Examples : e < ex /\ Fate(e) = "run" => Complete(e, LastRow(e))
  /\ pc \in {"steps", "client"} => Complete(ex, step - 1)
  /\ pc \in {"stop", "stopping"} => Complete(ex, LastRow(ex))
  /\ pc = "exited" /\ exit = 0 =>
       ~Failed /\ \A e \in DOMAIN Examples : Fate(e) = "run" => Complete(e, LastRow(e))

(* Without a fault every server that is waited for comes up and stays up,  *)
(* nobody signals it or the client, and the store is as reckoned.          *)
Healthy == faults = 0 /\ ~dirty

ServersUp ==
  pc \in {"spawn", "wait", "moment", "steps", "client"} =>
    \A i \in DOMAIN Example.servers : LET p == Example.servers[i] IN
      Supervised(i) => /\ signal[run][p] = "none"
                       /\ status[run][p] = "up" \/ (status[run][p] = "booting" /\ i > servers)

StoreReckoned ==
  pc \in Before \cup {"steps"} => store = Reckoned[ex][step - 1]

ClientOnTrack ==
  pc = "client" =>
    /\ signal[run][Client] = "none"
    /\ \/ status[run][Client] = "up" /\ store = Reckoned[ex][step - 1]
       \/ status[run][Client] = "gone" /\ store = Reckoned[ex][step] /\ AsExpected

OnTrack ==
  Healthy => ~Failed /\ pc # "stopFailed" /\ ServersUp /\ StoreReckoned /\ ClientOnTrack

IInv ==
  TypeOK /\ InOrder /\ OnlySupervised /\ OwnServer /\ ProbeVouches /\ Progress /\ OnTrack
=============================================================================
