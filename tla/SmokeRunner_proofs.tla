------------------------- MODULE SmokeRunner_proofs -------------------------
(***************************************************************************)
(* Proofs about SmokeRunner, for every table, every number of invocations  *)
(* and faults, and every schedule.                                         *)
(***************************************************************************)
EXTENDS SmokeRunner, TLAPS

LEMMA TableFacts ==
  ASSUME NEW e \in DOMAIN Examples
  PROVE  /\ Examples[e] \in ExampleType
         /\ Examples[e].servers \in Seq(Ports) /\ Len(Examples[e].servers) \in Nat
         /\ DOMAIN Examples[e].servers = 1..Len(Examples[e].servers)
         /\ Len(Examples[e].servers) >= 1
         /\ Examples[e].steps \in Seq(StepType) /\ ProbeRow(e) \in Nat /\ ProbeRow(e) >= 1
         /\ DOMAIN Examples[e].steps = 1..(ProbeRow(e) - 1)
         /\ LastRow(e) = IF Examples[e].negative THEN ProbeRow(e) ELSE ProbeRow(e) - 1
<1>1. Examples[e] \in ExampleType
  BY SmokeConstants
<1>2. /\ Examples[e].servers \in Seq(Ports) /\ Len(Examples[e].servers) > 0
      /\ Examples[e].steps \in Seq(StepType)
  BY <1>1 DEF ExampleType
<1>3. QED
  BY <1>1, <1>2 DEF ProbeRow, LastRow

LEMMA MainFacts ==
  ASSUME NEW e \in DOMAIN Examples
  PROVE  Main(e) \in Ports /\ Main(e) = Examples[e].servers[Len(Examples[e].servers)]
BY TableFacts DEF Main

LEMMA Indices ==
  /\ Len(Examples) \in Nat /\ DOMAIN Examples = 1..Len(Examples)
  /\ MaxRuns \in Nat /\ Runs = 1..MaxRuns /\ Client \notin Ports
BY SmokeConstants DEF Runs

(* Where the runner is in an example, what it looks at is there.           *)
LEMMA InExampleFacts ==
  ASSUME TypeOK, InExample
  PROVE  /\ ex \in DOMAIN Examples /\ Example \in ExampleType /\ run \in Runs
         /\ Main(ex) \in Ports /\ ProbeRow(ex) \in Nat /\ step \in 1..ProbeRow(ex)
         /\ pc = "client" => Step \in StepType
         /\ pc \in {"spawn", "wait", "moment", "stopFailed", "stopping"} => Port \in Ports
<1>1. ex \in DOMAIN Examples /\ run \in Runs /\ step \in 1..ProbeRow(ex)
  BY DEF TypeOK
<1>2. Example \in ExampleType /\ Main(ex) \in Ports /\ ProbeRow(ex) \in Nat
  BY <1>1, TableFacts, MainFacts DEF Example
<1>3. pc = "client" => Step \in StepType
  BY <1>1, TableFacts DEF Step, Example, TypeOK
<1>4. pc \in {"spawn", "wait", "moment", "stopFailed", "stopping"} => Port \in Ports
  BY <1>1, TableFacts DEF Port, Example, TypeOK
<1>5. QED
  BY <1>1, <1>2, <1>3, <1>4

LEMMA ListenerFacts ==
  ASSUME TypeOK, NEW p \in Ports
  PROVE  /\ Listener(p) \in Runs \cup {Nobody}
         /\ Listening(p) => Listener(p) \in Runs /\ Holds(Listener(p), p)
         /\ Answering(p) => Listening(p)
BY DEF Listener, Listening, Answering, Holds

LEMMA RowFacts ==
  ASSUME TypeOK, ex \in DOMAIN Examples, NEW s \in Int, NEW result \in {"pass", "fail", "skip", "missing"}
  PROVE  /\ Row(s, result) \in RowType
         /\ Row(s, result).ex = ex /\ Row(s, result).step = s
         /\ Row(s, result).status = result /\ Row(s, result).by = Listener(Main(ex))
BY MainFacts, ListenerFacts DEF Row, RowType

(***************************************************************************)
(* The processes, whatever the runner does                                 *)
(***************************************************************************)
Environment ==
  \/ Clients \/ BrowserCloses
  \/ \E r \in Runs, p \in Ports : Bind(r, p) \/ BootFails(r, p) \/ Crash(r, p) \/ ServerHangs(r, p)
  \/ \E r \in Runs, p \in Ports \cup {Client} : Terminated(r, p)
  \/ \E r \in Runs : OrphanEnds(r)

StatusType == [Runs -> [Ports \cup {Client} -> {"none", "booting", "up", "hung", "stuck", "gone"}]]

(* A process comes to life by the runner alone, and a server that is up or *)
(* gone does not start again by itself.                                    *)
LEMMA ProcessesDecay ==
  ASSUME TypeOK, Environment
  PROVE  /\ status' \in StatusType
         /\ \A r \in Runs, p \in Ports \cup {Client} : Alive(r, p)' => Alive(r, p)
         /\ \A r \in Runs, p \in Ports :
              /\ status[r][p] \in {"stuck", "gone"} => status'[r][p] \in {status[r][p], "gone"}
              /\ status[r][p] = "up" => status'[r][p] \in {"up", "stuck", "gone"}
<1>1. ASSUME NEW r \in Runs, NEW p \in Ports \cup {Client},
             NEW st \in {"none", "booting", "up", "hung", "stuck", "gone"},
             status' = [status EXCEPT ![r][p] = st], 
             Alive(r, p) \/ st \notin {"booting", "up", "hung", "stuck"},
             p \in Ports => \/ status[r][p] = "booting" /\ st # "stuck"
                            \/ status[r][p] = "up" /\ st = "stuck"
                            \/ st = "gone"
      PROVE  /\ status' \in StatusType
             /\ \A q \in Runs, o \in Ports \cup {Client} : Alive(q, o)' => Alive(q, o)
             /\ \A q \in Runs, o \in Ports :
                  /\ status[q][o] \in {"stuck", "gone"} => status'[q][o] \in {status[q][o], "gone"}
                  /\ status[q][o] = "up" => status'[q][o] \in {"up", "stuck", "gone"}
  <2>1. status \in StatusType
    BY DEF TypeOK, StatusType
  <2>2. status' \in StatusType
    BY <1>1, <2>1 DEF StatusType
  <2>3. \A q \in Runs, o \in Ports \cup {Client} :
          status'[q][o] = IF q = r /\ o = p THEN st ELSE status[q][o]
    BY <1>1, <2>1 DEF StatusType
  <2>4. \A q \in Runs, o \in Ports \cup {Client} : Alive(q, o)' => Alive(q, o)
    BY <1>1, <2>3 DEF Alive
  <2>5. \A q \in Runs, o \in Ports :
          /\ status[q][o] \in {"stuck", "gone"} => status'[q][o] \in {status[q][o], "gone"}
          /\ status[q][o] = "up" => status'[q][o] \in {"up", "stuck", "gone"}
    BY <1>1, <2>3
  <2>6. QED
    BY <2>2, <2>4, <2>5
<1>2. CASE UNCHANGED status
  BY <1>2 DEF StatusType, Alive, TypeOK
<1>3. CASE Clients
  <2>1. pc = "client" /\ run \in Runs /\ Client \in Ports \cup {Client}
    BY <1>3 DEF Clients, StaticClient, StoredToken, RevokedToken, OpenBrowser, LoggedIn, LoginHangs,
         LogoutClient, RevokeClient, ClientErrs, ClientHangs, NeedsLogin, Reached, Running, TypeOK, InExample
  <2>2. Alive(run, Client)
    BY <1>3 DEF Clients, StaticClient, StoredToken, RevokedToken, OpenBrowser, LoggedIn, LoginHangs,
         LogoutClient, RevokeClient, ClientErrs, ClientHangs, NeedsLogin, Reached, Running, Alive
  <2>3. \/ UNCHANGED status \/ status' = [status EXCEPT ![run][Client] = "gone"]
        \/ status' = [status EXCEPT ![run][Client] = "hung"]
    BY <1>3 DEF Clients, StaticClient, StoredToken, RevokedToken, OpenBrowser, LoggedIn, LoginHangs,
         LogoutClient, RevokeClient, ClientErrs, ClientHangs, ClientExits, Exits, processes
  <2>4. QED
    BY <1>1, <1>2, <2>1, <2>2, <2>3, Indices
<1>4. CASE BrowserCloses
  BY <1>2, <1>4 DEF BrowserCloses, processes
<1>5. ASSUME NEW r \in Runs, NEW p \in Ports,
             Bind(r, p) \/ BootFails(r, p) \/ Crash(r, p) \/ ServerHangs(r, p)
      PROVE  \E st \in {"up", "hung", "stuck", "gone"} :
               /\ status' = [status EXCEPT ![r][p] = st] /\ Alive(r, p)
               /\ \/ status[r][p] = "booting" /\ st # "stuck"
                  \/ status[r][p] = "up" /\ st = "stuck"
                  \/ st = "gone"
  BY <1>5 DEF Bind, BootFails, Crash, ServerHangs, ServerHangs, Holds, Becomes, Alive
<1>6. ASSUME NEW r \in Runs, NEW p \in Ports \cup {Client}, Terminated(r, p)
      PROVE  status' = [status EXCEPT ![r][p] = "gone"] /\ Alive(r, p)
  BY <1>6 DEF Terminated
<1>7. ASSUME NEW r \in Runs, OrphanEnds(r)
      PROVE  status' = [status EXCEPT ![r][Client] = "gone"] /\ Alive(r, Client)
  BY <1>7 DEF OrphanEnds, Becomes
<1>8. QED
  BY <1>1, <1>3, <1>4, <1>5, <1>6, <1>7 DEF Environment

(***************************************************************************)
(* Types                                                                   *)
(***************************************************************************)
Placed ==
  /\ run \in Runs \cup {0} /\ keep \in BOOLEAN /\ keycloakUp \in BOOLEAN
  /\ pc \in Phases /\ ex \in 1..(Len(Examples) + 1)
  /\ InExample => ex \in DOMAIN Examples /\ Fate(ex) = "run" /\ run \in Runs
  /\ InExample => servers \in 0..Len(Example.servers) /\ step \in 1..ProbeRow(ex)
  /\ pc \in {"spawn", "wait", "moment", "stopFailed", "stopping"} => srv \in DOMAIN Example.servers
  /\ pc = "client" => step \in DOMAIN Example.steps
  /\ rows \subseteq RowType
  /\ exit \in {NoCode, 0, 1, 2, Interrupted}

Typed ==
  /\ status \in StatusType
  /\ signal \in [Runs -> [Ports \cup {Client} -> {"none", "term", "kill"}]]
  /\ browser \in {"none", "running", "closed"} /\ code \in {NoCode, 0, 1}
  /\ store \in [Stores -> {NoToken} \cup TokenType]
  /\ faults \in 0..MaxFaults /\ dirty \in BOOLEAN

LEMMA TypeParts == TypeOK <=> Placed /\ Typed
BY DEF TypeOK, Placed, Typed, StatusType, StoreType

LEMMA PlacedFrame ==
  ASSUME Placed, UNCHANGED <<invocation, runner>>
  PROVE  Placed'
<1>1. UNCHANGED <<run, keep, keycloakUp, selected, pc, ex, srv, step, servers, rows, exit>>
  BY DEF invocation, runner
<1>2. Fate(ex)' = Fate(ex) /\ InExample' = InExample /\ Example' = Example /\ ProbeRow(ex)' = ProbeRow(ex)
  BY <1>1 DEF Fate, InExample, Example, ProbeRow
<1>3. QED
  BY <1>1, <1>2 DEF Placed

(* An action of the runner within an example.                              *)
LEMMA PlacedWithin ==
  ASSUME Placed, InExample, UNCHANGED <<invocation, ex>>, pc' \in Phases, InExample',
         servers' \in 0..Len(Example.servers), step' \in 1..ProbeRow(ex),
         pc' \in {"spawn", "wait", "moment", "stopFailed", "stopping"} => srv' \in DOMAIN Example.servers,
         pc' = "client" => step' \in DOMAIN Example.steps,
         rows' \subseteq RowType, exit' = exit
  PROVE  Placed'
<1>1. UNCHANGED <<run, keep, keycloakUp, selected, ex>>
  BY DEF invocation
<1>2. Fate(ex)' = Fate(ex) /\ Example' = Example /\ ProbeRow(ex)' = ProbeRow(ex)
  BY <1>1 DEF Fate, Example, ProbeRow
<1>3. QED
  BY <1>1, <1>2 DEF Placed

(* ... and one that leaves it.                                             *)
LEMMA PlacedOutside ==
  ASSUME Placed, UNCHANGED invocation, pc' \in {"next", "report", "exited"},
         ex' \in 1..(Len(Examples) + 1), rows' \subseteq RowType,
         exit' \in {NoCode, 0, 1, 2, Interrupted}
  PROVE  Placed'
BY DEF Placed, invocation, InExample, Phases

LEMMA PlacedStep ==
  ASSUME TypeOK, InOrder, Next
  PROVE  Placed'
<1> USE TypeParts, Indices
<1>0. Placed
  OBVIOUS
<1>1. CASE Invoke
  <2>1. run' \in Runs /\ keep' \in BOOLEAN /\ keycloakUp' \in BOOLEAN /\ pc' \in {"next", "exited"}
        /\ ex' = 1 /\ rows' = {} /\ exit' \in {NoCode, 1, 2}
    <3>1. run' \in Runs
      BY <1>1 DEF Invoke, Placed
    <3>2. keep' \in BOOLEAN
      BY <1>1, SmokeConstants DEF Invoke
    <3>3. QED
      BY <1>1, <3>1, <3>2 DEF Invoke
  <2>2. QED
    BY <2>1 DEF Placed, InExample, Phases
<1>2. CASE Interrupt
  BY <1>2, PlacedOutside DEF Interrupt, Placed
<1>3. CASE Environment
  <2>1. UNCHANGED <<invocation, runner>>
    BY <1>3 DEF Environment, Clients, StaticClient, StoredToken, RevokedToken, OpenBrowser, LoggedIn,
         LoginHangs, LogoutClient, RevokeClient, ClientErrs, ClientHangs, ClientExits, Exits,
         BrowserCloses, Bind, BootFails, Crash, ServerHangs, Becomes, Terminated, OrphanEnds
  <2>2. QED
    BY <2>1, PlacedFrame
<1>4. CASE PassOver
  <2>1. ex \in DOMAIN Examples /\ Fate(ex) \in {"unselected", "missing", "skip"}
    BY <1>4 DEF PassOver, Fate
  <2>2. rows' \subseteq RowType
    BY <1>4, <2>1, RowFacts DEF PassOver, Noted, NoStep, Placed
  <2>3. QED
    BY <1>4, <2>1, <2>2, PlacedOutside DEF PassOver, Placed
<1>5. CASE Begin
  <2>1. ex \in DOMAIN Examples /\ Fate(ex)' = "run" /\ run \in Runs /\ Example' = Examples[ex]
    BY <1>5 DEF Begin, Fate, invocation, InOrder, Example
  <2>2. Len(Example.servers) \in Nat /\ 1 \in DOMAIN Example.servers /\ ProbeRow(ex)' = ProbeRow(ex)
        /\ 1 \in 1..ProbeRow(ex)
    BY <1>5, <2>1, TableFacts DEF Begin, Example, ProbeRow
  <2>3. QED
    BY <1>5, <2>1, <2>2 DEF Begin, Placed, invocation, InExample, Phases, Example
<1>6. ASSUME InExample, UNCHANGED <<invocation, ex, servers, step, exit>>, pc' \in Phases, InExample',
             pc' \in {"spawn", "wait", "moment", "stopFailed", "stopping"} => srv' \in DOMAIN Example.servers,
             pc' = "client" => step \in DOMAIN Example.steps,
             rows' \subseteq RowType
      PROVE  Placed'
  BY <1>6, PlacedWithin DEF Placed
<1>7. CASE SetUp
  <2>1. 1 \in DOMAIN Example.servers /\ srv = 1
    BY <1>7, TableFacts DEF SetUp, Placed, InExample, InOrder, Example
  <2>2. QED
    BY <1>6, <1>7, <2>1 DEF SetUp, Placed, InExample, Phases
<1>8. CASE SetUpFails \/ SpawnFails
  BY <1>8, PlacedOutside DEF SetUpFails, SpawnFails, Throw, Placed
<1>9. CASE Spawn
  BY <1>6, <1>9 DEF Spawn, Placed, InExample, Phases
<1>10. ASSUME pc \in {"wait", "moment"}, Pushed
       PROVE  Placed'
  <2>1. ex \in DOMAIN Examples /\ InExample /\ InExample' /\ pc' \in Phases /\ pc' # "client"
    BY <1>10 DEF Pushed, Placed, InExample, Phases
  <2>2. rows' \subseteq RowType
    BY <1>10, <2>1, RowFacts DEF Pushed, StartRow, Placed
  <2>3. srv \in 1..Len(Example.servers) /\ Len(Example.servers) \in Nat
        /\ DOMAIN Example.servers = 1..Len(Example.servers)
    BY <1>10, <2>1, TableFacts DEF Example, Placed
  <2>4. servers' \in 0..Len(Example.servers) /\ step' \in 1..ProbeRow(ex)
        /\ (pc' \in {"spawn", "wait", "moment", "stopFailed", "stopping"} => srv' \in DOMAIN Example.servers)
    BY <1>10, <2>1, <2>3 DEF Pushed, Placed
  <2>5. QED
    BY <1>10, <2>1, <2>2, <2>4, PlacedWithin DEF Pushed
<1>11. ASSUME pc \in {"wait", "stopFailed"}, StartFailed
       PROVE  Placed'
  <2>1. ex \in DOMAIN Examples
    BY <1>11 DEF Placed, InExample
  <2>2. rows' \subseteq RowType
    BY <1>11, <2>1, RowFacts DEF StartFailed, StartRow, Placed
  <2>3. QED
    BY <1>6, <1>11, <2>2 DEF StartFailed, InExample, Phases
<1>12. CASE WaitTimesOut
  BY <1>6, <1>12 DEF WaitTimesOut, Placed, InExample, Phases
<1>13. CASE StartClient
  BY <1>6, <1>13 DEF StartClient, Placed, InExample, Phases
<1>14. CASE ClientTimer \/ KillTimer
  BY <1>14, PlacedFrame DEF ClientTimer, KillTimer
<1>15. CASE StepDone
  <2>1. ex \in DOMAIN Examples /\ InExample /\ step \in 1..(ProbeRow(ex) - 1) /\ ProbeRow(ex) \in Nat
    BY <1>15, TableFacts DEF StepDone, Placed, InExample, Example
  <2>2. rows' \subseteq RowType
    BY <1>15, <2>1, RowFacts DEF StepDone, Placed
  <2>3. QED
    BY <1>15, <2>1, <2>2, PlacedWithin DEF StepDone, Placed, InExample, Phases
<1>16. ASSUME NEW result \in {"pass", "fail"}, pc = "steps", Probed(result)
       PROVE  Placed'
  <2>1. ex \in DOMAIN Examples /\ ProbeRow(ex) \in Int
    BY <1>16, TableFacts DEF Placed, InExample
  <2>2. rows' \subseteq RowType
    BY <1>16, <2>1, RowFacts DEF Probed, Placed
  <2>3. QED
    BY <1>6, <1>16, <2>2 DEF Probed, InExample, Phases
<1>17. CASE NoProbe
  BY <1>6, <1>17 DEF NoProbe, StepsDone, Placed, InExample, Phases
<1>18. CASE StopServer
  <2>1. InExample /\ ex \in DOMAIN Examples /\ servers <= Len(Example.servers) /\ srv >= 1 /\ srv <= servers
        /\ srv \in Int /\ servers \in Int
    BY <1>18 DEF StopServer, Placed, InExample, InOrder
  <2>2. Len(Example.servers) \in Nat /\ DOMAIN Example.servers = 1..Len(Example.servers)
    BY <2>1, TableFacts DEF Example
  <2>3. QED
    BY <1>6, <1>18, <2>1, <2>2 DEF StopServer, Placed, InExample, Phases
<1>19. CASE ServerStopped
  BY <1>6, <1>19 DEF ServerStopped, Placed, InExample, Phases
<1>20. CASE NextExample
  BY <1>20, PlacedOutside DEF NextExample, Placed, InExample
<1>21. CASE LoopDone
  BY <1>21, PlacedOutside DEF LoopDone, Placed
<1>22. CASE Report
  BY <1>22, PlacedOutside DEF Report, ExitCode, Placed
<1>23. CASE Ready \/ MomentOver
  BY <1>10, <1>23 DEF Ready, MomentOver
<1>24. CASE EarlyExit \/ StopFailed
  BY <1>11, <1>24 DEF EarlyExit, StopFailed
<1>25. CASE ProbePasses \/ ProbeFails
  BY <1>16, <1>25 DEF ProbePasses, ProbeFails, StepsDone
<1>26. Invoke \/ Interrupt \/ SetUp \/ Runner \/ Environment
  BY DEF Next, Environment
<1>27. QED
  BY <1>1, <1>2, <1>3, <1>4, <1>5, <1>7, <1>8, <1>9, <1>12, <1>13, <1>14, <1>15, <1>17, <1>18, <1>19,
     <1>20, <1>21, <1>22, <1>23, <1>24, <1>25, <1>26 DEF Runner

LEMMA StatusStep ==
  ASSUME TypeOK, InOrder, Next
  PROVE  status' \in StatusType
<1> USE TypeParts, Indices
<1>1. CASE Environment
  BY <1>1, ProcessesDecay
<1>2. ASSUME NEW r \in Runs, NEW p \in Ports \cup {Client}, NEW st \in {"booting", "up"},
             status' = [status EXCEPT ![r][p] = st]
      PROVE  status' \in StatusType
  BY <1>2 DEF Typed, StatusType
<1>3. CASE Spawn
  <2>1. run \in Runs /\ Port \in Ports
    BY <1>3, InExampleFacts DEF Spawn, InExample
  <2>2. QED
    BY <1>2, <1>3, <2>1 DEF Spawn
<1>4. CASE StartClient
  <2>1. run \in Runs
    BY <1>4, InExampleFacts DEF StartClient, InExample
  <2>2. QED
    BY <1>2, <1>4, <2>1 DEF StartClient
<1>5. CASE UNCHANGED status
  BY <1>5 DEF Typed
<1>6. CASE Invoke \/ Interrupt \/ SetUp
  BY <1>5, <1>6 DEF Invoke, Interrupt, SetUp, processes
<1>7. CASE Runner /\ ~Spawn /\ ~StartClient
  BY <1>5, <1>7 DEF Runner, PassOver, Begin, SetUpFails, SpawnFails, Throw, Ready, MomentOver, Pushed,
       EarlyExit, WaitTimesOut, StopFailed, StartFailed, ClientTimer, StepDone, ProbePasses, ProbeFails,
       Probed, NoProbe, StopServer, ServerStopped, NextExample, LoopDone, Report, KillTimer, processes
<1>8. QED
  BY <1>1, <1>3, <1>4, <1>6, <1>7 DEF Next, Environment

SignalType == [Runs -> [Ports \cup {Client} -> {"none", "term", "kill"}]]

LEMMA SignalStep ==
  ASSUME TypeOK, InOrder, Next
  PROVE  signal' \in SignalType
<1> USE TypeParts, Indices
<1>1. ASSUME NEW r \in Runs, NEW p \in Ports \cup {Client}, NEW sig \in {"none", "term", "kill"},
             signal' = [signal EXCEPT ![r][p] = sig]
      PROVE  signal' \in SignalType
  BY <1>1 DEF Typed, SignalType
<1>2. CASE UNCHANGED signal
  BY <1>2 DEF Typed, SignalType
<1>3. InExample => run \in Runs
  BY InExampleFacts
<1>4. pc \in {"spawn", "wait", "stopFailed", "stopping"} => Port \in Ports
  BY InExampleFacts DEF InExample
<1>5. CASE Clients
  <2>1. pc = "client"
    BY <1>5 DEF Clients, StaticClient, StoredToken, RevokedToken, OpenBrowser, LoggedIn, LoginHangs,
         LogoutClient, RevokeClient, ClientErrs, ClientHangs, NeedsLogin, Reached, Running
  <2>2. UNCHANGED signal \/ signal' = [signal EXCEPT ![run][Client] = "none"]
    BY <1>5 DEF Clients, StaticClient, StoredToken, RevokedToken, OpenBrowser, LoggedIn, LoginHangs,
         LogoutClient, RevokeClient, ClientErrs, ClientHangs, ClientExits, Exits, processes
  <2>3. QED
    BY <1>1, <1>2, <1>3, <2>1, <2>2 DEF InExample
<1>6. CASE Environment /\ ~Clients
  BY <1>1, <1>2, <1>6 DEF Environment, BrowserCloses, Bind, BootFails, Crash, ServerHangs, Becomes, Terminated,
       OrphanEnds, processes
<1>7. CASE Spawn \/ WaitTimesOut
  BY <1>1, <1>3, <1>4, <1>7 DEF Spawn, WaitTimesOut, InExample
<1>8. CASE KillTimer
  BY <1>1, <1>3, <1>4, <1>8 DEF KillTimer, Target, InExample
<1>9. CASE StartClient \/ ClientTimer
  BY <1>1, <1>3, <1>9 DEF StartClient, ClientTimer, InExample
<1>10. CASE StopServer
  <2>1. Port \in Ports /\ run \in Runs
    <3>1. InExample /\ ex \in DOMAIN Examples /\ servers <= Len(Example.servers) /\ srv >= 1 /\ srv <= servers
          /\ srv \in Int /\ servers \in Int
      BY <1>10 DEF StopServer, Placed, InExample, InOrder
    <3>2. QED
      BY <1>3, <3>1, TableFacts DEF Example, Port
  <2>2. QED
    BY <1>1, <1>10, <2>1 DEF StopServer
<1>11. CASE Invoke \/ Interrupt
  BY <1>2, <1>11 DEF Invoke, Interrupt, processes
<1>12. CASE PassOver \/ Begin \/ SetUp \/ SetUpFails \/ SpawnFails \/ Ready \/ MomentOver \/ EarlyExit
            \/ StopFailed \/ StepDone \/ ProbePasses \/ ProbeFails \/ NoProbe \/ ServerStopped
            \/ NextExample \/ LoopDone \/ Report
  BY <1>2, <1>12 DEF PassOver, Begin, SetUp, SetUpFails, SpawnFails, Throw, Ready, MomentOver, Pushed,
       EarlyExit, StopFailed, StartFailed, StepDone, ProbePasses, ProbeFails,
       Probed, NoProbe, ServerStopped, NextExample, LoopDone, Report, processes
<1>13. QED
  BY <1>5, <1>6, <1>7, <1>8, <1>9, <1>10, <1>11, <1>12 DEF Next, Environment, Runner

LEMMA StoreStep ==
  ASSUME TypeOK, InOrder, Next
  PROVE  store' \in [Stores -> {NoToken} \cup TokenType]
<1> USE TypeParts
<1>1. CASE UNCHANGED store
  BY <1>1 DEF Typed
<1>2. ASSUME NEW key \in Stores, NEW u \in Users \cup {NoUser},
             \/ store' = [store EXCEPT ![key] = NoToken]
             \/ store' = [store EXCEPT ![key] = [user |-> u, live |-> TRUE]]
      PROVE  store' \in [Stores -> {NoToken} \cup TokenType]
  <2>1. [user |-> u, live |-> TRUE] \in TokenType
    BY DEF TokenType
  <2>2. QED
    BY <1>2, <2>1 DEF Typed
<1>3. pc = "client" => Step \in StepType
  BY InExampleFacts DEF InExample
<1>4. pc = "client" /\ Step.work \in {"oauth", "logout"} => Step.store \in Stores /\ Step.user \in Users \cup {NoUser}
  BY <1>3 DEF StepType
<1>5. CASE RevokedToken \/ LoggedIn \/ LogoutClient
  BY <1>2, <1>4, <1>5 DEF RevokedToken, LoggedIn, LogoutClient, NeedsLogin, Reached, Running, ClientExits, Exits
<1>6. CASE RevokeClient
  <2>1. store' = [s \in Stores |-> IF store[s] # NoToken /\ store[s].user = Step.user
                                   THEN [store[s] EXCEPT !.live = FALSE] ELSE store[s]]
    BY <1>6 DEF RevokeClient, Revoked, ClientExits, Exits
  <2>2. ASSUME NEW s \in Stores, store[s] # NoToken
        PROVE  [store[s] EXCEPT !.live = FALSE] \in TokenType
    <3>1. store[s] \in TokenType
      BY <2>2 DEF Typed
    <3>2. QED
      BY <3>1 DEF TokenType
  <2>3. QED
    BY <2>1, <2>2 DEF Typed
<1>7. CASE StaticClient \/ StoredToken \/ OpenBrowser \/ LoginHangs \/ ClientErrs \/ ClientHangs
  BY <1>1, <1>7 DEF StaticClient, StoredToken, OpenBrowser, LoginHangs, ClientErrs, ClientHangs, ClientExits, Exits
<1>8. CASE Environment /\ ~Clients
  BY <1>1, <1>8 DEF Environment, BrowserCloses, Bind, BootFails, Crash, ServerHangs, Becomes, Terminated, OrphanEnds
<1>9. CASE Begin
  BY <1>9 DEF Begin
<1>10. CASE Invoke \/ Interrupt \/ SetUp \/ (Runner /\ ~Begin)
  BY <1>1, <1>10 DEF Runner, Invoke, Interrupt, PassOver, SetUp, SetUpFails, Spawn, SpawnFails, Throw, Ready,
       MomentOver, Pushed, EarlyExit, WaitTimesOut, StopFailed, StartFailed, StartClient, ClientTimer, StepDone,
       ProbePasses, ProbeFails, Probed, NoProbe, StopServer, ServerStopped, NextExample, LoopDone, Report, KillTimer
<1>11. QED
  BY <1>5, <1>6, <1>7, <1>8, <1>9, <1>10 DEF Next, Environment, Clients

LEMMA TypeStep ==
  ASSUME TypeOK, InOrder, Next
  PROVE  TypeOK'
<1> USE TypeParts
<1>1. Placed'
  BY PlacedStep
<1>2. status' \in StatusType /\ signal' \in SignalType /\ store' \in [Stores -> {NoToken} \cup TokenType]
  BY StatusStep, SignalStep, StoreStep
<1>3. browser' \in {"none", "running", "closed"}
  BY DEF Typed, Next, Runner, Clients, Invoke, Interrupt, PassOver, Begin, SetUp, SetUpFails, Spawn, SpawnFails, Throw,
       Ready, MomentOver, Pushed, EarlyExit, WaitTimesOut, StopFailed, StartFailed, StartClient, ClientTimer,
       StepDone, ProbePasses, ProbeFails, Probed, NoProbe, StopServer, ServerStopped, NextExample, LoopDone,
       Report, KillTimer, client,
       StaticClient, StoredToken, RevokedToken, OpenBrowser, LoggedIn, LoginHangs, LogoutClient,
       RevokeClient, ClientErrs, ClientHangs, ClientExits, Exits, BrowserCloses, Bind, BootFails, Crash, ServerHangs,
       Becomes, Terminated, OrphanEnds
<1>4. code' \in {NoCode, 0, 1}
  BY DEF Typed, Next, Runner, Clients, Invoke, Interrupt, PassOver, Begin, SetUp, SetUpFails, Spawn, SpawnFails, Throw,
       Ready, MomentOver, Pushed, EarlyExit, WaitTimesOut, StopFailed, StartFailed, StartClient, ClientTimer,
       StepDone, ProbePasses, ProbeFails, Probed, NoProbe, StopServer, ServerStopped, NextExample, LoopDone,
       Report, KillTimer, client,
       StaticClient, StoredToken, RevokedToken, OpenBrowser, LoggedIn, LoginHangs, LogoutClient,
       RevokeClient, ClientErrs, ClientHangs, ClientExits, Exits, BrowserCloses, Bind, BootFails, Crash, ServerHangs,
       Becomes, Terminated, OrphanEnds
<1>5. faults' \in 0..MaxFaults
  <2>1. UNCHANGED faults \/ Fault
    BY DEF Next, Runner, Clients, Invoke, Interrupt, PassOver, Begin, SetUp, SetUpFails, Spawn, SpawnFails, Throw,
       Ready, MomentOver, Pushed, EarlyExit, WaitTimesOut, StopFailed, StartFailed, StartClient, ClientTimer,
       StepDone, ProbePasses, ProbeFails, Probed, NoProbe, StopServer, ServerStopped, NextExample, LoopDone,
       Report, KillTimer, history,
       StaticClient, StoredToken, RevokedToken, OpenBrowser, LoggedIn, LoginHangs, LogoutClient,
       RevokeClient, ClientErrs, ClientHangs, ClientExits, Exits, BrowserCloses, Bind, BootFails, Crash, ServerHangs,
       Becomes, Terminated, OrphanEnds
  <2>2. QED
    BY <2>1, SmokeConstants DEF Typed, Fault
<1>6. dirty' \in BOOLEAN
  <2>1. UNCHANGED dirty \/ Abandon
    BY DEF Next, Runner, Clients, Invoke, Interrupt, PassOver, Begin, SetUp, SetUpFails, Spawn, SpawnFails, Throw,
       Ready, MomentOver, Pushed, EarlyExit, WaitTimesOut, StopFailed, StartFailed, StartClient, ClientTimer,
       StepDone, ProbePasses, ProbeFails, Probed, NoProbe, StopServer, ServerStopped, NextExample, LoopDone,
       Report, KillTimer, history,
       StaticClient, StoredToken, RevokedToken, OpenBrowser, LoggedIn, LoginHangs, LogoutClient,
       RevokeClient, ClientErrs, ClientHangs, ClientExits, Exits, BrowserCloses, Bind, BootFails, Crash, ServerHangs,
       Becomes, Terminated, OrphanEnds
  <2>2. QED
    BY <2>1 DEF Typed, Abandon
<1>7. Typed'
  BY <1>2, <1>3, <1>4, <1>5, <1>6 DEF Typed, SignalType, StatusType
<1>8. QED
  BY <1>1, <1>7, TypeParts DEF TypeOK, Placed, Typed, StatusType, StoreType

(***************************************************************************)
(* The order of things                                                     *)
(***************************************************************************)
LEMMA Unmoved ==
  ASSUME Environment \/ ClientTimer \/ KillTimer
  PROVE  UNCHANGED <<invocation, runner>>
BY DEF Environment, Clients, StaticClient, StoredToken, RevokedToken, OpenBrowser, LoggedIn,
     LoginHangs, LogoutClient, RevokeClient, ClientErrs, ClientHangs, ClientExits, Exits,
     BrowserCloses, Bind, BootFails, Crash, ServerHangs, Becomes, Terminated, OrphanEnds, ClientTimer, KillTimer

LEMMA UnmovedExample ==
  ASSUME UNCHANGED <<invocation, ex>>
  PROVE  /\ \A e \in DOMAIN Examples : Fate(e)' = Fate(e)
         /\ Example' = Example
BY DEF invocation, Fate, Example

(* A row more, or none, for the example the runner is in.                  *)
RowsGrow(s) ==
  \/ rows' = rows
  \/ \E result \in {"pass", "fail", "skip", "missing"} : rows' = rows \cup {Row(s, result)}

LEMMA OrderedRows ==
  ASSUME TypeOK, InOrder, ex \in DOMAIN Examples, NEW s \in Int, RowsGrow(s), NEW row \in rows'
  PROVE  row \in rows \/ (row.ex = ex /\ row.step = s)
BY RowFacts DEF RowsGrow

LEMMA OrderStep ==
  ASSUME TypeOK, InOrder, Next
  PROVE  InOrder'
<1> USE Indices
<1>0. pc \in Phases /\ ex \in 1..(Len(Examples) + 1) /\ rows \subseteq RowType /\ rows' \subseteq RowType
  BY TypeStep DEF TypeOK
<1>1. CASE UNCHANGED <<invocation, runner>>
  <2>1. Example' = Example
    BY <1>1, UnmovedExample DEF runner
  <2>2. QED
    BY <1>1, <2>1 DEF invocation, runner, InOrder
<1>2. CASE Invoke
  BY <1>2 DEF Invoke, InOrder, TypeOK, Before
<1>3. CASE Interrupt \/ SetUpFails \/ SpawnFails
  BY <1>3 DEF Interrupt, SetUpFails, SpawnFails, Throw, InOrder, invocation, Before
<1>4. CASE PassOver
  <2>1. RowsGrow(NoStep) /\ ex \in DOMAIN Examples
    BY <1>4 DEF PassOver, Noted, RowsGrow, Fate
  <2>2. \A row \in rows' : row.ex <= ex
    BY <2>1, OrderedRows DEF InOrder, NoStep
  <2>3. QED
    <3>1. \A row \in rows' : row.ex <= ex + 1 /\ row.ex # ex + 1
      BY <1>0, <2>2 DEF RowType
    <3>2. QED
      BY <1>0, <1>4, <3>1 DEF PassOver, InOrder, invocation, Before
<1>5. CASE Begin
  BY <1>5 DEF Begin, InOrder, invocation, Before
<1>6. CASE SetUp
  BY <1>6 DEF SetUp, InOrder, invocation, Before
<1>7. CASE Spawn \/ WaitTimesOut
  BY <1>7, UnmovedExample DEF Spawn, WaitTimesOut, InOrder, invocation, Before
<1>8. CASE Ready \/ MomentOver
  <2>1. pc \in {"wait", "moment"} /\ Pushed
    BY <1>8 DEF Ready, MomentOver
  <2>2. ex \in DOMAIN Examples /\ RowsGrow(StartRow) /\ Example' = Example
    BY <2>1, UnmovedExample DEF Pushed, RowsGrow, TypeOK, InExample
  <2>3. \A row \in rows' : row \in rows \/ (row.ex = ex /\ row.step = 0)
    BY <2>2, OrderedRows DEF StartRow
  <2>4. Len(Example.servers) \in Nat /\ srv <= Len(Example.servers) /\ srv \in Nat
    BY <2>1, <2>2, TableFacts DEF TypeOK, Example
  <2>5. CASE srv < Len(Example.servers)
    BY <2>1, <2>2, <2>4, <2>5 DEF Pushed, InOrder, invocation, Before
  <2>6. CASE ~(srv < Len(Example.servers))
    <3>1. pc' = "steps" /\ servers' = Len(Example.servers) /\ step' = 1 /\ UNCHANGED <<run, ex, srv>>
      BY <2>1, <2>2, <2>4, <2>6 DEF Pushed, InOrder, invocation, Before
    <3>2. \A row \in rows : row.ex <= ex /\ row.ex # ex
      BY <1>0, <2>1 DEF InOrder, Before, RowType
    <3>3. \A row \in rows' : row.ex <= ex /\ (row.ex = ex => row.step < 1)
      BY <1>0, <2>3, <3>2
    <3>4. QED
      BY <2>1, <2>2, <3>1, <3>3 DEF InOrder, Before
  <2>7. QED
    BY <2>5, <2>6
<1>9. CASE EarlyExit \/ StopFailed
  <2>1. pc \in {"wait", "stopFailed"} /\ StartFailed
    BY <1>9 DEF EarlyExit, StopFailed
  <2>2. ex \in DOMAIN Examples /\ RowsGrow(StartRow)
    BY <2>1 DEF StartFailed, RowsGrow, TypeOK, InExample
  <2>3. \A row \in rows' : row.ex <= ex
    BY <2>2, OrderedRows DEF StartRow, InOrder
  <2>4. QED
    BY <2>1, <2>3 DEF StartFailed, InOrder, invocation, Before
<1>10. CASE StartClient
  BY <1>10, UnmovedExample DEF StartClient, InOrder, invocation, Before
<1>11. CASE StepDone
  <2>1. ex \in DOMAIN Examples /\ RowsGrow(step) /\ Example' = Example /\ step \in Nat
    BY <1>11, UnmovedExample, TableFacts DEF StepDone, RowsGrow, TypeOK, InExample
  <2>2. \A row \in rows' : row \in rows \/ (row.ex = ex /\ row.step = step)
    BY <2>1, OrderedRows
  <2>3. \A row \in rows' : row.ex <= ex /\ (row.ex = ex => row.step < step + 1)
    BY <1>0, <1>11, <2>1, <2>2 DEF StepDone, InOrder, RowType
  <2>4. QED
    BY <1>11, <2>1, <2>3 DEF StepDone, InOrder, invocation, Before
<1>12. CASE ProbePasses \/ ProbeFails
  <2>1. PICK result \in {"pass", "fail"} : pc = "steps" /\ Probed(result)
    BY <1>12 DEF ProbePasses, ProbeFails, StepsDone
  <2>2. ex \in DOMAIN Examples /\ RowsGrow(ProbeRow(ex)) /\ ProbeRow(ex) \in Int
    <3>1. ex \in DOMAIN Examples
      BY <2>1 DEF TypeOK, InExample
    <3>2. RowsGrow(ProbeRow(ex))
      BY <2>1 DEF Probed, RowsGrow
    <3>3. QED
      BY <3>1, <3>2, TableFacts
  <2>3. \A row \in rows' : row.ex <= ex
    BY <2>2, OrderedRows DEF InOrder
  <2>4. QED
    BY <2>1, <2>3 DEF Probed, InOrder, invocation, Before
<1>13. CASE NoProbe \/ StopServer \/ ServerStopped
  BY <1>13 DEF NoProbe, StepsDone, StopServer, ServerStopped, InOrder, invocation, Before
<1>14. CASE NextExample
  BY <1>0, <1>14 DEF NextExample, InOrder, invocation, Before, RowType
<1>15. CASE LoopDone
  BY <1>0, <1>15 DEF LoopDone, InOrder, invocation, Before
<1>16. CASE Report
  BY <1>16 DEF Report, InOrder, invocation, Before
<1>17. QED
  BY <1>1, <1>2, <1>3, <1>4, <1>5, <1>6, <1>7, <1>8, <1>9, <1>10, <1>11, <1>12, <1>13, <1>14, <1>15,
     <1>16, Unmoved DEF Next, Runner, Environment

(* Once something was left behind, it is never forgotten.                  *)
LEMMA CleanBefore ==
  ASSUME TypeOK, Next, ~dirty'
  PROVE  ~dirty
<1>1. UNCHANGED dirty \/ Abandon
  BY DEF Next, Runner, Clients, Invoke, Interrupt, PassOver, Begin, SetUp, SetUpFails, Spawn, SpawnFails, Throw,
     Ready, MomentOver, Pushed, EarlyExit, WaitTimesOut, StopFailed, StartFailed, StartClient, ClientTimer,
     StepDone, ProbePasses, ProbeFails, Probed, NoProbe, StopServer, ServerStopped, NextExample, LoopDone,
     Report, KillTimer, history,
     StaticClient, StoredToken, RevokedToken, OpenBrowser, LoggedIn, LoginHangs, LogoutClient,
     RevokeClient, ClientErrs, ClientHangs, ClientExits, Exits, BrowserCloses, Bind, BootFails, Crash, ServerHangs,
     Becomes, Terminated, OrphanEnds
<1>2. QED
  BY <1>1 DEF Abandon, TypeOK

(***************************************************************************)
(* What is alive is supervised                                             *)
(***************************************************************************)
LEMMA NoneAlive ==
  ASSUME OnlySupervised, ~dirty,
         \/ pc \in {"idle", "next", "setup", "report", "exited"}
         \/ pc = "stop" /\ servers < srv /\ srv \in Nat /\ servers \in Nat
              /\ DOMAIN Example.servers \subseteq Nat
  PROVE  \A r \in Runs, p \in Ports \cup {Client} : ~Alive(r, p)
<1> SUFFICES ASSUME NEW r \in Runs, NEW p \in Ports \cup {Client}, Alive(r, p)
             PROVE  FALSE
  OBVIOUS
<1>1. InExample /\ IF p = Client THEN pc = "client"
                   ELSE \E i \in DOMAIN Example.servers : Supervised(i) /\ p = Example.servers[i]
  BY DEF OnlySupervised
<1>2. QED
  BY <1>1 DEF InExample, Supervised

(* To the runner's own processes: nobody is left who was not supervised.   *)
LEMMA StaysSupervised ==
  ASSUME OnlySupervised, ~dirty, UNCHANGED <<invocation, ex>>, InExample',
         \A r \in Runs, p \in Ports \cup {Client} : Alive(r, p)' => Alive(r, p),
         pc = "client" => pc' = "client" \/ ~Alive(run, Client),
         \A i \in DOMAIN Example.servers :
           Supervised(i) => Supervised(i)' \/ ~Alive(run, Example.servers[i])
  PROVE  OnlySupervised'
<1>1. run' = run /\ Example' = Example
  BY UnmovedExample DEF invocation
<1> SUFFICES ASSUME NEW r \in Runs, NEW p \in Ports \cup {Client}, Alive(r, p)'
             PROVE  r = run /\ IF p = Client THEN pc' = "client"
                    ELSE \E i \in DOMAIN Example.servers : Supervised(i)' /\ p = Example.servers[i]
  BY <1>1 DEF OnlySupervised
<1>2. r = run /\ IF p = Client THEN pc = "client"
                 ELSE \E i \in DOMAIN Example.servers : Supervised(i) /\ p = Example.servers[i]
  BY DEF OnlySupervised
<1>3. Alive(r, p)
  OBVIOUS
<1>4. CASE p = Client
  BY <1>2, <1>3, <1>4
<1>5. CASE p # Client
  BY <1>2, <1>3, <1>5
<1>6. QED
  BY <1>2, <1>4, <1>5

LEMMA SupervisedStep ==
  ASSUME TypeOK, InOrder, OnlySupervised, Next
  PROVE  OnlySupervised'
<1> USE Indices
<1> SUFFICES ASSUME ~dirty'
             PROVE  OnlySupervised'
  BY DEF OnlySupervised
<1>1. ~dirty
  BY CleanBefore
<1>2. pc \in Phases /\ status \in StatusType
  BY DEF TypeOK, StatusType
<1>3. ASSUME UNCHANGED status, \A r \in Runs, p \in Ports \cup {Client} : ~Alive(r, p)
      PROVE  OnlySupervised'
  BY <1>3 DEF OnlySupervised, Alive
<1>4. UNCHANGED status => \A r \in Runs, p \in Ports \cup {Client} : Alive(r, p)' <=> Alive(r, p)
  BY DEF Alive
<1>5. InExample => /\ ex \in DOMAIN Examples /\ servers \in 0..Len(Example.servers) /\ run \in Runs
                   /\ DOMAIN Example.servers = 1..Len(Example.servers) /\ Len(Example.servers) \in Nat
  BY InExampleFacts, TableFacts DEF Example, TypeOK
<1>6. srv \in Nat \ {0}
  BY DEF InOrder
<1>7. CASE Environment \/ ClientTimer \/ KillTimer
  <2>1. UNCHANGED <<invocation, runner>>
    BY <1>7, Unmoved
  <2>2. \A r \in Runs, p \in Ports \cup {Client} : Alive(r, p)' => Alive(r, p)
    BY <1>4, <1>7, ProcessesDecay DEF ClientTimer, KillTimer
  <2>3. UNCHANGED <<run, pc, ex, srv, servers, Example>> /\ InExample' = InExample
    BY <2>1, UnmovedExample DEF invocation, runner, InExample
  <2>4. \A i \in DOMAIN Example.servers : Supervised(i)' = Supervised(i)
    BY <2>3 DEF Supervised
  <2>5. CASE InExample
    BY <1>1, <2>1, <2>2, <2>3, <2>4, <2>5, StaysSupervised DEF runner
  <2>6. CASE ~InExample
    BY <1>1, <1>2, <2>2, <2>6, NoneAlive DEF InExample, OnlySupervised
  <2>7. QED
    BY <2>5, <2>6
<1>8. CASE Invoke \/ PassOver \/ Begin \/ SetUp \/ LoopDone \/ Report
  BY <1>1, <1>3, <1>8, NoneAlive DEF Invoke, PassOver, Begin, SetUp, LoopDone, Report, processes
<1>9. CASE Interrupt \/ SetUpFails \/ SpawnFails
  <2>1. UNCHANGED status /\ ~AnyAlive
    BY <1>9 DEF Interrupt, SetUpFails, SpawnFails, Throw, Abandon, TypeOK, processes
  <2>2. QED
    BY <1>3, <2>1 DEF AnyAlive
<1>10. CASE Spawn
  <2>1. InExample /\ Port \in Ports /\ run \in Runs /\ srv \in DOMAIN Example.servers /\ servers = srv - 1
    BY <1>10, InExampleFacts DEF Spawn, InExample, TypeOK, InOrder, Before
  <2>2. run' = run /\ Example' = Example /\ InExample' /\ pc' \in {"wait", "moment"} /\ UNCHANGED <<srv, servers>>
    BY <1>10, UnmovedExample DEF Spawn, invocation, InExample
  <2>3. ASSUME NEW r \in Runs, NEW p \in Ports \cup {Client}, Alive(r, p)'
        PROVE  (r = run /\ p = Port) \/ Alive(r, p)
    BY <1>2, <1>10, <2>1, <2>3 DEF Spawn, Alive, StatusType
  <2>4. ASSUME NEW r \in Runs, NEW p \in Ports \cup {Client}, Alive(r, p)'
        PROVE  r = run /\ p # Client /\ \E i \in DOMAIN Example.servers : Supervised(i)' /\ p = Example.servers[i]
    <3>1. CASE r = run /\ p = Port
      BY <2>1, <2>2, <3>1, <1>5, Indices DEF Supervised, Port
    <3>2. CASE Alive(r, p)
      <4>1. r = run /\ p # Client
        BY <1>1, <1>10, <3>2 DEF OnlySupervised, Spawn
      <4>2. PICK i \in DOMAIN Example.servers : Supervised(i) /\ p = Example.servers[i]
        BY <1>1, <3>2, <4>1 DEF OnlySupervised
      <4>3. Supervised(i)'
        BY <1>5, <1>6, <1>10, <2>1, <2>2, <4>2 DEF Supervised, Spawn
      <4>4. QED
        BY <4>1, <4>2, <4>3
    <3>3. QED
      BY <2>3, <2>4, <3>1, <3>2
  <2>5. QED
    BY <2>2, <2>4 DEF OnlySupervised
<1>11. CASE StartClient
  <2>1. InExample /\ run \in Runs
    BY <1>11, InExampleFacts DEF StartClient, InExample
  <2>2. run' = run /\ Example' = Example /\ InExample' /\ pc' = "client" /\ UNCHANGED servers
    BY <1>11, UnmovedExample DEF StartClient, invocation, InExample
  <2>3. ASSUME NEW r \in Runs, NEW p \in Ports \cup {Client}, Alive(r, p)'
        PROVE  (r = run /\ p = Client) \/ Alive(r, p)
    BY <1>2, <1>11, <2>1, <2>3 DEF StartClient, Alive, StatusType
  <2>4. \A i \in DOMAIN Example.servers : Supervised(i) => Supervised(i)'
    BY <1>11, <2>2 DEF Supervised, StartClient
  <2>5. QED
    BY <1>1, <2>2, <2>3, <2>4 DEF OnlySupervised
<1>12. CASE Ready \/ MomentOver
  <2>1. pc \in {"wait", "moment"} /\ Pushed
    BY <1>12 DEF Ready, MomentOver
  <2>2. InExample /\ InExample' /\ UNCHANGED <<invocation, ex, status>> /\ pc' \in {"spawn", "steps"} /\ servers' = srv
    BY <2>1 DEF Pushed, InExample, processes
  <2>3. \A i \in DOMAIN Example.servers : Supervised(i) => Supervised(i)'
    BY <2>1, <2>2 DEF Supervised
  <2>4. QED
    BY <1>1, <1>4, <2>1, <2>2, <2>3, StaysSupervised
<1>13. CASE EarlyExit \/ StopFailed
  <2>1. pc \in {"wait", "stopFailed"} /\ StartFailed /\ ~Alive(run, Port)
    BY <1>13 DEF EarlyExit, StopFailed
  <2>2. InExample /\ InExample' /\ UNCHANGED <<invocation, ex, status, servers>> /\ pc' = "stop" /\ srv' = 1
        /\ servers = srv - 1
    BY <2>1 DEF StartFailed, InExample, processes, InOrder, Before
  <2>3. \A i \in DOMAIN Example.servers : Supervised(i) => Supervised(i)' \/ ~Alive(run, Example.servers[i])
    BY <1>5, <1>6, <2>1, <2>2 DEF Supervised, Port
  <2>4. QED
    BY <1>1, <1>4, <1>5, <2>1, <2>2, <2>3, StaysSupervised
<1>14. CASE WaitTimesOut \/ StopServer
  <2>1. InExample /\ InExample' /\ UNCHANGED <<invocation, ex, status, servers, srv>>
        /\ \/ pc = "wait" /\ pc' = "stopFailed"
           \/ pc = "stop" /\ pc' = "stopping"
    BY <1>14 DEF WaitTimesOut, StopServer, InExample, processes
  <2>2. \A i \in DOMAIN Example.servers : Supervised(i) => Supervised(i)'
    BY <2>1 DEF Supervised
  <2>3. QED
    BY <1>1, <1>4, <2>1, <2>2, StaysSupervised
<1>15. CASE StepDone
  <2>1. InExample /\ InExample' /\ UNCHANGED <<invocation, ex, status, servers>> /\ pc = "client" /\ pc' = "steps"
        /\ ~Alive(run, Client)
    BY <1>15 DEF StepDone, InExample, processes
  <2>2. \A i \in DOMAIN Example.servers : Supervised(i) => Supervised(i)'
    BY <2>1 DEF Supervised
  <2>3. QED
    BY <1>1, <1>4, <1>5, <2>1, <2>2, StaysSupervised
<1>16. CASE ProbePasses \/ ProbeFails \/ NoProbe
  <2>1. InExample /\ InExample' /\ UNCHANGED <<invocation, ex, status, servers>> /\ pc = "steps" /\ pc' = "stop"
        /\ srv' = 1
    BY <1>16 DEF ProbePasses, ProbeFails, NoProbe, Probed, StepsDone, InExample, processes
  <2>2. \A i \in DOMAIN Example.servers : Supervised(i) => Supervised(i)'
    BY <1>5, <2>1 DEF Supervised
  <2>3. QED
    BY <1>1, <1>4, <2>1, <2>2, StaysSupervised
<1>17. CASE ServerStopped
  <2>1. InExample /\ InExample' /\ UNCHANGED <<invocation, ex, status, servers>> /\ pc \in {"stop", "stopping"}
        /\ pc' = "stop" /\ srv' = srv + 1 /\ ~Alive(run, Port)
    BY <1>17 DEF ServerStopped, InExample, processes
  <2>2. \A i \in DOMAIN Example.servers : Supervised(i) => Supervised(i)' \/ ~Alive(run, Example.servers[i])
    BY <1>5, <1>6, <2>1 DEF Supervised, Port
  <2>3. QED
    BY <1>1, <1>4, <1>5, <2>1, <2>2, StaysSupervised
<1>18. CASE NextExample
  <2>1. CASE keep
    BY <1>3, <1>18, <2>1 DEF NextExample, Abandon, AnyAlive, TypeOK, processes
  <2>2. CASE ~keep
    <3>1. InExample /\ pc = "stop" /\ servers < srv /\ UNCHANGED status
      BY <1>5, <1>6, <1>18, <2>2 DEF NextExample, InExample, processes
    <3>2. QED
      <4>1. \A r \in Runs, p \in Ports \cup {Client} : ~Alive(r, p)
        BY <1>1, <1>5, <1>6, <3>1, NoneAlive
      <4>2. QED
        BY <1>3, <3>1, <4>1
  <2>3. QED
    BY <2>1, <2>2
<1>19. QED
  BY <1>7, <1>8, <1>9, <1>10, <1>11, <1>12, <1>13, <1>14, <1>15, <1>16, <1>17, <1>18
     DEF Next, Runner, Environment

(***************************************************************************)
(* Whose server it is                                                      *)
(***************************************************************************)
LEMMA OwnListener ==
  ASSUME TypeOK, OnlySupervised, ~dirty, NEW p \in Ports, Listening(p)
  PROVE  Listener(p) = run /\ Holds(run, p)
<1>1. Listener(p) \in Runs /\ Holds(Listener(p), p)
  BY ListenerFacts
<1>2. Alive(Listener(p), p)
  BY <1>1 DEF Alive, Holds
<1>3. QED
  BY <1>1, <1>2 DEF OnlySupervised

LEMMA OwnStep ==
  ASSUME TypeOK, InOrder, OnlySupervised, OwnServer, Next
  PROVE  OwnServer'
<1> USE Indices
<1> SUFFICES ASSUME ~dirty', pc' \in {"steps", "client"}, ~Example'.https
             PROVE  /\ status'[run'][Main(ex)'] \in {"up", "stuck", "gone"}
                    /\ status'[run'][Main(ex)'] # "gone" => \A row \in rows' : row.ex = ex' => row.by = run'
  BY DEF OwnServer, Holds
<1>1. ~dirty
  BY CleanBefore
<1>2. pc \in {"steps", "client"} => InExample
  BY DEF InExample
<1>3. CASE Environment \/ ClientTimer \/ KillTimer
  <2>1. UNCHANGED <<invocation, runner>>
    BY <1>3, Unmoved
  <2>2. UNCHANGED <<run, pc, ex, rows, Example>> /\ Main(ex)' = Main(ex)
    BY <2>1, UnmovedExample DEF invocation, runner, Main
  <2>3. InExample /\ run \in Runs /\ Main(ex) \in Ports
    BY <1>2, <2>2, InExampleFacts
  <2>4. /\ status[run][Main(ex)] \in {"up", "stuck", "gone"}
        /\ status[run][Main(ex)] # "gone" => \A row \in rows : row.ex = ex => row.by = run
    BY <1>1, <2>2 DEF OwnServer, Holds
  <2>5. /\ status'[run][Main(ex)] \in {"up", "stuck", "gone"}
        /\ status[run][Main(ex)] = "gone" => status'[run][Main(ex)] = "gone"
    BY <1>3, <2>3, <2>4, ProcessesDecay DEF ClientTimer, KillTimer
  <2>6. QED
    BY <2>2, <2>4, <2>5
<1>4. CASE Ready
  <2>1. InExample /\ ex \in DOMAIN Examples /\ run \in Runs /\ Port \in Ports /\ Listening(Port)
    BY <1>4, InExampleFacts, ListenerFacts DEF Ready, InExample
  <2>2. srv = Len(Example.servers) /\ rows' = rows \cup {Row(StartRow, "pass")}
        /\ UNCHANGED <<run, ex, status>>
    <3>1. Len(Example.servers) \in Nat /\ srv \in 1..Len(Example.servers)
      BY <1>4, <2>1, TableFacts DEF Ready, Example, TypeOK
    <3>2. QED
      BY <1>4, <3>1 DEF Ready, Pushed, invocation, processes
  <2>3. Main(ex) = Port /\ Main(ex)' = Main(ex)
    BY <2>1, <2>2, MainFacts DEF Port, Example, Main
  <2>4. Listener(Main(ex)) = run /\ Holds(run, Main(ex))
    BY <1>1, <2>1, <2>3, OwnListener
  <2>5. Row(StartRow, "pass").by = run
    BY <2>1, <2>4, RowFacts DEF StartRow
  <2>6. \A row \in rows : row.ex # ex
    BY <1>4 DEF Ready, InOrder, Before
  <2>7. QED
    BY <2>2, <2>3, <2>4, <2>5, <2>6 DEF Holds
<1>5. CASE MomentOver
  <2>1. Example.https /\ Example' = Example
    BY <1>5, UnmovedExample DEF MomentOver, Pushed, InOrder
  <2>2. QED
    BY <2>1
<1>6. CASE StartClient
  <2>1. InExample /\ run \in Runs /\ Main(ex) \in Ports /\ status \in StatusType
    BY <1>6, InExampleFacts DEF StartClient, InExample, TypeOK, StatusType
  <2>2. Example' = Example /\ Main(ex)' = Main(ex) /\ UNCHANGED <<run, ex, rows>>
    BY <1>6, UnmovedExample DEF StartClient, Main, invocation
  <2>3. status'[run][Main(ex)] = status[run][Main(ex)]
    BY <1>6, <2>1 DEF StartClient, StatusType
  <2>4. QED
    BY <1>1, <1>6, <2>2, <2>3 DEF OwnServer, Holds, StartClient
<1>7. CASE StepDone
  <2>1. InExample /\ ex \in DOMAIN Examples /\ Main(ex) \in Ports /\ step \in Int
    BY <1>7, InExampleFacts DEF StepDone, InExample
  <2>2. Example' = Example /\ Main(ex)' = Main(ex) /\ UNCHANGED <<run, ex, status>>
    BY <1>7, UnmovedExample DEF StepDone, Main, invocation, processes
  <2>3. PICK result \in {"pass", "fail"} : rows' = rows \cup {Row(step, result)}
    BY <1>7 DEF StepDone
  <2>4. Row(step, result).by = Listener(Main(ex))
    BY <2>1, RowFacts
  <2>5. Holds(run, Main(ex)) => Listener(Main(ex)) = run
    BY <1>1, <2>1, OwnListener, InExampleFacts DEF Listening, Holds
  <2>6. QED
    BY <1>1, <1>7, <2>2, <2>3, <2>4, <2>5 DEF OwnServer, Holds, StepDone
<1>8. QED
  BY <1>3, <1>4, <1>5, <1>6, <1>7
     DEF Next, Runner, Environment, Invoke, Interrupt, PassOver, Begin, SetUp, SetUpFails, Spawn, SpawnFails,
       Throw, EarlyExit, WaitTimesOut, StopFailed, StartFailed, ProbePasses, ProbeFails, Probed, NoProbe,
       StopServer, ServerStopped, NextExample, LoopDone, Report

(* A row of another example does not matter; one of this example matters   *)
(* if its probe has passed.                                                *)
LEMMA RowsVouch ==
  ASSUME TypeOK, InOrder, ProbeVouches, ~dirty, UNCHANGED run,
         NEW x \in DOMAIN Examples, x = ex, NEW s \in Int, RowsGrow(s),
         \/ Examples[x].https
         \/ \A row \in rows' : ~(row.ex = x /\ row.step = ProbeRow(x) /\ row.status = "pass")
         \/ \A row \in rows' : row.ex = x => row.by = run
  PROVE  ProbeVouches'
<1> SUFFICES ASSUME NEW e \in DOMAIN Examples, Examples[e].negative, ~Examples[e].https,
                    NEW r \in rows', r.ex = e /\ r.step = ProbeRow(e) /\ r.status = "pass",
                    NEW row \in rows', row.ex = e
             PROVE  row.by = run
  BY DEF ProbeVouches, ProbeRow, Passed
<1>1. CASE e = x
  BY <1>1
<1>2. CASE e # x
  <2>1. r \in rows /\ row \in rows
    BY <1>2, OrderedRows
  <2>2. QED
    BY <2>1 DEF ProbeVouches, Passed
<1>3. QED
  BY <1>1, <1>2

LEMMA VouchStep ==
  ASSUME TypeOK, InOrder, OnlySupervised, OwnServer, ProbeVouches, Next
  PROVE  ProbeVouches'
<1> USE Indices
<1> SUFFICES ASSUME ~dirty'
             PROVE  ProbeVouches'
  BY DEF ProbeVouches
<1>1. ~dirty
  BY CleanBefore
<1>2. CASE UNCHANGED <<run, rows>>
  BY <1>1, <1>2 DEF ProbeVouches, Passed, ProbeRow
<1>3. CASE Invoke
  BY <1>3 DEF Invoke, ProbeVouches, Passed
<1>4. CASE Environment \/ ClientTimer \/ KillTimer
  BY <1>2, <1>4, Unmoved DEF invocation, runner
<1>5. CASE Interrupt \/ Begin \/ SetUp \/ SetUpFails \/ Spawn \/ SpawnFails \/ WaitTimesOut \/ StartClient
           \/ NoProbe \/ StopServer \/ ServerStopped \/ NextExample \/ LoopDone \/ Report
  BY <1>2, <1>5 DEF Interrupt, Begin, SetUp, SetUpFails, Spawn, SpawnFails, Throw, WaitTimesOut, StartClient,
       NoProbe, StopServer, ServerStopped, NextExample, LoopDone, Report, invocation
<1>6. CASE PassOver
  <2>1. PICK x \in DOMAIN Examples : x = ex
    BY <1>6 DEF PassOver
  <2>2. RowsGrow(NoStep) /\ UNCHANGED run
    BY <1>6 DEF PassOver, Noted, RowsGrow, Fate, invocation
  <2>3. \A row \in rows' : row.ex = x => row.step = NoStep
    BY <1>6, <2>1, <2>2, OrderedRows DEF PassOver, InOrder, NoStep
  <2>4. QED
    BY <1>1, <2>1, <2>2, <2>3, RowsVouch, TableFacts DEF NoStep
<1>7. CASE Ready \/ MomentOver \/ EarlyExit \/ StopFailed
  <2>1. PICK x \in DOMAIN Examples : x = ex
    BY <1>7 DEF Ready, MomentOver, EarlyExit, StopFailed, TypeOK, InExample
  <2>2. RowsGrow(StartRow) /\ UNCHANGED run
    BY <1>7 DEF Ready, MomentOver, EarlyExit, StopFailed, Pushed, StartFailed, RowsGrow, invocation
  <2>3. \A row \in rows' : row.ex = x => row.step = StartRow
    BY <1>7, <2>1, <2>2, OrderedRows DEF Ready, MomentOver, EarlyExit, StopFailed, InOrder, Before, StartRow
  <2>4. QED
    BY <1>1, <2>1, <2>2, <2>3, RowsVouch, TableFacts DEF StartRow
<1>8. CASE StepDone
  <2>1. PICK x \in DOMAIN Examples : x = ex
    BY <1>8 DEF StepDone, TypeOK, InExample
  <2>2. RowsGrow(step) /\ UNCHANGED run /\ step \in Nat /\ ProbeRow(x) \in Nat /\ step < ProbeRow(x)
    BY <1>8, <2>1, TableFacts DEF StepDone, RowsGrow, invocation, TypeOK, InExample, Example
  <2>3. rows' \subseteq RowType
    BY TypeStep DEF TypeOK
  <2>4. \A row \in rows' : row.ex = x => row.step <= step
    BY <1>8, <2>1, <2>2, <2>3, OrderedRows DEF StepDone, InOrder, RowType
  <2>5. QED
    BY <1>1, <2>1, <2>2, <2>4, RowsVouch
<1>9. CASE ProbeFails
  <2>1. PICK x \in DOMAIN Examples : x = ex
    BY <1>9 DEF ProbeFails, StepsDone, TypeOK, InExample
  <2>2. rows' = rows \cup {Row(ProbeRow(x), "fail")} /\ UNCHANGED run /\ ProbeRow(x) \in Nat /\ step = ProbeRow(x)
    BY <1>9, <2>1, TableFacts DEF ProbeFails, StepsDone, Probed, invocation
  <2>3. Row(ProbeRow(x), "fail").status = "fail"
    BY DEF Row
  <2>4. \A row \in rows' : row.ex = x => row.step # ProbeRow(x) \/ row.status = "fail"
    BY <1>9, <2>1, <2>2, <2>3 DEF ProbeFails, StepsDone, InOrder
  <2>5. QED
    BY <1>1, <2>1, <2>2, <2>4, RowsVouch DEF RowsGrow
<1>10. CASE ProbePasses
  <2>1. PICK x \in DOMAIN Examples : x = ex
    BY <1>10 DEF ProbePasses, StepsDone, TypeOK, InExample
  <2>2. rows' = rows \cup {Row(ProbeRow(x), "pass")} /\ UNCHANGED run /\ ProbeRow(x) \in Nat /\ Main(x) \in Ports
    BY <1>10, <2>1, TableFacts, MainFacts DEF ProbePasses, Probed, invocation
  <2>3. Listener(Main(x)) = run /\ Holds(run, Main(x))
    BY <1>1, <1>10, <2>1, <2>2, OwnListener, ListenerFacts DEF ProbePasses
  <2>4. Row(ProbeRow(x), "pass").by = run
    BY <2>1, <2>3 DEF Row
  <2>5. ~Examples[x].https => \A row \in rows' : row.ex = x => row.by = run
    BY <1>1, <1>10, <2>1, <2>2, <2>3, <2>4 DEF ProbePasses, StepsDone, OwnServer, Holds, Example
  <2>6. QED
    BY <1>1, <2>1, <2>2, <2>5, RowsVouch DEF RowsGrow
<1>11. QED
  BY <1>3, <1>4, <1>5, <1>6, <1>7, <1>8, <1>9, <1>10 DEF Next, Runner, Environment

(***************************************************************************)
(* What is behind the runner                                               *)
(***************************************************************************)
LEMMA CompleteGrows ==
  ASSUME rows \subseteq rows', NEW e, NEW n, Complete(e, n)
  PROVE  Complete(e, n)'
BY DEF Complete, Failed, Passed

LEMMA CompleteNext ==
  ASSUME NEW e, e = ex, NEW n \in Nat, NEW result \in {"pass", "fail"},
         rows' = rows \cup {Row(n, result)}, Complete(e, n - 1)
  PROVE  Complete(e, n)'
<1>1. /\ Row(n, result).ex = e /\ Row(n, result).step = n /\ Row(n, result).status = result
      /\ Row(n, result) \in rows'
  BY DEF Row
<1>2. CASE result = "fail"
  BY <1>1, <1>2 DEF Complete, Failed
<1>3. CASE result = "pass"
  <2>1. CASE Failed
    BY <2>1 DEF Complete, Failed
  <2>2. CASE \A s \in StartRow..(n - 1) : Passed(e, s)
    <3>1. ASSUME NEW s \in StartRow..n
          PROVE  Passed(e, s)'
      <4>1. CASE s = n
        BY <1>1, <1>3, <4>1 DEF Passed
      <4>2. CASE s # n
        <5>1. s \in StartRow..(n - 1)
          BY <4>2 DEF StartRow
        <5>2. QED
          BY <2>2, <5>1 DEF Passed
      <4>3. QED
        BY <4>1, <4>2
    <3>2. QED
      BY <3>1 DEF Complete
  <2>3. QED
    BY <2>1, <2>2 DEF Complete
<1>4. QED
  BY <1>2, <1>3

(* What was behind the runner before the step.                             *)
Behind(e) == e < ex /\ Fate(e) = "run" => Complete(e, LastRow(e))

LEMMA BehindGrows ==
  ASSUME rows \subseteq rows', UNCHANGED <<invocation, ex>>, NEW e \in DOMAIN Examples, Behind(e)
  PROVE  Behind(e)'
<1>1. Fate(e)' = Fate(e) /\ LastRow(e)' = LastRow(e) /\ ex' = ex
  BY UnmovedExample DEF LastRow, ProbeRow
<1>2. Complete(e, LastRow(e)) => Complete(e, LastRow(e))'
  <2>1. PICK n : n = LastRow(e)
    OBVIOUS
  <2>2. Complete(e, n) => Complete(e, n)'
    BY CompleteGrows
  <2>3. QED
    BY <1>1, <2>1, <2>2 DEF Complete
<1>3. QED
  BY <1>1, <1>2 DEF Behind

LEMMA ProgressStep ==
  ASSUME TypeOK, InOrder, Progress, Next
  PROVE  Progress'
<1> USE Indices
<1>0. pc \in Phases /\ ex \in 1..(Len(Examples) + 1) /\ (InExample => ex \in DOMAIN Examples)
  BY DEF TypeOK
<1>1. pc # "exited" => \A e \in DOMAIN Examples : Behind(e)
  BY DEF Progress, Behind
<1>2. ASSUME rows \subseteq rows', UNCHANGED <<invocation, ex>>, pc # "exited",
             pc' \notin {"steps", "client", "stop", "stopping", "exited"}
      PROVE  Progress'
  BY <1>1, <1>2, BehindGrows DEF Progress, Behind
<1>3. ASSUME rows \subseteq rows', UNCHANGED <<invocation, ex>>, pc # "exited", pc' \in {"steps", "client"},
             NEW n \in Int, n = step' - 1, NEW e \in DOMAIN Examples, e = ex, Complete(e, n)'
      PROVE  Progress'
  <2>1. \A x \in DOMAIN Examples : Behind(x)'
    BY <1>1, <1>3, BehindGrows
  <2>2. Complete(ex, step - 1)'
    BY <1>3 DEF Complete
  <2>3. QED
    BY <1>3, <2>1, <2>2 DEF Progress, Behind
<1>4. ASSUME rows \subseteq rows', UNCHANGED <<invocation, ex>>, pc # "exited", pc' \in {"stop", "stopping"},
             NEW e \in DOMAIN Examples, e = ex, Complete(e, LastRow(e))'
      PROVE  Progress'
  <2>1. \A x \in DOMAIN Examples : Behind(x)'
    BY <1>1, <1>4, BehindGrows
  <2>2. Complete(ex, LastRow(ex))'
    BY <1>4 DEF Complete, LastRow, ProbeRow
  <2>3. QED
    BY <1>4, <2>1, <2>2 DEF Progress, Behind
<1>5. CASE UNCHANGED <<invocation, runner>>
  <2>1. UNCHANGED <<pc, ex, step, rows, exit>> /\ \A e \in DOMAIN Examples : Fate(e)' = Fate(e) /\ LastRow(e)' = LastRow(e)
    BY <1>5, UnmovedExample DEF runner, LastRow, ProbeRow
  <2>2. Failed' = Failed /\ \A e, s : Passed(e, s)' = Passed(e, s)
    BY <2>1 DEF Failed, Passed
  <2>3. QED
    BY <2>1, <2>2 DEF Progress, Complete, LastRow, ProbeRow, Failed, Passed
<1>6. CASE Invoke
  BY <1>6 DEF Invoke, Progress
<1>7. CASE Interrupt \/ SetUpFails \/ SpawnFails
  BY <1>7 DEF Interrupt, SetUpFails, SpawnFails, Throw, Interrupted, Progress
<1>8. CASE Begin \/ SetUp \/ Spawn \/ WaitTimesOut \/ LoopDone
  BY <1>2, <1>8 DEF Begin, SetUp, Spawn, WaitTimesOut, LoopDone
<1>9. CASE PassOver
  <2>1. rows \subseteq rows' /\ ex' = ex + 1 /\ UNCHANGED invocation /\ Fate(ex) # "run" /\ pc' = "next" /\ pc = "next"
    BY <1>9 DEF PassOver, Noted
  <2>2. ASSUME NEW e \in DOMAIN Examples, e < ex', Fate(e)' = "run"
        PROVE  Complete(e, LastRow(e))'
    <3>1. Fate(e) = "run" /\ e # ex /\ LastRow(e)' = LastRow(e)
      BY <2>1, <2>2 DEF Fate, invocation, LastRow, ProbeRow
    <3>2. PICK n : n = LastRow(e) /\ Complete(e, n)
      BY <1>0, <1>1, <2>1, <2>2, <3>1 DEF Behind
    <3>3. Complete(e, n)'
      BY <2>1, <3>2, CompleteGrows
    <3>4. QED
      BY <3>1, <3>2, <3>3 DEF Complete
  <2>3. QED
    BY <2>1, <2>2 DEF Progress
<1>10. CASE Ready \/ MomentOver
  <2>1. pc \in {"wait", "moment"} /\ Pushed
    BY <1>10 DEF Ready, MomentOver
  <2>2. CASE pc' = "spawn"
    BY <1>2, <2>1, <2>2 DEF Pushed
  <2>3. CASE pc' # "spawn"
    <3>1. PICK e \in DOMAIN Examples : e = ex
      BY <1>0, <2>1 DEF InExample
    <3>2. pc' = "steps" /\ rows' = rows \cup {Row(0, "pass")} /\ step' = 1 /\ UNCHANGED <<invocation, ex>>
      BY <2>1, <2>3 DEF Pushed, InOrder, Before, StartRow
    <3>3. Complete(e, 0 - 1)
      BY DEF Complete, StartRow
    <3>4. Complete(e, 0)'
      BY <3>1, <3>2, <3>3, CompleteNext
    <3>5. QED
      BY <1>3, <2>1, <3>1, <3>2, <3>4
  <2>4. QED
    BY <2>2, <2>3
<1>11. CASE EarlyExit \/ StopFailed
  <2>1. PICK e \in DOMAIN Examples : e = ex
    BY <1>0, <1>11 DEF EarlyExit, StopFailed, InExample
  <2>2. rows' = rows \cup {Row(StartRow, "fail")} /\ pc' = "stop" /\ UNCHANGED <<invocation, ex>> /\ pc # "exited"
    BY <1>11 DEF EarlyExit, StopFailed, StartFailed
  <2>3. Complete(e, LastRow(e))'
    <3>1. Row(StartRow, "fail") \in rows' /\ Row(StartRow, "fail").status = "fail"
      BY <2>2 DEF Row
    <3>2. QED
      BY <3>1 DEF Complete, Failed
  <2>4. QED
    BY <1>4, <2>1, <2>2, <2>3
<1>12. CASE StartClient
  <2>1. PICK e \in DOMAIN Examples, n \in Int : e = ex /\ n = step - 1
    <3>1. ex \in DOMAIN Examples /\ step \in 1..ProbeRow(ex)
      BY <1>12 DEF StartClient, InExample, TypeOK
    <3>2. step - 1 \in Int
      BY <3>1, TableFacts
    <3>3. QED
      BY <3>1, <3>2
  <2>2. Complete(e, n) /\ rows' = rows
    BY <1>12, <2>1 DEF StartClient, Progress
  <2>3. Complete(e, n)'
    BY <2>2, CompleteGrows
  <2>4. QED
    BY <1>3, <1>12, <2>1, <2>2, <2>3 DEF StartClient
<1>13. CASE StepDone
  <2>1. PICK e \in DOMAIN Examples, n \in Nat : e = ex /\ n = step
    <3>1. ex \in DOMAIN Examples /\ step \in DOMAIN Example.steps
      BY <1>0, <1>13 DEF StepDone, InExample, TypeOK
    <3>2. step \in Nat
      BY <3>1, TableFacts DEF Example
    <3>3. QED
      BY <3>1, <3>2
  <2>2. PICK result \in {"pass", "fail"} : rows' = rows \cup {Row(n, result)}
    BY <1>13, <2>1 DEF StepDone
  <2>3. Complete(e, n - 1)
    BY <1>13, <2>1 DEF StepDone, Progress
  <2>4. Complete(e, n)'
    BY <2>1, <2>2, <2>3, CompleteNext
  <2>5. QED
    BY <1>3, <1>13, <2>1, <2>2, <2>4 DEF StepDone
<1>14. CASE ProbePasses \/ ProbeFails
  <2>1. PICK e \in DOMAIN Examples, n \in Nat : e = ex /\ n = ProbeRow(e) /\ n = step /\ LastRow(e) = n
    BY <1>0, <1>14, TableFacts DEF ProbePasses, ProbeFails, StepsDone, InExample, Example
  <2>2. PICK result \in {"pass", "fail"} : rows' = rows \cup {Row(n, result)} /\ Probed(result)
    BY <1>14, <2>1 DEF ProbePasses, ProbeFails, Probed
  <2>3. Complete(e, n - 1) /\ pc = "steps"
    BY <1>14, <2>1 DEF ProbePasses, ProbeFails, StepsDone, Progress
  <2>4. Complete(e, n)'
    BY <2>1, <2>2, <2>3, CompleteNext
  <2>5. Complete(e, LastRow(e))'
    BY <2>1, <2>4 DEF Complete, LastRow, ProbeRow
  <2>6. QED
    BY <1>4, <2>1, <2>2, <2>3, <2>5 DEF Probed
<1>15. CASE NoProbe
  <2>1. PICK e \in DOMAIN Examples, n \in Int : e = ex /\ n = step - 1 /\ LastRow(e) = n
    BY <1>0, <1>15, TableFacts DEF NoProbe, StepsDone, InExample, Example
  <2>2. Complete(e, n) /\ rows' = rows
    BY <1>15, <2>1 DEF NoProbe, StepsDone, Progress
  <2>3. Complete(e, n)'
    BY <2>2, CompleteGrows
  <2>4. Complete(e, LastRow(e))'
    BY <2>1, <2>3 DEF Complete, LastRow, ProbeRow
  <2>5. QED
    BY <1>4, <1>15, <2>1, <2>2, <2>4 DEF NoProbe, StepsDone
<1>16. CASE StopServer \/ ServerStopped
  <2>1. pc \in {"stop", "stopping"} /\ pc' \in {"stop", "stopping"} /\ rows' = rows /\ UNCHANGED <<invocation, ex>>
    BY <1>16 DEF StopServer, ServerStopped
  <2>2. PICK e \in DOMAIN Examples : e = ex
    BY <1>0, <2>1 DEF InExample
  <2>3. PICK n : n = LastRow(e)
    OBVIOUS
  <2>4. Complete(e, n)
    BY <2>1, <2>2, <2>3 DEF Progress
  <2>5. Complete(e, LastRow(e))'
    BY <2>1, <2>3, <2>4, CompleteGrows DEF LastRow, ProbeRow
  <2>6. QED
    BY <1>4, <2>1, <2>2, <2>5
<1>17. CASE NextExample
  <2>1. pc = "stop" /\ pc' = "next" /\ rows' = rows /\ ex' = ex + 1 /\ UNCHANGED invocation
    BY <1>17 DEF NextExample
  <2>2. ASSUME NEW e \in DOMAIN Examples, e < ex', Fate(e)' = "run"
        PROVE  Complete(e, LastRow(e))'
    <3>1. Fate(e) = "run" /\ LastRow(e)' = LastRow(e) /\ (e < ex \/ e = ex)
      BY <1>0, <2>1, <2>2 DEF Fate, invocation, LastRow, ProbeRow
    <3>2. PICK n : n = LastRow(e)
      OBVIOUS
    <3>3. Complete(e, n)
      BY <2>1, <3>1, <3>2 DEF Progress
    <3>4. Complete(e, n)'
      BY <2>1, <3>3, CompleteGrows
    <3>5. QED
      BY <3>1, <3>2, <3>4 DEF Complete
  <2>3. QED
    BY <2>1, <2>2 DEF Progress
<1>18. CASE Report
  <2>1. ex = Len(Examples) + 1 /\ pc = "report" /\ pc' = "exited" /\ exit' = ExitCode /\ UNCHANGED <<invocation, rows, ex>>
    BY <1>18 DEF Report, InOrder
  <2>2. exit' = 0 => ~Failed /\ ~Failed'
    BY <2>1 DEF ExitCode, Failed
  <2>3. \A e \in DOMAIN Examples : Behind(e)'
    BY <1>1, <2>1, BehindGrows
  <2>4. QED
    BY <2>1, <2>2, <2>3 DEF Progress, Behind
<1>19. QED
  BY <1>5, <1>6, <1>7, <1>8, <1>9, <1>10, <1>11, <1>12, <1>13, <1>14, <1>15, <1>16, <1>17, <1>18, Unmoved
     DEF Next, Runner, Environment

(***************************************************************************)
(* Without faults                                                          *)
(***************************************************************************)
LEMMA NoFault ==
  ASSUME TypeOK, Next, Healthy'
  PROVE  Healthy /\ ~Fault
<1>1. UNCHANGED faults \/ Fault
  BY DEF Next, Runner, Clients, Invoke, Interrupt, PassOver, Begin, SetUp, SetUpFails, Spawn, SpawnFails, Throw,
     Ready, MomentOver, Pushed, EarlyExit, WaitTimesOut, StopFailed, StartFailed, StartClient, ClientTimer,
     StepDone, ProbePasses, ProbeFails, Probed, NoProbe, StopServer, ServerStopped, NextExample, LoopDone,
     Report, KillTimer, history,
     StaticClient, StoredToken, RevokedToken, OpenBrowser, LoggedIn, LoginHangs, LogoutClient,
     RevokeClient, ClientErrs, ClientHangs, ClientExits, Exits, BrowserCloses, Bind, BootFails, Crash, ServerHangs,
     Becomes, Terminated, OrphanEnds
<1>2. ~Fault
  BY DEF Fault, Healthy, TypeOK
<1>3. QED
  BY <1>1, <1>2, CleanBefore DEF Healthy

LEMMA ExampleFacts ==
  ASSUME TypeOK, InOrder, InExample
  PROVE  /\ DOMAIN Example.servers = 1..Len(Example.servers) /\ Len(Example.servers) \in Nat
         /\ \A i \in DOMAIN Example.servers : Example.servers[i] \in Ports
         /\ \A i, j \in DOMAIN Example.servers : Example.servers[i] = Example.servers[j] => i = j
         /\ Reckoned[ex][0] = [s \in Stores |-> NoToken]
         /\ pc = "client" => Reckons(Step, Reckoned[ex][step - 1], Reckoned[ex][step])
         /\ srv \in Nat /\ servers \in Nat /\ step \in Nat /\ servers <= Len(Example.servers)
<1>1. ex \in DOMAIN Examples /\ servers \in 0..Len(Example.servers) /\ step \in 1..ProbeRow(ex)
  BY DEF TypeOK
<1>2. /\ DOMAIN Example.servers = 1..Len(Example.servers) /\ Len(Example.servers) \in Nat
      /\ \A i \in DOMAIN Example.servers : Example.servers[i] \in Ports
      /\ ProbeRow(ex) \in Nat
  BY <1>1, TableFacts DEF Example
<1>3. /\ \A i, j \in DOMAIN Example.servers : Example.servers[i] = Example.servers[j] => i = j
      /\ Reckoned[ex][0] = [s \in Stores |-> NoToken]
  BY <1>1, TableIsRight DEF Example, RightAbout
<1>4. pc = "client" => Reckons(Step, Reckoned[ex][step - 1], Reckoned[ex][step])
  BY <1>1, TableIsRight DEF Example, Step, TypeOK, RightAbout
<1>5. QED
  BY <1>1, <1>2, <1>3, <1>4 DEF InOrder

(* The main server answers while the steps run.                            *)
LEMMA MainUp ==
  ASSUME TypeOK, InOrder, OnTrack, Healthy, pc \in {"steps", "client"}
  PROVE  Answering(Main(ex)) /\ Listening(Main(ex))
<1>1. InExample /\ run \in Runs /\ ex \in DOMAIN Examples
  BY InExampleFacts DEF InExample
<1>2. PICK i \in DOMAIN Example.servers : i = Len(Example.servers) /\ Example.servers[i] = Main(ex)
  BY <1>1, TableFacts DEF Example, Main
<1>3. Supervised(i) /\ ~(i > servers)
  BY <1>1, <1>2, ExampleFacts DEF Supervised, InOrder
<1>4. status[run][Main(ex)] = "up"
  BY <1>2, <1>3 DEF OnTrack, ServersUp
<1>5. QED
  BY <1>1, <1>4 DEF Answering, Listening, Holds

(* The process the runner waits for is there.                              *)
LEMMA WaitedFor ==
  ASSUME TypeOK, InOrder, OnTrack, Healthy, pc \in {"wait", "moment"}
  PROVE  /\ srv \in DOMAIN Example.servers /\ Supervised(srv)
         /\ status[run][Port] \in {"booting", "up"} /\ signal[run][Port] = "none"
<1>1. srv \in DOMAIN Example.servers /\ srv \in Nat
  BY DEF TypeOK, InOrder
<1>2. Supervised(srv)
  BY <1>1 DEF Supervised
<1>3. QED
  BY <1>1, <1>2 DEF OnTrack, ServersUp, Port

(* A client that finishes its work, which is one of these.                 *)
Finishes ==
  StaticClient \/ StoredToken \/ RevokedToken \/ LoggedIn \/ LogoutClient \/ RevokeClient

(* The steps that are left without a fault.                                *)
HealthyNext ==
  \/ Invoke \/ PassOver \/ Begin \/ SetUp \/ Spawn \/ Ready
  \/ MomentOver /\ status[run][Port] = "up"
  \/ StartClient \/ StepDone \/ ProbePasses \/ NoProbe \/ StopServer \/ ServerStopped
  \/ NextExample \/ LoopDone \/ Report \/ (KillTimer /\ pc = "stopping")
  \/ Finishes \/ OpenBrowser \/ BrowserCloses
  \/ \E r \in Runs, p \in Ports : Bind(r, p)
  \/ \E r \in Runs, p \in Ports \cup {Client} : Terminated(r, p)

LEMMA HealthySteps ==
  ASSUME TypeOK, InOrder, OnlySupervised, OnTrack, Next, Healthy'
  PROVE  HealthyNext
<1>1. Healthy /\ ~Fault /\ pc # "stopFailed"
  BY NoFault DEF OnTrack
<1>2. ~Interrupt /\ ~SetUpFails /\ ~SpawnFails /\ ~ClientHangs
  BY <1>1, MainUp DEF Interrupt, SetUpFails, SpawnFails, ClientHangs, Running
<1>3. \A r \in Runs, p \in Ports : ~BootFails(r, p) /\ ~Crash(r, p) /\ ~ServerHangs(r, p)
  BY <1>1 DEF BootFails, Crash, ServerHangs
<1>4. ~ProbeFails /\ ~ClientErrs
  BY <1>1, MainUp DEF ProbeFails, StepsDone, ClientErrs, Running
<1>5. ~EarlyExit /\ ~WaitTimesOut /\ ~StopFailed
  BY <1>1, WaitedFor DEF EarlyExit, WaitTimesOut, StopFailed, Alive
<1>6. MomentOver => status[run][Port] = "up"
  <2>1. MomentOver => status[run][Port] # "booting" /\ pc = "moment"
    BY <1>1 DEF MomentOver
  <2>2. QED
    BY <1>1, <2>1, WaitedFor
<1>7. ~ClientTimer /\ (KillTimer => pc = "stopping")
  <2>1. pc = "client" => signal[run][Client] = "none" /\ status[run][Client] \in {"up", "gone"}
    BY <1>1 DEF OnTrack, ClientOnTrack
  <2>2. QED
    BY <1>1, <2>1 DEF ClientTimer, KillTimer, Target, Alive
<1>8. ~LoginHangs
  <2> SUFFICES ASSUME LoginHangs
               PROVE  FALSE
    OBVIOUS
  <2>1. /\ pc = "client" /\ status[run][Client] = "up" /\ Step.work = "oauth"
        /\ store[Step.store] = NoToken /\ Step.user = NoUser
    BY DEF LoginHangs, NeedsLogin, Reached, Running
  <2>2. store = Reckoned[ex][step - 1] /\ Reckons(Step, Reckoned[ex][step - 1], Reckoned[ex][step])
    BY <1>1, <2>1, ExampleFacts DEF OnTrack, ClientOnTrack, InExample
  <2>3. QED
    BY <2>1, <2>2 DEF Reckons
<1>9. \A r \in Runs : ~OrphanEnds(r)
  BY <1>1, Indices DEF OrphanEnds, OnlySupervised, Healthy
<1>10. QED
  BY <1>2, <1>3, <1>4, <1>5, <1>6, <1>7, <1>8, <1>9 DEF Next, Runner, Clients, HealthyNext, Finishes

(* What a client does is what its step was reckoned to do.                 *)
LEMMA FinishesAsReckoned ==
  ASSUME TypeOK, InOrder, OnTrack, Healthy, Finishes
  PROVE  /\ pc = "client" /\ UNCHANGED <<invocation, runner>>
         /\ status' = [status EXCEPT ![run][Client] = "gone"]
         /\ signal' = [signal EXCEPT ![run][Client] = "none"]
         /\ store' = Reckoned[ex][step] /\ AsExpected'
<1>1. pc = "client" /\ status[run][Client] = "up"
  BY DEF Finishes, StaticClient, StoredToken, RevokedToken, LoggedIn, LogoutClient, RevokeClient, NeedsLogin,
     Reached, Running
<1>2. /\ UNCHANGED <<invocation, runner>>
      /\ status' = [status EXCEPT ![run][Client] = "gone"]
      /\ signal' = [signal EXCEPT ![run][Client] = "none"]
  BY DEF Finishes, StaticClient, StoredToken, RevokedToken, LoggedIn, LogoutClient, RevokeClient,
     ClientExits, Exits
<1>3. store = Reckoned[ex][step - 1] /\ Reckons(Step, store, Reckoned[ex][step])
  BY <1>1, ExampleFacts DEF OnTrack, ClientOnTrack, InExample
<1>4. PICK s, before, after : s = Step /\ before = store /\ after = Reckoned[ex][step] /\ Reckons(s, before, after)
  BY <1>3
<1>5. store' = after /\ Meets(s, code', who')
  <2>1. CASE StaticClient
    BY <1>4, <2>1 DEF StaticClient, ClientExits, Exits, Reckons
  <2>2. CASE StoredToken
    BY <1>4, <2>2 DEF StoredToken, ClientExits, Exits, Reckons
  <2>3. CASE RevokedToken
    BY <1>4, <2>3 DEF RevokedToken, ClientExits, Exits, Reckons
  <2>4. CASE LoggedIn
    BY <1>4, <2>4 DEF LoggedIn, NeedsLogin, ClientExits, Exits, Reckons
  <2>5. CASE LogoutClient
    BY <1>4, <2>5 DEF LogoutClient, ClientExits, Exits, Reckons
  <2>6. CASE RevokeClient
    BY <1>4, <2>6 DEF RevokeClient, ClientExits, Exits, Reckons
  <2>7. QED
    BY <2>1, <2>2, <2>3, <2>4, <2>5, <2>6 DEF Finishes
<1>6. Step' = Step
  BY <1>2, UnmovedExample DEF Step, runner
<1>7. QED
  BY <1>1, <1>2, <1>4, <1>5, <1>6 DEF AsExpected

LEMMA FailedStep ==
  ASSUME TypeOK, OnTrack, Healthy, HealthyNext
  PROVE  ~Failed' /\ pc' # "stopFailed"
<1>1. ~Failed /\ pc # "stopFailed"
  BY DEF OnTrack
<1>2. CASE UNCHANGED <<invocation, runner>>
  BY <1>1, <1>2 DEF runner, Failed
<1>3. CASE Finishes \/ OpenBrowser \/ BrowserCloses \/ KillTimer
           \/ (\E r \in Runs, p \in Ports : Bind(r, p))
           \/ \E r \in Runs, p \in Ports \cup {Client} : Terminated(r, p)
  BY <1>2, <1>3, Unmoved DEF Finishes, Clients, Environment
<1>4. ASSUME NEW s, NEW result \in {"pass", "skip", "missing"},
             rows' = rows \/ rows' = rows \cup {Row(s, result)} \/ rows' = {}
      PROVE  ~Failed'
  <2>1. Row(s, result).status # "fail"
    BY DEF Row
  <2>2. QED
    BY <1>1, <1>4, <2>1 DEF Failed
<1>5. CASE Invoke \/ Begin \/ SetUp \/ Spawn \/ Ready \/ MomentOver \/ StartClient \/ ProbePasses \/ NoProbe
           \/ StopServer \/ ServerStopped \/ NextExample \/ LoopDone \/ Report
  <2>1. pc' # "stopFailed"
    BY <1>5 DEF Invoke, Begin, SetUp, Spawn, Ready, MomentOver, Pushed, StartClient, ProbePasses, Probed, NoProbe,
         StopServer, ServerStopped, NextExample, LoopDone, Report
  <2>2. rows' = rows \/ rows' = {} \/ \E s : rows' = rows \cup {Row(s, "pass")}
    BY <1>5 DEF Invoke, Begin, SetUp, Spawn, Ready, MomentOver, Pushed, StartClient, ProbePasses, Probed, NoProbe,
         StopServer, ServerStopped, NextExample, LoopDone, Report
  <2>3. QED
    BY <1>4, <2>1, <2>2
<1>6. CASE PassOver
  <2>1. Fate(ex) \in {"unselected", "missing", "skip"} /\ pc' = "next"
    BY <1>6 DEF PassOver, Fate
  <2>2. QED
    BY <1>4, <1>6, <2>1 DEF PassOver, Noted
<1>7. CASE StepDone
  <2>1. AsExpected
    BY <1>7 DEF StepDone, Alive, OnTrack, ClientOnTrack
  <2>2. QED
    BY <1>4, <1>7, <2>1 DEF StepDone
<1>8. QED
  BY <1>3, <1>5, <1>6, <1>7 DEF HealthyNext

(* The servers stay as they are when their processes do.                   *)
LEMMA ServersFrame ==
  ASSUME ServersUp, UNCHANGED <<run, Example>>,
         pc' \in {"spawn", "wait", "moment", "steps", "client"} =>
           /\ pc \in {"spawn", "wait", "moment", "steps", "client"}
           /\ UNCHANGED servers
           /\ \A i \in DOMAIN Example.servers : LET p == Example.servers[i] IN
                /\ Supervised(i)' => Supervised(i)
                /\ status'[run][p] = status[run][p] \/ status'[run][p] = "up"
                /\ signal'[run][p] = signal[run][p] \/ signal'[run][p] = "none"
  PROVE  ServersUp'
BY DEF ServersUp

LEMMA ServersStep ==
  ASSUME TypeOK, InOrder, OnlySupervised, OnTrack, Healthy, HealthyNext
  PROVE  ServersUp'
<1> USE Indices
<1>0. /\ ServersUp /\ ~dirty /\ status \in StatusType /\ signal \in SignalType
      /\ pc \in {"spawn", "wait", "moment", "steps", "client"} => InExample
  BY DEF OnTrack, Healthy, TypeOK, StatusType, SignalType, InExample
<1>1. CASE UNCHANGED <<invocation, runner, processes>>
  <2>1. UNCHANGED <<run, pc, srv, servers, status, signal, Example>>
    BY <1>1, UnmovedExample DEF invocation, runner, processes
  <2>2. QED
    BY <1>0, <2>1, ServersFrame DEF Supervised
<1>2. CASE pc' \notin {"spawn", "wait", "moment", "steps", "client"}
  BY <1>2 DEF ServersUp
<1>3. CASE Begin \/ SetUp
  <2>1. pc' = "spawn" => ex \in DOMAIN Examples /\ servers' = 0 /\ Example' = Examples[ex]
    BY <1>3 DEF Begin, SetUp, InOrder, Before, TypeOK, InExample, Example
  <2>2. pc' = "spawn" => \A i \in DOMAIN Example'.servers : ~Supervised(i)'
    BY <2>1, TableFacts DEF Supervised
  <2>3. pc' \in {"spawn", "setup"}
    BY <1>3 DEF Begin, SetUp
  <2>4. QED
    BY <2>2, <2>3 DEF ServersUp
<1>4. CASE Spawn
  <2>1. /\ InExample /\ run \in Runs /\ Port \in Ports /\ Port = Example.servers[srv]
        /\ srv \in DOMAIN Example.servers /\ servers = srv - 1 /\ srv \in Nat
    BY <1>4, InExampleFacts DEF Spawn, InExample, TypeOK, InOrder, Before, Port
  <2>2. UNCHANGED <<run, srv, servers, Example>> /\ pc' \in {"wait", "moment"}
    BY <1>4, UnmovedExample DEF Spawn, invocation
  <2>3. ASSUME NEW p \in Ports
        PROVE  /\ p = Port => status'[run][p] = "booting" /\ signal'[run][p] = "none"
               /\ p # Port => status'[run][p] = status[run][p] /\ signal'[run][p] = signal[run][p]
    BY <1>0, <1>4, <2>1 DEF Spawn, StatusType, SignalType
  <2>4. ASSUME NEW i \in DOMAIN Example.servers, Supervised(i)', NEW p \in Ports, p = Example.servers[i]
        PROVE  /\ signal'[run][p] = "none"
               /\ status'[run][p] = "up" \/ (status'[run][p] = "booting" /\ i > servers)
    <3>1. i <= srv /\ i \in Nat
      BY <2>1, <2>2, <2>4, ExampleFacts DEF Supervised
    <3>2. CASE i = srv
      BY <2>1, <2>3, <2>4, <3>2
    <3>3. CASE i # srv
      <4>1. p # Port /\ Supervised(i) /\ ~(i > servers)
        BY <1>4, <2>1, <2>4, <3>1, <3>3, ExampleFacts DEF Supervised, Spawn
      <4>2. QED
        BY <1>0, <1>4, <2>3, <2>4, <4>1 DEF ServersUp, Spawn
    <3>4. QED
      BY <3>2, <3>3
  <2>5. QED
    BY <2>1, <2>2, <2>4, ExampleFacts DEF ServersUp
<1>5. CASE Ready \/ (MomentOver /\ status[run][Port] = "up")
  <2>1. pc \in {"wait", "moment"} /\ Pushed /\ InExample
    BY <1>5 DEF Ready, MomentOver, InExample
  <2>2. status[run][Port] = "up" /\ Port \in Ports
    <3>1. Port \in Ports
      BY <2>1, InExampleFacts
    <3>2. CASE Ready
      <4>1. PICK r \in Runs : status[r][Port] = "up"
        BY <3>2 DEF Ready, Answering
      <4>2. Alive(r, Port)
        BY <4>1 DEF Alive
      <4>3. QED
        BY <1>0, <3>1, <4>1, <4>2 DEF OnlySupervised
    <3>3. QED
      BY <1>5, <3>1, <3>2
  <2>3. /\ UNCHANGED <<run, Example, status, signal>> /\ servers' = srv /\ pc' \in {"spawn", "steps"}
        /\ servers = srv - 1 /\ srv \in Nat
    BY <2>1, UnmovedExample DEF Pushed, invocation, processes, InOrder, Before
  <2>4. ASSUME NEW i \in DOMAIN Example.servers, Supervised(i)'
        PROVE  signal[run][Example.servers[i]] = "none" /\ status[run][Example.servers[i]] = "up"
    <3>1. i <= srv /\ i \in Nat /\ Supervised(i)
      BY <2>1, <2>3, <2>4, ExampleFacts DEF Supervised
    <3>2. signal[run][Example.servers[i]] = "none" /\ (status[run][Example.servers[i]] = "up" \/ i > servers)
      BY <1>0, <2>1, <3>1 DEF ServersUp
    <3>3. i > servers => i = srv
      BY <2>3, <3>1
    <3>4. QED
      BY <2>2, <3>2, <3>3 DEF Port
  <2>5. QED
    BY <2>3, <2>4 DEF ServersUp
<1>6. ASSUME InExample, run \in Runs, UNCHANGED <<invocation, ex, servers, srv>>,
             pc' \in {"steps", "client"}, pc \in {"steps", "client"},
             \A p \in Ports : status'[run][p] = status[run][p] /\ signal'[run][p] = signal[run][p]
      PROVE  ServersUp'
  <2>1. UNCHANGED <<run, Example>>
    BY <1>6, UnmovedExample DEF invocation
  <2>2. \A i \in DOMAIN Example.servers : Supervised(i)' => Supervised(i)
    BY <1>6 DEF Supervised
  <2>3. \A i \in DOMAIN Example.servers : Example.servers[i] \in Ports
    BY <1>6, ExampleFacts
  <2>4. QED
    BY <1>0, <1>6, <2>1, <2>2, <2>3, ServersFrame
<1>7. CASE StartClient \/ StepDone
  <2>1. InExample /\ run \in Runs /\ pc \in {"steps", "client"}
    BY <1>7, InExampleFacts DEF StartClient, StepDone, InExample
  <2>2. \A p \in Ports : status'[run][p] = status[run][p] /\ signal'[run][p] = signal[run][p]
    BY <1>0, <1>7, <2>1 DEF StartClient, StepDone, StatusType, SignalType, processes
  <2>3. QED
    BY <1>6, <1>7, <2>1, <2>2 DEF StartClient, StepDone
<1>8. CASE Finishes
  <2>1. /\ pc = "client" /\ UNCHANGED <<invocation, runner>>
        /\ status' = [status EXCEPT ![run][Client] = "gone"]
        /\ signal' = [signal EXCEPT ![run][Client] = "none"]
    BY <1>8, FinishesAsReckoned
  <2>2. InExample /\ run \in Runs
    BY <2>1, InExampleFacts DEF InExample
  <2>3. \A p \in Ports : status'[run][p] = status[run][p] /\ signal'[run][p] = signal[run][p]
    BY <1>0, <2>1, <2>2 DEF StatusType, SignalType
  <2>4. QED
    BY <1>6, <2>1, <2>2, <2>3 DEF runner
<1>9. ASSUME NEW r \in Runs, NEW p \in Ports, Bind(r, p)
      PROVE  ServersUp'
  <2>1. UNCHANGED <<invocation, runner, signal>>
    BY <1>9 DEF Bind, Becomes
  <2>2. Alive(r, p)
    BY <1>9 DEF Bind, Alive
  <2>3. r = run /\ ~Listening(p)
    <3>1. r = run
      BY <1>0, <2>2 DEF OnlySupervised
    <3>2. status[r][p] = "booting"
      BY <1>9 DEF Bind
    <3>3. QED
      BY <1>0, <3>1, <3>2, OwnListener DEF Holds
  <2>4. \A o \in Ports : status'[run][o] = status[run][o] \/ status'[run][o] = "up"
    BY <1>0, <1>9, <2>3 DEF Bind, Becomes, StatusType
  <2>5. UNCHANGED <<run, pc, srv, servers, Example>>
    BY <2>1, UnmovedExample DEF invocation, runner
  <2>6. CASE InExample
    BY <1>0, <2>1, <2>4, <2>5, <2>6, ExampleFacts, ServersFrame DEF Supervised
  <2>7. CASE ~InExample
    BY <1>2, <2>5, <2>7 DEF InExample
  <2>8. QED
    BY <2>6, <2>7
<1>10. ASSUME NEW r \in Runs, NEW p \in Ports \cup {Client}, Terminated(r, p)
       PROVE  ServersUp'
  <2>1. UNCHANGED <<invocation, runner>> /\ Alive(r, p) /\ signal[r][p] # "none"
    BY <1>10 DEF Terminated
  <2>2. /\ r = run /\ InExample
        /\ IF p = Client THEN pc = "client"
           ELSE \E i \in DOMAIN Example.servers : Supervised(i) /\ p = Example.servers[i]
    BY <1>0, <2>1 DEF OnlySupervised
  <2>3. pc \notin {"spawn", "wait", "moment", "steps", "client"}
    <3>1. CASE p = Client
      BY <2>1, <2>2, <3>1 DEF OnTrack, ClientOnTrack
    <3>2. CASE p # Client
      BY <1>0, <2>1, <2>2, <3>2 DEF ServersUp
    <3>3. QED
      BY <3>1, <3>2
  <2>4. QED
    BY <1>2, <2>1, <2>3 DEF runner
<1>11. CASE Invoke \/ PassOver \/ ProbePasses \/ NoProbe \/ StopServer \/ ServerStopped \/ NextExample
            \/ LoopDone \/ Report \/ (KillTimer /\ pc = "stopping")
  BY <1>2, <1>11 DEF Invoke, PassOver, ProbePasses, Probed, NoProbe, StopServer, ServerStopped, NextExample,
       LoopDone, Report, KillTimer, runner
<1>12. CASE OpenBrowser \/ BrowserCloses
  BY <1>1, <1>12 DEF OpenBrowser, BrowserCloses
<1>13. QED
  BY <1>3, <1>4, <1>5, <1>7, <1>8, <1>9, <1>10, <1>11, <1>12 DEF HealthyNext

LEMMA ReckonedStep ==
  ASSUME TypeOK, InOrder, OnlySupervised, OnTrack, Healthy, HealthyNext
  PROVE  StoreReckoned'
<1>0. StoreReckoned
  BY DEF OnTrack
<1>1. CASE UNCHANGED <<invocation, runner, store>>
  BY <1>0, <1>1 DEF StoreReckoned, runner
<1>2. CASE pc' \notin Before \cup {"steps"}
  BY <1>2 DEF StoreReckoned
<1>3. CASE Begin
  <2>1. ex \in DOMAIN Examples /\ ex' = ex /\ step' = 1 /\ store' = [s \in Stores |-> NoToken]
    BY <1>3 DEF Begin
  <2>2. Reckoned[ex][0] = [s \in Stores |-> NoToken]
    BY <2>1, TableIsRight DEF RightAbout
  <2>3. QED
    BY <2>1, <2>2 DEF StoreReckoned
<1>4. CASE SetUp \/ Spawn \/ Ready \/ MomentOver
  <2>1. pc \in Before /\ UNCHANGED <<ex, step, store>>
    BY <1>4 DEF SetUp, Spawn, Ready, MomentOver, Pushed, Before
  <2>2. QED
    BY <1>0, <2>1 DEF StoreReckoned
<1>5. CASE StepDone
  <2>1. /\ pc = "client" /\ UNCHANGED <<ex, store>> /\ step' = step + 1 /\ step \in Nat
        /\ status[run][Client] # "up"
    BY <1>5, ExampleFacts DEF StepDone, Alive, InExample
  <2>2. store = Reckoned[ex][step]
    BY <2>1 DEF OnTrack, ClientOnTrack
  <2>3. QED
    BY <2>1, <2>2 DEF StoreReckoned
<1>6. CASE Finishes
  <2>1. pc' = "client"
    BY <1>6, FinishesAsReckoned DEF runner
  <2>2. QED
    BY <1>2, <2>1 DEF Before
<1>7. CASE OpenBrowser \/ BrowserCloses \/ KillTimer
           \/ (\E r \in Runs, p \in Ports : Bind(r, p))
           \/ \E r \in Runs, p \in Ports \cup {Client} : Terminated(r, p)
  BY <1>1, <1>7 DEF OpenBrowser, BrowserCloses, KillTimer, Bind, Becomes, Terminated
<1>8. CASE Invoke \/ PassOver \/ StartClient \/ ProbePasses \/ NoProbe \/ StopServer \/ ServerStopped
           \/ NextExample \/ LoopDone \/ Report
  BY <1>2, <1>8 DEF Invoke, PassOver, StartClient, ProbePasses, Probed, NoProbe, StopServer, ServerStopped,
       NextExample, LoopDone, Report, Before
<1>9. QED
  BY <1>3, <1>4, <1>5, <1>6, <1>7, <1>8 DEF HealthyNext

LEMMA ClientStep ==
  ASSUME TypeOK, InOrder, OnlySupervised, OnTrack, Healthy, HealthyNext
  PROVE  ClientOnTrack'
<1> USE Indices
<1>0. ClientOnTrack /\ StoreReckoned /\ ~dirty /\ status \in StatusType /\ signal \in SignalType
  BY DEF OnTrack, Healthy, TypeOK, StatusType, SignalType
<1>1. ASSUME UNCHANGED <<invocation, runner, store, code, who>>,
             pc = "client" => /\ status'[run][Client] = status[run][Client]
                              /\ signal'[run][Client] = signal[run][Client]
      PROVE  ClientOnTrack'
  <2>1. UNCHANGED <<run, pc, ex, step, Example, Step>>
    BY <1>1, UnmovedExample DEF invocation, runner, Step
  <2>2. AsExpected' = AsExpected
    BY <1>1, <2>1 DEF AsExpected
  <2>3. QED
    BY <1>0, <1>1, <2>1, <2>2 DEF ClientOnTrack
<1>2. CASE pc' # "client"
  BY <1>2 DEF ClientOnTrack
<1>3. CASE StartClient
  <2>1. run \in Runs /\ UNCHANGED <<run, ex, step, store>>
    BY <1>3, InExampleFacts DEF StartClient, InExample, invocation
  <2>2. status'[run][Client] = "up" /\ signal'[run][Client] = "none"
    BY <1>0, <1>3, <2>1 DEF StartClient, StatusType, SignalType
  <2>3. QED
    BY <1>0, <1>3, <2>1, <2>2 DEF ClientOnTrack, StoreReckoned, StartClient
<1>4. CASE Finishes
  <2>1. /\ pc = "client" /\ UNCHANGED <<invocation, runner>>
        /\ status' = [status EXCEPT ![run][Client] = "gone"]
        /\ signal' = [signal EXCEPT ![run][Client] = "none"]
        /\ store' = Reckoned[ex][step] /\ AsExpected'
    BY <1>4, FinishesAsReckoned
  <2>2. run \in Runs
    BY <2>1, InExampleFacts DEF InExample
  <2>3. status'[run][Client] = "gone" /\ signal'[run][Client] = "none"
    BY <1>0, <2>1, <2>2 DEF StatusType, SignalType
  <2>4. QED
    BY <2>1, <2>3 DEF ClientOnTrack, invocation, runner
<1>5. ASSUME NEW r \in Runs, NEW p \in Ports, Bind(r, p)
      PROVE  ClientOnTrack'
  <2>1. pc = "client" => status'[run][Client] = status[run][Client]
    BY <1>0, <1>5, InExampleFacts DEF Bind, Becomes, StatusType, InExample
  <2>2. UNCHANGED <<invocation, runner, store, code, who, signal>>
    BY <1>5 DEF Bind, Becomes, client
  <2>3. QED
    BY <1>1, <2>1, <2>2
<1>6. ASSUME NEW r \in Runs, NEW p \in Ports \cup {Client}, Terminated(r, p)
      PROVE  ClientOnTrack'
  <2>1. UNCHANGED <<invocation, runner, store, code, who>> /\ Alive(r, p) /\ signal[r][p] # "none"
    BY <1>6 DEF Terminated, client
  <2>2. r = run /\ (p = Client => pc = "client")
    BY <1>0, <2>1 DEF OnlySupervised
  <2>3. pc = "client" => p # Client
    BY <1>0, <2>1, <2>2 DEF ClientOnTrack
  <2>4. pc = "client" => /\ status'[run][Client] = status[run][Client]
                         /\ signal'[run][Client] = signal[run][Client]
    BY <1>0, <1>6, <2>2, <2>3 DEF Terminated, StatusType, SignalType
  <2>5. QED
    BY <1>1, <2>1, <2>4
<1>7. CASE OpenBrowser \/ BrowserCloses
  BY <1>1, <1>7 DEF OpenBrowser, BrowserCloses, processes
<1>8. CASE Invoke \/ PassOver \/ Begin \/ SetUp \/ Spawn \/ Ready \/ MomentOver \/ StepDone \/ ProbePasses
           \/ NoProbe \/ StopServer \/ ServerStopped \/ NextExample \/ LoopDone \/ Report
           \/ (KillTimer /\ pc = "stopping")
  BY <1>2, <1>8 DEF Invoke, PassOver, Begin, SetUp, Spawn, Ready, MomentOver, Pushed, StepDone, ProbePasses, Probed,
       NoProbe, StopServer, ServerStopped, NextExample, LoopDone, Report, KillTimer, runner
<1>9. QED
  BY <1>3, <1>4, <1>5, <1>6, <1>7, <1>8 DEF HealthyNext

LEMMA TrackStep ==
  ASSUME TypeOK, InOrder, OnlySupervised, OnTrack, Next
  PROVE  OnTrack'
<1> SUFFICES ASSUME Healthy'
             PROVE  OnTrack'
  BY DEF OnTrack
<1>1. Healthy /\ HealthyNext
  BY NoFault, HealthySteps
<1>2. ~Failed' /\ pc' # "stopFailed" /\ ServersUp' /\ StoreReckoned' /\ ClientOnTrack'
  BY <1>1, FailedStep, ServersStep, ReckonedStep, ClientStep
<1>3. QED
  BY <1>2 DEF OnTrack

-----------------------------------------------------------------------------
LEMMA Initially == Init => IInv
<1> SUFFICES ASSUME Init
             PROVE  IInv
  OBVIOUS
<1>1. TypeOK
  <2>1. /\ run = 0 /\ keep = FALSE /\ keycloakUp = FALSE /\ pc = "idle" /\ ex = 1 /\ rows = {}
        /\ exit = NoCode /\ browser = "none" /\ code = NoCode /\ faults = 0 /\ dirty = FALSE
    BY DEF Init
  <2>2. status \in StatusType /\ signal \in SignalType /\ store \in [Stores -> {NoToken} \cup TokenType]
    BY DEF Init, StatusType, SignalType
  <2>3. Placed
    <3>1. keep \in BOOLEAN /\ keycloakUp \in BOOLEAN
      BY <2>1
    <3>2. ex \in 1..(Len(Examples) + 1) /\ rows \subseteq RowType
      BY <2>1, Indices
    <3>3. QED
      BY <2>1, <3>1, <3>2 DEF Placed, Phases, InExample
  <2>4. Typed
    <3>1. dirty \in BOOLEAN
      BY <2>1
    <3>2. faults \in 0..MaxFaults
      BY <2>1, SmokeConstants
    <3>3. QED
      BY <2>1, <2>2, <3>1, <3>2 DEF Typed, SignalType
  <2>5. QED
    BY <2>3, <2>4, TypeParts
<1>2. InOrder
  BY DEF Init, InOrder, Before
<1>3. OnlySupervised /\ OwnServer
  BY DEF Init, OnlySupervised, OwnServer, Alive
<1>4. ProbeVouches
  BY DEF Init, ProbeVouches, Passed
<1>5. Progress
  BY Indices DEF Init, Progress
<1>6. OnTrack
  BY DEF Init, OnTrack, Failed, ServersUp, StoreReckoned, ClientOnTrack, Before
<1>7. QED
  BY <1>1, <1>2, <1>3, <1>4, <1>5, <1>6 DEF IInv

(* The inductive invariant: nobody is alive who is not supervised, rows    *)
(* come in order and vouch for their server, what is behind the runner is  *)
(* complete.                                                               *)
THEOREM RunnerInvariant == Spec => []IInv
<1>1. IInv /\ [Next]_vars => IInv'
  <2> SUFFICES ASSUME IInv, [Next]_vars
               PROVE  IInv'
    OBVIOUS
  <2>1. CASE Next
    BY <2>1, TypeStep, OrderStep, SupervisedStep, OwnStep, VouchStep, ProgressStep, TrackStep DEF IInv
  <2>2. CASE UNCHANGED vars
    <3>1. UNCHANGED <<run, keep, keycloakUp, selected, pc, ex, srv, step, servers, rows, exit, status, signal,
                      browser, code, who, store, faults, dirty>>
      BY <2>2 DEF vars, invocation, runner, processes, client, history
    <3>2. TypeOK'
      <4>1. Placed' /\ Typed'
        BY <2>2, <3>1, PlacedFrame, TypeParts DEF vars, IInv, Typed
      <4>2. QED
        BY <4>1 DEF TypeOK, Placed, Typed, StatusType, StoreType
    <3>3. InOrder' /\ OnlySupervised' /\ OwnServer'
      BY <3>1 DEF IInv, InOrder, OnlySupervised, Supervised, OwnServer, Alive, Holds, InExample, Example, Main
    <3>4. ProbeVouches' /\ Progress'
      BY <3>1 DEF IInv, ProbeVouches, Progress, Complete, Passed, Failed, Fate, LastRow, ProbeRow
    <3>5. OnTrack'
      <4>1. Example' = Example /\ Step' = Step /\ Healthy' = Healthy /\ Failed' = Failed
        BY <3>1 DEF Example, Step, Healthy, Failed
      <4>2. AsExpected' = AsExpected /\ (ServersUp => ServersUp') /\ (StoreReckoned => StoreReckoned')
        BY <3>1, <4>1 DEF AsExpected, ServersUp, Supervised, StoreReckoned
      <4>3. ClientOnTrack => ClientOnTrack'
        BY <3>1, <4>2 DEF ClientOnTrack
      <4>4. QED
        BY <3>1, <4>1, <4>2, <4>3 DEF IInv, OnTrack
    <3>6. QED
      BY <3>2, <3>3, <3>4, <3>5 DEF IInv
  <2>3. QED
    BY <2>1, <2>2
<1>2. QED
  BY <1>1, Initially, PTL DEF Spec

(* Every variable keeps its type, and the runner its place in the table.   *)
THEOREM TypeCorrect == Spec => []TypeOK
BY RunnerInvariant, PTL DEF IInv

(* No server survives its example and none answers for one of another      *)
(* invocation, and no two clients overlap, whatever fails on the way, as   *)
(* long as every invocation was left to stop its processes.                *)
THEOREM NothingIsLeftRunning == Spec => []NothingLeftRunning
<1>1. IInv => NothingLeftRunning
  <2> SUFFICES ASSUME IInv, ~dirty, NEW r \in Runs, NEW p \in Ports \cup {Client}, Alive(r, p)
               PROVE  r = run /\ IF p = Client THEN pc = "client" ELSE InExample /\ p \in ChainOf(ex)
    BY DEF NothingLeftRunning
  <2>1. /\ r = run /\ InExample
        /\ IF p = Client THEN pc = "client" ELSE \E i \in DOMAIN Example.servers : p = Example.servers[i]
    BY Indices DEF IInv, OnlySupervised
  <2>2. QED
    BY <2>1 DEF ChainOf, Example
<1>2. QED
  BY <1>1, RunnerInvariant, PTL

(* A probe that passes vouches for the rows before it.                     *)
THEOREM ProbesVouch == Spec => []ProbeVouches
BY RunnerInvariant, PTL DEF IInv

(* An exit code of 0 means that nothing was left out and nothing failed.   *)
THEOREM GreenRunsAreComplete == Spec => []GreenIsComplete
<1>1. IInv => GreenIsComplete
  <2> SUFFICES ASSUME IInv, pc = "exited", exit = 0, NEW e \in DOMAIN Examples, Fate(e) = "run",
                      NEW s \in StartRow..LastRow(e)
               PROVE  Passed(e, s) /\ ~\E row \in rows : row.ex = e /\ row.step = s /\ row.status = "fail"
    BY DEF GreenIsComplete
  <2>1. ~Failed /\ Complete(e, LastRow(e))
    BY DEF IInv, Progress
  <2>2. QED
    BY <2>1 DEF Complete, Failed
<1>2. QED
  BY <1>1, RunnerInvariant, PTL

(* No false alarm: where the table is right about clients that run one     *)
(* after the other, no interleaving of runner, servers, clients and timers *)
(* makes a run without faults fail.                                        *)
THEOREM HealthyRunsAreGreen == Spec => []HealthyIsGreen
<1>1. IInv => HealthyIsGreen
  BY DEF IInv, OnTrack, Healthy, HealthyIsGreen
<1>2. QED
  BY <1>1, RunnerInvariant, PTL
=============================================================================
