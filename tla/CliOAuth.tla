------------------------------ MODULE CliOAuth ------------------------------
(***************************************************************************)
(* The command-line clients: src/shared/client/oauth-cli.ts and its twin   *)
(* in examples/11-python-mcp-keycloak/client.py, run again and again, by   *)
(* several processes at once, against servers that restart.                *)
(*                                                                         *)
(* A process keeps its registration and tokens in memory and in a store    *)
(* file that it shares with every other process of its kind; all of them   *)
(* share one callback port.  A login is known by its nonce, which stands   *)
(* for the state and the PKCE verifier drawn for it, for the code issued   *)
(* to it and for the family of the tokens that code buys.                  *)
(*                                                                         *)
(* The servers: the embedded one of example 03, which rotates refresh      *)
(* tokens, burns a family whose rotated token comes back and forgets all   *)
(* on a restart; the Keycloak facade of example 06, which forgets only the *)
(* registrations that went through it; and Keycloak itself, which the      *)
(* Python client talks to and which stays up.                              *)
(***************************************************************************)
EXTENDS Integers, FiniteSets

CONSTANTS
  Procs,        \* slots for processes
  Setups,       \* [kind: per process "ts" or "py", server, static: OAUTH_CLIENT_ID is set]
  None,         \* nothing stored, nobody, no answer
  Seeded,       \* the pre-registered client mcp-cli
  Direct,       \* the Python client's registration at Keycloak
  MaxRuns,      \* bound on the runs started
  MaxLogins,    \* bound on the logins begun
  MaxClients,   \* bound on the dynamic registrations
  MaxSerial,    \* bound on the refreshes of a family
  MaxRestarts   \* bound on the restarts of the server

ASSUME Bounds ==
  /\ {MaxRuns, MaxLogins, MaxClients, MaxSerial, MaxRestarts} \subseteq Nat
  /\ Setups \subseteq [kind : [Procs -> {"ts", "py"}], server : {"embedded", "facade"},
                       static : BOOLEAN]

VARIABLES
  setup,    \* the configuration, fixed for a behaviour
  procs,    \* per process: where it is and what it has in memory
  store,    \* per kind: the store file; one that cannot be parsed is Empty
  port,     \* the process bound to the callback port, or None
  tabs,     \* authorization URLs shown so far; the user may come back to any
  known,    \* dynamic registrations the server knows
  codes,    \* logins with an unspent code
  chain,    \* per login: serial of its newest refresh token, Unknown or Burned
  fresh,    \* tokens whose access token is still valid
  counts,   \* counters behind the bounds
  excused   \* history: an answer or a write was lost, or two runs overlapped

vars == <<setup, procs, store, port, tabs, known, codes, chain, fresh, counts, excused>>
serverVars == <<known, codes, chain, fresh>>

Unknown == -1
Burned == -2
Nonces == 1..MaxLogins
Clients == {Seeded, Direct} \cup 1..MaxClients
TokenSets == [family: Nonces, serial: 0..MaxSerial]
Empty == [client |-> None, tokens |-> None]
Off == [pc |-> "off", later |-> FALSE, retried |-> FALSE, client |-> None, tokens |-> None,
        nonce |-> None, heard |-> None]

Init ==
  /\ setup \in Setups
  /\ procs = [p \in Procs |-> Off]
  /\ store = [k \in {"ts", "py"} |-> Empty]
  /\ port = None /\ tabs = {}
  /\ known = {} /\ codes = {} /\ chain = [n \in Nonces |-> Unknown] /\ fresh = {}
  /\ counts = [runs |-> 0, logins |-> 0, clients |-> 0, restarts |-> 0]
  /\ excused = FALSE

(***************************************************************************)
(* What a process has, and how it is saved                                 *)
(***************************************************************************)
Kind(p) == setup.kind[p]
Ts(p) == Kind(p) = "ts"
Alive(p) == procs[p].pc \notin {"off", "failed"}
Data(p) == [client |-> procs[p].client, tokens |-> procs[p].tokens]

(* clientInformation(): the configured client wins over the stored one.    *)
ClientOf(p, data) == IF Ts(p) /\ setup.static THEN Seeded ELSE data.client

(* load(): a missing file and one that does not parse are an empty store.  *)
Loaded(p) == store[Kind(p)]

(* The Python client loads the file and replaces the field it was given.   *)
PyWritten(p, data) ==
  [client |-> IF data.client # procs[p].client THEN data.client ELSE Loaded(p).client,
   tokens |-> IF data.tokens # procs[p].tokens THEN data.tokens ELSE Loaded(p).tokens]

(* The TypeScript client writes all it has in memory.                      *)
Written(p, data) == IF Ts(p) THEN data ELSE PyWritten(p, data)

Become(p, r) == procs' = [procs EXCEPT ![p] = r]

(* save(), after which the process goes on as r.  The file is written in   *)
(* place: a crash in the middle leaves one that does not parse.            *)
Persist(p, data, r) ==
  \/ /\ store' = [store EXCEPT ![Kind(p)] = Written(p, data)]
     /\ Become(p, [r EXCEPT !.client = data.client, !.tokens = data.tokens])
     /\ UNCHANGED excused
  \/ /\ store' = [store EXCEPT ![Kind(p)] = Empty]
     /\ Become(p, Off)
     /\ excused' = TRUE

SaveClient(p, id) == [Data(p) EXCEPT !.client = id]
SaveTokens(p, tokens) == [Data(p) EXCEPT !.tokens = tokens]

(* invalidateCredentials(): "all" when the server does not know the        *)
(* client, "tokens" when it refuses what the client sent.                  *)
Invalidated(p, scope) == IF scope = "all" THEN Empty ELSE [Data(p) EXCEPT !.tokens = None]

Failed == [Off EXCEPT !.pc = "failed"]

(* Mutant: a failed call leaves the listener up.                           *)
CancelledNever(p) == port

(* cancelCallback(), or the listener's own close: the port is free again.  *)
Cancelled(p) == IF port = p THEN None ELSE port
Fail(p) == Become(p, Failed) /\ port' = Cancelled(p)

(* Where auth() of the SDK goes next with what is stored (external).       *)
AuthStep(p, data) ==
  CASE ClientOf(p, data) = None -> "registering"
    [] Ts(p) /\ ClientOf(p, data) # None /\ data.tokens # None -> "refreshing"
    [] OTHER -> "login"

(***************************************************************************)
(* The servers                                                             *)
(***************************************************************************)
Knows(c) == c \in {Seeded, Direct} \cup known
Rotates(p) == Ts(p) /\ setup.server = "embedded"
IsDirect(n) == \E t \in tabs : t.nonce = n /\ t.client = Direct

(* Reuse of a rotated refresh token revokes its whole family.  The token   *)
(* with the serial MaxSerial has expired when it is used.                  *)
Replayed(p, t) == Rotates(p) /\ chain[t.family] > t.serial
Refreshable(p, t) == chain[t.family] \in 0..(MaxSerial - 1) /\ ~Replayed(p, t)

(* Mutant: a burned family keeps its access tokens.                        *)
RefreshEffectKeepsTokens(p, t) ==
  IF Knows(ClientOf(p, Data(p))) /\ Replayed(p, t)
    THEN chain' = [chain EXCEPT ![t.family] = Burned] /\ UNCHANGED fresh
  ELSE IF Knows(ClientOf(p, Data(p))) /\ Refreshable(p, t)
    THEN /\ chain' = [chain EXCEPT ![t.family] = @ + 1]
         /\ fresh' = fresh \cup {[t EXCEPT !.serial = chain[t.family] + 1]}
  ELSE UNCHANGED <<chain, fresh>>

RefreshEffect(p, t) ==
  IF ~Knows(ClientOf(p, Data(p))) THEN UNCHANGED <<chain, fresh>>
  ELSE IF Replayed(p, t)
    THEN /\ chain' = [chain EXCEPT ![t.family] = Burned]
         /\ fresh' = {u \in fresh : u.family # t.family}
  ELSE IF Refreshable(p, t)
    THEN /\ chain' = [chain EXCEPT ![t.family] = @ + 1]
         /\ fresh' = fresh \cup {[t EXCEPT !.serial = chain[t.family] + 1]}
  ELSE UNCHANGED <<chain, fresh>>

(* The code is exchanged with the verifier of the login in memory.         *)
Buys(p) ==
  LET n == procs[p].heard.nonce IN
  /\ Knows(ClientOf(p, Data(p)))
  /\ n \in codes /\ n = procs[p].nonce

ExchangeEffect(p) ==
  LET n == procs[p].heard.nonce IN
  IF Buys(p)
    THEN /\ codes' = codes \ {n}
         /\ chain' = [chain EXCEPT ![n] = 0]
         /\ fresh' = fresh \cup {[family |-> n, serial |-> 0]}
    ELSE UNCHANGED <<codes, chain, fresh>>

(***************************************************************************)
(* A run: start, connect, and what auth() does when the server says 401    *)
(***************************************************************************)
Sharing(p) == \E q \in Procs \ {p} : Alive(q) /\ Kind(q) = Kind(p)

Start(p) ==
  /\ procs[p].pc = "off" /\ counts.runs < MaxRuns
  /\ counts' = [counts EXCEPT !.runs = @ + 1]
  /\ Become(p, [Off EXCEPT !.pc = "connecting", !.client = Loaded(p).client,
                            !.tokens = Loaded(p).tokens])
  /\ excused' = (excused \/ Sharing(p))
  /\ UNCHANGED <<setup, store, port, tabs, serverVars>>

LogOut(p) ==
  /\ procs[p].pc = "off" /\ store[Kind(p)] # Empty
  /\ store' = [store EXCEPT ![Kind(p)] = Empty]
  /\ UNCHANGED <<setup, procs, port, tabs, serverVars, counts, excused>>

Connect(p) ==
  /\ procs[p].pc = "connecting"
  /\ \/ /\ procs[p].tokens \in fresh
        /\ Become(p, [procs[p] EXCEPT !.pc = "connected", !.later = TRUE, !.retried = FALSE])
        /\ UNCHANGED port
     \/ /\ procs[p].tokens \notin fresh /\ ~procs[p].retried
        /\ Become(p, [procs[p] EXCEPT !.pc = AuthStep(p, Data(p))])
        /\ UNCHANGED port
     \/ procs[p].tokens \notin fresh /\ procs[p].retried /\ Fail(p)
     \/ Fail(p)   \* the server cannot be reached
  /\ UNCHANGED <<setup, store, tabs, serverVars, counts, excused>>

(* The Python SDK may refresh a token before it uses it (external).        *)
RefreshFirst(p) ==
  /\ procs[p].pc = "connecting" /\ ~Ts(p) /\ procs[p].tokens # None /\ ~procs[p].retried
  /\ Become(p, [procs[p] EXCEPT !.pc = "refreshing"])
  /\ UNCHANGED <<setup, store, port, tabs, serverVars, counts, excused>>

Register(p) ==
  /\ procs[p].pc = "registering" /\ (Ts(p) => counts.clients < MaxClients)
  /\ LET id == IF Ts(p) THEN counts.clients + 1 ELSE Direct
         data == SaveClient(p, id) IN
     /\ IF Ts(p)
          THEN /\ known' = known \cup {id}
               /\ counts' = [counts EXCEPT !.clients = id]
          ELSE UNCHANGED <<known, counts>>
     /\ \/ Persist(p, data, [procs[p] EXCEPT !.pc = AuthStep(p, data)])
        \/ Become(p, Failed) /\ UNCHANGED <<store, excused>>   \* the answer is lost
  /\ UNCHANGED <<setup, port, tabs, codes, chain, fresh>>

(* Discovery, or the registration itself, fails.                           *)
AuthFails(p) ==
  /\ procs[p].pc \in {"registering", "login"}
  /\ Fail(p)
  /\ UNCHANGED <<setup, store, tabs, serverVars, counts, excused>>

Refusal(p) == IF Knows(ClientOf(p, Data(p))) THEN "tokens" ELSE "all"

(* Refused or lost: a TypeScript client drops what the server does not     *)
(* know (invalidateCredentials) and tries again, or logs in anew with the  *)
(* old tokens still stored; the Python SDK forgets them in memory only.    *)
RefreshRefused(p) ==
  LET data == Invalidated(p, Refusal(p)) IN
  IF Ts(p) THEN Persist(p, data, [procs[p] EXCEPT !.pc = AuthStep(p, data)])
  ELSE /\ Become(p, [procs[p] EXCEPT !.pc = "connecting", !.tokens = None])
       /\ UNCHANGED <<store, excused>>

(* Mutant: refreshed tokens stay in memory.                                *)
RefreshAnsweredUnsaved(p) ==
  LET t == procs[p].tokens IN
  IF Knows(ClientOf(p, Data(p))) /\ Refreshable(p, t)
    THEN /\ Become(p, [procs[p] EXCEPT !.pc = "connecting", !.retried = TRUE,
                                       !.tokens.serial = chain[t.family] + 1])
         /\ UNCHANGED <<store, excused>>
    ELSE RefreshRefused(p)

RefreshAnswered(p) ==
  LET t == procs[p].tokens IN
  IF Knows(ClientOf(p, Data(p))) /\ Refreshable(p, t)
    THEN Persist(p, SaveTokens(p, [t EXCEPT !.serial = chain[t.family] + 1]),
                 [procs[p] EXCEPT !.pc = "connecting", !.retried = TRUE])
    ELSE RefreshRefused(p)

RefreshLost(p) ==
  /\ Become(p, IF Ts(p) THEN [procs[p] EXCEPT !.pc = "login"]
                        ELSE [procs[p] EXCEPT !.pc = "connecting", !.tokens = None])
  /\ UNCHANGED store

Refresh(p) ==
  /\ procs[p].pc = "refreshing"
  /\ \/ RefreshEffect(p, procs[p].tokens) /\ RefreshAnswered(p)
     \/ RefreshEffect(p, procs[p].tokens) /\ RefreshLost(p) /\ excused' = TRUE
     \/ RefreshLost(p) /\ UNCHANGED <<chain, fresh, excused>>   \* never arrived
  /\ UNCHANGED <<setup, port, tabs, known, codes, counts>>

(***************************************************************************)
(* A login: state and verifier, the listener, the browser, the exchange    *)
(***************************************************************************)
BeginLogin(p) ==
  /\ procs[p].pc = "login" /\ counts.logins < MaxLogins
  /\ counts' = [counts EXCEPT !.logins = @ + 1]
  /\ LET r == [procs[p] EXCEPT !.pc = "binding", !.nonce = counts.logins + 1, !.heard = None] IN
     IF Ts(p) THEN Persist(p, Data(p), r) ELSE Become(p, r) /\ UNCHANGED <<store, excused>>
  /\ UNCHANGED <<setup, port, tabs, serverVars>>

(* The listener is bound before the URL is shown.                          *)
Bind(p) ==
  /\ procs[p].pc = "binding" /\ port = None
  /\ port' = p
  /\ tabs' = tabs \cup {[nonce |-> procs[p].nonce, client |-> ClientOf(p, Data(p))]}
  /\ Become(p, [procs[p] EXCEPT !.pc = "shown"])
  /\ UNCHANGED <<setup, store, serverVars, counts, excused>>

(* The port is busy: fatal at once here, after 30 s of retries in Python.  *)
BindFails(p) ==
  /\ procs[p].pc = "binding" /\ port # None
  /\ Fail(p)
  /\ UNCHANGED <<setup, store, tabs, serverVars, counts, excused>>

(* Only the first connection waits for the user: a later one that asks for *)
(* a login fails, and takes the listener down.                             *)
AwaitCallback(p) ==
  /\ procs[p].pc = "shown"
  /\ IF procs[p].later /\ Ts(p) THEN Fail(p)
     ELSE Become(p, [procs[p] EXCEPT !.pc = "waiting"]) /\ UNCHANGED port
  /\ UNCHANGED <<setup, store, tabs, serverVars, counts, excused>>

(* GET /callback at whoever owns the port.  The TypeScript listener takes  *)
(* the answer to its own request, once; the Python listener takes any, and *)
(* keeps the last one until it is read.                                    *)
AnyAnswer(p, answer) == TRUE   \* mutant: no check of the state

Ours(p, answer) == answer.nonce = procs[p].nonce

Hear(answer) == Become(port, [procs[port] EXCEPT !.heard = answer])

TsCallback(answer) ==
  IF Ours(port, answer) THEN Hear(answer) /\ port' = None ELSE UNCHANGED <<procs, port>>

PyCallback(answer) == Hear(answer) /\ UNCHANGED port

Callback(answer) ==
  IF port = None THEN UNCHANGED <<procs, port>>
  ELSE IF Ts(port) THEN TsCallback(answer) ELSE PyCallback(answer)

(* The user consents or declines in a tab, old or new; a client the server *)
(* has forgotten is an error page and no redirect.                         *)
Browse(t, verdict) ==
  /\ Knows(t.client)
  /\ codes' = IF verdict = "code" THEN codes \cup {t.nonce} ELSE codes
  /\ Callback([nonce |-> t.nonce, verdict |-> verdict])
  /\ UNCHANGED <<setup, store, tabs, known, chain, fresh, counts, excused>>

(* The Python SDK compares the state after the listener has settled.       *)
StateMatches(p) == procs[p].heard.nonce = procs[p].nonce

(* callback_handler() raises for an error and for an answer with no code.  *)
Accepted(p) == procs[p].heard.verdict = "code" /\ (Ts(p) \/ StateMatches(p))

TakeCallback(p) ==
  /\ procs[p].pc = "waiting" /\ procs[p].heard # None
  /\ IF Accepted(p)
       THEN Become(p, [procs[p] EXCEPT !.pc = "exchanging"]) /\ port' = Cancelled(p)
       ELSE Fail(p)
  /\ UNCHANGED <<setup, store, tabs, serverVars, counts, excused>>

TimeoutUnarmed(p) == FALSE   \* mutant: armTimeout() is not called

Timeout(p) ==
  /\ procs[p].pc = "waiting" /\ procs[p].heard = None
  /\ Fail(p)
  /\ UNCHANGED <<setup, store, tabs, serverVars, counts, excused>>

ExchangeAnswered(p) ==
  IF Buys(p)
    THEN Persist(p, SaveTokens(p, [family |-> procs[p].nonce, serial |-> 0]),
                 [procs[p] EXCEPT !.pc = "connecting", !.later = TRUE, !.retried = ~Ts(p),
                                  !.nonce = None, !.heard = None])
  ELSE IF Ts(p) THEN Persist(p, Invalidated(p, Refusal(p)), Failed)
  ELSE Become(p, Failed) /\ UNCHANGED <<store, excused>>

Exchange(p) ==
  /\ procs[p].pc = "exchanging"
  /\ \/ ExchangeEffect(p) /\ ExchangeAnswered(p)
     \/ ExchangeEffect(p) /\ Become(p, Failed) /\ UNCHANGED <<store, excused>>
     \/ Become(p, Failed) /\ UNCHANGED <<codes, chain, fresh, store, excused>>
  /\ UNCHANGED <<setup, port, tabs, known, counts>>

(***************************************************************************)
(* The demo, the end of a process, and what happens around it              *)
(***************************************************************************)
Use(p) ==
  /\ procs[p].pc = "connected" /\ procs[p].tokens \notin fresh
  /\ Become(p, [procs[p] EXCEPT !.pc = "connecting"])
  /\ UNCHANGED <<setup, store, port, tabs, serverVars, counts, excused>>

Exit(p) ==
  /\ procs[p].pc \in {"connected", "failed"}
  /\ Become(p, Off)
  /\ UNCHANGED <<setup, store, port, tabs, serverVars, counts, excused>>

Crash(p) ==
  /\ Alive(p)
  /\ Become(p, Off)
  /\ port' = IF port = p THEN None ELSE port
  /\ UNCHANGED <<setup, store, tabs, serverVars, counts, excused>>

Expire(t) ==
  /\ fresh' = fresh \ {t}
  /\ UNCHANGED <<setup, procs, store, port, tabs, known, codes, chain, counts, excused>>

Restart ==
  /\ counts.restarts < MaxRestarts
  /\ counts' = [counts EXCEPT !.restarts = @ + 1]
  /\ known' = {}
  /\ IF setup.server = "embedded"
       THEN /\ codes' = {n \in codes : IsDirect(n)}
            /\ chain' = [n \in Nonces |-> IF IsDirect(n) THEN chain[n] ELSE Unknown]
            /\ fresh' = {t \in fresh : IsDirect(t.family)}
       ELSE UNCHANGED <<codes, chain, fresh>>
  /\ UNCHANGED <<setup, procs, store, port, tabs, excused>>

(* What a process does on its own: everything but start, log out, crash.   *)
Run(p) ==
  \/ Connect(p) \/ RefreshFirst(p) \/ Register(p) \/ AuthFails(p) \/ Refresh(p)
  \/ BeginLogin(p) \/ Bind(p) \/ BindFails(p) \/ AwaitCallback(p)
  \/ TakeCallback(p) \/ Timeout(p) \/ Exchange(p) \/ Use(p) \/ Exit(p)

Next ==
  \/ \E p \in Procs : Run(p) \/ Start(p) \/ LogOut(p) \/ Crash(p)
  \/ \E t \in tabs, verdict \in {"code", "denied"} : Browse(t, verdict)
  \/ \E t \in fresh : Expire(t)
  \/ Restart

Spec == Init /\ [][Next]_vars

(* Node and asyncio run what is ready, requests are answered or fail, and  *)
(* the timer of a wait fires.  Nothing is assumed of the user.             *)
FairSpec == Spec /\ \A p \in Procs : WF_vars(Run(p))

(***************************************************************************)
(* Properties                                                              *)
(***************************************************************************)
Pcs == {"off", "failed", "connecting", "registering", "refreshing", "login", "binding",
        "shown", "waiting", "exchanging", "connected"}
Answers == [nonce: Nonces, verdict: {"code", "denied"}]
ProcType == [pc: Pcs, later: BOOLEAN, retried: BOOLEAN, client: Clients \cup {None},
             tokens: TokenSets \cup {None}, nonce: Nonces \cup {None},
             heard: Answers \cup {None}]
StoreType == [client: Clients \cup {None}, tokens: TokenSets \cup {None}]

ASSUME NothingElse == None \notin Procs \cup Clients \cup TokenSets \cup Nonces \cup Answers

(* Every value is of its kind, and what a server knows was issued by it.   *)
TypeOK ==
  /\ setup \in Setups /\ port \in Procs \cup {None} /\ excused \in BOOLEAN
  /\ procs \in [Procs -> ProcType]
  /\ store \in [{"ts", "py"} -> StoreType]
  /\ tabs \subseteq [nonce: 1..counts.logins, client: Clients]
  /\ known \subseteq 1..counts.clients /\ codes \subseteq 1..counts.logins
  /\ chain \in [Nonces -> {Unknown, Burned} \cup 0..MaxSerial]
  /\ \A t \in fresh : t \in TokenSets /\ t.serial <= chain[t.family]
  /\ counts \in [runs: 0..MaxRuns, logins: 0..MaxLogins, clients: 0..MaxClients,
                 restarts: 0..MaxRestarts]

(* The shared callback port is held exactly while a login waits for its    *)
(* answer: a call that failed, connected or went on to the exchange has    *)
(* let it go, and nobody waits on a port somebody else got meanwhile.      *)
PortReleased ==
  \A p \in Procs :
    /\ port = p => procs[p].pc \in {"shown", "waiting"}
    /\ procs[p].pc \in {"shown", "waiting"} /\ procs[p].heard = None => port = p

(* The code a process exchanges is the one its own newest login was given, *)
(* for the client it exchanges it as, whatever old tabs and other          *)
(* processes' tabs sent to the port.                                       *)
RightCode ==
  \A p \in Procs : procs[p].pc = "exchanging" =>
    [nonce |-> procs[p].heard.nonce, client |-> ClientOf(p, Data(p))]
      \in {t \in tabs : t.nonce = procs[p].nonce}

(* With no answer or write lost and no two runs at once, the refresh token *)
(* left in the store between runs is the newest of its family, or one the  *)
(* server has forgotten.                                                   *)
NewestStored ==
  LET t == store["ts"].tokens IN
  ~excused /\ t # None /\ (\A p \in Procs : Ts(p) => ~Alive(p))
    => chain[t.family] \in {t.serial, Unknown}

(* A family is burned only after an answer or a write was lost or two runs *)
(* overlapped: one run after another never replays a rotated token.        *)
BurnedOnlyByLoss == (\E n \in Nonces : chain[n] = Burned) => excused

(* Every run ends: it connects and exits, or fails, though the user never  *)
(* answers, the port stays busy or the answer went to a stale tab.         *)
EveryRunEnds == \A p \in Procs : Alive(p) ~> ~Alive(p)

(***************************************************************************)
(* What the safety properties rest on; CliOAuth_proofs proves it           *)
(***************************************************************************)
(* A process that is not running holds nothing; one that logs in has a     *)
(* client and a nonce, and what it took to the exchange answers its login. *)
Sane(p, r) ==
  /\ r.pc \in {"off", "failed"} => r.tokens = None /\ r.nonce = None
  /\ (r.pc \in {"login", "binding"} \/ (r.pc = "refreshing" /\ Ts(p))) =>
       ClientOf(p, [client |-> r.client, tokens |-> r.tokens]) # None
  /\ r.pc = "refreshing" => r.tokens # None
  /\ r.pc \in {"binding", "shown", "waiting", "exchanging"} => r.nonce # None
  /\ r.pc = "binding" => r.heard = None
  /\ Ts(p) /\ r.pc \in {"shown", "waiting"} /\ r.heard # None => r.heard.nonce = r.nonce
  /\ r.pc = "exchanging" => r.heard # None /\ r.heard.nonce = r.nonce

(* Its URL was shown.                                                      *)
TabOf(p, r) ==
  [nonce |-> r.nonce, client |-> ClientOf(p, [client |-> r.client, tokens |-> r.tokens])]

Shown(p, r, urls) == r.pc \in {"shown", "waiting", "exchanging"} => TabOf(p, r) \in urls

Saneness == \A p \in Procs : Sane(p, procs[p]) /\ Shown(p, procs[p], tabs)

(* A login under way is nobody else's, and nothing was bought with it.     *)
LoginsApart ==
  /\ \A p \in Procs : procs[p].nonce # None =>
       /\ procs[p].nonce <= counts.logins /\ chain[procs[p].nonce] = Unknown
       /\ \A q \in Procs \ {p} : procs[q].nonce # procs[p].nonce
  /\ \A n \in Nonces : n > counts.logins => chain[n] = Unknown

(* Tokens are of a login that is over, and of one kind of client.          *)
Holds(k, t) == t # None /\ (store[k].tokens = t \/ \E p \in Procs : Kind(p) = k /\ procs[p].tokens = t)

FamiliesApart ==
  /\ \A k \in {"ts", "py"}, t \in TokenSets : Holds(k, t) =>
       t.family <= counts.logins /\ \A p \in Procs : procs[p].nonce # t.family
  /\ \A t, u \in TokenSets : Holds("ts", t) /\ Holds("py", u) => t.family # u.family

(* While nothing was lost and no two runs overlapped, one process at most  *)
(* runs, the store has what it has or was emptied, and all of it is of the *)
(* newest of its family.                                                   *)
Newest(t) == t # None => chain[t.family] \in {t.serial, Unknown}

OrderlyRuns ==
  ~excused =>
  /\ \A p, q \in Procs : Ts(p) /\ Ts(q) /\ Alive(p) /\ Alive(q) => p = q
  /\ \A p \in Procs : Ts(p) /\ Alive(p) => store["ts"].tokens \in {None, procs[p].tokens}
  /\ \A p \in Procs : Ts(p) => Newest(procs[p].tokens)
  /\ Newest(store["ts"].tokens)
  /\ \A n \in Nonces : chain[n] # Burned

IInv ==
  /\ TypeOK /\ PortReleased /\ Saneness
  /\ LoginsApart /\ FamiliesApart /\ OrderlyRuns
=============================================================================
