--------------------------- MODULE CliOAuth_proofs ---------------------------
(***************************************************************************)
(* Proofs about CliOAuth, for every value of its constants.                *)
(***************************************************************************)
EXTENDS CliOAuth, TLAPS

LEMMA OffType == Off \in ProcType /\ Failed \in ProcType /\ Empty \in StoreType
BY DEF Off, Failed, Empty, ProcType, StoreType, Pcs

LEMMA Idle ==
  /\ Off.pc = "off" /\ Off.tokens = None /\ Off.nonce = None
  /\ Failed.pc = "failed" /\ Failed.tokens = None /\ Failed.nonce = None
  /\ \A p \in Procs : Sane(p, Off) /\ Sane(p, Failed)
<1>1. Off.pc = "off" /\ Off.tokens = None /\ Off.nonce = None
  BY DEF Off
<1>2. Failed.pc = "failed" /\ Failed.tokens = None /\ Failed.nonce = None
  BY DEF Off, Failed
<1>3. QED
  BY <1>1, <1>2 DEF Sane

(* What is known of one process.                                           *)
LEMMA OneProcess ==
  ASSUME IInv, NEW p \in Procs
  PROVE  /\ procs[p] \in ProcType /\ Sane(p, procs[p]) /\ Shown(p, procs[p], tabs)
         /\ Kind(p) \in {"ts", "py"} /\ store[Kind(p)] \in StoreType
         /\ Data(p) \in StoreType
BY Bounds DEF IInv, TypeOK, Saneness, Kind, Data, ProcType, StoreType

LEMMA WrittenType ==
  ASSUME IInv, NEW p \in Procs, NEW data \in StoreType
  PROVE  /\ Written(p, data) \in StoreType
         /\ Ts(p) => Written(p, data) = data
         /\ Written(p, data).tokens \in {data.tokens, store[Kind(p)].tokens}
BY OneProcess DEF Written, PyWritten, Loaded, StoreType

(***************************************************************************)
(* A step in which one process goes on, one part of the invariant at a     *)
(* time                                                                    *)
(***************************************************************************)
LEMMA PortStep ==
  ASSUME IInv, NEW p \in Procs, NEW r \in ProcType, Become(p, r),
         port' = port \/ (port = p /\ port' = None) \/ (port = None /\ port' = p),
         port' = p => r.pc \in {"shown", "waiting"},
         r.pc \in {"shown", "waiting"} /\ r.heard = None => port' = p
  PROVE  PortReleased'
BY NothingElse DEF IInv, PortReleased, TypeOK, Become

LEMMA SaneStep ==
  ASSUME IInv, NEW p \in Procs, NEW r \in ProcType, Become(p, r), setup' = setup,
         Sane(p, r), tabs \subseteq tabs',
         r.pc \in {"shown", "waiting", "exchanging"} => TabOf(p, r) \in tabs'
  PROVE  Saneness'
<1>1. procs'[p] = r /\ \A q \in Procs \ {p} : procs'[q] = procs[q]
  BY DEF IInv, TypeOK, Become
<1>2. Sane(p, procs[p])' /\ Shown(p, procs[p], tabs)'
  BY <1>1 DEF Sane, Shown, TabOf, ClientOf, Ts, Kind
<1>3. ASSUME NEW q \in Procs \ {p} PROVE Sane(q, procs[q])' /\ Shown(q, procs[q], tabs)'
  <2>1. Sane(q, procs[q]) /\ Shown(q, procs[q], tabs)
    BY DEF IInv, Saneness
  <2>2. QED
    BY <1>1, <2>1 DEF Sane, Shown, TabOf, ClientOf, Ts, Kind
<1>4. QED
  BY <1>2, <1>3 DEF Saneness

(* The tokens are of a family that the clients of this kind hold.          *)
Inherits(k, t) == t = None \/ \E u \in TokenSets : Holds(k, u) /\ u.family = t.family

LEMMA ApartStep ==
  ASSUME IInv, NEW p \in Procs, NEW r \in ProcType, Become(p, r), setup' = setup,
         counts'.logins = counts.logins, r.nonce \in {None, procs[p].nonce},
         \A n \in Nonces : chain'[n] # chain[n] => chain[n] # Unknown,
         Inherits(Kind(p), r.tokens),
         NEW f \in StoreType, store' = [store EXCEPT ![Kind(p)] = f],
         Inherits(Kind(p), f.tokens)
  PROVE  LoginsApart' /\ FamiliesApart'
<1>1. procs'[p] = r /\ \A q \in Procs \ {p} : procs'[q] = procs[q]
  BY DEF IInv, TypeOK, Become
<1>2. \A q \in Procs : procs'[q].nonce \in {None, procs[q].nonce}
  BY <1>1
<1>3. LoginsApart'
  BY <1>2, OneProcess, NothingElse DEF IInv, LoginsApart, ProcType
<1>4. ASSUME NEW k \in {"ts", "py"}, NEW t \in TokenSets, Holds(k, t)'
      PROVE  \E u \in TokenSets : Holds(k, u) /\ u.family = t.family
  <2>1. store'[Kind(p)] = f /\ (k # Kind(p) => store'[k] = store[k])
    BY OneProcess DEF IInv, TypeOK
  <2>2. CASE store'[k].tokens = t
    BY <1>4, <2>1, <2>2 DEF Inherits, Holds
  <2>3. CASE \E q \in Procs : Kind(q)' = k /\ procs'[q].tokens = t
    BY <1>1, <1>4, <2>3 DEF Inherits, Holds, Kind
  <2>4. QED
    BY <1>4, <2>2, <2>3 DEF Holds
<1>5. \A k \in {"ts", "py"}, t \in TokenSets : Holds(k, t)' =>
        t.family <= counts'.logins /\ \A q \in Procs : procs'[q].nonce # t.family
  BY <1>2, <1>4, NothingElse DEF IInv, FamiliesApart, TokenSets
<1>6. \A t, u \in TokenSets : Holds("ts", t)' /\ Holds("py", u)' => t.family # u.family
  BY <1>4 DEF IInv, FamiliesApart
<1>7. QED
  BY <1>3, <1>5, <1>6 DEF FamiliesApart

(* Another process of its kind is off while p runs and nothing overlaps,   *)
(* so what p holds and stores decides.                                     *)
LEMMA OrderStep ==
  ASSUME IInv, NEW p \in Procs, NEW r \in ProcType, Become(p, r), setup' = setup,
         Sane(p, r), excused => excused',
         NEW f \in StoreType,
         Alive(p) \/ (r.pc \in {"off", "failed"} /\ f = store[Kind(p)] /\ chain' = chain), store' = [store EXCEPT ![Kind(p)] = f],
         ~Ts(p) /\ ~excused' =>
           /\ \A t \in TokenSets : Holds("ts", t) => chain'[t.family] = chain[t.family]
           /\ \A n \in Nonces : chain'[n] # Burned,
         Ts(p) /\ ~excused' =>
           /\ r.pc \notin {"off", "failed"} => f.tokens \in {None, r.tokens}
           /\ \A t \in {r.tokens, f.tokens} : t # None => chain'[t.family] \in {t.serial, Unknown}
           /\ \A n \in Nonces : chain'[n] # Burned
  PROVE  OrderlyRuns'
<1> SUFFICES ASSUME ~excused' PROVE OrderlyRuns'
  BY DEF OrderlyRuns
<1>1. procs'[p] = r /\ \A q \in Procs \ {p} : procs'[q] = procs[q]
  BY DEF IInv, TypeOK, Become
<1>2. store'[Kind(p)] = f /\ \A k \in {"ts", "py"} \ {Kind(p)} : store'[k] = store[k]
  BY OneProcess DEF IInv, TypeOK
<1>3. ~excused /\ \A q \in Procs : Kind(q)' = Kind(q) /\ Kind(q) \in {"ts", "py"}
  BY OneProcess DEF Kind
<1>4. \A q \in Procs \ {p} : Alive(q)' <=> Alive(q)
  BY <1>1 DEF Alive
<1>5. Alive(p)' => Alive(p)
  BY <1>1 DEF Alive
<1>6. \A q1, q2 \in Procs : (Ts(q1) /\ Ts(q2) /\ Alive(q1) /\ Alive(q2))' => q1 = q2
  BY <1>3, <1>4, <1>5 DEF IInv, OrderlyRuns, Ts
<1>7. CASE ~Ts(p)
  <2>1. store'["ts"] = store["ts"] /\ Kind(p) = "py"
    BY <1>2, <1>3, <1>7 DEF Ts
  <2>2. ASSUME NEW q \in Procs, Ts(q)'
        PROVE  /\ Alive(q)' => store'["ts"].tokens \in {None, procs'[q].tokens}
               /\ Newest(procs[q].tokens)'
    <3>1. Ts(q) /\ procs'[q] = procs[q]
      BY <1>1, <1>3, <1>7, <2>2 DEF Ts
    <3>2. procs[q].tokens # None => Holds("ts", procs[q].tokens) /\ procs[q].tokens \in TokenSets
      BY <3>1, OneProcess DEF Holds, Ts, ProcType
    <3>3. QED
      BY <1>3, <1>4, <1>7, <2>1, <3>1, <3>2 DEF IInv, OrderlyRuns, Newest
  <2>3. store["ts"].tokens # None => Holds("ts", store["ts"].tokens) /\ store["ts"].tokens \in TokenSets
    BY DEF Holds, IInv, TypeOK, StoreType
  <2>4. Newest(store["ts"].tokens)'
    BY <1>3, <1>7, <2>1, <2>3 DEF IInv, OrderlyRuns, Newest
  <2>5. QED
    BY <1>3, <1>6, <1>7, <2>2, <2>4 DEF OrderlyRuns
<1>8. CASE Ts(p)
  <2>1. store'["ts"] = f
    BY <1>2, <1>8 DEF Ts
  <2>2. ASSUME NEW q \in Procs, Ts(q)'
        PROVE  /\ Alive(q)' => store'["ts"].tokens \in {None, procs'[q].tokens}
               /\ Newest(procs[q].tokens)'
    <3>1. CASE q = p
      BY <1>1, <1>8, <2>1, <3>1 DEF Newest, Alive
    <3>2. CASE q # p /\ Alive(p)
      <4>1. ~Alive(q) /\ procs'[q] = procs[q] /\ ~Alive(q)'
        BY <1>1, <1>3, <1>4, <1>8, <2>2, <3>2 DEF IInv, OrderlyRuns, Ts
      <4>2. procs[q].tokens = None
        BY <4>1, OneProcess DEF Alive, Sane
      <4>3. QED
        BY <4>1, <4>2 DEF Newest
    <3>3. CASE q # p /\ ~Alive(p)
      <4>1. procs'[q] = procs[q] /\ store'["ts"] = store["ts"] /\ chain' = chain
        BY <1>1, <1>8, <2>1, <3>3 DEF Ts
      <4>2. QED
        BY <1>3, <1>4, <2>2, <3>3, <4>1 DEF IInv, OrderlyRuns, Newest, Ts
    <3>4. QED
      BY <3>1, <3>2, <3>3
  <2>3. Newest(store["ts"].tokens)'
    BY <1>8, <2>1 DEF Newest
  <2>4. QED
    BY <1>3, <1>6, <1>8, <2>2, <2>3 DEF OrderlyRuns
<1>9. QED
  BY <1>7, <1>8

(***************************************************************************)
(* The steps that leave the grants of the servers alone                    *)
(***************************************************************************)
(* A process goes on as r, with tokens it had, and its store becomes f.    *)
LEMMA QuietStep ==
  ASSUME IInv, NEW p \in Procs, NEW r \in ProcType, Become(p, r), Sane(p, r),
         UNCHANGED <<setup, chain, fresh>>, codes' \subseteq 1..counts.logins,
         tabs \subseteq tabs', tabs' \subseteq [nonce : 1..counts.logins, client : Clients],
         r.pc \in {"shown", "waiting", "exchanging"} => TabOf(p, r) \in tabs',
         counts' \in [runs : 0..MaxRuns, logins : 0..MaxLogins, clients : 0..MaxClients,
                      restarts : 0..MaxRestarts],
         counts'.logins = counts.logins, known' \subseteq 1..counts'.clients,
         r.nonce \in {None, procs[p].nonce}, r.tokens \in {None, procs[p].tokens},
         port' = port \/ (port = p /\ port' = None) \/ (port = None /\ port' = p),
         port' = p => r.pc \in {"shown", "waiting"},
         r.pc \in {"shown", "waiting"} /\ r.heard = None => port' = p,
         excused' \in BOOLEAN, excused => excused',
         NEW f \in StoreType, store' = [store EXCEPT ![Kind(p)] = f],
         f.tokens \in {None, procs[p].tokens, store[Kind(p)].tokens},
         Alive(p) \/ (r.pc \in {"off", "failed"} /\ f = store[Kind(p)]),
         Ts(p) /\ ~excused' /\ r.pc \notin {"off", "failed"} => f.tokens \in {None, r.tokens}
  PROVE  IInv'
<1>1. TypeOK'
  <2>1. procs' \in [Procs -> ProcType] /\ store' \in [{"ts", "py"} -> StoreType]
    BY DEF IInv, TypeOK, Become
  <2>2. port' \in Procs \cup {None}
    BY DEF IInv, TypeOK
  <2>3. QED
    BY <2>1, <2>2 DEF IInv, TypeOK
<1>2. PortReleased'
  BY PortStep
<1>3. Saneness'
  BY SaneStep
<1>4. procs[p].tokens # None => procs[p].tokens \in TokenSets /\ Holds(Kind(p), procs[p].tokens)
  BY OneProcess DEF ProcType, Holds
<1>5. store[Kind(p)].tokens # None =>
        store[Kind(p)].tokens \in TokenSets /\ Holds(Kind(p), store[Kind(p)].tokens)
  BY OneProcess DEF StoreType, Holds
<1>6. LoginsApart' /\ FamiliesApart'
  <2>1. Inherits(Kind(p), r.tokens) /\ Inherits(Kind(p), f.tokens)
    BY <1>4, <1>5 DEF Inherits
  <2>2. QED
    BY <2>1, ApartStep
<1>7. OrderlyRuns'
  <2>1. ASSUME ~excused'
        PROVE  \A n \in Nonces : chain'[n] # Burned
    BY <2>1 DEF IInv, OrderlyRuns
  <2>2. ASSUME ~excused', Ts(p)
        PROVE  \A t \in {r.tokens, f.tokens} : t # None => chain'[t.family] \in {t.serial, Unknown}
    BY <2>2 DEF IInv, OrderlyRuns, Newest, Ts
  <2>3. QED
    BY <2>1, <2>2, OrderStep
<1>8. QED
  BY <1>1, <1>2, <1>3, <1>6, <1>7 DEF IInv

(* The same when the store and the grants are left alone.                  *)
LEMMA MoveStep ==
  ASSUME IInv, NEW p \in Procs, NEW r \in ProcType, Become(p, r), Sane(p, r),
         UNCHANGED <<setup, store, chain, fresh>>, codes' \subseteq 1..counts.logins,
         tabs \subseteq tabs', tabs' \subseteq [nonce : 1..counts.logins, client : Clients],
         r.pc \in {"shown", "waiting", "exchanging"} => TabOf(p, r) \in tabs',
         counts' \in [runs : 0..MaxRuns, logins : 0..MaxLogins, clients : 0..MaxClients,
                      restarts : 0..MaxRestarts],
         counts'.logins = counts.logins, known' \subseteq 1..counts'.clients,
         r.nonce \in {None, procs[p].nonce},
         Alive(p) \/ r.pc \in {"off", "failed"},
         r.tokens = procs[p].tokens \/ (r.tokens = None /\
                        (~Ts(p) \/ r.pc \in {"off", "failed"})),
         port' = port \/ (port = p /\ port' = None) \/ (port = None /\ port' = p),
         port' = p => r.pc \in {"shown", "waiting"},
         r.pc \in {"shown", "waiting"} /\ r.heard = None => port' = p,
         excused' \in BOOLEAN, excused => excused'
  PROVE  IInv'
<1>1. PICK f \in StoreType : f = store[Kind(p)]
  BY OneProcess
<1>2. store' = [store EXCEPT ![Kind(p)] = f]
  BY <1>1, OneProcess DEF IInv, TypeOK
<1>3. Ts(p) /\ ~excused' /\ r.pc \notin {"off", "failed"} => f.tokens \in {None, r.tokens}
  BY <1>1 DEF IInv, OrderlyRuns, Ts, Kind
<1>4. QED
  BY <1>1, <1>2, <1>3, QuietStep

(* A process that fails, exits or crashes.                                 *)
LEMMA EndStep ==
  ASSUME IInv, NEW p \in Procs, procs' = [procs EXCEPT ![p] = Off] \/ Become(p, Failed),
         UNCHANGED <<setup, store, tabs, codes, chain, fresh>>,
         counts' \in [runs : 0..MaxRuns, logins : 0..MaxLogins, clients : 0..MaxClients,
                      restarts : 0..MaxRestarts],
         counts'.logins = counts.logins, known' \subseteq 1..counts'.clients,
         port' = Cancelled(p), excused' \in BOOLEAN, excused => excused'
  PROVE  IInv'
<1>1. PICK r \in ProcType : Become(p, r) /\ r \in {Off, Failed}
  BY OffType DEF Become
<1>2. r.pc \in {"off", "failed"} /\ r.tokens = None /\ r.nonce = None /\ Sane(p, r)
  BY <1>1, Idle
<1>3. tabs \subseteq [nonce : 1..counts.logins, client : Clients] /\ codes \subseteq 1..counts.logins
  BY DEF IInv, TypeOK
<1>4. port' = port \/ (port = p /\ port' = None)
  BY DEF Cancelled
<1>5. port' # p
  BY NothingElse DEF Cancelled
<1>6. QED
  BY <1>1, <1>2, <1>3, <1>4, <1>5, MoveStep

(* A process that saves what it has, with tokens it had, cut short or not. *)
LEMMA SaveStep ==
  ASSUME IInv, NEW p \in Procs, Alive(p), procs[p].pc \notin {"shown", "waiting"},
         NEW data \in StoreType, data.tokens \in {None, procs[p].tokens},
         NEW r \in ProcType, Persist(p, data, r),
         NEW s \in ProcType, s = [r EXCEPT !.client = data.client, !.tokens = data.tokens],
         Sane(p, s), s.pc \notin {"shown", "waiting", "exchanging"},
         s.nonce \in {None, procs[p].nonce},
         UNCHANGED <<setup, port, tabs, codes, chain, fresh>>,
         counts' \in [runs : 0..MaxRuns, logins : 0..MaxLogins, clients : 0..MaxClients,
                      restarts : 0..MaxRestarts],
         counts'.logins = counts.logins, known' \subseteq 1..counts'.clients
  PROVE  IInv'
<1>1. /\ port # p /\ excused \in BOOLEAN /\ codes \subseteq 1..counts.logins
      /\ tabs \subseteq [nonce : 1..counts.logins, client : Clients]
  BY DEF IInv, TypeOK, PortReleased
<1>2. CASE /\ store' = [store EXCEPT ![Kind(p)] = Written(p, data)]
           /\ Become(p, s) /\ UNCHANGED excused
  <2>1. PICK f \in StoreType : f = Written(p, data)
    BY WrittenType
  <2>2. f.tokens \in {data.tokens, store[Kind(p)].tokens} /\ (Ts(p) => f = data)
    BY <2>1, WrittenType
  <2>3. s.tokens = data.tokens
    BY DEF ProcType
  <2>4. s.pc \notin {"off", "failed"} => f.tokens \in {None, data.tokens, store[Kind(p)].tokens}
    BY <2>2
  <2>5. QED
    BY <1>1, <1>2, <2>1, <2>2, <2>3, QuietStep
<1>3. CASE store' = [store EXCEPT ![Kind(p)] = Empty] /\ Become(p, Off) /\ excused' = TRUE
  <2>1. Empty.tokens = None /\ Off \in ProcType /\ Empty \in StoreType
    BY OffType DEF Empty
  <2>2. Off.pc = "off" /\ Off.tokens = None /\ Off.nonce = None /\ Sane(p, Off)
    BY Idle
  <2>3. QED
    BY <1>1, <1>3, <2>1, <2>2, QuietStep
<1>4. QED
  BY <1>2, <1>3 DEF Persist

(* Where auth() goes, it has what it needs.                                *)
LEMMA AuthGoes ==
  ASSUME NEW p \in Procs, NEW data \in StoreType
  PROVE  /\ AuthStep(p, data) \in {"registering", "refreshing", "login"}
         /\ AuthStep(p, data) \in {"login", "refreshing"} => ClientOf(p, data) # None
         /\ AuthStep(p, data) = "refreshing" => data.tokens # None
BY DEF AuthStep

(***************************************************************************)
(* One lemma per action                                                    *)
(***************************************************************************)
LEMMA Bounded ==
  ASSUME IInv
  PROVE  /\ counts \in [runs : 0..MaxRuns, logins : 0..MaxLogins, clients : 0..MaxClients,
                        restarts : 0..MaxRestarts]
         /\ known \subseteq 1..counts.clients /\ excused \in BOOLEAN
         /\ tabs \subseteq [nonce : 1..counts.logins, client : Clients]
         /\ codes \subseteq 1..counts.logins
         /\ counts.logins \in Nat /\ counts.clients \in Nat
BY Bounds DEF IInv, TypeOK

LEMMA FailStep ==
  ASSUME IInv, NEW p \in Procs, Fail(p),
         UNCHANGED <<setup, store, tabs, serverVars, counts, excused>>
  PROVE  IInv'
BY EndStep, Bounded DEF Fail, serverVars

LEMMA ConnectStep == ASSUME IInv, NEW p \in Procs, Connect(p) PROVE IInv'
<1> USE DEF Connect
<1>1. CASE Become(p, [procs[p] EXCEPT !.pc = "connected", !.later = TRUE, !.retried = FALSE])
           /\ UNCHANGED port
  <2>1. PICK r : r = [procs[p] EXCEPT !.pc = "connected", !.later = TRUE, !.retried = FALSE]
    OBVIOUS
  <2>2. r \in ProcType /\ r.pc = "connected" /\ r.tokens = procs[p].tokens /\ r.nonce = procs[p].nonce
    BY <2>1, OneProcess DEF ProcType, Pcs
  <2>3. Sane(p, r) /\ Alive(p) /\ port # p
    BY <2>2 DEF Sane, Alive, IInv, PortReleased
  <2>4. QED
    BY <1>1, <2>1, <2>2, <2>3, Bounded, MoveStep DEF serverVars
<1>2. CASE Become(p, [procs[p] EXCEPT !.pc = AuthStep(p, Data(p))]) /\ UNCHANGED port
  <2>1. PICK r : r = [procs[p] EXCEPT !.pc = AuthStep(p, Data(p))]
    OBVIOUS
  <2>2. /\ r \in ProcType /\ r.pc = AuthStep(p, Data(p)) /\ r.tokens = procs[p].tokens
        /\ r.nonce = procs[p].nonce /\ r.client = procs[p].client
    BY <2>1, OneProcess, AuthGoes DEF ProcType, Pcs
  <2>3. Sane(p, r) /\ Alive(p) /\ port # p
    BY <2>2, OneProcess, AuthGoes DEF Sane, Alive, IInv, PortReleased, Data
  <2>4. r.pc \notin {"shown", "waiting", "exchanging"}
    BY <2>2, OneProcess, AuthGoes
  <2>5. QED
    BY <1>2, <2>1, <2>2, <2>3, <2>4, Bounded, MoveStep DEF serverVars
<1>3. QED
  BY <1>1, <1>2, FailStep

LEMMA RefreshFirstStep == ASSUME IInv, NEW p \in Procs, RefreshFirst(p) PROVE IInv'
<1> USE DEF RefreshFirst
<1>1. PICK r : r = [procs[p] EXCEPT !.pc = "refreshing"]
  OBVIOUS
<1>2. r \in ProcType /\ r.pc = "refreshing" /\ r.tokens = procs[p].tokens /\ r.nonce = procs[p].nonce
  BY <1>1, OneProcess DEF ProcType, Pcs
<1>3. Sane(p, r) /\ Alive(p) /\ port # p
  BY <1>2 DEF Sane, Alive, IInv, PortReleased
<1>4. QED
  BY <1>1, <1>2, <1>3, Bounded, MoveStep DEF serverVars

LEMMA UseStep == ASSUME IInv, NEW p \in Procs, Use(p) PROVE IInv'
<1> USE DEF Use
<1>1. PICK r : r = [procs[p] EXCEPT !.pc = "connecting"]
  OBVIOUS
<1>2. r \in ProcType /\ r.pc = "connecting" /\ r.tokens = procs[p].tokens /\ r.nonce = procs[p].nonce
  BY <1>1, OneProcess DEF ProcType, Pcs
<1>3. Sane(p, r) /\ Alive(p) /\ port # p
  BY <1>2 DEF Sane, Alive, IInv, PortReleased
<1>4. QED
  BY <1>1, <1>2, <1>3, Bounded, MoveStep DEF serverVars

LEMMA ExitStep == ASSUME IInv, NEW p \in Procs, Exit(p) \/ Crash(p) PROVE IInv'
<1>1. /\ Become(p, Off) /\ port' = Cancelled(p)
      /\ UNCHANGED <<setup, store, tabs, serverVars, counts, excused>>
  BY DEF Exit, Crash, Cancelled, IInv, PortReleased
<1>2. QED
  BY <1>1, EndStep, Bounded DEF serverVars, Become

LEMMA BindStep == ASSUME IInv, NEW p \in Procs, Bind(p) PROVE IInv'
<1> USE DEF Bind
<1>1. PICK r : r = [procs[p] EXCEPT !.pc = "shown"]
  OBVIOUS
<1>2. /\ r \in ProcType /\ r.pc = "shown" /\ r.tokens = procs[p].tokens
      /\ r.nonce = procs[p].nonce /\ r.client = procs[p].client /\ r.heard = procs[p].heard
  BY <1>1, OneProcess DEF ProcType, Pcs
<1>3. Sane(p, r) /\ Alive(p)
  BY <1>2, OneProcess DEF Sane, Alive
<1>4. TabOf(p, r) \in tabs' /\ tabs \subseteq tabs'
  BY <1>2 DEF TabOf, Data
<1>5. tabs' \subseteq [nonce : 1..counts.logins, client : Clients]
  <2>1. procs[p].nonce \in Nonces /\ procs[p].nonce # None
    BY OneProcess DEF Sane, ProcType
  <2>2. procs[p].nonce <= counts.logins
    BY <2>1 DEF IInv, LoginsApart
  <2>3. procs[p].nonce \in 1..counts.logins
    BY <2>1, <2>2, Bounded, Bounds DEF Nonces
  <2>4. ClientOf(p, Data(p)) \in Clients
    BY OneProcess DEF ClientOf, Sane, Data, ProcType, Clients
  <2>5. QED
    BY <2>3, <2>4, Bounded
<1>6. QED
  BY <1>1, <1>2, <1>3, <1>4, <1>5, Bounded, MoveStep DEF serverVars

LEMMA AwaitStep == ASSUME IInv, NEW p \in Procs, AwaitCallback(p) PROVE IInv'
<1> USE DEF AwaitCallback
<1>1. CASE Become(p, [procs[p] EXCEPT !.pc = "waiting"]) /\ UNCHANGED port
  <2>1. PICK r : r = [procs[p] EXCEPT !.pc = "waiting"]
    OBVIOUS
  <2>2. /\ r \in ProcType /\ r.pc = "waiting" /\ r.tokens = procs[p].tokens
        /\ r.nonce = procs[p].nonce /\ r.client = procs[p].client /\ r.heard = procs[p].heard
    BY <2>1, OneProcess DEF ProcType, Pcs
  <2>3. Sane(p, r) /\ Alive(p) /\ TabOf(p, r) \in tabs /\ (r.heard = None => port = p)
    BY <2>2, OneProcess DEF Sane, Alive, Shown, TabOf, IInv, PortReleased
  <2>4. QED
    BY <1>1, <2>1, <2>2, <2>3, Bounded, MoveStep DEF serverVars
<1>2. QED
  BY <1>1, FailStep

LEMMA TakeStep == ASSUME IInv, NEW p \in Procs, TakeCallback(p) PROVE IInv'
<1> USE DEF TakeCallback
<1>1. CASE Accepted(p) /\ Become(p, [procs[p] EXCEPT !.pc = "exchanging"]) /\ port' = Cancelled(p)
  <2>1. PICK r : r = [procs[p] EXCEPT !.pc = "exchanging"]
    OBVIOUS
  <2>2. /\ r \in ProcType /\ r.pc = "exchanging" /\ r.tokens = procs[p].tokens
        /\ r.nonce = procs[p].nonce /\ r.client = procs[p].client /\ r.heard = procs[p].heard
    BY <2>1, OneProcess DEF ProcType, Pcs
  <2>3. Sane(p, r) /\ Alive(p) /\ TabOf(p, r) \in tabs
    BY <1>1, <2>2, OneProcess DEF Sane, Alive, Shown, TabOf, Accepted, StateMatches
  <2>4. (port' = port \/ (port = p /\ port' = None)) /\ port' # p
    BY <1>1, NothingElse DEF Cancelled
  <2>5. QED
    BY <1>1, <2>1, <2>2, <2>3, <2>4, Bounded, MoveStep DEF serverVars
<1>2. QED
  BY <1>1, FailStep

LEMMA RegisterStep == ASSUME IInv, NEW p \in Procs, Register(p) PROVE IInv'
<1> USE DEF Register
<1>1. PICK id : id = IF Ts(p) THEN counts.clients + 1 ELSE Direct
  OBVIOUS
<1>2. PICK data : data = SaveClient(p, id)
  OBVIOUS
<1>3. id \in Clients /\ Alive(p) /\ port # p
  BY <1>1, Bounded, Bounds DEF Clients, Alive, IInv, PortReleased
<1>4. data \in StoreType /\ data.tokens = procs[p].tokens /\ data.client = id
  BY <1>2, <1>3, OneProcess DEF SaveClient, Data, StoreType
<1>5. /\ counts' \in [runs : 0..MaxRuns, logins : 0..MaxLogins, clients : 0..MaxClients,
                      restarts : 0..MaxRestarts]
      /\ counts'.logins = counts.logins /\ known' \subseteq 1..counts'.clients
  BY <1>1, Bounded, Bounds
<1>6. CASE Persist(p, data, [procs[p] EXCEPT !.pc = AuthStep(p, data)])
  <2>1. PICK r : r = [procs[p] EXCEPT !.pc = AuthStep(p, data)]
    OBVIOUS
  <2>2. r \in ProcType /\ r.pc = AuthStep(p, data) /\ r.nonce = procs[p].nonce /\ r.heard = procs[p].heard
    BY <1>4, <2>1, OneProcess, AuthGoes DEF ProcType, Pcs
  <2>3. PICK s : s = [r EXCEPT !.client = data.client, !.tokens = data.tokens]
    OBVIOUS
  <2>4. /\ s \in ProcType /\ s.pc = AuthStep(p, data) /\ s.nonce = procs[p].nonce
        /\ s.client = data.client /\ s.tokens = data.tokens
    BY <1>4, <2>2, <2>3 DEF ProcType, StoreType
  <2>5. Sane(p, s)
    <3>1. ClientOf(p, [client |-> s.client, tokens |-> s.tokens]) = ClientOf(p, data)
      BY <2>4 DEF ClientOf
    <3>2. QED
      BY <1>4, <2>4, <3>1, AuthGoes DEF Sane
  <2>6. s.pc \notin {"shown", "waiting", "exchanging"}
    BY <1>4, <2>4, AuthGoes
  <2>7. Persist(p, data, r)
    BY <1>6, <2>1
  <2>8. QED
    BY <1>3, <1>4, <1>5, <2>2, <2>3, <2>4, <2>5, <2>6, <2>7, SaveStep
<1>7. CASE Become(p, Failed) /\ UNCHANGED <<store, excused>>
  BY <1>3, <1>5, <1>7, EndStep, Bounded DEF Cancelled
<1>8. QED
  BY <1>1, <1>2, <1>6, <1>7

(***************************************************************************)
(* A refresh: the server acts on a family the process holds                *)
(***************************************************************************)
LEMMA Effects ==
  ASSUME IInv, NEW p \in Procs, NEW t \in TokenSets, t = procs[p].tokens, RefreshEffect(p, t)
  PROVE  /\ chain' \in [Nonces -> {Unknown, Burned} \cup 0..MaxSerial]
         /\ \A u \in fresh' : u \in TokenSets /\ u.serial <= chain'[u.family]
         /\ \A n \in Nonces : chain'[n] # chain[n] => n = t.family /\ chain[n] # Unknown
         /\ ~excused => \A n \in Nonces : chain'[n] # Burned
         /\ Knows(ClientOf(p, Data(p))) /\ Refreshable(p, t) =>
              chain[t.family] \in Nat /\ chain[t.family] + 1 \in 0..MaxSerial
              /\ chain'[t.family] = chain[t.family] + 1
         /\ ~excused /\ Ts(p) /\ ~(Knows(ClientOf(p, Data(p))) /\ Refreshable(p, t)) => chain' = chain
<1>1. /\ chain \in [Nonces -> {Unknown, Burned} \cup 0..MaxSerial] /\ MaxSerial \in Nat
      /\ \A u \in fresh : u \in TokenSets /\ u.serial <= chain[u.family]
      /\ t.family \in Nonces /\ t.serial \in 0..MaxSerial
  BY Bounds DEF IInv, TypeOK, TokenSets
<1>2. CASE Knows(ClientOf(p, Data(p))) /\ Replayed(p, t)
  <2>1. chain' = [chain EXCEPT ![t.family] = Burned] /\ fresh' = {u \in fresh : u.family # t.family}
    BY <1>2 DEF RefreshEffect
  <2>2. Ts(p) /\ chain[t.family] > t.serial /\ ~Refreshable(p, t)
    BY <1>2 DEF Replayed, Rotates, Refreshable
  <2>3. excused
    BY <1>1, <2>2, NothingElse DEF IInv, OrderlyRuns, Newest, Unknown
  <2>4. \A u \in fresh' : chain'[u.family] = chain[u.family]
    BY <1>1, <2>1 DEF TokenSets
  <2>5. chain[t.family] # Unknown
    BY <1>1, <2>2 DEF Unknown
  <2>6. QED
    BY <1>1, <2>1, <2>2, <2>3, <2>4, <2>5
<1>3. CASE Knows(ClientOf(p, Data(p))) /\ Refreshable(p, t)
  <2>1. PICK u : u = [t EXCEPT !.serial = chain[t.family] + 1]
    OBVIOUS
  <2>2. chain[t.family] \in 0..(MaxSerial - 1) /\ ~Replayed(p, t)
    BY <1>3 DEF Refreshable
  <2>3. chain' = [chain EXCEPT ![t.family] = chain[t.family] + 1] /\ fresh' = fresh \cup {u}
    BY <1>3, <2>1, <2>2 DEF RefreshEffect
  <2>4. u \in TokenSets /\ u.family = t.family /\ u.serial = chain[t.family] + 1
    BY <1>1, <2>1, <2>2 DEF TokenSets
  <2>5. chain[t.family] \in Nat /\ chain[t.family] + 1 \in 0..MaxSerial
    BY <1>1, <2>2
  <2>6. \A v \in fresh' : v \in TokenSets /\ v.serial <= chain'[v.family]
    <3>1. ASSUME NEW v \in fresh PROVE v \in TokenSets /\ v.serial <= chain'[v.family]
      <4>1. v \in TokenSets /\ v.serial <= chain[v.family] /\ v.serial \in Nat /\ v.family \in Nonces
        BY <1>1 DEF TokenSets
      <4>2. QED
        BY <1>1, <2>3, <2>5, <4>1
    <3>2. u \in TokenSets /\ u.serial <= chain'[u.family]
      BY <1>1, <2>3, <2>4, <2>5
    <3>3. QED
      BY <2>3, <3>1, <3>2
  <2>7. \A n \in Nonces : chain'[n] # chain[n] => n = t.family /\ chain[n] # Unknown
    BY <1>1, <2>3, <2>5 DEF Unknown
  <2>8. ~excused => \A n \in Nonces : chain'[n] # Burned
    BY <1>1, <2>3, <2>5 DEF IInv, OrderlyRuns, Burned
  <2>9. chain' \in [Nonces -> {Unknown, Burned} \cup 0..MaxSerial] /\ chain'[t.family] = chain[t.family] + 1
    BY <1>1, <2>3, <2>5
  <2>10. QED
    BY <1>3, <2>5, <2>6, <2>7, <2>8, <2>9
<1>4. CASE ~(Knows(ClientOf(p, Data(p))) /\ (Replayed(p, t) \/ Refreshable(p, t)))
  BY <1>1, <1>4 DEF RefreshEffect, IInv, OrderlyRuns
<1>5. QED
  BY <1>2, <1>3, <1>4

LEMMA GrantStep ==
  ASSUME IInv, NEW p \in Procs, procs[p].pc = "refreshing",
         NEW t \in TokenSets, t = procs[p].tokens, RefreshEffect(p, t),
         NEW r \in ProcType, Become(p, r), Sane(p, r),
         r.pc \notin {"shown", "waiting", "exchanging"},
         r.nonce \in {None, procs[p].nonce},
         r.tokens = None \/ (r.tokens \in TokenSets /\ r.tokens.family = t.family),
         UNCHANGED <<setup, port, tabs, known, codes, counts>>,
         excused' \in BOOLEAN, excused => excused',
         NEW f \in StoreType, store' = [store EXCEPT ![Kind(p)] = f],
         f.tokens \in {None, r.tokens, store[Kind(p)].tokens},
         Ts(p) /\ ~excused' =>
           /\ r.pc \notin {"off", "failed"} => f.tokens \in {None, r.tokens}
           /\ \A x \in {r.tokens, f.tokens} : x # None => chain'[x.family] \in {x.serial, Unknown}
  PROVE  IInv'
<1>1. Holds(Kind(p), t) /\ Alive(p) /\ port # p
  BY OneProcess, NothingElse DEF Holds, Alive, IInv, PortReleased
<1>2. store[Kind(p)].tokens # None =>
        store[Kind(p)].tokens \in TokenSets /\ Holds(Kind(p), store[Kind(p)].tokens)
  BY OneProcess DEF StoreType, Holds
<1>3. TypeOK'
  <2>1. procs' \in [Procs -> ProcType] /\ store' \in [{"ts", "py"} -> StoreType]
    BY DEF IInv, TypeOK, Become
  <2>2. QED
    BY <2>1, Effects DEF IInv, TypeOK
<1>4. PortReleased'
  BY <1>1, PortStep
<1>5. Saneness'
  BY SaneStep
<1>6. LoginsApart' /\ FamiliesApart'
  <2>1. Inherits(Kind(p), r.tokens) /\ Inherits(Kind(p), f.tokens)
    BY <1>1, <1>2 DEF Inherits
  <2>2. QED
    BY <2>1, Effects, ApartStep
<1>7. OrderlyRuns'
  <2>1. ASSUME ~Ts(p), NEW u \in TokenSets, Holds("ts", u)
        PROVE  chain'[u.family] = chain[u.family]
    <3>1. Holds("py", t)
      BY <1>1, <2>1, OneProcess DEF Ts
    <3>2. u.family # t.family /\ u.family \in Nonces
      BY <2>1, <3>1 DEF IInv, FamiliesApart, TokenSets
    <3>3. QED
      BY <3>2, Effects
  <2>2. ~excused' => \A n \in Nonces : chain'[n] # Burned
    BY Effects
  <2>3. QED
    BY <1>1, <2>1, <2>2, OrderStep
<1>8. QED
  BY <1>3, <1>4, <1>5, <1>6, <1>7 DEF IInv

LEMMA RefusedStep ==
  ASSUME IInv, NEW p \in Procs, procs[p].pc = "refreshing",
         NEW t \in TokenSets, t = procs[p].tokens, RefreshEffect(p, t),
         ~(Knows(ClientOf(p, Data(p))) /\ Refreshable(p, t)), RefreshRefused(p),
         UNCHANGED <<setup, port, tabs, known, codes, counts>>
  PROVE  IInv'
<1>1. CASE Ts(p)
  <2>1. PICK data : data = Invalidated(p, Refusal(p))
    OBVIOUS
  <2>2. data \in StoreType /\ data.tokens = None /\ (data = Empty \/ data.client = procs[p].client)
    BY <2>1, OneProcess, OffType DEF Invalidated, Empty, Data, StoreType
  <2>3. PICK r : r = [procs[p] EXCEPT !.pc = AuthStep(p, data)]
    OBVIOUS
  <2>4. r \in ProcType /\ r.pc = AuthStep(p, data) /\ r.nonce = procs[p].nonce
    BY <2>2, <2>3, OneProcess, AuthGoes DEF ProcType, Pcs
  <2>5. PICK s : s = [r EXCEPT !.client = data.client, !.tokens = data.tokens]
    OBVIOUS
  <2>6. /\ s \in ProcType /\ s.pc = AuthStep(p, data) /\ s.nonce = procs[p].nonce
        /\ s.client = data.client /\ s.tokens = None
    BY <2>2, <2>4, <2>5 DEF ProcType, StoreType
  <2>7. Sane(p, s) /\ s.pc \notin {"shown", "waiting", "exchanging"}
    <3>1. ClientOf(p, [client |-> s.client, tokens |-> s.tokens]) = ClientOf(p, data)
      BY <2>6 DEF ClientOf
    <3>2. s.pc \in {"registering", "login"} /\ (s.pc = "login" => ClientOf(p, data) # None)
      BY <2>2, <2>6, AuthGoes
    <3>3. QED
      BY <2>6, <3>1, <3>2 DEF Sane
  <2>8. Persist(p, data, r)
    BY <1>1, <2>1, <2>3 DEF RefreshRefused
  <2>9. CASE store' = [store EXCEPT ![Kind(p)] = data] /\ Become(p, s) /\ UNCHANGED excused
    <3>1. excused \in BOOLEAN
      BY Bounded
    <3>2. QED
      BY <2>2, <2>6, <2>7, <2>9, <3>1, GrantStep
  <2>10. CASE store' = [store EXCEPT ![Kind(p)] = Empty] /\ Become(p, Off) /\ excused' = TRUE
    <3>1. Empty.tokens = None /\ Empty \in StoreType /\ Off \in ProcType
      BY OffType DEF Empty
    <3>2. QED
      BY <2>10, <3>1, Idle, GrantStep
  <2>11. QED
    BY <1>1, <2>2, <2>5, <2>8, <2>9, <2>10, WrittenType DEF Persist
<1>2. CASE ~Ts(p)
  <2>1. PICK r : r = [procs[p] EXCEPT !.pc = "connecting", !.tokens = None]
    OBVIOUS
  <2>2. r \in ProcType /\ r.pc = "connecting" /\ r.tokens = None /\ r.nonce = procs[p].nonce
    BY <2>1, OneProcess DEF ProcType, Pcs
  <2>3. Become(p, r) /\ UNCHANGED <<store, excused>>
    BY <1>2, <2>1 DEF RefreshRefused
  <2>4. PICK f \in StoreType : f = store[Kind(p)]
    BY OneProcess
  <2>5. store' = [store EXCEPT ![Kind(p)] = f] /\ excused \in BOOLEAN
    BY <2>3, <2>4, Bounded DEF IInv, TypeOK
  <2>6. Sane(p, r)
    BY <2>2 DEF Sane
  <2>7. QED
    BY <1>2, <2>2, <2>3, <2>4, <2>5, <2>6, GrantStep
<1>3. QED
  BY <1>1, <1>2

LEMMA RefreshedStep ==
  ASSUME IInv, NEW p \in Procs, procs[p].pc = "refreshing",
         NEW t \in TokenSets, t = procs[p].tokens, RefreshEffect(p, t),
         Knows(ClientOf(p, Data(p))), Refreshable(p, t),
         NEW u \in TokenSets, u.family = t.family, u.serial = chain[t.family] + 1,
         Persist(p, SaveTokens(p, u), [procs[p] EXCEPT !.pc = "connecting", !.retried = TRUE]),
         UNCHANGED <<setup, port, tabs, known, codes, counts>>
  PROVE  IInv'
<1>1. PICK data : data = SaveTokens(p, u)
  OBVIOUS
<1>2. data \in StoreType /\ data.tokens = u /\ data.client = procs[p].client
  BY <1>1, OneProcess DEF SaveTokens, Data, StoreType
<1>3. PICK r : r = [procs[p] EXCEPT !.pc = "connecting", !.retried = TRUE]
  OBVIOUS
<1>4. r \in ProcType /\ r.pc = "connecting" /\ r.nonce = procs[p].nonce
  BY <1>3, OneProcess DEF ProcType, Pcs
<1>5. PICK s : s = [r EXCEPT !.client = data.client, !.tokens = data.tokens]
  OBVIOUS
<1>6. s \in ProcType /\ s.pc = "connecting" /\ s.nonce = procs[p].nonce /\ s.tokens = u
  BY <1>2, <1>4, <1>5 DEF ProcType, StoreType
<1>7. Sane(p, s)
  BY <1>6 DEF Sane
<1>8. chain'[u.family] = u.serial
  BY Effects
<1>9. CASE store' = [store EXCEPT ![Kind(p)] = Written(p, data)] /\ Become(p, s) /\ UNCHANGED excused
  <2>1. PICK f \in StoreType : f = Written(p, data)
    BY <1>2, WrittenType
  <2>2. f.tokens \in {u, store[Kind(p)].tokens} /\ (Ts(p) => f.tokens = u) /\ excused \in BOOLEAN
    BY <1>2, <2>1, WrittenType, Bounded
  <2>3. Ts(p) => \A x \in {s.tokens, f.tokens} : chain'[x.family] \in {x.serial, Unknown}
    BY <1>6, <1>8, <2>2
  <2>4. f.tokens \in {None, s.tokens, store[Kind(p)].tokens} /\ (Ts(p) => f.tokens = s.tokens)
    BY <1>6, <2>2
  <2>5. /\ store' = [store EXCEPT ![Kind(p)] = f] /\ Become(p, s)
        /\ excused' \in BOOLEAN /\ (excused => excused')
    BY <1>9, <2>1, <2>2
  <2>6. s.tokens \in TokenSets /\ s.tokens.family = t.family /\ s.nonce \in {None, procs[p].nonce}
    BY <1>6
  <2>7. s.pc \notin {"shown", "waiting", "exchanging"} /\ s \in ProcType
    BY <1>6
  <2>8. QED
    BY <1>7, <2>3, <2>4, <2>5, <2>6, <2>7, GrantStep
<1>10. CASE store' = [store EXCEPT ![Kind(p)] = Empty] /\ Become(p, Off) /\ excused' = TRUE
  <2>1. Empty.tokens = None /\ Empty \in StoreType /\ Off \in ProcType
    BY OffType DEF Empty
  <2>2. QED
    BY <1>10, <2>1, Idle, GrantStep
<1>11. QED
  BY <1>1, <1>3, <1>5, <1>9, <1>10 DEF Persist

LEMMA LostStep ==
  ASSUME IInv, NEW p \in Procs, procs[p].pc = "refreshing",
         NEW t \in TokenSets, t = procs[p].tokens, RefreshLost(p),
         \/ RefreshEffect(p, t) /\ excused' = TRUE
         \/ UNCHANGED <<chain, fresh, excused>>,
         UNCHANGED <<setup, port, tabs, known, codes, counts>>
  PROVE  IInv'
<1>1. PICK r : r = IF Ts(p) THEN [procs[p] EXCEPT !.pc = "login"]
                            ELSE [procs[p] EXCEPT !.pc = "connecting", !.tokens = None]
  OBVIOUS
<1>2. /\ r \in ProcType /\ r.nonce = procs[p].nonce /\ r.client = procs[p].client
      /\ r.pc = IF Ts(p) THEN "login" ELSE "connecting"
      /\ r.tokens = IF Ts(p) THEN t ELSE None
  BY <1>1, OneProcess DEF ProcType, Pcs
<1>3. Become(p, r) /\ UNCHANGED store
  BY <1>1 DEF RefreshLost
<1>4. Sane(p, r) /\ Alive(p) /\ port # p
  <2>1. ClientOf(p, [client |-> r.client, tokens |-> r.tokens])
          = ClientOf(p, [client |-> procs[p].client, tokens |-> procs[p].tokens])
    BY <1>2 DEF ClientOf
  <2>2. Sane(p, r)
    BY <1>2, <2>1, OneProcess DEF Sane
  <2>3. QED
    BY <2>2 DEF Alive, IInv, PortReleased
<1>5. PICK f \in StoreType : f = store[Kind(p)]
  BY OneProcess
<1>6. store' = [store EXCEPT ![Kind(p)] = f]
  BY <1>3, <1>5 DEF IInv, TypeOK
<1>7. CASE RefreshEffect(p, t) /\ excused' = TRUE
  BY <1>2, <1>3, <1>4, <1>5, <1>6, <1>7, GrantStep
<1>8. CASE UNCHANGED <<chain, fresh, excused>>
  BY <1>2, <1>3, <1>4, <1>8, Bounded, MoveStep
<1>9. QED
  BY <1>7, <1>8

LEMMA RefreshStep == ASSUME IInv, NEW p \in Procs, Refresh(p) PROVE IInv'
<1> USE DEF Refresh
<1>1. PICK t \in TokenSets : t = procs[p].tokens
  BY OneProcess DEF Sane, ProcType
<1>2. CASE RefreshEffect(p, t) /\ RefreshAnswered(p)
  <2>1. CASE Knows(ClientOf(p, Data(p))) /\ Refreshable(p, t)
    <3>1. PICK u : u = [t EXCEPT !.serial = chain[t.family] + 1]
      OBVIOUS
    <3>2. u \in TokenSets /\ u.family = t.family /\ u.serial = chain[t.family] + 1
      <4>1. chain[t.family] + 1 \in 0..MaxSerial
        BY <1>2, <1>1, <2>1, Effects
      <4>2. QED
        BY <3>1, <4>1 DEF TokenSets
    <3>3. QED
      BY <1>1, <1>2, <2>1, <3>1, <3>2, RefreshedStep DEF RefreshAnswered
  <2>2. CASE ~(Knows(ClientOf(p, Data(p))) /\ Refreshable(p, t))
    BY <1>1, <1>2, <2>2, RefusedStep DEF RefreshAnswered
  <2>3. QED
    BY <2>1, <2>2
<1>3. CASE RefreshEffect(p, t) /\ RefreshLost(p) /\ excused' = TRUE
  BY <1>1, <1>3, LostStep
<1>4. CASE RefreshLost(p) /\ UNCHANGED <<chain, fresh, excused>>
  BY <1>1, <1>4, LostStep
<1>5. QED
  BY <1>1, <1>2, <1>3, <1>4

(***************************************************************************)
(* A login begins: its nonce is new                                        *)
(***************************************************************************)
LEMMA NewLogin ==
  ASSUME IInv, NEW p \in Procs, procs[p].pc = "login", counts.logins < MaxLogins,
         counts' = [counts EXCEPT !.logins = @ + 1],
         UNCHANGED <<setup, port, tabs, serverVars>>,
         NEW r \in ProcType, Become(p, r), Sane(p, r),
         r.pc \notin {"shown", "waiting", "exchanging"},
         r.nonce \in {None, counts.logins + 1}, r.tokens \in {None, procs[p].tokens},
         excused' \in BOOLEAN, excused => excused',
         NEW f \in StoreType, store' = [store EXCEPT ![Kind(p)] = f],
         f.tokens \in {None, procs[p].tokens, store[Kind(p)].tokens},
         Ts(p) /\ ~excused' /\ r.pc \notin {"off", "failed"} => f.tokens \in {None, r.tokens}
  PROVE  IInv'
<1> USE DEF serverVars
<1>1. counts'.logins = counts.logins + 1 /\ counts'.clients = counts.clients /\ counts.logins \in Nat
  BY Bounded
<1>2. Alive(p) /\ port # p
  BY DEF Alive, IInv, PortReleased
<1>3. procs[p].tokens # None => procs[p].tokens \in TokenSets /\ Holds(Kind(p), procs[p].tokens)
  BY OneProcess DEF ProcType, Holds
<1>4. store[Kind(p)].tokens # None =>
        store[Kind(p)].tokens \in TokenSets /\ Holds(Kind(p), store[Kind(p)].tokens)
  BY OneProcess DEF StoreType, Holds
<1>5. TypeOK'
  <2>1. procs' \in [Procs -> ProcType] /\ store' \in [{"ts", "py"} -> StoreType]
    BY DEF IInv, TypeOK, Become
  <2>2. counts' \in [runs : 0..MaxRuns, logins : 0..MaxLogins, clients : 0..MaxClients,
                     restarts : 0..MaxRestarts]
    BY Bounded, Bounds
  <2>3. tabs \subseteq [nonce : 1..counts'.logins, client : Clients] /\ codes \subseteq 1..counts'.logins
    BY <1>1, Bounded
  <2>4. QED
    BY <1>1, <2>1, <2>2, <2>3 DEF IInv, TypeOK
<1>6. PortReleased'
  BY <1>2, PortStep
<1>7. Saneness'
  BY SaneStep
<1>8. procs'[p] = r /\ \A q \in Procs \ {p} : procs'[q] = procs[q]
  BY DEF IInv, TypeOK, Become
<1>9. counts.logins + 1 \in Nonces /\ chain[counts.logins + 1] = Unknown
  BY <1>1, Bounds DEF Nonces, IInv, LoginsApart
<1>10. \A q \in Procs : procs[q].nonce # None =>
         procs[q].nonce \in Nonces /\ procs[q].nonce <= counts.logins
         /\ procs[q].nonce # counts.logins + 1
  <2>1. \A q \in Procs : procs[q].nonce \in Nonces \cup {None}
    BY OneProcess DEF ProcType
  <2>2. QED
    BY <1>1, <2>1, Bounds DEF Nonces, IInv, LoginsApart
<1>11. LoginsApart'
  <2>1. ASSUME NEW q \in Procs, procs'[q].nonce # None
        PROVE  /\ procs'[q].nonce <= counts'.logins /\ chain'[procs'[q].nonce] = Unknown
               /\ \A o \in Procs \ {q} : procs'[o].nonce # procs'[q].nonce
    <3>1. CASE q = p
      BY <1>1, <1>8, <1>9, <1>10, <2>1, <3>1, NothingElse
    <3>2. CASE q # p
      <4>1. procs'[q].nonce = procs[q].nonce /\ procs[q].nonce <= counts'.logins
        BY <1>1, <1>8, <1>10, <2>1, <3>2, Bounds DEF Nonces
      <4>2. chain[procs[q].nonce] = Unknown /\ \A o \in Procs \ {q} : procs[o].nonce # procs[q].nonce
        BY <2>1, <4>1 DEF IInv, LoginsApart
      <4>3. r.nonce # procs[q].nonce
        BY <1>10, <2>1, <4>1
      <4>4. QED
        BY <1>8, <4>1, <4>2, <4>3
    <3>3. QED
      BY <3>1, <3>2
  <2>2. \A n \in Nonces : n > counts'.logins => chain'[n] = Unknown
    BY <1>1, Bounds DEF Nonces, IInv, LoginsApart
  <2>3. QED
    BY <2>1, <2>2 DEF LoginsApart
<1>12. FamiliesApart'
  <2>1. ASSUME NEW k \in {"ts", "py"}, NEW t \in TokenSets, Holds(k, t)' PROVE Holds(k, t)
    <3>1. store'[Kind(p)] = f /\ (k # Kind(p) => store'[k] = store[k])
      BY OneProcess DEF IInv, TypeOK
    <3>2. CASE store'[k].tokens = t
      BY <1>3, <1>4, <2>1, <3>1, <3>2 DEF Holds
    <3>3. CASE \E q \in Procs : Kind(q)' = k /\ procs'[q].tokens = t
      BY <1>3, <1>8, <2>1, <3>3 DEF Holds, Kind
    <3>4. QED
      BY <2>1, <3>2, <3>3 DEF Holds
  <2>2. ASSUME NEW k \in {"ts", "py"}, NEW t \in TokenSets, Holds(k, t)'
        PROVE  t.family <= counts'.logins /\ \A q \in Procs : procs'[q].nonce # t.family
    <3>1. /\ t.family <= counts.logins /\ t.family \in Nonces
          /\ \A q \in Procs : procs[q].nonce # t.family
      BY <2>1, <2>2 DEF IInv, FamiliesApart, TokenSets
    <3>2. t.family <= counts'.logins /\ t.family # counts.logins + 1 /\ t.family # None
      BY <1>1, <3>1, Bounds, NothingElse DEF Nonces
    <3>3. QED
      BY <1>8, <3>1, <3>2
  <2>3. QED
    BY <2>1, <2>2 DEF IInv, FamiliesApart
<1>13. OrderlyRuns'
  <2>1. ~excused' => \A n \in Nonces : chain'[n] # Burned
    BY DEF IInv, OrderlyRuns
  <2>2. ~excused' /\ Ts(p) =>
          \A t \in {r.tokens, f.tokens} : t # None => chain'[t.family] \in {t.serial, Unknown}
    BY DEF IInv, OrderlyRuns, Newest, Ts
  <2>3. QED
    BY <1>2, <2>1, <2>2, OrderStep
<1>14. QED
  BY <1>5, <1>6, <1>7, <1>11, <1>12, <1>13 DEF IInv

LEMMA BeginStep == ASSUME IInv, NEW p \in Procs, BeginLogin(p) PROVE IInv'
<1> USE DEF BeginLogin
<1>1. PICK r : r = [procs[p] EXCEPT !.pc = "binding", !.nonce = counts.logins + 1, !.heard = None]
  OBVIOUS
<1>2. /\ r \in ProcType /\ r.pc = "binding" /\ r.nonce = counts.logins + 1 /\ r.heard = None
      /\ r.tokens = procs[p].tokens /\ r.client = procs[p].client
  <2>1. counts.logins + 1 \in Nonces
    BY Bounded, Bounds DEF Nonces
  <2>2. QED
    BY <1>1, <2>1, OneProcess DEF ProcType, Pcs
<1>3. Sane(p, r)
  <2>1. ClientOf(p, [client |-> r.client, tokens |-> r.tokens])
          = ClientOf(p, [client |-> procs[p].client, tokens |-> procs[p].tokens])
    BY <1>2 DEF ClientOf
  <2>2. r.nonce # None
    BY <1>2, Bounded, Bounds, NothingElse DEF Nonces
  <2>3. QED
    BY <1>2, <2>1, <2>2, OneProcess DEF Sane
<1>4. PICK data : data = Data(p)
  OBVIOUS
<1>5. data \in StoreType /\ data.tokens = procs[p].tokens /\ data.client = procs[p].client
  BY <1>4, OneProcess DEF Data
<1>6. PICK s : s = [r EXCEPT !.client = data.client, !.tokens = data.tokens]
  OBVIOUS
<1>7. s = r
  BY <1>2, <1>5, <1>6 DEF ProcType
<1>8. CASE Become(p, r) /\ UNCHANGED <<store, excused>> /\ ~Ts(p)
  <2>1. PICK f \in StoreType : f = store[Kind(p)]
    BY OneProcess
  <2>2. store' = [store EXCEPT ![Kind(p)] = f]
    BY <1>8, <2>1 DEF IInv, TypeOK
  <2>3. QED
    BY <1>2, <1>3, <1>8, <2>1, <2>2, Bounded, NewLogin
<1>9. CASE Ts(p) /\ store' = [store EXCEPT ![Kind(p)] = data] /\ Become(p, r) /\ UNCHANGED excused
  BY <1>2, <1>3, <1>5, <1>9, Bounded, NewLogin
<1>10. CASE store' = [store EXCEPT ![Kind(p)] = Empty] /\ Become(p, Off) /\ excused' = TRUE
  <2>1. Empty.tokens = None /\ Empty \in StoreType /\ Off \in ProcType
    BY OffType DEF Empty
  <2>2. QED
    BY <1>10, <2>1, Idle, NewLogin
<1>11. QED
  <2>1. CASE Ts(p)
    <3>1. Persist(p, data, r) /\ Written(p, data) = data
      BY <1>1, <1>4, <1>5, <2>1, WrittenType
    <3>2. QED
      BY <1>6, <1>7, <1>9, <1>10, <2>1, <3>1 DEF Persist
  <2>2. QED
    BY <1>1, <1>8, <2>1

(***************************************************************************)
(* A code is exchanged: the first tokens of the family of this login       *)
(***************************************************************************)
Bought(p) == [family |-> procs[p].nonce, serial |-> 0]

LEMMA BuyStep ==
  ASSUME IInv, NEW p \in Procs, procs[p].pc = "exchanging", Buys(p), ExchangeEffect(p),
         UNCHANGED <<setup, port, tabs, known, counts>>,
         NEW r \in ProcType, Become(p, r), Sane(p, r),
         r.pc \notin {"shown", "waiting", "exchanging"},
         r.nonce = None, r.tokens \in {None, Bought(p)},
         excused' \in BOOLEAN, excused => excused',
         NEW f \in StoreType, store' = [store EXCEPT ![Kind(p)] = f],
         f.tokens \in {None, Bought(p), store[Kind(p)].tokens},
         Ts(p) /\ ~excused' /\ r.pc \notin {"off", "failed"} => f.tokens \in {None, r.tokens}
  PROVE  IInv'
<1>1. PICK n \in Nonces : n = procs[p].nonce /\ n = procs[p].heard.nonce
  BY OneProcess DEF Sane, ProcType
<1>2. /\ codes' = codes \ {n} /\ chain' = [chain EXCEPT ![n] = 0]
      /\ fresh' = fresh \cup {[family |-> n, serial |-> 0]}
  BY <1>1 DEF ExchangeEffect
<1>3. PICK t : t = [family |-> n, serial |-> 0]
  OBVIOUS
<1>4. t \in TokenSets /\ t.family = n /\ t.serial = 0 /\ t = Bought(p)
  BY <1>1, <1>3, Bounds DEF TokenSets, Bought
<1>5. /\ chain \in [Nonces -> {Unknown, Burned} \cup 0..MaxSerial] /\ chain[n] = Unknown
      /\ n <= counts.logins /\ n # None /\ \A q \in Procs \ {p} : procs[q].nonce # n
  BY <1>1, NothingElse DEF IInv, TypeOK, LoginsApart
<1>6. Alive(p) /\ port # p
  BY NothingElse DEF Alive, IInv, PortReleased
<1>7. procs'[p] = r /\ \A q \in Procs \ {p} : procs'[q] = procs[q]
  BY DEF IInv, TypeOK, Become
<1>8. store[Kind(p)].tokens # None =>
        store[Kind(p)].tokens \in TokenSets /\ Holds(Kind(p), store[Kind(p)].tokens)
  BY OneProcess DEF StoreType, Holds
<1>9. TypeOK'
  <2>1. procs' \in [Procs -> ProcType] /\ store' \in [{"ts", "py"} -> StoreType]
    BY DEF IInv, TypeOK, Become
  <2>2. chain' \in [Nonces -> {Unknown, Burned} \cup 0..MaxSerial]
    BY <1>2, <1>5, Bounds
  <2>3. \A u \in fresh' : u \in TokenSets /\ u.serial <= chain'[u.family]
    <3>1. ASSUME NEW u \in fresh PROVE u \in TokenSets /\ u.serial <= chain'[u.family]
      <4>1. u \in TokenSets /\ u.serial <= chain[u.family] /\ u.serial \in Nat /\ u.family \in Nonces
        BY Bounds DEF IInv, TypeOK, TokenSets
      <4>2. u.family # n
        BY <1>5, <4>1 DEF Unknown
      <4>3. QED
        BY <1>2, <1>5, <4>1, <4>2
    <3>2. t \in TokenSets /\ t.serial <= chain'[t.family]
      BY <1>2, <1>4, <1>5
    <3>3. QED
      BY <1>2, <1>3, <3>1, <3>2
  <2>4. codes' \subseteq 1..counts'.logins
    BY <1>2, Bounded
  <2>5. QED
    BY <2>1, <2>2, <2>3, <2>4 DEF IInv, TypeOK
<1>10. PortReleased'
  BY <1>6, PortStep
<1>11. Saneness'
  BY SaneStep
<1>12. LoginsApart'
  <2>1. ASSUME NEW q \in Procs, procs'[q].nonce # None
        PROVE  /\ procs'[q].nonce <= counts'.logins /\ chain'[procs'[q].nonce] = Unknown
               /\ \A o \in Procs \ {q} : procs'[o].nonce # procs'[q].nonce
    <3>1. q # p /\ procs'[q].nonce = procs[q].nonce
      BY <1>7, <2>1
    <3>2. /\ procs[q].nonce <= counts.logins /\ chain[procs[q].nonce] = Unknown
          /\ \A o \in Procs \ {q} : procs[o].nonce # procs[q].nonce
      BY <2>1, <3>1 DEF IInv, LoginsApart
    <3>3. chain'[procs[q].nonce] = chain[procs[q].nonce]
      BY <1>2, <1>5, <2>1, <3>1, OneProcess DEF ProcType
    <3>4. QED
      BY <1>7, <2>1, <3>1, <3>2, <3>3
  <2>2. \A m \in Nonces : m > counts'.logins => chain'[m] = Unknown
    BY <1>2, <1>5, Bounded DEF Nonces, IInv, LoginsApart
  <2>3. QED
    BY <2>1, <2>2 DEF LoginsApart
<1>13. FamiliesApart'
  <2>1. ASSUME NEW k \in {"ts", "py"}, NEW u \in TokenSets, Holds(k, u)'
        PROVE  Holds(k, u) \/ (k = Kind(p) /\ u.family = n)
    <3>1. store'[Kind(p)] = f /\ (k # Kind(p) => store'[k] = store[k])
      BY OneProcess DEF IInv, TypeOK
    <3>2. CASE store'[k].tokens = u
      BY <1>4, <1>8, <2>1, <3>1, <3>2 DEF Holds
    <3>3. CASE \E q \in Procs : Kind(q)' = k /\ procs'[q].tokens = u
      BY <1>4, <1>7, <2>1, <3>3 DEF Holds, Kind
    <3>4. QED
      BY <2>1, <3>2, <3>3 DEF Holds
  <2>2. ASSUME NEW k \in {"ts", "py"}, NEW u \in TokenSets, Holds(k, u)'
        PROVE  u.family <= counts'.logins /\ \A q \in Procs : procs'[q].nonce # u.family
    <3>1. CASE Holds(k, u)
      <4>1. u.family <= counts.logins /\ u.family # None /\ \A q \in Procs : procs[q].nonce # u.family
        BY <3>1, NothingElse DEF IInv, FamiliesApart, TokenSets
      <4>2. QED
        BY <1>7, <4>1
    <3>2. CASE u.family = n
      BY <1>5, <1>7, <3>2
    <3>3. QED
      BY <2>1, <2>2, <3>1, <3>2
  <2>3. ASSUME NEW u \in TokenSets, NEW v \in TokenSets, Holds("ts", u)', Holds("py", v)'
        PROVE  u.family # v.family
    <3>1. \A k \in {"ts", "py"}, w \in TokenSets : Holds(k, w) => w.family # n
      BY <1>1 DEF IInv, FamiliesApart
    <3>2. Holds("ts", u) /\ Holds("py", v) => u.family # v.family
      BY DEF IInv, FamiliesApart
    <3>3. QED
      BY <2>1, <2>3, <3>1, <3>2
  <2>4. QED
    BY <2>2, <2>3 DEF FamiliesApart
<1>14. OrderlyRuns'
  <2>1. ASSUME NEW k \in {"ts", "py"}, NEW u \in TokenSets, Holds(k, u)
        PROVE  chain'[u.family] = chain[u.family]
    <3>1. u.family # n /\ u.family \in Nonces
      BY <1>1, <2>1 DEF IInv, FamiliesApart, TokenSets
    <3>2. QED
      BY <1>2, <1>5, <3>1
  <2>2. ~excused' => \A m \in Nonces : chain'[m] # Burned
    BY <1>2, <1>5 DEF IInv, OrderlyRuns, Burned
  <2>3. ASSUME ~excused', Ts(p), NEW u \in {r.tokens, f.tokens}, u # None
        PROVE  chain'[u.family] \in {u.serial, Unknown}
    <3>1. CASE u = Bought(p)
      BY <1>2, <1>4, <1>5, <3>1
    <3>2. CASE u = store[Kind(p)].tokens
      <4>1. u \in TokenSets /\ Holds(Kind(p), u) /\ Kind(p) = "ts"
        BY <1>8, <2>3, <3>2 DEF Ts
      <4>2. chain[u.family] \in {u.serial, Unknown}
        BY <2>3, <3>2, <4>1 DEF IInv, OrderlyRuns, Newest
      <4>3. QED
        BY <2>1, <4>1, <4>2
    <3>3. QED
      BY <2>3, <3>1, <3>2
  <2>4. QED
    BY <1>6, <2>1, <2>2, <2>3, OrderStep
<1>15. QED
  BY <1>9, <1>10, <1>11, <1>12, <1>13, <1>14 DEF IInv

LEMMA PaidStep ==
  ASSUME IInv, NEW p \in Procs, procs[p].pc = "exchanging", Buys(p), ExchangeEffect(p),
         UNCHANGED <<setup, port, tabs, known, counts>>,
         Persist(p, SaveTokens(p, Bought(p)),
                 [procs[p] EXCEPT !.pc = "connecting", !.later = TRUE, !.retried = ~Ts(p),
                                  !.nonce = None, !.heard = None])
  PROVE  IInv'
<1>1. PICK t \in TokenSets : t = Bought(p)
  <2>1. procs[p].nonce \in Nonces
    BY OneProcess DEF Sane, ProcType
  <2>2. 0 \in 0..MaxSerial
    BY Bounds
  <2>3. QED
    BY <2>1, <2>2 DEF Bought, TokenSets
<1>2. PICK data : data = SaveTokens(p, t)
  OBVIOUS
<1>3. data \in StoreType /\ data.tokens = t /\ data.client = procs[p].client
  BY <1>2, OneProcess DEF SaveTokens, Data, StoreType
<1>4. PICK r : r = [procs[p] EXCEPT !.pc = "connecting", !.later = TRUE, !.retried = ~Ts(p),
                                    !.nonce = None, !.heard = None]
  OBVIOUS
<1>5. r \in ProcType /\ r.pc = "connecting" /\ r.nonce = None
  BY <1>4, OneProcess DEF ProcType, Pcs
<1>6. PICK s : s = [r EXCEPT !.client = data.client, !.tokens = data.tokens]
  OBVIOUS
<1>7. s \in ProcType /\ s.pc = "connecting" /\ s.nonce = None /\ s.tokens = t
  BY <1>3, <1>5, <1>6 DEF ProcType, StoreType
<1>8. Sane(p, s)
  BY <1>7 DEF Sane
<1>9. CASE store' = [store EXCEPT ![Kind(p)] = Written(p, data)] /\ Become(p, s) /\ UNCHANGED excused
  <2>1. PICK f \in StoreType : f = Written(p, data)
    BY <1>3, WrittenType
  <2>2. f.tokens \in {t, store[Kind(p)].tokens} /\ (Ts(p) => f.tokens = t)
    BY <1>3, <2>1, WrittenType
  <2>3. /\ store' = [store EXCEPT ![Kind(p)] = f] /\ Become(p, s)
        /\ excused' \in BOOLEAN /\ (excused => excused')
    BY <1>9, <2>1, Bounded
  <2>4. QED
    BY <1>1, <1>7, <1>8, <2>2, <2>3, BuyStep
<1>10. CASE store' = [store EXCEPT ![Kind(p)] = Empty] /\ Become(p, Off) /\ excused' = TRUE
  <2>1. Empty.tokens = None /\ Empty \in StoreType /\ Off \in ProcType
    BY OffType DEF Empty
  <2>2. QED
    BY <1>10, <2>1, Idle, BuyStep
<1>11. QED
  BY <1>1, <1>2, <1>4, <1>6, <1>9, <1>10 DEF Persist

LEMMA ExchangeStep == ASSUME IInv, NEW p \in Procs, Exchange(p) PROVE IInv'
<1> USE DEF Exchange
<1>1. Alive(p) /\ port # p /\ port' = port
  BY DEF Alive, IInv, PortReleased
<1>2. CASE ExchangeEffect(p) /\ Buys(p) /\ ExchangeAnswered(p)
  BY <1>2, PaidStep DEF ExchangeAnswered, Bought
<1>3. CASE ExchangeEffect(p) /\ Buys(p) /\ Become(p, Failed) /\ UNCHANGED <<store, excused>>
  <2>1. PICK f \in StoreType : f = store[Kind(p)]
    BY OneProcess
  <2>2. store' = [store EXCEPT ![Kind(p)] = f] /\ excused \in BOOLEAN
    BY <1>3, <2>1, Bounded DEF IInv, TypeOK
  <2>3. QED
    BY <1>3, <2>1, <2>2, OffType, Idle, BuyStep
<1>4. CASE UNCHANGED <<codes, chain, fresh>> /\ Become(p, Failed) /\ UNCHANGED <<store, excused>>
  BY <1>1, <1>4, Bounded, EndStep DEF Cancelled
<1>5. CASE /\ UNCHANGED <<codes, chain, fresh>>
           /\ \E data \in {Invalidated(p, Refusal(p))} : Persist(p, data, Failed)
  <2>1. PICK data \in {Invalidated(p, Refusal(p))} : Persist(p, data, Failed)
    BY <1>5
  <2>2. data \in StoreType /\ data.tokens = None
    BY <2>1, OneProcess, OffType DEF Invalidated, Empty, Data, StoreType
  <2>3. PICK r \in ProcType : r = Failed
    BY OffType
  <2>4. r.pc = "failed" /\ r.nonce = None
    BY <2>3, Idle
  <2>5. PICK s : s = [r EXCEPT !.client = data.client, !.tokens = data.tokens]
    OBVIOUS
  <2>6. s \in ProcType /\ s.pc = "failed" /\ s.nonce = None /\ s.tokens = None
    BY <2>2, <2>4, <2>5 DEF ProcType, StoreType
  <2>7. Sane(p, s)
    BY <2>6 DEF Sane
  <2>8. Persist(p, data, r)
    BY <2>1, <2>3
  <2>9. QED
    BY <1>1, <1>5, <2>2, <2>5, <2>6, <2>7, <2>8, Bounded, SaveStep
<1>6. ~Buys(p) /\ ExchangeEffect(p) => UNCHANGED <<codes, chain, fresh>>
  BY DEF ExchangeEffect
<1>7. QED
  BY <1>2, <1>3, <1>4, <1>5, <1>6 DEF ExchangeAnswered

(***************************************************************************)
(* What happens around the processes                                       *)
(***************************************************************************)
LEMMA StartStep == ASSUME IInv, NEW p \in Procs, Start(p) PROVE IInv'
<1> USE DEF Start, serverVars
<1>1. PICK r : r = [Off EXCEPT !.pc = "connecting", !.client = Loaded(p).client,
                              !.tokens = Loaded(p).tokens]
  OBVIOUS
<1>2. /\ r \in ProcType /\ r.pc = "connecting" /\ r.nonce = None
      /\ r.tokens = store[Kind(p)].tokens
  BY <1>1, OneProcess, OffType, Idle DEF ProcType, StoreType, Loaded, Pcs
<1>3. Become(p, r) /\ Sane(p, r) /\ port # p
  BY <1>1, <1>2 DEF Sane, IInv, PortReleased
<1>4. PICK f \in StoreType : f = store[Kind(p)]
  BY OneProcess
<1>5. store' = [store EXCEPT ![Kind(p)] = f]
  BY <1>4 DEF IInv, TypeOK
<1>6. TypeOK'
  <2>1. counts' \in [runs : 0..MaxRuns, logins : 0..MaxLogins, clients : 0..MaxClients,
                     restarts : 0..MaxRestarts]
        /\ counts'.logins = counts.logins /\ counts'.clients = counts.clients
    BY Bounded, Bounds
  <2>2. procs' \in [Procs -> ProcType]
    BY <1>2, <1>3 DEF IInv, TypeOK, Become
  <2>3. QED
    BY <2>1, <2>2 DEF IInv, TypeOK, Sharing
<1>7. PortReleased'
  BY <1>2, <1>3, PortStep
<1>8. Saneness'
  BY <1>2, <1>3, SaneStep
<1>9. LoginsApart' /\ FamiliesApart'
  <2>1. f.tokens # None => f.tokens \in TokenSets /\ Holds(Kind(p), f.tokens)
    BY <1>4 DEF StoreType, Holds
  <2>2. Inherits(Kind(p), f.tokens) /\ Inherits(Kind(p), r.tokens)
    BY <1>2, <1>4, <2>1 DEF Inherits
  <2>3. counts'.logins = counts.logins
    BY Bounded
  <2>4. QED
    BY <1>2, <1>3, <1>4, <1>5, <2>2, <2>3, ApartStep
<1>10. OrderlyRuns'
  <2> SUFFICES ASSUME ~excused' PROVE OrderlyRuns'
    BY DEF OrderlyRuns
  <2>1. ~excused /\ ~Sharing(p)
    OBVIOUS
  <2>2. procs'[p] = r /\ \A q \in Procs \ {p} : procs'[q] = procs[q]
    BY <1>3 DEF IInv, TypeOK, Become
  <2>3. \A q \in Procs \ {p} : (Alive(q)' <=> Alive(q)) /\ (Ts(q)' <=> Ts(q))
    BY <2>2 DEF Alive, Ts, Kind
  <2>4. Ts(p) => \A q \in Procs \ {p} : Ts(q) => ~Alive(q)
    BY <2>1 DEF Sharing, Ts
  <2>5. (Ts(p)' <=> Ts(p)) /\ (Ts(p) => r.tokens = store["ts"].tokens)
    BY <1>2 DEF Ts, Kind
  <2>6. \A q1, q2 \in Procs : (Ts(q1) /\ Ts(q2) /\ Alive(q1) /\ Alive(q2))' => q1 = q2
    BY <2>1, <2>3, <2>4, <2>5 DEF IInv, OrderlyRuns
  <2>7. \A q \in Procs : (Ts(q) /\ Alive(q))' => store'["ts"].tokens \in {None, procs'[q].tokens}
    BY <2>1, <2>2, <2>3, <2>5 DEF IInv, OrderlyRuns
  <2>8. \A q \in Procs : Ts(q)' => Newest(procs[q].tokens)'
    BY <2>1, <2>2, <2>3, <2>5 DEF IInv, OrderlyRuns, Newest
  <2>9. Newest(store["ts"].tokens)' /\ \A n \in Nonces : chain'[n] # Burned
    BY <2>1 DEF IInv, OrderlyRuns, Newest
  <2>10. QED
    BY <2>6, <2>7, <2>8, <2>9 DEF OrderlyRuns
<1>11. QED
  BY <1>6, <1>7, <1>8, <1>9, <1>10 DEF IInv

LEMMA LogOutStep == ASSUME IInv, NEW p \in Procs, LogOut(p) PROVE IInv'
<1> USE DEF LogOut, serverVars
<1>1. /\ store'[Kind(p)].tokens = None /\ store' \in [{"ts", "py"} -> StoreType]
      /\ \A k \in {"ts", "py"} \ {Kind(p)} : store'[k] = store[k]
  BY OneProcess, OffType DEF IInv, TypeOK, Empty
<1>2. TypeOK' /\ PortReleased'
  BY <1>1 DEF IInv, TypeOK, PortReleased
<1>3. Saneness'
  BY DEF IInv, Saneness, Sane, Shown, TabOf, ClientOf, Ts, Kind
<1>4. \A k \in {"ts", "py"}, t \in TokenSets : Holds(k, t)' => Holds(k, t)
  BY <1>1 DEF Holds, Kind
<1>5. LoginsApart' /\ FamiliesApart'
  BY <1>4 DEF IInv, LoginsApart, FamiliesApart
<1>6. store'["ts"].tokens \in {None, store["ts"].tokens}
  BY <1>1, OneProcess
<1>7. OrderlyRuns'
  BY <1>6 DEF IInv, OrderlyRuns, Newest, Ts, Kind, Alive
<1>8. QED
  BY <1>2, <1>3, <1>5, <1>7 DEF IInv

(* Only what the servers know changes, and no family is born or burned.    *)
LEMMA ServerStep ==
  ASSUME IInv, UNCHANGED <<setup, procs, store, port, tabs, excused>>, TypeOK',
         counts'.logins = counts.logins,
         \A n \in Nonces : chain'[n] \in {chain[n], Unknown}
  PROVE  IInv'
<1>1. PortReleased' /\ Saneness'
  BY DEF IInv, PortReleased, Saneness, Sane, Shown, TabOf, ClientOf, Ts, Kind
<1>2. \A k \in {"ts", "py"}, t \in TokenSets : Holds(k, t)' => Holds(k, t)
  BY DEF Holds, Kind
<1>3. FamiliesApart'
  BY <1>2 DEF IInv, FamiliesApart
<1>4. \A q \in Procs : procs[q].nonce # None => procs[q].nonce \in Nonces
  BY OneProcess DEF ProcType
<1>5. LoginsApart'
  BY <1>4 DEF IInv, LoginsApart
<1>6. OrderlyRuns'
  <2>1. \A t \in TokenSets : Newest(t) => Newest(t)'
    BY DEF Newest, TokenSets
  <2>2. \A q \in Procs : procs[q].tokens \in TokenSets \cup {None}
    BY OneProcess DEF ProcType
  <2>3. store["ts"].tokens \in TokenSets \cup {None}
    BY DEF IInv, TypeOK, StoreType
  <2>4. ASSUME ~excused', NEW q \in Procs, Ts(q)' PROVE Newest(procs[q].tokens)'
    <3>1. Newest(procs[q].tokens)
      BY <2>4 DEF IInv, OrderlyRuns, Ts, Kind
    <3>2. QED
      BY <2>2, <3>1 DEF Newest, TokenSets
  <2>5. ASSUME ~excused' PROVE Newest(store["ts"].tokens)'
    <3>1. Newest(store["ts"].tokens)
      BY <2>5 DEF IInv, OrderlyRuns
    <3>2. QED
      BY <2>3, <3>1 DEF Newest, TokenSets
  <2>6. ~excused' => \A n \in Nonces : chain'[n] # Burned
    BY DEF IInv, OrderlyRuns, Unknown, Burned
  <2>7. ~excused' => \A q1, q2 \in Procs : (Ts(q1) /\ Ts(q2) /\ Alive(q1) /\ Alive(q2))' => q1 = q2
    BY DEF IInv, OrderlyRuns, Ts, Kind, Alive
  <2>8. ~excused' => \A q \in Procs : (Ts(q) /\ Alive(q))' =>
                      store'["ts"].tokens \in {None, procs'[q].tokens}
    BY DEF IInv, OrderlyRuns, Ts, Kind, Alive
  <2>9. QED
    BY <2>4, <2>5, <2>6, <2>7, <2>8 DEF OrderlyRuns
<1>7. QED
  BY <1>1, <1>3, <1>5, <1>6 DEF IInv

LEMMA ExpireStep == ASSUME IInv, NEW t \in fresh, Expire(t) PROVE IInv'
<1>1. TypeOK'
  BY DEF Expire, IInv, TypeOK
<1>2. \A n \in Nonces : chain'[n] \in {chain[n], Unknown}
  BY DEF Expire
<1>3. QED
  BY <1>1, <1>2, ServerStep DEF Expire

LEMMA RestartStep == ASSUME IInv, Restart PROVE IInv'
<1> USE DEF Restart
<1>1. \A n \in Nonces : chain'[n] \in {chain[n], Unknown}
  OBVIOUS
<1>2. TypeOK'
  <2>1. counts' \in [runs : 0..MaxRuns, logins : 0..MaxLogins, clients : 0..MaxClients,
                     restarts : 0..MaxRestarts]
        /\ counts'.logins = counts.logins /\ counts'.clients = counts.clients
    BY Bounded, Bounds
  <2>2. chain' \in [Nonces -> {Unknown, Burned} \cup 0..MaxSerial]
    BY DEF IInv, TypeOK
  <2>3. codes' \subseteq codes
    OBVIOUS
  <2>4. \A u \in fresh' : u \in TokenSets /\ u.serial <= chain'[u.family]
    BY DEF IInv, TypeOK, TokenSets
  <2>5. QED
    BY <2>1, <2>2, <2>3, <2>4 DEF IInv, TypeOK
<1>3. counts'.logins = counts.logins
  BY Bounded
<1>4. QED
  BY <1>1, <1>2, <1>3, ServerStep

LEMMA BrowseStep ==
  ASSUME IInv, NEW t \in tabs, NEW verdict \in {"code", "denied"}, Browse(t, verdict)
  PROVE  IInv'
<1> USE DEF Browse
<1>1. t.nonce \in 1..counts.logins /\ t.nonce \in Nonces
  BY Bounded, Bounds DEF Nonces
<1>2. codes' \subseteq 1..counts.logins
  BY <1>1, Bounded
<1>3. CASE UNCHANGED <<procs, port>>
  <2>1. TypeOK'
    BY <1>2, <1>3 DEF IInv, TypeOK
  <2>2. QED
    BY <1>3, <2>1, ServerStep
<1>4. CASE port # None /\ Hear([nonce |-> t.nonce, verdict |-> verdict])
           /\ (Ts(port) => port' = None /\ Ours(port, [nonce |-> t.nonce, verdict |-> verdict]))
           /\ (~Ts(port) => port' = port)
  <2>1. PICK p \in Procs : p = port
    BY <1>4 DEF IInv, TypeOK
  <2>2. PICK answer \in Answers : answer = [nonce |-> t.nonce, verdict |-> verdict]
    BY <1>1 DEF Answers
  <2>3. PICK r : r = [procs[p] EXCEPT !.heard = answer]
    OBVIOUS
  <2>4. /\ r \in ProcType /\ r.heard = answer /\ r.pc = procs[p].pc /\ r.nonce = procs[p].nonce
        /\ r.tokens = procs[p].tokens /\ r.client = procs[p].client
    BY <2>3, OneProcess DEF ProcType
  <2>5. Become(p, r) /\ r.pc \in {"shown", "waiting"} /\ Alive(p) /\ r.heard # None
    BY <1>4, <2>1, <2>2, <2>3, <2>4, NothingElse DEF Hear, Alive, IInv, PortReleased
  <2>6. Ts(p) => answer.nonce = procs[p].nonce
    BY <1>4, <2>1, <2>2 DEF Ours
  <2>7. Sane(p, r) /\ TabOf(p, r) \in tabs
    BY <2>4, <2>5, <2>6, OneProcess DEF Sane, Shown, TabOf
  <2>8. port' = port \/ (port = p /\ port' = None)
    BY <1>4, <2>1
  <2>9. QED
    BY <1>2, <2>4, <2>5, <2>7, <2>8, Bounded, MoveStep
<1>5. QED
  BY <1>3, <1>4 DEF Callback, TsCallback, PyCallback

LEMMA InitIInv == Init => IInv
<1> SUFFICES ASSUME Init PROVE IInv
  OBVIOUS
<1> USE DEF Init
<1>1. \A p \in Procs : procs[p] = Off /\ Kind(p) \in {"ts", "py"}
  BY Bounds DEF Kind
<1>2. \A k \in {"ts", "py"} : store[k].tokens = None
  BY DEF Empty
<1>3. TypeOK
  <2>1. chain \in [Nonces -> {Unknown, Burned} \cup 0..MaxSerial]
    OBVIOUS
  <2>2. counts \in [runs : 0..MaxRuns, logins : 0..MaxLogins, clients : 0..MaxClients,
                    restarts : 0..MaxRestarts]
    BY Bounds
  <2>3. QED
    BY <2>1, <2>2, OffType DEF TypeOK
<1>4. PortReleased /\ Saneness
  BY <1>1, Idle, NothingElse DEF PortReleased, Saneness, Shown
<1>5. LoginsApart
  BY <1>1, Idle DEF LoginsApart
<1>6. FamiliesApart
  BY <1>1, <1>2, Idle DEF FamiliesApart, Holds
<1>7. OrderlyRuns
  BY <1>1, <1>2, Idle DEF OrderlyRuns, Newest, Alive, Unknown, Burned
<1>8. QED
  BY <1>3, <1>4, <1>5, <1>6, <1>7 DEF IInv

LEMMA NextIInv == IInv /\ [Next]_vars => IInv'
<1> SUFFICES ASSUME IInv, [Next]_vars PROVE IInv'
  OBVIOUS
<1>1. CASE \E p \in Procs : Run(p)
  BY <1>1, ConnectStep, RefreshFirstStep, RegisterStep, FailStep, RefreshStep, BeginStep, BindStep,
     AwaitStep, TakeStep, ExchangeStep, UseStep, ExitStep
  DEF Run, AuthFails, BindFails, Timeout
<1>2. CASE \E p \in Procs : Start(p) \/ LogOut(p) \/ Crash(p)
  BY <1>2, StartStep, LogOutStep, ExitStep
<1>3. CASE \E t \in tabs, verdict \in {"code", "denied"} : Browse(t, verdict)
  BY <1>3, BrowseStep
<1>4. CASE (\E t \in fresh : Expire(t)) \/ Restart
  BY <1>4, ExpireStep, RestartStep
<1>5. CASE UNCHANGED vars
  <2>1. TypeOK'
    BY <1>5 DEF vars, IInv, TypeOK
  <2>2. QED
    BY <1>5, <2>1, ServerStep DEF vars
<1>6. QED
  BY <1>1, <1>2, <1>3, <1>4, <1>5 DEF Next

(***************************************************************************)
(* The theorems                                                            *)
(***************************************************************************)
(* The inductive invariant of the clients and their servers.               *)
THEOREM ClientsInvariant == Spec => []IInv
<1>1. QED
  BY InitIInv, NextIInv, PTL DEF Spec

(* Processes, stores and counters keep their types, and a server knows     *)
(* only what it has issued.                                                *)
THEOREM TypeCorrect == Spec => []TypeOK
<1>1. IInv => TypeOK
  BY DEF IInv
<1>2. QED
  BY <1>1, ClientsInvariant, PTL

(* The callback port is held exactly while a login waits for its answer,   *)
(* whatever ends the wait.                                                 *)
THEOREM PortIsReleased == Spec => []PortReleased
<1>1. IInv => PortReleased
  BY DEF IInv
<1>2. QED
  BY <1>1, ClientsInvariant, PTL

(* A process exchanges the code of its own newest login, as the client it  *)
(* was asked for, whatever tabs and processes there are.                   *)
THEOREM OwnCodeExchanged == Spec => []RightCode
<1>1. IInv => RightCode
  BY DEF IInv, Saneness, Sane, Shown, TabOf, RightCode, Data, ClientOf
<1>2. QED
  BY <1>1, ClientsInvariant, PTL

(* Between orderly runs the stored refresh token is the newest of its      *)
(* family, or forgotten.                                                   *)
THEOREM NewestIsStored == Spec => []NewestStored
<1>1. IInv => NewestStored
  BY DEF IInv, OrderlyRuns, Newest, NewestStored
<1>2. QED
  BY <1>1, ClientsInvariant, PTL

(* No family is burned by runs one after another that lose nothing.        *)
THEOREM OrderlyRunsBurnNothing == Spec => []BurnedOnlyByLoss
<1>1. IInv => BurnedOnlyByLoss
  BY DEF IInv, OrderlyRuns, BurnedOnlyByLoss
<1>2. QED
  BY <1>1, ClientsInvariant, PTL
=============================================================================
