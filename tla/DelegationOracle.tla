--------------------------- MODULE DelegationOracle ---------------------------
(***************************************************************************)
(* What a server that calls an API for its callers promises, whatever it   *)
(* exchanges and keeps: the API answers about a user only                  *)
(*   - to a call that this user's own credential made,                     *)
(*   - that obtained a delegation, while the credential was good,          *)
(*   - and at most Delay after that, or after the user's sessions were     *)
(*     ended if that was earlier.                                          *)
(* A call may also be refused, at any time.  There are no tokens, no cache *)
(* and no exchange.                                                        *)
(***************************************************************************)
EXTENDS Integers

CONSTANTS
  Users,
  Credentials,  \* [user, until]: what callers show, and until when it is good
  Slots,        \* slots for calls
  Delay,        \* how long a delegation may be used
  Never,        \* before every instant: not ended
  Nothing,      \* no credential, no answer, no delegation
  Refused       \* the answer that there is none

VARIABLES
  now,      \* the clock
  endedAt,  \* per user: when the sessions were ended, or Never
  asked     \* per slot: [state, by, goodFor, answer]

vars == <<now, endedAt, asked>>

Call(state, by, goodFor, answer) ==
  [state |-> state, by |-> by, goodFor |-> goodFor, answer |-> answer]
Free == Call("free", Nothing, Nothing, Nothing)

Init ==
  /\ now = 0
  /\ endedAt = [u \in Users |-> Never]
  /\ asked = [s \in Slots |-> Free]

Become(s, r) ==
  /\ asked' = [asked EXCEPT ![s] = r]
  /\ UNCHANGED <<now, endedAt>>

Ask(s, by) ==
  /\ asked[s].state = "free" /\ now <= by.until
  /\ Become(s, Call("asked", by, Nothing, Nothing))

(* An earlier delegation may do, so the user may have been logged out.     *)
Delegate(s) ==
  LET user == asked[s].by.user IN
  /\ asked[s].state = "asked" /\ now < asked[s].by.until
  /\ \E end \in (now + 1)..(now + Delay) :
       /\ endedAt[user] = Never \/ end <= endedAt[user] + Delay
       /\ Become(s, Call("delegated", asked[s].by, end, Nothing))

(* What was granted is lost on its way.                                    *)
Lose(s) ==
  /\ asked[s].state = "delegated"
  /\ Become(s, Call("asked", asked[s].by, Nothing, Nothing))

Answer(s) ==
  /\ asked[s].state = "delegated" /\ now <= asked[s].goodFor
  /\ Become(s, Call("answered", asked[s].by, Nothing, asked[s].by.user))

Refuse(s) ==
  /\ asked[s].state \in {"asked", "delegated"}
  /\ Become(s, Call("answered", asked[s].by, Nothing, Refused))

Forget(s) ==
  /\ asked[s].state = "answered"
  /\ Become(s, Free)

(* The sessions of a user end once; the user does not come back.           *)
End(u) ==
  /\ endedAt[u] = Never
  /\ endedAt' = [endedAt EXCEPT ![u] = now]
  /\ UNCHANGED <<now, asked>>

Pass ==
  /\ now' = now + 1
  /\ UNCHANGED <<endedAt, asked>>

Next ==
  \/ \E s \in Slots :
       \/ \E by \in Credentials : Ask(s, by)
       \/ Delegate(s) \/ Lose(s) \/ Answer(s) \/ Refuse(s) \/ Forget(s)
  \/ \E u \in Users : End(u)
  \/ Pass

Spec == Init /\ [][Next]_vars
=============================================================================
