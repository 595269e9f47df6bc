--------------------------- MODULE RevocationOracle ---------------------------
(***************************************************************************)
(* What a server that asks Keycloak about bearer tokens promises, whatever *)
(* it caches: it behaves like an oracle that sees every token at once.     *)
(*   - It grants a token only that was issued for it and has not expired,  *)
(*     and for at most Delay after the token was ended.                    *)
(*   - It calls a token invalid only when the token is not valid any more, *)
(*     or it could not make out what it was told about the token, at most  *)
(*     Blame ago.                                                          *)
(*   - It may answer anything else (an outage, missing scopes) at any time.*)
(* There are no calls, no entries, no discovery and no answers on the way. *)
(***************************************************************************)
EXTENDS Integers

CONSTANTS
  Tokens,   \* bearer tokens
  Delay,    \* how long a token may be granted after its end
  Blame,    \* how long a token may be called invalid after an unreadable word on it
  Forever,  \* the expiry of a token that has none
  Never     \* before every instant: not ended, or not issued for this server

VARIABLES
  now,      \* the clock
  until,    \* per token: when it expires, Forever, or Never for a foreign one
  endedAt,  \* per token: when it was ended, or Never
  unheardAt, \* per token: when an unreadable word on it came, not longer than Blame ago
  answers   \* [token, verdict] given in the last step

vars == <<now, until, endedAt, unheardAt, answers>>

Init ==
  /\ now = 0
  /\ until \in [Tokens -> Nat \cup {Forever, Never}]
  /\ endedAt = [t \in Tokens |-> Never]
  /\ unheardAt = [t \in Tokens |-> Never]
  /\ answers = {}

Valid(t) == endedAt[t] = Never /\ (until[t] = Forever \/ now < until[t])

Grantable(t) ==
  /\ until[t] = Forever \/ now <= until[t]
  /\ endedAt[t] = Never \/ now <= endedAt[t] + Delay

Pass ==
  /\ now' = now + 1
  /\ unheardAt' = [t \in Tokens |-> IF unheardAt[t] + Blame < now' THEN Never ELSE unheardAt[t]]
  /\ answers' = {}
  /\ UNCHANGED <<until, endedAt>>

(* Tokens end for good: nothing revives them or moves the end.             *)
End(ts) ==
  /\ endedAt' = [t \in Tokens |-> IF t \in ts /\ endedAt[t] = Never THEN now ELSE endedAt[t]]
  /\ answers' = {}
  /\ UNCHANGED <<now, until, unheardAt>>

(* The word on some tokens may be unreadable in this very step.            *)
Answer ==
  /\ \E ts \in SUBSET Tokens :
       unheardAt' = [t \in Tokens |-> IF t \in ts THEN now ELSE unheardAt[t]]
  /\ \A a \in answers' :
       /\ a.verdict = "granted" => Grantable(a.token)
       /\ a.verdict = "invalid" => ~Valid(a.token) \/ unheardAt'[a.token] # Never
  /\ UNCHANGED <<now, until, endedAt>>

Next == Pass \/ (\E ts \in SUBSET Tokens : End(ts)) \/ Answer

Spec == Init /\ [][Next]_vars
=============================================================================
