----------------------------- MODULE GrantChain -----------------------------
(***************************************************************************)
(* What the embedded authorization server promises about everything a      *)
(* client can redeem at /token, codes and refresh tokens alike:            *)
(*   - it is offered once and redeemed at most once;                       *)
(*   - redeeming it yields one successor, of the same family, so that a    *)
(*     family is a chain with at most one redeemable end;                  *)
(*   - whatever else happens only takes offers away, and once a family     *)
(*     has ended it has none, ever again.                                  *)
(* There is no clock here, no client, no request that may be refused and   *)
(* no step between the challenge and the exchange.                         *)
(***************************************************************************)
CONSTANTS
  Sources,   \* codes and token pairs
  None       \* the family of a code, which has none yet

VARIABLES
  known,       \* sources that were ever offered (and other identifiers in use)
  redeemable,  \* the offers that are open: a source and its family
  ended        \* families that have ended

vars == <<known, redeemable, ended>>

Offer(source, family) == [source |-> source, family |-> family]

Init ==
  /\ known = {}
  /\ redeemable = {}
  /\ ended = {}

(* A new chain may start: a user consented.                                *)
Consent(s) ==
  /\ s \notin known
  /\ known' = known \cup {s}
  /\ redeemable' = redeemable \cup {Offer(s, None)}
  /\ UNCHANGED ended

(* The offer x is exchanged for its successor n; a code becomes the head   *)
(* of a family named by n.  Other offers may expire at the same time.      *)
Redeem(x, n) ==
  LET successor == Offer(n, IF x.family = None THEN n ELSE x.family)
  IN  /\ x.family \notin ended
      /\ n \notin known
      /\ known' = known \cup {n}
      /\ successor \in redeemable'
      /\ redeemable' \subseteq (redeemable \ {x}) \cup {successor}
      /\ UNCHANGED ended

(* Offers are withdrawn - denied, expired, revoked, lost - and families    *)
(* may end.                                                                *)
Withdraw ==
  /\ known \subseteq known'
  /\ redeemable' \subseteq redeemable
  /\ ended \subseteq ended'
  /\ \A x \in redeemable' : x.family \notin ended'

Next ==
  \/ \E s \in Sources : Consent(s)
  \/ \E x \in redeemable, n \in Sources : Redeem(x, n)
  \/ Withdraw

Spec == Init /\ [][Next]_vars
=============================================================================
