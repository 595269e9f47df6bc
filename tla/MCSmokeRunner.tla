--------------------------- MODULE MCSmokeRunner ---------------------------
(***************************************************************************)
(* An instance of SmokeRunner for TLC: rows of the table, some of them     *)
(* with fewer steps; and what the table as a whole is assumed to be.       *)
(***************************************************************************)
EXTENDS SmokeRunner, SequencesExt

(* An issuer and a server (02), a log-in after another's log-out (04), an  *)
(* example that is missing (05), a log-in that is revoked (07), mutual TLS *)
(* (08), Python (11) with a log-out.                                       *)
Some ==
  <<TableRow("02", FALSE, <<4192, 4102>>, <<Rejected>>),
    TableRow("04", TRUE, <<4104>>,
      <<Login("alice", "mcp-cli"), Logout("mcp-cli"), Login("bob", "mcp-cli")>>),
    TableRow("05", TRUE, <<4105>>, <<>>),
    TableRow("07", TRUE, <<4107>>,
      <<Login("alice", "mcp-cli"), Revoke("alice"), Expired("mcp-cli")>>),
    [TableRow("08", FALSE, <<4108>>, <<Rejected>>)
       EXCEPT !.https = TRUE, !.setup = TRUE, !.negative = FALSE],
    [TableRow("11", TRUE, <<4111>>, <<Logout("mcp-cli")>>) EXCEPT !.python = TRUE]>>

(* The stores of an example before each of its steps and after the last.   *)
Reckon(x) ==
  LET at == FoldLeft(LAMBDA sts, s : Append(sts, CHOOSE st \in StoreType : Reckons(s, Last(sts), st)),
                     <<[key \in Stores |-> NoToken]>>, x.steps)
  IN  [n \in 0..Len(x.steps) |-> at[n + 1]]
Reckoning == [e \in DOMAIN Examples |-> Reckon(Examples[e])]

(* What the proofs assume of a table is true of the whole one.             *)
ASSUME WholeTable == \A e \in DOMAIN EXAMPLES : RightAbout(EXAMPLES[e], Reckon(EXAMPLES[e]))

SomeIds == {"02", "04", "07", "08", "11"}
Halves == {{"02", "04", "05", "08"}, {"07", "11"}}
AllStores == {"dcr", "mcp-cli"}
Maybe == BOOLEAN
=============================================================================
