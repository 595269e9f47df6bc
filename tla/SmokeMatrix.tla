---------------------------- MODULE SmokeMatrix ----------------------------
(***************************************************************************)
(* The expectation table of scripts/smoke.ts: per example its servers, the *)
(* client steps with the exit code and the user each must show, and        *)
(* whether a probe without credentials follows.                            *)
(*                                                                         *)
(* What a step asserts is the user whose name the client must report, or   *)
(* one of several; admin_only goes with the user (only bob may).           *)
(***************************************************************************)
EXTENDS Integers, Sequences

CONSTANT NoUser   \* no credential, no browser

Users == {"anonymous", "alice", "bob", "mcp-service"}
NotAdmin == Users \ {"bob"}

(* A client without a token store: its credential is in its environment.   *)
Static(u) == [work |-> "static", store |-> "none", user |-> u, exit |-> 0, expect |-> {u}]
Rejected == [Static(NoUser) EXCEPT !.exit = 1, !.expect = {}]

(* An OAuth client: a browser logs u in when its store, which goes by its  *)
(* client id, does not do.                                                 *)
Login(u, s) == [work |-> "oauth", store |-> s, user |-> u, exit |-> 0, expect |-> {u}]
Stored(u, s) == [Login(u, s) EXCEPT !.user = NoUser]
Expired(s) == [Stored(NoUser, s) EXCEPT !.exit = 1, !.expect = {}]
Logout(s) == [work |-> "logout", store |-> s, user |-> NoUser, exit |-> 0, expect |-> {}]
Revoke(u) == [work |-> "revoke", store |-> "none", user |-> u, exit |-> 0, expect |-> {}]

TableRow(id, keycloak, servers, steps) ==
  [id |-> id, keycloak |-> keycloak, servers |-> servers, steps |-> steps,
   https |-> FALSE, python |-> FALSE, setup |-> FALSE, negative |-> TRUE]

EXAMPLES == <<
  TableRow("00", FALSE, <<4100>>, <<Static("anonymous")>>),
  TableRow("01", FALSE, <<4101>>, <<Static("alice"), Static("bob"), Rejected>>),
  TableRow("02", FALSE, <<4192, 4102>>, <<Static("alice"), Static("bob"), Rejected>>),
  TableRow("03", FALSE, <<4103>>,
    <<Login("alice", "dcr"), Stored("alice", "dcr"), Logout("dcr"), Login("bob", "mcp-cli")>>),
  TableRow("04", TRUE, <<4104>>,
    <<Login("alice", "dcr"), Stored("alice", "dcr"), Login("alice", "mcp-cli"),
      Logout("mcp-cli"), Login("bob", "mcp-cli")>>),
  TableRow("05", TRUE, <<4105>>, <<Static("mcp-service")>>),
  TableRow("06", TRUE, <<4106>>,
    <<Login("alice", "dcr"), Stored("alice", "dcr"), Login("alice", "mcp-cli")>>),
  TableRow("07", TRUE, <<4107>>,
    <<Login("alice", "mcp-cli"), Revoke("alice"), Expired("mcp-cli")>>),
  [TableRow("08", FALSE, <<4108>>, <<Static("alice"), Static("bob"), Rejected>>)
     EXCEPT !.https = TRUE, !.setup = TRUE, !.negative = FALSE],
  TableRow("09", TRUE, <<4109>>, <<[Login("alice", "mcp-cli") EXCEPT !.expect = NotAdmin]>>),
  TableRow("10", TRUE, <<4110>>, <<Login("alice", "mcp-cli")>>),
  [TableRow("11", TRUE, <<4111>>, <<[Login("alice", "mcp-cli") EXCEPT !.expect = NotAdmin]>>)
     EXCEPT !.python = TRUE] >>
=============================================================================
