----------------------------- MODULE MCCliOAuth -----------------------------
(* A small instance of CliOAuth for TLC: two TypeScript clients on one     *)
(* store, or one beside a Python client, against either server.            *)
EXTENDS CliOAuth, TLC

CONSTANTS p1, p2

TwoProcs == {p1, p2}
Setup(second, server, static) ==
  [kind |-> (p1 :> "ts") @@ (p2 :> second), server |-> server, static |-> static]
SomeSetups == {Setup("ts", "embedded", FALSE), Setup("ts", "embedded", TRUE),
               Setup("py", "facade", FALSE)}
=============================================================================
