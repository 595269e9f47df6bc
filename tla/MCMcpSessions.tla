--------------------------- MODULE MCMcpSessions ---------------------------
(* Small instances of McpSessions for TLC.                                 *)
EXTENDS McpSessions, TLC

CONSTANTS s1, s2, i1, i2, r1, r2

TwoSubjects == {s1, s2}
OneSubject == {s1}
TwoIds == {i1, i2}
OneId == {i1}
TwoRequests == {r1, r2}
OneRequest == {r1}
=============================================================================
