-------------------------- MODULE MCIntentRegistry --------------------------
(* Small instances of the intent registry.                                 *)
EXTENDS IntentRegistry, TLC

CONSTANTS s1, s2, dir, file, doc, p, q, d

(* The first session claims a directory.  The other one may claim a file   *)
(* in it, for another area, which a check on SQLite sees only when it is   *)
(* made for the directory; or other files of the same area, that no glob   *)
(* of the first meets.  A row of the hooks shares the path alone.          *)
Dir == [area |-> "a", paths |-> {dir}]
InDir == [area |-> "b", paths |-> {file}]
Other == [area |-> "a", paths |-> {doc}]
MCUnscoped == [area |-> "unscoped", paths |-> {dir}]

MCClaims == {Dir, InDir, Other, MCUnscoped}
MCWants == s1 :> {Dir} @@ s2 :> {InDir, Other}
MCTouches == {<<dir, dir>>, <<file, file>>, <<doc, doc>>, <<dir, file>>, <<file, dir>>}
MCWithin == {<<dir, {dir}>>, <<file, {file}>>, <<doc, {doc}>>, <<dir, {file}>>}
=============================================================================
