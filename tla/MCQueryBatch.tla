---------------------------- MODULE MCQueryBatch ----------------------------
(***************************************************************************)
(* Three refs in chunks of two, three ids of which one is listed twice,    *)
(* two tokens: a goroutine waits for a token, two fail at once, an id is   *)
(* shared between chunks.                                                  *)
(***************************************************************************)
EXTENDS QueryBatch

CONSTANTS a, b, c

MCIds == {a, b, c}
MCMatches == <<{a, b}, {b}, {c}>>
=============================================================================
