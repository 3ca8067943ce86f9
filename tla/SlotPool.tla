-------------------------------- MODULE SlotPool --------------------------------
(****************************************************************************)
(* What the connection limit promises (internal/server/ratelimit.go,        *)
(* ConnectionTracker, as used by internal/server/ws.go): a connection is    *)
(* admitted only while fewer than MaxConn others are, keeps one slot until  *)
(* it is over, gives it back once, and never comes back.                    *)
(****************************************************************************)
EXTENDS Naturals, FiniteSets

CONSTANTS Conns, MaxConn

VARIABLE phase

PoolInit == phase = [c \in Conns |-> "new"]

Admitted == {c \in Conns : phase[c] = "admitted"}

Admit(c) ==
  /\ phase[c] = "new" /\ Cardinality(Admitted) < MaxConn
  /\ phase' = [phase EXCEPT ![c] = "admitted"]

TurnAway(c) == phase[c] = "new" /\ phase' = [phase EXCEPT ![c] = "over"]

Release(c) == phase[c] = "admitted" /\ phase' = [phase EXCEPT ![c] = "over"]

PoolNext == \E c \in Conns : Admit(c) \/ TurnAway(c) \/ Release(c)

PoolSpec == PoolInit /\ [][PoolNext]_phase
================================================================================
