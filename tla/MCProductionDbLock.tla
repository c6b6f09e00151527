------------------------- MODULE MCProductionDbLock -------------------------
(* Two import shards and the daily research, an exclusive job.             *)
EXTENDS ProductionDbLock, TLC

CONSTANTS shard1, shard2, research

MCJob == {shard1, shard2, research}
MCMode == [j \in MCJob |-> IF j \in {shard1, shard2} THEN "shared" ELSE "exclusive"]
=============================================================================
