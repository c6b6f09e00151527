--------------------------- MODULE MCBotDelivery ---------------------------
(* A small instance of BotDelivery: two updates with room to remember one,   *)
(* one member of the universe, two scans, and time for one to become stale. *)
EXTENDS BotDelivery

\* Production, and a local bot without a database.
MCDeployment == {[snapshotOnly |-> production, configured |-> production] : production \in BOOLEAN}
MCRanking == {Member}
MCContent == {[mode |-> "PRIMARY", rows |-> Member]}
=============================================================================
