----------------------------- MODULE MCMinerClient -----------------------------
(* Instance of MinerClient for TLC: this miner and another one.             *)
EXTENDS MinerClientProps

CONSTANTS me, other

MCMiners == {me, other}
=============================================================================
