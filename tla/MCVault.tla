------------------------------- MODULE MCVault -------------------------------
(***************************************************************************)
(* Vault as TLC checks it: the bounds are set in the configurations.  The  *)
(* run of exits keeps to two regions, so that the sizes of the queue and   *)
(* of the calendar do not multiply.                                        *)
(***************************************************************************)
EXTENDS Vault

\* Long queues at one ledger time: nothing is locked, and the owner leaves
\* grace and minimum as they are.
Queueing ==
  /\ now = 0 /\ lockPeriod = 0
  /\ gracePeriod = DefaultGracePeriod /\ minQueueAssets = DefaultMinQueueAssets

\* One deposit over all ledger times, with at most one request, in whole deposits.
Ageing ==
  /\ supply <= 2 /\ liquidity + debt <= 2 /\ tail <= 1 /\ unreachable = {}
  /\ \A h \in Holders : balance[h] # 1

ExitsNext == Next /\ (Queueing' \/ Ageing')
ExitsSpec == Init /\ [][ExitsNext]_vars
=============================================================================
