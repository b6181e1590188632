---------------------------- MODULE StorageSync ----------------------------
(* runSync: the storage server serves one client after the other; accept   *)
(* blocks.  Its descriptor table cannot be full there: nothing is open.    *)
EXTENDS StorageHandler

syncVars == <<netVars, handlerVars>>

SyncTypeOK == NetTypeOK /\ HandlerTypeOK

SyncInit == NetInit /\ HandlerInit

SyncAccept ==
  /\ pc = "wait"
  /\ \E f \in Fds : AcceptClient(f) /\ cur' = f
  /\ pc' = "recv"

SyncClose ==
  /\ \E k \in DOMAIN clientSockets : IsFirst(k) /\ Released(k)
  /\ pc' = "wait"

SyncStep == SyncAccept \/ SyncClose \/ HandlerStep \/ ServerFails

SyncIdle == pc = "wait" /\ AllServed /\ UNCHANGED syncVars

SyncNext == ClientStep \/ SyncStep \/ Kill \/ Restart \/ SyncIdle

SyncSpec == SyncInit /\ [][SyncNext]_syncVars
=============================================================================
