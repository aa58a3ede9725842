----------------------------- MODULE DDictMessages -----------------------------
(***************************************************************************)
(* The messages of the distributed dictionary (infrastructure/messages.py) *)
(* with the fields a receiver looks at. A request's tag comes back as the  *)
(* ref of its response; c is the client (its clientID, and the FLI a       *)
(* response goes to), x a checkpoint id, k a key, v a value.               *)
(***************************************************************************)

SUCCESS                            == "SUCCESS"
FAILURE                            == "FAILURE"
KEY_NOT_FOUND                      == "KEY_NOT_FOUND"
INVALID_OPERATION                  == "INVALID_OPERATION"
EOT                                == "EOT"
MEMORY_POOL_FULL                   == "MEMORY_POOL_FULL"
DDICT_CHECKPOINT_RETIRED           == "DDICT_CHECKPOINT_RETIRED"
DDICT_FUTURE_CHECKPOINT            == "DDICT_FUTURE_CHECKPOINT"
DDICT_PERSIST_CHECKPOINT_UNAVAILABLE == "DDICT_PERSIST_CHECKPOINT_UNAVAILABLE"

\* Bringing a dictionary up and down.
DDCreate(tag, c)                   == [tc |-> "DDCreate", tag |-> tag, c |-> c]
DDCreateResponse(ref, err)         == [tc |-> "DDCreateResponse", ref |-> ref, err |-> err]
DDRegisterManager(m, err)          == [tc |-> "DDRegisterManager", m |-> m, err |-> err]
DDRegisterManagerResponse(err)     == [tc |-> "DDRegisterManagerResponse", err |-> err]
DDCreateManagerResponse(m, err)    == [tc |-> "DDCreateManagerResponse", m |-> m, err |-> err]
DDRandomManager(tag, c)            == [tc |-> "DDRandomManager", tag |-> tag, c |-> c]
DDRandomManagerResponse(ref, m)    ==
    [tc |-> "DDRandomManagerResponse", ref |-> ref, err |-> SUCCESS, m |-> m]
DDDestroy(tag, c)                  == [tc |-> "DDDestroy", tag |-> tag, c |-> c]
DDDestroyResponse(ref)             == [tc |-> "DDDestroyResponse", ref |-> ref, err |-> SUCCESS]
DDDestroyManager                   == [tc |-> "DDDestroyManager"]
DDDestroyManagerResponse(m)        == [tc |-> "DDDestroyManagerResponse", m |-> m, err |-> SUCCESS]

\* A client and the managers it talks to.
DDRegisterClient(tag, c)           == [tc |-> "DDRegisterClient", tag |-> tag, c |-> c]
DDRegisterClientResponse(ref, m)   ==
    [tc |-> "DDRegisterClientResponse", ref |-> ref, err |-> SUCCESS, m |-> m]
DDConnectToManager(tag, c, m)      == [tc |-> "DDConnectToManager", tag |-> tag, c |-> c, m |-> m]
DDConnectToManagerResponse(ref, m) ==
    [tc |-> "DDConnectToManagerResponse", ref |-> ref, err |-> SUCCESS, m |-> m]
DDRegisterClientID(tag, c)         == [tc |-> "DDRegisterClientID", tag |-> tag, c |-> c]
DDRegisterClientIDResponse(ref)    == [tc |-> "DDRegisterClientIDResponse", ref |-> ref, err |-> SUCCESS]
DDDeregisterClient(tag, c)         == [tc |-> "DDDeregisterClient", tag |-> tag, c |-> c]
DDDeregisterClientResponse(ref, err) ==
    [tc |-> "DDDeregisterClientResponse", ref |-> ref, err |-> err]

\* Operations on one key, sent to the manager that holds it.
DDPut(tag, c, x, k, v, p) ==
    [tc |-> "DDPut", tag |-> tag, c |-> c, x |-> x, k |-> k, v |-> v, p |-> p]
DDPutResponse(ref, err)            == [tc |-> "DDPutResponse", ref |-> ref, err |-> err]
DDGet(tag, c, x, k)                == [tc |-> "DDGet", tag |-> tag, c |-> c, x |-> x, k |-> k]
DDGetResponse(ref, err, v)         == [tc |-> "DDGetResponse", ref |-> ref, err |-> err, v |-> v]
DDPop(tag, c, x, k)                == [tc |-> "DDPop", tag |-> tag, c |-> c, x |-> x, k |-> k]
DDPopResponse(ref, err, v)         == [tc |-> "DDPopResponse", ref |-> ref, err |-> err, v |-> v]
DDContains(tag, c, x, k)           == [tc |-> "DDContains", tag |-> tag, c |-> c, x |-> x, k |-> k]
DDContainsResponse(ref, err)       == [tc |-> "DDContainsResponse", ref |-> ref, err |-> err]

\* Operations on every manager, sent to manager 0 and passed on from there.
DDLength(tag, c, x)                == [tc |-> "DDLength", tag |-> tag, c |-> c, x |-> x]
DDLengthResponse(ref, err, n)      == [tc |-> "DDLengthResponse", ref |-> ref, err |-> err, n |-> n]
DDClear(tag, c, x)                 == [tc |-> "DDClear", tag |-> tag, c |-> c, x |-> x]
DDClearResponse(ref, err)          == [tc |-> "DDClearResponse", ref |-> ref, err |-> err]
DDSync(tag, c)                     == [tc |-> "DDSync", tag |-> tag, c |-> c]
DDSyncResponse(ref)                == [tc |-> "DDSyncResponse", ref |-> ref, err |-> SUCCESS]
DDManagerStats(tag, c)             == [tc |-> "DDManagerStats", tag |-> tag, c |-> c]
DDManagerStatsResponse(ref, n)     ==
    [tc |-> "DDManagerStatsResponse", ref |-> ref, err |-> SUCCESS, n |-> n]
DDManagerNewestChkptID(tag, c)     == [tc |-> "DDManagerNewestChkptID", tag |-> tag, c |-> c]
DDManagerNewestChkptIDResponse(ref, x) ==
    [tc |-> "DDManagerNewestChkptIDResponse", ref |-> ref, err |-> SUCCESS, x |-> x]
DDFreeze(tag, c)                   == [tc |-> "DDFreeze", tag |-> tag, c |-> c]
DDFreezeResponse(ref)              == [tc |-> "DDFreezeResponse", ref |-> ref, err |-> SUCCESS]
DDUnFreeze(tag, c)                 == [tc |-> "DDUnFreeze", tag |-> tag, c |-> c]
DDUnFreezeResponse(ref)            == [tc |-> "DDUnFreezeResponse", ref |-> ref, err |-> SUCCESS]
DDGetFreeze(tag, c)                == [tc |-> "DDGetFreeze", tag |-> tag, c |-> c]
DDGetFreezeResponse(ref, f)        ==
    [tc |-> "DDGetFreezeResponse", ref |-> ref, err |-> SUCCESS, f |-> f]

\* Iterators: every manager in turn answers on the iterator's own FLI.
DDKeys(tag, c, x)                  == [tc |-> "DDKeys", tag |-> tag, c |-> c, x |-> x]
DDKeysResponse(ref, ks)            == [tc |-> "DDKeysResponse", ref |-> ref, err |-> SUCCESS, ks |-> ks]
DDValues(tag, c, x)                == [tc |-> "DDValues", tag |-> tag, c |-> c, x |-> x]
DDValuesResponse(ref, err, ks)     == [tc |-> "DDValuesResponse", ref |-> ref, err |-> err, ks |-> ks]
DDItems(tag, c, x)                 == [tc |-> "DDItems", tag |-> tag, c |-> c, x |-> x]
DDItemsResponse(ref, ks)           == [tc |-> "DDItemsResponse", ref |-> ref, err |-> SUCCESS, ks |-> ks]

\* Persisted checkpoints.
DDChkptAvail(tag, c, x)            == [tc |-> "DDChkptAvail", tag |-> tag, c |-> c, x |-> x]
DDChkptAvailResponse(ref, a)       ==
    [tc |-> "DDChkptAvailResponse", ref |-> ref, err |-> SUCCESS, available |-> a]
DDPersistedChkptAvail(tag, c, x)   == [tc |-> "DDPersistedChkptAvail", tag |-> tag, c |-> c, x |-> x]
DDPersistedChkptAvailResponse(ref, a) ==
    [tc |-> "DDPersistedChkptAvailResponse", ref |-> ref, err |-> SUCCESS, available |-> a]
DDPersist(tag, c, x)               == [tc |-> "DDPersist", tag |-> tag, c |-> c, x |-> x]
DDPersistResponse(ref, err)        == [tc |-> "DDPersistResponse", ref |-> ref, err |-> err]
DDRestore(tag, c, x)               == [tc |-> "DDRestore", tag |-> tag, c |-> c, x |-> x]
DDRestoreResponse(ref, err)        == [tc |-> "DDRestoreResponse", ref |-> ref, err |-> err]
DDPersistChkpts(tag, c)            == [tc |-> "DDPersistChkpts", tag |-> tag, c |-> c]
DDPersistChkptsResponse(ref, xs)   ==
    [tc |-> "DDPersistChkptsResponse", ref |-> ref, err |-> SUCCESS, xs |-> xs]
DDAdvance(tag, c)                  == [tc |-> "DDAdvance", tag |-> tag, c |-> c]
DDAdvanceResponse(ref, err, x)     == [tc |-> "DDAdvanceResponse", ref |-> ref, err |-> err, x |-> x]

\* Batches and broadcast puts: the pairs follow on the request's stream.
DDBatchPut(tag, c, x, p)           == [tc |-> "DDBatchPut", tag |-> tag, c |-> c, x |-> x, p |-> p]
DDBatchPutResponse(ref, err, n, m) ==
    [tc |-> "DDBatchPutResponse", ref |-> ref, err |-> err, n |-> n, m |-> m]
DDBPut(tag, c, x, ms, batch, k, v) ==
    [tc |-> "DDBPut", tag |-> tag, c |-> c, x |-> x, ms |-> ms, batch |-> batch, k |-> k, v |-> v]
DDBPutResponse(ref, err, n, m)     ==
    [tc |-> "DDBPutResponse", ref |-> ref, err |-> err, n |-> n, m |-> m]
================================================================================
