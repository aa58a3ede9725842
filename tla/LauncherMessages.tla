--------------------------- MODULE LauncherMessages ---------------------------
(***************************************************************************)
(* The messages the launcher frontend, its backends, local services, the   *)
(* transport agents and global services exchange while a runtime is        *)
(* brought up and taken down (infrastructure/messages.py), with the fields *)
(* a receiver looks at.                                                    *)
(***************************************************************************)

\* Bring up.
BEIsUp(h)               == [tc |-> "BEIsUp", host |-> h]
FENodeIdxBE(i)          == [tc |-> "FENodeIdxBE", node_index |-> i]
BENodeIdxLS             == [tc |-> "BENodeIdxLS"]
LSPingBE                == [tc |-> "LSPingBE"]
BEPingLS                == [tc |-> "BEPingLS"]
LSChannelsUp            == [tc |-> "LSChannelsUp"]
LAChannelsInfo          == [tc |-> "LAChannelsInfo"]
TAPingLS                == [tc |-> "TAPingLS"]
TAUp                    == [tc |-> "TAUp"]
GSPingLS                == [tc |-> "GSPingLS"]
LSPingGS                == [tc |-> "LSPingGS"]
GSIsUp                  == [tc |-> "GSIsUp"]

\* The application's head processes.
GSProcessCreate         == [tc |-> "GSProcessCreate"]
GSProcessCreateResponse(err) ==
    [tc |-> "GSProcessCreateResponse", err |-> err]
GSHeadExit              == [tc |-> "GSHeadExit"]

\* Orderly teardown.
GSTeardown              == [tc |-> "GSTeardown"]
GSHalted                == [tc |-> "GSHalted"]
LSHaltTA                == [tc |-> "LSHaltTA"]
TAHalted                == [tc |-> "TAHalted"]
LSTeardown              == [tc |-> "LSTeardown"]
LSHaltBE                == [tc |-> "LSHaltBE"]
BEHalted                == [tc |-> "BEHalted"]
HaltOverlay             == [tc |-> "HaltOverlay"]

\* Failures. An AbnormalTermination names the hosts that are lost; the one a
\* backend's watcher sends for its local services names none (host_id 0).
AbnormalTermination(hs) == [tc |-> "AbnormalTermination", hosts |-> hs]
ExceptionlessAbort      == [tc |-> "ExceptionlessAbort"]
RebootRuntime(hs)       == [tc |-> "RebootRuntime", hosts |-> hs]
LAExit(sigint)          == [tc |-> "LAExit", sigint |-> sigint]
===============================================================================
