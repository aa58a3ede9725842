-------------------------- MODULE ServiceMessages --------------------------
(***************************************************************************)
(* The messages clients, global services and local services exchange       *)
(* (infrastructure/messages.py), with the fields the handlers tell apart.  *)
(* The sender of a request and its tag are the r and by of the handlers.   *)
(* opt is [head, inf, pipe, bad]: a head process, make_inf_channels, PIPEs *)
(* for stdio, a policy no node satisfies.                                  *)
(***************************************************************************)
EXTENDS Naturals, Sequences

-----------------------------------------------------------------------------
(* Requests to global services.                                             *)

GSProcessCreate(name, opt) == [tc |-> "GSProcessCreate", name |-> name, opt |-> opt]
GSProcessKill(p)           == [tc |-> "GSProcessKill", p |-> p]
GSProcessJoin(p, timeout)  == [tc |-> "GSProcessJoin", p |-> p, mode |-> timeout]
GSProcessJoinList(ps, join_all, return_on_bad_exit, timeout) ==
    [tc |-> "GSProcessJoinList", ps |-> ps, all |-> join_all, onBad |-> return_on_bad_exit, mode |-> timeout]

GSPoolCreate(name) == [tc |-> "GSPoolCreate", name |-> name]
GSPoolDestroy(m)   == [tc |-> "GSPoolDestroy", m |-> m]

GSChannelCreate(name, muid, refcount) ==
    [tc |-> "GSChannelCreate", name |-> name, muid |-> muid, rc |-> refcount]
GSChannelQuery(c, inc_refcnt) == [tc |-> "GSChannelQuery", c |-> c, inc |-> inc_refcnt]
GSChannelJoin(name, timeout)  == [tc |-> "GSChannelJoin", name |-> name, mode |-> timeout]
GSChannelDestroy(c, dec_ref)  == [tc |-> "GSChannelDestroy", c |-> c, dec |-> dec_ref]

GSGroupCreate(name, items, pmi, opt) ==
    [tc |-> "GSGroupCreate", name |-> name, items |-> items, pmi |-> pmi, opt |-> opt]
GSGroupCreateAddTo(g, items, opt) == [tc |-> "GSGroupCreateAddTo", g |-> g, items |-> items, opt |-> opt]
GSGroupAddTo(g, ps)             == [tc |-> "GSGroupAddTo", g |-> g, ps |-> ps]
GSGroupRemoveFrom(g, ps)        == [tc |-> "GSGroupRemoveFrom", g |-> g, ps |-> ps]
GSGroupDestroyRemoveFrom(g, ps) == [tc |-> "GSGroupDestroyRemoveFrom", g |-> g, ps |-> ps]
GSGroupKill(g)                  == [tc |-> "GSGroupKill", g |-> g]
GSGroupDestroy(g)               == [tc |-> "GSGroupDestroy", g |-> g]

-----------------------------------------------------------------------------
(* Its answers; err is a member of the class's Errors.                      *)

GSProcessCreateResponse(err)   == [tc |-> "GSProcessCreateResponse", err |-> err]
GSProcessKillResponse(err)     == [tc |-> "GSProcessKillResponse", err |-> err]
GSProcessJoinResponse(err, ec) == [tc |-> "GSProcessJoinResponse", err |-> err, ec |-> ec]
GSProcessJoinListResponse(status) == [tc |-> "GSProcessJoinListResponse", err |-> "LIST", status |-> status]

GSPoolCreateResponse(err)  == [tc |-> "GSPoolCreateResponse", err |-> err]
GSPoolDestroyResponse(err) == [tc |-> "GSPoolDestroyResponse", err |-> err]

GSChannelCreateResponse(err)    == [tc |-> "GSChannelCreateResponse", err |-> err]
GSChannelQueryResponse(err, st) == [tc |-> "GSChannelQueryResponse", err |-> err, st |-> st]
GSChannelJoinResponse(err)      == [tc |-> "GSChannelJoinResponse", err |-> err]
GSChannelDestroyResponse(err)   == [tc |-> "GSChannelDestroyResponse", err |-> err]

GSGroupCreateResponse(err)            == [tc |-> "GSGroupCreateResponse", err |-> err]
GSGroupCreateAddToResponse(err)       == [tc |-> "GSGroupCreateAddToResponse", err |-> err]
GSGroupAddToResponse(err)             == [tc |-> "GSGroupAddToResponse", err |-> err]
GSGroupRemoveFromResponse(err)        == [tc |-> "GSGroupRemoveFromResponse", err |-> err]
GSGroupDestroyRemoveFromResponse(err) == [tc |-> "GSGroupDestroyRemoveFromResponse", err |-> err]
GSGroupKillResponse(err)              == [tc |-> "GSGroupKillResponse", err |-> err]
GSGroupDestroyResponse(err)           == [tc |-> "GSGroupDestroyResponse", err |-> err]

-----------------------------------------------------------------------------
(* Requests to local services, and what they send.                          *)

LSChannelCreate(c, muid) == [tc |-> "LSChannelCreate", tag |-> <<"create channel", c>>, uid |-> c, muid |-> muid]
LSChannelDestroy(c)      == [tc |-> "LSChannelDestroy", tag |-> <<"destroy channel", c>>, uid |-> c]
LSPoolCreate(m)          == [tc |-> "LSPoolCreate", tag |-> <<"create pool", m>>, uid |-> m]
LSPoolDestroy(m)         == [tc |-> "LSPoolDestroy", tag |-> <<"destroy pool", m>>, uid |-> m]
LSProcessCreate(p, ret, std) ==
    [tc |-> "LSProcessCreate", tag |-> <<"create", p>>, uid |-> p, ret |-> ret, std |-> std]
LSProcessKill(p)         == [tc |-> "LSProcessKill", tag |-> <<"kill", p>>, uid |-> p]
LSMultiProcessCreate(ms) == [tc |-> "LSMultiProcessCreate", procs |-> ms]
LSMultiProcessKill(ms)   == [tc |-> "LSMultiProcessKill", procs |-> ms]
LSCreateProcessLocalChannel(p, r)     == [tc |-> "LSCreateProcessLocalChannel", puid |-> p, cuid |-> 0, req |-> r]
LSDestroyProcessLocalChannel(p, c, r) == [tc |-> "LSDestroyProcessLocalChannel", puid |-> p, cuid |-> c, req |-> r]

LSChannelCreateResponse(m, ok)  == [tc |-> "LSChannelCreateResponse", tag |-> m.tag, uid |-> m.uid, ok |-> ok]
LSChannelDestroyResponse(m, ok) == [tc |-> "LSChannelDestroyResponse", tag |-> m.tag, uid |-> m.uid, ok |-> ok]
LSPoolCreateResponse(m, ok)     == [tc |-> "LSPoolCreateResponse", tag |-> m.tag, uid |-> m.uid, ok |-> ok]
LSPoolDestroyResponse(m, ok)    == [tc |-> "LSPoolDestroyResponse", tag |-> m.tag, uid |-> m.uid, ok |-> ok]
LSProcessCreateResponse(m, ok)  == [tc |-> "LSProcessCreateResponse", tag |-> m.tag, uid |-> m.uid, ok |-> ok]
LSProcessKillResponse(m, ok)    == [tc |-> "LSProcessKillResponse", tag |-> m.tag, uid |-> m.uid, ok |-> ok]
LSMultiProcessCreateResponse(rs) == [tc |-> "LSMultiProcessCreateResponse", responses |-> rs]
LSMultiProcessKillResponse(rs)   == [tc |-> "LSMultiProcessKillResponse", responses |-> rs]
LSProcessExit(p, ec)             == [tc |-> "LSProcessExit", uid |-> p, ec |-> ec]
=============================================================================
