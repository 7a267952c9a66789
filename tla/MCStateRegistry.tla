-------------------------- MODULE MCStateRegistry --------------------------
EXTENDS StateRegistry

CONSTANTS i1, a1, a2, cid1, w1, k1, v1

MCCidAddr == [c \in {cid1} |-> a2]

CsReq(kind, a, k) == [kind |-> kind, id |-> i1, addr |-> a, key |-> k, val |-> v1]
CbReq(kind, k)    == [kind |-> kind, id |-> i1, key |-> k, val |-> v1]
CreateReq(code)   == [kind |-> "createContract", id |-> i1, cid |-> cid1, code |-> code]
BalReq(kind, a)   == [kind |-> kind, id |-> i1, addr |-> a, amt |-> 1]
CallReq(a)        == [kind |-> "callContract", id |-> i1, addr |-> a]

\* Every entry point called with a nil state pointer.
NilReqs ==
    {[r EXCEPT !.id = NilPtr] :
        r \in {CbReq("cbGet", EmptyKey), CbReq("cbInsert", EmptyKey),
               CbReq("cbRemove", EmptyKey), BalReq("getBalance", a1),
               BalReq("setBalance", a1), CreateReq(w1), CallReq(a1)}}

\* One goroutine making every kind of call, the empty key and an unreadable
\* contract file included; the callbacks reach the contract's own key.
MCRequestsSeq ==
    NilReqs \union
    {CsReq("csInsert", a1, k1), CsReq("csGet", a1, k1), CsReq("csRemove", a1, k1),
     CsReq("csInsert", a1, EmptyKey), CsReq("csGet", a1, EmptyKey),
     CsReq("csRemove", a1, EmptyKey),
     CbReq("cbInsert", PrefixedKey(a2, k1)), CbReq("cbGet", PrefixedKey(a1, k1)),
     CbReq("cbRemove", PrefixedKey(a1, k1)), CbReq("cbGet", EmptyKey),
     CbReq("cbInsert", EmptyKey), CbReq("cbRemove", EmptyKey),
     BalReq("getBalance", a1), BalReq("setBalance", a1),
     CreateReq(w1), CreateReq(NoFile), CallReq(a1)}

\* Two contracts writing their own keys of one state id.
MCRequestsRace == {CsReq("csInsert", a1, k1), CsReq("csInsert", a2, k1)}

\* A contract writing and a C callback reading the same state id, from
\* two goroutines.
MCRequestsLive == {CsReq("csInsert", a1, k1), CbReq("cbGet", PrefixedKey(a1, k1))}

MCRequestsCall == {CallReq(a1)}
=============================================================================
