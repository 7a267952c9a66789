---------------------------- MODULE StateStore ----------------------------
(***************************************************************************)
(* What the simulator's state handles promise their users: for every state *)
(* id a key/value map whose entries change only by an insert of one key or *)
(* a remove of one key.  A state registered under an id keeps everything   *)
(* written through that id.                                                *)
(***************************************************************************)
CONSTANTS Ids, Keys, Values, Missing

VARIABLE store

EmptyMap == [k \in Keys |-> Missing]

TypeOK == store \in [Ids -> [Keys -> Values \union {Missing}]]

Init == store = [i \in Ids |-> EmptyMap]

Put(i, k, v) == store' = [store EXCEPT ![i][k] = v]

Delete(i, k) == store' = [store EXCEPT ![i][k] = Missing]

Next ==
    \E i \in Ids, k \in Keys :
        \/ \E v \in Values : Put(i, k, v)
        \/ Delete(i, k)

Spec == Init /\ [][Next]_store
=============================================================================
