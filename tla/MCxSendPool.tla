---------------------------- MODULE MCxSendPool ----------------------------
(***************************************************************************)
(* An account that sends t1 and then t2, in units that commit in order.    *)
(***************************************************************************)
EXTENDS xSendPool

Send(q) == [sends |-> q, confirms |-> {}, full |-> FALSE]
Confirm(T) == [sends |-> <<>>, confirms |-> T, full |-> FALSE]
Full == [sends |-> <<>>, confirms |-> {}, full |-> TRUE]

\* All is confirmed before the account sends again, or before a full unit; a send
\* follows an unconfirmed one; one of two sends in a unit is confirmed.
MCChains ==
    {<<Send(<<"t1">>), Confirm({"t1"}), Send(<<"t2">>)>>,
     <<Send(<<"t1">>), Confirm({"t1"}), Full>>,
     <<Send(<<"t1">>), Send(<<"t2">>)>>,
     <<Send(<<"t1", "t2">>), Confirm({"t1"})>>}

\* t2b takes the nonce of t2 and names a last transaction that was never sent.
MCTx == {"t1", "t2", "t2b"}
MCnonceOf == [t1 |-> 0, t2 |-> 1, t2b |-> 1]
MCprevOf == [t1 |-> "none", t2 |-> "t1", t2b |-> "other"]
MCfireOf == [t1 |-> 1, t2 |-> 1, t2b |-> 2]
MCexpires == [t1 |-> 0, t2 |-> 1, t2b |-> 1]
MCoutdated == [t1 |-> 0, t2 |-> 1, t2b |-> 1]

============================================================================
