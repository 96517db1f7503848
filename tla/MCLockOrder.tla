---------------------------- MODULE MCLockOrder ----------------------------
(* Instances of LockOrder for TLC: two members, two cards, a trade each way. *)
EXTENDS LockOrder, TLC

MCTrades ==
    [t \in 1 .. 2 |-> [initiator |-> t, recipient |-> 3 - t,
                       offered |-> {t}, requested |-> {3 - t}, coins |-> TRUE]]

Suspensions == {Suspend(1), OpenPack(1, {1, 2})}
=============================================================================
