-------------------------- MODULE MCExecutionState --------------------------
(* A device with one resource, in which lie a group with a block, a composite block *)
(* with a block inside, and a further block. *)
EXTENDS ExecutionState

CONSTANTS dev, res, group, inGroup, composite, inComposite, last

MCNode == {dev, res, group, inGroup, composite, inComposite, last}
MCChildren ==
    [n \in MCNode |->
        CASE n = dev       -> <<res>>
          [] n = res       -> <<group, composite, last>>
          [] n = group     -> <<inGroup>>
          [] n = composite -> <<inComposite>>
          [] OTHER         -> <<>>]
=============================================================================
