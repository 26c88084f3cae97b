------------------------------ MODULE BlockGraph ------------------------------
(***************************************************************************)
(* What a resource promises about its function blocks: they form a graph   *)
(* whose edges are the pointers of one block to another, and a block leaves *)
(* the graph only when no edge ends at it, taking its own edges along.     *)
(* There are no counts here.  Connections.tla, where a count decides about *)
(* the deletion, is shown to implement this specification.                 *)
(***************************************************************************)

CONSTANT Block

VARIABLES
    blocks,     \* the blocks there are
    edges       \* triples: kind, block with the pointer, block it points to

Init == blocks = {} /\ edges = {}

\* The pointers that make up a connection from s to d.  Adapter and in-out connections
\* point both ways.
Connection(s, d) ==
    {{<<"event", s, d>>}, {<<"data", d, s>>},
     {<<"socket", d, s>>, <<"plug", s, d>>}, {<<"in", d, s>>, <<"out", s, d>>}}

Create(b) ==
    /\ b \notin blocks
    /\ blocks' = blocks \cup {b}
    /\ edges' = edges

Delete(b) ==
    /\ b \in blocks
    /\ \A e \in edges : e[3] # b
    /\ blocks' = blocks \ {b}
    /\ edges' = {e \in edges : e[2] # b}

\* What is new are the pointers of one connection between blocks there are.
Connect ==
    LET new == edges' \ edges
    IN  /\ blocks' = blocks
        /\ edges \subseteq edges'
        /\ \E s, d \in blocks : new \in Connection(s, d)

\* What is gone are the pointers of one connection.
Disconnect ==
    LET gone == edges \ edges'
    IN  /\ blocks' = blocks
        /\ edges' \subseteq edges
        /\ \E s, d \in blocks : gone \in Connection(s, d)

Next == Connect \/ Disconnect \/ \E b \in Block : Create(b) \/ Delete(b)

Spec == Init /\ [][Next]_<<blocks, edges>>
===============================================================================
