------------------------------ MODULE DdlList -------------------------------
(***************************************************************************)
(* The doubly linked list of the kernel (Kernel/c/lib/ddlADT.c), pointer   *)
(* by pointer: the block lists, the death list, the lists of pipes, of     *)
(* semaphores and of replaced descriptors are made of it.  Elements are    *)
(* pointers and may occur more than once.                                  *)
(*                                                                         *)
(* The kernel uses it in one way, which `walking' keeps: it adds outside a *)
(* traversal, and removes only what this traversal has just returned.      *)
(***************************************************************************)
EXTENDS Integers, Sequences, FiniteSets

CONSTANTS
    MaxNode, \* bound: memory for nodes, 1 .. MaxNode
    Elem

ASSUME NodesAssumption == MaxNode \in Nat

VARIABLES
    node,     \* the nodes that are allocated: [elem, next, prev]
    first, current, toRemove, \* the pointers of the list; 0 is NULL
    found,    \* what next returned last; 0 is NULL
    walking   \* the caller's loop: outside, begun, or just after a next that returned

ddlVars == <<node, first, current, toRemove, found, walking>>

Node == 1 .. MaxNode
FreeNode == [elem |-> 0, next |-> 0, prev |-> -1]
Allocated == {n \in Node : node[n] # FreeNode}

newList == /\ node = [n \in Node |-> FreeNode]
           /\ first = 0 /\ current = 0 /\ toRemove = 0
           /\ found = 0 /\ walking = "outside"

\* What a pointer write does through NULL is not written.
Put(n, field, value, nodes) ==
    [m \in Node |-> IF m = n THEN [nodes[m] EXCEPT ![field] = value] ELSE nodes[m]]

\* Mutant of Added: the old head does not learn of the new one.
AddedUnlinked(n, e) == [node EXCEPT ![n] = [elem |-> e, next |-> first, prev |-> 0]]

Added(n, e) ==
    [Put(first, "prev", n, node) EXCEPT ![n] = [elem |-> e, next |-> first, prev |-> 0]]

add(e) ==
    /\ walking = "outside"
    /\ \E n \in Node \ Allocated :
        /\ node' = Added(n, e)
        /\ first' = n
    /\ UNCHANGED <<current, toRemove, found, walking>>

\* memalloc's NULL has been stored in first before it is looked at.
addFails ==
    /\ walking = "outside"
    /\ first' = 0
    /\ UNCHANGED <<node, current, toRemove, found, walking>>

toBegin ==
    /\ current' = first
    /\ walking' = "begun"
    /\ UNCHANGED <<node, first, toRemove, found>>

next ==
    /\ walking # "outside"
    /\ IF current = 0
       THEN found' = 0 /\ walking' = "outside" /\ UNCHANGED <<toRemove, current>>
       ELSE /\ found' = node[current].elem
            /\ toRemove' = current
            /\ current' = node[current].next
            /\ walking' = "visited"
    /\ UNCHANGED <<node, first>>

\* A caller that found what it looked for leaves its loop.
leaves ==
    /\ walking # "outside"
    /\ walking' = "outside"
    /\ UNCHANGED <<node, first, current, toRemove, found>>

Unlinked(n) ==
    LET behind == Put(node[n].prev, "next", node[n].next, node)
    IN  [Put(node[n].next, "prev", node[n].prev, behind) EXCEPT ![n] = FreeNode]

remove ==
    /\ walking = "visited"
    /\ walking' = "begun"
    /\ node' = Unlinked(toRemove)
    /\ first' = IF node[toRemove].prev = 0 THEN node[toRemove].next ELSE first
    /\ toRemove' = 0
    /\ UNCHANGED <<current, found>>

\* What is linked from n on, as a sequence of nodes.
From(n) ==
    LET nth[i \in 0 .. MaxNode] ==
            IF i = 0 THEN n
            ELSE IF nth[i - 1] = 0 THEN 0 ELSE node[nth[i - 1]].next
        length == CHOOSE l \in 0 .. MaxNode : nth[l] = 0 /\ \A k \in 0 .. l - 1 : nth[k] # 0
    IN  [i \in 1 .. length |-> nth[i - 1]]

Elems(nodes) == [i \in DOMAIN nodes |-> node[nodes[i]].elem]

\* freeList walks from first on and frees what it passes.
freeList ==
    /\ walking = "outside" /\ first # 0
    /\ node' = [n \in Node |->
            IF \E i \in DOMAIN From(first) : From(first)[i] = n THEN FreeNode ELSE node[n]]
    /\ first' = 0 /\ current' = 0 /\ toRemove' = 0
    /\ UNCHANGED <<found, walking>>

ddlNext == \/ \E e \in Elem : add(e)
           \/ addFails \/ toBegin \/ next \/ leaves \/ remove \/ freeList
=============================================================================
