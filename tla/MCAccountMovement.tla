-------------------------- MODULE MCAccountMovement --------------------------
(* Small instances of AccountMovement: two cells and one Account.            *)
EXTENDS AccountMovement

CONSTANTS w1, w2

MCSoftLimit == [c \in Cells |-> 2]
MCOthers == [c \in Cells |-> 0]
===============================================================================
