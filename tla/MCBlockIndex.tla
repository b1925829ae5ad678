---------------------------- MODULE MCBlockIndex ----------------------------
(***************************************************************************)
(* A universe of headers for BlockIndex: a main branch whose second block  *)
(* is a testnet minimum-difficulty block after a long gap, too far in the  *)
(* future for the earlier clock reading, and whose third is stamped        *)
(* earlier than its parent; a rival of equal work; and headers that break  *)
(* one rule each.                                                          *)
(***************************************************************************)
EXTENDS BlockIndex

MCHashSpace == 16
MCPowLimit == 7

\* A stand-in for ASERT: ahead of schedule is harder, behind is easier.
MCAsert(height, time) == IF time < 2 * height + 1 THEN 3 ELSE 5

Hdr(prev, height, bits, time) ==
    [prev |-> prev, height |-> height, bits |-> bits, time |-> time,
     digest |-> 1, root |-> prev]

MCHeader ==
    [g  |-> Hdr("none", 0, 3, 0),
     a1 |-> Hdr("g", 1, 3, 1),
     a2 |-> Hdr("a1", 2, 7, 6),
     a3 |-> Hdr("a2", 3, 5, 2),
     b1 |-> Hdr("g", 1, 3, 2),
     b2 |-> Hdr("b1", 2, 3, 4),
     badHeight   |-> Hdr("a1", 3, 7, 6),
     badBits     |-> Hdr("a1", 2, 3, 6),
     tooOld      |-> Hdr("a1", 2, 3, 0),
     orphan      |-> Hdr("none", 1, 3, 1),
     unworked    |-> [Hdr("g", 1, 3, 1) EXCEPT !.digest = 4]]

MCBlock == DOMAIN MCHeader
=============================================================================
