----------------------------- MODULE MCPeerSync -----------------------------
(***************************************************************************)
(* Two nodes that mine two branches of valid blocks of one unit of work    *)
(* each, from before they connect; three nodes all connected to each other *)
(* that are sent a transaction; and three in a line that are sent one and  *)
(* its child.                                                              *)
(***************************************************************************)
EXTENDS PeerSync

MCAsert(height, time) == 3

Hdr(prev, height) ==
    [prev |-> prev, height |-> height, bits |-> 3, time |-> height,
     digest |-> 1, root |-> prev]

MCHeader == [g  |-> Hdr("none", 0), a1 |-> Hdr("g", 1),
             b1 |-> Hdr("g", 1), b2 |-> Hdr("b1", 2), b3 |-> Hdr("b2", 3)]
MCBlock == DOMAIN MCHeader

MCAncestors == [p |-> {}, c |-> {"p"}]

MCDials == {<<"x", "y">>, <<"y", "z">>, <<"x", "z">>}
MCScenes == {[dials |-> {<<"x", "y">>}, linked |-> FALSE, blocks |-> MCBlock, txs |-> {}],
             [dials |-> MCDials, linked |-> TRUE, blocks |-> {}, txs |-> {"p"}],
             [dials |-> {<<"x", "y">>, <<"y", "z">>}, linked |-> TRUE, blocks |-> {},
              txs |-> {"p", "c"}]}
=============================================================================
