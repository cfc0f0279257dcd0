------------------------------ MODULE MCPeers -------------------------------
EXTENDS Peers

(* Some behaviours are mostly the user's, others mostly the peers'.         *)
MCBudgets == {[user |-> 4, peers |-> 0, pings |-> FALSE, session |-> FALSE],
              [user |-> 0, peers |-> 3, pings |-> TRUE, session |-> FALSE],
              [user |-> 0, peers |-> 3, pings |-> FALSE, session |-> TRUE]}
MCArgvs == {<<"compiz", "--replace", "--sm-client-id", "old", "ccp", "move">>}
=============================================================================
