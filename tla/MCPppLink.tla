----------------------------- MODULE MCPppLink -----------------------------
\* PppLink with a guest that first asks for an option and for an address it is
\* refused, and a host one of whose LCP options pppd rejects.
EXTENDS PppLink

MCFirst ==
    [host  |-> [lcp  |-> [extra |-> TRUE, value |-> "good"],
                ipcp |-> [extra |-> FALSE, value |-> "good"]],
     guest |-> [lcp  |-> [extra |-> FALSE, value |-> "good"],
                ipcp |-> [extra |-> TRUE, value |-> "bad"]]]

Budget(l, h, d, s, c) == [loss |-> l, haste |-> h, death |-> d, stray |-> s, close |-> c]

MCBudgets == {Budget(1, 1, 0, 0, 0), Budget(1, 0, 1, 0, 0), Budget(0, 1, 1, 0, 0),
              Budget(1, 0, 0, 0, 1), Budget(0, 2, 0, 0, 0), Budget(0, 0, 2, 0, 0),
              Budget(0, 1, 0, 1, 0), Budget(0, 0, 0, 1, 1), Budget(0, 0, 0, 2, 0)}
=============================================================================
