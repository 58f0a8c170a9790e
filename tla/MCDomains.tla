----------------------------- MODULE MCDomains ------------------------------
(* A small instance of McdDomains.                                          *)
EXTENDS McdDomains

CONSTANTS d0, d1, d2

MCDoms == {d0, d1, d2}

\* The fields about shares, rates and stock are independent of one another:
\* each behaviour exercises one group, together with creation and destruction.
\* The shares relate all domains; the rates and the stock of one domain do not
\* depend on another's, so one domain is followed until its counters wrap.
MCProfiles ==
    {[ops |-> {"domains", "weight"}, doms |-> MCDoms]}
    \cup [ops : {{"domains", "get", "reset"},
                {"domains", "store", "mode", "reset"}},
          doms : {{d0}, {d1}}]
=============================================================================
