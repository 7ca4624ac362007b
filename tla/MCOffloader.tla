---------------------------- MODULE MCOffloader -----------------------------
(* Small instances of Offloader.                                             *)
EXTENDS Offloader

Sample(check, agent, latency, status) ==
    [check |-> check, agent |-> agent, latency |-> latency, status |-> status,
     valid |-> TRUE]

\* One check answered by two agents, one of them differently the second time and
\* one with a code that has no class; another check; and a sample that cannot be
\* read.  The codes are on both sides of the bounds of their classes.
MCSamples ==
    {Sample("x", "a1", 1, 300), Sample("x", "a1", 2, 599),
     Sample("x", "a2", 3, 600), Sample("y", "a2", 1, 499),
     [Sample("y", "a1", 1, 204) EXCEPT !.valid = FALSE]}

\* One agent, always the same answer: the delivery is what varies.
OneSample == {Sample("x", "a1", 1, 204)}
============================================================================
