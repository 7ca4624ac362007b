--------------------------- MODULE MCAgentRuntime ---------------------------
(* Small instances of AgentRuntime.                                          *)
EXTENDS AgentRuntime

Add(interval, valid) == [interval |-> interval, valid |-> valid]

\* Two checks of interval 1 with one of interval 2 between them; or one of interval
\* 1 and, the first of its interval, a check whose URL cannot be parsed.
MCTopics ==
    {<<Add(1, TRUE), Add(2, TRUE), Add(1, TRUE)>>,
     <<Add(1, TRUE), Add(2, FALSE)>>}

\* JOBS below, at and above the number of intervals.
MCWorkerCounts == 1 .. 3
============================================================================
