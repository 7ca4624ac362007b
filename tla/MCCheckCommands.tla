-------------------------- MODULE MCCheckCommands ---------------------------
(* Small instances of CheckCommands.                                         *)
EXTENDS CheckCommands

Call(nr, op, check, owner, interval) ==
    [nr |-> nr, op |-> op, check |-> check, owner |-> owner, interval |-> interval]

\* Two checks; "a" is deleted twice (a retry), once by a stranger, and changed; the
\* interval of "b" is zero.
MCRequests ==
    {Call(1, "create", "a", TRUE, 1), Call(2, "delete", "a", TRUE, 0),
     Call(3, "delete", "a", TRUE, 0), Call(4, "delete", "a", FALSE, 0),
     Call(5, "change", "a", TRUE, 2), Call(6, "create", "b", TRUE, 0)}

\* Two checks, created and deleted.
FewRequests ==
    {Call(1, "create", "a", TRUE, 1), Call(2, "delete", "a", TRUE, 0),
     Call(6, "create", "b", TRUE, 1), Call(7, "delete", "b", TRUE, 0)}
============================================================================
