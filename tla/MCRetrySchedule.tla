-------------------------- MODULE MCRetrySchedule --------------------------
(* RetrySchedule with 8-bit integers, half-seconds as the unit of time and  *)
(* the default, small, negative, large and extreme settings.                *)
EXTENDS RetrySchedule

MCRetries == {None, -1, 0, 1, 2, 5, 126}
MCDelays  == {None, -128, -1, 0, 1, 2, 5, 29, 30, 40, 63, 64, 127}

Err(network, text, status) ==
    [canceled |-> FALSE, network |-> network, text |-> text, status |-> status]

MCFailure ==
    {Err(TRUE, FALSE, 0), Err(FALSE, TRUE, 0), Err(FALSE, FALSE, 0),
     Err(TRUE, TRUE, 404), [Err(TRUE, TRUE, 0) EXCEPT !.canceled = TRUE]}
    \cup {Err(FALSE, FALSE, s) : s \in {400, 401, 403, 404, 408, 425, 429, 500, 502, 599}}

=============================================================================
