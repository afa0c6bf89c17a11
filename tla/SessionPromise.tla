--------------------------- MODULE SessionPromise ---------------------------
(***************************************************************************)
(* What the refresh tokens of one user promise, without requests, versions *)
(* or rows: a token is unknown, then live, then over.  Live tokens end one *)
(* by one, each for its one successor, or all at once.                     *)
(*                                                                         *)
(* Source: the comments of refreshTokens and revokeSession                 *)
(* (src/backend/src/modules/auth/auth.service.ts).                         *)
(***************************************************************************)
CONSTANTS Tokens, None

VARIABLES
    live, over,
    next        \* the successor of each token

vars == <<live, over, next>>

Unknown == Tokens \ (live \cup over)

Init == live = {} /\ over = {} /\ next = [t \in Tokens |-> None]

\* A login; the session is dead at birth if all were ended meanwhile.
Open(new) ==
    /\ \/ live' = live \cup {new} /\ over' = over
       \/ live' = live /\ over' = over \cup {new}
    /\ UNCHANGED next

\* A refresh: a live token is given up for its successor.
Exchange(old, new) ==
    /\ next' = [next EXCEPT ![old] = new]
    /\ live' = (live \ {old}) \cup {new}
    /\ over' = over \cup {old}

\* A refresh during which all sessions were ended: its answer is over too.
ExchangeTooLate(old, new) ==
    /\ next[old] = None
    /\ next' = [next EXCEPT ![old] = new]
    /\ over' = over \cup {new}
    /\ UNCHANGED live

EndAll ==
    /\ live' = {}
    /\ over' = over \cup live
    /\ UNCHANGED next

Next ==
    \/ \E new \in Unknown :
          \/ Open(new)
          \/ \E old \in live : Exchange(old, new)
          \/ \E old \in over : ExchangeTooLate(old, new)
    \/ EndAll

Spec == Init /\ [][Next]_vars
=============================================================================
