---------------------------- MODULE RequestReply ----------------------------
(***************************************************************************)
(* What the functions of a UDP socket promise their callers: one after the *)
(* other, each settles its requests in order, every one with an answer of  *)
(* the kind that was asked for or with none, and comes to an end.  Nothing *)
(* is said of datagrams, handshakes and timeouts.                          *)
(***************************************************************************)
EXTENDS Naturals, Sequences

CONSTANTS
    Functions,      \* the functions, as sequences of requests
    Promised(_, _), \* the answers to a request, on a private socket or not
    None

VARIABLES
    private,    \* the socket is one function's own
    open,       \* it is there
    busy,       \* a function is under way
    asks,       \* its requests
    results     \* what its requests have been settled with

vars == <<private, open, busy, asks, results>>

Init ==
    /\ private \in BOOLEAN /\ open = TRUE
    /\ busy = FALSE /\ asks = <<>> /\ results = <<>>

Begin ==
    /\ ~busy /\ open
    /\ asks' \in Functions
    /\ busy' = TRUE /\ results' = <<>>
    /\ UNCHANGED <<private, open>>

\* The next request is answered, or not; without an answer the socket may be lost.
Settle ==
    /\ busy /\ Len(results) < Len(asks)
    /\ \E r \in Promised(private, asks[Len(results) + 1]) \cup {None} :
        /\ results' = Append(results, r)
        /\ r # None => open' = open
        /\ open' \in {open, FALSE}
    /\ busy' = (Len(results') < Len(asks))
    /\ UNCHANGED <<private, asks>>

\* A function without requests, or one whose handshake finds no relay.
End ==
    /\ busy /\ results = <<>>
    /\ busy' = FALSE
    /\ UNCHANGED <<private, open, asks, results>>

Next == Begin \/ Settle \/ End

Spec == Init /\ [][Next]_vars /\ WF_vars(Settle \/ End)

=============================================================================
