---------------------------- MODULE AnswerStream ----------------------------
(***************************************************************************)
(* What a WebSocket session promises the client about one kind of numbered *)
(* requests (the .ws handlers of src/src/main_uWS.cpp): a sequential       *)
(* server without threads, locks or queues.  It knows the newest request   *)
(* and answers no other one; older requests are dropped.  A message can    *)
(* reset the numbers, so that older requests are not answered any more, or *)
(* start them afresh.  Nothing is taken on or answered once the session    *)
(* has been deleted.                                                       *)
(***************************************************************************)
EXTENDS Integers

CONSTANTS
    MaxSeq,     \* bound on the numbers of the requests
    Restarts    \* a reset starts the numbers afresh, else it only raises them

Seqs == 0 .. MaxSeq
NoSeq == -1

VARIABLES
    live,       \* the session has not been deleted
    newest,     \* number of the newest request or reset, or NoSeq
    floor,      \* number that was reset to or answered last, or NoSeq
    answered    \* number of the request that was answered last, or NoSeq

vars == <<live, newest, floor, answered>>

Init ==
    /\ live = TRUE
    /\ newest = NoSeq
    /\ floor = NoSeq
    /\ answered = NoSeq

\* A request that is not older than the newest one replaces it.
Take ==
    /\ live
    /\ \E s \in Seqs : s >= newest /\ newest' = s
    /\ UNCHANGED <<live, floor, answered>>

Newer(a, b) == IF a > b THEN a ELSE b

\* [kalman_reset] raises the numbers, [init_video] sets them whatever they were.
Reset ==
    /\ live
    /\ \E s \in Seqs :
        /\ newest' = IF Restarts THEN s ELSE Newer(s, newest)
        /\ floor' = IF Restarts THEN s ELSE Newer(s, floor)
    /\ UNCHANGED <<live, answered>>

\* An answer, or a part of one, to the newest request.
Reply ==
    /\ live
    /\ newest # NoSeq
    /\ answered' = newest
    /\ floor' = newest
    /\ UNCHANGED <<live, newest>>

End ==
    /\ live
    /\ live' = FALSE
    /\ UNCHANGED <<newest, floor, answered>>

Next == Take \/ Reset \/ Reply \/ End

Spec == Init /\ [][Next]_vars

=============================================================================
