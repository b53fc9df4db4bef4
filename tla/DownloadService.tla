-------------------------- MODULE DownloadService --------------------------
(***************************************************************************)
(* What FITS::from_url (src/src/fits.cpp) promises the HTTP threads that   *)
(* wait for the data of a remote file, and the next run of the server: a   *)
(* service without a stream, a buffer, flags or mutexes.                   *)
(*                                                                         *)
(* A run of the server decides once whether it has the data.  It decides   *)
(* that it has when a complete file is stored, which no later run, crash   *)
(* or failure takes away.  Answers repeat the decision, except that a run  *)
(* may leave its failure behind, for which later runs refuse requests.     *)
(***************************************************************************)

CONSTANTS
    Requests    \* the HTTP threads

VARIABLES
    up,         \* the server runs
    verdict,    \* "none", "data" or "failed"
    stored,     \* a complete .fits file exists
    blamed,     \* a run has left its failure behind
    answer      \* request -> "idle", "waiting", "found" or "missing"

vars == <<up, verdict, stored, blamed, answer>>

Init ==
    /\ up = FALSE
    /\ verdict = "none"
    /\ stored = FALSE
    /\ blamed = FALSE
    /\ answer = [r \in Requests |-> "idle"]

Open ==
    /\ ~ up
    /\ up' = TRUE
    /\ UNCHANGED <<verdict, stored, blamed, answer>>

Decide ==
    /\ up
    /\ verdict = "none"
    /\ \/ verdict' = "data" /\ stored' = TRUE
       \/ verdict' = "failed" /\ UNCHANGED stored
    /\ UNCHANGED <<up, blamed, answer>>

Ask(r) ==
    /\ up
    /\ answer[r] # "waiting"
    /\ answer' = [answer EXCEPT ![r] = "waiting"]
    /\ UNCHANGED <<up, verdict, stored, blamed>>

\* A failure is answered at once, too.
Answer(r) ==
    /\ \/ /\ verdict = "data" /\ answer[r] = "waiting"
          /\ answer' = [answer EXCEPT ![r] = "found"]
       \/ /\ up /\ (verdict = "failed" \/ blamed)
          /\ answer' = [answer EXCEPT ![r] = "missing"]
    /\ UNCHANGED <<up, verdict, stored, blamed>>

\* The end of a run, which may leave a failure of its own behind.
Stop ==
    /\ up
    /\ up' = FALSE
    /\ verdict' = "none"
    /\ answer' = [r \in Requests |-> "idle"]
    /\ \/ verdict = "failed" /\ blamed' = TRUE
       \/ UNCHANGED blamed
    /\ UNCHANGED stored

Next ==
    \/ Open \/ Decide \/ Stop
    \/ \E r \in Requests : Ask(r) \/ Answer(r)

Spec == Init /\ [][Next]_vars

=============================================================================
