---------------------------- MODULE JobContract ----------------------------
(***************************************************************************)
(* What the broker promises the submitter of a job, seen through Submit's  *)
(* return and job.ResultCh: a job is rejected or accepted, once; Results   *)
(* arrive only on an accepted job; ResultCh is closed once, and after that *)
(* nothing is sent on it. An accepted job may stay open for ever: that it  *)
(* does not is a liveness property, stated where it holds.                 *)
(***************************************************************************)
CONSTANTS Jobs, Kinds

VARIABLES status,  \* "submitting", "rejected", "accepted" or "closed"
          results  \* the kinds of Result sent on the job's ResultCh

contractVars == <<status, results>>

ContractInit ==
    /\ status = [j \in Jobs |-> "submitting"]
    /\ results = [j \in Jobs |-> {}]

Reject(j) ==
    /\ status[j] = "submitting"
    /\ status' = [status EXCEPT ![j] = "rejected"]
    /\ UNCHANGED results

Accept(j) ==
    /\ status[j] = "submitting"
    /\ status' = [status EXCEPT ![j] = "accepted"]
    /\ UNCHANGED results

Deliver(j, k) ==
    /\ status[j] = "accepted"
    /\ results' = [results EXCEPT ![j] = @ \cup {k}]
    /\ UNCHANGED status

(* The last Results and the close. *)
CloseResults(j) ==
    /\ status[j] = "accepted"
    /\ status' = [status EXCEPT ![j] = "closed"]
    /\ \E more \in SUBSET Kinds : results' = [results EXCEPT ![j] = @ \cup more]

ContractNext ==
    \E j \in Jobs :
        \/ Reject(j) \/ Accept(j) \/ CloseResults(j)
        \/ \E k \in Kinds : Deliver(j, k)

ContractSpec == ContractInit /\ [][ContractNext]_contractVars
=============================================================================
