---------------------------- MODULE TraceContract ----------------------------
(***************************************************************************)
(* What a trace owes its reader, whatever happens to the tasks: a call     *)
(* ends at most once, it is reported at most once, only after it has ended,*)
(* with the result its caller saw, and a report is never taken back.       *)
(***************************************************************************)
CONSTANTS Ids        \* system calls, in the order they are made

VARIABLES result,    \* how each call ended for the program
          report     \* how the trace says it ended

contract == <<result, report>>

ContractInit == /\ result = [i \in Ids |-> "none"]
                /\ report = [i \in Ids |-> "none"]

CallEnds == /\ \E i \in Ids, v \in {"ok", "err", "eintr"} :
                 result[i] = "none" /\ result' = [result EXCEPT ![i] = v]
            /\ UNCHANGED report

CallsReported == /\ \A i \in Ids : report'[i] = report[i]
                                   \/ (report[i] = "none" /\ report'[i] = result[i])
                 /\ DOMAIN report' = Ids
                 /\ UNCHANGED result

ContractSpec == ContractInit /\ [][CallEnds \/ CallsReported]_contract
=============================================================================
