-------------------------------- MODULE Mailbox --------------------------------
(***************************************************************************)
(* What a host may rely on of control/requests and control/responses,      *)
(* whoever serves them and however: the contract that Answers, which takes *)
(* the files system call by system call, and Bridge, which takes what is   *)
(* done for a request, both implement.                                     *)
(*                                                                         *)
(* One request at a time is served.  While it is, its file is there; it is *)
(* answered once or, after a fault, not at all; and only then its file is  *)
(* removed.  So no answer appears for a request that is gone, and none is  *)
(* repeated, unless a helper was killed or could not remove the file.      *)
(***************************************************************************)
EXTENDS Naturals

CONSTANTS Ids,       \* ids of requests
          Slots,     \* names of responses
          SlotOf,    \* [Ids -> Slots]: the name of the response to a request
          Nameless,  \* ids that leave no name for a response
          Absent

VARIABLES posted,    \* ids used so far
          requests,  \* ids whose request file is there
          responses, \* per name: the id that the response there is for, or Absent
          serving,   \* the id that is served, or Absent
          closing,   \* it has been answered, or will not be
          faults     \* kills and failures so far

box == <<posted, requests, responses, serving, closing, faults>>

Init ==
    /\ posted = {} /\ requests = {}
    /\ responses = [s \in Slots |-> Absent]
    /\ serving = Absent /\ closing = FALSE
    /\ faults = 0

Post(i) ==
    /\ i \notin posted
    /\ posted' = posted \cup {i}
    /\ requests' = requests \cup {i}
    /\ UNCHANGED <<responses, serving, closing, faults>>

\* process_request is entered; a request without a name is passed over
Take(i) ==
    /\ serving = Absent
    /\ i \in requests
    /\ serving' = i
    /\ closing' = (i \in Nameless)
    /\ UNCHANGED <<posted, requests, responses, faults>>

\* write_response succeeds
Answer(i) ==
    /\ serving = i
    /\ ~closing
    /\ closing' = TRUE
    /\ responses' = [responses EXCEPT ![SlotOf[i]] = i]
    /\ UNCHANGED <<posted, requests, serving, faults>>

\* the last attempt to write a response fails
GiveUp(i) ==
    /\ serving = i
    /\ ~closing
    /\ closing' = TRUE
    /\ faults' \in {faults, faults + 1}
    /\ faults' > 0
    /\ UNCHANGED <<posted, requests, responses, serving>>

\* the finally clause of main
Remove(i) ==
    /\ serving = i
    /\ closing
    /\ requests' = requests \ {i}
    /\ serving' = Absent
    /\ closing' = FALSE
    /\ UNCHANGED <<posted, responses, faults>>

\* a kill, or an unlink that fails: the request is there to be served again
Lapse(i) ==
    /\ serving = i
    /\ serving' = Absent
    /\ closing' = FALSE
    /\ faults' = faults + 1
    /\ UNCHANGED <<posted, requests, responses>>

\* a response is read and deleted, or reaped
Clear(s) ==
    /\ responses[s] # Absent
    /\ responses' = [responses EXCEPT ![s] = Absent]
    /\ UNCHANGED <<posted, requests, serving, closing, faults>>

\* one that is dealt with on the spot
Fault ==
    /\ faults' = faults + 1
    /\ UNCHANGED <<posted, requests, responses, serving, closing>>

Next ==
    \/ \E i \in Ids : \/ Post(i) \/ Take(i) \/ Answer(i) \/ GiveUp(i)
                      \/ Remove(i) \/ Lapse(i)
    \/ \E s \in Slots : Clear(s)
    \/ Fault

Spec == Init /\ [][Next]_box
================================================================================
