-------------------------------- MODULE Bridge --------------------------------
(***************************************************************************)
(* The file bridge: an AI host publishes request-<id>.json files and polls *)
(* for response-<id>.json; launchd starts helper processes (bin/helper.py, *)
(* main) when the requests directory changes; a helper takes the bridge    *)
(* lock, lists the requests once, and for each one acts, writes the        *)
(* response and removes the request.  A send goes through the ledger of    *)
(* nonces (NonceLedger, which SendGate implements), then through the       *)
(* native confirmation dialog, then through osascript.                     *)
(*                                                                         *)
(* Any helper may be killed between two steps, any response write or       *)
(* unlink may fail, the user edits the policy files at any moment, and the *)
(* host stops polling whenever it likes.  Durations are nondeterminism: a  *)
(* lock wait may time out whenever the lock is held, a dialog may be       *)
(* answered at any time.  Only the nonces read a clock.                    *)
(***************************************************************************)
EXTENDS Naturals, FiniteSets

CONSTANTS Workers,     \* launchd jobs that watch the same requests directory
          Ids,         \* request ids; the host uses each one once
          Nonces, Payloads,
          Invalid,     \* payloads that validate_send_* refuse
          Guarded,     \* payloads to the recipient the user may block
          Kinds,       \* the kinds of request the host posts
          Edits,       \* what the user may edit: "block", "disable"
          Absent,      \* no file, no answer, no nonce
          TTL, Res,    \* as in NonceLedger
          MaxNow,      \* bound: the last tick of the clock
          MaxCrashes,  \* bound: helpers killed
          MaxErrors    \* bound: writes and unlinks that fail, starts that abort

ASSUME BridgeConstants ==
    /\ TTL \in Nat /\ Res \in Nat \ {0}
    /\ MaxNow \in Nat /\ MaxCrashes \in Nat /\ MaxErrors \in Nat
    /\ Invalid \subseteq Payloads /\ Guarded \subseteq Payloads
    /\ Kinds \subseteq {"send_preview", "send", "read", "bad"}

VARIABLES now, status, grant, passes,  \* the ledger of nonces
          asked,      \* what was posted under each id, the policy at that time, and
                      \* whether the block had settled: no helper was running
          requests,   \* ids whose request file exists
          responses,  \* the response files
          waiting,    \* ids the host polls for
          answers,    \* responses the host has read
          event,      \* launchd's pending event, per job
          lock,       \* who holds control/lock
          job,        \* what each helper is doing, with its local variables
          blocked,    \* the guarded recipient is on the blocklist
          sending,    \* send_policy allows sends
          crashes, errors,
          approved,   \* per nonce: times the user clicked Send
          delivered,  \* per nonce: messages Messages.app took
          carried,    \* ids whose request put a message out
          served      \* per id: how often the request was processed

gate  == <<now, status, grant, passes>>
host  == <<asked, waiting, answers>>
files == <<requests, responses>>
policy == <<blocked, sending>>
faults == <<crashes, errors>>
ghosts == <<approved, delivered, carried, served>>
vars  == <<gate, host, files, event, lock, job, policy, faults, ghosts>>

Gate == INSTANCE NonceLedger WITH NoGrant <- Absent, Fragile <- {}

Requests  == [kind : {"send_preview", "send", "read", "bad"},
              payload : Payloads, nonce : Nonces \cup {Absent},
              blocked : BOOLEAN, sending : BOOLEAN, settled : BOOLEAN]
Responses == [ok : BOOLEAN, nonce : Nonces \cup {Absent}]

Draining == {"list", "next", "parse", "mint", "issue", "gate", "confirm",
             "osascript", "respond", "unlink"}

Jobs == [pc : Draining \cup {"off", "reap", "lock"},
         todo : SUBSET Ids,                \* rest of the listing
         id : Ids \cup {Absent},           \* the request in hand
         answer : Responses \cup {Absent}, \* the response to write
         tries : 0..3,                     \* attempts left to write one
         blocked : BOOLEAN]                \* privacy_policy, as loaded at start

ASSUME AbsentApart ==
    /\ Absent \notin Workers /\ Absent \notin Ids /\ Absent \notin Nonces
    /\ Absent \notin Requests /\ Absent \notin Responses /\ Absent \notin Gate!Grants

Off == [pc |-> "off", todo |-> {}, id |-> Absent, answer |-> Absent, tries |-> 0,
        blocked |-> FALSE]

Init ==
    /\ Gate!Init
    /\ asked = [i \in Ids |-> Absent]
    /\ requests = {}
    /\ responses = [i \in Ids |-> Absent]
    /\ waiting = {}
    /\ answers = [i \in Ids |-> Absent]
    /\ event = [w \in Workers |-> FALSE]
    /\ lock = Absent
    /\ job = [w \in Workers |-> Off]
    /\ blocked = FALSE
    /\ sending = TRUE
    /\ crashes = 0 /\ errors = 0
    /\ approved = [n \in Nonces |-> 0]
    /\ delivered = [n \in Nonces |-> 0]
    /\ carried = {}
    /\ served = [i \in Ids |-> 0]

--------------------------------------------------------------------------------
(* The host (SKILL.md) and the user *)

\* nonces the host has seen; it cannot guess the others
Known == {answers[i].nonce : i \in {i \in Ids : answers[i] # Absent}} \cup {Absent}

\* a request file is renamed into place: the directory changes
Post(i) ==
    /\ asked[i] = Absent
    /\ \E k \in Kinds, p \in Payloads, n \in Known :
          /\ k \in {"read", "bad", "send_preview"} => n = Absent
          /\ k \in {"read", "bad"} => p = CHOOSE q \in Payloads : TRUE
          /\ asked' = [asked EXCEPT ![i] = [kind |-> k, payload |-> p, nonce |-> n,
                                            blocked |-> blocked, sending |-> sending,
                                            settled |-> blocked /\ job = [w \in Workers |-> Off]]]
    /\ requests' = requests \cup {i}
    /\ waiting' = waiting \cup {i}
    /\ event' = [w \in Workers |-> TRUE]
    /\ UNCHANGED <<gate, responses, answers, lock, job, policy, faults, ghosts>>

\* the response is read, parsed and deleted
Collect(i) ==
    /\ i \in waiting
    /\ responses[i] # Absent
    /\ answers' = [answers EXCEPT ![i] = responses[i]]
    /\ responses' = [responses EXCEPT ![i] = Absent]
    /\ waiting' = waiting \ {i}
    /\ UNCHANGED <<gate, asked, requests, event, lock, job, policy, faults, ghosts>>

\* 30 polls went by
GiveUp(i) ==
    /\ i \in waiting
    /\ waiting' = waiting \ {i}
    /\ UNCHANGED <<gate, asked, answers, files, event, lock, job, policy, faults, ghosts>>

\* the user adds the guarded recipient to the blocklist, or disables sending
Block ==
    /\ "block" \in Edits
    /\ ~blocked
    /\ blocked' = TRUE
    /\ UNCHANGED <<gate, host, files, event, lock, job, sending, faults, ghosts>>

DisableSend ==
    /\ "disable" \in Edits
    /\ sending
    /\ sending' = FALSE
    /\ UNCHANGED <<gate, host, files, event, lock, job, blocked, faults, ghosts>>

Tick ==
    /\ now < MaxNow
    /\ Gate!Tick
    /\ UNCHANGED <<host, files, event, lock, job, policy, faults, ghosts>>

--------------------------------------------------------------------------------
(* A helper process: main *)

At(w, pc) == job[w].pc = pc
Become(w, j) == job' = [job EXCEPT ![w] = j]
Goto(w, pc) == job' = [job EXCEPT ![w].pc = pc]

\* launchd starts the job; the policy is loaded first, before the lock
Start(w) ==
    /\ At(w, "off")
    /\ event[w]
    /\ event' = [event EXCEPT ![w] = FALSE]
    /\ Become(w, [Off EXCEPT !.pc = "reap", !.blocked = blocked])
    /\ UNCHANGED <<gate, host, files, lock, policy, faults, ghosts>>

\* load_privacy_policy or reap_expired_responses raises: main ends, requests stay
StartFails(w) ==
    /\ At(w, "off")
    /\ event[w]
    /\ errors < MaxErrors
    /\ errors' = errors + 1
    /\ event' = [event EXCEPT ![w] = FALSE]
    /\ UNCHANGED <<gate, host, files, lock, job, policy, crashes, ghosts>>

\* Both reapers run outside the lock.  A response an hour old has no poller left,
\* and its writer has long gone on to remove the request.
ReapResponse(w, i) ==
    /\ At(w, "reap")
    /\ responses[i] # Absent
    /\ i \notin waiting
    /\ \A v \in Workers : ~(At(v, "unlink") /\ job[v].id = i)
    /\ responses' = [responses EXCEPT ![i] = Absent]
    /\ UNCHANGED <<gate, host, requests, event, lock, job, policy, faults, ghosts>>

ReapNonce(w, n) ==
    /\ At(w, "reap")
    /\ Gate!Expire(n)
    /\ UNCHANGED <<host, files, event, lock, job, policy, faults, ghosts>>

ReapDone(w) ==
    /\ At(w, "reap")
    /\ Goto(w, "lock")
    /\ UNCHANGED <<gate, host, files, event, lock, policy, faults, ghosts>>

\* _acquire_bridge_lock
Acquire(w) ==
    /\ At(w, "lock")
    /\ lock = Absent
    /\ lock' = w
    /\ Goto(w, "list")
    /\ UNCHANGED <<gate, host, files, event, policy, faults, ghosts>>

\* Mutant of LockTimeout: the drain goes on without the lock.
LockTimeoutDrains(w) ==
    /\ At(w, "lock")
    /\ lock # Absent
    /\ Goto(w, "list")
    /\ UNCHANGED <<gate, host, files, event, lock, policy, faults, ghosts>>

\* somebody else drains for longer than 25 seconds: this run is given up
LockTimeout(w) ==
    /\ At(w, "lock")
    /\ lock # Absent
    /\ Become(w, Off)
    /\ UNCHANGED <<gate, host, files, event, lock, policy, faults, ghosts>>

\* the requests directory is listed once per run
List(w) ==
    /\ At(w, "list")
    /\ Become(w, [job[w] EXCEPT !.pc = "next", !.todo = requests])
    /\ UNCHANGED <<gate, host, files, event, lock, policy, faults, ghosts>>

TakeRequest(w, i) ==
    /\ At(w, "next")
    /\ i \in job[w].todo
    /\ Become(w, [job[w] EXCEPT !.pc = "parse", !.id = i, !.todo = @ \ {i}])
    /\ UNCHANGED <<gate, host, files, event, lock, policy, faults, ghosts>>

\* nothing is left of the listing: the lock is closed and the process exits
Finish(w) ==
    /\ At(w, "next")
    /\ job[w].todo = {}
    /\ lock' = Absent
    /\ Become(w, Off)
    /\ UNCHANGED <<gate, host, files, event, policy, faults, ghosts>>

--------------------------------------------------------------------------------
(* process_request *)

Req(w) == asked[job[w].id]
Success(n) == [ok |-> TRUE, nonce |-> n]
Live(n) == n # Absent /\ status[n] = "live"
Refusal == [ok |-> FALSE, nonce |-> Absent]

\* A failed write of a success is answered with an error by process_request, a
\* failed write of that by main, and then no more.
Respond(w, r) == Become(w, [job[w] EXCEPT !.pc = "respond", !.answer = r,
                                          !.tries = IF r.ok THEN 3 ELSE 2])
Serve(w) == served' = [served EXCEPT ![job[w].id] = @ + 1]

\* unreadable, malformed, unknown, or not permitted to this role; a read action
\* may also fail, and a request file that is gone is a bad request
Refuse(w) ==
    /\ At(w, "parse")
    /\ Req(w).kind \in {"bad", "read"} \/ job[w].id \notin requests
    /\ Serve(w)
    /\ Respond(w, Refusal)
    /\ UNCHANGED <<gate, host, files, event, lock, policy, faults, approved, delivered, carried>>

Read(w) ==
    /\ At(w, "parse")
    /\ job[w].id \in requests
    /\ Req(w).kind = "read"
    /\ Serve(w)
    /\ Respond(w, Success(Absent))
    /\ UNCHANGED <<gate, host, files, event, lock, policy, faults, approved, delivered, carried>>

\* action_send_preview: the send policy is read now, the payload validated
Preview(w) ==
    /\ At(w, "parse")
    /\ job[w].id \in requests
    /\ Req(w).kind = "send_preview"
    /\ Serve(w)
    /\ IF sending /\ Req(w).payload \notin Invalid
       THEN Goto(w, "mint")
       ELSE Respond(w, Refusal)
    /\ UNCHANGED <<gate, host, files, event, lock, policy, faults, approved, delivered, carried>>

\* mint_send_nonce draws a nonce and binds it; bound: once every nonce of the model
\* is drawn, a preview fails as if its record could not be written
Mint(w, n) ==
    /\ At(w, "mint")
    /\ Gate!Draft(n, Req(w).payload)
    /\ Become(w, [job[w] EXCEPT !.pc = "issue", !.answer = Success(n)])
    /\ UNCHANGED <<host, files, event, lock, policy, faults, ghosts>>

MintNoMore(w) ==
    /\ At(w, "mint")
    /\ \A n \in Nonces : status[n] # "unknown"
    /\ Respond(w, Refusal)
    /\ UNCHANGED <<gate, host, files, event, lock, policy, faults, ghosts>>

\* ... and publishes its record, or fails to
Issue(w) ==
    /\ At(w, "issue")
    /\ Gate!Issue(job[w].answer.nonce)
    /\ Respond(w, job[w].answer)
    /\ UNCHANGED <<host, files, event, lock, policy, faults, ghosts>>

MintFails(w) ==
    /\ At(w, "issue")
    /\ errors < MaxErrors
    /\ errors' = errors + 1
    /\ Gate!Abandon(job[w].answer.nonce)
    /\ Respond(w, Refusal)
    /\ UNCHANGED <<host, files, event, lock, policy, crashes, ghosts>>

\* action_send up to the gate: policy, validation, blocklist, and a nonce that is
\* not on disk; none of these touches the nonce
SendRefused(w) ==
    /\ At(w, "parse")
    /\ job[w].id \in requests
    /\ Req(w).kind = "send"
    /\ \/ ~sending
       \/ Req(w).payload \in Invalid
       \/ job[w].blocked /\ Req(w).payload \in Guarded
       \/ ~Live(Req(w).nonce)
    /\ Serve(w)
    /\ Respond(w, Refusal)
    /\ UNCHANGED <<gate, host, files, event, lock, policy, faults, approved, delivered, carried>>

\* For a mutation run: the blocklist is not consulted.
SendClaimBlocked(w) ==
    /\ At(w, "parse")
    /\ job[w].id \in requests
    /\ Req(w).kind = "send"
    /\ sending
    /\ Req(w).payload \notin Invalid
    /\ Live(Req(w).nonce)
    /\ Gate!Claim(Req(w).nonce)
    /\ Serve(w)
    /\ Goto(w, "gate")
    /\ UNCHANGED <<host, files, event, lock, policy, faults, approved, delivered, carried>>

\* consume_send_nonce claims the nonce
SendClaim(w) ==
    /\ At(w, "parse")
    /\ job[w].id \in requests
    /\ Req(w).kind = "send"
    /\ sending
    /\ Req(w).payload \notin Invalid
    /\ ~(job[w].blocked /\ Req(w).payload \in Guarded)
    /\ Live(Req(w).nonce)
    /\ Gate!Claim(Req(w).nonce)
    /\ Serve(w)
    /\ Goto(w, "gate")
    /\ UNCHANGED <<host, files, event, lock, policy, faults, approved, delivered, carried>>

\* Mutants of GatePasses: the nonce stays live until the message is out; the payload
\* is not compared.
GatePassesKeeping(w) ==
    LET n == Req(w).nonce IN
    /\ At(w, "gate")
    /\ Req(w).payload = grant[n].payload /\ ~Gate!Expired(n)
    /\ status' = [status EXCEPT ![n] = "live"]
    /\ passes' = [passes EXCEPT ![n] = @ + 1]
    /\ Goto(w, "confirm")
    /\ UNCHANGED <<now, grant, host, files, event, lock, policy, faults, ghosts>>

GatePassesAnything(w) ==
    /\ At(w, "gate")
    /\ Gate!Pass(Req(w).nonce, grant[Req(w).nonce].payload)
    /\ Goto(w, "confirm")
    /\ UNCHANGED <<host, files, event, lock, policy, faults, ghosts>>

\* ... and judges it
GatePasses(w) ==
    /\ At(w, "gate")
    /\ Gate!Pass(Req(w).nonce, Req(w).payload)
    /\ Goto(w, "confirm")
    /\ UNCHANGED <<host, files, event, lock, policy, faults, ghosts>>

GateRefuses(w) ==
    /\ At(w, "gate")
    /\ Req(w).payload # grant[Req(w).nonce].payload \/ Gate!Expired(Req(w).nonce)
    /\ Gate!Burn(Req(w).nonce)
    /\ Respond(w, Refusal)
    /\ UNCHANGED <<host, files, event, lock, policy, faults, ghosts>>

\* _run_send_confirmation: Send, or Cancel, timeout and every failure
Approve(w) ==
    /\ At(w, "confirm")
    /\ approved' = [approved EXCEPT ![Req(w).nonce] = @ + 1]
    /\ Goto(w, "osascript")
    /\ UNCHANGED <<gate, host, files, event, lock, policy, faults, delivered, carried, served>>

Cancel(w) ==
    /\ At(w, "confirm")
    /\ Respond(w, Refusal)
    /\ UNCHANGED <<gate, host, files, event, lock, policy, faults, ghosts>>

\* Mutant of Osascript: the return code is ignored.
OsascriptAnyRc(w) ==
    /\ At(w, "osascript")
    /\ \/ /\ delivered' = [delivered EXCEPT ![Req(w).nonce] = @ + 1]
          /\ carried' = carried \cup {job[w].id}
       \/ UNCHANGED <<delivered, carried>>
    /\ Respond(w, Success(Absent))
    /\ UNCHANGED <<gate, host, files, event, lock, policy, faults, approved, served>>

\* _run_osascript: the message goes out or not; rc, or a timeout of 15 seconds,
\* may report a failure even when it went out
Osascript(w) ==
    /\ At(w, "osascript")
    /\ \/ /\ delivered' = [delivered EXCEPT ![Req(w).nonce] = @ + 1]
          /\ carried' = carried \cup {job[w].id}
          /\ \/ Respond(w, Success(Absent))
             \/ Respond(w, Refusal)
       \/ /\ UNCHANGED <<delivered, carried>>
          /\ Respond(w, Refusal)
    /\ UNCHANGED <<gate, host, files, event, lock, policy, faults, approved, served>>

\* write_response: os.replace over whatever response is there
WriteResponse(w) ==
    /\ At(w, "respond")
    /\ responses' = [responses EXCEPT ![job[w].id] = job[w].answer]
    /\ Goto(w, "unlink")
    /\ UNCHANGED <<gate, host, requests, event, lock, policy, faults, ghosts>>

\* Mutant of WriteFails: no second attempt.
WriteFailsOnce(w) ==
    /\ At(w, "respond")
    /\ errors < MaxErrors
    /\ errors' = errors + 1
    /\ Goto(w, "unlink")
    /\ UNCHANGED <<gate, host, files, event, lock, policy, crashes, ghosts>>

WriteFails(w) ==
    LET j == job[w] IN
    /\ At(w, "respond")
    /\ errors < MaxErrors
    /\ errors' = errors + 1
    /\ Become(w, IF j.tries = 1 THEN [j EXCEPT !.pc = "unlink"]
                 ELSE [j EXCEPT !.answer = Refusal, !.tries = @ - 1])
    /\ UNCHANGED <<gate, host, files, event, lock, policy, crashes, ghosts>>

\* Mutant of Unlink: a refused request is kept, to be tried again.
UnlinkIfOk(w) ==
    LET j == job[w] IN
    /\ At(w, "unlink")
    /\ requests' = IF j.answer.ok THEN requests \ {j.id} ELSE requests
    /\ event' = IF requests' # requests THEN [v \in Workers |-> TRUE] ELSE event
    /\ Become(w, [Off EXCEPT !.pc = "next", !.todo = j.todo, !.blocked = j.blocked])
    /\ UNCHANGED <<gate, host, responses, lock, policy, faults, ghosts>>

\* main's finally clause: the request file goes, which launchd notices
Unlink(w) ==
    LET j == job[w] IN
    /\ At(w, "unlink")
    /\ requests' = requests \ {j.id}
    /\ event' = IF j.id \in requests THEN [v \in Workers |-> TRUE] ELSE event
    /\ Become(w, [Off EXCEPT !.pc = "next", !.todo = j.todo, !.blocked = j.blocked])
    /\ UNCHANGED <<gate, host, responses, lock, policy, faults, ghosts>>

UnlinkFails(w) ==
    LET j == job[w] IN
    /\ At(w, "unlink")
    /\ errors < MaxErrors
    /\ errors' = errors + 1
    /\ Become(w, [Off EXCEPT !.pc = "next", !.todo = j.todo, !.blocked = j.blocked])
    /\ UNCHANGED <<gate, host, files, event, lock, policy, crashes, ghosts>>

\* SIGKILL: the lock goes with the process, and so does the nonce in hand
Crash(w) ==
    /\ ~At(w, "off")
    /\ crashes < MaxCrashes
    /\ crashes' = crashes + 1
    /\ lock' = IF lock = w THEN Absent ELSE lock
    /\ IF At(w, "gate") THEN Gate!Burn(Req(w).nonce)
       ELSE IF At(w, "issue") THEN Gate!Abandon(job[w].answer.nonce)
       ELSE UNCHANGED gate
    /\ Become(w, Off)
    /\ UNCHANGED <<host, files, event, policy, errors, ghosts>>

--------------------------------------------------------------------------------

RunNext(w) ==
    \/ \E i \in Ids : ReapResponse(w, i)
    \/ \E n \in Nonces : ReapNonce(w, n)
    \/ ReapDone(w) \/ Acquire(w) \/ LockTimeout(w) \/ List(w)
    \/ \E i \in Ids : TakeRequest(w, i)
    \/ Finish(w)

RequestNext(w) ==
    \/ Refuse(w) \/ Read(w)
    \/ Preview(w) \/ (\E n \in Nonces : Mint(w, n)) \/ Issue(w)
    \/ MintNoMore(w) \/ MintFails(w)
    \/ SendRefused(w) \/ SendClaim(w) \/ GatePasses(w) \/ GateRefuses(w)
    \/ Approve(w) \/ Cancel(w) \/ Osascript(w)
    \/ WriteResponse(w) \/ WriteFails(w) \/ Unlink(w) \/ UnlinkFails(w)

HostNext == \E i \in Ids : Post(i) \/ Collect(i) \/ GiveUp(i)
UserNext == Block \/ DisableSend

Next ==
    \/ HostNext \/ UserNext \/ Tick
    \/ \E w \in Workers :
          Start(w) \/ StartFails(w) \/ RunNext(w) \/ RequestNext(w) \/ Crash(w)

Spec == Init /\ [][Next]_vars

(* launchd starts a job whose event is pending, and a helper that runs goes *)
(* on: the lock wait, the dialog, osascript and the snapshot are all        *)
(* bounded by timeouts.                                                     *)
FairSpec == Spec /\ \A w \in Workers : WF_vars(Start(w) \/ RunNext(w) \/ RequestNext(w))

--------------------------------------------------------------------------------
(* What the bridge guarantees *)

(* Type correctness: files, queues, local variables and ghosts.             *)
BridgeTypeOK ==
    /\ Gate!LedgerTypeOK
    /\ asked \in [Ids -> Requests \cup {Absent}]
    /\ requests \subseteq Ids
    /\ responses \in [Ids -> Responses \cup {Absent}]
    /\ waiting \subseteq Ids
    /\ answers \in [Ids -> Responses \cup {Absent}]
    /\ event \in [Workers -> BOOLEAN]
    /\ lock \in Workers \cup {Absent}
    /\ job \in [Workers -> Jobs]
    /\ blocked \in BOOLEAN /\ sending \in BOOLEAN
    /\ crashes \in 0..MaxCrashes /\ errors \in 0..MaxErrors
    /\ approved \in [Nonces -> Nat] /\ delivered \in [Nonces -> Nat]
    /\ carried \subseteq Ids
    /\ served \in [Ids -> Nat]

(* One helper at a time drains the bridge, whoever is killed or times out   *)
(* waiting (_acquire_bridge_lock, main).                                    *)
DrainsSerialized ==
    \A v, w \in Workers :
        job[v].pc \in Draining /\ job[w].pc \in Draining => v = w

(* A request is processed again only after a fault: without a crash or a    *)
(* failed unlink, two helpers on the same bridge process it exactly once.   *)
ServedOncePerFault == \A i \in Ids : served[i] <= 1 + crashes + errors

(* The send chain: per nonce, a message goes out only after a click on      *)
(* Send, a click only after the gate, and the gate opens once.  A request   *)
(* processed again after a crash, or posted again by the host, never sends  *)
(* a second message.                                                        *)
SendChain ==
    \A n \in Nonces :
        delivered[n] <= approved[n] /\ approved[n] <= passes[n] /\ passes[n] <= 1

(* What goes out was previewed: the host had read a preview of this very    *)
(* payload, with this nonce, when the message left.                         *)
MessageWasPreviewed ==
    [][\A n \in Nonces : delivered'[n] # delivered[n] =>
          \E w \in Workers, i \in Ids :
             /\ At(w, "osascript") /\ Req(w).nonce = n
             /\ answers[i] = Success(n)
             /\ asked[i].kind = "send_preview" /\ asked[i].payload = Req(w).payload]_vars

(* An answer that says ok is true: a send put its message out, a preview    *)
(* holds a nonce bound to its payload, a bad request is never ok.  (An      *)
(* answer that says not ok proves nothing: osascript may fail after the     *)
(* message went out, and a request served again is refused.)                *)
TrueWhenOk(i, r) ==
    r # Absent /\ r.ok =>
        CASE asked[i].kind = "send" -> i \in carried
          [] asked[i].kind = "send_preview" ->
                r.nonce # Absent /\ grant[r.nonce] # Absent
                /\ grant[r.nonce].payload = asked[i].payload
          [] OTHER -> asked[i].kind = "read"

OkIsTrue == \A i \in Ids : TrueWhenOk(i, responses[i]) /\ TrueWhenOk(i, answers[i])

(* A request file is removed only when an answer is, or was, there to be    *)
(* read; only a second failed write in a row leaves the host without one.   *)
RemovedOnlyAnswered ==
    [][\A i \in requests \ requests' :
          responses[i] # Absent \/ answers[i] # Absent \/ errors >= 2]_vars

(* A send posted while sending is disabled puts nothing out, even when the  *)
(* helper that serves it started before the user disabled sending.          *)
DisabledMeansUnsent == \A i \in carried : asked[i].sending

(* A send to a blocked recipient puts nothing out, when it was posted after *)
(* the block and while no helper was running: the helper that serves it     *)
(* loads the blocklist after that.                                          *)
BlockedBeforeRunMeansUnsent ==
    \A i \in carried :
        ~(asked[i].settled /\ asked[i].payload \in Guarded)

(* README.md: "The blocklist always takes precedence, including for sends". *)
(* A send posted after the recipient was blocked would put nothing out.     *)
BlockedMeansUnsent == \A i \in carried : ~(asked[i].blocked /\ asked[i].payload \in Guarded)

(* Every request is drained, whenever it was posted: the event it raised    *)
(* starts a run that lists it, even if other helpers time out on the lock.  *)
Drained == \A i \in Ids : i \in requests ~> i \notin requests

(* The implementation of Mailbox: what is served is in the hand of whoever  *)
(* holds the lock.                                                          *)
InHand == Draining \ {"list", "next"}
Posted == {i \in Ids : asked[i] # Absent}

Served  == IF lock # Absent /\ job[lock].pc \in InHand THEN job[lock].id ELSE Absent
Closed  == lock # Absent /\ job[lock].pc = "unlink"
Replies == [i \in Ids |-> IF responses[i] = Absent THEN Absent ELSE i]

Box == INSTANCE Mailbox WITH
           Slots <- Ids, SlotOf <- [i \in Ids |-> i], Nameless <- {},
           posted <- Posted, responses <- Replies,
           serving <- Served, closing <- Closed, faults <- crashes + errors

ImplementsMailbox == Box!Spec

--------------------------------------------------------------------------------
(* Why: the inductive invariant *)

Begun   == InHand \ {"parse"}
Attempt == {"gate", "confirm", "osascript"}

\* who drains holds the lock, so that nobody else removes a request on its list
HandsOK ==
    /\ requests \subseteq Posted
    /\ \A w \in Workers :
          /\ job[w].pc \in Draining => lock = w
          /\ job[w].pc \in InHand \cup {"next"} => job[w].todo \subseteq requests
          /\ job[w].pc \in InHand => job[w].id \in requests \ job[w].todo

\* what every answer is, from the moment it is decided
Truthful(i, r) ==
    /\ i \in Posted
    /\ TrueWhenOk(i, r)
    /\ r.nonce # Absent => r.ok /\ asked[i].kind = "send_preview"

Previewed(n) ==
    \E i \in Ids : answers[i] = Success(n) /\ asked[i].kind = "send_preview"

\* answers are true, and the nonces that the host presents come from them
AnswersOK ==
    /\ \A n \in Nonces : grant[n] # Absent => status[n] # "unknown"
    /\ \A i \in Ids :
          /\ responses[i] # Absent => Truthful(i, responses[i])
          /\ answers[i] # Absent => Truthful(i, answers[i]) /\ i \notin waiting
          /\ i \in waiting => i \in Posted
          /\ i \in Posted /\ asked[i].nonce # Absent => Previewed(asked[i].nonce)
    /\ \A w \in Workers :
          /\ job[w].pc \in {"mint", "issue"} => Req(w).kind = "send_preview"
          /\ At(w, "issue") => job[w].answer # Absent /\ job[w].answer.nonce # Absent
          /\ job[w].pc \in {"issue", "respond"} =>
                job[w].answer # Absent /\ Truthful(job[w].id, job[w].answer)
          /\ job[w].pc \in Attempt => Req(w).kind = "send" /\ Req(w).nonce # Absent
          /\ job[w].pc \in {"confirm", "osascript"} =>
                Req(w).payload = grant[Req(w).nonce].payload

\* the send under way has got further than the message
ChainOK ==
    /\ Gate!AtMostOnePass
    /\ SendChain
    /\ \A w \in Workers : LET n == Req(w).nonce IN
          /\ At(w, "confirm") => approved[n] < passes[n]
          /\ At(w, "osascript") => delivered[n] < approved[n]

\* an edit of the policy is seen by the send under way, or was made after its post
PolicyOK ==
    /\ sending => \A i \in Posted : asked[i].sending
    /\ \A i \in Posted : asked[i].settled =>
          blocked /\ \A w \in Workers : At(w, "off") \/ job[w].blocked
    /\ \A w \in Workers : job[w].pc \in Attempt =>
          Req(w).sending /\ ~(Req(w).settled /\ Req(w).payload \in Guarded)
    /\ carried \subseteq Posted
    /\ DisabledMeansUnsent /\ BlockedBeforeRunMeansUnsent

\* a request that was served and is still there has cost a fault, or is in hand
ServedOK ==
    /\ ServedOncePerFault
    /\ \A i \in Ids :
          /\ i \notin Posted => served[i] = 0
          /\ i \in requests => served[i] <= crashes + errors \/
                \E w \in Workers : job[w].pc \in Begun /\ job[w].id = i

\* a request is unlinked when it is answered, or two writes in a row have failed
UnlinkOK ==
    \A w \in Workers :
       /\ At(w, "respond") => job[w].tries # 0 /\ (job[w].tries = 1 => errors > 0)
       /\ At(w, "unlink") =>
             responses[job[w].id] # Absent \/ answers[job[w].id] # Absent \/ errors >= 2

BridgeInv ==
    /\ BridgeTypeOK
    /\ HandsOK /\ AnswersOK /\ ChainOK /\ PolicyOK /\ ServedOK /\ UnlinkOK
================================================================================
