-------------------------------- MODULE Answers --------------------------------
(***************************************************************************)
(* The files under control/requests and control/responses, one action per  *)
(* system call that another process can observe: bin/helper.py,            *)
(* write_response, reap_expired_responses, _read_request_text,             *)
(* process_request up to the action, and the loop of main around them.     *)
(*                                                                         *)
(* Bridge has a request answered in one step and an old response removed   *)
(* in one step.  Here a response is written to a hidden temporary file and *)
(* renamed into place, and a reaper, which runs outside the lock, reads    *)
(* the age of a response before it removes whatever has that name by then. *)
(* Requests may be written in place by a careless client, their names may  *)
(* collide once "request-" is taken out of them, the responses directory   *)
(* may turn unsafe, writes may fail and helpers may be killed.             *)
(***************************************************************************)
EXTENDS Naturals, Sequences, FiniteSets

CONSTANTS Workers,     \* helper processes
          Ids,         \* ids of requests, as sequences of tokens, each used once
          Absent,      \* no file
          TTL,         \* RESPONSE_TTL_S, in ticks
          MaxNow,      \* bound: the last tick of the clock
          MaxCrashes,  \* bound: helpers killed
          MaxErrors,   \* bound: writes and unlinks that fail
          MaxBreaks    \* bound: times the responses directory turns unsafe

ASSUME AnswersConstants ==
    /\ TTL \in Nat /\ MaxNow \in Nat /\ MaxCrashes \in Nat
    /\ MaxErrors \in Nat /\ MaxBreaks \in Nat

VARIABLES now,        \* time.time()
          asked,      \* ids posted so far
          request,    \* per id: what its request file holds
          response,   \* the response files, by the id in their name
          litter,     \* temporary files of killed helpers: when each was written
          safe,       \* the responses directory passes _validate_private_directory
          lock,       \* who holds control/lock
          job,        \* what each helper is doing, with its local variables
          crashes, errors, breaks,
          answered,   \* ids for which a response was once in place
          published   \* per response name: how often one was put there

files  == <<request, response, litter>>
faults == <<crashes, errors, breaks>>
ghosts == <<answered, published>>
vars   == <<now, asked, files, safe, lock, job, faults, ghosts>>

Prefix == "request-"

\* req_path.stem.replace("request-", ""): every occurrence goes
Stem(id) == SelectSeq(<<Prefix>> \o id, LAMBDA token : token # Prefix)

\* an id that the conversion leaves alone
Plain(id) == Stem(id) = id /\ id # <<>>

Slots == Ids \cup {Stem(i) : i \in Ids}

\* "garbled": not JSON, or not yet, when its client writes in place
Contents == {"valid", "garbled"}

Responses == [to : Ids, ok : BOOLEAN, born : 0..MaxNow]
Pending   == [to : Ids, ok : BOOLEAN]

Jobs == [pc : {"off", "reap", "reaping", "lock", "next", "read", "reread",
               "write", "publish", "unlink"},
         clock : 0..MaxNow,                \* now, of reap_expired_responses
         rest : SUBSET Slots,              \* rest of the reaper's listing
         slot : Slots \cup {Absent},       \* the name it is about to unlink
         todo : SUBSET Ids,                \* rest of the listing of requests
         answer : Pending \cup {Absent},   \* the response to write
         tries : 0..3]                     \* attempts left to write one

ASSUME AbsentApart ==
    /\ Absent \notin Workers /\ Absent \notin Slots /\ Absent \notin Contents
    /\ Absent \notin Responses /\ Absent \notin Pending

Off == [pc |-> "off", clock |-> 0, rest |-> {}, slot |-> Absent, todo |-> {},
        answer |-> Absent, tries |-> 0]

Init ==
    /\ now = 0
    /\ asked = {}
    /\ request = [i \in Ids |-> Absent]
    /\ response = [s \in Slots |-> Absent]
    /\ litter = <<>>
    /\ safe = TRUE
    /\ lock = Absent
    /\ job = [w \in Workers |-> Off]
    /\ crashes = 0 /\ errors = 0 /\ breaks = 0
    /\ answered = {}
    /\ published = [s \in Slots |-> 0]

At(w, pc) == job[w].pc = pc
Become(w, j) == job' = [job EXCEPT ![w] = j]

Fault == errors < MaxErrors /\ errors' = errors + 1

--------------------------------------------------------------------------------
(* The client, the disk and the clock *)

\* renamed into place, or begun in place
Post(i) ==
    /\ i \notin asked
    /\ asked' = asked \cup {i}
    /\ \E c \in Contents : request' = [request EXCEPT ![i] = c]
    /\ UNCHANGED <<now, response, litter, safe, lock, job, faults, ghosts>>

\* the rest of the bytes; once the file is unlinked, nobody sees them
Complete(i) ==
    /\ request[i] = "garbled"
    /\ request' = [request EXCEPT ![i] = "valid"]
    /\ UNCHANGED <<now, asked, response, litter, safe, lock, job, faults, ghosts>>

\* the response that has the id in its name is read and deleted
Collect(i) ==
    /\ i \in asked
    /\ response[i] # Absent
    /\ response' = [response EXCEPT ![i] = Absent]
    /\ UNCHANGED <<now, asked, request, litter, safe, lock, job, faults, ghosts>>

\* a file is renamed within a moment of being written: the hour does not end between
Tick ==
    /\ now < MaxNow
    /\ \A w \in Workers : ~At(w, "publish")
    /\ now' = now + 1
    /\ UNCHANGED <<asked, files, safe, lock, job, faults, ghosts>>

\* the mode of the responses directory is changed, and set right again
Break ==
    /\ safe
    /\ breaks < MaxBreaks
    /\ breaks' = breaks + 1
    /\ safe' = FALSE
    /\ UNCHANGED <<now, asked, files, lock, job, crashes, errors, ghosts>>

Repair ==
    /\ ~safe
    /\ safe' = TRUE
    /\ UNCHANGED <<now, asked, files, lock, job, faults, ghosts>>

--------------------------------------------------------------------------------
(* reap_expired_responses, before the lock *)

\* main opens each directory first, and ends there when one is unsafe; hidden
\* files are not on the reaper's list
Start(w) ==
    /\ At(w, "off")
    /\ safe
    /\ Become(w, [Off EXCEPT !.pc = "reap", !.clock = now,
                             !.rest = {s \in Slots : response[s] # Absent}])
    /\ UNCHANGED <<now, asked, files, safe, lock, faults, ghosts>>

\* Mutant of Judge: the age is not compared.
JudgeAny(w, s) ==
    /\ At(w, "reap")
    /\ s \in job[w].rest
    /\ Become(w, [job[w] EXCEPT !.pc = "reaping", !.slot = s, !.rest = @ \ {s}])
    /\ UNCHANGED <<now, asked, files, safe, lock, faults, ghosts>>

\* Mutant of Judge: off by one tick.
JudgeLate(w, s) ==
    /\ At(w, "reap")
    /\ s \in job[w].rest
    /\ Become(w, IF response[s] # Absent /\ job[w].clock > response[s].born + TTL + 1
                 THEN [job[w] EXCEPT !.pc = "reaping", !.slot = s, !.rest = @ \ {s}]
                 ELSE [job[w] EXCEPT !.rest = @ \ {s}])
    /\ UNCHANGED <<now, asked, files, safe, lock, faults, ghosts>>

\* the age of the file that has the name now
Judge(w, s) ==
    /\ At(w, "reap")
    /\ s \in job[w].rest
    /\ Become(w, IF response[s] # Absent /\ job[w].clock > response[s].born + TTL
                 THEN [job[w] EXCEPT !.pc = "reaping", !.slot = s, !.rest = @ \ {s}]
                 ELSE [job[w] EXCEPT !.rest = @ \ {s}])
    /\ UNCHANGED <<now, asked, files, safe, lock, faults, ghosts>>

\* os.unlink removes the file that has the name by then, if there is one
Reap(w) ==
    /\ At(w, "reaping")
    /\ response' = [response EXCEPT ![job[w].slot] = Absent]
    /\ Become(w, [job[w] EXCEPT !.pc = "reap", !.slot = Absent])
    /\ UNCHANGED <<now, asked, request, litter, safe, lock, faults, ghosts>>

ReapFails(w) ==
    /\ At(w, "reaping")
    /\ Fault
    /\ Become(w, [job[w] EXCEPT !.pc = "reap", !.slot = Absent])
    /\ UNCHANGED <<now, asked, files, safe, lock, crashes, breaks, ghosts>>

ReapDone(w) ==
    /\ At(w, "reap")
    /\ job[w].rest = {}
    /\ Become(w, [job[w] EXCEPT !.pc = "lock"])
    /\ UNCHANGED <<now, asked, files, safe, lock, faults, ghosts>>

--------------------------------------------------------------------------------
(* main, under the lock *)

\* _acquire_bridge_lock, and the listing
Acquire(w) ==
    /\ At(w, "lock")
    /\ lock = Absent
    /\ lock' = w
    /\ Become(w, [Off EXCEPT !.pc = "next", !.todo = {i \in Ids : request[i] # Absent}])
    /\ UNCHANGED <<now, asked, files, safe, faults, ghosts>>

LockTimeout(w) ==
    /\ At(w, "lock")
    /\ lock # Absent
    /\ Become(w, Off)
    /\ UNCHANGED <<now, asked, files, safe, lock, faults, ghosts>>

\* nothing is left of a name but "request-": it is logged, and not answered
Take(w, i) ==
    /\ At(w, "next")
    /\ i \in job[w].todo
    /\ Become(w, [job[w] EXCEPT !.pc = IF Stem(i) = <<>> THEN "unlink" ELSE "read",
                                !.todo = @ \ {i},
                                !.answer = [to |-> i, ok |-> FALSE]])
    /\ UNCHANGED <<now, asked, files, safe, lock, faults, ghosts>>

Finish(w) ==
    /\ At(w, "next")
    /\ job[w].todo = {}
    /\ lock' = Absent
    /\ Become(w, Off)
    /\ UNCHANGED <<now, asked, files, safe, faults, ghosts>>

\* A success whose response cannot be written is answered with an error by
\* process_request, any error by main, and then no more.
Respond(w, ok) == Become(w, [job[w] EXCEPT !.pc = "write", !.answer.ok = ok,
                                           !.tries = IF ok THEN 3 ELSE 2])

\* _read_request_text and json.loads: what is not JSON is read again after 0.1 s;
\* a file that is gone, or cut inside a character, is refused at once.  A valid
\* request has its action run, which succeeds or raises.
ReadRequest(w) ==
    LET content == request[job[w].answer.to] IN
    /\ At(w, "read")
    /\ \/ content = "valid" /\ \E ok \in BOOLEAN : Respond(w, ok)
       \/ content = "garbled" /\ Become(w, [job[w] EXCEPT !.pc = "reread"])
       \/ content \in {"garbled", Absent} /\ Respond(w, FALSE)
    /\ UNCHANGED <<now, asked, files, safe, lock, faults, ghosts>>

RereadRequest(w) ==
    LET content == request[job[w].answer.to] IN
    /\ At(w, "reread")
    /\ \E ok \in BOOLEAN : Respond(w, ok) /\ (ok => content = "valid")
    /\ UNCHANGED <<now, asked, files, safe, lock, faults, ghosts>>

--------------------------------------------------------------------------------
(* write_response and the removal of the request *)

\* opens the directory, creates the temporary file and writes it
WriteTemp(w) ==
    /\ At(w, "write")
    /\ safe
    /\ Become(w, [job[w] EXCEPT !.pc = "publish"])
    /\ UNCHANGED <<now, asked, files, safe, lock, faults, ghosts>>

\* os.replace; a rename keeps the time of the write, which was a moment ago
Publish(w) ==
    LET a == job[w].answer IN
    /\ At(w, "publish")
    /\ response' = [response EXCEPT ![Stem(a.to)] = [to |-> a.to, ok |-> a.ok, born |-> now]]
    /\ answered' = answered \cup {a.to}
    /\ published' = [published EXCEPT ![Stem(a.to)] = @ + 1]
    /\ Become(w, [job[w] EXCEPT !.pc = "unlink"])
    /\ UNCHANGED <<now, asked, request, litter, safe, lock, faults>>

\* Mutant of WriteFails: the temporary file is left where it is.
WriteFailsUnclean(w) ==
    LET j == job[w] IN
    /\ j.pc \in {"write", "publish"}
    /\ \/ At(w, "write") /\ ~safe /\ UNCHANGED errors
       \/ Fault
    /\ litter' = IF At(w, "publish") THEN Append(litter, now) ELSE litter
    /\ Become(w, IF j.tries = 1 THEN [j EXCEPT !.pc = "unlink"]
                 ELSE [j EXCEPT !.pc = "write", !.answer.ok = FALSE, !.tries = @ - 1])
    /\ UNCHANGED <<now, asked, request, response, safe, lock, crashes, breaks, ghosts>>

\* Mutant of WriteFails: nobody tries again.
WriteFailsOnce(w) ==
    LET j == job[w] IN
    /\ j.pc \in {"write", "publish"}
    /\ \/ At(w, "write") /\ ~safe /\ UNCHANGED errors
       \/ Fault
    /\ Become(w, [j EXCEPT !.pc = "unlink"])
    /\ UNCHANGED <<now, asked, files, safe, lock, crashes, breaks, ghosts>>

\* Mutant of WriteFails: a failure after the rename counts as one of the write.
WriteFailsLate(w) ==
    LET j == job[w] IN
    /\ j.pc \in {"write", "publish", "unlink"}
    /\ \/ At(w, "write") /\ ~safe /\ UNCHANGED errors
       \/ Fault
    /\ Become(w, IF j.tries = 1 THEN [j EXCEPT !.pc = "unlink"]
                 ELSE [j EXCEPT !.pc = "write", !.answer.ok = FALSE, !.tries = @ - 1])
    /\ UNCHANGED <<now, asked, files, safe, lock, crashes, breaks, ghosts>>

\* an unsafe directory or a failing disk; the finally clause removes the temporary
\* file, and the exception is answered, or no more
WriteFails(w) ==
    LET j == job[w] IN
    /\ j.pc \in {"write", "publish"}
    /\ \/ At(w, "write") /\ ~safe /\ UNCHANGED errors
       \/ Fault
    /\ Become(w, IF j.tries = 1 THEN [j EXCEPT !.pc = "unlink"]
                 ELSE [j EXCEPT !.pc = "write", !.answer.ok = FALSE, !.tries = @ - 1])
    /\ UNCHANGED <<now, asked, files, safe, lock, crashes, breaks, ghosts>>

NextRequest(w) == Become(w, [Off EXCEPT !.pc = "next", !.todo = job[w].todo])

\* Mutant of Unlink: a request answered with an error is kept, to be tried again.
UnlinkIfOk(w) ==
    LET a == job[w].answer IN
    /\ At(w, "unlink")
    /\ request' = IF a.ok THEN [request EXCEPT ![a.to] = Absent] ELSE request
    /\ NextRequest(w)
    /\ UNCHANGED <<now, asked, response, litter, safe, lock, faults, ghosts>>

\* main's finally clause, through the descriptor opened at the listing
Unlink(w) ==
    /\ At(w, "unlink")
    /\ request' = [request EXCEPT ![job[w].answer.to] = Absent]
    /\ NextRequest(w)
    /\ UNCHANGED <<now, asked, response, litter, safe, lock, faults, ghosts>>

UnlinkFails(w) ==
    /\ At(w, "unlink")
    /\ Fault
    /\ NextRequest(w)
    /\ UNCHANGED <<now, asked, files, safe, lock, crashes, breaks, ghosts>>

\* SIGKILL: the lock goes, the temporary file stays
Crash(w) ==
    /\ ~At(w, "off")
    /\ crashes < MaxCrashes
    /\ crashes' = crashes + 1
    /\ lock' = IF lock = w THEN Absent ELSE lock
    /\ litter' = IF At(w, "publish") THEN Append(litter, now) ELSE litter
    /\ Become(w, Off)
    /\ UNCHANGED <<now, asked, request, response, safe, errors, breaks, ghosts>>

--------------------------------------------------------------------------------

ReaperNext(w) ==
    \/ Start(w) \/ (\E s \in Slots : Judge(w, s)) \/ Reap(w) \/ ReapFails(w) \/ ReapDone(w)

DrainNext(w) ==
    \/ Acquire(w) \/ LockTimeout(w) \/ (\E i \in Ids : Take(w, i)) \/ Finish(w)
    \/ ReadRequest(w) \/ RereadRequest(w)
    \/ WriteTemp(w) \/ Publish(w) \/ WriteFails(w) \/ Unlink(w) \/ UnlinkFails(w)

Next ==
    \/ \E i \in Ids : Post(i) \/ Complete(i) \/ Collect(i)
    \/ Tick \/ Break \/ Repair
    \/ \E w \in Workers : ReaperNext(w) \/ DrainNext(w) \/ Crash(w)

Spec == Init /\ [][Next]_vars

--------------------------------------------------------------------------------
(* What the plumbing guarantees *)

(* Type correctness: files, local variables and ghosts.                     *)
AnswersTypeOK ==
    /\ now \in 0..MaxNow
    /\ asked \subseteq Ids
    /\ request \in [Ids -> Contents \cup {Absent}]
    /\ response \in [Slots -> Responses \cup {Absent}]
    /\ litter \in Seq(0..MaxNow)
    /\ safe \in BOOLEAN
    /\ lock \in Workers \cup {Absent}
    /\ job \in [Workers -> Jobs]
    /\ crashes \in 0..MaxCrashes /\ errors \in 0..MaxErrors /\ breaks \in 0..MaxBreaks
    /\ answered \subseteq Ids
    /\ published \in [Slots -> Nat]

(* The reaper costs a reader only what is older than the TTL.  Between its  *)
(* look at the age and its unlink, a helper under the lock may have put a   *)
(* newer response there, but only one that was put there before: a request  *)
(* served again after a fault, or one whose name collides with it.          *)
ReapedOnlyStale ==
    [][\A w \in Workers, s \in Slots :
          /\ At(w, "reaping") /\ job[w].slot = s
          /\ response[s] # Absent /\ response'[s] = Absent
          /\ job'[w] # job[w]
          => job[w].clock > response[s].born + TTL \/ published[s] > 1]_vars

(* A helper goes on to the lock only when every response in the directory   *)
(* that was too old at its start is gone, whoever else reaps, answers or    *)
(* collects meanwhile, unless an unlink failed.                             *)
ReapLeavesNoneOld ==
    \A w \in Workers : At(w, "lock") /\ errors = 0 =>
        \A s \in Slots : response[s] # Absent => job[w].clock <= response[s].born + TTL

(* Every temporary file that stays is that of a killed helper: each failed  *)
(* write, at whatever point, cleans up after itself.                        *)
LitterOnlyFromKills == Len(litter) <= crashes

(* A request is removed without an answer only when two attempts to write   *)
(* one failed, because the directory turned unsafe or the disk failed       *)
(* twice, or when nothing is left of its name.                              *)
LostOnlyByFaults ==
    \A i \in asked : request[i] = Absent /\ i \notin answered =>
        Stem(i) = <<>> \/ breaks > 0 \/ errors > 1

(* A response that nobody has read yet is overwritten only by one to the    *)
(* same request, after a kill or a failed unlink, or by one to a request    *)
(* whose id contains "request-".                                            *)
OverwritesHaveACause ==
    [][\A s \in Slots :
          /\ response[s] # Absent /\ response'[s] # Absent
          /\ published'[s] # published[s]
          => \/ response'[s].to = response[s].to /\ crashes + errors > 0
             \/ ~Plain(response[s].to) \/ ~Plain(response'[s].to)]_vars

(* The implementation of Mailbox: what is served is in the hand of whoever  *)
(* holds the lock.                                                          *)
Holding == {"read", "reread", "write", "publish", "unlink"}

Served  == IF lock # Absent /\ job[lock].pc \in Holding THEN job[lock].answer.to ELSE Absent
Closed  == lock # Absent /\ job[lock].pc = "unlink"
There   == {i \in Ids : request[i] # Absent}
Replies == [s \in Slots |-> IF response[s] = Absent THEN Absent ELSE response[s].to]

Box == INSTANCE Mailbox WITH
           SlotOf <- [i \in Ids |-> Stem(i)], Nameless <- {i \in Ids : Stem(i) = <<>>},
           posted <- asked, requests <- There, responses <- Replies,
           serving <- Served, closing <- Closed, faults <- crashes + errors + breaks

ImplementsMailbox == Box!Spec

--------------------------------------------------------------------------------
(* Why: the inductive invariant *)

Reaping == {"reap", "reaping", "lock"}

\* who drains holds the lock, so that what it has listed is still there
LockOK ==
    /\ \A i \in Ids : request[i] # Absent => i \in asked
    /\ \A w \in Workers : LET j == job[w] IN
          /\ j.pc \in Holding \cup {"next"} => lock = w /\ \A i \in j.todo : request[i] # Absent
          /\ j.pc \in Holding =>
                j.answer # Absent /\ request[j.answer.to] # Absent /\ j.answer.to \notin j.todo

\* a response was put there, under the name made of its request's id
PlacedOK ==
    /\ answered \subseteq asked
    /\ \A s \in Slots : response[s] # Absent =>
          response[s].to \in answered /\ Stem(response[s].to) = s /\ published[s] # 0

\* what the reaper has passed over is young, what it is about to remove was old
AgeOK ==
    \A w \in Workers : LET j == job[w] IN
       /\ j.clock <= now
       /\ j.pc \in {"reap", "lock"} => j.slot = Absent
       /\ j.pc = "lock" => j.rest = {}
       /\ j.pc = "reaping" =>
             /\ j.slot \in Slots /\ published[j.slot] # 0
             /\ response[j.slot] # Absent =>
                   j.clock > response[j.slot].born + TTL \/ published[j.slot] > 1
       /\ j.pc \in Reaping /\ errors = 0 =>
             \A s \in Slots : response[s] # Absent /\ s \notin j.rest \cup {j.slot} =>
                j.clock <= response[s].born + TTL

Excused(i) == i \in answered \/ Stem(i) = <<>> \/ breaks > 0 \/ errors > 1

\* attempts run out only after failures
TriesOK ==
    /\ ~safe => breaks > 0
    /\ \A w \in Workers : LET j == job[w] IN
          /\ j.pc \in {"write", "publish"} => j.tries # 0 /\ (j.tries = 1 => breaks > 0 \/ errors > 0)
          /\ j.pc = "unlink" => Excused(j.answer.to)
    /\ LostOnlyByFaults
    /\ LitterOnlyFromKills

\* a request that was answered and is still there has cost a fault, or goes next
OnceOK ==
    \A i \in answered : request[i] # Absent =>
        crashes # 0 \/ errors # 0 \/ \E w \in Workers : At(w, "unlink") /\ job[w].answer.to = i

AnswersInv == AnswersTypeOK /\ LockOK /\ PlacedOK /\ AgeOK /\ TriesOK /\ OnceOK
================================================================================
