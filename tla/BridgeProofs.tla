------------------------------ MODULE BridgeProofs ------------------------------
(* What the bridge guarantees for every number of helpers, requests, nonces *)
(* and payloads, whatever is killed, fails or is edited, and however often. *)
EXTENDS Bridge, TLAPS

--------------------------------------------------------------------------------
(* What a step of a helper makes of its local variables *)

JobsTyped == job \in [Workers -> Jobs]

PCs == Draining \cup {"off", "reap", "lock"}

LEMMA FieldsTyped ==
  ASSUME NEW j \in Jobs
  PROVE  /\ \A pc \in PCs : [j EXCEPT !.pc = pc] \in Jobs
         /\ \A S \in SUBSET Ids : [j EXCEPT !.todo = S] \in Jobs
         /\ \A r \in Responses \cup {Absent} : [j EXCEPT !.answer = r] \in Jobs
         /\ \A t \in 0..3 : [j EXCEPT !.tries = t] \in Jobs
         /\ \A b \in BOOLEAN : [j EXCEPT !.blocked = b] \in Jobs
<1>1. \A pc \in PCs : [j EXCEPT !.pc = pc] \in Jobs
  BY DEF Jobs, PCs
<1>2. \A S \in SUBSET Ids : [j EXCEPT !.todo = S] \in Jobs
  BY DEF Jobs
<1>3. \A r \in Responses \cup {Absent} : [j EXCEPT !.answer = r] \in Jobs
  BY DEF Jobs
<1>4. \A t \in 0..3 : [j EXCEPT !.tries = t] \in Jobs
  BY DEF Jobs
<1>5. \A b \in BOOLEAN : [j EXCEPT !.blocked = b] \in Jobs
  BY DEF Jobs
<1> QED
  BY <1>1, <1>2, <1>3, <1>4, <1>5

LEMMA OthersStay ==
  ASSUME JobsTyped, NEW w \in Workers, NEW j, Become(w, j)
  PROVE  job'[w] = j /\ \A v \in Workers \ {w} : job'[v] = job[v]
  BY DEF JobsTyped, Become

LEMMA Goes ==
  ASSUME JobsTyped, NEW w \in Workers, NEW pc \in PCs, Goto(w, pc)
  PROVE  /\ job' \in [Workers -> Jobs]
         /\ job'[w].pc = pc /\ job'[w].todo = job[w].todo /\ job'[w].id = job[w].id
         /\ job'[w].answer = job[w].answer /\ job'[w].tries = job[w].tries
         /\ job'[w].blocked = job[w].blocked
         /\ \A v \in Workers \ {w} : job'[v] = job[v]
<1>1. job[w] \in Jobs
  BY DEF JobsTyped
<1>2. job'[w] = [job[w] EXCEPT !.pc = pc] /\ \A v \in Workers \ {w} : job'[v] = job[v]
  BY DEF JobsTyped, Goto
<1>3. [job[w] EXCEPT !.pc = pc] \in Jobs
  BY <1>1, FieldsTyped
<1>4. job' \in [Workers -> Jobs]
  BY <1>2, <1>3 DEF JobsTyped, Goto
<1>5. /\ job'[w].pc = pc /\ job'[w].todo = job[w].todo /\ job'[w].id = job[w].id
      /\ job'[w].answer = job[w].answer /\ job'[w].tries = job[w].tries
      /\ job'[w].blocked = job[w].blocked
  BY <1>1, <1>2 DEF Jobs
<1> QED
  BY <1>2, <1>4, <1>5

LEMMA Responds ==
  ASSUME JobsTyped, NEW w \in Workers, NEW r \in Responses \cup {Absent}, Respond(w, r)
  PROVE  /\ job' \in [Workers -> Jobs]
         /\ job'[w].pc = "respond" /\ job'[w].todo = job[w].todo /\ job'[w].id = job[w].id
         /\ job'[w].answer = r /\ job'[w].tries \in {2, 3}
         /\ job'[w].blocked = job[w].blocked
         /\ \A v \in Workers \ {w} : job'[v] = job[v]
<1> DEFINE tries == IF r.ok THEN 3 ELSE 2
           j     == [job[w] EXCEPT !.pc = "respond", !.answer = r, !.tries = tries]
<1>1. job[w] \in Jobs
  BY DEF JobsTyped
<1>2. job'[w] = j /\ \A v \in Workers \ {w} : job'[v] = job[v]
  BY OthersStay DEF Respond
<1>3. tries \in {2, 3}
  OBVIOUS
<1> HIDE DEF tries
<1>4. j \in Jobs
  <2>1. [job[w] EXCEPT !.pc = "respond"] \in Jobs
    BY <1>1, FieldsTyped DEF PCs, Draining
  <2>2. [[job[w] EXCEPT !.pc = "respond"] EXCEPT !.answer = r] \in Jobs
    BY <2>1, FieldsTyped
  <2> DEFINE k == [[job[w] EXCEPT !.pc = "respond"] EXCEPT !.answer = r]
  <2>3. k \in Jobs /\ tries \in 0..3
    BY <1>3, <2>2
  <2> HIDE DEF k
  <2>4. [k EXCEPT !.tries = tries] \in Jobs
    BY <2>3, FieldsTyped
  <2>5. [[[job[w] EXCEPT !.pc = "respond"] EXCEPT !.answer = r] EXCEPT !.tries = tries] \in Jobs
    BY <2>4 DEF k
  <2>6. j = [[[job[w] EXCEPT !.pc = "respond"] EXCEPT !.answer = r] EXCEPT !.tries = tries]
    BY <1>1 DEF Jobs
  <2> QED
    BY <2>5, <2>6
<1>5. /\ j.pc = "respond" /\ j.todo = job[w].todo /\ j.id = job[w].id
      /\ j.answer = r /\ j.tries = tries /\ j.blocked = job[w].blocked
  BY <1>1 DEF Jobs
<1> HIDE DEF j
<1>6. job' \in [Workers -> Jobs]
  BY <1>4 DEF JobsTyped, Respond, Become, j, tries
<1> QED
  BY <1>2, <1>3, <1>5, <1>6

LEMMA AnswersTyped ==
  /\ Refusal \in Responses /\ Refusal.ok = FALSE /\ Refusal.nonce = Absent
  /\ \A n \in Nonces \cup {Absent} : Success(n) \in Responses /\ Success(n).ok = TRUE /\ Success(n).nonce = n
  BY DEF Refusal, Success, Responses

LEMMA OffTyped ==
  /\ Off \in Jobs /\ Off.pc = "off" /\ Off.todo = {} /\ Off.blocked = FALSE
  BY DEF Off, Jobs

LEMMA Stops ==
  ASSUME JobsTyped, NEW w \in Workers, Become(w, Off)
  PROVE  job' \in [Workers -> Jobs] /\ job'[w].pc = "off" /\ \A v \in Workers \ {w} : job'[v] = job[v]
  BY OffTyped DEF JobsTyped, Become

LEMMA Starts ==
  ASSUME JobsTyped, blocked \in BOOLEAN, NEW w \in Workers, Start(w)
  PROVE  /\ job' \in [Workers -> Jobs]
         /\ job'[w].pc = "reap" /\ job'[w].blocked = blocked
         /\ \A v \in Workers \ {w} : job'[v] = job[v]
<1> DEFINE j == [Off EXCEPT !.pc = "reap", !.blocked = blocked]
<1>1. j \in Jobs
  <2>1. [Off EXCEPT !.pc = "reap"] \in Jobs
    BY OffTyped, FieldsTyped DEF PCs
  <2>2. [[Off EXCEPT !.pc = "reap"] EXCEPT !.blocked = blocked] \in Jobs
    BY <2>1, FieldsTyped
  <2> QED
    BY <2>2, OffTyped DEF Jobs
<1>0. j.pc = "reap" /\ j.blocked = blocked
  BY OffTyped DEF Jobs
<1>2. Become(w, j)
  BY DEF Start
<1> HIDE DEF j
<1> QED
  BY <1>0, <1>1, <1>2 DEF JobsTyped, Become

LEMMA Lists ==
  ASSUME JobsTyped, requests \subseteq Ids, NEW w \in Workers, List(w)
  PROVE  /\ job' \in [Workers -> Jobs]
         /\ job'[w].pc = "next" /\ job'[w].todo = requests /\ job'[w].blocked = job[w].blocked
         /\ \A v \in Workers \ {w} : job'[v] = job[v]
<1> DEFINE j == [job[w] EXCEPT !.pc = "next", !.todo = requests]
<1>1. job[w] \in Jobs
  BY DEF JobsTyped
<1>2. j \in Jobs
  BY <1>1 DEF Jobs, Draining
<1>3. j.pc = "next" /\ j.todo = requests /\ j.blocked = job[w].blocked
  BY <1>1 DEF Jobs
<1>4. Become(w, j)
  BY DEF List
<1> HIDE DEF j
<1> QED
  BY <1>2, <1>3, <1>4 DEF JobsTyped, Become

LEMMA Takes ==
  ASSUME JobsTyped, NEW w \in Workers, NEW i \in Ids, TakeRequest(w, i)
  PROVE  /\ job' \in [Workers -> Jobs]
         /\ job'[w].pc = "parse" /\ job'[w].id = i /\ job'[w].todo = job[w].todo \ {i}
         /\ job'[w].blocked = job[w].blocked
         /\ \A v \in Workers \ {w} : job'[v] = job[v]
<1> DEFINE j == [job[w] EXCEPT !.pc = "parse", !.id = i, !.todo = @ \ {i}]
<1>1. job[w] \in Jobs
  BY DEF JobsTyped
<1>2. j \in Jobs
  BY <1>1 DEF Jobs, Draining
<1>3. j.pc = "parse" /\ j.id = i /\ j.todo = job[w].todo \ {i} /\ j.blocked = job[w].blocked
  BY <1>1 DEF Jobs
<1>4. Become(w, j)
  BY DEF TakeRequest
<1> HIDE DEF j
<1> QED
  BY <1>2, <1>3, <1>4 DEF JobsTyped, Become

LEMMA Mints ==
  ASSUME JobsTyped, NEW w \in Workers, NEW n \in Nonces, Mint(w, n)
  PROVE  /\ job' \in [Workers -> Jobs]
         /\ job'[w].pc = "issue" /\ job'[w].answer = Success(n)
         /\ job'[w].todo = job[w].todo /\ job'[w].id = job[w].id /\ job'[w].blocked = job[w].blocked
         /\ \A v \in Workers \ {w} : job'[v] = job[v]
<1> DEFINE j == [job[w] EXCEPT !.pc = "issue", !.answer = Success(n)]
<1>1. job[w] \in Jobs
  BY DEF JobsTyped
<1>2. j \in Jobs
  BY <1>1, AnswersTyped DEF Jobs, Draining
<1>3. /\ j.pc = "issue" /\ j.answer = Success(n)
      /\ j.todo = job[w].todo /\ j.id = job[w].id /\ j.blocked = job[w].blocked
  BY <1>1 DEF Jobs
<1>4. Become(w, j)
  BY DEF Mint
<1> HIDE DEF j
<1> QED
  BY <1>2, <1>3, <1>4 DEF JobsTyped, Become

LEMMA Retries ==
  ASSUME JobsTyped, UnlinkOK, NEW w \in Workers, WriteFails(w)
  PROVE  /\ job' \in [Workers -> Jobs]
         /\ \/ job[w].tries = 1 /\ job'[w].pc = "unlink"
            \/ /\ job[w].tries # 1 /\ job'[w].pc = "respond"
               /\ job'[w].answer = Refusal /\ job'[w].tries \in {1, 2}
         /\ job'[w].todo = job[w].todo /\ job'[w].id = job[w].id /\ job'[w].blocked = job[w].blocked
         /\ \A v \in Workers \ {w} : job'[v] = job[v]
<1> DEFINE k == [job[w] EXCEPT !.pc = "unlink"]
           j == [job[w] EXCEPT !.answer = Refusal, !.tries = @ - 1]
<1>1. job[w] \in Jobs /\ job[w].pc = "respond" /\ job[w].tries \in {1, 2, 3}
  BY DEF JobsTyped, UnlinkOK, WriteFails, At, Jobs
<1>2. k \in Jobs /\ k.pc = "unlink" /\ k.todo = job[w].todo /\ k.id = job[w].id /\ k.blocked = job[w].blocked
  BY <1>1 DEF Jobs, Draining
<1>3. job[w].tries # 1 => j \in Jobs
  <2>1. job[w].tries # 1 => job[w].tries - 1 \in 0..3
    BY <1>1
  <2>2. [job[w] EXCEPT !.answer = Refusal] \in Jobs
    BY <1>1, AnswersTyped, FieldsTyped
  <2>3. job[w].tries # 1 =>
          [[job[w] EXCEPT !.answer = Refusal] EXCEPT !.tries = job[w].tries - 1] \in Jobs
    BY <2>1, <2>2, FieldsTyped
  <2> QED
    BY <1>1, <2>3 DEF Jobs
<1>4. /\ j.pc = "respond" /\ j.answer = Refusal /\ j.tries = job[w].tries - 1
      /\ j.todo = job[w].todo /\ j.id = job[w].id /\ j.blocked = job[w].blocked
  BY <1>1 DEF Jobs
<1>5. IF job[w].tries = 1 THEN Become(w, k) ELSE Become(w, j)
  BY DEF WriteFails
<1> HIDE DEF j, k
<1>6. CASE job[w].tries = 1
  BY <1>2, <1>5, <1>6 DEF JobsTyped, Become
<1>7. CASE job[w].tries # 1
  <2>1. Become(w, j) /\ j \in Jobs /\ j.tries \in {1, 2}
    BY <1>1, <1>3, <1>4, <1>5, <1>7
  <2> QED
    BY <1>4, <1>7, <2>1 DEF JobsTyped, Become
<1> QED
  BY <1>6, <1>7

LEMMA GoesOn ==
  ASSUME JobsTyped, NEW w \in Workers, Unlink(w) \/ UnlinkFails(w)
  PROVE  /\ job' \in [Workers -> Jobs]
         /\ job'[w].pc = "next" /\ job'[w].todo = job[w].todo /\ job'[w].blocked = job[w].blocked
         /\ \A v \in Workers \ {w} : job'[v] = job[v]
<1> DEFINE j == [Off EXCEPT !.pc = "next", !.todo = job[w].todo, !.blocked = job[w].blocked]
<1>1. job[w] \in Jobs
  BY DEF JobsTyped
<1>2. j \in Jobs
  <2>1. job[w].todo \in SUBSET Ids /\ job[w].blocked \in BOOLEAN
    BY <1>1 DEF Jobs
  <2>2. [Off EXCEPT !.pc = "next"] \in Jobs
    BY OffTyped, FieldsTyped DEF PCs, Draining
  <2>3. [[Off EXCEPT !.pc = "next"] EXCEPT !.todo = job[w].todo] \in Jobs
    BY <2>1, <2>2, FieldsTyped
  <2>4. [[[Off EXCEPT !.pc = "next"] EXCEPT !.todo = job[w].todo] EXCEPT !.blocked = job[w].blocked]
          \in Jobs
    BY <2>1, <2>3, FieldsTyped
  <2> QED
    BY <2>4, OffTyped DEF Jobs
<1>3. Become(w, j)
  BY DEF Unlink, UnlinkFails
<1>4. j.pc = "next" /\ j.todo = job[w].todo /\ j.blocked = job[w].blocked
  BY <1>1, OffTyped DEF Jobs
<1> HIDE DEF j
<1> QED
  BY <1>2, <1>3, <1>4 DEF JobsTyped, Become

--------------------------------------------------------------------------------
(* Types *)

LEMMA NonceInHand ==
  ASSUME BridgeTypeOK, HandsOK, AnswersOK, NEW w \in Workers
  PROVE  /\ job[w].pc \in InHand => job[w].id \in Posted /\ Req(w) \in Requests
         /\ job[w].pc \in Attempt => Req(w).nonce \in Nonces
         /\ At(w, "issue") => job[w].answer \in Responses /\ job[w].answer.nonce \in Nonces
<1>1. job[w].pc \in InHand => job[w].id \in Posted /\ Req(w) \in Requests
  BY DEF HandsOK, Posted, BridgeTypeOK, Req
<1>2. job[w].pc \in Attempt => Req(w).nonce \in Nonces
  <2>1. job[w].pc \in Attempt => Req(w).nonce # Absent /\ job[w].pc \in InHand
    BY DEF AnswersOK, Attempt, InHand, Draining
  <2> QED
    BY <1>1, <2>1 DEF Requests
<1>3. At(w, "issue") => job[w].answer \in Responses /\ job[w].answer.nonce \in Nonces
  <2>1. At(w, "issue") => job[w].answer # Absent /\ job[w].answer.nonce # Absent
    BY DEF AnswersOK
  <2>2. job[w].answer \in Responses \cup {Absent}
    BY DEF BridgeTypeOK, Jobs
  <2> QED
    BY <2>1, <2>2 DEF Responses
<1> QED
  BY <1>1, <1>2, <1>3

(* The ledger's steps, and what they do to a nonce.                         *)
GateStep(n) ==
  \/ \E p \in Payloads : Gate!Draft(n, p) \/ Gate!Pass(n, p)
  \/ Gate!Issue(n) \/ Gate!Abandon(n) \/ Gate!Claim(n) \/ Gate!Burn(n) \/ Gate!Expire(n)

PassesGrow == \A n \in Nonces : passes[n] <= passes'[n]
GrantsStay ==
  \A n \in Nonces :
     /\ grant[n] # Absent => grant'[n] = grant[n]
     /\ grant'[n] # Absent => status'[n] # "unknown"

LEMMA GateStepOK ==
  ASSUME Gate!LedgerTypeOK, Gate!AtMostOnePass,
         \A n \in Nonces : grant[n] # Absent => status[n] # "unknown",
         Gate!Tick \/ UNCHANGED gate \/ \E n \in Nonces : GateStep(n)
  PROVE  /\ Gate!LedgerTypeOK' /\ Gate!AtMostOnePass'
         /\ PassesGrow /\ GrantsStay
<1> USE DEF PassesGrow, GrantsStay, Gate!LedgerTypeOK, Gate!AtMostOnePass, Gate!Statuses
<1>1. CASE Gate!Tick
  BY <1>1 DEF Gate!Tick
<1>2. CASE UNCHANGED gate
  BY <1>2 DEF gate
<1>3. ASSUME NEW n \in Nonces, NEW p \in Payloads, Gate!Draft(n, p)
      PROVE  /\ Gate!LedgerTypeOK' /\ Gate!AtMostOnePass'
             /\ PassesGrow /\ GrantsStay
  <2>1. [payload |-> p, at |-> now] \in Gate!Grants
    BY DEF Gate!Grants
  <2> QED
    BY <1>3, <2>1 DEF Gate!Draft, Gate!Move
<1>4. ASSUME NEW n \in Nonces, NEW p \in Payloads, Gate!Pass(n, p)
      PROVE  /\ Gate!LedgerTypeOK' /\ Gate!AtMostOnePass'
             /\ PassesGrow /\ GrantsStay
  BY <1>4 DEF Gate!Pass, Gate!Move
<1>5. ASSUME NEW n \in Nonces,
             Gate!Issue(n) \/ Gate!Abandon(n) \/ Gate!Claim(n) \/ Gate!Burn(n) \/ Gate!Expire(n)
      PROVE  /\ Gate!LedgerTypeOK' /\ Gate!AtMostOnePass'
             /\ PassesGrow /\ GrantsStay
  BY <1>5 DEF Gate!Issue, Gate!Abandon, Gate!Claim, Gate!Burn, Gate!Expire, Gate!Move
<1> QED
  BY <1>1, <1>2, <1>3, <1>4, <1>5 DEF GateStep

LEMMA GateSteps ==
  ASSUME BridgeTypeOK, HandsOK, AnswersOK, [Next]_vars
  PROVE  Gate!Tick \/ UNCHANGED gate \/ \E n \in Nonces : GateStep(n)
<1>1. ASSUME NEW w \in Workers, Start(w) \/ StartFails(w) PROVE UNCHANGED gate
  BY <1>1 DEF Start, StartFails
<1>2. ASSUME NEW w \in Workers, RunNext(w) PROVE UNCHANGED gate \/ \E n \in Nonces : GateStep(n)
  BY <1>2 DEF RunNext, ReapResponse, ReapNonce, ReapDone, Acquire, LockTimeout, List, TakeRequest,
              Finish, GateStep
<1>3. ASSUME NEW w \in Workers, RequestNext(w) PROVE UNCHANGED gate \/ \E n \in Nonces : GateStep(n)
  <2>1. ASSUME Refuse(w) \/ Read(w) \/ Preview(w) \/ MintNoMore(w) \/ SendRefused(w) \/ Approve(w)
               \/ Cancel(w) \/ Osascript(w) \/ WriteResponse(w) \/ WriteFails(w) \/ Unlink(w)
               \/ UnlinkFails(w)
        PROVE  UNCHANGED gate
    BY <2>1 DEF Refuse, Read, Preview, MintNoMore, SendRefused, Approve, Cancel, Osascript,
                WriteResponse, WriteFails, Unlink, UnlinkFails
  <2>2. ASSUME NEW n \in Nonces, Mint(w, n) PROVE GateStep(n)
    <3>1. Req(w).payload \in Payloads
      BY <2>2, NonceInHand DEF Mint, At, InHand, Draining, Requests
    <3> QED
      BY <2>2, <3>1 DEF Mint, GateStep
  <2>3. ASSUME Issue(w) \/ MintFails(w) PROVE \E n \in Nonces : GateStep(n)
    BY <2>3, NonceInHand DEF Issue, MintFails, GateStep
  <2>4. ASSUME SendClaim(w) PROVE \E n \in Nonces : GateStep(n)
    <3>1. Req(w).nonce \in Nonces
      BY <2>4, NonceInHand DEF SendClaim, At, InHand, Draining, Requests, Live
    <3> QED
      BY <2>4, <3>1 DEF SendClaim, GateStep
  <2>5. ASSUME GatePasses(w) \/ GateRefuses(w) PROVE \E n \in Nonces : GateStep(n)
    <3>1. Req(w).nonce \in Nonces /\ Req(w).payload \in Payloads
      BY <2>5, NonceInHand DEF GatePasses, GateRefuses, At, InHand, Draining, Attempt, Requests
    <3> QED
      BY <2>5, <3>1 DEF GatePasses, GateRefuses, GateStep
  <2> QED
    BY <1>3, <2>1, <2>2, <2>3, <2>4, <2>5 DEF RequestNext
<1>4. ASSUME NEW w \in Workers, Crash(w) PROVE UNCHANGED gate \/ \E n \in Nonces : GateStep(n)
  <2>1. At(w, "gate") => Req(w).nonce \in Nonces
    BY NonceInHand DEF At, Attempt
  <2> QED
    BY <1>4, <2>1, NonceInHand DEF Crash, GateStep
<1>5. ASSUME HostNext \/ UserNext PROVE UNCHANGED gate
  BY <1>5 DEF HostNext, UserNext, Post, Collect, GiveUp, Block, DisableSend
<1>6. ASSUME Tick PROVE Gate!Tick
  BY <1>6 DEF Tick
<1>7. ASSUME UNCHANGED vars PROVE UNCHANGED gate
  BY <1>7 DEF vars
<1> QED
  BY <1>1, <1>2, <1>3, <1>4, <1>5, <1>6, <1>7 DEF Next

--------------------------------------------------------------------------------
(* What every step on a request has in common *)

Kept(w) ==
  /\ job'[w].todo = job[w].todo /\ job'[w].id = job[w].id /\ job'[w].blocked = job[w].blocked
  /\ \A v \in Workers \ {w} : job'[v] = job[v]

LEMMA Works ==
  ASSUME BridgeTypeOK, UnlinkOK, NEW w \in Workers, RequestNext(w), ~Unlink(w), ~UnlinkFails(w)
  PROVE  /\ job' \in [Workers -> Jobs] /\ Kept(w)
         /\ job[w].pc \in InHand /\ job'[w].pc \in Begun
         /\ UNCHANGED <<asked, waiting, answers, requests, event, lock, policy, crashes>>
<1> USE DEF Kept, InHand, Begun, Draining, PCs, At
<1>0. JobsTyped
  BY DEF JobsTyped, BridgeTypeOK
<1>1. CASE Refuse(w)
  BY <1>0, <1>1, Responds, AnswersTyped DEF Refuse, host, files, policy, faults
<1>2. CASE Read(w)
  BY <1>0, <1>2, Responds, AnswersTyped DEF Read, host, files, policy, faults
<1>3. CASE Preview(w)
  <2>1. Goto(w, "mint") \/ Respond(w, Refusal)
    BY <1>3 DEF Preview
  <2> QED
    BY <1>0, <1>3, <2>1, Goes, Responds, AnswersTyped DEF Preview, host, files, policy, faults
<1>4. ASSUME NEW n \in Nonces, Mint(w, n)
      PROVE  /\ job' \in [Workers -> Jobs] /\ Kept(w)
             /\ job[w].pc \in InHand /\ job'[w].pc \in Begun
             /\ UNCHANGED <<asked, waiting, answers, requests, event, lock, policy, crashes>>
  BY <1>0, <1>4, Mints DEF Mint, host, files, policy, faults
<1>5. CASE Issue(w)
  <2>1. job[w].answer \in Responses \cup {Absent}
    BY DEF BridgeTypeOK, Jobs
  <2> QED
    BY <1>0, <1>5, <2>1, Responds DEF Issue, host, files, policy, faults
<1>6. CASE MintNoMore(w) \/ MintFails(w)
  BY <1>0, <1>6, Responds, AnswersTyped DEF MintNoMore, MintFails, host, files, policy, faults
<1>7. CASE SendRefused(w)
  BY <1>0, <1>7, Responds, AnswersTyped DEF SendRefused, host, files, policy, faults
<1>8. CASE SendClaim(w)
  BY <1>0, <1>8, Goes DEF SendClaim, host, files, policy, faults
<1>9. CASE GatePasses(w)
  BY <1>0, <1>9, Goes DEF GatePasses, host, files, policy, faults
<1>10. CASE GateRefuses(w) \/ Cancel(w)
  BY <1>0, <1>10, Responds, AnswersTyped DEF GateRefuses, Cancel, host, files, policy, faults
<1>11. CASE Approve(w)
  BY <1>0, <1>11, Goes DEF Approve, host, files, policy, faults
<1>12. CASE Osascript(w)
  <2>1. Respond(w, Success(Absent)) \/ Respond(w, Refusal)
    BY <1>12 DEF Osascript
  <2> QED
    BY <1>0, <1>12, <2>1, Responds, AnswersTyped DEF Osascript, host, files, policy, faults
<1>13. CASE WriteResponse(w)
  BY <1>0, <1>13, Goes DEF WriteResponse, host, policy, faults
<1>14. CASE WriteFails(w)
  BY <1>0, <1>14, Retries DEF WriteFails, host, files, policy, faults
<1> QED
  BY <1>1, <1>2, <1>3, <1>4, <1>5, <1>6, <1>7, <1>8, <1>9, <1>10, <1>11, <1>12, <1>13, <1>14
     DEF RequestNext

(* ... and every other step of a helper.                                    *)
LEMMA Runs ==
  ASSUME BridgeTypeOK, NEW w \in Workers
  PROVE  /\ (\E i \in Ids : ReapResponse(w, i)) \/ (\E n \in Nonces : ReapNonce(w, n)) \/ StartFails(w)
               => job' = job /\ UNCHANGED <<host, requests, lock, policy, crashes>>
         /\ Start(w) \/ ReapDone(w) \/ Acquire(w) \/ LockTimeout(w) \/ List(w)
               \/ (\E i \in Ids : TakeRequest(w, i)) \/ Finish(w) \/ Crash(w)
               \/ Unlink(w) \/ UnlinkFails(w)
               => /\ job' \in [Workers -> Jobs]
                  /\ \A v \in Workers \ {w} : job'[v] = job[v]
                  /\ job'[w].pc \notin Begun
                  /\ UNCHANGED <<host, responses, policy>>
<1> USE DEF Begun, InHand, Draining, PCs, At
<1>0. JobsTyped /\ requests \subseteq Ids /\ blocked \in BOOLEAN
  BY DEF JobsTyped, BridgeTypeOK
<1>1. (\E i \in Ids : ReapResponse(w, i)) \/ (\E n \in Nonces : ReapNonce(w, n)) \/ StartFails(w)
        => job' = job /\ UNCHANGED <<host, requests, lock, policy, crashes>>
  BY DEF ReapResponse, ReapNonce, StartFails, host, files, policy, faults
<1>2. ASSUME Start(w)
      PROVE  /\ job' \in [Workers -> Jobs]
             /\ \A v \in Workers \ {w} : job'[v] = job[v]
             /\ job'[w].pc \notin Begun
             /\ UNCHANGED <<host, responses, policy>>
  BY <1>0, <1>2, Starts DEF Start, files, policy
<1>3. ASSUME ReapDone(w) \/ Acquire(w)
      PROVE  /\ job' \in [Workers -> Jobs]
             /\ \A v \in Workers \ {w} : job'[v] = job[v]
             /\ job'[w].pc \notin Begun
             /\ UNCHANGED <<host, responses, policy>>
  BY <1>0, <1>3, Goes DEF ReapDone, Acquire, files, policy
<1>4. ASSUME LockTimeout(w) \/ Finish(w) \/ Crash(w)
      PROVE  /\ job' \in [Workers -> Jobs]
             /\ \A v \in Workers \ {w} : job'[v] = job[v]
             /\ job'[w].pc \notin Begun
             /\ UNCHANGED <<host, responses, policy>>
  BY <1>0, <1>4, Stops DEF LockTimeout, Finish, Crash, files, policy
<1>5. ASSUME List(w)
      PROVE  /\ job' \in [Workers -> Jobs]
             /\ \A v \in Workers \ {w} : job'[v] = job[v]
             /\ job'[w].pc \notin Begun
             /\ UNCHANGED <<host, responses, policy>>
  BY <1>0, <1>5, Lists DEF List, files, policy
<1>6. ASSUME NEW i \in Ids, TakeRequest(w, i)
      PROVE  /\ job' \in [Workers -> Jobs]
             /\ \A v \in Workers \ {w} : job'[v] = job[v]
             /\ job'[w].pc \notin Begun
             /\ UNCHANGED <<host, responses, policy>>
  BY <1>0, <1>6, Takes DEF TakeRequest, files, policy
<1>7. ASSUME Unlink(w) \/ UnlinkFails(w)
      PROVE  /\ job' \in [Workers -> Jobs]
             /\ \A v \in Workers \ {w} : job'[v] = job[v]
             /\ job'[w].pc \notin Begun
             /\ UNCHANGED <<host, responses, policy>>
  BY <1>0, <1>7, GoesOn DEF Unlink, UnlinkFails, files, policy
<1> QED
  BY <1>1, <1>2, <1>3, <1>4, <1>5, <1>6, <1>7

LEMMA HelperHost ==
  ASSUME BridgeTypeOK, UnlinkOK, NEW w \in Workers,
         Start(w) \/ StartFails(w) \/ RunNext(w) \/ RequestNext(w) \/ Crash(w)
  PROVE  UNCHANGED host /\ UNCHANGED policy /\ job' \in [Workers -> Jobs]
<1>1. job \in [Workers -> Jobs]
  BY DEF BridgeTypeOK
<1>2. RequestNext(w) => Unlink(w) \/ UnlinkFails(w) \/
                       (UNCHANGED <<asked, waiting, answers>> /\ UNCHANGED policy /\ job' \in [Workers -> Jobs])
  BY Works
<1> QED
  BY <1>1, <1>2, Runs DEF RunNext, host

LEMMA PostedTyped ==
  ASSUME BridgeTypeOK, NEW k \in Kinds, NEW p \in Payloads, NEW n \in Known, NEW s \in BOOLEAN
  PROVE  [kind |-> k, payload |-> p, nonce |-> n, blocked |-> blocked, sending |-> sending,
          settled |-> s] \in Requests
<1>1. n \in Nonces \cup {Absent}
  <2>1. CASE n = Absent
    BY <2>1
  <2>2. CASE n # Absent
    <3>1. PICK i \in Ids : answers[i] # Absent /\ n = answers[i].nonce
      BY <2>2 DEF Known
    <3>2. answers[i] \in Responses
      BY <3>1 DEF BridgeTypeOK
    <3> QED
      BY <3>1, <3>2 DEF Responses
  <2> QED
    BY <2>1, <2>2
<1>2. k \in {"send_preview", "send", "read", "bad"}
  BY BridgeConstants DEF BridgeConstants
<1> QED
  BY <1>1, <1>2 DEF Requests, BridgeTypeOK

PostedAs(i, r) ==
  /\ asked' = [asked EXCEPT ![i] = r]
  /\ r.nonce \in Known
  /\ r.sending = sending
  /\ r.settled => blocked /\ job = [w \in Workers |-> Off]

LEMMA Posts ==
  ASSUME BridgeTypeOK, NEW i \in Ids, Post(i)
  PROVE  /\ \E r \in Requests : PostedAs(i, r)
         /\ asked' \in [Ids -> Requests \cup {Absent}]
         /\ i \notin Posted /\ Posted' = Posted \cup {i}
<1> DEFINE settled == blocked /\ job = [w \in Workers |-> Off]
<1>1. PICK k \in Kinds, p \in Payloads, n \in Known :
        asked' = [asked EXCEPT ![i] = [kind |-> k, payload |-> p, nonce |-> n,
                                       blocked |-> blocked, sending |-> sending,
                                       settled |-> settled]]
  BY DEF Post
<1> DEFINE r == [kind |-> k, payload |-> p, nonce |-> n, blocked |-> blocked, sending |-> sending,
                 settled |-> settled]
<1>2. settled \in BOOLEAN
  OBVIOUS
<1> HIDE DEF settled
<1>3. r \in Requests
  BY <1>2, PostedTyped
<1>4. r.nonce \in Known /\ r.sending = sending /\ r.settled = settled
  OBVIOUS
<1>5. asked' = [asked EXCEPT ![i] = r]
  BY <1>1
<1> HIDE DEF r
<1>6. asked \in [Ids -> Requests \cup {Absent}] /\ asked[i] = Absent
  BY DEF BridgeTypeOK, Post
<1>7. asked' \in [Ids -> Requests \cup {Absent}]
  BY <1>3, <1>5, <1>6
<1>8. i \notin Posted /\ Posted' = Posted \cup {i}
  BY <1>3, <1>5, <1>6, AbsentApart DEF AbsentApart, Posted
<1> QED
  BY <1>3, <1>4, <1>5, <1>7, <1>8 DEF settled, PostedAs

LEMMA Counts ==
  ASSUME NEW S, NEW f \in [S -> Nat], NEW x
  PROVE  [f EXCEPT ![x] = f[x] + 1] \in [S -> Nat]
<1>1. CASE x \in S
  BY <1>1
<1>2. CASE x \notin S
  BY <1>2
<1> QED
  BY <1>1, <1>2

LEMMA BridgeTypeStep ==
  ASSUME BridgeInv, [Next]_vars
  PROVE  BridgeTypeOK'
<1>0. BridgeTypeOK /\ HandsOK /\ AnswersOK /\ ChainOK /\ UnlinkOK
  BY DEF BridgeInv
<1>1. Gate!LedgerTypeOK'
  BY <1>0, GateSteps, GateStepOK DEF BridgeTypeOK, ChainOK, AnswersOK
<1>2. job' \in [Workers -> Jobs]
  BY <1>0, HelperHost DEF Next, HostNext, UserNext, Post, Collect, GiveUp, Block, DisableSend, Tick,
                          vars, BridgeTypeOK
<1>3. /\ asked' \in [Ids -> Requests \cup {Absent}]
      /\ waiting' \subseteq Ids
      /\ answers' \in [Ids -> Responses \cup {Absent}]
  <2>1. ASSUME NEW i \in Ids, Post(i)
        PROVE  /\ asked' \in [Ids -> Requests \cup {Absent}]
               /\ waiting' \subseteq Ids
               /\ answers' = answers
    BY <1>0, <2>1, Posts DEF Post, BridgeTypeOK
  <2>2. ASSUME NEW i \in Ids, Collect(i) \/ GiveUp(i)
        PROVE  /\ asked' = asked
               /\ waiting' \subseteq Ids
               /\ answers' \in [Ids -> Responses \cup {Absent}]
    BY <1>0, <2>2 DEF Collect, GiveUp, BridgeTypeOK
  <2>3. UserNext \/ Tick \/ UNCHANGED vars => UNCHANGED host
    BY DEF UserNext, Block, DisableSend, Tick, vars, host
  <2>4. (\E w \in Workers : Start(w) \/ StartFails(w) \/ RunNext(w) \/ RequestNext(w) \/ Crash(w))
          => UNCHANGED host
    BY <1>0, HelperHost
  <2>5. UNCHANGED host => /\ asked' \in [Ids -> Requests \cup {Absent}]
                          /\ waiting' \subseteq Ids
                          /\ answers' \in [Ids -> Responses \cup {Absent}]
    BY <1>0 DEF host, BridgeTypeOK
  <2> QED
    BY <1>0, <2>1, <2>2, <2>3, <2>4, <2>5 DEF Next, HostNext, BridgeTypeOK
<1>4. /\ requests' \subseteq Ids
      /\ event' \in [Workers -> BOOLEAN]
      /\ lock' \in Workers \cup {Absent}
      /\ blocked' \in BOOLEAN /\ sending' \in BOOLEAN
      /\ crashes' \in 0..MaxCrashes
  <2>1. ASSUME NEW w \in Workers, RequestNext(w), ~Unlink(w), ~UnlinkFails(w)
        PROVE  UNCHANGED <<requests, event, lock, policy, crashes>>
    BY <1>0, <2>1, Works
  <2>2. ASSUME NEW w \in Workers, Start(w) \/ StartFails(w) \/ RunNext(w) \/ Crash(w) \/ Unlink(w) \/ UnlinkFails(w)
        PROVE  /\ requests' \subseteq requests
               /\ event' \in [Workers -> BOOLEAN]
               /\ lock' \in {w, lock, Absent}
               /\ UNCHANGED policy
               /\ crashes' \in 0..MaxCrashes
    <3> USE DEF files, faults
    <3>0. event \in [Workers -> BOOLEAN] /\ crashes \in 0..MaxCrashes /\ MaxCrashes \in Nat
      BY <1>0, BridgeConstants DEF BridgeConstants, BridgeTypeOK
    <3>1. CASE Start(w) \/ StartFails(w)
      BY <3>0, <3>1 DEF Start, StartFails
    <3>2. CASE RunNext(w)
      BY <3>0, <3>2 DEF RunNext, ReapResponse, ReapNonce, ReapDone, Acquire, LockTimeout, List,
                        TakeRequest, Finish
    <3>3. CASE Crash(w)
      BY <3>0, <3>3 DEF Crash
    <3>4. CASE Unlink(w) \/ UnlinkFails(w)
      BY <3>0, <3>4 DEF Unlink, UnlinkFails
    <3> QED
      BY <2>2, <3>1, <3>2, <3>3, <3>4
  <2>3. ASSUME NEW i \in Ids, Post(i) \/ Collect(i) \/ GiveUp(i)
        PROVE  /\ requests' \subseteq Ids
               /\ event' \in [Workers -> BOOLEAN]
               /\ UNCHANGED <<lock, policy, crashes>>
    BY <1>0, <2>3 DEF Post, Collect, GiveUp, BridgeTypeOK, files, faults
  <2>4. ASSUME UserNext \/ Tick \/ UNCHANGED vars
        PROVE  /\ UNCHANGED <<requests, event, lock, crashes>>
               /\ blocked' \in BOOLEAN /\ sending' \in BOOLEAN
    BY <1>0, <2>4 DEF UserNext, Block, DisableSend, Tick, vars, BridgeTypeOK, files, faults, policy
  <2> QED
    BY <1>0, <2>1, <2>2, <2>3, <2>4 DEF Next, HostNext, BridgeTypeOK, policy
<1>5. responses' \in [Ids -> Responses \cup {Absent}]
  <2>1. ASSUME NEW w \in Workers, WriteResponse(w) PROVE responses' \in [Ids -> Responses \cup {Absent}]
    <3>1. job[w].answer \in Responses \cup {Absent}
      BY <1>0 DEF BridgeTypeOK, Jobs
    <3> QED
      BY <1>0, <2>1, <3>1 DEF WriteResponse, BridgeTypeOK
  <2>2. ASSUME NEW w \in Workers, NEW i \in Ids, ReapResponse(w, i)
        PROVE  responses' \in [Ids -> Responses \cup {Absent}]
    BY <1>0, <2>2 DEF ReapResponse, BridgeTypeOK
  <2>3. ASSUME NEW w \in Workers, RequestNext(w), ~WriteResponse(w) PROVE responses' = responses
    BY <2>3 DEF RequestNext, Refuse, Read, Preview, Mint, Issue, MintNoMore, MintFails, SendRefused,
                SendClaim, GatePasses, GateRefuses, Approve, Cancel, Osascript, WriteFails, Unlink,
                UnlinkFails, files
  <2>4. ASSUME NEW w \in Workers, Start(w) \/ StartFails(w) \/ RunNext(w) \/ Crash(w),
               \A i \in Ids : ~ReapResponse(w, i)
        PROVE  responses' = responses
    BY <2>4 DEF RunNext, Start, StartFails, ReapNonce, ReapDone, Acquire, LockTimeout, List,
                TakeRequest, Finish, Crash, files
  <2>5. ASSUME HostNext \/ UserNext \/ Tick \/ UNCHANGED vars
        PROVE  responses' \in [Ids -> Responses \cup {Absent}]
    BY <1>0, <2>5 DEF HostNext, UserNext, Post, Collect, GiveUp, Block, DisableSend, Tick, vars, files,
                      BridgeTypeOK
  <2> QED
    BY <1>0, <2>1, <2>2, <2>3, <2>4, <2>5 DEF Next, BridgeTypeOK
<1>6. /\ errors' \in 0..MaxErrors
      /\ approved' \in [Nonces -> Nat] /\ delivered' \in [Nonces -> Nat]
      /\ carried' \subseteq Ids
      /\ served' \in [Ids -> Nat]
  <2>1. ASSUME NEW w \in Workers, RequestNext(w)
        PROVE  /\ errors' \in 0..MaxErrors
               /\ approved' \in [Nonces -> Nat] /\ delivered' \in [Nonces -> Nat]
               /\ carried' \subseteq Ids
               /\ served' \in [Ids -> Nat]
    <3>1. ASSUME MintFails(w) \/ WriteFails(w) \/ UnlinkFails(w)
          PROVE  errors' \in 0..MaxErrors /\ UNCHANGED ghosts
      <4>1. errors < MaxErrors /\ errors' = errors + 1 /\ UNCHANGED ghosts
        BY <3>1 DEF MintFails, WriteFails, UnlinkFails
      <4>2. errors \in 0..MaxErrors /\ MaxErrors \in Nat
        BY <1>0, BridgeConstants DEF BridgeConstants, BridgeTypeOK
      <4> QED
        BY <4>1, <4>2
    <3>2. ASSUME Approve(w)
          PROVE  approved' \in [Nonces -> Nat] /\ UNCHANGED <<errors, delivered, carried, served>>
      <4>1. UNCHANGED <<errors, delivered, carried, served>>
        BY <3>2 DEF Approve, faults
      <4>2. approved' = [approved EXCEPT ![Req(w).nonce] = approved[Req(w).nonce] + 1]
        BY <3>2 DEF Approve
      <4>3. approved \in [Nonces -> Nat]
        BY <1>0 DEF BridgeTypeOK
      <4> QED
        BY <4>1, <4>2, <4>3, Counts
    <3>3. ASSUME Osascript(w)
          PROVE  /\ delivered' \in [Nonces -> Nat] /\ carried' \subseteq Ids
                 /\ UNCHANGED <<errors, approved, served>>
      <4>1. job[w].id \in Ids
        BY <1>0, <3>3, NonceInHand DEF Osascript, At, InHand, Draining, Posted
      <4>2. \/ /\ delivered' = [delivered EXCEPT ![Req(w).nonce] = @ + 1]
               /\ carried' = carried \cup {job[w].id}
            \/ UNCHANGED <<delivered, carried>>
        BY <3>3 DEF Osascript
      <4>3. UNCHANGED <<errors, approved, served>>
        BY <3>3 DEF Osascript, faults
      <4>4. delivered \in [Nonces -> Nat] /\ carried \subseteq Ids
        BY <1>0 DEF BridgeTypeOK
      <4> QED
        BY <4>1, <4>2, <4>3, <4>4
    <3>4. ASSUME Serve(w), Refuse(w) \/ Read(w) \/ Preview(w) \/ SendRefused(w) \/ SendClaim(w)
          PROVE  served' \in [Ids -> Nat] /\ UNCHANGED <<errors, approved, delivered, carried>>
      <4>1. UNCHANGED <<errors, approved, delivered, carried>>
        BY <3>4 DEF Refuse, Read, Preview, SendRefused, SendClaim, faults
      <4>2. served \in [Ids -> Nat]
        BY <1>0 DEF BridgeTypeOK
      <4>3. served' = [served EXCEPT ![job[w].id] = served[job[w].id] + 1]
        BY <3>4 DEF Serve
      <4> QED
        BY <4>1, <4>2, <4>3, Counts
    <3>5. Refuse(w) \/ Read(w) \/ Preview(w) \/ SendRefused(w) \/ SendClaim(w) => Serve(w)
      BY DEF Refuse, Read, Preview, SendRefused, SendClaim
    <3>6. ASSUME (\E n \in Nonces : Mint(w, n)) \/ Issue(w) \/ MintNoMore(w) \/ GatePasses(w) \/ GateRefuses(w)
                 \/ Cancel(w) \/ WriteResponse(w) \/ Unlink(w)
          PROVE  UNCHANGED <<errors, ghosts>>
      BY <3>6 DEF Mint, Issue, MintNoMore, GatePasses, GateRefuses, Cancel, WriteResponse, Unlink, faults
    <3>7. /\ errors \in 0..MaxErrors
          /\ approved \in [Nonces -> Nat] /\ delivered \in [Nonces -> Nat]
          /\ carried \subseteq Ids
          /\ served \in [Ids -> Nat]
      BY <1>0 DEF BridgeTypeOK
    <3> USE DEF ghosts
    <3>8. CASE MintFails(w) \/ WriteFails(w) \/ UnlinkFails(w)
      BY <3>1, <3>7, <3>8
    <3>9. CASE Approve(w) \/ Osascript(w)
      BY <3>2, <3>3, <3>7, <3>9
    <3>10. CASE Refuse(w) \/ Read(w) \/ Preview(w) \/ SendRefused(w) \/ SendClaim(w)
      BY <3>4, <3>5, <3>7, <3>10
    <3>11. CASE (\E n \in Nonces : Mint(w, n)) \/ Issue(w) \/ MintNoMore(w) \/ GatePasses(w) \/ GateRefuses(w)
                \/ Cancel(w) \/ WriteResponse(w) \/ Unlink(w)
      BY <3>6, <3>7, <3>11
    <3>12. \/ MintFails(w) \/ WriteFails(w) \/ UnlinkFails(w)
           \/ Approve(w) \/ Osascript(w)
           \/ Refuse(w) \/ Read(w) \/ Preview(w) \/ SendRefused(w) \/ SendClaim(w)
           \/ (\E n \in Nonces : Mint(w, n)) \/ Issue(w) \/ MintNoMore(w) \/ GatePasses(w) \/ GateRefuses(w)
           \/ Cancel(w) \/ WriteResponse(w) \/ Unlink(w)
      BY <2>1 DEF RequestNext
    <3> QED
      BY <3>8, <3>9, <3>10, <3>11, <3>12
  <2>2. ASSUME NEW w \in Workers, Start(w) \/ StartFails(w) \/ RunNext(w) \/ Crash(w)
        PROVE  errors' \in 0..MaxErrors /\ UNCHANGED ghosts
    <3> USE DEF faults
    <3>0. errors \in 0..MaxErrors /\ MaxErrors \in Nat
      BY <1>0, BridgeConstants DEF BridgeConstants, BridgeTypeOK
    <3>1. CASE Start(w)
      BY <3>0, <3>1 DEF Start
    <3>2. CASE StartFails(w)
      <4>1. errors < MaxErrors /\ errors' = errors + 1 /\ UNCHANGED ghosts
        BY <3>2 DEF StartFails
      <4> QED
        BY <3>0, <4>1
    <3>3. CASE RunNext(w)
      BY <3>0, <3>3 DEF RunNext, ReapResponse, ReapNonce, ReapDone, Acquire, LockTimeout, List,
                        TakeRequest, Finish
    <3>4. CASE Crash(w)
      BY <3>0, <3>4 DEF Crash
    <3> QED
      BY <2>2, <3>1, <3>2, <3>3, <3>4
  <2>3. ASSUME HostNext \/ UserNext \/ Tick \/ UNCHANGED vars PROVE UNCHANGED <<errors, ghosts>>
    BY <2>3 DEF HostNext, UserNext, Post, Collect, GiveUp, Block, DisableSend, Tick, vars, faults, ghosts
  <2> QED
    BY <1>0, <2>1, <2>2, <2>3 DEF Next, ghosts, BridgeTypeOK
<1> QED
  BY <1>1, <1>2, <1>3, <1>4, <1>5, <1>6 DEF BridgeTypeOK

--------------------------------------------------------------------------------
(* The lock, and the requests its holder has before it *)

LEMMA HandsStep ==
  ASSUME BridgeInv, [Next]_vars
  PROVE  HandsOK'
<1>0. /\ BridgeTypeOK /\ HandsOK /\ UnlinkOK
      /\ JobsTyped /\ requests \subseteq Ids /\ blocked \in BOOLEAN
      /\ asked \in [Ids -> Requests \cup {Absent}]
  BY DEF BridgeInv, BridgeTypeOK, JobsTyped
<1> USE DEF InHand, Draining, At
<1>1. ASSUME NEW i \in Ids, Post(i) PROVE HandsOK'
  <2>2. Posted' = Posted \cup {i}
    BY <1>0, <1>1, Posts
  <2>3. requests' = requests \cup {i} /\ UNCHANGED <<lock, job>>
    BY <1>1 DEF Post
  <2> QED
    BY <1>0, <2>2, <2>3 DEF HandsOK
<1>2. ASSUME UNCHANGED <<asked, requests, lock, job>> PROVE HandsOK'
  BY <1>0, <1>2 DEF HandsOK, Posted
<1>3. ASSUME NEW w \in Workers, RequestNext(w), ~Unlink(w), ~UnlinkFails(w) PROVE HandsOK'
  <2>1. /\ Kept(w) /\ job[w].pc \in InHand /\ job'[w].pc \in Begun
        /\ UNCHANGED <<asked, requests, lock>>
    BY <1>0, <1>3, Works
  <2>2. \A v \in Workers : job'[v].pc \in Draining => job[v].pc \in Draining
    BY <2>1 DEF Kept
  <2> QED
    BY <1>0, <2>1, <2>2 DEF HandsOK, Posted, Kept, Begun
<1>4. ASSUME NEW w \in Workers, Start(w) \/ ReapDone(w) \/ LockTimeout(w) PROVE HandsOK'
  <2>1. job'[w].pc \in {"off", "reap", "lock"} /\ \A v \in Workers \ {w} : job'[v] = job[v]
    BY <1>0, <1>4, Starts, Goes, Stops DEF ReapDone, LockTimeout, PCs
  <2>2. UNCHANGED <<asked, requests, lock>>
    BY <1>4 DEF Start, ReapDone, LockTimeout, host, files
  <2> QED
    BY <1>0, <2>1, <2>2 DEF HandsOK, Posted
<1>5. ASSUME NEW w \in Workers, Acquire(w) PROVE HandsOK'
  <2>1. job'[w].pc = "list" /\ \A v \in Workers \ {w} : job'[v] = job[v]
    BY <1>0, <1>5, Goes DEF Acquire, PCs
  <2>2. UNCHANGED <<asked, requests>> /\ lock = Absent /\ lock' = w
    BY <1>5 DEF Acquire, host, files
  <2>3. \A v \in Workers : job[v].pc \notin Draining
    BY <1>0, <2>2, AbsentApart DEF HandsOK, AbsentApart
  <2> QED
    BY <1>0, <2>1, <2>2, <2>3 DEF HandsOK, Posted
<1>6. ASSUME NEW w \in Workers, List(w) PROVE HandsOK'
  <2>1. job'[w].pc = "next" /\ job'[w].todo = requests /\ \A v \in Workers \ {w} : job'[v] = job[v]
    BY <1>0, <1>6, Lists
  <2>2. UNCHANGED <<asked, requests, lock>> /\ lock = w
    BY <1>0, <1>6 DEF List, host, files, HandsOK
  <2> QED
    BY <1>0, <2>1, <2>2 DEF HandsOK, Posted
<1>7. ASSUME NEW w \in Workers, NEW i \in Ids, TakeRequest(w, i) PROVE HandsOK'
  <2>1. /\ job'[w].pc = "parse" /\ job'[w].id = i /\ job'[w].todo = job[w].todo \ {i}
        /\ \A v \in Workers \ {w} : job'[v] = job[v]
    BY <1>0, <1>7, Takes
  <2>2. UNCHANGED <<asked, requests, lock>> /\ lock = w /\ job[w].todo \subseteq requests /\ i \in job[w].todo
    BY <1>0, <1>7 DEF TakeRequest, host, files, HandsOK
  <2> QED
    BY <1>0, <2>1, <2>2 DEF HandsOK, Posted
<1>8. ASSUME NEW w \in Workers, Finish(w) PROVE HandsOK'
  <2>1. job'[w].pc = "off" /\ \A v \in Workers \ {w} : job'[v] = job[v]
    BY <1>0, <1>8, Stops DEF Finish
  <2>2. UNCHANGED <<asked, requests>> /\ lock = w
    BY <1>0, <1>8 DEF Finish, host, files, HandsOK
  <2>3. \A v \in Workers \ {w} : job[v].pc \notin Draining
    BY <1>0, <2>2 DEF HandsOK
  <2> QED
    BY <1>0, <2>1, <2>2, <2>3 DEF HandsOK, Posted
<1>9. ASSUME NEW w \in Workers, Crash(w) PROVE HandsOK'
  <2>1. job'[w].pc = "off" /\ \A v \in Workers \ {w} : job'[v] = job[v]
    BY <1>0, <1>9, Stops DEF Crash
  <2>2. UNCHANGED <<asked, requests>> /\ (lock # w => lock' = lock)
    BY <1>9 DEF Crash, host, files
  <2> QED
    BY <1>0, <2>1, <2>2 DEF HandsOK, Posted
<1>10. ASSUME NEW w \in Workers, Unlink(w) \/ UnlinkFails(w) PROVE HandsOK'
  <2>1. job'[w].pc = "next" /\ job'[w].todo = job[w].todo /\ \A v \in Workers \ {w} : job'[v] = job[v]
    BY <1>0, <1>10, GoesOn
  <2>2. /\ UNCHANGED <<asked, lock>> /\ lock = w
        /\ requests' = requests \/ requests' = requests \ {job[w].id}
        /\ job[w].todo \subseteq requests /\ job[w].id \notin job[w].todo
    BY <1>0, <1>10 DEF Unlink, UnlinkFails, host, files, HandsOK
  <2>3. \A v \in Workers \ {w} : job[v].pc \notin Draining
    BY <1>0, <2>2 DEF HandsOK
  <2> QED
    BY <1>0, <2>1, <2>2, <2>3 DEF HandsOK, Posted
<1>11. ASSUME NEW w \in Workers,
              StartFails(w) \/ (\E i \in Ids : ReapResponse(w, i)) \/ (\E n \in Nonces : ReapNonce(w, n))
       PROVE  UNCHANGED <<asked, requests, lock, job>>
  BY <1>0, <1>11, Runs DEF host
<1>12. ASSUME UserNext \/ Tick \/ UNCHANGED vars \/ (\E i \in Ids : Collect(i) \/ GiveUp(i))
       PROVE  UNCHANGED <<asked, requests, lock, job>>
  BY <1>12 DEF UserNext, Block, DisableSend, Tick, Collect, GiveUp, vars, host, files
<1> QED
  BY <1>1, <1>2, <1>3, <1>4, <1>5, <1>6, <1>7, <1>8, <1>9, <1>10, <1>11, <1>12 DEF Next, HostNext, RunNext

--------------------------------------------------------------------------------
(* Who moves *)

Serves(w) == Refuse(w) \/ Read(w) \/ Preview(w) \/ SendRefused(w) \/ SendClaim(w)

LEMMA WhoCounts ==
  ASSUME NEW w \in Workers, RequestNext(w)
  PROVE  /\ Serves(w) => Serve(w)
         /\ ~Serves(w) => served' = served
         /\ ~Approve(w) => approved' = approved
         /\ ~Osascript(w) => UNCHANGED <<delivered, carried>>
  BY DEF RequestNext, Serves, Refuse, Read, Preview, Mint, Issue, MintNoMore, MintFails, SendRefused,
         SendClaim, GatePasses, GateRefuses, Approve, Cancel, Osascript, WriteResponse, WriteFails,
         Unlink, UnlinkFails, ghosts

Working(w) == RequestNext(w) /\ ~Unlink(w) /\ ~UnlinkFails(w)

LEMMA WhoMoves ==
  ASSUME BridgeInv, [Next]_vars
  PROVE  \/ \E w \in Workers : Working(w)
         \/ /\ UNCHANGED ghosts
            /\ \E w \in Workers : /\ \A v \in Workers \ {w} : job'[v] = job[v]
                                  /\ job'[w].pc \notin Begun
         \/ UNCHANGED ghosts /\ job' = job
<1>0. BridgeTypeOK /\ UnlinkOK
  BY DEF BridgeInv
<1>1. ASSUME NEW w \in Workers, Start(w) \/ StartFails(w) \/ RunNext(w) \/ Crash(w) \/ Unlink(w) \/ UnlinkFails(w)
      PROVE  UNCHANGED ghosts
  BY <1>1 DEF Start, StartFails, RunNext, Crash, ReapResponse, ReapNonce, ReapDone, Acquire, LockTimeout, List,
              TakeRequest, Finish, Unlink, UnlinkFails
<1>2. ASSUME NEW w \in Workers, Start(w) \/ StartFails(w) \/ RunNext(w) \/ Crash(w) \/ Unlink(w) \/ UnlinkFails(w)
      PROVE  \/ job' = job
             \/ (\A v \in Workers \ {w} : job'[v] = job[v]) /\ job'[w].pc \notin Begun
  BY <1>0, <1>2, Runs DEF RunNext
<1>3. ASSUME HostNext \/ UserNext \/ Tick \/ UNCHANGED vars PROVE UNCHANGED ghosts /\ job' = job
  BY <1>3 DEF HostNext, UserNext, Post, Collect, GiveUp, Block, DisableSend, Tick, vars
<1> QED
  BY <1>1, <1>2, <1>3 DEF Next, Working

LEMMA OnlyPostsAsk ==
  ASSUME BridgeInv, [Next]_vars
  PROVE  asked' = asked \/ \E i \in Ids : Post(i)
<1>0. BridgeTypeOK /\ UnlinkOK
  BY DEF BridgeInv
<1>1. ASSUME NEW i \in Ids, Collect(i) \/ GiveUp(i) PROVE asked' = asked
  BY <1>1 DEF Collect, GiveUp
<1>2. UserNext \/ Tick \/ UNCHANGED vars => asked' = asked
  BY DEF UserNext, Block, DisableSend, Tick, vars, host
<1>3. (\E w \in Workers : Start(w) \/ StartFails(w) \/ RunNext(w) \/ RequestNext(w) \/ Crash(w)) => asked' = asked
  BY <1>0, HelperHost DEF host
<1> QED
  BY <1>1, <1>2, <1>3 DEF Next, HostNext

LEMMA AskedStays ==
  ASSUME BridgeInv, [Next]_vars
  PROVE  /\ \A i \in Posted : i \in Posted' /\ asked'[i] = asked[i]
         /\ \A w \in Workers : job[w].pc \in InHand /\ job'[w].id = job[w].id => Req(w)' = Req(w)
<1>0. BridgeTypeOK /\ HandsOK /\ asked \in [Ids -> Requests \cup {Absent}]
  BY DEF BridgeInv, BridgeTypeOK
<1>1. \A i \in Posted : i \in Posted' /\ asked'[i] = asked[i]
  <2>1. ASSUME NEW k \in Ids, Post(k) PROVE \A i \in Posted : i \in Posted' /\ asked'[i] = asked[i]
    <3>1. PICK r \in Requests : PostedAs(k, r)
      BY <1>0, <2>1, Posts
    <3>2. k \notin Posted /\ Posted' = Posted \cup {k}
      BY <1>0, <2>1, Posts
    <3>3. \A i \in Posted : i \in Ids /\ i # k
      BY <3>2 DEF Posted
    <3> QED
      BY <1>0, <3>1, <3>2, <3>3 DEF PostedAs
  <2>2. ASSUME asked' = asked PROVE \A i \in Posted : i \in Posted' /\ asked'[i] = asked[i]
    BY <2>2 DEF Posted
  <2> QED
    BY <2>1, <2>2, OnlyPostsAsk
<1>2. \A w \in Workers : job[w].pc \in InHand => job[w].id \in Posted
  BY <1>0 DEF HandsOK
<1> QED
  BY <1>1, <1>2 DEF Req

LEMMA OneAtWork ==
  ASSUME HandsOK, NEW v \in Workers, NEW w \in Workers, job[v].pc \in Draining, job[w].pc \in Draining
  PROVE  v = w
  BY DEF HandsOK

--------------------------------------------------------------------------------
(* From the gate to the message *)

LEMMA ChainStep ==
  ASSUME BridgeInv, [Next]_vars
  PROVE  ChainOK'
<1>0. BridgeTypeOK /\ HandsOK /\ AnswersOK /\ ChainOK /\ UnlinkOK /\ JobsTyped
  BY DEF BridgeInv, BridgeTypeOK, JobsTyped
<1>1. /\ Gate!AtMostOnePass'
      /\ PassesGrow
  <2>1. /\ Gate!LedgerTypeOK /\ Gate!AtMostOnePass
        /\ \A n \in Nonces : grant[n] # Absent => status[n] # "unknown"
    BY <1>0 DEF BridgeTypeOK, ChainOK, AnswersOK
  <2>2. Gate!Tick \/ UNCHANGED gate \/ \E n \in Nonces : GateStep(n)
    BY <1>0, GateSteps
  <2> QED
    BY <2>1, <2>2, GateStepOK
<1> USE DEF PassesGrow
<1>2. /\ passes \in [Nonces -> Nat] /\ passes' \in [Nonces -> Nat]
      /\ approved \in [Nonces -> Nat] /\ delivered \in [Nonces -> Nat]
  BY <1>0, BridgeTypeStep DEF BridgeTypeOK, Gate!LedgerTypeOK
<1>3. \A n \in Nonces : passes'[n] <= 1
  BY <1>1 DEF Gate!AtMostOnePass
<1>4. \A n \in Nonces : delivered[n] <= approved[n] /\ approved[n] <= passes[n]
  BY <1>0 DEF ChainOK, SendChain
(* no other send is under way                                               *)
<1>a. ASSUME NEW w \in Workers, job'[w].pc \notin {"confirm", "osascript"},
             \A v \in Workers \ {w} : job'[v] = job[v],
             UNCHANGED <<approved, delivered>>
      PROVE  ChainOK'
  <2>1. SendChain'
    BY <1>2, <1>3, <1>4, <1>1, <1>a DEF SendChain
  <2>2. \A v \in Workers : job'[v].pc \in {"confirm", "osascript"} =>
          /\ v # w /\ job'[v] = job[v] /\ Req(v)' = Req(v) /\ Req(v).nonce \in Nonces
    BY <1>0, <1>a, AskedStays, NonceInHand DEF InHand, Draining, Attempt
  <2>3. \A v \in Workers : /\ At(v, "confirm")' => approved'[Req(v)'.nonce] < passes'[Req(v)'.nonce]
                           /\ At(v, "osascript")' => delivered'[Req(v)'.nonce] < approved'[Req(v)'.nonce]
    <3>1. TAKE v \in Workers
    <3>2. /\ At(v, "confirm") => approved[Req(v).nonce] < passes[Req(v).nonce]
          /\ At(v, "osascript") => delivered[Req(v).nonce] < approved[Req(v).nonce]
      BY <1>0 DEF ChainOK
    <3> QED
      BY <1>1, <1>2, <1>a, <2>2, <3>2 DEF At
  <2> QED
    BY <1>1, <2>1, <2>3 DEF ChainOK
<1>5. ASSUME NEW w \in Workers, Working(w) PROVE ChainOK'
  <2>0. /\ Kept(w) /\ job[w].pc \in InHand
        /\ Serves(w) => Serve(w)
        /\ ~Approve(w) => approved' = approved
        /\ ~Osascript(w) => UNCHANGED <<delivered, carried>>
    BY <1>0, <1>5, Works, WhoCounts DEF Working
  <2>1. Req(w)' = Req(w)
    BY <2>0, AskedStays DEF Kept
  <2>2. \A v \in Workers \ {w} : job'[v] = job[v] /\ job[v].pc \notin Draining
    BY <1>0, <2>0, OneAtWork DEF Kept, InHand
  <2> DEFINE n == Req(w).nonce
  <2>3. ASSUME GatePasses(w) PROVE ChainOK'
    <3>1. n \in Nonces /\ job'[w].pc = "confirm" /\ passes' = [passes EXCEPT ![n] = @ + 1]
          /\ UNCHANGED <<approved, delivered>>
      BY <1>0, <2>3, NonceInHand, Goes DEF GatePasses, Gate!Pass, At, Attempt, PCs, Draining, ghosts
    <3>2. SendChain'
      BY <1>1, <1>2, <1>3, <1>4, <3>1 DEF SendChain
    <3>3. approved'[n] < passes'[n]
      BY <1>2, <1>4, <3>1
    <3> QED
      BY <1>1, <2>1, <2>2, <3>1, <3>2, <3>3 DEF ChainOK, At, Draining
  <2>4. ASSUME Approve(w) PROVE ChainOK'
    <3>1. n \in Nonces /\ job'[w].pc = "osascript" /\ approved' = [approved EXCEPT ![n] = @ + 1]
          /\ UNCHANGED <<passes, delivered>>
      BY <1>0, <2>4, NonceInHand, Goes DEF Approve, At, Attempt, PCs, Draining, gate
    <3>2. approved[n] < passes[n]
      BY <1>0, <2>4 DEF ChainOK, Approve
    <3>3. SendChain'
      BY <1>2, <1>3, <1>4, <3>1, <3>2 DEF SendChain
    <3>4. delivered'[n] < approved'[n]
      BY <1>2, <1>4, <3>1
    <3> QED
      BY <1>1, <2>1, <2>2, <3>1, <3>3, <3>4 DEF ChainOK, At, Draining
  <2>5. ASSUME Osascript(w) PROVE ChainOK'
    <3>1. n \in Nonces /\ UNCHANGED <<passes, approved>>
          /\ \/ delivered' = [delivered EXCEPT ![n] = @ + 1]
             \/ delivered' = delivered
      BY <1>0, <2>5, NonceInHand DEF Osascript, At, Attempt, gate
    <3>2. delivered[n] < approved[n]
      BY <1>0, <2>5 DEF ChainOK, Osascript
    <3>3. SendChain'
      BY <1>2, <1>3, <1>4, <3>1, <3>2 DEF SendChain
    <3>4. Respond(w, Success(Absent)) \/ Respond(w, Refusal)
      BY <2>5 DEF Osascript
    <3>5. job'[w].pc = "respond"
      BY <1>0, <3>4, Responds, AnswersTyped
    <3> QED
      BY <1>1, <2>2, <3>3, <3>5 DEF ChainOK, At, Draining
  <2>6. ASSUME ~GatePasses(w), ~Approve(w), ~Osascript(w) PROVE ChainOK'
    <3>1. job'[w].pc \notin {"confirm", "osascript"}
      <4> USE DEF PCs, Draining
      <4>1. CASE Refuse(w) \/ Read(w) \/ Preview(w) \/ SendRefused(w)
        BY <1>0, <4>1, Goes, Responds, AnswersTyped DEF Refuse, Read, Preview, SendRefused
      <4>2. CASE SendClaim(w) \/ WriteResponse(w)
        BY <1>0, <4>2, Goes DEF SendClaim, WriteResponse
      <4>3. CASE \E m \in Nonces : Mint(w, m)
        BY <1>0, <4>3, Mints
      <4>4. CASE Issue(w)
        <5>1. job[w].answer \in Responses \cup {Absent}
          BY <1>0 DEF BridgeTypeOK, Jobs
        <5> QED
          BY <1>0, <4>4, <5>1, Responds DEF Issue
      <4>5. CASE MintNoMore(w) \/ MintFails(w) \/ GateRefuses(w) \/ Cancel(w)
        BY <1>0, <4>5, Responds, AnswersTyped DEF MintNoMore, MintFails, GateRefuses, Cancel
      <4>6. CASE WriteFails(w)
        BY <1>0, <4>6, Retries
      <4> QED
        BY <1>5, <2>6, <4>1, <4>2, <4>3, <4>4, <4>5, <4>6 DEF Working, RequestNext
    <3> QED
      BY <1>a, <2>0, <2>2, <2>6, <3>1
  <2> QED
    BY <2>3, <2>4, <2>5, <2>6
<1>6. ASSUME NEW w \in Workers, \A v \in Workers \ {w} : job'[v] = job[v], job'[w].pc \notin Begun,
             UNCHANGED ghosts
      PROVE  ChainOK'
  BY <1>a, <1>6 DEF Begun, InHand, Draining, ghosts
<1>7. ASSUME job' = job, UNCHANGED ghosts PROVE ChainOK'
  <2>1. SendChain'
    BY <1>1, <1>2, <1>3, <1>4, <1>7 DEF SendChain, ghosts
  <2>2. \A v \in Workers : job[v].pc \in {"confirm", "osascript"} =>
          Req(v)' = Req(v) /\ Req(v).nonce \in Nonces
    BY <1>0, <1>7, AskedStays, NonceInHand DEF InHand, Draining, Attempt
  <2>3. \A v \in Workers : /\ At(v, "confirm")' => approved'[Req(v)'.nonce] < passes'[Req(v)'.nonce]
                           /\ At(v, "osascript")' => delivered'[Req(v)'.nonce] < approved'[Req(v)'.nonce]
    <3>1. TAKE v \in Workers
    <3>2. /\ At(v, "confirm") => approved[Req(v).nonce] < passes[Req(v).nonce]
          /\ At(v, "osascript") => delivered[Req(v).nonce] < approved[Req(v).nonce]
      BY <1>0 DEF ChainOK
    <3> QED
      BY <1>1, <1>2, <1>7, <2>2, <3>2 DEF At, ghosts
  <2> QED
    BY <1>1, <2>1, <2>3 DEF ChainOK
<1> QED
  BY <1>5, <1>6, <1>7, WhoMoves

--------------------------------------------------------------------------------
(* What a helper knows of the policy *)

LEMMA PolicyLoaded ==
  ASSUME BridgeInv, [Next]_vars, NEW w \in Workers, job'[w].pc # "off", job'[w] # job[w]
  PROVE  \/ Start(w) /\ job'[w].blocked = blocked
         \/ job[w].pc # "off" /\ job'[w].blocked = job[w].blocked
<1>0. /\ BridgeTypeOK /\ UnlinkOK /\ JobsTyped
      /\ requests \subseteq Ids /\ blocked \in BOOLEAN
  BY DEF BridgeInv, BridgeTypeOK, JobsTyped
<1>1. ASSUME HostNext \/ UserNext \/ Tick \/ UNCHANGED vars PROVE FALSE
  BY <1>1 DEF HostNext, UserNext, Post, Collect, GiveUp, Block, DisableSend, Tick, vars
<1>2. ASSUME NEW v \in Workers, Start(v) \/ StartFails(v) \/ RunNext(v) \/ RequestNext(v) \/ Crash(v)
      PROVE  v = w
  <2>1. Working(v) => Kept(v)
    BY <1>0, Works DEF Working
  <2>2. Working(v) \/ job' = job \/ \A u \in Workers \ {v} : job'[u] = job[u]
    BY <1>0, <1>2, Runs DEF RunNext, Working
  <2> QED
    BY <2>1, <2>2 DEF Kept
<1>3. ASSUME Start(w) PROVE job'[w].blocked = blocked
  BY <1>0, <1>3, Starts
<1>4. ASSUME StartFails(w) \/ RunNext(w) \/ RequestNext(w) \/ Crash(w)
      PROVE  job[w].pc # "off" /\ job'[w].blocked = job[w].blocked
  <2> USE DEF At, InHand, PCs, Draining
  <2>1. CASE Working(w)
    BY <1>0, <2>1, Works DEF Working, Kept
  <2>2. CASE Unlink(w) \/ UnlinkFails(w)
    BY <1>0, <2>2, GoesOn DEF Unlink, UnlinkFails
  <2>3. CASE ReapDone(w) \/ Acquire(w)
    BY <1>0, <2>3, Goes DEF ReapDone, Acquire
  <2>4. CASE List(w)
    BY <1>0, <2>4, Lists DEF List
  <2>5. CASE \E i \in Ids : TakeRequest(w, i)
    BY <1>0, <2>5, Takes DEF TakeRequest
  <2>6. ~(LockTimeout(w) \/ Finish(w) \/ Crash(w))
    BY <1>0, Stops DEF LockTimeout, Finish, Crash
  <2>7. ~(StartFails(w) \/ (\E i \in Ids : ReapResponse(w, i)) \/ (\E n \in Nonces : ReapNonce(w, n)))
    BY <1>0, Runs
  <2> QED
    BY <1>4, <2>1, <2>2, <2>3, <2>4, <2>5, <2>6, <2>7 DEF RunNext, Working
<1> QED
  BY <1>1, <1>2, <1>3, <1>4 DEF Next

LEMMA SendsUnderWay ==
  ASSUME BridgeInv, [Next]_vars, NEW w \in Workers, job'[w].pc \in Attempt
  PROVE  /\ SendClaim(w) \/ job[w].pc \in Attempt
         /\ job'[w].id = job[w].id
<1>0. BridgeTypeOK /\ UnlinkOK /\ JobsTyped /\ job'[w].pc \in Begun
  BY DEF BridgeInv, BridgeTypeOK, JobsTyped, Begun, InHand, Draining, Attempt
<1>1. ASSUME NEW v \in Workers, Working(v), v # w PROVE job'[w] = job[w]
  BY <1>0, <1>1, Works DEF Working, Kept
<1>2. ASSUME Working(w), ~SendClaim(w) PROVE job[w].pc \in Attempt /\ job'[w].id = job[w].id
  <2> USE DEF PCs, Draining, Attempt, At
  <2>0. job'[w].id = job[w].id
    BY <1>0, <1>2, Works DEF Working, Kept
  <2>1. CASE Refuse(w) \/ Read(w) \/ Preview(w) \/ SendRefused(w)
    BY <1>0, <2>1, Goes, Responds, AnswersTyped DEF Refuse, Read, Preview, SendRefused
  <2>2. CASE WriteResponse(w)
    BY <1>0, <2>2, Goes DEF WriteResponse
  <2>3. CASE \E m \in Nonces : Mint(w, m)
    BY <1>0, <2>3, Mints
  <2>4. CASE Issue(w)
    <3>1. job[w].answer \in Responses \cup {Absent}
      BY <1>0 DEF BridgeTypeOK, Jobs
    <3> QED
      BY <1>0, <2>4, <3>1, Responds DEF Issue
  <2>5. CASE MintNoMore(w) \/ MintFails(w)
    BY <1>0, <2>5, Responds, AnswersTyped DEF MintNoMore, MintFails
  <2>6. CASE WriteFails(w)
    BY <1>0, <2>6, Retries
  <2>7. CASE GatePasses(w) \/ GateRefuses(w) \/ Approve(w) \/ Cancel(w) \/ Osascript(w)
    BY <2>0, <2>7 DEF GatePasses, GateRefuses, Approve, Cancel, Osascript
  <2> QED
    BY <1>2, <2>1, <2>2, <2>3, <2>4, <2>5, <2>6, <2>7 DEF Working, RequestNext
<1>3. ASSUME Working(w) PROVE job'[w].id = job[w].id
  BY <1>0, <1>3, Works DEF Working, Kept
<1>4. ASSUME NEW v \in Workers, \A u \in Workers \ {v} : job'[u] = job[u], job'[v].pc \notin Begun
      PROVE  job'[w] = job[w]
  BY <1>0, <1>4
<1> QED
  BY <1>1, <1>2, <1>3, <1>4, WhoMoves

LEMMA PolicyStep ==
  ASSUME BridgeInv, [Next]_vars
  PROVE  PolicyOK'
<1>0. /\ BridgeTypeOK /\ HandsOK /\ AnswersOK /\ PolicyOK /\ UnlinkOK
      /\ BridgeTypeOK' /\ HandsOK'
  BY BridgeTypeStep, HandsStep DEF BridgeInv
<1>1. (sending' => sending) /\ (blocked => blocked')
  <2>1. ASSUME NEW w \in Workers, Start(w) \/ StartFails(w) \/ RunNext(w) \/ RequestNext(w) \/ Crash(w)
        PROVE  UNCHANGED policy
    BY <1>0, <2>1, HelperHost
  <2>2. HostNext \/ Tick \/ UNCHANGED vars => UNCHANGED policy
    BY DEF HostNext, Post, Collect, GiveUp, Tick, vars
  <2>3. UserNext => (sending' => sending) /\ (blocked => blocked')
    BY DEF UserNext, Block, DisableSend
  <2> QED
    BY <2>1, <2>2, <2>3 DEF Next, policy
<1>2. /\ sending' => \A i \in Posted' : asked'[i].sending
      /\ \A i \in Posted' : asked'[i].settled =>
            blocked' /\ \A w \in Workers : job'[w].pc = "off" \/ job'[w].blocked
  <2>1. /\ sending => \A i \in Posted : asked[i].sending
        /\ \A i \in Posted : asked[i].settled =>
              blocked /\ \A w \in Workers : job[w].pc = "off" \/ job[w].blocked
    BY <1>0 DEF PolicyOK, At
  <2>2. ASSUME NEW i \in Posted, asked[i].settled
        PROVE  blocked' /\ \A w \in Workers : job'[w].pc = "off" \/ job'[w].blocked
    BY <1>1, <2>1, <2>2, PolicyLoaded
  <2>3. CASE asked' = asked
    <3>1. Posted' = Posted
      BY <2>3 DEF Posted
    <3> QED
      BY <1>1, <2>1, <2>2, <2>3, <3>1
  <2>4. ASSUME NEW k \in Ids, Post(k)
        PROVE  /\ sending' => \A i \in Posted' : asked'[i].sending
               /\ \A i \in Posted' : asked'[i].settled =>
                     blocked' /\ \A w \in Workers : job'[w].pc = "off" \/ job'[w].blocked
    <3>1. PICK r \in Requests : PostedAs(k, r)
      BY <1>0, <2>4, Posts
    <3>2. Posted' = Posted \cup {k} /\ k \notin Posted
      BY <1>0, <2>4, Posts
    <3>3. asked'[k] = r /\ r.sending = sending /\ (r.settled => blocked /\ \A w \in Workers : job[w].pc = "off")
      BY <1>0, <3>1, OffTyped DEF PostedAs, BridgeTypeOK
    <3>4. job' = job /\ \A i \in Posted : asked'[i] = asked[i]
      BY <2>4, AskedStays DEF Post
    <3> QED
      BY <1>1, <2>1, <2>2, <3>2, <3>3, <3>4
  <2> QED
    BY <2>3, <2>4, OnlyPostsAsk
<1>3. \A w \in Workers : job[w].pc \in InHand => job[w].id \in Posted /\ Req(w) = asked[job[w].id]
  BY <1>0 DEF HandsOK, Req
<1>4. ASSUME NEW w \in Workers, job'[w].pc \in Attempt
      PROVE  Req(w)'.sending /\ ~(Req(w)'.settled /\ Req(w)'.payload \in Guarded)
  <2>1. CASE SendClaim(w) /\ job'[w].id = job[w].id
    <3>1. /\ job[w].pc = "parse" /\ sending
          /\ ~(job[w].blocked /\ Req(w).payload \in Guarded)
      BY <2>1 DEF SendClaim, At
    <3>2. Req(w)' = Req(w) /\ job[w].id \in Posted /\ Req(w) = asked[job[w].id]
      BY <1>3, <2>1, <3>1, AskedStays DEF InHand, Draining
    <3>3. Req(w).sending /\ (Req(w).settled => job[w].blocked)
      BY <1>0, <3>1, <3>2 DEF PolicyOK, At
    <3> QED
      BY <3>1, <3>2, <3>3
  <2>2. CASE job[w].pc \in Attempt /\ job'[w].id = job[w].id
    <3>1. Req(w)' = Req(w)
      BY <2>2, AskedStays DEF Attempt, InHand, Draining
    <3> QED
      BY <1>0, <2>2, <3>1 DEF PolicyOK
  <2> QED
    BY <1>4, <2>1, <2>2, SendsUnderWay
<1>5. carried' = carried \/ \E w \in Workers : At(w, "osascript") /\ carried' = carried \cup {job[w].id}
  <2>1. ASSUME NEW w \in Workers, RequestNext(w)
        PROVE  carried' = carried \/ (At(w, "osascript") /\ carried' = carried \cup {job[w].id})
    BY <2>1, WhoCounts DEF Osascript
  <2> QED
    BY <2>1, WhoMoves DEF Working, ghosts
<1>6. \A i \in carried' : i \in Posted /\ asked[i].sending /\ ~(asked[i].settled /\ asked[i].payload \in Guarded)
  <2>1. \A i \in carried : i \in Posted /\ asked[i].sending /\ ~(asked[i].settled /\ asked[i].payload \in Guarded)
    BY <1>0 DEF PolicyOK, DisabledMeansUnsent, BlockedBeforeRunMeansUnsent
  <2>2. ASSUME NEW w \in Workers, At(w, "osascript")
        PROVE  /\ job[w].id \in Posted /\ asked[job[w].id].sending
               /\ ~(asked[job[w].id].settled /\ asked[job[w].id].payload \in Guarded)
    BY <1>0, <1>3, <2>2 DEF PolicyOK, At, Attempt, InHand, Draining
  <2> QED
    BY <1>5, <2>1, <2>2
<1>7. carried' \subseteq Posted' /\ DisabledMeansUnsent' /\ BlockedBeforeRunMeansUnsent'
  BY <1>6, AskedStays DEF DisabledMeansUnsent, BlockedBeforeRunMeansUnsent
<1> QED
  BY <1>2, <1>4, <1>7 DEF PolicyOK, At

--------------------------------------------------------------------------------
(* Requests are served once per fault, and go when they are answered *)

LEMMA FaultsGrow ==
  ASSUME BridgeTypeOK, [Next]_vars
  PROVE  /\ crashes \in Nat /\ errors \in Nat
         /\ crashes' \in {crashes, crashes + 1} /\ errors' \in {errors, errors + 1}
         /\ \A w \in Workers : /\ Crash(w) => crashes' = crashes + 1
                               /\ WriteFails(w) \/ UnlinkFails(w) => errors' = errors + 1
<1> USE DEF faults
<1>1. crashes \in Nat /\ errors \in Nat
  BY BridgeConstants DEF BridgeConstants, BridgeTypeOK
<1>2. ASSUME NEW w \in Workers, RequestNext(w)
      PROVE  crashes' \in {crashes, crashes + 1} /\ errors' \in {errors, errors + 1}
  BY <1>2 DEF RequestNext, Refuse, Read, Preview, Mint, Issue, MintNoMore, MintFails, SendRefused,
              SendClaim, GatePasses, GateRefuses, Approve, Cancel, Osascript, WriteResponse,
              WriteFails, Unlink, UnlinkFails
<1>3. ASSUME NEW w \in Workers, Start(w) \/ StartFails(w) \/ RunNext(w) \/ Crash(w)
      PROVE  crashes' \in {crashes, crashes + 1} /\ errors' \in {errors, errors + 1}
  BY <1>3 DEF RunNext, Start, StartFails, Crash, ReapResponse, ReapNonce, ReapDone, Acquire,
              LockTimeout, List, TakeRequest, Finish
<1>4. ASSUME HostNext \/ UserNext \/ Tick \/ UNCHANGED vars
      PROVE  crashes' = crashes /\ errors' = errors
  BY <1>4 DEF HostNext, UserNext, Post, Collect, GiveUp, Block, DisableSend, Tick, vars
<1>5. \A w \in Workers : /\ Crash(w) => crashes' = crashes + 1
                         /\ WriteFails(w) \/ UnlinkFails(w) => errors' = errors + 1
  BY DEF Crash, WriteFails, UnlinkFails
<1> QED
  BY <1>1, <1>2, <1>3, <1>4, <1>5 DEF Next

Faults == crashes + errors
Paid(i) == served[i] <= Faults
Least(i) == served[i] <= 1 + Faults
Held(i) == \E w \in Workers : job[w].pc \in Begun /\ job[w].id = i

ServedAs(i) ==
  /\ Least(i)
  /\ i \notin Posted => served[i] = 0
  /\ i \in requests => Paid(i) \/ Held(i)

LEMMA ServedMeans ==
  ASSUME crashes \in Nat, errors \in Nat, served \in [Ids -> Nat], requests \subseteq Ids
  PROVE  ServedOK <=> \A i \in Ids : ServedAs(i)
<1>1. ASSUME NEW i \in Ids PROVE Least(i) <=> served[i] <= 1 + crashes + errors
  BY <1>1 DEF Least, Faults
<1>2. ASSUME NEW i \in Ids PROVE Paid(i) <=> served[i] <= crashes + errors
  BY <1>2 DEF Paid, Faults
<1>3. ServedOncePerFault <=> \A i \in Ids : Least(i)
  BY <1>1 DEF ServedOncePerFault
<1> QED
  BY <1>2, <1>3 DEF ServedOK, ServedAs, Held

(* What a step may do to one id: serve it, pay for a fault, or neither.     *)
LEMMA PaidStep ==
  ASSUME Faults \in Nat, Faults' \in Nat, Faults <= Faults',
         NEW i \in Ids, served[i] \in Nat, served'[i] \in Nat
  PROVE  /\ served'[i] = served[i] => (Paid(i) => Paid(i)') /\ (Least(i) => Least(i)')
         /\ served'[i] = served[i] + 1 /\ Paid(i) => Least(i)'
         /\ served'[i] = served[i] /\ Faults' = Faults + 1 /\ Least(i) => Paid(i)'
         /\ Paid(i) => Least(i)
         /\ served[i] = 0 => Paid(i)
<1>1. served'[i] = served[i] => (Paid(i) => Paid(i)') /\ (Least(i) => Least(i)')
  BY DEF Paid, Least
<1>2. served'[i] = served[i] + 1 /\ Paid(i) => Least(i)'
  BY DEF Paid, Least
<1>3. served'[i] = served[i] /\ Faults' = Faults + 1 /\ Least(i) => Paid(i)'
  BY DEF Paid, Least
<1>4. (Paid(i) => Least(i)) /\ (served[i] = 0 => Paid(i))
  BY DEF Paid, Least
<1> QED
  BY <1>1, <1>2, <1>3, <1>4

LEMMA ServedStep ==
  ASSUME BridgeInv, [Next]_vars
  PROVE  ServedOK'
<1>0. /\ BridgeTypeOK /\ HandsOK /\ ServedOK /\ UnlinkOK /\ JobsTyped
      /\ served \in [Ids -> Nat] /\ served' \in [Ids -> Nat]
      /\ requests \subseteq Ids /\ requests' \subseteq Ids
  BY BridgeTypeStep DEF BridgeInv, BridgeTypeOK, JobsTyped
<1>1. Faults \in Nat /\ Faults' \in Nat /\ Faults <= Faults'
  BY <1>0, FaultsGrow DEF Faults
<1>2. \A i \in Ids : ServedAs(i)
  BY <1>0, FaultsGrow, ServedMeans
<1>3. Posted \subseteq Posted'
  BY AskedStays
<1>4. ASSUME NEW i \in Ids, served'[i] = served[i],
             i \in requests' => \/ i \in requests /\ (Held(i) => Held(i)')
                                \/ served[i] = 0 \/ Held(i)' \/ Faults' = Faults + 1
      PROVE  ServedAs(i)'
  <2>1. Least(i) /\ Least(i)'
    BY <1>0, <1>1, <1>2, <1>4, PaidStep DEF ServedAs
  <2>2. i \notin Posted' => served'[i] = 0
    BY <1>2, <1>3, <1>4 DEF ServedAs
  <2>3. i \in requests' => Paid(i)' \/ Held(i)'
    <3>1. CASE Faults' = Faults + 1 \/ served[i] = 0
      BY <1>0, <1>1, <1>4, <2>1, <3>1, PaidStep
    <3>2. CASE i \in requests /\ (Held(i) => Held(i)')
      BY <1>0, <1>1, <1>2, <1>4, <3>2, PaidStep DEF ServedAs
    <3> QED
      BY <1>4, <3>1, <3>2
  <2> QED
    BY <2>1, <2>2, <2>3 DEF ServedAs
<1>5. ASSUME NEW w \in Workers, Working(w), NEW i \in Ids
      PROVE  ServedAs(i)'
  <2>1. /\ job[w].pc \in InHand /\ job'[w].pc \in Begun /\ job'[w].id = job[w].id
        /\ requests' = requests
    BY <1>0, <1>5, Works DEF Working, Kept
  <2>2. Held(job[w].id)' /\ job[w].id \in requests /\ job[w].id \in Posted
    BY <1>0, <2>1 DEF HandsOK, Posted, Held
  <2>3. \A v \in Workers : job[v].pc \in Begun => v = w
    BY <1>0, <2>1, OneAtWork DEF Begun, InHand
  <2>4. i # job[w].id => ~Held(i)
    BY <2>3 DEF Held
  <2>5. CASE Serves(w) /\ i = job[w].id
    <3>1. job[w].pc = "parse" /\ served' = [served EXCEPT ![job[w].id] = @ + 1]
      BY <1>5, <2>5, WhoCounts DEF Working, Serves, Serve, Refuse, Read, Preview, SendRefused, SendClaim, At
    <3>2. ~Held(i)
      BY <2>3, <2>5, <3>1 DEF Begun, Held
    <3>5. Paid(i)
      BY <1>2, <2>2, <2>5, <3>2 DEF ServedAs
    <3>6. served'[i] = served[i] + 1
      BY <1>0, <2>5, <3>1
    <3>3. Paid(i) /\ served'[i] = served[i] + 1 /\ i \in Posted' /\ Held(i)'
      BY <1>3, <2>1, <2>2, <2>5, <3>5, <3>6 DEF Held
    <3>4. Least(i)'
      BY <1>0, <1>1, <3>3, PaidStep
    <3> QED
      BY <3>3, <3>4 DEF ServedAs
  <2>6. CASE Serves(w) /\ i # job[w].id
    <3>1. served' = [served EXCEPT ![job[w].id] = @ + 1]
      BY <2>6 DEF Serves, Serve, Refuse, Read, Preview, SendRefused, SendClaim
    <3>2. served'[i] = served[i]
      BY <1>0, <2>6, <3>1
    <3> QED
      BY <1>4, <2>1, <2>4, <2>6, <3>2
  <2>7. CASE ~Serves(w)
    <3>1. served' = served
      BY <1>5, <2>7, WhoCounts DEF Working
    <3> QED
      BY <1>4, <2>1, <2>2, <2>4, <3>1
  <2> QED
    BY <2>5, <2>6, <2>7
<1>6. ASSUME NEW w \in Workers, Crash(w) \/ UnlinkFails(w)
      PROVE  UNCHANGED ghosts /\ Faults' = Faults + 1
  <2>1. UNCHANGED ghosts
    BY <1>6 DEF Crash, UnlinkFails
  <2>2. crashes \in Nat /\ errors \in Nat
    BY <1>0, FaultsGrow
  <2>3. CASE Crash(w)
    <3>1. crashes' = crashes + 1 /\ errors' = errors
      BY <2>3 DEF Crash
    <3> QED
      BY <2>1, <2>2, <3>1 DEF Faults
  <2>4. CASE UnlinkFails(w)
    <3>1. errors' = errors + 1 /\ crashes' = crashes
      BY <2>4 DEF UnlinkFails
    <3> QED
      BY <2>1, <2>2, <3>1 DEF Faults
  <2> QED
    BY <1>6, <2>3, <2>4
<1>7. ASSUME NEW w \in Workers, Unlink(w)
      PROVE  /\ UNCHANGED ghosts /\ requests' \subseteq requests
             /\ \A i \in requests' : Held(i) => Held(i)'
  <2>1. UNCHANGED ghosts /\ requests' = requests \ {job[w].id} /\ job[w].pc = "unlink"
    BY <1>7 DEF Unlink, At
  <2>2. \A v \in Workers : job[v].pc \in Begun => v = w
    BY <1>0, <2>1, OneAtWork DEF Begun, InHand, Draining
  <2> QED
    BY <2>1, <2>2 DEF Held
<1>8. ASSUME NEW w \in Workers, Start(w) \/ StartFails(w) \/ RunNext(w)
      PROVE  /\ UNCHANGED ghosts /\ requests' = requests
             /\ \A i \in requests' : Held(i) => Held(i)'
  <2>1. UNCHANGED ghosts /\ requests' = requests
    BY <1>8 DEF Start, StartFails, RunNext, ReapResponse, ReapNonce, ReapDone, Acquire, LockTimeout, List,
                TakeRequest, Finish, files
  <2>2. job' = job \/ (job[w].pc \notin Begun /\ \A v \in Workers \ {w} : job'[v] = job[v])
    <3>1. CASE StartFails(w) \/ (\E i \in Ids : ReapResponse(w, i)) \/ (\E n \in Nonces : ReapNonce(w, n))
      BY <1>0, <3>1, Runs
    <3>2. CASE Start(w) \/ ReapDone(w) \/ Acquire(w) \/ LockTimeout(w) \/ List(w)
                 \/ (\E i \in Ids : TakeRequest(w, i)) \/ Finish(w)
      <4>1. job[w].pc \notin Begun
        BY <3>2 DEF Start, ReapDone, Acquire, LockTimeout, List, TakeRequest, Finish, At, Begun, InHand, Draining
      <4> QED
        BY <1>0, <3>2, <4>1, Runs
    <3> QED
      BY <1>8, <3>1, <3>2 DEF RunNext
  <2> QED
    BY <2>1, <2>2 DEF Held
<1>9. ASSUME NEW i \in Ids, Post(i)
      PROVE  UNCHANGED ghosts /\ job' = job /\ \A k \in requests' : k \in requests \/ served[k] = 0
  <2>1. UNCHANGED ghosts /\ job' = job /\ requests' = requests \cup {i} /\ asked[i] = Absent
    BY <1>9 DEF Post
  <2>2. served[i] = 0
    BY <1>2, <2>1 DEF Posted, ServedAs
  <2> QED
    BY <2>1, <2>2
<1>10. ASSUME UserNext \/ Tick \/ UNCHANGED vars \/ (\E i \in Ids : Collect(i) \/ GiveUp(i))
       PROVE  UNCHANGED ghosts /\ job' = job /\ requests' = requests
  BY <1>10 DEF UserNext, Block, DisableSend, Tick, Collect, GiveUp, vars, files
<1>11. ASSUME job' = job, NEW i \in Ids, Held(i) PROVE Held(i)'
  BY <1>11 DEF Held
<1>12. \A i \in Ids : ServedAs(i)'
  <2>1. ASSUME \E w \in Workers : Working(w) PROVE \A i \in Ids : ServedAs(i)'
    BY <1>5, <2>1
  <2>2. ASSUME UNCHANGED ghosts, Faults' = Faults + 1 PROVE \A i \in Ids : ServedAs(i)'
    BY <1>4, <2>2 DEF ghosts
  <2>3. ASSUME UNCHANGED ghosts, \A i \in requests' : i \in requests \/ served[i] = 0,
               \A i \in requests' : Held(i) => Held(i)'
        PROVE  \A i \in Ids : ServedAs(i)'
    BY <1>4, <2>3 DEF ghosts
  <2>4. CASE \E w \in Workers : Unlink(w) \/ Start(w) \/ StartFails(w) \/ RunNext(w)
    BY <1>7, <1>8, <2>3, <2>4
  <2>5. CASE HostNext \/ UserNext \/ Tick \/ UNCHANGED vars
    BY <1>0, <1>9, <1>10, <1>11, <2>3, <2>5 DEF HostNext
  <2> QED
    BY <1>6, <2>1, <2>2, <2>4, <2>5 DEF Next, Working
<1>13. crashes' \in Nat /\ errors' \in Nat
  BY <1>0, FaultsGrow
<1>14. ASSUME NEW i \in Ids
       PROVE  /\ Least(i)' <=> served'[i] <= 1 + crashes' + errors'
              /\ Paid(i)' <=> served'[i] <= crashes' + errors'
  <2>1. Least(i)' <=> served'[i] <= 1 + crashes' + errors'
    BY <1>13 DEF Least, Faults
  <2> QED
    BY <2>1 DEF Paid, Faults
<1>15. ServedOncePerFault'
  BY <1>12, <1>14 DEF ServedOncePerFault, ServedAs
<1> QED
  BY <1>0, <1>12, <1>14, <1>15 DEF ServedOK, ServedAs, Held

LEMMA UnlinkStep ==
  ASSUME BridgeInv, [Next]_vars
  PROVE  UnlinkOK'
<1>0. /\ BridgeTypeOK /\ HandsOK /\ AnswersOK /\ UnlinkOK /\ JobsTyped
      /\ responses \in [Ids -> Responses \cup {Absent}]
      /\ answers \in [Ids -> Responses \cup {Absent}]
  BY DEF BridgeInv, BridgeTypeOK, JobsTyped
<1>1. /\ crashes \in Nat /\ errors \in Nat /\ errors' \in {errors, errors + 1}
  BY <1>0, FaultsGrow
<1> USE DEF At
<1>2. \A w \in Workers : job[w].pc \in InHand => job[w].id \in Ids
  BY <1>0 DEF HandsOK, Posted
(* an answer that was there stays, or is collected                          *)
<1>3. ASSUME NEW v \in Workers, job[v].pc = "unlink", job'[v] = job[v]
      PROVE  responses'[job[v].id] # Absent \/ answers'[job[v].id] # Absent \/ errors' >= 2
  <2>0. job[v].id \in Ids
    BY <1>2, <1>3 DEF InHand, Draining
  <2>1. responses[job[v].id] # Absent \/ answers[job[v].id] # Absent \/ errors >= 2
    BY <1>0, <1>3 DEF UnlinkOK
  <2>2. ASSUME NEW i \in Ids, Collect(i)
        PROVE  responses'[job[v].id] # Absent \/ answers'[job[v].id] # Absent \/ errors' >= 2
    BY <1>0, <1>1, <2>0, <2>1, <2>2 DEF Collect
  <2>3. ASSUME NEW w \in Workers, NEW i \in Ids, ReapResponse(w, i)
        PROVE  responses'[job[v].id] # Absent \/ answers'[job[v].id] # Absent \/ errors' >= 2
    BY <1>0, <1>1, <1>3, <2>0, <2>1, <2>3 DEF ReapResponse, host
  <2>4. ASSUME NEW w \in Workers, WriteResponse(w)
        PROVE  responses'[job[v].id] # Absent \/ answers'[job[v].id] # Absent \/ errors' >= 2
    <3>1. v = w
      BY <1>0, <1>3, <2>4, OneAtWork DEF WriteResponse, Draining
    <3> QED
      BY <1>3, <2>4, <3>1 DEF WriteResponse
  <2>5. ASSUME UNCHANGED <<responses, answers>>
        PROVE  responses'[job[v].id] # Absent \/ answers'[job[v].id] # Absent \/ errors' >= 2
    BY <1>1, <2>1, <2>5
  <2>6. ASSUME NEW w \in Workers, RequestNext(w), ~WriteResponse(w) PROVE UNCHANGED <<responses, answers>>
    BY <2>6 DEF RequestNext, Refuse, Read, Preview, Mint, Issue, MintNoMore, MintFails, SendRefused,
                SendClaim, GatePasses, GateRefuses, Approve, Cancel, Osascript, WriteFails, Unlink,
                UnlinkFails, files, host
  <2>7. ASSUME NEW w \in Workers, Start(w) \/ StartFails(w) \/ RunNext(w) \/ Crash(w),
               \A i \in Ids : ~ReapResponse(w, i)
        PROVE  UNCHANGED <<responses, answers>>
    BY <2>7 DEF RunNext, Start, StartFails, ReapNonce, ReapDone, Acquire, LockTimeout, List,
                TakeRequest, Finish, Crash, files, host
  <2>8. ASSUME UserNext \/ Tick \/ UNCHANGED vars \/ (\E i \in Ids : Post(i) \/ GiveUp(i))
        PROVE  UNCHANGED <<responses, answers>>
    BY <2>8 DEF UserNext, Post, GiveUp, Block, DisableSend, Tick, vars, files, host
  <2> QED
    BY <2>2, <2>3, <2>4, <2>5, <2>6, <2>7, <2>8 DEF Next, HostNext
<1>4. ASSUME NEW v \in Workers, job[v].pc = "respond", job'[v] = job[v]
      PROVE  job[v].tries # 0 /\ (job[v].tries = 1 => errors' > 0)
  BY <1>0, <1>1, <1>4 DEF UnlinkOK
<1>5. ASSUME NEW w \in Workers, Working(w)
      PROVE  /\ job'[w].pc = "respond" => job'[w].tries # 0 /\ (job'[w].tries = 1 => errors' > 0)
             /\ job'[w].pc = "unlink" =>
                   responses'[job'[w].id] # Absent \/ answers'[job'[w].id] # Absent \/ errors' >= 2
  <2> USE DEF PCs, Draining
  <2>1. CASE Refuse(w) \/ Read(w) \/ Preview(w) \/ SendRefused(w)
    BY <1>0, <2>1, Goes, Responds, AnswersTyped DEF Refuse, Read, Preview, SendRefused
  <2>2. CASE SendClaim(w) \/ GatePasses(w) \/ Approve(w)
    BY <1>0, <2>2, Goes DEF SendClaim, GatePasses, Approve
  <2>3. CASE \E m \in Nonces : Mint(w, m)
    BY <1>0, <2>3, Mints
  <2>4. CASE Issue(w)
    <3>1. job[w].answer \in Responses \cup {Absent}
      BY <1>0 DEF BridgeTypeOK, Jobs
    <3> QED
      BY <1>0, <2>4, <3>1, Responds DEF Issue
  <2>5. CASE MintNoMore(w) \/ MintFails(w) \/ GateRefuses(w) \/ Cancel(w)
    BY <1>0, <2>5, Responds, AnswersTyped DEF MintNoMore, MintFails, GateRefuses, Cancel
  <2>6. CASE Osascript(w)
    <3>1. Respond(w, Success(Absent)) \/ Respond(w, Refusal)
      BY <2>6 DEF Osascript
    <3> QED
      BY <1>0, <3>1, Responds, AnswersTyped
  <2>7. CASE WriteResponse(w)
    <3>1. job'[w].pc = "unlink" /\ job'[w].id = job[w].id /\ job[w].id \in Ids
      BY <1>0, <1>2, <2>7, Goes DEF WriteResponse, InHand
    <3>2. responses' = [responses EXCEPT ![job[w].id] = job[w].answer] /\ job[w].answer # Absent
      BY <1>0, <2>7 DEF WriteResponse, AnswersOK
    <3> QED
      BY <1>0, <3>1, <3>2
  <2>8. CASE WriteFails(w)
    <3>1. errors' = errors + 1 /\ (job[w].tries = 1 => errors > 0)
      BY <1>0, <2>8, FaultsGrow DEF WriteFails, UnlinkOK
    <3> QED
      BY <1>0, <1>1, <2>8, <3>1, Retries
  <2> QED
    BY <1>5, <2>1, <2>2, <2>3, <2>4, <2>5, <2>6, <2>7, <2>8 DEF Working, RequestNext
<1>6. \A v \in Workers : \/ job'[v] = job[v] \/ Working(v)
                         \/ job'[v].pc \notin Begun
  <2>1. ASSUME NEW w \in Workers, Working(w) PROVE \A v \in Workers \ {w} : job'[v] = job[v]
    BY <1>0, <2>1, Works DEF Working, Kept
  <2> QED
    BY <2>1, WhoMoves
<1> QED
  BY <1>3, <1>4, <1>5, <1>6 DEF UnlinkOK, Begun, InHand, Draining

--------------------------------------------------------------------------------
(* Answers are true *)

TrueNext(i, r) ==
  /\ i \in Posted'
  /\ r # Absent /\ r.ok =>
       \/ asked'[i].kind = "send" /\ i \in carried'
       \/ /\ asked'[i].kind = "send_preview"
          /\ r.nonce # Absent /\ grant'[r.nonce] # Absent
          /\ grant'[r.nonce].payload = asked'[i].payload
       \/ asked'[i].kind = "read"
  /\ r.nonce # Absent => r.ok /\ asked'[i].kind = "send_preview"

LEMMA TrueNextMeans ==
  ASSUME NEW i \in Ids
  PROVE  /\ TrueNext(i, responses'[i]) => Truthful(i, responses[i])'
         /\ TrueNext(i, answers'[i]) => Truthful(i, answers[i])'
  BY DEF TrueNext, Truthful, TrueWhenOk

LEMMA HandTrueNext ==
  ASSUME NEW w \in Workers, TrueNext(job'[w].id, job'[w].answer)
  PROVE  Truthful(job[w].id, job[w].answer)'
  BY DEF TrueNext, Truthful, TrueWhenOk

LEMMA TruthMeans ==
  ASSUME NEW i, NEW r, Truthful(i, r)
  PROVE  /\ i \in Posted
         /\ r # Absent /\ r.ok =>
              \/ asked[i].kind = "send" /\ i \in carried
              \/ /\ asked[i].kind = "send_preview"
                 /\ r.nonce # Absent /\ grant[r.nonce] # Absent
                 /\ grant[r.nonce].payload = asked[i].payload
              \/ asked[i].kind = "read"
         /\ r.nonce # Absent => r.ok /\ asked[i].kind = "send_preview"
  BY DEF Truthful, TrueWhenOk

LEMMA TruthStays ==
  ASSUME BridgeInv, [Next]_vars, GrantsStay,
         NEW i \in Ids, NEW r \in Responses, Truthful(i, r)
  PROVE  TrueNext(i, r)
<1>1. carried \subseteq carried'
  <2>1. ASSUME NEW w \in Workers, RequestNext(w) PROVE carried \subseteq carried'
    BY <2>1, WhoCounts DEF Osascript
  <2> QED
    BY <2>1, WhoMoves DEF Working, ghosts
<1>2. i \in Posted /\ i \in Posted' /\ asked'[i] = asked[i]
  BY TruthMeans, AskedStays
<1>3. r.nonce # Absent => r.nonce \in Nonces
  BY DEF Responses
<1>4. r.nonce # Absent /\ grant[r.nonce] # Absent => grant'[r.nonce] = grant[r.nonce]
  <2>1. \A n \in Nonces : grant[n] # Absent => grant'[n] = grant[n]
    BY DEF GrantsStay
  <2> QED
    BY <1>3, <2>1
<1> QED
  BY <1>1, <1>2, <1>4, TruthMeans DEF TrueNext

LEMMA AnswersStay ==
  ASSUME BridgeInv, [Next]_vars
  PROVE  /\ \A i \in Ids : answers[i] # Absent => answers'[i] = answers[i]
         /\ \A n \in Nonces : Previewed(n) => \E i \in Ids : answers'[i] = Success(n) /\ asked'[i].kind = "send_preview"
<1>0. BridgeTypeOK /\ UnlinkOK /\ AnswersOK /\ answers \in [Ids -> Responses \cup {Absent}]
  BY DEF BridgeInv, BridgeTypeOK
<1>1. answers' = answers \/ \E i \in Ids : Collect(i)
  <2>1. (\E w \in Workers : Start(w) \/ StartFails(w) \/ RunNext(w) \/ RequestNext(w) \/ Crash(w)) => answers' = answers
    BY <1>0, HelperHost DEF host
  <2>2. UserNext \/ Tick \/ UNCHANGED vars \/ (\E i \in Ids : Post(i) \/ GiveUp(i)) => answers' = answers
    BY DEF UserNext, Block, DisableSend, Tick, Post, GiveUp, vars, host
  <2> QED
    BY <2>1, <2>2 DEF Next, HostNext
<1>2. \A i \in Ids : answers[i] # Absent => answers'[i] = answers[i]
  <2>1. ASSUME NEW k \in Ids, Collect(k) PROVE \A i \in Ids : answers[i] # Absent => answers'[i] = answers[i]
    <3>1. k \in waiting /\ answers' = [answers EXCEPT ![k] = responses[k]]
      BY <2>1 DEF Collect
    <3>2. answers[k] = Absent
      BY <1>0, <3>1 DEF AnswersOK
    <3> QED
      BY <1>0, <3>1, <3>2
  <2> QED
    BY <1>1, <2>1
<1>3. ASSUME NEW n \in Nonces, Previewed(n)
      PROVE  \E i \in Ids : answers'[i] = Success(n) /\ asked'[i].kind = "send_preview"
  <2>1. PICK i \in Ids : answers[i] = Success(n) /\ asked[i].kind = "send_preview"
    BY <1>3 DEF Previewed
  <2>2. answers[i] # Absent
    BY <2>1, AnswersTyped, AbsentApart DEF AbsentApart
  <2>3. i \in Posted
    BY <1>0, <2>2 DEF AnswersOK, Truthful
  <2> QED
    BY <1>2, <2>1, <2>2, <2>3, AskedStays
<1> QED
  BY <1>2, <1>3

LEMMA NonceGranted ==
  ASSUME BridgeTypeOK, AnswersOK, NEW i \in Posted, asked[i].nonce # Absent
  PROVE  asked[i].nonce \in Nonces /\ grant[asked[i].nonce] # Absent
<1> DEFINE n == asked[i].nonce
<1>1. i \in Ids /\ asked[i] \in Requests
  BY DEF BridgeTypeOK, Posted
<1>2. n \in Nonces
  BY <1>1 DEF Requests
<1>3. PICK k \in Ids : answers[k] = Success(n) /\ asked[k].kind = "send_preview"
  BY <1>1 DEF AnswersOK, Previewed
<1>4. answers[k] # Absent /\ answers[k].ok /\ answers[k].nonce = n
  BY <1>2, <1>3, AnswersTyped, AbsentApart DEF AbsentApart
<1>5. Truthful(k, answers[k])
  BY <1>4 DEF AnswersOK
<1> QED
  BY <1>2, <1>3, <1>4, <1>5, TruthMeans

(* A nonce that the host presents was read in the answer to a preview.      *)
LEMMA KnownPreviewed ==
  ASSUME BridgeTypeOK, AnswersOK, NEW n \in Known, n # Absent
  PROVE  n \in Nonces /\ Previewed(n)
<1>1. PICK i \in Ids : answers[i] # Absent /\ n = answers[i].nonce
  BY DEF Known
<1>2. answers[i] \in Responses /\ Truthful(i, answers[i])
  BY <1>1 DEF BridgeTypeOK, AnswersOK
<1>3. answers[i].ok = TRUE /\ asked[i].kind = "send_preview"
  BY <1>1, <1>2, TruthMeans DEF Responses
<1>4. answers[i] = Success(n)
  BY <1>1, <1>2, <1>3 DEF Responses, Success
<1>5. n \in Nonces
  BY <1>1, <1>2 DEF Responses
<1> QED
  BY <1>3, <1>4, <1>5 DEF Previewed

HandTrue(w) ==
  /\ job[w].pc \in {"mint", "issue"} => Req(w).kind = "send_preview"
  /\ At(w, "issue") => job[w].answer # Absent /\ job[w].answer.nonce # Absent
  /\ job[w].pc \in {"issue", "respond"} =>
        job[w].answer # Absent /\ Truthful(job[w].id, job[w].answer)
  /\ job[w].pc \in Attempt => Req(w).kind = "send" /\ Req(w).nonce # Absent
  /\ job[w].pc \in {"confirm", "osascript"} =>
        Req(w).payload = grant[Req(w).nonce].payload

LEMMA RespondsTruly ==
  ASSUME NEW w \in Workers, NEW r \in Responses, job'[w].pc = "respond", job'[w].answer = r,
         TrueNext(job'[w].id, r)
  PROVE  HandTrue(w)'
<1>1. Truthful(job[w].id, job[w].answer)'
  BY HandTrueNext
<1>2. job'[w].answer # Absent
  BY AbsentApart DEF AbsentApart
<1> QED
  BY <1>1, <1>2 DEF HandTrue, At, Attempt

LEMMA HandStays ==
  ASSUME BridgeInv, [Next]_vars, GrantsStay, NEW w \in Workers, job'[w] = job[w]
  PROVE  HandTrue(w)'
<1>0. BridgeTypeOK /\ HandsOK /\ AnswersOK /\ job[w] \in Jobs
  BY DEF BridgeInv, BridgeTypeOK
<1>1. HandTrue(w)
  BY <1>0 DEF AnswersOK, HandTrue
<1>2. CASE job[w].pc \notin InHand
  BY <1>2 DEF HandTrue, At, InHand, Draining, Attempt
<1>3. CASE job[w].pc \in InHand
  <2>1. /\ job[w].id \in Posted /\ job[w].id \in Ids /\ Req(w) \in Requests
        /\ Req(w) = asked[job[w].id] /\ Req(w)' = Req(w)
    BY <1>0, <1>3, NonceInHand, AskedStays DEF Req, Posted
  <2>2. ASSUME job[w].pc \in {"issue", "respond"}
        PROVE  Truthful(job[w].id, job[w].answer)'
    <3>1. job[w].answer # Absent /\ Truthful(job[w].id, job[w].answer)
      BY <1>1, <2>2 DEF HandTrue
    <3>2. job[w].answer \in Responses
      BY <1>0, <3>1 DEF Jobs
    <3>3. TrueNext(job[w].id, job[w].answer)
      BY <2>1, <3>1, <3>2, TruthStays
    <3> QED
      BY <3>3, HandTrueNext
  <2>3. ASSUME job[w].pc \in {"confirm", "osascript"}
        PROVE  grant'[Req(w).nonce] = grant[Req(w).nonce]
    <3>1. Req(w).nonce # Absent
      BY <1>1, <2>3 DEF HandTrue, Attempt
    <3>2. Req(w).nonce \in Nonces /\ grant[Req(w).nonce] # Absent
      BY <1>0, <2>1, <3>1, NonceGranted
    <3>3. \A n \in Nonces : grant[n] # Absent => grant'[n] = grant[n]
      BY DEF GrantsStay
    <3> QED
      BY <3>2, <3>3
  <2> QED
    BY <1>1, <2>1, <2>2, <2>3 DEF HandTrue, At
<1> QED
  BY <1>2, <1>3

LEMMA HandStep ==
  ASSUME BridgeInv, [Next]_vars, GrantsStay, NEW w \in Workers, Working(w)
  PROVE  HandTrue(w)'
<1>0. /\ BridgeTypeOK /\ HandsOK /\ AnswersOK /\ UnlinkOK /\ JobsTyped
      /\ job[w] \in Jobs /\ HandTrue(w)
  BY DEF BridgeInv, BridgeTypeOK, JobsTyped, AnswersOK, HandTrue
<1>1. job[w].pc \in InHand /\ job'[w].id = job[w].id
  BY <1>0, Works DEF Working, Kept
<1>2. /\ job[w].id \in Posted /\ job[w].id \in Ids /\ job[w].id \in Posted'
      /\ Req(w) = asked[job[w].id] /\ Req(w) \in Requests
      /\ Req(w)' = Req(w) /\ asked'[job[w].id] = Req(w)
  BY <1>0, <1>1, NonceInHand, AskedStays DEF Req, Posted
<1>3. ASSUME Respond(w, Refusal) PROVE HandTrue(w)'
  <2>1. job'[w].pc = "respond" /\ job'[w].answer = Refusal
    BY <1>0, <1>3, Responds, AnswersTyped
  <2>2. TrueNext(job'[w].id, Refusal)
    BY <1>1, <1>2, AnswersTyped DEF TrueNext
  <2> QED
    BY <2>1, <2>2, RespondsTruly, AnswersTyped
<1>4. ASSUME Respond(w, Success(Absent)), \/ Req(w).kind = "read"
                                          \/ Req(w).kind = "send" /\ job[w].id \in carried'
      PROVE HandTrue(w)'
  <2>1. job'[w].pc = "respond" /\ job'[w].answer = Success(Absent)
    BY <1>0, <1>4, Responds, AnswersTyped
  <2>2. TrueNext(job'[w].id, Success(Absent))
    BY <1>1, <1>2, <1>4, AnswersTyped DEF TrueNext
  <2> QED
    BY <2>1, <2>2, RespondsTruly, AnswersTyped
<1> USE DEF PCs, Draining
<1>5. CASE Refuse(w) \/ SendRefused(w) \/ MintNoMore(w) \/ MintFails(w) \/ GateRefuses(w) \/ Cancel(w)
  BY <1>3, <1>5 DEF Refuse, SendRefused, MintNoMore, MintFails, GateRefuses, Cancel
<1>6. CASE Read(w)
  BY <1>4, <1>6 DEF Read
<1>7. CASE Preview(w)
  <2>1. CASE Respond(w, Refusal)
    BY <1>3, <2>1
  <2>2. CASE Goto(w, "mint")
    <3>1. job'[w].pc = "mint" /\ Req(w).kind = "send_preview"
      BY <1>0, <1>7, <2>2, Goes DEF Preview
    <3> QED
      BY <1>2, <3>1 DEF HandTrue, At, Attempt
  <2> QED
    BY <1>7, <2>1, <2>2 DEF Preview
<1>8. ASSUME NEW n \in Nonces, Mint(w, n) PROVE HandTrue(w)'
  <2>1. job'[w].pc = "issue" /\ job'[w].answer = Success(n)
    BY <1>0, <1>8, Mints
  <2>2. Req(w).kind = "send_preview"
    BY <1>0, <1>8 DEF HandTrue, Mint, At
  <2>3. grant'[n] # Absent /\ grant'[n].payload = Req(w).payload
    <3>1. grant' = [grant EXCEPT ![n] = [payload |-> Req(w).payload, at |-> now]]
      BY <1>8 DEF Mint, Gate!Draft
    <3>2. grant \in [Nonces -> Gate!Grants \cup {Absent}] /\ now \in Nat
      BY <1>0 DEF BridgeTypeOK, Gate!LedgerTypeOK
    <3>3. [payload |-> Req(w).payload, at |-> now] \in Gate!Grants
      BY <1>2, <3>2 DEF Gate!Grants, Requests
    <3> QED
      BY <3>1, <3>2, <3>3, AbsentApart DEF AbsentApart
  <2>4. n # Absent /\ Success(n) # Absent
    BY AnswersTyped, AbsentApart DEF AbsentApart
  <2>5. TrueNext(job'[w].id, job'[w].answer)
    BY <1>1, <1>2, <2>1, <2>2, <2>3, <2>4, AnswersTyped DEF TrueNext
  <2>6. Truthful(job[w].id, job[w].answer)'
    BY <2>5, HandTrueNext
  <2> QED
    BY <1>2, <2>1, <2>2, <2>4, <2>6, AnswersTyped DEF HandTrue, At, Attempt
<1>9. CASE Issue(w)
  <2>1. job[w].answer # Absent /\ Truthful(job[w].id, job[w].answer)
    BY <1>0, <1>9 DEF HandTrue, Issue, At
  <2>2. job[w].answer \in Responses
    BY <1>0, <2>1 DEF Jobs
  <2>3. TrueNext(job[w].id, job[w].answer)
    BY <1>2, <2>1, <2>2, TruthStays
  <2>4. job'[w].pc = "respond" /\ job'[w].answer = job[w].answer
    BY <1>0, <1>9, <2>2, Responds DEF Issue
  <2> QED
    BY <1>1, <2>2, <2>3, <2>4, RespondsTruly
<1>10. CASE SendClaim(w)
  <2>1. job'[w].pc = "gate" /\ Req(w).kind = "send" /\ Req(w).nonce # Absent
    BY <1>0, <1>10, Goes DEF SendClaim, Live
  <2> QED
    BY <1>2, <2>1 DEF HandTrue, At, Attempt
<1>11. CASE GatePasses(w)
  <2>1. job'[w].pc = "confirm" /\ Req(w).payload = grant[Req(w).nonce].payload /\ grant' = grant
    BY <1>0, <1>11, Goes DEF GatePasses, Gate!Pass
  <2>2. Req(w).kind = "send" /\ Req(w).nonce # Absent
    BY <1>0, <1>11 DEF HandTrue, GatePasses, At, Attempt
  <2> QED
    BY <1>2, <2>1, <2>2 DEF HandTrue, At, Attempt
<1>12. CASE Approve(w)
  <2>1. job'[w].pc = "osascript" /\ grant' = grant
    BY <1>0, <1>12, Goes DEF Approve, gate
  <2>2. Req(w).kind = "send" /\ Req(w).nonce # Absent /\ Req(w).payload = grant[Req(w).nonce].payload
    BY <1>0, <1>12 DEF HandTrue, Approve, At, Attempt
  <2> QED
    BY <1>2, <2>1, <2>2 DEF HandTrue, At, Attempt
<1>13. CASE Osascript(w)
  <2>1. Req(w).kind = "send"
    BY <1>0, <1>13 DEF HandTrue, Osascript, At, Attempt
  <2>2. Respond(w, Refusal) \/ (Respond(w, Success(Absent)) /\ job[w].id \in carried')
    BY <1>13 DEF Osascript
  <2> QED
    BY <1>3, <1>4, <2>1, <2>2
<1>14. CASE WriteResponse(w)
  <2>1. job'[w].pc = "unlink"
    BY <1>0, <1>14, Goes DEF WriteResponse
  <2> QED
    BY <2>1 DEF HandTrue, At, Attempt
<1>15. CASE WriteFails(w)
  <2>1. CASE job'[w].pc = "unlink"
    BY <2>1 DEF HandTrue, At, Attempt
  <2>2. CASE job'[w].pc = "respond" /\ job'[w].answer = Refusal
    <3>1. TrueNext(job'[w].id, Refusal)
      BY <1>1, <1>2, AnswersTyped DEF TrueNext
    <3> QED
      BY <2>2, <3>1, RespondsTruly, AnswersTyped
  <2> QED
    BY <1>0, <1>15, <2>1, <2>2, Retries
<1> QED
  BY <1>5, <1>6, <1>7, <1>8, <1>9, <1>10, <1>11, <1>12, <1>13, <1>14, <1>15 DEF Working, RequestNext

LEMMA AnswersStep ==
  ASSUME BridgeInv, [Next]_vars
  PROVE  AnswersOK'
<1>0. /\ BridgeTypeOK /\ HandsOK /\ AnswersOK /\ ChainOK /\ UnlinkOK
      /\ asked \in [Ids -> Requests \cup {Absent}]
      /\ responses \in [Ids -> Responses \cup {Absent}]
      /\ answers \in [Ids -> Responses \cup {Absent}]
  BY DEF BridgeInv, BridgeTypeOK
<1>1. GrantsStay
  BY <1>0, GateSteps, GateStepOK DEF BridgeTypeOK, ChainOK, AnswersOK
<1>2. \A n \in Nonces : grant'[n] # Absent => status'[n] # "unknown"
  BY <1>1 DEF GrantsStay
<1>3. ASSUME NEW w \in Workers PROVE HandTrue(w)'
  <2>1. ASSUME NEW v \in Workers, Working(v) PROVE HandTrue(w)'
    <3>1. w = v \/ job'[w] = job[w]
      BY <1>0, <2>1, Works DEF Working, Kept
    <3> QED
      BY <1>1, <2>1, <3>1, HandStep, HandStays
  <2>2. ASSUME NEW v \in Workers, \A u \in Workers \ {v} : job'[u] = job[u], job'[v].pc \notin Begun
        PROVE  HandTrue(w)'
    <3>1. CASE job'[w].pc \notin Begun
      BY <3>1 DEF HandTrue, At, Attempt, Begun, InHand, Draining
    <3>2. CASE w # v
      BY <1>1, <2>2, <3>2, HandStays
    <3> QED
      BY <2>2, <3>1, <3>2
  <2>3. ASSUME job' = job PROVE HandTrue(w)'
    BY <1>1, <2>3, HandStays
  <2> QED
    BY <2>1, <2>2, <2>3, WhoMoves
(* response files                                                           *)
<1>4. ASSUME NEW i \in Ids, responses'[i] # Absent PROVE TrueNext(i, responses'[i])
  <2>1. CASE responses'[i] = responses[i]
    <3>1. responses[i] \in Responses /\ Truthful(i, responses[i])
      BY <1>0, <1>4, <2>1 DEF AnswersOK
    <3> QED
      BY <1>1, <2>1, <3>1, TruthStays
  <2>2. CASE \E w \in Workers : At(w, "respond") /\ job[w].id = i /\ responses'[i] = job[w].answer
    <3>1. PICK w \in Workers : At(w, "respond") /\ job[w].id = i /\ responses'[i] = job[w].answer
      BY <2>2
    <3>2. job[w].answer # Absent /\ Truthful(i, job[w].answer)
      BY <1>0, <3>1 DEF AnswersOK, At
    <3>3. job[w].answer \in Responses
      BY <1>0, <3>2 DEF BridgeTypeOK, Jobs
    <3>4. TrueNext(i, job[w].answer)
      BY <1>1, <3>2, <3>3, TruthStays
    <3> QED
      BY <3>1, <3>4
  <2>3. \/ responses'[i] = responses[i]
        \/ \E w \in Workers : At(w, "respond") /\ job[w].id = i /\ responses'[i] = job[w].answer
    <3>1. ASSUME NEW w \in Workers, RequestNext(w), ~WriteResponse(w) PROVE responses' = responses
      BY <3>1 DEF RequestNext, Refuse, Read, Preview, Mint, Issue, MintNoMore, MintFails, SendRefused,
                  SendClaim, GatePasses, GateRefuses, Approve, Cancel, Osascript, WriteFails, Unlink,
                  UnlinkFails, files
    <3>2. ASSUME NEW w \in Workers, WriteResponse(w)
          PROVE  responses'[i] = responses[i] \/ (At(w, "respond") /\ job[w].id = i /\ responses'[i] = job[w].answer)
      BY <1>0, <3>2 DEF WriteResponse
    <3>3. ASSUME NEW w \in Workers, NEW k \in Ids, ReapResponse(w, k) PROVE responses'[i] = responses[i]
      BY <1>0, <1>4, <3>3 DEF ReapResponse
    <3>4. ASSUME NEW w \in Workers, Start(w) \/ StartFails(w) \/ RunNext(w) \/ Crash(w),
                 \A k \in Ids : ~ReapResponse(w, k)
          PROVE  responses' = responses
      BY <3>4 DEF RunNext, Start, StartFails, ReapNonce, ReapDone, Acquire, LockTimeout, List,
                  TakeRequest, Finish, Crash, files
    <3>5. ASSUME NEW k \in Ids, Collect(k) PROVE responses'[i] = responses[i]
      BY <1>0, <1>4, <3>5 DEF Collect
    <3>6. ASSUME UserNext \/ Tick \/ UNCHANGED vars \/ \E k \in Ids : Post(k) \/ GiveUp(k)
          PROVE  responses' = responses
      BY <3>6 DEF UserNext, Post, GiveUp, Block, DisableSend, Tick, vars, files
    <3> QED
      BY <3>1, <3>2, <3>3, <3>4, <3>5, <3>6 DEF Next, HostNext
  <2> QED
    BY <2>1, <2>2, <2>3
(* the host: what it has read, and what it waits for                        *)
<1>5. ASSUME NEW i \in Ids
      PROVE  /\ answers'[i] # Absent => TrueNext(i, answers'[i]) /\ i \notin waiting'
             /\ i \in waiting' => i \in Posted'
  <2>0. /\ answers[i] # Absent => answers[i] \in Responses /\ Truthful(i, answers[i]) /\ i \notin waiting
        /\ i \in waiting => i \in Posted
        /\ Posted \subseteq Posted'
    BY <1>0, AskedStays DEF AnswersOK
  <2>1. answers[i] # Absent => TrueNext(i, answers[i])
    BY <1>1, <2>0, TruthStays
  <2>2. ASSUME NEW k \in Ids, Post(k)
        PROVE  /\ answers'[i] # Absent => TrueNext(i, answers'[i]) /\ i \notin waiting'
               /\ i \in waiting' => i \in Posted'
    <3>1. answers' = answers /\ waiting' = waiting \cup {k}
      BY <2>2 DEF Post
    <3>2. k \notin Posted /\ k \in Posted'
      BY <1>0, <2>2, Posts
    <3>3. answers[k] = Absent
      BY <1>0, <3>2 DEF AnswersOK, Truthful
    <3> QED
      BY <2>0, <2>1, <3>1, <3>2, <3>3
  <2>3. ASSUME NEW k \in Ids, Collect(k)
        PROVE  /\ answers'[i] # Absent => TrueNext(i, answers'[i]) /\ i \notin waiting'
               /\ i \in waiting' => i \in Posted'
    <3>1. /\ waiting' = waiting \ {k} /\ responses[k] # Absent
          /\ answers' = [answers EXCEPT ![k] = responses[k]]
      BY <2>3 DEF Collect
    <3>2. TrueNext(k, responses[k])
      BY <1>0, <1>1, <3>1, TruthStays DEF AnswersOK
    <3> QED
      BY <1>0, <2>0, <2>1, <3>1, <3>2
  <2>4. ASSUME NEW k \in Ids, GiveUp(k)
        PROVE  /\ answers'[i] # Absent => TrueNext(i, answers'[i]) /\ i \notin waiting'
               /\ i \in waiting' => i \in Posted'
    BY <2>0, <2>1, <2>4 DEF GiveUp
  <2>5. ASSUME UNCHANGED host
        PROVE  /\ answers'[i] # Absent => TrueNext(i, answers'[i]) /\ i \notin waiting'
               /\ i \in waiting' => i \in Posted'
    BY <2>0, <2>1, <2>5 DEF host
  <2>6. (\E w \in Workers : Start(w) \/ StartFails(w) \/ RunNext(w) \/ RequestNext(w) \/ Crash(w)) => UNCHANGED host
    BY <1>0, HelperHost
  <2>7. UserNext \/ Tick \/ UNCHANGED vars => UNCHANGED host
    BY DEF UserNext, Block, DisableSend, Tick, vars, host
  <2> QED
    BY <2>2, <2>3, <2>4, <2>5, <2>6, <2>7 DEF Next, HostNext
<1>6. ASSUME NEW i \in Ids, i \in Posted', asked'[i].nonce # Absent
      PROVE  Previewed(asked[i].nonce)'
  <2>1. CASE i \in Posted
    <3>1. asked'[i] = asked[i]
      BY <2>1, AskedStays
    <3>2. asked[i].nonce \in Nonces /\ Previewed(asked[i].nonce)
      BY <1>0, <1>6, <2>1, <3>1, NonceGranted DEF AnswersOK
    <3> QED
      BY <3>1, <3>2, AnswersStay DEF Previewed
  <2>2. CASE i \notin Posted
    <3>1. Post(i)
      <4>1. asked' # asked
        BY <1>6, <2>2 DEF Posted
      <4>2. PICK k \in Ids : Post(k)
        BY <4>1, OnlyPostsAsk
      <4> QED
        BY <1>0, <1>6, <2>2, <4>2, Posts
    <3>2. PICK r \in Requests : PostedAs(i, r)
      BY <1>0, <3>1, Posts
    <3>3. asked'[i] = r /\ r.nonce \in Known
      BY <1>0, <3>2 DEF PostedAs
    <3>4. r.nonce \in Nonces /\ Previewed(r.nonce)
      BY <1>0, <1>6, <3>3, KnownPreviewed
    <3> QED
      BY <3>3, <3>4, AnswersStay DEF Previewed
  <2> QED
    BY <2>1, <2>2
<1>7. \A i \in Ids : /\ responses'[i] # Absent => Truthful(i, responses[i])'
                     /\ answers'[i] # Absent => Truthful(i, answers[i])' /\ i \notin waiting'
                     /\ i \in waiting' => i \in Posted'
                     /\ i \in Posted' /\ asked'[i].nonce # Absent => Previewed(asked[i].nonce)'
  BY <1>4, <1>5, <1>6, TrueNextMeans
<1> QED
  BY <1>2, <1>3, <1>7 DEF AnswersOK, HandTrue

--------------------------------------------------------------------------------
(* The theorems *)

LEMMA BridgeInvInit ==
  ASSUME Init
  PROVE  BridgeInv
<1> USE DEF Init
<1>1. Off \in Jobs /\ \A w \in Workers : job[w] = Off /\ job[w].pc = "off"
  BY OffTyped
<1>2. Posted = {}
  BY DEF Posted
<1>3. BridgeTypeOK
  <2>1. Gate!LedgerTypeOK
    BY DEF Gate!Init, Gate!LedgerTypeOK, Gate!Statuses
  <2>2. job \in [Workers -> Jobs]
    BY <1>1
  <2>3. crashes \in 0..MaxCrashes /\ errors \in 0..MaxErrors
    BY BridgeConstants DEF BridgeConstants
  <2>4. /\ asked \in [Ids -> Requests \cup {Absent}]
        /\ responses \in [Ids -> Responses \cup {Absent}]
        /\ answers \in [Ids -> Responses \cup {Absent}]
    OBVIOUS
  <2>5. /\ requests \subseteq Ids /\ waiting \subseteq Ids /\ carried \subseteq Ids
        /\ event \in [Workers -> BOOLEAN] /\ lock \in Workers \cup {Absent}
        /\ blocked \in BOOLEAN /\ sending \in BOOLEAN
    OBVIOUS
  <2>6. /\ approved \in [Nonces -> Nat] /\ delivered \in [Nonces -> Nat]
        /\ served \in [Ids -> Nat]
    OBVIOUS
  <2> QED
    BY <2>1, <2>2, <2>3, <2>4, <2>5, <2>6 DEF BridgeTypeOK
<1>4. HandsOK
  BY <1>1 DEF HandsOK, InHand, Draining
<1>5. AnswersOK
  BY <1>1, <1>2 DEF AnswersOK, Gate!Init, At, Attempt
<1>6. ChainOK
  BY <1>1 DEF ChainOK, SendChain, Gate!AtMostOnePass, Gate!Init, At
<1>7. PolicyOK
  BY <1>1, <1>2 DEF PolicyOK, DisabledMeansUnsent, BlockedBeforeRunMeansUnsent, Attempt
<1>8. ServedOK
  BY DEF ServedOK, ServedOncePerFault
<1>9. UnlinkOK
  BY <1>1 DEF UnlinkOK, At
<1> QED
  BY <1>3, <1>4, <1>5, <1>6, <1>7, <1>8, <1>9 DEF BridgeInv

LEMMA BridgeInvStep ==
  ASSUME BridgeInv, [Next]_vars
  PROVE  BridgeInv'
  BY BridgeTypeStep, HandsStep, AnswersStep, ChainStep, PolicyStep, ServedStep, UnlinkStep DEF BridgeInv

(* The bridge's inductive invariant: the lock serializes those who drain,   *)
(* the send under way is ahead of its message, answers are true.            *)
THEOREM BridgeInvHolds == Spec => []BridgeInv
<1>1. Init => BridgeInv
  BY BridgeInvInit
<1>2. BridgeInv /\ [Next]_vars => BridgeInv'
  BY BridgeInvStep
<1> QED
  BY <1>1, <1>2, PTL DEF Spec

(* Files, queues, locals and ghosts stay within their types.                *)
THEOREM BridgeTypeCorrect == Spec => []BridgeTypeOK
<1>1. BridgeInv => BridgeTypeOK
  BY DEF BridgeInv
<1> QED
  BY <1>1, BridgeInvHolds, PTL

(* One helper at a time drains the bridge.                                  *)
THEOREM OneDrain == Spec => []DrainsSerialized
<1>1. BridgeInv => DrainsSerialized
  BY DEF BridgeInv, HandsOK, DrainsSerialized
<1> QED
  BY <1>1, BridgeInvHolds, PTL

(* A request is processed again only after a fault.                         *)
THEOREM ServedAgainOnlyAfterFaults == Spec => []ServedOncePerFault
<1>1. BridgeInv => ServedOncePerFault
  BY DEF BridgeInv, ServedOK
<1> QED
  BY <1>1, BridgeInvHolds, PTL

(* A message goes out only after a click, a click comes only after the      *)
(* gate, and the gate opens once per nonce.                                 *)
THEOREM ChainHolds == Spec => []SendChain
<1>1. BridgeInv => SendChain
  BY DEF BridgeInv, ChainOK
<1> QED
  BY <1>1, BridgeInvHolds, PTL

(* An answer that says ok is true.                                          *)
THEOREM AnswersTrue == Spec => []OkIsTrue
<1>1. BridgeInv => OkIsTrue
  <2>1. ASSUME BridgeInv, NEW i \in Ids PROVE TrueWhenOk(i, responses[i]) /\ TrueWhenOk(i, answers[i])
    <3>1. /\ responses[i] # Absent => Truthful(i, responses[i])
          /\ answers[i] # Absent => Truthful(i, answers[i])
      BY <2>1 DEF BridgeInv, AnswersOK
    <3>2. TrueWhenOk(i, responses[i])
      BY <3>1 DEF Truthful, TrueWhenOk
    <3>3. TrueWhenOk(i, answers[i])
      BY <3>1 DEF Truthful, TrueWhenOk
    <3> QED
      BY <3>2, <3>3
  <2> QED
    BY <2>1 DEF OkIsTrue
<1> QED
  BY <1>1, BridgeInvHolds, PTL

(* A send posted while sending is disabled puts nothing out.                *)
THEOREM DisabledUnsent == Spec => []DisabledMeansUnsent
<1>1. BridgeInv => DisabledMeansUnsent
  BY DEF BridgeInv, PolicyOK
<1> QED
  BY <1>1, BridgeInvHolds, PTL

(* A send to a recipient who was blocked before the helper started puts     *)
(* nothing out.                                                             *)
THEOREM BlockedUnsent == Spec => []BlockedBeforeRunMeansUnsent
<1>1. BridgeInv => BlockedBeforeRunMeansUnsent
  BY DEF BridgeInv, PolicyOK
<1> QED
  BY <1>1, BridgeInvHolds, PTL

LEMMA DeliveryStep ==
  ASSUME BridgeInv, [Next]_vars, NEW n \in Nonces, delivered'[n] # delivered[n]
  PROVE  \E w \in Workers, i \in Ids :
            /\ At(w, "osascript") /\ Req(w).nonce = n
            /\ answers[i] = Success(n)
            /\ asked[i].kind = "send_preview" /\ asked[i].payload = Req(w).payload
<1>0. /\ BridgeTypeOK /\ HandsOK /\ AnswersOK
      /\ delivered \in [Nonces -> Nat]
  BY DEF BridgeInv, BridgeTypeOK
<1>1. PICK w \in Workers : Osascript(w)
  <2>1. ASSUME NEW w \in Workers, RequestNext(w), ~Osascript(w) PROVE delivered' = delivered
    BY <2>1, WhoCounts
  <2> QED
    BY <2>1, WhoMoves DEF Working, ghosts
<1>2. Req(w).nonce = n
  BY <1>0, <1>1 DEF Osascript
<1>3. /\ At(w, "osascript") /\ job[w].id \in Posted /\ n # Absent
      /\ Req(w).payload = grant[n].payload
  BY <1>0, <1>1, <1>2, NonceInHand, AbsentApart DEF AbsentApart, Osascript, At, InHand, Draining, AnswersOK
<1>4. PICK i \in Ids : answers[i] = Success(n) /\ asked[i].kind = "send_preview"
  BY <1>0, <1>2, <1>3 DEF AnswersOK, Previewed, Req, Posted
<1>5. Truthful(i, answers[i]) /\ answers[i] # Absent /\ answers[i].ok /\ answers[i].nonce = n
  BY <1>0, <1>4, AnswersTyped, AbsentApart DEF AbsentApart, AnswersOK
<1>6. grant[n].payload = asked[i].payload
  BY <1>4, <1>5, TruthMeans
<1> QED
  BY <1>2, <1>3, <1>4, <1>6

(* What goes out was previewed, and the host had read the preview.          *)
THEOREM OnlyPreviewedGoesOut == Spec => MessageWasPreviewed
<1>1. BridgeInv /\ [Next]_vars =>
        [\A n \in Nonces : delivered'[n] # delivered[n] =>
           \E w \in Workers, i \in Ids :
              /\ At(w, "osascript") /\ Req(w).nonce = n
              /\ answers[i] = Success(n)
              /\ asked[i].kind = "send_preview" /\ asked[i].payload = Req(w).payload]_vars
  BY DeliveryStep
<1> QED
  BY <1>1, BridgeInvHolds, PTL DEF Spec, MessageWasPreviewed

(* A request file goes only when it is answered, or was, or two writes have *)
(* failed.                                                                  *)
THEOREM GoneOnlyAnswered == Spec => RemovedOnlyAnswered
<1>1. ASSUME BridgeInv, [Next]_vars
      PROVE  \A i \in requests \ requests' :
                responses[i] # Absent \/ answers[i] # Absent \/ errors >= 2
  <2>0. UnlinkOK /\ BridgeTypeOK
    BY <1>1 DEF BridgeInv
  <2>1. ASSUME NEW w \in Workers, Unlink(w)
        PROVE  \A i \in requests \ requests' :
                  responses[i] # Absent \/ answers[i] # Absent \/ errors >= 2
    BY <2>0, <2>1 DEF UnlinkOK, Unlink
  <2>2. ASSUME NEW w \in Workers, RequestNext(w), ~Unlink(w) PROVE requests' = requests
    BY <2>0, <2>2, Works DEF UnlinkFails, files
  <2>3. ASSUME NEW w \in Workers, Start(w) \/ StartFails(w) \/ RunNext(w) \/ Crash(w) PROVE requests' = requests
    BY <2>3 DEF Start, StartFails, RunNext, Crash, ReapResponse, ReapNonce, ReapDone, Acquire, LockTimeout,
                List, TakeRequest, Finish, files
  <2>4. ASSUME HostNext \/ UserNext \/ Tick \/ UNCHANGED vars PROVE requests \subseteq requests'
    BY <2>4 DEF HostNext, UserNext, Post, Collect, GiveUp, Block, DisableSend, Tick, vars, files
  <2> QED
    BY <1>1, <2>1, <2>2, <2>3, <2>4 DEF Next
<1>2. BridgeInv /\ [Next]_vars =>
        [\A i \in requests \ requests' :
            responses[i] # Absent \/ answers[i] # Absent \/ errors >= 2]_vars
  BY <1>1
<1> QED
  BY <1>2, BridgeInvHolds, PTL DEF Spec, RemovedOnlyAnswered

(* The helpers that share the bridge use the ledger as one process would:   *)
(* whatever they interleave, and wherever one is killed, a nonce only takes *)
(* the steps of NonceLedger, and none is damaged.                           *)
THEOREM BridgeImplementsLedger == Spec => Gate!Spec
<1>1. Init => Gate!Init
  BY DEF Init
<1>2. BridgeInv /\ [Next]_vars => [Gate!Next]_(Gate!ledger)
  <2> SUFFICES ASSUME BridgeInv, [Next]_vars PROVE [Gate!Next]_(Gate!ledger)
    OBVIOUS
  <2>1. Gate!Tick \/ UNCHANGED gate \/ \E n \in Nonces : GateStep(n)
    BY GateSteps DEF BridgeInv
  <2>2. CASE Gate!Tick
    BY <2>2 DEF Gate!Next
  <2>3. CASE UNCHANGED gate
    BY <2>3 DEF gate, Gate!ledger
  <2>4. ASSUME NEW n \in Nonces, GateStep(n) PROVE Gate!Next
    BY <2>4 DEF GateStep, Gate!Next
  <2> QED
    BY <2>1, <2>2, <2>3, <2>4
<1> QED
  BY <1>1, <1>2, BridgeInvHolds, PTL DEF Spec, Gate!Spec
--------------------------------------------------------------------------------
(* The bridge as the mailbox sees it: what is in hand *)

LEMMA HandIs ==
  ASSUME HandsOK, NEW w \in Workers, job[w].pc \in InHand
  PROVE  /\ lock = w /\ Served = job[w].id /\ job[w].id \in requests
         /\ Closed <=> job[w].pc = "unlink"
<1>1. lock = w /\ w # Absent /\ job[w].id \in requests
  BY AbsentApart DEF AbsentApart, HandsOK, InHand
<1> QED
  BY <1>1 DEF Served, Closed

LEMMA HandNext ==
  ASSUME NEW w \in Workers, lock' = w, job'[w].pc \in InHand
  PROVE  Served' = job'[w].id /\ (Closed' <=> job'[w].pc = "unlink")
<1>1. w # Absent
  BY AbsentApart DEF AbsentApart
<1> QED
  BY <1>1 DEF Served, Closed

LEMMA HandEmpty ==
  ASSUME lock = Absent \/ job[lock].pc \notin InHand
  PROVE  Served = Absent /\ ~Closed
<1>1. "unlink" \in InHand
  BY DEF InHand, Draining
<1> QED
  BY <1>1 DEF Served, Closed

LEMMA HandEmptied ==
  ASSUME lock' = Absent \/ job'[lock'].pc \notin InHand
  PROVE  Served' = Absent /\ ~Closed'
<1>1. "unlink" \in InHand
  BY DEF InHand, Draining
<1> QED
  BY <1>1 DEF Served, Closed

(* a helper that has nothing in hand, before and after                      *)
LEMMA HandAside ==
  ASSUME lock \in Workers \cup {Absent}, NEW w \in Workers,
         \A v \in Workers \ {w} : job'[v] = job[v],
         job[w].pc \notin InHand, job'[w].pc \notin InHand,
         lock' = lock \/ (lock = Absent /\ lock' = w) \/ (lock = w /\ lock' = Absent)
  PROVE  Served' = Served /\ (Closed' <=> Closed)
<1>1. CASE lock \in Workers \ {w}
  <2>1. lock' = lock /\ job'[lock] = job[lock]
    BY <1>1, AbsentApart DEF AbsentApart
  <2> QED
    BY <2>1 DEF Served, Closed
<1>2. CASE lock \in {w, Absent}
  <2>1. lock' \in {w, Absent}
    BY <1>2
  <2> QED
    BY <1>2, <2>1, HandEmpty, HandEmptied
<1> QED
  BY <1>1, <1>2

(* what the mailbox does not see                                            *)
LEMMA Unseen ==
  /\ asked' = asked => Posted' = Posted
  /\ responses' = responses => Replies' = Replies
  BY DEF Posted, Replies

LEMMA Stutters ==
  ASSUME UNCHANGED <<asked, requests, responses, crashes, errors>>,
         Served' = Served, Closed' <=> Closed
  PROVE  UNCHANGED Box!box
<1>1. Closed' = Closed
  BY DEF Closed
<1> QED
  BY <1>1, Unseen DEF Box!box

LEMMA Faulted ==
  ASSUME UNCHANGED <<asked, requests, responses>>,
         crashes \in Nat, errors \in Nat,
         crashes' + errors' = crashes + errors + 1,
         Served' = Served, Closed' <=> Closed
  PROVE  Box!Next
<1>1. Closed' = Closed
  BY DEF Closed
<1> QED
  BY <1>1, Unseen DEF Box!Fault, Box!Next

Boxed == [Box!Next]_(Box!box)

(* what is put in hand, answered or not, and let go                         *)
LEMMA BoxTake ==
  ASSUME BridgeTypeOK, HandsOK, NEW w \in Workers, NEW i \in Ids, TakeRequest(w, i)
  PROVE  Box!Next
<1>1. /\ job'[w].pc = "parse" /\ job'[w].id = i
      /\ job[w].pc = "next" /\ lock = w /\ i \in requests
  BY Takes DEF BridgeTypeOK, JobsTyped, TakeRequest, At, HandsOK, Draining
<1>2. Served = Absent /\ ~Closed
  BY <1>1, HandEmpty DEF InHand
<1>3. Served' = i /\ ~Closed'
  BY <1>1, HandNext DEF TakeRequest, InHand, Draining
<1>4. Closed' = (i \in {})
  BY <1>3 DEF Closed
<1>5. UNCHANGED <<Posted, requests, Replies, crashes + errors>>
  BY Unseen DEF TakeRequest, host, files, faults
<1>6. Box!Take(i)
  BY <1>1, <1>2, <1>3, <1>4, <1>5 DEF Box!Take
<1> QED
  BY <1>6 DEF Box!Next

LEMMA BoxAnswer ==
  ASSUME BridgeTypeOK, HandsOK, AnswersOK, NEW w \in Workers, WriteResponse(w)
  PROVE  Box!Next
<1> DEFINE i == job[w].id
<1>1. /\ job'[w].pc = "unlink" /\ job'[w].id = i /\ job[w].pc = "respond"
      /\ job[w].answer # Absent
  BY Goes DEF BridgeTypeOK, JobsTyped, WriteResponse, At, PCs, Draining, Jobs, AnswersOK
<1>2. lock = w /\ lock' = w /\ i \in Ids /\ Served = i /\ ~Closed
  BY <1>1, HandIs DEF WriteResponse, InHand, Draining, BridgeTypeOK
<1>3. Served' = i /\ Closed'
  BY <1>1, <1>2, HandNext DEF InHand, Draining
<1>4. Replies' = [Replies EXCEPT ![[j \in Ids |-> j][i]] = i]
  <2>1. responses' = [responses EXCEPT ![i] = job[w].answer] /\ DOMAIN responses = Ids
    BY DEF WriteResponse, BridgeTypeOK
  <2>2. \A j \in Ids : Replies'[j] = IF j = i THEN i ELSE Replies[j]
    BY <1>1, <1>2, <2>1 DEF Replies
  <2> QED
    BY <1>2, <2>2 DEF Replies
<1>5. Closed' = TRUE
  BY <1>3 DEF Closed
<1>6. UNCHANGED <<Posted, requests, Served, crashes + errors>>
  BY <1>2, <1>3, Unseen DEF WriteResponse, host, faults
<1>7. Box!Answer(i)
  BY <1>2, <1>4, <1>5, <1>6 DEF Box!Answer
<1> QED
  BY <1>2, <1>7 DEF Box!Next

LEMMA BoxWriteFails ==
  ASSUME BridgeTypeOK, HandsOK, UnlinkOK, NEW w \in Workers, WriteFails(w)
  PROVE  Box!Next
<1> DEFINE i == job[w].id
<1>1. /\ job[w].pc = "respond" /\ job'[w].id = i
      /\ job'[w].pc = IF job[w].tries = 1 THEN "unlink" ELSE "respond"
  BY Retries DEF BridgeTypeOK, JobsTyped, WriteFails, At
<1>2. lock = w /\ lock' = w /\ i \in Ids /\ Served = i /\ ~Closed
  BY <1>1, HandIs DEF WriteFails, InHand, Draining, BridgeTypeOK
<1>3. Served' = i /\ (Closed' <=> job[w].tries = 1)
  BY <1>1, <1>2, HandNext DEF InHand, Draining
<1>4. /\ crashes \in Nat /\ errors \in Nat /\ crashes' = crashes /\ errors' = errors + 1
      /\ UNCHANGED <<asked, requests, responses>>
  BY DEF WriteFails, BridgeTypeOK, host, files
<1>5. CASE job[w].tries # 1
  BY <1>2, <1>3, <1>4, <1>5, Faulted
<1>6. CASE job[w].tries = 1
  <2>1. Closed' = TRUE
    BY <1>3, <1>6 DEF Closed
  <2>2. crashes' + errors' = crashes + errors + 1 /\ crashes' + errors' > 0
    BY <1>4
  <2>3. Box!GiveUp(i)
    BY <1>2, <1>3, <1>4, <2>1, <2>2, Unseen DEF Box!GiveUp
  <2> QED
    BY <1>2, <2>3 DEF Box!Next
<1> QED
  BY <1>5, <1>6

LEMMA BoxUnlink ==
  ASSUME BridgeTypeOK, HandsOK, NEW w \in Workers, Unlink(w) \/ UnlinkFails(w)
  PROVE  Box!Next
<1> DEFINE i == job[w].id
<1>1. job[w].pc = "unlink" /\ job'[w].pc = "next"
  BY GoesOn DEF BridgeTypeOK, JobsTyped, Unlink, UnlinkFails, At
<1>2. lock = w /\ lock' = w /\ i \in Ids /\ Served = i /\ Closed
  BY <1>1, HandIs DEF Unlink, UnlinkFails, InHand, Draining, BridgeTypeOK
<1>3. Served' = Absent /\ ~Closed'
  BY <1>1, <1>2, HandEmptied DEF InHand
<1>4. Closed' = FALSE
  BY <1>3 DEF Closed
<1>5. CASE Unlink(w)
  <2>1. /\ requests' = requests \ {i}
        /\ UNCHANGED <<Posted, Replies, crashes + errors>>
    BY <1>5, Unseen DEF Unlink, host, faults
  <2>2. Box!Remove(i)
    BY <1>2, <1>3, <1>4, <2>1 DEF Box!Remove
  <2> QED
    BY <1>2, <2>2 DEF Box!Next
<1>6. CASE UnlinkFails(w)
  <2>1. /\ crashes' + errors' = crashes + errors + 1
        /\ UNCHANGED <<Posted, requests, Replies>>
    BY <1>6, Unseen DEF UnlinkFails, host, files, BridgeTypeOK
  <2>2. Box!Lapse(i)
    BY <1>2, <1>3, <1>4, <2>1 DEF Box!Lapse
  <2> QED
    BY <1>2, <2>2 DEF Box!Next
<1> QED
  BY <1>5, <1>6

(* a helper is killed, with a request in hand or without                    *)
LEMMA BoxCrash ==
  ASSUME BridgeTypeOK, HandsOK, NEW w \in Workers, Crash(w)
  PROVE  Box!Next
<1>1. job'[w].pc = "off" /\ \A v \in Workers \ {w} : job'[v] = job[v]
  BY Stops DEF BridgeTypeOK, JobsTyped, Crash
<1>2. /\ crashes \in Nat /\ errors \in Nat
      /\ crashes' + errors' = crashes + errors + 1
      /\ UNCHANGED <<asked, requests, responses>>
  BY DEF Crash, BridgeTypeOK, host, files
<1>3. CASE job[w].pc \in InHand
  <2> DEFINE i == job[w].id
  <2>1. lock = w /\ i \in Ids /\ Served = i
    BY <1>3, HandIs DEF BridgeTypeOK
  <2>2. Served' = Absent /\ ~Closed'
    BY <2>1, HandEmptied DEF Crash
  <2>3. Closed' = FALSE
    BY <2>2 DEF Closed
  <2>4. Box!Lapse(i)
    BY <1>2, <2>1, <2>2, <2>3, Unseen DEF Box!Lapse
  <2> QED
    BY <2>1, <2>4 DEF Box!Next
<1>4. CASE job[w].pc \notin InHand
  <2>1. Served' = Served /\ (Closed' <=> Closed)
    <3>1. lock \in Workers \cup {Absent} /\ (lock' = lock \/ (lock = w /\ lock' = Absent))
      BY DEF Crash, BridgeTypeOK
    <3> QED
      BY <1>1, <1>4, <3>1, HandAside DEF InHand, Draining
  <2> QED
    BY <1>2, <2>1, Faulted
<1> QED
  BY <1>3, <1>4

(* a response is read, or reaped                                            *)
LEMMA BoxClear ==
  ASSUME BridgeTypeOK, NEW i \in Ids, responses[i] # Absent,
         responses' = [responses EXCEPT ![i] = Absent],
         UNCHANGED <<asked, requests, lock, job, crashes, errors>>
  PROVE  Box!Next
<1>1. Replies[i] # Absent
  BY AbsentApart DEF AbsentApart, Replies
<1>2. Replies' = [Replies EXCEPT ![i] = Absent]
  <2>1. \A j \in Ids : Replies'[j] = IF j = i THEN Absent ELSE Replies[j]
    BY DEF Replies, BridgeTypeOK
  <2> QED
    BY <2>1 DEF Replies
<1>3. UNCHANGED <<Posted, requests, Served, Closed, crashes + errors>>
  BY DEF Posted, Served, Closed
<1>4. Box!Clear(i)
  BY <1>1, <1>2, <1>3 DEF Box!Clear
<1> QED
  BY <1>4 DEF Box!Next

LEMMA BoxPost ==
  ASSUME BridgeTypeOK, NEW i \in Ids, Post(i)
  PROVE  Box!Next
<1>1. i \notin Posted /\ Posted' = Posted \cup {i}
  BY Posts
<1>2. requests' = requests \cup {i} /\ UNCHANGED <<Replies, Served, Closed, crashes + errors>>
  BY Unseen DEF Post, faults, Served, Closed
<1>3. Box!Post(i)
  BY <1>1, <1>2 DEF Box!Post
<1> QED
  BY <1>3 DEF Box!Next

(* a helper goes on with what it has in hand, and neither answers it nor    *)
(* gives it up                                                              *)
LEMMA GoesOnInHand ==
  ASSUME BridgeTypeOK, UnlinkOK, NEW w \in Workers, Working(w), ~WriteResponse(w), ~WriteFails(w)
  PROVE  /\ job[w].pc # "unlink" /\ job'[w].pc # "unlink"
         /\ responses' = responses
         /\ errors' = errors \/ (errors \in Nat /\ errors' = errors + 1)
<1>0. JobsTyped
  BY DEF JobsTyped, BridgeTypeOK
<1> USE DEF At, PCs, Draining
<1>1. CASE Refuse(w) \/ Read(w) \/ SendRefused(w) \/ MintNoMore(w) \/ GateRefuses(w) \/ Cancel(w)
  BY <1>0, <1>1, Responds, AnswersTyped DEF Refuse, Read, SendRefused, MintNoMore, GateRefuses, Cancel, files, faults
<1>2. CASE Preview(w)
  BY <1>0, <1>2, Goes, Responds, AnswersTyped DEF Preview, files, faults
<1>3. ASSUME NEW n \in Nonces, Mint(w, n)
      PROVE  job[w].pc # "unlink" /\ job'[w].pc # "unlink" /\ responses' = responses /\ errors' = errors
  BY <1>0, <1>3, Mints DEF Mint, files, faults
<1>4. CASE Issue(w)
  BY <1>0, <1>4, Responds DEF Issue, files, faults, BridgeTypeOK, Jobs
<1>5. CASE MintFails(w)
  BY <1>0, <1>5, Responds, AnswersTyped DEF MintFails, files, BridgeTypeOK
<1>6. CASE SendClaim(w) \/ GatePasses(w) \/ Approve(w)
  BY <1>0, <1>6, Goes DEF SendClaim, GatePasses, Approve, files, faults
<1>7. CASE Osascript(w)
  <2>1. Respond(w, Success(Absent)) \/ Respond(w, Refusal)
    BY <1>7 DEF Osascript
  <2> QED
    BY <1>0, <1>7, <2>1, Responds, AnswersTyped DEF Osascript, files, faults
<1> QED
  BY <1>1, <1>2, <1>3, <1>4, <1>5, <1>6, <1>7 DEF Working, RequestNext

LEMMA BoxWorks ==
  ASSUME BridgeTypeOK, HandsOK, AnswersOK, UnlinkOK, NEW w \in Workers, Working(w)
  PROVE  Boxed
<1>1. CASE WriteResponse(w) \/ WriteFails(w)
  BY <1>1, BoxAnswer, BoxWriteFails DEF Boxed
<1>2. CASE ~WriteResponse(w) /\ ~WriteFails(w)
  <2>1. /\ job[w].pc \in InHand /\ job'[w].pc \in InHand /\ job'[w].id = job[w].id
        /\ UNCHANGED <<asked, requests, lock, crashes>>
    BY Works DEF Working, Kept, Begun
  <2>2. /\ job[w].pc # "unlink" /\ job'[w].pc # "unlink" /\ responses' = responses
        /\ errors' = errors \/ (errors \in Nat /\ errors' = errors + 1)
    BY <1>2, GoesOnInHand
  <2>3. Served' = Served /\ (Closed' <=> Closed)
    <3>1. lock = w /\ Served = job[w].id /\ ~Closed
      BY <2>1, <2>2, HandIs
    <3> QED
      BY <2>1, <2>2, <3>1, HandNext
  <2>4. CASE errors' = errors
    BY <2>1, <2>2, <2>3, <2>4, Stutters DEF Boxed
  <2>5. CASE errors \in Nat /\ errors' = errors + 1
    <3>1. crashes \in Nat /\ crashes' + errors' = crashes + errors + 1
      BY <2>1, <2>5 DEF BridgeTypeOK
    <3> QED
      BY <2>1, <2>2, <2>3, <2>5, <3>1, Faulted DEF Boxed
  <2> QED
    BY <2>2, <2>4, <2>5
<1> QED
  BY <1>1, <1>2

(* ... and what it does before the lock, and around the requests            *)
LEMMA BoxRuns ==
  ASSUME BridgeTypeOK, HandsOK, NEW w \in Workers,
         Start(w) \/ StartFails(w) \/ RunNext(w)
  PROVE  Boxed
<1>0. /\ JobsTyped /\ lock \in Workers \cup {Absent} /\ blocked \in BOOLEAN
      /\ crashes \in Nat /\ errors \in Nat
  BY DEF JobsTyped, BridgeTypeOK
<1>1. ASSUME NEW i \in Ids, ReapResponse(w, i) PROVE Boxed
  BY <1>1, BoxClear DEF ReapResponse, host, faults, Boxed
<1>2. ASSUME NEW i \in Ids, TakeRequest(w, i) PROVE Boxed
  BY <1>2, BoxTake DEF Boxed
<1>3. CASE StartFails(w)
  <2>1. /\ UNCHANGED <<asked, requests, responses, job, lock>>
        /\ crashes' + errors' = crashes + errors + 1
    BY <1>0, <1>3 DEF StartFails, host, files
  <2>2. Served' = Served /\ (Closed' <=> Closed)
    BY <2>1 DEF Served, Closed
  <2> QED
    BY <1>0, <2>1, <2>2, Faulted DEF Boxed
<1>4. ASSUME NEW n \in Nonces, ReapNonce(w, n) PROVE Boxed
  <2>1. UNCHANGED <<asked, requests, responses, crashes, errors, job, lock>>
    BY <1>4 DEF ReapNonce, host, files, faults
  <2>2. Served' = Served /\ (Closed' <=> Closed)
    BY <2>1 DEF Served, Closed
  <2> QED
    BY <2>1, <2>2, Stutters DEF Boxed
<1>5. CASE Start(w) \/ ReapDone(w) \/ Acquire(w) \/ LockTimeout(w) \/ List(w) \/ Finish(w)
  <2>1. UNCHANGED <<asked, requests, responses, crashes, errors>>
    BY <1>5 DEF Start, ReapDone, Acquire, LockTimeout, List, Finish, host, files, faults
  <2>2. job[w].pc \notin InHand /\ job'[w].pc \notin InHand /\ \A v \in Workers \ {w} : job'[v] = job[v]
    <3>1. job[w].pc \in {"off", "reap", "lock", "list", "next"}
      BY <1>5 DEF Start, ReapDone, Acquire, LockTimeout, List, Finish, At
    <3>2. CASE Start(w)
      BY <1>0, <3>1, <3>2, Starts DEF InHand, Draining
    <3>3. CASE ReapDone(w) \/ Acquire(w)
      BY <1>0, <3>1, <3>3, Goes DEF ReapDone, Acquire, InHand, Draining, PCs
    <3>4. CASE LockTimeout(w) \/ Finish(w)
      BY <1>0, <3>1, <3>4, Stops DEF LockTimeout, Finish, InHand, Draining
    <3>5. CASE List(w)
      <4>1. requests \subseteq Ids
        BY DEF BridgeTypeOK
      <4> QED
        BY <1>0, <3>1, <3>5, <4>1, Lists DEF InHand, Draining
    <3> QED
      BY <1>5, <3>2, <3>3, <3>4, <3>5
  <2>3. lock' = lock \/ (lock = Absent /\ lock' = w) \/ (lock = w /\ lock' = Absent)
    BY <1>5 DEF Start, ReapDone, Acquire, LockTimeout, List, Finish, HandsOK, At, Draining
  <2>4. Served' = Served /\ (Closed' <=> Closed)
    BY <1>0, <2>2, <2>3, HandAside
  <2> QED
    BY <2>1, <2>4, Stutters DEF Boxed
<1> QED
  BY <1>1, <1>2, <1>3, <1>4, <1>5 DEF RunNext

LEMMA BoxOthers ==
  ASSUME BridgeTypeOK, HostNext \/ UserNext \/ Tick \/ UNCHANGED vars
  PROVE  Boxed
<1>1. ASSUME NEW i \in Ids, Post(i) PROVE Boxed
  BY <1>1, BoxPost DEF Boxed
<1>2. ASSUME NEW i \in Ids, Collect(i) PROVE Boxed
  BY <1>2, BoxClear DEF Collect, faults, Boxed
<1>3. CASE (\E i \in Ids : GiveUp(i)) \/ UserNext \/ Tick \/ UNCHANGED vars
  <2>1. UNCHANGED <<asked, requests, responses, crashes, errors, job, lock>>
    BY <1>3 DEF GiveUp, UserNext, Block, DisableSend, Tick, vars, host, files, faults
  <2>2. Served' = Served /\ (Closed' <=> Closed)
    BY <2>1 DEF Served, Closed
  <2> QED
    BY <2>1, <2>2, Stutters DEF Boxed
<1> QED
  BY <1>1, <1>2, <1>3 DEF HostNext

(* The bridge is a mailbox: one request at a time is in hand, it is         *)
(* answered once or after a fault not at all, and only then is its file     *)
(* removed.  So no answer comes for a request that is gone, or comes twice, *)
(* unless a helper was killed or a file could not be removed.               *)
THEOREM BridgeImplementsMailbox == Spec => ImplementsMailbox
<1>1. Init => Box!Init
  <2> SUFFICES ASSUME Init PROVE Box!Init
    OBVIOUS
  <2>1. lock = Absent /\ requests = {} /\ crashes = 0 /\ errors = 0
    BY DEF Init
  <2>2. Posted = {} /\ Replies = [i \in Ids |-> Absent]
    BY DEF Init, Posted, Replies
  <2>3. Served = Absent /\ Closed = FALSE
    BY <2>1 DEF Served, Closed
  <2> QED
    BY <2>1, <2>2, <2>3 DEF Box!Init
<1>2. BridgeInv /\ [Next]_vars => [Box!Next]_(Box!box)
  <2> SUFFICES ASSUME BridgeInv, [Next]_vars PROVE Boxed
    BY DEF Boxed
  <2>0. BridgeTypeOK /\ HandsOK /\ AnswersOK /\ UnlinkOK
    BY DEF BridgeInv
  <2>1. CASE HostNext \/ UserNext \/ Tick \/ UNCHANGED vars
    BY <2>0, <2>1, BoxOthers
  <2>2. ASSUME NEW w \in Workers, Start(w) \/ StartFails(w) \/ RunNext(w) PROVE Boxed
    BY <2>0, <2>2, BoxRuns
  <2>3. ASSUME NEW w \in Workers, RequestNext(w) PROVE Boxed
    BY <2>0, <2>3, BoxWorks, BoxUnlink DEF Working, Boxed
  <2>4. ASSUME NEW w \in Workers, Crash(w) PROVE Boxed
    BY <2>0, <2>4, BoxCrash DEF Boxed
  <2> QED
    BY <2>1, <2>2, <2>3, <2>4 DEF Next
<1> QED
  BY <1>1, <1>2, BridgeInvHolds, PTL DEF Spec, ImplementsMailbox, Box!Spec
================================================================================
