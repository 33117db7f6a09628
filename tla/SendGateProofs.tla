---------------------------- MODULE SendGateProofs ----------------------------
(* What the send gate guarantees for every number of processes, nonces and *)
(* payloads, every TTL, grace period, resolution and bound.                *)
EXTENDS SendGate, TLAPS

--------------------------------------------------------------------------------
(* Whole seconds and ticks *)

LEMMA SecType == \A t \in Nat : Sec(t) \in Nat
  BY GateConstants DEF GateConstants, Sec

LEMMA SecBounds == \A t \in Nat : Sec(t) * Res <= t /\ t < Sec(t) * Res + Res
  BY GateConstants DEF GateConstants, Sec

LEMMA TimesMonotone == \A a, b, r \in Nat : a <= b => a * r <= b * r
  OBVIOUS

LEMMA TimesCancels == \A a, b, r \in Nat : a * r < b * r => a < b
  OBVIOUS

LEMMA TimesDistributes == \A a, b, r \in Nat : (a + b) * r = a * r + b * r
  OBVIOUS

LEMMA SecMonotone == \A s, t \in Nat : s <= t => Sec(s) <= Sec(t)
<1> SUFFICES ASSUME NEW s \in Nat, NEW t \in Nat, s <= t PROVE Sec(s) <= Sec(t)
  OBVIOUS
<1>1. Res \in Nat /\ Sec(s) \in Nat /\ Sec(t) \in Nat
  BY SecType, GateConstants DEF GateConstants
<1>2. Sec(s) * Res < (Sec(t) + 1) * Res
  <2>1. (Sec(t) + 1) * Res = Sec(t) * Res + Res
    BY <1>1, TimesDistributes
  <2>2. Sec(s) * Res <= s /\ t < Sec(t) * Res + Res
    BY SecBounds
  <2> QED
    BY <1>1, <2>1, <2>2
<1>3. Sec(s) < Sec(t) + 1
  BY <1>1, <1>2, TimesCancels
<1> QED
  BY <1>1, <1>3

(* The reaper's age test, on a file no older than its nonce, errs on the    *)
(* side of keeping it: what is older than the TTL has expired.              *)
LEMMA OlderIsExpired ==
  ASSUME NEW snap \in Nat, NEW mtime \in Nat, NEW at \in Nat,
         mtime >= at, Older(snap, mtime, TTL)
  PROVE  snap > Sec(at) + TTL
<1>1. Res \in Nat /\ TTL \in Nat /\ Sec(at) \in Nat
  BY SecType, GateConstants DEF GateConstants
<1>2. (Sec(at) + TTL) * Res < snap * Res
  <2>1. (Sec(at) + TTL) * Res = Sec(at) * Res + TTL * Res
    BY <1>1, TimesDistributes
  <2>2. Sec(at) * Res <= at
    BY SecBounds
  <2>3. snap * Res > mtime + TTL * Res
    BY DEF Older
  <2>4. Sec(at) * Res \in Nat /\ TTL * Res \in Nat /\ snap * Res \in Nat
    BY <1>1
  <2> QED
    BY <2>1, <2>2, <2>3, <2>4
<1> QED
  BY <1>1, <1>2, TimesCancels

(* Between two clock readings: expired in whole seconds means that the full *)
(* TTL has gone by, not expired that less than one second more has.         *)
LEMMA ExpiredIsLate ==
  ASSUME NEW t \in Nat, NEW at \in Nat, Sec(t) > Sec(at) + TTL
  PROVE  t > at + TTL * Res
<1>1. Res \in Nat /\ TTL \in Nat /\ Sec(at) \in Nat /\ Sec(t) \in Nat
  BY SecType, GateConstants DEF GateConstants
<1>2. (Sec(at) + TTL + 1) * Res <= Sec(t) * Res
  BY <1>1, TimesMonotone
<1>3. (Sec(at) + TTL + 1) * Res = Sec(at) * Res + TTL * Res + Res
  BY <1>1, TimesDistributes
<1>4. Sec(t) * Res <= t /\ at < Sec(at) * Res + Res
  BY SecBounds
<1>5. Sec(at) * Res \in Nat /\ TTL * Res \in Nat /\ Sec(t) * Res \in Nat
  BY <1>1
<1> QED
  BY <1>1, <1>2, <1>3, <1>4, <1>5

LEMMA UnexpiredIsSoon ==
  ASSUME NEW t \in Nat, NEW at \in Nat, Sec(t) <= Sec(at) + TTL
  PROVE  t < at + (TTL + 1) * Res
<1>1. Res \in Nat /\ TTL \in Nat /\ Sec(at) \in Nat /\ Sec(t) \in Nat
  BY SecType, GateConstants DEF GateConstants
<1>2. Sec(t) * Res <= (Sec(at) + TTL) * Res
  BY <1>1, TimesMonotone
<1>3. (Sec(at) + TTL) * Res = Sec(at) * Res + TTL * Res /\ (TTL + 1) * Res = TTL * Res + Res
  BY <1>1, TimesDistributes
<1>4. Sec(at) * Res <= at /\ t < Sec(t) * Res + Res
  BY SecBounds
<1>5. Sec(at) * Res \in Nat /\ TTL * Res \in Nat /\ Sec(t) * Res \in Nat
  BY <1>1
<1> QED
  BY <1>1, <1>2, <1>3, <1>4, <1>5

--------------------------------------------------------------------------------
(* Types and tokens *)

(* Every step keeps files, local variables and ghosts well formed.          *)
LEMMA GateTypeStep == GateTypeOK /\ TokenInv /\ [Next]_vars => GateTypeOK'
<1> SUFFICES ASSUME GateTypeOK, TokenInv, [Next]_vars PROVE GateTypeOK'
  OBVIOUS
<1> USE GateConstants DEF GateConstants, GateTypeOK, Files, Grants, Names, Jobs, Idle, Become,
                          At, dir, Put, Unlink, Rename
<1>1. ASSUME NEW w \in Workers, NEW n \in Nonces, NEW p \in Payloads, MintDraw(w, n, p)
      PROVE  GateTypeOK'
  BY <1>1 DEF MintDraw
<1>2. ASSUME NEW w \in Workers, MintWrite(w) PROVE GateTypeOK'
  BY <1>2, SecType DEF MintWrite, Record, TokenInv, UndrawnIsNowhere, Minting
<1>3. ASSUME NEW w \in Workers, MintPublish(w) PROVE GateTypeOK'
  BY <1>3 DEF MintPublish
<1>4. ASSUME NEW w \in Workers, MintFail(w) PROVE GateTypeOK'
  BY <1>4 DEF MintFail
<1>5. ASSUME NEW w \in Workers, NEW n \in Nonces, NEW p \in Payloads, Claim(w, n, p)
      PROVE  GateTypeOK'
  BY <1>5 DEF Claim
<1>6. ASSUME NEW w \in Workers, ReadClaimed(w) PROVE GateTypeOK'
  BY <1>6 DEF ReadClaimed
<1>7. ASSUME NEW w \in Workers, Judge(w) PROVE GateTypeOK'
  BY <1>7 DEF Judge
<1>8. ASSUME NEW w \in Workers, UnlinkClaimed(w) PROVE GateTypeOK'
  BY <1>8 DEF UnlinkClaimed
<1>9. ASSUME NEW w \in Workers, ReapStart(w) PROVE GateTypeOK'
  BY <1>9, SecType DEF ReapStart
<1>10. ASSUME NEW w \in Workers, ReapList(w) PROVE GateTypeOK'
  BY <1>10 DEF ReapList, ReapOn, Listing
<1>11. ASSUME NEW w \in Workers, NEW n \in Nonces, NEW name \in Names, ReapSkip(w, n, name)
       PROVE  GateTypeOK'
  BY <1>11 DEF ReapSkip, ReapOn
<1>12. ASSUME NEW w \in Workers, NEW n \in Nonces, ReapClaim(w, n) PROVE GateTypeOK'
  BY <1>12 DEF ReapClaim
<1>13. ASSUME NEW w \in Workers, NEW n \in Nonces, ReapOpen(w, n) PROVE GateTypeOK'
  BY <1>13 DEF ReapOpen
<1>14. ASSUME NEW w \in Workers, ReapRead(w) PROVE GateTypeOK'
  BY <1>14 DEF ReapRead, ReapOn
<1>15. ASSUME NEW w \in Workers, ReapUnlink(w) PROVE GateTypeOK'
  BY <1>15 DEF ReapUnlink, ReapOn
<1>16. ASSUME NEW w \in Workers, ReapDone(w) PROVE GateTypeOK'
  BY <1>16 DEF ReapDone
<1>17. CASE Tick
  BY <1>17 DEF Tick
<1>18. ASSUME NEW w \in Workers, Crash(w) PROVE GateTypeOK'
  BY <1>18 DEF Crash
<1>19. ASSUME NEW n \in Nonces, Damage(n) PROVE GateTypeOK'
  BY <1>19 DEF Damage
<1>20. CASE UNCHANGED vars
  BY <1>20 DEF vars
<1> HIDE DEF GateTypeOK, Names
<1> QED
  BY <1>1, <1>2, <1>3, <1>4, <1>5, <1>6, <1>7, <1>8, <1>9, <1>10, <1>11, <1>12, <1>13,
     <1>14, <1>15, <1>16, <1>17, <1>18, <1>19, <1>20
     DEF Next, WorkerNext, MintNext, ConsumeNext, ReapNext

(* A process keeps its hold on a nonce, and does not take a verdict back.   *)
SameRole(v, m) ==
    /\ Minting(v, m)' <=> Minting(v, m)
    /\ Claiming(v, m)' <=> Claiming(v, m)
    /\ At(v, "unlink_claimed") => At(v, "unlink_claimed")'

(* A step in which every process keeps its role, no file appears and        *)
(* nothing is granted or let through leaves the tokens alone.               *)
LEMMA QuietStep ==
  ASSUME TokenInv,
         \A v \in Workers, m \in Nonces : SameRole(v, m),
         \A m \in Nonces :
            /\ tmp[m] = Absent => tmp'[m] = Absent
            /\ json[m] = Absent => json'[m] = Absent
            /\ claimed[m] = Absent => claimed'[m] = Absent,
         UNCHANGED <<grant, passes>>
  PROVE  TokenInv'
<1> SUFFICES ASSUME NEW n \in Nonces
             PROVE  /\ UndrawnIsNowhere(n)' /\ MintedByOne(n)' /\ IssuedIsUnused(n)'
                    /\ ClaimedByOne(n)' /\ passes'[n] <= 1
  BY DEF TokenInv
<1>1. UndrawnIsNowhere(n)' /\ MintedByOne(n)' /\ passes'[n] <= 1
  BY DEF TokenInv, UndrawnIsNowhere, MintedByOne, SameRole
<1>2. IssuedIsUnused(n)'
  BY DEF TokenInv, IssuedIsUnused, SameRole
<1>3. ClaimedByOne(n)'
  BY DEF TokenInv, ClaimedByOne, SameRole
<1> QED
  BY <1>1, <1>2, <1>3

(* One nonce is one token: drawn once, minted by one process, claimed by    *)
(* one send, and spent.                                                     *)
LEMMA TokenStep == GateTypeOK /\ TokenInv /\ [Next]_vars => TokenInv'
<1> SUFFICES ASSUME GateTypeOK, TokenInv, [Next]_vars PROVE TokenInv'
  OBVIOUS
<1> USE GateConstants DEF GateConstants, GateTypeOK, Files, Grants, Names, Jobs, Idle, Become,
                          At, dir, Put, Unlink, Rename,
                          TokenInv, UndrawnIsNowhere, MintedByOne, IssuedIsUnused, ClaimedByOne,
                          Minting, Claiming, SameRole
<1>1. ASSUME NEW w \in Workers, NEW n \in Nonces, NEW p \in Payloads, MintDraw(w, n, p)
      PROVE  TokenInv'
  BY <1>1 DEF MintDraw
<1>2. ASSUME NEW w \in Workers, MintWrite(w) PROVE TokenInv'
  BY <1>2, SecType DEF MintWrite, Record
<1>3. ASSUME NEW w \in Workers, MintPublish(w) PROVE TokenInv'
  BY <1>3 DEF MintPublish
<1>4. ASSUME NEW w \in Workers, MintFail(w) PROVE TokenInv'
  BY <1>4 DEF MintFail
<1>5. ASSUME NEW w \in Workers, NEW n \in Nonces, NEW p \in Payloads, Claim(w, n, p)
      PROVE  TokenInv'
  BY <1>5 DEF Claim
<1>6. ASSUME NEW w \in Workers, ReadClaimed(w) PROVE TokenInv'
  <2>1. \A v \in Workers, m \in Nonces : SameRole(v, m)
    BY <1>6 DEF ReadClaimed
  <2> QED
    BY <1>6, <2>1, QuietStep DEF ReadClaimed
<1>7. ASSUME NEW w \in Workers, Judge(w) PROVE TokenInv'
  BY <1>7 DEF Judge
<1>8. ASSUME NEW w \in Workers, UnlinkClaimed(w) PROVE TokenInv'
  BY <1>8 DEF UnlinkClaimed
<1>9. ASSUME NEW w \in Workers, ReapStart(w) PROVE TokenInv'
  BY <1>9, SecType DEF ReapStart
<1>10. ASSUME NEW w \in Workers, ReapList(w) PROVE TokenInv'
  BY <1>10 DEF ReapList, ReapOn, Listing
<1>11. ASSUME NEW w \in Workers, NEW n \in Nonces, NEW name \in Names, ReapSkip(w, n, name)
       PROVE  TokenInv'
  BY <1>11 DEF ReapSkip, ReapOn
<1>12. ASSUME NEW w \in Workers, NEW n \in Nonces, ReapClaim(w, n) PROVE TokenInv'
  BY <1>12 DEF ReapClaim
<1>13. ASSUME NEW w \in Workers, NEW n \in Nonces, ReapOpen(w, n) PROVE TokenInv'
  BY <1>13 DEF ReapOpen
<1>14. ASSUME NEW w \in Workers, ReapRead(w) PROVE TokenInv'
  <2>1. \A v \in Workers, m \in Nonces : SameRole(v, m)
    BY <1>14 DEF ReapRead, ReapOn
  <2> QED
    BY <1>14, <2>1, QuietStep DEF ReapRead
<1>15. ASSUME NEW w \in Workers, ReapUnlink(w) PROVE TokenInv'
  <2>1. \A v \in Workers, m \in Nonces : SameRole(v, m)
    BY <1>15 DEF ReapUnlink, ReapOn
  <2>2. \A m \in Nonces : (json[m] = Absent => json'[m] = Absent)
                        /\ (claimed[m] = Absent => claimed'[m] = Absent)
    BY <1>15 DEF ReapUnlink
  <2> QED
    BY <1>15, <2>1, <2>2, QuietStep DEF ReapUnlink
<1>16. ASSUME NEW w \in Workers, ReapDone(w) PROVE TokenInv'
  BY <1>16 DEF ReapDone
<1>17. CASE Tick
  BY <1>17 DEF Tick
<1>18. ASSUME NEW w \in Workers, Crash(w) PROVE TokenInv'
  BY <1>18 DEF Crash
<1>19. ASSUME NEW n \in Nonces, Damage(n) PROVE TokenInv'
  BY <1>19 DEF Damage
<1>20. CASE UNCHANGED vars
  BY <1>20 DEF vars
<1> HIDE DEF TokenInv, Names
<1> QED
  BY <1>1, <1>2, <1>3, <1>4, <1>5, <1>6, <1>7, <1>8, <1>9, <1>10, <1>11, <1>12, <1>13,
     <1>14, <1>15, <1>16, <1>17, <1>18, <1>19, <1>20
     DEF Next, WorkerNext, MintNext, ConsumeNext, ReapNext

--------------------------------------------------------------------------------
(* Records, reapers and refusals *)

(* Every copy of a record stays what the grant says, in whatever file.      *)
LEMMA RecordsStep ==
  GateTypeOK /\ TokenInv /\ RecordsAreFaithful /\ [Next]_vars => RecordsAreFaithful'
<1> SUFFICES ASSUME GateTypeOK, TokenInv, RecordsAreFaithful, [Next]_vars
             PROVE  RecordsAreFaithful'
  OBVIOUS
<1> USE GateConstants DEF GateConstants, GateTypeOK, Files, Grants, Names, Jobs, Idle, Become,
                          At, dir, Put, Unlink, Rename,
                          TokenInv, UndrawnIsNowhere, Minting, Claiming,
                          RecordsAreFaithful, Faithful, Expires
<1>1. ASSUME NEW w \in Workers, NEW n \in Nonces, NEW p \in Payloads, MintDraw(w, n, p)
      PROVE  RecordsAreFaithful'
  BY <1>1 DEF MintDraw
<1>2. ASSUME NEW w \in Workers, MintWrite(w) PROVE RecordsAreFaithful'
  BY <1>2 DEF MintWrite, Record
<1>3. ASSUME NEW w \in Workers, MintPublish(w) PROVE RecordsAreFaithful'
  BY <1>3 DEF MintPublish
<1>4. ASSUME NEW w \in Workers, MintFail(w) PROVE RecordsAreFaithful'
  BY <1>4 DEF MintFail
<1>5. ASSUME NEW w \in Workers, NEW n \in Nonces, NEW p \in Payloads, Claim(w, n, p)
      PROVE  RecordsAreFaithful'
  BY <1>5 DEF Claim
<1>6. ASSUME NEW w \in Workers, ReadClaimed(w) PROVE RecordsAreFaithful'
  BY <1>6 DEF ReadClaimed
<1>7. ASSUME NEW w \in Workers, Judge(w) PROVE RecordsAreFaithful'
  BY <1>7 DEF Judge
<1>8. ASSUME NEW w \in Workers, UnlinkClaimed(w) PROVE RecordsAreFaithful'
  BY <1>8 DEF UnlinkClaimed
<1>9. ASSUME NEW w \in Workers, ReapStart(w) PROVE RecordsAreFaithful'
  BY <1>9 DEF ReapStart
<1>10. ASSUME NEW w \in Workers, ReapList(w) PROVE RecordsAreFaithful'
  BY <1>10 DEF ReapList, ReapOn
<1>11. ASSUME NEW w \in Workers, NEW n \in Nonces, NEW name \in Names, ReapSkip(w, n, name)
      PROVE  RecordsAreFaithful'
  BY <1>11 DEF ReapSkip, ReapOn
<1>12. ASSUME NEW w \in Workers, NEW n \in Nonces, ReapClaim(w, n) PROVE RecordsAreFaithful'
  BY <1>12 DEF ReapClaim
<1>13. ASSUME NEW w \in Workers, NEW n \in Nonces, ReapOpen(w, n) PROVE RecordsAreFaithful'
  BY <1>13 DEF ReapOpen
<1>14. ASSUME NEW w \in Workers, ReapRead(w) PROVE RecordsAreFaithful'
  <2>1. \A v \in Workers : At(v, "judge")' => At(v, "judge") /\ job'[v] = job[v]
    BY <1>14 DEF ReapRead, ReapOn
  <2>2. UNCHANGED <<now, tmp, json, claimed, grant>>
    BY <1>14 DEF ReapRead
  <2> QED
    BY <2>1, <2>2
<1>15. ASSUME NEW w \in Workers, ReapUnlink(w) PROVE RecordsAreFaithful'
  BY <1>15 DEF ReapUnlink, ReapOn
<1>16. ASSUME NEW w \in Workers, ReapDone(w) PROVE RecordsAreFaithful'
  BY <1>16 DEF ReapDone
<1>17. CASE Tick
  BY <1>17 DEF Tick
<1>18. ASSUME NEW w \in Workers, Crash(w) PROVE RecordsAreFaithful'
  BY <1>18 DEF Crash
<1>19. ASSUME NEW n \in Nonces, Damage(n) PROVE RecordsAreFaithful'
  BY <1>19 DEF Damage
<1>20. CASE UNCHANGED vars
  BY <1>20 DEF vars
<1> HIDE DEF RecordsAreFaithful, Names
<1> QED
  BY <1>1, <1>2, <1>3, <1>4, <1>5, <1>6, <1>7, <1>8, <1>9, <1>10, <1>11, <1>12, <1>13,
     <1>14, <1>15, <1>16, <1>17, <1>18, <1>19, <1>20
     DEF Next, WorkerNext, MintNext, ConsumeNext, ReapNext

(* Reapers stay right about what they are about to unlink.                  *)
LEMMA ReapersStep ==
  GateTypeOK /\ TokenInv /\ RecordsAreFaithful /\ ReapersAreRight /\ [Next]_vars
     => ReapersAreRight'
<1> SUFFICES ASSUME GateTypeOK, TokenInv, RecordsAreFaithful, ReapersAreRight, [Next]_vars
             PROVE  ReapersAreRight'
  OBVIOUS
<1> USE GateConstants DEF GateConstants, GateTypeOK, Files, Grants, Names, Jobs, Idle, Become,
                          At, dir, Put, Unlink, Rename,
                          TokenInv, UndrawnIsNowhere, MintedByOne, Minting, Claiming,
                          ReapersAreRight, Settled, Expires
<1>1. ASSUME NEW w \in Workers, NEW n \in Nonces, NEW p \in Payloads, MintDraw(w, n, p)
      PROVE  ReapersAreRight'
  BY <1>1 DEF MintDraw
<1>2. ASSUME NEW w \in Workers, MintWrite(w) PROVE ReapersAreRight'
  BY <1>2 DEF MintWrite, Record
<1>3. ASSUME NEW w \in Workers, MintPublish(w) PROVE ReapersAreRight'
  BY <1>3 DEF MintPublish
<1>4. ASSUME NEW w \in Workers, MintFail(w) PROVE ReapersAreRight'
  BY <1>4 DEF MintFail
<1>5. ASSUME NEW w \in Workers, NEW n \in Nonces, NEW p \in Payloads, Claim(w, n, p)
      PROVE  ReapersAreRight'
  BY <1>5 DEF Claim
<1>6. ASSUME NEW w \in Workers, ReadClaimed(w) PROVE ReapersAreRight'
  BY <1>6 DEF ReadClaimed
<1>7. ASSUME NEW w \in Workers, Judge(w) PROVE ReapersAreRight'
  BY <1>7 DEF Judge
<1>8. ASSUME NEW w \in Workers, UnlinkClaimed(w) PROVE ReapersAreRight'
  BY <1>8 DEF UnlinkClaimed
<1>9. ASSUME NEW w \in Workers, ReapStart(w) PROVE ReapersAreRight'
  BY <1>9, SecType DEF ReapStart
<1>10. ASSUME NEW w \in Workers, ReapList(w) PROVE ReapersAreRight'
  BY <1>10 DEF ReapList, ReapOn
<1>11. ASSUME NEW w \in Workers, NEW n \in Nonces, NEW name \in Names, ReapSkip(w, n, name)
      PROVE  ReapersAreRight'
  BY <1>11 DEF ReapSkip, ReapOn
<1>12. ASSUME NEW w \in Workers, NEW n \in Nonces, ReapClaim(w, n) PROVE ReapersAreRight'
  <2>1. claimed[n] \in Files /\ Faithful(claimed[n], n) /\ grant[n] \in Grants
    BY <1>12 DEF ReapClaim, RecordsAreFaithful
  <2>2. job[w].snap \in Nat /\ Older(job[w].snap, claimed[n].mtime, TTL)
    BY <1>12 DEF ReapClaim
  <2>3. job[w].snap > Expires(n)
    BY <2>1, <2>2, OlderIsExpired DEF Faithful
  <2>4. Settled(n)
    BY <1>12, <2>1 DEF ReapClaim
  <2> QED
    BY <1>12, <2>3, <2>4 DEF ReapClaim
<1>13. ASSUME NEW w \in Workers, NEW n \in Nonces, ReapOpen(w, n) PROVE ReapersAreRight'
  BY <1>13 DEF ReapOpen
<1>14. ASSUME NEW w \in Workers, ReapRead(w) PROVE ReapersAreRight'
  <2>1. CASE Stale(job[w])
    <3>1. LET n == job[w].nonce IN
             json[n] = Absent \/ n \in damaged \/ job[w].snap > Expires(n)
      BY <1>14, <2>1 DEF ReapRead, Stale, RecordsAreFaithful, Faithful
    <3> QED
      BY <1>14, <2>1, <3>1 DEF ReapRead
  <2>2. CASE ~Stale(job[w])
    BY <1>14, <2>2 DEF ReapRead, ReapOn
  <2> QED
    BY <2>1, <2>2
<1>15. ASSUME NEW w \in Workers, ReapUnlink(w) PROVE ReapersAreRight'
  BY <1>15 DEF ReapUnlink, ReapOn
<1>16. ASSUME NEW w \in Workers, ReapDone(w) PROVE ReapersAreRight'
  BY <1>16 DEF ReapDone
<1>17. CASE Tick
  BY <1>17, SecType, SecMonotone DEF Tick
<1>18. ASSUME NEW w \in Workers, Crash(w) PROVE ReapersAreRight'
  BY <1>18 DEF Crash
<1>19. ASSUME NEW n \in Nonces, Damage(n) PROVE ReapersAreRight'
  BY <1>19 DEF Damage
<1>20. CASE UNCHANGED vars
  BY <1>20 DEF vars
<1> HIDE DEF ReapersAreRight, Names
<1> QED
  BY <1>1, <1>2, <1>3, <1>4, <1>5, <1>6, <1>7, <1>8, <1>9, <1>10, <1>11, <1>12, <1>13,
     <1>14, <1>15, <1>16, <1>17, <1>18, <1>19, <1>20
     DEF Next, WorkerNext, MintNext, ConsumeNext, ReapNext

(* A claim whose file is gone before its send has read it had expired.      *)
LEMMA ClaimsStep ==
  GateTypeOK /\ TokenInv /\ RecordsAreFaithful /\ ReapersAreRight /\ ClaimsLastTheTTL
     /\ [Next]_vars => ClaimsLastTheTTL'
<1> SUFFICES ASSUME GateTypeOK, TokenInv, RecordsAreFaithful, ReapersAreRight,
                    ClaimsLastTheTTL, [Next]_vars
             PROVE  ClaimsLastTheTTL'
  OBVIOUS
<1> USE GateConstants DEF GateConstants, GateTypeOK, Files, Grants, Names, Jobs, Idle, Become,
                          At, dir, Put, Unlink, Rename,
                          TokenInv, UndrawnIsNowhere, MintedByOne, ClaimedByOne, Minting,
                          Claiming, ClaimsLastTheTTL, Expires
<1>1. ASSUME NEW w \in Workers, NEW n \in Nonces, NEW p \in Payloads, MintDraw(w, n, p)
      PROVE  ClaimsLastTheTTL'
  BY <1>1 DEF MintDraw
<1>2. ASSUME NEW w \in Workers, MintWrite(w) PROVE ClaimsLastTheTTL'
  BY <1>2 DEF MintWrite, Record
<1>3. ASSUME NEW w \in Workers, MintPublish(w) PROVE ClaimsLastTheTTL'
  BY <1>3 DEF MintPublish
<1>4. ASSUME NEW w \in Workers, MintFail(w) PROVE ClaimsLastTheTTL'
  BY <1>4 DEF MintFail
<1>5. ASSUME NEW w \in Workers, NEW n \in Nonces, NEW p \in Payloads, Claim(w, n, p)
      PROVE  ClaimsLastTheTTL'
  BY <1>5 DEF Claim
<1>6. ASSUME NEW w \in Workers, ReadClaimed(w) PROVE ClaimsLastTheTTL'
  BY <1>6 DEF ReadClaimed
<1>7. ASSUME NEW w \in Workers, Judge(w) PROVE ClaimsLastTheTTL'
  BY <1>7 DEF Judge
<1>8. ASSUME NEW w \in Workers, UnlinkClaimed(w) PROVE ClaimsLastTheTTL'
  BY <1>8 DEF UnlinkClaimed
<1>9. ASSUME NEW w \in Workers, ReapStart(w) PROVE ClaimsLastTheTTL'
  BY <1>9 DEF ReapStart
<1>10. ASSUME NEW w \in Workers, ReapList(w) PROVE ClaimsLastTheTTL'
  BY <1>10 DEF ReapList, ReapOn
<1>11. ASSUME NEW w \in Workers, NEW n \in Nonces, NEW name \in Names, ReapSkip(w, n, name)
      PROVE  ClaimsLastTheTTL'
  BY <1>11 DEF ReapSkip, ReapOn
<1>12. ASSUME NEW w \in Workers, NEW n \in Nonces, ReapClaim(w, n) PROVE ClaimsLastTheTTL'
  BY <1>12 DEF ReapClaim
<1>13. ASSUME NEW w \in Workers, NEW n \in Nonces, ReapOpen(w, n) PROVE ClaimsLastTheTTL'
  BY <1>13 DEF ReapOpen
<1>14. ASSUME NEW w \in Workers, ReapRead(w) PROVE ClaimsLastTheTTL'
  BY <1>14 DEF ReapRead, ReapOn
<1>15. ASSUME NEW w \in Workers, ReapUnlink(w) PROVE ClaimsLastTheTTL'
  <2>1. \A m \in Nonces : claimed'[m] = Absent /\ claimed[m] # Absent => Sec(now) > Expires(m)
    <3>1. ASSUME NEW m \in Nonces, claimed'[m] = Absent, claimed[m] # Absent
          PROVE  m = job[w].nonce /\ job[w].file # "json" /\ job[w] \in Jobs
                 /\ At(w, "reap_unlink")
      BY <1>15, <3>1 DEF ReapUnlink
    <3>2. ASSUME NEW m \in Nonces, claimed'[m] = Absent, claimed[m] # Absent
          PROVE  job[w].snap > Expires(m) /\ job[w].snap <= Sec(now) /\ job[w].snap \in Nat
      BY <3>1, <3>2 DEF ReapersAreRight
    <3>3. ASSUME NEW m \in Nonces, claimed'[m] = Absent, claimed[m] # Absent
          PROVE  Expires(m) \in Nat
      BY <3>3, SecType DEF TokenInv, UndrawnIsNowhere, Expires
    <3>4. Sec(now) \in Nat
      BY SecType
    <3> QED
      BY <3>2, <3>3, <3>4
  <2>2. \A v \in Workers : At(v, "read_claimed")' => At(v, "read_claimed") /\ job'[v] = job[v]
    BY <1>15 DEF ReapUnlink, ReapOn
  <2>3. UNCHANGED <<now, grant>>
    BY <1>15 DEF ReapUnlink
  <2>4. \A v \in Workers : At(v, "read_claimed") => job[v].nonce \in Nonces
    OBVIOUS
  <2> QED
    BY <2>1, <2>2, <2>3, <2>4 DEF ClaimsLastTheTTL, Expires
<1>16. ASSUME NEW w \in Workers, ReapDone(w) PROVE ClaimsLastTheTTL'
  BY <1>16 DEF ReapDone
<1>17. CASE Tick
  BY <1>17, SecType, SecMonotone DEF Tick
<1>18. ASSUME NEW w \in Workers, Crash(w) PROVE ClaimsLastTheTTL'
  BY <1>18 DEF Crash
<1>19. ASSUME NEW n \in Nonces, Damage(n) PROVE ClaimsLastTheTTL'
  BY <1>19 DEF Damage
<1>20. CASE UNCHANGED vars
  BY <1>20 DEF vars
<1> HIDE DEF ClaimsLastTheTTL, Names
<1> QED
  BY <1>1, <1>2, <1>3, <1>4, <1>5, <1>6, <1>7, <1>8, <1>9, <1>10, <1>11, <1>12, <1>13,
     <1>14, <1>15, <1>16, <1>17, <1>18, <1>19, <1>20
     DEF Next, WorkerNext, MintNext, ConsumeNext, ReapNext

(* A refusal keeps its cause, and a new one has one.                        *)
LEMMA RefusalStep ==
  GateInv /\ [Next]_vars => RefusalHasACause'
<1> SUFFICES ASSUME GateInv, [Next]_vars
             PROVE  RefusalHasACause'
  OBVIOUS
<1> USE GateConstants DEF GateConstants, GateTypeOK, Files, Grants, Names, Jobs, Idle, Become,
                          At, dir, Put, Unlink, Rename, GateInv,
                          TokenInv, UndrawnIsNowhere, ClaimedByOne, Minting,
                          Claiming, RefusalHasACause
<1>1. ASSUME NEW w \in Workers, NEW n \in Nonces, NEW p \in Payloads, MintDraw(w, n, p)
      PROVE  RefusalHasACause'
  BY <1>1 DEF MintDraw
<1>2. ASSUME NEW w \in Workers, MintWrite(w) PROVE RefusalHasACause'
  BY <1>2 DEF MintWrite, Record
<1>3. ASSUME NEW w \in Workers, MintPublish(w) PROVE RefusalHasACause'
  BY <1>3 DEF MintPublish
<1>4. ASSUME NEW w \in Workers, MintFail(w) PROVE RefusalHasACause'
  BY <1>4 DEF MintFail
<1>5. ASSUME NEW w \in Workers, NEW n \in Nonces, NEW p \in Payloads, Claim(w, n, p)
      PROVE  RefusalHasACause'
  BY <1>5 DEF Claim
<1>6. ASSUME NEW w \in Workers, ReadClaimed(w) PROVE RefusalHasACause'
  <2>1. grant[job[w].nonce] \in Grants
    BY <1>6 DEF ReadClaimed
  <2>2. Sec(now) > Expires(job[w].nonce) => now > grant[job[w].nonce].at + TTL * Res
    BY <2>1, ExpiredIsLate DEF Expires
  <2>3. \/ claimed[job[w].nonce] # Absent /\ job[w].nonce \notin damaged
        \/ job[w].nonce \in damaged
        \/ Sec(now) > Expires(job[w].nonce)
    BY <1>6 DEF ReadClaimed, ClaimsLastTheTTL
  <2>4. UNCHANGED <<now, damaged, grant, passes>>
    BY <1>6 DEF ReadClaimed
  <2>5. CASE claimed[job[w].nonce] # Absent /\ job[w].nonce \notin damaged
    BY <1>6, <2>4, <2>5 DEF ReadClaimed
  <2>6. CASE ~(claimed[job[w].nonce] # Absent /\ job[w].nonce \notin damaged)
    BY <1>6, <2>2, <2>3, <2>4, <2>6 DEF ReadClaimed
  <2> QED
    BY <2>5, <2>6
<1>7. ASSUME NEW w \in Workers, Judge(w) PROVE RefusalHasACause'
  <2>1. grant[job[w].nonce] \in Grants
    BY <1>7 DEF Judge
  <2>2. Sec(now) > Expires(job[w].nonce) => now > grant[job[w].nonce].at + TTL * Res
    BY <2>1, ExpiredIsLate DEF Expires
  <2>3. CASE Accepts(job[w])
    BY <1>7, <2>3 DEF Judge
  <2>4. CASE ~Accepts(job[w])
    <3>1. job[w].rec \in Files /\ Faithful(job[w].rec, job[w].nonce) /\ Sec(now) \in Nat
      BY <1>7, SecType DEF Judge, RecordsAreFaithful
    <3>2. Expires(job[w].nonce) \in Nat
      BY <2>1, SecType DEF Expires
    <3>3. \/ job[w].payload # grant[job[w].nonce].payload
          \/ now > grant[job[w].nonce].at + TTL * Res
      BY <2>2, <2>4, <3>1, <3>2 DEF Accepts, Faithful
    <3>4. UNCHANGED <<now, damaged, grant, passes>>
      BY <1>7, <2>4 DEF Judge
    <3> QED
      BY <1>7, <3>3, <3>4 DEF Judge
  <2> QED
    BY <2>3, <2>4
<1>8. ASSUME NEW w \in Workers, UnlinkClaimed(w) PROVE RefusalHasACause'
  BY <1>8 DEF UnlinkClaimed
<1>9. ASSUME NEW w \in Workers, ReapStart(w) PROVE RefusalHasACause'
  BY <1>9 DEF ReapStart
<1>10. ASSUME NEW w \in Workers, ReapList(w) PROVE RefusalHasACause'
  BY <1>10 DEF ReapList, ReapOn
<1>11. ASSUME NEW w \in Workers, NEW n \in Nonces, NEW name \in Names, ReapSkip(w, n, name)
      PROVE  RefusalHasACause'
  BY <1>11 DEF ReapSkip, ReapOn
<1>12. ASSUME NEW w \in Workers, NEW n \in Nonces, ReapClaim(w, n) PROVE RefusalHasACause'
  BY <1>12 DEF ReapClaim
<1>13. ASSUME NEW w \in Workers, NEW n \in Nonces, ReapOpen(w, n) PROVE RefusalHasACause'
  BY <1>13 DEF ReapOpen
<1>14. ASSUME NEW w \in Workers, ReapRead(w) PROVE RefusalHasACause'
  BY <1>14 DEF ReapRead, ReapOn
<1>15. ASSUME NEW w \in Workers, ReapUnlink(w) PROVE RefusalHasACause'
  BY <1>15 DEF ReapUnlink, ReapOn
<1>16. ASSUME NEW w \in Workers, ReapDone(w) PROVE RefusalHasACause'
  BY <1>16 DEF ReapDone
<1>17. CASE Tick
  BY <1>17 DEF Tick
<1>18. ASSUME NEW w \in Workers, Crash(w) PROVE RefusalHasACause'
  BY <1>18 DEF Crash
<1>19. ASSUME NEW n \in Nonces, Damage(n) PROVE RefusalHasACause'
  BY <1>19 DEF Damage
<1>20. CASE UNCHANGED vars
  BY <1>20 DEF vars
<1> HIDE DEF RefusalHasACause, Names
<1> QED
  BY <1>1, <1>2, <1>3, <1>4, <1>5, <1>6, <1>7, <1>8, <1>9, <1>10, <1>11, <1>12, <1>13,
     <1>14, <1>15, <1>16, <1>17, <1>18, <1>19, <1>20
     DEF Next, WorkerNext, MintNext, ConsumeNext, ReapNext

--------------------------------------------------------------------------------
(* The theorems *)

LEMMA GateInvInit == Init => GateInv
  BY GateConstants
     DEF GateConstants, Init, GateInv, GateTypeOK, Jobs, Idle, TokenInv, UndrawnIsNowhere,
         MintedByOne, IssuedIsUnused, ClaimedByOne, Minting, Claiming, At, RecordsAreFaithful,
         ReapersAreRight, ClaimsLastTheTTL, RefusalHasACause

LEMMA GateInvStep == GateInv /\ [Next]_vars => GateInv'
<1> SUFFICES ASSUME GateInv, [Next]_vars PROVE GateInv'
  OBVIOUS
<1>1. GateTypeOK' /\ TokenInv'
  BY GateTypeStep, TokenStep DEF GateInv
<1>2. RecordsAreFaithful' /\ ReapersAreRight'
  BY RecordsStep, ReapersStep DEF GateInv
<1>3. ClaimsLastTheTTL' /\ RefusalHasACause'
  BY ClaimsStep, RefusalStep DEF GateInv
<1> QED
  BY <1>1, <1>2, <1>3 DEF GateInv

(* The inductive invariant holds in every behaviour of the gate: files,     *)
(* local variables and ghosts are well typed, a nonce is one token, every   *)
(* copy of a record is faithful, every reaper is right.                     *)
THEOREM GateInvHolds == Spec => []GateInv
  BY GateInvInit, GateInvStep, PTL DEF Spec

(* Type correctness of the gate: no process ever reads a file, or a local   *)
(* variable, of a shape that its code does not expect.                      *)
THEOREM GateTypeCorrect == Spec => []GateTypeOK
<1>1. GateInv => GateTypeOK
  BY DEF GateInv
<1> QED
  BY <1>1, GateInvHolds, PTL

(* consume_send_nonce is one-shot: however many processes race for a nonce, *)
(* and wherever they are killed, it lets at most one send through.          *)
THEOREM OnePass == Spec => []AtMostOnePass
<1>1. GateInv => AtMostOnePass
  BY DEF GateInv, TokenInv, AtMostOnePass
<1> QED
  BY <1>1, GateInvHolds, PTL

(* A send that claimed its nonce is refused only for a cause, so that no    *)
(* reaper ever makes a valid send fail (reap_expired_nonces).               *)
THEOREM RefusalsHaveCauses == Spec => []RefusalHasACause
<1>1. GateInv => RefusalHasACause
  BY DEF GateInv
<1> QED
  BY <1>1, GateInvHolds, PTL

--------------------------------------------------------------------------------
(* What a step may do *)

(* Only the verdict counts a pass, and it counts one of the nonce in hand.  *)
LEMMA OnlyTheVerdictPasses ==
  ASSUME GateTypeOK, [Next]_vars, NEW n \in Nonces, passes'[n] # passes[n]
  PROVE  \E w \in Workers : Judge(w) /\ Accepts(job[w]) /\ job[w].nonce = n
<1> USE DEF GateTypeOK
<1>1. CASE \E w \in Workers : Judge(w)
  <2> PICK w \in Workers : Judge(w)
    BY <1>1
  <2>1. Accepts(job[w])
    BY DEF Judge
  <2>2. passes' = [passes EXCEPT ![job[w].nonce] = @ + 1]
    BY <2>1 DEF Judge
  <2> QED
    BY <2>1, <2>2
<1>2. CASE ~\E w \in Workers : Judge(w)
  <2>1. UNCHANGED passes
    BY <1>2
       DEF Next, WorkerNext, MintNext, ConsumeNext, ReapNext, MintDraw, MintWrite, MintPublish,
           MintFail, Claim, ReadClaimed, UnlinkClaimed, ReapStart, ReapList, ReapSkip, ReapClaim,
           ReapOpen, ReapRead, ReapUnlink, ReapDone, Tick, Crash, Damage, vars
  <2> QED
    BY <2>1
<1> QED
  BY <1>1, <1>2

(* A send that is let through carries the previewed payload and comes less  *)
(* than a second after the TTL (consume_send_nonce).                        *)
THEOREM PassesAreJustified == Spec => PassIsJustified
<1> DEFINE Justified ==
      \A n \in Nonces : passes'[n] # passes[n] =>
          \E w \in Workers :
             /\ At(w, "judge") /\ job[w].nonce = n
             /\ job[w].payload = grant[n].payload
             /\ now < grant[n].at + (TTL + 1) * Res
<1>1. GateInv /\ [Next]_vars => Justified
  <2> SUFFICES ASSUME GateInv, [Next]_vars, NEW n \in Nonces, passes'[n] # passes[n]
               PROVE  \E w \in Workers :
                         /\ At(w, "judge") /\ job[w].nonce = n
                         /\ job[w].payload = grant[n].payload
                         /\ now < grant[n].at + (TTL + 1) * Res
    OBVIOUS
  <2>1. PICK w \in Workers : Judge(w) /\ Accepts(job[w]) /\ job[w].nonce = n
    BY OnlyTheVerdictPasses DEF GateInv
  <2>2. At(w, "judge") /\ Faithful(job[w].rec, n)
    BY <2>1 DEF Judge, GateInv, RecordsAreFaithful
  <2>3. grant[n] \in Grants
    BY <2>1, <2>2 DEF GateInv, GateTypeOK, TokenInv, UndrawnIsNowhere, Claiming, At
  <2>4. now \in Nat /\ grant[n].at \in Nat
    BY <2>3 DEF GateInv, GateTypeOK, Grants
  <2>5. Sec(now) <= Sec(grant[n].at) + TTL /\ job[w].payload = grant[n].payload
    BY <2>1, <2>2 DEF Accepts, Faithful, Expires
  <2> QED
    BY <2>1, <2>2, <2>4, <2>5, UnexpiredIsSoon
<1> HIDE DEF Justified
<1>2. Spec => [][Justified]_vars
  BY <1>1, GateInvHolds, PTL DEF Spec
<1> QED
  BY <1>2 DEF PassIsJustified, Justified

(* An issued nonce that is intact and not expired leaves its name only for  *)
(* a claim: no reaper removes it, however late it acts on what it saw.      *)
THEOREM LiveNoncesLeaveByClaim == Spec => LiveLeavesByClaim
<1> DEFINE Kept ==
      \A n \in Nonces :
          /\ json[n] # Absent /\ json'[n] = Absent
          /\ n \notin damaged /\ now <= grant[n].at + TTL * Res
          => claimed'[n] = json[n]
<1>1. GateInv /\ [Next]_vars => Kept
  <2> SUFFICES ASSUME GateInv, [Next]_vars, NEW n \in Nonces,
                      json[n] # Absent, json'[n] = Absent,
                      n \notin damaged, now <= grant[n].at + TTL * Res
               PROVE  claimed'[n] = json[n]
    OBVIOUS
  <2> USE DEF GateInv, GateTypeOK, Put, Unlink, Rename
  <2>1. ASSUME NEW w \in Workers, NEW m \in Nonces, NEW p \in Payloads, Claim(w, m, p)
        PROVE  claimed'[n] = json[n]
    BY <2>1 DEF Claim
  <2>2. ASSUME NEW w \in Workers, MintPublish(w) PROVE FALSE
    <3>1. Minting(w, job[w].nonce) /\ job[w].nonce \in Nonces
      BY <2>2 DEF MintPublish, Minting, At, Jobs, Idle
    <3>2. json[job[w].nonce] = Absent
      BY <3>1 DEF TokenInv, MintedByOne
    <3> QED
      BY <2>2, <3>1, <3>2 DEF MintPublish
  <2>3. ASSUME NEW w \in Workers, ReapUnlink(w) PROVE FALSE
    <3>1. job[w].nonce = n /\ job[w].file = "json" /\ job[w].pc = "reap_unlink"
      BY <2>3 DEF ReapUnlink, At
    <3>2. job[w].snap > Expires(n) /\ job[w].snap <= Sec(now)
      BY <3>1 DEF ReapersAreRight, At
    <3>3. job[w].snap \in Nat
      BY <3>1 DEF Jobs, Idle
    <3>4. grant[n] \in Grants
      BY DEF TokenInv, UndrawnIsNowhere
    <3>5. now \in Nat /\ grant[n].at \in Nat /\ Sec(now) \in Nat /\ Expires(n) \in Nat
      BY <3>4, SecType, GateConstants DEF Grants, Expires, GateConstants
    <3>6. Sec(now) > Sec(grant[n].at) + TTL
      BY <3>2, <3>3, <3>5 DEF Expires
    <3>7. now > grant[n].at + TTL * Res
      BY <3>5, <3>6, ExpiredIsLate
    <3>8. TTL * Res \in Nat
      BY GateConstants DEF GateConstants
    <3> QED
      BY <3>5, <3>7, <3>8
  <2>4. CASE ~\E w \in Workers :
                 \/ MintPublish(w) \/ ReapUnlink(w)
                 \/ \E m \in Nonces, p \in Payloads : Claim(w, m, p)
    <3>1. UNCHANGED json
      BY <2>4
         DEF Next, WorkerNext, MintNext, ConsumeNext, ReapNext, MintDraw, MintWrite, MintFail,
             ReadClaimed, Judge, UnlinkClaimed, ReapStart, ReapList, ReapSkip, ReapClaim,
             ReapOpen, ReapRead, ReapDone, Tick, Crash, Damage, vars, dir
    <3> QED
      BY <3>1
  <2> QED
    BY <2>1, <2>2, <2>3, <2>4
<1> HIDE DEF Kept
<1>2. Spec => [][Kept]_vars
  BY <1>1, GateInvHolds, PTL DEF Spec
<1> QED
  BY <1>2 DEF LiveLeavesByClaim, Kept
================================================================================
