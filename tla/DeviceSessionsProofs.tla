------------------------ MODULE DeviceSessionsProofs ------------------------
(***************************************************************************)
(* Proofs about DeviceSessions for any number of handlers, nonces,         *)
(* sessions, credentials, login attempts and challenges.                   *)
(***************************************************************************)
EXTENDS DeviceSessions, SequenceTheorems, TLAPS

-----------------------------------------------------------------------------
(* The inductive invariant: what the properties say, plus the rows that   *)
(* make it so and what a handler still knows of them at its second step.  *)

HmacOrLater == device.mode \in {"HMAC_LEGACY", "WEBAUTHN"}

\* A device in token mode is active; an HMAC device was never paired.
DeviceRow ==
  /\ device.mode = "DEVICE_TOKEN" => device.status = "ACTIVE" /\ device.pairing \in DOMAIN credential
  /\ device.mode = "HMAC_LEGACY" => device.pairing = 0

\* A session carries the credential it was opened with; an active one is of the
\* device's present pairing or, when an HMAC login opened it in time, of its secret.
SessionRow(s) ==
  /\ session[s].credential = IF session[s].mode = "WEBAUTHN" THEN session[s].pairing ELSE 0
  /\ session[s].mode = "HMAC_LEGACY" => session[s].pairing = 0 /\ HmacOrLater
  /\ session[s].mode # "HMAC_LEGACY" => session[s].pairing \in DOMAIN credential
  /\ session[s].mode # "HMAC_LEGACY" /\ session[s].status = "ACTIVE" =>
       /\ device.status = "ACTIVE" /\ session[s].mode = device.mode
       /\ session[s].pairing = device.pairing /\ Active(session[s].pairing)
  /\ session[s].mode = "HMAC_LEGACY" /\ session[s].status = "ACTIVE" /\ ~session[s].late =>
       /\ device.status = "ACTIVE" /\ device.mode = "HMAC_LEGACY"
       /\ session[s].secret = device.secret

\* What a session was opened with is spent.
ProofRow(s) ==
  LET proof == session[s].proof
  IN  /\ proof[1] = "attestation" => proof[2] \in used
      /\ proof[1] = "attempt" => proof[2] \in DOMAIN attempt /\ attempt[proof[2]] = "consumed"
      /\ proof[1] = "session" => proof[2] \in DOMAIN session /\ session[proof[2]].status = "REVOKED"

\* What a credential was enrolled with is spent.
ChallengeRow(c) ==
  credential[c].by # 0 => credential[c].by \in DOMAIN challenge /\ ~challenge[credential[c].by].open

\* What a handler found at its first step and relies on at its second.
HandlerRow(r) ==
  /\ At(r, "login") => /\ HmacOrLater /\ request[r].saw.pairing = 0
                       /\ request[r].saw.status = "ACTIVE" /\ request[r].saw.mode = "HMAC_LEGACY"
  /\ At(r, "complete") => request[r].of \in DOMAIN attempt /\ request[r].with \in DOMAIN credential
  /\ At(r, "token") => request[r].of \in DOMAIN credential
  /\ At(r, "refresh") => request[r].of \in DOMAIN session
  /\ At(r, "enroll") => /\ request[r].of \in DOMAIN challenge /\ challenge[request[r].of].open
                        /\ request[r].saw.mode # "DEVICE_TOKEN"
                        /\ \A p \in Requests : At(p, "enroll") /\ request[p].of = request[r].of => p = r

\* The parts of ProofSpentOnce that are not ProofRow's.
SessionProofsDiffer ==
  \A s, t \in DOMAIN session :
    session[s].proof = session[t].proof /\ session[s].proof[1] # "token" => s = t
CredentialProofsDiffer ==
  \A c, d \in DOMAIN credential :
    credential[c].by = credential[d].by /\ credential[c].by # 0 => c = d

DeviceInv == DeviceRow /\ CredentialIsThePairing
SessionInv == SessionProofsDiffer /\ \A s \in DOMAIN session : SessionRow(s) /\ ProofRow(s)
ChallengeInv == CredentialProofsDiffer /\ \A c \in DOMAIN credential : ChallengeRow(c)
HandlerInv == \A r \in Requests : HandlerRow(r)

Inv == TypeOK /\ DeviceInv /\ SessionInv /\ ChallengeInv /\ HandlerInv

-----------------------------------------------------------------------------
(* Sequences of rows. *)

LEMMA RowsOf ==
  ASSUME NEW S, NEW seq \in Seq(S)
  PROVE  DOMAIN seq = 1 .. Len(seq) /\ Len(seq) \in Nat /\ \A i \in DOMAIN seq : seq[i] \in S
BY LenProperties, ElementOfSeq

LEMMA RowAdded ==
  ASSUME NEW S, NEW seq \in Seq(S), NEW e \in S
  PROVE  /\ Append(seq, e) \in Seq(S)
         /\ DOMAIN Append(seq, e) = DOMAIN seq \cup {Len(seq) + 1}
         /\ Len(seq) + 1 \notin DOMAIN seq /\ Len(seq) + 1 \in Nat \ {0}
         /\ Append(seq, e)[Len(seq) + 1] = e
         /\ \A i \in DOMAIN seq : Append(seq, e)[i] = seq[i]
<1>1. /\ DOMAIN seq = 1 .. Len(seq) /\ Len(seq) \in Nat
  BY LenProperties
<1>2. /\ Append(seq, e) \in Seq(S) /\ Len(Append(seq, e)) = Len(seq) + 1
      /\ \A i \in 1 .. Len(seq) : Append(seq, e)[i] = seq[i]
      /\ Append(seq, e)[Len(seq) + 1] = e
  BY AppendProperties
<1>3. DOMAIN Append(seq, e) = 1 .. Len(seq) + 1
  BY <1>2, LenProperties
<1> QED
  BY <1>1, <1>2, <1>3

\* Rows that are changed in place stay a sequence.
LEMMA RowsUpdated ==
  ASSUME NEW S, NEW seq \in Seq(S), NEW f, f = [i \in DOMAIN seq |-> f[i]],
         \A i \in DOMAIN seq : f[i] \in S
  PROVE  f \in Seq(S) /\ DOMAIN f = DOMAIN seq /\ Len(f) = Len(seq)
<1>1. DOMAIN seq = 1 .. Len(seq) /\ Len(seq) \in Nat
  BY LenProperties
<1>2. f \in [1 .. Len(seq) -> S]
  BY <1>1
<1>3. f \in Seq(S)
  BY <1>1, <1>2, SeqDef
<1> QED
  BY <1>1, <1>2, <1>3, LenProperties

\* What the rows' types say of their modes and numbers.
LEMMA RowModes ==
  ASSUME TypeOK
  PROVE  /\ \A c \in DOMAIN credential : credential[c].mode \in {"DEVICE_TOKEN", "WEBAUTHN"}
         /\ \A s \in DOMAIN session : session[s].mode \in Modes \ {"UNPAIRED"}
         /\ DOMAIN credential \subseteq Nat \ {0}
<1>1. credential \in Seq(Credentials) /\ session \in Seq(Sessions)
  BY DEF TypeOK
<1>2. /\ \A c \in DOMAIN credential : credential[c] \in Credentials
      /\ \A s \in DOMAIN session : session[s] \in Sessions
      /\ DOMAIN credential = 1 .. Len(credential) /\ Len(credential) \in Nat
  BY <1>1, RowsOf
<1>3. \A c \in DOMAIN credential : credential[c].mode \in {"DEVICE_TOKEN", "WEBAUTHN"}
  BY <1>2 DEF Credentials
<1>4. \A s \in DOMAIN session : session[s].mode \in Modes \ {"UNPAIRED"}
  BY <1>2 DEF Sessions
<1> QED
  BY <1>2, <1>3, <1>4

LEMMA RevokedRows ==
  ASSUME TypeOK, NEW S
  PROVE  /\ Revoked(S) \in Seq(Sessions) /\ DOMAIN Revoked(S) = DOMAIN session
         /\ Len(Revoked(S)) = Len(session)
         /\ \A s \in DOMAIN session :
              /\ Revoked(S)[s].mode = session[s].mode /\ Revoked(S)[s].pairing = session[s].pairing
              /\ Revoked(S)[s].credential = session[s].credential
              /\ Revoked(S)[s].proof = session[s].proof /\ Revoked(S)[s].secret = session[s].secret
              /\ Revoked(S)[s].late = session[s].late
              /\ Revoked(S)[s].status = IF s \in S THEN "REVOKED" ELSE session[s].status
<1>1. session \in Seq(Sessions)
  BY DEF TypeOK
<1>2. \A s \in DOMAIN session : session[s] \in Sessions
  BY <1>1, RowsOf
<1>3. Revoked(S) = [s \in DOMAIN session |-> Revoked(S)[s]]
  BY DEF Revoked
<1>4. \A s \in DOMAIN session : /\ Revoked(S)[s] \in Sessions
         /\ Revoked(S)[s].mode = session[s].mode /\ Revoked(S)[s].pairing = session[s].pairing
         /\ Revoked(S)[s].credential = session[s].credential
         /\ Revoked(S)[s].proof = session[s].proof /\ Revoked(S)[s].secret = session[s].secret
         /\ Revoked(S)[s].late = session[s].late
         /\ Revoked(S)[s].status = IF s \in S THEN "REVOKED" ELSE session[s].status
  BY <1>2 DEF Revoked, Sessions
<1> QED
  BY <1>1, <1>3, <1>4, RowsUpdated

LEMMA ClosedRows ==
  ASSUME TypeOK, NEW mode, NEW as \in {"REVOKED", "SUPERSEDED"}
  PROVE  /\ Close(mode, as) \in Seq(Credentials) /\ DOMAIN Close(mode, as) = DOMAIN credential
         /\ Len(Close(mode, as)) = Len(credential)
         /\ \A c \in DOMAIN credential :
              /\ Close(mode, as)[c].mode = credential[c].mode
              /\ Close(mode, as)[c].by = credential[c].by
              /\ Close(mode, as)[c].status = IF c \in ActiveOf(mode) THEN as ELSE credential[c].status
<1>1. credential \in Seq(Credentials)
  BY DEF TypeOK
<1>2. \A c \in DOMAIN credential : credential[c] \in Credentials
  BY <1>1, RowsOf
<1>3. Close(mode, as) = [c \in DOMAIN credential |-> Close(mode, as)[c]]
  BY DEF Close
<1>4. \A c \in DOMAIN credential : /\ Close(mode, as)[c] \in Credentials
         /\ Close(mode, as)[c].mode = credential[c].mode
         /\ Close(mode, as)[c].by = credential[c].by
         /\ Close(mode, as)[c].status = IF c \in ActiveOf(mode) THEN as ELSE credential[c].status
  BY <1>2 DEF Close, Credentials
<1> QED
  BY <1>1, <1>3, <1>4, RowsUpdated

-----------------------------------------------------------------------------
(* What is common to the steps. *)

\* No row is ever deleted, and an HMAC device is only ever re-paired with WebAuthn.
RowsStay == /\ DOMAIN session \subseteq DOMAIN session' /\ DOMAIN credential \subseteq DOMAIN credential'
            /\ DOMAIN attempt \subseteq DOMAIN attempt' /\ DOMAIN challenge \subseteq DOMAIN challenge'
            /\ HmacOrLater => HmacOrLater'

\* A step after which every handler is where it was, or idle.
LEMMA HandlersKept ==
  ASSUME Inv, RowsStay,
         \A p \in Requests : request'[p] = request[p] \/ request'[p] = Idle,
         \A h \in DOMAIN challenge : challenge[h].open =>
            \/ challenge'[h].open
            \/ \A p \in Requests : request'[p].op = "enroll" => request'[p].of # h
  PROVE  HandlerInv'
<1> SUFFICES ASSUME NEW p \in Requests PROVE HandlerRow(p)'
  BY DEF HandlerInv
<1>0. Idle.op = "idle"
  BY DEF Idle
<1>1. CASE request'[p] = Idle
  BY <1>0, <1>1 DEF HandlerRow, At
<1>2. CASE request'[p] = request[p]
  <2>1. HandlerRow(p)
    BY DEF Inv, HandlerInv
  <2>2. \A q \in Requests : request'[q].op = "enroll" => request'[q] = request[q]
    BY <1>0
  <2> QED
    BY <1>2, <2>1, <2>2 DEF HandlerRow, At, RowsStay
<1> QED
  BY <1>1, <1>2

LEMMA HandlerEnds ==
  ASSUME TypeOK, NEW r \in Requests, End(r)
  PROVE  /\ request' \in [Requests -> Handlers]
         /\ \A p \in Requests : request'[p] = IF p = r THEN Idle ELSE request[p]
<1>1. Idle \in Handlers
  BY DEF Idle, Unseen, Handlers, Ops, Devices, Modes
<1> QED
  BY <1>1 DEF End, TypeOK

\* The first step of a handler.
LEMMA BeginPreserves ==
  ASSUME Inv, NEW r \in Requests, NEW op \in Ops, NEW of \in Nat, NEW c \in Nat,
         BeginWith(r, op, of, c),
         op = "login" => device.mode = "HMAC_LEGACY" /\ device.status = "ACTIVE",
         op = "complete" => of \in DOMAIN attempt /\ c \in DOMAIN credential,
         op = "token" => of \in DOMAIN credential,
         op = "refresh" => of \in DOMAIN session,
         op = "enroll" => /\ of \in DOMAIN challenge /\ challenge[of].open
                          /\ device.mode # "DEVICE_TOKEN"
                          /\ \A p \in Requests : At(p, "enroll") => request[p].of # of
  PROVE  Inv'
<1>1. UNCHANGED rows
  BY DEF BeginWith
<1>2. /\ request' \in [Requests -> Handlers]
      /\ request'[r] = [op |-> op, of |-> of, with |-> c, saw |-> device]
      /\ \A p \in Requests : p # r => request'[p] = request[p]
  BY DEF BeginWith, Inv, TypeOK, Handlers
<1>3. TypeOK'
  BY <1>1, <1>2 DEF Inv, TypeOK, rows
<1>4. DeviceInv' /\ ChallengeInv'
  BY <1>1 DEF Inv, rows, DeviceInv, ChallengeInv, DeviceRow, CredentialIsThePairing, Active,
              CredentialProofsDiffer, ChallengeRow
<1>5. SessionInv'
  BY <1>1 DEF Inv, rows, SessionInv, SessionProofsDiffer, SessionRow, ProofRow, HmacOrLater, Active
<1>6. ASSUME NEW p \in Requests PROVE HandlerRow(p)'
  <2>1. HandlerRow(p) /\ HandlerRow(r)
    BY DEF Inv, HandlerInv
  <2>2. CASE p = r
    BY <1>1, <1>2, <2>1, <2>2 DEF Inv, DeviceInv, DeviceRow, rows, HandlerRow, At, HmacOrLater
  <2>3. CASE p # r
    BY <1>1, <1>2, <2>1, <2>3 DEF rows, HandlerRow, At, HmacOrLater
  <2> QED
    BY <2>2, <2>3
<1> QED
  BY <1>3, <1>4, <1>5, <1>6 DEF Inv, HandlerInv

\* The session a token or a WebAuthn login opens.
LEMMA OpenedRow ==
  ASSUME NEW mode \in {"DEVICE_TOKEN", "WEBAUTHN"}, NEW pairing \in Nat, NEW proof \in Proofs
  PROVE  LET row == Opened(mode, pairing, proof)
         IN  /\ row \in Sessions /\ row.status = "ACTIVE" /\ row.mode = mode
             /\ row.pairing = pairing /\ row.proof = proof
             /\ row.credential = IF mode = "WEBAUTHN" THEN pairing ELSE 0
BY DEF Opened, Sessions, Modes

\* A step that opens one session and leaves device and credentials alone.
LEMMA IssuePreserves ==
  ASSUME Inv, NEW S, NEW row \in Sessions, NEW mode, NEW pairing, NEW proof,
         row.status = "ACTIVE", row.mode = mode, row.pairing = pairing, row.proof = proof,
         row.credential = IF mode = "WEBAUTHN" THEN pairing ELSE 0,
         IssueSession(row, Revoked(S)) \/ IssueSession(row, session),
         UNCHANGED <<device, credential, challenge>>,
         used \subseteq used', DOMAIN attempt \subseteq DOMAIN attempt',
         \A a \in DOMAIN attempt : attempt[a] = "consumed" => attempt'[a] = "consumed",
         mode = "HMAC_LEGACY" => pairing = 0 /\ HmacOrLater,
         mode = "HMAC_LEGACY" /\ ~row.late =>
            device.status = "ACTIVE" /\ device.mode = "HMAC_LEGACY" /\ row.secret = device.secret,
         mode # "HMAC_LEGACY" => /\ device.status = "ACTIVE" /\ mode = device.mode
                                 /\ pairing = device.pairing /\ pairing \in DOMAIN credential
                                 /\ Active(pairing),
         proof[1] = "attestation" => proof[2] \in used',
         proof[1] = "attempt" => proof[2] \in DOMAIN attempt' /\ attempt'[proof[2]] = "consumed",
         proof[1] = "session" => /\ proof[2] \in DOMAIN session
                                 /\ session'[proof[2]].status = "REVOKED",
         \A s \in DOMAIN session : session[s].proof = proof => proof[1] = "token"
  PROVE  session' \in Seq(Sessions) /\ DOMAIN session \subseteq DOMAIN session' /\ SessionInv'
<1>0. PICK new : new = Len(session) + 1
  OBVIOUS
<1>2. /\ session' \in Seq(Sessions) /\ DOMAIN session' = DOMAIN session \cup {new}
      /\ new \notin DOMAIN session /\ session'[new] = row
      /\ \A s \in DOMAIN session :
           /\ session'[s].mode = session[s].mode /\ session'[s].pairing = session[s].pairing
           /\ session'[s].credential = session[s].credential
           /\ session'[s].proof = session[s].proof /\ session'[s].secret = session[s].secret
           /\ session'[s].late = session[s].late
           /\ session[s].status = "REVOKED" => session'[s].status = "REVOKED"
           /\ session'[s].status = "ACTIVE" => session[s].status = "ACTIVE"
  <2>1. CASE session' = Append(session, row)
    BY <1>0, <2>1, RowAdded DEF Inv, TypeOK
  <2>2. CASE session' = Append(Revoked(S), row)
    BY <1>0, <2>2, RevokedRows, RowAdded DEF Inv
  <2> QED
    BY <2>1, <2>2 DEF IssueSession
<1>3. ASSUME NEW s \in DOMAIN session PROVE SessionRow(s)' /\ ProofRow(s)'
  <2>1. SessionRow(s) /\ ProofRow(s)
    BY DEF Inv, SessionInv
  <2>2. SessionRow(s)'
    BY <1>2, <2>1 DEF SessionRow, HmacOrLater, Active
  <2>3. ProofRow(s)'
    BY <1>2, <2>1 DEF ProofRow
  <2> QED
    BY <2>2, <2>3
<1>4. SessionRow(new)'
  BY <1>2 DEF SessionRow, HmacOrLater, Active
<1>5. ProofRow(new)'
  BY <1>2 DEF ProofRow
<1>6. SessionProofsDiffer'
  BY <1>2 DEF Inv, SessionInv, SessionProofsDiffer
<1> QED
  BY <1>2, <1>3, <1>4, <1>5, <1>6 DEF SessionInv

\* A step that closes every session.
LEMMA CloseAllPreserves ==
  ASSUME Inv, RowsStay, session' = Revoked(DOMAIN session), UNCHANGED <<attempt, used>>
  PROVE  session' \in Seq(Sessions) /\ SessionInv'
<1>1. /\ session' \in Seq(Sessions) /\ DOMAIN session' = DOMAIN session
      /\ \A s \in DOMAIN session :
           /\ session'[s].mode = session[s].mode /\ session'[s].pairing = session[s].pairing
           /\ session'[s].credential = session[s].credential
           /\ session'[s].proof = session[s].proof /\ session'[s].secret = session[s].secret
           /\ session'[s].late = session[s].late
           /\ session'[s].status = "REVOKED"
  BY RevokedRows DEF Inv
<1>2. ASSUME NEW s \in DOMAIN session PROVE SessionRow(s)' /\ ProofRow(s)'
  <2>1. SessionRow(s) /\ ProofRow(s)
    BY DEF Inv, SessionInv
  <2>2. SessionRow(s)'
    BY <1>1, <2>1 DEF SessionRow, RowsStay
  <2>3. ProofRow(s)'
    BY <1>1, <2>1 DEF ProofRow
  <2> QED
    BY <2>2, <2>3
<1>3. SessionProofsDiffer'
  BY <1>1 DEF Inv, SessionInv, SessionProofsDiffer
<1> QED
  BY <1>1, <1>2, <1>3 DEF SessionInv

\* The end of a handler that has not changed device, credentials and challenges.
LEMMA EndPreserves ==
  ASSUME Inv, NEW r \in Requests, End(r), UNCHANGED <<device, credential, challenge>>,
         SessionInv', session' \in Seq(Sessions), DOMAIN session \subseteq DOMAIN session',
         attempt' \in Seq({"open", "consumed"}), DOMAIN attempt \subseteq DOMAIN attempt',
         used' \subseteq Nonces
  PROVE  Inv'
<1>0. TypeOK
  BY DEF Inv
<1>1. TypeOK'
  BY <1>0, HandlerEnds DEF TypeOK
<1>2. DeviceInv' /\ ChallengeInv'
  BY DEF Inv, DeviceInv, ChallengeInv, DeviceRow, CredentialIsThePairing, Active,
         CredentialProofsDiffer, ChallengeRow
<1>3. RowsStay
  BY DEF RowsStay, HmacOrLater
<1>4. HandlerInv'
  BY <1>0, <1>3, HandlersKept, HandlerEnds
<1> QED
  BY <1>1, <1>2, <1>4 DEF Inv

-----------------------------------------------------------------------------
(* One lemma per operation. *)

LEMMA FirstStepsPreserve ==
  ASSUME Inv, NEW r \in Requests,
         \/ Login(r) \/ Authorize(r)
         \/ \E a \in DOMAIN attempt, c \in DOMAIN credential : FindAttempt(r, a, c)
         \/ \E c \in DOMAIN credential : FindToken(r, c)
         \/ \E s \in DOMAIN session : ReadSession(r, s)
         \/ \E h \in DOMAIN challenge : ConsumeChallenge(r, h)
         \/ \E change \in {"ACTIVE", "INACTIVE", "rotate"} : ReadDevice(r, change)
  PROVE  Inv'
<1> USE DEF Begin, Ops
<1>0. /\ DOMAIN attempt \subseteq Nat /\ DOMAIN credential \subseteq Nat
      /\ DOMAIN session \subseteq Nat /\ DOMAIN challenge \subseteq Nat
  <2>1. /\ attempt \in Seq({"open", "consumed"}) /\ credential \in Seq(Credentials)
        /\ session \in Seq(Sessions) /\ challenge \in Seq(Challenges)
    BY DEF Inv, TypeOK
  <2> QED
    BY <2>1, RowsOf
<1>1. CASE Login(r)
  BY <1>1, BeginPreserves DEF Login
<1>2. CASE Authorize(r)
  BY <1>2, BeginPreserves DEF Authorize
<1>3. ASSUME NEW a \in DOMAIN attempt, NEW c \in DOMAIN credential, FindAttempt(r, a, c)
      PROVE  Inv'
  BY <1>0, <1>3, BeginPreserves DEF FindAttempt
<1>4. ASSUME NEW c \in DOMAIN credential, FindToken(r, c)
      PROVE  Inv'
  BY <1>0, <1>4, BeginPreserves DEF FindToken
<1>5. ASSUME NEW s \in DOMAIN session, ReadSession(r, s)
      PROVE  Inv'
  BY <1>0, <1>5, BeginPreserves DEF ReadSession
<1>6. ASSUME NEW h \in DOMAIN challenge, ConsumeChallenge(r, h)
      PROVE  Inv'
  <2>1. device.mode # "DEVICE_TOKEN"
    BY <1>6 DEF ConsumeChallenge, Suits
  <2> QED
    BY <1>0, <1>6, <2>1, BeginPreserves DEF ConsumeChallenge
<1>7. ASSUME NEW change \in {"ACTIVE", "INACTIVE", "rotate"}, ReadDevice(r, change)
      PROVE  Inv'
  BY <1>7, BeginPreserves DEF ReadDevice
<1> QED
  BY <1>1, <1>2, <1>3, <1>4, <1>5, <1>6, <1>7

LEMMA GiveUpPreserves ==
  ASSUME Inv, NEW r \in Requests, GiveUp(r)
  PROVE  Inv'
<1>1. UNCHANGED rows /\ End(r)
  BY DEF GiveUp
<1>2. SessionInv'
  BY <1>1 DEF Inv, rows, SessionInv, SessionProofsDiffer, SessionRow, ProofRow, HmacOrLater, Active
<1> QED
  BY <1>1, <1>2, EndPreserves DEF rows, Inv, TypeOK

LEMMA AttestPreserves ==
  ASSUME Inv, NEW r \in Requests, NEW n \in Nonces, Attest(r, n)
  PROVE  Inv'
<1>0. PICK proof : proof = <<"attestation", n>>
  OBVIOUS
<1>1. proof \in Proofs /\ proof[1] = "attestation" /\ proof[2] = n
  BY <1>0 DEF Proofs
<1>2. /\ request[r].saw.pairing = 0 /\ HmacOrLater
      /\ request[r].saw.status = "ACTIVE" /\ request[r].saw.mode = "HMAC_LEGACY"
      /\ request[r].saw.secret \in Nat
  BY DEF Attest, Inv, TypeOK, HandlerInv, HandlerRow, Handlers, Devices
<1>3. PICK row : row = Attested(r, n) /\ IssueSession(row, session)
  BY DEF Attest
<1>4. /\ row \in Sessions /\ row.status = "ACTIVE" /\ row.mode = "HMAC_LEGACY"
      /\ row.pairing = 0 /\ row.proof = proof /\ row.credential = 0
      /\ row.secret = request[r].saw.secret /\ row.late = (device # request[r].saw)
  <2>1. PICK late \in BOOLEAN : late = (device # request[r].saw)
    BY Zenon
  <2>2. row = [Opened("HMAC_LEGACY", 0, proof) EXCEPT !.secret = request[r].saw.secret, !.late = late]
    BY <1>0, <1>2, <1>3, <2>1, Zenon DEF Attested
  <2>3. row = [status |-> "ACTIVE", mode |-> "HMAC_LEGACY", pairing |-> 0, proof |-> proof,
               credential |-> 0, secret |-> request[r].saw.secret, late |-> late]
    BY <2>2 DEF Opened
  <2>4. row \in Sessions
    BY <1>1, <1>2, <2>3 DEF Sessions, Modes
  <2> QED
    BY <2>1, <2>3, <2>4, Zenon
<1>5. ~row.late => /\ device.status = "ACTIVE" /\ device.mode = "HMAC_LEGACY"
                   /\ row.secret = device.secret
  BY <1>2, <1>4
<1>6. \A s \in DOMAIN session : session[s].proof # proof
  BY <1>1 DEF Attest, Inv, SessionInv, ProofRow
<1>7. session' \in Seq(Sessions) /\ DOMAIN session \subseteq DOMAIN session' /\ SessionInv'
  <2>1. UNCHANGED <<device, credential, challenge, attempt>> /\ used \subseteq used' /\ n \in used'
    BY DEF Attest
  <2> QED
    BY <1>1, <1>2, <1>3, <1>4, <1>5, <1>6, <2>1, IssuePreserves
<1> QED
  BY <1>7, EndPreserves DEF Attest, Inv, TypeOK

LEMMA AttemptPreserves ==
  ASSUME Inv, NEW r \in Requests, BeginCashierWebAuthnLogin(r)
  PROVE  Inv'
<1>1. /\ attempt' \in Seq({"open", "consumed"}) /\ DOMAIN attempt \subseteq DOMAIN attempt'
      /\ \A a \in DOMAIN attempt : attempt'[a] = attempt[a]
  BY RowAdded DEF BeginCashierWebAuthnLogin, Inv, TypeOK
<1>2. SessionInv'
  BY <1>1 DEF BeginCashierWebAuthnLogin, Inv, SessionInv, SessionProofsDiffer, SessionRow,
              ProofRow, HmacOrLater, Active
<1> QED
  BY <1>1, <1>2, EndPreserves DEF BeginCashierWebAuthnLogin, Inv, TypeOK

LEMMA CompletePreserves ==
  ASSUME Inv, NEW r \in Requests, CompleteCashierLogin(r)
  PROVE  Inv'
<1>0. PICK a, c, proof : a = request[r].of /\ c = request[r].with /\ proof = <<"attempt", a>>
  OBVIOUS
<1>1. a \in DOMAIN attempt /\ c \in DOMAIN credential
  BY <1>0 DEF CompleteCashierLogin, Inv, HandlerInv, HandlerRow
<1>2. a \in Nat /\ c \in Nat
  BY <1>0 DEF Inv, TypeOK, Handlers
<1>3. proof \in Proofs /\ proof[1] = "attempt" /\ proof[2] = a
  BY <1>0, <1>2 DEF Proofs
<1>4. /\ device.status = "ACTIVE" /\ device.mode = "WEBAUTHN" /\ Active(c) /\ attempt[a] = "open"
      /\ attempt' = [attempt EXCEPT ![a] = "consumed"]
      /\ IssueSession(Opened("WEBAUTHN", c, proof), session)
  BY <1>0 DEF CompleteCashierLogin, Claimable
<1>5. c = device.pairing
  BY <1>1, <1>4 DEF Inv, DeviceInv, CredentialIsThePairing
<1>6. /\ attempt' \in Seq({"open", "consumed"}) /\ DOMAIN attempt' = DOMAIN attempt
      /\ attempt'[a] = "consumed"
      /\ \A b \in DOMAIN attempt : attempt[b] = "consumed" => attempt'[b] = "consumed"
  <2>1. attempt \in Seq({"open", "consumed"})
    BY DEF Inv, TypeOK
  <2>2. attempt' = [b \in DOMAIN attempt |-> attempt'[b]]
    BY <1>4
  <2>3. \A b \in DOMAIN attempt : attempt'[b] = IF b = a THEN "consumed" ELSE attempt[b]
    BY <1>4
  <2>4. \A b \in DOMAIN attempt : attempt'[b] \in {"open", "consumed"}
    BY <2>1, <2>3, RowsOf
  <2> QED
    BY <1>1, <2>1, <2>2, <2>3, <2>4, RowsUpdated
<1>7. \A s \in DOMAIN session : session[s].proof # proof
  BY <1>3, <1>4 DEF Inv, SessionInv, ProofRow
<1>8. session' \in Seq(Sessions) /\ DOMAIN session \subseteq DOMAIN session' /\ SessionInv'
  <2>1. PICK row : row = Opened("WEBAUTHN", c, proof)
    OBVIOUS
  <2>2. /\ row \in Sessions /\ row.status = "ACTIVE" /\ row.mode = "WEBAUTHN"
        /\ row.pairing = c /\ row.proof = proof /\ row.credential = c
    BY <1>2, <1>3, <2>1, OpenedRow
  <2>3. IssueSession(row, session) /\ UNCHANGED <<device, credential, challenge, used>>
    BY <1>4, <2>1 DEF CompleteCashierLogin
  <2> QED
    BY <1>1, <1>3, <1>4, <1>5, <1>6, <1>7, <2>2, <2>3, IssuePreserves
<1> QED
  BY <1>6, <1>8, EndPreserves DEF CompleteCashierLogin, Inv, TypeOK

LEMMA TokenPreserves ==
  ASSUME Inv, NEW r \in Requests, LoginWithDeviceToken(r)
  PROVE  Inv'
<1>0. PICK c, proof : c = request[r].of /\ proof = <<"token", c>>
  OBVIOUS
<1>1. c \in DOMAIN credential /\ c \in Nat
  BY <1>0 DEF LoginWithDeviceToken, Inv, TypeOK, Handlers, HandlerInv, HandlerRow
<1>2. proof \in Proofs /\ proof[1] = "token"
  BY <1>0, <1>1 DEF Proofs
<1>3. /\ device.status = "ACTIVE" /\ device.mode = "DEVICE_TOKEN" /\ Active(c)
      /\ IssueSession(Opened("DEVICE_TOKEN", c, proof), session)
  BY <1>0 DEF LoginWithDeviceToken, TokenStillValid
<1>4. c = device.pairing
  BY <1>1, <1>3 DEF Inv, DeviceInv, CredentialIsThePairing
<1>5. session' \in Seq(Sessions) /\ DOMAIN session \subseteq DOMAIN session' /\ SessionInv'
  <2>1. PICK row : row = Opened("DEVICE_TOKEN", c, proof)
    OBVIOUS
  <2>2. /\ row \in Sessions /\ row.status = "ACTIVE" /\ row.mode = "DEVICE_TOKEN"
        /\ row.pairing = c /\ row.proof = proof /\ row.credential = 0
    BY <1>1, <1>2, <2>1, OpenedRow
  <2>3. IssueSession(row, session) /\ UNCHANGED <<device, credential, attempt, challenge, used>>
    BY <1>3, <2>1 DEF LoginWithDeviceToken
  <2> QED
    BY <1>1, <1>2, <1>3, <1>4, <2>2, <2>3, IssuePreserves
<1> QED
  BY <1>5, EndPreserves DEF LoginWithDeviceToken, Inv, TypeOK

LEMMA RefreshPreserves ==
  ASSUME Inv, NEW r \in Requests, Refresh(r)
  PROVE  Inv'
<1>0. PICK s, proof : s = request[r].of /\ proof = <<"session", s>>
  OBVIOUS
<1>1. s \in DOMAIN session /\ s \in Nat
  BY <1>0 DEF Refresh, Inv, TypeOK, Handlers, HandlerInv, HandlerRow
<1>2. proof \in Proofs /\ proof[1] = "session" /\ proof[2] = s
  BY <1>0, <1>1 DEF Proofs
<1>3. PICK row : row = [session[s] EXCEPT !.proof = proof]
  OBVIOUS
<1>4. /\ row \in Sessions /\ row.proof = proof
      /\ row.status = session[s].status /\ row.mode = session[s].mode
      /\ row.pairing = session[s].pairing /\ row.credential = session[s].credential
      /\ row.secret = session[s].secret /\ row.late = session[s].late
  <2>1. session[s] \in Sessions
    BY <1>1, RowsOf DEF Inv, TypeOK
  <2> QED
    BY <1>2, <1>3, <2>1 DEF Sessions
<1>5. session[s].status = "ACTIVE" /\ IssueSession(row, Revoked({s}))
  BY <1>0, <1>3 DEF Refresh
<1>6. SessionRow(s)
  BY <1>1 DEF Inv, SessionInv
<1>7. \A t \in DOMAIN session : session[t].proof # proof
  BY <1>2, <1>5 DEF Inv, SessionInv, ProofRow
<1>8. session'[s].status = "REVOKED"
  <2>1. session' = Append(Revoked({s}), row)
    BY <1>5 DEF IssueSession
  <2> QED
    BY <1>1, <1>4, <2>1, RevokedRows, RowAdded DEF Inv
<1>9. session' \in Seq(Sessions) /\ DOMAIN session \subseteq DOMAIN session' /\ SessionInv'
  BY <1>1, <1>2, <1>4, <1>5, <1>6, <1>7, <1>8, IssuePreserves DEF Refresh, SessionRow
<1> QED
  BY <1>9, EndPreserves DEF Refresh, Inv, TypeOK

\* Some sessions are closed: enough of them, when a credential is closed too.
LEMMA RevokePreserves ==
  ASSUME Inv, NEW S, session' = Revoked(S), UNCHANGED <<device, attempt, used>>,
         DOMAIN credential' = DOMAIN credential,
         \A c \in DOMAIN credential : Active(c) =>
            \/ Active(c)'
            \/ \A s \in DOMAIN session : session[s].mode = device.mode /\ session[s].pairing = c => s \in S
  PROVE  session' \in Seq(Sessions) /\ DOMAIN session' = DOMAIN session /\ SessionInv'
<1>1. /\ session' \in Seq(Sessions) /\ DOMAIN session' = DOMAIN session
      /\ \A s \in DOMAIN session :
           /\ session'[s].mode = session[s].mode /\ session'[s].pairing = session[s].pairing
           /\ session'[s].credential = session[s].credential
           /\ session'[s].proof = session[s].proof /\ session'[s].secret = session[s].secret
           /\ session'[s].late = session[s].late
           /\ session'[s].status = IF s \in S THEN "REVOKED" ELSE session[s].status
  BY RevokedRows DEF Inv
<1>2. ASSUME NEW s \in DOMAIN session PROVE SessionRow(s)' /\ ProofRow(s)'
  <2>1. SessionRow(s) /\ ProofRow(s)
    BY DEF Inv, SessionInv
  <2>2. SessionRow(s)'
    BY <1>1, <2>1 DEF SessionRow, HmacOrLater
  <2>3. ProofRow(s)'
    BY <1>1, <2>1 DEF ProofRow
  <2> QED
    BY <2>2, <2>3
<1>3. SessionProofsDiffer'
  BY <1>1 DEF Inv, SessionInv, SessionProofsDiffer
<1> QED
  BY <1>1, <1>2, <1>3 DEF SessionInv

LEMMA LogoutPreserves ==
  ASSUME Inv, NEW s \in DOMAIN session, Logout(s)
  PROVE  Inv'
<1>1. session' = Revoked({s}) /\ UNCHANGED <<device, credential, attempt, challenge, used, request>>
  BY DEF Logout
<1>2. session' \in Seq(Sessions) /\ DOMAIN session' = DOMAIN session /\ SessionInv'
  BY <1>1, RevokePreserves DEF Active
<1>3. TypeOK'
  BY <1>1, <1>2 DEF Inv, TypeOK
<1>4. DeviceInv' /\ ChallengeInv'
  BY <1>1 DEF Inv, DeviceInv, ChallengeInv, DeviceRow, CredentialIsThePairing, Active,
              CredentialProofsDiffer, ChallengeRow
<1>5. HandlerInv'
  BY <1>1, <1>2, HandlersKept DEF RowsStay, HmacOrLater
<1> QED
  BY <1>2, <1>3, <1>4, <1>5 DEF Inv

LEMMA RevokeCredentialPreserves ==
  ASSUME Inv, NEW c \in DOMAIN credential, RevokeDeviceCredential(c)
  PROVE  Inv'
<1>1. /\ credential[c].mode = "WEBAUTHN" /\ Active(c)
      /\ credential' = [credential EXCEPT ![c].status = "REVOKED"]
      /\ session' = Revoked({s \in DOMAIN session : session[s].credential = c})
      /\ UNCHANGED <<device, attempt, challenge, used, request>>
  BY DEF RevokeDeviceCredential, ActiveOf
<1>2. device.mode = "WEBAUTHN" /\ device.pairing = c
  BY <1>1 DEF Inv, DeviceInv, CredentialIsThePairing
<1>3. /\ credential' \in Seq(Credentials) /\ DOMAIN credential' = DOMAIN credential
      /\ \A d \in DOMAIN credential :
           /\ credential'[d].mode = credential[d].mode /\ credential'[d].by = credential[d].by
           /\ credential'[d].status = IF d = c THEN "REVOKED" ELSE credential[d].status
  <2>1. credential \in Seq(Credentials)
    BY DEF Inv, TypeOK
  <2>2. \A d \in DOMAIN credential : credential[d] \in Credentials
    BY <2>1, RowsOf
  <2>3. credential' = [d \in DOMAIN credential |-> credential'[d]]
    BY <1>1
  <2>4. \A d \in DOMAIN credential :
           /\ credential'[d] \in Credentials
           /\ credential'[d].mode = credential[d].mode /\ credential'[d].by = credential[d].by
           /\ credential'[d].status = IF d = c THEN "REVOKED" ELSE credential[d].status
    BY <1>1, <2>2 DEF Credentials
  <2> QED
    BY <2>1, <2>3, <2>4, RowsUpdated
<1>4. session' \in Seq(Sessions) /\ DOMAIN session' = DOMAIN session /\ SessionInv'
  <2>1. \A s \in DOMAIN session :
          session[s].mode = device.mode /\ session[s].pairing = c => session[s].credential = c
    BY <1>2 DEF Inv, SessionInv, SessionRow
  <2>2. \A d \in DOMAIN credential : Active(d) => Active(d)' \/ d = c
    BY <1>3 DEF Active
  <2> QED
    BY <1>1, <1>3, <2>1, <2>2, RevokePreserves
<1>5. TypeOK'
  BY <1>1, <1>3, <1>4 DEF Inv, TypeOK
<1>6. DeviceInv'
  BY <1>1, <1>2, <1>3 DEF Inv, DeviceInv, DeviceRow, CredentialIsThePairing, Active
<1>7. ChallengeInv'
  BY <1>1, <1>3 DEF Inv, ChallengeInv, CredentialProofsDiffer, ChallengeRow
<1>8. HandlerInv'
  BY <1>1, <1>3, <1>4, HandlersKept DEF RowsStay, HmacOrLater
<1> QED
  BY <1>4, <1>5, <1>6, <1>7, <1>8 DEF Inv

\* An unpaired device or one with a token gets a new token.
LEMMA PairPreserves ==
  ASSUME Inv, PairDeviceToken
  PROVE  Inv'
<1>0. PICK new : new = Len(credential) + 1
  OBVIOUS
<1> DEFINE row == [mode |-> "DEVICE_TOKEN", status |-> "ACTIVE", by |-> 0]
<1>1. /\ device.mode \in {"UNPAIRED", "DEVICE_TOKEN"} /\ device.status = "ACTIVE"
      /\ credential' = Append(Close("DEVICE_TOKEN", "REVOKED"), row)
      /\ session' = Revoked(DOMAIN session)
      /\ device' = [device EXCEPT !.mode = "DEVICE_TOKEN", !.pairing = new]
      /\ UNCHANGED <<attempt, challenge, used, request>>
  BY <1>0 DEF PairDeviceToken
<1>2. row \in Credentials
  BY DEF Credentials
<1>3. /\ credential' \in Seq(Credentials) /\ DOMAIN credential' = DOMAIN credential \cup {new}
      /\ new \notin DOMAIN credential /\ new \in Nat \ {0} /\ credential'[new] = row
      /\ \A c \in DOMAIN credential :
           /\ credential'[c].mode = credential[c].mode /\ credential'[c].by = credential[c].by
           /\ credential'[c].status =
                IF c \in ActiveOf("DEVICE_TOKEN") THEN "REVOKED" ELSE credential[c].status
  BY <1>0, <1>1, <1>2, ClosedRows, RowAdded DEF Inv
<1>4. \A c \in DOMAIN credential : ~Active(c)'
  <2>0. \A c \in DOMAIN credential : credential[c].mode # "UNPAIRED"
    BY RowModes DEF Inv
  <2>1. \A c \in DOMAIN credential : Active(c) => c \in ActiveOf("DEVICE_TOKEN")
    BY <1>1, <2>0 DEF Inv, DeviceInv, CredentialIsThePairing, ActiveOf
  <2> QED
    BY <1>3, <2>1 DEF Active
<1>5. /\ device' \in Devices /\ device'.mode = "DEVICE_TOKEN" /\ device'.pairing = new
      /\ device'.status = "ACTIVE"
  BY <1>1, <1>3 DEF Inv, TypeOK, Devices, Modes
<1>6. DOMAIN session' = DOMAIN session
  BY <1>1, RevokedRows DEF Inv
<1>7. RowsStay
  BY <1>1, <1>3, <1>6 DEF RowsStay, HmacOrLater
<1>8. session' \in Seq(Sessions) /\ SessionInv'
  BY <1>1, <1>7, CloseAllPreserves
<1>9. TypeOK'
  BY <1>1, <1>3, <1>5, <1>8 DEF Inv, TypeOK
<1>10. DeviceInv'
  BY <1>3, <1>4, <1>5 DEF DeviceInv, DeviceRow, CredentialIsThePairing, Active
<1>11. ChallengeInv'
  <2>1. credential'[new].by = 0 /\ challenge' = challenge
    BY <1>1, <1>3
  <2> HIDE DEF row
  <2> QED
    BY <1>3, <2>1 DEF Inv, ChallengeInv, CredentialProofsDiffer, ChallengeRow
<1>12. HandlerInv'
  BY <1>1, <1>7, HandlersKept
<1> QED
  BY <1>8, <1>9, <1>10, <1>11, <1>12 DEF Inv

\* What closing the token leaves of the credentials.
LEMMA TokenClosed ==
  ASSUME Inv, credential' = Close("DEVICE_TOKEN", "REVOKED")
  PROVE  /\ credential' \in Seq(Credentials) /\ DOMAIN credential' = DOMAIN credential
         /\ \A c \in DOMAIN credential :
              /\ credential'[c].mode = credential[c].mode /\ credential'[c].by = credential[c].by
              /\ Active(c)' <=> Active(c) /\ device.mode # "DEVICE_TOKEN"
<1>1. /\ credential' \in Seq(Credentials) /\ DOMAIN credential' = DOMAIN credential
      /\ \A c \in DOMAIN credential :
           /\ credential'[c].mode = credential[c].mode /\ credential'[c].by = credential[c].by
           /\ credential'[c].status =
                IF c \in ActiveOf("DEVICE_TOKEN") THEN "REVOKED" ELSE credential[c].status
  BY ClosedRows DEF Inv
<1> QED
  BY <1>1 DEF Inv, DeviceInv, CredentialIsThePairing, Active, ActiveOf

LEMMA ResetPreserves ==
  ASSUME Inv, ResetDeviceToken
  PROVE  Inv'
<1>1. /\ device.mode = "DEVICE_TOKEN" /\ device' = Unpaired
      /\ credential' = Close("DEVICE_TOKEN", "REVOKED")
      /\ session' = Revoked(DOMAIN session)
      /\ UNCHANGED <<attempt, challenge, used, request>>
  BY DEF ResetDeviceToken
<1>2. device' \in Devices /\ device'.mode = "UNPAIRED"
  BY <1>1 DEF Inv, TypeOK, Devices, Modes, Unpaired
<1>3. DOMAIN session' = DOMAIN session
  BY <1>1, RevokedRows DEF Inv
<1>4. RowsStay
  BY <1>1, <1>3, TokenClosed DEF RowsStay, HmacOrLater
<1>5. session' \in Seq(Sessions) /\ SessionInv'
  BY <1>1, <1>4, CloseAllPreserves
<1>6. TypeOK'
  BY <1>1, <1>2, <1>5, TokenClosed DEF Inv, TypeOK
<1>7. DeviceInv'
  BY <1>1, <1>2, TokenClosed DEF DeviceInv, DeviceRow, CredentialIsThePairing
<1>8. ChallengeInv'
  BY <1>1, TokenClosed DEF Inv, ChallengeInv, CredentialProofsDiffer, ChallengeRow
<1>9. HandlerInv'
  BY <1>1, <1>4, HandlersKept
<1> QED
  BY <1>5, <1>6, <1>7, <1>8, <1>9 DEF Inv

LEMMA AuthorizePreserves ==
  ASSUME Inv, NEW r \in Requests, CreateDeviceEnrollment(r)
  PROVE  Inv'
<1>0. PICK row : row = [purpose |-> IF request[r].saw.mode = "WEBAUTHN" THEN "REPAIR" ELSE "PAIRING",
                        open |-> TRUE]
  OBVIOUS
<1>1. /\ challenge' = Append(challenge, row) /\ End(r)
      /\ UNCHANGED <<device, credential, session, attempt, used>>
  BY <1>0 DEF CreateDeviceEnrollment
<1>2. row \in Challenges
  BY <1>0 DEF Challenges
<1>3. /\ challenge' \in Seq(Challenges) /\ DOMAIN challenge \subseteq DOMAIN challenge'
      /\ \A h \in DOMAIN challenge : challenge'[h] = challenge[h]
  BY <1>1, <1>2, RowAdded DEF Inv, TypeOK
<1>4. TypeOK'
  BY <1>1, <1>3, HandlerEnds DEF Inv, TypeOK
<1>5. DeviceInv'
  BY <1>1 DEF Inv, DeviceInv, DeviceRow, CredentialIsThePairing, Active
<1>6. SessionInv'
  BY <1>1 DEF Inv, SessionInv, SessionProofsDiffer, SessionRow, ProofRow, HmacOrLater, Active
<1>7. ChallengeInv'
  BY <1>1, <1>3 DEF Inv, ChallengeInv, CredentialProofsDiffer, ChallengeRow
<1>8. RowsStay
  BY <1>1, <1>3 DEF RowsStay, HmacOrLater
<1>9. HandlerInv'
  BY <1>1, <1>3, <1>8, HandlersKept, HandlerEnds DEF Inv
<1> QED
  BY <1>4, <1>5, <1>6, <1>7, <1>9 DEF Inv

\* Enrolment ends in a transition of the device it read: nothing but the new
\* credential is active after it, and its challenge is spent.
LEMMA EnrollPreserves ==
  ASSUME Inv, NEW r \in Requests, CompleteDeviceEnrollment(r)
  PROVE  Inv'
<1>0. PICK new, h : new = Len(credential) + 1 /\ h = request[r].of
  OBVIOUS
<1> DEFINE row == [mode |-> "WEBAUTHN", status |-> "ACTIVE", by |-> h]
<1>1. /\ At(r, "enroll") /\ device.mode = request[r].saw.mode /\ End(r)
      /\ challenge' = [challenge EXCEPT ![h].open = FALSE]
      /\ device' = [device EXCEPT !.mode = "WEBAUTHN", !.pairing = new, !.secret = 0]
      /\ credential' = Append(Close("WEBAUTHN", "SUPERSEDED"), row)
      /\ session' = Revoked(DOMAIN session)
      /\ UNCHANGED <<attempt, used>>
  BY <1>0 DEF CompleteDeviceEnrollment, Transitions, StillAsSeen
<1>2. /\ h \in DOMAIN challenge /\ challenge[h].open /\ device.mode # "DEVICE_TOKEN"
      /\ \A p \in Requests : At(p, "enroll") /\ request[p].of = h => p = r
  BY <1>0, <1>1 DEF Inv, HandlerInv, HandlerRow
<1>3. row \in Credentials
  BY <1>0 DEF Inv, TypeOK, Handlers, Credentials
<1>4. /\ credential' \in Seq(Credentials) /\ DOMAIN credential' = DOMAIN credential \cup {new}
      /\ new \notin DOMAIN credential /\ new \in Nat \ {0} /\ credential'[new] = row
      /\ \A c \in DOMAIN credential :
           /\ credential'[c].mode = credential[c].mode /\ credential'[c].by = credential[c].by
           /\ credential'[c].status =
                IF c \in ActiveOf("WEBAUTHN") THEN "SUPERSEDED" ELSE credential[c].status
  BY <1>0, <1>1, <1>3, ClosedRows, RowAdded DEF Inv
<1>5. \A c \in DOMAIN credential : ~Active(c)'
  <2>0. \A c \in DOMAIN credential : credential[c].mode \in {"DEVICE_TOKEN", "WEBAUTHN"}
    BY RowModes DEF Inv
  <2>1. \A c \in DOMAIN credential : Active(c) => c \in ActiveOf("WEBAUTHN")
    BY <1>2, <2>0 DEF Inv, DeviceInv, CredentialIsThePairing, ActiveOf
  <2> QED
    BY <1>4, <2>1 DEF Active
<1>6. device' \in Devices /\ device'.mode = "WEBAUTHN" /\ device'.pairing = new
  BY <1>1, <1>4 DEF Inv, TypeOK, Devices, Modes
<1>7. /\ challenge' \in Seq(Challenges) /\ DOMAIN challenge' = DOMAIN challenge
      /\ ~challenge'[h].open
      /\ \A g \in DOMAIN challenge : g # h => challenge'[g] = challenge[g]
  <2>1. challenge \in Seq(Challenges)
    BY DEF Inv, TypeOK
  <2>2. \A g \in DOMAIN challenge : challenge[g] \in Challenges
    BY <2>1, RowsOf
  <2>3. challenge' = [g \in DOMAIN challenge |-> challenge'[g]]
    BY <1>1
  <2>4. /\ ~challenge'[h].open
        /\ \A g \in DOMAIN challenge : g # h => challenge'[g] = challenge[g]
        /\ \A g \in DOMAIN challenge : challenge'[g] \in Challenges
    BY <1>1, <1>2, <2>2 DEF Challenges
  <2> QED
    BY <2>1, <2>3, <2>4, RowsUpdated
<1>8. RowsStay
  <2>1. DOMAIN session' = DOMAIN session
    BY <1>1, RevokedRows DEF Inv
  <2> QED
    BY <1>1, <1>4, <1>6, <1>7, <2>1 DEF RowsStay, HmacOrLater
<1>9. session' \in Seq(Sessions) /\ SessionInv'
  BY <1>1, <1>8, CloseAllPreserves
<1>10. TypeOK'
  BY <1>1, <1>4, <1>6, <1>7, <1>9, HandlerEnds DEF Inv, TypeOK
<1>11. DeviceInv'
  BY <1>4, <1>5, <1>6 DEF DeviceInv, DeviceRow, CredentialIsThePairing, Active
<1>12. ChallengeInv'
  <2>1. credential'[new].by = h
    BY <1>4
  <2>2. \A c \in DOMAIN credential : credential[c].by # 0 => credential[c].by # h
    BY <1>2 DEF Inv, ChallengeInv, ChallengeRow
  <2> HIDE DEF row
  <2> QED
    BY <1>2, <1>4, <1>7, <2>1, <2>2 DEF Inv, ChallengeInv, CredentialProofsDiffer, ChallengeRow
<1>13. HandlerInv'
  <2>1. \A p \in Requests : request'[p] = IF p = r THEN Idle ELSE request[p]
    BY <1>1, HandlerEnds DEF Inv
  <2>2. \A p \in Requests : request'[p].op = "enroll" => request'[p].of # h
    BY <1>2, <2>1 DEF Idle, At
  <2> QED
    BY <1>7, <1>8, <2>1, <2>2, HandlersKept
<1> QED
  BY <1>9, <1>10, <1>11, <1>12, <1>13 DEF Inv

\* A status change of a device with a token unpairs it; any other leaves the pairing.
LEMMA UpdatePreserves ==
  ASSUME Inv, NEW r \in Requests, UpdateDevice(r)
  PROVE  Inv'
<1>0. PICK change : change = request[r].op
  OBVIOUS
<1>1. /\ change \in {"ACTIVE", "INACTIVE", "rotate"} /\ End(r)
      /\ UNCHANGED <<attempt, challenge, used>>
  BY <1>0 DEF UpdateDevice
<1> DEFINE transition == change # "rotate" /\ change # device.status /\ device.mode = "DEVICE_TOKEN"
           status == IF change = "rotate" THEN device.status ELSE change
           secret == IF change = "rotate" THEN device.secret + 1 ELSE device.secret
<1>2. /\ device' = [(IF transition THEN Unpaired ELSE device)
                      EXCEPT !.status = status, !.secret = secret]
      /\ credential' = IF transition \/ change = "INACTIVE"
                       THEN Close("DEVICE_TOKEN", "REVOKED") ELSE credential
      /\ session' = IF transition \/ change # "ACTIVE" THEN Revoked(DOMAIN session) ELSE session
  BY <1>0 DEF UpdateDevice
<1>3. /\ device' \in Devices /\ device'.status = status /\ device'.secret = secret
      /\ device'.mode = IF transition THEN "UNPAIRED" ELSE device.mode
      /\ ~transition => device'.pairing = device.pairing
  <2>1. device \in Devices
    BY DEF Inv, TypeOK
  <2>2. Unpaired \in Devices /\ Unpaired.mode = "UNPAIRED"
    BY <2>1 DEF Devices, Modes, Unpaired
  <2>3. status \in {"ACTIVE", "INACTIVE"} /\ secret \in Nat
    BY <1>1, <2>1 DEF Devices
  <2> HIDE DEF status, secret, transition
  <2> QED
    BY <1>2, <2>1, <2>2, <2>3 DEF Devices
<1>4. device.mode = "DEVICE_TOKEN" => device.status = "ACTIVE"
  BY DEF Inv, DeviceInv, DeviceRow
<1>5. /\ credential' \in Seq(Credentials) /\ DOMAIN credential' = DOMAIN credential
      /\ \A c \in DOMAIN credential :
           /\ credential'[c].mode = credential[c].mode /\ credential'[c].by = credential[c].by
           /\ Active(c)' <=> Active(c) /\ ~transition
  <2>1. CASE transition \/ change = "INACTIVE"
    <3>1. device.mode = "DEVICE_TOKEN" <=> transition
      BY <1>4, <2>1
    <3> QED
      BY <1>2, <2>1, <3>1, TokenClosed
  <2>2. CASE ~(transition \/ change = "INACTIVE")
    BY <1>2, <2>2 DEF Inv, TypeOK, Active
  <2> QED
    BY <2>1, <2>2
<1>6. DOMAIN session' = DOMAIN session
  BY <1>2, RevokedRows DEF Inv
<1>7. RowsStay
  BY <1>1, <1>3, <1>5, <1>6 DEF RowsStay, HmacOrLater
<1>8. session' \in Seq(Sessions) /\ SessionInv'
  <2>1. CASE transition \/ change # "ACTIVE"
    BY <1>1, <1>2, <1>7, <2>1, CloseAllPreserves
  <2>2. CASE ~transition /\ change = "ACTIVE"
    <3>1. session' = session /\ device'.mode = device.mode /\ device'.pairing = device.pairing
          /\ device'.status = "ACTIVE" /\ device'.secret = device.secret
      BY <1>2, <1>3, <2>2
    <3>2. \A c \in DOMAIN credential : Active(c)' <=> Active(c)
      BY <1>5, <2>2
    <3>3. ASSUME NEW s \in DOMAIN session PROVE SessionRow(s)' /\ ProofRow(s)'
      <4>1. SessionRow(s) /\ ProofRow(s)
        BY DEF Inv, SessionInv
      <4> QED
        BY <1>1, <1>5, <3>1, <3>2, <4>1 DEF SessionRow, ProofRow, HmacOrLater
    <3>4. SessionProofsDiffer'
      BY <3>1 DEF Inv, SessionInv, SessionProofsDiffer
    <3> QED
      BY <3>1, <3>3, <3>4 DEF Inv, TypeOK, SessionInv
  <2> QED
    BY <2>1, <2>2
<1>9. TypeOK'
  BY <1>1, <1>3, <1>5, <1>8, HandlerEnds DEF Inv, TypeOK
<1>10. DeviceInv'
  <2>1. CASE transition
    BY <1>3, <1>5, <2>1 DEF DeviceInv, DeviceRow, CredentialIsThePairing
  <2>2. CASE ~transition
    <3>1. device'.mode = "DEVICE_TOKEN" => device'.status = "ACTIVE"
      BY <1>1, <1>3, <1>4, <2>2
    <3> QED
      BY <1>3, <1>5, <2>2, <3>1 DEF Inv, DeviceInv, DeviceRow, CredentialIsThePairing
  <2> QED
    BY <2>1, <2>2
<1>11. ChallengeInv'
  BY <1>1, <1>5 DEF Inv, ChallengeInv, CredentialProofsDiffer, ChallengeRow
<1>12. HandlerInv'
  BY <1>1, <1>7, HandlersKept, HandlerEnds DEF Inv
<1> QED
  BY <1>8, <1>9, <1>10, <1>11, <1>12 DEF Inv

-----------------------------------------------------------------------------
\* The invariant holds of every behaviour.
THEOREM InvHolds == Spec => []Inv
<1>1. Init => Inv
  <2> SUFFICES ASSUME Init PROVE Inv
    OBVIOUS
  <2>0. /\ DOMAIN session = {} /\ DOMAIN credential = {}
        /\ device.mode \in {"UNPAIRED", "HMAC_LEGACY"} /\ device.pairing = 0
    BY DEF Init
  <2>1. TypeOK
    <3>1. Idle \in Handlers
      BY DEF Idle, Unseen, Handlers, Ops, Devices, Modes
    <3> QED
      BY <3>1, EmptySeq DEF Init, TypeOK, Devices, Modes
  <2>2. DeviceInv /\ SessionInv /\ ChallengeInv
    BY <2>0 DEF DeviceInv, SessionInv, ChallengeInv, DeviceRow, CredentialIsThePairing,
                SessionProofsDiffer, CredentialProofsDiffer
  <2>3. HandlerInv
    BY DEF Init, HandlerInv, HandlerRow, At, Idle
  <2> QED
    BY <2>1, <2>2, <2>3 DEF Inv
<1>2. Inv /\ [Next]_vars => Inv'
  <2> SUFFICES ASSUME Inv, [Next]_vars PROVE Inv'
    OBVIOUS
  <2>1. CASE UNCHANGED vars
    <3>1. UNCHANGED <<device, credential, session, attempt, challenge, used, request>>
      BY <2>1 DEF vars, rows
    <3>2. TypeOK'
      BY <3>1 DEF Inv, TypeOK
    <3>3. DeviceInv' /\ ChallengeInv'
      BY <3>1 DEF Inv, DeviceInv, ChallengeInv, DeviceRow, CredentialIsThePairing, Active,
                  CredentialProofsDiffer, ChallengeRow
    <3>4. SessionInv'
      BY <3>1 DEF Inv, SessionInv, SessionProofsDiffer, SessionRow, ProofRow, HmacOrLater, Active
    <3>5. HandlerInv'
      BY <3>1 DEF Inv, HandlerInv, HandlerRow, At, HmacOrLater
    <3> QED
      BY <3>2, <3>3, <3>4, <3>5 DEF Inv
  <2>2. ASSUME NEW r \in Requests, Handle(r)
        PROVE  Inv'
    BY <2>2, FirstStepsPreserve, GiveUpPreserves, AttestPreserves, AttemptPreserves,
       CompletePreserves, TokenPreserves, RefreshPreserves, AuthorizePreserves, EnrollPreserves,
       UpdatePreserves DEF Handle
  <2> QED
    BY <2>1, <2>2, LogoutPreserves, RevokeCredentialPreserves, PairPreserves, ResetPreserves DEF Next
<1> QED
  BY <1>1, <1>2, PTL DEF Spec

\* The rows of auth.service.ts and branches.service.ts keep their types, and every
\* handler's second step has the rows its first one found.
THEOREM DeviceSessionsTyped == Spec => []TypeOK
BY InvHolds, PTL DEF Inv

\* A credential that is ACTIVE is the one of the device's present pairing, whatever
\* enrolments, resets and status changes race.
THEOREM OneActiveCredential == Spec => []CredentialIsThePairing
BY InvHolds, PTL DEF Inv, DeviceInv

\* No session outlives the pairing it was opened under, nor the secret, unless an HMAC
\* login opened it late.
THEOREM SessionsEndWithPairing == Spec => []SessionsFollowPairing
<1>1. Inv => SessionsFollowPairing
  <2> SUFFICES ASSUME Inv, NEW s \in DOMAIN session
               PROVE  /\ session[s].status = "ACTIVE" /\ ~session[s].late =>
                           /\ Usable(s)
                           /\ session[s].mode = "HMAC_LEGACY" => session[s].secret = device.secret
                      /\ Usable(s) => session[s].mode = device.mode
                                      /\ session[s].pairing = device.pairing
    BY DEF SessionsFollowPairing
  <2>1. SessionRow(s) /\ DeviceInv
    BY DEF Inv, SessionInv
  <2>2. session[s].mode \in Modes \ {"UNPAIRED"} /\ DOMAIN credential \subseteq Nat \ {0}
    BY RowModes DEF Inv
  <2>3. ASSUME session[s].status = "ACTIVE", ~session[s].late, session[s].mode = "HMAC_LEGACY"
        PROVE  Usable(s) /\ session[s].secret = device.secret
    BY <2>1, <2>3 DEF SessionRow, Usable, IsSessionDeviceEligible
  <2>4. ASSUME session[s].status = "ACTIVE", session[s].mode # "HMAC_LEGACY"
        PROVE  Usable(s)
    <3>1. /\ device.status = "ACTIVE" /\ session[s].mode = device.mode
          /\ session[s].pairing = device.pairing /\ session[s].pairing \in DOMAIN credential
          /\ Active(session[s].pairing)
      BY <2>1, <2>4 DEF SessionRow
    <3>2. IsSessionDeviceEligible(s)
      BY <2>1, <2>2, <2>4, <3>1 DEF IsSessionDeviceEligible, SessionRow, Modes
    <3>3. device.mode = "DEVICE_TOKEN" => ActiveOf("DEVICE_TOKEN") = {device.pairing}
      BY <2>1, <3>1 DEF DeviceInv, CredentialIsThePairing, ActiveOf
    <3> QED
      BY <2>4, <3>1, <3>2, <3>3 DEF Usable
  <2>5. ASSUME Usable(s)
        PROVE  session[s].mode = device.mode /\ session[s].pairing = device.pairing
    <3>1. CASE session[s].mode # "HMAC_LEGACY"
      BY <2>1, <2>5, <3>1 DEF Usable, SessionRow
    <3>2. CASE session[s].mode = "HMAC_LEGACY"
      BY <2>1, <2>5, <3>2 DEF Usable, IsSessionDeviceEligible, SessionRow, HmacOrLater, DeviceInv,
                              DeviceRow
    <3> QED
      BY <3>1, <3>2
  <2> QED
    BY <2>4, <2>5, <2>3
<1> QED
  BY <1>1, InvHolds, PTL

\* Attestations, attempts, rotated sessions and challenges are spent once.
THEOREM ProofsSpentOnce == Spec => []ProofSpentOnce
<1>1. Inv => ProofSpentOnce
  BY DEF Inv, SessionInv, ChallengeInv, ProofSpentOnce, SessionProofsDiffer,
         CredentialProofsDiffer, ProofRow
<1> QED
  BY <1>1, InvHolds, PTL
=============================================================================
