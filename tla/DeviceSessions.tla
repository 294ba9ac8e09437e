--------------------------- MODULE DeviceSessions ---------------------------
(***************************************************************************)
(* How a till is paired and who may work on it: auth.service.ts and        *)
(* branches.service.ts around one device row.                              *)
(*                                                                         *)
(* The handlers run READ COMMITTED transactions.  Each reads what it needs *)
(* before its transaction, or before it holds the lock of the device row,  *)
(* and looks again under the lock; a handler is therefore a first step     *)
(* that keeps what it saw and a second one that is the transaction.        *)
(* pairDeviceToken, resetDeviceToken and revokeDeviceCredential ask        *)
(* nothing before the lock that they do not ask again under it, and are    *)
(* one step.  What the device and the server verify with keys (password,   *)
(* token, attestation, assertion, registration), expiry times and user     *)
(* administration decide only whether a handler goes on: GiveUp.           *)
(***************************************************************************)
EXTENDS Integers, Sequences

CONSTANTS Requests,        \* the handlers at work at one time
          Nonces,          \* nonces of HMAC attestations
          MaxSessions, MaxCredentials, MaxAttempts, MaxChallenges, \* bounds
          MaxSecrets       \* bound: versions of the device's HMAC secret

ASSUME BoundsAreNumbers ==
  {MaxSessions, MaxCredentials, MaxAttempts, MaxChallenges, MaxSecrets} \subseteq Nat

VARIABLES
  device,       \* [status, mode, pairing, secret]: pairing is the number of the
                \* credential whose pairedAt the device carries, 0 when pairedAt is
                \* null, and secret the version of its HMAC secret, 0 when it has none
  credential,   \* token and WebAuthn credentials by number: [mode, status, by]
  session,      \* [status, mode, credential, pairing, proof, secret, late]
  attempt,      \* CashierLoginAttempt: "open" or "consumed"
  challenge,    \* DeviceEnrollmentChallenge: [purpose, open]
  used,         \* nonces of recorded attestations
  request       \* what each handler does, to which row, with which credential, and the
                \* device it has seen

rows == <<device, credential, session, attempt, challenge, used>>
vars == <<rows, request>>

Modes == {"UNPAIRED", "HMAC_LEGACY", "DEVICE_TOKEN", "WEBAUTHN"}
Devices == [status : {"ACTIVE", "INACTIVE"}, mode : Modes, pairing : Nat, secret : Nat]
Credentials == [mode : {"DEVICE_TOKEN", "WEBAUTHN"}, by : Nat,
                status : {"ACTIVE", "REVOKED", "SUPERSEDED"}]
Proofs == {"attestation", "attempt", "token", "session"} \X (Nonces \cup Nat)
Sessions == [status : {"ACTIVE", "REVOKED"}, mode : Modes \ {"UNPAIRED"}, proof : Proofs,
             credential : Nat, pairing : Nat, secret : Nat, late : BOOLEAN]
Challenges == [purpose : {"PAIRING", "REPAIR"}, open : BOOLEAN]
Ops == {"idle", "login", "attempt", "complete", "token", "refresh", "authorize",
        "enroll", "ACTIVE", "INACTIVE", "rotate"}
Handlers == [op : Ops, of : Nat, with : Nat, saw : Devices]

Unseen == [status |-> "INACTIVE", mode |-> "UNPAIRED", pairing |-> 0, secret |-> 0]
Idle == [op |-> "idle", of |-> 0, with |-> 0, saw |-> Unseen]

\* createDevice makes an unpaired device; HMAC devices are older rows, and have a
\* secret.
Init == /\ device \in [status : {"ACTIVE"}, mode : {"UNPAIRED"}, pairing : {0}, secret : {0}]
                  \cup [status : {"ACTIVE"}, mode : {"HMAC_LEGACY"}, pairing : {0}, secret : {1}]
        /\ credential = <<>> /\ session = <<>>
        /\ attempt = <<>> /\ challenge = <<>>
        /\ used = {}
        /\ request = [r \in Requests |-> Idle]

-----------------------------------------------------------------------------
(* The handlers' common parts. *)

Active(c) == credential[c].status = "ACTIVE"
ActiveOf(mode) == {c \in DOMAIN credential : credential[c].mode = mode /\ Active(c)}

At(r, op) == request[r].op = op
BeginWith(r, op, of, c) ==
  /\ At(r, "idle")
  /\ request' = [request EXCEPT ![r] = [op |-> op, of |-> of, with |-> c, saw |-> device]]
  /\ UNCHANGED rows
Begin(r, op, of) == BeginWith(r, op, of, 0)
End(r) == request' = [request EXCEPT ![r] = Idle]

\* A handler refuses, meets another's verdict, or dies with its transaction.
GiveUp(r) == /\ ~At(r, "idle")
             /\ End(r)
             /\ UNCHANGED rows

\* What the handlers of branches.service.ts compare; the secret's version is no part.
StillAsSeen(r) == LET saw == request[r].saw
                  IN  /\ device.status = saw.status /\ device.mode = saw.mode
                      /\ device.pairing = saw.pairing

Revoked(S) ==
  [s \in DOMAIN session |-> IF s \in S THEN [session[s] EXCEPT !.status = "REVOKED"]
                                       ELSE session[s]]
Close(mode, as) ==
  [c \in DOMAIN credential |-> IF c \in ActiveOf(mode) THEN [credential[c] EXCEPT !.status = as]
                                                       ELSE credential[c]]

\* issueSession: deviceCredentialId is set for WebAuthn only.  What the session rests
\* on (pairing, proof, the secret that verified it, and whether the device had changed
\* since the login read it) is not in columns; it is kept for the properties.
Opened(mode, pairing, proof) ==
  [status |-> "ACTIVE", mode |-> mode, pairing |-> pairing, proof |-> proof,
   credential |-> IF mode = "WEBAUTHN" THEN pairing ELSE 0, secret |-> 0, late |-> FALSE]
IssueSession(row, sessions) == /\ Len(session) < MaxSessions
                               /\ session' = Append(sessions, row)

\* isSessionDeviceEligible, of a cashier's session.
IsSessionDeviceEligible(s) ==
  /\ device.status = "ACTIVE"
  /\ IF device.mode = "WEBAUTHN"
     THEN session[s].credential # 0 /\ Active(session[s].credential)
     ELSE session[s].credential = 0 /\ device.mode \in {"HMAC_LEGACY", "DEVICE_TOKEN"}
\* loadAuthContext, which compares the browser's token with the one ACTIVE token.
Usable(s) == /\ session[s].status = "ACTIVE"
             /\ IsSessionDeviceEligible(s)
             /\ device.mode = "DEVICE_TOKEN" => \E c \in DOMAIN credential :
                                                 ActiveOf("DEVICE_TOKEN") = {c}

-----------------------------------------------------------------------------
(* auth.service.ts. *)

\* login reads the device of a cashier who presented no token ...
Login(r) == /\ device.status = "ACTIVE"
            /\ \/ device.mode = "HMAC_LEGACY" /\ Begin(r, "login", 0)
               \/ device.mode = "WEBAUTHN" /\ ActiveOf("WEBAUTHN") # {} /\ Begin(r, "attempt", 0)
\* ... and trusts what it read: the attestation is verified with the secret it read,
\* and the transaction does not look at the device again.
Attested(r, n) ==
  LET saw == request[r].saw
  IN  [Opened("HMAC_LEGACY", saw.pairing, <<"attestation", n>>)
         EXCEPT !.secret = saw.secret, !.late = (device # saw)]
Attest(r, n) ==
  /\ At(r, "login")
  /\ n \notin used
  /\ used' = used \cup {n}
  /\ IssueSession(Attested(r, n), session)
  /\ End(r)
  /\ UNCHANGED <<device, credential, attempt, challenge>>
BeginCashierWebAuthnLogin(r) ==
  /\ At(r, "attempt")
  /\ Len(attempt) < MaxAttempts
  /\ attempt' = Append(attempt, "open")
  /\ End(r)
  /\ UNCHANGED <<device, credential, session, challenge, used>>

\* completeCashierLogin finds the attempt and the credential before the lock ...
FindAttempt(r, a, c) == /\ attempt[a] = "open"
                        /\ c \in ActiveOf("WEBAUTHN")
                        /\ BeginWith(r, "complete", a, c)
\* ... and claims the attempt under it.
\* Fault: the claim does not name consumedAt.
ClaimableAgain(r) == TRUE
Claimable(r) == attempt[request[r].of] = "open"
CompleteCashierLogin(r) ==
  LET c == request[r].with
  IN  /\ At(r, "complete")
      /\ device.status = "ACTIVE" /\ device.mode = "WEBAUTHN"
      /\ Active(c)
      /\ Claimable(r)
      /\ attempt' = [attempt EXCEPT ![request[r].of] = "consumed"]
      /\ IssueSession(Opened("WEBAUTHN", c, <<"attempt", request[r].of>>), session)
      /\ End(r)
      /\ UNCHANGED <<device, credential, challenge, used>>

FindToken(r, c) == /\ device.status = "ACTIVE" /\ device.mode = "DEVICE_TOKEN"
                   /\ c \in ActiveOf("DEVICE_TOKEN")
                   /\ Begin(r, "token", c)
\* Fault: the credential is not read again under the lock.
TokenValidWhenFound(r) == device.status = "ACTIVE" /\ device.mode = "DEVICE_TOKEN"
TokenStillValid(r) ==
  device.status = "ACTIVE" /\ device.mode = "DEVICE_TOKEN" /\ Active(request[r].of)
LoginWithDeviceToken(r) ==
  /\ At(r, "token")
  /\ TokenStillValid(r)
  /\ IssueSession(Opened("DEVICE_TOKEN", request[r].of, <<"token", request[r].of>>), session)
  /\ End(r)
  /\ UNCHANGED <<device, credential, attempt, challenge, used>>

ReadSession(r, s) == /\ session[s].status = "ACTIVE" /\ IsSessionDeviceEligible(s)
                     /\ Begin(r, "refresh", s)
\* The update that revokes the old session names its status, and a device that is no
\* longer eligible rolls the whole transaction back; the new session rests on what the
\* old one did.
Refresh(r) ==
  LET s == request[r].of
  IN  /\ At(r, "refresh")
      /\ session[s].status = "ACTIVE"
      /\ IsSessionDeviceEligible(s)
      /\ IssueSession([session[s] EXCEPT !.proof = <<"session", s>>], Revoked({s}))
      /\ End(r)
      /\ UNCHANGED <<device, credential, attempt, challenge, used>>

Logout(s) == /\ session[s].status = "ACTIVE"
             /\ session' = Revoked({s})
             /\ UNCHANGED <<device, credential, attempt, challenge, used, request>>

-----------------------------------------------------------------------------
(* branches.service.ts. *)

PairDeviceToken ==
  /\ device.status = "ACTIVE" /\ device.mode \in {"UNPAIRED", "DEVICE_TOKEN"}
  /\ Len(credential) < MaxCredentials
  /\ credential' = Append(Close("DEVICE_TOKEN", "REVOKED"),
                          [mode |-> "DEVICE_TOKEN", status |-> "ACTIVE", by |-> 0])
  /\ session' = Revoked(DOMAIN session)
  /\ device' = [device EXCEPT !.mode = "DEVICE_TOKEN", !.pairing = Len(credential) + 1]
  /\ UNCHANGED <<attempt, challenge, used, request>>

Unpaired == [device EXCEPT !.mode = "UNPAIRED", !.pairing = 0]
ResetDeviceToken ==
  /\ device.status = "ACTIVE" /\ device.mode = "DEVICE_TOKEN"
  /\ device' = Unpaired
  /\ credential' = Close("DEVICE_TOKEN", "REVOKED")
  /\ session' = Revoked(DOMAIN session)
  /\ UNCHANGED <<attempt, challenge, used, request>>

\* createDeviceEnrollment reads the device, then writes a challenge for what it read.
Authorize(r) == /\ device.status = "ACTIVE" /\ device.mode # "DEVICE_TOKEN"
                /\ Begin(r, "authorize", 0)
CreateDeviceEnrollment(r) ==
  /\ At(r, "authorize")
  /\ Len(challenge) < MaxChallenges
  /\ challenge' = Append(challenge,
       [purpose |-> IF request[r].saw.mode = "WEBAUTHN" THEN "REPAIR" ELSE "PAIRING",
        open |-> TRUE])
  /\ End(r)
  /\ UNCHANGED <<device, credential, session, attempt, used>>

\* completeDeviceEnrollment locks the challenge by consuming it, reads the device ...
Suits(h) == IF challenge[h].purpose = "REPAIR" THEN device.mode = "WEBAUTHN"
                                               ELSE device.mode \in {"UNPAIRED", "HMAC_LEGACY"}
ConsumeChallenge(r, h) ==
  /\ challenge[h].open
  /\ \A p \in Requests : At(p, "enroll") => request[p].of # h
  /\ device.status = "ACTIVE" /\ Suits(h)
  /\ Begin(r, "enroll", h)
\* ... and changes it only if status, mode and pairedAt are still what it read.
\* Fault: the UPDATE names the device and its status only.
TransitionsAnyway(r) == device.status = "ACTIVE"
Transitions(r) == StillAsSeen(r)
CompleteDeviceEnrollment(r) ==
  /\ At(r, "enroll")
  /\ Transitions(r)
  /\ Len(credential) < MaxCredentials
  /\ challenge' = [challenge EXCEPT ![request[r].of].open = FALSE]
  /\ device' = [device EXCEPT !.mode = "WEBAUTHN", !.pairing = Len(credential) + 1,
                               !.secret = 0]
  /\ credential' = Append(Close("WEBAUTHN", "SUPERSEDED"),
                          [mode |-> "WEBAUTHN", status |-> "ACTIVE", by |-> request[r].of])
  /\ session' = Revoked(DOMAIN session)
  /\ End(r)
  /\ UNCHANGED <<attempt, used>>

RevokeDeviceCredential(c) ==
  /\ c \in ActiveOf("WEBAUTHN")
  /\ credential' = [credential EXCEPT ![c].status = "REVOKED"]
  /\ session' = Revoked({s \in DOMAIN session : session[s].credential = c})
  /\ UNCHANGED <<device, attempt, challenge, used, request>>

\* updateDevice with a status, or with the rotation of an HMAC secret; both at once
\* would be the two effects together.
ReadDevice(r, change) == /\ change = "rotate" => device.mode = "HMAC_LEGACY"
                         /\ Begin(r, change, 0)
UpdateDevice(r) ==
  LET change == request[r].op
      tokenTransition == /\ change # "rotate" /\ change # device.status
                         /\ device.mode = "DEVICE_TOKEN"
      status == IF change = "rotate" THEN device.status ELSE change
      secret == IF change = "rotate" THEN device.secret + 1 ELSE device.secret
  IN  /\ change \in {"ACTIVE", "INACTIVE", "rotate"}
      /\ StillAsSeen(r)
      /\ change = "ACTIVE" /\ device.mode = "WEBAUTHN" => ActiveOf("WEBAUTHN") # {}
      /\ secret <= MaxSecrets
      /\ device' = [(IF tokenTransition THEN Unpaired ELSE device)
                       EXCEPT !.status = status, !.secret = secret]
      /\ credential' = IF tokenTransition \/ change = "INACTIVE"
                       THEN Close("DEVICE_TOKEN", "REVOKED") ELSE credential
      /\ session' = IF tokenTransition \/ change # "ACTIVE"
                    THEN Revoked(DOMAIN session) ELSE session
      /\ End(r)
      /\ UNCHANGED <<attempt, challenge, used>>

-----------------------------------------------------------------------------
Handle(r) ==
  \/ Login(r) \/ BeginCashierWebAuthnLogin(r) \/ \E n \in Nonces : Attest(r, n)
  \/ \E a \in DOMAIN attempt, c \in DOMAIN credential : FindAttempt(r, a, c)
  \/ CompleteCashierLogin(r)
  \/ \E c \in DOMAIN credential : FindToken(r, c)
  \/ LoginWithDeviceToken(r)
  \/ \E s \in DOMAIN session : ReadSession(r, s)
  \/ Refresh(r)
  \/ Authorize(r) \/ CreateDeviceEnrollment(r)
  \/ \E h \in DOMAIN challenge : ConsumeChallenge(r, h)
  \/ CompleteDeviceEnrollment(r)
  \/ \E change \in {"ACTIVE", "INACTIVE", "rotate"} : ReadDevice(r, change)
  \/ UpdateDevice(r)
  \/ GiveUp(r)

Next == \/ \E r \in Requests : Handle(r)
        \/ \E s \in DOMAIN session : Logout(s)
        \/ \E c \in DOMAIN credential : RevokeDeviceCredential(c)
        \/ PairDeviceToken \/ ResetDeviceToken

Spec == Init /\ [][Next]_vars

-----------------------------------------------------------------------------
\* A session's proof is the nonce, the attempt, the token or the session it was opened
\* with.
TypeOK ==
  /\ device \in Devices
  /\ credential \in Seq(Credentials)
  /\ session \in Seq(Sessions)
  /\ attempt \in Seq({"open", "consumed"})
  /\ challenge \in Seq(Challenges)
  /\ used \subseteq Nonces
  /\ request \in [Requests -> Handlers]

\* Pairing, resetting, re-pairing, revoking, disabling and rotating the secret reach
\* every session: one that is still ACTIVE is one the guard lets work and, on an HMAC
\* device, was verified with the secret the device has now; and whatever the guard lets
\* work was opened under the pairing the device has now.  A token or WebAuthn login, a
\* refresh or an enrolment that read the device before such a change and commits after
\* it is no exception; an HMAC login that did so is (auth.service.ts reads nothing
\* again under the lock), and the session it opened late, with those that were
\* refreshed from it, is left out of the first part.
SessionsFollowPairing ==
  \A s \in DOMAIN session :
    /\ session[s].status = "ACTIVE" /\ ~session[s].late =>
         Usable(s) /\ (session[s].mode = "HMAC_LEGACY" => session[s].secret = device.secret)
    /\ Usable(s) => session[s].mode = device.mode /\ session[s].pairing = device.pairing

\* A credential that is ACTIVE is the one of the device's present pairing, so at most
\* one is; and a device in token mode, whose sessions are checked against the one
\* ACTIVE token, has it.
CredentialIsThePairing ==
  /\ \A c \in DOMAIN credential :
       Active(c) => c = device.pairing /\ credential[c].mode = device.mode
  /\ device.mode = "DEVICE_TOKEN" => device.pairing # 0 /\ Active(device.pairing)

\* What a handler consumes is spent once: an attestation, a login attempt and a
\* rotated session open one session each, an enrolment challenge one credential, and
\* a session that was rotated is never ACTIVE beside its successor.
ProofSpentOnce ==
  /\ \A s, t \in DOMAIN session :
       session[s].proof = session[t].proof /\ session[s].proof[1] # "token" => s = t
  /\ \A s \in DOMAIN session :
       session[s].proof[1] = "session" => session[session[s].proof[2]].status = "REVOKED"
  /\ \A c, d \in DOMAIN credential :
       credential[c].by = credential[d].by /\ credential[c].by # 0 => c = d
=============================================================================
