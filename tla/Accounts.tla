------------------------------- MODULE Accounts -------------------------------
(***************************************************************************)
(* One phone number in the auth service (user row, one-time codes,         *)
(* sessions) and its profile in the user service (KYC tier and documents). *)
(* Handlers run their awaits interleaved, if the behaviour is concurrent,  *)
(* or one after the other.                                                 *)
(*                                                                         *)
(* A password is the number of the reset that set it; a code, session or   *)
(* refresh token is its place in the order of creation.  The hour of the   *)
(* rate limit and the 30 days of a session never pass.  Every code that    *)
(* was sent may be typed in by somebody, at any time and for any purpose.  *)
(***************************************************************************)
EXTENDS Integers, Sequences, FiniteSets, Functions, FiniteSetsExt

CONSTANTS
  Handlers,     \* requests handled at the same time
  MaxCalls,     \* bound: requests handled in a behaviour
  Scenes        \* the sets of requests that behaviours consist of

Ops == {"register", "verify", "login", "refresh", "logout", "request", "confirm",
        "forgot", "reset", "submit", "approve", "reject"}

AccountsAssumption ==
  /\ Handlers # {} /\ MaxCalls \in Nat
  /\ Scenes \subseteq SUBSET Ops

VARIABLES
  scene,       \* the requests of this behaviour
  concurrent,  \* whether they overlap
  publishing,  \* whether Kafka accepts messages
  user,        \* the users row
  codes,       \* otp_codes; accepted counts the handlers that accepted one
  sessions,    \* sessions; gen is the password behind one, root a log-in
  registered,  \* AUTH_USER_REGISTERED messages not yet consumed
  profile,     \* user_profiles and the number of PENDING kyc_documents
  call,        \* the handlers
  calls        \* requests so far

auth == <<user, codes, sessions>>
vars == <<scene, concurrent, publishing, auth, registered, profile, call, calls>>

Purposes == {"PHONE_VERIFY", "PASSWORD_RESET", "WITHDRAWAL_CONFIRM"}
Stages   == {"check", "create", "invalidate", "insert", "dispatch", "publish", "find",
             "use", "verified", "auth", "session", "revoke", "tier", "issue", "logout",
             "count", "hash", "revokeAll", "submit", "submitted", "documents", "verdict"}
User     == [exists: BOOLEAN, gen: Nat, verified: BOOLEAN]
Code     == [purpose: Purposes, used: BOOLEAN, expired: BOOLEAN, accepted: Nat]
Session  == [live: BOOLEAN, gen: Nat, tier: Nat, root: BOOLEAN]
Profile  == [exists: BOOLEAN, tier: Nat, pending: Nat,
             status: {"NONE", "ID_SUBMITTED", "APPROVED", "REJECTED"}]
Call     == [pc: {"idle"} \cup Stages, op: Ops, ref: Nat, gen: Nat, tier: Nat]

TypeOK ==
  /\ scene \in Scenes /\ concurrent \in BOOLEAN /\ publishing \in BOOLEAN
  /\ user \in User
  /\ codes \in Seq(Code)
  /\ sessions \in Seq(Session)
  /\ registered \in 0..1
  /\ profile \in Profile
  /\ call \in [Handlers -> Call]
  /\ calls \in 0..MaxCalls

Idle == [pc |-> "idle", op |-> "register", ref |-> 0, gen |-> 0, tier |-> 0]

(* A phone that is not registered, or an account that is set up. *)
Init ==
  /\ scene \in Scenes /\ concurrent \in BOOLEAN /\ publishing \in BOOLEAN
  /\ \E old \in BOOLEAN :
       /\ user = [exists |-> old, gen |-> IF old THEN 1 ELSE 0, verified |-> old]
       /\ profile = [exists |-> old, tier |-> 0, pending |-> 0, status |-> "NONE"]
       /\ codes = IF old THEN <<[purpose |-> "PHONE_VERIFY", used |-> TRUE,
                                 expired |-> FALSE, accepted |-> 1]>>
                         ELSE <<>>
  /\ sessions = <<>>
  /\ registered = 0
  /\ call = [h \in Handlers |-> Idle]
  /\ calls = 0

PurposeOf(op) == CASE op \in {"register", "verify", "login"} -> "PHONE_VERIFY"
                   [] op \in {"forgot", "reset"}             -> "PASSWORD_RESET"
                   [] OTHER                                  -> "WITHDRAWAL_CONFIRM"

At(h, pc)     == call[h].pc = pc
Go(h, c)      == /\ call' = [call EXCEPT ![h] = c]
                 /\ UNCHANGED <<scene, concurrent, publishing, calls>>
Goto(h, pc)   == Go(h, IF pc = "idle" THEN Idle ELSE [call[h] EXCEPT !.pc = pc])
Op(h)         == call[h].op
Purpose(h)    == PurposeOf(Op(h))
InTurn        == \A h \in Handlers : At(h, "idle")

-----------------------------------------------------------------------------
(* A request arrives.  Without a user row all but registrations are refused*)
(* by findUserByPhoneOrThrow, and without a profile there is no KYC.       *)
First(op) == CASE op = "register"                      -> "check"
               [] op \in {"verify", "reset", "confirm"} -> "find"
               [] op = "login"                         -> "auth"
               [] op = "refresh"                       -> "session"
               [] op = "logout"                        -> "logout"
               [] op = "request"                       -> "count"
               [] op = "forgot"                        -> "invalidate"
               [] op = "submit"                        -> "submit"
               [] OTHER                                -> "documents"

(* What the caller brings: a code, a refresh token, or a password. *)
Brings(op) == CASE op \in {"verify", "reset", "confirm"} -> DOMAIN codes
                [] op \in {"refresh", "logout"}         -> DOMAIN sessions
                [] op = "login"                         -> 1..user.gen
                [] OTHER                                -> {0}

Start(h) ==
  /\ At(h, "idle")
  /\ concurrent \/ InTurn
  /\ calls < MaxCalls
  /\ \E op \in scene :
       /\ op # "register" => user.exists
       /\ op \in {"submit", "approve", "reject"} => profile.exists
       /\ \E ref \in Brings(op) :
            call' = [call EXCEPT ![h] = [pc |-> First(op), op |-> op, ref |-> ref,
                                         gen |-> user.gen, tier |-> 0]]
  /\ calls' = calls + 1
  /\ UNCHANGED <<scene, concurrent, publishing, auth, registered, profile>>

Registration(h) ==
  /\ \/ /\ At(h, "check")
        /\ Goto(h, IF user.exists THEN "idle" ELSE "create")
        /\ UNCHANGED user
     \/ /\ At(h, "create")
        /\ ~user.exists
        /\ user' = [exists |-> TRUE, gen |-> 1, verified |-> FALSE]
        /\ Go(h, [call[h] EXCEPT !.pc = "invalidate", !.gen = 1])
     \/ /\ At(h, "create")           \* the phone is unique
        /\ user.exists
        /\ Goto(h, "idle")
        /\ UNCHANGED user
  /\ UNCHANGED <<codes, sessions, registered, profile>>

(* Mutant: the user service is told when the phone is verified. *)
AnnouncesVerified(h) ==
  /\ At(h, "publish")
  /\ registered' = IF publishing /\ Op(h) = "verify" THEN 1 ELSE registered
  /\ Goto(h, IF publishing /\ Op(h) = "verify" THEN "tier" ELSE "idle")
  /\ UNCHANGED <<auth, profile>>

(* Publishing ends the handler, except that a verified phone logs in; a    *)
(* publish that fails ends it too.                                         *)
Publish(h) ==
  /\ At(h, "publish")
  /\ registered' = IF publishing /\ Op(h) = "register" THEN 1 ELSE registered
  /\ Goto(h, IF publishing /\ Op(h) = "verify" THEN "tier" ELSE "idle")
  /\ UNCHANGED <<auth, profile>>

(* The user service's consumer: createProfile, idempotent.  One message at *)
(* most exists, because one registration created the user.                 *)
CreateProfile ==
  /\ registered = 1
  /\ registered' = 0
  /\ profile' = IF profile.exists THEN profile ELSE [profile EXCEPT !.exists = TRUE]
  /\ UNCHANGED <<scene, concurrent, publishing, auth, call, calls>>

-----------------------------------------------------------------------------
(* requestOtp counts the codes of the last hour before it creates one.     *)
RequestOtp(h) ==
  /\ At(h, "count")
  /\ Goto(h, IF Cardinality({i \in DOMAIN codes : codes[i].purpose = Purpose(h)}) >= 3
             THEN "idle" ELSE "invalidate")
  /\ UNCHANGED <<auth, registered, profile>>

(* Mutant: the earlier codes stay valid. *)
KeepCodes(p) == codes

InvalidateCodes(p) ==
  [i \in DOMAIN codes |-> IF codes[i].purpose = p THEN [codes[i] EXCEPT !.used = TRUE]
                                                  ELSE codes[i]]

(* createOtp: the earlier codes of the purpose are marked used, then one   *)
(* is inserted, then sent.                                                 *)
CreateOtp(h) ==
  /\ \/ /\ At(h, "invalidate")
        /\ codes' = InvalidateCodes(Purpose(h))
        /\ Goto(h, "insert")
     \/ /\ At(h, "insert")
        /\ codes' = Append(codes, [purpose |-> Purpose(h), used |-> FALSE,
                                   expired |-> FALSE, accepted |-> 0])
        /\ Goto(h, "dispatch")
     \/ /\ At(h, "dispatch")
        /\ Goto(h, IF publishing /\ Op(h) = "register" THEN "publish" ELSE "idle")
        /\ UNCHANGED codes
  /\ UNCHANGED <<user, sessions, registered, profile>>

(* Five minutes pass. *)
Expire ==
  /\ \E i \in DOMAIN codes :
       /\ ~codes[i].used /\ ~codes[i].expired
       /\ codes' = [codes EXCEPT ![i] = [codes[i] EXCEPT !.expired = TRUE]]
  /\ UNCHANGED <<scene, concurrent, publishing, user, sessions, registered, profile, call, calls>>

Live(p) == {i \in DOMAIN codes : /\ codes[i].purpose = p
                                 /\ ~codes[i].used /\ ~codes[i].expired}

(* validateOtp: the newest live code of the purpose must be the one that   *)
(* was typed in; it is marked in a second call.                            *)
FindCode(h) ==
  LET live == Live(Purpose(h))
  IN  /\ At(h, "find")
      /\ Goto(h, IF live # {} /\ call[h].ref = Max(live) THEN "use" ELSE "idle")
      /\ UNCHANGED <<auth, registered, profile>>

UseCode(h) ==
  LET i == call[h].ref
  IN  /\ At(h, "use")
      /\ codes' = [codes EXCEPT ![i] = [codes[i] EXCEPT !.used = TRUE,
                                                        !.accepted = codes[i].accepted + 1]]
      /\ Goto(h, CASE Op(h) = "verify" -> "verified"
                   [] Op(h) = "reset"  -> "hash"
                   [] OTHER            -> "idle")
      /\ UNCHANGED <<user, sessions, registered, profile>>

VerifyPhone(h) ==
  /\ At(h, "verified")
  /\ user' = [user EXCEPT !.verified = TRUE]
  /\ Goto(h, "publish")
  /\ UNCHANGED <<codes, sessions, registered, profile>>

(* Mutant: resetPassword does not revoke. *)
RevokeNone == sessions

RevokedAll == [s \in DOMAIN sessions |-> [sessions[s] EXCEPT !.live = FALSE]]

ResetPassword(h) ==
  /\ \/ /\ At(h, "hash")
        /\ user' = [user EXCEPT !.gen = user.gen + 1]
        /\ Goto(h, "revokeAll")
        /\ UNCHANGED sessions
     \/ /\ At(h, "revokeAll")
        /\ sessions' = RevokedAll
        /\ Goto(h, "idle")
        /\ UNCHANGED user
  /\ UNCHANGED <<codes, registered, profile>>

-----------------------------------------------------------------------------
(* login: isActive is never changed, so nobody is turned away for it.      *)
Login(h) ==
  /\ At(h, "auth")
  /\ Goto(h, CASE call[h].ref # user.gen -> "idle"
               [] ~user.verified         -> "invalidate"
               [] OTHER                  -> "tier")
  /\ UNCHANGED <<auth, registered, profile>>

Revoke(s) == sessions' = [sessions EXCEPT ![s] = [sessions[s] EXCEPT !.live = FALSE]]

Refresh(h) ==
  /\ \/ /\ At(h, "session")
        /\ Go(h, IF sessions[call[h].ref].live
                 THEN [call[h] EXCEPT !.pc = "revoke", !.gen = sessions[call[h].ref].gen]
                 ELSE Idle)
        /\ UNCHANGED sessions
     \/ At(h, "revoke") /\ Revoke(call[h].ref) /\ Goto(h, "tier")
     \/ At(h, "logout") /\ Revoke(call[h].ref) /\ Goto(h, "idle")
  /\ UNCHANGED <<user, codes, registered, profile>>

Tiers == {0, profile.tier}

(* issueTokens: the tier is asked for, 0 if the user service is out of     *)
(* reach or has no profile yet, then the session is created.               *)
FetchKycTier(h) ==
  /\ At(h, "tier")
  /\ \E tier \in Tiers :
       Go(h, [call[h] EXCEPT !.pc = "issue", !.tier = tier])
  /\ UNCHANGED <<auth, registered, profile>>

CreateSession(h) ==
  /\ At(h, "issue")
  /\ sessions' = Append(sessions, [live |-> TRUE, gen |-> call[h].gen,
                                   tier |-> call[h].tier, root |-> Op(h) # "refresh"])
  /\ Goto(h, IF Op(h) = "login" THEN "publish" ELSE "idle")
  /\ UNCHANGED <<user, codes, registered, profile>>

-----------------------------------------------------------------------------
(* submitKyc: the document, then the status the admins' list goes by.      *)
SubmitKyc(h) ==
  /\ \/ /\ At(h, "submit")
        /\ profile' = [profile EXCEPT !.pending = profile.pending + 1]
        /\ Goto(h, "submitted")
     \/ /\ At(h, "submitted")
        /\ profile' = [profile EXCEPT !.status = "ID_SUBMITTED"]
        /\ Goto(h, "publish")
  /\ UNCHANGED <<auth, registered>>

(* Mutant: a rejected user falls back to the first tier. *)
TierIsTakenBack(op) == IF op = "approve" THEN 2 ELSE 0

TierAfter(op) == IF op = "approve" THEN 2 ELSE profile.tier

(* Mutant: documents are counted down without looking. *)
CountsDown == profile.pending - 1

PendingAfterReview == 0

(* approveKyc and rejectKyc: every pending document, then the profile.     *)
ReviewKyc(h) ==
  /\ \/ /\ At(h, "documents")
        /\ profile' = [profile EXCEPT !.pending = PendingAfterReview]
        /\ Goto(h, "verdict")
     \/ /\ At(h, "verdict")
        /\ profile' = [profile EXCEPT !.tier = TierAfter(Op(h)),
                         !.status = IF Op(h) = "approve" THEN "APPROVED" ELSE "REJECTED"]
        /\ Goto(h, "publish")
  /\ UNCHANGED <<auth, registered>>

Handle(h) ==
  \/ Registration(h) \/ Publish(h) \/ RequestOtp(h) \/ CreateOtp(h) \/ FindCode(h)
  \/ UseCode(h) \/ VerifyPhone(h) \/ ResetPassword(h) \/ Login(h) \/ Refresh(h)
  \/ FetchKycTier(h) \/ CreateSession(h) \/ SubmitKyc(h) \/ ReviewKyc(h)

Next == CreateProfile \/ Expire \/ \E h \in Handlers : Start(h) \/ Handle(h)

Spec == Init /\ [][Next]_vars

(* The event loop runs every handler, the broker delivers. *)
FairSpec == Spec /\ WF_vars(CreateProfile) /\ \A h \in Handlers : WF_vars(Handle(h))

-----------------------------------------------------------------------------
(* What the user and the reviewers are shown: the profile's status, and    *)
(* whether the profile is on the list that is filtered by a status.        *)
getKycStatus ==
  [kycStatus |-> profile.status, kycTier |-> profile.tier]

listUsers(kycStatus) == profile.exists /\ profile.status = kycStatus

-----------------------------------------------------------------------------
Accepted(p) ==
  SumFunctionOnSet([i \in DOMAIN codes |-> codes[i].accepted],
                   {i \in DOMAIN codes : codes[i].purpose = p})

(* A phone is verified, or a password changed, only by an accepted code of *)
(* that purpose, one change for each acceptance.  When requests are handled*)
(* in turn, a code is accepted once at most, and a newer code voids the    *)
(* older ones.  (Overlapping requests break both: a code is checked by two *)
(* before either marks it, and two that create one leave both valid.)      *)
CodesAreOneTime ==
  /\ user.verified => Accepted("PHONE_VERIFY") > 0
  /\ user.gen <= 1 + Accepted("PASSWORD_RESET")
  /\ ~concurrent => /\ \A p \in Purposes : Cardinality(Live(p)) <= 1
                    /\ \A i \in DOMAIN codes : codes[i].accepted <= 1

(* After a password reset no session that rests on an older password is    *)
(* left, whatever was refreshed in between, and there are never more live  *)
(* sessions than log-ins: a rotated refresh token has one successor.       *)
(* (Again in turn: a log-in or refresh that overlaps the reset survives    *)
(* it, and a token rotated twice at once has two successors.)              *)
SessionsFollowPassword ==
  LET live == {s \in DOMAIN sessions : sessions[s].live}
  IN  ~concurrent /\ InTurn =>
        /\ \A s \in live : sessions[s].gen = user.gen
        /\ Cardinality(live) <= Cardinality({s \in DOMAIN sessions : sessions[s].root})

(* A token never carries more than the tier the user service grants, as    *)
(* the comment on fetchKycTier claims of stale tiers, although tokens      *)
(* outlive reviews and handlers overlap them.                              *)
TokensNeverOverPermit == \A s \in DOMAIN sessions : sessions[s].tier <= getKycStatus.kycTier

(* Reviewed in turn, a profile is on the list of submissions exactly while *)
(* a document of it waits.  (A submission that overlaps a review may leave *)
(* a document that no list shows, or a listing without a document.)        *)
PendingIsListed ==
  ~concurrent /\ InTurn => (listUsers("ID_SUBMITTED") <=> profile.pending > 0)

(* A user that is registered gets a profile, also when registrations for   *)
(* one phone overlap, provided that the messages are accepted.             *)
RegisteredHasProfile == user.exists /\ publishing ~> profile.exists
=============================================================================
