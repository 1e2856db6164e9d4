-------------------------------- MODULE Otp --------------------------------
(***************************************************************************)
(* The one-time code of one account: sendOtp and verifyOtp of AuthService, *)
(* the Redis key that holds the hash, and the login page that calls them.  *)
(*                                                                         *)
(* The n-th code sent is n; a code stands for its bcrypt hash.  A call     *)
(* stops at each of its awaits, so that calls of two taps or two devices   *)
(* interleave.                                                             *)
(***************************************************************************)
EXTENDS Integers, FiniteSets

CONSTANTS
  OtpCalls,   \* calls of send-otp and verify-otp (a bound)
  MaxCodes    \* codes sent (a bound)

Codes == 1..MaxCodes
NoCode == 0

VARIABLES
  otpCall,    \* the calls
  otpKey,     \* otp:<nationalId> in Redis
  made,       \* codes made so far
  delivered,  \* codes whose SMS arrived
  account,    \* isActive and not deleted
  sessions,   \* refresh tokens created for each code
  form,       \* the login page: the step, and whether it is loading
  raced       \* history: codes that two verifications had read at once

vars == <<otpCall, otpKey, made, delivered, account, sessions, form, raced>>

Places == {"unused", "sending", "resolving", "reading", "comparing", "deleting",
           "finding", "saving", "done", "failed"}
Calls == [at : Places, code : Codes \cup {NoCode}, read : Codes \cup {NoCode}]
Unused == [at |-> "unused", code |-> NoCode, read |-> NoCode]

TypeOK ==
  /\ otpCall \in [OtpCalls -> Calls]
  /\ otpKey \in Codes \cup {NoCode}
  /\ made \in 0..MaxCodes /\ delivered \subseteq Codes /\ raced \subseteq Codes
  /\ account \in BOOLEAN
  /\ sessions \in [Codes -> Nat]
  /\ form \in {"phone", "otp", "home"}

Init ==
  /\ otpCall = [c \in OtpCalls |-> Unused]
  /\ otpKey = NoCode /\ made = 0 /\ delivered = {}
  /\ account = TRUE /\ sessions = [n \in Codes |-> 0]
  /\ form = "phone" /\ raced = {}

At(c, place) == otpCall[c].at = place
Go(c, place) == otpCall' = [otpCall EXCEPT ![c].at = place]

-----------------------------------------------------------------------------
\* handleSendOtp: the first code, or another from the code step.
AskForCode(c) ==
  /\ At(c, "unused") /\ form # "home"
  /\ Go(c, "sending")
  /\ UNCHANGED <<otpKey, made, delivered, account, sessions, form, raced>>

\* sendOtp: the key is overwritten, the SMS is not waited for, and the page
\* goes to the code step.
SendOtp(c) ==
  /\ At(c, "sending")
  /\ IF account
     THEN /\ made < MaxCodes /\ made' = made + 1 /\ otpKey' = made'
          /\ Go(c, "done")
          /\ form' = IF form = "home" THEN form ELSE "otp"
     ELSE Go(c, "failed") /\ UNCHANGED <<made, otpKey, form>>
  /\ UNCHANGED <<delivered, account, sessions, raced>>

\* The SMS of a code arrives; some never do.
Deliver(n) ==
  /\ n \in 1..made /\ n \notin delivered
  /\ delivered' = delivered \cup {n}
  /\ UNCHANGED <<otpCall, otpKey, made, account, sessions, form, raced>>

\* handleVerify: by the button, or by the last digit; nothing stops a second
\* one while the first is under way.
Enter(c, n) ==
  /\ At(c, "unused") /\ form = "otp" /\ n \in delivered
  /\ otpCall' = [otpCall EXCEPT ![c].at = "resolving", ![c].code = n]
  /\ UNCHANGED <<otpKey, made, delivered, account, sessions, form, raced>>

\* resolveUser by national id or phone, then getOtp.
Resolve(c) ==
  /\ At(c, "resolving")
  /\ Go(c, IF account THEN "reading" ELSE "failed")
  /\ UNCHANGED <<otpKey, made, delivered, account, sessions, form, raced>>

Read(c) ==
  /\ At(c, "reading")
  /\ otpCall' = [otpCall EXCEPT ![c].at = IF otpKey = NoCode THEN "failed" ELSE "comparing",
                                ![c].read = otpKey]
  /\ raced' = IF \E d \in OtpCalls \ {c} :
                   otpCall[d].at \in {"comparing", "deleting"} /\ otpCall[d].read = otpKey
              THEN raced \cup ({otpKey} \ {NoCode}) ELSE raced
  /\ UNCHANGED <<otpKey, made, delivered, account, sessions, form>>

Compare(c) ==
  /\ At(c, "comparing")
  /\ Go(c, IF otpCall[c].code = otpCall[c].read THEN "deleting" ELSE "failed")
  /\ UNCHANGED <<otpKey, made, delivered, account, sessions, form, raced>>

\* Mutant: the code is not deleted.
DeleteNothing(c) ==
  /\ At(c, "deleting") /\ Go(c, "finding")
  /\ UNCHANGED <<otpKey, made, delivered, account, sessions, form, raced>>

\* deleteOtp by key: also a newer code that was sent meanwhile.
Delete(c) ==
  /\ At(c, "deleting") /\ Go(c, "finding")
  /\ otpKey' = NoCode
  /\ UNCHANGED <<made, delivered, account, sessions, form, raced>>

Find(c) ==
  /\ At(c, "finding")
  /\ Go(c, IF account THEN "saving" ELSE "failed")
  /\ UNCHANGED <<otpKey, made, delivered, account, sessions, form, raced>>

\* generateTokens and saveRefreshToken; the page stores the tokens and leaves.
Save(c) ==
  /\ At(c, "saving") /\ Go(c, "done")
  /\ sessions' = [sessions EXCEPT ![otpCall[c].code] = @ + 1]
  /\ form' = "home"
  /\ UNCHANGED <<otpKey, made, delivered, account, raced>>

\* The key's time to live.
Expire ==
  /\ otpKey # NoCode /\ otpKey' = NoCode
  /\ UNCHANGED <<otpCall, made, delivered, account, sessions, form, raced>>

\* An admin deactivates the account, or activates it again.
SetActive(on) ==
  /\ account # on /\ account' = on
  /\ UNCHANGED <<otpCall, otpKey, made, delivered, sessions, form, raced>>

Next ==
  \/ \E c \in OtpCalls :
       \/ AskForCode(c) \/ SendOtp(c)
       \/ \E n \in Codes : Enter(c, n)
       \/ Resolve(c) \/ Read(c) \/ Compare(c) \/ Delete(c) \/ Find(c) \/ Save(c)
  \/ \E n \in Codes : Deliver(n)
  \/ Expire
  \/ \E on \in BOOLEAN : SetActive(on)

Spec == Init /\ [][Next]_vars

-----------------------------------------------------------------------------
\* A code opens one session: a second verification of it finds no key, or a
\* newer code, unless it had read the key before the first one deleted it
\* (auth.service.ts:130-141: get, compare and delete are three steps).
CodeOpensOneSession == \A n \in Codes : n \notin raced => sessions[n] <= 1
=============================================================================
