---------------------------- MODULE ServicesProofs ----------------------------
(***************************************************************************)
(* Proofs about the services of the API that MCServices puts side by side: *)
(* for any number of calls, codes, recipients, hours, files and devices.   *)
(*                                                                         *)
(* Each part has an inductive invariant, kept by its own steps; since the  *)
(* parts share no variable, a step of the others leaves it alone.          *)
(***************************************************************************)
EXTENDS MCServices, FilteringProofs

-----------------------------------------------------------------------------
(* One-time codes.                                                         *)

\* A verification that has read code n, and one that n was accepted for.
Pending(c, n) == otpCall[c].at \in {"comparing", "deleting"} /\ otpCall[c].read = n
Accepted(c, n) == otpCall[c].at \in {"finding", "saving"} /\ otpCall[c].code = n
Used(n) == sessions[n] > 0 \/ \E c \in OtpCalls : Accepted(c, n)

\* Nothing names a code that was not made yet.
OtpPast ==
  /\ otpKey <= otpMade /\ delivered \subseteq 1..otpMade
  /\ \A c \in OtpCalls :
       /\ otpCall[c].code <= otpMade /\ otpCall[c].read <= otpMade
       /\ otpCall[c].at \in {"finding", "saving"} => otpCall[c].code # Codes!NoCode
       /\ otpCall[c].at \in {"comparing", "deleting"} => otpCall[c].read # Codes!NoCode
       /\ otpCall[c].at = "deleting" => otpCall[c].read = otpCall[c].code
  /\ \A n \in Codes!Codes : sessions[n] > 0 => n <= otpMade

\* A code that no two verifications had read at once is read by one at a time,
\* and by none once it was accepted: then the key holds something else.
OncePerCode == \A n \in Codes!Codes : n \notin otpRaced =>
  /\ \A c, d \in OtpCalls : Pending(c, n) /\ Pending(d, n) => c = d
  /\ Used(n) => otpKey # n /\ \A c \in OtpCalls : ~Pending(c, n)
  /\ \A c, d \in OtpCalls : Accepted(c, n) /\ Accepted(d, n) => c = d
  /\ \A c \in OtpCalls : Accepted(c, n) => sessions[n] = 0
  /\ sessions[n] <= 1

OtpInv == Codes!TypeOK /\ OtpPast /\ OncePerCode

\* What the proofs need of the constants, one kind at a time.
LEMMA CodesBound == MaxCodes \in Nat
BY ServicesAssumption DEF ServicesAssumption

LEMMA InitOtp == Codes!Init => OtpInv
<1> SUFFICES ASSUME Codes!Init PROVE OtpInv
  OBVIOUS
<1>1. Codes!TypeOK
  <2>1. Codes!Unused \in Codes!Calls
    BY DEF Codes!Unused, Codes!Calls, Codes!Places, Codes!NoCode
  <2>2. /\ otpCall \in [OtpCalls -> Codes!Calls]
        /\ otpKey \in Codes!Codes \cup {Codes!NoCode} /\ otpMade \in 0..MaxCodes
        /\ delivered \subseteq Codes!Codes /\ otpRaced \subseteq Codes!Codes
        /\ sessions \in [Codes!Codes -> Nat]
        /\ otpForm \in {"phone", "otp", "home"}
    BY <2>1, CodesBound DEF Codes!Init, Codes!NoCode
  <2>3. otpAccount \in BOOLEAN
    BY Zenon DEF Codes!Init
  <2> QED
    BY <2>2, <2>3 DEF Codes!TypeOK
<1>2. OtpPast /\ OncePerCode
  BY DEF Codes!Init, OtpPast, OncePerCode, Codes!Unused, Codes!Codes, Codes!NoCode, Pending,
     Accepted, Used
<1> QED
  BY <1>1, <1>2 DEF OtpInv

\* A change of one call.
LEMMA OneOtpCall ==
  ASSUME Codes!TypeOK, NEW c \in OtpCalls, NEW q \in Codes!Calls,
         otpCall' = [otpCall EXCEPT ![c] = q]
  PROVE  /\ otpCall' \in [OtpCalls -> Codes!Calls] /\ otpCall'[c] = q
         /\ \A d \in OtpCalls : d # c => otpCall'[d] = otpCall[d]
BY DEF Codes!TypeOK

\* A call that moves without coming to where codes are read or accepted, and
\* without a change of code, keeps the invariant.
LEMMA HarmlessMove ==
  ASSUME OtpInv, NEW c \in OtpCalls, NEW q \in Codes!Calls,
         otpCall' = [otpCall EXCEPT ![c] = q],
         UNCHANGED <<otpKey, otpMade, delivered, sessions, otpRaced>>,
         otpAccount' \in BOOLEAN, otpForm' \in {"phone", "otp", "home"},
         q.code <= otpMade, q.read <= otpMade,
         q.at \in {"finding", "saving"} => otpCall[c].at = "finding" /\ q.code = otpCall[c].code,
         q.at \in {"comparing", "deleting"} =>
           otpCall[c].at = "comparing" /\ q.read = otpCall[c].read,
         q.at = "deleting" => q.read = q.code
  PROVE  OtpInv'
<1>1. /\ otpCall' \in [OtpCalls -> Codes!Calls] /\ otpCall'[c] = q
      /\ \A d \in OtpCalls : d # c => otpCall'[d] = otpCall[d]
  BY OneOtpCall DEF OtpInv
<1>2. Codes!TypeOK'
  BY <1>1, Zenon DEF OtpInv, Codes!TypeOK
<1>3. OtpPast'
  BY <1>1 DEF OtpInv, OtpPast
<1>4. \A d \in OtpCalls, n \in Codes!Codes :
        (Pending(d, n)' => Pending(d, n)) /\ (Accepted(d, n)' => Accepted(d, n))
  BY <1>1 DEF Pending, Accepted
<1>5. OncePerCode'
  <2>1. \A n \in Codes!Codes : Used(n)' => Used(n)
    BY <1>4 DEF Used
  <2> QED
    BY <1>4, <2>1 DEF OtpInv, OncePerCode
<1> QED
  BY <1>2, <1>3, <1>5 DEF OtpInv

LEMMA NextOtp == OtpInv /\ [Codes!Next]_otpVars => OtpInv'
<1> SUFFICES ASSUME OtpInv, [Codes!Next]_otpVars PROVE OtpInv'
  OBVIOUS
<1> USE DEF OtpInv
<1>1. ASSUME NEW c \in OtpCalls, Codes!AskForCode(c) PROVE OtpInv'
  <2> DEFINE q == [otpCall[c] EXCEPT !.at = "sending"]
  <2>1. q \in Codes!Calls /\ q.at = "sending" /\ q.code = otpCall[c].code /\ q.read = otpCall[c].read
    BY DEF Codes!TypeOK, Codes!Calls, Codes!Places
  <2> QED
    BY <1>1, <2>1, HarmlessMove DEF Codes!AskForCode, Codes!Go, Codes!TypeOK, OtpPast
<1>2. ASSUME NEW c \in OtpCalls, Codes!SendOtp(c) PROVE OtpInv'
  <2> DEFINE q == [otpCall[c] EXCEPT !.at = "done"]
             b == [otpCall[c] EXCEPT !.at = "failed"]
  <2>1. /\ q \in Codes!Calls /\ q.at = "done" /\ q.code = otpCall[c].code /\ q.read = otpCall[c].read
        /\ b \in Codes!Calls /\ b.at = "failed" /\ b.code = otpCall[c].code /\ b.read = otpCall[c].read
    BY DEF Codes!TypeOK, Codes!Calls, Codes!Places
  <2>2. CASE ~otpAccount
    BY <1>2, <2>1, <2>2, HarmlessMove DEF Codes!SendOtp, Codes!Go, Codes!TypeOK, OtpPast
  <2>3. CASE otpAccount
    <3>1. /\ otpMade < MaxCodes /\ otpMade' = otpMade + 1 /\ otpKey' = otpMade'
          /\ otpCall' = [otpCall EXCEPT ![c] = q]
          /\ UNCHANGED <<delivered, otpAccount, sessions, otpRaced>>
          /\ otpForm' \in {"phone", "otp", "home"}
      BY <1>2, <2>3 DEF Codes!SendOtp, Codes!Go, Codes!TypeOK
    <3>2. /\ otpCall' \in [OtpCalls -> Codes!Calls] /\ otpCall'[c] = q
          /\ \A d \in OtpCalls : d # c => otpCall'[d] = otpCall[d]
      BY <2>1, <3>1, OneOtpCall
    <3> HIDE DEF q
    <3>3. otpMade' \in 0..MaxCodes /\ otpKey' \in Codes!Codes \cup {Codes!NoCode}
      BY <3>1, CodesBound DEF Codes!TypeOK, Codes!Codes
    <3>4. Codes!TypeOK'
      BY <3>1, <3>2, <3>3, Zenon DEF Codes!TypeOK
    <3>5. OtpPast'
      BY <2>1, <3>1, <3>2 DEF Codes!TypeOK, OtpPast, Codes!Calls, Codes!Codes, Codes!NoCode
    <3>6. \A d \in OtpCalls, n \in Codes!Codes :
            (Pending(d, n)' => Pending(d, n)) /\ (Accepted(d, n)' => Accepted(d, n))
      BY <2>1, <3>2 DEF Pending, Accepted
    <3>7. ~Used(otpKey')
      <4>1. otpKey' \in Codes!Codes /\ otpKey' > otpMade
        BY <3>1, CodesBound DEF Codes!TypeOK, Codes!Codes
      <4>2. ~(sessions[otpKey'] > 0)
        BY <4>1 DEF OtpPast, Codes!TypeOK, Codes!Codes
      <4>3. \A d \in OtpCalls : ~Accepted(d, otpKey')
        BY <4>1 DEF OtpPast, Codes!TypeOK, Accepted, Codes!Calls, Codes!Codes, Codes!NoCode
      <4> QED
        BY <4>2, <4>3 DEF Used
    <3>8. \A n \in Codes!Codes : Used(n)' => Used(n)
      BY <3>1, <3>6 DEF Used
    <3>9. OncePerCode'
      BY <3>1, <3>6, <3>7, <3>8 DEF OncePerCode
    <3> QED
      BY <3>4, <3>5, <3>9
  <2> QED
    BY <2>2, <2>3
<1>3. ASSUME NEW n \in Codes!Codes, Codes!Deliver(n) PROVE OtpInv'
  <2>1. UNCHANGED <<otpCall, otpKey, otpMade, otpAccount, sessions, otpForm, otpRaced>>
        /\ delivered' = delivered \cup {n} /\ n \in 1..otpMade
    BY <1>3 DEF Codes!Deliver
  <2>2. Codes!TypeOK'
    BY <2>1, Zenon DEF Codes!TypeOK
  <2> QED
    BY <2>1, <2>2 DEF OtpPast, OncePerCode, Pending, Accepted, Used
<1>4. ASSUME NEW c \in OtpCalls, NEW n \in Codes!Codes, Codes!Enter(c, n) PROVE OtpInv'
  <2> DEFINE q == [otpCall[c] EXCEPT !.at = "resolving", !.code = n]
  <2>1. q \in Codes!Calls /\ q.at = "resolving" /\ q.code = n /\ q.read = otpCall[c].read
    BY DEF Codes!TypeOK, Codes!Calls, Codes!Places
  <2>2. otpCall' = [otpCall EXCEPT ![c] = q]
    BY <1>4 DEF Codes!Enter, Codes!TypeOK, Codes!Calls
  <2>3. n <= otpMade
    BY <1>4 DEF Codes!Enter, OtpPast, Codes!TypeOK
  <2>4. /\ UNCHANGED <<otpKey, otpMade, delivered, sessions, otpRaced, otpAccount, otpForm>>
        /\ otpAccount \in BOOLEAN /\ otpForm \in {"phone", "otp", "home"}
    BY <1>4, Zenon DEF Codes!Enter, Codes!TypeOK
  <2> HIDE DEF q
  <2> QED
    BY <2>1, <2>2, <2>3, <2>4, HarmlessMove DEF OtpPast
<1>5. ASSUME NEW c \in OtpCalls, Codes!Resolve(c) PROVE OtpInv'
  <2> DEFINE q == [otpCall[c] EXCEPT !.at = IF otpAccount THEN "reading" ELSE "failed"]
  <2>1. /\ q \in Codes!Calls /\ q.at \in {"reading", "failed"}
        /\ q.code = otpCall[c].code /\ q.read = otpCall[c].read
    BY DEF Codes!TypeOK, Codes!Calls, Codes!Places
  <2> QED
    BY <1>5, <2>1, HarmlessMove DEF Codes!Resolve, Codes!Go, Codes!TypeOK, OtpPast
<1>6. ASSUME NEW c \in OtpCalls, Codes!Read(c) PROVE OtpInv'
  <2> DEFINE q == [otpCall[c] EXCEPT
               !.at = IF otpKey = Codes!NoCode THEN "failed" ELSE "comparing", !.read = otpKey]
  <2>1. /\ q \in Codes!Calls /\ q.code = otpCall[c].code /\ q.read = otpKey
        /\ q.at = IF otpKey = Codes!NoCode THEN "failed" ELSE "comparing"
    BY DEF Codes!TypeOK, Codes!Calls, Codes!Places
  <2>2. /\ otpCall' = [otpCall EXCEPT ![c] = q]
        /\ UNCHANGED <<otpKey, otpMade, delivered, otpAccount, sessions, otpForm>>
    BY <1>6 DEF Codes!Read, Codes!TypeOK, Codes!Calls
  <2> HIDE DEF q
  <2>3. /\ otpCall' \in [OtpCalls -> Codes!Calls] /\ otpCall'[c] = q
        /\ \A d \in OtpCalls : d # c => otpCall'[d] = otpCall[d]
    BY <2>1, <2>2, OneOtpCall
  <2>4. /\ otpRaced \subseteq otpRaced' /\ otpRaced' \subseteq Codes!Codes
        /\ \A n \in Codes!Codes : n \notin otpRaced' /\ n = otpKey =>
             \A d \in OtpCalls : d # c => ~Pending(d, n)
    BY <1>6 DEF Codes!Read, Codes!TypeOK, Pending, Codes!Codes, Codes!NoCode
  <2>5. Codes!TypeOK'
    BY <2>2, <2>3, <2>4, Zenon DEF Codes!TypeOK
  <2>6. OtpPast'
    BY <2>1, <2>2, <2>3 DEF OtpPast
  <2>7. \A d \in OtpCalls, n \in Codes!Codes :
          /\ Accepted(d, n)' => Accepted(d, n)
          /\ Pending(d, n)' => Pending(d, n) \/ (d = c /\ n = otpKey)
    BY <2>1, <2>3 DEF Pending, Accepted
  <2>8. \A n \in Codes!Codes : Used(n)' => Used(n)
    BY <2>2, <2>7 DEF Used
  <2>9. OncePerCode'
    <3> SUFFICES ASSUME NEW n \in Codes!Codes, n \notin otpRaced'
                 PROVE  /\ \A a, d \in OtpCalls : Pending(a, n)' /\ Pending(d, n)' => a = d
                        /\ Used(n)' => otpKey' # n /\ \A d \in OtpCalls : ~Pending(d, n)'
                        /\ \A a, d \in OtpCalls : Accepted(a, n)' /\ Accepted(d, n)' => a = d
                        /\ \A d \in OtpCalls : Accepted(d, n)' => sessions'[n] = 0
                        /\ sessions'[n] <= 1
      BY DEF OncePerCode
    <3>1. n \notin otpRaced
      BY <2>4
    <3>2. CASE n = otpKey
      BY <2>2, <2>4, <2>7, <2>8, <3>1, <3>2 DEF OncePerCode
    <3>3. CASE n # otpKey
      BY <2>2, <2>7, <2>8, <3>1, <3>3 DEF OncePerCode
    <3> QED
      BY <3>2, <3>3
  <2> QED
    BY <2>5, <2>6, <2>9
<1>7. ASSUME NEW c \in OtpCalls, Codes!Compare(c) PROVE OtpInv'
  <2> DEFINE q == [otpCall[c] EXCEPT
               !.at = IF otpCall[c].code = otpCall[c].read THEN "deleting" ELSE "failed"]
  <2>1. /\ q \in Codes!Calls /\ q.code = otpCall[c].code /\ q.read = otpCall[c].read
        /\ q.at = IF otpCall[c].code = otpCall[c].read THEN "deleting" ELSE "failed"
    BY DEF Codes!TypeOK, Codes!Calls, Codes!Places
  <2>2. /\ otpCall' = [otpCall EXCEPT ![c] = q] /\ otpCall[c].at = "comparing"
    BY <1>7 DEF Codes!Compare, Codes!Go, Codes!At
  <2>3. /\ UNCHANGED <<otpKey, otpMade, delivered, sessions, otpRaced, otpAccount, otpForm>>
        /\ otpAccount \in BOOLEAN /\ otpForm \in {"phone", "otp", "home"}
    BY <1>7, Zenon DEF Codes!Compare, Codes!TypeOK
  <2> HIDE DEF q
  <2> QED
    BY <2>1, <2>2, <2>3, HarmlessMove DEF OtpPast
<1>8. ASSUME NEW c \in OtpCalls, Codes!Delete(c) PROVE OtpInv'
  <2> DEFINE q == [otpCall[c] EXCEPT !.at = "finding"]
  <2>1. q \in Codes!Calls /\ q.at = "finding" /\ q.code = otpCall[c].code /\ q.read = otpCall[c].read
    BY DEF Codes!TypeOK, Codes!Calls, Codes!Places
  <2>2. /\ otpCall' = [otpCall EXCEPT ![c] = q] /\ otpCall[c].at = "deleting"
        /\ otpKey' = Codes!NoCode
        /\ UNCHANGED <<otpMade, delivered, otpAccount, sessions, otpForm, otpRaced>>
    BY <1>8 DEF Codes!Delete, Codes!At, Codes!Go
  <2> HIDE DEF q
  <2>3. /\ otpCall' \in [OtpCalls -> Codes!Calls] /\ otpCall'[c] = q
        /\ \A d \in OtpCalls : d # c => otpCall'[d] = otpCall[d]
    BY <2>1, <2>2, OneOtpCall
  <2>4. Codes!TypeOK'
    BY <2>2, <2>3, Zenon DEF Codes!TypeOK
  <2>5. OtpPast'
    BY <2>1, <2>2, <2>3 DEF OtpPast, Codes!TypeOK, Codes!NoCode
  <2>6. \A d \in OtpCalls, n \in Codes!Codes :
          /\ Accepted(d, n)' => Accepted(d, n) \/ (d = c /\ Pending(c, n))
          /\ Pending(d, n)' => Pending(d, n) /\ d # c
    BY <2>1, <2>2, <2>3 DEF Pending, Accepted, OtpPast
  <2>7. \A n \in Codes!Codes : Used(n)' => Used(n) \/ Pending(c, n)
    BY <2>2, <2>6 DEF Used
  <2>8. \A n \in Codes!Codes : otpKey' # n
    BY <2>2 DEF Codes!Codes, Codes!NoCode
  <2>9. \A d \in OtpCalls, n \in Codes!Codes : Accepted(d, n) => Used(n)
    BY DEF Used
  <2>10. \A n \in Codes!Codes : ~Used(n) => sessions[n] = 0
    BY DEF Used, Codes!TypeOK
  <2>11. OncePerCode'
    BY <2>2, <2>6, <2>7, <2>8, <2>9, <2>10 DEF OncePerCode
  <2> QED
    BY <2>4, <2>5, <2>11
<1>9. ASSUME NEW c \in OtpCalls, Codes!Find(c) PROVE OtpInv'
  <2> DEFINE q == [otpCall[c] EXCEPT !.at = IF otpAccount THEN "saving" ELSE "failed"]
  <2>1. /\ q \in Codes!Calls /\ q.code = otpCall[c].code /\ q.read = otpCall[c].read
        /\ q.at \in {"saving", "failed"}
    BY DEF Codes!TypeOK, Codes!Calls, Codes!Places
  <2> QED
    BY <1>9, <2>1, HarmlessMove DEF Codes!Find, Codes!Go, Codes!At, Codes!TypeOK, OtpPast
<1>10. ASSUME NEW c \in OtpCalls, Codes!Save(c) PROVE OtpInv'
  <2> DEFINE q == [otpCall[c] EXCEPT !.at = "done"]
             m == otpCall[c].code
  <2>1. q \in Codes!Calls /\ q.at = "done" /\ q.code = otpCall[c].code /\ q.read = otpCall[c].read
    BY DEF Codes!TypeOK, Codes!Calls, Codes!Places
  <2>2. /\ otpCall' = [otpCall EXCEPT ![c] = q] /\ otpCall[c].at = "saving"
        /\ sessions' = [sessions EXCEPT ![m] = @ + 1] /\ otpForm' = "home"
        /\ UNCHANGED <<otpKey, otpMade, delivered, otpAccount, otpRaced>>
    BY <1>10 DEF Codes!Save, Codes!At, Codes!Go
  <2>3. m \in Codes!Codes /\ m <= otpMade /\ Accepted(c, m)
    BY <2>2 DEF OtpPast, Codes!TypeOK, Codes!Calls, Accepted
  <2> HIDE DEF q, m
  <2>4. /\ otpCall' \in [OtpCalls -> Codes!Calls] /\ otpCall'[c] = q
        /\ \A d \in OtpCalls : d # c => otpCall'[d] = otpCall[d]
    BY <2>1, <2>2, OneOtpCall
  <2>5. /\ sessions' \in [Codes!Codes -> Nat] /\ sessions'[m] = sessions[m] + 1
        /\ \A n \in Codes!Codes : n # m => sessions'[n] = sessions[n]
    BY <2>2, <2>3 DEF Codes!TypeOK
  <2>6. Codes!TypeOK'
    BY <2>2, <2>4, <2>5, Zenon DEF Codes!TypeOK
  <2>7. OtpPast'
    BY <2>1, <2>2, <2>3, <2>4, <2>5 DEF OtpPast
  <2>8. \A d \in OtpCalls, n \in Codes!Codes :
          /\ Accepted(d, n)' => Accepted(d, n) /\ d # c
          /\ Pending(d, n)' => Pending(d, n)
    BY <2>1, <2>4 DEF Pending, Accepted
  <2>9. \A n \in Codes!Codes : Used(n)' => Used(n)
    BY <2>3, <2>5, <2>8 DEF Used
  <2>10. OncePerCode'
    <3> SUFFICES ASSUME NEW n \in Codes!Codes, n \notin otpRaced'
                 PROVE  /\ \A a, d \in OtpCalls : Pending(a, n)' /\ Pending(d, n)' => a = d
                        /\ Used(n)' => otpKey' # n /\ \A d \in OtpCalls : ~Pending(d, n)'
                        /\ \A a, d \in OtpCalls : Accepted(a, n)' /\ Accepted(d, n)' => a = d
                        /\ \A d \in OtpCalls : Accepted(d, n)' => sessions'[n] = 0
                        /\ sessions'[n] <= 1
      BY DEF OncePerCode
    <3>1. CASE n = m
      BY <2>2, <2>3, <2>5, <2>8, <2>9, <3>1 DEF OncePerCode
    <3>2. CASE n # m
      BY <2>2, <2>5, <2>8, <2>9, <3>2 DEF OncePerCode
    <3> QED
      BY <3>1, <3>2
  <2> QED
    BY <2>6, <2>7, <2>10
<1>11. ASSUME Codes!Expire PROVE OtpInv'
  <2>1. otpKey' = Codes!NoCode /\
        UNCHANGED <<otpCall, otpMade, delivered, otpAccount, sessions, otpForm, otpRaced>>
    BY <1>11 DEF Codes!Expire
  <2>2. Codes!TypeOK'
    BY <2>1, Zenon DEF Codes!TypeOK
  <2> QED
    BY <2>1, <2>2 DEF OtpPast, OncePerCode, Pending, Accepted, Used, Codes!TypeOK, Codes!Codes,
       Codes!NoCode
<1>12. ASSUME NEW on \in BOOLEAN, Codes!SetActive(on) PROVE OtpInv'
  <2>1. UNCHANGED <<otpCall, otpKey, otpMade, delivered, sessions, otpForm, otpRaced>>
    BY <1>12 DEF Codes!SetActive
  <2>2. otpAccount' \in BOOLEAN
    BY <1>12, Zenon DEF Codes!SetActive
  <2>3. Codes!TypeOK'
    BY <2>1, <2>2, Zenon DEF Codes!TypeOK
  <2> QED
    BY <2>1, <2>3 DEF OtpPast, OncePerCode, Pending, Accepted, Used
<1>13. CASE UNCHANGED otpVars
  <2>1. Codes!TypeOK'
    BY <1>13, Zenon DEF otpVars, Codes!TypeOK
  <2> QED
    BY <1>13, <2>1 DEF otpVars, OtpPast, OncePerCode, Pending, Accepted, Used
<1> QED
  BY <1>1, <1>2, <1>3, <1>4, <1>5, <1>6, <1>7, <1>8, <1>9, <1>10, <1>11, <1>12, <1>13
     DEF Codes!Next

LEMMA OtpSteps == [ServicesNext]_servicesVars => [Codes!Next]_otpVars
BY DEF ServicesNext, servicesVars, otpVars, Others

\* The invariant of the one-time codes: what each code is read by, accepted
\* for and worth, in every state (auth.service.ts:100-165).
THEOREM OtpInvariant == ServicesSpec => []OtpInv
<1>1. ServicesInit => OtpInv
  BY InitOtp DEF ServicesInit
<1>2. OtpInv /\ [ServicesNext]_servicesVars => OtpInv'
  BY OtpSteps, NextOtp
<1> QED
  BY <1>1, <1>2, PTL DEF ServicesSpec

\* A code opens one session, however many calls of however many devices enter
\* it, unless two had read the key at once (auth.service.ts:130-141).
THEOREM OneSessionPerCode == ServicesSpec => []CodeOpensOneSession
<1>1. OtpInv => CodeOpensOneSession
  BY DEF OtpInv, OncePerCode, CodeOpensOneSession, Codes!CodeOpensOneSession
<1> QED
  BY <1>1, OtpInvariant, PTL

-----------------------------------------------------------------------------
(* Reminders.                                                              *)

Runs == Reminding!Hours \X Reminding!Kinds
Recipients == Reminding!Recipients

\* A loop holds a recipient from the check to the log entry, and nothing has
\* happened later than now.
LoopsHold ==
  /\ \A l \in Runs : loop[l].who = Reminding!NoOne <=> loop[l].at \notin {"sending", "logging"}
  /\ \A w \in Recipients : log[w] <= hour /\ sms[w] <= hour

\* A recipient of whom no entry was lost, and whom no two loops held at once,
\* is held by one loop; the latest SMS is logged, or about to be; and an SMS
\* is about to be sent only when the latest entry is a day old.
RemindedOnce == \A w \in Recipients : w \notin unlogged \cup reminderRaced =>
  /\ \A l, k \in Runs : loop[l].who = w /\ loop[k].who = w => l = k
  /\ \/ sms[w] <= log[w]
     \/ \E l \in Runs : loop[l].who = w /\ loop[l].at = "logging"
  /\ \A l \in Runs : loop[l].who = w /\ loop[l].at = "sending" =>
       log[w] = Reminding!Never \/ log[w] <= hour - Window
  /\ w \notin pestered

ReminderInv == Reminding!TypeOK /\ LoopsHold /\ RemindedOnce

LEMMA HoursBound ==
  /\ MaxHours \in Nat /\ Window \in Nat /\ 1 \in Reminding!Hours
  /\ Reminding!NoOne \notin Recipients
<1>1. MaxHours \in Nat \ {0} /\ Window \in Nat
  BY ServicesAssumption DEF ServicesAssumption
<1>2. 1 \in Reminding!Hours
  BY <1>1 DEF Reminding!Hours
<1>3. Reminding!NoOne \notin Recipients
  BY ServicesAssumption, Zenon
     DEF ServicesAssumption, Reminding!NoOne, Recipients, Reminding!Recipients
<1> QED
  BY <1>1, <1>2, <1>3

LEMMA InitReminder == Reminding!Init => ReminderInv
<1> SUFFICES ASSUME Reminding!Init PROVE ReminderInv
  OBVIOUS
<1>1. Reminding!TypeOK
  <2>1. Reminding!NoLoop("idle") \in Reminding!Loops
    BY DEF Reminding!NoLoop, Reminding!Loops
  <2>2. reminderInbox \in BOOLEAN
    BY Zenon DEF Reminding!Init
  <2>3. Reminding!Never \in 0..MaxHours
    BY HoursBound DEF Reminding!Never
  <2>4. /\ hour \in Reminding!Hours /\ reminderUnread \subseteq Reminded
        /\ reminderSeen \in [Recipients -> 0..MaxHours]
        /\ log \in [Recipients -> 0..MaxHours] /\ sms \in [Recipients -> 0..MaxHours]
        /\ pestered \subseteq Recipients /\ loop \in [Runs -> Reminding!Loops]
        /\ unlogged \subseteq Recipients /\ reminderRaced \subseteq Recipients
    BY <2>1, <2>3, HoursBound DEF Reminding!Init, Runs, Recipients
  <2> QED
    BY <2>2, <2>4 DEF Reminding!TypeOK, Runs, Recipients
<1>2. LoopsHold /\ RemindedOnce
  BY HoursBound DEF Reminding!Init, LoopsHold, RemindedOnce, Runs, Recipients, Reminding!NoLoop,
     Reminding!Never
<1> QED
  BY <1>1, <1>2 DEF ReminderInv

\* A change of one loop.
LEMMA OneLoop ==
  ASSUME Reminding!TypeOK, NEW l \in Runs, NEW q \in Reminding!Loops,
         loop' = [loop EXCEPT ![l] = q]
  PROVE  /\ loop' \in [Runs -> Reminding!Loops] /\ loop'[l] = q
         /\ \A k \in Runs : k # l => loop'[k] = loop[k]
BY DEF Reminding!TypeOK, Runs

\* The world beside the job: the clock only goes forward.
LEMMA WorldReminder ==
  ASSUME ReminderInv, Reminding!TypeOK', hour <= hour',
         UNCHANGED <<log, sms, pestered, loop, unlogged, reminderRaced>>
  PROVE  ReminderInv'
<1>1. /\ hour \in Nat /\ hour' \in Nat /\ Window \in Nat
      /\ \A w \in Recipients : log[w] \in Nat /\ sms[w] \in Nat
  BY HoursBound DEF ReminderInv, Reminding!TypeOK, Reminding!Hours, Recipients
<1>2. LoopsHold'
  BY <1>1 DEF ReminderInv, LoopsHold
<1>3. RemindedOnce'
  BY <1>1 DEF ReminderInv, RemindedOnce
<1> QED
  BY <1>2, <1>3 DEF ReminderInv

LEMMA StartReminder == ReminderInv /\ Reminding!Start => ReminderInv'
<1> SUFFICES ASSUME ReminderInv, Reminding!Start PROVE ReminderInv'
  OBVIOUS
<1>1. /\ UNCHANGED <<hour, reminderUnread, reminderInbox, reminderSeen, log, sms, pestered,
                     unlogged, reminderRaced>>
      /\ loop' = [l \in Runs |-> IF l[1] = hour THEN Reminding!NoLoop("listing") ELSE loop[l]]
  BY DEF Reminding!Start, Reminding!world, Runs
<1>2. Reminding!NoLoop("listing") \in Reminding!Loops
  BY DEF Reminding!NoLoop, Reminding!Loops
<1>3. loop' \in [Runs -> Reminding!Loops]
  BY <1>1, <1>2 DEF ReminderInv, Reminding!TypeOK, Runs
<1>4. Reminding!TypeOK'
  BY <1>1, <1>3, Zenon DEF ReminderInv, Reminding!TypeOK, Runs
<1>5. \A l \in Runs : /\ loop'[l].who = loop[l].who
                      /\ \/ loop'[l].at = loop[l].at
                         \/ loop[l].at = "idle" /\ loop'[l].at = "listing"
  <2> SUFFICES ASSUME NEW l \in Runs
               PROVE  /\ loop'[l].who = loop[l].who
                      /\ \/ loop'[l].at = loop[l].at
                         \/ loop[l].at = "idle" /\ loop'[l].at = "listing"
    OBVIOUS
  <2>1. CASE l[1] = hour
    <3>1. l = <<hour, l[2]>> /\ l[2] \in Reminding!Kinds
      BY <2>1 DEF Runs
    <3>2. loop[l].at = "idle"
      BY <3>1 DEF Reminding!Start
    <3>3. loop[l].who = Reminding!NoOne
      BY <3>2 DEF ReminderInv, LoopsHold
    <3> QED
      BY <1>1, <2>1, <3>2, <3>3 DEF Reminding!NoLoop
  <2>2. CASE l[1] # hour
    BY <1>1, <2>2
  <2> QED
    BY <2>1, <2>2
<1>6. LoopsHold'
  BY <1>1, <1>5 DEF ReminderInv, LoopsHold
<1>7. RemindedOnce'
  BY <1>1, <1>5 DEF ReminderInv, RemindedOnce
<1> QED
  BY <1>4, <1>6, <1>7 DEF ReminderInv

\* A loop that holds nobody before and after leaves the invariant alone.
LEMMA EmptyHanded ==
  ASSUME ReminderInv, NEW l \in Runs, NEW q \in Reminding!Loops,
         loop' = [loop EXCEPT ![l] = q], q.who = Reminding!NoOne, q.at = "looping",
         loop[l].who = Reminding!NoOne,
         UNCHANGED <<hour, reminderUnread, reminderInbox, reminderSeen, log, sms, pestered,
                     unlogged, reminderRaced>>
  PROVE  ReminderInv'
<1>1. /\ loop' \in [Runs -> Reminding!Loops] /\ loop'[l] = q
      /\ \A k \in Runs : k # l => loop'[k] = loop[k]
  BY OneLoop DEF ReminderInv
<1>2. Reminding!TypeOK'
  BY <1>1, Zenon DEF ReminderInv, Reminding!TypeOK, Runs
<1>3. LoopsHold'
  BY <1>1 DEF ReminderInv, LoopsHold
<1>4. RemindedOnce'
  BY <1>1, HoursBound DEF ReminderInv, RemindedOnce
<1> QED
  BY <1>2, <1>3, <1>4 DEF ReminderInv

LEMMA ListReminder ==
  ASSUME ReminderInv, NEW l \in Runs, Reminding!List(l)
  PROVE  ReminderInv'
<1> DEFINE due == Reminding!Due(l[2], l[1] - Window)
           q == [Reminding!NoLoop("looping") EXCEPT !.todo = due]
<1>1. due \subseteq Recipients
  BY DEF Reminding!Due, ReminderInv, Reminding!TypeOK, Recipients, Reminding!Recipients
<1>2. q \in Reminding!Loops /\ q.who = Reminding!NoOne /\ q.at = "looping"
  <2> HIDE DEF due
  <2> QED
    BY <1>1 DEF Reminding!Loops, Reminding!NoLoop, Recipients
<1>3. /\ loop' = [loop EXCEPT ![l] = q] /\ loop[l].at = "listing"
      /\ UNCHANGED <<hour, reminderUnread, reminderInbox, reminderSeen, log, sms, pestered,
                     unlogged, reminderRaced>>
  BY DEF Reminding!List, Reminding!world
<1>4. loop[l].who = Reminding!NoOne
  BY <1>3 DEF ReminderInv, LoopsHold
<1> HIDE DEF q
<1> QED
  BY <1>2, <1>3, <1>4, EmptyHanded

LEMMA CheckReminder ==
  ASSUME ReminderInv, NEW l \in Runs, NEW w \in Recipients, Reminding!Check(l, w)
  PROVE  ReminderInv'
<1>1. /\ loop[l].at = "looping" /\ loop[l].who = Reminding!NoOne
      /\ loop[l] \in Reminding!Loops
      /\ UNCHANGED <<hour, reminderUnread, reminderInbox, reminderSeen, log, sms, pestered, unlogged>>
  BY DEF Reminding!Check, Reminding!world, ReminderInv, LoopsHold, Reminding!TypeOK, Runs
<1>2. CASE log[w] # Reminding!Never /\ log[w] > hour - Window
  <2> DEFINE q == [loop[l] EXCEPT !.todo = @ \ {w}]
  <2>1. q \in Reminding!Loops /\ q.who = Reminding!NoOne /\ q.at = "looping"
    BY <1>1 DEF Reminding!Loops
  <2>2. loop' = [loop EXCEPT ![l] = q] /\ reminderRaced' = reminderRaced
    BY <1>2 DEF Reminding!Check
  <2> HIDE DEF q
  <2> QED
    BY <1>1, <2>1, <2>2, EmptyHanded
<1>3. CASE ~(log[w] # Reminding!Never /\ log[w] > hour - Window)
  <2> DEFINE q == [loop[l] EXCEPT !.at = "sending", !.todo = @ \ {w}, !.who = w]
  <2>1. q \in Reminding!Loops /\ q.who = w /\ q.at = "sending"
    BY <1>1 DEF Reminding!Loops, Recipients
  <2>2. /\ loop' = [loop EXCEPT ![l] = q]
        /\ reminderRaced' = IF Reminding!Busy(w) THEN reminderRaced \cup {w} ELSE reminderRaced
    BY <1>1, <1>3 DEF Reminding!Check, Reminding!Loops, Reminding!TypeOK, ReminderInv
  <2> HIDE DEF q
  <2>3. /\ loop' \in [Runs -> Reminding!Loops] /\ loop'[l] = q
        /\ \A k \in Runs : k # l => loop'[k] = loop[k]
    BY <2>1, <2>2, OneLoop DEF ReminderInv
  <2>4. /\ reminderRaced \subseteq reminderRaced' /\ reminderRaced' \subseteq Recipients
        /\ w \notin reminderRaced' => \A k \in Runs : loop[k].who # w
    <3>1. DOMAIN loop = Runs
      BY DEF ReminderInv, Reminding!TypeOK, Runs
    <3> QED
      BY <2>2, <3>1 DEF Reminding!Busy, ReminderInv, Reminding!TypeOK, Recipients
  <2>5. Reminding!TypeOK'
    BY <1>1, <2>3, <2>4, Zenon DEF ReminderInv, Reminding!TypeOK, Runs, Recipients
  <2>6. LoopsHold'
    BY <1>1, <2>1, <2>3, HoursBound DEF ReminderInv, LoopsHold
  <2>7. RemindedOnce'
    <3>1. log[w] \in Nat /\ hour \in Nat /\ Window \in Nat
      BY HoursBound DEF ReminderInv, Reminding!TypeOK, Reminding!Hours, Recipients
    <3> SUFFICES ASSUME NEW v \in Recipients, v \notin unlogged' \cup reminderRaced'
                 PROVE  /\ \A i, k \in Runs : loop'[i].who = v /\ loop'[k].who = v => i = k
                        /\ \/ sms'[v] <= log'[v]
                           \/ \E i \in Runs : loop'[i].who = v /\ loop'[i].at = "logging"
                        /\ \A i \in Runs : loop'[i].who = v /\ loop'[i].at = "sending" =>
                             log'[v] = Reminding!Never \/ log'[v] <= hour' - Window
                        /\ v \notin pestered'
      BY DEF RemindedOnce
    <3>2. v \notin unlogged \cup reminderRaced
      BY <1>1, <2>4
    <3>3. CASE v = w
      BY <1>1, <1>3, <2>1, <2>3, <2>4, <3>1, <3>2, <3>3 DEF ReminderInv, RemindedOnce
    <3>4. CASE v # w
      BY <1>1, <2>1, <2>3, <3>2, <3>4, HoursBound DEF ReminderInv, RemindedOnce
    <3> QED
      BY <3>3, <3>4
  <2> QED
    BY <2>5, <2>6, <2>7 DEF ReminderInv
<1> QED
  BY <1>2, <1>3

LEMMA SendReminder ==
  ASSUME ReminderInv, NEW l \in Runs, NEW ok \in BOOLEAN, Reminding!Send(l, ok)
  PROVE  ReminderInv'
<1> DEFINE q == [loop[l] EXCEPT !.at = "logging"]
           w == loop[l].who
<1>1. /\ loop[l].at = "sending" /\ w # Reminding!NoOne /\ loop[l] \in Reminding!Loops
      /\ UNCHANGED <<hour, reminderUnread, reminderInbox, reminderSeen, log, unlogged,
                     reminderRaced>>
  BY DEF Reminding!Send, Reminding!world, ReminderInv, LoopsHold, Reminding!TypeOK, Runs
<1>2. q \in Reminding!Loops /\ q.who = w /\ q.at = "logging" /\ w \in Recipients
  BY <1>1 DEF Reminding!Loops, Recipients
<1>3. loop' = [loop EXCEPT ![l] = q]
  BY DEF Reminding!Send, Reminding!Go
<1> HIDE DEF q
<1>4. /\ loop' \in [Runs -> Reminding!Loops] /\ loop'[l] = q
      /\ \A k \in Runs : k # l => loop'[k] = loop[k]
  BY <1>2, <1>3, OneLoop DEF ReminderInv
<1>5. /\ hour \in Nat /\ hour >= 1 /\ hour \in 0..MaxHours /\ Window \in Nat
      /\ \A v \in Recipients : log[v] \in Nat /\ sms[v] \in Nat
  BY HoursBound DEF ReminderInv, Reminding!TypeOK, Reminding!Hours, Recipients
<1>6. \/ UNCHANGED <<sms, pestered>>
      \/ /\ sms' = [sms EXCEPT ![w] = hour]
         /\ pestered' = IF sms[w] # Reminding!Never /\ hour - sms[w] < Window
                        THEN pestered \cup {w} ELSE pestered
  BY DEF Reminding!Send
<1> HIDE DEF w
<1>7. /\ sms' \in [Recipients -> 0..MaxHours] /\ pestered' \subseteq Recipients
      /\ \A v \in Recipients : sms'[v] <= hour
      /\ \A v \in Recipients : v # w =>
           sms'[v] = sms[v] /\ (v \in pestered' => v \in pestered)
  BY <1>2, <1>5, <1>6 DEF ReminderInv, Reminding!TypeOK, LoopsHold, Recipients
<1>8. Reminding!TypeOK'
  BY <1>1, <1>4, <1>7, Zenon DEF ReminderInv, Reminding!TypeOK, Runs, Recipients
<1>9. LoopsHold'
  BY <1>1, <1>2, <1>4, <1>7 DEF ReminderInv, LoopsHold
<1>10. RemindedOnce'
  <2> SUFFICES ASSUME NEW v \in Recipients, v \notin unlogged \cup reminderRaced
               PROVE  /\ \A i, k \in Runs : loop'[i].who = v /\ loop'[k].who = v => i = k
                      /\ \/ sms'[v] <= log'[v]
                         \/ \E i \in Runs : loop'[i].who = v /\ loop'[i].at = "logging"
                      /\ \A i \in Runs : loop'[i].who = v /\ loop'[i].at = "sending" =>
                           log'[v] = Reminding!Never \/ log'[v] <= hour' - Window
                      /\ v \notin pestered'
    BY <1>1 DEF RemindedOnce
  <2>1. CASE v = w
    <3>1. \A k \in Runs : loop[k].who = w => k = l
      BY <2>1 DEF ReminderInv, RemindedOnce, w
    <3>2. sms[w] <= log[w] /\ (log[w] = Reminding!Never \/ log[w] <= hour - Window)
      BY <1>1, <2>1, <3>1 DEF ReminderInv, RemindedOnce, w
    <3>3. w \notin pestered
      BY <2>1 DEF ReminderInv, RemindedOnce
    <3>4. w \notin pestered'
      BY <1>2, <1>5, <1>6, <3>2, <3>3 DEF Reminding!Never
    <3>5. \A k \in Runs : loop'[k].who = w => k = l
      BY <1>4, <3>1
    <3>6. loop'[l].who = w /\ loop'[l].at = "logging"
      BY <1>2, <1>4
    <3> QED
      BY <2>1, <3>4, <3>5, <3>6
  <2>2. CASE v # w
    BY <1>1, <1>2, <1>4, <1>7, <2>2 DEF ReminderInv, RemindedOnce, w
  <2> QED
    BY <2>1, <2>2
<1> QED
  BY <1>8, <1>9, <1>10 DEF ReminderInv

LEMMA LogReminder ==
  ASSUME ReminderInv, NEW l \in Runs, NEW ok \in BOOLEAN, Reminding!WriteLog(l, ok)
  PROVE  ReminderInv'
<1> DEFINE q == [loop[l] EXCEPT !.at = "looping", !.who = Reminding!NoOne]
           w == loop[l].who
<1>1. /\ loop[l].at = "logging" /\ w # Reminding!NoOne /\ loop[l] \in Reminding!Loops
      /\ UNCHANGED <<hour, reminderUnread, reminderInbox, reminderSeen, sms, pestered,
                     reminderRaced>>
  BY DEF Reminding!WriteLog, Reminding!world, ReminderInv, LoopsHold, Reminding!TypeOK, Runs
<1>2. /\ q \in Reminding!Loops /\ q.who = Reminding!NoOne /\ q.at = "looping"
      /\ w \in Recipients
  BY <1>1 DEF Reminding!Loops, Recipients
<1>3. loop' = [loop EXCEPT ![l] = q]
  BY <1>1 DEF Reminding!WriteLog, Reminding!Loops, ReminderInv, Reminding!TypeOK
<1> HIDE DEF q
<1>4. /\ loop' \in [Runs -> Reminding!Loops] /\ loop'[l] = q
      /\ \A k \in Runs : k # l => loop'[k] = loop[k]
  BY <1>2, <1>3, OneLoop DEF ReminderInv
<1>5. /\ hour \in Nat /\ hour \in 0..MaxHours /\ Window \in Nat
      /\ \A v \in Recipients : log[v] \in Nat /\ sms[v] \in Nat
  BY HoursBound DEF ReminderInv, Reminding!TypeOK, Reminding!Hours, Recipients
<1>6. \/ log' = log /\ unlogged' = unlogged \cup {w}
      \/ log' = [log EXCEPT ![w] = hour] /\ unlogged' = unlogged
  BY DEF Reminding!WriteLog
<1> HIDE DEF w
<1>7. /\ log' \in [Recipients -> 0..MaxHours] /\ unlogged' \subseteq Recipients
      /\ unlogged \subseteq unlogged' /\ (w \in unlogged' \/ log'[w] = hour)
      /\ \A v \in Recipients : log'[v] <= hour
      /\ \A v \in Recipients : v # w => log'[v] = log[v]
  BY <1>2, <1>5, <1>6 DEF ReminderInv, Reminding!TypeOK, LoopsHold, Recipients
<1>8. Reminding!TypeOK'
  BY <1>1, <1>4, <1>7, Zenon DEF ReminderInv, Reminding!TypeOK, Runs, Recipients
<1>9. LoopsHold'
  BY <1>1, <1>2, <1>4, <1>7 DEF ReminderInv, LoopsHold
<1>10. RemindedOnce'
  <2> SUFFICES ASSUME NEW v \in Recipients, v \notin unlogged' \cup reminderRaced
               PROVE  /\ \A i, k \in Runs : loop'[i].who = v /\ loop'[k].who = v => i = k
                      /\ \/ sms'[v] <= log'[v]
                         \/ \E i \in Runs : loop'[i].who = v /\ loop'[i].at = "logging"
                      /\ \A i \in Runs : loop'[i].who = v /\ loop'[i].at = "sending" =>
                           log'[v] = Reminding!Never \/ log'[v] <= hour' - Window
                      /\ v \notin pestered'
    BY <1>1 DEF RemindedOnce
  <2>1. CASE v = w
    <3>1. \A k \in Runs : loop'[k].who # w
      BY <1>2, <1>4, <1>7, <2>1, HoursBound DEF ReminderInv, RemindedOnce, w
    <3>2. sms[w] <= log'[w] /\ w \notin pestered
      BY <1>2, <1>5, <1>7, <2>1 DEF ReminderInv, RemindedOnce, LoopsHold
    <3> QED
      BY <1>1, <2>1, <3>1, <3>2
  <2>2. CASE v # w
    BY <1>1, <1>2, <1>4, <1>7, <2>2, HoursBound DEF ReminderInv, RemindedOnce, w
  <2> QED
    BY <2>1, <2>2
<1> QED
  BY <1>8, <1>9, <1>10 DEF ReminderInv

LEMMA NextReminder == ReminderInv /\ [Reminding!Next]_reminderVars => ReminderInv'
<1> SUFFICES ASSUME ReminderInv, [Reminding!Next]_reminderVars PROVE ReminderInv'
  OBVIOUS
<1> USE DEF ReminderInv
<1>1. ASSUME Reminding!Tick PROVE ReminderInv'
  <2>1. hour' \in Reminding!Hours /\ hour <= hour'
    BY <1>1, HoursBound DEF Reminding!Tick, Reminding!TypeOK, Reminding!Hours
  <2>2. UNCHANGED <<reminderUnread, reminderInbox, reminderSeen, log, sms, pestered, loop,
                    unlogged, reminderRaced>>
    BY <1>1 DEF Reminding!Tick
  <2>3. Reminding!TypeOK'
    BY <2>1, <2>2, Zenon DEF Reminding!TypeOK
  <2> QED
    BY <2>1, <2>2, <2>3, WorldReminder
<1>2. hour <= hour
  BY HoursBound DEF Reminding!TypeOK, Reminding!Hours
<1>3. ASSUME NEW t \in Reminded, Reminding!Write(t) PROVE ReminderInv'
  <2>1. /\ reminderUnread' = reminderUnread \cup {t}
        /\ UNCHANGED <<hour, reminderInbox, reminderSeen, log, sms, pestered, loop, unlogged,
                       reminderRaced>>
    BY <1>3 DEF Reminding!Write
  <2>2. Reminding!TypeOK'
    BY <2>1, Zenon DEF Reminding!TypeOK
  <2> QED
    BY <1>2, <2>1, <2>2, WorldReminder
<1>4. ASSUME Reminding!WriteToCentre PROVE ReminderInv'
  <2>1. /\ reminderInbox' = TRUE
        /\ UNCHANGED <<hour, reminderUnread, reminderSeen, log, sms, pestered, loop, unlogged,
                       reminderRaced>>
    BY <1>4 DEF Reminding!WriteToCentre
  <2>2. Reminding!TypeOK'
    BY <2>1, Zenon DEF Reminding!TypeOK
  <2> QED
    BY <1>2, <2>1, <2>2, WorldReminder
<1>5. ASSUME NEW w \in Recipients, Reminding!See(w) PROVE ReminderInv'
  <2>1. /\ reminderSeen' = [reminderSeen EXCEPT ![w] = hour]
        /\ reminderUnread' = reminderUnread \ {w}
        /\ UNCHANGED <<hour, log, sms, pestered, loop, unlogged, reminderRaced>>
    BY <1>5 DEF Reminding!See
  <2>2. reminderSeen' \in [Recipients -> 0..MaxHours]
    BY <2>1, HoursBound DEF Reminding!TypeOK, Recipients, Reminding!Hours
  <2>3. reminderInbox' \in BOOLEAN
    BY <1>5, Zenon DEF Reminding!See
  <2>4. Reminding!TypeOK'
    BY <2>1, <2>2, <2>3, Zenon DEF Reminding!TypeOK, Recipients
  <2> QED
    BY <1>2, <2>1, <2>4, WorldReminder
<1>6. CASE UNCHANGED reminderVars
  <2>1. UNCHANGED <<hour, reminderUnread, reminderInbox, reminderSeen, log, sms, pestered, loop,
                    unlogged, reminderRaced>>
    BY <1>6 DEF reminderVars
  <2>2. Reminding!TypeOK'
    BY <2>1, Zenon DEF Reminding!TypeOK
  <2> QED
    BY <1>2, <2>1, <2>2, WorldReminder
<1> QED
  BY <1>1, <1>3, <1>4, <1>5, <1>6, StartReminder, ListReminder, CheckReminder, SendReminder,
     LogReminder DEF Reminding!Next, Runs, Recipients

LEMMA ReminderSteps == [ServicesNext]_servicesVars => [Reminding!Next]_reminderVars
BY DEF ServicesNext, servicesVars, reminderVars, Others

\* The invariant of the hourly job: a recipient of whom no log entry was lost,
\* and whom no two loops checked at once, is in the hands of one loop, and an
\* SMS goes out only a day after the latest (notifications.service.ts:140-200).
THEOREM ReminderInvariant == ServicesSpec => []ReminderInv
<1>1. ServicesInit => ReminderInv
  BY InitReminder DEF ServicesInit
<1>2. ReminderInv /\ [ServicesNext]_servicesVars => ReminderInv'
  BY ReminderSteps, NextReminder
<1> QED
  BY <1>1, <1>2, PTL DEF ServicesSpec

\* No recipient gets two reminders within a day, for any number of recipients,
\* hours and loops that overlap, unless a log entry was lost or two loops had
\* checked the recipient at once (notifications.service.ts:8-9).
THEOREM ReminderADay == ServicesSpec => []OneReminderADay
<1>1. ReminderInv => OneReminderADay
  BY DEF ReminderInv, RemindedOnce, Reminding!TypeOK, OneReminderADay,
     Reminding!OneReminderADay, Recipients
<1> QED
  BY <1>1, ReminderInvariant, PTL

-----------------------------------------------------------------------------
(* Posts and their files.                                                  *)

Settled(f) == upload[f] \in {"ok", "unrecorded", "failed"}
Held == composer.blocks \cup ({composer.banner} \ {Publishing!NoFile})
Linked(f) == postRow[f] \in PostIds
Published(f, p) == f \in post[p].blocks

\* What a block went through before it got where it is.
UploadsFit ==
  /\ \A f \in Files : postRow[f] # "absent" <=> upload[f] = "ok"
  /\ \A f \in Files : upload[f] = "recording" => f \in postStored
  /\ \A p \in PostIds, f \in Files : Published(f, p) => Settled(f)
  /\ saving.at # "idle" => saving.of \in PostIds /\ \A f \in saving.blocks : Settled(f)
  /\ saving.at = "writing" /\ saving.new => post[saving.of].at = "none"
  /\ saving.at # "idle" /\ ~saving.new => post[saving.of].at # "none"
  /\ \A f \in composer.blocks : upload[f] # "unused"
  /\ composer.banner # Publishing!NoFile => Settled(composer.banner)
  /\ ~composer.open => composer = Publishing!Closed /\ banners = {}
  /\ deleting.at # "idle" => deleting.of \in PostIds /\ post[deleting.of].at = "live"
  /\ deleting.at = "idle" => deleting = Publishing!NoDeletion
  /\ \A f \in deleting.files : upload[f] = "ok"

\* A file belongs to one post: in the posts and the rows, in a save under way,
\* and in the composer, whose new post may be written but not answered yet.
InOnePost(f) ==
  /\ \A p, q \in PostIds : Published(f, p) /\ Published(f, q) => p = q
  /\ \A p \in PostIds : Published(f, p) /\ Linked(f) => postRow[f] = p
SavedInIt(f) == saving.at # "idle" /\ f \in saving.blocks =>
  /\ \A p \in PostIds : Published(f, p) => p = saving.of
  /\ Linked(f) => postRow[f] = saving.of
  /\ f \in Held /\ composer.of = Publishing!NoPost => saving.new
  /\ f \in Held /\ composer.of # Publishing!NoPost => saving.of = composer.of
Written(f, p) ==
  saving.at \in {"linking", "answering"} /\ saving.new /\ saving.of = p /\ f \in saving.blocks
EditedInIt(f) ==
  /\ f \in Held /\ composer.of # Publishing!NoPost =>
       /\ \A p \in PostIds : Published(f, p) => p = composer.of
       /\ Linked(f) => postRow[f] = composer.of
  /\ f \in Held /\ composer.of = Publishing!NoPost =>
       /\ \A p \in PostIds : Published(f, p) => Written(f, p)
       /\ Linked(f) => Written(f, postRow[f])

\* Only the deletion of its post takes the file of a block away.
GoneWithIt(f) ==
  /\ deleting.at = "removing" /\ f \in deleting.files => postRow[f] = deleting.of
  /\ upload[f] = "ok" /\ f \notin postStored =>
       /\ Linked(f)
       /\ Publishing!Beyond(postRow[f]) \/ post[postRow[f]].at = "deleted"

FilesOwned == \A f \in Files : f \notin doubled =>
  InOnePost(f) /\ SavedInIt(f) /\ EditedInIt(f) /\ GoneWithIt(f)

\* What a deletion leaves is known.
LeftKnown == \A p \in PostIds, f \in Files : postRow[f] = p =>
  /\ deleting.at = "removing" /\ deleting.of = p => f \in deleting.files \cup late
  /\ (deleting.at = "marking" /\ deleting.of = p) \/ post[p].at = "deleted" =>
       (f \in postStored => f \in left \cup late)

PostsInv == Publishing!TypeOK /\ UploadsFit /\ FilesOwned /\ LeftKnown

LEMMA PostMarks ==
  /\ Publishing!NoPost \notin PostIds /\ "free" \notin PostIds /\ "absent" \notin PostIds
  /\ Publishing!NoFile \notin Files
BY ServicesAssumption, Zenon DEF ServicesAssumption, Publishing!NoPost, Publishing!NoFile

LEMMA InitPosts == Publishing!Init => PostsInv
<1> SUFFICES ASSUME Publishing!Init PROVE PostsInv
  OBVIOUS
<1>1. Publishing!TypeOK
  BY DEF Publishing!Init, Publishing!TypeOK, Publishing!Closed, Publishing!Idle,
     Publishing!NoDeletion, Publishing!Targets, Publishing!UploadPlaces
<1>2. UploadsFit /\ FilesOwned /\ LeftKnown
  BY PostMarks DEF Publishing!Init, UploadsFit, Settled, Published, Held, Linked, Written,
     FilesOwned, InOnePost, SavedInIt, EditedInIt, GoneWithIt, LeftKnown, Publishing!Closed,
     Publishing!Idle, Publishing!NoDeletion
<1> QED
  BY <1>1, <1>2 DEF PostsInv

\* What the composer does by itself: the blocks it holds are those it held, or
\* those of the post it opens, or a file that was not used yet.
LEMMA ComposerStep ==
  ASSUME PostsInv, Publishing!TypeOK',
         UNCHANGED <<post, saving, postStored, postRow, deleting, torn, left, late, doubled>>,
         \A f \in Files : upload'[f] = upload[f] \/ (upload[f] = "unused" /\ upload'[f] = "storing"),
         \A f \in composer'.blocks : upload'[f] # "unused",
         composer'.banner # Publishing!NoFile => Settled(composer'.banner),
         ~composer'.open => composer' = Publishing!Closed /\ banners' = {},
         \A f \in Held' : \/ upload[f] = "unused"
                          \/ f \in Held /\ composer'.of = composer.of
                          \/ composer'.of \in PostIds /\ Published(f, composer'.of)
  PROVE  PostsInv'
<1> USE DEF PostsInv
<1>1. \A f \in Files : /\ Settled(f) => Settled(f)'
                       /\ upload'[f] = "ok" <=> upload[f] = "ok"
                       /\ upload'[f] = "recording" <=> upload[f] = "recording"
  BY DEF Settled
<1>2. \A f \in Files, p \in PostIds : Published(f, p)' <=> Published(f, p)
  BY DEF Published
<1>3. \A f \in Files : Linked(f)' <=> Linked(f)
  BY DEF Linked
<1>4. composer'.banner # Publishing!NoFile => composer'.banner \in Files
  BY DEF Publishing!TypeOK
<1>5. saving.blocks \subseteq Files /\ deleting.files \subseteq Files /\ saving' = saving
  BY DEF Publishing!TypeOK
<1>6. UploadsFit'
  BY <1>1, <1>2, <1>4, <1>5 DEF UploadsFit
<1>7. ASSUME NEW f \in Files, f \notin doubled
      PROVE  InOnePost(f)' /\ SavedInIt(f)' /\ EditedInIt(f)' /\ GoneWithIt(f)'
  <2>1. InOnePost(f) /\ SavedInIt(f) /\ EditedInIt(f) /\ GoneWithIt(f)
    BY <1>7 DEF FilesOwned
  <2>2. InOnePost(f)'
    BY <1>2, <1>3, <2>1 DEF InOnePost
  <2>3. upload[f] = "unused" =>
          /\ ~Linked(f)
          /\ f \notin saving.blocks \/ saving.at = "idle"
          /\ \A p \in PostIds : ~Published(f, p)
    BY PostMarks DEF UploadsFit, Settled, Linked, Publishing!TypeOK
  <2>4. upload[f] = "unused" => ~Linked(f)
    BY PostMarks DEF UploadsFit, Linked, Publishing!TypeOK
  <2>5. SavedInIt(f)'
    BY <1>2, <1>3, <2>1, <2>3, <2>4, PostMarks DEF SavedInIt
  <2>6. \A p : Written(f, p)' <=> Written(f, p)
    BY DEF Written
  <2>7. EditedInIt(f)'
    BY <1>2, <1>3, <2>1, <2>3, <2>4, <2>6, PostMarks DEF EditedInIt, InOnePost
  <2>8. GoneWithIt(f)'
    BY <1>1, <1>3, <2>1 DEF GoneWithIt, Publishing!Beyond
  <2> QED
    BY <2>2, <2>5, <2>7, <2>8
<1>8. FilesOwned'
  BY <1>7 DEF FilesOwned
<1>9. LeftKnown'
  BY DEF LeftKnown
<1> QED
  BY <1>6, <1>8, <1>9

LEMMA OpenPosts ==
  ASSUME PostsInv, NEW of \in Publishing!Targets, Publishing!Open(of)
  PROVE  PostsInv'
<1>1. UNCHANGED <<post, upload, banners, saving, postStored, postRow, deleting, torn, left, late,
                  doubled>>
  BY DEF Publishing!Open, Publishing!server
<1>2. CASE of = Publishing!NoPost
  <2>1. composer' = [Publishing!Closed EXCEPT !.open = TRUE]
    BY <1>2 DEF Publishing!Open
  <2>2. /\ composer'.blocks = {} /\ composer'.banner = Publishing!NoFile /\ composer'.open
        /\ composer' \in [open : BOOLEAN, of : Publishing!Targets,
                          banner : Files \cup {Publishing!NoFile}, blocks : SUBSET Files]
    BY <2>1 DEF Publishing!Closed, Publishing!Targets
  <2>3. Publishing!TypeOK'
    BY <1>1, <2>2 DEF PostsInv, Publishing!TypeOK
  <2> QED
    BY <1>1, <2>2, <2>3, ComposerStep DEF Held
<1>3. CASE of # Publishing!NoPost
  <2>1. PICK banner \in post[of].blocks \cup {Publishing!NoFile} :
          composer' = [open |-> TRUE, of |-> of, banner |-> banner,
                       blocks |-> post[of].blocks \ {banner}]
    BY <1>3 DEF Publishing!Open
  <2>2. of \in PostIds /\ post[of].blocks \subseteq Files
    BY <1>3 DEF Publishing!Targets, PostsInv, Publishing!TypeOK
  <2>3. /\ composer'.blocks = post[of].blocks \ {banner} /\ composer'.banner = banner
        /\ composer'.of = of /\ composer'.open
        /\ composer' \in [open : BOOLEAN, of : Publishing!Targets,
                          banner : Files \cup {Publishing!NoFile}, blocks : SUBSET Files]
    BY <2>1, <2>2
  <2>4. Publishing!TypeOK'
    BY <1>1, <2>3 DEF PostsInv, Publishing!TypeOK
  <2>5. \A f \in post[of].blocks : Settled(f)
    BY <2>2 DEF PostsInv, UploadsFit, Published
  <2> QED
    BY <1>1, <2>2, <2>3, <2>4, <2>5, ComposerStep DEF Held, Published, Settled
<1> QED
  BY <1>2, <1>3

LEMMA EditPosts ==
  ASSUME PostsInv,
         \/ Publishing!Close \/ Publishing!RemoveBanner
         \/ \E f \in Files : \/ Publishing!UploadMedia(f) \/ Publishing!UploadBanner(f)
                             \/ Publishing!RemoveBlock(f)
  PROVE  PostsInv'
<1> USE DEF PostsInv
<1>1. /\ composer.blocks \subseteq Files /\ composer.banner \in Files \cup {Publishing!NoFile}
      /\ composer.of \in Publishing!Targets /\ composer.open \in BOOLEAN
      /\ composer = [open |-> composer.open, of |-> composer.of, banner |-> composer.banner,
                     blocks |-> composer.blocks]
  BY DEF Publishing!TypeOK
<1>2. ASSUME Publishing!Close PROVE PostsInv'
  <2>1. /\ composer' = Publishing!Closed /\ banners' = {}
        /\ UNCHANGED <<post, upload, saving, postStored, postRow, deleting, torn, left, late,
                       doubled>>
    BY <1>2 DEF Publishing!Close, Publishing!server
  <2>2. /\ composer'.blocks = {} /\ composer'.banner = Publishing!NoFile
        /\ composer' \in [open : BOOLEAN, of : Publishing!Targets,
                          banner : Files \cup {Publishing!NoFile}, blocks : SUBSET Files]
    BY <2>1 DEF Publishing!Closed, Publishing!Targets
  <2>3. Publishing!TypeOK'
    BY <2>1, <2>2 DEF Publishing!TypeOK
  <2> QED
    BY <2>1, <2>2, <2>3, ComposerStep DEF Held
<1>3. ASSUME Publishing!RemoveBanner PROVE PostsInv'
  <2>1. /\ composer' = [composer EXCEPT !.banner = Publishing!NoFile]
        /\ composer.banner # Publishing!NoFile
        /\ UNCHANGED <<post, upload, banners, saving, postStored, postRow, deleting, torn, left,
                       late, doubled>>
    BY <1>3 DEF Publishing!RemoveBanner, Publishing!server
  <2>2. /\ composer'.blocks = composer.blocks /\ composer'.banner = Publishing!NoFile
        /\ composer'.of = composer.of /\ composer'.open = composer.open
        /\ composer' \in [open : BOOLEAN, of : Publishing!Targets,
                          banner : Files \cup {Publishing!NoFile}, blocks : SUBSET Files]
    BY <1>1, <2>1
  <2>3. Publishing!TypeOK'
    BY <2>1, <2>2 DEF Publishing!TypeOK
  <2>4. composer.open
    BY <2>1 DEF UploadsFit, Publishing!Closed
  <2>5. \A f \in composer.blocks : upload[f] # "unused"
    BY DEF UploadsFit
  <2> QED
    BY <2>1, <2>2, <2>3, <2>4, <2>5, ComposerStep DEF Held
<1>4. ASSUME NEW f \in Files, Publishing!UploadMedia(f) PROVE PostsInv'
  <2>1. /\ composer.open /\ upload[f] = "unused"
        /\ upload' = [upload EXCEPT ![f] = "storing"]
        /\ composer' = [composer EXCEPT !.blocks = @ \cup {f}]
        /\ UNCHANGED <<post, banners, saving, postStored, postRow, deleting, torn, left, late,
                       doubled>>
    BY <1>4 DEF Publishing!UploadMedia, Publishing!server
  <2>2. /\ composer'.blocks = composer.blocks \cup {f} /\ composer'.banner = composer.banner
        /\ composer'.of = composer.of /\ composer'.open = composer.open
        /\ composer' \in [open : BOOLEAN, of : Publishing!Targets,
                          banner : Files \cup {Publishing!NoFile}, blocks : SUBSET Files]
    BY <1>1, <2>1
  <2>3. /\ upload' \in [Files -> Publishing!UploadPlaces] /\ upload'[f] = "storing"
        /\ \A g \in Files : g # f => upload'[g] = upload[g]
    BY <2>1 DEF Publishing!TypeOK, Publishing!UploadPlaces
  <2>4. Publishing!TypeOK'
    BY <2>1, <2>2, <2>3 DEF Publishing!TypeOK
  <2>5. /\ \A g \in composer.blocks : upload[g] # "unused"
        /\ composer.banner # Publishing!NoFile =>
             composer.banner \in Files /\ Settled(composer.banner)
    BY DEF UploadsFit, Publishing!TypeOK
  <2> QED
    BY <1>1, <2>1, <2>2, <2>3, <2>4, <2>5, ComposerStep DEF Held
<1>5. ASSUME NEW f \in Files, Publishing!UploadBanner(f) PROVE PostsInv'
  <2>1. /\ composer.open /\ upload[f] = "unused"
        /\ upload' = [upload EXCEPT ![f] = "storing"] /\ banners' = banners \cup {f}
        /\ UNCHANGED <<post, composer, saving, postStored, postRow, deleting, torn, left, late,
                       doubled>>
    BY <1>5 DEF Publishing!UploadBanner, Publishing!server
  <2>2. /\ upload' \in [Files -> Publishing!UploadPlaces] /\ upload'[f] = "storing"
        /\ \A g \in Files : g # f => upload'[g] = upload[g]
    BY <2>1 DEF Publishing!TypeOK, Publishing!UploadPlaces
  <2>3. Publishing!TypeOK'
    BY <2>1, <2>2 DEF Publishing!TypeOK
  <2>4. /\ \A g \in composer.blocks : upload[g] # "unused"
        /\ composer.banner # Publishing!NoFile =>
             composer.banner \in Files /\ Settled(composer.banner)
    BY DEF UploadsFit, Publishing!TypeOK
  <2> QED
    BY <1>1, <2>1, <2>2, <2>3, <2>4, ComposerStep DEF Held
<1>6. ASSUME NEW f \in Files, Publishing!RemoveBlock(f) PROVE PostsInv'
  <2>1. /\ composer' = [composer EXCEPT !.blocks = @ \ {f}] /\ f \in composer.blocks
        /\ UNCHANGED <<post, upload, banners, saving, postStored, postRow, deleting, torn, left,
                       late, doubled>>
    BY <1>6 DEF Publishing!RemoveBlock, Publishing!server
  <2>2. /\ composer'.blocks = composer.blocks \ {f} /\ composer'.banner = composer.banner
        /\ composer'.of = composer.of /\ composer'.open = composer.open
        /\ composer' \in [open : BOOLEAN, of : Publishing!Targets,
                          banner : Files \cup {Publishing!NoFile}, blocks : SUBSET Files]
    BY <1>1, <2>1
  <2>3. Publishing!TypeOK'
    BY <2>1, <2>2 DEF Publishing!TypeOK
  <2>4. composer.open
    BY <2>1 DEF UploadsFit, Publishing!Closed
  <2>5. /\ \A g \in composer.blocks : upload[g] # "unused"
        /\ composer.banner # Publishing!NoFile =>
             composer.banner \in Files /\ Settled(composer.banner)
    BY DEF UploadsFit, Publishing!TypeOK
  <2> QED
    BY <2>1, <2>2, <2>3, <2>4, <2>5, ComposerStep DEF Held
<1> QED
  BY <1>2, <1>3, <1>4, <1>5, <1>6

LEMMA StorePosts ==
  ASSUME PostsInv, NEW f \in Files, NEW ok \in BOOLEAN, Publishing!StoreFile(f, ok)
  PROVE  PostsInv'
<1> USE DEF PostsInv
<1>1. /\ upload[f] = "storing"
      /\ upload' = [upload EXCEPT ![f] = IF ok THEN "recording" ELSE "failed"]
      /\ postStored' = IF ok THEN postStored \cup {f} ELSE postStored
      /\ UNCHANGED <<post, postRow, composer, banners, saving, deleting, torn, left, late, doubled>>
  BY DEF Publishing!StoreFile
<1>2. /\ upload' \in [Files -> Publishing!UploadPlaces]
      /\ upload'[f] = IF ok THEN "recording" ELSE "failed"
      /\ \A g \in Files : g # f => upload'[g] = upload[g]
      /\ postStored \subseteq postStored' /\ postStored' \subseteq postStored \cup {f}
      /\ upload'[f] = "recording" => f \in postStored'
  BY <1>1 DEF Publishing!TypeOK, Publishing!UploadPlaces
<1>3. Publishing!TypeOK'
  BY <1>1, <1>2 DEF Publishing!TypeOK
<1>4. \A g \in Files : Settled(g) => Settled(g)'
  BY <1>1, <1>2 DEF Settled
<1>5. saving.blocks \subseteq Files /\ composer.blocks \subseteq Files
      /\ composer.banner \in Files \cup {Publishing!NoFile}
  BY DEF Publishing!TypeOK
<1>6. UploadsFit'
  BY <1>1, <1>2, <1>4, <1>5 DEF UploadsFit, Published, Publishing!TypeOK
<1>7. postRow[f] = "absent"
  BY <1>1 DEF UploadsFit
<1>8. FilesOwned'
  BY <1>1, <1>2, PostMarks DEF FilesOwned, InOnePost, SavedInIt, EditedInIt, GoneWithIt, Written,
     Published, Linked, Held, Publishing!Beyond
<1>9. LeftKnown'
  BY <1>1, <1>2, <1>7, PostMarks DEF LeftKnown
<1> QED
  BY <1>3, <1>6, <1>8, <1>9

LEMMA RecordPosts ==
  ASSUME PostsInv, NEW f \in Files, NEW ok \in BOOLEAN, Publishing!RecordFile(f, ok)
  PROVE  PostsInv'
<1> USE DEF PostsInv
<1>1. /\ upload[f] = "recording"
      /\ upload' = [upload EXCEPT ![f] = IF ok THEN "ok" ELSE "unrecorded"]
      /\ postRow' = [postRow EXCEPT ![f] = IF ok THEN "free" ELSE @]
      /\ composer' = IF f \in banners THEN [composer EXCEPT !.banner = f] ELSE composer
      /\ banners' = banners \ {f}
      /\ UNCHANGED <<post, saving, postStored, deleting, torn, left, late, doubled>>
  BY DEF Publishing!RecordFile
<1>2. /\ upload' \in [Files -> Publishing!UploadPlaces]
      /\ upload'[f] = IF ok THEN "ok" ELSE "unrecorded"
      /\ \A g \in Files : g # f => upload'[g] = upload[g]
  BY <1>1 DEF Publishing!TypeOK, Publishing!UploadPlaces
<1>3. postRow[f] = "absent" /\ f \in postStored
  BY <1>1 DEF UploadsFit
<1>4. /\ postRow' \in [Files -> {"absent", "free"} \cup PostIds]
      /\ postRow'[f] = IF ok THEN "free" ELSE "absent"
      /\ \A g \in Files : g # f => postRow'[g] = postRow[g]
  BY <1>1, <1>3 DEF Publishing!TypeOK
<1>5. /\ composer'.blocks = composer.blocks /\ composer'.of = composer.of
      /\ composer'.open = composer.open
      /\ composer'.banner = IF f \in banners THEN f ELSE composer.banner
      /\ composer' \in [open : BOOLEAN, of : Publishing!Targets,
                        banner : Files \cup {Publishing!NoFile}, blocks : SUBSET Files]
      /\ f \notin banners => composer' = composer
  BY <1>1 DEF Publishing!TypeOK
<1>6. Publishing!TypeOK'
  BY <1>1, <1>2, <1>4, <1>5 DEF Publishing!TypeOK
<1>7. \A g \in Files : Settled(g) => Settled(g)' /\ g # f
  BY <1>1, <1>2 DEF Settled
<1>8. Settled(f)' /\ composer.blocks \subseteq Files
      /\ composer.banner \in Files \cup {Publishing!NoFile} /\ saving.blocks \subseteq Files
  BY <1>2 DEF Settled, Publishing!TypeOK
<1>9. UploadsFit'
  <2>1. /\ \A g \in Files : postRow'[g] # "absent" <=> upload'[g] = "ok"
        /\ \A g \in Files : upload'[g] = "recording" => g \in postStored'
    BY <1>1, <1>2, <1>4 DEF UploadsFit
  <2>2. /\ \A p \in PostIds, g \in Files : Published(g, p)' => Settled(g)'
        /\ saving.at # "idle" => saving.of \in PostIds /\ \A g \in saving.blocks : Settled(g)'
    BY <1>1, <1>7, <1>8 DEF UploadsFit, Published
  <2>3. \A g \in composer'.blocks : upload'[g] # "unused"
    BY <1>2, <1>5, <1>8 DEF UploadsFit
  <2>4. ~composer'.open => composer' = Publishing!Closed /\ banners' = {}
    BY <1>1, <1>5 DEF UploadsFit
  <2>5. composer'.banner # Publishing!NoFile =>
          upload'[composer'.banner] \in {"ok", "unrecorded", "failed"}
    BY <1>5, <1>7, <1>8 DEF UploadsFit, Settled
  <2> QED
    BY <1>1, <2>1, <2>2, <2>3, <2>4, <2>5 DEF UploadsFit, Settled
<1>10. \A g \in Files : /\ Linked(g)' <=> Linked(g)
                        /\ Linked(g) => g # f
                        /\ \A p \in PostIds : Published(g, p)' <=> Published(g, p)
                        /\ \A p \in PostIds : Published(g, p) => g # f
                        /\ saving.at # "idle" /\ g \in saving.blocks => g # f
                        /\ g # f => (g \in Held' => g \in Held)
  <2>1. ~Settled(f)
    BY <1>1 DEF Settled
  <2> QED
    BY <1>1, <1>3, <1>4, <1>5, <2>1, PostMarks DEF UploadsFit, Linked, Published, Held
<1>11. ASSUME NEW g \in Files, g \notin doubled
       PROVE  InOnePost(g)' /\ SavedInIt(g)' /\ EditedInIt(g)' /\ GoneWithIt(g)'
  <2>1. InOnePost(g) /\ SavedInIt(g) /\ EditedInIt(g) /\ GoneWithIt(g)
    BY <1>11 DEF FilesOwned
  <2>2. /\ saving' = saving /\ composer'.of = composer.of /\ deleting' = deleting
        /\ torn' = torn /\ post' = post /\ postStored' = postStored
    BY <1>1, <1>5
  <2>3. Linked(g) => postRow'[g] = postRow[g]
    BY <1>4, <1>10
  <2>4. InOnePost(g)'
    BY <1>10, <2>1, <2>3 DEF InOnePost
  <2>5. SavedInIt(g)'
    BY <1>10, <2>1, <2>2, <2>3 DEF SavedInIt
  <2>6. EditedInIt(g)'
    BY <1>10, <2>1, <2>2, <2>3 DEF EditedInIt, Written
  <2>7. deleting.at = "removing" /\ g \in deleting.files => postRow[g] = deleting.of /\ Linked(g)
    BY <2>1 DEF GoneWithIt, UploadsFit, Linked
  <2>8. GoneWithIt(g)'
    BY <1>2, <1>3, <1>4, <1>10, <2>1, <2>2, <2>3, <2>7 DEF GoneWithIt, Publishing!Beyond
  <2> QED
    BY <2>4, <2>5, <2>6, <2>8
<1>12. FilesOwned'
  BY <1>1, <1>11 DEF FilesOwned
<1>13. LeftKnown'
  BY <1>1, <1>4, PostMarks DEF LeftKnown
<1> QED
  BY <1>6, <1>9, <1>12, <1>13

LEMMA SubmitPosts ==
  ASSUME PostsInv, NEW p \in PostIds, Publishing!Submit(p)
  PROVE  PostsInv'
<1> USE DEF PostsInv
<1>1. /\ saving.at = "idle"
      /\ composer.open
      /\ \A f \in composer.blocks : upload[f] \notin {"storing", "recording"}
      /\ IF composer.of = Publishing!NoPost THEN post[p].at = "none"
         ELSE p = composer.of /\ post[p].at = "live"
      /\ UNCHANGED <<post, upload, composer, banners, postStored, postRow, deleting, torn, left,
                     late, doubled>>
  BY DEF Publishing!Submit, Publishing!CanPublish, Publishing!server, Publishing!Uploading
<1>2. saving' = [at |-> "writing", of |-> p, new |-> composer.of = Publishing!NoPost,
                 blocks |-> Held]
  BY DEF Publishing!Submit, Publishing!Content, Held
<1>3. Held \subseteq Files
  BY DEF Held, Publishing!TypeOK
<1>4. /\ saving'.at = "writing" /\ saving'.of = p /\ saving'.blocks = Held
      /\ saving'.new <=> composer.of = Publishing!NoPost
      /\ saving' \in [at : {"idle", "writing", "linking", "answering"},
                      of : Publishing!Targets, new : BOOLEAN, blocks : SUBSET Files]
  BY <1>2, <1>3 DEF Publishing!Targets
<1>5. Publishing!TypeOK'
  BY <1>1, <1>4 DEF Publishing!TypeOK
<1>6. \A f \in Held : Settled(f)
  BY <1>1, <1>3 DEF Held, UploadsFit, Settled, Publishing!TypeOK, Publishing!UploadPlaces
<1>7. UploadsFit'
  BY <1>1, <1>4, <1>6, PostMarks DEF UploadsFit, Settled, Published
<1>8. ASSUME NEW f \in Files, f \notin doubled
      PROVE  InOnePost(f)' /\ SavedInIt(f)' /\ EditedInIt(f)' /\ GoneWithIt(f)'
  <2>1. InOnePost(f) /\ SavedInIt(f) /\ EditedInIt(f) /\ GoneWithIt(f)
    BY <1>8 DEF FilesOwned
  <2>2. /\ Held' = Held /\ (Linked(f)' <=> Linked(f))
        /\ \A q \in PostIds : Published(f, q)' <=> Published(f, q)
    BY <1>1 DEF Held, Linked, Published
  <2>3. f \in Held /\ composer.of = Publishing!NoPost =>
          ~Linked(f) /\ \A q \in PostIds : ~Published(f, q)
    BY <1>1, <2>1 DEF EditedInIt, Written
  <2>4. SavedInIt(f)'
    BY <1>1, <1>4, <2>1, <2>2, <2>3 DEF SavedInIt, EditedInIt
  <2>5. EditedInIt(f)'
    BY <1>1, <2>1, <2>2, <2>3 DEF EditedInIt
  <2>6. InOnePost(f)' /\ GoneWithIt(f)'
    BY <1>1, <2>1, <2>2 DEF InOnePost, GoneWithIt, Publishing!Beyond
  <2> QED
    BY <2>4, <2>5, <2>6
<1>9. FilesOwned'
  BY <1>1, <1>8 DEF FilesOwned
<1>10. LeftKnown'
  BY <1>1 DEF LeftKnown
<1> QED
  BY <1>5, <1>7, <1>9, <1>10

LEMMA WritePosts == ASSUME PostsInv, Publishing!WritePost PROVE PostsInv'
<1> USE DEF PostsInv
<1> DEFINE of == saving.of
           row == [at |-> IF saving.new THEN "live" ELSE post[of].at, blocks |-> saving.blocks]
<1>1. /\ saving.at = "writing" /\ of \in PostIds
      /\ post' = [post EXCEPT ![of] = row]
      /\ saving' = [saving EXCEPT !.at = "linking"]
      /\ UNCHANGED <<upload, composer, banners, postStored, postRow, deleting, torn, left, late,
                     doubled>>
  BY DEF Publishing!WritePost, Publishing!server, UploadsFit
<1>2. /\ saving'.at = "linking" /\ saving'.of = of /\ saving'.blocks = saving.blocks
      /\ saving'.new = saving.new /\ saving.blocks \subseteq Files
      /\ saving' \in [at : {"idle", "writing", "linking", "answering"},
                      of : Publishing!Targets, new : BOOLEAN, blocks : SUBSET Files]
  BY <1>1 DEF Publishing!TypeOK
<1>3. /\ row \in [at : {"none", "live", "deleted"}, blocks : SUBSET Files]
      /\ row.blocks = saving.blocks /\ row.at # "none"
      /\ row.at = "deleted" => post[of].at = "deleted" /\ ~saving.new
      /\ post[of].at = "deleted" => row.at = "deleted"
  BY <1>1 DEF Publishing!TypeOK, UploadsFit
<1> HIDE DEF row, of
<1>4. /\ post' \in [PostIds -> [at : {"none", "live", "deleted"}, blocks : SUBSET Files]]
      /\ post'[of] = row /\ \A p \in PostIds : p # of => post'[p] = post[p]
  BY <1>1, <1>3 DEF Publishing!TypeOK
<1>5. Publishing!TypeOK'
  BY <1>1, <1>2, <1>4 DEF Publishing!TypeOK
<1>6. UploadsFit'
  BY <1>1, <1>2, <1>3, <1>4 DEF UploadsFit, Settled, Published, of
<1>7. ASSUME NEW f \in Files, f \notin doubled
      PROVE  InOnePost(f)' /\ SavedInIt(f)' /\ EditedInIt(f)' /\ GoneWithIt(f)'
  <2>1. InOnePost(f) /\ SavedInIt(f) /\ EditedInIt(f) /\ GoneWithIt(f)
    BY <1>7 DEF FilesOwned
  <2>2. /\ Held' = Held /\ (Linked(f)' <=> Linked(f)) /\ postRow' = postRow
        /\ \A q \in PostIds : Published(f, q)' =>
             IF q = of THEN f \in saving.blocks ELSE Published(f, q)
    BY <1>1, <1>3, <1>4 DEF Held, Linked, Published
  <2>3. f \in saving.blocks => /\ \A q \in PostIds : Published(f, q)' => q = of
                               /\ Linked(f) => postRow[f] = of
    BY <1>1, <2>1, <2>2 DEF SavedInIt, of
  <2>4. InOnePost(f)'
    BY <2>1, <2>2, <2>3 DEF InOnePost
  <2>5. SavedInIt(f)'
    BY <1>1, <1>2, <2>1, <2>2, <2>3 DEF SavedInIt, of
  <2>6. EditedInIt(f)'
    <3>1. f \in Held /\ f \in saving.blocks =>
            IF composer.of = Publishing!NoPost THEN saving.new ELSE of = composer.of
      BY <1>1, <2>1 DEF SavedInIt, of
    <3>2. CASE f \in saving.blocks
      BY <1>1, <1>2, <2>2, <2>3, <3>1, <3>2 DEF EditedInIt, Written, Linked
    <3>3. CASE f \notin saving.blocks
      <4>1. \A q : ~Written(f, q)
        BY <3>3 DEF Written
      <4>2. \A q \in PostIds : Published(f, q)' => Published(f, q)
        BY <2>2, <3>3
      <4> QED
        BY <1>1, <2>1, <2>2, <4>1, <4>2 DEF EditedInIt
    <3> QED
      BY <3>2, <3>3
  <2>7. GoneWithIt(f)'
    BY <1>1, <1>3, <1>4, <2>1, <2>2 DEF GoneWithIt, Publishing!Beyond, Linked
  <2> QED
    BY <2>4, <2>5, <2>6, <2>7
<1>8. FilesOwned'
  BY <1>1, <1>7 DEF FilesOwned
<1>9. LeftKnown'
  BY <1>1, <1>3, <1>4 DEF LeftKnown
<1> QED
  BY <1>5, <1>6, <1>8, <1>9

LEMMA LinkPosts == ASSUME PostsInv, Publishing!LinkAttachments PROVE PostsInv'
<1> USE DEF PostsInv
<1> DEFINE linked == {f \in saving.blocks : postRow[f] # "absent"}
           of == saving.of
<1>1. /\ saving.at = "linking" /\ of \in PostIds
      /\ postRow' = [f \in Files |-> IF f \in linked THEN of ELSE postRow[f]]
      /\ late' = IF post[of].at = "deleted" \/ deleting.of = of THEN late \cup linked ELSE late
      /\ saving' = [saving EXCEPT !.at = "answering"]
      /\ UNCHANGED <<post, upload, composer, banners, postStored, deleting, torn, left, doubled>>
  BY DEF Publishing!LinkAttachments, UploadsFit
<1>2. /\ saving'.at = "answering" /\ saving'.of = of /\ saving'.blocks = saving.blocks
      /\ saving'.new = saving.new /\ saving.blocks \subseteq Files
      /\ saving' \in [at : {"idle", "writing", "linking", "answering"},
                      of : Publishing!Targets, new : BOOLEAN, blocks : SUBSET Files]
  BY <1>1 DEF Publishing!TypeOK
<1>3. /\ postRow' \in [Files -> {"absent", "free"} \cup PostIds]
      /\ \A f \in Files : postRow'[f] = IF f \in saving.blocks /\ postRow[f] # "absent"
                                        THEN of ELSE postRow[f]
      /\ \A f \in Files : postRow'[f] = "absent" <=> postRow[f] = "absent"
  BY <1>1, PostMarks DEF Publishing!TypeOK
<1>4. /\ late \subseteq late' /\ late' \subseteq Files
      /\ post[of].at = "deleted" \/ deleting.of = of =>
           \A f \in saving.blocks : postRow[f] # "absent" => f \in late'
  BY <1>1, <1>2 DEF Publishing!TypeOK
<1> HIDE DEF linked, of
<1>5. Publishing!TypeOK'
  BY <1>1, <1>2, <1>3, <1>4 DEF Publishing!TypeOK
<1>6. UploadsFit'
  BY <1>1, <1>2, <1>3 DEF UploadsFit, Settled, Published, of
<1>7. ASSUME NEW f \in Files, f \notin doubled
      PROVE  InOnePost(f)' /\ SavedInIt(f)' /\ EditedInIt(f)' /\ GoneWithIt(f)'
  <2>1. InOnePost(f) /\ SavedInIt(f) /\ EditedInIt(f) /\ GoneWithIt(f)
    BY <1>7 DEF FilesOwned
  <2>2. /\ Held' = Held /\ \A q \in PostIds : Published(f, q)' <=> Published(f, q)
        /\ f \notin saving.blocks => postRow'[f] = postRow[f]
        /\ Linked(f) => postRow'[f] = postRow[f] /\ Linked(f)'
    BY <1>1, <1>3, <2>1, PostMarks DEF Held, Published, Linked, SavedInIt, of
  <2>3. f \in saving.blocks => /\ \A q \in PostIds : Published(f, q)' => q = of
                               /\ Linked(f)' => postRow'[f] = of
    BY <1>1, <1>3, <2>1, <2>2, PostMarks DEF SavedInIt, Linked, of
  <2>4. InOnePost(f)'
    BY <2>1, <2>2, <2>3 DEF InOnePost, Linked
  <2>5. SavedInIt(f)'
    BY <1>1, <1>2, <2>1, <2>2, <2>3 DEF SavedInIt, of
  <2>6. EditedInIt(f)'
    <3>1. f \in Held /\ f \in saving.blocks =>
            IF composer.of = Publishing!NoPost THEN saving.new ELSE of = composer.of
      BY <1>1, <2>1 DEF SavedInIt, of
    <3>2. CASE f \in saving.blocks
      BY <1>1, <1>2, <2>2, <2>3, <3>1, <3>2 DEF EditedInIt, Written
    <3>3. CASE f \notin saving.blocks
      BY <1>1, <1>2, <2>1, <2>2, <3>3 DEF EditedInIt, Written, Linked
    <3> QED
      BY <3>2, <3>3
  <2>7. deleting.at = "removing" /\ f \in deleting.files => Linked(f)
    BY <2>1 DEF GoneWithIt, UploadsFit, Linked
  <2>8. GoneWithIt(f)'
    BY <1>1, <2>1, <2>2, <2>7 DEF GoneWithIt, Publishing!Beyond
  <2> QED
    BY <2>4, <2>5, <2>6, <2>8
<1>8. FilesOwned'
  BY <1>1, <1>7 DEF FilesOwned
<1>9. LeftKnown'
  <2> SUFFICES ASSUME NEW p \in PostIds, NEW f \in Files, postRow'[f] = p
               PROVE  /\ deleting.at = "removing" /\ deleting.of = p =>
                           f \in deleting.files \cup late'
                      /\ (deleting.at = "marking" /\ deleting.of = p) \/ post[p].at = "deleted" =>
                           (f \in postStored => f \in left \cup late')
    BY <1>1 DEF LeftKnown
  <2>1. CASE postRow[f] = p
    BY <1>4, <2>1 DEF LeftKnown
  <2>2. CASE postRow[f] # p
    BY <1>3, <1>4, <2>2
  <2> QED
    BY <2>1, <2>2
<1> QED
  BY <1>5, <1>6, <1>8, <1>9

LEMMA SaveEndsPosts ==
  ASSUME PostsInv, NEW ok \in BOOLEAN, Publishing!SaveEnds(ok)
  PROVE  PostsInv'
<1> USE DEF PostsInv
<1>1. /\ saving.at # "idle" /\ (ok => saving.at = "answering")
      /\ doubled' = IF ~ok /\ saving.new /\ saving.at # "writing"
                    THEN doubled \cup saving.blocks ELSE doubled
      /\ saving' = Publishing!Idle
      /\ composer' = IF ok THEN Publishing!Closed ELSE composer
      /\ banners' = IF ok THEN {} ELSE banners
      /\ UNCHANGED <<post, upload, postStored, postRow, deleting, torn, left, late>>
  BY DEF Publishing!SaveEnds, Publishing!server
<1>2. /\ saving'.at = "idle" /\ saving'.blocks = {}
      /\ saving' \in [at : {"idle", "writing", "linking", "answering"},
                      of : Publishing!Targets, new : BOOLEAN, blocks : SUBSET Files]
  BY <1>1 DEF Publishing!Idle, Publishing!Targets
<1>3. /\ \/ composer' = composer /\ banners' = banners
         \/ ok /\ composer' = Publishing!Closed /\ banners' = {}
      /\ Publishing!Closed.blocks = {} /\ Publishing!Closed.banner = Publishing!NoFile
      /\ Publishing!Closed \in [open : BOOLEAN, of : Publishing!Targets,
                                banner : Files \cup {Publishing!NoFile}, blocks : SUBSET Files]
  BY <1>1 DEF Publishing!Closed, Publishing!Targets
<1>4. doubled \subseteq doubled' /\ doubled' \subseteq Files
  BY <1>1 DEF Publishing!TypeOK
<1>5. Publishing!TypeOK'
  BY <1>1, <1>2, <1>3, <1>4 DEF Publishing!TypeOK
<1>6. UploadsFit'
  BY <1>1, <1>2, <1>3 DEF UploadsFit, Settled, Published
<1>7. ASSUME NEW f \in Files, f \notin doubled'
      PROVE  InOnePost(f)' /\ SavedInIt(f)' /\ EditedInIt(f)' /\ GoneWithIt(f)'
  <2>1. InOnePost(f) /\ SavedInIt(f) /\ EditedInIt(f) /\ GoneWithIt(f)
    BY <1>4, <1>7 DEF FilesOwned
  <2>2. /\ Linked(f)' <=> Linked(f)
        /\ \A q \in PostIds : Published(f, q)' <=> Published(f, q)
    BY <1>1 DEF Published, Linked
  <2>3. InOnePost(f)' /\ SavedInIt(f)' /\ GoneWithIt(f)'
    BY <1>1, <1>2, <2>1, <2>2 DEF InOnePost, SavedInIt, GoneWithIt, Publishing!Beyond
  <2>4. EditedInIt(f)'
    <3>1. CASE ok
      BY <1>1, <1>3, <3>1 DEF EditedInIt, Held
    <3>2. CASE ~ok
      <4>1. composer' = composer /\ Held' = Held
        BY <1>1, <3>2 DEF Held
      <4>2. \A q : ~Written(f, q)
        BY <1>1, <1>7, <3>2 DEF Written
      <4> QED
        BY <1>1, <2>1, <2>2, <4>1, <4>2 DEF EditedInIt
    <3> QED
      BY <3>1, <3>2
  <2> QED
    BY <2>3, <2>4
<1>8. FilesOwned'
  BY <1>7 DEF FilesOwned
<1>9. LeftKnown'
  BY <1>1 DEF LeftKnown
<1> QED
  BY <1>5, <1>6, <1>8, <1>9

\* The steps of a deletion leave the composer, the saves and the rows alone.
LEMMA DeletionStep ==
  ASSUME PostsInv, Publishing!TypeOK',
         UNCHANGED <<upload, postRow, composer, banners, saving, late, doubled>>,
         \A p \in PostIds : /\ post'[p].blocks = post[p].blocks
                            /\ post'[p].at # post[p].at => post[p].at = "live" /\ post'[p].at = "deleted",
         \A f \in Files : upload[f] = "recording" => f \in postStored',
         deleting'.at # "idle" => deleting'.of \in PostIds /\ post'[deleting'.of].at = "live",
         \A f \in deleting'.files : upload[f] = "ok",
         deleting'.at = "idle" => deleting' = Publishing!NoDeletion,
         \A f \in Files : f \notin doubled => GoneWithIt(f)',
         LeftKnown'
  PROVE  PostsInv'
<1> USE DEF PostsInv
<1>1. \A p \in PostIds, f \in Files : Published(f, p)' <=> Published(f, p)
  BY DEF Published
<1>2. UploadsFit'
  <2>1. saving.at = "writing" /\ saving.new => post'[saving.of].at = "none"
    BY DEF UploadsFit
  <2>2. saving.at # "idle" /\ ~saving.new => post'[saving.of].at # "none"
    BY DEF UploadsFit
  <2> QED
    BY <1>1, <2>1, <2>2 DEF UploadsFit, Settled
<1>3. FilesOwned'
  <2> SUFFICES ASSUME NEW f \in Files, f \notin doubled
               PROVE  InOnePost(f)' /\ SavedInIt(f)' /\ EditedInIt(f)'
    BY DEF FilesOwned
  <2>1. InOnePost(f) /\ SavedInIt(f) /\ EditedInIt(f)
    BY DEF FilesOwned
  <2>2. /\ Held' = Held /\ (Linked(f)' <=> Linked(f))
        /\ \A p : Written(f, p)' <=> Written(f, p)
    BY DEF Held, Linked, Written
  <2> QED
    BY <1>1, <2>1, <2>2 DEF InOnePost, SavedInIt, EditedInIt
<1> QED
  BY <1>2, <1>3

LEMMA DeletePosts ==
  ASSUME PostsInv, \/ \E p \in PostIds : Publishing!Delete(p)
                   \/ Publishing!FindAttachments
  PROVE  PostsInv'
<1> USE DEF PostsInv
<1>1. \A f \in Files : f \notin doubled => GoneWithIt(f)
  BY DEF FilesOwned
<1>2. ASSUME NEW p \in PostIds, Publishing!Delete(p) PROVE PostsInv'
  <2>1. /\ deleting = Publishing!NoDeletion /\ post[p].at = "live"
        /\ deleting' = [Publishing!NoDeletion EXCEPT !.at = "finding", !.of = p]
        /\ UNCHANGED <<post, upload, postStored, postRow, composer, banners, saving, torn, left,
                       late, doubled>>
    BY <1>2 DEF Publishing!Delete
  <2>2. /\ deleting'.at = "finding" /\ deleting'.of = p /\ deleting.at = "idle"
        /\ deleting'.files = {}
        /\ deleting' \in [at : {"idle", "finding", "removing", "marking"},
                          of : Publishing!Targets, files : SUBSET Files]
    BY <2>1 DEF Publishing!NoDeletion, Publishing!Targets
  <2>3. Publishing!TypeOK'
    BY <2>1, <2>2 DEF Publishing!TypeOK
  <2>4. \A f \in Files : f \notin doubled => GoneWithIt(f)'
    BY <1>1, <2>1, <2>2 DEF GoneWithIt, Publishing!Beyond, Linked
  <2>5. LeftKnown'
    BY <2>1, <2>2 DEF LeftKnown
  <2>6. \A f \in Files : upload[f] = "recording" => f \in postStored'
    BY <2>1 DEF UploadsFit
  <2> QED
    BY <2>1, <2>2, <2>3, <2>4, <2>5, <2>6, DeletionStep
<1>3. ASSUME Publishing!FindAttachments PROVE PostsInv'
  <2> DEFINE files == {f \in Files : postRow[f] = deleting.of}
  <2>1. /\ deleting.at = "finding"
        /\ deleting' = [deleting EXCEPT !.at = "removing", !.files = files]
        /\ UNCHANGED <<post, upload, postStored, postRow, composer, banners, saving, torn, left,
                       late, doubled>>
    BY <1>3 DEF Publishing!FindAttachments
  <2>2. /\ deleting'.at = "removing" /\ deleting'.of = deleting.of
        /\ deleting'.files = files /\ deleting.of \in PostIds
        /\ post[deleting.of].at = "live"
        /\ deleting' \in [at : {"idle", "finding", "removing", "marking"},
                          of : Publishing!Targets, files : SUBSET Files]
    BY <2>1 DEF Publishing!TypeOK, UploadsFit
  <2>3. Publishing!TypeOK'
    BY <2>1, <2>2 DEF Publishing!TypeOK
  <2>4. \A f \in Files : f \notin doubled => GoneWithIt(f)'
    BY <1>1, <2>1, <2>2 DEF GoneWithIt, Publishing!Beyond, Linked
  <2>5. LeftKnown'
    BY <2>1, <2>2 DEF LeftKnown
  <2>6. \A f \in Files : upload[f] = "recording" => f \in postStored'
    BY <2>1 DEF UploadsFit
  <2>7. \A f \in files : upload[f] = "ok"
    BY <2>2, PostMarks DEF UploadsFit
  <2> HIDE DEF files
  <2> QED
    BY <2>1, <2>2, <2>3, <2>4, <2>5, <2>6, <2>7, DeletionStep
<1> QED
  BY <1>2, <1>3

LEMMA RemovePosts == ASSUME PostsInv, Publishing!RemoveFiles PROVE PostsInv'
<1> USE DEF PostsInv
<1>1. PICK bad \in SUBSET deleting.files :
        /\ postStored' = postStored \ (deleting.files \ bad)
        /\ left' = left \cup bad
  BY DEF Publishing!RemoveFiles
<1>2. /\ deleting.at = "removing" /\ deleting' = [deleting EXCEPT !.at = "marking"]
      /\ UNCHANGED <<post, upload, postRow, composer, banners, saving, torn, late, doubled>>
  BY DEF Publishing!RemoveFiles
<1>3. /\ deleting'.at = "marking" /\ deleting'.of = deleting.of /\ deleting.of \in PostIds
      /\ deleting'.files = deleting.files /\ post[deleting.of].at = "live"
      /\ deleting.files \subseteq Files /\ \A f \in deleting.files : upload[f] = "ok"
      /\ deleting' \in [at : {"idle", "finding", "removing", "marking"},
                        of : Publishing!Targets, files : SUBSET Files]
  BY <1>2 DEF Publishing!TypeOK, UploadsFit
<1>4. Publishing!TypeOK'
  BY <1>1, <1>2, <1>3 DEF Publishing!TypeOK
<1>5. \A f \in Files : f \notin doubled => GoneWithIt(f)'
  <2> SUFFICES ASSUME NEW f \in Files, f \notin doubled PROVE GoneWithIt(f)'
    OBVIOUS
  <2>1. GoneWithIt(f)
    BY DEF FilesOwned
  <2>2. CASE f \in deleting.files
    BY <1>2, <1>3, <2>1, <2>2 DEF GoneWithIt, Publishing!Beyond, Linked
  <2>3. CASE f \notin deleting.files
    BY <1>1, <1>2, <1>3, <2>1, <2>3 DEF GoneWithIt, Publishing!Beyond, Linked
  <2> QED
    BY <2>2, <2>3
<1>6. LeftKnown'
  BY <1>1, <1>2, <1>3 DEF LeftKnown
<1>7. \A f \in Files : upload[f] = "recording" => f \in postStored'
  <2> SUFFICES ASSUME NEW f \in Files, upload[f] = "recording" PROVE f \in postStored'
    OBVIOUS
  <2>1. f \in postStored
    BY DEF UploadsFit
  <2>2. f \notin deleting.files
    BY <1>3
  <2> QED
    BY <1>1, <2>1, <2>2
<1> QED
  BY <1>2, <1>3, <1>4, <1>5, <1>6, <1>7, DeletionStep

LEMMA MarkPosts ==
  ASSUME PostsInv, NEW ok \in BOOLEAN, Publishing!MarkDeleted(ok)
  PROVE  PostsInv'
<1> USE DEF PostsInv
<1> DEFINE of == deleting.of
<1>1. /\ deleting.at = "marking" /\ of \in PostIds /\ post[of].at = "live"
      /\ post' = IF ok THEN [post EXCEPT ![of].at = "deleted"] ELSE post
      /\ torn' = IF ok THEN torn ELSE torn \cup {of}
      /\ deleting' = Publishing!NoDeletion
      /\ UNCHANGED <<upload, postStored, postRow, composer, banners, saving, left, late, doubled>>
  BY DEF Publishing!MarkDeleted, UploadsFit
<1> HIDE DEF of
<1>2. /\ post' \in [PostIds -> [at : {"none", "live", "deleted"}, blocks : SUBSET Files]]
      /\ \A p \in PostIds : /\ post'[p].blocks = post[p].blocks
                            /\ post'[p].at = IF ok /\ p = of THEN "deleted" ELSE post[p].at
  BY <1>1 DEF Publishing!TypeOK
<1>3. /\ deleting'.at = "idle" /\ deleting'.files = {}
      /\ deleting' \in [at : {"idle", "finding", "removing", "marking"},
                        of : Publishing!Targets, files : SUBSET Files]
  BY <1>1 DEF Publishing!NoDeletion, Publishing!Targets
<1>4. Publishing!TypeOK'
  BY <1>1, <1>2, <1>3 DEF Publishing!TypeOK
<1>5. \A f \in Files : f \notin doubled => GoneWithIt(f)'
  <2> SUFFICES ASSUME NEW f \in Files, f \notin doubled PROVE GoneWithIt(f)'
    OBVIOUS
  <2>1. GoneWithIt(f)
    BY DEF FilesOwned
  <2>2. (Linked(f)' <=> Linked(f)) /\ (Linked(f) => postRow[f] \in PostIds)
    BY <1>1 DEF Linked
  <2> QED
    BY <1>1, <1>2, <1>3, <2>1, <2>2 DEF GoneWithIt, Publishing!Beyond, of
<1>6. LeftKnown'
  BY <1>1, <1>2, <1>3 DEF LeftKnown, of
<1>7. \A f \in Files : upload[f] = "recording" => f \in postStored'
  BY <1>1 DEF UploadsFit
<1> QED
  BY <1>1, <1>2, <1>3, <1>4, <1>5, <1>6, <1>7, DeletionStep

LEMMA NextPosts == PostsInv /\ [Publishing!Next]_postVars => PostsInv'
<1> SUFFICES ASSUME PostsInv, [Publishing!Next]_postVars PROVE PostsInv'
  OBVIOUS
<1>1. ASSUME UNCHANGED postVars PROVE PostsInv'
  BY <1>1, Zenon DEF postVars, PostsInv, Publishing!TypeOK, UploadsFit, FilesOwned, InOnePost,
     SavedInIt, EditedInIt, GoneWithIt, LeftKnown, Settled, Held, Linked, Published, Written,
     Publishing!Beyond
<1>2. ASSUME Publishing!Next PROVE PostsInv'
  BY <1>2, OpenPosts, EditPosts, StorePosts, RecordPosts, SubmitPosts, WritePosts, LinkPosts,
     SaveEndsPosts, DeletePosts, RemovePosts, MarkPosts DEF Publishing!Next
<1> QED
  BY <1>1, <1>2

LEMMA PostsSteps == [ServicesNext]_servicesVars => [Publishing!Next]_postVars
BY DEF ServicesNext, servicesVars, postVars, Others

\* Where each file of the newsletter is, and why: the steps between the upload,
\* the save and the deletion (newsletter.service.ts:99-169).
THEOREM PostsInvariant == ServicesSpec => []PostsInv
<1>1. ServicesInit => PostsInv
  BY InitPosts DEF ServicesInit
<1>2. PostsInv /\ [ServicesNext]_servicesVars => PostsInv'
  BY NextPosts, PostsSteps
<1> QED
  BY <1>1, <1>2, PTL DEF ServicesSpec

\* A live post names only files whose row and content are there, and a deleted
\* post leaves none behind, for any files and posts, but for the cases the code
\* lets through (NewsletterComposer.tsx:410-437, newsletter.service.ts:99-169).
THEOREM PostsKeepTheirFiles == ServicesSpec => []FilesFollowThePost
<1>1. ASSUME PostsInv PROVE FilesFollowThePost
  <2>1. ASSUME NEW p \in PostIds, post[p].at = "live", NEW f \in post[p].blocks,
               upload[f] \notin {"failed", "unrecorded"}, f \notin doubled, ~Publishing!Beyond(p)
        PROVE  f \in postStored /\ postRow[f] # "absent"
    <3>1. f \in Files /\ Published(f, p)
      BY <1>1, <2>1 DEF PostsInv, Publishing!TypeOK, Published
    <3>2. upload[f] = "ok" /\ postRow[f] # "absent"
      BY <1>1, <2>1, <3>1 DEF PostsInv, UploadsFit, Settled
    <3>3. GoneWithIt(f) /\ InOnePost(f)
      BY <1>1, <2>1, <3>1 DEF PostsInv, FilesOwned
    <3>4. f \in postStored
      BY <2>1, <3>1, <3>2, <3>3 DEF GoneWithIt, InOnePost
    <3> QED
      BY <3>2, <3>4
  <2>2. ASSUME NEW p \in PostIds, post[p].at = "deleted", NEW f \in Files, postRow[f] = p,
               f \in postStored
        PROVE  f \in left \cup late
    BY <1>1, <2>2 DEF PostsInv, LeftKnown
  <2> QED
    BY <2>1, <2>2 DEF FilesFollowThePost, Publishing!FilesFollowThePost
<1> QED
  BY <1>1, PostsInvariant, PTL

-----------------------------------------------------------------------------
(* Web push on a device that two trainees share.                           *)

\* The places of the pushes and of the two flows of push-client.
PushPlaces ==
  /\ pushMade \in Nat
  /\ push \in [Pushes -> [at : {"unused", "finding", "sending", "pruning", "done"},
                          to : Pushing!Persons, found : SUBSET Pushing!Targets]]
  /\ \A p \in Pushes : push[p].at = "finding" => push[p].to \in Accounts
  /\ \A e \in Pushing!Endpoints : pushRow[e].of \in Accounts => pushRow[e].id # 0
  /\ \A e \in Pushing!Endpoints : e > pushMade => pushRow[e] = Pushing!NoRow
  /\ endpoint <= pushMade
  /\ ensuring.at = "posting" => ensuring.e \in 1..pushMade
  /\ pushLeaving \in {"deleting", "unsubscribing"} => endpoint # Pushing!None

\* The row of the device's own endpoint is of who is signed in, or the endpoint
\* is known to have outlived its owner.
OwnEndpoint == endpoint # Pushing!None =>
  pushRow[endpoint].of \in {Pushing!Nobody, signedIn} \/ endpoint \in kept

\* Rows read too late for their owner are never of the device's endpoint: the
\* browser makes a new one for the next.
ReadLate == \A p \in Pushes : \A t \in push[p].found :
  t.e <= pushMade /\ (t.early \/ t.e # endpoint)
ShownEarly == \A s \in pushShown : s.early

PushInv == Pushing!TypeOK /\ PushPlaces /\ OwnEndpoint /\ ReadLate /\ ShownEarly

LEMMA PushBounds ==
  /\ MaxEndpoints \in Nat /\ MaxRows \in Nat /\ Pushing!Nobody \notin Accounts
  /\ Pushing!Endpoints \subseteq Nat \ {0} /\ Pushing!None = 0
<1>1. MaxEndpoints \in Nat /\ MaxRows \in Nat
  BY ServicesAssumption DEF ServicesAssumption
<1>2. Pushing!Nobody \notin Accounts
  BY ServicesAssumption, Zenon DEF ServicesAssumption, Pushing!Nobody
<1> QED
  BY <1>1, <1>2 DEF Pushing!Endpoints, Pushing!None

LEMMA InitPush == Pushing!Init => PushInv
<1> SUFFICES ASSUME Pushing!Init PROVE PushInv
  OBVIOUS
<1>1. Pushing!TypeOK
  BY PushBounds DEF Pushing!Init, Pushing!TypeOK, Pushing!Persons, Pushing!NotEnsuring,
     Pushing!NoRow, Pushing!Unsent, Pushing!None
<1>2. push \in [Pushes -> [at : {"unused", "finding", "sending", "pruning", "done"},
                          to : Pushing!Persons, found : SUBSET Pushing!Targets]]
  BY DEF Pushing!Init, Pushing!Unsent, Pushing!Persons
<1>3. PushPlaces
  BY <1>2, PushBounds DEF Pushing!Init, PushPlaces, Pushing!NotEnsuring, Pushing!NoRow,
     Pushing!Unsent, Pushing!None, Pushing!Endpoints
<1>4. OwnEndpoint /\ ReadLate /\ ShownEarly
  BY DEF Pushing!Init, OwnEndpoint, ReadLate, ShownEarly, Pushing!Unsent
<1> QED
  BY <1>1, <1>3, <1>4 DEF PushInv

\* ensurePushSubscription up to its POST.
LEMMA EnsurePush ==
  ASSUME PushInv,
         \/ Pushing!Subscribe \/ Pushing!Focus
         \/ \E u \in Accounts : Pushing!Login(u)
         \/ \E ok \in BOOLEAN : Pushing!Ensure(ok) \/ Pushing!Answer(ok)
  PROVE  PushInv'
<1> USE PushBounds DEF PushInv
<1>1. ASSUME Pushing!Subscribe PROVE PushInv'
  <2>1. /\ ensuring.at = "subscribing"
        /\ \/ endpoint # 0 /\ endpoint' = endpoint /\ pushMade' = pushMade
           \/ /\ endpoint = 0 /\ pushMade < MaxEndpoints
              /\ pushMade' = pushMade + 1 /\ endpoint' = pushMade'
        /\ ensuring' = [ensuring EXCEPT !.at = "posting", !.e = endpoint']
        /\ UNCHANGED <<signedIn, permission, focused, rows, pushRow, pushLeaving, push,
                       pushShown, kept>>
    BY <1>1 DEF Pushing!Subscribe
  <2>2. /\ endpoint' \in 1..pushMade' /\ pushMade' \in 0..MaxEndpoints /\ pushMade \in Nat
        /\ pushMade <= pushMade' /\ endpoint \in Nat
        /\ endpoint' # endpoint => endpoint' > pushMade
    BY <2>1 DEF PushPlaces, Pushing!TypeOK, Pushing!Endpoints
  <2>a. endpoint' \in Pushing!Endpoints
    BY <2>2 DEF Pushing!Endpoints
  <2>3. /\ ensuring'.e = endpoint' /\ endpoint' \in Pushing!Endpoints
        /\ ensuring' \in [at : {"idle", "asking", "subscribing", "posting"},
                          as : Pushing!Persons, e : Pushing!Endpoints \cup {Pushing!None}]
    BY <2>1, <2>a DEF Pushing!TypeOK
  <2>4. Pushing!TypeOK'
    BY <2>1, <2>2, <2>3 DEF Pushing!TypeOK
  <2>5. PushPlaces'
    BY <2>1, <2>2, <2>3 DEF PushPlaces
  <2>6. OwnEndpoint'
    BY <2>1, <2>2, <2>3 DEF OwnEndpoint, PushPlaces, Pushing!NoRow
  <2>7. ReadLate'
    <3> SUFFICES ASSUME NEW p \in Pushes, NEW t \in push[p].found
                 PROVE  t.e <= pushMade' /\ (t.early \/ t.e # endpoint')
      BY <2>1 DEF ReadLate
    <3>1. t.e \in Nat
      BY DEF Pushing!TypeOK, Pushing!Targets
    <3> QED
      BY <2>2, <3>1 DEF ReadLate
  <2> QED
    BY <2>1, <2>4, <2>5, <2>6, <2>7 DEF ShownEarly
<1>2. ASSUME Pushing!Focus PROVE PushInv'
  BY <1>2 DEF Pushing!Focus, Pushing!TypeOK, PushPlaces, OwnEndpoint, ReadLate, ShownEarly
<1>3. ASSUME NEW u \in Accounts, Pushing!Login(u) PROVE PushInv'
  BY <1>3 DEF Pushing!Login, Pushing!browser, Pushing!TypeOK, Pushing!Persons, PushPlaces,
     OwnEndpoint, ReadLate, ShownEarly
<1>4. ASSUME NEW asks \in BOOLEAN, Pushing!Ensure(asks) PROVE PushInv'
  BY <1>4 DEF Pushing!Ensure, Pushing!browser, Pushing!TypeOK, PushPlaces, OwnEndpoint,
     ReadLate, ShownEarly
<1>5. ASSUME NEW yes \in BOOLEAN, Pushing!Answer(yes) PROVE PushInv'
  <2>1. /\ permission' \in {"default", "granted", "denied"}
        /\ ensuring'.at \in {"idle", "subscribing"}
        /\ ensuring' \in [at : {"idle", "asking", "subscribing", "posting"},
                          as : Pushing!Persons, e : Pushing!Endpoints \cup {Pushing!None}]
        /\ UNCHANGED <<signedIn, endpoint, pushMade, focused, rows, pushRow, pushLeaving, push,
                       pushShown, kept>>
    BY <1>5 DEF Pushing!Answer, Pushing!TypeOK, Pushing!NotEnsuring, Pushing!Persons
  <2> QED
    BY <2>1 DEF Pushing!TypeOK, PushPlaces, OwnEndpoint, ReadLate, ShownEarly
<1> QED
  BY <1>1, <1>2, <1>3, <1>4, <1>5

\* POST /push/subscribe gives the row to who is signed in at that time.
LEMMA PostPush ==
  ASSUME PushInv, NEW ok \in BOOLEAN, Pushing!PostSubscription(ok)
  PROVE  PushInv'
<1> USE PushBounds DEF PushInv
<1> DEFINE e == ensuring.e
<1>1. /\ ensuring.at = "posting" /\ ensuring' = Pushing!NotEnsuring
      /\ UNCHANGED <<signedIn, permission, endpoint, pushMade, focused, pushLeaving, push,
                     pushShown>>
  BY DEF Pushing!PostSubscription, Pushing!browser
<1>2. /\ e \in Pushing!Endpoints /\ e \in 1..pushMade
      /\ rows \in Nat /\ pushRow[e] \in [of : Pushing!Persons, id : 0..MaxRows]
  BY <1>1 DEF PushPlaces, Pushing!TypeOK, Pushing!Endpoints
<1>3. \/ UNCHANGED <<rows, pushRow, kept>>
      \/ /\ signedIn # Pushing!Nobody /\ kept' = kept \ {e}
         /\ \/ /\ rows < MaxRows /\ rows' = rows + 1
               /\ pushRow' = [pushRow EXCEPT ![e] = [of |-> signedIn, id |-> rows']]
            \/ /\ pushRow[e] # Pushing!NoRow /\ rows' = rows
               /\ pushRow' = [pushRow EXCEPT ![e].of = signedIn]
  BY DEF Pushing!PostSubscription
<1>4. ensuring'.at = "idle" /\
      ensuring' \in [at : {"idle", "asking", "subscribing", "posting"},
                     as : Pushing!Persons, e : Pushing!Endpoints \cup {Pushing!None}]
  BY <1>1 DEF Pushing!NotEnsuring, Pushing!Persons
<1> HIDE DEF e
<1>5. CASE UNCHANGED <<rows, pushRow, kept>>
  BY <1>1, <1>4, <1>5 DEF Pushing!TypeOK, PushPlaces, OwnEndpoint, ReadLate, ShownEarly
<1>6. ASSUME signedIn # Pushing!Nobody, kept' = kept \ {e},
             pushRow' \in [Pushing!Endpoints -> [of : Pushing!Persons, id : 0..MaxRows]],
             pushRow'[e].of = signedIn, pushRow'[e].id # 0,
             \A x \in Pushing!Endpoints : x # e => pushRow'[x] = pushRow[x],
             rows' \in 0..MaxRows
      PROVE  PushInv'
  <2>1. Pushing!TypeOK'
    BY <1>1, <1>4, <1>6 DEF Pushing!TypeOK
  <2>a. \A x \in Pushing!Endpoints : /\ pushRow'[x].of \in Accounts => pushRow'[x].id # 0
                                     /\ x > pushMade => pushRow'[x] = Pushing!NoRow
    BY <1>2, <1>6 DEF PushPlaces
  <2>2. PushPlaces'
    BY <1>1, <1>4, <2>a DEF PushPlaces
  <2>3. OwnEndpoint'
    BY <1>1, <1>2, <1>6 DEF OwnEndpoint, Pushing!TypeOK
  <2> QED
    BY <1>1, <2>1, <2>2, <2>3 DEF ReadLate, ShownEarly
<1>7. CASE /\ signedIn # Pushing!Nobody /\ kept' = kept \ {e}
           /\ rows < MaxRows /\ rows' = rows + 1
           /\ pushRow' = [pushRow EXCEPT ![e] = [of |-> signedIn, id |-> rows']]
  <2>1. rows' \in 1..MaxRows /\ signedIn \in Pushing!Persons
    BY <1>2, <1>7 DEF Pushing!TypeOK
  <2> QED
    BY <1>2, <1>6, <1>7, <2>1 DEF Pushing!TypeOK
<1>8. CASE /\ signedIn # Pushing!Nobody /\ kept' = kept \ {e} /\ rows' = rows
           /\ pushRow[e] # Pushing!NoRow
           /\ pushRow' = [pushRow EXCEPT ![e].of = signedIn]
  <2>1. pushRow[e].id # 0
    BY <1>2, <1>8 DEF PushPlaces, Pushing!NoRow, Pushing!Persons
  <2> QED
    BY <1>2, <1>6, <1>8, <2>1 DEF Pushing!TypeOK
<1> QED
  BY <1>3, <1>5, <1>7, <1>8

\* handleLogout, and a session that ends without it.
LEMMA LeavePush ==
  ASSUME PushInv,
         \/ Pushing!Logout \/ Pushing!ClearTokens \/ Pushing!SessionEnds
         \/ \E ok \in BOOLEAN : Pushing!DeleteSubscription(ok) \/ Pushing!Unsubscribe(ok)
  PROVE  PushInv'
<1> USE PushBounds DEF PushInv
<1>1. ASSUME Pushing!Logout PROVE PushInv'
  BY <1>1 DEF Pushing!Logout, Pushing!browser, Pushing!TypeOK, PushPlaces, OwnEndpoint,
     ReadLate, ShownEarly
<1>2. ASSUME Pushing!ClearTokens \/ Pushing!SessionEnds PROVE PushInv'
  <2>1. /\ signedIn' = Pushing!Nobody /\ pushLeaving' = "no"
        /\ ensuring' \in {ensuring, Pushing!NotEnsuring}
        /\ kept' = IF endpoint = 0 THEN kept ELSE kept \cup {endpoint}
        /\ UNCHANGED <<permission, endpoint, pushMade, focused, rows, pushRow, push, pushShown>>
    BY <1>2 DEF Pushing!ClearTokens, Pushing!SessionEnds, Pushing!browser
  <2>2. /\ ensuring' \in [at : {"idle", "asking", "subscribing", "posting"},
                          as : Pushing!Persons, e : Pushing!Endpoints \cup {Pushing!None}]
        /\ ensuring'.at = "posting" => ensuring' = ensuring
    BY <2>1 DEF Pushing!NotEnsuring, Pushing!Persons, Pushing!TypeOK
  <2>3. Pushing!TypeOK'
    BY <2>1, <2>2 DEF Pushing!TypeOK, Pushing!Persons
  <2> QED
    BY <2>1, <2>2, <2>3 DEF PushPlaces, OwnEndpoint, ReadLate, ShownEarly
<1>3. ASSUME NEW ok \in BOOLEAN, Pushing!DeleteSubscription(ok) PROVE PushInv'
  <2>1. /\ pushLeaving = "deleting" /\ pushLeaving' = "unsubscribing"
        /\ pushRow' \in {pushRow, [pushRow EXCEPT ![endpoint] = Pushing!NoRow]}
        /\ UNCHANGED <<signedIn, permission, endpoint, pushMade, focused, rows, ensuring, push,
                       pushShown, kept>>
    BY <1>3 DEF Pushing!DeleteSubscription, Pushing!browser
  <2>2. endpoint \in Pushing!Endpoints
    BY <2>1 DEF PushPlaces, Pushing!TypeOK
  <2>3. /\ pushRow' \in [Pushing!Endpoints -> [of : Pushing!Persons, id : 0..MaxRows]]
        /\ \A e \in Pushing!Endpoints : pushRow'[e] \in {pushRow[e], Pushing!NoRow}
    BY <2>1, <2>2 DEF Pushing!TypeOK, Pushing!NoRow, Pushing!Persons
  <2>4. Pushing!TypeOK'
    BY <2>1, <2>3 DEF Pushing!TypeOK
  <2>5. PushPlaces'
    BY <2>1, <2>3 DEF PushPlaces, Pushing!NoRow
  <2>6. OwnEndpoint'
    BY <2>1, <2>2, <2>3 DEF OwnEndpoint, Pushing!NoRow
  <2> QED
    BY <2>1, <2>4, <2>5, <2>6 DEF ReadLate, ShownEarly
<1>4. ASSUME NEW ok \in BOOLEAN, Pushing!Unsubscribe(ok) PROVE PushInv'
  <2>1. /\ pushLeaving = "unsubscribing" /\ pushLeaving' = "clearing"
        /\ endpoint' = IF ok THEN 0 ELSE endpoint
        /\ kept' = IF ok THEN kept ELSE kept \cup {endpoint}
        /\ UNCHANGED <<signedIn, permission, pushMade, focused, rows, pushRow, ensuring, push,
                       pushShown>>
    BY <1>4 DEF Pushing!Unsubscribe
  <2>2. endpoint \in Pushing!Endpoints
    BY <2>1 DEF PushPlaces, Pushing!TypeOK
  <2>3. Pushing!TypeOK'
    BY <2>1, <2>2 DEF Pushing!TypeOK
  <2>4. PushPlaces'
    BY <2>1 DEF PushPlaces
  <2>5. OwnEndpoint'
    BY <2>1 DEF OwnEndpoint
  <2>6. ReadLate'
    <3> SUFFICES ASSUME NEW p \in Pushes, NEW t \in push[p].found
                 PROVE  t.e <= pushMade /\ (t.early \/ t.e # endpoint')
      BY <2>1 DEF ReadLate
    <3>1. t.e \in Pushing!Endpoints
      BY DEF Pushing!TypeOK, Pushing!Targets
    <3> QED
      BY <2>1, <3>1 DEF ReadLate
  <2> QED
    BY <2>1, <2>3, <2>4, <2>5, <2>6 DEF ShownEarly
<1> QED
  BY <1>1, <1>2, <1>3, <1>4

\* A push reads the rows of its recipient.  Were the device's own endpoint among
\* them with the recipient gone, it would be one that outlived its owner.
LEMMA FindPush ==
  ASSUME PushInv, NEW p \in Pushes, \/ Pushing!Find(p)
                                    \/ \E u \in Accounts : Pushing!Notify(p, u)
  PROVE  PushInv'
<1> USE PushBounds DEF PushInv
<1>1. ASSUME NEW u \in Accounts, Pushing!Notify(p, u) PROVE PushInv'
  <2>1. /\ push' = [push EXCEPT ![p] = [Pushing!Unsent EXCEPT !.at = "finding", !.to = u]]
        /\ UNCHANGED <<signedIn, permission, endpoint, pushMade, focused, rows, pushRow,
                       ensuring, pushLeaving, pushShown, kept>>
    BY <1>1 DEF Pushing!Notify, Pushing!browser
  <2>2. /\ push' \in [Pushes -> [at : {"unused", "finding", "sending", "pruning", "done"},
                                 to : Pushing!Persons, found : SUBSET Pushing!Targets]]
        /\ push'[p].to = u /\ push'[p].found = {}
        /\ \A q \in Pushes : q # p => push'[q] = push[q]
    BY <2>1 DEF PushPlaces, Pushing!Unsent, Pushing!Persons
  <2>3. Pushing!TypeOK'
    BY <2>1, <2>2 DEF Pushing!TypeOK
  <2>4. PushPlaces'
    BY <2>1, <2>2 DEF PushPlaces
  <2> QED
    BY <2>1, <2>2, <2>3, <2>4 DEF OwnEndpoint, ReadLate, ShownEarly
<1>2. ASSUME Pushing!Find(p) PROVE PushInv'
  <2> DEFINE of == {x \in Pushing!Endpoints : pushRow[x].of = push[p].to}
             target(e) == [e |-> e, id |-> pushRow[e].id,
                           early |-> signedIn = push[p].to \/ e \in kept]
             found == {target(e) : e \in of}
  <2>1. /\ push[p].at = "finding"
        /\ push' = [push EXCEPT ![p].at = "sending", ![p].found = found]
        /\ UNCHANGED <<signedIn, permission, endpoint, pushMade, focused, rows, pushRow,
                       ensuring, pushLeaving, pushShown, kept>>
    BY <1>2 DEF Pushing!Find, Pushing!browser
  <2>2. push[p].to \in Accounts /\ push[p].to # Pushing!Nobody
    BY <2>1 DEF PushPlaces
  <2>3. ASSUME NEW e \in of
        PROVE  target(e) \in Pushing!Targets /\ target(e).e <= pushMade
               /\ (target(e).early \/ target(e).e # endpoint)
    <3>1. e \in Pushing!Endpoints /\ pushRow[e].of = push[p].to
      OBVIOUS
    <3>2. pushRow[e].id \in 1..MaxRows
      BY <2>2, <3>1 DEF PushPlaces, Pushing!TypeOK
    <3>3. target(e) \in Pushing!Targets
      BY <3>1, <3>2 DEF Pushing!Targets
    <3>4. e <= pushMade
      BY <2>2, <3>1 DEF PushPlaces, Pushing!NoRow
    <3>5. e = endpoint => signedIn = push[p].to \/ e \in kept
      BY <2>2, <3>1 DEF OwnEndpoint
    <3> QED
      BY <3>3, <3>4, <3>5
  <2>4. found \subseteq Pushing!Targets /\ \A t \in found : t.e <= pushMade /\ (t.early \/ t.e # endpoint)
    BY <2>3
  <2> HIDE DEF found
  <2>5. /\ push' \in [Pushes -> [at : {"unused", "finding", "sending", "pruning", "done"},
                                 to : Pushing!Persons, found : SUBSET Pushing!Targets]]
        /\ push'[p].at = "sending" /\ push'[p].found = found
        /\ \A q \in Pushes : q # p => push'[q] = push[q]
    BY <2>1, <2>4 DEF PushPlaces
  <2>6. Pushing!TypeOK'
    BY <2>1, <2>5 DEF Pushing!TypeOK
  <2>7. PushPlaces'
    BY <2>1, <2>5 DEF PushPlaces
  <2>8. ReadLate'
    BY <2>1, <2>4, <2>5 DEF ReadLate
  <2> QED
    BY <2>1, <2>6, <2>7, <2>8 DEF OwnEndpoint, ShownEarly
<1> QED
  BY <1>1, <1>2

LEMMA SendPush == ASSUME PushInv, NEW p \in Pushes, Pushing!Send(p) PROVE PushInv'
<1> USE PushBounds DEF PushInv
<1> DEFINE live == {t \in push[p].found : t.e = endpoint}
           show(t) == [to |-> push[p].to, early |-> t.early, e |-> t.e, user |-> signedIn]
<1>1. /\ pushShown' = IF focused THEN pushShown ELSE pushShown \cup {show(t) : t \in live}
      /\ push' = [push EXCEPT ![p].at = "pruning", ![p].found = @ \ live]
      /\ UNCHANGED <<signedIn, permission, endpoint, pushMade, focused, rows, pushRow, ensuring,
                     pushLeaving, kept>>
  BY DEF Pushing!Send, Pushing!browser
<1>2. push[p].found \subseteq Pushing!Targets /\ push[p].to \in Pushing!Persons
  BY DEF Pushing!TypeOK
<1>3. ASSUME NEW t \in live
      PROVE  /\ show(t).early
             /\ show(t) \in [to : Pushing!Persons, early : BOOLEAN, e : Pushing!Endpoints,
                             user : Pushing!Persons]
  <2>1. t \in Pushing!Targets /\ t.e = endpoint /\ t.early
    BY <1>2 DEF ReadLate
  <2>2. t.e \in Pushing!Endpoints /\ t.early \in BOOLEAN /\ signedIn \in Pushing!Persons
    BY <2>1 DEF Pushing!Targets, Pushing!TypeOK
  <2> QED
    BY <1>2, <2>1, <2>2
<1>4. /\ push' \in [Pushes -> [at : {"unused", "finding", "sending", "pruning", "done"},
                               to : Pushing!Persons, found : SUBSET Pushing!Targets]]
      /\ push'[p].at = "pruning" /\ push'[p].found \subseteq push[p].found
      /\ \A q \in Pushes : q # p => push'[q] = push[q]
  BY <1>1, <1>2 DEF PushPlaces
<1>5. pushShown' \subseteq [to : Pushing!Persons, early : BOOLEAN, e : Pushing!Endpoints,
                          user : Pushing!Persons]
      /\ ShownEarly'
  BY <1>1, <1>3 DEF ShownEarly, Pushing!TypeOK
<1> HIDE DEF live
<1>6. Pushing!TypeOK'
  BY <1>1, <1>4, <1>5 DEF Pushing!TypeOK
<1>7. PushPlaces'
  BY <1>1, <1>4 DEF PushPlaces
<1> QED
  BY <1>1, <1>4, <1>5, <1>6, <1>7 DEF OwnEndpoint, ReadLate

LEMMA PrunePush == ASSUME PushInv, NEW p \in Pushes, Pushing!Prune(p) PROVE PushInv'
<1> USE PushBounds DEF PushInv
<1>1. /\ pushRow' = [e \in Pushing!Endpoints |->
           IF \E t \in push[p].found : t.id = pushRow[e].id THEN Pushing!NoRow ELSE pushRow[e]]
      /\ push' = [push EXCEPT ![p] = [Pushing!Unsent EXCEPT !.at = "done"]]
      /\ UNCHANGED <<signedIn, permission, endpoint, pushMade, focused, rows, ensuring,
                     pushLeaving, pushShown, kept>>
  BY DEF Pushing!Prune, Pushing!browser
<1>2. /\ pushRow' \in [Pushing!Endpoints -> [of : Pushing!Persons, id : 0..MaxRows]]
      /\ \A e \in Pushing!Endpoints : pushRow'[e] \in {pushRow[e], Pushing!NoRow}
  BY <1>1 DEF Pushing!TypeOK, Pushing!NoRow, Pushing!Persons
<1>3. /\ push' \in [Pushes -> [at : {"unused", "finding", "sending", "pruning", "done"},
                               to : Pushing!Persons, found : SUBSET Pushing!Targets]]
      /\ push'[p].at = "done" /\ push'[p].found = {}
      /\ \A q \in Pushes : q # p => push'[q] = push[q]
  BY <1>1 DEF PushPlaces, Pushing!Unsent, Pushing!Persons
<1>4. Pushing!TypeOK'
  BY <1>1, <1>2, <1>3 DEF Pushing!TypeOK
<1>5. PushPlaces'
  BY <1>1, <1>2, <1>3 DEF PushPlaces, Pushing!NoRow
<1>6. OwnEndpoint'
  BY <1>1, <1>2 DEF OwnEndpoint, Pushing!NoRow, Pushing!TypeOK
<1> QED
  BY <1>1, <1>3, <1>4, <1>5, <1>6 DEF ReadLate, ShownEarly

LEMMA NextPush == PushInv /\ [Pushing!Next]_pushVars => PushInv'
<1> SUFFICES ASSUME PushInv, [Pushing!Next]_pushVars PROVE PushInv'
  OBVIOUS
<1>1. ASSUME UNCHANGED pushVars PROVE PushInv'
  BY <1>1, Zenon DEF pushVars, PushInv, Pushing!TypeOK, PushPlaces, OwnEndpoint, ReadLate,
     ShownEarly
<1>2. ASSUME Pushing!Next PROVE PushInv'
  BY <1>2, EnsurePush, PostPush, LeavePush, FindPush, SendPush, PrunePush DEF Pushing!Next
<1> QED
  BY <1>1, <1>2

LEMMA PushSteps == [ServicesNext]_servicesVars => [Pushing!Next]_pushVars
BY DEF ServicesNext, servicesVars, pushVars, Others

\* Whose row the device's endpoint has, and what rows were read, at every await
\* of the subscription, the logout and the pushes (push-client.ts:43-86,
\* push.service.ts:26-110).
THEOREM PushInvariant == ServicesSpec => []PushInv
<1>1. ServicesInit => PushInv
  BY InitPush DEF ServicesInit
<1>2. PushInv /\ [ServicesNext]_servicesVars => PushInv'
  BY NextPush, PushSteps
<1> QED
  BY <1>1, <1>2, PTL DEF ServicesSpec

\* A device shows a push to somebody else than its recipient only if its rows
\* were read before the recipient left, or its endpoint outlived its owner's
\* session, for any accounts, endpoints and pushes (push-client.ts:43-86,
\* push.service.ts:52-65).
THEOREM PushesReachTheirOwner == ServicesSpec => []ShownToItsOwner
<1>1. PushInv => ShownToItsOwner
  BY DEF PushInv, ShownEarly, ShownToItsOwner, Pushing!ShownToItsOwner
<1> QED
  BY <1>1, PushInvariant, PTL

-----------------------------------------------------------------------------
(* The client's diagnostics.                                               *)

DiagFit ==
  /\ seq \in 0..MaxEvents
  /\ buf \in Seq(Events!Ids) /\ Len(buf) <= MaxBuffer /\ In(buf) \subseteq 1..seq
  /\ diagStored \in [Events!Ids -> {"absent", "unsent", "received"}]
  /\ diagWire \subseteq Events!Messages
  /\ writes \subseteq Events!Ids /\ logged \subseteq Events!Ids
  /\ dropped \subseteq Events!Ids /\ pruned \subseteq Events!Ids

\* A batch of the flush holds all of the buffer up to its last event, whatever
\* was recorded since; and only what the server has logged is acknowledged.
BatchFits(m) ==
  /\ m.from = "flush" =>
       /\ m.ids \subseteq 1..seq
       /\ \A e \in In(buf) : e \in m.ids \/ \A i \in m.ids : e > i
  /\ m.ack = "ok" => m.ids \subseteq logged
BatchesFit == \A m \in diagWire : BatchFits(m)
ReceivedIsLogged == \A e \in Events!Ids : diagStored[e] = "received" => e \in logged
EventKept(e) ==
  /\ e \in In(buf) \cup dropped
  /\ e \in writes \cup pruned \/ diagStored[e] = "unsent"
EventsKept == \A e \in 1..seq : e \notin logged => EventKept(e)

DiagInv == DiagFit /\ BatchesFit /\ ReceivedIsLogged /\ EventsKept

LEMMA DiagBounds == MaxEvents \in Nat /\ MaxBuffer \in Nat \ {0}
BY ServicesAssumption DEF ServicesAssumption

\* The elements of the buffer, as the module writes them.
LEMMA BufferSet == \A s \in Seq(Events!Ids) : Events!ToSet(s) = In(s)
<1>1. \A s \in Seq(Events!Ids) : DOMAIN s = 1..Len(s)
  OBVIOUS
<1> QED
  BY <1>1 DEF Events!ToSet, In

LEMMA InitDiag == Events!Init => DiagInv
<1> SUFFICES ASSUME Events!Init PROVE DiagInv
  OBVIOUS
<1> USE DiagBounds
<1>0. In(<<>>) = {}
  BY OneElement
<1>1. <<>> \in Seq(Events!Ids) /\ Len(<<>>) = 0
  OBVIOUS
<1>2. DiagFit
  BY <1>0, <1>1 DEF Events!Init, DiagFit
<1>3. BatchesFit /\ ReceivedIsLogged /\ EventsKept
  BY DEF Events!Init, BatchesFit, ReceivedIsLogged, EventsKept
<1> QED
  BY <1>2, <1>3 DEF DiagInv

\* The ring buffer lets go of its first event only when it is full.
RingMoves(b, e, c, falls) ==
  \/ Len(b) < MaxBuffer /\ c = Append(b, e) /\ falls = {}
  \/ Len(b) = MaxBuffer /\ c = Tail(Append(b, e)) /\ falls = {Head(Append(b, e))}
  \/ Len(b) = MaxBuffer /\ c = Append(Tail(b), e) /\ falls = {Head(b)}

LEMMA RingStep ==
  ASSUME NEW E, NEW b \in Seq(E), NEW e \in E, NEW c, NEW falls, RingMoves(b, e, c, falls)
  PROVE  /\ c \in Seq(E) /\ Len(c) <= MaxBuffer /\ In(c) \subseteq In(b) \cup {e}
         /\ In(b) \cup {e} \subseteq In(c) \cup falls /\ falls \subseteq In(b) \cup {e}
<1> USE DiagBounds
<1> DEFINE longer == Append(b, e)
<1>1. longer \in Seq(E) /\ Len(longer) = Len(b) + 1 /\ longer # <<>> /\ Len(b) \in Nat
  BY AppendProperties, LenProperties
<1>2. In(longer) = In(b) \cup {e}
  BY AppendedElements
<1>3. ASSUME NEW s \in Seq(E), s # <<>>
      PROVE  /\ Tail(s) \in Seq(E) /\ Len(Tail(s)) = Len(s) - 1
             /\ In(s) = {Head(s)} \cup In(Tail(s))
  BY <1>3, HeadTailProperties, FirstAndRest
<1> HIDE DEF longer
<1>4. CASE Len(b) < MaxBuffer /\ c = longer /\ falls = {}
  BY <1>1, <1>2, <1>4
<1>5. CASE Len(b) = MaxBuffer /\ c = Tail(longer) /\ falls = {Head(longer)}
  <2>1. /\ c \in Seq(E) /\ Len(c) = Len(longer) - 1
        /\ In(longer) = {Head(longer)} \cup In(c)
    BY <1>1, <1>3, <1>5
  <2> QED
    BY <1>1, <1>2, <1>5, <2>1
<1>6. CASE Len(b) = MaxBuffer /\ c = Append(Tail(b), e) /\ falls = {Head(b)}
  <2> DEFINE rest == Tail(b)
  <2>1. b # <<>>
    BY <1>6
  <2>2. rest \in Seq(E) /\ Len(rest) = Len(b) - 1 /\ In(b) = {Head(b)} \cup In(rest)
    BY <1>3, <2>1
  <2>3. c = Append(rest, e)
    BY <1>6
  <2> HIDE DEF rest
  <2>4. c \in Seq(E) /\ Len(c) = Len(rest) + 1
    BY <2>2, <2>3, AppendProperties
  <2>5. In(Append(rest, e)) = In(rest) \cup {e}
    BY <2>2, AppendedElements
  <2>6. In(c) = In(rest) \cup {e}
    BY <2>3, <2>5
  <2>7. Len(c) <= MaxBuffer
    BY <1>1, <1>6, <2>2, <2>4
  <2> QED
    BY <1>6, <2>2, <2>4, <2>6, <2>7
<1> QED
  BY <1>4, <1>5, <1>6 DEF RingMoves, longer

\* An event is recorded: in the buffer, and in IndexedDB or known not to be.
LEMMA RecordStep ==
  ASSUME DiagInv, NEW falls, NEW e, e = seq + 1, e <= MaxEvents, seq' = e,
         RingMoves(buf, e, buf', falls), dropped' = dropped \cup falls,
         writes \cup pruned \cup {e} \subseteq writes' \cup pruned',
         writes' \subseteq Events!Ids, pruned' \subseteq Events!Ids,
         UNCHANGED <<diagStored, logged>>, diagWire' \subseteq diagWire
  PROVE  DiagInv'
<1> USE DiagBounds
<1>f. DiagFit
  BY DEF DiagInv
<1>1. e \in Events!Ids /\ e \in 1..seq' /\ 1..seq' = 1..seq \cup {e} /\ seq \in Nat /\ e \in Nat
  BY <1>f DEF DiagFit, Events!Ids
<1>2. /\ buf' \in Seq(Events!Ids) /\ Len(buf') <= MaxBuffer
      /\ In(buf') \subseteq In(buf) \cup {e}
      /\ In(buf) \cup {e} \subseteq In(buf') \cup falls /\ falls \subseteq In(buf) \cup {e}
  BY <1>f, <1>1, RingStep DEF DiagFit
<1>3. In(buf) \subseteq Events!Ids
  BY <1>f, <1>1 DEF DiagFit, Events!Ids
<1>4. DiagFit'
  <2>1. seq' \in 0..MaxEvents
    BY <1>1
  <2>2. In(buf') \subseteq 1..seq'
    BY <1>f, <1>1, <1>2 DEF DiagFit
  <2>3. dropped' \subseteq Events!Ids
    BY <1>f, <1>1, <1>2, <1>3 DEF DiagFit
  <2>4. /\ diagStored' \in [Events!Ids -> {"absent", "unsent", "received"}]
        /\ diagWire' \subseteq Events!Messages /\ logged' \subseteq Events!Ids
    BY <1>f DEF DiagFit
  <2> QED
    BY <1>2, <2>1, <2>2, <2>3, <2>4 DEF DiagFit
<1>5. ASSUME NEW m \in diagWire PROVE BatchFits(m)'
  <2>1. BatchFits(m)
    BY DEF DiagInv, BatchesFit
  <2>2. m.from = "flush" =>
          m.ids \subseteq 1..seq' /\ \A x \in In(buf') : x \in m.ids \/ \A i \in m.ids : x > i
    <3> SUFFICES ASSUME m.from = "flush", NEW x \in In(buf')
                 PROVE  m.ids \subseteq 1..seq' /\ (x \in m.ids \/ \A i \in m.ids : x > i)
      BY <1>1, <2>1 DEF BatchFits
    <3>1. m.ids \subseteq 1..seq
      BY <2>1 DEF BatchFits
    <3>2. CASE x \in In(buf)
      BY <1>1, <2>1, <3>1, <3>2 DEF BatchFits
    <3>3. CASE x = e
      BY <1>1, <3>1, <3>3
    <3> QED
      BY <1>2, <3>2, <3>3
  <2> QED
    BY <2>1, <2>2 DEF BatchFits
<1>6. BatchesFit' /\ ReceivedIsLogged'
  BY <1>5 DEF BatchesFit, DiagInv, ReceivedIsLogged
<1>7. EventsKept'
  <2> SUFFICES ASSUME NEW x \in 1..seq', x \notin logged' PROVE EventKept(x)'
    BY DEF EventsKept
  <2>1. CASE x \in 1..seq
    <3>1. EventKept(x)
      BY <2>1 DEF DiagInv, EventsKept
    <3> QED
      BY <1>2, <3>1 DEF EventKept
  <2>2. CASE x = e
    BY <1>2, <2>2 DEF EventKept
  <2> QED
    BY <1>1, <2>1, <2>2
<1> QED
  BY <1>4, <1>6, <1>7 DEF DiagInv

\* record, connect, disconnect, pagehide and pageshow.
LEMMA RecordedSteps ==
  ASSUME DiagInv, \/ Events!Record \/ Events!Connect \/ Events!Disconnect
                  \/ \E on \in BOOLEAN : Events!HidePage(on)
  PROVE  DiagInv'
<1> USE DiagBounds
<1> DEFINE e == seq + 1
           longer == Append(buf, e)
           falls == IF Len(longer) > MaxBuffer THEN {Head(longer)} ELSE {}
<1>1. /\ seq < MaxEvents /\ seq' = e
      /\ buf' = IF Len(longer) > MaxBuffer THEN Tail(longer) ELSE longer
      /\ dropped' = IF Len(longer) > MaxBuffer THEN dropped \cup {Head(longer)} ELSE dropped
      /\ writes' = writes \cup {e} /\ UNCHANGED pruned
  BY DEF Events!Record, Events!Connect, Events!Disconnect, Events!HidePage, Events!Recorded
<1>2. UNCHANGED <<diagStored, logged>> /\ diagWire' \subseteq diagWire
  BY DEF Events!Record, Events!Connect, Events!Disconnect, Events!HidePage, Events!delivery
<1>3. /\ seq \in 0..MaxEvents /\ buf \in Seq(Events!Ids) /\ Len(buf) <= MaxBuffer
      /\ writes \subseteq Events!Ids /\ pruned \subseteq Events!Ids
  BY DEF DiagInv, DiagFit
<1>4. e \in Events!Ids /\ e <= MaxEvents
  BY <1>1, <1>3 DEF Events!Ids
<1>5. Len(longer) = Len(buf) + 1 /\ Len(buf) \in Nat
  BY <1>3, <1>4, AppendProperties, LenProperties
<1> HIDE DEF longer
<1>6. dropped' = dropped \cup falls
  BY <1>1
<1>7. \/ Len(buf) < MaxBuffer /\ buf' = longer /\ falls = {}
      \/ Len(buf) = MaxBuffer /\ buf' = Tail(longer) /\ falls = {Head(longer)}
  BY <1>1, <1>3, <1>5
<1> HIDE DEF falls
<1>8. RingMoves(buf, e, buf', falls)
  BY <1>7 DEF RingMoves, longer
<1> HIDE DEF e
<1>9. /\ writes \cup pruned \cup {e} \subseteq writes' \cup pruned'
      /\ writes' \subseteq Events!Ids /\ pruned' \subseteq Events!Ids
  BY <1>1, <1>3, <1>4
<1>10. e = seq + 1
  BY DEF e
<1> QED
  BY <1>1, <1>2, <1>4, <1>6, <1>8, <1>9, <1>10, RecordStep

\* Filtering, as the diagnostics use it.
LEMMA SameKept == ASSUME NEW l, NEW places PROVE Events!Kept(l, places) = Kept(l, places)
BY DEF Events!Kept, Kept

\* A write that ends, and one that fails: reported once, as an event of its own.
LEMMA PersistSteps ==
  ASSUME DiagInv, NEW e \in Events!Ids, Events!Persist(e) \/ Events!PersistFails(e)
  PROVE  DiagInv'
<1> USE DiagBounds
<1>f. DiagFit
  BY DEF DiagInv
<1>1. CASE Events!Persist(e)
  <2>1. /\ writes' = writes \ {e}
        /\ diagStored' = [diagStored EXCEPT ![e] = IF @ = "absent" THEN "unsent" ELSE @]
        /\ UNCHANGED <<seq, buf, diagWire, logged, dropped, pruned>>
    BY <1>1 DEF Events!Persist, Events!delivery
  <2>2. /\ diagStored' \in [Events!Ids -> {"absent", "unsent", "received"}]
        /\ diagStored'[e] \in {"unsent", diagStored[e]} \ {"absent"}
        /\ \A x \in Events!Ids : x # e => diagStored'[x] = diagStored[x]
    BY <1>f, <2>1 DEF DiagFit
  <2>3. DiagFit'
    BY <1>f, <2>1, <2>2 DEF DiagFit
  <2>4. BatchesFit' /\ ReceivedIsLogged'
    BY <2>1, <2>2 DEF DiagInv, BatchesFit, BatchFits, ReceivedIsLogged
  <2>5. EventsKept'
    <3> SUFFICES ASSUME NEW x \in 1..seq, x \notin logged PROVE EventKept(x)'
      BY <2>1 DEF EventsKept
    <3>1. EventKept(x) /\ x \in Events!Ids
      BY <1>f, DiagBounds DEF DiagInv, EventsKept, DiagFit, Events!Ids
    <3>2. diagStored[x] # "received"
      BY <3>1 DEF DiagInv, ReceivedIsLogged
    <3> QED
      BY <1>f, <2>1, <2>2, <3>1, <3>2 DEF EventKept, DiagFit
  <2> QED
    BY <2>3, <2>4, <2>5 DEF DiagInv
<1>2. CASE Events!PersistFails(e) /\ (reported \/ seq = MaxEvents)
  <2>1. /\ writes' = writes \ {e} /\ pruned' = pruned \cup {e}
        /\ UNCHANGED <<seq, buf, dropped, diagStored, diagWire, logged>>
    BY <1>2 DEF Events!PersistFails, Events!delivery
  <2>2. DiagFit'
    BY <1>f, <2>1 DEF DiagFit
  <2>3. BatchesFit' /\ ReceivedIsLogged' /\ EventsKept'
    BY <2>1 DEF DiagInv, BatchesFit, BatchFits, ReceivedIsLogged, EventsKept, EventKept
  <2> QED
    BY <2>2, <2>3 DEF DiagInv
<1>3. CASE Events!PersistFails(e) /\ ~(reported \/ seq = MaxEvents)
  <2> DEFINE r == seq + 1
             falls == IF Len(buf) = MaxBuffer THEN {Head(buf)} ELSE {}
  <2>1. /\ seq' = r
        /\ buf' = IF Len(buf) = MaxBuffer THEN Append(Tail(buf), r) ELSE Append(buf, r)
        /\ dropped' = IF Len(buf) = MaxBuffer THEN dropped \cup {Head(buf)} ELSE dropped
        /\ writes' = writes \ {e} /\ pruned' = pruned \cup {e, r}
        /\ UNCHANGED <<diagStored, diagWire, logged>>
    BY <1>3 DEF Events!PersistFails, Events!delivery
  <2>2. seq < MaxEvents /\ Len(buf) \in Nat /\ Len(buf) <= MaxBuffer
    BY <1>f, <1>3, LenProperties DEF DiagFit
  <2>3. dropped' = dropped \cup falls
    BY <2>1
  <2>4. RingMoves(buf, r, buf', falls)
    BY <2>1, <2>2 DEF RingMoves
  <2> HIDE DEF falls
  <2>5. r \in Events!Ids /\ r <= MaxEvents
    BY <1>f, <2>2 DEF DiagFit, Events!Ids
  <2>6. r = seq + 1
    OBVIOUS
  <2> HIDE DEF r
  <2>7. /\ writes \cup pruned \cup {r} \subseteq writes' \cup pruned'
        /\ writes' \subseteq Events!Ids /\ pruned' \subseteq Events!Ids
    BY <1>f, <2>1, <2>5 DEF DiagFit
  <2> QED
    BY <2>1, <2>3, <2>4, <2>5, <2>6, <2>7, RecordStep
<1> QED
  BY <1>1, <1>2, <1>3

LEMMA PruneStep == ASSUME DiagInv, Events!Prune PROVE DiagInv'
<1>f. DiagFit
  BY DEF DiagInv
<1>1. PICK oldest \in Events!Held : /\ diagStored' = [diagStored EXCEPT ![oldest] = "absent"]
                                     /\ pruned' = pruned \cup {oldest}
  BY DEF Events!Prune
<1>2. /\ oldest \in Events!Ids
      /\ UNCHANGED <<seq, buf, writes, diagWire, logged, dropped>>
  BY DEF Events!Held, Events!Prune, Events!delivery
<1>3. /\ diagStored' \in [Events!Ids -> {"absent", "unsent", "received"}]
      /\ \A x \in Events!Ids : diagStored'[x] = IF x = oldest THEN "absent" ELSE diagStored[x]
  BY <1>f, <1>1, <1>2 DEF DiagFit
<1>4. DiagFit'
  BY <1>f, <1>1, <1>2, <1>3 DEF DiagFit
<1>5. BatchesFit' /\ ReceivedIsLogged'
  BY <1>1, <1>2, <1>3 DEF DiagInv, BatchesFit, BatchFits, ReceivedIsLogged
<1>6. EventsKept'
  <2> SUFFICES ASSUME NEW x \in 1..seq, x \notin logged PROVE EventKept(x)'
    BY <1>2 DEF EventsKept
  <2>1. EventKept(x) /\ x \in Events!Ids
    BY <1>f, DiagBounds DEF DiagInv, EventsKept, DiagFit, Events!Ids
  <2> QED
    BY <1>1, <1>2, <1>3, <2>1 DEF EventKept
<1> QED
  BY <1>4, <1>5, <1>6 DEF DiagInv

\* A step that only moves batches and acks, and what the server has logged.
LEMMA WireStep ==
  ASSUME DiagInv, UNCHANGED <<seq, buf, diagStored, writes, dropped, pruned>>,
         logged \subseteq logged', logged' \subseteq Events!Ids,
         diagWire' \subseteq Events!Messages,
         \A m \in diagWire' : BatchFits(m)'
  PROVE  DiagInv'
<1>f. DiagFit
  BY DEF DiagInv
<1>1. DiagFit'
  BY <1>f DEF DiagFit
<1>2. BatchesFit' /\ ReceivedIsLogged' /\ EventsKept'
  BY DEF DiagInv, BatchesFit, ReceivedIsLogged, EventsKept, EventKept
<1> QED
  BY <1>1, <1>2 DEF DiagInv

LEMMA BatchStays ==
  ASSUME seq' = seq, In(buf') \subseteq In(buf), logged \subseteq logged', NEW m, NEW n,
         BatchFits(m), n.from = m.from, n.ids = m.ids, n.ack = m.ack
  PROVE  BatchFits(n)'
BY DEF BatchFits

LEMMA SendSteps ==
  ASSUME DiagInv, \/ Events!Flush \/ Events!FlushTimesOut \/ Events!LimitPasses
                  \/ Events!Recover \/ Events!RecoveryTimesOut
  PROVE  DiagInv'
<1>f. DiagFit
  BY DEF DiagInv
<1>0. UNCHANGED <<seq, buf, diagStored, writes, dropped, pruned, logged>>
  BY DEF Events!Flush, Events!FlushTimesOut, Events!LimitPasses, Events!Recover,
     Events!RecoveryTimesOut, Events!store
<1>s. In(buf') \subseteq In(buf) /\ logged \subseteq logged'
  BY <1>0
<1>1. ASSUME NEW from \in Events!Senders, NEW ids \in SUBSET Events!Ids,
             diagWire' = diagWire \/ diagWire' = diagWire \cup {Events!Request(from, ids)},
             from = "flush" => ids = In(buf)
      PROVE  DiagInv'
  <2> DEFINE r == Events!Request(from, ids)
  <2>1. r \in Events!Messages /\ r.from = from /\ r.ids = ids /\ r.ack = "none"
    BY DEF Events!Request, Events!Messages
  <2> HIDE DEF r
  <2>2. BatchFits(r)'
    BY <1>0, <1>1, <1>f, <2>1 DEF BatchFits, DiagFit
  <2>3. ASSUME NEW m \in diagWire PROVE BatchFits(m)'
    BY <1>0, <1>s, BatchStays DEF DiagInv, BatchesFit
  <2>4. diagWire' \subseteq diagWire \cup {r}
    BY <1>1 DEF r
  <2> QED
    BY <1>0, <1>f, <2>1, <2>2, <2>3, <2>4, WireStep DEF DiagFit
<1>2. CASE Events!Flush
  <2>1. diagWire' = diagWire
        \/ diagWire' = diagWire \cup {Events!Request("flush", Events!ToSet(buf))}
    BY <1>2 DEF Events!Flush
  <2>2. Events!ToSet(buf) = In(buf)
    BY <1>f, BufferSet DEF DiagFit
  <2>3. In(buf) \subseteq Events!Ids
    BY <1>f, DiagBounds DEF DiagFit, Events!Ids
  <2>4. diagWire' = diagWire \/ diagWire' = diagWire \cup {Events!Request("flush", In(buf))}
    BY <2>1, <2>2
  <2> QED
    BY <1>1, <2>3, <2>4 DEF Events!Senders
<1>3. CASE Events!Recover
  <2> DEFINE ids == Events!Oldest(Events!Unsent)
  <2>1. diagWire' = diagWire \/ diagWire' = diagWire \cup {Events!Request("recovery", ids)}
    BY <1>3 DEF Events!Recover
  <2>2. ids \subseteq Events!Ids
    BY DEF Events!Oldest, Events!Unsent
  <2> HIDE DEF ids
  <2> QED
    BY <1>1, <2>1, <2>2 DEF Events!Senders
<1>4. CASE Events!FlushTimesOut \/ Events!RecoveryTimesOut
  <2>1. PICK from : diagWire' = Events!Settled(from)
    BY <1>4 DEF Events!FlushTimesOut, Events!RecoveryTimesOut
  <2> DEFINE closed(m) == [m EXCEPT !.open = IF m.from = from THEN FALSE ELSE @]
  <2>2. diagWire' = {closed(m) : m \in diagWire}
    BY <2>1 DEF Events!Settled
  <2>3. ASSUME NEW m \in diagWire
        PROVE  /\ closed(m) \in Events!Messages /\ closed(m).from = m.from
               /\ closed(m).ids = m.ids /\ closed(m).ack = m.ack
    <3>1. m \in Events!Messages
      BY <1>f DEF DiagFit
    <3> QED
      BY <3>1 DEF Events!Messages
  <2> HIDE DEF closed
  <2>4. ASSUME NEW m \in diagWire PROVE BatchFits(closed(m))'
    <3>1. BatchFits(m)
      BY DEF DiagInv, BatchesFit
    <3> QED
      BY <1>0, <1>s, <2>3, <3>1, BatchStays
  <2>5. diagWire' \subseteq Events!Messages /\ \A n \in diagWire' : \E m \in diagWire : n = closed(m)
    BY <2>2, <2>3
  <2>6. \A n \in diagWire' : BatchFits(n)'
    BY <2>4, <2>5
  <2> QED
    BY <1>0, <1>f, <2>5, <2>6, WireStep DEF DiagFit
<1>5. CASE Events!LimitPasses
  <2>1. diagWire' = diagWire
    BY <1>5 DEF Events!LimitPasses
  <2> QED
    BY <1>1, <2>1 DEF Events!Senders
<1> QED
  BY <1>2, <1>3, <1>4, <1>5

\* The gateway logs a batch as a whole, and says so.
LEMMA HandleStep ==
  ASSUME DiagInv, NEW m \in diagWire, Events!HandleBatch(m)
  PROVE  DiagInv'
<1>f. DiagFit /\ m \in Events!Messages
  BY DEF DiagInv, DiagFit
<1>0. PICK ok \in BOOLEAN :
        /\ diagWire' = (diagWire \ {m}) \cup {[m EXCEPT !.ack = IF ok THEN "ok" ELSE "refused"]}
        /\ logged' = IF ok THEN logged \cup m.ids ELSE logged
        /\ UNCHANGED <<seq, buf, diagStored, writes, dropped, pruned>>
  BY DEF Events!HandleBatch, Events!store
<1>a. PICK answer : answer = [m EXCEPT !.ack = IF ok THEN "ok" ELSE "refused"]
  OBVIOUS
<1>1. /\ diagWire' = (diagWire \ {m}) \cup {answer}
      /\ logged' = IF ok THEN logged \cup m.ids ELSE logged
      /\ UNCHANGED <<seq, buf, diagStored, writes, dropped, pruned>>
  BY <1>0, <1>a
<1>2. /\ answer \in Events!Messages /\ answer.from = m.from /\ answer.ids = m.ids
      /\ answer.ack = "ok" => ok
  BY <1>a, <1>f DEF Events!Messages
<1>3. logged \subseteq logged' /\ logged' \subseteq Events!Ids
  BY <1>f, <1>1 DEF DiagFit, Events!Messages
<1>s. In(buf') \subseteq In(buf)
  BY <1>1
<1>4. ASSUME NEW n \in diagWire PROVE BatchFits(n)'
  BY <1>1, <1>3, <1>s, BatchStays DEF DiagInv, BatchesFit
<1>5. BatchFits(answer)'
  <2>1. BatchFits(m)
    BY DEF DiagInv, BatchesFit
  <2>2. answer.ack = "ok" => answer.ids \subseteq logged'
    BY <1>1, <1>2
  <2>3. answer.from = "flush" =>
          /\ answer.ids \subseteq 1..seq
          /\ \A e \in In(buf) : e \in answer.ids \/ \A i \in answer.ids : e > i
    BY <1>2, <2>1 DEF BatchFits
  <2> QED
    BY <1>1, <2>2, <2>3 DEF BatchFits
<1>6. diagWire' \subseteq Events!Messages
  BY <1>f, <1>1, <1>2 DEF DiagFit
<1>7. \A n \in diagWire' : BatchFits(n)'
  BY <1>1, <1>4, <1>5
<1> QED
  BY <1>1, <1>3, <1>6, <1>7, WireStep

\* An ack takes its batch off the buffer, and marks it in IndexedDB.
LEMMA AckSteps ==
  ASSUME DiagInv, NEW m \in diagWire, Events!FlushAcked(m) \/ Events!RecoveryAcked(m)
  PROVE  DiagInv'
<1>f. DiagFit /\ m \in Events!Messages /\ BatchFits(m)
  BY DEF DiagInv, DiagFit, BatchesFit
<1>1. /\ diagWire' = diagWire \ {m}
      /\ UNCHANGED <<seq, writes, dropped, pruned, logged>>
      /\ \/ UNCHANGED diagStored \/ (Events!MarkReceived(m.ids) /\ m.ack = "ok")
      /\ \/ buf' = buf
         \/ /\ m.ack = "ok" /\ m.from = "flush"
            /\ buf' = Events!Kept(buf, Events!Later(m.ids))
  BY DEF Events!FlushAcked, Events!RecoveryAcked
<1>2. /\ diagStored' \in [Events!Ids -> {"absent", "unsent", "received"}]
      /\ \A e \in Events!Ids :
           \/ diagStored'[e] = diagStored[e]
           \/ e \in logged /\ diagStored'[e] = "received"
  <2>1. CASE UNCHANGED diagStored
    BY <1>f, <2>1 DEF DiagFit
  <2>2. CASE Events!MarkReceived(m.ids) /\ m.ack = "ok"
    <3>1. m.ids \subseteq logged
      BY <1>f, <2>2 DEF BatchFits
    <3>2. diagStored' = [e \in Events!Ids |-> IF e \in m.ids /\ diagStored[e] = "unsent"
                                             THEN "received" ELSE diagStored[e]]
      BY <2>2 DEF Events!MarkReceived
    <3> QED
      BY <1>f, <3>1, <3>2 DEF DiagFit
  <2> QED
    BY <1>1, <2>1, <2>2
<1>3. /\ buf' \in Seq(Events!Ids) /\ Len(buf') <= MaxBuffer /\ In(buf') \subseteq In(buf)
      /\ \A e \in In(buf) : e \in In(buf') \/ e \in logged
  <2>1. CASE buf' = buf
    BY <1>f, <2>1 DEF DiagFit
  <2>2. CASE /\ m.ack = "ok" /\ m.from = "flush"
             /\ buf' = Events!Kept(buf, Events!Later(m.ids))
    <3> DEFINE places == {i \in 1..Len(buf) : \A e \in m.ids : buf[i] > e}
    <3>1. buf' = Kept(buf, places)
      <4>1. Events!Later(m.ids) = places
        BY DEF Events!Later
      <4> QED
        BY <2>2, <4>1, SameKept
    <3>2. buf \in Seq(Events!Ids) /\ places \in SUBSET (1..Len(buf))
      BY <1>f DEF DiagFit
    <3>3. \A i \in 1..Len(buf) : i \in places \/ ~(\A e \in m.ids : buf[i] > e)
      OBVIOUS
    <3> HIDE DEF places
    <3>4. buf' \in Seq(Events!Ids) /\ Len(buf') <= Len(buf)
      BY <3>1, <3>2, KeptIsShorter
    <3>5. In(buf') = {buf[i] : i \in places}
      BY <3>1, <3>2, KeptIn
    <3>6. Len(buf') <= MaxBuffer
      BY <1>f, <3>2, <3>4, DiagBounds, LenProperties DEF DiagFit
    <3>7. In(buf') \subseteq In(buf)
      BY <3>2, <3>5 DEF In
    <3>8. ASSUME NEW e \in In(buf), e \notin In(buf') PROVE e \in logged
      <4>1. PICK i \in 1..Len(buf) : e = buf[i]
        BY DEF In
      <4>2. i \notin places
        BY <3>5, <3>8, <4>1
      <4>3. ~(\A x \in m.ids : e > x)
        BY <3>3, <4>1, <4>2
      <4>4. e \in m.ids
        BY <1>f, <2>2, <4>3 DEF BatchFits
      <4> QED
        BY <1>f, <2>2, <4>4 DEF BatchFits
    <3> QED
      BY <3>4, <3>6, <3>7, <3>8
  <2> QED
    BY <1>1, <2>1, <2>2
<1>4. DiagFit'
  BY <1>f, <1>1, <1>2, <1>3 DEF DiagFit
<1>5. BatchesFit'
  <2>1. ASSUME NEW n \in diagWire PROVE BatchFits(n)'
    BY <1>1, <1>3, BatchStays DEF DiagInv, BatchesFit
  <2> QED
    BY <1>1, <2>1 DEF BatchesFit
<1>6. ReceivedIsLogged'
  BY <1>1, <1>2 DEF DiagInv, ReceivedIsLogged
<1>7. EventsKept'
  <2> SUFFICES ASSUME NEW x \in 1..seq, x \notin logged PROVE EventKept(x)'
    BY <1>1 DEF EventsKept
  <2>1. EventKept(x) /\ x \in Events!Ids
    BY <1>f, DiagBounds DEF DiagInv, EventsKept, DiagFit, Events!Ids
  <2> QED
    BY <1>1, <1>2, <1>3, <2>1 DEF EventKept
<1> QED
  BY <1>4, <1>5, <1>6, <1>7 DEF DiagInv

\* A reload keeps the buffer, and a closed tab loses it.
LEMMA BootStep == ASSUME DiagInv, NEW on \in BOOLEAN, Events!Boot(on) PROVE DiagInv'
<1>f. DiagFit
  BY DEF DiagInv
<1>1. PICK done \in SUBSET writes :
        /\ diagStored' = [e \in Events!Ids |-> IF e \in done /\ diagStored[e] = "absent"
                                              THEN "unsent" ELSE diagStored[e]]
        /\ pruned' = pruned \cup (writes \ done)
  BY DEF Events!Boot
<1>2. /\ writes' = {} /\ diagWire' = {} /\ UNCHANGED <<seq, logged>>
      /\ \/ UNCHANGED <<buf, dropped>>
         \/ buf' = <<>> /\ dropped' = dropped \cup Events!ToSet(buf)
  BY DEF Events!Boot
<1>3. /\ buf' \in Seq(Events!Ids) /\ Len(buf') <= MaxBuffer /\ In(buf') \subseteq In(buf)
      /\ In(buf) \cup dropped \subseteq In(buf') \cup dropped' /\ dropped' \subseteq Events!Ids
  <2>1. Events!ToSet(buf) = In(buf) /\ In(buf) \subseteq Events!Ids
    BY <1>f, BufferSet, DiagBounds DEF DiagFit, Events!Ids
  <2>2. In(<<>>) = {}
    BY OneElement
  <2>3. <<>> \in Seq(Events!Ids) /\ Len(<<>>) = 0
    OBVIOUS
  <2>4. CASE UNCHANGED <<buf, dropped>>
    BY <1>f, <2>4 DEF DiagFit
  <2>5. CASE buf' = <<>> /\ dropped' = dropped \cup Events!ToSet(buf)
    BY <1>f, <2>1, <2>2, <2>3, <2>5, DiagBounds DEF DiagFit
  <2> QED
    BY <1>2, <2>4, <2>5
<1>4. /\ diagStored' \in [Events!Ids -> {"absent", "unsent", "received"}]
      /\ \A e \in Events!Ids :
           \/ diagStored'[e] = diagStored[e] /\ (e \in done => diagStored[e] # "absent")
           \/ diagStored'[e] = "unsent"
  BY <1>f, <1>1 DEF DiagFit
<1>5. DiagFit'
  BY <1>f, <1>1, <1>2, <1>3, <1>4 DEF DiagFit
<1>6. BatchesFit' /\ ReceivedIsLogged'
  BY <1>2, <1>4 DEF BatchesFit, DiagInv, ReceivedIsLogged
<1>7. EventsKept'
  <2> SUFFICES ASSUME NEW x \in 1..seq, x \notin logged PROVE EventKept(x)'
    BY <1>2 DEF EventsKept
  <2>1. EventKept(x) /\ x \in Events!Ids
    BY <1>f, DiagBounds DEF DiagInv, EventsKept, DiagFit, Events!Ids
  <2>2. diagStored[x] # "received" /\ diagStored[x] \in {"absent", "unsent", "received"}
    BY <1>f, <2>1 DEF DiagInv, ReceivedIsLogged, DiagFit
  <2>3. x \in In(buf') \cup dropped'
    BY <1>3, <2>1 DEF EventKept
  <2>4. x \in pruned' \/ diagStored'[x] = "unsent"
    BY <1>1, <1>4, <2>1, <2>2 DEF EventKept
  <2> QED
    BY <2>3, <2>4 DEF EventKept
<1> QED
  BY <1>5, <1>6, <1>7 DEF DiagInv

LEMMA NextDiag == DiagInv /\ [Events!Next]_diagVars => DiagInv'
<1> SUFFICES ASSUME DiagInv, [Events!Next]_diagVars PROVE DiagInv'
  OBVIOUS
<1>1. ASSUME UNCHANGED diagVars PROVE DiagInv'
  BY <1>1, Zenon DEF diagVars, DiagInv, DiagFit, BatchesFit, BatchFits, ReceivedIsLogged,
     EventsKept, EventKept
<1>2. ASSUME Events!Next PROVE DiagInv'
  BY <1>2, RecordedSteps, PersistSteps, PruneStep, SendSteps, HandleStep, AckSteps, BootStep
     DEF Events!Next
<1> QED
  BY <1>1, <1>2

LEMMA DiagSteps == [ServicesNext]_servicesVars => [Events!Next]_diagVars
BY DEF ServicesNext, servicesVars, diagVars, Others

\* What the buffer, IndexedDB and the batches on the wire hold of every event,
\* whichever ack is late, refused or lost (socket-diagnostics.ts:469-495,
\* diagnostics-recovery.ts:40-172).
THEOREM DiagInvariant == ServicesSpec => []DiagInv
<1>1. ServicesInit => DiagInv
  BY InitDiag DEF ServicesInit
<1>2. DiagInv /\ [ServicesNext]_servicesVars => DiagInv'
  BY NextDiag, DiagSteps
<1> QED
  BY <1>1, <1>2, PTL DEF ServicesSpec

\* An event that the server has not logged is still in the buffer and in
\* IndexedDB, unless the code meant to let it go: no ack covers an event it was
\* not for, for any number of events and any size of the buffer
\* (socket-diagnostics.ts:469-495).
THEOREM EventsStayUntilLogged == ServicesSpec => []KeptUntilLogged
<1>1. DiagInv => KeptUntilLogged
  <2> SUFFICES ASSUME DiagInv PROVE Events!KeptUntilLogged
    BY DEF KeptUntilLogged
  <2>1. Events!ToSet(buf) = In(buf)
    BY BufferSet DEF DiagInv, DiagFit
  <2> QED
    BY <2>1 DEF DiagInv, EventsKept, EventKept, Events!KeptUntilLogged
<1> QED
  BY <1>1, DiagInvariant, PTL

-----------------------------------------------------------------------------
(* The picture of a user.                                                  *)

\* The hook asks for the present picture, or shows it, or could not sign it.
AsksForItsUser == avatarAsking # NoPicture => avatarAsking = avatarUrl
ResolvedAtRest == avatarAsking = NoPicture =>
  resolved = avatarUrl \/ (resolved = NoPicture /\ failed)
AvatarInv == Picturing!TypeOK /\ AsksForItsUser /\ ResolvedAtRest

LEMMA NoPictureIsNone == NoPicture \notin Objects
BY ServicesAssumption DEF ServicesAssumption

LEMMA InitAvatar == Picturing!Init => AvatarInv
BY DEF Picturing!Init, AvatarInv, Picturing!TypeOK, Picturing!StoredUrls, AsksForItsUser,
   ResolvedAtRest

LEMMA NextAvatar == AvatarInv /\ [Picturing!Next]_avatarVars => AvatarInv'
<1> SUFFICES ASSUME AvatarInv, [Picturing!Next]_avatarVars PROVE AvatarInv'
  OBVIOUS
<1> USE NoPictureIsNone DEF AvatarInv, Picturing!TypeOK, Picturing!StoredUrls, AsksForItsUser,
  ResolvedAtRest
<1>1. ASSUME UNCHANGED avatarVars PROVE AvatarInv'
  BY <1>1 DEF avatarVars
<1>2. ASSUME NEW p \in Picturing!StoredUrls, Picturing!Change(p) PROVE AvatarInv'
  BY <1>2 DEF Picturing!Change
<1>3. ASSUME NEW k \in Objects, Picturing!Discarded(k) \/ Picturing!Lapses(k)
      PROVE  AvatarInv'
  BY <1>3 DEF Picturing!Discarded, Picturing!Lapses
<1>4. ASSUME Picturing!Presigned \/ Picturing!PresignFails PROVE AvatarInv'
  BY <1>4 DEF Picturing!Presigned, Picturing!PresignFails
<1>5. ASSUME Picturing!LoadFails PROVE AvatarInv'
  BY <1>5 DEF Picturing!LoadFails
<1>6. ASSUME Picturing!Remount PROVE AvatarInv'
  BY <1>6 DEF Picturing!Remount
<1> QED
  BY <1>1, <1>2, <1>3, <1>4, <1>5, <1>6 DEF Picturing!Next

-----------------------------------------------------------------------------
(* The attachment of a message.                                            *)

Urls == Playing!NoUrl .. MaxSigned

\* What the bubble shows for each state of the attachment.
Fits(a, u) == /\ a = "none" => u = Playing!NoUrl
              /\ a = "preview" => u = Playing!Preview
              /\ a \notin {"none", "preview"} => u \in Playing!Signed \cup {Playing!Raw}

\* Which URLs the server has signed, and which of them ran out.
ServerFits ==
  /\ signed \in 0 .. MaxSigned /\ mediaCached \in 0 .. signed
  /\ lapsed \subseteq 1 .. signed /\ expired \subseteq lapsed
\* Only the bubble of a stored file asks.
BubbleFits ==
  /\ attachment \in {"unsent", "none", "preview", "stored"} /\ mediaMounted \in BOOLEAN
  /\ mediaUrl \in Urls /\ mediaAsking \in BOOLEAN
  /\ mediaAsking => mediaMounted /\ attachment = "stored"
  /\ mediaMounted => attachment # "unsent"
  /\ mediaMounted /\ ~mediaAsking => Fits(attachment, mediaUrl)
PlayerFits ==
  /\ playing \in BOOLEAN /\ sounding \in BOOLEAN /\ mute \in BOOLEAN
  /\ playing => mediaMounted /\ (sounding \/ mute)
  /\ sounding => playing
MediaInv ==
  /\ ServerFits /\ BubbleFits /\ PlayerFits
  /\ mediaOthers \in 0 .. MaxOthers /\ mediaLate = FALSE

LEMMA MediaBounds == MaxSigned \in Nat /\ MaxOthers \in Nat
BY ServicesAssumption DEF ServicesAssumption

LEMMA UrlKinds ==
  /\ Playing!NoUrl \in Urls /\ Playing!Preview \in Urls /\ Playing!Raw \in Urls
  /\ \A n \in 1 .. MaxSigned : n \in Urls /\ n \in Playing!Signed
BY MediaBounds DEF Urls, Playing!NoUrl, Playing!Preview, Playing!Raw, Playing!Signed

LEMMA InitMedia == Playing!Init => MediaInv
<1> SUFFICES ASSUME Playing!Init PROVE MediaInv
  OBVIOUS
<1>1. mediaUrl \in Urls
  BY UrlKinds DEF Playing!Init
<1>2. ServerFits /\ mediaOthers \in 0 .. MaxOthers
  BY MediaBounds DEF Playing!Init, ServerFits
<1>3. BubbleFits /\ PlayerFits
  BY <1>1 DEF Playing!Init, BubbleFits, PlayerFits
<1> QED
  BY <1>2, <1>3 DEF Playing!Init, MediaInv

\* Another URL for the player: a sound ends without its button.
LEMMA SrcMedia ==
  ASSUME PlayerFits, NEW u, Playing!Src(u), UNCHANGED playing, playing => mediaMounted'
  PROVE  PlayerFits' /\ mediaUrl' = u
BY DEF PlayerFits, Playing!Src

LEMMA ResolveMedia ==
  ASSUME MediaInv, NEW a \in {"none", "preview", "stored"}, NEW u \in Urls,
         Playing!Resolve(a, u), attachment' = a, mediaMounted' = TRUE,
         UNCHANGED <<playing, Playing!server, mediaOthers>>
  PROVE  MediaInv'
<1>1. ServerFits' /\ mediaOthers' \in 0 .. MaxOthers
  BY DEF MediaInv, ServerFits, Playing!server
<1>2. ASSUME NEW n \in Urls, Playing!Src(n), mediaAsking' \in BOOLEAN, mediaLate' = FALSE,
             mediaAsking' => a = "stored", ~mediaAsking' => Fits(a, n)
      PROVE  MediaInv'
  <2>1. PlayerFits' /\ mediaUrl' = n
    BY <1>2, SrcMedia DEF MediaInv
  <2>2. BubbleFits'
    BY <1>2, <2>1 DEF BubbleFits, Fits
  <2> QED
    BY <1>1, <1>2, <2>1, <2>2 DEF MediaInv
<1>3. CASE a = "none" /\ mediaAsking' = FALSE /\ Playing!Src(Playing!NoUrl) /\ UNCHANGED mediaLate
  <2>1. Fits(a, Playing!NoUrl)
    BY <1>3 DEF Fits
  <2> QED
    BY <1>2, <1>3, <2>1, UrlKinds DEF MediaInv
<1>4. CASE /\ a = "preview" /\ mediaAsking' = FALSE /\ Playing!Src(Playing!Preview)
           /\ UNCHANGED mediaLate
  <2>1. Fits(a, Playing!Preview)
    BY <1>4 DEF Fits
  <2> QED
    BY <1>2, <1>4, <2>1, UrlKinds DEF MediaInv
<1>5. CASE /\ a = "stored" /\ Playing!Usable /\ mediaAsking' = FALSE
           /\ Playing!Src(mediaCached) /\ mediaLate' = (mediaLate \/ mediaCached \in expired)
  <2>1. mediaCached \in 1 .. MaxSigned /\ mediaCached \notin expired
    BY <1>5, MediaBounds DEF MediaInv, ServerFits, Playing!Usable
  <2>2. mediaCached \in Urls /\ Fits(a, mediaCached)
    BY <1>5, <2>1, UrlKinds DEF Fits
  <2> QED
    BY <1>2, <1>5, <2>1, <2>2 DEF MediaInv
<1>6. CASE a = "stored" /\ mediaAsking' = TRUE /\ Playing!Src(u) /\ UNCHANGED mediaLate
  BY <1>2, <1>6 DEF MediaInv
<1> QED
  BY <1>3, <1>4, <1>5, <1>6 DEF Playing!Resolve

LEMMA NextMedia == MediaInv /\ [Playing!Next]_mediaVars => MediaInv'
<1> SUFFICES ASSUME MediaInv, [Playing!Next]_mediaVars PROVE MediaInv'
  OBVIOUS
<1> USE MediaBounds
<1>1. ASSUME UNCHANGED mediaVars PROVE MediaInv'
  BY <1>1 DEF mediaVars, MediaInv, ServerFits, BubbleFits, PlayerFits
<1>2. ASSUME NEW a \in {"none", "preview", "stored"}, Playing!Mount(a) PROVE MediaInv'
  BY <1>2, ResolveMedia, UrlKinds DEF Playing!Mount
<1>3. ASSUME Playing!Stored PROVE MediaInv'
  BY <1>3, ResolveMedia DEF Playing!Stored, MediaInv, BubbleFits
<1>4. ASSUME Playing!Unmount PROVE MediaInv'
  <2>1. mediaOthers' \in 0 .. MaxOthers /\ ServerFits'
    BY <1>4 DEF Playing!Unmount, Playing!server, MediaInv, ServerFits
  <2>2. BubbleFits' /\ PlayerFits'
    BY <1>4, UrlKinds DEF Playing!Unmount, MediaInv, BubbleFits, PlayerFits
  <2> QED
    BY <1>4, <2>1, <2>2 DEF Playing!Unmount, MediaInv
<1>5. ASSUME NEW u \in Playing!Signed \cup {Playing!Raw}, u \in Urls, ServerFits',
             mediaAsking, mediaAsking' = FALSE, Playing!Src(u),
             UNCHANGED <<attachment, mediaMounted, mediaOthers, playing, mediaLate>>
      PROVE  MediaInv'
  <2>1. PlayerFits' /\ mediaUrl' = u
    BY <1>5, SrcMedia DEF MediaInv, PlayerFits
  <2>2. BubbleFits'
    BY <1>5, <2>1 DEF MediaInv, BubbleFits, Fits
  <2> QED
    BY <1>5, <2>1, <2>2 DEF MediaInv
<1>6. ASSUME mediaOthers > 0, mediaOthers' = mediaOthers - 1, ServerFits',
             UNCHANGED <<attachment, mediaMounted, mediaAsking, mediaUrl, sounding, mute,
                         playing, mediaLate>>
      PROVE  MediaInv'
  BY <1>6 DEF MediaInv, BubbleFits, PlayerFits
<1>7. ASSUME NEW mine \in BOOLEAN, Playing!Sign(mine) PROVE MediaInv'
  <2>1. ServerFits' /\ signed + 1 \in 1 .. MaxSigned
    BY <1>7 DEF Playing!Sign, MediaInv, ServerFits
  <2> QED
    BY <1>5, <1>6, <1>7, <2>1, UrlKinds DEF Playing!Sign
<1>8. ASSUME Playing!Refused PROVE MediaInv'
  <2>1. ServerFits'
    BY <1>8 DEF Playing!Refused, Playing!server, MediaInv, ServerFits
  <2> QED
    BY <1>5, <1>6, <1>8, <2>1, UrlKinds DEF Playing!Refused
<1>9. ASSUME NEW n \in Playing!Signed, Playing!Lapses(n) \/ Playing!Expires(n) PROVE MediaInv'
  <2>1. ServerFits'
    BY <1>9 DEF Playing!Lapses, Playing!Expires, MediaInv, ServerFits
  <2> QED
    BY <1>9, <2>1 DEF Playing!Lapses, Playing!Expires, MediaInv, BubbleFits, PlayerFits
<1>10. ASSUME Playing!Toggle \/ Playing!Ended \/ Playing!Interrupted PROVE MediaInv'
  <2>1. ServerFits'
    BY <1>10 DEF Playing!Toggle, Playing!Ended, Playing!Interrupted, Playing!server, MediaInv,
       ServerFits
  <2>2. BubbleFits' /\ UNCHANGED <<mediaOthers, mediaLate>>
    BY <1>10 DEF Playing!Toggle, Playing!Ended, Playing!Interrupted, MediaInv, BubbleFits
  <2>3. PlayerFits'
    BY <1>10 DEF Playing!Toggle, Playing!Ended, Playing!Interrupted, MediaInv, BubbleFits,
       PlayerFits
  <2> QED
    BY <2>1, <2>2, <2>3 DEF MediaInv
<1> QED
  BY <1>1, <1>2, <1>3, <1>4, <1>7, <1>8, <1>9, <1>10 DEF Playing!Next

LEMMA MediaFits == MediaInv => Playing!TypeOK /\ Playing!MediaIsOfTheMessage
BY DEF MediaInv, ServerFits, BubbleFits, PlayerFits, Fits, Urls, Playing!TypeOK,
   Playing!MediaIsOfTheMessage

-----------------------------------------------------------------------------
(* The image viewer.                                                       *)

Gestures == [mode : {"none", "idle", "pan", "pinch"}, scale : Viewing!Scales,
             off : BOOLEAN, moved : BOOLEAN]

\* The cursor tells the zoom, and a fitted image is in the centre: but for a
\* pinch under way, and a pan moves a zoomed image only.
ZoomShown == (zoomed <=> scale > Viewing!Fit) /\ (scale = Viewing!Fit => ~off)
TransformFits == scale \in Viewing!Scales /\ off \in BOOLEAN /\ zoomed \in BOOLEAN
GestureFits == ~broken => /\ gesture.mode # "pinch" => ZoomShown
                          /\ gesture.mode = "pan" => scale > Viewing!Fit
                          /\ gesture.mode = "pinch" => touches >= 2
CountsFit == swaps \in 0 .. MaxSwaps /\ touches \in 0 .. MaxTouches
PageFits == viewerOpen \in BOOLEAN /\ viewerHidden = viewerOpen
ViewerInv ==
  /\ PageFits /\ CountsFit /\ TransformFits
  /\ broken \in BOOLEAN /\ tapped \in BOOLEAN /\ gesture \in Gestures
  /\ GestureFits

LEMMA ViewerBounds == Zoomed \in Nat /\ MaxTouches \in Nat /\ MaxSwaps \in Nat
BY ServicesAssumption DEF ServicesAssumption

LEMMA ScaleKinds ==
  /\ Viewing!Fit \in Viewing!Scales /\ ~(Viewing!Fit > Viewing!Fit) /\ Viewing!Fit + 1 \in Int
  /\ \A s \in Viewing!Scales : /\ s \in Int /\ s + 1 \in Int /\ s - 1 \in Int
                               /\ s > Viewing!Fit <=> s # Viewing!Fit
                               /\ s <= Viewing!Fit <=> s = Viewing!Fit
BY ViewerBounds DEF Viewing!Scales, Viewing!Fit

LEMMA NoGesture == Viewing!None \in Gestures /\ Viewing!None.mode = "none"
BY ScaleKinds DEF Viewing!None, Gestures

LEMMA InitViewer == Viewing!Init => ViewerInv
<1> SUFFICES ASSUME Viewing!Init PROVE ViewerInv
  OBVIOUS
<1>1. CountsFit
  BY ViewerBounds DEF Viewing!Init, CountsFit
<1>2. TransformFits
  BY ScaleKinds DEF Viewing!Init, TransformFits
<1>3. ZoomShown
  BY ScaleKinds DEF Viewing!Init, ZoomShown
<1> QED
  BY <1>1, <1>2, <1>3, NoGesture DEF Viewing!Init, ViewerInv, PageFits, GestureFits

\* SetScale clamps, centres what fits and shows the cursor of it.
LEMMA ScaleViewer ==
  ASSUME TransformFits, NEW s \in Int, Viewing!SetScale(s)
  PROVE  TransformFits' /\ ZoomShown'
<1>1. Viewing!Clamp(s) \in Viewing!Scales
  BY ViewerBounds DEF Viewing!Clamp, Viewing!Scales, Viewing!Fit
<1>2. /\ scale' = Viewing!Clamp(s) /\ zoomed' = (scale' > Viewing!Fit)
      /\ off' = (off /\ scale' # Viewing!Fit)
  BY DEF Viewing!SetScale
<1>3. scale' \in Viewing!Scales /\ off' \in BOOLEAN /\ zoomed' \in BOOLEAN
  BY <1>1, <1>2 DEF TransformFits
<1>4. ZoomShown'
  BY <1>2 DEF ZoomShown
<1> QED
  BY <1>3, <1>4 DEF TransformFits

\* The image is put back to its place.
LEMMA ResetViewer ==
  ASSUME scale' = Viewing!Fit, off' = FALSE, zoomed' = FALSE
  PROVE  TransformFits' /\ ZoomShown'
BY ScaleKinds DEF TransformFits, ZoomShown

LEMMA CountsStep == ASSUME CountsFit, [Viewing!Next]_viewerVars PROVE CountsFit'
<1> USE ViewerBounds DEF CountsFit
<1>1. CASE UNCHANGED <<swaps, touches>>
  BY <1>1
<1>2. CASE Viewing!Opens \/ Viewing!Replaced
  BY <1>2 DEF Viewing!Opens, Viewing!Replaced
<1>3. CASE Viewing!TouchStart \/ Viewing!TouchEnd \/ Viewing!TouchCancel
  BY <1>3 DEF Viewing!TouchStart, Viewing!TouchEnd, Viewing!TouchCancel
<1> QED
  BY <1>1, <1>2, <1>3 DEF Viewing!Next, viewerVars, Viewing!Closes, Viewing!TouchMove,
     Viewing!TapForgotten, Viewing!Wheel, Viewing!DoubleClick, Viewing!Mouse

LEMMA NextViewer == ViewerInv /\ [Viewing!Next]_viewerVars => ViewerInv'
<1> SUFFICES ASSUME ViewerInv, [Viewing!Next]_viewerVars PROVE ViewerInv'
  OBVIOUS
<1>c. CountsFit'
  BY CountsStep DEF ViewerInv
<1>f. /\ PageFits /\ TransformFits /\ GestureFits /\ gesture \in Gestures
      /\ broken \in BOOLEAN /\ tapped \in BOOLEAN
  BY DEF ViewerInv
<1>1. ASSUME UNCHANGED <<viewerOpen, viewerHidden, scale, off, zoomed, gesture>>,
             tapped' \in BOOLEAN, broken' \in BOOLEAN, broken => broken',
             ~broken' /\ gesture.mode = "pinch" => touches' >= 2
      PROVE  ViewerInv'
  BY <1>c, <1>f, <1>1 DEF ViewerInv, PageFits, TransformFits, GestureFits, ZoomShown
<1>2. CASE Viewing!Opens
  BY <1>c, <1>2, ResetViewer, NoGesture DEF Viewing!Opens, ViewerInv, PageFits, GestureFits
<1>3. CASE Viewing!Replaced
  <2>1. TransformFits' /\ ZoomShown'
    BY <1>3, ResetViewer DEF Viewing!Replaced
  <2>2. /\ UNCHANGED <<viewerOpen, viewerHidden, gesture, tapped>>
        /\ broken' = (broken \/ gesture.mode # "none")
    BY <1>3 DEF Viewing!Replaced
  <2> QED
    BY <1>c, <1>f, <2>1, <2>2 DEF ViewerInv, PageFits, GestureFits
<1>4. CASE Viewing!Closes
  BY <1>c, <1>f, <1>4 DEF Viewing!Closes, ViewerInv, PageFits, TransformFits, GestureFits,
     ZoomShown
<1>5. CASE Viewing!TouchStart
  <2>1. /\ UNCHANGED <<viewerOpen, viewerHidden, tapped, scale, off, zoomed, broken>>
        /\ gesture' = CASE touches' = 2 -> [mode |-> "pinch", scale |-> scale, off |-> off,
                                            moved |-> FALSE]
                        [] touches' = 1 -> [mode |-> IF scale > Viewing!Fit THEN "pan" ELSE "idle",
                                            scale |-> scale, off |-> off, moved |-> FALSE]
                        [] OTHER -> gesture
    BY <1>5 DEF Viewing!TouchStart
  <2>2. touches \in Nat /\ touches' = touches + 1
    BY <1>5 DEF Viewing!TouchStart, ViewerInv, CountsFit
  <2>3. CASE gesture' = gesture
    BY <1>1, <1>f, <2>1, <2>2, <2>3 DEF GestureFits
  \* A gesture that is no pinch begins on a transform that was shown.
  <2>4. ASSUME NEW mode \in {"pinch", "pan", "idle"},
               gesture' = [mode |-> mode, scale |-> scale, off |-> off, moved |-> FALSE],
               mode = "pan" => scale > Viewing!Fit,
               mode = "pinch" => touches' = 2,
               mode # "pinch" => touches = 0
        PROVE  ViewerInv'
    <3>1. gesture' \in Gestures /\ gesture'.mode = mode
      BY <1>f, <2>4 DEF Gestures, TransformFits
    <3>2. mode # "pinch" /\ ~broken => ZoomShown
      BY <1>f, <2>2, <2>4 DEF GestureFits
    <3>3. ZoomShown => ZoomShown'
      BY <2>1 DEF ZoomShown
    <3>4. GestureFits'
      BY <2>1, <2>2, <2>4, <3>1, <3>2, <3>3 DEF GestureFits
    <3> QED
      BY <1>c, <1>f, <2>1, <3>1, <3>4 DEF ViewerInv, PageFits, TransformFits
  <2>5. CASE touches' = 2
    BY <2>1, <2>2, <2>4, <2>5
  <2>6. CASE touches' = 1
    <3> DEFINE mode == IF scale > Viewing!Fit THEN "pan" ELSE "idle"
    <3>1. gesture' = [mode |-> mode, scale |-> scale, off |-> off, moved |-> FALSE]
      BY <2>1, <2>6
    <3>2. mode \in {"pan", "idle"} /\ (mode = "pan" => scale > Viewing!Fit) /\ touches = 0
      BY <2>2, <2>6
    <3> QED
      BY <2>4, <3>1, <3>2
  <2> QED
    BY <2>1, <2>3, <2>5, <2>6
<1>6. CASE Viewing!TouchMove
  <2>1. /\ UNCHANGED <<viewerOpen, viewerHidden, zoomed, tapped, broken, touches>>
        /\ \/ /\ gesture.mode = "pinch" /\ scale' \in Viewing!Scales /\ UNCHANGED <<off, gesture>>
           \/ /\ gesture' = [gesture EXCEPT !.moved = TRUE]
              /\ (IF gesture.mode = "pan" THEN off' \in BOOLEAN ELSE off' = off)
              /\ scale' = scale
    BY <1>6 DEF Viewing!TouchMove
  <2>2. CASE gesture.mode = "pinch" /\ scale' \in Viewing!Scales /\ UNCHANGED <<off, gesture>>
    BY <1>c, <1>f, <2>1, <2>2 DEF ViewerInv, PageFits, TransformFits, GestureFits
  <2>3. CASE /\ gesture' = [gesture EXCEPT !.moved = TRUE]
             /\ (IF gesture.mode = "pan" THEN off' \in BOOLEAN ELSE off' = off)
             /\ scale' = scale
    <3>1. gesture' \in Gestures /\ gesture'.mode = gesture.mode
      BY <1>f, <2>3 DEF Gestures
    <3>2. TransformFits'
      BY <1>f, <2>1, <2>3 DEF TransformFits
    <3>3. GestureFits'
      BY <1>f, <2>1, <2>3, <3>1, ScaleKinds DEF GestureFits, ZoomShown, TransformFits
    <3> QED
      BY <1>c, <1>f, <2>1, <3>1, <3>2, <3>3 DEF ViewerInv, PageFits
  <2> QED
    BY <2>1, <2>2, <2>3
<1>7. CASE Viewing!TouchEnd
  <2>1. /\ gesture' = Viewing!None
        /\ UNCHANGED <<viewerOpen, viewerHidden, broken>>
    BY <1>7 DEF Viewing!TouchEnd
  <2>2. TransformFits' /\ tapped' \in BOOLEAN /\ (~broken => ZoomShown')
    <3>1. CASE Viewing!PinchEnds
      <4>1. CASE Viewing!SetScale(Viewing!Fit) /\ tapped' = tapped
        BY <1>f, <4>1, ScaleViewer, ScaleKinds DEF TransformFits
      <4>2. CASE ~(scale <= Viewing!Fit) /\ zoomed' = TRUE /\ UNCHANGED <<scale, off, tapped>>
        BY <1>f, <4>2, ScaleKinds DEF ZoomShown, TransformFits
      <4> QED
        BY <3>1, <4>1, <4>2 DEF Viewing!PinchEnds
    <3>2. CASE Viewing!Tap
      <4>1. ASSUME NEW s \in Int, Viewing!SetScale(s) PROVE TransformFits' /\ ZoomShown'
        BY <1>f, <4>1, ScaleViewer
      <4>2. CASE UNCHANGED <<scale, off, zoomed>>
        BY <1>f, <3>2, <4>2 DEF Viewing!Tap, TransformFits, GestureFits, ZoomShown
      <4> QED
        BY <1>f, <3>2, <4>1, <4>2, ScaleKinds DEF Viewing!Tap
    <3>3. CASE Viewing!NoTap
      BY <1>f, <3>3 DEF Viewing!NoTap, TransformFits, GestureFits, ZoomShown
    <3> QED
      BY <1>7, <3>1, <3>2, <3>3 DEF Viewing!TouchEnd
  <2> QED
    BY <1>c, <1>f, <2>1, <2>2, NoGesture DEF ViewerInv, PageFits, GestureFits
<1>8. CASE Viewing!Wheel \/ Viewing!DoubleClick
  <2>1. PICK s \in Int : Viewing!SetScale(s)
    BY <1>f, <1>8, ScaleKinds DEF Viewing!Wheel, Viewing!DoubleClick, TransformFits
  <2>2. /\ broken' = (broken \/ gesture.mode # "none")
        /\ UNCHANGED <<viewerOpen, viewerHidden, gesture, tapped>>
    BY <1>8 DEF Viewing!Wheel, Viewing!DoubleClick, Viewing!Mouse
  <2>3. TransformFits' /\ ZoomShown'
    BY <1>f, <2>1, ScaleViewer
  <2> QED
    BY <1>c, <1>f, <2>2, <2>3 DEF ViewerInv, PageFits, GestureFits
<1>9. CASE Viewing!TouchCancel \/ Viewing!TapForgotten \/ UNCHANGED viewerVars
  BY <1>1, <1>f, <1>9 DEF Viewing!TouchCancel, Viewing!TapForgotten, viewerVars, GestureFits
<1> QED
  BY <1>2, <1>3, <1>4, <1>5, <1>6, <1>7, <1>8, <1>9 DEF Viewing!Next

LEMMA ViewerFits == ViewerInv => Viewing!TypeOK /\ Viewing!FittedIsCentred
<1> SUFFICES ASSUME ViewerInv PROVE Viewing!TypeOK /\ Viewing!FittedIsCentred
  OBVIOUS
<1>1. Viewing!TypeOK
  BY DEF ViewerInv, PageFits, CountsFit, TransformFits, Gestures, Viewing!TypeOK
<1>2. ~broken /\ gesture.mode = "none" =>
        (scale = Viewing!Fit => ~off) /\ zoomed = (scale > Viewing!Fit)
  BY DEF ViewerInv, GestureFits, ZoomShown, TransformFits
<1> QED
  BY <1>1, <1>2 DEF ViewerInv, PageFits, Viewing!FittedIsCentred

-----------------------------------------------------------------------------
(* The input of a conversation.                                            *)

WordsFit ==
  /\ text \in {"empty", "draft", "edit"} /\ editing \in Bubbles \cup {NoBubble}
  /\ text = "edit" => editing # NoBubble
  /\ text = "draft" => editing = NoBubble
QuoteFits ==
  /\ durable \subseteq Bubbles /\ replyingTo \in Bubbles \cup {NoBubble} /\ byId \in BOOLEAN
PromptsFit ==
  /\ prompts \in 0 .. MaxPrompts /\ inputLost \in 0 .. MaxPrompts
  /\ opened \in 0 .. MaxStreams /\ sent \in 0 .. MaxSent
StreamsFit ==
  /\ stream \in Input!Streams \cup {0} /\ mediaRecorder \in Input!Streams \cup {0}
  /\ inputRecorded \subseteq Input!Streams
  /\ mic \subseteq Input!Streams /\ running \subseteq mic /\ leaked \subseteq Input!Streams
  /\ isRecording \in BOOLEAN /\ inputCrossed \in BOOLEAN
StopsFit == \A c \in stopping : c.stream \in Input!Streams /\ c.byId \in BOOLEAN
\* What the present recorder records, as long as no two run into each other.
OneRecorder == ~inputCrossed =>
  /\ running \subseteq {stream} /\ inputRecorded \subseteq {stream}
  /\ \A c \in stopping : stream = 0 \/ stream = c.stream
\* The last message holds one recording, and its quote is stored.
LastFits ==
  /\ last.holds \subseteq Input!Streams /\ last.text # "edit"
  /\ last.byId => last.stored = last.shown
  /\ ~inputCrossed => last.holds = {} \/ \E s \in Input!Streams : last.holds = {s}
InputInv ==
  /\ WordsFit /\ QuoteFits /\ PromptsFit /\ StreamsFit /\ StopsFit
  /\ OneRecorder /\ LastFits /\ Input!MicrophoneIsShown

LEMMA InputBounds == /\ MaxStreams \in Nat /\ MaxPrompts \in Nat /\ MaxSent \in Nat
                     /\ NoBubble \notin Bubbles
BY ServicesAssumption DEF ServicesAssumption

LEMMA InitInput == Input!Init => InputInv
<1> SUFFICES ASSUME Input!Init PROVE InputInv
  OBVIOUS
<1>1. WordsFit /\ QuoteFits
  BY DEF Input!Init, WordsFit, QuoteFits
<1>2. PromptsFit
  <2>1. prompts = 0 /\ inputLost = 0 /\ opened = 0 /\ sent = 0
    BY DEF Input!Init
  <2> QED
    BY <2>1, InputBounds DEF PromptsFit
<1>3. StreamsFit /\ StopsFit /\ OneRecorder /\ Input!MicrophoneIsShown
  BY DEF Input!Init, StreamsFit, StopsFit, OneRecorder, Input!MicrophoneIsShown
<1>4. LastFits
  <2>1. last.holds = {} /\ last.text = "empty" /\ last.stored = last.shown
    BY DEF Input!Init, Input!NothingSent
  <2> QED
    BY <2>1 DEF LastFits
<1> QED
  BY <1>1, <1>2, <1>3, <1>4 DEF InputInv

\* The numbers.
LEMMA PromptsStep == ASSUME PromptsFit, [Input!Next]_inputVars PROVE PromptsFit'
<1> USE InputBounds DEF PromptsFit
<1>1. CASE UNCHANGED <<prompts, inputLost, opened, sent>>
  BY <1>1
<1>2. ASSUME NEW voice, NEW of, NEW reply, NEW ids, NEW holds,
             Input!Send(voice, of, reply, ids, holds), UNCHANGED <<prompts, inputLost, opened>>
      PROVE  PromptsFit'
  BY <1>2 DEF Input!Send
<1>3. CASE Input!StartRecording \/ Input!Denied
  <2>1. UNCHANGED <<opened, sent>>
    BY <1>3 DEF Input!StartRecording, Input!Denied, Input!sends
  <2>2. \/ prompts < MaxPrompts /\ prompts' = prompts + 1 /\ inputLost' = inputLost
        \/ prompts > 0 /\ prompts' = prompts - 1 /\ inputLost' = inputLost
        \/ inputLost > 0 /\ inputLost' = inputLost - 1 /\ prompts' = prompts
    BY <1>3 DEF Input!StartRecording, Input!Denied
  <2> QED
    BY <2>1, <2>2
<1>4. CASE Input!Granted \/ \E made \in BOOLEAN : Input!StartFails(made)
  BY <1>4 DEF Input!Granted, Input!StartFails, Input!Replaces, Input!Opens, Input!sends
<1>5. CASE Input!GrantedLate
  BY <1>5 DEF Input!GrantedLate, Input!Opens, Input!sends
<1>6. CASE Input!Leave
  <2>1. /\ prompts' = 0 /\ inputLost' = inputLost + prompts /\ inputLost' <= MaxPrompts
        /\ UNCHANGED <<opened, sent>>
    BY <1>6 DEF Input!Leave, Input!sends
  <2> QED
    BY <2>1
<1>7. CASE Input!SendText \/ Input!SendFile
  BY <1>1, <1>2, <1>7 DEF Input!SendText, Input!SendFile, Input!recorder, Input!sends
<1>8. ASSUME NEW c \in stopping, Input!OnStop(c) PROVE PromptsFit'
  BY <1>2, <1>8 DEF Input!OnStop
<1>9. ASSUME NEW b \in Bubbles,
             Input!Confirmed(b) \/ Input!Edit(b) \/ Input!ReplyFromMenu(b) \/ Input!Swipe(b)
      PROVE  PromptsFit'
  BY <1>1, <1>9 DEF Input!Confirmed, Input!Edit, Input!ReplyFromMenu, Input!Swipe,
     Input!OnReply, Input!recorder, Input!sends
<1>10. CASE Input!Type \/ Input!CancelEdit \/ Input!CancelReply
  BY <1>1, <1>10 DEF Input!Type, Input!CancelEdit, Input!CancelReply, Input!recorder,
     Input!sends
<1>11. CASE \/ Input!SendVoice \/ Input!CancelRecording \/ UNCHANGED inputVars
            \/ \E s \in running : Input!Data(s)
  BY <1>1, <1>11 DEF Input!SendVoice, Input!CancelRecording, Input!Data, Input!sends,
     inputVars
<1> QED
  BY <1>3, <1>4, <1>5, <1>6, <1>7, <1>8, <1>9, <1>10, <1>11 DEF Input!Next

\* The words of an edit are never left in the field, nor a draft in an edit.
LEMMA WordsStep ==
  ASSUME WordsFit, QuoteFits, [Input!Next]_inputVars
  PROVE  WordsFit' /\ QuoteFits'
<1> USE InputBounds
<1>0. UNCHANGED Input!message /\ durable' = durable => WordsFit' /\ QuoteFits'
  BY DEF Input!message, WordsFit, QuoteFits
<1>1. ASSUME NEW b \in Bubbles,
             Input!Confirmed(b) \/ Input!Edit(b) \/ Input!ReplyFromMenu(b) \/ Input!Swipe(b)
      PROVE  WordsFit' /\ QuoteFits'
  <2>1. CASE Input!Confirmed(b)
    BY <2>1 DEF Input!Confirmed, Input!message, WordsFit, QuoteFits
  <2>2. CASE Input!Edit(b)
    BY <2>2 DEF Input!Edit, WordsFit, QuoteFits
  <2>3. CASE Input!ReplyFromMenu(b) \/ Input!Swipe(b)
    <3>1. Input!OnReply(b)
      BY <2>3 DEF Input!ReplyFromMenu, Input!Swipe
    <3>2. QuoteFits'
      BY <3>1 DEF Input!OnReply, QuoteFits
    <3>3. WordsFit'
      BY <3>1 DEF Input!OnReply, Input!StopEditing, WordsFit
    <3> QED
      BY <3>2, <3>3
  <2> QED
    BY <1>1, <2>1, <2>2, <2>3
<1>2. CASE \/ Input!Type \/ Input!CancelEdit \/ Input!CancelReply \/ Input!SendText
           \/ Input!SendFile \/ Input!Leave \/ \E c \in stopping : Input!OnStop(c)
  <2>1. QuoteFits'
    BY <1>2 DEF Input!Type, Input!CancelEdit, Input!CancelReply, Input!SendText,
       Input!SendFile, Input!Leave, Input!OnStop, Input!NoReply, QuoteFits
  <2>2. WordsFit'
    BY <1>2 DEF Input!Type, Input!CancelEdit, Input!CancelReply, Input!SendText,
       Input!SendFile, Input!Leave, Input!OnStop, Input!StopEditing, WordsFit
  <2> QED
    BY <2>1, <2>2
<1>3. CASE \/ Input!StartRecording \/ Input!Granted \/ Input!GrantedLate \/ Input!Denied
           \/ Input!SendVoice \/ Input!CancelRecording \/ UNCHANGED inputVars
           \/ \E s \in running : Input!Data(s)
           \/ \E made \in BOOLEAN : Input!StartFails(made)
  BY <1>0, <1>3 DEF Input!StartRecording, Input!Granted, Input!StartFails,
     Input!GrantedLate, Input!Denied, Input!SendVoice, Input!CancelRecording, Input!Data,
     inputVars, Input!message
<1> QED
  BY <1>1, <1>2, <1>3 DEF Input!Next

RecordersFit == StreamsFit /\ StopsFit /\ OneRecorder /\ Input!MicrophoneIsShown

\* A microphone opens with a number of its own, and only the latest is used.
LEMMA OpenStream ==
  ASSUME PromptsFit, StreamsFit, Input!Opens
  PROVE  /\ opened + 1 \in Input!Streams /\ opened + 1 # 0 /\ mic' = mic \cup {opened + 1}
BY InputBounds DEF PromptsFit, Input!Opens, Input!Streams

LEMMA RecordersStep ==
  ASSUME PromptsFit, QuoteFits, RecordersFit, [Input!Next]_inputVars
  PROVE  RecordersFit'
<1>f. StreamsFit /\ StopsFit /\ OneRecorder /\ Input!MicrophoneIsShown
  BY DEF RecordersFit
<1>0. 0 \notin Input!Streams
  BY DEF Input!Streams
<1> DEFINE same == <<mic, running, stream, mediaRecorder, inputRecorded, isRecording,
                     stopping, leaked, inputCrossed>>
<1>1. UNCHANGED same => RecordersFit'
  BY <1>f DEF RecordersFit, StreamsFit, StopsFit, OneRecorder, Input!MicrophoneIsShown
\* A stream that replaces another leaves it open, and a recorder that runs or
\* stops beside it is a crossing.
<1>2. ASSUME Input!Replaces, UNCHANGED stopping,
             mediaRecorder' \in {mediaRecorder, opened + 1},
             \/ /\ running' = running \cup {opened + 1} /\ isRecording' = TRUE
                /\ leaked' = leaked \cup (mic \cap {stream})
             \/ /\ running' = running /\ isRecording' = isRecording
                /\ leaked' = leaked \cup (mic \cap {stream})
                                    \cup (IF isRecording THEN {} ELSE {opened + 1})
      PROVE  RecordersFit'
  <2> DEFINE s == opened + 1
  <2>1. /\ s \in Input!Streams /\ mic' = mic \cup {s} /\ stream' = s /\ inputRecorded' = {}
        /\ inputCrossed' = (inputCrossed \/ running # {} \/ stopping # {})
    BY <1>2, <1>f, OpenStream DEF Input!Replaces
  <2>2. /\ stopping' = stopping /\ mediaRecorder' \in {mediaRecorder, s}
        /\ \/ /\ running' = running \cup {s} /\ isRecording' = TRUE
              /\ leaked' = leaked \cup (mic \cap {stream})
           \/ /\ running' = running /\ isRecording' = isRecording
              /\ leaked' = leaked \cup (mic \cap {stream}) \cup (IF isRecording THEN {} ELSE {s})
    BY <1>2
  <2> HIDE DEF s
  <2>3. StreamsFit' /\ StopsFit'
    BY <1>f, <2>1, <2>2 DEF StreamsFit, StopsFit
  <2>4. OneRecorder'
    BY <1>f, <2>1, <2>2 DEF StreamsFit, OneRecorder
  <2>5. Input!MicrophoneIsShown'
    BY <1>f, <2>1, <2>2 DEF StreamsFit, Input!MicrophoneIsShown
  <2> QED
    BY <2>3, <2>4, <2>5 DEF RecordersFit
<1>g. CASE Input!Granted
  <2>1. /\ Input!Replaces /\ UNCHANGED stopping /\ mediaRecorder' = opened + 1
        /\ running' = running \cup {opened + 1} /\ isRecording' = TRUE
        /\ leaked' = leaked \cup (mic \cap {stream})
    BY <1>g DEF Input!Granted
  <2> QED
    BY <1>2, <2>1
<1>h. ASSUME NEW made \in BOOLEAN, Input!StartFails(made) PROVE RecordersFit'
  <2>1. /\ Input!Replaces /\ UNCHANGED stopping
        /\ mediaRecorder' \in {mediaRecorder, opened + 1}
        /\ running' = running /\ isRecording' = isRecording
        /\ leaked' = leaked \cup (mic \cap {stream})
                            \cup (IF isRecording THEN {} ELSE {opened + 1})
    BY <1>h DEF Input!StartFails
  <2> QED
    BY <1>2, <2>1
<1>3. CASE Input!GrantedLate
  <2> DEFINE s == opened + 1
  <2>1. /\ s \in Input!Streams /\ mic' = mic \cup {s} /\ leaked' = leaked \cup {s}
        /\ UNCHANGED <<inputCrossed, running, stream, mediaRecorder, inputRecorded,
                       isRecording, stopping>>
    BY <1>3, <1>f, OpenStream DEF Input!GrantedLate
  <2> HIDE DEF s
  <2> QED
    BY <1>f, <2>1 DEF RecordersFit, StreamsFit, StopsFit, OneRecorder, Input!MicrophoneIsShown
<1>4. ASSUME NEW s \in running, Input!Data(s) PROVE RecordersFit'
  BY <1>4, <1>f DEF Input!Data, RecordersFit, StreamsFit, StopsFit, OneRecorder,
     Input!MicrophoneIsShown
<1>5. CASE Input!SendVoice
  <2>1. /\ mediaRecorder \in running /\ running' = running \ {mediaRecorder}
        /\ UNCHANGED <<mic, stream, mediaRecorder, inputRecorded, isRecording, leaked,
                       inputCrossed>>
    BY <1>5 DEF Input!SendVoice
  <2>2. StreamsFit' /\ Input!MicrophoneIsShown'
    BY <1>f, <2>1 DEF StreamsFit, Input!MicrophoneIsShown
  <2>a. stopping' = stopping
                     \cup {[stream |-> mediaRecorder, reply |-> replyingTo, byId |-> byId]}
    BY <1>5 DEF Input!SendVoice
  <2>3. \A c \in stopping' : c \in stopping \/ (c.stream = mediaRecorder /\ c.byId = byId)
    BY <2>a
  <2>4. StopsFit' /\ OneRecorder'
    BY <1>f, <2>1, <2>3 DEF StopsFit, OneRecorder, StreamsFit, QuoteFits
  <2> QED
    BY <2>2, <2>4 DEF RecordersFit
\* The recorder stops: with the message, or for the cross.
<1>6. ASSUME mic' = mic \ {stream}, running' \subseteq running \ {stream}, stream' = 0,
             inputRecorded' = {}, isRecording' = FALSE, stopping' \subseteq stopping,
             UNCHANGED <<mediaRecorder, leaked, inputCrossed>>
      PROVE  RecordersFit'
  BY <1>6, <1>f, <1>0 DEF RecordersFit, StreamsFit, StopsFit, OneRecorder,
     Input!MicrophoneIsShown
<1>7. CASE Input!CancelRecording \/ \E c \in stopping : Input!OnStop(c)
  BY <1>6, <1>7 DEF Input!CancelRecording, Input!OnStop
<1>8. CASE Input!Leave
  <2>1. /\ stopping = {} /\ stopping' = {} /\ mic' = mic /\ running' = {} /\ stream' = 0
        /\ mediaRecorder' = 0
        /\ inputRecorded' = {} /\ isRecording' = FALSE /\ leaked' = leaked \cup mic
        /\ inputCrossed' = inputCrossed
    BY <1>8 DEF Input!Leave
  <2> QED
    BY <1>f, <1>0, <2>1 DEF RecordersFit, StreamsFit, StopsFit, OneRecorder,
       Input!MicrophoneIsShown
<1>9. ASSUME NEW b \in Bubbles,
             Input!Confirmed(b) \/ Input!Edit(b) \/ Input!ReplyFromMenu(b) \/ Input!Swipe(b)
      PROVE  RecordersFit'
  BY <1>1, <1>9 DEF Input!Confirmed, Input!Edit, Input!ReplyFromMenu, Input!Swipe,
     Input!OnReply, Input!recorder
<1>10. CASE \/ Input!Type \/ Input!CancelEdit \/ Input!CancelReply \/ Input!SendText
            \/ Input!SendFile \/ Input!StartRecording \/ Input!Denied \/ UNCHANGED inputVars
  BY <1>1, <1>10 DEF Input!Type, Input!CancelEdit, Input!CancelReply, Input!SendText,
     Input!SendFile, Input!StartRecording, Input!Denied, inputVars, Input!recorder
<1> QED
  BY <1>g, <1>h, <1>3, <1>4, <1>5, <1>7, <1>8, <1>9, <1>10 DEF Input!Next

LEMMA LastStep == ASSUME InputInv, [Input!Next]_inputVars PROVE LastFits'
<1>f. LastFits /\ StreamsFit /\ StopsFit /\ OneRecorder /\ WordsFit /\ byId \in BOOLEAN
  BY DEF InputInv, QuoteFits
<1>0. last' = last /\ (inputCrossed => inputCrossed') => LastFits'
  BY <1>f DEF LastFits
<1>1. CASE Input!SendText
  <2>1. inputCrossed' = inputCrossed
    BY <1>1 DEF Input!SendText, Input!recorder
  <2>2. CASE editing # NoBubble
    BY <1>0, <1>1, <2>1, <2>2 DEF Input!SendText, Input!sends
  <2>3. CASE editing = NoBubble
    <3>1. /\ last'.text = text /\ last'.shown = replyingTo /\ last'.byId = byId
          /\ last'.stored = (IF byId THEN replyingTo ELSE NoBubble) /\ last'.holds = {}
      BY <1>1, <2>3 DEF Input!SendText, Input!Send
    <3> QED
      BY <1>f, <2>1, <2>3, <3>1 DEF LastFits, WordsFit
  <2> QED
    BY <2>2, <2>3
<1>2. CASE Input!SendFile
  <2>1. /\ last'.text = "empty" /\ last'.shown = replyingTo /\ last'.byId = byId
        /\ last'.stored = (IF byId THEN replyingTo ELSE NoBubble) /\ last'.holds = {}
    BY <1>2 DEF Input!SendFile, Input!Send
  <2> QED
    BY <1>f, <2>1 DEF LastFits
<1>3. ASSUME NEW c \in stopping, Input!OnStop(c) PROVE LastFits'
  <2> DEFINE holds == inputRecorded \cup {c.stream}
  <2>1. holds \in SUBSET Input!Streams /\ c.stream \in Input!Streams /\ c.byId \in BOOLEAN
    BY <1>f DEF StreamsFit, StopsFit
  <2>2. 0 \notin Input!Streams
    BY DEF Input!Streams
  <2>3. ~inputCrossed => holds = {c.stream}
    BY <1>f, <2>1, <2>2 DEF OneRecorder, StreamsFit
  <2>4. /\ last'.text = "empty" /\ last'.shown = c.reply /\ last'.byId = c.byId
        /\ last'.stored = (IF c.byId THEN c.reply ELSE NoBubble) /\ last'.holds = holds
        /\ inputCrossed' = inputCrossed
    BY <1>3 DEF Input!OnStop, Input!Send
  <2> HIDE DEF holds
  <2> QED
    BY <1>f, <2>1, <2>3, <2>4 DEF LastFits
<1>4. ASSUME NEW b \in Bubbles,
             Input!Confirmed(b) \/ Input!Edit(b) \/ Input!ReplyFromMenu(b) \/ Input!Swipe(b)
      PROVE  LastFits'
  BY <1>0, <1>4 DEF Input!Confirmed, Input!Edit, Input!ReplyFromMenu, Input!Swipe,
     Input!OnReply, Input!recorder, Input!sends
<1>5. CASE Input!Type \/ Input!CancelEdit \/ Input!CancelReply
  BY <1>0, <1>5 DEF Input!Type, Input!CancelEdit, Input!CancelReply, Input!recorder,
     Input!sends
<1>7. CASE Input!StartRecording \/ Input!Denied \/ UNCHANGED inputVars
  BY <1>0, <1>7 DEF Input!StartRecording, Input!Denied, inputVars, Input!sends
<1>6. CASE \/ Input!Granted \/ Input!GrantedLate \/ Input!SendVoice \/ Input!CancelRecording
           \/ Input!Leave \/ \E s \in running : Input!Data(s)
           \/ \E made \in BOOLEAN : Input!StartFails(made)
  BY <1>0, <1>6 DEF Input!Granted, Input!StartFails, Input!Replaces, Input!GrantedLate,
     Input!SendVoice, Input!CancelRecording, Input!Leave, Input!Data, Input!sends
<1> QED
  BY <1>1, <1>2, <1>3, <1>4, <1>5, <1>6, <1>7 DEF Input!Next

LEMMA NextInput == InputInv /\ [Input!Next]_inputVars => InputInv'
BY PromptsStep, WordsStep, RecordersStep, LastStep DEF InputInv, RecordersFit

LEMMA InputFits == InputInv => Input!TypeOK /\ Input!MicrophoneIsShown /\ Input!SentAsShown
<1> SUFFICES ASSUME InputInv PROVE Input!TypeOK /\ Input!SentAsShown
  BY DEF InputInv
<1>0. stream \in 0 .. MaxStreams /\ mediaRecorder \in 0 .. MaxStreams
  BY InputBounds DEF InputInv, StreamsFit, Input!Streams
<1>1. Input!TypeOK
  BY <1>0 DEF InputInv, WordsFit, QuoteFits, PromptsFit, StreamsFit, StopsFit, LastFits,
     Input!TypeOK
<1>2. ~inputCrossed => \A s, t \in last.holds : s = t
  BY DEF InputInv, LastFits
<1>3. /\ text = "edit" => editing # NoBubble
      /\ text = "draft" => editing = NoBubble
      /\ last.text # "edit"
      /\ last.byId => last.stored = last.shown
  BY DEF InputInv, WordsFit, LastFits
<1> QED
  BY <1>1, <1>2, <1>3 DEF Input!SentAsShown

-----------------------------------------------------------------------------
(* What the conversation page shows.                                       *)

LEMMA PageSteps == [ServicesNext]_servicesVars =>
  /\ [Picturing!Next]_avatarVars /\ [Playing!Next]_mediaVars
  /\ [Viewing!Next]_viewerVars /\ [Input!Next]_inputVars
BY DEF ServicesNext, servicesVars, avatarVars, mediaVars, viewerVars, inputVars, Others

LEMMA AvatarFits == AvatarInv => Picturing!TypeOK /\ Picturing!PictureOfItsUser
BY DEF AvatarInv, AsksForItsUser, ResolvedAtRest, Picturing!TypeOK, Picturing!PictureOfItsUser,
   Picturing!Shown

\* The input, the viewer, the player and the picture keep their own (these are
\* the four machines of useVoiceRecorder.ts, ImageViewer.tsx, useMediaUrl.ts with
\* VoicePlayer.tsx, and useSignedAvatarUrl.ts).
PageInv == InputInv /\ ViewerInv /\ MediaInv /\ AvatarInv

THEOREM PageInvariant == ServicesSpec => []PageInv
<1>1. ServicesInit => PageInv
  BY InitInput, InitViewer, InitMedia, InitAvatar DEF ServicesInit, PageInv
<1>2. PageInv /\ [ServicesNext]_servicesVars => PageInv'
  BY PageSteps, NextInput, NextViewer, NextMedia, NextAvatar DEF PageInv
<1> QED
  BY <1>1, <1>2, PTL DEF ServicesSpec

\* The microphone is open only under the red bar, an edit and a draft are never
\* mistaken for each other, a fitted image is in the centre, the player plays
\* what its button says, and the picture is the user's, but for the cases that
\* the history variables name: for any number of bubbles, streams, scales,
\* signed URLs and pictures.
THEOREM WhatIsShownIsSo == ServicesSpec => []ShownIsSo
<1>1. PageInv => ShownIsSo
  BY InputFits, ViewerFits, MediaFits, AvatarFits DEF PageInv, ShownIsSo
<1> QED
  BY <1>1, PageInvariant, PTL

-----------------------------------------------------------------------------
(* The place of the reader.                                                *)

Newest == StoredAtOpen + Arriving

\* The screen shows a message of the list.
PlaceFlags ==
  isFirstLoad \in BOOLEAN /\ isLoadingMore \in BOOLEAN /\ scrollCrossed \in BOOLEAN
PlaceFits ==
  /\ lo \in Int /\ hi \in Int /\ at \in Int /\ prevScrollHeight \in Nat
  /\ isFirstLoad => /\ lo = 0 /\ hi = 0 /\ at = 0 /\ prevScrollHeight = 0
                    /\ ~isLoadingMore /\ anchors = 0
  /\ ~isFirstLoad => 1 <= lo /\ lo <= at /\ at <= hi /\ hi <= Newest
\* A height is kept while its page is under way, and is that of the list, whose
\* first message is on the screen.
HeightKept == ~scrollCrossed =>
  IF isLoadingMore THEN prevScrollHeight = hi - lo + 1 /\ at = lo ELSE prevScrollHeight = 0
ScrollInv == PlaceFlags /\ PlaceFits /\ HeightKept

LEMMA ScrollBounds ==
  /\ StoredAtOpen \in Nat /\ Arriving \in Nat /\ PageSize \in Nat \ {0} /\ Newest \in Nat
  /\ MaxChanges \in Nat /\ MaxFailures \in Nat
<1>1. StoredAtOpen \in Nat /\ Arriving \in Nat /\ PageSize \in Nat \ {0}
  BY ServicesAssumption, Zenon DEF ServicesAssumption
<1>2. MaxChanges \in Nat /\ MaxFailures \in Nat
  BY ServicesAssumption, Zenon DEF ServicesAssumption
<1> QED
  BY <1>1, <1>2 DEF Newest

LEMMA InitScroll == Scrolling!Init => ScrollInv
<1> SUFFICES ASSUME Scrolling!Init PROVE ScrollInv
  OBVIOUS
<1>1. /\ lo = 0 /\ hi = 0 /\ at = 0 /\ prevScrollHeight = 0 /\ anchors = 0
      /\ isFirstLoad = TRUE /\ isLoadingMore = FALSE /\ scrollCrossed = FALSE
  BY DEF Scrolling!Init
<1>2. PlaceFlags /\ ~isLoadingMore /\ isFirstLoad
  BY <1>1, Zenon DEF PlaceFlags
<1>3. PlaceFits /\ HeightKept
  BY <1>1, <1>2 DEF PlaceFits, HeightKept
<1> QED
  BY <1>2, <1>3 DEF ScrollInv

\* The layout effect keeps the reader in the list l..h.
LEMMA RenderedScroll ==
  ASSUME PlaceFits, isFirstLoad \in BOOLEAN, NEW l \in Int, NEW h \in Int,
         Scrolling!Rendered(l, h), 1 <= l, l <= h, h <= Newest,
         ~isFirstLoad => l <= lo /\ hi <= h
  PROVE  /\ PlaceFits' /\ lo' = l /\ hi' = h /\ isFirstLoad' = FALSE /\ prevScrollHeight' = 0
         /\ ~isFirstLoad /\ prevScrollHeight > 0 /\ prevScrollHeight <= h - l + 1
              => at' = h + 1 - prevScrollHeight
         /\ ~isFirstLoad /\ prevScrollHeight = 0
              => at' = IF autoScroll THEN h ELSE l + (at - lo)
<1> USE ScrollBounds
<1> DEFINE added == h - l + 1 - prevScrollHeight
<1>1. Scrolling!Height(l, h) = h - l + 1
  BY DEF Scrolling!Height
<1>2. /\ lo' = l /\ hi' = h /\ isFirstLoad' = FALSE
      /\ prevScrollHeight' = IF isFirstLoad THEN prevScrollHeight ELSE 0
      /\ at' = Scrolling!Placed(l, h)
  BY DEF Scrolling!Rendered, Scrolling!Forget
<1>3. /\ prevScrollHeight \in Nat /\ lo \in Int /\ hi \in Int /\ at \in Int
      /\ isFirstLoad => prevScrollHeight = 0
      /\ ~isFirstLoad => 1 <= lo /\ lo <= at /\ at <= hi /\ hi <= Newest
  BY DEF PlaceFits
<1>4. prevScrollHeight' = 0 /\ isFirstLoad' = FALSE
  BY <1>2, <1>3
<1>5. /\ at' \in Int /\ l <= at' /\ at' <= h
      /\ ~isFirstLoad /\ prevScrollHeight > 0 /\ prevScrollHeight <= h - l + 1
           => at' = h + 1 - prevScrollHeight
      /\ ~isFirstLoad /\ prevScrollHeight = 0
           => at' = IF autoScroll THEN h ELSE l + (at - lo)
  <2>1. CASE isFirstLoad
    <3>1. at' = h
      BY <1>2, <2>1 DEF Scrolling!Placed
    <3> QED
      BY <2>1, <3>1
  <2>2. CASE ~isFirstLoad /\ prevScrollHeight > 0
    <3>1. at' = IF added < 0 THEN l ELSE l + added
      <4>1. at' = IF Scrolling!Height(l, h) - prevScrollHeight < 0 THEN l
                  ELSE l + (Scrolling!Height(l, h) - prevScrollHeight)
        BY <1>2, <2>2 DEF Scrolling!Placed
      <4>2. Scrolling!Height(l, h) - prevScrollHeight = added
        BY <1>1, <1>3
      <4> HIDE DEF added
      <4> QED
        BY <4>1, <4>2
    <3>2. added \in Int /\ l + added <= h
      BY <1>3, <2>2
    <3>3. l + added = h + 1 - prevScrollHeight
      BY <1>3
    <3>4. at' \in Int /\ l <= at' /\ at' <= h
      <4> HIDE DEF added
      <4> QED
        BY <3>1, <3>2
    <3>5. prevScrollHeight <= h - l + 1 => added >= 0
      BY <1>3
    <3>6. prevScrollHeight <= h - l + 1 => at' = h + 1 - prevScrollHeight
      <4> HIDE DEF added
      <4> QED
        BY <3>1, <3>2, <3>3, <3>5
    <3> QED
      BY <2>2, <3>4, <3>6
  <2>3. CASE ~isFirstLoad /\ ~(prevScrollHeight > 0)
    <3>1. prevScrollHeight = 0
      BY <1>3, <2>3
    <3>2. at' = IF autoScroll THEN h ELSE l + (at - lo)
      BY <1>2, <2>3, <3>1 DEF Scrolling!Placed
    <3>3. at' \in Int /\ l <= at' /\ at' <= h
      BY <1>3, <2>3, <3>2
    <3> QED
      BY <3>1, <3>2, <3>3
  <2> QED
    BY <2>1, <2>2, <2>3
<1>6. PlaceFits'
  BY <1>2, <1>4, <1>5 DEF PlaceFits
<1> QED
  BY <1>2, <1>4, <1>5, <1>6

LEMMA NextScroll == ScrollInv /\ [Scrolling!Next]_scrollVars => ScrollInv'
<1> SUFFICES ASSUME ScrollInv, [Scrolling!Next]_scrollVars PROVE ScrollInv'
  OBVIOUS
<1> USE ScrollBounds
<1>f. /\ PlaceFlags /\ PlaceFits /\ HeightKept
      /\ isFirstLoad \in BOOLEAN /\ isLoadingMore \in BOOLEAN /\ scrollCrossed \in BOOLEAN
  BY DEF ScrollInv, PlaceFlags
<1>n. /\ prevScrollHeight \in Nat /\ lo \in Int /\ hi \in Int /\ at \in Int
      /\ isFirstLoad => /\ lo = 0 /\ hi = 0 /\ at = 0 /\ prevScrollHeight = 0
                        /\ ~isLoadingMore /\ anchors = 0
      /\ ~isFirstLoad => 1 <= lo /\ lo <= at /\ at <= hi /\ hi <= Newest
  BY <1>f DEF PlaceFits
<1>h. ~scrollCrossed => IF isLoadingMore THEN prevScrollHeight = hi - lo + 1 /\ at = lo
                        ELSE prevScrollHeight = 0
  BY <1>f DEF HeightKept
<1>1. CASE UNCHANGED scrollVars
  <2>1. UNCHANGED <<lo, hi, at, isFirstLoad, prevScrollHeight, isLoadingMore, anchors,
                    scrollCrossed>>
    BY <1>1 DEF scrollVars
  <2> QED
    BY <2>1, <1>f DEF ScrollInv, PlaceFlags, PlaceFits, HeightKept
<1>2. CASE Scrolling!Opened
  <2> DEFINE l == IF StoredAtOpen > PageSize THEN StoredAtOpen - PageSize + 1 ELSE 1
  <2>1. /\ Scrolling!Rendered(l, StoredAtOpen) /\ hi = 0 /\ StoredAtOpen > 0
        /\ UNCHANGED <<isLoadingMore, scrollCrossed>>
    BY <1>2 DEF Scrolling!Opened
  <2>2. l \in Int /\ 1 <= l /\ l <= StoredAtOpen /\ StoredAtOpen <= Newest
    BY <2>1 DEF Newest
  <2>3. isFirstLoad /\ ~isLoadingMore
    BY <1>n, <1>f, <2>1
  <2> HIDE DEF l
  <2>a. StoredAtOpen \in Int /\ (~isFirstLoad => l <= lo /\ hi <= StoredAtOpen)
    BY <2>3
  <2>4. PlaceFits' /\ prevScrollHeight' = 0 /\ isFirstLoad' = FALSE
    BY <1>f, <2>a, <2>1, <2>2, RenderedScroll
  <2>5. PlaceFlags'
    BY <1>f, <2>1, <2>4, Zenon DEF PlaceFlags
  <2> QED
    BY <2>1, <2>3, <2>4, <2>5 DEF ScrollInv, HeightKept
<1>3. ASSUME NEW h \in Int, hi # 0, hi <= h, h <= Newest, Scrolling!Rendered(lo, h),
             scrollCrossed' = isLoadingMore, UNCHANGED isLoadingMore
      PROVE  ScrollInv'
  <2>1. ~isFirstLoad /\ lo \in Int /\ 1 <= lo /\ lo <= h /\ lo <= lo
    BY <1>3, <1>n, <1>f
  <2>2. PlaceFits' /\ prevScrollHeight' = 0 /\ isFirstLoad' = FALSE
    BY <1>3, <1>f, <2>1, RenderedScroll
  <2>3. PlaceFlags'
    BY <1>3, <1>f, <2>2, Zenon DEF PlaceFlags
  <2> QED
    BY <1>3, <2>2, <2>3 DEF ScrollInv, HeightKept
<1>4. CASE Scrolling!Arrives
  <2>1. hi + 1 \in Int /\ hi # 0 /\ hi <= hi + 1 /\ hi + 1 <= Newest
    BY <1>4, <1>n DEF Scrolling!Arrives, Newest
  <2> QED
    BY <1>3, <1>4, <2>1 DEF Scrolling!Arrives
<1>5. CASE Scrolling!Changes
  <2>1. hi # 0 /\ hi <= hi /\ hi <= Newest
    BY <1>5, <1>n, <1>f DEF Scrolling!Changes
  <2> QED
    BY <1>3, <1>5, <1>n, <2>1 DEF Scrolling!Changes
<1>6. CASE Scrolling!Anchor
  <2>1. /\ anchors > 0 /\ at' = hi /\ UNCHANGED <<lo, hi, isFirstLoad, prevScrollHeight>>
        /\ scrollCrossed' = (scrollCrossed \/ (isLoadingMore /\ at # hi))
        /\ UNCHANGED isLoadingMore
    BY <1>6 DEF Scrolling!Anchor, Scrolling!list, Scrolling!refs
  <2>2. ~isFirstLoad
    BY <1>n, <2>1
  <2>3. PlaceFits'
    BY <1>n, <2>1, <2>2 DEF PlaceFits
  <2>4. PlaceFlags'
    BY <1>f, <2>1, Zenon DEF PlaceFlags
  <2>5. ~scrollCrossed' => ~scrollCrossed /\ (~isLoadingMore \/ at = hi)
    BY <2>1
  <2>6. HeightKept'
    BY <1>h, <2>1, <2>5 DEF HeightKept
  <2> QED
    BY <2>3, <2>4, <2>6 DEF ScrollInv
<1>7. ASSUME UNCHANGED <<Scrolling!list, at, isFirstLoad, anchors>>,
             \/ Scrolling!LoadMore /\ Scrolling!CanLoad /\ at = lo /\ scrollCrossed' = FALSE
             \/ UNCHANGED <<prevScrollHeight, isLoadingMore, scrollCrossed>>
      PROVE  ScrollInv'
  <2>1. UNCHANGED <<lo, hi, at, isFirstLoad, anchors>>
    BY <1>7 DEF Scrolling!list
  <2>2. CASE UNCHANGED <<prevScrollHeight, isLoadingMore, scrollCrossed>>
    BY <2>1, <2>2, <1>f DEF ScrollInv, PlaceFlags, PlaceFits, HeightKept
  <2>3. CASE Scrolling!LoadMore /\ Scrolling!CanLoad /\ at = lo /\ scrollCrossed' = FALSE
    <3>1. /\ prevScrollHeight' = Scrolling!Height(lo, hi) /\ isLoadingMore' = TRUE /\ lo > 1
          /\ at = lo /\ scrollCrossed' = FALSE
      BY <2>3 DEF Scrolling!LoadMore, Scrolling!CanLoad
    <3>2. ~isFirstLoad /\ 1 <= lo /\ lo <= hi
      BY <1>n, <3>1
    <3>3. prevScrollHeight' = hi - lo + 1 /\ prevScrollHeight' \in Nat
      BY <1>n, <3>1, <3>2 DEF Scrolling!Height
    <3>4. PlaceFits'
      BY <1>n, <2>1, <3>2, <3>3 DEF PlaceFits
    <3>5. PlaceFlags'
      BY <1>f, <2>1, <3>1, Zenon DEF PlaceFlags
    <3>6. HeightKept'
      BY <2>1, <3>1, <3>3 DEF HeightKept
    <3> QED
      BY <3>4, <3>5, <3>6 DEF ScrollInv
  <2> QED
    BY <1>7, <2>2, <2>3
<1>8. CASE Scrolling!OnScroll \/ Scrolling!HandleLoadMoreClick
  BY <1>7, <1>8 DEF Scrolling!OnScroll, Scrolling!HandleLoadMoreClick
<1>9. CASE Scrolling!Prepended
  <2> DEFINE l == IF lo > PageSize THEN lo - PageSize ELSE 1
  <2>1. /\ Scrolling!Rendered(l, hi) /\ isLoadingMore /\ isLoadingMore' = FALSE
        /\ scrollCrossed' = FALSE
    BY <1>9 DEF Scrolling!Prepended
  <2>2. ~isFirstLoad
    BY <1>n, <2>1
  <2>3. l \in Int /\ 1 <= l /\ l <= lo /\ l <= hi /\ hi <= hi /\ hi <= Newest
    BY <1>n, <2>2
  <2> HIDE DEF l
  <2>4. PlaceFits' /\ prevScrollHeight' = 0 /\ isFirstLoad' = FALSE
    BY <1>f, <1>n, <2>1, <2>2, <2>3, RenderedScroll
  <2>5. PlaceFlags'
    BY <2>1, <2>4, Zenon DEF PlaceFlags
  <2> QED
    BY <2>1, <2>4, <2>5 DEF ScrollInv, HeightKept
<1>10. CASE Scrolling!LoadFails
  <2>1. /\ isLoadingMore' = FALSE /\ scrollCrossed' = (prevScrollHeight > 0)
        /\ UNCHANGED <<lo, hi, at, isFirstLoad, anchors, prevScrollHeight>>
    BY <1>10 DEF Scrolling!LoadFails, Scrolling!list, Scrolling!refs
  <2>2. scrollCrossed' \in BOOLEAN
    BY <2>1
  <2>3. PlaceFlags'
    BY <1>f, <2>1, <2>2, Zenon DEF PlaceFlags
  <2>4. PlaceFits'
    BY <1>n, <2>1 DEF PlaceFits
  <2>5. ~scrollCrossed' => prevScrollHeight' = 0
    <3>1. ~scrollCrossed' => ~(prevScrollHeight > 0)
      BY <2>1
    <3> QED
      BY <1>n, <2>1, <3>1
  <2>6. HeightKept'
    BY <2>1, <2>5 DEF HeightKept
  <2> QED
    BY <2>3, <2>4, <2>6 DEF ScrollInv
<1>11. ASSUME NEW m \in lo .. hi, Scrolling!UserScrolls(m) PROVE ScrollInv'
  <2>1. /\ hi # 0 /\ at' = m /\ scrollCrossed' = (scrollCrossed \/ isLoadingMore)
        /\ UNCHANGED <<lo, hi, isFirstLoad, anchors, prevScrollHeight, isLoadingMore>>
    BY <1>11 DEF Scrolling!UserScrolls, Scrolling!list, Scrolling!refs
  <2>2. ~isFirstLoad
    BY <1>n, <1>f, <2>1
  <2>3. PlaceFlags'
    BY <1>f, <2>1, Zenon DEF PlaceFlags
  <2>4. PlaceFits'
    BY <1>n, <1>11, <2>1, <2>2 DEF PlaceFits
  <2>5. HeightKept'
    BY <1>h, <2>1 DEF HeightKept
  <2> QED
    BY <2>3, <2>4, <2>5 DEF ScrollInv
<1> QED
  BY <1>1, <1>2, <1>4, <1>5, <1>6, <1>8, <1>9, <1>10, <1>11 DEF Scrolling!Next

\* A step of the page leaves the reader where he is, or follows the newest.
LEMMA PlaceStep ==
  ASSUME ScrollInv, [Scrolling!Next]_scrollVars, ~scrollCrossed, ~scrollCrossed',
         autoScroll = (at = hi), hi # 0, <<lo, hi, changes>>' # <<lo, hi, changes>>
  PROVE  at' = at \/ (lo' = lo /\ at = hi /\ at' = hi')
<1> USE ScrollBounds
<1>f. /\ PlaceFits /\ isFirstLoad \in BOOLEAN /\ isLoadingMore \in BOOLEAN
  BY DEF ScrollInv, PlaceFlags
<1>n. /\ ~isFirstLoad /\ prevScrollHeight \in Nat
      /\ lo \in Int /\ hi \in Int /\ at \in Int /\ 1 <= lo /\ lo <= at /\ at <= hi
      /\ hi <= Newest
  BY <1>f DEF PlaceFits
<1>h. IF isLoadingMore THEN prevScrollHeight = hi - lo + 1 /\ at = lo
      ELSE prevScrollHeight = 0
  BY DEF ScrollInv, HeightKept
<1>1. ASSUME NEW h \in Int, hi <= h, h <= Newest, Scrolling!Rendered(lo, h), ~isLoadingMore
      PROVE  at' = at \/ (lo' = lo /\ at = hi /\ at' = hi')
  <2>1. prevScrollHeight = 0
    BY <1>1, <1>h
  <2>2. lo \in Int /\ 1 <= lo /\ lo <= h /\ lo <= lo /\ hi <= h /\ h <= Newest
    BY <1>1, <1>n
  <2>3. lo' = lo /\ hi' = h /\ at' = IF autoScroll THEN h ELSE lo + (at - lo)
    <3>1. ~isFirstLoad /\ Scrolling!Rendered(lo, h)
      BY <1>1, <1>n
    <3> QED
      BY <1>f, <2>1, <2>2, <3>1, RenderedScroll
  <2>4. CASE autoScroll
    BY <2>3, <2>4
  <2>5. CASE ~autoScroll
    BY <1>n, <2>3, <2>5
  <2> QED
    BY <2>4, <2>5
<1>2. CASE Scrolling!Arrives
  <2>1. hi + 1 \in Int /\ hi <= hi + 1 /\ hi + 1 <= Newest
    BY <1>2, <1>n DEF Scrolling!Arrives, Newest
  <2>2. ~isLoadingMore /\ Scrolling!Rendered(lo, hi + 1)
    BY <1>2 DEF Scrolling!Arrives
  <2> QED
    BY <1>1, <2>1, <2>2
<1>3. CASE Scrolling!Changes
  <2>1. hi <= hi
    BY <1>n
  <2>2. ~isLoadingMore /\ Scrolling!Rendered(lo, hi)
    BY <1>3 DEF Scrolling!Changes
  <2> QED
    BY <1>1, <1>n, <2>1, <2>2
<1>4. CASE Scrolling!Prepended
  <2> DEFINE l == IF lo > PageSize THEN lo - PageSize ELSE 1
  <2>1. Scrolling!Rendered(l, hi) /\ isLoadingMore
    BY <1>4 DEF Scrolling!Prepended
  <2>2. l \in Int /\ 1 <= l /\ l <= lo /\ l <= hi /\ hi <= hi
    BY <1>n
  <2>3. prevScrollHeight = hi - lo + 1 /\ at = lo
    BY <1>h, <2>1
  <2>4. prevScrollHeight > 0 /\ prevScrollHeight <= hi - l + 1
    BY <1>n, <2>2, <2>3
  <2> HIDE DEF l
  <2>5. at' = hi + 1 - prevScrollHeight
    BY <1>f, <1>n, <2>1, <2>2, <2>4, RenderedScroll
  <2> QED
    BY <1>n, <2>3, <2>5
<1>5. CASE Scrolling!Opened
  BY <1>5 DEF Scrolling!Opened
<1> QED
  BY <1>2, <1>3, <1>4, <1>5 DEF Scrolling!Next, scrollVars, Scrolling!Anchor,
     Scrolling!OnScroll, Scrolling!HandleLoadMoreClick, Scrolling!LoadFails,
     Scrolling!UserScrolls, Scrolling!list

LEMMA ScrollSteps == [ServicesNext]_servicesVars => [Scrolling!Next]_scrollVars
BY DEF ServicesNext, servicesVars, scrollVars, Others

\* The height that useChatScroll keeps is that of the list whose page is under
\* way, as long as nothing came between (useChatScroll.ts:30-75).
THEOREM ScrollInvariant == ServicesSpec => []ScrollInv
<1>1. ServicesInit => ScrollInv
  BY InitScroll DEF ServicesInit
<1>2. ScrollInv /\ [ServicesNext]_servicesVars => ScrollInv'
  BY NextScroll, ScrollSteps
<1> QED
  BY <1>1, <1>2, PTL DEF ServicesSpec

\* A change of the list leaves the reader at the message on the screen, or
\* follows the newest one: for lists, pages and arrivals of any size.
THEOREM ReadersKeepTheirPlace == ServicesSpec => PlaceIsKept
<1>1. ScrollInv /\ [ServicesNext]_servicesVars =>
        [/\ ~scrollCrossed /\ ~scrollCrossed' /\ autoScroll = (at = hi)
         /\ hi # 0 /\ <<lo, hi, changes>>' # <<lo, hi, changes>>
         => at' = at \/ (lo' = lo /\ at = hi /\ at' = hi')]_scrollVars
  BY ScrollSteps, PlaceStep
<1> QED
  BY <1>1, ScrollInvariant, PTL DEF ServicesSpec, PlaceIsKept, Scrolling!PlaceIsKept,
     Scrolling!vars, scrollVars
-----------------------------------------------------------------------------
(* The page a tab stands on.                                               *)

\* What the browser keeps for all tabs is of one login; its tokens may be gone.
OneLogin ==
  /\ cookie = IF persisted = NoUser THEN "none" ELSE Routing!Role(persisted)
  /\ shellRefresh \in {persisted, NoUser}
\* A tab that is alone holds that login, and stands on no other role's page.
TabFits(t) == ~foreign[t] =>
  /\ shellUser[t] \in {persisted, NoUser}
  /\ shellAccess[t] \in {persisted, NoUser}
  /\ path[t] = "trainee" => persisted \notin AdminUsers
\* Both until a form's answer puts another user into the store; the next login
\* or logout makes them true again.
ShellInv ==
  Routing!TypeOK /\ (~shellCrossed => OneLogin /\ \A t \in Tabs : TabFits(t))

LEMMA ShellBounds ==
  MaxMoves \in Nat /\ NoUser \notin AdminUsers /\ NoUser \notin TraineeUsers
BY ServicesAssumption, Zenon DEF ServicesAssumption

LEMMA InitShell == Routing!Init => ShellInv
<1> SUFFICES ASSUME Routing!Init PROVE ShellInv
  OBVIOUS
<1>1. Routing!TypeOK
  <2>1. /\ NoUser \in Routing!Owners
        /\ Routing!NotSaving \in [of : Routing!Owners, by : Routing!Owners]
        /\ "login" \in Routing!Paths /\ "to login" \in Routing!Paths
    BY DEF Routing!Owners, Routing!NotSaving, Routing!Paths, Routing!Splashes, Routing!Pages
  <2>2. 0 \in 0 .. MaxMoves
    BY ShellBounds
  <2> QED
    BY <2>1, <2>2 DEF Routing!Init, Routing!TypeOK
<1>2. OneLogin
  BY DEF Routing!Init, OneLogin
<1>3. \A t \in Tabs : TabFits(t)
  BY ShellBounds DEF Routing!Init, TabFits
<1> QED
  BY <1>1, <1>2, <1>3 DEF ShellInv

LEMMA NextShell == ShellInv /\ [Routing!Next]_shellVars => ShellInv'
<1> SUFFICES ASSUME ShellInv, [Routing!Next]_shellVars PROVE ShellInv'
  OBVIOUS
<1> USE ShellBounds
<1> DEFINE Forms == [Tabs -> [of : Routing!Owners, by : Routing!Owners]]
           Asked == Routing!Pages \cup {"root"}
<1>t. /\ cookie \in {"none", "ADMIN", "USER"} /\ persisted \in Routing!Owners
      /\ shellRefresh \in Routing!Owners
      /\ path \in [Tabs -> Routing!Paths] /\ shellUser \in [Tabs -> Routing!Owners]
      /\ shellAccess \in [Tabs -> Routing!Owners] /\ shellLeaving \in [Tabs -> BOOLEAN]
      /\ shellSaving \in Forms
      /\ shellMoves \in 0 .. MaxMoves /\ foreign \in [Tabs -> BOOLEAN]
      /\ shellCrossed \in BOOLEAN
  BY DEF ShellInv, Routing!TypeOK
<1>o. ~shellCrossed => OneLogin /\ \A t \in Tabs : TabFits(t)
  BY DEF ShellInv
<1>m. /\ Routing!Move => shellMoves' \in 0 .. MaxMoves
      /\ NoUser \in Routing!Owners /\ Routing!NotSaving \in [of : Routing!Owners, by : Routing!Owners]
      /\ Routing!LoginUsers \subseteq Routing!Owners
  BY <1>t DEF Routing!Move, Routing!Owners, Routing!NotSaving
\* The middleware lets nobody but a trainee onto the trainee's page.
<1>w. ASSUME NEW p \in Asked
      PROVE  /\ Routing!Middleware(p) \in Routing!Paths
             /\ Routing!Middleware(p) = "trainee" /\ OneLogin => persisted \notin AdminUsers
  <2>1. Routing!Middleware(p) \in Routing!Paths
    BY DEF Routing!Middleware, Routing!Mounted, Routing!Paths, Routing!Pages, Routing!Splashes
  <2>2. Routing!Middleware(p) = "trainee" => cookie # "ADMIN"
    BY <1>t DEF Routing!Middleware, Routing!Mounted, Routing!Pages
  <2>3. OneLogin /\ persisted \in AdminUsers => cookie = "ADMIN"
    BY DEF OneLogin, Routing!Role
  <2> QED
    BY <2>1, <2>2, <2>3
<1>1. CASE UNCHANGED shellVars
  <2>1. UNCHANGED <<cookie, persisted, shellRefresh, path, shellUser, shellAccess,
                    shellLeaving, shellSaving, shellMoves, foreign, shellCrossed>>
    BY <1>1 DEF shellVars
  <2> QED
    BY <2>1 DEF ShellInv, Routing!TypeOK, OneLogin, TabFits
\* A tab changes its page by the middleware.
<1>2. ASSUME NEW t \in Tabs, NEW p \in Asked, Routing!Go(t, p),
             UNCHANGED <<cookie, persisted, shellRefresh, shellUser, shellAccess, foreign,
                         shellSaving, shellCrossed>>,
             shellLeaving' \in [Tabs -> BOOLEAN], shellMoves' \in 0 .. MaxMoves
      PROVE  ShellInv'
  <2>1. path' = [path EXCEPT ![t] = Routing!Middleware(p)]
    BY <1>2 DEF Routing!Go
  <2>2. path' \in [Tabs -> Routing!Paths]
    BY <1>t, <1>w, <2>1
  <2>3. Routing!TypeOK'
    BY <1>2, <1>t, <2>2 DEF Routing!TypeOK
  <2>4. OneLogin => OneLogin'
    BY <1>2 DEF OneLogin
  <2>5. ASSUME NEW s \in Tabs, OneLogin, TabFits(s) PROVE TabFits(s)'
    <3>1. path'[s] = "trainee" => path[s] = "trainee" \/ persisted \notin AdminUsers
      BY <1>t, <1>w, <2>1, <2>5
    <3> QED
      BY <1>2, <2>5, <3>1 DEF TabFits
  <2> QED
    BY <1>2, <1>o, <2>3, <2>4, <2>5 DEF ShellInv
\* A full load takes the store of the browser.
<1>3. ASSUME NEW t \in Tabs, NEW p \in Asked, Routing!Load(t, p),
             shellMoves' \in 0 .. MaxMoves, UNCHANGED <<cookie, persisted, shellCrossed>>,
             shellRefresh' \in {shellRefresh, NoUser},
             \/ UNCHANGED <<shellAccess, foreign>>
             \/ /\ shellAccess' = [shellAccess EXCEPT ![t] = NoUser]
                /\ foreign' = [foreign EXCEPT ![t] = FALSE]
      PROVE  ShellInv'
  <2>1. /\ path' = [path EXCEPT ![t] = Routing!Middleware(p)]
        /\ shellUser' = [shellUser EXCEPT ![t] = persisted]
        /\ shellLeaving' = [shellLeaving EXCEPT ![t] = FALSE]
        /\ shellSaving' = [shellSaving EXCEPT ![t] = Routing!NotSaving]
    BY <1>3 DEF Routing!Load, Routing!Go
  <2>2. /\ path' \in [Tabs -> Routing!Paths] /\ shellUser' \in [Tabs -> Routing!Owners]
        /\ shellLeaving' \in [Tabs -> BOOLEAN] /\ shellSaving' \in Forms
    BY <1>t, <1>m, <1>w, <2>1
  <2>3. shellAccess' \in [Tabs -> Routing!Owners] /\ foreign' \in [Tabs -> BOOLEAN]
    BY <1>3, <1>t, <1>m
  <2>4. Routing!TypeOK'
    BY <1>3, <1>t, <1>m, <2>2, <2>3 DEF Routing!TypeOK
  <2>5. OneLogin => OneLogin'
    BY <1>3 DEF OneLogin
  <2>6. ASSUME NEW s \in Tabs, OneLogin, TabFits(s) PROVE TabFits(s)'
    <3>2. CASE s = t
      <4>1. /\ shellUser'[s] = persisted /\ path'[s] = Routing!Middleware(p)
            /\ shellAccess'[s] = NoUser \/ (shellAccess'[s] = shellAccess[s] /\ foreign'[s] = foreign[s])
        BY <1>3, <1>t, <2>1, <3>2
      <4> QED
        BY <1>3, <1>w, <2>6, <4>1 DEF TabFits
    <3>3. CASE s # t
      <4>1. /\ shellUser'[s] = shellUser[s] /\ path'[s] = path[s]
            /\ shellAccess'[s] = shellAccess[s] /\ foreign'[s] = foreign[s]
        BY <1>3, <1>t, <2>1, <3>3
      <4> QED
        BY <1>3, <2>6, <4>1 DEF TabFits
    <3> QED
      BY <3>2, <3>3
  <2> QED
    BY <1>3, <1>o, <2>4, <2>5, <2>6 DEF ShellInv
<1>4. ASSUME NEW t \in Tabs, NEW p \in Asked, Routing!Follow(t, p) PROVE ShellInv'
  BY <1>2, <1>4, <1>m, <1>t DEF Routing!Follow, Routing!history
<1>5. ASSUME NEW t \in Tabs, NEW p \in Asked, NEW b \in BOOLEAN,
             Routing!Visit(t, p, b)
      PROVE  ShellInv'
  BY <1>3, <1>5, <1>m DEF Routing!Visit
<1>6. ASSUME NEW t \in Tabs, Routing!Splash(t) PROVE ShellInv'
  <2> DEFINE p == CASE path[t] = "to login" -> "login" [] path[t] = "to admin" -> "admin"
                    [] path[t] = "to trainee" -> "trainee"
  <2>1. p \in Asked
    BY <1>6 DEF Routing!Splash, Routing!Splashes, Routing!Pages
  <2>2. Routing!Go(t, p)
    BY <1>6 DEF Routing!Splash
  <2> QED
    BY <1>2, <1>6, <1>t, <2>1, <2>2 DEF Routing!Splash, Routing!history
<1>7. ASSUME NEW t \in Tabs, Routing!GuardLeaves(t) PROVE ShellInv'
  <2>1. "login" \in Asked
    BY DEF Routing!Pages
  <2> QED
    BY <1>2, <1>7, <1>t, <2>1 DEF Routing!GuardLeaves, Routing!history
<1>8. ASSUME NEW t \in Tabs, NEW u \in Routing!LoginUsers, Routing!HandleVerify(t, u)
      PROVE  ShellInv'
  <2>1. /\ shellAccess' = [shellAccess EXCEPT ![t] = u] /\ shellRefresh' = u
        /\ shellUser' = [shellUser EXCEPT ![t] = u] /\ persisted' = u
        /\ cookie' = Routing!Role(u)
        /\ path' = [path EXCEPT ![t] = IF u \in AdminUsers THEN "admin" ELSE "trainee"]
        /\ foreign' = [s \in Tabs |-> s # t] /\ UNCHANGED <<shellLeaving, shellSaving>>
        /\ shellMoves' \in 0 .. MaxMoves /\ shellCrossed' = FALSE
    BY <1>8, <1>m DEF Routing!HandleVerify
  <2>2. u \in Routing!Owners /\ u # NoUser
    BY DEF Routing!Owners, Routing!LoginUsers
  <2>3. /\ path' \in [Tabs -> Routing!Paths] /\ shellUser' \in [Tabs -> Routing!Owners]
        /\ shellAccess' \in [Tabs -> Routing!Owners] /\ foreign' \in [Tabs -> BOOLEAN]
    BY <1>t, <2>1, <2>2 DEF Routing!Paths, Routing!Pages
  <2>4. Routing!TypeOK'
    BY <1>t, <2>1, <2>2, <2>3 DEF Routing!TypeOK, Routing!Role
  <2>5. OneLogin'
    BY <2>1, <2>2 DEF OneLogin
  <2>6. ASSUME NEW s \in Tabs PROVE TabFits(s)'
    <3>1. foreign'[s] = (s # t)
      BY <2>1
    <3>2. s = t => shellUser'[s] = u /\ shellAccess'[s] = u
                   /\ (path'[s] = "trainee" => u \notin AdminUsers)
      BY <1>t, <2>1
    <3> QED
      BY <2>1, <3>1, <3>2 DEF TabFits
  <2> QED
    BY <2>4, <2>5, <2>6 DEF ShellInv
<1>9. ASSUME NEW t \in Tabs, Routing!HandleLogout(t) PROVE ShellInv'
  <2>1. /\ UNCHANGED <<cookie, persisted, shellRefresh, path, shellUser, shellAccess,
                       shellSaving, foreign, shellCrossed>>
        /\ shellLeaving' = [shellLeaving EXCEPT ![t] = TRUE] /\ shellMoves' \in 0 .. MaxMoves
    BY <1>9, <1>m DEF Routing!HandleLogout, Routing!history
  <2>2. shellLeaving' \in [Tabs -> BOOLEAN]
    BY <1>t, <2>1
  <2>3. Routing!TypeOK'
    BY <1>t, <2>1, <2>2 DEF Routing!TypeOK
  <2> QED
    BY <1>o, <2>1, <2>3 DEF ShellInv, OneLogin, TabFits
<1>10. ASSUME NEW t \in Tabs, Routing!LogoutEnds(t) PROVE ShellInv'
  <2>1. /\ shellLeaving' = [shellLeaving EXCEPT ![t] = FALSE]
        /\ shellAccess' = [shellAccess EXCEPT ![t] = NoUser] /\ shellRefresh' = NoUser
        /\ shellUser' = [shellUser EXCEPT ![t] = NoUser] /\ persisted' = NoUser
        /\ cookie' = "none" /\ path' = [path EXCEPT ![t] = "login"]
        /\ foreign' = [s \in Tabs |-> IF s = t THEN FALSE ELSE TRUE]
        /\ UNCHANGED <<shellMoves, shellSaving>> /\ shellCrossed' = FALSE
    BY <1>10 DEF Routing!LogoutEnds
  <2>2. /\ path' \in [Tabs -> Routing!Paths] /\ shellUser' \in [Tabs -> Routing!Owners]
        /\ shellAccess' \in [Tabs -> Routing!Owners] /\ foreign' \in [Tabs -> BOOLEAN]
        /\ shellLeaving' \in [Tabs -> BOOLEAN]
    BY <1>t, <1>m, <2>1 DEF Routing!Paths, Routing!Pages
  <2>3. Routing!TypeOK'
    BY <1>t, <1>m, <2>1, <2>2 DEF Routing!TypeOK
  <2>4. OneLogin'
    BY <2>1 DEF OneLogin
  <2>5. ASSUME NEW s \in Tabs PROVE TabFits(s)'
    <3>1. foreign'[s] = IF s = t THEN FALSE ELSE TRUE
      BY <2>1
    <3>2. s = t => shellUser'[s] = NoUser /\ shellAccess'[s] = NoUser /\ path'[s] = "login"
      BY <1>t, <2>1
    <3> QED
      BY <2>1, <3>1, <3>2 DEF TabFits
  <2> QED
    BY <2>3, <2>4, <2>5 DEF ShellInv
<1>11. ASSUME NEW t \in Tabs, NEW b \in BOOLEAN, Routing!Unauthorized(t, b) PROVE ShellInv'
  <2>1. UNCHANGED <<cookie, persisted>> /\ shellMoves' \in 0 .. MaxMoves
    BY <1>11, <1>m DEF Routing!Unauthorized
  <2>2. CASE b = FALSE
    <3>1. "login" \in Asked
      BY DEF Routing!Pages
    <3> QED
      BY <1>3, <1>11, <2>1, <2>2, <3>1 DEF Routing!Unauthorized
  <2>3. CASE b = TRUE
    <3>1. /\ shellAccess' = [shellAccess EXCEPT ![t] = shellRefresh]
          /\ UNCHANGED <<shellRefresh, path, shellUser, shellLeaving, shellSaving, foreign,
                         shellCrossed>>
      BY <1>11, <2>3 DEF Routing!Unauthorized, Routing!history
    <3>2. shellAccess' \in [Tabs -> Routing!Owners]
      BY <1>t, <3>1
    <3>3. Routing!TypeOK'
      BY <1>t, <2>1, <3>1, <3>2 DEF Routing!TypeOK
    <3>4. OneLogin => OneLogin'
      BY <2>1, <3>1 DEF OneLogin
    <3>5. ASSUME NEW s \in Tabs, OneLogin, TabFits(s) PROVE TabFits(s)'
      <4>1. shellAccess'[s] \in {shellAccess[s], shellRefresh}
        BY <1>t, <3>1
      <4>2. shellRefresh \in {persisted, NoUser}
        BY <3>5 DEF OneLogin
      <4> QED
        BY <2>1, <3>1, <3>5, <4>1, <4>2 DEF TabFits
    <3> QED
      BY <1>o, <3>1, <3>3, <3>4, <3>5 DEF ShellInv
  <2> QED
    BY <2>2, <2>3
<1>12. ASSUME NEW t \in Tabs, Routing!SaveProfile(t) \/ Routing!SaveFails(t) PROVE ShellInv'
  <2>1. /\ UNCHANGED <<cookie, persisted, shellRefresh, path, shellUser, shellAccess,
                       shellLeaving, foreign, shellCrossed>>
        /\ shellMoves' \in 0 .. MaxMoves
    BY <1>12, <1>m, <1>t DEF Routing!SaveProfile, Routing!SaveFails, Routing!history
  <2>2. shellSaving' \in Forms
    <3>1. \/ shellSaving' = [shellSaving EXCEPT ![t] = Routing!NotSaving]
          \/ shellSaving' = [shellSaving EXCEPT ![t] = [of |-> shellUser[t], by |-> shellAccess[t]]]
      BY <1>12 DEF Routing!SaveProfile, Routing!SaveFails
    <3>2. [of |-> shellUser[t], by |-> shellAccess[t]] \in [of : Routing!Owners, by : Routing!Owners]
      BY <1>t
    <3> QED
      BY <1>t, <1>m, <3>1, <3>2
  <2>3. Routing!TypeOK'
    BY <1>t, <2>1, <2>2 DEF Routing!TypeOK
  <2> QED
    BY <1>o, <2>1, <2>3 DEF ShellInv, OneLogin, TabFits
\* An answer that brings the user whom the browser keeps changes nothing of it.
<1>13. ASSUME NEW t \in Tabs, NEW u \in Routing!LoginUsers, Routing!SaveEnds(t, u)
       PROVE  ShellInv'
  <2>1. /\ shellSaving' = [shellSaving EXCEPT ![t] = Routing!NotSaving]
        /\ shellUser' = [shellUser EXCEPT ![t] = u] /\ persisted' = u
        /\ shellCrossed' = (shellCrossed \/ u # persisted)
        /\ UNCHANGED <<cookie, shellRefresh, path, shellAccess, shellLeaving, shellMoves, foreign>>
    BY <1>13 DEF Routing!SaveEnds
  <2>2. shellSaving' \in Forms /\ shellUser' \in [Tabs -> Routing!Owners] /\ u \in Routing!Owners
    BY <1>t, <1>m, <2>1
  <2>3. Routing!TypeOK'
    BY <1>t, <2>1, <2>2 DEF Routing!TypeOK
  <2>4. ASSUME ~shellCrossed' PROVE OneLogin' /\ \A s \in Tabs : TabFits(s)'
    <3>1. ~shellCrossed /\ persisted' = persisted
      BY <2>1, <2>4
    <3>2. OneLogin'
      BY <1>o, <2>1, <3>1 DEF OneLogin
    <3>3. ASSUME NEW s \in Tabs PROVE TabFits(s)'
      <4>1. TabFits(s)
        BY <1>o, <3>1
      <4>2. shellUser'[s] = shellUser[s] \/ shellUser'[s] = persisted
        BY <1>t, <2>1, <3>1
      <4> QED
        BY <2>1, <3>1, <4>1, <4>2 DEF TabFits
    <3> QED
      BY <3>2, <3>3
  <2> QED
    BY <2>3, <2>4 DEF ShellInv
<1> QED
  BY <1>1, <1>4, <1>5, <1>6, <1>7, <1>8, <1>9, <1>10, <1>11, <1>12, <1>13 DEF Routing!Next

\* What PagesFitTheUser says follows from the place of the tab.
LEMMA ShellFits == ShellInv => Routing!PagesFitTheUser
<1> SUFFICES ASSUME ShellInv, ~shellCrossed, NEW t \in Tabs, ~foreign[t],
                    ~Routing!Misplaced(t), path[t] \in {"admin", "trainee"}
             PROVE  /\ path[t] = "admin" <=> shellUser[t] \in AdminUsers
                    /\ shellAccess[t] \in {shellUser[t], NoUser}
  BY DEF Routing!PagesFitTheUser
<1>1. TabFits(t)
  BY DEF ShellInv
<1> QED
  BY <1>1, ShellBounds DEF TabFits, Routing!Misplaced

-----------------------------------------------------------------------------
(* How a tab comes to show the deployed build.                             *)

ServerNumbers ==
  /\ deployed \in Builds /\ deploys \in 0 .. MaxDeploys
  /\ worker \in Int /\ 1 <= worker /\ worker <= deploys + 1
TabFlags ==
  /\ updateOnline \in BOOLEAN /\ updateLoading \in BOOLEAN /\ reloading \in BOOLEAN
  /\ swReloaded \in BOOLEAN /\ fresh \in BOOLEAN
TabPages ==
  /\ updateCuts \in 0 .. MaxOutages /\ controls \in 0 .. MaxDeploys + 1
  /\ cached \in Builds \cup {NoBuild} /\ updatePage \in Builds \cup {Offline}
  /\ loadedVersion \in Builds \cup {NoBuild} /\ updateRefresh \in {"no", "update", "caches"}
ChecksFit == checks \subseteq Updating!Checks /\ IsFiniteSet(checks)
\* The session remembers the builds it reloads for, and reloads once at a time.
GuardsFit ==
  /\ guards \subseteq tried /\ tried \subseteq Builds
  /\ reloading => updateRefresh # "no" \/ updateLoading
\* An answer since the last deployment: the document takes itself for the
\* deployed build, or is being replaced, or the session has tried that.
FreshIsKnown == fresh /\ ~updateLoading =>
  loadedVersion = deployed \/ deployed \in tried \/ updateRefresh # "no"
UpdateInv ==
  ServerNumbers /\ TabFlags /\ TabPages /\ ChecksFit /\ GuardsFit /\ FreshIsKnown

LEMMA UpdateBounds ==
  MaxDeploys \in Nat /\ MaxChecks \in Nat /\ MaxOutages \in Nat /\ NoBuild \notin Builds
BY ServicesAssumption, Zenon DEF ServicesAssumption

LEMMA UpdateTypes == UpdateInv => Updating!TypeOK
<1> SUFFICES ASSUME UpdateInv PROVE Updating!TypeOK
  OBVIOUS
<1> USE UpdateBounds DEF UpdateInv
<1>1. worker \in 1 .. MaxDeploys + 1
  BY DEF ServerNumbers
<1>2. deployed \in Builds /\ deploys \in 0 .. MaxDeploys
  BY DEF ServerNumbers
<1>3. guards \subseteq Builds /\ tried \subseteq Builds
  BY DEF GuardsFit
<1> QED
  BY <1>1, <1>2, <1>3, Zenon DEF TabFlags, TabPages, ChecksFit, Updating!TypeOK

LEMMA ChecksCounted == \A S : Updating!Cardinality(S) = Cardinality(S)
BY Zenon DEF Cardinality, Updating!Cardinality

\* A check under way has a number of its own while there is one left.
LEMMA AskFits ==
  ASSUME ChecksFit, Updating!AskVersion
  PROVE  ChecksFit'
<1> USE UpdateBounds
<1>1. CASE ~(Cardinality(checks) < MaxChecks)
  BY <1>1, ChecksCounted DEF Updating!AskVersion, ChecksFit
<1>2. CASE Cardinality(checks) < MaxChecks
  <2> DEFINE n == CHOOSE i \in 1 .. MaxChecks : \A c \in checks : c.id # i
             numbers == {c.id : c \in checks}
  <2>1. IsFiniteSet(numbers) /\ Cardinality(numbers) <= Cardinality(checks)
        /\ Cardinality(checks) \in Nat /\ Cardinality(numbers) \in Nat
    <3> DEFINE number == [c \in checks |-> c.id]
    <3>1. number \in Surjection(checks, numbers)
      BY DEF Surjection
    <3> HIDE DEF number, numbers
    <3> QED
      BY <3>1, FS_Surjection, FS_CardinalityType DEF ChecksFit
  <2>2. \E i \in 1 .. MaxChecks : \A c \in checks : c.id # i
    <3> SUFFICES ASSUME 1 .. MaxChecks \subseteq numbers PROVE FALSE
      OBVIOUS
    <3>1. Cardinality(1 .. MaxChecks) = MaxChecks
      BY FS_Interval
    <3>2. Cardinality(1 .. MaxChecks) <= Cardinality(numbers)
      BY <2>1, FS_Subset
    <3> HIDE DEF numbers
    <3> QED
      BY <1>2, <2>1, <3>1, <3>2
  <2>3. n \in 1 .. MaxChecks
    BY <2>2, Zenon
  <2>4. checks' = checks \cup {[id |-> n, v |-> NoBuild]}
    BY <1>2, ChecksCounted DEF Updating!AskVersion
  <2> HIDE DEF n
  <2>5. checks' \subseteq Updating!Checks
    BY <2>3, <2>4 DEF ChecksFit, Updating!Checks
  <2>6. IsFiniteSet(checks')
    BY <2>4, FS_AddElement DEF ChecksFit
  <2> QED
    BY <2>5, <2>6 DEF ChecksFit
<1> QED
  BY <1>1, <1>2

LEMMA InitUpdates == Updating!Init => UpdateInv
<1> SUFFICES ASSUME Updating!Init PROVE UpdateInv
  OBVIOUS
<1> USE UpdateBounds DEF Updating!Init
<1>1. ServerNumbers /\ TabPages
  BY DEF ServerNumbers, TabPages
<1>2. TabFlags
  BY DEF TabFlags
<1>3. ChecksFit
  BY FS_EmptySet DEF ChecksFit
<1>4. GuardsFit /\ FreshIsKnown
  BY DEF GuardsFit, FreshIsKnown
<1> QED
  BY <1>1, <1>2, <1>3, <1>4 DEF UpdateInv

LEMMA NextUpdates == UpdateInv /\ [Updating!Next]_updateVars => UpdateInv'
<1> SUFFICES ASSUME UpdateInv, [Updating!Next]_updateVars PROVE UpdateInv'
  OBVIOUS
<1> USE UpdateBounds
<1>i. ServerNumbers /\ TabFlags /\ TabPages /\ ChecksFit /\ GuardsFit /\ FreshIsKnown
  BY DEF UpdateInv
<1>1. CASE UNCHANGED updateVars
  <2>1. UNCHANGED <<deployed, deploys, worker, updateOnline, updateCuts, cached, controls,
                    updatePage, updateLoading, loadedVersion, reloading, swReloaded, checks,
                    updateRefresh, guards, tried, fresh>>
    BY <1>1 DEF updateVars
  <2> QED
    BY <1>i, <2>1 DEF UpdateInv, ServerNumbers, TabFlags, TabPages, ChecksFit, GuardsFit,
       FreshIsKnown
<1>2. ASSUME NEW b \in Builds, Updating!Deploy(b) PROVE UpdateInv'
  <2>1. /\ deploys < MaxDeploys /\ deploys' = deploys + 1 /\ deployed' = b
        /\ worker' = IF b \in Firsts THEN worker + 1 ELSE worker
        /\ fresh' = FALSE
        /\ UNCHANGED <<updateOnline, updateCuts, cached, controls, updatePage, updateLoading,
                       loadedVersion, reloading, swReloaded, checks, updateRefresh, guards,
                       tried>>
    BY <1>2 DEF Updating!Deploy, Updating!effect
  <2>2. ServerNumbers'
    BY <1>i, <2>1 DEF ServerNumbers
  <2> QED
    BY <1>i, <2>1, <2>2 DEF UpdateInv, TabFlags, TabPages, ChecksFit, GuardsFit, FreshIsKnown
<1>3. CASE Updating!Cut
  <2>1. /\ updateCuts < MaxOutages /\ updateCuts' = updateCuts + 1 /\ updateOnline' = FALSE
        /\ UNCHANGED <<deployed, deploys, worker, cached, controls, updatePage, updateLoading,
                       loadedVersion, reloading, swReloaded, checks, updateRefresh, guards,
                       tried, fresh>>
    BY <1>3 DEF Updating!Cut, Updating!server, Updating!effect
  <2>2. TabPages'
    BY <1>i, <2>1 DEF TabPages
  <2> QED
    BY <1>i, <2>1, <2>2 DEF UpdateInv, ServerNumbers, TabFlags, ChecksFit, GuardsFit, FreshIsKnown
\* What changes the checks and the network only.
<1>4. ASSUME ChecksFit', updateOnline' \in BOOLEAN,
             UNCHANGED <<deployed, deploys, worker, updateCuts, cached, controls, updatePage,
                         updateLoading, loadedVersion, reloading, swReloaded, updateRefresh,
                         guards, tried, fresh>>
      PROVE  UpdateInv'
  BY <1>i, <1>4 DEF UpdateInv, ServerNumbers, TabFlags, TabPages, GuardsFit, FreshIsKnown
<1>5. CASE Updating!CheckForUpdate
  BY <1>4, <1>5, <1>i, AskFits DEF Updating!CheckForUpdate, Updating!server, TabFlags
<1>6. CASE Updating!BackOnline
  <2>1. ChecksFit'
    BY <1>6, <1>i, AskFits DEF Updating!BackOnline, ChecksFit
  <2> QED
    BY <1>4, <1>6, <1>i, <2>1 DEF Updating!BackOnline, Updating!server, TabFlags
<1>7. ASSUME NEW c \in checks, Updating!ServeVersion(c) PROVE UpdateInv'
  <2>1. checks' = (checks \ {c}) \cup {[c EXCEPT !.v = deployed]}
    BY <1>7 DEF Updating!ServeVersion
  <2>2. [c EXCEPT !.v = deployed] \in Updating!Checks
    BY <1>i DEF ChecksFit, ServerNumbers, Updating!Checks
  <2>3. IsFiniteSet(checks')
    BY <1>i, <2>1, FS_RemoveElement, FS_AddElement DEF ChecksFit
  <2>4. ChecksFit'
    BY <1>i, <2>1, <2>2, <2>3 DEF ChecksFit
  <2> QED
    BY <1>4, <1>7, <1>i, <2>4 DEF Updating!ServeVersion, Updating!server, TabFlags
<1>c. ASSUME NEW c \in checks, checks' = checks \ {c} PROVE ChecksFit'
  <2>1. IsFiniteSet(checks')
    BY <1>i, <1>c, FS_RemoveElement DEF ChecksFit
  <2> QED
    BY <1>i, <1>c, <2>1 DEF ChecksFit
<1>8. ASSUME NEW c \in checks, Updating!CheckFails(c) PROVE UpdateInv'
  <2>1. ChecksFit'
    BY <1>c, <1>8 DEF Updating!CheckFails
  <2> QED
    BY <1>4, <1>8, <1>i, <2>1 DEF Updating!CheckFails, Updating!server, TabFlags
<1>9. ASSUME NEW c \in checks, Updating!Answer(c) PROVE UpdateInv'
  <2>1. /\ c.v # NoBuild /\ checks' = checks \ {c} /\ fresh' = (fresh \/ c.v = deployed)
        /\ UNCHANGED <<deployed, deploys, worker, updateOnline, updateCuts, cached, controls,
                       updatePage, updateLoading, swReloaded>>
    BY <1>9 DEF Updating!Answer, Updating!server
  <2>2. ChecksFit' /\ c.v \in Builds
    BY <1>c, <1>i, <2>1 DEF ChecksFit, Updating!Checks
  <2>3. ServerNumbers'
    BY <1>i, <2>1 DEF ServerNumbers
  <2>4. fresh' \in BOOLEAN /\ (fresh' => fresh \/ c.v = deployed)
    BY <2>1
  <2>5. CASE UNCHANGED <<reloading, updateRefresh, guards, tried>>
             /\ loadedVersion \in {NoBuild, c.v} /\ loadedVersion' = c.v
    <3>1. TabFlags' /\ TabPages'
      BY <1>i, <2>1, <2>2, <2>4, <2>5 DEF TabFlags, TabPages
    <3>2. GuardsFit'
      BY <1>i, <2>1, <2>5 DEF GuardsFit
    <3>3. FreshIsKnown'
      BY <1>i, <2>1, <2>4, <2>5 DEF FreshIsKnown, ServerNumbers
    <3> QED
      BY <2>2, <2>3, <3>1, <3>2, <3>3 DEF UpdateInv
  <2>6. CASE UNCHANGED loadedVersion /\ Updating!HardRefresh(c.v)
    <3>1. reloading' = (reloading \/ c.v \notin guards)
      BY <2>6 DEF Updating!HardRefresh
    <3>2. CASE reloading \/ c.v \in guards
      <4>1. UNCHANGED <<updateRefresh, guards, tried>>
        BY <2>6, <3>2 DEF Updating!HardRefresh
      <4>2. c.v \notin guards => reloading /\ reloading'
        BY <3>1, <3>2
      <4>3. reloading' => reloading \/ c.v \notin guards
        BY <3>1
      <4>4. reloading' \in BOOLEAN
        BY <3>1
      <4>5. TabFlags' /\ TabPages'
        BY <1>i, <2>1, <2>4, <2>6, <4>1, <4>4 DEF TabFlags, TabPages
      <4>6. GuardsFit'
        BY <1>i, <2>1, <4>1, <4>2, <4>3 DEF GuardsFit
      <4>7. FreshIsKnown'
        BY <1>i, <2>1, <2>4, <2>6, <4>1, <4>2 DEF FreshIsKnown, GuardsFit
      <4> QED
        BY <2>2, <2>3, <4>5, <4>6, <4>7 DEF UpdateInv
    <3>3. CASE ~(reloading \/ c.v \in guards)
      <4>1. updateRefresh' = "update" /\ guards' = guards \cup {c.v} /\ tried' = tried \cup {c.v}
        BY <2>6, <3>3 DEF Updating!HardRefresh
      <4>4. reloading' \in BOOLEAN
        BY <3>1
      <4>5. TabFlags' /\ TabPages'
        BY <1>i, <2>1, <2>4, <2>6, <4>1, <4>4 DEF TabFlags, TabPages
      <4>6. GuardsFit'
        BY <1>i, <2>2, <4>1 DEF GuardsFit
      <4>7. FreshIsKnown'
        BY <4>1 DEF FreshIsKnown
      <4> QED
        BY <2>2, <2>3, <4>5, <4>6, <4>7 DEF UpdateInv
    <3> QED
      BY <3>2, <3>3
  <2> QED
    BY <1>9, <2>5, <2>6 DEF Updating!Answer
<1>10. CASE Updating!HardRefreshGoesOn
  <2>1. /\ ~updateLoading
        /\ UNCHANGED <<deployed, deploys, worker, updateOnline, updateCuts, controls, updatePage,
                       loadedVersion, reloading, swReloaded, checks, guards, tried, fresh>>
        /\ \/ updateRefresh' = "caches" /\ cached' = NoBuild /\ UNCHANGED updateLoading
           \/ updateRefresh' = "no" /\ updateLoading' = TRUE /\ UNCHANGED cached
    BY <1>10 DEF Updating!HardRefreshGoesOn, Updating!server, Updating!Reload
  <2>2. TabFlags'
    BY <1>i, <2>1 DEF TabFlags
  <2>3. TabPages'
    BY <1>i, <2>1 DEF TabPages
  <2>4. ServerNumbers' /\ ChecksFit' /\ GuardsFit' /\ FreshIsKnown'
    BY <1>i, <2>1 DEF ServerNumbers, ChecksFit, GuardsFit, FreshIsKnown
  <2> QED
    BY <2>2, <2>3, <2>4 DEF UpdateInv
<1>11. CASE Updating!WorkerTakesOver
  <2>1. /\ controls' = worker
        /\ UNCHANGED <<deployed, deploys, worker, updateOnline, updateCuts, cached, updatePage,
                       loadedVersion, reloading, checks, updateRefresh, guards, tried, fresh>>
        /\ \/ UNCHANGED <<swReloaded, updateLoading>>
           \/ swReloaded' = TRUE /\ updateLoading' = TRUE
    BY <1>11 DEF Updating!WorkerTakesOver, Updating!server, Updating!Reload
  <2>2. TabFlags'
    BY <1>i, <2>1 DEF TabFlags
  <2>3. controls' \in 0 .. MaxDeploys + 1
    BY <1>i, <2>1 DEF ServerNumbers
  <2>4. TabPages'
    BY <1>i, <2>1, <2>3 DEF TabPages
  <2>5. ServerNumbers' /\ ChecksFit' /\ GuardsFit' /\ FreshIsKnown'
    BY <1>i, <2>1 DEF ServerNumbers, ChecksFit, GuardsFit, FreshIsKnown
  <2> QED
    BY <2>2, <2>4, <2>5 DEF UpdateInv
<1>12. CASE Updating!LoadPage
  <2>1. /\ updateLoading' = FALSE
        /\ updatePage' \in {deployed, Offline} \/ (cached # NoBuild /\ updatePage' = cached)
        /\ cached' \in {deployed, cached} /\ loadedVersion' = NoBuild /\ reloading' = FALSE
        /\ swReloaded' = FALSE /\ updateRefresh' = "no" /\ checks' = {} /\ fresh' = FALSE
        /\ UNCHANGED <<deployed, deploys, worker, updateOnline, updateCuts, controls, guards,
                       tried>>
    BY <1>12 DEF Updating!LoadPage, Updating!server
  <2>2. TabFlags'
    BY <1>i, <2>1 DEF TabFlags
  <2>3. updatePage' \in Builds \cup {Offline} /\ cached' \in Builds \cup {NoBuild}
    BY <1>i, <2>1 DEF ServerNumbers, TabPages
  <2>4. TabPages'
    BY <1>i, <2>1, <2>3 DEF TabPages
  <2>5. ChecksFit'
    BY <2>1, FS_EmptySet DEF ChecksFit
  <2>6. ServerNumbers' /\ GuardsFit' /\ FreshIsKnown'
    BY <1>i, <2>1 DEF ServerNumbers, GuardsFit, FreshIsKnown
  <2> QED
    BY <2>2, <2>4, <2>5, <2>6 DEF UpdateInv
<1>13. ASSUME NEW b \in BOOLEAN, Updating!UserLoads(b) PROVE UpdateInv'
  <2>1. /\ updateLoading' = TRUE
        /\ \/ UNCHANGED <<guards, tried>>
           \/ guards' = {} /\ tried' = {}
        /\ UNCHANGED <<deployed, deploys, worker, updateOnline, updateCuts, cached, controls,
                       updatePage, loadedVersion, reloading, swReloaded, checks, updateRefresh,
                       fresh>>
    BY <1>13 DEF Updating!UserLoads, Updating!server, Updating!effect, Updating!Reload
  <2>2. TabFlags'
    BY <1>i, <2>1 DEF TabFlags
  <2>3. TabPages'
    BY <1>i, <2>1 DEF TabPages
  <2>4. ServerNumbers' /\ ChecksFit' /\ GuardsFit' /\ FreshIsKnown'
    BY <1>i, <2>1 DEF ServerNumbers, ChecksFit, GuardsFit, FreshIsKnown
  <2> QED
    BY <2>2, <2>3, <2>4 DEF UpdateInv
<1> QED
  BY <1>1, <1>2, <1>3, <1>5, <1>6, <1>7, <1>8, <1>9, <1>10, <1>11, <1>12, <1>13
  DEF Updating!Next

LEMMA DeployedIsShown == UpdateInv => Updating!ShowsTheDeployed
BY DEF UpdateInv, FreshIsKnown, Updating!ShowsTheDeployed
-----------------------------------------------------------------------------
(* The live log file.                                                      *)

Lines == Seq(1 .. MaxLines)
Contents == Seq(0 .. MaxLines)
Increasing(s, n) == \A i \in 1 .. Len(s) :
  s[i] \in 1 .. n /\ \A j \in 1 .. Len(s) : i < j => s[i] < s[j]
Before(s, u) == \A i \in 1 .. Len(s), j \in 1 .. Len(u) : s[i] < u[j]

LogFlags ==
  /\ granted \in BOOLEAN /\ mounted \in BOOLEAN /\ liveActive \in BOOLEAN
  /\ swapped \in BOOLEAN /\ logCrossed \in BOOLEAN
LogPlaces ==
  /\ logStored \in Logging!Handles /\ activeHandle \in Logging!Handles
  /\ starting \in {"no", "stored", "picker"} /\ resuming \in {"no", "asked"}
LogNumbers == recorded \in 0 .. MaxLines /\ toggles \in 0 .. MaxToggles /\ mounts \in 0 .. MaxMounts
QueueFits == queue \in Lines /\ Len(queue) <= MaxQueue /\ Increasing(queue, recorded)
\* The lines of a flush are older than what was queued since.
WritingFits ==
  /\ writing \in [at : {"idle", "size", "write"}, lines : Lines, file : Logging!Handles,
                  size : Nat, base : Contents]
  /\ writing.at = "idle" => writing = Logging!Idle
  /\ writing.at # "idle" => writing.file \in LogFiles
  /\ Increasing(writing.lines, recorded) /\ Before(writing.lines, queue)
\* Unless the file changed under it, a flush appends to what it has read, and
\* all that any file holds is older.
SizeFits == ~swapped =>
  /\ writing.at = "size" => writing.size = Len(content[writing.file])
  /\ writing.at = "write" =>
       /\ writing.size = Len(writing.base)
       /\ Increasing(writing.base, recorded) /\ Before(writing.base, writing.lines)
       /\ Before(writing.base, queue)
FilesFit ==
  /\ content \in [LogFiles -> Contents]
  /\ ~swapped => \A f \in LogFiles :
       Increasing(content[f], recorded) /\ Before(content[f], writing.lines) /\ Before(content[f], queue)
\* The panel that is mounted knows whether the log is active, which it only is
\* by a grant.
PanelKnows ==
  /\ activeHandle # NoLogFile => granted
  /\ mounted /\ ~logCrossed => (liveActive <=> activeHandle # NoLogFile)
LogInv ==
  /\ LogFlags /\ LogPlaces /\ LogNumbers /\ QueueFits /\ WritingFits /\ SizeFits
  /\ FilesFit /\ PanelKnows

LEMMA LogBounds ==
  MaxLines \in Nat /\ MaxQueue \in Nat /\ MaxToggles \in Nat /\ MaxMounts \in Nat
  /\ NoLogFile \notin LogFiles
BY ServicesAssumption, Zenon DEF ServicesAssumption

LEMMA LogTypes == LogInv => Logging!TypeOK
<1> SUFFICES ASSUME LogInv PROVE Logging!TypeOK
  OBVIOUS
<1> USE LogBounds DEF LogInv
<1>1. queue \in Seq(1 .. MaxLines) /\ Len(queue) <= MaxQueue
  BY DEF QueueFits, Lines
<1>2. writing.at \in {"idle", "size", "write"} /\ writing.file \in Logging!Handles
  BY DEF WritingFits
<1>3. content \in [LogFiles -> Seq(0 .. MaxLines)]
  BY DEF FilesFit, Contents
<1> QED
  BY <1>1, <1>2, <1>3, Zenon DEF LogFlags, LogPlaces, LogNumbers, Logging!TypeOK

LEMMA EmptyIsOrdered ==
  /\ <<>> \in Lines /\ <<>> \in Contents /\ Len(<<>>) = 0
  /\ \A n : Increasing(<<>>, n)
  /\ \A s : Before(s, <<>>) /\ Before(<<>>, s)
BY DEF Lines, Contents, Increasing, Before

LEMMA InitLog == Logging!Init => LogInv
<1> SUFFICES ASSUME Logging!Init PROVE LogInv
  OBVIOUS
<1> USE LogBounds, EmptyIsOrdered
<1>1. LogFlags
  BY DEF Logging!Init, LogFlags
<1>2. LogPlaces /\ LogNumbers
  BY DEF Logging!Init, LogPlaces, LogNumbers, Logging!Handles
<1>3. queue = <<>> /\ writing = Logging!Idle /\ content = [f \in LogFiles |-> <<>>]
  BY DEF Logging!Init
<1>4. QueueFits
  BY <1>3 DEF QueueFits
<1>5. WritingFits
  BY <1>3 DEF WritingFits, Logging!Idle, Logging!Handles
<1>6. SizeFits
  BY <1>3 DEF SizeFits, Logging!Idle
<1>7. FilesFit
  BY <1>3 DEF FilesFit
<1>8. PanelKnows
  BY DEF Logging!Init, PanelKnows
<1> QED
  BY <1>1, <1>2, <1>4, <1>5, <1>6, <1>7, <1>8 DEF LogInv

\* A line is put behind the queue, whose oldest one may fall out.
LEMMA EnqueueFits ==
  ASSUME NEW e \in 1 .. MaxLines, NEW r, r = Logging!Enqueue(e),
         QueueFits, recorded \in 0 .. MaxLines, e = recorded + 1
  PROVE  /\ r \in Lines /\ Len(r) \in Nat /\ Len(r) <= MaxQueue
         /\ \A i \in 1 .. Len(r) :
              r[i] \in 1 .. e /\ (r[i] = e \/ \E k \in 1 .. Len(queue) : r[i] = queue[k])
         /\ \A i, j \in 1 .. Len(r) : i < j => r[i] < r[j]
<1> USE LogBounds
<1> DEFINE q == Append(queue, e)
           d == Len(q) - MaxQueue
           s == SubSeq(q, d + 1, Len(q))
<1>1. /\ queue \in Seq(1 .. MaxLines) /\ Len(queue) \in Nat /\ Len(queue) <= MaxQueue
      /\ \A i \in 1 .. Len(queue) : queue[i] \in 1 .. recorded
      /\ \A i, j \in 1 .. Len(queue) : i < j => queue[i] < queue[j]
  BY DEF QueueFits, Lines, Increasing
<1>2. /\ q \in Seq(1 .. MaxLines) /\ Len(q) = Len(queue) + 1
      /\ \A i \in 1 .. Len(queue) : q[i] = queue[i]
      /\ q[Len(q)] = e
  BY <1>1
<1>3. \A i \in 1 .. Len(q) : q[i] \in 1 .. e /\ (q[i] = e \/ \E k \in 1 .. Len(queue) : q[i] = queue[k])
  BY <1>1, <1>2
<1>4. \A i, j \in 1 .. Len(q) : i < j => q[i] < q[j]
  <2> SUFFICES ASSUME NEW i \in 1 .. Len(q), NEW j \in 1 .. Len(q), i < j PROVE q[i] < q[j]
    OBVIOUS
  <2>1. i \in 1 .. Len(queue) /\ q[i] = queue[i] /\ queue[i] \in 1 .. recorded
    BY <1>1, <1>2
  <2>2. CASE j = Len(q)
    BY <1>2, <2>1, <2>2
  <2>3. CASE j # Len(q)
    <3>1. j \in 1 .. Len(queue) /\ q[j] = queue[j]
      BY <1>2, <2>3
    <3> QED
      BY <1>1, <2>1, <3>1
  <2> QED
    BY <2>2, <2>3
<1> HIDE DEF q
<1>5. CASE ~(Len(q) > MaxQueue)
  <2>1. r = q
    BY <1>5 DEF Logging!Enqueue, q
  <2>2. r \in Lines /\ Len(r) \in Nat /\ Len(r) <= MaxQueue
    BY <1>2, <1>5, <2>1 DEF Lines
  <2> QED
    BY <1>3, <1>4, <2>1, <2>2, Zenon
<1>6. CASE Len(q) > MaxQueue
  <2>1. r = s
    BY <1>6 DEF Logging!Enqueue, q
  <2>2. d \in Nat /\ Len(q) = d + MaxQueue /\ Len(q) \in Nat
    BY <1>1, <1>2, <1>6
  <2>3. /\ s \in Seq(1 .. MaxLines) /\ Len(s) = MaxQueue
        /\ \A i \in 1 .. MaxQueue : s[i] = q[d + i] /\ d + i \in 1 .. Len(q)
    <3>1. d \in Nat /\ d <= Len(q) /\ Len(q) - d = MaxQueue
      BY <2>2, LogBounds
    <3> HIDE DEF d
    <3>2. s \in Seq(1 .. MaxLines) /\ Len(s) = Len(q) - d /\ \A i \in 1 .. Len(s) : s[i] = q[d + i]
      BY <1>2, <3>1, LastElements
    <3>3. \A i \in 1 .. MaxQueue : d + i \in 1 .. Len(q)
      BY <2>2, LogBounds
    <3> QED
      BY <3>1, <3>2, <3>3
  <2> HIDE DEF s, d
  <2>4. \A i \in 1 .. MaxQueue : s[i] \in 1 .. e /\ (s[i] = e \/ \E k \in 1 .. Len(queue) : s[i] = queue[k])
    BY <1>3, <2>3
  <2>5. \A i, j \in 1 .. MaxQueue : i < j => s[i] < s[j]
    <3> SUFFICES ASSUME NEW i \in 1 .. MaxQueue, NEW j \in 1 .. MaxQueue, i < j
                 PROVE  s[i] < s[j]
      OBVIOUS
    <3>1. d + i \in 1 .. Len(q) /\ d + j \in 1 .. Len(q) /\ d + i < d + j
      BY <2>2, <2>3
    <3> QED
      BY <1>4, <2>3, <3>1
  <2>6. r \in Lines /\ Len(r) = MaxQueue /\ Len(r) \in Nat /\ Len(r) <= MaxQueue
    BY <2>1, <2>3 DEF Lines
  <2> QED
    BY <2>1, <2>4, <2>5, <2>6, Zenon
<1> QED
  BY <1>5, <1>6

\* What a flush leaves in a file it has read to the end.
LEMMA WrittenAppends ==
  ASSUME NEW s \in Contents, NEW u \in Lines
  PROVE  Logging!Written(s, Len(s), u) = s \o u
<1> DEFINE pad == [i \in 1 .. Len(s) |-> IF i <= Len(s) THEN s[i] ELSE 0]
<1>1. pad = s
  BY DEF Contents
<1>2. Len(s \o u) = Len(s) + Len(u) /\ Len(s) \in Nat /\ Len(u) \in Nat
  BY DEF Contents, Lines
<1>3. ~(Len(s) > Len(s \o u))
  BY <1>2
<1> QED
  BY <1>1, <1>3, Zenon DEF Logging!Written

LEMMA WrittenIsContent ==
  ASSUME NEW s \in Contents, NEW n \in Nat, NEW u \in Lines
  PROVE  Logging!Written(s, n, u) \in Contents
<1> USE LogBounds DEF Contents, Lines
<1> DEFINE pad == [i \in 1 .. n |-> IF i <= Len(s) THEN s[i] ELSE 0]
           w == pad \o u
<1>1. pad \in Contents
  <2>1. \A i \in 1 .. n : (IF i <= Len(s) THEN s[i] ELSE 0) \in 0 .. MaxLines
    OBVIOUS
  <2> QED
    BY <2>1
<1>2. u \in Contents
  OBVIOUS
<1> HIDE DEF pad
<1>3. w \in Contents
  BY <1>1, <1>2
<1> HIDE DEF w
<1>4. Len(s) > Len(w) => w \o SubSeq(s, Len(w) + 1, Len(s)) \in Contents
  <2> SUFFICES ASSUME Len(s) > Len(w) PROVE w \o SubSeq(s, Len(w) + 1, Len(s)) \in Contents
    OBVIOUS
  <2>1. SubSeq(s, Len(w) + 1, Len(s)) \in Contents
    BY <1>3
  <2> QED
    BY <1>3, <2>1
<1> QED
  BY <1>3, <1>4 DEF Logging!Written, w, pad

LEMMA LaterLine ==
  ASSUME NEW n \in Nat, NEW s, Increasing(s, n)
  PROVE  Increasing(s, n + 1)
BY DEF Increasing

LEMMA AppendedInOrder ==
  ASSUME NEW n \in Nat, NEW s \in Contents, NEW u \in Contents,
         Increasing(s, n), Increasing(u, n), Before(s, u)
  PROVE  Increasing(s \o u, n)
<1> DEFINE w == s \o u
<1>1. /\ Len(s) \in Nat /\ Len(u) \in Nat /\ Len(w) = Len(s) + Len(u)
      /\ \A i \in 1 .. Len(s) : w[i] = s[i]
      /\ \A i \in 1 .. Len(w) : i > Len(s) => i - Len(s) \in 1 .. Len(u) /\ w[i] = u[i - Len(s)]
  BY DEF Contents
<1>2. /\ \A i \in 1 .. Len(s) : s[i] \in 1 .. n
      /\ \A i \in 1 .. Len(u) : u[i] \in 1 .. n
      /\ \A i, j \in 1 .. Len(s) : i < j => s[i] < s[j]
      /\ \A i, j \in 1 .. Len(u) : i < j => u[i] < u[j]
      /\ \A i \in 1 .. Len(s), j \in 1 .. Len(u) : s[i] < u[j]
  BY DEF Increasing, Before
<1> HIDE DEF w
<1>3. \A i \in 1 .. Len(w) : w[i] \in 1 .. n
  BY <1>1, <1>2
<1>4. ASSUME NEW i \in 1 .. Len(w), NEW j \in 1 .. Len(w), i < j PROVE w[i] < w[j]
  <2>1. CASE j <= Len(s)
    BY <1>1, <1>2, <1>4, <2>1
  <2>2. CASE i > Len(s)
    <3>1. /\ w[i] = u[i - Len(s)] /\ w[j] = u[j - Len(s)]
          /\ i - Len(s) \in 1 .. Len(u) /\ j - Len(s) \in 1 .. Len(u)
          /\ i - Len(s) < j - Len(s)
      BY <1>1, <1>4, <2>2
    <3> QED
      BY <1>2, <3>1
  <2>3. CASE i <= Len(s) /\ j > Len(s)
    <3>1. /\ w[i] = s[i] /\ i \in 1 .. Len(s)
          /\ w[j] = u[j - Len(s)] /\ j - Len(s) \in 1 .. Len(u)
      BY <1>1, <2>3
    <3> QED
      BY <1>2, <3>1
  <2> QED
    BY <1>1, <2>1, <2>2, <2>3
<1> QED
  BY <1>3, <1>4 DEF Increasing, w

LEMMA AppendedBefore ==
  ASSUME NEW s \in Contents, NEW u \in Contents, NEW w, Before(s, w), Before(u, w)
  PROVE  Before(s \o u, w)
<1> DEFINE v == s \o u
<1>1. /\ Len(s) \in Nat /\ Len(u) \in Nat /\ Len(v) = Len(s) + Len(u)
      /\ \A i \in 1 .. Len(s) : v[i] = s[i]
      /\ \A i \in 1 .. Len(v) : i > Len(s) => i - Len(s) \in 1 .. Len(u) /\ v[i] = u[i - Len(s)]
  BY DEF Contents
<1> HIDE DEF v
<1>2. ASSUME NEW i \in 1 .. Len(v), NEW j \in 1 .. Len(w) PROVE v[i] < w[j]
  <2>1. CASE i <= Len(s)
    BY <1>1, <2>1 DEF Before
  <2>2. CASE ~(i <= Len(s))
    <3>1. i - Len(s) \in 1 .. Len(u) /\ v[i] = u[i - Len(s)]
      BY <1>1, <2>2
    <3>2. u[i - Len(s)] < w[j]
      BY <3>1 DEF Before
    <3> QED
      BY <3>1, <3>2
  <2> QED
    BY <2>1, <2>2
<1> QED
  BY <1>2 DEF Before, v

\* A line recorded now is behind all that was recorded before.
LEMMA BeforeNewer ==
  ASSUME NEW n \in Nat, NEW s, NEW u, NEW r, Increasing(s, n), Before(s, u),
         \A i \in 1 .. Len(r) : r[i] = n + 1 \/ \E k \in 1 .. Len(u) : r[i] = u[k]
  PROVE  Before(s, r)
<1>1. \A i \in 1 .. Len(s) : s[i] \in 1 .. n
  BY DEF Increasing
<1>2. ASSUME NEW i \in 1 .. Len(s), NEW j \in 1 .. Len(r) PROVE s[i] < r[j]
  <2>1. CASE r[j] = n + 1
    BY <1>1, <2>1
  <2>2. CASE \E k \in 1 .. Len(u) : r[j] = u[k]
    BY <2>2 DEF Before
  <2> QED
    BY <2>1, <2>2
<1> QED
  BY <1>2 DEF Before

LEMMA NextLog == LogInv /\ [Logging!Next]_logVars => LogInv'
<1> SUFFICES ASSUME LogInv, [Logging!Next]_logVars PROVE LogInv'
  OBVIOUS
<1> USE LogBounds
<1>i. /\ LogFlags /\ LogPlaces /\ LogNumbers /\ QueueFits /\ WritingFits /\ SizeFits
      /\ FilesFit /\ PanelKnows
  BY DEF LogInv
<1>t. /\ granted \in BOOLEAN /\ mounted \in BOOLEAN /\ liveActive \in BOOLEAN
      /\ swapped \in BOOLEAN /\ logCrossed \in BOOLEAN
      /\ logStored \in Logging!Handles /\ activeHandle \in Logging!Handles
      /\ starting \in {"no", "stored", "picker"} /\ resuming \in {"no", "asked"}
      /\ recorded \in 0 .. MaxLines /\ toggles \in 0 .. MaxToggles /\ mounts \in 0 .. MaxMounts
      /\ content \in [LogFiles -> Contents] /\ queue \in Lines
  BY <1>i DEF LogFlags, LogPlaces, LogNumbers, FilesFit, QueueFits
<1>w. /\ writing \in [at : {"idle", "size", "write"}, lines : Lines, file : Logging!Handles,
                      size : Nat, base : Contents]
      /\ writing.at \in {"idle", "size", "write"} /\ writing.lines \in Lines
      /\ writing.size \in Nat /\ writing.base \in Contents
      /\ writing.at # "idle" => writing.file \in LogFiles
      /\ Increasing(writing.lines, recorded) /\ Before(writing.lines, queue)
  BY <1>i DEF WritingFits
<1>n. /\ Logging!Idle.at = "idle" /\ Logging!Idle.lines = <<>> /\ Logging!Idle.base = <<>>
      /\ Logging!Idle \in [at : {"idle", "size", "write"}, lines : Lines,
                           file : Logging!Handles, size : Nat, base : Contents]
  BY EmptyIsOrdered DEF Logging!Idle, Logging!Handles
<1>e. /\ <<>> \in Lines /\ <<>> \in Contents /\ Len(<<>>) = 0
      /\ \A n : Increasing(<<>>, n)
      /\ \A s : Before(s, <<>>) /\ Before(<<>>, s)
  BY EmptyIsOrdered
<1>h. \A f \in LogFiles : f \in Logging!Handles
  BY DEF Logging!Handles
\* Where only the panel and the handle move, what is written stays ordered.
<1>q. ASSUME UNCHANGED <<queue, writing, content, recorded, swapped>>
      PROVE  QueueFits' /\ WritingFits' /\ SizeFits' /\ FilesFit'
  BY <1>i, <1>q DEF QueueFits, WritingFits, SizeFits, FilesFit
\* A queue that is thrown away leaves nothing out of order.
<1>z. ASSUME queue' = <<>>, UNCHANGED <<writing, content, recorded, swapped>>
      PROVE  QueueFits' /\ WritingFits' /\ SizeFits' /\ FilesFit'
  <2>1. QueueFits'
    BY <1>z, <1>e DEF QueueFits
  <2>2. WritingFits'
    BY <1>z, <1>e, <1>i DEF WritingFits
  <2>3. SizeFits'
    BY <1>z, <1>e, <1>i DEF SizeFits
  <2>4. FilesFit'
    BY <1>z, <1>e, <1>i DEF FilesFit
  <2> QED
    BY <2>1, <2>2, <2>3, <2>4
<1>1. CASE UNCHANGED logVars
  <2>1. UNCHANGED <<logStored, granted, activeHandle, queue, writing, starting, resuming,
                    mounted, liveActive, content, recorded, toggles, mounts, swapped,
                    logCrossed>>
    BY <1>1 DEF logVars
  <2>2. LogFlags' /\ LogPlaces' /\ LogNumbers' /\ PanelKnows'
    BY <2>1, <1>i DEF LogFlags, LogPlaces, LogNumbers, PanelKnows
  <2> QED
    BY <1>q, <2>1, <2>2 DEF LogInv
<1>2. CASE Logging!Record
  <2>1. /\ recorded' = recorded + 1 /\ recorded' \in 0 .. MaxLines
        /\ UNCHANGED <<logStored, granted, activeHandle, writing, starting, resuming, mounted,
                       liveActive, toggles, mounts, content, swapped, logCrossed>>
    BY <1>2, <1>t DEF Logging!Record, Logging!browser, Logging!panel
  <2>2. PICK r : r = queue'
    OBVIOUS
  <2>3. /\ r \in Lines /\ Len(r) \in Nat /\ Len(r) <= MaxQueue
        /\ \A i \in 1 .. Len(r) : r[i] \in 1 .. (recorded + 1)
             /\ (r[i] = recorded + 1 \/ \E k \in 1 .. Len(queue) : r[i] = queue[k])
        /\ \A i, j \in 1 .. Len(r) : i < j => r[i] < r[j]
    <3>1. CASE activeHandle # NoLogFile
      <4>1. PICK e : e = recorded + 1
        OBVIOUS
      <4>2. e \in 1 .. MaxLines /\ r = Logging!Enqueue(e)
        BY <1>2, <1>t, <2>1, <2>2, <3>1, <4>1 DEF Logging!Record
      <4> QED
        BY EnqueueFits, <1>i, <1>t, <4>1, <4>2
    <3>2. CASE activeHandle = NoLogFile
      <4>1. r = queue
        BY <1>2, <2>2, <3>2 DEF Logging!Record
      <4>2. queue \in Lines /\ Len(queue) \in Nat /\ Len(queue) <= MaxQueue /\ Increasing(queue, recorded)
        BY <1>i DEF QueueFits, Lines
      <4>3. /\ \A i \in 1 .. Len(queue) : queue[i] \in 1 .. recorded
            /\ \A i, j \in 1 .. Len(queue) : i < j => queue[i] < queue[j]
        BY <4>2 DEF Increasing
      <4>4. \A i \in 1 .. Len(queue) : queue[i] \in 1 .. (recorded + 1)
        BY <1>t, <4>3
      <4> QED
        BY <4>1, <4>2, <4>3, <4>4, Zenon
    <3> QED
      BY <3>1, <3>2
  <2>4. \A s : Increasing(s, recorded) => Increasing(s, recorded + 1)
    BY LaterLine, <1>t
  <2>5. \A s : Increasing(s, recorded) /\ Before(s, queue) => Before(s, r)
    BY BeforeNewer, <1>t, <2>3
  <2>6. QueueFits'
    <3>1. Increasing(r, recorded + 1)
      BY <2>3 DEF Increasing
    <3> QED
      BY <2>1, <2>2, <2>3, <3>1 DEF QueueFits
  <2>7. WritingFits'
    <3>1. Increasing(writing.lines, recorded + 1) /\ Before(writing.lines, r)
      BY <1>w, <2>4, <2>5
    <3> QED
      BY <1>i, <2>1, <2>2, <3>1 DEF WritingFits
  <2>8. SizeFits'
    <3>1. ~swapped /\ writing.at = "write" =>
            Increasing(writing.base, recorded + 1) /\ Before(writing.base, r)
      BY <1>i, <2>4, <2>5 DEF SizeFits
    <3> QED
      BY <1>i, <2>1, <2>2, <3>1 DEF SizeFits
  <2>9. FilesFit'
    <3>1. ~swapped => \A f \in LogFiles :
            Increasing(content[f], recorded + 1) /\ Before(content[f], r)
      BY <1>i, <2>4, <2>5 DEF FilesFit
    <3> QED
      BY <1>i, <2>1, <2>2, <3>1 DEF FilesFit
  <2>10. LogFlags' /\ LogPlaces' /\ LogNumbers' /\ PanelKnows'
    BY <2>1, <1>i DEF LogFlags, LogPlaces, LogNumbers, PanelKnows
  <2> QED
    BY <2>6, <2>7, <2>8, <2>9, <2>10 DEF LogInv
<1>3. CASE Logging!FlushQueue
  <2>1. /\ writing.at = "idle" /\ activeHandle # NoLogFile /\ queue' = <<>>
        /\ writing' = [at |-> "size", lines |-> queue, file |-> activeHandle,
                       size |-> Len(content[activeHandle]), base |-> <<>>]
        /\ UNCHANGED <<logStored, granted, activeHandle, starting, resuming, mounted,
                       liveActive, toggles, mounts, content, recorded, swapped, logCrossed>>
    BY <1>3 DEF Logging!FlushQueue, Logging!browser, Logging!panel
  <2>2. /\ activeHandle \in LogFiles /\ activeHandle \in Logging!Handles
        /\ content[activeHandle] \in Contents
    BY <1>t, <2>1 DEF Logging!Handles
  <2>3. Len(content[activeHandle]) \in Nat
    BY <2>2 DEF Contents
  <2>4. /\ writing' \in [at : {"idle", "size", "write"}, lines : Lines, file : Logging!Handles,
                         size : Nat, base : Contents]
        /\ writing'.at = "size" /\ writing'.lines = queue /\ writing'.file = activeHandle
        /\ writing'.size = Len(content[activeHandle])
    BY <1>t, <1>e, <2>1, <2>2, <2>3
  <2>5. Increasing(queue, recorded)
    BY <1>i DEF QueueFits
  <2>6. QueueFits'
    BY <1>e, <2>1 DEF QueueFits
  <2>7. WritingFits'
    BY <1>e, <2>1, <2>2, <2>4, <2>5 DEF WritingFits
  <2>8. SizeFits'
    BY <2>1, <2>4 DEF SizeFits
  <2>9. FilesFit'
    BY <1>e, <1>i, <2>1, <2>4 DEF FilesFit
  <2>10. LogFlags' /\ LogPlaces' /\ LogNumbers' /\ PanelKnows'
    BY <2>1, <1>i DEF LogFlags, LogPlaces, LogNumbers, PanelKnows
  <2> QED
    BY <2>6, <2>7, <2>8, <2>9, <2>10 DEF LogInv
<1>4. CASE Logging!OpenWritable
  <2>1. /\ writing.at = "size" /\ activeHandle # NoLogFile
        /\ writing' = [writing EXCEPT !.at = "write", !.file = activeHandle,
                                      !.base = content[activeHandle]]
        /\ swapped' = (swapped \/ activeHandle # writing.file)
        /\ UNCHANGED <<logStored, granted, activeHandle, queue, starting, resuming, mounted,
                       liveActive, toggles, mounts, content, recorded, logCrossed>>
    BY <1>4 DEF Logging!OpenWritable, Logging!browser, Logging!panel
  <2>2. /\ activeHandle \in LogFiles /\ activeHandle \in Logging!Handles
        /\ content[activeHandle] \in Contents
    BY <1>t, <2>1 DEF Logging!Handles
  <2>3. /\ writing' \in [at : {"idle", "size", "write"}, lines : Lines, file : Logging!Handles,
                         size : Nat, base : Contents]
        /\ writing'.at = "write" /\ writing'.lines = writing.lines
        /\ writing'.file = activeHandle /\ writing'.size = writing.size
        /\ writing'.base = content[activeHandle]
    BY <1>w, <2>1, <2>2
  <2>4. swapped' \in BOOLEAN
    BY <1>t, <2>1
  <2>5. ~swapped' => ~swapped /\ activeHandle = writing.file
    BY <1>t, <2>1
  <2>6. QueueFits'
    BY <1>i, <2>1 DEF QueueFits
  <2>7. WritingFits'
    BY <1>w, <2>1, <2>2, <2>3 DEF WritingFits
  <2>8. SizeFits'
    <3>1. ~swapped' => writing.size = Len(content[activeHandle])
      BY <1>i, <2>1, <2>5 DEF SizeFits
    <3>2. ~swapped' => /\ Increasing(content[activeHandle], recorded)
                       /\ Before(content[activeHandle], writing.lines)
                       /\ Before(content[activeHandle], queue)
      BY <1>i, <2>2, <2>5 DEF FilesFit
    <3> QED
      BY <2>1, <2>3, <3>1, <3>2 DEF SizeFits
  <2>9. FilesFit'
    BY <1>i, <2>1, <2>3, <2>5 DEF FilesFit
  <2>10. LogFlags' /\ LogPlaces' /\ LogNumbers' /\ PanelKnows'
    BY <2>1, <2>4, <1>i DEF LogFlags, LogPlaces, LogNumbers, PanelKnows
  <2> QED
    BY <2>6, <2>7, <2>8, <2>9, <2>10 DEF LogInv
<1>5. CASE Logging!CloseWritable
  <2>1. /\ writing.at = "write" /\ writing' = Logging!Idle
        /\ content' = [content EXCEPT ![writing.file] =
                         Logging!Written(writing.base, writing.size, writing.lines)]
        /\ UNCHANGED <<logStored, granted, activeHandle, queue, starting, resuming, mounted,
                       liveActive, toggles, mounts, recorded, swapped, logCrossed>>
    BY <1>5 DEF Logging!CloseWritable, Logging!browser, Logging!panel
  <2>2. PICK r : r = Logging!Written(writing.base, writing.size, writing.lines)
    OBVIOUS
  <2>3. r \in Contents
    BY <1>w, <2>2, WrittenIsContent
  <2>4. writing.file \in LogFiles
    BY <1>w, <2>1
  <2>5. /\ content' \in [LogFiles -> Contents] /\ content'[writing.file] = r
        /\ \A f \in LogFiles : f # writing.file => content'[f] = content[f]
    BY <1>t, <2>1, <2>2, <2>3, <2>4
  <2>6. ~swapped => Increasing(r, recorded) /\ Before(r, queue)
    <3> SUFFICES ASSUME ~swapped PROVE Increasing(r, recorded) /\ Before(r, queue)
      OBVIOUS
    <3>1. /\ writing.size = Len(writing.base)
          /\ Increasing(writing.base, recorded) /\ Before(writing.base, writing.lines)
          /\ Before(writing.base, queue)
      BY <1>i, <2>1 DEF SizeFits
    <3>2. r = writing.base \o writing.lines
      BY <1>w, <2>2, <3>1, WrittenAppends
    <3>3. writing.lines \in Contents
      BY <1>w DEF Lines, Contents
    <3>4. Increasing(r, recorded)
      BY AppendedInOrder, <1>t, <1>w, <3>1, <3>2, <3>3
    <3>5. Before(r, queue)
      BY AppendedBefore, <1>w, <3>1, <3>2, <3>3
    <3> QED
      BY <3>4, <3>5
  <2>7. QueueFits'
    BY <1>i, <2>1 DEF QueueFits
  <2>8. WritingFits'
    BY <1>n, <1>e, <2>1 DEF WritingFits
  <2>9. SizeFits'
    BY <1>n, <2>1 DEF SizeFits
  <2>10. FilesFit'
    <3>1. ~swapped => \A f \in LogFiles : Increasing(content'[f], recorded) /\ Before(content'[f], queue)
      BY <1>i, <2>5, <2>6 DEF FilesFit
    <3> QED
      BY <1>n, <1>e, <2>1, <2>5, <3>1 DEF FilesFit
  <2>11. LogFlags' /\ LogPlaces' /\ LogNumbers' /\ PanelKnows'
    BY <2>1, <1>i DEF LogFlags, LogPlaces, LogNumbers, PanelKnows
  <2> QED
    BY <2>7, <2>8, <2>9, <2>10, <2>11 DEF LogInv
<1>6. CASE Logging!WriteFails
  <2>1. /\ writing' = Logging!Idle /\ activeHandle' = NoLogFile /\ queue' = <<>>
        /\ logCrossed' = TRUE
        /\ UNCHANGED <<logStored, granted, starting, resuming, mounted, liveActive, toggles,
                       mounts, content, recorded, swapped>>
    BY <1>6 DEF Logging!WriteFails, Logging!StopLiveFileLog, Logging!browser, Logging!panel
  <2>2. QueueFits'
    BY <1>e, <2>1 DEF QueueFits
  <2>3. WritingFits'
    BY <1>n, <1>e, <2>1 DEF WritingFits
  <2>4. SizeFits'
    BY <1>n, <2>1 DEF SizeFits
  <2>5. FilesFit'
    BY <1>n, <1>e, <1>i, <2>1 DEF FilesFit
  <2>6. LogFlags' /\ LogNumbers' /\ PanelKnows'
    BY <2>1, <1>i DEF LogFlags, LogNumbers, PanelKnows
  <2>7. LogPlaces'
    BY <2>1, <1>i DEF LogPlaces, Logging!Handles
  <2> QED
    BY <2>2, <2>3, <2>4, <2>5, <2>6, <2>7 DEF LogInv
<1>7. CASE Logging!Mount
  <2>1. /\ ~mounted /\ mounts < MaxMounts /\ mounts' = mounts + 1 /\ mounted' = TRUE
        /\ UNCHANGED <<logStored, granted, activeHandle, queue, writing, starting, content,
                       recorded, toggles, swapped>>
    BY <1>7 DEF Logging!Mount, Logging!browser
  <2>2. /\ activeHandle # NoLogFile => /\ liveActive' = TRUE /\ resuming' = resuming
                                       /\ logCrossed' = logCrossed
        /\ activeHandle = NoLogFile => /\ liveActive' = FALSE /\ resuming' = "asked"
                                       /\ logCrossed' = (starting # "no")
    BY <1>7 DEF Logging!Mount
  <2>3. LogFlags' /\ LogPlaces'
    BY <2>1, <2>2, <1>t DEF LogFlags, LogPlaces
  <2>4. LogNumbers'
    BY <2>1, <1>t DEF LogNumbers
  <2>5. PanelKnows'
    BY <2>1, <2>2, <1>i DEF PanelKnows
  <2> QED
    BY <1>q, <2>1, <2>3, <2>4, <2>5 DEF LogInv
<1>8. CASE Logging!Unmount
  <2>1. /\ mounted' = FALSE /\ liveActive' = FALSE
        /\ UNCHANGED <<logStored, granted, activeHandle, queue, writing, starting, resuming,
                       content, recorded, toggles, mounts, swapped, logCrossed>>
    BY <1>8 DEF Logging!Unmount, Logging!browser
  <2>2. LogFlags' /\ LogPlaces' /\ LogNumbers' /\ PanelKnows'
    BY <2>1, <1>i DEF LogFlags, LogPlaces, LogNumbers, PanelKnows
  <2> QED
    BY <1>q, <2>1, <2>2 DEF LogInv
<1>9. ASSUME NEW shown \in BOOLEAN, Logging!Resumed(shown) PROVE LogInv'
  <2>1. /\ resuming = "asked" /\ resuming' = "no" /\ (shown => mounted)
        /\ logStored # NoLogFile /\ granted => activeHandle' = logStored
        /\ ~(logStored # NoLogFile /\ granted) => activeHandle' = activeHandle
        /\ shown => (liveActive' <=> logStored # NoLogFile /\ granted)
        /\ ~shown => liveActive' = liveActive
        /\ logCrossed' = (logCrossed \/ ~shown \/ starting # "no"
                            \/ (activeHandle # NoLogFile /\ activeHandle' # logStored))
        /\ UNCHANGED <<logStored, granted, queue, writing, starting, mounted, content,
                       recorded, toggles, mounts, swapped>>
    BY <1>9, <1>t, Zenon DEF Logging!Resumed, Logging!Activate, Logging!browser
  <2>2. liveActive' \in BOOLEAN /\ logCrossed' \in BOOLEAN
    BY <1>9, <1>t, Zenon DEF Logging!Resumed
  <2>3. LogFlags' /\ LogPlaces' /\ LogNumbers'
    BY <2>1, <2>2, <1>t DEF LogFlags, LogPlaces, LogNumbers
  <2>4. PanelKnows'
    BY <2>1, <1>t, <1>i DEF PanelKnows
  <2> QED
    BY <1>q, <2>1, <2>3, <2>4 DEF LogInv
<1>10. CASE Logging!Toggle
  <2>1. /\ mounted /\ starting = "no" /\ toggles < MaxToggles /\ toggles' = toggles + 1
        /\ UNCHANGED <<logStored, granted, writing, resuming, mounted, content, recorded,
                       mounts, swapped>>
    BY <1>10 DEF Logging!Toggle, Logging!browser
  <2>2. LogNumbers'
    BY <2>1, <1>t DEF LogNumbers
  <2>3. CASE liveActive
    <3>1. /\ activeHandle' = NoLogFile /\ queue' = <<>> /\ liveActive' = FALSE
          /\ logCrossed' = (resuming = "asked") /\ starting' = starting
      BY <1>10, <2>3 DEF Logging!Toggle, Logging!StopLiveFileLog
    <3>2. LogFlags' /\ LogPlaces'
      BY <2>1, <3>1, <1>t DEF LogFlags, LogPlaces, Logging!Handles
    <3>3. PanelKnows'
      BY <2>1, <3>1 DEF PanelKnows
    <3> QED
      BY <1>z, <2>1, <2>2, <3>1, <3>2, <3>3 DEF LogInv
  <2>4. CASE ~liveActive /\ activeHandle # NoLogFile
    <3>1. /\ liveActive' = TRUE /\ logCrossed' = (resuming = "asked")
          /\ UNCHANGED <<activeHandle, queue, starting>>
      BY <1>10, <2>4 DEF Logging!Toggle
    <3>2. LogFlags' /\ LogPlaces'
      BY <2>1, <3>1, <1>t DEF LogFlags, LogPlaces
    <3>3. PanelKnows'
      BY <1>i, <2>1, <2>4, <3>1 DEF PanelKnows
    <3> QED
      BY <1>q, <2>1, <2>2, <3>1, <3>2, <3>3 DEF LogInv
  <2>5. CASE ~liveActive /\ activeHandle = NoLogFile
    <3>1. /\ starting' = "stored" /\ logCrossed' = (logCrossed \/ resuming = "asked")
          /\ UNCHANGED <<activeHandle, queue, liveActive>>
      BY <1>10, <2>5 DEF Logging!Toggle
    <3>2. LogFlags' /\ LogPlaces'
      BY <2>1, <3>1, <1>t DEF LogFlags, LogPlaces
    <3>3. PanelKnows'
      BY <1>i, <2>1, <2>5, <3>1 DEF PanelKnows
    <3> QED
      BY <1>q, <2>1, <2>2, <3>1, <3>2, <3>3 DEF LogInv
  <2> QED
    BY <2>3, <2>4, <2>5
<1>11. ASSUME NEW grant \in BOOLEAN, Logging!TryStored(grant) PROVE LogInv'
  <2>1. /\ starting = "stored"
        /\ UNCHANGED <<queue, writing, resuming, mounted, content, recorded, toggles, mounts,
                       swapped>>
    BY <1>11 DEF Logging!TryStored
  <2>2. CASE logStored # NoLogFile /\ grant
    <3>1. /\ activeHandle' = logStored /\ granted' = TRUE /\ starting' = "no"
          /\ liveActive' = mounted /\ logCrossed' = (logCrossed \/ ~mounted)
          /\ logStored' = logStored
      BY <1>11, <2>2, Zenon DEF Logging!TryStored, Logging!Activate
    <3>2. LogFlags' /\ LogPlaces' /\ LogNumbers'
      BY <2>1, <3>1, <1>t DEF LogFlags, LogPlaces, LogNumbers
    <3>3. PanelKnows'
      BY <2>1, <2>2, <3>1, <1>t DEF PanelKnows
    <3> QED
      BY <1>q, <2>1, <3>1, <3>2, <3>3 DEF LogInv
  <2>3. CASE ~(logStored # NoLogFile /\ grant)
    <3>1. /\ logStored' = NoLogFile /\ starting' = "picker"
          /\ UNCHANGED <<activeHandle, granted, liveActive, logCrossed>>
      BY <1>11, <2>3, Zenon DEF Logging!TryStored
    <3>2. LogFlags' /\ LogPlaces' /\ LogNumbers'
      BY <2>1, <3>1, <1>t DEF LogFlags, LogPlaces, LogNumbers, Logging!Handles
    <3>3. PanelKnows'
      BY <1>i, <2>1, <3>1 DEF PanelKnows
    <3> QED
      BY <1>q, <2>1, <3>1, <3>2, <3>3 DEF LogInv
  <2> QED
    BY <2>2, <2>3
<1>12. ASSUME NEW f \in LogFiles, NEW b \in BOOLEAN, Logging!Picked(f, b) PROVE LogInv'
  <2>1. /\ starting = "picker" /\ starting' = "no"
        /\ content' = [content EXCEPT ![f] = <<>>]
        /\ activeHandle' = f /\ liveActive' = mounted /\ granted' = TRUE
        /\ logStored' \in {f, logStored}
        /\ logCrossed' = (logCrossed \/ ~mounted)
        /\ swapped' = (swapped \/ (writing.at = "size" /\ writing.file = f))
        /\ UNCHANGED <<queue, writing, resuming, mounted, recorded, toggles, mounts>>
    BY <1>12 DEF Logging!Picked, Logging!Activate
  <2>2. f \in Logging!Handles
    BY <1>h
  <2>3. swapped' \in BOOLEAN /\ (~swapped' => ~swapped /\ ~(writing.at = "size" /\ writing.file = f))
    BY <1>t, <2>1
  <2>4. /\ content' \in [LogFiles -> Contents] /\ content'[f] = <<>>
        /\ \A g \in LogFiles : g # f => content'[g] = content[g]
    BY <1>t, <1>e, <2>1
  <2>5. QueueFits' /\ WritingFits'
    BY <1>i, <2>1 DEF QueueFits, WritingFits
  <2>6. SizeFits'
    <3>1. ~swapped' /\ writing.at = "size" => content'[writing.file] = content[writing.file]
      BY <1>w, <2>3, <2>4
    <3> QED
      BY <1>i, <2>1, <2>3, <3>1 DEF SizeFits
  <2>7. FilesFit'
    <3>1. ~swapped' => \A g \in LogFiles :
            /\ Increasing(content'[g], recorded) /\ Before(content'[g], writing.lines)
            /\ Before(content'[g], queue)
      BY <1>i, <1>e, <2>3, <2>4 DEF FilesFit
    <3> QED
      BY <2>1, <2>4, <3>1 DEF FilesFit
  <2>8. LogFlags' /\ LogPlaces' /\ LogNumbers'
    BY <1>t, <2>1, <2>2, <2>3 DEF LogFlags, LogPlaces, LogNumbers
  <2>9. PanelKnows'
    BY <1>t, <2>1 DEF PanelKnows
  <2> QED
    BY <2>5, <2>6, <2>7, <2>8, <2>9 DEF LogInv
<1>13. CASE Logging!PickerCancelled
  <2>1. /\ starting' = "no"
        /\ UNCHANGED <<logStored, granted, activeHandle, queue, writing, resuming, mounted,
                       liveActive, content, recorded, toggles, mounts, swapped, logCrossed>>
    BY <1>13 DEF Logging!PickerCancelled, Logging!browser
  <2>2. LogFlags' /\ LogPlaces' /\ LogNumbers' /\ PanelKnows'
    BY <2>1, <1>i DEF LogFlags, LogPlaces, LogNumbers, PanelKnows
  <2> QED
    BY <1>q, <2>1, <2>2 DEF LogInv
<1>14. CASE Logging!Next
  BY <1>2, <1>3, <1>4, <1>5, <1>6, <1>7, <1>8, <1>9, <1>10, <1>11, <1>12, <1>13, <1>14
     DEF Logging!Next
<1> QED
  BY <1>1, <1>14

LEMMA LogFits == LogInv => Logging!PanelAgreesAtRest /\ Logging!LinesInOrder
<1> SUFFICES ASSUME LogInv PROVE Logging!PanelAgreesAtRest /\ Logging!LinesInOrder
  OBVIOUS
<1>1. Logging!PanelAgreesAtRest
  BY DEF LogInv, LogFlags, PanelKnows, Logging!PanelAgreesAtRest
<1>2. ASSUME NEW f \in LogFiles, ~swapped, NEW i \in 1 .. Len(content[f])
      PROVE  content[f][i] > (IF i = 1 THEN 0 ELSE content[f][i - 1])
  <2>1. content[f] \in Contents /\ Increasing(content[f], recorded) /\ recorded \in Nat
    BY <1>2, LogBounds DEF LogInv, FilesFit, LogNumbers
  <2>2. Len(content[f]) \in Nat
    BY <2>1 DEF Contents
  <2>3. content[f][i] \in 1 .. recorded
    BY <2>1 DEF Increasing
  <2>4. i # 1 => content[f][i - 1] < content[f][i] /\ content[f][i - 1] \in 1 .. recorded
    <3> SUFFICES ASSUME i # 1
                 PROVE  content[f][i - 1] < content[f][i] /\ content[f][i - 1] \in 1 .. recorded
      OBVIOUS
    <3>1. i - 1 \in 1 .. Len(content[f]) /\ i - 1 < i
      BY <2>2
    <3> QED
      BY <2>1, <3>1 DEF Increasing
  <2> QED
    BY <2>1, <2>3, <2>4
<1> QED
  BY <1>1, <1>2 DEF Logging!LinesInOrder

-----------------------------------------------------------------------------
(* The badge and the bell.                                                 *)

SentLetters == {m \in Letters : bellHandler[m].at # "unused"}
BellFlags ==
  /\ bellOnline \in BOOLEAN /\ viewing \in BOOLEAN /\ panel \in BOOLEAN
  /\ bellStale \in BOOLEAN /\ bellMissed \in BOOLEAN
  /\ item \in {"none", "unread", "read"}
BellCounts ==
  /\ bellUnread \in Ringing!Counts /\ bellUnread <= Cardinality(SentLetters)
  /\ badge \in Ringing!Counts
BellRecords ==
  /\ bellHandler \in [Ringing!Handlers ->
       [at : {"unused", "writing", "reading", "telling", "done"}, n : Ringing!Counts]]
  /\ bellSeed \in [at : {"asking", "read", "shown"}, n : Ringing!Counts, allowed : BOOLEAN]
\* A notification follows the count it was told with.
WirePairs ==
  /\ bellWire \in Seq(Ringing!Events) /\ (bellOnline \/ bellWire = <<>>)
  /\ \A i \in 1 .. Len(bellWire) : i + 1 \in 1 .. Len(bellWire) =>
       (bellWire[i + 1].kind = "note" =>
          bellWire[i].kind = "updated" /\ bellWire[i].n = bellWire[i + 1].n)
BellQuiet == \A h \in Ringing!Handlers : bellHandler[h].at \in {"unused", "done"}
NoCountComes == \A i \in 1 .. Len(bellWire) : bellWire[i].kind = "note"
\* When no handler runs, the last count on its way is the stored one; with
\* none on its way, the page or the answer to its request has it.
BellKnows == BellQuiet /\ ~bellStale /\ ~bellMissed =>
  /\ bellWire # <<>> => bellWire[Len(bellWire)].n = bellUnread
  /\ NoCountComes =>
       /\ bellSeed.at = "read" => bellSeed.n = bellUnread
       /\ bellSeed.at = "shown" => badge = bellUnread
  /\ bellUnread = 0 =>
       IF bellWire = <<>> THEN item = "none" ELSE bellWire[Len(bellWire)].kind = "updated"
BellInv == BellFlags /\ BellCounts /\ BellRecords /\ WirePairs /\ BellKnows

LEMMA BellBounds ==
  /\ IsFiniteSet(Letters) /\ Cardinality(Letters) \in Nat
  /\ Ringing!Counts = 0 .. Cardinality(Letters)
  /\ \A S : S \subseteq Letters =>
       IsFiniteSet(S) /\ Cardinality(S) \in Nat /\ Cardinality(S) <= Cardinality(Letters)
<1>1. IsFiniteSet(Letters)
  BY ServicesAssumption, Zenon DEF ServicesAssumption
<1>2. Ringing!Cardinality(Letters) = Cardinality(Letters)
  BY Zenon DEF Cardinality, Ringing!Cardinality
<1>3. Ringing!Counts = 0 .. Cardinality(Letters)
  BY <1>2 DEF Ringing!Counts
<1>4. ASSUME NEW S, S \subseteq Letters
      PROVE  IsFiniteSet(S) /\ Cardinality(S) \in Nat /\ Cardinality(S) <= Cardinality(Letters)
  BY <1>1, <1>4, FS_Subset, FS_CardinalityType
<1> QED
  BY <1>1, <1>3, <1>4, FS_CardinalityType


LEMMA BellTypes == BellInv => Ringing!TypeOK
<1> SUFFICES ASSUME BellInv PROVE Ringing!TypeOK
  OBVIOUS
<1>1. BellFlags /\ BellCounts /\ BellRecords /\ WirePairs
  BY DEF BellInv
<1> QED
  BY <1>1, Zenon DEF BellFlags, BellCounts, BellRecords, WirePairs, Ringing!TypeOK

LEMMA InitBell == Ringing!Init => BellInv
<1> SUFFICES ASSUME Ringing!Init PROVE BellInv
  OBVIOUS
<1> USE BellBounds
<1>1. /\ bellUnread = 0 /\ bellHandler = [h \in Ringing!Handlers |-> [at |-> "unused", n |-> 0]]
      /\ bellWire = <<>> /\ bellOnline = TRUE /\ viewing = FALSE
      /\ badge = 0 /\ item = "none" /\ panel = FALSE
      /\ bellSeed = [at |-> "asking", n |-> 0, allowed |-> TRUE]
      /\ bellStale = FALSE /\ bellMissed = FALSE
  BY DEF Ringing!Init, Ringing!NewSeed
<1>2. BellFlags
  BY <1>1 DEF BellFlags
<1>3. BellCounts
  BY <1>1 DEF BellCounts, SentLetters
<1>4. BellRecords
  BY <1>1 DEF BellRecords
<1>5. WirePairs
  BY <1>1 DEF WirePairs
<1>6. BellKnows
  BY <1>1 DEF BellKnows
<1> QED
  BY <1>2, <1>3, <1>4, <1>5, <1>6 DEF BellInv

LEMMA NextBell == BellInv /\ [Ringing!Next]_bellVars => BellInv'
<1> SUFFICES ASSUME BellInv, [Ringing!Next]_bellVars PROVE BellInv'
  OBVIOUS
<1> USE BellBounds
<1>i. BellFlags /\ BellCounts /\ BellRecords /\ WirePairs /\ BellKnows
  BY DEF BellInv
<1>t. /\ bellOnline \in BOOLEAN /\ viewing \in BOOLEAN /\ panel \in BOOLEAN
      /\ bellStale \in BOOLEAN /\ bellMissed \in BOOLEAN
      /\ item \in {"none", "unread", "read"}
      /\ bellUnread \in 0 .. Cardinality(Letters) /\ badge \in 0 .. Cardinality(Letters)
      /\ bellUnread <= Cardinality(SentLetters)
      /\ bellHandler \in [Ringing!Handlers ->
           [at : {"unused", "writing", "reading", "telling", "done"},
            n : 0 .. Cardinality(Letters)]]
      /\ bellSeed \in [at : {"asking", "read", "shown"}, n : 0 .. Cardinality(Letters),
                       allowed : BOOLEAN]
      /\ bellWire \in Seq(Ringing!Events) /\ (bellOnline \/ bellWire = <<>>)
      /\ bellWire \in Seq([kind : {"updated", "note"}, n : 0 .. Cardinality(Letters)])
  BY <1>i DEF BellFlags, BellCounts, BellRecords, WirePairs, Ringing!Events
\* A handler that goes on has been used, and is not at rest while it runs.
<1>h. ASSUME NEW h \in Ringing!Handlers, NEW r \in [at : {"writing", "reading", "telling", "done"},
                                                     n : 0 .. Cardinality(Letters)],
             bellHandler' = [bellHandler EXCEPT ![h] = r]
      PROVE  /\ bellHandler' \in [Ringing!Handlers ->
                  [at : {"unused", "writing", "reading", "telling", "done"},
                   n : 0 .. Cardinality(Letters)]]
             /\ SentLetters' = SentLetters \cup ({h} \cap Letters)
             /\ Cardinality(SentLetters) <= Cardinality(SentLetters')
             /\ r.at # "done" => ~BellQuiet'
  <2>1. /\ bellHandler' \in [Ringing!Handlers ->
             [at : {"unused", "writing", "reading", "telling", "done"},
              n : 0 .. Cardinality(Letters)]]
        /\ bellHandler'[h] = r
        /\ \A g \in Ringing!Handlers : g # h => bellHandler'[g] = bellHandler[g]
    BY <1>h, <1>t
  <2>2. r.at \in {"writing", "reading", "telling", "done"}
    BY <1>h
  <2>3. SentLetters' = SentLetters \cup ({h} \cap Letters)
    BY <2>1, <2>2 DEF SentLetters, Ringing!Handlers
  <2>4. PICK S : S = SentLetters'
    OBVIOUS
  <2>5. SentLetters \subseteq S /\ S \subseteq Letters
    BY <2>3, <2>4 DEF SentLetters
  <2>6. Cardinality(SentLetters) <= Cardinality(S)
    BY <2>5, FS_Subset
  <2> QED
    BY <2>1, <2>2, <2>3, <2>4, <2>6 DEF BellQuiet
<1>1. CASE UNCHANGED bellVars
  <2>1. UNCHANGED <<bellUnread, bellHandler, bellWire, bellOnline, viewing, badge, item,
                    panel, bellSeed, bellStale, bellMissed>>
    BY <1>1 DEF bellVars
  <2> QED
    BY <2>1, <1>i DEF BellInv, BellFlags, BellCounts, BellRecords, WirePairs, BellKnows,
                      BellQuiet, NoCountComes, SentLetters
<1>2. ASSUME NEW m \in Letters, Ringing!Send(m) PROVE BellInv'
  <2>1. /\ bellHandler[m].at = "unused" /\ bellUnread' = bellUnread + 1
        /\ bellHandler' = [bellHandler EXCEPT ![m].at = "reading"]
        /\ UNCHANGED <<bellWire, bellOnline, viewing, badge, item, panel, bellSeed, bellStale,
                       bellMissed>>
    BY <1>2 DEF Ringing!Send, Ringing!screen
  <2>2. m \in Ringing!Handlers /\ m \notin SentLetters
    BY <2>1 DEF Ringing!Handlers, SentLetters
  <2>3. PICK r : r = [bellHandler[m] EXCEPT !.at = "reading"]
    OBVIOUS
  <2>4. /\ r \in [at : {"writing", "reading", "telling", "done"}, n : 0 .. Cardinality(Letters)]
        /\ r.at = "reading" /\ bellHandler' = [bellHandler EXCEPT ![m] = r]
    BY <1>t, <2>1, <2>2, <2>3
  <2>5. /\ ~BellQuiet' /\ SentLetters' = SentLetters \cup {m}
        /\ bellHandler' \in [Ringing!Handlers ->
             [at : {"unused", "writing", "reading", "telling", "done"},
              n : 0 .. Cardinality(Letters)]]
    BY <1>h, <2>2, <2>4
  <2>6. /\ Cardinality(SentLetters \cup {m}) = Cardinality(SentLetters) + 1
        /\ Cardinality(SentLetters \cup {m}) <= Cardinality(Letters)
        /\ Cardinality(SentLetters) \in Nat
    <3>1. SentLetters \subseteq Letters /\ SentLetters \cup {m} \subseteq Letters
      BY DEF SentLetters
    <3>2. IsFiniteSet(SentLetters)
      BY <3>1
    <3> QED
      BY <2>2, <3>1, <3>2, FS_AddElement
  <2>7. bellUnread' \in 0 .. Cardinality(Letters) /\ bellUnread' <= Cardinality(SentLetters \cup {m})
    BY <1>t, <2>1, <2>6
  <2>8. BellCounts'
    BY <1>t, <2>1, <2>5, <2>7 DEF BellCounts
  <2>9. BellFlags' /\ BellRecords' /\ WirePairs'
    BY <1>i, <2>1, <2>5 DEF BellFlags, BellRecords, WirePairs
  <2>10. BellKnows'
    BY <2>5 DEF BellKnows
  <2> QED
    BY <2>8, <2>9, <2>10 DEF BellInv
\* A handler that moves and leaves the counts runs on.
<1>3. ASSUME NEW h \in Ringing!Handlers, NEW r \in [at : {"writing", "reading", "telling"},
                                                     n : 0 .. Cardinality(Letters)],
             bellHandler' = [bellHandler EXCEPT ![h] = r], bellUnread' \in {bellUnread, 0},
             UNCHANGED <<bellWire, bellOnline, viewing, badge, item, panel, bellSeed, bellStale,
                         bellMissed>>
      PROVE  BellInv'
  <2>1. /\ r \in [at : {"writing", "reading", "telling", "done"}, n : 0 .. Cardinality(Letters)]
        /\ r.at # "done"
    OBVIOUS
  <2>2. /\ ~BellQuiet' /\ Cardinality(SentLetters) <= Cardinality(SentLetters')
        /\ bellHandler' \in [Ringing!Handlers ->
             [at : {"unused", "writing", "reading", "telling", "done"},
              n : 0 .. Cardinality(Letters)]]
    BY <1>h, <1>3, <2>1
  <2>3. Cardinality(SentLetters) \in Nat /\ Cardinality(SentLetters') \in Nat
    <3>1. SentLetters \subseteq Letters /\ SentLetters' \subseteq Letters
      BY DEF SentLetters
    <3> QED
      BY <3>1
  <2>4. bellUnread' \in 0 .. Cardinality(Letters) /\ bellUnread' <= Cardinality(SentLetters')
    BY <1>t, <1>3, <2>2, <2>3
  <2>5. BellCounts'
    BY <1>t, <1>3, <2>4 DEF BellCounts
  <2>6. BellFlags' /\ BellRecords' /\ WirePairs'
    BY <1>i, <1>3, <2>2 DEF BellFlags, BellRecords, WirePairs
  <2>7. BellKnows'
    BY <2>2 DEF BellKnows
  <2> QED
    BY <2>5, <2>6, <2>7 DEF BellInv
<1>4. ASSUME NEW k \in Looks, Ringing!Look(k) \/ Ringing!MarkRead(k) PROVE BellInv'
  <2>1. PICK a \in {"writing", "reading"} :
          /\ bellHandler' = [bellHandler EXCEPT ![k].at = a] /\ bellUnread' \in {bellUnread, 0}
          /\ UNCHANGED <<bellWire, bellOnline, viewing, badge, item, panel, bellSeed, bellStale,
                         bellMissed>>
    BY <1>4 DEF Ringing!Look, Ringing!MarkRead, Ringing!screen
  <2>2. k \in Ringing!Handlers
    BY DEF Ringing!Handlers
  <2>3. PICK r : r = [bellHandler[k] EXCEPT !.at = a]
    OBVIOUS
  <2>4. /\ r \in [at : {"writing", "reading", "telling"}, n : 0 .. Cardinality(Letters)]
        /\ bellHandler' = [bellHandler EXCEPT ![k] = r]
    BY <1>t, <2>1, <2>2, <2>3
  <2> QED
    BY <1>3, <2>1, <2>2, <2>4
<1>5. ASSUME NEW h \in Ringing!Handlers, Ringing!ReadConversation(h) PROVE BellInv'
  <2>1. PICK r : r = [at |-> "telling", n |-> bellUnread]
    OBVIOUS
  <2>2. r \in [at : {"writing", "reading", "telling"}, n : 0 .. Cardinality(Letters)]
    BY <1>t, <2>1
  <2>3. /\ bellHandler' = [bellHandler EXCEPT ![h] = r]
        /\ UNCHANGED <<bellUnread, bellWire, bellOnline, viewing, badge, item, panel, bellSeed,
                       bellStale, bellMissed>>
    BY <1>5, <2>1 DEF Ringing!ReadConversation, Ringing!screen
  <2> QED
    BY <1>3, <2>2, <2>3
<1>6. ASSUME NEW h \in Ringing!Handlers, Ringing!Tell(h) PROVE BellInv'
  <2>1. PICK n : n = bellHandler[h].n
    OBVIOUS
  <2>2. n \in 0 .. Cardinality(Letters)
    BY <1>t, <2>1
  <2>3. PICK up : up = [kind |-> "updated", n |-> n]
    OBVIOUS
  <2>4. PICK no : no = [kind |-> "note", n |-> n]
    OBVIOUS
  <2>5. /\ bellHandler[h].at = "telling"
        /\ bellHandler' = [bellHandler EXCEPT ![h].at = "done"]
        /\ ~bellOnline => bellWire' = bellWire
        /\ bellOnline /\ h \in Looks => bellWire' = bellWire \o <<up>>
        /\ bellOnline /\ h \notin Looks => bellWire' = bellWire \o <<up, no>>
        /\ bellMissed' = (bellMissed \/ (~bellOnline /\ (bellSeed.at # "asking" \/ item # "none")))
        /\ bellStale' = (n # bellUnread \/ (h \in Letters /\ n = 0))
        /\ UNCHANGED <<bellUnread, bellOnline, viewing, badge, item, panel, bellSeed>>
    BY <1>6, <2>1, <2>3, <2>4, Zenon DEF Ringing!Tell, Ringing!screen
  <2>6. PICK r : r = [bellHandler[h] EXCEPT !.at = "done"]
    OBVIOUS
  <2>7. /\ r \in [at : {"writing", "reading", "telling", "done"}, n : 0 .. Cardinality(Letters)]
        /\ bellHandler' = [bellHandler EXCEPT ![h] = r]
    BY <1>t, <2>5, <2>6
  <2>8. /\ Cardinality(SentLetters) <= Cardinality(SentLetters')
        /\ bellHandler' \in [Ringing!Handlers ->
             [at : {"unused", "writing", "reading", "telling", "done"},
              n : 0 .. Cardinality(Letters)]]
    BY <1>h, <2>7
  <2>9. Cardinality(SentLetters) \in Nat /\ Cardinality(SentLetters') \in Nat
    <3>1. SentLetters \subseteq Letters /\ SentLetters' \subseteq Letters
      BY DEF SentLetters
    <3> QED
      BY <3>1
  <2>10. BellCounts'
    BY <1>t, <2>5, <2>8, <2>9 DEF BellCounts
  <2>11. bellStale' \in BOOLEAN /\ bellMissed' \in BOOLEAN
    BY <2>5, Zenon
  <2>12. BellFlags' /\ BellRecords'
    BY <1>i, <2>5, <2>8, <2>11 DEF BellFlags, BellRecords
  <2>13. /\ up \in [kind : {"updated", "note"}, n : 0 .. Cardinality(Letters)]
         /\ no \in [kind : {"updated", "note"}, n : 0 .. Cardinality(Letters)]
         /\ up.kind = "updated" /\ no.kind = "note" /\ up.n = n /\ no.n = n
    BY <2>2, <2>3, <2>4
  <2>14. PICK w : w = bellWire'
    OBVIOUS
  <2>t. PICK T : T = [kind : {"updated", "note"}, n : 0 .. Cardinality(Letters)]
    OBVIOUS
  <2>s. bellWire \in Seq(T) /\ up \in T /\ no \in T
    BY <1>t, <2>13, <2>t
  <2>15. \A i \in 1 .. Len(bellWire) : i + 1 \in 1 .. Len(bellWire) =>
           (bellWire[i + 1].kind = "note" =>
              bellWire[i].kind = "updated" /\ bellWire[i].n = bellWire[i + 1].n)
    BY <1>i DEF WirePairs
  <2>16. CASE bellOnline /\ h \in Looks
    <3>1. /\ w \in Seq([kind : {"updated", "note"}, n : 0 .. Cardinality(Letters)])
          /\ Len(w) = Len(bellWire) + 1 /\ Len(bellWire) \in Nat /\ w[Len(w)] = up
          /\ \A i \in 1 .. Len(bellWire) : w[i] = bellWire[i]
      <4>1. w = bellWire \o <<up>>
        BY <2>5, <2>14, <2>16
      <4>2. /\ w \in Seq(T) /\ Len(w) = Len(bellWire) + 1 /\ Len(bellWire) \in Nat
            /\ w[Len(w)] = up
            /\ \A i \in 1 .. Len(bellWire) : w[i] = bellWire[i]
        BY <2>s, <4>1, OneMore
      <4> QED
        BY <2>t, <4>2
    <3>2. \A i \in 1 .. Len(w) : i + 1 \in 1 .. Len(w) =>
            (w[i + 1].kind = "note" => w[i].kind = "updated" /\ w[i].n = w[i + 1].n)
      <4> SUFFICES ASSUME NEW i \in 1 .. Len(w), i + 1 \in 1 .. Len(w), w[i + 1].kind = "note"
                   PROVE  w[i].kind = "updated" /\ w[i].n = w[i + 1].n
        OBVIOUS
      <4>1. i + 1 # Len(w)
        BY <2>13, <3>1
      <4>2. i \in 1 .. Len(bellWire) /\ i + 1 \in 1 .. Len(bellWire)
        BY <3>1, <4>1
      <4> QED
        BY <2>15, <3>1, <4>2
    <3>3. w # <<>> /\ Len(w) \in 1 .. Len(w) /\ w[Len(w)].kind = "updated" /\ w[Len(w)].n = n
      BY <2>13, <3>1
    <3>4. WirePairs'
      BY <2>5, <2>14, <2>16, <3>1, <3>2 DEF WirePairs, Ringing!Events
    <3>5. ~NoCountComes'
      BY <2>14, <3>3 DEF NoCountComes
    <3>6. ~bellStale' => n = bellUnread
      BY <2>5
    <3>7. BellKnows'
      BY <2>5, <2>14, <3>3, <3>5, <3>6 DEF BellKnows
    <3> QED
      BY <2>10, <2>12, <3>4, <3>7 DEF BellInv
  <2>17. CASE bellOnline /\ h \notin Looks
    <3>1. /\ w \in Seq([kind : {"updated", "note"}, n : 0 .. Cardinality(Letters)])
          /\ Len(w) = Len(bellWire) + 2 /\ Len(bellWire) \in Nat
          /\ w[Len(w)] = no /\ w[Len(bellWire) + 1] = up
          /\ \A i \in 1 .. Len(bellWire) : w[i] = bellWire[i]
      <4>1. w = bellWire \o <<up, no>>
        BY <2>5, <2>14, <2>17
      <4>2. /\ w \in Seq(T) /\ Len(w) = Len(bellWire) + 2 /\ Len(bellWire) \in Nat
            /\ w[Len(w)] = no /\ w[Len(bellWire) + 1] = up
            /\ \A i \in 1 .. Len(bellWire) : w[i] = bellWire[i]
        BY <2>s, <4>1, TwoMore
      <4> QED
        BY <2>t, <4>2
    <3>2. \A i \in 1 .. Len(w) : i + 1 \in 1 .. Len(w) =>
            (w[i + 1].kind = "note" => w[i].kind = "updated" /\ w[i].n = w[i + 1].n)
      <4> SUFFICES ASSUME NEW i \in 1 .. Len(w), i + 1 \in 1 .. Len(w), w[i + 1].kind = "note"
                   PROVE  w[i].kind = "updated" /\ w[i].n = w[i + 1].n
        OBVIOUS
      <4>1. CASE i + 1 = Len(w)
        <5>1. i = Len(bellWire) + 1
          BY <3>1, <4>1
        <5> QED
          BY <2>13, <3>1, <4>1, <5>1
      <4>2. CASE i + 1 # Len(w)
        <5>1. i + 1 # Len(bellWire) + 1
          BY <2>13, <3>1
        <5>2. i \in 1 .. Len(bellWire) /\ i + 1 \in 1 .. Len(bellWire)
          BY <3>1, <4>2, <5>1
        <5> QED
          BY <2>15, <3>1, <5>2
      <4> QED
        BY <4>1, <4>2
    <3>3. /\ w # <<>> /\ Len(bellWire) + 1 \in 1 .. Len(w) /\ w[Len(bellWire) + 1].kind = "updated"
          /\ w[Len(w)].n = n
      BY <2>13, <3>1
    <3>4. WirePairs'
      BY <2>5, <2>14, <2>17, <3>1, <3>2 DEF WirePairs, Ringing!Events
    <3>5. ~NoCountComes'
      BY <2>14, <3>3, Zenon DEF NoCountComes
    <3>6. ~bellStale' => n = bellUnread /\ n # 0
      BY <2>5, <2>17 DEF Ringing!Handlers
    <3>7. BellKnows'
      BY <2>5, <2>14, <3>3, <3>5, <3>6 DEF BellKnows
    <3> QED
      BY <2>10, <2>12, <3>4, <3>7 DEF BellInv
  <2>18. CASE ~bellOnline
    <3>1. bellWire = <<>> /\ bellWire' = <<>>
      BY <1>t, <2>5, <2>18
    <3>2. ~bellMissed' => bellSeed.at = "asking" /\ item = "none"
      BY <2>5, <2>18, Zenon
    <3>3. WirePairs'
      BY <3>1 DEF WirePairs
    <3>4. BellKnows'
      BY <2>5, <3>1, <3>2 DEF BellKnows
    <3> QED
      BY <2>10, <2>12, <3>3, <3>4 DEF BellInv
  <2> QED
    BY <1>t, <2>16, <2>17, <2>18
<1>7. CASE Ringing!ReadSeed
  <2>1. /\ bellSeed.at = "asking" /\ bellSeed' = [bellSeed EXCEPT !.at = "read", !.n = bellUnread]
        /\ UNCHANGED <<bellUnread, bellHandler, bellWire, bellOnline, viewing, badge, item,
                       panel, bellStale, bellMissed>>
    BY <1>7 DEF Ringing!ReadSeed, Ringing!screen
  <2>2. /\ bellSeed' \in [at : {"asking", "read", "shown"}, n : 0 .. Cardinality(Letters),
                          allowed : BOOLEAN]
        /\ bellSeed'.at = "read" /\ bellSeed'.n = bellUnread
    BY <1>t, <2>1
  <2>3. BellFlags' /\ BellCounts' /\ WirePairs'
    BY <1>i, <2>1 DEF BellFlags, BellCounts, WirePairs, SentLetters
  <2>4. BellRecords'
    BY <1>i, <2>1, <2>2 DEF BellRecords
  <2>5. BellKnows'
    BY <1>i, <2>1, <2>2 DEF BellKnows, BellQuiet, NoCountComes
  <2> QED
    BY <2>3, <2>4, <2>5 DEF BellInv
<1>8. CASE Ringing!ShowSeed
  <2>1. /\ bellSeed.at = "read" /\ bellSeed' = [bellSeed EXCEPT !.at = "shown"]
        /\ badge' = bellSeed.n
        /\ item' = IF bellSeed.allowed /\ bellSeed.n > 0 THEN "unread" ELSE item
        /\ UNCHANGED <<bellUnread, bellHandler, bellWire, bellOnline, viewing, panel,
                       bellStale, bellMissed>>
    BY <1>8 DEF Ringing!ShowSeed
  <2>2. /\ bellSeed' \in [at : {"asking", "read", "shown"}, n : 0 .. Cardinality(Letters),
                          allowed : BOOLEAN]
        /\ bellSeed'.at = "shown" /\ badge' \in 0 .. Cardinality(Letters)
    BY <1>t, <2>1
  <2>3. /\ item' \in {"none", "unread", "read"}
        /\ bellSeed.n = 0 => item' = item
    BY <1>t, <2>1
  <2>4. BellFlags'
    BY <1>t, <2>1, <2>3 DEF BellFlags
  <2>5. BellCounts' /\ WirePairs' /\ BellRecords'
    BY <1>i, <2>1, <2>2 DEF BellCounts, WirePairs, SentLetters, BellRecords
  <2>6. BellKnows'
    <3>1. bellWire = <<>> => NoCountComes
      BY DEF NoCountComes
    <3> QED
      BY <1>i, <2>1, <2>2, <2>3, <3>1 DEF BellKnows, BellQuiet, NoCountComes
  <2> QED
    BY <2>4, <2>5, <2>6 DEF BellInv
<1>9. CASE Ringing!Receive
  <2>1. PICK w : w = Tail(bellWire)
    OBVIOUS
  <2>2. PICK e : e = Head(bellWire)
    OBVIOUS
  <2>3. /\ bellWire # <<>> /\ bellWire' = w
        /\ e.kind = "updated" => badge' = e.n /\ item' = IF e.n = 0 THEN "none" ELSE item
        /\ e.kind # "updated" => item' = (IF viewing THEN item ELSE "unread") /\ badge' = badge
        /\ bellMissed' = (bellMissed \/ bellSeed.at = "read")
        /\ UNCHANGED <<bellUnread, bellHandler, bellOnline, viewing, panel, bellSeed, bellStale>>
    BY <1>9, <2>1, <2>2 DEF Ringing!Receive
  <2>4. /\ Len(bellWire) \in Nat /\ Len(bellWire) >= 1 /\ e = bellWire[1]
        /\ e \in [kind : {"updated", "note"}, n : 0 .. Cardinality(Letters)]
        /\ w \in Seq([kind : {"updated", "note"}, n : 0 .. Cardinality(Letters)])
        /\ Len(w) = Len(bellWire) - 1 /\ \A i \in 1 .. Len(w) : w[i] = bellWire[i + 1]
    <3>1. PICK T : T = [kind : {"updated", "note"}, n : 0 .. Cardinality(Letters)]
      OBVIOUS
    <3>2. bellWire \in Seq(T) /\ bellWire # <<>>
      BY <1>t, <2>3, <3>1
    <3>3. /\ Len(bellWire) \in Nat /\ Len(bellWire) >= 1 /\ e = bellWire[1] /\ e \in T
          /\ w \in Seq(T) /\ Len(w) = Len(bellWire) - 1
          /\ \A i \in 1 .. Len(w) : w[i] = bellWire[i + 1]
      BY <2>1, <2>2, <3>2, OneLess
    <3> QED
      BY <3>1, <3>3
  <2>5. badge' \in 0 .. Cardinality(Letters) /\ item' \in {"none", "unread", "read"}
        /\ bellMissed' \in BOOLEAN
    BY <1>t, <2>3, <2>4
  <2>6. BellFlags' /\ BellCounts' /\ BellRecords'
    BY <1>i, <2>3, <2>5 DEF BellFlags, BellCounts, BellRecords, SentLetters
  <2>7. \A i \in 1 .. Len(bellWire) : i + 1 \in 1 .. Len(bellWire) =>
          (bellWire[i + 1].kind = "note" =>
            bellWire[i].kind = "updated" /\ bellWire[i].n = bellWire[i + 1].n)
    BY <1>i DEF WirePairs
  <2>8. \A i \in 1 .. Len(w) : i + 1 \in 1 .. Len(w) =>
          (w[i + 1].kind = "note" => w[i].kind = "updated" /\ w[i].n = w[i + 1].n)
    <3> SUFFICES ASSUME NEW i \in 1 .. Len(w), i + 1 \in 1 .. Len(w), w[i + 1].kind = "note"
                 PROVE  w[i].kind = "updated" /\ w[i].n = w[i + 1].n
      OBVIOUS
    <3>1. /\ i + 1 \in 1 .. Len(bellWire) /\ (i + 1) + 1 \in 1 .. Len(bellWire)
          /\ w[i] = bellWire[i + 1] /\ w[i + 1] = bellWire[(i + 1) + 1]
      BY <2>4
    <3> QED
      BY <2>7, <3>1
  <2>9. WirePairs'
    BY <1>t, <2>3, <2>4, <2>8 DEF WirePairs, Ringing!Events
  <2>10. BellKnows'
    <3> SUFFICES ASSUME BellQuiet', ~bellStale', ~bellMissed'
                 PROVE  /\ w # <<>> => w[Len(w)].n = bellUnread
                        /\ NoCountComes' => /\ bellSeed.at # "read"
                                            /\ bellSeed.at = "shown" => badge' = bellUnread
                        /\ bellUnread = 0 =>
                             IF w = <<>> THEN item' = "none" ELSE w[Len(w)].kind = "updated"
      BY <2>3, Zenon DEF BellKnows
    <3>1. BellQuiet /\ ~bellStale /\ ~bellMissed /\ bellSeed.at # "read"
      BY <1>t, <2>3 DEF BellQuiet
    <3>2. /\ bellWire[Len(bellWire)].n = bellUnread
          /\ NoCountComes /\ bellSeed.at = "shown" => badge = bellUnread
          /\ bellUnread = 0 => bellWire[Len(bellWire)].kind = "updated"
      BY <1>i, <2>3, <3>1 DEF BellKnows
    <3>3. w # <<>> => Len(w) \in 1 .. Len(w) /\ w[Len(w)] = bellWire[Len(bellWire)]
      <4> SUFFICES ASSUME w # <<>>
                   PROVE  Len(w) \in 1 .. Len(w) /\ w[Len(w)] = bellWire[Len(bellWire)]
        OBVIOUS
      <4>1. Len(w) >= 1
        BY <2>4, OneLess
      <4>2. Len(w) \in 1 .. Len(w) /\ Len(w) + 1 = Len(bellWire)
        BY <2>4, <4>1
      <4> QED
        BY <2>4, <4>2
    <3>l. Len(bellWire) \in Nat /\ Len(w) = Len(bellWire) - 1
      BY <2>4
    <3>4. w = <<>> => e = bellWire[Len(bellWire)]
      <4> SUFFICES ASSUME w = <<>> PROVE e = bellWire[Len(bellWire)]
        OBVIOUS
      <4>1. Len(w) = 0
        OBVIOUS
      <4>2. Len(bellWire) = 1
        BY <3>l, <4>1
      <4> QED
        BY <2>4, <4>2
    <3>5. ASSUME NoCountComes', bellSeed.at = "shown" PROVE badge' = bellUnread
      <4>1. \A i \in 1 .. Len(w) : w[i].kind = "note"
        BY <2>3, <3>5 DEF NoCountComes
      <4>2. CASE e.kind = "updated"
        <5>1. Len(w) <= 1
          <6> SUFFICES ASSUME Len(w) > 1 PROVE FALSE
            BY <2>4
          <6>1. 1 \in 1 .. Len(w) /\ 1 + 1 \in 1 .. Len(w)
            BY <2>4
          <6> QED
            BY <2>8, <4>1, <6>1
        <5>2. CASE Len(w) = 0
          <6>1. w = <<>>
            BY <2>4, <5>2
          <6> QED
            BY <2>3, <3>2, <3>4, <4>2, <6>1
        <5>3. CASE Len(w) = 1
          <6>5. Len(bellWire) = Len(w) + 1
            BY <3>l
          <6>0. Len(bellWire) = 1 + 1
            BY <5>3, <6>5, Zenon
          <6>1. 1 \in 1 .. Len(bellWire) /\ 1 + 1 \in 1 .. Len(bellWire) /\ 1 \in 1 .. Len(w)
            BY <5>3, <6>0
          <6>4. w[1] = bellWire[1 + 1]
            BY <2>4, <6>1
          <6>2. bellWire[1].n = bellWire[1 + 1].n
            BY <2>7, <4>1, <6>1, <6>4
          <6>3. bellWire[1 + 1].n = bellUnread
            BY <3>2, <6>0
          <6> QED
            BY <2>3, <2>4, <4>2, <6>2, <6>3
        <5> QED
          BY <2>4, <5>1, <5>2, <5>3
      <4>3. CASE e.kind # "updated"
        <5>1. NoCountComes
          <6> SUFFICES ASSUME NEW i \in 1 .. Len(bellWire) PROVE bellWire[i].kind = "note"
            BY DEF NoCountComes
          <6>1. CASE i = 1
            BY <2>4, <4>3, <6>1
          <6>2. CASE i # 1
            <7>1. i - 1 \in 1 .. Len(w) /\ w[i - 1] = bellWire[(i - 1) + 1] /\ (i - 1) + 1 = i
              BY <2>4, <6>2
            <7> QED
              BY <4>1, <7>1
          <6> QED
            BY <6>1, <6>2
        <5> QED
          BY <2>3, <3>2, <3>5, <4>3, <5>1
      <4> QED
        BY <4>2, <4>3
    <3>6. bellUnread = 0 => IF w = <<>> THEN item' = "none" ELSE w[Len(w)].kind = "updated"
      BY <2>3, <3>2, <3>3, <3>4
    <3> QED
      BY <3>1, <3>2, <3>3, <3>5, <3>6
  <2> QED
    BY <2>6, <2>9, <2>10 DEF BellInv
<1>10. CASE Ringing!OpenBell \/ Ringing!MarkAllRead \/ Ringing!Go \/ Ringing!Reconnect
  <2>1. /\ UNCHANGED <<bellUnread, bellHandler, bellWire, badge, bellSeed, bellStale, bellMissed>>
        /\ item' \in {"none", "unread", "read"} /\ (item = "none" => item' = "none")
        /\ panel' \in BOOLEAN /\ viewing' \in BOOLEAN /\ bellOnline' \in {bellOnline, TRUE}
    BY <1>10, <1>t DEF Ringing!OpenBell, Ringing!MarkAllRead, Ringing!Go, Ringing!Reconnect, Ringing!screen
  <2>2. BellFlags'
    BY <1>t, <2>1 DEF BellFlags
  <2>3. BellCounts' /\ BellRecords'
    BY <1>i, <2>1 DEF BellCounts, BellRecords, SentLetters
  <2>4. WirePairs'
    <3>1. bellOnline' \/ bellWire' = <<>>
      <4>1. CASE bellOnline' = bellOnline
        BY <1>t, <2>1, <4>1
      <4>2. CASE bellOnline' = TRUE
        BY <4>2
      <4> QED
        BY <2>1, <4>1, <4>2
    <3> QED
      BY <1>i, <2>1, <3>1 DEF WirePairs
  <2>5. BellKnows'
    BY <1>i, <2>1 DEF BellKnows, BellQuiet, NoCountComes
  <2> QED
    BY <2>2, <2>3, <2>4, <2>5 DEF BellInv
<1>11. CASE Ringing!CutOff
  <2>1. /\ bellOnline' = FALSE /\ bellWire' = <<>>
        /\ bellMissed' = (bellMissed \/ bellWire # <<>>)
        /\ UNCHANGED <<bellUnread, bellHandler, viewing, badge, item, panel, bellSeed, bellStale>>
    BY <1>11 DEF Ringing!CutOff, Ringing!screen
  <2>2. BellFlags'
    BY <1>t, <2>1 DEF BellFlags
  <2>3. BellCounts' /\ BellRecords' /\ WirePairs'
    BY <1>i, <2>1 DEF BellCounts, BellRecords, WirePairs, SentLetters
  <2>4. BellKnows'
    <3>1. ~bellMissed' => ~bellMissed /\ bellWire = <<>>
      BY <1>t, <2>1
    <3> QED
      BY <1>i, <2>1, <3>1 DEF BellKnows, BellQuiet, NoCountComes
  <2> QED
    BY <2>2, <2>3, <2>4 DEF BellInv
<1>12. CASE Ringing!Reload
  <2>1. /\ bellOnline' = FALSE /\ bellWire' = <<>> /\ badge' = 0 /\ item' = "none"
        /\ panel' = FALSE /\ bellSeed' = [at |-> "asking", n |-> 0, allowed |-> TRUE]
        /\ bellStale' = FALSE /\ bellMissed' = FALSE
        /\ UNCHANGED <<bellUnread, bellHandler, viewing>>
    BY <1>12 DEF Ringing!Reload, Ringing!NewSeed
  <2>2. BellFlags'
    BY <1>t, <2>1 DEF BellFlags
  <2>3. BellCounts' /\ BellRecords' /\ WirePairs'
    BY <1>i, <2>1 DEF BellCounts, BellRecords, WirePairs, SentLetters
  <2>4. BellKnows'
    BY <2>1 DEF BellKnows
  <2> QED
    BY <2>2, <2>3, <2>4 DEF BellInv
<1>13. CASE Ringing!Remount
  <2>1. /\ bellOnline' = FALSE /\ bellWire' = <<>> /\ viewing' = FALSE /\ panel' = FALSE
        /\ bellSeed' = [[at |-> "asking", n |-> 0, allowed |-> TRUE]
                          EXCEPT !.allowed = (item = "none")]
        /\ bellMissed' = (item # "none" /\ (bellMissed \/ bellStale \/ bellWire # <<>>))
        /\ bellStale' = FALSE
        /\ UNCHANGED <<bellUnread, bellHandler, badge, item>>
    BY <1>13 DEF Ringing!Remount, Ringing!NewSeed
  <2>2. BellFlags'
    BY <1>t, <2>1 DEF BellFlags
  <2>3. bellSeed'.at = "asking" /\ bellSeed' \in [at : {"asking", "read", "shown"},
                                                  n : 0 .. Cardinality(Letters), allowed : BOOLEAN]
    <3>1. PICK b \in BOOLEAN : b = (item = "none")
      OBVIOUS
    <3>2. bellSeed' = [at |-> "asking", n |-> 0, allowed |-> b]
      BY <2>1, <3>1
    <3> QED
      BY <3>2
  <2>4. BellCounts' /\ BellRecords' /\ WirePairs'
    BY <1>i, <2>1, <2>3 DEF BellCounts, BellRecords, WirePairs, SentLetters
  <2>5. BellKnows'
    <3>1. ~bellMissed' => item = "none" \/ (~bellMissed /\ ~bellStale /\ bellWire = <<>>)
      BY <1>t, <2>1
    <3> QED
      BY <1>i, <2>1, <2>3, <3>1 DEF BellKnows, BellQuiet
  <2> QED
    BY <2>2, <2>4, <2>5 DEF BellInv
<1>14. CASE Ringing!Next
  BY <1>2, <1>4, <1>5, <1>6, <1>7, <1>8, <1>9, <1>10, <1>11, <1>12, <1>13, <1>14
     DEF Ringing!Next
<1> QED
  BY <1>1, <1>14

LEMMA BellFits == BellInv => Ringing!BellAgreesAtRest
<1> SUFFICES ASSUME BellInv, Ringing!AtRest, ~bellStale, ~bellMissed
             PROVE  badge = bellUnread /\ (bellUnread = 0 => item = "none")
  BY DEF Ringing!BellAgreesAtRest
<1>1. bellWire = <<>> /\ bellSeed.at = "shown" /\ BellQuiet
  BY DEF Ringing!AtRest, BellQuiet
<1>2. NoCountComes
  BY <1>1 DEF NoCountComes
<1> QED
  BY <1>1, <1>2 DEF BellInv, BellKnows
=============================================================================
