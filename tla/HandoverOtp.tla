----------------------------- MODULE HandoverOtp -----------------------------
(***************************************************************************)
(* The two codes of a handover.  At the station the driver asks for an     *)
(* arrival code, which the client reads out and the driver submits, and    *)
(* the order starts UNLOADING; a delivery code closes it in the same way.  *)
(* The order document keeps salted hashes in an array, Redis keeps the     *)
(* plaintext the client is shown.  Issuing and verifying are several       *)
(* writes each, none of them in a transaction, and they address records by *)
(* their place in the array as it was when they loaded it.                 *)
(*                                                                         *)
(* A code is named by one of Codes, fresh when issued: two codes in use at *)
(* once are never equal by chance.  A wrong guess matches no code.         *)
(***************************************************************************)
EXTENDS Integers, SequencesExt

CONSTANTS
    Codes,          \* identities of codes, reused once out of every store
    Issues,         \* slots of issuing calls, 1..n
    Checks,         \* slots of verifying calls, 1..n
    CodeAttempts,   \* MAX_ATTEMPTS
    MaxMishaps,     \* bound: calls doubled, codes mistyped and processes that die
    NoCode

ASSUME OtpAssumption == NoCode \notin Codes

VARIABLES
    stage,      \* the order's status
    otps,       \* the order's otps array
    shown,      \* Redis: the plaintext per purpose
    issuing,    \* issuing calls
    checking,   \* verifying calls
    unmetered,  \* history: wrong guesses judged by, or left out of, a counter that is behind
    mishaps

otpVars == <<stage, otps, shown, issuing, checking, unmetered, mishaps>>

Purposes == {"ARRIVAL", "DELIVERY"}

\* OtpRecord; missed is a history variable, the wrong guesses judged against the record.
\* Of a used record nothing but its purpose is read again, of an expired one not its hash.
OtpRecord(p, c) == [purpose |-> p, code |-> c, used |-> FALSE, expired |-> FALSE, attempts |-> 0, missed |-> 0]
UsedRecord(p) == [OtpRecord(p, NoCode) EXCEPT !.used = TRUE]

\* MongoDB fills the array with nulls up to an index beyond its end.
Null == OtpRecord("NULL", NoCode)

\* The status the driver must be at for a purpose, and the one its code leads to.
StageOf(p) == IF p = "ARRIVAL" THEN "IN_TRANSIT" ELSE "UNLOADING"
NextStage(p) == IF p = "ARRIVAL" THEN "UNLOADING" ELSE "DELIVERED"

NoIssue == [at |-> "idle", purpose |-> "NONE", code |-> NoCode]
NoCheck == [at |-> "idle", purpose |-> "NONE", index |-> 0, code |-> NoCode]

OtpInit ==
    /\ stage = "IN_TRANSIT"
    /\ otps = <<>>
    /\ shown = [p \in Purposes |-> NoCode]
    /\ issuing = [i \in Issues |-> NoIssue]
    /\ checking = [k \in Checks |-> NoCheck]
    /\ unmetered = 0
    /\ mishaps = 0

\* Codes that are in no store and no call.
Fresh == {c \in Codes :
            /\ \A n \in DOMAIN otps : otps[n].code # c
            /\ \A p \in Purposes : shown[p] # c
            /\ \A i \in Issues : issuing[i].code # c
            /\ \A k \in Checks : checking[k].code # c}

\* One of the mishaps a behaviour may have.
Mishap == mishaps < MaxMishaps /\ mishaps' = mishaps + 1

\* A call takes the first free slot; a call while another runs is a mishap.
FirstFree(calls, n) == \A m \in DOMAIN calls : m < n => calls[m].at # "idle"
Slot(calls, n) ==
    /\ FirstFree(calls, n)
    /\ IF \A m \in DOMAIN calls : calls[m].at = "idle" THEN UNCHANGED mishaps ELSE Mishap

-----------------------------------------------------------------------------
(* issue.                                                                   *)

\* find() and findIndex() of an unused record of the purpose, in time or at all: its index,
\* 0 if there is none.  They stop, and the call throws, at a null.
BugFindActive(p) == SelectInSeq(otps, LAMBDA o : o.purpose \in {p, "NULL"} /\ ~o.used)

FindActive(p) == SelectInSeq(otps, LAMBDA o : o.purpose \in {p, "NULL"} /\ ~o.used /\ ~o.expired)

FirstUnused(p) == SelectInSeq(otps, LAMBDA o : o.purpose \in {p, "NULL"} /\ ~o.used)

\* POST arrive and POST request-delivery-otp, at the status they ask for: with no
\* active record a code is drawn.
Issue(i, p) ==
    /\ issuing[i].at = "idle" /\ stage = StageOf(p)
    /\ FindActive(p) = 0
    /\ Slot(issuing, i)
    /\ Fresh # {}
    /\ issuing' = [issuing EXCEPT ![i] = [at |-> "cache", purpose |-> p,
                                          code |-> CHOOSE c \in Fresh : TRUE]]
    /\ UNCHANGED <<stage, otps, shown, checking, unmetered>>

\* Its plaintext is cached before the record is stored.
CachePlaintext(i) ==
    /\ issuing[i].at = "cache"
    /\ shown' = [shown EXCEPT ![issuing[i].purpose] = issuing[i].code]
    /\ issuing' = [issuing EXCEPT ![i].at = "pull"]
    /\ UNCHANGED <<stage, otps, checking, unmetered, mishaps>>

\* $pull: every unused record of the purpose goes, whatever was read before.
PullUnused(i) ==
    /\ issuing[i].at = "pull"
    /\ otps' = SelectSeq(otps, LAMBDA o : ~(o.purpose = issuing[i].purpose /\ ~o.used))
    /\ issuing' = [issuing EXCEPT ![i].at = "push"]
    /\ UNCHANGED <<stage, shown, checking, unmetered, mishaps>>

PushRecord(i) ==
    /\ issuing[i].at = "push"
    /\ otps' = Append(otps, OtpRecord(issuing[i].purpose, issuing[i].code))
    /\ issuing' = [issuing EXCEPT ![i] = NoIssue]
    /\ UNCHANGED <<stage, shown, checking, unmetered, mishaps>>

-----------------------------------------------------------------------------
(* verify.                                                                  *)

\* A lockout one guess too late.
BugVerdict(n, code) ==
    CASE n = 0 -> "NOT_FOUND"
      [] n # 0 /\ otps[n] = Null -> "THROWS"
      [] n # 0 /\ otps[n].expired -> "EXPIRED"
      [] n # 0 /\ ~otps[n].expired /\ otps[n].attempts > CodeAttempts -> "LOCKED_OUT"
      [] OTHER -> IF otps[n].code = code THEN "MATCH" ELSE "MISMATCH"

\* OtpPrimitivesService.verify.
Verdict(n, code) ==
    CASE n = 0 -> "NOT_FOUND"
      [] n # 0 /\ otps[n] = Null -> "THROWS"
      [] n # 0 /\ otps[n].expired -> "EXPIRED"
      [] n # 0 /\ ~otps[n].expired /\ otps[n].attempts >= CodeAttempts -> "LOCKED_OUT"
      [] OTHER -> IF otps[n].code = code THEN "MATCH" ELSE "MISMATCH"

\* The driver submits a code: the record is loaded and judged, and a code that is
\* refused outright ends the call.  The driver's check and the load are one step, the
\* transition checks the status again.
Verify(k, p, code) ==
    LET n == FirstUnused(p)
        v == Verdict(n, code)
    IN  /\ checking[k].at = "idle" /\ stage = StageOf(p)
        /\ v \in {"MATCH", "MISMATCH"}
        /\ IF v = "MATCH"
           THEN /\ checking' = [checking EXCEPT ![k] = [NoCheck EXCEPT !.at = "mark", !.purpose = p, !.index = n]]
                /\ UNCHANGED <<otps, unmetered>>
           ELSE /\ checking' = [checking EXCEPT ![k] =
                                 [NoCheck EXCEPT !.at = "count", !.index = n, !.code = otps[n].code]]
                /\ otps' = [otps EXCEPT ![n].missed = @ + 1]
                /\ unmetered' = unmetered + (IF \E j \in Checks : checking[j].code = otps[n].code THEN 1 ELSE 0)
        /\ UNCHANGED <<stage, shown, issuing>>

\* The code the client reads off the screen: peekCurrent shows the cached plaintext
\* while some record of the purpose is active.
SubmitShown(k, p) ==
    /\ FindActive(p) # 0 /\ otps[FindActive(p)] # Null /\ shown[p] # NoCode
    /\ Slot(checking, k)
    /\ Verify(k, p, shown[p])

\* A code mistyped, or one of the others the client was told of before.
SubmitOther(k, p) ==
    /\ FirstFree(checking, k) /\ Mishap
    /\ \E c \in Codes \cup {NoCode} : Verify(k, p, c)

\* $inc attempts of whatever record is at the index now, if there is one.
CountMismatch(k) ==
    LET n == checking[k].index
        c == checking[k].code
        here == n \in DOMAIN otps
        elsewhere == \E m \in DOMAIN otps \ {n} : otps[m].code = c
    IN  /\ checking[k].at = "count"
        /\ otps' = IF here /\ otps[n] # Null THEN [otps EXCEPT ![n].attempts = @ + 1] ELSE otps
        /\ unmetered' = unmetered + (IF elsewhere THEN 1 ELSE 0)
        /\ checking' = [checking EXCEPT ![k] = NoCheck]
        /\ UNCHANGED <<stage, shown, issuing, mishaps>>

\* $set usedAt of whatever record is at the index now.  Beyond the end a record is made that
\* carries nothing else, behind nulls where the array is shorter still; a null is refused.
MarkUsed(k) ==
    LET n == checking[k].index
        padded == [m \in 1..n |-> IF m \in DOMAIN otps THEN otps[m] ELSE IF m < n THEN Null ELSE UsedRecord("NONE")]
        refused == n \in DOMAIN otps /\ otps[n] = Null
    IN  /\ checking[k].at = "mark"
        /\ otps' = CASE refused -> otps
                     [] n \in DOMAIN otps /\ ~refused -> [otps EXCEPT ![n] = UsedRecord(@.purpose)]
                     [] OTHER -> padded
        /\ checking' = [checking EXCEPT ![k] =
                         IF refused THEN NoCheck ELSE [@ EXCEPT !.at = "clear", !.index = 0]]
        /\ UNCHANGED <<stage, shown, issuing, unmetered, mishaps>>

ClearCache(k) ==
    /\ checking[k].at = "clear"
    /\ shown' = [shown EXCEPT ![checking[k].purpose] = NoCode]
    /\ checking' = [checking EXCEPT ![k].at = "move"]
    /\ UNCHANGED <<stage, otps, issuing, unmetered, mishaps>>

\* The transition the code authorises, refused when the order has moved on.
Advance(k) ==
    LET p == checking[k].purpose
    IN  /\ checking[k].at = "move"
        /\ stage' = IF stage = StageOf(p) THEN NextStage(p) ELSE stage
        /\ checking' = [checking EXCEPT ![k] = NoCheck]
        /\ UNCHANGED <<otps, shown, issuing, unmetered, mishaps>>

-----------------------------------------------------------------------------
\* A code's half hour ends, long after the call that issued it, and the plaintext goes
\* with it.
CodeExpires(c) ==
    /\ c \in Codes \ Fresh
    /\ \A i \in Issues : issuing[i].code # c
    /\ otps' = [n \in DOMAIN otps |->
                 IF otps[n].code = c THEN [otps[n] EXCEPT !.expired = TRUE, !.code = NoCode, !.missed = 0]
                 ELSE otps[n]]
    /\ shown' = [p \in Purposes |-> IF shown[p] = c THEN NoCode ELSE shown[p]]
    /\ UNCHANGED <<stage, issuing, checking, unmetered, mishaps>>

\* The process dies with a call half done.
IssueDies(i) ==
    /\ issuing[i].at # "idle" /\ Mishap
    /\ issuing' = [issuing EXCEPT ![i] = NoIssue]
    /\ UNCHANGED <<stage, otps, shown, checking, unmetered>>

CheckDies(k) ==
    /\ checking[k].at # "idle" /\ Mishap
    /\ unmetered' = unmetered + (IF checking[k].at = "count" THEN 1 ELSE 0)
    /\ checking' = [checking EXCEPT ![k] = NoCheck]
    /\ UNCHANGED <<stage, otps, shown, issuing>>

\* invalidateActive, when an administrator completes the order without codes.
InvalidateActive ==
    /\ stage \in {"IN_TRANSIT", "UNLOADING"}
    /\ \A n \in DOMAIN otps : otps[n] # Null
    /\ stage' = "DELIVERED"
    /\ otps' = [n \in DOMAIN otps |-> UsedRecord(otps[n].purpose)]
    /\ shown' = [p \in Purposes |-> NoCode]
    /\ UNCHANGED <<issuing, checking, unmetered, mishaps>>

IssueSteps == \E i \in Issues : CachePlaintext(i) \/ PullUnused(i) \/ PushRecord(i)
CheckSteps == \E k \in Checks : CountMismatch(k) \/ MarkUsed(k) \/ ClearCache(k) \/ Advance(k)

OtpNext ==
    \/ \E i \in Issues, p \in Purposes : Issue(i, p)
    \/ IssueSteps
    \/ \E k \in Checks, p \in Purposes : SubmitShown(k, p) \/ SubmitOther(k, p)
    \/ CheckSteps
    \/ \E c \in Codes : CodeExpires(c)
    \/ \E i \in Issues : IssueDies(i)
    \/ \E k \in Checks : CheckDies(k)
    \/ InvalidateActive

\* A call that runs goes on, codes expire, and a driver who stands at the station
\* keeps asking for a code while there is none and keeps submitting the one shown.
OtpFairness ==
    /\ \A i \in Issues : WF_otpVars(CachePlaintext(i) \/ PullUnused(i) \/ PushRecord(i))
    /\ \A k \in Checks : WF_otpVars(CountMismatch(k) \/ MarkUsed(k) \/ ClearCache(k) \/ Advance(k))
    /\ \A c \in Codes : WF_otpVars(CodeExpires(c))
    /\ WF_otpVars(\E i \in Issues, p \in Purposes : Issue(i, p))
    /\ SF_otpVars(\E k \in Checks, p \in Purposes : SubmitShown(k, p))

OtpSpec == OtpInit /\ [][OtpNext]_otpVars /\ OtpFairness

-----------------------------------------------------------------------------
\* MAX_ATTEMPTS holds although the counter is read before it is written and is addressed by
\* an index that issuing calls shift: a code that can still be guessed has been guessed wrong
\* at most that often, but for each guess judged while another waited to be counted, and each
\* that never was, its call having died or its record having moved.
WrongGuessesLockOut ==
    \A n \in DOMAIN otps : ~otps[n].used => otps[n].missed <= CodeAttempts + unmetered

\* The handover goes on: whatever the two stores are left holding by racing issues,
\* wrong guesses, lockouts and dead calls, the order is delivered in the end.
HandoverGoesOn == <>(stage = "DELIVERED")
=============================================================================
