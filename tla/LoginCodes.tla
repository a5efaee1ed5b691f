----------------------------- MODULE LoginCodes -----------------------------
(***************************************************************************)
(* Signing an administrator in by a code sent to a phone number, and the   *)
(* Redis counters that bound guessing: requests per window, refusals that  *)
(* call for a proof of work, failures that block the number.  A counter is *)
(* incremented and given its expiry in two commands; a process that dies   *)
(* in between leaves a counter that never expires.  The number belongs to  *)
(* one active administrator.                                               *)
(***************************************************************************)
EXTENDS Sessions

CONSTANTS
    Verifiers,      \* requests to verify a code being served at once
    MaxRequests,    \* loginOtp.maxRequests
    ChallengeAfter, \* loginOtp.challengeAfter
    FailThreshold,  \* loginOtp.failThreshold
    MaxAttempts,    \* loginOtp.maxAttempts
    MaxCount,       \* where counters stop, beyond every limit
    MaxCodes,       \* codes issued
    MaxVerifyDeaths \* processes that die while verifying

ASSUME LoginCodesAssumption ==
    /\ MaxRequests \in Nat /\ ChallengeAfter \in Nat \ {0} /\ FailThreshold \in Nat \ {0}
    /\ MaxCount \in Nat /\ MaxCount > MaxRequests /\ MaxCount >= ChallengeAfter /\ MaxCount >= FailThreshold
    /\ MaxAttempts \in Nat /\ MaxCodes \in Nat /\ MaxVerifyDeaths \in Nat
    /\ IsFiniteSet(Verifiers) /\ Verifiers # {}

VARIABLES
    rate, hits, fails,  \* counters and whether they expire
    blocked,
    seeds,              \* live proof-of-work seeds
    sending,            \* requests between superseding the old code and storing the new one
    codes,              \* unconsumed LoginCode records, with the guesses compared with each
    issued,             \* codes issued so far
    guess,              \* what each verifier is doing
    guessed,            \* wrong guesses compared since the counters were last cleared or lapsed
    died

codeVars == <<rate, hits, fails, blocked, seeds, sending, codes, issued, guess, guessed, died>>

Counter == [n : Nat, ttl : BOOLEAN]
Zero == [n |-> 0, ttl |-> FALSE]
Waiting == [pc |-> "idle"]
LoginCode == [id : 1..MaxCodes, attempts : Nat, tried : Nat]

CodesTypeOK ==
    /\ rate \in Counter /\ hits \in Counter /\ fails \in Counter
    /\ blocked \in BOOLEAN /\ seeds \in 0..1
    /\ sending \in 0..MaxCodes /\ codes \subseteq LoginCode /\ issued \in 0..MaxCodes
    /\ \A v \in Verifiers : guess[v] = Waiting \/ guess[v] \in
          [pc : {"checked", "wrong", "fail", "block", "right", "clear"}, id : 0..MaxCodes, gen : 0..MaxGen, sid : Sids]
    /\ guessed \in Nat /\ died \in 0..MaxVerifyDeaths

CodesInit ==
    /\ rate = Zero /\ hits = Zero /\ fails = Zero /\ blocked = FALSE /\ seeds = 0
    /\ sending = 0 /\ codes = {} /\ issued = 0
    /\ guess = [v \in Verifiers |-> Waiting] /\ guessed = 0 /\ died = 0

-----------------------------------------------------------------------------

\* INCR, and EXPIRE when the key is new; a counter beyond every limit stays where it is.
Incr(k) == [n |-> IF k.n = MaxCount THEN k.n ELSE k.n + 1, ttl |-> IF k.n = 0 THEN TRUE ELSE k.ttl]

\* A request that gets as far as a code: the unconsumed ones are deleted, then one is created.
Supersede ==
    /\ issued + sending < MaxCodes
    /\ codes' = {} /\ sending' = sending + 1

\* requestCode, not challenged: the request is counted, and refused beyond the limit.
RegisterCodeRequest ==
    /\ ~blocked /\ hits.n < ChallengeAfter
    /\ rate' = Incr(rate)
    /\ IF rate.n + 1 > MaxRequests
       THEN hits' = Incr(hits) /\ UNCHANGED <<codes, sending>>
       ELSE Supersede /\ UNCHANGED hits
    /\ UNCHANGED <<fails, blocked, seeds, issued, guess, guessed, died>>

\* The process dies after the first INCR of the window.
RequestDies ==
    /\ ~blocked /\ hits.n < ChallengeAfter /\ rate.n = 0
    /\ died < MaxVerifyDeaths /\ died' = died + 1
    /\ rate' = [n |-> 1, ttl |-> FALSE]
    /\ UNCHANGED <<hits, fails, blocked, seeds, sending, codes, issued, guess, guessed>>

\* A solution found correct uses its seed up, if the delete succeeds.
SolveChallenge == seeds = 1 /\ seeds' \in {0, 1}

\* requestCode, challenged: without a solution a fresh seed is issued, with one the rate limit
\* is bypassed.
ChallengeRequired ==
    /\ ~blocked /\ hits.n >= ChallengeAfter
    /\ \/ seeds' = 1 /\ UNCHANGED <<codes, sending>>
       \/ SolveChallenge /\ Supersede
    /\ UNCHANGED <<rate, hits, fails, blocked, issued, guess, guessed, died>>

CreateCode ==
    /\ sending > 0
    /\ codes' = codes \cup {[id |-> issued + 1, attempts |-> 0, tried |-> 0]}
    /\ issued' = issued + 1 /\ sending' = sending - 1
    /\ UNCHANGED <<rate, hits, fails, blocked, seeds, guess, guessed, died>>

Newest == CHOOSE c \in codes : \A d \in codes : d.id <= c.id

Idle(pc) == [pc |-> pc, id |-> 0, gen |-> 0, sid |-> NoSid]

\* The block is not looked at.
BugAssertNotBlocked(v) ==
    /\ guess[v] = Waiting
    /\ guess' = [guess EXCEPT ![v] = Idle("checked")]
    /\ UNCHANGED <<rate, hits, fails, blocked, seeds, sending, codes, issued, guessed, died>>

AssertNotBlocked(v) ==
    /\ guess[v] = Waiting /\ ~blocked
    /\ guess' = [guess EXCEPT ![v] = Idle("checked")]
    /\ UNCHANGED <<rate, hits, fails, blocked, seeds, sending, codes, issued, guessed, died>>

\* verifyCode: the newest unconsumed code is loaded; nothing is compared when there is none
\* or its attempts are used up.
VerifyCode(v) ==
    /\ guess[v].pc = "checked"
    /\ LET at(pc, id) == guess' = [guess EXCEPT ![v] = [pc |-> pc, id |-> id, gen |-> gen, sid |-> NoSid]] IN
       IF codes = {} \/ Newest.attempts >= MaxAttempts
       THEN at("fail", 0) /\ UNCHANGED <<codes, guessed>>
       ELSE \/ /\ codes' = (codes \ {Newest}) \cup {[Newest EXCEPT !.tried = @ + 1]}
               /\ guessed' = guessed + 1
               /\ at("wrong", Newest.id)
            \/ at("right", Newest.id) /\ UNCHANGED <<codes, guessed>>
    /\ UNCHANGED <<rate, hits, fails, blocked, seeds, sending, issued, died>>

CountAttempt(v) ==
    /\ guess[v].pc = "wrong"
    /\ codes' = {IF c.id = guess[v].id THEN [c EXCEPT !.attempts = @ + 1] ELSE c : c \in codes}
    /\ guess' = [guess EXCEPT ![v].pc = "fail"]
    /\ UNCHANGED <<rate, hits, fails, blocked, seeds, sending, issued, guessed, died>>

\* recordVerificationFailure
RecordVerificationFailure(v) ==
    /\ guess[v].pc = "fail"
    /\ fails' = Incr(fails)
    /\ guess' = [guess EXCEPT ![v] = IF fails.n + 1 >= FailThreshold THEN [@ EXCEPT !.pc = "block"] ELSE Waiting]
    /\ UNCHANGED <<rate, hits, blocked, seeds, sending, codes, issued, guessed, died>>
SetBlock(v) ==
    /\ guess[v].pc = "block"
    /\ blocked' = TRUE
    /\ guess' = [guess EXCEPT ![v] = Waiting]
    /\ UNCHANGED <<rate, hits, fails, seeds, sending, codes, issued, guessed, died>>

\* The process dies; between INCR and EXPIRE when the failure was the first.
VerifierDies(v) ==
    /\ guess[v] # Waiting
    /\ died < MaxVerifyDeaths /\ died' = died + 1
    /\ fails' \in {fails} \cup {[n |-> 1, ttl |-> FALSE] : k \in {x \in {fails} : guess[v].pc = "fail" /\ x.n = 0}}
    /\ guess' = [guess EXCEPT ![v] = Waiting]
    /\ UNCHANGED <<rate, hits, blocked, seeds, sending, codes, issued, guessed>>

\* The sign-in transaction: the code is consumed by its id alone and a session opened.
SignInByCode(v) ==
    /\ guess[v].pc = "right" /\ nextSid < MaxSids
    /\ codes' = {c \in codes : c.id # guess[v].id}
    /\ nextSid' = nextSid + 1
    /\ OpenSession(nextSid + 1, guess[v].gen)
    /\ guess' = [guess EXCEPT ![v] = [@ EXCEPT !.pc = "clear", !.sid = nextSid + 1]]
    /\ UNCHANGED <<rate, hits, fails, blocked, seeds, sending, issued, guessed, died>>
    /\ UNCHANGED <<capped, gen, usable, trading, tokens, flight, reset>>

\* clearOnSuccess, then the tokens are signed.
ClearOnSuccess(v) ==
    /\ guess[v].pc = "clear"
    /\ rate' = Zero /\ hits' = Zero /\ fails' = Zero /\ blocked' = FALSE /\ guessed' = 0
    /\ tokens' = tokens \cup {[gen |-> guess[v].gen, sid |-> guess[v].sid]}
    /\ guess' = [guess EXCEPT ![v] = Waiting]
    /\ UNCHANGED <<seeds, sending, codes, issued, died>>
    /\ UNCHANGED <<capped, gen, usable, trading, open, nextSid, flight, reset, audit>>

\* Redis expires keys and MongoDB expired codes.  A failure counter at the threshold was
\* started before the block, with the same lifetime, and ends before it.
Lapse ==
    \/ rate.ttl /\ rate' = Zero /\ UNCHANGED <<hits, fails, blocked, seeds, codes, guessed>>
    \/ hits.ttl /\ hits' = Zero /\ UNCHANGED <<rate, fails, blocked, seeds, codes, guessed>>
    \/ fails.ttl /\ fails' = Zero /\ guessed' = 0 /\ UNCHANGED <<rate, hits, blocked, seeds, codes>>
    \/ seeds = 1 /\ seeds' = 0 /\ UNCHANGED <<rate, hits, fails, blocked, codes, guessed>>
    \/ \E c \in codes : codes' = codes \ {c} /\ UNCHANGED <<rate, hits, fails, blocked, seeds, guessed>>
    \/ /\ blocked /\ (fails.ttl => fails.n < FailThreshold)
       /\ blocked' = FALSE /\ guessed' = 0
       /\ UNCHANGED <<rate, hits, fails, seeds, codes>>

LapseNext == Lapse /\ UNCHANGED <<sending, issued, guess, died>>

CodesNext ==
    \/ /\ \/ RegisterCodeRequest \/ RequestDies \/ ChallengeRequired \/ CreateCode \/ LapseNext
          \/ \E v \in Verifiers : \/ AssertNotBlocked(v) \/ VerifyCode(v) \/ CountAttempt(v) \/ RecordVerificationFailure(v)
                                  \/ SetBlock(v) \/ VerifierDies(v)
       /\ UNCHANGED sessionVars
    \/ \E v \in Verifiers : SignInByCode(v) \/ ClearOnSuccess(v)

\* One account signed in to by password and, if it is an administrator's, by code.
AccountNext == (SessionsNext /\ UNCHANGED codeVars) \/ (capped /\ CodesNext)

AccountSpec == SessionsInit /\ CodesInit /\ [][AccountNext]_<<sessionVars, codeVars>>

-----------------------------------------------------------------------------

\* Guessing is metered although every check is a read made before the write it depends on:
\* requests served at once get at most one comparison each beyond the per-code and the
\* cross-code limit, and a process that dies with a guess uncounted gives one more.
GuessesAreMetered ==
    LET slack == Cardinality(Verifiers) - 1 + died IN
    /\ guessed <= FailThreshold + slack
    /\ \A c \in codes : c.tried <= MaxAttempts + slack
=============================================================================
