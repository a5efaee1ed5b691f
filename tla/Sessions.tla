------------------------------ MODULE Sessions ------------------------------
(***************************************************************************)
(* The sessions of one account.  A driver or client holds one session: a   *)
(* sign-in bumps sessionGeneration, which every token carries.  An         *)
(* administrator holds up to Cap, each with a sid in activeSessions; only  *)
(* a password reset or a deactivation bumps the generation.  A call loads  *)
(* and checks the account, commits its transaction later, and signs tokens *)
(* later still; it waits in flight in between.  Nothing expires here, and  *)
(* a reset's wrong codes are left out: they reach no session.              *)
(***************************************************************************)
EXTENDS Naturals, Sequences, FiniteSets, SequencesExt

CONSTANTS
    Cap,        \* auth.maxAdminSessions
    MaxSids,    \* sign-ins
    MaxGen,     \* generations
    MaxFlight   \* calls at once

ASSUME SessionsAssumption == Cap \in Nat \ {0} /\ MaxSids \in Nat /\ MaxGen \in Nat /\ MaxFlight \in Nat

VARIABLES
    capped,     \* the account's role is one of SESSION_CAPPED_ROLES
    gen,        \* sessionGeneration
    usable,     \* isActive
    trading,    \* the company's status is ACTIVE
    open,       \* activeSessions' sids, oldest first
    nextSid,    \* sign-ins begun
    tokens,     \* every token pair signed, by the generation and sid it carries
    flight,     \* calls between their check and their last step
    reset,      \* the account's PasswordReset record
    audit       \* SessionEvent rows that open or end a session

sessionVars == <<capped, gen, usable, trading, open, nextSid, tokens, flight, reset, audit>>

NoSid == 0
Sids == 0..MaxSids
JwtPayload == [gen : 0..MaxGen, sid : Sids]
PasswordReset == {"none", "sent", "verified", "consumed"}
SessionEvent == [type : {"SIGNED_IN", "SIGNED_OUT", "REVOKED"}, gen : 0..MaxGen, sid : Sids]
Flight == [kind : {"login", "issue", "logout", "reset", "superseded"}, gen : 0..MaxGen, sid : Sids]

SessionsTypeOK ==
    /\ capped \in BOOLEAN /\ usable \in BOOLEAN /\ trading \in BOOLEAN
    /\ gen \in 0..MaxGen /\ nextSid \in Sids
    /\ open \in Seq(1..MaxSids) /\ Len(open) <= Cap /\ Cardinality(Range(open)) = Len(open)
    /\ tokens \subseteq JwtPayload
    /\ flight \subseteq Flight
    /\ reset \in PasswordReset
    /\ audit \subseteq SessionEvent

SessionsInit ==
    /\ capped \in BOOLEAN /\ gen = 0 /\ usable = TRUE /\ trading = TRUE
    /\ open = <<>> /\ nextSid = 0 /\ tokens = {} /\ flight = {} /\ reset = "none" /\ audit = {}

-----------------------------------------------------------------------------

\* _loadActiveUser
LoadActiveUser == usable /\ trading

\* The session checks made of a token on every request, handshake and refresh.
Current(t) == t.gen = gen /\ (capped => t.sid \in Range(open))

\* validateActiveSessionWithScoping
ValidateActiveSession(t) == LoadActiveUser /\ Current(t)

Starts(c) == Cardinality(flight) < MaxFlight /\ flight' = flight \cup {c}

SessionRow(type, g, s) == [type |-> type, gen |-> g, sid |-> s]

\* revokeAllSessions and revokeAndSetPassword, with the row their caller writes.
RevokeAllSessions(rows) ==
    /\ gen < MaxGen /\ gen' = gen + 1
    /\ open' = <<>>
    /\ audit' = audit \cup rows

\* openSession: the oldest sessions beyond the cap are evicted, with a row each.
OpenSession(s, g) ==
    LET merged == Append(open, s)
        evicted == SubSeq(merged, 1, Len(merged) - Cap)
    IN /\ open' = SubSeq(merged, Len(evicted) + 1, Len(merged))
       /\ audit' = audit \cup {SessionRow("REVOKED", g, e) : e \in Range(evicted)} \cup {SessionRow("SIGNED_IN", g, s)}

\* login: the password matched and the account was usable.
Login ==
    /\ LoadActiveUser /\ nextSid < MaxSids
    /\ nextSid' = nextSid + 1
    /\ Starts([kind |-> "login", gen |-> gen, sid |-> nextSid + 1])
    /\ UNCHANGED <<capped, gen, usable, trading, open, tokens, reset, audit>>

\* mobileLogin's transaction: whatever session there was is displaced.
MobileLogin(c) ==
    /\ c.kind = "login" /\ ~capped
    /\ RevokeAllSessions({SessionRow("REVOKED", gen + 1, NoSid), SessionRow("SIGNED_IN", gen + 1, NoSid)})
    /\ flight' = (flight \ {c}) \cup {[kind |-> "issue", gen |-> gen + 1, sid |-> NoSid]}
    /\ UNCHANGED <<capped, usable, trading, nextSid, tokens, reset>>

\* adminLogin's transaction; the tokens will carry the generation loaded before it.
AdminLogin(c) ==
    /\ c.kind = "login" /\ capped
    /\ OpenSession(c.sid, c.gen)
    /\ flight' = (flight \ {c}) \cup {[c EXCEPT !.kind = "issue"]}
    /\ UNCHANGED <<capped, gen, usable, trading, nextSid, tokens, reset>>

IssueTokenPair(c) ==
    /\ c.kind = "issue"
    /\ tokens' = tokens \cup {[gen |-> c.gen, sid |-> c.sid]}
    /\ flight' = flight \ {c}
    /\ UNCHANGED <<capped, gen, usable, trading, open, nextSid, reset, audit>>

\* A refresh that renews whatever token it is shown.
BugRefresh(t) ==
    /\ LoadActiveUser
    /\ Starts([kind |-> "issue", gen |-> gen, sid |-> t.sid])
    /\ UNCHANGED <<capped, gen, usable, trading, open, nextSid, tokens, reset, audit>>

\* refresh: the token's session is checked and a pair for the same session is signed later.
Refresh(t) ==
    /\ ValidateActiveSession(t)
    /\ Starts([kind |-> "issue", gen |-> gen, sid |-> t.sid])
    /\ UNCHANGED <<capped, gen, usable, trading, open, nextSid, tokens, reset, audit>>

Logout(t) ==
    /\ ValidateActiveSession(t)
    /\ Starts([kind |-> "logout", gen |-> t.gen, sid |-> t.sid])
    /\ UNCHANGED <<capped, gen, usable, trading, open, nextSid, tokens, reset, audit>>

\* logout's transaction: an administrator closes this session, anyone else ends every session.
LogoutCommit(c) ==
    /\ c.kind = "logout"
    /\ IF capped
       THEN /\ open' = RemoveFirst(open, c.sid)
            /\ audit' = audit \cup {SessionRow("SIGNED_OUT", gen, c.sid)}
            /\ UNCHANGED gen
       ELSE RevokeAllSessions({SessionRow("SIGNED_OUT", gen + 1, NoSid)})
    /\ flight' = flight \ {c}
    /\ UNCHANGED <<capped, usable, trading, nextSid, tokens, reset>>

\* requestReset, for a holder who is found by phone, replaces any unconsumed record: a
\* completion in flight has loaded one that is gone.  verify opens the window for a password.
RequestReset ==
    /\ capped => usable
    /\ reset' = "sent"
    /\ flight' = {IF c.kind = "reset" THEN [c EXCEPT !.kind = "superseded"] ELSE c : c \in flight}
    /\ UNCHANGED <<capped, gen, usable, trading, open, nextSid, tokens, audit>>
VerifyReset ==
    /\ reset = "sent" /\ reset' = "verified"
    /\ UNCHANGED <<capped, gen, usable, trading, open, nextSid, tokens, flight, audit>>

\* complete: the verified record is loaded, its transaction commits later and consumes the
\* record by its id, without a condition.
CompleteReset ==
    /\ reset = "verified"
    /\ Starts([kind |-> "reset", gen |-> 0, sid |-> NoSid])
    /\ UNCHANGED <<capped, gen, usable, trading, open, nextSid, tokens, reset, audit>>
ResetCommit(c) ==
    /\ c.kind \in {"reset", "superseded"}
    /\ RevokeAllSessions({SessionRow("REVOKED", gen + 1, NoSid)})
    /\ reset' = IF c.kind = "reset" THEN "consumed" ELSE reset
    /\ flight' = flight \ {c}
    /\ UNCHANGED <<capped, usable, trading, nextSid, tokens>>

Deactivate ==
    /\ usable' = FALSE
    /\ RevokeAllSessions({SessionRow("REVOKED", gen + 1, NoSid)})
    /\ UNCHANGED <<capped, trading, nextSid, tokens, flight, reset>>
Activate ==
    /\ ~usable /\ usable' = TRUE
    /\ UNCHANGED <<capped, gen, trading, open, nextSid, tokens, flight, reset, audit>>

\* The operator suspends or reinstates the company: a live check, not a revocation.
SetCompanyStatus ==
    /\ trading' = ~trading
    /\ UNCHANGED <<capped, gen, usable, open, nextSid, tokens, flight, reset, audit>>

SessionsNext ==
    \/ Login \/ RequestReset \/ VerifyReset \/ CompleteReset \/ Deactivate \/ Activate \/ SetCompanyStatus
    \/ \E c \in flight : MobileLogin(c) \/ AdminLogin(c) \/ IssueTokenPair(c) \/ LogoutCommit(c) \/ ResetCommit(c)
    \/ \E t \in tokens : Refresh(t) \/ Logout(t)

-----------------------------------------------------------------------------

\* What the audit log says of the session a token belongs to: it was signed in, it was not
\* ended by name, and no later generation ended everything.
AuditLive(t) ==
    /\ SessionRow("SIGNED_IN", t.gen, t.sid) \in audit
    /\ ~\E r \in audit : /\ r.type # "SIGNED_IN"
                         /\ IF r.sid = NoSid THEN r.gen > t.gen ELSE r.sid = t.sid

\* The audit log answers who is signed in: through racing sign-ins, refreshes, evictions,
\* sign-outs, resets and deactivations, a token's session is current exactly when the log
\* shows it open.
AuditTellsWhoIsIn == \A t \in tokens : Current(t) <=> AuditLive(t)
=============================================================================
