------------------------------ MODULE PhoneChange ------------------------------
(***************************************************************************)
(* A user changes the phone number of the account, which is also the name  *)
(* the account signs in with.  A code is texted to the new number and the  *)
(* number becomes the account's when the code comes back.  Requesting and  *)
(* confirming are several writes each, in no transaction, and calls of one *)
(* user may race: a second request supersedes the pending record of the    *)
(* first while a confirmation has it loaded.                               *)
(*                                                                         *)
(* A code is one of PhoneCodes, drawn once.  The plaintext is also cached  *)
(* in Redis, where nothing reads it.                                       *)
(***************************************************************************)
EXTENDS Integers, FiniteSets, FiniteSetsExt

CONSTANTS
    Holders,        \* users
    Phones,         \* numbers
    FirstPhone,     \* the number each account was created with
    PhoneCodes,     \* bound: codes ever drawn
    Requesters,     \* calls of requestVerification
    Confirmers,     \* calls of confirm
    PhoneAttempts,  \* MAX_ATTEMPTS
    NoPhone

ASSUME PhoneAssumption ==
    /\ FirstPhone \in [Holders -> Phones]
    /\ \A u, v \in Holders : FirstPhone[u] = FirstPhone[v] => u = v
    /\ NoPhone \notin Phones \cup PhoneCodes \cup Holders

VARIABLES
    phone,      \* User.phone
    pending,    \* the unconsumed PhoneVerification documents
    asking,     \* requesting calls
    answering,  \* confirming calls
    textedTo,   \* ghost: the number each code was texted to
    drawn,      \* codes drawn so far
    provedBy    \* ghost: the code that gave the account its number, if one did

phoneVars == <<phone, pending, asking, answering, textedTo, drawn, provedBy>>

PhoneVerification(u, n, c, t) == [user |-> u, number |-> n, code |-> c, attempts |-> 0, createdAt |-> t]

NoAsking == [at |-> "idle", user |-> NoPhone, number |-> NoPhone, code |-> NoPhone]
NoAnswer == [at |-> "idle", user |-> NoPhone, number |-> NoPhone, code |-> NoPhone]

PhoneInit ==
    /\ phone = FirstPhone
    /\ pending = {}
    /\ asking = [q \in Requesters |-> NoAsking]
    /\ answering = [k \in Confirmers |-> NoAnswer]
    /\ textedTo = [c \in PhoneCodes |-> NoPhone]
    /\ drawn = {}
    /\ provedBy = [u \in Holders |-> NoPhone]

\* findAnyByPhone, and what the unique index on phone refuses.
HeldByOther(u, n) == \E v \in Holders \ {u} : phone[v] = n

\* All pending documents but those of a code.
Without(c) == {d \in pending : d.code # c}

\* The clock, as far as the pending documents can tell.
Now == 1 + Max({0} \cup {d.createdAt : d \in pending})

-----------------------------------------------------------------------------
(* requestVerification.                                                     *)

\* POST me/phone/verification: a number someone holds is refused before a code is drawn.
RequestVerification(q, u, n) ==
    /\ asking[q].at = "idle" /\ ~HeldByOther(u, n)
    /\ \E c \in PhoneCodes \ drawn :
          /\ drawn' = drawn \cup {c}
          /\ asking' = [asking EXCEPT ![q] = [at |-> "supersede", user |-> u, number |-> n, code |-> c]]
    /\ UNCHANGED <<phone, pending, answering, textedTo, provedBy>>

\* deleteMany of the user's unconsumed records,
SupersedePending(q) ==
    /\ asking[q].at = "supersede"
    /\ pending' = {d \in pending : d.user # asking[q].user}
    /\ asking' = [asking EXCEPT ![q].at = "store"]
    /\ UNCHANGED <<phone, answering, textedTo, drawn, provedBy>>

StoreVerification(q) ==
    /\ asking[q].at = "store"
    /\ pending' = pending \cup {PhoneVerification(asking[q].user, asking[q].number, asking[q].code, Now)}
    /\ asking' = [asking EXCEPT ![q].at = "send"]
    /\ UNCHANGED <<phone, answering, textedTo, drawn, provedBy>>

\* then the message: it goes out, or the provider reports a failure, whether or not the
\* message got through.
SendCode(q) ==
    /\ asking[q].at = "send"
    /\ \/ /\ textedTo' = [textedTo EXCEPT ![asking[q].code] = asking[q].number]
          /\ \E at \in {"idle", "undo"} :
                asking' = [asking EXCEPT ![q] = IF at = "idle" THEN NoAsking ELSE [@ EXCEPT !.at = at]]
       \/ /\ UNCHANGED textedTo
          /\ asking' = [asking EXCEPT ![q].at = "undo"]
    /\ UNCHANGED <<phone, pending, answering, drawn, provedBy>>

\* A failed send takes its record back.
UndoRequest(q) ==
    /\ asking[q].at = "undo"
    /\ pending' = Without(asking[q].code)
    /\ asking' = [asking EXCEPT ![q] = NoAsking]
    /\ UNCHANGED <<phone, answering, textedTo, drawn, provedBy>>

-----------------------------------------------------------------------------
(* confirm.                                                                 *)

\* The user's newest unconsumed record, if there is one.
NewestPending(u) == {d \in pending : d.user = u /\ \A e \in pending : e.user = u => e.createdAt <= d.createdAt}

\* POST me/phone/verification/confirm with a code some handset received, or with none
\* of them: the newest record is loaded and judged.  A missing or a locked record
\* changes nothing.
Confirm(k, u, c) ==
    /\ answering[k].at = "idle"
    /\ c = NoPhone \/ (c \in PhoneCodes /\ textedTo[c] # NoPhone)
    /\ \E d \in NewestPending(u) :
          /\ d.attempts < PhoneAttempts
          /\ answering' = [answering EXCEPT ![k] = [at |-> IF d.code = c THEN "consume" ELSE "count",
                                                   user |-> u, number |-> d.number, code |-> d.code]]
    /\ UNCHANGED <<phone, pending, asking, textedTo, drawn, provedBy>>

\* A wrong code costs the record an attempt, if it is still there.
CountWrongCode(k) ==
    /\ answering[k].at = "count"
    /\ pending' = {IF d.code = answering[k].code /\ d.attempts < PhoneAttempts
                   THEN [d EXCEPT !.attempts = @ + 1] ELSE d : d \in pending}
    /\ answering' = [answering EXCEPT ![k] = NoAnswer]
    /\ UNCHANGED <<phone, asking, textedTo, drawn, provedBy>>

\* The right one is consumed first,
ConsumeCode(k) ==
    /\ answering[k].at = "consume"
    /\ pending' = Without(answering[k].code)
    /\ answering' = [answering EXCEPT ![k].at = "write"]
    /\ UNCHANGED <<phone, asking, textedTo, drawn, provedBy>>

\* The number the account takes: that of the record that was loaded, not of the record
\* a later request has put in its place.
BugNumberOf(k) ==
    CHOOSE n \in IF NewestPending(answering[k].user) = {} THEN {answering[k].number}
                 ELSE {d.number : d \in NewestPending(answering[k].user)} : TRUE

NumberOf(k) == answering[k].number

\* and the number is written last, unless the unique index refuses it.
WritePhone(k) ==
    LET u == answering[k].user
    IN  /\ answering[k].at = "write"
        /\ IF HeldByOther(u, NumberOf(k)) THEN UNCHANGED <<phone, provedBy>>
           ELSE /\ phone' = [phone EXCEPT ![u] = NumberOf(k)]
                /\ provedBy' = [provedBy EXCEPT ![u] = answering[k].code]
        /\ answering' = [answering EXCEPT ![k] = NoAnswer]
        /\ UNCHANGED <<pending, asking, textedTo, drawn>>

\* PATCH /users/:id writes a number without a code.
EditProfile(u, n) ==
    /\ ~HeldByOther(u, n) /\ phone[u] # n
    /\ phone' = [phone EXCEPT ![u] = n]
    /\ provedBy' = [provedBy EXCEPT ![u] = NoPhone]
    /\ UNCHANGED <<pending, asking, answering, textedTo, drawn>>

\* The TTL index drops a record at its expiry.
VerificationExpires(c) ==
    /\ Without(c) # pending
    /\ pending' = Without(c)
    /\ UNCHANGED <<phone, asking, answering, textedTo, drawn, provedBy>>

PhoneNext ==
    \/ \E q \in Requesters :
          \/ \E u \in Holders, n \in Phones : RequestVerification(q, u, n)
          \/ SupersedePending(q) \/ StoreVerification(q) \/ SendCode(q) \/ UndoRequest(q)
    \/ \E k \in Confirmers :
          \/ \E u \in Holders, c \in PhoneCodes \cup {NoPhone} : Confirm(k, u, c)
          \/ CountWrongCode(k) \/ ConsumeCode(k) \/ WritePhone(k)
    \/ \E u \in Holders, n \in Phones : EditProfile(u, n)
    \/ \E c \in PhoneCodes : VerificationExpires(c)

PhoneSpec == PhoneInit /\ [][PhoneNext]_phoneVars

-----------------------------------------------------------------------------
\* A number confirmed by a code is the number that code was texted to, however requests,
\* confirmations, failed messages and profile edits of one user and of another overlap.
NumberWasTexted ==
    \A u \in Holders : provedBy[u] \in PhoneCodes => textedTo[provedBy[u]] = phone[u]
=============================================================================
